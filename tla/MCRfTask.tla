------------------------------ MODULE MCRfTask ------------------------------
(* The symmetry of the safety run of RfTask and the view of the run with
   fairness. *)
EXTENDS RfTask, TLC

\* Connections, and requests, are interchangeable.
Symmetric == Permutations(Handlers) \cup Permutations(Requests)

\* What the future of a state depends on.  Nobody counts the writes or looks at
\* whose output a line is, only at whether a response is nothing, a bare marker
\* or more; buffer and event are dead while no handler waits, for the next Issue
\* resets both; a pipe matters to those who read it, a target to a join; and an
\* answered request is done.
Weight(ls) == IF ls = <<>> THEN "none" ELSE IF Empty(ls) THEN "bare" ELSE "more"
Markers(ls) == [n \in DOMAIN ls |-> ls[n].eor]
Reads(i, g) == Reading(i, "read") /\ rd[i].src = g
Present ==
  <<process, gens, pstate, hasManager, reader, expecting, lock, hpc, job,
    [g \in Gens |-> Len(stdin[g])],
    [g \in Gens |-> IF g = process \/ \E i \in Gens : Reads(i, g)
                    THEN Markers(stdout[g]) ELSE <<>>],
    [i \in Gens |-> <<rd[i].pc, {g \in Gens : Reads(i, g)}, rd[i].line.eor>>],
    [h \in Handlers |-> IF hpc[h] = "join" THEN target[h] ELSE 0],
    [h \in Handlers |-> held[h] = <<>>],
    [r \in Requests |-> IF answer[r] \in {"fresh", "pending"} THEN answer[r] ELSE "done"],
    IF lock = NoOne THEN <<>> ELSE <<Weight(lines), event>>>>
=============================================================================
