------------------------------ MODULE TagFlow ------------------------------
(***************************************************************************)
(* What the two ways to copy a tag share (Read Tag: lib/activity_read.py;  *)
(* Auto Copy: lib/activity_main.py): the threads of scan.Scanner and       *)
(* read.Reader, the dialogs they put over themselves (WarningM1Activity,   *)
(* WarningWriteActivity) and WriteActivity with the threads of write.py.   *)
(* Keys reach the topmost activity only and are handled on the Tk thread,  *)
(* as are the calls posted to its event loop; results come on the threads. *)
(***************************************************************************)
EXTENDS Naturals, Sequences, FiniteSets, SequencesExt, FiniteSetsExt

CONSTANTS
  MaxScans,   \* bound on the scans a user asks for
  MaxReads,   \* bound on the readers running at once
  MaxVisits   \* bound on the times a flow is opened

ASSUME FlowAssumption == {MaxScans, MaxReads, MaxVisits} \subseteq Nat \ {0}

VARIABLES
  act,      \* the flow that is open: "menu", "read" or "copy"
  above,    \* the activities on top of it
  a,        \* the flow activity's fields, its screen and its posted calls
  cache,    \* scan.INFOS: the scan whose result it is, 0 before the first
  nscan,    \* scans started so far
  scans,    \* Scanner threads of this activity
  strays,   \* Scanner threads of activities that were left
  left,     \* other jobs that were left: "read", "write"
  reads,    \* Reader threads of this activity, and its completion polls
  w,        \* WarningWriteActivity or WriteActivity
  raced,    \* history: a result met an operation begun after its own
  crowded,  \* history: a job was begun beside one that was left
  visits

rest     == <<left, crowded, visits>>
flowVars == <<act, above, a, cache, nscan, scans, strays, reads, w, raced, rest>>

Buttons == {"none", "rescan", "write", "failed"}
Shown   == {"none", "success", "failed", "no_tag"}
Over    == [st |-> "over", of |-> 0, defer |-> "none", poll |-> "off"]
NoWrite == [state |-> "none", infos |-> 0, bundle |-> 0, job |-> "none", toast |-> FALSE]

\* bar: the progress bar is on the screen; latest: history, the last reader.
Blank == [state |-> "idle", found |-> FALSE, buttons |-> "none", console |-> FALSE,
          bar |-> FALSE, pending |-> "none", reader |-> 0, bundle |-> 0, result |-> 0,
          latest |-> 0, posts |-> {}]

Post(what, id, result) == [what |-> what, id |-> id, result |-> result]
Call(what) == Post(what, 0, "none")

FlowInit ==
  /\ act = "menu" /\ above = <<>> /\ a = Blank /\ cache = 0
  /\ nscan = 0 /\ scans = {} /\ strays = {}
  /\ reads = [i \in 1..MaxReads |-> Over]
  /\ w = NoWrite /\ raced = FALSE /\ visits = 0
  /\ left = {} /\ crowded = FALSE

OnTop(name) == above # <<>> /\ Last(above) = name
KeysOf(flow) == act = flow /\ above = <<>>

-----------------------------------------------------------------------------
(* Scanner and Reader. *)

\* A job begins; PWR may have left another running.
Begins == crowded' = (crowded \/ strays # {} \/ left # {})

\* startScan / _startScan: a new Scanner, whatever an earlier one is doing.
StartScan(b) ==
  /\ nscan < MaxScans
  /\ nscan' = nscan + 1
  /\ scans' = scans \union {nscan + 1}
  /\ Begins
  /\ a' = [b EXCEPT !.state = "scanning", !.found = FALSE, !.buttons = "none", !.bar = TRUE]

\* A tag that is found is cached before the callback.
ScanEnds(k, found) ==
  /\ k \in scans
  /\ scans' = scans \ {k}
  /\ cache' = IF found THEN k ELSE cache

\* The scan of an activity that was left ends: its callback fails on the
\* destroyed canvas, but what it found may have been cached by then.
StrayScan ==
  \E k \in strays, found \in BOOLEAN :
    /\ strays' = strays \ {k}
    /\ cache' = IF found THEN k ELSE cache
    /\ raced' = (raced \/ (found /\ act # "menu" /\ scans = {}))
    /\ UNCHANGED <<act, above, a, nscan, scans, reads, w, rest>>

FreeReads == {i \in 1..MaxReads :
                /\ reads[i].st = "over" /\ reads[i].defer = "none" /\ reads[i].poll = "off"
                /\ a.reader # i
                /\ \A p \in a.posts : p.what = "complete" => p.id # i}

\* Reader.start with the scan in the cache; Auto Copy adds a thread that polls
\* is_reading().
StartRead(b, poll) ==
  /\ FreeReads # {}
  /\ Begins
  /\ LET i == Min(FreeReads) IN
       /\ reads' = [reads EXCEPT ![i] = [st |-> "run", of |-> cache,
                                         defer |-> "none", poll |-> poll]]
       /\ a' = [b EXCEPT !.state = "reading", !.buttons = "none", !.reader = i,
                         !.latest = i, !.bar = TRUE]

\* A later scan or read than i was begun before i's result is handled.  The
\* other races: a second result of a read that raised, drawn before the first;
\* a result put aside for the console just as it closed; an answer taken for
\* that of a later read; the cache set by a scan of an activity that was left.
Overtaken(i) == a.latest # i \/ reads[i].of # nscan

-----------------------------------------------------------------------------
(* Opening and leaving a flow. *)

Open(flow) ==
  /\ act = "menu" /\ visits < MaxVisits
  /\ act' = flow /\ visits' = visits + 1
  /\ StartScan(Blank)
  /\ UNCHANGED <<above, cache, strays, reads, w, raced, left>>

Running == {i \in 1..MaxReads : reads[i].st = "run"}

\* presspm3, stopPM3Task and finish(): calls posted to the canvas go with it,
\* and a result that comes later fails on it (_tkinter.TclError).  But the stop
\* ends one command: the thread goes on with the next (Reader.stop sets a label
\* that nobody reads), and a scan may still set the cache.
Leave ==
  /\ act' = "menu" /\ a' = Blank
  /\ strays' = strays \union scans /\ scans' = {}
  /\ reads' = [i \in 1..MaxReads |-> Over]
  /\ left' = IF Running # {} THEN left \union {"read"} ELSE left
  /\ UNCHANGED <<above, cache, nscan, w, raced, crowded, visits>>

\* A read or a write that was left comes to its end; several of a kind are one.
LeftEnds ==
  \E job \in left :
    /\ left' = left \ {job}
    /\ UNCHANGED <<act, above, a, cache, nscan, scans, strays, reads, w, raced, crowded, visits>>

-----------------------------------------------------------------------------
(* WarningWriteActivity and WriteActivity. *)

\* _launchWrite: the bundle goes along, the infos are the cache's.
LaunchWrite ==
  /\ above' = Append(above, "confirm")
  /\ w' = [NoWrite EXCEPT !.state = "confirm", !.infos = cache, !.bundle = a.bundle]

Pop == above' = Front(above)

\* M1 or PWR; M2 or OK gives its parent {'action': 'write'}.  A parent that is
\* not the flow does nothing with it.
ConfirmWrite ==
  /\ OnTop("confirm")
  /\ \/ Pop /\ w' = NoWrite /\ UNCHANGED crowded
     \/ /\ IF w.bundle = 0 THEN UNCHANGED crowded ELSE Begins
        /\ above' = Append(Front(above), "write")
        /\ w' = [state |-> IF w.bundle = 0 THEN "idle" ELSE "writing",
                 infos |-> cache, bundle |-> w.bundle,
                 job |-> IF w.bundle = 0 THEN "none" ELSE "run", toast |-> FALSE]
  /\ UNCHANGED <<act, a, cache, nscan, scans, strays, reads, raced, left, visits>>

WriteBusy == w.state \in {"writing", "verifying"}

\* startWrite, startVerify: the buttons are off until the result is handled.
WriteKey ==
  /\ OnTop("write") /\ ~WriteBusy
  /\ \E what \in {"writing", "verifying"} :
       w' = [w EXCEPT !.state = what, !.job = "run", !.toast = FALSE]
  /\ Begins
  /\ UNCHANGED <<act, above, a, cache, nscan, scans, strays, reads, raced, left, visits>>

\* PWR dismisses the toast first; then stopPM3Task and finish().  That ends one
\* command, and the thread goes on with the blocks that remain.
WritePwr ==
  /\ OnTop("write")
  /\ \/ /\ w.toast
        /\ w' = [w EXCEPT !.toast = FALSE]
        /\ UNCHANGED <<above, left>>
     \/ /\ ~w.toast
        /\ w' = NoWrite /\ Pop
        /\ left' = IF w.job = "run" THEN left \union {"write"} ELSE left
  /\ UNCHANGED <<act, a, cache, nscan, scans, strays, reads, raced, crowded, visits>>

\* write.write / write.verify: the thread calls the listener whether it wrote,
\* failed or raised, and on_write posts the result.
WriteThread ==
  /\ w.job = "run"
  /\ w' = [w EXCEPT !.job = "posted"]
  /\ UNCHANGED <<act, above, a, cache, nscan, scans, strays, reads, raced, rest>>

WriteComplete ==
  /\ w.job = "posted"
  /\ w' = [w EXCEPT !.state = "done", !.job = "none", !.toast = TRUE]
  /\ UNCHANGED <<act, above, a, cache, nscan, scans, strays, reads, raced, rest>>

\* SniffActivity or KeyEnterM1Activity is closed.
CloseOther ==
  /\ OnTop("other") /\ Pop
  /\ UNCHANGED <<act, a, cache, nscan, scans, strays, reads, w, raced, rest>>
=============================================================================
