---------------------------- MODULE RfTaskProofs ----------------------------
(***************************************************************************)
(* What RfTask guarantees for every number of connections, requests and    *)
(* subprocesses. TypeOK needs Locals and Readers, what the control point   *)
(* of a handler or a reader says of its locals; the resend bound needs     *)
(* OneHandlerPerRequest and Budget, what each attempt may have used.       *)
(*                                                                         *)
(* With a single connection, which is what the executor keeps, requests    *)
(* come one after another and much more holds: Single says at each control *)
(* point of the one handler whose output may still be on its way.          *)
(***************************************************************************)
EXTENDS RfTask, TLAPS

\* The locals of the handlers have their types, and at each control point
\* the ones it uses have been set.
Locals ==
  /\ hpc \in [Handlers -> {"idle", "send", "wait", "rework", "join", "kill",
                           "reap", "killall", "spawn"}]
  /\ job \in [Handlers -> [req : Payloads, kind : Kinds \cup {"plt"},
                           try : {"none", "first", "again", "ping", "retry"}]]
  /\ target \in [Handlers -> 0..MaxGen]
  /\ held \in [Handlers -> Seq(Line)]
  /\ answer \in [Requests -> {"fresh", "pending", "silent", "ok", "offline", "lines"}]
  /\ \A h \in Handlers : hpc[h] # "idle" => job[h].req \in Requests
  /\ \A h \in Handlers : hpc[h] \in {"send", "wait"} => job[h].try # "none"

\* A reader that reads has a subprocess to read from.
Readers == \A i \in Gens : rd[i].pc = "read" => rd[i].src # 0

Typed == TypeOK /\ Locals /\ Readers

\* The shared state of server, readers and subprocesses has its types.
Shared ==
  /\ gens \in Gens /\ process \in 0..gens /\ reader \in 0..gens
  /\ pstate \in [Gens -> {"unborn", "up", "dead"}]
  /\ stdin \in [Gens -> Seq(Payloads)]
  /\ stdout \in [Gens -> Seq(Line)]
  /\ hasManager \in BOOLEAN
  /\ rd \in [Gens -> [pc : {"unborn", "loop", "read", "line", "append", "mark", "exited"},
                      src : 0..MaxGen, line : Line]]
  /\ Readers
  /\ expecting \in BOOLEAN /\ event \in BOOLEAN
  /\ lines \in Seq(Line)
  /\ lock \in Handlers \cup {NoOne}
  /\ writes \in [Requests -> Nat]

\* Typed is what is shared and what is local.
LEMMA Split == Typed <=> Shared /\ Locals
  BY DEF Typed, TypeOK, Shared, Locals

\* Lines the subprocess prints, and the ones readers start with, are lines.
LEMMA LinesTyped ==
  /\ Blank \in Line
  /\ \A g \in Gens, eor \in BOOLEAN :
       stdin[g] \in Seq(Payloads) /\ stdin[g] # <<>> => Printed(g, eor) \in Line
  BY RfAssumption DEF Blank, Printed, Line, Payloads, Gens

\* A sequence of lines with one more line is one.
LEMMA AppendTyped ==
  ASSUME NEW S, NEW s \in Seq(S), NEW e \in S
  PROVE  Append(s, e) \in Seq(S)
  OBVIOUS

\* So are one line and two.
LEMMA TupleTyped ==
  ASSUME NEW S
  PROVE  \A x, y \in S : <<x>> \in Seq(S) /\ <<x, y>> \in Seq(S)
  OBVIOUS

\* A reply, of whatever kind, leaves the locals well typed.
LEMMA ReplyTyped ==
  ASSUME Locals, NEW h \in Handlers, hpc[h] # "idle",
         NEW response \in {"silent", "ok", "offline", "lines"}, Reply(h, response)
  PROVE  Locals'
  BY RfAssumption DEF Locals, Reply, Idle, Payloads

\* So does a move to the next attempt, whatever lines it holds on to.
LEMMA StepTyped ==
  ASSUME Locals, NEW h \in Handlers, hpc[h] # "idle", NEW pc \in {"send", "rework"},
         NEW try \in {"first", "again", "ping", "retry"}, Step(h, pc, try),
         held' \in [Handlers -> Seq(Line)], UNCHANGED <<target, answer>>
  PROVE  Locals'
<1>1. /\ hpc' = [hpc EXCEPT ![h] = pc]
      /\ job' = [job EXCEPT ![h].try = try]
  BY DEF Step
<1>2. hpc' \in [Handlers -> {"idle", "send", "wait", "rework", "join", "kill",
                             "reap", "killall", "spawn"}]
  BY <1>1 DEF Locals
<1>3. job' \in [Handlers -> [req : Payloads, kind : Kinds \cup {"plt"},
                             try : {"none", "first", "again", "ping", "retry"}]]
  <2> DEFINE Jobs == [req : Payloads, kind : Kinds \cup {"plt"},
                      try : {"none", "first", "again", "ping", "retry"}]
  <2>1. job \in [Handlers -> Jobs]
    BY DEF Locals
  <2>2. job[h] \in Jobs
    BY <2>1
  <2>3. [job[h] EXCEPT !.try = try] \in Jobs
    BY <2>2
  <2>4. job' = [job EXCEPT ![h] = [job[h] EXCEPT !.try = try]]
    BY <1>1
  <2> HIDE DEF Jobs
  <2>5. job' \in [Handlers -> Jobs]
    BY <2>1, <2>3, <2>4
  <2> QED
    BY <2>5 DEF Jobs
<1>4. \A k \in Handlers : k # h => hpc'[k] = hpc[k] /\ job'[k] = job[k]
  BY <1>1 DEF Locals
<1>5. job'[h].req = job[h].req /\ job'[h].try = try
  BY <1>1 DEF Locals
<1>6. job[h].req \in Requests /\ try # "none"
  BY DEF Locals
<1>7. /\ \A k \in Handlers : hpc'[k] # "idle" => job'[k].req \in Requests
      /\ \A k \in Handlers : hpc'[k] \in {"send", "wait"} => job'[k].try # "none"
  BY <1>4, <1>5, <1>6 DEF Locals
<1> QED
  BY <1>1, <1>2, <1>3, <1>7 DEF Locals

LEMMA ContinueTyped ==
  ASSUME Locals, NEW h \in Handlers, hpc[h] # "idle", NEW pc \in {"send", "rework"},
         NEW try \in {"first", "again", "ping", "retry"}, Continue(h, pc, try)
  PROVE  Locals'
<1>1. held' \in [Handlers -> Seq(Line)]
  BY DEF Locals, Continue
<1> QED
  BY <1>1, StepTyped DEF Continue

\* So does whatever follows a _send_cmd that returned None.
LEMMA FailedTyped ==
  ASSUME Locals, NEW h \in Handlers, hpc[h] \in {"send", "wait"}, Failed(h)
  PROVE  Locals'
<1>1. CASE Continue(h, "rework", "first") \/ Continue(h, "send", "retry")
  BY <1>1, ContinueTyped
<1>2. CASE Reply(h, "offline") \/ Respond(h, held[h])
  BY <1>2, ReplyTyped DEF Respond
<1> QED
  BY <1>1, <1>2 DEF Failed

\* And whatever follows one that returned a response.
LEMMA ReturnedTyped ==
  ASSUME Locals, NEW h \in Handlers, hpc[h] = "wait", NEW ls \in Seq(Line), Returned(h, ls)
  PROVE  Locals'
<1>1. CASE /\ Step(h, "send", "ping")
           /\ held' = [held EXCEPT ![h] = ls]
           /\ UNCHANGED <<target, answer>>
  <2>1. held' \in [Handlers -> Seq(Line)]
    BY <1>1 DEF Locals
  <2> QED
    BY <1>1, <2>1, StepTyped
<1>2. CASE Continue(h, "send", "retry")
  BY <1>2, ContinueTyped
<1>3. CASE Respond(h, ls)
  BY <1>3, ReplyTyped DEF Respond
<1> QED
  BY <1>1, <1>2, <1>3 DEF Returned

\* What a reader thread's local state ranges over.
Thread == [pc : {"unborn", "loop", "read", "line", "append", "mark", "exited"},
           src : 0..MaxGen, line : Line]

\* A reader that moves to a well-typed state, and leaves the server's own state
\* alone, keeps the types of what is shared.
LEMMA ReaderMoved ==
  ASSUME Shared, NEW i \in Gens, NEW r \in Thread, r.pc = "read" => r.src # 0,
         rd' = [rd EXCEPT ![i] = r], ReaderFrame,
         stdout' \in [Gens -> Seq(Line)], lines' \in Seq(Line),
         expecting' \in BOOLEAN, event' \in BOOLEAN
  PROVE  Shared'
<1>1. rd \in [Gens -> Thread]
  BY DEF Shared, Thread
<1>2. rd' \in [Gens -> Thread]
  BY <1>1
<1>3. Readers'
  BY <1>1 DEF Shared, Readers
<1>4. UNCHANGED <<process, gens, pstate, stdin, hasManager, reader, lock, writes>>
  BY DEF ReaderFrame, handlerVars
<1> QED
  BY <1>2, <1>3, <1>4 DEF Shared, Thread

\* The subprocess and the readers touch only what is shared.
LEMMA OutputTyped ==
  ASSUME Shared, \/ \E g \in Gens : Execute(g) \/ Die(g)
                 \/ \E i \in Gens : ReaderStep(i)
  PROVE  Shared'
<1>1. ASSUME NEW g \in Gens, Execute(g) PROVE Shared'
  <2>1. stdout' \in [Gens -> Seq(Line)]
    <3>1. Printed(g, TRUE) \in Line /\ Printed(g, FALSE) \in Line
      BY <1>1, LinesTyped DEF Execute, Shared
    <3>2. PICK out \in {<<Printed(g, FALSE), Printed(g, TRUE)>>, <<Printed(g, TRUE)>>} :
            stdout' = [stdout EXCEPT ![g] = @ \o out]
      BY <1>1 DEF Execute
    <3>3. out \in Seq(Line)
      BY <3>1, TupleTyped
    <3>4. stdout[g] \o out \in Seq(Line)
      BY <3>3 DEF Shared
    <3> QED
      BY <3>2, <3>4 DEF Shared
  <2>2. stdin' \in [Gens -> Seq(Payloads)]
    BY <1>1 DEF Shared, Execute
  <2> QED
    BY <1>1, <2>1, <2>2 DEF Shared, Execute, Readers, readerVars, cmdVars, handlerVars
<1>2. ASSUME NEW g \in Gens, Die(g) PROVE Shared'
  <2>0. stdout[g] \in Seq(Line) /\ (stdin[g] # <<>> => Printed(g, FALSE) \in Line)
    BY LinesTyped DEF Shared
  <2>1. stdin[g] # <<>> => Append(stdout[g], Printed(g, FALSE)) \in Seq(Line)
    BY <2>0, AppendTyped
  <2>2. stdout' \in [Gens -> Seq(Line)]
    BY <1>2, <2>1 DEF Shared, Die
  <2>3. stdin' \in [Gens -> Seq(Payloads)]
    BY <1>2 DEF Shared, Die
  <2>4. pstate' \in [Gens -> {"unborn", "up", "dead"}]
    BY <1>2 DEF Shared, Die
  <2> QED
    BY <1>2, <2>2, <2>3, <2>4 DEF Shared, Die, Readers, readerVars, cmdVars, handlerVars
<1>3. ASSUME NEW i \in Gens, ReaderStep(i) PROVE Shared'
  <2> USE DEF Goto, Reading
  <2>1. /\ rd \in [Gens -> Thread] /\ rd[i] \in Thread
        /\ stdout \in [Gens -> Seq(Line)] /\ lines \in Seq(Line)
        /\ expecting \in BOOLEAN /\ event \in BOOLEAN
        /\ process \in 0..MaxGen
    <3>1. gens \in 1..MaxGen /\ process \in 0..gens
      BY DEF Shared, Gens
    <3>2. process \in 0..MaxGen
      BY <3>1, RfAssumption
    <3>3. rd \in [Gens -> Thread]
      BY DEF Shared, Thread
    <3> QED
      BY <3>2, <3>3 DEF Shared
  <2>2. CASE Exit(i) /\ ReaderFrame
    <3>1. Exited \in Thread /\ Exited.pc # "read"
      BY LinesTyped, RfAssumption DEF Exited, NoThread, Thread
    <3> QED
      BY <2>1, <2>2, <3>1, ReaderMoved DEF Exit
  <2>3. ASSUME NEW pc \in {"loop", "append", "mark"}, Goto(i, pc), ReaderFrame,
               UNCHANGED <<stdout, expecting, event>>, lines' \in Seq(Line)
        PROVE  Shared'
    <3>1. rd' = [rd EXCEPT ![i] = [rd[i] EXCEPT !.pc = pc]]
      BY <2>3
    <3>2. [rd[i] EXCEPT !.pc = pc] \in Thread /\ [rd[i] EXCEPT !.pc = pc].pc = pc
      BY <2>1 DEF Thread
    <3> QED
      BY <2>1, <2>3, <3>1, <3>2, ReaderMoved
  <2>4. CASE ReaderLoop(i) /\ ~Exit(i)
    <3> DEFINE r == [rd[i] EXCEPT !.pc = "read", !.src = process]
    <3>1. /\ process # 0 /\ ReaderFrame /\ rd' = [rd EXCEPT ![i] = r]
          /\ UNCHANGED <<stdout, expecting, event, lines>>
      BY <2>4 DEF ReaderLoop
    <3>2. r \in Thread /\ r.src # 0
      BY <2>1, <3>1 DEF Thread
    <3> QED
      BY <2>1, <3>1, <3>2, ReaderMoved
  <2>5. CASE ReaderLine(i)
    <3> DEFINE g == rd[i].src
               r == [rd[i] EXCEPT !.pc = "line", !.line = Head(stdout[g])]
    <3>1. g \in Gens /\ stdout[g] # <<>>
      <4>1. rd[i].pc = "read" /\ stdout[g] # <<>>
        BY <2>5 DEF ReaderLine
      <4>2. g # 0 /\ g \in 0..MaxGen
        BY <2>1, <4>1 DEF Shared, Readers, Thread
      <4> QED
        BY <4>1, <4>2, RfAssumption DEF Gens
    <3>2. Head(stdout[g]) \in Line /\ Tail(stdout[g]) \in Seq(Line)
      BY <2>1, <3>1
    <3>3. r \in Thread /\ r.pc = "line"
      BY <2>1, <3>2 DEF Thread
    <3>4. /\ rd' = [rd EXCEPT ![i] = r] /\ ReaderFrame
          /\ stdout' = [stdout EXCEPT ![g] = Tail(stdout[g])]
          /\ UNCHANGED <<expecting, event, lines>>
      BY <2>5 DEF ReaderLine
    <3>5. stdout' \in [Gens -> Seq(Line)]
      BY <2>1, <3>1, <3>2, <3>4
    <3> QED
      BY <2>1, <3>3, <3>4, <3>5, ReaderMoved
  <2>6. CASE ReaderEOF(i) /\ ~Exit(i)
    BY <2>1, <2>3, <2>6 DEF ReaderEOF
  <2>7. CASE ReaderTest(i)
    <3>1. (IF expecting THEN "append" ELSE "mark") \in {"append", "mark"}
      OBVIOUS
    <3> QED
      BY <2>1, <2>3, <2>7, <3>1 DEF ReaderTest
  <2>8. CASE ReaderAppend(i)
    <3>1. Append(lines, rd[i].line) \in Seq(Line)
      BY <2>1, AppendTyped DEF Thread
    <3> QED
      BY <2>3, <2>8, <3>1 DEF ReaderAppend
  <2>9. CASE ReaderMark(i)
    <3> DEFINE r == [rd[i] EXCEPT !.pc = "loop", !.line = Blank]
    <3>1. r \in Thread /\ r.pc = "loop"
      BY <2>1, LinesTyped DEF Thread
    <3>2. /\ rd' = [rd EXCEPT ![i] = r] /\ ReaderFrame
          /\ event' = (event \/ (rd[i].line.eor /\ expecting))
          /\ UNCHANGED <<stdout, expecting, lines>>
      BY <2>9 DEF ReaderMark
    <3>3. event' \in BOOLEAN
      BY <2>1, <3>2, Zenon
    <3> QED
      BY <2>1, <3>1, <3>2, <3>3, ReaderMoved
  <2> QED
    BY <1>3, <2>2, <2>4, <2>5, <2>6, <2>7, <2>8, <2>9
       DEF ReaderStep, ReaderLoop, ReaderEOF
<1> QED
  BY <1>1, <1>2, <1>3

\* A handler's step keeps the types of what is shared.
LEMMA HandlerShared ==
  ASSUME Shared, Locals, NEW h \in Handlers, HandlerStep(h)
  PROVE  Shared'
<1> USE RfAssumption DEF Shared, Readers, ManagerFrame, pm3Vars, readerVars, cmdVars, Gens
<1>0. <<>> \in Seq(Line)
  OBVIOUS
<1>1. CASE Issue(h)
  <2>1. process \in Gens /\ Payload(h) \in Payloads
    BY <1>1 DEF Issue, Running, Payload, Payloads, Locals
  <2>2. Append(stdin[process], Payload(h)) \in Seq(Payloads)
    BY <2>1, AppendTyped
  <2>3. writes' \in [Requests -> Nat]
    <3>1. writes \in [Requests -> Nat]
      BY DEF Shared
    <3>2. writes' = IF Payload(h) = Ping THEN writes
                    ELSE [writes EXCEPT ![Payload(h)] = @ + 1]
      BY <1>1 DEF Issue
    <3>3. Payload(h) \in Requests \/ Payload(h) = Ping
      BY <2>1 DEF Payloads
    <3> HIDE DEF Shared
    <3> QED
      BY <3>1, <3>2, <3>3
  <2>4. stdin' \in [Gens -> Seq(Payloads)]
    BY <1>1, <2>1, <2>2 DEF Issue
  <2>5. /\ lock' = h /\ lines' = <<>> /\ event' = FALSE /\ expecting' = TRUE
        /\ UNCHANGED <<process, gens, pstate, stdout, hasManager, reader, rd>>
    BY <1>1 DEF Issue
  <2> QED
    BY <1>0, <2>3, <2>4, <2>5
<1>2. CASE IssueDead(h)
  BY <1>0, <1>2 DEF IssueDead
<1>3. CASE LockTimeout(h)
  BY <1>3 DEF LockTimeout
<1>4. CASE Wake(h)
  BY <1>4 DEF Wake
<1>5. CASE WaitTimeout(h)
  BY <1>5 DEF WaitTimeout
<1>6. CASE Rework(h)
  <2>1. gens' = gens /\ reader' = 0 /\ hasManager' = FALSE
    BY <1>6 DEF Rework
  <2>2. reader' \in 0..gens'
    BY <2>1
  <2>3. rd' = rd /\ process' = process
    BY <1>6 DEF Rework
  <2>4. pm3Vars' = pm3Vars /\ cmdVars' = cmdVars /\ writes' = writes
    BY <1>6 DEF Rework
  <2> QED
    BY <2>1, <2>2, <2>3, <2>4
<1>7. CASE Join(h)
  BY <1>7 DEF Join
<1>8. CASE Kill(h)
  BY <1>8 DEF Kill
<1>9. CASE Reap(h)
  BY <1>9 DEF Reap
<1>10. CASE KillAll(h)
  BY <1>10 DEF KillAll, Detach, ToSpawn
<1>11. CASE Respawn(h)
  <2>1. Started \in [pc : {"loop"}, src : {0}, line : Line]
    BY LinesTyped DEF Started, NoThread
  <2>2. gens + 1 \in Gens
    BY <1>11 DEF Respawn
  <2>3. rd' \in [Gens -> [pc : {"unborn", "loop", "read", "line", "append", "mark", "exited"},
                         src : 0..MaxGen, line : Line]]
    BY <1>11, <2>1 DEF Respawn
  <2>4. Readers'
    BY <1>11, <2>1 DEF Respawn
  <2> QED
    BY <1>11, <2>2, <2>3, <2>4 DEF Respawn
<1>12. CASE RespawnFails(h)
  BY <1>12 DEF RespawnFails
<1> QED
  BY <1>1, <1>2, <1>3, <1>4, <1>5, <1>6, <1>7, <1>8, <1>9, <1>10, <1>11, <1>12
     DEF HandlerStep, Prompt

\* A move of a busy handler that changes no more than its target keeps the
\* types of the locals.
LEMMA GotoTyped ==
  ASSUME Locals, NEW h \in Handlers, hpc[h] # "idle",
         NEW pc \in {"wait", "join", "kill", "reap", "killall", "spawn"},
         pc = "wait" => hpc[h] = "send", HandlerGoto(h, pc),
         target' \in [Handlers -> 0..MaxGen], UNCHANGED <<job, held, answer>>
  PROVE  Locals'
<1>1. hpc' = [hpc EXCEPT ![h] = pc]
  BY DEF HandlerGoto
<1>2. hpc' \in [Handlers -> {"idle", "send", "wait", "rework", "join", "kill",
                             "reap", "killall", "spawn"}]
  BY <1>1 DEF Locals
<1>3. /\ \A k \in Handlers : hpc'[k] # "idle" => hpc[k] # "idle"
      /\ \A k \in Handlers : hpc'[k] \in {"send", "wait"} => hpc[k] \in {"send", "wait"}
  BY <1>1 DEF Locals
<1> QED
  BY <1>2, <1>3 DEF Locals

\* And those of the locals.
LEMMA HandlerLocals ==
  ASSUME Shared, Locals, NEW h \in Handlers, HandlerStep(h)
  PROVE  Locals'
<1> USE RfAssumption
<1>0. /\ process \in 0..MaxGen /\ reader \in 0..MaxGen
      /\ target \in [Handlers -> 0..MaxGen]
  BY DEF Shared, Locals, Gens
<1>1. CASE Issue(h)
  <2>1. target' \in [Handlers -> 0..MaxGen]
    BY <1>0, <1>1 DEF Issue
  <2> QED
    BY <1>1, <2>1, GotoTyped DEF Issue, HandlerGoto
<1>2. CASE IssueDead(h) \/ LockTimeout(h) \/ WaitTimeout(h)
  BY <1>2, FailedTyped DEF IssueDead, LockTimeout, WaitTimeout
<1>3. CASE Wake(h)
  BY <1>3, ReturnedTyped DEF Wake, Shared
<1>4. CASE Rework(h)
  <2>1. target' \in [Handlers -> 0..MaxGen]
    BY <1>0, <1>4 DEF Rework
  <2> QED
    BY <1>4, <2>1, GotoTyped DEF Rework
<1>5. CASE Join(h)
  BY <1>0, <1>5, GotoTyped DEF Join
<1>6. CASE Kill(h)
  <2>1. target' \in [Handlers -> 0..MaxGen]
    BY <1>0, <1>6 DEF Kill
  <2> QED
    BY <1>6, <2>1, GotoTyped DEF Kill
<1>7. CASE Reap(h)
  BY <1>0, <1>7, GotoTyped DEF Reap
<1>8. CASE KillAll(h)
  <2>1. CASE Reply(h, "ok")
    BY <1>8, <2>1, ReplyTyped DEF KillAll, Detach, ToSpawn
  <2>2. CASE HandlerGoto(h, "spawn") /\ UNCHANGED <<job, target, held, answer>>
    BY <1>0, <1>8, <2>2, GotoTyped DEF KillAll, Detach, ToSpawn
  <2> QED
    BY <1>8, <2>1, <2>2 DEF KillAll, Detach, ToSpawn
<1>9. CASE Respawn(h)
  <2>1. CASE Reply(h, "ok")
    BY <1>9, <2>1, ReplyTyped DEF Respawn
  <2>2. CASE Continue(h, "send", "again")
    BY <1>9, <2>2, ContinueTyped DEF Respawn
  <2> QED
    BY <1>9, <2>1, <2>2 DEF Respawn
<1>10. CASE RespawnFails(h)
  <2>1. CASE Reply(h, "ok")
    BY <1>10, <2>1, ReplyTyped DEF RespawnFails
  <2>2. CASE Reply(h, "offline")
    BY <1>10, <2>2, ReplyTyped DEF RespawnFails
  <2> QED
    BY <1>10, <2>1, <2>2 DEF RespawnFails
<1> QED
  BY <1>1, <1>2, <1>3, <1>4, <1>5, <1>6, <1>7, <1>8, <1>9, <1>10
     DEF HandlerStep, Prompt

\* A request that arrives finds its handler idle and fills its locals.
LEMMA ReceiveLocals ==
  ASSUME Locals, NEW h \in Handlers, NEW r \in Requests, NEW k \in Kinds, Receive(h, r, k)
  PROVE  Locals'
<1>1. CASE k = "plt"
  BY <1>1 DEF Receive, Locals
<1>2. CASE k # "plt"
  <2>1. [req |-> r, kind |-> k, try |-> "first"] \in
          [req : Payloads, kind : Kinds \cup {"plt"},
           try : {"none", "first", "again", "ping", "retry"}]
    BY DEF Payloads
  <2>2. hpc' = [hpc EXCEPT ![h] = IF k \in {"cmd", "hw"} THEN "send" ELSE "rework"]
    BY <1>2 DEF Receive, HandlerGoto
  <2>3. job' \in [Handlers -> [req : Payloads, kind : Kinds \cup {"plt"},
                             try : {"none", "first", "again", "ping", "retry"}]]
    BY <1>2, <2>1 DEF Receive, Locals
  <2>4. \A j \in Handlers : hpc'[j] # "idle" => job'[j].req \in Requests
    BY <1>2, <2>2 DEF Receive, Locals
  <2>5. \A j \in Handlers : hpc'[j] \in {"send", "wait"} => job'[j].try # "none"
    BY <1>2, <2>2 DEF Receive, Locals
  <2>6. hpc' \in [Handlers -> {"idle", "send", "wait", "rework", "join", "kill",
                               "reap", "killall", "spawn"}]
    BY <2>2 DEF Locals
  <2>7. /\ answer' \in [Requests -> {"fresh", "pending", "silent", "ok", "offline", "lines"}]
        /\ UNCHANGED <<target, held>>
    BY <1>2 DEF Receive, Locals
  <2> QED
    BY <2>3, <2>4, <2>5, <2>6, <2>7 DEF Locals
<1> QED
  BY <1>1, <1>2

\* Types and control points agree in every reachable state.
LEMMA AlwaysTyped == Spec => []Typed
<1>1. Init => Typed
  <2> SUFFICES ASSUME Init PROVE Shared /\ Locals
    BY Split
  <2>1. Started \in [pc : {"loop"}, src : {0}, line : Line]
        /\ NoThread \in [pc : {"unborn"}, src : {0}, line : Line]
    BY LinesTyped DEF Started, NoThread
  <2>2. <<>> \in Seq(Payloads) /\ <<>> \in Seq(Line)
    OBVIOUS
  <2>3. Shared
    <3>1. 1 \in Gens
      BY RfAssumption DEF Gens
    <3>2. rd \in [Gens -> [pc : {"unborn", "loop", "read", "line", "append", "mark", "exited"},
                          src : 0..MaxGen, line : Line]] /\ Readers
      BY RfAssumption, <2>1 DEF Init, Readers
    <3>3. pstate \in [Gens -> {"unborn", "up", "dead"}]
      BY DEF Init
    <3>4. stdin \in [Gens -> Seq(Payloads)] /\ stdout \in [Gens -> Seq(Line)]
          /\ lines \in Seq(Line)
      BY <2>2 DEF Init
    <3>5. gens \in Gens /\ process \in 0..gens /\ reader \in 0..gens
      BY <3>1 DEF Init
    <3>6. /\ hasManager \in BOOLEAN /\ expecting \in BOOLEAN /\ event \in BOOLEAN
          /\ lock \in Handlers \cup {NoOne} /\ writes \in [Requests -> Nat]
      BY DEF Init
    <3> QED
      BY <3>2, <3>3, <3>4, <3>5, <3>6 DEF Shared
  <2>4. Locals
    BY RfAssumption, <2>2 DEF Init, Locals, Idle, Payloads
  <2> QED
    BY <2>3, <2>4
<1>2. Typed /\ [Next]_vars => Typed'
  <2> SUFFICES ASSUME Typed, [Next]_vars PROVE Typed'
    OBVIOUS
  <2>1. Shared /\ Locals
    BY Split
  <2>2. CASE \/ \E g \in Gens : Execute(g) \/ Die(g)
             \/ \E i \in Gens : ReaderStep(i)
    <3>1. UNCHANGED handlerVars
      BY <2>2 DEF Execute, Die, ReaderStep, ReaderLoop, ReaderLine, ReaderEOF,
                  ReaderTest, ReaderAppend, ReaderMark, ReaderFrame
    <3>2. Locals'
      BY <2>1, <3>1 DEF Locals, handlerVars
    <3> QED
      BY <2>1, <2>2, <3>2, OutputTyped DEF Typed, TypeOK, Shared, Locals
  <2>3. ASSUME NEW h \in Handlers, HandlerStep(h) PROVE Typed'
    BY <2>1, <2>3, HandlerShared, HandlerLocals DEF Typed, TypeOK, Shared, Locals
  <2>4. ASSUME NEW h \in Handlers, NEW r \in Requests, NEW k \in Kinds, Receive(h, r, k)
        PROVE  Typed'
    <3>1. Shared'
      BY <2>1, <2>4 DEF Receive, Shared, Readers, ManagerFrame, pm3Vars, readerVars, cmdVars
    <3> QED
      BY <2>1, <2>4, <3>1, ReceiveLocals DEF Typed, TypeOK, Shared, Locals
  <2>5. CASE UNCHANGED vars
    BY <2>5 DEF Typed, TypeOK, Locals, Readers, vars, pm3Vars, readerVars, cmdVars, handlerVars
  <2> QED
    BY <2>2, <2>3, <2>4, <2>5 DEF Next
<1> QED
  BY <1>1, <1>2, PTL DEF Spec

\* Every variable keeps its type in every behaviour of the server.
THEOREM TypeCorrect == Spec => []TypeOK
  BY AlwaysTyped, PTL DEF Typed

-----------------------------------------------------------------------------
(* The lock.                                                               *)

\* After a _send_cmd its handler waits no more.
LEMMA SendEnds ==
  ASSUME Locals, NEW h \in Handlers, hpc[h] \in {"send", "wait"},
         Failed(h) \/ \E ls \in Seq(Line) : Returned(h, ls)
  PROVE  \E pc \in {"idle", "send", "rework"} : hpc' = [hpc EXCEPT ![h] = pc]
  BY DEF Failed, Returned, Respond, Reply, Continue, Step

\* The reader, the subprocess and the arrival of a request leave it alone.
LEMMA LockElsewhere ==
  ASSUME Typed, [Next]_vars, ~\E h \in Handlers : HandlerStep(h)
  PROVE  /\ UNCHANGED <<lock, expecting>>
         /\ \A h \in Handlers : hpc[h] = "wait" <=> hpc'[h] = "wait"
<1>1. CASE \/ \E g \in Gens : Execute(g) \/ Die(g)
           \/ \E i \in Gens : ReaderStep(i)
  BY <1>1 DEF Execute, Die, ReaderStep, ReaderLoop, ReaderLine, ReaderEOF, ReaderTest,
              ReaderAppend, ReaderMark, ReaderFrame, Exit, cmdVars, handlerVars
<1>2. ASSUME NEW h \in Handlers, NEW r \in Requests, NEW k \in Kinds, Receive(h, r, k)
      PROVE  /\ UNCHANGED <<lock, expecting>>
             /\ \A j \in Handlers : hpc[j] = "wait" <=> hpc'[j] = "wait"
  BY <1>2 DEF Receive, HandlerGoto, cmdVars, Typed, Locals
<1>3. CASE UNCHANGED vars
  BY <1>3 DEF vars, cmdVars, handlerVars
<1> QED
  BY <1>1, <1>2, <1>3 DEF Next

\* At most one command is in flight, and output is collected only for it.
THEOREM InFlightCorrect == Spec => []OneCommandInFlight
<1>1. Init => OneCommandInFlight
  BY RfAssumption DEF Init, OneCommandInFlight
<1>2. Typed /\ OneCommandInFlight /\ [Next]_vars => OneCommandInFlight'
  <2> SUFFICES ASSUME Typed, OneCommandInFlight, [Next]_vars PROVE OneCommandInFlight'
    OBVIOUS
  <2> USE RfAssumption DEF Typed, Locals, OneCommandInFlight
  <2>1. ASSUME NEW h \in Handlers, HandlerStep(h) PROVE OneCommandInFlight'
    <3>1. CASE Issue(h)
      BY <3>1 DEF Issue
    <3>2. CASE IssueDead(h) \/ LockTimeout(h)
      <4>1. PICK pc \in {"idle", "send", "rework"} : hpc' = [hpc EXCEPT ![h] = pc]
        BY <3>2, SendEnds DEF IssueDead, LockTimeout
      <4> QED
        BY <3>2, <4>1 DEF IssueDead, LockTimeout, cmdVars
    <3>3. CASE Wake(h) \/ WaitTimeout(h)
      <4>1. PICK pc \in {"idle", "send", "rework"} : hpc' = [hpc EXCEPT ![h] = pc]
        BY <3>3, SendEnds DEF Wake, WaitTimeout, TypeOK
      <4> QED
        BY <3>3, <4>1 DEF Wake, WaitTimeout
    <3>4. CASE Rework(h) \/ Join(h) \/ Kill(h) \/ Reap(h) \/ KillAll(h)
               \/ Respawn(h) \/ RespawnFails(h)
      <4>1. hpc[h] # "wait" /\ UNCHANGED <<lock, expecting>>
        BY <3>4 DEF Rework, Join, Kill, Reap, KillAll, Detach, ToSpawn, Respawn, RespawnFails, cmdVars
      <4>2. PICK pc \in {"join", "kill", "reap", "killall", "spawn", "send", "idle"} :
              hpc' = [hpc EXCEPT ![h] = pc]
        BY <3>4 DEF Rework, Join, Kill, Reap, KillAll, Detach, ToSpawn, Respawn, RespawnFails,
                    HandlerGoto, Reply, Continue, Step
      <4> QED
        BY <4>1, <4>2
    <3> QED
      BY <2>1, <3>1, <3>2, <3>3, <3>4 DEF HandlerStep, Prompt
  <2>2. CASE ~\E h \in Handlers : HandlerStep(h)
    BY <2>2, LockElsewhere
  <2> QED
    BY <2>1, <2>2
<1> QED
  BY <1>1, <1>2, AlwaysTyped, PTL DEF Spec

-----------------------------------------------------------------------------
(* How often a request is written.                                         *)

\* What the attempts of a request up to a control point may have used.
SpentAt(pc, try) ==
  IF pc = "send"
  THEN IF try = "first" THEN 0 ELSE IF try = "again" THEN 1 ELSE 2
  ELSE IF pc = "wait"
  THEN IF try = "first" THEN 1 ELSE IF try = "retry" THEN 3 ELSE 2
  ELSE 1

Spent(h) == SpentAt(hpc[h], job[h].try)

\* A request is worked on by the one handler that received it, and its
\* answer is given once.
OneHandlerPerRequest ==
  /\ \A h \in Handlers : hpc[h] # "idle" =>
       job[h].req \in Requests /\ answer[job[h].req] = "pending"
  /\ \A h, k \in Handlers :
       hpc[h] # "idle" /\ hpc[k] # "idle" /\ job[h].req = job[k].req => h = k

Budget ==
  /\ OneHandlerPerRequest
  /\ BoundedResend
  /\ \A r \in Requests : answer[r] = "fresh" => writes[r] = 0
  /\ \A h \in Handlers : hpc[h] # "idle" => writes[job[h].req] <= Spent(h)

\* What the invariant says of one busy handler.
LEMMA Busy ==
  ASSUME Typed, Budget, NEW h \in Handlers, hpc[h] # "idle"
  PROVE  /\ job[h].req \in Requests /\ answer[job[h].req] = "pending"
         /\ writes[job[h].req] \in Nat /\ writes[job[h].req] <= Spent(h)
         /\ \A k \in Handlers \ {h} : hpc[k] # "idle" => job[k].req # job[h].req
  BY DEF Typed, TypeOK, Budget, OneHandlerPerRequest

\* A handler that goes on with its request stays within the budget.
LEMMA Advance ==
  ASSUME Typed, Budget, NEW h \in Handlers, hpc[h] # "idle",
         job'[h].req = job[h].req, answer' = answer,
         \A k \in Handlers \ {h} : hpc'[k] = hpc[k] /\ job'[k] = job[k],
         \A r \in Requests \ {job[h].req} : writes'[r] = writes[r],
         writes'[job[h].req] \in Nat,
         writes'[job[h].req] <= SpentAt(hpc'[h], job'[h].try)
  PROVE  Budget'
<1>1. /\ job[h].req \in Requests /\ answer[job[h].req] = "pending"
      /\ \A k \in Handlers \ {h} : hpc[k] # "idle" => job[k].req # job[h].req
  BY Busy
<1>2. OneHandlerPerRequest'
  BY <1>1 DEF Budget, OneHandlerPerRequest
<1>3. writes'[job[h].req] <= 3
  BY DEF SpentAt
<1>4. BoundedResend'
  BY <1>1, <1>3 DEF Budget, BoundedResend
<1>5. \A r \in Requests : answer'[r] = "fresh" => writes'[r] = 0
  BY <1>1 DEF Budget
<1>6. ASSUME NEW k \in Handlers, hpc'[k] # "idle"
      PROVE  writes'[job'[k].req] <= Spent(k)'
  <2>1. CASE k = h
    BY <2>1 DEF Spent
  <2>2. CASE k # h
    BY <1>1, <1>6, <2>2 DEF Budget, OneHandlerPerRequest, Spent
  <2> QED
    BY <2>1, <2>2
<1> QED
  BY <1>2, <1>4, <1>5, <1>6 DEF Budget

\* So does one that answers.
LEMMA Conclude ==
  ASSUME Typed, Budget, NEW h \in Handlers, hpc[h] # "idle", writes' = writes,
         NEW response \in {"silent", "ok", "offline", "lines"}, Reply(h, response),
         writes[job[h].req] <= IF response = "offline" THEN 2 ELSE 3
  PROVE  Budget'
<1>1. /\ \A k \in Handlers : hpc'[k] # "idle" => k # h /\ hpc'[k] = hpc[k] /\ job'[k] = job[k]
      /\ answer' = [answer EXCEPT ![job[h].req] = response]
      /\ answer \in [Requests -> {"fresh", "pending", "silent", "ok", "offline", "lines"}]
  BY DEF Reply, Typed, Locals
<1>2. \A k \in Handlers \ {h} : hpc[k] # "idle" => job[k].req # job[h].req
  BY Busy
<1>3. OneHandlerPerRequest'
  BY <1>1, <1>2 DEF Budget, OneHandlerPerRequest
<1>4. BoundedResend'
  BY <1>1 DEF Budget, BoundedResend
<1>5. \A r \in Requests : answer'[r] = "fresh" => writes'[r] = 0
  BY <1>1 DEF Budget
<1>6. \A k \in Handlers : hpc'[k] # "idle" => writes'[job'[k].req] <= Spent(k)'
  BY <1>1 DEF Budget, Spent
<1> QED
  BY <1>3, <1>4, <1>5, <1>6 DEF Budget

\* Moving to another control point or attempt that allows as much.
LEMMA Move ==
  ASSUME Typed, Budget, NEW h \in Handlers, hpc[h] # "idle", NEW pc, NEW try,
         hpc' = [hpc EXCEPT ![h] = pc],
         \/ job' = [job EXCEPT ![h].try = try]
         \/ job' = job /\ try = job[h].try,
         UNCHANGED <<answer, writes>>,
         writes[job[h].req] <= SpentAt(pc, try)
  PROVE  Budget'
<1>1. /\ hpc'[h] = pc /\ job'[h].try = try /\ job'[h].req = job[h].req
      /\ \A k \in Handlers \ {h} : hpc'[k] = hpc[k] /\ job'[k] = job[k]
  BY DEF Typed, Locals
<1> QED
  BY <1>1, Advance, Busy

\* Whatever _send_cmd returned, the next attempt is within the budget.
LEMMA SendBudget ==
  ASSUME Typed, Budget, NEW h \in Handlers, hpc[h] \in {"send", "wait"}, writes' = writes,
         Failed(h) \/ (hpc[h] = "wait" /\ \E ls \in Seq(Line) : Returned(h, ls))
  PROVE  Budget'
<1>1. /\ writes[job[h].req] \in Nat /\ writes[job[h].req] <= SpentAt(hpc[h], job[h].try)
      /\ job[h].try \in {"first", "again", "ping", "retry"}
  BY Busy DEF Spent, Typed, Locals
<1>2. CASE job[h].try = "first" /\ Continue(h, "rework", "first")
  <2>1. writes[job[h].req] <= SpentAt("rework", "first")
    BY <1>1, <1>2 DEF SpentAt
  <2> QED
    BY <1>2, <2>1, Move DEF Continue, Step
<1>3. CASE job[h].try = "ping" /\ Continue(h, "send", "retry")
  <2>1. writes[job[h].req] <= SpentAt("send", "retry")
    BY <1>1, <1>3 DEF SpentAt
  <2> QED
    BY <1>3, <2>1, Move DEF Continue, Step
<1>4. CASE job[h].try = "again" /\ Reply(h, "offline")
  <2>1. writes[job[h].req] <= 2
    BY <1>1, <1>4 DEF SpentAt
  <2> QED
    BY <1>4, <2>1, Conclude
<1>5. ASSUME NEW response \in {"silent", "lines"}, Reply(h, response) PROVE Budget'
  <2>1. writes[job[h].req] <= 3
    BY <1>1 DEF SpentAt
  <2> QED
    BY <1>5, <2>1, Conclude
<1>6. CASE /\ hpc[h] = "wait" /\ job[h].try \in {"first", "again"}
           /\ Step(h, "send", "ping") /\ UNCHANGED answer
  <2>1. writes[job[h].req] <= SpentAt("send", "ping")
    BY <1>1, <1>6 DEF SpentAt
  <2> QED
    BY <1>6, <2>1, Move DEF Step
<1> QED
  BY <1>2, <1>3, <1>4, <1>5, <1>6 DEF Failed, Returned, Retriable, Respond

\* Readers and subprocess change neither handlers nor answers.
LEMMA BudgetElsewhere ==
  ASSUME Typed, Budget,
         \/ \E g \in Gens : Execute(g) \/ Die(g)
         \/ \E i \in Gens : ReaderStep(i)
         \/ UNCHANGED vars
  PROVE  Budget'
<1>1. UNCHANGED handlerVars
  BY DEF Execute, Die, ReaderStep, ReaderLoop, ReaderLine, ReaderEOF, ReaderTest,
         ReaderAppend, ReaderMark, ReaderFrame, vars
<1> QED
  BY <1>1 DEF handlerVars, Budget, OneHandlerPerRequest, BoundedResend, Spent

\* No request is written more often than its attempts allow, and each has
\* one handler.
LEMMA AlwaysBudget == Spec => []Budget
<1>1. Init => Budget
  BY DEF Init, Budget, OneHandlerPerRequest, BoundedResend, Spent
<1>2. Typed /\ Budget /\ [Next]_vars => Budget'
  <2> SUFFICES ASSUME Typed, Budget, [Next]_vars PROVE Budget'
    OBVIOUS
  <2>1. ASSUME NEW h \in Handlers, HandlerStep(h) PROVE Budget'
    <3>1. CASE Issue(h)
      <4>1. hpc[h] = "send" /\ Ping \notin Requests
        BY <3>1, RfAssumption DEF Issue
      <4>2. /\ job[h].req \in Requests /\ writes[job[h].req] \in Nat
            /\ writes[job[h].req] <= SpentAt("send", job[h].try)
            /\ job[h].try \in {"first", "again", "ping", "retry"}
            /\ writes \in [Requests -> Nat]
        <5>1. job[h] \in [req : Payloads, kind : Kinds \cup {"plt"},
                          try : {"none", "first", "again", "ping", "retry"}]
          BY DEF Typed, Locals
        <5>2. job[h].req \in Requests /\ job[h].try # "none"
          BY <4>1 DEF Typed, Locals
        <5>3. writes \in [Requests -> Nat]
          BY DEF Typed, TypeOK
        <5>4. writes[job[h].req] <= SpentAt("send", job[h].try)
          BY <4>1, Busy DEF Spent
        <5> QED
          BY <5>1, <5>2, <5>3, <5>4
      <4>3. /\ hpc'[h] = "wait" /\ job' = job /\ answer' = answer
            /\ \A k \in Handlers \ {h} : hpc'[k] = hpc[k]
        BY <3>1 DEF Issue, Typed, Locals
      <4>4. /\ \A r \in Requests \ {job[h].req} : writes'[r] = writes[r]
            /\ writes'[job[h].req] =
                 IF job[h].try = "ping" THEN writes[job[h].req] ELSE writes[job[h].req] + 1
        <5>1. CASE job[h].try = "ping"
          BY <3>1, <4>1, <4>2, <5>1 DEF Issue, Payload
        <5>2. CASE job[h].try # "ping"
          <6>1. Payload(h) = job[h].req /\ Payload(h) # Ping
            BY <4>1, <4>2, <5>2 DEF Payload
          <6>2. writes' = [writes EXCEPT ![job[h].req] = @ + 1]
            BY <3>1, <6>1 DEF Issue
          <6> QED
            BY <4>2, <5>2, <6>2
        <5> QED
          BY <5>1, <5>2
      <4>5. /\ writes'[job[h].req] \in Nat
            /\ writes'[job[h].req] <= SpentAt("wait", job[h].try)
        BY <4>2, <4>4 DEF SpentAt
      <4> QED
        BY <4>1, <4>3, <4>4, <4>5, Advance
    <3>2. CASE IssueDead(h) \/ LockTimeout(h) \/ Wake(h) \/ WaitTimeout(h)
      BY <3>2, SendBudget DEF IssueDead, LockTimeout, Wake, WaitTimeout, Typed, TypeOK
    <3>3. CASE Rework(h) \/ Join(h) \/ Kill(h) \/ Reap(h)
      <4>1. /\ hpc[h] \in {"rework", "join", "kill", "reap"}
            /\ UNCHANGED <<job, answer, writes>>
        BY <3>3 DEF Rework, Join, Kill, Reap
      <4>2. PICK pc \in {"join", "kill", "reap", "killall"} : hpc' = [hpc EXCEPT ![h] = pc]
        BY <3>3 DEF Rework, Join, Kill, Reap, HandlerGoto
      <4>3. writes[job[h].req] <= SpentAt(pc, job[h].try)
        BY <4>1, Busy DEF Spent, SpentAt
      <4> QED
        BY <4>1, <4>2, <4>3, Move
    <3>4. CASE KillAll(h) \/ Respawn(h) \/ RespawnFails(h)
      <4>1. hpc[h] \in {"killall", "spawn"} /\ writes' = writes
        BY <3>4 DEF KillAll, Detach, ToSpawn, Respawn, RespawnFails
      <4>2. writes[job[h].req] \in Nat /\ writes[job[h].req] <= 1
        BY <4>1, Busy DEF Spent, SpentAt
      <4>3. ASSUME NEW response \in {"ok", "offline"}, Reply(h, response) PROVE Budget'
        <5>1. writes[job[h].req] <= 2 /\ writes[job[h].req] <= 3
          BY <4>2
        <5> QED
          BY <4>1, <4>3, <5>1, Conclude
      <4>4. CASE Continue(h, "send", "again")
        <5>1. writes[job[h].req] <= SpentAt("send", "again")
          BY <4>2 DEF SpentAt
        <5> QED
          BY <4>1, <4>4, <5>1, Move DEF Continue, Step
      <4>5. CASE HandlerGoto(h, "spawn") /\ UNCHANGED <<job, answer>>
        <5>1. writes[job[h].req] <= SpentAt("spawn", job[h].try)
          BY <4>2 DEF SpentAt
        <5> QED
          BY <4>1, <4>5, <5>1, Move DEF HandlerGoto
      <4> QED
        BY <3>4, <4>3, <4>4, <4>5 DEF KillAll, Detach, ToSpawn, Respawn, RespawnFails
    <3> QED
      BY <2>1, <3>1, <3>2, <3>3, <3>4 DEF HandlerStep, Prompt
  <2>2. ASSUME NEW h \in Handlers, NEW r \in Requests, NEW k \in Kinds, Receive(h, r, k)
        PROVE  Budget'
    <3>1. /\ answer[r] = "fresh" /\ writes' = writes /\ writes[r] = 0 /\ hpc[h] = "idle"
          /\ \A j \in Handlers : hpc[j] # "idle" => job[j].req # r
          /\ answer \in [Requests -> {"fresh", "pending", "silent", "ok", "offline", "lines"}]
      BY <2>2 DEF Receive, Budget, OneHandlerPerRequest, Typed, Locals
    <3>2. PICK new \in {"pending", "silent"} : answer' = [answer EXCEPT ![r] = new]
      BY <2>2 DEF Receive
    <3>3. /\ \A s \in Requests \ {r} : answer'[s] = answer[s]
          /\ answer'[r] = new /\ new # "fresh" /\ new # "offline"
      BY <3>1, <3>2
    <3>4. /\ \A j \in Handlers \ {h} : hpc'[j] = hpc[j] /\ job'[j] = job[j]
          /\ \/ hpc'[h] = "idle"
             \/ /\ hpc'[h] \in {"send", "rework"} /\ job'[h].req = r
                /\ job'[h].try = "first" /\ answer'[r] = "pending"
      BY <2>2, <3>1 DEF Receive, HandlerGoto, Typed, Locals
    <3>5. OneHandlerPerRequest'
      BY <3>1, <3>3, <3>4 DEF Budget, OneHandlerPerRequest
    <3>6. BoundedResend'
      BY <3>1, <3>3 DEF Budget, BoundedResend
    <3>7. \A s \in Requests : answer'[s] = "fresh" => writes'[s] = 0
      BY <3>1, <3>3 DEF Budget
    <3>8. \A j \in Handlers : hpc'[j] # "idle" => writes'[job'[j].req] <= Spent(j)'
      BY <3>1, <3>4 DEF Budget, Spent, SpentAt
    <3> QED
      BY <3>5, <3>6, <3>7, <3>8 DEF Budget
  <2> QED
    BY <2>1, <2>2, BudgetElsewhere DEF Next
<1> QED
  BY <1>1, <1>2, AlwaysTyped, PTL DEF Spec

\* A request is written at most three times, and at most twice when its
\* client is told that the device is offline.
THEOREM ResendCorrect == Spec => []BoundedResend
  BY AlwaysBudget, PTL DEF Budget

-----------------------------------------------------------------------------
(* The manager, whatever the number of connections.                        *)

\* While the manager is on nobody has taken its reader, and its subprocess is
\* the last one made or forgotten.
ManagerOn ==
  /\ hasManager => reader = gens /\ process \in {0, gens}
  /\ ManagedHasReader

\* What the invariant rests on in a typed state.
LEMMA Basics ==
  ASSUME Typed
  PROVE  /\ gens \in Gens /\ MaxGen \in Nat /\ process \in 0..MaxGen
         /\ \A g \in Gens : stdout[g] \in Seq(Line)
         /\ \A i \in Gens : rd[i] \in Thread
         /\ rd \in [Gens -> Thread] /\ lines \in Seq(Line)
BY RfAssumption DEF Typed, TypeOK, Thread, Gens

LEMMA AlwaysManaged == Spec => []ManagerOn
<1>1. Init => ManagerOn
  BY RfAssumption DEF Init, ManagerOn, ManagedHasReader, Running, Alive, Started, Gens
<1>2. Typed /\ ManagerOn /\ [Next]_vars => ManagerOn'
  <2> SUFFICES ASSUME Typed, ManagerOn, [Next]_vars PROVE ManagerOn'
    OBVIOUS
  \* Steps that make no subprocess and end no reader.
  <2>1. ASSUME UNCHANGED <<process, gens, reader>>, hasManager' => hasManager,
               \A g \in Gens : Alive(g)' => Alive(g),
               \A i \in Gens : rd'[i].pc = "exited" =>
                 rd[i].pc = "exited" \/ ~hasManager \/ ~Running
        PROVE  ManagerOn'
    <3>1. hasManager' /\ Running' => hasManager /\ Running /\ process = gens /\ reader = gens
      BY <2>1, Basics DEF ManagerOn, Running, Gens
    <3> QED
      BY <2>1, <3>1, Basics DEF ManagerOn, ManagedHasReader
  <2>2. ASSUME NEW g \in Gens, Execute(g) \/ Die(g) PROVE ManagerOn'
    <3>1. /\ UNCHANGED <<process, gens, reader, hasManager, rd>>
          /\ \A f \in Gens : Alive(f)' => Alive(f)
      BY <2>2 DEF Execute, Die, readerVars, Alive, Typed, TypeOK
    <3> QED
      BY <2>1, <3>1
  <2>3. ASSUME NEW i \in Gens, ReaderStep(i) PROVE ManagerOn'
    <3>1. UNCHANGED <<process, gens, reader, hasManager, pstate>>
      BY <2>3 DEF ReaderStep, ReaderLoop, ReaderLine, ReaderEOF, ReaderTest, ReaderAppend,
                  ReaderMark, ReaderFrame
    <3>2. rd'[i].pc = "exited" => ~hasManager \/ ~Running
      BY <2>3, Basics DEF ReaderStep, ReaderLoop, ReaderLine, ReaderEOF, ReaderTest, ReaderAppend,
                  ReaderMark, Goto, Running, Thread
    <3>3. \A j \in Gens \ {i} : rd'[j] = rd[j]
      BY <2>3, Basics DEF ReaderStep, ReaderLoop, ReaderLine, ReaderEOF, ReaderTest, ReaderAppend,
                  ReaderMark, Goto, Exit
    <3> QED
      BY <2>1, <3>1, <3>2, <3>3 DEF Alive
  <2>4. ASSUME NEW h \in Handlers, HandlerStep(h) PROVE ManagerOn'
    <3>1. CASE Issue(h) \/ IssueDead(h) \/ Wake(h) \/ LockTimeout(h) \/ WaitTimeout(h)
      BY <2>1, <3>1 DEF Issue, IssueDead, Wake, LockTimeout, WaitTimeout, ManagerFrame, pm3Vars,
                        readerVars, Alive
    <3>2. CASE Join(h) \/ Kill(h) \/ RespawnFails(h)
      BY <2>1, <3>2 DEF Join, Kill, RespawnFails, ManagerFrame, pm3Vars, readerVars, Alive
    <3>3. CASE Rework(h)
      BY <3>3 DEF Rework, ManagerOn, ManagedHasReader
    <3>4. CASE Reap(h)
      BY <3>4 DEF Reap, readerVars, ManagerOn, ManagedHasReader, Running
    <3>5. CASE KillAll(h)
      <4>1. /\ UNCHANGED <<process, gens, reader, hasManager, rd>>
            /\ \A f \in Gens : ~Alive(f)'
        BY <3>5 DEF KillAll, readerVars, Alive
      <4> QED
        BY <2>1, <4>1
    <3>6. CASE Respawn(h)
      <4>1. /\ process' = gens' /\ reader' = gens' /\ gens' = gens + 1 /\ gens + 1 \in Gens
            /\ rd' = [rd EXCEPT ![gens + 1] = Started]
        BY <3>6, Basics DEF Respawn, Gens
      <4>2. rd'[gens'].pc = "loop"
        BY <4>1, Basics DEF Started
      <4> QED
        BY <4>1, <4>2 DEF ManagerOn, ManagedHasReader, Gens
    <3> QED
      BY <2>4, <3>1, <3>2, <3>3, <3>4, <3>5, <3>6 DEF HandlerStep, Prompt
  <2>5. ASSUME NEW h \in Handlers, NEW r \in Requests, NEW k \in Kinds, Receive(h, r, k)
        PROVE  ManagerOn'
    BY <2>1, <2>5 DEF Receive, ManagerFrame, pm3Vars, readerVars, Alive
  <2>6. CASE UNCHANGED vars
    BY <2>1, <2>6 DEF vars, pm3Vars, readerVars, Alive
  <2> QED
    BY <2>2, <2>3, <2>4, <2>5, <2>6 DEF Next
<1> QED
  BY <1>1, <1>2, AlwaysTyped, PTL DEF Spec

\* While the manager is on a live subprocess has a reader that lives, however the
\* restarts of several connections overlap.
THEOREM ReaderCorrect == Spec => []ManagedHasReader
  BY AlwaysManaged, PTL DEF ManagerOn

-----------------------------------------------------------------------------
(* A single connection.                                                    *)

\* The application opens one connection, so that at most one handler is busy.
OneConnection == \A h, k \in Handlers : h = k

Replacing == {"join", "kill", "reap", "killall", "spawn"}

\* All these lines came out of one subprocess.
From(g, ls) == \A n \in 1..Len(ls) : ls[n].src = g

\* A pipe holds the output of its own subprocess, and a reader the line it took
\* from there.
Tagged ==
  /\ \A g \in Gens : From(g, stdout[g])
  /\ \A i \in Gens : rd[i].pc \in {"line", "append"} => rd[i].line.src = rd[i].src

\* Of subprocesses and of readers only the last can be alive, and the one reads
\* from the other.
OneOfEach ==
  /\ process \in {0, gens}
  /\ \A g \in Gens : Alive(g) => g = gens
  /\ \A i \in Gens : rd[i].pc \in {"loop", "read", "line", "append", "mark"} => i = gens
  /\ \A i \in Gens : rd[i].pc \in {"read", "line", "append", "mark"} => rd[i].src = gens

\* What the control point of a handler in reworkManager has undone so far.
Managed ==
  /\ hasManager => process = gens /\ reader = gens
  /\ hasManager /\ Alive(gens) => rd[gens].pc # "exited"
  /\ ~hasManager => process = 0 \/ \E h \in Handlers : hpc[h] \in {"join", "kill", "reap"}
  /\ \A h \in Handlers : hpc[h] \in Replacing => ~hasManager
  /\ \A h \in Handlers : hpc[h] \in {"killall", "spawn"} => process = 0
  /\ \A h \in Handlers : hpc[h] = "spawn" => \A g \in Gens : ~Alive(g)

\* A handler that waits does so on the last subprocess, whose reader either
\* lives or has set the event.
Waiter ==
  \A h \in Handlers : hpc[h] = "wait" =>
    /\ target[h] = gens /\ hasManager
    /\ rd[gens].pc = "exited" => event
    /\ From(gens, lines)

Single == Tagged /\ OneOfEach /\ Managed /\ Waiter

\* Lines of one subprocess stay so when lines of it are added or the first is
\* taken away.
LEMMA FromKept ==
  ASSUME NEW g, NEW ls \in Seq(Line), From(g, ls)
  PROVE  /\ \A e \in Line : e.src = g => From(g, Append(ls, e))
         /\ \A e, f \in Line : e.src = g /\ f.src = g =>
              From(g, ls \o <<e>>) /\ From(g, ls \o <<e, f>>)
         /\ ls # <<>> => From(g, Tail(ls)) /\ Head(ls).src = g
<1>1. ASSUME NEW e \in Line, e.src = g PROVE From(g, Append(ls, e))
  BY <1>1 DEF From
<1>2. ASSUME NEW e \in Line, NEW f \in Line, e.src = g, f.src = g
      PROVE  From(g, ls \o <<e>>) /\ From(g, ls \o <<e, f>>)
  <2>1. /\ Len(ls \o <<e>>) = Len(ls) + 1 /\ Len(ls \o <<e, f>>) = Len(ls) + 2
        /\ \A n \in 1..Len(ls) : (ls \o <<e>>)[n] = ls[n] /\ (ls \o <<e, f>>)[n] = ls[n]
        /\ (ls \o <<e>>)[Len(ls) + 1] = e
        /\ (ls \o <<e, f>>)[Len(ls) + 1] = e /\ (ls \o <<e, f>>)[Len(ls) + 2] = f
    OBVIOUS
  <2> QED
    BY <1>2, <2>1 DEF From
<1>3. ls # <<>> => From(g, Tail(ls)) /\ Head(ls).src = g
  BY DEF From
<1> QED
  BY <1>1, <1>2, <1>3

\* The subprocess runs a command or dies: it is the last one, and prints under
\* its own number.
LEMMA SubprocessSingle ==
  ASSUME Typed, Single, NEW g \in Gens, Execute(g) \/ Die(g)
  PROVE  Single'
<1>1. /\ UNCHANGED <<process, gens, hasManager, reader, rd, event, lines, hpc, target>>
      /\ \A f \in Gens : Alive(f)' => Alive(f)
  BY DEF Execute, Die, readerVars, cmdVars, handlerVars, Alive, Typed, TypeOK
<1>2. stdin[g] # <<>> =>
        /\ Printed(g, TRUE) \in Line /\ Printed(g, TRUE).src = g
        /\ Printed(g, FALSE) \in Line /\ Printed(g, FALSE).src = g
  BY LinesTyped DEF Typed, TypeOK, Printed
<1>3. From(g, stdout'[g]) /\ \A f \in Gens \ {g} : stdout'[f] = stdout[f]
  <2>1. stdout[g] \in Seq(Line) /\ From(g, stdout[g])
    BY Basics DEF Single, Tagged
  <2>2. CASE Execute(g)
    <3>1. PICK out \in {<<Printed(g, FALSE), Printed(g, TRUE)>>, <<Printed(g, TRUE)>>} :
            stdout' = [stdout EXCEPT ![g] = @ \o out]
      BY <2>2 DEF Execute
    <3>2. stdout'[g] = stdout[g] \o out /\ \A f \in Gens \ {g} : stdout'[f] = stdout[f]
      BY <3>1 DEF Typed, TypeOK
    <3>3. From(g, stdout[g] \o out)
      <4>1. stdin[g] # <<>>
        BY <2>2 DEF Execute
      <4>2. \A e, f \in Line : e.src = g /\ f.src = g =>
              From(g, stdout[g] \o <<e>>) /\ From(g, stdout[g] \o <<e, f>>)
        BY <2>1, FromKept
      <4>3. /\ From(g, stdout[g] \o <<Printed(g, TRUE)>>)
            /\ From(g, stdout[g] \o <<Printed(g, FALSE), Printed(g, TRUE)>>)
        BY <1>2, <4>1, <4>2
      <4> QED
        BY <3>1, <4>3
    <3> QED
      BY <3>2, <3>3
  <2>3. CASE Die(g)
    <3>1. \/ stdout' = stdout
          \/ /\ stdin[g] # <<>>
             /\ stdout' = [stdout EXCEPT ![g] = Append(@, Printed(g, FALSE))]
      BY <2>3 DEF Die
    <3>2. CASE stdout' = stdout
      BY <2>1, <3>2
    <3>3. CASE stdin[g] # <<>> /\ stdout' = [stdout EXCEPT ![g] = Append(@, Printed(g, FALSE))]
      <4>1. /\ stdout'[g] = Append(stdout[g], Printed(g, FALSE))
            /\ \A f \in Gens \ {g} : stdout'[f] = stdout[f]
        BY <3>3 DEF Typed, TypeOK
      <4>2. \A e \in Line : e.src = g => From(g, Append(stdout[g], e))
        BY <2>1, FromKept
      <4> QED
        BY <1>2, <3>3, <4>1, <4>2
    <3> QED
      BY <3>1, <3>2, <3>3
  <2> QED
    BY <2>2, <2>3
<1>4. Tagged'
  BY <1>1, <1>3 DEF Single, Tagged
<1>5. OneOfEach'
  BY <1>1 DEF Single, OneOfEach
<1>6. Managed'
  BY <1>1, Basics DEF Single, Managed
<1>7. Waiter'
  BY <1>1 DEF Single, Waiter
<1> QED
  BY <1>4, <1>5, <1>6, <1>7 DEF Single

\* A reader that goes on, other than by taking a line, is still the last one
\* and its line is of the pipe it reads from.
LEMMA ReaderSingle ==
  ASSUME Typed, Single, NEW i \in Gens, ReaderStep(i)
  PROVE  Single'
<1> USE DEF Reading, Goto
<1>0. /\ rd \in [Gens -> Thread] /\ lines \in Seq(Line) /\ gens \in Gens
      /\ Exited.pc = "exited" /\ event \in BOOLEAN
      /\ rd[i] \in Thread
  BY Basics DEF Exited, Typed, TypeOK
<1>1. /\ UNCHANGED <<process, gens, hasManager, reader, hpc, target>>
      /\ \A f \in Gens : Alive(f)' <=> Alive(f)
      /\ \A j \in Gens \ {i} : rd'[j] = rd[j]
      /\ rd[i].pc # "exited"
  BY <1>0 DEF ReaderStep, ReaderLoop, ReaderLine, ReaderEOF, ReaderTest, ReaderAppend, ReaderMark,
         ReaderFrame, handlerVars, Alive, Exit
<1>2. i = gens
  BY <1>1, <1>0 DEF ReaderStep, ReaderLoop, ReaderLine, ReaderEOF, ReaderTest, ReaderAppend,
         ReaderMark, Single, OneOfEach
\* Output and buffer.
<1>3. /\ \A g \in Gens : From(g, stdout'[g])
      /\ rd'[i].pc \in {"line", "append"} => rd'[i].line.src = rd'[i].src
  <2>1. CASE ReaderLine(i)
    <3> DEFINE g == rd[i].src
    <3>1. g \in Gens /\ stdout[g] # <<>> /\ g = gens
      BY <1>0, <1>2, <2>1 DEF ReaderLine, Single, OneOfEach
    <3>2. /\ stdout' = [stdout EXCEPT ![g] = Tail(@)]
          /\ rd'[i].line = Head(stdout[g]) /\ rd'[i].src = g
      BY <1>0, <2>1 DEF ReaderLine, Thread
    <3>3. From(g, Tail(stdout[g])) /\ Head(stdout[g]).src = g
      BY <3>1, Basics, FromKept DEF Single, Tagged
    <3> QED
      BY <3>1, <3>2, <3>3 DEF Single, Tagged, Typed, TypeOK
  <2>2. CASE ~ReaderLine(i)
    BY <1>0, <2>2 DEF ReaderStep, ReaderLoop, ReaderEOF, ReaderTest, ReaderAppend, ReaderMark,
           Exit, Exited, NoThread, Single, Tagged, Thread
  <2> QED
    BY <2>1, <2>2
<1>4. /\ rd'[i].pc \in {"read", "line", "append", "mark"} => rd'[i].src = gens
      /\ rd'[i].pc = "exited" =>
           event' /\ ~(hasManager /\ Alive(gens))
  <2>1. CASE ReaderLoop(i)
    <3>1. gens # 0 /\ process \in {0, gens} /\ (hasManager => process = gens)
      BY <1>0 DEF Gens, Single, OneOfEach, Managed
    <3>2. CASE process = 0 \/ ~hasManager
      BY <1>0, <1>1, <2>1, <3>1, <3>2 DEF ReaderLoop, Exit
    <3>3. CASE ~(process = 0 \/ ~hasManager)
      BY <1>0, <2>1, <3>1, <3>3 DEF ReaderLoop, Thread
    <3> QED
      BY <3>2, <3>3
  <2>2. CASE ReaderEOF(i)
    BY <1>0, <1>1, <1>2, <2>2 DEF ReaderEOF, Exit, Running, Single, OneOfEach, Managed, Thread
  <2>3. CASE ReaderLine(i) \/ ReaderTest(i) \/ ReaderAppend(i) \/ ReaderMark(i)
    BY <1>0, <1>1, <1>2, <2>3
       DEF ReaderLine, ReaderTest, ReaderAppend, ReaderMark, Single, OneOfEach, Thread
  <2> QED
    BY <2>1, <2>2, <2>3 DEF ReaderStep
<1>5. (event => event') /\ (From(gens, lines) => From(gens, lines'))
  <2>1. CASE ReaderAppend(i)
    <3>1. rd[i].line \in Line /\ rd[i].line.src = gens
      BY <1>0, <1>2, <2>1 DEF ReaderAppend, Single, Tagged, OneOfEach, Thread
    <3> QED
      BY <1>0, <2>1, <3>1, FromKept DEF ReaderAppend
  <2>2. CASE ~ReaderAppend(i)
    BY <2>2, <1>0, Zenon DEF ReaderStep, ReaderLoop, ReaderLine, ReaderEOF, ReaderTest, ReaderMark, Exit
  <2> QED
    BY <2>1, <2>2
<1>6. Tagged'
  BY <1>1, <1>3 DEF Single, Tagged
<1>7. OneOfEach' /\ Managed' /\ Waiter'
  BY <1>1, <1>2, <1>4, <1>5 DEF Single, OneOfEach, Managed, Waiter
<1> QED
  BY <1>6, <1>7 DEF Single

\* A handler that leaves server, readers and subprocesses alone and does not go
\* on to wait: what Managed says of its next control point must hold now.
LEMMA ElsewhereSingle ==
  ASSUME Typed, Single, ManagerFrame, NEW pc,
         \A k \in Handlers : hpc'[k] = pc,
         pc # "wait", pc \in Replacing => ~hasManager,
         pc \in {"killall", "spawn"} => process = 0,
         pc = "spawn" => \A g \in Gens : ~Alive(g),
         ~hasManager => process = 0 \/ pc \in {"join", "kill", "reap"}
  PROVE  Single'
<1>1. /\ UNCHANGED <<process, gens, pstate, stdout, hasManager, reader, rd>>
      /\ \A g \in Gens : Alive(g)' <=> Alive(g)
  BY DEF ManagerFrame, pm3Vars, readerVars, Alive
<1>2. Tagged' /\ OneOfEach'
  BY <1>1 DEF Single, Tagged, OneOfEach
<1>3. Managed'
  <2>1. hasManager /\ Alive(gens) => rd[gens].pc # "exited"
    BY DEF Single, Managed
  <2>2. ~hasManager' => process' = 0 \/ \E h \in Handlers : hpc'[h] \in {"join", "kill", "reap"}
    BY <1>1 DEF Single, Managed
  <2> QED
    BY <1>1, <2>1, <2>2, Basics DEF Single, Managed
<1>4. Waiter'
  BY DEF Waiter
<1> QED
  BY <1>2, <1>3, <1>4 DEF Single

\* The only handler takes a step outside reworkManager.
LEMMA SendSingle ==
  ASSUME OneConnection, Typed, Single, NEW h \in Handlers,
         \/ Issue(h) \/ IssueDead(h) \/ LockTimeout(h) \/ Wake(h) \/ WaitTimeout(h)
  PROVE  Single'
<1>1. \A k \in Handlers : k = h
  BY DEF OneConnection
<1>2. hpc[h] \in {"send", "wait"} /\ hpc \in [Handlers -> {"idle", "send", "wait", "rework",
                             "join", "kill", "reap", "killall", "spawn"}]
  BY DEF Issue, IssueDead, LockTimeout, Wake, WaitTimeout, Typed, Locals
<1>3. ~hasManager => process = 0
  BY <1>1, <1>2 DEF Single, Managed
<1>4. CASE Issue(h)
  <2>1. /\ process # 0 /\ Alive(process) /\ process = gens /\ hasManager
        /\ rd[gens].pc # "exited"
    BY <1>3, <1>4 DEF Issue, Running, Single, OneOfEach, Managed
  <2>2. /\ UNCHANGED <<process, gens, pstate, stdout, hasManager, reader, rd>>
        /\ \A g \in Gens : Alive(g)' <=> Alive(g)
        /\ lines' = <<>> /\ hpc' = [hpc EXCEPT ![h] = "wait"]
        /\ target' = [target EXCEPT ![h] = process]
    BY <1>4 DEF Issue, readerVars, Alive
  <2>3. hpc'[h] = "wait" /\ target'[h] = gens
    BY <1>2, <2>1, <2>2 DEF Typed, Locals
  <2>4. Tagged' /\ OneOfEach'
    BY <2>2 DEF Single, Tagged, OneOfEach
  <2>5. Managed'
    BY <1>1, <2>1, <2>2, <2>3 DEF Single, Managed, Replacing
  <2>6. Waiter'
    BY <1>1, <2>1, <2>2, <2>3 DEF Waiter, From
  <2> QED
    BY <2>4, <2>5, <2>6 DEF Single
<1>5. CASE ~Issue(h)
  <2>1. PICK pc \in {"idle", "send", "rework"} : hpc' = [hpc EXCEPT ![h] = pc]
    BY <1>2, <1>5, SendEnds DEF IssueDead, LockTimeout, Wake, WaitTimeout, Typed, TypeOK
  <2>2. ManagerFrame /\ \A k \in Handlers : hpc'[k] = pc
    BY <1>1, <1>2, <1>5, <2>1 DEF IssueDead, LockTimeout, Wake, WaitTimeout
  <2> QED
    BY <1>3, <2>2, ElsewhereSingle DEF Replacing
<1> QED
  BY <1>4, <1>5

\* Or inside it, up to the new subprocess.
LEMMA TeardownSingle ==
  ASSUME OneConnection, Typed, Single, NEW h \in Handlers,
         Rework(h) \/ Join(h) \/ Kill(h) \/ Reap(h) \/ KillAll(h) \/ RespawnFails(h)
  PROVE  Single'
<1>1. \A k \in Handlers : k = h
  BY DEF OneConnection
<1>2. hpc \in [Handlers -> {"idle", "send", "wait", "rework",
                            "join", "kill", "reap", "killall", "spawn"}]
  BY DEF Typed, Locals
<1>3. CASE Rework(h)
  <2>1. /\ UNCHANGED <<process, gens, pstate, stdout, rd>> /\ hasManager' = FALSE
        /\ \A g \in Gens : Alive(g)' <=> Alive(g)
        /\ hpc'[h] = "join"
    BY <1>2, <1>3 DEF Rework, HandlerGoto, pm3Vars, Alive
  <2>2. Tagged' /\ OneOfEach'
    BY <2>1 DEF Single, Tagged, OneOfEach
  <2>3. Managed' /\ Waiter'
    BY <1>1, <2>1 DEF Managed, Waiter, Replacing
  <2> QED
    BY <2>2, <2>3 DEF Single
<1>4. CASE Join(h)
  <2>1. /\ ManagerFrame /\ \A k \in Handlers : hpc'[k] = "kill"
        /\ ~hasManager
    BY <1>1, <1>2, <1>4 DEF Join, HandlerGoto, Single, Managed, Replacing
  <2> QED
    BY <2>1, ElsewhereSingle
<1>5. CASE Kill(h)
  <2>1. ManagerFrame /\ ~hasManager
    BY <1>5 DEF Kill, Single, Managed, Replacing
  <2>2. CASE process # 0
    <3>1. \A k \in Handlers : hpc'[k] = "reap"
      BY <1>1, <1>2, <1>5, <2>2 DEF Kill, HandlerGoto
    <3> QED
      BY <2>1, <3>1, ElsewhereSingle
  <2>3. CASE process = 0
    <3>1. \A k \in Handlers : hpc'[k] = "killall"
      BY <1>1, <1>2, <1>5, <2>3 DEF Kill, HandlerGoto
    <3> QED
      BY <2>1, <2>3, <3>1, ElsewhereSingle
  <2> QED
    BY <2>2, <2>3
<1>6. CASE Reap(h)
  <2>1. /\ UNCHANGED <<gens, pstate, stdout, hasManager, rd, reader>> /\ process' = 0
        /\ \A g \in Gens : Alive(g)' <=> Alive(g)
        /\ hpc'[h] = "killall" /\ ~hasManager
    BY <1>2, <1>6 DEF Reap, HandlerGoto, pm3Vars, readerVars, Alive, Single, Managed, Replacing
  <2>2. Tagged' /\ OneOfEach'
    BY <2>1 DEF Single, Tagged, OneOfEach
  <2>3. Managed' /\ Waiter'
    BY <1>1, <2>1 DEF Managed, Waiter, Replacing
  <2> QED
    BY <2>2, <2>3 DEF Single
<1>7. CASE KillAll(h)
  <2>1. /\ UNCHANGED <<process, gens, stdout, hasManager, rd, reader>>
        /\ process = 0 /\ ~hasManager
        /\ \A g \in Gens : ~Alive(g)'
    BY <1>7 DEF KillAll, pm3Vars, readerVars, Alive, Single, Managed, Replacing
  <2>2. hpc'[h] \in {"idle", "spawn"}
    BY <1>2, <1>7 DEF KillAll, Detach, ToSpawn, Reply, HandlerGoto
  <2>3. Tagged' /\ OneOfEach'
    BY <2>1 DEF Single, Tagged, OneOfEach
  <2>4. Managed' /\ Waiter'
    BY <1>1, <2>1, <2>2 DEF Managed, Waiter, Replacing
  <2> QED
    BY <2>3, <2>4 DEF Single
<1>8. CASE RespawnFails(h)
  <2>1. ManagerFrame /\ ~hasManager /\ process = 0
    BY <1>8 DEF RespawnFails, Single, Managed, Replacing
  <2>2. \A k \in Handlers : hpc'[k] = "idle"
    BY <1>1, <1>2, <1>8 DEF RespawnFails, Reply
  <2> QED
    BY <2>1, <2>2, ElsewhereSingle DEF Replacing
<1> QED
  BY <1>3, <1>4, <1>5, <1>6, <1>7, <1>8

\* The new subprocess is alone, and so is its reader: Settled lets no reader of
\* an earlier one through.
LEMMA RespawnSingle ==
  ASSUME OneConnection, Typed, Single, NEW h \in Handlers, Respawn(h)
  PROVE  Single'
<1>1. \A k \in Handlers : k = h
  BY DEF OneConnection
<1>2. /\ gens' = gens + 1 /\ process' = gens + 1 /\ reader' = gens + 1 /\ hasManager'
      /\ gens + 1 \in Gens /\ gens \in Nat
      /\ stdout' = stdout /\ \A g \in Gens : ~Alive(g)
      /\ hpc[h] = "spawn" /\ hpc'[h] \in {"idle", "send"}
  <2>1. gens \in Nat /\ gens < MaxGen /\ gens + 1 \in Gens
    BY RfAssumption DEF Respawn, Gens, Typed, TypeOK
  <2>2. hpc'[h] \in {"idle", "send"}
    BY DEF Respawn, Reply, Continue, Step, Typed, Locals
  <2>3. hpc[h] = "spawn" /\ \A g \in Gens : ~Alive(g)
    BY DEF Respawn, Single, Managed
  <2> QED
    BY <2>1, <2>2, <2>3 DEF Respawn
<1>3. \A g \in Gens : Alive(g)' => g = gens + 1
  BY <1>2 DEF Respawn, Alive, Typed, TypeOK
<1>4. /\ rd' = [rd EXCEPT ![gens + 1] = Started]
      /\ Started.pc = "loop"
  BY DEF Respawn, Started, NoThread
<1>5. \A i \in Gens : rd[i].pc \in {"unborn", "exited"}
  <2> SUFFICES ASSUME NEW i \in Gens PROVE rd[i].pc \in {"unborn", "exited"}
    OBVIOUS
  <2>1. ~Moving(i) /\ rd[i] \in Thread
    BY Basics DEF Respawn, Settled
  <2>2. rd[i].pc \in {"read", "line", "append", "mark"} => rd[i].src = gens /\ ~Alive(gens)
    BY <1>2 DEF Single, OneOfEach, Typed, TypeOK
  <2> QED
    BY <2>1, <2>2 DEF Moving, Reading, Thread
<1>6. \A i \in Gens : rd'[i].pc \in {"unborn", "exited"} \/ (i = gens + 1 /\ rd'[i].pc = "loop")
  BY <1>2, <1>4, <1>5, Basics
<1>7. Tagged'
  BY <1>2, <1>6 DEF Single, Tagged
<1>8. OneOfEach'
  BY <1>2, <1>3, <1>6 DEF OneOfEach
<1>9. Managed' /\ Waiter'
  <2>1. rd'[gens'].pc # "exited"
    BY <1>2, <1>4, Basics
  <2> QED
    BY <1>1, <1>2, <2>1 DEF Managed, Waiter, Replacing
<1> QED
  BY <1>7, <1>8, <1>9 DEF Single

\* A request arrives at the idle handler.
LEMMA ReceiveSingle ==
  ASSUME OneConnection, Typed, Single, NEW h \in Handlers, NEW r \in Requests, NEW k \in Kinds,
         Receive(h, r, k)
  PROVE  Single'
<1>1. \A j \in Handlers : j = h
  BY DEF OneConnection
<1>2. /\ ManagerFrame /\ hpc[h] = "idle" /\ hpc'[h] \in {"idle", "send", "rework"}
  BY DEF Receive, HandlerGoto, Typed, Locals
<1>3. ~hasManager => process = 0
  BY <1>1, <1>2 DEF Single, Managed
<1> QED
  BY <1>1, <1>2, <1>3, ElsewhereSingle DEF Replacing

\* With one connection there is one subprocess, one reader of it, and nothing
\* else in the buffer of the handler that waits.
LEMMA AlwaysSingle ==
  ASSUME OneConnection
  PROVE  Spec => []Single
<1>1. Init => Single
  <2> SUFFICES ASSUME Init PROVE Single
    OBVIOUS
  <2>1. \A g \in Gens : From(g, stdout[g])
    BY DEF Init, From
  <2>2. 1 \in Gens /\ Started.pc = "loop" /\ NoThread.pc = "unborn"
    BY RfAssumption DEF Gens, Started, NoThread
  <2>3. Tagged
    BY <2>1, <2>2 DEF Init, Tagged
  <2>4. OneOfEach
    BY <2>2 DEF Init, OneOfEach, Alive
  <2>5. Managed /\ Waiter
    BY <2>2 DEF Init, Managed, Waiter, Replacing
  <2> QED
    BY <2>3, <2>4, <2>5 DEF Single
<1>2. Typed /\ Single /\ [Next]_vars => Single'
  <2> SUFFICES ASSUME Typed, Single, [Next]_vars PROVE Single'
    OBVIOUS
  <2>1. ASSUME NEW h \in Handlers, HandlerStep(h) PROVE Single'
    BY <2>1, SendSingle, TeardownSingle, RespawnSingle DEF HandlerStep, Prompt
  <2>2. CASE UNCHANGED vars
    <3>1. Tagged' /\ OneOfEach'
      BY <2>2 DEF Single, Tagged, OneOfEach, Alive, vars, pm3Vars, readerVars, handlerVars
    <3>2. Managed'
      BY <2>2 DEF Single, Managed, Alive, vars, pm3Vars, readerVars, handlerVars
    <3>3. Waiter'
      BY <2>2 DEF Single, Waiter, vars, readerVars, cmdVars, handlerVars
    <3> QED
      BY <3>1, <3>2, <3>3 DEF Single
  <2> QED
    BY <2>1, <2>2, SubprocessSingle, ReaderSingle, ReceiveSingle DEF Next
<1> QED
  BY <1>1, <1>2, AlwaysTyped, PTL DEF Spec

\* A response is made of the output of the one subprocess the command was
\* written to, whatever was printed before a restart.
THEOREM RestartCorrect ==
  ASSUME OneConnection
  PROVE  Spec => []NoOutputAcrossRestart
<1>1. Typed /\ Single => NoOutputAcrossRestart
  BY Basics DEF Single, Waiter, From, NoOutputAcrossRestart
<1> QED
  BY <1>1, AlwaysTyped, AlwaysSingle, PTL

\* A restart leaves neither a second subprocess on the serial port nor a second
\* reader on one pipe.
THEOREM OneClientCorrect ==
  ASSUME OneConnection
  PROVE  Spec => []OneClient
<1>1. Single => OneClient
  BY DEF Single, OneOfEach, OneClient, Reading
<1> QED
  BY <1>1, AlwaysSingle, PTL

\* The reader of a subprocess that died has woken the handler that waits on it.
THEOREM WakeCorrect ==
  ASSUME OneConnection
  PROVE  Spec => []DeathWakesWaiter
<1>1. Single => DeathWakesWaiter
  BY DEF Single, Waiter, DeathWakesWaiter
<1> QED
  BY <1>1, AlwaysSingle, PTL
=============================================================================
