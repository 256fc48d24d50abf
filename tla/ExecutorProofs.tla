--------------------------- MODULE ExecutorProofs ---------------------------
(***************************************************************************)
(* startPM3Task, startPM3Ctrl and stopPM3Task do what TaskService says for *)
(* any number of threads; what a stop, a rework and an interrupted task    *)
(* leave to the next one, for one thread and any number of tasks.          *)
(***************************************************************************)
EXTENDS ExecutorService, SequenceTheorems, TLAPS

-----------------------------------------------------------------------------
(* Types.                                                                  *)

\* A task that has not ended has a number and no success yet.
Own == \A t \in Threads :
  /\ pc[t] # "idle" => task[t].id \in Ids
  /\ pc[t] \notin {"idle", "end"} => ~task[t].success

LEMMA Parts ==
  ASSUME NEW S, NEW q \in Seq(S), NEW n \in 1..Len(q)
  PROVE  SubSeq(q, 1, n) \in Seq(S) /\ SubSeq(q, n + 1, Len(q)) \in Seq(S)
<1>1. Len(q) \in Nat /\ \A i \in 1..Len(q) : q[i] \in S
  BY LenProperties, ElementOfSeq
<1>2. n \in Int /\ n + 1 \in Int /\ Len(q) \in Int
  BY <1>1
<1>3. (\A i \in 1..n : q[i] \in S) /\ \A i \in (n + 1)..Len(q) : q[i] \in S
  BY <1>1
<1>4. SubSeq(q, 1, n) \in Seq(S)
  BY <1>2, <1>3, SubSeqProperties
<1>5. SubSeq(q, n + 1, Len(q)) \in Seq(S)
  BY <1>2, <1>3, SubSeqProperties
<1> QED
  BY <1>4, <1>5

LEMMA ReceiveTyped ==
  ASSUME TypeOK, NEW t \in Threads, Receive(t)
  PROVE  buf' \in [Threads -> Seq(Message)] /\ answers' \in Seq(Message)
<1>1. PICK n \in 1..Len(answers) :
        /\ buf' = [buf EXCEPT ![t] = @ \o SubSeq(answers, 1, n)]
        /\ answers' = SubSeq(answers, n + 1, Len(answers))
  BY DEF Receive
<1>2. SubSeq(answers, 1, n) \in Seq(Message) /\ SubSeq(answers, n + 1, Len(answers)) \in Seq(Message)
  BY Parts DEF TypeOK
<1>3. buf[t] \o SubSeq(answers, 1, n) \in Seq(Message)
  BY <1>2, ConcatProperties DEF TypeOK
<1> QED
  BY <1>1, <1>2, <1>3 DEF TypeOK

LEMMA SendTyped ==
  ASSUME TypeOK, NEW id \in 0..MaxCalls, Send(id)
  PROVE  requests' \in Seq(0..MaxCalls)
BY AppendProperties DEF TypeOK, Send

LEMMA CloseTyped ==
  ASSUME TypeOK, Close
  PROVE  /\ requests' \in Seq(0..MaxCalls) /\ answers' \in Seq(Message)
         /\ mine' \in [Threads -> BOOLEAN] /\ closed' \in BOOLEAN
BY EmptySeq DEF Close

LEMMA GotoTyped ==
  ASSUME TypeOK, NEW t \in Threads, NEW l \in Labels, Goto(t, l)
  PROVE  pc' \in [Threads -> Labels] /\ pc'[t] = l /\ \A u \in Threads : u # t => pc'[u] = pc[u]
BY DEF TypeOK, Goto

LEMMA TaskFields ==
  ASSUME NEW k \in Task, NEW n \in Nat, NEW b \in BOOLEAN
  PROVE  /\ [k EXCEPT !.attempt = n] \in Task
         /\ [k EXCEPT !.attempt = n].id = k.id /\ [k EXCEPT !.attempt = n].success = k.success
         /\ [k EXCEPT !.last = b] \in Task
         /\ [k EXCEPT !.last = b].id = k.id /\ [k EXCEPT !.last = b].success = k.success
         /\ [k EXCEPT !.success = b] \in Task /\ [k EXCEPT !.success = b].id = k.id
         /\ k.attempt \in Nat /\ k.id \in 0..MaxCalls
BY DEF Task

LEMMA NextAttemptTyped ==
  ASSUME TypeOK, NEW t \in Threads, NextAttempt(t)
  PROVE  /\ pc' \in [Threads -> Labels] /\ pc'[t] \in {"end", "attempt"}
         /\ \A u \in Threads : u # t => pc'[u] = pc[u] /\ task'[u] = task[u]
         /\ task' \in [Threads -> Task]
         /\ task'[t].id = task[t].id /\ task'[t].success = task[t].success
<1>1. "end" \in Labels /\ "attempt" \in Labels
  BY DEF Labels
<1>2. CASE task[t].last
  BY <1>1, <1>2, GotoTyped DEF NextAttempt, TypeOK
<1>3. CASE ~task[t].last
  <2>1. task \in [Threads -> Task] /\ task[t] \in Task
    BY DEF TypeOK
  <2> DEFINE k == [task[t] EXCEPT !.attempt = @ + 1]
  <2>2. task[t].attempt + 1 \in Nat
    <3>1. task[t].attempt \in Nat
      BY <2>1 DEF Task
    <3> QED
      BY <3>1
  <2>3. k \in Task /\ k.id = task[t].id /\ k.success = task[t].success
    BY <2>1, <2>2, TaskFields
  <2>4. task' = [task EXCEPT ![t] = k] /\ Goto(t, "attempt")
    BY <1>3 DEF NextAttempt
  <2> HIDE DEF k
  <2>5. task' \in [Threads -> Task] /\ task'[t] = k /\ \A u \in Threads : u # t => task'[u] = task[u]
    BY <2>1, <2>3, <2>4
  <2> QED
    BY <1>1, <2>3, <2>4, <2>5, GotoTyped
<1> QED
  BY <1>2, <1>3

LEMMA CallStep ==
  ASSUME TypeOK, Own, NEW t \in Threads, NEW timeout \in Timeouts \cup {"ctl"}, Call(t, timeout)
  PROVE  TypeOK' /\ Own'
<1>1. calls + 1 \in Ids /\ calls + 1 \in 0..MaxCalls
  BY ExAssumption DEF Call, TypeOK, Ids
<1> DEFINE n == calls + 1
<1>6. n \in 0..MaxCalls
  BY <1>1
<1> HIDE DEF n
<1>7. [NoTask EXCEPT !.id = n, !.timeout = timeout] \in Task
  BY <1>6 DEF NoTask, Task
<1>2. task' \in [Threads -> Task] /\ buf' \in [Threads -> Seq(Message)] /\ calls' \in 0..MaxCalls
  BY <1>1, <1>7, EmptySeq DEF Call, TypeOK, n
<1>3. pc' \in [Threads -> Labels] /\ \A u \in Threads : u # t => pc'[u] = pc[u]
  BY GotoTyped DEF Call, Labels
<1>4. TypeOK'
  BY <1>2, <1>3 DEF Call, TypeOK, flags, network
<1>5. task'[t].id = calls + 1 /\ ~task'[t].success /\ \A u \in Threads : u # t => task'[u] = task[u]
  BY DEF Call, TypeOK, NoTask
<1>8. n \in Ids /\ task'[t].id = n
  BY <1>1, <1>5 DEF n
<1> QED
  BY <1>3, <1>4, <1>5, <1>8 DEF Own

\* A step of a thread that changes nothing of the others' places and tasks.
LEMMA OwnKept ==
  ASSUME Own, NEW t \in Threads,
         \A u \in Threads : u # t => pc'[u] = pc[u] /\ task'[u] = task[u],
         task'[t].id = task[t].id, pc[t] # "idle",
         pc'[t] \in {"idle", "end"} \/ ~task'[t].success
  PROVE  Own'
BY DEF Own

LEMMA EnterStep ==
  ASSUME TypeOK, Own, NEW t \in Threads, Enter(t)
  PROVE  TypeOK' /\ Own'
<1>1. pc' \in [Threads -> Labels] /\ \A u \in Threads : u # t => pc'[u] = pc[u]
  BY GotoTyped DEF Enter, Labels
<1>2. /\ requests' \in Seq(0..MaxCalls) /\ answers' \in Seq(Message) /\ mine' \in [Threads -> BOOLEAN]
      /\ sock' \in BOOLEAN /\ closed' \in BOOLEAN
  BY CloseTyped DEF Enter, Connect, network, TypeOK
<1>3. cache' \in Seq(Message)
  BY EmptySeq DEF Enter, TypeOK
<1>4. TypeOK'
  BY <1>1, <1>2, <1>3 DEF Enter, TypeOK, history
<1>5. Own'
  BY <1>1, OwnKept DEF Enter, Own
<1> QED
  BY <1>4, <1>5

LEMMA BeginStep ==
  ASSUME TypeOK, Own, NEW t \in Threads, Begin(t) \/ End(t) \/ Control(t)
  PROVE  TypeOK' /\ Own'
<1>1. pc' \in [Threads -> Labels] /\ \A u \in Threads : u # t => pc'[u] = pc[u]
  BY GotoTyped DEF Begin, End, Control, Labels
<1>2. 0 \in 0..MaxCalls
  BY ExAssumption
<1>3. requests' \in Seq(0..MaxCalls) /\ mine' \in [Threads -> BOOLEAN] /\ running' \in BOOLEAN
  BY <1>2, SendTyped DEF Begin, End, Control, network, TypeOK
<1>4. TypeOK'
  BY <1>1, <1>3 DEF Begin, End, Control, TypeOK, history, network
<1>5. Own'
  <2>1. CASE Begin(t)
    BY <1>1, <2>1, OwnKept DEF Begin, Own
  <2>2. CASE End(t)
    <3>1. pc'[t] = "idle"
      BY <2>2 DEF End, Goto, TypeOK
    <3> QED
      BY <1>1, <2>2, <3>1, OwnKept DEF End
  <2>3. CASE Control(t)
    BY <1>1, <2>3, OwnKept DEF Control, Own
  <2> QED
    BY <2>1, <2>2, <2>3
<1> QED
  BY <1>4, <1>5

LEMMA AttemptStep ==
  ASSUME TypeOK, Own, NEW t \in Threads, Attempt(t)
  PROVE  TypeOK' /\ Own'
<1>1. pc' \in [Threads -> Labels] /\ \A u \in Threads : u # t => pc'[u] = pc[u]
  BY GotoTyped DEF Attempt, Labels
<1>2. task[t].id \in 0..MaxCalls
  BY DEF TypeOK, Task
<1>3. requests' \in Seq(0..MaxCalls) /\ cache' \in Seq(Message) /\ buf' \in [Threads -> Seq(Message)]
  BY <1>2, SendTyped, EmptySeq DEF Attempt, TypeOK
<1>4. TypeOK'
  BY <1>1, <1>3 DEF Attempt, TypeOK, flags, history
<1>5. Own'
  BY <1>1, OwnKept DEF Attempt, Own
<1> QED
  BY <1>4, <1>5

LEMMA TopStep ==
  ASSUME TypeOK, Own, NEW t \in Threads, Top(t)
  PROVE  TypeOK' /\ Own'
<1>1. pc' \in [Threads -> Labels] /\ \A u \in Threads : u # t => pc'[u] = pc[u]
  BY GotoTyped DEF Top, Labels
<1>2. task[t].id \in Ids
  BY DEF Top, Own
<1>3. /\ cache' \in Seq(Message) /\ buf' \in [Threads -> Seq(Message)] /\ mine' \in [Threads -> BOOLEAN]
      /\ needsCleanup' \in BOOLEAN
  BY EmptySeq DEF Top, TypeOK
<1>4. interrupted' \subseteq Ids
  BY <1>2 DEF Top, TypeOK
<1>5. TypeOK'
  BY <1>1, <1>3, <1>4 DEF Top, TypeOK, network
<1>6. Own'
  BY <1>1, OwnKept DEF Top, Own
<1> QED
  BY <1>5, <1>6

LEMMA ReceiveStep ==
  ASSUME TypeOK, Own, NEW t \in Threads, Chunk(t) \/ ControlChunk(t)
  PROVE  TypeOK' /\ Own'
<1>1. pc' \in [Threads -> Labels] /\ \A u \in Threads : u # t => pc'[u] = pc[u]
  BY GotoTyped DEF Chunk, ControlChunk, Labels, TypeOK
<1>2. buf' \in [Threads -> Seq(Message)] /\ answers' \in Seq(Message)
  BY ReceiveTyped DEF Chunk, ControlChunk
<1>3. cache' \in Seq(Message)
  BY <1>2 DEF Chunk, ControlChunk, TypeOK
<1>4. TypeOK'
  BY <1>1, <1>2, <1>3 DEF Chunk, ControlChunk, TypeOK, flags, history
<1>5. Own'
  BY <1>1, OwnKept DEF Chunk, ControlChunk, Own
<1> QED
  BY <1>4, <1>5

LEMMA WaitStep ==
  ASSUME TypeOK, Own, NEW t \in Threads, HungUp(t) \/ Poll(t) \/ GiveUp(t)
  PROVE  TypeOK' /\ Own'
<1>1. pc' \in [Threads -> Labels] /\ \A u \in Threads : u # t => pc'[u] = pc[u]
  BY GotoTyped DEF HungUp, Poll, GiveUp, Labels
<1>2. task[t].id \in Ids
  BY DEF HungUp, Poll, GiveUp, Own
<1>3. cache' \in Seq(Message) /\ buf' \in [Threads -> Seq(Message)] /\ requests' \in Seq(0..MaxCalls)
  BY EmptySeq DEF network, HungUp, Poll, GiveUp, TypeOK
<1>4. abandoned' \subseteq Ids
  BY <1>2 DEF HungUp, Poll, GiveUp, TypeOK, history
<1>5. TypeOK'
  BY <1>1, <1>3, <1>4 DEF HungUp, Poll, GiveUp, TypeOK, flags, network, history
<1>6. Own'
  BY <1>1, OwnKept DEF HungUp, Poll, GiveUp, Own
<1> QED
  BY <1>5, <1>6

LEMMA JudgeStep ==
  ASSUME TypeOK, Own, NEW t \in Threads, Judge(t)
  PROVE  TypeOK' /\ Own'
<1>1. pc' \in [Threads -> Labels] /\ pc'[t] \in {"end", "rework"} /\ \A u \in Threads : u # t => pc'[u] = pc[u]
  BY GotoTyped DEF Judge, Labels
<1>2. /\ task' \in [Threads -> Task] /\ reworks' \in Nat /\ task'[t].id = task[t].id
      /\ \A u \in Threads : u # t => task'[u] = task[u]
      /\ pc'[t] = "rework" => task'[t].success = task[t].success
  <2>1. task \in [Threads -> Task] /\ task[t] \in Task /\ reworks \in Nat /\ 0 \in Nat
    BY DEF TypeOK
  <2> DEFINE k == [task[t] EXCEPT !.success = TRUE]
             l == [task[t] EXCEPT !.last = (reworks + 1 >= MaxReworks)]
  <2>2. k \in Task /\ l \in Task /\ k.id = task[t].id /\ l.id = task[t].id /\ l.success = task[t].success
    <3>1. (reworks + 1 >= MaxReworks) \in BOOLEAN
      OBVIOUS
    <3> QED
      BY <2>1, <3>1, TaskFields
  <2>3. \/ UNCHANGED <<reworks, task>>
        \/ reworks' = 0 /\ task' = [task EXCEPT ![t] = k] /\ Goto(t, "end")
        \/ reworks' = reworks /\ task' = [task EXCEPT ![t] = l]
    BY DEF Judge
  <2>4. Goto(t, "end") => pc'[t] = "end"
    BY DEF TypeOK, Goto
  <2> HIDE DEF k, l
  <2> QED
    BY <2>1, <2>2, <2>3, <2>4
<1>3. TypeOK'
  BY <1>1, <1>2 DEF Judge, TypeOK, network, history
<1>4. Own'
  BY <1>1, <1>2, OwnKept DEF Judge, Own
<1> QED
  BY <1>3, <1>4

LEMMA ReworkStep ==
  ASSUME TypeOK, Own, NEW t \in Threads, Rework(t) \/ Reconnect(t) \/ Restarted(t) \/ Answered(t)
  PROVE  TypeOK' /\ Own'
<1>1. CASE Rework(t)
  <2>1. pc' \in [Threads -> Labels] /\ \A u \in Threads : u # t => pc'[u] = pc[u]
    BY <1>1, GotoTyped DEF Rework, Labels
  <2>2. /\ requests' \in Seq(0..MaxCalls) /\ answers' \in Seq(Message)
        /\ mine' \in [Threads -> BOOLEAN] /\ closed' \in BOOLEAN
    BY <1>1, CloseTyped DEF Rework
  <2>4. reworks' \in Nat /\ cache' \in Seq(Message)
    BY <1>1, EmptySeq DEF Rework, TypeOK
  <2>3. TypeOK'
    BY <1>1, <2>1, <2>2, <2>4 DEF Rework, TypeOK, history
  <2> QED
    BY <1>1, <2>1, <2>3, OwnKept DEF Rework, Own
<1>2. CASE Reconnect(t)
  <2>1. 0 \in 0..MaxCalls
    BY ExAssumption
  <2>2. /\ pc' \in [Threads -> Labels] /\ task' \in [Threads -> Task]
        /\ \A u \in Threads : u # t => pc'[u] = pc[u] /\ task'[u] = task[u]
        /\ task'[t].id = task[t].id /\ task'[t].success = task[t].success
    BY <1>2, GotoTyped, NextAttemptTyped DEF Reconnect, Labels, TypeOK
  <2>3. /\ requests' \in Seq(0..MaxCalls) /\ mine' \in [Threads -> BOOLEAN] /\ cache' \in Seq(Message)
        /\ buf' \in [Threads -> Seq(Message)] /\ sock' \in BOOLEAN
    BY <1>2, <2>1, SendTyped, EmptySeq DEF Reconnect, TypeOK, Connect
  <2>4. TypeOK'
    BY <1>2, <2>2, <2>3 DEF Reconnect, TypeOK, flags, history
  <2> QED
    BY <1>2, <2>2, <2>4, OwnKept DEF Reconnect, Own
<1>3. CASE Restarted(t)
  <2>1. /\ pc' \in [Threads -> Labels] /\ task' \in [Threads -> Task]
        /\ \A u \in Threads : u # t => pc'[u] = pc[u] /\ task'[u] = task[u]
        /\ task'[t].id = task[t].id /\ task'[t].success = task[t].success
    BY <1>3, NextAttemptTyped DEF Restarted
  <2>2. TypeOK'
    BY <1>3, <2>1 DEF Restarted, TypeOK, flags, network, history
  <2> QED
    BY <1>3, <2>1, <2>2, OwnKept DEF Restarted, Own
<1>4. CASE Answered(t)
  <2>1. pc' \in [Threads -> Labels] /\ \A u \in Threads : u # t => pc'[u] = pc[u]
    BY <1>4, GotoTyped DEF Answered, Labels
  <2>2. TypeOK'
    BY <1>4, <2>1 DEF Answered, TypeOK, flags, network, history
  <2> QED
    BY <1>4, <2>1, <2>2, OwnKept DEF Answered, Own
<1> QED
  BY <1>1, <1>2, <1>3, <1>4

LEMMA KeyStep ==
  ASSUME TypeOK, Own, (\E mode \in StopModes : Stop(mode)) \/ StopReturns \/ ResetReworkCount
  PROVE  TypeOK' /\ Own'
<1>1. Own'
  BY DEF Stop, StopReturns, ResetReworkCount, local, Own
<1>2. CASE \E mode \in StopModes : Stop(mode)
  <2>1. PICK mode \in StopModes : Stop(mode)
    BY <1>2
  <2>2. \A t \in Threads : Running(t) => task[t].id \in Ids
    BY DEF Running, Own
  <2>3. stopped' \subseteq Ids \X {"wait", "nowait"} /\ ui' \in {"idle", "wait", "nowait"}
    BY <2>1, <2>2, ExAssumption DEF Stop, TypeOK
  <2> QED
    BY <1>1, <2>1, <2>3 DEF Stop, TypeOK, local, network
<1>3. CASE StopReturns
  BY <1>1, <1>3 DEF StopReturns, TypeOK, local, network, history
<1>4. CASE ResetReworkCount
  BY <1>1, <1>4 DEF ResetReworkCount, TypeOK, local, network, history
<1> QED
  BY <1>2, <1>3, <1>4

LEMMA ServeStep ==
  ASSUME TypeOK, Own, Serve
  PROVE  TypeOK' /\ Own'
<1>1. Head(requests) \in 0..MaxCalls /\ requests' \in Seq(0..MaxCalls)
  BY HeadTailProperties DEF Serve, TypeOK
<1>2. answers' \in Seq(Message)
  <2>1. ASSUME NEW kind \in Kinds
        PROVE  Append(answers, [of |-> Head(requests), kind |-> kind]) \in Seq(Message)
    <3>1. [of |-> Head(requests), kind |-> kind] \in Message
      BY <1>1 DEF Message
    <3> QED
      BY <3>1, AppendProperties DEF TypeOK
  <2>2. (IF Head(requests) = 0 THEN {"ok"} ELSE Kinds \ {"ok"}) \subseteq Kinds
    BY DEF Kinds
  <2>3. answers \in Seq(Message)
    BY DEF TypeOK
  <2> QED
    BY <2>1, <2>2, <2>3 DEF Serve
<1> QED
  BY <1>1, <1>2 DEF Serve, TypeOK, Own, flags, local, history

LEMMA TypeInit == Init => TypeOK /\ Own
<1> SUFFICES ASSUME Init PROVE TypeOK /\ Own
  OBVIOUS
<1>1. NoTask \in Task /\ <<>> \in Seq(Message) /\ <<>> \in Seq(0..MaxCalls) /\ 0 \in 0..MaxCalls
  BY EmptySeq, ExAssumption DEF NoTask, Task
<1> QED
  BY <1>1 DEF Init, TypeOK, Own, Labels

LEMMA TypeStep ==
  ASSUME TypeOK, Own, Next
  PROVE  TypeOK' /\ Own'
<1>1. ASSUME NEW t \in Threads, TaskStep(t) PROVE TypeOK' /\ Own'
  BY <1>1, EnterStep, BeginStep, AttemptStep, TopStep, ReceiveStep, WaitStep, JudgeStep, ReworkStep DEF TaskStep
<1> QED
  BY <1>1, CallStep, KeyStep, ServeStep DEF Next

LEMMA Typed == Spec => [](TypeOK /\ Own)
<1>1. TypeOK /\ Own /\ UNCHANGED vars => (TypeOK /\ Own)'
  BY DEF TypeOK, Own, vars, flags, network, local, history
<1>2. TypeOK /\ Own /\ [Next]_vars => (TypeOK /\ Own)'
  BY <1>1, TypeStep
<1> QED
  BY <1>2, TypeInit, PTL DEF Spec

\* Flags, queues, control points and tasks are well typed, for any number of threads.
THEOREM TypeCorrect == Spec => []TypeOK
BY Typed, PTL

-----------------------------------------------------------------------------
(* The refinement.                                                         *)
Phases == [t \in Threads |-> Phase(t)]
Busy == {"attempt", "top", "recv", "judge", "rework", "reconnect", "restart", "answer"}

LEMMA PhaseAt ==
  ASSUME NEW t \in Threads
  PROVE  /\ pc[t] = "idle" => Phase(t) = "idle"
         /\ pc[t] = "enter" => Phase(t) = "called"
         /\ pc[t] \in {"begin", "control"} => Phase(t) = "ready"
         /\ pc[t] = "end" /\ task[t].success => Phase(t) = "done"
         /\ pc[t] = "end" /\ ~task[t].success => Phase(t) = "failed"
         /\ pc[t] \in Busy => Phase(t) = "running"
<1>1. CASE pc[t] = "idle"
  BY <1>1 DEF Phase, Busy
<1>2. CASE pc[t] = "enter"
  BY <1>2 DEF Phase, Busy
<1>3. CASE pc[t] \in {"begin", "control"}
  BY <1>3 DEF Phase, Busy
<1>4. CASE pc[t] = "end"
  BY <1>4 DEF Phase, Busy
<1>5. CASE pc[t] \in Busy
  BY <1>5 DEF Phase, Busy
<1> QED
  BY <1>1, <1>2, <1>3, <1>4, <1>5

LEMMA PhaseNext ==
  ASSUME NEW t \in Threads
  PROVE  /\ pc'[t] = "idle" => Phase(t)' = "idle"
         /\ pc'[t] = "enter" => Phase(t)' = "called"
         /\ pc'[t] \in {"begin", "control"} => Phase(t)' = "ready"
         /\ pc'[t] = "end" /\ task'[t].success => Phase(t)' = "done"
         /\ pc'[t] = "end" /\ ~task'[t].success => Phase(t)' = "failed"
         /\ pc'[t] \in Busy => Phase(t)' = "running"
<1>1. CASE pc'[t] = "idle"
  BY <1>1 DEF Phase, Busy
<1>2. CASE pc'[t] = "enter"
  BY <1>2 DEF Phase, Busy
<1>3. CASE pc'[t] \in {"begin", "control"}
  BY <1>3 DEF Phase, Busy
<1>4. CASE pc'[t] = "end"
  BY <1>4 DEF Phase, Busy
<1>5. CASE pc'[t] \in Busy
  BY <1>5 DEF Phase, Busy
<1> QED
  BY <1>1, <1>2, <1>3, <1>4, <1>5

\* What a thread does is seen of that thread alone.
LEMMA OneMoves ==
  ASSUME NEW t \in Threads,
         \A u \in Threads : u # t => pc'[u] = pc[u] /\ task'[u].success = task[u].success
  PROVE  Phases' = [Phases EXCEPT ![t] = Phase(t)']
<1>1. \A u \in Threads : u # t => Phase(u)' = Phase(u)
  BY DEF Phase
<1> QED
  BY <1>1 DEF Phases

\* A step between two control points of the same phase is invisible.
LEMMA Unseen ==
  ASSUME NEW t \in Threads,
         \A u \in Threads : u # t => pc'[u] = pc[u] /\ task'[u].success = task[u].success,
         Phase(t)' = Phase(t)
  PROVE  Phases' = Phases
BY OneMoves DEF Phases

LEMMA CallSeen ==
  ASSUME TypeOK, Own, NEW t \in Threads, NEW timeout \in Timeouts \cup {"ctl"}, Call(t, timeout)
  PROVE  Service!Call(t) \/ Service!CallControl(t)
<1>1. /\ pc'[t] = (IF timeout = "ctl" THEN "control" ELSE "enter")
      /\ \A u \in Threads : u # t => pc'[u] = pc[u] /\ task'[u].success = task[u].success
  BY DEF Call, Goto, TypeOK
<1>2. Phases' = [Phases EXCEPT ![t] = Phase(t)'] /\ Phases[t] = "idle"
  BY <1>1, OneMoves, PhaseAt DEF Call, Phases
<1>3. UNCHANGED <<running, stopping, ui>>
  BY DEF Call, flags
<1>4. CASE timeout = "ctl"
  BY <1>1, <1>2, <1>3, <1>4, PhaseNext DEF Service!CallControl, Service!Becomes, Phases
<1>5. CASE timeout # "ctl"
  BY <1>1, <1>2, <1>3, <1>5, PhaseNext DEF Service!Call, Service!Becomes, Phases
<1> QED
  BY <1>4, <1>5

LEMMA EnterSeen ==
  ASSUME TypeOK, Own, NEW t \in Threads, Enter(t)
  PROVE  Service!Enter(t) \/ Service!Refuse(t)
<1>1. /\ pc'[t] \in {"idle", "begin"} /\ UNCHANGED <<task, running, stopping, ui>> /\ ~stopping
      /\ \A u \in Threads : u # t => pc'[u] = pc[u]
  BY DEF Enter, Goto, TypeOK
<1>2. Phases' = [Phases EXCEPT ![t] = Phase(t)'] /\ Phases[t] = "called"
  BY <1>1, OneMoves, PhaseAt DEF Enter, Phases
<1>3. CASE pc'[t] = "begin"
  BY <1>1, <1>2, <1>3, PhaseNext DEF Service!Enter, Service!Becomes, Phases
<1>4. CASE pc'[t] = "idle"
  BY <1>1, <1>2, <1>4, PhaseNext DEF Service!Refuse, Service!Becomes, Phases
<1> QED
  BY <1>1, <1>3, <1>4

LEMMA BeginSeen ==
  ASSUME TypeOK, Own, NEW t \in Threads, Begin(t) \/ Control(t)
  PROVE  Service!Begin(t)
<1>1. /\ pc'[t] \in Busy /\ running' = TRUE /\ UNCHANGED <<task, stopping, ui>>
      /\ pc[t] \in {"begin", "control"} /\ \A u \in Threads : u # t => pc'[u] = pc[u]
  BY DEF Begin, Control, Goto, TypeOK, Busy
<1>2. Phases' = [Phases EXCEPT ![t] = Phase(t)'] /\ Phases[t] = "ready"
  BY <1>1, OneMoves, PhaseAt DEF Phases
<1> QED
  BY <1>1, <1>2, PhaseNext DEF Service!Begin, Service!Becomes, Phases

LEMMA EndSeen ==
  ASSUME TypeOK, Own, NEW t \in Threads, End(t)
  PROVE  Service!Return(t)
<1>1. /\ pc'[t] = "idle" /\ running' = FALSE /\ UNCHANGED <<task, stopping, ui>>
      /\ pc[t] = "end" /\ \A u \in Threads : u # t => pc'[u] = pc[u]
  BY DEF End, Goto, TypeOK
<1>2. Phases' = [Phases EXCEPT ![t] = Phase(t)'] /\ Phases[t] \in {"done", "failed"}
  BY <1>1, OneMoves, PhaseAt DEF Phases
<1> QED
  BY <1>1, <1>2, PhaseNext DEF Service!Return, Service!Becomes, Phases

\* From inside a task it goes on unseen, or it has failed.
LEMMA GoesOn ==
  ASSUME TypeOK, Own, NEW t \in Threads, pc[t] \in Busy, pc'[t] \in Busy \cup {"end"},
         \A u \in Threads : u # t => pc'[u] = pc[u] /\ task'[u].success = task[u].success,
         task'[t].success = task[t].success, UNCHANGED <<running, stopping, ui>>
  PROVE  Service!Fail(t) \/ UNCHANGED Service!serviceVars
<1>1. Phases' = [Phases EXCEPT ![t] = Phase(t)'] /\ Phases[t] = "running" /\ Phase(t) = "running"
  BY OneMoves, PhaseAt DEF Phases
<1>2. ~task[t].success
  BY DEF Own, Busy
<1>3. CASE pc'[t] = "end"
  BY <1>1, <1>2, <1>3, PhaseNext DEF Service!Fail, Service!Becomes, Phases
<1>4. CASE pc'[t] \in Busy
  <2>1. Phases' = Phases
    BY <1>1, <1>4, PhaseNext, Unseen
  <2> QED
    BY <2>1 DEF Service!serviceVars, Phases
<1> QED
  BY <1>3, <1>4

LEMMA JudgeSeen ==
  ASSUME TypeOK, Own, NEW t \in Threads, Judge(t)
  PROVE  Service!Succeed(t) \/ Service!Fail(t) \/ UNCHANGED Service!serviceVars
<1>1. /\ pc[t] = "judge" /\ pc'[t] \in {"end", "rework"} /\ UNCHANGED <<running, stopping, ui>>
      /\ \A u \in Threads : u # t => pc'[u] = pc[u] /\ task'[u].success = task[u].success
  BY DEF Judge, Goto, TypeOK
<1>2. \/ ~stopping /\ pc'[t] = "end" /\ task'[t].success = TRUE
      \/ task'[t].success = task[t].success
  BY DEF Judge, Goto, TypeOK, Task
<1>3. CASE task'[t].success = task[t].success
  BY <1>1, <1>3, GoesOn DEF Busy
<1>4. CASE ~stopping /\ pc'[t] = "end" /\ task'[t].success = TRUE
  <2>1. Phases' = [Phases EXCEPT ![t] = Phase(t)'] /\ Phases[t] = "running"
    BY <1>1, OneMoves, PhaseAt DEF Phases, Busy
  <2> QED
    BY <1>1, <1>4, <2>1, PhaseNext DEF Service!Succeed, Service!Becomes, Phases
<1> QED
  BY <1>2, <1>3, <1>4

LEMMA NextAttemptMoves ==
  ASSUME TypeOK, NEW t \in Threads, NextAttempt(t)
  PROVE  /\ pc'[t] \in {"end", "attempt"}
         /\ \A u \in Threads : u # t => pc'[u] = pc[u] /\ task'[u].success = task[u].success
         /\ task'[t].success = task[t].success
BY NextAttemptTyped

LEMMA InsideSeen ==
  ASSUME TypeOK, Own, NEW t \in Threads,
         \/ Attempt(t) \/ Top(t) \/ Chunk(t) \/ HungUp(t) \/ Poll(t) \/ GiveUp(t) \/ Rework(t)
         \/ Reconnect(t) \/ ControlChunk(t) \/ Restarted(t) \/ Answered(t)
  PROVE  Service!Fail(t) \/ UNCHANGED Service!serviceVars
<1>1. CASE Attempt(t) \/ Top(t) \/ Chunk(t)
  BY <1>1, GoesOn DEF Attempt, Top, Chunk, Goto, TypeOK, Busy, flags
<1>2. CASE HungUp(t) \/ Poll(t) \/ GiveUp(t) \/ Rework(t) \/ Answered(t)
  BY <1>2, GoesOn DEF HungUp, Poll, GiveUp, Rework, Answered, Goto, TypeOK, Busy, flags
<1>3. CASE ControlChunk(t)
  BY <1>3, GoesOn DEF ControlChunk, TypeOK, Busy, flags
<1>4. CASE Restarted(t)
  <2>1. pc[t] \in Busy /\ NextAttempt(t) /\ UNCHANGED <<running, stopping, ui>>
    BY <1>4 DEF Restarted, Busy, flags
  <2> QED
    BY <2>1, NextAttemptMoves, GoesOn DEF Busy
<1>5. CASE Reconnect(t)
  <2>1. pc[t] \in Busy /\ UNCHANGED <<running, stopping, ui>>
    BY <1>5 DEF Reconnect, Busy, flags
  <2>2. NextAttempt(t) \/ (Goto(t, "restart") /\ UNCHANGED task)
    BY <1>5 DEF Reconnect
  <2>3. CASE NextAttempt(t)
    BY <2>1, <2>3, NextAttemptMoves, GoesOn DEF Busy
  <2>4. CASE Goto(t, "restart") /\ UNCHANGED task
    BY <2>1, <2>4, GoesOn DEF Goto, TypeOK, Busy
  <2> QED
    BY <2>2, <2>3, <2>4
<1> QED
  BY <1>1, <1>2, <1>3, <1>4, <1>5

LEMMA KeySeen ==
  ASSUME TypeOK, Own
  PROVE  /\ \A mode \in StopModes : Stop(mode) => Service!ServiceNext
         /\ StopReturns => Service!ServiceNext
         /\ ResetReworkCount \/ Serve => UNCHANGED Service!serviceVars
<1>1. UNCHANGED <<pc, task>> => Phases' = Phases
  BY DEF Phases, Phase
<1>2. ASSUME NEW mode \in StopModes, Stop(mode) PROVE Service!ServiceNext
  <2>1. Service!Stop(mode)
    BY <1>1, <1>2 DEF Stop, Service!Stop, Phases, local
  <2> QED
    BY <2>1, ExAssumption DEF Service!ServiceNext
<1>3. ASSUME StopReturns PROVE Service!ServiceNext
  <2>1. Service!StopReturns
    BY <1>1, <1>3 DEF StopReturns, Service!StopReturns, Phases, local
  <2> QED
    BY <2>1 DEF Service!ServiceNext
<1>4. ASSUME ResetReworkCount \/ Serve PROVE UNCHANGED Service!serviceVars
  <2>1. UNCHANGED <<pc, task, running, stopping, ui>>
    BY <1>4 DEF ResetReworkCount, Serve, local, flags
  <2> QED
    BY <1>1, <2>1 DEF Service!serviceVars, Phases
<1> QED
  BY <1>2, <1>3, <1>4

LEMMA StepSeen ==
  ASSUME TypeOK, Own, [Next]_vars
  PROVE  [Service!ServiceNext]_Service!serviceVars
<1>1. CASE UNCHANGED vars
  <2>1. UNCHANGED <<pc, task, running, stopping, ui>>
    BY <1>1 DEF vars, local, flags
  <2> QED
    BY <2>1 DEF Service!serviceVars, Phase
<1>2. ASSUME NEW t \in Threads, TaskStep(t) PROVE Service!ServiceNext \/ UNCHANGED Service!serviceVars
  BY <1>2, EnterSeen, BeginSeen, EndSeen, JudgeSeen, InsideSeen DEF TaskStep, Service!ServiceNext
<1>3. ASSUME NEW t \in Threads, NEW timeout \in Timeouts \cup {"ctl"}, Call(t, timeout)
      PROVE  Service!ServiceNext
  BY <1>3, CallSeen DEF Service!ServiceNext
<1> QED
  BY <1>1, <1>2, <1>3, KeySeen DEF Next

\* Whatever the server, the connection and the board do, and however many threads there
\* are, every step of startPM3Task, startPM3Ctrl and stopPM3Task is a step of the calls
\* the activities count on (TaskService) or invisible to them.
THEOREM Refinement == Spec => ImplementsService
<1>1. Init => Service!ServiceInit
  <2> SUFFICES ASSUME Init PROVE Service!ServiceInit
    OBVIOUS
  <2>1. \A t \in Threads : Phase(t) = "idle"
    BY PhaseAt DEF Init
  <2> QED
    BY <2>1 DEF Init, Service!ServiceInit
<1>2. TypeOK /\ Own /\ [Next]_vars => [Service!ServiceNext]_Service!serviceVars
  BY StepSeen
<1> QED
  BY <1>1, <1>2, Typed, PTL DEF Spec, ImplementsService, Service!ServiceSpec

-----------------------------------------------------------------------------
(* One thread: the activities open one at a time, as long as none leaves a *)
(* task behind.  With two threads the flags and the counter are shared and *)
(* the theorems below do not hold.                                         *)
OneThread == \A t, u \in Threads : t = u

\* Where the next rework would still be within the budget.
Budget == reworks <= MaxReworks /\ \A t \in Threads :
  /\ pc[t] \in {"begin", "attempt", "top", "recv", "judge", "rework"} => reworks < MaxReworks
  /\ pc[t] = "rework" /\ ~task[t].last => reworks + 1 < MaxReworks
  /\ pc[t] \in {"reconnect", "restart"} /\ ~task[t].last => reworks < MaxReworks

\* A task that runs is seen running, until it ends.
Seen == \A t \in Threads :
  /\ Running(t) \/ pc[t] \in {"answer", "end"} => running
  /\ stopping <=> ui # "idle"

\* Whoever waits for a task it stopped still waits while it runs.
Awaited == \A t \in Threads :
  /\ task[t].id <= calls
  /\ \A s \in stopped : s[1] <= calls
  /\ pc[t] \in {"enter", "begin"} => \A s \in stopped : s[1] # task[t].id
  /\ Running(t) /\ <<task[t].id, "wait">> \in stopped => ui = "wait"

LEMMA JudgeLast ==
  ASSUME TypeOK, NEW t \in Threads, Judge(t), pc'[t] = "rework"
  PROVE  task'[t].last = (reworks + 1 >= MaxReworks) /\ reworks' = reworks /\ ~stopping
<1>1. /\ task' = [task EXCEPT ![t].last = (reworks + 1 >= MaxReworks)]
      /\ reworks' = reworks /\ ~stopping
  BY DEF Judge, Goto, TypeOK
<1>2. task \in [Threads -> Task]
  BY DEF TypeOK
<1> QED
  BY <1>1, <1>2 DEF Task

LEMMA BudgetStep ==
  ASSUME TypeOK, OneThread, Budget, Next
  PROVE  Budget'
<1>1. MaxReworks \in Nat \ {0} /\ reworks \in Nat
  BY ExAssumption DEF TypeOK
<1>2. ASSUME NEW t \in Threads, NEW timeout \in Timeouts \cup {"ctl"}, Call(t, timeout) PROVE Budget'
  BY <1>2 DEF OneThread, Call, Goto, TypeOK, Budget, flags
<1>3. ASSUME NEW t \in Threads, TaskStep(t) PROVE Budget'
  <2>1. CASE Enter(t) \/ Begin(t) \/ Attempt(t) \/ Top(t) \/ End(t) \/ Control(t) \/ Answered(t)
    BY <1>1, <2>1 DEF OneThread, Enter, Begin, Attempt, Top, End, Control, Answered, Goto, TypeOK, Budget, flags
  <2>2. CASE Chunk(t) \/ HungUp(t) \/ Poll(t) \/ GiveUp(t) \/ ControlChunk(t)
    BY <1>1, <2>2 DEF OneThread, Chunk, HungUp, Poll, GiveUp, ControlChunk, Goto, TypeOK, Budget, flags
  <2>3. CASE Judge(t)
    <3>1. reworks' \in {0, reworks} /\ pc'[t] \in {"end", "rework"} /\ pc[t] = "judge"
      BY <2>3 DEF Judge, Goto, TypeOK
    <3>4. \A u \in Threads : u = t
      BY DEF OneThread
    <3>5. reworks < MaxReworks
      BY <3>1 DEF Budget
    <3>6. reworks' <= MaxReworks
      BY <1>1, <3>1, <3>5
    <3>2. CASE pc'[t] = "end"
      BY <3>2, <3>4, <3>6 DEF Budget
    <3>3. CASE pc'[t] = "rework"
      <4>1. task'[t].last = (reworks + 1 >= MaxReworks) /\ reworks' = reworks /\ reworks < MaxReworks
        BY <2>3, <3>3, <3>5, JudgeLast
      <4>2. ~task'[t].last => reworks' + 1 < MaxReworks
        <5>1. reworks + 1 >= MaxReworks => task'[t].last
          BY <4>1, Zenon
        <5> QED
          BY <1>1, <4>1, <5>1
      <4> QED
        BY <3>3, <3>4, <3>6, <4>1, <4>2 DEF Budget
    <3> QED
      BY <3>1, <3>2, <3>3
  <2>4. CASE Rework(t)
    BY <1>1, <2>4 DEF OneThread, Rework, Goto, TypeOK, Budget
  <2>5. CASE Reconnect(t) \/ Restarted(t)
    <3>1. reworks' = reworks /\ pc[t] \in {"reconnect", "restart"}
      BY <2>5 DEF Reconnect, Restarted, flags
    <3>2. NextAttempt(t) \/ (Goto(t, "restart") /\ UNCHANGED task)
      BY <2>5 DEF Reconnect, Restarted
    <3>3. CASE NextAttempt(t) /\ task[t].last
      BY <1>1, <3>1, <3>3 DEF OneThread, NextAttempt, Goto, TypeOK, Budget
    <3>4. CASE NextAttempt(t) /\ ~task[t].last
      <4>1. pc'[t] = "attempt"
        BY <3>4 DEF NextAttempt, Goto, TypeOK
      <4> QED
        BY <1>1, <3>1, <3>4, <4>1 DEF OneThread, Budget
    <3>5. CASE Goto(t, "restart") /\ UNCHANGED task
      BY <1>1, <3>1, <3>5 DEF OneThread, Goto, TypeOK, Budget
    <3> QED
      BY <3>2, <3>3, <3>4, <3>5
  <2> QED
    BY <1>3, <2>1, <2>2, <2>3, <2>4, <2>5 DEF TaskStep
<1>4. CASE ResetReworkCount
  BY <1>1, <1>4 DEF ResetReworkCount, local, Budget
<1>5. CASE (\E mode \in StopModes : Stop(mode)) \/ StopReturns \/ Serve
  BY <1>5 DEF Stop, StopReturns, Serve, local, flags, Budget
<1> QED
  BY <1>2, <1>3, <1>4, <1>5 DEF Next

LEMMA SeenStep ==
  ASSUME TypeOK, OneThread, Seen, Next
  PROVE  Seen'
<1>1. ASSUME NEW t \in Threads, NEW timeout \in Timeouts \cup {"ctl"}, Call(t, timeout) PROVE Seen'
  BY <1>1 DEF OneThread, Call, Goto, TypeOK, Seen, Running, flags
<1>2. ASSUME NEW t \in Threads, TaskStep(t) PROVE Seen'
  <2>1. CASE Enter(t) \/ Begin(t) \/ Attempt(t) \/ Top(t) \/ End(t) \/ Control(t) \/ Answered(t)
    BY <2>1 DEF OneThread, Enter, Begin, Attempt, Top, End, Control, Answered, Goto, TypeOK, Seen, Running, flags
  <2>2. CASE Chunk(t) \/ HungUp(t) \/ Poll(t) \/ GiveUp(t) \/ ControlChunk(t) \/ Judge(t) \/ Rework(t)
    BY <2>2 DEF OneThread, Chunk, HungUp, Poll, GiveUp, ControlChunk, Judge, Rework, Goto, TypeOK, Seen, Running, flags
  <2>3. CASE Reconnect(t) \/ Restarted(t)
    BY <2>3 DEF OneThread, Reconnect, Restarted, NextAttempt, Goto, TypeOK, Seen, Running, flags
  <2> QED
    BY <1>2, <2>1, <2>2, <2>3 DEF TaskStep
<1>3. CASE (\E mode \in StopModes : Stop(mode)) \/ StopReturns \/ ResetReworkCount \/ Serve
  BY <1>3, ExAssumption DEF Stop, StopReturns, ResetReworkCount, Serve, local, flags, Seen, Running
<1> QED
  BY <1>1, <1>2, <1>3 DEF Next

\* What a step of the task moves, for the facts about the stops.
LEMMA AwaitedStep ==
  ASSUME TypeOK, Own, OneThread, Seen, Awaited, Next
  PROVE  Awaited'
<1>1. ASSUME NEW t \in Threads, NEW timeout \in Timeouts \cup {"ctl"}, Call(t, timeout) PROVE Awaited'
  <2>1. /\ task'[t].id = calls + 1 /\ calls' = calls + 1 /\ pc'[t] \in {"enter", "control"} /\ UNCHANGED stopped
        /\ calls \in Nat
    BY <1>1 DEF Call, Goto, TypeOK, NoTask
  <2>2. \A s \in stopped : s[1] \in Nat
    BY DEF TypeOK, Ids
  <2>3. \A s \in stopped : s[1] <= calls + 1 /\ s[1] # calls + 1
    <3>1. \A s \in stopped : s[1] <= calls
      BY DEF Awaited
    <3> QED
      BY <2>1, <2>2, <3>1
  <2>4. \A u \in Threads : task'[u].id = calls' /\ ~Running(u)'
    BY <2>1 DEF OneThread, Running
  <2> QED
    BY <2>1, <2>3, <2>4 DEF Awaited
<1>2. ASSUME NEW t \in Threads, TaskStep(t) PROVE Awaited'
  <2>1. UNCHANGED <<calls, stopped, ui>>
    BY <1>2 DEF TaskStep, Enter, Begin, Attempt, Top, Chunk, HungUp, Poll, GiveUp, Judge, Rework, Reconnect,
                ControlChunk, Restarted, End, Control, Answered, history
  <2>2. task'[t].id = task[t].id
    <3>1. CASE Judge(t)
      BY <3>1 DEF Judge, TypeOK, Task
    <3>2. CASE Reconnect(t) \/ Restarted(t)
      BY <3>2, NextAttemptTyped DEF Reconnect, Restarted
    <3> QED
      BY <1>2, <3>1, <3>2 DEF TaskStep, Enter, Begin, Attempt, Top, Chunk, HungUp, Poll, GiveUp, Rework,
                              ControlChunk, End, Control, Answered
  <2>3. /\ pc'[t] \in {"enter", "begin"} => pc[t] \in {"enter", "begin"}
        /\ Running(t)' => Running(t) \/ pc[t] = "begin"
    <3>1. CASE Enter(t) \/ Begin(t) \/ Attempt(t) \/ Top(t) \/ End(t) \/ Control(t) \/ Answered(t)
      BY <3>1 DEF Enter, Begin, Attempt, Top, End, Control, Answered, Goto, TypeOK, Running
    <3>2. CASE Chunk(t) \/ HungUp(t) \/ Poll(t) \/ GiveUp(t) \/ ControlChunk(t) \/ Judge(t) \/ Rework(t)
      BY <3>2 DEF Chunk, HungUp, Poll, GiveUp, ControlChunk, Judge, Rework, Goto, TypeOK, Running
    <3>3. CASE Reconnect(t) \/ Restarted(t)
      BY <3>3 DEF Reconnect, Restarted, NextAttempt, Goto, TypeOK, Running
    <3> QED
      BY <1>2, <3>1, <3>2, <3>3 DEF TaskStep
  <2>4. pc[t] = "begin" => <<task[t].id, "wait">> \notin stopped
    BY DEF Awaited
  <2> QED
    BY <2>1, <2>2, <2>3, <2>4 DEF OneThread, Awaited
<1>3. ASSUME NEW mode \in StopModes, Stop(mode) PROVE Awaited'
  <2>1. /\ UNCHANGED <<pc, task, calls>> /\ ui = "idle" /\ ui' = mode
        /\ stopped' = stopped \cup {<<task[u].id, mode>> : u \in {u \in Threads : Running(u)}}
    BY <1>3 DEF Stop, local
  <2>2. \A t \in Threads : <<task[t].id, "wait">> \in stopped' /\ Running(t) => mode = "wait"
    BY <2>1 DEF Awaited
  <2> QED
    BY <2>1, <2>2 DEF OneThread, Awaited, Running
<1>4. CASE StopReturns
  <2>1. UNCHANGED <<pc, task, calls, stopped>> /\ (ui = "wait" => ~running)
    BY <1>4 DEF StopReturns, local, history
  <2>2. ui = "wait" => \A t \in Threads : ~Running(t)
    BY <2>1 DEF Seen
  <2> QED
    BY <2>1, <2>2 DEF Awaited, Running
<1>5. CASE ResetReworkCount \/ Serve
  BY <1>5 DEF ResetReworkCount, Serve, local, history, Awaited, Running
<1> QED
  BY <1>1, <1>2, <1>3, <1>4, <1>5 DEF Next

Stopping == TypeOK /\ Own /\ Seen /\ Awaited

LEMMA StoppingStep == OneThread /\ Stopping /\ [Next]_vars => Stopping'
<1>1. Stopping /\ UNCHANGED vars => Stopping'
  BY DEF Stopping, TypeOK, Own, Seen, Awaited, Running, vars, flags, network, local, history
<1> QED
  BY <1>1, TypeStep, SeenStep, AwaitedStep DEF Stopping

LEMMA StoppingInit == Init => Stopping
<1> SUFFICES ASSUME Init PROVE Stopping
  OBVIOUS
<1>1. Seen /\ Awaited
  BY DEF Init, Seen, Awaited, Running, NoTask
<1> QED
  BY <1>1, TypeInit DEF Stopping

\* Without a good answer and without a reset the board is restarted at most
\* MAX_CONSECUTIVE_REWORKS times, however many tasks follow each other on a thread and
\* whenever the counter is reset between two steps of one of them.
THEOREM ReworksCorrect ==
  ASSUME OneThread
  PROVE  Spec => []ReworksCapped
<1>1. Init => Budget
  BY ExAssumption DEF Init, Budget
<1>2. TypeOK /\ Budget /\ [Next]_vars => Budget'
  <2>1. Budget /\ UNCHANGED vars => Budget'
    BY DEF Budget, vars, flags, local
  <2> QED
    BY <2>1, BudgetStep
<1>3. Budget => ReworksCapped
  BY DEF Budget, ReworksCapped
<1> QED
  BY <1>1, <1>2, <1>3, Typed, PTL DEF Spec

\* When stopPM3Task(wait=True) returns, the task it stopped has left its loops.
THEOREM StopCorrect ==
  ASSUME OneThread
  PROVE  Spec => StopIsComplete
<1>1. Stopping /\ [Next]_vars => [ui = "wait" /\ ui' = "idle" =>
        \A t \in Threads : Running(t) => <<task[t].id, "wait">> \notin stopped]_vars
  <2> SUFFICES ASSUME Stopping, [Next]_vars, ui = "wait", ui' = "idle"
      PROVE  \A t \in Threads : ~Running(t)
    OBVIOUS
  <2>1. ~running
    BY DEF Next, TaskStep, Call, Enter, Begin, Attempt, Top, Chunk, HungUp, Poll, GiveUp, Judge, Rework,
           Reconnect, ControlChunk, Restarted, End, Control, Answered, Stop, StopReturns,
           ResetReworkCount, Serve, vars
  <2> QED
    BY <2>1 DEF Stopping, Seen
<1> QED
  BY <1>1, StoppingInit, StoppingStep, PTL DEF Spec, StopIsComplete

\* After a waiting stop found it running, a task begins no attempt and decides on no
\* restart of the board, wherever the stop found it.
THEOREM StopIsTheEnd ==
  ASSUME OneThread
  PROVE  Spec => StopEndsAttempts
<1>1. Stopping /\ [Next]_vars => [\A t \in Threads :
        Restarts(t) \/ Begins(t) => <<task[t].id, "wait">> \notin stopped]_vars
  <2> SUFFICES ASSUME Stopping, [Next]_vars, NEW t \in Threads, Restarts(t) \/ Begins(t)
      PROVE  <<task[t].id, "wait">> \notin stopped
    OBVIOUS
  <2>1. pc'[t] # pc[t] /\ pc'[t] \in {"rework", "top", "judge"} /\ pc \in [Threads -> Labels]
    BY DEF Restarts, Begins, Stopping, TypeOK
  <2>2. PICK u \in Threads : TaskStep(u)
    <3>1. ASSUME NEW u \in Threads, NEW timeout \in Timeouts \cup {"ctl"}, Call(u, timeout) PROVE FALSE
      BY <2>1, <3>1 DEF Call, Goto
    <3>2. (\E mode \in StopModes : Stop(mode)) \/ StopReturns \/ ResetReworkCount \/ Serve \/ UNCHANGED vars
            => UNCHANGED pc
      BY DEF Stop, StopReturns, ResetReworkCount, Serve, local, vars
    <3> QED
      BY <2>1, <3>1, <3>2 DEF Next
  <2>3. u = t
    BY DEF OneThread
  <2>4. CASE pc[t] = "attempt"
    <3>1. Attempt(t)
      BY <2>2, <2>3, <2>4 DEF TaskStep, Enter, Begin, Top, Chunk, HungUp, Poll, GiveUp, Judge, Rework,
         Reconnect, ControlChunk, Restarted, End, Control, Answered
    <3>2. ~stopping /\ Running(t)
      BY <2>1, <2>4, <3>1 DEF Attempt, Goto, Running
    <3> QED
      BY <3>2 DEF Stopping, Seen, Awaited
  <2>5. CASE pc[t] # "attempt"
    <3>1. pc'[t] = "rework"
      BY <2>5 DEF Restarts, Begins
    <3>2. Judge(t)
      BY <2>1, <2>2, <2>3, <2>5, <3>1 DEF TaskStep, Enter, Begin, Attempt, Top, Chunk, HungUp, Poll, GiveUp,
         Rework, Reconnect, NextAttempt, ControlChunk, Restarted, End, Control, Answered, Goto
    <3>3. ~stopping /\ Running(t)
      BY <3>1, <3>2, JudgeLast DEF Stopping, Judge, Running
    <3> QED
      BY <3>3 DEF Stopping, Seen, Awaited
  <2> QED
    BY <2>4, <2>5
<1> QED
  BY <1>1, StoppingInit, StoppingStep, PTL DEF Spec, StopEndsAttempts

-----------------------------------------------------------------------------
(* What is under way on the connection.                                    *)
MessageOf(S) == [of : S, kind : Kinds]
Quiet == (0..MaxCalls) \ interrupted
Others(t) == (0..MaxCalls) \ (interrupted \ {task[t].id})

NetQuiet == requests \in Seq(Quiet) /\ answers \in Seq(MessageOf(Quiet))
NetOthers(t) == requests \in Seq(Others(t)) /\ answers \in Seq(MessageOf(Others(t)))
BufOthers(t) == buf[t] \in Seq(MessageOf(Others(t)))

Inside == {"begin", "attempt", "top", "recv", "judge", "rework", "reconnect", "restart"}

\* Nothing of an earlier task that was interrupted is under way while a task runs, nor
\* between two tasks, unless the connection is marked for cleaning.
Clean == \A t \in Threads :
  /\ interrupted \subseteq 1..calls
  /\ pc[t] = "enter" => task[t].id \notin interrupted
  /\ pc[t] \in {"control", "answer"} => task[t].timeout = "ctl"
  /\ pc[t] \in Inside => NetOthers(t)
  /\ pc[t] \in Inside /\ task[t].id \in interrupted => needsCleanup
  /\ pc[t] \notin Inside /\ ~needsCleanup => NetQuiet
  /\ task[t].timeout # "ctl" => BufOthers(t)

LEMMA NoOthers ==
  ASSUME NEW t \in Threads
  PROVE  task[t].id \notin interrupted => (NetOthers(t) <=> NetQuiet)
<1>1. task[t].id \notin interrupted => Others(t) = Quiet
  BY DEF Others, Quiet
<1> QED
  BY <1>1 DEF NetOthers, NetQuiet

LEMMA NetKept ==
  ASSUME NEW t \in Threads, UNCHANGED <<requests, answers, interrupted>>, task'[t].id = task[t].id
  PROVE  (NetQuiet' <=> NetQuiet) /\ (NetOthers(t)' <=> NetOthers(t))
BY DEF NetQuiet, NetOthers, Quiet, Others

LEMMA BufKept ==
  ASSUME NEW t \in Threads, buf'[t] = buf[t] \/ buf'[t] = <<>>, UNCHANGED interrupted,
         task'[t].id = task[t].id, BufOthers(t)
  PROVE  BufOthers(t)'
<1>1. Others(t)' = Others(t) /\ <<>> \in Seq(MessageOf(Others(t)))
  BY EmptySeq DEF Others
<1> QED
  BY <1>1 DEF BufOthers, MessageOf

LEMMA NetClosed ==
  ASSUME NEW t \in Threads, Close
  PROVE  NetQuiet' /\ NetOthers(t)'
<1>1. requests' = <<>> /\ answers' = <<>>
  BY DEF Close
<1>2. /\ <<>> \in Seq(Quiet') /\ <<>> \in Seq(MessageOf(Quiet'))
      /\ <<>> \in Seq(Others(t)') /\ <<>> \in Seq(MessageOf(Others(t)'))
  BY EmptySeq
<1> QED
  BY <1>1, <1>2 DEF NetQuiet, NetOthers, MessageOf

LEMMA NetSent ==
  ASSUME NEW t \in Threads, NEW id, Send(id), UNCHANGED <<answers, interrupted>>, task'[t].id = task[t].id
  PROVE  /\ id \in Quiet /\ NetQuiet => NetQuiet'
         /\ id \in Others(t) /\ NetOthers(t) => NetOthers(t)'
<1>1. Quiet' = Quiet /\ Others(t)' = Others(t)
  BY DEF Quiet, Others
<1>2. ASSUME NEW S, id \in S, requests \in Seq(S) PROVE requests' \in Seq(S)
  BY <1>2, AppendProperties DEF Send
<1> QED
  BY <1>1, <1>2 DEF NetQuiet, NetOthers, MessageOf

LEMMA NetServed ==
  ASSUME TypeOK, NEW t \in Threads, Serve
  PROVE  (NetQuiet => NetQuiet') /\ (NetOthers(t) => NetOthers(t)')
<1>1. Quiet' = Quiet /\ Others(t)' = Others(t)
  BY DEF Quiet, Others, Serve, local, history
<1>2. ASSUME NEW S, requests \in Seq(S), answers \in Seq(MessageOf(S))
      PROVE  requests' \in Seq(S) /\ answers' \in Seq(MessageOf(S))
  <2>1. Head(requests) \in S /\ requests' \in Seq(S)
    BY <1>2, HeadTailProperties DEF Serve
  <2>2. ASSUME NEW kind \in Kinds
        PROVE  Append(answers, [of |-> Head(requests), kind |-> kind]) \in Seq(MessageOf(S))
    <3>1. [of |-> Head(requests), kind |-> kind] \in MessageOf(S)
      BY <2>1 DEF MessageOf
    <3> QED
      BY <1>2, <3>1, AppendProperties
  <2>3. (IF Head(requests) = 0 THEN {"ok"} ELSE Kinds \ {"ok"}) \subseteq Kinds
    BY DEF Kinds
  <2> QED
    BY <1>2, <2>1, <2>2, <2>3 DEF Serve
<1> QED
  BY <1>1, <1>2 DEF NetQuiet, NetOthers, MessageOf

LEMMA NetReceived ==
  ASSUME TypeOK, NEW t \in Threads, Receive(t), UNCHANGED <<requests, task, interrupted>>
  PROVE  /\ NetQuiet => NetQuiet'
         /\ NetOthers(t) => NetOthers(t)'
         /\ NetOthers(t) /\ BufOthers(t) => BufOthers(t)'
<1>1. Quiet' = Quiet /\ Others(t)' = Others(t)
  BY DEF Quiet, Others
<1>2. PICK n \in 1..Len(answers) :
        /\ buf' = [buf EXCEPT ![t] = @ \o SubSeq(answers, 1, n)]
        /\ answers' = SubSeq(answers, n + 1, Len(answers))
  BY DEF Receive
<1>3. buf'[t] = buf[t] \o SubSeq(answers, 1, n)
  BY <1>2 DEF TypeOK
<1>4. ASSUME NEW S, answers \in Seq(S)
      PROVE  answers' \in Seq(S) /\ (buf[t] \in Seq(S) => buf'[t] \in Seq(S))
  <2>1. SubSeq(answers, 1, n) \in Seq(S) /\ SubSeq(answers, n + 1, Len(answers)) \in Seq(S)
    BY <1>4, Parts
  <2> QED
    BY <1>2, <1>3, <2>1, ConcatProperties
<1> QED
  BY <1>1, <1>4 DEF NetQuiet, NetOthers, BufOthers, MessageOf

\* A step of the one thread that moves nothing on the connection.
LEMMA CleanKept ==
  ASSUME OneThread, Clean, NEW t \in Threads,
         UNCHANGED <<requests, answers, interrupted, needsCleanup, calls>>,
         task'[t].id = task[t].id, task'[t].timeout = task[t].timeout,
         buf'[t] = buf[t] \/ buf'[t] = <<>>,
         \/ pc[t] \in Inside /\ pc'[t] \in Inside \cup {"end"}
         \/ pc[t] = "answer" /\ pc'[t] = "end"
         \/ pc[t] = "end" /\ pc'[t] = "idle"
  PROVE  Clean'
<1>1. \A u \in Threads : u = t
  BY DEF OneThread
<1>2. (NetQuiet' <=> NetQuiet) /\ (NetOthers(t)' <=> NetOthers(t)) /\ (BufOthers(t) => BufOthers(t)')
  BY NetKept, BufKept
<1>3. task[t].id \notin interrupted => (NetOthers(t) <=> NetQuiet)
  BY NoOthers
<1> QED
  BY <1>1, <1>2, <1>3 DEF Clean, Inside

LEMMA CleanStep ==
  ASSUME Stopping, OneThread, Clean, Next
  PROVE  Clean'
<1>0. TypeOK /\ Own /\ Awaited
  BY DEF Stopping
<1>1. ASSUME NEW t \in Threads, NEW timeout \in Timeouts \cup {"ctl"}, Call(t, timeout) PROVE Clean'
  <2>1. \A u \in Threads : u = t
    BY DEF OneThread
  <2>2. /\ task'[t].id = calls + 1 /\ task'[t].timeout = timeout /\ calls' = calls + 1 /\ calls \in Nat
        /\ pc[t] = "idle" /\ pc'[t] = (IF timeout = "ctl" THEN "control" ELSE "enter") /\ buf'[t] = <<>>
        /\ UNCHANGED <<requests, answers, interrupted, needsCleanup>>
    BY <1>0, <1>1 DEF Call, Goto, TypeOK, NoTask, network, flags
  <2>3. interrupted' \subseteq 1..calls' /\ task'[t].id \notin interrupted'
    BY <2>2 DEF Clean
  <2>4. NetQuiet' <=> NetQuiet
    BY <2>2 DEF NetQuiet, Quiet
  <2>5. BufOthers(t)'
    BY <2>2, EmptySeq DEF BufOthers, MessageOf
  <2> QED
    BY <2>1, <2>2, <2>3, <2>4, <2>5 DEF Clean, Inside
<1>2. ASSUME NEW t \in Threads, TaskStep(t) PROVE Clean'
  <2>0. /\ \A u \in Threads : u = t
        /\ task[t].id \in 0..MaxCalls /\ task[t].id \in Nat /\ calls \in Nat /\ task[t].id <= calls
        /\ (pc[t] # "idle" => task[t].id \in 1..calls) /\ 0 \in 0..MaxCalls /\ 0 \notin interrupted
    <3>1. \A u \in Threads : u = t
      BY DEF OneThread
    <3>2. task[t].id \in 0..MaxCalls /\ calls \in 0..MaxCalls
      BY <1>0 DEF TypeOK, Task
    <3>3. task[t].id <= calls /\ interrupted \subseteq 1..calls
      BY <1>0 DEF Awaited, Clean
    <3>4. pc[t] # "idle" => task[t].id \in 1..MaxCalls
      BY <1>0 DEF Own, Ids
    <3>5. MaxCalls \in Nat
      BY ExAssumption
    <3> QED
      BY <3>1, <3>2, <3>3, <3>4, <3>5
  <2>1. CASE Begin(t) \/ Poll(t) \/ GiveUp(t) \/ End(t) \/ Answered(t)
    BY <1>0, <2>1, CleanKept DEF Begin, Poll, GiveUp, End, Answered, Goto, TypeOK, Inside, flags, network, history
  <2>2. CASE Judge(t)
    <3>1. task'[t].id = task[t].id /\ task'[t].timeout = task[t].timeout
      BY <1>0, <2>2 DEF Judge, TypeOK, Task
    <3> QED
      BY <1>0, <2>2, <3>1, CleanKept DEF Judge, Goto, TypeOK, Inside, network, history
  <2>3. CASE Enter(t)
    <3>1. /\ pc[t] = "enter" /\ pc'[t] \in {"idle", "begin"} /\ ~needsCleanup'
          /\ UNCHANGED <<task, buf, interrupted, calls>>
          /\ Close \/ (~needsCleanup /\ UNCHANGED <<requests, answers>>)
      BY <1>0, <2>3 DEF Enter, Goto, TypeOK, network, history
    <3>2. task[t].id \notin interrupted /\ (NetOthers(t) <=> NetQuiet) /\ (~needsCleanup => NetQuiet)
      BY <3>1, NoOthers DEF Clean, Inside
    <3>3. NetQuiet' /\ NetOthers(t)'
      BY <3>1, <3>2, NetClosed, NetKept
    <3>4. BufOthers(t) => BufOthers(t)'
      BY <3>1, BufKept
    <3> QED
      BY <2>0, <3>1, <3>2, <3>3, <3>4 DEF Clean, Inside
  <2>4. CASE Attempt(t)
    <3>1. CASE stopping \/ ~sock
      BY <1>0, <2>4, <3>1, CleanKept DEF Attempt, Goto, TypeOK, Inside, flags, history
    <3>2. CASE ~stopping /\ sock
      <4>1. /\ pc[t] = "attempt" /\ pc'[t] = "top" /\ Send(task[t].id) /\ buf'[t] = <<>>
            /\ UNCHANGED <<answers, task, interrupted, calls, needsCleanup>>
        BY <1>0, <2>4, <3>2 DEF Attempt, Goto, TypeOK, flags, history
      <4>2. task[t].id \in Others(t)
        BY <2>0 DEF Others
      <4>3. NetOthers(t)' /\ (BufOthers(t) => BufOthers(t)')
        BY <4>1, <4>2, NetSent, BufKept DEF Clean, Inside
      <4> QED
        BY <2>0, <4>1, <4>3 DEF Clean, Inside
    <3> QED
      BY <3>1, <3>2
  <2>5. CASE Top(t)
    <3>1. CASE ~stopping
      BY <1>0, <2>5, <3>1, CleanKept DEF Top, Goto, TypeOK, Inside, network
    <3>2. CASE stopping
      <4>1. /\ pc[t] = "top" /\ pc'[t] = "judge" /\ needsCleanup' /\ interrupted' = interrupted \cup {task[t].id}
            /\ UNCHANGED <<requests, answers, buf, task, calls>>
        BY <1>0, <2>5, <3>2 DEF Top, Goto, TypeOK, network
      <4>2. Others(t)' = Others(t)
        BY <4>1 DEF Others
      <4>3. (NetOthers(t)' <=> NetOthers(t)) /\ (BufOthers(t)' <=> BufOthers(t))
        BY <4>1, <4>2 DEF NetOthers, BufOthers, MessageOf
      <4> QED
        BY <2>0, <4>1, <4>3 DEF Clean, Inside
    <3> QED
      BY <3>1, <3>2
  <2>6. CASE Chunk(t) \/ ControlChunk(t)
    <3>1. /\ Receive(t) /\ UNCHANGED <<requests, task, interrupted, calls, needsCleanup>>
          /\ \/ pc[t] \in Inside /\ pc'[t] \in Inside
             \/ pc[t] = "answer" /\ pc'[t] = "answer"
      BY <1>0, <2>6 DEF Chunk, ControlChunk, Goto, TypeOK, Inside, flags, history
    <3>2. /\ NetQuiet => NetQuiet'
          /\ NetOthers(t) => NetOthers(t)'
          /\ NetOthers(t) /\ BufOthers(t) => BufOthers(t)'
      BY <1>0, <3>1, NetReceived
    <3> QED
      BY <2>0, <3>1, <3>2 DEF Clean, Inside
  <2>7. CASE Rework(t)
    <3>1. /\ pc[t] = "rework" /\ pc'[t] = "reconnect" /\ Close
          /\ UNCHANGED <<task, buf, interrupted, calls, needsCleanup>>
      BY <1>0, <2>7 DEF Rework, Goto, TypeOK, history
    <3>2. NetOthers(t)' /\ (BufOthers(t) => BufOthers(t)')
      BY <3>1, NetClosed, BufKept
    <3> QED
      BY <2>0, <3>1, <3>2 DEF Clean, Inside
  <2>8. CASE Reconnect(t) \/ Restarted(t)
    <3>1. CASE NextAttempt(t) /\ UNCHANGED requests
      <4>1. /\ pc'[t] \in {"end", "attempt"} /\ task'[t].id = task[t].id
            /\ task'[t].timeout = task[t].timeout
        <5>1. task[t].last \/ ~task[t].last
          OBVIOUS
        <5> QED
          BY <1>0, <3>1 DEF NextAttempt, Goto, TypeOK, Task
      <4> QED
        BY <1>0, <2>8, <3>1, <4>1, CleanKept DEF Reconnect, Restarted, TypeOK, Inside, flags, network, history
    <3>2. CASE Reconnect(t) /\ Send(0) /\ Goto(t, "restart") /\ UNCHANGED task
      <4>1. /\ pc[t] = "reconnect" /\ pc'[t] = "restart" /\ buf'[t] = <<>>
            /\ UNCHANGED <<answers, interrupted, calls, needsCleanup>>
        BY <1>0, <3>2 DEF Reconnect, Goto, TypeOK, flags, history
      <4>2. 0 \in Others(t)
        BY <2>0 DEF Others
      <4>3. NetOthers(t)' /\ (BufOthers(t) => BufOthers(t)')
        BY <3>2, <4>1, <4>2, NetSent, BufKept DEF Clean, Inside
      <4> QED
        BY <2>0, <3>2, <4>1, <4>3 DEF Clean, Inside
    <3> QED
      BY <2>8, <3>1, <3>2 DEF Reconnect, Restarted, network
  <2>9. CASE Control(t)
    <3>1. /\ Send(0) \/ UNCHANGED requests
          /\ UNCHANGED <<answers, task, buf, interrupted, calls, needsCleanup>>
      BY <1>0, <2>9 DEF Control, Goto, TypeOK, history
    <3>2. pc[t] = "control" /\ pc'[t] = "answer"
      BY <1>0, <2>9 DEF Control, Goto, TypeOK
    <3>3. 0 \in Quiet
      BY <2>0 DEF Quiet
    <3>4. (NetQuiet => NetQuiet') /\ (BufOthers(t) => BufOthers(t)')
      BY <3>1, <3>3, NetSent, NetKept, BufKept
    <3> QED
      BY <2>0, <3>1, <3>2, <3>4 DEF Clean, Inside
  <2>10. CASE HungUp(t)
    <3>1. /\ pc[t] = "recv" /\ pc'[t] = "judge" /\ requests' = <<>>
          /\ UNCHANGED <<answers, task, buf, interrupted, calls, needsCleanup>>
      BY <1>0, <2>10 DEF HungUp, Goto, TypeOK, flags, history
    <3>2. Others(t)' = Others(t) /\ NetOthers(t)
      BY <3>1 DEF Others, Clean, Inside
    <3>3. NetOthers(t)'
      BY <3>1, <3>2, EmptySeq DEF NetOthers, MessageOf
    <3>4. BufOthers(t) => BufOthers(t)'
      BY <3>1, BufKept
    <3> QED
      BY <2>0, <3>1, <3>3, <3>4 DEF Clean, Inside
  <2> QED
    BY <1>2, <2>1, <2>2, <2>3, <2>4, <2>5, <2>6, <2>7, <2>8, <2>9, <2>10 DEF TaskStep
<1>3. CASE (\E mode \in StopModes : Stop(mode)) \/ StopReturns \/ ResetReworkCount
  <2>1. UNCHANGED <<pc, task, buf, requests, answers, interrupted, calls>> /\ (needsCleanup => needsCleanup')
    BY <1>3 DEF Stop, StopReturns, ResetReworkCount, local, network, history
  <2>2. /\ NetQuiet' <=> NetQuiet
        /\ \A t \in Threads : (NetOthers(t)' <=> NetOthers(t)) /\ (BufOthers(t)' <=> BufOthers(t))
    BY <2>1 DEF NetQuiet, NetOthers, BufOthers, Quiet, Others
  <2> QED
    BY <2>1, <2>2 DEF Clean
<1>4. CASE Serve
  <2>1. UNCHANGED <<pc, task, buf, interrupted, calls, needsCleanup>>
    BY <1>4 DEF Serve, local, flags, history
  <2>2. \A t \in Threads : /\ NetQuiet => NetQuiet'
                           /\ NetOthers(t) => NetOthers(t)'
                           /\ BufOthers(t) => BufOthers(t)'
    BY <1>0, <1>4, <2>1, NetServed, BufKept
  <2> QED
    BY <2>1, <2>2 DEF Clean
<1> QED
  BY <1>1, <1>2, <1>3, <1>4 DEF Next

\* What the server still sends for a task that a stop interrupted is never taken for the
\* output of a later task, whatever was lost, cut short or is late.
THEOREM DroppedCorrect ==
  ASSUME OneThread
  PROVE  Spec => []InterruptedOutputDropped
<1>1. Init => Clean
  <2> SUFFICES ASSUME Init, NEW t \in Threads
      PROVE  /\ interrupted \subseteq 1..calls /\ pc[t] = "idle" /\ "idle" \notin Inside
             /\ NetQuiet /\ BufOthers(t)
    BY DEF Clean
  <2> QED
    BY EmptySeq DEF Init, Inside, NetQuiet, BufOthers
<1>2. Clean /\ UNCHANGED vars => Clean'
  <2> SUFFICES ASSUME Clean, UNCHANGED vars PROVE Clean'
    OBVIOUS
  <2>1. UNCHANGED <<pc, task, buf, requests, answers, interrupted, calls, needsCleanup>>
    BY DEF vars, flags, network, local, history
  <2>2. /\ NetQuiet' <=> NetQuiet
        /\ \A t \in Threads : (NetOthers(t)' <=> NetOthers(t)) /\ (BufOthers(t)' <=> BufOthers(t))
    BY <2>1 DEF NetQuiet, NetOthers, BufOthers, Quiet, Others
  <2> QED
    BY <2>1, <2>2 DEF Clean
<1>3. Stopping /\ Clean /\ [Next]_vars => Clean'
  BY <1>2, CleanStep
<1>4. TypeOK /\ Clean => InterruptedOutputDropped
  <2> SUFFICES ASSUME TypeOK, Clean, NEW t \in Threads, NEW n \in DOMAIN buf[t],
                      task[t].timeout # "ctl", buf[t][n].of \in interrupted
      PROVE  buf[t][n].of = task[t].id
    BY DEF InterruptedOutputDropped
  <2>1. buf[t] \in Seq(MessageOf(Others(t)))
    BY DEF Clean, BufOthers
  <2>2. DOMAIN buf[t] = 1..Len(buf[t])
    BY <2>1, LenProperties
  <2>3. buf[t][n] \in MessageOf(Others(t))
    BY <2>1, <2>2, ElementOfSeq
  <2> QED
    BY <2>3 DEF MessageOf, Others
<1>5. Stopping => TypeOK
  BY DEF Stopping
<1> QED
  BY <1>1, <1>3, <1>4, <1>5, StoppingInit, StoppingStep, PTL DEF Spec
=============================================================================
