------------------------------ MODULE Executor ------------------------------
(***************************************************************************)
(* executor.py: how activities send commands to RemoteTaskManager.         *)
(* startPM3Task runs on background threads, stopPM3Task on the thread of   *)
(* the key handler; they share one socket, four flags, the rework counter  *)
(* and the cache.  The server is the queue of requests of the current      *)
(* connection and of the answers it has sent; what a closed connection     *)
(* still does reaches nobody.                                              *)
(***************************************************************************)
EXTENDS Integers, Sequences

CONSTANTS
  Threads,     \* background threads that call startPM3Task
  Timeouts,    \* of the tasks: "finite", or "never" for the calls with -1
  StopModes,   \* "wait" and "nowait": the stopPM3Task calls that are made
  MaxReworks,  \* MAX_CONSECUTIVE_REWORKS
  ReworkMax,   \* rework_max of startPM3Task
  MaxCalls     \* bound on the number of tasks ever started

ASSUME ExAssumption ==
  /\ Timeouts \subseteq {"finite", "never"}
  /\ StopModes \subseteq {"wait", "nowait"}
  /\ MaxReworks \in Nat \ {0} /\ ReworkMax \in Nat /\ MaxCalls \in Nat

VARIABLES
  running,      \* LABEL_PM3_CMD_TASK_RUNNING
  stopping,     \* LABEL_PM3_CMD_TASK_STOPPING
  needsCleanup, \* _pipeline_needs_cleanup
  reworks,      \* _consecutive_reworks
  cache,        \* CONTENT_OUT_IN__TXT_CACHE
  sock,         \* _socket_instance is not None
  requests,     \* sent on this connection and not answered
  answers,      \* sent by the server on it and not received
  closed,       \* the server is known to have hung up on it
  pc,           \* control point of each thread
  task,         \* its call of startPM3Task
  buf,          \* what it has received for it
  mine,         \* the socket it waits on is still the current one
  ui,           \* control point of the key handler
  calls,        \* history: tasks started
  stopped,      \* history: tasks running at a stop, with its mode
  interrupted,  \* history: tasks whose receive loop saw the stop
  abandoned     \* history: tasks that got no answer in time

flags   == <<running, stopping, needsCleanup, reworks>>
network == <<sock, requests, answers, closed>>
local   == <<pc, task, buf, mine>>
history == <<calls, stopped, interrupted, abandoned>>
vars == <<flags, cache, network, local, ui, history>>

Ids == 1..MaxCalls
\* "reply" is output and the end marker, "bare" the marker alone; the others
\* have no marker: output cut short, Nikola.D.OFFLINE, the OK of a CTL.
Kinds   == {"reply", "bare", "cut", "offline", "ok"}
Message == [of : 0..MaxCalls, kind : Kinds]
Task    == [id : 0..MaxCalls, timeout : Timeouts \cup {"ctl"}, attempt : Nat,
            last : BOOLEAN, success : BOOLEAN]
NoTask  == [id |-> 0, timeout |-> "ctl", attempt |-> 0, last |-> FALSE, success |-> FALSE]

Init ==
  /\ running = FALSE /\ stopping = FALSE /\ needsCleanup = FALSE /\ reworks = 0
  /\ cache = <<>>
  /\ sock \in BOOLEAN                     \* connect2PM3 at boot may have failed
  /\ requests = <<>> /\ answers = <<>> /\ closed = FALSE
  /\ pc = [t \in Threads |-> "idle"]
  /\ task = [t \in Threads |-> NoTask]
  /\ buf = [t \in Threads |-> <<>>]
  /\ mine = [t \in Threads |-> FALSE]
  /\ ui = "idle"
  /\ calls = 0 /\ stopped = {} /\ interrupted = {} /\ abandoned = {}

-----------------------------------------------------------------------------
(* The server end of the connection answers in order, or not at all.       *)

Serve ==
  /\ requests # <<>> /\ ~closed
  /\ \/ \E kind \in IF Head(requests) = 0 THEN {"ok"} ELSE Kinds \ {"ok"} :
          answers' = Append(answers, [of |-> Head(requests), kind |-> kind])
     \/ UNCHANGED answers
  /\ requests' = Tail(requests)
  /\ UNCHANGED <<flags, cache, sock, closed, local, ui, history>>

-----------------------------------------------------------------------------
(* Sockets and buffers.                                                    *)

\* _RE_NIKOLA_END and _RE_PROMPT_END search the whole buffer.
Ends(b) == \E n \in DOMAIN b : b[n].kind \in {"reply", "bare"}

\* result and not isPM3Offline(result): the cleaned text is not empty and
\* nowhere says OFFLINE.
Good(b) == /\ \E n \in DOMAIN b : b[n].kind # "bare"
           /\ \A n \in DOMAIN b : b[n].kind # "offline"

Goto(t, label) == pc' = [pc EXCEPT ![t] = label]

\* close(): whoever waits on the old socket waits in vain.
Close == /\ requests' = <<>> /\ answers' = <<>> /\ closed' = FALSE
         /\ mine' = [t \in Threads |-> FALSE]

Connect == sock' \in BOOLEAN

Send(id) == requests' = Append(requests, id)

\* recv(1024) may return several answers at once.
Receive(t) == \E n \in 1..Len(answers) :
  /\ buf' = [buf EXCEPT ![t] = @ \o SubSeq(answers, 1, n)]
  /\ answers' = SubSeq(answers, n + 1, Len(answers))

-----------------------------------------------------------------------------
(* startPM3Task, on a background thread.                                   *)

Call(t, timeout) ==
  /\ pc[t] = "idle" /\ calls < MaxCalls
  /\ calls' = calls + 1
  /\ task' = [task EXCEPT ![t] = [NoTask EXCEPT !.id = calls + 1, !.timeout = timeout]]
  /\ buf' = [buf EXCEPT ![t] = <<>>]
  /\ Goto(t, IF timeout = "ctl" THEN "control" ELSE "enter")
  /\ UNCHANGED <<flags, cache, network, mine, ui, stopped, interrupted, abandoned>>

\* As Enter, but the flag is reset and the dirty connection kept.
Enter_NoCleanup(t) ==
  /\ pc[t] = "enter" /\ ~stopping
  /\ needsCleanup' = FALSE
  /\ IF reworks >= MaxReworks
     THEN Goto(t, "idle") /\ cache' = <<>>
     ELSE Goto(t, "begin") /\ UNCHANGED cache
  /\ UNCHANGED <<running, stopping, reworks, network, mine, task, buf, ui, history>>

\* As Enter, but the budget of reworks is not looked at.
Enter_Unlimited(t) ==
  /\ pc[t] = "enter" /\ ~stopping
  /\ needsCleanup' = FALSE
  /\ \/ needsCleanup /\ Close /\ Connect
     \/ ~needsCleanup /\ UNCHANGED <<network, mine>>
  /\ Goto(t, "begin")
  /\ UNCHANGED <<running, stopping, reworks, cache, task, buf, ui, history>>

\* _wait_if_stopping, _ensure_pipeline_ready, and the refusal when the
\* reworks are used up.
Enter(t) ==
  /\ pc[t] = "enter" /\ ~stopping
  /\ needsCleanup' = FALSE
  /\ \/ needsCleanup /\ Close /\ Connect
     \/ ~needsCleanup /\ UNCHANGED <<network, mine>>
  /\ IF reworks >= MaxReworks
     THEN Goto(t, "idle") /\ cache' = <<>>
     ELSE Goto(t, "begin") /\ UNCHANGED cache
  /\ UNCHANGED <<running, stopping, reworks, task, buf, ui, history>>

Begin(t) ==
  /\ pc[t] = "begin"
  /\ running' = TRUE
  /\ Goto(t, "attempt")
  /\ UNCHANGED <<stopping, needsCleanup, reworks, cache, network, task, buf, mine, ui, history>>

\* Top of the loop over the attempts: leave if stopped, else send.
Attempt(t) ==
  /\ pc[t] = "attempt"
  /\ buf' = [buf EXCEPT ![t] = <<>>]
  /\ \/ /\ stopping
        /\ Goto(t, "end")
        /\ UNCHANGED <<cache, requests>>
     \/ /\ ~stopping /\ ~sock
        /\ Goto(t, "judge")
        /\ cache' = <<>>
        /\ UNCHANGED requests
     \/ /\ ~stopping /\ sock
        /\ Goto(t, "top")
        /\ Send(task[t].id)
        /\ UNCHANGED cache
  /\ UNCHANGED <<flags, sock, answers, closed, task, mine, ui, history>>

\* Top of the receive loop.
Top(t) ==
  /\ pc[t] = "top"
  /\ \/ /\ stopping
        /\ needsCleanup' = TRUE
        /\ cache' = buf[t]
        /\ interrupted' = interrupted \cup {task[t].id}
        /\ Goto(t, "judge")
        /\ UNCHANGED <<buf, mine>>
     \/ /\ ~stopping /\ sock
        /\ mine' = [mine EXCEPT ![t] = TRUE]
        /\ Goto(t, "recv")
        /\ UNCHANGED <<needsCleanup, cache, interrupted, buf>>
     \/ /\ ~stopping /\ ~sock
        /\ cache' = <<>>
        /\ buf' = [buf EXCEPT ![t] = <<>>]
        /\ Goto(t, "judge")
        /\ UNCHANGED <<needsCleanup, interrupted, mine>>
  /\ UNCHANGED <<running, stopping, reworks, network, task, ui, calls, stopped, abandoned>>

Chunk(t) ==
  /\ pc[t] = "recv" /\ mine[t]
  /\ Receive(t)
  /\ IF Ends(buf'[t])
     THEN Goto(t, "judge") /\ cache' = buf'[t]
     ELSE Goto(t, "top") /\ UNCHANGED cache
  /\ UNCHANGED <<flags, sock, requests, closed, task, mine, ui, history>>

\* recv returns nothing, for the server has hung up, now or before: the loop
\* ends as at a marker, with what there is.
HungUp(t) ==
  /\ pc[t] = "recv" /\ mine[t] /\ answers = <<>>
  /\ closed' = TRUE /\ requests' = <<>>
  /\ cache' = buf[t]
  /\ Goto(t, "judge")
  /\ UNCHANGED <<flags, sock, answers, task, buf, mine, ui, history>>

\* As Poll, but recv without a timeout blocks.
Poll_Blocks(t) == pc[t] = "blocked" /\ UNCHANGED vars

\* Without a timeout, select gives the loop a turn every half second.
Poll(t) ==
  /\ pc[t] = "recv" /\ task[t].timeout = "never" /\ mine[t] /\ answers = <<>> /\ ~closed
  /\ Goto(t, "top")
  /\ UNCHANGED <<flags, cache, network, task, buf, mine, ui, history>>

\* As GiveUp, but a timeout only starts the receive loop again.
GiveUp_Retries(t) ==
  /\ pc[t] = "recv"
  /\ ~mine[t] \/ (answers = <<>> /\ (closed \/ task[t].timeout = "finite"))
  /\ abandoned' = abandoned \cup {task[t].id}
  /\ Goto(t, "top")
  /\ UNCHANGED <<flags, cache, network, buf, task, mine, ui, calls, stopped, interrupted>>

\* With one, or on a socket that either end has closed, recv raises and what was
\* received is dropped.
GiveUp(t) ==
  /\ pc[t] = "recv"
  /\ ~mine[t] \/ (answers = <<>> /\ (closed \/ task[t].timeout = "finite"))
  /\ cache' = <<>>
  /\ buf' = [buf EXCEPT ![t] = <<>>]
  /\ abandoned' = abandoned \cup {task[t].id}
  /\ Goto(t, "judge")
  /\ UNCHANGED <<flags, network, task, mine, ui, calls, stopped, interrupted>>

\* As Judge, but the stop is noticed only at the top of the attempts.
Judge_IgnoresStop(t) ==
  /\ pc[t] = "judge"
  /\ \/ /\ Good(buf[t])
        /\ reworks' = 0
        /\ task' = [task EXCEPT ![t].success = TRUE]
        /\ Goto(t, "end")
     \/ /\ ~Good(buf[t])
        /\ Goto(t, IF task[t].attempt < ReworkMax THEN "rework" ELSE "end")
        /\ task' = [task EXCEPT ![t].last = (reworks + 1 >= MaxReworks)]
        /\ UNCHANGED reworks
  /\ UNCHANGED <<running, stopping, needsCleanup, cache, network, buf, mine, ui, history>>

\* After an attempt: stopped, answered, out of attempts, or a rework.
Judge(t) ==
  /\ pc[t] = "judge"
  /\ \/ /\ stopping
        /\ Goto(t, "end")
        /\ UNCHANGED <<reworks, task>>
     \/ /\ ~stopping /\ Good(buf[t])
        /\ reworks' = 0
        /\ task' = [task EXCEPT ![t].success = TRUE]
        /\ Goto(t, "end")
     \/ /\ ~stopping /\ ~Good(buf[t]) /\ task[t].attempt = ReworkMax
        /\ Goto(t, "end")
        /\ UNCHANGED <<reworks, task>>
     \/ /\ ~stopping /\ ~Good(buf[t]) /\ task[t].attempt < ReworkMax
        /\ task' = [task EXCEPT ![t].last = (reworks + 1 >= MaxReworks)]
        /\ Goto(t, "rework")
        /\ UNCHANGED reworks
  /\ UNCHANGED <<running, stopping, needsCleanup, cache, network, buf, mine, ui, history>>

\* The loop body ends: break after the last rework allowed, else go on.
NextAttempt(t) ==
  IF task[t].last
  THEN Goto(t, "end") /\ UNCHANGED task
  ELSE Goto(t, "attempt") /\ task' = [task EXCEPT ![t].attempt = @ + 1]

\* As Rework, but a task that restarts the board no longer counts as running.
Rework_NotRunning(t) ==
  /\ pc[t] = "rework"
  /\ reworks' = reworks + 1
  /\ running' = FALSE
  /\ cache' = <<>>
  /\ sock' = FALSE /\ Close
  /\ Goto(t, "reconnect")
  /\ UNCHANGED <<stopping, needsCleanup, task, buf, ui, history>>

\* reworkPM3All up to its sleep: count, clear, restart the board, close.
Rework(t) ==
  /\ pc[t] = "rework"
  /\ reworks' = reworks + 1
  /\ cache' = <<>>
  /\ sock' = FALSE /\ Close
  /\ Goto(t, "reconnect")
  /\ UNCHANGED <<running, stopping, needsCleanup, task, buf, ui, history>>

\* Its second half: connect and send the restart.
Reconnect(t) ==
  /\ pc[t] = "reconnect"
  /\ Connect
  /\ UNCHANGED <<answers, closed>>
  /\ buf' = [buf EXCEPT ![t] = <<>>]
  /\ \/ /\ sock'
        /\ Send(0)
        /\ mine' = [mine EXCEPT ![t] = TRUE]
        /\ Goto(t, "restart")
        /\ UNCHANGED <<cache, task>>
     \/ /\ ~sock'
        /\ cache' = <<>>
        /\ NextAttempt(t)
        /\ UNCHANGED <<requests, mine>>
  /\ UNCHANGED <<flags, ui, history>>

\* The control channel stops at a marker or when nothing comes any more; an
\* answer that is late stays on the connection.
ControlChunk(t) ==
  /\ pc[t] \in {"restart", "answer"} /\ mine[t]
  /\ Receive(t)
  /\ UNCHANGED <<flags, cache, sock, requests, closed, pc, task, mine, ui, history>>

ControlEnds(t) == Ends(buf[t]) \/ answers = <<>> \/ ~mine[t]

Restarted(t) ==
  /\ pc[t] = "restart" /\ ControlEnds(t)
  /\ cache' = buf[t]
  /\ NextAttempt(t)
  /\ UNCHANGED <<flags, network, buf, mine, ui, history>>

End(t) ==
  /\ pc[t] = "end"
  /\ running' = FALSE
  /\ Goto(t, "idle")
  /\ UNCHANGED <<stopping, needsCleanup, reworks, cache, network, task, buf, mine, ui, history>>

-----------------------------------------------------------------------------
(* startPM3Ctrl, which neither waits for a stop nor retries.               *)

Control(t) ==
  /\ pc[t] = "control"
  /\ running' = TRUE
  /\ mine' = [mine EXCEPT ![t] = sock]
  /\ IF sock THEN Send(0) ELSE UNCHANGED requests
  /\ Goto(t, "answer")
  /\ UNCHANGED <<stopping, needsCleanup, reworks, cache, sock, answers, closed, task, buf, ui,
                 history>>

Answered(t) ==
  /\ pc[t] = "answer" /\ ControlEnds(t)
  /\ cache' = buf[t]
  /\ Goto(t, "end")
  /\ UNCHANGED <<flags, network, task, buf, mine, ui, history>>

-----------------------------------------------------------------------------
(* The key handler: stopPM3Task and resetReworkCount.                      *)

Running(t) == pc[t] \notin {"idle", "enter", "begin", "control", "answer", "end"}

Stop(mode) ==
  /\ ui = "idle"
  /\ stopping' = TRUE
  /\ ui' = mode
  /\ stopped' = stopped \cup {<<task[t].id, mode>> : t \in {u \in Threads : Running(u)}}
  /\ UNCHANGED <<running, needsCleanup, reworks, cache, network, local, calls,
                 interrupted, abandoned>>

\* With wait, STOPPING stays set until no task runs.
StopReturns ==
  /\ \/ ui = "nowait"
     \/ ui = "wait" /\ ~running
  /\ stopping' = FALSE
  /\ ui' = "idle"
  /\ UNCHANGED <<running, needsCleanup, reworks, cache, network, local, history>>

ResetReworkCount ==
  /\ ui = "idle"
  /\ reworks' = 0 /\ needsCleanup' = TRUE
  /\ UNCHANGED <<running, stopping, cache, network, local, ui, history>>

-----------------------------------------------------------------------------

TaskStep(t) == \/ Enter(t) \/ Begin(t) \/ Attempt(t) \/ Top(t) \/ Chunk(t) \/ HungUp(t) \/ Poll(t)
               \/ GiveUp(t) \/ Judge(t) \/ Rework(t) \/ Reconnect(t)
               \/ ControlChunk(t) \/ Restarted(t) \/ End(t)
               \/ Control(t) \/ Answered(t)

Next == \/ \E t \in Threads, timeout \in Timeouts \cup {"ctl"} : Call(t, timeout)
        \/ \E t \in Threads : TaskStep(t)
        \/ \E mode \in StopModes : Stop(mode)
        \/ StopReturns \/ ResetReworkCount \/ Serve

Spec == Init /\ [][Next]_vars

\* Threads run and stopPM3Task goes on; the server may stay silent, and need not hang up.
Unprompted(t) == TaskStep(t) /\ (closed' => closed)
FairSpec == Spec /\ WF_vars(StopReturns) /\ \A t \in Threads : WF_vars(Unprompted(t))

-----------------------------------------------------------------------------
(* Properties.                                                             *)

Labels == {"idle", "enter", "begin", "attempt", "top", "recv", "judge", "rework",
           "reconnect", "restart", "end", "control", "answer"}

\* The variables hold what the code can put in them.
TypeOK ==
  /\ running \in BOOLEAN /\ stopping \in BOOLEAN /\ needsCleanup \in BOOLEAN
  /\ reworks \in Nat
  /\ cache \in Seq(Message)
  /\ sock \in BOOLEAN /\ closed \in BOOLEAN
  /\ requests \in Seq(0..MaxCalls) /\ answers \in Seq(Message)
  /\ pc \in [Threads -> Labels]
  /\ task \in [Threads -> Task]
  /\ buf \in [Threads -> Seq(Message)]
  /\ mine \in [Threads -> BOOLEAN]
  /\ ui \in {"idle", "wait", "nowait"}
  /\ calls \in 0..MaxCalls
  /\ stopped \subseteq Ids \X {"wait", "nowait"}
  /\ interrupted \subseteq Ids /\ abandoned \subseteq Ids

\* What was still to come from a command interrupted by a stop is never taken
\* for the output of a later one: _ensure_pipeline_ready closes the dirty
\* connection first.
InterruptedOutputDropped == \A t \in Threads : \A n \in DOMAIN buf[t] :
  /\ task[t].timeout # "ctl"
  /\ buf[t][n].of \in interrupted
  => buf[t][n].of = task[t].id

\* However the tasks follow each other, the board is restarted at most
\* MAX_CONSECUTIVE_REWORKS times without a good answer or a reset between.
ReworksCapped == reworks <= MaxReworks

Restarts(t) == pc[t] # "rework" /\ pc'[t] = "rework"
Begins(t)   == pc[t] = "attempt" /\ pc'[t] \in {"top", "judge"}

\* stopPM3Task(wait=True) ends the attempts of the task it finds running, wherever
\* it finds it: none is begun after it, and no restart of the board decided on
\* ("this is NOT a PM3 failure - do NOT rework").  A restart that was decided on
\* before is carried out, and the stop waits for it.
StopEndsAttempts == [][\A t \in Threads :
  Restarts(t) \/ Begins(t) => <<task[t].id, "wait">> \notin stopped]_vars

\* When stopPM3Task(wait=True) returns, what it stopped has left its loop: the
\* next activity finds the port free.
StopIsComplete == [][ui = "wait" /\ ui' = "idle" =>
  \A t \in Threads : Running(t) => <<task[t].id, "wait">> \notin stopped]_vars

\* stopPM3Task(wait=True) returns even if the server never answers.
StopReturnsEventually == (ui = "wait") ~> (ui = "idle")

\* A task with a timeout ends whatever the server does or does not answer.
TimedTaskEnds == \A t \in Threads :
  (pc[t] = "top" /\ task[t].timeout = "finite") ~> (pc[t] = "idle")

-----------------------------------------------------------------------------
(* What the source says and the code does not do.                          *)

\* A stop that does not wait is not followed by a restart of the board either.
NoReworkAfterNoWait == [][\A t \in Threads :
  Restarts(t) => <<task[t].id, "nowait">> \notin stopped]_vars

\* A task reported as completed has read the answer of its own command, so
\* that getPrintContent returns "the cached output from the last command".
OwnOutput == \A t \in Threads :
  pc[t] = "end" /\ task[t].success =>
    \A n \in DOMAIN buf[t] : buf[t][n].of \in {0, task[t].id}
=============================================================================
