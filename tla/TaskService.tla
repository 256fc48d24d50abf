---------------------------- MODULE TaskService ----------------------------
(***************************************************************************)
(* What executor.py promises to the activities, whatever happens to the    *)
(* connection, the server and the board: a thread calls startPM3Task and   *)
(* gets 1 or -1; the key handler calls stopPM3Task and, when it waits,     *)
(* returns once nothing counts as running.  Executor implements this       *)
(* (ExecutorService); Scan and Simulation are built on it.                 *)
(***************************************************************************)
CONSTANT Threads

VARIABLES
  running,   \* LABEL_PM3_CMD_TASK_RUNNING: one flag for all tasks
  stopping,  \* LABEL_PM3_CMD_TASK_STOPPING
  task,      \* the call of each thread
  stopper    \* the call of stopPM3Task

serviceVars == <<running, stopping, task, stopper>>

\* "done" and "failed" are tasks whose result is settled and not yet returned.
TaskStates == {"idle", "called", "ready", "running", "done", "failed"}

ServiceInit ==
  /\ running = FALSE /\ stopping = FALSE
  /\ task = [t \in Threads |-> "idle"]
  /\ stopper = "idle"

Becomes(t, state) == task' = [task EXCEPT ![t] = state]

\* startPM3Task.
Call(t) ==
  /\ task[t] = "idle" /\ Becomes(t, "called")
  /\ UNCHANGED <<running, stopping, stopper>>

\* startPM3Ctrl does not wait for a stop in progress.
CallControl(t) ==
  /\ task[t] = "idle" /\ Becomes(t, "ready")
  /\ UNCHANGED <<running, stopping, stopper>>

\* A call waits while a stop is in progress ...
Enter(t) ==
  /\ task[t] = "called" /\ ~stopping
  /\ Becomes(t, "ready")
  /\ UNCHANGED <<running, stopping, stopper>>

\* ... and is refused when the reworks are used up.
Refuse(t) ==
  /\ task[t] = "called" /\ ~stopping
  /\ Becomes(t, "idle")
  /\ UNCHANGED <<running, stopping, stopper>>

Begin(t) ==
  /\ task[t] = "ready"
  /\ running' = TRUE /\ Becomes(t, "running")
  /\ UNCHANGED <<stopping, stopper>>

\* Settled while a stop is in progress, the result is -1.
Succeed(t) ==
  /\ task[t] = "running" /\ ~stopping
  /\ Becomes(t, "done")
  /\ UNCHANGED <<running, stopping, stopper>>

\* It fails when nothing good comes in time, or on a stop.
Fail(t) ==
  /\ task[t] = "running"
  /\ Becomes(t, "failed")
  /\ UNCHANGED <<running, stopping, stopper>>

\* The first task that ends clears the flag of all.
Return(t) ==
  /\ task[t] \in {"done", "failed"}
  /\ running' = FALSE /\ Becomes(t, "idle")
  /\ UNCHANGED <<stopping, stopper>>

\* stopPM3Task, with and without wait.
Stop(mode) ==
  /\ stopper = "idle"
  /\ stopping' = TRUE /\ stopper' = mode
  /\ UNCHANGED <<running, task>>

StopReturns ==
  /\ stopper = "nowait" \/ (stopper = "wait" /\ ~running)
  /\ stopping' = FALSE /\ stopper' = "idle"
  /\ UNCHANGED <<running, task>>

ServiceNext ==
  \/ \E t \in Threads : \/ Call(t) \/ CallControl(t) \/ Enter(t) \/ Refuse(t) \/ Begin(t)
                        \/ Succeed(t) \/ Fail(t) \/ Return(t)
  \/ \E mode \in {"wait", "nowait"} : Stop(mode)
  \/ StopReturns

ServiceSpec == ServiceInit /\ [][ServiceNext]_serviceVars
=============================================================================
