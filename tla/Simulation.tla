----------------------------- MODULE Simulation -----------------------------
(***************************************************************************)
(* SimulationActivity and SimulationTraceActivity (lib/activity_main.py).  *)
(* A simulation is a command on a thread of its own, which ends when it is *)
(* stopped, and by itself for LF tags or when it fails; both the key that  *)
(* stops it and the thread that ran it then restore the screen or, for an  *)
(* HF tag, push the activity that shows the trace and start a thread that  *)
(* fetches it.                                                             *)
(***************************************************************************)
EXTENDS Naturals, Sequences, SequencesExt, FiniteSetsExt

CONSTANT MaxSims   \* bound on the simulations started

ASSUME SimAssumption == MaxSims \in Nat \ {0}

\* Every simulation pushes at most one trace by its thread and one by its Stop.
Sims    == 1..MaxSims
Fetches == MaxSims + 1 .. 3 * MaxSims
Threads == Sims \cup Fetches

VARIABLES
  running, stopping, task, stopper,   \* see TaskService
  state,        \* SimulationActivity._state
  hf,           \* the entry selected is for an HF tag
  simStopping,  \* _sim_stopping
  busy,         \* _is_busy
  toast,        \* what the toast says, "none" if it is not shown
  traces,       \* the SimulationTraceActivities on top: does it show a trace?
  pc,           \* control point of each thread
  endless,      \* simulations of HF tags: they end only when stopped
  sims,         \* simulations started
  posted        \* number of _update calls posted to the Tk event loop

service  == <<running, stopping, task, stopper>>
screen   == <<state, hf, simStopping, busy, toast>>
simVars == <<service, screen, traces, pc, endless, sims, posted>>

T == INSTANCE TaskService

SimInit ==
  /\ T!ServiceInit
  /\ state = "list" /\ hf \in BOOLEAN
  /\ simStopping = FALSE /\ busy = FALSE /\ toast = "none"
  /\ traces = <<>>
  /\ pc = [t \in Threads |-> "unborn"]
  /\ endless = {} /\ sims = 0 /\ posted = 0

Goto(t, label) == pc' = [pc EXCEPT ![t] = label]

\* _on14ASimStop: a trace in loading state, and the thread that fetches it;
\* the activity below is paused, which dismisses its toast.
PushTrace(label) ==
  /\ traces' = Append(traces, FALSE)
  /\ pc' = [label EXCEPT ![Min({f \in Fetches : pc[f] = "unborn"})] = "call"]
  /\ toast' = "none"

-----------------------------------------------------------------------------
(* Keys, on the Tk thread; stopPM3Task blocks it.                          *)

TkFree   == stopper = "idle"
SimOnTop == TkFree /\ traces = <<>>

Select ==
  /\ SimOnTop /\ state = "list"
  /\ hf' \in BOOLEAN
  /\ state' = "sim_ui"
  /\ UNCHANGED <<service, simStopping, busy, toast, traces, pc, endless, sims, posted>>

\* M2: _startSim.
StartSim ==
  /\ SimOnTop /\ state = "sim_ui" /\ sims < MaxSims
  /\ state' = "simulating" /\ simStopping' = FALSE /\ busy' = TRUE
  /\ toast' = "simulating"
  /\ sims' = sims + 1
  /\ endless' = IF hf THEN endless \cup {sims + 1} ELSE endless
  /\ Goto(sims + 1, "call")
  /\ UNCHANGED <<service, hf, traces, posted>>

\* _stopSim up to stopPM3Task, for M1 and for a PWR that comes this far.
StopSim ==
  /\ SimOnTop /\ state = "simulating"
  /\ simStopping' = TRUE /\ busy' = FALSE /\ toast' = "processing"
  /\ T!Stop("wait")
  /\ UNCHANGED <<state, hf, traces, pc, endless, sims, posted>>

\* The rest of _stopSim.
StopSimReturns ==
  /\ T!StopReturns
  /\ state' = "sim_ui" /\ simStopping' = FALSE
  /\ \/ hf /\ PushTrace(pc)
     \/ ~hf /\ toast' = "none" /\ UNCHANGED <<traces, pc>>
  /\ UNCHANGED <<hf, busy, endless, sims, posted>>

\* PWR: _handlePWR dismisses the toast or, while busy, swallows the key;
\* otherwise it stops (StopSim), or goes back to the list.
Pwr ==
  /\ SimOnTop
  /\ \/ toast # "none" /\ toast' = "none" /\ UNCHANGED state
     \/ toast = "none" /\ ~busy /\ state = "sim_ui" /\ state' = "list" /\ UNCHANGED toast
  /\ UNCHANGED <<service, hf, simStopping, busy, traces, pc, endless, sims, posted>>

\* The trace is left, loaded or not.
CloseTrace ==
  /\ TkFree /\ traces # <<>>
  /\ traces' = Front(traces)
  /\ UNCHANGED <<service, screen, pc, endless, sims, posted>>

\* _update: whichever SimulationTraceActivity is on top gets the trace.
Update ==
  /\ TkFree /\ posted > 0
  /\ posted' = posted - 1
  /\ traces' = IF traces = <<>> THEN traces ELSE Append(Front(traces), TRUE)
  /\ UNCHANGED <<service, screen, pc, endless, sims>>

-----------------------------------------------------------------------------
(* The threads of the simulations and of the fetches.                      *)

Command(t) ==
  /\ pc[t] = "call"
  /\ T!Call(t)
  /\ Goto(t, "task")
  /\ UNCHANGED <<screen, traces, endless, sims, posted>>

TaskGoesOn(t) ==
  /\ T!Enter(t) \/ T!Begin(t) \/ T!Succeed(t) \/ T!Fail(t)
  /\ UNCHANGED <<screen, traces, pc, endless, sims, posted>>

\* As TaskReturns, but a fetch that fails does not come back to the screen.
TaskReturns_FailureEnds(t) ==
  /\ pc[t] = "task"
  /\ \/ task[t] = "done" /\ T!Return(t) /\ Goto(t, "back")
     \/ task[t] = "failed" /\ T!Return(t) /\ Goto(t, IF t \in Sims THEN "back" ELSE "ended")
     \/ T!Refuse(t) /\ Goto(t, "back")
  /\ UNCHANGED <<screen, traces, endless, sims, posted>>

TaskReturns(t) ==
  /\ pc[t] = "task"
  /\ T!Return(t) \/ T!Refuse(t)
  /\ Goto(t, "back")
  /\ UNCHANGED <<screen, traces, endless, sims, posted>>

\* As SimBack, but only the key sets the activity idle.
SimBack_LeavesBusy(s) ==
  /\ pc[s] = "back" /\ s \in Sims
  /\ Goto(s, "back2")
  /\ UNCHANGED <<service, screen, traces, endless, sims, posted>>

\* _onSim: setidle first ...
SimBack(s) ==
  /\ pc[s] = "back" /\ s \in Sims
  /\ busy' = FALSE
  /\ Goto(s, "back2")
  /\ UNCHANGED <<service, state, hf, simStopping, toast, traces, endless, sims, posted>>

\* As SimEnds, but the screen of an LF tag is left to the key, too.
SimEnds_TraceOnly(s) ==
  /\ pc[s] = "back2"
  /\ \/ ~simStopping /\ hf /\ PushTrace([pc EXCEPT ![s] = "ended"])
     \/ (simStopping \/ ~hf) /\ Goto(s, "ended") /\ UNCHANGED <<traces, toast>>
  /\ endless' = endless \ {s}
  /\ UNCHANGED <<service, state, hf, simStopping, busy, sims, posted>>

\* ... then, unless _stopSim is at work, the trace or the fields of the tag;
\* the state of an HF simulation is left as it was.
SimEnds(s) ==
  /\ pc[s] = "back2"
  /\ \/ /\ simStopping
        /\ Goto(s, "ended")
        /\ UNCHANGED <<state, traces, toast>>
     \/ /\ ~simStopping /\ hf
        /\ PushTrace([pc EXCEPT ![s] = "ended"])
        /\ UNCHANGED state
     \/ /\ ~simStopping /\ ~hf
        /\ state' = "sim_ui"
        /\ Goto(s, "ended")
        /\ UNCHANGED <<traces, toast>>
  /\ endless' = endless \ {s}
  /\ UNCHANGED <<service, hf, simStopping, busy, sims, posted>>

FetchEnds(f) ==
  /\ pc[f] = "back" /\ f \in Fetches
  /\ posted' = posted + 1
  /\ Goto(f, "unborn")
  /\ UNCHANGED <<service, screen, traces, endless, sims>>

ThreadStep(t) == \/ Command(t) \/ TaskGoesOn(t) \/ TaskReturns(t)
                 \/ SimBack(t) \/ SimEnds(t) \/ FetchEnds(t)

SimNext == \/ Select \/ StartSim \/ StopSim \/ StopSimReturns \/ Pwr \/ CloseTrace \/ Update
           \/ \E t \in Threads : ThreadStep(t)

SimSpec == SimInit /\ [][SimNext]_simVars

\* A command that runs ends by itself, but for the simulations of HF tags.
FairStep(t) == ThreadStep(t) /\ (t \in endless /\ task[t] = "running" => stopping)

\* Threads run, stopPM3Task returns, and the Tk loop runs what is posted: each
\* does finitely much, so that it is enough to be fair to all of them together.
FairSimSpec == SimSpec /\ WF_simVars((\E t \in Threads : FairStep(t)) \/ StopSimReturns \/ Update)

-----------------------------------------------------------------------------
(* Properties.                                                             *)

SimTypeOK ==
  /\ running \in BOOLEAN /\ stopping \in BOOLEAN
  /\ task \in [Threads -> T!TaskStates] /\ stopper \in {"idle", "wait"}
  /\ state \in {"list", "sim_ui", "simulating"}
  /\ hf \in BOOLEAN /\ simStopping \in BOOLEAN /\ busy \in BOOLEAN
  /\ toast \in {"none", "simulating", "processing"}
  /\ traces \in Seq(BOOLEAN)
  /\ pc \in [Threads -> {"unborn", "call", "task", "back", "back2", "ended"}]
  /\ endless \subseteq Sims /\ sims \in 0..MaxSims /\ posted \in Nat

\* The activity is busy only for a thread that has yet to set it idle: whoever
\* runs or stops what, PWR does not stay swallowed for ever.
BusyHasTask == busy => \E s \in Sims : pc[s] \in {"call", "task", "back"}

\* The simulation of an LF tag gives the fields back when its command ends.
LFComesBack == state = "simulating" /\ ~hf ~> state = "sim_ui"

Loading == \E n \in DOMAIN traces : ~traces[n]

\* As long as traces do not pile up, one that says "Trace Loading..." shows a
\* trace in the end, or is left.
LoadingEnds == [](Len(traces) <= 1) => (Loading ~> ~Loading)

-----------------------------------------------------------------------------
(* What the source says and the code does not do.                          *)

\* "Only ONE SimulationTraceActivity push per stop".
OneTracePerStop == Len(traces) <= 1

\* "If TraceActivity is later popped, SimulationActivity resumes in SIM_UI
\* state - not SIMULATING".
ResumesInSimUi ==
  [][traces # <<>> /\ traces' = <<>> => state' # "simulating"]_simVars

\* "HF runs until stopPM3Task()": no command simulates a tag once _stopSim has
\* put the fields back.
StopEndsSim == \A s \in Sims : task[s] = "running" => state = "simulating"

\* "M1 stops simulation.  PWR also stops": once the toast is dismissed, PWR is
\* not swallowed while a simulation runs.
PwrReachesStop == state = "simulating" /\ toast = "none" => ~busy

\* The toast "persists during the entire simulation", and is not left "over
\* the sim fields".
ToastOnlyWhileSimulating == toast = "simulating" => state = "simulating"
=============================================================================
