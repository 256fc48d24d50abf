-------------------------- MODULE ExecutorService --------------------------
(* Executor implements TaskService: the mapping of its control points.     *)
EXTENDS Executor, TLC

\* The threads are interchangeable: sound here, the property is one of safety.
Symmetric == Permutations(Threads)

\* What the tasks did at a stop is history: no guard and no part of the mapping
\* reads it, so two states that differ in it alone count as one.
Present == <<flags, cache, network, local, ui, calls>>

\* A thread that restarts the board or reads a socket is running; at "end" its
\* result is settled.
Phase(t) ==
  IF pc[t] = "idle" THEN "idle"
  ELSE IF pc[t] = "enter" THEN "called"
  ELSE IF pc[t] \in {"begin", "control"} THEN "ready"
  ELSE IF pc[t] # "end" THEN "running"
  ELSE IF task[t].success THEN "done" ELSE "failed"

Service == INSTANCE TaskService WITH
  task <- [t \in Threads |-> Phase(t)], stopper <- ui

\* Every step of startPM3Task, startPM3Ctrl and stopPM3Task is a step of the
\* abstract calls or invisible to the activities.
ImplementsService == Service!ServiceSpec
=============================================================================
