----------------------------- MODULE Navigation -----------------------------
(***************************************************************************)
(* The activity stack (lib/actstack.py, lib/actbase.py) and the keys that  *)
(* drive it (lib/keymap.py).  The serial thread captures the activity a    *)
(* key is for and posts the call to the Tk event loop; the Tk thread runs  *)
(* the posted calls in order, each to its end, lifecycle callbacks         *)
(* included.  Background tasks set an activity busy and idle from their    *)
(* own threads, post calls that open or finish activities, and one of them *)
(* (the simulation's) opens an activity itself.                            *)
(***************************************************************************)
EXTENDS Naturals, Sequences, SequencesExt

CONSTANTS
  MaxActs,   \* bound on the activities ever created
  MaxKeys,   \* keys captured or posted and not yet run
  Kinds      \* the activities that can be started, see Behaviours

\* What onKeyEvent does: a page opens others and minds toast and busy state; a
\* scan leaves on PWR whatever is going on; a dialog finishes with a result
\* its parent acts on; a host is a PluginActivity for a plugin that brings
\* its own activity; PC mode (pc) is left by a thread that stops it and then
\* posts finish.
Behaviours == {"page", "scan", "dialog", "host", "pc"}

ASSUME NavAssumption ==
  MaxActs \in Nat \ {0} /\ MaxKeys \in Nat /\ Kinds \subseteq Behaviours

Acts   == 1..MaxActs
Main   == 1
Keys   == {"OK", "PWR"}
Posted == {"finish", "start", "wizard"}   \* what threads post
Phases == {"open", "stopping", "stopped"}

VARIABLES
  ui,       \* the stack, and what the lifecycle callbacks maintain (see UI)
  born,     \* activities created so far
  kind,     \* their behaviour; MainActivity is a page that ignores PWR
  busy,     \* _is_busy of each
  target,   \* KeyEvent._target
  serial,   \* onKey between the lock and root.after
  events,   \* calls posted to the Tk event loop
  phase,    \* PC mode: open, its thread is stopping it, finish is posted
  checking, \* the version check of the boot is under way
  starter,  \* the activity a thread is in the middle of starting, or 0
  mixed,    \* history: the Tk thread opened or finished one meanwhile
  asked     \* history: activities that called self.finish()

threads == <<phase, checking, starter>>
vars == <<ui, born, kind, busy, target, serial, events, phase, checking, starter, mixed, asked>>

UI == [stack      : Seq(Acts),         \* _ACTIVITY_STACK
       visible    : SUBSET Acts,       \* canvases that are gridded
       resumed    : SUBSET Acts,       \* BaseActivity.resumed
       bars       : SUBSET Acts,       \* batteryui.__BATTERY_BAR
       toasts     : SUBSET Acts,       \* toasts shown
       registered : SUBSET Acts,       \* _REGISTERED
       destroyed  : SUBSET Acts]       \* life.destroyed

Call == [to : Acts, key : Keys \cup Posted]

-----------------------------------------------------------------------------
(* Lifecycle callbacks.                                                    *)

Onto(s, a) == [s EXCEPT !.stack = Append(@, a)]

Resume(s, a) == [s EXCEPT !.resumed = @ \cup {a}, !.bars = @ \cup {a}]

Show(s, a) == [s EXCEPT !.visible = @ \cup {a}]

\* As Pause, but the toast and the battery bar survive.
Pause_KeepsBar(s, a) == [s EXCEPT !.resumed = @ \ {a}]

\* onPause hides the bar and cancels the toast.
Pause(s, a) == [s EXCEPT !.resumed = @ \ {a}, !.bars = @ \ {a}, !.toasts = @ \ {a}]

Hide(s, a) == [s EXCEPT !.visible = @ \ {a}]

\* start_activity up to new_act.start: __init__ registers, the previous top is
\* paused and hidden, the new canvas is shown.
Enter(s, a) ==
  LET r == [s EXCEPT !.registered = @ \cup {a}]
      p == IF r.stack = <<>> THEN r ELSE Hide(Pause(r, Last(r.stack)), Last(r.stack))
  IN Show(Onto(p, a), a)

\* start_activity of an activity whose onCreate starts nothing.
Started(s, a) == Resume(Enter(s, a), a)

\* finish_activity: whoever is on top is popped, paused and destroyed, the one
\* below is resumed and shown.
Finished(s) ==
  IF s.stack = <<>> THEN s
  ELSE LET a == Last(s.stack)
           r == Hide(Pause(s, a), a)
           p == [r EXCEPT !.stack = Front(@), !.destroyed = @ \cup {a},
                          !.registered = @ \ {a}]
       IN IF p.stack = <<>> THEN p
          ELSE Show(Resume(p, Last(p.stack)), Last(p.stack))

\* PluginActivity.onCreate starts the plugin's activity and calls
\* self.finish(); then the start of the host goes on.
StartedHost(s, h, child) == Resume(Finished(Started(Enter(s, h), child)), h)

-----------------------------------------------------------------------------
(* Keys.                                                                   *)

Top(s) == Last(s.stack)

\* The patched start_activity and finish_activity end by binding the top.
Bind(s) == target' = IF s.stack = <<>> THEN target ELSE Top(s)

\* The Tk thread has changed the stack.
Changed == Bind(ui') /\ mixed' = (mixed \/ starter # 0)

\* onKey reads the target under its lock ...
Capture(key) ==
  /\ serial = <<>>
  /\ Len(events) < MaxKeys
  /\ serial' = <<[to |-> target, key |-> key]>>
  /\ UNCHANGED <<ui, born, kind, busy, target, events, threads, mixed, asked>>

\* ... and posts target.callKeyEvent.
Post ==
  /\ serial # <<>>
  /\ events' = events \o serial
  /\ serial' = <<>>
  /\ UNCHANGED <<ui, born, kind, busy, target, threads, mixed, asked>>

Run(a, key) ==
  /\ events # <<>>
  /\ Head(events) = [to |-> a, key |-> key]
  /\ events' = Tail(events)
  /\ UNCHANGED <<serial, checking, starter>>

\* _handlePWR dismisses a toast, or swallows PWR while busy; ScanActivity
\* dismisses the toast and goes on; PC mode ignores keys once it is stopping.
Swallows(a) == \/ a = Main \/ phase[a] # "open"
               \/ kind[a] # "scan" /\ (a \in ui.toasts \/ busy[a])

Swallow(a) ==
  /\ Run(a, "PWR")
  /\ Swallows(a)
  /\ ui' = IF a = Main THEN ui ELSE [ui EXCEPT !.toasts = @ \ {a}]
  /\ UNCHANGED <<born, kind, busy, target, phase, mixed, asked>>

\* PWR, or the finish that PC mode's thread has posted: self.finish(), which is
\* finish_activity().
Back(a) ==
  /\ \/ Run(a, "PWR") /\ ~Swallows(a)
     \/ Run(a, "finish")
  /\ asked' = asked \cup {a}
  /\ ui' = Finished(ui)
  /\ Changed
  /\ UNCHANGED <<born, kind, busy, phase>>

\* OK that opens nothing: swallowed by a busy activity, or it starts a
\* background task.
Work(a) ==
  /\ Run(a, "OK")
  /\ kind[a] # "dialog"
  /\ \/ UNCHANGED busy
     \/ a # Main /\ kind[a] # "pc" /\ busy' = [busy EXCEPT ![a] = TRUE]
  /\ UNCHANGED <<ui, born, kind, target, phase, mixed, asked>>

\* A key in a PC mode that is running: its thread starts to stop it.
Stop(a, key) ==
  /\ Run(a, key)
  /\ kind[a] = "pc" /\ phase[a] = "open"
  /\ phase' = [phase EXCEPT ![a] = "stopping"]
  /\ UNCHANGED <<ui, born, kind, busy, target, mixed, asked>>

\* A scan starts its scan in onCreate.
Create(a, k) ==
  /\ born' = a
  /\ kind' = [kind EXCEPT ![a] = k]
  /\ busy' = [busy EXCEPT ![a] = (k = "scan")]

\* What opens an activity: OK, the call that a task has posted while its
\* canvas was there, and the check of the boot that finds another firmware.
Opening(a, k) ==
  \/ Run(a, "OK") /\ kind[a] \notin {"dialog", "pc"} /\ ~busy[a]
  \/ Run(a, "start") /\ a \notin ui.destroyed
  \/ Run(a, "wizard") /\ k = "page"

Open(a, k) ==
  /\ Opening(a, k)
  /\ k # "host" /\ born < MaxActs
  /\ Create(born + 1, k)
  /\ ui' = Started(ui, born + 1)
  /\ Changed
  /\ UNCHANGED <<phase, asked>>

\* The check finds the firmware it wants; a posted call finds its canvas gone
\* (or, in the model, no activity left to create).
Nothing(a) ==
  /\ Run(a, "start") \/ Run(a, "wizard")
  /\ UNCHANGED <<ui, born, kind, busy, target, phase, mixed, asked>>

\* OK that opens a plugin which brings its own activity.
OpenHost(a) ==
  /\ Run(a, "OK")
  /\ kind[a] \notin {"dialog", "pc"} /\ ~busy[a]
  /\ "host" \in Kinds /\ born + 1 < MaxActs
  /\ born' = born + 2
  /\ kind' = [kind EXCEPT ![born + 1] = "host", ![born + 2] = "page"]
  /\ ui' = StartedHost(ui, born + 1, born + 2)
  /\ Changed
  /\ asked' = asked \cup {born + 1}
  /\ UNCHANGED <<busy, phase>>

\* OK in a dialog: it finishes, and if it was the one popped, onActivity of the
\* activity below may start the next one with the result.
Confirm(a, k) ==
  /\ Run(a, "OK")
  /\ kind[a] = "dialog"
  /\ k \in {"page", "scan"}
  /\ asked' = asked \cup {a}
  /\ \/ ui' = Finished(ui) /\ UNCHANGED <<born, kind, busy>>
     \/ /\ Len(ui.stack) > 2 /\ Top(ui) = a /\ born < MaxActs
        /\ ui' = Started(Finished(ui), born + 1)
        /\ Create(born + 1, k)
  /\ Changed
  /\ UNCHANGED phase

-----------------------------------------------------------------------------
(* Background threads and timers.                                          *)

\* The task of an activity ends: idle, and a toast with the outcome, unless
\* its canvas is gone.
WorkEnds(a) ==
  /\ busy[a]
  /\ busy' = [busy EXCEPT ![a] = FALSE]
  /\ ui' = IF a \in ui.destroyed THEN ui ELSE [ui EXCEPT !.toasts = @ \cup {a}]
  /\ UNCHANGED <<born, kind, target, serial, events, threads, mixed, asked>>

ToastEnds(a) ==
  /\ a \in ui.toasts
  /\ ui' = [ui EXCEPT !.toasts = @ \ {a}]
  /\ UNCHANGED <<born, kind, busy, target, serial, events, threads, mixed, asked>>

Later(a, what) == events' = Append(events, [to |-> a, key |-> what])

\* A reader finds that keys are missing: on_complete, which opens the warning,
\* is posted.
WorkPosts(a) ==
  /\ busy[a] /\ kind[a] = "page"
  /\ busy' = [busy EXCEPT ![a] = FALSE]
  /\ Later(a, "start")
  /\ UNCHANGED <<ui, born, kind, target, serial, threads, mixed, asked>>

\* The simulation's thread opens the trace itself (onSim, not posted): it gets
\* as far as new_act.onCreate ...
WorkOpens(a) ==
  /\ busy[a] /\ kind[a] = "page"
  /\ starter = 0 /\ born < MaxActs
  /\ busy' = [busy EXCEPT ![a] = FALSE]
  /\ starter' = born + 1
  /\ born' = born + 1
  /\ kind' = [kind EXCEPT ![born + 1] = "page"]
  /\ ui' = Enter(ui, born + 1)
  /\ UNCHANGED <<target, serial, events, phase, checking, mixed, asked>>

\* ... and resumes it and binds the top.
Opened ==
  /\ starter # 0
  /\ ui' = Resume(ui, starter)
  /\ Bind(ui')
  /\ starter' = 0
  /\ UNCHANGED <<born, kind, busy, serial, events, phase, checking, mixed, asked>>

\* PC mode is stopped: its thread posts self.finish.
Stopped(a) ==
  /\ phase[a] = "stopping"
  /\ phase' = [phase EXCEPT ![a] = "stopped"]
  /\ Later(a, "finish")
  /\ UNCHANGED <<ui, born, kind, busy, target, serial, checking, starter, mixed, asked>>

\* The version check posts on_check_complete.
Checked ==
  /\ checking
  /\ checking' = FALSE
  /\ Later(Main, "wizard")
  /\ UNCHANGED <<ui, born, kind, busy, target, serial, phase, starter, mixed, asked>>

-----------------------------------------------------------------------------

\* startApp: MainActivity is on the stack and bound.
Empty == [stack |-> <<>>, visible |-> {}, resumed |-> {}, bars |-> {}, toasts |-> {},
          registered |-> {}, destroyed |-> {}]

Init ==
  /\ ui = Started(Empty, Main)
  /\ born = 1
  /\ kind = [a \in Acts |-> "page"]
  /\ busy = [a \in Acts |-> FALSE]
  /\ target = Main
  /\ serial = <<>> /\ events = <<>>
  /\ phase = [a \in Acts |-> "open"]
  /\ checking = TRUE /\ starter = 0 /\ mixed = FALSE
  /\ asked = {}

Next == \/ \E key \in Keys : Capture(key)
        \/ Post \/ Opened \/ Checked
        \/ \E a \in Acts : \/ Swallow(a) \/ Back(a) \/ Work(a) \/ OpenHost(a) \/ Nothing(a)
                           \/ WorkEnds(a) \/ WorkPosts(a) \/ WorkOpens(a) \/ ToastEnds(a)
                           \/ Stopped(a)
        \/ \E a \in Acts, key \in Keys : Stop(a, key)
        \/ \E a \in Acts, k \in Kinds : Open(a, k) \/ Confirm(a, k)

Spec == Init /\ [][Next]_vars

-----------------------------------------------------------------------------
(* Properties.                                                             *)

TypeOK ==
  /\ ui \in UI
  /\ born \in Acts
  /\ kind \in [Acts -> Behaviours]
  /\ busy \in [Acts -> BOOLEAN]
  /\ target \in Acts
  /\ serial \in Seq(Call) /\ Len(serial) <= 1
  /\ events \in Seq(Call)
  /\ phase \in [Acts -> Phases]
  /\ checking \in BOOLEAN /\ starter \in 0..MaxActs /\ mixed \in BOOLEAN
  /\ asked \subseteq Acts

\* Whatever nested starts and finishes a callback runs, whatever threads have
\* posted and however late a key is dispatched, between two events of the Tk
\* loop the canvas shown, the activity resumed, the battery bar that is polled
\* and the one keys go to are those of the top of the stack: while no thread is
\* inside start_activity, and none was when the Tk thread changed the stack.
OneCurrent ==
  LET current == IF ui.stack = <<>> THEN {} ELSE {Top(ui)} IN
  /\ ui.visible = current /\ ui.resumed = current /\ ui.bars = current
  /\ current \subseteq {target}

TopIsCurrent == starter = 0 /\ ~mixed => OneCurrent

-----------------------------------------------------------------------------
(* What the source says and the code does not do.                          *)

\* "UI operations (... activity transitions) which must run on the main thread":
\* TopIsCurrent without its condition, once no thread is inside start_activity.
TopIsCurrentAlways == starter = 0 => OneCurrent

\* "Finish this activity - pops it from the stack".
FinishPopsSelfAlways == ui.destroyed \subseteq asked
=============================================================================
