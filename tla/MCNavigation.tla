---------------------------- MODULE MCNavigation ----------------------------
(* Navigation on small instances: the activities are numbers, bounded by     *)
(* MaxActs; the cfg files choose which kinds of activities there are.        *)
EXTENDS Navigation

\* What the invariant can tell apart: it says nothing once the stack was changed
\* by two threads at a time, and no step reads asked.
Present == IF mixed THEN <<TRUE>>
           ELSE <<ui, born, kind, busy, target, serial, events, threads>>
=============================================================================
