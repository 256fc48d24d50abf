-------------------------- MODULE NavigationProofs --------------------------
(***************************************************************************)
(* What the Tk loop finds on the screen between two of its events, for     *)
(* every number of activities and of keys.                                 *)
(***************************************************************************)
EXTENDS Navigation, SequenceTheorems, TLAPS

Current(s) == IF s.stack = <<>> THEN {} ELSE {Top(s)}
AtMost(s) == s.visible \subseteq Current(s) /\ s.resumed \subseteq Current(s) /\ s.bars \subseteq Current(s)
Exactly(s) == s.visible = Current(s) /\ s.resumed = Current(s) /\ s.bars = Current(s)

-----------------------------------------------------------------------------
(* The stack.                                                              *)
LEMMA LastOf ==
  ASSUME NEW q \in Seq(Acts), q # <<>>
  PROVE  Last(q) \in Acts /\ Front(q) \in Seq(Acts) /\ Len(Front(q)) = Len(q) - 1
<1>1. Len(q) \in Nat \ {0} /\ \A i \in 1..Len(q) : q[i] \in Acts
  BY EmptySeq, LenProperties, ElementOfSeq
<1>2. Last(q) \in Acts
  BY <1>1 DEF Last
<1>3. Front(q) \in Seq(Acts) /\ Len(Front(q)) = Len(q) - 1
  <2>1. 1 \in 1..(Len(q) + 1) /\ Len(q) - 1 \in (1 - 1)..Len(q)
    BY <1>1
  <2>2. SubSeq(q, 1, Len(q) - 1) \in Seq(Acts)
    BY <2>1, SubSeqProperties
  <2>3. Len(SubSeq(q, 1, Len(q) - 1)) = (IF 1 <= Len(q) - 1 THEN Len(q) - 1 - 1 + 1 ELSE 0)
    BY <2>1, SubSeqProperties
  <2>4. Front(q) = SubSeq(q, 1, Len(q) - 1)
    BY DEF Front
  <2> HIDE DEF Front
  <2> DEFINE n == Len(q)
             l == Len(SubSeq(q, 1, Len(q) - 1))
  <2>5. n \in Nat \ {0} /\ l = (IF 1 <= n - 1 THEN n - 1 - 1 + 1 ELSE 0)
    BY <1>1, <2>3
  <2> HIDE DEF n, l
  <2>6. l = n - 1
    BY <2>5
  <2> QED
    BY <2>2, <2>4, <2>6 DEF n, l
<1> QED
  BY <1>2, <1>3

LEMMA LastAppended ==
  ASSUME NEW q \in Seq(Acts), NEW a \in Acts
  PROVE  /\ Append(q, a) \in Seq(Acts) /\ Append(q, a) # <<>>
         /\ Last(Append(q, a)) = a /\ Front(Append(q, a)) = q
         /\ Len(Append(q, a)) = Len(q) + 1
<1>1. /\ Append(q, a) \in Seq(Acts) /\ Append(q, a) # <<>> /\ Len(Append(q, a)) = Len(q) + 1
      /\ Append(q, a)[Len(q) + 1] = a /\ SubSeq(Append(q, a), 1, Len(q)) = q
  BY AppendProperties
<1>2. Len(q) + 1 - 1 = Len(q)
  BY LenProperties
<1> QED
  BY <1>1, <1>2 DEF Last, Front

LEMMA EnterProperties ==
  ASSUME NEW u \in UI, NEW a \in Acts
  PROVE  /\ Enter(u, a) \in UI /\ Enter(u, a).stack = Append(u.stack, a)
         /\ AtMost(u) => AtMost(Enter(u, a)) /\ Enter(u, a).visible = {a}
<1>1. /\ u.stack \in Seq(Acts) /\ u.visible \subseteq Acts /\ u.resumed \subseteq Acts /\ u.bars \subseteq Acts
      /\ u.toasts \subseteq Acts /\ u.registered \subseteq Acts /\ u.destroyed \subseteq Acts
  BY DEF UI
<1> DEFINE r == [u EXCEPT !.registered = @ \cup {a}]
           p == IF r.stack = <<>> THEN r ELSE Hide(Pause(r, Last(r.stack)), Last(r.stack))
<1>2. /\ p \in UI /\ p.stack = u.stack
      /\ AtMost(u) => p.visible = {} /\ p.resumed = {} /\ p.bars = {}
  BY <1>1 DEF UI, Hide, Pause, AtMost, Current, Top
<1>3. Enter(u, a) = Show(Onto(p, a), a)
  BY DEF Enter
<1>4. Append(u.stack, a) \in Seq(Acts) /\ Append(u.stack, a) # <<>>
  BY <1>1, LastAppended
<1> HIDE DEF p
<1>5. /\ Onto(p, a) \in UI /\ Onto(p, a).stack = Append(u.stack, a)
      /\ Onto(p, a).visible = p.visible /\ Onto(p, a).resumed = p.resumed /\ Onto(p, a).bars = p.bars
  BY <1>2, <1>4 DEF Onto, UI
<1> DEFINE o == Onto(p, a)
<1> HIDE DEF o
<1>6. /\ Show(o, a) \in UI /\ Show(o, a).stack = o.stack
      /\ Show(o, a).visible = o.visible \cup {a} /\ Show(o, a).resumed = o.resumed /\ Show(o, a).bars = o.bars
  <2>1. o \in UI
    BY <1>5 DEF o
  <2> QED
    BY <2>1 DEF Show, UI
<1>7. /\ Enter(u, a) \in UI /\ Enter(u, a).stack = Append(u.stack, a)
      /\ Enter(u, a).visible = p.visible \cup {a} /\ Enter(u, a).resumed = p.resumed /\ Enter(u, a).bars = p.bars
  BY <1>3, <1>5, <1>6 DEF o
<1> QED
  BY <1>1, <1>2, <1>4, <1>7, LastAppended DEF AtMost, Current, Top

\* The end of a start: the activity on top is resumed.
LEMMA ResumedProperties ==
  ASSUME NEW u \in UI, NEW a \in Acts
  PROVE  /\ Resume(u, a) \in UI /\ Resume(u, a).stack = u.stack
         /\ AtMost(u) /\ u.visible = {a} /\ u.stack # <<>> => Exactly(Resume(u, a))
<1>1. /\ Resume(u, a) \in UI /\ Resume(u, a).stack = u.stack /\ Resume(u, a).visible = u.visible
      /\ Resume(u, a).resumed = u.resumed \cup {a} /\ Resume(u, a).bars = u.bars \cup {a}
  BY DEF Resume, UI
<1> QED
  BY <1>1 DEF Exactly, AtMost, Current, Top

LEMMA StartedProperties ==
  ASSUME NEW u \in UI, NEW a \in Acts
  PROVE  /\ Started(u, a) \in UI /\ Started(u, a).stack = Append(u.stack, a)
         /\ AtMost(u) => Exactly(Started(u, a))
<1> DEFINE e == Enter(u, a)
<1>1. e \in UI /\ e.stack = Append(u.stack, a) /\ (AtMost(u) => AtMost(e) /\ e.visible = {a})
  BY EnterProperties
<1>2. Append(u.stack, a) # <<>>
  BY LastAppended DEF UI
<1> HIDE DEF e
<1> QED
  BY <1>1, <1>2, ResumedProperties DEF Started, e

LEMMA FinishedProperties ==
  ASSUME NEW u \in UI
  PROVE  /\ Finished(u) \in UI
         /\ u.stack # <<>> => Finished(u).stack = Front(u.stack)
         /\ AtMost(u) => Exactly(Finished(u))
<1>1. CASE u.stack = <<>>
  BY <1>1 DEF Finished, Exactly, AtMost, Current
<1>2. CASE u.stack # <<>>
  <2> DEFINE a == Last(u.stack)
             r == Hide(Pause(u, a), a)
             p == [r EXCEPT !.stack = Front(@), !.destroyed = @ \cup {a}, !.registered = @ \ {a}]
  <2>1. a \in Acts /\ Front(u.stack) \in Seq(Acts)
    BY <1>2, LastOf DEF UI
  <2>2. /\ r \in UI /\ r.stack = u.stack
        /\ AtMost(u) => r.visible = {} /\ r.resumed = {} /\ r.bars = {}
    BY <1>2 DEF UI, Hide, Pause, AtMost, Current, Top
  <2> HIDE DEF r
  <2>3. /\ p \in UI /\ p.stack = Front(u.stack)
        /\ AtMost(u) => p.visible = {} /\ p.resumed = {} /\ p.bars = {}
    BY <2>1, <2>2 DEF UI
  <2>4. Finished(u) = (IF p.stack = <<>> THEN p ELSE Show(Resume(p, Last(p.stack)), Last(p.stack)))
    BY <1>2 DEF Finished, r
  <2> HIDE DEF p, a
  <2>5. CASE p.stack = <<>>
    BY <1>2, <2>3, <2>4, <2>5 DEF Exactly, Current, Top
  <2>6. CASE p.stack # <<>>
    <3> DEFINE b == Last(p.stack)
    <3>1. b \in Acts
      BY <2>3, <2>6, LastOf DEF UI
    <3> HIDE DEF b
    <3> DEFINE q == Resume(p, b)
    <3>2. /\ q \in UI /\ q.stack = p.stack
          /\ AtMost(u) => q.visible = {} /\ q.resumed = {b} /\ q.bars = {b}
      BY <2>3, <3>1 DEF Resume, UI
    <3>3. Finished(u) = Show(q, b)
      BY <2>4, <2>6 DEF b
    <3> HIDE DEF q
    <3>4. /\ Finished(u) \in UI /\ Finished(u).stack = p.stack
          /\ AtMost(u) => Finished(u).visible = {b} /\ Finished(u).resumed = {b} /\ Finished(u).bars = {b}
      BY <3>1, <3>2, <3>3 DEF Show, UI
    <3> QED
      BY <1>2, <2>3, <2>6, <3>4 DEF Exactly, Current, Top, b
  <2> QED
    BY <2>5, <2>6
<1> QED
  BY <1>1, <1>2

LEMMA ExactlyAtMost == ASSUME NEW u, Exactly(u) PROVE AtMost(u)
BY DEF Exactly, AtMost

\* The plugin's activity is popped again, and its host shown.
LEMMA StartedHostProperties ==
  ASSUME NEW u \in UI, NEW h \in Acts, NEW c \in Acts
  PROVE  /\ StartedHost(u, h, c) \in UI
         /\ AtMost(u) => Exactly(StartedHost(u, h, c))
<1> DEFINE e == Enter(u, h)
           g == Started(e, c)
           f == Finished(g)
<1>1. e \in UI /\ e.stack = Append(u.stack, h) /\ (AtMost(u) => AtMost(e))
  BY EnterProperties
<1>2. e.stack # <<>> /\ Last(e.stack) = h /\ e.stack \in Seq(Acts)
  BY <1>1, LastAppended DEF UI
<1> HIDE DEF e
<1>3. g \in UI /\ g.stack = Append(e.stack, c) /\ (AtMost(u) => AtMost(g))
  BY <1>1, StartedProperties, ExactlyAtMost
<1>4. Append(e.stack, c) # <<>> /\ Front(Append(e.stack, c)) = e.stack
  BY <1>2, LastAppended
<1> HIDE DEF g
<1>5. f \in UI /\ f.stack = e.stack /\ (AtMost(u) => Exactly(f))
  BY <1>3, <1>4, FinishedProperties
<1> HIDE DEF f
<1>6. AtMost(u) => AtMost(f) /\ f.visible = {h}
  BY <1>2, <1>5, ExactlyAtMost DEF Exactly, Current, Top
<1> QED
  BY <1>2, <1>5, <1>6, ResumedProperties DEF StartedHost, e, f, g

\* A toast is nothing but a toast.
LEMMA ToastsProperties ==
  ASSUME NEW u \in UI, NEW T \in SUBSET Acts, NEW v, v = [u EXCEPT !.toasts = T]
  PROVE  /\ v \in UI /\ v.stack = u.stack
         /\ v.visible = u.visible /\ v.resumed = u.resumed /\ v.bars = u.bars
BY DEF UI

-----------------------------------------------------------------------------
(* The invariant.                                                          *)

\* A thread that is starting an activity has shown it, and it is on top: as long
\* as the Tk thread leaves the stack alone.
Midway ==
  AtMost(ui) /\ ui.stack # <<>> /\ ui.visible = {starter}

IInv == TypeOK /\ TopIsCurrent /\ (starter # 0 /\ ~mixed => Midway)

LEMMA TopIsCurrentIs == OneCurrent <=> (Exactly(ui) /\ Current(ui) \subseteq {target})
BY DEF OneCurrent, Exactly, Current

\* The Tk thread has opened or finished something.
LEMMA Bound ==
  ASSUME IInv, ui' \in UI, AtMost(ui) => Exactly(ui'), Changed, starter' = starter
  PROVE  /\ TopIsCurrent' /\ (starter # 0 /\ ~mixed => Midway)'
         /\ target' \in Acts /\ mixed' \in BOOLEAN
<1>1. target' \in Acts /\ mixed' \in BOOLEAN
  BY LastOf DEF Changed, Bind, IInv, TypeOK, Top, UI
<1>2. ASSUME starter' = 0, ~mixed'
      PROVE  OneCurrent'
  <2>1. starter = 0 /\ ~mixed
    BY <1>2 DEF Changed, IInv, TypeOK
  <2>2. Exactly(ui')
    BY <2>1, TopIsCurrentIs, ExactlyAtMost DEF IInv, TopIsCurrent
  <2>3. CASE ui'.stack = <<>>
    BY <2>2, <2>3 DEF OneCurrent, Exactly, Current
  <2>4. CASE ui'.stack # <<>>
    BY <2>2, <2>4 DEF Changed, Bind, OneCurrent, Exactly, Current, Top
  <2> QED
    BY <2>3, <2>4
<1>3. starter' = 0 \/ mixed'
  BY DEF Changed, IInv, TypeOK
<1> QED
  BY <1>1, <1>2, <1>3 DEF TopIsCurrent

\* A step that leaves the stack and what is shown of it.
LEMMA Kept ==
  ASSUME IInv, UNCHANGED <<target, starter, mixed>>, ui'.stack = ui.stack,
         ui'.visible = ui.visible, ui'.resumed = ui.resumed, ui'.bars = ui.bars
  PROVE  TopIsCurrent' /\ (starter # 0 /\ ~mixed => Midway)'
BY DEF IInv, TopIsCurrent, OneCurrent, Midway, AtMost, Current, Top

LEMMA RunProperties ==
  ASSUME TypeOK, NEW a \in Acts, NEW key, Run(a, key)
  PROVE  events' \in Seq(Call) /\ UNCHANGED <<serial, checking, starter>>
<1>1. Tail(events) \in Seq(Call)
  BY HeadTailProperties DEF Run, TypeOK
<1> QED
  BY <1>1 DEF Run

LEMMA LaterProperties ==
  ASSUME TypeOK, NEW a \in Acts, NEW what \in Posted, Later(a, what)
  PROVE  events' \in Seq(Call)
BY AppendProperties DEF TypeOK, Later, Call

-----------------------------------------------------------------------------
(* One lemma for an action.                                                *)

LEMMA InitStep == Init => IInv
<1> SUFFICES ASSUME Init PROVE IInv
  OBVIOUS
<1>1. Main \in Acts
  BY NavAssumption DEF Acts, Main
<1>2. Empty \in UI /\ AtMost(Empty) /\ Empty.stack = <<>>
  BY EmptySeq DEF Empty, UI, AtMost
<1>3. ui \in UI /\ Exactly(ui) /\ ui.stack = Append(<<>>, Main)
  BY <1>1, <1>2, StartedProperties DEF Init
<1>4. ui.stack # <<>> /\ Top(ui) = Main
  BY <1>1, <1>3, LastAppended, EmptySeq DEF Top
<1>5. TopIsCurrent
  BY <1>3, <1>4, TopIsCurrentIs DEF Init, Current, TopIsCurrent
<1>6. TypeOK
  <2>1. <<>> \in Seq(Call) /\ Len(<<>>) <= 1
    BY EmptySeq
  <2>2. /\ kind \in [Acts -> Behaviours] /\ busy \in [Acts -> BOOLEAN] /\ born \in Acts
        /\ phase \in [Acts -> Phases] /\ starter \in 0..MaxActs
    BY <1>1, NavAssumption DEF Init, Behaviours, Phases, Main
  <2> QED
    BY <1>1, <1>3, <2>1, <2>2 DEF Init, TypeOK
<1> QED
  BY <1>5, <1>6 DEF Init, IInv

\* A step of which nothing is seen: keys are captured and posted, threads post calls.
LEMMA UnseenStep ==
  ASSUME IInv, UNCHANGED <<ui, target, starter, mixed>>, TypeOK'
  PROVE  IInv'
BY Kept DEF IInv

LEMMA KeyStep ==
  ASSUME IInv, Post \/ \E key \in Keys : Capture(key)
  PROVE  IInv'
<1>1. CASE Post
  <2>1. UNCHANGED <<ui, born, kind, busy, target, threads, mixed, asked>> /\ serial' = <<>> /\ events' = events \o serial
    BY <1>1 DEF Post
  <2>2. events' \in Seq(Call)
    BY <2>1, ConcatProperties DEF IInv, TypeOK
  <2>3. TypeOK'
    BY <2>1, <2>2, EmptySeq DEF IInv, TypeOK, threads
  <2> QED
    BY <2>1, <2>3, UnseenStep DEF threads
<1>2. ASSUME NEW key \in Keys, Capture(key)
      PROVE  IInv'
  <2> DEFINE c == [to |-> target, key |-> key]
  <2>1. serial' = <<c>> /\ UNCHANGED <<ui, born, kind, busy, target, events, threads, mixed, asked>>
    BY <1>2 DEF Capture
  <2>2. c \in Call
    BY DEF IInv, TypeOK, Call
  <2> HIDE DEF c
  <2>3. serial' \in Seq(Call) /\ Len(serial') = 1
    BY <2>1, <2>2
  <2>4. TypeOK'
    BY <2>1, <2>3 DEF IInv, TypeOK, threads
  <2> QED
    BY <2>1, <2>4, UnseenStep DEF threads
<1> QED
  BY <1>1, <1>2

LEMMA ThreadPostStep ==
  ASSUME IInv, Checked \/ \E a \in Acts : WorkPosts(a) \/ Stopped(a)
  PROVE  IInv'
<1>1. CASE Checked
  <2>1. Main \in Acts /\ "wizard" \in Posted
    BY NavAssumption DEF Acts, Main, Posted
  <2>2. events' \in Seq(Call)
    BY <1>1, <2>1, LaterProperties DEF Checked, IInv
  <2>3. TypeOK'
    BY <1>1, <2>2 DEF Checked, IInv, TypeOK
  <2> QED
    BY <1>1, <2>3, UnseenStep DEF Checked
<1>2. ASSUME NEW a \in Acts, WorkPosts(a)
      PROVE  IInv'
  <2>1. events' \in Seq(Call)
    BY <1>2, LaterProperties DEF WorkPosts, IInv, Posted
  <2>2. TypeOK'
    BY <1>2, <2>1 DEF WorkPosts, IInv, TypeOK, threads
  <2> QED
    BY <1>2, <2>2, UnseenStep DEF WorkPosts, threads
<1>3. ASSUME NEW a \in Acts, Stopped(a)
      PROVE  IInv'
  <2>1. events' \in Seq(Call)
    BY <1>3, LaterProperties DEF Stopped, IInv, Posted
  <2>2. phase' \in [Acts -> Phases]
    BY <1>3 DEF Stopped, IInv, TypeOK, Phases
  <2>3. TypeOK'
    BY <1>3, <2>1, <2>2 DEF Stopped, IInv, TypeOK
  <2> QED
    BY <1>3, <2>3, UnseenStep DEF Stopped
<1> QED
  BY <1>1, <1>2, <1>3

\* A step that only shows or removes toasts and changes what is busy.
LEMMA ToastStep ==
  ASSUME IInv, NEW T \in SUBSET Acts, ui' \in {ui, [ui EXCEPT !.toasts = T]}, busy' \in [Acts -> BOOLEAN],
         phase' \in [Acts -> Phases], UNCHANGED <<born, kind, target, checking, starter, mixed, asked>>,
         serial' = serial, events' \in Seq(Call)
  PROVE  IInv'
<1>1. /\ ui' \in UI /\ ui'.stack = ui.stack
      /\ ui'.visible = ui.visible /\ ui'.resumed = ui.resumed /\ ui'.bars = ui.bars
  BY ToastsProperties DEF IInv, TypeOK
<1>2. TypeOK'
  BY <1>1 DEF IInv, TypeOK
<1> QED
  BY <1>1, <1>2, Kept DEF IInv

LEMMA QuietStep ==
  ASSUME IInv, NEW a \in Acts,
         Swallow(a) \/ Work(a) \/ Nothing(a) \/ (\E key \in Keys : Stop(a, key)) \/ WorkEnds(a) \/ ToastEnds(a)
  PROVE  IInv'
<1>1. TypeOK /\ phase \in [Acts -> Phases] /\ busy \in [Acts -> BOOLEAN] /\ events \in Seq(Call)
      /\ ui.toasts \ {a} \in SUBSET Acts /\ ui.toasts \cup {a} \in SUBSET Acts
  BY DEF IInv, TypeOK, UI
<1>2. CASE Swallow(a)
  BY <1>1, <1>2, RunProperties, ToastStep DEF Swallow
<1>3. CASE Work(a)
  <2>1. busy' \in [Acts -> BOOLEAN]
    BY <1>1, <1>3 DEF Work
  <2> QED
    BY <1>1, <1>3, <2>1, RunProperties, ToastStep DEF Work
<1>4. CASE Nothing(a)
  BY <1>1, <1>4, RunProperties, ToastStep DEF Nothing
<1>5. ASSUME NEW key \in Keys, Stop(a, key)
      PROVE  IInv'
  <2>1. phase' \in [Acts -> Phases]
    BY <1>1, <1>5 DEF Stop, Phases
  <2> QED
    BY <1>1, <1>5, <2>1, RunProperties, ToastStep DEF Stop
<1>6. CASE WorkEnds(a)
  <2>1. busy' \in [Acts -> BOOLEAN]
    BY <1>1, <1>6 DEF WorkEnds
  <2> QED
    BY <1>1, <1>6, <2>1, ToastStep DEF WorkEnds, threads
<1>7. CASE ToastEnds(a)
  BY <1>1, <1>7, ToastStep DEF ToastEnds, threads
<1> QED
  BY <1>2, <1>3, <1>4, <1>5, <1>6, <1>7

LEMMA BackStep ==
  ASSUME IInv, NEW a \in Acts, Back(a)
  PROVE  IInv'
<1>1. ui' \in UI /\ (AtMost(ui) => Exactly(ui'))
  BY FinishedProperties DEF Back, IInv, TypeOK
<1>2. events' \in Seq(Call) /\ UNCHANGED <<serial, checking, starter>>
  BY RunProperties DEF Back, IInv
<1>3. TopIsCurrent' /\ (starter # 0 /\ ~mixed => Midway)' /\ target' \in Acts /\ mixed' \in BOOLEAN
  BY <1>1, <1>2, Bound DEF Back
<1>4. TypeOK'
  BY <1>1, <1>2, <1>3 DEF Back, IInv, TypeOK
<1> QED
  BY <1>3, <1>4 DEF IInv

\* What is created is typed.
LEMMA CreateTyped ==
  ASSUME TypeOK, born < MaxActs, NEW k \in Behaviours, Create(born + 1, k)
  PROVE  /\ born' \in Acts /\ kind' \in [Acts -> Behaviours] /\ busy' \in [Acts -> BOOLEAN]
         /\ born + 1 \in Acts
BY NavAssumption DEF TypeOK, Create, Acts

LEMMA OpenStep ==
  ASSUME IInv, NEW a \in Acts, NEW k \in Kinds, Open(a, k)
  PROVE  IInv'
<1>1. born' \in Acts /\ kind' \in [Acts -> Behaviours] /\ busy' \in [Acts -> BOOLEAN] /\ born + 1 \in Acts
  BY CreateTyped, NavAssumption DEF Open, IInv
<1>2. ui' \in UI /\ (AtMost(ui) => Exactly(ui'))
  BY <1>1, StartedProperties DEF Open, IInv, TypeOK
<1>3. events' \in Seq(Call) /\ UNCHANGED <<serial, checking, starter>>
  BY RunProperties DEF Open, Opening, IInv
<1>4. TopIsCurrent' /\ (starter # 0 /\ ~mixed => Midway)' /\ target' \in Acts /\ mixed' \in BOOLEAN
  BY <1>2, <1>3, Bound DEF Open
<1>5. TypeOK'
  BY <1>1, <1>2, <1>3, <1>4 DEF Open, IInv, TypeOK
<1> QED
  BY <1>4, <1>5 DEF IInv

LEMMA OpenHostStep ==
  ASSUME IInv, NEW a \in Acts, OpenHost(a)
  PROVE  IInv'
<1>1. born + 1 \in Acts /\ born + 2 \in Acts
  BY NavAssumption DEF OpenHost, IInv, TypeOK, Acts
<1>2. ui' \in UI /\ (AtMost(ui) => Exactly(ui'))
  BY <1>1, StartedHostProperties DEF OpenHost, IInv, TypeOK
<1>3. events' \in Seq(Call) /\ UNCHANGED <<serial, checking, starter>>
  BY RunProperties DEF OpenHost, IInv
<1>4. TopIsCurrent' /\ (starter # 0 /\ ~mixed => Midway)' /\ target' \in Acts /\ mixed' \in BOOLEAN
  BY <1>2, <1>3, Bound DEF OpenHost
<1>5. kind' \in [Acts -> Behaviours]
  BY DEF OpenHost, IInv, TypeOK, Behaviours
<1>6. TypeOK'
  BY <1>1, <1>2, <1>3, <1>4, <1>5 DEF OpenHost, IInv, TypeOK
<1> QED
  BY <1>4, <1>6 DEF IInv

LEMMA ConfirmStep ==
  ASSUME IInv, NEW a \in Acts, NEW k \in Kinds, Confirm(a, k)
  PROVE  IInv'
<1> DEFINE f == Finished(ui)
<1>1. f \in UI /\ (AtMost(ui) => Exactly(f))
  BY FinishedProperties DEF IInv, TypeOK
<1> HIDE DEF f
<1>2. events' \in Seq(Call) /\ UNCHANGED <<serial, checking, starter>>
  BY RunProperties DEF Confirm, IInv
<1>3. /\ ui' \in UI /\ (AtMost(ui) => Exactly(ui'))
      /\ born' \in Acts /\ kind' \in [Acts -> Behaviours] /\ busy' \in [Acts -> BOOLEAN]
  <2>1. CASE ui' = f /\ UNCHANGED <<born, kind, busy>>
    BY <1>1, <2>1 DEF IInv, TypeOK
  <2>2. CASE born < MaxActs /\ ui' = Started(f, born + 1) /\ Create(born + 1, k)
    <3>1. born' \in Acts /\ kind' \in [Acts -> Behaviours] /\ busy' \in [Acts -> BOOLEAN] /\ born + 1 \in Acts
      BY <2>2, CreateTyped, NavAssumption DEF IInv
    <3> QED
      BY <1>1, <2>2, <3>1, StartedProperties, ExactlyAtMost
  <2> QED
    BY <2>1, <2>2 DEF Confirm, f
<1>4. TopIsCurrent' /\ (starter # 0 /\ ~mixed => Midway)' /\ target' \in Acts /\ mixed' \in BOOLEAN
  BY <1>2, <1>3, Bound DEF Confirm
<1>5. TypeOK'
  BY <1>2, <1>3, <1>4 DEF Confirm, IInv, TypeOK
<1> QED
  BY <1>4, <1>5 DEF IInv

\* A thread starts an activity: midway it is on top and shown.
LEMMA WorkOpensStep ==
  ASSUME IInv, NEW a \in Acts, WorkOpens(a)
  PROVE  IInv'
<1>1. born + 1 \in Acts /\ born + 1 # 0 /\ born + 1 \in 0..MaxActs
  BY NavAssumption DEF WorkOpens, IInv, TypeOK, Acts
<1>2. /\ ui' \in UI /\ ui'.stack # <<>>
      /\ AtMost(ui) => AtMost(ui') /\ ui'.visible = {born + 1}
  <2>1. ui \in UI /\ ui.stack \in Seq(Acts) /\ ui' = Enter(ui, born + 1)
    BY DEF WorkOpens, IInv, TypeOK, UI
  <2> DEFINE n == born + 1
  <2>2. n \in Acts
    BY <1>1
  <2> HIDE DEF n
  <2>3. Enter(ui, n) \in UI /\ Enter(ui, n).stack # <<>> /\ (AtMost(ui) => AtMost(Enter(ui, n)) /\ Enter(ui, n).visible = {n})
    BY <2>1, <2>2, EnterProperties, LastAppended
  <2> QED
    BY <2>1, <2>3 DEF n
<1>3. ~mixed => AtMost(ui)
  BY TopIsCurrentIs, ExactlyAtMost DEF WorkOpens, IInv, TopIsCurrent
<1>4. kind' \in [Acts -> Behaviours] /\ busy' \in [Acts -> BOOLEAN]
  BY DEF WorkOpens, IInv, TypeOK, Behaviours
<1>5. TypeOK'
  BY <1>1, <1>2, <1>4 DEF WorkOpens, IInv, TypeOK
<1>6. (starter # 0 /\ ~mixed => Midway)'
  BY <1>2, <1>3 DEF WorkOpens, Midway
<1>7. TopIsCurrent'
  BY <1>1 DEF WorkOpens, TopIsCurrent
<1> QED
  BY <1>5, <1>6, <1>7 DEF IInv

LEMMA OpenedStep ==
  ASSUME IInv, Opened
  PROVE  IInv'
<1>1. starter \in Acts
  BY NavAssumption DEF Opened, IInv, TypeOK, Acts
<1>2. /\ ui' \in UI /\ ui'.stack = ui.stack
      /\ ~mixed => Exactly(ui') /\ ui'.stack # <<>>
  BY <1>1, ResumedProperties DEF Opened, IInv, TypeOK, Midway
<1>3. target' \in Acts /\ (ui'.stack # <<>> => target' = Top(ui'))
  BY <1>2, LastOf DEF Opened, Bind, IInv, TypeOK, Top, UI
<1>4. TypeOK'
  BY <1>2, <1>3, NavAssumption DEF Opened, IInv, TypeOK
<1>5. ~mixed' => OneCurrent'
  BY <1>2, <1>3 DEF Opened, OneCurrent, Exactly, Current, Top
<1> QED
  BY <1>4, <1>5 DEF IInv, TopIsCurrent, Opened

LEMMA IInvStep == IInv /\ [Next]_vars => IInv'
<1> SUFFICES ASSUME IInv, [Next]_vars PROVE IInv'
  OBVIOUS
<1>1. CASE Next
  BY <1>1, KeyStep, ThreadPostStep, QuietStep, BackStep, OpenStep, OpenHostStep, ConfirmStep,
     WorkOpensStep, OpenedStep DEF Next
<1>2. CASE UNCHANGED vars
  <2>1. TypeOK'
    BY <1>2 DEF IInv, vars, TypeOK
  <2> QED
    BY <1>2, <2>1, UnseenStep DEF vars
<1> QED
  BY <1>1, <1>2

-----------------------------------------------------------------------------

\* The stack, what the callbacks maintain and the calls under way are well typed, for every
\* number of activities and of keys.
THEOREM TypeCorrect == Spec => []TypeOK
<1>1. IInv => TypeOK
  BY DEF IInv
<1> QED
  BY <1>1, InitStep, IInvStep, PTL DEF Spec

\* The activity on top of the stack is the one that is shown, resumed, has the bar and gets
\* the keys, whatever was opened and finished inside callbacks and by posted calls, and
\* however deep: while the stack is changed by one thread at a time.
THEOREM TopCorrect == Spec => []TopIsCurrent
<1>1. IInv => TopIsCurrent
  BY DEF IInv
<1> QED
  BY <1>1, InitStep, IInvStep, PTL DEF Spec
=============================================================================
