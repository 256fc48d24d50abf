----------------------------- MODULE ScanProofs -----------------------------
(***************************************************************************)
(* One ScanActivity, which is what the user sees: however often it scans,  *)
(* is stopped and is left, its scans do not meet. With a second activity   *)
(* they do, and those theorems do not hold; the types do, in the last      *)
(* section.                                                                *)
(***************************************************************************)
EXTENDS Scan, TLAPS

OneActivity == MaxActs = 1

Labels == {"unborn", "start", "command", "task", "parse", "error", "report", "finally", "ended"}

\* The scan may still run commands, set INFOS or call the activity back.
Live(s) == spc[s] \in {"start", "command", "task", "parse", "error", "report"}

Typed ==
  /\ acts \in 0..MaxActs /\ act \in {0, acts}
  /\ view \in [Acts -> {"none", "scanning", "found", "not_found", "gone"}]
  /\ result \in [Acts -> 0..MaxScans]
  /\ scans \in 0..MaxScans
  /\ owner \in [Scans -> 0..MaxActs]
  /\ spc \in [Scans -> Labels]
  /\ task \in [Scans -> T!TaskStates]

\* A scan that is live belongs to the activity, which waits for it or was left.
OneLive ==
  /\ \A r, s \in Scans : Live(r) /\ Live(s) => r = s
  /\ \A s \in Scans : /\ Live(s) => owner[s] = 1 /\ acts = 1 /\ view[1] \in {"scanning", "gone"}
                      /\ s > scans => spc[s] = "unborn"
                      /\ task[s] # "idle" => spc[s] = "task"
  /\ view[1] = "gone" => act = 0 /\ acts = 1
  /\ act # 0 => acts = 1
  /\ view[1] = "none" <=> acts = 0

\* Whose output the module cache holds, from the end of the command to its parser.
OwnContent == \A s \in Scans :
  task[s] = "done" \/ spc[s] = "parse" => content = s

IInv == Typed /\ OneLive /\ OwnContent /\ CacheIsShown

LEMMA One == ASSUME OneActivity PROVE Acts = {1} /\ MaxActs = 1 /\ 1 \in Acts
BY DEF OneActivity, Acts

\* A scan begins when no other is live.
LEMMA StartStep ==
  ASSUME OneActivity, IInv, Create \/ Rescan
  PROVE  IInv'
<1>0. Acts = {1} /\ MaxActs = 1 /\ MaxScans \in Nat
  BY One, ScanAssumption
<1> DEFINE n == scans + 1
<1>1. /\ n \in Scans /\ scans' = n /\ n \in 0..MaxScans /\ n > scans
      /\ owner' = [owner EXCEPT ![n] = 1] /\ spc' = [spc EXCEPT ![n] = "start"]
      /\ view' = [view EXCEPT ![1] = "scanning"]
      /\ UNCHANGED <<task, content, infos, result>>
      /\ acts' = 1 /\ act' = 1
      /\ view[1] \notin {"scanning", "gone"}
  <2>1. CASE Create
    <3>1. acts = 0 /\ acts' = 1 /\ act' = 1 /\ StartScan(1) /\ UNCHANGED result /\ view[1] = "none"
      BY <1>0, <2>1 DEF Create, IInv, Typed, OneLive
    <3> QED
      BY <1>0, <3>1 DEF StartScan, Goto, Scans, IInv, Typed, service
  <2>2. CASE Rescan
    <3>1. act = 1 /\ acts = 1 /\ StartScan(1) /\ UNCHANGED <<act, acts, result>> /\ view[1] # "scanning"
      BY <1>0, <2>2 DEF Rescan, IInv, Typed, OneLive
    <3> QED
      BY <1>0, <3>1 DEF StartScan, Goto, Scans, IInv, Typed, OneLive, service
  <2> QED
    BY <2>1, <2>2
<1>2. \A s \in Scans : ~Live(s)
  BY <1>1 DEF IInv, OneLive
<1>3. spc[n] = "unborn"
  BY <1>1 DEF IInv, OneLive
<1> HIDE DEF n
<1>4. Typed'
  BY <1>0, <1>1 DEF IInv, Typed, Labels, Acts
<1>5. \A s \in Scans : s # n => spc'[s] = spc[s] /\ owner'[s] = owner[s] /\ ~Live(s)'
  BY <1>1, <1>2 DEF IInv, Typed, Live
<1>6. spc'[n] = "start" /\ owner'[n] = 1 /\ view'[1] = "scanning" /\ task[n] = "idle"
  BY <1>0, <1>1, <1>3 DEF IInv, Typed, OneLive
<1>7. \A s \in Scans : s > scans' => s > scans /\ s # n
  <2>1. scans \in Nat /\ n = scans + 1
    BY DEF n, IInv, Typed
  <2> QED
    BY <1>1, <2>1 DEF Scans
<1>8. OneLive'
  BY <1>1, <1>5, <1>6, <1>7 DEF IInv, OneLive
<1>9. OwnContent'
  BY <1>1, <1>5, <1>6 DEF IInv, OwnContent
<1>10. CacheIsShown'
  BY <1>1, <1>6 DEF CacheIsShown
<1> QED
  BY <1>4, <1>8, <1>9, <1>10 DEF IInv

LEMMA LeaveStep ==
  ASSUME OneActivity, IInv, Cancel \/ Finish
  PROVE  IInv'
<1>0. Acts = {1} /\ 1 \in Acts
  BY One
<1>1. CASE Cancel
  <2>1. UNCHANGED <<task, content, infos, activity, scanner>>
    BY <1>1 DEF Cancel, T!Stop
  <2> QED
    BY <2>1 DEF IInv, Typed, OneLive, Live, OwnContent, CacheIsShown, activity, scanner
<1>2. CASE Finish
  <2>1. /\ act = 1 /\ act' = 0 /\ view' = [view EXCEPT ![1] = "gone"]
        /\ UNCHANGED <<task, content, infos, acts, result, scanner>>
    BY <1>2 DEF Finish, T!StopReturns, service, IInv, Typed, OneLive
  <2>2. Typed' /\ view'[1] = "gone"
    BY <1>0, <2>1 DEF IInv, Typed, scanner
  <2>3. OneLive'
    BY <2>1, <2>2 DEF IInv, OneLive, Live, scanner
  <2> QED
    BY <2>1, <2>2, <2>3 DEF IInv, OwnContent, CacheIsShown, scanner
<1> QED
  BY <1>1, <1>2

\* A step of a live scan that moves it in the pipeline or to its end.
LEMMA Moves ==
  ASSUME IInv, NEW s \in Scans, NEW l \in Labels, Live(s), l # "unborn",
         spc' = [spc EXCEPT ![s] = l], UNCHANGED <<act, acts, view, result, scans, owner>>,
         task' \in [Scans -> T!TaskStates], \A r \in Scans : r # s => task'[r] = task[r],
         task'[s] # "idle" => l = "task"
  PROVE  /\ Typed' /\ OneLive' /\ \A r \in Scans : r # s => ~Live(r) /\ ~Live(r)' /\ task'[r] = "idle"
         /\ spc'[s] = l /\ view[1] \in {"scanning", "gone"}
<1>1. spc'[s] = l /\ (\A r \in Scans : r # s => spc'[r] = spc[r]) /\ spc' \in [Scans -> Labels]
  BY DEF IInv, Typed
<1>2. \A r \in Scans : r # s => ~Live(r) /\ ~Live(r)' /\ task'[r] = "idle"
  BY <1>1 DEF IInv, OneLive, Live
<1>3. view[1] \in {"scanning", "gone"} /\ owner[s] = 1 /\ acts = 1 /\ ~(s > scans)
  BY DEF IInv, OneLive, Live
<1>4. Typed'
  BY <1>1 DEF IInv, Typed
<1>5. OneLive'
  BY <1>1, <1>2, <1>3 DEF IInv, OneLive
<1> QED
  BY <1>1, <1>2, <1>3, <1>4, <1>5

LEMMA TaskStates ==
  ASSUME IInv, NEW s \in Scans
  PROVE  /\ T!Call(s) => task' = [task EXCEPT ![s] = "called"]
         /\ T!Return(s) \/ T!Refuse(s) => task' = [task EXCEPT ![s] = "idle"] /\ task[s] # "idle"
         /\ T!Enter(s) => task' = [task EXCEPT ![s] = "ready"] /\ task[s] = "called"
         /\ T!Begin(s) => task' = [task EXCEPT ![s] = "running"] /\ task[s] = "ready"
         /\ T!Succeed(s) => task' = [task EXCEPT ![s] = "done"] /\ task[s] = "running"
         /\ T!Fail(s) => task' = [task EXCEPT ![s] = "failed"] /\ task[s] = "running"
BY DEF T!Call, T!Return, T!Refuse, T!Enter, T!Begin, T!Succeed, T!Fail, T!Becomes

LEMMA Kept ==
  ASSUME OneActivity, IInv, NEW s \in Scans, NEW l \in Labels, Live(s), l # "unborn",
         spc' = [spc EXCEPT ![s] = l], UNCHANGED <<act, acts, view, result, scans, owner>>,
         task' \in [Scans -> T!TaskStates], \A r \in Scans : r # s => task'[r] = task[r],
         task'[s] # "idle" => l = "task", task'[s] = "done" \/ l = "parse" => content' = s
  PROVE  IInv'
<1>1. /\ Typed' /\ OneLive' /\ \A r \in Scans : r # s => ~Live(r) /\ ~Live(r)' /\ task'[r] = "idle"
      /\ spc'[s] = l /\ view[1] \in {"scanning", "gone"}
  BY Moves
<1>2. OwnContent'
  BY <1>1 DEF OwnContent, Live
<1>3. CacheIsShown'
  BY <1>1, One DEF CacheIsShown, IInv, Typed
<1> QED
  BY <1>1, <1>2, <1>3 DEF IInv

LEMMA TaskStep ==
  ASSUME OneActivity, IInv, NEW s \in Scans, Command(s) \/ TaskGoesOn(s) \/ TaskSettles(s) \/ TaskReturns(s)
  PROVE  IInv'
<1>0. /\ task \in [Scans -> T!TaskStates] /\ spc \in [Scans -> Labels]
      /\ (task[s] # "idle" => spc[s] = "task") /\ (task[s] = "done" => content = s)
      /\ {"idle", "called", "ready", "running", "done", "failed"} = T!TaskStates
  BY DEF IInv, Typed, OneLive, OwnContent, T!TaskStates
<1>1. CASE Command(s)
  <2>1. /\ spc[s] = "command" /\ task' = [task EXCEPT ![s] = "called"] /\ Goto(s, "task")
        /\ UNCHANGED <<act, acts, view, result, scans, owner>>
    BY <1>1, TaskStates DEF Command, activity
  <2>2. task' \in [Scans -> T!TaskStates] /\ task'[s] = "called"
    BY <1>0, <2>1
  <2> QED
    BY <1>0, <2>1, <2>2, Kept DEF Goto, Labels, Live
<1>2. CASE TaskGoesOn(s)
  BY <1>0, <1>2, TaskStates, Kept DEF TaskGoesOn, Labels, Live, activity, scanner
<1>3. CASE TaskSettles(s)
  BY <1>0, <1>3, TaskStates, Kept DEF TaskSettles, Labels, Live, activity, scanner
<1>4. CASE TaskReturns(s)
  <2>1. /\ spc[s] = "task" /\ task' = [task EXCEPT ![s] = "idle"]
        /\ UNCHANGED <<content, act, acts, view, result, scans, owner>>
        /\ Goto(s, "error") \/ (Goto(s, "parse") /\ task[s] = "done")
    BY <1>4, TaskStates DEF TaskReturns, activity
  <2> QED
    BY <1>0, <2>1, Kept DEF Goto, Labels, Live
<1> QED
  BY <1>1, <1>2, <1>3, <1>4

LEMMA PipelineStep ==
  ASSUME OneActivity, IInv, NEW s \in Scans, Start(s) \/ Probe(s) \/ Found(s) \/ NotFound(s)
  PROVE  IInv'
<1>1. \E l \in {"command", "report", "ended"} : Goto(s, l)
  BY DEF Start, Probe, Found, NotFound
<1>2. /\ spc[s] \in {"start", "parse", "error"}
      /\ UNCHANGED <<task, act, acts, view, result, scans, owner>>
  BY DEF Start, Probe, Found, NotFound, service, activity
<1>3. task \in [Scans -> T!TaskStates] /\ task[s] = "idle"
  BY <1>2 DEF IInv, Typed, OneLive
<1> QED
  BY <1>1, <1>2, <1>3, Kept DEF Goto, Labels, Live

LEMMA ReportStep ==
  ASSUME OneActivity, IInv, NEW s \in Scans, Report(s)
  PROVE  IInv'
<1>1. /\ spc[s] = "report" /\ Goto(s, "finally") /\ UNCHANGED <<task, act, acts, scans, owner, content>>
      /\ Live(s)
  BY DEF Report, service, Live
<1>2. owner[s] = 1 /\ acts = 1 /\ task[s] = "idle" /\ task \in [Scans -> T!TaskStates] /\ Acts = {1}
  BY <1>1, One DEF IInv, Typed, OneLive
<1>3. CASE view[1] = "gone"
  <2>1. UNCHANGED <<view, result>>
    BY <1>2, <1>3 DEF Report
  <2> QED
    BY <1>1, <1>2, <2>1, Kept DEF Goto, Labels
<1>4. CASE view[1] # "gone"
  <2>1. /\ view' \in [Acts -> {"none", "scanning", "found", "not_found", "gone"}]
        /\ view'[1] \in {"found", "not_found"}
        /\ result' \in [Acts -> 0..MaxScans]
        /\ view'[1] = "found" => infos' = result'[1]
    BY <1>2, <1>4 DEF Report, IInv, Typed, Scans
  <2>2. \A r \in Scans : ~Live(r)' /\ (r # s => spc'[r] = spc[r]) /\ task[r] = "idle" /\ spc'[r] # "parse"
    BY <1>1, <1>2 DEF IInv, Typed, OneLive, Live, Goto
  <2>3. spc' \in [Scans -> Labels] /\ spc'[s] = "finally" /\ ~(s > scans)
    BY <1>1 DEF IInv, Typed, OneLive, Goto, Labels
  <2>4. Typed'
    BY <1>1, <2>1, <2>3 DEF IInv, Typed
  <2>5. OneLive'
    BY <1>1, <1>2, <2>1, <2>2, <2>3 DEF IInv, OneLive
  <2>6. OwnContent'
    BY <1>1, <2>2 DEF OwnContent
  <2>7. CacheIsShown'
    BY <1>1, <1>2, <2>1 DEF CacheIsShown, IInv, Typed
  <2> QED
    BY <2>4, <2>5, <2>6, <2>7 DEF IInv
<1> QED
  BY <1>3, <1>4

LEMMA EndStep ==
  ASSUME OneActivity, IInv, NEW s \in Scans, End(s)
  PROVE  IInv'
<1>1. /\ spc[s] = "finally" /\ Goto(s, "ended")
      /\ UNCHANGED <<task, act, acts, view, result, scans, owner, content, infos>>
  BY DEF End, service, activity
<1>2. /\ spc' \in [Scans -> Labels] /\ spc'[s] = "ended" /\ \A r \in Scans : r # s => spc'[r] = spc[r]
      /\ task[s] = "idle" /\ ~(s > scans)
  BY <1>1 DEF IInv, Typed, OneLive, Goto, Labels
<1>3. \A r \in Scans : Live(r)' => Live(r)
  BY <1>2 DEF Live
<1>4. Typed'
  BY <1>1, <1>2 DEF IInv, Typed
<1>5. OneLive'
  BY <1>1, <1>2, <1>3 DEF IInv, OneLive
<1>6. OwnContent' /\ CacheIsShown'
  BY <1>1, <1>2 DEF IInv, OwnContent, CacheIsShown
<1> QED
  BY <1>4, <1>5, <1>6 DEF IInv

LEMMA Inductive ==
  ASSUME OneActivity
  PROVE  Spec => []IInv
<1>1. Init => IInv
  <2> SUFFICES ASSUME Init PROVE IInv
    OBVIOUS
  <2>1. Typed
    BY ScanAssumption DEF Init, T!ServiceInit, T!TaskStates, Typed, Labels
  <2> QED
    BY <2>1, One DEF Init, T!ServiceInit, IInv, OneLive, Live, OwnContent, CacheIsShown
<1>2. IInv /\ UNCHANGED vars => IInv'
  BY DEF IInv, Typed, OneLive, Live, OwnContent, CacheIsShown, vars, service, activity, scanner
<1>3. IInv /\ [Next]_vars => IInv'
  BY <1>2, StartStep, LeaveStep, TaskStep, PipelineStep, ReportStep, EndStep DEF Next, ScanStep
<1> QED
  BY <1>1, <1>3, PTL DEF Spec

\* The parser of each step reads the output of the command of its step, however often the
\* activity scans and is stopped.
THEOREM ParseCorrect ==
  ASSUME OneActivity
  PROVE  Spec => []ParsesOwnOutput
<1>1. IInv => ParsesOwnOutput
  BY DEF IInv, OwnContent, ParsesOwnOutput
<1> QED
  BY <1>1, Inductive, PTL

\* While the only activity shows a tag, the result cache holds that tag.
THEOREM CacheCorrect ==
  ASSUME OneActivity
  PROVE  Spec => []CacheIsShown
<1>1. IInv => CacheIsShown
  BY DEF IInv
<1> QED
  BY <1>1, Inductive, PTL
-----------------------------------------------------------------------------
(* The types, for any number of activities.                                *)

\* Whoever has a thread was started, for an activity and on a Scanner.
Born == \A s \in Scans : /\ spc[s] # "unborn" => s <= scans /\ owner[s] \in Acts /\ object[s] \in Scans
                         /\ task[s] # "idle" => spc[s] = "task"

TypeInv == TypeOK /\ Born

LEMMA Sizes == MaxScans \in Nat /\ MaxActs \in Nat /\ 1 \in Acts /\ 1 \in Scans
BY ScanAssumption DEF Acts, Scans

\* A scan is started for an activity that is there.
LEMMA StartTyped ==
  ASSUME TypeInv, Create \/ Rescan
  PROVE  TypeInv'
<1>1. PICK a \in Acts : /\ StartScan(a) /\ UNCHANGED result
                        /\ acts' \in 0..MaxActs /\ act' \in 0..acts' /\ acts' >= acts
  <2>0. acts \in 0..MaxActs /\ act \in 0..acts
    BY DEF TypeInv, TypeOK
  <2>1. CASE Create
    <3>1. acts + 1 \in Acts /\ acts + 1 \in 0..MaxActs /\ acts + 1 \in 0..(acts + 1)
      BY <2>0, <2>1, Sizes DEF Create, Acts
    <3> QED
      BY <2>0, <2>1, <3>1 DEF Create
  <2>2. CASE Rescan
    <3>1. act \in Acts
      BY <2>0, <2>2, Sizes DEF Rescan, Acts
    <3> QED
      BY <2>0, <2>2, <3>1, Sizes DEF Rescan
  <2> QED
    BY <2>1, <2>2
<1> DEFINE n == scans + 1
<1>2. n \in Scans /\ n \in 0..MaxScans /\ scans' = n /\ scans \in Nat /\ 0..scans \subseteq 0..n
  BY <1>1, Sizes DEF StartScan, TypeInv, TypeOK, Scans
<1>3. /\ owner' = [owner EXCEPT ![n] = a] /\ object' = [object EXCEPT ![n] = n]
      /\ spc' = [spc EXCEPT ![n] = "start"] /\ view' = [view EXCEPT ![a] = "scanning"]
      /\ busy' = [busy EXCEPT ![a] = TRUE]
      /\ UNCHANGED <<running, stopping, task, stopper, content, infos, scanning, step, extra, found>>
  BY <1>1 DEF StartScan, Goto, ScannerFor, service
<1>4. spc[n] = "unborn" /\ task[n] = "idle"
  BY <1>2 DEF TypeInv, Born
<1> HIDE DEF n
<1>5. TypeOK'
  <2>1. content' \in 0..scans' /\ infos' \in 0..scans'
    BY <1>2, <1>3 DEF TypeInv, TypeOK
  <2>2. /\ owner' \in [Scans -> 0..MaxActs] /\ object' \in [Scans -> 0..MaxScans]
        /\ view' \in [Acts -> {"none", "scanning", "found", "not_found", "gone"}]
        /\ busy' \in [Acts -> BOOLEAN] /\ result' \in [Acts -> 0..MaxScans]
    BY <1>1, <1>2, <1>3, Sizes DEF TypeInv, TypeOK, Acts
  <2>3. spc' \in [Scans -> {"unborn", "start", "command", "task", "parse", "error",
                            "report", "finally", "ended"}]
    BY <1>3 DEF TypeInv, TypeOK
  <2> QED
    BY <1>1, <1>2, <1>3, <2>1, <2>2, <2>3 DEF TypeInv, TypeOK
<1>6. Born'
  <2> SUFFICES ASSUME NEW s \in Scans
               PROVE  /\ spc'[s] # "unborn" => s <= scans' /\ owner'[s] \in Acts /\ object'[s] \in Scans
                      /\ task'[s] # "idle" => spc'[s] = "task"
    BY DEF Born
  <2>1. CASE s = n
    BY <1>2, <1>3, <1>4, <2>1 DEF TypeInv, TypeOK, Scans
  <2>2. CASE s # n
    <3>1. spc'[s] = spc[s] /\ owner'[s] = owner[s] /\ object'[s] = object[s]
      BY <1>3, <2>2 DEF TypeInv, TypeOK
    <3>2. s <= scans => s <= scans'
      BY <1>2 DEF n, Scans
    <3> QED
      BY <1>3, <3>1, <3>2 DEF TypeInv, Born
  <2> QED
    BY <2>1, <2>2
<1> QED
  BY <1>5, <1>6 DEF TypeInv

LEMMA LeaveTyped ==
  ASSUME TypeInv, Cancel \/ Finish
  PROVE  TypeInv'
<1>1. CASE Cancel
  BY <1>1 DEF Cancel, T!Stop, activity, scanner, TypeInv, TypeOK, Born
<1>2. CASE Finish
  <2>1. /\ view' = [view EXCEPT ![act] = "gone"] /\ act' = 0
        /\ UNCHANGED <<running, task, content, infos, acts, busy, result, scanner>>
        /\ stopping' \in BOOLEAN /\ stopper' \in {"idle", "wait"}
    BY <1>2 DEF Finish, T!StopReturns, service, TypeInv, TypeOK
  <2>2. view' \in [Acts -> {"none", "scanning", "found", "not_found", "gone"}] /\ act' \in 0..acts'
    <3>1. acts \in Nat /\ acts' = acts /\ act' = 0
      BY <2>1, Sizes DEF TypeInv, TypeOK
    <3>2. view' \in [Acts -> {"none", "scanning", "found", "not_found", "gone"}]
      BY <2>1 DEF TypeInv, TypeOK
    <3> QED
      BY <3>1, <3>2
  <2>3. TypeOK'
    BY <2>1, <2>2 DEF scanner, TypeInv, TypeOK
  <2> QED
    BY <2>1, <2>3 DEF scanner, TypeInv, Born
<1> QED
  BY <1>1, <1>2

\* A step of a scan that is no start: what it may change besides its place.
LEMMA MovesTyped ==
  ASSUME TypeInv, NEW s \in Scans, NEW l \in Labels, spc[s] # "unborn", l # "unborn",
         spc' = [spc EXCEPT ![s] = l], UNCHANGED <<act, acts, scans, owner, object, stopping, stopper>>,
         running' \in BOOLEAN,
         content' \in {content, s}, infos' \in {infos, s},
         view' \in [Acts -> {"none", "scanning", "found", "not_found", "gone"}],
         busy' \in [Acts -> BOOLEAN], result' \in [Acts -> 0..MaxScans],
         scanning' \in [Scans -> BOOLEAN], step' \in [Scans -> 1..6],
         extra' \in [Scans -> BOOLEAN], found' \in [Scans -> BOOLEAN],
         task' \in [Scans -> T!TaskStates], \A r \in Scans : r # s => task'[r] = task[r],
         task'[s] # "idle" => l = "task"
  PROVE  TypeInv'
<1>1. s \in 0..scans
  BY DEF TypeInv, TypeOK, Born, Scans
<1>2. TypeOK'
  BY <1>1 DEF TypeInv, TypeOK, Labels
<1>3. spc'[s] = l /\ \A r \in Scans : r # s => spc'[r] = spc[r]
  BY DEF TypeInv, TypeOK
<1>4. Born'
  BY <1>3 DEF TypeInv, Born
<1> QED
  BY <1>2, <1>4 DEF TypeInv

LEMMA ThreadTyped ==
  ASSUME TypeInv, NEW s \in Scans, ScanStep(s)
  PROVE  TypeInv'
<1>0. /\ view \in [Acts -> {"none", "scanning", "found", "not_found", "gone"}]
      /\ busy \in [Acts -> BOOLEAN] /\ result \in [Acts -> 0..MaxScans] /\ running \in BOOLEAN
      /\ scanning \in [Scans -> BOOLEAN] /\ step \in [Scans -> 1..6]
      /\ extra \in [Scans -> BOOLEAN] /\ found \in [Scans -> BOOLEAN]
      /\ task \in [Scans -> T!TaskStates] /\ spc \in [Scans -> Labels]
      /\ (task[s] # "idle" => spc[s] = "task")
      /\ T!TaskStates = {"idle", "called", "ready", "running", "done", "failed"}
  BY DEF TypeInv, TypeOK, Born, Labels, T!TaskStates
<1>1. CASE Start(s)
  <2>1. /\ \E l \in {"command", "ended"} : Goto(s, l)
        /\ scanning' \in [Scans -> BOOLEAN] /\ spc[s] = "start"
        /\ UNCHANGED <<service, content, infos, activity, scans, owner, object, step, extra, found>>
    BY <1>0, <1>1 DEF Start
  <2> QED
    BY <1>0, <2>1, MovesTyped DEF Goto, Labels, service, activity
<1>2. CASE Command(s)
  <2>1. /\ spc[s] = "command" /\ task' = [task EXCEPT ![s] = "called"] /\ UNCHANGED <<running, stopping, stopper>>
    BY <1>2 DEF Command, T!Call, T!Becomes
  <2>2. task' \in [Scans -> T!TaskStates] /\ \A r \in Scans : r # s => task'[r] = task[r]
    BY <1>0, <2>1
  <2> QED
    BY <1>0, <1>2, <2>1, <2>2, MovesTyped DEF Command, Goto, Labels, activity
<1>3. CASE TaskGoesOn(s) \/ TaskSettles(s)
  <2>1. PICK b \in {"ready", "running", "done", "failed"} : task' = [task EXCEPT ![s] = b]
    BY <1>3 DEF TaskGoesOn, TaskSettles, T!Enter, T!Begin, T!Succeed, T!Fail, T!Becomes
  <2>2. /\ task[s] # "idle" /\ running' \in BOOLEAN /\ UNCHANGED <<stopping, stopper>>
    BY <1>0, <1>3 DEF TaskGoesOn, TaskSettles, T!Enter, T!Begin, T!Succeed, T!Fail
  <2>3. task' \in [Scans -> T!TaskStates] /\ \A r \in Scans : r # s => task'[r] = task[r]
    BY <1>0, <2>1
  <2>4. /\ content' \in {content, s}
        /\ UNCHANGED <<infos, act, acts, view, busy, result, scans, owner, object, scanning, spc, step,
                       extra, found>>
    BY <1>3 DEF TaskGoesOn, TaskSettles, activity, scanner
  <2>5. spc[s] = "task" /\ spc' = [spc EXCEPT ![s] = "task"]
    BY <1>0, <2>2, <2>4
  <2> QED
    BY <1>0, <2>2, <2>3, <2>4, <2>5, MovesTyped DEF Labels
<1>4. CASE TaskReturns(s)
  <2>1. /\ spc[s] = "task" /\ task' = [task EXCEPT ![s] = "idle"] /\ running' \in BOOLEAN
        /\ UNCHANGED <<stopping, stopper>> /\ \E l \in {"parse", "error"} : Goto(s, l)
    BY <1>0, <1>4 DEF TaskReturns, T!Return, T!Refuse, T!Becomes
  <2>2. task' \in [Scans -> T!TaskStates] /\ task'[s] = "idle" /\ \A r \in Scans : r # s => task'[r] = task[r]
    BY <1>0, <2>1
  <2>3. UNCHANGED <<content, infos, act, acts, view, busy, result, scans, owner, object, scanning, step,
                    extra, found>>
    BY <1>4 DEF TaskReturns, activity
  <2> QED
    BY <1>0, <2>1, <2>2, <2>3, MovesTyped DEF Goto, Labels
<1>5. CASE Probe(s)
  BY <1>0, <1>5, MovesTyped DEF Probe, Goto, Labels, service, activity
<1>6. CASE Found(s)
  BY <1>0, <1>6, MovesTyped DEF Found, Goto, Labels, service, activity
<1>7. CASE NotFound(s)
  <2>1. Here(s) # "felica" => step[s] + 1 \in 1..6
    BY <1>0 DEF Here, Pipeline
  <2>2. /\ step' \in [Scans -> 1..6] /\ extra' \in [Scans -> BOOLEAN]
        /\ \E l \in {"report", "command"} : Goto(s, l)
    BY <1>0, <1>7, <2>1 DEF NotFound
  <2> QED
    BY <1>0, <1>7, <2>2, MovesTyped DEF NotFound, Goto, Labels, service, activity
<1>8. CASE Report(s)
  <2>1. spc[s] = "report" /\ s \in 0..MaxScans /\ Goto(s, "finally")
    BY <1>8, Sizes DEF Report, Scans
  <2>2. /\ view' \in [Acts -> {"none", "scanning", "found", "not_found", "gone"}]
        /\ busy' \in [Acts -> BOOLEAN] /\ result' \in [Acts -> 0..MaxScans] /\ infos' \in {infos, s}
    BY <1>0, <1>8, <2>1 DEF Report
  <2> QED
    BY <1>0, <1>8, <2>1, <2>2, MovesTyped DEF Report, Goto, Labels, service
<1>9. CASE End(s)
  BY <1>0, <1>9, MovesTyped DEF End, Goto, Labels, service, activity
<1> QED
  BY <1>1, <1>2, <1>3, <1>4, <1>5, <1>6, <1>7, <1>8, <1>9 DEF ScanStep

\* However many activities scan, every variable stays in its range: no step past the end
\* of the pipeline, and no result of a scan that was not started.
THEOREM TypeCorrect == Spec => []TypeOK
<1>1. Init => TypeInv
  <2> SUFFICES ASSUME Init PROVE TypeInv
    OBVIOUS
  <2>1. scans = 0 /\ acts = 0 /\ act = 0 /\ content = 0 /\ infos = 0 /\ 0 \in 0..0
    BY DEF Init
  <2>2. 0 \in 0..MaxActs /\ 0 \in 0..MaxScans
    BY Sizes
  <2>3. TypeOK
    <3>1. /\ running \in BOOLEAN /\ stopping \in BOOLEAN
          /\ task \in [Scans -> T!TaskStates] /\ stopper \in {"idle", "wait"}
      BY DEF Init, T!ServiceInit, T!TaskStates
    <3>2. /\ view \in [Acts -> {"none", "scanning", "found", "not_found", "gone"}]
          /\ busy \in [Acts -> BOOLEAN] /\ result \in [Acts -> 0..MaxScans]
      BY <2>2 DEF Init
    <3>3. /\ owner \in [Scans -> 0..MaxActs] /\ object \in [Scans -> 0..MaxScans]
          /\ scanning \in [Scans -> BOOLEAN] /\ step \in [Scans -> 1..6]
          /\ extra \in [Scans -> BOOLEAN] /\ found \in [Scans -> BOOLEAN]
      BY <2>2 DEF Init
    <3>4. spc \in [Scans -> {"unborn", "start", "command", "task", "parse", "error",
                             "report", "finally", "ended"}]
      BY DEF Init
    <3> QED
      BY <2>1, <2>2, <3>1, <3>2, <3>3, <3>4 DEF TypeOK
  <2>4. Born
    BY DEF Init, T!ServiceInit, Born
  <2> QED
    BY <2>3, <2>4 DEF TypeInv
<1>2. TypeInv /\ UNCHANGED vars => TypeInv'
  BY DEF TypeInv, TypeOK, Born, vars, service, activity, scanner
<1>3. TypeInv /\ [Next]_vars => TypeInv'
  BY <1>2, StartTyped, LeaveTyped, ThreadTyped DEF Next
<1>4. TypeInv => TypeOK
  BY DEF TypeInv
<1> QED
  BY <1>1, <1>3, <1>4, PTL DEF Spec
=============================================================================
