-------------------------------- MODULE Scan --------------------------------
(***************************************************************************)
(* ScanActivity (lib/activity_main.py) and Scanner (middleware/scan.py):   *)
(* an activity scans as soon as it is created and again on request; each   *)
(* scan is a Scanner with a thread of its own, which runs the commands of  *)
(* the pipeline one after the other and calls the activity back.  The Tk   *)
(* thread runs the keys; stopPM3Task blocks it.                            *)
(***************************************************************************)
EXTENDS Naturals

CONSTANTS
  MaxScans,  \* bound on the Scanners ever created
  MaxActs    \* bound on the ScanActivities ever created

ASSUME ScanAssumption == MaxScans \in Nat \ {0} /\ MaxActs \in Nat \ {0}

Scans == 1..MaxScans
Acts  == 1..MaxActs

VARIABLES
  running, stopping, task, stopper,   \* see TaskService
  content,    \* whose output is in CONTENT_OUT_IN__TXT_CACHE, 0 for nobody
  infos,      \* scan.INFOS: the scan that set it, 0 is None
  act,        \* the ScanActivity on the stack, 0 if another activity is
  acts,       \* activities created
  view,       \* ScanActivity._state, "gone" after finish
  busy,       \* _is_busy
  result,     \* _scan_cache: the scan whose result is shown, 0 is None
  scans,      \* Scanners created
  owner,      \* the activity of each
  object,     \* the Scanner object each thread runs on
  scanning,   \* Scanner._scan_running
  spc,        \* control point of the scan threads
  step,       \* their place in the pipeline
  extra,      \* the step has run a second command
  found       \* they have found a tag

service  == <<running, stopping, task, stopper>>
activity == <<act, acts, view, busy, result>>
scanner  == <<scans, owner, object, scanning, spc, step, extra, found>>
vars == <<service, content, infos, activity, scanner>>

T == INSTANCE TaskService WITH Threads <- Scans

Pipeline == <<"14a", "lfsea", "hfsea", "t55xx", "em4x05", "felica">>

\* The steps where a command that fails ends the scan: createExecTimeout.
Fatal == {"14a", "lfsea", "felica"}

\* The steps that may run a second command on what the first found, and those
\* that then report the tag whatever it gives.
Probing   == {"14a", "hfsea", "t55xx", "em4x05"}
Tolerant  == {"14a", "hfsea"}

Init ==
  /\ T!ServiceInit
  /\ content = 0 /\ infos = 0
  /\ act = 0 /\ acts = 0
  /\ view = [a \in Acts |-> "none"]
  /\ busy = [a \in Acts |-> FALSE]
  /\ result = [a \in Acts |-> 0]
  /\ scans = 0
  /\ owner = [s \in Scans |-> 0]
  /\ object = [s \in Scans |-> 0]
  /\ scanning = [o \in Scans |-> FALSE]
  /\ spc = [s \in Scans |-> "unborn"]
  /\ step = [s \in Scans |-> 1]
  /\ extra = [s \in Scans |-> FALSE]
  /\ found = [s \in Scans |-> FALSE]

Goto(s, label) == spc' = [spc EXCEPT ![s] = label]

-----------------------------------------------------------------------------
(* The activity, on the Tk thread, which runs keys unless it waits in      *)
(* stopPM3Task.                                                            *)

TkFree == stopper = "idle"

\* As ScannerFor, but the activity keeps one Scanner for all its scans.
ScannerFor_Kept(a, s) ==
  IF \E r \in Scans : r < s /\ owner[r] = a
  THEN CHOOSE r \in Scans : owner[r] = a /\ \A q \in Scans : owner[q] = a => r <= q
  ELSE s

\* A new Scanner for every scan.
ScannerFor(a, s) == s

\* _startScan.
StartScan(a) ==
  LET s == scans + 1 IN
  /\ scans < MaxScans
  /\ scans' = s
  /\ owner' = [owner EXCEPT ![s] = a]
  /\ object' = [object EXCEPT ![s] = ScannerFor(a, s)]
  /\ Goto(s, "start")
  /\ view' = [view EXCEPT ![a] = "scanning"]
  /\ busy' = [busy EXCEPT ![a] = TRUE]
  /\ UNCHANGED <<service, content, infos, scanning, step, extra, found>>

Create ==
  /\ TkFree /\ act = 0 /\ acts < MaxActs
  /\ acts' = acts + 1 /\ act' = acts + 1
  /\ StartScan(acts + 1)
  /\ UNCHANGED result

\* As Rescan, but the keys are not ignored while a scan runs.
Rescan_Anytime ==
  /\ TkFree /\ act # 0
  /\ StartScan(act)
  /\ UNCHANGED <<act, acts, result>>

Rescan ==
  /\ TkFree /\ act # 0 /\ view[act] # "scanning"
  /\ StartScan(act)
  /\ UNCHANGED <<act, acts, result>>

\* PWR: "cancel scan, exit activity": stopPM3Task() first, if it scans.
Cancel ==
  /\ TkFree /\ act # 0 /\ view[act] = "scanning"
  /\ T!Stop("wait")
  /\ UNCHANGED <<content, infos, activity, scanner>>

Finish ==
  /\ act # 0
  /\ \/ T!StopReturns
     \/ TkFree /\ view[act] # "scanning" /\ UNCHANGED service
  /\ view' = [view EXCEPT ![act] = "gone"]
  /\ act' = 0
  /\ UNCHANGED <<content, infos, acts, busy, result, scanner>>

-----------------------------------------------------------------------------
(* The scan thread.                                                        *)

\* _raise_on_multi_scan and _set_run_label; raised here, the exception ends
\* the thread.
Start(s) ==
  /\ spc[s] = "start"
  /\ \/ /\ ~scanning[object[s]]
        /\ scanning' = [scanning EXCEPT ![object[s]] = TRUE]
        /\ Goto(s, "command")
     \/ /\ scanning[object[s]]
        /\ Goto(s, "ended")
        /\ UNCHANGED scanning
  /\ UNCHANGED <<service, content, infos, activity, scans, owner, object, step, extra, found>>

Command(s) ==
  /\ spc[s] = "command"
  /\ T!Call(s)
  /\ Goto(s, "task")
  /\ UNCHANGED <<content, infos, activity, scans, owner, object, scanning, step, extra, found>>

\* The executor at work: the output goes to the cache of the module.
TaskGoesOn(s) ==
  /\ T!Enter(s) \/ T!Begin(s)
  /\ UNCHANGED <<content, infos, activity, scanner>>

TaskSettles(s) ==
  /\ T!Succeed(s) \/ T!Fail(s)
  /\ content' = s
  /\ UNCHANGED <<infos, activity, scanner>>

\* startPM3Task returns 1 or -1.
TaskReturns(s) ==
  /\ spc[s] = "task"
  /\ \/ task[s] = "done" /\ T!Return(s) /\ Goto(s, "parse")
     \/ task[s] = "failed" /\ T!Return(s) /\ Goto(s, "error")
     \/ T!Refuse(s) /\ Goto(s, "error")
  /\ UNCHANGED <<content, infos, activity, scans, owner, object, scanning, step, extra, found>>

Here(s) == Pipeline[step[s]]

\* The output calls for a second command.
Probe(s) ==
  /\ spc[s] = "parse" /\ Here(s) \in Probing /\ ~extra[s]
  /\ extra' = [extra EXCEPT ![s] = TRUE]
  /\ Goto(s, "command")
  /\ UNCHANGED <<service, content, infos, activity, scans, owner, object, scanning, step, found>>

\* The step reports a tag whatever its second command gives.
Certain(s) == extra[s] /\ Here(s) \in Tolerant

\* A tag: INFOS is set.
Found(s) ==
  /\ spc[s] = "parse" \/ (spc[s] = "error" /\ Certain(s))
  /\ found' = [found EXCEPT ![s] = TRUE]
  /\ infos' = s
  /\ Goto(s, "report")
  /\ UNCHANGED <<service, content, activity, scans, owner, object, scanning, step, extra>>

\* No tag: the next step, or the end of the scan.
NotFound(s) ==
  /\ spc[s] \in {"parse", "error"} /\ ~Certain(s)
  /\ IF (spc[s] = "error" /\ Here(s) \in Fatal) \/ Here(s) = "felica"
     THEN Goto(s, "report") /\ UNCHANGED <<step, extra>>
     ELSE /\ Goto(s, "command")
          /\ step' = [step EXCEPT ![s] = @ + 1]
          /\ extra' = [extra EXCEPT ![s] = FALSE]
  /\ UNCHANGED <<service, content, infos, activity, scans, owner, object, scanning, found>>

\* onScanFinish; on the canvas of a finished activity it raises before it
\* comes to the result.
Report(s) ==
  LET a == owner[s] IN
  /\ spc[s] = "report"
  /\ busy' = [busy EXCEPT ![a] = FALSE]
  /\ IF view[a] = "gone" THEN UNCHANGED <<view, result, infos>>
     ELSE IF found[s]
     THEN /\ view' = [view EXCEPT ![a] = "found"]
          /\ result' = [result EXCEPT ![a] = s]
          /\ infos' = s
     ELSE view' = [view EXCEPT ![a] = "not_found"] /\ UNCHANGED <<result, infos>>
  /\ Goto(s, "finally")
  /\ UNCHANGED <<service, content, act, acts, scans, owner, object, scanning, step, extra, found>>

\* finally: _set_run_label(False).
End(s) ==
  /\ spc[s] = "finally"
  /\ scanning' = [scanning EXCEPT ![object[s]] = FALSE]
  /\ Goto(s, "ended")
  /\ UNCHANGED <<service, content, infos, activity, scans, owner, object, step, extra, found>>

ScanStep(s) ==
  \/ Start(s) \/ Command(s) \/ TaskGoesOn(s) \/ TaskSettles(s) \/ TaskReturns(s)
  \/ Probe(s) \/ Found(s) \/ NotFound(s) \/ Report(s) \/ End(s)

Next == Create \/ Rescan \/ Cancel \/ Finish \/ \E s \in Scans : ScanStep(s)

Spec == Init /\ [][Next]_vars

\* Scan threads run, their commands have timeouts, and stopPM3Task returns.
FairSpec == /\ Spec
            /\ \A s \in Scans : WF_vars(ScanStep(s))
            /\ WF_vars(stopper # "idle" /\ Finish)

-----------------------------------------------------------------------------
(* Properties.                                                             *)

TypeOK ==
  /\ running \in BOOLEAN /\ stopping \in BOOLEAN
  /\ task \in [Scans -> T!TaskStates] /\ stopper \in {"idle", "wait"}
  /\ content \in 0..scans /\ infos \in 0..scans
  /\ acts \in 0..MaxActs /\ act \in 0..acts
  /\ view \in [Acts -> {"none", "scanning", "found", "not_found", "gone"}]
  /\ busy \in [Acts -> BOOLEAN] /\ result \in [Acts -> 0..MaxScans]
  /\ scans \in 0..MaxScans
  /\ owner \in [Scans -> 0..MaxActs] /\ object \in [Scans -> 0..MaxScans]
  /\ scanning \in [Scans -> BOOLEAN]
  /\ spc \in [Scans -> {"unborn", "start", "command", "task", "parse", "error",
                        "report", "finally", "ended"}]
  /\ step \in [Scans -> 1..6] /\ extra \in [Scans -> BOOLEAN]
  /\ found \in [Scans -> BOOLEAN]

\* Each parser reads the output of its own command: nothing runs between the
\* end of startPM3Task and the parser of the same step.
ParsesOwnOutput == \A s \in Scans : spc[s] = "parse" => content = s

\* "Store scan result for use by downstream activities": what they take from
\* scan.getScanCache() is the tag on the screen.  A second activity breaks it.
CacheIsShown == act # 0 /\ view[act] = "found" => infos = result[act]

\* A scan that was started is reported, found or not, or its activity left:
\* the screen never stays at "Scanning...".
ScanReported == \A a \in Acts : view[a] = "scanning" ~> view[a] # "scanning"

-----------------------------------------------------------------------------
(* What the source says and the code does not do.                          *)

\* "SCANNING state: PWR = cancel scan, exit activity": the scan of an activity
\* that was left sends no further command.
CancelEndsScan ==
  [][\A s \in Scans : Command(s) => view[owner[s]] # "gone"]_vars

InPipeline(s) == spc[s] \in {"command", "task", "parse", "error"}

\* "Raise if a scan is already running": one scan at a time on the device.
OneScan == \A r, s \in Scans :
  InPipeline(r) /\ InPipeline(s) => r = s
=============================================================================
