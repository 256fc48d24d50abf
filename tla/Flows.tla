------------------------------- MODULE Flows -------------------------------
(***************************************************************************)
(* A user reads, copies and writes tags: Read Tag and Auto Copy are opened *)
(* one after the other from the menu, and share the scan cache.            *)
(***************************************************************************)
EXTENDS ReadFlow, CopyFlow

Next ==
  \/ \E flow \in {"read", "copy"} : Open(flow)
  \/ ReadNext \/ CopyNext
  \/ StrayScan \/ ConfirmWrite \/ WriteKey \/ WritePwr \/ WriteThread \/ WriteComplete
  \/ CloseOther \/ LeftEnds

Spec == FlowInit /\ [][Next]_flowVars

\* Threads run, and the event loop handles what was posted; keys come or not.
FairSpec == Spec /\ WF_flowVars(ReadThreads \/ CopyThreads)
                 /\ WF_flowVars(WriteThread \/ WriteComplete)

-----------------------------------------------------------------------------
\* Threads may open a warning over another one, as many as there are readers.
TypeOK ==
  /\ act \in {"menu", "read", "copy"}
  /\ above \in Seq({"m1", "confirm", "write", "other"})
  /\ a.state \in {"idle", "scanning", "reading", "success", "failed", "no_tag", "no_key",
                  "scan_failed", "wrong_type"}
  /\ a.buttons \in Buttons /\ a.pending \in Shown
  /\ a.reader \in 0..MaxReads /\ a.bundle \in 0..MaxScans
  /\ cache \in 0..nscan /\ scans \union strays \subseteq 1..nscan
  /\ left \subseteq {"read", "write"} /\ raced \in BOOLEAN /\ crowded \in BOOLEAN

\* What is written to the empty tag was read with the very scan result that
\* tells how to write it, unless a race let another result in: WriteActivity
\* takes its infos from the scan cache and its bundle from the flow.
WrittenIsRead ==
  ~raced /\ w.bundle # 0 => w.infos = w.bundle

\* At most one scan, read, write or verification of the open activities is under
\* way; and of all that run, those that PWR has left included, there is at most
\* one until the user begins another beside one that was left.
Jobs == Cardinality(scans) + Cardinality(Running) + (IF WriteBusy THEN 1 ELSE 0)
Left == Cardinality(strays) + Cardinality(left)
OneJob == ~raced => Jobs <= 1 /\ (~crowded => Jobs + Left <= 1)

\* At rest the buttons are those of the result, so that a user can go on: a
\* result is neither lost behind the console nor drawn over by another.  The
\* missing keys warning leaves a flow without buttons, see RescanOffered.
Offered(state) == IF state = "success" THEN "write"
                  ELSE IF state = "failed" THEN "failed"
                  ELSE IF state \in {"no_tag", "scan_failed", "wrong_type"} THEN "rescan"
                  ELSE "none"
AtRest == /\ act # "menu" /\ above = <<>> /\ ~a.console /\ a.posts = {} /\ scans = {}
          /\ \A i \in 1..MaxReads : reads[i].st = "over" /\ reads[i].defer = "none"
ScreenFits == ~raced /\ AtRest =>
                /\ a.state \in {"success", "failed", "no_tag", "scan_failed", "wrong_type", "no_key"}
                /\ a.buttons = Offered(a.state)

\* "Scanning...", "Reading...", "Writing..." and "Verifying..." come to an end,
\* races or not: keys but PWR are off until then.
BusyEnds ==
  /\ (a.state \in {"scanning", "reading"}) ~> (a.state \notin {"scanning", "reading"})
  /\ WriteBusy ~> ~WriteBusy

-----------------------------------------------------------------------------
(* What the source says and the code does not do.                          *)

\* activity_main.py:5426: "Scan phase or scan-fail state: M1/M2/OK all ->
\* rescan".  A tag that was found and then not read as any type has the buttons
\* of the scan-fail state and the keys of none.
RescanOffered ==
  KeysOf("copy") /\ ~a.console /\ a.buttons = "rescan" /\ nscan < MaxScans /\ Calm
    => ENABLED CopyRescan

\* activity_main.py:4714, "stop PM3 before finishing.  Without this, a
\* long-running fchk/wrbl keeps the PM3 busy after exit and contaminates the
\* pipeline for subsequent commands".
NothingLeft == Jobs = 1 => Left = 0
=============================================================================
