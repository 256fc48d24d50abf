---------------------------- MODULE Maintenance ----------------------------
(***************************************************************************)
(* Installing a new application package (UpdateActivity, update.py,        *)
(* install.py) and flashing the Proxmark3 (FWUpdateActivity, pm3_flash.py, *)
(* the version check application.py starts after boot), with the service   *)
(* restarts and power cuts that may come between any two steps.            *)
(*                                                                         *)
(* A tree of files is "none", "part" (some of its files) or the version of *)
(* the application it holds; a firmware is a version or "part", half       *)
(* written, which answers nothing.  An application ships the firmware of   *)
(* its version or none.  Trees are copied and removed file by file, and    *)
(* both may fail or be cut in the middle.                                  *)
(***************************************************************************)
EXTENDS Naturals, Sequences

CONSTANTS MaxCuts,      \* power cuts in a behaviour
          MaxFaults     \* file errors and failed flash commands in a behaviour
ASSUME BoundsAssumption == MaxCuts \in Nat /\ MaxFaults \in Nat

VARIABLES
  card,    \* the newest package on the user partition
  tmp, unpkg, new, main,   \* /tmp/.ipk/unpkg, ~/unpkg, ~/ipk_app_new, ~/ipk_app_main
  py,      \* the extracted tree holds main/install.py
  again,   \* _fallback_install runs, in place of install_app
  torn,    \* history: of tmp or new a removal or an extraction has left a part
  ships,   \* the versions whose application ships firmware
  pm3,     \* firmware in the Proxmark3
  up,      \* icopy.service runs
  stack,   \* activities, the last on top; "main" stands for all others
  upd, inst, told,  \* UpdateActivity's state, its thread's step, the result posted
  fw, page, flash, verdict,  \* FWUpdateActivity's state and page, its thread, the result posted
  probe,   \* the version check of this boot
  cuts, faults
stages == <<tmp, unpkg, new, torn>>
files == <<card, stages, main, py, ships>>
update == <<upd, inst, told, again>>
flasher == <<fw, page, flash, verdict>>
vars == <<files, pm3, up, stack, update, flasher, probe, cuts, faults>>

Tree == {"none", "part", "old", "new"}
Busy == {"searching", "installing"}
Top == stack[Len(stack)]
Pop == SubSeq(stack, 1, Len(stack) - 1)
Fault == faults < MaxFaults /\ faults' = faults + 1

TypeOK ==
  /\ card \in {"none", "invalid", "damaged", "good"}
  /\ tmp \in Tree /\ unpkg \in Tree /\ new \in Tree /\ main \in Tree \ {"none"}
  /\ pm3 \in {"old", "new", "part"} /\ {py, up, again, torn} \subseteq BOOLEAN
  /\ ships \subseteq {"old", "new"}
  /\ stack \in {<<"main">>, <<"main", "update">>, <<"main", "fw">>, <<"main", "update", "fw">>}
  /\ upd \in {"ready", "done"} \union Busy /\ told \in {"none", "ok", "fail"}
  /\ inst \in {"idle", "search", "check", "unpkg", "assets", "clean", "move", "rename",
               "permission", "restart", "end"}
  /\ fw \in {"info", "preflash", "flashing", "done"} /\ page \in 0..2
  /\ flash \in {"idle", "locate", "kill", "verify", "write", "restartpm3"}
  /\ verdict \in {"none", "ok", "fail"}
  /\ probe \in {"probing", "flash", "fine", "raised", "over"}
  /\ cuts \in 0..MaxCuts /\ faults \in 0..MaxFaults

\* Nothing of the process survives its end.
Fresh == /\ stack = <<"main">>
         /\ upd = "ready" /\ inst = "idle" /\ told = "none" /\ again = FALSE
         /\ fw = "info" /\ page = 0 /\ flash = "idle" /\ verdict = "none"
         /\ probe = "probing"
Init ==
  /\ card \in {"none", "invalid", "damaged", "good"}
  /\ tmp = "none" /\ unpkg = "none" /\ new = "none" /\ main = "old"
  /\ py = FALSE /\ pm3 = "old" /\ up = TRUE /\ Fresh
  /\ torn = FALSE /\ ships \in SUBSET {"old", "new"}
  /\ cuts = 0 /\ faults = 0
--------------------------------------------------------------------------
\* UpdateActivity: the key that opens it, Start, Back or OK.
OpenUpdate == /\ up /\ Top = "main" /\ stack' = Append(stack, "update")
              /\ upd' = "ready" /\ told' = "none"
              /\ UNCHANGED <<files, pm3, up, inst, again, flasher, probe, cuts, faults>>
StartInstall == /\ up /\ Top = "update" /\ upd = "ready"
                /\ upd' = "searching" /\ inst' = "search" /\ again' = FALSE
                /\ UNCHANGED <<files, pm3, up, stack, told, flasher, probe, cuts, faults>>
LeaveUpdate == /\ up /\ Top = "update" /\ upd \notin Busy
               /\ stack' = Pop
               /\ UNCHANGED <<files, pm3, up, update, flasher, probe, cuts, faults>>
\* _onInstallComplete, posted to the Tk thread by _ui_complete.
InstallComplete == /\ up /\ told # "none" /\ upd \in Busy
                   /\ upd' = "done"
                   /\ UNCHANGED <<files, pm3, up, stack, inst, told, again, flasher, probe, cuts, faults>>

\* The install thread.  told' posts the result and ends the thread.
Thread(from) == up /\ inst = from /\ UNCHANGED <<card, main, pm3, up, stack, flasher, probe, cuts, ships>>
Report(result) == told' = result /\ inst' = "idle" /\ UNCHANGED again
Step(to) == inst' = to /\ UNCHANGED <<told, again>>
Search_Silent == /\ Thread("search") /\ UNCHANGED <<told, again>>
                 /\ inst' = IF card = "none" THEN "idle" ELSE "check"
                 /\ UNCHANGED <<stages, py, upd, faults>>
Search == /\ Thread("search")
          /\ IF card = "none" THEN Report("fail") ELSE Step("check")
          /\ UNCHANGED <<stages, py, upd, faults>>
CheckPkg == /\ Thread("check")
            /\ IF card = "invalid" THEN Report("fail") ELSE Step("unpkg")
            /\ UNCHANGED <<stages, py, upd, faults>>
\* checkPkg reads the names only; unpkg's result is not looked at, be it that the
\* package is damaged, or that rmtree or a write fails.
Unpkg == /\ Thread("unpkg") /\ upd' = "installing" /\ Step("assets")
         /\ \/ card = "good" /\ tmp' = "new" /\ py' = TRUE /\ UNCHANGED <<torn, faults>>
            \/ card = "damaged" /\ tmp' = "part" /\ py' \in BOOLEAN /\ UNCHANGED <<torn, faults>>
            \/ tmp' = "part" /\ py' \in BOOLEAN /\ torn' = TRUE /\ Fault
            \/ tmp' = "none" /\ py' = FALSE /\ UNCHANGED torn /\ Fault
         /\ UNCHANGED <<unpkg, new>>
\* An exception in install.py: update.install goes on to _fallback_install.  Its False
\* is not looked at either, and it restarts nothing.
Raised == IF again THEN Step("end") ELSE inst' = "clean" /\ again' = TRUE /\ UNCHANGED told
\* install.py's install_font and install_lua_dep; a font may fail to be copied.
Assets == /\ Thread("assets")
          /\ \/ py /\ Step("clean") /\ UNCHANGED faults
             \/ ~py /\ Raised /\ UNCHANGED faults
             \/ py /\ Raised /\ Fault
          /\ UNCHANGED <<stages, py, upd>>
\* What is left when a removal, or a move - a copy, then a removal - ends midway.
HalfCleaned == \/ unpkg # "none" /\ unpkg' = "part" /\ UNCHANGED <<tmp, new, torn>>
               \/ /\ unpkg' = "none" /\ new # "none" /\ new' \in {new, "part"}
                  /\ torn' = (torn \/ new' = "part") /\ UNCHANGED tmp
HalfMoved == /\ tmp # "none" /\ UNCHANGED new
             /\ \/ unpkg' = "part" /\ UNCHANGED <<tmp, torn>>
                \/ unpkg = "none" /\ unpkg' = tmp /\ tmp' = "part" /\ torn' = TRUE
CleanStage_NewOnly == new' = "none" /\ UNCHANGED unpkg
\* install_app and _fallback_install: rmtree both, move the tree, rename.
CleanStage == unpkg' = "none" /\ new' = "none"
Clean == /\ Thread("clean") /\ UNCHANGED <<py, upd>>
         /\ \/ CleanStage /\ UNCHANGED <<tmp, torn, faults>> /\ Step("move")
            \/ HalfCleaned /\ Raised /\ Fault
Moved == unpkg' = (IF unpkg = "none" THEN tmp ELSE unpkg)
Move == /\ Thread("move") /\ UNCHANGED <<py, upd>>
        /\ \/ tmp # "none" /\ Moved /\ tmp' = "none" /\ Step("rename") /\ UNCHANGED <<new, torn, faults>>
           \/ tmp = "none" /\ Raised /\ UNCHANGED <<stages, faults>>
           \/ HalfMoved /\ Raised /\ Fault
Rename == /\ Thread("rename") /\ new' = unpkg /\ unpkg' = "none"
          /\ Step(IF again THEN "end" ELSE "permission")
          /\ UNCHANGED <<tmp, torn, py, upd, faults>>
\* A file that cannot be removed raises.
Permission == /\ Thread("permission")
              /\ (Step("restart") /\ UNCHANGED faults) \/ (Raised /\ Fault)
              /\ UNCHANGED <<stages, py, upd>>
EndInstall == /\ Thread("end") /\ Report("ok")
              /\ UNCHANGED <<stages, py, upd, faults>>
--------------------------------------------------------------------------
\* application._post_ui_pm3_check: a thread probes, the Tk thread pushes the wizard
\* on whatever is open by then.  A Proxmark3 that does not answer counts as outdated;
\* an application that ships no firmware has nothing to compare with.
Wanted == main
Probe_NeedsAnswer == /\ up /\ probe = "probing"
                     /\ probe' \in IF main \in ships /\ pm3 \notin {Wanted, "part"} THEN {"flash"} ELSE {"fine"}
                     /\ UNCHANGED <<files, pm3, up, stack, update, flasher, cuts, faults>>
Probe == /\ up /\ probe = "probing"
         /\ \/ /\ probe' \in IF main \notin ships THEN {"fine"}
                             ELSE IF pm3 = Wanted THEN {"fine", "flash"} ELSE {"flash"}
               /\ UNCHANGED faults
            \/ probe' = "raised" /\ Fault
         /\ UNCHANGED <<files, pm3, up, stack, update, flasher, cuts>>
CheckComplete == /\ up /\ probe \in {"flash", "fine", "raised"} /\ probe' = "over"
                 /\ stack' = IF probe = "flash" THEN Append(stack, "fw") ELSE stack
                 /\ UNCHANGED <<files, pm3, up, update, flasher, cuts, faults>>

\* FWUpdateActivity: info, three pages, Start when the battery allows it.
Wizard(guard) == up /\ Top = "fw" /\ guard /\ UNCHANGED <<files, pm3, up, update, probe, cuts, faults>>
EnterPreflash == /\ Wizard(fw = "info") /\ fw' = "preflash" /\ page' = 0
                 /\ UNCHANGED <<stack, flash, verdict>>
TurnPage == /\ Wizard(fw = "preflash") /\ page' \in {page - 1, page + 1} \intersect 0..2
            /\ UNCHANGED <<stack, fw, flash, verdict>>
StartFlash == /\ Wizard(fw = "preflash" /\ page = 2)
              /\ fw' = "flashing" /\ flash' = "locate"
              /\ UNCHANGED <<stack, page, verdict>>
LeaveWizard == /\ Wizard(fw # "flashing") /\ stack' = Pop
               /\ UNCHANGED <<fw, page, flash, verdict>>
FlashComplete == /\ up /\ verdict # "none" /\ fw = "flashing" /\ fw' = "done"
                 /\ UNCHANGED <<files, pm3, up, stack, update, page, flash, verdict, probe, cuts, faults>>

\* The flash thread: flash_firmware and the flasher it runs.
Flasher(from) == up /\ flash = from /\ UNCHANGED <<files, up, stack, update, fw, page, probe, cuts>>
Advance(to) == flash' = to /\ UNCHANGED verdict
Fails == verdict' = "fail" /\ flash' = "idle" /\ Fault
Locate == /\ Flasher("locate") /\ UNCHANGED pm3
          /\ (Advance("kill") /\ UNCHANGED faults) \/ Fails
KillPm3 == Flasher("kill") /\ Advance("verify") /\ UNCHANGED <<pm3, faults>>
Verify == /\ Flasher("verify") /\ UNCHANGED pm3
          /\ (Advance("write") /\ UNCHANGED faults) \/ Fails
\* The first page written leaves no firmware to answer.
Erase == /\ Flasher("write") /\ pm3 # "part" /\ pm3' = "part"
         /\ UNCHANGED <<flash, verdict, faults>>
Written == /\ Flasher("write") /\ pm3 = "part"
           /\ \/ pm3' = Wanted /\ Advance("restartpm3") /\ UNCHANGED faults
              \/ Fails /\ UNCHANGED pm3
RestartPm3 == /\ Flasher("restartpm3") /\ verdict' = "ok" /\ flash' = "idle"
              /\ UNCHANGED <<pm3, faults>>
--------------------------------------------------------------------------
\* The process ends, whatever its threads are at.
Cut == \/ UNCHANGED stages
       \/ inst = "clean" /\ HalfCleaned
       \/ inst = "move" /\ HalfMoved
Ends == /\ up /\ up' = FALSE /\ Cut
        /\ stack' = <<"main">> /\ upd' = "ready" /\ inst' = "idle" /\ told' = "none" /\ again' = FALSE
        /\ fw' = "info" /\ page' = 0 /\ flash' = "idle" /\ verdict' = "none" /\ probe' = "probing"
        /\ UNCHANGED <<card, main, py, ships, pm3, faults>>
\* ipk_starter swaps a staged application in before it starts one; a partial one does
\* not come up.  /tmp may or may not be kept.
Boot == /\ ~up /\ main # "part"
        /\ main' = (IF new = "none" THEN main ELSE new) /\ new' = "none" /\ up' = (main' # "part")
        /\ \/ UNCHANGED <<tmp, py>>
           \/ tmp' = "none" /\ py' = FALSE
        /\ UNCHANGED <<card, unpkg, torn, ships, pm3, stack, update, flasher, probe, cuts, faults>>
\* service icopy restart, by restart_app or after a flash that went well.
InstallRestart == inst = "restart" /\ Ends /\ UNCHANGED cuts
FlashRestart == fw = "done" /\ verdict = "ok" /\ Ends /\ UNCHANGED cuts
PowerCut == cuts < MaxCuts /\ cuts' = cuts + 1 /\ Ends

Ui == \/ OpenUpdate \/ StartInstall \/ LeaveUpdate \/ EnterPreflash \/ TurnPage
      \/ StartFlash \/ LeaveWizard
Tk == InstallComplete \/ CheckComplete \/ FlashComplete
Install == \/ Search \/ CheckPkg \/ Unpkg \/ Assets \/ Clean \/ Move \/ Rename
           \/ Permission \/ EndInstall \/ InstallRestart
Flash == Locate \/ KillPm3 \/ Verify \/ Erase \/ Written \/ RestartPm3
Next == Ui \/ Tk \/ Install \/ Flash \/ Probe \/ Boot \/ FlashRestart \/ PowerCut
Spec == /\ Init /\ [][Next]_vars
        /\ WF_vars(InstallComplete) /\ WF_vars(CheckComplete) /\ WF_vars(FlashComplete)
        /\ WF_vars(Install) /\ WF_vars(Flash) /\ WF_vars(Probe)
--------------------------------------------------------------------------
\* A good package is never run, nor staged to be run, in part, unless a removal or the
\* extraction itself has left a part: install_app and _fallback_install copy beside the
\* place the starter looks in and rename last, whatever copy is cut or fails, whichever
\* error sends install to the fallback and whatever is left over from earlier tries.
StagedWhole == "part" \in {new, main} => card = "damaged" \/ torn

\* UpdateActivity takes no key while it searches or installs, so the thread must end
\* and say so, or restart the service.
InstallEnds == upd \in Busy ~> upd \notin Busy \/ ~up

\* A flash that was cut leaves a Proxmark3 that does not answer; the check after the
\* next boot then brings the wizard up, in front of whatever was opened meanwhile,
\* unless the application ships no firmware, the check itself raises, or an update
\* restarts the service first.
WizardReturns ==
  (up /\ probe = "probing" /\ pm3 = "part" /\ main \in ships)
    ~> (Top = "fw" \/ ~up \/ inst = "restart" \/ probe = "raised")

--------------------------------------------------------------------------
(* What the source says and the code does not do.                          *)

\* The caller keeps the service from being restarted while the flasher writes
\* (flash_firmware's docstring).
FlashNotCut == [][(InstallRestart \/ FlashRestart) => flash # "write"]_vars
=============================================================================
