-------------------------- MODULE MaintenanceProofs --------------------------
(***************************************************************************)
(* What an update may leave behind, for every number of power cuts and of  *)
(* errors. StagedWhole is not inductive: Rename puts a tree into place, so *)
(* Whole follows the copies it starts from, and that what an earlier try   *)
(* has left is removed before a tree is moved.                             *)
(*                                                                         *)
(* The second half is about the line of ymodem.py, over which a file or    *)
(* the firmware of a bootloader is sent.                                   *)
(***************************************************************************)
EXTENDS Maintenance, Ymodem, SequenceTheorems, TLAPS

FilesTyped ==
  /\ card \in {"none", "invalid", "damaged", "good"}
  /\ tmp \in Tree /\ unpkg \in Tree /\ new \in Tree /\ main \in Tree \ {"none"}
  /\ pm3 \in {"old", "new", "part"} /\ ships \subseteq {"old", "new"}
  /\ cuts \in 0..MaxCuts /\ faults \in 0..MaxFaults
UiTyped ==
  /\ stack \in {<<"main">>, <<"main", "update">>, <<"main", "fw">>, <<"main", "update", "fw">>}
  /\ upd \in {"ready", "done"} \union Busy /\ told \in {"none", "ok", "fail"}
  /\ inst \in {"idle", "search", "check", "unpkg", "assets", "clean", "move", "rename",
               "permission", "restart", "end"}
  /\ fw \in {"info", "preflash", "flashing", "done"} /\ page \in 0..2
  /\ flash \in {"idle", "locate", "kill", "verify", "write", "restartpm3"}
  /\ verdict \in {"none", "ok", "fail"}
  /\ probe \in {"probing", "flash", "fine", "raised", "over"}

Flags == {py, torn, up, again} \subseteq BOOLEAN

\* The check of a boot pushes the wizard once: until then it is not open.
OneWizard == probe # "over" => stack \in {<<"main">>, <<"main", "update">>}

\* Of a good package no tree that may be renamed into place is partial, unless a removal
\* or the extraction left it so: what unpkg left is not, and once install_app has removed
\* the rest of an earlier try, nor is its own copy.
Whole ==
  /\ card # "damaged" /\ ~torn => "part" \notin {tmp, new, main}
  /\ inst = "move" => unpkg = "none"
  /\ card # "damaged" /\ ~torn /\ inst = "rename" => unpkg # "part"

IInv == FilesTyped /\ UiTyped /\ Flags /\ OneWizard /\ Whole

LEMMA Split == TypeOK <=> FilesTyped /\ UiTyped /\ Flags
  BY Zenon DEF TypeOK, FilesTyped, UiTyped, Flags

\* An activity opened over one or two others, and closed again.
LEMMA Opened ==
  ASSUME NEW x, NEW y
  PROVE  Append(<<x>>, y) = <<x, y>>
<1>1. <<x>> \in Seq({x, y}) /\ <<x, y>> \in Seq({x, y}) /\ y \in {x, y}
  OBVIOUS
<1>2. Append(<<x>>, y) \in Seq({x, y}) /\ Len(Append(<<x>>, y)) = 2
  BY <1>1, AppendProperties
<1>3. Append(<<x>>, y)[1] = x /\ Append(<<x>>, y)[2] = y
  BY <1>1, AppendProperties
<1>4. \A i \in 1..2 : Append(<<x>>, y)[i] = <<x, y>>[i]
  BY <1>3
<1> QED
  BY <1>1, <1>2, <1>4, SeqEqual

LEMMA OpenedOver ==
  ASSUME NEW x, NEW y, NEW z
  PROVE  Append(<<x, y>>, z) = <<x, y, z>>
<1> DEFINE S == {x, y, z}
<1>1. <<x, y>> \in Seq(S) /\ <<x, y, z>> \in Seq(S) /\ z \in S
  OBVIOUS
<1>2. Append(<<x, y>>, z) \in Seq(S) /\ Len(Append(<<x, y>>, z)) = 3
  BY <1>1, AppendProperties
<1>3. /\ Append(<<x, y>>, z)[1] = x /\ Append(<<x, y>>, z)[2] = y
      /\ Append(<<x, y>>, z)[3] = z
  BY <1>1, AppendProperties
<1>4. \A i \in 1..3 : Append(<<x, y>>, z)[i] = <<x, y, z>>[i]
  BY <1>3
<1> HIDE DEF S
<1> QED
  BY <1>1, <1>2, <1>4, SeqEqual

LEMMA StackTyped ==
  /\ Append(<<"main">>, "update") = <<"main", "update">>
  /\ Append(<<"main">>, "fw") = <<"main", "fw">>
  /\ Append(<<"main", "update">>, "fw") = <<"main", "update", "fw">>
  BY Opened, OpenedOver

LEMMA Closed ==
  ASSUME NEW x, NEW y
  PROVE  SubSeq(<<x, y>>, 1, 1) = <<x>>
<1>1. \A i \in 1..1 : <<x, y>>[i] \in {x, y}
  OBVIOUS
<1>2. /\ SubSeq(<<x, y>>, 1, 1) \in Seq({x, y}) /\ Len(SubSeq(<<x, y>>, 1, 1)) = 1
      /\ \A i \in 1..1 : SubSeq(<<x, y>>, 1, 1)[i] = <<x, y>>[i]
  BY <1>1, SubSeqProperties
<1>3. <<x>> \in Seq({x, y}) /\ Len(<<x>>) = 1
  OBVIOUS
<1>4. \A i \in 1..1 : SubSeq(<<x, y>>, 1, 1)[i] = <<x>>[i]
  <2>1. SubSeq(<<x, y>>, 1, 1)[1] = x
    BY <1>2
  <2> QED
    BY <2>1
<1> QED
  BY <1>2, <1>3, <1>4, SeqEqual

LEMMA ClosedOver ==
  ASSUME NEW x, NEW y, NEW z
  PROVE  SubSeq(<<x, y, z>>, 1, 2) = <<x, y>>
<1> DEFINE S == {x, y, z}
           t == SubSeq(<<x, y, z>>, 1, 2)
<1>1. \A i \in 1..2 : <<x, y, z>>[i] \in S
  OBVIOUS
<1>2. t \in Seq(S) /\ Len(t) = 2 /\ \A i \in 1..2 : t[i] = <<x, y, z>>[i]
  BY <1>1, SubSeqProperties
<1>3. t[1] = x /\ t[2] = y
  BY <1>2
<1>4. <<x, y>> \in Seq(S) /\ \A i \in 1..2 : t[i] = <<x, y>>[i]
  BY <1>3
<1> HIDE DEF S, t
<1>5. t = <<x, y>>
  BY <1>2, <1>4, SeqEqual
<1> QED
  BY <1>5 DEF t

\* An activity that closes leaves main, or UpdateActivity, on top.
LEMMA PopTyped ==
  ASSUME UiTyped, Top # "main"
  PROVE  Pop \in {<<"main">>, <<"main", "update">>}
<1>1. stack # <<"main">>
  BY DEF Top
<1>2. CASE stack = <<"main", "update">>
  <2>1. Pop = SubSeq(<<"main", "update">>, 1, 1)
    BY <1>2 DEF Pop
  <2> QED
    BY <2>1, Closed
<1>3. CASE stack = <<"main", "fw">>
  <2>1. Pop = SubSeq(<<"main", "fw">>, 1, 1)
    BY <1>3 DEF Pop
  <2> QED
    BY <2>1, Closed
<1>4. CASE stack = <<"main", "update", "fw">>
  <2>1. Pop = SubSeq(<<"main", "update", "fw">>, 1, 2)
    BY <1>4 DEF Pop
  <2> QED
    BY <2>1, ClosedOver
<1> QED
  BY <1>1, <1>2, <1>3, <1>4 DEF UiTyped

LEMMA InitInv == Init => IInv
<1> SUFFICES ASSUME Init PROVE IInv
  OBVIOUS
<1> USE DEF Init, Fresh
<1>1. 0 \in 0..MaxCuts /\ 0 \in 0..MaxFaults
  BY BoundsAssumption
<1>2. FilesTyped
  BY <1>1 DEF FilesTyped, Tree
<1>3. UiTyped
  BY DEF UiTyped
<1>4. OneWizard /\ Whole /\ Flags
  BY DEF OneWizard, Whole, Flags
<1> QED
  BY <1>2, <1>3, <1>4 DEF IInv

LEMMA FlagsKept == Flags /\ [Next]_vars => Flags'
<1> SUFFICES ASSUME Flags, [Next]_vars PROVE Flags'
  OBVIOUS
<1> USE DEF vars, stages, files, update, flasher, Thread, Step, Report, Raised, Wizard, Flasher, Ends, Cut,
        HalfCleaned, HalfMoved, Next, Ui, Tk, Install, Flash, OpenUpdate, StartInstall, LeaveUpdate,
        EnterPreflash, TurnPage, StartFlash, LeaveWizard, InstallComplete, CheckComplete, FlashComplete,
        Search, CheckPkg, Unpkg, Assets, Clean, Move, Rename, Permission, EndInstall, InstallRestart,
        Locate, KillPm3, Verify, Erase, Written, RestartPm3, Probe, Boot, FlashRestart, PowerCut
<1>1. up' = up \/ up' = FALSE \/ up' = (main' # "part")
  BY Zenon
<1>2. again' = again \/ again' = FALSE \/ again' = TRUE
  BY Zenon
<1>3. py' = py \/ py' \in BOOLEAN
  BY Zenon
<1>4. torn' = torn \/ torn' = TRUE \/ torn' = (torn \/ new' = "part")
  BY Zenon
<1> QED
  BY <1>1, <1>2, <1>3, <1>4 DEF Flags

\* A removal or a move that ends midway.
LEMMA HalfIs ==
  ASSUME FilesTyped, HalfCleaned \/ HalfMoved
  PROVE  /\ tmp' \in Tree /\ unpkg' \in Tree /\ new' \in Tree
         /\ ~torn' => ~torn /\ UNCHANGED <<tmp, new>>
<1>1. CASE HalfCleaned
  <2>1. CASE unpkg' = "part" /\ UNCHANGED <<tmp, new, torn>>
    BY <2>1 DEF FilesTyped, Tree
  <2>2. CASE unpkg' = "none" /\ new' \in {new, "part"} /\ torn' = (torn \/ new' = "part") /\ UNCHANGED tmp
    <3>1. tmp' \in Tree /\ unpkg' \in Tree /\ new' \in Tree
      BY <2>2 DEF FilesTyped, Tree
    <3>2. ~torn' => ~torn /\ UNCHANGED <<tmp, new>>
      BY <2>2, Zenon
    <3> QED
      BY <3>1, <3>2
  <2> QED
    BY <1>1, <2>1, <2>2, Zenon DEF HalfCleaned
<1>2. CASE HalfMoved
  BY <1>2 DEF FilesTyped, Tree, HalfMoved
<1> QED
  BY <1>1, <1>2

\* The end of the process, in the middle of a removal or a move or not.
LEMMA EndsKeeps ==
  ASSUME IInv, Flags', Ends, cuts' \in 0..MaxCuts
  PROVE  IInv'
<1> USE DEF IInv, Ends
<1>1. UNCHANGED stages \/ HalfCleaned \/ HalfMoved
  BY DEF Cut
<1>2. /\ tmp' \in Tree /\ unpkg' \in Tree /\ new' \in Tree
      /\ ~torn' => ~torn /\ UNCHANGED <<tmp, new>>
  BY <1>1, HalfIs DEF stages, FilesTyped
<1>3. FilesTyped'
  BY <1>2 DEF FilesTyped
<1>4. UiTyped'
  BY DEF UiTyped, Busy
<1>5. OneWizard'
  BY DEF OneWizard
<1>6. Whole'
  BY <1>2 DEF Whole
<1> QED
  BY <1>3, <1>4, <1>5, <1>6

\* Every step keeps it.
LEMMA StepInv == IInv /\ [Next]_vars => IInv'
<1> SUFFICES ASSUME IInv, [Next]_vars PROVE IInv'
  OBVIOUS
<1>0. Flags'
  BY FlagsKept DEF IInv
<1> USE BoundsAssumption DEF IInv, stages, files, update, flasher, Thread, Step, Report, Wizard,
          Flasher, Top
<1>1. CASE OpenUpdate
  <2>1. FilesTyped'
    BY <1>1 DEF OpenUpdate, FilesTyped, Tree
  <2>2. UiTyped'
    BY <1>1, StackTyped DEF OpenUpdate, UiTyped, Busy
  <2>3. OneWizard'
    BY <1>1, StackTyped DEF OpenUpdate, OneWizard, UiTyped
  <2>4. Whole'
    BY <1>1 DEF OpenUpdate, Whole, FilesTyped
  <2> QED
    BY <1>0, <2>1, <2>2, <2>3, <2>4
<1>2. CASE StartInstall
  <2>1. FilesTyped'
    BY <1>2 DEF StartInstall, FilesTyped, Tree
  <2>2. UiTyped'
    BY <1>2 DEF StartInstall, UiTyped, Busy
  <2>3. OneWizard'
    BY <1>2 DEF StartInstall, OneWizard, UiTyped
  <2>4. Whole'
    BY <1>2 DEF StartInstall, Whole, FilesTyped
  <2> QED
    BY <1>0, <2>1, <2>2, <2>3, <2>4
<1>3. CASE LeaveUpdate
  <2>1. FilesTyped'
    BY <1>3 DEF LeaveUpdate, FilesTyped, Tree, Busy, Pop
  <2>2. UiTyped'
    BY <1>3, PopTyped DEF LeaveUpdate, UiTyped, Busy
  <2>3. OneWizard'
    BY <1>3, PopTyped DEF LeaveUpdate, OneWizard
  <2>4. Whole'
    BY <1>3 DEF LeaveUpdate, Whole, FilesTyped, Busy, Pop
  <2> QED
    BY <1>0, <2>1, <2>2, <2>3, <2>4
<1>4. CASE EnterPreflash
  <2>1. FilesTyped'
    BY <1>4 DEF EnterPreflash, FilesTyped, Tree
  <2>2. UiTyped'
    BY <1>4 DEF EnterPreflash, UiTyped, Busy
  <2>3. OneWizard'
    BY <1>4 DEF EnterPreflash, OneWizard, UiTyped
  <2>4. Whole'
    BY <1>4 DEF EnterPreflash, Whole, FilesTyped
  <2> QED
    BY <1>0, <2>1, <2>2, <2>3, <2>4
<1>5. CASE TurnPage
  <2>1. FilesTyped'
    BY <1>5 DEF TurnPage, FilesTyped, Tree
  <2>2. UiTyped'
    BY <1>5 DEF TurnPage, UiTyped, Busy
  <2>3. OneWizard'
    BY <1>5 DEF TurnPage, OneWizard, UiTyped
  <2>4. Whole'
    BY <1>5 DEF TurnPage, Whole, FilesTyped
  <2> QED
    BY <1>0, <2>1, <2>2, <2>3, <2>4
<1>6. CASE StartFlash
  <2>1. FilesTyped'
    BY <1>6 DEF StartFlash, FilesTyped, Tree
  <2>2. UiTyped'
    BY <1>6 DEF StartFlash, UiTyped, Busy
  <2>3. OneWizard'
    BY <1>6 DEF StartFlash, OneWizard, UiTyped
  <2>4. Whole'
    BY <1>6 DEF StartFlash, Whole, FilesTyped
  <2> QED
    BY <1>0, <2>1, <2>2, <2>3, <2>4
<1>7. CASE LeaveWizard
  <2>1. FilesTyped'
    BY <1>7 DEF LeaveWizard, FilesTyped, Tree, Pop
  <2>2. UiTyped'
    BY <1>7, PopTyped DEF LeaveWizard, UiTyped, Busy
  <2>3. OneWizard'
    BY <1>7, PopTyped DEF LeaveWizard, OneWizard
  <2>4. Whole'
    BY <1>7 DEF LeaveWizard, Whole, FilesTyped, Pop
  <2> QED
    BY <1>0, <2>1, <2>2, <2>3, <2>4
<1>8. CASE InstallComplete
  <2>1. FilesTyped'
    BY <1>8 DEF InstallComplete, FilesTyped, Tree, Busy
  <2>2. UiTyped'
    BY <1>8 DEF InstallComplete, UiTyped, Busy
  <2>3. OneWizard'
    BY <1>8 DEF InstallComplete, OneWizard, UiTyped, Busy
  <2>4. Whole'
    BY <1>8 DEF InstallComplete, Whole, FilesTyped, Busy
  <2> QED
    BY <1>0, <2>1, <2>2, <2>3, <2>4
<1>9. CASE CheckComplete
  <2>1. FilesTyped'
    BY <1>9 DEF CheckComplete, FilesTyped, Tree
  <2>2. UiTyped'
    <3>1. /\ probe' = "over"
          /\ UNCHANGED <<up, upd, told, inst, fw, page, flash, verdict>>
      BY <1>9 DEF CheckComplete
    <3>2. stack' \in {<<"main">>, <<"main", "update">>, <<"main", "fw">>, <<"main", "update", "fw">>}
      BY <1>9, StackTyped DEF CheckComplete, UiTyped, OneWizard
    <3> QED
      BY <3>1, <3>2 DEF UiTyped, Busy
  <2>3. OneWizard'
    BY <1>9, StackTyped DEF CheckComplete, OneWizard, UiTyped
  <2>4. Whole'
    BY <1>9 DEF CheckComplete, Whole, FilesTyped
  <2> QED
    BY <1>0, <2>1, <2>2, <2>3, <2>4
<1>10. CASE FlashComplete
  <2>1. FilesTyped'
    BY <1>10 DEF FlashComplete, FilesTyped, Tree
  <2>2. UiTyped'
    BY <1>10 DEF FlashComplete, UiTyped, Busy
  <2>3. OneWizard'
    BY <1>10 DEF FlashComplete, OneWizard, UiTyped
  <2>4. Whole'
    BY <1>10 DEF FlashComplete, Whole, FilesTyped
  <2> QED
    BY <1>0, <2>1, <2>2, <2>3, <2>4
<1>11. CASE Search
  <2>1. FilesTyped'
    BY <1>11 DEF Search, FilesTyped, Tree
  <2>2. UiTyped'
    BY <1>11 DEF Search, UiTyped, Busy
  <2>3. OneWizard'
    BY <1>11 DEF Search, OneWizard, UiTyped
  <2>4. Whole'
    BY <1>11 DEF Search, Whole, FilesTyped
  <2> QED
    BY <1>0, <2>1, <2>2, <2>3, <2>4
<1>12. CASE CheckPkg
  <2>1. FilesTyped'
    BY <1>12 DEF CheckPkg, FilesTyped, Tree
  <2>2. UiTyped'
    BY <1>12 DEF CheckPkg, UiTyped, Busy
  <2>3. OneWizard'
    BY <1>12 DEF CheckPkg, OneWizard, UiTyped
  <2>4. Whole'
    BY <1>12 DEF CheckPkg, Whole, FilesTyped
  <2> QED
    BY <1>0, <2>1, <2>2, <2>3, <2>4
<1>13. CASE Unpkg
  <2>1. FilesTyped'
    BY <1>13 DEF Unpkg, FilesTyped, Tree, Fault
  <2>2. UiTyped'
    BY <1>13 DEF Unpkg, UiTyped, Busy, Fault
  <2>3. OneWizard'
    BY <1>13 DEF Unpkg, OneWizard, UiTyped, Fault
  <2>4. Whole'
    BY <1>13 DEF Unpkg, Whole, FilesTyped, Fault
  <2> QED
    BY <1>0, <2>1, <2>2, <2>3, <2>4
<1>14. CASE Assets
  <2>1. FilesTyped'
    BY <1>14 DEF Assets, FilesTyped, Tree, Raised, Fault
  <2>2. UiTyped'
    BY <1>14 DEF Assets, UiTyped, Busy, Raised, Fault
  <2>3. OneWizard'
    BY <1>14 DEF Assets, OneWizard, UiTyped, Raised, Fault
  <2>4. Whole'
    BY <1>14 DEF Assets, Whole, FilesTyped, Raised, Fault
  <2> QED
    BY <1>0, <2>1, <2>2, <2>3, <2>4
<1>15. CASE Clean
  <2>0. (CleanStage /\ UNCHANGED <<tmp, torn, faults>> /\ Step("move")) \/ (HalfCleaned /\ Raised /\ Fault)
    BY <1>15 DEF Clean
  <2>1. FilesTyped'
    <3>1. tmp' \in Tree /\ unpkg' \in Tree /\ new' \in Tree
      BY <2>0, HalfIs DEF CleanStage, FilesTyped, Tree
    <3> QED
      BY <1>15, <2>0, <3>1 DEF Clean, FilesTyped, Fault
  <2>2. UiTyped'
    BY <1>15, <2>0 DEF Clean, UiTyped, Busy, Raised
  <2>3. OneWizard'
    BY <1>15 DEF Clean, OneWizard, UiTyped
  <2>4. Whole'
    <3>1. CASE CleanStage /\ UNCHANGED <<tmp, torn>> /\ Step("move")
      BY <1>15, <3>1 DEF Clean, CleanStage, Whole
    <3>2. CASE HalfCleaned /\ Raised
      BY <1>15, <3>2, HalfIs DEF Clean, Raised, Whole
    <3> QED
      BY <2>0, <3>1, <3>2
  <2> QED
    BY <1>0, <2>1, <2>2, <2>3, <2>4
<1>16. CASE Move
  <2>0. \/ tmp # "none" /\ Moved /\ tmp' = "none" /\ Step("rename") /\ UNCHANGED <<new, torn, faults>>
        \/ Raised /\ UNCHANGED stages /\ UNCHANGED faults
        \/ HalfMoved /\ Raised /\ Fault
    BY <1>16 DEF Move
  <2>1. FilesTyped'
    <3>1. tmp' \in Tree /\ unpkg' \in Tree /\ new' \in Tree
      BY <2>0, HalfIs DEF Moved, FilesTyped, Tree
    <3> QED
      BY <1>16, <2>0, <3>1 DEF Move, FilesTyped, Fault
  <2>2. UiTyped'
    BY <1>16, <2>0 DEF Move, UiTyped, Busy, Raised
  <2>3. OneWizard'
    BY <1>16 DEF Move, OneWizard, UiTyped
  <2>4. Whole'
    <3>1. CASE Moved /\ tmp' = "none" /\ Step("rename") /\ UNCHANGED <<new, torn>>
      BY <1>16, <3>1 DEF Move, Moved, Whole
    <3>2. CASE Raised /\ UNCHANGED stages
      BY <1>16, <3>2 DEF Move, Raised, Whole
    <3>3. CASE HalfMoved /\ Raised
      BY <1>16, <3>3, HalfIs DEF Move, Raised, Whole
    <3> QED
      BY <2>0, <3>1, <3>2, <3>3
  <2> QED
    BY <1>0, <2>1, <2>2, <2>3, <2>4
<1>17. CASE Rename
  <2>1. FilesTyped'
    BY <1>17 DEF Rename, FilesTyped, Tree
  <2>2. UiTyped'
    BY <1>17 DEF Rename, UiTyped, Busy
  <2>3. OneWizard'
    BY <1>17 DEF Rename, OneWizard, UiTyped
  <2>4. Whole'
    BY <1>17 DEF Rename, Whole, FilesTyped
  <2> QED
    BY <1>0, <2>1, <2>2, <2>3, <2>4
<1>18. CASE Permission
  <2>1. FilesTyped'
    BY <1>18 DEF Permission, FilesTyped, Tree, Raised, Fault
  <2>2. UiTyped'
    BY <1>18 DEF Permission, UiTyped, Busy, Raised, Fault
  <2>3. OneWizard'
    BY <1>18 DEF Permission, OneWizard, UiTyped, Raised, Fault
  <2>4. Whole'
    BY <1>18 DEF Permission, Whole, FilesTyped, Raised, Fault
  <2> QED
    BY <1>0, <2>1, <2>2, <2>3, <2>4
<1>19. CASE EndInstall
  <2>1. FilesTyped'
    BY <1>19 DEF EndInstall, FilesTyped, Tree
  <2>2. UiTyped'
    BY <1>19 DEF EndInstall, UiTyped, Busy
  <2>3. OneWizard'
    BY <1>19 DEF EndInstall, OneWizard, UiTyped
  <2>4. Whole'
    BY <1>19 DEF EndInstall, Whole, FilesTyped
  <2> QED
    BY <1>0, <2>1, <2>2, <2>3, <2>4
<1>20. CASE InstallRestart
  BY <1>20, <1>0, EndsKeeps DEF InstallRestart, FilesTyped
<1>21. CASE Locate
  <2>1. FilesTyped'
    BY <1>21 DEF Locate, FilesTyped, Tree, Advance, Fails, Fault
  <2>2. UiTyped'
    BY <1>21 DEF Locate, UiTyped, Busy, Advance, Fails, Fault
  <2>3. OneWizard'
    BY <1>21 DEF Locate, OneWizard, UiTyped, Advance, Fails, Fault
  <2>4. Whole'
    BY <1>21 DEF Locate, Whole, FilesTyped, Advance, Fails, Fault
  <2> QED
    BY <1>0, <2>1, <2>2, <2>3, <2>4
<1>22. CASE KillPm3
  <2>1. FilesTyped'
    BY <1>22 DEF KillPm3, FilesTyped, Tree, Advance
  <2>2. UiTyped'
    BY <1>22 DEF KillPm3, UiTyped, Busy, Advance
  <2>3. OneWizard'
    BY <1>22 DEF KillPm3, OneWizard, UiTyped, Advance
  <2>4. Whole'
    BY <1>22 DEF KillPm3, Whole, FilesTyped, Advance
  <2> QED
    BY <1>0, <2>1, <2>2, <2>3, <2>4
<1>23. CASE Verify
  <2>1. FilesTyped'
    BY <1>23 DEF Verify, FilesTyped, Tree, Advance, Fails, Fault
  <2>2. UiTyped'
    BY <1>23 DEF Verify, UiTyped, Busy, Advance, Fails, Fault
  <2>3. OneWizard'
    BY <1>23 DEF Verify, OneWizard, UiTyped, Advance, Fails, Fault
  <2>4. Whole'
    BY <1>23 DEF Verify, Whole, FilesTyped, Advance, Fails, Fault
  <2> QED
    BY <1>0, <2>1, <2>2, <2>3, <2>4
<1>24. CASE Erase
  <2>1. FilesTyped'
    BY <1>24 DEF Erase, FilesTyped, Tree
  <2>2. UiTyped'
    BY <1>24 DEF Erase, UiTyped, Busy
  <2>3. OneWizard'
    BY <1>24 DEF Erase, OneWizard, UiTyped
  <2>4. Whole'
    BY <1>24 DEF Erase, Whole, FilesTyped
  <2> QED
    BY <1>0, <2>1, <2>2, <2>3, <2>4
<1>25. CASE Written
  <2>1. FilesTyped'
    BY <1>25 DEF Written, FilesTyped, Tree, Advance, Fails, Fault, Wanted
  <2>2. UiTyped'
    BY <1>25 DEF Written, UiTyped, Busy, Advance, Fails, Fault, Wanted
  <2>3. OneWizard'
    BY <1>25 DEF Written, OneWizard, UiTyped, Advance, Fails, Fault, Wanted
  <2>4. Whole'
    BY <1>25 DEF Written, Whole, FilesTyped, Advance, Fails, Fault, Wanted
  <2> QED
    BY <1>0, <2>1, <2>2, <2>3, <2>4
<1>26. CASE RestartPm3
  <2>1. FilesTyped'
    BY <1>26 DEF RestartPm3, FilesTyped, Tree
  <2>2. UiTyped'
    BY <1>26 DEF RestartPm3, UiTyped, Busy
  <2>3. OneWizard'
    BY <1>26 DEF RestartPm3, OneWizard, UiTyped
  <2>4. Whole'
    BY <1>26 DEF RestartPm3, Whole, FilesTyped
  <2> QED
    BY <1>0, <2>1, <2>2, <2>3, <2>4
<1>27. CASE Probe
  <2>1. FilesTyped'
    BY <1>27 DEF Probe, FilesTyped, Tree, Wanted, Fault
  <2>2. UiTyped'
    BY <1>27 DEF Probe, UiTyped, Busy, Wanted, Fault
  <2>3. OneWizard'
    BY <1>27 DEF Probe, OneWizard, UiTyped, Wanted, Fault
  <2>4. Whole'
    BY <1>27 DEF Probe, Whole, FilesTyped, Wanted, Fault
  <2> QED
    BY <1>0, <2>1, <2>2, <2>3, <2>4
<1>28. CASE Boot
  <2>1. FilesTyped'
    BY <1>28 DEF Boot, FilesTyped, Tree
  <2>2. UiTyped'
    BY <1>28 DEF Boot, UiTyped, Busy
  <2>3. OneWizard'
    BY <1>28 DEF Boot, OneWizard, UiTyped
  <2>4. Whole'
    BY <1>28 DEF Boot, Whole, FilesTyped
  <2> QED
    BY <1>0, <2>1, <2>2, <2>3, <2>4
<1>29. CASE FlashRestart
  BY <1>29, <1>0, EndsKeeps DEF FlashRestart, FilesTyped
<1>30. CASE PowerCut
  BY <1>30, <1>0, EndsKeeps DEF PowerCut, FilesTyped
<1>31. CASE UNCHANGED vars
  BY <1>0, <1>31 DEF vars, FilesTyped, UiTyped, OneWizard, Whole
<1> QED
  BY <1>1, <1>2, <1>3, <1>4, <1>5, <1>6, <1>7, <1>8, <1>9, <1>10, <1>11, <1>12, <1>13,
     <1>14, <1>15, <1>16, <1>17, <1>18, <1>19, <1>20, <1>21, <1>22, <1>23, <1>24,
     <1>25, <1>26, <1>27, <1>28, <1>29, <1>30, <1>31
  DEF Next, Ui, Tk, Install, Flash

LEMMA Inductive == Spec => []IInv
  BY InitInv, StepInv, PTL DEF Spec

LEMMA Consequences == IInv => TypeOK /\ StagedWhole
<1>1. IInv => TypeOK
  BY Split DEF IInv
<1>2. IInv => StagedWhole
  BY DEF IInv, Whole, StagedWhole
<1> QED
  BY <1>1, <1>2

\* The files, the firmware and the activities of an update are well typed, for every
\* number of cuts and errors.
THEOREM TypeCorrect == Spec => []TypeOK
  BY Inductive, Consequences, PTL

\* Of a good package neither the application that runs nor the one staged to replace it
\* is partial, unless a removal or the extraction left a part: however often install_app
\* and _fallback_install (install.py, update.py) are cut or fail and are tried again.
THEOREM StagedCorrect == Spec => []StagedWhole
  BY Inductive, Consequences, PTL

-----------------------------------------------------------------------------
(* The line of YMODEM: what of a file reaches the other end, for every     *)
(* size of file, every retry limit and every number of faults.             *)

(* One exchange at a time: as long as no timeout passes while the line     *)
(* still carries something, there is one packet, what is left of one       *)
(* without its head, or one answer under way; or recv_file has left the    *)
(* file for good, and writes no more of it.                                *)

Bytes == {"C", "ACK", "NAK", Garbage}
UnderWay(n) == {<<>>, <<Packet(n)>>, <<Spoilt(Packet(n))>>}
\* What a packet without its head is read as: no packet, and nothing after a short one.
Bare(s) == \A i \in 1..Len(s) : s[i].kind # "packet" /\ (s[i].kind = "short" => i = Len(s))
Beheaded == "head" \in seen /\ Bare(toR)
Waiting == {"header", "cancelled once"}
NoAck == \A i \in 1..Len(toS) : toS[i] # "ACK"
NoPacket == \A i \in 1..Len(toR) : toR[i].kind # "packet"

\* The last block written, 0 before the first.
Latest == IF file = <<>> THEN 0 ELSE file[Len(file)]

LineTyped ==
  /\ size \in 0..MaxBlocks /\ blk \in Nat \ {0}
  /\ stage \in {"crc", "name", "ready", "data", "eot", "null", "over"}
  /\ result \in {"none", "true", "false"} /\ (result = "none" <=> stage # "over")
  /\ phase \in Phases
  /\ file \in Seq(Nat) /\ toR \in Seq(Message) /\ toS \in Seq(Bytes)

Opening ==
  /\ stage = "crc" => /\ phase = "header" /\ file = <<>> /\ toR = <<>>
                      /\ toS \in {<<>>, <<"C">>, <<Garbage>>}
  /\ stage = "name" =>
       /\ file = <<>>
       /\ \/ phase \in Waiting /\ toS = <<>> /\ (toR \in UnderWay(0) \/ Beheaded)
          \/ /\ phase = "data" /\ toR = <<>>
             /\ toS \in {<<"ACK", "C">>, <<"ACK", Garbage>>, <<Garbage, "C">>, <<"C">>, <<>>}
          \/ phase = "none" /\ NoAck
  /\ stage = "ready" => /\ phase = "data" /\ file = <<>> /\ toR = <<>>
                        /\ toS \in {<<>>, <<"C">>, <<Garbage>>}

\* The block sent is the one to write next or, when its acknowledgement was lost, the
\* last one written; a file that is full takes no more.
Paired ==
  /\ phase = "data"
  /\ \/ toS = <<>> /\ (toR \in UnderWay(blk) \/ Beheaded)
     \/ toR = <<>> /\ toS \in {<<"ACK">>, <<"NAK">>, <<Garbage>>}
  /\ Len(file) < size => Latest = blk \/ (Latest = blk - 1 /\ toS # <<"ACK">>)

\* recv_file has read the end of the file, or CAN, in a packet without its head.
Left ==
  /\ "head" \in seen /\ phase \in {"eot", "batch", "name"}
  /\ phase = "eot" => NoAck

Sending == stage = "data" => blk <= size /\ (Paired \/ Left)

\* Nothing is written any more.
Closing ==
  /\ stage = "eot" => /\ phase \in {"data", "eot", "batch", "name"}
                      /\ phase \in {"data", "eot"} => NoAck
  /\ stage = "null" \/ result = "true" => phase \in {"batch", "name"}
  /\ stage \in {"eot", "over"} /\ phase \in Waiting \union {"data"} => NoPacket

\* As long as no answer is lost or garbled, each block is written once.
Exact ==
  seen \subseteq {"packet"} =>
    /\ \A i \in 1..Len(file) : file[i] = i
    /\ stage = "data" => Len(file) = IF toS = <<"ACK">> THEN blk ELSE blk - 1
    /\ stage \in {"eot", "null"} \/ result = "true" => Len(file) = size

\* A block follows the one before it, or repeats it.
Chain ==
  \A i \in 1..Len(file) : LET before == IF i = 1 THEN 0 ELSE file[i - 1]
                          IN  file[i] = before + 1 \/ (i > 1 /\ file[i] = before)

InStep == LineTyped /\ Opening /\ Sending /\ Closing /\ Exact /\ Chain
LineInv == "early" \notin seen => InStep

-----------------------------------------------------------------------------
(* The line.                                                               *)

LEMMA Sizes == MaxBlocks \in Nat /\ Retry \in Nat \ {0} /\ End \in Nat
BY SizeAssumption DEF End

LEMMA One ==
  ASSUME NEW x
  PROVE  /\ <<x>> # <<>> /\ Head(<<x>>) = x /\ Tail(<<x>>) = <<>> /\ Append(<<>>, x) = <<x>>
         /\ Len(<<x>>) = 1 /\ <<x>>[1] = x /\ <<>> \o <<x>> = <<x>>
OBVIOUS

LEMMA Two ==
  ASSUME NEW x, NEW y
  PROVE  /\ <<x, y>> # <<>> /\ Head(<<x, y>>) = x /\ Tail(<<x, y>>) = <<y>>
         /\ Len(<<x, y>>) = 2 /\ <<x, y>>[1] = x /\ <<x, y>>[2] = y /\ <<>> \o <<x, y>> = <<x, y>>
OBVIOUS

LEMMA HeadTail ==
  ASSUME NEW S, NEW s \in Seq(S), s # <<>>
  PROVE  /\ Len(s) \in Nat \ {0} /\ Head(s) = s[1] /\ s[1] \in S
         /\ Tail(s) \in Seq(S) /\ Len(Tail(s)) = Len(s) - 1
         /\ \A i \in 1..Len(Tail(s)) : Tail(s)[i] = s[i + 1]
OBVIOUS

LEMMA PacketIs ==
  ASSUME NEW n \in 0..End
  PROVE  /\ Packet(n) \in Message /\ Packet(n).kind = "packet" /\ Packet(n).n = n /\ Packet(n).ok
         /\ Spoilt(Packet(n)) \in Message /\ Spoilt(Packet(n)).kind = "packet"
         /\ ~Spoilt(Packet(n)).ok
BY DEF Packet, Spoilt, Message

LEMMA ByteIs ==
  ASSUME NEW b \in {"EOT", "CAN"}
  PROVE  /\ Byte(b) \in Message /\ Byte(b).kind = b
         /\ Spoilt(Byte(b)) \in Message /\ Spoilt(Byte(b)).kind = Garbage
BY Sizes DEF Byte, Spoilt, Message, Garbage

\* What was met stays met.
LEMMA FaultKeeps ==
  ASSUME NEW kind, Faultless \/ LineFault(kind)
  PROVE  seen \subseteq seen' /\ (UNCHANGED seen \/ kind \in seen')
BY DEF Faultless, LineFault

\* What is left of a packet without its head: no packet, and at most one short one, last.
LEMMA StraysAre ==
  ASSUME NEW s \in Strays
  PROVE  s \in Seq(Message) /\ Bare(s)
<1> DEFINE E == Byte("EOT")
           S == Byte("short")
           K == Byte("CAN")
           G == Byte(Garbage)
<1>1. /\ E \in Message /\ S \in Message /\ K \in Message /\ G \in Message
      /\ S.kind = "short"
      /\ E.kind \notin {"packet", "short"} /\ K.kind \notin {"packet", "short"}
      /\ G.kind \notin {"packet", "short"}
  BY Sizes DEF Byte, Message, Garbage
<1>2. PICK ends \in {<<>>, <<E>>, <<E, E>>},
           rest \in {<<>>, <<S>>, <<K>>, <<K, K>>, <<G>>, <<G, G>>} : s = ends \o rest
  <2>1. PICK ends \in {<<>>, <<E>>, <<E, E>>},
             rest \in {<<>>, <<S>>} \union UNION {{<<b>>, <<b, b>>} : b \in {K, G}} : s = ends \o rest
    BY SMT DEF Strays
  <2>2. rest \in {<<>>, <<S>>, <<K>>, <<K, K>>, <<G>>, <<G, G>>}
    <3> HIDE DEF S, K, G
    <3>1. rest \in {<<>>, <<S>>} \/ \E b \in {K, G} : rest \in {<<b>>, <<b, b>>}
      BY <2>1
    <3> QED
      BY <3>1
  <2> QED
    BY <2>1, <2>2
<1> HIDE DEF E, S, K, G
<1>3. /\ ends \in Seq(Message) /\ \A i \in 1..Len(ends) : ends[i].kind \notin {"packet", "short"}
      /\ rest \in Seq(Message)
      /\ \A i \in 1..Len(rest) : rest[i].kind # "packet" /\ (rest[i].kind = "short" => i = Len(rest))
  <2>1. ends \in Seq(Message) /\ \A i \in 1..Len(ends) : ends[i].kind \notin {"packet", "short"}
    <3>1. CASE ends = <<>>
      BY <3>1
    <3>2. CASE ends = <<E>>
      BY <1>1, <3>2
    <3>3. CASE ends = <<E, E>>
      BY <1>1, <3>3
    <3> QED
      BY <1>2, <3>1, <3>2, <3>3
  <2>2. ASSUME NEW x \in {S, K, G}, rest \in {<<>>, <<x>>}
        PROVE  rest \in Seq(Message) /\ \A i \in 1..Len(rest) : rest[i].kind # "packet" /\ i = Len(rest)
    <3>1. x \in Message /\ x.kind # "packet"
      BY <1>1
    <3>2. CASE rest = <<x>>
      <4>1. rest \in Seq(Message) /\ Len(rest) = 1 /\ rest[1] = x
        BY <3>1, <3>2
      <4> QED
        BY <3>1, <4>1
    <3>3. CASE rest = <<>>
      BY <3>3
    <3> QED
      BY <2>2, <3>2, <3>3
  <2>3. ASSUME NEW x \in {K, G}, rest = <<x, x>>
        PROVE  rest \in Seq(Message) /\ \A i \in 1..Len(rest) : rest[i].kind \notin {"packet", "short"}
    BY <1>1, <2>3
  <2> QED
    BY <1>2, <2>1, <2>2, <2>3
<1>4. s \in Seq(Message)
  BY <1>2, <1>3
<1>5. ASSUME NEW i \in 1..Len(s)
      PROVE  s[i].kind # "packet" /\ (s[i].kind = "short" => i = Len(s))
  <2>1. Len(s) = Len(ends) + Len(rest) /\ Len(ends) \in Nat /\ Len(rest) \in Nat
    BY <1>2, <1>3
  <2>2. CASE i <= Len(ends)
    BY <1>2, <1>3, <1>5, <2>2
  <2>3. CASE i > Len(ends)
    <3>1. i - Len(ends) \in 1..Len(rest) /\ s[i] = rest[i - Len(ends)]
      BY <1>2, <1>3, <1>5, <2>1, <2>3
    <3> QED
      BY <1>3, <2>1, <3>1
  <2> QED
    BY <2>1, <2>2, <2>3
<1> QED
  BY <1>4, <1>5 DEF Bare

\* A byte less of it is no more than it was.
LEMMA BareTail ==
  ASSUME NEW s \in Seq(Message), s # <<>>, Bare(s)
  PROVE  /\ Bare(Tail(s)) /\ Tail(s) \in Seq(Message)
         /\ Head(s).kind # "packet" /\ (Head(s).kind = "short" => Tail(s) = <<>>)
<1> DEFINE t == Tail(s)
<1>1. /\ Len(s) \in Nat \ {0} /\ Head(s) = s[1] /\ t \in Seq(Message)
      /\ Len(t) = Len(s) - 1 /\ \A i \in 1..Len(t) : t[i] = s[i + 1]
  BY HeadTail
<1> HIDE DEF t
<1>2. Bare(t)
  <2> SUFFICES ASSUME NEW i \in 1..Len(t)
               PROVE  t[i].kind # "packet" /\ (t[i].kind = "short" => i = Len(t))
    BY DEF Bare
  <2>1. i + 1 \in 1..Len(s) /\ t[i] = s[i + 1]
    BY <1>1
  <2>2. s[i + 1].kind # "packet" /\ (s[i + 1].kind = "short" => i + 1 = Len(s))
    BY <2>1 DEF Bare
  <2>3. i + 1 = Len(s) => i = Len(t)
    BY <1>1
  <2> QED
    BY <2>1, <2>2, <2>3
<1>3. 1 \in 1..Len(s)
  BY <1>1
<1>4. s[1].kind # "packet" /\ (s[1].kind = "short" => 1 = Len(s))
  BY <1>3 DEF Bare
<1>5. 1 = Len(s) => t = <<>>
  BY <1>1
<1> QED
  BY <1>1, <1>2, <1>4, <1>5 DEF t

LEMMA ToReceiverIs ==
  ASSUME NEW m \in Message, Spoilt(m) \in Message, toR \in Seq(Message), ToReceiver(m)
  PROVE  /\ toR' \in Seq(Message) /\ seen \subseteq seen'
         /\ toR = <<>> => toR' \in {<<>>, <<m>>, <<Spoilt(m)>>} \/ Beheaded'
         /\ NoPacket /\ m.kind # "packet" /\ Spoilt(m).kind # "packet" => NoPacket'
<1>1. seen \subseteq seen'
  BY DEF ToReceiver, Faultless, LineFault
<1>2. \/ toR' = toR \/ toR' = Append(toR, m) \/ toR' = Append(toR, Spoilt(m))
      \/ m.kind = "packet" /\ "head" \in seen' /\ \E s \in Strays : toR' = toR \o s
  BY DEF ToReceiver, LineFault
<1>3. CASE toR' = toR \/ toR' = Append(toR, m) \/ toR' = Append(toR, Spoilt(m))
  <2>1. toR' \in Seq(Message)
    BY <1>3
  <2>2. toR = <<>> => toR' \in {<<>>, <<m>>, <<Spoilt(m)>>}
    BY <1>3, One
  <2>3. NoPacket /\ m.kind # "packet" /\ Spoilt(m).kind # "packet" => NoPacket'
    BY <1>3 DEF NoPacket
  <2> QED
    BY <1>1, <2>1, <2>2, <2>3
<1>4. CASE m.kind = "packet" /\ "head" \in seen' /\ \E s \in Strays : toR' = toR \o s
  <2>1. PICK s \in Strays : toR' = toR \o s
    BY <1>4
  <2>2. s \in Seq(Message) /\ Bare(s)
    BY StraysAre
  <2>3. toR = <<>> => toR' = s
    BY <2>1, <2>2
  <2>4. toR = <<>> => Beheaded'
    BY <1>4, <2>2, <2>3 DEF Beheaded, Bare
  <2>5. toR' \in Seq(Message)
    BY <2>1, <2>2
  <2> QED
    BY <1>1, <1>4, <2>4, <2>5
<1> QED
  BY <1>2, <1>3, <1>4

\* One byte in answer, which may be garbled or lost.
LEMMA AnswerIs ==
  ASSUME NEW b \in Bytes, toS \in Seq(Bytes), Answer(<<b>>)
  PROVE  /\ toS' \in Seq(Bytes) /\ seen \subseteq seen' /\ seen' \subseteq seen \cup {"answer"}
         /\ toS = <<>> => toS' \in {<<>>, <<b>>, <<Garbage>>}
         /\ toS = <<>> /\ toS' # <<b>> => "answer" \in seen'
         /\ NoAck /\ b # "ACK" => NoAck'
<1>1. \/ toS' = toS \o <<b>> /\ seen' = seen
      \/ toS' = toS \o <<Garbage>> /\ seen' = seen \cup {"answer"}
      \/ toS' = toS /\ seen' = seen \cup {"answer"}
  <2>1. toS \o Tail(<<b>>) = toS
    BY One
  <2>2. \A i \in 1..Len(<<b>>) : [<<b>> EXCEPT ![i] = Garbage] = <<Garbage>>
    OBVIOUS
  <2> QED
    BY <2>1, <2>2 DEF Answer, Faultless, LineFault
<1>2. Garbage \in Bytes /\ Garbage # "ACK"
  BY DEF Bytes, Garbage
<1>3. toS' \in Seq(Bytes)
  <2>1. \A x \in Bytes : <<x>> \in Seq(Bytes)
    OBVIOUS
  <2>2. \A t \in Seq(Bytes) : toS \o t \in Seq(Bytes)
    OBVIOUS
  <2> QED
    BY <1>1, <1>2, <2>1, <2>2
<1>4. NoAck /\ b # "ACK" => NoAck'
  BY <1>1, <1>2 DEF NoAck
<1> QED
  BY <1>1, <1>3, <1>4, One

LEMMA AnswersAre ==
  ASSUME toS = <<>>, Answer(<<"ACK", "C">>)
  PROVE  /\ toS' \in {<<"ACK", "C">>, <<"ACK", Garbage>>, <<Garbage, "C">>, <<"C">>}
         /\ seen \subseteq seen' /\ seen' \subseteq seen \cup {"answer"}
<1>1. \A i \in 1..Len(<<"ACK", "C">>) :
        [<<"ACK", "C">> EXCEPT ![i] = Garbage] \in {<<"ACK", Garbage>>, <<Garbage, "C">>}
  OBVIOUS
<1>2. Tail(<<"ACK", "C">>) = <<"C">>
  BY Two
<1> QED
  BY <1>1, <1>2, One, Two DEF Answer, Faultless, LineFault

LEMMA AnyAnswer ==
  ASSUME toS \in Seq(Bytes), NEW s \in Seq(Bytes), s # <<>>, Answer(s)
  PROVE  toS' \in Seq(Bytes) /\ seen \subseteq seen' /\ seen' \subseteq seen \cup {"answer"}
<1>1. Tail(s) \in Seq(Bytes) /\ \A i \in 1..Len(s) : [s EXCEPT ![i] = Garbage] \in Seq(Bytes)
  BY HeadTail DEF Bytes
<1>2. \A t \in Seq(Bytes) : toS \o t \in Seq(Bytes)
  OBVIOUS
<1>3. toS' \in Seq(Bytes)
  BY <1>1, <1>2 DEF Answer
<1> QED
  BY <1>3 DEF Answer, Faultless, LineFault

-----------------------------------------------------------------------------
(* send.                                                                   *)

\* Without a timeout too early a silent line is an empty one.
LEMMA Quietness ==
  ASSUME "early" \notin seen', NEW s, TimeoutWait(s)
  PROVE  toS = <<>> /\ toS' = <<>> /\ toR = <<>> /\ seen' = seen
         /\ ((Count /\ toR' = toR) \/ Abort)
BY FaultKeeps DEF TimeoutWait, Silence, Quiet, Early, Faultless, LineFault, Abort

\* A sender that stays at its stage and sends nothing.
LEMMA Waits ==
  ASSUME InStep, UNCHANGED <<size, receiver, stage, blk, result, toR, seen>>,
         stage # "data",
         \/ toS' = toS
         \/ toS # <<>> /\ toS' = Tail(toS) /\ (stage = "name" => Head(toS) # "ACK")
  PROVE  InStep'
<1>1. toS' = toS \/ (toS # <<>> /\ toS' = Tail(toS))
  OBVIOUS
<1>2. toS \in Seq(Bytes) /\ LineTyped /\ Opening
  BY DEF InStep, LineTyped
<1>3. toS' \in Seq(Bytes) /\ (NoAck => NoAck')
  <2>1. CASE toS # <<>> /\ toS' = Tail(toS)
    BY <1>2, <2>1, HeadTail DEF NoAck
  <2> QED
    BY <1>1, <1>2, <2>1 DEF NoAck
<1>4. LineTyped'
  BY <1>2, <1>3 DEF LineTyped, receiver
<1>5. Opening'
  <2>1. \A x : toS = <<x>> => toS' \in {<<>>, <<x>>}
    BY <1>1, One
  <2>2. \A x, y : toS = <<x, y>> => toS' \in {<<y>>, <<x, y>>} /\ Head(toS) = x
    BY <1>1, Two
  <2>3. CASE stage = "name"
    <3>1. CASE phase = "data"
      <4>1. toS \in {<<"ACK", "C">>, <<"ACK", Garbage>>} => toS' = toS
        BY <2>2, <2>3
      <4>2. toS' \in {<<"ACK", "C">>, <<"ACK", Garbage>>, <<Garbage, "C">>, <<"C">>, <<>>}
        BY <1>1, <1>2, <2>1, <2>2, <2>3, <3>1, <4>1 DEF Opening
      <4> QED
        BY <1>2, <2>3, <3>1, <4>2 DEF Opening, Waiting, receiver
    <3>2. CASE phase # "data"
      BY <1>1, <1>2, <1>3, <2>3, <3>2 DEF Opening, Beheaded, receiver
    <3> QED
      BY <3>1, <3>2
  <2>4. CASE stage \in {"crc", "ready"}
    BY <1>1, <1>2, <2>1, <2>4 DEF Opening, receiver
  <2>5. CASE stage \notin {"crc", "name", "ready"}
    BY <2>5 DEF Opening
  <2> QED
    BY <2>3, <2>4, <2>5
<1>6. Sending' /\ Exact' /\ Chain'
  BY DEF InStep, Sending, Exact, Chain, receiver
<1>7. Closing'
  BY <1>3 DEF InStep, Closing, NoPacket, receiver
<1> QED
  BY <1>4, <1>5, <1>6, <1>7 DEF InStep

LEMMA Aborts ==
  ASSUME InStep, UNCHANGED <<size, receiver>>, Abort, stage # "over",
         toS' \in Seq(Bytes), phase \in Waiting \union {"data"} => NoPacket
  PROVE  InStep'
<1>1. /\ stage' = "over" /\ result' = "false" /\ UNCHANGED <<blk, seen, size, phase, file>>
      /\ toR' = toR \o <<Byte("CAN"), Byte("CAN")>>
  BY DEF Abort, Return, Faultless, receiver
<1>2. LineTyped'
  BY <1>1, ByteIs DEF InStep, LineTyped
<1>3. Opening' /\ Sending' /\ Exact' /\ Chain'
  BY <1>1 DEF InStep, Opening, Sending, Exact, Chain
<1>4. NoPacket => NoPacket'
  <2> DEFINE can == Byte("CAN")
  <2>1. can.kind # "packet" /\ toR \in Seq(Message)
    BY ByteIs DEF InStep, LineTyped
  <2>2. toR' = toR \o <<can, can>>
    BY <1>1
  <2> HIDE DEF can
  <2>3. \A i \in 1..Len(toR') : (i \in 1..Len(toR) /\ toR'[i] = toR[i]) \/ toR'[i] = can
    BY <2>1, <2>2
  <2> QED
    BY <2>1, <2>3 DEF NoPacket
<1>5. Closing'
  BY <1>1, <1>4 DEF InStep, Closing
<1> QED
  BY <1>2, <1>3, <1>5 DEF InStep

LEMMA OpeningStep ==
  ASSUME InStep, "early" \notin seen',
         CrcC \/ CrcOther \/ NameAck \/ NameNak \/ NameOther \/ ReadyOther
  PROVE  InStep'
<1>1. LineTyped /\ Opening
  BY DEF InStep
<1>2. CASE CrcC
  <2>1. /\ stage = "crc" /\ stage' = "name" /\ phase = "header" /\ file = <<>> /\ toR = <<>>
        /\ toS' = <<>> /\ UNCHANGED <<size, phase, file, result, blk>> /\ ToReceiver(Packet(0))
    BY <1>1, <1>2, One DEF CrcC, At, Got, Goto, Opening, receiver, Garbage
  <2>2. toR' \in Seq(Message) /\ (toR' \in UnderWay(0) \/ Beheaded') /\ seen \subseteq seen'
    BY <1>1, <2>1, ToReceiverIs, PacketIs, Sizes DEF LineTyped, UnderWay
  <2>3. LineTyped' /\ Opening' /\ Sending' /\ Closing'
    BY <1>1, <2>1, <2>2 DEF LineTyped, Opening, Sending, Closing, Waiting
  <2>4. Exact' /\ Chain'
    BY <2>1, <2>2 DEF InStep, Exact, Chain, LineTyped
  <2> QED
    BY <2>3, <2>4 DEF InStep
<1>3. CASE NameAck
  <2>1. /\ stage = "name" /\ stage' = "ready" /\ toS # <<>> /\ Head(toS) = "ACK" /\ toS' = Tail(toS)
        /\ UNCHANGED <<size, phase, file, result, blk, toR, seen>>
    BY <1>3 DEF NameAck, At, Got, Goto, Faultless, receiver
  <2>2. phase = "data" /\ toR = <<>> /\ file = <<>> /\ toS \in {<<"ACK", "C">>, <<"ACK", Garbage>>}
    BY <1>1, <2>1, One, Two, HeadTail DEF LineTyped, Opening, NoAck, Garbage
  <2>3. toS' \in {<<"C">>, <<Garbage>>}
    <3>1. Tail(<<"ACK", "C">>) = <<"C">> /\ Tail(<<"ACK", Garbage>>) = <<Garbage>>
      BY Two
    <3> QED
      BY <2>1, <2>2, <3>1
  <2>4. LineTyped' /\ Opening' /\ Sending' /\ Closing'
    BY <1>1, <2>1, <2>2, <2>3 DEF LineTyped, Opening, Sending, Closing, Bytes
  <2>5. Exact' /\ Chain'
    BY <2>1 DEF InStep, Exact, Chain
  <2> QED
    BY <2>4, <2>5 DEF InStep
<1>4. CASE NameNak
  <2>1. /\ stage = "name" /\ toS # <<>> /\ Head(toS) = "NAK" /\ toS' = Tail(toS)
        /\ UNCHANGED <<size, receiver>>
        /\ Abort \/ (Count /\ ToReceiver(Packet(0)))
    BY <1>4 DEF NameNak, At, Got
  <2>2. phase = "none" /\ NoAck /\ toS' \in Seq(Bytes) /\ NoAck'
    BY <1>1, <2>1, One, Two, HeadTail DEF LineTyped, Opening, NoAck, Garbage
  <2>3. CASE Abort
    BY <2>1, <2>2, <2>3, Aborts DEF Waiting
  <2>4. CASE Count /\ ToReceiver(Packet(0))
    <3>1. toR' \in Seq(Message) /\ seen \subseteq seen'
      BY <1>1, <2>4, ToReceiverIs, PacketIs, Sizes DEF LineTyped
    <3>2. LineTyped' /\ Opening' /\ Sending' /\ Closing'
      BY <1>1, <2>1, <2>2, <2>4, <3>1 DEF LineTyped, Opening, Sending, Closing, Count, receiver
    <3>3. Exact' /\ Chain'
      BY <2>1, <2>4, <3>1 DEF InStep, Exact, Chain, Count, receiver
    <3> QED
      BY <3>2, <3>3 DEF InStep
  <2> QED
    BY <2>1, <2>3, <2>4
<1>5. CASE \E s \in {"crc", "name", "ready"} : TimeoutWait(s)
  <2>1. PICK s \in {"crc", "name", "ready"} : TimeoutWait(s)
    BY <1>5
  <2>2. /\ stage = s /\ toS = <<>> /\ toS' = <<>> /\ toR = <<>> /\ seen' = seen
        /\ UNCHANGED <<size, receiver>> /\ ((Count /\ toR' = toR) \/ Abort)
    BY <2>1, Quietness DEF TimeoutWait, At
  <2>3. CASE Count /\ toR' = toR
    BY <2>2, <2>3, Waits DEF Count
  <2>4. CASE Abort
    BY <2>2, <2>4, Aborts DEF NoPacket
  <2> QED
    BY <2>2, <2>3, <2>4
<1>6. CASE Unexpected("crc", {"C"}) \/ Unexpected("name", {"ACK", "NAK"}) \/ Unexpected("ready", {"C"})
  <2>1. /\ stage \in {"crc", "name", "ready"} /\ toS # <<>> /\ toS' = Tail(toS)
        /\ stage = "name" => Head(toS) # "ACK"
        /\ UNCHANGED <<size, receiver, stage, blk, result, toR, seen>>
    BY <1>6 DEF Unexpected, At, Got, Faultless, Garbage
  <2> QED
    BY <2>1, Waits
<1> QED
  BY <1>2, <1>3, <1>4, <1>5, <1>6 DEF CrcOther, NameOther, ReadyOther

\* The next block goes out, or the end of the file, on an empty line.
LEMMA SendsNext ==
  ASSUME InStep, NEW b \in Nat \ {0}, SendNext(b), UNCHANGED <<size, receiver>>,
         stage \in {"ready", "data"}, phase = "data", toR = <<>>, toS' = <<>>,
         b - 1 <= size, Len(file) < size => Latest = b - 1,
         seen \subseteq {"packet"} => Len(file) = b - 1
  PROVE  InStep'
<1>1. /\ blk' = b /\ result' = result /\ UNCHANGED <<size, phase, file>>
      /\ \/ b <= size /\ stage' = "data" /\ ToReceiver(Packet(b))
         \/ b > size /\ stage' = "eot" /\ ToReceiver(Byte("EOT"))
  BY DEF SendNext, Goto, receiver
<1>2. LineTyped /\ Chain /\ Exact /\ result = "none"
  BY DEF InStep, LineTyped
<1>3. Latest' = Latest
  BY <1>1 DEF Latest
<1>4. CASE b <= size /\ stage' = "data" /\ ToReceiver(Packet(b))
  <2>1. b \in 0..End
    BY <1>2, <1>4, Sizes DEF LineTyped, End
  <2>2. toR' \in Seq(Message) /\ (toR' \in UnderWay(b) \/ Beheaded') /\ seen \subseteq seen'
    BY <1>2, <1>4, <2>1, ToReceiverIs, PacketIs DEF LineTyped, UnderWay
  <2>3. LineTyped' /\ Opening' /\ Closing' /\ Chain'
    BY <1>1, <1>2, <1>4, <2>2 DEF LineTyped, Opening, Closing, Chain
  <2>4. Sending'
    BY <1>1, <1>3, <1>4, <2>2 DEF Sending, Paired
  <2>5. Exact'
    BY <1>1, <1>2, <1>4, <2>2 DEF Exact
  <2> QED
    BY <2>3, <2>4, <2>5 DEF InStep
<1>5. CASE b > size /\ stage' = "eot" /\ ToReceiver(Byte("EOT"))
  <2>1. toR' \in Seq(Message) /\ seen \subseteq seen' /\ NoPacket'
    BY <1>2, <1>5, ToReceiverIs, ByteIs DEF LineTyped, NoPacket, Garbage
  <2>2. NoAck'
    BY DEF NoAck
  <2>3. LineTyped' /\ Opening' /\ Sending' /\ Chain'
    BY <1>1, <1>2, <1>5, <2>1 DEF LineTyped, Opening, Sending, Chain
  <2>4. Closing'
    BY <1>1, <1>2, <1>5, <2>1, <2>2 DEF Closing
  <2>5. b - 1 = size
    BY <1>2, <1>5 DEF LineTyped
  <2>6. Exact'
    BY <1>1, <1>2, <1>5, <2>1, <2>5 DEF Exact
  <2> QED
    BY <2>3, <2>4, <2>6 DEF InStep
<1> QED
  BY <1>1, <1>4, <1>5

\* The same block again, on an empty line.
LEMMA Resends ==
  ASSUME InStep, stage = "data", Resend, UNCHANGED <<size, receiver, stage, blk, result>>,
         phase = "data", toR = <<>>, toS' = <<>>, toS # <<"ACK">>
  PROVE  InStep'
<1>1. /\ LineTyped /\ Sending /\ Chain /\ Exact /\ blk <= size
      /\ UNCHANGED <<phase, file>>
  BY DEF InStep, Sending, receiver
<1>2. Latest' = Latest
  BY <1>1 DEF Latest
<1>3. blk \in 0..End
  BY <1>1, Sizes DEF LineTyped, End
<1>4. toR' \in Seq(Message) /\ (toR' \in UnderWay(blk) \/ Beheaded') /\ seen \subseteq seen'
  BY <1>1, <1>3, ToReceiverIs, PacketIs DEF LineTyped, UnderWay, Resend
<1>5. LineTyped' /\ Opening' /\ Closing' /\ Chain'
  BY <1>1, <1>4 DEF LineTyped, Opening, Closing, Chain
<1>6. Sending'
  BY <1>1, <1>2, <1>4 DEF Sending, Paired, Left
<1>7. Exact'
  BY <1>1, <1>4 DEF Exact
<1> QED
  BY <1>5, <1>6, <1>7 DEF InStep

\* Blocks sent to a receiver that has left the file: none is written.
LEMMA SendsOn ==
  ASSUME InStep, stage = "data", Left, UNCHANGED <<size, receiver>>,
         \/ toS' = toS
         \/ toS # <<>> /\ toS' = Tail(toS),
         \/ Abort
         \/ SendNext(blk + 1)
         \/ Resend /\ UNCHANGED <<stage, blk, result>>
  PROVE  InStep'
<1>0. LineTyped /\ Chain /\ blk <= size
  BY DEF InStep, Sending
<1>1. LineTyped /\ Chain /\ blk <= size /\ result = "none" /\ blk \in Nat \ {0} /\ size \in 0..MaxBlocks
  BY <1>0 DEF LineTyped
<1>2. toS' \in Seq(Bytes) /\ (NoAck => NoAck')
  <2>1. CASE toS # <<>> /\ toS' = Tail(toS)
    BY <1>1, <2>1, HeadTail DEF LineTyped, NoAck
  <2>2. CASE toS' = toS
    BY <1>1, <2>2 DEF LineTyped, NoAck
  <2> QED
    BY <2>1, <2>2
<1>3. CASE Abort
  BY <1>2, <1>3, Aborts DEF Left, Waiting
<1>4. CASE SendNext(blk + 1) \/ (Resend /\ UNCHANGED <<stage, blk, result>>)
  <2>1. /\ UNCHANGED <<size, phase, file, result>>
        /\ blk' \in Nat \ {0} /\ stage' \in {"data", "eot"} /\ (stage' = "data" => blk' <= size)
    BY <1>1, <1>4 DEF SendNext, Goto, receiver
  <2>2. toR' \in Seq(Message) /\ seen \subseteq seen'
    <3>1. blk \in 0..End /\ (blk + 1 <= size => blk + 1 \in 0..End) /\ toR \in Seq(Message)
      BY <1>1, Sizes DEF LineTyped, End
    <3> QED
      BY <1>4, <3>1, ToReceiverIs, PacketIs, ByteIs DEF SendNext, Resend
  <2>3. LineTyped' /\ Opening' /\ Sending' /\ Closing'
    BY <1>1, <1>2, <2>1, <2>2 DEF LineTyped, Opening, Sending, Closing, Left, Waiting
  <2>4. Exact' /\ Chain'
    BY <1>1, <2>1, <2>2 DEF Exact, Chain, Left
  <2> QED
    BY <2>3, <2>4 DEF InStep
<1> QED
  BY <1>3, <1>4

LEMMA SendingStep ==
  ASSUME InStep, "early" \notin seen', ReadyC \/ DataAck \/ DataNak \/ DataOther \/ DataEarly
  PROVE  InStep'
<1>1. LineTyped /\ Opening /\ Sending /\ Exact
  BY DEF InStep
<1>0. CASE stage = "data" /\ Left
  <2>1. ~ReadyC /\ ~DataEarly
    BY <1>0 DEF ReadyC, DataEarly, At, LineFault
  <2>2. /\ UNCHANGED <<size, receiver>>
        /\ \/ toS' = toS
           \/ toS # <<>> /\ toS' = Tail(toS)
        /\ \/ Abort
           \/ SendNext(blk + 1)
           \/ Resend /\ UNCHANGED <<stage, blk, result>>
    BY <2>1 DEF DataAck, DataNak, DataOther, At, Got, Silence, Count
  <2> QED
    BY <1>0, <2>2, SendsOn
<1>2. CASE ReadyC
  <2>1. /\ stage = "ready" /\ toS # <<>> /\ Head(toS) = "C" /\ toS' = Tail(toS)
        /\ SendNext(1) /\ UNCHANGED <<size, receiver>>
    BY <1>2 DEF ReadyC, At, Got
  <2>2. phase = "data" /\ file = <<>> /\ toR = <<>> /\ toS' = <<>> /\ Latest = 0 /\ Len(file) = 0
    BY <1>1, <2>1, One DEF Opening, Latest
  <2> QED
    BY <1>1, <2>1, <2>2, SendsNext DEF LineTyped
<1>3. CASE DataAck
  <2>1. /\ stage = "data" /\ toS # <<>> /\ Head(toS) = "ACK" /\ toS' = Tail(toS)
        /\ SendNext(blk + 1) /\ UNCHANGED <<size, receiver>>
    BY <1>3 DEF DataAck, At, Got
  <2> SUFFICES ASSUME ~Left PROVE InStep'
    BY <1>0, <2>1
  <2>2. toS = <<"ACK">> /\ toS' = <<>> /\ toR = <<>> /\ phase = "data" /\ blk <= size
    BY <1>1, <2>1, One DEF Sending, Paired, Garbage
  <2>3. Len(file) < size => Latest = blk
    BY <1>1, <2>1, <2>2 DEF Sending, Paired
  <2>4. seen \subseteq {"packet"} => Len(file) = blk
    BY <1>1, <2>1, <2>2 DEF Exact
  <2>5. blk + 1 \in Nat \ {0} /\ (blk + 1) - 1 = blk
    BY <1>1 DEF LineTyped
  <2> QED
    BY <2>1, <2>2, <2>3, <2>4, <2>5, SendsNext
<1>4. ASSUME stage = "data", ~Left, toS # <<>>, toS' = Tail(toS), Head(toS) # "ACK"
      PROVE  phase = "data" /\ toR = <<>> /\ toS' = <<>> /\ toS # <<"ACK">> /\ NoPacket
  <2>1. phase = "data" /\ toR = <<>> /\ toS \in {<<"ACK">>, <<"NAK">>, <<Garbage>>}
    BY <1>1, <1>4 DEF Sending, Paired
  <2> QED
    <3>1. toS' = <<>> /\ toS # <<"ACK">>
      BY <1>4, <2>1, One
    <3>2. NoPacket
      BY <2>1 DEF NoPacket
    <3> QED
      BY <2>1, <3>1, <3>2
<1>5. CASE DataNak
  <2>1. /\ stage = "data" /\ toS # <<>> /\ Head(toS) = "NAK" /\ toS' = Tail(toS)
        /\ UNCHANGED <<size, receiver>>
        /\ Abort \/ (Resend /\ UNCHANGED <<stage, blk, result>>)
    BY <1>5 DEF DataNak, At, Got
  <2> SUFFICES ASSUME ~Left PROVE InStep'
    BY <1>0, <2>1
  <2>2. phase = "data" /\ toR = <<>> /\ toS' = <<>> /\ toS # <<"ACK">> /\ NoPacket
    BY <1>4, <2>1
  <2>3. CASE Abort
    <3>1. toS' \in Seq(Bytes)
      BY <2>2
    <3> QED
      BY <2>1, <2>2, <2>3, <3>1, Aborts
  <2>4. CASE Resend /\ UNCHANGED <<stage, blk, result>>
    BY <2>1, <2>2, <2>4, Resends
  <2> QED
    BY <2>1, <2>3, <2>4
<1>6. CASE DataOther
  <2>1. /\ stage = "data" /\ UNCHANGED <<size, receiver>>
        /\ Abort \/ (Resend /\ UNCHANGED <<stage, blk, result>>)
        /\ \/ toS = <<>> /\ toS' = <<>> /\ toR = <<>>
           \/ toS # <<>> /\ toS' = Tail(toS) /\ Head(toS) # "ACK"
    BY <1>6 DEF DataOther, At, Got, Silence, Early, Count, Garbage
  <2> SUFFICES ASSUME ~Left PROVE InStep'
    BY <1>0, <2>1
  <2>2. phase = "data" /\ toR = <<>> /\ toS' = <<>> /\ toS # <<"ACK">> /\ NoPacket
    BY <1>1, <1>4, <2>1 DEF NoPacket, Sending, Paired
  <2>3. CASE Abort
    <3>1. toS' \in Seq(Bytes)
      BY <2>2
    <3> QED
      BY <2>1, <2>2, <2>3, <3>1, Aborts
  <2>4. CASE Resend /\ UNCHANGED <<stage, blk, result>>
    BY <2>1, <2>2, <2>4, Resends
  <2> QED
    BY <2>1, <2>3, <2>4
<1>7. ~DataEarly
  BY DEF DataEarly, LineFault
<1> QED
  BY <1>2, <1>3, <1>5, <1>6, <1>7

LEMMA ClosingStep ==
  ASSUME InStep, "early" \notin seen',
         EotAck \/ EotCounted \/ EotUnexpected \/ NullAck \/ NullOther
  PROVE  InStep'
<1>1. LineTyped /\ Closing /\ Exact /\ Chain
  BY DEF InStep
<1>2. toS # <<>> /\ toS' = Tail(toS) => toS' \in Seq(Bytes) /\ (NoAck => NoAck' /\ Head(toS) # "ACK")
  BY <1>1, HeadTail DEF LineTyped, NoAck
<1>3. CASE EotAck
  <2>1. /\ stage = "eot" /\ stage' = "null" /\ toS # <<>> /\ Head(toS) = "ACK" /\ toS' = Tail(toS)
        /\ UNCHANGED <<size, phase, file, blk, result>> /\ ToReceiver(Packet(End))
    BY <1>3 DEF EotAck, At, Got, Goto, receiver
  <2>2. phase \in {"batch", "name"}
    BY <1>1, <1>2, <2>1 DEF Closing
  <2>3. toR' \in Seq(Message) /\ seen \subseteq seen'
    BY <1>1, <2>1, ToReceiverIs, PacketIs, Sizes DEF LineTyped
  <2>4. LineTyped' /\ Opening' /\ Sending' /\ Closing'
    BY <1>1, <1>2, <2>1, <2>2, <2>3 DEF LineTyped, Opening, Sending, Closing
  <2>5. Exact' /\ Chain'
    BY <1>1, <2>1, <2>3 DEF Exact, Chain
  <2> QED
    BY <2>4, <2>5 DEF InStep
<1>4. CASE EotCounted \/ EotUnexpected
  <2>1. /\ stage = "eot" /\ UNCHANGED <<size, receiver>>
        /\ \/ toS = <<>> /\ toS' = toS
           \/ toS # <<>> /\ toS' = Tail(toS) /\ Head(toS) # "ACK"
        /\ \/ Abort
           \/ ToReceiver(Byte("EOT")) /\ UNCHANGED <<stage, blk, result>>
    BY <1>4 DEF EotCounted, EotUnexpected, At, Got, Silence, Count, Garbage
  <2>2. toS' \in Seq(Bytes) /\ (NoAck => NoAck')
    BY <1>1, <1>2, <2>1 DEF LineTyped, NoAck
  <2>3. CASE Abort
    BY <1>1, <2>1, <2>2, <2>3, Aborts DEF Closing
  <2>4. CASE ToReceiver(Byte("EOT")) /\ UNCHANGED <<stage, blk, result>>
    <3>1. toR' \in Seq(Message) /\ seen \subseteq seen' /\ (NoPacket => NoPacket')
      BY <1>1, <2>4, ToReceiverIs, ByteIs DEF LineTyped, Garbage
    <3>2. LineTyped' /\ Opening' /\ Sending'
      BY <1>1, <2>1, <2>2, <2>4, <3>1 DEF LineTyped, Opening, Sending, receiver
    <3>3. Closing'
      BY <1>1, <2>1, <2>2, <2>4, <3>1 DEF Closing, receiver
    <3>4. Exact' /\ Chain'
      BY <1>1, <2>1, <2>4, <3>1 DEF Exact, Chain, receiver
    <3> QED
      BY <3>2, <3>3, <3>4 DEF InStep
  <2> QED
    BY <2>1, <2>3, <2>4
<1>5. CASE NullAck \/ NullOther
  <2>1. /\ stage = "null" /\ UNCHANGED <<size, phase, file, blk, toR, seen>>
        /\ toS' = toS \/ (toS # <<>> /\ toS' = Tail(toS))
        /\ \/ stage' = "over" /\ result' = "true"
           \/ UNCHANGED <<stage, result>>
    BY <1>5 DEF NullAck, NullOther, At, Got, Silence, Count, Return, Faultless, receiver
  <2>2. toS' \in Seq(Bytes)
    BY <1>1, <1>2, <2>1 DEF LineTyped
  <2>3. LineTyped' /\ Opening' /\ Sending' /\ Closing'
    BY <1>1, <2>1, <2>2 DEF LineTyped, Opening, Sending, Closing, Waiting
  <2>4. Exact' /\ Chain'
    BY <1>1, <2>1 DEF Exact, Chain
  <2> QED
    BY <2>3, <2>4 DEF InStep
<1> QED
  BY <1>3, <1>4, <1>5

-----------------------------------------------------------------------------
(* recv_file.                                                              *)

\* A receiver that writes nothing.
LEMMA ReceiverKeeps ==
  ASSUME InStep, UNCHANGED <<size, stage, blk, result, file>>, seen \subseteq seen'
  PROVE  (Exact' /\ Chain') \/ (stage = "data" /\ toS' # toS)
BY DEF InStep, Exact, Chain

LEMMA HeaderStep ==
  ASSUME InStep, Header
  PROVE  InStep'
<1>1. /\ phase \in Waiting /\ toR # <<>> /\ toR' = Tail(toR)
      /\ UNCHANGED <<size, stage, blk, result, file>>
  BY DEF Header, Take, sender, Quietly, Waiting
<1>2. LineTyped /\ Opening /\ Sending /\ Closing
  BY DEF InStep
<1>3. /\ toR' \in Seq(Message) /\ (NoPacket => NoPacket' /\ Msg.kind # "packet")
      /\ toR \in Seq(Message) /\ toS \in Seq(Bytes)
  BY <1>1, <1>2, HeadTail DEF LineTyped, NoPacket, Msg
<1>4. stage \in {"name", "over"} /\ result # "true"
  BY <1>1, <1>2 DEF LineTyped, Opening, Sending, Paired, Left, Closing, Waiting
<1>0. Msg.kind # "packet" => /\ phase' \in Waiting \union {"none"} /\ toS' = toS /\ seen' = seen
  BY <1>1 DEF Header, Quietly, Faultless, Waiting
<1>5. CASE stage = "name" /\ toR \in UnderWay(0)
  <2>1. file = <<>> /\ toS = <<>> /\ toR \in {<<Packet(0)>>, <<Spoilt(Packet(0))>>}
    BY <1>1, <1>2, <1>5 DEF Opening, UnderWay, Waiting
  <2>2. toR' = <<>> /\ Msg \in {Packet(0), Spoilt(Packet(0))}
    BY <1>1, <2>1, One DEF Msg
  <2>3. Msg.kind = "packet" /\ Msg.n # End /\ "NAK" \in Bytes
    BY <2>2, Sizes DEF Packet, Spoilt, End, Bytes
  <2>4. \/ phase' = "data" /\ Answer(<<"ACK", "C">>)
        \/ phase' = "none" /\ Answer(<<"NAK">>)
    BY <2>3 DEF Header, Garbage
  <2>5. CASE phase' = "data" /\ Answer(<<"ACK", "C">>)
    <3>1. /\ toS' \in {<<"ACK", "C">>, <<"ACK", Garbage>>, <<Garbage, "C">>, <<"C">>}
          /\ toS' \in Seq(Bytes) /\ seen \subseteq seen'
      <4>1. \A x, y \in Bytes : <<x>> \in Seq(Bytes) /\ <<x, y>> \in Seq(Bytes)
        OBVIOUS
      <4>2. "ACK" \in Bytes /\ "C" \in Bytes /\ Garbage \in Bytes
        BY DEF Bytes
      <4> QED
        BY <2>1, <2>5, <4>1, <4>2, AnswersAre
    <3>2. LineTyped' /\ Opening' /\ Sending' /\ Closing'
      BY <1>1, <1>2, <1>3, <1>5, <2>1, <2>2, <2>5, <3>1
      DEF LineTyped, Opening, Sending, Closing, Phases, Waiting
    <3> QED
      BY <1>1, <1>5, <3>1, <3>2, ReceiverKeeps DEF InStep
  <2>6. CASE phase' = "none" /\ Answer(<<"NAK">>)
    <3>1. toS' \in Seq(Bytes) /\ seen \subseteq seen' /\ NoAck'
      BY <1>3, <2>1, <2>3, <2>6, AnswerIs DEF NoAck
    <3>2. LineTyped' /\ Opening' /\ Sending' /\ Closing'
      BY <1>1, <1>2, <1>3, <1>5, <2>1, <2>2, <2>6, <3>1
      DEF LineTyped, Opening, Sending, Closing, Phases, Waiting
    <3> QED
      BY <1>1, <1>5, <3>1, <3>2, ReceiverKeeps DEF InStep
  <2> QED
    BY <2>4, <2>5, <2>6
<1>7. CASE stage = "name" /\ Beheaded
  <2>1. file = <<>> /\ toS = <<>>
    BY <1>1, <1>2, <1>7 DEF Opening, Waiting
  <2>2. Bare(toR') /\ Msg.kind # "packet"
    BY <1>1, <1>3, <1>7, BareTail DEF Beheaded, Msg
  <2>3. Beheaded' /\ phase' \in Waiting \union {"none"} /\ toS' = <<>> /\ seen' = seen
    BY <1>0, <1>7, <2>1, <2>2 DEF Beheaded
  <2>4. LineTyped'
    BY <1>1, <1>2, <1>3, <2>1, <2>3 DEF LineTyped, Phases, Waiting
  <2>5. NoAck'
    BY <2>3 DEF NoAck
  <2>6. Opening'
    BY <1>1, <1>7, <2>1, <2>3, <2>5 DEF Opening
  <2>7. Sending' /\ Closing'
    BY <1>1, <1>2, <1>7, <2>3 DEF LineTyped, Sending, Closing
  <2> QED
    BY <1>1, <1>7, <2>3, <2>4, <2>6, <2>7, ReceiverKeeps DEF InStep
<1>6. CASE stage = "over"
  <2>1. NoPacket /\ NoPacket' /\ Msg.kind # "packet"
    BY <1>1, <1>2, <1>3, <1>6 DEF Closing
  <2>2. phase' \in Waiting \union {"none"} /\ toS' = toS /\ seen' = seen
    BY <1>0, <2>1
  <2>3. LineTyped' /\ Opening' /\ Sending' /\ Closing'
    BY <1>1, <1>2, <1>3, <1>4, <1>6, <2>1, <2>2
    DEF LineTyped, Opening, Sending, Closing, Phases, Waiting
  <2> QED
    BY <1>1, <1>6, <2>2, <2>3, ReceiverKeeps DEF InStep
<1>8. stage = "name" => toR \in UnderWay(0) \/ Beheaded
  BY <1>1, <1>2 DEF Opening, Waiting
<1> QED
  BY <1>4, <1>5, <1>6, <1>7, <1>8

\* A block that is written follows the last one or repeats it.
LEMMA WrittenIs ==
  ASSUME LineTyped, Chain, NEW n \in Nat \ {0}, Len(file) < size => Latest = n \/ Latest = n - 1
  PROVE  /\ WithBlock(n) \in Seq(Nat)
         /\ Len(file) < size =>
              /\ WithBlock(n) # <<>> /\ Len(WithBlock(n)) = Len(file) + 1 /\ WithBlock(n)[Len(WithBlock(n))] = n
              /\ \A i \in 1..Len(file) : WithBlock(n)[i] = file[i]
         /\ Len(file) >= size => WithBlock(n) = file
         /\ \A i \in 1..Len(WithBlock(n)) :
              LET before == IF i = 1 THEN 0 ELSE WithBlock(n)[i - 1]
              IN  WithBlock(n)[i] = before + 1 \/ (i > 1 /\ WithBlock(n)[i] = before)
<1>1. file \in Seq(Nat) /\ size \in Nat /\ Len(file) \in Nat
  BY Sizes DEF LineTyped
<1>2. CASE Len(file) >= size
  <2>1. WithBlock(n) = file
    BY <1>1, <1>2 DEF WithBlock
  <2> QED
    BY <1>1, <1>2, <2>1 DEF Chain
<1>3. CASE Len(file) < size
  <2>1. WithBlock(n) = Append(file, n)
    BY <1>3 DEF WithBlock
  <2> DEFINE k == Len(file)
  <2>2. /\ Append(file, n) \in Seq(Nat) /\ Len(Append(file, n)) = k + 1 /\ Append(file, n)[k + 1] = n
        /\ Append(file, n) # <<>> /\ \A i \in 1..k : Append(file, n)[i] = file[i]
    BY <1>1
  <2>3. Latest = IF k = 0 THEN 0 ELSE file[k]
    BY <1>1 DEF Latest
  <2> DEFINE g == Append(file, n)
  <2> HIDE DEF g
  <2>4. ASSUME NEW i \in 1..(k + 1)
        PROVE  LET before == IF i = 1 THEN 0 ELSE g[i - 1]
               IN  g[i] = before + 1 \/ (i > 1 /\ g[i] = before)
    <3>1. CASE i \in 1..k
      <4>1. /\ g[i] = file[i] /\ (i # 1 => g[i - 1] = file[i - 1])
        BY <1>1, <2>2, <3>1 DEF g
      <4> QED
        BY <3>1, <4>1 DEF Chain
    <3>2. CASE i = k + 1
      <4>1. g[i] = n /\ (k # 0 => g[i - 1] = file[k])
        BY <1>1, <2>2, <3>2 DEF g
      <4> QED
        BY <1>1, <1>3, <2>3, <3>2, <4>1
    <3> QED
      BY <1>1, <3>1, <3>2
  <2> QED
    BY <1>1, <1>3, <2>1, <2>2, <2>4 DEF g
<1> QED
  BY <1>1, <1>2, <1>3

LEMMA DataStep ==
  ASSUME InStep, Data, "early" \notin seen'
  PROVE  InStep'
<1>1. /\ phase = "data" /\ phase' = phase /\ toR # <<>> /\ toR' = Tail(toR) /\ Msg.kind = "packet"
      /\ UNCHANGED <<size, stage, blk, result>>
      /\ \/ Msg.ok /\ file' = WithBlock(Msg.n) /\ Answer(<<"ACK">>)
         \/ ~Msg.ok /\ file' = file /\ Answer(<<"NAK">>)
  BY DEF Data, Take, sender
<1>2. LineTyped /\ Opening /\ Sending /\ Closing /\ Exact /\ Chain
  BY DEF InStep
<1>3. stage = "data" /\ ~Beheaded
  <2>1. NoPacket => Msg.kind # "packet"
    BY <1>1, <1>2, HeadTail DEF LineTyped, NoPacket, Msg
  <2>2. ~Beheaded
    BY <1>1, <1>2, BareTail DEF LineTyped, Beheaded, Msg
  <2> QED
    BY <1>1, <1>2, <2>1, <2>2 DEF LineTyped, Opening, Closing, Waiting
<1>4. /\ toS = <<>> /\ blk <= size /\ result = "none" /\ toR' = <<>>
      /\ Msg \in {Packet(blk), Spoilt(Packet(blk))}
  BY <1>1, <1>2, <1>3, One DEF LineTyped, Sending, Paired, Left, UnderWay, Msg
<1>5. blk \in Nat \ {0} /\ size \in Nat /\ blk \in 0..End /\ toS \in Seq(Bytes)
  BY <1>2, <1>4, Sizes DEF LineTyped, End
<1>6. Msg.n = blk
  BY <1>4 DEF Packet, Spoilt
<1>7. CASE Msg.ok /\ file' = WithBlock(blk) /\ Answer(<<"ACK">>)
  <2>1. /\ toS' \in Seq(Bytes) /\ seen \subseteq seen' /\ toS' \in {<<>>, <<"ACK">>, <<Garbage>>}
        /\ toS' # <<"ACK">> => "answer" \in seen'
    BY <1>4, <1>5, <1>7, AnswerIs DEF Bytes
  <2>2. Len(file) < size => Latest = blk \/ Latest = blk - 1
    BY <1>1, <1>2, <1>3 DEF Sending, Paired, Left
  <2>3. /\ file' \in Seq(Nat)
        /\ Len(file) < size => /\ file' # <<>> /\ Len(file') = Len(file) + 1 /\ file'[Len(file')] = blk
                               /\ \A i \in 1..Len(file) : file'[i] = file[i]
        /\ Len(file) >= size => file' = file
    BY <1>2, <1>5, <1>7, <2>2, WrittenIs
  <2>7. Chain'
    <3>1. \A i \in 1..Len(WithBlock(blk)) :
            LET before == IF i = 1 THEN 0 ELSE WithBlock(blk)[i - 1]
            IN  WithBlock(blk)[i] = before + 1 \/ (i > 1 /\ WithBlock(blk)[i] = before)
      BY <1>2, <1>5, <2>2, WrittenIs
    <3>2. file' = WithBlock(blk)
      BY <1>7
    <3> DEFINE g == WithBlock(blk)
    <3> HIDE DEF g
    <3>3. file' = g
      BY <3>2 DEF g
    <3>4. \A i \in 1..Len(g) : LET before == IF i = 1 THEN 0 ELSE g[i - 1]
                                IN  g[i] = before + 1 \/ (i > 1 /\ g[i] = before)
      BY <3>1 DEF g
    <3> QED
      BY <3>3, <3>4 DEF Chain
  <2>4. LineTyped' /\ Opening' /\ Closing'
    BY <1>1, <1>2, <1>3, <1>4, <2>1, <2>3 DEF LineTyped, Opening, Closing
  <2>5. Sending'
    <3>1. Len(file') < size => Latest' = blk
      BY <1>2, <1>5, <2>3 DEF Latest, LineTyped
    <3> QED
      BY <1>1, <1>3, <1>4, <2>1, <3>1 DEF Sending, Paired, UnderWay
  <2>6. Exact'
    <3> SUFFICES ASSUME seen' \subseteq {"packet"} PROVE Exact'
      BY DEF Exact
    <3>1. /\ \A i \in 1..Len(file) : file[i] = i
          /\ Len(file) = blk - 1 /\ toS' = <<"ACK">>
      BY <1>2, <1>3, <1>4, <2>1 DEF Exact
    <3>2. Len(file) < size /\ Len(file') = blk
      BY <1>4, <1>5, <2>3, <3>1
    <3>3. \A i \in 1..Len(file') : file'[i] = i
      BY <1>5, <2>3, <3>1, <3>2
    <3> QED
      BY <1>1, <1>3, <1>4, <3>1, <3>2, <3>3 DEF Exact
  <2> QED
    BY <2>4, <2>5, <2>6, <2>7 DEF InStep
<1>8. CASE ~Msg.ok /\ file' = file /\ Answer(<<"NAK">>)
  <2>1. toS' \in Seq(Bytes) /\ seen \subseteq seen' /\ toS' \in {<<>>, <<"NAK">>, <<Garbage>>}
    BY <1>4, <1>5, <1>8, AnswerIs DEF Bytes
  <2>2. toS' # <<"ACK">>
    BY <2>1 DEF Garbage
  <2>3. LineTyped' /\ Opening' /\ Closing' /\ Chain'
    BY <1>1, <1>2, <1>3, <1>4, <1>8, <2>1 DEF LineTyped, Opening, Closing, Chain
  <2>4. Latest' = Latest
    BY <1>8 DEF Latest
  <2>5. Sending'
    BY <1>1, <1>2, <1>3, <1>4, <1>8, <2>1, <2>2, <2>4 DEF Sending, Paired, Left, UnderWay
  <2>6. Exact'
    BY <1>1, <1>2, <1>3, <1>4, <1>8, <2>1, <2>2 DEF Exact
  <2> QED
    BY <2>3, <2>5, <2>6 DEF InStep
<1> QED
  BY <1>1, <1>6, <1>7, <1>8

\* What a short packet takes with it is no packet.
LEMMA SwallowedIs ==
  ASSUME NEW t \in Seq(Message), NEW u \in Swallowed(t)
  PROVE  /\ u \in Seq(Message) /\ (t = <<>> => u = <<>>)
         /\ (\A i \in 1..Len(t) : t[i].kind # "packet") => \A i \in 1..Len(u) : u[i].kind # "packet"
<1>1. CASE t = <<>>
  <2>1. u = <<>>
    BY <1>1 DEF Swallowed
  <2> QED
    BY <1>1, <2>1
<1>2. CASE t # <<>>
  <2>1. /\ Tail(t) \in Seq(Message) /\ Len(t) \in Nat \ {0} /\ Head(t) = t[1]
        /\ Len(Tail(t)) = Len(t) - 1 /\ \A i \in 1..Len(Tail(t)) : Tail(t)[i] = t[i + 1]
    BY <1>2, HeadTail
  <2>2. CASE Head(t).kind = "packet"
    <3>1. PICK s \in Strays : u = s \o Tail(t)
      BY <1>2, <2>2 DEF Swallowed
    <3>2. u \in Seq(Message)
      BY <2>1, <3>1, StraysAre
    <3> QED
      BY <1>2, <2>1, <2>2, <3>2
  <2>3. CASE Head(t).kind # "packet"
    <3>1. u \in {t, Tail(t)}
      BY <1>2, <2>3 DEF Swallowed
    <3> QED
      BY <1>2, <2>1, <3>1
  <2> QED
    BY <2>2, <2>3
<1> QED
  BY <1>1, <1>2

\* The end of the file, of the batch, and what comes when recv_file has returned.
LEMMA EndStep ==
  ASSUME InStep, "early" \notin seen',
         DataShort \/ DataEot \/ DataCan \/ DataGarbage \/ SecondEot \/ Batch \/ Ignored
  PROVE  InStep'
<1>1. LineTyped /\ Opening /\ Sending /\ Closing
  BY DEF InStep
<1>2. /\ toR # <<>> /\ UNCHANGED <<size, stage, blk, result, file>>
      /\ phase = "data" => Msg.kind # "packet"
      /\ phase \in {"data", "eot", "batch", "name", "none"}
  BY DEF DataShort, DataEot, DataCan, DataGarbage, SecondEot, Batch, Ignored, Take, Quietly, sender,
         receiver, Garbage
<1>3. \/ phase' = phase /\ phase \in {"data", "name", "none"} /\ toS' = toS
      \/ DataShort /\ phase = "data" /\ phase' = phase /\ Answer(<<"NAK">>)
      \/ phase = "data" /\ phase' = "eot" /\ Answer(<<"NAK">>)
      \/ phase' \in {"batch", "name"} /\ toS' \in Seq(Bytes) /\ phase \in {"data", "eot", "batch"}
  <2>1. toS \in Seq(Bytes) /\ <<"C">> \in Seq(Bytes) /\ <<"ACK", "C">> \in Seq(Bytes) /\ <<"ACK">> \in Seq(Bytes)
    BY <1>1 DEF LineTyped, Bytes
  <2>2. \A s \in {<<"C">>, <<"ACK", "C">>, <<"ACK">>} : Answer(s) => toS' \in Seq(Bytes)
    BY <2>1, AnyAnswer
  <2> QED
    BY <2>2 DEF DataShort, DataEot, DataCan, DataGarbage, SecondEot, Batch, Ignored, Take, Quietly,
                receiver
<1>4. seen \subseteq seen'
  BY DEF DataShort, DataEot, DataCan, DataGarbage, SecondEot, Batch, Ignored, Take, Quietly, Answer,
         Faultless, LineFault
<1>5. toR' \in Seq(Message) /\ (NoPacket => NoPacket')
  <2>1. /\ Tail(toR) \in Seq(Message) /\ Len(Tail(toR)) = Len(toR) - 1 /\ Len(toR) \in Nat
        /\ \A i \in 1..Len(Tail(toR)) : Tail(toR)[i] = toR[i + 1]
    BY <1>1, <1>2, HeadTail DEF LineTyped
  <2>2. Byte(Garbage) \in Message /\ Byte(Garbage).kind # "packet"
    BY Sizes DEF Byte, Message, Garbage
  <2>3. \/ toR' = Tail(toR) \/ toR' = <<>> \/ toR' = <<Byte(Garbage)>> \o Tail(toR)
        \/ toR' \in Swallowed(Tail(toR))
    BY DEF DataShort, DataEot, DataCan, DataGarbage, SecondEot, Batch, Ignored, Take
  <2>4. NoPacket => \A i \in 1..Len(Tail(toR)) : Tail(toR)[i].kind # "packet"
    BY <2>1 DEF NoPacket
  <2>5. CASE toR' = Tail(toR)
    BY <2>1, <2>4, <2>5 DEF NoPacket
  <2>8. CASE toR' = <<>>
    BY <2>8 DEF NoPacket
  <2>6. CASE toR' = <<Byte(Garbage)>> \o Tail(toR)
    <3> DEFINE g == Byte(Garbage)
    <3>1. toR' = <<g>> \o Tail(toR)
      BY <2>6
    <3>2. g \in Message /\ g.kind # "packet"
      BY <2>2
    <3> HIDE DEF g
    <3> QED
      BY <2>1, <2>4, <3>1, <3>2 DEF NoPacket
  <2>7. CASE toR' \in Swallowed(Tail(toR))
    BY <2>1, <2>4, <2>7, SwallowedIs DEF NoPacket
  <2> QED
    BY <2>3, <2>5, <2>6, <2>7, <2>8
<1>7. toS' \in Seq(Bytes) /\ (NoAck /\ phase' \in {"data", "eot", "none"} => NoAck')
  <2>1. toS \in Seq(Bytes) /\ "NAK" \in Bytes
    BY <1>1 DEF LineTyped, Bytes
  <2> QED
    BY <1>3, <2>1, AnswerIs DEF NoAck
<1>6. stage \in {"name", "ready"} => phase = "none"
  BY <1>1, <1>2 DEF Opening, Waiting
<1>8. LineTyped'
  BY <1>1, <1>2, <1>3, <1>5, <1>7 DEF LineTyped, Phases
<1>9. Opening'
  BY <1>1, <1>2, <1>3, <1>6, <1>7 DEF Opening, Waiting
<1>10. Closing'
  BY <1>1, <1>2, <1>3, <1>5, <1>7 DEF Closing, Waiting
<1>12. CASE stage # "data"
  BY <1>2, <1>4, <1>8, <1>9, <1>10, <1>12, ReceiverKeeps DEF InStep, Sending
<1>13. CASE stage = "data"
  <2>1. blk <= size /\ (Paired \/ Left)
    BY <1>1, <1>13 DEF Sending
  <2>2. "head" \in seen'
    <3>1. ASSUME Paired, toR \in UnderWay(blk) PROVE FALSE
      <4>1. Msg \in {Packet(blk), Spoilt(Packet(blk))}
        BY <1>2, <3>1, One DEF UnderWay, Msg
      <4> QED
        BY <1>2, <3>1, <4>1 DEF Paired, Packet, Spoilt
    <3> QED
      BY <1>2, <1>4, <2>1, <3>1 DEF Paired, Left, Beheaded
  <2>3. Sending'
    <3>1. CASE Left
      <4>1. phase \in {"eot", "batch", "name"} /\ phase' \in {"batch", "name"}
        BY <1>2, <1>3, <3>1 DEF Left, DataShort, DataEot, DataCan, DataGarbage, SecondEot, Batch,
                                Ignored, Take, Quietly, receiver
      <4> QED
        BY <1>2, <2>1, <2>2, <4>1 DEF Sending, Left
    <3>2. CASE ~Left
      <4>1. Paired /\ phase = "data" /\ toS = <<>> /\ Beheaded
        <5>1. ASSUME toR \in UnderWay(blk) PROVE Msg \in {Packet(blk), Spoilt(Packet(blk))}
          BY <1>2, <5>1, One DEF UnderWay, Msg
        <5>2. Paired
          BY <2>1, <3>2
        <5>3. toR \notin UnderWay(blk)
          BY <1>2, <5>1, <5>2 DEF Paired, Packet, Spoilt
        <5> QED
          BY <1>2, <5>2, <5>3 DEF Paired
      <4>2. /\ Bare(Tail(toR)) /\ (Msg.kind = "short" => Tail(toR) = <<>>)
            /\ Len(file) < size => Latest = blk \/ Latest = blk - 1
        BY <1>1, <1>2, <4>1, BareTail DEF LineTyped, Beheaded, Msg, Paired
      <4>3. Latest' = Latest
        BY <1>2 DEF Latest
      <4>4. CASE phase' = "data" /\ ~DataShort
        <5>1. DataGarbage
          BY <4>1, <4>4 DEF DataEot, DataCan, SecondEot, Batch, Ignored, Take
        <5>2. toR' = Tail(toR) /\ toS' = <<>>
          BY <4>1, <5>1 DEF DataGarbage, Take, Quietly
        <5>3. Beheaded'
          BY <2>2, <4>2, <5>2 DEF Beheaded
        <5> QED
          BY <1>2, <2>1, <4>1, <4>2, <4>3, <4>4, <5>2, <5>3 DEF Sending, Paired
      <4>5. CASE DataShort
        <5>1. toR' = <<>> /\ phase' = "data" /\ Answer(<<"NAK">>)
          BY <1>1, <4>1, <4>2, <4>5, SwallowedIs DEF DataShort, receiver, LineTyped, Swallowed
        <5>2. toS' \in {<<>>, <<"NAK">>, <<Garbage>>}
          <6>1. "NAK" \in Bytes /\ toS \in Seq(Bytes)
            BY <1>1 DEF Bytes, LineTyped
          <6> QED
            BY <4>1, <5>1, <6>1, AnswerIs
        <5>3. toS' # <<"ACK">>
          BY <5>2 DEF Garbage
        <5> QED
          BY <1>2, <2>1, <4>2, <4>3, <5>1, <5>2, <5>3 DEF Sending, Paired, UnderWay
      <4>6. CASE phase' \in {"eot", "batch", "name"}
        <5>1. NoAck
          BY <4>1 DEF NoAck
        <5> QED
          BY <1>2, <1>7, <2>1, <2>2, <4>6, <5>1 DEF Sending, Left
      <4> QED
        BY <1>3, <4>1, <4>4, <4>5, <4>6
    <3> QED
      BY <3>1, <3>2
  <2>4. Exact' /\ Chain'
    BY <1>2, <2>2 DEF InStep, Exact, Chain
  <2> QED
    BY <1>8, <1>9, <1>10, <2>3, <2>4 DEF InStep
<1> QED
  BY <1>12, <1>13

-----------------------------------------------------------------------------
(* The theorems.                                                           *)

LEMMA Begins == LineInit => LineInv
<1> SUFFICES ASSUME LineInit PROVE InStep
  BY DEF LineInv
<1>1. LineTyped
  <2>1. toS \in Seq(Bytes)
    <3>1. toS \in {<<"C">>, <<>>, <<Garbage>>}
      BY DEF LineInit
    <3>2. \A x \in Bytes : <<x>> \in Seq(Bytes)
      OBVIOUS
    <3>3. "C" \in Bytes /\ Garbage \in Bytes /\ <<>> \in Seq(Bytes)
      BY DEF Bytes
    <3> QED
      BY <3>1, <3>2, <3>3
  <2>2. file \in Seq(Nat) /\ toR \in Seq(Message)
    BY DEF LineInit
  <2> QED
    BY <2>1, <2>2 DEF LineInit, LineTyped, Phases
<1>2. Opening /\ Sending /\ Closing /\ Exact /\ Chain
  BY DEF LineInit, Opening, Sending, Closing, Exact, Chain
<1> QED
  BY <1>1, <1>2 DEF InStep

LEMMA Steps == LineInv /\ [LineNext]_lineVars => LineInv'
<1> SUFFICES ASSUME LineInv, [LineNext]_lineVars, "early" \notin seen'
             PROVE  InStep'
  BY DEF LineInv
<1>1. CASE UNCHANGED lineVars
  <2>1. InStep
    BY <1>1 DEF LineInv, lineVars
  <2> QED
    BY <1>1, <2>1 DEF InStep, LineTyped, Opening, Sending, Paired, Left, Closing, Exact, Chain, NoAck, NoPacket, Latest,
                      Beheaded, lineVars, sender, receiver, line
<1>2. CASE LineNext
  <2>1. seen \subseteq seen'
    BY <1>2 DEF LineNext, Send, Receive, CrcC, CrcOther, TimeoutWait, Unexpected, NameAck, NameNak, NameOther,
       ReadyC, ReadyOther, SendNext, DataAck, DataNak, DataOther, DataEarly, Resend, EotAck, EotCounted,
       EotUnexpected, NullAck, NullOther, Abort, Quiet, ToReceiver, Header, Data, DataShort, DataEot, DataCan,
       DataGarbage, SecondEot, Batch, Ignored, Quietly, Answer, Faultless, LineFault
  <2>2. InStep
    BY <2>1 DEF LineInv
  <2> QED
    BY <1>2, <2>2, OpeningStep, SendingStep, ClosingStep, HeaderStep, DataStep, EndStep
       DEF LineNext, Send, Receive
<1> QED
  BY <1>1, <1>2

LEMMA Always == LineSpec => []LineInv
BY Begins, Steps, PTL DEF LineSpec

\* A send that returns True has left an exact copy, for files of any size and any number
\* of packets lost whole or garbled behind their first byte, if every answer arrived in
\* time; of packets without their first byte it says nothing (TrueOnSuccess is false).
THEOREM CopyIsExact == LineSpec => []ExactCopy
<1>1. LineInv => ExactCopy
  <2> SUFFICES ASSUME LineInv, result = "true", seen \subseteq {"packet"}
               PROVE  file = [i \in 1..size |-> i]
    BY DEF ExactCopy
  <2>1. LineTyped /\ Exact
    BY DEF LineInv, InStep
  <2>2. Len(file) = size /\ \A i \in 1..size : file[i] = i
    BY <2>1 DEF Exact
  <2>3. file = [i \in 1..Len(file) |-> file[i]]
    BY <2>1 DEF LineTyped
  <2> QED
    BY <2>2, <2>3
<1> QED
  BY <1>1, Always, PTL

\* Whatever packets, first bytes and answers are lost or garbled, recv_file leaves no block
\* out between others, as long as no sender gives up on an answer that is on its way.
THEOREM NoneSkipped == LineSpec => []NoSkip
<1>1. LineInv => NoSkip
  BY DEF LineInv, InStep, Chain, NoSkip
<1> QED
  BY <1>1, Always, PTL

-----------------------------------------------------------------------------
(* The types of the line, early timeouts included: err is only reset where *)
(* naks is, so that it outgrows the retry limit by the NAKs at most.       *)

Counted ==
  /\ naks < Retry /\ err <= Retry - 1 + naks
  /\ stage = "data" => blk <= size

LineTypes == LineTypeOK /\ Counted

LEMMA LinePuts ==
  ASSUME NEW m \in Message, toR \in Seq(Message), ToReceiver(m)
  PROVE  toR' \in Seq(Message)
<1>1. Spoilt(m) \in Message
  <2>1. CASE m.kind = "packet"
    <3>1. Spoilt(m) = [m EXCEPT !.ok = FALSE]
      BY <2>1 DEF Spoilt
    <3> QED
      BY <3>1 DEF Message
  <2>2. CASE m.kind # "packet"
    BY <2>2, Sizes DEF Message, Spoilt, Byte
  <2> QED
    BY <2>1, <2>2
<1>2. CASE toR' = toR \/ toR' = Append(toR, m) \/ toR' = Append(toR, Spoilt(m))
  BY <1>1, <1>2
<1>3. CASE \E s \in Strays : toR' = toR \o s
  BY <1>3, StraysAre
<1> QED
  BY <1>2, <1>3 DEF ToReceiver

\* The faults a step may add.
LEMMA FaultsTyped ==
  ASSUME LineTypes,
         \/ Faultless
         \/ \E kind \in {"packet", "head", "answer", "early"} : LineFault(kind)
  PROVE  seen' \subseteq {"packet", "head", "answer", "early"} /\ lineFaults' \in 0..MaxLineFaults
<1>1. /\ seen \subseteq {"packet", "head", "answer", "early"} /\ lineFaults \in 0..MaxLineFaults
      /\ MaxLineFaults \in Nat
  BY SizeAssumption DEF LineTypes, LineTypeOK
<1>2. CASE Faultless
  BY <1>1, <1>2 DEF Faultless
<1>3. ASSUME NEW kind \in {"packet", "head", "answer", "early"}, LineFault(kind)
      PROVE  seen' \subseteq {"packet", "head", "answer", "early"} /\ lineFaults' \in 0..MaxLineFaults
  <2>1. lineFaults' \in 0..MaxLineFaults
    BY <1>1, <1>3 DEF LineFault
  <2>2. seen' \subseteq {"packet", "head", "answer", "early"}
    BY <1>1, <1>3 DEF LineFault
  <2> QED
    BY <2>1, <2>2
<1> QED
  BY <1>2, <1>3

LEMMA CountBound ==
  ASSUME NEW e \in Nat, NEW n \in Nat, n < Retry, e <= Retry - 1 + n
  PROVE  e \in 0..(2 * Retry) /\ n \in 0..Retry
BY Sizes

LEMMA GotTyped ==
  ASSUME LineTypes, Silence \/ \E b \in Bytes : Got(b)
  PROVE  toS' \in Seq(Bytes)
<1>1. toS \in Seq(Bytes) /\ (toS # <<>> => Tail(toS) \in Seq(Bytes))
  BY HeadTail DEF LineTypes, LineTypeOK, Bytes
<1> QED
  BY <1>1 DEF Silence, Got

\* A step of the sender: what it does to its own variables and to the line.
LEMMA SenderTyped ==
  ASSUME LineTypes, UNCHANGED <<size, receiver>>,
         Silence \/ \E b \in Bytes : Got(b),
         \/ Faultless
         \/ \E kind \in {"packet", "head", "answer", "early"} : LineFault(kind),
         toR' \in Seq(Message), blk' \in 1..End, stage' = "data" => blk' <= size,
         stage' \in {"crc", "name", "ready", "data", "eot", "null", "over"},
         result' \in {"none", "true", "false"},
         naks' \in Nat, naks' < Retry, err' \in Nat, err' <= Retry - 1 + naks'
  PROVE  LineTypes'
<1>1. toS' \in Seq(Bytes) /\ seen' \subseteq {"packet", "head", "answer", "early"} /\ lineFaults' \in 0..MaxLineFaults
  BY GotTyped, FaultsTyped
<1>2. err' \in 0..(2 * Retry) /\ naks' \in 0..Retry
  BY CountBound
<1> QED
  BY <1>1, <1>2 DEF LineTypes, LineTypeOK, Counted, receiver, Bytes

\* What is sent: a packet, EOT, or CAN twice.
LEMMA SentIs ==
  ASSUME LineTypes
  PROVE  /\ \A n \in 0..End : Packet(n) \in Message
         /\ Byte("EOT") \in Message /\ Byte("CAN") \in Message /\ Byte(Garbage) \in Message
         /\ toR \in Seq(Message) /\ toR \o <<Byte("CAN"), Byte("CAN")>> \in Seq(Message)
         /\ blk \in 1..End /\ End \in 0..End /\ 0 \in 0..End /\ blk \in 0..End /\ 1 \in 1..End
         /\ size \in 0..MaxBlocks /\ End = MaxBlocks + 1
<1>1. Byte("EOT") \in Message /\ Byte("CAN") \in Message /\ Byte(Garbage) \in Message
  BY Sizes DEF Byte, Message
<1>2. <<Byte("CAN"), Byte("CAN")>> \in Seq(Message)
  BY <1>1
<1> QED
  BY <1>1, <1>2, PacketIs, Sizes DEF LineTypes, LineTypeOK, End

\* The counters: counted once more below the limit, reset, or left.
LEMMA CountIs ==
  ASSUME LineTypes
  PROVE  /\ naks \in Nat /\ naks < Retry /\ err \in Nat /\ err <= Retry - 1 + naks
         /\ ~Last => err + 1 \in Nat /\ err + 1 <= Retry - 1 + naks
         /\ naks + 1 < Retry => naks + 1 \in Nat /\ err + 1 <= Retry - 1 + (naks + 1)
         /\ 0 < Retry /\ 0 <= Retry - 1 + 0
BY Sizes DEF LineTypes, LineTypeOK, Counted, Last

\* A sender that gives up, or goes on waiting.
LEMMA KeepsTyped ==
  ASSUME LineTypes, UNCHANGED <<size, receiver>>,
         Silence \/ \E b \in Bytes : Got(b),
         \/ Abort
         \/ /\ \/ Faultless
               \/ \E kind \in {"packet", "head", "answer", "early"} : LineFault(kind)
            /\ toR' \in Seq(Message)
            /\ \/ ~Last /\ Count
               \/ Return("true")
               \/ err' = (IF Last THEN err ELSE err + 1) /\ UNCHANGED <<stage, blk, naks, result>>
  PROVE  LineTypes'
<1>1. /\ blk' = blk /\ naks' = naks /\ toR' \in Seq(Message)
      /\ \/ Faultless
         \/ \E kind \in {"packet", "head", "answer", "early"} : LineFault(kind)
  BY SentIs DEF Abort, Return, Count
<1>2. err' = err \/ (~Last /\ err' = err + 1)
  BY DEF Abort, Return, Count
<1>3. /\ stage' \in {stage, "over"} /\ result' \in {result, "true", "false"}
  BY DEF Abort, Return, Count
<1>4. /\ stage \in {"crc", "name", "ready", "data", "eot", "null", "over"}
      /\ result \in {"none", "true", "false"} /\ blk \in 1..End /\ (stage = "data" => blk <= size)
  BY DEF LineTypes, LineTypeOK, Counted
<1> QED
  BY <1>1, <1>2, <1>3, <1>4, CountIs, SenderTyped

LEMMA WaitsTyped ==
  ASSUME LineTypes, NEW s, NEW expected, TimeoutWait(s) \/ Unexpected(s, expected)
  PROVE  LineTypes'
<1>1. CASE TimeoutWait(s)
  <2>1. Silence /\ UNCHANGED <<size, receiver>>
    BY <1>1 DEF TimeoutWait, At
  <2>2. CASE ~Last /\ Count /\ Quiet /\ UNCHANGED toR
    BY <2>1, <2>2, KeepsTyped, SentIs DEF Quiet
  <2> QED
    BY <1>1, <2>1, <2>2, KeepsTyped DEF TimeoutWait
<1>2. CASE Unexpected(s, expected)
  BY <1>2, KeepsTyped, SentIs DEF Unexpected, At, Bytes
<1> QED
  BY <1>1, <1>2

\* The next packet, with the counters reset.
LEMMA GoesTyped ==
  ASSUME LineTypes, UNCHANGED <<size, receiver>>, \E b \in Bytes : Got(b),
         NEW s \in {"name", "ready", "data", "eot", "null"}, Goto(s),
         blk' \in 1..End, s = "data" => blk' <= size,
         \/ UNCHANGED toR /\ Faultless
         \/ \E m \in Message : ToReceiver(m)
  PROVE  LineTypes'
<1>1. /\ stage' = s /\ err' = 0 /\ naks' = 0 /\ result' \in {"none", "true", "false"}
  BY DEF Goto, LineTypes, LineTypeOK
<1>2. toR' \in Seq(Message)
  BY LinePuts, SentIs
<1>3. \/ Faultless
      \/ \E kind \in {"packet", "head", "answer", "early"} : LineFault(kind)
  BY DEF ToReceiver
<1> QED
  BY <1>1, <1>2, <1>3, CountIs, SenderTyped

LEMMA NextTyped ==
  ASSUME LineTypes, UNCHANGED <<size, receiver>>, \E b \in Bytes : Got(b), NEW n \in 1..(size + 1), SendNext(n)
  PROVE  LineTypes'
<1>1. size \in Nat /\ n \in 1..End /\ n \in 0..End /\ Packet(n) \in Message /\ Byte("EOT") \in Message
  BY SentIs, Sizes
<1>2. blk' = n
  BY DEF SendNext
<1>3. CASE n <= size /\ Goto("data") /\ ToReceiver(Packet(n))
  BY <1>1, <1>2, <1>3, GoesTyped
<1>4. CASE n > size /\ Goto("eot") /\ ToReceiver(Byte("EOT"))
  BY <1>1, <1>2, <1>4, GoesTyped
<1> QED
  BY <1>3, <1>4 DEF SendNext

LEMMA SendTyped ==
  ASSUME LineTypes, Send
  PROVE  LineTypes'
<1>0. /\ "C" \in Bytes /\ "ACK" \in Bytes /\ "NAK" \in Bytes /\ Garbage \in Bytes
      /\ \A m : ToReceiver(m) => \/ Faultless
                                 \/ \E kind \in {"packet", "head", "answer", "early"} : LineFault(kind)
  BY DEF Bytes, ToReceiver
<1>1. CASE CrcC
  BY <1>0, <1>1, GoesTyped, SentIs DEF CrcC, At
<1>2. CASE CrcOther \/ NameOther \/ ReadyOther
  BY <1>2, WaitsTyped DEF CrcOther, NameOther, ReadyOther
<1>3. CASE NameAck
  BY <1>0, <1>3, GoesTyped, SentIs DEF NameAck, At
<1>4. CASE NameNak
  <2>1. UNCHANGED <<size, receiver>> /\ Got("NAK")
    BY <1>4 DEF NameNak, At
  <2>2. CASE ~Last /\ Count /\ ToReceiver(Packet(0))
    <3>1. toR' \in Seq(Message)
      BY <2>2, LinePuts, SentIs
    <3> QED
      BY <1>0, <2>1, <2>2, <3>1, KeepsTyped
  <2> QED
    BY <1>0, <1>4, <2>1, <2>2, KeepsTyped DEF NameNak
<1>5. CASE ReadyC
  <2>1. 1 \in 1..(size + 1)
    BY SentIs
  <2> QED
    BY <1>0, <1>5, <2>1, NextTyped DEF ReadyC, At
<1>6. CASE DataAck
  <2>1. blk + 1 \in 1..(size + 1)
    BY <1>6, SentIs DEF DataAck, At, LineTypes, Counted
  <2> QED
    BY <1>0, <1>6, <2>1, NextTyped DEF DataAck, At
<1>7. CASE DataNak
  <2>1. UNCHANGED <<size, receiver>> /\ Got("NAK") /\ stage = "data"
    BY <1>7 DEF DataNak, At
  <2>2. CASE naks + 1 < Retry /\ naks' = naks + 1 /\ err' = err + 1 /\ UNCHANGED <<stage, blk, result>> /\ Resend
    <3>1. toR' \in Seq(Message) /\ ToReceiver(Packet(blk))
      BY <2>2, LinePuts, SentIs DEF Resend
    <3>2. /\ stage' \in {"crc", "name", "ready", "data", "eot", "null", "over"}
          /\ result' \in {"none", "true", "false"} /\ blk' \in 1..End /\ blk' <= size
      BY <2>1, <2>2 DEF LineTypes, LineTypeOK, Counted
    <3>3. naks' \in Nat /\ naks' < Retry /\ err' \in Nat /\ err' <= Retry - 1 + naks'
      BY <2>2, CountIs
    <3> QED
      BY <1>0, <2>1, <3>1, <3>2, <3>3, SenderTyped
  <2> QED
    BY <1>0, <1>7, <2>1, <2>2, KeepsTyped DEF DataNak
<1>8. CASE DataOther
  <2>1. UNCHANGED <<size, receiver>> /\ (Silence \/ \E b \in Bytes : Got(b))
    BY <1>0, <1>8 DEF DataOther, At
  <2>2. CASE ~Last /\ Count /\ Resend
    <3>1. toR' \in Seq(Message) /\ ToReceiver(Packet(blk))
      BY <2>2, LinePuts, SentIs DEF Resend
    <3> QED
      BY <1>0, <2>1, <2>2, <3>1, KeepsTyped
  <2> QED
    BY <1>8, <2>1, <2>2, KeepsTyped DEF DataOther
<1>9. CASE DataEarly
  BY <1>9, KeepsTyped, SentIs DEF DataEarly, At
<1>10. CASE EotAck
  BY <1>0, <1>10, GoesTyped, SentIs DEF EotAck, At
<1>11. CASE EotCounted
  <2>1. UNCHANGED <<size, receiver>> /\ (Silence \/ \E b \in Bytes : Got(b))
    BY <1>0, <1>11 DEF EotCounted, At
  <2>2. CASE ~Last /\ Count /\ ToReceiver(Byte("EOT"))
    <3>1. toR' \in Seq(Message)
      BY <2>2, LinePuts, SentIs
    <3> QED
      BY <1>0, <2>1, <2>2, <3>1, KeepsTyped
  <2> QED
    BY <1>11, <2>1, <2>2, KeepsTyped DEF EotCounted
<1>12. CASE EotUnexpected
  <2>1. UNCHANGED <<size, receiver>> /\ (\E b \in Bytes : Got(b)) /\ ToReceiver(Byte("EOT"))
    BY <1>0, <1>12 DEF EotUnexpected, At
  <2>2. toR' \in Seq(Message)
    BY <2>1, LinePuts, SentIs
  <2> QED
    BY <1>0, <1>12, <2>1, <2>2, KeepsTyped DEF EotUnexpected
<1>13. CASE NullAck
  <2>1. /\ UNCHANGED <<size, receiver>> /\ (\E b \in Bytes : Got(b)) /\ Return("true")
        /\ UNCHANGED toR /\ Faultless
    BY <1>0, <1>13 DEF NullAck, At
  <2> QED
    BY <2>1, KeepsTyped, SentIs
<1>14. CASE NullOther
  <2>1. UNCHANGED <<size, receiver>> /\ (Silence \/ \E b \in Bytes : Got(b))
    BY <1>0, <1>14 DEF NullOther, At
  <2> QED
    BY <1>14, <2>1, KeepsTyped, SentIs DEF NullOther
<1> QED
  BY <1>1, <1>2, <1>3, <1>4, <1>5, <1>6, <1>7, <1>8, <1>9, <1>10, <1>11, <1>12, <1>13, <1>14 DEF Send

\* A step of the receiver: the sender waits.
LEMMA ReceiverTyped ==
  ASSUME LineTypes, UNCHANGED <<size, sender>>, toR' \in Seq(Message), toS' \in Seq(Bytes),
         \/ Faultless
         \/ \E kind \in {"packet", "head", "answer", "early"} : LineFault(kind),
         phase' \in Phases,
         file' \in Seq(0..End), Len(file') <= size
  PROVE  LineTypes'
BY FaultsTyped DEF LineTypes, LineTypeOK, Counted, sender, Bytes

LEMMA AnswerTyped ==
  ASSUME LineTypes, NEW s \in Seq(Bytes), s # <<>>, Answer(s)
  PROVE  /\ toS' \in Seq(Bytes)
         /\ \/ Faultless
            \/ \E kind \in {"packet", "head", "answer", "early"} : LineFault(kind)
<1>1. toS \in Seq(Bytes)
  BY DEF LineTypes, LineTypeOK, Bytes
<1> QED
  BY <1>1, AnyAnswer DEF Answer

LEMMA TakeTyped ==
  ASSUME LineTypes, toR # <<>>
  PROVE  Msg \in Message /\ Tail(toR) \in Seq(Message) /\ <<Byte(Garbage)>> \o Tail(toR) \in Seq(Message)
<1>1. toR \in Seq(Message)
  BY DEF LineTypes, LineTypeOK
<1>2. Msg \in Message /\ Tail(toR) \in Seq(Message)
  BY <1>1, HeadTail DEF Msg
<1>3. <<Byte(Garbage)>> \in Seq(Message)
  BY SentIs
<1> QED
  BY <1>2, <1>3

LEMMA WritesTyped ==
  ASSUME LineTypes, Msg \in Message
  PROVE  WithBlock(Msg.n) \in Seq(0..End) /\ Len(WithBlock(Msg.n)) <= size
<1>1. Msg.n \in 0..End /\ file \in Seq(0..End) /\ Len(file) <= size /\ size \in Nat
  BY Sizes DEF Message, LineTypes, LineTypeOK
<1> QED
  <2>1. CASE Len(file) < size
    <3>1. Append(file, Msg.n) \in Seq(0..End) /\ Len(Append(file, Msg.n)) = Len(file) + 1
      BY <1>1
    <3> QED
      BY <1>1, <2>1, <3>1 DEF WithBlock
  <2>2. CASE ~(Len(file) < size)
    BY <1>1, <2>2 DEF WithBlock
  <2> QED
    BY <2>1, <2>2

LEMMA ReceiveTyped ==
  ASSUME LineTypes, Receive
  PROVE  LineTypes'
<1>0. /\ <<"ACK">> \in Seq(Bytes) /\ <<"NAK">> \in Seq(Bytes) /\ <<"C">> \in Seq(Bytes)
      /\ <<"ACK", "C">> \in Seq(Bytes)
      /\ <<"ACK">> # <<>> /\ <<"NAK">> # <<>> /\ <<"C">> # <<>> /\ <<"ACK", "C">> # <<>>
      /\ file \in Seq(0..End) /\ Len(file) <= size /\ toS \in Seq(Bytes)
      /\ phase \in Phases
  BY DEF Bytes, LineTypes, LineTypeOK
<1>1. CASE Header
  <2>1. /\ UNCHANGED <<size, sender>> /\ toR # <<>> /\ toR' = Tail(toR) /\ UNCHANGED file
        /\ phase' \in Phases
        /\ Answer(<<"ACK", "C">>) \/ Answer(<<"NAK">>) \/ (UNCHANGED toS /\ Faultless)
    BY <1>1 DEF Header, Take, Quietly, Phases
  <2> QED
    BY <1>0, <2>1, TakeTyped, AnswerTyped, ReceiverTyped
<1>2. CASE Data
  <2>1. /\ UNCHANGED <<size, sender>> /\ toR # <<>> /\ toR' = Tail(toR) /\ UNCHANGED phase
        /\ Answer(<<"ACK">>) \/ Answer(<<"NAK">>)
        /\ file' = file \/ file' = WithBlock(Msg.n)
    BY <1>2 DEF Data, Take
  <2>2. toR' \in Seq(Message) /\ file' \in Seq(0..End) /\ Len(file') <= size
    BY <1>0, <2>1, TakeTyped, WritesTyped
  <2> QED
    BY <1>0, <2>1, <2>2, AnswerTyped, ReceiverTyped
<1>3. CASE DataEot \/ DataCan \/ Batch
  <2>1. /\ UNCHANGED <<size, sender>> /\ toR # <<>> /\ toR' = Tail(toR) /\ UNCHANGED file
        /\ phase' \in Phases
        /\ Answer(<<"NAK">>) \/ Answer(<<"C">>) \/ Answer(<<"ACK">>)
    BY <1>3 DEF DataEot, DataCan, Batch, Take, Phases
  <2> QED
    BY <1>0, <2>1, TakeTyped, AnswerTyped, ReceiverTyped
<1>4. CASE DataGarbage
  BY <1>0, <1>4, TakeTyped, ReceiverTyped DEF DataGarbage, Take, Quietly, Phases
<1>5. CASE SecondEot
  <2>1. /\ UNCHANGED <<size, sender>> /\ toR # <<>> /\ UNCHANGED file /\ phase' = "batch"
        /\ toR' = Tail(toR) \/ toR' = <<Byte(Garbage)>> \o Tail(toR)
        /\ Answer(<<"ACK", "C">>) \/ Answer(<<"C">>)
    BY <1>5 DEF SecondEot
  <2> QED
    BY <1>0, <2>1, TakeTyped, AnswerTyped, ReceiverTyped DEF Phases
<1>6. CASE Ignored
  BY <1>0, <1>6, ReceiverTyped DEF Ignored, receiver, Faultless
<1>7. CASE DataShort
  <2>1. /\ UNCHANGED <<size, sender, phase, file>> /\ toR # <<>> /\ Answer(<<"NAK">>)
        /\ toR' \in Swallowed(Tail(toR))
    BY <1>7 DEF DataShort, receiver
  <2>2. toR' \in Seq(Message)
    BY <2>1, TakeTyped, SwallowedIs
  <2> QED
    BY <1>0, <2>1, <2>2, AnswerTyped, ReceiverTyped
<1> QED
  BY <1>1, <1>2, <1>3, <1>4, <1>5, <1>6, <1>7 DEF Receive

\* On any line the counters stay bounded, the block sent is one of the file or the first
\* after it, and the receiver's file does not outgrow the size announced.
THEOREM LineTypeCorrect == LineSpec => []LineTypeOK
<1>1. LineInit => LineTypes
  <2> SUFFICES ASSUME LineInit PROVE LineTypes
    OBVIOUS
  <2>1. toS \in Seq(Bytes) /\ toR \in Seq(Message) /\ file \in Seq(0..End) /\ Len(file) = 0
    <3>1. <<>> \in Seq(Bytes) /\ <<"C">> \in Seq(Bytes) /\ <<Garbage>> \in Seq(Bytes)
      BY DEF Bytes
    <3> QED
      BY <3>1, EmptySeq DEF LineInit
  <2>2. seen \subseteq {"packet", "head", "answer", "early"} /\ lineFaults \in 0..MaxLineFaults
    BY SizeAssumption DEF LineInit
  <2>3. size \in 0..MaxBlocks /\ blk \in 1..End /\ err \in 0..(2 * Retry) /\ naks \in 0..Retry /\ Counted
    BY Sizes DEF LineInit, End, Counted
  <2> QED
    BY <2>1, <2>2, <2>3 DEF LineInit, LineTypes, LineTypeOK, Bytes, Phases
<1>2. LineTypes /\ UNCHANGED lineVars => LineTypes'
  BY DEF LineTypes, LineTypeOK, Counted, lineVars, sender, receiver, line
<1>3. LineTypes /\ [LineNext]_lineVars => LineTypes'
  BY <1>2, SendTyped, ReceiveTyped DEF LineNext
<1>4. LineTypes => LineTypeOK
  BY DEF LineTypes
<1> QED
  BY <1>1, <1>3, <1>4, PTL DEF LineSpec
=============================================================================
