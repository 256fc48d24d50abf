---------------------------- MODULE PcModeProofs ----------------------------
(***************************************************************************)
(* Who writes the user partition, for every number of PC mode sessions and *)
(* of failures.  The composite gadget is on the bus only while PC mode     *)
(* holds it there (Holds), and all that time the device has the partition  *)
(* unmounted, if the script is off then; that this survives the Tk loop    *)
(* needs InStep, what the thread and its posted calls say of the           *)
(* activity's state.                                                       *)
(***************************************************************************)
EXTENDS PcMode, SequenceTheorems, TLAPS

\* The USB variables and the others have their types.
UsbTyped ==
  /\ bound \in Modules \union {"none", "rescue"} /\ loaded \subseteq Modules
  /\ bound \in loaded \union {"none", "rescue"}
  /\ users \subseteq {"socat", "mirror"} /\ node \in BOOLEAN
ActivityTyped ==
  /\ mounted \in BOOLEAN /\ pm3 \in {"client", "free"}
  /\ script \in Scripts \union {"off"}
  /\ setting \in BOOLEAN /\ service \in BOOLEAN /\ toggled \in BOOLEAN
  /\ state \in {"none", "idle", "starting", "running", "stopping"}
  /\ worker \in Starting \union Stopping \union {"none"}
  /\ resume \in BOOLEAN
  /\ toast \in {"none", "processing", "running", "conflict"}
  /\ posts \in {<<>>, <<"toast">>, <<"finish">>, <<"toast", "finish">>}
  /\ sessions \in 0..MaxSessions /\ faults \in 0..MaxFaults /\ raced \in BOOLEAN

\* The thread works in the state its start has set; the posted finish is its last word.
InStep ==
  /\ worker \in Starting <=> state = "starting"
  /\ worker \in Stopping => state = "stopping"
  /\ posts \in {<<"finish">>, <<"toast", "finish">>} => state = "stopping" /\ worker = "none"
  /\ state \in {"none", "idle", "starting"} => posts = <<>>

\* From the modprobe of the composite gadget to its removal.
Holds == worker \in {"wait", "socat", "kill", "remove"} \/ state = "running"

\* What the boot exports is gone with the first modprobe -r of a session.
Early == state \in {"none", "idle"} \/ worker \in {"suspend", "ctrl", "again", "unload"}
InSession == state \in {"starting", "running"} \/ worker \in Stopping

Guarded ==
  faults = 0 =>
    /\ bound = "g_mass_storage" => Early
    /\ bound = "g_acm_ms" => Holds
    /\ ~raced /\ InSession => script = "off"
    /\ (Holds \/ worker = "modprobe") /\ ~raced => ~mounted

IInv == UsbTyped /\ ActivityTyped /\ InStep /\ Guarded

\* One post more, after none or after the one of the start.
LEMMA Pair ==
  ASSUME NEW x, NEW y
  PROVE  Append(<<x>>, y) = <<x, y>>
<1>1. <<x>> \in Seq({x, y}) /\ <<x, y>> \in Seq({x, y}) /\ y \in {x, y}
  OBVIOUS
<1>2. Append(<<x>>, y) \in Seq({x, y}) /\ Len(Append(<<x>>, y)) = 2
  BY <1>1, AppendProperties
<1>3. \A i \in 1..2 : Append(<<x>>, y)[i] = <<x, y>>[i]
  <2>1. Append(<<x>>, y)[1] = x /\ Append(<<x>>, y)[2] = y
    BY <1>1, AppendProperties
  <2> QED
    BY <2>1
<1> QED
  BY <1>1, <1>2, <1>3, SeqEqual

LEMMA PostTyped ==
  /\ Append(<<>>, "toast") = <<"toast">>
  /\ Append(<<>>, "finish") = <<"finish">>
  /\ Append(<<"toast">>, "finish") = <<"toast", "finish">>
  /\ Head(<<"toast">>) = "toast" /\ Tail(<<"toast">>) = <<>>
  /\ Head(<<"finish">>) = "finish" /\ Tail(<<"finish">>) = <<>>
  /\ Head(<<"toast", "finish">>) = "toast" /\ Tail(<<"toast", "finish">>) = <<"finish">>
<1>1. Append(<<>>, "toast") = <<"toast">>
  OBVIOUS
<1>2. Append(<<>>, "finish") = <<"finish">>
  OBVIOUS
<1>3. Append(<<"toast">>, "finish") = <<"toast", "finish">>
  BY Pair
<1>4. Head(<<"toast">>) = "toast" /\ Tail(<<"toast">>) = <<>>
  OBVIOUS
<1>5. Head(<<"finish">>) = "finish" /\ Tail(<<"finish">>) = <<>>
  OBVIOUS
<1>6. Head(<<"toast", "finish">>) = "toast" /\ Tail(<<"toast", "finish">>) = <<"finish">>
  OBVIOUS
<1> QED
  BY <1>1, <1>2, <1>3, <1>4, <1>5, <1>6

LEMMA InitInv == Init => IInv
<1> SUFFICES ASSUME Init PROVE IInv
  OBVIOUS
<1> USE DEF Init
<1>1. /\ bound \in Modules \union {"none", "rescue"} /\ loaded \subseteq Modules
      /\ bound \in loaded \union {"none", "rescue"}
  BY DEF Modules, Serials, Rescue
<1>2. node \in BOOLEAN
  <2>1. node = (bound \in Serials)
    OBVIOUS
  <2>2. (bound \in Serials) \in BOOLEAN
    OBVIOUS
  <2> QED
    BY <2>1, <2>2
<1>6. mounted \in BOOLEAN /\ resume \in BOOLEAN /\ raced \in BOOLEAN /\ toggled \in BOOLEAN
  OBVIOUS
<1>7. setting \in BOOLEAN /\ service \in BOOLEAN
  OBVIOUS
<1>8. script \in Scripts \union {"off"}
  BY DEF Scripts
<1>3. UsbTyped /\ ActivityTyped
  BY <1>1, <1>2, <1>6, <1>7, <1>8, BoundsAssumption DEF UsbTyped, ActivityTyped
<1>4. InStep
  BY DEF InStep, Starting, Stopping
<1>5. Guarded
  BY DEF Guarded, Holds, Early, InSession, Serials, Rescue, Starting, Stopping
<1> QED
  BY <1>3, <1>4, <1>5 DEF IInv

LEMMA Split == TypeOK <=> UsbTyped /\ ActivityTyped
  BY DEF TypeOK, UsbTyped, ActivityTyped

\* What modprobe, modprobe -r and the suspension of the rescue network leave.
LEMMA UnloadTyped ==
  ASSUME UsbTyped, NEW mods, Unload(mods)
  PROVE  UsbTyped'
<1>1. CASE bound \in mods
  BY <1>1 DEF UsbTyped, Unload, Free
<1>2. CASE bound \notin mods
  BY <1>2 DEF UsbTyped, Unload
<1> QED
  BY <1>1, <1>2

LEMMA LoadTyped ==
  ASSUME UsbTyped, NEW m \in Modules, Load(m)
  PROVE  UsbTyped'
  BY DEF UsbTyped, Load

LEMMA SuspendTyped == UsbTyped /\ Suspend => UsbTyped' /\ RescueActive \in BOOLEAN
<1>1. RescueActive \in BOOLEAN
  BY DEF RescueActive
<1>2. ASSUME UsbTyped, Suspend, RescueActive PROVE UsbTyped'
  BY <1>2 DEF UsbTyped, Suspend, Free
<1>3. ASSUME UsbTyped, Suspend, ~RescueActive PROVE UsbTyped'
  BY <1>3 DEF UsbTyped, Suspend, usb
<1> QED
  BY <1>1, <1>2, <1>3

\* Every step keeps it.
LEMMA StepInv == IInv /\ [Next]_vars => IInv'
<1> SUFFICES ASSUME IInv, [Next]_vars PROVE IInv'
  OBVIOUS
<1> USE BoundsAssumption DEF IInv, At, On, Quiet, Tk, Apart, usb, device, mirror, dialog,
          activity, bounds
<1>1. CASE Settle
  BY <1>1
  DEF Settle, UsbTyped, ActivityTyped, InStep, Guarded, Modules, Serials, Starting,
      Stopping, Holds, Early, InSession
<1>2. CASE Open
  BY <1>2
  DEF Open, UsbTyped, ActivityTyped, InStep, Guarded, Modules, Serials, Starting, Stopping,
      Holds, Early, InSession
<1>3. CASE Toggle
  BY <1>3
  DEF Toggle, UsbTyped, ActivityTyped, InStep, Guarded, Modules, Serials, Starting,
      Stopping, Holds, Early, InSession
<1>4. CASE Press
  <2>1. UsbTyped'
    BY <1>4 DEF Press, UsbTyped, Modules, Serials
  <2>2. ActivityTyped'
    BY <1>4 DEF Press, ActivityTyped, Starting, Stopping
  <2>3. InStep'
    BY <1>4 DEF Press, InStep, ActivityTyped, Starting, Stopping
  <2>4. Guarded'
    BY <1>4
    DEF Press, Guarded, InStep, ActivityTyped, Holds, Early, InSession, Starting, Stopping
  <2> QED
    BY <2>1, <2>2, <2>3, <2>4
<1>5. CASE Stop
  BY <1>5
  DEF Stop, UsbTyped, ActivityTyped, InStep, Guarded, Modules, Serials, Starting, Stopping,
      Holds, Early, InSession, Finish
<1>6. CASE Pwr
  <2>1. UsbTyped'
    BY <1>6 DEF Pwr, UsbTyped, Modules, Serials
  <2>2. ActivityTyped'
    BY <1>6 DEF Pwr, ActivityTyped, Starting, Stopping, Finish
  <2>3. InStep'
    BY <1>6 DEF Pwr, InStep, ActivityTyped, Starting, Stopping, Finish
  <2>4. Guarded'
    BY <1>6
    DEF Pwr, Guarded, InStep, ActivityTyped, Holds, Early, InSession, Starting, Stopping,
        Finish
  <2> QED
    BY <2>1, <2>2, <2>3, <2>4
<1>7. CASE ToastEnds
  BY <1>7
  DEF ToastEnds, UsbTyped, ActivityTyped, InStep, Guarded, Modules, Serials, Starting,
      Stopping, Holds, Early, InSession
<1>8. CASE Posted
  <2>1. UsbTyped'
    BY <1>8 DEF Posted, UsbTyped, Modules, Serials
  <2>2. ActivityTyped'
    <3>1. posts \in {<<"toast">>, <<"finish">>, <<"toast", "finish">>}
      BY <1>8 DEF Posted, ActivityTyped
    <3>2. posts' \in {<<>>, <<"finish">>}
      BY <1>8, <3>1, PostTyped DEF Posted
    <3> QED
      BY <1>8, <3>2
      DEF Posted, ActivityTyped, Starting, Stopping, device, mirror, dialog, activity,
          bounds, Tk, Quiet, At, Apart, Try, Fault, Finish
  <2>3. InStep'
    <3>1. posts \in {<<"toast">>, <<"finish">>, <<"toast", "finish">>} /\ posts' = Tail(posts)
      BY <1>8 DEF Posted, ActivityTyped
    <3>2. CASE posts = <<"toast">>
      BY <1>8, <3>1, <3>2, PostTyped DEF Posted, InStep
    <3>3. CASE posts = <<"finish">>
      BY <1>8, <3>1, <3>3, PostTyped DEF Posted, InStep, Starting, Stopping
    <3>4. CASE posts = <<"toast", "finish">>
      BY <1>8, <3>1, <3>4, PostTyped DEF Posted, InStep
    <3> QED
      BY <3>1, <3>2, <3>3, <3>4
  <2>4. Guarded'
    BY <1>8, PostTyped
    DEF Posted, Guarded, InStep, ActivityTyped, Holds, Early, InSession, Starting, Stopping
  <2> QED
    BY <2>1, <2>2, <2>3, <2>4
<1>9. CASE SuspendRescue
  <2>1. UsbTyped'
    BY <1>9, SuspendTyped DEF SuspendRescue, UsbTyped, Modules, Serials
  <2>2. ActivityTyped'
    BY <1>9, SuspendTyped DEF SuspendRescue, ActivityTyped, Starting, Stopping
  <2>3. InStep'
    BY <1>9
    DEF SuspendRescue, InStep, ActivityTyped, Starting, Stopping, Rescue, Suspend,
        RescueActive, Free
  <2>4. Guarded'
    BY <1>9
    DEF SuspendRescue, Guarded, InStep, ActivityTyped, Holds, Early, InSession, Starting,
        Stopping, Rescue, Suspend, RescueActive, Free
  <2> QED
    BY <2>1, <2>2, <2>3, <2>4
<1>10. CASE Detach
  BY <1>10
  DEF Detach, UsbTyped, ActivityTyped, InStep, Guarded, Modules, Serials, Starting,
      Stopping, Holds, Early, InSession
<1>11. CASE SuspendAgain
  <2>1. UsbTyped'
    BY <1>11, SuspendTyped DEF SuspendAgain, UsbTyped, Modules, Serials
  <2>2. ActivityTyped'
    BY <1>11, SuspendTyped DEF SuspendAgain, ActivityTyped, Starting, Stopping
  <2>3. InStep'
    BY <1>11
    DEF SuspendAgain, InStep, ActivityTyped, Starting, Stopping, Rescue, Suspend,
        RescueActive, Free
  <2>4. Guarded'
    BY <1>11
    DEF SuspendAgain, Guarded, InStep, ActivityTyped, Holds, Early, InSession, Starting,
        Stopping, Rescue, Suspend, RescueActive, Free
  <2> QED
    BY <2>1, <2>2, <2>3, <2>4
<1>12. CASE UnloadAll
  <2>1. UsbTyped'
    BY <1>12, UnloadTyped DEF UnloadAll, UsbTyped, Modules, Serials, Try
  <2>2. ActivityTyped'
    BY <1>12, UnloadTyped DEF UnloadAll, ActivityTyped, Starting, Stopping, Try, Fault
  <2>3. InStep'
    BY <1>12
    DEF UnloadAll, InStep, ActivityTyped, Starting, Stopping, Modules, Serials, Try, Fault,
        Unload, Free
  <2>4. Guarded'
    BY <1>12
    DEF UnloadAll, Guarded, InStep, ActivityTyped, Holds, Early, InSession, Starting,
        Stopping, Modules, Serials, Try, Fault, Unload, Free
  <2> QED
    BY <2>1, <2>2, <2>3, <2>4
<1>13. CASE Umount
  <2>1. UsbTyped'
    BY <1>13 DEF Umount, UsbTyped, Modules, Serials, Try
  <2>2. ActivityTyped'
    <3>1. UNCHANGED <<pm3, script, setting, service, toggled, state, resume, toast, posts,
                      sessions, raced>>
      BY <1>13
      DEF Umount, ActivityTyped, Starting, Stopping, device, mirror, dialog, activity,
          bounds, Tk, Quiet, At, Apart, Try, Fault, Finish
    <3>2. mounted' \in BOOLEAN /\ faults' \in 0..MaxFaults
      <4>1. CASE mounted' = FALSE /\ UNCHANGED bounds
        BY <4>1 DEF ActivityTyped, bounds
      <4>2. CASE UNCHANGED mounted /\ Fault
        BY <4>2 DEF ActivityTyped, Fault
      <4> QED
        BY <1>13, <4>1, <4>2 DEF Umount, Try
    <3>3. worker' \in Starting \union Stopping \union {"none"}
      BY <1>13 DEF Umount, At, Starting, Stopping
    <3> QED
      BY <3>1, <3>2, <3>3 DEF ActivityTyped
  <2>3. InStep'
    BY <1>13 DEF Umount, InStep, ActivityTyped, Starting, Stopping, Try, Fault
  <2>4. Guarded'
    BY <1>13
    DEF Umount, Guarded, InStep, ActivityTyped, Holds, Early, InSession, Starting, Stopping,
        Try, Fault
  <2> QED
    BY <2>1, <2>2, <2>3, <2>4
<1>14. CASE Modprobe
  <2>1. UsbTyped'
    BY <1>14, LoadTyped DEF Modprobe, UsbTyped, Modules, Serials, Try
  <2>2. ActivityTyped'
    BY <1>14, LoadTyped DEF Modprobe, ActivityTyped, Starting, Stopping, Try, Fault
  <2>3. InStep'
    BY <1>14 DEF Modprobe, InStep, ActivityTyped, Starting, Stopping, Try, Fault, Load
  <2>4. Guarded'
    BY <1>14
    DEF Modprobe, Guarded, InStep, ActivityTyped, Holds, Early, InSession, Starting,
        Stopping, Try, Fault, Load
  <2> QED
    BY <2>1, <2>2, <2>3, <2>4
<1>15. CASE Wait
  <2>1. UsbTyped'
    BY <1>15 DEF Wait, UsbTyped, Modules, Serials
  <2>2. ActivityTyped'
    BY <1>15 DEF Wait, ActivityTyped, Starting, Stopping, Fault
  <2>3. InStep'
    BY <1>15 DEF Wait, InStep, ActivityTyped, Starting, Stopping, Serials, Fault
  <2>4. Guarded'
    BY <1>15
    DEF Wait, Guarded, InStep, ActivityTyped, Holds, Early, InSession, Starting, Stopping,
        Serials, Fault
  <2> QED
    BY <2>1, <2>2, <2>3, <2>4
<1>16. CASE StartSocat
  <2>1. UsbTyped'
    BY <1>16 DEF StartSocat, UsbTyped, Modules, Serials
  <2>2. ActivityTyped'
    <3>1. posts = <<>> /\ posts' = <<"toast">>
      BY <1>16, PostTyped DEF StartSocat, At, InStep, Starting
    <3> QED
      BY <1>16, <3>1
      DEF StartSocat, ActivityTyped, Starting, Stopping, device, mirror, dialog, activity,
          bounds, Tk, Quiet, At, Apart, Try, Fault, Finish
  <2>3. InStep'
    BY <1>16, PostTyped DEF StartSocat, InStep, ActivityTyped, Starting, Stopping
  <2>4. Guarded'
    BY <1>16, PostTyped
    DEF StartSocat, Guarded, InStep, ActivityTyped, Holds, Early, InSession, Starting,
        Stopping
  <2> QED
    BY <2>1, <2>2, <2>3, <2>4
<1>17. CASE StopSocat
  BY <1>17
  DEF StopSocat, UsbTyped, ActivityTyped, InStep, Guarded, Modules, Serials, Starting,
      Stopping, Holds, Early, InSession
<1>18. CASE RemoveAll
  <2>1. UsbTyped'
    BY <1>18, UnloadTyped DEF RemoveAll, UsbTyped, Modules, Serials, Try
  <2>2. ActivityTyped'
    BY <1>18, UnloadTyped DEF RemoveAll, ActivityTyped, Starting, Stopping, Try, Fault
  <2>3. InStep'
    BY <1>18
    DEF RemoveAll, InStep, ActivityTyped, Starting, Stopping, Modules, Serials, Try, Fault,
        Unload, Free
  <2>4. Guarded'
    BY <1>18
    DEF RemoveAll, Guarded, InStep, ActivityTyped, Holds, Early, InSession, Starting,
        Stopping, Modules, Serials, Try, Fault, Unload, Free
  <2> QED
    BY <2>1, <2>2, <2>3, <2>4
<1>19. CASE LoadSerial
  <2>1. UsbTyped'
    BY <1>19, LoadTyped DEF LoadSerial, UsbTyped, Modules, Serials, Try
  <2>2. ActivityTyped'
    BY <1>19, LoadTyped DEF LoadSerial, ActivityTyped, Starting, Stopping, Try, Fault
  <2>3. InStep'
    BY <1>19 DEF LoadSerial, InStep, ActivityTyped, Starting, Stopping, Try, Fault, Load
  <2>4. Guarded'
    BY <1>19
    DEF LoadSerial, Guarded, InStep, ActivityTyped, Holds, Early, InSession, Starting,
        Stopping, Try, Fault, Load
  <2> QED
    BY <2>1, <2>2, <2>3, <2>4
<1>20. CASE Remount
  <2>1. UsbTyped'
    BY <1>20 DEF Remount, UsbTyped, Modules, Serials, Try
  <2>2. ActivityTyped'
    <3>1. UNCHANGED <<pm3, script, setting, service, toggled, state, resume, toast, posts,
                      sessions, raced>>
      BY <1>20
      DEF Remount, ActivityTyped, Starting, Stopping, device, mirror, dialog, activity,
          bounds, Tk, Quiet, At, Apart, Try, Fault, Finish
    <3>2. mounted' \in BOOLEAN /\ faults' \in 0..MaxFaults
      <4>1. CASE mounted' = TRUE /\ UNCHANGED bounds
        BY <4>1 DEF ActivityTyped, bounds
      <4>2. CASE UNCHANGED mounted /\ Fault
        BY <4>2 DEF ActivityTyped, Fault
      <4> QED
        BY <1>20, <4>1, <4>2 DEF Remount, Try
    <3>3. worker' \in Starting \union Stopping \union {"none"}
      BY <1>20 DEF Remount, At, Starting, Stopping
    <3> QED
      BY <3>1, <3>2, <3>3 DEF ActivityTyped
  <2>3. InStep'
    BY <1>20 DEF Remount, InStep, ActivityTyped, Starting, Stopping, Try, Fault
  <2>4. Guarded'
    BY <1>20
    DEF Remount, Guarded, InStep, ActivityTyped, Holds, Early, InSession, Starting,
        Stopping, Try, Fault
  <2> QED
    BY <2>1, <2>2, <2>3, <2>4
<1>21. CASE Rework
  BY <1>21
  DEF Rework, UsbTyped, ActivityTyped, InStep, Guarded, Modules, Serials, Starting,
      Stopping, Holds, Early, InSession
<1>22. CASE ResumeRescue
  <2>1. UsbTyped'
    BY <1>22 DEF ResumeRescue, UsbTyped, Modules, Serials
  <2>2. ActivityTyped'
    <3>1. posts \in {<<>>, <<"toast">>}
      BY <1>22 DEF ResumeRescue, InStep, ActivityTyped
    <3>2. posts' \in {<<"finish">>, <<"toast", "finish">>}
      BY <1>22, <3>1, PostTyped DEF ResumeRescue
    <3>3. posts' \in {<<>>, <<"toast">>, <<"finish">>, <<"toast", "finish">>}
      BY <3>2
    <3>4. script' \in Scripts \union {"off"}
      BY <1>22 DEF ResumeRescue, ActivityTyped, Scripts
    <3>5. UNCHANGED <<mounted, pm3, setting, service, toggled, state, toast, sessions, faults, raced>>
      BY <1>22 DEF ResumeRescue, device, mirror, bounds
    <3>6. worker' = "none" /\ resume' = FALSE
      BY <1>22 DEF ResumeRescue
    <3> QED
      BY <3>3, <3>4, <3>5, <3>6 DEF ActivityTyped
  <2>3. InStep'
    BY <1>22, PostTyped DEF ResumeRescue, InStep, ActivityTyped, Starting, Stopping
  <2>4. Guarded'
    BY <1>22, PostTyped
    DEF ResumeRescue, Guarded, InStep, ActivityTyped, Holds, Early, InSession, Starting,
        Stopping
  <2> QED
    BY <2>1, <2>2, <2>3, <2>4
<1>23. CASE ScriptSshd
  <2>1. UsbTyped'
    BY <1>23 DEF ScriptSshd, UsbTyped, Modules, Serials
  <2>2. ActivityTyped'
    BY <1>23 DEF ScriptSshd, ActivityTyped, Scripts, Starting, Stopping
  <2>3. InStep'
    BY <1>23 DEF ScriptSshd, InStep, ActivityTyped, Starting, Stopping
  <2>4. Guarded'
    BY <1>23
    DEF ScriptSshd, Guarded, InStep, UsbTyped, ActivityTyped, Holds, Early, InSession,
        Modules, Serials, Starting, Stopping
  <2> QED
    BY <2>1, <2>2, <2>3, <2>4
<1>24. CASE ScriptUnload
  <2>1. UsbTyped'
    BY <1>24, UnloadTyped
    DEF ScriptUnload, UsbTyped, Modules, Serials, Try, Fault, Unload, Free
  <2>2. ActivityTyped'
    BY <1>24
    DEF ScriptUnload, ActivityTyped, Scripts, Starting, Stopping, Try, Fault, Unload, Free
  <2>3. InStep'
    BY <1>24
    DEF ScriptUnload, InStep, ActivityTyped, Starting, Stopping, Try, Fault, Unload, Free
  <2>4. Guarded'
    BY <1>24
    DEF ScriptUnload, Guarded, InStep, UsbTyped, ActivityTyped, Holds, Early, InSession,
        Modules, Serials, Starting, Stopping, Try, Fault, Unload, Free
  <2> QED
    BY <2>1, <2>2, <2>3, <2>4
<1>25. CASE ScriptNcm
  <2>1. UsbTyped'
    BY <1>25 DEF ScriptNcm, UsbTyped, Modules, Serials, Bind, Free
  <2>2. ActivityTyped'
    <3>1. UNCHANGED <<pm3, setting, service, toggled, state, worker, resume, toast, posts>>
      BY <1>25 DEF ScriptNcm, Bind
    <3>2. UNCHANGED <<mounted, sessions, faults, raced>>
      BY <1>25 DEF ScriptNcm, Bind
    <3>3. script' \in Scripts \union {"off"}
      BY <1>25 DEF ScriptNcm, Bind, Scripts
    <3> QED
      BY <3>1, <3>2, <3>3 DEF ActivityTyped
  <2>3. InStep'
    BY <1>25 DEF ScriptNcm, InStep, ActivityTyped, Starting, Stopping, Bind, Free
  <2>4. Guarded'
    BY <1>25
    DEF ScriptNcm, Guarded, InStep, UsbTyped, ActivityTyped, Holds, Early, InSession,
        Modules, Serials, Starting, Stopping, Bind, Free
  <2> QED
    BY <2>1, <2>2, <2>3, <2>4
<1>29. CASE ScriptEcm
  <2>1. UsbTyped'
    BY <1>29 DEF ScriptEcm, UsbTyped, Modules, Serials, Bind, Free
  <2>2. ActivityTyped'
    <3>1. UNCHANGED <<pm3, setting, service, toggled, state, worker, resume, toast, posts>>
      BY <1>29 DEF ScriptEcm, Bind
    <3>2. UNCHANGED <<mounted, sessions, faults, raced>>
      BY <1>29 DEF ScriptEcm, Bind
    <3>3. script' \in Scripts \union {"off"}
      BY <1>29 DEF ScriptEcm, Bind, Scripts
    <3> QED
      BY <3>1, <3>2, <3>3 DEF ActivityTyped
  <2>3. InStep'
    BY <1>29 DEF ScriptEcm, InStep, ActivityTyped, Starting, Stopping, Bind, Free
  <2>4. Guarded'
    BY <1>29
    DEF ScriptEcm, Guarded, InStep, UsbTyped, ActivityTyped, Holds, Early, InSession,
        Modules, Serials, Starting, Stopping, Bind, Free
  <2> QED
    BY <2>1, <2>2, <2>3, <2>4
<1>31. CASE ScriptAwait
  <2>1. UsbTyped'
    BY <1>31 DEF ScriptAwait, UsbTyped, Modules, Serials, Await, RescueActive, Rescue
  <2>2. ActivityTyped'
    <3>1. UNCHANGED <<pm3, setting, service, toggled, state, worker, resume, toast, posts>>
      BY <1>31 DEF ScriptAwait, Await
    <3>2. UNCHANGED <<mounted, sessions, faults, raced>>
      BY <1>31 DEF ScriptAwait, Await
    <3>3. script' \in Scripts \union {"off"}
      BY <1>31 DEF ScriptAwait, Await, Scripts
    <3> QED
      BY <3>1, <3>2, <3>3 DEF ActivityTyped
  <2>3. InStep'
    BY <1>31
    DEF ScriptAwait, InStep, ActivityTyped, Starting, Stopping, Await, RescueActive, Rescue
  <2>4. Guarded'
    BY <1>31
    DEF ScriptAwait, Guarded, InStep, UsbTyped, ActivityTyped, Holds, Early, InSession,
        Modules, Serials, Starting, Stopping, Await, RescueActive, Rescue
  <2> QED
    BY <2>1, <2>2, <2>3, <2>4
<1>32. CASE ScriptEther
  <2>1. UsbTyped'
    BY <1>32, LoadTyped DEF ScriptEther, UsbTyped, Modules, Serials, Try, Fault, Load
  <2>2. ActivityTyped'
    BY <1>32 DEF ScriptEther, ActivityTyped, Scripts, Starting, Stopping, Try, Fault, Load
  <2>3. InStep'
    BY <1>32 DEF ScriptEther, InStep, ActivityTyped, Starting, Stopping, Try, Fault, Load
  <2>4. Guarded'
    BY <1>32
    DEF ScriptEther, Guarded, InStep, UsbTyped, ActivityTyped, Holds, Early, InSession,
        Modules, Serials, Starting, Stopping, Try, Fault, Load
  <2> QED
    BY <2>1, <2>2, <2>3, <2>4
<1>33. CASE ScriptWifi
  <2>1. UsbTyped'
    BY <1>33 DEF ScriptWifi, UsbTyped, Modules, Serials, Try, Fault
  <2>2. ActivityTyped'
    <3>1. UNCHANGED <<pm3, setting, service, toggled, state, worker, resume, toast, posts>>
      BY <1>33 DEF ScriptWifi
    <3>2. mounted' \in BOOLEAN /\ faults' \in 0..MaxFaults /\ UNCHANGED <<sessions, raced>>
      <4>1. CASE mounted' = TRUE /\ UNCHANGED bounds
        BY <4>1 DEF ActivityTyped
      <4>2. CASE UNCHANGED mounted /\ Fault
        BY <4>2 DEF ActivityTyped, Fault
      <4> QED
        BY <1>33, <4>1, <4>2 DEF ScriptWifi, Try
    <3>3. script' \in Scripts \union {"off"}
      BY <1>33 DEF ScriptWifi, Scripts
    <3> QED
      BY <3>1, <3>2, <3>3 DEF ActivityTyped
  <2>3. InStep'
    BY <1>33 DEF ScriptWifi, InStep, ActivityTyped, Starting, Stopping, Try, Fault
  <2>4. Guarded'
    BY <1>33
    DEF ScriptWifi, Guarded, InStep, UsbTyped, ActivityTyped, Holds, Early, InSession,
        Modules, Serials, Starting, Stopping, Try, Fault
  <2> QED
    BY <2>1, <2>2, <2>3, <2>4
<1>26. CASE MirrorOpens
  <2>1. UsbTyped'
    BY <1>26 DEF MirrorOpens, UsbTyped, Modules, Serials
  <2>2. ActivityTyped'
    BY <1>26 DEF MirrorOpens, ActivityTyped, Starting, Stopping
  <2>3. InStep'
    BY <1>26 DEF MirrorOpens, InStep, ActivityTyped, Starting, Stopping
  <2>4. Guarded'
    BY <1>26
    DEF MirrorOpens, Guarded, InStep, ActivityTyped, Holds, Early, InSession, Starting,
        Stopping
  <2> QED
    BY <2>1, <2>2, <2>3, <2>4
<1>27. CASE MirrorCloses
  BY <1>27
  DEF MirrorCloses, UsbTyped, ActivityTyped, InStep, Guarded, Modules, Serials, Starting,
      Stopping, Holds, Early, InSession
<1>28. CASE Straggler
  <2>1. UsbTyped'
    BY <1>28 DEF Straggler, UsbTyped, Modules, Serials
  <2>2. ActivityTyped'
    BY <1>28 DEF Straggler, ActivityTyped, Starting, Stopping, Fault
  <2>3. InStep'
    BY <1>28 DEF Straggler, InStep, ActivityTyped, Starting, Stopping, Fault
  <2>4. Guarded'
    BY <1>28
    DEF Straggler, Guarded, InStep, ActivityTyped, Holds, Early, InSession, Starting,
        Stopping, Fault
  <2> QED
    BY <2>1, <2>2, <2>3, <2>4
<1>30. CASE UNCHANGED vars
  BY <1>30
  DEF UsbTyped, ActivityTyped, InStep, Guarded, Holds, Early, InSession, Modules, Serials,
      Rescue, Starting, Stopping, vars, usb, device, mirror, dialog, activity, bounds, Tk,
      Quiet, At, Apart, Try, Fault, Suspend, RescueActive, Unload, Load, Free, Finish
<1> QED
  BY <1>1, <1>2, <1>3, <1>4, <1>5, <1>6, <1>7, <1>8, <1>9, <1>10, <1>11, <1>12, <1>13,
     <1>14, <1>15, <1>16, <1>17, <1>18, <1>19, <1>20, <1>21, <1>22, <1>23, <1>24, <1>25,
     <1>26, <1>27, <1>28, <1>29, <1>30, <1>31, <1>32, <1>33
  DEF Next, UsbTyped, ActivityTyped, InStep, Guarded, Modules, Serials, Starting, Stopping,
      Holds, Early, InSession, Worker, Script

\* The two invariants of the runs follow from it.
LEMMA Consequences == IInv => TypeOK /\ OneSideWrites
<1> SUFFICES ASSUME IInv PROVE TypeOK /\ OneSideWrites
  OBVIOUS
<1>1. TypeOK
  BY Split DEF IInv
<1>2. OneSideWrites
  BY DEF IInv, ActivityTyped, InStep, Guarded, Holds, Early, InSession, Starting, Stopping,
     OneSideWrites, Exported
<1> QED
  BY <1>1, <1>2

LEMMA Inductive == Spec => []IInv
  BY InitInv, StepInv, PTL DEF Spec

\* The state of the controller, the partition, the PM3 port and the activity is well
\* typed, for every number of sessions and failures.
THEOREM TypeCorrect == Spec => []TypeOK
  BY Inductive, Consequences, PTL

\* Device and PC never both have the user partition by PC mode's doing: startPCMode
\* unmounts before it loads the composite gadget, stopPCMode removes it before it mounts,
\* and no key, script or mirror session in between changes that, for every number of
\* sessions; a command that failed, a session that met the script on its way, while it
\* lasts, and what the boot exports, until a session removes it, are named.
THEOREM WritesCorrect == Spec => []OneSideWrites
  BY Inductive, Consequences, PTL
\* What a start that nothing disturbs has reached at each of its steps.
Mirrors == /\ toggled <=> service /\ ~setting
           /\ "mirror" \in users => service
Alone == faults = 0 /\ ~raced /\ ~toggled
Bridging ==
  Alone =>
    /\ state \in {"starting", "running"} => script = "off" /\ ~setting
    /\ worker \in Starting \ {"suspend"} => bound \notin Rescue
    /\ worker \in Starting \ {"suspend", "ctrl"} \/ state = "running" => pm3 = "free"
    /\ worker \in {"umount", "modprobe"} => bound = "none"
    /\ worker \in {"wait", "socat"} \/ state = "running" => bound = "g_acm_ms"
    /\ worker = "socat" => node
    /\ state = "running" => "socat" \in users

BInv == IInv /\ Mirrors /\ Bridging

LEMMA InitBridging == Init => Mirrors /\ Bridging
  BY DEF Init, Mirrors, Bridging, Alone, Starting

LEMMA StepBridging == BInv /\ [Next]_vars => (Mirrors /\ Bridging)'
<1> SUFFICES ASSUME BInv, [Next]_vars PROVE Mirrors' /\ Bridging'
  OBVIOUS
<1> USE DEF BInv, IInv, At, On, Quiet, Tk, Apart, usb, device, mirror, dialog, activity, bounds
<1>1. CASE Settle
  <2>1. Mirrors'
    BY <1>1
    DEF Settle, Mirrors, UsbTyped, ActivityTyped, Modules, Serials, Starting, Stopping
  <2>2. Bridging'
    BY <1>1
    DEF Settle, Bridging, Mirrors, UsbTyped, ActivityTyped, InStep, Alone, Rescue, Starting,
        Modules, Serials, Stopping
  <2> QED
    BY <2>1, <2>2
<1>2. CASE Open
  <2>1. Mirrors'
    BY <1>2 DEF Open, Mirrors, UsbTyped, ActivityTyped, Modules, Serials, Starting, Stopping
  <2>2. Bridging'
    BY <1>2
    DEF Open, Bridging, Mirrors, UsbTyped, ActivityTyped, InStep, Alone, Rescue, Starting,
        Modules, Serials, Stopping
  <2> QED
    BY <2>1, <2>2
<1>3. CASE Toggle
  <2>1. Mirrors'
    BY <1>3
    DEF Toggle, Mirrors, UsbTyped, ActivityTyped, Modules, Serials, Starting, Stopping
  <2>2. Bridging'
    BY <1>3
    DEF Toggle, Bridging, Mirrors, UsbTyped, ActivityTyped, InStep, Alone, Rescue, Starting,
        Modules, Serials, Stopping
  <2> QED
    BY <2>1, <2>2
<1>4. CASE Press
  <2>1. Mirrors'
    BY <1>4
    DEF Press, Mirrors, UsbTyped, ActivityTyped, Modules, Serials, Starting, Stopping
  <2>2. Bridging'
    BY <1>4
    DEF Press, Bridging, Mirrors, UsbTyped, ActivityTyped, InStep, Alone, Rescue, Starting,
        Modules, Serials, Stopping
  <2> QED
    BY <2>1, <2>2
<1>5. CASE Stop
  <2>1. Mirrors'
    BY <1>5
    DEF Stop, Mirrors, UsbTyped, ActivityTyped, Modules, Serials, Starting, Stopping, Finish
  <2>2. Bridging'
    BY <1>5
    DEF Stop, Bridging, Mirrors, UsbTyped, ActivityTyped, InStep, Alone, Rescue, Starting,
        Modules, Serials, Stopping, Finish
  <2> QED
    BY <2>1, <2>2
<1>6. CASE Pwr
  <2>1. Mirrors'
    BY <1>6
    DEF Pwr, Mirrors, UsbTyped, ActivityTyped, Modules, Serials, Starting, Stopping, Finish
  <2>2. Bridging'
    BY <1>6
    DEF Pwr, Bridging, Mirrors, UsbTyped, ActivityTyped, InStep, Alone, Rescue, Starting,
        Modules, Serials, Stopping, Finish
  <2> QED
    BY <2>1, <2>2
<1>7. CASE ToastEnds
  <2>1. Mirrors'
    BY <1>7
    DEF ToastEnds, Mirrors, UsbTyped, ActivityTyped, Modules, Serials, Starting, Stopping
  <2>2. Bridging'
    BY <1>7
    DEF ToastEnds, Bridging, Mirrors, UsbTyped, ActivityTyped, InStep, Alone, Rescue,
        Starting, Modules, Serials, Stopping
  <2> QED
    BY <2>1, <2>2
<1>8. CASE Posted
  <2>1. Mirrors'
    BY <1>8
    DEF Posted, Mirrors, UsbTyped, ActivityTyped, Modules, Serials, Starting, Stopping
  <2>2. Bridging'
    BY <1>8
    DEF Posted, Bridging, Mirrors, UsbTyped, ActivityTyped, InStep, Alone, Rescue, Starting,
        Modules, Serials, Stopping
  <2> QED
    BY <2>1, <2>2
<1>9. CASE SuspendRescue
  <2>1. Mirrors'
    BY <1>9
    DEF SuspendRescue, Mirrors, UsbTyped, ActivityTyped, Modules, Serials, Starting,
        Stopping, Rescue, Suspend, RescueActive, Free
  <2>2. Bridging'
    BY <1>9
    DEF SuspendRescue, Bridging, Mirrors, UsbTyped, ActivityTyped, InStep, Alone, Rescue,
        Starting, Modules, Serials, Stopping, Suspend, RescueActive, Free
  <2> QED
    BY <2>1, <2>2
<1>10. CASE Detach
  <2>1. Mirrors'
    BY <1>10
    DEF Detach, Mirrors, UsbTyped, ActivityTyped, Modules, Serials, Starting, Stopping
  <2>2. Bridging'
    BY <1>10
    DEF Detach, Bridging, Mirrors, UsbTyped, ActivityTyped, InStep, Alone, Rescue, Starting,
        Modules, Serials, Stopping
  <2> QED
    BY <2>1, <2>2
<1>11. CASE SuspendAgain
  <2>1. Mirrors'
    BY <1>11
    DEF SuspendAgain, Mirrors, UsbTyped, ActivityTyped, Modules, Serials, Starting,
        Stopping, Rescue, Suspend, RescueActive, Free
  <2>2. Bridging'
    BY <1>11
    DEF SuspendAgain, Bridging, Mirrors, UsbTyped, ActivityTyped, InStep, Alone, Rescue,
        Starting, Modules, Serials, Stopping, Suspend, RescueActive, Free
  <2> QED
    BY <2>1, <2>2
<1>12. CASE UnloadAll
  <2>1. Mirrors'
    BY <1>12
    DEF UnloadAll, Mirrors, UsbTyped, ActivityTyped, Modules, Serials, Starting, Stopping,
        Try, Fault, Unload, Free
  <2>2. Bridging'
    BY <1>12
    DEF UnloadAll, Bridging, Mirrors, UsbTyped, ActivityTyped, InStep, Alone, Rescue,
        Starting, Modules, Serials, Stopping, Try, Fault, Unload, Free
  <2> QED
    BY <2>1, <2>2
<1>13. CASE Umount
  <2>1. Mirrors'
    BY <1>13
    DEF Umount, Mirrors, UsbTyped, ActivityTyped, Modules, Serials, Starting, Stopping, Try,
        Fault
  <2>2. Bridging'
    BY <1>13
    DEF Umount, Bridging, Mirrors, UsbTyped, ActivityTyped, InStep, Alone, Rescue, Starting,
        Modules, Serials, Stopping, Try, Fault
  <2> QED
    BY <2>1, <2>2
<1>14. CASE Modprobe
  <2>1. Mirrors'
    BY <1>14
    DEF Modprobe, Mirrors, UsbTyped, ActivityTyped, Modules, Serials, Starting, Stopping,
        Try, Fault, Load
  <2>2. Bridging'
    BY <1>14
    DEF Modprobe, Bridging, Mirrors, UsbTyped, ActivityTyped, InStep, Alone, Rescue,
        Starting, Modules, Serials, Stopping, Try, Fault, Load
  <2> QED
    BY <2>1, <2>2
<1>15. CASE Wait
  <2>1. Mirrors'
    BY <1>15
    DEF Wait, Mirrors, UsbTyped, ActivityTyped, Modules, Serials, Starting, Stopping, Fault
  <2>2. Bridging'
    BY <1>15
    DEF Wait, Bridging, Mirrors, UsbTyped, ActivityTyped, InStep, Alone, Rescue, Starting,
        Modules, Serials, Stopping, Fault
  <2> QED
    BY <2>1, <2>2
<1>16. CASE StartSocat
  <2>1. Mirrors'
    BY <1>16
    DEF StartSocat, Mirrors, UsbTyped, ActivityTyped, Modules, Serials, Starting, Stopping
  <2>2. Bridging'
    BY <1>16
    DEF StartSocat, Bridging, Mirrors, UsbTyped, ActivityTyped, InStep, Alone, Rescue,
        Starting, Modules, Serials, Stopping
  <2> QED
    BY <2>1, <2>2
<1>17. CASE StopSocat
  <2>1. Mirrors'
    BY <1>17
    DEF StopSocat, Mirrors, UsbTyped, ActivityTyped, Modules, Serials, Starting, Stopping
  <2>2. Bridging'
    BY <1>17
    DEF StopSocat, Bridging, Mirrors, UsbTyped, ActivityTyped, InStep, Alone, Rescue,
        Starting, Modules, Serials, Stopping
  <2> QED
    BY <2>1, <2>2
<1>18. CASE RemoveAll
  <2>1. Mirrors'
    BY <1>18
    DEF RemoveAll, Mirrors, UsbTyped, ActivityTyped, Modules, Serials, Starting, Stopping,
        Try, Fault, Unload, Free
  <2>2. Bridging'
    BY <1>18
    DEF RemoveAll, Bridging, Mirrors, UsbTyped, ActivityTyped, InStep, Alone, Rescue,
        Starting, Modules, Serials, Stopping, Try, Fault, Unload, Free
  <2> QED
    BY <2>1, <2>2
<1>19. CASE LoadSerial
  <2>1. Mirrors'
    BY <1>19
    DEF LoadSerial, Mirrors, UsbTyped, ActivityTyped, Modules, Serials, Starting, Stopping,
        Try, Fault, Load
  <2>2. Bridging'
    BY <1>19
    DEF LoadSerial, Bridging, Mirrors, UsbTyped, ActivityTyped, InStep, Alone, Rescue,
        Starting, Modules, Serials, Stopping, Try, Fault, Load
  <2> QED
    BY <2>1, <2>2
<1>20. CASE Remount
  <2>1. Mirrors'
    BY <1>20
    DEF Remount, Mirrors, UsbTyped, ActivityTyped, Modules, Serials, Starting, Stopping,
        Try, Fault
  <2>2. Bridging'
    BY <1>20
    DEF Remount, Bridging, Mirrors, UsbTyped, ActivityTyped, InStep, Alone, Rescue,
        Starting, Modules, Serials, Stopping, Try, Fault
  <2> QED
    BY <2>1, <2>2
<1>21. CASE Rework
  <2>1. Mirrors'
    BY <1>21
    DEF Rework, Mirrors, UsbTyped, ActivityTyped, Modules, Serials, Starting, Stopping
  <2>2. Bridging'
    BY <1>21
    DEF Rework, Bridging, Mirrors, UsbTyped, ActivityTyped, InStep, Alone, Rescue, Starting,
        Modules, Serials, Stopping
  <2> QED
    BY <2>1, <2>2
<1>22. CASE ResumeRescue
  <2>1. Mirrors'
    BY <1>22
    DEF ResumeRescue, Mirrors, UsbTyped, ActivityTyped, Modules, Serials, Starting, Stopping
  <2>2. Bridging'
    BY <1>22
    DEF ResumeRescue, Bridging, Mirrors, UsbTyped, ActivityTyped, InStep, Alone, Rescue,
        Starting, Modules, Serials, Stopping
  <2> QED
    BY <2>1, <2>2
<1>23. CASE ScriptSshd
  <2>1. Mirrors'
    BY <1>23
    DEF ScriptSshd, Mirrors, UsbTyped, ActivityTyped, Modules, Serials, Starting, Stopping
  <2>2. Bridging'
    BY <1>23
    DEF ScriptSshd, Bridging, Mirrors, UsbTyped, ActivityTyped, InStep, Alone, Rescue,
        Starting, Modules, Serials, Stopping
  <2> QED
    BY <2>1, <2>2
<1>24. CASE ScriptUnload
  <2>1. Mirrors'
    BY <1>24
    DEF ScriptUnload, Mirrors, UsbTyped, ActivityTyped, Modules, Serials, Starting,
        Stopping, Try, Fault, Unload, Free
  <2>2. Bridging'
    BY <1>24
    DEF ScriptUnload, Bridging, Mirrors, UsbTyped, ActivityTyped, InStep, Alone, Rescue,
        Starting, Modules, Serials, Stopping, Try, Fault, Unload, Free
  <2> QED
    BY <2>1, <2>2
<1>25. CASE ScriptNcm
  <2>1. Mirrors'
    <3>1. UNCHANGED <<setting, service, toggled>>
      BY <1>25 DEF ScriptNcm, Bind
    <3>2. users' \subseteq users
      BY <1>25 DEF ScriptNcm, Bind, Free
    <3> QED
      BY <3>1, <3>2 DEF Mirrors
  <2>2. Bridging'
    BY <1>25
    DEF ScriptNcm, Bridging, Mirrors, UsbTyped, ActivityTyped, InStep, Alone, Rescue,
        Starting, Modules, Serials, Stopping, Bind, Free
  <2> QED
    BY <2>1, <2>2
<1>29. CASE ScriptEcm
  <2>1. Mirrors'
    <3>1. UNCHANGED <<setting, service, toggled>>
      BY <1>29 DEF ScriptEcm, Bind
    <3>2. users' \subseteq users
      BY <1>29 DEF ScriptEcm, Bind, Free
    <3> QED
      BY <3>1, <3>2 DEF Mirrors
  <2>2. Bridging'
    BY <1>29
    DEF ScriptEcm, Bridging, Mirrors, UsbTyped, ActivityTyped, InStep, Alone, Rescue,
        Starting, Modules, Serials, Stopping, Bind, Free
  <2> QED
    BY <2>1, <2>2
<1>31. CASE ScriptAwait
  <2>1. Mirrors'
    <3>1. UNCHANGED <<setting, service, toggled>>
      BY <1>31 DEF ScriptAwait, Await
    <3>2. users' \subseteq users
      BY <1>31 DEF ScriptAwait, Await, RescueActive
    <3> QED
      BY <3>1, <3>2 DEF Mirrors
  <2>2. Bridging'
    BY <1>31
    DEF ScriptAwait, Bridging, Mirrors, UsbTyped, ActivityTyped, InStep, Alone, Rescue,
        Starting, Modules, Serials, Stopping, Await, RescueActive
  <2> QED
    BY <2>1, <2>2
<1>32. CASE ScriptEther
  <2>1. Mirrors'
    BY <1>32
    DEF ScriptEther, Mirrors, UsbTyped, ActivityTyped, Modules, Serials, Starting, Stopping,
        Try, Fault, Load
  <2>2. Bridging'
    BY <1>32
    DEF ScriptEther, Bridging, Mirrors, UsbTyped, ActivityTyped, InStep, Alone, Rescue,
        Starting, Modules, Serials, Stopping, Try, Fault, Load
  <2> QED
    BY <2>1, <2>2
<1>33. CASE ScriptWifi
  <2>1. Mirrors'
    BY <1>33
    DEF ScriptWifi, Mirrors, UsbTyped, ActivityTyped, Modules, Serials, Starting, Stopping,
        Try, Fault
  <2>2. Bridging'
    BY <1>33
    DEF ScriptWifi, Bridging, Mirrors, UsbTyped, ActivityTyped, InStep, Alone, Rescue,
        Starting, Modules, Serials, Stopping, Try, Fault
  <2> QED
    BY <2>1, <2>2
<1>26. CASE MirrorOpens
  <2>1. Mirrors'
    BY <1>26
    DEF MirrorOpens, Mirrors, UsbTyped, ActivityTyped, Modules, Serials, Starting, Stopping
  <2>2. Bridging'
    BY <1>26
    DEF MirrorOpens, Bridging, Mirrors, UsbTyped, ActivityTyped, InStep, Alone, Rescue,
        Starting, Modules, Serials, Stopping
  <2> QED
    BY <2>1, <2>2
<1>27. CASE MirrorCloses
  <2>1. Mirrors'
    BY <1>27
    DEF MirrorCloses, Mirrors, UsbTyped, ActivityTyped, Modules, Serials, Starting, Stopping
  <2>2. Bridging'
    BY <1>27
    DEF MirrorCloses, Bridging, Mirrors, UsbTyped, ActivityTyped, InStep, Alone, Rescue,
        Starting, Modules, Serials, Stopping
  <2> QED
    BY <2>1, <2>2
<1>28. CASE Straggler
  <2>1. Mirrors'
    BY <1>28
    DEF Straggler, Mirrors, UsbTyped, ActivityTyped, Modules, Serials, Starting, Stopping,
        Fault
  <2>2. Bridging'
    BY <1>28
    DEF Straggler, Bridging, Mirrors, UsbTyped, ActivityTyped, InStep, Alone, Rescue,
        Starting, Modules, Serials, Stopping, Fault
  <2> QED
    BY <2>1, <2>2
<1>30. CASE UNCHANGED vars
  BY <1>30
  DEF UsbTyped, ActivityTyped, InStep, Modules, Serials, Rescue, Starting, Stopping, vars,
      usb, device, mirror, dialog, activity, bounds, Tk, Quiet, At, Apart, Try, Fault,
      Suspend, RescueActive, Unload, Load, Free, Finish, Alone, Mirrors, Bridging
<1> QED
  BY <1>1, <1>2, <1>3, <1>4, <1>5, <1>6, <1>7, <1>8, <1>9, <1>10, <1>11, <1>12, <1>13,
     <1>14, <1>15, <1>16, <1>17, <1>18, <1>19, <1>20, <1>21, <1>22, <1>23, <1>24, <1>25,
     <1>26, <1>27, <1>28, <1>29, <1>30, <1>31, <1>32, <1>33
  DEF Next, Bridging, Mirrors, UsbTyped, ActivityTyped, InStep, Alone, Rescue, Starting,
      Modules, Serials, Stopping, Worker, Script

LEMMA Bridged == BInv => RunningMeansBridged
  BY DEF BInv, Mirrors, Bridging, Alone, RunningMeansBridged

\* "PC-mode Running..." tells the truth for every number of sessions: the composite
\* gadget is bound and socat alone joins it to a PM3 port that the application has
\* given up, unless the script or a service the setting denies was there before.
THEOREM BridgeCorrect == Spec => []RunningMeansBridged
<1>1. Init => BInv
  BY InitInv, InitBridging DEF BInv
<1>2. BInv /\ [Next]_vars => BInv'
  BY StepInv, StepBridging DEF BInv
<1> QED
  BY <1>1, <1>2, Bridged, PTL DEF Spec
=============================================================================
