------------------------------- MODULE PcMode -------------------------------
(***************************************************************************)
(* Who has the USB controller, the user partition and the PM3 port:        *)
(* PCModeActivity (its key handlers, its two background threads and what    *)
(* they post to the Tk loop), the gadget modules of gadget_linux, the       *)
(* rescue network script that install.py leaves in the system, the screen   *)
(* mirror service and the setting that stands for it.  The kernel binds one *)
(* gadget at a time: a module loaded while another is bound stays pending.  *)
(***************************************************************************)
EXTENDS Naturals, Sequences

CONSTANTS MaxSessions,   \* PC mode activities opened
          MaxFaults      \* shell commands that fail, tasks of an earlier activity
ASSUME BoundsAssumption == MaxSessions \in Nat /\ MaxFaults \in Nat

VARIABLES
  bound, loaded,           \* the gadget on the controller; the modules in the kernel
  node, users,             \* /dev/ttyGS0 is there; who has it open
  mounted,                 \* the user partition is mounted on the device
  pm3,                     \* who has ttyACM0: the client subprocess or nobody of the app
  script,                  \* icopy-rescue-net.sh start, on its own
  setting, service,        \* screen_mirror; the service started from it at start-up
  state, worker, resume,   \* PCModeActivity: _state, its thread, _resume_rescue_usb
  toast, posts,            \* its toast; callbacks posted to the Tk loop
  sessions, faults,
  raced, toggled           \* the last start of PC mode met the script on its way; a service
                           \* runs that the setting denies
usb == <<bound, loaded, node, users>>
device == <<mounted, pm3>>
mirror == <<setting, service, toggled>>
dialog == <<toast, posts>>
activity == <<state, worker, resume, dialog>>
bounds == <<sessions, faults, raced>>
vars == <<usb, device, script, mirror, activity, bounds>>

Serials == {"g_serial", "g_acm_ms"}
Rescue == {"rescue", "g_ether"}      \* the configfs gadget or, failing that, the module
Modules == Serials \union {"g_mass_storage", "g_ether"}
Starting == {"suspend", "ctrl", "again", "unload", "umount", "modprobe", "wait", "socat"}
Stopping == {"kill", "remove", "serial", "remount", "rework", "resume"}
Scripts == {"sshd", "unload", "ncm", "await ncm", "ecm", "await ecm", "ether", "wifi"}

TypeOK ==
  /\ bound \in Modules \union {"none", "rescue"} /\ loaded \subseteq Modules
  /\ bound \in loaded \union {"none", "rescue"}
  /\ users \subseteq {"socat", "mirror"} /\ pm3 \in {"client", "free"}
  /\ script \in Scripts \union {"off"}
  /\ state \in {"none", "idle", "starting", "running", "stopping"}
  /\ worker \in Starting \union Stopping \union {"none"}
  /\ toast \in {"none", "processing", "running", "conflict"}
  /\ posts \in {<<>>, <<"toast">>, <<"finish">>, <<"toast", "finish">>}
  /\ sessions \in 0..MaxSessions /\ faults \in 0..MaxFaults
  /\ node \in BOOLEAN /\ mounted \in BOOLEAN /\ setting \in BOOLEAN /\ service \in BOOLEAN
  /\ resume \in BOOLEAN /\ raced \in BOOLEAN /\ toggled \in BOOLEAN

\* The app is up: it has mounted the partition, and the service, if it was wanted, has
\* removed the boot's g_mass_storage and loaded g_serial; the script of the boot is done
\* or still on its way.
Init ==
  /\ setting \in BOOLEAN /\ service = setting /\ toggled = FALSE
  /\ bound \in {"none", "g_serial", "g_mass_storage"} \union Rescue
  /\ service => bound \notin {"none", "g_mass_storage"}
  /\ loaded = ({bound} \ {"none", "rescue"}) \union (IF service THEN {"g_serial"} ELSE {})
  /\ node = (bound \in Serials) /\ users = {} /\ mounted = TRUE /\ pm3 = "client"
  /\ script \in IF bound \in Rescue THEN {"off", "wifi"} ELSE {"off", "sshd"}
  /\ state = "none" /\ worker = "none" /\ resume = FALSE /\ toast = "none" /\ posts = <<>>
  /\ sessions = 0 /\ faults = 0 /\ raced = FALSE
--------------------------------------------------------------------------
\* The kernel.
Free == bound' = "none" /\ node' = FALSE /\ users' = {}
\* modprobe -r of some modules: who has the tty of the bound one open is hung up.
Unload(mods) ==
  /\ loaded' = loaded \ mods
  /\ IF bound \in mods THEN Free ELSE UNCHANGED <<bound, node, users>>
\* modprobe: bound if the controller is free, else pending.
Load(m) == /\ loaded' = loaded \union {m}
           /\ bound' = (IF bound = "none" THEN m ELSE bound)
           /\ UNCHANGED <<node, users>>
Fault == faults < MaxFaults /\ faults' = faults + 1 /\ UNCHANGED <<sessions, raced>>
\* A command of the shell does its work or fails: nobody looks at its status.
Try(done, undone) == (done /\ UNCHANGED bounds) \/ (undone /\ Fault)
Exported == bound \in {"g_acm_ms", "g_mass_storage"}
RescueActive == bound \in Rescue
\* suspend_rescue_usb: the script's stop.
Suspend == IF RescueActive THEN Free /\ loaded' = loaded \ {"g_ether"} ELSE UNCHANGED usb
\* The node follows the binding after a while.
Settle == /\ bound \in Serials /\ ~node /\ node' = TRUE
          /\ UNCHANGED <<bound, loaded, users, device, script, mirror, activity, bounds>>
--------------------------------------------------------------------------
\* The Tk loop: keys, and what the threads have posted.
Tk == UNCHANGED <<usb, device, script>>
Open == /\ state = "none" /\ sessions < MaxSessions /\ Tk
        /\ state' = "idle" /\ toast' = "none" /\ sessions' = sessions + 1
        /\ UNCHANGED <<worker, resume, posts, mirror, faults, raced>>
\* SettingsMenuActivity: the service does not follow before a restart.
Toggle == /\ state = "none" /\ Tk /\ setting' = ~setting
          /\ toggled' = (service /\ setting)
          /\ UNCHANGED <<service, activity, bounds>>
\* _run_press
Press == /\ state = "idle" /\ Tk /\ UNCHANGED <<resume, posts, mirror, sessions, faults>>
         /\ \/ setting /\ toast' = "conflict" /\ UNCHANGED <<state, worker, raced>>
            \/ /\ ~setting /\ state' = "starting" /\ worker' = "suspend" /\ toast' = "processing"
               /\ raced' = (script # "off")
\* _run_finish
Finish == state' = "stopping" /\ worker' = "kill" /\ UNCHANGED <<resume, posts, toast>>
Stop == state = "running" /\ Tk /\ Finish /\ UNCHANGED <<mirror, bounds>>
\* _handlePWR takes the first press for the toast.
Pwr == /\ state \in {"idle", "running"} /\ Tk /\ UNCHANGED <<mirror, bounds>>
       /\ \/ toast # "none" /\ toast' = "none" /\ UNCHANGED <<state, worker, resume, posts>>
          \/ toast = "none" /\ state = "idle" /\ state' = "none" /\ UNCHANGED <<worker, resume, dialog>>
          \/ toast = "none" /\ state = "running" /\ Finish
ToastEnds == /\ toast = "conflict" /\ toast' = "none"
             /\ UNCHANGED <<usb, device, script, mirror, state, worker, resume, posts, bounds>>
Posted == /\ posts # <<>> /\ Tk /\ posts' = Tail(posts) /\ UNCHANGED <<worker, resume, mirror, bounds>>
          /\ IF Head(posts) = "toast" THEN toast' = "running" /\ UNCHANGED state
             ELSE state' = "none" /\ toast' = "none"
--------------------------------------------------------------------------
\* startPCMode and, after it, the end of _do_start.
At(step, next) == worker = step /\ worker' = next /\ UNCHANGED <<script, mirror>>
Quiet == UNCHANGED <<state, resume, dialog>>
SuspendRescue == /\ At("suspend", "ctrl") /\ Suspend /\ resume' = RescueActive
                 /\ UNCHANGED <<state, dialog, device, bounds>>
Detach == /\ At("ctrl", "again") /\ pm3' = "free" /\ UNCHANGED <<usb, mounted, bounds>> /\ Quiet
\* upan_and_serial
SuspendAgain == At("again", "unload") /\ Suspend /\ UNCHANGED <<device, bounds>> /\ Quiet
UnloadAll_Composite == /\ At("unload", "umount") /\ UNCHANGED device /\ Quiet
                       /\ Try(Unload({"g_acm_ms"}), UNCHANGED usb)
UnloadAll == /\ At("unload", "umount") /\ UNCHANGED device /\ Quiet
             /\ Try(Unload(Modules), Unload(Modules \ {bound}))
Umount == /\ At("umount", "modprobe") /\ UNCHANGED <<usb, pm3>> /\ Quiet
          /\ Try(mounted' = FALSE, UNCHANGED mounted)
Modprobe == /\ At("modprobe", "wait") /\ UNCHANGED device /\ Quiet
            /\ Try(Load("g_acm_ms"), UNCHANGED usb)
Wait_ForNode == /\ At("wait", "socat") /\ UNCHANGED <<usb, device>> /\ Quiet
                /\ node /\ UNCHANGED bounds
\* At most five seconds, and on without the node.
Wait == /\ At("wait", "socat") /\ UNCHANGED <<usb, device>> /\ Quiet
        /\ ((node \/ bound \notin Serials) /\ UNCHANGED bounds) \/ (~node /\ Fault)
\* socat ends at once if a port is missing or taken.
StartSocat == /\ At("socat", "none") /\ UNCHANGED <<bound, loaded, node, device, bounds>>
              /\ users' = users \union (IF node /\ pm3 = "free" THEN {"socat"} ELSE {})
              /\ state' = "running" /\ posts' = Append(posts, "toast") /\ UNCHANGED <<resume, toast>>
\* stopPCMode and the end of _do_stop.  kill reaches the shell: socat goes when its tty
\* is hung up.
StopSocat == At("kill", "remove") /\ UNCHANGED <<usb, device, bounds>> /\ Quiet
RemoveAll_NoComposite == /\ At("remove", "serial") /\ UNCHANGED device /\ Quiet
                         /\ Try(Unload(Modules \ {"g_acm_ms"}), UNCHANGED usb)
\* kill_all_module
RemoveAll == /\ At("remove", "serial") /\ UNCHANGED device /\ Quiet
             /\ Try(Unload(Modules), Unload(Modules \ {bound}))
LoadSerial == /\ At("serial", "remount") /\ UNCHANGED device /\ Quiet
              /\ Try(Load("g_serial"), UNCHANGED usb)
Remount == /\ At("remount", "rework") /\ UNCHANGED <<usb, pm3>> /\ Quiet
           /\ Try(mounted' = TRUE, UNCHANGED mounted)
Rework == /\ At("rework", "resume") /\ pm3' = "client" /\ UNCHANGED <<usb, mounted, bounds>> /\ Quiet
ResumeRescue == /\ worker = "resume" /\ worker' = "none" /\ resume' = FALSE
                /\ script' = (IF resume THEN "sshd" ELSE script)
                /\ posts' = Append(posts, "finish")
                /\ UNCHANGED <<usb, device, mirror, state, toast, bounds>>
Worker == \/ SuspendRescue \/ Detach \/ SuspendAgain \/ UnloadAll \/ Umount \/ Modprobe \/ Wait
          \/ StartSocat \/ StopSocat \/ RemoveAll \/ LoadSerial \/ Remount \/ Rework \/ ResumeRescue
--------------------------------------------------------------------------
\* The script: sshd, then start_usb_ether, then start_wifi.
Apart == UNCHANGED <<pm3, mirror, activity>>
On(step, next) == script = step /\ script' = next /\ Apart
ScriptSshd == On("sshd", "unload") /\ UNCHANGED <<usb, mounted, bounds>>
ScriptUnload_Ether == /\ On("unload", "ncm") /\ UNCHANGED mounted
                      /\ Try(Unload({"g_ether"}), UNCHANGED usb)
ScriptUnload == /\ On("unload", "ncm") /\ UNCHANGED mounted
                /\ Try(Unload(Modules), Unload(Modules \ {bound}))
\* The configfs gadget lets go of the controller and takes it with the function; without
\* configfs, or with the controller taken, the next kind is tried.
Bind(kind, waiting, next) ==
  /\ UNCHANGED <<loaded, mounted, bounds>>
  /\ \/ On(kind, next) /\ UNCHANGED <<bound, node, users>>
     \/ On(kind, next) /\ bound = "rescue" /\ Free
     \/ On(kind, waiting) /\ bound \in {"none", "rescue"} /\ bound' = "rescue"
        /\ UNCHANGED <<node, users>>
ScriptNcm == Bind("ncm", "await ncm", "ecm")
ScriptEcm == Bind("ecm", "await ecm", "ether")
\* Five seconds for usb0, which needs a binding.
Await(step, missed) == /\ UNCHANGED <<usb, mounted, bounds>>
                       /\ (RescueActive /\ On(step, "wifi")) \/ On(step, missed)
ScriptAwait == Await("await ncm", "ecm") \/ Await("await ecm", "ether")
\* Whether usb0 comes makes no difference any more.
ScriptEther == /\ On("ether", "wifi") /\ UNCHANGED mounted
               /\ Try(Load("g_ether"), UNCHANGED usb)
\* ensure_upan_mounted: it looks for its configuration on the user partition.
ScriptWifi == /\ On("wifi", "off") /\ UNCHANGED usb
              /\ Try(mounted' = TRUE, UNCHANGED mounted)
Script == ScriptSshd \/ ScriptUnload \/ ScriptNcm \/ ScriptEcm \/ ScriptAwait \/ ScriptEther
          \/ ScriptWifi
\* A session of the mirror service has the tty until it is hung up or the PC goes.
MirrorOpens == /\ service /\ node /\ "mirror" \notin users /\ users' = users \union {"mirror"}
               /\ UNCHANGED <<bound, loaded, node, mounted, script, bounds>> /\ Apart
MirrorCloses == /\ "mirror" \in users /\ users' = users \ {"mirror"}
                /\ UNCHANGED <<bound, loaded, node, mounted, script, bounds>> /\ Apart
\* A thread of an earlier activity whose command finds the client gone restarts it.
Straggler == /\ pm3 = "free" /\ pm3' = "client" /\ Fault
             /\ UNCHANGED <<usb, mounted, script, mirror, activity>>

Next == \/ Settle \/ Open \/ Toggle \/ Press \/ Stop \/ Pwr \/ ToastEnds \/ Posted
        \/ Worker \/ Script \/ MirrorOpens \/ MirrorCloses \/ Straggler
Spec == /\ Init /\ [][Next]_vars
        /\ WF_vars(Worker) /\ WF_vars(Script) /\ WF_vars(Settle) /\ WF_vars(Posted)
--------------------------------------------------------------------------
\* PC mode never has the user partition written from both sides, whatever keys, mirror and
\* script do meanwhile: in no step of a session and not after one, unless a command failed
\* or the session was started while the script was on its way.  What the boot exports
\* stays so until a session's first modprobe -r.
OneSideWrites ==
  (mounted /\ Exported) =>
    \/ faults > 0
    \/ raced /\ state \in {"starting", "running", "stopping"}
    \/ bound = "g_mass_storage" /\ state \in {"none", "idle", "starting"}

\* While "PC-mode Running..." is up the composite gadget is on the bus, socat alone bridges
\* it to a PM3 port nobody else has: unless the start met the script on its way, the mirror
\* was switched off but still runs, or something failed.
RunningMeansBridged ==
  (state = "running" /\ ~raced /\ ~toggled /\ faults = 0)
    => bound = "g_acm_ms" /\ pm3 = "free" /\ "socat" \in users /\ "mirror" \notin users

\* The rescue network PC mode has suspended is back after it.
RescueComesBack == (resume /\ state = "stopping") ~> (RescueActive \/ raced \/ faults > 0)

\* Keys are ignored while a thread works: it must come to an end.
KeysComeBack == (state \in {"starting", "stopping"}) ~> (state \in {"running", "none"})
--------------------------------------------------------------------------
\* What the source says and the code does not do.

\* "Suspend boot-rescue USB networking while PC mode owns the UDC" (activity_main.py:2283):
\* a script on its way is not active yet, and binds its gadget afterwards.
RescueSuspended == (state = "running" /\ faults = 0) => ~RescueActive

\* "Install g_acm_ms (unmount upan first)" (activity_main.py:2223): start_wifi of such a
\* script mounts it again.
UnmountedFirst == (state = "running" /\ Exported /\ faults = 0) => ~mounted
=============================================================================
