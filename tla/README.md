# iCopy-X: a TLA+ development

iCopy-X is the application of a handheld RFID copier.  A Tk program shows
activities on a small screen and reacts to keys that arrive over a serial line;
it works by sending commands to a server, on the same device, that owns a
`proxmark3` subprocess, which in turn drives the Proxmark3 board (PM3).  This
directory holds TLA+ models of that machinery, the TLC runs that check them and
proofs about them.  Paths below are relative to `src/` of the repository, `lib`
and `middleware` to `src/src/`; line numbers are in `PROJECT.json`, which maps
every definition to the code it models.

To check a module, `tlc -config ScanOne.cfg MCScan`; to check the proofs,
`tlapm RfTaskProofs.tla`, `tlapm PcModeProofs.tla`, `tlapm MaintenanceProofs.tla`,
`tlapm MifareProofs.tla`, `tlapm NavigationProofs.tla`, `tlapm ExecutorProofs.tla`,
`tlapm ScanProofs.tla`, `tlapm FlowProofs.tla`.

## The system

```
 keys (GD32 board) --serial--> KeyEvent.onKey --root.after--> Tk thread
                                                              |  activities, actstack
   background threads <----- started by activities -----------+
        |  startPM3Task, startPM3Ctrl             stopPM3Task |
        +------------------> executor.py <--------------------+
                                  | one TCP connection
                            RemoteTaskManager (rftask.py), one handler per connection
                                  | stdin / stdout          | reader thread
                            proxmark3 subprocess  -> the board
```

### Components

| component | state | operations | how it talks to the others |
|---|---|---|---|
| RemoteTaskManager `main/rftask.py` | subprocess, reader thread, `_has_manager`; the buffer, flag, event and lock of the command in flight | a handler per connection runs CMD, CTL and PLT requests with retries; `reworkManager` replaces the subprocess; the reader collects output | TCP to the executor, pipes to proxmark3 |
| Executor `middleware/executor.py` | socket, flags RUNNING and STOPPING, `_pipeline_needs_cleanup`, rework counter, text of the last command | `startPM3Task`, `startPM3Ctrl`, `stopPM3Task`, `reworkPM3All`, `resetReworkCount` | called by any thread; its flags are globals without locks |
| Scanner `middleware/scan.py` | `_scan_running` of each Scanner, module cache `INFOS` | a pipeline of up to six detection steps on a thread | commands through the executor, callbacks into the activity |
| Activity stack `lib/actstack.py`, `actbase.py`, `application.py` | stack, canvases, busy flags, toasts, battery bars, key target | start, finish and the lifecycle callbacks | everything on the screen |
| Keys `lib/keymap.py`, `hmi_driver.py` | target of the keys | capture on the serial thread, dispatch on the Tk thread | `root.after` |
| Activities `lib/activity_*.py`, `actmain.py` | a state machine each | key handlers, background tasks | stack, executor, middleware |
| Read, write, erase flows `middleware/*read.py, *write.py, lft55xx.py, hfmfkeys.py ...` | keys and blocks of a tag | sequences of commands with fallbacks | executor |
| Installer `main/install.py`, `middleware/update.py` | files of the program | unpack, staged copy and rename, fallback | restarts the program; its activity ignores keys meanwhile |
| Flasher `middleware/pm3_flash.py` | stage of a flash | safety gate, kill, verify, write, restart | the version check after boot pushes its wizard; kills the subprocess of rftask |
| YMODEM `middleware/ymodem.py` | block counter, retries | send with ACK, NAK and cancel | serial line; shipped, but nothing in the program calls it |
| PC mode `activity_main.PCModeActivity`, `middleware/gadget_linux.py`, `lib/mirror_service.py`, the rescue script of `install.py` | owner of the USB controller, of the user partition and of the PM3 port | start and stop on background threads | rftask CTL requests, kernel modules |
| Plugins `lib/plugin_loader.py`, `_state_machine.py`, `plugin_activity.py` | state of a `ui.json` machine | transitions on keys and background actions | stack |
| Battery `lib/batteryui.py`, audio, settings, resources, widgets, PM3 text compatibility | values | reads and drawing | |

### What is hard, and what makes a component correct

* **RemoteTaskManager.**  Threads of several connections, one reader, a
  subprocess that may hang, die or be killed at any time, timers and retries.
  Correct: one command in flight; its output goes to whoever sent it; a command
  that modifies a tag is not resent without bound; a handler comes back from every
  request.
* **Executor.**  Task threads and the key handler share unlocked flags; answers
  come late, cut short or not at all; reconnects and restarts nest inside
  retries.  Correct: a stop ends what was running and returns; nothing left over
  from an interrupted command is taken for the answer of the next; restarts are
  bounded.
* **Stack and keys.**  A key captured for one activity is run when another may
  be on top; callbacks start and finish activities while one is being started or
  finished.  Correct: one activity is shown, resumed, polled and gets the keys;
  `finish()` pops the one that called it.
* **Scan and simulation.**  Threads outlive the activity that started them and
  come back to the screen at the same time as the key that stops them.
* **Read, Auto Copy, Write.**  Scans and reads outlive the activity that began
  them, share one result cache, and answer from threads while a console, a
  warning or another scan is on the screen.  Correct: what is written is what was
  read; one job at a time; no screen stays busy or without its buttons.
* **Installer and flasher.**  Any step may fail or be cut by a power loss, and
  each may restart the service under the other.  Correct: what boots is whole,
  keys come back, and a half-written Proxmark3 is offered a flash again.
* **PC mode.**  Four parties load and unload gadget modules on one controller and
  look at no status.  Correct: the partition is never mounted on the device and
  written by the host, and "running" means bridged.
* **MIFARE Classic.**  A card is read, written and erased block by block, each
  with the keys its sector has at that moment; it may be moved or exchanged, and
  commands fail or answer late.  Correct: success means all of it, no sector gets
  what is another's, keys of one card are not tried on another.
* **YMODEM.**  Packets and answers are lost, garbled, late.  Correct: success
  means an exact copy, nothing is left out, and the sender returns.

`PROJECT.json` lists the hazards at their lines, with the properties that would
catch each.

## The modules

| module | models |
|---|---|
| `RfTask` | `rftask.py`: handlers, reader, subprocess, rework |
| `RfTaskProofs` | theorems about `RfTask` |
| `Executor` | `executor.py`, with the server as the queue of its requests and answers |
| `TaskService` | abstract: what `startPM3Task`, `startPM3Ctrl` and `stopPM3Task` promise |
| `ExecutorService` | `Executor` implements `TaskService` |
| `ExecutorProofs` | theorems about `Executor` and the refinement |
| `Scan` | `ScanActivity` and `Scanner`, on top of `TaskService` |
| `Simulation` | `SimulationActivity` and `SimulationTraceActivity`, on top of `TaskService` |
| `ScanProofs` | theorems about `Scan` |
| `Navigation` | stack, lifecycle, keys |
| `NavigationProofs` | theorems about `Navigation` |
| `TagFlow` | what Read and Auto Copy share: scanner and reader threads, result cache, dialogs, `WriteActivity` |
| `ReadFlow`, `CopyFlow` | `ReadActivity` with its console; `AutoCopyActivity` with its completion poll |
| `Flows` | a user who opens the one and the other |
| `FlowProofs` | theorems about `Flows` and `Simulation` |
| `Mifare` | `_read_mfc`, `hfmfread.py`, `hfmfkeys.py`, `hfmfwrite.py`, `erase.py` and the cards, a command a step |
| `PcMode` | PC mode, gadgets, rescue script, mirror |
| `PcModeProofs` | theorems about `PcMode` |
| `Maintenance` | update of the program and flash of the Proxmark3, with power cuts |
| `MaintenanceProofs` | theorems about `Maintenance` and `Ymodem` |
| `MifareProofs` | theorems about `Mifare` |
| `Ymodem` | `ymodem.py`, both ends and the line |
| `MC...` | the instances TLC runs |

`TaskService` is the joint: `Executor` is shown to implement it (every step of
its three calls is a step of the service or a stutter), and the models of
activities use it in its place, so that they need not carry sockets and answers.

### RfTask

A handler's control point `hpc` says where it can block: `send` (about to take
`_cmd_lock`), `wait` (on the event, holding the lock), and the steps of
`reworkManager` (`join`, `kill`, `reap`, `killall`, `spawn`).  `job[h].try` says
which attempt of `_request_task_cmd` it makes: the command, the resend after a
rework, the ping, the retry.  The reader tests `_expecting_response` and appends
in two steps, because a command may begin between them.  The subprocess executes
one command at a time and prints output and the end marker as two lines; it may
die in any state.  A line records which command and which subprocess it came
from, which the code cannot see; the properties are about that.  `Settled` is
the one use of time: the `sleep(3)` of `reworkManager` lets a reader that can
move finish.  A reader blocked in `readline` cannot move, so it may survive.

### Executor

The control point of a task follows the loops of `startPM3Task` and
`_send_and_cache`: `enter`, `begin`, `attempt`, `top`, `recv`, `judge`,
`rework`, `reconnect`, `restart`, `end`; `control` and `answer` are
`startPM3Ctrl`.  The server is `requests` and `answers` of the current
connection; it answers in order, well, badly, cut short, or never, and may hang up
(`closed`), which ends a receive loop like a marker.  `mine` says
that the socket a thread waits on has not been replaced.  A control request ends
at a marker or when nothing is there to be read (`ControlEnds`), which stands
for its one-second timeout.  `sock` may be unconnected at the start and after
any reconnect.

### TaskService

A call goes `idle`, `called`, `ready`, `running`, `done` or `failed`, `idle`.
`running` and `stopping` are the flags as they are: one of each for all tasks, so
the first task to end clears `running` for all.  A call waits for a stop in
progress and then goes on.

### Scan

A scan thread takes the steps 14a, lfsea, hfsea, t55xx, em4x05, felica; each
sends a command, some a second one (`Probing`); a failure ends the scan at the
`Fatal` steps and counts as "no tag" at the others.  `content` is the scan whose
output is in the text cache of the executor, which the parsers read.  The
activity is left by PWR at any time and a new one created; a thread that comes
back to a finished activity raises in `_clearContent` before it stores a result.
Found, multiple and wrong-type results are one outcome, "found", or "not found".
Activities that ScanActivity starts itself are in Navigation.

### Simulation

`StopSim` and `StopSimReturns` are the halves of `_stopSim` around
`stopPM3Task`, which blocks the Tk thread; `SimBack` and `SimEnds` the halves of
`_onSim` around its test of `_sim_stopping`.  A push of the trace activity
starts a fetch thread, and its `_update` is posted to the Tk loop.  Field
editing, Save and leaving the simulation activity from its list are left out.

### Navigation

`Started` and `Finished` are `start_activity` and `finish_activity` with every
lifecycle callback, in the order of the code; nested starts (a dialog's
`onActivity`, a plugin host) are composed from them.  `Capture` and `Post` are
the two halves of `onKey` on the serial thread; the call is run later on the Tk
thread, whole.  Five kinds of activities stand for what `onKeyEvent` does.

Threads post calls that open or finish activities (`WorkPosts`: a reader that
misses keys; `Stopped`: PC mode's `root.after(0, self.finish)`; `Checked`: the
version check of the boot, which puts `FWUpdateActivity` on whatever is on top).
The thread of an HF simulation calls `start_activity` itself, in two steps
(`WorkOpens`, `Opened`): what the Tk thread opens or finishes in between meets a
start that is half done, and `mixed` remembers it.

### TagFlow, ReadFlow, CopyFlow, Flows

`scans` and `reads` are the threads of the open activity, `strays` the scanners
of activities that were left: their callbacks raise on the destroyed canvas, but
what they find may already be in `scan.INFOS` (`cache`).  Posted calls live in
`a.posts` and go with the canvas.  A reader ends in one of its results, or raises
and then reports twice (`raised`).  ReadActivity puts a result aside while its
console is open, in two steps (`defer`, `pending`); Auto Copy does not, and
instead polls for a reader that ended unheard (`poll`).  `raced` is history: a
result met an operation that began after its own.  The properties say what holds
until then; `BusyEnds` holds anyway.  ReadActivity's own `_wait_for_completion`
can only find a reader gone that has already reported, and is left out.

### Mifare

The other end is a set of `Cards` with memory and keys.  A sector is one data
block and its trailer; block 0 counts besides, because only some cards let it be
written.  `pc` is the next command of the one job; jobs that overlap are the
subject of Flows.  `keys` is `KEYS_MAP`, and for an erasure its own two tables.
A block is one step with its up to four attempts (`Outcome`): it may be written
and not said to be, and an answer that comes after its timeout is taken for the
next attempt's (`stray`, `misled`), which is what RfTask and Executor leave open
(`NoStaleOutput`, `OwnOutput`).  `spoilt`, `swapped` and `open` say under which
circumstances a job ran, for the properties.  Access conditions, the geometry of
sectors and the search for a free file name are left out, and so is an answer cut
short in the middle of a sector.

### PcMode

`bound` is the gadget on the controller, `loaded` the modules in the kernel (one
loaded while another is bound stays pending), `users` who has the serial node
open.  The worker thread of the activity takes one shell command per step;
`Try` is a command whose status nobody looks at, which may do nothing.  The
rescue script runs on its own (`script`), from the boot or from `ResumeRescue`: sshd,
the unloading, the binding of the NCM or else the ECM function, each with its wait
for `usb0`, then `g_ether`, and at the end the mount of the user partition on which it
looks for its configuration.  Initially the gadget is any that a boot may have left,
`g_mass_storage` among them, which the repository does not load but expects.
`toggled` and `raced` name the two situations in which the code's guards look at
the wrong thing: the mirror's setting instead of its service, and the rescue
gadget before its script has bound it (`raced` is set anew by each start).

### Maintenance

Trees of files are `none`, `part` or a version.  The install thread's steps are
those of `update.install` and `install.install`.  `Raised` is where an error leads:
from `install_app` to `_fallback_install`, which takes the same steps once more
(`again`), and from there to the end, reported as a success.  A removal and a move
may stop midway (`HalfCleaned`, `HalfMoved`), by an error or by a cut; `torn` is
history: one of them, or the extraction, has left a part of the extracted or the
staged tree.  `Boot` is the starter's swap of a staged application, after a power
cut or a restart of the service (`Ends`).
The flash thread's first page written (`Erase`) leaves a Proxmark3 that does not
answer; the version check of the next boot (`Probe`) counts that as outdated and
pushes the wizard over whatever is open, unless the application ships no firmware
(`ships`, fixed for a behaviour) or the check raises.

### Ymodem

A packet is its block number and whether it arrived whole.  The sender's states
are the loops of `send`, each with its own treatment of a timeout and of a byte it
does not expect; the receiver's are those of `recv_file`.  A timeout passes as a
rule with the line silent; `early` is one that does not.  Damage behind the first
byte of a packet is caught by its CRC.  A packet without its first byte (`head`) is
read byte by byte for what it may begin (`Strays`): EOT, CAN, or a SOH or STX that
takes what follows for its payload and comes out short (`DataShort`, `Swallowed`).

## The runs

Bounds are named in the modules: `MaxGen` subprocesses, `MaxCalls` tasks,
`MaxScans`, `MaxActs`, `MaxKeys`, `MaxSims`, `MaxReads`, `MaxVisits`,
`MaxSessions`, `MaxCuts`, `MaxFaults`, `MaxLineFaults`, `MaxBlocks`.  When they are used up the system
stops in the model; deadlock is therefore not checked.  (What could block for
ever in the code is the subject of the liveness properties instead.)

| run | what it shows | bounds and why they are enough |
|---|---|---|
| RfTaskSingle | a command is written at most three times, twice if the answer is offline; after a rework nothing of the old subprocess is collected, and there is one subprocess with one reader; a reader that leaves wakes the waiter | one connection, two requests of any kind, three subprocesses: a rework inside a retry after a rework |
| RfTaskBoth | one command in flight; a live subprocess under a manager has a live reader; a handler comes back from every request, if perhaps with nothing to say | two connections, two requests, commands and restarts (a "hw" command is a command without the retry, an empty CTL a restart that ends early; RfTaskSingle has them), two subprocesses: a restart of one while the other sends, waits, pings, retries or restarts; states equal in the view `Present` have the same future: it drops the write counts, whose output a line is, what nobody can read any more, and the buffer and the event while no handler waits (the next command resets them) |
| ExecutorStop | interrupted output is dropped; restarts are capped; a waiting stop leaves no task in its loop and is followed by no attempt and no decision to restart the board; a task with a timeout ends; a stop returns | one task thread, two tasks, with and without timeout, three attempts each, at most two consecutive reworks: a task interrupted, the next one on the connection it left |
| ExecutorService | `Executor` implements `TaskService` | two threads, a task each, one rework, both kinds of stop; the threads are symmetric, and the view drops the history variables, which no guard reads: both sound for a safety property |
| ScanOne | parsers read their own output; every scan is reported or its activity left | one activity, three scans, all six steps, stops anywhere |
| Simulation | busy is never left behind; an LF simulation gives the fields back; a loading trace is resolved unless a second one overlaps it | two simulations and their four fetches, which overlap after a lost stop |
| NavigationAll | what is shown, resumed, polled and bound is the top, unless the simulation's thread and the Tk thread change the stack at once | three activities of every kind, two keys waiting (the second for an activity that is finished by then), all posted calls; `TopCorrect` is proved for any number; the view ends a behaviour once two threads have changed the stack, where the property says nothing, and drops `asked`, which no step reads |
| Flows | what is written was read with the scan result in the cache; one job at a time; at rest the buttons are those of the result; "Scanning", "Reading", "Writing" and "Verifying" end | two scans, two readers at once, two visits: a thread of the first visit meets the second. After a race Auto Copy is followed to rest and asked for no more (`Calm`), which bounds readers that pile up |
| Mifare | an undisturbed read has every sector it had a key of, and no other's; a write or an erasure that reports success is whole, whatever failed; keys tried are the card's own; a card that opens with the dictionary is written at the first try | two cards of every kind, two sectors, two jobs (a read and the write of what it read; a write after an erasure), one fault, keys A or both of any sectors replaced: what the second job meets of the first; the cards are symmetric |
| PcMode | PC mode does not have the partition mounted and exported both, but for a session that met the script, while it lasts, and failed commands; RUNNING means bridged; the rescue network and the keys come back | two sessions, two failing commands, every gadget a boot may leave, the script done, on its way or at its last step: the second session meets what the first one left |
| Maintenance | of a good package nothing partial is staged or run unless a removal or the extraction left a part; keys come back; a half-written Proxmark3 brings the wizard up | two power cuts, two errors: a cut of a repeated install on the leftovers of the first |
| Ymodem | success is an exact copy unless answers or first bytes suffered; no block is left out between others; the sender returns from a line that falls silent | three blocks, a retry count of three, three faults: enough to exhaust the count in one state; what is left of a packet without its head is up to two EOT and two more bytes, as `recv_file` returns after three |

Every property has a mutant in `PROJECT.json`: a plausible bug in a mapped
definition (`X_Something` beside `X`) under which TLC finds it violated.

### Fairness

* `RfTask.FairSpec`: reader and handler threads run and timed waits (the lock's
  three seconds, the event's two minutes) expire.  The subprocess has none: it
  may hang.
* `Executor.FairSpec`: task threads run and `stopPM3Task` goes on polling.  The
  server has none: it need not answer, nor hang up (`Unprompted`).
* `Scan.FairSpec`, `Simulation.FairSimSpec`: threads run, a command ends (they have
  timeouts, and `TimedTaskEnds` says the executor honours them), `stopPM3Task`
  returns, the Tk loop runs what is posted.  The simulation of an HF tag has no
  timeout: it is only fair while a stop is in progress, where `Top` and `Poll`
  of Executor see it.  That the commands of LF simulations end by themselves is
  what the code relies on (comment in `_startSim`).
* `Flows.FairSpec`: scanner, reader and write threads end and the Tk loop runs
  what is posted: every command they wait for has a timeout.  Keys have none.
* `PcMode.Spec`: the worker thread, the script and the posts run, and a node
  follows its binding.  Keys, toggles, the mirror's peer and faults have none.
* `Maintenance.Spec`: the install, flash and probe threads and the posts run.
  Keys, boots and cuts have none.
* `Ymodem.LineSpec`: each end goes on; the line has none, but its faults are bounded.
  A line that never stops sending bytes the sender does not expect is not covered: four
  loops of `send` count them without a limit.

## Where the code and its documents disagree

They are stated as properties in the last section of the modules; put in a
configuration of the module's run they give a counterexample in seconds, a few
minutes at most.

| property | document | what the code does |
|---|---|---|
| `RfTask.NoStaleOutput` | `rftask.py:600` | the collecting flag does not tell whose output it collects: a command given up after a timeout still runs, and its lines are appended to the response of the next |
| `RfTask.ResponseIsTerminated` | `rftask.py:333` | a handler woken by a reader that leaves returns output without the marker |
| `RfTask.OneReader` with two connections | `rftask.py:580` | two restarts at once leave two readers on one subprocess |
| `RfTask.NormalResponse` | `rftask.py:293` | a command woken without a line has an empty response, and `handle()` writes nothing at all |
| `RfTask.ReworkFreesLock` | `rftask.py:535` | the woken handler takes the lock again with its retry |
| `Executor.NoReworkAfterNoWait` | `executor.py:529` | a stop without wait sets and clears the flag before the task can look; the aborted command is taken for a failure and the board restarted |
| `Executor.OwnOutput` | `executor.py:658` | after the last timeout the connection is kept, and the late answer is the next task's |
| `Scan.CancelEndsScan` | `scan.py:310` | the -1 of a stopped `hf sea` means "no tag", and the pipeline goes on after PWR left the activity |
| `Scan.OneScan` | `scan.py:663` | the guard is a field of each Scanner, and every scan makes one |
| `Scan.CacheIsShown` with two activities | `activity_main.py:1929` | a scan that outlives its activity replaces the cache |
| `Simulation.OneTracePerStop` | `activity_main.py:6698` | the guard against a second trace is reset before the thread it guards against tests it |
| `Simulation.ResumesInSimUi` | `activity_main.py:6694` | an HF simulation that ends by itself leaves the state SIMULATING |
| `Simulation.StopEndsSim` | `activity_main.py:6657` | a stop before RUNNING is set only delays the simulation |
| `Simulation.PwrReachesStop` | `activity_main.py:6897` | the activity is busy, so PWR is swallowed |
| `Simulation.ToastOnlyWhileSimulating` | `activity_main.py:6704` | `_onSim` does not dismiss the toast of an LF simulation |
| `Navigation.FinishPopsSelfAlways` | `actstack.py:201`, `plugin_activity.py:171`, `activity_main.py:2160` | a second key for a finished activity, a plugin host's `finish()` or the one that PC mode has posted pops another one |
| `Navigation.TopIsCurrentAlways` | `keymap.py:156` | transitions "must run on the main thread": the thread of a simulation starts the trace itself, and with a start on the Tk thread meanwhile two activities are resumed and polled |
| `Flows.RescanOffered` | `activity_main.py:5426` | after a tag of a wrong type the buttons say Rescan and no key does it |
| `Maintenance.FlashNotCut` | `pm3_flash.py:559` | the version check of the boot pushes the wizard over a running update, whose restart may cut the flash |
| `PcMode.RescueSuspended` | `activity_main.py:2283` | a script on its way is not active yet, so nothing is suspended, and it binds its gadget in the middle of the session |
| `PcMode.UnmountedFirst` | `activity_main.py:2223` | such a script ends with a mount of the partition that PC mode has unmounted and exported |
| `Ymodem.TrueOnSuccess` | `ymodem.py:394` | EOT EOT in a block that has lost its first byte is answered NAK, ACK, C, ACK: `send` takes that for the block, its EOT and the null packet, and returns True without the block |
| `Mifare.CancelStopsErase` | `activity_main.py:3295` | "safe to abort": PWR ends the command, and the thread goes on from there and erases with the default keys |
| `Mifare.WipeTellsFailure` | `erase.py:42` | the text of `cwipe`'s answer is not looked at, so only a timeout is an error |
| `Mifare.VerifyComparesUid` | `hfmfwrite.py:513` | a uid that differs falls through to "card present", a success |
| `Mifare.ReadHasFile` | `read.py:115` | the name of the file is returned although `csave` failed; a write then fills the card with empty blocks |

Smaller ones, visible in the models and not stated as properties.

* Read and Auto Copy: a reader that raises reports two results, each drawn (the
  second may differ); between ReadActivity's test of its console and its setting
  `_pending_result` the console may close, and the result waits until it is
  opened and closed again; Auto Copy's button labels after a cancelled
  missing-keys warning stay off although a comment promises a rescan; it ignores
  two of the warning's four options; a read that returns an empty file name is a
  success that Write cannot use.  PWR leaves `WriteActivity` with its thread
  running; `_scanner.stop()`, which the code calls, does not exist.
* PC mode: the exclusion with the mirror tests the setting, which does not follow
  the service (`toggled`); after a session that met the rescue script the rescue
  network may not be resumed (`raced`); a late task of another activity restarts the
  client on the port socat needs; a failed `umount` is not noticed, and the partition
  is exported while it is mounted; so is it from the boot on with `g_mass_storage`.
* Maintenance: the False of `unpkg` and of `install` is not looked at; a tree that
  the fallback has staged stays there with the service running, and the next update
  removes it file by file, so that a cut or an error then leaves a part of it for the
  starter to swap in; a move that fails in its removal hands the fallback a part to
  stage (both `torn`); an error after the rename (`update_permission`) makes the
  fallback remove the staged tree and find nothing to move, and success is
  reported; a flash
  that fails leaves the client killed and no wizard until the next boot; the
  firmware's integrity is tested after the client has been killed; a flasher that
  hangs silently blocks the keys for ever.
* MIFARE: a sector that `readSector` parses fewer lines of than it has blocks is
  appended as it is, and every later block of the dump is displaced; `nested`
  takes four blocks a sector, also on a 4K card; `fillKeys2DataMap` has no
  caller, so a dump has the zeros the client shows in place of key A.
* YMODEM: the receiver never tests a block's number, so a lost answer makes it
  write the block twice; a CAN in a packet without its first byte ends the file too;
  it returns the name of the file even after a cancel.

## The proofs

All proofs are about every value of the constants, and each from the
assumptions of its module.  `FlowProofs` and `MaintenanceProofs` hold a second
module's theorems each, which is why the names of `Simulation` and `Ymodem` are kept
apart from those of `Flows` and `Maintenance` (`SimSpec`, `LineSpec`).

`RfTaskProofs` proves seven theorems of `RfTask` for every set of handlers and
requests and every `MaxGen`, from the one assumption `RfAssumption` (the names
differ, the kinds are known, at least one subprocess can be made).

* `TypeCorrect`: `Spec => []TypeOK`.  `TypeOK` is not inductive: a handler at
  `send` uses its request as an index of `writes`, a reader at `read` its pipe.
  The invariant is `Typed`, that is `TypeOK` with `Locals` (what a control point
  says of the handler's locals) and `Readers`.  `Split` separates shared state
  from locals, so that each action disturbs one half and the other is carried
  over by one lemma (`HandlerShared`, `HandlerLocals`, `ReceiveLocals`).
* `InFlightCorrect`: `Spec => []OneCommandInFlight`, inductive relative to
  `Typed`.  `SendEnds` and `LockElsewhere` say how `send` and `wait` are left.
* `ResendCorrect`: `Spec => []BoundedResend`.  The bound on `writes` follows from
  where each attempt is: `OneHandlerPerRequest` (a pending request has one
  handler) and `Budget` (what has been written at most, by attempt and control
  point).  `Advance` and `Conclude` are the two ways an attempt ends.
* `ReaderCorrect`: `Spec => []ManagedHasReader`, for any number of connections.  A
  reader leaves when the manager is off or the current subprocess is dead or
  forgotten; `ManagerOn` says that none of this is undone for a subprocess that has
  been made before, only for a new one and its own reader.
* With one connection (`OneConnection`, a hypothesis of each: the executor keeps
  one) and any number of requests, deaths and restarts: `RestartCorrect`
  (`NoOutputAcrossRestart`), `OneClientCorrect` (`OneClient`) and `WakeCorrect`
  (`DeathWakesWaiter`).  The three need each other: whose output a waiting command gets depends on who reads which pipe, that on
  what `reworkManager` has undone when a new subprocess is made.  `Single` says it as
  `Tagged` (a pipe and the reader's line are of one subprocess), `OneOfEach` (of all
  subprocesses and readers only the last may live), `Managed` (what each step of
  `reworkManager` has undone) and `Waiter` (a waiting handler waits on the last
  subprocess).  With two connections a restart of the one comes between any two
  steps of the other, and TLC finds each of the three false (the first two take a
  third subprocess).

`PcModeProofs`, from `BoundsAssumption` (the bounds are natural numbers).

* `TypeCorrect`: `Spec => []TypeOK`.
* `WritesCorrect`: `Spec => []OneSideWrites`, the partition is never written from
  both sides by PC mode's doing (with the cases it names: a failed command, a session
  that met the script, while it lasts, and the export of the boot), and
  `BridgeCorrect`: `Spec => []RunningMeansBridged`.  Neither is
  inductive: that the partition is free at `modprobe`, and that nothing else is
  bound there, was arranged several commands earlier by another step of the
  worker, and must survive the script and the mirror meanwhile.  `IInv` is
  `UsbTyped`, `ActivityTyped` (the halves of `TypeOK`), `InStep` (which steps of
  the worker go with which state and with what is posted) and `Guarded` (what each
  step may rely on as long as nothing failed).  For the second theorem `Mirrors`
  (a running service is denied only by `toggled`) and `Bridging` (what each step
  of the start has already prepared) are added.

`MaintenanceProofs`, from its `BoundsAssumption`.

* `TypeCorrect`: `Spec => []TypeOK`.
* `StagedCorrect`: `Spec => []StagedWhole`, for any number of cuts and errors, up to
  the removals and extractions that leave a part (`torn`).
  `StagedWhole` speaks of the places the starter looks in; what is renamed to
  them is a copy made before, of a tree unpacked before that.  `IInv` adds
  `FilesTyped`, `UiTyped`, `OneWizard` (the wizard is pushed once per boot) and
  `Whole` (what `tmp` and `unpkg` hold at each step of the install thread); `Flags`
  are its Boolean variables.

* `CopyIsExact`: `LineSpec => []ExactCopy`, and `NoneSkipped`: `LineSpec => []NoSkip`, of
  `Ymodem`, from its `SizeAssumption`, for files and retry limits of any size and any
  number of faults.  `recv_file`
  does not look at block numbers, so that both hold only because sender and receiver
  stay in step: `InStep` says that there is one packet, what is left of one without its
  head (`Beheaded`, in which there is no packet) or one answer on the line
  (`Opening`, `Sending`, `Closing`, by the sender's stage) and that the last block
  written is the one being sent or, when its packet or answer is still out or was
  lost, the one before (`Paired`); or the receiver has read the end of the file in such
  a rest and writes no more (`Left`).  `Chain` and `Exact` follow the file.  A timeout
  that comes while the line carries something (`early`) breaks the step for good, so
  the invariant is `LineInv == "early" \notin seen => InStep`.
* `LineTypeCorrect`: `LineSpec => []LineTypeOK`, early timeouts included, with `Counted`.
  `DataNak` counts an error without a look at the limit, but every such step counts a NAK
  too, and those have a limit: `err <= Retry - 1 + naks`.

`MifareProofs`, from `CardsAssumption` (the names differ) and `BoundsAssumption`
(a card has a sector): every property of the run, for cards of any size and any
number of them, of jobs and of faults.

* `TypeCorrect`: `Spec => []TypeOK`.
* `KeysCorrect` (`KeysOpen`), `CopyCorrect` (`WriteIsCopy`), `WriteCorrect`
  (`WriteWorks`), `ReadCorrect` (`ReadIsExact`), `EraseCorrect` (`EraseIsWhole`).
  These speak of the end of a job, so none is inductive.  `IInv` adds to them
  `Where` (whose command is next, and on whose card) and, for each kind of job, what
  its loop has done when it is at sector `s`: `WriteSoFar`, `EraseSoFar`, `ReadSoFar`,
  the map empty when the keys of a card to write are looked for (`KeysInv`), and why
  a block can be written when its turn comes (`Easy`).  `BlockWritten` and
  `OutcomeOf` say what one attempt leaves.  The lemmas named `...Movers`, `...Ends`
  read the text of all the actions once, so that each step looks at the few that matter.

`ExecutorProofs`, from `ExAssumption`.

* `TypeCorrect`: `Spec => []TypeOK`, with `Own` (a task that has not ended has a
  number and no success), without which a stop could record a task that is none.
* `Refinement`: `Spec => ImplementsService`, for any number of threads.  `OneMoves`
  says that the mapping `Phase` changes at the acting thread only; then each action
  is one step of `TaskService`, or goes on inside a running task (`GoesOn`).
* For one thread (`OneThread`, a hypothesis of each theorem) and any number of tasks,
  stops and messages: `ReworksCorrect` (`ReworksCapped`) from `Budget`, which says
  where the next rework would still be allowed, also after a reset between `judge`
  and `rework`; `StopCorrect` (`StopIsComplete`) and `StopIsTheEnd`
  (`StopEndsAttempts`) from `Seen` (a task that runs is seen running) and `Awaited`
  (whoever stopped it still waits); `DroppedCorrect` (`InterruptedOutputDropped`)
  from `Clean`, an invariant about every message under way: none belongs to an
  interrupted task but the current one, unless the connection is marked for cleaning.
  With two threads they are false: the first task to end clears RUNNING for both,
  and what one of them interrupts reaches the other.

`ScanProofs`, from `ScanAssumption`, for one activity (`OneActivity`, a hypothesis)
and any number of scans.

* `ParseCorrect` (`ParsesOwnOutput`) and `CacheCorrect` (`CacheIsShown`).  Both rest
  on `OneLive`: of all the scans ever started one at most can still run a command, set
  the cache or call back, and while it can the screen says "Scanning" or is left; so
  what it set between the end of a command and its parser, or between `found` and the
  callback, nobody replaces.  With a second activity both are false.
* `TypeCorrect`: `Spec => []TypeOK`, for any number of activities, with `Born`: a scan
  that has a thread was started, for an activity, and only one at "task" has a call.

`FlowProofs`, from the assumption of `TagFlow`, for any number of scans, readers and
visits to Read and Auto Copy.

* `WrittenCorrect` (`WrittenIsRead`), `JobCorrect` (`OneJob`) and `ScreenCorrect`
  (`ScreenFits`).  Each speaks of the last link of a chain: the scan thread, the call
  it posts, the reader that call starts, the result the reader posts or defers while
  the console is open, the screen, the warning or `WriteActivity` on top of it.  The
  invariant `Orderly` describes the chain: `Scanning` (only the last scan runs or has
  posted, and the screen says so), `Reading` (a reader that is not over is the latest,
  of the last scan, and owed to the screen), `ReadScreen` and `CopyScreen` (what the
  console and the completion poll hold back), `Layers` (what may be on top of which
  state, and with which infos) and `Menu` (nothing goes on when no flow is open).
  The three are about flows in which nothing `raced`, that is no result has met an
  operation begun after its own; so is `FlowInv == ~raced => Orderly`.
* `TypeCorrect`: `Spec => []TypeOK`, races included.  `FlowTypes` adds that every scan a
  reader or a bundle is of was started, and that the result of a read that is posted is
  one of a reader.  A warning may be put over another one, so `above` has no bound that
  holds for every number of readers.

* `BusyCorrect`: `SimSpec => []BusyHasTask`, of `Simulation`, from its `SimAssumption`,
  with the range of `pc` and of `sims`: for any number of simulations and fetches.
* `SimTypeCorrect`: `SimSpec => []SimTypeOK`, from the same invariant.

`NavigationProofs`, from `NavAssumption`, for any number of activities and keys.

* `TypeCorrect`: `Spec => []TypeOK`.
* `TopCorrect`: `Spec => []TopIsCurrent`.  Inside a call `start` and `finish` are
  sequences of callbacks in which for a while nothing is shown, or what is shown is
  not on top: `AtMost` (nothing but the top is shown, resumed or bound) is what
  every callback keeps, `Exactly` what `Started`, `Finished` and `StartedHost`
  establish from it (`StartedProperties` and its like).  While a thread is inside `start_activity` its activity is
  on top and shown but not yet resumed (`Midway`), and what the Tk thread does
  meanwhile sets `mixed`, after which only the types are claimed.

Every invariant and every action property of the runs is proved, and the type
invariant of every component.  Only model-checked are the liveness properties, which
need fairness and `ENABLED`.  That the views and the symmetry of `RfTaskBoth` and
`ExecutorService` are sound is argued above, not proved.

## Not modelled

`stopManger`, `requestTask` and the interactive Enter thread of `rftask.py`;
`startPM3Plat`, which has the shape of `startPM3Ctrl`; `scan_type_synchronous`,
one step of the scan modelled, and `scan_stop`, which no key reaches; wording,
drawing, regular expressions over the text of commands and files, for which a
model checker is the wrong tool.  `start_activity` called by the thread of a
simulation is one step in Simulation, although Tk is not safe there.  The
commands of the other families of tags (ultralight, iCLASS, T55xx, ISO 15693) are
shorter sequences of the shape of Mifare's and count as outcomes of the reader and
write threads.  Sniffing is one command and a parser of its text.  The machine of
`ui.json` plugins interprets data the program does not contain.  Everything under
`tools/` and the firmware are not part of the running program.

## Plan

1. *Done*: RfTask with its first theorems, Executor and its abstract service,
   Navigation, Scan, Simulation.
2. *Done*: PcMode and Maintenance with their theorems, Ymodem, the flows of Read,
   Auto Copy and Write, Mifare with its theorems.
3. *Done*: theorems about Mifare, Navigation, Executor with the refinement of
   TaskService, Scan and Simulation.
4. *Done*: theorems about RfTask for one connection, Flows and Ymodem, and the type
   invariants left: every safety property of the runs is now a theorem.
5. *Open*: the iCLASS, ultralight and T55xx families; the queue of the HMI driver; the
   machine of `ui.json` plugins.
