------------------------------- MODULE RfTask -------------------------------
(***************************************************************************)
(* RemoteTaskManager (src/src/main/rftask.py): the server that owns the    *)
(* proxmark3 subprocess.  Each TCP connection has a handler thread; a      *)
(* reader thread moves the subprocess's stdout into the shared buffer of   *)
(* the one command in flight; reworkManager replaces subprocess and        *)
(* reader.  Steps are cut where a thread can block or where another thread *)
(* can observe a difference; runs of plain assignments are one step.       *)
(***************************************************************************)
EXTENDS Naturals, Sequences

CONSTANTS
  Handlers,   \* HandleServer threads, one per TCP connection
  NoOne,      \* _cmd_lock is free
  Requests,   \* request identities, each received once
  Kinds,      \* what clients send: CMD (a tag command, or one of the "hw" two
              \* that are not retried), CTL restart, CTL with nothing, PLT
  Ping,       \* the "hw ping" the server sends on its own account
  MaxGen      \* bound on the subprocesses ever created

ASSUME RfAssumption ==
  /\ NoOne \notin Handlers
  /\ Ping \notin Requests
  /\ Kinds \subseteq {"cmd", "hw", "restart", "detach", "plt"}
  /\ MaxGen \in Nat \ {0}

VARIABLES
  process,    \* _process: generation of the current subprocess, 0 is None
  gens,       \* subprocesses created so far
  pstate,     \* state of each subprocess
  stdin,      \* commands written to each subprocess and not yet executed
  stdout,     \* lines it has printed and nobody has read
  hasManager, \* _has_manager
  reader,     \* _read_thread: its number, 0 is None
  rd,         \* reader threads: control point, pipe they read, line in hand
  expecting,  \* _expecting_response
  event,      \* _output_event
  lines,      \* _output_lines
  lock,       \* _cmd_lock
  hpc,        \* control point of each handler
  job,        \* its request, and which attempt of _request_task_cmd runs
  target,     \* the subprocess it wrote to or reaps, the reader it joins
  held,       \* the response it keeps while it retries
  answer,     \* the kind of response each request got
  writes      \* history: times each request was written to a subprocess

pm3Vars     == <<pstate, stdin, stdout>>
readerVars  == <<reader, rd>>
cmdVars     == <<expecting, event, lines, lock>>
handlerVars == <<hpc, job, target, held, answer, writes>>
vars == <<process, gens, pm3Vars, hasManager, readerVars, cmdVars, handlerVars>>

Gens     == 1..MaxGen                    \* subprocesses, and their readers
Payloads == Requests \cup {Ping}
Line     == [of : Payloads, src : Gens, eor : BOOLEAN]
Blank    == [of |-> Ping, src |-> 1, eor |-> FALSE]
Idle     == [req |-> Ping, kind |-> "plt", try |-> "none"]
NoThread == [pc |-> "unborn", src |-> 0, line |-> Blank]
Started  == [NoThread EXCEPT !.pc = "loop"]
Exited   == [NoThread EXCEPT !.pc = "exited"]

\* startManager has run: one subprocess, its reader, the TCP server.
Init ==
  /\ process = 1 /\ gens = 1 /\ reader = 1
  /\ pstate = [g \in Gens |-> IF g = 1 THEN "up" ELSE "unborn"]
  /\ stdin  = [g \in Gens |-> <<>>]
  /\ stdout = [g \in Gens |-> <<>>]
  /\ hasManager = TRUE
  /\ rd = [g \in Gens |-> IF g = 1 THEN Started ELSE NoThread]
  /\ expecting = FALSE /\ event = FALSE /\ lines = <<>> /\ lock = NoOne
  /\ hpc = [h \in Handlers |-> "idle"]
  /\ job = [h \in Handlers |-> Idle]
  /\ target = [h \in Handlers |-> 0]
  /\ held = [h \in Handlers |-> <<>>]
  /\ answer = [r \in Requests |-> "fresh"]
  /\ writes = [r \in Requests |-> 0]

-----------------------------------------------------------------------------
(* The proxmark3 subprocess: outside this code.                            *)

Alive(g) == pstate[g] = "up"
Running == process # 0 /\ Alive(process)   \* _process and poll() is None
Printed(g, eor) == [of |-> Head(stdin[g]), src |-> g, eor |-> eor]

\* It runs the next command: some output and the end-of-command marker, or the
\* bare prompt "pm3 -->" (a "Nikola.D: 0" alone counts as output: only the
\* prompt makes a response empty).
Execute(g) ==
  /\ Alive(g) /\ stdin[g] # <<>>
  /\ \E out \in {<<Printed(g, FALSE), Printed(g, TRUE)>>, <<Printed(g, TRUE)>>} :
       stdout' = [stdout EXCEPT ![g] = @ \o out]
  /\ stdin' = [stdin EXCEPT ![g] = Tail(@)]
  /\ UNCHANGED <<process, gens, pstate, hasManager, readerVars, cmdVars, handlerVars>>

\* It dies, by itself or of a signal, perhaps in the middle of its output.
Die(g) ==
  /\ Alive(g)
  /\ pstate' = [pstate EXCEPT ![g] = "dead"]
  /\ \/ UNCHANGED stdout
     \/ /\ stdin[g] # <<>>
        /\ stdout' = [stdout EXCEPT ![g] = Append(@, Printed(g, FALSE))]
  /\ stdin' = [stdin EXCEPT ![g] = <<>>]
  /\ UNCHANGED <<process, gens, hasManager, readerVars, cmdVars, handlerVars>>

-----------------------------------------------------------------------------
(* The reader thread, _run_std_output_error.                               *)

Reading(i, pc) == rd[i].pc = pc
Goto(i, pc) == rd' = [rd EXCEPT ![i].pc = pc]
ReaderFrame == UNCHANGED <<process, gens, pstate, stdin, hasManager, reader, lock, handlerVars>>

\* As Exit, but the reader leaves without setting the event.
Exit_Silent(i) == /\ rd' = [rd EXCEPT ![i] = Exited]
                  /\ UNCHANGED <<stdout, event, expecting, lines>>

\* The end of the thread wakes whoever waits on the event.
Exit(i) == /\ rd' = [rd EXCEPT ![i] = Exited]
           /\ event' = TRUE
           /\ UNCHANGED <<stdout, expecting, lines>>

\* while self._process and self._has_manager: readline on its stdout.
ReaderLoop(i) ==
  /\ Reading(i, "loop")
  /\ \/ /\ process # 0 /\ hasManager
        /\ rd' = [rd EXCEPT ![i].pc = "read", ![i].src = process]
        /\ UNCHANGED <<stdout, expecting, event, lines>>
     \/ /\ process = 0 \/ ~hasManager
        /\ Exit(i)
  /\ ReaderFrame

ReaderLine(i) ==
  LET g == rd[i].src IN
  /\ Reading(i, "read") /\ stdout[g] # <<>>
  /\ rd' = [rd EXCEPT ![i].pc = "line", ![i].line = Head(stdout[g])]
  /\ stdout' = [stdout EXCEPT ![g] = Tail(@)]
  /\ UNCHANGED <<expecting, event, lines>>
  /\ ReaderFrame

\* End of file: leave if the current subprocess is dead, else loop again.
ReaderEOF(i) ==
  LET g == rd[i].src IN
  /\ Reading(i, "read") /\ stdout[g] = <<>> /\ ~Alive(g)
  /\ IF process # 0 /\ ~Running
     THEN Exit(i)
     ELSE Goto(i, "loop") /\ UNCHANGED <<stdout, expecting, event, lines>>
  /\ ReaderFrame

\* The flag is tested, then the line is appended: two steps of the thread.
ReaderTest(i) ==
  /\ Reading(i, "line")
  /\ Goto(i, IF expecting THEN "append" ELSE "mark")
  /\ UNCHANGED <<stdout, expecting, event, lines>>
  /\ ReaderFrame

ReaderAppend(i) ==
  /\ Reading(i, "append")
  /\ lines' = Append(lines, rd[i].line)
  /\ Goto(i, "mark")
  /\ UNCHANGED <<stdout, expecting, event>>
  /\ ReaderFrame

ReaderMark(i) ==
  /\ Reading(i, "mark")
  /\ event' = (event \/ (rd[i].line.eor /\ expecting))
  /\ rd' = [rd EXCEPT ![i].pc = "loop", ![i].line = Blank]
  /\ UNCHANGED <<stdout, expecting, lines>>
  /\ ReaderFrame

ReaderStep(i) == \/ ReaderLoop(i) \/ ReaderLine(i) \/ ReaderEOF(i)
                 \/ ReaderTest(i) \/ ReaderAppend(i) \/ ReaderMark(i)

-----------------------------------------------------------------------------
(* A handler thread in _send_cmd.                                          *)

ManagerFrame == UNCHANGED <<process, gens, pm3Vars, hasManager, readerVars>>

\* What "stripped in ('pm3 -->', '')" calls an empty response.
Empty(ls) == ls = <<>> \/ (Len(ls) = 1 /\ ls[1].eor)

Step(h, pc, try) == /\ hpc' = [hpc EXCEPT ![h] = pc]
                    /\ job' = [job EXCEPT ![h].try = try]

\* The handler answers, and the locals of its call are gone.
Reply(h, response) ==
  /\ hpc' = [hpc EXCEPT ![h] = "idle"]
  /\ job' = [job EXCEPT ![h] = Idle]
  /\ target' = [target EXCEPT ![h] = 0]
  /\ held' = [held EXCEPT ![h] = <<>>]
  /\ answer' = [answer EXCEPT ![job[h].req] = response]

\* An empty string is not written to the socket.
Respond(h, ls) == Reply(h, IF ls = <<>> THEN "silent" ELSE "lines")

Continue(h, pc, try) == Step(h, pc, try) /\ UNCHANGED <<target, held, answer>>

\* What _request_task_cmd does with the response, or None, of one _send_cmd.
Failed(h) ==
  \/ job[h].try = "first" /\ Continue(h, "rework", "first")
  \/ job[h].try = "again" /\ Reply(h, "offline")
  \/ job[h].try = "ping"  /\ Continue(h, "send", "retry")
  \/ job[h].try = "retry" /\ Respond(h, held[h])

\* As Retriable, but an empty retry is retried again.
Retriable_Forever(h, ls) == job[h].try # "ping" /\ job[h].kind # "hw" /\ Empty(ls)

\* An empty response of a command is worth one ping and one retry.
Retriable(h, ls) ==
  job[h].try \in {"first", "again"} /\ job[h].kind # "hw" /\ Empty(ls)

Returned(h, ls) ==
  \/ /\ Retriable(h, ls)
     /\ Step(h, "send", "ping")
     /\ held' = [held EXCEPT ![h] = ls]
     /\ UNCHANGED <<target, answer>>
  \/ job[h].try = "ping" /\ Continue(h, "send", "retry")
  \/ job[h].try # "ping" /\ ~Retriable(h, ls) /\ Respond(h, ls)

Payload(h) == IF job[h].try = "ping" THEN Ping ELSE job[h].req

\* The lock is free: reset the buffer, then expect, then write to a live
\* subprocess.
Issue(h) ==
  LET p == Payload(h) IN
  /\ hpc[h] = "send" /\ lock = NoOne
  /\ Running
  /\ lock' = h /\ lines' = <<>> /\ event' = FALSE /\ expecting' = TRUE
  /\ stdin' = [stdin EXCEPT ![process] = Append(@, p)]
  /\ writes' = IF p = Ping THEN writes ELSE [writes EXCEPT ![p] = @ + 1]
  /\ target' = [target EXCEPT ![h] = process]
  /\ hpc' = [hpc EXCEPT ![h] = "wait"]
  /\ UNCHANGED <<process, gens, pstate, stdout, hasManager, readerVars, job, held, answer>>

\* There is no subprocess, or it is dead.
IssueDead(h) ==
  /\ hpc[h] = "send" /\ lock = NoOne
  /\ ~Running
  /\ lines' = <<>> /\ event' = FALSE /\ expecting' = FALSE
  /\ Failed(h)
  /\ UNCHANGED <<lock, writes>> /\ ManagerFrame

\* Three seconds pass while another handler waits for its marker.
LockTimeout(h) ==
  /\ hpc[h] = "send" /\ lock # NoOne
  /\ Failed(h)
  /\ UNCHANGED <<cmdVars, writes>> /\ ManagerFrame

Wake(h) ==
  /\ hpc[h] = "wait" /\ event
  /\ expecting' = FALSE /\ lock' = NoOne
  /\ Returned(h, lines)
  /\ UNCHANGED <<lines, event, writes>> /\ ManagerFrame

\* As WaitTimeout, but the flag is left set after a timeout.
WaitTimeout_KeepsExpecting(h) ==
  /\ hpc[h] = "wait" /\ ~event
  /\ lock' = NoOne
  /\ Failed(h)
  /\ UNCHANGED <<expecting, lines, event, writes>> /\ ManagerFrame

\* Two minutes pass without a marker; the command may still be running.
WaitTimeout(h) ==
  /\ hpc[h] = "wait" /\ ~event
  /\ expecting' = FALSE /\ lock' = NoOne
  /\ Failed(h)
  /\ UNCHANGED <<lines, event, writes>> /\ ManagerFrame

-----------------------------------------------------------------------------
(* A handler thread in reworkManager, or in the teardown of an empty CTL.  *)

HandlerGoto(h, pc) == hpc' = [hpc EXCEPT ![h] = pc]

\* _has_manager = False, and _destroy_read_thread takes the reader.
Rework(h) ==
  /\ hpc[h] = "rework"
  /\ hasManager' = FALSE
  /\ target' = [target EXCEPT ![h] = reader]
  /\ reader' = 0
  /\ HandlerGoto(h, "join")
  /\ UNCHANGED <<process, gens, pm3Vars, rd, cmdVars, job, held, answer, writes>>

\* A reader that waits for output of a live subprocess does not look at
\* _has_manager: the join gives up after three seconds.
Blocked(i) == /\ Reading(i, "read")
              /\ Alive(rd[i].src) /\ stdout[rd[i].src] = <<>>

\* As Join, but the join has no timeout.
Join_Forever(h) ==
  /\ hpc[h] = "join"
  /\ target[h] # 0 => Reading(target[h], "exited")
  /\ HandlerGoto(h, "kill")
  /\ UNCHANGED <<cmdVars, job, target, held, answer, writes>> /\ ManagerFrame

Join(h) ==
  /\ hpc[h] = "join"
  /\ target[h] # 0 => Reading(target[h], "exited") \/ Blocked(target[h])
  /\ HandlerGoto(h, "kill")
  /\ UNCHANGED <<cmdVars, job, target, held, answer, writes>> /\ ManagerFrame

\* _destroy_subprocess wakes the waiter, then signals the subprocess, which
\* may obey (Die) or not.
Kill(h) ==
  /\ hpc[h] = "kill"
  /\ event' = TRUE
  /\ target' = [target EXCEPT ![h] = process]
  /\ \/ /\ process # 0
        /\ HandlerGoto(h, "reap")
     \/ /\ process = 0
        /\ HandlerGoto(h, "killall")
  /\ UNCHANGED <<expecting, lines, lock, job, held, answer, writes>> /\ ManagerFrame

\* The wait returns, or gives up after five seconds: either way the code
\* forgets whatever subprocess is current now.
Reap(h) ==
  /\ hpc[h] = "reap"
  /\ process' = 0
  /\ HandlerGoto(h, "killall")
  /\ UNCHANGED <<gens, pm3Vars, hasManager, readerVars, cmdVars, job, target, held, answer, writes>>

\* _request_task_ctl: an empty CTL takes the subprocess down and leaves it so;
\* every other rework goes on to the next subprocess.
Detach(h) == job[h].kind = "detach" /\ Reply(h, "ok")
ToSpawn(h) == /\ job[h].kind # "detach"
              /\ HandlerGoto(h, "spawn")
              /\ UNCHANGED <<job, target, held, answer>>

\* As KillAll, but no kill command is configured.
KillAll_NoCommand(h) ==
  /\ hpc[h] = "killall"
  /\ Detach(h) \/ ToSpawn(h)
  /\ UNCHANGED <<cmdVars, writes>> /\ ManagerFrame

\* _pm3_kill_cmd: every proxmark3 there is.  An empty CTL ends here.
KillAll(h) ==
  /\ hpc[h] = "killall"
  /\ pstate' = [g \in Gens |-> IF Alive(g) THEN "dead" ELSE pstate[g]]
  /\ Detach(h) \/ ToSpawn(h)
  /\ stdin' = [g \in Gens |-> <<>>]
  /\ UNCHANGED <<process, gens, stdout, hasManager, readerVars, cmdVars, writes>>

\* The three seconds before the new subprocess are enough for a reader to
\* test its loop condition or to notice that its subprocess is dead, and for
\* a woken waiter to run.
Moving(i) == \/ Reading(i, "loop")
             \/ rd[i].pc \in {"read", "line", "append", "mark"} /\ ~Alive(rd[i].src)
\* As Settled, but no sleep before the new subprocess.
Settled_NoSleep == TRUE
Settled == (\A i \in Gens : ~Moving(i)) /\ ~(event /\ lock # NoOne)

\* As Respawn, but the reader is started before _has_manager is set.
Respawn_ReaderFirst(h) ==
  /\ hpc[h] = "spawn" /\ Settled
  /\ gens < MaxGen
  /\ gens' = gens + 1 /\ process' = gens + 1 /\ reader' = gens + 1
  /\ pstate' = [pstate EXCEPT ![gens + 1] = "up"]
  /\ rd' \in {[rd EXCEPT ![gens + 1] = thread] : thread \in {Started, Exited}}
  /\ hasManager' = TRUE
  /\ \/ job[h].kind = "restart" /\ Reply(h, "ok")
     \/ job[h].kind # "restart" /\ Continue(h, "send", "again")
  /\ UNCHANGED <<stdin, stdout, cmdVars, writes>>

Respawn(h) ==
  /\ hpc[h] = "spawn" /\ Settled
  /\ gens < MaxGen
  /\ gens' = gens + 1 /\ process' = gens + 1 /\ reader' = gens + 1
  /\ pstate' = [pstate EXCEPT ![gens + 1] = "up"]
  /\ rd' = [rd EXCEPT ![gens + 1] = Started]
  /\ hasManager' = TRUE
  /\ \/ job[h].kind = "restart" /\ Reply(h, "ok")
     \/ job[h].kind # "restart" /\ Continue(h, "send", "again")
  /\ UNCHANGED <<stdin, stdout, cmdVars, writes>>

\* Popen raises: reworkManager returns False, yet "restart" answers OK.
RespawnFails(h) ==
  /\ hpc[h] = "spawn" /\ Settled
  /\ \/ job[h].kind = "restart" /\ Reply(h, "ok")
     \/ job[h].kind # "restart" /\ Reply(h, "offline")
  /\ UNCHANGED <<cmdVars, writes>> /\ ManagerFrame

\* A line arrives on the connection and task() dispatches it; PLT is a no-op.
Receive(h, r, kind) ==
  /\ hpc[h] = "idle" /\ answer[r] = "fresh"
  /\ \/ /\ kind = "plt"
        /\ answer' = [answer EXCEPT ![r] = "silent"]
        /\ UNCHANGED <<hpc, job>>
     \/ /\ kind # "plt"
        /\ answer' = [answer EXCEPT ![r] = "pending"]
        /\ job' = [job EXCEPT ![h] = [req |-> r, kind |-> kind, try |-> "first"]]
        /\ HandlerGoto(h, IF kind \in {"cmd", "hw"} THEN "send" ELSE "rework")
  /\ UNCHANGED <<cmdVars, target, held, writes>> /\ ManagerFrame

\* The steps of a handler that no timer takes.
Prompt(h) == \/ Issue(h) \/ IssueDead(h) \/ Wake(h)
             \/ Rework(h) \/ Join(h) \/ Kill(h) \/ Reap(h) \/ KillAll(h)
             \/ Respawn(h) \/ RespawnFails(h)
HandlerStep(h) == Prompt(h) \/ LockTimeout(h) \/ WaitTimeout(h)

Next == \/ \E g \in Gens : Execute(g) \/ Die(g)
        \/ \E i \in Gens : ReaderStep(i)
        \/ \E h \in Handlers : HandlerStep(h)
        \/ \E h \in Handlers, r \in Requests, k \in Kinds : Receive(h, r, k)

Spec == Init /\ [][Next]_vars

\* Threads are scheduled and timed waits expire.  The subprocess promises
\* nothing, so its steps have no fairness.
FairSpec == /\ Spec
            /\ \A i \in Gens : WF_vars(ReaderStep(i))
            /\ \A h \in Handlers : WF_vars(HandlerStep(h))

-----------------------------------------------------------------------------
(* What the server promises whatever the number of connections.            *)

TypeOK ==
  /\ gens \in Gens /\ process \in 0..gens /\ reader \in 0..gens
  /\ pstate \in [Gens -> {"unborn", "up", "dead"}]
  /\ stdin \in [Gens -> Seq(Payloads)]
  /\ stdout \in [Gens -> Seq(Line)]
  /\ hasManager \in BOOLEAN
  /\ rd \in [Gens -> [pc : {"unborn", "loop", "read", "line", "append", "mark", "exited"},
                      src : 0..MaxGen, line : Line]]
  /\ expecting \in BOOLEAN /\ event \in BOOLEAN
  /\ lines \in Seq(Line)
  /\ lock \in Handlers \cup {NoOne}
  /\ hpc \in [Handlers -> {"idle", "send", "wait", "rework", "join", "kill",
                           "reap", "killall", "spawn"}]
  /\ job \in [Handlers -> [req : Payloads, kind : Kinds \cup {"plt"},
                           try : {"none", "first", "again", "ping", "retry"}]]
  /\ target \in [Handlers -> 0..MaxGen]
  /\ held \in [Handlers -> Seq(Line)]
  /\ answer \in [Requests -> {"fresh", "pending", "silent", "ok", "offline", "lines"}]
  /\ writes \in [Requests -> Nat]

\* The reader collects output exactly while one handler, the holder of
\* _cmd_lock, waits for its marker: never after a timeout, a refused lock, a
\* dead subprocess or a rework of another connection.
OneCommandInFlight ==
  /\ \A h \in Handlers : hpc[h] = "wait" <=> lock = h
  /\ expecting <=> lock # NoOne

\* While the manager is on, a live subprocess has a live reader: the event of
\* a command written to it can be set.
ManagedHasReader ==
  hasManager /\ Running =>
    reader # 0 /\ rd[reader].pc # "exited"

\* A command that modifies a tag is written at most three times in all
\* (command, resend after a rework, retry of an empty response), and at most
\* twice when the client is told that the device is offline.
BoundedResend ==
  \A r \in Requests : writes[r] <= IF answer[r] = "offline" THEN 2 ELSE 3

\* A handler that took up a request goes back to its connection, however the
\* subprocess and the other connections behave.  What it answers may be
\* nothing at all: a waiter that is woken without a line has an empty response,
\* and handle() does not write that (see NormalResponse).
HandlerComesBack ==
  \A r \in Requests : answer[r] = "pending" ~> answer[r] # "pending"

-----------------------------------------------------------------------------
(* What it promises to a single connection.                                *)

\* After a restart no output of the old subprocess reaches a new command.
NoOutputAcrossRestart ==
  \A h \in Handlers : hpc[h] = "wait" =>
    \A n \in DOMAIN lines : lines[n].src = target[h]

\* reworkManager leaves no second proxmark3 on the serial port, and no zombie
\* reader that competes for the output of the current one.
OneClient ==
  /\ \A f, g \in Gens : Alive(f) /\ Alive(g) => f = g
  /\ \A i, j \in Gens :
       Reading(i, "read") /\ Reading(j, "read") /\ rd[i].src = rd[j].src
         /\ Alive(rd[i].src) => i = j

\* A handler that waits on a subprocess that died is woken by the reader on its
\* way out, not by the two-minute timer.
DeathWakesWaiter ==
  \A h \in Handlers :
    hpc[h] = "wait" /\ rd[target[h]].pc = "exited" => event

-----------------------------------------------------------------------------
(* What the source says and the code does not do.                          *)

\* "Returns the response string, or None if no EOR was received": what a
\* woken handler takes for the response ends with the marker.
ResponseIsTerminated ==
  [][\A h \in Handlers : Wake(h) => lines # <<>> /\ lines[Len(lines)].eor]_vars

\* "This prevents stale output from a previous command from leaking into the
\* next command's response."
NoStaleOutput ==
  [][\A h \in Handlers : Wake(h) =>
       \A n \in DOMAIN lines : lines[n].of = Payload(h)]_vars

\* "Return whatever we get - middleware sees a normal response": a command,
\* the only request that waits on a subprocess, is not left without an answer.
NormalResponse ==
  [][\A h \in Handlers : Wake(h) => answer'[job[h].req] # "silent"]_vars

\* "Without this, a concurrent _send_cmd stays blocked, holding _cmd_lock":
\* after reworkManager the resend is not kept out by a handler that waits for
\* an answer of the subprocess that was replaced.
ReworkFreesLock ==
  \A h, k \in Handlers :
    hpc[h] = "send" /\ job[h].try = "again" /\ lock = k /\ ~event =>
      target[k] = process
=============================================================================
