----------------------------- MODULE FlowProofs -----------------------------
(***************************************************************************)
(* Read Tag, Auto Copy and the write that follows, for any number of       *)
(* scans, readers and visits: as long as no result has met an operation    *)
(* begun after its own, the screen is that of the one job under way.       *)
(*                                                                         *)
(* The three invariants speak of the screen and of what is written; none   *)
(* is inductive. Orderly adds where each job is - its thread, its posted   *)
(* end or the screen it has drawn - and that only the latest scan and the  *)
(* latest reader may still have one.                                       *)
(*                                                                         *)
(* The types hold after a race, too. The last section is about             *)
(* SimulationActivity, whose threads come back to its screen in the same   *)
(* way: it sets the screen busy, and they idle again.                      *)
(***************************************************************************)
EXTENDS Flows, Simulation, TLAPS, FiniteSetTheorems, SequenceTheorems, WellFoundedInduction

-----------------------------------------------------------------------------
(* What a flow that has met no race looks like.                            *)

States == {"idle", "scanning", "reading", "success", "failed", "no_tag", "no_key",
           "scan_failed", "wrong_type"}
Results == {"success", "failed", "no_tag"}
Posts == [what : {"scanned", "nothing", "success", "failed", "complete"},
          id : 0..MaxReads, result : {"none", "ok", "missing", "failed", "unread"}]
Activity == [state : States, found : BOOLEAN, buttons : Buttons, console : BOOLEAN,
             bar : BOOLEAN, pending : Shown, reader : 0..MaxReads, bundle : Nat,
             result : Nat, latest : 0..MaxReads, posts : SUBSET Posts]
Reader == [st : {"over", "run", "raised"}, of : Nat, defer : Shown, poll : {"off", "watch", "wait"}]
Writing == [state : {"none", "confirm", "idle", "writing", "verifying", "done"}, infos : Nat,
            bundle : Nat, job : {"none", "run", "posted"}, toast : BOOLEAN]

Typed ==
  /\ act \in {"menu", "read", "copy"}
  /\ a \in Activity
  /\ reads \in [1..MaxReads -> Reader]
  /\ w \in Writing
  /\ nscan \in Nat /\ (act # "menu" => nscan # 0) /\ cache \in 0..nscan
  /\ scans \subseteq {nscan} /\ 0 \notin scans /\ strays \subseteq 1..nscan
  /\ \A i \in 1..MaxReads : reads[i].of <= nscan

\* The scan that runs or whose end is posted is the last one, and the screen says
\* so.
Scanning ==
  /\ scans # {} => /\ a.state = "scanning"
                   /\ Call("scanned") \notin a.posts /\ Call("nothing") \notin a.posts
  /\ Call("scanned") \in a.posts \/ Call("nothing") \in a.posts => a.state = "scanning"
  /\ ~(Call("scanned") \in a.posts /\ Call("nothing") \in a.posts)
  /\ a.state = "scanning" =>
       /\ scans # {} \/ Call("scanned") \in a.posts \/ Call("nothing") \in a.posts
       /\ \A i \in 1..MaxReads : reads[i].st = "raised" => reads[i].of # nscan

\* The reader that runs is the last one, and what it reads is the last scan.
Reading ==
  /\ \A i \in 1..MaxReads : reads[i].st = "run" => i = a.latest /\ a.state = "reading"
  /\ \A i \in 1..MaxReads : reads[i].st = "raised" /\ i = a.latest =>
       a.state \notin {"success", "no_key"}
  /\ \A i \in 1..MaxReads : reads[i].st = "raised" /\ reads[i].of = nscan => cache = nscan
  /\ \A i \in 1..MaxReads : reads[i].defer # "none" =>
       i = a.latest /\ reads[i].st # "run" /\ reads[i].defer = a.state
  /\ a.state \in {"reading", "success", "failed", "no_key", "wrong_type"} => cache = nscan
  /\ a.state = "success" => a.bundle \in {0, nscan}

Draws == Call("success") \in a.posts \/ Call("failed") \in a.posts

\* Read Tag: a result is on the screen, or drawn when the bar is full, or put
\* aside while the console is open.
ReadScreen ==
  act = "read" =>
    /\ a.state \in {"scanning", "reading", "success", "failed", "no_tag", "no_key"}
    /\ a.state = "reading" => \E i \in 1..MaxReads : i = a.latest /\ reads[i].st = "run"
    /\ Call("scanned") \in a.posts => cache = nscan
    /\ \A p \in a.posts : p.what # "complete" /\ p = Call(p.what)
    /\ Call("success") \in a.posts => a.state = "success"
    /\ Call("failed") \in a.posts => a.state = "failed" /\ (a.console => ~a.bar)
    /\ Draws => a.buttons = "none" /\ a.pending = "none"
                  /\ \A i \in 1..MaxReads : reads[i].defer = "none"
    /\ a.pending # "none" =>
         /\ a.console /\ a.state \in Results
         /\ a.pending = a.state \/ \E i \in 1..MaxReads : reads[i].defer # "none"
    /\ a.pending = "success" => a.state = "success"
    /\ \A i \in 1..MaxReads : reads[i].defer # "none" => a.console
    /\ a.state \notin Results \/ a.bar => a.buttons = "none"
    /\ a.state \in Results /\ ~Draws /\ ~a.console => ~a.bar
    /\ a.state \in Results /\ ~Draws /\ a.pending = "none"
         /\ (\A i \in 1..MaxReads : reads[i].defer = "none")
       => a.buttons = Offered(a.state)

\* Auto Copy: the buttons are those of the state, and only the result of the last
\* read can come.
CopyScreen ==
  act = "copy" =>
    /\ a.state \in {"scanning", "reading", "success", "failed", "no_key", "scan_failed", "wrong_type"}
    /\ a.buttons = Offered(a.state)
    /\ a.pending = "none" /\ ~Draws /\ Call("nothing") \notin a.posts
    /\ \A i \in 1..MaxReads : reads[i].defer = "none"
    /\ a.result # 0 => cache = nscan /\ Call("scanned") \in a.posts
    /\ \A p \in a.posts : p.what = "complete" /\ p.id # 0 => reads[p.id].st = "over"
    /\ \A p \in a.posts : p.what = "complete" => p.id # 0 /\ p.result # "none"
    /\ \A p \in a.posts : p.what # "complete" => p = Call(p.what)
    /\ \A i \in 1..MaxReads : reads[i].st = "raised" /\ ~Overtaken(i) => a.state = "failed"
    /\ \A p \in a.posts : p.what = "complete" /\ ~Overtaken(p.id) =>
         a.state = "reading" \/ (a.state = "failed" /\ p.result = "unread")
    /\ a.state = "reading" =>
         \/ \E i \in 1..MaxReads : i = a.latest /\ reads[i].st = "run"
         \/ \E p \in a.posts : p.what = "complete"

\* What is on top of the flow goes with its state.
Layers ==
  /\ above \in {<<>>, <<"m1">>, <<"confirm">>, <<"write">>, <<"other">>}
  /\ above \in {<<"confirm">>, <<"write">>} => a.state = "success"
  /\ above \in {<<"m1">>, <<"other">>} => a.state = "no_key"
  /\ above \notin {<<"confirm">>, <<"write">>} => w = NoWrite
  /\ above = <<"confirm">> => w.state = "confirm" /\ w.job = "none" /\ w.infos = cache
  /\ w.bundle # 0 => w.infos = w.bundle
  /\ w.job # "none" => WriteBusy

Menu == act = "menu" => /\ above = <<>> /\ a = Blank /\ scans = {}
                        /\ \A i \in 1..MaxReads : reads[i] = Over

Orderly == Typed /\ Scanning /\ Reading /\ ReadScreen /\ CopyScreen /\ Layers /\ Menu

-----------------------------------------------------------------------------
(* The operators the flows are built from.                                 *)

LEMMA Bounds == MaxScans \in Nat \ {0} /\ MaxReads \in Nat \ {0} /\ MaxVisits \in Nat \ {0}
BY FlowAssumption

LEMMA MinIsMember ==
  ASSUME NEW S, S \subseteq Nat, S # {}
  PROVE  Min(S) \in S
<1> DEFINE R == OpToRel(<, Nat)
<1>1. PICK x \in S : \A y \in S : ~(<<y, x>> \in R)
  <2>1. IsWellFoundedOn(R, Nat)
    BY NatLessThanWellFounded
  <2> HIDE DEF R
  <2> QED
    BY <2>1, WFMin
<1>2. \A y \in S : ~(y < x)
  BY <1>1, Zenon DEF OpToRel
<1>3. \A y \in S : x <= y
  BY <1>2
<1> QED
  BY <1>3, Zenon DEF Min

LEMMA CallIs ==
  ASSUME NEW what \in {"scanned", "nothing", "success", "failed"}
  PROVE  /\ Call(what) \in Posts /\ Call(what).what = what
         /\ Call(what).id = 0 /\ Call(what).result = "none"
BY Bounds DEF Call, Post, Posts

LEMMA CallsDiffer ==
  /\ Call("scanned") # Call("nothing") /\ Call("scanned") # Call("success")
  /\ Call("scanned") # Call("failed") /\ Call("nothing") # Call("success")
  /\ Call("nothing") # Call("failed") /\ Call("success") # Call("failed")
BY CallIs

\* A free reader is over.
LEMMA FreeIs ==
  ASSUME FreeReads # {}
  PROVE  /\ Min(FreeReads) \in 1..MaxReads
         /\ reads[Min(FreeReads)].st = "over" /\ reads[Min(FreeReads)].defer = "none"
         /\ a.reader # Min(FreeReads)
         /\ \A p \in a.posts : p.what = "complete" => p.id # Min(FreeReads)
<1>1. Min(FreeReads) \in FreeReads
  BY MinIsMember, Bounds DEF FreeReads
<1> QED
  BY <1>1 DEF FreeReads

LEMMA StartScanIs ==
  ASSUME NEW b \in Activity, StartScan(b), nscan \in Nat
  PROVE  /\ nscan' = nscan + 1 /\ scans' = scans \cup {nscan + 1}
         /\ a' \in Activity
         /\ a'.state = "scanning" /\ a'.buttons = "none" /\ a'.bar = TRUE
         /\ a'.console = b.console /\ a'.pending = b.pending /\ a'.reader = b.reader
         /\ a'.bundle = b.bundle /\ a'.result = b.result /\ a'.latest = b.latest
         /\ a'.posts = b.posts
BY DEF StartScan, Activity, States, Buttons

LEMMA StartReadIs ==
  ASSUME NEW b \in Activity, NEW poll \in {"off", "watch"}, StartRead(b, poll),
         reads \in [1..MaxReads -> Reader], cache \in Nat
  PROVE  \E i \in 1..MaxReads :
           /\ reads[i].st = "over" /\ reads[i].defer = "none"
           /\ a.reader # i /\ \A p \in a.posts : p.what = "complete" => p.id # i
           /\ reads' \in [1..MaxReads -> Reader]
           /\ reads'[i].st = "run" /\ reads'[i].of = cache /\ reads'[i].defer = "none"
           /\ \A j \in 1..MaxReads : j # i => reads'[j] = reads[j]
           /\ a' \in Activity
           /\ a'.state = "reading" /\ a'.buttons = "none" /\ a'.bar = TRUE
           /\ a'.reader = i /\ a'.latest = i
           /\ a'.console = b.console /\ a'.pending = b.pending
           /\ a'.bundle = b.bundle /\ a'.result = b.result /\ a'.posts = b.posts
<1> DEFINE i == Min(FreeReads)
<1>1. FreeReads # {}
  BY DEF StartRead
<1>2. /\ i \in 1..MaxReads /\ reads[i].st = "over" /\ reads[i].defer = "none"
      /\ a.reader # i /\ \A p \in a.posts : p.what = "complete" => p.id # i
  BY <1>1, FreeIs
<1>3. /\ reads' = [reads EXCEPT ![i] = [st |-> "run", of |-> cache, defer |-> "none", poll |-> poll]]
      /\ a' = [b EXCEPT !.state = "reading", !.buttons = "none", !.reader = i,
                        !.latest = i, !.bar = TRUE]
  BY DEF StartRead
<1> HIDE DEF i
<1>4. /\ reads' \in [1..MaxReads -> Reader]
      /\ reads'[i].st = "run" /\ reads'[i].of = cache /\ reads'[i].defer = "none"
      /\ \A j \in 1..MaxReads : j # i => reads'[j] = reads[j]
  BY <1>2, <1>3 DEF Reader, Shown
<1>5. a' \in Activity
  <2>1. i \in 0..MaxReads
    BY <1>2, Bounds
  <2> QED
    BY <2>1, <1>3 DEF Activity, States, Buttons
<1>6. /\ a'.state = "reading" /\ a'.buttons = "none" /\ a'.bar = TRUE
      /\ a'.reader = i /\ a'.latest = i
      /\ a'.console = b.console /\ a'.pending = b.pending
      /\ a'.bundle = b.bundle /\ a'.result = b.result /\ a'.posts = b.posts
  BY <1>3 DEF Activity
<1> QED
  BY <1>2, <1>4, <1>5, <1>6

LEMMA DrawnIs ==
  ASSUME NEW b \in Activity, NEW kind \in Results
  PROVE  /\ Drawn(b, kind) \in Activity
         /\ Drawn(b, kind).buttons = Offered(kind) /\ Drawn(b, kind).bar = FALSE
         /\ Drawn(b, kind).state = b.state /\ Drawn(b, kind).console = b.console
         /\ Drawn(b, kind).pending = b.pending /\ Drawn(b, kind).reader = b.reader
         /\ Drawn(b, kind).bundle = b.bundle /\ Drawn(b, kind).result = b.result
         /\ Drawn(b, kind).latest = b.latest /\ Drawn(b, kind).posts = b.posts
<1>1. Screen(kind) \in Buttons /\ Screen(kind) = Offered(kind)
  BY DEF Screen, Results, Buttons, Offered
<1> QED
  BY <1>1 DEF Drawn, Activity

\* A result is drawn, or its drawing posted.
LEMMA ShowIs ==
  ASSUME NEW b \in Activity, NEW kind \in Results
  PROVE  LET c == Show(b, kind) IN
         /\ c \in Activity /\ c.state = kind
         /\ c.console = b.console /\ c.pending = b.pending /\ c.reader = b.reader
         /\ c.bundle = b.bundle /\ c.result = b.result /\ c.latest = b.latest
         /\ \/ /\ b.bar /\ kind \in {"success", "failed"} /\ c.bar
               /\ c.posts = b.posts \cup {Call(kind)} /\ c.buttons = b.buttons
            \/ /\ (kind = "no_tag" \/ ~b.bar) /\ ~c.bar
               /\ c.posts = b.posts /\ c.buttons = Offered(kind)
<1> DEFINE d == [b EXCEPT !.state = kind]
<1>1. /\ d \in Activity /\ d.state = kind /\ d.bar = b.bar /\ d.buttons = b.buttons
      /\ d.console = b.console /\ d.pending = b.pending /\ d.reader = b.reader
      /\ d.bundle = b.bundle /\ d.result = b.result /\ d.latest = b.latest
      /\ d.posts = b.posts
  BY DEF Activity, Results, States
<1>2. CASE kind # "no_tag" /\ b.bar
  <2> DEFINE c == [d EXCEPT !.posts = @ \cup {Call(kind)}]
  <2>1. Show(b, kind) = c
    BY <1>2 DEF Show
  <2>2. Call(kind) \in Posts
    BY <1>2, CallIs DEF Results
  <2> HIDE DEF d
  <2>3. kind \in {"success", "failed"}
    BY <1>2 DEF Results
  <2>4. c \in Activity
    BY <1>1, <2>2 DEF Activity
  <2>5. /\ c.state = d.state /\ c.buttons = d.buttons /\ c.bar = d.bar
        /\ c.console = d.console /\ c.pending = d.pending /\ c.reader = d.reader
        /\ c.bundle = d.bundle /\ c.result = d.result /\ c.latest = d.latest
        /\ c.posts = d.posts \cup {Call(kind)}
    BY <1>1 DEF Activity
  <2> HIDE DEF c
  <2>6. /\ c.state = kind /\ c.buttons = b.buttons /\ c.bar
        /\ c.console = b.console /\ c.pending = b.pending /\ c.reader = b.reader
        /\ c.bundle = b.bundle /\ c.result = b.result /\ c.latest = b.latest
        /\ c.posts = b.posts \cup {Call(kind)}
    BY <1>1, <1>2, <2>5
  <2> QED
    BY <1>1, <1>2, <2>1, <2>3, <2>4, <2>6, Zenon
<1>3. CASE ~(kind # "no_tag" /\ b.bar)
  <2>1. Show(b, kind) = Drawn(d, kind)
    BY <1>3 DEF Show
  <2> HIDE DEF d
  <2>2. /\ Drawn(d, kind) \in Activity
        /\ Drawn(d, kind).buttons = Offered(kind) /\ Drawn(d, kind).bar = FALSE
        /\ Drawn(d, kind).state = d.state /\ Drawn(d, kind).console = d.console
        /\ Drawn(d, kind).pending = d.pending /\ Drawn(d, kind).reader = d.reader
        /\ Drawn(d, kind).bundle = d.bundle /\ Drawn(d, kind).result = d.result
        /\ Drawn(d, kind).latest = d.latest /\ Drawn(d, kind).posts = d.posts
    BY <1>1, DrawnIs
  <2>3. kind = "no_tag" \/ ~b.bar
    BY <1>3
  <2> QED
    BY <1>1, <2>1, <2>2, <2>3, Zenon
<1> QED
  BY <1>2, <1>3

LEMMA OneLayer ==
  ASSUME NEW x
  PROVE  /\ <<x>> # <<>> /\ Len(<<x>>) = 1 /\ Last(<<x>>) = x
         /\ Front(<<x>>) = <<>> /\ Append(<<>>, x) = <<x>>
BY DEF Last, Front

\* What is on top is all there is on top.
LEMMA OnTopIs ==
  ASSUME Layers, NEW name, OnTop(name)
  PROVE  above = <<name>> /\ name \in {"m1", "confirm", "write", "other"} /\ Front(above) = <<>>
BY OneLayer DEF Layers, OnTop

-----------------------------------------------------------------------------
(* Steps of neither flow.                                                  *)

LEMMA OpenStep ==
  ASSUME Orderly, NEW flow \in {"read", "copy"}, Open(flow)
  PROVE  Orderly'
<1>1. /\ act = "menu" /\ act' = flow /\ a = Blank /\ scans = {} /\ above = <<>>
      /\ \A i \in 1..MaxReads : reads[i] = Over
      /\ UNCHANGED <<above, cache, strays, reads, w, raced>> /\ StartScan(Blank)
  BY DEF Open, Orderly, Menu
<1>2. Blank \in Activity
  BY <1>1 DEF Orderly, Typed
<1>3. /\ nscan' = nscan + 1 /\ scans' = {nscan + 1} /\ nscan \in Nat /\ a' \in Activity
      /\ a'.state = "scanning" /\ a'.buttons = "none" /\ a'.pending = "none"
      /\ a'.posts = {} /\ a'.result = 0
  BY <1>1, <1>2, StartScanIs DEF Orderly, Typed, Blank
<1>4. Typed'
  BY <1>1, <1>3, Bounds DEF Orderly, Typed, Reader
<1>5. Scanning' /\ Reading'
  BY <1>1, <1>3 DEF Scanning, Reading, Over
<1>6. ReadScreen' /\ CopyScreen'
  BY <1>1, <1>3 DEF ReadScreen, CopyScreen, Over, Results, Draws, Offered
<1>7. Layers' /\ Menu'
  BY <1>1, <1>3 DEF Orderly, Layers, WriteBusy, Menu
<1> QED
  BY <1>4, <1>5, <1>6, <1>7 DEF Orderly

LEMMA LeaveStep ==
  ASSUME Orderly, ReadLeave \/ CopyLeave
  PROVE  Orderly'
<1>1. /\ act' = "menu" /\ a' = Blank /\ scans' = {} /\ above = <<>>
      /\ strays' = strays \cup scans /\ reads' = [i \in 1..MaxReads |-> Over]
      /\ UNCHANGED <<above, cache, nscan, w, raced>>
  BY DEF ReadLeave, CopyLeave, KeysOf, Leave
<1>2. /\ Blank.state = "idle" /\ Blank.posts = {} /\ Blank \in Activity
      /\ Over \in Reader /\ Over.st = "over" /\ Over.defer = "none" /\ Over.of = 0
  BY Bounds DEF Blank, Over, Activity, Reader, States, Buttons, Shown
<1>3. Typed'
  <2>1. scans \subseteq 1..nscan
    BY DEF Orderly, Typed
  <2> QED
    BY <1>1, <1>2, <2>1 DEF Orderly, Typed
<1>4. Scanning' /\ Reading'
  BY <1>1, <1>2 DEF Scanning, Reading
<1>5. ReadScreen' /\ CopyScreen'
  BY <1>1 DEF ReadScreen, CopyScreen
<1>6. Layers' /\ Menu'
  BY <1>1 DEF Orderly, Layers, WriteBusy, Menu
<1> QED
  BY <1>3, <1>4, <1>5, <1>6 DEF Orderly

LEMMA StrayStep ==
  ASSUME Orderly, StrayScan, ~raced'
  PROVE  Orderly'
<1>1. PICK k \in strays, found \in BOOLEAN :
        /\ strays' = strays \ {k} /\ cache' = IF found THEN k ELSE cache
        /\ ~found \/ act = "menu" \/ scans # {}
        /\ UNCHANGED <<act, above, a, nscan, scans, reads, w>>
  BY DEF StrayScan
<1>2. CASE cache' = cache
  <2>1. Typed' /\ Scanning' /\ Reading'
    BY <1>1, <1>2 DEF Orderly, Typed, Scanning, Reading
  <2>2. ReadScreen' /\ CopyScreen'
    BY <1>1, <1>2 DEF Orderly, ReadScreen, CopyScreen, Draws, Overtaken
  <2>3. Layers' /\ Menu'
    BY <1>1, <1>2 DEF Orderly, Layers, WriteBusy, Menu
  <2> QED
    BY <2>1, <2>2, <2>3 DEF Orderly
<1>3. CASE act = "menu" \/ scans # {}
  <2>1. Typed' /\ Scanning' /\ Menu'
    <3>1. cache' \in 0..nscan
      BY <1>1 DEF Orderly, Typed
    <3>2. Typed'
      BY <1>1, <3>1 DEF Orderly, Typed
    <3> QED
      BY <1>1, <3>2 DEF Orderly, Scanning, Menu
  <2>2. a.state \in {"idle", "scanning"}
    BY <1>3 DEF Orderly, Scanning, Menu, Blank
  <2>3. Reading'
    BY <1>1, <1>3, <2>2 DEF Orderly, Reading, Scanning, Menu, Over
  <2>4. ReadScreen'
    BY <1>1, <1>3 DEF Orderly, ReadScreen, Scanning, Draws
  <2>5. CopyScreen'
    BY <1>1, <1>3 DEF Orderly, CopyScreen, Scanning, Draws, Overtaken
  <2>6. Layers'
    BY <1>1, <2>2 DEF Orderly, Layers, WriteBusy
  <2> QED
    BY <2>1, <2>3, <2>4, <2>5, <2>6 DEF Orderly
<1> QED
  BY <1>1, <1>2, <1>3

\* A step that touches only what is on top of the flow.
LEMMA AboveOnly ==
  ASSUME Orderly, UNCHANGED <<act, a, cache, nscan, scans, strays, reads, raced>>,
         w' \in Writing, Layers', Menu'
  PROVE  Orderly'
<1>1. Typed' /\ Scanning'
  BY DEF Orderly, Typed, Scanning
<1>2. Reading' /\ ReadScreen'
  BY DEF Orderly, Reading, ReadScreen, Draws
<1>3. CopyScreen'
  BY DEF Orderly, CopyScreen, Draws, Overtaken
<1> QED
  BY <1>1, <1>2, <1>3 DEF Orderly

LEMMA LaunchStep ==
  ASSUME Orderly, ReadLaunchWrite \/ CopyLaunchWrite
  PROVE  Orderly'
<1>1. /\ above = <<>> /\ above' = <<"confirm">> /\ act # "menu" /\ a.state = "success"
      /\ w' = [NoWrite EXCEPT !.state = "confirm", !.infos = cache, !.bundle = a.bundle]
      /\ UNCHANGED <<act, a, cache, nscan, scans, strays, reads, raced>>
  BY OneLayer DEF ReadLaunchWrite, CopyLaunchWrite, LaunchWrite, KeysOf, WriteOf, CopyKeys
<1>2. cache = nscan /\ a.bundle \in {0, nscan} /\ nscan \in Nat /\ a.bundle \in Nat
  BY <1>1 DEF Orderly, Reading, Typed
<1>3. /\ w' \in Writing /\ w'.state = "confirm" /\ w'.job = "none"
      /\ w'.infos = cache /\ w'.bundle = a.bundle
  BY <1>1, <1>2 DEF NoWrite, Writing
<1>4. Layers' /\ Menu'
  BY <1>1, <1>2, <1>3 DEF Layers, Menu
<1> QED
  BY <1>1, <1>3, <1>4, AboveOnly

LEMMA WriteStep ==
  ASSUME Orderly, ConfirmWrite \/ WriteKey \/ WritePwr \/ WriteThread \/ WriteComplete \/ CloseOther
                  \/ LeftEnds
  PROVE  Orderly'
<1>1. UNCHANGED <<act, a, cache, nscan, scans, strays, reads, raced>>
  BY DEF ConfirmWrite, WriteKey, WritePwr, WriteThread, WriteComplete, CloseOther, LeftEnds
<1>2. NoWrite \in Writing /\ NoWrite.bundle = 0 /\ NoWrite.job = "none"
  BY DEF NoWrite, Writing
<1>3. w \in Writing /\ Layers /\ cache \in Nat
  BY DEF Orderly, Typed
<1>4. act = "menu" => above = <<>>
  BY DEF Orderly, Menu
<1>5. CASE ConfirmWrite
  <2>1. above = <<"confirm">> /\ Front(above) = <<>>
    BY <1>3, <1>5, OnTopIs DEF ConfirmWrite
  <2>2. CASE above' = <<>> /\ w' = NoWrite
    <3>1. Layers' /\ Menu'
      BY <1>1, <1>2, <2>1, <2>2 DEF Layers, Menu, Orderly, WriteBusy
    <3> QED
      BY <1>1, <1>2, <2>2, <3>1, AboveOnly
  <2>3. CASE /\ above' = <<"write">>
             /\ w' = [state |-> IF w.bundle = 0 THEN "idle" ELSE "writing",
                      infos |-> cache, bundle |-> w.bundle,
                      job |-> IF w.bundle = 0 THEN "none" ELSE "run", toast |-> FALSE]
    <3>1. w' \in Writing /\ w'.infos = cache /\ w'.bundle = w.bundle /\ (w'.job # "none" => WriteBusy')
      BY <1>3, <2>3 DEF Writing, WriteBusy
    <3>2. Layers' /\ Menu'
      BY <1>1, <1>3, <1>4, <2>1, <2>3, <3>1 DEF Layers, Menu
    <3> QED
      BY <1>1, <3>1, <3>2, AboveOnly
  <2> QED
    BY <1>5, <2>1, <2>2, <2>3, OneLayer DEF ConfirmWrite, Pop
<1>6. CASE WriteKey
  <2>1. above = <<"write">> /\ above' = above
    BY <1>3, <1>6, OnTopIs DEF WriteKey
  <2>2. w' \in Writing /\ w'.infos = w.infos /\ w'.bundle = w.bundle /\ (w'.job # "none" => WriteBusy')
    BY <1>3, <1>6 DEF WriteKey, Writing, WriteBusy
  <2>3. Layers' /\ Menu'
    BY <1>1, <1>3, <1>4, <2>1, <2>2 DEF Layers, Menu
  <2> QED
    BY <1>1, <2>2, <2>3, AboveOnly
<1>7. CASE WritePwr
  <2>1. above = <<"write">> /\ Front(above) = <<>>
    BY <1>3, <1>7, OnTopIs DEF WritePwr
  <2>2. CASE w.toast
    <3>1. /\ above' = above /\ w' \in Writing /\ w'.infos = w.infos /\ w'.bundle = w.bundle
          /\ w'.job # "none" => WriteBusy'
      BY <1>3, <1>7, <2>2 DEF WritePwr, Writing, Layers, WriteBusy
    <3>2. Layers' /\ Menu'
      BY <1>1, <1>3, <1>4, <2>1, <3>1 DEF Layers, Menu
    <3> QED
      BY <1>1, <3>1, <3>2, AboveOnly
  <2>3. CASE ~w.toast
    <3>1. above' = <<>> /\ w' = NoWrite
      BY <1>7, <2>1, <2>3 DEF WritePwr, Pop
    <3>2. Layers' /\ Menu'
      BY <1>1, <1>2, <2>1, <3>1 DEF Layers, Menu, Orderly
    <3> QED
      BY <1>1, <1>2, <3>1, <3>2, AboveOnly
  <2> QED
    BY <2>2, <2>3
<1>8. CASE WriteThread \/ WriteComplete
  <2>1. above = <<"write">> /\ above' = above
    BY <1>2, <1>3, <1>8 DEF WriteThread, WriteComplete, Layers
  <2>2. w' \in Writing /\ w'.infos = w.infos /\ w'.bundle = w.bundle /\ (w'.job # "none" => WriteBusy')
    BY <1>3, <1>8 DEF WriteThread, WriteComplete, Writing, Layers, WriteBusy
  <2>3. Layers' /\ Menu'
    BY <1>1, <1>3, <1>4, <2>1, <2>2 DEF Layers, Menu
  <2> QED
    BY <1>1, <2>2, <2>3, AboveOnly
<1>9. CASE CloseOther
  <2>1. above' = <<>> /\ w' = w /\ w = NoWrite
    BY <1>3, <1>9, OnTopIs DEF CloseOther, Pop, Layers
  <2>2. Layers' /\ Menu'
    BY <1>1, <1>2, <2>1 DEF Layers, Menu, Orderly
  <2> QED
    BY <1>1, <1>2, <2>1, <2>2, AboveOnly
<1>10. CASE LeftEnds
  <2>1. UNCHANGED <<above, w>>
    BY <1>10 DEF LeftEnds
  <2>2. Layers' /\ Menu'
    BY <1>1, <2>1 DEF Layers, Menu, Orderly, WriteBusy
  <2> QED
    BY <1>1, <1>3, <2>1, <2>2, AboveOnly
<1> QED
  BY <1>5, <1>6, <1>7, <1>8, <1>9, <1>10

-----------------------------------------------------------------------------
(* Read Tag.                                                               *)

LEMMA ReadOnly ==
  ASSUME act' = "read", Typed', Scanning', Reading', ReadScreen', Layers'
  PROVE  Orderly'
BY DEF Orderly, CopyScreen, Menu

\* What is posted goes with the state, one call at a time.
LEMMA ReadPosts ==
  ASSUME Orderly, act = "read"
  PROVE  /\ \A p \in a.posts : p.what \in {"scanned", "nothing", "success", "failed"}
                               /\ p = Call(p.what)
         /\ a.state \notin Results => ~Draws
         /\ a.state # "scanning" /\ ~Draws => a.posts = {}
         /\ scans # {} => a.posts = {}
<1>1. \A p \in a.posts : p.what \in {"scanned", "nothing", "success", "failed"} /\ p = Call(p.what)
  BY DEF Orderly, Typed, Activity, Posts, ReadScreen
<1>2. a.state \notin Results => ~Draws
  BY DEF Orderly, ReadScreen, Draws, Results
<1>3. a.state # "scanning" /\ ~Draws => a.posts = {}
  BY <1>1 DEF Orderly, Scanning, Draws
<1>4. scans # {} => a.posts = {}
  BY <1>1, <1>2 DEF Orderly, Scanning, Draws, Results
<1> QED
  BY <1>1, <1>2, <1>3, <1>4

LEMMA ReadScanFinishStep ==
  ASSUME Orderly, ReadScanFinish
  PROVE  Orderly'
<1>1. /\ act = "read" /\ a.posts = {} /\ a.state = "scanning" /\ scans = {nscan} /\ nscan # 0
      /\ a \in Activity /\ nscan \in Nat
      /\ UNCHANGED <<act, above, nscan, strays, reads, w>>
  BY ReadPosts DEF ReadScanFinish, Orderly, Typed, Scanning
<1>2. scans' = {} /\ cache' \in {cache, nscan}
  BY <1>1 DEF ReadScanFinish, ScanEnds
<1>3. Layers'
  BY <1>1 DEF Orderly, Layers, WriteBusy
<1>4. /\ \A i \in 1..MaxReads : reads[i].st # "run" /\ reads[i].defer = "none"
      /\ a.pending = "none" /\ a.buttons = "none"
  BY <1>1 DEF Orderly, Typed, Reader, Shown, Reading, ReadScreen, Results
<1>5. CASE \E what \in {"scanned", "nothing"} :
             /\ what = "scanned" => cache' = nscan
             /\ a' = [a EXCEPT !.posts = @ \cup {Call(what)}]
  <2>1. PICK what \in {"scanned", "nothing"} :
          /\ what = "scanned" => cache' = nscan
          /\ a' = [a EXCEPT !.posts = @ \cup {Call(what)}]
    BY <1>5
  <2>2. a' \in Activity
    BY <1>1, <2>1, CallIs DEF Activity
  <2>3. /\ a'.state = "scanning" /\ a'.posts = {Call(what)} /\ a'.buttons = a.buttons
        /\ a'.pending = a.pending /\ a'.latest = a.latest /\ a'.console = a.console
        /\ a'.bundle = a.bundle /\ a'.bar = a.bar
    BY <1>1, <2>1 DEF Activity
  <2>4. Typed'
    BY <1>1, <1>2, <2>2 DEF Orderly, Typed
  <2>5. Scanning'
    BY <1>1, <1>2, <2>1, <2>3, CallsDiffer DEF Orderly, Scanning
  <2>6. Reading'
    BY <1>1, <1>4, <2>3 DEF Orderly, Reading, Scanning
  <2>7. ReadScreen'
    BY <1>1, <1>4, <2>1, <2>3, CallsDiffer, CallIs DEF Orderly, ReadScreen, Draws, Results
  <2> QED
    BY <1>1, <1>3, <2>4, <2>5, <2>6, <2>7, ReadOnly
<1>6. CASE a' = Show(a, "no_tag")
  <2>1. /\ a' \in Activity /\ a'.state = "no_tag" /\ a'.posts = {} /\ a'.pending = "none"
        /\ a'.buttons = Offered("no_tag") /\ a'.latest = a.latest /\ ~a'.bar
    BY <1>1, <1>4, <1>6, ShowIs DEF Results
  <2>2. Typed'
    BY <1>1, <1>2, <2>1 DEF Orderly, Typed
  <2>3. Scanning' /\ Reading'
    BY <1>1, <1>2, <1>4, <2>1 DEF Orderly, Scanning, Reading
  <2>4. ReadScreen'
    BY <1>1, <1>4, <2>1 DEF ReadScreen, Draws, Results
  <2> QED
    BY <1>1, <1>3, <2>2, <2>3, <2>4, ReadOnly
<1> QED
  BY <1>1, <1>5, <1>6 DEF ReadScanFinish, ScanEnds

\* A reader is started on the last scan, by a flow that shows no result and has
\* nothing posted.
LEMMA ReadStarts ==
  ASSUME Orderly, act = "read", act' = "read", NEW b \in Activity, StartRead(b, "off"),
         b.posts = {}, b.pending = "none", b.console = a.console,
         a.state \notin {"reading", "success", "failed", "no_tag"},
         cache = nscan, scans = {}, UNCHANGED <<cache, nscan, scans, strays, w>>,
         above' = <<>>, w = NoWrite
  PROVE  Orderly'
<1>1. nscan \in Nat /\ cache \in Nat /\ reads \in [1..MaxReads -> Reader]
  BY DEF Orderly, Typed
<1>2. PICK i \in 1..MaxReads :
           /\ reads[i].st = "over" /\ reads[i].defer = "none"
           /\ reads' \in [1..MaxReads -> Reader]
           /\ reads'[i].st = "run" /\ reads'[i].of = cache /\ reads'[i].defer = "none"
           /\ \A j \in 1..MaxReads : j # i => reads'[j] = reads[j]
           /\ a' \in Activity
           /\ a'.state = "reading" /\ a'.buttons = "none" /\ a'.bar = TRUE
           /\ a'.reader = i /\ a'.latest = i
           /\ a'.console = b.console /\ a'.pending = b.pending
           /\ a'.bundle = b.bundle /\ a'.result = b.result /\ a'.posts = b.posts
  BY <1>1, StartReadIs
<1>3. \A j \in 1..MaxReads : reads[j].st # "run" /\ reads[j].defer = "none"
  BY <1>1 DEF Orderly, Reading, Reader, Shown
<1>4. Typed'
  BY <1>1, <1>2 DEF Orderly, Typed
<1>5. Scanning' /\ Reading'
  BY <1>1, <1>2, <1>3 DEF Scanning, Reading
<1>6. ReadScreen'
  BY <1>2, <1>3 DEF ReadScreen, Results, Draws
<1>7. Layers'
  BY DEF Layers, NoWrite
<1> QED
  BY <1>4, <1>5, <1>6, <1>7, ReadOnly

LEMMA ReadPostedStep ==
  ASSUME Orderly, ReadPosted
  PROVE  Orderly'
<1>1. PICK p \in a.posts :
       LET b == [a EXCEPT !.posts = @ \ {p}] IN
       \/ p.what = "scanned" /\ StartRead(b, "off")
       \/ p.what = "nothing" /\ a' = Show(b, "no_tag") /\ UNCHANGED reads
       \/ p.what \in {"success", "failed"} /\ a' = Drawn(b, p.what) /\ UNCHANGED reads
  BY DEF ReadPosted
<1>2. act = "read" /\ UNCHANGED <<act, above, cache, nscan, scans, strays, w>>
  BY DEF ReadPosted
<1> DEFINE b == [a EXCEPT !.posts = @ \ {p}]
<1>3. a \in Activity /\ p = Call(p.what) /\ p.what \in {"scanned", "nothing", "success", "failed"}
  BY <1>2, ReadPosts DEF Orderly, Typed
<1>4. \A q \in a.posts : q = p
  BY <1>2, <1>3, ReadPosts DEF Orderly, Scanning, ReadScreen
<1>5. b \in Activity
  BY <1>3 DEF Activity
<1>6. /\ b.posts = {} /\ b.state = a.state /\ b.buttons = a.buttons /\ b.pending = a.pending
      /\ b.console = a.console /\ b.latest = a.latest /\ b.bundle = a.bundle /\ b.bar = a.bar
  BY <1>3, <1>4 DEF Activity
<1> HIDE DEF b
<1>7. scans = {} /\ a.pending = "none" /\ \A i \in 1..MaxReads : reads[i].defer = "none"
  BY <1>2, <1>3, ReadPosts DEF Orderly, Typed, Reader, Shown, Scanning, Reading, ReadScreen, Draws, Results
<1>8. CASE p.what = "scanned" /\ StartRead(b, "off")
  <2>1. a.state = "scanning" /\ cache = nscan
    BY <1>2, <1>3, <1>8 DEF Orderly, Scanning, ReadScreen
  <2>2. above' = <<>> /\ w = NoWrite
    BY <1>2, <2>1 DEF Orderly, Layers
  <2> QED
    BY <1>2, <1>5, <1>6, <1>7, <1>8, <2>1, <2>2, ReadStarts
<1>9. CASE p.what = "nothing" /\ a' = Show(b, "no_tag") /\ UNCHANGED reads
  <2>1. a.state = "scanning"
    BY <1>3, <1>9 DEF Orderly, Scanning
  <2>2. /\ a' \in Activity /\ a'.state = "no_tag" /\ a'.posts = {} /\ a'.pending = "none"
        /\ a'.buttons = Offered("no_tag") /\ a'.latest = a.latest /\ ~a'.bar
    BY <1>5, <1>6, <1>7, <1>9, ShowIs DEF Results
  <2>3. Typed'
    BY <1>2, <1>9, <2>2 DEF Orderly, Typed
  <2>4. Scanning' /\ Reading'
    BY <1>2, <1>7, <1>9, <2>1, <2>2 DEF Orderly, Scanning, Reading
  <2>5. ReadScreen'
    BY <1>2, <1>7, <1>9, <2>2 DEF ReadScreen, Draws, Results
  <2>6. Layers'
    BY <1>2, <2>1 DEF Orderly, Layers, WriteBusy
  <2> QED
    BY <1>2, <2>3, <2>4, <2>5, <2>6, ReadOnly
<1>10. CASE p.what \in {"success", "failed"} /\ a' = Drawn(b, p.what) /\ UNCHANGED reads
  <2>1. p.what = a.state /\ a.state \in Results
    BY <1>2, <1>3, <1>10 DEF Orderly, ReadScreen, Results
  <2>2. /\ a' \in Activity /\ a'.state = a.state /\ a'.posts = {} /\ a'.pending = "none"
        /\ a'.buttons = Offered(a.state) /\ a'.latest = a.latest /\ ~a'.bar
        /\ a'.bundle = a.bundle
    <3>1. p.what \in Results /\ a' = Drawn(b, p.what)
      BY <1>10, <2>1
    <3>2. /\ a' \in Activity /\ a'.state = b.state /\ a'.posts = b.posts
          /\ a'.pending = b.pending /\ a'.buttons = Offered(p.what) /\ a'.latest = b.latest
          /\ a'.bar = FALSE /\ a'.bundle = b.bundle
      BY <1>5, <3>1, DrawnIs
    <3> QED
      BY <1>6, <1>7, <2>1, <3>2
  <2>3. Typed'
    BY <1>2, <1>10, <2>2 DEF Orderly, Typed
  <2>4. Scanning' /\ Reading'
    BY <1>2, <1>7, <1>10, <2>1, <2>2 DEF Orderly, Scanning, Reading, Results
  <2>5. ReadScreen'
    BY <1>2, <1>7, <1>10, <2>1, <2>2 DEF ReadScreen, Draws, Results
  <2>6. Layers'
    BY <1>2, <2>2 DEF Orderly, Layers, WriteBusy
  <2> QED
    BY <1>2, <2>3, <2>4, <2>5, <2>6, ReadOnly
<1> QED
  BY <1>1, <1>8, <1>9, <1>10 DEF b

\* A result of the last read is taken up: nothing but the first result of a read
\* that raised can be posted, and then the bar shows.
LEMMA ReadResultStep ==
  ASSUME Orderly, act = "read", NEW i \in 1..MaxReads, NEW kind \in Results, NEW bundle \in Nat,
         NEW st \in {"over", "raised"}, ReadResult(i, kind, bundle, st), ~raced',
         reads[i].st # "over", reads[i].defer = "none",
         kind = "success" => reads[i].st = "run" /\ st = "over" /\ bundle \in {0, nscan},
         UNCHANGED <<act, above, cache, nscan, scans, strays, w>>
  PROVE  Orderly'
<1>1. /\ i = a.latest /\ reads[i].of = nscan
      /\ Call("failed") \in a.posts => kind # "no_tag" /\ a.bar
  BY DEF ReadResult, Overtaken
<1>2. a \in Activity /\ reads \in [1..MaxReads -> Reader] /\ nscan \in Nat /\ MaxReads \in Nat
  BY Bounds DEF Orderly, Typed
<1>3. reads[i].st \in {"run", "raised"}
  BY <1>2 DEF Reader
<1>5. a.state \in {"reading", "failed", "no_tag"}
  BY <1>1, <1>3 DEF Orderly, Reading, ReadScreen, Scanning
<1>6. \A j \in 1..MaxReads : reads[j].defer = "none" /\ (j # i => reads[j].st # "run")
  BY <1>1, <1>2 DEF Orderly, Reading, Reader, Shown
<1>7. scans = {} /\ Call("success") \notin a.posts /\ (a.posts = {} \/ a.posts = {Call("failed")})
  BY <1>5, ReadPosts DEF Orderly, Scanning, ReadScreen, Draws
<1>8. above = <<>> /\ w = NoWrite
  BY <1>5 DEF Orderly, Layers
<1>9. cache = nscan /\ (Call("failed") \in a.posts => kind = "failed")
  BY <1>1, <1>3 DEF Orderly, Reading, ReadScreen, Results
<1> DEFINE b == [a EXCEPT !.reader = 0, !.bundle = bundle]
<1>10. b \in Activity
  <2>1. 0 \in 0..MaxReads
    BY <1>2
  <2> QED
    BY <1>2, <2>1 DEF Activity
<1>11. /\ b.posts = a.posts /\ b.state = a.state /\ b.buttons = a.buttons /\ b.pending = a.pending
       /\ b.console = a.console /\ b.latest = a.latest /\ b.bundle = bundle /\ b.bar = a.bar
  BY <1>2 DEF Activity
<1>12. /\ reads' \in [1..MaxReads -> Reader] /\ reads'[i].st = st
       /\ reads'[i].of \in {0, nscan}
       /\ reads'[i].defer = IF a.console THEN kind ELSE "none"
       /\ \A j \in 1..MaxReads : j # i => reads'[j] = reads[j]
  <2>1. reads' = [reads EXCEPT ![i] =
                   [reads[i] EXCEPT !.st = st, !.of = IF st = "over" THEN 0 ELSE @,
                                    !.defer = IF a.console THEN kind ELSE "none"]]
    BY <1>2 DEF ReadResult
  <2> DEFINE r == [reads[i] EXCEPT !.st = st, !.of = IF st = "over" THEN 0 ELSE @,
                                   !.defer = IF a.console THEN kind ELSE "none"]
  <2>2. reads[i] \in Reader
    BY <1>2
  <2>3. /\ r \in Reader /\ r.st = st /\ r.of \in {0, nscan}
        /\ r.defer = IF a.console THEN kind ELSE "none"
    BY <1>1, <1>2, <2>2 DEF Reader, Results, Shown
  <2> HIDE DEF r
  <2> QED
    BY <1>2, <2>1, <2>3 DEF r
<1>13. a' = IF a.console THEN [b EXCEPT !.state = kind] ELSE Show(b, kind)
  BY DEF ReadResult
<1> HIDE DEF b
<1>14. /\ a' \in Activity /\ a'.state = kind /\ a'.latest = a.latest /\ a'.bundle = bundle
       /\ a'.console = a.console /\ a'.pending = a.pending
       /\ a.console => a'.posts = a.posts /\ a'.buttons = a.buttons /\ a'.bar = a.bar
       /\ ~a.console =>
            \/ /\ a.bar /\ kind \in {"success", "failed"}
               /\ a'.posts = a.posts \cup {Call(kind)} /\ a'.buttons = a.buttons
            \/ /\ kind = "no_tag" \/ ~a.bar
               /\ ~a'.bar /\ a'.posts = a.posts /\ a'.buttons = Offered(kind)
  <2>1. CASE a.console
    BY <1>10, <1>11, <1>13, <2>1 DEF Activity, States, Results
  <2>2. CASE ~a.console
    <3>1. a' = Show(b, kind)
      BY <1>13, <2>2
    <3> QED
      BY <1>10, <1>11, <2>2, <3>1, ShowIs
  <2> QED
    BY <2>1, <2>2
<1>15. Typed'
  BY <1>12, <1>14 DEF Orderly, Typed
<1>16. Scanning'
  <2>1. Call("scanned") \notin a'.posts /\ Call("nothing") \notin a'.posts
    BY <1>7, <1>14, CallsDiffer
  <2> QED
    BY <1>7, <1>14, <2>1 DEF Scanning, Results
<1>17. Reading'
  BY <1>1, <1>2, <1>6, <1>9, <1>12, <1>14 DEF Orderly, Reading, Results
<1>18. a.bar => a.buttons = "none"
  BY DEF Orderly, ReadScreen
<1>19. a.console => a.posts = {}
  BY <1>1, <1>7 DEF Orderly, ReadScreen
<1>20. a.state \in Results /\ a.posts = {} /\ ~a.console => ~a.bar
  BY DEF Orderly, ReadScreen, Draws
<1>21. a.pending # "none" => a.console /\ a.pending # "success"
  BY <1>5 DEF Orderly, ReadScreen
<1>22. ReadScreen'
  <2>1. CASE a.console
    BY <1>12, <1>14, <1>18, <1>19, <1>21, <2>1 DEF ReadScreen, Draws, Results
  <2>2. CASE ~a.console
    <3>1. \A j \in 1..MaxReads : reads'[j].defer = "none"
      BY <1>6, <1>12, <2>2
    <3>2. a'.pending = "none"
      BY <1>14, <1>21, <2>2
    <3>3. CASE /\ a.bar /\ kind \in {"success", "failed"}
               /\ a'.posts = a.posts \cup {Call(kind)} /\ a'.buttons = a.buttons
      <4>1. a'.posts = {Call(kind)}
        BY <1>7, <1>9, <3>3
      <4> QED
        BY <1>14, <1>18, <2>2, <3>1, <3>2, <3>3, <4>1, CallIs, CallsDiffer
           DEF ReadScreen, Draws, Results
    <3>4. CASE /\ kind = "no_tag" \/ ~a.bar
               /\ ~a'.bar /\ a'.posts = a.posts /\ a'.buttons = Offered(kind)
      <4>1. a'.posts = {}
        BY <1>1, <1>7, <3>4
      <4> QED
        BY <1>14, <2>2, <3>1, <3>2, <3>4, <4>1 DEF ReadScreen, Draws, Results
    <3> QED
      BY <1>14, <2>2, <3>3, <3>4
  <2> QED
    BY <2>1, <2>2
<1>23. Layers'
  BY <1>8 DEF Layers, NoWrite
<1> QED
  BY <1>15, <1>16, <1>17, <1>22, <1>23, ReadOnly

LEMMA OnReadingStep ==
  ASSUME Orderly, act = "read", NEW i \in 1..MaxReads, OnReading(i), ~raced'
  PROVE  Orderly'
<1>1. /\ reads[i].st = "run" /\ reads[i].defer = "none"
      /\ UNCHANGED <<act, cache, nscan, scans, strays, w>>
  BY DEF OnReading
<1>2. a \in Activity /\ reads \in [1..MaxReads -> Reader] /\ nscan \in Nat
  BY DEF Orderly, Typed
<1>3. CASE \E bundle \in {0, reads[i].of} : ReadResult(i, "success", bundle, "over") /\ UNCHANGED above
  <2>1. PICK bundle \in {0, reads[i].of} : ReadResult(i, "success", bundle, "over")
    BY <1>3
  <2>2. reads[i].of = nscan
    BY <2>1 DEF ReadResult, Overtaken
  <2> QED
    BY <1>1, <1>2, <1>3, <2>1, <2>2, ReadResultStep DEF Results
<1>4. CASE \E kind \in {"failed", "no_tag"} : ReadResult(i, kind, a.bundle, "over") /\ UNCHANGED above
  <2>1. PICK kind \in {"failed", "no_tag"} : ReadResult(i, kind, a.bundle, "over")
    BY <1>4
  <2>2. a.bundle \in Nat
    BY <1>2 DEF Activity
  <2> QED
    BY <1>1, <1>4, <2>1, <2>2, ReadResultStep DEF Results
<1>5. CASE /\ a' = [a EXCEPT !.reader = 0, !.state = "no_key", !.bar = FALSE]
           /\ above' = Append(above, "m1")
           /\ reads' = [reads EXCEPT ![i].st = "over", ![i].of = 0]
           /\ raced' = (raced \/ Overtaken(i))
  <2>1. i = a.latest /\ reads[i].of = nscan /\ a.state = "reading"
    BY <1>1, <1>5 DEF Overtaken, Orderly, Reading
  <2>2. /\ a' \in Activity /\ a'.state = "no_key" /\ a'.latest = a.latest /\ ~a'.bar
        /\ a'.posts = a.posts /\ a'.buttons = a.buttons /\ a'.pending = a.pending
        /\ a'.console = a.console /\ a'.bundle = a.bundle
    <3>1. 0 \in 0..MaxReads
      BY Bounds
    <3> QED
      BY <1>2, <1>5, <3>1 DEF Activity, States
  <2>3. /\ reads' \in [1..MaxReads -> Reader] /\ reads'[i].st = "over" /\ reads'[i].of = 0
        /\ reads'[i].defer = "none" /\ \A j \in 1..MaxReads : j # i => reads'[j] = reads[j]
    BY <1>1, <1>2, <1>5 DEF Reader
  <2>4. \A j \in 1..MaxReads : reads[j].defer = "none" /\ (j # i => reads[j].st # "run")
    BY <1>1, <1>2, <2>1 DEF Orderly, Reading, Reader, Shown
  <2>5. /\ a.posts = {} /\ scans = {} /\ a.pending = "none" /\ a.buttons = "none"
        /\ above = <<>> /\ w = NoWrite /\ cache = nscan
    BY <2>1, ReadPosts DEF Orderly, Scanning, Reading, ReadScreen, Layers, Results
  <2>6. above' = <<"m1">>
    BY <1>5, <2>5, OneLayer
  <2>7. Typed'
    BY <1>1, <1>2, <2>2, <2>3 DEF Orderly, Typed
  <2>8. Scanning' /\ Reading'
    BY <1>1, <2>1, <2>2, <2>3, <2>4, <2>5 DEF Scanning, Reading
  <2>9. ReadScreen' /\ Layers'
    BY <1>1, <2>2, <2>3, <2>4, <2>5, <2>6 DEF ReadScreen, Results, Draws, Layers, NoWrite
  <2> QED
    BY <1>1, <2>7, <2>8, <2>9, ReadOnly
<1> QED
  BY <1>3, <1>4, <1>5 DEF OnReading

LEMMA ExceptionStep ==
  ASSUME Orderly, act = "read", NEW i \in 1..MaxReads, OnReadException(i) \/ AfterException(i), ~raced'
  PROVE  Orderly'
<1>1. /\ reads[i].st # "over" /\ reads[i].defer = "none"
      /\ UNCHANGED <<act, above, cache, nscan, scans, strays, w>>
  BY DEF OnReadException, AfterException
<1>2. PICK kind \in {"failed", "no_tag"}, st \in {"over", "raised"} : ReadResult(i, kind, a.bundle, st)
  BY DEF OnReadException, AfterException
<1>3. a.bundle \in Nat
  BY DEF Orderly, Typed, Activity
<1> QED
  BY <1>1, <1>2, <1>3, ReadResultStep DEF Results

LEMMA DeferStep ==
  ASSUME Orderly, act = "read", NEW i \in 1..MaxReads, Defer(i)
  PROVE  Orderly'
<1>1. /\ reads[i].defer # "none"
      /\ a' = [a EXCEPT !.pending = reads[i].defer]
      /\ reads' = [reads EXCEPT ![i].defer = "none"]
      /\ UNCHANGED <<act, above, cache, nscan, scans, strays, w>>
  BY DEF Defer
<1>2. a \in Activity /\ reads \in [1..MaxReads -> Reader]
  BY DEF Orderly, Typed
<1>3. /\ i = a.latest /\ reads[i].st # "run" /\ reads[i].defer = a.state
      /\ a.state \in Results /\ a.console
  BY <1>1, <1>2 DEF Orderly, Reading, ReadScreen, Reader, Shown, Results
<1>4. ~Draws
  BY <1>1 DEF Orderly, ReadScreen
<1>5. /\ a' \in Activity /\ a'.pending = a.state /\ a'.state = a.state /\ a'.latest = a.latest
      /\ a'.posts = a.posts /\ a'.buttons = a.buttons /\ a'.bar = a.bar
      /\ a'.console = a.console /\ a'.bundle = a.bundle
  BY <1>1, <1>2, <1>3 DEF Activity, Results, Shown
<1>6. /\ reads' \in [1..MaxReads -> Reader] /\ reads'[i].defer = "none"
      /\ reads'[i].st = reads[i].st /\ reads'[i].of = reads[i].of
      /\ \A j \in 1..MaxReads : j # i => reads'[j] = reads[j]
  BY <1>1, <1>2 DEF Reader, Shown
<1>7. Typed'
  BY <1>1, <1>5, <1>6 DEF Orderly, Typed
<1>8. Scanning' /\ Reading'
  BY <1>1, <1>5, <1>6 DEF Orderly, Scanning, Reading
<1>9. ~Draws'
  BY <1>4, <1>5 DEF Draws
<1>10. ReadScreen'
  BY <1>1, <1>3, <1>4, <1>5, <1>6, <1>9 DEF Orderly, ReadScreen, Results, Draws
<1>11. Layers'
  BY <1>1, <1>5 DEF Orderly, Layers, WriteBusy
<1> QED
  BY <1>1, <1>7, <1>8, <1>10, <1>11, ReadOnly

LEMMA RescanStep ==
  ASSUME Orderly, Rescan
  PROVE  Orderly'
<1>1. /\ act = "read" /\ above = <<>> /\ ~a.console /\ a.state \in Results /\ a.buttons # "none"
      /\ StartScan(a) /\ UNCHANGED <<act, above, cache, strays, reads, w>>
  BY DEF Rescan, KeysOf, Results
<1>2. a \in Activity /\ nscan \in Nat /\ reads \in [1..MaxReads -> Reader]
  BY DEF Orderly, Typed
<1>3. /\ a.posts = {} /\ scans = {} /\ a.pending = "none" /\ w = NoWrite
      /\ \A i \in 1..MaxReads : reads[i].st # "run" /\ reads[i].defer = "none"
  BY <1>1, ReadPosts DEF Orderly, Scanning, Reading, ReadScreen, Layers, Results
<1>4. /\ nscan' = nscan + 1 /\ scans' = {nscan + 1} /\ a' \in Activity
      /\ a'.state = "scanning" /\ a'.buttons = "none" /\ a'.pending = "none"
      /\ a'.posts = {} /\ a'.console = a.console /\ a'.latest = a.latest
  BY <1>1, <1>2, <1>3, StartScanIs
<1>5. \A i \in 1..MaxReads : reads[i].of <= nscan
  BY DEF Orderly, Typed
<1>6. \A i \in 1..MaxReads : reads[i].of # nscan + 1 /\ reads[i].of <= nscan + 1
  BY <1>2, <1>5 DEF Reader
<1>7. Typed'
  BY <1>1, <1>2, <1>4, <1>6 DEF Orderly, Typed
<1>8. Scanning' /\ Reading'
  BY <1>1, <1>3, <1>4, <1>6 DEF Scanning, Reading
<1>9. ReadScreen' /\ Layers'
  BY <1>1, <1>3, <1>4 DEF ReadScreen, Draws, Results, Layers, NoWrite
<1> QED
  BY <1>1, <1>7, <1>8, <1>9, ReadOnly

LEMMA ShowConsoleStep ==
  ASSUME Orderly, ShowConsole
  PROVE  Orderly'
<1>1. /\ act = "read" /\ ~a.console /\ a' = [a EXCEPT !.console = TRUE, !.bar = FALSE]
      /\ UNCHANGED <<act, above, cache, nscan, scans, strays, reads, w>>
  BY DEF ShowConsole, KeysOf
<1>2. a \in Activity
  BY DEF Orderly, Typed
<1>3. /\ a' \in Activity /\ a'.console /\ ~a'.bar /\ a'.state = a.state /\ a'.latest = a.latest
      /\ a'.posts = a.posts /\ a'.buttons = a.buttons /\ a'.pending = a.pending
      /\ a'.bundle = a.bundle
  BY <1>1, <1>2 DEF Activity
<1>4. Typed' /\ Scanning' /\ Reading'
  BY <1>1, <1>3 DEF Orderly, Typed, Scanning, Reading
<1>5. ReadScreen'
  BY <1>1, <1>3 DEF Orderly, ReadScreen, Draws
<1>6. Layers'
  BY <1>1, <1>3 DEF Orderly, Layers, WriteBusy
<1> QED
  BY <1>1, <1>4, <1>5, <1>6, ReadOnly

LEMMA HideConsoleStep ==
  ASSUME Orderly, HideConsole, ~raced'
  PROVE  Orderly'
<1>1. /\ act = "read" /\ above = <<>> /\ a.console /\ a' = Undefer([a EXCEPT !.console = FALSE])
      /\ \A i \in 1..MaxReads : reads[i].defer = "none"
      /\ UNCHANGED <<act, above, cache, nscan, scans, strays, reads, w>>
  BY DEF HideConsole, KeysOf
<1>2. a \in Activity
  BY DEF Orderly, Typed
<1>3. a.bar => a.buttons = "none"
  BY <1>1 DEF Orderly, ReadScreen
<1> DEFINE c == [a EXCEPT !.console = FALSE]
<1>4. CASE a.pending = "none"
  <2>1. a' = [c EXCEPT !.bar = c.state = "reading"]
    BY <1>1, <1>2, <1>4 DEF Undefer, Activity
  <2>2. /\ a' \in Activity /\ ~a'.console /\ a'.state = a.state /\ a'.latest = a.latest
        /\ a'.posts = a.posts /\ a'.buttons = a.buttons /\ a'.pending = a.pending
        /\ a'.bundle = a.bundle /\ a'.bar = (a.state = "reading")
    BY <1>2, <2>1 DEF Activity
  <2>3. Typed' /\ Scanning' /\ Reading'
    BY <1>1, <2>2 DEF Orderly, Typed, Scanning, Reading
  <2>4. ReadScreen'
    BY <1>1, <1>4, <2>2 DEF Orderly, ReadScreen, Draws, Results
  <2>5. Layers'
    BY <1>1, <2>2 DEF Orderly, Layers, WriteBusy
  <2> QED
    BY <1>1, <2>3, <2>4, <2>5, ReadOnly
<1>5. CASE a.pending # "none"
  <2> DEFINE b == [c EXCEPT !.pending = "none"]
  <2>1. a.state \in Results /\ a.pending = a.state /\ ~Draws
    BY <1>1, <1>5 DEF Orderly, ReadScreen
  <2>2. a' = Show(b, a.state)
    BY <1>1, <1>2, <1>5, <2>1 DEF Undefer, Activity
  <2>3. /\ b \in Activity /\ ~b.console /\ b.pending = "none" /\ b.state = a.state
        /\ b.latest = a.latest /\ b.posts = a.posts /\ b.bundle = a.bundle
        /\ b.buttons = a.buttons /\ b.bar = a.bar
    BY <1>2 DEF Activity, Shown
  <2>4. a.posts = {} /\ scans = {} /\ w = NoWrite /\ \A i \in 1..MaxReads : reads[i].st # "run"
    BY <1>1, <2>1, ReadPosts DEF Orderly, Scanning, Reading, Results, Layers
  <2> HIDE DEF b
  <2>5. /\ a' \in Activity /\ a'.state = a.state /\ ~a'.console /\ a'.pending = "none"
        /\ a'.latest = a.latest /\ a'.bundle = a.bundle
        /\ \/ /\ a.bar /\ a.state \in {"success", "failed"}
              /\ a'.posts = {Call(a.state)} /\ a'.buttons = a.buttons
           \/ ~a'.bar /\ a'.posts = {} /\ a'.buttons = Offered(a.state)
    BY <2>1, <2>2, <2>3, <2>4, ShowIs
  <2>6. Call("scanned") \notin a'.posts /\ Call("nothing") \notin a'.posts
    BY <2>5, CallsDiffer
  <2>7. Typed' /\ Scanning' /\ Reading'
    BY <1>1, <2>1, <2>4, <2>5, <2>6 DEF Orderly, Typed, Scanning, Reading, Results
  <2>8. ReadScreen'
    BY <1>1, <1>3, <2>1, <2>5, CallIs, CallsDiffer DEF ReadScreen, Draws, Results
  <2>9. Layers'
    BY <1>1, <2>4 DEF Layers, NoWrite
  <2> QED
    BY <1>1, <2>7, <2>8, <2>9, ReadOnly
<1> QED
  BY <1>4, <1>5

LEMMA ReadWarningM1Step ==
  ASSUME Orderly, ReadWarningM1
  PROVE  Orderly'
<1>1. /\ act = "read" /\ above = <<"m1">> /\ Len(above) = 1 /\ Front(above) = <<>>
      /\ UNCHANGED <<act, cache, nscan, scans, strays, w>>
  BY OnTopIs, OneLayer DEF ReadWarningM1, Orderly
<1>2. a.state = "no_key" /\ w = NoWrite /\ a \in Activity
  BY <1>1 DEF Orderly, Layers, Typed
<1>3. /\ cache = nscan /\ a.posts = {} /\ scans = {} /\ a.pending = "none"
  BY <1>1, <1>2, ReadPosts DEF Orderly, Scanning, Reading, ReadScreen, Results
<1>4. Resume(a) = a
  BY <1>2 DEF Resume
<1>5. CASE above' \in {<<>>, <<"other">>} /\ a' = a /\ reads' = reads
  <2>1. Typed' /\ Scanning' /\ Reading'
    BY <1>1, <1>5 DEF Orderly, Typed, Scanning, Reading
  <2>2. ReadScreen'
    BY <1>1, <1>5 DEF Orderly, ReadScreen, Draws
  <2>3. Layers'
    BY <1>1, <1>2, <1>5 DEF Layers, NoWrite
  <2> QED
    BY <1>1, <2>1, <2>2, <2>3, ReadOnly
<1>6. CASE above' = <<>> /\ StartRead(a, "off")
  BY <1>1, <1>2, <1>3, <1>6, ReadStarts
<1> QED
  BY <1>1, <1>4, <1>5, <1>6 DEF ReadWarningM1, Pop

LEMMA ReadStep ==
  ASSUME Orderly, ReadNext, ~raced'
  PROVE  Orderly'
<1>1. CASE \E i \in 1..MaxReads : ReaderOfRead(i)
  BY <1>1, OnReadingStep, ExceptionStep, DeferStep DEF ReaderOfRead
<1> QED
  BY <1>1, ReadScanFinishStep, ReadPostedStep, RescanStep, LaunchStep, ShowConsoleStep,
     HideConsoleStep, LeaveStep, ReadWarningM1Step DEF ReadNext, ReadThreads

-----------------------------------------------------------------------------
(* Auto Copy.                                                              *)

LEMMA CopyOnly ==
  ASSUME act' = "copy", Typed', Scanning', Reading', CopyScreen', Layers'
  PROVE  Orderly'
BY DEF Orderly, ReadScreen, Menu

LEMMA CompleteIs ==
  ASSUME NEW i \in 1..MaxReads, NEW result \in {"ok", "missing", "failed", "unread"}
  PROVE  LET p == Post("complete", i, result) IN
         /\ p \in Posts /\ p.what = "complete" /\ p.id = i /\ p.result = result
         /\ \A what \in {"scanned", "nothing", "success", "failed"} : p # Call(what)
<1>1. i \in 0..MaxReads
  BY Bounds
<1> QED
  BY <1>1, CallIs DEF Post, Posts

LEMMA CopyScanFinishStep ==
  ASSUME Orderly, CopyScanFinish
  PROVE  Orderly'
<1>1. PICK k \in scans, found \in BOOLEAN :
       /\ scans' = scans \ {k} /\ cache' = IF found THEN k ELSE cache
       /\ a' = [a EXCEPT !.result = IF found THEN k ELSE 0, !.posts = @ \cup {Call("scanned")}]
  BY DEF CopyScanFinish, ScanEnds
<1>2. act = "copy" /\ UNCHANGED <<act, above, nscan, strays, reads, w>>
  BY DEF CopyScanFinish
<1>3. /\ k = nscan /\ nscan \in Nat /\ scans' = {} /\ a \in Activity /\ a.state = "scanning"
      /\ Call("nothing") \notin a.posts
  BY <1>1 DEF Orderly, Typed, Scanning
<1>4. /\ a' \in Activity /\ a'.state = "scanning" /\ a'.posts = a.posts \cup {Call("scanned")}
      /\ a'.result = (IF found THEN k ELSE 0) /\ a'.buttons = a.buttons /\ a'.pending = a.pending
      /\ a'.latest = a.latest /\ a'.bundle = a.bundle
  BY <1>1, <1>3, CallIs DEF Activity
<1>5. Typed'
  BY <1>1, <1>2, <1>3, <1>4 DEF Orderly, Typed
<1>6. Scanning' /\ Reading'
  BY <1>2, <1>3, <1>4, CallsDiffer DEF Orderly, Scanning, Reading
<1>7. CopyScreen'
  <2>1. ~Draws' /\ Call("nothing") \notin a'.posts
    BY <1>2, <1>4, CallsDiffer DEF Orderly, CopyScreen, Draws
  <2>2. a'.result # 0 => cache' = nscan
    BY <1>1, <1>3, <1>4
  <2>3. \A p \in a'.posts : p.what = "complete" => p \in a.posts
    BY <1>4, CallIs
  <2>4. \A p \in a'.posts : p.what # "complete" => p = Call(p.what)
    BY <1>2, <1>4, CallIs DEF Orderly, CopyScreen
  <2> QED
    BY <1>2, <1>3, <1>4, <2>1, <2>2, <2>3, <2>4 DEF Orderly, CopyScreen, Overtaken
<1>8. Layers'
  BY <1>2, <1>3 DEF Orderly, Layers, WriteBusy
<1> QED
  BY <1>2, <1>5, <1>6, <1>7, <1>8, CopyOnly

\* A reader is started on the last scan; what is posted by earlier ones is overtaken.
LEMMA CopyStarts ==
  ASSUME Orderly, act = "copy", act' = "copy", NEW b \in Activity, StartRead(b, "watch"),
         b.posts \subseteq a.posts, b.pending = "none", b.result = 0,
         Call("scanned") \notin b.posts,
         a.state # "reading", cache = nscan, scans = {},
         UNCHANGED <<cache, nscan, scans, strays, w>>, above' = <<>>, w = NoWrite
  PROVE  Orderly'
<1>1. nscan \in Nat /\ cache \in Nat /\ reads \in [1..MaxReads -> Reader]
  BY DEF Orderly, Typed
<1>2. PICK i \in 1..MaxReads :
           /\ reads[i].st = "over" /\ reads[i].defer = "none"
           /\ \A p \in a.posts : p.what = "complete" => p.id # i
           /\ reads' \in [1..MaxReads -> Reader]
           /\ reads'[i].st = "run" /\ reads'[i].of = cache /\ reads'[i].defer = "none"
           /\ \A j \in 1..MaxReads : j # i => reads'[j] = reads[j]
           /\ a' \in Activity
           /\ a'.state = "reading" /\ a'.buttons = "none" /\ a'.bar = TRUE
           /\ a'.reader = i /\ a'.latest = i
           /\ a'.console = b.console /\ a'.pending = b.pending
           /\ a'.bundle = b.bundle /\ a'.result = b.result /\ a'.posts = b.posts
  BY <1>1, StartReadIs
<1>3. \A j \in 1..MaxReads : reads[j].st # "run" /\ reads[j].defer = "none"
  BY <1>1 DEF Orderly, Reading, CopyScreen
<1>4. Typed'
  BY <1>1, <1>2 DEF Orderly, Typed
<1>5. Call("nothing") \notin a'.posts /\ ~Draws'
  BY <1>2 DEF Orderly, CopyScreen, Draws
<1>6. Scanning' /\ Reading'
  BY <1>1, <1>2, <1>3, <1>5 DEF Scanning, Reading
<1>7. CopyScreen'
  <2>1. \A p \in a'.posts : p.what = "complete" => p.id # i /\ p.id \in 1..MaxReads
    BY <1>2, Bounds DEF Orderly, Typed, Activity, Posts, CopyScreen
  <2>2. \A p \in a'.posts : p.what = "complete" => reads'[p.id].st = "over" /\ Overtaken(p.id)'
    BY <1>2, <2>1 DEF Orderly, CopyScreen, Overtaken
  <2>3. \A j \in 1..MaxReads : reads'[j].st = "raised" => Overtaken(j)'
    BY <1>2 DEF Overtaken
  <2>4. \A p \in a'.posts : p.what = "complete" => p.id # 0 /\ p.result # "none"
    BY <1>2 DEF Orderly, CopyScreen
  <2>5. \A p \in a'.posts : p.what # "complete" => p = Call(p.what)
    BY <1>2 DEF Orderly, CopyScreen
  <2> QED
    BY <1>2, <1>3, <1>5, <2>2, <2>3, <2>4, <2>5 DEF CopyScreen, Offered
<1>8. Layers'
  BY DEF Layers, NoWrite
<1> QED
  BY <1>4, <1>6, <1>7, <1>8, CopyOnly

LEMMA ProcessScanResultStep ==
  ASSUME Orderly, ProcessScanResult
  PROVE  Orderly'
<1> DEFINE b == [a EXCEPT !.posts = @ \ {Call("scanned")}, !.result = 0]
<1>1. /\ act = "copy" /\ Call("scanned") \in a.posts
      /\ IF a.result # 0 THEN StartRead([b EXCEPT !.found = TRUE], "watch")
                         ELSE a' = ScanFailed(b) /\ UNCHANGED reads
      /\ UNCHANGED <<act, above, cache, nscan, scans, strays, w>>
  BY DEF ProcessScanResult
<1>2. /\ a \in Activity /\ a.state = "scanning" /\ scans = {} /\ above = <<>> /\ w = NoWrite
      /\ a.pending = "none" /\ (a.result # 0 => cache = nscan)
      /\ \A i \in 1..MaxReads : reads[i].st # "run" /\ reads[i].defer = "none"
  BY <1>1 DEF Orderly, Typed, Scanning, Reading, CopyScreen, Layers
<1>3. CASE a.result # 0
  <2> DEFINE c == [b EXCEPT !.found = TRUE]
  <2>1. /\ c \in Activity /\ c.posts = a.posts \ {Call("scanned")} /\ c.pending = a.pending
        /\ c.result = 0
    BY <1>2 DEF Activity
  <2>2. StartRead(c, "watch")
    BY <1>1, <1>3
  <2> HIDE DEF c
  <2> QED
    BY <1>1, <1>2, <1>3, <2>1, <2>2, CopyStarts
<1>4. CASE a.result = 0
  <2>1. a' = ScanFailed(b) /\ reads' = reads
    BY <1>1, <1>4
  <2>2. /\ a' \in Activity /\ a'.state = "scan_failed" /\ a'.posts = a.posts \ {Call("scanned")}
        /\ a'.buttons = "rescan" /\ a'.pending = a.pending /\ a'.result = 0
        /\ a'.latest = a.latest /\ a'.bundle = a.bundle
    BY <1>2, <2>1 DEF ScanFailed, Activity, States, Buttons
  <2>3. Typed'
    BY <1>1, <2>1, <2>2 DEF Orderly, Typed
  <2>4. ~Draws' /\ Call("nothing") \notin a'.posts
    BY <1>1, <2>2 DEF Orderly, CopyScreen, Draws
  <2>5. Scanning'
    BY <1>1, <1>2, <2>2, <2>4 DEF Scanning
  <2>6. Reading'
    BY <1>1, <1>2, <2>1, <2>2 DEF Orderly, Reading, Scanning
  <2>7. CopyScreen'
    BY <1>1, <1>2, <2>1, <2>2, <2>4 DEF Orderly, CopyScreen, Overtaken, Offered
  <2>8. Layers'
    BY <1>1, <1>2 DEF Layers, NoWrite
  <2> QED
    BY <1>1, <2>3, <2>5, <2>6, <2>7, <2>8, CopyOnly
<1> QED
  BY <1>3, <1>4

LEMMA CopyReadingStep ==
  ASSUME Orderly, act = "copy", NEW i \in 1..MaxReads, CopyReading(i)
  PROVE  Orderly'
<1>1. PICK result \in {"ok", "missing", "failed", "unread"} :
        /\ reads[i].st = "raised" => result = "unread"
        /\ a' = [a EXCEPT !.posts = @ \cup {Post("complete", i, result)}]
  BY DEF CopyReading
<1>2. /\ reads[i].st \in {"run", "raised"} /\ reads' = [reads EXCEPT ![i].st = "over"]
      /\ UNCHANGED <<act, above, cache, nscan, scans, strays, w>>
  BY DEF CopyReading
<1> DEFINE p == Post("complete", i, result)
<1>3. /\ p \in Posts /\ p.what = "complete" /\ p.id = i /\ p.result = result
      /\ \A what \in {"scanned", "nothing", "success", "failed"} : p # Call(what)
  BY CompleteIs
<1>4. a \in Activity /\ reads \in [1..MaxReads -> Reader] /\ i # 0
  BY DEF Orderly, Typed
<1> HIDE DEF p
<1>5. /\ a' \in Activity /\ a'.posts = a.posts \cup {p} /\ a'.state = a.state
      /\ a'.buttons = a.buttons /\ a'.pending = a.pending /\ a'.result = a.result
      /\ a'.latest = a.latest /\ a'.bundle = a.bundle
  BY <1>1, <1>3, <1>4 DEF Activity, p
<1>6. /\ reads' \in [1..MaxReads -> Reader] /\ reads'[i].st = "over"
      /\ \A j \in 1..MaxReads : reads'[j].of = reads[j].of /\ reads'[j].defer = reads[j].defer
                                /\ (j # i => reads'[j].st = reads[j].st)
  BY <1>2, <1>4 DEF Reader
<1>7. Typed'
  BY <1>2, <1>5, <1>6 DEF Orderly, Typed
<1>8. \A what \in {"scanned", "nothing", "success", "failed"} :
        Call(what) \in a'.posts <=> Call(what) \in a.posts
  BY <1>3, <1>5
<1>9. Scanning' /\ Reading'
  BY <1>2, <1>5, <1>6, <1>8 DEF Orderly, Scanning, Reading
<1>10. CopyScreen'
  <2>1. ~Draws' /\ Call("nothing") \notin a'.posts /\ (a.result # 0 => Call("scanned") \in a'.posts)
    BY <1>2, <1>8 DEF Orderly, CopyScreen, Draws
  <2>2. \A q \in a'.posts : q.what = "complete" /\ q.id # 0 => reads'[q.id].st = "over"
    BY <1>2, <1>3, <1>4, <1>5, <1>6, Bounds DEF Orderly, CopyScreen, Activity, Posts
  <2>3. \A q \in a'.posts : q.what = "complete" => q.id # 0 /\ q.result # "none"
    BY <1>2, <1>3, <1>4, <1>5 DEF Orderly, CopyScreen
  <2>4. \A q \in a'.posts : q.what # "complete" => q = Call(q.what)
    BY <1>2, <1>3, <1>5 DEF Orderly, CopyScreen
  <2>5. \A j \in 1..MaxReads : reads'[j].st = "raised" /\ ~Overtaken(j)' => a'.state = "failed"
    BY <1>2, <1>5, <1>6 DEF Orderly, CopyScreen, Overtaken
  <2>6. ~Overtaken(i)' => a'.state = "reading" \/ (a'.state = "failed" /\ result = "unread")
    BY <1>1, <1>2, <1>5, <1>6 DEF Orderly, Reading, CopyScreen, Overtaken
  <2>7. \A q \in a'.posts : q.what = "complete" /\ ~Overtaken(q.id)' =>
          a'.state = "reading" \/ (a'.state = "failed" /\ q.result = "unread")
    <3> SUFFICES ASSUME NEW q \in a.posts, q.what = "complete", ~Overtaken(q.id)'
                 PROVE  a.state = "reading" \/ (a.state = "failed" /\ q.result = "unread")
      BY <1>3, <1>5, <2>6
    <3>1. q.id \in 1..MaxReads
      BY <1>2, <1>4, Bounds DEF Orderly, CopyScreen, Activity, Posts
    <3>2. ~Overtaken(q.id)
      BY <1>2, <1>5, <1>6, <3>1 DEF Overtaken
    <3> QED
      BY <1>2, <3>2 DEF Orderly, CopyScreen
  <2>8. a'.state = "reading" => \E q \in a'.posts : q.what = "complete"
    BY <1>3, <1>5
  <2> QED
    BY <1>2, <1>5, <1>6, <2>1, <2>2, <2>3, <2>4, <2>5, <2>7, <2>8 DEF Orderly, CopyScreen
<1>11. Layers'
  BY <1>2, <1>5 DEF Orderly, Layers, WriteBusy
<1> QED
  BY <1>2, <1>7, <1>9, <1>10, <1>11, CopyOnly

LEMMA CopyReadExceptionStep ==
  ASSUME Orderly, act = "copy", NEW i \in 1..MaxReads, CopyReadException(i)
  PROVE  Orderly'
<1>1. /\ reads[i].st = "run" /\ reads' = [reads EXCEPT ![i].st = "raised"]
      /\ a' = ReadFailed([a EXCEPT !.reader = 0])
      /\ UNCHANGED <<act, above, cache, nscan, scans, strays, w>>
  BY DEF CopyReadException
<1>2. a \in Activity /\ reads \in [1..MaxReads -> Reader] /\ 0 \in 0..MaxReads
  BY Bounds DEF Orderly, Typed
<1>3. a.state = "reading" /\ i = a.latest /\ scans = {} /\ above = <<>> /\ w = NoWrite /\ cache = nscan
  BY <1>1 DEF Orderly, Reading, Scanning, Layers
<1>4. /\ a' \in Activity /\ a'.state = "failed" /\ a'.buttons = "failed" /\ a'.posts = a.posts
      /\ a'.pending = a.pending /\ a'.result = a.result /\ a'.latest = a.latest
  BY <1>1, <1>2 DEF ReadFailed, Activity, States, Buttons
<1>5. /\ reads' \in [1..MaxReads -> Reader] /\ reads'[i].st = "raised"
      /\ \A j \in 1..MaxReads : reads'[j].of = reads[j].of /\ reads'[j].defer = reads[j].defer
                                /\ (j # i => reads'[j].st = reads[j].st)
  BY <1>1, <1>2 DEF Reader
<1>6. \A j \in 1..MaxReads : reads'[j].st # "run" /\ reads'[j].defer = "none"
  BY <1>1, <1>3, <1>5 DEF Orderly, Reading, CopyScreen
<1>7. Typed'
  BY <1>1, <1>4, <1>5 DEF Orderly, Typed
<1>8. Scanning' /\ Reading'
  BY <1>1, <1>3, <1>4, <1>6 DEF Orderly, Scanning, Reading
<1>9. CopyScreen'
  <2>1. ~Draws' /\ Call("nothing") \notin a'.posts
    BY <1>1, <1>4 DEF Orderly, CopyScreen, Draws
  <2>2. \A q \in a'.posts : q.what = "complete" => q.id \in 1..MaxReads /\ reads[q.id].st = "over"
    BY <1>1, <1>2, <1>4, Bounds DEF Orderly, CopyScreen, Activity, Posts
  <2>3. \A q \in a'.posts : q.what = "complete" => reads'[q.id].st = "over" /\ Overtaken(q.id)'
    BY <1>1, <1>3, <1>4, <1>5, <2>2 DEF Overtaken
  <2> QED
    BY <1>1, <1>4, <1>6, <2>1, <2>3 DEF Orderly, CopyScreen, Offered
<1>10. Layers'
  BY <1>1, <1>3 DEF Layers, NoWrite
<1> QED
  BY <1>1, <1>7, <1>8, <1>9, <1>10, CopyOnly

\* The result of the last read; it can have been posted only while "reading" is on
\* the screen, or by an exception.
LEMMA OnCompleteStep ==
  ASSUME Orderly, OnComplete, ~raced'
  PROVE  Orderly'
<1>1. PICK p \in a.posts :
        /\ p.what = "complete"
        /\ raced' = (raced \/ Overtaken(p.id))
        /\ reads' = [reads EXCEPT ![p.id].of = 0]
        /\ LET b == [a EXCEPT !.posts = @ \ {p}, !.reader = 0] IN
           CASE p.result = "ok" ->
                 /\ \E bundle \in {0, reads[p.id].of} : a' = SwapCard([b EXCEPT !.bundle = bundle])
                 /\ UNCHANGED above
            [] p.result = "missing" ->
                 a' = [b EXCEPT !.state = "no_key"] /\ above' = Append(above, "m1")
            [] p.result = "failed" -> a' = ReadFailed(b) /\ UNCHANGED above
            [] p.result = "unread" ->
                 /\ \/ a' = ReadFailed(b)
                    \/ a' = [b EXCEPT !.state = "wrong_type", !.buttons = "rescan"]
                 /\ UNCHANGED above
  BY DEF OnComplete
<1>2. act = "copy" /\ UNCHANGED <<act, cache, nscan, scans, strays, w>>
  BY DEF OnComplete
<1> DEFINE b == [a EXCEPT !.posts = @ \ {p}, !.reader = 0]
<1>3. a \in Activity /\ reads \in [1..MaxReads -> Reader] /\ 0 \in 0..MaxReads /\ nscan \in Nat \ {0}
  BY <1>2, Bounds DEF Orderly, Typed
<1>4. /\ p.id \in 1..MaxReads /\ p.id = a.latest /\ reads[p.id].of = nscan
      /\ reads[p.id].st = "over" /\ p.result \in {"ok", "missing", "failed", "unread"}
      /\ a.state = "reading" \/ (a.state = "failed" /\ p.result = "unread")
  <2>1. ~Overtaken(p.id)
    BY <1>1
  <2>2. /\ p.id \in 1..MaxReads /\ reads[p.id].st = "over"
        /\ p.result \in {"ok", "missing", "failed", "unread"}
    BY <1>1, <1>2, <1>3, Bounds DEF Orderly, CopyScreen, Activity, Posts
  <2>3. a.state = "reading" \/ (a.state = "failed" /\ p.result = "unread")
    BY <1>1, <1>2, <2>1 DEF Orderly, CopyScreen
  <2> QED
    BY <2>1, <2>2, <2>3 DEF Overtaken
<1>5. /\ above = <<>> /\ w = NoWrite /\ cache = nscan /\ scans = {} /\ a.result = 0
      /\ Call("scanned") \notin a.posts /\ Call("nothing") \notin a.posts /\ a.pending = "none"
      /\ \A j \in 1..MaxReads : reads[j].st # "run" /\ reads[j].defer = "none"
  BY <1>2, <1>4 DEF Orderly, Scanning, Reading, CopyScreen, Layers
<1>6. /\ b \in Activity /\ b.posts = a.posts \ {p} /\ b.state = a.state /\ b.buttons = a.buttons
      /\ b.pending = a.pending /\ b.result = a.result /\ b.latest = a.latest /\ b.bundle = a.bundle
  BY <1>3 DEF Activity
<1> HIDE DEF b
<1>7. /\ reads' \in [1..MaxReads -> Reader] /\ reads'[p.id].of = 0
      /\ \A j \in 1..MaxReads : reads'[j].st = reads[j].st /\ reads'[j].defer = reads[j].defer
                                /\ (j # p.id => reads'[j].of = reads[j].of)
  BY <1>1, <1>3, <1>4 DEF Reader
<1>8. /\ a' \in Activity /\ a'.posts = a.posts \ {p} /\ a'.pending = "none" /\ a'.result = 0
      /\ a'.latest = a.latest /\ a'.buttons = Offered(a'.state)
      /\ a'.state \in {"success", "no_key", "failed", "wrong_type"}
      /\ a'.state = "success" => a'.bundle \in {0, nscan}
      /\ above' = IF a'.state = "no_key" THEN <<"m1">> ELSE <<>>
  <2>1. CASE p.result = "ok"
    <3>1. PICK bundle \in {0, nscan} : a' = SwapCard([b EXCEPT !.bundle = bundle]) /\ above' = above
      BY <1>1, <1>4, <2>1 DEF b
    <3> QED
      BY <1>3, <1>5, <1>6, <3>1 DEF SwapCard, Activity, States, Buttons, Offered
  <2>2. CASE p.result = "missing"
    <3>1. a' = [b EXCEPT !.state = "no_key"] /\ above' = <<"m1">>
      BY <1>1, <1>5, <2>2, OneLayer DEF b
    <3>2. a.buttons = "none"
      BY <1>2, <1>4, <2>2 DEF Orderly, CopyScreen, Offered
    <3> QED
      BY <1>5, <1>6, <3>1, <3>2 DEF Activity, States, Offered
  <2>3. CASE p.result \in {"failed", "unread"}
    <3>1. \/ a' = ReadFailed(b)
          \/ a' = [b EXCEPT !.state = "wrong_type", !.buttons = "rescan"]
      BY <1>1, <2>3 DEF b
    <3>2. above' = above
      BY <1>1, <2>3
    <3>3. CASE a' = ReadFailed(b)
      BY <1>5, <1>6, <3>2, <3>3 DEF ReadFailed, Activity, States, Buttons, Offered
    <3>4. CASE a' = [b EXCEPT !.state = "wrong_type", !.buttons = "rescan"]
      BY <1>5, <1>6, <3>2, <3>4 DEF Activity, States, Buttons, Offered
    <3> QED
      BY <3>1, <3>3, <3>4
  <2> QED
    BY <1>4, <2>1, <2>2, <2>3
<1>9. Typed'
  BY <1>2, <1>3, <1>7, <1>8 DEF Orderly, Typed
<1>10. Scanning' /\ Reading'
  BY <1>2, <1>3, <1>4, <1>5, <1>7, <1>8 DEF Scanning, Reading
<1>11. CopyScreen'
  <2>1. ~Draws' /\ Call("nothing") \notin a'.posts
    BY <1>2, <1>8 DEF Orderly, CopyScreen, Draws
  <2>2. \A j \in 1..MaxReads : reads'[j].st = "raised" => Overtaken(j)'
    BY <1>4, <1>7, <1>8 DEF Overtaken
  <2>3. Overtaken(p.id)'
    BY <1>2, <1>3, <1>7 DEF Overtaken
  <2>4. \A q \in a'.posts : q.what = "complete" => q.id \in 1..MaxReads /\ reads[q.id].st = "over"
    BY <1>2, <1>3, <1>8, Bounds DEF Orderly, CopyScreen, Activity, Posts
  <2>5. \A q \in a'.posts : q.what = "complete" => reads'[q.id].st = "over" /\ Overtaken(q.id)'
    BY <1>4, <1>7, <1>8, <2>3, <2>4 DEF Overtaken
  <2> QED
    BY <1>2, <1>5, <1>7, <1>8, <2>1, <2>2, <2>5 DEF Orderly, CopyScreen
<1>12. Layers'
  BY <1>2, <1>5, <1>8 DEF Layers, NoWrite
<1> QED
  BY <1>2, <1>9, <1>10, <1>11, <1>12, CopyOnly

LEMMA PollStep ==
  ASSUME Orderly, act = "copy", NEW i \in 1..MaxReads, PollOfCopy(i), ~raced'
  PROVE  Orderly'
<1>1. PICK poll \in {"off", "wait"} :
        /\ reads' = [reads EXCEPT ![i].poll = poll]
        /\ UNCHANGED <<act, above, a, cache, nscan, scans, strays, w>>
  BY DEF PollOfCopy, PollEnds, PollWaits, PollGivesUp
<1>2. reads \in [1..MaxReads -> Reader]
  BY DEF Orderly, Typed
<1>3. /\ reads' \in [1..MaxReads -> Reader]
      /\ \A j \in 1..MaxReads : reads'[j].st = reads[j].st /\ reads'[j].of = reads[j].of
                                /\ reads'[j].defer = reads[j].defer
  BY <1>1, <1>2 DEF Reader
<1>4. Typed' /\ Scanning' /\ Reading'
  BY <1>1, <1>3 DEF Orderly, Typed, Scanning, Reading
<1>5. CopyScreen'
  <2>1. \A q \in a.posts : q.what = "complete" => q.id \in 1..MaxReads
    BY Bounds DEF Orderly, Typed, CopyScreen, Activity, Posts
  <2>2. \A j \in 1..MaxReads : Overtaken(j)' <=> Overtaken(j)
    BY <1>1, <1>3 DEF Overtaken
  <2>3. /\ \A q \in a.posts : q.what = "complete" /\ q.id # 0 => reads'[q.id].st = "over"
        /\ \A q \in a.posts : q.what = "complete" /\ ~Overtaken(q.id)' =>
             a.state = "reading" \/ (a.state = "failed" /\ q.result = "unread")
    BY <1>3, <2>1, <2>2 DEF Orderly, CopyScreen
  <2>4. \A j \in 1..MaxReads : reads'[j].st = "raised" /\ ~Overtaken(j)' => a.state = "failed"
    BY <1>3, <2>2 DEF Orderly, CopyScreen
  <2> QED
    BY <1>1, <1>3, <2>3, <2>4 DEF Orderly, CopyScreen, Draws
<1>6. Layers'
  BY <1>1 DEF Orderly, Layers, WriteBusy
<1> QED
  BY <1>1, <1>4, <1>5, <1>6, CopyOnly

LEMMA CopyRescanStep ==
  ASSUME Orderly, CopyRescan
  PROVE  Orderly'
<1>1. /\ act = "copy" /\ above = <<>> /\ a.buttons # "none"
      /\ StartScan(a) /\ UNCHANGED <<act, above, cache, strays, reads, w>>
  BY DEF CopyRescan, CopyKeys, KeysOf, Enabled
<1>2. a \in Activity /\ nscan \in Nat /\ reads \in [1..MaxReads -> Reader]
  BY DEF Orderly, Typed
<1>3. /\ a.state \notin {"scanning", "reading"} /\ a.result = 0 /\ a.pending = "none" /\ scans = {}
      /\ Call("scanned") \notin a.posts /\ Call("nothing") \notin a.posts /\ w = NoWrite
      /\ \A i \in 1..MaxReads : reads[i].st # "run" /\ reads[i].defer = "none"
  BY <1>1 DEF Orderly, Scanning, Reading, CopyScreen, Offered, Layers
<1>4. /\ nscan' = nscan + 1 /\ scans' = {nscan + 1} /\ a' \in Activity
      /\ a'.state = "scanning" /\ a'.buttons = "none" /\ a'.pending = a.pending
      /\ a'.posts = a.posts /\ a'.result = a.result /\ a'.latest = a.latest
  BY <1>1, <1>2, <1>3, StartScanIs
<1>5. \A i \in 1..MaxReads : reads[i].of <= nscan
  BY DEF Orderly, Typed
<1>6. \A i \in 1..MaxReads : reads[i].of # nscan + 1 /\ reads[i].of <= nscan + 1
  BY <1>2, <1>5 DEF Reader
<1>7. Typed'
  BY <1>1, <1>2, <1>4, <1>6 DEF Orderly, Typed
<1>8. Scanning' /\ Reading'
  BY <1>1, <1>3, <1>4, <1>6 DEF Scanning, Reading
<1>9. CopyScreen'
  <2>1. \A q \in a.posts : q.what = "complete" => q.id \in 1..MaxReads
    BY <1>1, <1>2, Bounds DEF Orderly, CopyScreen, Activity, Posts
  <2>2. \A i \in 1..MaxReads : Overtaken(i)'
    BY <1>1, <1>4, <1>6 DEF Overtaken
  <2> QED
    BY <1>1, <1>3, <1>4, <2>1, <2>2 DEF Orderly, CopyScreen, Draws, Offered
<1>10. Layers'
  BY <1>1, <1>3 DEF Layers, NoWrite
<1> QED
  BY <1>1, <1>7, <1>8, <1>9, <1>10, CopyOnly

LEMMA CopyRereadStep ==
  ASSUME Orderly, CopyReread
  PROVE  Orderly'
<1>1. /\ act = "copy" /\ above = <<>> /\ a.state \in {"success", "failed"}
      /\ StartRead(a, "watch") /\ UNCHANGED <<act, above, cache, nscan, scans, strays, w>>
  BY DEF CopyReread, CopyKeys, KeysOf
<1>2. /\ a.result = 0 /\ a.pending = "none" /\ Call("scanned") \notin a.posts /\ scans = {}
      /\ cache = nscan /\ w = NoWrite /\ a \in Activity
  BY <1>1 DEF Orderly, Typed, Scanning, Reading, CopyScreen, Layers
<1> QED
  BY <1>1, <1>2, CopyStarts

LEMMA CopyConsoleStep ==
  ASSUME Orderly, CopyConsole
  PROVE  Orderly'
<1>1. /\ act = "copy" /\ a' = [a EXCEPT !.console = ~@]
      /\ UNCHANGED <<act, above, cache, nscan, scans, strays, reads, w>>
  BY DEF CopyConsole, KeysOf
<1>2. a \in Activity
  BY DEF Orderly, Typed
<1>3. /\ a' \in Activity /\ a'.state = a.state /\ a'.latest = a.latest /\ a'.result = a.result
      /\ a'.posts = a.posts /\ a'.buttons = a.buttons /\ a'.pending = a.pending
      /\ a'.bundle = a.bundle
  BY <1>1, <1>2 DEF Activity
<1>4. Typed' /\ Scanning' /\ Reading'
  BY <1>1, <1>3 DEF Orderly, Typed, Scanning, Reading
<1>5. CopyScreen'
  BY <1>1, <1>3 DEF Orderly, CopyScreen, Draws, Overtaken
<1>6. Layers'
  BY <1>1, <1>3 DEF Orderly, Layers, WriteBusy
<1> QED
  BY <1>1, <1>4, <1>5, <1>6, CopyOnly

LEMMA CopyWarningM1Step ==
  ASSUME Orderly, CopyWarningM1
  PROVE  Orderly'
<1>1. /\ act = "copy" /\ above = <<"m1">> /\ Front(above) = <<>>
      /\ UNCHANGED <<act, cache, nscan, scans, strays, w>>
  BY OnTopIs DEF CopyWarningM1, Orderly
<1>2. /\ a.state = "no_key" /\ w = NoWrite /\ a \in Activity /\ cache = nscan /\ scans = {}
      /\ a.result = 0 /\ a.pending = "none" /\ Call("scanned") \notin a.posts
  BY <1>1 DEF Orderly, Layers, Typed, Scanning, Reading, CopyScreen
<1>3. CASE above' \in {<<>>, <<"other">>} /\ a' = a /\ reads' = reads
  <2>1. Typed' /\ Scanning' /\ Reading'
    BY <1>1, <1>3 DEF Orderly, Typed, Scanning, Reading
  <2>2. CopyScreen'
    BY <1>1, <1>3 DEF Orderly, CopyScreen, Draws, Overtaken
  <2>3. Layers'
    BY <1>1, <1>2, <1>3 DEF Layers, NoWrite
  <2> QED
    BY <1>1, <2>1, <2>2, <2>3, CopyOnly
<1>4. CASE above' = <<>> /\ StartRead(a, "watch")
  BY <1>1, <1>2, <1>4, CopyStarts
<1> QED
  BY <1>1, <1>3, <1>4 DEF CopyWarningM1, Pop

LEMMA CopyStep ==
  ASSUME Orderly, CopyNext, ~raced'
  PROVE  Orderly'
<1>1. CASE CopyPosted
  BY <1>1 DEF CopyPosted, Orderly, CopyScreen, Draws
<1>2. CASE \E i \in 1..MaxReads : ReaderOfCopy(i) \/ PollOfCopy(i)
  <2>1. PICK i \in 1..MaxReads : ReaderOfCopy(i) \/ PollOfCopy(i)
    BY <1>2
  <2>2. act = "copy"
    BY <2>1 DEF ReaderOfCopy, PollOfCopy
  <2> QED
    BY <2>1, <2>2, CopyReadingStep, CopyReadExceptionStep, PollStep DEF ReaderOfCopy
<1> QED
  BY <1>1, <1>2, CopyScanFinishStep, ProcessScanResultStep, OnCompleteStep, CopyRescanStep,
     CopyRereadStep, LaunchStep, CopyConsoleStep, LeaveStep, CopyWarningM1Step
     DEF CopyNext, CopyThreads

-----------------------------------------------------------------------------
(* What runs on after PWR has left its screen.                             *)

Idle == /\ scans = {} /\ ~WriteBusy
        /\ \A i \in 1..MaxReads : reads[i].st # "run"

\* Unless the user began a job beside one that was left, there is at most one that
\* was left, and then no other.
Alone ==
  \/ crowded
  \/ strays = {} /\ left = {}
  \/ Idle /\ \/ left = {} /\ \E k : strays = {k}
             \/ strays = {} /\ \E job : left = {job}

LEMMA AloneKept ==
  ASSUME Alone, UNCHANGED <<strays, left, crowded>>, Idle => Idle'
  PROVE  Alone'
BY DEF Alone

LEMMA AloneBegins ==
  ASSUME Begins, UNCHANGED <<strays, left>>
  PROVE  Alone'
BY DEF Alone, Begins

LEMMA AloneLeaves ==
  ASSUME Orderly, Alone, Leave, above = <<>>
  PROVE  Alone'
<1>1. /\ strays' = strays \cup scans /\ scans' = {} /\ reads' = [i \in 1..MaxReads |-> Over]
      /\ left' = IF Running # {} THEN left \cup {"read"} ELSE left
      /\ UNCHANGED <<w, crowded>>
  BY DEF Leave
<1>2. w = NoWrite /\ ~WriteBusy /\ Idle'
  BY <1>1 DEF Orderly, Layers, NoWrite, WriteBusy, Idle, Over
<1>3. CASE Idle
  <2>1. Running = {} /\ scans = {}
    BY <1>3 DEF Idle, Running
  <2> QED
    BY <1>1, <1>2, <2>1 DEF Alone
<1>4. CASE crowded
  BY <1>1, <1>4 DEF Alone
<1>5. CASE ~Idle /\ ~crowded
  <2>1. strays = {} /\ left = {}
    BY <1>5 DEF Alone
  <2>2. scans = {} \/ (scans = {nscan} /\ Running = {})
    BY DEF Orderly, Typed, Scanning, Reading, Running
  <2> QED
    BY <1>1, <1>2, <2>1, <2>2 DEF Alone
<1> QED
  BY <1>3, <1>4, <1>5

LEMMA AloneWritePwr ==
  ASSUME Orderly, Alone, WritePwr
  PROVE  Alone'
<1>1. above = <<"write">> /\ w \in Writing /\ UNCHANGED <<scans, strays, reads, crowded>>
  BY OnTopIs DEF WritePwr, Orderly, Typed
<1>2. scans = {} /\ \A i \in 1..MaxReads : reads[i].st # "run"
  BY <1>1 DEF Orderly, Layers, Scanning, Reading
<1>3. CASE w' = [w EXCEPT !.toast = FALSE] /\ left' = left
  <2>1. w'.state = w.state
    BY <1>1, <1>3 DEF Writing
  <2> QED
    BY <1>1, <1>3, <2>1, AloneKept DEF Idle, WriteBusy
<1>4. CASE w' = NoWrite /\ left' = left
  BY <1>1, <1>4, AloneKept DEF Idle, WriteBusy, NoWrite
<1>5. CASE w' = NoWrite /\ w.job = "run" /\ left' = left \cup {"write"}
  <2>1. WriteBusy
    BY <1>5 DEF Orderly, Layers
  <2>2. crowded \/ (strays = {} /\ left = {})
    BY <2>1 DEF Alone, Idle
  <2>3. Idle'
    BY <1>1, <1>2, <1>5 DEF Idle, WriteBusy, NoWrite
  <2> QED
    BY <1>1, <1>5, <2>2, <2>3 DEF Alone
<1> QED
  BY <1>3, <1>4, <1>5 DEF WritePwr

\* The jobs of the open flow.
LEMMA AloneFlow ==
  ASSUME Orderly, Alone, ReadNext \/ CopyNext
  PROVE  Alone'
<1>0. reads \in [1..MaxReads -> Reader] /\ a \in Activity
  BY DEF Orderly, Typed
<1>1. CASE ReadScanFinish \/ CopyScanFinish
  <2>1. scans # {} /\ UNCHANGED <<strays, left, crowded>>
    BY <1>1 DEF ReadScanFinish, CopyScanFinish, ScanEnds, rest
  <2> QED
    BY <2>1, AloneKept DEF Idle
<1>2. CASE ReadPosted \/ ProcessScanResult \/ ReadWarningM1 \/ CopyWarningM1
  <2>1. UNCHANGED <<scans, w, strays, left>> /\ (Begins \/ UNCHANGED <<reads, crowded>>)
    BY <1>2 DEF ReadPosted, ProcessScanResult, ReadWarningM1, CopyWarningM1, StartRead
  <2> QED
    BY <2>1, AloneKept, AloneBegins DEF Idle, WriteBusy
<1>3. CASE Rescan \/ CopyRescan \/ CopyReread
  BY <1>3, AloneBegins DEF Rescan, CopyRescan, CopyReread, StartScan, StartRead
<1>4. CASE ReadLaunchWrite \/ CopyLaunchWrite
  <2>1. /\ w' = [NoWrite EXCEPT !.state = "confirm", !.infos = cache, !.bundle = a.bundle]
        /\ UNCHANGED <<scans, reads, strays, left, crowded>>
    BY <1>4 DEF ReadLaunchWrite, CopyLaunchWrite, LaunchWrite, rest
  <2>2. w'.state = "confirm"
    BY <2>1 DEF NoWrite
  <2> QED
    BY <2>1, <2>2, AloneKept DEF Idle, WriteBusy
<1>5. CASE ShowConsole \/ HideConsole \/ CopyConsole \/ CopyPosted
  BY <1>5, AloneKept DEF ShowConsole, HideConsole, CopyConsole, CopyPosted, Idle, WriteBusy, rest
<1>6. CASE ReadLeave \/ CopyLeave
  BY <1>6, AloneLeaves DEF ReadLeave, CopyLeave, KeysOf
<1>7. ASSUME NEW i \in 1..MaxReads, ReaderOfRead(i) \/ ReaderOfCopy(i) \/ PollOfCopy(i)
      PROVE  Alone'
  <2>1. UNCHANGED <<scans, w, strays, left, crowded>>
    BY <1>7 DEF ReaderOfRead, OnReading, OnReadException, AfterException, Defer, ReaderOfCopy,
       CopyReading, CopyReadException, PollOfCopy, PollEnds, PollWaits, PollGivesUp, rest
  <2>2. CASE reads[i].st = "run"
    BY <2>1, <2>2, AloneKept DEF Idle
  <2>3. CASE reads[i].st # "run"
    <3>1. /\ \A j \in 1..MaxReads : j # i => reads'[j].st = reads[j].st
          /\ reads'[i].st \in {"over", reads[i].st}
      <4>1. CASE AfterException(i)
        BY <1>0, <4>1 DEF AfterException, ReadResult
      <4>2. CASE Defer(i)
        BY <1>0, <4>2 DEF Defer, Reader
      <4>3. CASE CopyReading(i)
        BY <1>0, <4>3 DEF CopyReading
      <4>4. CASE PollOfCopy(i)
        BY <1>0, <4>4 DEF PollOfCopy, PollEnds, PollWaits, PollGivesUp, Reader
      <4> QED
        BY <1>7, <2>3, <4>1, <4>2, <4>3, <4>4
           DEF ReaderOfRead, ReaderOfCopy, OnReading, OnReadException, CopyReadException
    <3>2. Idle => Idle'
      BY <2>1, <2>3, <3>1 DEF Idle, WriteBusy
    <3> QED
      BY <2>1, <3>2, AloneKept
  <2> QED
    BY <2>2, <2>3
<1>8. CASE OnComplete
  <2>1. PICK p \in a.posts : p.what = "complete" /\ reads' = [reads EXCEPT ![p.id].of = 0]
    BY <1>8 DEF OnComplete
  <2>2. \A j \in 1..MaxReads : reads'[j].st = reads[j].st
    BY <1>0, <2>1 DEF Reader
  <2>3. UNCHANGED <<scans, w, strays, left, crowded>>
    BY <1>8 DEF OnComplete, rest
  <2> QED
    BY <2>2, <2>3, AloneKept DEF Idle, WriteBusy
<1> QED
  BY <1>1, <1>2, <1>3, <1>4, <1>5, <1>6, <1>7, <1>8
     DEF ReadNext, ReadThreads, CopyNext, CopyThreads

LEMMA AloneStep ==
  ASSUME Orderly, Alone, Next
  PROVE  Alone'
<1>0. w \in Writing
  BY DEF Orderly, Typed
<1>1. CASE (\E flow \in {"read", "copy"} : Open(flow)) \/ WriteKey
  BY <1>1, AloneBegins DEF Open, WriteKey, StartScan
<1>2. CASE StrayScan
  <2>1. (\E k \in strays : strays' = strays \ {k}) /\ UNCHANGED <<scans, reads, w, left, crowded>>
    BY <1>2 DEF StrayScan, rest
  <2>2. Idle => Idle'
    BY <2>1 DEF Idle, WriteBusy
  <2> QED
    BY <2>1, <2>2 DEF Alone
<1>3. CASE LeftEnds
  <2>1. (\E job \in left : left' = left \ {job}) /\ UNCHANGED <<scans, reads, w, strays, crowded>>
    BY <1>3 DEF LeftEnds
  <2>2. Idle => Idle'
    BY <2>1 DEF Idle, WriteBusy
  <2> QED
    BY <2>1, <2>2 DEF Alone
<1>4. CASE ConfirmWrite
  <2>1. UNCHANGED <<scans, reads, strays, left>>
    BY <1>4 DEF ConfirmWrite
  <2>2. CASE w' = NoWrite /\ UNCHANGED crowded
    BY <2>1, <2>2, AloneKept DEF Idle, WriteBusy, NoWrite
  <2>3. CASE w'.state = "idle" /\ UNCHANGED crowded
    BY <2>1, <2>3, AloneKept DEF Idle, WriteBusy
  <2>4. CASE Begins
    BY <2>1, <2>4, AloneBegins
  <2> QED
    BY <1>4, <2>2, <2>3, <2>4 DEF ConfirmWrite
<1>5. CASE WriteThread \/ WriteComplete
  <2>1. WriteBusy /\ UNCHANGED <<strays, left, crowded>>
    BY <1>5 DEF WriteThread, WriteComplete, Orderly, Layers, rest
  <2> QED
    BY <2>1, AloneKept DEF Idle
<1>6. CASE CloseOther
  BY <1>6, AloneKept DEF CloseOther, Idle, WriteBusy, rest
<1> QED
  BY <1>1, <1>2, <1>3, <1>4, <1>5, <1>6, AloneFlow, AloneWritePwr DEF Next

-----------------------------------------------------------------------------
(* The theorems.                                                           *)

FlowInv == ~raced => Orderly /\ Alone

LEMMA InitIs == FlowInit => FlowInv
<1> SUFFICES ASSUME FlowInit PROVE Orderly /\ Alone
  BY DEF FlowInv
<1> USE DEF FlowInit
<1>1. Blank \in Activity /\ Blank.state = "idle" /\ Blank.posts = {}
  BY Bounds DEF Blank, Activity, States, Buttons, Shown
<1>2. Over \in Reader /\ Over.st = "over" /\ Over.of = 0 /\ Over.defer = "none"
  BY DEF Over, Reader, Shown
<1>3. NoWrite \in Writing /\ NoWrite.bundle = 0 /\ NoWrite.job = "none"
  BY DEF NoWrite, Writing
<1>4. Typed /\ Alone
  BY <1>1, <1>2, <1>3 DEF Typed, Alone
<1>5. Scanning /\ Reading
  BY <1>1, <1>2 DEF Scanning, Reading
<1>6. ReadScreen /\ CopyScreen /\ Layers /\ Menu
  BY <1>3 DEF ReadScreen, CopyScreen, Layers, Menu
<1> QED
  BY <1>4, <1>5, <1>6 DEF Orderly

LEMMA StepKeeps == FlowInv /\ [Next]_flowVars => FlowInv'
<1> SUFFICES ASSUME FlowInv, [Next]_flowVars, ~raced'
             PROVE  Orderly' /\ Alone'
  BY DEF FlowInv
<1>1. CASE UNCHANGED flowVars
  <2>1. Orderly /\ Alone
    BY <1>1 DEF FlowInv, flowVars
  <2>2. Typed' /\ Scanning' /\ Reading'
    BY <1>1, <2>1 DEF Orderly, Typed, Scanning, Reading, flowVars
  <2>3. ReadScreen' /\ CopyScreen'
    BY <1>1, <2>1 DEF Orderly, ReadScreen, CopyScreen, Draws, Overtaken, flowVars
  <2>4. Layers' /\ Menu'
    BY <1>1, <2>1 DEF Orderly, Layers, WriteBusy, Menu, flowVars
  <2>5. Alone'
    BY <1>1, <2>1, AloneKept DEF Idle, WriteBusy, flowVars, rest
  <2> QED
    BY <2>2, <2>3, <2>4, <2>5 DEF Orderly
<1>2. CASE Next
  <2>1. ~raced
    BY <1>2 DEF Next, Open, StrayScan, ConfirmWrite, WriteKey, WritePwr, WriteThread, WriteComplete,
       CloseOther, LeftEnds, ReadNext, ReadThreads, ReadScanFinish, ReadPosted, ReaderOfRead, OnReading,
       OnReadException, AfterException, ReadResult, Defer, Rescan, ReadLaunchWrite, ShowConsole,
       HideConsole, ReadLeave, Leave, ReadWarningM1, CopyNext, CopyThreads, CopyScanFinish,
       ProcessScanResult, OnComplete, CopyPosted, ReaderOfCopy, CopyReading, CopyReadException,
       PollOfCopy, PollEnds, PollWaits, PollGivesUp, CopyRescan, CopyReread, CopyLaunchWrite,
       CopyConsole, CopyLeave, CopyWarningM1
  <2>2. Orderly /\ Alone
    BY <2>1 DEF FlowInv
  <2>3. Orderly'
    BY <1>2, <2>2, OpenStep, ReadStep, CopyStep, StrayStep, WriteStep DEF Next
  <2> QED
    BY <1>2, <2>2, <2>3, AloneStep
<1> QED
  BY <1>1, <1>2

LEMMA AlwaysOrderly == Spec => []FlowInv
BY InitIs, StepKeeps, PTL DEF Spec

\* What is written to the empty tag was read with the scan result that tells how to
\* write it, for any number of scans, readers and visits.
THEOREM WrittenCorrect == Spec => []WrittenIsRead
<1>1. FlowInv => WrittenIsRead
  BY DEF FlowInv, Orderly, Layers, WrittenIsRead
<1> QED
  BY <1>1, AlwaysOrderly, PTL

\* At most one scan, read, write or verification of the open activities is under way,
\* and of those that PWR left at most one besides, unless the user began another.
THEOREM JobCorrect == Spec => []OneJob
<1>1. FlowInv => OneJob
  <2> SUFFICES ASSUME Orderly, Alone PROVE Jobs <= 1 /\ (~crowded => Jobs + Left <= 1)
    BY DEF FlowInv, OneJob
  <2>1. scans = {} \/ scans = {nscan}
    BY DEF Orderly, Typed
  <2>2. Running = {} \/ Running = {a.latest}
    BY DEF Orderly, Reading, Running
  <2>3. /\ scans # {} => Running = {} /\ ~WriteBusy
        /\ Running # {} => ~WriteBusy
    BY DEF Orderly, Scanning, Reading, Layers, NoWrite, WriteBusy, Running
  <2>4. Cardinality(scans) = IF scans = {} THEN 0 ELSE 1
    BY <2>1, FS_EmptySet, FS_Singleton
  <2>5. Cardinality(Running) = IF Running = {} THEN 0 ELSE 1
    BY <2>2, FS_EmptySet, FS_Singleton
  <2>6. Jobs \in {0, 1} /\ (Idle => Jobs = 0)
    <3>1. Idle => Running = {} /\ scans = {} /\ ~WriteBusy
      BY DEF Idle, Running
    <3> QED
      BY <2>3, <2>4, <2>5, <3>1 DEF Jobs
  <2>7. CASE strays = {} /\ left = {}
    BY <2>6, <2>7, FS_EmptySet DEF Left
  <2>8. CASE Idle /\ left = {} /\ \E k : strays = {k}
    <3>1. Cardinality(strays) = 1 /\ Cardinality(left) = 0
      BY <2>8, FS_EmptySet, FS_Singleton
    <3> QED
      BY <2>6, <2>8, <3>1 DEF Left
  <2>9. CASE Idle /\ strays = {} /\ \E job : left = {job}
    <3>1. Cardinality(strays) = 0 /\ Cardinality(left) = 1
      BY <2>9, FS_EmptySet, FS_Singleton
    <3> QED
      BY <2>6, <2>9, <3>1 DEF Left
  <2>10. CASE crowded
    BY <2>6, <2>10
  <2> QED
    BY <2>7, <2>8, <2>9, <2>10, Zenon DEF Alone
<1> QED
  BY <1>1, AlwaysOrderly, PTL

\* At rest the screen is that of a result, with its buttons.
THEOREM ScreenCorrect == Spec => []ScreenFits
<1>1. FlowInv => ScreenFits
  <2> SUFFICES ASSUME Orderly, AtRest
               PROVE  /\ a.state \in {"success", "failed", "no_tag", "scan_failed", "wrong_type", "no_key"}
                      /\ a.buttons = Offered(a.state)
    BY DEF FlowInv, ScreenFits
  <2>1. /\ act \in {"read", "copy"} /\ a.posts = {} /\ scans = {} /\ ~a.console
        /\ \A i \in 1..MaxReads : reads[i].st = "over" /\ reads[i].defer = "none"
    BY DEF AtRest, Orderly, Typed
  <2>2. a.state \notin {"scanning", "reading"}
    BY <2>1 DEF Orderly, Scanning, ReadScreen, CopyScreen
  <2>3. CASE act = "read"
    <3>1. ~Draws /\ a.pending = "none"
      BY <2>1, <2>3 DEF Orderly, ReadScreen, Draws
    <3> QED
      BY <2>1, <2>2, <2>3, <3>1 DEF Orderly, ReadScreen, Results, Offered
  <2>4. CASE act = "copy"
    BY <2>2, <2>4 DEF Orderly, CopyScreen
  <2> QED
    BY <2>1, <2>3, <2>4
<1> QED
  BY <1>1, AlwaysOrderly, PTL
-----------------------------------------------------------------------------
(* The types, races included: a thread of a flow may open a warning over   *)
(* whatever is on the screen, and its result may meet any state.           *)

Tops == {"m1", "confirm", "write", "other"}

\* Nobody knows of a scan that was not started.
FlowTypes ==
  /\ act \in {"menu", "read", "copy"} /\ above \in Seq(Tops)
  /\ a \in Activity /\ a.bundle <= nscan
  /\ \A p \in a.posts : p.what = "complete" => p.id # 0 /\ p.result # "none"
  /\ reads \in [1..MaxReads -> Reader] /\ \A i \in 1..MaxReads : reads[i].of <= nscan
  /\ nscan \in 0..MaxScans /\ cache \in 0..nscan
  /\ scans \subseteq 1..nscan /\ strays \subseteq 1..nscan /\ raced \in BOOLEAN

LeftTypes == left \subseteq {"read", "write"} /\ crowded \in BOOLEAN

\* What a step that starts no scan may do.
LEMMA FlowKept ==
  ASSUME FlowTypes, nscan' = nscan, act' \in {act, "menu"}, above' \in Seq(Tops),
         cache' \in 0..nscan, scans' \subseteq 1..nscan, strays' \subseteq 1..nscan, raced' \in BOOLEAN,
         a' \in Activity, a'.bundle <= nscan,
         \A p \in a'.posts : p.what = "complete" => p.id # 0 /\ p.result # "none",
         reads' \in [1..MaxReads -> Reader], \A i \in 1..MaxReads : reads'[i].of <= nscan
  PROVE  FlowTypes'
BY DEF FlowTypes

LEMMA TopsIs ==
  ASSUME above \in Seq(Tops)
  PROVE  /\ \A x \in Tops : Append(above, x) \in Seq(Tops)
         /\ above # <<>> => /\ Front(above) \in Seq(Tops)
                            /\ \A x \in Tops : Append(Front(above), x) \in Seq(Tops)
         /\ \A x \in Tops : <<x>> \in Seq(Tops)
<1>1. above # <<>> => Front(above) \in Seq(Tops)
  <2> SUFFICES ASSUME above # <<>> PROVE Front(above) \in Seq(Tops)
    OBVIOUS
  <2>1. Len(above) \in Nat \ {0}
    BY EmptySeq
  <2> QED
    BY <2>1, SubSeqProperties DEF Front
<1> QED
  BY <1>1

\* What the steps leave, as the lemma above asks for it.
LEMMA FlowNow ==
  ASSUME FlowTypes
  PROVE  /\ above \in Seq(Tops) /\ cache \in 0..nscan /\ scans \subseteq 1..nscan
         /\ strays \subseteq 1..nscan /\ raced \in BOOLEAN /\ a \in Activity /\ a.bundle <= nscan
         /\ \A p \in a.posts : p.what = "complete" => p.id # 0 /\ p.result # "none"
         /\ reads \in [1..MaxReads -> Reader] /\ \A i \in 1..MaxReads : reads[i].of <= nscan
         /\ nscan \in Nat /\ cache \in Nat /\ cache <= nscan /\ a.bundle \in Nat
BY Bounds DEF FlowTypes, Activity

\* A flow whose fields change, its posted calls too, and nothing else.
LEMMA FieldsKept ==
  ASSUME FlowTypes, UNCHANGED <<act, nscan, above, cache, scans, strays, reads>>, raced' \in BOOLEAN,
         a' \in Activity, a'.bundle = a.bundle,
         \A p \in a'.posts : p \in a.posts \/ p.what # "complete"
  PROVE  FlowTypes'
BY FlowNow, FlowKept

\* A scan that starts, of whatever activity.
LEMMA ScanStarts ==
  ASSUME FlowTypes, NEW b \in Activity, b.bundle <= nscan, StartScan(b),
         \A p \in b.posts : p.what = "complete" => p.id # 0 /\ p.result # "none",
         act' \in {"menu", "read", "copy"}, UNCHANGED <<above, cache, strays, reads, raced>>
  PROVE  FlowTypes'
<1>1. /\ nscan' = nscan + 1 /\ scans' = scans \cup {nscan + 1} /\ a' \in Activity
      /\ a'.bundle = b.bundle /\ a'.posts = b.posts
  BY FlowNow, StartScanIs
<1>2. nscan < MaxScans
  BY DEF StartScan
<1>3. nscan' \in 0..MaxScans /\ cache \in 0..nscan' /\ scans' \subseteq 1..nscan' /\ strays \subseteq 1..nscan'
  BY <1>1, <1>2, Bounds DEF FlowTypes
<1>4. a'.bundle <= nscan' /\ \A i \in 1..MaxReads : reads[i].of <= nscan'
  <2>1. nscan \in Nat /\ b.bundle \in Nat /\ \A i \in 1..MaxReads : reads[i].of \in Nat /\ reads[i].of <= nscan
    BY FlowNow DEF Reader, Activity
  <2> QED
    BY <1>1, <2>1
<1> QED
  BY <1>1, <1>3, <1>4 DEF FlowTypes

\* A reader that starts, on what is in the cache.
LEMMA ReadStartsTyped ==
  ASSUME FlowTypes, NEW b \in Activity, b.bundle <= nscan, NEW poll \in {"off", "watch"}, StartRead(b, poll),
         \A p \in b.posts : p.what = "complete" => p.id # 0 /\ p.result # "none",
         above' \in Seq(Tops), UNCHANGED <<act, cache, nscan, scans, strays, raced>>
  PROVE  FlowTypes'
<1>1. PICK i \in 1..MaxReads :
        /\ reads' \in [1..MaxReads -> Reader] /\ reads'[i].of = cache
        /\ \A j \in 1..MaxReads : j # i => reads'[j] = reads[j]
        /\ a' \in Activity /\ a'.bundle = b.bundle /\ a'.posts = b.posts
  BY FlowNow, StartReadIs
<1>2. \A j \in 1..MaxReads : reads'[j].of <= nscan
  BY <1>1, FlowNow
<1> QED
  BY <1>1, <1>2, FlowNow, FlowKept

\* A result is shown, or its drawing posted.
LEMMA ShownTyped ==
  ASSUME NEW b \in Activity, NEW kind \in Results
  PROVE  /\ Show(b, kind) \in Activity /\ Show(b, kind).bundle = b.bundle
         /\ \A p \in Show(b, kind).posts : p \in b.posts \/ p.what # "complete"
<1>1. kind \in {"success", "failed"} => Call(kind).what # "complete"
  BY CallIs
<1> QED
  BY <1>1, ShowIs

LEMMA OutsideTyped ==
  ASSUME FlowTypes,
         \/ \E flow \in {"read", "copy"} : Open(flow)
         \/ ReadLeave \/ CopyLeave \/ StrayScan \/ ConfirmWrite \/ WriteKey \/ WritePwr
         \/ WriteThread \/ WriteComplete \/ CloseOther \/ LeftEnds \/ ReadLaunchWrite \/ CopyLaunchWrite
  PROVE  FlowTypes'
<1>1. /\ Blank \in Activity /\ Blank.bundle = 0 /\ Blank.posts = {}
      /\ Over \in Reader /\ Over.of = 0
  BY Bounds DEF Blank, Over, Activity, Reader, States, Buttons, Shown
<1>2. "confirm" \in Tops /\ "write" \in Tops
  BY DEF Tops
<1>3. CASE \E flow \in {"read", "copy"} : Open(flow)
  <2>1. /\ StartScan(Blank) /\ act' \in {"menu", "read", "copy"}
        /\ UNCHANGED <<above, cache, strays, reads, raced>>
    BY <1>3 DEF Open
  <2> QED
    BY <1>1, <2>1, FlowNow, ScanStarts
<1>4. CASE ReadLeave \/ CopyLeave
  <2>1. /\ act' = "menu" /\ a' = Blank /\ scans' = {} /\ strays' = strays \cup scans
        /\ reads' = [i \in 1..MaxReads |-> Over] /\ UNCHANGED <<above, cache, nscan, raced>>
    BY <1>4 DEF ReadLeave, CopyLeave, Leave
  <2>2. strays' \subseteq 1..nscan /\ reads' \in [1..MaxReads -> Reader]
        /\ \A i \in 1..MaxReads : reads'[i].of <= nscan
    BY <1>1, <2>1, FlowNow
  <2> QED
    BY <1>1, <2>1, <2>2, FlowNow, FlowKept
<1>5. CASE StrayScan
  <2>1. /\ cache' \in {cache} \cup strays /\ strays' \subseteq strays /\ raced' \in BOOLEAN
        /\ UNCHANGED <<act, above, a, nscan, scans, reads>>
    BY <1>5 DEF StrayScan, FlowTypes
  <2>2. cache' \in 0..nscan /\ strays' \subseteq 1..nscan
    BY <2>1, FlowNow
  <2> QED
    BY <2>1, <2>2, FlowNow, FlowKept
<1>6. CASE \/ ConfirmWrite \/ WriteKey \/ WritePwr \/ WriteThread \/ WriteComplete \/ CloseOther
           \/ LeftEnds \/ ReadLaunchWrite \/ CopyLaunchWrite
  <2>1. UNCHANGED <<act, a, cache, nscan, scans, strays, reads, raced>>
    BY <1>6 DEF ConfirmWrite, WriteKey, WritePwr, WriteThread, WriteComplete, CloseOther, LeftEnds, ReadLaunchWrite,
                CopyLaunchWrite
  <2>2. \/ above' = above \/ above' = Append(above, "confirm")
        \/ above # <<>> /\ above' \in {Front(above), Append(Front(above), "write")}
    BY <1>6 DEF ConfirmWrite, WriteKey, WritePwr, WriteThread, WriteComplete, CloseOther, LeftEnds, ReadLaunchWrite,
                CopyLaunchWrite, LaunchWrite, OnTop, Pop
  <2>3. above' \in Seq(Tops)
    BY <1>2, <2>2, FlowNow, TopsIs
  <2> QED
    BY <2>1, <2>3, FlowNow, FlowKept
<1> QED
  BY <1>3, <1>4, <1>5, <1>6

LEMMA ReadScanTyped ==
  ASSUME FlowTypes, ReadScanFinish
  PROVE  FlowTypes'
<1>1. /\ scans' \subseteq scans /\ cache' \in {cache} \cup scans
      /\ UNCHANGED <<act, above, nscan, strays, reads, raced>>
      /\ \/ \E what \in {"scanned", "nothing"} : a' = [a EXCEPT !.posts = @ \cup {Call(what)}]
         \/ a' = Show(a, "no_tag")
  BY DEF ReadScanFinish, ScanEnds
<1>2. /\ a' \in Activity /\ a'.bundle = a.bundle
      /\ \A p \in a'.posts : p \in a.posts \/ p.what # "complete"
  <2>1. CASE \E what \in {"scanned", "nothing"} : a' = [a EXCEPT !.posts = @ \cup {Call(what)}]
    <3>1. PICK what \in {"scanned", "nothing"} : a' = [a EXCEPT !.posts = @ \cup {Call(what)}]
      BY <2>1
    <3>2. Call(what) \in Posts /\ Call(what).what # "complete"
      BY CallIs
    <3>3. a \in Activity
      BY FlowNow
    <3>4. a' \in Activity
      BY <3>1, <3>2, <3>3 DEF Activity
    <3> QED
      BY <3>1, <3>2, <3>3, <3>4 DEF Activity
  <2>2. CASE a' = Show(a, "no_tag")
    BY <2>2, FlowNow, ShownTyped DEF Results
  <2> QED
    BY <1>1, <2>1, <2>2
<1>3. cache' \in 0..nscan /\ scans' \subseteq 1..nscan
  BY <1>1, FlowNow
<1> QED
  BY <1>1, <1>2, <1>3, FlowNow, FlowKept

LEMMA ReadPostedTyped ==
  ASSUME FlowTypes, ReadPosted
  PROVE  FlowTypes'
<1>1. PICK p \in a.posts :
        LET b == [a EXCEPT !.posts = @ \ {p}] IN
        \/ p.what = "scanned" /\ StartRead(b, "off")
        \/ p.what = "nothing" /\ a' = Show(b, "no_tag") /\ UNCHANGED reads
        \/ p.what \in {"success", "failed"} /\ a' = Drawn(b, p.what) /\ UNCHANGED reads
  BY DEF ReadPosted
<1>2. UNCHANGED <<act, above, cache, nscan, scans, strays, raced>>
  BY DEF ReadPosted
<1> DEFINE b == [a EXCEPT !.posts = @ \ {p}]
<1>3. b \in Activity /\ b.bundle = a.bundle /\ b.posts = a.posts \ {p}
  BY FlowNow DEF Activity
<1>4. \/ StartRead(b, "off")
      \/ a' = Show(b, "no_tag") /\ UNCHANGED reads
      \/ p.what \in {"success", "failed"} /\ a' = Drawn(b, p.what) /\ UNCHANGED reads
  BY <1>1
<1> HIDE DEF b
<1>5. CASE StartRead(b, "off")
  BY <1>2, <1>3, <1>5, FlowNow, ReadStartsTyped
<1>6. CASE a' = Show(b, "no_tag") /\ UNCHANGED reads
  <2>1. /\ a' \in Activity /\ a'.bundle = a.bundle
        /\ \A q \in a'.posts : q \in a.posts \/ q.what # "complete"
    BY <1>3, <1>6, ShownTyped DEF Results
  <2> QED
    BY <1>2, <1>6, <2>1, FlowNow, FieldsKept
<1>7. CASE p.what \in {"success", "failed"} /\ a' = Drawn(b, p.what) /\ UNCHANGED reads
  <2>1. p.what \in Results
    BY <1>7 DEF Results
  <2>2. a' \in Activity /\ a'.bundle = b.bundle /\ a'.posts = b.posts
    BY <1>3, <1>7, <2>1, DrawnIs
  <2> QED
    BY <1>2, <1>3, <1>7, <2>2, FlowNow, FieldsKept
<1> QED
  BY <1>4, <1>5, <1>6, <1>7

LEMMA ResultTyped ==
  ASSUME FlowTypes, NEW i \in 1..MaxReads, NEW kind \in Results, NEW bundle \in 0..nscan,
         NEW st \in {"over", "raised"}, ReadResult(i, kind, bundle, st),
         UNCHANGED <<act, above, cache, nscan, scans, strays>>
  PROVE  FlowTypes'
<1> DEFINE b == [a EXCEPT !.reader = 0, !.bundle = bundle]
<1>0. a \in Activity /\ bundle \in Nat /\ 0 \in 0..MaxReads
  BY FlowNow, Bounds
<1>1. b \in Activity /\ b.bundle = bundle /\ b.posts = a.posts
  BY <1>0 DEF Activity
<1>2. a' = IF a.console THEN [b EXCEPT !.state = kind] ELSE Show(b, kind)
  BY DEF ReadResult
<1> HIDE DEF b
<1>3. /\ a' \in Activity /\ a'.bundle = bundle
      /\ \A p \in a'.posts : p \in a.posts \/ p.what # "complete"
  <2>1. CASE a.console
    <3>1. a' = [b EXCEPT !.state = kind] /\ kind \in States
      BY <1>2, <2>1 DEF Results, States
    <3> QED
      BY <1>1, <3>1 DEF Activity
  <2>2. CASE ~a.console
    BY <1>1, <1>2, <2>2, ShownTyped
  <2> QED
    BY <2>1, <2>2
<1>4. /\ reads' \in [1..MaxReads -> Reader]
      /\ \A j \in 1..MaxReads : reads'[j].of <= nscan
  <2>1. reads' = [reads EXCEPT ![i].st = st, ![i].of = IF st = "over" THEN 0 ELSE @,
                               ![i].defer = IF a.console THEN kind ELSE "none"]
    BY DEF ReadResult
  <2>2. reads \in [1..MaxReads -> Reader] /\ (\A j \in 1..MaxReads : reads[j].of <= nscan) /\ nscan \in Nat
    BY FlowNow
  <2>3. (IF a.console THEN kind ELSE "none") \in Shown
    BY DEF Shown, Results
  <2> DEFINE of == IF st = "over" THEN 0 ELSE reads[i].of
             defer == IF a.console THEN kind ELSE "none"
  <2>4. reads' = [reads EXCEPT ![i] = [@ EXCEPT !.st = st, !.of = of, !.defer = defer]]
    BY <2>1, <2>2
  <2>6. of \in Nat /\ reads[i] \in Reader
    BY <2>2 DEF Reader
  <2> HIDE DEF of, defer
  <2>7. [reads[i] EXCEPT !.st = st, !.of = of, !.defer = defer] \in Reader
    BY <2>3, <2>6 DEF Reader, defer
  <2>8. reads' \in [1..MaxReads -> Reader]
    BY <2>2, <2>4, <2>7
  <2>5. reads'[i].of \in {0, reads[i].of} /\ \A j \in 1..MaxReads : j # i => reads'[j] = reads[j]
    BY <2>2, <2>4, <2>6 DEF Reader, of
  <2> QED
    BY <2>2, <2>5, <2>8
<1>5. raced' \in BOOLEAN
  BY DEF ReadResult, FlowTypes
<1>6. bundle <= nscan
  BY FlowNow
<1> QED
  BY <1>3, <1>4, <1>5, <1>6, FlowNow, FlowKept

\* A reader's record with another state, or nothing put aside.
LEMMA ReadsTyped ==
  ASSUME FlowTypes, NEW i \in 1..MaxReads
  PROVE  /\ \A st \in {"over", "run", "raised"} :
              /\ [reads EXCEPT ![i].st = st] \in [1..MaxReads -> Reader]
              /\ \A j \in 1..MaxReads : [reads EXCEPT ![i].st = st][j].of <= nscan
         /\ [reads EXCEPT ![i].st = "over", ![i].of = 0] \in [1..MaxReads -> Reader]
         /\ \A j \in 1..MaxReads : [reads EXCEPT ![i].st = "over", ![i].of = 0][j].of <= nscan
         /\ [reads EXCEPT ![i].of = 0] \in [1..MaxReads -> Reader]
         /\ \A j \in 1..MaxReads : [reads EXCEPT ![i].of = 0][j].of <= nscan
         /\ [reads EXCEPT ![i].defer = "none"] \in [1..MaxReads -> Reader]
         /\ \A j \in 1..MaxReads : [reads EXCEPT ![i].defer = "none"][j].of <= nscan
         /\ \A poll \in {"off", "wait"} :
              /\ [reads EXCEPT ![i].poll = poll] \in [1..MaxReads -> Reader]
              /\ \A j \in 1..MaxReads : [reads EXCEPT ![i].poll = poll][j].of <= nscan
<1>1. reads \in [1..MaxReads -> Reader] /\ (\A j \in 1..MaxReads : reads[j].of <= nscan) /\ nscan \in Nat
  BY FlowNow
<1>2. ASSUME NEW st \in {"over", "run", "raised"}
      PROVE  /\ [reads EXCEPT ![i].st = st] \in [1..MaxReads -> Reader]
             /\ \A j \in 1..MaxReads : [reads EXCEPT ![i].st = st][j].of <= nscan
  <2>1. [reads[i] EXCEPT !.st = st] \in Reader /\ [reads[i] EXCEPT !.st = st].of = reads[i].of
    BY <1>1 DEF Reader
  <2> QED
    BY <1>1, <2>1
<1>3. /\ [reads EXCEPT ![i].st = "over", ![i].of = 0] \in [1..MaxReads -> Reader]
      /\ \A j \in 1..MaxReads : [reads EXCEPT ![i].st = "over", ![i].of = 0][j].of <= nscan
  <2>1. [reads EXCEPT ![i].st = "over", ![i].of = 0] = [reads EXCEPT ![i] = [@ EXCEPT !.st = "over", !.of = 0]]
    BY <1>1
  <2>2. [reads[i] EXCEPT !.st = "over", !.of = 0] \in Reader /\ [reads[i] EXCEPT !.st = "over", !.of = 0].of = 0
    BY <1>1 DEF Reader
  <2> QED
    BY <1>1, <2>1, <2>2
<1>4. /\ [reads EXCEPT ![i].of = 0] \in [1..MaxReads -> Reader]
      /\ \A j \in 1..MaxReads : [reads EXCEPT ![i].of = 0][j].of <= nscan
  BY <1>1 DEF Reader
<1>5. /\ [reads EXCEPT ![i].defer = "none"] \in [1..MaxReads -> Reader]
      /\ \A j \in 1..MaxReads : [reads EXCEPT ![i].defer = "none"][j].of <= nscan
  BY <1>1 DEF Reader, Shown
<1>6. \A poll \in {"off", "wait"} :
        /\ [reads EXCEPT ![i].poll = poll] \in [1..MaxReads -> Reader]
        /\ \A j \in 1..MaxReads : [reads EXCEPT ![i].poll = poll][j].of <= nscan
  BY <1>1 DEF Reader
<1> QED
  BY <1>2, <1>3, <1>4, <1>5, <1>6

LEMMA ReaderOfReadTyped ==
  ASSUME FlowTypes, NEW i \in 1..MaxReads, ReaderOfRead(i)
  PROVE  FlowTypes'
<1>0. reads[i].of \in 0..nscan /\ a.bundle \in 0..nscan /\ 0 \in 0..nscan /\ "m1" \in Tops
  BY FlowNow DEF Reader, Tops
<1>1. CASE OnReading(i)
  <2>1. UNCHANGED <<act, cache, nscan, scans, strays>>
    BY <1>1 DEF OnReading
  <2>2. CASE (\E bundle \in {0, reads[i].of} : ReadResult(i, "success", bundle, "over")) /\ UNCHANGED above
    BY <1>0, <2>1, <2>2, ResultTyped DEF Results
  <2>3. CASE (\E kind \in {"failed", "no_tag"} : ReadResult(i, kind, a.bundle, "over")) /\ UNCHANGED above
    BY <1>0, <2>1, <2>3, ResultTyped DEF Results
  <2>4. CASE /\ a' = [a EXCEPT !.reader = 0, !.state = "no_key", !.bar = FALSE]
             /\ above' = Append(above, "m1")
             /\ reads' = [reads EXCEPT ![i].st = "over", ![i].of = 0]
             /\ raced' = (raced \/ Overtaken(i))
    <3>0. a \in Activity /\ 0 \in 0..MaxReads
      BY FlowNow, Bounds
    <3>1. a' \in Activity /\ a'.bundle = a.bundle /\ a'.posts = a.posts
      BY <2>4, <3>0 DEF Activity, States
    <3>2. above' \in Seq(Tops) /\ raced' \in BOOLEAN
      BY <1>0, <2>4, FlowNow, TopsIs
    <3> QED
      BY <2>1, <2>4, <3>1, <3>2, FlowNow, FlowKept, ReadsTyped
  <2> QED
    BY <1>1, <2>2, <2>3, <2>4 DEF OnReading
<1>2. CASE OnReadException(i) \/ AfterException(i)
  <2>1. /\ UNCHANGED <<act, above, cache, nscan, scans, strays>>
        /\ \E kind \in {"failed", "no_tag"}, st \in {"over", "raised"} : ReadResult(i, kind, a.bundle, st)
    BY <1>2 DEF OnReadException, AfterException
  <2> QED
    BY <1>0, <2>1, ResultTyped DEF Results
<1>3. CASE Defer(i)
  <2>1. reads[i].defer \in Shown
    BY FlowNow DEF Reader
  <2>2. a' \in Activity /\ a'.bundle = a.bundle /\ a'.posts = a.posts
    BY <1>3, <2>1, FlowNow DEF Defer, Activity
  <2>3. /\ reads' = [reads EXCEPT ![i].defer = "none"]
        /\ UNCHANGED <<act, above, cache, nscan, scans, strays, raced>>
    BY <1>3 DEF Defer
  <2> QED
    BY <2>2, <2>3, FlowNow, FlowKept, ReadsTyped
<1> QED
  BY <1>1, <1>2, <1>3 DEF ReaderOfRead

LEMMA ReadKeysTyped ==
  ASSUME FlowTypes, Rescan \/ ShowConsole \/ HideConsole \/ ReadWarningM1
  PROVE  FlowTypes'
<1>1. CASE Rescan
  BY <1>1, FlowNow, ScanStarts DEF Rescan, FlowTypes
<1>2. CASE ShowConsole
  <2>1. a' \in Activity /\ a'.bundle = a.bundle /\ a'.posts = a.posts
    BY <1>2, FlowNow DEF ShowConsole, Activity
  <2> QED
    BY <1>2, <2>1, FlowNow, FieldsKept DEF ShowConsole
<1>3. CASE HideConsole
  <2> DEFINE b == [a EXCEPT !.console = FALSE]
             c == [b EXCEPT !.pending = "none"]
  <2>1. b \in Activity /\ b.bundle = a.bundle /\ b.posts = a.posts /\ a' = Undefer(b)
    BY <1>3, FlowNow DEF HideConsole, Activity
  <2> HIDE DEF b
  <2>2. c \in Activity /\ c.bundle = a.bundle /\ c.posts = a.posts
    BY <2>1 DEF Activity, Shown
  <2>3. a' = IF b.pending = "none" THEN [b EXCEPT !.bar = b.state = "reading"] ELSE Show(c, b.pending)
    BY <2>1 DEF Undefer
  <2> HIDE DEF c
  <2>4. /\ a' \in Activity /\ a'.bundle = a.bundle
        /\ \A p \in a'.posts : p \in a.posts \/ p.what # "complete"
    <3>1. CASE b.pending = "none"
      BY <2>1, <2>3, <3>1 DEF Activity
    <3>2. CASE b.pending # "none"
      <4>1. b.pending \in Results
        BY <2>1, <3>2 DEF Activity, Shown, Results
      <4> QED
        BY <2>2, <2>3, <3>2, <4>1, ShownTyped
    <3> QED
      BY <3>1, <3>2
  <2>5. raced' \in BOOLEAN /\ UNCHANGED <<act, above, cache, nscan, scans, strays, reads>>
    BY <1>3, FlowNow DEF HideConsole
  <2> QED
    BY <2>4, <2>5, FlowNow, FieldsKept
<1>4. CASE ReadWarningM1
  <2>1. /\ Resume(a) \in Activity /\ Resume(a).bundle = a.bundle
        /\ \A p \in Resume(a).posts : p.what = "complete" => p.id # 0 /\ p.result # "none"
    <3> DEFINE b == [a EXCEPT !.reader = 0]
    <3>0. a \in Activity /\ 0 \in 0..MaxReads
      BY FlowNow, Bounds
    <3>1. b \in Activity /\ b.bundle = a.bundle /\ b.posts = a.posts
      BY <3>0 DEF Activity
    <3>2. Resume(a) = Show(b, "failed") \/ Resume(a) = a
      BY DEF Resume
    <3> HIDE DEF b
    <3> QED
      BY <3>1, <3>2, FlowNow, ShownTyped DEF Results
  <2>2. above # <<>> /\ "other" \in Tops /\ UNCHANGED <<act, cache, nscan, scans, strays, raced>>
    BY <1>4 DEF ReadWarningM1, OnTop, Tops
  <2>3. above' \in Seq(Tops) /\ \/ a' \in {a, Resume(a)} /\ UNCHANGED reads
                                \/ StartRead(Resume(a), "off")
    BY <1>4, <2>2, FlowNow, TopsIs DEF ReadWarningM1, Pop
  <2>4. CASE a' \in {a, Resume(a)} /\ UNCHANGED reads
    BY <2>1, <2>2, <2>3, <2>4, FlowNow, FlowKept
  <2>5. CASE StartRead(Resume(a), "off")
    BY <2>1, <2>2, <2>3, <2>5, FlowNow, ReadStartsTyped
  <2> QED
    BY <2>3, <2>4, <2>5
<1> QED
  BY <1>1, <1>2, <1>3, <1>4

LEMMA CopyScanTyped ==
  ASSUME FlowTypes, CopyScanFinish \/ ProcessScanResult \/ CopyPosted
  PROVE  FlowTypes'
<1>0. a \in Activity
  BY FlowNow
<1>1. CASE CopyScanFinish
  <2>1. PICK k \in scans, found \in BOOLEAN :
          /\ ScanEnds(k, found)
          /\ a' = [a EXCEPT !.result = IF found THEN k ELSE 0, !.posts = @ \cup {Call("scanned")}]
    BY <1>1 DEF CopyScanFinish
  <2> DEFINE result == IF found THEN k ELSE 0
  <2>2. result \in Nat /\ cache' \in 0..nscan /\ scans' \subseteq 1..nscan
    BY <2>1, FlowNow DEF ScanEnds
  <2>3. a' = [a EXCEPT !.result = result, !.posts = @ \cup {Call("scanned")}]
    BY <2>1
  <2> HIDE DEF result
  <2>4. Call("scanned") \in Posts /\ Call("scanned").what # "complete"
    BY CallIs
  <2>5. a' \in Activity /\ a'.bundle = a.bundle /\ a'.posts = a.posts \cup {Call("scanned")}
    BY <1>0, <2>2, <2>3, <2>4 DEF Activity
  <2>6. UNCHANGED <<act, above, nscan, strays, reads, raced>>
    BY <1>1 DEF CopyScanFinish
  <2> QED
    BY <2>2, <2>4, <2>5, <2>6, FlowNow, FlowKept
<1>2. CASE ProcessScanResult
  <2> DEFINE b == [a EXCEPT !.posts = @ \ {Call("scanned")}, !.result = 0]
  <2>1. b \in Activity /\ b.bundle = a.bundle /\ b.posts \subseteq a.posts
    BY <1>0 DEF Activity
  <2>2. /\ UNCHANGED <<act, above, cache, nscan, scans, strays, raced>>
        /\ StartRead([b EXCEPT !.found = TRUE], "watch") \/ (a' = ScanFailed(b) /\ UNCHANGED reads)
    BY <1>2 DEF ProcessScanResult
  <2> HIDE DEF b
  <2>3. CASE StartRead([b EXCEPT !.found = TRUE], "watch")
    <3>1. /\ [b EXCEPT !.found = TRUE] \in Activity /\ [b EXCEPT !.found = TRUE].bundle = a.bundle
          /\ [b EXCEPT !.found = TRUE].posts \subseteq a.posts
      BY <2>1 DEF Activity
    <3> QED
      BY <2>2, <2>3, <3>1, FlowNow, ReadStartsTyped
  <2>4. CASE a' = ScanFailed(b) /\ UNCHANGED reads
    <3>1. a' \in Activity /\ a'.bundle = a.bundle /\ a'.posts \subseteq a.posts
      BY <2>1, <2>4 DEF ScanFailed, Activity, States, Buttons
    <3> QED
      BY <2>2, <2>4, <3>1, FlowNow, FieldsKept
  <2> QED
    BY <2>2, <2>3, <2>4
<1>3. CASE CopyPosted
  <2>1. PICK kind \in {"success", "failed"} :
          a' = [a EXCEPT !.posts = @ \ {Call(kind)}, !.buttons = IF kind = "success" THEN "write" ELSE "failed"]
    BY <1>3 DEF CopyPosted
  <2>2. a' \in Activity /\ a'.bundle = a.bundle /\ a'.posts \subseteq a.posts
    BY <1>0, <2>1 DEF Activity, Buttons
  <2>3. UNCHANGED <<act, above, cache, nscan, scans, strays, reads, raced>>
    BY <1>3 DEF CopyPosted
  <2> QED
    BY <2>2, <2>3, FlowNow, FieldsKept
<1> QED
  BY <1>1, <1>2, <1>3

LEMMA ReaderOfCopyTyped ==
  ASSUME FlowTypes, NEW i \in 1..MaxReads, ReaderOfCopy(i) \/ PollOfCopy(i)
  PROVE  FlowTypes'
<1>0. a \in Activity /\ 0 \in 0..MaxReads /\ i \in 0..MaxReads /\ i # 0
  BY FlowNow, Bounds
<1>1. CASE CopyReading(i)
  <2>1. PICK result \in {"ok", "missing", "failed", "unread"} :
          a' = [a EXCEPT !.posts = @ \cup {Post("complete", i, result)}]
    BY <1>1 DEF CopyReading
  <2>2. /\ Post("complete", i, result) \in Posts /\ Post("complete", i, result).id = i
        /\ Post("complete", i, result).result # "none"
    BY <1>0 DEF Post, Posts
  <2>3. a' \in Activity /\ a'.bundle = a.bundle /\ a'.posts = a.posts \cup {Post("complete", i, result)}
    BY <1>0, <2>1, <2>2 DEF Activity
  <2>4. /\ reads' = [reads EXCEPT ![i].st = "over"]
        /\ UNCHANGED <<act, above, cache, nscan, scans, strays, raced>>
    BY <1>1 DEF CopyReading
  <2>5. \A p \in a'.posts : p.what = "complete" => p.id # 0 /\ p.result # "none"
    BY <1>0, <2>2, <2>3, FlowNow
  <2> QED
    BY <2>3, <2>4, <2>5, FlowNow, FlowKept, ReadsTyped
<1>2. CASE CopyReadException(i)
  <2> DEFINE b == [a EXCEPT !.reader = 0]
  <2>1. b \in Activity /\ b.bundle = a.bundle /\ b.posts = a.posts
    BY <1>0 DEF Activity
  <2>2. /\ a' = ReadFailed(b) /\ reads' = [reads EXCEPT ![i].st = "raised"]
        /\ UNCHANGED <<act, above, cache, nscan, scans, strays, raced>>
    BY <1>2 DEF CopyReadException
  <2> HIDE DEF b
  <2>3. a' \in Activity /\ a'.bundle = a.bundle /\ a'.posts = a.posts
    BY <2>1, <2>2 DEF ReadFailed, Activity, States, Buttons
  <2> QED
    BY <2>2, <2>3, FlowNow, FlowKept, ReadsTyped
<1>3. CASE PollEnds(i) \/ PollWaits(i)
  <2>1. PICK poll \in {"off", "wait"} : reads' = [reads EXCEPT ![i].poll = poll]
    BY <1>3 DEF PollEnds, PollWaits
  <2>2. UNCHANGED <<act, above, a, cache, nscan, scans, strays, raced>>
    BY <1>3 DEF PollEnds, PollWaits
  <2>3. reads' \in [1..MaxReads -> Reader] /\ \A j \in 1..MaxReads : reads'[j].of <= nscan
    BY <2>1, ReadsTyped
  <2> QED
    BY <2>2, <2>3, FlowNow, FlowKept
<1>4. CASE PollGivesUp(i)
  <2>1. PICK kind \in {"success", "failed"} :
          a' = [a EXCEPT !.reader = 0, !.state = kind, !.posts = @ \cup {Call(kind)}]
    BY <1>4 DEF PollGivesUp
  <2>2. Call(kind) \in Posts /\ Call(kind).what # "complete"
    BY CallIs
  <2>3. a' \in Activity /\ a'.bundle = a.bundle /\ a'.posts = a.posts \cup {Call(kind)}
    BY <1>0, <2>1, <2>2 DEF Activity, States
  <2>4. /\ reads' = [reads EXCEPT ![i].poll = "off"] /\ raced' = TRUE
        /\ UNCHANGED <<act, above, cache, nscan, scans, strays>>
    BY <1>4 DEF PollGivesUp
  <2>5. \A p \in a'.posts : p.what = "complete" => p.id # 0 /\ p.result # "none"
    BY <2>2, <2>3, FlowNow
  <2> QED
    BY <2>3, <2>4, <2>5, FlowNow, FlowKept, ReadsTyped
<1> QED
  BY <1>1, <1>2, <1>3, <1>4 DEF ReaderOfCopy, PollOfCopy

LEMMA OnCompleteTyped ==
  ASSUME FlowTypes, OnComplete
  PROVE  FlowTypes'
<1>1. PICK p \in a.posts :
        /\ p.what = "complete"
        /\ LET b == [a EXCEPT !.posts = @ \ {p}, !.reader = 0] IN
             /\ raced' = (raced \/ Overtaken(p.id))
             /\ reads' = [reads EXCEPT ![p.id].of = 0]
             /\ \/ /\ \E bundle \in {0, reads[p.id].of} : a' = SwapCard([b EXCEPT !.bundle = bundle])
                   /\ UNCHANGED above
                \/ a' = [b EXCEPT !.state = "no_key"] /\ above' = Append(above, "m1")
                \/ a' = ReadFailed(b) /\ UNCHANGED above
                \/ a' = [b EXCEPT !.state = "wrong_type", !.buttons = "rescan"] /\ UNCHANGED above
  <2>1. PICK p \in a.posts :
          /\ p.what = "complete"
          /\ LET b == [a EXCEPT !.posts = @ \ {p}, !.reader = 0] IN
               /\ raced' = (raced \/ Overtaken(p.id))
               /\ reads' = [reads EXCEPT ![p.id].of = 0]
               /\ CASE p.result = "ok" ->
                         /\ \E bundle \in {0, reads[p.id].of} : a' = SwapCard([b EXCEPT !.bundle = bundle])
                         /\ UNCHANGED above
                    [] p.result = "missing" ->
                         a' = [b EXCEPT !.state = "no_key"] /\ above' = Append(above, "m1")
                    [] p.result = "failed" -> a' = ReadFailed(b) /\ UNCHANGED above
                    [] p.result = "unread" ->
                         /\ \/ a' = ReadFailed(b)
                            \/ a' = [b EXCEPT !.state = "wrong_type", !.buttons = "rescan"]
                         /\ UNCHANGED above
    BY DEF OnComplete
  <2>2. p.result \in {"ok", "missing", "failed", "unread"}
    BY <2>1, FlowNow DEF Activity, Posts
  <2> QED
    BY <2>1, <2>2
<1>2. UNCHANGED <<act, cache, nscan, scans, strays>> /\ a \in Activity /\ 0 \in 0..MaxReads /\ "m1" \in Tops
  BY FlowNow, Bounds DEF OnComplete, Tops
<1> DEFINE b == [a EXCEPT !.posts = @ \ {p}, !.reader = 0]
<1>3. b \in Activity /\ b.bundle = a.bundle /\ b.posts \subseteq a.posts
  BY <1>2 DEF Activity
<1>4. /\ raced' = (raced \/ Overtaken(p.id)) /\ reads' = [reads EXCEPT ![p.id].of = 0]
      /\ \/ /\ \E bundle \in {0, reads[p.id].of} : a' = SwapCard([b EXCEPT !.bundle = bundle])
            /\ UNCHANGED above
         \/ a' = [b EXCEPT !.state = "no_key"] /\ above' = Append(above, "m1")
         \/ a' = ReadFailed(b) /\ UNCHANGED above
         \/ a' = [b EXCEPT !.state = "wrong_type", !.buttons = "rescan"] /\ UNCHANGED above
  BY <1>1
<1> HIDE DEF b
<1>5. p.id \in 1..MaxReads /\ raced' \in BOOLEAN
  <2>1. p \in Posts /\ p.id # 0
    BY <1>1, <1>2, FlowNow DEF Activity
  <2> QED
    BY <1>4, <2>1, FlowNow, Bounds DEF Posts
<1>6. reads' \in [1..MaxReads -> Reader] /\ \A j \in 1..MaxReads : reads'[j].of <= nscan
  BY <1>4, <1>5, ReadsTyped
<1>7. above' \in Seq(Tops)
  BY <1>2, <1>4, FlowNow, TopsIs
<1>8. a' \in Activity /\ a'.posts \subseteq a.posts /\ a'.bundle <= nscan
  <2>1. CASE \E bundle \in {0, reads[p.id].of} : a' = SwapCard([b EXCEPT !.bundle = bundle])
    <3>1. PICK bundle \in {0, reads[p.id].of} : a' = SwapCard([b EXCEPT !.bundle = bundle])
      BY <2>1
    <3>2. bundle \in Nat /\ bundle <= nscan
      BY <1>5, FlowNow DEF Reader
    <3>3. /\ [b EXCEPT !.bundle = bundle] \in Activity /\ [b EXCEPT !.bundle = bundle].bundle = bundle
          /\ [b EXCEPT !.bundle = bundle].posts = b.posts
      BY <1>3, <3>2 DEF Activity
    <3>4. /\ a' \in Activity /\ a'.bundle = bundle /\ a'.posts = b.posts
      BY <3>1, <3>3 DEF SwapCard, Activity, States, Buttons
    <3> QED
      BY <1>3, <3>2, <3>4
  <2>2. CASE a' = [b EXCEPT !.state = "no_key"]
    BY <1>3, <2>2, FlowNow DEF Activity, States
  <2>3. CASE a' = ReadFailed(b)
    BY <1>3, <2>3, FlowNow DEF ReadFailed, Activity, States, Buttons
  <2>4. CASE a' = [b EXCEPT !.state = "wrong_type", !.buttons = "rescan"]
    BY <1>3, <2>4, FlowNow DEF Activity, States, Buttons
  <2> QED
    BY <1>4, <2>1, <2>2, <2>3, <2>4
<1> QED
  BY <1>2, <1>5, <1>6, <1>7, <1>8, FlowNow, FlowKept

LEMMA CopyKeysTyped ==
  ASSUME FlowTypes, CopyRescan \/ CopyReread \/ CopyConsole \/ CopyWarningM1
  PROVE  FlowTypes'
<1>0. a \in Activity
  BY FlowNow
<1>1. CASE CopyRescan
  BY <1>1, FlowNow, ScanStarts DEF CopyRescan, FlowTypes
<1>2. CASE CopyReread
  BY <1>2, FlowNow, ReadStartsTyped DEF CopyReread
<1>3. CASE CopyConsole
  <2>1. a' \in Activity /\ a'.bundle = a.bundle /\ a'.posts = a.posts
    BY <1>0, <1>3 DEF CopyConsole, Activity
  <2> QED
    BY <1>3, <2>1, FlowNow, FieldsKept DEF CopyConsole
<1>4. CASE CopyWarningM1
  <2>1. above # <<>> /\ "other" \in Tops /\ UNCHANGED <<act, cache, nscan, scans, strays, raced>>
    BY <1>4 DEF CopyWarningM1, OnTop, Tops
  <2>2. above' \in Seq(Tops) /\ (UNCHANGED <<a, reads>> \/ StartRead(a, "watch"))
    BY <1>4, <2>1, FlowNow, TopsIs DEF CopyWarningM1, Pop
  <2>3. CASE UNCHANGED <<a, reads>>
    BY <2>1, <2>2, <2>3, FlowNow, FlowKept
  <2>4. CASE StartRead(a, "watch")
    BY <2>1, <2>2, <2>4, FlowNow, ReadStartsTyped
  <2> QED
    BY <2>2, <2>3, <2>4
<1> QED
  BY <1>1, <1>2, <1>3, <1>4

LEMMA LeftTyped ==
  ASSUME LeftTypes, [Next]_flowVars
  PROVE  LeftTypes'
<1>1. left' = left \/ (\E job \in left : left' = left \ {job})
      \/ left' = left \cup {"read"} \/ left' = left \cup {"write"}
  BY DEF flowVars, rest, Next, Open, StrayScan, ConfirmWrite, WriteKey, WritePwr, WriteThread, WriteComplete,
     CloseOther, LeftEnds, ReadNext, ReadThreads, ReadScanFinish, ReadPosted, ReaderOfRead, OnReading,
     OnReadException, AfterException, Defer, Rescan, ReadLaunchWrite, ShowConsole,
     HideConsole, ReadLeave, Leave, ReadWarningM1, CopyNext, CopyThreads, CopyScanFinish,
     ProcessScanResult, OnComplete, CopyPosted, ReaderOfCopy, CopyReading, CopyReadException,
     PollOfCopy, PollEnds, PollWaits, PollGivesUp, CopyRescan, CopyReread, CopyLaunchWrite,
     CopyConsole, CopyLeave, CopyWarningM1
<1>2. crowded' = crowded \/ Begins
  BY DEF flowVars, rest, Next, Open, StrayScan, ConfirmWrite, WriteKey, WritePwr, WriteThread, WriteComplete,
     CloseOther, LeftEnds, ReadNext, ReadThreads, ReadScanFinish, ReadPosted, ReaderOfRead, OnReading,
     OnReadException, AfterException, Defer, Rescan, ReadLaunchWrite, ShowConsole,
     HideConsole, ReadLeave, Leave, ReadWarningM1, CopyNext, CopyThreads, CopyScanFinish,
     ProcessScanResult, OnComplete, CopyPosted, ReaderOfCopy, CopyReading, CopyReadException,
     PollOfCopy, PollEnds, PollWaits, PollGivesUp, CopyRescan, CopyReread, CopyLaunchWrite,
     CopyConsole, CopyLeave, CopyWarningM1, StartScan, StartRead
<1> QED
  BY <1>1, <1>2 DEF LeftTypes, Begins

\* Also after a race, the flow is in one of its states with buttons that exist, and its
\* reader, its bundle and the cache are of scans and readers that were started.
THEOREM TypeCorrect == Spec => []TypeOK
<1>1. FlowInit => FlowTypes
  <2> SUFFICES ASSUME FlowInit PROVE FlowTypes
    OBVIOUS
  <2>1. Blank \in Activity /\ Blank.bundle = 0 /\ Blank.posts = {} /\ Over \in Reader /\ Over.of = 0
    BY Bounds DEF Blank, Over, Activity, Reader, States, Buttons, Shown
  <2>2. reads \in [1..MaxReads -> Reader] /\ \A i \in 1..MaxReads : reads[i].of = 0
    BY <2>1 DEF FlowInit
  <2>3. nscan = 0 /\ cache = 0 /\ scans = {} /\ strays = {} /\ above = <<>> /\ a = Blank
        /\ act = "menu" /\ raced = FALSE
    BY DEF FlowInit
  <2> QED
    <3>1. nscan \in 0..MaxScans /\ cache \in 0..nscan
      BY <2>3, Bounds
    <3>2. above \in Seq(Tops)
      BY <2>3, EmptySeq
    <3>3. \A i \in 1..MaxReads : reads[i].of <= nscan
      BY <2>2, <2>3
    <3> QED
      <4>1. a \in Activity /\ a.bundle <= nscan /\ a.posts = {}
        BY <2>1, <2>3
      <4>2. act \in {"menu", "read", "copy"} /\ scans \subseteq 1..nscan /\ strays \subseteq 1..nscan
            /\ raced \in BOOLEAN
        BY <2>3
      <4> QED
        BY <2>2, <3>1, <3>2, <3>3, <4>1, <4>2 DEF FlowTypes
<1>2. FlowTypes /\ UNCHANGED flowVars => FlowTypes'
  BY DEF FlowTypes, flowVars
<1>3. FlowTypes /\ ReadNext => FlowTypes'
  BY ReadScanTyped, ReadPostedTyped, ReaderOfReadTyped, ReadKeysTyped, OutsideTyped DEF ReadNext, ReadThreads
<1>4. FlowTypes /\ CopyNext => FlowTypes'
  BY CopyScanTyped, ReaderOfCopyTyped, OnCompleteTyped, CopyKeysTyped, OutsideTyped DEF CopyNext, CopyThreads
<1>5. FlowTypes /\ [Next]_flowVars => FlowTypes'
  BY <1>2, <1>3, <1>4, OutsideTyped DEF Next
<1>6. FlowTypes /\ LeftTypes => TypeOK
  <2> SUFFICES ASSUME FlowTypes, LeftTypes PROVE TypeOK
    OBVIOUS
  <2>1. a \in Activity /\ a.bundle <= nscan /\ nscan \in 0..MaxScans
    BY DEF FlowTypes
  <2>2. a.state \in States /\ a.buttons \in Buttons /\ a.pending \in Shown /\ a.reader \in 0..MaxReads
        /\ a.bundle \in 0..MaxScans
    BY <2>1, Bounds DEF Activity
  <2> QED
    BY <2>2 DEF FlowTypes, LeftTypes, TypeOK, Tops, States
<1>7. FlowInit => LeftTypes
  BY DEF FlowInit, LeftTypes
<1>8. LeftTypes /\ [Next]_flowVars => LeftTypes'
  BY LeftTyped
<1> QED
  BY <1>1, <1>5, <1>6, <1>7, <1>8, PTL DEF Spec

-----------------------------------------------------------------------------
(* SimulationActivity: who sets it idle again.                             *)

SimLabels == {"unborn", "call", "task", "back", "back2", "ended"}

SimInv == pc \in [Threads -> SimLabels] /\ sims \in 0..MaxSims /\ BusyHasTask

\* Threads that have yet to set the activity idle.
SimPending == {s \in Sims : pc[s] \in {"call", "task", "back"}}

LEMMA BusyIs == BusyHasTask <=> (busy => SimPending # {})
BY DEF BusyHasTask, SimPending

\* A step that moves no pending thread past "back" and does not make the screen busy.
LEMMA SimKept ==
  ASSUME SimInv, pc' \in [Threads -> SimLabels], UNCHANGED sims, busy' => busy, SimPending \subseteq SimPending'
  PROVE  SimInv'
BY BusyIs DEF SimInv, BusyHasTask, SimPending

\* The screen is idle after the step.
LEMMA SimIdle ==
  ASSUME SimInv, pc' \in [Threads -> SimLabels], UNCHANGED sims, ~busy'
  PROVE  SimInv'
BY DEF SimInv, BusyHasTask

LEMMA SimPushed ==
  ASSUME NEW label \in [Threads -> SimLabels], PushTrace(label)
  PROVE  /\ pc' \in [Threads -> SimLabels]
         /\ \A t \in Threads : pc'[t] \in {label[t], "call"}
<1> DEFINE m == Min({f \in Fetches : pc[f] = "unborn"})
<1>1. pc' = [label EXCEPT ![m] = "call"]
  BY DEF PushTrace
<1> HIDE DEF m
<1> QED
  BY <1>1 DEF SimLabels

LEMMA SimMoved ==
  ASSUME SimInv, NEW t \in Threads, NEW l \in SimLabels, Goto(t, l), UNCHANGED <<sims, busy>>,
         t \in Sims => pc[t] \notin {"call", "task", "back"} \/ l \in {"call", "task", "back"}
  PROVE  SimInv'
<1>1. pc' \in [Threads -> SimLabels] /\ pc'[t] = l /\ \A u \in Threads : u # t => pc'[u] = pc[u]
  BY DEF Goto, SimInv
<1>2. SimPending \subseteq SimPending'
  BY <1>1 DEF SimPending, Threads
<1> QED
  BY <1>1, <1>2, SimKept

LEMMA SimKeyStep ==
  ASSUME SimInv, Select \/ StartSim \/ StopSim \/ StopSimReturns \/ Pwr \/ CloseTrace \/ Update
  PROVE  SimInv'
<1>1. CASE StartSim
  <2>1. sims + 1 \in Sims /\ sims + 1 \in Threads /\ sims' = sims + 1 /\ sims' \in 0..MaxSims
    BY <1>1, SimAssumption DEF StartSim, SimInv, Sims, Threads
  <2>2. pc' \in [Threads -> SimLabels] /\ pc'[sims + 1] = "call"
    BY <1>1, <2>1 DEF StartSim, Goto, SimInv, SimLabels
  <2> QED
    BY <2>1, <2>2 DEF SimInv, BusyHasTask
<1>2. CASE StopSim
  BY <1>2, SimIdle DEF StopSim, SimInv
<1>3. CASE StopSimReturns
  <2>1. CASE UNCHANGED pc
    BY <1>3, <2>1, SimKept DEF StopSimReturns, SimInv, SimPending
  <2>2. CASE PushTrace(pc)
    <3>1. pc' \in [Threads -> SimLabels] /\ \A t \in Threads : pc'[t] \in {pc[t], "call"}
      BY <2>2, SimPushed DEF SimInv
    <3>2. SimPending \subseteq SimPending'
      BY <3>1 DEF SimPending, Threads
    <3> QED
      BY <1>3, <3>1, <3>2, SimKept DEF StopSimReturns
  <2> QED
    BY <1>3, <2>1, <2>2 DEF StopSimReturns
<1>4. CASE Select \/ Pwr \/ CloseTrace \/ Update
  <2>1. UNCHANGED <<pc, busy, sims>>
    BY <1>4 DEF Select, Pwr, CloseTrace, Update, screen
  <2> QED
    BY <2>1, SimKept DEF SimInv, SimPending
<1> QED
  BY <1>1, <1>2, <1>3, <1>4

LEMMA SimThreadMoves ==
  ASSUME SimInv, NEW t \in Threads, ThreadStep(t)
  PROVE  SimInv'
<1>1. CASE Command(t)
  BY <1>1, SimMoved DEF Command, SimLabels, screen
<1>2. CASE TaskGoesOn(t)
  BY <1>2, SimKept DEF TaskGoesOn, screen, SimInv, SimPending
<1>3. CASE TaskReturns(t)
  BY <1>3, SimMoved DEF TaskReturns, SimLabels, screen
<1>4. CASE SimBack(t)
  <2>1. pc' \in [Threads -> SimLabels]
    BY <1>4 DEF SimBack, Goto, SimInv, SimLabels
  <2> QED
    BY <1>4, <2>1, SimIdle DEF SimBack
<1>5. CASE SimEnds(t)
  <2>1. pc[t] = "back2" /\ UNCHANGED <<sims, busy>>
    BY <1>5 DEF SimEnds
  <2>2. CASE Goto(t, "ended")
    BY <2>1, <2>2, SimMoved DEF SimLabels
  <2>3. CASE PushTrace([pc EXCEPT ![t] = "ended"])
    <3>1. [pc EXCEPT ![t] = "ended"] \in [Threads -> SimLabels]
      BY DEF SimInv, SimLabels
    <3>2. /\ pc' \in [Threads -> SimLabels]
          /\ \A u \in Threads : pc'[u] \in {[pc EXCEPT ![t] = "ended"][u], "call"}
      BY <2>3, <3>1, SimPushed
    <3>3. SimPending \subseteq SimPending'
      BY <2>1, <3>2 DEF SimPending, Threads, SimInv
    <3> QED
      BY <2>1, <3>2, <3>3, SimKept
  <2> QED
    BY <1>5, <2>2, <2>3 DEF SimEnds
<1>6. CASE FetchEnds(t)
  <2>1. t \notin Sims
    BY <1>6, SimAssumption DEF FetchEnds, Fetches, Sims
  <2> QED
    BY <1>6, <2>1, SimMoved DEF FetchEnds, SimLabels, screen
<1> QED
  BY <1>1, <1>2, <1>3, <1>4, <1>5, <1>6 DEF ThreadStep

\* SimulationActivity is busy only while a thread lives that will set it idle, for any
\* number of simulations, stops, failed commands and traces.
THEOREM BusyCorrect == SimSpec => []BusyHasTask
<1>1. SimInit => SimInv
  BY SimAssumption DEF SimInit, SimInv, BusyHasTask, SimLabels
<1>2. SimInv /\ [SimNext]_simVars => SimInv'
  <2>1. SimInv /\ UNCHANGED simVars => SimInv'
    BY DEF SimInv, BusyHasTask, simVars, screen
  <2> QED
    BY <2>1, SimKeyStep, SimThreadMoves DEF SimNext
<1>3. SimInv => BusyHasTask
  BY DEF SimInv
<1> QED
  BY <1>1, <1>2, <1>3, PTL DEF SimSpec

\* The trace on top is left, or what was fetched is shown in it.
LEMMA TracesTyped ==
  ASSUME NEW s \in Seq(BOOLEAN), s # <<>>
  PROVE  Front(s) \in Seq(BOOLEAN) /\ Append(Front(s), TRUE) \in Seq(BOOLEAN)
<1>1. Len(s) \in Nat /\ Len(s) # 0
  BY EmptySeq
<1>2. Front(s) \in Seq(BOOLEAN)
  BY <1>1, SubSeqProperties DEF Front
<1> QED
  BY <1>2

SimTypes == SimTypeOK /\ SimInv

\* A trace is put on top, for whichever thread.
LEMMA SimPushTyped ==
  ASSUME SimTypes, NEW label, PushTrace(label)
  PROVE  traces' \in Seq(BOOLEAN) /\ toast' \in {"none", "simulating", "processing"}
<1>1. traces \in Seq(BOOLEAN) /\ traces' = Append(traces, FALSE) /\ toast' = "none"
  BY DEF PushTrace, SimTypes, SimTypeOK
<1> QED
  BY <1>1

LEMMA SimKeyTyped ==
  ASSUME SimTypes, Select \/ StartSim \/ StopSim \/ StopSimReturns \/ Pwr \/ CloseTrace \/ Update
  PROVE  SimTypeOK'
<1>0. SimInv'
  BY SimKeyStep DEF SimTypes
<1>1. pc' \in [Threads -> SimLabels] /\ sims' \in 0..MaxSims
  BY <1>0 DEF SimInv
<1>2. CASE Select
  BY <1>1, <1>2 DEF Select, service, SimTypes, SimTypeOK, SimLabels
<1>3. CASE StartSim
  <2>1. sims + 1 \in Sims
    BY <1>3, SimAssumption DEF StartSim, SimTypes, SimTypeOK, Sims
  <2>2. endless' \subseteq Sims
    BY <1>3, <2>1 DEF StartSim, SimTypes, SimTypeOK
  <2> QED
    BY <1>1, <1>3, <2>2 DEF StartSim, service, SimTypes, SimTypeOK, SimLabels
<1>4. CASE StopSim
  BY <1>1, <1>4 DEF StopSim, T!Stop, SimTypes, SimTypeOK, SimLabels
<1>5. CASE StopSimReturns
  <2>1. traces' \in Seq(BOOLEAN) /\ toast' \in {"none", "simulating", "processing"}
    BY <1>5, SimPushTyped DEF StopSimReturns, SimTypes, SimTypeOK
  <2>2. stopping' \in BOOLEAN /\ stopper' \in {"idle", "wait"} /\ UNCHANGED <<running, task>>
    BY <1>5 DEF StopSimReturns, T!StopReturns
  <2> QED
    BY <1>1, <1>5, <2>1, <2>2 DEF StopSimReturns, SimTypes, SimTypeOK, SimLabels
<1>6. CASE Pwr
  BY <1>1, <1>6 DEF Pwr, service, SimTypes, SimTypeOK, SimLabels
<1>7. CASE CloseTrace
  <2>1. traces' \in Seq(BOOLEAN)
    BY <1>7, TracesTyped DEF CloseTrace, SimTypes, SimTypeOK
  <2> QED
    BY <1>1, <1>7, <2>1 DEF CloseTrace, service, screen, SimTypes, SimTypeOK, SimLabels
<1>8. CASE Update
  <2>1. traces' \in Seq(BOOLEAN) /\ posted' \in Nat
    <3>1. /\ traces \in Seq(BOOLEAN) /\ posted \in Nat /\ posted > 0 /\ posted' = posted - 1
          /\ traces' = IF traces = <<>> THEN traces ELSE Append(Front(traces), TRUE)
      BY <1>8 DEF Update, SimTypes, SimTypeOK
    <3>2. traces' \in Seq(BOOLEAN)
      BY <3>1, TracesTyped
    <3>3. posted' \in Nat
      BY <3>1
    <3> QED
      BY <3>2, <3>3
  <2> QED
    BY <1>1, <1>8, <2>1 DEF Update, service, screen, SimTypes, SimTypeOK, SimLabels
<1> QED
  BY <1>2, <1>3, <1>4, <1>5, <1>6, <1>7, <1>8

LEMMA SimTaskTyped ==
  ASSUME SimTypes, NEW t \in Threads, Command(t) \/ TaskGoesOn(t) \/ TaskReturns(t)
  PROVE  SimTypeOK'
<1>0. pc' \in [Threads -> SimLabels] /\ sims' \in 0..MaxSims
  BY SimThreadMoves DEF SimTypes, SimInv, ThreadStep
<1>1. PICK b \in {"idle", "called", "ready", "running", "done", "failed"} : task' = [task EXCEPT ![t] = b]
  BY DEF Command, TaskGoesOn, TaskReturns, T!Call, T!Enter, T!Begin, T!Succeed, T!Fail, T!Return, T!Refuse,
         T!Becomes
<1>2. running' \in BOOLEAN /\ UNCHANGED <<stopping, stopper>>
  BY DEF Command, TaskGoesOn, TaskReturns, T!Call, T!Enter, T!Begin, T!Succeed, T!Fail, T!Return, T!Refuse,
         SimTypes, SimTypeOK
<1>3. task' \in [Threads -> T!TaskStates]
  BY <1>1 DEF SimTypes, SimTypeOK, T!TaskStates
<1>4. UNCHANGED <<screen, traces, endless, sims, posted>>
  BY DEF Command, TaskGoesOn, TaskReturns
<1> QED
  BY <1>0, <1>2, <1>3, <1>4 DEF screen, SimTypes, SimTypeOK, SimLabels

LEMMA SimBackTyped ==
  ASSUME SimTypes, NEW t \in Threads, SimBack(t) \/ SimEnds(t) \/ FetchEnds(t)
  PROVE  SimTypeOK'
<1>0. pc' \in [Threads -> SimLabels] /\ sims' \in 0..MaxSims
  BY SimThreadMoves DEF SimTypes, SimInv, ThreadStep
<1>1. CASE SimBack(t)
  BY <1>0, <1>1 DEF SimBack, service, SimTypes, SimTypeOK, SimLabels
<1>2. CASE SimEnds(t)
  <2>1. traces' \in Seq(BOOLEAN) /\ toast' \in {"none", "simulating", "processing"}
    BY <1>2, SimPushTyped DEF SimEnds, SimTypes, SimTypeOK
  <2>2. state' \in {"list", "sim_ui", "simulating"} /\ endless' \subseteq Sims
    BY <1>2 DEF SimEnds, SimTypes, SimTypeOK
  <2> QED
    BY <1>0, <1>2, <2>1, <2>2 DEF SimEnds, service, SimTypes, SimTypeOK, SimLabels
<1>3. CASE FetchEnds(t)
  BY <1>0, <1>3 DEF FetchEnds, service, screen, SimTypes, SimTypeOK, SimLabels
<1> QED
  BY <1>1, <1>2, <1>3

\* The variables of the simulation and of the calls it makes stay in their ranges,
\* whatever was pushed, fetched and posted in which order.
THEOREM SimTypeCorrect == SimSpec => []SimTypeOK
<1>1. SimInit => SimTypes
  <2> SUFFICES ASSUME SimInit PROVE SimTypes
    OBVIOUS
  <2>1. SimInv
    BY SimAssumption DEF SimInit, SimInv, BusyHasTask, SimLabels
  <2>2. traces \in Seq(BOOLEAN)
    BY DEF SimInit
  <2> QED
    BY <2>1, <2>2 DEF SimInit, T!ServiceInit, T!TaskStates, SimTypes, SimTypeOK, SimInv, SimLabels
<1>2. SimTypes /\ [SimNext]_simVars => SimTypes'
  <2>1. SimTypes /\ UNCHANGED simVars => SimTypes'
    BY DEF SimTypes, SimTypeOK, SimInv, BusyHasTask, simVars, screen, service
  <2>2. SimTypes /\ SimNext => SimTypeOK'
    BY SimKeyTyped, SimTaskTyped, SimBackTyped DEF SimNext, ThreadStep
  <2>3. SimTypes /\ SimNext => SimInv'
    BY SimKeyStep, SimThreadMoves DEF SimNext, SimTypes
  <2> QED
    BY <2>1, <2>2, <2>3 DEF SimTypes
<1>3. SimTypes => SimTypeOK
  BY DEF SimTypes
<1> QED
  BY <1>1, <1>2, <1>3, PTL DEF SimSpec
=============================================================================
