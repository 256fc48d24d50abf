------------------------------ MODULE CopyFlow ------------------------------
(***************************************************************************)
(* Auto Copy: AutoCopyActivity of lib/activity_main.py.  A scan that finds *)
(* a tag goes on to read it; the result of the read is posted to the Tk    *)
(* event loop, and a polling thread stands in for a reader that ends       *)
(* without one.  "buttons" is drawn and enabled (_btn_enabled) together.   *)
(***************************************************************************)
EXTENDS TagFlow

ScanFailed(b) == [b EXCEPT !.state = "scan_failed", !.buttons = "rescan"]
ReadFailed(b) == [b EXCEPT !.state = "failed", !.buttons = "failed"]
SwapCard(b)   == [b EXCEPT !.state = "success", !.buttons = "write"]    \* PLACE_CARD

-----------------------------------------------------------------------------
(* The scan. *)

\* onScanFinish: the result is kept and handled when the bar is full.
CopyScanFinish ==
  /\ act = "copy"
  /\ \E k \in scans, found \in BOOLEAN :
       /\ ScanEnds(k, found)
       /\ a' = [a EXCEPT !.result = IF found THEN k ELSE 0,
                         !.posts = @ \union {Call("scanned")}]
  /\ UNCHANGED <<act, above, nscan, strays, reads, w, raced, rest>>

\* _processScanResult, on the Tk thread.
ProcessScanResult ==
  /\ act = "copy" /\ Call("scanned") \in a.posts
  /\ LET b == [a EXCEPT !.posts = @ \ {Call("scanned")}, !.result = 0] IN
       IF a.result # 0 THEN StartRead([b EXCEPT !.found = TRUE], "watch")
                       ELSE a' = ScanFailed(b) /\ UNCHANGED <<reads, crowded>>
  /\ UNCHANGED <<act, above, cache, nscan, scans, strays, w, raced, left, visits>>

-----------------------------------------------------------------------------
(* The read. *)

\* onReading on the Reader's thread: the result is posted; after an exception
\* it is callReadFailed's -1.
CopyReading(i) ==
  /\ reads[i].st \in {"run", "raised"}
  /\ \E result \in IF reads[i].st = "raised" THEN {"unread"}
                   ELSE {"ok", "missing", "failed", "unread"} :
       a' = [a EXCEPT !.posts = @ \union {Post("complete", i, result)}]
  /\ reads' = [reads EXCEPT ![i].st = "over"]
  /\ UNCHANGED <<act, above, cache, nscan, scans, strays, w, raced, rest>>

\* The bar is hidden, so that the failure is drawn at once.
CopyReadException(i) ==
  /\ reads[i].st = "run"
  /\ a' = ReadFailed([a EXCEPT !.reader = 0])
  /\ reads' = [reads EXCEPT ![i].st = "raised"]
  /\ UNCHANGED <<act, above, cache, nscan, scans, strays, w, raced, rest>>

\* _on_complete, on the Tk thread.  A file name may be empty; -1 is a wrong type
\* when the scan gave no uid.
OnComplete ==
  /\ act = "copy"
  /\ \E p \in {q \in a.posts : q.what = "complete"} :
       LET b == [a EXCEPT !.posts = @ \ {p}, !.reader = 0] IN
       /\ raced' = (raced \/ Overtaken(p.id))
       /\ reads' = [reads EXCEPT ![p.id].of = 0]
       /\ CASE p.result = "ok" ->
                 /\ \E bundle \in {0, reads[p.id].of} : a' = SwapCard([b EXCEPT !.bundle = bundle])
                 /\ UNCHANGED above
            [] p.result = "missing" ->
                 a' = [b EXCEPT !.state = "no_key"] /\ above' = Append(above, "m1")
            [] p.result = "failed" -> a' = ReadFailed(b) /\ UNCHANGED above
            [] p.result = "unread" ->
                 /\ \/ a' = ReadFailed(b)
                    \/ a' = [b EXCEPT !.state = "wrong_type", !.buttons = "rescan"]
                 /\ UNCHANGED above
  /\ UNCHANGED <<act, cache, nscan, scans, strays, w, rest>>

\* _wait_for_completion looks at the activity's state and reader, which may be
\* those of a later read by now.
PollEnds(i) ==
  /\ reads[i].poll # "off"
  /\ a.state # "reading" \/ (reads[i].poll = "watch" /\ a.reader = 0)
  /\ reads' = [reads EXCEPT ![i].poll = "off"]
  /\ UNCHANGED <<act, above, a, cache, nscan, scans, strays, w, raced, rest>>

PollWaits(i) ==
  /\ reads[i].poll = "watch" /\ a.state = "reading"
  /\ a.reader # 0 /\ reads[a.reader].st = "over"
  /\ reads' = [reads EXCEPT ![i].poll = "wait"]
  /\ UNCHANGED <<act, above, a, cache, nscan, scans, strays, w, raced, rest>>

\* Twenty looks in ten seconds saw "reading" (a reread within half a second of
\* the result is not noticed).  The event loop handles a result before that.
PollGivesUp(i) ==
  /\ reads[i].poll = "wait" /\ a.state = "reading"
  /\ \A p \in a.posts : p.what # "complete"
  /\ a' \in {[a EXCEPT !.reader = 0, !.state = kind, !.posts = @ \union {Call(kind)}] :
               kind \in {"success", "failed"}}
  /\ reads' = [reads EXCEPT ![i].poll = "off"]
  /\ raced' = TRUE
  /\ UNCHANGED <<act, above, cache, nscan, scans, strays, w, rest>>

\* _doPromptSwapCard, or the callback of _showReadFailed, once the bar is full.
CopyPosted ==
  /\ act = "copy"
  /\ \E kind \in {"success", "failed"} :
       /\ Call(kind) \in a.posts
       /\ a' = [a EXCEPT !.posts = @ \ {Call(kind)},
                         !.buttons = IF kind = "success" THEN "write" ELSE "failed"]
  /\ UNCHANGED <<act, above, cache, nscan, scans, strays, reads, w, raced, rest>>

ReaderOfCopy(i) ==
  /\ act = "copy"
  /\ CopyReading(i) \/ CopyReadException(i)
PollOfCopy(i) ==
  /\ act = "copy"
  /\ PollEnds(i) \/ PollWaits(i) \/ PollGivesUp(i)

-----------------------------------------------------------------------------
(* Keys. *)

Enabled_Always(b) == TRUE                  \* mutant: keys work while it scans
Enabled(b) == b.buttons # "none"
CopyKeys == KeysOf("copy") /\ ~a.console /\ Enabled(a)

\* Bound: Auto Copy is followed to rest after a race, and asked for no more.
Calm == ~raced

\* Without a tag M1, M2 and OK rescan; with one it depends on the state, and the
\* state of a wrong type has no key at all.
CopyRescan ==
  /\ CopyKeys /\ Calm
  /\ a.found => a.state \in {"failed", "no_key"}
  /\ StartScan(a)
  /\ UNCHANGED <<act, above, cache, strays, reads, w, raced, left, visits>>

CopyReread ==
  /\ CopyKeys /\ Calm /\ a.found /\ a.state \in {"success", "failed"}
  /\ StartRead(a, "watch")
  /\ UNCHANGED <<act, above, cache, nscan, scans, strays, w, raced, left, visits>>

CopyLaunchWrite ==
  /\ CopyKeys /\ a.found /\ a.state = "success"
  /\ LaunchWrite
  /\ UNCHANGED <<act, a, cache, nscan, scans, strays, reads, raced, rest>>

\* RIGHT while reading, and PWR: here nothing is put aside.
CopyConsole ==
  /\ KeysOf("copy") /\ (a.console \/ a.state = "reading")
  /\ a' = [a EXCEPT !.console = ~@]
  /\ UNCHANGED <<act, above, cache, nscan, scans, strays, reads, w, raced, rest>>

CopyLeave == KeysOf("copy") /\ ~a.console /\ Leave

\* onActivity knows "force" and "sniff".
CopyWarningM1 ==
  /\ act = "copy" /\ OnTop("m1")
  /\ \/ Pop /\ UNCHANGED <<a, reads, crowded>>
     \/ Len(above) = 1 /\ Calm /\ Pop /\ StartRead(a, "watch")
     \/ Len(above) = 1 /\ above' = <<"other">> /\ UNCHANGED <<a, reads, crowded>>
  /\ UNCHANGED <<act, cache, nscan, scans, strays, w, raced, left, visits>>

CopyThreads ==
  \/ CopyScanFinish \/ ProcessScanResult \/ OnComplete \/ CopyPosted
  \/ \E i \in 1..MaxReads : ReaderOfCopy(i) \/ PollOfCopy(i)
CopyNext ==
  \/ CopyThreads \/ CopyRescan \/ CopyReread \/ CopyLaunchWrite \/ CopyConsole \/ CopyLeave
  \/ CopyWarningM1
=============================================================================
