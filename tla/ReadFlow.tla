------------------------------ MODULE ReadFlow ------------------------------
(***************************************************************************)
(* Read Tag: ReadActivity of lib/activity_read.py.  A scan that finds a    *)
(* tag goes on to read it; a result that comes while the console covers    *)
(* the screen is put aside until the console is closed.                    *)
(***************************************************************************)
EXTENDS TagFlow

\* The screen of a result: _showReadSuccess and _showReadFailed let the progress
\* bar run to its end (canvas.after) when it shows; _showNoTag draws at once.
Screen(kind) == CASE kind = "success" -> "write"
                  [] kind = "failed" -> "failed"
                  [] kind = "no_tag" -> "rescan"
Drawn(b, kind) == [b EXCEPT !.buttons = Screen(kind), !.bar = FALSE]
Show(b, kind) ==
  LET c == [b EXCEPT !.state = kind] IN
  IF kind # "no_tag" /\ b.bar THEN [c EXCEPT !.posts = @ \union {Call(kind)}]
                              ELSE Drawn(c, kind)

-----------------------------------------------------------------------------
(* The scan. *)

\* onScanFinish: found and failed scans complete the bar first, a result that
\* says "not found" is shown at once.
ReadScanFinish ==
  /\ act = "read"
  /\ \E k \in scans :
       \/ ScanEnds(k, TRUE) /\ a' = [a EXCEPT !.posts = @ \union {Call("scanned")}]
       \/ ScanEnds(k, FALSE) /\ a' = [a EXCEPT !.posts = @ \union {Call("nothing")}]
       \/ ScanEnds(k, FALSE) /\ a' = Show(a, "no_tag")
  /\ UNCHANGED <<act, above, nscan, strays, reads, w, raced, rest>>

\* The _after_complete callbacks.
ReadPosted ==
  /\ act = "read"
  /\ \E p \in a.posts :
       LET b == [a EXCEPT !.posts = @ \ {p}] IN
       \/ p.what = "scanned" /\ StartRead(b, "off")
       \/ p.what = "nothing" /\ a' = Show(b, "no_tag") /\ UNCHANGED <<reads, crowded>>
       \/ p.what \in {"success", "failed"} /\ a' = Drawn(b, p.what) /\ UNCHANGED <<reads, crowded>>
  /\ UNCHANGED <<act, above, cache, nscan, scans, strays, w, raced, left, visits>>

-----------------------------------------------------------------------------
(* The read, on the Reader's thread. *)

\* _showReadSuccess, _showReadFailed or _showNoTag: the state is set, then the
\* console is looked at.
ReadResult(i, kind, bundle, st) ==
  LET b == [a EXCEPT !.reader = 0, !.bundle = bundle] IN
  /\ a' = IF a.console THEN [b EXCEPT !.state = kind] ELSE Show(b, kind)
  /\ reads' = [reads EXCEPT ![i].st = st, ![i].of = IF st = "over" THEN 0 ELSE @,
                            ![i].defer = IF a.console THEN kind ELSE "none"]
  /\ raced' = \/ raced
              \/ Overtaken(i)
              \/ Call("failed") \in a.posts /\ (kind = "no_tag" \/ ~a.bar)

\* onReading with the result.  A file name may be empty; whether -1 is a failed
\* read or a wrong type is told by the uid of the scan.
OnReading(i) ==
  /\ reads[i].st = "run" /\ reads[i].defer = "none"
  /\ \/ /\ \E bundle \in {0, reads[i].of} : ReadResult(i, "success", bundle, "over")
        /\ UNCHANGED above
     \/ /\ \E kind \in {"failed", "no_tag"} : ReadResult(i, kind, a.bundle, "over")
        /\ UNCHANGED above
     \/ /\ a' = [a EXCEPT !.reader = 0, !.state = "no_key", !.bar = FALSE]       \* -3, -4
        /\ above' = Append(above, "m1")
        /\ reads' = [reads EXCEPT ![i].st = "over", ![i].of = 0]
        /\ raced' = (raced \/ Overtaken(i))
  /\ UNCHANGED <<act, cache, nscan, scans, strays, w, rest>>

\* The reader raised: call_exception shows one result, depending on whether any
\* progress was ever reported, and callReadFailed(-1) then another.
OnReadException_Silent(i) ==                     \* mutant: the exception is dropped
  /\ reads[i].st = "run"
  /\ reads' = [reads EXCEPT ![i].st = "over"]
  /\ UNCHANGED <<act, above, a, cache, nscan, scans, strays, w, raced, rest>>
OnReadException(i) ==
  /\ reads[i].st = "run" /\ reads[i].defer = "none"
  /\ \E kind \in {"failed", "no_tag"} : ReadResult(i, kind, a.bundle, "raised")
  /\ UNCHANGED <<act, above, cache, nscan, scans, strays, w, rest>>

AfterException(i) ==
  /\ reads[i].st = "raised" /\ reads[i].defer = "none"
  /\ \E kind \in {"failed", "no_tag"} : ReadResult(i, kind, a.bundle, "over")
  /\ UNCHANGED <<act, above, cache, nscan, scans, strays, w, rest>>

\* _pending_result is set, the console seen open before.
Defer(i) ==
  /\ reads[i].defer # "none"
  /\ a' = [a EXCEPT !.pending = reads[i].defer]
  /\ reads' = [reads EXCEPT ![i].defer = "none"]
  /\ UNCHANGED <<act, above, cache, nscan, scans, strays, w, raced, rest>>

ReaderOfRead(i) ==
  /\ act = "read"
  /\ OnReading(i) \/ OnReadException(i) \/ AfterException(i) \/ Defer(i)

-----------------------------------------------------------------------------
(* Keys. *)

\* _reread and the rescan of no_tag.  A hidden or dimmed button takes no key.
Rescan ==
  /\ KeysOf("read") /\ ~a.console
  /\ \/ a.state \in {"success", "failed"} /\ a.buttons \in {"write", "failed"}
     \/ a.state = "no_tag" /\ a.buttons \in {"rescan", "write"}
  /\ StartScan(a)
  /\ UNCHANGED <<act, above, cache, strays, reads, w, raced, left, visits>>

\* M2 or OK, in read_success and read_partial only.
WriteOf_AnyResult(b) == b.state \in {"success", "failed"}      \* mutant
WriteOf(b) == b.state = "success"
ReadLaunchWrite ==
  /\ KeysOf("read") /\ ~a.console /\ WriteOf(a)
  /\ LaunchWrite
  /\ UNCHANGED <<act, a, cache, nscan, scans, strays, reads, raced, rest>>

ShowConsole ==
  /\ KeysOf("read") /\ ~a.console /\ a.state \in {"reading", "success", "failed"}
  /\ a' = [a EXCEPT !.console = TRUE, !.bar = FALSE]
  /\ UNCHANGED <<act, above, cache, nscan, scans, strays, reads, w, raced, rest>>

\* PWR, the only key the console does not keep: what was put aside is shown.
Undefer_Forgets(b) == [b EXCEPT !.pending = "none", !.bar = b.state = "reading"]  \* mutant
Undefer(b) ==
  IF b.pending = "none" THEN [b EXCEPT !.bar = b.state = "reading"]
                        ELSE Show([b EXCEPT !.pending = "none"], b.pending)
HideConsole ==
  /\ KeysOf("read") /\ a.console
  /\ a' = Undefer([a EXCEPT !.console = FALSE])
  /\ raced' = (raced \/ \E i \in 1..MaxReads : reads[i].defer # "none")
  /\ UNCHANGED <<act, above, cache, nscan, scans, strays, reads, w, rest>>

ReadLeave == KeysOf("read") /\ ~a.console /\ Leave

\* onResume: a warning that came without a result means the read failed.
Resume(b) == IF b.state = "reading"
             THEN Show([b EXCEPT !.reader = 0], "failed") ELSE b

\* WarningM1Activity finishes with one of its four options or none, and
\* onActivity takes it up.
ReadWarningM1 ==
  /\ act = "read" /\ OnTop("m1")
  /\ \/ Pop /\ a' = (IF Len(above) = 1 THEN Resume(a) ELSE a) /\ UNCHANGED <<reads, crowded>>
     \/ Len(above) = 1 /\ Pop /\ StartRead(Resume(a), "off")
     \/ Len(above) = 1 /\ above' = <<"other">> /\ a' = Resume(a) /\ UNCHANGED <<reads, crowded>>
  /\ UNCHANGED <<act, cache, nscan, scans, strays, w, raced, left, visits>>

ReadThreads == ReadScanFinish \/ ReadPosted \/ \E i \in 1..MaxReads : ReaderOfRead(i)
ReadNext ==
  \/ ReadThreads \/ Rescan \/ ReadLaunchWrite \/ ShowConsole \/ HideConsole \/ ReadLeave
  \/ ReadWarningM1
=============================================================================
