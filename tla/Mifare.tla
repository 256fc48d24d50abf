------------------------------- MODULE Mifare -------------------------------
(***************************************************************************)
(* Reading, writing, verifying and erasing MIFARE Classic cards: _read_mfc *)
(* of read.py, hfmfread, hfmfkeys, hfmfwrite and erase.py, one command of  *)
(* the Proxmark3 a step.  A sector is one data block and a trailer with    *)
(* its keys; block 0 stands by itself (Uid).  "dict" is the dictionary's   *)
(* EMPTY_KEY, "zero" the key of zeros, which is in the dictionary too and  *)
(* which a read shows for a key it may not show; a card's own keys and     *)
(* data are named after it.  Cards are laid on the reader and taken away   *)
(* at any time, and any command may fail.                                  *)
(***************************************************************************)
EXTENDS Naturals

CONSTANTS Cards,
          N,            \* sectors of a card
          MaxJobs,      \* reads, writes, verifications and erasures
          MaxFaults     \* commands that fail or are late, cards taken from a job
ASSUME CardsAssumption == {"none", "blank", "zero", "dict"} \intersect Cards = {}
ASSUME BoundsAssumption == N \in Nat \ {0} /\ MaxJobs \in Nat /\ MaxFaults \in Nat

VARIABLES
  card, on,         \* the cards; the one on the reader, or "none"
  infos,            \* the scan cache, or the reader has not been asked
  keys,             \* hfmfkeys.KEYS_MAP; the tables of an erasure
  dump,             \* the file read last
  job, pc, s,       \* the job, its next command, the sector it is at
  info,             \* an erasure's info_cache: the uid it found first
  failed, result,   \* a block was not written; what was reported last
  stray,            \* a late "Write ( ok )" is on its way to the next command
  target, open,     \* history: the card the job began with, and whether all its blocks
                    \* can be written with keys of the dictionary
  spoilt, swapped, misled, cancelled, \* history of the job: a fault, the card changed, a
                    \* stray answer believed, an erasure left with PWR
  jobs, faults
cards == <<card, on>>
host == <<infos, keys, dump>>
progress == <<job, pc, s, info, failed, result>>
history == <<target, open, swapped, misled, cancelled>>
vars == <<cards, host, progress, stray, history, spoilt, jobs, faults>>

Sectors == 0..(N - 1)
Slots == Sectors \X {"A", "B"}
Dictionary == {"dict", "zero"}
Data == Cards \union {"blank"}
Keys == Cards \union Dictionary
Memory == [uid : Cards \union {"none", "zero"}, data : [Sectors -> Data], key : [Slots -> Keys]]
NoKeys == [k \in Slots |-> "none"]
NoInfos == [uid |-> "none", gen1a |-> FALSE]
\* What the writer takes for a file that is not there; block 0 is then made of infos.
Blank(uid) == [uid |-> uid, data |-> [i \in Sectors |-> "blank"], key |-> [k \in Slots |-> "dict"]]

Kinds == {"gen1a", "gen2", "std"}   \* with the backdoor; block 0 can be written; cannot
Commands ==
  {"idle", "r-probe", "csave", "r-fchk", "fchk1", "darkside", "fchk2", "nested", "fchk3", "sector",
   "save", "present", "w-probe", "cload", "w-fchk", "data", "uid", "trailer", "verify",
   "detect", "e-probe", "cwipe", "e-fchk"}

TypeOK ==
  /\ card \in [Cards -> [kind : Kinds, mem : Memory]] /\ on \in Cards \union {"none"}
  /\ infos \in [uid : Cards \union {"none", "zero"}, gen1a : BOOLEAN]
  /\ keys \in [Slots -> Keys \union {"none"}]
  /\ dump \in [st : {"none", "missing", "file"}, mem : Memory]
  /\ job \in {"none", "read", "write", "verify", "erase"} /\ pc \in Commands /\ s \in Sectors
  /\ info \in Cards \union {"none", "zero"}
  /\ result \in {"none", "ok", "fail"} /\ target \in Cards \union {"none"}
  /\ {failed, stray, open, spoilt, swapped, misled, cancelled} \subseteq BOOLEAN
  /\ jobs \in 0..MaxJobs /\ faults \in 0..MaxFaults

\* The keys that are not the dictionary's: A, or A and B, of some sectors; a bound: the
\* same ones on every card that has any.
OwnKeys == UNION {[Cards -> {{}, S \X T}] : S \in SUBSET Sectors, T \in {{"A"}, {"A", "B"}}}
Init ==
  /\ \E kind \in [Cards -> Kinds], own \in OwnKeys :
       card = [c \in Cards |->
                 [kind |-> kind[c],
                  mem |-> [uid |-> c, data |-> [i \in Sectors |-> c],
                           key |-> [k \in Slots |-> IF k \in own[c] THEN c ELSE "dict"]]]]
  /\ on = "none" /\ infos = NoInfos /\ keys = NoKeys
  /\ dump = [st |-> "none", mem |-> Blank("zero")]
  /\ job = "none" /\ pc = "idle" /\ s = 0 /\ info = "zero" /\ failed = FALSE /\ result = "none" /\ stray = FALSE
  /\ target = "none" /\ open = FALSE /\ spoilt = FALSE /\ swapped = FALSE /\ misled = FALSE
  /\ cancelled = FALSE /\ jobs = 0 /\ faults = 0
--------------------------------------------------------------------------
Present == on # "none"
Mem == card[on].mem
Magic == Present /\ card[on].kind = "gen1a"
Put(mem) == card' = [card EXCEPT ![on].mem = mem]
Fault == faults < MaxFaults /\ faults' = faults + 1 /\ spoilt' = TRUE
Calm == UNCHANGED <<faults, spoilt>>
\* A command that could succeed fails by a fault, another one by itself.
Fails(can) == IF can THEN Fault ELSE Calm

End(r) == pc' = "idle" /\ result' = r
Goto(c) == pc' = c /\ UNCHANGED result
Runs(c) == pc = c /\ UNCHANGED <<on, job, jobs, target, open, swapped, cancelled>>
At(c) == Runs(c) /\ UNCHANGED info
Reads == UNCHANGED <<card, stray, misled>>
Kept == UNCHANGED <<infos, dump>>

\* Laid on the reader and taken away.
Swap == /\ on' \in (Cards \union {"none"}) \ {on}
        /\ IF pc = "idle" THEN Calm /\ UNCHANGED swapped ELSE Fault /\ swapped' = TRUE
        /\ UNCHANGED <<card, host, progress, stray, target, open, misled, cancelled, jobs>>
\* A scan begins a new flow; its probe of the backdoor may fail.  The locals of the job
\* before are gone, KEYS_MAP is not.
Scan == /\ pc = "idle" /\ Present
        /\ \E seen \in {Magic, FALSE} : infos' = [uid |-> Mem.uid, gen1a |-> seen]
        /\ dump' = [st |-> "none", mem |-> Blank("zero")] /\ job' = "none" /\ result' = "none"
        /\ s' = 0 /\ info' = "zero" /\ target' = "none"
        /\ failed' = FALSE /\ stray' = FALSE /\ open' = FALSE
        /\ spoilt' = FALSE /\ swapped' = FALSE /\ misled' = FALSE /\ cancelled' = FALSE
        /\ UNCHANGED <<cards, keys, pc, jobs, faults>>
Start(j) == /\ pc = "idle" /\ jobs < MaxJobs /\ jobs' = jobs + 1
            /\ job' = j /\ result' = "none" /\ stray' = FALSE
            /\ target' = on
            /\ open' = (Present /\ card[on].kind = "gen2"
                          /\ \A i \in Sectors : \E t \in {"A", "B"} : Mem.key[<<i, t>>] \in Dictionary)
            /\ spoilt' = FALSE /\ swapped' = FALSE /\ misled' = FALSE /\ cancelled' = FALSE
            /\ UNCHANGED <<cards, info, faults>>
--------------------------------------------------------------------------
\* _read_mfc.  "failed" says that nothing has been read so far.
ReadStart_KeepsKeys ==
  /\ Start("read") /\ infos # NoInfos /\ UNCHANGED keys /\ s' = 0 /\ failed' = TRUE
  /\ dump' = [st |-> "none", mem |-> Blank("zero")]
  /\ pc' = (IF infos.gen1a THEN "csave" ELSE "r-probe") /\ UNCHANGED infos
ReadStart ==
  /\ Start("read") /\ infos # NoInfos /\ keys' = NoKeys /\ s' = 0 /\ failed' = TRUE
  /\ dump' = [st |-> "none", mem |-> Blank("zero")]
  /\ pc' = (IF infos.gen1a THEN "csave" ELSE "r-probe") /\ UNCHANGED infos
ReadProbe ==
  /\ At("r-probe") /\ Reads /\ UNCHANGED <<keys, dump, s, failed>>
  /\ \/ Magic /\ Calm /\ infos' = [infos EXCEPT !.gen1a = TRUE] /\ Goto("csave")
     \/ Fails(Magic) /\ UNCHANGED infos /\ Goto("r-fchk")
\* The name of the file is returned whether csave wrote it or not.
Csave ==
  /\ At("csave") /\ Reads /\ UNCHANGED <<infos, keys, s, failed>> /\ End("ok")
  /\ \/ Magic /\ Calm /\ dump' = [st |-> "file", mem |-> Mem]
     \/ Fails(Magic) /\ dump' = [st |-> "missing", mem |-> Blank(infos.uid)]

\* fchks finds the keys of the dictionary, what is recovered is the card's.
Found == {k \in Slots : Present /\ Mem.key[k] \in Dictionary}
With(known, S) == [k \in Slots |-> IF k \in S THEN Mem.key[k] ELSE known[k]]
All == \A k \in Slots : keys'[k] # "none"
Recovery(c) == At(c) /\ Reads /\ Kept /\ UNCHANGED <<s, failed>>
Fchk == (keys' = With(keys, Found) /\ Calm) \/ (UNCHANGED keys /\ Fault)
Further(next) == Goto(IF All THEN "sector" ELSE next)
FirstFchk ==
  /\ Recovery("r-fchk")
  /\ \/ keys' = With(keys, Found) /\ Calm /\ Further("fchk1")
     \/ Fault /\ End("fail") /\ UNCHANGED keys
Fchk1 == Recovery("fchk1") /\ Fchk /\ Further("darkside")
Darkside == /\ Recovery("darkside") /\ Calm
            /\ \E S \in SUBSET {<<0, "A">>} : (S # {} => Present) /\ keys' = With(keys, S)
            /\ Further("fchk2")
Fchk2 == Recovery("fchk2") /\ Fchk /\ Further("nested")
\* From the first key known to the missing ones, as many as it finds.
Nested == /\ Recovery("nested") /\ Calm
          /\ \E S \in SUBSET {k \in Slots : keys[k] = "none"} :
               /\ S # {} => Present /\ \E k \in Slots : keys[k] # "none"
               /\ keys' = With(keys, S)
          /\ Further("fchk3")
Fchk3 == /\ Recovery("fchk3") /\ Fchk
         /\ IF \E k \in Slots : keys'[k] # "none" THEN Goto("sector") ELSE End("fail")

\* readAllSector: key A, then key B, else a sector of an empty card in its place.  The
\* client shows the keys of the trailer or zeros.
Authenticates(i) == Present /\ \E t \in {"A", "B"} : keys[<<i, t>>] = Mem.key[<<i, t>>]
Sector(mem, i, from) ==
  [uid |-> IF i = 0 THEN from.uid ELSE mem.uid,
   data |-> [mem.data EXCEPT ![i] = from.data[i]],
   key |-> [k \in Slots |-> IF k[1] = i THEN from.key[k] ELSE mem.key[k]]]
ReadSector ==
  /\ At("sector") /\ Reads /\ UNCHANGED <<infos, keys>>
  /\ \/ /\ Authenticates(s) /\ Calm /\ failed' = FALSE
        /\ \E shown \in {Mem, [Mem EXCEPT !.key = [k \in Slots |-> "zero"]]} :
             dump' = [dump EXCEPT !.mem = Sector(@, s, shown)]
     \/ Fails(Authenticates(s)) /\ UNCHANGED <<dump, failed>>
  /\ IF s < N - 1 THEN s' = s + 1 /\ Goto("sector")
     ELSE s' = s /\ (IF failed' THEN End("fail") ELSE Goto("save"))
Save == /\ At("save") /\ Reads /\ UNCHANGED <<infos, keys, s, failed>>
        /\ \/ Calm /\ dump' = [dump EXCEPT !.st = "file"] /\ End("ok")
           \/ Fault /\ UNCHANGED dump /\ End("fail")
--------------------------------------------------------------------------
\* The loop over the blocks, of a write and of an erasure: data blocks from the last
\* sector down, block 0 before the others of its sector, then the trailers.
First(i) == IF i = 0 THEN "uid" ELSE "data"
Loop == s' = N - 1 /\ Goto(First(N - 1))
After ==
  CASE pc = "uid" -> s' = s /\ Goto("data")
    [] pc = "data" /\ s > 0 -> s' = s - 1 /\ Goto(First(s - 1))
    [] pc = "data" /\ s = 0 -> s' = N - 1 /\ Goto("trailer")
    [] pc = "trailer" /\ s > 0 -> s' = s - 1 /\ Goto("trailer")
    [] OTHER -> s' = s /\ End(IF failed' THEN "fail" ELSE "ok")

\* The keys tried for a sector: A three times, then B.
Or(key, other) == IF key = "none" THEN other ELSE key
KeyA(i) == IF job = "write" THEN Or(keys[<<i, "A">>], "dict")
           ELSE Or(keys[<<i, "A">>], Or(keys[<<0, "A">>], "dict"))
KeyB(i) == IF job = "write" THEN keys[<<i, "B">>]
           ELSE Or(keys[<<i, "B">>], Or(keys[<<0, "B">>], Or(keys[<<0, "A">>], "dict")))
Opens_OnlyA(i) == Present /\ KeyA(i) = Mem.key[<<i, "A">>]
Opens(i) == Present /\ (KeyA(i) = Mem.key[<<i, "A">>] \/ KeyB(i) = Mem.key[<<i, "B">>])
Can == Opens(s) /\ (pc = "uid" => card[on].kind = "gen2")
New == IF job = "write" THEN dump.mem ELSE Blank(info)
Block ==
  CASE pc = "uid"     -> [Mem EXCEPT !.uid = New.uid]
    [] pc = "data"    -> [Mem EXCEPT !.data[s] = New.data[s]]
    [] pc = "trailer" -> [Mem EXCEPT !.key = [k \in Slots |-> IF k[1] = s THEN New.key[k] ELSE @[k]]]

\* Written or not, and told so or not.  An answer that comes after its timeout is taken
\* for that of the next attempt, whose own is then late for the next block.
Outcome(ok) ==
  \/ Can /\ ok /\ Put(Block) /\ UNCHANGED misled
       /\ ((Calm /\ UNCHANGED stray) \/ (Fault /\ stray' = TRUE))
  \/ Can /\ ~ok /\ ~stray /\ Put(Block) /\ Fault /\ UNCHANGED <<stray, misled>>
  \/ ~ok /\ ~stray /\ Fails(Can) /\ UNCHANGED <<card, stray, misled>>
  \/ ok /\ stray /\ Fails(Can) /\ stray' = FALSE /\ misled' = TRUE /\ UNCHANGED card
InLoop == pc \in {"data", "uid", "trailer"} /\ At(pc) /\ UNCHANGED host
--------------------------------------------------------------------------
\* write_common.
WriteStart == /\ Start("write") /\ dump.st # "none" /\ pc' = "present" /\ failed' = FALSE
              /\ UNCHANGED <<host, s>>
WritePresent == /\ At("present") /\ Reads /\ UNCHANGED <<host, s, failed>>
                /\ (Present /\ Calm /\ Goto("w-probe")) \/ (Fails(Present) /\ End("fail"))
\* What the scan has seen decides if the probe tells nothing.
Backdoor_KeepsKeys(yes) == Goto(IF yes THEN "cload" ELSE "w-fchk") /\ UNCHANGED keys
Backdoor(yes) == IF yes THEN Goto("cload") /\ UNCHANGED keys ELSE Goto("w-fchk") /\ keys' = NoKeys
WriteProbe == /\ At("w-probe") /\ Reads /\ Kept /\ UNCHANGED <<s, failed>>
              /\ (Calm /\ Backdoor(Magic)) \/ (Fault /\ Backdoor(infos.gen1a))
\* A freeze that works closes the backdoor.  A load that fails may have begun.
Cload ==
  /\ At("cload") /\ UNCHANGED <<host, s, failed, stray, misled>>
  /\ LET can == Magic /\ dump.st = "file" IN
     \/ /\ can /\ Calm /\ End("ok")
        /\ \E kind \in {"gen1a", "std"} : card' = [card EXCEPT ![on] = [kind |-> kind, mem |-> dump.mem]]
     \/ /\ Fails(can) /\ End("fail")
        /\ \/ UNCHANGED card
           \/ can /\ \E i \in 0..(N - 1) :
                Put([uid |-> dump.mem.uid,
                     data |-> [j \in Sectors |-> IF j <= i THEN dump.mem.data[j] ELSE Mem.data[j]],
                     key |-> [k \in Slots |-> IF k[1] < i THEN dump.mem.key[k] ELSE Mem.key[k]]])
WriteFchk == At("w-fchk") /\ Reads /\ Kept /\ UNCHANGED failed /\ Fchk /\ Loop
WriteBlock_Forgets == /\ InLoop /\ job = "write"
                      /\ \E ok \in BOOLEAN : Outcome(ok) /\ failed' = ~ok
                      /\ After
WriteBlock == /\ InLoop /\ job = "write"
              /\ \E ok \in BOOLEAN : Outcome(ok) /\ failed' = (failed \/ ~ok)
              /\ After

\* Any card will do: a uid that differs counts as no uid to compare.
VerifyStart == /\ Start("verify") /\ dump.st # "none" /\ pc' = "verify" /\ UNCHANGED <<host, s, failed>>
Verify == /\ At("verify") /\ Reads /\ UNCHANGED <<host, s, failed>>
          /\ (Present /\ Calm /\ End("ok")) \/ (Fails(Present) /\ End("fail"))
--------------------------------------------------------------------------
\* WipeTagActivity's thread: detect_mf1_tag and erase_mf1_detected.
EraseStart == Start("erase") /\ pc' = "detect" /\ failed' = FALSE /\ UNCHANGED <<host, s>>
Detect == /\ Runs("detect") /\ Reads /\ UNCHANGED <<host, s, failed>>
          /\ info' = IF Present THEN Mem.uid ELSE "zero"
          /\ (Calm /\ Goto("e-probe")) \/ (Fault /\ End("fail"))
EraseProbe == /\ At("e-probe") /\ Reads /\ UNCHANGED <<host, s, failed>>
              /\ (Magic /\ Calm /\ Goto("cwipe")) \/ (Fails(Magic) /\ Goto("e-fchk"))
\* The text of the answer is not looked at.
Cwipe == /\ At("cwipe") /\ UNCHANGED <<host, s, failed, stray, misled>>
         /\ \/ Magic /\ Calm /\ Put(Blank("zero")) /\ End("ok")
            \/ Fails(Magic) /\ UNCHANGED card /\ End("ok")
            \/ Fault /\ End("fail") /\ (UNCHANGED card \/ (Magic /\ Put(Blank("zero"))))
\* A row of the table counts when it has both keys of its sector; without an answer,
\* or a row, the default keys are tried.
Rows == {k \in Found : \A t \in {"A", "B"} : <<k[1], t>> \in Found}
EraseFchk == /\ At("e-fchk") /\ Reads /\ Kept /\ UNCHANGED failed
             /\ \/ Present /\ Calm /\ keys' = With(NoKeys, Rows)
                     /\ IF Found = {} THEN End("fail") /\ UNCHANGED s ELSE Loop
                \/ Fails(Present) /\ keys' = NoKeys /\ Loop
EraseBlock_GoesOn == /\ InLoop /\ job = "erase" /\ UNCHANGED failed
                     /\ \E ok \in BOOLEAN : Outcome(ok) /\ After
\* A data block that is not written ends it, a trailer does not.
EraseBlock == /\ InLoop /\ job = "erase" /\ UNCHANGED failed
              /\ \E ok \in BOOLEAN :
                   Outcome(ok) /\ (IF ok \/ pc = "trailer" THEN After ELSE End("fail") /\ UNCHANGED s)
\* PWR before the first block: stopPM3Task ends the command, -1, and finish() the
\* activity, but the thread goes on from there.  The table of keys is the last a check
\* of keys prints.
EraseCancel ==
  /\ pc \in {"detect", "e-probe", "cwipe", "e-fchk"} /\ ~cancelled /\ cancelled' = TRUE
  /\ CASE pc \in {"detect", "cwipe"} -> End("none") /\ UNCHANGED <<keys, s>>
       [] pc = "e-probe" -> Goto("e-fchk") /\ UNCHANGED <<keys, s>>
       [] pc = "e-fchk" -> keys' = NoKeys /\ Loop
  /\ Calm /\ Reads /\ Kept /\ UNCHANGED <<on, job, info, failed, jobs, target, open, swapped>>

Read == \/ ReadStart \/ ReadProbe \/ Csave \/ FirstFchk \/ Fchk1 \/ Darkside \/ Fchk2 \/ Nested
        \/ Fchk3 \/ ReadSector \/ Save
Write == WriteStart \/ WritePresent \/ WriteProbe \/ Cload \/ WriteFchk \/ WriteBlock
Erase == \/ EraseStart \/ Detect \/ EraseProbe \/ Cwipe \/ EraseFchk \/ EraseBlock \/ EraseCancel
Next == Swap \/ Scan \/ Read \/ Write \/ VerifyStart \/ Verify \/ Erase
Spec == Init /\ [][Next]_vars
--------------------------------------------------------------------------
Done(j) == job = j /\ pc = "idle" /\ result = "ok" /\ ~swapped /\ target # "none"

\* A read that nothing disturbed has every sector it had a key of, as it is on the card;
\* the others are left empty, never filled with something else.
ReadIsExact ==
  (Done("read") /\ ~spoilt /\ dump.st = "file") =>
    \A i \in Sectors : LET known == \E t \in {"A", "B"} : keys[<<i, t>>] # "none"
                           own   == card[target].mem.data[i]
                       IN  dump.mem.data[i] = own \/ (dump.mem.data[i] = "blank" /\ ~known /\ ~infos.gen1a)

\* A write that reports success has left the whole file on the card, whatever failed and
\* was tried again, unless it believed an answer that was not its own.
WriteIsCopy == (Done("write") /\ ~misled) => card[target].mem = dump.mem

\* A card whose sectors all open with the dictionary is written at the first try.
WriteWorks == (job = "write" /\ pc = "idle" /\ open /\ ~spoilt) => result = "ok"

\* Trailers come last, and the keys are the card's own: each key of the map still opens
\* its sector when its turn comes.
ToCome(i) == pc \in {"data", "uid"} \/ (pc = "trailer" /\ i <= s)
KeysOpen ==
  (pc \in {"data", "uid", "trailer"} /\ ~swapped /\ Present) =>
    \A k \in Slots : ToCome(k[1]) => keys[k] \in {"none", Mem.key[k]}

\* An erasure that reports success has cleared every data block of a card without
\* backdoor, unless it believed an answer that was not its own.
EraseIsWhole ==
  (Done("erase") /\ ~misled /\ card[target].kind # "gen1a")
    => card[target].mem.data = [i \in Sectors |-> "blank"]

-----------------------------------------------------------------------------
(* What the source says and the code does not do.                          *)

\* "Cancel fchk/key-check phase - safe to abort": the card is not written after PWR.
CancelStopsErase == [][cancelled => card' = card]_vars

\* erase.py: "'error' - MF1: cwipe timeout or ...", failure "Can't wipe card".
WipeTellsFailure ==
  (Done("erase") /\ card[target].kind = "gen1a") => card[target].mem.data = [i \in Sectors |-> "blank"]

\* "original .so returns success if the card is present and UID matches".
VerifyComparesUid == Done("verify") => card[target].mem.uid = dump.mem.uid

\* "Full read": a gen1a card that could not be saved is not a success.
ReadHasFile == (job = "read" /\ result = "ok") => dump.st = "file"
=============================================================================
