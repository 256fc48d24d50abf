---------------------------- MODULE MifareProofs ----------------------------
(***************************************************************************)
(* What a read, a write and an erasure of a MIFARE Classic card leave      *)
(* behind, for every number of sectors, cards, jobs and faults.  None of   *)
(* the properties is inductive: they speak of the end of a job, IInv of    *)
(* what its commands have done up to the sector they are at.               *)
(***************************************************************************)
EXTENDS Mifare, TLAPS

Loops == {"data", "uid", "trailer"}
OfRead == {"r-probe", "csave", "r-fchk", "fchk1", "darkside", "fchk2", "nested", "fchk3", "sector", "save"}
OfWrite == {"present", "w-probe", "cload", "w-fchk"}
OfErase == {"detect", "e-probe", "cwipe", "e-fchk"}
\* A job has its own commands and, unless a card was swapped, its own card.
Where ==
  /\ (pc # "idle" /\ ~swapped) => on = target
  /\ pc \in OfRead => job = "read"
  /\ pc \in OfWrite => job = "write"
  /\ pc \in OfErase => job = "erase"
  /\ pc = "verify" => job = "verify"
  /\ pc \in Loops => job \in {"write", "erase"}
  /\ pc = "uid" => s = 0
  /\ (pc = "cwipe" /\ ~swapped) => Magic

-----------------------------------------------------------------------------
(* The operators, on typed values.                                         *)

LEMMA MemTyped ==
  ASSUME TypeOK, Present
  PROVE  on \in Cards /\ card[on] \in [kind : Kinds, mem : Memory] /\ Mem \in Memory
BY DEF TypeOK, Present, Mem

LEMMA PutTyped ==
  ASSUME TypeOK, Present, NEW m \in Memory, Put(m)
  PROVE  /\ card' \in [Cards -> [kind : Kinds, mem : Memory]]
         /\ card'[on].mem = m /\ card'[on].kind = card[on].kind
         /\ \A c \in Cards : c # on => card'[c] = card[c]
BY MemTyped DEF TypeOK, Put

LEMMA BlankTyped ==
  ASSUME NEW u \in Cards \union {"none", "zero"}
  PROVE  /\ Blank(u) \in Memory
         /\ Blank(u).uid = u
         /\ \A i \in Sectors : Blank(u).data[i] = "blank"
BY DEF Blank, Memory, Data, Keys, Dictionary

LEMMA NewTyped ==
  ASSUME TypeOK
  PROVE  New \in Memory
BY BlankTyped DEF TypeOK, New

LEMMA BlockTyped ==
  ASSUME TypeOK, Present, pc \in Loops
  PROVE  Block \in Memory
<1>1. CASE pc = "uid"
  BY <1>1, MemTyped, NewTyped DEF Block, Memory
<1>2. CASE pc = "data"
  BY <1>2, MemTyped, NewTyped DEF Block, Memory, TypeOK
<1>3. CASE pc = "trailer"
  BY <1>3, MemTyped, NewTyped DEF Block, Memory, TypeOK
<1> QED
  BY <1>1, <1>2, <1>3 DEF Loops

LEMMA WithTyped ==
  ASSUME TypeOK, NEW S \in SUBSET Slots, S # {} => Present, NEW known \in [Slots -> Keys \union {"none"}]
  PROVE  With(known, S) \in [Slots -> Keys \union {"none"}]
BY MemTyped DEF With, Memory

LEMMA FoundSlots ==
  /\ Found \in SUBSET Slots /\ (Found # {} => Present)
  /\ Rows \in SUBSET Slots /\ (Rows # {} => Present)
BY DEF Found, Rows

LEMMA CanPresent == Can => Present
BY DEF Can, Opens

LEMMA OutcomeTyped ==
  ASSUME TypeOK, pc \in Loops, NEW ok \in BOOLEAN, Outcome(ok)
  PROVE  card' \in [Cards -> [kind : Kinds, mem : Memory]]
<1>1. CASE Can /\ Put(Block)
  BY <1>1, CanPresent, BlockTyped, PutTyped
<1>2. CASE UNCHANGED card
  BY <1>2 DEF TypeOK
<1> QED
  BY <1>1, <1>2 DEF Outcome

LEMMA SectorTyped ==
  ASSUME NEW mem \in Memory, NEW from \in Memory, NEW i \in Sectors
  PROVE  Sector(mem, i, from) \in Memory
BY DEF Sector, Memory

LEMMA ShownTyped ==
  ASSUME TypeOK, Present
  PROVE  [Mem EXCEPT !.key = [k \in Slots |-> "zero"]] \in Memory
BY MemTyped DEF Memory, Keys, Dictionary

-----------------------------------------------------------------------------
(* What a step may move, from the text of all the actions.                 *)
KeysMoves ==
  \/ ReadStart \/ FirstFchk \/ Fchk1 \/ Darkside \/ Fchk2 \/ Nested \/ Fchk3
  \/ WriteProbe \/ WriteFchk \/ EraseFchk \/ EraseCancel
DumpMoves == Scan \/ ReadStart \/ Csave \/ ReadSector \/ Save
CardMoves == Cload \/ WriteBlock \/ EraseBlock \/ Cwipe

Recovers == FirstFchk \/ Fchk1 \/ Darkside \/ Fchk2 \/ Nested \/ Fchk3

USE DEF Next, Read, Write, Erase, Swap, Scan, ReadStart, Start, ReadProbe, Csave, FirstFchk, Fchk1,
      Fchk2, Fchk3, Fchk, Darkside, Nested, ReadSector, Save, WriteStart, WritePresent, WriteProbe,
      Backdoor, Cload, WriteFchk, WriteBlock, VerifyStart, Verify, EraseStart, Detect, EraseProbe,
      Cwipe, EraseFchk, EraseBlock, EraseCancel, Recovery, At, Runs, Reads, Kept, Calm, Fault,
      Fails, Outcome, InLoop, cards, host, progress, history

LEMMA KeysMovers == Next => KeysMoves \/ UNCHANGED keys
BY DEF KeysMoves

LEMMA DumpMovers == Next => DumpMoves \/ UNCHANGED dump
BY DEF DumpMoves

LEMMA CardMovers == Next => CardMoves \/ UNCHANGED card
BY DEF CardMoves

LEMMA InfosMovers ==
  Next => \/ UNCHANGED infos
          \/ Present /\ \E b \in BOOLEAN : infos' = [uid |-> Mem.uid, gen1a |-> b]
          \/ infos' = [infos EXCEPT !.gen1a = TRUE]
BY DEF Magic

LEMMA LoopMovers ==
  Next => \/ Swap \/ WriteProbe \/ WriteFchk \/ EraseFchk \/ EraseCancel \/ WriteBlock \/ EraseBlock
          \/ pc' \notin Loops \union {"w-fchk"}
BY DEF Goto, End, Further, Loops

LEMMA ReadMovers ==
  Next => Swap \/ ReadStart \/ ReadProbe \/ Recovers \/ ReadSector \/ pc' \notin OfRead
BY DEF Recovers, OfRead, Goto, End, Backdoor, Loop, First, After

LEMMA ReadEnds ==
  Next /\ Where => Swap \/ Csave \/ Save \/ job' # "read" \/ pc' # "idle" \/ result' # "ok"
BY DEF Where, OfRead, OfWrite, OfErase, Goto, End, Further, Backdoor, Loop, First, After, Loops

LEMMA WriteEnds ==
  Next /\ Where => Swap \/ Cload \/ WriteBlock \/ job' # "write" \/ pc' # "idle" \/ result' # "ok"
BY DEF Where, OfRead, OfWrite, OfErase, Goto, End, Further, Backdoor, Loop, First

LEMMA EraseEnds ==
  Next /\ Where => Swap \/ Cwipe \/ EraseBlock \/ job' # "erase" \/ pc' # "idle" \/ result' # "ok"
BY DEF Where, OfRead, OfWrite, OfErase, Goto, End, Further, Backdoor, Loop, First

LEMMA WriteMovers ==
  Next /\ Where /\ job' = "write" =>
     \/ Swap \/ Scan \/ ReadStart \/ VerifyStart \/ EraseStart \/ WriteStart \/ WritePresent
     \/ WriteProbe \/ WriteFchk \/ WriteBlock \/ Cload
BY DEF Where, OfRead, OfErase, Loops

LEMMA PlainTyped ==
  ASSUME TypeOK, Next
  PROVE  /\ on' \in Cards \union {"none"}
         /\ info' \in Cards \union {"none", "zero"}
         /\ target' \in Cards \union {"none"}
BY MemTyped DEF Memory, TypeOK

LEMMA ControlTyped ==
  ASSUME TypeOK, Next
  PROVE  /\ job' \in {"none", "read", "write", "verify", "erase"}
         /\ pc' \in Commands
         /\ result' \in {"none", "ok", "fail"}
<1>1. job' \in {"none", "read", "write", "verify", "erase"}
  BY DEF TypeOK
<1>2. pc' \in Commands
  BY DEF TypeOK, Goto, End, After, Loop, First, Further, Commands
<1>3. result' \in {"none", "ok", "fail"}
  BY DEF TypeOK, Goto, End, After, Loop, Further
<1> QED
  BY <1>1, <1>2, <1>3

LEMMA FlagsTyped ==
  ASSUME TypeOK, Next
  PROVE  {failed, stray, open, spoilt, swapped, misled, cancelled}' \subseteq BOOLEAN
BY DEF TypeOK

LEMMA SectorMoves ==
  Next => s' \in {s, 0, N - 1} \/ (s > 0 /\ s' = s - 1) \/ (s < N - 1 /\ s' = s + 1)
BY DEF After, Loop

LEMMA CountersMove ==
  Next => /\ UNCHANGED jobs \/ (jobs < MaxJobs /\ jobs' = jobs + 1)
          /\ UNCHANGED faults \/ (faults < MaxFaults /\ faults' = faults + 1)
<1>1. Next => UNCHANGED jobs \/ (jobs < MaxJobs /\ jobs' = jobs + 1)
  OBVIOUS
<1>2. Next => UNCHANGED faults \/ (faults < MaxFaults /\ faults' = faults + 1)
  OBVIOUS
<1> QED
  BY <1>1, <1>2

LEMMA WhereStep ==
  ASSUME TypeOK, Where, Next
  PROVE  Where'
<1>1. ((pc # "idle" /\ ~swapped) => on = target)'
  <2>1. CASE Swap
    BY <2>1 DEF Swap, progress
  <2>2. CASE Scan \/ pc' = "idle"
    BY <2>2 DEF Scan
  <2>3. CASE ReadStart \/ WriteStart \/ VerifyStart \/ EraseStart
    BY <2>3 DEF ReadStart, WriteStart, VerifyStart, EraseStart, Start, cards
  <2>4. CASE pc # "idle" /\ UNCHANGED <<on, target, swapped>>
    BY <2>4 DEF Where
  <2>5. Swap \/ Scan \/ ReadStart \/ WriteStart \/ VerifyStart \/ EraseStart
          \/ (pc # "idle" /\ UNCHANGED <<on, target, swapped>>)
    OBVIOUS
  <2> QED
    BY <2>1, <2>2, <2>3, <2>4, <2>5
<1>2. /\ (pc \in OfRead => job = "read")'
      /\ (pc \in OfWrite => job = "write")'
  BY DEF Where, Goto, End, After, Loop, First, Further, OfRead, OfWrite, OfErase, Loops
<1>3. /\ (pc \in OfErase => job = "erase")'
      /\ (pc = "verify" => job = "verify")'
  BY DEF Where, Goto, End, After, Loop, First, Further, OfRead, OfWrite, OfErase, Loops
<1>4. (pc \in Loops => job \in {"write", "erase"})'
  BY DEF Where, Goto, End, After, Loop, First, Further, OfRead, OfWrite, OfErase, Loops
<1>5. (pc = "uid" => s = 0)'
  <2>1. CASE WriteFchk \/ EraseFchk \/ EraseCancel
    BY <2>1 DEF WriteFchk, EraseFchk, EraseCancel, Loop, First, Goto, End
  <2>2. CASE WriteBlock \/ EraseBlock
    BY <2>2 DEF WriteBlock, EraseBlock, After, First, Goto, End
  <2>3. CASE UNCHANGED <<pc, s>> \/ pc' # "uid"
    BY <2>3 DEF Where
  <2>4. WriteFchk \/ EraseFchk \/ EraseCancel \/ WriteBlock \/ EraseBlock \/ UNCHANGED <<pc, s>> \/ pc' # "uid"
    BY DEF Goto, End, Further
  <2> QED
    BY <2>1, <2>2, <2>3, <2>4
<1>6. ((pc = "cwipe" /\ ~swapped) => Magic)'
  BY DEF Where, Goto, End, After, Loop, First, Further, OfRead, OfWrite, OfErase, Loops, Magic,
        Present
<1> QED
  BY <1>1, <1>2, <1>3, <1>4, <1>5, <1>6 DEF Where

HIDE DEF Next, Read, Write, Erase, Swap, Scan, ReadStart, Start, ReadProbe, Csave, FirstFchk,
      Fchk1, Fchk2, Fchk3, Fchk, Darkside, Nested, ReadSector, Save, WriteStart, WritePresent,
      WriteProbe, Backdoor, Cload, WriteFchk, WriteBlock, VerifyStart, Verify, EraseStart, Detect,
      EraseProbe, Cwipe, EraseFchk, EraseBlock, EraseCancel, Recovery, At, Runs, Reads, Kept, Calm,
      Fault, Fails, Outcome, InLoop, cards, host, progress, history

-----------------------------------------------------------------------------
(* Types.                                                                  *)
\* The keys are cleared, or some are found.
KeysFrom(known) == \E S \in SUBSET Slots : (S # {} => Present) /\ keys' = With(known, S)
LEMMA KeysMove ==
  ASSUME TypeOK, KeysMoves
  PROVE  keys' \in {keys, NoKeys} \/ KeysFrom(keys) \/ KeysFrom(NoKeys)
<1>1. CASE FirstFchk \/ Fchk1 \/ Fchk2 \/ Fchk3 \/ WriteFchk
  BY <1>1, FoundSlots DEF FirstFchk, Fchk1, Fchk2, Fchk3, WriteFchk, Fchk, KeysFrom
<1>2. CASE Darkside
  BY <1>2, BoundsAssumption DEF Darkside, KeysFrom, Slots, Sectors
<1>3. CASE Nested
  BY <1>3 DEF Nested, KeysFrom
<1>4. CASE ReadStart \/ WriteProbe \/ EraseFchk \/ EraseCancel
  BY <1>4, FoundSlots DEF ReadStart, WriteProbe, Backdoor, EraseFchk, EraseCancel, KeysFrom
<1> QED
  BY <1>1, <1>2, <1>3, <1>4 DEF KeysMoves

LEMMA KeysTyped ==
  ASSUME TypeOK, Next
  PROVE  keys' \in [Slots -> Keys \union {"none"}]
<1>1. keys \in [Slots -> Keys \union {"none"}] /\ NoKeys \in [Slots -> Keys \union {"none"}]
  BY DEF TypeOK, NoKeys
<1>2. CASE KeysFrom(keys) \/ KeysFrom(NoKeys)
  BY <1>1, <1>2, WithTyped DEF KeysFrom
<1> QED
  BY <1>1, <1>2, KeysMovers, KeysMove

LEMMA DumpTyped ==
  ASSUME TypeOK, DumpMoves
  PROVE  dump' \in [st : {"none", "missing", "file"}, mem : Memory]
<1>1. CASE Scan \/ ReadStart
  BY <1>1, BlankTyped DEF Scan, ReadStart
<1>2. CASE Csave
  BY <1>2, BlankTyped, MemTyped DEF Csave, Magic, TypeOK
<1>3. CASE Save
  BY <1>3 DEF Save, TypeOK
<1>4. CASE ReadSector
  <2>1. CASE UNCHANGED dump
    BY <2>1 DEF TypeOK
  <2>2. ASSUME Authenticates(s),
               NEW shown \in {Mem, [Mem EXCEPT !.key = [k \in Slots |-> "zero"]]},
               dump' = [dump EXCEPT !.mem = Sector(@, s, shown)]
        PROVE  dump' \in [st : {"none", "missing", "file"}, mem : Memory]
    <3>1. shown \in Memory
      BY <2>2, MemTyped, ShownTyped DEF Authenticates
    <3>2. Sector(dump.mem, s, shown) \in Memory
      BY <3>1, SectorTyped DEF TypeOK
    <3> QED
      BY <2>2, <3>2 DEF TypeOK
  <2> QED
    BY <1>4, <2>1, <2>2 DEF ReadSector
<1> QED
  BY <1>1, <1>2, <1>3, <1>4 DEF DumpMoves

LEMMA CloadTyped ==
  ASSUME TypeOK, Cload
  PROVE  card' \in [Cards -> [kind : Kinds, mem : Memory]]
<1>1. CASE UNCHANGED card
  BY <1>1 DEF TypeOK
<1>2. CASE /\ Magic
           /\ \E kind \in {"gen1a", "std"} : card' = [card EXCEPT ![on] = [kind |-> kind, mem |-> dump.mem]]
  BY <1>2, MemTyped DEF Magic, TypeOK, Kinds
<1>3. ASSUME Magic, NEW i \in 0..(N - 1),
             Put([uid |-> dump.mem.uid,
                  data |-> [j \in Sectors |-> IF j <= i THEN dump.mem.data[j] ELSE Mem.data[j]],
                  key |-> [k \in Slots |-> IF k[1] < i THEN dump.mem.key[k] ELSE Mem.key[k]]])
      PROVE  card' \in [Cards -> [kind : Kinds, mem : Memory]]
  <2> DEFINE m == [uid |-> dump.mem.uid,
                   data |-> [j \in Sectors |-> IF j <= i THEN dump.mem.data[j] ELSE Mem.data[j]],
                   key |-> [k \in Slots |-> IF k[1] < i THEN dump.mem.key[k] ELSE Mem.key[k]]]
  <2>1. Present
    BY <1>3 DEF Magic
  <2>2. m \in Memory
    BY <2>1, MemTyped DEF TypeOK, Memory
  <2> QED
    BY <1>3, <2>1, <2>2, PutTyped
<1> QED
  BY <1>1, <1>2, <1>3 DEF Cload

LEMMA CardTyped ==
  ASSUME TypeOK, CardMoves
  PROVE  card' \in [Cards -> [kind : Kinds, mem : Memory]]
<1>1. CASE Cload
  BY <1>1, CloadTyped
<1>2. CASE Cwipe
  BY <1>2, BlankTyped, PutTyped DEF Cwipe, Magic, TypeOK
<1>3. CASE WriteBlock \/ EraseBlock
  BY <1>3, OutcomeTyped DEF WriteBlock, EraseBlock, InLoop, Loops
<1> QED
  BY <1>1, <1>2, <1>3 DEF CardMoves

LEMMA TypeStep ==
  ASSUME TypeOK, Next
  PROVE  TypeOK'
<1>1. card' \in [Cards -> [kind : Kinds, mem : Memory]]
  BY CardMovers, CardTyped DEF TypeOK
<1>2. dump' \in [st : {"none", "missing", "file"}, mem : Memory]
  BY DumpMovers, DumpTyped DEF TypeOK
<1>3. keys' \in [Slots -> Keys \union {"none"}]
  BY KeysTyped
<1>4. infos' \in [uid : Cards \union {"none", "zero"}, gen1a : BOOLEAN]
  <2>1. CASE Present /\ \E b \in BOOLEAN : infos' = [uid |-> Mem.uid, gen1a |-> b]
    <3>1. Mem.uid \in Cards \union {"none", "zero"}
      BY <2>1, MemTyped DEF Memory
    <3> QED
      BY <2>1, <3>1
  <2>2. CASE UNCHANGED infos \/ infos' = [infos EXCEPT !.gen1a = TRUE]
    BY <2>2 DEF TypeOK
  <2> QED
    BY <2>1, <2>2, InfosMovers
<1>5. s' \in Sectors
  BY SectorMoves, BoundsAssumption DEF TypeOK, Sectors
<1>6. jobs' \in 0..MaxJobs /\ faults' \in 0..MaxFaults
  BY CountersMove, BoundsAssumption DEF TypeOK
<1> QED
  BY <1>1, <1>2, <1>3, <1>4, <1>5, <1>6, PlainTyped, ControlTyped, FlagsTyped DEF TypeOK

LEMMA TypeInit == Init => TypeOK
<1> SUFFICES ASSUME Init PROVE TypeOK
  OBVIOUS
<1>1. card \in [Cards -> [kind : Kinds, mem : Memory]]
  BY DEF Init, Memory, Data, Keys, Dictionary, OwnKeys
<1>2. keys \in [Slots -> Keys \union {"none"}] /\ infos \in [uid : Cards \union {"none", "zero"}, gen1a : BOOLEAN]
  BY DEF Init, NoKeys, NoInfos
<1>3. dump \in [st : {"none", "missing", "file"}, mem : Memory]
  BY BlankTyped DEF Init
<1>4. s \in Sectors /\ jobs \in 0..MaxJobs /\ faults \in 0..MaxFaults
  BY BoundsAssumption DEF Init, Sectors
<1>5. /\ on \in Cards \union {"none"} /\ target \in Cards \union {"none"}
      /\ job \in {"none", "read", "write", "verify", "erase"} /\ pc \in Commands
      /\ info \in Cards \union {"none", "zero"} /\ result \in {"none", "ok", "fail"}
  BY DEF Init, Commands
<1>6. {failed, stray, open, spoilt, swapped, misled, cancelled} \subseteq BOOLEAN
  BY DEF Init
<1> QED
  BY <1>1, <1>2, <1>3, <1>4, <1>5, <1>6 DEF TypeOK

-----------------------------------------------------------------------------
(* What one step of the loop over the blocks does.                         *)
LEMMA BlockWritten ==
  ASSUME TypeOK, Present, pc \in Loops, Put(Block), UNCHANGED on
  PROVE  /\ card'[on].kind = card[on].kind
         /\ Mem'.uid = (IF pc = "uid" THEN New.uid ELSE Mem.uid)
         /\ \A i \in Sectors :
              Mem'.data[i] = (IF pc = "data" /\ i = s THEN New.data[i] ELSE Mem.data[i])
         /\ \A k \in Slots :
              Mem'.key[k] = (IF pc = "trailer" /\ k[1] = s THEN New.key[k] ELSE Mem.key[k])
<1>1. card'[on].mem = Block /\ card'[on].kind = card[on].kind /\ Mem' = Block
  BY BlockTyped, PutTyped DEF Mem
<1>2. Mem \in Memory /\ New \in Memory
  BY MemTyped, NewTyped
<1>3. CASE pc = "uid"
  BY <1>1, <1>2, <1>3 DEF Block, Memory
<1>4. CASE pc = "data"
  BY <1>1, <1>2, <1>4 DEF Block, Memory
<1>5. CASE pc = "trailer"
  BY <1>1, <1>2, <1>5 DEF Block, Memory
<1> QED
  BY <1>3, <1>4, <1>5 DEF Loops

LEMMA OutcomeOf ==
  ASSUME NEW ok \in BOOLEAN, Outcome(ok)
  PROVE  /\ UNCHANGED card \/ (Present /\ Put(Block))
         /\ (ok /\ ~misled') => (Present /\ Put(Block) /\ ~misled)
         /\ ~misled' => ~misled
BY CanPresent DEF Outcome

(***************************************************************************)
(* KeysOpen.  The map is empty when the keys of the card to be written are *)
(* looked for, so it never holds those of another one.                     *)
(***************************************************************************)
KeysInv == KeysOpen /\ (pc = "w-fchk" => keys = NoKeys)

LEMMA FoundOpen ==
  ASSUME TypeOK, keys' \in {NoKeys, With(NoKeys, Found), With(NoKeys, Rows)}, UNCHANGED cards
  PROVE  \A k \in Slots : keys'[k] \in {"none", Mem'.key[k]}
BY DEF NoKeys, With, Mem, cards

LEMMA KeysStep ==
  ASSUME TypeOK, Where, KeysInv, Next
  PROVE  KeysInv'
<1>1. CASE Swap
  BY <1>1 DEF Swap, KeysInv, KeysOpen, host, progress
<1>2. CASE WriteProbe
  BY <1>2 DEF WriteProbe, Backdoor, Goto, KeysInv, KeysOpen
<1>3. CASE WriteFchk
  <2>1. keys' \in {NoKeys, With(NoKeys, Found)} /\ UNCHANGED cards /\ pc' # "w-fchk"
    BY <1>3 DEF WriteFchk, Fchk, At, Runs, Reads, KeysInv, Loop, Goto, First, cards
  <2> QED
    BY <2>1, FoundOpen DEF KeysInv, KeysOpen
<1>4. CASE EraseFchk \/ EraseCancel
  <2>1. pc' # "w-fchk"
    BY <1>4 DEF EraseFchk, EraseCancel, Loop, Goto, First, End
  <2>2. UNCHANGED cards /\ (pc' \notin Loops \/ keys' \in {NoKeys, With(NoKeys, Rows)})
    BY <1>4 DEF EraseFchk, EraseCancel, At, Runs, Reads, Loop, Goto, First, End, cards, Loops
  <2> QED
    BY <2>1, <2>2, FoundOpen DEF KeysInv, KeysOpen, Loops
<1>5. CASE WriteBlock \/ EraseBlock
  <2>1. PICK ok \in BOOLEAN : Outcome(ok)
    BY <1>5 DEF WriteBlock, EraseBlock
  <2>2. pc \in Loops /\ UNCHANGED <<keys, on, swapped>> /\ (After \/ pc' = "idle")
    BY <1>5 DEF WriteBlock, EraseBlock, InLoop, At, Runs, End, Loops, host
  <2>3. pc' # "w-fchk"
    BY <2>2 DEF After, Goto, End, First, Loops
  <2>4. ASSUME NEW k \in Slots, ToCome(k[1])', pc' \in Loops
        PROVE  ToCome(k[1]) /\ ~(pc = "trailer" /\ k[1] = s)
    BY <2>2, <2>4, BoundsAssumption DEF After, ToCome, Goto, End, First, Loops, Slots, Sectors,
          TypeOK
  <2>5. CASE UNCHANGED card
    BY <2>2, <2>3, <2>4, <2>5 DEF KeysInv, KeysOpen, Loops, Mem, Present
  <2>6. CASE Present /\ Put(Block)
    BY <2>2, <2>3, <2>4, <2>6, BlockWritten DEF KeysInv, KeysOpen, Loops, Present
  <2> QED
    BY <2>1, <2>5, <2>6, OutcomeOf
<1>6. CASE pc' \notin Loops \union {"w-fchk"}
  BY <1>6 DEF KeysInv, KeysOpen, Loops
<1> QED
  BY <1>1, <1>2, <1>3, <1>4, <1>5, <1>6, LoopMovers

(***************************************************************************)
(* WriteIsCopy.  What of the file is on the card, block by block; an       *)
(* attempt that was told to have worked did, unless the answer was stray.  *)
(***************************************************************************)
WriteSoFar ==
  (job = "write" /\ pc \in Loops /\ Present /\ ~swapped /\ ~misled /\ ~failed) =>
    /\ \A i \in Sectors : (i > s \/ pc = "trailer") => Mem.data[i] = dump.mem.data[i]
    /\ (pc = "trailer" \/ (pc = "data" /\ s = 0)) => Mem.uid = dump.mem.uid
    /\ \A k \in Slots : (pc = "trailer" /\ k[1] > s) => Mem.key[k] = dump.mem.key[k]

\* The loop begins at the last sector: there is nothing above it.
LEMMA LoopBegins ==
  ASSUME TypeOK, Loop
  PROVE  /\ pc' \in {"uid", "data"} /\ \A i \in Sectors : ~(i > s')
         /\ ~(pc' = "data" /\ s' = 0)
BY BoundsAssumption DEF Loop, First, Goto, Sectors, TypeOK

LEMMA WriteBlockCopies ==
  ASSUME TypeOK, Where, WriteSoFar, WriteBlock, ~swapped', ~misled', ~failed'
  PROVE  /\ Present /\ dump' = dump /\ After
         /\ \A i \in Sectors : (i > s \/ pc = "trailer" \/ (pc = "data" /\ i = s)) => Mem'.data[i] = dump.mem.data[i]
         /\ (pc \in {"trailer", "uid"} \/ (pc = "data" /\ s = 0)) => Mem'.uid = dump.mem.uid
         /\ \A k \in Slots : (pc = "trailer" /\ k[1] >= s) => Mem'.key[k] = dump.mem.key[k]
<1>1. Present /\ Put(Block) /\ ~misled /\ ~failed
  BY OutcomeOf DEF WriteBlock
<1>2. job = "write" /\ pc \in Loops /\ UNCHANGED <<on, swapped, dump>> /\ After /\ New = dump.mem
  BY DEF WriteBlock, InLoop, At, Runs, host, Loops, New
<1>3. s \in Sectors
  BY DEF TypeOK
<1>4. \A i \in Sectors : (i > s \/ pc = "trailer" \/ (pc = "data" /\ i = s)) => Mem'.data[i] = dump.mem.data[i]
  BY <1>1, <1>2, <1>3, BlockWritten DEF WriteSoFar
<1>5. (pc \in {"trailer", "uid"} \/ (pc = "data" /\ s = 0)) => Mem'.uid = dump.mem.uid
  BY <1>1, <1>2, <1>3, BlockWritten DEF WriteSoFar
<1>6. \A k \in Slots : (pc = "trailer" /\ k[1] >= s) => Mem'.key[k] = dump.mem.key[k]
  <2> TAKE k \in Slots
  <2> HAVE pc = "trailer" /\ k[1] >= s
  <2>1. k[1] = s \/ k[1] > s
    BY <1>3, BoundsAssumption DEF Slots, Sectors
  <2> QED
    BY <1>1, <1>2, <1>3, <2>1, BlockWritten DEF WriteSoFar
<1> QED
  BY <1>1, <1>2, <1>4, <1>5, <1>6

LEMMA WriteSoFarStep ==
  ASSUME TypeOK, Where, WriteSoFar, Next
  PROVE  WriteSoFar'
<1>1. CASE Swap
  BY <1>1 DEF Swap, WriteSoFar, progress, Loops
<1>2. CASE WriteFchk
  BY <1>2, LoopBegins DEF WriteFchk, WriteSoFar, Slots
<1>3. CASE EraseFchk \/ EraseCancel
  BY <1>3 DEF EraseFchk, EraseCancel, At, Runs, WriteSoFar, Where, OfErase
<1>4. CASE EraseBlock
  BY <1>4 DEF EraseBlock, InLoop, At, Runs, WriteSoFar
<1>5. CASE WriteBlock
  <2> SUFFICES ASSUME pc' \in Loops, ~swapped', ~misled', ~failed'
               PROVE  /\ \A i \in Sectors : (i > s' \/ pc' = "trailer") => Mem'.data[i] = dump'.mem.data[i]
                      /\ (pc' = "trailer" \/ (pc' = "data" /\ s' = 0)) => Mem'.uid = dump'.mem.uid
                      /\ \A k \in Slots : (pc' = "trailer" /\ k[1] > s') => Mem'.key[k] = dump'.mem.key[k]
    BY DEF WriteSoFar
  <2>1. /\ Present /\ dump' = dump /\ After
        /\ \A i \in Sectors : (i > s \/ pc = "trailer" \/ (pc = "data" /\ i = s)) => Mem'.data[i] = dump.mem.data[i]
        /\ (pc \in {"trailer", "uid"} \/ (pc = "data" /\ s = 0)) => Mem'.uid = dump.mem.uid
        /\ \A k \in Slots : (pc = "trailer" /\ k[1] >= s) => Mem'.key[k] = dump.mem.key[k]
    BY <1>5, WriteBlockCopies
  <2>2. pc \in Loops /\ s \in Sectors /\ (pc = "uid" => s = 0)
    BY <1>5 DEF WriteBlock, InLoop, TypeOK, Where, Loops
  <2>3. CASE pc = "uid"
    BY <2>1, <2>2, <2>3 DEF After, Goto
  <2>4. CASE pc = "data" /\ s > 0
    BY <2>1, <2>2, <2>4, BoundsAssumption DEF After, Goto, First, Sectors
  <2>5. CASE pc = "data" /\ s = 0
    BY <2>1, <2>2, <2>5, BoundsAssumption DEF After, Goto, Sectors, Slots
  <2>6. CASE pc = "trailer"
    BY <2>1, <2>2, <2>6, BoundsAssumption DEF After, Goto, End, Sectors, Slots, Loops
  <2> QED
    BY <2>2, <2>3, <2>4, <2>5, <2>6, BoundsAssumption DEF Loops, Sectors
<1>6. CASE WriteProbe \/ pc' \notin Loops
  BY <1>6 DEF WriteProbe, Backdoor, Goto, Loops, WriteSoFar
<1> QED
  BY <1>1, <1>2, <1>3, <1>4, <1>5, <1>6, LoopMovers

\* Two memories with the same block 0, data and keys are the same.
LEMMA SameMemory ==
  ASSUME NEW m \in Memory, NEW f \in Memory, m.uid = f.uid,
         \A i \in Sectors : m.data[i] = f.data[i], \A k \in Slots : m.key[k] = f.key[k]
  PROVE  m = f
BY DEF Memory

LEMMA CopyStep ==
  ASSUME TypeOK, TypeOK', Where, Where', WriteSoFar, WriteIsCopy, Next
  PROVE  WriteIsCopy'
<1> SUFFICES ASSUME Done("write")', ~misled'
             PROVE  card'[target'].mem = dump'.mem
  BY DEF WriteIsCopy
<1>1. CASE Swap
  BY <1>1 DEF Swap, Done, WriteIsCopy, progress, host
<1>2. CASE Cload
  BY <1>2, MemTyped DEF Cload, Magic, End, Done, Where, OfWrite, At, Runs, TypeOK, host
<1>3. CASE WriteBlock
  <2>1. UNCHANGED <<on, target, swapped>> /\ pc \in Loops /\ on = target
    BY <1>3 DEF WriteBlock, InLoop, At, Runs, Done, Where, Loops
  <2>2. ~failed' /\ pc = "trailer" /\ s = 0
    BY <1>3, <2>1, BoundsAssumption DEF WriteBlock, InLoop, After, Goto, End, First, Done, Loops,
          TypeOK, Sectors
  <2>3. /\ Present /\ dump' = dump
        /\ \A i \in Sectors : Mem'.data[i] = dump.mem.data[i]
        /\ Mem'.uid = dump.mem.uid
        /\ \A k \in Slots : k[1] >= 0 => Mem'.key[k] = dump.mem.key[k]
    BY <1>3, <2>1, <2>2, WriteBlockCopies DEF Done
  <2>4. \A k \in Slots : k[1] >= 0
    BY BoundsAssumption DEF Slots, Sectors
  <2>5. Mem' \in Memory /\ dump.mem \in Memory
    BY <2>1, <2>3 DEF TypeOK, Mem, Present
  <2>6. Mem' = dump.mem
    BY <2>3, <2>4, <2>5, SameMemory
  <2> QED
    BY <2>1, <2>3, <2>6 DEF Mem
<1>4. CASE job' # "write" \/ pc' # "idle" \/ result' # "ok"
  BY <1>4 DEF Done
<1> QED
  BY <1>1, <1>2, <1>3, <1>4, WriteEnds

(***************************************************************************)
(* EraseIsWhole.  A data block that was not written ends the erasure, so   *)
(* the blocks behind it are clear; the trailers do not touch them.         *)
(***************************************************************************)
EraseSoFar ==
  (job = "erase" /\ pc \in Loops /\ Present /\ ~swapped /\ ~misled) =>
    \A i \in Sectors : (i > s \/ pc = "trailer") => Mem.data[i] = "blank"

LEMMA EraseBlockClears ==
  ASSUME TypeOK, Where, EraseSoFar, EraseBlock, ~swapped', ~misled', Present
  PROVE  /\ \A i \in Sectors : (i > s \/ pc = "trailer") => Mem'.data[i] = "blank"
         /\ After \/ (End("fail") /\ pc # "trailer")
         /\ (pc = "data" /\ After) => (Mem'.data[s] = "blank" \/ (pc' = "idle" /\ result' = "fail"))
<1> DEFINE Written == Present /\ Put(Block)
<1>1. PICK ok \in BOOLEAN :
        Outcome(ok) /\ (IF ok \/ pc = "trailer" THEN After ELSE End("fail") /\ UNCHANGED s)
  BY DEF EraseBlock
<1>2. job = "erase" /\ pc \in Loops /\ UNCHANGED <<on, swapped>> /\ ~misled
  BY <1>1, OutcomeOf DEF EraseBlock, InLoop, At, Runs, Loops
<1>3. s \in Sectors
  BY DEF TypeOK
<1>4. \A i \in Sectors : New.data[i] = "blank"
  BY <1>2, BlankTyped DEF New, TypeOK
<1>5. UNCHANGED card \/ Written
  BY <1>1, OutcomeOf
<1>6. \A i \in Sectors : (i > s \/ pc = "trailer") => Mem'.data[i] = "blank"
  <2>1. CASE UNCHANGED card
    BY <1>2, <2>1 DEF EraseSoFar, Mem
  <2>2. CASE Written
    BY <1>2, <1>3, <1>4, <2>2, BlockWritten DEF EraseSoFar
  <2> QED
    BY <1>5, <2>1, <2>2
<1>7. After \/ (End("fail") /\ pc # "trailer")
  BY <1>1
<1>8. (pc = "data" /\ After) => (Mem'.data[s] = "blank" \/ (pc' = "idle" /\ result' = "fail"))
  <2>1. CASE ok
    <3>1. Written
      BY <1>1, <2>1, OutcomeOf
    <3>2. pc = "data" => Mem'.data[s] = New.data[s]
      BY <1>2, <1>3, <3>1, BlockWritten
    <3> QED
      BY <1>3, <1>4, <3>2
  <2>2. CASE ~ok /\ pc = "data"
    BY <1>1, <2>2 DEF End
  <2> QED
    BY <2>1, <2>2
<1> QED
  BY <1>6, <1>7, <1>8

LEMMA EraseSoFarStep ==
  ASSUME TypeOK, Where, EraseSoFar, Next
  PROVE  EraseSoFar'
<1>1. CASE Swap
  BY <1>1 DEF Swap, EraseSoFar, progress, Loops
<1>2. CASE EraseFchk \/ EraseCancel
  BY <1>2, LoopBegins DEF EraseFchk, EraseCancel, EraseSoFar, End, Goto, Loops
<1>3. CASE WriteFchk \/ WriteBlock
  BY <1>3 DEF WriteFchk, WriteBlock, InLoop, At, Runs, EraseSoFar, Where, OfWrite
<1>4. CASE EraseBlock
  <2> SUFFICES ASSUME pc' \in Loops, ~swapped', ~misled', Present'
               PROVE  \A i \in Sectors : (i > s' \/ pc' = "trailer") => Mem'.data[i] = "blank"
    BY DEF EraseSoFar
  <2>1. UNCHANGED on /\ Present
    BY <1>4 DEF EraseBlock, InLoop, At, Runs, Present
  <2>2. /\ \A i \in Sectors : (i > s \/ pc = "trailer") => Mem'.data[i] = "blank"
        /\ After
        /\ pc = "data" => Mem'.data[s] = "blank"
    BY <1>4, <2>1, EraseBlockClears DEF End, Loops
  <2>3. pc \in Loops /\ s \in Sectors /\ (pc = "uid" => s = 0)
    BY <1>4 DEF EraseBlock, InLoop, TypeOK, Where, Loops
  <2>4. CASE pc = "uid"
    BY <2>2, <2>3, <2>4 DEF After, Goto
  <2>5. CASE pc = "data"
    <3>1. \A i \in Sectors : i >= s => Mem'.data[i] = "blank"
      <4> TAKE i \in Sectors
      <4> HAVE i >= s
      <4>1. i = s \/ i > s
        BY <2>3, BoundsAssumption DEF Sectors
      <4> QED
        BY <2>2, <2>5, <4>1
    <3>2. CASE s > 0
      BY <2>2, <2>3, <2>5, <3>1, <3>2, BoundsAssumption DEF After, Goto, First, Sectors
    <3>3. CASE s = 0
      BY <3>1, <3>3, BoundsAssumption DEF Sectors
    <3> QED
      BY <2>3, <3>2, <3>3, BoundsAssumption DEF Sectors
  <2>6. CASE pc = "trailer"
    BY <2>2, <2>6
  <2> QED
    BY <2>3, <2>4, <2>5, <2>6 DEF Loops
<1>5. CASE WriteProbe \/ pc' \notin Loops
  BY <1>5 DEF WriteProbe, Backdoor, Goto, Loops, EraseSoFar
<1> QED
  BY <1>1, <1>2, <1>3, <1>4, <1>5, LoopMovers

LEMMA EraseStep ==
  ASSUME TypeOK, TypeOK', Where, Where', EraseSoFar, EraseIsWhole, Next
  PROVE  EraseIsWhole'
<1> SUFFICES ASSUME Done("erase")', ~misled', card'[target'].kind # "gen1a"
             PROVE  card'[target'].mem.data = [i \in Sectors |-> "blank"]
  BY DEF EraseIsWhole
<1>1. CASE Swap
  BY <1>1 DEF Swap, Done, EraseIsWhole, progress
<1>2. CASE Cwipe
  <2>1. Magic /\ on = target /\ UNCHANGED <<on, target>>
    BY <1>2 DEF Cwipe, At, Runs, Where, Done, OfErase
  <2>2. card'[on].kind = "gen1a"
    BY <1>2, <2>1, BlankTyped, PutTyped DEF Cwipe, Magic
  <2> QED
    BY <2>1, <2>2
<1>3. CASE EraseBlock
  <2>1. UNCHANGED <<on, target, swapped>> /\ pc \in Loops /\ on = target /\ Present
    BY <1>3 DEF EraseBlock, InLoop, At, Runs, Done, Where, Loops, Present
  <2>2. /\ \A i \in Sectors : (i > s \/ pc = "trailer") => Mem'.data[i] = "blank"
        /\ After
    BY <1>3, <2>1, EraseBlockClears DEF Done, End
  <2>3. pc = "trailer"
    BY <2>1, <2>2, BoundsAssumption DEF After, Goto, First, Done, Loops, TypeOK, Sectors
  <2>4. Mem' \in Memory
    BY <2>1 DEF TypeOK, Mem, Present
  <2> QED
    BY <2>1, <2>2, <2>3, <2>4 DEF Mem, Memory
<1>4. CASE job' # "erase" \/ pc' # "idle" \/ result' # "ok"
  BY <1>4 DEF Done
<1> QED
  BY <1>1, <1>2, <1>3, <1>4, EraseEnds

(***************************************************************************)
(* WriteWorks.  On a card that opens with the dictionary and a write that  *)
(* nothing disturbs, every block can be written when its turn comes.       *)
(***************************************************************************)
Opening == \A i \in Sectors : \E t \in {"A", "B"} : Mem.key[<<i, t>>] \in Dictionary
Easy ==
  (job = "write" /\ open /\ ~spoilt) =>
    /\ pc \in OfWrite \union Loops \union {"idle"} /\ pc # "cload"
    /\ pc # "idle" => Present /\ card[on].kind = "gen2" /\ ~stray /\ ~failed /\ ~swapped
    /\ pc \in OfWrite => Opening
    /\ pc \in Loops => \A i \in Sectors : ToCome(i) => \E t \in {"A", "B"} : keys[<<i, t>>] # "none"

LEMMA EasyCan ==
  ASSUME TypeOK, Where, KeysInv, Easy, job = "write", open, ~spoilt, pc \in Loops
  PROVE  Can
<1>1. Present /\ card[on].kind = "gen2" /\ ~swapped /\ s \in Sectors
  BY DEF Easy, TypeOK, Loops
<1>2. ToCome(s)
  BY <1>1, BoundsAssumption DEF ToCome, Loops, Sectors
<1>3. PICK t \in {"A", "B"} : keys[<<s, t>>] # "none"
  BY <1>2, <1>1 DEF Easy
<1>4. \A u \in {"A", "B"} : <<s, u>> \in Slots /\ keys[<<s, u>>] \in {"none", Mem.key[<<s, u>>]}
  BY <1>1, <1>2 DEF KeysInv, KeysOpen, Loops, Slots
<1> QED
  BY <1>1, <1>3, <1>4 DEF Can, Opens, KeyA, KeyB, Or

LEMMA EasyStep ==
  ASSUME TypeOK, Where, KeysInv, Easy, WriteWorks, Next
  PROVE  Easy' /\ WriteWorks'
<1> SUFFICES ASSUME job' = "write", open', ~spoilt'
             PROVE  Easy' /\ WriteWorks'
  BY DEF Easy, WriteWorks
<1>1. CASE Swap
  BY <1>1 DEF Swap, Easy, WriteWorks, Fault, Calm, progress, OfWrite, Loops
<1>2. CASE Scan \/ ReadStart \/ VerifyStart \/ EraseStart
  BY <1>2 DEF Scan, ReadStart, VerifyStart, EraseStart, Start
<1>3. CASE WriteStart
  BY <1>3 DEF WriteStart, Start, Easy, WriteWorks, Opening, OfWrite, Loops, Mem, Present, cards
<1>4. CASE WritePresent
  BY <1>4 DEF WritePresent, At, Runs, Reads, Calm, Fault, Fails, Goto, End, Easy, WriteWorks,
        Opening, OfWrite, Loops, Mem, Present
<1>5. CASE WriteProbe
  BY <1>5 DEF WriteProbe, At, Runs, Reads, Calm, Fault, Backdoor, Goto, Magic, Easy, WriteWorks,
        Opening, OfWrite, Loops, Mem, Present
<1>6. CASE WriteFchk
  <2>1. /\ job = "write" /\ open /\ ~spoilt /\ UNCHANGED <<card, on, stray, failed, swapped>>
        /\ keys' = With(keys, Found) /\ pc' \in {"uid", "data"} /\ pc = "w-fchk"
    BY <1>6 DEF WriteFchk, Fchk, Fault, Calm, At, Runs, Reads, Loop, First, Goto
  <2>2. Present /\ card[on].kind = "gen2" /\ ~stray /\ ~failed /\ ~swapped /\ Opening
    BY <2>1 DEF Easy, OfWrite
  <2>3. \A i \in Sectors : \E t \in {"A", "B"} : keys'[<<i, t>>] # "none"
    <3> TAKE i \in Sectors
    <3>1. PICK t \in {"A", "B"} : Mem.key[<<i, t>>] \in Dictionary
      BY <2>2 DEF Opening
    <3>2. <<i, t>> \in Found /\ <<i, t>> \in Slots
      BY <2>2, <3>1 DEF Found, Slots
    <3> QED
      BY <2>1, <3>1, <3>2 DEF With, Dictionary
  <2> QED
    BY <2>1, <2>2, <2>3 DEF Easy, WriteWorks, OfWrite, Loops, Present
<1>7. CASE WriteBlock
  <2>1. PICK ok \in BOOLEAN : Outcome(ok) /\ failed' = (failed \/ ~ok)
    BY <1>7 DEF WriteBlock
  <2>2. /\ job = "write" /\ pc \in Loops /\ After /\ UNCHANGED <<on, keys, open, swapped>> /\ open
        /\ s \in Sectors
    BY <1>7 DEF WriteBlock, InLoop, At, Runs, Loops, host, TypeOK
  <2>3. ~spoilt
    BY <2>1, <2>2 DEF Outcome, Calm, Fault, Fails
  <2>4. Can /\ Present /\ card[on].kind = "gen2" /\ ~stray /\ ~failed /\ ~swapped
    BY <2>2, <2>3, EasyCan DEF Easy, Loops
  <2>5. ok /\ Put(Block) /\ ~stray'
    BY <2>1, <2>4 DEF Outcome, Calm, Fault, Fails
  <2>6. ~failed' /\ card'[on].kind = "gen2"
    BY <2>1, <2>2, <2>4, <2>5, BlockWritten
  <2>7. pc' \in Loops \/ (pc' = "idle" /\ result' = "ok")
    BY <2>2, <2>6, BoundsAssumption DEF After, Goto, End, First, Loops, Sectors
  <2>8. ASSUME NEW i \in Sectors, pc' \in Loops, ToCome(i)'
        PROVE  ToCome(i)
    BY <2>2, <2>8, BoundsAssumption DEF After, ToCome, Goto, End, First, Loops, Sectors
  <2> QED
    BY <2>2, <2>3, <2>4, <2>5, <2>6, <2>7, <2>8 DEF Easy, WriteWorks, OfWrite, Loops, Present
<1>8. CASE Cload
  BY <1>8 DEF Cload, At, Runs, Calm, Fault, Fails, Easy
<1> QED
  BY <1>1, <1>2, <1>3, <1>4, <1>5, <1>6, <1>7, <1>8, WriteMovers

(***************************************************************************)
(* ReadIsExact.  Sectors below s have been read or have no key; those from *)
(* s on are still empty.                                                   *)
(***************************************************************************)
Known(i) == \E t \in {"A", "B"} : keys[<<i, t>>] # "none"
ReadSoFar ==
  (pc \in OfRead /\ ~swapped /\ Present) =>
    /\ dump.st = "none"
    /\ pc # "csave" => ~infos.gen1a
    /\ pc \notin {"sector", "save"} => s = 0
    /\ \A k \in Slots : keys[k] \in {"none", Mem.key[k]}
    /\ ~spoilt => \A i \in Sectors :
         \/ dump.mem.data[i] = Mem.data[i]
         \/ dump.mem.data[i] = "blank" /\ (Known(i) => (i >= s /\ pc # "save"))

LEMMA RecoversFrame ==
  ASSUME Recovers
  PROVE  /\ UNCHANGED <<cards, infos, dump, s, swapped>> /\ (~spoilt' => ~spoilt)
         /\ pc \in OfRead \ {"csave", "sector", "save"} /\ pc' \in (OfRead \ {"csave", "save"}) \union {"idle"}
BY DEF Recovers, FirstFchk, Fchk1, Darkside, Fchk2, Nested, Fchk3, Fchk, Further, Recovery, At,
      Runs, Reads, Kept, Calm,
       Fault, Goto, End, OfRead, cards

LEMMA KeysOfCard ==
  ASSUME TypeOK, KeysMoves, \A k \in Slots : keys[k] \in {"none", Mem.key[k]}
  PROVE  \A k \in Slots : keys'[k] \in {"none", Mem.key[k]}
BY KeysMove DEF KeysFrom, With, NoKeys

LEMMA ReadSectorExact ==
  ASSUME TypeOK, ReadSoFar, ReadSector, ~swapped, Present
  PROVE  /\ dump'.st = "none"
         /\ ~spoilt' => \A i \in Sectors :
              \/ dump'.mem.data[i] = Mem.data[i]
              \/ dump'.mem.data[i] = "blank" /\ (Known(i) => i > s)
<1>1. pc = "sector" /\ s \in Sectors /\ Mem \in Memory /\ (~spoilt' => ~spoilt)
  BY MemTyped DEF ReadSector, At, Runs, TypeOK, Calm, Fault, Fails
<1>2. /\ dump.st = "none"
      /\ \A k \in Slots : keys[k] \in {"none", Mem.key[k]}
      /\ ~spoilt => \A i \in Sectors :
           \/ dump.mem.data[i] = Mem.data[i]
           \/ dump.mem.data[i] = "blank" /\ (Known(i) => i >= s)
  BY <1>1 DEF ReadSoFar, OfRead
<1>3. \A i \in Sectors : i >= s => (i = s \/ i > s)
  BY <1>1, BoundsAssumption DEF Sectors
<1>4. CASE UNCHANGED dump /\ Fails(Authenticates(s))
  <2>1. Authenticates(s) => spoilt'
    BY <1>4 DEF Fails, Fault
  <2>2. Known(s) => Authenticates(s)
    BY <1>1, <1>2 DEF Known, Authenticates, Slots
  <2> QED
    BY <1>1, <1>2, <1>3, <1>4, <2>1, <2>2
<1>5. ASSUME NEW shown \in {Mem, [Mem EXCEPT !.key = [k \in Slots |-> "zero"]]},
             dump' = [dump EXCEPT !.mem = Sector(@, s, shown)]
      PROVE  /\ dump'.st = dump.st
             /\ \A i \in Sectors : dump'.mem.data[i] = (IF i = s THEN Mem.data[i] ELSE dump.mem.data[i])
  <2>1. shown.data = Mem.data
    BY <1>1 DEF Memory
  <2>2. dump'.st = dump.st /\ dump'.mem = Sector(dump.mem, s, shown) /\ dump.mem.data \in [Sectors -> Data]
    BY <1>5 DEF TypeOK, Memory
  <2>3. Sector(dump.mem, s, shown).data = [dump.mem.data EXCEPT ![s] = shown.data[s]]
    BY DEF Sector
  <2> QED
    BY <2>1, <2>2, <2>3
<1>6. CASE \E shown \in {Mem, [Mem EXCEPT !.key = [k \in Slots |-> "zero"]]} :
             dump' = [dump EXCEPT !.mem = Sector(@, s, shown)]
  BY <1>1, <1>2, <1>3, <1>5, <1>6
<1> QED
  BY <1>4, <1>6 DEF ReadSector

LEMMA ReadSoFarStep ==
  ASSUME TypeOK, TypeOK', Where, ReadSoFar, Next
  PROVE  ReadSoFar'
<1>1. CASE Swap
  BY <1>1 DEF Swap, ReadSoFar, progress, OfRead
<1>2. CASE ReadStart
  <2>1. /\ dump' = [st |-> "none", mem |-> Blank("zero")] /\ s' = 0 /\ keys' = NoKeys
        /\ pc' = (IF infos'.gen1a THEN "csave" ELSE "r-probe")
    BY <1>2 DEF ReadStart
  <2>2. \A i \in Sectors : dump'.mem.data[i] = "blank" /\ i >= 0
    BY <2>1, BlankTyped, BoundsAssumption DEF Sectors
  <2>3. \A k \in Slots : keys'[k] = "none"
    BY <2>1 DEF NoKeys
  <2> QED
    BY <2>1, <2>2, <2>3 DEF ReadSoFar, Slots
<1>3. CASE ReadProbe
  BY <1>3 DEF ReadProbe, At, Runs, Reads, Calm, Fault, Fails, Goto, ReadSoFar, Known, OfRead, Mem,
        Present
<1>4. CASE Recovers
  <2> SUFFICES ASSUME pc' # "idle", ~swapped', Present'
               PROVE  ReadSoFar'
    BY DEF ReadSoFar, OfRead
  <2>1. /\ UNCHANGED <<cards, infos, dump, s, swapped>> /\ (~spoilt' => ~spoilt)
        /\ pc \in OfRead \ {"csave", "sector", "save"} /\ pc' \in OfRead \ {"csave", "save"}
    BY <1>4, RecoversFrame
  <2>2. ~swapped /\ Present /\ Mem' = Mem
    BY <2>1 DEF Present, Mem, cards
  <2>3. \A k \in Slots : keys'[k] \in {"none", Mem.key[k]}
    BY <1>4, <2>1, <2>2, KeysOfCard DEF ReadSoFar, KeysMoves, Recovers
  <2>4. s = 0 /\ \A i \in Sectors : i >= 0
    BY <2>1, <2>2, BoundsAssumption DEF ReadSoFar, Sectors
  <2> QED
    BY <2>1, <2>2, <2>3, <2>4 DEF ReadSoFar
<1>5. CASE ReadSector
  <2> SUFFICES ASSUME pc' # "idle", ~swapped', Present'
               PROVE  ReadSoFar'
    BY DEF ReadSoFar, OfRead
  <2>1. /\ UNCHANGED <<card, on, infos, keys, swapped>> /\ pc = "sector" /\ ~swapped /\ Present /\ Mem' = Mem
        /\ s \in Sectors
    BY <1>5 DEF ReadSector, At, Runs, Reads, Mem, Present, TypeOK
  <2>2. /\ dump'.st = "none"
        /\ ~spoilt' => \A i \in Sectors :
              \/ dump'.mem.data[i] = Mem.data[i]
              \/ dump'.mem.data[i] = "blank" /\ (Known(i) => i > s)
    BY <1>5, <2>1, ReadSectorExact
  <2>3. ~infos.gen1a /\ \A k \in Slots : keys[k] \in {"none", Mem.key[k]}
    BY <2>1 DEF ReadSoFar, OfRead
  <2>4. \A i \in Sectors : Known(i)' = Known(i)
    BY <2>1 DEF Known
  <2>5. CASE s < N - 1 /\ s' = s + 1 /\ pc' = "sector"
    <3>1. \A i \in Sectors : i > s => i >= s'
      BY <2>1, <2>5, BoundsAssumption DEF Sectors
    <3> QED
      BY <2>1, <2>2, <2>3, <2>4, <2>5, <3>1 DEF ReadSoFar
  <2>6. CASE ~(s < N - 1) /\ pc' = "save"
    <3>1. \A i \in Sectors : ~(i > s)
      BY <2>1, <2>6, BoundsAssumption DEF Sectors
    <3> QED
      BY <2>1, <2>2, <2>3, <2>4, <2>6, <3>1 DEF ReadSoFar
  <2> QED
    BY <1>5, <2>5, <2>6 DEF ReadSector, Goto, End
<1>6. CASE pc' \notin OfRead
  BY <1>6 DEF ReadSoFar
<1> QED
  BY <1>1, <1>2, <1>3, <1>4, <1>5, <1>6, ReadMovers

LEMMA ReadStep ==
  ASSUME TypeOK, Where, ReadSoFar, ReadIsExact, Next
  PROVE  ReadIsExact'
<1> SUFFICES ASSUME Done("read")', ~spoilt', dump'.st = "file", NEW i \in Sectors
             PROVE  LET known == \E t \in {"A", "B"} : keys'[<<i, t>>] # "none"
                        own   == card'[target'].mem.data[i]
                    IN  dump'.mem.data[i] = own \/ (dump'.mem.data[i] = "blank" /\ ~known /\ ~infos'.gen1a)
  BY DEF ReadIsExact
<1>1. CASE Swap
  BY <1>1 DEF Swap, Done, ReadIsExact, progress, host, Calm, Fault
<1>2. CASE Csave \/ Save
  <2>1. UNCHANGED <<card, on, target, swapped, keys, infos>> /\ on = target /\ Present /\ ~swapped /\ (~spoilt' => ~spoilt)
    BY <1>2 DEF Csave, Save, At, Runs, Reads, Done, Where, Present, Calm, Fault, Fails
  <2>2. CASE Csave
    BY <2>1, <2>2 DEF Csave, Mem
  <2>3. CASE Save
    BY <2>1, <2>3 DEF Save, At, Runs, ReadSoFar, OfRead, Known, Mem, TypeOK
  <2> QED
    BY <1>2, <2>2, <2>3
<1>3. CASE job' # "read" \/ pc' # "idle" \/ result' # "ok"
  BY <1>3 DEF Done
<1> QED
  BY <1>1, <1>2, <1>3, ReadEnds

-----------------------------------------------------------------------------
IInv == /\ TypeOK /\ Where /\ KeysInv /\ WriteSoFar /\ EraseSoFar /\ Easy /\ ReadSoFar
        /\ WriteIsCopy /\ EraseIsWhole /\ WriteWorks /\ ReadIsExact

LEMMA IInvInit == Init => IInv
<1> SUFFICES ASSUME Init PROVE IInv
  OBVIOUS
<1>1. TypeOK /\ pc = "idle" /\ job = "none"
  BY TypeInit DEF Init
<1> QED
  BY <1>1 DEF IInv, Where, KeysInv, KeysOpen, WriteSoFar, EraseSoFar, Easy, ReadSoFar, WriteIsCopy,
        EraseIsWhole,
              WriteWorks, ReadIsExact, Done, OfRead, OfWrite, OfErase, Loops

LEMMA IInvStep == IInv /\ [Next]_vars => IInv'
<1> SUFFICES ASSUME IInv, [Next]_vars PROVE IInv'
  OBVIOUS
<1>1. CASE Next
  BY <1>1, TypeStep, WhereStep, KeysStep, WriteSoFarStep, EraseSoFarStep, EasyStep, ReadSoFarStep,
        CopyStep, EraseStep, ReadStep
     DEF IInv
<1>2. CASE UNCHANGED vars
  <2>1. UNCHANGED <<card, on, infos, keys, dump, job, pc, s, info, failed, result, stray, target, open, spoilt, swapped,
                    misled, cancelled, jobs, faults>>
    BY <1>2 DEF vars, cards, host, progress, history
  <2>2. TypeOK' /\ Where' /\ KeysInv'
    BY <2>1 DEF IInv, TypeOK, Where, Magic, Present, KeysInv, KeysOpen, ToCome, Mem
  <2>3. WriteSoFar' /\ EraseSoFar' /\ Easy'
    BY <2>1 DEF IInv, WriteSoFar, EraseSoFar, Easy, Opening, ToCome, Mem, Present
  <2>4. ReadSoFar'
    BY <2>1 DEF IInv, ReadSoFar, Known, Mem, Present
  <2>5. WriteIsCopy' /\ EraseIsWhole' /\ WriteWorks' /\ ReadIsExact'
    BY <2>1 DEF IInv, WriteIsCopy, EraseIsWhole, WriteWorks, ReadIsExact, Done
  <2> QED
    BY <2>2, <2>3, <2>4, <2>5 DEF IInv
<1> QED
  BY <1>1, <1>2

\* Cards, files, maps of keys and the state of the jobs are well typed, for every number of
\* sectors, cards, jobs and faults.
THEOREM TypeCorrect == Spec => []TypeOK
<1>1. IInv => TypeOK
  BY DEF IInv
<1> QED
  BY <1>1, IInvInit, IInvStep, PTL DEF Spec

\* Each key of the map opens its sector when its turn comes, whatever was recovered, failed
\* or was left before: the map is cleared before the keys of a card to write are looked
\* for, and a trailer is written when its sector's blocks have been.
THEOREM KeysCorrect == Spec => []KeysOpen
<1>1. IInv => KeysOpen
  BY DEF IInv, KeysInv
<1> QED
  BY <1>1, IInvInit, IInvStep, PTL DEF Spec

\* A write that reports success, of hf_mf_write's loop or of cload, has left the whole file
\* on the card, with every number of failed and repeated commands.
THEOREM CopyCorrect == Spec => []WriteIsCopy
<1>1. IInv => WriteIsCopy
  BY DEF IInv
<1> QED
  BY <1>1, IInvInit, IInvStep, PTL DEF Spec

\* A write that nothing disturbs works on every card whose sectors open with the dictionary.
THEOREM WriteCorrect == Spec => []WriteWorks
<1>1. IInv => WriteWorks
  BY DEF IInv
<1> QED
  BY <1>1, IInvInit, IInvStep, PTL DEF Spec

\* A read that nothing disturbs has every sector it has a key of, of a card of any size.
THEOREM ReadCorrect == Spec => []ReadIsExact
<1>1. IInv => ReadIsExact
  BY DEF IInv
<1> QED
  BY <1>1, IInvInit, IInvStep, PTL DEF Spec

\* An erasure that reports success has cleared every data block, of a card of any size.
THEOREM EraseCorrect == Spec => []EraseIsWhole
<1>1. IInv => EraseIsWhole
  BY DEF IInv
<1> QED
  BY <1>1, IInvInit, IInvStep, PTL DEF Spec
=============================================================================
