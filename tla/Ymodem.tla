------------------------------- MODULE Ymodem -------------------------------
(***************************************************************************)
(* ymodem.py: send and recv_file at the two ends of a serial line that     *)
(* loses and garbles packets and answers.  A packet is its block number,   *)
(* 0 for the file name and End for the null packet of the end of a batch;  *)
(* YModemSTM32.send is the same sender.  A packet without its first byte   *)
(* ("head") is read byte by byte for what it may begin; any other damage   *)
(* is caught by its CRC.  A garbled answer or single byte is none of the   *)
(* protocol's.  getc returns nothing when its timeout passes: as a rule    *)
(* with the line silent, but a slow receiver ("early") can make the sender *)
(* give up on an answer that is on its way.                                *)
(***************************************************************************)
EXTENDS Naturals, Sequences, FiniteSets

CONSTANTS MaxBlocks,   \* blocks of the file
          Retry,       \* the senders' retry parameter, 20 by default
          MaxLineFaults \* faults in a behaviour
ASSUME SizeAssumption == MaxBlocks \in Nat /\ Retry \in Nat \ {0} /\ MaxLineFaults \in Nat \ {0}

VARIABLES
  size,              \* blocks in this file
  stage, blk, err, naks, result,   \* the sender
  phase, file,       \* the receiver, and the blocks it has written
  toR, toS,          \* what is on the line
  seen, lineFaults   \* kinds of faults met, and their number
sender == <<stage, blk, err, naks, result>>
receiver == <<phase, file>>
line == <<toR, toS>>
lineVars == <<size, sender, receiver, line, seen, lineFaults>>

End == MaxBlocks + 1
Garbage == "garbage"
Packet(n) == [kind |-> "packet", n |-> n, ok |-> TRUE]
Byte(b) == [kind |-> b, n |-> 0, ok |-> TRUE]
Message == [kind : {"packet", "EOT", "CAN", Garbage, "short"}, n : 0..End, ok : BOOLEAN]

Phases == {"header", "cancelled once", "data", "eot", "batch", "name", "none"}

LineTypeOK ==
  /\ size \in 0..MaxBlocks /\ blk \in 1..End /\ err \in 0..(2 * Retry) /\ naks \in 0..Retry
  /\ stage \in {"crc", "name", "ready", "data", "eot", "null", "over"}
  /\ result \in {"none", "true", "false"}
  /\ phase \in Phases
  /\ file \in Seq(0..End) /\ Len(file) <= size
  /\ toR \in Seq(Message) /\ toS \in Seq({"C", "ACK", "NAK", Garbage})
  /\ seen \subseteq {"packet", "head", "answer", "early"} /\ lineFaults \in 0..MaxLineFaults

\* recv_file has sent its C, once.
LineInit ==
  /\ size \in 0..MaxBlocks
  /\ stage = "crc" /\ blk = 1 /\ err = 0 /\ naks = 0 /\ result = "none"
  /\ phase = "header" /\ file = <<>>
  /\ toR = <<>>
  /\ \/ toS = <<"C">> /\ seen = {} /\ lineFaults = 0
     \/ toS \in {<<>>, <<Garbage>>} /\ seen = {"answer"} /\ lineFaults = 1
--------------------------------------------------------------------------
\* The line: what is put may arrive whole, garbled or not at all.
LineFault(kind) == /\ lineFaults < MaxLineFaults /\ lineFaults' = lineFaults + 1
                   /\ seen' = seen \union {kind}
Faultless == UNCHANGED <<seen, lineFaults>>
Spoilt(m) == IF m.kind = "packet" THEN [m EXCEPT !.ok = FALSE] ELSE Byte(Garbage)
\* What is left of a packet without its first byte, as far as recv_file looks at it: up to
\* two EOT, then bytes that begin nothing, CAN, or a SOH or STX, which takes the rest and
\* is short.  No more than three bytes are read before it returns.
Strays == {ends \o rest :
             ends \in {<<>>, <<Byte("EOT")>>, <<Byte("EOT"), Byte("EOT")>>},
             rest \in {<<>>, <<Byte("short")>>} \union
                      UNION {{<<b>>, <<b, b>>} : b \in {Byte("CAN"), Byte(Garbage)}}}
ToReceiver(m) ==
  \/ toR' = Append(toR, m) /\ Faultless
  \/ toR' = Append(toR, Spoilt(m)) /\ LineFault("packet")
  \/ toR' = toR /\ LineFault("packet")
  \/ m.kind = "packet" /\ (\E s \in Strays : toR' = toR \o s) /\ LineFault("head")
Answer(s) ==
  \/ toS' = toS \o s /\ Faultless
  \/ \E i \in 1..Len(s) : toS' = toS \o [s EXCEPT ![i] = Garbage] /\ LineFault("answer")
  \/ toS' = toS \o Tail(s) /\ LineFault("answer")
--------------------------------------------------------------------------
\* send: getc gives a byte or, after its timeout, nothing.
Got(b) == toS # <<>> /\ Head(toS) = b /\ toS' = Tail(toS)
Silence == toS = <<>> /\ UNCHANGED toS
Early == toR # <<>>
Return(r) == result' = r /\ stage' = "over" /\ UNCHANGED <<blk, err, naks>>
\* abort puts two CAN and send returns False.
Abort == /\ Return("false") /\ toR' = toR \o <<Byte("CAN"), Byte("CAN")>> /\ Faultless
Goto(s) == stage' = s /\ err' = 0 /\ naks' = 0 /\ UNCHANGED result
Count_Never == UNCHANGED <<err, stage, blk, naks, result>>
Count == err' = err + 1 /\ UNCHANGED <<stage, blk, naks, result>>
Last == err + 1 >= Retry
At(s) == stage = s /\ UNCHANGED <<size, receiver>>
\* A timeout while the line still carries something is a fault of its own.
Quiet == IF Early THEN LineFault("early") ELSE Faultless
TimeoutWait(s) == At(s) /\ Silence /\ ((~Last /\ Count /\ Quiet /\ UNCHANGED toR) \/ (Last /\ ~Early /\ Abort))
\* An unexpected byte is counted where only a timeout looks at the count.
Unexpected(s, expected) == /\ At(s) /\ \E b \in {"C", "ACK", "NAK", Garbage} \ expected : Got(b)
                           /\ err' = (IF Last THEN err ELSE err + 1)
                           /\ UNCHANGED <<stage, blk, naks, result, toR>> /\ Faultless

CrcC == At("crc") /\ Got("C") /\ Goto("name") /\ UNCHANGED blk /\ ToReceiver(Packet(0))
CrcOther == TimeoutWait("crc") \/ Unexpected("crc", {"C"})
NameAck == At("name") /\ Got("ACK") /\ Goto("ready") /\ UNCHANGED <<blk, toR>> /\ Faultless
NameNak == /\ At("name") /\ Got("NAK")
           /\ (Last /\ Abort) \/ (~Last /\ Count /\ ToReceiver(Packet(0)))
NameOther == TimeoutWait("name") \/ Unexpected("name", {"ACK", "NAK"})
ReadyOther == TimeoutWait("ready") \/ Unexpected("ready", {"C"})
\* The next block, or EOT after the last one.
SendNext(b) == /\ blk' = b
               /\ \/ b <= size /\ Goto("data") /\ ToReceiver(Packet(b))
                  \/ b > size /\ Goto("eot") /\ ToReceiver(Byte("EOT"))
ReadyC == At("ready") /\ Got("C") /\ SendNext(1)
DataAck == At("data") /\ Got("ACK") /\ SendNext(blk + 1)
Resend_Next == ToReceiver(Packet(IF blk < size THEN blk + 1 ELSE blk))
Resend == ToReceiver(Packet(blk))
DataNak == /\ At("data") /\ Got("NAK")
           /\ \/ naks + 1 >= Retry /\ Abort
              \/ /\ naks + 1 < Retry /\ naks' = naks + 1 /\ err' = err + 1
                 /\ UNCHANGED <<stage, blk, result>> /\ Resend
\* A timeout or any other byte: the packet again.
DataOther == /\ At("data")
             /\ (Silence /\ ~Early) \/ (\E b \in {"C", Garbage} : Got(b))
             /\ (Last /\ Abort) \/ (~Last /\ Count /\ Resend)
DataEarly == At("data") /\ Silence /\ Early /\ ~Last /\ Count /\ LineFault("early")
             /\ toR' = Append(toR, Packet(blk))
EotAck == At("eot") /\ Got("ACK") /\ Goto("null") /\ UNCHANGED blk /\ ToReceiver(Packet(End))
EotCounted == /\ At("eot") /\ ((Silence /\ ~Early) \/ Got("NAK"))
              /\ (Last /\ Abort) \/ (~Last /\ Count /\ ToReceiver(Byte("EOT")))
EotUnexpected == /\ At("eot") /\ (Got("C") \/ Got(Garbage))
                 /\ err' = (IF Last THEN err ELSE err + 1) /\ UNCHANGED <<stage, blk, naks, result>>
                 /\ ToReceiver(Byte("EOT"))
\* The last ACK is waited for but not insisted on.
NullAck == At("null") /\ Got("ACK") /\ Return("true") /\ UNCHANGED toR /\ Faultless
NullOther == /\ At("null") /\ ((Silence /\ ~Early) \/ \E b \in {"C", "NAK", Garbage} : Got(b))
             /\ (Last /\ Return("true")) \/ (~Last /\ Count)
             /\ UNCHANGED toR /\ Faultless
--------------------------------------------------------------------------
\* recv_file
Take(p) == /\ phase = p /\ toR # <<>> /\ toR' = Tail(toR) /\ UNCHANGED <<size, sender>>
Msg == Head(toR)
Quietly(p) == phase' = p /\ UNCHANGED <<file, toS>> /\ Faultless
\* wait_for_header, the name packet; a bad one ends recv_file, a short one silently, and so
\* does the second CAN.
Header ==
  /\ \E p \in {"header", "cancelled once"} : Take(p)
  /\ \/ /\ Msg.kind = "packet" /\ Msg.ok /\ Answer(<<"ACK", "C">>)
        /\ phase' = (IF Msg.n = End THEN "none" ELSE "data") /\ UNCHANGED file
     \/ Msg.kind = "packet" /\ ~Msg.ok /\ Answer(<<"NAK">>) /\ phase' = "none" /\ UNCHANGED file
     \/ Msg.kind = "short" /\ Quietly("none")
     \/ Msg.kind = "CAN" /\ Quietly(IF phase = "header" THEN "cancelled once" ELSE "none")
     \/ Msg.kind \in {"EOT", Garbage} /\ Quietly(phase)
\* A block is written as it comes: its sequence number is not looked at.  The file is
\* cut at the size announced.
WithBlock(n) == IF Len(file) < size THEN Append(file, n) ELSE file
Data_CrcAfterWrite ==
  /\ Take("data") /\ Msg.kind = "packet" /\ file' = WithBlock(Msg.n) /\ UNCHANGED phase
  /\ (Msg.ok /\ Answer(<<"ACK">>)) \/ (~Msg.ok /\ Answer(<<"NAK">>))
Data == /\ Take("data") /\ Msg.kind = "packet"
        /\ \/ Msg.ok /\ file' = WithBlock(Msg.n) /\ Answer(<<"ACK">>)
           \/ ~Msg.ok /\ Answer(<<"NAK">>) /\ UNCHANGED file
        /\ UNCHANGED phase
\* A short packet takes what follows for what it misses, a packet's head with it.
Swallowed(t) == IF t # <<>> /\ Head(t).kind = "packet" THEN {s \o Tail(t) : s \in Strays}
                ELSE {t} \union (IF t = <<>> THEN {} ELSE {Tail(t)})
DataShort == /\ phase = "data" /\ toR # <<>> /\ Msg.kind = "short"
             /\ toR' \in Swallowed(Tail(toR)) /\ Answer(<<"NAK">>)
             /\ UNCHANGED <<size, sender, receiver>>
DataEot == Take("data") /\ Msg.kind = "EOT" /\ Answer(<<"NAK">>) /\ phase' = "eot" /\ UNCHANGED file
DataCan == Take("data") /\ Msg.kind = "CAN" /\ Answer(<<"C">>) /\ phase' = "batch" /\ UNCHANGED file
DataGarbage == Take("data") /\ Msg.kind = Garbage /\ Quietly("data")
\* One byte is read for the second EOT, whatever it is.
SecondEot == /\ phase = "eot" /\ toR # <<>> /\ phase' = "batch" /\ UNCHANGED <<size, sender, file>>
             /\ toR' = IF Msg.kind \in {"packet", "short"} THEN <<Byte(Garbage)>> \o Tail(toR)
                       ELSE Tail(toR)
             /\ Answer(IF Msg.kind = "EOT" THEN <<"ACK", "C">> ELSE <<"C">>)
Batch == Take("batch") /\ Answer(<<"ACK">>) /\ phase' = "name" /\ UNCHANGED file
\* recv_file has returned.
Ignored == /\ phase \in {"name", "none"} /\ toR # <<>> /\ toR' = <<>>
           /\ UNCHANGED <<size, sender, receiver, toS, seen, lineFaults>>

Send == \/ CrcC \/ CrcOther \/ NameAck \/ NameNak \/ NameOther \/ ReadyC \/ ReadyOther
        \/ DataAck \/ DataNak \/ DataOther \/ DataEarly \/ EotAck \/ EotCounted \/ EotUnexpected
        \/ NullAck \/ NullOther
Receive == Header \/ Data \/ DataShort \/ DataEot \/ DataCan \/ DataGarbage \/ SecondEot \/ Batch \/ Ignored
LineNext == Send \/ Receive
LineSpec == LineInit /\ [][LineNext]_lineVars /\ WF_lineVars(Send) /\ WF_lineVars(Receive)
--------------------------------------------------------------------------
\* A send that returns True has left an exact copy, whatever packets the line lost or
\* garbled behind their first byte, if every answer arrived in time.
ExactCopy == (result = "true" /\ seen \subseteq {"packet"}) => file = [i \in 1..size |-> i]

\* Lost answers make recv_file write blocks twice, and packets without their head may end
\* it early, but it never leaves a block out between others: only a sender that gives up
\* on an answer too early can pair it with the wrong block.
NoSkip == "early" \notin seen =>
  \A i \in 1..Len(file) : LET before == IF i = 1 THEN 0 ELSE file[i - 1]
                          IN  file[i] = before + 1 \/ (i > 1 /\ file[i] = before)

\* send counts every wait that brings nothing, so it returns on any line that falls silent.
\* A byte it does not expect is counted and not limited (ymodem.py:414, 462, 486, 591):
\* nothing here is said of a line that chatters for ever.
SendReturns == <>(stage = "over")
--------------------------------------------------------------------------
\* What the source says and the code does not do.

\* "Returns: True on success, False on failure" (ymodem.py:394): EOT EOT in a block that has
\* lost its head is answered with NAK, ACK, C, ACK, which send takes for the block, its own
\* EOT and the null packet.
TrueOnSuccess == (result = "true" /\ seen \subseteq {"packet", "head"}) =>
                   file = [i \in 1..size |-> i]
=============================================================================
