---------------------------- MODULE PacketReader ----------------------------
(***************************************************************************)
(* How the three readers of the library cut a TCP byte stream into         *)
(* packets: CoLa2ProtocolHandler::readProtocol, CoLaBProtocolHandler::     *)
(* readProtocol and VisionaryDataStream::getNextFrame with syncCoLa.  A    *)
(* packet is a run of four STX, a length field and as many bytes as the    *)
(* field says (CoLaB: one more, the checksum).  Other bytes may come in    *)
(* between, a receive returns any part of what it was asked for, and it    *)
(* times out when nothing comes: then what was received of a packet is     *)
(* lost and the next read goes on behind it.                               *)
(*                                                                         *)
(* The four bytes of the length field are two here, the greater one first. *)
(***************************************************************************)
EXTENDS Integers, Sequences, SequencesExt

CONSTANTS
  Inputs,      \* for each reader that is considered, the byte streams the peer
               \* may send to it before it closes the connection
  ByteValues,  \* number of values of a byte
  MaxTimeouts  \* bound: receives that time out before the rest comes

STX == 2

\* Protocol version and packet type of a data stream packet.
BlobHeader == <<0, 1, 98>>

ASSUME ByteAssumption == ByteValues \in Nat \ {0}
ASSUME TimeoutsAssumption == MaxTimeouts \in Nat
ASSUME InputsAssumption ==
  /\ DOMAIN Inputs \subseteq {"CoLa2", "CoLaB", "DataStream"}
  /\ \A r \in DOMAIN Inputs : Inputs[r] \subseteq Seq(Nat)

VARIABLES
  reader,   \* "CoLa2", "CoLaB" or "DataStream"
  input,    \* what the peer sends
  pos,      \* number of bytes received so far
  where,    \* "scan", "body", and how a read ended: "done", "failed", "undefined"
  stxLeft,  \* stxRecvLeft: STX still missing for a run of four
  chunk,    \* the received bytes the scan has not looked at
  length,   \* the length field of the current packet
  packets,  \* the payloads returned so far
  timeouts  \* number of receives that timed out

peer == <<reader, input>>
vars == <<peer, pos, where, stxLeft, chunk, length, packets, timeouts>>

Available == Len(input) - pos

LengthSize == 2
LengthAt(s, p) == (s[p + 1] * ByteValues + s[p + 2]) % (ByteValues * ByteValues)

\* Bytes asked for after the length field.  CoLaB adds the checksum, in the
\* unsigned arithmetic of the field.
BodySize(r, n) == IF r = "CoLaB" THEN (n + 1) % (ByteValues * ByteValues) ELSE n

\* Lengths for which a packet is thrown away: CoLa2 after it was received,
\* the data stream before.
MinLength == [CoLa2 |-> 2, CoLaB |-> 0, DataStream |-> 3]

\* Only the data stream looks at its headers, after it has received the packet.
HeaderAccepted(r, body) == r = "DataStream" => SubSeq(body, 1, 3) = BlobHeader

\* What is handed on: without HubCtr and NoC in CoLa2, without the checksum in
\* CoLaB, without protocol version and packet type in the data stream.
Payload(r, body) ==
  CASE r = "CoLa2"      -> SubSeq(body, 3, Len(body))
    [] r = "CoLaB"      -> SubSeq(body, 1, Len(body) - 1)
    [] r = "DataStream" -> SubSeq(body, 4, Len(body))

-----------------------------------------------------------------------------
Init ==
  /\ reader \in DOMAIN Inputs
  /\ input \in Inputs[reader]
  /\ pos = 0
  /\ where = "scan"
  /\ stxLeft = 4
  /\ chunk = <<>>
  /\ length = 0
  /\ packets = <<>>
  /\ timeouts = 0

\* A receive: the data stream asks for one byte, the handlers for as many as
\* the run still needs.  Any part of it may be delivered.
ReceiveForScan ==
  /\ where = "scan" /\ stxLeft > 0 /\ chunk = <<>>
  /\ \E n \in 1..(IF reader = "DataStream" THEN 1 ELSE stxLeft) :
       /\ n <= Available
       /\ chunk' = SubSeq(input, pos + 1, pos + n)
       /\ pos' = pos + n
  /\ UNCHANGED <<peer, where, stxLeft, length, packets, timeouts>>

\* The peer has closed the connection.
ClosedInScan ==
  /\ where = "scan" /\ stxLeft > 0 /\ chunk = <<>> /\ Available = 0
  /\ where' = "failed"
  /\ UNCHANGED <<peer, pos, stxLeft, chunk, length, packets, timeouts>>

ScanStx ==
  /\ where = "scan" /\ chunk # <<>> /\ Head(chunk) = STX
  /\ stxLeft' = stxLeft - 1
  /\ chunk' = Tail(chunk)
  /\ UNCHANGED <<peer, pos, where, length, packets, timeouts>>

\* Fault: another byte does not break the run.
ScanOtherKeepsCount ==
  /\ where = "scan" /\ chunk # <<>> /\ Head(chunk) # STX
  /\ chunk' = Tail(chunk)
  /\ UNCHANGED <<peer, pos, where, stxLeft, length, packets, timeouts>>

\* Another byte starts the search anew.  CoLaB erases what it has looked at
\* and keeps this byte, which it then looks at again.
ScanOther ==
  /\ where = "scan" /\ chunk # <<>> /\ Head(chunk) # STX
  /\ stxLeft' = 4
  /\ chunk' = IF reader = "CoLaB" THEN chunk ELSE Tail(chunk)
  /\ UNCHANGED <<peer, pos, where, length, packets, timeouts>>

\* Fault: a length too short for the headers is accepted.
ReadLengthUnchecked ==
  /\ where = "scan" /\ stxLeft = 0 /\ Available >= LengthSize
  /\ pos' = pos + LengthSize
  /\ length' = LengthAt(input, pos)
  /\ where' = "body"
  /\ UNCHANGED <<peer, stxLeft, chunk, packets, timeouts>>

\* The run is complete: the length field follows.
ReadLength ==
  /\ where = "scan" /\ stxLeft = 0 /\ Available >= LengthSize
  /\ pos' = pos + LengthSize
  /\ length' = LengthAt(input, pos)
  /\ where' = IF reader = "DataStream" /\ length' < MinLength[reader]
                THEN "failed" ELSE "body"
  /\ UNCHANGED <<peer, stxLeft, chunk, packets, timeouts>>

\* The peer closes the connection before or inside the length field.
ClosedAtLength ==
  /\ where = "scan" /\ stxLeft = 0 /\ Available < LengthSize
  /\ pos' = Len(input)
  /\ where' = "failed"
  /\ UNCHANGED <<peer, stxLeft, chunk, length, packets, timeouts>>

\* Fault: the checksum stays in the stream.
ReadBodyOnly ==
  /\ where = "body" /\ length <= Available
  /\ pos' = pos + length
  /\ packets' = Append(packets, SubSeq(input, pos + 1, pos'))
  /\ where' = "done"
  /\ UNCHANGED <<peer, stxLeft, chunk, length, timeouts>>

\* All of the body has arrived.  With nothing read at all, CoLaB drops the
\* last byte of an empty vector.
ReadBody ==
  LET size == BodySize(reader, length)
      body == SubSeq(input, pos + 1, pos + size)
  IN  /\ where = "body" /\ size <= Available
      /\ pos' = pos + size
      /\ where' = IF reader = "CoLaB" /\ size = 0 THEN "undefined"
                  ELSE IF length < MinLength[reader] \/ ~HeaderAccepted(reader, body) THEN "failed"
                  ELSE "done"
      /\ packets' = IF where' = "done" THEN Append(packets, Payload(reader, body)) ELSE packets
      /\ UNCHANGED <<peer, stxLeft, chunk, length, timeouts>>

\* The peer closes the connection inside a body.
ClosedInBody ==
  /\ where = "body" /\ BodySize(reader, length) > Available
  /\ pos' = Len(input)
  /\ where' = "failed"
  /\ UNCHANGED <<peer, stxLeft, chunk, length, packets, timeouts>>

\* A receive finds nothing for the time set, and what came before it in the
\* same read is dropped with the buffer.
TimedOut(received) ==
  /\ received <= Available
  /\ timeouts < MaxTimeouts
  /\ timeouts' = timeouts + 1
  /\ pos' = pos + received
  /\ where' = "failed"
  /\ UNCHANGED <<peer, stxLeft, chunk, length, packets>>

TimeoutInScan == where = "scan" /\ stxLeft > 0 /\ chunk = <<>> /\ TimedOut(0)

TimeoutInLength ==
  /\ where = "scan" /\ stxLeft = 0
  /\ \E received \in 0..(LengthSize - 1) : TimedOut(received)

\* Fault: what was received of the body is handed on.
TimeoutKeepsBody ==
  /\ where = "body"
  /\ \E received \in 0..(BodySize(reader, length) - 1) :
       /\ received <= Available
       /\ timeouts < MaxTimeouts
       /\ timeouts' = timeouts + 1
       /\ pos' = pos + received
       /\ packets' = Append(packets, SubSeq(input, pos + 1, pos'))
       /\ where' = "done"
  /\ UNCHANGED <<peer, stxLeft, chunk, length>>

TimeoutInBody ==
  /\ where = "body"
  /\ \E received \in 0..(BodySize(reader, length) - 1) : TimedOut(received)

\* The next command waits for its answer, the grabber for the next frame.
NextRead ==
  /\ where \in {"done", "failed"} /\ Available > 0
  /\ where' = "scan"
  /\ stxLeft' = 4
  /\ chunk' = <<>>
  /\ UNCHANGED <<peer, pos, length, packets, timeouts>>

AllRead ==
  /\ where \in {"done", "failed"} /\ Available = 0
  /\ UNCHANGED vars

Scan == ReceiveForScan \/ ClosedInScan \/ ScanStx \/ ScanOther
Read == ReadLength \/ ClosedAtLength \/ ReadBody \/ ClosedInBody
Timeout == TimeoutInScan \/ TimeoutInLength \/ TimeoutInBody
Next == Scan \/ Read \/ Timeout \/ NextRead \/ AllRead

Spec     == Init /\ [][Next]_vars
FairSpec == Spec /\ WF_vars(Next)

-----------------------------------------------------------------------------
(* The packets of a stream, defined on the whole stream at once.           *)

\* Ends of a run of four STX that begins after p bytes.
RunEnds(s, p) == {e \in (p + 4)..Len(s) : \A i \in (e - 3)..e : s[i] = STX}

\* The packet that begins with the run ending at e: where it ends, its body, and
\* whether it is returned.
EndOf(r, s, e) ==
  LET n == LengthAt(s, e)
  IN  IF e + LengthSize > Len(s) THEN Len(s) + 1
      ELSE e + LengthSize + (IF r = "DataStream" /\ n < 3 THEN 0 ELSE BodySize(r, n))
BodyOf(r, s, e)   == SubSeq(s, e + LengthSize + 1, EndOf(r, s, e))
Returned(r, s, e) == LengthAt(s, e) >= MinLength[r] /\ HeaderAccepted(r, BodyOf(r, s, e))

\* The payloads in what follows the first p bytes of s, when rest says what they
\* are further on.  A packet begins at the first run of four STX; one that is cut
\* off ends the stream.
FirstRun(s, p) == CHOOSE x \in RunEnds(s, p) : \A y \in RunEnds(s, p) : x <= y

PacketsAfter(r, s, p, rest) ==
  IF RunEnds(s, p) = {} THEN <<>>
  ELSE LET e    == FirstRun(s, p)
           last == EndOf(r, s, e)
       IN  IF last > Len(s) THEN <<>>
           ELSE (IF Returned(r, s, e) THEN <<Payload(r, BodyOf(r, s, e))>> ELSE <<>>) \o rest[last]

PacketsFrom(r, s) == LET rest[p \in 0..Len(s)] == PacketsAfter(r, s, p, rest) IN rest

PacketsIn(r, s) == PacketsFrom(r, s)[0]

\* The runs of s are those that begin its packets: none is longer or overlaps a
\* packet.
Unambiguous(r, s) ==
  \A e, f \in RunEnds(s, 0) : e < f => f >= EndOf(r, s, e) + 4

\* The elements of some are elements of all, in the same order.
Selection(some, all) ==
  \E place \in [DOMAIN some -> DOMAIN all] :
    /\ \A i \in DOMAIN some : some[i] = all[place[i]]
    /\ \A i, j \in DOMAIN some : i < j => place[i] < place[j]

-----------------------------------------------------------------------------
(* Properties.                                                             *)

TypeOK ==
  /\ reader \in {"CoLa2", "CoLaB", "DataStream"}
  /\ input \in Seq(Nat)
  /\ pos \in 0..Len(input)
  /\ where \in {"scan", "body", "done", "failed", "undefined"}
  /\ stxLeft \in 0..4
  /\ chunk \in Seq(Nat)
  /\ length \in 0..(ByteValues * ByteValues - 1)
  /\ packets \in Seq(Seq(Nat))
  /\ timeouts \in 0..MaxTimeouts

AtEnd == where \in {"done", "failed"} /\ Available = 0

\* However the network cuts the stream into receives, the packets read are
\* those of the stream: none is lost to bytes that precede it, none is made up.
PacketsExact == AtEnd /\ timeouts = 0 => packets = PacketsIn(reader, input)

\* A receive that times out, wherever it does, costs one packet at most: the
\* readers find the next one, and they take no rest of a packet for one.  Only
\* runs of STX inside packets could mislead them.
TimeoutCostsOnePacket ==
  AtEnd /\ Unambiguous(reader, input) =>
    /\ Selection(packets, PacketsIn(reader, input))
    /\ Len(PacketsIn(reader, input)) <= Len(packets) + timeouts

\* The inductive invariant behind LengthAfterRun: what is in chunk comes last in
\* the bytes received, is not longer than the run still needs, and is preceded
\* by the STX counted so far.
Scanned == pos - Len(chunk)
ScanInv ==
  where = "scan" =>
    /\ stxLeft \in 0..4
    /\ Len(chunk) <= stxLeft
    /\ 4 - stxLeft <= Scanned
    /\ pos <= Len(input)
    /\ \A j \in 1..Len(chunk) : chunk[j] = input[Scanned + j]
    /\ \A i \in (Scanned + stxLeft - 3)..Scanned : input[i] = STX

\* A length field is only believed straight after four STX.
LengthAfterRun ==
  where = "scan" /\ stxLeft = 0 =>
    /\ chunk = <<>> /\ pos >= 4
    /\ \A i \in (pos - 3)..pos : input[i] = STX

\* Whatever the peer sends, the readers come to the end of it: after "another
\* byte was encountered" they look for a new run.  CoLaB, for which the rest of
\* a packet is another byte, does so as long as no receive times out.
StreamConsumed == <>(AtEnd \/ (reader = "CoLaB" /\ timeouts > 0))
=============================================================================
