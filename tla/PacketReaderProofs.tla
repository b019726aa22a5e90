------------------------- MODULE PacketReaderProofs -------------------------
(***************************************************************************)
(* For every stream of bytes, every way the network may cut it and every   *)
(* receive that times out: a length field is read only straight after four *)
(* STX, no reader asks for more than the stream has, the packets returned  *)
(* are those of the stream when no receive times out, and each one that    *)
(* does costs one packet at most.                                          *)
(***************************************************************************)
EXTENDS PacketReader, SequenceTheorems, WellFoundedInduction, TLAPS

USE ByteAssumption, TimeoutsAssumption, InputsAssumption DEF peer, LengthSize

Inductive == TypeOK /\ ScanInv

\* The values of the length field.
Field == ByteValues * ByteValues

\* What is left of a number in a field of its width.
LEMMA Remainder == \A n \in Nat : n % Field \in 0..(Field - 1)
<1>1. Field \in Nat /\ Field > 0
  BY DEF Field
<1>2. \A n, k \in Nat : k > 0 => n % k \in 0..(k - 1)
  OBVIOUS
<1>3. QED
  BY <1>1, <1>2, Zenon

\* A length field has one of its values, and so has the size of the body.
LEMMA FieldValues ==
  ASSUME TypeOK
  PROVE  /\ Available >= LengthSize => LengthAt(input, pos) \in 0..(Field - 1)
         /\ Field \in Nat
         /\ length \in Nat
         /\ BodySize(reader, length) \in Nat
<1>1. Field \in Nat /\ Field > 0
  BY DEF Field
<1>2. length \in 0..(Field - 1)
  BY DEF TypeOK, Field
<1>3. BodySize(reader, length) \in Nat
  <2>1. (length + 1) % Field \in 0..(Field - 1)
    BY <1>1, <1>2, Remainder
  <2>2. QED
    BY <1>1, <1>2, <2>1 DEF BodySize, Field
<1>4. ASSUME Available >= LengthSize PROVE LengthAt(input, pos) \in 0..(Field - 1)
  <2>1. input[pos + 1] \in Nat /\ input[pos + 2] \in Nat
    BY <1>4 DEF TypeOK, Available
  <2>2. input[pos + 1] * ByteValues + input[pos + 2] \in Nat
    BY <2>1
  <2>3. QED
    BY <2>2, Remainder DEF LengthAt, Field
<1>5. QED
  BY <1>1, <1>2, <1>3, <1>4

\* A receive may deliver any prefix of what was asked for.
LEMMA ReceiveScanned == Inductive /\ ReceiveForScan => ScanInv'
<1> SUFFICES ASSUME Inductive, ReceiveForScan PROVE ScanInv'
  OBVIOUS
<1>0. input \in Seq(Nat) /\ pos \in Nat /\ stxLeft \in 1..4
  BY DEF Inductive, TypeOK, ReceiveForScan
<1>1. PICK n \in 1..(IF reader = "DataStream" THEN 1 ELSE stxLeft) :
        /\ n <= Available
        /\ chunk' = SubSeq(input, pos + 1, pos + n)
        /\ pos' = pos + n
  BY DEF ReceiveForScan
<1>2. n \in Nat /\ n >= 1 /\ n <= stxLeft /\ pos + n <= Len(input)
  BY <1>0, <1>1 DEF Available
<1>3. /\ chunk' \in Seq(Nat)
      /\ Len(chunk') = n
      /\ \A j \in 1..n : chunk'[j] = input[pos + j]
  BY <1>0, <1>1, <1>2
<1>4. Len(chunk) = 0
  BY DEF ReceiveForScan
<1>5. ScanInv'
  BY <1>1, <1>2, <1>3, <1>4 DEF ReceiveForScan, Inductive, TypeOK, ScanInv, Scanned
<1>6. QED
  BY <1>5

\* Looking at one byte of what was received.
LEMMA ByteScanned == Inductive /\ (ScanStx \/ ScanOther) => ScanInv'
<1> SUFFICES ASSUME Inductive, ScanStx \/ ScanOther PROVE ScanInv'
  OBVIOUS
<1>1. chunk # <<>> /\ where = "scan" /\ chunk \in Seq(Nat)
  BY DEF ScanStx, ScanOther, Inductive, TypeOK
<1>2. /\ Tail(chunk) \in Seq(Nat)
      /\ Len(Tail(chunk)) = Len(chunk) - 1
      /\ Len(chunk) \in Nat /\ Len(chunk) >= 1
      /\ Head(chunk) = chunk[1]
      /\ \A j \in 1..(Len(chunk) - 1) : Tail(chunk)[j] = chunk[j + 1]
  BY <1>1
<1>3. CASE ScanStx
  <2>1. input[Scanned + 1] = STX
    BY <1>2, <1>3 DEF ScanStx, Inductive, TypeOK, ScanInv
  <2>2. /\ Scanned \in Int /\ stxLeft \in 0..4
        /\ \A j \in 1..Len(chunk) : chunk[j] = input[Scanned + j]
        /\ \A i \in (Scanned + stxLeft - 3)..Scanned : input[i] = STX
    <3>1. pos \in Nat /\ stxLeft \in 0..4
      BY DEF Inductive, TypeOK
    <3>2. Scanned \in Int
      BY <1>2, <3>1 DEF Scanned
    <3>3. /\ \A j \in 1..Len(chunk) : chunk[j] = input[Scanned + j]
          /\ \A i \in (Scanned + stxLeft - 3)..Scanned : input[i] = STX
      BY <1>1 DEF Inductive, ScanInv
    <3>4. QED
      BY <3>1, <3>2, <3>3
  <2>3. /\ Scanned' = Scanned + 1
        /\ stxLeft' = stxLeft - 1
        /\ UNCHANGED <<input, pos, where>>
    BY <1>2, <1>3 DEF ScanStx, Scanned, Inductive, TypeOK
  <2>4. \A j \in 1..Len(chunk') : chunk'[j] = input'[Scanned' + j]
    BY <1>2, <1>3, <2>2, <2>3 DEF ScanStx
  <2>5. \A i \in (Scanned' + stxLeft' - 3)..Scanned' : input'[i] = STX
    <3>1. ASSUME NEW i \in (Scanned' + stxLeft' - 3)..Scanned' PROVE input[i] = STX
      <4>1. i = Scanned + 1 \/ i \in (Scanned + stxLeft - 3)..Scanned
        BY <2>2, <2>3
      <4>2. QED
        BY <4>1, <2>1, <2>2
    <3>2. QED
      BY <3>1, <2>3
  <2>6. /\ stxLeft' \in 0..4
        /\ Len(chunk') <= stxLeft'
        /\ 4 - stxLeft' <= Scanned'
        /\ pos' <= Len(input')
    BY <1>1, <1>2, <1>3, <2>2, <2>3 DEF ScanStx, Inductive, TypeOK, ScanInv
  <2>7. ScanInv'
    BY <2>4, <2>5, <2>6 DEF ScanInv
  <2>8. QED
    BY <2>7
<1>4. CASE ScanOther
  <2>1. /\ Scanned \in Nat /\ Scanned' \in Nat
        /\ stxLeft' = 4
        /\ Len(chunk') <= 4
        /\ UNCHANGED <<input, pos, where>>
    <3>1. stxLeft' = 4 /\ UNCHANGED <<input, pos, where>>
      BY <1>4 DEF ScanOther
    <3>2. Len(chunk') \in Nat /\ Len(chunk') <= Len(chunk)
      BY <1>2, <1>4 DEF ScanOther
    <3>3. Scanned \in Nat /\ Len(chunk) <= 4 /\ pos \in Nat
      <4>1. pos \in Nat /\ stxLeft \in 0..4
        BY DEF Inductive, TypeOK
      <4>2. QED
        BY <4>1, <1>1, <1>2 DEF Inductive, ScanInv, Scanned
    <3>4. Scanned' = pos - Len(chunk') /\ Scanned = pos - Len(chunk)
      BY <3>1 DEF Scanned
    <3>5. Scanned' \in Nat
      BY <1>2, <3>2, <3>3, <3>4
    <3>6. QED
      BY <1>2, <3>1, <3>2, <3>3, <3>5
  <2>2. \A i \in (Scanned' + stxLeft' - 3)..Scanned' : input'[i] = STX
    <3>1. \A a \in Nat : \A i \in (a + 4 - 3)..a : FALSE
      OBVIOUS
    <3>2. Scanned' \in Nat /\ stxLeft' = 4
      BY <2>1
    <3>3. \A i \in (Scanned' + 4 - 3)..Scanned' : FALSE
      BY <3>1, <3>2, Zenon
    <3>4. QED
      BY <3>2, <3>3, Zenon
  <2>3. \A j \in 1..Len(chunk') : chunk'[j] = input'[Scanned' + j]
    <3>1. CASE chunk' = chunk
      BY <3>1, <1>1, <1>4 DEF ScanOther, Inductive, TypeOK, ScanInv, Scanned
    <3>2. CASE chunk' = Tail(chunk)
      <4>1. Scanned' = Scanned + 1
        BY <1>2, <2>1, <3>2 DEF Scanned, Inductive, TypeOK
      <4>2. ASSUME NEW j \in 1..Len(chunk') PROVE chunk'[j] = input[Scanned' + j]
        <5>1. chunk'[j] = chunk[j + 1] /\ j + 1 \in 1..Len(chunk)
          BY <1>2, <3>2
        <5>2. chunk[j + 1] = input[Scanned + (j + 1)]
          BY <1>1, <5>1 DEF Inductive, TypeOK, ScanInv
        <5>3. Scanned + (j + 1) = Scanned' + j
          BY <2>1, <4>1
        <5>4. QED
          BY <5>1, <5>2, <5>3
      <4>3. QED
        BY <4>2, <2>1
    <3>3. QED
      BY <3>1, <3>2, <1>4 DEF ScanOther
  <2>4. /\ stxLeft' \in 0..4
        /\ Len(chunk') <= stxLeft'
        /\ 4 - stxLeft' <= Scanned'
        /\ pos' <= Len(input')
    BY <1>1, <2>1 DEF Inductive, TypeOK, ScanInv
  <2>5. ScanInv'
    BY <2>2, <2>3, <2>4 DEF ScanInv
  <2>6. QED
    BY <2>5
<1>5. QED
  BY <1>3, <1>4

\* Every step keeps the types.
LEMMA NextTypes == Inductive /\ [Next]_vars => TypeOK'
<1> SUFFICES ASSUME Inductive, [Next]_vars PROVE TypeOK'
  OBVIOUS
<1> USE DEF Inductive
<1>1. /\ TypeOK /\ Field \in Nat /\ BodySize(reader, length) \in Nat
      /\ input \in Seq(Nat) /\ pos \in 0..Len(input) /\ Available \in Nat
  BY FieldValues DEF TypeOK, Available
<1>2. CASE Scan
  <2>1. CASE ReceiveForScan
    <3>1. PICK n \in Nat \ {0} : /\ n <= Available
                               /\ chunk' = SubSeq(input, pos + 1, pos + n)
                               /\ pos' = pos + n
      BY <2>1, <1>1 DEF ReceiveForScan, TypeOK
    <3>2. chunk' \in Seq(Nat) /\ pos' \in 0..Len(input)
      BY <3>1, <1>1 DEF Available
    <3>3. QED
      BY <2>1, <3>2, <1>1 DEF ReceiveForScan, TypeOK
  <2>2. CASE ClosedInScan
    BY <2>2, <1>1 DEF ClosedInScan, TypeOK
  <2>3. CASE ScanStx \/ ScanOther
    <3>1. /\ where = "scan" /\ chunk # <<>> /\ chunk \in Seq(Nat)
          /\ Tail(chunk) \in Seq(Nat) /\ Len(chunk) >= 1
      BY <2>3, <1>1 DEF ScanStx, ScanOther, TypeOK
    <3>2. stxLeft - 1 \in 0..4
      BY <3>1 DEF ScanInv
    <3>3. chunk' \in Seq(Nat)
      BY <2>3, <3>1 DEF ScanStx, ScanOther
    <3>4. stxLeft' \in 0..4
      <4>1. stxLeft' = stxLeft - 1 \/ stxLeft' = 4
        BY <2>3 DEF ScanStx, ScanOther
      <4>2. QED
        BY <4>1, <3>2
    <3>5. QED
      BY <2>3, <3>3, <3>4, <1>1 DEF ScanStx, ScanOther, TypeOK
  <2>4. QED
    BY <1>2, <2>1, <2>2, <2>3 DEF Scan
<1>3. CASE ReadLength
  <2>1. length' \in 0..(ByteValues * ByteValues - 1) /\ pos' \in 0..Len(input)
    BY <1>3, <1>1, FieldValues DEF ReadLength, TypeOK, Available, Field
  <2>2. where' \in {"body", "failed"}
    BY <1>3 DEF ReadLength
  <2>3. QED
    BY <1>3, <2>1, <2>2, <1>1 DEF ReadLength, TypeOK
<1>4. CASE ReadBody
  <2> DEFINE size == BodySize(reader, length)
             body == SubSeq(input, pos + 1, pos + size)
  <2>1. /\ pos' = pos + size /\ size <= Available
        /\ where' \in {"undefined", "failed", "done"}
        /\ packets' = packets \/ packets' = Append(packets, Payload(reader, body))
        /\ UNCHANGED <<peer, stxLeft, chunk, length, timeouts>>
    BY <1>4 DEF ReadBody
  <2>2. pos' \in 0..Len(input) /\ body \in Seq(Nat)
    <3>1. size \in Nat
      BY <1>1
    <3> HIDE DEF size
    <3>2. QED
      BY <2>1, <3>1, <1>1 DEF Available
  <2>3. Payload(reader, body) \in Seq(Nat)
    <3> HIDE DEF body
    <3>1. ASSUME NEW i \in Nat \ {0}, NEW j \in Int, j <= Len(body)
          PROVE  SubSeq(body, i, j) \in Seq(Nat)
      BY <2>2, <3>1
    <3>2. Len(body) \in Nat
      BY <2>2
    <3>3. /\ SubSeq(body, 3, Len(body)) \in Seq(Nat)
          /\ SubSeq(body, 1, Len(body) - 1) \in Seq(Nat)
          /\ SubSeq(body, 4, Len(body)) \in Seq(Nat)
      BY <3>1, <3>2
    <3>4. reader \in {"CoLa2", "CoLaB", "DataStream"}
      BY <1>1 DEF TypeOK
    <3>5. QED
      BY <3>3, <3>4 DEF Payload
  <2>4. packets' \in Seq(Seq(Nat))
    <3>1. packets \in Seq(Seq(Nat))
      BY <1>1 DEF TypeOK
    <3>2. Append(packets, Payload(reader, body)) \in Seq(Seq(Nat))
      <4> DEFINE p == Payload(reader, body)
      <4>1. p \in Seq(Nat)
        BY <2>3
      <4> HIDE DEF p
      <4>2. Append(packets, p) \in Seq(Seq(Nat))
        BY <4>1, <3>1
      <4>3. QED
        BY <4>2 DEF p
    <3>3. QED
      BY <2>1, <3>1, <3>2
  <2>5. QED
    BY <2>1, <2>2, <2>4, <1>1 DEF TypeOK
<1>5. CASE ClosedAtLength \/ ClosedInBody
  BY <1>5, <1>1 DEF ClosedAtLength, ClosedInBody, TypeOK
<1>6. CASE Timeout
  <2>1. ASSUME NEW received \in Nat, TimedOut(received) PROVE TypeOK'
    BY <2>1, <1>1 DEF TimedOut, TypeOK, Available
  <2>2. \E received \in Nat : TimedOut(received)
    BY <1>6, <1>1 DEF Timeout, TimeoutInScan, TimeoutInLength, TimeoutInBody
  <2>3. QED
    BY <2>1, <2>2
<1>7. CASE NextRead
  <2>1. <<>> \in Seq(Nat)
    OBVIOUS
  <2>2. QED
    BY <1>7, <2>1, <1>1 DEF NextRead, TypeOK
<1>8. CASE UNCHANGED vars
  BY <1>8, <1>1 DEF vars, TypeOK
<1>9. QED
  BY <1>2, <1>3, <1>4, <1>5, <1>6, <1>7, <1>8 DEF Next, Read, AllRead

LEMMA NextInductive == Inductive /\ [Next]_vars => Inductive'
<1> SUFFICES ASSUME Inductive, [Next]_vars PROVE ScanInv'
  BY NextTypes DEF Inductive
<1>1. CASE ReceiveForScan \/ ScanStx \/ ScanOther
  BY <1>1, ReceiveScanned, ByteScanned
<1>2. CASE ReadLength
  BY <1>2 DEF ReadLength, ScanInv
<1>3. CASE ReadBody
  <2>1. where' # "scan"
    BY <1>3 DEF ReadBody
  <2>2. QED
    BY <2>1 DEF ScanInv
<1>4. CASE ClosedInScan \/ ClosedAtLength \/ ClosedInBody
  BY <1>4 DEF ClosedInScan, ClosedAtLength, ClosedInBody, ScanInv
<1>5. CASE Timeout
  <2>1. where' # "scan"
    BY <1>5 DEF Timeout, TimeoutInScan, TimeoutInLength, TimeoutInBody, TimedOut
  <2>2. QED
    BY <2>1 DEF ScanInv
<1>6. CASE NextRead
  <2>1. pos' = pos /\ input' = input /\ Len(chunk') = 0 /\ stxLeft' = 4
    BY <1>6 DEF NextRead
  <2>2. \A i \in (pos + 1)..pos : FALSE
    BY DEF Inductive, TypeOK
  <2>3. QED
    BY <2>1, <2>2 DEF ScanInv, Scanned, Inductive, TypeOK
<1>7. CASE UNCHANGED vars
  BY <1>7 DEF vars, Inductive, ScanInv, Scanned
<1>8. QED
  BY <1>1, <1>2, <1>3, <1>4, <1>5, <1>6, <1>7 DEF Next, Scan, Read, AllRead

LEMMA Invariance == Spec => []Inductive
<1>1. Init => Inductive
  <2>1. Init => TypeOK
    BY DEF Init, TypeOK
  <2>2. ASSUME Init PROVE ScanInv
    <3>1. pos = 0 /\ Len(chunk) = 0 /\ stxLeft = 4 /\ Len(input) \in Nat
      BY <2>1, <2>2 DEF Init, TypeOK
    <3>2. QED
      BY <3>1 DEF ScanInv, Scanned
  <2>3. QED
    BY <2>1, <2>2 DEF Inductive
<1>2. QED
  BY <1>1, NextInductive, PTL DEF Spec

\* The readers keep their types: above all, none is behind the end of what the
\* peer sends, and the length field has one of its values.
THEOREM TypeCorrect == Spec => []TypeOK
BY Invariance, PTL DEF Inductive

\* No reader takes bytes for a length field that do not follow four STX, for
\* every stream and every sequence of receives.
THEOREM LengthOnlyAfterRun == Spec => []LengthAfterRun
<1>1. ASSUME Inductive, where = "scan", stxLeft = 0
      PROVE  /\ chunk = <<>> /\ pos >= 4
             /\ \A i \in (pos - 3)..pos : input[i] = STX
  <2>1. Len(chunk) = 0
    BY <1>1 DEF Inductive, TypeOK, ScanInv
  <2>2. chunk = <<>>
    BY <1>1, <2>1, EmptySeq DEF Inductive, TypeOK
  <2>3. Scanned = pos
    BY <1>1, <2>1 DEF Scanned, Inductive, TypeOK
  <2>4. QED
    BY <1>1, <2>2, <2>3 DEF Inductive, TypeOK, ScanInv
<1>2. Inductive => LengthAfterRun
  BY <1>1 DEF LengthAfterRun
<1>3. QED
  BY Invariance, <1>2, PTL

-----------------------------------------------------------------------------
(* The packets of a stream.                                                *)

\* A set of numbers has a least one: what is proved by induction over the
\* stream is proved by looking at the least counterexample.
LEMMA Least ==
  ASSUME NEW S \in SUBSET Nat, S # {}
  PROVE  \E x \in S : \A y \in S : x <= y
<1> DEFINE less == OpToRel(<, Nat)
<1>1. IsWellFoundedOn(less, Nat)
  BY NatLessThanWellFounded
<1>2. \A x, y \in Nat : <<y, x>> \in less <=> y < x
  BY DEF OpToRel
<1> HIDE DEF less
<1>3. PICK x \in S : \A y \in S : ~ (<<y, x>> \in less)
  BY <1>1, WFMin
<1>4. ASSUME NEW y \in S PROVE x <= y
  <2>1. x \in Nat /\ y \in Nat /\ ~ (y < x)
    BY <1>2, <1>3
  <2>2. QED
    BY <2>1
<1>5. QED
  BY <1>4

Readers == {"CoLa2", "CoLaB", "DataStream"}

\* The first run is one, and no other is.
LEMMA FirstRunIsFirst ==
  ASSUME NEW s \in Seq(Nat), NEW p \in Nat
  PROVE  /\ RunEnds(s, p) # {} =>
              /\ FirstRun(s, p) \in RunEnds(s, p)
              /\ \A f \in RunEnds(s, p) : FirstRun(s, p) <= f
         /\ \A e \in RunEnds(s, p) :
              (\A f \in RunEnds(s, p) : e <= f) => FirstRun(s, p) = e
<1>1. RunEnds(s, p) \subseteq Nat
  BY LenProperties DEF RunEnds
<1>2. ASSUME RunEnds(s, p) # {}
      PROVE  /\ FirstRun(s, p) \in RunEnds(s, p)
             /\ \A f \in RunEnds(s, p) : FirstRun(s, p) <= f
  <2>1. \E x \in RunEnds(s, p) : \A y \in RunEnds(s, p) : x <= y
    BY <1>1, <1>2, Least
  <2>2. QED
    BY <2>1, Zenon DEF FirstRun
<1>3. ASSUME NEW e \in RunEnds(s, p), \A f \in RunEnds(s, p) : e <= f
      PROVE  FirstRun(s, p) = e
  <2>1. FirstRun(s, p) <= e /\ e <= FirstRun(s, p) /\ FirstRun(s, p) \in Nat /\ e \in Nat
    BY <1>1, <1>2, <1>3
  <2>2. QED
    BY <2>1
<1>4. QED
  BY <1>2, <1>3

\* A packet ends behind its length field.
LEMMA EndsBehind ==
  ASSUME NEW r, NEW s \in Seq(Nat), NEW e \in Nat, e <= Len(s)
  PROVE  /\ EndOf(r, s, e) \in Nat /\ EndOf(r, s, e) > e
         /\ e + 2 <= Len(s) => LengthAt(s, e) \in 0..(Field - 1) /\ EndOf(r, s, e) >= e + 2
<1>1. Len(s) \in Nat
  BY LenProperties
<1>2. ASSUME e + 2 <= Len(s)
      PROVE  LengthAt(s, e) \in 0..(Field - 1) /\ BodySize(r, LengthAt(s, e)) \in Nat
  <2>1. s[e + 1] \in Nat /\ s[e + 2] \in Nat
    BY <1>1, <1>2
  <2>2. s[e + 1] * ByteValues + s[e + 2] \in Nat
    <3>1. \A a, b, c \in Nat : a * b + c \in Nat
      OBVIOUS
    <3>2. ByteValues \in Nat
      OBVIOUS
    <3>3. QED
      BY <2>1, <3>1, <3>2, Zenon
  <2>3. LengthAt(s, e) \in 0..(Field - 1)
    BY <2>2, Remainder DEF LengthAt, Field
  <2>4. Field \in Nat
    BY DEF Field
  <2>5. (LengthAt(s, e) + 1) % Field \in Nat /\ LengthAt(s, e) \in Nat
    <3>1. LengthAt(s, e) \in Nat /\ LengthAt(s, e) + 1 \in Nat
      BY <2>3, <2>4
    <3>2. (LengthAt(s, e) + 1) % Field \in 0..(Field - 1)
      BY <3>1, Remainder, Zenon
    <3>3. QED
      BY <2>4, <3>1, <3>2
  <2>6. QED
    BY <2>3, <2>5 DEF BodySize, Field
<1>3. QED
  BY <1>1, <1>2 DEF EndOf

\* What follows p is known when what follows any later place is.
LEMMA AfterDepends ==
  ASSUME NEW r, NEW s \in Seq(Nat), NEW p \in 0..Len(s), NEW f, NEW g,
         \A q \in (p + 1)..Len(s) : f[q] = g[q]
  PROVE  PacketsAfter(r, s, p, f) = PacketsAfter(r, s, p, g)
<1> DEFINE e == FirstRun(s, p)
<1>1. CASE RunEnds(s, p) = {}
  BY <1>1 DEF PacketsAfter
<1>2. CASE RunEnds(s, p) # {} /\ EndOf(r, s, e) > Len(s)
  BY <1>2 DEF PacketsAfter
<1>3. CASE RunEnds(s, p) # {} /\ ~ (EndOf(r, s, e) > Len(s))
  <2>1. Len(s) \in Nat /\ p \in Nat
    BY LenProperties
  <2>2. e \in RunEnds(s, p)
    BY <1>3, <2>1, FirstRunIsFirst
  <2>3. e \in Nat /\ e > p /\ e <= Len(s)
    BY <2>1, <2>2 DEF RunEnds
  <2>4. EndOf(r, s, e) \in Nat /\ EndOf(r, s, e) > e
    BY <2>3, EndsBehind
  <2>5. EndOf(r, s, e) \in (p + 1)..Len(s)
    BY <1>3, <2>1, <2>3, <2>4
  <2>6. f[EndOf(r, s, e)] = g[EndOf(r, s, e)]
    BY <2>5
  <2>7. QED
    BY <1>3, <2>6, Zenon DEF PacketsAfter
<1>4. QED
  BY <1>1, <1>2, <1>3

\* The recursion of PacketsFrom is sound: its definition holds of it.
LEMMA PacketsFromUnfolds ==
  ASSUME NEW r, NEW s \in Seq(Nat)
  PROVE  PacketsFrom(r, s) = [p \in 0..Len(s) |-> PacketsAfter(r, s, p, PacketsFrom(r, s))]
<1> DEFINE n == Len(s)
           Sound(g, k) == \A p \in 0..n : p + k >= n => g[p] = PacketsAfter(r, s, p, g)
           unsound == {k \in Nat : ~ \E g : Sound(g, k)}
<1>1. n \in Nat
  BY LenProperties
<1>2. unsound = {}
  <2> SUFFICES ASSUME unsound # {} PROVE FALSE
    OBVIOUS
  <2>1. PICK k \in unsound : \A j \in unsound : k <= j
    BY Least
  <2>2. k \in Nat /\ ~ \E g : Sound(g, k)
    BY <2>1
  <2>7. \A j \in Nat : j < k => \E g : Sound(g, j)
    <3>1. ASSUME NEW j \in Nat, j < k PROVE j \notin unsound
      <4> HIDE DEF unsound
      <4>1. QED
        BY <2>1, <2>2, <3>1
    <3>2. QED
      BY <3>1
  <2> HIDE DEF unsound
  <2>3. PICK g : \A p \in 0..n : p + (k - 1) >= n => g[p] = PacketsAfter(r, s, p, g)
    <3>1. CASE k = 0
      BY <1>1, <3>1
    <3>2. CASE k # 0
      <4>1. k - 1 \in Nat /\ k - 1 < k
        BY <2>2, <3>2
      <4>2. QED
        BY <2>7, <4>1
    <3>3. QED
      BY <3>1, <3>2
  <2> DEFINE h == [p \in 0..n |-> IF p + k = n THEN PacketsAfter(r, s, p, g) ELSE g[p]]
  <2>4. ASSUME NEW p \in 0..n, p + k >= n
        PROVE  h[p] = PacketsAfter(r, s, p, h)
    <3>1. ASSUME NEW q \in (p + 1)..n PROVE h[q] = g[q]
      <4> HIDE DEF Sound
      <4>1. q \in 0..n /\ q + k # n
        BY <1>1, <2>2, <2>4
      <4>2. QED
        BY <4>1
    <3>2. PacketsAfter(r, s, p, h) = PacketsAfter(r, s, p, g)
      <4> HIDE DEF h
      <4>1. QED
        BY <3>1, AfterDepends
    <3>3. h[p] = PacketsAfter(r, s, p, g)
      BY <1>1, <2>2, <2>3, <2>4
    <3>4. QED
      BY <3>2, <3>3
  <2>5. Sound(h, k)
    BY <2>4
  <2>6. QED
    BY <2>2, <2>5
<1>3. \E f : f = [p \in 0..n |-> PacketsAfter(r, s, p, f)]
  <2>1. PICK g : Sound(g, n)
    BY <1>1, <1>2
  <2> DEFINE f == [p \in 0..n |-> g[p]]
  <2>2. ASSUME NEW p \in 0..n PROVE f[p] = PacketsAfter(r, s, p, f)
    <3>1. \A q \in (p + 1)..n : f[q] = g[q]
      BY <1>1
    <3>2. PacketsAfter(r, s, p, f) = PacketsAfter(r, s, p, g)
      <4> HIDE DEF f
      <4>1. QED
        BY <3>1, AfterDepends
    <3>3. g[p] = PacketsAfter(r, s, p, g)
      BY <1>1, <2>1
    <3>4. QED
      BY <3>2, <3>3
  <2>3. f = [p \in 0..n |-> PacketsAfter(r, s, p, f)]
    BY <2>2
  <2>4. QED
    BY <2>3, Zenon
<1>4. QED
  BY <1>3, Zenon DEF PacketsFrom

\* What is handed on is made of bytes.
LEMMA PayloadSeq ==
  ASSUME NEW r \in Readers, NEW body \in Seq(Nat)
  PROVE  Payload(r, body) \in Seq(Nat)
<1>1. Len(body) \in Nat
  BY LenProperties
<1>2. ASSUME NEW i \in Nat \ {0}, NEW j \in Int, j <= Len(body)
      PROVE  SubSeq(body, i, j) \in Seq(Nat)
  BY <1>2
<1>3. /\ SubSeq(body, 3, Len(body)) \in Seq(Nat)
      /\ SubSeq(body, 1, Len(body) - 1) \in Seq(Nat)
      /\ SubSeq(body, 4, Len(body)) \in Seq(Nat)
  BY <1>1, <1>2
<1>4. QED
  BY <1>3 DEF Payload, Readers

LEMMA PacketsFromType ==
  ASSUME NEW r \in Readers, NEW s \in Seq(Nat), NEW p \in 0..Len(s)
  PROVE  PacketsFrom(r, s)[p] \in Seq(Seq(Nat))
<1> DEFINE n == Len(s)
           all == PacketsFrom(r, s)
           bad == {k \in Nat : k <= n /\ all[n - k] \notin Seq(Seq(Nat))}
<1>1. n \in Nat
  BY LenProperties
<1>2. bad = {}
  <2> SUFFICES ASSUME bad # {} PROVE FALSE
    OBVIOUS
  <2>1. PICK k \in bad : \A j \in bad : k <= j
    BY Least
  <2> DEFINE q == n - k
             e == FirstRun(s, q)
  <2>2. q \in 0..n /\ q \in Nat /\ all[q] \notin Seq(Seq(Nat))
    BY <1>1, <2>1
  <2>3. all[q] = PacketsAfter(r, s, q, all)
    BY <2>2, PacketsFromUnfolds
  <2>4. RunEnds(s, q) # {} /\ ~ (EndOf(r, s, e) > n)
    <3>1. <<>> \in Seq(Seq(Nat))
      OBVIOUS
    <3>2. QED
      BY <2>2, <2>3, <3>1, Zenon DEF PacketsAfter
  <2>5. e \in Nat /\ e > q /\ e <= n
    <3>1. e \in RunEnds(s, q)
      BY <2>2, <2>4, FirstRunIsFirst
    <3>2. QED
      BY <1>1, <2>2, <3>1 DEF RunEnds
  <2>6. EndOf(r, s, e) \in Nat /\ EndOf(r, s, e) > e
    BY <2>5, EndsBehind
  <2>7. all[EndOf(r, s, e)] \in Seq(Seq(Nat))
    <3>1. /\ n - EndOf(r, s, e) \in Nat /\ n - EndOf(r, s, e) < k /\ n - EndOf(r, s, e) <= n
          /\ n - (n - EndOf(r, s, e)) = EndOf(r, s, e)
      BY <1>1, <2>1, <2>2, <2>4, <2>5, <2>6
    <3>2. n - EndOf(r, s, e) \notin bad
      <4>1. \A j \in bad : k <= j /\ j \in Nat /\ k \in Nat
        BY <2>1
      <4> HIDE DEF bad
      <4>2. QED
        BY <3>1, <4>1
    <3>3. QED
      BY <3>1, <3>2
  <2>8. BodyOf(r, s, e) \in Seq(Nat)
    <3> HIDE DEF e, bad, q, all
    <3>1. EndOf(r, s, e) <= Len(s) /\ e + LengthSize + 1 \in Nat \ {0}
      BY <1>1, <2>4, <2>5, <2>6
    <3>2. \A i \in Nat \ {0}, j \in Nat : j <= Len(s) => SubSeq(s, i, j) \in Seq(Nat)
      OBVIOUS
    <3>3. QED
      BY <2>6, <3>1, <3>2 DEF BodyOf
  <2>9. Payload(r, BodyOf(r, s, e)) \in Seq(Nat)
    BY <2>8, PayloadSeq
  <2>10. all[q] = (IF Returned(r, s, e) THEN <<Payload(r, BodyOf(r, s, e))>> ELSE <<>>) \o all[EndOf(r, s, e)]
    BY <2>3, <2>4, Zenon DEF PacketsAfter
  <2>11. (IF Returned(r, s, e) THEN <<Payload(r, BodyOf(r, s, e))>> ELSE <<>>) \in Seq(Seq(Nat))
    BY <2>9
  <2>12. all[q] \in Seq(Seq(Nat))
    BY <2>7, <2>10, <2>11, ConcatProperties
  <2>13. QED
    BY <2>2, <2>12
<1>3. n - p \in Nat /\ n - p <= n /\ n - (n - p) = p
  BY <1>1
<1>4. n - p \notin bad
  BY <1>2
<1>5. QED
  BY <1>3, <1>4

\* Without a run there is no packet, nor where the first one is cut off.
LEMMA NothingLeft ==
  ASSUME NEW r, NEW s \in Seq(Nat), NEW p \in 0..Len(s),
         RunEnds(s, p) = {} \/ EndOf(r, s, FirstRun(s, p)) > Len(s)
  PROVE  PacketsFrom(r, s)[p] = <<>>
<1>1. PacketsFrom(r, s)[p] = PacketsAfter(r, s, p, PacketsFrom(r, s))
  BY PacketsFromUnfolds
<1>2. QED
  BY <1>1, Zenon DEF PacketsAfter

LEMMA FirstPacket ==
  ASSUME NEW r, NEW s \in Seq(Nat), NEW p \in 0..Len(s),
         RunEnds(s, p) # {}, ~ (EndOf(r, s, FirstRun(s, p)) > Len(s))
  PROVE  LET e == FirstRun(s, p)
         IN  PacketsFrom(r, s)[p] =
               (IF Returned(r, s, e) THEN <<Payload(r, BodyOf(r, s, e))>> ELSE <<>>)
                 \o PacketsFrom(r, s)[EndOf(r, s, e)]
<1>1. PacketsFrom(r, s)[p] = PacketsAfter(r, s, p, PacketsFrom(r, s))
  BY PacketsFromUnfolds
<1>2. QED
  BY <1>1, Zenon DEF PacketsAfter

\* What follows two places with the same runs behind them is the same.
LEMMA SameRuns ==
  ASSUME NEW r, NEW s \in Seq(Nat), NEW p \in 0..Len(s), NEW q \in 0..Len(s),
         RunEnds(s, p) = RunEnds(s, q)
  PROVE  PacketsFrom(r, s)[p] = PacketsFrom(r, s)[q]
<1> DEFINE rest == PacketsFrom(r, s)
<1>1. rest[p] = PacketsAfter(r, s, p, rest) /\ rest[q] = PacketsAfter(r, s, q, rest)
  BY PacketsFromUnfolds
<1>2. FirstRun(s, p) = FirstRun(s, q)
  BY Zenon DEF FirstRun
<1> HIDE DEF rest
<1>3. PacketsAfter(r, s, p, rest) = PacketsAfter(r, s, q, rest)
  BY <1>2, Zenon DEF PacketsAfter
<1>4. QED
  BY <1>1, <1>3 DEF rest

\* From any place between the end of a packet and the end of the next one, at
\* most this one is missed.
LEMMA Resumed ==
  ASSUME NEW r \in Readers, NEW s \in Seq(Nat), Unambiguous(r, s),
         NEW p \in 0..Len(s), NEW q \in p..Len(s),
         RunEnds(s, p) # {} => q <= EndOf(r, s, FirstRun(s, p))
  PROVE  \E x \in Seq(Seq(Nat)) :
           Len(x) <= 1 /\ PacketsFrom(r, s)[p] = x \o PacketsFrom(r, s)[q]
<1> DEFINE e == FirstRun(s, p)
           last == EndOf(r, s, e)
           rest == PacketsFrom(r, s)
<1>1. Len(s) \in Nat /\ p \in Nat /\ q \in Nat /\ q \in 0..Len(s)
  BY LenProperties
<1>2. rest[p] \in Seq(Seq(Nat)) /\ rest[q] \in Seq(Seq(Nat))
  BY <1>1, PacketsFromType
<1>3. ASSUME rest[p] = rest[q] PROVE \E x \in Seq(Seq(Nat)) : Len(x) <= 1 /\ rest[p] = x \o rest[q]
  <2>1. <<>> \in Seq(Seq(Nat)) /\ Len(<<>>) <= 1 /\ <<>> \o rest[q] = rest[q]
    BY <1>2, ConcatEmptySeq
  <2>2. QED
    BY <1>3, <2>1
<1>4. RunEnds(s, q) \subseteq RunEnds(s, p)
  BY <1>1 DEF RunEnds
<1>5. CASE RunEnds(s, p) = {}
  <2>1. RunEnds(s, q) = {}
    BY <1>4, <1>5
  <2>2. rest[p] = rest[q]
    BY <1>1, <1>5, <2>1, NothingLeft
  <2>3. QED
    BY <1>3, <2>2
<1>6. CASE RunEnds(s, p) # {}
  <2>1. e \in RunEnds(s, p) /\ \A f \in RunEnds(s, p) : e <= f
    BY <1>1, <1>6, FirstRunIsFirst
  <2>2. e \in Nat /\ e <= Len(s) /\ e >= p + 4
    BY <1>1, <2>1 DEF RunEnds
  <2>3. last \in Nat /\ last > e
    BY <2>2, EndsBehind
  <2>4. ASSUME NEW f \in RunEnds(s, p), f # e PROVE f >= last + 4
    <3>1. e \in RunEnds(s, 0) /\ f \in RunEnds(s, 0)
      BY <1>1, <2>1 DEF RunEnds
    <3>2. f \in Nat /\ e < f
      <4>1. f \in Nat /\ e <= f
        BY <1>1, <2>1 DEF RunEnds
      <4> HIDE DEF e
      <4>2. QED
        BY <2>2, <2>4, <4>1
    <3>3. QED
      BY <3>1, <3>2 DEF Unambiguous
  <2>5. CASE q + 4 <= e
    <3>1. \A f \in RunEnds(s, p) : f >= q + 4
      <4>1. \A f \in RunEnds(s, p) : f \in Nat /\ e <= f
        BY <1>1, <2>1 DEF RunEnds
      <4>2. QED
        BY <1>1, <2>2, <2>5, <4>1
    <3>2. RunEnds(s, p) = RunEnds(s, q)
      BY <1>1, <1>4, <3>1 DEF RunEnds
    <3>3. QED
      BY <1>1, <1>3, <3>2, SameRuns
  <2>6. CASE ~ (q + 4 <= e)
    <3>1. e \notin RunEnds(s, q)
      BY <1>1, <2>2, <2>6 DEF RunEnds
    <3>2. q <= last
      BY <1>6
    <3>3. ASSUME NEW f \in RunEnds(s, q) PROVE f >= last + 4 /\ f \in Nat /\ f <= Len(s)
      <4>1. f \in RunEnds(s, p) /\ f # e
        BY <1>4, <3>1
      <4>2. f \in Nat /\ f <= Len(s)
        BY <1>1 DEF RunEnds
      <4>3. QED
        BY <2>4, <4>1, <4>2
    <3>4. CASE last > Len(s)
      <4>1. RunEnds(s, q) = {}
        <5>1. ASSUME NEW f \in RunEnds(s, q) PROVE FALSE
          <6> HIDE DEF last
          <6>1. QED
            BY <1>1, <2>3, <3>3, <3>4
        <5>2. QED
          BY <5>1
      <4>2. rest[p] = <<>> /\ rest[q] = <<>>
        BY <1>1, <3>4, <4>1, NothingLeft
      <4>3. QED
        BY <1>3, <4>2
    <3>5. CASE ~ (last > Len(s))
      <4> DEFINE x == IF Returned(r, s, e) THEN <<Payload(r, BodyOf(r, s, e))>> ELSE <<>>
      <4>1. last \in 0..Len(s)
        <5> HIDE DEF last
        <5>1. QED
          BY <1>1, <2>3, <3>5
      <4>2. RunEnds(s, q) = RunEnds(s, last)
        <5>1. \A f \in RunEnds(s, q) : f \in RunEnds(s, last)
          <6> HIDE DEF last
          <6>1. QED
            BY <1>1, <2>3, <3>3 DEF RunEnds
        <5>2. \A f \in RunEnds(s, last) : f \in RunEnds(s, q)
          <6> HIDE DEF last
          <6>1. QED
            BY <1>1, <2>3, <3>2 DEF RunEnds
        <5>3. QED
          BY <5>1, <5>2
      <4>3. rest[last] = rest[q]
        <5> HIDE DEF last, rest
        <5>1. QED
          BY <1>1, <4>1, <4>2, SameRuns DEF rest
      <4>4. rest[p] = x \o rest[last]
        BY <1>6, <3>5, FirstPacket
      <4>5. x \in Seq(Seq(Nat)) /\ Len(x) <= 1
        <5>1. BodyOf(r, s, e) \in Seq(Nat)
          <6> HIDE DEF e, rest
          <6>1. EndOf(r, s, e) <= Len(s) /\ e + LengthSize + 1 \in Nat \ {0} /\ EndOf(r, s, e) \in Nat
            BY <1>1, <4>1, <2>2
          <6>2. \A i \in Nat \ {0}, j \in Nat : j <= Len(s) => SubSeq(s, i, j) \in Seq(Nat)
            OBVIOUS
          <6>3. QED
            BY <6>1, <6>2 DEF BodyOf
        <5>2. Payload(r, BodyOf(r, s, e)) \in Seq(Nat)
          BY <5>1, PayloadSeq
        <5> HIDE DEF e
        <5>3. \A v \in Seq(Nat) : <<v>> \in Seq(Seq(Nat)) /\ Len(<<v>>) <= 1
          OBVIOUS
        <5>4. <<>> \in Seq(Seq(Nat)) /\ Len(<<>>) <= 1
          OBVIOUS
        <5>5. QED
          BY <5>2, <5>3, <5>4, Zenon
      <4> HIDE DEF x
      <4>6. QED
        BY <4>3, <4>4, <4>5
    <3>6. QED
      BY <3>4, <3>5
  <2>7. QED
    BY <2>5, <2>6
<1>7. QED
  BY <1>5, <1>6

-----------------------------------------------------------------------------
(* What has been read and what is still to come.                           *)

\* Of the packets given, those in read were returned, in their order, and at
\* most lost were not; with none lost they are all there.
Account(given, read, lost) ==
  /\ lost = 0 => given = read
  /\ Selection(read, given)
  /\ Len(given) <= Len(read) + lost

LEMMA PacketsAssociative ==
  \A a, b, c \in Seq(Seq(Nat)) : a \o (b \o c) = (a \o b) \o c
<1> DEFINE Packet == Seq(Nat)
<1> HIDE DEF Packet
<1>1. \A a, b, c \in Seq(Packet) : a \o (b \o c) = (a \o b) \o c
  OBVIOUS
<1>2. QED
  BY <1>1 DEF Packet

\* A packet is returned.
LEMMA SelectionAppend ==
  ASSUME NEW given \in Seq(Seq(Nat)), NEW read \in Seq(Seq(Nat)), NEW v \in Seq(Nat),
         Selection(read, given)
  PROVE  Selection(Append(read, v), given \o <<v>>)
<1> DEFINE r1 == Append(read, v)
           g1 == given \o <<v>>
           n == Len(read)
           m == Len(given)
<1>1. PICK place \in [DOMAIN read -> DOMAIN given] :
        /\ \A i \in DOMAIN read : read[i] = given[place[i]]
        /\ \A i, j \in DOMAIN read : i < j => place[i] < place[j]
  BY DEF Selection
<1>2. /\ n \in Nat /\ m \in Nat
      /\ DOMAIN read = 1..n /\ DOMAIN given = 1..m
      /\ DOMAIN r1 = 1..(n + 1) /\ DOMAIN g1 = 1..(m + 1)
  OBVIOUS
<1>3. /\ \A i \in 1..n : r1[i] = read[i]
      /\ r1[n + 1] = v
      /\ \A i \in 1..m : g1[i] = given[i]
      /\ g1[m + 1] = v
  OBVIOUS
<1> HIDE DEF r1, g1, n, m
<1> DEFINE p1 == [i \in 1..(n + 1) |-> IF i = n + 1 THEN m + 1 ELSE place[i]]
<1>4. \A i \in 1..n : place[i] \in 1..m /\ read[i] = given[place[i]]
  BY <1>1, <1>2
<1>5. \A i \in 1..(n + 1) : i # n + 1 => i \in 1..n
  BY <1>2
<1>6. p1 \in [DOMAIN r1 -> DOMAIN g1]
  BY <1>2, <1>4, <1>5
<1>7. ASSUME NEW i \in DOMAIN r1 PROVE r1[i] = g1[p1[i]]
  BY <1>2, <1>3, <1>4, <1>5, <1>7
<1>8. ASSUME NEW i \in DOMAIN r1, NEW j \in DOMAIN r1, i < j PROVE p1[i] < p1[j]
  <2>1. i \in 1..n /\ p1[i] = place[i]
    BY <1>2, <1>5, <1>8
  <2>2. CASE j = n + 1
    BY <1>2, <1>4, <2>1, <2>2
  <2>3. CASE j # n + 1
    BY <1>1, <1>2, <1>5, <1>8, <2>1, <2>3
  <2>4. QED
    BY <2>2, <2>3
<1> HIDE DEF p1
<1>9. QED
  BY <1>6, <1>7, <1>8 DEF Selection, r1, g1

\* A packet is lost.
LEMMA SelectionLonger ==
  ASSUME NEW given \in Seq(Seq(Nat)), NEW read \in Seq(Seq(Nat)), NEW x \in Seq(Seq(Nat)),
         Selection(read, given)
  PROVE  Selection(read, given \o x)
<1>1. PICK place \in [DOMAIN read -> DOMAIN given] :
        /\ \A i \in DOMAIN read : read[i] = given[place[i]]
        /\ \A i, j \in DOMAIN read : i < j => place[i] < place[j]
  BY DEF Selection
<1>2. /\ DOMAIN given \subseteq DOMAIN (given \o x)
      /\ \A i \in DOMAIN given : (given \o x)[i] = given[i]
  OBVIOUS
<1>3. place \in [DOMAIN read -> DOMAIN (given \o x)]
  BY <1>2
<1>4. \A i \in DOMAIN read : read[i] = (given \o x)[place[i]]
  BY <1>1, <1>2
<1>5. QED
  BY <1>1, <1>3, <1>4 DEF Selection

\* base accounts for what was read: the packets before it are the ones returned
\* and lost, the others follow.
Accounted(r, s, base, read, lost) ==
  \E given \in Seq(Seq(Nat)) :
    /\ PacketsIn(r, s) = given \o PacketsFrom(r, s)[base]
    /\ Account(given, read, lost)

LEMMA AccountNothing ==
  ASSUME NEW r \in Readers, NEW s \in Seq(Nat)
  PROVE  Accounted(r, s, 0, <<>>, 0)
<1>1. PacketsFrom(r, s)[0] \in Seq(Seq(Nat))
  BY LenProperties, PacketsFromType
<1>2. PacketsIn(r, s) = <<>> \o PacketsFrom(r, s)[0]
  BY <1>1, ConcatEmptySeq DEF PacketsIn
<1>3. Selection(<<>>, <<>>)
  <2>1. <<>> \in [DOMAIN <<>> -> DOMAIN <<>>]
    OBVIOUS
  <2>2. \A i \in DOMAIN <<>> : FALSE
    OBVIOUS
  <2>3. QED
    BY <2>1, <2>2, Zenon DEF Selection
<1>4. <<>> \in Seq(Seq(Nat)) /\ Len(<<>>) <= Len(<<>>) + 0
  OBVIOUS
<1>5. QED
  BY <1>2, <1>3, <1>4 DEF Accounted, Account

\* The next packet is returned.
LEMMA AccountReturned ==
  ASSUME NEW r \in Readers, NEW s \in Seq(Nat), NEW p \in 0..Len(s), NEW q \in 0..Len(s),
         NEW read \in Seq(Seq(Nat)), NEW lost \in Nat, NEW v \in Seq(Nat),
         PacketsFrom(r, s)[p] = <<v>> \o PacketsFrom(r, s)[q],
         Accounted(r, s, p, read, lost)
  PROVE  Accounted(r, s, q, Append(read, v), lost)
<1>1. PICK given \in Seq(Seq(Nat)) : /\ PacketsIn(r, s) = given \o PacketsFrom(r, s)[p]
                                     /\ Account(given, read, lost)
  BY DEF Accounted
<1>2. PacketsFrom(r, s)[q] \in Seq(Seq(Nat)) /\ <<v>> \in Seq(Seq(Nat))
  BY PacketsFromType
<1>3. PacketsIn(r, s) = (given \o <<v>>) \o PacketsFrom(r, s)[q]
  <2> DEFINE rest == PacketsFrom(r, s)[q]
  <2>1. rest \in Seq(Seq(Nat))
    BY <1>2
  <2> HIDE DEF rest
  <2>2. given \o (<<v>> \o rest) = (given \o <<v>>) \o rest
    BY <1>2, <2>1, PacketsAssociative
  <2>3. QED
    BY <1>1, <2>2 DEF rest
<1>4. given \o <<v>> \in Seq(Seq(Nat))
  BY <1>2, ConcatProperties
<1>5. Selection(Append(read, v), given \o <<v>>)
  BY <1>1, SelectionAppend DEF Account
<1>6. lost = 0 => given \o <<v>> = Append(read, v)
  BY <1>1, AppendIsConcat DEF Account
<1>7. Len(given \o <<v>>) = Len(given) + 1 /\ Len(Append(read, v)) = Len(read) + 1
  OBVIOUS
<1>8. Len(given \o <<v>>) <= Len(Append(read, v)) + lost
  BY <1>1, <1>7, LenProperties DEF Account
<1>9. QED
  BY <1>3, <1>4, <1>5, <1>6, <1>8 DEF Accounted, Account

\* Bytes are passed over that are no packet to return.
LEMMA AccountSkipped ==
  ASSUME NEW r, NEW s, NEW p, NEW q, NEW read, NEW lost,
         PacketsFrom(r, s)[p] = PacketsFrom(r, s)[q],
         Accounted(r, s, p, read, lost)
  PROVE  Accounted(r, s, q, read, lost)
BY DEF Accounted

\* A receive has timed out.
LEMMA AccountLost ==
  ASSUME NEW r \in Readers, NEW s \in Seq(Nat), NEW p \in 0..Len(s), NEW q \in 0..Len(s),
         NEW read \in Seq(Seq(Nat)), NEW lost \in Nat, NEW x \in Seq(Seq(Nat)), Len(x) <= 1,
         PacketsFrom(r, s)[p] = x \o PacketsFrom(r, s)[q],
         Accounted(r, s, p, read, lost)
  PROVE  Accounted(r, s, q, read, lost + 1)
<1>1. PICK given \in Seq(Seq(Nat)) : /\ PacketsIn(r, s) = given \o PacketsFrom(r, s)[p]
                                     /\ Account(given, read, lost)
  BY DEF Accounted
<1>2. PacketsFrom(r, s)[q] \in Seq(Seq(Nat))
  BY PacketsFromType
<1>3. PacketsIn(r, s) = (given \o x) \o PacketsFrom(r, s)[q]
  <2> DEFINE rest == PacketsFrom(r, s)[q]
  <2>1. rest \in Seq(Seq(Nat))
    BY <1>2
  <2> HIDE DEF rest
  <2>2. given \o (x \o rest) = (given \o x) \o rest
    BY <1>2, <2>1, PacketsAssociative
  <2>3. QED
    BY <1>1, <2>2 DEF rest
<1>4. given \o x \in Seq(Seq(Nat))
  BY ConcatProperties
<1>5. Selection(read, given \o x)
  BY <1>1, SelectionLonger DEF Account
<1>6. Len(given \o x) = Len(given) + Len(x)
  OBVIOUS
<1>7. Len(given \o x) <= Len(read) + (lost + 1)
  BY <1>1, <1>6, LenProperties DEF Account
<1>8. lost + 1 # 0
  OBVIOUS
<1>9. QED
  BY <1>3, <1>4, <1>5, <1>7, <1>8 DEF Accounted, Account

-----------------------------------------------------------------------------
(* The reader and the packets of its stream.                               *)

\* Where the run begins that the scan has counted so far.
Believed == Scanned - (4 - stxLeft)

\* base is the end of the packet before the one that is being read: the scan
\* has missed no run behind it, and the body follows the first of them.
Tracks(base) ==
  /\ where = "scan" =>
       /\ base <= Believed
       /\ \A e \in RunEnds(input, base) : e >= Believed + 4
  /\ where = "body" =>
       /\ pos >= LengthSize
       /\ pos - LengthSize \in RunEnds(input, base)
       /\ FirstRun(input, base) = pos - LengthSize
       /\ length = LengthAt(input, pos - LengthSize)
       /\ reader = "DataStream" => length >= 3
  /\ where \in {"done", "failed"} => base = pos

Follows(base) ==
  /\ Tracks(base)
  /\ Accounted(reader, input, base, packets, timeouts)

\* The inductive invariant behind PacketsExact and TimeoutCostsOnePacket.
Following ==
  where # "undefined" /\ (timeouts = 0 \/ Unambiguous(reader, input)) =>
    \E base \in 0..Len(input) : Follows(base)

\* What TypeOK says of the numbers and sequences below.
LEMMA Typed ==
  ASSUME TypeOK
  PROVE  /\ reader \in Readers /\ input \in Seq(Nat)
         /\ Len(input) \in Nat /\ pos \in Nat /\ pos <= Len(input)
         /\ stxLeft \in 0..4 /\ chunk \in Seq(Nat) /\ Len(chunk) \in Nat
         /\ length \in Nat /\ packets \in Seq(Seq(Nat)) /\ timeouts \in Nat
<1>1. length \in Nat
  BY FieldValues
<1>2. QED
  BY <1>1 DEF TypeOK, Readers

\* Behind the last byte nothing follows: when no packet is left, the whole
\* stream is accounted for.
LEMMA AccountEnded ==
  ASSUME NEW r, NEW s \in Seq(Nat), NEW p \in 0..Len(s), NEW read, NEW lost,
         RunEnds(s, p) = {} \/ EndOf(r, s, FirstRun(s, p)) > Len(s),
         Accounted(r, s, p, read, lost)
  PROVE  Accounted(r, s, Len(s), read, lost)
<1>1. Len(s) \in 0..Len(s)
  BY LenProperties
<1>2. RunEnds(s, Len(s)) = {}
  BY LenProperties DEF RunEnds
<1>3. PacketsFrom(r, s)[p] = <<>> /\ PacketsFrom(r, s)[Len(s)] = <<>>
  BY <1>1, <1>2, NothingLeft
<1>4. QED
  BY <1>3, AccountSkipped

\* Receiving and looking at bytes.
LEMMA ReceiveFollowed ==
  ASSUME Inductive, NEW base \in 0..Len(input), Follows(base), ReceiveForScan
  PROVE  Follows(base)'
<1>1. pos \in Nat /\ stxLeft \in 0..4 /\ Len(chunk) = 0 /\ input \in Seq(Nat) /\ Len(input) \in Nat
  BY Typed DEF Inductive, ReceiveForScan
<1>2. PICK n \in 1..(IF reader = "DataStream" THEN 1 ELSE stxLeft) :
        /\ n <= Available
        /\ chunk' = SubSeq(input, pos + 1, pos + n)
        /\ pos' = pos + n
  BY DEF ReceiveForScan
<1>3. n \in Nat /\ n >= 1 /\ pos + n <= Len(input)
  BY <1>1, <1>2 DEF Available
<1>4. Len(chunk') = n
  BY <1>1, <1>2, <1>3
<1>5. Scanned' = Scanned /\ Believed' = Believed
  BY <1>1, <1>2, <1>3, <1>4 DEF Scanned, Believed, ReceiveForScan
<1>6. QED
  BY <1>5 DEF Follows, Tracks, ReceiveForScan

LEMMA ByteFollowed ==
  ASSUME Inductive, NEW base \in 0..Len(input), Follows(base), ScanStx \/ ScanOther
  PROVE  Follows(base)'
<1>1. /\ pos \in Nat /\ stxLeft \in 0..4 /\ chunk \in Seq(Nat) /\ chunk # <<>> /\ where = "scan"
      /\ Len(chunk) \in Nat /\ Len(input) \in Nat /\ base \in Nat
  BY Typed DEF Inductive, ScanStx, ScanOther
<1>2. /\ Len(chunk) >= 1 /\ Len(Tail(chunk)) = Len(chunk) - 1 /\ Head(chunk) = chunk[1]
      /\ stxLeft >= 1 /\ Scanned \in Int /\ Believed \in Int
      /\ chunk[1] = input[Scanned + 1]
      /\ base <= Believed
      /\ \A e \in RunEnds(input, base) : e >= Believed + 4
  <2>1. Len(chunk) >= 1 /\ Len(Tail(chunk)) = Len(chunk) - 1 /\ Head(chunk) = chunk[1]
    BY <1>1
  <2>2. Len(chunk) <= stxLeft /\ \A j \in 1..Len(chunk) : chunk[j] = input[Scanned + j]
    BY <1>1 DEF Inductive, ScanInv
  <2>3. base <= Believed /\ \A e \in RunEnds(input, base) : e >= Believed + 4
    BY <1>1 DEF Follows, Tracks
  <2>4. Scanned \in Int
    BY <1>1 DEF Scanned
  <2>5. Believed \in Int
    BY <1>1, <2>4 DEF Believed
  <2>6. QED
    BY <1>1, <2>1, <2>2, <2>3, <2>4, <2>5
<1>3. CASE ScanStx
  <2>1. Scanned' = Scanned + 1
    BY <1>1, <1>2, <1>3 DEF Scanned, ScanStx
  <2>2. Believed' = Believed
    BY <1>1, <1>2, <1>3, <2>1 DEF Believed, ScanStx
  <2>3. QED
    BY <1>3, <2>2 DEF Follows, Tracks, ScanStx
<1>4. CASE ScanOther
  <2>1. /\ stxLeft' = 4 /\ UNCHANGED <<input, reader, where, pos, packets, timeouts>>
        /\ input[Scanned + 1] # STX
        /\ chunk' = chunk \/ chunk' = Tail(chunk)
    BY <1>2, <1>4 DEF ScanOther
  <2>2. Scanned' \in {Scanned, Scanned + 1}
    BY <1>1, <1>2, <2>1 DEF Scanned
  <2>3. Believed' \in {Scanned, Scanned + 1}
    <3>1. Scanned' \in Int /\ stxLeft' = 4
      BY <1>2, <2>1, <2>2
    <3>2. Believed' = Scanned'
      BY <3>1 DEF Believed, Scanned
    <3>3. QED
      BY <2>2, <3>2
  <2>4. ASSUME NEW e \in RunEnds(input, base) PROVE e >= Scanned + 5
    <3>1. /\ e \in Nat /\ e >= Believed + 4
          /\ \A i \in (e - 3)..e : input[i] = STX
      BY <1>1, <1>2 DEF RunEnds
    <3>2. e >= Scanned + 1
      BY <1>1, <1>2, <3>1 DEF Believed
    <3>3. ~ (Scanned + 1 \in (e - 3)..e)
      BY <2>1, <3>1
    <3>4. QED
      BY <1>2, <3>1, <3>2, <3>3
  <2>5. \A e \in RunEnds(input, base) : e >= Believed' + 4
    <3>1. \A e \in RunEnds(input, base) : e \in Nat
      BY <1>1 DEF RunEnds
    <3>2. QED
      BY <1>2, <2>3, <2>4, <3>1
  <2>6. base <= Believed'
    <3>1. Believed <= Scanned
      BY <1>1, <1>2 DEF Believed
    <3>2. QED
      BY <1>1, <1>2, <2>3, <3>1
  <2>7. QED
    BY <1>1, <2>1, <2>5, <2>6 DEF Follows, Tracks
<1>5. QED
  BY <1>3, <1>4

\* The peer has closed before a run was complete: there is none.
LEMMA ClosedInScanFollowed ==
  ASSUME Inductive, NEW base \in 0..Len(input), Follows(base), ClosedInScan
  PROVE  \E b \in 0..Len(input) : Follows(b)'
<1>1. pos = Len(input) /\ pos' = pos /\ where = "scan" /\ where' = "failed" /\ stxLeft >= 1 /\ Len(chunk) = 0
      /\ UNCHANGED <<input, reader, packets, timeouts>>
  BY Typed DEF ClosedInScan, Available, Inductive
<1>2. pos \in Nat /\ stxLeft \in 0..4 /\ input \in Seq(Nat)
  BY Typed DEF Inductive
<1>3. RunEnds(input, base) = {}
  <2>1. \A e \in RunEnds(input, base) : e >= Believed + 4 /\ e <= Len(input) /\ e \in Int
    BY <1>1, <1>2 DEF Follows, Tracks, RunEnds
  <2>2. Believed + 4 > Len(input) /\ Believed \in Int
    BY <1>1, <1>2 DEF Believed, Scanned
  <2>3. QED
    BY <1>1, <1>2, <2>1, <2>2
<1>4. Accounted(reader, input, Len(input), packets, timeouts)
  BY <1>2, <1>3, AccountEnded DEF Follows
<1>5. PICK b \in 0..Len(input) : b = pos
  BY <1>1, <1>2
<1>6. Follows(b)'
  BY <1>1, <1>4, <1>5 DEF Follows, Tracks
<1>7. QED
  BY <1>6

\* With the fourth STX the first run behind base is complete.
LEMMA RunComplete ==
  ASSUME Inductive, NEW base \in 0..Len(input), Tracks(base), where = "scan", stxLeft = 0
  PROVE  /\ pos >= base + 4
         /\ pos \in RunEnds(input, base)
         /\ FirstRun(input, base) = pos
<1>1. /\ pos \in Nat /\ input \in Seq(Nat) /\ Len(input) \in Nat /\ base \in Nat
      /\ Len(chunk) \in Nat /\ pos <= Len(input)
  BY Typed DEF Inductive
<1>2. Len(chunk) = 0 /\ Scanned = pos /\ \A i \in (pos - 3)..pos : input[i] = STX
  BY <1>1 DEF Inductive, ScanInv, Scanned
<1>3. Believed = pos - 4
  BY <1>1, <1>2 DEF Believed
<1>4. pos >= base + 4 /\ \A e \in RunEnds(input, base) : pos <= e
  <2>1. base <= Believed /\ \A e \in RunEnds(input, base) : e >= Believed + 4
    BY DEF Tracks
  <2>2. \A e \in RunEnds(input, base) : e \in Nat
    BY <1>1 DEF RunEnds
  <2>3. QED
    BY <1>1, <1>3, <2>1, <2>2
<1>5. pos \in RunEnds(input, base)
  BY <1>1, <1>2, <1>4 DEF RunEnds
<1>6. QED
  BY <1>1, <1>4, <1>5, FirstRunIsFirst

LEMMA LengthFollowed ==
  ASSUME Inductive, NEW base \in 0..Len(input), Follows(base), ReadLength
  PROVE  \E b \in 0..Len(input) : Follows(b)'
<1>1. /\ pos \in Nat /\ input \in Seq(Nat) /\ Len(input) \in Nat /\ base \in 0..Len(input)
      /\ reader \in Readers /\ pos <= Len(input)
  BY Typed DEF Inductive
<1>2. /\ pos + 2 <= Len(input) /\ pos' = pos + 2 /\ length' = LengthAt(input, pos)
      /\ where' = IF reader = "DataStream" /\ length' < 3 THEN "failed" ELSE "body"
      /\ UNCHANGED <<reader, input, packets, timeouts>>
  BY <1>1 DEF ReadLength, Available, MinLength
<1>3. /\ pos >= base + 4
      /\ pos \in RunEnds(input, base)
      /\ FirstRun(input, base) = pos
  BY RunComplete DEF Follows, ReadLength
<1>7. LengthAt(input, pos) \in Nat
  BY <1>1, <1>2, FieldValues DEF Inductive, Available
<1>4. CASE where' = "body"
  <2>1. pos' - 2 = pos /\ pos' >= 2
    BY <1>1, <1>2
  <2>2. reader = "DataStream" => length' >= 3
    BY <1>2, <1>4, <1>7
  <2>3. Tracks(base)'
    BY <1>2, <1>3, <1>4, <2>1, <2>2 DEF Tracks
  <2>4. QED
    BY <1>2, <2>3 DEF Follows
<1>5. CASE where' = "failed"
  <2>1. reader = "DataStream" /\ LengthAt(input, pos) < 3
    BY <1>2, <1>5
  <2>2. EndOf(reader, input, pos) = pos + 2
    BY <1>1, <1>2, <2>1 DEF EndOf
  <2>3. ~ Returned(reader, input, pos)
    <3>1. ~ (LengthAt(input, pos) >= MinLength[reader])
      BY <2>1, <1>7 DEF MinLength
    <3>2. QED
      BY <3>1 DEF Returned
  <2>4. pos + 2 \in 0..Len(input) /\ ~ (pos + 2 > Len(input))
    BY <1>1, <1>2
  <2>5. PacketsFrom(reader, input)[base] = PacketsFrom(reader, input)[pos + 2]
    <3>1. PacketsFrom(reader, input)[base] = <<>> \o PacketsFrom(reader, input)[pos + 2]
      <4>1. RunEnds(input, base) # {} /\ ~ (EndOf(reader, input, FirstRun(input, base)) > Len(input))
        BY <1>3, <2>2, <2>4
      <4>2. PacketsFrom(reader, input)[base] =
              (IF Returned(reader, input, pos) THEN <<Payload(reader, BodyOf(reader, input, pos))>> ELSE <<>>)
                \o PacketsFrom(reader, input)[EndOf(reader, input, pos)]
        BY <1>1, <1>3, <4>1, FirstPacket
      <4>3. QED
        BY <2>2, <2>3, <4>2
    <3>2. PacketsFrom(reader, input)[pos + 2] \in Seq(Seq(Nat))
      BY <1>1, <2>4, PacketsFromType
    <3>3. QED
      BY <3>1, <3>2, ConcatEmptySeq
  <2>6. Accounted(reader, input, pos + 2, packets, timeouts)
    BY <2>5, AccountSkipped DEF Follows
  <2>7. PICK b \in 0..Len(input) : b = pos + 2
    BY <2>4
  <2>8. Follows(b)'
    BY <1>2, <1>5, <2>6, <2>7 DEF Follows, Tracks
  <2>9. QED
    BY <2>8
<1>6. QED
  BY <1>2, <1>4, <1>5

\* The peer closes inside a packet: it is the last one, and it is cut off.
LEMMA ClosedFollowed ==
  ASSUME Inductive, NEW base \in 0..Len(input), Follows(base), ClosedAtLength \/ ClosedInBody
  PROVE  \E b \in 0..Len(input) : Follows(b)'
<1>1. /\ pos \in Nat /\ input \in Seq(Nat) /\ Len(input) \in Nat /\ base \in 0..Len(input)
      /\ BodySize(reader, length) \in Nat /\ length \in Nat
  BY Typed, FieldValues DEF Inductive
<1>2. EndOf(reader, input, FirstRun(input, base)) > Len(input)
  <2>1. CASE ClosedAtLength
    <3>1. FirstRun(input, base) = pos
      BY <2>1, RunComplete DEF Follows, ClosedAtLength
    <3>2. pos + 2 > Len(input)
      BY <1>1, <2>1 DEF ClosedAtLength, Available
    <3>3. QED
      BY <1>1, <3>1, <3>2 DEF EndOf
  <2>2. CASE ClosedInBody
    <3>1. where = "body" /\ BodySize(reader, length) > Len(input) - pos
      BY <2>2 DEF ClosedInBody, Available
    <3>2. /\ pos >= 2 /\ FirstRun(input, base) = pos - 2
          /\ length = LengthAt(input, pos - 2)
          /\ reader = "DataStream" => length >= 3
      BY <3>1 DEF Follows, Tracks
    <3>3. EndOf(reader, input, pos - 2) \in {Len(input) + 1, pos + BodySize(reader, length)}
      BY <1>1, <3>2 DEF EndOf
    <3>4. QED
      BY <1>1, <3>1, <3>2, <3>3
  <2>3. QED
    BY <2>1, <2>2
<1>3. Accounted(reader, input, Len(input), packets, timeouts)
  BY <1>1, <1>2, AccountEnded DEF Follows
<1>4. pos' = Len(input) /\ where' = "failed" /\ UNCHANGED <<reader, input, packets, timeouts>>
  BY DEF ClosedAtLength, ClosedInBody
<1>5. PICK b \in 0..Len(input) : b = Len(input)
  BY <1>1
<1>6. Follows(b)'
  <2>1. Tracks(b)'
    BY <1>4, <1>5 DEF Tracks
  <2>2. QED
    BY <1>3, <1>4, <1>5, <2>1 DEF Follows
<1>7. QED
  BY <1>6

\* A body is read: where its packet ends.
LEMMA BodyEnd ==
  ASSUME Inductive, NEW base \in 0..Len(input), Follows(base), where = "body"
  PROVE  LET e == FirstRun(input, base)
         IN  /\ e = pos - LengthSize /\ e \in Nat /\ e + 2 = pos
             /\ e \in RunEnds(input, base) /\ e >= base + 4
             /\ LengthAt(input, e) = length
             /\ EndOf(reader, input, e) = pos + BodySize(reader, length)
<1>1. /\ pos \in Nat /\ input \in Seq(Nat) /\ Len(input) \in Nat /\ base \in Nat
      /\ BodySize(reader, length) \in Nat /\ length \in Nat /\ pos <= Len(input)
  BY Typed, FieldValues DEF Inductive
<1>2. /\ pos >= 2 /\ FirstRun(input, base) = pos - 2 /\ pos - 2 \in RunEnds(input, base)
      /\ length = LengthAt(input, pos - 2)
      /\ reader = "DataStream" => length >= 3
  BY DEF Follows, Tracks
<1>3. pos - 2 >= base + 4 /\ pos - 2 \in Nat /\ (pos - 2) + 2 = pos
  BY <1>1, <1>2 DEF RunEnds
<1>4. EndOf(reader, input, pos - 2) = pos + BodySize(reader, length)
  BY <1>1, <1>2, <1>3 DEF EndOf
<1>5. QED
  BY <1>2, <1>3, <1>4

\* All of the body is there: it is the next packet of the stream, returned or not.
LEMMA BodyFollowed ==
  ASSUME Inductive, NEW base \in 0..Len(input), Follows(base), ReadBody,
         where' # "undefined"
  PROVE  \E b \in 0..Len(input) : Follows(b)'
<1> DEFINE e == pos - 2
           size == BodySize(reader, length)
           body == SubSeq(input, pos + 1, pos + size)
<1>1. /\ pos \in Nat /\ input \in Seq(Nat) /\ Len(input) \in Nat
      /\ reader \in Readers /\ packets \in Seq(Seq(Nat)) /\ timeouts \in Nat
      /\ size \in Nat /\ length \in Nat
  BY Typed, FieldValues DEF Inductive
<1>2. /\ where = "body" /\ size <= Len(input) - pos /\ pos' = pos + size
      /\ where' = IF length < MinLength[reader] \/ ~ HeaderAccepted(reader, body) THEN "failed" ELSE "done"
      /\ packets' = IF where' = "done" THEN Append(packets, Payload(reader, body)) ELSE packets
      /\ UNCHANGED <<reader, input, timeouts>>
  BY DEF ReadBody, Available
<1>3. /\ FirstRun(input, base) = e /\ e + 2 = pos
      /\ e \in RunEnds(input, base)
      /\ LengthAt(input, e) = length
      /\ EndOf(reader, input, e) = pos + size
  BY <1>2, BodyEnd
<1>4. BodyOf(reader, input, e) = body
  BY <1>3 DEF BodyOf
<1> HIDE DEF e, size
<1>5. pos + size \in 0..Len(input) /\ ~ (pos + size > Len(input))
  BY <1>1, <1>2
<1>6. Returned(reader, input, e) <=> where' = "done"
  <2>1. MinLength[reader] \in Nat
    BY <1>1 DEF MinLength, Readers
  <2>2. ~ (length < MinLength[reader]) <=> length >= MinLength[reader]
    BY <1>1, <2>1
  <2> HIDE DEF body
  <2>3. QED
    BY <1>2, <1>3, <1>4, <2>2 DEF Returned
<1>7. body \in Seq(Nat) /\ Payload(reader, body) \in Seq(Nat)
  <2>1. body \in Seq(Nat)
    BY <1>1, <1>5
  <2> HIDE DEF body
  <2>2. QED
    BY <1>1, <2>1, PayloadSeq
<1> HIDE DEF body
<1>8. PacketsFrom(reader, input)[base] =
        (IF Returned(reader, input, e) THEN <<Payload(reader, body)>> ELSE <<>>)
          \o PacketsFrom(reader, input)[pos + size]
  <2>1. RunEnds(input, base) # {} /\ ~ (EndOf(reader, input, FirstRun(input, base)) > Len(input))
    BY <1>3, <1>5
  <2>2. PacketsFrom(reader, input)[base] =
          (IF Returned(reader, input, e) THEN <<Payload(reader, BodyOf(reader, input, e))>> ELSE <<>>)
            \o PacketsFrom(reader, input)[EndOf(reader, input, e)]
    BY <1>1, <1>3, <2>1, FirstPacket
  <2>3. QED
    BY <1>3, <1>4, <2>2
<1>9. Accounted(reader, input, base, packets, timeouts)
  BY DEF Follows
<1>10. Accounted(reader, input, pos + size, packets', timeouts)
  <2>1. CASE where' = "done"
    <3>1. PacketsFrom(reader, input)[base] = <<Payload(reader, body)>> \o PacketsFrom(reader, input)[pos + size]
      BY <1>6, <1>8, <2>1
    <3>2. Accounted(reader, input, pos + size, Append(packets, Payload(reader, body)), timeouts)
      BY <1>1, <1>5, <1>7, <1>9, <3>1, AccountReturned
    <3>3. QED
      BY <1>2, <2>1, <3>2
  <2>2. CASE where' # "done"
    <3>1. PacketsFrom(reader, input)[base] = <<>> \o PacketsFrom(reader, input)[pos + size]
      BY <1>6, <1>8, <2>2
    <3>2. PacketsFrom(reader, input)[pos + size] \in Seq(Seq(Nat))
      BY <1>1, <1>5, PacketsFromType
    <3>3. PacketsFrom(reader, input)[base] = PacketsFrom(reader, input)[pos + size]
      BY <3>1, <3>2, ConcatEmptySeq
    <3>4. QED
      BY <1>2, <1>9, <2>2, <3>3, AccountSkipped
  <2>3. QED
    BY <2>1, <2>2
<1>11. PICK b \in 0..Len(input) : b = pos + size
  BY <1>5
<1>12. Tracks(b)'
  BY <1>2, <1>11 DEF Tracks
<1>13. Follows(b)'
  BY <1>2, <1>10, <1>11, <1>12 DEF Follows
<1>14. QED
  BY <1>13

\* A receive times out: the place reached is not behind the end of the packet
\* that is being read, so that the next one is still to come.
LEMMA TimeoutFollowed ==
  ASSUME Inductive, NEW base \in 0..Len(input), Follows(base), Timeout,
         Unambiguous(reader, input)
  PROVE  \E b \in 0..Len(input) : Follows(b)'
<1>1. /\ pos \in Nat /\ input \in Seq(Nat) /\ Len(input) \in Nat /\ base \in Nat
      /\ reader \in Readers /\ packets \in Seq(Seq(Nat)) /\ timeouts \in Nat
      /\ BodySize(reader, length) \in Nat /\ pos <= Len(input) /\ stxLeft \in 0..4
      /\ Len(chunk) \in Nat
  BY Typed, FieldValues DEF Inductive
<1>2. PICK received \in Nat :
        /\ TimedOut(received)
        /\ base <= pos + received
        /\ RunEnds(input, base) # {} => pos + received <= EndOf(reader, input, FirstRun(input, base))
  <2>1. CASE TimeoutInScan
    <3>1. TimedOut(0) /\ where = "scan" /\ Len(chunk) = 0
      BY <2>1 DEF TimeoutInScan
    <3>2. Believed <= pos /\ Believed + 4 >= pos /\ Believed \in Int
      BY <1>1, <3>1 DEF Believed, Scanned
    <3>3. base <= Believed /\ \A e \in RunEnds(input, base) : e >= Believed + 4
      BY <3>1 DEF Follows, Tracks
    <3>4. ASSUME RunEnds(input, base) # {} PROVE pos <= EndOf(reader, input, FirstRun(input, base))
      <4> DEFINE e == FirstRun(input, base)
      <4>1. e \in RunEnds(input, base)
        BY <1>1, <3>4, FirstRunIsFirst
      <4>2. e \in Nat /\ e <= Len(input) /\ e >= Believed + 4
        <5>1. e \in Nat /\ e <= Len(input)
          BY <1>1, <4>1 DEF RunEnds
        <5> HIDE DEF e
        <5>2. QED
          BY <3>3, <4>1, <5>1
      <4>3. EndOf(reader, input, e) \in Nat /\ EndOf(reader, input, e) > e
        BY <1>1, <4>2, EndsBehind
      <4> HIDE DEF e
      <4>4. pos <= EndOf(reader, input, e)
        BY <1>1, <3>2, <4>2, <4>3
      <4>5. QED
        BY <4>4 DEF e
    <3>5. base <= pos + 0 /\ pos + 0 = pos
      BY <1>1, <3>2, <3>3
    <3>6. QED
      BY <3>1, <3>4, <3>5
  <2>2. CASE TimeoutInLength
    <3>1. PICK received \in 0..1 : TimedOut(received)
      BY <2>2 DEF TimeoutInLength
    <3>2. pos >= base + 4 /\ FirstRun(input, base) = pos
      BY <2>2, RunComplete DEF Follows, TimeoutInLength
    <3>3. EndOf(reader, input, pos) \in Nat /\ EndOf(reader, input, pos) > pos
      BY <1>1, EndsBehind
    <3>4. received \in Nat /\ base <= pos + received /\ pos + received <= EndOf(reader, input, pos)
      BY <1>1, <3>1, <3>2, <3>3
    <3>5. QED
      BY <3>1, <3>2, <3>4
  <2>3. CASE TimeoutInBody
    <3>1. PICK received \in 0..(BodySize(reader, length) - 1) : TimedOut(received)
      BY <2>3 DEF TimeoutInBody
    <3>2. /\ EndOf(reader, input, FirstRun(input, base)) = pos + BodySize(reader, length)
          /\ FirstRun(input, base) >= base + 4 /\ FirstRun(input, base) + 2 = pos
          /\ FirstRun(input, base) \in Nat
      BY <2>3, BodyEnd DEF TimeoutInBody
    <3>3. received \in Nat /\ base <= pos + received /\ pos + received <= pos + BodySize(reader, length)
      <4> DEFINE size == BodySize(reader, length)
                 e == FirstRun(input, base)
      <4>1. size \in Nat /\ received \in 0..(size - 1) /\ e \in Nat /\ e >= base + 4 /\ e + 2 = pos
        BY <1>1, <3>1, <3>2
      <4> HIDE DEF size, e
      <4>2. received \in Nat /\ received <= size
        BY <4>1
      <4>3. base <= pos
        BY <1>1, <4>1
      <4>4. base <= pos + received /\ pos + received <= pos + size
        BY <1>1, <4>1, <4>2, <4>3
      <4>5. QED
        BY <4>2, <4>4 DEF size
    <3>4. QED
      BY <3>1, <3>2, <3>3
  <2>4. QED
    BY <2>1, <2>2, <2>3 DEF Timeout
<1>3. /\ pos' = pos + received /\ pos + received <= Len(input) /\ where' = "failed"
      /\ timeouts' = timeouts + 1
      /\ UNCHANGED <<reader, input, packets>>
  BY <1>1, <1>2 DEF TimedOut, Available
<1>4. PICK b \in base..Len(input) : b = pos + received
  BY <1>1, <1>2, <1>3
<1>5. PICK x \in Seq(Seq(Nat)) :
        Len(x) <= 1 /\ PacketsFrom(reader, input)[base] = x \o PacketsFrom(reader, input)[b]
  <2>1. base \in 0..Len(input)
    OBVIOUS
  <2>2. RunEnds(input, base) # {} => b <= EndOf(reader, input, FirstRun(input, base))
    BY <1>2, <1>4, Zenon
  <2>3. reader \in Readers /\ input \in Seq(Nat)
    BY <1>1
  <2>4. QED
    BY <1>4, <2>1, <2>2, <2>3, Resumed, Zenon
<1>6. b \in 0..Len(input)
  BY <1>1, <1>4
<1>7. Accounted(reader, input, b, packets, timeouts + 1)
  BY <1>1, <1>5, <1>6, AccountLost DEF Follows
<1>8. Tracks(b)'
  BY <1>3, <1>4 DEF Tracks
<1>9. Follows(b)'
  BY <1>3, <1>7, <1>8 DEF Follows
<1>10. QED
  BY <1>6, <1>9

\* The next read begins where the last one ended.
LEMMA NextReadFollowed ==
  ASSUME Inductive, NEW base \in 0..Len(input), Follows(base), NextRead
  PROVE  Follows(base)'
<1>1. /\ pos \in Nat /\ base = pos /\ where' = "scan" /\ Believed' = pos
      /\ UNCHANGED <<reader, input, packets, timeouts>>
  <2>1. pos' = pos /\ stxLeft' = 4 /\ Len(chunk') = 0 /\ pos \in Nat
    BY Typed DEF NextRead, Inductive
  <2>2. Believed' = pos
    BY <2>1 DEF Believed, Scanned
  <2>3. QED
    BY <2>1, <2>2 DEF NextRead, Follows, Tracks
<1>2. Tracks(base)'
  BY <1>1 DEF Tracks, RunEnds
<1>3. QED
  BY <1>1, <1>2 DEF Follows

LEMMA NextFollowing == Inductive /\ Following /\ [Next]_vars => Following'
<1> SUFFICES ASSUME Inductive, Following, [Next]_vars,
                    where' # "undefined", timeouts' = 0 \/ Unambiguous(reader', input')
             PROVE  \E base \in 0..Len(input') : Follows(base)'
  BY DEF Following
<1>1. UNCHANGED <<reader, input>>
  BY DEF Next, Scan, Read, Timeout, ReceiveForScan, ClosedInScan, ScanStx, ScanOther, ReadLength,
         ClosedAtLength, ReadBody, ClosedInBody, TimeoutInScan, TimeoutInLength, TimeoutInBody,
         TimedOut, NextRead, AllRead, vars
<1>2. /\ timeouts \in Nat
      /\ Timeout => timeouts' # 0
      /\ ~ Timeout => timeouts' = timeouts
  <2>1. timeouts \in Nat
    BY Typed DEF Inductive
  <2>2. Timeout => timeouts' = timeouts + 1
    BY DEF Timeout, TimeoutInScan, TimeoutInLength, TimeoutInBody, TimedOut
  <2>3. ~ Timeout => timeouts' = timeouts
    BY DEF Next, Scan, Read, ReceiveForScan, ClosedInScan, ScanStx, ScanOther, ReadLength,
           ClosedAtLength, ReadBody, ClosedInBody, NextRead, AllRead, vars
  <2>4. QED
    BY <2>1, <2>2, <2>3
<1>3. timeouts = 0 \/ Unambiguous(reader, input)
  BY <1>1, <1>2
<1>4. where # "undefined"
  BY DEF Next, Scan, Read, Timeout, ReceiveForScan, ClosedInScan, ScanStx, ScanOther, ReadLength,
         ClosedAtLength, ReadBody, ClosedInBody, TimeoutInScan, TimeoutInLength, TimeoutInBody,
         NextRead, AllRead, vars
<1>5. PICK base \in 0..Len(input) : Follows(base)
  BY <1>3, <1>4 DEF Following
<1>6. CASE Scan
  BY <1>1, <1>5, <1>6, ReceiveFollowed, ByteFollowed, ClosedInScanFollowed DEF Scan
<1>7. CASE Read
  BY <1>1, <1>5, <1>7, LengthFollowed, ClosedFollowed, BodyFollowed DEF Read
<1>8. CASE Timeout
  BY <1>1, <1>2, <1>5, <1>8, TimeoutFollowed
<1>9. CASE NextRead
  BY <1>1, <1>5, <1>9, NextReadFollowed
<1>10. CASE AllRead \/ UNCHANGED vars
  <2>1. UNCHANGED vars
    BY <1>10 DEF AllRead
  <2>2. Follows(base)'
    BY <1>5, <2>1 DEF vars, Follows, Tracks, Believed, Scanned
  <2>3. QED
    BY <1>1, <2>2
<1>11. QED
  BY <1>6, <1>7, <1>8, <1>9, <1>10 DEF Next

LEMMA FollowingInvariance == Spec => [](Inductive /\ Following)
<1>1. Init => Following
  <2> SUFFICES ASSUME Init PROVE \E base \in 0..Len(input) : Follows(base)
    BY DEF Following
  <2>1. reader \in Readers /\ input \in Seq(Nat) /\ Len(input) \in Nat
    BY DEF Init, Readers
  <2>2. Tracks(0)
    <3>1. Len(chunk) = 0 /\ pos = 0 /\ stxLeft = 4 /\ where = "scan"
      BY DEF Init
    <3>2. Believed = 0
      BY <3>1 DEF Believed, Scanned
    <3>3. \A e \in RunEnds(input, 0) : e >= 4
      BY <2>1 DEF RunEnds
    <3>4. QED
      BY <3>1, <3>2, <3>3 DEF Tracks
  <2>3. Accounted(reader, input, 0, packets, timeouts)
    BY <2>1, AccountNothing DEF Init
  <2>4. QED
    BY <2>1, <2>2, <2>3 DEF Follows
<1>2. Spec => []Inductive
  BY Invariance
<1>3. QED
  BY <1>1, <1>2, NextFollowing, PTL DEF Spec

\* At the end all packets of the stream are accounted for.
LEMMA AllAccounted ==
  ASSUME Inductive, Following, AtEnd, timeouts = 0 \/ Unambiguous(reader, input)
  PROVE  Account(PacketsIn(reader, input), packets, timeouts)
<1>1. /\ input \in Seq(Nat) /\ Len(input) \in Nat /\ pos = Len(input)
      /\ where \in {"done", "failed"}
  BY Typed DEF Inductive, AtEnd, Available
<1>2. PICK base \in 0..Len(input) : Follows(base)
  BY <1>1 DEF Following
<1>3. base = Len(input)
  BY <1>1, <1>2 DEF Follows, Tracks
<1>4. PacketsFrom(reader, input)[base] = <<>>
  <2>1. RunEnds(input, base) = {}
    BY <1>1, <1>3 DEF RunEnds
  <2>2. QED
    BY <1>1, <2>1, NothingLeft
<1>5. PICK given \in Seq(Seq(Nat)) :
        /\ PacketsIn(reader, input) = given \o PacketsFrom(reader, input)[base]
        /\ Account(given, packets, timeouts)
  BY <1>2 DEF Follows, Accounted
<1>6. PacketsIn(reader, input) = given
  BY <1>4, <1>5, ConcatEmptySeq
<1>7. QED
  BY <1>5, <1>6

\* Whatever the stream and however the network cuts it, the readers return the
\* payloads of its packets, all of them and nothing else, as long as no receive
\* times out.
THEOREM ReadsExactly == Spec => []PacketsExact
<1>1. Inductive /\ Following => PacketsExact
  BY AllAccounted DEF PacketsExact, Account
<1>2. QED
  BY FollowingInvariance, <1>1, PTL

\* Whatever the stream, wherever and how often receives time out, each of them
\* costs one packet at most, and nothing is returned that is not a packet of the
\* stream.
THEOREM TimeoutsCostOne == Spec => []TimeoutCostsOnePacket
<1>1. Inductive /\ Following => TimeoutCostsOnePacket
  BY AllAccounted DEF TimeoutCostsOnePacket, Account
<1>2. QED
  BY FollowingInvariance, <1>1, PTL

-----------------------------------------------------------------------------
(* Progress.                                                               *)

\* How many steps a reader can still take, at most: every byte is received and
\* looked at once, every receive that times out costs one more read.
Rank ==
  2 * (MaxTimeouts - timeouts) + 2 * Available + Len(chunk)
    + (CASE where = "scan" -> 1
         [] where = "body" -> 3
         [] where = "undefined" -> 0
         [] OTHER -> IF Available = 0 THEN 0 ELSE 2)

\* CoLaB looks at the same byte again.
LooksAgain == reader = "CoLaB" /\ ScanOther

LEMMA RankIsNat == TypeOK => Rank \in Nat
<1> SUFFICES ASSUME TypeOK PROVE Rank \in Nat
  OBVIOUS
<1>1. /\ MaxTimeouts - timeouts \in Nat /\ Available \in Nat /\ Len(chunk) \in Nat
      /\ where \in {"scan", "body", "done", "failed", "undefined"}
  BY DEF TypeOK, Available
<1>2. QED
  BY <1>1 DEF Rank

LEMMA StepCounts ==
  ASSUME Inductive, Next, ~ LooksAgain, ~ AllRead
  PROVE  Rank' < Rank
<1> DEFINE a == Available
           k == Len(chunk)
           t == timeouts
<1>1. /\ a \in Nat /\ k \in Nat /\ t \in Nat /\ MaxTimeouts \in Nat /\ t <= MaxTimeouts
      /\ pos \in Nat /\ input \in Seq(Nat) /\ Len(input) \in Nat /\ a = Len(input) - pos
      /\ chunk \in Seq(Nat) /\ pos <= Len(input)
      /\ stxLeft \in 0..4 /\ BodySize(reader, length) \in Nat
  BY Typed, FieldValues DEF Inductive, TypeOK, Available
<1>2. input' = input /\ Available' = Len(input) - pos'
  BY DEF Next, Scan, Read, Timeout, ReceiveForScan, ClosedInScan, ScanStx, ScanOther, ReadLength,
         ClosedAtLength, ReadBody, ClosedInBody, TimeoutInScan, TimeoutInLength, TimeoutInBody,
         TimedOut, NextRead, AllRead, Available
<1>3. CASE ReceiveForScan
  <2>1. PICK n \in 1..(IF reader = "DataStream" THEN 1 ELSE stxLeft) :
          /\ n <= Available
          /\ chunk' = SubSeq(input, pos + 1, pos + n)
          /\ pos' = pos + n
    BY <1>3 DEF ReceiveForScan
  <2>2. n \in Nat /\ n >= 1 /\ n <= a
    BY <1>1, <2>1
  <2>3. Len(chunk') = n /\ k = 0 /\ where = "scan" /\ where' = "scan" /\ timeouts' = timeouts
    <3>1. Len(chunk') = n
      BY <1>1, <2>1, <2>2
    <3>2. QED
      BY <1>3, <3>1 DEF ReceiveForScan
  <2>4. Available' = a - n
    BY <1>1, <1>2, <2>1, <2>2
  <2> HIDE DEF a, k
  <2>5. Rank = 2 * (MaxTimeouts - t) + 2 * a + k + 1
    BY <2>3 DEF Rank, a, k
  <2>6. Rank' = 2 * (MaxTimeouts - t) + 2 * (a - n) + n + 1
    BY <2>3, <2>4 DEF Rank
  <2>7. a \in Nat /\ 2 * (MaxTimeouts - t) \in Int /\ k = 0
    BY <1>1, <2>3
  <2>8. QED
    BY <2>2, <2>5, <2>6, <2>7
<1>4. CASE ScanStx \/ ScanOther
  <2>1. /\ where = "scan" /\ where' = "scan" /\ chunk # <<>> /\ chunk' = Tail(chunk)
        /\ timeouts' = timeouts /\ pos' = pos
    BY <1>4 DEF ScanStx, ScanOther, LooksAgain
  <2>2. Len(chunk') = k - 1
    BY <1>1, <2>1
  <2>3. Available' = a
    BY <1>2, <2>1 DEF Available
  <2> HIDE DEF a, k
  <2>4. Rank = 2 * (MaxTimeouts - t) + 2 * a + k + 1
    BY <2>1 DEF Rank, a, k
  <2>5. Rank' = 2 * (MaxTimeouts - t) + 2 * a + (k - 1) + 1
    BY <2>1, <2>2, <2>3 DEF Rank
  <2>6. a \in Nat /\ k \in Nat /\ 2 * (MaxTimeouts - t) \in Int
    BY <1>1
  <2>7. QED
    BY <2>4, <2>5, <2>6

\* The other steps receive a part of a packet or nothing, and leave the scan.
<1>5. ASSUME pos' \in pos..Len(input), timeouts' \in {t, t + 1},
             Len(chunk') \in Nat, Len(chunk') <= k,
             \/ where = "scan" /\ where' = "body" /\ pos' >= pos + 2
             \/ /\ where = "scan" /\ where' = "failed"
                /\ pos' >= pos + 2 \/ timeouts' = t + 1 \/ pos' = Len(input)
             \/ where = "body" /\ where' \in {"done", "failed", "undefined"}
             \/ where \in {"done", "failed"} /\ where' = "scan" /\ a > 0
      PROVE  Rank' < Rank
  <2> DEFINE a1 == Available'
             t1 == timeouts'
             k1 == Len(chunk')
             w == CASE where = "scan" -> 1
                    [] where = "body" -> 3
                    [] where = "undefined" -> 0
                    [] OTHER -> IF a = 0 THEN 0 ELSE 2
             w1 == CASE where' = "scan" -> 1
                    [] where' = "body" -> 3
                    [] where' = "undefined" -> 0
                    [] OTHER -> IF a1 = 0 THEN 0 ELSE 2
  <2>1. /\ a1 \in Nat /\ t1 \in {t, t + 1} /\ k1 \in Nat /\ k1 <= k
        /\ a1 <= a /\ a1 = Len(input) - pos'
    BY <1>1, <1>2, <1>5
  <2>2. Rank = 2 * (MaxTimeouts - t) + 2 * a + k + w
    BY DEF Rank
  <2>3. Rank' = 2 * (MaxTimeouts - t1) + 2 * a1 + k1 + w1
    BY DEF Rank
  <2>4. w \in Nat /\ w1 \in Nat /\ w1 + 2 * a1 + 2 * t < w + 2 * a + 2 * t1
    <3> HIDE DEF a1, t1, k1, a, k
    <3>1. CASE where = "scan" /\ where' = "body" /\ pos' >= pos + 2
      <4>1. w = 1 /\ w1 = 3
        BY <3>1
      <4>2. a1 + 2 <= a
        BY <1>1, <1>5, <2>1, <3>1 DEF a
      <4> HIDE DEF w, w1
      <4>3. a \in Nat /\ a1 \in Nat /\ t \in Nat /\ t1 \in {t, t + 1}
        BY <1>1, <2>1
      <4>4. QED
        BY <4>1, <4>2, <4>3
    <3>2. CASE where = "scan" /\ where' = "failed" /\ (pos' >= pos + 2 \/ timeouts' = t + 1 \/ pos' = Len(input))
      <4>1. w = 1 /\ w1 \in {0, 2} /\ (a1 = 0 => w1 = 0)
        BY <3>2
      <4>2. a1 + 2 <= a \/ t1 = t + 1 \/ a1 = 0
        BY <1>1, <1>5, <2>1, <3>2 DEF a, t1
      <4> HIDE DEF w, w1
      <4>3. a \in Nat /\ a1 \in Nat /\ a1 <= a /\ t \in Nat /\ t1 \in {t, t + 1}
        BY <1>1, <2>1
      <4>4. QED
        BY <4>1, <4>2, <4>3
    <3>3. CASE where = "body" /\ where' \in {"done", "failed", "undefined"}
      <4>1. w = 3 /\ w1 \in {0, 2}
        BY <3>3
      <4> HIDE DEF w, w1
      <4>2. QED
        BY <1>1, <2>1, <4>1
    <3>4. CASE where \in {"done", "failed"} /\ where' = "scan" /\ a > 0
      <4>1. w = 2 /\ w1 = 1
        BY <1>1, <3>4
      <4> HIDE DEF w, w1
      <4>2. QED
        BY <1>1, <2>1, <4>1
    <3>5. QED
      BY <1>5, <3>1, <3>2, <3>3, <3>4
  <2>5. a \in Nat /\ k \in Nat /\ t \in Nat /\ MaxTimeouts \in Nat /\ t1 \in Nat
    BY <1>1, <2>1
  <2>6. k1 \in Nat /\ k1 <= k /\ a1 \in Nat
    BY <2>1
  <2> HIDE DEF a, k, t, w, w1, a1, t1, k1
  <2>7. 2 * (MaxTimeouts - t1) + 2 * a1 + k1 + w1 < 2 * (MaxTimeouts - t) + 2 * a + k + w
    BY <2>4, <2>5, <2>6
  <2>8. QED
    BY <2>2, <2>3, <2>7
<1>6. CASE ClosedInScan
  BY <1>1, <1>5, <1>6 DEF ClosedInScan
<1>7. CASE ReadLength
  BY <1>1, <1>5, <1>7 DEF ReadLength
<1>8. CASE ClosedAtLength \/ ClosedInBody
  BY <1>1, <1>5, <1>8 DEF ClosedAtLength, ClosedInBody
<1>9. CASE ReadBody
  <2>1. /\ pos' = pos + BodySize(reader, length) /\ BodySize(reader, length) <= a
        /\ timeouts' = timeouts /\ chunk' = chunk
        /\ where = "body" /\ where' \in {"done", "failed", "undefined"}
    BY <1>9 DEF ReadBody
  <2>2. pos' \in pos..Len(input)
    <3> DEFINE size == BodySize(reader, length)
    <3>1. size \in Nat /\ size <= Len(input) - pos /\ pos' = pos + size
      BY <1>1, <2>1
    <3> HIDE DEF size
    <3>2. QED
      BY <1>1, <3>1
  <2>3. QED
    BY <1>1, <1>5, <2>1, <2>2
<1>10. CASE Timeout
  <2>1. \E n \in Nat : TimedOut(n)
    BY <1>1, <1>10 DEF Timeout, TimeoutInScan, TimeoutInLength, TimeoutInBody
  <2>2. PICK n \in Nat : TimedOut(n)
    BY <2>1
  <2>3. /\ pos' = pos + n /\ n <= a /\ timeouts' = timeouts + 1 /\ chunk' = chunk /\ where' = "failed"
    BY <2>2 DEF TimedOut
  <2>4. pos' \in pos..Len(input)
    BY <1>1, <2>3
  <2>5. where = "scan" \/ where = "body"
    BY <1>10 DEF Timeout, TimeoutInScan, TimeoutInLength, TimeoutInBody
  <2>6. QED
    BY <1>1, <1>5, <2>3, <2>4, <2>5
<1>11. CASE NextRead
  <2>1. /\ pos' = pos /\ timeouts' = timeouts /\ Len(chunk') = 0
        /\ where \in {"done", "failed"} /\ where' = "scan" /\ a > 0
    BY <1>1, <1>11 DEF NextRead
  <2>2. QED
    BY <1>1, <1>5, <2>1
<1>12. QED
  BY <1>3, <1>4, <1>6, <1>7, <1>8, <1>9, <1>10, <1>11 DEF Next, Scan, Read

\* Every step of a reader brings it nearer to the end of what the peer sends, but
\* for CoLaB meeting a byte that is no STX: from any stream a reader is through
\* after no more steps than Rank is at first.
THEOREM EveryStepCounts ==
  Spec => /\ [](Rank \in Nat)
          /\ [][AllRead \/ LooksAgain \/ Rank' < Rank]_vars
<1>1. Inductive => Rank \in Nat
  BY RankIsNat DEF Inductive
<1>2. Inductive /\ [Next]_vars => [AllRead \/ LooksAgain \/ Rank' < Rank]_vars
  BY StepCounts
<1>3. QED
  BY Invariance, <1>1, <1>2, PTL DEF Spec
=============================================================================
