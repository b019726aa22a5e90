---------------------------- MODULE AutoIPProofs ----------------------------
(***************************************************************************)
(* Theorems about AutoIP for any number of devices and calls, and buffers  *)
(* of any size.                                                            *)
(***************************************************************************)
EXTENDS AutoIP, TLAPS

USE InvalidAssumption, BoundsAssumption

\* What waits in the sockets belongs to this call or an earlier one, and what
\* answers this scan comes from a device that has answered.
Waiting ==
  \A m \in Unread :
    /\ m.id <= Id
    /\ m.kind = "scan" /\ m.id = Id /\ m.parses => m.from \in answered

\* Requests are on their way to the devices they are for.
OnTheirWay ==
  \A i \in DOMAIN calls, d \in Devices : pending[i][d] > 0 => d \in Addressed(calls[i])

\* After a quiet beginning all that concerns an assign concerns this one.
Quiet ==
  quiet =>
    /\ Op = "assign"
    /\ \A m \in Unread : m.kind = "ipconfig" => config[Last(calls).target] = Id
    /\ \A i \in DOMAIN calls, d \in Devices :
         calls[i].op = "assign" /\ pending[i][d] > 0 => i = Id
    /\ QuietAssignConfigures

Listed == ListedOnce /\ ListedAnswered /\ NothingOverlooked

IInv == TypeOK /\ Waiting /\ OnTheirWay /\ Quiet /\ Listed

-----------------------------------------------------------------------------
LEMMA AppendRange ==
  ASSUME NEW S, NEW s \in Seq(S), NEW x \in S
  PROVE  Append(s, x) \in Seq(S) /\ Range(Append(s, x)) = Range(s) \cup {x}
<1>1. Append(s, x) \in Seq(S) /\ Len(Append(s, x)) = Len(s) + 1
  OBVIOUS
<1>2. ASSUME NEW y \in Range(Append(s, x)) PROVE y \in Range(s) \cup {x}
  BY <1>1 DEF Range
<1>3. ASSUME NEW y \in Range(s) PROVE y \in Range(Append(s, x))
  <2>1. PICK i \in 1..Len(s) : s[i] = y
    BY DEF Range
  <2>2. Append(s, x)[i] = y /\ i \in 1..Len(Append(s, x))
    BY <2>1
  <2>3. QED
    BY <1>1, <2>2 DEF Range
<1>4. x \in Range(Append(s, x))
  <2>1. Append(s, x)[Len(s) + 1] = x /\ Len(s) + 1 \in 1..Len(Append(s, x))
    OBVIOUS
  <2>2. QED
    BY <1>1, <2>1 DEF Range
<1>5. QED
  BY <1>1, <1>2, <1>3, <1>4

LEMMA TailRange ==
  ASSUME NEW S, NEW s \in Seq(S), s # <<>>
  PROVE  /\ Tail(s) \in Seq(S) /\ Head(s) \in Range(s)
         /\ Range(Tail(s)) \subseteq Range(s) /\ Range(s) \subseteq Range(Tail(s)) \cup {Head(s)}
<1>1. /\ Tail(s) \in Seq(S) /\ Len(Tail(s)) = Len(s) - 1 /\ Len(s) \in Nat /\ Len(s) > 0
      /\ DOMAIN Tail(s) = 1..Len(Tail(s))
  OBVIOUS
<1>2. Head(s) = s[1] /\ 1 \in 1..Len(s)
  BY <1>1
<1>3. ASSUME NEW y \in Range(Tail(s)) PROVE y \in Range(s)
  <2>1. PICK i \in 1..Len(Tail(s)) : Tail(s)[i] = y
    BY <1>1 DEF Range
  <2>2. s[i + 1] = y /\ i + 1 \in 1..Len(s)
    BY <1>1, <2>1
  <2>3. QED
    BY <2>2 DEF Range
<1>4. ASSUME NEW y \in Range(s), y # Head(s) PROVE y \in Range(Tail(s))
  <2>1. PICK i \in 1..Len(s) : s[i] = y
    BY DEF Range
  <2>2. i # 1
    BY <1>2, <1>4, <2>1
  <2>3. i - 1 \in 1..Len(Tail(s)) /\ Tail(s)[i - 1] = y
    BY <1>1, <2>1, <2>2
  <2>4. QED
    BY <1>1, <2>3 DEF Range
<1>5. QED
  BY <1>1, <1>2, <1>3, <1>4 DEF Range

LEMMA SeqRange == ASSUME NEW S, NEW s \in Seq(S) PROVE Range(s) \subseteq S
  BY DEF Range

\* A device that is not listed can be appended without being listed twice.
LEMMA AppendOnce ==
  ASSUME NEW S, NEW s \in Seq(S), NEW x \in S, IsInjective(s), ~Contains(s, x)
  PROVE  IsInjective(Append(s, x))
<1>1. \A i \in 1..Len(s) : s[i] # x
  BY DEF Contains
<1>2. \A i, j \in 1..Len(s) : s[i] = s[j] => i = j
  BY DEF IsInjective
<1> DEFINE t == Append(s, x)
<1>3. /\ DOMAIN t = 1..(Len(s) + 1) /\ Len(s) \in Nat
      /\ t[Len(s) + 1] = x /\ \A i \in 1..Len(s) : t[i] = s[i]
  OBVIOUS
<1> HIDE DEF t
<1>4. ASSUME NEW i \in DOMAIN t, NEW j \in DOMAIN t, t[i] = t[j] PROVE i = j
  BY <1>1, <1>2, <1>3, <1>4
<1>5. QED
  BY <1>4 DEF IsInjective, t

-----------------------------------------------------------------------------
LEMMA InitIInv == Init => IInv
<1> SUFFICES ASSUME Init PROVE IInv
  OBVIOUS
<1>1. Unread = {} /\ Range(found) = {} /\ Len(calls) = 0
  BY DEF Init, Unread, Range
<1>2. TypeOK
  <2>1. \A S : <<>> \in Seq(S)
    OBVIOUS
  <2>2. Id = 0 /\ Id <= MaxCalls
    BY <1>1 DEF Id
  <2>3. {expired, quiet} \subseteq BOOLEAN
    BY DEF Init
  <2>4. config \in [Devices -> 0..Id]
    BY <2>2 DEF Init
  <2>5. QED
    BY <2>1, <2>2, <2>3, <2>4 DEF Init, TypeOK, Id
<1>3. Waiting /\ OnTheirWay /\ Quiet /\ Listed
  BY <1>1 DEF Init, Waiting, OnTheirWay, Quiet, Listed, ListedOnce, IsInjective, ListedAnswered,
              NothingOverlooked
<1>4. QED
  BY <1>2, <1>3 DEF IInv

LEMMA StutterIInv == IInv /\ UNCHANGED vars => IInv'
  BY DEF vars, buffers, network, IInv, TypeOK, Waiting, OnTheirWay, Quiet, Listed, Unread,
         QuietAssignConfigures, ListedOnce, ListedAnswered, NothingOverlooked, Op, Id, NoAssignUnderWay

\* The first steps of both calls.
LEMMA BeginIInv ==
  ASSUME IInv, NEW call \in {ScanCall} \cup {AssignCall(d) : d \in Devices}, Begin(call),
         quiet' \in BOOLEAN, quiet' => call.op = "assign" /\ NoAssignUnderWay
  PROVE  IInv'
<1> DEFINE echo == Datagram("request", Id + 1, invalid, TRUE)
           row == [d \in Devices |-> IF d \in Addressed(call) THEN Copies ELSE 0]
           Calls == {ScanCall} \cup {AssignCall(d) : d \in Devices}
<1>1. /\ calls \in Seq(Calls) /\ Id \in Nat /\ Id < MaxCalls
      /\ pending \in Seq([Devices -> 0..Copies]) /\ Len(pending) = Len(calls)
      /\ socket \in Seq(Datagrams) /\ rxsock \in Seq(Datagrams) /\ config \in [Devices -> 0..Id]
  BY DEF IInv, TypeOK, Begin, Id
<1>2. /\ calls' = Append(calls, call) /\ pending' = Append(pending, row)
      /\ rxsock' = Receive(rxsock, echo) /\ socket' = socket /\ config' = config
      /\ at' = "check" /\ expired' = FALSE /\ found' = <<>> /\ result' = "none" /\ answered' = {}
  BY DEF Begin, Write
<1>3. echo \in Datagrams /\ row \in [Devices -> 0..Copies]
  BY <1>1 DEF Datagram, Datagrams, Copies
<1>4. /\ calls' \in Seq(Calls) /\ Id' = Id + 1 /\ Last(calls') = call /\ calls'[Id + 1] = call
      /\ \A i \in 1..Id : calls'[i] = calls[i]
  BY <1>1, <1>2 DEF Id, Last
<1>5. /\ pending' \in Seq([Devices -> 0..Copies]) /\ Len(pending') = Len(calls')
      /\ pending'[Id + 1] = row /\ \A i \in 1..Id : pending'[i] = pending[i]
  BY <1>1, <1>2, <1>3, <1>4 DEF Id
<1>6. rxsock' \in Seq(Datagrams) /\ Range(rxsock') \subseteq Range(rxsock) \cup {echo}
  BY <1>1, <1>2, <1>3, AppendRange DEF Receive
<1>7. Unread' \subseteq Unread \cup {echo}
  BY <1>2, <1>6 DEF Unread
<1>8. TypeOK'
  <2>1. config' \in [Devices -> 0..Id']
    BY <1>1, <1>2, <1>4
  <2>2. Id' <= MaxCalls
    BY <1>1, <1>4
  <2>3. {expired', quiet'} \subseteq BOOLEAN
    BY <1>2
  <2>4. found' \in Seq(Devices) /\ socket' \in Seq(Datagrams)
    BY <1>1, <1>2
  <2>5. at' = "check" /\ result' = "none" /\ answered' = {}
    BY <1>2
  <2>6. QED
    BY <1>4, <1>5, <1>6, <2>1, <2>2, <2>3, <2>4, <2>5 DEF TypeOK
<1>9. Waiting'
  <2> SUFFICES ASSUME NEW m \in Unread'
               PROVE  m.id <= Id' /\ ~(m.kind = "scan" /\ m.id = Id')
    BY DEF Waiting
  <2>1. CASE m = echo
    BY <1>1, <1>4, <2>1 DEF Datagram
  <2>2. CASE m \in Unread
    <3>1. m \in Datagrams /\ m.id <= Id
      BY <1>1, <2>2, SeqRange DEF IInv, Waiting, Unread
    <3>2. m.id \in Nat
      BY <3>1 DEF Datagrams
    <3>3. QED
      BY <1>1, <1>4, <3>1, <3>2
  <2>3. QED
    BY <1>7, <2>1, <2>2
<1>10. OnTheirWay'
  <2> SUFFICES ASSUME NEW i \in DOMAIN calls', NEW d \in Devices, pending'[i][d] > 0
               PROVE  d \in Addressed(calls'[i])
    BY DEF OnTheirWay
  <2>1. i \in 1..Id \/ i = Id + 1
    BY <1>1, <1>2 DEF Id
  <2>2. CASE i \in 1..Id
    BY <1>1, <1>4, <1>5, <2>2 DEF IInv, OnTheirWay, Id
  <2>3. CASE i = Id + 1
    BY <1>4, <1>5, <2>3
  <2>4. QED
    BY <2>1, <2>2, <2>3
<1>11. Quiet'
  <2> SUFFICES ASSUME quiet' PROVE Quiet'
    BY DEF Quiet
  <2>1. call.op = "assign" /\ NoAssignUnderWay
    OBVIOUS
  <2>2. Op' = "assign"
    <3>1. calls' # <<>>
      BY <1>1, <1>2
    <3>2. QED
      BY <1>4, <2>1, <3>1 DEF Op
  <2>3. \A m \in Unread' : m.kind # "ipconfig"
    BY <1>7, <2>1 DEF NoAssignUnderWay, Unread, Datagram
  <2>4. ASSUME NEW i \in DOMAIN calls', NEW d \in Devices,
               calls'[i].op = "assign", pending'[i][d] > 0
        PROVE  i = Id'
    <3>1. i \in 1..Id \/ i = Id + 1
      BY <1>1, <1>2 DEF Id
    <3>2. ASSUME i \in 1..Id PROVE FALSE
      <4>1. i \in DOMAIN calls /\ calls[i].op = "assign" /\ pending[i][d] > 0
        BY <1>1, <1>4, <1>5, <2>4, <3>2 DEF Id
      <4>2. pending[i][d] = 0
        BY <2>1, <4>1 DEF NoAssignUnderWay
      <4>3. QED
        BY <4>1, <4>2
    <3>3. QED
      BY <1>4, <3>1, <3>2
  <2>5. QuietAssignConfigures'
    BY <1>2 DEF QuietAssignConfigures
  <2>6. QED
    BY <2>2, <2>3, <2>4, <2>5 DEF Quiet
<1>12. Listed'
  <2>1. found' = <<>> /\ Range(found') = {} /\ answered' = {}
    BY <1>2 DEF Range
  <2>2. QED
    BY <2>1 DEF Listed, ListedOnce, IsInjective, ListedAnswered, NothingOverlooked
<1>13. QED
  BY <1>8, <1>9, <1>10, <1>11, <1>12 DEF IInv

\* A datagram m that was unread is read.
LEMMA HandleIInv ==
  ASSUME IInv, NEW m \in Unread, Handle(m),
         UNCHANGED <<calls, expired, network, answered, quiet>>,
         socket' \in Seq(Datagrams), rxsock' \in Seq(Datagrams),
         Unread' \subseteq Unread, Unread \subseteq Unread' \cup {m}
  PROVE  IInv'
<1>1. m \in Datagrams /\ found \in Seq(Devices) /\ answered \subseteq Devices
  BY SeqRange DEF IInv, TypeOK, Unread
<1>2. Mac(m) # invalid => Mac(m) \in Devices /\ m.parses /\ Mac(m) = m.from
  BY <1>1 DEF Mac, Datagrams
<1>3. Id' = Id /\ Op' = Op /\ calls' = calls /\ pending' = pending /\ config' = config
  BY DEF Id, Op, network
<1>4. \/ found' = found
      \/ /\ Op = "scan" /\ m.kind = "scan" /\ m.id = Id /\ Mac(m) # invalid
         /\ ~Contains(found, Mac(m)) /\ found' = Append(found, Mac(m))
  BY DEF Handle, HandleScan, HandleAssign
<1>5. at' \in {"idle", "check"} /\ result' \in {result, "true"}
  BY DEF Handle, HandleScan, HandleAssign
<1>6. /\ found' \in Seq(Devices) /\ Range(found) \subseteq Range(found')
      /\ Range(found') \subseteq Range(found) \cup {Mac(m)}
      /\ Range(found') # Range(found) =>
           m.kind = "scan" /\ m.id = Id /\ m.parses /\ Mac(m) = m.from
      /\ IsInjective(found')
  <2>1. IsInjective(found)
    BY DEF IInv, Listed, ListedOnce
  <2>2. CASE found' = found
    BY <1>1, <2>1, <2>2
  <2>3. CASE /\ m.kind = "scan" /\ m.id = Id /\ Mac(m) # invalid
             /\ ~Contains(found, Mac(m)) /\ found' = Append(found, Mac(m))
    <3>1. Mac(m) \in Devices /\ m.parses /\ Mac(m) = m.from
      BY <1>2, <2>3
    <3>2. found' \in Seq(Devices) /\ Range(found') = Range(found) \cup {Mac(m)}
      BY <1>1, <2>3, <3>1, AppendRange
    <3>3. IsInjective(found')
      BY <1>1, <2>1, <2>3, <3>1, AppendOnce
    <3>4. QED
      BY <2>3, <3>1, <3>2, <3>3
  <2>4. QED
    BY <1>4, <2>2, <2>3
<1>7. TypeOK'
  BY <1>3, <1>5, <1>6 DEF IInv, TypeOK
<1>8. Waiting' /\ OnTheirWay'
  BY <1>3 DEF IInv, Waiting, OnTheirWay
<1>9. Quiet'
  <2> SUFFICES ASSUME quiet PROVE Quiet'
    BY DEF Quiet
  <2>1. /\ Op = "assign" /\ QuietAssignConfigures
        /\ \A x \in Unread : x.kind = "ipconfig" => config[Last(calls).target] = Id
    BY DEF IInv, Quiet
  <2>2. result' = "true" => config[Last(calls).target] = Id
    BY <2>1 DEF Handle, HandleAssign, QuietAssignConfigures
  <2>3. QED
    BY <1>3, <2>1, <2>2 DEF IInv, Quiet, QuietAssignConfigures
<1>10. Listed'
  <2>1. ListedAnswered'
    BY <1>6 DEF IInv, Listed, ListedAnswered, Waiting
  <2>2. ASSUME Op = "scan", NEW d \in answered
        PROVE  d \in Range(found') \/ \E x \in Unread' : x.kind = "scan" /\ x.id = Id /\ Mac(x) = d
    <3>1. d \in Devices /\ d # invalid
      BY <1>1
    <3>2. CASE d \in Range(found)
      BY <1>6, <3>2
    <3>3. CASE m.kind = "scan" /\ m.id = Id /\ Mac(m) = d
      <4>1. HandleScan(m)
        BY <2>2 DEF Handle
      <4>2. CASE Contains(found, d)
        <5>1. PICK k \in 1..Len(found) : found[k] = d
          BY <4>2 DEF Contains
        <5>2. k \in DOMAIN found
          BY <1>1
        <5>3. d \in Range(found)
          BY <5>1, <5>2 DEF Range
        <5>4. QED
          BY <1>6, <5>3
      <4>3. CASE ~Contains(found, d)
        BY <1>1, <3>1, <3>3, <4>1, <4>3, AppendRange DEF HandleScan
      <4>4. QED
        BY <4>2, <4>3
    <3>4. CASE \E x \in Unread : x # m /\ x.kind = "scan" /\ x.id = Id /\ Mac(x) = d
      BY <3>4
    <3>5. QED
      BY <2>2, <3>2, <3>3, <3>4 DEF IInv, Listed, NothingOverlooked
  <2>3. NothingOverlooked'
    BY <1>3, <2>2 DEF NothingOverlooked, Mac
  <2>4. QED
    BY <1>6, <2>1, <2>3 DEF Listed, ListedOnce
<1>11. QED
  BY <1>7, <1>8, <1>9, <1>10 DEF IInv

\* Steps that only move the call on.
LEMMA WaitIInv ==
  ASSUME IInv, UNCHANGED <<calls, found, buffers, network, answered, quiet>>,
         at' \in {"idle", "check", "socket", "rxsock"}, expired' \in BOOLEAN,
         result' \in {result, "false"}
  PROVE  IInv'
<1>1. Id' = Id /\ Op' = Op /\ Unread' = Unread /\ Last(calls)' = Last(calls)
  BY DEF Id, Op, Unread, buffers, Last
<1>2. TypeOK' /\ Waiting' /\ OnTheirWay'
  BY <1>1 DEF IInv, TypeOK, Waiting, OnTheirWay, network, buffers
<1>3. Quiet'
  BY <1>1 DEF IInv, Quiet, QuietAssignConfigures, network
<1>4. Listed'
  BY <1>1 DEF IInv, Listed, ListedOnce, ListedAnswered, NothingOverlooked, Mac
<1>5. QED
  BY <1>2, <1>3, <1>4 DEF IInv

LEMMA LibraryIInv == ASSUME IInv, Library PROVE IInv'
<1>1. socket \in Seq(Datagrams) /\ rxsock \in Seq(Datagrams) /\ expired \in BOOLEAN
  BY DEF IInv, TypeOK
<1>2. CASE CheckTime
  BY <1>1, <1>2, WaitIInv DEF CheckTime
<1>3. CASE ReadSocket
  <2>1. Head(socket) \in Unread /\ rxsock' = rxsock /\ socket' \in Seq(Datagrams)
    BY <1>1, <1>3, TailRange DEF ReadSocket, Unread
  <2>2. Unread' \subseteq Unread /\ Unread \subseteq Unread' \cup {Head(socket)}
    BY <1>1, <1>3, TailRange DEF ReadSocket, Unread
  <2>3. QED
    BY <1>1, <1>3, <2>1, <2>2, HandleIInv DEF ReadSocket
<1>4. CASE ReadRxsock
  <2>1. Head(rxsock) \in Unread /\ socket' = socket /\ rxsock' \in Seq(Datagrams)
    BY <1>1, <1>4, TailRange DEF ReadRxsock, Unread
  <2>2. Unread' \subseteq Unread /\ Unread \subseteq Unread' \cup {Head(rxsock)}
    BY <1>1, <1>4, TailRange DEF ReadRxsock, Unread
  <2>3. QED
    BY <1>1, <1>4, <2>1, <2>2, HandleIInv DEF ReadRxsock
<1>5. CASE SocketTimeout
  BY <1>1, <1>5, WaitIInv DEF SocketTimeout
<1>6. CASE RxsockTimeout
  BY <1>1, <1>6, WaitIInv DEF RxsockTimeout
<1>7. QED
  BY <1>2, <1>3, <1>4, <1>5, <1>6 DEF Library

\* A device answers.
LEMMA AnswerIInv ==
  ASSUME IInv, NEW i \in DOMAIN calls, NEW d \in Devices, Answer(i, d)
  PROVE  IInv'
<1>1. /\ calls \in Seq({ScanCall} \cup {AssignCall(x) : x \in Devices}) /\ Id \in Nat /\ Id <= MaxCalls
      /\ pending \in Seq([Devices -> 0..Copies]) /\ Len(pending) = Len(calls)
      /\ socket \in Seq(Datagrams) /\ rxsock \in Seq(Datagrams)
      /\ config \in [Devices -> 0..Id] /\ answered \subseteq Devices /\ i \in 1..Id
  BY DEF IInv, TypeOK, Id
<1>2. /\ UNCHANGED <<calls, at, expired, found, result, quiet>>
      /\ pending' = [pending EXCEPT ![i][d] = @ - 1] /\ pending[i][d] > 0
      /\ Id' = Id /\ Op' = Op /\ Last(calls)' = Last(calls)
  BY DEF Answer, Id, Op, Last
<1>3. /\ pending' \in Seq([Devices -> 0..Copies]) /\ Len(pending') = Len(calls)
      /\ \A j \in DOMAIN calls, x \in Devices : pending'[j][x] > 0 => pending[j][x] > 0
  BY <1>1, <1>2 DEF Copies
<1>4. PICK kind \in {"scan", "ipconfig"}, parses \in BOOLEAN :
        LET m == Datagram(kind, i, d, parses)
        IN  /\ \/ socket' = Append(socket, m) /\ rxsock' = rxsock
               \/ rxsock' = Append(rxsock, m) /\ socket' = socket
               \/ kind = "ipconfig" /\ socket' = socket /\ rxsock' = rxsock
            /\ kind = "scan" => /\ config' = config
                                /\ answered' = IF i = Id /\ parses THEN answered \cup {d} ELSE answered
            /\ kind = "ipconfig" => /\ calls[i].op = "assign" /\ answered' = answered
                                    /\ config' = [config EXCEPT ![d] = i]
  BY DEF Answer, Reply, Lost, buffers
<1> DEFINE m == Datagram(kind, i, d, parses)
<1>5. /\ m \in Datagrams /\ m.kind = kind /\ m.id = i /\ m.from = d /\ m.parses = parses
      /\ Mac(m) = (IF parses THEN d ELSE invalid)
  BY <1>1 DEF Datagram, Datagrams, Mac
<1> HIDE DEF m
<1>6. /\ socket' \in Seq(Datagrams) /\ rxsock' \in Seq(Datagrams)
      /\ Unread \subseteq Unread' /\ Unread' \subseteq Unread \cup {m}
      /\ kind = "scan" => m \in Unread'
  <2>1. CASE socket' = Append(socket, m) /\ rxsock' = rxsock
    <3>1. socket' \in Seq(Datagrams) /\ Range(socket') = Range(socket) \cup {m}
      BY <1>1, <1>5, <2>1, AppendRange
    <3>2. QED
      BY <1>1, <2>1, <3>1 DEF Unread
  <2>2. CASE rxsock' = Append(rxsock, m) /\ socket' = socket
    <3>1. rxsock' \in Seq(Datagrams) /\ Range(rxsock') = Range(rxsock) \cup {m}
      BY <1>1, <1>5, <2>2, AppendRange
    <3>2. QED
      BY <1>1, <2>2, <3>1 DEF Unread
  <2>3. CASE kind = "ipconfig" /\ socket' = socket /\ rxsock' = rxsock
    BY <1>1, <2>3 DEF Unread
  <2>4. QED
    BY <1>4, <2>1, <2>2, <2>3 DEF m
<1>7. TypeOK'
  <2>1. config' \in [Devices -> 0..Id']
    <3>1. config' = config \/ config' = [config EXCEPT ![d] = i]
      BY <1>4
    <3>2. i \in 0..Id /\ Id' = Id
      BY <1>1, <1>2
    <3>3. QED
      BY <1>1, <3>1, <3>2
  <2>2. answered' \subseteq Devices
    BY <1>1, <1>4
  <2>3. QED
    BY <1>2, <1>3, <1>6, <2>1, <2>2 DEF IInv, TypeOK
<1>8. Waiting'
  <2> SUFFICES ASSUME NEW x \in Unread'
               PROVE  /\ x.id <= Id
                      /\ x.kind = "scan" /\ x.id = Id /\ x.parses => x.from \in answered'
    BY <1>2 DEF Waiting
  <2>1. answered \subseteq answered'
    BY <1>4
  <2>2. CASE x \in Unread
    BY <2>1, <2>2 DEF IInv, Waiting
  <2>3. CASE x = m
    BY <1>1, <1>4, <1>5, <2>3
  <2>4. QED
    BY <1>6, <2>2, <2>3
<1>9. OnTheirWay'
  BY <1>2, <1>3 DEF IInv, OnTheirWay
<1>10. Quiet'
  <2> SUFFICES ASSUME quiet PROVE Quiet'
    BY <1>2 DEF Quiet
  <2>1. /\ Op = "assign" /\ QuietAssignConfigures
        /\ \A x \in Unread : x.kind = "ipconfig" => config[Last(calls).target] = Id
        /\ \A j \in DOMAIN calls, x \in Devices :
             calls[j].op = "assign" /\ pending[j][x] > 0 => j = Id
    BY DEF IInv, Quiet
  <2>2. CASE kind = "scan"
    <3>1. config' = config /\ \A x \in Unread' : x.kind = "ipconfig" => x \in Unread
      BY <1>4, <1>5, <1>6, <2>2
    <3>2. QED
      BY <1>2, <1>3, <2>1, <3>1 DEF Quiet, QuietAssignConfigures
  <2>3. CASE kind = "ipconfig"
    <3>1. i = Id /\ calls[i].op = "assign"
      BY <1>2, <1>4, <2>1, <2>3
    <3>2. d = Last(calls).target
      BY <1>2, <3>1 DEF IInv, OnTheirWay, Addressed, Last, Id
    <3>3. config'[Last(calls).target] = Id
      BY <1>1, <1>4, <2>3, <3>1, <3>2
    <3>4. QED
      BY <1>2, <1>3, <2>1, <3>3 DEF Quiet, QuietAssignConfigures
  <2>4. QED
    BY <2>2, <2>3
<1>11. Listed'
  <2>1. ListedOnce' /\ ListedAnswered'
    BY <1>2, <1>4 DEF IInv, Listed, ListedOnce, ListedAnswered
  <2>2. ASSUME Op = "scan", NEW x \in answered'
        PROVE  x \in Range(found) \/ \E y \in Unread' : y.kind = "scan" /\ y.id = Id /\ Mac(y) = x
    <3>1. CASE x \in answered
      BY <1>6, <2>2, <3>1 DEF IInv, Listed, NothingOverlooked
    <3>2. CASE x \notin answered
      <4>1. kind = "scan" /\ i = Id /\ parses /\ x = d
        BY <1>4, <2>2, <3>2
      <4>2. m \in Unread' /\ m.kind = "scan" /\ m.id = Id /\ Mac(m) = x
        BY <1>5, <1>6, <4>1
      <4>3. QED
        BY <4>2
    <3>3. QED
      BY <3>1, <3>2
  <2>3. NothingOverlooked'
    BY <1>2, <2>2 DEF NothingOverlooked, Mac
  <2>4. QED
    BY <2>1, <2>3 DEF Listed
<1>12. QED
  BY <1>7, <1>8, <1>9, <1>10, <1>11 DEF IInv

LEMMA NextIInv == IInv /\ [Next]_vars => IInv'
<1> SUFFICES ASSUME IInv, [Next]_vars PROVE IInv'
  OBVIOUS
<1>1. CASE Scan
  BY <1>1, BeginIInv DEF Scan
<1>2. ASSUME NEW d \in Devices, Assign(d) PROVE IInv'
  <2>1. AssignCall(d).op = "assign" /\ NoAssignUnderWay \in BOOLEAN
    BY DEF AssignCall, NoAssignUnderWay
  <2>2. QED
    BY <1>2, <2>1, BeginIInv DEF Assign
<1>3. CASE Library
  BY <1>3, LibraryIInv
<1>4. CASE Expire
  BY <1>4, WaitIInv DEF Expire, IInv, TypeOK
<1>5. ASSUME NEW i \in DOMAIN calls, NEW d \in Devices, Answer(i, d) PROVE IInv'
  BY <1>5, AnswerIInv
<1>6. CASE Done \/ UNCHANGED vars
  BY <1>6, StutterIInv DEF Done
<1>7. QED
  BY <1>1, <1>2, <1>3, <1>4, <1>5, <1>6 DEF Next

THEOREM Invariant == Spec => []IInv
  BY InitIInv, NextIInv, PTL DEF Spec

-----------------------------------------------------------------------------
\* Every variable keeps to its values: what scan returns are devices.
THEOREM TypeCorrect == Spec => []TypeOK
  BY Invariant, PTL DEF IInv

\* scan returns no device twice, whatever copies and repetitions arrive.
THEOREM ListsOnce == Spec => []ListedOnce
  BY Invariant, PTL DEF IInv, Listed

\* scan lists only devices that answered it.
THEOREM ListsTheAnswers == Spec => []ListedAnswered
  BY Invariant, PTL DEF IInv, Listed

\* It lists all that answered but those whose answer still waits in a socket.
THEOREM OverlooksNone == Spec => []NothingOverlooked
  BY Invariant, PTL DEF IInv, Listed

\* assign can be believed when nothing of an earlier one was under way.
THEOREM QuietAssign == Spec => []QuietAssignConfigures
<1>1. IInv => QuietAssignConfigures
  BY DEF IInv, Quiet, QuietAssignConfigures
<1>2. QED
  BY <1>1, Invariant, PTL
=============================================================================
