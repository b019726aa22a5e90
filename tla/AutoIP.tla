------------------------------- MODULE AutoIP -------------------------------
(***************************************************************************)
(* VisionaryAutoIP over its NetLink: scan lists the devices of a network,  *)
(* assign gives one of them an IP configuration.  Both broadcast a request *)
(* and read answers until a deadline.  The two sockets of the NetLink live *)
(* as long as the object, so an answer to one call can wait there for the  *)
(* next.                                                                   *)
(*                                                                         *)
(* The telegram id of a call, a random number in the code, is the number   *)
(* of the call: that two of them coincide is left out.  A request may      *)
(* reach a device late or never, an answer may be lost.                    *)
(***************************************************************************)
EXTENDS Naturals, Sequences, SequencesExt

CONSTANTS
  Devices,   \* a device stands for its MAC address
  invalid,   \* the MAC address of an answer that does not parse
  MaxCalls,  \* bound: calls of scan and assign
  MaxQueue   \* bound: datagrams in the receive buffer of a socket

ASSUME InvalidAssumption == invalid \notin Devices
ASSUME BoundsAssumption == MaxCalls \in Nat /\ MaxQueue \in Nat

VARIABLES
  calls,     \* the calls made so far, the last one may be under way
  at,        \* where it is: "idle", "check", "socket", "rxsock"
  expired,   \* AUTOIP_TIMEOUT has passed since it began to wait
  found,     \* deviceList
  result,    \* what assign has returned, "none" before
  socket, rxsock,  \* the receive buffers of the two sockets
  pending,   \* per call and device, the copies of the request on their way
  config,    \* per device, the call that configured it last, 0 for none
  answered,  \* history: the devices of which an answer to this scan has arrived
  quiet      \* history: nothing of an earlier assign was on its way when this
             \* one began

network == <<pending, config>>
buffers == <<socket, rxsock>>
vars    == <<calls, at, expired, found, result, buffers, network, answered, quiet>>

\* A call: what it does and the device it is for.
ScanCall       == [op |-> "scan", target |-> invalid]
AssignCall(d)  == [op |-> "assign", target |-> d]
Id             == Len(calls)
Op             == IF calls = <<>> THEN "none" ELSE Last(calls).op

\* What the sockets receive: the request itself, broadcast to everyone, and
\* answers to scan and assign, by which device and whether it can be parsed.
Datagram(kind, id, d, parses) == [kind |-> kind, id |-> id, from |-> d, parses |-> parses]
Datagrams ==
  [kind: {"request", "scan", "ipconfig"}, id: 1..MaxCalls, from: Devices \cup {invalid}, parses: BOOLEAN]

\* The devices that a request is for: a device ignores another MAC address.
Addressed(call) == IF call.op = "scan" THEN Devices ELSE {call.target}

\* NetLink::write sends to the broadcast address and to that of the subnet.
Copies == 2

Receive(buffer, m) == IF Len(buffer) < MaxQueue THEN Append(buffer, m) ELSE buffer

-----------------------------------------------------------------------------
Init ==
  /\ calls = <<>> /\ at = "idle" /\ expired = FALSE
  /\ found = <<>> /\ result = "none"
  /\ socket = <<>> /\ rxsock = <<>>
  /\ pending = <<>>
  /\ config = [d \in Devices |-> 0]
  /\ answered = {} /\ quiet = FALSE

\* The request goes out; the socket bound to the broadcast address hears it too.
Write(call) ==
  /\ calls' = Append(calls, call)
  /\ pending' = Append(pending, [d \in Devices |-> IF d \in Addressed(call) THEN Copies ELSE 0])
  /\ rxsock' = Receive(rxsock, Datagram("request", Id + 1, invalid, TRUE))
  /\ UNCHANGED <<socket, config>>

Begin(call) ==
  /\ at = "idle" /\ Id < MaxCalls
  /\ Write(call)
  /\ at' = "check" /\ expired' = FALSE
  /\ found' = <<>> /\ result' = "none" /\ answered' = {}

Scan == Begin(ScanCall) /\ quiet' = FALSE

\* No request of an earlier assign is on its way and no answer to one unread.
NoAssignUnderWay ==
  /\ \A i \in DOMAIN calls, d \in Devices : calls[i].op = "assign" => pending[i][d] = 0
  /\ \A m \in Range(socket) \cup Range(rxsock) : m.kind # "ipconfig"

Assign(d) == Begin(AssignCall(d)) /\ quiet' = NoAssignUnderWay

\* The head of the loop of both calls.
CheckTime ==
  /\ at = "check"
  /\ at' = IF expired THEN "idle" ELSE "socket"
  /\ result' = IF expired /\ Op = "assign" THEN "false" ELSE result
  /\ UNCHANGED <<calls, expired, found, buffers, network, answered, quiet>>

\* parseAutoIPXml, parseAutoIPBinary: the MAC address of an answer.
Mac(m) == IF m.parses THEN m.from ELSE invalid

\* Fault: an answer to any scan.
HandleScanAnyId(m) ==
  /\ found' = IF m.kind = "scan" /\ Mac(m) # invalid /\ ~Contains(found, Mac(m))
              THEN Append(found, Mac(m)) ELSE found
  /\ at' = "check"
  /\ UNCHANGED result

\* scan takes the answers to its own request, each device once.
HandleScan(m) ==
  /\ found' = IF m.kind = "scan" /\ m.id = Id /\ Mac(m) # invalid /\ ~Contains(found, Mac(m))
              THEN Append(found, Mac(m)) ELSE found
  /\ at' = "check"
  /\ UNCHANGED result

\* Fault: any answer will do.
HandleAssignAny(m) ==
  /\ IF m.kind # "request" THEN at' = "idle" /\ result' = "true"
                           ELSE at' = "check" /\ UNCHANGED result
  /\ UNCHANGED found

\* assign takes the first confirmation that it reads, whoever sent it.
HandleAssign(m) ==
  /\ IF m.kind = "ipconfig" THEN at' = "idle" /\ result' = "true"
                            ELSE at' = "check" /\ UNCHANGED result
  /\ UNCHANGED found

Handle(m) == IF Op = "scan" THEN HandleScan(m) ELSE HandleAssign(m)

\* NetLink::read tries the first socket and, when nothing comes, the second.
ReadSocket ==
  /\ at = "socket" /\ socket # <<>>
  /\ socket' = Tail(socket)
  /\ Handle(Head(socket))
  /\ UNCHANGED <<calls, expired, rxsock, network, answered, quiet>>

SocketTimeout ==
  /\ at = "socket" /\ socket = <<>>
  /\ at' = "rxsock"
  /\ UNCHANGED <<calls, expired, found, result, buffers, network, answered, quiet>>

\* Fault: the length of the second socket's datagram is not returned.
ReadRxsockNoLength ==
  /\ at = "rxsock" /\ rxsock # <<>>
  /\ rxsock' = Tail(rxsock)
  /\ at' = "check"
  /\ UNCHANGED <<calls, expired, found, result, socket, network, answered, quiet>>

ReadRxsock ==
  /\ at = "rxsock" /\ rxsock # <<>>
  /\ rxsock' = Tail(rxsock)
  /\ Handle(Head(rxsock))
  /\ UNCHANGED <<calls, expired, socket, network, answered, quiet>>

RxsockTimeout ==
  /\ at = "rxsock" /\ rxsock = <<>>
  /\ at' = "check"
  /\ UNCHANGED <<calls, expired, found, result, buffers, network, answered, quiet>>

Expire ==
  /\ at # "idle" /\ ~expired
  /\ expired' = TRUE
  /\ UNCHANGED <<calls, at, found, result, buffers, network, answered, quiet>>

-----------------------------------------------------------------------------
(* The devices and the network.                                            *)

\* An answer goes to the sender's address or is broadcast.
Reply(m) ==
  \/ Len(socket) < MaxQueue /\ socket' = Append(socket, m) /\ UNCHANGED rxsock
  \/ Len(rxsock) < MaxQueue /\ rxsock' = Append(rxsock, m) /\ UNCHANGED socket

Lost == UNCHANGED buffers

\* A device answers every copy of a request that it gets.  That the answer to a
\* scan is lost is no different from that the request is.
Answer(i, d) ==
  /\ pending[i][d] > 0
  /\ pending' = [pending EXCEPT ![i][d] = @ - 1]
  /\ \/ /\ calls[i].op = "scan"
        /\ \E parses \in BOOLEAN :
             LET m == Datagram("scan", i, d, parses)
             IN  /\ Reply(m)
                 /\ answered' = IF i = Id /\ parses THEN answered \cup {d} ELSE answered
        /\ UNCHANGED config
     \/ /\ calls[i].op = "assign"
        /\ config' = [config EXCEPT ![d] = i]
        /\ Reply(Datagram("ipconfig", i, d, TRUE)) \/ Lost
        /\ UNCHANGED answered
  /\ UNCHANGED <<calls, at, expired, found, result, quiet>>

\* Every call has returned and nothing is left to happen.
Done == at = "idle" /\ Id = MaxCalls /\ UNCHANGED vars

-----------------------------------------------------------------------------
Library == CheckTime \/ ReadSocket \/ SocketTimeout \/ ReadRxsock \/ RxsockTimeout

Next ==
  \/ Scan
  \/ \E d \in Devices : Assign(d)
  \/ Library
  \/ Expire
  \/ \E i \in DOMAIN calls, d \in Devices : Answer(i, d)
  \/ Done

Spec == Init /\ [][Next]_vars

-----------------------------------------------------------------------------
(* Properties.                                                             *)

TypeOK ==
  /\ calls \in Seq({ScanCall} \cup {AssignCall(d) : d \in Devices}) /\ Id <= MaxCalls
  /\ at \in {"idle", "check", "socket", "rxsock"}
  /\ {expired, quiet} \subseteq BOOLEAN
  /\ found \in Seq(Devices)
  /\ result \in {"none", "true", "false"}
  /\ socket \in Seq(Datagrams) /\ rxsock \in Seq(Datagrams)
  /\ pending \in Seq([Devices -> 0..Copies]) /\ Len(pending) = Len(calls)
  /\ config \in [Devices -> 0..Id]
  /\ answered \subseteq Devices

\* Two copies of the request, two sockets and any number of answers list a
\* device once.
ListedOnce == IsInjective(found)

\* A device is listed only for an answer to this scan, not for one to an
\* earlier scan that was late or waited in a socket.
ListedAnswered == Range(found) \subseteq answered

Unread == Range(socket) \cup Range(rxsock)

\* No answer to this scan that has reached a socket is overlooked: its device
\* is listed or the answer is still unread.
NothingOverlooked ==
  Op = "scan" =>
    \A d \in answered :
      d \in Range(found) \/ \E m \in Unread : m.kind = "scan" /\ m.id = Id /\ Mac(m) = d

\* When nothing of an earlier assign was under way, a confirmed assign has
\* configured its device, although confirmations are taken from anyone.
QuietAssignConfigures ==
  quiet /\ result = "true" => config[Last(calls).target] = Id
=============================================================================
