---------------------------- MODULE ColaSession ----------------------------
(***************************************************************************)
(* A protocol handler (CoLa2ProtocolHandler or CoLaBProtocolHandler) on    *)
(* one TCP connection to a device.  A call sends one request and waits for *)
(* one packet; when the receive times out it returns an error, and the     *)
(* reply that comes later is what the next call reads.  CoLa2 tells        *)
(* replies apart by request and session id, CoLaB carries neither.         *)
(*                                                                         *)
(* Requests are numbered in the order they are made; the numbers are       *)
(* history, only req and ses are in the packets.                           *)
(***************************************************************************)
EXTENDS Integers, Sequences, SequencesExt

CONSTANTS
  Protocols,   \* the protocols considered, of "CoLa2" and "CoLaB"
  ReqIds,      \* number of values of m_reqID, 2^16 in the code
  SessionIds,  \* the session ids a device hands out
  MaxRequests  \* bound: requests on one connection

ASSUME ProtocolsAssumption == Protocols \subseteq {"CoLa2", "CoLaB"}
ASSUME ReqIdsAssumption == ReqIds \in Nat \ {0, 1}
ASSUME SessionIdsAssumption == SessionIds \subseteq Nat \ {0}
ASSUME MaxRequestsAssumption == MaxRequests \in Nat

VARIABLES
  protocol,   \* which of the two handlers this is
  call,       \* "new", "opening", "idle", "waiting", "closing", "closed", "hung"
  reqID,      \* m_reqID
  sessionID,  \* m_sessionID, 0 before openSession
  issued,     \* number of requests made
  answers,    \* per request: n if its call returned the reply to request n, -n if
              \* that was an error of the device, 0 for NETWORK_ERROR
  requests,   \* on the way to the device
  replies,    \* on the way back
  session,    \* the device's session on this connection, 0 for none
  executed    \* the requests the device has executed, in this order

client == <<protocol, call, reqID, sessionID, issued, answers>>
device == <<session, executed>>
vars   == <<client, requests, replies, device>>

\* The call that is under way holds the thread.
Busy == call \in {"opening", "waiting", "closing", "hung"}

\* The state after a call that began in this one.  openSession that fails ends
\* the connection: VisionaryControl::open throws the handler away.
Afterwards == [opening |-> "closed", waiting |-> "idle", closing |-> "closed"]

\* No reply that is still to come is ReqIds or more requests old: the id space
\* would have to be used up by calls that time out one after the other.
BacklogBounded ==
  protocol = "CoLa2" =>
    \A r \in Range(requests \o replies) : issued + 1 - r.n < ReqIds

-----------------------------------------------------------------------------
Init ==
  /\ protocol \in Protocols
  /\ call = IF protocol = "CoLa2" THEN "new" ELSE "idle"
  /\ reqID = 0
  /\ sessionID = 0
  /\ issued = 0
  /\ answers = <<>>
  /\ requests = <<>>
  /\ replies = <<>>
  /\ session = 0
  /\ executed = <<>>

\* Fault: the request id is counted in a wider type than it is sent in.
TransmitWideId(what, begun) ==
  /\ issued < MaxRequests /\ BacklogBounded
  /\ issued' = issued + 1
  /\ reqID' = IF protocol = "CoLa2" THEN reqID + 1 ELSE reqID
  /\ requests' = Append(requests, [n |-> issued', what |-> what,
                                   req |-> reqID' % ReqIds, ses |-> sessionID])
  /\ call' = begun
  /\ UNCHANGED <<protocol, answers, sessionID, replies, device>>

\* Fault: the request id is not counted up.
TransmitSameId(what, begun) ==
  /\ issued < MaxRequests /\ BacklogBounded
  /\ issued' = issued + 1
  /\ UNCHANGED reqID
  /\ requests' = Append(requests, [n |-> issued', what |-> what,
                                   req |-> reqID', ses |-> sessionID])
  /\ call' = begun
  /\ UNCHANGED <<protocol, answers, sessionID, replies, device>>

\* The packet is built, with the next request id, and sent.
Transmit(what, begun) ==
  /\ issued < MaxRequests /\ BacklogBounded
  /\ issued' = issued + 1
  /\ reqID' = IF protocol = "CoLa2" THEN (reqID + 1) % ReqIds ELSE reqID
  /\ requests' = Append(requests, [n |-> issued', what |-> what,
                                   req |-> reqID', ses |-> sessionID])
  /\ call' = begun
  /\ UNCHANGED <<protocol, answers, sessionID, replies, device>>

\* send() took less than the packet: nothing is waited for, the id is used up.
TransmitFails(begun) ==
  /\ issued < MaxRequests /\ BacklogBounded
  /\ issued' = issued + 1
  /\ reqID' = IF protocol = "CoLa2" THEN (reqID + 1) % ReqIds ELSE reqID
  /\ answers' = Append(answers, 0)
  /\ call' = Afterwards[begun]
  /\ UNCHANGED <<protocol, sessionID, requests, replies, device>>

OpenSession == call = "new" /\ Transmit("open", "opening")
Send        == call = "idle" /\ Transmit("command", "waiting")

\* CoLaB has no sessions: closeSession does nothing, the transport is closed.
CloseSession ==
  /\ call = "idle"
  /\ IF protocol = "CoLa2" THEN Transmit("close", "closing")
     ELSE /\ call' = "closed"
          /\ UNCHANGED <<protocol, reqID, sessionID, issued, answers, requests,
                         replies, device>>

SendFails ==
  \/ call = "new" /\ TransmitFails("opening")
  \/ call = "idle" /\ TransmitFails("waiting")
  \/ call = "idle" /\ protocol = "CoLa2" /\ TransmitFails("closing")

-----------------------------------------------------------------------------
(* The answer.                                                             *)

\* Fault: only the session id is compared.
AcceptedAnyReq(r) ==
  /\ r.kind \in {"ok", "error"}
  /\ protocol = "CoLa2" => r.ses = sessionID

\* send() takes the packet for its answer.
Accepted(r) ==
  /\ r.kind \in {"ok", "error"}
  /\ protocol = "CoLa2" => r.ses = sessionID /\ r.req = reqID

\* readResponse sets neither id when the packet is too short: openSession has
\* initialised both to 0.
HeaderReq(r) == IF r.kind = "empty" THEN 0 ELSE r.req
HeaderSes(r) == IF r.kind = "empty" THEN 0 ELSE r.ses

\* openSession looks at the request id and takes over the session id.
ReceiveOpened ==
  /\ call = "opening" /\ replies # <<>>
  /\ LET r == Head(replies)
     IN  IF HeaderReq(r) = reqID
           THEN call' = "idle" /\ sessionID' = HeaderSes(r)
           ELSE call' = Afterwards[call] /\ UNCHANGED sessionID
  /\ answers' = Append(answers, 0)
  /\ replies' = Tail(replies)
  /\ UNCHANGED <<protocol, reqID, issued, requests, device>>

\* What the call returns when it reads packet r.
Outcome(r) == IF ~Accepted(r) THEN 0 ELSE IF r.kind = "ok" THEN r.n ELSE -r.n

\* Fault: the packet is not taken out of the stream.
ReceiveKeepsPacket ==
  /\ call \in {"waiting", "closing"} /\ replies # <<>> /\ Head(replies).kind # "rest"
  /\ answers' = Append(answers, Outcome(Head(replies)))
  /\ call' = Afterwards[call]
  /\ UNCHANGED <<protocol, reqID, sessionID, issued, requests, replies, device>>

\* The next packet is the answer, or NETWORK_ERROR is returned; it is gone in
\* both cases.
Receive ==
  /\ call \in {"waiting", "closing"} /\ replies # <<>> /\ Head(replies).kind # "rest"
  /\ answers' = Append(answers, Outcome(Head(replies)))
  /\ call' = Afterwards[call]
  /\ replies' = Tail(replies)
  /\ UNCHANGED <<protocol, reqID, sessionID, issued, requests, device>>

\* The receive times out before anything has come, or the peer has closed.
Timeout ==
  /\ call \in {"opening", "waiting", "closing"}
  /\ answers' = Append(answers, 0)
  /\ call' = Afterwards[call]
  /\ UNCHANGED <<protocol, reqID, sessionID, issued, requests, replies, device>>

\* Fault: what is left of a packet is not skipped.
TimeoutInReplyStuck ==
  /\ call \in {"opening", "waiting", "closing"} /\ replies # <<>>
  /\ Head(replies).kind # "rest"
  /\ answers' = Append(answers, 0)
  /\ call' = Afterwards[call]
  /\ replies' = [replies EXCEPT ![1].kind = "rest"]
  /\ UNCHANGED <<protocol, reqID, sessionID, issued, requests, device>>

\* It times out inside a packet.  CoLa2 skips what is left of it when it looks
\* for the next one.
TimeoutInReply ==
  /\ call \in {"opening", "waiting", "closing"} /\ replies # <<>>
  /\ Head(replies).kind # "rest"
  /\ answers' = Append(answers, 0)
  /\ call' = Afterwards[call]
  /\ replies' = IF protocol = "CoLa2" THEN Tail(replies)
                ELSE [replies EXCEPT ![1].kind = "rest"]
  /\ UNCHANGED <<protocol, reqID, sessionID, issued, requests, device>>

\* CoLaB does not get past it.
ReceiveRest ==
  /\ call \in {"waiting", "closing"} /\ replies # <<>> /\ Head(replies).kind = "rest"
  /\ call' = "hung"
  /\ UNCHANGED <<protocol, reqID, sessionID, issued, answers, requests, replies, device>>

-----------------------------------------------------------------------------
(* The device.                                                             *)

Reply(r, kind, ses) ==
  /\ requests' = Tail(requests)
  /\ replies' = Append(replies, [n |-> r.n, kind |-> kind, req |-> r.req, ses |-> ses])
  /\ UNCHANGED client

Execute(r) == executed' = Append(executed, r.n)

\* openSession: a session, or SESSION_NO_RESOURCES.
ServeOpen ==
  /\ requests # <<>> /\ Head(requests).what = "open"
  /\ LET r == Head(requests)
     IN  \/ \E s \in SessionIds :
              session' = s /\ Execute(r) /\ Reply(r, "ok", s)
         \/ UNCHANGED device /\ Reply(r, "error", r.ses)
         \/ UNCHANGED device /\ Reply(r, "empty", 0)

\* A command without a valid session is answered with SESSION_UNKNOWN_ID.
ServeCommand ==
  /\ requests # <<>> /\ Head(requests).what = "command"
  /\ LET r     == Head(requests)
         valid == protocol = "CoLa2" => session # 0 /\ r.ses = session
     IN  \/ /\ valid /\ Execute(r)
            /\ \E kind \in {"ok", "error", "empty"} : Reply(r, kind, r.ses)
         \/ /\ ~valid /\ UNCHANGED executed
            /\ \E ses \in {0, r.ses} : Reply(r, "error", ses)
  /\ UNCHANGED session

ServeClose ==
  /\ requests # <<>> /\ Head(requests).what = "close"
  /\ session' = 0
  /\ LET r == Head(requests)
     IN  IF session # 0 /\ r.ses = session
           THEN Execute(r) /\ Reply(r, "ok", r.ses)
           ELSE UNCHANGED executed /\ Reply(r, "error", r.ses)

\* No command came for the session's timeout.
SessionExpires ==
  /\ session # 0 /\ session' = 0
  /\ UNCHANGED <<client, requests, replies, executed>>

\* The connection is closed, the bound is reached, or CoLaB's search spins.
Finished ==
  /\ \/ call \in {"closed", "hung"}
     \/ call = "idle" /\ (issued = MaxRequests \/ ~BacklogBounded)
  /\ UNCHANGED vars

-----------------------------------------------------------------------------
Begin  == OpenSession \/ Send \/ CloseSession \/ SendFails
Answer == ReceiveOpened \/ Receive \/ Timeout \/ TimeoutInReply \/ ReceiveRest
Device == ServeOpen \/ ServeCommand \/ ServeClose \/ SessionExpires

Next == Begin \/ Answer \/ Device \/ Finished

Spec     == Init /\ [][Next]_vars
FairSpec == Spec /\ WF_vars(Answer)

-----------------------------------------------------------------------------
(* Properties.                                                             *)

Request == [n : 1..MaxRequests, what : {"open", "command", "close"},
            req : 0..(ReqIds - 1), ses : SessionIds \cup {0}]
ReplyPacket == [n : 1..MaxRequests, kind : {"ok", "error", "empty", "rest"},
                req : 0..(ReqIds - 1), ses : SessionIds \cup {0}]

TypeOK ==
  /\ protocol \in Protocols
  /\ call \in {"new", "opening", "idle", "waiting", "closing", "closed", "hung"}
  /\ reqID \in 0..(ReqIds - 1)
  /\ sessionID \in SessionIds \cup {0}
  /\ issued \in 0..MaxRequests
  /\ answers \in Seq((-MaxRequests)..MaxRequests)
  /\ Len(answers) = IF Busy THEN issued - 1 ELSE issued
  /\ requests \in Seq(Request)
  /\ replies \in Seq(ReplyPacket)
  /\ session \in SessionIds \cup {0}
  /\ executed \in Seq(1..MaxRequests)

\* A command gets its own reply or an error, never the reply to another one,
\* although replies to calls that have timed out are still to come.
OwnReplies   == \A n \in 1..Len(answers) : answers[n] \in {0, n, -n}
ReplyBelongs == protocol = "CoLa2" => OwnReplies

AnsweredBy(n) == IF answers[n] < 0 THEN -answers[n] ELSE answers[n]

\* No reply serves two commands, and a later command never gets an older reply
\* than an earlier one.
RepliesInOrder ==
  \A m, n \in 1..Len(answers) :
    m < n /\ answers[m] # 0 /\ answers[n] # 0 => AnsweredBy(m) < AnsweredBy(n)

\* Every CoLa2 call returns, whatever the device does and however long it takes.
CallReturns == protocol = "CoLa2" /\ Busy ~> ~Busy

\* A CoLaB response is not known to be the command's own: it counts as none.
Answered(n) == IF protocol = "CoLa2" /\ answers[n] > 0 THEN answers[n] ELSE 0

RPC == INSTANCE RemoteCall
         WITH busy <- Busy, answers <- [n \in 1..Len(answers) |-> Answered(n)]

\* The handler implements the remote call: a command is executed at most once,
\* in order, and a CoLa2 call that returned OK was executed and got its own
\* answer.
RemoteCallSpec == RPC!Spec
=============================================================================
