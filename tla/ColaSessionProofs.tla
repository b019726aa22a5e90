------------------------- MODULE ColaSessionProofs -------------------------
(***************************************************************************)
(* Theorems about ColaSession for any number of requests, request ids and  *)
(* sessions: replies are matched with their requests although ids are used *)
(* again, and the handler implements the remote call.                      *)
(***************************************************************************)
EXTENDS ColaSession, SequenceTheorems, TLAPS

USE ProtocolsAssumption, ReqIdsAssumption, SessionIdsAssumption, MaxRequestsAssumption

\* What is on the way is numbered in its order, behind nothing that was issued later.
InOrder ==
  /\ \A i, j \in 1..Len(replies) : i < j => replies[i].n < replies[j].n
  /\ \A i, j \in 1..Len(requests) : i < j => requests[i].n < requests[j].n
  /\ \A i \in 1..Len(replies), j \in 1..Len(requests) : replies[i].n < requests[j].n
  /\ \A i \in 1..Len(replies) : replies[i].n <= issued
  /\ \A j \in 1..Len(requests) : requests[j].n <= issued

\* The request id that was in use a requests ago.
IdBefore(a) == IF a <= reqID THEN reqID - a ELSE reqID - a + ReqIds

\* The packet carries the id of its request, which was not used since.
HasItsId(packet) ==
  issued - packet.n < ReqIds /\ packet.req = IdBefore(issued - packet.n)

Ids ==
  protocol = "CoLa2" =>
    /\ \A i \in 1..Len(replies) : HasItsId(replies[i])
    /\ \A j \in 1..Len(requests) : HasItsId(requests[j])

\* What is on the way is newer than what was answered.
AnswersBehind ==
  \A m \in 1..Len(answers) : answers[m] # 0 =>
    /\ AnsweredBy(m) <= issued
    /\ \A i \in 1..Len(replies) : AnsweredBy(m) < replies[i].n
    /\ \A j \in 1..Len(requests) : AnsweredBy(m) < requests[j].n

\* The device executes what it is asked for once, and says "ok" of nothing else.
Executions ==
  /\ \A k \in 1..Len(executed) :
       executed[k] <= issued /\ \A j \in 1..Len(requests) : executed[k] < requests[j].n
  /\ \A i \in 1..Len(replies) :
       replies[i].kind = "ok" => \E k \in 1..Len(executed) : executed[k] = replies[i].n

IInv == TypeOK /\ InOrder /\ Ids /\ AnswersBehind /\ Executions /\ ReplyBelongs /\ RepliesInOrder

-----------------------------------------------------------------------------
LEMMA Appended ==
  ASSUME NEW S, NEW s \in Seq(S), NEW x \in S
  PROVE  /\ Append(s, x) \in Seq(S) /\ Len(Append(s, x)) = Len(s) + 1 /\ Len(s) \in Nat
         /\ \A i \in 1..Len(s) : Append(s, x)[i] = s[i]
         /\ Append(s, x)[Len(s) + 1] = x
  OBVIOUS

LEMMA TailOf ==
  ASSUME NEW S, NEW s \in Seq(S), s # <<>>
  PROVE  /\ Tail(s) \in Seq(S) /\ Len(Tail(s)) = Len(s) - 1 /\ Len(s) \in Nat \ {0}
         /\ \A i \in 1..(Len(s) - 1) : Tail(s)[i] = s[i + 1]
         /\ Head(s) = s[1] /\ s[1] \in S
  BY HeadTailProperties, LenProperties, EmptySeq

LEMMA SessionOf ==
  /\ \A packet \in Request : packet.ses \in SessionIds \cup {0}
  /\ \A packet \in ReplyPacket : packet.ses \in SessionIds \cup {0}
  BY DEF Request, ReplyPacket

LEMMA InitIInv == Init => IInv
<1> SUFFICES ASSUME Init PROVE IInv
  OBVIOUS
<1>1. TypeOK
  BY DEF Init, TypeOK, Busy
<1>2. Len(replies) = 0 /\ Len(requests) = 0 /\ Len(answers) = 0 /\ Len(executed) = 0
  BY DEF Init
<1>3. QED
  BY <1>1, <1>2 DEF IInv, InOrder, Ids, AnswersBehind, Executions, ReplyBelongs, OwnReplies,
     RepliesInOrder

\* Nothing that is on the way is as old as there are ids, also after the next request.
LEMMA Backlog ==
  ASSUME IInv, BacklogBounded, protocol = "CoLa2"
  PROVE  /\ \A i \in 1..Len(replies) : issued + 1 - replies[i].n < ReqIds
         /\ \A j \in 1..Len(requests) : issued + 1 - requests[j].n < ReqIds
<1> DEFINE both == requests \o replies
<1>1. /\ Len(both) = Len(requests) + Len(replies) /\ DOMAIN both = 1..Len(both)
      /\ \A i \in 1..Len(both) :
           both[i] = IF i <= Len(requests) THEN requests[i] ELSE replies[i - Len(requests)]
      /\ Len(replies) \in Nat /\ Len(requests) \in Nat
  <2>1. replies \in Seq(Request \cup ReplyPacket) /\ requests \in Seq(Request \cup ReplyPacket)
    BY DEF IInv, TypeOK
  <2>2. QED
    BY <2>1, ConcatProperties, LenProperties
<1>2. \A packet \in Range(both) : issued + 1 - packet.n < ReqIds
  BY DEF BacklogBounded
<1> HIDE DEF both
<1>5. \A i \in 1..Len(both) : both[i] \in Range(both)
  BY <1>1 DEF Range
<1>3. ASSUME NEW i \in 1..Len(replies) PROVE issued + 1 - replies[i].n < ReqIds
  <2>1. Len(requests) + i \in 1..Len(both) /\ both[Len(requests) + i] = replies[i]
    BY <1>1
  <2>2. QED
    BY <1>2, <1>5, <2>1
<1>4. ASSUME NEW j \in 1..Len(requests) PROVE issued + 1 - requests[j].n < ReqIds
  <2>1. j \in 1..Len(both) /\ both[j] = requests[j]
    BY <1>1
  <2>2. QED
    BY <1>2, <1>5, <2>1
<1>6. QED
  BY <1>3, <1>4

\* Counting up, the id starts anew when all are used.
LEMMA NextId ==
  ASSUME NEW id \in 0..(ReqIds - 1)
  PROVE  (id + 1) % ReqIds = IF id + 1 = ReqIds THEN 0 ELSE id + 1
<1>1. \A d \in Nat, k \in Nat : d < k => d % k = d
  OBVIOUS
<1>2. \A k \in Nat \ {0} : k % k = 0
  OBVIOUS
<1>3. QED
  BY <1>1, <1>2

\* Packets on the way keep their ids when the next request is made.
LEMMA KeepsId ==
  ASSUME reqID \in 0..(ReqIds - 1), issued \in Nat, NEW packet, packet.n \in Nat,
         packet.n <= issued, HasItsId(packet), issued + 1 - packet.n < ReqIds,
         issued' = issued + 1, reqID' = (reqID + 1) % ReqIds
  PROVE  HasItsId(packet)'
<1> DEFINE a == issued - packet.n
<1>1. a \in Nat /\ a + 1 < ReqIds /\ packet.req = IdBefore(a) /\ issued' - packet.n = a + 1
  BY DEF HasItsId
<1>2. reqID' = IF reqID + 1 = ReqIds THEN 0 ELSE reqID + 1
  BY NextId
<1> HIDE DEF a
<1>3. IdBefore(a) = IF a + 1 <= reqID' THEN reqID' - (a + 1) ELSE reqID' - (a + 1) + ReqIds
  BY <1>1, <1>2 DEF IdBefore
<1>4. QED
  BY <1>1, <1>3 DEF HasItsId, IdBefore

\* The numbers in packets and in what was executed.
LEMMA Numbers ==
  ASSUME IInv
  PROVE  /\ \A i \in 1..Len(replies) : replies[i].n \in Nat /\ replies[i].n <= issued
         /\ \A j \in 1..Len(requests) : requests[j].n \in Nat /\ requests[j].n <= issued
         /\ \A k \in 1..Len(executed) : executed[k] \in Nat /\ executed[k] <= issued
         /\ Len(replies) \in Nat /\ Len(requests) \in Nat /\ Len(executed) \in Nat
<1>1. /\ replies \in Seq(ReplyPacket) /\ requests \in Seq(Request)
      /\ executed \in Seq(1..MaxRequests)
  BY DEF IInv, TypeOK
<1>2. ASSUME NEW i \in 1..Len(replies) PROVE replies[i].n \in Nat /\ replies[i].n <= issued
  <2>1. replies[i] \in ReplyPacket
    BY <1>1
  <2>2. QED
    BY <2>1 DEF IInv, InOrder, ReplyPacket
<1>3. ASSUME NEW j \in 1..Len(requests) PROVE requests[j].n \in Nat /\ requests[j].n <= issued
  <2>1. requests[j] \in Request
    BY <1>1
  <2>2. QED
    BY <2>1 DEF IInv, InOrder, Request
<1>4. ASSUME NEW k \in 1..Len(executed) PROVE executed[k] \in Nat /\ executed[k] <= issued
  <2>1. executed[k] \in 1..MaxRequests
    BY <1>1, ElementOfSeq
  <2>2. QED
    BY <2>1 DEF IInv, Executions
<1>5. QED
  BY <1>1, <1>2, <1>3, <1>4, LenProperties

\* A request is made, or could not be sent.
LEMMA BeginIInv ==
  ASSUME IInv, ~Busy, BacklogBounded, issued < MaxRequests, issued' = issued + 1,
         reqID' = IF protocol = "CoLa2" THEN (reqID + 1) % ReqIds ELSE reqID,
         UNCHANGED <<protocol, sessionID, replies, session, executed>>,
         NEW what \in {"open", "command", "close"},
         \/ /\ call' \in {"opening", "waiting", "closing"} /\ answers' = answers
            /\ requests' = Append(requests, [n |-> issued', what |-> what,
                                             req |-> reqID', ses |-> sessionID])
         \/ /\ call' \in {"idle", "closed"} /\ answers' = Append(answers, 0)
            /\ requests' = requests
  PROVE  IInv'
<1> DEFINE new == [n |-> issued', what |-> what, req |-> reqID', ses |-> sessionID]
<1>1. /\ reqID \in 0..(ReqIds - 1) /\ issued \in Nat /\ replies \in Seq(ReplyPacket)
      /\ requests \in Seq(Request) /\ sessionID \in SessionIds \cup {0}
      /\ answers \in Seq((-MaxRequests)..MaxRequests) /\ Len(answers) = issued
  BY DEF IInv, TypeOK
<1>2. /\ reqID' \in 0..(ReqIds - 1) /\ issued' \in 1..MaxRequests
      /\ protocol = "CoLa2" => reqID' = (reqID + 1) % ReqIds
  BY <1>1, NextId
<1>3. new \in Request /\ new.n = issued' /\ new.req = reqID'
  BY <1>1, <1>2 DEF Request
<1>4. issued' = issued + 1 /\ issued \in Nat
  BY <1>1
<1>5. /\ requests' \in Seq(Request) /\ Len(requests) \in Nat
      /\ \A j \in 1..Len(requests') :
           \/ j \in 1..Len(requests) /\ requests'[j] = requests[j]
           \/ j = Len(requests) + 1 /\ requests'[j] = new
  <2>1. CASE requests' = Append(requests, new)
    BY <1>1, <1>3, <2>1, Appended
  <2>2. CASE requests' = requests
    BY <1>1, <2>2, LenProperties
  <2>3. QED
    BY <2>1, <2>2
<1>6. /\ answers' \in Seq((-MaxRequests)..MaxRequests) /\ Len(answers') \in Nat
      /\ Len(answers') = (IF call' \in {"opening", "waiting", "closing", "hung"}
                          THEN issued' - 1 ELSE issued')
      /\ \A m \in 1..Len(answers') :
           answers'[m] # 0 => m \in 1..Len(answers) /\ answers'[m] = answers[m]
  <2>1. CASE answers' = answers /\ call' \in {"opening", "waiting", "closing"}
    BY <1>1, <2>1
  <2>2. CASE answers' = Append(answers, 0) /\ call' \in {"idle", "closed"}
    <3>1. 0 \in (-MaxRequests)..MaxRequests
      OBVIOUS
    <3>2. QED
      BY <1>1, <2>2, <3>1, Appended
  <2>3. QED
    BY <2>1, <2>2
<1> HIDE DEF new
<1>7. TypeOK'
  BY <1>1, <1>2, <1>5, <1>6 DEF IInv, TypeOK, Busy
<1>8. InOrder'
  <2>1. ASSUME NEW i \in 1..Len(requests'), NEW j \in 1..Len(requests'), i < j
        PROVE  requests'[i].n < requests'[j].n
    <3>1. i \in 1..Len(requests) /\ requests'[i] = requests[i]
      BY <1>5, <2>1
    <3>2. CASE j \in 1..Len(requests) /\ requests'[j] = requests[j]
      BY <2>1, <3>1, <3>2 DEF IInv, InOrder
    <3>3. CASE requests'[j] = new
      BY <1>3, <1>4, Numbers, <3>1, <3>3
    <3>4. QED
      BY <1>5, <3>2, <3>3
  <2>2. ASSUME NEW j \in 1..Len(requests')
        PROVE  /\ requests'[j].n <= issued'
               /\ \A i \in 1..Len(replies) : replies[i].n < requests'[j].n
    <3>1. CASE j \in 1..Len(requests) /\ requests'[j] = requests[j]
      BY <1>4, Numbers, <3>1 DEF IInv, InOrder
    <3>2. CASE requests'[j] = new
      BY <1>3, <1>4, Numbers, <3>2
    <3>3. QED
      BY <1>5, <3>1, <3>2
  <2>3. \A i \in 1..Len(replies) : replies[i].n <= issued'
    BY <1>4, Numbers
  <2>4. QED
    BY <2>1, <2>2, <2>3 DEF IInv, InOrder
<1>9. Ids'
  <2> SUFFICES ASSUME protocol = "CoLa2"
               PROVE  /\ \A i \in 1..Len(replies) : HasItsId(replies[i])'
                      /\ \A j \in 1..Len(requests') : HasItsId(requests[j])'
    BY DEF Ids
  <2>1. ASSUME NEW packet, packet.n \in Nat, packet.n <= issued, HasItsId(packet),
               issued + 1 - packet.n < ReqIds
        PROVE  issued' - packet.n < ReqIds /\ packet.req = IdBefore(issued - packet.n)'
    BY <1>1, <1>2, <2>1, KeepsId DEF HasItsId
  <2>2. ASSUME NEW i \in 1..Len(replies)
        PROVE  /\ issued' - replies[i].n < ReqIds
               /\ replies[i].req = IdBefore(issued - replies[i].n)'
    <3>1. HasItsId(replies[i]) /\ issued + 1 - replies[i].n < ReqIds
      BY Backlog DEF IInv, Ids
    <3>2. QED
      BY <1>4, Numbers, <2>1, <3>1
  <2>3. ASSUME NEW j \in 1..Len(requests')
        PROVE  HasItsId(requests[j])'
    <3>1. CASE j \in 1..Len(requests) /\ requests'[j] = requests[j]
      BY <1>4, Numbers, <2>1, <3>1, Backlog DEF IInv, Ids, HasItsId
    <3>2. CASE requests'[j] = new
      <4>1. issued' - requests'[j].n = 0 /\ requests'[j].req = reqID' /\ 0 < ReqIds
        BY <1>3, <1>4, <3>2
      <4>2. IdBefore(0)' = reqID'
        <5>1. reqID' \in Nat
          BY <1>2
        <5>2. QED
          BY <5>1 DEF IdBefore
      <4>3. QED
        BY <4>1, <4>2 DEF HasItsId
    <3>3. QED
      BY <1>5, <3>1, <3>2
  <2>4. QED
    BY <2>2, <2>3 DEF HasItsId
<1>10. AnswersBehind'
  <2> SUFFICES ASSUME NEW m \in 1..Len(answers'), answers'[m] # 0
               PROVE  /\ AnsweredBy(m)' <= issued'
                      /\ \A i \in 1..Len(replies) : AnsweredBy(m)' < replies[i].n
                      /\ \A j \in 1..Len(requests') : AnsweredBy(m)' < requests'[j].n
    BY DEF AnswersBehind
  <2>1. m \in 1..Len(answers) /\ AnsweredBy(m)' = AnsweredBy(m) /\ answers[m] # 0
        /\ AnsweredBy(m) \in Int
    <3>1. m \in 1..Len(answers) /\ answers'[m] = answers[m]
      BY <1>6
    <3>2. answers[m] \in Int
      BY <1>1, <3>1
    <3>3. QED
      BY <3>1, <3>2 DEF AnsweredBy
  <2>2. AnsweredBy(m) <= issued /\ \A i \in 1..Len(replies) : AnsweredBy(m) < replies[i].n
    BY <2>1 DEF IInv, AnswersBehind
  <2>3. ASSUME NEW j \in 1..Len(requests') PROVE AnsweredBy(m) < requests'[j].n
    <3>1. CASE j \in 1..Len(requests) /\ requests'[j] = requests[j]
      BY <2>1, <3>1 DEF IInv, AnswersBehind
    <3>2. CASE requests'[j] = new
      BY <1>3, <1>4, <2>1, <2>2, <3>2
    <3>3. QED
      BY <1>5, <3>1, <3>2
  <2>4. QED
    BY <1>4, <2>1, <2>2, <2>3
<1>11. ReplyBelongs' /\ RepliesInOrder'
  BY <1>6 DEF IInv, ReplyBelongs, OwnReplies, RepliesInOrder, AnsweredBy
<1>12. Executions'
  <2>1. ASSUME NEW k \in 1..Len(executed)
        PROVE  executed[k] <= issued' /\ \A j \in 1..Len(requests') : executed[k] < requests'[j].n
    <3>1. executed[k] \in Nat /\ executed[k] <= issued
      BY Numbers
    <3>2. ASSUME NEW j \in 1..Len(requests') PROVE executed[k] < requests'[j].n
      <4>1. CASE j \in 1..Len(requests) /\ requests'[j] = requests[j]
        BY <4>1 DEF IInv, Executions
      <4>2. CASE requests'[j] = new
        BY <1>3, <1>4, <3>1, <4>2
      <4>3. QED
        BY <1>5, <4>1, <4>2
    <3>3. QED
      BY <1>4, <3>1, <3>2
  <2>2. QED
    BY <2>1 DEF IInv, Executions
<1>13. QED
  BY <1>7, <1>8, <1>9, <1>10, <1>11, <1>12 DEF IInv

\* A packet that a CoLa2 call takes for its answer is the one to its own request.
LEMMA AcceptedIsOwn ==
  ASSUME IInv, protocol = "CoLa2", replies # <<>>, Accepted(Head(replies))
  PROVE  Head(replies).n = issued
<1> DEFINE r == Head(replies)
<1>1. 1 \in 1..Len(replies) /\ r = replies[1]
  BY TailOf DEF IInv, TypeOK
<1>2. r.n \in Nat /\ r.n <= issued /\ issued \in Nat /\ reqID \in 0..(ReqIds - 1)
  BY <1>1, Numbers DEF IInv, TypeOK
<1>3. issued - r.n < ReqIds /\ r.req = IdBefore(issued - r.n)
  BY <1>1 DEF IInv, Ids, HasItsId
<1>4. r.req = reqID
  BY DEF Accepted
<1> HIDE DEF r
<1>5. r.n = issued
  BY <1>2, <1>3, <1>4 DEF IdBefore
<1>6. QED
  BY <1>5 DEF r

\* A call returns v: nothing, or what the packet says that it took out.  What is
\* left of the replies has lost the first one, if any, and says no more than before.
LEMMA ReturnIInv ==
  ASSUME IInv, call \in {"opening", "waiting", "closing"}, call' \in {"idle", "closed"},
         UNCHANGED <<protocol, reqID, issued, requests, session, executed>>,
         sessionID' \in SessionIds \cup {0},
         NEW v, answers' = Append(answers, v),
         NEW lost \in {0, 1}, lost <= Len(replies),
         replies' \in Seq(ReplyPacket), Len(replies') = Len(replies) - lost,
         \A i \in 1..Len(replies') :
           /\ replies'[i].n = replies[i + lost].n /\ replies'[i].req = replies[i + lost].req
           /\ replies'[i].kind = "ok" => replies[i + lost].kind = "ok",
         v = 0 \/ (lost = 1 /\ v = Outcome(Head(replies)))
  PROVE  IInv'
<1>1. /\ replies \in Seq(ReplyPacket) /\ Len(replies) \in Nat /\ issued \in 1..MaxRequests
      /\ answers \in Seq((-MaxRequests)..MaxRequests) /\ Len(answers) = issued - 1
      /\ Len(requests) \in Nat
  <2>1. Len(answers) \in Nat /\ Len(answers) = issued - 1 /\ issued \in 0..MaxRequests
    BY LenProperties DEF IInv, TypeOK, Busy
  <2>2. QED
    BY <2>1, LenProperties DEF IInv, TypeOK
<1>2. \A i \in 1..Len(replies') : i + lost \in 1..Len(replies)
  BY <1>1
\* What the packet taken out has answered.
<1>3. v # 0 => /\ lost = 1 /\ 1 \in 1..Len(replies) /\ v \in {replies[1].n, -replies[1].n}
               /\ protocol = "CoLa2" => replies[1].n = issued
  <2> SUFFICES ASSUME v # 0
               PROVE  /\ lost = 1 /\ 1 \in 1..Len(replies) /\ v \in {replies[1].n, -replies[1].n}
                      /\ protocol = "CoLa2" => replies[1].n = issued
    OBVIOUS
  <2>1. lost = 1 /\ v = Outcome(Head(replies)) /\ 1 \in 1..Len(replies) /\ replies # <<>>
    BY <1>1
  <2>2. Head(replies) = replies[1]
    BY <1>1, <2>1, TailOf
  <2>3. Accepted(Head(replies)) /\ v \in {replies[1].n, -replies[1].n}
    BY <2>1, <2>2 DEF Outcome
  <2>4. QED
    BY <2>1, <2>2, <2>3, AcceptedIsOwn
<1>4. v \in (-MaxRequests)..MaxRequests
  BY <1>1, <1>3, Numbers
<1>5. /\ answers' \in Seq((-MaxRequests)..MaxRequests) /\ Len(answers') = issued
      /\ \A m \in 1..Len(answers) : answers'[m] = answers[m]
      /\ answers'[issued] = v
  BY <1>1, <1>4, Appended
<1>6. TypeOK'
  BY <1>1, <1>5 DEF IInv, TypeOK, Busy
<1>7. InOrder'
  <2>1. ASSUME NEW i \in 1..Len(replies'), NEW j \in 1..Len(replies'), i < j
        PROVE  replies'[i].n < replies'[j].n
    <3>1. i + lost \in 1..Len(replies) /\ j + lost \in 1..Len(replies) /\ i + lost < j + lost
      BY <1>1, <1>2, <2>1
    <3>2. replies[i + lost].n < replies[j + lost].n
      BY <3>1 DEF IInv, InOrder
    <3>3. QED
      BY <3>2
  <2>2. ASSUME NEW i \in 1..Len(replies')
        PROVE  /\ replies'[i].n <= issued
               /\ \A j \in 1..Len(requests) : replies'[i].n < requests[j].n
    BY <1>2 DEF IInv, InOrder
  <2>3. QED
    BY <2>1, <2>2 DEF IInv, InOrder
<1>8. Ids'
  <2> SUFFICES ASSUME protocol = "CoLa2"
               PROVE  /\ \A i \in 1..Len(replies') : HasItsId(replies[i])'
                      /\ \A j \in 1..Len(requests') : HasItsId(requests[j])'
    BY DEF Ids
  <2>1. ASSUME NEW i \in 1..Len(replies') PROVE HasItsId(replies[i])'
    <3>1. HasItsId(replies[i + lost])
      BY <1>2 DEF IInv, Ids
    <3>2. replies'[i].n = replies[i + lost].n /\ replies'[i].req = replies[i + lost].req
      OBVIOUS
    <3>3. QED
      BY <3>1, <3>2 DEF HasItsId, IdBefore
  <2>2. ASSUME NEW j \in 1..Len(requests') PROVE HasItsId(requests[j])'
    BY DEF IInv, Ids, HasItsId, IdBefore
  <2>3. QED
    BY <2>1, <2>2
<1>9. ASSUME NEW m \in 1..Len(answers'), answers'[m] # 0
      PROVE  \/ /\ m < issued /\ m \in 1..Len(answers) /\ answers[m] # 0
                /\ AnsweredBy(m)' = AnsweredBy(m) /\ AnsweredBy(m) \in Int
             \/ m = issued /\ v # 0 /\ AnsweredBy(m)' = replies[1].n
  <2>1. CASE m \in 1..Len(answers)
    <3>1. answers'[m] = answers[m] /\ answers[m] \in Int
      BY <1>1, <1>5, <2>1
    <3>2. m < issued /\ answers[m] # 0
      BY <1>1, <1>9, <2>1, <3>1
    <3>3. AnsweredBy(m)' = AnsweredBy(m) /\ AnsweredBy(m) \in Int
      BY <3>1 DEF AnsweredBy
    <3>4. QED
      BY <2>1, <3>2, <3>3
  <2>2. CASE m = issued
    <3>1. answers'[m] = v /\ v # 0
      BY <1>5, <1>9, <2>2
    <3>2. v \in {replies[1].n, -replies[1].n} /\ 1 \in 1..Len(replies)
      BY <1>3, <3>1
    <3>3. replies[1].n \in Nat
      BY <3>2, Numbers
    <3>4. AnsweredBy(m)' = replies[1].n
      BY <3>1, <3>2, <3>3 DEF AnsweredBy
    <3>5. QED
      BY <2>2, <3>1, <3>4
  <2>3. QED
    BY <1>1, <1>5, <2>1, <2>2
<1>10. AnswersBehind'
  <2> SUFFICES ASSUME NEW m \in 1..Len(answers'), answers'[m] # 0
               PROVE  /\ AnsweredBy(m)' <= issued
                      /\ \A i \in 1..Len(replies') : AnsweredBy(m)' < replies'[i].n
                      /\ \A j \in 1..Len(requests) : AnsweredBy(m)' < requests[j].n
    BY DEF AnswersBehind
  <2>1. CASE m < issued
    <3>1. m \in 1..Len(answers) /\ answers[m] # 0 /\ AnsweredBy(m)' = AnsweredBy(m)
      BY <1>1, <1>5, <1>9, <2>1
    <3>2. \A i \in 1..Len(replies') : AnsweredBy(m) < replies'[i].n
      BY <1>2, <3>1 DEF IInv, AnswersBehind
    <3>3. QED
      BY <3>1, <3>2 DEF IInv, AnswersBehind
  <2>2. CASE m = issued /\ v # 0 /\ AnsweredBy(m)' = replies[1].n
    <3>1. lost = 1 /\ 1 \in 1..Len(replies)
      BY <1>3, <2>2
    <3>2. InOrder
      BY DEF IInv
    <3>3. replies[1].n <= issued /\ \A j \in 1..Len(requests) : replies[1].n < requests[j].n
      BY <3>1, <3>2 DEF InOrder
    <3>4. ASSUME NEW i \in 1..Len(replies') PROVE replies[1].n < replies'[i].n
      <4>1. i + 1 \in 1..Len(replies) /\ 1 < i + 1 /\ replies'[i].n = replies[i + 1].n
        BY <1>2, <3>1
      <4>2. QED
        BY <3>1, <3>2, <4>1 DEF InOrder
    <3>5. QED
      BY <2>2, <3>3, <3>4
  <2>3. QED
    BY <1>9, <2>1, <2>2
<1>11. Executions'
  <2>1. ASSUME NEW i \in 1..Len(replies'), replies'[i].kind = "ok"
        PROVE  \E k \in 1..Len(executed) : executed[k] = replies'[i].n
    <3>1. i + lost \in 1..Len(replies) /\ replies[i + lost].kind = "ok"
          /\ replies'[i].n = replies[i + lost].n
      BY <1>2, <2>1
    <3>2. QED
      BY <3>1 DEF IInv, Executions
  <2>2. QED
    BY <2>1 DEF IInv, Executions
<1>12. ReplyBelongs'
  <2> SUFFICES ASSUME protocol = "CoLa2", NEW m \in 1..Len(answers')
               PROVE  answers'[m] \in {0, m, -m}
    BY DEF ReplyBelongs, OwnReplies
  <2>1. CASE m \in 1..Len(answers)
    BY <1>5, <2>1 DEF IInv, ReplyBelongs, OwnReplies
  <2>2. CASE m = issued
    BY <1>3, <1>5, <2>2
  <2>3. QED
    BY <1>1, <1>5, <2>1, <2>2
<1>13. RepliesInOrder'
  <2> SUFFICES ASSUME NEW m \in 1..Len(answers'), NEW n \in 1..Len(answers'),
                      m < n, answers'[m] # 0, answers'[n] # 0
               PROVE  AnsweredBy(m)' < AnsweredBy(n)'
    BY DEF RepliesInOrder
  <2>1. m < issued /\ m \in 1..Len(answers) /\ answers[m] # 0 /\ AnsweredBy(m)' = AnsweredBy(m)
    BY <1>1, <1>5, <1>9
  <2>2. CASE n < issued
    BY <1>9, <2>1, <2>2 DEF IInv, RepliesInOrder
  <2>3. CASE n = issued /\ v # 0 /\ AnsweredBy(n)' = replies[1].n
    BY <1>3, <2>1, <2>3 DEF IInv, AnswersBehind
  <2>4. QED
    BY <1>9, <2>2, <2>3
<1>14. QED
  BY <1>6, <1>7, <1>8, <1>10, <1>11, <1>12, <1>13 DEF IInv

\* Each way a call can return is one of these.
LEMMA AnswerIInv == ASSUME IInv, Answer PROVE IInv'
<1>1. replies \in Seq(ReplyPacket) /\ Len(replies) \in Nat /\ sessionID \in SessionIds \cup {0}
  BY LenProperties DEF IInv, TypeOK
<1>2. replies # <<>> => /\ Tail(replies) \in Seq(ReplyPacket) /\ 1 <= Len(replies)
                       /\ Len(Tail(replies)) = Len(replies) - 1
                       /\ \A i \in 1..(Len(replies) - 1) : Tail(replies)[i] = replies[i + 1]
                       /\ Head(replies) \in ReplyPacket
  BY <1>1, TailOf
<1>3. ASSUME ReceiveOpened PROVE IInv'
  <2>1. sessionID' \in SessionIds \cup {0} /\ call' \in {"idle", "closed"}
    <3>1. /\ call = "opening" /\ replies # <<>> /\ call' \in {"idle", Afterwards[call]}
          /\ sessionID' \in {sessionID, HeaderSes(Head(replies))}
      BY <1>3 DEF ReceiveOpened
    <3>2. HeaderSes(Head(replies)) \in SessionIds \cup {0}
      <4>1. Head(replies).ses \in SessionIds \cup {0}
        BY <1>2, <3>1, SessionOf
      <4>2. QED
        BY <4>1 DEF HeaderSes
    <3>3. QED
      BY <1>1, <3>1, <3>2 DEF Afterwards
  <2>2. QED
    BY <1>2, <1>3, <2>1, ReturnIInv DEF ReceiveOpened, device
<1>4. ASSUME Receive PROVE IInv'
  <2>1. call' \in {"idle", "closed"}
    BY <1>4 DEF Receive, Afterwards
  <2>2. QED
    BY <1>1, <1>2, <1>4, <2>1, ReturnIInv DEF Receive, device
<1>5. ASSUME Timeout PROVE IInv'
  <2>1. call' \in {"idle", "closed"}
    BY <1>5 DEF Timeout, Afterwards
  <2>2. QED
    BY <1>1, <1>5, <2>1, ReturnIInv DEF Timeout, device
<1>6. ASSUME TimeoutInReply PROVE IInv'
  <2>1. call' \in {"idle", "closed"}
    BY <1>6 DEF TimeoutInReply, Afterwards
  <2>2. CASE replies' = Tail(replies)
    BY <1>1, <1>2, <1>6, <2>1, <2>2, ReturnIInv DEF TimeoutInReply, device
  <2>3. CASE replies' = [replies EXCEPT ![1].kind = "rest"]
    <3> DEFINE rest == [replies[1] EXCEPT !.kind = "rest"]
    <3>1. 1 \in 1..Len(replies) /\ replies[1] \in ReplyPacket
      BY <1>1, <1>2, <1>6 DEF TimeoutInReply
    <3>2. /\ rest \in ReplyPacket /\ rest.n = replies[1].n /\ rest.req = replies[1].req
          /\ rest.kind = "rest"
      BY <3>1 DEF ReplyPacket
    <3>3. replies' = [replies EXCEPT ![1] = rest]
      BY <2>3
    <3> HIDE DEF rest
    <3>4. /\ replies' \in Seq(ReplyPacket) /\ Len(replies') = Len(replies)
          /\ \A i \in 1..Len(replies) : replies'[i] = IF i = 1 THEN rest ELSE replies[i]
      BY <1>1, <3>1, <3>2, <3>3, ExceptSeq
    <3>5. \A i \in 1..Len(replies') :
            /\ replies'[i].n = replies[i + 0].n /\ replies'[i].req = replies[i + 0].req
            /\ replies'[i].kind = "ok" => replies[i + 0].kind = "ok"
      BY <1>1, <3>2, <3>4
    <3>6. /\ call \in {"opening", "waiting", "closing"} /\ answers' = Append(answers, 0)
          /\ UNCHANGED <<protocol, reqID, issued, requests, session, executed>>
          /\ sessionID' \in SessionIds \cup {0}
      BY <1>1, <1>6 DEF TimeoutInReply, device
    <3>7. Len(replies') = Len(replies) - 0 /\ 0 <= Len(replies)
      BY <1>1, <3>4
    <3>8. QED
      BY <2>1, <3>4, <3>5, <3>6, <3>7, ReturnIInv
  <2>4. QED
    BY <1>6, <2>2, <2>3 DEF TimeoutInReply
<1>7. ASSUME ReceiveRest PROVE IInv'
  BY <1>7 DEF ReceiveRest, device, IInv, TypeOK, Busy, InOrder, Ids, HasItsId, IdBefore, AnswersBehind,
     AnsweredBy, Executions, ReplyBelongs, OwnReplies, RepliesInOrder
<1>8. QED
  BY <1>3, <1>4, <1>5, <1>6, <1>7 DEF Answer

-----------------------------------------------------------------------------
\* The device takes the oldest request and answers it, "ok" if it executed it.
LEMMA ServeIInv ==
  ASSUME IInv, requests # <<>>, NEW kind \in {"ok", "error", "empty"},
         NEW ses \in SessionIds \cup {0}, Reply(Head(requests), kind, ses),
         session' \in SessionIds \cup {0},
         Execute(Head(requests)) \/ (executed' = executed /\ kind # "ok")
  PROVE  IInv'
<1> DEFINE r   == Head(requests)
           new == [n |-> r.n, kind |-> kind, req |-> r.req, ses |-> ses]
<1>1. /\ replies \in Seq(ReplyPacket) /\ requests \in Seq(Request) /\ executed \in Seq(1..MaxRequests)
      /\ UNCHANGED <<protocol, call, reqID, sessionID, issued, answers>>
      /\ replies' = Append(replies, new) /\ requests' = Tail(requests)
  BY DEF Reply, client, IInv, TypeOK
<1>2. /\ requests' \in Seq(Request) /\ Len(requests') = Len(requests) - 1 /\ Len(requests) \in Nat
      /\ \A j \in 1..Len(requests') : j + 1 \in 1..Len(requests) /\ requests'[j] = requests[j + 1]
      /\ r = requests[1] /\ 1 \in 1..Len(requests) /\ r \in Request
  BY <1>1, TailOf
<1>3. r.n \in 1..MaxRequests /\ r.n <= issued /\ issued \in Nat
  BY <1>2, Numbers DEF Request, IInv, TypeOK
<1>4. new \in ReplyPacket /\ new.n = r.n /\ new.req = r.req /\ new.kind = kind
  BY <1>2 DEF Request, ReplyPacket
<1> HIDE DEF new
<1>5. /\ replies' \in Seq(ReplyPacket) /\ Len(replies) \in Nat
      /\ \A i \in 1..Len(replies') :
           \/ i \in 1..Len(replies) /\ replies'[i] = replies[i]
           \/ i = Len(replies) + 1 /\ replies'[i] = new
  BY <1>1, <1>4, Appended
<1>6. /\ executed' \in Seq(1..MaxRequests) /\ Len(executed) \in Nat /\ Len(executed') \in Nat
      /\ \A k \in 1..Len(executed) : k \in 1..Len(executed') /\ executed'[k] = executed[k]
      /\ \A k \in 1..Len(executed') :
           \/ k \in 1..Len(executed) /\ executed'[k] = executed[k]
           \/ executed'[k] = r.n
      /\ kind = "ok" => \E k \in 1..Len(executed') : executed'[k] = r.n
  <2>1. CASE executed' = Append(executed, r.n)
    <3>1. /\ executed' \in Seq(1..MaxRequests) /\ Len(executed) \in Nat
          /\ Len(executed') = Len(executed) + 1
          /\ \A k \in 1..Len(executed) : executed'[k] = executed[k]
          /\ executed'[Len(executed) + 1] = r.n
      BY <1>1, <1>3, <2>1, Appended
    <3>2. Len(executed) + 1 \in 1..Len(executed')
      BY <3>1
    <3>3. QED
      BY <3>1, <3>2
  <2>2. CASE executed' = executed /\ kind # "ok"
    BY <1>1, <2>2, LenProperties
  <2>3. QED
    BY <2>1, <2>2 DEF Execute
<1> HIDE DEF r
<1>7. TypeOK'
  BY <1>1, <1>2, <1>5, <1>6 DEF IInv, TypeOK, Busy
\* The request is older than those behind it and newer than the replies.
<1>8. /\ \A j \in 1..Len(requests') : r.n < requests'[j].n
      /\ \A i \in 1..Len(replies) : replies[i].n < r.n
  <2>1. ASSUME NEW j \in 1..Len(requests') PROVE r.n < requests'[j].n
    <3>1. j + 1 \in 1..Len(requests) /\ 1 < j + 1 /\ requests'[j] = requests[j + 1]
      BY <1>2
    <3>2. QED
      BY <1>2, <3>1 DEF IInv, InOrder
  <2>2. QED
    BY <1>2, <2>1 DEF IInv, InOrder
<1>9. InOrder'
  <2>1. ASSUME NEW i \in 1..Len(replies'), NEW j \in 1..Len(replies'), i < j
        PROVE  replies'[i].n < replies'[j].n
    <3>1. i \in 1..Len(replies) /\ replies'[i] = replies[i]
      BY <1>5, <2>1
    <3>2. CASE j \in 1..Len(replies) /\ replies'[j] = replies[j]
      BY <2>1, <3>1, <3>2 DEF IInv, InOrder
    <3>3. CASE replies'[j] = new
      BY <1>4, <1>8, <3>1, <3>3
    <3>4. QED
      BY <1>5, <3>2, <3>3
  <2>2. ASSUME NEW i \in 1..Len(requests'), NEW j \in 1..Len(requests'), i < j
        PROVE  requests'[i].n < requests'[j].n
    <3>1. i + 1 \in 1..Len(requests) /\ j + 1 \in 1..Len(requests) /\ i + 1 < j + 1
      BY <1>2, <2>2
    <3>2. requests[i + 1].n < requests[j + 1].n
      BY <3>1 DEF IInv, InOrder
    <3>3. QED
      BY <1>2, <3>2
  <2>3. ASSUME NEW i \in 1..Len(replies')
        PROVE  /\ replies'[i].n <= issued
               /\ \A j \in 1..Len(requests') : replies'[i].n < requests'[j].n
    <3>1. CASE i \in 1..Len(replies) /\ replies'[i] = replies[i]
      BY <1>2, <3>1 DEF IInv, InOrder
    <3>2. CASE replies'[i] = new
      BY <1>3, <1>4, <1>8, <3>2
    <3>3. QED
      BY <1>5, <3>1, <3>2
  <2>4. \A j \in 1..Len(requests') : requests'[j].n <= issued
    BY <1>2 DEF IInv, InOrder
  <2>5. QED
    BY <1>1, <2>1, <2>2, <2>3, <2>4 DEF InOrder
<1>10. Ids'
  <2> SUFFICES ASSUME protocol = "CoLa2"
               PROVE  /\ \A i \in 1..Len(replies') : HasItsId(replies[i])'
                      /\ \A j \in 1..Len(requests') : HasItsId(requests[j])'
    BY <1>1 DEF Ids
  <2>1. ASSUME NEW i \in 1..Len(replies') PROVE HasItsId(replies[i])'
    <3>1. CASE i \in 1..Len(replies) /\ replies'[i] = replies[i]
      BY <1>1, <3>1 DEF IInv, Ids, HasItsId, IdBefore
    <3>2. CASE replies'[i] = new
      <4>1. HasItsId(r)
        BY <1>2 DEF IInv, Ids
      <4>2. QED
        BY <1>1, <1>4, <3>2, <4>1 DEF HasItsId, IdBefore
    <3>3. QED
      BY <1>5, <3>1, <3>2
  <2>2. ASSUME NEW j \in 1..Len(requests') PROVE HasItsId(requests[j])'
    BY <1>1, <1>2 DEF IInv, Ids, HasItsId, IdBefore
  <2>3. QED
    BY <2>1, <2>2
<1>11. AnswersBehind'
  <2> SUFFICES ASSUME NEW m \in 1..Len(answers), answers[m] # 0
               PROVE  /\ AnsweredBy(m) <= issued
                      /\ \A i \in 1..Len(replies') : AnsweredBy(m) < replies'[i].n
                      /\ \A j \in 1..Len(requests') : AnsweredBy(m) < requests'[j].n
    BY <1>1 DEF AnswersBehind, AnsweredBy
  <2>1. AnsweredBy(m) < r.n
    BY <1>2 DEF IInv, AnswersBehind
  <2>2. ASSUME NEW i \in 1..Len(replies') PROVE AnsweredBy(m) < replies'[i].n
    BY <1>4, <1>5, <2>1 DEF IInv, AnswersBehind
  <2>3. ASSUME NEW j \in 1..Len(requests') PROVE AnsweredBy(m) < requests'[j].n
    BY <1>2 DEF IInv, AnswersBehind
  <2>4. QED
    BY <2>2, <2>3 DEF IInv, AnswersBehind
<1>12. Executions'
  <2>1. ASSUME NEW k \in 1..Len(executed')
        PROVE  executed'[k] <= issued /\ \A j \in 1..Len(requests') : executed'[k] < requests'[j].n
    <3>1. CASE k \in 1..Len(executed) /\ executed'[k] = executed[k]
      BY <1>2, <3>1 DEF IInv, Executions
    <3>2. CASE executed'[k] = r.n
      BY <1>3, <1>8, <3>2
    <3>3. QED
      BY <1>6, <3>1, <3>2
  <2>2. ASSUME NEW i \in 1..Len(replies'), replies'[i].kind = "ok"
        PROVE  \E k \in 1..Len(executed') : executed'[k] = replies'[i].n
    <3>1. CASE i \in 1..Len(replies) /\ replies'[i] = replies[i]
      BY <1>6, <2>2, <3>1 DEF IInv, Executions
    <3>2. CASE replies'[i] = new
      BY <1>4, <1>6, <2>2, <3>2
    <3>3. QED
      BY <1>5, <3>1, <3>2
  <2>3. QED
    BY <1>1, <2>1, <2>2 DEF Executions
<1>13. ReplyBelongs' /\ RepliesInOrder'
  BY <1>1 DEF IInv, ReplyBelongs, OwnReplies, RepliesInOrder, AnsweredBy
<1>14. QED
  BY <1>7, <1>9, <1>10, <1>11, <1>12, <1>13 DEF IInv

LEMMA DeviceIInv == ASSUME IInv, Device PROVE IInv'
<1>1. /\ session \in SessionIds \cup {0}
      /\ requests # <<>> => Head(requests).ses \in SessionIds \cup {0}
  <2>1. session \in SessionIds \cup {0} /\ requests \in Seq(Request)
    BY DEF IInv, TypeOK
  <2>2. requests # <<>> => Head(requests) \in Request
    BY <2>1, TailOf
  <2>3. QED
    BY <2>1, <2>2, SessionOf
<1>2. ASSUME ServeOpen PROVE IInv'
  BY <1>1, <1>2, ServeIInv DEF ServeOpen, device
<1>3. ASSUME ServeCommand PROVE IInv'
  BY <1>1, <1>3, ServeIInv DEF ServeCommand
<1>4. ASSUME ServeClose PROVE IInv'
  BY <1>1, <1>4, ServeIInv DEF ServeClose
<1>5. ASSUME SessionExpires PROVE IInv'
  BY <1>5 DEF SessionExpires, client, IInv, TypeOK, Busy, InOrder, Ids, HasItsId, IdBefore,
     AnswersBehind, AnsweredBy, Executions, ReplyBelongs, OwnReplies, RepliesInOrder
<1>6. QED
  BY <1>2, <1>3, <1>4, <1>5 DEF Device

LEMMA CallIInv == ASSUME IInv, Begin PROVE IInv'
<1>1. ASSUME NEW what \in {"open", "command", "close"}, NEW begun \in {"opening", "waiting", "closing"},
             ~Busy, Transmit(what, begun)
      PROVE  IInv'
  BY <1>1, BeginIInv DEF Transmit, device
<1>2. ASSUME NEW begun \in {"opening", "waiting", "closing"}, ~Busy, TransmitFails(begun)
      PROVE  IInv'
  <2>1. Afterwards[begun] \in {"idle", "closed"}
    BY DEF Afterwards
  <2>2. QED
    BY <1>2, <2>1, BeginIInv DEF TransmitFails, device
<1>3. ASSUME call = "idle", call' = "closed",
             UNCHANGED <<protocol, reqID, sessionID, issued, answers, requests, replies, device>>
      PROVE  IInv'
  BY <1>3 DEF device, IInv, TypeOK, Busy, InOrder, Ids, HasItsId, IdBefore, AnswersBehind,
     AnsweredBy, Executions, ReplyBelongs, OwnReplies, RepliesInOrder
<1>4. QED
  BY <1>1, <1>2, <1>3 DEF Begin, OpenSession, Send, CloseSession, SendFails, Busy

LEMMA StutterIInv == IInv /\ UNCHANGED vars => IInv'
  BY DEF vars, client, device, IInv, TypeOK, Busy, InOrder, Ids, HasItsId, IdBefore, AnswersBehind,
     AnsweredBy, Executions, ReplyBelongs, OwnReplies, RepliesInOrder

LEMMA NextIInv == IInv /\ [Next]_vars => IInv'
  BY CallIInv, AnswerIInv, DeviceIInv, StutterIInv DEF Next, Finished

THEOREM Invariant == Spec => []IInv
  BY InitIInv, NextIInv, PTL DEF Spec

-----------------------------------------------------------------------------
\* Every variable keeps its type, the request id its width.
THEOREM TypeCorrect == Spec => []TypeOK
  BY Invariant, PTL DEF IInv

\* A CoLa2 call never returns the reply to another request, although the ids
\* of those that were given up are used again.
THEOREM OwnReplyOnly == Spec => []ReplyBelongs
  BY Invariant, PTL DEF IInv

\* With either protocol no reply serves two commands, and replies are not swapped.
THEOREM NoReplyTwice == Spec => []RepliesInOrder
  BY Invariant, PTL DEF IInv

-----------------------------------------------------------------------------
(* The remote call.                                                        *)

\* What the answers are to the remote call.
Returned == [n \in 1..Len(answers) |-> Answered(n)]

LEMMA ReturnedSeq ==
  ASSUME IInv
  PROVE  Returned \in Seq(Int) /\ Len(Returned) = Len(answers) /\ Len(answers) \in Nat
<1>1. answers \in Seq((-MaxRequests)..MaxRequests) /\ Len(answers) \in Nat
  BY LenProperties DEF IInv, TypeOK
<1>2. \A n \in 1..Len(answers) : Answered(n) \in Int
  BY <1>1 DEF Answered
<1>3. Returned \in [1..Len(answers) -> Int]
  BY <1>2 DEF Returned
<1>4. QED
  BY <1>1, <1>3

LEMMA ReturnedStays ==
  ASSUME IInv, UNCHANGED <<protocol, answers>>
  PROVE  Returned' = Returned
BY DEF Returned, Answered

\* One more call has returned.
LEMMA ReturnedGrows ==
  ASSUME IInv, IInv', protocol' = protocol, NEW v, answers' = Append(answers, v)
  PROVE  Returned' = Append(Returned, IF protocol = "CoLa2" /\ v > 0 THEN v ELSE 0)
<1> DEFINE w == IF protocol = "CoLa2" /\ v > 0 THEN v ELSE 0
<1>1. /\ Returned \in Seq(Int) /\ Len(Returned) = Len(answers) /\ Len(answers) \in Nat
      /\ Returned' \in Seq(Int) /\ Len(Returned') = Len(answers')
  <2>1. answers' \in Seq((-MaxRequests)..MaxRequests) /\ Len(answers') \in Nat
    BY LenProperties DEF IInv, TypeOK
  <2>2. \A n \in 1..Len(answers') : Answered(n)' \in Int
    BY <2>1 DEF Answered
  <2>3. Returned' \in [1..Len(answers') -> Int]
    BY <2>2 DEF Returned
  <2>4. Returned' \in Seq(Int) /\ Len(Returned') = Len(answers')
    BY <2>1, <2>3
  <2>5. QED
    BY <2>4, ReturnedSeq
<1>2. /\ Len(answers') = Len(answers) + 1 /\ answers'[Len(answers) + 1] = v
      /\ \A n \in 1..Len(answers) : answers'[n] = answers[n]
      /\ v \in Int
  <2>1. answers \in Seq((-MaxRequests)..MaxRequests) /\ answers' \in Seq((-MaxRequests)..MaxRequests)
    BY DEF IInv, TypeOK
  <2>2. /\ Len(answers') = Len(answers) + 1 /\ answers'[Len(answers) + 1] = v
        /\ \A n \in 1..Len(answers) : answers'[n] = answers[n]
    BY <1>1, <2>1
  <2>3. QED
    BY <1>1, <2>1, <2>2
<1>3. /\ \A n \in 1..Len(answers) : Returned'[n] = Returned[n]
      /\ Returned'[Len(answers) + 1] = w
  BY <1>1, <1>2 DEF Returned, Answered
<1>4. w \in Int
  BY <1>2
<1> HIDE DEF w
<1>5. /\ Append(Returned, w) \in Seq(Int) /\ Len(Append(Returned, w)) = Len(answers) + 1
      /\ \A n \in 1..Len(answers) : Append(Returned, w)[n] = Returned[n]
      /\ Append(Returned, w)[Len(answers) + 1] = w
  BY <1>1, <1>4, Appended
<1>6. Returned' = Append(Returned, w)
  BY <1>1, <1>2, <1>3, <1>5, SeqEqual
<1>7. QED
  BY <1>6 DEF w

LEMMA BeginRemote ==
  ASSUME IInv, IInv', Begin
  PROVE  RPC!Begin \/ RPC!Fail \/ UNCHANGED RPC!vars
<1>1. /\ UNCHANGED <<executed, protocol>>
      /\ ~Busy
  BY DEF Begin, OpenSession, Send, CloseSession, SendFails, Transmit, TransmitFails, device, Busy
<1>2. CASE answers' = answers /\ issued' = issued + 1 /\ call' \in {"opening", "waiting", "closing"}
  <2>1. Returned' = Returned
    BY <1>1, <1>2, ReturnedStays
  <2>2. Busy'
    BY <1>2 DEF Busy
  <2>3. QED
    BY <1>1, <1>2, <2>1, <2>2 DEF RPC!Begin, Returned
<1>3. CASE answers' = Append(answers, 0) /\ issued' = issued + 1 /\ call' \in {"idle", "closed"}
  <2>1. Returned' = Append(Returned, 0)
    BY <1>1, <1>3, ReturnedGrows
  <2>2. Busy' = Busy
    BY <1>1, <1>3 DEF Busy
  <2>3. UNCHANGED executed
    BY <1>1
  <2>4. QED
    BY <1>1, <1>3, <2>1, <2>2, <2>3, Zenon DEF RPC!Fail, Returned
<1>4. CASE answers' = answers /\ issued' = issued /\ call' = "closed"
  <2>1. Returned' = Returned
    BY <1>1, <1>4, ReturnedStays
  <2>2. Busy' = Busy
    BY <1>1, <1>4 DEF Busy
  <2>3. UNCHANGED <<issued, executed>>
    BY <1>1, <1>4
  <2>4. QED
    BY <2>1, <2>2, <2>3, Zenon DEF RPC!vars, Returned
<1>5. QED
  BY <1>2, <1>3, <1>4
     DEF Begin, OpenSession, Send, CloseSession, SendFails, Transmit, TransmitFails, Afterwards

\* What a CoLa2 call returns as OK is its own answer, and the device has executed it.
LEMMA OutcomeExecuted ==
  ASSUME IInv, replies # <<>>, protocol = "CoLa2", Outcome(Head(replies)) > 0
  PROVE  /\ Outcome(Head(replies)) = issued
         /\ \E k \in 1..Len(executed) : executed[k] = issued
<1>1. 1 \in 1..Len(replies) /\ Head(replies) = replies[1]
  BY TailOf DEF IInv, TypeOK
<1>2. Head(replies).n \in Nat
  BY <1>1, Numbers
<1>3. Accepted(Head(replies)) /\ Head(replies).kind = "ok" /\ Outcome(Head(replies)) = Head(replies).n
  BY <1>2 DEF Outcome
<1>4. Head(replies).n = issued
  BY <1>3, AcceptedIsOwn
<1>5. QED
  BY <1>1, <1>3, <1>4 DEF IInv, Executions

LEMMA AnswerRemote ==
  ASSUME IInv, IInv', Answer
  PROVE  RPC!Return \/ UNCHANGED RPC!vars
<1>1. CASE ReceiveRest
  <2>1. Returned' = Returned
    BY <1>1, ReturnedStays DEF ReceiveRest
  <2>2. Busy' = Busy
    BY <1>1 DEF Busy, ReceiveRest
  <2>3. QED
    BY <1>1, <2>1, <2>2 DEF ReceiveRest, device, RPC!vars, Returned
<1>2. ASSUME NEW v, answers' = Append(answers, v), UNCHANGED <<protocol, issued, executed>>,
             call \in {"opening", "waiting", "closing"}, call' \in {"idle", "closed"},
             protocol = "CoLa2" /\ v > 0 =>
               v = issued /\ \E k \in 1..Len(executed) : executed[k] = issued
      PROVE  RPC!Return
  <2>1. Returned' = Append(Returned, IF protocol = "CoLa2" /\ v > 0 THEN v ELSE 0)
    BY <1>2, ReturnedGrows
  <2>2. Busy /\ Busy' = FALSE
    BY <1>2 DEF Busy
  <2>3. CASE protocol = "CoLa2" /\ v > 0
    <3>1. Returned' = Append(Returned, issued) /\ \E k \in 1..Len(executed) : executed[k] = issued
      BY <1>2, <2>1, <2>3
    <3>2. UNCHANGED <<issued, executed>>
      BY <1>2
    <3>3. QED
      BY <2>2, <3>1, <3>2, Zenon DEF RPC!Return, Returned
  <2>4. CASE ~(protocol = "CoLa2" /\ v > 0)
    <3>1. Returned' = Append(Returned, 0)
      BY <2>1, <2>4
    <3>2. QED
      BY <1>2, <2>2, <3>1 DEF RPC!Return, Returned
  <2>5. QED
    BY <2>3, <2>4
<1>3. CASE ReceiveOpened \/ Timeout \/ TimeoutInReply
  <2>1. /\ answers' = Append(answers, 0) /\ UNCHANGED <<protocol, issued, executed>>
        /\ call \in {"opening", "waiting", "closing"} /\ call' \in {"idle", "closed"}
    BY <1>3 DEF ReceiveOpened, Timeout, TimeoutInReply, Afterwards, device
  <2>2. QED
    BY <1>2, <2>1
<1>4. CASE Receive
  <2>1. /\ answers' = Append(answers, Outcome(Head(replies))) /\ replies # <<>>
        /\ UNCHANGED <<protocol, issued, executed>>
        /\ call \in {"opening", "waiting", "closing"} /\ call' \in {"idle", "closed"}
    BY <1>4 DEF Receive, Afterwards, device
  <2>2. QED
    BY <1>2, <2>1, OutcomeExecuted
<1>5. QED
  BY <1>1, <1>3, <1>4 DEF Answer

LEMMA DeviceRemote ==
  ASSUME IInv, IInv', Device
  PROVE  RPC!Execute \/ UNCHANGED RPC!vars
<1>1. UNCHANGED <<call, protocol, issued, answers>>
  BY DEF Device, ServeOpen, ServeCommand, ServeClose, SessionExpires, Reply, client
<1>2. Returned' = Returned /\ Busy' = Busy
  BY <1>1, ReturnedStays DEF Busy
<1>3. CASE executed' = executed
  BY <1>1, <1>2, <1>3 DEF RPC!vars, Returned
<1>4. CASE requests # <<>> /\ Execute(Head(requests))
  <2>1. 1 \in 1..Len(requests) /\ Head(requests) = requests[1] /\ Head(requests).n \in 1..MaxRequests
    <3>1. 1 \in 1..Len(requests) /\ Head(requests) = requests[1] /\ Head(requests) \in Request
      BY <1>4, TailOf DEF IInv, TypeOK
    <3>2. QED
      BY <3>1 DEF Request
  <2>2. /\ Head(requests).n \in 1..issued
        /\ \A k \in 1..Len(executed) : executed[k] < Head(requests).n
    <3>1. issued \in Nat /\ requests[1].n <= issued
      <4>1. issued \in Nat
        BY DEF IInv, TypeOK
      <4>2. \A j \in 1..Len(requests) : requests[j].n <= issued
        BY Numbers
      <4>3. QED
        BY <2>1, <4>1, <4>2
    <3>2. \A k \in 1..Len(executed) : executed[k] < requests[1].n
      <4>1. Executions
        BY DEF IInv
      <4>2. QED
        BY <2>1, <4>1, Zenon DEF Executions
    <3>3. QED
      BY <2>1, <3>1, <3>2
  <2>3. executed' = Append(executed, Head(requests).n)
    BY <1>4 DEF Execute
  <2>4. QED
    BY <1>1, <1>2, <2>2, <2>3 DEF RPC!Execute, Returned
<1>5. QED
  BY <1>3, <1>4 DEF Device, ServeOpen, ServeCommand, ServeClose, SessionExpires, device

LEMMA StepsRemote == IInv /\ IInv' /\ [Next]_vars => [RPC!Next]_RPC!vars
<1> SUFFICES ASSUME IInv, IInv', [Next]_vars PROVE [RPC!Next]_RPC!vars
  OBVIOUS
<1>1. CASE Finished \/ UNCHANGED vars
  <2>1. UNCHANGED vars
    BY <1>1 DEF Finished
  <2>2. Returned' = Returned /\ Busy' = Busy
    BY <2>1, ReturnedStays DEF vars, client, Busy
  <2>3. QED
    BY <2>1, <2>2 DEF RPC!vars, vars, client, device, Returned
<1>2. QED
  BY <1>1, BeginRemote, AnswerRemote, DeviceRemote DEF Next, RPC!Next

LEMMA InitRemote == Init => RPC!Init
<1> SUFFICES ASSUME Init PROVE RPC!Init
  OBVIOUS
<1>1. ~Busy
  BY DEF Init, Busy
<1>2. Returned = <<>>
  <2>1. IInv
    BY InitIInv
  <2>2. Returned \in Seq(Int) /\ Len(Returned) = 0
    BY <2>1, ReturnedSeq DEF Init
  <2>3. QED
    BY <2>2, EmptySeq
<1>3. QED
  BY <1>1, <1>2 DEF Init, RPC!Init, Returned

\* The handler implements the remote call: requests are executed at most once
\* and in order, and a CoLa2 call that returned OK was executed.
THEOREM ImplementsRemoteCall == Spec => RemoteCallSpec
<1>1. Init => RPC!Init
  BY InitRemote
<1>2. IInv /\ IInv' /\ [Next]_vars => [RPC!Next]_RPC!vars
  BY StepsRemote
<1>3. QED
  BY <1>1, <1>2, Invariant, PTL DEF Spec, RemoteCallSpec, RPC!Spec

-----------------------------------------------------------------------------
(* What the remote call promises, and a handler keeps.                     *)

\* What is executed comes in the order of the requests, each of them once.
InTheirOrder(done) == \A i, j \in 1..Len(done) : i < j => done[i] < done[j]

\* What is answered was executed.
ExecutedFirst(answered, done) ==
  \A n \in 1..Len(answered) : answered[n] # 0 => \E k \in 1..Len(done) : done[k] = answered[n]

Promise == InTheirOrder(executed) /\ ExecutedFirst(Returned, executed)

LEMMA PromiseExecute ==
  ASSUME Promise, NEW n \in Int, executed \in Seq(Int), \A i \in 1..Len(executed) : executed[i] < n,
         executed' = Append(executed, n), Returned' = Returned
  PROVE  Promise'
<1>1. /\ Len(executed') = Len(executed) + 1 /\ Len(executed) \in Nat
      /\ \A i \in 1..Len(executed) : executed'[i] = executed[i]
      /\ executed'[Len(executed) + 1] = n
  BY Appended
<1>2. ASSUME NEW i \in 1..Len(executed'), NEW j \in 1..Len(executed'), i < j
      PROVE  executed'[i] < executed'[j]
  <2>1. i \in 1..Len(executed) /\ executed'[i] = executed[i]
    BY <1>1, <1>2
  <2>2. CASE j \in 1..Len(executed)
    <3>1. executed[i] < executed[j] /\ executed'[j] = executed[j]
      BY <1>1, <1>2, <2>1, <2>2 DEF Promise, InTheirOrder
    <3>2. QED
      BY <2>1, <3>1
  <2>3. CASE j = Len(executed) + 1
    BY <1>1, <2>1, <2>3
  <2>4. QED
    BY <1>1, <2>2, <2>3
<1>3. ExecutedFirst(Returned, executed)'
  <2> SUFFICES ASSUME NEW m \in 1..Len(Returned), Returned[m] # 0
               PROVE  \E k \in 1..Len(executed') : executed'[k] = Returned[m]
    BY DEF ExecutedFirst
  <2>1. PICK k \in 1..Len(executed) : executed[k] = Returned[m]
    BY DEF Promise, ExecutedFirst
  <2>2. k \in 1..Len(executed') /\ executed'[k] = Returned[m]
    BY <1>1, <2>1
  <2>3. QED
    BY <2>2
<1>4. QED
  BY <1>2, <1>3 DEF Promise, InTheirOrder

LEMMA PromiseReturn ==
  ASSUME Promise, Returned \in Seq(Int), executed' = executed,
         NEW v \in Int, v # 0 => \E k \in 1..Len(executed) : executed[k] = v,
         Returned' = Append(Returned, v)
  PROVE  Promise'
<1>1. /\ Len(Returned') = Len(Returned) + 1 /\ Len(Returned) \in Nat
      /\ \A i \in 1..Len(Returned) : Returned'[i] = Returned[i]
      /\ Returned'[Len(Returned) + 1] = v
  BY Appended
<1>2. InTheirOrder(executed)'
  BY DEF Promise, InTheirOrder
<1>3. ASSUME NEW m \in 1..Len(Returned'), Returned'[m] # 0
      PROVE  \E k \in 1..Len(executed) : executed[k] = Returned'[m]
  <2>1. CASE m \in 1..Len(Returned)
    BY <1>1, <1>3, <2>1 DEF Promise, ExecutedFirst
  <2>2. CASE m = Len(Returned) + 1
    BY <1>1, <1>3, <2>2
  <2>3. QED
    BY <1>1, <2>1, <2>2
<1>4. ExecutedFirst(Returned, executed)'
  BY <1>3 DEF ExecutedFirst
<1>5. QED
  BY <1>2, <1>4 DEF Promise

LEMMA PromiseStep == IInv /\ Promise /\ [RPC!Next]_RPC!vars => Promise'
<1> SUFFICES ASSUME IInv, Promise, [RPC!Next]_RPC!vars PROVE Promise'
  OBVIOUS
<1>1. /\ executed \in Seq(Int) /\ Returned \in Seq(Int) /\ issued \in Int
  <2>1. executed \in Seq(1..MaxRequests) /\ issued \in 0..MaxRequests /\ 1..MaxRequests \subseteq Int
    BY DEF IInv, TypeOK
  <2>2. executed \in Seq(Int)
    <3>1. executed \in [1..Len(executed) -> 1..MaxRequests] /\ Len(executed) \in Nat
      BY <2>1, LenProperties
    <3>2. executed \in [1..Len(executed) -> Int]
      BY <3>1
    <3>3. QED
      BY <3>1, <3>2
  <2>3. QED
    BY <2>1, <2>2, ReturnedSeq
<1>2. CASE UNCHANGED <<executed, Returned>>
  BY <1>2, Zenon DEF Promise, InTheirOrder, ExecutedFirst
<1>3. CASE RPC!Execute
  <2>1. PICK n \in 1..issued : /\ \A i \in 1..Len(executed) : executed[i] < n
                               /\ executed' = Append(executed, n)
    BY <1>3 DEF RPC!Execute
  <2>2. Returned' = Returned
    BY <1>3 DEF RPC!Execute, Returned
  <2>3. n \in Int
    BY <1>1, <2>1
  <2>4. QED
    BY <1>1, <2>1, <2>2, <2>3, PromiseExecute
<1>4. CASE RPC!Return \/ RPC!Fail
  <2>1. executed' = executed
    BY <1>4 DEF RPC!Return, RPC!Fail
  <2>2. PICK v \in {0, issued} : /\ Returned' = Append(Returned, v)
                                 /\ v # 0 => \E k \in 1..Len(executed) : executed[k] = v
    <3>1. CASE Returned' = Append(Returned, 0)
      BY <3>1
    <3>2. CASE Returned' = Append(Returned, issued) /\ \E k \in 1..Len(executed) : executed[k] = issued
      BY <3>2
    <3>3. QED
      BY <1>4, <3>1, <3>2 DEF RPC!Return, RPC!Fail, Returned
  <2>3. v \in Int
    BY <1>1, <2>2
  <2>4. QED
    BY <1>1, <2>1, <2>2, <2>3, PromiseReturn
<1>5. CASE RPC!Begin \/ UNCHANGED RPC!vars
  <2>1. UNCHANGED <<executed, Returned>>
    BY <1>5 DEF RPC!Begin, RPC!vars, Returned
  <2>2. QED
    BY <1>2, <2>1
<1>6. QED
  BY <1>3, <1>4, <1>5 DEF RPC!Next

LEMMA Promised == Spec => []Promise
<1>1. Init => Promise
  <2> SUFFICES ASSUME Init PROVE Promise
    OBVIOUS
  <2>1. Len(executed) = 0 /\ Len(Returned) = 0
    BY InitIInv, ReturnedSeq DEF Init
  <2>2. QED
    BY <2>1 DEF Promise, InTheirOrder, ExecutedFirst
<1>2. IInv /\ IInv' /\ Promise /\ [Next]_vars => Promise'
  BY StepsRemote, PromiseStep
<1>3. QED
  BY <1>1, <1>2, Invariant, PTL DEF Spec

\* With either protocol the device executes no request twice and none before an
\* older one, also those whose calls have long returned NETWORK_ERROR.
THEOREM ExecutedOnceInOrder == Spec => []InTheirOrder(executed)
  BY Promised, PTL DEF Promise

\* A CoLa2 call that returned OK returned the answer to its own request, and the
\* device had executed it.
THEOREM OkWasExecuted ==
  Spec => [](protocol = "CoLa2" =>
               \A n \in 1..Len(answers) : answers[n] > 0 =>
                 answers[n] = n /\ \E k \in 1..Len(executed) : executed[k] = n)
<1>1. ASSUME IInv, Promise, protocol = "CoLa2", NEW n \in 1..Len(answers), answers[n] > 0
      PROVE  answers[n] = n /\ \E k \in 1..Len(executed) : executed[k] = n
  <2>1. n \in Nat /\ answers[n] \in {0, n, -n}
    BY <1>1, ReturnedSeq DEF IInv, ReplyBelongs, OwnReplies
  <2>2. answers[n] = n
    BY <1>1, <2>1
  <2>3. n \in 1..Len(Returned) /\ Returned[n] = n /\ n # 0
    BY <1>1, <2>1, <2>2, ReturnedSeq DEF Returned, Answered
  <2>4. QED
    BY <1>1, <2>2, <2>3 DEF Promise, ExecutedFirst
<1>2. IInv /\ Promise => (protocol = "CoLa2" =>
               \A n \in 1..Len(answers) : answers[n] > 0 =>
                 answers[n] = n /\ \E k \in 1..Len(executed) : executed[k] = n)
  BY <1>1
<1>3. QED
  BY <1>2, Invariant, Promised, PTL
=============================================================================
