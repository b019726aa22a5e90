------------------------- MODULE FrameMailboxProofs -------------------------
(* What follows from being a mailbox, for the callers of the frame grabber.  *)
EXTENDS FrameMailbox, TLAPS

\* Nobody has a frame that was not published, nor one newer than the offer.
Behind == slot <= newest /\ \A c \in Consumers : got[c] <= newest

IInv == TypeOK /\ Behind /\ LatestOnly /\ TakenOnce

LEMMA InitIInv == Init => IInv
BY DEF Init, IInv, TypeOK, Behind, LatestOnly, TakenOnce, Empty

LEMMA NextIInv == IInv /\ [Next]_vars => IInv'
<1> SUFFICES ASSUME IInv, [Next]_vars PROVE IInv'
  OBVIOUS
<1> USE DEF IInv, TypeOK, Behind, LatestOnly, TakenOnce, Empty
<1>1. CASE Publish
  BY <1>1 DEF Publish
<1>2. CASE Discard
  BY <1>2 DEF Discard
<1>3. ASSUME NEW c \in Consumers, Take(c) PROVE IInv'
  \* The others have older frames: the one taken is new to all of them.
  <2>1. slot = newest /\ slot # 0 /\ \A d \in Consumers : got[d] < slot
    BY <1>3 DEF Take
  <2>2. got' = [got EXCEPT ![c] = slot] /\ slot' = 0 /\ newest' = newest
    BY <1>3 DEF Take
  <2> QED  BY <2>1, <2>2
<1>4. CASE UNCHANGED vars
  BY <1>4 DEF vars
<1> QED  BY <1>1, <1>2, <1>3, <1>4 DEF Next

\* The mailbox never offers anything but the newest frame, which nobody has
\* seen, and gives no frame to two callers: the handlers that genGetNextFrame
\* and genGetCurrentFrame exchange under the lock are taken once.
THEOREM OneTaker == Spec => [](LatestOnly /\ TakenOnce)
<1>1. IInv => LatestOnly /\ TakenOnce
  BY DEF IInv
<1> QED  BY InitIInv, NextIInv, <1>1, PTL DEF Spec

\* Frames leave the mailbox in the order in which they were published, whoever
\* takes them.
THEOREM InOrder == Spec => TakesNewer
<1>1. IInv /\ [Next]_vars =>
        [\A c, d \in Consumers : got'[c] # got[c] => got'[c] > got[d]]_vars
  <2> SUFFICES ASSUME IInv, [Next]_vars, NEW c \in Consumers, NEW d \in Consumers,
                      got'[c] # got[c]
               PROVE  got'[c] > got[d]
    BY DEF vars
  <2>1. PICK e \in Consumers : Take(e)
    BY DEF Next, Publish, Discard, vars
  <2>2. c = e /\ got'[c] = slot
    BY <2>1 DEF Take, IInv, TypeOK
  <2> QED  BY <2>1, <2>2 DEF Take, IInv, TypeOK, LatestOnly
<1> QED  BY InitIInv, NextIInv, <1>1, PTL DEF Spec, TakesNewer
=============================================================================
