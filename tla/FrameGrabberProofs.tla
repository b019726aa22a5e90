------------------------- MODULE FrameGrabberProofs -------------------------
(***************************************************************************)
(* Theorems about FrameGrabber for any number of callers and handlers.     *)
(* One inductive invariant, IInv, carries those the runs check.            *)
(***************************************************************************)
EXTENDS FrameGrabber, TLAPS

USE HandlersAssumption, FramesAssumption

\* The state the constructor leaves satisfies the invariant.
LEMMA InitIInv == Init => IInv
<1> SUFFICES ASSUME Init PROVE IInv
  OBVIOUS
<1>1. TypeOK
  <2>1. 0 \in 0..MaxFrames /\ 0 \in Nat
    OBVIOUS
  <2>2. frame \in [Handlers -> 0..MaxFrames]
    BY <2>1 DEF Init
  <2>3. QED
    BY <2>1, <2>2 DEF Init, TypeOK
<1>2. HandlersExclusive /\ CallerHasHandler /\ NoTornFrame
  BY DEF Init, HandlersExclusive, CallerHasHandler, NoTornFrame
<1>3. WakeupNotLost /\ OfferedIsNewest /\ GrabberHasFrame /\ HistoryBehind
  BY DEF Init, WakeupNotLost, OfferedIsNewest, GrabberHasFrame, HistoryBehind
<1>4. QED
  BY <1>1, <1>2, <1>3 DEF IInv

\* A step that changes no variable preserves it.
LEMMA StutterIInv == IInv /\ UNCHANGED vars => IInv'
  BY DEF vars, object, content, history, IInv, TypeOK, HandlersExclusive,
         CallerHasHandler, NoTornFrame, WakeupNotLost, OfferedIsNewest,
         GrabberHasFrame, HistoryBehind

\* The steps of the grabber thread: the handler it writes is nobody else's.
LEMMA GrabberIInv == IInv /\ GrabberStep => IInv'
<1> SUFFICES ASSUME IInv, GrabberStep PROVE IInv'
  OBVIOUS
<1> USE DEF object, content, history, Entering, Waiting
<1>1. CASE LoopHead
  BY <1>1 DEF LoopHead, IInv, TypeOK, HandlersExclusive, CallerHasHandler,
     NoTornFrame, WakeupNotLost, OfferedIsNewest, GrabberHasFrame, HistoryBehind
<1>2. CASE ReceiveBlob
  BY <1>2 DEF ReceiveBlob, IInv, TypeOK, HandlersExclusive, CallerHasHandler,
     NoTornFrame, WakeupNotLost, OfferedIsNewest, GrabberHasFrame, HistoryBehind
<1>3. CASE ReceiveFail
  BY <1>3 DEF ReceiveFail, IInv, TypeOK, HandlersExclusive, CallerHasHandler,
     NoTornFrame, WakeupNotLost, OfferedIsNewest, GrabberHasFrame, HistoryBehind
<1>4. CASE ParseOk
  BY <1>4 DEF ParseOk, IInv, TypeOK, HandlersExclusive, CallerHasHandler,
     NoTornFrame, WakeupNotLost, OfferedIsNewest, GrabberHasFrame, HistoryBehind
<1>5. CASE ParseFail
  BY <1>5 DEF ParseFail, IInv, TypeOK, HandlersExclusive, CallerHasHandler,
     NoTornFrame, WakeupNotLost, OfferedIsNewest, GrabberHasFrame, HistoryBehind
<1>6. CASE Publish
  <2>1. TypeOK'
    BY <1>6 DEF Publish, NotifyOne, IInv, TypeOK, GrabberHasFrame
  <2>2. HandlersExclusive' /\ NoTornFrame' /\ GrabberHasFrame'
    BY <1>6 DEF Publish, IInv, TypeOK, HandlersExclusive, NoTornFrame, GrabberHasFrame
  <2>3. CallerHasHandler'
    BY <1>6 DEF Publish, NotifyOne, IInv, TypeOK, CallerHasHandler
  <2>4. WakeupNotLost'
    BY <1>6 DEF Publish, NotifyOne, IInv, TypeOK, WakeupNotLost
  <2>5. OfferedIsNewest' /\ HistoryBehind'
    BY <1>6 DEF Publish, IInv, TypeOK, OfferedIsNewest, GrabberHasFrame, HistoryBehind
  <2>6. QED
    BY <2>1, <2>2, <2>3, <2>4, <2>5 DEF IInv
<1>7. QED
  BY <1>1, <1>2, <1>3, <1>4, <1>5, <1>6 DEF GrabberStep

\* The exchange of handlers in a critical section.
LEMMA TakeFrameIInv ==
  ASSUME NEW c \in Consumers, IInv, available, call[c] # "idle",
         TakeFrame(c), CallerFrame
  PROVE  IInv'
<1> USE DEF CallerFrame, content, Entering, Waiting
<1>1. TypeOK'
  BY DEF TakeFrame, IInv, TypeOK, CallerHasHandler
<1>2. HandlersExclusive' /\ NoTornFrame' /\ GrabberHasFrame'
  BY DEF TakeFrame, IInv, TypeOK, HandlersExclusive, CallerHasHandler,
         NoTornFrame, GrabberHasFrame
<1>3. CallerHasHandler'
  BY DEF TakeFrame, IInv, TypeOK, CallerHasHandler
<1>4. WakeupNotLost' /\ OfferedIsNewest' /\ HistoryBehind'
  BY DEF TakeFrame, IInv, TypeOK, WakeupNotLost, OfferedIsNewest, HistoryBehind
<1>5. QED
  BY <1>1, <1>2, <1>3, <1>4 DEF IInv

\* A critical section that leaves the slot empty and exchanges nothing.
LEMMA GoToIInv ==
  ASSUME NEW c \in Consumers, NEW place \in {"idle", "sleeping"},
         IInv, call[c] # "idle", available' = FALSE, GoTo(c, place), CallerFrame
  PROVE  IInv'
  BY DEF GoTo, CallerFrame, content, Entering, Waiting, IInv, TypeOK,
         HandlersExclusive, CallerHasHandler, NoTornFrame, WakeupNotLost,
         OfferedIsNewest, GrabberHasFrame, HistoryBehind

\* The critical sections of a caller.
LEMMA ConsumerIInv ==
  ASSUME NEW c \in Consumers, IInv, ConsumerStep(c)
  PROVE  IInv'
<1>0. available \in BOOLEAN
  BY DEF IInv, TypeOK
<1>1. CASE EnterNext(c)
  BY <1>0, <1>1, TakeFrameIInv, GoToIInv DEF EnterNext
<1>2. CASE GetCurrent(c)
  BY <1>0, <1>2, TakeFrameIInv, GoToIInv DEF GetCurrent
<1>3. CASE Resume(c)
  BY <1>0, <1>3, TakeFrameIInv, GoToIInv DEF Resume
<1>4. QED
  BY <1>1, <1>2, <1>3 DEF ConsumerStep

\* A call begins: a handler made for it is one that nobody uses.
LEMMA CallIInv ==
  ASSUME NEW c \in Consumers, NEW kind \in Entering, IInv, Call(c, kind)
  PROVE  IInv'
<1> USE DEF object, content, Entering, Waiting
<1>1. CASE held[c] # NoHandler
  <2>1. UNCHANGED <<held, content>>
    BY <1>1 DEF Call
  <2>2. TypeOK'
    BY <2>1 DEF Call, IInv, TypeOK, GrabberHasFrame
  <2>3. HandlersExclusive' /\ NoTornFrame' /\ GrabberHasFrame'
    BY <2>1 DEF Call, IInv, HandlersExclusive, NoTornFrame, GrabberHasFrame
  <2>4. CallerHasHandler' /\ WakeupNotLost'
    BY <1>1, <2>1 DEF Call, IInv, TypeOK, CallerHasHandler, WakeupNotLost
  <2>5. OfferedIsNewest' /\ HistoryBehind'
    BY <2>1 DEF Call, IInv, TypeOK, OfferedIsNewest, HistoryBehind
  <2>6. QED
    BY <2>2, <2>3, <2>4, <2>5 DEF IInv
<1>2. CASE held[c] = NoHandler
  <2>1. PICK h \in Handlers \ InUse :
          /\ held' = [held EXCEPT ![c] = h]
          /\ frame' = [frame EXCEPT ![h] = 0]
          /\ torn' = torn \ {h}
    BY <1>2 DEF Call
  <2>2. TypeOK'
    BY <2>1 DEF Call, IInv, TypeOK, GrabberHasFrame
  <2>3. HandlersExclusive' /\ NoTornFrame' /\ GrabberHasFrame'
    BY <2>1 DEF Call, InUse, IInv, TypeOK, HandlersExclusive, NoTornFrame, GrabberHasFrame
  <2>4. CallerHasHandler' /\ WakeupNotLost'
    BY <2>1 DEF Call, IInv, TypeOK, CallerHasHandler, WakeupNotLost
  <2>5. OfferedIsNewest' /\ HistoryBehind'
    BY <2>1 DEF Call, InUse, IInv, TypeOK, OfferedIsNewest, HistoryBehind
  <2>6. QED
    BY <2>2, <2>3, <2>4, <2>5 DEF IInv
<1>3. QED
  BY <1>1, <1>2

\* The clock, the scheduler and a caller that drops its handler.
LEMMA WaitIInv ==
  ASSUME NEW c \in Consumers, IInv,
         Timeout(c) \/ SpuriousWakeup(c) \/ Release(c)
  PROVE  IInv'
  BY DEF Timeout, SpuriousWakeup, Release, object, content, history, Entering,
         Waiting, IInv, TypeOK, HandlersExclusive, CallerHasHandler, NoTornFrame,
         WakeupNotLost, OfferedIsNewest, GrabberHasFrame, HistoryBehind

\* The destructor and the connection.
LEMMA LifeIInv ==
  ASSUME IInv, Destroy \/ Join \/ LinkLost
  PROVE  IInv'
<1>1. TypeOK'
  BY DEF Destroy, Join, LinkLost, object, content, history, IInv, TypeOK
<1>2. UNCHANGED <<stream, shared, available, grabber, call, held, content, history>>
  BY DEF Destroy, Join, LinkLost, object
<1>3. QED
  BY <1>1, <1>2 DEF content, history, IInv, HandlersExclusive, CallerHasHandler,
     NoTornFrame, WakeupNotLost, OfferedIsNewest, GrabberHasFrame, HistoryBehind

LEMMA NextIInv == IInv /\ [Next]_vars => IInv'
  BY StutterIInv, GrabberIInv, ConsumerIInv, CallIInv, WaitIInv, LifeIInv
     DEF Next, Gone

\* IInv holds in every reachable state, whatever the number of callers,
\* handlers and frames.
THEOREM Invariance == Spec => []IInv
  BY InitIInv, NextIInv, PTL DEF Spec

-----------------------------------------------------------------------------
\* Every variable keeps its type.
THEOREM TypeCorrect == Spec => []TypeOK
<1>1. IInv => TypeOK
  BY DEF IInv
<1>2. QED
  BY <1>1, Invariance, PTL

\* The handler the grabber writes outside the lock is reachable from no
\* caller and not on offer: run() and the callers never race on its content.
THEOREM Exclusivity == Spec => []HandlersExclusive
<1>1. IInv => HandlersExclusive
  BY DEF IInv
<1>2. QED
  BY <1>1, Invariance, PTL

\* A frame whose parsing failed half way is never given out.
THEOREM NeverTorn == Spec => []NoTornFrame
<1>1. IInv => NoTornFrame
  BY DEF IInv
<1>2. QED
  BY <1>1, Invariance, PTL

\* One notify_one per frame is enough, whatever callers come, wake up
\* spuriously, time out or steal the frame.
THEOREM NoLostWakeup == Spec => []WakeupNotLost
<1>1. IInv => WakeupNotLost
  BY DEF IInv
<1>2. QED
  BY <1>1, Invariance, PTL
-----------------------------------------------------------------------------
\* A call with onlyNewer returns no frame published before it began.
THEOREM OnlyNewer == Spec => NewerThanCall
<1>1. ASSUME IInv, [Next]_vars, NEW c \in Consumers, got'[c] # got[c]
      PROVE  got'[c] > publishedAt[c]
  <2>1. PICK d \in Consumers :
          /\ call[d] \notin {"idle", "newer"}
          /\ available
          /\ TakeFrame(d)
    BY <1>1 DEF Next, vars, object, content, history, GrabberStep, LoopHead,
       ReceiveBlob, ReceiveFail, ParseOk, ParseFail, Publish, Call, ConsumerStep,
       EnterNext, GetCurrent, Resume, GoTo, Timeout, SpuriousWakeup, Release,
       Destroy, Join, LinkLost, Gone
  <2>2. c = d /\ got'[c] = published
    BY <1>1, <2>1 DEF TakeFrame, IInv, TypeOK, OfferedIsNewest
  <2>3. QED
    BY <1>1, <2>1, <2>2 DEF IInv, TypeOK, HistoryBehind
<1>2. IInv /\ [Next]_vars
        => [\A c \in Consumers : got'[c] # got[c] => got'[c] > publishedAt[c]]_vars
  BY <1>1
<1>3. QED
  BY <1>2, Invariance, PTL DEF Spec, NewerThanCall

\* The grabber implements the mailbox: publishing is Publish, the exchange of
\* handlers is Take, forgetting the frame on offer is Discard, and every other
\* step changes nothing the mailbox shows.
THEOREM ImplementsMailbox == Spec => MailboxSpec
<1> DEFINE slot == IF available THEN frame[shared] ELSE 0
<1>1. Init => Mailbox!Init
  BY DEF Init, Mailbox!Init, Mailbox!Empty
<1>2. ASSUME IInv, [Next]_vars PROVE [Mailbox!Next]_(Mailbox!vars)
  <2>1. CASE Publish
    <3>1. published' = published + 1 /\ got' = got /\ available'
      BY <2>1 DEF Publish
    <3>2. frame'[shared'] = published + 1
      BY <1>2, <2>1 DEF Publish, content, IInv, GrabberHasFrame
    <3>3. QED
      BY <3>1, <3>2 DEF Mailbox!Next, Mailbox!Publish
  <2>2. ASSUME NEW c \in Consumers, ConsumerStep(c)
        PROVE  [Mailbox!Next]_(Mailbox!vars)
    <3>1. UNCHANGED <<published, frame>> /\ (available \in BOOLEAN)
      BY <1>2, <2>2 DEF ConsumerStep, EnterNext, GetCurrent, Resume, CallerFrame,
         content, IInv, TypeOK
    <3>2. CASE available /\ TakeFrame(c)
      <4>1. frame[shared] # 0
        BY <1>2, <3>2 DEF IInv, TypeOK, OfferedIsNewest
      <4>2. QED
        BY <3>1, <3>2, <4>1 DEF TakeFrame, Mailbox!Next, Mailbox!Take, Mailbox!Empty
    <3>3. CASE available' = FALSE /\ UNCHANGED got
      BY <3>1, <3>3 DEF Mailbox!Next, Mailbox!Discard, Mailbox!Empty
    <3>4. QED
      BY <2>2, <3>1, <3>2, <3>3 DEF ConsumerStep, EnterNext, GetCurrent, Resume, GoTo
  <2>3. ASSUME NEW c \in Consumers, NEW kind \in Entering, Call(c, kind)
        PROVE  UNCHANGED Mailbox!vars
    BY <1>2, <2>3 DEF Call, InUse, object, content, IInv, TypeOK, Mailbox!vars
  <2>4. CASE ParseOk
    BY <1>2, <2>4 DEF ParseOk, object, history, IInv, TypeOK, HandlersExclusive,
       Mailbox!vars
  <2>5. CASE UNCHANGED <<available, shared, frame, published, got>>
    BY <2>5 DEF Mailbox!vars
  <2>6. QED
    BY <1>2, <2>1, <2>2, <2>3, <2>4, <2>5 DEF Next, GrabberStep, LoopHead,
       ReceiveBlob, ReceiveFail, ParseFail, Timeout, SpuriousWakeup, Release,
       Destroy, Join, LinkLost, Gone, vars, object, content, history
<1>3. QED
  BY <1>1, <1>2, Invariance, PTL DEF Spec, MailboxSpec, Mailbox!Spec

-----------------------------------------------------------------------------
(* What a caller may rely on.                                              *)

\* The handler a caller owns holds the frame its last successful call returned,
\* or none when it is a new one.
HoldsWhatItGot ==
  \A c \in Consumers : held[c] # NoHandler => frame[held[c]] \in {0, got[c]}

LEMMA HoldsStep == IInv /\ HoldsWhatItGot /\ [Next]_vars => HoldsWhatItGot'
<1> SUFFICES ASSUME IInv, HoldsWhatItGot, [Next]_vars,
                    NEW c \in Consumers, held'[c] # NoHandler
             PROVE  frame'[held'[c]] \in {0, got'[c]}
  BY DEF HoldsWhatItGot
<1> USE HandlersAssumption
<1>1. /\ held \in [Consumers -> Handlers \cup {NoHandler}] /\ got \in [Consumers -> 0..MaxFrames]
      /\ frame \in [Handlers -> 0..MaxFrames] /\ stream \in Handlers /\ shared \in Handlers
      /\ \A d \in Consumers : held[d] # NoHandler => frame[held[d]] \in {0, got[d]}
      /\ \A d \in Consumers : held[d] \notin {stream, shared}
      /\ \A d, e \in Consumers : d # e /\ held[d] # NoHandler => held[d] # held[e]
  BY DEF IInv, TypeOK, HandlersExclusive, HoldsWhatItGot
<1>2. CASE UNCHANGED <<held, frame, got>>
  BY <1>1, <1>2
<1>3. CASE ParseOk
  BY <1>1, <1>3 DEF ParseOk, object, history
<1>4. ASSUME NEW d \in Consumers, NEW kind \in Entering, Call(d, kind)
      PROVE  frame'[held'[c]] \in {0, got'[c]}
  <2>1. CASE held[d] # NoHandler
    BY <1>1, <1>2, <1>4, <2>1 DEF Call, content
  <2>2. CASE held[d] = NoHandler
    <3>1. PICK h \in Handlers \ InUse : /\ held' = [held EXCEPT ![d] = h]
                                        /\ frame' = [frame EXCEPT ![h] = 0]
      BY <1>4, <2>2 DEF Call
    <3>2. got' = got /\ \A e \in Consumers : held[e] # h
      BY <1>4, <3>1 DEF Call, InUse
    <3>3. QED
      BY <1>1, <3>1, <3>2
  <2>3. QED
    BY <2>1, <2>2
<1>5. ASSUME NEW d \in Consumers, ConsumerStep(d)
      PROVE  frame'[held'[c]] \in {0, got'[c]}
  <2>1. frame' = frame
    BY <1>5 DEF ConsumerStep, EnterNext, GetCurrent, Resume, CallerFrame, content
  <2>2. CASE UNCHANGED <<held, got>>
    BY <1>2, <2>1, <2>2
  <2>3. CASE TakeFrame(d)
    BY <1>1, <2>1, <2>3 DEF TakeFrame
  <2>4. QED
    BY <1>5, <2>2, <2>3 DEF ConsumerStep, EnterNext, GetCurrent, Resume, GoTo
<1>6. ASSUME NEW d \in Consumers, Release(d)
      PROVE  frame'[held'[c]] \in {0, got'[c]}
  BY <1>1, <1>6 DEF Release, content, history
<1>7. QED
  BY <1>2, <1>3, <1>4, <1>5, <1>6 DEF Next, GrabberStep, LoopHead, ReceiveBlob, ReceiveFail,
     ParseFail, Publish, Timeout, SpuriousWakeup, Destroy, Join, LinkLost, Gone, vars, object,
     content, history

\* The frame a call returned stays in the caller's handler: it is the frame that
\* was on offer, and none of the exchanges puts another one into its place.
THEOREM CallerHasItsFrame == Spec => []HoldsWhatItGot
<1>1. Init => HoldsWhatItGot
  BY DEF Init, HoldsWhatItGot
<1>2. QED
  BY <1>1, HoldsStep, Invariance, PTL DEF Spec

\* As long as a caller owns a handler nobody writes into it, neither the grabber
\* thread, which parses without the lock, nor another caller.
THEOREM FrameStaysAsReturned ==
  Spec => [][\A c \in Consumers :
               held[c] # NoHandler /\ held'[c] = held[c] =>
                 frame'[held[c]] = frame[held[c]] /\ held[c] \notin torn']_vars
<1>1. ASSUME IInv, IInv', [Next]_vars, NEW c \in Consumers,
             held[c] # NoHandler, held'[c] = held[c]
      PROVE  frame'[held[c]] = frame[held[c]] /\ held[c] \notin torn'
  <2>1. held[c] \notin torn'
    BY <1>1 DEF IInv, NoTornFrame
  <2>2. /\ held[c] \in Handlers /\ held[c] # stream /\ frame \in [Handlers -> 0..MaxFrames]
        /\ held \in [Consumers -> Handlers \cup {NoHandler}]
    BY <1>1 DEF IInv, TypeOK, HandlersExclusive
  <2>3. CASE UNCHANGED frame
    BY <2>1, <2>3
  <2>4. CASE ParseOk
    BY <2>1, <2>2, <2>4 DEF ParseOk
  <2>5. ASSUME NEW d \in Consumers, NEW kind \in Entering, Call(d, kind)
        PROVE  frame'[held[c]] = frame[held[c]]
    BY <1>1, <2>2, <2>5 DEF Call, InUse, content
  <2>6. QED
    BY <1>1, <2>1, <2>3, <2>4, <2>5 DEF Next, GrabberStep, LoopHead, ReceiveBlob, ReceiveFail,
       ParseFail, Publish, ConsumerStep, EnterNext, GetCurrent, Resume, CallerFrame, Timeout,
       SpuriousWakeup, Release, Destroy, Join, LinkLost, Gone, vars, object, content, history
<1>2. IInv /\ IInv' /\ [Next]_vars =>
        [\A c \in Consumers :
           held[c] # NoHandler /\ held'[c] = held[c] =>
             frame'[held[c]] = frame[held[c]] /\ held[c] \notin torn']_vars
  BY <1>1
<1>3. QED
  BY <1>2, Invariance, PTL DEF Spec

-----------------------------------------------------------------------------
(* What the mailbox means to the callers, carried over by the refinement.  *)

MailboxFacts == INSTANCE FrameMailboxProofs WITH
  newest <- published,
  slot   <- IF available THEN frame[shared] ELSE 0,
  got    <- got

LEMMA MailboxHolds == Spec => MailboxFacts!Spec
<1>1. Spec => Mailbox!Spec
  BY ImplementsMailbox DEF MailboxSpec
<1>2. Mailbox!Init => MailboxFacts!Init
  BY DEF Mailbox!Init, MailboxFacts!Init, Mailbox!Empty, MailboxFacts!Empty
<1>3. [Mailbox!Next]_(Mailbox!vars) => [MailboxFacts!Next]_(MailboxFacts!vars)
  BY DEF Mailbox!Next, MailboxFacts!Next, Mailbox!Publish, MailboxFacts!Publish,
     Mailbox!Discard, MailboxFacts!Discard, Mailbox!Take, MailboxFacts!Take,
     Mailbox!Empty, MailboxFacts!Empty, Mailbox!vars, MailboxFacts!vars
<1>4. QED
  BY <1>1, <1>2, <1>3, PTL DEF Mailbox!Spec, MailboxFacts!Spec

\* Each frame is given to one caller at most.
THEOREM FrameGoesToOne ==
  Spec => []\A c, d \in Consumers : c # d /\ got[c] # 0 => got[c] # got[d]
<1>1. MailboxFacts!Spec => [](MailboxFacts!LatestOnly /\ MailboxFacts!TakenOnce)
  BY MailboxFacts!OneTaker
<1>2. MailboxFacts!TakenOnce => \A c, d \in Consumers : c # d /\ got[c] # 0 => got[c] # got[d]
  BY DEF MailboxFacts!TakenOnce
<1>3. QED
  BY <1>1, <1>2, MailboxHolds, PTL

\* Frames are handed out in the order in which they were published: whoever gets
\* one gets a newer one than anybody has got before.
THEOREM FramesInOrder ==
  Spec => [][\A c, d \in Consumers : got'[c] # got[c] => got'[c] > got[d]]_vars
<1>1. MailboxFacts!Spec => MailboxFacts!TakesNewer
  BY MailboxFacts!InOrder
<1>2. Spec => [][\A c, d \in Consumers : got'[c] # got[c] => got'[c] > got[d]]_(MailboxFacts!vars)
  BY <1>1, MailboxHolds, PTL DEF MailboxFacts!TakesNewer
<1>3. [\A c, d \in Consumers : got'[c] # got[c] => got'[c] > got[d]]_(MailboxFacts!vars)
        => [\A c, d \in Consumers : got'[c] # got[c] => got'[c] > got[d]]_vars
  BY DEF MailboxFacts!vars
<1>4. QED
  BY <1>2, <1>3, PTL

-----------------------------------------------------------------------------
(* The end of the object.                                                  *)

\* The thread stops for the destructor only, and is outlived by it; calls are
\* over before it begins.
Ends ==
  /\ grabber = "stopped" => phase # "running"
  /\ phase = "destroyed" => grabber = "stopped"
  /\ phase # "running" => \A c \in Consumers : call[c] = "idle"

LEMMA EndsStep == IInv /\ Ends /\ [Next]_vars => Ends'
<1> SUFFICES ASSUME IInv, Ends, [Next]_vars PROVE Ends'
  OBVIOUS
<1>1. call \in [Consumers -> {"idle"} \cup Entering \cup Waiting]
  BY DEF IInv, TypeOK
<1>2. CASE LoopHead
  BY <1>2 DEF LoopHead, Ends
<1>3. CASE ReceiveBlob \/ ReceiveFail \/ ParseOk \/ ParseFail
  BY <1>3 DEF ReceiveBlob, ReceiveFail, ParseOk, ParseFail, object, Ends
<1>4. CASE Publish
  <2>1. phase' = phase /\ grabber = "publish" /\ grabber' = "loop"
    BY <1>4 DEF Publish
  <2>2. phase # "running" => call' = call
    BY <1>4 DEF Publish, NotifyOne, Ends
  <2>3. QED
    BY <2>1, <2>2 DEF Ends
<1>5. ASSUME NEW d \in Consumers, NEW kind \in Entering, Call(d, kind) PROVE Ends'
  BY <1>5 DEF Call, object, Ends
<1>6. ASSUME NEW d \in Consumers, ConsumerStep(d) PROVE Ends'
  <2>1. phase = "running" /\ UNCHANGED <<phase, grabber>>
    BY <1>6 DEF ConsumerStep, EnterNext, GetCurrent, Resume, CallerFrame, Ends
  <2>2. QED
    BY <2>1 DEF Ends
<1>7. ASSUME NEW d \in Consumers, Timeout(d) \/ SpuriousWakeup(d) PROVE Ends'
  BY <1>7 DEF Timeout, SpuriousWakeup, object, Ends
<1>8. ASSUME NEW d \in Consumers, Release(d) PROVE Ends'
  BY <1>8 DEF Release, object, Ends
<1>9. CASE Destroy \/ Join \/ LinkLost
  BY <1>9 DEF Destroy, Join, LinkLost, object, Ends
<1>10. CASE Gone \/ UNCHANGED vars
  BY <1>10 DEF Gone, vars, object, Ends
<1>11. QED
  BY <1>2, <1>3, <1>4, <1>5, <1>6, <1>7, <1>8, <1>9, <1>10 DEF Next, GrabberStep

LEMMA Ending == Spec => []Ends
<1>1. Init => Ends
  BY DEF Init, Ends
<1>2. QED
  BY <1>1, EndsStep, Invariance, PTL DEF Spec

\* When the destructor has returned, the thread has ended and no call is under
\* way: nobody is left who could touch the handlers, the mutex or the stream.
THEOREM NobodyLeftBehind ==
  Spec => [](phase = "destroyed" => grabber = "stopped" /\ \A c \in Consumers : call[c] = "idle")
<1>1. Ends => (phase = "destroyed" => grabber = "stopped" /\ \A c \in Consumers : call[c] = "idle")
  BY DEF Ends
<1>2. QED
  BY <1>1, Ending, PTL

\* How many steps the thread can still take after m_isRunning was cleared.
StepsLeft ==
  CASE grabber = "receive" -> 4
    [] grabber = "parse"   -> 3
    [] grabber = "publish" -> 2
    [] grabber = "loop"    -> 1
    [] grabber = "stopped" -> 0

\* The destructor waits for the blob at hand and no longer: once m_isRunning is
\* cleared every step of the thread brings it nearer to its end, whatever the
\* device sends, and it keeps trying to reconnect no more.
THEOREM ThreadWindsUp ==
  Spec => /\ [](StepsLeft \in 0..4)
          /\ [][phase = "joining" /\ (GrabberStep \/ grabber' # grabber) => StepsLeft' < StepsLeft]_vars
<1>1. IInv => StepsLeft \in 0..4
  BY DEF IInv, TypeOK, StepsLeft
<1>2. ASSUME GrabberStep, phase = "joining" PROVE StepsLeft' < StepsLeft
  BY <1>2 DEF GrabberStep, LoopHead, ReceiveBlob, ReceiveFail, ParseOk, ParseFail, Publish, StepsLeft
<1>3. ASSUME Next, ~ GrabberStep PROVE grabber' = grabber
  BY <1>3 DEF Next, Call, ConsumerStep, EnterNext, GetCurrent, Resume, CallerFrame, Timeout,
     SpuriousWakeup, Release, Destroy, Join, LinkLost, Gone, vars
<1>4. [Next]_vars =>
        [phase = "joining" /\ (GrabberStep \/ grabber' # grabber) => StepsLeft' < StepsLeft]_vars
  BY <1>2, <1>3
<1>5. QED
  BY <1>1, <1>4, Invariance, PTL DEF Spec
=============================================================================
