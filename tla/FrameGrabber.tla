---------------------------- MODULE FrameGrabber ----------------------------
(***************************************************************************)
(* FrameGrabberBase: a background thread receives frames from the device   *)
(* and offers the latest one to any number of calling threads.  No frame   *)
(* is copied.  Every frame lives in a data handler and the handlers go     *)
(* round: the grabber thread fills the stream's handler outside the lock,  *)
(* swaps it with the shared one inside the lock, and a caller swaps the    *)
(* handler it brought with the shared one, inside the lock too.            *)
(*                                                                         *)
(* A critical section of m_mutex is one step.  The work done without the   *)
(* lock (waiting for bytes, parsing into the stream's handler) and the     *)
(* wait on the condition variable, which gives the lock away, are split.   *)
(***************************************************************************)
EXTENDS Naturals

CONSTANTS
  Consumers,       \* the threads that call getNextFrame and getCurrentFrame
  Handlers,        \* the data handlers that can exist at one time
  NoHandler,       \* the null shared_ptr
  MaxFrames        \* bound: frames the device sends

ASSUME HandlersAssumption == NoHandler \notin Handlers
ASSUME FramesAssumption   == MaxFrames \in Nat

VARIABLES
  \* the FrameGrabberBase object
  phase,      \* "running" while m_isRunning, "joining" in the destructor, "destroyed"
  connected,  \* m_connectedThreadPrivate
  stream,     \* the handler owned by m_pDataStreamThreadPrivate
  shared,     \* m_pDataHandlerThreadShared
  available,  \* m_frameAvailableThreadShared
  \* the threads and the connection
  grabber,    \* where the grabber thread is
  call,       \* call[c]: where the thread c is in its call
  held,       \* held[c]: the handler the thread c owns
  linkUp,     \* the open connection still delivers what the device sends
  \* the contents of the handlers
  frame,      \* frame[h]: the frame h holds, 0 when it was never filled
  torn,       \* handlers whose content is incomplete
  \* history, read by the properties only
  published,  \* number of frames published so far
  got,        \* got[c]: the last frame given to c
  publishedAt \* publishedAt[c]: frames published when c began an onlyNewer call

object  == <<phase, connected, stream, shared, available>>
content == <<frame, torn>>
history == <<published, got, publishedAt>>
vars    == <<object, grabber, call, held, linkUp, content, history>>

Waiting == {"sleeping", "woken", "expired"}  \* inside wait_for
Entering == {"next", "newer", "current"}     \* about to take the lock

\* Handlers that some shared_ptr refers to.
InUse == {stream, shared} \cup {held[c] : c \in Consumers}

-----------------------------------------------------------------------------
(* The object after a constructor that did not throw: the stream is open,  *)
(* the thread was started.  A caller owns no handler yet.                  *)
Init ==
  /\ phase = "running"
  /\ connected = TRUE
  /\ stream \in Handlers
  /\ shared \in Handlers \ {stream}
  /\ available = FALSE
  /\ grabber = "loop"
  /\ call = [c \in Consumers |-> "idle"]
  /\ held = [c \in Consumers |-> NoHandler]
  /\ linkUp = TRUE
  /\ frame = [h \in Handlers |-> 0]
  /\ torn = {}
  /\ published = 0
  /\ got = [c \in Consumers |-> 0]
  /\ publishedAt = [c \in Consumers |-> 0]

-----------------------------------------------------------------------------
(* The grabber thread.  An operator whose comment begins with "Fault" is a *)
(* wrong version of the next one, which a named property must reject.      *)

\* Fault: the loop does not look at m_isRunning.
LoopForever ==
  /\ grabber = "loop"
  /\ grabber' = "receive"
  /\ UNCHANGED <<object, call, held, linkUp, content, history>>

\* The head of the loop in run(): stop, or reopen a connection that is
\* marked as lost (sleeping a second when that fails), or go on to receive.
LoopHead ==
  /\ grabber = "loop"
  /\ \/ /\ phase # "running"
        /\ grabber' = "stopped"
        /\ UNCHANGED <<connected, linkUp>>
     \/ /\ phase = "running"
        /\ \E open \in IF connected THEN {TRUE} ELSE BOOLEAN :
             /\ connected' = open
             /\ linkUp' = (linkUp \/ (~connected /\ open))
             /\ grabber' = IF open THEN "receive" ELSE "loop"
  /\ UNCHANGED <<phase, stream, shared, available, call, held, content, history>>

\* getNextFrame() has a complete packet and parses it into the handler.
ReceiveBlob ==
  /\ grabber = "receive"
  /\ linkUp
  /\ published < MaxFrames
  /\ grabber' = "parse"
  /\ torn' = torn \cup {stream}
  /\ UNCHANGED <<object, call, held, linkUp, frame, history>>

\* getNextFrame() returns false before it touched the handler: a receive
\* timeout, a connection that was closed, a packet that is not a blob.
ReceiveFail ==
  /\ grabber = "receive"
  /\ grabber' = "loop"
  /\ UNCHANGED <<object, call, held, linkUp, content, history>>

ParseOk ==
  /\ grabber = "parse"
  /\ grabber' = "publish"
  /\ frame' = [frame EXCEPT ![stream] = published + 1]
  /\ torn' = torn \ {stream}
  /\ UNCHANGED <<object, call, held, linkUp, history>>

\* Fault: the result of getNextFrame() is ignored.
ParseFailIgnored ==
  /\ grabber = "parse"
  /\ grabber' = "publish"
  /\ UNCHANGED <<object, call, held, linkUp, content, history>>

\* A malformed blob leaves the handler as far as it was parsed.  (XML that lacks a
\* part makes parseXML throw; nothing on the thread catches it and the program ends,
\* after which there is nothing to model.)
ParseFail ==
  /\ grabber = "parse"
  /\ grabber' = "loop"
  /\ UNCHANGED <<object, call, held, linkUp, content, history>>

\* Fault: nobody is notified.
NotifyNobody == UNCHANGED call

\* notify_one: one of the threads blocked in wait_for, if there is one.
NotifyOne ==
  LET sleepers == {c \in Consumers : call[c] = "sleeping"} IN
  \/ sleepers = {} /\ UNCHANGED call
  \/ \E c \in sleepers : call' = [call EXCEPT ![c] = "woken"]

\* Fault: the stream keeps the handler it has just put on offer.
PublishKeepsHandler ==
  /\ grabber = "publish"
  /\ grabber' = "loop"
  /\ available' = TRUE
  /\ shared' = stream
  /\ NotifyOne
  /\ published' = published + 1
  /\ UNCHANGED <<phase, connected, stream, held, linkUp, content, got,
                 publishedAt>>

\* The grabber's critical section: offer the frame, take back the handler
\* that was on offer, wake one caller.
Publish ==
  /\ grabber = "publish"
  /\ grabber' = "loop"
  /\ available' = TRUE
  /\ shared' = stream
  /\ stream' = shared
  /\ NotifyOne
  /\ published' = published + 1
  /\ UNCHANGED <<phase, connected, held, linkUp, content, got, publishedAt>>

GrabberStep ==
  LoopHead \/ ReceiveBlob \/ ReceiveFail \/ ParseOk \/ ParseFail \/ Publish

-----------------------------------------------------------------------------
(* The calling threads.                                                    *)

\* The beginning of genGetNextFrame and genGetCurrentFrame, before the lock:
\* a null pointer gets a new handler.
Call(c, kind) ==
  /\ phase = "running"
  /\ call[c] = "idle"
  /\ call' = [call EXCEPT ![c] = kind]
  /\ \/ /\ held[c] # NoHandler
        /\ UNCHANGED <<held, content>>
     \/ /\ held[c] = NoHandler
        /\ \E h \in Handlers \ InUse :
             /\ held' = [held EXCEPT ![c] = h]
             /\ frame' = [frame EXCEPT ![h] = 0]
             /\ torn' = torn \ {h}
  /\ publishedAt' = [publishedAt EXCEPT ![c] = IF kind = "newer" THEN published ELSE 0]
  /\ UNCHANGED <<object, grabber, linkUp, published, got>>

\* The exchange of handlers with which a call returns true.
TakeFrame(c) ==
  /\ available' = FALSE
  /\ held' = [held EXCEPT ![c] = shared]
  /\ shared' = held[c]
  /\ call' = [call EXCEPT ![c] = "idle"]
  /\ got' = [got EXCEPT ![c] = frame[shared]]

\* The call returns false, or goes (back) to sleep.
GoTo(c, place) ==
  /\ call' = [call EXCEPT ![c] = place]
  /\ UNCHANGED <<shared, held, got>>

\* What a critical section of a caller leaves alone.
CallerFrame ==
  UNCHANGED <<phase, connected, stream, grabber, linkUp, content,
              published, publishedAt>>

\* Fault: onlyNewer does not forget the frame on offer.
EnterNextAnyFrame(c) ==
  /\ call[c] \in {"next", "newer"}
  /\ IF available THEN TakeFrame(c) ELSE UNCHANGED available /\ GoTo(c, "sleeping")
  /\ CallerFrame

\* genGetNextFrame takes the lock, forgets the frame on offer if only newer
\* ones are wanted, and evaluates the predicate of wait_for.
EnterNext(c) ==
  /\ call[c] \in {"next", "newer"}
  /\ IF available /\ call[c] = "next"
       THEN TakeFrame(c)
       ELSE available' = FALSE /\ GoTo(c, "sleeping")
  /\ CallerFrame

\* Fault: the flag is not checked.
GetCurrentUnchecked(c) ==
  /\ call[c] = "current"
  /\ TakeFrame(c)
  /\ CallerFrame

\* genGetCurrentFrame never waits.
GetCurrent(c) ==
  /\ call[c] = "current"
  /\ IF available THEN TakeFrame(c) ELSE UNCHANGED available /\ GoTo(c, "idle")
  /\ CallerFrame

\* The waiting thread has the lock again and looks at the flag: after the
\* deadline the call returns whatever it finds.
Resume(c) ==
  /\ call[c] \in {"woken", "expired"}
  /\ IF available
       THEN TakeFrame(c)
       ELSE /\ UNCHANGED available
            /\ GoTo(c, IF call[c] = "expired" THEN "idle" ELSE "sleeping")
  /\ CallerFrame

\* The deadline of wait_for, fixed when the wait began, has passed.
Timeout(c) ==
  /\ call[c] \in {"sleeping", "woken"}
  /\ call' = [call EXCEPT ![c] = "expired"]
  /\ UNCHANGED <<object, grabber, held, linkUp, content, history>>

\* A condition variable may wake a thread for no reason.
SpuriousWakeup(c) ==
  /\ call[c] = "sleeping"
  /\ call' = [call EXCEPT ![c] = "woken"]
  /\ UNCHANGED <<object, grabber, held, linkUp, content, history>>

\* The caller drops its pointer between two calls.
Release(c) ==
  /\ call[c] = "idle"
  /\ held[c] # NoHandler
  /\ held' = [held EXCEPT ![c] = NoHandler]
  /\ UNCHANGED <<object, grabber, call, linkUp, content, history>>

ConsumerStep(c) == EnterNext(c) \/ GetCurrent(c) \/ Resume(c)

-----------------------------------------------------------------------------
(* The destructor, which may not run while a call is in progress, and the  *)
(* connection.                                                             *)
Destroy ==
  /\ phase = "running"
  /\ \A c \in Consumers : call[c] = "idle"
  /\ phase' = "joining"
  /\ UNCHANGED <<connected, stream, shared, available, grabber, call, held,
                 linkUp, content, history>>

Join ==
  /\ phase = "joining"
  /\ grabber = "stopped"
  /\ phase' = "destroyed"
  /\ UNCHANGED <<connected, stream, shared, available, grabber, call, held,
                 linkUp, content, history>>

\* The device or the network drops the connection.
LinkLost ==
  /\ linkUp
  /\ linkUp' = FALSE
  /\ UNCHANGED <<object, grabber, call, held, content, history>>

\* Nothing is left to happen once the object is gone.
Gone ==
  /\ phase = "destroyed"
  /\ UNCHANGED vars

Next ==
  \/ GrabberStep
  \/ \E c \in Consumers : \E kind \in Entering : Call(c, kind)
  \/ \E c \in Consumers : ConsumerStep(c)
  \/ \E c \in Consumers : Timeout(c)
  \/ \E c \in Consumers : SpuriousWakeup(c)
  \/ \E c \in Consumers : Release(c)
  \/ Destroy
  \/ Join
  \/ LinkLost
  \/ Gone

Spec == Init /\ [][Next]_vars

\* Both threads are scheduled, every receive ends (SO_RCVTIMEO) and every
\* critical section is left again.
Fairness ==
  /\ WF_vars(GrabberStep)
  /\ WF_vars(Join)
  /\ \A c \in Consumers : WF_vars(ConsumerStep(c))

\* Deadlines pass, and the device accepts a new connection whenever one is tried
\* often enough.
ReachableSpec ==
  /\ Spec /\ Fairness
  /\ \A c \in Consumers : WF_vars(Timeout(c))
  /\ SF_vars(LoopHead /\ linkUp')

-----------------------------------------------------------------------------
(* Properties.                                                             *)

TypeOK ==
  /\ phase \in {"running", "joining", "destroyed"}
  /\ connected \in BOOLEAN
  /\ stream \in Handlers
  /\ shared \in Handlers
  /\ available \in BOOLEAN
  /\ grabber \in {"loop", "receive", "parse", "publish", "stopped"}
  /\ call \in [Consumers -> {"idle"} \cup Entering \cup Waiting]
  /\ held \in [Consumers -> Handlers \cup {NoHandler}]
  /\ linkUp \in BOOLEAN
  /\ frame \in [Handlers -> 0..MaxFrames]
  /\ torn \subseteq Handlers
  /\ published \in 0..MaxFrames
  /\ got \in [Consumers -> 0..MaxFrames]
  /\ publishedAt \in [Consumers -> 0..MaxFrames]

\* The handler the grabber thread writes without the lock, the one on offer
\* and the ones the callers own are all different objects, so nobody reads or
\* swaps a handler while it is being filled.
HandlersExclusive ==
  /\ stream # shared
  /\ \A c \in Consumers :
       /\ held[c] \notin {stream, shared}
       /\ \A d \in Consumers : c # d /\ held[c] # NoHandler => held[c] # held[d]

\* A thread inside a call owns a handler to give in exchange, so the shared
\* pointer never becomes null.
CallerHasHandler ==
  \A c \in Consumers : call[c] # "idle" => held[c] # NoHandler

\* No incompletely parsed frame is ever on offer or in a caller's hands.
NoTornFrame ==
  /\ shared \notin torn
  /\ \A c \in Consumers : held[c] \notin torn

\* While a frame is on offer and threads sleep in wait_for, at least one
\* thread is on its way to the frame: the single notify_one is never lost.
WakeupNotLost ==
  available /\ (\E c \in Consumers : call[c] = "sleeping")
    => \E c \in Consumers : call[c] \in {"woken", "expired"}

\* What is on offer is the newest frame and nobody has seen it.
OfferedIsNewest ==
  available => /\ frame[shared] = published
               /\ \A c \in Consumers : got[c] < published

\* What the grabber thread has in hand: only the stream's handler can be
\* incomplete, and a frame that waits for the lock is complete and the next one.
GrabberHasFrame ==
  /\ torn \subseteq {stream}
  /\ grabber \in {"parse", "publish"} => published < MaxFrames
  /\ grabber = "publish" => torn = {} /\ frame[stream] = published + 1

\* The history cannot run ahead of the frames published, and a frame on offer
\* is newer than every call that could take it.
HistoryBehind ==
  \A c \in Consumers :
    /\ got[c] <= published
    /\ publishedAt[c] <= published
    /\ available /\ call[c] \notin {"idle", "newer"} => publishedAt[c] < published

\* The inductive invariant.
IInv ==
  /\ TypeOK
  /\ HandlersExclusive
  /\ CallerHasHandler
  /\ NoTornFrame
  /\ WakeupNotLost
  /\ OfferedIsNewest
  /\ GrabberHasFrame
  /\ HistoryBehind

\* A call with onlyNewer never returns a frame that had been published when
\* the call began.
NewerThanCall ==
  [][\A c \in Consumers : got'[c] # got[c] => got'[c] > publishedAt[c]]_vars

\* The grabber implements the mailbox.
Mailbox == INSTANCE FrameMailbox WITH
  newest <- published,
  slot   <- IF available THEN frame[shared] ELSE 0,
  got    <- got

MailboxSpec == Mailbox!Spec

\* A frame on offer does not lie there while somebody waits for one, even if
\* no deadline ever wakes the waiting thread.
WaiterServed ==
  (available /\ \E c \in Consumers : call[c] \in Waiting) ~> ~available

\* The destructor returns: the grabber thread notices m_isRunning.
DestructorReturns == phase = "joining" ~> phase = "destroyed"

\* The class doc of FrameGrabber: it "handles automatically reconnects in case
\* of connection issues".
Reconnects == phase = "running" /\ ~linkUp ~> phase # "running" \/ linkUp
=============================================================================
