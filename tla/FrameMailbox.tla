---------------------------- MODULE FrameMailbox ----------------------------
(***************************************************************************)
(* What the frame grabber promises to its callers: a mailbox with one slot *)
(* that holds at most one frame, always the newest one published, and from *)
(* which every frame is taken at most once.  Frames are numbered in the    *)
(* order in which they are published.                                      *)
(***************************************************************************)
EXTENDS Naturals

CONSTANT Consumers   \* the threads that ask for frames

VARIABLES
  newest,   \* number of the last frame published, 0 before the first one
  slot,     \* number of the frame on offer, 0 when the slot is empty
  got       \* got[c]: number of the last frame c took, 0 before its first

vars == <<newest, slot, got>>

Empty == 0

Init ==
  /\ newest = 0
  /\ slot = Empty
  /\ got = [c \in Consumers |-> 0]

\* A frame arrives.  One that nobody has taken yet is replaced.
Publish ==
  /\ newest' = newest + 1
  /\ slot' = newest + 1
  /\ UNCHANGED got

\* A caller that wants only frames newer than its call empties the slot.
Discard ==
  /\ slot' = Empty
  /\ UNCHANGED <<newest, got>>

Take(c) ==
  /\ slot # Empty
  /\ got' = [got EXCEPT ![c] = slot]
  /\ slot' = Empty
  /\ UNCHANGED newest

Next ==
  \/ Publish
  \/ Discard
  \/ \E c \in Consumers : Take(c)

Spec == Init /\ [][Next]_vars

-----------------------------------------------------------------------------
TypeOK ==
  /\ newest \in Nat
  /\ slot \in Nat
  /\ got \in [Consumers -> Nat]

\* The slot is empty or holds the newest frame, which nobody has seen.
LatestOnly ==
  slot # Empty => /\ slot = newest
                  /\ \A c \in Consumers : got[c] < slot

\* No two callers are given the same frame.
TakenOnce ==
  \A c, d \in Consumers : c # d /\ got[c] # 0 => got[c] # got[d]

\* A caller never gets a frame that is not newer than everything taken
\* before it, by itself or by another caller.
TakesNewer ==
  [][\A c, d \in Consumers : got'[c] # got[c] => got'[c] > got[d]]_vars
=============================================================================
