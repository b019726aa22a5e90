--------------------------- MODULE MCFrameGrabber ---------------------------
(* FrameGrabber on small instances.                                        *)
EXTENDS FrameGrabber

CONSTANT Patient  \* callers whose timeout is too long to ever pass

\* Which two handlers the grabber begins with makes no difference.
LiveInit ==
  /\ Init
  /\ stream = CHOOSE h \in Handlers : TRUE
  /\ shared = CHOOSE h \in Handlers : h # stream

LiveNext ==
  /\ Next
  /\ \A c \in Patient : call'[c] # "expired"

LiveSpec ==
  /\ LiveInit /\ [][LiveNext]_vars /\ Fairness
  /\ \A c \in Consumers \ Patient : WF_vars(Timeout(c))
=============================================================================
