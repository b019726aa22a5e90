----------------------------- MODULE RemoteCall -----------------------------
(***************************************************************************)
(* What a connection to a device promises: requests are numbered in the    *)
(* order they are made, the device executes each at most once and in that  *)
(* order, possibly after its caller has given up, and a call returns an    *)
(* error or the answer to its own request, which was executed.             *)
(***************************************************************************)
EXTENDS Naturals, Sequences

VARIABLES
  busy,      \* a call waits for its answer
  issued,    \* number of requests made
  executed,  \* the requests executed, in this order
  answers    \* answers[n]: the request whose answer call n returned, 0 for none

vars == <<busy, issued, executed, answers>>

Init ==
  /\ busy = FALSE
  /\ issued = 0
  /\ executed = <<>>
  /\ answers = <<>>

Begin ==
  /\ ~busy
  /\ busy' = TRUE
  /\ issued' = issued + 1
  /\ UNCHANGED <<executed, answers>>

\* Requests may be skipped: refused, or lost with the connection.
Execute ==
  /\ \E n \in 1..issued :
       /\ \A i \in 1..Len(executed) : executed[i] < n
       /\ executed' = Append(executed, n)
  /\ UNCHANGED <<busy, issued, answers>>

Return ==
  /\ busy
  /\ busy' = FALSE
  /\ \/ answers' = Append(answers, 0)
     \/ /\ \E i \in 1..Len(executed) : executed[i] = issued
        /\ answers' = Append(answers, issued)
  /\ UNCHANGED <<issued, executed>>

\* A request that could not be sent.
Fail ==
  /\ ~busy
  /\ issued' = issued + 1
  /\ answers' = Append(answers, 0)
  /\ UNCHANGED <<busy, executed>>

Next == Begin \/ Execute \/ Return \/ Fail

Spec == Init /\ [][Next]_vars
=============================================================================
