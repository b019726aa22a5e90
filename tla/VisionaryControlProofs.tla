----------------------- MODULE VisionaryControlProofs -----------------------
(***************************************************************************)
(* Theorems about VisionaryControl for any number of connections and any   *)
(* sequence of calls.                                                      *)
(***************************************************************************)
EXTENDS VisionaryControl, TLAPS

USE MaxConnectionsAssumption

Types ==
  /\ made \in Nat
  /\ transport \in Nat /\ handler \in Nat /\ session \in Nat /\ auth \in Nat
  /\ handler <= made
  /\ login \in Nat /\ login <= made
  /\ executedOn \in Seq(Nat)

\* The four objects: the handler always goes with its transport, the other two
\* may be left over from before.
Objects == handler = transport /\ TransportMeansOpen

Closed ==
  closed => /\ handler = 0 /\ session = 0 /\ auth = 0
            /\ executedOn = <<>>
            /\ at \notin {"reopen", "retry"}

\* Where the command under way has been executed so far.
Executions ==
  /\ \A i \in 1..Len(executedOn) : executedOn[i] <= made
  /\ op = "none" => at = "returned" /\ executedOn = <<>>
  /\ at = "command" => executedOn = <<>>
  /\ at = "reopen" => Len(executedOn) <= 1 /\ result \in Broken
  /\ at = "retry" => /\ Len(executedOn) <= 1 /\ handler = made /\ handler # 0
                     /\ \A i \in 1..Len(executedOn) : executedOn[i] < made
  /\ ExecutedOncePerConnection

\* A careful application: the objects all go together and nothing replaces them
\* during a call.
Careful ==
  careful => /\ fault = "none"
             /\ ~autoReconnect
             /\ session = handler /\ auth = handler
             /\ at \notin {"reopen", "retry"}
             /\ op = "login" => self = auth

\* What the device has granted, while a login holds and as its last command
\* returns, if it has not forgotten the session since.
LevelStep == step \in {"level1", "level2"}

Granted == login # 0 /\ login = handler /\ InStep /\ known => level = "user"

Levels ==
  /\ login # 0 => op \in {"none", "send"}
  /\ op = "send" => step = "none"
  /\ at = "reopen" => autoReconnect
  /\ login # 0 /\ ~autoReconnect => login = handler
  /\ family = "CoLaB" => known = TRUE
  /\ Granted
  /\ op = "login" /\ at = "returned" /\ LevelStep /\ result = "success" /\ InStep /\ known =>
       level = "user"

IInv == Types /\ Objects /\ Closed /\ Executions /\ Careful /\ Levels

LEMMA InitIInv == Init => IInv
  BY DEF Init, IInv, Types, Objects, TransportMeansOpen, Closed, Executions,
         ExecutedOncePerConnection, Careful, Levels, Granted

LEMMA StutterIInv == IInv /\ UNCHANGED vars => IInv'
  BY DEF vars, objects, place, device, history, IInv, Types, Objects, TransportMeansOpen,
         Closed, Executions, ExecutedOncePerConnection, Careful, Levels, LevelStep,
         Granted, InStep

\* open, called by the application: no command is under way.
LEMMA OpenIInv == ASSUME NEW reconnect \in BOOLEAN, IInv, Open(reconnect) PROVE IInv'
<1>1. Types'
  BY DEF Open, OpenFails, OpenSucceeds, Idle, IInv, Types
<1>2. Objects'
  BY DEF Open, OpenFails, OpenSucceeds, IInv, Objects, TransportMeansOpen
<1>3. at = "returned" /\ executedOn = <<>> /\ UNCHANGED <<op, at, step, executedOn, self>> /\ op = "none"
  BY DEF Open, Idle, IInv, Executions, place
<1>4. Closed' /\ Executions'
  BY <1>3 DEF Open, Closed, Executions, ExecutedOncePerConnection
<1>5. Careful'
  <2> SUFFICES ASSUME careful' PROVE Careful'
    BY DEF Careful
  <2>1. careful /\ ~reconnect /\ auth = 0
    BY DEF Open
  <2>2. ~autoReconnect' /\ fault' = "none"
    BY <2>1 DEF Open, Idle
  <2>3. session = 0 /\ handler = 0
    BY <2>1 DEF IInv, Careful
  <2>4. session' = handler' /\ auth' = handler'
    BY <2>1, <2>3 DEF Open, OpenFails, OpenSucceeds
  <2>5. QED
    BY <1>3, <2>2, <2>4 DEF Careful
<1>6. Levels'
  <2>1. login' = 0 /\ family' = family
    BY DEF Open
  <2>2. family = "CoLaB" => known' = TRUE
    BY DEF Open, OpenFails, OpenSucceeds, device, IInv, Levels
  <2>3. QED
    BY <1>3, <2>1, <2>2 DEF Levels, Granted
<1>7. QED
  BY <1>1, <1>2, <1>4, <1>5, <1>6 DEF IInv

\* The calls of the application that begin with a command, or find nothing to
\* send it with.
LEMMA CallIInv == IInv /\ (Send \/ Login \/ Logout \/ Close) => IInv'
<1> SUFFICES ASSUME IInv, Send \/ Login \/ Logout \/ Close PROVE IInv'
  OBVIOUS
<1>1. UNCHANGED <<family, objects, autoReconnect, made, device, closed>>
  BY DEF Send, Login, Logout, Close, Call, Missing, place
<1>2. op = "none" /\ at = "returned" /\ executedOn = <<>> /\ fault = "none"
  BY DEF Send, Login, Logout, Close, Idle, IInv, Executions
<1>3. executedOn' = <<>> /\ at' \in {"command", "finish", "returned"}
      /\ (op' = "none" => at' = "returned")
      /\ (at' = "returned" => op' = "none")
  BY <1>2 DEF Send, Login, Logout, Close, Call, Missing, place
<1>4. \/ login' = login /\ op' \in {"none", "send"} /\ (op' = "send" => step' = "none")
      \/ login' = 0 /\ op' # "send"
  BY <1>2 DEF Send, Login, Logout, Close, Call, Missing, place
<1>5. Types' /\ Objects' /\ Closed'
  BY <1>1, <1>3, <1>4 DEF objects, IInv, Types, Objects, TransportMeansOpen, Closed
<1>6. Executions'
  BY <1>3 DEF Executions, ExecutedOncePerConnection
<1>7. Careful'
  BY <1>1, <1>2, <1>3 DEF Send, Login, Logout, Close, Call, Missing, objects, IInv, Careful
<1>8. Levels'
  BY <1>1, <1>3, <1>4 DEF objects, device, IInv, Levels, LevelStep, Granted, InStep
<1>9. QED
  BY <1>5, <1>6, <1>7, <1>8 DEF IInv

\* One execution: on the handler in use or not at all.
LEMMA ExecutedOrNot ==
  ASSUME Types, (\E accepted \in BOOLEAN : Executed(accepted)) \/ NotExecuted
  PROVE  /\ executedOn' \in Seq(Nat)
         /\ \/ executedOn' = executedOn
            \/ /\ Len(executedOn') = Len(executedOn) + 1
               /\ Last(executedOn') = handler
               /\ executedOn'[Len(executedOn) + 1] = handler
               /\ \A i \in 1..Len(executedOn) : executedOn'[i] = executedOn[i]
  BY DEF Executed, NotExecuted, Types, Last

\* A command of sendCommand's other callers leaves the user level alone.
LEMMA LevelKept ==
  ASSUME (\E accepted \in BOOLEAN : Executed(accepted)) \/ NotExecuted,
         op = "send", step = "none"
  PROVE  level' = level
  BY DEF Executed, NotExecuted, LevelAfter

\* One exchange: an answer in step is that of a command executed on the handler
\* in use, and it tells what became of the user level.
LEMMA Exchanged ==
  ASSUME NEW r \in Results, Types, Exchange(r)
  PROVE  /\ executedOn' \in Seq(Nat)
         /\ result' = r
         /\ \/ executedOn' = executedOn /\ (r \in Broken \/ ~InStep)
            \/ /\ Len(executedOn') = Len(executedOn) + 1
               /\ Last(executedOn') = handler
               /\ executedOn'[Len(executedOn) + 1] = handler
               /\ \A i \in 1..Len(executedOn) : executedOn'[i] = executedOn[i]
         /\ unanswered => unanswered'
         /\ known' = known
         /\ op = "send" /\ step = "none" => level' = level
         /\ r = "success" /\ InStep /\ LevelStep => level' = "user"
<1>1. (\E accepted \in BOOLEAN : Executed(accepted)) \/ NotExecuted
  BY DEF Exchange
<1>2. NotExecuted => executedOn' = executedOn
  BY DEF NotExecuted
<1>3. ASSUME NEW accepted \in BOOLEAN, Executed(accepted)
      PROVE  /\ Len(executedOn') = Len(executedOn) + 1
             /\ Last(executedOn') = handler
             /\ executedOn'[Len(executedOn) + 1] = handler
             /\ \A i \in 1..Len(executedOn) : executedOn'[i] = executedOn[i]
  BY <1>3 DEF Executed, Types, Last
<1>4. NotExecuted => r \in Broken \/ ~InStep \/ Executed(r = "success")
  BY DEF Exchange, Broken
<1>5. r = "success" /\ InStep => Executed(TRUE)
  BY DEF Exchange
<1>6. Executed(TRUE) /\ LevelStep => level' = "user"
  BY DEF Executed, LevelAfter, LevelStep
<1>7. result' = r /\ (unanswered => unanswered') /\ known' = known
  BY DEF Exchange
<1>8. (r = "success") \in BOOLEAN
  OBVIOUS
<1>9. \/ executedOn' = executedOn /\ (r \in Broken \/ ~InStep)
      \/ /\ Len(executedOn') = Len(executedOn) + 1
         /\ Last(executedOn') = handler
         /\ executedOn'[Len(executedOn) + 1] = handler
         /\ \A i \in 1..Len(executedOn) : executedOn'[i] = executedOn[i]
  BY <1>1, <1>2, <1>3, <1>4, <1>8
<1>10. QED
  BY <1>1, <1>5, <1>6, <1>7, <1>9, ExecutedOrNot, LevelKept

\* The level and the login after an exchange, in a call that was under way.
LEMMA ExchangedLevels ==
  ASSUME NEW r \in Results, Types, Levels, Exchange(r), op # "none",
         UNCHANGED <<family, handler, autoReconnect, op, step, login>>,
         at' = "reopen" => autoReconnect
  PROVE  Levels'
<1>1. /\ result' = r /\ (unanswered => unanswered') /\ known' = known
      /\ op = "send" /\ step = "none" => level' = level
      /\ r = "success" /\ InStep /\ LevelStep => level' = "user"
  BY Exchanged
<1>2. InStep' => InStep
  BY <1>1 DEF InStep
<1>3. login # 0 => op = "send" /\ step = "none"
  BY DEF Levels
<1>4. Granted'
  BY <1>1, <1>2, <1>3 DEF Levels, Granted
<1>5. QED
  BY <1>1, <1>2, <1>3, <1>4 DEF Levels, LevelStep

LEMMA CommandIInv == IInv /\ Command => IInv'
<1> SUFFICES ASSUME IInv, Command PROVE IInv'
  OBVIOUS
<1>1. /\ at = "command" /\ fault = "none" /\ executedOn = <<>>
      /\ UNCHANGED <<family, objects, autoReconnect, made, op, step, self, history>>
  BY DEF Command, IInv, Executions
<1>2. op # "none"
  BY <1>1 DEF IInv, Executions
<1>3. CASE session = 0
  <2>1. result' = "error" /\ at' = "returned" /\ UNCHANGED <<executedOn, device, fault>>
    BY <1>3 DEF Command
  <2>2. Levels'
    BY <1>1, <2>1 DEF objects, device, history, IInv, Levels, LevelStep, Granted, InStep
  <2>3. QED
    BY <1>1, <1>2, <2>1, <2>2 DEF objects, history, IInv, Types, Objects,
       TransportMeansOpen, Closed, Executions, ExecutedOncePerConnection, Careful
<1>4. ASSUME session # 0, session = handler, NEW r \in Results, Exchange(r),
             at' = IF autoReconnect /\ r \in Broken THEN "reopen" ELSE "returned",
             UNCHANGED fault
      PROVE  IInv'
  <2>1. ~closed
    BY <1>4 DEF IInv, Closed
  <2>2. /\ executedOn' \in Seq(Nat) /\ result' = r
        /\ \/ executedOn' = <<>> /\ (r \in Broken \/ ~InStep)
           \/ Len(executedOn') = 1 /\ executedOn'[1] = handler /\ Last(executedOn') = handler
        /\ (unanswered => unanswered')
    BY <1>1, <1>4, Exchanged DEF IInv
  <2>3. Types' /\ Objects' /\ Closed'
    BY <1>1, <1>4, <2>1, <2>2 DEF objects, history, IInv, Types, Objects,
       TransportMeansOpen, Closed
  <2>4. Executions'
    <3>1. handler <= made' /\ handler' = handler /\ op' # "none" /\ (InStep' => InStep)
      BY <1>1, <1>2, <2>2 DEF objects, IInv, Types, InStep
    <3>2. at' \in {"reopen", "returned"} /\ (at' = "reopen" => r \in Broken)
      BY <1>4
    <3>3. CASE executedOn' = <<>> /\ (r \in Broken \/ ~InStep)
      BY <2>2, <3>1, <3>2, <3>3 DEF Executions, ExecutedOncePerConnection, Broken
    <3>4. CASE Len(executedOn') = 1 /\ executedOn'[1] = handler /\ Last(executedOn') = handler
      <4>1. \A i \in 1..Len(executedOn') : executedOn'[i] <= made'
        BY <3>1, <3>4
      <4>2. ExecutedOncePerConnection'
        BY <3>1, <3>4 DEF ExecutedOncePerConnection
      <4>3. QED
        BY <2>2, <3>1, <3>2, <3>4, <4>1, <4>2 DEF Executions
    <3>5. QED
      BY <2>2, <3>3, <3>4
  <2>5. Careful'
    BY <1>1, <1>4 DEF objects, history, IInv, Careful
  <2>6. Levels'
    BY <1>1, <1>2, <1>4, ExchangedLevels DEF objects, history, IInv
  <2>7. QED
    BY <2>3, <2>4, <2>5, <2>6 DEF IInv
<1>5. CASE session # 0 /\ session = handler /\ ReadsForEver /\ UNCHANGED fault
  <2>1. ~closed /\ at' = "hung" /\ UNCHANGED <<result, unanswered>>
    BY <1>5 DEF IInv, Closed, ReadsForEver
  <2>2. /\ executedOn' \in Seq(Nat)
        /\ \/ executedOn' = <<>>
           \/ Len(executedOn') = 1 /\ executedOn'[1] = handler /\ Last(executedOn') = handler
    BY <1>1, <1>5, ExecutedOrNot DEF IInv, ReadsForEver
  <2>3. Types' /\ Objects' /\ Closed' /\ Careful'
    BY <1>1, <1>5, <2>1, <2>2 DEF objects, history, IInv, Types, Objects,
       TransportMeansOpen, Closed, Careful
  <2>4. handler <= made' /\ handler' = handler /\ op' # "none" /\ ~InStep'
    BY <1>1, <1>2, <1>5, <2>1 DEF objects, IInv, Types, InStep, ReadsForEver
  <2>5. Executions'
    <3>1. CASE executedOn' = <<>>
      BY <2>1, <2>4, <3>1 DEF Executions, ExecutedOncePerConnection
    <3>2. CASE Len(executedOn') = 1 /\ executedOn'[1] = handler
      BY <2>1, <2>2, <2>4, <3>2 DEF Executions, ExecutedOncePerConnection
    <3>3. QED
      BY <2>2, <3>1, <3>2
  <2>6. Levels'
    BY <1>1, <1>5, <2>1, <2>4 DEF ReadsForEver, history, IInv, Levels, Granted
  <2>7. QED
    BY <2>3, <2>5, <2>6 DEF IInv
<1>6. CASE session # 0 /\ session # handler
  <2>1. UNCHANGED <<at, result, executedOn, device>> /\ ~closed /\ ~careful
    BY <1>6 DEF Command, IInv, Closed, Careful
  <2>2. Levels'
    BY <1>1, <2>1 DEF objects, device, history, IInv, Levels, LevelStep, Granted, InStep
  <2>3. ExecutedOncePerConnection'
    BY <1>1, <2>1 DEF ExecutedOncePerConnection
  <2>4. QED
    BY <1>1, <1>2, <2>1, <2>2, <2>3 DEF objects, history, IInv, Types, Objects,
       TransportMeansOpen, Closed, Executions, Careful
<1>7. QED
  BY <1>3, <1>4, <1>5, <1>6 DEF Command

LEMMA ReopenIInv == IInv /\ Reopen => IInv'
<1> SUFFICES ASSUME IInv, Reopen PROVE IInv'
  OBVIOUS
<1>1. /\ at = "reopen" /\ ~closed /\ ~careful
      /\ UNCHANGED <<family, autoReconnect, op, step, self, result, executedOn, history, fault>>
  BY DEF Reopen, IInv, Closed, Careful
<1>2. Types' /\ Objects' /\ Closed' /\ Careful'
  BY <1>1 DEF Reopen, OpenFails, OpenSucceeds, history, IInv, Types, Objects,
     TransportMeansOpen, Closed, Careful
<1>3. op # "none" /\ Len(executedOn) <= 1 /\ result \in Broken /\ \A i \in 1..Len(executedOn) : executedOn[i] <= made
  BY <1>1 DEF IInv, Executions
<1>4. Levels'
  <2>1. result' # "success"
    BY <1>1, <1>3 DEF Broken
  <2>2. login' = login /\ (login # 0 => handler' # login)
    BY <1>1 DEF Reopen, OpenFails, OpenSucceeds, history, IInv, Types
  <2>3. at' # "reopen" /\ autoReconnect /\ (family = "CoLaB" => known' = TRUE)
    BY <1>1 DEF Reopen, OpenFails, OpenSucceeds, device, IInv, Levels
  <2>4. QED
    BY <1>1, <2>1, <2>2, <2>3 DEF history, IInv, Levels, Granted
<1>5. CASE OpenFails /\ at' = "returned"
  <2>1. result' \in Broken /\ made' = made
    BY <1>1, <1>3, <1>5 DEF OpenFails
  <2>2. ExecutedOncePerConnection'
    BY <1>1, <1>3, <2>1 DEF ExecutedOncePerConnection, Broken, IInv, Executions
  <2>3. QED
    BY <1>1, <1>2, <1>3, <1>4, <1>5, <2>1, <2>2 DEF IInv, Executions
<1>6. CASE OpenSucceeds /\ at' = "retry"
  <2>1. made' = made + 1 /\ handler' = made'
    BY <1>6 DEF OpenSucceeds
  <2>2. Executions'
    BY <1>1, <1>3, <1>6, <2>1 DEF IInv, Types, Executions, ExecutedOncePerConnection
  <2>3. QED
    BY <1>2, <1>4, <2>2 DEF IInv
<1>7. QED
  BY <1>5, <1>6 DEF Reopen

LEMMA RetryIInv == IInv /\ Retry => IInv'
<1> SUFFICES ASSUME IInv, Retry PROVE IInv'
  OBVIOUS
<1>1. PICK r \in Results : Exchange(r) /\ at' = "returned"
  BY DEF Retry
<1>2. /\ at = "retry" /\ ~closed /\ ~careful
      /\ UNCHANGED <<family, objects, autoReconnect, made, op, step, self, history, fault>>
  BY DEF Retry, IInv, Closed, Careful
<1>3. /\ op # "none" /\ Len(executedOn) <= 1 /\ handler = made
      /\ \A i \in 1..Len(executedOn) : executedOn[i] < made
  BY <1>2 DEF IInv, Executions
<1>4. /\ executedOn' \in Seq(Nat) /\ result' = r
      /\ \/ executedOn' = executedOn /\ (r \in Broken \/ ~InStep)
         \/ /\ Len(executedOn') = Len(executedOn) + 1
            /\ Last(executedOn') = handler
            /\ executedOn'[Len(executedOn) + 1] = handler
            /\ \A i \in 1..Len(executedOn) : executedOn'[i] = executedOn[i]
      /\ (unanswered => unanswered')
  BY <1>1, Exchanged DEF IInv
<1>5. Types' /\ Objects' /\ Closed' /\ Careful'
  BY <1>2, <1>4 DEF objects, history, IInv, Types, Objects, TransportMeansOpen, Closed,
     Careful
<1>6. Executions'
  <2>1. InStep' => InStep
    BY <1>2, <1>4 DEF InStep
  <2>2. CASE executedOn' = executedOn /\ (r \in Broken \/ ~InStep)
    BY <1>1, <1>2, <1>3, <1>4, <2>1, <2>2 DEF objects, IInv, Types, Executions,
       ExecutedOncePerConnection, Broken
  <2>3. CASE /\ Len(executedOn') = Len(executedOn) + 1
             /\ Last(executedOn') = handler
             /\ executedOn'[Len(executedOn) + 1] = handler
             /\ \A i \in 1..Len(executedOn) : executedOn'[i] = executedOn[i]
    BY <1>1, <1>2, <1>3, <1>4, <2>3 DEF objects, IInv, Types, Executions,
       ExecutedOncePerConnection
  <2>4. QED
    BY <1>4, <2>2, <2>3
<1>7. Levels'
  BY <1>1, <1>2, <1>3, ExchangedLevels DEF objects, history, IInv
<1>8. QED
  BY <1>5, <1>6, <1>7 DEF IInv

\* What the callers of sendCommand do with its result.
LEMMA GoingIInv == IInv /\ Going => IInv'
<1> SUFFICES ASSUME IInv, Going PROVE IInv'
  OBVIOUS
<1>1. CASE SendReturns
  <2>1. UNCHANGED <<family, objects, autoReconnect, made, device, history>>
        /\ op' = "none" /\ at' = "returned"
    BY <1>1 DEF SendReturns, Finish
  <2>2. Levels'
    BY <2>1 DEF objects, device, history, IInv, Levels, Granted, InStep
  <2>3. QED
    BY <1>1, <2>2 DEF SendReturns, Finish, objects, history, IInv, Types, Objects,
       TransportMeansOpen, Closed, Executions, ExecutedOncePerConnection, Careful
<1>2. CASE LoginGoesOn
  <2>1. UNCHANGED <<family, transport, handler, session, auth, autoReconnect, made, device,
                    closed, careful>>
    BY <1>2 DEF LoginGoesOn, Missing, objects
  <2>2. at = "returned" /\ op = "login" /\ fault = "none" /\ login = 0
    BY <1>2 DEF LoginGoesOn, ReturnTo, IInv, Levels
  <2>3. CASE UNCHANGED <<place, result, executedOn, login>> /\ fault' = "authentication"
    <3>1. ~careful
      BY <1>2, <2>2, <2>3 DEF LoginGoesOn, IInv, Careful
    <3>2. Levels'
      BY <2>1, <2>3 DEF place, device, IInv, Levels, LevelStep, Granted, InStep
    <3>3. ExecutedOncePerConnection'
      BY <2>1, <2>3 DEF place, device, IInv, Executions, ExecutedOncePerConnection, InStep
    <3>4. QED
      BY <2>1, <2>2, <2>3, <3>1, <3>2, <3>3 DEF place, IInv, Types, Objects,
         TransportMeansOpen, Closed, Executions, Careful
  <2>4. CASE /\ executedOn' = <<>> /\ UNCHANGED fault
             /\ \/ op' = "none" /\ at' = "returned"
                \/ op' = op /\ self' = self /\ at' = "command" /\ login' = login
             /\ \/ login' = login
                \/ /\ op' = "none" /\ LevelStep
                   /\ login' = IF result = "success" THEN handler ELSE 0
    <3>1. Levels'
      BY <2>1, <2>2, <2>4 DEF device, IInv, Levels, Granted, InStep
    <3>2. Types'
      BY <2>1, <2>2, <2>4 DEF IInv, Types
    <3>3. QED
      BY <2>1, <2>2, <2>4, <3>1, <3>2 DEF IInv, Objects, TransportMeansOpen, Closed,
         Executions, ExecutedOncePerConnection, Careful
  <2>5. QED
    BY <1>2, <2>3, <2>4 DEF LoginGoesOn, Missing, AfterChallenge1, AfterChallenge2,
       AfterLevel, NextCommand, GiveUp, Finish, LevelStep
<1>3. CASE LoggedOutToClose
  <2>1. /\ UNCHANGED <<family, objects, autoReconnect, made, device, login, closed, careful, fault>>
        /\ op' \in {"none", "close"} /\ op = "close" /\ at = "returned"
        /\ (op' = "close" => at' = "finish") /\ at' \in {"finish", "returned"}
    BY <1>3 DEF LoggedOutToClose, ReturnTo, GiveUp, Finish
  <2>2. Levels'
    BY <2>1 DEF objects, device, IInv, Levels, Granted, InStep
  <2>3. Executions'
    BY <1>3, <2>1 DEF LoggedOutToClose, GiveUp, Finish, IInv, Executions,
       ExecutedOncePerConnection
  <2>4. executedOn' \in {<<>>, executedOn}
    BY <1>3 DEF LoggedOutToClose, GiveUp, Finish
  <2>5. Types'
    <3>1. <<>> \in Seq(Nat)
      OBVIOUS
    <3>2. executedOn' \in Seq(Nat)
      BY <2>4, <3>1 DEF IInv, Types
    <3>3. QED
      BY <2>1, <3>2 DEF objects, IInv, Types
  <2>6. Objects' /\ Closed'
    BY <2>1, <2>4 DEF objects, IInv, Objects, TransportMeansOpen, Closed
  <2>7. Careful'
    BY <2>1 DEF objects, IInv, Careful
  <2>8. QED
    BY <2>2, <2>3, <2>5, <2>6, <2>7 DEF IInv
<1>4. CASE FinishClose
  <2>1. Levels'
    BY <1>4 DEF FinishClose, Finish, device, IInv, Levels, Granted
  <2>2. QED
    BY <1>4, <2>1 DEF FinishClose, Finish, IInv, Types, Objects, TransportMeansOpen,
       Closed, Executions, ExecutedOncePerConnection, Careful
<1>5. QED
  BY <1>1, <1>2, <1>3, <1>4 DEF Going

\* The level goes with the session, and with neither nothing is promised.
LEMMA ExpiresIInv == IInv /\ SessionExpires => IInv'
<1> SUFFICES ASSUME IInv, SessionExpires PROVE IInv'
  OBVIOUS
<1>1. /\ UNCHANGED <<family, objects, autoReconnect, made, place, result, executedOn, unanswered,
                    history, fault>>
      /\ family = "CoLa2" /\ known' = FALSE
  BY DEF SessionExpires
<1>2. Levels'
  BY <1>1 DEF objects, place, history, IInv, Levels, Granted
<1>3. Types' /\ Objects' /\ Closed' /\ Careful'
  BY <1>1 DEF objects, place, history, IInv, Types, Objects, TransportMeansOpen, Closed, Careful
<1>4. Executions'
  BY <1>1 DEF objects, place, IInv, Executions, ExecutedOncePerConnection, InStep
<1>5. QED
  BY <1>2, <1>3, <1>4 DEF IInv

LEMMA NextIInv == IInv /\ [Next]_vars => IInv'
  BY StutterIInv, OpenIInv, CallIInv, CommandIInv, ReopenIInv, RetryIInv, GoingIInv, ExpiresIInv
     DEF Next, Application, SendCommand, Undefined, Hung

THEOREM Invariance == Spec => []IInv
  BY InitIInv, NextIInv, PTL DEF Spec

-----------------------------------------------------------------------------
(* The types: what has a number was made.                                  *)

LEMMA SeqGrows == ASSUME NEW n \in Nat, NEW k \in Nat, n <= k, NEW s \in Seq(1..n)
                  PROVE  s \in Seq(1..k)
<1>1. 1..n \subseteq 1..k
  OBVIOUS
<1>2. QED
  BY <1>1

LEMMA StaysExecuted ==
  ASSUME TypeOK, executedOn' = <<>> \/ executedOn' = executedOn
  PROVE  executedOn' \in Seq(1..made)
<1>1. executedOn \in Seq(1..made)
  BY DEF TypeOK
<1>2. <<>> \in Seq(1..made)
  OBVIOUS
<1>3. QED
  BY <1>1, <1>2

LEMMA ExecutedTypes ==
  ASSUME TypeOK, handler # 0, (\E accepted \in BOOLEAN : Executed(accepted)) \/ NotExecuted
  PROVE  executedOn' \in Seq(1..made) /\ level' \in {"run", "user"}
<1>1. handler \in 1..made
  BY DEF TypeOK, Connection
<1>2. CASE NotExecuted
  BY <1>2 DEF NotExecuted, TypeOK
<1>3. ASSUME NEW accepted \in BOOLEAN, Executed(accepted)
      PROVE  executedOn' \in Seq(1..made) /\ level' \in {"run", "user"}
  BY <1>1, <1>3 DEF Executed, LevelAfter, TypeOK
<1>4. QED
  BY <1>2, <1>3

LEMMA ExchangeTypes ==
  ASSUME TypeOK, handler # 0, NEW r \in Results, Exchange(r)
  PROVE  /\ executedOn' \in Seq(1..made) /\ level' \in {"run", "user"}
         /\ unanswered' \in BOOLEAN /\ result' \in Results /\ known' \in BOOLEAN
<1>1. (\E accepted \in BOOLEAN : Executed(accepted)) \/ NotExecuted
  <2>1. (r = "success") \in BOOLEAN
    OBVIOUS
  <2>2. QED
    BY <2>1 DEF Exchange
<1>2. result' = r /\ (unanswered' = TRUE \/ unanswered' = unanswered) /\ known' = known
  BY DEF Exchange
<1>3. QED
  BY <1>1, <1>2, ExecutedTypes DEF TypeOK

LEMMA OpenTypes ==
  ASSUME TypeOK, OpenFails \/ OpenSucceeds, UNCHANGED <<self, executedOn>>,
         login' = login \/ login' = 0
  PROVE  /\ made' \in 0..MaxConnections
         /\ transport' \in 0..made' /\ handler' \in 0..made' /\ session' \in 0..made'
         /\ auth' \in 0..made' /\ self' \in 0..made' /\ login' \in 0..made'
         /\ protocol' \in {"unknown", "SUL1", "SUL2"}
         /\ unanswered' \in BOOLEAN /\ level' \in {"run", "user"} /\ known' \in BOOLEAN
         /\ executedOn' \in Seq(1..made')
<1>1. made \in Nat /\ made' \in Nat /\ made <= made' /\ made' \in 0..MaxConnections
  BY DEF OpenFails, OpenSucceeds, TypeOK
<1>2. executedOn' \in Seq(1..made')
  BY <1>1, SeqGrows DEF TypeOK
<1>3. /\ transport' \in 0..made' /\ handler' \in 0..made' /\ session' \in 0..made'
      /\ auth' \in 0..made' /\ self' \in 0..made' /\ login' \in 0..made'
  BY <1>1 DEF OpenFails, OpenSucceeds, TypeOK, Connection
<1>4. QED
  BY <1>1, <1>2, <1>3 DEF OpenFails, OpenSucceeds, device, TypeOK

LEMMA NextTypes == IInv /\ TypeOK /\ [Next]_vars => TypeOK'
<1> SUFFICES ASSUME IInv, TypeOK, [Next]_vars PROVE TypeOK'
  OBVIOUS
<1>1. CASE UNCHANGED vars
  BY <1>1 DEF vars, objects, place, device, history, TypeOK, Connection
<1>2. ASSUME NEW reconnect \in BOOLEAN, Open(reconnect) PROVE TypeOK'
  <2>1. /\ UNCHANGED <<family, op, at, step, self, result, executedOn, fault>> /\ login' = 0
        /\ autoReconnect' = reconnect /\ closed' = FALSE /\ careful' \in BOOLEAN
        /\ OpenFails \/ OpenSucceeds
    BY <1>2 DEF Open, place
  <2>2. /\ made' \in 0..MaxConnections
        /\ transport' \in 0..made' /\ handler' \in 0..made' /\ session' \in 0..made'
        /\ auth' \in 0..made' /\ self' \in 0..made' /\ login' \in 0..made'
        /\ protocol' \in {"unknown", "SUL1", "SUL2"}
        /\ unanswered' \in BOOLEAN /\ level' \in {"run", "user"} /\ known' \in BOOLEAN
        /\ executedOn' \in Seq(1..made')
    BY <2>1, OpenTypes
  <2>3. QED
    BY <2>1, <2>2 DEF TypeOK, Connection
<1>3. CASE Send \/ Login \/ Logout \/ Close
  <2>1. UNCHANGED <<family, objects, autoReconnect, made, result, device, closed>>
    BY <1>3 DEF Send, Login, Logout, Close, Call, Missing, place
  <2>2. /\ op' \in {op, "send", "login", "logout", "close"} /\ at' \in {at, "command", "finish"}
        /\ step' \in {step, "none", "challenge1", "challenge2"} /\ self' \in {self, 0, auth}
        /\ login' \in {login, 0} /\ fault' \in {fault, "no_connection"}
    BY <1>3 DEF Send, Login, Logout, Close, Call, Missing, place
  <2>3. executedOn' \in Seq(1..made)
    BY <1>3, StaysExecuted DEF Send, Login, Logout, Close, Call, Missing
  <2>4. careful' \in BOOLEAN
    BY <1>3 DEF Send, Login, Logout, Close, Call, Missing, TypeOK
  <2>5. QED
    BY <2>1, <2>2, <2>3, <2>4 DEF objects, device, TypeOK, Connection
<1>4. CASE Command
  <2>1. /\ UNCHANGED <<family, objects, autoReconnect, made, op, step, self, history>>
        /\ at' \in {"command", "reopen", "returned", "hung"}
        /\ fault' \in {fault, "handler"}
    BY <1>4 DEF Command, ReadsForEver
  <2>2. /\ executedOn' \in Seq(1..made) /\ level' \in {"run", "user"}
        /\ unanswered' \in BOOLEAN /\ result' \in Results /\ known' \in BOOLEAN
    <3>1. CASE UNCHANGED <<executedOn, device>> /\ (result' = "error" \/ UNCHANGED result)
      BY <3>1 DEF device, TypeOK, Results, Answers
    <3>2. CASE session # 0 /\ session = handler /\ \E r \in Results : Exchange(r)
      BY <3>2, ExchangeTypes
    <3>3. CASE session # 0 /\ session = handler /\ ReadsForEver
      BY <3>3, ExecutedTypes DEF ReadsForEver, TypeOK
    <3>4. QED
      BY <1>4, <3>1, <3>2, <3>3 DEF Command
  <2>3. QED
    BY <2>1, <2>2 DEF objects, history, TypeOK, Connection
<1>5. CASE Reopen
  BY <1>5, OpenTypes DEF Reopen, history, TypeOK, Connection
<1>6. CASE Retry
  <2>1. handler # 0
    BY <1>6 DEF Retry, IInv, Executions
  <2>2. /\ UNCHANGED <<family, objects, autoReconnect, made, op, step, self, history, fault>>
        /\ at' = "returned"
    BY <1>6 DEF Retry
  <2>3. /\ executedOn' \in Seq(1..made) /\ level' \in {"run", "user"}
        /\ unanswered' \in BOOLEAN /\ result' \in Results /\ known' \in BOOLEAN
    BY <1>6, <2>1, ExchangeTypes DEF Retry
  <2>4. QED
    BY <2>2, <2>3 DEF objects, history, TypeOK, Connection
<1>7. CASE SendReturns \/ LoggedOutToClose \/ FinishClose
  <2>1. /\ UNCHANGED <<family, protocol, autoReconnect, made, result, device, login, careful,
                       fault>>
        /\ transport' \in {transport, 0} /\ handler' \in {handler, 0}
        /\ session' \in {session, 0} /\ auth' \in {auth, 0} /\ self' \in {self, 0}
        /\ op' \in {op, "none"} /\ at' \in {"returned", "finish"} /\ step' \in {step, "none"}
    BY <1>7 DEF SendReturns, LoggedOutToClose, FinishClose, GiveUp, Finish, objects, history
  <2>2. executedOn' \in Seq(1..made)
    BY <1>7, StaysExecuted DEF SendReturns, LoggedOutToClose, FinishClose, GiveUp, Finish
  <2>3. closed' \in BOOLEAN
    BY <1>7 DEF SendReturns, LoggedOutToClose, FinishClose, history, TypeOK
  <2>4. QED
    BY <2>1, <2>2, <2>3 DEF device, TypeOK, Connection
<1>8. CASE LoginGoesOn
  <2>1. UNCHANGED <<family, transport, handler, session, auth, autoReconnect, made, device,
                    closed, careful>>
    BY <1>8 DEF LoginGoesOn, Missing, objects
  <2>2. /\ op' \in {op, "none"} /\ at' \in {at, "command", "returned"} /\ self' \in {self, 0}
        /\ step' \in {step, "none", "level1", "challenge2", "level2"}
        /\ result' = result
        /\ login' \in {login, handler, 0} /\ protocol' \in {protocol, "SUL1", "SUL2"}
        /\ fault' \in {fault, "authentication"}
    BY <1>8 DEF LoginGoesOn, Missing, objects, place, AfterChallenge1, AfterChallenge2,
       AfterLevel, NextCommand, GiveUp, Finish
  <2>3. executedOn' \in Seq(1..made)
    BY <1>8, StaysExecuted DEF LoginGoesOn, Missing, AfterChallenge1, AfterChallenge2,
       AfterLevel, NextCommand, GiveUp, Finish
  <2>4. QED
    BY <2>1, <2>2, <2>3 DEF device, TypeOK, Connection
<1>9. CASE SessionExpires
  <2>1. /\ UNCHANGED <<family, objects, autoReconnect, made, place, result, executedOn,
                      unanswered, history, fault>>
        /\ level' \in {"run", "user"}
    BY <1>9 DEF SessionExpires
  <2>2. known' \in BOOLEAN
    BY <1>9, Zenon DEF SessionExpires
  <2>3. made' = made /\ executedOn' \in Seq(1..made)
    BY <2>1 DEF objects, TypeOK
  <2>4. QED
    BY <2>1, <2>2, <2>3 DEF objects, place, history, TypeOK, Connection
<1>10. QED
  BY <1>1, <1>2, <1>3, <1>4, <1>5, <1>6, <1>7, <1>8, <1>9
     DEF Next, Application, SendCommand, Going, Undefined, Hung

\* Whatever is called, the variables keep their types: in particular no object has
\* the number of a connection that was not made.
THEOREM TypeCorrect == Spec => []TypeOK
<1>1. Init => TypeOK
  <2> SUFFICES ASSUME Init PROVE TypeOK
    OBVIOUS
  <2>1. executedOn \in Seq(1..made)
    BY DEF Init
  <2>2. /\ made \in 0..MaxConnections /\ transport \in Connection /\ handler \in Connection
        /\ session \in Connection /\ auth \in Connection /\ self \in Connection
        /\ login \in Connection
    BY DEF Init, Connection
  <2>3. result \in Results
    BY DEF Init, Results, Answers
  <2>4. QED
    BY <2>1, <2>2, <2>3 DEF Init, TypeOK
<1>2. QED
  BY <1>1, NextTypes, Invariance, PTL DEF Spec

\* "A set pTransport means an open connection": its handler, session and
\* authentication object were created with it, after any sequence of opens,
\* failures, reconnects and closes.
THEOREM OpenIsWhole == Spec => []TransportMeansOpen
  BY Invariance, PTL DEF IInv, Objects

\* sendCommand executes a command at most twice, on different connections, and
\* an answer it returns comes from the connection in use.
THEOREM AtMostOncePerConnection == Spec => []ExecutedOncePerConnection
  BY Invariance, PTL DEF IInv, Executions

\* Nothing is sent and nothing opened between close and the next open.
THEOREM StaysClosed == Spec => []ClosedStaysClosed
<1>1. IInv => ClosedStaysClosed
  BY DEF IInv, Objects, Closed, ClosedStaysClosed
<1>2. QED
  BY <1>1, Invariance, PTL

\* A login that returned true is lost with its session or its connection only, and
\* never unnoticed: no later command is executed or answered at a lower level, with
\* CoLa 2 always and with CoLa B as long as no command was given up.
THEOREM LoginLasts == Spec => LoginHolds
<1>1. ASSUME IInv, [Next]_vars, CommandEnds, LoggedIn, InStep,
             executedOn' # executedOn \/ result' \in Answers
      PROVE  level = "user"
  <2>1. login = handler /\ login # 0
    BY <1>1 DEF LoggedIn, IInv, Levels
  <2>2. session = handler /\ at # "hung"
    BY <1>1, <2>1 DEF CommandEnds, IInv, Types, Objects, TransportMeansOpen
  <2>3. Command \/ Retry
    BY <1>1 DEF CommandEnds, Next, Application, Open, Send, Login, Logout, Close, Idle, Call,
       Missing, place, SendCommand, Reopen, Going, SendReturns, LoginGoesOn, LoggedOutToClose,
       FinishClose, ReturnTo, SessionExpires, Undefined, Hung, vars, IInv, Executions
  <2>4. PICK r \in Results : Exchange(r)
    BY <1>1, <2>1, <2>2, <2>3 DEF CommandEnds, Command, Retry, ReadsForEver
  <2>5. r \in Answers \/ executedOn' # executedOn
    BY <1>1, <2>4 DEF Exchange
  <2>6. known
    BY <1>1, <2>4, <2>5 DEF Exchange, NotExecuted, Answers
  <2>7. QED
    BY <1>1, <2>1, <2>6 DEF IInv, Levels, Granted
<1>2. IInv /\ [Next]_vars =>
        [CommandEnds /\ LoggedIn /\ InStep /\ (executedOn' # executedOn \/ result' \in Answers)
           => level = "user"]_vars
  BY <1>1
<1>3. QED
  BY <1>2, Invariance, PTL DEF Spec, LoginHolds

\* A careful application never meets an object that does not exist.
THEOREM CarefulIsSafe == Spec => []NoDeadObject
<1>1. IInv => NoDeadObject
  BY DEF IInv, Careful, NoDeadObject
<1>2. QED
  BY <1>1, Invariance, PTL

-----------------------------------------------------------------------------
(* The end of a call.                                                      *)

\* How many steps the call under way can still take, at most.
Rank ==
  IF op = "none" THEN 0
  ELSE 6 * (CASE step = "challenge1" -> 2
              [] step = "challenge2" -> 1
              [] OTHER -> 0)
       + (CASE at = "command"  -> 6
            [] at = "reopen"   -> 5
            [] at = "retry"    -> 4
            [] at = "returned" -> 3
            [] at = "finish"   -> 2
            [] at = "hung"     -> 1)

LEMMA RankIsNat == TypeOK => Rank \in Nat
<1> SUFFICES ASSUME TypeOK PROVE Rank \in Nat
  OBVIOUS
<1>1. at \in {"command", "reopen", "retry", "returned", "finish", "hung"}
  BY DEF TypeOK
<1>2. QED
  BY <1>1 DEF Rank

LEMMA CallGoesOn ==
  ASSUME TypeOK, op # "none", Next, ~SessionExpires, fault = "none", fault' = "none", at # "hung"
  PROVE  Rank' < Rank
<1>1. at \in {"command", "reopen", "retry", "returned", "finish", "hung"}
  BY DEF TypeOK
<1>2. CASE SendCommand
  <2>1. UNCHANGED <<op, step>>
    BY <1>2 DEF SendCommand, Command, Reopen, Retry
  <2>2. \/ at = "command" /\ at' \in {"reopen", "returned", "hung"}
        \/ at = "reopen" /\ at' \in {"retry", "returned"}
        \/ at = "retry" /\ at' = "returned"
    BY <1>2 DEF SendCommand, Command, Reopen, Retry, ReadsForEver
  <2>3. QED
    BY <2>1, <2>2 DEF Rank
<1>3. CASE Going
  <2>1. CASE op' = "none"
    BY <1>1, <2>1 DEF Rank
  <2>2. CASE op' # "none"
    <3>1. \/ at = "returned" /\ at' = "finish" /\ UNCHANGED step
          \/ at = "returned" /\ at' = "command" /\ step = "challenge1" /\ step' = "level1"
          \/ at = "returned" /\ at' = "command" /\ step = "challenge1" /\ step' = "challenge2"
          \/ at = "returned" /\ at' = "command" /\ step = "challenge2" /\ step' = "level2"
      BY <1>3, <2>2 DEF Going, SendReturns, LoginGoesOn, LoggedOutToClose, FinishClose, ReturnTo,
         Missing, AfterChallenge1, AfterChallenge2, AfterLevel, NextCommand, GiveUp, Finish
    <3>2. QED
      BY <2>2, <3>1 DEF Rank
  <2>3. QED
    BY <2>1, <2>2
<1>4. ~ Application /\ ~ Undefined /\ ~ Hung
  BY DEF Application, Open, Send, Login, Logout, Close, Idle, Undefined, Hung
<1>5. QED
  BY <1>2, <1>3, <1>4 DEF Next

\* Whatever the device answers and however often it goes away, every step of a
\* call brings it nearer to its return, and the end of a session, which a connection
\* has once, not farther from it: a command is sent twice at most, a login has three
\* commands at most, and nothing the call does begins another one.  Excepted are uses
\* of objects that do not exist and reads that never end.
THEOREM EveryCallEnds ==
  Spec => /\ [](Rank \in Nat)
          /\ [][op # "none" /\ at # "hung" /\ fault' = "none" =>
                  IF SessionExpires THEN Rank' = Rank ELSE Rank' < Rank]_vars
<1>1. TypeOK /\ [Next]_vars =>
        [op # "none" /\ at # "hung" /\ fault' = "none" =>
           IF SessionExpires THEN Rank' = Rank ELSE Rank' < Rank]_vars
  <2> SUFFICES ASSUME TypeOK, Next, op # "none", at # "hung", fault' = "none"
               PROVE  (IF SessionExpires THEN Rank' = Rank ELSE Rank' < Rank) \/ UNCHANGED vars
    OBVIOUS
  <2>1. CASE SessionExpires
    <3>1. UNCHANGED <<op, at, step>>
      BY <2>1 DEF SessionExpires, place
    <3>2. Rank' = Rank
      BY <3>1 DEF Rank
    <3>3. QED
      BY <2>1, <3>2
  <2>2. CASE fault = "none" /\ ~SessionExpires
    BY <2>2, CallGoesOn
  <2>3. CASE fault # "none"
    BY <2>3 DEF Next, Application, SendCommand, Going, Open, Send, Login, Logout, Close, Idle,
       Command, Reopen, Retry, SendReturns, LoginGoesOn, LoggedOutToClose, FinishClose, ReturnTo,
       SessionExpires, Undefined, Hung
  <2>4. QED
    BY <2>1, <2>2, <2>3
<1>2. QED
  BY <1>1, RankIsNat, TypeCorrect, PTL DEF Spec
=============================================================================
