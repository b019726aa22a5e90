-------------------------- MODULE VisionaryControl --------------------------
(***************************************************************************)
(* The objects behind VisionaryControl and the calls that replace them.    *)
(* open creates a transport, a protocol handler, a control session that    *)
(* refers to the handler, and an authentication object; sendCommand opens  *)
(* anew when a command fails and sends it again, also when it was called   *)
(* by the authentication object itself.  The device keeps a user level per *)
(* connection, which login raises and logout lowers, and which goes with   *)
(* the session when the device forgets it.                                 *)
(*                                                                         *)
(* One thread calls.  A connection and the objects created with it have    *)
(* the connection's number, 0 is nullptr.  How one command is exchanged    *)
(* with the device is ColaSession's subject; here it has an outcome.  What *)
(* ColaSession and PacketReader show of CoLa B is taken over: once a       *)
(* command was given up, its answer may be taken for that of the next one, *)
(* and the rest of a cut one may keep the next call from returning.        *)
(***************************************************************************)
EXTENDS Naturals, Sequences, SequencesExt

CONSTANT MaxConnections  \* bound: the device accepts no more than these

ASSUME MaxConnectionsAssumption == MaxConnections \in Nat

VARIABLES
  family,     \* m_visionaryType, as the protocol that goes with it
  transport,  \* m_pTransport
  handler,    \* m_pProtocolHandler
  session,    \* m_pControlSession: the handler it refers to
  auth,       \* m_pAuthentication
  protocol,   \* its m_protocolType
  autoReconnect,  \* m_autoReconnect
  made,       \* number of connections made so far
  op,         \* the call under way: "none", "send", "login", "logout", "close"
  at,         \* where it is: "command", "reopen", "retry", "returned", "finish",
              \* or "hung", reading for ever
  step,       \* login: the command under way
  self,       \* the authentication object whose method is executing
  result,     \* what the last command returned
  executedOn, \* the connections on which the device has executed it
  unanswered, \* a command on the newest connection was given up, its answer may
              \* still come
  level,      \* the user level the device has granted to that connection
  known,      \* the device knows the session of that connection; CoLa B has none
              \* to forget
  login,      \* history: the connection on which login returned true, 0 if it did
              \* not or login, logout, close or open was called since
  closed,     \* open was not called yet, or close after it
  careful,    \* history: open was called only while nothing was open and without
              \* autoReconnect, login and logout only while something was
  fault       \* "none", or which object was used that does not exist

objects == <<transport, handler, session, auth, protocol>>
place   == <<op, at, step, self>>
device  == <<unanswered, level, known>>
history == <<login, closed, careful>>
vars    == <<family, objects, autoReconnect, made, place, result, executedOn, device,
             history, fault>>

Idle == op = "none" /\ fault = "none"

\* What a command can be answered with: OK, with the result the caller wants,
\* another, or none where it reads one; BUFFER_UNDERFLOW; another error.
Answers == {"success", "refused", "short", "underflow", "error"}

\* NETWORK_ERROR and SESSION_UNKNOWN_ID, after which sendCommand opens anew.
Broken == {"network", "session"}

Results == Answers \cup Broken

\* Answers come from the command they are taken for: CoLa 2 compares request
\* ids, CoLa B takes what comes first.
InStep == family = "CoLa2" \/ ~unanswered

-----------------------------------------------------------------------------
Init ==
  /\ family \in {"CoLaB", "CoLa2"}
  /\ transport = 0 /\ handler = 0 /\ session = 0 /\ auth = 0
  /\ protocol = "unknown"
  /\ autoReconnect = FALSE
  /\ made = 0
  /\ op = "none" /\ at = "returned" /\ step = "none" /\ self = 0
  /\ result = "error"
  /\ executedOn = <<>>
  /\ unanswered = FALSE /\ level = "run" /\ known = TRUE /\ login = 0
  /\ closed = TRUE /\ careful = TRUE
  /\ fault = "none"

\* Fault: the transport is given up only when there is a new one.
OpenFailsKeepsTransport ==
  /\ handler' = 0
  /\ UNCHANGED <<transport, session, auth, protocol, made, device>>

\* No new connection: no socket, no device, a timeout
\* that does not fit into a byte, no session.
OpenFails ==
  /\ transport' = 0 /\ handler' = 0
  /\ UNCHANGED <<session, auth, protocol, made, device>>

\* A connection, and with CoLa 2 a session: only the request id of the answer is
\* looked at, and a session that was refused is unknown to the device.
OpenSucceeds ==
  /\ made < MaxConnections
  /\ made' = made + 1
  /\ transport' = made' /\ handler' = made' /\ session' = made' /\ auth' = made'
  /\ protocol' = "unknown"
  /\ unanswered' = FALSE /\ level' = "run"
  /\ known' \in BOOLEAN /\ (family = "CoLaB" => known' = TRUE)

Open(reconnect) ==
  /\ Idle
  /\ autoReconnect' = reconnect
  /\ closed' = FALSE /\ login' = 0
  /\ careful' = (careful /\ ~reconnect /\ auth = 0)
  /\ OpenFails \/ OpenSucceeds
  /\ UNCHANGED <<family, place, result, executedOn, fault>>

\* A call that begins by sending a command, from an authentication object or not.
Call(name, first, object) ==
  /\ op' = name /\ at' = "command" /\ step' = first /\ self' = object
  /\ executedOn' = <<>>
  /\ login' = IF name = "send" THEN login ELSE 0
  /\ UNCHANGED <<family, objects, autoReconnect, made, result, device, closed, careful, fault>>

Missing(object) ==
  /\ fault' = object
  /\ UNCHANGED <<family, objects, autoReconnect, made, place, result, executedOn, device,
                 login, closed>>

\* sendCommand, called by the application or by one of the commands that wrap it.
Send == Idle /\ Call("send", "none", 0)

\* m_pAuthentication is dereferenced unchecked.
Login ==
  /\ Idle
  /\ IF auth = 0 THEN Missing("no_connection") /\ careful' = FALSE
     ELSE Call("login", IF protocol = "SUL2" THEN "challenge2" ELSE "challenge1", auth)

Logout ==
  /\ Idle
  /\ IF auth = 0 THEN Missing("no_connection") /\ careful' = FALSE
     ELSE Call("logout", "none", auth)

\* close, also called by the destructor, logs out first.
Close ==
  /\ Idle
  /\ IF auth # 0 THEN Call("close", "none", auth)
     ELSE /\ op' = "close" /\ at' = "finish" /\ login' = 0
          /\ UNCHANGED <<family, objects, autoReconnect, made, step, self, result,
                         executedOn, device, closed, careful, fault>>

-----------------------------------------------------------------------------
(* sendCommand.                                                            *)

\* The user level once the device has accepted the command.
LevelAfter ==
  IF step \in {"level1", "level2"} THEN "user"
  ELSE IF op \in {"logout", "close"} THEN "run" ELSE level

\* The device executes the command, which may refuse what is asked of it.
Executed(accepted) ==
  /\ executedOn' = Append(executedOn, handler)
  /\ level' = IF accepted THEN LevelAfter ELSE level

NotExecuted == UNCHANGED <<executedOn, level>>

\* A command is exchanged over the handler.  It may have been executed although
\* no answer came; the answer may be that of a command before.  In a session that
\* it does not know the device executes nothing.
Exchange(r) ==
  /\ result' = r
  /\ UNCHANGED known
  /\ \/ /\ r \in Answers /\ known
        /\ Executed(r = "success")
        /\ UNCHANGED unanswered
     \/ /\ r \in Answers /\ ~InStep
        /\ (\E accepted \in BOOLEAN : Executed(accepted)) \/ NotExecuted
        /\ UNCHANGED unanswered
     \/ /\ r = "network"
        /\ (known /\ \E accepted \in BOOLEAN : Executed(accepted)) \/ NotExecuted
        /\ unanswered' = TRUE
     \/ /\ r = "session" /\ ~known
        /\ NotExecuted
        /\ UNCHANGED unanswered

\* The rest of a cut answer of CoLa B: its reader does not get past it.
ReadsForEver ==
  /\ ~InStep
  /\ at' = "hung"
  /\ (\E accepted \in BOOLEAN : Executed(accepted)) \/ NotExecuted
  /\ UNCHANGED <<result, unanswered, known>>

\* Fault: no session is reported like a lost connection.
CommandWithoutSessionLost ==
  /\ at = "command" /\ fault = "none"
  /\ \/ /\ session = 0
        /\ result' = "network"
        /\ at' = IF autoReconnect THEN "reopen" ELSE "returned"
        /\ UNCHANGED <<executedOn, device, fault>>
     \/ /\ session # 0 /\ session = handler
        /\ \/ \E r \in Results :
                /\ Exchange(r)
                /\ at' = IF autoReconnect /\ r \in Broken THEN "reopen" ELSE "returned"
           \/ ReadsForEver
        /\ UNCHANGED fault
     \/ /\ session # 0 /\ session # handler
        /\ fault' = "handler"
        /\ UNCHANGED <<at, result, executedOn, device>>
  /\ UNCHANGED <<family, objects, autoReconnect, made, op, step, self, history>>

\* Without a session the result is UNKNOWN, after which nothing is opened anew.
\* A session whose handler was destroyed is called all the same.
Command ==
  /\ at = "command" /\ fault = "none"
  /\ \/ /\ session = 0
        /\ result' = "error" /\ at' = "returned"
        /\ UNCHANGED <<executedOn, device, fault>>
     \/ /\ session # 0 /\ session = handler
        /\ \/ \E r \in Results :
                /\ Exchange(r)
                /\ at' = IF autoReconnect /\ r \in Broken THEN "reopen" ELSE "returned"
           \/ ReadsForEver
        /\ UNCHANGED fault
     \/ /\ session # 0 /\ session # handler
        /\ fault' = "handler"
        /\ UNCHANGED <<at, result, executedOn, device>>
  /\ UNCHANGED <<family, objects, autoReconnect, made, op, step, self, history>>

\* Fault: it is tried until it works.
ReopenForEver ==
  /\ at = "reopen" /\ fault = "none"
  /\ \/ OpenFails /\ at' = "reopen"
     \/ OpenSucceeds /\ at' = "retry"
  /\ UNCHANGED <<family, autoReconnect, op, step, self, result, executedOn, history, fault>>

\* The transport is shut down and open called with the parameters of before.
Reopen ==
  /\ at = "reopen" /\ fault = "none"
  /\ \/ OpenFails /\ at' = "returned"
     \/ OpenSucceeds /\ at' = "retry"
  /\ UNCHANGED <<family, autoReconnect, op, step, self, result, executedOn, history, fault>>

\* Fault: a command is sent until it is answered.
RetryAgain ==
  /\ at = "retry" /\ fault = "none"
  /\ \E r \in Results : Exchange(r) /\ at' = IF r = "network" THEN "retry" ELSE "returned"
  /\ UNCHANGED <<family, objects, autoReconnect, made, op, step, self, history, fault>>

\* The same command once more, on the new connection.
Retry ==
  /\ at = "retry" /\ fault = "none"
  /\ \E r \in Results : Exchange(r) /\ at' = "returned"
  /\ UNCHANGED <<family, objects, autoReconnect, made, op, step, self, history, fault>>

-----------------------------------------------------------------------------
(* Its callers go on.                                                      *)

ReturnTo(call) == at = "returned" /\ op = call /\ fault = "none"

Finish ==
  /\ op' = "none" /\ at' = "returned" /\ step' = "none" /\ self' = 0
  /\ executedOn' = <<>>

\* The commands that read a result throw when there is none, and so do not
\* return either; they and logout use no member afterwards.
SendReturns ==
  /\ ReturnTo("send") \/ ReturnTo("logout")
  /\ Finish
  /\ UNCHANGED <<family, objects, autoReconnect, made, result, device, history, fault>>

\* login sends its next command, which is a new one.
NextCommand(s) ==
  /\ at' = "command" /\ step' = s /\ executedOn' = <<>>
  /\ UNCHANGED <<op, self, result, login>>

GiveUp == Finish /\ UNCHANGED <<result, login>>

\* GetChallenge without a user level: answered by devices with SUL1, refused
\* with BUFFER_UNDERFLOW by those with SUL2.
AfterChallenge1 ==
  /\ step = "challenge1"
  /\ protocol' = IF result = "underflow" THEN "SUL2" ELSE protocol
  /\ CASE result = "success"   -> NextCommand("level1")
       [] result = "underflow" -> NextCommand("challenge2")
       [] OTHER                -> GiveUp

AfterChallenge2 ==
  /\ step = "challenge2"
  /\ IF result = "success" THEN NextCommand("level2") ELSE GiveUp
  /\ UNCHANGED protocol

\* Fault: an answer is enough, its result is not read.
AfterLevelUnread ==
  /\ step \in {"level1", "level2"}
  /\ protocol' = IF step = "level1" THEN "SUL1" ELSE "SUL2"
  /\ Finish
  /\ login' = IF result \in {"success", "refused", "short"} THEN handler ELSE 0
  /\ UNCHANGED result

\* The protocol is settled whether or not the level was granted, but not when
\* reading the answer throws.
AfterLevel ==
  /\ step \in {"level1", "level2"}
  /\ protocol' = IF result = "short" THEN protocol
                 ELSE IF step = "level1" THEN "SUL1" ELSE "SUL2"
  /\ Finish
  /\ login' = IF result = "success" THEN handler ELSE 0
  /\ UNCHANGED result

\* The members that login touches next: none when it throws or after a failed
\* second challenge.
UsesMembers == result # "short" /\ (step # "challenge2" \/ result = "success")

LoginGoesOn ==
  /\ ReturnTo("login")
  /\ IF self # auth /\ UsesMembers
       THEN Missing("authentication") /\ UNCHANGED careful
       ELSE /\ IF self = auth THEN AfterChallenge1 \/ AfterChallenge2 \/ AfterLevel
               ELSE GiveUp /\ UNCHANGED protocol
            /\ UNCHANGED <<family, transport, handler, session, auth, autoReconnect, made,
                           device, closed, careful, fault>>

\* What logout returns is not looked at, but when it throws nothing is closed.
LoggedOutToClose ==
  /\ ReturnTo("close")
  /\ IF result = "short" THEN GiveUp
     ELSE /\ at' = "finish" /\ self' = 0
          /\ UNCHANGED <<op, step, result, executedOn, login>>
  /\ UNCHANGED <<family, objects, autoReconnect, made, device, closed, careful, fault>>

\* Fault: the control session is forgotten.
FinishCloseKeepsSession ==
  /\ op = "close" /\ at = "finish"
  /\ transport' = 0 /\ handler' = 0 /\ auth' = 0
  /\ closed' = TRUE
  /\ Finish
  /\ UNCHANGED <<family, session, protocol, autoReconnect, made, result, device, login,
                 careful, fault>>

\* What close does after the logout.  The answer to closeSession is not looked at.
FinishClose ==
  /\ op = "close" /\ at = "finish"
  /\ transport' = 0 /\ handler' = 0 /\ session' = 0 /\ auth' = 0
  /\ closed' = TRUE
  /\ Finish
  /\ UNCHANGED <<family, protocol, autoReconnect, made, result, device, login, careful, fault>>

\* No command came for the session's timeout, or the device had another reason to
\* drop the session: with it goes the user level, while the connection stands.
SessionExpires ==
  /\ family = "CoLa2" /\ transport # 0 /\ known /\ fault = "none"
  /\ known' = FALSE /\ level' = "run"
  /\ UNCHANGED <<family, objects, autoReconnect, made, place, result, executedOn, unanswered,
                 history, fault>>

\* After undefined behaviour nothing more is known, and a call that hangs is the
\* last one.
Undefined == fault # "none" /\ UNCHANGED vars
Hung      == at = "hung" /\ UNCHANGED vars

-----------------------------------------------------------------------------
Application == (\E reconnect \in BOOLEAN : Open(reconnect)) \/ Send \/ Login \/ Logout \/ Close
SendCommand == Command \/ Reopen \/ Retry
Going       == SendReturns \/ LoginGoesOn \/ LoggedOutToClose \/ FinishClose

Next == Application \/ SendCommand \/ Going \/ SessionExpires \/ Undefined \/ Hung

Spec     == Init /\ [][Next]_vars
FairSpec == Spec /\ WF_vars(SendCommand \/ Going)

-----------------------------------------------------------------------------
(* Properties.                                                             *)

Connection == 0..made

TypeOK ==
  /\ family \in {"CoLaB", "CoLa2"}
  /\ made \in 0..MaxConnections
  /\ transport \in Connection /\ handler \in Connection /\ session \in Connection
  /\ auth \in Connection /\ self \in Connection /\ login \in Connection
  /\ protocol \in {"unknown", "SUL1", "SUL2"}
  /\ autoReconnect \in BOOLEAN /\ unanswered \in BOOLEAN /\ known \in BOOLEAN
  /\ closed \in BOOLEAN /\ careful \in BOOLEAN
  /\ op \in {"none", "send", "login", "logout", "close"}
  /\ at \in {"command", "reopen", "retry", "returned", "finish", "hung"}
  /\ step \in {"none", "challenge1", "level1", "challenge2", "level2"}
  /\ result \in Results
  /\ executedOn \in Seq(1..made)
  /\ level \in {"run", "user"}
  /\ fault \in {"none", "no_connection", "handler", "authentication"}

\* "commit: a set pTransport means an open connection": whatever opens and
\* failures came before, its handler, session and authentication belong to it.
TransportMeansOpen ==
  transport # 0 => handler = transport /\ session = transport /\ auth = transport

\* A command is executed at most once on a connection and at most twice in all.
\* An answer is returned for a command that was executed on the connection in
\* use, unless it is CoLa B and a command before it was given up.
ExecutedOncePerConnection ==
  /\ Len(executedOn) <= 2
  /\ \A i, j \in 1..Len(executedOn) : i < j => executedOn[i] < executedOn[j]
  /\ op # "none" /\ at = "returned" /\ result \in {"success", "refused"} /\ InStep =>
       executedOn # <<>> /\ Last(executedOn) = handler

\* After close nothing is sent and nothing is opened until open is called, not
\* even with m_autoReconnect still set.
ClosedStaysClosed ==
  closed => transport = 0 /\ executedOn = <<>> /\ at \notin {"reopen", "retry"}

\* A command has been exchanged; the application has logged in on this connection.
CommandEnds == at \in {"command", "retry"} /\ at' # at
LoggedIn    == login # 0 /\ (autoReconnect => login = handler)

\* A login that returned true is not lost unnoticed: every later command of its
\* connection that is executed, or answered as if it was, is executed with the user
\* level.  If the session has expired it is not executed, and answered by the error
\* that says so.  Only autoReconnect may have replaced the connection since.
LoginHolds ==
  [][CommandEnds /\ LoggedIn /\ InStep /\ (executedOn' # executedOn \/ result' \in Answers)
       => level = "user"]_vars

\* Every call returns, whatever the device answers and however often it goes
\* away: a command is retried once, with one attempt to reconnect.  What may
\* hang is a command of CoLa B after one that was given up.
CallReturns == op # "none" ~> op = "none" \/ fault # "none" \/ (at = "hung" /\ ~InStep)

\* An application that opens only what is not open, does without autoReconnect
\* and logs in and out only while connected never makes the library use an
\* object that does not exist, however its connections fail.
NoDeadObject == careful => fault = "none"

\* VisionaryControl.h: close of a connection that is not open is a no-op.
CloseIsNoOp == [][op = "none" /\ op' = "close" /\ transport = 0 => at' = "finish"]_vars

\* VisionaryControl.h: autoReconnect reconnects when the connection was lost; a
\* login under way survives it.
LoginSurvivesReconnect == fault # "authentication"
=============================================================================
