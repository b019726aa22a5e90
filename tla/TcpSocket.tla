----------------------------- MODULE TcpSocket -----------------------------
(***************************************************************************)
(* TcpSocket under its owner, VisionaryDataStream or VisionaryControl: how  *)
(* open makes a connection, how it is given up, and what becomes of the    *)
(* descriptor of the socket whichever call of connect fails.  Descriptors  *)
(* are shared with the rest of the program, which opens and closes files   *)
(* at any time and is given those that are free.                           *)
(*                                                                         *)
(* The operating system is Linux: a connection attempt that fails makes a  *)
(* socket writable and is no exceptional condition for select; send,       *)
(* receive and SO_ERROR report a pending error once and clear it.  A       *)
(* device that has ended the connection answers data with a reset.  The    *)
(* program ignores SIGPIPE, which would end it.                            *)
(***************************************************************************)
EXTENDS Naturals, FiniteSets

CONSTANTS
  Descriptors,
  none         \* INVALID_SOCKET

ASSUME NoneAssumption == none \notin Descriptors

VARIABLES
  transport,  \* m_pTransport is set
  record,     \* m_pSockRecord of the socket
  at,         \* the next step of open, close or isConnected, or "idle"
  answer,     \* what open or isConnected has returned
  table,      \* per descriptor: "free", "library", "foreign"
  blocking,   \* the mode of the socket
  link,       \* its connection
  error,      \* an error is pending at the socket
  accepted    \* history: the device has accepted this connection

kernel == <<table, blocking, link, error, accepted>>
vars   == <<transport, record, at, answer, kernel>>

Init ==
  /\ transport = FALSE /\ record = none
  /\ at = "idle" /\ answer = FALSE
  /\ table = [d \in Descriptors |-> "free"]
  /\ blocking = TRUE /\ link = "none" /\ error = FALSE /\ accepted = FALSE

Libraries == {d \in Descriptors : table[d] = "library"}

\* Fault: the record keeps the descriptor.
ShutdownKeepsRecord ==
  /\ table' = [d \in Descriptors |-> IF d = record THEN "free" ELSE table[d]]
  /\ link' = "none" /\ error' = FALSE
  /\ UNCHANGED <<record, blocking, accepted>>

\* TcpSocket::shutdown closes whatever the record holds.
Shutdown ==
  /\ table' = [d \in Descriptors |-> IF d = record THEN "free" ELSE table[d]]
  /\ record' = none
  /\ link' = "none" /\ error' = FALSE
  /\ UNCHANGED <<blocking, accepted>>

\* TcpSocket::~TcpSocket.
Destroy ==
  \/ record # none /\ Shutdown
  \/ record = none /\ UNCHANGED <<record, kernel>>

\* open gives up the connection before and makes a new socket object.
Open ==
  /\ at = "idle"
  /\ Destroy
  /\ transport' = FALSE /\ at' = "socket"
  /\ UNCHANGED answer

\* A failing call of connect that leaves the socket to the destructor.
Fail == at' = "discard" /\ UNCHANGED <<record, kernel>>

\* One that closes the socket first.
FailClosed == at' = "discard" /\ Shutdown

CreateSocket ==
  /\ at = "socket"
  /\ \/ /\ \E d \in Descriptors :
             table[d] = "free" /\ record' = d /\ table' = [table EXCEPT ![d] = "library"]
        /\ at' = "address"
        /\ blocking' = TRUE /\ link' = "new" /\ error' = FALSE /\ accepted' = FALSE
     \/ Fail
  /\ UNCHANGED <<transport, answer>>

ParseAddress ==
  /\ at = "address"
  /\ \/ at' = "nonblocking" /\ UNCHANGED <<record, kernel>>
     \/ Fail
  /\ UNCHANGED <<transport, answer>>

SetNonBlocking ==
  /\ at = "nonblocking"
  /\ \/ /\ at' = "connect" /\ blocking' = FALSE
        /\ UNCHANGED <<record, table, link, error, accepted>>
     \/ FailClosed
  /\ UNCHANGED <<transport, answer>>

\* ::connect may also succeed or fail at once.
Connect ==
  /\ at = "connect"
  /\ \/ /\ at' = "select" /\ link' = "connecting"
        /\ UNCHANGED <<record, table, blocking, error, accepted>>
     \/ /\ at' = "blocking" /\ link' = "established" /\ accepted' = TRUE
        /\ UNCHANGED <<record, table, blocking, error>>
     \/ FailClosed
  /\ UNCHANGED <<transport, answer>>

\* The attempt has ended, or the time has passed.  How it has ended is not asked.
Select ==
  /\ at = "select"
  /\ \/ link # "connecting" /\ at' = "blocking" /\ UNCHANGED <<record, kernel>>
     \/ link = "connecting" /\ FailClosed
  /\ UNCHANGED <<transport, answer>>

SetBlocking ==
  /\ at = "blocking"
  /\ \/ /\ at' = "timeout" /\ blocking' = TRUE
        /\ UNCHANGED <<record, table, link, error, accepted>>
     \/ FailClosed
  /\ UNCHANGED <<transport, answer>>

\* SO_RCVTIMEO, and with it the end of connect and of open.
SetTimeout ==
  /\ at = "timeout"
  /\ \/ /\ at' = "idle" /\ transport' = TRUE /\ answer' = TRUE
        /\ UNCHANGED <<record, kernel>>
     \/ Fail /\ UNCHANGED <<transport, answer>>

\* open returns false and the socket object goes.
Discard ==
  /\ at = "discard"
  /\ Destroy
  /\ at' = "idle" /\ answer' = FALSE
  /\ UNCHANGED transport

\* close, and open of VisionaryControl without a session: shutdown first, the
\* object goes afterwards.
Close ==
  /\ at = "idle" /\ transport
  /\ Shutdown
  /\ at' = "closing"
  /\ UNCHANGED <<transport, answer>>

FinishClose ==
  /\ at = "closing"
  /\ Destroy
  /\ at' = "idle" /\ transport' = FALSE
  /\ UNCHANGED answer

\* isConnected sends and does not look at the result: an error that was pending is
\* reported there and cleared.
SendProbe ==
  /\ at = "idle" /\ transport
  /\ at' = "probed" /\ error' = FALSE
  /\ UNCHANGED <<transport, record, answer, table, blocking, link, accepted>>

\* Then it asks for the error that is pending.
GetLastError ==
  /\ at = "probed"
  /\ at' = "idle" /\ answer' = ~error /\ error' = FALSE
  /\ UNCHANGED <<transport, record, table, blocking, link, accepted>>

\* recv, of whatever is read over the connection.
Receive ==
  /\ at = "idle" /\ transport /\ error
  /\ error' = FALSE
  /\ UNCHANGED <<transport, record, at, answer, table, blocking, link, accepted>>

-----------------------------------------------------------------------------
(* The device, the network and the rest of the program.                    *)

Device ==
  /\ \/ link = "connecting" /\ link' = "established" /\ accepted' = TRUE /\ UNCHANGED error
     \/ link = "connecting" /\ link' = "refused" /\ error' = TRUE /\ UNCHANGED accepted
     \/ link = "established" /\ link' = "ended" /\ UNCHANGED <<error, accepted>>
     \/ link \in {"established", "ended"} /\ link' = "reset" /\ error' = TRUE /\ UNCHANGED accepted
  /\ UNCHANGED <<transport, record, at, answer, table, blocking>>

Program(d) ==
  /\ \/ table[d] = "free"    /\ table' = [table EXCEPT ![d] = "foreign"]
     \/ table[d] = "foreign" /\ table' = [table EXCEPT ![d] = "free"]
  /\ UNCHANGED <<transport, record, at, answer, blocking, link, error, accepted>>

-----------------------------------------------------------------------------
ConnectSteps ==
  CreateSocket \/ ParseAddress \/ SetNonBlocking \/ Connect \/ Select \/ SetBlocking \/ SetTimeout

Next ==
  \/ Open \/ ConnectSteps \/ Discard
  \/ Close \/ FinishClose
  \/ SendProbe \/ GetLastError \/ Receive
  \/ Device
  \/ \E d \in Descriptors : Program(d)

Spec == Init /\ [][Next]_vars

-----------------------------------------------------------------------------
(* Properties.                                                             *)

TypeOK ==
  /\ {transport, answer, blocking, error, accepted} \subseteq BOOLEAN
  /\ record \in Descriptors \cup {none}
  /\ at \in {"idle", "socket", "address", "nonblocking", "connect", "select", "blocking",
             "timeout", "discard", "closing", "probed"}
  /\ table \in [Descriptors -> {"free", "library", "foreign"}]
  /\ link \in {"none", "new", "connecting", "established", "refused", "ended", "reset"}
  \* The steps that need a socket have one, the step that makes one has none.
  /\ at \in {"address", "nonblocking", "connect", "select", "blocking", "timeout"}
       => record # none
  /\ at = "socket" => record = none

\* The record holds the descriptor of the library if there is one, and nothing
\* else: none is lost on the paths on which connect fails, and none is closed a
\* second time, when it may be that of another file of the program.
DescriptorOwned == Libraries = {record} \ {none}

\* Descriptors of the rest of the program are not closed by the library, whose
\* steps change at.
ForeignUntouched ==
  [][\A d \in Descriptors :
       table[d] = "foreign" /\ table'[d] # "foreign" => UNCHANGED at]_vars

\* VisionaryDataStream.h: isConnected returns true when "the connection to the sensor
\* is established", which one the device has never accepted is not; TcpSocket.h:
\* connect, and with it open, fails when "the device cannot be contacted".
ConnectedMeansAccepted == [][GetLastError /\ answer' => accepted]_vars
=============================================================================
