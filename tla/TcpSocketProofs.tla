-------------------------- MODULE TcpSocketProofs --------------------------
(***************************************************************************)
(* Proofs about TcpSocket, for any set of descriptors.                     *)
(***************************************************************************)
EXTENDS TcpSocket, TLAPS

\* A socket is made only where the record is empty (the last part of TypeOK): this is
\* what makes the ownership inductive.
IInv == TypeOK /\ DescriptorOwned

LEMMA InitIInv == Init => IInv
  BY NoneAssumption DEF Init, IInv, TypeOK, DescriptorOwned, Libraries

LEMMA NextIInv == ASSUME IInv, [Next]_vars PROVE IInv'
<1> USE NoneAssumption DEF IInv, TypeOK, DescriptorOwned, Libraries
<1>1. CASE Open
  BY <1>1 DEF Open, Destroy, Shutdown, kernel
<1>2. CASE CreateSocket
  <2>1. CASE Fail
    BY <1>2, <2>1 DEF CreateSocket, Fail, kernel
  <2>2. CASE ~Fail
    <3>1. PICK d \in Descriptors :
            table[d] = "free" /\ record' = d /\ table' = [table EXCEPT ![d] = "library"]
      BY <1>2, <2>2 DEF CreateSocket
    <3>2. Libraries = {}
      BY <1>2 DEF CreateSocket, Libraries
    <3>3. DescriptorOwned'
      BY <3>1, <3>2
    <3>4. TypeOK'
      BY <1>2, <2>2, <3>1 DEF CreateSocket
    <3>5. QED
      BY <3>3, <3>4
  <2>3. QED
    BY <2>1, <2>2
<1>3. CASE ParseAddress
  BY <1>3 DEF ParseAddress, Fail, kernel
<1>4. CASE SetNonBlocking
  BY <1>4 DEF SetNonBlocking, FailClosed, Shutdown, kernel
<1>5. CASE Connect
  BY <1>5 DEF Connect, FailClosed, Shutdown, kernel
<1>6. CASE Select
  BY <1>6 DEF Select, FailClosed, Shutdown, kernel
<1>7. CASE SetBlocking
  BY <1>7 DEF SetBlocking, FailClosed, Shutdown, kernel
<1>8. CASE SetTimeout
  BY <1>8 DEF SetTimeout, Fail, kernel
<1>9. CASE Discard \/ FinishClose
  BY <1>9 DEF Discard, FinishClose, Destroy, Shutdown, kernel
<1>10. CASE Close
  BY <1>10 DEF Close, Shutdown
<1>11. CASE SendProbe \/ GetLastError \/ Receive
  BY <1>11 DEF SendProbe, GetLastError, Receive
<1>12. CASE Device
  BY <1>12 DEF Device
<1>13. ASSUME NEW d \in Descriptors, Program(d) PROVE IInv'
  BY <1>13 DEF Program
<1>14. CASE UNCHANGED vars
  BY <1>14 DEF vars, kernel
<1>15. QED
  BY <1>1, <1>2, <1>3, <1>4, <1>5, <1>6, <1>7, <1>8, <1>9, <1>10, <1>11, <1>12,
     <1>13, <1>14 DEF Next, ConnectSteps

THEOREM Invariant == Spec => []IInv
  BY InitIInv, NextIInv, PTL DEF Spec

-----------------------------------------------------------------------------
\* Every variable keeps its type, and the steps that need a socket have one.
THEOREM TypeCorrect == Spec => []TypeOK
  BY Invariant, PTL DEF IInv

\* Whichever call of connect fails, no descriptor is lost or kept after it was
\* closed.
THEOREM OwnsItsDescriptor == Spec => []DescriptorOwned
  BY Invariant, PTL DEF IInv

\* The library closes no file of the rest of the program, although the program is
\* given the numbers that the library has just closed.
THEOREM LeavesForeignAlone == Spec => ForeignUntouched
<1>1. ASSUME IInv, [Next]_vars, NEW d \in Descriptors,
             table[d] = "foreign", table'[d] # "foreign"
      PROVE  UNCHANGED at
  <2>1. d # record
    BY <1>1, NoneAssumption DEF IInv, DescriptorOwned, Libraries
  <2>2. ~Shutdown
    BY <1>1, <2>1 DEF Shutdown
  <2>3. ~CreateSocket
    BY <1>1 DEF CreateSocket, Fail, kernel, IInv, TypeOK
  <2>4. ~(Open \/ ParseAddress \/ SetNonBlocking \/ Connect \/ Select \/ SetBlocking
          \/ SetTimeout \/ Discard \/ Close \/ FinishClose)
    BY <1>1, <2>2 DEF Open, ParseAddress, SetNonBlocking, Connect, Select, SetBlocking,
       SetTimeout, Discard, Close, FinishClose, Destroy, Fail, FailClosed, kernel
  <2>5. ~(SendProbe \/ GetLastError \/ Receive \/ Device \/ UNCHANGED vars)
    BY <1>1 DEF SendProbe, GetLastError, Receive, Device, vars, kernel
  <2>6. QED
    BY <1>1, <2>3, <2>4, <2>5 DEF Next, ConnectSteps, Program
<1>2. ASSUME IInv, [Next]_vars
      PROVE  [\A d \in Descriptors :
                table[d] = "foreign" /\ table'[d] # "foreign" => UNCHANGED at]_vars
  BY <1>1, <1>2
<1>3. QED
  BY <1>2, Invariant, PTL DEF Spec, ForeignUntouched
=============================================================================
