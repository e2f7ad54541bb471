----------------------- MODULE FluentdExporter_proofs -----------------------
(***************************************************************************)
(* For any retry count, number of descriptors, faults and calls: Export    *)
(* delivers its packets in order and at most once, connected_ never lies   *)
(* about the descriptor, and the log exporter leaks only the descriptors   *)
(* of connections it found broken.                                         *)
(***************************************************************************)
EXTENDS FluentdExporter, TLAPS

Inv == TypeOK /\ CallInProgress /\ ConnectedIsOpen

\* socket() returns a descriptor that was free, or Invalid when none is.
LEMMA NewFdIsFree ==
  ASSUME NewFd # Invalid
  PROVE  NewFd \in Fds /\ fds[NewFd] = "free"
<1>1. FreeFds # {} /\ NewFd \in FreeFds
  BY DEF NewFd
<1> QED
  BY <1>1 DEF FreeFds

LEMMA InvInit == Init => Inv
<1> SUFFICES ASSUME Init
             PROVE  Inv
  OBVIOUS
<1>1. TypeOK
  <2>1. fds \in [Fds -> FdStates]
    BY DEF Init, FdStates
  <2>2. stream \in Seq([packet : (1..MaxExports) \X (1..MaxPackets), framed : BOOLEAN])
    BY DEF Init
  <2>3. /\ export \in 0..MaxExports /\ total \in 0..MaxPackets
        /\ packet \in 1..(MaxPackets + 1) /\ retries \in 0..RetryCount
        /\ cuts \in 0..MaxCuts /\ resets \in 0..MaxResets
    BY ConstantsAssumption DEF Init
  <2> QED
    BY <2>1, <2>2, <2>3 DEF Init, TypeOK
<1>2. CallInProgress /\ ConnectedIsOpen
  BY DEF Init, CallInProgress, ConnectedIsOpen, Connected
<1> QED
  BY <1>1, <1>2 DEF Inv

\* A descriptor number is never Invalid.
LEMMA FdIsValid == \A f \in Fds : f # Invalid
BY ConstantsAssumption DEF Fds, Invalid

\* A write given up leaves Boolean marks.
LEMMA GivenUpTyped ==
  ASSUME sent \in BOOLEAN, torn \in BOOLEAN, sent' = FALSE, torn' = (torn \/ sent)
  PROVE  sent' \in BOOLEAN /\ torn' \in BOOLEAN
BY Zenon

LEMMA InvStep ==
  ASSUME Inv, [Next]_vars
  PROVE  Inv'
<1> USE ConstantsAssumption DEF vars, caller, socket, wire, faults
<1>1. CASE UNCHANGED vars
  BY <1>1 DEF Inv, TypeOK, CallInProgress, ConnectedIsOpen
<1>2. CASE Refuse
  BY <1>2 DEF Refuse, Inv, TypeOK, CallInProgress, ConnectedIsOpen
<1>3. ASSUME NEW k \in 1..MaxPackets, Export(k)
      PROVE  Inv'
  BY <1>3 DEF Export, Inv, TypeOK, CallInProgress, ConnectedIsOpen
<1>4. CASE Check
  <2>1. retries' \in 0..RetryCount
    BY <1>4 DEF Check, Inv, TypeOK
  <2>2. connected => sock \in Fds /\ fds[sock] \in Connected
    BY DEF Inv, ConnectedIsOpen
  <2>3. fds' \in [Fds -> FdStates] /\ connected' \in BOOLEAN
    BY <1>4 DEF Check, Inv, TypeOK, FdStates
  <2>4. TypeOK'
    BY <1>4, <2>1, <2>3 DEF Check, Inv, TypeOK
  <2>5. CallInProgress'
    BY <1>4 DEF Check, Inv, CallInProgress
  <2>6. ConnectedIsOpen'
    BY <1>4, <2>2 DEF Check, Inv, TypeOK, ConnectedIsOpen, Connected
  <2> QED
    BY <2>4, <2>5, <2>6 DEF Inv
<1>5. CASE GiveUp
  BY <1>5 DEF GiveUp, Inv, TypeOK, CallInProgress, ConnectedIsOpen
<1>6. CASE ConnectUp
  <2>1. NewFd \in Fds /\ fds[NewFd] = "free" /\ ~connected
    BY <1>6, NewFdIsFree DEF ConnectUp, Inv, ConnectedIsOpen
  <2>2. TypeOK'
    BY <1>6, <2>1 DEF ConnectUp, Inv, TypeOK, FdStates
  <2>3. CallInProgress'
    BY <1>6 DEF ConnectUp, Inv, CallInProgress
  <2>4. ConnectedIsOpen'
    BY <1>6, <2>1 DEF ConnectUp, Inv, TypeOK, ConnectedIsOpen, Connected
  <2> QED
    BY <2>2, <2>3, <2>4 DEF Inv
<1>7. CASE ConnectFails
  <2>1. NewFd # Invalid => NewFd \in Fds /\ fds[NewFd] = "free"
    BY NewFdIsFree
  <2>2. ~connected /\ connected' = connected
    BY <1>7 DEF ConnectFails, Inv, ConnectedIsOpen
  <2>3. TypeOK'
    BY <1>7, <2>1 DEF ConnectFails, Inv, TypeOK, FdStates
  <2>4. CallInProgress'
    BY <1>7 DEF ConnectFails, Inv, CallInProgress
  <2>5. ConnectedIsOpen'
    BY <1>7, <2>1, <2>2 DEF ConnectFails, Inv, TypeOK, ConnectedIsOpen, Connected
  <2> QED
    BY <2>3, <2>4, <2>5 DEF Inv
<1>8. CASE WriteWhole
  <2>1. connected /\ sock \in Fds
    BY <1>8 DEF WriteWhole, Inv, ConnectedIsOpen
  <2>2. export \in 1..MaxExports /\ packet \in 1..MaxPackets
    BY <1>8 DEF WriteWhole, Inv, TypeOK, CallInProgress
  <2>3. stream' \in Seq([packet : (1..MaxExports) \X (1..MaxPackets), framed : BOOLEAN])
    <3>1. [packet |-> <<export, packet>>, framed |-> ~torn]
            \in [packet : (1..MaxExports) \X (1..MaxPackets), framed : BOOLEAN]
      BY <2>2 DEF Inv, TypeOK
    <3> QED
      BY <1>8, <3>1 DEF WriteWhole, Inv, TypeOK
  <2>4. fds' = [fds EXCEPT ![sock] = "free"] /\ sock' = Invalid /\ connected' = FALSE
    BY <1>8 DEF WriteWhole, Disconnect
  <2>5. packet' \in 1..(MaxPackets + 1) /\ retries' \in 0..RetryCount
    BY <1>8, <2>2 DEF WriteWhole, Inv, TypeOK
  <2>6. TypeOK'
    BY <1>8, <2>3, <2>4, <2>5 DEF WriteWhole, Inv, TypeOK, FdStates
  <2>7. CallInProgress'
    BY <1>8, <2>2 DEF WriteWhole, Inv, TypeOK, CallInProgress
  <2>8. ConnectedIsOpen'
    BY <1>8, <2>1, <2>4 DEF WriteWhole, Inv, TypeOK, ConnectedIsOpen
  <2> QED
    BY <2>6, <2>7, <2>8 DEF Inv
<1>9. CASE WriteCut
  <2>1. cuts' \in 0..MaxCuts
    <3>1. cuts < MaxCuts /\ cuts' = cuts + 1 /\ cuts \in 0..MaxCuts
      BY <1>9 DEF WriteCut, Inv, TypeOK
    <3> QED
      BY <3>1
  <2>2. sent' \in BOOLEAN /\ torn' \in BOOLEAN
    BY <1>9, GivenUpTyped DEF WriteCut, Inv, TypeOK
  <2>3. TypeOK'
    BY <1>9, <2>1, <2>2 DEF WriteCut, Inv, TypeOK
  <2>4. CallInProgress' /\ ConnectedIsOpen'
    BY <1>9 DEF WriteCut, Inv, CallInProgress, ConnectedIsOpen
  <2> QED
    BY <2>3, <2>4 DEF Inv
<1>10. CASE WriteFails
  <2>1. connected /\ sock \in Fds
    BY <1>10 DEF WriteFails, Inv, ConnectedIsOpen
  <2>2. sent' \in BOOLEAN /\ torn' \in BOOLEAN
    BY <1>10, GivenUpTyped DEF WriteFails, Inv, TypeOK
  <2>3. fds' \in [Fds -> FdStates]
    BY <1>10 DEF WriteFails, Inv, TypeOK, FdStates
  <2>4. TypeOK'
    BY <1>10, <2>2, <2>3 DEF WriteFails, Inv, TypeOK
  <2>5. CallInProgress'
    BY <1>10 DEF WriteFails, Inv, CallInProgress
  <2>6. ConnectedIsOpen'
    BY <1>10, <2>1 DEF WriteFails, Inv, TypeOK, ConnectedIsOpen, Connected
  <2> QED
    BY <2>4, <2>5, <2>6 DEF Inv
<1>11. CASE Shutdown
  BY <1>11 DEF Shutdown, Inv, TypeOK, CallInProgress, ConnectedIsOpen
<1>12. CASE CollectorTurns
  BY <1>12 DEF CollectorTurns, Inv, TypeOK, CallInProgress, ConnectedIsOpen
<1>13. CASE Drop
  <2>1. connected /\ sock \in Fds
    BY <1>13 DEF Drop, Inv, ConnectedIsOpen
  <2>2. PICK s \in {"error", "hangup"} : fds' = [fds EXCEPT ![sock] = s]
    BY <1>13 DEF Drop
  <2>3. TypeOK'
    <3>1. resets' \in 0..MaxResets
      BY SMTT(20), <1>13 DEF Drop, Inv, TypeOK
    <3>2. fds' \in [Fds -> FdStates]
      BY <2>2 DEF Inv, TypeOK, FdStates
    <3> QED
      BY <1>13, <3>1, <3>2 DEF Drop, Inv, TypeOK
  <2>4. CallInProgress'
    BY <1>13 DEF Drop, Inv, CallInProgress
  <2>5. ConnectedIsOpen'
    BY <1>13, <2>1, <2>2 DEF Drop, Inv, TypeOK, ConnectedIsOpen, Connected
  <2> QED
    BY <2>3, <2>4, <2>5 DEF Inv
<1>14. CASE WritePart
  BY <1>14 DEF WritePart, Inv, TypeOK, CallInProgress, ConnectedIsOpen
<1> QED
  BY <1>1, <1>2, <1>3, <1>4, <1>5, <1>6, <1>7, <1>8, <1>9, <1>10, <1>11, <1>12, <1>13, <1>14
  DEF Next, Step

LEMMA InvHolds == Spec => []Inv
<1>1. Inv /\ [Next]_vars => Inv'
  BY InvStep
<1> QED
  BY <1>1, InvInit, PTL DEF Spec

\* Every variable of an exporter, its socket and the peer holds a value of its
\* type, whatever the peer does.
THEOREM ExporterTyped == Spec => []TypeOK
<1>1. Inv => TypeOK
  BY DEF Inv
<1> QED
  BY <1>1, InvHolds, PTL

\* connected_ names an open connection, and no live connection is forgotten.
THEOREM ConnectedTellsTruth == Spec => []ConnectedIsOpen
<1>1. Inv => ConnectedIsOpen
  BY DEF Inv
<1> QED
  BY <1>1, InvHolds, PTL

-----------------------------------------------------------------------------
\* What an exporter leaves open is a broken connection it was told about or, in
\* the trace exporter, a socket it could not connect.
THEOREM LeaksStayKnown == Spec => []LeaksAreKnown
<1>1. Init => LeaksAreKnown
  BY DEF Init, LeaksAreKnown
<1>2. Inv /\ LeaksAreKnown /\ [Next]_vars => LeaksAreKnown'
  <2> SUFFICES ASSUME Inv, LeaksAreKnown, [Next]_vars
               PROVE  \A f \in Fds : \/ fds'[f] \in {"free", "reported"}
                                     \/ exporter = "trace" /\ fds'[f] = "idle"
                                     \/ connected' /\ f = sock'
    <3> USE DEF vars, caller, socket, wire, faults
    <3>1. CASE Step
      <4>1. CASE Check \/ GiveUp \/ ConnectUp \/ ConnectFails
        BY <4>1 DEF Check, GiveUp, ConnectUp, ConnectFails, LeaksAreKnown
      <4>2. CASE WritePart \/ WriteWhole \/ WriteCut \/ WriteFails
        BY <4>2 DEF WritePart, WriteWhole, WriteCut, WriteFails, LeaksAreKnown
      <4> QED
        BY <3>1, <4>1, <4>2 DEF Step
    <3>2. CASE ~Step
      BY <3>2 DEF Next, Refuse, Export, Shutdown, CollectorTurns, Drop, LeaksAreKnown
    <3> QED
      BY <3>1, <3>2
  <2> USE DEF vars, caller, socket, wire, faults
  <2>1. fds \in [Fds -> FdStates] /\ ConnectedIsOpen
    BY DEF Inv, TypeOK
  <2>2. exporter \in {"log", "trace"}
    BY ConstantsAssumption DEF Inv, TypeOK
  <2>3. \A f \in Fds : \/ fds[f] \in {"free", "reported"}
                       \/ exporter = "trace" /\ fds[f] = "idle"
                       \/ connected /\ f = sock
    BY DEF LeaksAreKnown
  <2>4. CASE UNCHANGED <<connected, sock, fds>>
    BY <2>3, <2>4
  <2>5. CASE Check
    BY <2>1, <2>3, <2>5 DEF Check
  <2>6. CASE ConnectUp
    <3>1. NewFd \in Fds /\ ~connected
      BY <2>1, <2>6, NewFdIsFree DEF ConnectUp, ConnectedIsOpen
    <3> QED
      BY <2>1, <2>3, <2>6, <3>1 DEF ConnectUp
  <2>7. CASE ConnectFails
    BY <2>1, <2>2, <2>3, <2>7 DEF ConnectFails, ConnectedIsOpen
  <2>8. CASE WriteWhole
    BY <2>1, <2>3, <2>8 DEF WriteWhole, Disconnect
  <2>9. CASE WriteFails
    BY <2>1, <2>3, <2>9 DEF WriteFails, ConnectedIsOpen
  <2>10. CASE Drop
    BY <2>1, <2>3, <2>10 DEF Drop
  <2> QED
    BY <2>4, <2>5, <2>6, <2>7, <2>8, <2>9, <2>10
    DEF Next, Step, Refuse, Export, GiveUp, WritePart, WriteCut, Shutdown, CollectorTurns
<1> QED
  BY <1>1, <1>2, InvHolds, PTL DEF Spec

\* Without an interrupted send every packet is framed, however often the
\* connection breaks within one: the part is at the end of a dead connection.
THEOREM RetriesKeepFraming == Spec => []Framing
<1>1. Init => Framing
  BY DEF Init, Framing
<1>2. Inv /\ Framing /\ [Next]_vars => Framing'
  <2> SUFFICES ASSUME Inv, Framing, [Next]_vars, cuts' = 0
               PROVE  /\ torn' => ~connected' \/ fds'[sock'] # "up"
                      /\ \A i \in 1..Len(stream') : stream'[i].framed
    BY DEF Framing
  <2> USE DEF vars, caller, socket, wire, faults
  <2>1. fds \in [Fds -> FdStates] /\ (connected => sock \in Fds)
    BY DEF Inv, TypeOK, ConnectedIsOpen
  <2>2. cuts = 0 => /\ torn => ~connected \/ fds[sock] # "up"
                    /\ \A i \in 1..Len(stream) : stream[i].framed
    BY DEF Framing
  <2>3. CASE WriteWhole
    <3> DEFINE last == [packet |-> <<export, packet>>, framed |-> ~torn]
    <3>1. cuts = 0 /\ stream' = Append(stream, last) /\ torn' = FALSE
      BY <2>3 DEF WriteWhole
    <3>2. connected /\ fds[sock] = "up"
      BY <2>3 DEF WriteWhole, Inv, ConnectedIsOpen
    <3>3. last.framed /\ \A i \in 1..Len(stream) : stream[i].framed
      BY <2>2, <3>1, <3>2
    <3> HIDE DEF last
    <3>4. /\ Len(stream') = Len(stream) + 1 /\ stream'[Len(stream) + 1] = last
          /\ \A i \in 1..Len(stream) : stream'[i] = stream[i]
          /\ Len(stream) \in Nat
      BY <3>1 DEF Inv, TypeOK
    <3> QED
      BY <3>1, <3>3, <3>4
  <2>4. CASE WriteCut
    BY <2>4 DEF WriteCut, Inv, TypeOK
  <2>5. CASE WriteFails
    <3>1. connected /\ sock \in Fds
      BY <2>5 DEF WriteFails, Inv, ConnectedIsOpen
    <3>2. fds'[sock] # "up" /\ sock' = sock
      BY <2>1, <2>5, <3>1 DEF WriteFails
    <3> QED
      BY <2>2, <2>5, <3>2 DEF WriteFails
  <2>6. CASE ConnectUp
    BY <2>2, <2>6 DEF ConnectUp
  <2>7. CASE ConnectFails
    <3>1. ~connected'
      BY <2>7 DEF ConnectFails, Inv, ConnectedIsOpen
    <3> QED
      BY <2>2, <2>7, <3>1 DEF ConnectFails
  <2>8. CASE Check
    BY <2>1, <2>2, <2>8 DEF Check
  <2>9. CASE Drop
    <3>1. connected /\ sock \in Fds /\ fds'[sock] # "up" /\ sock' = sock
      BY <2>1, <2>9 DEF Drop
    <3> QED
      BY <2>2, <2>9, <3>1 DEF Drop
  <2>10. CASE UNCHANGED <<stream, torn, cuts, connected, sock, fds>>
    BY <2>2, <2>10
  <2> QED
    BY <2>3, <2>4, <2>5, <2>6, <2>7, <2>8, <2>9, <2>10
    DEF Next, Step, Refuse, Export, GiveUp, WritePart, Shutdown, CollectorTurns
<1> QED
  BY <1>1, <1>2, InvHolds, PTL DEF Spec

-----------------------------------------------------------------------------
(* Export implements OrderedDelivery.                                      *)

Written == [i \in 1..Len(stream) |-> stream[i].packet]

LEMMA WrittenGrows ==
  ASSUME NEW S, NEW s \in Seq(S), NEW e \in S
  PROVE  [i \in 1..Len(Append(s, e)) |-> Append(s, e)[i].packet]
           = Append([i \in 1..Len(s) |-> s[i].packet], e.packet)
<1> DEFINE w == [i \in 1..Len(s) |-> s[i].packet]
<1> DEFINE v == [i \in 1..Len(Append(s, e)) |-> Append(s, e)[i].packet]
<1>1. Len(s) \in Nat /\ Len(Append(s, e)) = Len(s) + 1
  OBVIOUS
<1>2. w \in Seq({s[i].packet : i \in 1..Len(s)}) /\ Len(w) = Len(s)
  BY <1>1
<1>3. Append(w, e.packet) = [i \in 1..(Len(s) + 1) |-> IF i = Len(s) + 1 THEN e.packet ELSE w[i]]
  BY <1>2
<1>4. v = [i \in 1..(Len(s) + 1) |-> IF i = Len(s) + 1 THEN e.packet ELSE s[i].packet]
  BY <1>1
<1> QED
  BY <1>3, <1>4

\* Packets are written in order and at most once; kSuccess means all of them
\* were, kFailure that the last ones were not.
THEOREM ExportDelivers == Spec => DeliverySpec
<1> USE DEF caller, socket, wire, faults
<1>1. Init => Delivery!Init
  BY DEF Init, Delivery!Init
<1>2. Inv /\ [Next]_vars => [Delivery!Next]_(Delivery!vars)
  <2> SUFFICES ASSUME Inv, [Next]_vars
               PROVE  Delivery!Next \/ UNCHANGED Delivery!vars
    OBVIOUS
  <2>1. CASE Refuse
    <3>1. Delivery!Call(0, "failure")
      BY <2>1 DEF Refuse, Delivery!Call, Inv, CallInProgress
    <3> QED
      BY <3>1 DEF Delivery!Next
  <2>2. ASSUME NEW k \in 1..MaxPackets, Export(k)
        PROVE  Delivery!Next
    <3>1. Delivery!Call(k, "pending")
      BY <2>2 DEF Export, Delivery!Call, Inv, CallInProgress
    <3> QED
      BY <3>1 DEF Delivery!Next
  <2>3. CASE GiveUp
    <3>1. Delivery!Fail
      BY <2>3 DEF GiveUp, Delivery!Fail, Inv, CallInProgress
    <3> QED
      BY <3>1 DEF Delivery!Next
  <2>4. CASE WriteWhole
    <3> DEFINE last == [packet |-> <<export, packet>>, framed |-> ~torn]
    <3>1. last \in [packet : (1..MaxExports) \X (1..MaxPackets), framed : BOOLEAN]
      BY <2>4, ConstantsAssumption DEF WriteWhole, Inv, TypeOK, CallInProgress
    <3>2. last.packet = <<export, packet>>
      OBVIOUS
    <3>3. stream' = Append(stream, last)
      BY <2>4 DEF WriteWhole
    <3> HIDE DEF last
    <3>4. Written' = Append(Written, <<export, packet>>)
      BY <3>1, <3>2, <3>3, WrittenGrows DEF Written, Inv, TypeOK
    <3>5. Delivery!Deliver
      BY <2>4, <3>4 DEF WriteWhole, Delivery!Deliver, Written, Inv, CallInProgress
    <3> QED
      BY <3>5 DEF Delivery!Next
  <2>5. CASE UNCHANGED <<caller, stream>>
    BY <2>5 DEF Delivery!vars
  <2> QED
    BY <2>1, <2>2, <2>3, <2>4, <2>5
    DEF Next, Step, vars, Check, ConnectUp, ConnectFails, WritePart, WriteCut, WriteFails, Shutdown,
        CollectorTurns, Drop
<1> QED
  BY <1>1, <1>2, InvHolds, PTL DEF Spec, DeliverySpec, Delivery!Spec
=============================================================================
