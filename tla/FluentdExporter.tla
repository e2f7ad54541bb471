-------------------------- MODULE FluentdExporter --------------------------
(***************************************************************************)
(* The Fluentd log and trace exporters over a stream socket: Export, Send  *)
(* with its retries, Connect, Disconnect and Shutdown, the descriptors     *)
(* they open and the faults of the connection between them.                *)
(*                                                                         *)
(* One thread exports at a time (the SDK's processors see to it); Shutdown *)
(* and the collector act between any two system calls.  A build without    *)
(* assertions is modelled: connect() on an invalid socket fails.           *)
(***************************************************************************)
EXTENDS Naturals, Sequences

CONSTANTS
  Exporters,    \* subset of {"log", "trace"}: the exporters under study
  RetryCount,   \* FluentdExporterOptions::retry_count
  MaxExports,   \* bound: calls of Export
  MaxPackets,   \* bound: packets of one call of the trace exporter (the span
                \* batch, then one per event name); the log exporter sends one
  MaxFds,       \* descriptors the process may open
  MaxCuts,      \* bound: sends that fail while the connection lives (EINTR)
  MaxResets     \* bound: connections the collector drops

ASSUME ConstantsAssumption ==
  /\ Exporters \subseteq {"log", "trace"}
  /\ RetryCount \in Nat
  /\ MaxExports \in Nat
  /\ MaxPackets \in Nat \ {0}
  /\ MaxFds \in Nat
  /\ MaxCuts \in Nat
  /\ MaxResets \in Nat

VARIABLES
  exporter,   \* "log" or "trace"
  pc,         \* where Send is: "idle" (no Export runs), "check" (the head of
              \* its loop), "connect" or "write"
  export,     \* number of the current call of Export
  total,      \* packets the call has to send
  packet,     \* the packet Send is given
  retries,    \* Send's retryCount
  result,     \* of Export: "pending", "success" or "failure"
  shutdown,   \* is_shutdown_
  connected,  \* connected_
  sock,       \* socket_: a descriptor or Invalid
  fds,        \* descriptor -> its state in the kernel
  collector,  \* TRUE: the collector accepts connections
  stream,     \* what reached the transport: each packet written whole, with
              \* whether it starts where a reader expects a packet
  sent,       \* writeall has sent a part of the packet, not yet the rest
  torn,       \* the connection ends within a packet that writeall gave up
  cuts, resets

caller == <<export, total, packet, result>>
socket == <<connected, sock, fds>>
wire == <<stream, sent, torn>>
faults == <<cuts, resets>>
vars == <<exporter, pc, caller, retries, shutdown, socket, collector, wire, faults>>

-----------------------------------------------------------------------------
(* Descriptors.  "idle": a socket that was never connected; "up"; "error": *)
(* dropped, with the error pending in SO_ERROR; "hangup": dropped with no  *)
(* pending error (a unix socket); "reported": dropped, and a call of the   *)
(* exporter has returned the error.                                        *)

Invalid == 0
Fds == 1..MaxFds
FdStates == {"free", "idle", "up", "error", "hangup", "reported"}
Connected == {"up", "error", "hangup", "reported"}

FreeFds == {f \in Fds : fds[f] = "free"}

\* socket(): a free descriptor (which one, makes no difference) or none.
NewFd == IF FreeFds = {} THEN Invalid ELSE CHOOSE f \in FreeFds : TRUE

Init ==
  /\ exporter \in Exporters
  /\ pc = "idle"
  /\ export = 0 /\ total = 0 /\ packet = 1 /\ result = "failure"
  /\ retries = 0
  /\ shutdown = FALSE
  /\ connected = FALSE /\ sock = Invalid /\ fds = [f \in Fds |-> "free"]
  /\ collector \in BOOLEAN
  /\ stream = <<>> /\ sent = FALSE /\ torn = FALSE
  /\ cuts = 0 /\ resets = 0

-----------------------------------------------------------------------------
\* Export after Shutdown, or of an empty batch.
Refuse ==
  /\ pc = "idle"
  /\ export < MaxExports
  /\ export' = export + 1
  /\ total' = 0
  /\ packet' = 1
  /\ result' = "failure"
  /\ UNCHANGED <<exporter, pc, retries, shutdown, socket, collector, wire, faults>>

Export(k) ==
  /\ pc = "idle"
  /\ export < MaxExports
  /\ ~shutdown
  /\ exporter = "log" => k = 1
  /\ export' = export + 1
  /\ total' = k
  /\ packet' = 1
  /\ result' = "pending"
  /\ retries' = RetryCount
  /\ pc' = "check"
  /\ UNCHANGED <<exporter, shutdown, socket, collector, wire, faults>>

\* Defect: an attempt that has to reconnect is not counted.
CheckUncounted ==
  LET failed == connected /\ fds[sock] = "error"
  IN /\ pc = "check"
     /\ retries > 0
     /\ connected' = (connected /\ ~failed)
     /\ retries' = IF connected' THEN retries - 1 ELSE retries
     /\ fds' = IF failed THEN [fds EXCEPT ![sock] = "reported"] ELSE fds
     /\ pc' = IF connected' THEN "write" ELSE "connect"
     /\ UNCHANGED <<exporter, caller, shutdown, sock, collector, wire, faults>>

\* The head of Send's loop.  getsockopt(SO_ERROR) returns a pending error and
\* clears it; the socket is not closed.
Check ==
  LET failed == connected /\ fds[sock] = "error"
  IN /\ pc = "check"
     /\ retries > 0
     /\ retries' = retries - 1
     /\ connected' = (connected /\ ~failed)
     /\ fds' = IF failed THEN [fds EXCEPT ![sock] = "reported"] ELSE fds
     /\ pc' = IF connected' THEN "write" ELSE "connect"
     /\ UNCHANGED <<exporter, caller, shutdown, sock, collector, wire, faults>>

\* Defect: Export ignores Send's result and goes on to its next packet.
GiveUpUnnoticed ==
  /\ pc = "check"
  /\ retries = 0
  /\ packet' = packet + 1
  /\ IF packet = total
     THEN result' = "success" /\ pc' = "idle" /\ UNCHANGED retries
     ELSE retries' = RetryCount /\ UNCHANGED <<pc, result>>
  /\ UNCHANGED <<exporter, export, total, shutdown, socket, collector, wire, faults>>

\* Send returns false, and Export kFailure without trying the other packets.
GiveUp ==
  /\ pc = "check"
  /\ retries = 0
  /\ result' = "failure"
  /\ pc' = "idle"
  /\ UNCHANGED <<exporter, export, total, packet, retries, shutdown, socket,
                 collector, wire, faults>>

\* Connect: socket_ is overwritten by a new socket, whatever it held.
ConnectUp ==
  /\ pc = "connect"
  /\ collector
  /\ NewFd # Invalid
  /\ sock' = NewFd
  /\ fds' = [fds EXCEPT ![NewFd] = "up"]
  /\ connected' = TRUE
  /\ torn' = FALSE
  /\ pc' = "write"
  /\ UNCHANGED <<exporter, caller, retries, shutdown, collector, stream, sent, faults>>

\* Defect: neither exporter closes the socket it could not connect.
ConnectFailsOpen ==
  /\ pc = "connect"
  /\ ~collector \/ NewFd = Invalid
  /\ sock' = NewFd
  /\ fds' = [f \in Fds |-> IF f = NewFd THEN "idle" ELSE fds[f]]
  /\ pc' = "check"
  /\ UNCHANGED <<exporter, caller, retries, shutdown, connected, collector, wire, faults>>

\* The log exporter closes the socket it could not connect, the trace
\* exporter does not.
ConnectFails ==
  /\ pc = "connect"
  /\ ~collector \/ NewFd = Invalid
  /\ IF exporter = "log" \/ NewFd = Invalid
     THEN sock' = Invalid /\ UNCHANGED fds
     ELSE sock' = NewFd /\ fds' = [fds EXCEPT ![NewFd] = "idle"]
  /\ pc' = "check"
  /\ UNCHANGED <<exporter, caller, retries, shutdown, connected, collector, wire, faults>>

\* Defect: connected_ stays set.
DisconnectForgets ==
  /\ UNCHANGED connected
  /\ fds' = [fds EXCEPT ![sock] = "free"]
  /\ sock' = Invalid

\* Disconnect, as Send calls it on a connected socket.
Disconnect ==
  /\ connected' = FALSE
  /\ fds' = [fds EXCEPT ![sock] = "free"]
  /\ sock' = Invalid

\* Defect: writeall calls send once and returns what it took.
WriteOnce ==
  /\ pc = "write"
  /\ fds[sock] = "up"
  /\ ~sent
  /\ torn' = TRUE
  /\ pc' = "check"
  /\ UNCHANGED <<exporter, caller, retries, shutdown, socket, collector, stream, sent, faults>>

\* A send takes a part of the packet; writeall goes on with the rest, to a
\* connection that may meanwhile break.  How many sends, makes no difference.
WritePart ==
  /\ pc = "write"
  /\ fds[sock] = "up"
  /\ ~sent
  /\ sent' = TRUE
  /\ UNCHANGED <<exporter, pc, caller, retries, shutdown, socket, collector, stream, torn, faults>>

\* A send takes the packet or the rest of it: Send disconnects and returns true, and
\* Export goes on to its next packet.
WriteWhole ==
  /\ pc = "write"
  /\ fds[sock] = "up"
  /\ stream' = Append(stream, [packet |-> <<export, packet>>, framed |-> ~torn])
  /\ Disconnect
  /\ sent' = FALSE /\ torn' = FALSE
  /\ packet' = packet + 1
  /\ IF packet = total
     THEN result' = "success" /\ pc' = "idle" /\ UNCHANGED retries
     ELSE pc' = "check" /\ retries' = RetryCount /\ UNCHANGED result
  /\ UNCHANGED <<exporter, export, total, shutdown, collector, faults>>

\* writeall breaks off because a send is interrupted; the connection lives,
\* with what was sent of the packet.
WriteCut ==
  /\ pc = "write"
  /\ fds[sock] = "up"
  /\ cuts < MaxCuts
  /\ cuts' = cuts + 1
  /\ sent' = FALSE /\ torn' = (torn \/ sent)
  /\ pc' = "check"
  /\ UNCHANGED <<exporter, caller, retries, shutdown, socket, collector, stream, resets>>

\* writeall breaks off because the connection is gone.  A TCP send returns
\* the pending error and clears it; a unix one returns EPIPE and leaves it.
\* What was sent before stays at the end of the dead connection.
WriteFails ==
  /\ pc = "write"
  /\ fds[sock] \in {"error", "hangup", "reported"}
  /\ \E s \in {"error", "reported"} :
       /\ s = "error" => fds[sock] = "error"
       /\ fds' = [fds EXCEPT ![sock] = s]
  /\ sent' = FALSE /\ torn' = (torn \/ sent)
  /\ pc' = "check"
  /\ UNCHANGED <<exporter, caller, retries, shutdown, connected, sock, collector,
                 stream, faults>>

Shutdown ==
  /\ ~shutdown
  /\ shutdown' = TRUE
  /\ UNCHANGED <<exporter, pc, caller, retries, socket, collector, wire, faults>>

-----------------------------------------------------------------------------
(* The collector and the network.                                          *)

CollectorTurns ==
  /\ collector' = ~collector
  /\ UNCHANGED <<exporter, pc, caller, retries, shutdown, socket, wire, faults>>

Drop ==
  /\ connected
  /\ fds[sock] = "up"
  /\ resets < MaxResets
  /\ resets' = resets + 1
  /\ fds' \in {[fds EXCEPT ![sock] = s] : s \in {"error", "hangup"}}
  /\ UNCHANGED <<exporter, pc, caller, retries, shutdown, connected, sock, collector,
                 wire, cuts>>

Step ==
  \/ Check \/ GiveUp \/ ConnectUp \/ ConnectFails
  \/ WritePart \/ WriteWhole \/ WriteCut \/ WriteFails

Next ==
  \/ Refuse
  \/ \E k \in 1..MaxPackets : Export(k)
  \/ Step
  \/ Shutdown
  \/ CollectorTurns
  \/ Drop

Spec == Init /\ [][Next]_vars

\* A call of Export that has begun is not suspended, and the system calls it
\* makes return: the sockets are blocking and have no time-out.
FairSpec == Spec /\ WF_vars(Step)
-----------------------------------------------------------------------------
\* Every variable holds a value of its type.
TypeOK ==
  /\ exporter \in Exporters
  /\ pc \in {"idle", "check", "connect", "write"}
  /\ export \in 0..MaxExports
  /\ total \in 0..MaxPackets
  /\ packet \in 1..(MaxPackets + 1)
  /\ retries \in 0..RetryCount
  /\ result \in {"pending", "success", "failure"}
  /\ shutdown \in BOOLEAN
  /\ connected \in BOOLEAN
  /\ sock \in Fds \cup {Invalid}
  /\ fds \in [Fds -> FdStates]
  /\ collector \in BOOLEAN
  /\ stream \in Seq([packet : (1..MaxExports) \X (1..MaxPackets), framed : BOOLEAN])
  /\ sent \in BOOLEAN
  /\ torn \in BOOLEAN
  /\ cuts \in 0..MaxCuts
  /\ resets \in 0..MaxResets

\* connected_ tells the truth about the descriptor: it names an open socket
\* that was connected, and no write is tried otherwise.  Nothing it does not
\* name is connected and unreported, so no live connection is ever forgotten.
ConnectedIsOpen ==
  /\ connected => sock \in Fds /\ fds[sock] \in Connected
  /\ pc = "write" => connected
  /\ pc = "connect" => ~connected
  /\ \A f \in Fds : fds[f] \in {"up", "error", "hangup"} => connected /\ f = sock

\* Export is under way exactly while its result is open, on a packet it has.
CallInProgress ==
  /\ result = "pending" <=> pc # "idle"
  /\ pc # "idle" => export > 0 /\ packet <= total

\* A descriptor that stays open is that of a connection getsockopt or a failed
\* send found broken, or one that the trace exporter could not connect; the log
\* exporter closes these "to avoid leaking file descriptors on failure".
LeaksAreKnown ==
  \A f \in Fds : \/ fds[f] \in {"free", "reported"}
                 \/ exporter = "trace" /\ fds[f] = "idle"
                 \/ connected /\ f = sock

\* Unless a send is interrupted, no packet follows a part of a packet: when
\* the connection breaks within one, the retry may write to the dead connection
\* again, but what a reader gets of the packet next starts a new connection.
Framing ==
  cuts = 0 =>
    /\ torn => ~connected \/ fds[sock] # "up"
    /\ \A i \in 1..Len(stream) : stream[i].framed

\* A call of Export returns, whatever the collector does.
ExportReturns == (pc # "idle") ~> (pc = "idle")

\* Export implements OrderedDelivery: packets in order, each at most once,
\* all of them on kSuccess and a strict prefix on kFailure.
Delivery == INSTANCE OrderedDelivery WITH
  next <- packet,
  written <- [i \in 1..Len(stream) |-> stream[i].packet]

DeliverySpec == Delivery!Spec

-----------------------------------------------------------------------------
(* What the sources say and the exporters do not do.                       *)

\* "Reconnect if not Okay": Send does not write again to a socket whose
\* failure it was told.
ReconnectIfNotOkay == pc = "write" => fds[sock] # "reported"

\* "return true if packet got delivered": what a reader of the stream finds
\* at the packet's place is the packet.
TrueMeansDelivered == \A i \in 1..Len(stream) : stream[i].framed
=============================================================================
