-------------------------- MODULE OrderedDelivery --------------------------
(***************************************************************************)
(* What a caller of FluentdExporter::Export may rely on: the packets of    *)
(* the call are written to the transport one after the other, each whole   *)
(* and at most once; kSuccess says all of them were, kFailure that the     *)
(* last ones were not.                                                     *)
(***************************************************************************)
EXTENDS Naturals, Sequences

CONSTANTS
  MaxExports,   \* bound: calls of Export
  MaxPackets    \* bound: packets of one call

VARIABLES
  export,   \* number of the current call; 0 before the first
  total,    \* packets the call has to write
  next,     \* the packet it writes next
  result,   \* "pending", "success" or "failure"
  written   \* every packet written whole, as <<call, packet>>, in order

vars == <<export, total, next, result, written>>

Init ==
  /\ export = 0
  /\ total = 0
  /\ next = 1
  /\ result = "failure"
  /\ written = <<>>

Call(k, res) ==
  /\ result # "pending"
  /\ export < MaxExports
  /\ export' = export + 1
  /\ total' = k
  /\ next' = 1
  /\ result' = res
  /\ UNCHANGED written

Deliver ==
  /\ result = "pending"
  /\ written' = Append(written, <<export, next>>)
  /\ next' = next + 1
  /\ result' = IF next = total THEN "success" ELSE "pending"
  /\ UNCHANGED <<export, total>>

Fail ==
  /\ result = "pending"
  /\ result' = "failure"
  /\ UNCHANGED <<export, total, next, written>>

Next ==
  \/ Call(0, "failure")
  \/ \E k \in 1..MaxPackets : Call(k, "pending")
  \/ Deliver
  \/ Fail

Spec == Init /\ [][Next]_vars
=============================================================================
