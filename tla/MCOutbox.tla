------------------------------ MODULE MCOutbox ------------------------------
(***************************************************************************)
(* The instance of Outbox that TLC checks: one item with an                *)
(* acknowledgement, a progress message and a decision.                     *)
(***************************************************************************)
EXTENDS Outbox

CONSTANTS ack, progress, decision, item

MCItem == [k \in Keys |-> item]
MCPurpose == [k \in Keys |->
                CASE k = ack -> "ack" [] k = progress -> "progress" [] k = decision -> "decision"]
=============================================================================
