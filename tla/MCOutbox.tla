------------------------------ MODULE MCOutbox ------------------------------
(* Instances of Outbox for TLC. *)
EXTENDS Outbox

CONSTANTS n1, n2, e1

\* Both rows are Telegram routes of one epoch_available event.
MCEpochOf == [n \in Notifications |-> e1]
=============================================================================
