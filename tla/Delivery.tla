------------------------------ MODULE Delivery ------------------------------
(***************************************************************************)
(* What the notification outbox promises, without saying how: a message    *)
(* that was enqueued stays open until it is settled, it may be delivered   *)
(* (again) only while it is open, and it is settled as sent only after a   *)
(* delivery.  Outbox implements this module.                               *)
(***************************************************************************)
EXTENDS Naturals

CONSTANT Notifications

VARIABLES phase,      \* "absent", "open", "sent" or "failed", per message
          delivered   \* how many times the outside world received it

vars == <<phase, delivered>>

Phases == {"absent", "open", "sent", "failed"}

Init ==
  /\ phase = [n \in Notifications |-> "absent"]
  /\ delivered = [n \in Notifications |-> 0]

Enqueue(S) ==
  /\ \A n \in S : phase[n] = "absent"
  /\ phase' = [n \in Notifications |-> IF n \in S THEN "open" ELSE phase[n]]
  /\ UNCHANGED delivered

Deliver(n) ==
  /\ phase[n] = "open"
  /\ delivered' = [delivered EXCEPT ![n] = @ + 1]
  /\ UNCHANGED phase

SettleSent(n) ==
  /\ phase[n] = "open"
  /\ delivered[n] > 0
  /\ phase' = [phase EXCEPT ![n] = "sent"]
  /\ UNCHANGED delivered

GiveUp(n) ==
  /\ phase[n] = "open"
  /\ phase' = [phase EXCEPT ![n] = "failed"]
  /\ UNCHANGED delivered

Next ==
  \/ \E S \in SUBSET Notifications : Enqueue(S)
  \/ \E n \in Notifications : Deliver(n) \/ SettleSent(n) \/ GiveUp(n)

Spec == Init /\ [][Next]_vars
=============================================================================
