----------------------------- MODULE MCTelegram -----------------------------
(* Instances of Telegram for TLC. *)
EXTENDS Telegram

\* One of two tables has a second page of all pillars.
MCPageCount ==
  [table \in 0 .. 1 |-> [status \in Statuses |->
     IF status = AllPillars /\ table = 0 THEN 2 ELSE 1]]
=============================================================================
