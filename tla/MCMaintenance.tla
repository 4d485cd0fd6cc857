--------------------------- MODULE MCMaintenance ---------------------------
(* Instances of Maintenance for TLC. *)
EXTENDS Maintenance

\* A bound on the calendar: it begins with the first poll, as days before it
\* only shift what follows.
BeginsWithPoll == today > FirstDay => kept # {} \/ poll # NoPoll
=============================================================================
