---------------------------- MODULE MCCollector ----------------------------
(* Instances of Collector for TLC. *)
EXTENDS Collector

CONSTANTS o1, o2, alpha, share, white, black

\* A network that lists no pillar or both.
MCListings == {{}, {o1, o2}}
=============================================================================
