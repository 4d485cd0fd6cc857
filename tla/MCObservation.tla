--------------------------- MODULE MCObservation ---------------------------
(***************************************************************************)
(* An instance for TLC of what becomes of the answers of the nodes: the    *)
(* pillars that one transaction compares and stores, and the reward epochs *)
(* that the collector shares with the tools.  The two instances share no   *)
(* state, so a behaviour moves one and leaves the other as it began.       *)
(***************************************************************************)
EXTENDS Rollover, EpochHistory

VARIABLE part

MCInit == part \in {"pillars", "epochs"} /\ RInit /\ HistoryInit

MCNext ==
  /\ UNCHANGED part
  /\ \/ part = "pillars" /\ RNext /\ UNCHANGED historyVars
     \/ part = "epochs" /\ HistoryNext /\ UNCHANGED rvars

MCSpec == MCInit /\ [][MCNext]_<<rvars, historyVars, part>>
=============================================================================
