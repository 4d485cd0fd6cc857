---------------------------- MODULE PillarStatus ----------------------------
(***************************************************************************)
(* evaluate_pillar_status (functions/status.py): the status of a pillar    *)
(* from the row of the last snapshot and the counters of the new one.  The *)
(* early returns of the function are the five situations below, each       *)
(* excluding the ones before it.                                           *)
(***************************************************************************)
EXTENDS Naturals

CONSTANT Threshold  \* missed_momentums_threshold, at least one

ASSUME ThresholdAssumption == Threshold \in Nat \ {0}

\* No row, or the row of a dismantled pillar.
FirstSight(prev) == ~ prev.present

Produced(prev, now) == now.produced > prev.produced

\* A newer reward epoch, or the counter of produced momentums back at zero.
Reset(prev, now, epoch) ==
  \/ epoch > prev.epoch
  \/ now.produced = 0 /\ prev.produced > 0

\* A slot came up (the expected counter moved) and nothing was produced.
Miss(prev, now, epoch) ==
  /\ ~ FirstSight(prev)
  /\ ~ Reset(prev, now, epoch)
  /\ now.produced = prev.produced
  /\ now.expected # prev.expected

MissedMomentums(prev, now, epoch) ==
  IF Miss(prev, now, epoch) THEN prev.missed + 1
  ELSE IF ~ FirstSight(prev) /\ ~ Reset(prev, now, epoch)
             /\ now.produced = prev.produced
       THEN prev.missed
       ELSE 0

\* Mutant of Status: off by one, one miss too few is enough.
StatusOneEarly(prev, now, epoch) ==
  IF FirstSight(prev) \/ Produced(prev, now) THEN "active"
  ELSE IF Miss(prev, now, epoch) /\ prev.missed + 2 >= Threshold THEN "inactive"
       ELSE prev.status

Status(prev, now, epoch) ==
  IF FirstSight(prev) \/ Produced(prev, now) THEN "active"
  ELSE IF Miss(prev, now, epoch) /\ prev.missed + 1 >= Threshold THEN "inactive"
       ELSE prev.status
=============================================================================
