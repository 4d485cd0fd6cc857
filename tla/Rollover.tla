------------------------------ MODULE Rollover ------------------------------
(***************************************************************************)
(* Observation over a network that moves on while it is read.  A snapshot  *)
(* is two answers (NodeRpcPool.collect_snapshot): the pillars with their   *)
(* counters of the current epoch, then the newest epoch whose rewards are  *)
(* known, which is the epoch before the current one.  The epoch may end    *)
(* before, between and after the two.                                      *)
(*                                                                         *)
(* The observations of module Observation, of which nothing is assumed,    *)
(* are kept beside them for a network whose state is unknown: nodes that   *)
(* lag or disagree.                                                        *)
(***************************************************************************)
EXTENDS Observation

CONSTANTS LastEpoch, MaxSlots  \* bounds: epochs and slots of the network

VARIABLES
  live,     \* the network: its epoch and the counters of each pillar, or Unknown
  answer,   \* the answer to embedded.pillar.getAll of the poll under way
  idle      \* history: the latest reads in a row that saw a pillar produce
            \* nothing, at most Threshold

rvars == <<vars, live, answer, idle>>

NoAnswer == <<>>
Unknown == [epoch |-> 0]

RInit ==
  /\ Init
  /\ \/ live = Unknown
     \/ live = [epoch |-> 2, produced |-> [o \in Owners |-> 0],
                expected |-> [o \in Owners |-> 0], busy |-> [o \in Owners |-> TRUE]]
  /\ answer = NoAnswer
  /\ idle = [o \in Owners |-> 0]

\* A slot of a pillar comes up and is used or missed.  busy says whether the
\* pillar produced anything since the last read.
Slot(o, used) ==
  /\ live # Unknown
  /\ live.expected[o] < MaxSlots
  /\ live' = [live EXCEPT !.expected[o] = @ + 1,
                          !.produced[o] = IF used THEN @ + 1 ELSE @,
                          !.busy[o] = @ \/ used]
  /\ UNCHANGED <<vars, answer, idle>>

\* The epoch ends and all counters start again.
NewEpoch ==
  /\ live # Unknown
  /\ live.epoch < LastEpoch
  /\ live' = [live EXCEPT !.epoch = @ + 1,
                          !.produced = [o \in Owners |-> 0],
                          !.expected = [o \in Owners |-> 0]]
  /\ UNCHANGED <<vars, answer, idle>>

\* node.get_all_pillars
ReadPillars ==
  /\ live # Unknown
  /\ answer = NoAnswer
  /\ answer' = [o \in Owners |->
                 [name |-> CHOOSE n \in Names : TRUE,
                  shares |-> CHOOSE s \in Shares : TRUE,
                  produced |-> live.produced[o], expected |-> live.expected[o]]]
  /\ idle' = [o \in Owners |->
                 IF live.busy[o] THEN 0 ELSE Min({idle[o] + 1, Threshold})]
  /\ live' = [live EXCEPT !.busy = [o \in Owners |-> FALSE]]
  /\ UNCHANGED vars

\* Mutant of ReadEpochAndRecord: every snapshot is filed under one epoch.
RecordUnderOneEpoch ==
  /\ answer # NoAnswer
  /\ \A o \in Owners :
       MissedMomentums(pillars[o], answer[o], 1) <= MissedBound
  /\ Observe(answer, 1, {})
  /\ answer' = NoAnswer
  /\ UNCHANGED <<live, idle>>

\* node.get_reward_epoch, then record_observation with both answers
ReadEpochAndRecord ==
  /\ answer # NoAnswer
  /\ \A o \in Owners :
       MissedMomentums(pillars[o], answer[o], live.epoch - 1) <= MissedBound
  /\ Observe(answer, live.epoch - 1, {})
  /\ answer' = NoAnswer
  /\ UNCHANGED <<live, idle>>

\* A snapshot of an unknown network may say anything.
ReadUnknown ==
  /\ live = Unknown
  /\ Next
  /\ UNCHANGED <<live, answer, idle>>

RNext ==
  \/ \E o \in Owners, used \in BOOLEAN : Slot(o, used)
  \/ NewEpoch
  \/ ReadPillars
  \/ ReadEpochAndRecord
  \/ ReadUnknown

RSpec == RInit /\ [][RNext]_rvars
-----------------------------------------------------------------------------
\* An alarm takes reads in a row that saw the pillar produce nothing, as many as the
\* threshold or one less: of all the misses counted, rollovers account for one.
AlarmsAreEarned ==
  [][live # Unknown => \A o \in Owners :
       pillars[o].status = "active" /\ pillars'[o].status = "inactive"
         => idle[o] >= Threshold - 1]_rvars
=============================================================================
