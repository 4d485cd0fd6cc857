---------------------------- MODULE EpochHistory ----------------------------
(***************************************************************************)
(* What is known about the reward epochs, and who writes it: the polls of  *)
(* the collector, the dispatcher that has announced an epoch, the importer *)
(* of public Telegram history, and the two backfill tools.  The tools are  *)
(* processes of their own and may run while the collector polls.           *)
(*                                                                         *)
(* One channel of messages and the node's whole reward history at a new    *)
(* epoch are assumed; amounts and times are abstracted to where they come  *)
(* from.                                                                   *)
(***************************************************************************)
EXTENDS Naturals, FiniteSetsExt

CONSTANTS
  LastReward,  \* bound: reward epochs of the network
  MaxImports,  \* bound: runs of the importer with --apply
  MaxBreaks    \* bound: crashes of the collector or of a tool

ASSUME HistoryBounds ==
  /\ LastReward \in Nat /\ LastReward >= 2
  /\ MaxImports \in Nat /\ MaxBreaks \in Nat

VARIABLES
  network,    \* the newest epoch whose rewards the nodes know
  rows,       \* the epochs table
  feed,       \* the epoch_available events
  outbox,     \* Telegram notification of the live event of each epoch
  poll,       \* local variables of run_once
  confirmed,  \* epochs whose live event has a successful poll with a timestamp
  halfway,    \* backfill_epoch_starts is between its two transactions
  taken,      \* history: observed starts the first transaction has ever replaced
  owing,      \* history: no run of the tool has ended well since the last began
  imports, breaks

historyVars ==
  <<network, rows, feed, outbox, poll, confirmed, halfway, taken, owing, imports, breaks>>

RewardEpochs == 1 .. LastReward

\* start is epoch_start_at with epoch_start_inferred as estimated, told is
\* announcement_at with announcement_inferred as guessed, paid says whether the
\* rewards are the node's.
EpochRow ==
  [known : BOOLEAN, paid : BOOLEAN,
   start : {"none", "schedule", "observed"}, estimated : BOOLEAN,
   told : {"none", "sent", "message", "gap"}, guessed : BOOLEAN]

\* A row the live collector inserts without a start; the columns of the
\* upgraded database have 1 as the default of epoch_start_inferred.
PaidRow(estimated) ==
  [known |-> TRUE, paid |-> TRUE, start |-> "none", estimated |-> estimated,
   told |-> "none", guessed |-> FALSE]
UnknownRow == [PaidRow(FALSE) EXCEPT !.known = FALSE, !.paid = FALSE]

LiveEvent(e) == [epoch |-> e, by |-> "live"]

KnownEpochs == {e \in RewardEpochs : rows[e].known}
Newest == Max(KnownEpochs \cup {0})

NoPoll == [pc |-> "idle"]

\* A new database, or one whose collector had announced epoch 2 before the
\* columns for starts and announcements were added.
HistoryInit ==
  /\ \/ /\ rows = [e \in RewardEpochs |-> UnknownRow]
        /\ feed = {} /\ confirmed = {}
        /\ outbox = [e \in RewardEpochs |-> "none"]
        /\ network = 1
     \/ /\ rows = [e \in RewardEpochs |-> IF e <= 2 THEN PaidRow(TRUE) ELSE UnknownRow]
        /\ feed = {LiveEvent(2)} /\ confirmed = {2}
        /\ outbox = [e \in RewardEpochs |-> IF e = 2 THEN "sent" ELSE "none"]
        /\ network = 2
  /\ poll = NoPoll
  /\ halfway = FALSE /\ taken = {} /\ owing = FALSE
  /\ imports = 0 /\ breaks = 0

tools == <<halfway, taken, owing, imports>>

NetworkAdvances ==
  /\ network < LastReward
  /\ network' = network + 1
  /\ UNCHANGED <<rows, feed, outbox, poll, confirmed, tools, breaks>>
-----------------------------------------------------------------------------
(***************************************************************************)
(* The collector                                                           *)
(***************************************************************************)

\* run_once reads the newest epoch and whether anything was observed before,
\* then the snapshot; a node may lag.
PollReads ==
  /\ poll = NoPoll
  /\ \E e \in 1 .. network :
       poll' = [pc |-> "read", previous |-> Newest, epoch |-> e,
                bootstrap |-> \A k \in KnownEpochs : ~rows[k].paid]
  /\ UNCHANGED <<network, rows, feed, outbox, confirmed, tools, breaks>>

\* One entry of epoch_history over what the table holds.
UpsertedEpoch(e, observed) ==
  LET row == rows[e]
  IN  IF observed THEN [row EXCEPT !.known = TRUE, !.paid = TRUE,
                                   !.start = "observed", !.estimated = FALSE]
      ELSE IF row.known THEN [row EXCEPT !.paid = TRUE]
           ELSE PaidRow(FALSE)

\* Mutant of IsNews: decided from what run_once has read.
IsNewsByRead == poll.previous # 0 /\ poll.epoch > poll.previous

\* record_observation looks at the table again.
IsNews == Newest # 0 /\ poll.epoch > Newest

\* timed: the momentum carries a plausible timestamp.  A poll may meet again the
\* momentum of one that was cut off.
PollRecords(timed) ==
  /\ poll.pc = "read"
  /\ LET e == poll.epoch
         ahead == poll.epoch > poll.previous
         observed == ahead /\ poll.previous # 0 /\ timed
         entries == IF ahead THEN 1 .. e ELSE {e}
     IN  /\ rows' = [k \in RewardEpochs |->
                      IF k \in entries THEN UpsertedEpoch(k, observed /\ k = e) ELSE rows[k]]
         /\ feed' = IF IsNews THEN feed \cup {LiveEvent(e)} ELSE feed
         /\ outbox' = IF IsNews /\ ~poll.bootstrap
                      THEN [outbox EXCEPT ![e] = "pending"] ELSE outbox
         /\ \E again \in BOOLEAN :
              poll' = [pc |-> "recorded",
                       joins |-> {k \in {e} : timed /\ (IsNews \/ (again /\ LiveEvent(e) \in feed))}]
  /\ UNCHANGED <<network, confirmed, tools, breaks>>

PollFinishes ==
  /\ poll.pc = "recorded"
  /\ confirmed' = confirmed \cup poll.joins
  /\ poll' = NoPoll
  /\ UNCHANGED <<network, rows, feed, outbox, tools, breaks>>

CollectorStops ==
  /\ breaks < MaxBreaks
  /\ breaks' = breaks + 1
  /\ poll # NoPoll
  /\ poll' = NoPoll
  /\ UNCHANGED <<network, rows, feed, outbox, confirmed, tools>>

\* Mutant of Told: the time of the latest message is the better one.
ToldLatest(row, how) == [row EXCEPT !.told = how, !.guessed = FALSE]

\* The first announcement stays.
Told(row, how) ==
  IF row.told = "none" THEN [row EXCEPT !.told = how, !.guessed = FALSE] ELSE row

\* mark_notification_sent
AnnouncementSent(e) ==
  /\ poll = NoPoll
  /\ outbox[e] = "pending"
  /\ outbox' = [outbox EXCEPT ![e] = "sent"]
  /\ rows' = [rows EXCEPT ![e] = Told(@, "sent")]
  /\ UNCHANGED <<network, feed, poll, confirmed, tools, breaks>>
-----------------------------------------------------------------------------
(***************************************************************************)
(* The tools                                                               *)
(***************************************************************************)

\* Epochs without a message between two that have one: --fill-missing-epochs.
Gaps(messages) == {e \in Min(messages) .. Max(messages) : e \notin messages}

Around(messages, e) ==
  <<Max({m \in messages : m < e}), Min({m \in messages : m > e})>>

\* Mutant of Merged: what is known of the announcement is left alone for good.
MergedUnmarked(row, how) ==
  [row EXCEPT !.start = IF @ = "none" THEN "schedule" ELSE @,
              !.told = IF @ = "none" THEN how ELSE @]

\* An imported record over a row that exists.  The estimate fills a missing
\* start and leaves its mark as it is; the mark of a guess is only ever set.
Merged(row, how) ==
  [row EXCEPT !.start = IF @ = "none" THEN "schedule" ELSE @,
              !.told = IF @ = "none" THEN how ELSE @,
              !.guessed = @ \/ how = "gap"]

Imported(row, how) ==
  IF row.known THEN Merged(row, how)
  ELSE [known |-> TRUE, paid |-> FALSE, start |-> "schedule", estimated |-> TRUE,
        told |-> how, guessed |-> how = "gap"]

\* The channel may have been trimmed or the crawl cut short: any of the
\* messages.  Events that are equal in every detail are not inserted again.
ImportHistory(messages, fill) ==
  /\ imports < MaxImports
  /\ imports' = imports + 1
  /\ LET gaps == IF fill THEN Gaps(messages) ELSE {}
     IN  /\ rows' = [e \in RewardEpochs |->
                      IF e \in messages THEN Imported(rows[e], "message")
                      ELSE IF e \in gaps THEN Imported(rows[e], "gap") ELSE rows[e]]
         /\ feed' = feed
              \cup {[epoch |-> e, by |-> "message"] : e \in messages}
              \cup {[epoch |-> e, by |-> "gap", around |-> Around(messages, e)] : e \in gaps}
  /\ UNCHANGED <<network, outbox, poll, confirmed, halfway, taken, owing, breaks>>

\* backfill_epoch_start_times: every row gets the scheduled start.
BackfillSchedule ==
  /\ ~halfway
  /\ KnownEpochs # {}
  /\ rows' = [e \in RewardEpochs |->
               IF rows[e].known
               THEN [rows[e] EXCEPT !.start = "schedule", !.estimated = TRUE]
               ELSE rows[e]]
  /\ taken' = taken \cup {e \in confirmed : rows[e].start = "observed"}
  /\ halfway' = TRUE /\ owing' = TRUE
  /\ UNCHANGED <<network, feed, outbox, poll, confirmed, imports, breaks>>

\* Mutant of BackfillObserved: fills in what is missing, as its sibling does.
BackfillObservedMissing ==
  /\ halfway
  /\ rows' = [e \in RewardEpochs |->
               IF e \in confirmed /\ rows[e].start = "none"
               THEN [rows[e] EXCEPT !.start = "observed", !.estimated = FALSE]
               ELSE rows[e]]
  /\ halfway' = FALSE /\ owing' = FALSE
  /\ UNCHANGED <<network, feed, outbox, poll, confirmed, taken, imports, breaks>>

\* backfill_observed_epoch_start_times: the starts that events and polls record.
BackfillObserved ==
  /\ halfway
  /\ rows' = [e \in RewardEpochs |->
               IF e \in confirmed
               THEN [rows[e] EXCEPT !.start = "observed", !.estimated = FALSE]
               ELSE rows[e]]
  /\ halfway' = FALSE /\ owing' = FALSE
  /\ UNCHANGED <<network, feed, outbox, poll, confirmed, taken, imports, breaks>>

\* The tool ends between its two transactions and leaves estimates; it may be
\* started again.
BackfillStops ==
  /\ breaks < MaxBreaks
  /\ breaks' = breaks + 1
  /\ halfway
  /\ halfway' = FALSE
  /\ UNCHANGED <<network, rows, feed, outbox, poll, confirmed, taken, owing, imports>>

\* backfill_announcement_times_from_notifications
BackfillAnnouncements ==
  /\ \E e \in KnownEpochs : outbox[e] = "sent" /\ rows[e].told = "none"
  /\ rows' = [e \in RewardEpochs |->
               IF outbox[e] = "sent" THEN Told(rows[e], "sent") ELSE rows[e]]
  /\ UNCHANGED <<network, feed, outbox, poll, confirmed, tools, breaks>>

HistoryNext ==
  \/ NetworkAdvances
  \/ PollReads
  \/ \E timed \in BOOLEAN : PollRecords(timed)
  \/ PollFinishes
  \/ CollectorStops
  \/ \E e \in RewardEpochs : AnnouncementSent(e)
  \/ \E messages \in SUBSET (1 .. network) \ {{}}, fill \in BOOLEAN :
       ImportHistory(messages, fill)
  \/ BackfillSchedule \/ BackfillObserved \/ BackfillStops
  \/ BackfillAnnouncements

HistorySpec == HistoryInit /\ [][HistoryNext]_historyVars
-----------------------------------------------------------------------------
(***************************************************************************)
(* Properties                                                              *)
(***************************************************************************)

HistoryTypeOK ==
  /\ network \in RewardEpochs
  /\ rows \in [RewardEpochs -> EpochRow]
  /\ outbox \in [RewardEpochs -> {"none", "pending", "sent"}]
  /\ poll \in {NoPoll} \cup [pc : {"recorded"}, joins : SUBSET RewardEpochs]
       \cup [pc : {"read"}, previous : Nat, epoch : RewardEpochs, bootstrap : BOOLEAN]
  /\ confirmed \in SUBSET RewardEpochs /\ taken \in SUBSET confirmed
  /\ {halfway, owing} \subseteq BOOLEAN

\* A time that was interpolated between two announcements never passes for a
\* real one, whichever of the importer and the collector came first.
InterpolatedIsMarked ==
  \A e \in RewardEpochs : rows[e].told = "gap" => rows[e].guessed

\* No tool and no poll replaces an announcement that was recorded, or takes the
\* node's rewards away.
RecordedIsKept ==
  [][\A e \in RewardEpochs :
       /\ rows[e].told # "none" => rows'[e].told = rows[e].told
       /\ rows[e].paid => rows'[e].paid]_historyVars

\* The first half of the backfill overwrites observed starts with estimates.  Each
\* that it ever took, of an epoch whose poll had succeeded, is there again, or is a
\* marked estimate while no run has got to its end since: a run that is cut off
\* loses nothing that the next complete one does not give back.
BackfillGivesBack ==
  \A e \in taken :
    \/ rows[e].start = "observed" /\ ~rows[e].estimated
    \/ owing /\ rows[e].start = "schedule" /\ rows[e].estimated

\* Subscribers hear of an epoch from the tracker only when nobody had recorded
\* it, so never again after an import or a lagging node.
AnnouncedOnce ==
  [][\A e \in RewardEpochs :
       outbox[e] = "none" /\ outbox'[e] # "none" => ~rows[e].known]_historyVars

\* SETUP.md: "Historical schedule-based epoch starts are stored in
\* epochs.epoch_start_at and marked by epoch_start_inferred = 1."
ScheduleIsMarked ==
  \A e \in RewardEpochs : rows[e].start = "schedule" => rows[e].estimated
=============================================================================
