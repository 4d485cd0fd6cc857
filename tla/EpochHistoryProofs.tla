------------------------- MODULE EpochHistoryProofs -------------------------
(***************************************************************************)
(* Theorems about EpochHistory for every number of epochs, imports and     *)
(* crashes, and for databases older than the tables of announcements.      *)
(***************************************************************************)
EXTENDS EpochHistory, WellFoundedInduction, TLAPS

\* A bounded set of numbers has a greatest one.
LEMMA GreatestExists ==
  ASSUME NEW n \in Nat, NEW S \in SUBSET (0 .. n), S # {}
  PROVE  Max(S) \in S /\ \A k \in S : Max(S) >= k
<1> DEFINE R == OpToRel(<, Nat)
           T == {i \in Nat : n - i \in S}
<1>1. \E i \in T : \A j \in T : ~ (<<j, i>> \in R)
  <2>1. PICK k \in S : TRUE
    OBVIOUS
  <2>2. n - k \in Nat /\ n - (n - k) = k
    OBVIOUS
  <2>3. T \subseteq Nat /\ T # {}
    BY <2>1, <2>2
  <2> HIDE DEF T
  <2> QED
    BY <2>3, NatLessThanWellFounded, WFMin
<1>2. PICK i \in T : \A j \in T : ~ (<<j, i>> \in R)
  BY <1>1
<1>3. \A j \in T : ~ (j < i)
  BY <1>2 DEF OpToRel
<1>4. n - i \in S /\ \A k \in S : n - i >= k
  <2>1. ASSUME NEW k \in S
        PROVE  n - i >= k
    <3>1. n - k \in T
      OBVIOUS
    <3> QED
      BY <1>3, <3>1
  <2> QED
    BY <2>1
<1> QED
  BY <1>4 DEF Max

\* The newest known epoch.
LEMMA NewestIsGreatest ==
  Newest \in Nat /\ \A e \in RewardEpochs : rows[e].known => e <= Newest
<1>1. KnownEpochs \cup {0} \in SUBSET (0 .. LastReward) /\ LastReward \in Nat
  BY HistoryBounds DEF KnownEpochs, RewardEpochs
<1>2. /\ Max(KnownEpochs \cup {0}) \in KnownEpochs \cup {0}
      /\ \A k \in KnownEpochs \cup {0} : Max(KnownEpochs \cup {0}) >= k
  BY <1>1, GreatestExists
<1> DEFINE m == Max(KnownEpochs \cup {0})
<1>3. m \in Nat
  <2> HIDE DEF m
  <2> QED
    BY <1>1, <1>2 DEF m
<1>4. ASSUME NEW e \in RewardEpochs, rows[e].known
      PROVE  e <= m
  <2>1. m >= e
    BY <1>2, <1>4 DEF KnownEpochs
  <2> QED
    BY <1>3, <2>1, HistoryBounds DEF RewardEpochs
<1> QED
  BY <1>3, <1>4 DEF Newest
-----------------------------------------------------------------------------
\* What nobody has recorded is nowhere: no notification, no poll and no backfill
\* is about an epoch without a row.
NothingUnknown ==
  /\ \A e \in RewardEpochs :
       /\ ~rows[e].known => rows[e] = UnknownRow
       /\ outbox[e] # "none" => rows[e].known
  /\ \A e \in confirmed : rows[e].known
  /\ poll.pc = "recorded" => \A e \in poll.joins : rows[e].known

HistoryInv ==
  /\ HistoryTypeOK /\ NothingUnknown /\ InterpolatedIsMarked /\ BackfillGivesBack

\* What a step may do to a row, whoever takes it: the row stays, and so do the
\* rewards and the announcement; an observed start is lost to the backfill alone.
RowStep(old, new) ==
  /\ new \in EpochRow
  /\ old.known => new.known
  /\ ~new.known => new = old
  /\ old.paid => new.paid
  /\ old.told # "none" => new.told = old.told
  /\ (old.told = "gap" => old.guessed) => (new.told = "gap" => new.guessed)

Observed(row) == row.start = "observed" /\ ~row.estimated
Estimate(row) == row.start = "schedule" /\ row.estimated

\* An estimate that is marked as one gives way to an observation only.
KeepsStart(old, new) ==
  /\ Observed(old) => Observed(new)
  /\ Estimate(old) => Estimate(new) \/ Observed(new)

\* Each way to write a row.
LEMMA RowSteps ==
  ASSUME NEW row \in EpochRow, ~row.known => row = UnknownRow
  PROVE  /\ RowStep(row, row) /\ KeepsStart(row, row)
         /\ \A how \in {"message", "gap"} :
              RowStep(row, Imported(row, how)) /\ KeepsStart(row, Imported(row, how))
         /\ row.known => RowStep(row, Told(row, "sent")) /\ KeepsStart(row, Told(row, "sent"))
         /\ row.known =>
              RowStep(row, [row EXCEPT !.start = "schedule", !.estimated = TRUE])
         /\ row.known =>
              LET new == [row EXCEPT !.start = "observed", !.estimated = FALSE]
              IN  RowStep(row, new) /\ new.start = "observed" /\ ~new.estimated
<1>1. row \in [known : BOOLEAN, paid : BOOLEAN,
               start : {"none", "schedule", "observed"}, estimated : BOOLEAN,
               told : {"none", "sent", "message", "gap"}, guessed : BOOLEAN]
  BY DEF EpochRow
<1>2. RowStep(row, row) /\ KeepsStart(row, row)
  BY DEF RowStep, KeepsStart, Observed, Estimate
<1>3. ASSUME NEW how \in {"message", "gap"}
      PROVE  RowStep(row, Imported(row, how)) /\ KeepsStart(row, Imported(row, how))
  <2>1. CASE row.known
    BY <1>1, <2>1 DEF RowStep, KeepsStart, Observed, Estimate, Imported, Merged, EpochRow
  <2>2. CASE ~row.known
    BY <1>1, <2>2
    DEF RowStep, KeepsStart, Observed, Estimate, Imported, EpochRow, UnknownRow, PaidRow
  <2> QED
    BY <2>1, <2>2
<1>4. ASSUME row.known
      PROVE  RowStep(row, Told(row, "sent")) /\ KeepsStart(row, Told(row, "sent"))
  BY <1>1, <1>4 DEF RowStep, KeepsStart, Observed, Estimate, Told, EpochRow
<1>5. ASSUME row.known
      PROVE  RowStep(row, [row EXCEPT !.start = "schedule", !.estimated = TRUE])
  BY <1>1, <1>5 DEF RowStep, EpochRow
<1>6. ASSUME row.known
      PROVE  LET new == [row EXCEPT !.start = "observed", !.estimated = FALSE]
             IN  RowStep(row, new) /\ new.start = "observed" /\ ~new.estimated
  BY <1>1, <1>6 DEF RowStep, EpochRow
<1> QED
  BY <1>2, <1>3, <1>4, <1>5, <1>6

\* A poll upserts a row.
LEMMA UpsertStep ==
  ASSUME HistoryTypeOK, NothingUnknown, NEW e \in RewardEpochs, NEW observed \in BOOLEAN
  PROVE  /\ RowStep(rows[e], UpsertedEpoch(e, observed))
         /\ KeepsStart(rows[e], UpsertedEpoch(e, observed))
         /\ UpsertedEpoch(e, observed).known
<1>1. rows[e] \in [known : BOOLEAN, paid : BOOLEAN,
                   start : {"none", "schedule", "observed"}, estimated : BOOLEAN,
                   told : {"none", "sent", "message", "gap"}, guessed : BOOLEAN]
  BY DEF HistoryTypeOK, EpochRow
<1>2. ~rows[e].known => rows[e] = UnknownRow
  BY DEF NothingUnknown
<1>3. CASE rows[e].known
  BY <1>1, <1>3 DEF RowStep, KeepsStart, Observed, Estimate, UpsertedEpoch, EpochRow
<1>4. CASE ~rows[e].known
  BY <1>1, <1>2, <1>4
  DEF RowStep, KeepsStart, Observed, Estimate, UpsertedEpoch, EpochRow, UnknownRow, PaidRow
<1> QED
  BY <1>3, <1>4

\* Every step does to every row what RowStep says.
LEMMA RowsStep ==
  ASSUME HistoryTypeOK, NothingUnknown, [HistoryNext]_historyVars
  PROVE  /\ rows' \in [RewardEpochs -> EpochRow]
         /\ \A e \in RewardEpochs :
              /\ RowStep(rows[e], rows'[e])
              /\ BackfillSchedule \/ KeepsStart(rows[e], rows'[e])
<1>1. /\ rows \in [RewardEpochs -> EpochRow]
      /\ \A e \in RewardEpochs : ~rows[e].known => rows[e] = UnknownRow
      /\ \A e \in RewardEpochs : outbox[e] # "none" => rows[e].known
      /\ \A e \in confirmed : rows[e].known
  BY DEF HistoryTypeOK, NothingUnknown
<1> DEFINE Fine(e) == /\ RowStep(rows[e], rows'[e])
                      /\ BackfillSchedule \/ KeepsStart(rows[e], rows'[e])
<1>2. SUFFICES /\ rows' = [e \in RewardEpochs |-> rows'[e]]
               /\ \A e \in RewardEpochs : Fine(e)
  BY DEF RowStep
<1>3. CASE rows' = rows
  BY <1>1, <1>3, RowSteps
<1>4. ASSUME NEW timed \in BOOLEAN, PollRecords(timed)
      PROVE  /\ rows' = [e \in RewardEpochs |-> rows'[e]]
             /\ \A e \in RewardEpochs : Fine(e)
  <2> DEFINE ahead == poll.epoch > poll.previous
             observed == ahead /\ poll.previous # 0 /\ timed
             entries == IF ahead THEN 1 .. poll.epoch ELSE {poll.epoch}
  <2>1. rows' = [k \in RewardEpochs |->
                  IF k \in entries THEN UpsertedEpoch(k, observed /\ k = poll.epoch)
                  ELSE rows[k]]
    BY <1>4 DEF PollRecords
  <2>2. ASSUME NEW k \in RewardEpochs
        PROVE  Fine(k)
    <3>1. rows'[k] = rows[k] \/ rows'[k] = UpsertedEpoch(k, observed /\ k = poll.epoch)
      BY <2>1
    <3>2. (observed /\ k = poll.epoch) \in BOOLEAN
      OBVIOUS
    <3>3. \A seen \in BOOLEAN :
             /\ RowStep(rows[k], UpsertedEpoch(k, seen))
             /\ KeepsStart(rows[k], UpsertedEpoch(k, seen))
      BY UpsertStep
    <3>4. RowStep(rows[k], rows[k]) /\ KeepsStart(rows[k], rows[k])
      BY <1>1, RowSteps
    <3> HIDE DEF observed
    <3> QED
      BY <3>1, <3>2, <3>3, <3>4
  <2> QED
    BY <2>1, <2>2
<1>5. ASSUME NEW n \in RewardEpochs, AnnouncementSent(n)
      PROVE  \A e \in RewardEpochs : Fine(e)
  <2>1. rows' = [rows EXCEPT ![n] = Told(rows[n], "sent")] /\ rows[n].known
    BY <1>1, <1>5 DEF AnnouncementSent
  <2>2. RowStep(rows[n], Told(rows[n], "sent")) /\ KeepsStart(rows[n], Told(rows[n], "sent"))
    BY <1>1, <2>1, RowSteps
  <2>3. \A e \in RewardEpochs : RowStep(rows[e], rows[e]) /\ KeepsStart(rows[e], rows[e])
    BY <1>1, RowSteps
  <2> QED
    BY <1>1, <2>1, <2>2, <2>3
<1>6. ASSUME NEW messages, NEW fill, ImportHistory(messages, fill)
      PROVE  /\ rows' = [e \in RewardEpochs |-> rows'[e]]
             /\ \A e \in RewardEpochs : Fine(e)
  <2> DEFINE gaps == IF fill THEN Gaps(messages) ELSE {}
  <2>1. rows' = [e \in RewardEpochs |->
                  IF e \in messages THEN Imported(rows[e], "message")
                  ELSE IF e \in gaps THEN Imported(rows[e], "gap") ELSE rows[e]]
    BY <1>6 DEF ImportHistory
  <2>2. ASSUME NEW e \in RewardEpochs
        PROVE  Fine(e)
    <3>1. rows'[e] \in {rows[e], Imported(rows[e], "message"), Imported(rows[e], "gap")}
      BY <2>1
    <3>2. RowStep(rows[e], rows[e]) /\ KeepsStart(rows[e], rows[e])
      BY <1>1, RowSteps
    <3>3. \A how \in {"message", "gap"} : /\ RowStep(rows[e], Imported(rows[e], how))
                                          /\ KeepsStart(rows[e], Imported(rows[e], how))
      BY <1>1, RowSteps
    <3> QED
      BY <3>1, <3>2, <3>3
  <2> QED
    BY <2>1, <2>2
<1>7. CASE BackfillSchedule
  <2>1. rows' = [e \in RewardEpochs |->
                  IF rows[e].known
                  THEN [rows[e] EXCEPT !.start = "schedule", !.estimated = TRUE]
                  ELSE rows[e]]
    BY <1>7 DEF BackfillSchedule
  <2>2. \A e \in RewardEpochs : RowStep(rows[e], rows'[e])
    BY <1>1, <2>1, RowSteps
  <2> QED
    BY <1>7, <2>1, <2>2
<1>8. CASE BackfillObserved
  <2>1. rows' = [e \in RewardEpochs |->
                  IF e \in confirmed
                  THEN [rows[e] EXCEPT !.start = "observed", !.estimated = FALSE]
                  ELSE rows[e]]
    BY <1>8 DEF BackfillObserved
  <2>2. ASSUME NEW e \in RewardEpochs
        PROVE  Fine(e)
    <3>1. CASE e \in confirmed
      <4>1. /\ RowStep(rows[e], rows'[e]) /\ rows'[e].start = "observed"
            /\ ~rows'[e].estimated
        BY <1>1, <2>1, <3>1, RowSteps
      <4> QED
        BY <4>1 DEF KeepsStart, Observed, Estimate
    <3>2. CASE e \notin confirmed
      BY <1>1, <2>1, <3>2, RowSteps
    <3> QED
      BY <3>1, <3>2
  <2> QED
    BY <2>1, <2>2
<1>9. CASE BackfillAnnouncements
  <2>1. rows' = [e \in RewardEpochs |->
                  IF outbox[e] = "sent" THEN Told(rows[e], "sent") ELSE rows[e]]
    BY <1>9 DEF BackfillAnnouncements
  <2>2. ASSUME NEW e \in RewardEpochs
        PROVE  Fine(e)
    <3>1. rows'[e] = rows[e] \/ (rows[e].known /\ rows'[e] = Told(rows[e], "sent"))
      BY <1>1, <2>1
    <3> QED
      BY <1>1, <3>1, RowSteps
  <2> QED
    BY <2>1, <2>2
<1> HIDE DEF Fine
<1>10. ASSUME NEW n \in RewardEpochs, AnnouncementSent(n)
       PROVE  rows' = [e \in RewardEpochs |-> rows'[e]]
  BY <1>1, <1>10 DEF AnnouncementSent
<1>11. CASE \/ NetworkAdvances \/ PollReads \/ PollFinishes \/ CollectorStops
            \/ BackfillStops \/ UNCHANGED historyVars
  BY <1>3, <1>11 DEF NetworkAdvances, PollReads, PollFinishes, CollectorStops,
     BackfillStops, historyVars
<1>12. CASE \E timed \in BOOLEAN : PollRecords(timed)
  BY <1>4, <1>12
<1>13. CASE \E e \in RewardEpochs : AnnouncementSent(e)
  BY <1>5, <1>10, <1>13
<1>14. CASE \E messages \in SUBSET (1 .. network) \ {{}}, fill \in BOOLEAN :
              ImportHistory(messages, fill)
  BY <1>6, <1>14
<1> QED
  BY <1>7, <1>8, <1>9, <1>11, <1>12, <1>13, <1>14 DEF HistoryNext

\* Every step keeps the types.
LEMMA HistoryTypes ==
  ASSUME HistoryTypeOK, NothingUnknown, [HistoryNext]_historyVars
  PROVE  HistoryTypeOK'
<1>1. rows' \in [RewardEpochs -> EpochRow]
  BY RowsStep
<1>2. network' \in RewardEpochs
  <2>1. ASSUME NEW timed \in BOOLEAN, PollRecords(timed)
        PROVE  network' = network
    BY <2>1 DEF PollRecords
  <2>2. ASSUME NEW messages, NEW fill, ImportHistory(messages, fill)
        PROVE  network' = network
    BY <2>2 DEF ImportHistory
  <2>3. NetworkAdvances \/ network' = network
    BY <2>1, <2>2 DEF HistoryNext, historyVars, PollReads, PollFinishes, CollectorStops,
       AnnouncementSent, BackfillSchedule, BackfillObserved, BackfillStops,
       BackfillAnnouncements
  <2> QED
    BY <2>3, HistoryBounds DEF HistoryTypeOK, NetworkAdvances, RewardEpochs
<1>3. CASE UNCHANGED <<outbox, poll, confirmed, taken, halfway, owing>>
  BY <1>1, <1>2, <1>3 DEF HistoryTypeOK
<1>4. CASE PollReads
  <2>1. PICK e \in 1 .. network :
          poll' = [pc |-> "read", previous |-> Newest, epoch |-> e,
                   bootstrap |-> \A k \in KnownEpochs : ~rows[k].paid]
    BY <1>4 DEF PollReads
  <2>2. e \in RewardEpochs
    BY HistoryBounds DEF HistoryTypeOK, RewardEpochs
  <2>3. (\A k \in KnownEpochs : ~rows[k].paid) \in BOOLEAN
    OBVIOUS
  <2>4. poll' \in [pc : {"read"}, previous : Nat, epoch : RewardEpochs, bootstrap : BOOLEAN]
    BY <2>1, <2>2, <2>3, NewestIsGreatest
  <2> QED
    BY <1>1, <1>2, <1>4, <2>4 DEF PollReads, HistoryTypeOK, tools
<1>5. ASSUME NEW timed \in BOOLEAN, PollRecords(timed)
      PROVE  HistoryTypeOK'
  <2>1. poll.epoch \in RewardEpochs
    BY <1>5 DEF PollRecords, HistoryTypeOK, NoPoll
  <2>2. poll' \in [pc : {"recorded"}, joins : SUBSET RewardEpochs]
    BY <1>5, <2>1 DEF PollRecords
  <2>3. outbox' \in [RewardEpochs -> {"none", "pending", "sent"}]
    BY <1>5 DEF PollRecords, HistoryTypeOK
  <2> QED
    BY <1>1, <1>2, <1>5, <2>2, <2>3 DEF PollRecords, HistoryTypeOK, tools
<1>6. CASE PollFinishes
  <2>1. poll.joins \in SUBSET RewardEpochs
    BY <1>6 DEF PollFinishes, HistoryTypeOK, NoPoll
  <2> QED
    BY <1>1, <1>2, <1>6, <2>1 DEF PollFinishes, HistoryTypeOK, tools
<1>7. CASE CollectorStops
  BY <1>1, <1>2, <1>7 DEF CollectorStops, HistoryTypeOK, tools
<1>8. CASE \E e \in RewardEpochs : AnnouncementSent(e)
  BY <1>1, <1>2, <1>8 DEF AnnouncementSent, HistoryTypeOK, tools
<1>9. CASE BackfillSchedule
  BY <1>1, <1>2, <1>9 DEF BackfillSchedule, HistoryTypeOK
<1>10. CASE BackfillObserved \/ BackfillStops
  BY <1>1, <1>2, <1>10 DEF BackfillObserved, BackfillStops, HistoryTypeOK
<1> QED
  BY <1>3, <1>4, <1>5, <1>6, <1>7, <1>8, <1>9, <1>10
  DEF HistoryNext, historyVars, tools, NetworkAdvances, ImportHistory, BackfillAnnouncements

\* No step records something about an epoch without a row.
LEMMA NothingUnknownStep ==
  ASSUME HistoryTypeOK, NothingUnknown, [HistoryNext]_historyVars
  PROVE  NothingUnknown'
<1>1. \A e \in RewardEpochs :
        /\ ~rows'[e].known => rows'[e] = UnknownRow
        /\ rows[e].known => rows'[e].known
  BY RowsStep DEF RowStep, NothingUnknown
<1>2. ASSUME NEW timed \in BOOLEAN, PollRecords(timed)
      PROVE  /\ rows'[poll.epoch].known /\ poll.epoch \in RewardEpochs
             /\ outbox' \in {outbox, [outbox EXCEPT ![poll.epoch] = "pending"]}
             /\ poll'.joins \subseteq {poll.epoch}
             /\ confirmed' = confirmed
  <2>1. poll.epoch \in RewardEpochs
    BY <1>2 DEF PollRecords, HistoryTypeOK, NoPoll
  <2> DEFINE ahead == poll.epoch > poll.previous
             observed == ahead /\ poll.previous # 0 /\ timed
  <2>2. rows'[poll.epoch] = UpsertedEpoch(poll.epoch, observed /\ poll.epoch = poll.epoch)
    <3>1. poll.epoch \in (IF ahead THEN 1 .. poll.epoch ELSE {poll.epoch})
      BY <2>1 DEF RewardEpochs
    <3> QED
      BY <1>2, <2>1, <3>1 DEF PollRecords
  <2>3. \A seen \in BOOLEAN : UpsertedEpoch(poll.epoch, seen).known
    BY <2>1, UpsertStep
  <2>4. (observed /\ poll.epoch = poll.epoch) \in BOOLEAN
    OBVIOUS
  <2>5. rows'[poll.epoch].known
    <3> HIDE DEF observed
    <3> QED
      BY <2>2, <2>3, <2>4
  <2>6. /\ outbox' \in {outbox, [outbox EXCEPT ![poll.epoch] = "pending"]}
        /\ confirmed' = confirmed
    BY <1>2 DEF PollRecords
  <2>7. poll'.joins \subseteq {poll.epoch}
    BY <1>2 DEF PollRecords
  <2> QED
    BY <2>1, <2>5, <2>6, <2>7
<1>3. CASE \E timed \in BOOLEAN : PollRecords(timed)
  BY <1>1, <1>2, <1>3 DEF NothingUnknown, HistoryTypeOK
<1>4. CASE PollFinishes
  BY <1>1, <1>4 DEF PollFinishes, NothingUnknown, HistoryTypeOK, NoPoll
<1>5. CASE \E e \in RewardEpochs : AnnouncementSent(e)
  BY <1>1, <1>5 DEF AnnouncementSent, NothingUnknown, HistoryTypeOK
<1>6. CASE PollReads \/ CollectorStops
  BY <1>1, <1>6 DEF PollReads, CollectorStops, NothingUnknown, HistoryTypeOK, NoPoll
<1>7. CASE UNCHANGED <<outbox, poll, confirmed>>
  BY <1>1, <1>7 DEF NothingUnknown, HistoryTypeOK, NoPoll
<1> QED
  BY <1>3, <1>4, <1>5, <1>6, <1>7
  DEF HistoryNext, historyVars, tools, NetworkAdvances, ImportHistory, BackfillAnnouncements,
      BackfillSchedule, BackfillObserved, BackfillStops

\* A start that was given back stays, and one that is owed stays an estimate until
\* the backfill gives it back.
LEMMA BackfillStep ==
  ASSUME HistoryInv, [HistoryNext]_historyVars
  PROVE  BackfillGivesBack'
<1>1. /\ rows \in [RewardEpochs -> EpochRow]
      /\ taken \subseteq RewardEpochs /\ taken \subseteq confirmed
      /\ \A e \in taken : Observed(rows[e]) \/ (owing /\ Estimate(rows[e]))
  BY DEF HistoryInv, HistoryTypeOK, BackfillGivesBack, Observed, Estimate
<1>2. CASE BackfillSchedule
  <2>1. \A e \in confirmed : rows[e].known /\ e \in RewardEpochs
    BY DEF HistoryInv, HistoryTypeOK, NothingUnknown
  <2>2. \A e \in RewardEpochs : rows[e].known => Estimate(rows'[e])
    BY <1>1, <1>2 DEF BackfillSchedule, EpochRow, Estimate
  <2>3. taken' \subseteq confirmed /\ owing'
    BY <1>1, <1>2 DEF BackfillSchedule
  <2> QED
    BY <2>1, <2>2, <2>3 DEF BackfillGivesBack, Estimate
<1>3. CASE BackfillObserved
  <2>1. \A e \in confirmed :
          e \in RewardEpochs => rows'[e].start = "observed" /\ ~rows'[e].estimated
    BY <1>1, <1>3 DEF BackfillObserved, EpochRow
  <2> QED
    BY <1>1, <1>3, <2>1 DEF BackfillObserved, BackfillGivesBack
<1>4. CASE taken' = taken /\ owing' = owing /\ ~BackfillSchedule
  <2>1. \A e \in RewardEpochs : KeepsStart(rows[e], rows'[e])
    BY <1>4, RowsStep DEF HistoryInv
  <2>2. \A e \in taken : Observed(rows'[e]) \/ (owing /\ Estimate(rows'[e]))
    BY <1>1, <2>1 DEF KeepsStart
  <2> QED
    BY <1>4, <2>2 DEF BackfillGivesBack, Observed, Estimate
<1>5. ASSUME NEW timed \in BOOLEAN, PollRecords(timed)
      PROVE  taken' = taken /\ owing' = owing
  BY <1>5 DEF PollRecords, tools
<1>6. ASSUME NEW messages, NEW fill, ImportHistory(messages, fill)
      PROVE  taken' = taken /\ owing' = owing
  BY <1>6 DEF ImportHistory
<1>7. \/ BackfillSchedule \/ BackfillObserved
      \/ taken' = taken /\ owing' = owing
  BY <1>5, <1>6 DEF HistoryNext, historyVars, tools, NetworkAdvances, PollReads,
     PollFinishes, CollectorStops, AnnouncementSent, BackfillAnnouncements, BackfillStops
<1> QED
  BY <1>2, <1>3, <1>4, <1>7

LEMMA HistoryInvariant == HistorySpec => []HistoryInv
<1>1. HistoryInit => HistoryInv
  <2> SUFFICES ASSUME HistoryInit
               PROVE  HistoryInv
    OBVIOUS
  <2>1. /\ UnknownRow \in EpochRow /\ ~UnknownRow.known /\ UnknownRow.told = "none"
        /\ PaidRow(TRUE) \in EpochRow /\ PaidRow(TRUE).known /\ PaidRow(TRUE).told = "none"
    BY DEF UnknownRow, PaidRow, EpochRow
  <2>2. {1, 2} \subseteq RewardEpochs
    BY HistoryBounds DEF RewardEpochs
  <2>3. /\ \A e \in RewardEpochs : rows[e] \in {UnknownRow, PaidRow(TRUE)}
        /\ rows \in [RewardEpochs -> EpochRow]
        /\ confirmed \subseteq {2} /\ network \in {1, 2}
        /\ \A e \in RewardEpochs : outbox[e] # "none" => e = 2
        /\ \A e \in confirmed : rows[e] = PaidRow(TRUE)
        /\ \A e \in RewardEpochs : outbox[e] # "none" => rows[e] = PaidRow(TRUE)
        /\ outbox \in [RewardEpochs -> {"none", "pending", "sent"}]
    <3>1. CASE /\ rows = [e \in RewardEpochs |-> UnknownRow]
               /\ feed = {} /\ confirmed = {}
               /\ outbox = [e \in RewardEpochs |-> "none"]
               /\ network = 1
      BY <2>1, <3>1
    <3>2. CASE /\ rows = [e \in RewardEpochs |-> IF e <= 2 THEN PaidRow(TRUE) ELSE UnknownRow]
               /\ feed = {LiveEvent(2)} /\ confirmed = {2}
               /\ outbox = [e \in RewardEpochs |-> IF e = 2 THEN "sent" ELSE "none"]
               /\ network = 2
      <4>1. 2 \in RewardEpochs /\ RewardEpochs \subseteq Nat
        BY <2>2 DEF RewardEpochs
      <4>2. /\ \A e \in RewardEpochs : rows[e] = IF e <= 2 THEN PaidRow(TRUE) ELSE UnknownRow
            /\ rows \in [RewardEpochs -> EpochRow]
        BY <2>1, <3>2
      <4>3. /\ \A e \in RewardEpochs : outbox[e] # "none" => e = 2
            /\ outbox \in [RewardEpochs -> {"none", "pending", "sent"}]
        BY <3>2
      <4>4. rows[2] = PaidRow(TRUE)
        <5>1. rows[2] = IF 2 <= 2 THEN PaidRow(TRUE) ELSE UnknownRow
          BY <4>1, <4>2
        <5> QED
          BY <5>1
      <4> QED
        BY <3>2, <4>2, <4>3, <4>4
    <3> QED
      BY <3>1, <3>2 DEF HistoryInit
  <2>4. poll = NoPoll /\ halfway = FALSE /\ taken = {} /\ owing = FALSE
    BY DEF HistoryInit
  <2>5. HistoryTypeOK
    BY <2>2, <2>3, <2>4 DEF HistoryTypeOK
  <2>6. NothingUnknown
    BY <2>1, <2>2, <2>3, <2>4 DEF NothingUnknown, NoPoll
  <2> QED
    BY <2>1, <2>3, <2>4, <2>5, <2>6 DEF HistoryInv, InterpolatedIsMarked, BackfillGivesBack
<1>2. HistoryInv /\ [HistoryNext]_historyVars => HistoryInv'
  <2> SUFFICES ASSUME HistoryInv, [HistoryNext]_historyVars
               PROVE  HistoryInv'
    OBVIOUS
  <2>1. HistoryTypeOK' /\ NothingUnknown' /\ BackfillGivesBack'
    BY HistoryTypes, NothingUnknownStep, BackfillStep DEF HistoryInv
  <2>2. InterpolatedIsMarked'
    BY RowsStep DEF HistoryInv, InterpolatedIsMarked, RowStep
  <2> QED
    BY <2>1, <2>2 DEF HistoryInv
<1> QED
  BY <1>1, <1>2, PTL DEF HistorySpec

\* What the tables, the poll and the backfill may hold.
THEOREM HistoryTypeCorrect == HistorySpec => []HistoryTypeOK
<1>1. HistoryInv => HistoryTypeOK
  BY DEF HistoryInv
<1> QED
  BY <1>1, HistoryInvariant, PTL

\* An interpolated time never passes for a real one, whoever came first.
THEOREM GuessesAreMarked == HistorySpec => []InterpolatedIsMarked
<1>1. HistoryInv => InterpolatedIsMarked
  BY DEF HistoryInv
<1> QED
  BY <1>1, HistoryInvariant, PTL

\* Observed starts that the backfill took are given back by the next run that gets
\* to its end, and are marked estimates until then.
THEOREM StartsAreGivenBack == HistorySpec => []BackfillGivesBack
<1>1. HistoryInv => BackfillGivesBack
  BY DEF HistoryInv
<1> QED
  BY <1>1, HistoryInvariant, PTL

\* No tool and no poll replaces an announcement or takes rewards away.
THEOREM HistoryIsKept == HistorySpec => RecordedIsKept
<1>1. HistoryInv /\ [HistoryNext]_historyVars =>
        [\A e \in RewardEpochs :
           /\ rows[e].told # "none" => rows'[e].told = rows[e].told
           /\ rows[e].paid => rows'[e].paid]_historyVars
  BY RowsStep DEF HistoryInv, RowStep
<1> QED
  BY <1>1, HistoryInvariant, PTL DEF HistorySpec, RecordedIsKept

\* An epoch that anybody has recorded is not announced again.
THEOREM AnnouncementsAreNew == HistorySpec => AnnouncedOnce
<1>1. HistoryInv /\ [HistoryNext]_historyVars =>
        [\A e \in RewardEpochs :
           outbox[e] = "none" /\ outbox'[e] # "none" => ~rows[e].known]_historyVars
  <2> SUFFICES ASSUME HistoryInv, HistoryNext, NEW e \in RewardEpochs,
                      outbox[e] = "none", outbox'[e] # "none"
               PROVE  ~rows[e].known
    OBVIOUS
  <2>1. outbox \in [RewardEpochs -> {"none", "pending", "sent"}]
    BY DEF HistoryInv, HistoryTypeOK
  <2>2. ASSUME NEW timed \in BOOLEAN, PollRecords(timed)
        PROVE  ~rows[e].known
    <3>1. IsNews /\ e = poll.epoch
      BY <2>1, <2>2 DEF PollRecords
    <3>2. e > Newest
      BY <3>1 DEF IsNews
    <3> QED
      BY <3>2, NewestIsGreatest DEF RewardEpochs
  <2>3. ASSUME NEW n \in RewardEpochs, AnnouncementSent(n)
        PROVE  FALSE
    BY <2>1, <2>3 DEF AnnouncementSent
  <2>4. ASSUME NEW messages, NEW fill, ImportHistory(messages, fill)
        PROVE  FALSE
    BY <2>4 DEF ImportHistory
  <2> QED
    BY <2>2, <2>3, <2>4 DEF HistoryNext, NetworkAdvances, PollReads, PollFinishes,
       CollectorStops, BackfillSchedule, BackfillObserved, BackfillStops,
       BackfillAnnouncements, tools
<1> QED
  BY <1>1, HistoryInvariant, PTL DEF HistorySpec, AnnouncedOnce
=============================================================================
