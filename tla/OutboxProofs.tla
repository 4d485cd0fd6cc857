---------------------------- MODULE OutboxProofs ----------------------------
(***************************************************************************)
(* Theorems about Outbox for every set of rows and dispatchers and every   *)
(* bound that satisfies the assumptions of that module.                    *)
(***************************************************************************)
EXTENDS Outbox, FiniteSetTheorems, TLAPS

\* A dispatcher knows a row exactly while it holds it; the row's age is then
\* the time it has been held, so it cannot be stale.
HolderInv ==
  \A d \in Dispatchers :
    /\ pc[d] \in Holding => /\ cur[d] \in Notifications
                            /\ status[cur[d]] = "sending"
                            /\ age[cur[d]] = held[d]
                            /\ held[d] <= SendBound
    /\ pc[d] = "replied" => delivered[cur[d]] > 0

HeldBySome(n) == \E d \in Dispatchers : Holds(d, n)
RepliedFor(n) == \E d \in Dispatchers : pc[d] = "replied" /\ cur[d] = n

\* attempts: a row that waits has one left, an orphaned claim has paid with a
\* fault for the attempt that will take it over.
AttemptsInv ==
  \A n \in Notifications :
    /\ status[n] = "pending" => attempts[n] < MaxAttempts
    /\ status[n] = "absent" => attempts[n] = 0
    /\ status[n] = "sending" /\ ~ HeldBySome(n)
         => attempts[n] < MaxAttempts + faults[n]
    /\ attempts[n] <= MaxAttempts + faults[n]

\* delivered: one delivery without a fault is either recorded or about to be.
DeliveredInv ==
  \A n \in Notifications :
    IF status[n] = "sent" \/ RepliedFor(n)
    THEN delivered[n] <= 1 + faults[n]
    ELSE delivered[n] <= faults[n]

IInv ==
  /\ TypeOK
  /\ HolderInv
  /\ ExclusiveClaim
  /\ AttemptsInv
  /\ DeliveredInv
  /\ SettledTruthfully
-----------------------------------------------------------------------------
\* The initial states satisfy the inductive invariant.
LEMMA InitIInv == Init => IInv
  BY BoundsAssumption, ValuesAssumption
  DEF Init, IInv, TypeOK, HolderInv, ExclusiveClaim, Holds, AttemptsInv,
      HeldBySome, DeliveredInv, RepliedFor, SettledTruthfully, Holding, RowStatus

\* Every step keeps the types.
LEMMA TypeStep ==
  ASSUME TypeOK, HolderInv, [Next]_vars
  PROVE  TypeOK'
<1>1. ASSUME NEW S \in SUBSET Notifications, Enqueue(S)
      PROVE  TypeOK'
  <2>1. Cardinality(Inserted) \in Nat
    BY BoundsAssumption, FS_Subset, FS_CardinalityType DEF Inserted
  <2>2. QED
    BY <1>1, <2>1 DEF Enqueue, TypeOK, RowStatus, procs
<1>2. CASE Tick
  BY <1>2, BoundsAssumption
  DEF Tick, Min2, Holding, TypeOK, HolderInv, RowStatus
<1>3. ASSUME NEW d \in Dispatchers, Fetch(d)
      PROVE  TypeOK'
  BY <1>3
  DEF Fetch, rows, TypeOK, HolderInv, Holding, RowStatus
<1>4. ASSUME NEW d \in Dispatchers, NEW n \in Notifications, Claim(d, n)
      PROVE  TypeOK'
  BY <1>4, BoundsAssumption
  DEF Claim, Take, TypeOK, HolderInv, Holding, RowStatus
<1>5. ASSUME NEW d \in Dispatchers, SendAccepted(d)
      PROVE  TypeOK'
  BY <1>5
  DEF SendAccepted, rows, TypeOK, HolderInv, Holding, RowStatus
<1>6. ASSUME NEW d \in Dispatchers, SendRejected(d)
      PROVE  TypeOK'
  BY <1>6
  DEF SendRejected, rows, TypeOK, HolderInv, Holding, RowStatus
<1>7. ASSUME NEW d \in Dispatchers, SendReplyLost(d)
      PROVE  TypeOK'
  BY <1>7
  DEF SendReplyLost, Fault, rows, TypeOK, HolderInv, Holding, RowStatus
<1>8. ASSUME NEW d \in Dispatchers, MarkSent(d)
      PROVE  TypeOK'
  BY <1>8
  DEF MarkSent, Mark, TypeOK, HolderInv, Holding, RowStatus
<1>9. ASSUME NEW d \in Dispatchers, MarkSentRaises(d)
      PROVE  TypeOK'
  BY <1>9
  DEF MarkSentRaises, Fault, rows, TypeOK, HolderInv, Holding, RowStatus
<1>10. ASSUME NEW d \in Dispatchers, MarkFailed(d)
      PROVE  TypeOK'
  BY <1>10
  DEF MarkFailed, Mark, TypeOK, HolderInv, Holding, RowStatus
<1>11. ASSUME NEW d \in Dispatchers, Finish(d)
      PROVE  TypeOK'
  BY <1>11
  DEF Finish, rows, TypeOK, HolderInv, Holding, RowStatus
<1>12. ASSUME NEW d \in Dispatchers, Abandon(d)
      PROVE  TypeOK'
  BY <1>12
  DEF Abandon, Holding, Fault, rows, TypeOK, HolderInv, RowStatus
<1>13. CASE UNCHANGED vars
  BY <1>13
  DEF vars, rows, procs, TypeOK, HolderInv, Holding, RowStatus
<1>14. QED
  BY <1>1, <1>2, <1>3, <1>4, <1>5, <1>6, <1>7, <1>8, <1>9, <1>10, <1>11, <1>12, <1>13
  DEF Next, Dispatch, Send

\* Every step keeps holders in step with their rows, and apart.
\* A stale claim has no holder: its age would be at most SendBound.
LEMMA HolderStep ==
  ASSUME TypeOK, HolderInv, ExclusiveClaim, [Next]_vars
  PROVE  HolderInv' /\ ExclusiveClaim'
<1>1. ASSUME NEW S \in SUBSET Notifications, Enqueue(S)
      PROVE  HolderInv' /\ ExclusiveClaim'
  BY <1>1
  DEF Enqueue, Inserted, procs, TypeOK, HolderInv, ExclusiveClaim, Holds,
      Holding
<1>2. CASE Tick
  BY <1>2, BoundsAssumption, LeaseCoversSend
  DEF Tick, Min2, TypeOK, HolderInv, ExclusiveClaim, Holds, Holding
<1>3. ASSUME NEW d \in Dispatchers, Fetch(d)
      PROVE  HolderInv' /\ ExclusiveClaim'
  BY <1>3
  DEF Fetch, rows, TypeOK, HolderInv, ExclusiveClaim, Holds, Holding
<1>4. ASSUME NEW d \in Dispatchers, NEW n \in Notifications, Claim(d, n)
      PROVE  HolderInv' /\ ExclusiveClaim'
  BY <1>4, BoundsAssumption, LeaseCoversSend
  DEF Claim, Claimable, Take, TypeOK, HolderInv, ExclusiveClaim, Holds, Holding
<1>5. ASSUME NEW d \in Dispatchers, SendAccepted(d)
      PROVE  HolderInv' /\ ExclusiveClaim'
  BY <1>5
  DEF SendAccepted, rows, TypeOK, HolderInv, ExclusiveClaim, Holds, Holding
<1>6. ASSUME NEW d \in Dispatchers, SendRejected(d)
      PROVE  HolderInv' /\ ExclusiveClaim'
  BY <1>6
  DEF SendRejected, rows, TypeOK, HolderInv, ExclusiveClaim, Holds, Holding
<1>7. ASSUME NEW d \in Dispatchers, SendReplyLost(d)
      PROVE  HolderInv' /\ ExclusiveClaim'
  BY <1>7
  DEF SendReplyLost, Fault, rows, TypeOK, HolderInv, ExclusiveClaim, Holds,
      Holding
<1>8. ASSUME NEW d \in Dispatchers, MarkSent(d)
      PROVE  HolderInv' /\ ExclusiveClaim'
  BY <1>8
  DEF MarkSent, Mark, TypeOK, HolderInv, ExclusiveClaim, Holds, Holding
<1>9. ASSUME NEW d \in Dispatchers, MarkSentRaises(d)
      PROVE  HolderInv' /\ ExclusiveClaim'
  BY <1>9
  DEF MarkSentRaises, Fault, rows, TypeOK, HolderInv, ExclusiveClaim, Holds,
      Holding
<1>10. ASSUME NEW d \in Dispatchers, MarkFailed(d)
      PROVE  HolderInv' /\ ExclusiveClaim'
  BY <1>10
  DEF MarkFailed, Mark, TypeOK, HolderInv, ExclusiveClaim, Holds, Holding
<1>11. ASSUME NEW d \in Dispatchers, Finish(d)
      PROVE  HolderInv' /\ ExclusiveClaim'
  BY <1>11
  DEF Finish, rows, TypeOK, HolderInv, ExclusiveClaim, Holds, Holding
<1>12. ASSUME NEW d \in Dispatchers, Abandon(d)
      PROVE  HolderInv' /\ ExclusiveClaim'
  BY <1>12
  DEF Abandon, Holding, Fault, rows, TypeOK, HolderInv, ExclusiveClaim, Holds
<1>13. CASE UNCHANGED vars
  BY <1>13
  DEF vars, rows, procs, TypeOK, HolderInv, ExclusiveClaim, Holds, Holding
<1>14. QED
  BY <1>1, <1>2, <1>3, <1>4, <1>5, <1>6, <1>7, <1>8, <1>9, <1>10, <1>11, <1>12, <1>13
  DEF Next, Dispatch, Send

\* Every step keeps the account of attempts.
LEMMA AttemptsStep ==
  ASSUME TypeOK, HolderInv, ExclusiveClaim, AttemptsInv, [Next]_vars
  PROVE  AttemptsInv'
<1>1. ASSUME NEW S \in SUBSET Notifications, Enqueue(S)
      PROVE  AttemptsInv'
  BY <1>1, BoundsAssumption
  DEF Enqueue, Inserted, procs, TypeOK, HolderInv, ExclusiveClaim,
      AttemptsInv, HeldBySome, Holds, Holding
<1>2. CASE Tick
  BY <1>2
  DEF Tick, Min2, Holding, TypeOK, HolderInv, ExclusiveClaim, AttemptsInv,
      HeldBySome, Holds
<1>3. ASSUME NEW d \in Dispatchers, Fetch(d)
      PROVE  AttemptsInv'
  BY <1>3
  DEF Fetch, rows, TypeOK, HolderInv, ExclusiveClaim, AttemptsInv, HeldBySome,
      Holds, Holding
<1>4. ASSUME NEW d \in Dispatchers, NEW n \in Notifications, Claim(d, n)
      PROVE  AttemptsInv'
  BY <1>4, BoundsAssumption, LeaseCoversSend
  DEF Claim, Claimable, Take, TypeOK, HolderInv, ExclusiveClaim, AttemptsInv,
      HeldBySome, Holds, Holding
<1>5. ASSUME NEW d \in Dispatchers, SendAccepted(d)
      PROVE  AttemptsInv'
  BY <1>5
  DEF SendAccepted, rows, TypeOK, HolderInv, ExclusiveClaim, AttemptsInv,
      HeldBySome, Holds, Holding
<1>6. ASSUME NEW d \in Dispatchers, SendRejected(d)
      PROVE  AttemptsInv'
  BY <1>6
  DEF SendRejected, rows, TypeOK, HolderInv, ExclusiveClaim, AttemptsInv,
      HeldBySome, Holds, Holding
<1>7. ASSUME NEW d \in Dispatchers, SendReplyLost(d)
      PROVE  AttemptsInv'
  BY <1>7, BoundsAssumption
  DEF SendReplyLost, Fault, rows, TypeOK, HolderInv, ExclusiveClaim,
      AttemptsInv, HeldBySome, Holds, Holding
<1>8. ASSUME NEW d \in Dispatchers, MarkSent(d)
      PROVE  AttemptsInv'
  BY <1>8
  DEF MarkSent, Mark, TypeOK, HolderInv, ExclusiveClaim, AttemptsInv,
      HeldBySome, Holds, Holding
<1>9. ASSUME NEW d \in Dispatchers, MarkSentRaises(d)
      PROVE  AttemptsInv'
  BY <1>9, BoundsAssumption
  DEF MarkSentRaises, Fault, rows, TypeOK, HolderInv, ExclusiveClaim,
      AttemptsInv, HeldBySome, Holds, Holding
<1>10. ASSUME NEW d \in Dispatchers, MarkFailed(d)
      PROVE  AttemptsInv'
  BY <1>10, BoundsAssumption
  DEF MarkFailed, Mark, TypeOK, HolderInv, ExclusiveClaim, AttemptsInv,
      HeldBySome, Holds, Holding
<1>11. ASSUME NEW d \in Dispatchers, Finish(d)
      PROVE  AttemptsInv'
  BY <1>11
  DEF Finish, rows, TypeOK, HolderInv, ExclusiveClaim, AttemptsInv,
      HeldBySome, Holds, Holding
<1>12. ASSUME NEW d \in Dispatchers, Abandon(d)
      PROVE  AttemptsInv'
  BY <1>12, BoundsAssumption
  DEF Abandon, Holding, Fault, rows, TypeOK, HolderInv, ExclusiveClaim,
      AttemptsInv, HeldBySome, Holds
<1>13. CASE UNCHANGED vars
  BY <1>13
  DEF vars, rows, procs, TypeOK, HolderInv, ExclusiveClaim, AttemptsInv,
      HeldBySome, Holds, Holding
<1>14. QED
  BY <1>1, <1>2, <1>3, <1>4, <1>5, <1>6, <1>7, <1>8, <1>9, <1>10, <1>11, <1>12, <1>13
  DEF Next, Dispatch, Send

\* Every step keeps the account of deliveries.
LEMMA DeliveredStep ==
  ASSUME TypeOK, HolderInv, ExclusiveClaim, DeliveredInv, [Next]_vars
  PROVE  DeliveredInv'
<1>1. ASSUME NEW S \in SUBSET Notifications, Enqueue(S)
      PROVE  DeliveredInv'
  BY <1>1
  DEF Enqueue, Inserted, procs, TypeOK, HolderInv, ExclusiveClaim,
      DeliveredInv, RepliedFor, Holds, Holding
<1>2. CASE Tick
  BY <1>2, BoundsAssumption
  DEF Tick, Min2, Holding, TypeOK, HolderInv, ExclusiveClaim, DeliveredInv,
      RepliedFor, Holds
<1>3. ASSUME NEW d \in Dispatchers, Fetch(d)
      PROVE  DeliveredInv'
  BY <1>3
  DEF Fetch, rows, TypeOK, HolderInv, ExclusiveClaim, DeliveredInv,
      RepliedFor, Holds, Holding
<1>4. ASSUME NEW d \in Dispatchers, NEW n \in Notifications, Claim(d, n)
      PROVE  DeliveredInv'
  BY <1>4, BoundsAssumption, LeaseCoversSend
  DEF Claim, Claimable, Take, TypeOK, HolderInv, ExclusiveClaim, DeliveredInv,
      RepliedFor, Holds, Holding
<1>5. ASSUME NEW d \in Dispatchers, SendAccepted(d)
      PROVE  DeliveredInv'
  BY <1>5
  DEF SendAccepted, rows, TypeOK, HolderInv, ExclusiveClaim, DeliveredInv,
      RepliedFor, Holds, Holding
<1>6. ASSUME NEW d \in Dispatchers, SendRejected(d)
      PROVE  DeliveredInv'
  BY <1>6
  DEF SendRejected, rows, TypeOK, HolderInv, ExclusiveClaim, DeliveredInv,
      RepliedFor, Holds, Holding
<1>7. ASSUME NEW d \in Dispatchers, SendReplyLost(d)
      PROVE  DeliveredInv'
  BY <1>7
  DEF SendReplyLost, Fault, rows, TypeOK, HolderInv, ExclusiveClaim,
      DeliveredInv, RepliedFor, Holds, Holding
<1>8. ASSUME NEW d \in Dispatchers, MarkSent(d)
      PROVE  DeliveredInv'
  BY <1>8
  DEF MarkSent, Mark, TypeOK, HolderInv, ExclusiveClaim, DeliveredInv,
      RepliedFor, Holds, Holding
<1>9. ASSUME NEW d \in Dispatchers, MarkSentRaises(d)
      PROVE  DeliveredInv'
  BY <1>9
  DEF MarkSentRaises, Fault, rows, TypeOK, HolderInv, ExclusiveClaim,
      DeliveredInv, RepliedFor, Holds, Holding
<1>10. ASSUME NEW d \in Dispatchers, MarkFailed(d)
      PROVE  DeliveredInv'
  BY <1>10
  DEF MarkFailed, Mark, TypeOK, HolderInv, ExclusiveClaim, DeliveredInv,
      RepliedFor, Holds, Holding
<1>11. ASSUME NEW d \in Dispatchers, Finish(d)
      PROVE  DeliveredInv'
  BY <1>11
  DEF Finish, rows, TypeOK, HolderInv, ExclusiveClaim, DeliveredInv,
      RepliedFor, Holds, Holding
<1>12. ASSUME NEW d \in Dispatchers, Abandon(d)
      PROVE  DeliveredInv'
  BY <1>12
  DEF Abandon, Holding, Fault, rows, TypeOK, HolderInv, ExclusiveClaim,
      DeliveredInv, RepliedFor, Holds
<1>13. CASE UNCHANGED vars
  BY <1>13
  DEF vars, rows, procs, TypeOK, HolderInv, ExclusiveClaim, DeliveredInv,
      RepliedFor, Holds, Holding
<1>14. QED
  BY <1>1, <1>2, <1>3, <1>4, <1>5, <1>6, <1>7, <1>8, <1>9, <1>10, <1>11, <1>12, <1>13
  DEF Next, Dispatch, Send

\* Every step keeps settled rows truthful.
LEMMA SettledStep ==
  ASSUME TypeOK, HolderInv, SettledTruthfully, [Next]_vars
  PROVE  SettledTruthfully'
<1>1. ASSUME NEW S \in SUBSET Notifications, Enqueue(S)
      PROVE  SettledTruthfully'
  BY <1>1
  DEF Enqueue, Inserted, procs, TypeOK, HolderInv, SettledTruthfully, Holding
<1>2. CASE Tick
  BY <1>2
  DEF Tick, Min2, Holding, TypeOK, HolderInv, SettledTruthfully
<1>3. ASSUME NEW d \in Dispatchers, Fetch(d)
      PROVE  SettledTruthfully'
  BY <1>3
  DEF Fetch, rows, TypeOK, HolderInv, SettledTruthfully, Holding
<1>4. ASSUME NEW d \in Dispatchers, NEW n \in Notifications, Claim(d, n)
      PROVE  SettledTruthfully'
  BY <1>4, BoundsAssumption, LeaseCoversSend
  DEF Claim, Claimable, Take, TypeOK, HolderInv, SettledTruthfully, Holding
<1>5. ASSUME NEW d \in Dispatchers, SendAccepted(d)
      PROVE  SettledTruthfully'
  BY <1>5
  DEF SendAccepted, rows, TypeOK, HolderInv, SettledTruthfully, Holding
<1>6. ASSUME NEW d \in Dispatchers, SendRejected(d)
      PROVE  SettledTruthfully'
  BY <1>6
  DEF SendRejected, rows, TypeOK, HolderInv, SettledTruthfully, Holding
<1>7. ASSUME NEW d \in Dispatchers, SendReplyLost(d)
      PROVE  SettledTruthfully'
  BY <1>7
  DEF SendReplyLost, Fault, rows, TypeOK, HolderInv, SettledTruthfully,
      Holding
<1>8. ASSUME NEW d \in Dispatchers, MarkSent(d)
      PROVE  SettledTruthfully'
  BY <1>8
  DEF MarkSent, Mark, TypeOK, HolderInv, SettledTruthfully, Holding
<1>9. ASSUME NEW d \in Dispatchers, MarkSentRaises(d)
      PROVE  SettledTruthfully'
  BY <1>9
  DEF MarkSentRaises, Fault, rows, TypeOK, HolderInv, SettledTruthfully,
      Holding
<1>10. ASSUME NEW d \in Dispatchers, MarkFailed(d)
      PROVE  SettledTruthfully'
  BY <1>10
  DEF MarkFailed, Mark, TypeOK, HolderInv, SettledTruthfully, Holding
<1>11. ASSUME NEW d \in Dispatchers, Finish(d)
      PROVE  SettledTruthfully'
  BY <1>11
  DEF Finish, rows, TypeOK, HolderInv, SettledTruthfully, Holding
<1>12. ASSUME NEW d \in Dispatchers, Abandon(d)
      PROVE  SettledTruthfully'
  BY <1>12
  DEF Abandon, Holding, Fault, rows, TypeOK, HolderInv, SettledTruthfully
<1>13. CASE UNCHANGED vars
  BY <1>13
  DEF vars, rows, procs, TypeOK, HolderInv, SettledTruthfully, Holding
<1>14. QED
  BY <1>1, <1>2, <1>3, <1>4, <1>5, <1>6, <1>7, <1>8, <1>9, <1>10, <1>11, <1>12, <1>13
  DEF Next, Dispatch, Send

\* Every step keeps the epochs table in step with the sent rows.
LEMMA AnnouncementStep ==
  ASSUME TypeOK, HolderInv, AnnouncementMatchesOutbox, [Next]_vars
  PROVE  AnnouncementMatchesOutbox'
<1>1. ASSUME NEW S \in SUBSET Notifications, Enqueue(S)
      PROVE  AnnouncementMatchesOutbox'
  <2>1. \A e \in Epochs : Announcers(e)' = Announcers(e)
    BY <1>1 DEF Enqueue, Inserted, TypeOK, Announcers
  <2>2. QED
    BY <1>1, <2>1 DEF Enqueue, AnnouncementMatchesOutbox
<1>2. CASE Tick
  BY <1>2
  DEF Tick, Min2, Holding, TypeOK, HolderInv, AnnouncementMatchesOutbox,
      Announcers
<1>3. ASSUME NEW d \in Dispatchers, Fetch(d)
      PROVE  AnnouncementMatchesOutbox'
  BY <1>3
  DEF Fetch, rows, TypeOK, HolderInv, AnnouncementMatchesOutbox, Announcers,
      Holding
<1>4. ASSUME NEW d \in Dispatchers, NEW n \in Notifications, Claim(d, n)
      PROVE  AnnouncementMatchesOutbox'
  BY <1>4, BoundsAssumption, LeaseCoversSend
  DEF Claim, Claimable, Take, TypeOK, HolderInv, AnnouncementMatchesOutbox,
      Announcers, Holding
<1>5. ASSUME NEW d \in Dispatchers, SendAccepted(d)
      PROVE  AnnouncementMatchesOutbox'
  BY <1>5
  DEF SendAccepted, rows, TypeOK, HolderInv, AnnouncementMatchesOutbox,
      Announcers, Holding
<1>6. ASSUME NEW d \in Dispatchers, SendRejected(d)
      PROVE  AnnouncementMatchesOutbox'
  BY <1>6
  DEF SendRejected, rows, TypeOK, HolderInv, AnnouncementMatchesOutbox,
      Announcers, Holding
<1>7. ASSUME NEW d \in Dispatchers, SendReplyLost(d)
      PROVE  AnnouncementMatchesOutbox'
  BY <1>7
  DEF SendReplyLost, Fault, rows, TypeOK, HolderInv,
      AnnouncementMatchesOutbox, Announcers, Holding
<1>8. ASSUME NEW d \in Dispatchers, MarkSent(d)
      PROVE  AnnouncementMatchesOutbox'
  BY <1>8
  DEF MarkSent, Mark, TypeOK, HolderInv, AnnouncementMatchesOutbox,
      Announcers, Holding
<1>9. ASSUME NEW d \in Dispatchers, MarkSentRaises(d)
      PROVE  AnnouncementMatchesOutbox'
  BY <1>9
  DEF MarkSentRaises, Fault, rows, TypeOK, HolderInv,
      AnnouncementMatchesOutbox, Announcers, Holding
<1>10. ASSUME NEW d \in Dispatchers, MarkFailed(d)
      PROVE  AnnouncementMatchesOutbox'
  BY <1>10
  DEF MarkFailed, Mark, TypeOK, HolderInv, AnnouncementMatchesOutbox,
      Announcers, Holding
<1>11. ASSUME NEW d \in Dispatchers, Finish(d)
      PROVE  AnnouncementMatchesOutbox'
  BY <1>11
  DEF Finish, rows, TypeOK, HolderInv, AnnouncementMatchesOutbox, Announcers,
      Holding
<1>12. ASSUME NEW d \in Dispatchers, Abandon(d)
      PROVE  AnnouncementMatchesOutbox'
  BY <1>12
  DEF Abandon, Holding, Fault, rows, TypeOK, HolderInv,
      AnnouncementMatchesOutbox, Announcers
<1>13. CASE UNCHANGED vars
  BY <1>13
  DEF vars, rows, procs, TypeOK, HolderInv, AnnouncementMatchesOutbox,
      Announcers, Holding
<1>14. QED
  BY <1>1, <1>2, <1>3, <1>4, <1>5, <1>6, <1>7, <1>8, <1>9, <1>10, <1>11, <1>12, <1>13
  DEF Next, Dispatch, Send

\* No step touches a settled row or a recorded announcement.
LEMMA FinalStep ==
  ASSUME TypeOK, HolderInv, [Next]_vars
  PROVE  Final
<1>1. ASSUME NEW S \in SUBSET Notifications, Enqueue(S)
      PROVE  Final
  BY <1>1
  DEF Enqueue, Inserted, procs, Final, Settled, TypeOK, HolderInv, Holding
<1>2. CASE Tick
  BY <1>2
  DEF Tick, Min2, Holding, Final, Settled, TypeOK, HolderInv
<1>3. ASSUME NEW d \in Dispatchers, Fetch(d)
      PROVE  Final
  BY <1>3
  DEF Fetch, rows, Final, Settled, TypeOK, HolderInv, Holding
<1>4. ASSUME NEW d \in Dispatchers, NEW n \in Notifications, Claim(d, n)
      PROVE  Final
  BY <1>4
  DEF Claim, Claimable, Take, Final, Settled, TypeOK, HolderInv, Holding
<1>5. ASSUME NEW d \in Dispatchers, SendAccepted(d)
      PROVE  Final
  BY <1>5
  DEF SendAccepted, rows, Final, Settled, TypeOK, HolderInv, Holding
<1>6. ASSUME NEW d \in Dispatchers, SendRejected(d)
      PROVE  Final
  BY <1>6
  DEF SendRejected, rows, Final, Settled, TypeOK, HolderInv, Holding
<1>7. ASSUME NEW d \in Dispatchers, SendReplyLost(d)
      PROVE  Final
  BY <1>7
  DEF SendReplyLost, Fault, rows, Final, Settled, TypeOK, HolderInv, Holding
<1>8. ASSUME NEW d \in Dispatchers, MarkSent(d)
      PROVE  Final
  BY <1>8
  DEF MarkSent, Mark, Final, Settled, TypeOK, HolderInv, Holding
<1>9. ASSUME NEW d \in Dispatchers, MarkSentRaises(d)
      PROVE  Final
  BY <1>9
  DEF MarkSentRaises, Fault, rows, Final, Settled, TypeOK, HolderInv, Holding
<1>10. ASSUME NEW d \in Dispatchers, MarkFailed(d)
      PROVE  Final
  BY <1>10
  DEF MarkFailed, Mark, Final, Settled, TypeOK, HolderInv, Holding
<1>11. ASSUME NEW d \in Dispatchers, Finish(d)
      PROVE  Final
  BY <1>11
  DEF Finish, rows, Final, Settled, TypeOK, HolderInv, Holding
<1>12. ASSUME NEW d \in Dispatchers, Abandon(d)
      PROVE  Final
  BY <1>12
  DEF Abandon, Holding, Fault, rows, Final, Settled, TypeOK, HolderInv
<1>13. CASE UNCHANGED vars
  BY <1>13
  DEF vars, rows, procs, Final, Settled, TypeOK, HolderInv, Holding
<1>14. QED
  BY <1>1, <1>2, <1>3, <1>4, <1>5, <1>6, <1>7, <1>8, <1>9, <1>10, <1>11, <1>12, <1>13
  DEF Next, Dispatch, Send

\* Every step is one of Delivery, or leaves its variables alone.
LEMMA DeliveryStep ==
  ASSUME TypeOK, HolderInv, [Next]_vars
  PROVE  [Abstract!Next]_(Abstract!vars)
<1>1. ASSUME NEW S \in SUBSET Notifications, Enqueue(S)
      PROVE  [Abstract!Next]_(Abstract!vars)
  <2>1. Abstract!Enqueue(S)
    BY <1>1 DEF Enqueue, Inserted, TypeOK, Phase, Abstract!Enqueue
  <2>2. QED
    BY <2>1 DEF Abstract!Next
<1>2. CASE Tick
  BY <1>2
  DEF Tick, Min2, Holding, TypeOK, HolderInv, Phase, Abstract!vars
<1>3. ASSUME NEW d \in Dispatchers, Fetch(d)
      PROVE  [Abstract!Next]_(Abstract!vars)
  BY <1>3
  DEF Fetch, rows, TypeOK, HolderInv, Holding, Phase, Abstract!vars
<1>4. ASSUME NEW d \in Dispatchers, NEW n \in Notifications, Claim(d, n)
      PROVE  [Abstract!Next]_(Abstract!vars)
  BY <1>4
  DEF Claim, Claimable, Take, TypeOK, Phase, Abstract!vars
<1>5. ASSUME NEW d \in Dispatchers, SendAccepted(d)
      PROVE  [Abstract!Next]_(Abstract!vars)
  <2>1. cur[d] \in Notifications /\ Abstract!Deliver(cur[d])
    BY <1>5
    DEF SendAccepted, rows, TypeOK, HolderInv, Holding, Phase, Abstract!Deliver
  <2>2. QED
    BY <2>1 DEF Abstract!Next
<1>6. ASSUME NEW d \in Dispatchers, SendRejected(d)
      PROVE  [Abstract!Next]_(Abstract!vars)
  BY <1>6
  DEF SendRejected, rows, TypeOK, HolderInv, Holding, Phase, Abstract!vars
<1>7. ASSUME NEW d \in Dispatchers, SendReplyLost(d)
      PROVE  [Abstract!Next]_(Abstract!vars)
  <2>1. cur[d] \in Notifications /\ Abstract!Deliver(cur[d])
    BY <1>7
    DEF SendReplyLost, rows, TypeOK, HolderInv, Holding, Phase, Abstract!Deliver
  <2>2. QED
    BY <2>1 DEF Abstract!Next
<1>8. ASSUME NEW d \in Dispatchers, MarkSent(d)
      PROVE  [Abstract!Next]_(Abstract!vars)
  <2>1. cur[d] \in Notifications /\ Abstract!SettleSent(cur[d])
    BY <1>8
    DEF MarkSent, Mark, TypeOK, HolderInv, Holding, Phase, Abstract!SettleSent
  <2>2. QED
    BY <2>1 DEF Abstract!Next
<1>9. ASSUME NEW d \in Dispatchers, MarkSentRaises(d)
      PROVE  [Abstract!Next]_(Abstract!vars)
  BY <1>9
  DEF MarkSentRaises, Fault, rows, TypeOK, HolderInv, Holding, Phase,
      Abstract!vars
<1>10. ASSUME NEW d \in Dispatchers, MarkFailed(d)
      PROVE  [Abstract!Next]_(Abstract!vars)
  <2>1. CASE attempts[cur[d]] >= MaxAttempts
    <3>1. cur[d] \in Notifications /\ Abstract!GiveUp(cur[d])
      BY <1>10, <2>1
      DEF MarkFailed, Mark, TypeOK, HolderInv, Holding, Phase, Abstract!GiveUp
    <3>2. QED
      BY <3>1 DEF Abstract!Next
  <2>2. CASE ~ (attempts[cur[d]] >= MaxAttempts)
    BY <1>10, <2>2
    DEF MarkFailed, Mark, TypeOK, HolderInv, Holding, Phase, Abstract!vars
  <2>3. QED
    BY <2>1, <2>2
<1>11. ASSUME NEW d \in Dispatchers, Finish(d)
      PROVE  [Abstract!Next]_(Abstract!vars)
  BY <1>11
  DEF Finish, rows, TypeOK, HolderInv, Holding, Phase, Abstract!vars
<1>12. ASSUME NEW d \in Dispatchers, Abandon(d)
      PROVE  [Abstract!Next]_(Abstract!vars)
  BY <1>12
  DEF Abandon, Holding, Fault, rows, TypeOK, HolderInv, Phase, Abstract!vars
<1>13. CASE UNCHANGED vars
  BY <1>13
  DEF vars, rows, procs, TypeOK, HolderInv, Holding, Phase, Abstract!vars
<1>14. QED
  BY <1>1, <1>2, <1>3, <1>4, <1>5, <1>6, <1>7, <1>8, <1>9, <1>10, <1>11, <1>12, <1>13
  DEF Next, Dispatch, Send

-----------------------------------------------------------------------------
\* IInv holds in every reachable state.
LEMMA Inductive == Spec => []IInv
<1>1. IInv /\ [Next]_vars => IInv'
  BY TypeStep, HolderStep, AttemptsStep, DeliveredStep, SettledStep DEF IInv
<1>2. QED
  BY InitIInv, <1>1, PTL DEF Spec

\* The types of the table and of the dispatchers.
THEOREM TypeCorrect == Spec => []TypeOK
  BY Inductive, PTL DEF IInv

\* Two live dispatchers never hold one row, for any number of them.
THEOREM ClaimsAreExclusive == Spec => []ExclusiveClaim
  BY Inductive, PTL DEF IInv

\* A row gets max_attempts attempts and one more for each fault that hit it.
THEOREM AttemptsBounded == Spec => []AttemptsAccountedFor
<1>1. IInv => AttemptsAccountedFor
  BY DEF IInv, AttemptsInv, AttemptsAccountedFor
<1>2. QED
  BY Inductive, <1>1, PTL

\* A message is delivered at most once and once more for each such fault.
THEOREM DeliveriesBounded == Spec => []DuplicatesNeedFaults
<1>1. IInv => DuplicatesNeedFaults
  BY DEF IInv, TypeOK, DeliveredInv, DuplicatesNeedFaults
<1>2. QED
  BY Inductive, <1>1, PTL

\* A sent row was delivered, a failed row used its attempts up.
THEOREM SettledRowsAreTrue == Spec => []SettledTruthfully
  BY Inductive, PTL DEF IInv

\* An epoch is announced exactly when a Telegram message about it is sent.
THEOREM AnnouncementsMatch == Spec => []AnnouncementMatchesOutbox
<1>1. Init => AnnouncementMatchesOutbox
  BY DEF Init, AnnouncementMatchesOutbox, Announcers
<1>2. IInv /\ AnnouncementMatchesOutbox /\ [Next]_vars => AnnouncementMatchesOutbox'
  BY AnnouncementStep DEF IInv
<1>3. QED
  BY Inductive, <1>1, <1>2, PTL DEF Spec

\* Settled rows and recorded announcements stay as they are.
THEOREM SettledRowsAreFinal == Spec => SettledIsFinal
<1>1. IInv /\ [Next]_vars => [Final]_vars
  BY FinalStep DEF IInv
<1>2. QED
  BY Inductive, <1>1, PTL DEF Spec, SettledIsFinal

\* The outbox implements at-least-once delivery that settles once.
THEOREM Refinement == Spec => ImplementsDelivery
<1>1. Init => Abstract!Init
  BY DEF Init, Abstract!Init, Phase
<1>2. IInv /\ [Next]_vars => [Abstract!Next]_(Abstract!vars)
  BY DeliveryStep DEF IInv
<1>3. QED
  BY Inductive, <1>1, <1>2, PTL DEF Spec, ImplementsDelivery, Abstract!Spec
=============================================================================
