------------------------------- MODULE Outbox -------------------------------
(***************************************************************************)
(* The transactional outbox: the notifications table and the dispatchers   *)
(* that drain it (Database.get_pending_notifications, claim_notification,  *)
(* mark_notification_sent, mark_notification_failed and                    *)
(* NotificationDispatcher.dispatch_pending).                               *)
(*                                                                         *)
(* Every database call is one transaction, so one action.  A dispatcher    *)
(* is a collector process inside dispatch_pending; it may stop between any *)
(* two of its steps.  Time is measured by how long ago last_attempt_at     *)
(* was, up to the point where the lease of a claim is over.                *)
(***************************************************************************)
EXTENDS Naturals, FiniteSets

CONSTANTS
  Notifications,   \* rows that may ever be inserted
  Dispatchers,     \* processes that may run dispatch_pending
  MaxAttempts,     \* max_attempts of mark_notification_failed (8)
  Lease,           \* the ten minutes after which a claim is stale, in ticks
  SendBound,       \* the longest time between a claim and its mark, in ticks
  Limit,           \* limit of get_pending_notifications (50)
  MaxFaults,       \* bound: crashes, database errors and lost replies
  Epochs,          \* epochs an epoch_available event may be about
  EpochOf          \* epoch of a Telegram epoch_available row, else NoEpoch

NoEpoch == "no epoch"
Nobody == "nobody"

ASSUME BoundsAssumption ==
  /\ MaxAttempts \in Nat \ {0}
  /\ Lease \in Nat \ {0}
  /\ SendBound \in Nat
  /\ Limit \in Nat \ {0}
  /\ MaxFaults \in Nat
  /\ IsFiniteSet(Notifications)

\* A send is a handful of HTTP calls of fifteen seconds each and at most a
\* minute of flood control between them; the lease is ten minutes.
ASSUME LeaseCoversSend == SendBound <= Lease

ASSUME ValuesAssumption ==
  /\ Nobody \notin Notifications
  /\ NoEpoch \notin Epochs
  /\ EpochOf \in [Notifications -> Epochs \cup {NoEpoch}]

VARIABLES
  status,        \* notifications.status, "absent" before the insert
  attempts,      \* notifications.attempts
  age,           \* now - notifications.last_attempt_at, at most Lease + 1
  created,       \* notifications.created_at, as the number of the insert
  announcement,  \* row whose sending filled epochs.announcement_at
  pc,            \* where each dispatcher is in dispatch_pending
  todo,          \* rows it fetched and has not come to yet
  cur,           \* row it has claimed
  held,          \* time since it claimed that row
  delivered,     \* history: how often the outside world got the message
  faults,        \* history: faults that hit an attempt on the row
  budget         \* bound: faults the environment may still cause

rows == <<status, attempts, age, created, announcement>>
procs == <<pc, todo, cur, held>>
vars == <<rows, procs, delivered, faults, budget>>

RowStatus == {"absent", "pending", "sending", "sent", "failed"}
Holding == {"claimed", "replied", "erred"}

TypeOK ==
  /\ status \in [Notifications -> RowStatus]
  /\ attempts \in [Notifications -> Nat]
  /\ age \in [Notifications -> 0 .. Lease + 1]
  /\ created \in [Notifications -> Nat]
  /\ announcement \in [Epochs -> Notifications \cup {Nobody}]
  /\ pc \in [Dispatchers -> {"idle", "loop"} \cup Holding]
  /\ todo \in [Dispatchers -> SUBSET Notifications]
  /\ cur \in [Dispatchers -> Notifications \cup {Nobody}]
  /\ held \in [Dispatchers -> Nat]
  /\ delivered \in [Notifications -> Nat]
  /\ faults \in [Notifications -> Nat]
  /\ budget \in Nat

Init ==
  /\ status = [n \in Notifications |-> "absent"]
  /\ attempts = [n \in Notifications |-> 0]
  /\ age = [n \in Notifications |-> 0]
  /\ created = [n \in Notifications |-> 0]
  /\ announcement = [e \in Epochs |-> Nobody]
  /\ pc = [d \in Dispatchers |-> "idle"]
  /\ todo = [d \in Dispatchers |-> {}]
  /\ cur = [d \in Dispatchers |-> Nobody]
  /\ held = [d \in Dispatchers |-> 0]
  /\ delivered = [n \in Notifications |-> 0]
  /\ faults = [n \in Notifications |-> 0]
  /\ budget = MaxFaults
-----------------------------------------------------------------------------
(***************************************************************************)
(* The rows                                                                *)
(***************************************************************************)

Inserted == {n \in Notifications : status[n] # "absent"}

\* Mutant of Claimable: the lease is not looked at.
ClaimableIgnoresLease(n) == status[n] \in {"pending", "sending"}

\* Mutant of Claimable: a stale claim is never taken over.
ClaimableOnlyPending(n) == status[n] = "pending"

\* WHERE status = 'pending' OR (status = 'sending' AND last_attempt_at < cutoff)
Claimable(n) ==
  \/ status[n] = "pending"
  \/ status[n] = "sending" /\ age[n] > Lease

Due == {n \in Notifications : Claimable(n)}

\* ORDER BY created_at LIMIT: nothing left out is older than something taken.
\* Rows of one insert share created_at, so their order is open.
OldestDue(T) ==
  /\ T \subseteq Due
  /\ \A n \in T, m \in Due \ T : created[n] <= created[m]
  /\ Cardinality(T) <= Limit
  /\ Cardinality(T) = Limit \/ T = Due

\* _insert_event, inside the transaction of record_observation: the pending
\* rows of one observation become visible together.
Enqueue(S) ==
  /\ S # {}
  /\ S \cap Inserted = {}
  /\ status' = [n \in Notifications |-> IF n \in S THEN "pending" ELSE status[n]]
  /\ created' = [n \in Notifications |->
                   IF n \in S THEN Cardinality(Inserted) ELSE created[n]]
  /\ UNCHANGED <<attempts, age, announcement, procs, delivered, faults, budget>>

Min2(a, b) == IF a <= b THEN a ELSE b

\* The clock.  A live dispatcher marks its row within SendBound of claiming it.
Tick ==
  /\ \A d \in Dispatchers : pc[d] \in Holding => held[d] < SendBound
  /\ age' = [n \in Notifications |-> Min2(age[n] + 1, Lease + 1)]
  /\ held' = [d \in Dispatchers |->
                IF pc[d] \in Holding THEN held[d] + 1 ELSE held[d]]
  /\ UNCHANGED <<status, attempts, created, announcement, pc, todo, cur,
                 delivered, faults, budget>>
-----------------------------------------------------------------------------
(***************************************************************************)
(* dispatch_pending                                                        *)
(***************************************************************************)

Fetch(d) ==
  /\ pc[d] = "idle"
  /\ \E T \in SUBSET Notifications :
       /\ T # {}
       /\ OldestDue(T)
       /\ todo' = [todo EXCEPT ![d] = T]
  /\ pc' = [pc EXCEPT ![d] = "loop"]
  /\ UNCHANGED <<rows, cur, held, delivered, faults, budget>>

OldestTodo(d) == {n \in todo[d] : \A m \in todo[d] : created[n] <= created[m]}

Take(d, n) ==
  /\ status' = [status EXCEPT ![n] = "sending"]
  /\ attempts' = [attempts EXCEPT ![n] = @ + 1]
  /\ age' = [age EXCEPT ![n] = 0]
  /\ pc' = [pc EXCEPT ![d] = "claimed"]
  /\ cur' = [cur EXCEPT ![d] = n]
  /\ held' = [held EXCEPT ![d] = 0]

\* Mutant of Claim: the UPDATE names the row by id only, so it always wins.
ClaimUnchecked(d, n) ==
  /\ pc[d] = "loop"
  /\ n \in OldestTodo(d)
  /\ todo' = [todo EXCEPT ![d] = @ \ {n}]
  /\ Take(d, n)
  /\ UNCHANGED <<created, announcement, delivered, faults, budget>>

\* claim_notification: the row may have been taken or settled since the fetch.
Claim(d, n) ==
  /\ pc[d] = "loop"
  /\ n \in OldestTodo(d)
  /\ todo' = [todo EXCEPT ![d] = @ \ {n}]
  /\ IF Claimable(n)
     THEN Take(d, n)
     ELSE UNCHANGED <<status, attempts, age, pc, cur, held>>
  /\ UNCHANGED <<created, announcement, delivered, faults, budget>>

\* The channel accepted the message.
SendAccepted(d) ==
  /\ pc[d] = "claimed"
  /\ pc' = [pc EXCEPT ![d] = "replied"]
  /\ delivered' = [delivered EXCEPT ![cur[d]] = @ + 1]
  /\ UNCHANGED <<rows, todo, cur, held, faults, budget>>

\* Mutant of SendRejected: the status of the response is not checked.
SendRejectedUnchecked(d) ==
  /\ pc[d] = "claimed"
  /\ pc' = [pc EXCEPT ![d] = "replied"]
  /\ UNCHANGED <<rows, todo, cur, held, delivered, faults, budget>>

\* An error status, a route without target, or a message that never left.
SendRejected(d) ==
  /\ pc[d] = "claimed"
  /\ pc' = [pc EXCEPT ![d] = "erred"]
  /\ UNCHANGED <<rows, todo, cur, held, delivered, faults, budget>>

Fault(n) ==
  /\ budget > 0
  /\ budget' = budget - 1
  /\ faults' = [faults EXCEPT ![n] = @ + 1]

\* The message arrived, its reply did not: HttpError, so the except branch.
SendReplyLost(d) ==
  /\ pc[d] = "claimed"
  /\ pc' = [pc EXCEPT ![d] = "erred"]
  /\ delivered' = [delivered EXCEPT ![cur[d]] = @ + 1]
  /\ Fault(cur[d])
  /\ UNCHANGED <<rows, todo, cur, held>>

\* The UPDATE of both marks, by id only, and the way back to the loop.
Mark(d, result) ==
  /\ status' = [status EXCEPT ![cur[d]] = result]
  /\ pc' = [pc EXCEPT ![d] = "loop"]
  /\ cur' = [cur EXCEPT ![d] = Nobody]
  /\ held' = [held EXCEPT ![d] = 0]
  /\ UNCHANGED <<attempts, age, created, todo, delivered, faults, budget>>

\* Mutant of MarkSent: the epochs row is left to a later transaction.
MarkSentForgetsEpoch(d) ==
  /\ pc[d] = "replied"
  /\ Mark(d, "sent")
  /\ UNCHANGED announcement

\* mark_notification_sent, with the epochs row in the same transaction.
MarkSent(d) ==
  /\ pc[d] = "replied"
  /\ Mark(d, "sent")
  /\ announcement' = [e \in Epochs |->
                        IF e = EpochOf[cur[d]] /\ announcement[e] = Nobody
                        THEN cur[d] ELSE announcement[e]]

\* It raises (a locked database, say): the same except branch as a failed send.
MarkSentRaises(d) ==
  /\ pc[d] = "replied"
  /\ pc' = [pc EXCEPT ![d] = "erred"]
  /\ Fault(cur[d])
  /\ UNCHANGED <<rows, todo, cur, held, delivered>>

\* Mutant of MarkFailed: attempts > max_attempts instead of >=.
MarkFailedOffByOne(d) ==
  /\ pc[d] = "erred"
  /\ Mark(d, IF attempts[cur[d]] > MaxAttempts THEN "failed" ELSE "pending")
  /\ UNCHANGED announcement

\* mark_notification_failed: another attempt later, or no more of them.
MarkFailed(d) ==
  /\ pc[d] = "erred"
  /\ Mark(d, IF attempts[cur[d]] >= MaxAttempts THEN "failed" ELSE "pending")
  /\ UNCHANGED announcement

\* The loop is over.
Finish(d) ==
  /\ pc[d] = "loop"
  /\ todo[d] = {}
  /\ pc' = [pc EXCEPT ![d] = "idle"]
  /\ UNCHANGED <<rows, todo, cur, held, delivered, faults, budget>>

\* The process stops, or an exception of claim_notification or
\* mark_notification_failed leaves dispatch_pending.  Rows stay as they are.
Abandon(d) ==
  /\ pc[d] # "idle"
  /\ IF pc[d] \in Holding
     THEN Fault(cur[d])
     ELSE budget > 0 /\ budget' = budget - 1 /\ UNCHANGED faults
  /\ pc' = [pc EXCEPT ![d] = "idle"]
  /\ todo' = [todo EXCEPT ![d] = {}]
  /\ cur' = [cur EXCEPT ![d] = Nobody]
  /\ held' = [held EXCEPT ![d] = 0]
  /\ UNCHANGED <<rows, delivered>>

Send(d) == SendAccepted(d) \/ SendRejected(d) \/ SendReplyLost(d)

Dispatch(d) ==
  \/ Fetch(d)
  \/ \E n \in Notifications : Claim(d, n)
  \/ Send(d)
  \/ MarkSent(d) \/ MarkSentRaises(d) \/ MarkFailed(d)
  \/ Finish(d)

Next ==
  \/ \E S \in SUBSET Notifications : Enqueue(S)
  \/ Tick
  \/ \E d \in Dispatchers : Dispatch(d) \/ Abandon(d)

Spec == Init /\ [][Next]_vars

\* Collector runs keep coming, the clock runs, and a process that did not stop
\* carries on; nothing forces an insert, a fault or the outcome of a send.
Fairness ==
  /\ WF_vars(Tick)
  /\ \A d \in Dispatchers : WF_vars(Dispatch(d))

FairSpec == Spec /\ Fairness
-----------------------------------------------------------------------------
(***************************************************************************)
(* Properties                                                              *)
(***************************************************************************)

Holds(d, n) == pc[d] \in Holding /\ cur[d] = n
Announcers(e) == {n \in Notifications : EpochOf[n] = e /\ status[n] = "sent"}
Settled(n) == status[n] \in {"sent", "failed"}

\* claim_notification hands a row to one live dispatcher at a time: the lease
\* outlasts the send, so a stale claim is always a dead one.
ExclusiveClaim ==
  \A d, e \in Dispatchers, n \in Notifications :
    Holds(d, n) /\ Holds(e, n) => d = e

\* A row is retried only while attempts < max_attempts; every attempt beyond
\* that took over a claim that a crash or a database error had orphaned.
AttemptsAccountedFor ==
  \A n \in Notifications : attempts[n] <= MaxAttempts + faults[n]

\* A channel receives a message twice only if a fault hit the attempt that had
\* delivered it before mark_notification_sent could commit.
DuplicatesNeedFaults ==
  \A n \in Notifications : delivered[n] <= 1 + faults[n]

\* Rows say what happened: sent ones were delivered, and failed ones used up
\* their attempts (nothing else may give a message up).
SettledTruthfully ==
  \A n \in Notifications :
    /\ status[n] = "sent" => delivered[n] > 0
    /\ status[n] = "failed" => attempts[n] >= MaxAttempts

\* The notifications row and the epochs row change together: an epoch has an
\* announcement exactly when one of its Telegram messages is marked sent, and
\* the announcement names such a message.
AnnouncementMatchesOutbox ==
  \A e \in Epochs : IF Announcers(e) = {} THEN announcement[e] = Nobody
                                        ELSE announcement[e] \in Announcers(e)

\* What a step may do to settled rows and recorded announcements: nothing.
Final ==
  /\ \A n \in Notifications : Settled(n) => /\ status'[n] = status[n]
                                           /\ attempts'[n] = attempts[n]
                                           /\ delivered'[n] = delivered[n]
  /\ \A e \in Epochs : announcement[e] # Nobody =>
       announcement'[e] = announcement[e]

\* A settled row is never touched again, whoever fetched it before, and a
\* recorded announcement keeps its first message (COALESCE).
SettledIsFinal == [][Final]_vars

\* Every row that was inserted is settled in the end, also the one whose
\* dispatcher died holding it and the one behind LIMIT older rows.
EveryRowSettles ==
  \A n \in Notifications : status[n] = "pending" ~> Settled(n)

\* The outbox implements Delivery: the two states a row waits in are one.
Phase ==
  [n \in Notifications |->
    IF status[n] \in {"pending", "sending"} THEN "open" ELSE status[n]]

Abstract == INSTANCE Delivery WITH phase <- Phase

\* Every step of the outbox is a step of Delivery or changes nothing there.
ImplementsDelivery == Abstract!Spec
=============================================================================
