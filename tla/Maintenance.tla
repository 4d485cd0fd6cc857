----------------------------- MODULE Maintenance -----------------------------
(***************************************************************************)
(* Daily statistics and the removal of snapshots for one pillar: what the  *)
(* collector does once per UTC day (run_maintenance_if_due: first          *)
(* store_completed_performance_days, then prune_snapshots) and what a      *)
(* request for the performance page does in the web process, which stores  *)
(* missing days by the same _store_closed_performance_days: the days of    *)
(* the page, then those that get_delegator_apr samples.  Each SQL          *)
(* statement is a step, so the two processes interleave between them.      *)
(***************************************************************************)
EXTENDS Integers, FiniteSets, FiniteSetsExt

CONSTANTS
  Collector,  \* the process that polls, stores and prunes
  Visitors,   \* threads of the web process that answer a performance request
  Retention,  \* snapshot_retention_days
  Period,     \* period_days of a request
  AprDays,    \* APR_SAMPLE_DAYS
  Chunk,      \* chunk_days of store_completed_performance_days
  MaxDay,     \* bound: days
  MaxPolls,   \* bound: snapshots
  MaxCount,   \* bound: counter of the pillar within an epoch
  MaxFaults   \* bound: maintenance runs left out, interrupted or done again

ASSUME MaintenanceBounds ==
  /\ Retention \in Nat /\ Retention >= 2
  /\ Period \in Nat \ {0} /\ AprDays \in Nat \ {0} /\ Chunk \in Nat \ {0}
  /\ MaxDay \in Nat /\ MaxDay >= 2 /\ MaxPolls \in Nat /\ MaxCount \in Nat
  /\ MaxFaults \in Nat
  /\ Collector \notin Visitors

VARIABLES
  today,   \* the UTC day
  phase,   \* its first 15 minutes (PERFORMANCE_FINALIZE_DELAY) or the rest
  poll,    \* the poll under way: its start, and what it observed and when
  snaps,   \* pillar_snapshots
  daily,   \* pillar_performance_daily, zero where there is no row
  final,   \* performance_finalized_days
  proc,    \* where each process is in storing days or pruning
  due,     \* _maintenance_day of the collector
  kept,    \* history: every snapshot there ever was
  upkeep,  \* history: the due day of the last maintenance that ended or failed
  budget   \* bound: faults that may still come

clock == <<today, phase>>
tables == <<snaps, daily, final, kept>>
vars == <<clock, poll, tables, proc, due, upkeep, budget>>

Procs == {Collector} \cup Visitors
Days == 0 .. MaxDay

\* The calendar starts after the days that the first ones look back to.
FirstDay == 2
Never == 0

Snapshot == [id : Nat, started : Nat, day : Nat, epoch : Nat, count : Nat]
NoSnapshot == [id |-> 0]
NoPoll == [pc |-> "none"]
Idle == [pc |-> "idle"]
Nothing == [delta |-> 0, observations |-> 0]

TypeOK ==
  /\ today \in Days /\ phase \in {"night", "day"}
  /\ snaps \subseteq Snapshot /\ snaps \subseteq kept
  /\ daily \in [Days -> [delta : Nat, observations : Nat]]
  /\ final \subseteq Days
  /\ \A p \in Procs : proc[p].pc \in {"idle", "next", "listed", "based", "summed",
                                      "pruning"}
  /\ budget \in Nat

Init ==
  /\ today = FirstDay /\ phase = "night"
  /\ poll = NoPoll
  /\ snaps = {} /\ kept = {}
  /\ daily = [d \in Days |-> Nothing]
  /\ final = {}
  /\ proc = [p \in Procs |-> Idle]
  /\ due = Never
  /\ upkeep = FirstDay
  /\ budget = MaxFaults
-----------------------------------------------------------------------------
(***************************************************************************)
(* Time and the network                                                    *)
(***************************************************************************)

\* Polls, requests and maintenance take seconds, at worst minutes of retries:
\* what began before one turn of the clock is over by the next.
NothingOldOpen ==
  /\ poll # NoPoll => poll.now = clock
  /\ \A p \in Procs : proc[p].pc # "idle" => proc[p].now = clock

Turn(from, to) ==
  /\ phase = from
  /\ NothingOldOpen
  /\ phase' = to
  /\ UNCHANGED <<poll, tables, proc, due, upkeep>>

Quarter == Turn("night", "day") /\ UNCHANGED <<today, budget>>

\* A day that passes without maintenance is a fault.
Midnight ==
  /\ today < MaxDay
  /\ Turn("day", "night")
  /\ today' = today + 1
  /\ IF upkeep = today THEN UNCHANGED budget
     ELSE budget > 0 /\ budget' = budget - 1

Latest(S) == IF S = {} THEN NoSnapshot ELSE CHOOSE s \in S : \A t \in S : t.id <= s.id

\* What the network may say: an epoch lasts a day and ends sometime during one;
\* within it the counter of the pillar grows.
Readings ==
  {r \in [epoch : today .. today + 1, count : 0 .. MaxCount] :
     LET last == Latest(kept)
     IN  last = NoSnapshot \/ r.epoch > last.epoch
           \/ (r.epoch = last.epoch /\ r.count >= last.count)}
-----------------------------------------------------------------------------
(***************************************************************************)
(* Polls of the collector                                                  *)
(***************************************************************************)

\* begin_poll writes started_at.
PollStart ==
  /\ poll = NoPoll
  /\ Cardinality(kept) < MaxPolls
  /\ proc[Collector].pc = "idle"
  /\ poll' = [pc |-> "started", now |-> clock]
  /\ UNCHANGED <<clock, tables, proc, due, upkeep, budget>>

\* utc_now() after the node has answered.
PollObserve ==
  /\ poll.pc = "started"
  /\ \E r \in Readings :
       poll' = [pc |-> "observed", now |-> poll.now, day |-> today,
                epoch |-> r.epoch, count |-> r.count]
  /\ UNCHANGED <<clock, tables, proc, due, upkeep, budget>>

\* record_observation commits.
PollCommit ==
  /\ poll.pc = "observed"
  /\ LET s == [id |-> Cardinality(kept) + 1, started |-> poll.now[1],
               day |-> poll.day, epoch |-> poll.epoch, count |-> poll.count]
     IN  snaps' = snaps \cup {s} /\ kept' = kept \cup {s}
  /\ poll' = NoPoll
  /\ UNCHANGED <<clock, daily, final, proc, due, upkeep, budget>>

\* No node answers, or only a stale one.
PollFails ==
  /\ poll.pc = "started"
  /\ poll' = NoPoll
  /\ UNCHANGED <<clock, tables, proc, due, upkeep, budget>>
-----------------------------------------------------------------------------
(***************************************************************************)
(* _performance_day_buckets                                                *)
(***************************************************************************)

\* The row just before the first snapshot of the range, over all days.
Baseline(S, first) == Latest({s \in S : s.day < first})

Delta(prior, s) ==
  IF prior # NoSnapshot /\ prior.epoch = s.epoch /\ s.count > prior.count
  THEN s.count - prior.count ELSE 0

\* Day d out of the rows R of a range whose baseline is base.
Bucket(R, base, d) ==
  LET prior(s) == LET before == {t \in R : t.id < s.id}
                  IN  IF before = {} THEN base ELSE Latest(before)
      ofDay == {s \in R : s.day = d}
  IN  [delta |-> SumFunction([s \in ofDay |-> Delta(prior(s), s)]),
       observations |-> Cardinality(ofDay)]
-----------------------------------------------------------------------------
(***************************************************************************)
(* _store_closed_performance_days                                          *)
(***************************************************************************)

\* Mutant of LastClosed: today's date minus one, without the delay.
LastClosedAtMidnight == today - 1

\* (now - PERFORMANCE_FINALIZE_DELAY).date() - one day
LastClosed == IF phase # "night" THEN today - 1 ELSE today - 2

FirstStored == Min({s.day : s \in snaps})

Smallest(S, n) == {d \in S : Cardinality({e \in S : e < d}) < n}

Goto(p, r) == proc' = [proc EXCEPT ![p] = r]

\* Days per call of _store_closed_performance_days, by the caller: a request gives
\* all of its days at once.
ChunkOf == [maintenance |-> Chunk, performance |-> Period, apr |-> AprDays]

\* The days of the page; _performance_cache_lock admits one request.
Request(v) ==
  /\ \A w \in Visitors : proc[w].pc = "idle"
  /\ Goto(v, [pc |-> "next", now |-> clock, call |-> "performance",
              todo |-> {d \in Days : today < d + Period /\ d <= LastClosed}])
  /\ UNCHANGED <<clock, poll, tables, due, upkeep, budget>>

\* get_delegator_apr follows, with a now of its own.
Estimate(v) ==
  /\ proc[v].pc = "next"
  /\ proc[v].call = "performance"
  /\ proc[v].todo = {}
  /\ Goto(v, [pc |-> "next", now |-> clock, call |-> "apr",
              todo |-> {d \in Days : LastClosed < d + AprDays /\ d <= LastClosed}])
  /\ UNCHANGED <<clock, poll, tables, due, upkeep, budget>>

\* run_maintenance_if_due, and the list of store_completed_performance_days.
Maintain ==
  /\ proc[Collector].pc = "idle"
  /\ poll = NoPoll
  /\ due # LastClosed + 1
  /\ due' = LastClosed + 1
  /\ Goto(Collector,
          [pc |-> "next", now |-> clock, call |-> "maintenance",
           todo |-> IF snaps = {} THEN {}
                    ELSE (FirstStored .. LastClosed) \ final])
  /\ UNCHANGED <<clock, poll, tables, upkeep, budget>>

\* The days of the next chunk that are not finalized.
ListMissing(p) ==
  /\ proc[p].pc = "next"
  /\ proc[p].todo # {}
  /\ LET now == Smallest(proc[p].todo, ChunkOf[proc[p].call])
         rest == [proc[p] EXCEPT !.todo = @ \ now]
     IN  IF now \subseteq final
         THEN Goto(p, rest)
         ELSE Goto(p, [pc |-> "listed", now |-> rest.now, call |-> rest.call,
                       todo |-> rest.todo, missing |-> now \ final])
  /\ UNCHANGED <<clock, poll, tables, due, upkeep, budget>>

ReadBaseline(p) ==
  /\ proc[p].pc = "listed"
  /\ Goto(p, [pc |-> "based", now |-> proc[p].now, call |-> proc[p].call,
              todo |-> proc[p].todo, missing |-> proc[p].missing,
              base |-> Baseline(snaps, Min(proc[p].missing))])
  /\ UNCHANGED <<clock, poll, tables, due, upkeep, budget>>

ReadRange(p) ==
  /\ proc[p].pc = "based"
  /\ LET missing == proc[p].missing
         range == {s \in snaps : s.day \in Min(missing) .. Max(missing)}
     IN  Goto(p, [pc |-> "summed", now |-> proc[p].now, call |-> proc[p].call,
                  todo |-> proc[p].todo, missing |-> missing,
                  sums |-> [d \in missing |-> Bucket(range, proc[p].base, d)]])
  /\ UNCHANGED <<clock, poll, tables, due, upkeep, budget>>

\* Both executemany in one transaction; a day without snapshots gets no row.
Store(p) ==
  /\ proc[p].pc = "summed"
  /\ LET sums == proc[p].sums
     IN  daily' = [d \in Days |->
                    IF d \in DOMAIN sums /\ sums[d].observations > 0
                    THEN sums[d] ELSE daily[d]]
  /\ final' = final \cup proc[p].missing
  /\ Goto(p, [pc |-> "next", now |-> proc[p].now, call |-> proc[p].call,
              todo |-> proc[p].todo])
  /\ UNCHANGED <<clock, poll, snaps, kept, due, upkeep, budget>>

\* The answer is sent.
Answer(v) ==
  /\ proc[v].pc = "next"
  /\ proc[v].call = "apr"
  /\ proc[v].todo = {}
  /\ Goto(v, Idle)
  /\ UNCHANGED <<clock, poll, tables, due, upkeep, budget>>
-----------------------------------------------------------------------------
(***************************************************************************)
(* prune_snapshots                                                         *)
(***************************************************************************)

\* Mutant of Cutoff: the retention is not looked at.
CutoffAfterOneDay == proc[Collector].now[1] - 1

\* The maintenance took its now when it began.
Cutoff ==
  LET day == proc[Collector].now[1]
  IN  IF day > Retention THEN day - Retention ELSE 0

\* Nothing from the first day on that is not stored, and not the day before it.
LimitDay ==
  LET open == {d \in FirstStored .. Cutoff : d \notin final}
  IN  IF open = {} THEN Cutoff
      ELSE IF Min(open) = 0 THEN 0 ELSE Min(open) - 1

\* Mutant of Doomed: whatever is stored goes, recent or not.
DoomedOnceStored == {s \in snaps : s.day \in final}

\* Rows of the polls that were started before that day.
Doomed ==
  IF snaps = {} \/ FirstStored >= Cutoff \/ LimitDay <= FirstStored THEN {}
  ELSE {s \in snaps : s.started < LimitDay}

BeginPrune ==
  /\ proc[Collector].pc = "next"
  /\ proc[Collector].todo = {}
  /\ Goto(Collector, [pc |-> "pruning", now |-> proc[Collector].now,
                      doomed |-> Doomed])
  /\ UNCHANGED <<clock, poll, tables, due, upkeep, budget>>

\* A batch of polls, oldest first, in a transaction of its own.
PruneBatch ==
  /\ proc[Collector].pc = "pruning"
  /\ \E last \in proc[Collector].doomed :
       LET batch == {s \in proc[Collector].doomed : s.id <= last.id}
       IN  /\ snaps' = snaps \ batch
           /\ Goto(Collector, [proc[Collector] EXCEPT !.doomed = @ \ batch])
  /\ UNCHANGED <<clock, poll, daily, final, kept, due, upkeep, budget>>

EndPrune ==
  /\ proc[Collector].pc = "pruning"
  /\ proc[Collector].doomed = {}
  /\ Goto(Collector, Idle)
  /\ upkeep' = due
  /\ UNCHANGED <<clock, poll, tables, due, budget>>

\* "Daily maintenance failed": not tried again before the next day.
MaintenanceFails ==
  /\ budget > 0
  /\ proc[Collector].pc # "idle"
  /\ budget' = budget - 1
  /\ Goto(Collector, Idle)
  /\ upkeep' = due
  /\ UNCHANGED <<clock, poll, tables, due>>

\* The collector stops and is started again, and maintains again.
Restart ==
  /\ budget > 0
  /\ budget' = budget - 1
  /\ Goto(Collector, Idle)
  /\ poll' = NoPoll
  /\ due' = Never
  /\ UNCHANGED <<clock, tables, upkeep>>

StoreStep(p) == ListMissing(p) \/ ReadBaseline(p) \/ ReadRange(p) \/ Store(p)

Next ==
  \/ Quarter \/ Midnight
  \/ PollStart \/ PollObserve \/ PollCommit \/ PollFails
  \/ Maintain \/ BeginPrune \/ PruneBatch \/ EndPrune
  \/ MaintenanceFails \/ Restart
  \/ \E v \in Visitors : Request(v) \/ Estimate(v) \/ Answer(v)
  \/ \E p \in Procs : StoreStep(p)

Spec == Init /\ [][Next]_vars
-----------------------------------------------------------------------------
(***************************************************************************)
(* Properties                                                              *)
(***************************************************************************)

\* What day d is worth, with every snapshot there ever was.
Truth(d) ==
  LET range == {s \in kept : s.day >= d}
  IN  Bucket(range, Baseline(kept, d), d)

\* A stored day has the value that all its snapshots give: it was not computed
\* before the last of them nor after the first of them was removed.
StoredIsTrue == \A d \in final : daily[d] = Truth(d)

\* Snapshots are removed only when nothing that is still to be computed needs
\* them: an open day, and the day before it, give what they always gave.
OpenDaysAreIntact ==
  \A d \in {s.day : s \in kept} \ final :
    Bucket({s \in snaps : s.day >= d}, Baseline(snaps, d), d) = Truth(d)

\* Completed days never change, so they are calculated once and stored.
CompletedDaysStay ==
  [][/\ final \subseteq final'
     /\ \A d \in final : daily'[d] = daily[d]]_vars
=============================================================================
