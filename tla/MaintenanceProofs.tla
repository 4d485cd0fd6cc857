-------------------------- MODULE MaintenanceProofs --------------------------
(***************************************************************************)
(* Theorems about the daily statistics for any calendar, any number of     *)
(* snapshots, visitors, interruptions and outages.                         *)
(***************************************************************************)
EXTENDS Maintenance, FiniteSetTheorems, WellFoundedInduction, TLAPS

\* Nothing adds up to nothing.
LEMMA EmptySum == ASSUME NEW f, DOMAIN f = {} PROVE SumFunction(f) = 0
<1> DEFINE F == [s \in SUBSET {} |->
                   IF s = {} THEN 0 ELSE 0]
           P(g) == g = [s \in SUBSET {} |->
                          IF s = {} THEN 0
                          ELSE LET x == CHOOSE y \in s : TRUE IN f[x] + g[s \ {x}]]
<1>1. P(F)
  OBVIOUS
<1>2. P(CHOOSE g : P(g))
  BY <1>1
<1>3. (CHOOSE g : P(g))[{}] = 0
  BY <1>2
<1>4. SumFunction(f) = (CHOOSE g : P(g))[{}]
  BY DEF SumFunction, SumFunctionOnSet, FoldFunctionOnSet, MapThenFoldSet
<1> QED
  BY <1>3, <1>4

-----------------------------------------------------------------------------
(***************************************************************************)
(* The inductive invariant                                                 *)
(***************************************************************************)

\* LastClosed for a process that took its now at c.
Closed(c) == IF c[2] # "night" THEN c[1] - 1 ELSE c[1] - 2

\* Whatever is under way began now or before the last turn of the clock.
Recent(c) ==
  c = clock \/ c = (IF phase = "day" THEN <<today, "night">> ELSE <<today - 1, "day">>)

ClockOK == today \in Days /\ today >= FirstDay /\ phase \in {"night", "day"}

\* The snapshots there ever were, in the order of their ids.
RowOK(s) ==
  /\ s.id >= 1 /\ s.id <= Cardinality(kept)
  /\ s.started <= s.day /\ s.day <= s.started + 1 /\ s.day <= today
  /\ s.day <= s.epoch /\ s.epoch <= s.day + 1

KeptOK ==
  /\ kept \subseteq Snapshot /\ IsFiniteSet(kept)
  /\ \A s \in kept : RowOK(s)
  /\ \A s, t \in kept : s.id = t.id => s = t
  /\ \A s, t \in kept : s.id < t.id => s.day <= t.day /\ s.started <= t.started

PollOK ==
  \/ poll = NoPoll
  \/ /\ poll.pc = "started"
     /\ Recent(poll.now)
     /\ \A s \in kept : s.started <= poll.now[1]
  \/ /\ poll.pc = "observed"
     /\ Recent(poll.now)
     /\ poll.day \in Nat /\ poll.epoch \in Nat /\ poll.count \in Nat
     /\ poll.now[1] <= poll.day /\ poll.day <= poll.now[1] + 1 /\ poll.day <= today
     /\ poll.day <= poll.epoch /\ poll.epoch <= poll.day + 1
     /\ \A s \in kept : s.started <= poll.now[1] /\ s.day <= poll.day

\* What is removed was older than all that stays.
SnapsOK ==
  /\ snaps \subseteq kept
  /\ \A s \in snaps, t \in kept : s.id <= t.id => t \in snaps

FinalOK == final \subseteq Days /\ \A d \in final : d <= LastClosed

\* A snapshot that may go: its day is stored, the retention is over, and
\* no row of a day that is not stored can continue its epoch.
Gone(q) ==
  /\ q.day \in final
  /\ q.day + Retention <= today
  /\ \A s \in kept : s.day \notin final => q.day + 2 <= s.day

Lost == kept \ snaps
LostOK == \A q \in Lost : Gone(q)

Storing == {"next", "listed", "based", "summed"}
Chosen == {"listed", "based", "summed"}

\* The days a process still has to store.
Pending(w) ==
  (IF w.pc \in Storing THEN w.todo ELSE {}) \cup (IF w.pc \in Chosen THEN w.missing ELSE {})

\* Each record has the fields of its pc.
Shape(w) ==
  \/ w = Idle
  \/ /\ w.pc = "next"
     /\ w = [pc |-> "next", now |-> w.now, call |-> w.call, todo |-> w.todo]
  \/ /\ w.pc = "listed"
     /\ w = [pc |-> "listed", now |-> w.now, call |-> w.call, todo |-> w.todo,
             missing |-> w.missing]
  \/ /\ w.pc = "based"
     /\ w = [pc |-> "based", now |-> w.now, call |-> w.call, todo |-> w.todo,
             missing |-> w.missing, base |-> w.base]
  \/ /\ w.pc = "summed"
     /\ w = [pc |-> "summed", now |-> w.now, call |-> w.call, todo |-> w.todo,
             missing |-> w.missing, sums |-> w.sums]
  \/ /\ w.pc = "pruning"
     /\ w = [pc |-> "pruning", now |-> w.now, doomed |-> w.doomed]

\* What a process of either kind is about.
WorkOK(w) ==
  /\ Shape(w)
  /\ w # Idle => Recent(w.now)
  /\ Pending(w) \subseteq Days
  /\ \A d \in Pending(w) : d <= Closed(w.now)
  /\ w.pc \in Chosen => w.missing # {}

\* What the collector will not store any more, of the days since the first of
\* its snapshots, is among the days F.
Covers(F, w) ==
  w.pc \in Storing =>
    \A s \in snaps, d \in Days :
      s.day <= d /\ d <= Closed(w.now) => d \in F \cup Pending(w)

\* It removes the oldest of what it has, and nothing that it needs.
PrunesOK(w) ==
  w.pc = "pruning" =>
    /\ w.doomed \subseteq snaps
    /\ \A q \in w.doomed : Gone(q)
    /\ \A q \in w.doomed, s \in snaps : s.id <= q.id => s \in w.doomed

\* The collector does not poll while it maintains.
CollectorOK(w) == (w # Idle => poll = NoPoll) /\ Covers(final, w) /\ PrunesOK(w)

ProcOK ==
  /\ DOMAIN proc = Procs
  /\ \A p \in Procs : WorkOK(proc[p])
  /\ \A v \in Visitors : proc[v].pc # "pruning"
  /\ CollectorOK(proc[Collector])

RowsInv == ClockOK /\ KeptOK /\ PollOK /\ SnapsOK /\ FinalOK /\ LostOK /\ ProcOK

-----------------------------------------------------------------------------
(***************************************************************************)
(* The values                                                              *)
(***************************************************************************)

OfDay(d) == {s \in kept : s.day = d}
Before(s) == {t \in kept : t.id < s.id}

\* What the delta of a snapshot and the bucket of a day come to with every
\* snapshot there ever was.
Gain(s) == Delta(Latest(Before(s)), s)
Worth(d) == [delta |-> SumFunction([s \in OfDay(d) |-> Gain(s)]),
             observations |-> Cardinality(OfDay(d))]

\* Nothing that is lost is on day d or can be continued on it.
Safe(d) == \A q \in Lost, s \in kept : s.day = d => q.day + 2 <= d

\* A baseline that does for a range that begins on day lo.
BaseOK(base, lo) ==
  /\ base = NoSnapshot \/ (base \in kept /\ base.day < lo)
  /\ \A t \in snaps : t.day < lo => base \in kept /\ t.id <= base.id

ValueOK(w) ==
  /\ w.pc = "based" => BaseOK(w.base, Min(w.missing))
  /\ w.pc = "summed" => /\ DOMAIN w.sums = w.missing
                        /\ \A d \in w.missing : w.sums[d] = Worth(d)

\* What the two lists of a request look back to is kept for two days more.
LooksBackLess == Period + 2 <= Retention /\ AprDays + 3 <= Retention

\* Day d is not that far back for a process that took its now at c: what is
\* removed until it is done is of two days before it at the latest.
InReach(c, d) == Closed(c) + 4 <= d + Retention

DailyOK == daily = [d \in Days |-> IF d \in final THEN Worth(d) ELSE Nothing]

ValuesInv ==
  /\ DailyOK
  /\ \A p \in Procs : ValueOK(proc[p])
  /\ \A v \in Visitors, d \in Days : d \in Pending(proc[v]) => InReach(proc[v].now, d)
  /\ \A d \in Pending(proc[Collector]) : Safe(d)

-----------------------------------------------------------------------------
(***************************************************************************)
(* Least and greatest                                                      *)
(***************************************************************************)

\* Min of a set of numbers is its least member.
LEMMA MinOf ==
  ASSUME NEW S \in SUBSET Nat, S # {}
  PROVE  Min(S) \in S /\ \A x \in S : Min(S) <= x
<1> DEFINE R == OpToRel(<, Nat)
<1>1. PICK m \in S : \A x \in S : ~ (<<x, m>> \in R)
  BY NatLessThanWellFounded, WFMin
<1>2. \A x \in S : ~ (x < m)
  BY <1>1 DEF OpToRel
<1>3. \A x \in S : m <= x
  BY <1>2
<1> QED
  BY <1>3, Zenon DEF Min

\* Max of a bounded set of numbers is its greatest member.
LEMMA MaxOf ==
  ASSUME NEW n \in Nat, NEW S \in SUBSET (0 .. n), S # {}
  PROVE  Max(S) \in S /\ \A x \in S : x <= Max(S)
<1> DEFINE Above == {n - x : x \in S}
<1>1. Above \in SUBSET Nat /\ Above # {}
  <2>1. \A x \in S : n - x \in Nat
    OBVIOUS
  <2>2. \A y \in Above : y \in Nat
    BY <2>1
  <2> QED
    BY <2>2
<1>2. PICK m \in S : n - m = Min(Above)
  BY <1>1, MinOf
<1>3. \A x \in S : m >= x
  <2> TAKE x \in S
  <2>1. n - m <= n - x
    BY <1>1, <1>2, MinOf
  <2> QED
    BY <2>1
<1>4. \E x \in S : \A y \in S : x >= y
  BY <1>3
<1>5. Max(S) \in S /\ \A y \in S : Max(S) >= y
  BY <1>4, Zenon DEF Max
<1> QED
  BY <1>5

\* Latest of some of the snapshots is the one of them with the greatest id.
LEMMA LatestOf ==
  ASSUME KeptOK, NEW S \in SUBSET kept, S # {}
  PROVE  Latest(S) \in S /\ \A t \in S : t.id <= Latest(S).id
<1> DEFINE n == Cardinality(kept)
           Above == {n - s.id : s \in S}
<1>1. n \in Nat
  BY FS_CardinalityType DEF KeptOK
<1>2. Above \in SUBSET Nat /\ Above # {}
  BY <1>1 DEF KeptOK, RowOK, Snapshot
<1>3. PICK m \in S : n - m.id = Min(Above)
  BY <1>2, MinOf
<1>4. \A t \in S : t.id <= m.id
  <2> TAKE t \in S
  <2>1. n - m.id <= n - t.id
    BY <1>2, <1>3, MinOf
  <2> QED
    BY <1>1, <2>1 DEF KeptOK, RowOK, Snapshot
<1>5. Latest(S) = CHOOSE s \in S : \A t \in S : t.id <= s.id
  BY DEF Latest
<1> QED
  BY <1>4, <1>5, Zenon

\* Rows that are two days apart are of different epochs.
LEMMA FarApart ==
  ASSUME KeptOK, NEW q \in kept, NEW s \in kept, q.day + 2 <= s.day
  PROVE  Delta(q, s) = 0
<1>1. q.epoch <= q.day + 1 /\ s.day <= s.epoch
  BY DEF KeptOK, RowOK
<1>2. q.epoch \in Nat /\ s.epoch \in Nat /\ q.day \in Nat /\ s.day \in Nat
  BY DEF KeptOK, Snapshot
<1>3. q.epoch # s.epoch
  BY <1>1, <1>2
<1> QED
  BY <1>3 DEF Delta

\* What is in the table in place of all there ever was: the bucket of a day is
\* right when the range begins on an earlier day, the baseline is the row
\* before it, and nothing that is missing could be continued on that day.
LEMMA BucketIsWorth ==
  ASSUME KeptOK,
         NEW S \in SUBSET kept, \A s \in S, t \in kept : s.id <= t.id => t \in S,
         NEW d \in Nat, NEW lo \in Nat, lo <= d,
         NEW R \in SUBSET S, \A t \in R : lo <= t.day,
         \A t \in S : lo <= t.day /\ t.day <= d => t \in R,
         NEW base, base = NoSnapshot \/ (base \in kept /\ base.day < lo),
         \A t \in S : t.day < lo => base \in kept /\ t.id <= base.id,
         \A q \in kept \ S, s \in kept : s.day = d => q.day + 2 <= d
  PROVE  Bucket(R, base, d) = Worth(d)
<1> DEFINE earlier(s) == {t \in R : t.id < s.id}
           prior(s) == IF earlier(s) = {} THEN base ELSE Latest(earlier(s))
<1>1. \A s \in kept : s.id \in Nat /\ s.id >= 1 /\ s.day \in Nat
  BY DEF KeptOK, RowOK, Snapshot
<1>2. {s \in R : s.day = d} = OfDay(d)
  <2>1. ASSUME NEW s \in kept, s.day = d
        PROVE  s \in R
    <3>1. s \in S
      BY <1>1, <2>1
    <3> QED
      BY <1>1, <2>1, <3>1
  <2> QED
    BY <2>1 DEF OfDay
<1>3. ASSUME NEW s \in OfDay(d)
      PROVE  Delta(prior(s), s) = Gain(s)
  <2>1. s \in R /\ s \in kept /\ s.day = d
    BY <1>2 DEF OfDay
  <2>2. CASE Before(s) = {}
    <3>1. earlier(s) = {}
      BY <2>2 DEF Before
    <3>2. base = NoSnapshot
      <4>1. SUFFICES ASSUME base \in kept, base.day < lo
                     PROVE  FALSE
        OBVIOUS
      <4>2. ~ (base.id < s.id)
        BY <2>2, <4>1 DEF Before
      <4>3. s.id = base.id \/ s.id < base.id
        BY <1>1, <2>1, <4>1, <4>2
      <4>4. s.day <= base.day
        BY <1>1, <2>1, <4>1, <4>3 DEF KeptOK
      <4> QED
        BY <1>1, <2>1, <4>1, <4>4
    <3>3. Latest(Before(s)) = NoSnapshot
      BY <2>2 DEF Latest
    <3> QED
      BY <3>1, <3>2, <3>3 DEF Gain
  <2>3. CASE Before(s) # {}
    <3> DEFINE g == Latest(Before(s))
    <3>1. g \in Before(s) /\ \A t \in Before(s) : t.id <= g.id
      BY <2>3, LatestOf DEF Before
    <3> HIDE DEF g
    <3>2. g \in kept /\ g.id < s.id /\ g.day <= d
      BY <2>1, <3>1 DEF Before, KeptOK
    <3>3. CASE earlier(s) # {}
      <4> DEFINE h == Latest(earlier(s))
      <4>1. h \in earlier(s) /\ \A t \in earlier(s) : t.id <= h.id
        BY <3>3, LatestOf
      <4> HIDE DEF h
      <4>2. h \in R /\ h.id < s.id
        BY <4>1
      <4>3. h.id <= g.id
        BY <3>1, <4>2 DEF Before
      <4>4. g \in S
        BY <3>2, <4>2, <4>3
      <4>5. lo <= g.day
        <5>1. lo <= h.day
          BY <4>2
        <5>2. h.day <= g.day
          BY <1>1, <3>2, <4>2, <4>3 DEF KeptOK
        <5> QED
          BY <1>1, <3>2, <4>2, <5>1, <5>2
      <4>6. g \in earlier(s)
        BY <3>2, <4>4, <4>5
      <4>7. g = h
        BY <1>1, <3>2, <4>1, <4>2, <4>3, <4>6 DEF KeptOK
      <4> QED
        BY <3>3, <4>7 DEF Gain, g, h
    <3>4. CASE earlier(s) = {}
      <4>1. prior(s) = base
        BY <3>4
      <4>2. base \in kept => base.id < s.id /\ base.id <= g.id
        <5>1. SUFFICES ASSUME base \in kept
                       PROVE  base.id < s.id /\ base.id <= g.id
          OBVIOUS
        <5>2. base.day < lo
          BY <1>1, <5>1 DEF NoSnapshot
        <5>3. ~ (base.day >= s.day)
          BY <1>1, <2>1, <5>1, <5>2
        <5>4. base.id < s.id
          BY <1>1, <2>1, <5>1, <5>3 DEF KeptOK
        <5> QED
          BY <3>1, <5>1, <5>4 DEF Before
      <4>3. CASE g \in S
        <5>1. g.day < lo
          BY <1>1, <3>2, <3>4, <4>3
        <5>2. base \in kept /\ g.id <= base.id
          BY <4>3, <5>1
        <5>3. base = g
          BY <1>1, <3>2, <4>2, <5>2 DEF KeptOK
        <5> QED
          BY <4>1, <5>3 DEF Gain, g
      <4>4. CASE g \notin S
        <5>1. g.day + 2 <= s.day
          BY <2>1, <3>2, <4>4
        <5>2. Delta(g, s) = 0
          BY <2>1, <3>2, <5>1, FarApart
        <5>3. Delta(base, s) = 0
          <6>1. CASE base = NoSnapshot
            BY <6>1 DEF Delta
          <6>2. CASE base \in kept
            <7>1. base.day <= g.day
              BY <1>1, <3>2, <4>2, <6>2 DEF KeptOK
            <7>2. base.day + 2 <= s.day
              BY <1>1, <2>1, <3>2, <5>1, <6>2, <7>1
            <7> QED
              BY <2>1, <6>2, <7>2, FarApart
          <6> QED
            BY <6>1, <6>2
        <5> QED
          BY <4>1, <5>2, <5>3 DEF Gain, g
      <4> QED
        BY <4>3, <4>4
    <3> QED
      BY <3>3, <3>4
  <2> QED
    BY <2>2, <2>3
<1>4. [s \in OfDay(d) |-> Delta(prior(s), s)] = [s \in OfDay(d) |-> Gain(s)]
  BY <1>3
<1>5. Bucket(R, base, d) = [delta |-> SumFunction([s \in OfDay(d) |-> Delta(prior(s), s)]),
                            observations |-> Cardinality(OfDay(d))]
  BY <1>2, Zenon DEF Bucket
<1> QED
  BY <1>4, <1>5 DEF Worth

\* What ReadBaseline takes is a baseline.
LEMMA BaselineIs ==
  ASSUME KeptOK, NEW S \in SUBSET kept, NEW lo \in Nat
  PROVE  /\ Baseline(S, lo) = NoSnapshot
              \/ (Baseline(S, lo) \in kept /\ Baseline(S, lo).day < lo)
         /\ \A t \in S : t.day < lo =>
              Baseline(S, lo) \in kept /\ t.id <= Baseline(S, lo).id
<1> DEFINE T == {s \in S : s.day < lo}
<1>1. CASE T = {}
  BY <1>1 DEF Baseline, Latest
<1>2. CASE T # {}
  <2>1. Latest(T) \in T /\ \A t \in T : t.id <= Latest(T).id
    BY <1>2, LatestOf
  <2> QED
    BY <2>1 DEF Baseline
<1> QED
  BY <1>1, <1>2

LEMMA TruthIsWorth ==
  ASSUME KeptOK, NEW d \in Nat
  PROVE  Truth(d) = Worth(d)
<1> DEFINE R == {s \in kept : s.day >= d}
<1>1. \A s \in kept : s.day \in Nat
  BY DEF KeptOK, Snapshot
<1>2. Bucket(R, Baseline(kept, d), d) = Worth(d)
  BY <1>1, BaselineIs, BucketIsWorth
<1> QED
  BY <1>2 DEF Truth

LEMMA IntactIsWorth ==
  ASSUME KeptOK, SnapsOK, NEW d \in Nat, Safe(d)
  PROVE  Bucket({s \in snaps : s.day >= d}, Baseline(snaps, d), d) = Worth(d)
<1>1. \A s \in kept : s.day \in Nat
  BY DEF KeptOK, Snapshot
<1>2. snaps \in SUBSET kept /\ \A s \in snaps, t \in kept : s.id <= t.id => t \in snaps
  BY DEF SnapsOK
<1>3. \A q \in kept \ snaps, s \in kept : s.day = d => q.day + 2 <= d
  BY DEF Safe, Lost
<1> QED
  BY <1>1, <1>2, <1>3, BaselineIs, BucketIsWorth

\* The sums of ReadRange.
LEMMA RangeIsWorth ==
  ASSUME KeptOK, SnapsOK, MaxDay \in Nat,
         NEW missing \in SUBSET Days, NEW d \in missing, Safe(d),
         NEW base, BaseOK(base, Min(missing))
  PROVE  Bucket({s \in snaps : s.day \in Min(missing) .. Max(missing)}, base, d) = Worth(d)
<1> DEFINE lo == Min(missing)
           hi == Max(missing)
           R == {s \in snaps : s.day \in lo .. hi}
<1>1. lo \in missing /\ lo <= d /\ hi \in missing /\ d <= hi
  BY MinOf, MaxOf DEF Days
<1>2. \A s \in kept : s.day \in Nat
  BY DEF KeptOK, Snapshot
<1> HIDE DEF lo, hi
<1>3. lo \in Nat /\ hi \in Nat /\ d \in Nat
  BY <1>1 DEF Days
<1>4. snaps \in SUBSET kept /\ \A s \in snaps, t \in kept : s.id <= t.id => t \in snaps
  BY DEF SnapsOK
<1>5. \A q \in kept \ snaps, s \in kept : s.day = d => q.day + 2 <= d
  BY DEF Safe, Lost
<1>6. /\ base = NoSnapshot \/ (base \in kept /\ base.day < lo)
      /\ \A t \in snaps : t.day < lo => base \in kept /\ t.id <= base.id
  BY DEF BaseOK, lo
<1>7. \A t \in R : lo <= t.day
  BY <1>2, <1>3, <1>4
<1>8. \A t \in snaps : lo <= t.day /\ t.day <= d => t \in R
  BY <1>1, <1>2, <1>3, <1>4
<1>9. Bucket(R, base, d) = Worth(d)
  BY <1>1, <1>3, <1>4, <1>5, <1>6, <1>7, <1>8, BucketIsWorth
<1> QED
  BY <1>9 DEF lo, hi

\* A day without snapshots is worth nothing.
LEMMA WorthNothing ==
  ASSUME IsFiniteSet(kept), NEW d, ~ (Worth(d).observations > 0)
  PROVE  Worth(d) = Nothing
<1>1. IsFiniteSet(OfDay(d))
  BY FS_Subset DEF OfDay
<1>2. Cardinality(OfDay(d)) = 0
  BY <1>1, FS_CardinalityType DEF Worth
<1>3. OfDay(d) = {}
  BY <1>1, <1>2, FS_EmptySet
<1>4. SumFunction([s \in OfDay(d) |-> Gain(s)]) = 0
  BY <1>3, EmptySum
<1> QED
  BY <1>2, <1>4 DEF Worth, Nothing

-----------------------------------------------------------------------------
(***************************************************************************)
(* Clocks                                                                  *)
(***************************************************************************)

LEMMA RecentClock ==
  ASSUME ClockOK, NEW c, Recent(c)
  PROVE  /\ c[1] \in Int /\ c[1] <= today /\ today <= c[1] + 1
         /\ Closed(c) \in Int /\ c[1] - 2 <= Closed(c) /\ Closed(c) <= LastClosed
         /\ Closed(c) <= c[1] - 1 /\ today <= Closed(c) + 2
BY DEF ClockOK, Recent, Closed, LastClosed, clock, Days

LEMMA LastClosedIs ==
  ASSUME ClockOK
  PROVE  LastClosed = Closed(clock) /\ LastClosed \in Int /\ LastClosed <= today - 1
BY DEF ClockOK, Closed, LastClosed, clock, Days

\* What began by the clock before a turn is recent after it.
LEMMA TurnIs ==
  ASSUME ClockOK, Quarter \/ Midnight
  PROVE  /\ ClockOK' /\ LastClosed <= LastClosed' /\ today <= today'
         /\ \A c : c = clock => Recent(c)'
<1>1. CASE Quarter
  BY <1>1 DEF ClockOK, Quarter, Turn, clock, LastClosed, Days, Recent
<1>2. CASE Midnight
  <2>1. today' = today + 1 /\ phase = "day" /\ phase' = "night" /\ today < MaxDay
    BY <1>2 DEF Midnight, Turn
  <2>2. ClockOK' /\ LastClosed <= LastClosed' /\ today <= today'
    BY <2>1, MaintenanceBounds DEF ClockOK, LastClosed, Days, FirstDay
  <2>3. today' - 1 = today
    BY <2>1 DEF ClockOK, Days
  <2>4. \A c : c = clock => Recent(c)'
    BY <2>1, <2>3 DEF Recent, clock
  <2> QED
    BY <2>2, <2>4
<1> QED
  BY <1>1, <1>2

-----------------------------------------------------------------------------
(***************************************************************************)
(* Preservation of RowsInv                                                 *)
(***************************************************************************)

\* What may go may go for good: days are only stored, time only passes, and
\* a new snapshot is at least two days younger.
LEMMA GoneStays ==
  ASSUME ClockOK, KeptOK, Retention >= 3,
         today' \in Nat, today <= today', final \subseteq final',
         \A s \in kept' : s \in kept \/ (today - 1 <= s.day /\ s.day \in Nat)
  PROVE  \A q \in kept : Gone(q) => Gone(q)'
<1> SUFFICES ASSUME NEW q \in kept, Gone(q)
             PROVE  Gone(q)'
  OBVIOUS
<1>1. q.day \in Nat /\ today \in Nat /\ Retention \in Nat
  BY MaintenanceBounds DEF KeptOK, Snapshot, ClockOK, Days
<1>2. q.day + Retention <= today'
  BY <1>1 DEF Gone
<1>3. ASSUME NEW s \in kept', s.day \notin final'
      PROVE  q.day + 2 <= s.day
  <2>1. CASE s \in kept
    BY <1>3, <2>1 DEF Gone
  <2>2. CASE today - 1 <= s.day /\ s.day \in Nat
    BY <1>1, <2>2 DEF Gone
  <2> QED
    BY <1>3, <2>1, <2>2
<1> QED
  BY <1>2, <1>3 DEF Gone

LEMMA InitRows ==
  Init => RowsInv
<1> SUFFICES ASSUME Init PROVE RowsInv
  OBVIOUS
<1> USE DEF Init
<1>1. ClockOK
  BY MaintenanceBounds DEF ClockOK, FirstDay, Days
<1>2. KeptOK
  BY FS_EmptySet DEF KeptOK
<1>3. PollOK /\ SnapsOK /\ FinalOK /\ LostOK
  BY DEF PollOK, SnapsOK, FinalOK, LostOK, Lost
<1>4. ProcOK
  <2>1. DOMAIN proc = Procs /\ \A p \in Procs : proc[p] = Idle
    OBVIOUS
  <2>2. WorkOK(Idle) /\ Idle.pc # "pruning" /\ CollectorOK(Idle)
    BY DEF WorkOK, Idle, Shape, Pending, Storing, Chosen, CollectorOK, Covers, PrunesOK
  <2> QED
    BY <2>1, <2>2 DEF ProcOK, Procs
<1> QED
  BY <1>1, <1>2, <1>3, <1>4 DEF RowsInv

LEMMA TurnKeepsRows ==
  ASSUME RowsInv, Retention >= 3, Quarter \/ Midnight
  PROVE  RowsInv'
<1>1. /\ ClockOK' /\ LastClosed <= LastClosed' /\ today <= today'
      /\ \A c : c = clock => Recent(c)'
  BY TurnIs DEF RowsInv
<1>2. UNCHANGED <<poll, snaps, daily, final, kept, proc>> /\ NothingOldOpen
  BY DEF Quarter, Midnight, Turn, tables
<1>3. today' \in Nat /\ LastClosed \in Int /\ LastClosed' \in Int
  BY <1>1, LastClosedIs DEF RowsInv, ClockOK, Days, LastClosed
<1>4. KeptOK'
  <2>1. today \in Nat /\ \A s \in kept : s.day \in Nat
    BY DEF RowsInv, ClockOK, KeptOK, Days, Snapshot
  <2>2. \A s \in kept : RowOK(s)'
    BY <1>1, <1>2, <1>3, <2>1 DEF RowsInv, KeptOK, RowOK
  <2> QED
    BY <1>2, <2>2 DEF RowsInv, KeptOK
<1>5. PollOK'
  <2>1. CASE poll = NoPoll
    BY <1>2, <2>1 DEF PollOK
  <2>2. CASE poll # NoPoll
    <3>1. Recent(poll.now)'
      BY <1>1, <1>2, <2>2 DEF NothingOldOpen
    <3>2. poll.pc = "observed" => poll.day <= today'
      BY <1>1, <1>3, <2>2 DEF RowsInv, ClockOK, Days, PollOK
    <3> QED
      BY <1>2, <2>2, <3>1, <3>2 DEF RowsInv, PollOK
  <2> QED
    BY <2>1, <2>2
<1>6. SnapsOK' /\ FinalOK'
  BY <1>1, <1>2, <1>3 DEF RowsInv, SnapsOK, FinalOK, Days
<1>7. \A q \in kept : Gone(q) => Gone(q)'
  <2>1. final \subseteq final' /\ \A s \in kept' : s \in kept
    BY <1>2
  <2>2. ClockOK /\ KeptOK
    BY DEF RowsInv
  <2> QED
    BY <1>1, <1>3, <2>1, <2>2, GoneStays
<1>8. LostOK'
  BY <1>2, <1>7 DEF RowsInv, LostOK, Lost
<1>9. ProcOK'
  <2>1. \A p \in Procs : WorkOK(proc[p])'
    <3> TAKE p \in Procs
    <3>1. proc[p] # Idle => Recent(proc[p].now)'
      <4>1. proc[p] # Idle => proc[p].pc # "idle"
        BY DEF RowsInv, ProcOK, WorkOK, Shape
      <4> QED
        BY <1>1, <1>2, <4>1 DEF NothingOldOpen
    <3> QED
      BY <1>2, <3>1 DEF RowsInv, ProcOK, WorkOK
  <2>2. CollectorOK(proc[Collector])'
    BY <1>2, <1>7 DEF RowsInv, SnapsOK, ProcOK, CollectorOK, Covers, PrunesOK
  <2> QED
    BY <1>2, <2>1, <2>2 DEF RowsInv, ProcOK
<1> QED
  BY <1>1, <1>4, <1>5, <1>6, <1>8, <1>9 DEF RowsInv

\* Steps of the collector's poll up to the commit.
LEMMA OnlyPollMoves ==
  ASSUME RowsInv, UNCHANGED <<clock, tables, proc>>, PollOK',
         proc[Collector] # Idle => poll' = NoPoll
  PROVE  RowsInv'
<1>1. UNCHANGED <<today, phase, snaps, daily, final, kept, proc>>
  BY DEF clock, tables
<1>2. ClockOK' /\ KeptOK' /\ SnapsOK' /\ FinalOK'
  BY <1>1 DEF RowsInv, ClockOK, KeptOK, RowOK, SnapsOK, FinalOK, LastClosed
<1>3. \A q : Gone(q) => Gone(q)'
  BY <1>1 DEF Gone
<1>4. LostOK'
  BY <1>1, <1>3 DEF RowsInv, LostOK, Lost
<1>5. \A p \in Procs : WorkOK(proc[p])'
  BY <1>1 DEF RowsInv, ProcOK, WorkOK, Recent, clock
<1>6. CollectorOK(proc[Collector])'
  BY <1>1, <1>3 DEF RowsInv, ProcOK, CollectorOK, Covers, PrunesOK
<1>7. ProcOK'
  BY <1>1, <1>5, <1>6 DEF RowsInv, ProcOK
<1> QED
  BY <1>2, <1>4, <1>7 DEF RowsInv

LEMMA PollStartKeepsRows ==
  ASSUME RowsInv, PollStart
  PROVE  RowsInv'
<1>1. UNCHANGED <<clock, tables, proc>> /\ UNCHANGED <<today, phase, kept>>
  BY DEF PollStart, clock, tables
<1>2. poll' = [pc |-> "started", now |-> clock] /\ proc[Collector].pc = "idle"
  BY DEF PollStart
<1>3. proc[Collector] = Idle
  BY <1>2 DEF RowsInv, ProcOK, WorkOK, Shape, Procs
<1>4. \A s \in kept : s.started <= today
  BY DEF RowsInv, ClockOK, KeptOK, RowOK, Snapshot, Days
<1>5. PollOK'
  BY <1>1, <1>2, <1>4 DEF PollOK, Recent, clock
<1> QED
  BY <1>1, <1>3, <1>5, OnlyPollMoves

LEMMA PollObserveKeepsRows ==
  ASSUME RowsInv, PollObserve
  PROVE  RowsInv'
<1>1. UNCHANGED <<clock, tables, proc>> /\ UNCHANGED <<today, phase, kept>>
  BY DEF PollObserve, clock, tables
<1>2. poll.pc = "started" /\ poll # NoPoll
  BY DEF PollObserve, NoPoll
<1>3. Recent(poll.now) /\ \A s \in kept : s.started <= poll.now[1]
  BY <1>2 DEF RowsInv, PollOK
<1>4. PICK r \in [epoch : today .. today + 1, count : 0 .. MaxCount] :
        poll' = [pc |-> "observed", now |-> poll.now, day |-> today,
                 epoch |-> r.epoch, count |-> r.count]
  BY DEF PollObserve, Readings
<1>5. today \in Nat /\ \A s \in kept : s.day <= today
  BY DEF RowsInv, ClockOK, KeptOK, RowOK, Days
<1>6. poll.now[1] <= today /\ today <= poll.now[1] + 1
  BY <1>3, RecentClock DEF RowsInv
<1>7. r.epoch \in Nat /\ today <= r.epoch /\ r.epoch <= today + 1 /\ r.count \in Nat
  BY <1>4, <1>5, MaintenanceBounds
<1>8. \A c : Recent(c) => Recent(c)'
  BY <1>1 DEF Recent, clock
<1>9. PollOK'
  <2>1. poll'.pc = "observed" /\ poll'.now = poll.now /\ poll'.day = today
          /\ poll'.epoch = r.epoch /\ poll'.count = r.count
    BY <1>4
  <2> QED
    BY <1>1, <1>3, <1>5, <1>6, <1>7, <1>8, <2>1 DEF PollOK
<1>10. proc[Collector] = Idle
  BY <1>2 DEF RowsInv, ProcOK, CollectorOK
<1> QED
  BY <1>1, <1>9, <1>10, OnlyPollMoves

LEMMA PollFailsKeepsRows ==
  ASSUME RowsInv, PollFails
  PROVE  RowsInv'
BY OnlyPollMoves DEF PollFails, PollOK

\* The row that record_observation adds.
Added == [id |-> Cardinality(kept) + 1, started |-> poll.now[1],
          day |-> poll.day, epoch |-> poll.epoch, count |-> poll.count]

LEMMA AddedIs ==
  ASSUME RowsInv, PollCommit
  PROVE  /\ kept' = kept \cup {Added} /\ snaps' = snaps \cup {Added}
         /\ UNCHANGED <<clock, daily, final, proc>>
         /\ Cardinality(kept) \in Nat /\ Cardinality(kept') = Cardinality(kept) + 1
         /\ IsFiniteSet(kept') /\ Added \in Snapshot
         /\ Added.id = Cardinality(kept) + 1
         /\ today - 1 <= Added.day /\ LastClosed < Added.day
         /\ proc[Collector] = Idle
<1>1. poll.pc = "observed" /\ poll # NoPoll
  BY DEF PollCommit, NoPoll
<1>2. /\ Recent(poll.now) /\ poll.day \in Nat /\ poll.epoch \in Nat /\ poll.count \in Nat
      /\ poll.now[1] <= poll.day /\ poll.day <= poll.now[1] + 1
  BY <1>1 DEF RowsInv, PollOK
<1>3. Cardinality(kept) \in Nat
  BY FS_CardinalityType DEF RowsInv, KeptOK
<1>4. kept' = kept \cup {Added} /\ snaps' = snaps \cup {Added}
      /\ UNCHANGED <<clock, daily, final, proc>>
  BY DEF PollCommit, Added
<1>5. poll.now[1] \in Nat /\ today - 1 <= poll.now[1] /\ LastClosed < poll.now[1]
  <2>1. ClockOK
    BY DEF RowsInv
  <2> QED
    BY <1>2, <2>1 DEF Recent, clock, ClockOK, Days, FirstDay, LastClosed
<1>6. Added \in Snapshot /\ Added.id = Cardinality(kept) + 1
  BY <1>2, <1>3, <1>5 DEF Added, Snapshot
<1>7. Added \notin kept
  BY <1>3, <1>6 DEF RowsInv, KeptOK, RowOK
<1>8. Cardinality(kept') = Cardinality(kept) + 1 /\ IsFiniteSet(kept')
  BY <1>4, <1>7, FS_AddElement DEF RowsInv, KeptOK
<1>9. today - 1 <= Added.day /\ LastClosed < Added.day
  <2>1. today \in Int /\ LastClosed \in Int /\ Added.day = poll.day
    BY LastClosedIs DEF RowsInv, ClockOK, Days, Added
  <2> QED
    BY <1>2, <1>5, <2>1
<1>10. proc[Collector] = Idle
  BY <1>1 DEF RowsInv, ProcOK, CollectorOK
<1> QED
  BY <1>3, <1>4, <1>6, <1>8, <1>9, <1>10

LEMMA PollCommitKeepsRows ==
  ASSUME RowsInv, Retention >= 3, PollCommit
  PROVE  RowsInv'
<1>1. poll.pc = "observed" /\ poll' = NoPoll
  BY DEF PollCommit
<1>2. poll.pc = "observed" /\ PollOK /\ poll # NoPoll
  BY <1>1 DEF RowsInv, NoPoll
<1>3. UNCHANGED <<today, phase, daily, final, proc>>
  BY AddedIs DEF clock
<1>4. ClockOK' /\ FinalOK' /\ PollOK'
  BY <1>1, <1>3 DEF RowsInv, ClockOK, FinalOK, LastClosed, PollOK
<1>5. KeptOK'
  <2>1. \A s \in kept : s.id \in Nat /\ s.id <= Cardinality(kept)
    BY DEF RowsInv, KeptOK, RowOK, Snapshot
  <2>2. kept' \subseteq Snapshot /\ IsFiniteSet(kept')
    BY AddedIs DEF RowsInv, KeptOK
  <2>3. \A s \in kept : RowOK(s)'
    <3>1. Cardinality(kept) \in Nat /\ Cardinality(kept') = Cardinality(kept) + 1
      BY AddedIs
    <3> QED
      BY <1>3, <2>1, <3>1 DEF RowsInv, KeptOK, RowOK
  <2>4. ASSUME NEW s, s = Added
        PROVE  RowOK(s)'
    <3>1. Cardinality(kept) \in Nat /\ Cardinality(kept') = Cardinality(kept) + 1
      BY AddedIs
    <3>2. /\ s.id = Cardinality(kept) + 1 /\ s.started = poll.now[1]
          /\ s.day = poll.day /\ s.epoch = poll.epoch
      BY <2>4 DEF Added
    <3>3. /\ s.started <= s.day /\ s.day <= s.started + 1 /\ s.day <= today
          /\ s.day <= s.epoch /\ s.epoch <= s.day + 1
      BY <1>2, <3>2 DEF PollOK
    <3> QED
      BY <1>3, <3>1, <3>2, <3>3 DEF RowOK
  <2>5. \A s, t \in kept' : s.id = t.id => s = t
    BY <2>1, AddedIs DEF RowsInv, KeptOK
  <2>6. \A s, t \in kept' : s.id < t.id => s.day <= t.day /\ s.started <= t.started
    <3>1. \A s \in kept : s.started <= Added.started /\ s.day <= Added.day
      BY <1>2 DEF PollOK, Added
    <3>2. \A s \in kept : ~ (Added.id < s.id)
      BY <2>1, AddedIs
    <3>3. ~ (Added.id < Added.id)
      BY AddedIs
    <3> QED
      BY <3>1, <3>2, <3>3, AddedIs DEF RowsInv, KeptOK
  <2> QED
    BY <2>2, <2>3, <2>4, <2>5, <2>6, AddedIs DEF KeptOK
<1>6. SnapsOK'
  <2>1. \A s \in kept : s.id \in Nat /\ s.id <= Cardinality(kept)
    BY DEF RowsInv, KeptOK, RowOK, Snapshot
  <2> QED
    BY <2>1, AddedIs DEF RowsInv, SnapsOK
<1>7. \A q \in kept : Gone(q) => Gone(q)'
  <2>1. \A s \in kept' : s \in kept \/ (today - 1 <= s.day /\ s.day \in Nat)
    BY AddedIs DEF Snapshot
  <2>2. ClockOK /\ KeptOK /\ today' \in Nat /\ today <= today' /\ final \subseteq final'
    BY <1>3 DEF RowsInv, ClockOK, Days
  <2> QED
    BY <2>1, <2>2, GoneStays
<1>8. LostOK'
  BY <1>7, AddedIs DEF RowsInv, LostOK, Lost
<1>9. ProcOK'
  <2>1. \A p \in Procs : WorkOK(proc[p])'
    BY <1>3 DEF RowsInv, ProcOK, WorkOK, Recent, clock
  <2>2. CollectorOK(proc[Collector])'
    BY <1>3, AddedIs DEF CollectorOK, Covers, PrunesOK, Idle, Storing
  <2> QED
    BY <1>3, <2>1, <2>2 DEF RowsInv, ProcOK
<1> QED
  BY <1>4, <1>5, <1>6, <1>8, <1>9 DEF RowsInv

\* A step of one process that removes nothing: what it has to say of itself.
LEMMA OneMoves ==
  ASSUME RowsInv, UNCHANGED <<clock, poll, snaps, kept>>,
         final \subseteq final', final' \subseteq Days, \A d \in final' : d <= LastClosed,
         NEW p \in Procs, NEW w, proc' = [proc EXCEPT ![p] = w],
         WorkOK(w),
         p # Collector => w.pc # "pruning",
         p = Collector => (w # Idle => poll = NoPoll) /\ Covers(final', w) /\ PrunesOK(w)
  PROVE  RowsInv'
<1>1. UNCHANGED <<today, phase, poll, snaps, kept>>
  BY DEF clock
<1>2. ClockOK' /\ KeptOK' /\ SnapsOK' /\ FinalOK' /\ PollOK'
  BY <1>1 DEF RowsInv, ClockOK, KeptOK, RowOK, SnapsOK, FinalOK, LastClosed, PollOK, Recent,
              clock
<1>3. \A q : Gone(q) => Gone(q)'
  BY <1>1 DEF Gone
<1>4. LostOK'
  BY <1>1, <1>3 DEF RowsInv, LostOK, Lost
<1>5. /\ DOMAIN proc' = Procs /\ proc'[p] = w
      /\ \A r \in Procs : r # p => proc'[r] = proc[r]
  BY DEF RowsInv, ProcOK
<1>6. \A r \in Procs : WorkOK(proc[r])'
  <2>1. \A x : WorkOK(x) => WorkOK(x)'
    BY <1>1 DEF WorkOK, Recent, clock
  <2> TAKE r \in Procs
  <2>2. WorkOK(proc'[r])
    BY <1>5 DEF RowsInv, ProcOK
  <2>3. PICK x : x = proc'[r]
    OBVIOUS
  <2>4. WorkOK(x)'
    BY <2>1, <2>2, <2>3
  <2> QED
    BY <2>3, <2>4 DEF WorkOK
<1>7. \A v \in Visitors : proc'[v].pc # "pruning"
  BY <1>5, MaintenanceBounds DEF RowsInv, ProcOK, Procs
<1>8. CollectorOK(proc[Collector])'
  <2>1. Collector \in Procs
    BY DEF Procs
  <2>2. /\ proc'[Collector] # Idle => poll = NoPoll
        /\ Covers(final', proc'[Collector]) /\ PrunesOK(proc'[Collector])
    <3>1. CASE p = Collector
      BY <1>5, <3>1
    <3>2. CASE p # Collector
      <4>1. proc'[Collector] = proc[Collector]
        BY <1>5, <2>1, <3>2
      <4>2. Covers(final', proc[Collector])
        BY DEF RowsInv, ProcOK, CollectorOK, Covers
      <4> QED
        BY <4>1, <4>2 DEF RowsInv, ProcOK, CollectorOK
    <3> QED
      BY <3>1, <3>2
  <2>3. (Covers(final, proc[Collector]))'
    BY <1>1, <2>2 DEF Covers
  <2>4. PrunesOK(proc[Collector])'
    BY <1>1, <1>3, <2>2 DEF PrunesOK
  <2> QED
    BY <1>1, <2>2, <2>3, <2>4 DEF CollectorOK
<1>9. ProcOK'
  BY <1>5, <1>6, <1>7, <1>8 DEF ProcOK
<1> QED
  BY <1>2, <1>4, <1>9 DEF RowsInv

\* The case that no day is stored.
LEMMA OneMovesOnly ==
  ASSUME RowsInv, UNCHANGED <<clock, poll, snaps, kept, final>>,
         NEW p \in Procs, NEW w, proc' = [proc EXCEPT ![p] = w],
         WorkOK(w),
         p # Collector => w.pc # "pruning",
         p = Collector => CollectorOK(w)
  PROVE  RowsInv'
<1>1. final \subseteq final' /\ final' \subseteq Days /\ \A d \in final' : d <= LastClosed
  BY DEF RowsInv, FinalOK
<1>2. UNCHANGED <<clock, poll, snaps, kept>>
  OBVIOUS
<1>3. p = Collector => (w # Idle => poll = NoPoll) /\ Covers(final', w) /\ PrunesOK(w)
  BY DEF CollectorOK
<1> QED
  BY <1>1, <1>2, <1>3, OneMoves

LEMMA IdleOK ==
  WorkOK(Idle) /\ CollectorOK(Idle) /\ Idle.pc # "pruning"
BY DEF WorkOK, Idle, Shape, Pending, Storing, Chosen, CollectorOK, Covers, PrunesOK

LEMMA RequestKeepsRows ==
  ASSUME RowsInv, NEW v \in Visitors, Request(v)
  PROVE  RowsInv'
<1> DEFINE todo == {d \in Days : today < d + Period /\ d <= LastClosed}
           w == [pc |-> "next", now |-> clock, call |-> "performance", todo |-> todo]
<1>1. UNCHANGED <<clock, poll, snaps, kept, final>> /\ proc' = [proc EXCEPT ![v] = w]
  BY DEF Request, Goto, tables
<1>2. v \in Procs /\ v # Collector
  BY MaintenanceBounds DEF Procs
<1>3. Pending(w) = todo
  BY DEF Pending, Storing, Chosen
<1>4. \A d \in todo : d <= Closed(clock)
  BY LastClosedIs DEF RowsInv
<1> HIDE DEF todo
<1>5. WorkOK(w)
  <2>1. todo \subseteq Days
    BY DEF todo
  <2> QED
    BY <1>3, <1>4, <2>1 DEF WorkOK, Shape, Recent, Chosen
<1>6. w.pc # "pruning"
  OBVIOUS
<1> HIDE DEF w
<1> QED
  BY <1>1, <1>2, <1>5, <1>6, OneMovesOnly

LEMMA EstimateKeepsRows ==
  ASSUME RowsInv, NEW v \in Visitors, Estimate(v)
  PROVE  RowsInv'
<1> DEFINE todo == {d \in Days : LastClosed < d + AprDays /\ d <= LastClosed}
           w == [pc |-> "next", now |-> clock, call |-> "apr", todo |-> todo]
<1>1. UNCHANGED <<clock, poll, snaps, kept, final>> /\ proc' = [proc EXCEPT ![v] = w]
  BY DEF Estimate, Goto, tables
<1>2. v \in Procs /\ v # Collector
  BY MaintenanceBounds DEF Procs
<1>3. Pending(w) = todo
  BY DEF Pending, Storing, Chosen
<1>4. \A d \in todo : d <= Closed(clock)
  BY LastClosedIs DEF RowsInv
<1> HIDE DEF todo
<1>5. WorkOK(w)
  <2>1. todo \subseteq Days
    BY DEF todo
  <2> QED
    BY <1>3, <1>4, <2>1 DEF WorkOK, Shape, Recent, Chosen
<1>6. w.pc # "pruning"
  OBVIOUS
<1> HIDE DEF w
<1> QED
  BY <1>1, <1>2, <1>5, <1>6, OneMovesOnly

LEMMA MaintainKeepsRows ==
  ASSUME RowsInv, Maintain
  PROVE  RowsInv'
<1> DEFINE todo == IF snaps = {} THEN {} ELSE (FirstStored .. LastClosed) \ final
           w == [pc |-> "next", now |-> clock, call |-> "maintenance", todo |-> todo]
<1>1. UNCHANGED <<clock, poll, snaps, kept, final>> /\ proc' = [proc EXCEPT ![Collector] = w]
  BY DEF Maintain, Goto, tables
<1>2. Collector \in Procs /\ poll = NoPoll
  BY DEF Procs, Maintain
<1>3. Pending(w) = todo
  BY DEF Pending, Storing, Chosen
<1>4. LastClosed = Closed(clock) /\ LastClosed \in Int /\ LastClosed < today /\ today \in Days
  BY LastClosedIs DEF RowsInv, ClockOK, Days
<1>5. snaps # {} => FirstStored \in Nat /\ \A s \in snaps : FirstStored <= s.day
  <2>1. {s.day : s \in snaps} \in SUBSET Nat
    BY DEF RowsInv, SnapsOK, KeptOK, Snapshot
  <2> QED
    BY <2>1, MinOf DEF FirstStored
<1>6. todo \subseteq Days /\ \A d \in todo : d <= Closed(clock)
  BY <1>4, <1>5, MaintenanceBounds DEF Days
<1>7. \A s \in snaps, d \in Days : s.day <= d /\ d <= Closed(clock) => d \in final \cup todo
  <2> TAKE s \in snaps, d \in Days
  <2>1. s.day \in Nat /\ d \in Nat
    BY DEF RowsInv, SnapsOK, KeptOK, Snapshot, Days
  <2> QED
    BY <1>4, <1>5, <2>1
<1> HIDE DEF todo
<1>8. WorkOK(w)
  BY <1>3, <1>6 DEF WorkOK, Shape, Recent, Chosen
<1>9. CollectorOK(w)
  <2>1. Covers(final, w)
    BY <1>3, <1>7 DEF Covers
  <2> QED
    BY <1>2, <2>1 DEF CollectorOK, PrunesOK
<1> HIDE DEF w
<1> QED
  BY <1>1, <1>2, <1>8, <1>9, OneMovesOnly

\* A step of storing days: what is no longer pending is stored, and only that.
LEMMA StoringMoves ==
  ASSUME RowsInv, UNCHANGED <<clock, poll, snaps, kept>>,
         NEW p \in Procs, proc[p].pc \in Storing,
         NEW w, proc' = [proc EXCEPT ![p] = w],
         w.pc \in Storing, Shape(w), w.now = proc[p].now,
         w.pc \in Chosen => w.missing # {},
         Pending(w) \subseteq Pending(proc[p]),
         final \subseteq final', final' \subseteq final \cup Pending(proc[p]),
         Pending(proc[p]) \subseteq final' \cup Pending(w)
  PROVE  RowsInv'
<1>1. WorkOK(proc[p]) /\ proc[p] # Idle /\ w # Idle /\ w.pc # "pruning"
  BY DEF RowsInv, ProcOK, Idle, Storing
<1>2. Recent(w.now)
  BY <1>1 DEF WorkOK
<1>3. WorkOK(w)
  BY <1>1, <1>2 DEF WorkOK
<1>4. final' \subseteq Days /\ \A d \in final' : d <= LastClosed
  <2>1. Closed(w.now) \in Int /\ Closed(w.now) <= LastClosed /\ LastClosed \in Int
    BY <1>2, RecentClock, LastClosedIs DEF RowsInv
  <2>2. \A d \in Pending(proc[p]) : d \in Days /\ d <= Closed(w.now)
    BY <1>1 DEF WorkOK
  <2>3. \A d \in Pending(proc[p]) : d <= LastClosed
    BY <2>1, <2>2 DEF Days
  <2> QED
    BY <2>2, <2>3 DEF RowsInv, FinalOK
<1>5. p = Collector => (w # Idle => poll = NoPoll) /\ Covers(final', w) /\ PrunesOK(w)
  <2> SUFFICES ASSUME p = Collector
               PROVE  (w # Idle => poll = NoPoll) /\ Covers(final', w) /\ PrunesOK(w)
    OBVIOUS
  <2>1. CollectorOK(proc[p])
    BY DEF RowsInv, ProcOK
  <2>2. Covers(final', w)
    BY <2>1 DEF CollectorOK, Covers
  <2> QED
    BY <1>1, <2>1, <2>2 DEF CollectorOK, PrunesOK
<1> QED
  BY <1>1, <1>3, <1>4, <1>5, OneMoves

LEMMA ListMissingKeepsRows ==
  ASSUME RowsInv, NEW p \in Procs, ListMissing(p)
  PROVE  RowsInv'
<1> DEFINE now == Smallest(proc[p].todo, ChunkOf[proc[p].call])
           rest == [proc[p] EXCEPT !.todo = @ \ now]
           next == [pc |-> "listed", now |-> rest.now, call |-> rest.call,
                    todo |-> rest.todo, missing |-> now \ final]
<1>1. UNCHANGED <<clock, poll, snaps, kept, final>> /\ proc[p].pc = "next"
  BY DEF ListMissing, tables
<1>2. \/ now \subseteq final /\ proc' = [proc EXCEPT ![p] = rest]
      \/ ~ (now \subseteq final) /\ proc' = [proc EXCEPT ![p] = next]
  BY DEF ListMissing, Goto
<1>3. now \subseteq proc[p].todo
  BY DEF Smallest
<1> HIDE DEF now
<1>4. proc[p] = [pc |-> "next", now |-> proc[p].now, call |-> proc[p].call,
                 todo |-> proc[p].todo]
  BY <1>1 DEF RowsInv, ProcOK, WorkOK, Shape, Idle
<1>5. rest = [pc |-> "next", now |-> proc[p].now, call |-> proc[p].call,
              todo |-> proc[p].todo \ now]
  BY <1>4
<1>6. Pending(proc[p]) = proc[p].todo /\ proc[p].pc \in Storing
  BY <1>1 DEF Pending, Storing, Chosen
<1>7. CASE now \subseteq final /\ proc' = [proc EXCEPT ![p] = rest]
  <2>1. /\ rest.pc = "next" /\ rest.now = proc[p].now /\ Shape(rest)
        /\ rest.todo = proc[p].todo \ now
    BY <1>5 DEF Shape
  <2>2. Pending(rest) = proc[p].todo \ now /\ rest.pc \in Storing /\ rest.pc \notin Chosen
    BY <2>1 DEF Pending, Storing, Chosen
  <2> HIDE DEF rest
  <2> QED
    BY <1>1, <1>3, <1>6, <1>7, <2>1, <2>2, StoringMoves
<1>8. CASE ~ (now \subseteq final) /\ proc' = [proc EXCEPT ![p] = next]
  <2>1. /\ next.pc = "listed" /\ next.now = proc[p].now /\ Shape(next)
        /\ next.todo = proc[p].todo \ now /\ next.missing = now \ final
    BY <1>5 DEF Shape
  <2> HIDE DEF next, rest
  <2>2. Pending(next) = (proc[p].todo \ now) \cup (now \ final) /\ next.pc \in Storing
    BY <2>1 DEF Pending, Storing, Chosen
  <2>3. next.missing # {}
    BY <1>8, <2>1
  <2> QED
    BY <1>1, <1>3, <1>6, <1>8, <2>1, <2>2, <2>3, StoringMoves
<1> QED
  BY <1>2, <1>7, <1>8

LEMMA ReadBaselineKeepsRows ==
  ASSUME RowsInv, NEW p \in Procs, ReadBaseline(p)
  PROVE  RowsInv'
<1> DEFINE w == [pc |-> "based", now |-> proc[p].now, call |-> proc[p].call,
                 todo |-> proc[p].todo, missing |-> proc[p].missing,
                 base |-> Baseline(snaps, Min(proc[p].missing))]
<1>1. /\ UNCHANGED <<clock, poll, snaps, kept, final>> /\ proc[p].pc = "listed"
      /\ proc' = [proc EXCEPT ![p] = w]
  BY DEF ReadBaseline, Goto, tables
<1>2. Pending(proc[p]) = proc[p].todo \cup proc[p].missing /\ proc[p].pc \in Storing
      /\ proc[p].missing # {}
  BY <1>1 DEF Pending, Storing, Chosen, RowsInv, ProcOK, WorkOK
<1>3. /\ w.pc = "based" /\ w.now = proc[p].now /\ Shape(w)
      /\ w.todo = proc[p].todo /\ w.missing = proc[p].missing
  BY DEF Shape
<1> HIDE DEF w
<1>4. Pending(w) = Pending(proc[p]) /\ w.pc \in Storing
  BY <1>2, <1>3 DEF Pending, Storing, Chosen
<1> QED
  BY <1>1, <1>2, <1>3, <1>4, StoringMoves

LEMMA ReadRangeKeepsRows ==
  ASSUME RowsInv, NEW p \in Procs, ReadRange(p)
  PROVE  RowsInv'
<1> DEFINE missing == proc[p].missing
           range == {s \in snaps : s.day \in Min(missing) .. Max(missing)}
           w == [pc |-> "summed", now |-> proc[p].now, call |-> proc[p].call,
                 todo |-> proc[p].todo, missing |-> missing,
                 sums |-> [d \in missing |-> Bucket(range, proc[p].base, d)]]
<1>1. /\ UNCHANGED <<clock, poll, snaps, kept, final>> /\ proc[p].pc = "based"
      /\ proc' = [proc EXCEPT ![p] = w]
  BY DEF ReadRange, Goto, tables
<1>2. Pending(proc[p]) = proc[p].todo \cup proc[p].missing /\ proc[p].pc \in Storing
      /\ proc[p].missing # {}
  BY <1>1 DEF Pending, Storing, Chosen, RowsInv, ProcOK, WorkOK
<1>3. /\ w.pc = "summed" /\ w.now = proc[p].now /\ Shape(w)
      /\ w.todo = proc[p].todo /\ w.missing = proc[p].missing
  BY DEF Shape
<1> HIDE DEF w
<1>4. Pending(w) = Pending(proc[p]) /\ w.pc \in Storing
  BY <1>2, <1>3 DEF Pending, Storing, Chosen
<1> QED
  BY <1>1, <1>2, <1>3, <1>4, StoringMoves

LEMMA StoreKeepsRows ==
  ASSUME RowsInv, NEW p \in Procs, Store(p)
  PROVE  RowsInv'
<1> DEFINE w == [pc |-> "next", now |-> proc[p].now, call |-> proc[p].call,
                 todo |-> proc[p].todo]
<1>1. /\ UNCHANGED <<clock, poll, snaps, kept>> /\ proc[p].pc = "summed"
      /\ final' = final \cup proc[p].missing /\ proc' = [proc EXCEPT ![p] = w]
  BY DEF Store, Goto
<1>2. Pending(proc[p]) = proc[p].todo \cup proc[p].missing /\ proc[p].pc \in Storing
  BY <1>1 DEF Pending, Storing, Chosen
<1>3. /\ w.pc = "next" /\ w.now = proc[p].now /\ Shape(w) /\ w.todo = proc[p].todo
  BY DEF Shape
<1> HIDE DEF w
<1>4. Pending(w) = proc[p].todo /\ w.pc \in Storing /\ w.pc \notin Chosen
  BY <1>3 DEF Pending, Storing, Chosen
<1> QED
  BY <1>1, <1>2, <1>3, <1>4, StoringMoves

LEMMA StoreStepKeepsRows ==
  ASSUME RowsInv, NEW p \in Procs, StoreStep(p)
  PROVE  RowsInv'
BY ListMissingKeepsRows, ReadBaselineKeepsRows, ReadRangeKeepsRows, StoreKeepsRows
   DEF StoreStep

LEMMA AnswerKeepsRows ==
  ASSUME RowsInv, NEW v \in Visitors, Answer(v)
  PROVE  RowsInv'
<1>1. UNCHANGED <<clock, poll, snaps, kept, final>> /\ proc' = [proc EXCEPT ![v] = Idle]
  BY DEF Answer, Goto, tables
<1>2. v \in Procs /\ v # Collector
  BY MaintenanceBounds DEF Procs
<1> QED
  BY <1>1, <1>2, IdleOK, OneMovesOnly

\* prune_snapshots begins when every day that could be stored is: what is
\* older than the retention may go.
LEMMA DoomedAreGone ==
  ASSUME RowsInv, Retention >= 3,
         proc[Collector].pc = "next", proc[Collector].todo = {}
  PROVE  /\ Doomed \subseteq snaps
         /\ \A q \in Doomed : Gone(q)
         /\ \A q \in Doomed, s \in snaps : s.id <= q.id => s \in Doomed
<1> DEFINE w == proc[Collector]
<1>1. CASE Doomed = {}
  BY <1>1
<1>2. CASE Doomed # {}
  <2>1. /\ snaps # {} /\ FirstStored < Cutoff /\ Doomed = {s \in snaps : s.started < LimitDay}
    <3>1. ~ (snaps = {} \/ FirstStored >= Cutoff \/ LimitDay <= FirstStored)
      BY <1>2 DEF Doomed
    <3>2. FirstStored \in Nat /\ Cutoff \in Int
      <4>1. {s.day : s \in snaps} \in SUBSET Nat /\ snaps # {}
        BY <3>1 DEF RowsInv, SnapsOK, KeptOK, Snapshot
      <4>2. w.now[1] \in Int
        BY RecentClock DEF RowsInv, ProcOK, WorkOK, Idle, Procs
      <4> QED
        BY <4>1, <4>2, MinOf, MaintenanceBounds DEF FirstStored, Cutoff
    <3> QED
      BY <3>1, <3>2 DEF Doomed
  <2>2. Recent(w.now) /\ Covers(final, w)
    BY DEF RowsInv, ProcOK, WorkOK, CollectorOK, Idle, Procs
  <2>3. /\ w.now[1] \in Int /\ w.now[1] <= today /\ today <= w.now[1] + 1
        /\ Closed(w.now) \in Int /\ w.now[1] - 2 <= Closed(w.now)
        /\ Closed(w.now) <= w.now[1] - 1
    BY <2>2, RecentClock DEF RowsInv
  <2>4. today \in Nat /\ today <= MaxDay /\ MaxDay \in Nat /\ Retention \in Nat
    BY MaintenanceBounds DEF RowsInv, ClockOK, Days
  <2>5. FirstStored \in Nat /\ \A s \in snaps : FirstStored <= s.day
    <3>1. {s.day : s \in snaps} \in SUBSET Nat
      BY DEF RowsInv, SnapsOK, KeptOK, Snapshot
    <3> QED
      BY <2>1, <3>1, MinOf DEF FirstStored
  <2>6. PICK f \in snaps : f.day = FirstStored
    <3>1. {s.day : s \in snaps} \in SUBSET Nat
      BY DEF RowsInv, SnapsOK, KeptOK, Snapshot
    <3>2. {s.day : s \in snaps} # {}
      BY <2>1
    <3>3. FirstStored \in {s.day : s \in snaps}
      BY <3>1, <3>2, MinOf, Zenon DEF FirstStored
    <3> QED
      BY <3>3
  <2>7. Cutoff = w.now[1] - Retention
    BY <2>1, <2>3, <2>4, <2>5 DEF Cutoff
  <2>8. \A d \in Days : FirstStored <= d /\ d <= Closed(w.now) => d \in final
    <3>1. Pending(w) = {}
      BY DEF Pending, Storing, Chosen
    <3> QED
      BY <2>2, <2>6, <3>1 DEF Covers, Storing
  <2>9. LimitDay = Cutoff
    <3>1. {d \in FirstStored .. Cutoff : d \notin final} = {}
      <4> SUFFICES ASSUME NEW d \in FirstStored .. Cutoff
                   PROVE  d \in final
        OBVIOUS
      <4>1. d \in Days /\ FirstStored <= d /\ d <= Closed(w.now)
        BY <2>3, <2>4, <2>5, <2>7 DEF Days
      <4> QED
        BY <2>8, <4>1
    <3> QED
      BY <3>1 DEF LimitDay
  <2> HIDE DEF w
  <2>10. ASSUME NEW q \in Doomed
         PROVE  Gone(q)
    <3>1. q \in snaps /\ q.started < w.now[1] - Retention
      BY <2>1, <2>7, <2>9
    <3>2. q.day <= q.started + 1 /\ q.day \in Nat /\ q.started \in Nat
      BY <3>1 DEF RowsInv, SnapsOK, KeptOK, RowOK, Snapshot
    <3>3. q.day + Retention <= w.now[1]
      BY <2>3, <2>4, <3>1, <3>2
    <3>4. q.day \in Days /\ FirstStored <= q.day /\ q.day <= Closed(w.now)
      BY <2>3, <2>4, <2>5, <3>1, <3>2, <3>3 DEF Days
    <3>5. q.day \in final
      BY <2>8, <3>4
    <3>6. ASSUME NEW s \in kept, s.day \notin final
          PROVE  q.day + 2 <= s.day
      <4>1. s \in snaps
        BY <3>6 DEF RowsInv, LostOK, Lost, Gone
      <4>2. s.day \in Nat /\ s.day <= today /\ FirstStored <= s.day
        BY <2>5, <4>1 DEF RowsInv, KeptOK, RowOK, Snapshot
      <4>3. ~ (s.day <= Closed(w.now))
        BY <2>4, <2>8, <3>6, <4>2 DEF Days
      <4> QED
        BY <2>3, <2>4, <3>2, <3>3, <4>2, <4>3
    <3> QED
      BY <2>3, <2>4, <3>2, <3>3, <3>5, <3>6 DEF Gone
  <2>11. ASSUME NEW q \in Doomed, NEW s \in snaps, s.id <= q.id
         PROVE  s \in Doomed
    <3>1. q \in snaps /\ q.started < LimitDay
      BY <2>1
    <3>2. /\ q \in kept /\ s \in kept /\ q.id \in Nat /\ s.id \in Nat
          /\ q.started \in Nat /\ s.started \in Nat
      BY <3>1 DEF RowsInv, SnapsOK, KeptOK, Snapshot
    <3>3. s = q \/ s.id < q.id
      BY <2>11, <3>2 DEF RowsInv, KeptOK
    <3>4. s.started <= q.started
      BY <3>2, <3>3 DEF RowsInv, KeptOK
    <3>5. LimitDay \in Int
      BY <2>3, <2>4, <2>7, <2>9
    <3> QED
      BY <2>1, <3>1, <3>2, <3>4, <3>5
  <2> QED
    BY <2>1, <2>10, <2>11
<1> QED
  BY <1>1, <1>2

LEMMA BeginPruneKeepsRows ==
  ASSUME RowsInv, Retention >= 3, BeginPrune
  PROVE  RowsInv'
<1> DEFINE w == [pc |-> "pruning", now |-> proc[Collector].now, doomed |-> Doomed]
<1>1. /\ UNCHANGED <<clock, poll, snaps, kept, final>> /\ proc' = [proc EXCEPT ![Collector] = w]
      /\ proc[Collector].pc = "next" /\ proc[Collector].todo = {} /\ Collector \in Procs
  BY DEF BeginPrune, Goto, tables, Procs
<1>2. WorkOK(proc[Collector]) /\ proc[Collector] # Idle /\ poll = NoPoll
  BY <1>1 DEF RowsInv, ProcOK, CollectorOK, Idle
<1>3. /\ w.pc = "pruning" /\ w.now = proc[Collector].now /\ w.doomed = Doomed /\ Shape(w)
  BY DEF Shape
<1> HIDE DEF w
<1>4. Pending(w) = {} /\ w.pc \notin Chosen /\ w.pc \notin Storing
  BY <1>3 DEF Pending, Storing, Chosen
<1>5. WorkOK(w)
  BY <1>2, <1>3, <1>4 DEF WorkOK
<1>6. PrunesOK(w)
  BY <1>1, <1>3, DoomedAreGone DEF PrunesOK
<1>7. CollectorOK(w)
  BY <1>2, <1>4, <1>6 DEF CollectorOK, Covers
<1> QED
  BY <1>1, <1>5, <1>7, OneMovesOnly

LEMMA PruneBatchKeepsRows ==
  ASSUME RowsInv, PruneBatch
  PROVE  RowsInv'
<1> DEFINE doomed == proc[Collector].doomed
<1>1. PICK last \in doomed :
        /\ snaps' = snaps \ {s \in doomed : s.id <= last.id}
        /\ proc' = [proc EXCEPT ![Collector] =
                     [proc[Collector] EXCEPT !.doomed = @ \ {s \in doomed : s.id <= last.id}]]
  BY DEF PruneBatch, Goto
<1> DEFINE batch == {s \in doomed : s.id <= last.id}
           w == [pc |-> "pruning", now |-> proc[Collector].now, doomed |-> doomed \ batch]
<1>2. UNCHANGED <<today, phase, clock, poll, final, kept>> /\ proc[Collector].pc = "pruning"
      /\ Collector \in Procs
  BY DEF PruneBatch, clock, Procs
<1>3. WorkOK(proc[Collector]) /\ CollectorOK(proc[Collector]) /\ DOMAIN proc = Procs
  BY <1>2 DEF RowsInv, ProcOK
<1>4. proc[Collector] # Idle /\ poll = NoPoll
  BY <1>2, <1>3 DEF Idle, CollectorOK
<1>5. proc[Collector] = [pc |-> "pruning", now |-> proc[Collector].now, doomed |-> doomed]
  BY <1>2, <1>3, <1>4 DEF WorkOK, Shape
<1>6. proc' = [proc EXCEPT ![Collector] = w]
  <2>1. \A b : [proc[Collector] EXCEPT !.doomed = @ \ b]
                = [pc |-> "pruning", now |-> proc[Collector].now, doomed |-> doomed \ b]
    BY <1>5
  <2>2. [proc[Collector] EXCEPT !.doomed = @ \ batch] = w
    BY <2>1
  <2> QED
    BY <1>1, <2>2, Zenon
<1>7. /\ doomed \subseteq snaps /\ \A q \in doomed : Gone(q)
      /\ \A q \in doomed, s \in snaps : s.id <= q.id => s \in doomed
  BY <1>2, <1>3 DEF CollectorOK, PrunesOK
<1>8. batch \subseteq doomed /\ snaps' = snaps \ batch
      /\ \A q \in batch, s \in snaps : s.id <= q.id => s \in batch
  <2>1. \A s \in snaps : s.id \in Nat
    BY DEF RowsInv, SnapsOK, KeptOK, Snapshot
  <2> QED
    BY <1>1, <1>7, <2>1
<1>9. /\ w.pc = "pruning" /\ w.now = proc[Collector].now /\ w.doomed = doomed \ batch
      /\ Shape(w)
  BY DEF Shape
<1> HIDE DEF batch, doomed, w
<1>10. ClockOK' /\ KeptOK' /\ FinalOK' /\ PollOK'
  BY <1>2 DEF RowsInv, ClockOK, KeptOK, RowOK, FinalOK, LastClosed, PollOK, Recent, clock
<1>11. SnapsOK'
  <2>1. \A s, t \in snaps : s.id \in Nat /\ t.id \in Nat
    BY DEF RowsInv, SnapsOK, KeptOK, Snapshot
  <2> QED
    BY <1>2, <1>8, <2>1 DEF RowsInv, SnapsOK
<1>12. \A q : Gone(q) => Gone(q)'
  BY <1>2 DEF Gone
<1>13. LostOK'
  BY <1>2, <1>7, <1>8, <1>12 DEF RowsInv, LostOK, Lost
<1>14. Pending(w) = {} /\ w.pc \notin Chosen /\ w.pc \notin Storing
  BY <1>9 DEF Pending, Storing, Chosen
<1>15. WorkOK(w)
  BY <1>3, <1>4, <1>9, <1>14 DEF WorkOK
<1>16. /\ DOMAIN proc' = Procs /\ proc'[Collector] = w
       /\ \A r \in Procs : r # Collector => proc'[r] = proc[r]
  BY <1>2, <1>3, <1>6
<1>17. \A r \in Procs : WorkOK(proc[r])'
  <2>1. \A x : WorkOK(x) => WorkOK(x)'
    BY <1>2 DEF WorkOK, Recent, clock
  <2> TAKE r \in Procs
  <2>2. WorkOK(proc'[r])
    BY <1>15, <1>16 DEF RowsInv, ProcOK
  <2>3. PICK x : x = proc'[r]
    OBVIOUS
  <2>4. WorkOK(x)'
    BY <2>1, <2>2, <2>3
  <2> QED
    BY <2>3, <2>4 DEF WorkOK
<1>18. CollectorOK(proc[Collector])'
  <2>1. (Covers(final, proc[Collector]))'
    BY <1>14, <1>16 DEF Covers
  <2>2. PrunesOK(proc[Collector])'
    BY <1>7, <1>8, <1>9, <1>12, <1>16 DEF PrunesOK
  <2> QED
    BY <1>2, <1>4, <2>1, <2>2 DEF CollectorOK
<1>19. \A v \in Visitors : proc'[v].pc # "pruning"
  BY <1>16, MaintenanceBounds DEF RowsInv, ProcOK, Procs
<1> QED
  BY <1>10, <1>11, <1>13, <1>16, <1>17, <1>18, <1>19 DEF RowsInv, ProcOK

LEMMA EndKeepsRows ==
  ASSUME RowsInv, EndPrune \/ MaintenanceFails
  PROVE  RowsInv'
<1>1. UNCHANGED <<clock, poll, snaps, kept, final>> /\ proc' = [proc EXCEPT ![Collector] = Idle]
      /\ Collector \in Procs
  BY DEF EndPrune, MaintenanceFails, Goto, tables, Procs
<1> QED
  BY <1>1, IdleOK, OneMovesOnly

LEMMA RestartKeepsRows ==
  ASSUME RowsInv, Restart
  PROVE  RowsInv'
<1>1. UNCHANGED <<today, phase, snaps, kept, final>> /\ proc' = [proc EXCEPT ![Collector] = Idle]
      /\ poll' = NoPoll /\ Collector \in Procs
  BY DEF Restart, Goto, tables, clock, Procs
<1>2. ClockOK' /\ KeptOK' /\ FinalOK' /\ PollOK' /\ SnapsOK'
  BY <1>1 DEF RowsInv, ClockOK, KeptOK, RowOK, FinalOK, LastClosed, PollOK, SnapsOK
<1>3. LostOK'
  BY <1>1 DEF RowsInv, LostOK, Lost, Gone
<1>4. /\ DOMAIN proc' = Procs /\ proc'[Collector] = Idle
      /\ \A r \in Procs : r # Collector => proc'[r] = proc[r]
  BY <1>1 DEF RowsInv, ProcOK
<1>5. \A r \in Procs : WorkOK(proc[r])'
  <2>1. \A x : WorkOK(x) => WorkOK(x)'
    BY <1>1 DEF WorkOK, Recent, clock
  <2> TAKE r \in Procs
  <2>2. WorkOK(proc'[r])
    BY <1>4, IdleOK DEF RowsInv, ProcOK
  <2>3. PICK x : x = proc'[r]
    OBVIOUS
  <2>4. WorkOK(x)'
    BY <2>1, <2>2, <2>3
  <2> QED
    BY <2>3, <2>4 DEF WorkOK
<1>6. CollectorOK(proc[Collector])'
  BY <1>1, <1>4 DEF CollectorOK, Covers, PrunesOK, Idle, Storing
<1>7. \A v \in Visitors : proc'[v].pc # "pruning"
  BY <1>4, MaintenanceBounds DEF RowsInv, ProcOK, Procs
<1> QED
  BY <1>2, <1>3, <1>4, <1>5, <1>6, <1>7 DEF RowsInv, ProcOK

LEMMA RowsStep ==
  ASSUME RowsInv, Retention >= 3, [Next]_vars
  PROVE  RowsInv'
<1>1. CASE UNCHANGED vars
  BY <1>1 DEF vars, clock, tables, RowsInv, ClockOK, KeptOK, RowOK, FinalOK, LastClosed,
              PollOK, Recent, SnapsOK, LostOK, Lost, Gone, ProcOK, WorkOK, CollectorOK, Covers,
              PrunesOK
<1>2. CASE Next
  <2>1. CASE Quarter \/ Midnight
    BY <2>1, TurnKeepsRows
  <2>2. CASE PollStart \/ PollObserve \/ PollCommit \/ PollFails
    BY <2>2, PollStartKeepsRows, PollObserveKeepsRows, PollCommitKeepsRows, PollFailsKeepsRows
  <2>3. CASE Maintain \/ BeginPrune \/ PruneBatch
    BY <2>3, MaintainKeepsRows, BeginPruneKeepsRows, PruneBatchKeepsRows
  <2>4. CASE EndPrune \/ MaintenanceFails \/ Restart
    BY <2>4, EndKeepsRows, RestartKeepsRows
  <2>5. CASE \E v \in Visitors : Request(v) \/ Estimate(v) \/ Answer(v)
    BY <2>5, RequestKeepsRows, EstimateKeepsRows, AnswerKeepsRows
  <2>6. CASE \E p \in Procs : StoreStep(p)
    BY <2>6, StoreStepKeepsRows
  <2> QED
    BY <1>2, <2>1, <2>2, <2>3, <2>4, <2>5, <2>6 DEF Next
<1> QED
  BY <1>1, <1>2

\* However the requests of visitors, outages and interruptions fall: when three
\* days are kept, what is removed is the oldest of the snapshots, of days that
\* are stored, and no day that is not stored can need it.
THEOREM RemovedIsDone ==
  ASSUME Retention >= 3
  PROVE  Spec => []RowsInv
<1>1. Init => RowsInv
  BY InitRows
<1>2. RowsInv /\ [Next]_vars => RowsInv'
  BY RowsStep
<1> QED
  BY <1>1, <1>2, PTL DEF Spec

\* When three days are kept, the rows that are left give every day that is not
\* stored the value that all of its snapshots give.
THEOREM OpenDaysAlwaysIntact ==
  ASSUME Retention >= 3
  PROVE  Spec => []OpenDaysAreIntact
<1>1. ASSUME RowsInv
      PROVE  OpenDaysAreIntact
  <2> SUFFICES ASSUME NEW d \in {s.day : s \in kept} \ final
               PROVE  Bucket({s \in snaps : s.day >= d}, Baseline(snaps, d), d) = Truth(d)
    BY Zenon DEF OpenDaysAreIntact
  <2>1. KeptOK /\ SnapsOK
    BY <1>1 DEF RowsInv
  <2>2. d \in Nat
    BY <2>1 DEF KeptOK, Snapshot
  <2>3. Safe(d)
    BY <1>1 DEF Safe, RowsInv, LostOK, Gone
  <2> QED
    BY <2>1, <2>2, <2>3, IntactIsWorth, TruthIsWorth
<1> QED
  BY <1>1, RemovedIsDone, PTL

-----------------------------------------------------------------------------
(***************************************************************************)
(* Preservation of ValuesInv                                               *)
(***************************************************************************)

\* Whatever a process still has to store can be told from what is left: the
\* collector does not remove before it has stored, and what it has removed is
\* older than what a visitor looks back to.
LEMMA PendingSafe ==
  ASSUME RowsInv, ValuesInv, NEW p \in Procs,
         NEW d \in Pending(proc[p])
  PROVE  Safe(d) /\ d \in Days
<1>1. WorkOK(proc[p]) /\ d \in Days
  BY DEF RowsInv, ProcOK, WorkOK
<1>2. CASE p = Collector
  BY <1>1, <1>2 DEF ValuesInv
<1>3. CASE p # Collector
  <2>1. p \in Visitors /\ InReach(proc[p].now, d)
    BY <1>1, <1>3 DEF Procs, ValuesInv
  <2>2. proc[p] # Idle
    BY DEF Pending, Idle, Storing, Chosen
  <2>3. Closed(proc[p].now) \in Int /\ today <= Closed(proc[p].now) + 2
    BY <1>1, <2>2, RecentClock DEF WorkOK, RowsInv
  <2>4. ASSUME NEW q \in Lost
        PROVE  q.day + 2 <= d
    <3>1. q.day + Retention <= today /\ q.day \in Nat /\ today \in Nat
      BY DEF RowsInv, LostOK, Lost, Gone, KeptOK, Snapshot, ClockOK, Days
    <3> QED
      BY <1>1, <2>1, <2>3, <3>1, MaintenanceBounds DEF Days, InReach
  <2> QED
    BY <1>1, <2>4 DEF Safe
<1> QED
  BY <1>2, <1>3

\* A new snapshot does not change what a closed day is worth.
LEMMA WorthStays ==
  ASSUME RowsInv, PollCommit, NEW d \in Int, d <= LastClosed
  PROVE  Worth(d)' = Worth(d)
<1>1. /\ kept' = kept \cup {Added} /\ Added.id = Cardinality(kept) + 1
      /\ LastClosed < Added.day /\ Cardinality(kept) \in Nat /\ Added.day \in Nat
  BY AddedIs DEF Snapshot
<1>2. LastClosed \in Int
  BY LastClosedIs DEF RowsInv
<1>3. OfDay(d)' = OfDay(d)
  BY <1>1, <1>2 DEF OfDay
<1>4. ASSUME NEW s \in OfDay(d)
      PROVE  Gain(s)' = Gain(s)
  <2>1. s \in kept /\ s.id \in Nat /\ s.id <= Cardinality(kept)
    BY DEF OfDay, RowsInv, KeptOK, RowOK, Snapshot
  <2>2. Before(s)' = Before(s)
    BY <1>1, <2>1 DEF Before
  <2> QED
    BY <2>2 DEF Gain, Latest
<1>5. [s \in OfDay(d) |-> Gain(s)]' = [s \in OfDay(d) |-> Gain(s)]
  BY <1>3, <1>4
<1> QED
  BY <1>3, <1>5 DEF Worth

LEMMA InitValues ==
  Init => ValuesInv
<1> SUFFICES ASSUME Init PROVE ValuesInv
  OBVIOUS
<1>1. DailyOK
  BY DEF Init, DailyOK
<1>2. \A p \in Procs : proc[p] = Idle
  BY DEF Init
<1>3. ValueOK(Idle) /\ Pending(Idle) = {}
  BY DEF ValueOK, Idle, Pending, Storing, Chosen
<1> QED
  BY <1>1, <1>2, <1>3 DEF ValuesInv, Procs

\* Steps that neither touch the tables nor a process that stores days.
LEMMA ValuesStay ==
  ASSUME ValuesInv, UNCHANGED <<snaps, daily, final, kept, proc>>
  PROVE  ValuesInv'
<1>1. \A d : (Worth(d)' = Worth(d)) /\ (Safe(d) => Safe(d)')
  BY DEF Worth, OfDay, Gain, Before, Latest, Delta, NoSnapshot, Safe, Lost
<1>2. DailyOK'
  BY <1>1 DEF ValuesInv, DailyOK
<1>3. \A p \in Procs : ValueOK(proc[p])'
  BY <1>1 DEF ValuesInv, ValueOK, BaseOK
<1>4. \A d \in Pending(proc[Collector])' : Safe(d)'
  BY <1>1 DEF ValuesInv
<1> QED
  BY <1>2, <1>3, <1>4 DEF ValuesInv

LEMMA PollCommitKeepsValues ==
  ASSUME RowsInv, ValuesInv, PollCommit
  PROVE  ValuesInv'
<1>1. /\ UNCHANGED <<daily, final, proc>>
      /\ kept' = kept \cup {Added} /\ snaps' = snaps \cup {Added}
      /\ LastClosed < Added.day /\ Added.day \in Nat /\ proc[Collector] = Idle
  BY AddedIs DEF Snapshot
<1>2. LastClosed \in Int
  BY LastClosedIs DEF RowsInv
<1>3. DailyOK'
  <2>1. \A d \in final : Worth(d)' = Worth(d)
    BY WorthStays DEF RowsInv, FinalOK, Days
  <2>2. DailyOK
    BY DEF ValuesInv
  <2> QED
    BY <1>1, <2>1, <2>2 DEF DailyOK
<1>4. ASSUME NEW p \in Procs
      PROVE  ValueOK(proc[p])'
  <2>1. WorkOK(proc[p]) /\ ValueOK(proc[p])
    BY DEF RowsInv, ProcOK, ValuesInv
  <2>2. proc[p].pc \in Chosen =>
          /\ proc[p].missing \subseteq Days /\ proc[p].missing # {}
          /\ \A d \in proc[p].missing : d <= LastClosed
    <3> SUFFICES ASSUME proc[p].pc \in Chosen
                 PROVE  /\ proc[p].missing \subseteq Days /\ proc[p].missing # {}
                        /\ \A d \in proc[p].missing : d <= LastClosed
      OBVIOUS
    <3>1. proc[p].missing \subseteq Pending(proc[p]) /\ proc[p] # Idle
      BY DEF Pending, Idle, Chosen
    <3>2. Closed(proc[p].now) \in Int /\ Closed(proc[p].now) <= LastClosed
      BY <2>1, <3>1, RecentClock DEF WorkOK, RowsInv
    <3>3. /\ Pending(proc[p]) \subseteq Days
          /\ \A d \in Pending(proc[p]) : d <= Closed(proc[p].now)
      BY <2>1 DEF WorkOK
    <3> QED
      BY <1>2, <2>1, <3>1, <3>2, <3>3 DEF WorkOK, Days
  <2>3. CASE proc[p].pc = "based"
    <3>1. Min(proc[p].missing) \in proc[p].missing /\ proc[p].missing \subseteq Days
      BY <2>2, <2>3, MinOf DEF Chosen, Days
    <3>2. Min(proc[p].missing) \in Int /\ Min(proc[p].missing) <= LastClosed
      BY <2>2, <2>3, <3>1 DEF Chosen, Days
    <3>3. BaseOK(proc[p].base, Min(proc[p].missing))
      BY <2>1, <2>3 DEF ValueOK
    <3>4. ~ (Added.day < Min(proc[p].missing))
      BY <1>1, <1>2, <3>2
    <3>5. BaseOK(proc[p].base, Min(proc[p].missing))'
      BY <1>1, <3>3, <3>4 DEF BaseOK
    <3> QED
      BY <1>1, <2>3, <3>5 DEF ValueOK
  <2>4. CASE proc[p].pc = "summed"
    <3>1. \A d \in proc[p].missing : Worth(d)' = Worth(d)
      BY <2>2, <2>4, WorthStays DEF Chosen, Days
    <3> QED
      BY <1>1, <2>1, <2>4, <3>1 DEF ValueOK
  <2>5. CASE proc[p].pc \notin {"based", "summed"}
    BY <1>1, <2>5 DEF ValueOK
  <2> QED
    BY <2>3, <2>4, <2>5
<1>5. Pending(Idle) = {}
  BY DEF Pending, Idle, Storing, Chosen
<1> QED
  BY <1>1, <1>3, <1>4, <1>5 DEF ValuesInv

\* What a process has to say of itself after a step that stores nothing.
LEMMA OneMovesValues ==
  ASSUME RowsInv, ValuesInv, UNCHANGED <<snaps, daily, final, kept>>,
         NEW p \in Procs, NEW w, proc' = [proc EXCEPT ![p] = w],
         ValueOK(w),
         p # Collector => \A d \in Pending(w) : InReach(w.now, d),
         p = Collector => \A d \in Pending(w) : Safe(d)
  PROVE  ValuesInv'
<1>1. \A d : (Worth(d)' = Worth(d)) /\ (Safe(d) => Safe(d)')
  BY DEF Worth, OfDay, Gain, Before, Latest, Delta, NoSnapshot, Safe, Lost
<1>2. DailyOK'
  BY <1>1 DEF ValuesInv, DailyOK
<1>3. proc'[p] = w /\ \A r \in Procs : r # p => proc'[r] = proc[r]
  BY DEF RowsInv, ProcOK
<1>4. \A r \in Procs : ValueOK(proc[r])'
  <2>1. \A x : ValueOK(x) => ValueOK(x)'
    BY <1>1 DEF ValueOK, BaseOK
  <2> TAKE r \in Procs
  <2>2. ValueOK(proc'[r])
    BY <1>3 DEF ValuesInv
  <2>3. PICK x : x = proc'[r]
    OBVIOUS
  <2>4. ValueOK(x)'
    BY <2>1, <2>2, <2>3
  <2> QED
    BY <2>3, <2>4 DEF ValueOK
<1>5. \A v \in Visitors, d \in Days : d \in Pending(proc'[v]) => InReach(proc'[v].now, d)
  BY <1>3, MaintenanceBounds DEF ValuesInv, Procs
<1>6. \A d \in Pending(proc'[Collector]) : Safe(d)'
  BY <1>1, <1>3 DEF ValuesInv, Procs
<1> QED
  BY <1>2, <1>4, <1>5, <1>6 DEF ValuesInv

\* The same for a step within storing.
LEMMA StoringMovesValues ==
  ASSUME RowsInv, ValuesInv, UNCHANGED <<snaps, daily, final, kept>>,
         NEW p \in Procs, NEW w, proc' = [proc EXCEPT ![p] = w],
         w.now = proc[p].now, Pending(w) \subseteq Pending(proc[p]), ValueOK(w)
  PROVE  ValuesInv'
<1>1. p # Collector => \A d \in Pending(w) : InReach(w.now, d)
  BY DEF RowsInv, ProcOK, WorkOK, ValuesInv, Procs
<1>2. p = Collector => \A d \in Pending(w) : Safe(d)
  BY DEF ValuesInv
<1> QED
  BY <1>1, <1>2, OneMovesValues

LEMMA RequestKeepsValues ==
  ASSUME RowsInv, ValuesInv, LooksBackLess, NEW v \in Visitors, Request(v)
  PROVE  ValuesInv'
<1> DEFINE todo == {d \in Days : today < d + Period /\ d <= LastClosed}
           w == [pc |-> "next", now |-> clock, call |-> "performance", todo |-> todo]
<1>1. UNCHANGED <<snaps, daily, final, kept>> /\ proc' = [proc EXCEPT ![v] = w]
  BY DEF Request, Goto, tables
<1>2. v \in Procs /\ v # Collector
  BY MaintenanceBounds DEF Procs
<1>3. Pending(w) = todo /\ ValueOK(w)
  BY DEF Pending, Storing, Chosen, ValueOK
<1>4. w.now = clock /\ \A d \in todo : InReach(clock, d)
  <2>1. /\ Closed(clock) \in Int /\ Closed(clock) <= today - 1 /\ today \in Nat
        /\ Period \in Nat /\ Retention \in Nat
    BY LastClosedIs, MaintenanceBounds DEF RowsInv, ClockOK, Days
  <2> QED
    BY <2>1 DEF LooksBackLess, InReach, Days
<1> HIDE DEF w
<1> QED
  BY <1>1, <1>2, <1>3, <1>4, OneMovesValues

LEMMA EstimateKeepsValues ==
  ASSUME RowsInv, ValuesInv, LooksBackLess, NEW v \in Visitors, Estimate(v)
  PROVE  ValuesInv'
<1> DEFINE todo == {d \in Days : LastClosed < d + AprDays /\ d <= LastClosed}
           w == [pc |-> "next", now |-> clock, call |-> "apr", todo |-> todo]
<1>1. UNCHANGED <<snaps, daily, final, kept>> /\ proc' = [proc EXCEPT ![v] = w]
  BY DEF Estimate, Goto, tables
<1>2. v \in Procs /\ v # Collector
  BY MaintenanceBounds DEF Procs
<1>3. Pending(w) = todo /\ ValueOK(w)
  BY DEF Pending, Storing, Chosen, ValueOK
<1>4. w.now = clock /\ \A d \in todo : InReach(clock, d)
  <2>1. /\ LastClosed = Closed(clock) /\ LastClosed \in Int
        /\ AprDays \in Nat /\ Retention \in Nat
    BY LastClosedIs, MaintenanceBounds DEF RowsInv
  <2> QED
    BY <2>1 DEF LooksBackLess, InReach, Days
<1> HIDE DEF w
<1> QED
  BY <1>1, <1>2, <1>3, <1>4, OneMovesValues

\* What the maintenance lists is not stored, so nothing of it is lost.
LEMMA MaintainKeepsValues ==
  ASSUME RowsInv, ValuesInv, Maintain
  PROVE  ValuesInv'
<1> DEFINE todo == IF snaps = {} THEN {} ELSE (FirstStored .. LastClosed) \ final
           w == [pc |-> "next", now |-> clock, call |-> "maintenance", todo |-> todo]
<1>1. UNCHANGED <<snaps, daily, final, kept>> /\ proc' = [proc EXCEPT ![Collector] = w]
      /\ Collector \in Procs
  BY DEF Maintain, Goto, tables, Procs
<1>2. Pending(w) = todo /\ ValueOK(w)
  BY DEF Pending, Storing, Chosen, ValueOK
<1>3. \A d \in todo : Safe(d)
  BY DEF Safe, RowsInv, LostOK, Gone
<1> HIDE DEF w, todo
<1> QED
  BY <1>1, <1>2, <1>3, OneMovesValues

LEMMA ListMissingKeepsValues ==
  ASSUME RowsInv, ValuesInv, NEW p \in Procs, ListMissing(p)
  PROVE  ValuesInv'
<1> DEFINE now == Smallest(proc[p].todo, ChunkOf[proc[p].call])
           rest == [proc[p] EXCEPT !.todo = @ \ now]
           next == [pc |-> "listed", now |-> rest.now, call |-> rest.call,
                    todo |-> rest.todo, missing |-> now \ final]
<1>1. UNCHANGED <<snaps, daily, final, kept>> /\ proc[p].pc = "next"
  BY DEF ListMissing, tables
<1>2. \/ proc' = [proc EXCEPT ![p] = rest]
      \/ proc' = [proc EXCEPT ![p] = next]
  BY DEF ListMissing, Goto
<1>3. now \subseteq proc[p].todo
  BY DEF Smallest
<1> HIDE DEF now
<1>4. proc[p] = [pc |-> "next", now |-> proc[p].now, call |-> proc[p].call,
                 todo |-> proc[p].todo]
  BY <1>1 DEF RowsInv, ProcOK, WorkOK, Shape, Idle
<1>5. rest = [pc |-> "next", now |-> proc[p].now, call |-> proc[p].call,
              todo |-> proc[p].todo \ now]
  BY <1>4
<1>6. Pending(proc[p]) = proc[p].todo
  BY <1>1 DEF Pending, Storing, Chosen
<1>7. CASE proc' = [proc EXCEPT ![p] = rest]
  <2>1. Pending(rest) = proc[p].todo \ now /\ rest.now = proc[p].now /\ ValueOK(rest)
    BY <1>5 DEF Pending, Storing, Chosen, ValueOK
  <2> HIDE DEF rest
  <2> QED
    BY <1>1, <1>3, <1>6, <1>7, <2>1, StoringMovesValues
<1>8. CASE proc' = [proc EXCEPT ![p] = next]
  <2>1. /\ next.pc = "listed" /\ next.now = proc[p].now
        /\ next.todo = proc[p].todo \ now /\ next.missing = now \ final
    BY <1>5
  <2> HIDE DEF next, rest
  <2>2. Pending(next) = (proc[p].todo \ now) \cup (now \ final) /\ ValueOK(next)
    BY <2>1 DEF Pending, Storing, Chosen, ValueOK
  <2> QED
    BY <1>1, <1>3, <1>6, <1>8, <2>1, <2>2, StoringMovesValues
<1> QED
  BY <1>2, <1>7, <1>8

LEMMA ReadBaselineKeepsValues ==
  ASSUME RowsInv, ValuesInv, NEW p \in Procs, ReadBaseline(p)
  PROVE  ValuesInv'
<1> DEFINE w == [pc |-> "based", now |-> proc[p].now, call |-> proc[p].call,
                 todo |-> proc[p].todo, missing |-> proc[p].missing,
                 base |-> Baseline(snaps, Min(proc[p].missing))]
<1>1. /\ UNCHANGED <<snaps, daily, final, kept>> /\ proc[p].pc = "listed"
      /\ proc' = [proc EXCEPT ![p] = w]
  BY DEF ReadBaseline, Goto, tables
<1>2. Pending(proc[p]) = proc[p].todo \cup proc[p].missing /\ proc[p].missing # {}
      /\ Pending(proc[p]) \subseteq Days
  BY <1>1 DEF Pending, Storing, Chosen, RowsInv, ProcOK, WorkOK
<1>3. /\ w.pc = "based" /\ w.now = proc[p].now /\ w.todo = proc[p].todo
      /\ w.missing = proc[p].missing /\ w.base = Baseline(snaps, Min(proc[p].missing))
  OBVIOUS
<1> HIDE DEF w
<1>4. Pending(w) = Pending(proc[p])
  BY <1>2, <1>3 DEF Pending, Storing, Chosen
<1>5. ValueOK(w)
  <2>1. Min(proc[p].missing) \in Nat
    BY <1>2, MinOf DEF Days
  <2>2. KeptOK /\ snaps \in SUBSET kept
    BY DEF RowsInv, SnapsOK
  <2> QED
    BY <1>3, <2>1, <2>2, BaselineIs DEF ValueOK, BaseOK
<1> QED
  BY <1>1, <1>3, <1>4, <1>5, StoringMovesValues

LEMMA ReadRangeKeepsValues ==
  ASSUME RowsInv, ValuesInv, NEW p \in Procs, ReadRange(p)
  PROVE  ValuesInv'
<1> DEFINE missing == proc[p].missing
           range == {s \in snaps : s.day \in Min(missing) .. Max(missing)}
           sums == [d \in missing |-> Bucket(range, proc[p].base, d)]
           w == [pc |-> "summed", now |-> proc[p].now, call |-> proc[p].call,
                 todo |-> proc[p].todo, missing |-> missing, sums |-> sums]
<1>1. /\ UNCHANGED <<snaps, daily, final, kept>> /\ proc[p].pc = "based"
      /\ proc' = [proc EXCEPT ![p] = w]
  BY DEF ReadRange, Goto, tables
<1>2. Pending(proc[p]) = proc[p].todo \cup proc[p].missing /\ proc[p].missing \subseteq Days
  BY <1>1 DEF Pending, Storing, Chosen, RowsInv, ProcOK, WorkOK
<1>3. \A d \in missing : sums[d] = Worth(d)
  <2> TAKE d \in missing
  <2>1. KeptOK /\ SnapsOK /\ MaxDay \in Nat
    BY MaintenanceBounds DEF RowsInv
  <2>2. Safe(d)
    BY <1>2, PendingSafe
  <2>3. BaseOK(proc[p].base, Min(missing))
    BY <1>1 DEF ValuesInv, ValueOK
  <2>4. Bucket(range, proc[p].base, d) = Worth(d)
    BY <1>2, <2>1, <2>2, <2>3, RangeIsWorth
  <2> QED
    BY <2>4
<1>4. DOMAIN sums = missing
  OBVIOUS
<1> HIDE DEF sums
<1>5. /\ w.pc = "summed" /\ w.now = proc[p].now /\ w.todo = proc[p].todo
      /\ w.missing = missing /\ w.sums = sums
  OBVIOUS
<1> HIDE DEF w
<1>6. Pending(w) = Pending(proc[p])
  BY <1>2, <1>5 DEF Pending, Storing, Chosen
<1>7. ValueOK(w)
  BY <1>3, <1>4, <1>5 DEF ValueOK
<1> QED
  BY <1>1, <1>5, <1>6, <1>7, StoringMovesValues

\* Storing a day again stores the value that it has.
LEMMA StoreValues ==
  ASSUME RowsInv, ValuesInv, NEW p \in Procs, Store(p)
  PROVE  DailyOK'
<1>1. /\ proc[p].pc = "summed" /\ kept' = kept /\ final' = final \cup proc[p].missing
      /\ daily' = [d \in Days |->
                    IF d \in DOMAIN proc[p].sums /\ proc[p].sums[d].observations > 0
                    THEN proc[p].sums[d] ELSE daily[d]]
  BY DEF Store
<1>2. DOMAIN proc[p].sums = proc[p].missing
      /\ \A d \in proc[p].missing : proc[p].sums[d] = Worth(d)
  BY <1>1 DEF ValuesInv, ValueOK
<1>3. \A d : Worth(d)' = Worth(d)
  BY <1>1 DEF Worth, OfDay, Gain, Before, Latest, Delta, NoSnapshot
<1>4. ASSUME NEW d \in Days
      PROVE  daily'[d] = IF d \in final' THEN Worth(d) ELSE Nothing
  <2>1. daily[d] = IF d \in final THEN Worth(d) ELSE Nothing
    BY DEF ValuesInv, DailyOK
  <2>2. CASE d \notin proc[p].missing
    BY <1>1, <1>2, <2>1, <2>2
  <2>3. CASE d \in proc[p].missing /\ Worth(d).observations > 0
    BY <1>1, <1>2, <2>3
  <2>4. CASE d \in proc[p].missing /\ ~ (Worth(d).observations > 0)
    <3>1. Worth(d) = Nothing
      BY <2>4, WorthNothing DEF RowsInv, KeptOK
    <3>2. daily'[d] = daily[d]
      BY <1>1, <1>2, <2>4
    <3> QED
      BY <1>1, <2>1, <2>4, <3>1, <3>2
  <2> QED
    BY <2>2, <2>3, <2>4
<1>5. daily' = [d \in Days |-> daily'[d]]
  BY <1>1
<1>6. [d \in Days |-> daily'[d]] = [d \in Days |-> IF d \in final' THEN Worth(d)' ELSE Nothing]
  BY <1>3, <1>4
<1> QED
  BY <1>5, <1>6 DEF DailyOK, Nothing

LEMMA StoreKeepsValues ==
  ASSUME RowsInv, ValuesInv, NEW p \in Procs, Store(p)
  PROVE  ValuesInv'
<1> DEFINE w == [pc |-> "next", now |-> proc[p].now, call |-> proc[p].call,
                 todo |-> proc[p].todo]
<1>1. UNCHANGED <<snaps, kept>> /\ proc[p].pc = "summed" /\ proc' = [proc EXCEPT ![p] = w]
  BY DEF Store, Goto
<1>2. Pending(w) \subseteq Pending(proc[p]) /\ w.now = proc[p].now /\ ValueOK(w)
  BY <1>1 DEF Pending, Storing, Chosen, ValueOK
<1> HIDE DEF w
<1>3. \A d : (Worth(d)' = Worth(d)) /\ (Safe(d) => Safe(d)')
  BY <1>1 DEF Worth, OfDay, Gain, Before, Latest, Delta, NoSnapshot, Safe, Lost
<1>4. proc'[p] = w /\ \A r \in Procs : r # p => proc'[r] = proc[r]
  BY <1>1 DEF RowsInv, ProcOK
<1>5. \A r \in Procs : ValueOK(proc[r])'
  <2>1. \A x : ValueOK(x) => ValueOK(x)'
    BY <1>1, <1>3 DEF ValueOK, BaseOK
  <2> TAKE r \in Procs
  <2>2. ValueOK(proc'[r])
    BY <1>2, <1>4 DEF ValuesInv
  <2>3. PICK x : x = proc'[r]
    OBVIOUS
  <2>4. ValueOK(x)'
    BY <2>1, <2>2, <2>3
  <2> QED
    BY <2>3, <2>4 DEF ValueOK
<1>6. \A v \in Visitors, d \in Days : d \in Pending(proc'[v]) => InReach(proc'[v].now, d)
  BY <1>2, <1>4, MaintenanceBounds DEF ValuesInv, Procs
<1>7. \A d \in Pending(proc'[Collector]) : Safe(d)'
  BY <1>2, <1>3, <1>4 DEF ValuesInv, Procs
<1> QED
  BY <1>5, <1>6, <1>7, StoreValues DEF ValuesInv

LEMMA ToIdleKeepsValues ==
  ASSUME RowsInv, ValuesInv, UNCHANGED <<snaps, daily, final, kept>>,
         NEW p \in Procs, proc' = [proc EXCEPT ![p] = Idle]
  PROVE  ValuesInv'
<1>1. Pending(Idle) = {} /\ ValueOK(Idle)
  BY DEF Pending, Idle, Storing, Chosen, ValueOK
<1> QED
  BY <1>1, OneMovesValues

LEMMA BeginPruneKeepsValues ==
  ASSUME RowsInv, ValuesInv, BeginPrune
  PROVE  ValuesInv'
<1> DEFINE w == [pc |-> "pruning", now |-> proc[Collector].now, doomed |-> Doomed]
<1>1. UNCHANGED <<snaps, daily, final, kept>> /\ proc' = [proc EXCEPT ![Collector] = w]
      /\ Collector \in Procs
  BY DEF BeginPrune, Goto, tables, Procs
<1>2. Pending(w) = {} /\ ValueOK(w)
  BY DEF Pending, Storing, Chosen, ValueOK
<1> HIDE DEF w
<1> QED
  BY <1>1, <1>2, OneMovesValues

LEMMA PruneBatchKeepsValues ==
  ASSUME RowsInv, ValuesInv, PruneBatch
  PROVE  ValuesInv'
<1>1. PICK last \in proc[Collector].doomed :
        LET batch == {s \in proc[Collector].doomed : s.id <= last.id}
        IN  /\ snaps' = snaps \ batch
            /\ proc' = [proc EXCEPT ![Collector] =
                         [proc[Collector] EXCEPT !.doomed = @ \ batch]]
  BY DEF PruneBatch, Goto
<1>2. UNCHANGED <<daily, final, kept>> /\ proc[Collector].pc = "pruning"
      /\ Collector \in Procs /\ proc[Collector] # Idle
  BY DEF PruneBatch, Procs, Idle
<1>3. snaps' \subseteq snaps
  BY <1>1
<1>4. /\ proc'[Collector].pc = "pruning"
      /\ \A r \in Procs : r # Collector => proc'[r] = proc[r]
  <2>1. proc[Collector] = [pc |-> "pruning", now |-> proc[Collector].now,
                           doomed |-> proc[Collector].doomed]
    BY <1>2 DEF RowsInv, ProcOK, WorkOK, Shape
  <2>2. \A b : [proc[Collector] EXCEPT !.doomed = @ \ b].pc = "pruning"
    BY <2>1
  <2>3. DOMAIN proc = Procs
    BY DEF RowsInv, ProcOK
  <2> QED
    BY <1>1, <1>2, <2>2, <2>3
<1>5. \A d : Worth(d)' = Worth(d)
  BY <1>2 DEF Worth, OfDay, Gain, Before, Latest, Delta, NoSnapshot
<1>6. DailyOK'
  BY <1>2, <1>5 DEF ValuesInv, DailyOK
<1>7. \A r \in Procs : ValueOK(proc[r])'
  <2>1. \A x : ValueOK(x) => ValueOK(x)'
    BY <1>2, <1>3, <1>5 DEF ValueOK, BaseOK
  <2> TAKE r \in Procs
  <2>2. ValueOK(proc'[r])
    BY <1>4 DEF ValuesInv, ValueOK
  <2>3. PICK x : x = proc'[r]
    OBVIOUS
  <2>4. ValueOK(x)'
    BY <2>1, <2>2, <2>3
  <2> QED
    BY <2>3, <2>4 DEF ValueOK
<1>8. \A v \in Visitors, d \in Days : d \in Pending(proc'[v]) => InReach(proc'[v].now, d)
  BY <1>4, MaintenanceBounds DEF ValuesInv, Procs
<1>9. Pending(proc'[Collector]) = {}
  BY <1>4 DEF Pending, Storing, Chosen
<1> QED
  BY <1>6, <1>7, <1>8, <1>9 DEF ValuesInv

LEMMA ValuesStep ==
  ASSUME RowsInv, ValuesInv, LooksBackLess, [Next]_vars
  PROVE  ValuesInv'
<1>1. CASE UNCHANGED vars
  BY <1>1, ValuesStay DEF vars, tables
<1>2. CASE Next
  <2>1. CASE Quarter \/ Midnight
    BY <2>1, ValuesStay DEF Quarter, Midnight, Turn, tables
  <2>2. CASE PollStart \/ PollObserve \/ PollFails
    BY <2>2, ValuesStay DEF PollStart, PollObserve, PollFails, tables
  <2>3. CASE PollCommit
    BY <2>3, PollCommitKeepsValues
  <2>4. CASE Maintain \/ BeginPrune \/ PruneBatch
    BY <2>4, MaintainKeepsValues, BeginPruneKeepsValues, PruneBatchKeepsValues
  <2>5. CASE EndPrune \/ MaintenanceFails \/ Restart
    BY <2>5, ToIdleKeepsValues DEF EndPrune, MaintenanceFails, Restart, Goto, tables, Procs
  <2>6. CASE \E v \in Visitors : Request(v) \/ Estimate(v)
    BY <2>6, RequestKeepsValues, EstimateKeepsValues
  <2>7. CASE \E v \in Visitors : Answer(v)
    BY <2>7, ToIdleKeepsValues DEF Answer, Goto, tables, Procs
  <2>8. CASE \E p \in Procs : StoreStep(p)
    BY <2>8, ListMissingKeepsValues, ReadBaselineKeepsValues, ReadRangeKeepsValues,
       StoreKeepsValues DEF StoreStep
  <2> QED
    BY <1>2, <2>1, <2>2, <2>3, <2>4, <2>5, <2>6, <2>7, <2>8 DEF Next
<1> QED
  BY <1>1, <1>2

\* While what a request looks back to ends two days before what is kept, every
\* value that is stored or on its way there is what all snapshots of the day
\* give.
THEOREM ValuesAlwaysRight ==
  ASSUME LooksBackLess
  PROVE  Spec => [](RowsInv /\ ValuesInv)
<1>1. Retention >= 3
  BY MaintenanceBounds DEF LooksBackLess
<1>2. Init => ValuesInv
  BY InitValues
<1>3. RowsInv /\ ValuesInv /\ [Next]_vars => ValuesInv'
  BY ValuesStep
<1>4. Spec => []RowsInv
  BY <1>1, RemovedIsDone
<1> QED
  BY <1>2, <1>3, <1>4, PTL DEF Spec

\* A stored day is not computed before the last of its snapshots nor after the
\* first of them was removed.
THEOREM StoredAlwaysTrue ==
  ASSUME LooksBackLess
  PROVE  Spec => []StoredIsTrue
<1>1. RowsInv /\ ValuesInv => StoredIsTrue
  <2> SUFFICES ASSUME RowsInv, ValuesInv, NEW d \in final
               PROVE  daily[d] = Truth(d)
    BY DEF StoredIsTrue
  <2>1. d \in Days /\ d \in Nat
    BY DEF RowsInv, FinalOK, Days
  <2>2. daily[d] = Worth(d)
    BY <2>1 DEF ValuesInv, DailyOK
  <2> QED
    BY <2>1, <2>2, TruthIsWorth DEF RowsInv
<1> QED
  BY <1>1, ValuesAlwaysRight, PTL

\* The value of a day never changes once it is stored, whoever stores it again.
THEOREM CompletedDaysAlwaysStay ==
  ASSUME LooksBackLess
  PROVE  Spec => CompletedDaysStay
<1>1. ASSUME RowsInv, ValuesInv, RowsInv', ValuesInv', [Next]_vars
      PROVE  [/\ final \subseteq final'
              /\ \A d \in final : daily'[d] = daily[d]]_vars
  <2> SUFFICES ASSUME Next
               PROVE  final \subseteq final' /\ \A d \in final : daily'[d] = daily[d]
    BY <1>1
  <2>1. CASE UNCHANGED <<daily, final>>
    BY <2>1
  <2>2. CASE \E p \in Procs : Store(p)
    <3>1. UNCHANGED kept /\ final \subseteq final'
      BY <2>2 DEF Store
    <3>2. \A d : Worth(d)' = Worth(d)
      BY <3>1 DEF Worth, OfDay, Gain, Before, Latest, Delta, NoSnapshot
    <3>3. \A d \in final : daily[d] = Worth(d)
      BY <1>1 DEF ValuesInv, DailyOK, RowsInv, FinalOK
    <3>4. \A d \in final : daily'[d] = Worth(d)
      BY <1>1, <3>1, <3>2 DEF ValuesInv, DailyOK, RowsInv, FinalOK, Days
    <3> QED
      BY <3>1, <3>3, <3>4
  <2> QED
    BY <2>1, <2>2 DEF Next, Quarter, Midnight, Turn, PollStart, PollObserve, PollCommit,
       PollFails, Maintain, BeginPrune, PruneBatch, EndPrune, MaintenanceFails, Restart,
       Request, Estimate, Answer, StoreStep, ListMissing, ReadBaseline, ReadRange, tables
<1> QED
  BY <1>1, ValuesAlwaysRight, PTL DEF Spec, CompletedDaysStay
=============================================================================
