--------------------------- MODULE NodePoolProofs ---------------------------
(***************************************************************************)
(* Theorems about NodeRpcPool for any number of nodes, any cooldown and    *)
(* whatever the nodes do while they are asked.                             *)
(***************************************************************************)
EXTENDS NodePool, SequenceTheorems, FunctionTheorems, FiniteSetTheorems,
        WellFoundedInduction, TLAPS

Increasing(q) == \A j, k \in DOMAIN q : j < k => q[j] < q[k]

LEMMA NodesAreFinite == Nodes \subseteq Nat /\ IsFiniteSet(Nodes)
<1>1. Last \in Int /\ 0 \in Int
  BY PoolBounds
<1> QED
  BY <1>1, FS_Interval, PoolBounds DEF Nodes

\* A nonempty set of nodes has a last one.
LEMMA LastOfSet ==
  ASSUME NEW S \in SUBSET Nodes, S # {}
  PROVE  \E m \in S : \A k \in S : k <= m
<1> DEFINE R == OpToRel(<, Nat)
           T == {i \in Nat : Last - i \in S}
<1>1. \E i \in T : \A j \in T : ~ (<<j, i>> \in R)
  <2>1. PICK k \in S : TRUE
    OBVIOUS
  <2>2. Last - k \in Nat /\ Last - (Last - k) = k
    BY PoolBounds DEF Nodes
  <2>3. T \subseteq Nat /\ T # {}
    BY <2>1, <2>2
  <2> HIDE DEF T
  <2> QED
    BY <2>3, NatLessThanWellFounded, WFMin
<1>2. PICK i \in T : \A j \in T : ~ (<<j, i>> \in R)
  BY <1>1
<1>3. \A j \in T : ~ (j < i)
  BY <1>2 DEF OpToRel
<1>4. \A k \in S : k <= Last - i
  <2> SUFFICES ASSUME NEW k \in S
               PROVE  k <= Last - i
    OBVIOUS
  <2>1. Last \in Nat /\ k \in 0 .. Last
    BY PoolBounds DEF Nodes
  <2>2. Last - k \in T
    BY <2>1
  <2>3. ~(Last - k < i)
    BY <1>3, <2>2
  <2> QED
    BY <2>1, <2>3
<1> QED
  BY <1>2, <1>4

\* The nodes of a set can be put in order: a smallest set that cannot would leave
\* one that cannot when its last node is taken away.
LEMMA OrderExists ==
  ASSUME NEW S \in SUBSET Nodes
  PROVE  \E q \in [1 .. Cardinality(S) -> S] : Increasing(q)
<1> DEFINE Ordered(U) == \E q \in [1 .. Cardinality(U) -> U] : Increasing(q)
           B == {n \in Nat : \E U \in SUBSET Nodes : Cardinality(U) = n /\ ~Ordered(U)}
           R == OpToRel(<, Nat)
<1>1. \A U \in SUBSET Nodes : IsFiniteSet(U) /\ Cardinality(U) \in Nat
  BY NodesAreFinite, FS_Subset, FS_CardinalityType
<1>2. SUFFICES ASSUME B # {}
               PROVE  FALSE
  <2> SUFFICES Ordered(S)
    OBVIOUS
  <2> HIDE DEF Ordered
  <2>1. ~Ordered(S) => Cardinality(S) \in B
    BY <1>1
  <2> QED
    BY <1>2, <2>1
<1>3. PICK n \in B : \A j \in B : ~ (<<j, n>> \in R)
  <2>1. B \subseteq Nat
    OBVIOUS
  <2> HIDE DEF B
  <2> QED
    BY <1>2, <2>1, NatLessThanWellFounded, WFMin
<1>4. n \in Nat /\ \A j \in B : ~ (j < n)
  BY <1>3 DEF OpToRel
<1>5. PICK U \in SUBSET Nodes : Cardinality(U) = n /\ ~Ordered(U)
  BY <1>3
<1>6. CASE U = {}
  <2>1. Cardinality(U) = 0
    BY <1>6, FS_EmptySet
  <2>2. <<>> \in [1 .. 0 -> U] /\ Increasing(<<>>)
    BY DEF Increasing
  <2> QED
    BY <1>5, <2>1, <2>2
<1>7. CASE U # {}
  <2>1. PICK m \in U : \A k \in U : k <= m
    BY <1>7, LastOfSet
  <2> DEFINE V == U \ {m}
  <2>2. V \in SUBSET Nodes /\ Cardinality(V) = n - 1 /\ n - 1 \in Nat
    <3>1. V \in SUBSET Nodes /\ IsFiniteSet(U)
      BY <1>1
    <3>2. Cardinality(V) = n - 1
      BY <1>5, <2>1, <3>1, FS_RemoveElement
    <3> HIDE DEF V
    <3> QED
      BY <1>1, <3>1, <3>2
  <2>3. n - 1 \notin B
    BY <1>4, <2>2
  <2>4. Ordered(V)
    <3> HIDE DEF Ordered, V
    <3> QED
      BY <2>2, <2>3
  <2>5. PICK q \in [1 .. n - 1 -> V] : Increasing(q)
    BY <2>2, <2>4
  <2> DEFINE p == [k \in 1 .. n |-> IF k = n THEN m ELSE q[k]]
  <2>6. p \in [1 .. n -> U] /\ \A k \in 1 .. n : p[k] = IF k = n THEN m ELSE q[k]
    <3> SUFFICES ASSUME NEW k \in 1 .. n, k # n
                 PROVE  q[k] \in U
      BY <2>1
    <3>1. k \in 1 .. n - 1
      BY <1>4
    <3> QED
      BY <2>5, <3>1
  <2> HIDE DEF p
  <2>7. Increasing(p)
    <3> SUFFICES ASSUME NEW j \in 1 .. n, NEW k \in 1 .. n, j < k
                 PROVE  p[j] < p[k]
      BY <2>6 DEF Increasing
    <3>1. j \in 1 .. n - 1 /\ p[j] = q[j] /\ q[j] \in V
      <4>1. j \in 1 .. n - 1 /\ j # n
        BY <1>4
      <4> QED
        BY <2>5, <2>6, <4>1
    <3>2. CASE k = n
      <4>1. p[k] = m /\ q[j] \in U /\ q[j] # m /\ q[j] <= m
        BY <2>1, <2>6, <3>1, <3>2
      <4>2. q[j] \in Nat /\ m \in Nat
        BY <2>1, <4>1, NodesAreFinite
      <4> QED
        BY <3>1, <4>1, <4>2
    <3>3. CASE k # n
      <4>1. k \in 1 .. n - 1 /\ p[k] = q[k]
        BY <1>4, <2>6, <3>3
      <4> QED
        BY <2>5, <3>1, <4>1 DEF Increasing
    <3> QED
      BY <3>2, <3>3
  <2> QED
    BY <1>5, <2>6, <2>7
<1> QED
  BY <1>6, <1>7

\* The rest of the candidates are the nodes of the set, each once, by index.
LEMMA AscendingOrders ==
  ASSUME NEW S \in SUBSET Nodes
  PROVE  /\ Ascending(S) \in Seq(Nodes)
         /\ Increasing(Ascending(S))
         /\ Members(Ascending(S)) = S
<1> DEFINE q == Ascending(S)
           n == Cardinality(S)
<1>1. IsFiniteSet(S) /\ n \in Nat
  BY NodesAreFinite, FS_Subset, FS_CardinalityType
<1>2. Ascending(S) = CHOOSE p \in [1 .. n -> S] : Increasing(p)
  BY DEF Ascending, Increasing
<1>3. q \in [1 .. n -> S] /\ Increasing(q)
  <2> HIDE DEF n
  <2>1. \E p \in [1 .. Cardinality(S) -> S] : Increasing(p)
    BY OrderExists
  <2> QED
    BY <1>2, <2>1 DEF n
<1> HIDE DEF n, q
<1>4. \A j, k \in 1 .. n : q[j] = q[k] => j = k
  <2> SUFFICES ASSUME NEW j \in 1 .. n, NEW k \in 1 .. n, q[j] = q[k]
               PROVE  j = k
    OBVIOUS
  <2>1. ~(j < k) /\ ~(k < j)
    <3>1. q[j] \in Nat /\ q[k] = q[j]
      BY <1>3, NodesAreFinite
    <3>2. ~(q[j] < q[k]) /\ ~(q[k] < q[j])
      BY <3>1
    <3>3. DOMAIN q = 1 .. n
      BY <1>3
    <3> QED
      BY <1>3, <3>2, <3>3 DEF Increasing
  <2> QED
    BY <1>1, <2>1
<1>5. q \in Injection(1 .. n, S)
  BY <1>3, <1>4, Fun_IsInj
<1>6. IsFiniteSet(1 .. n) /\ Cardinality(1 .. n) = n
  BY <1>1, FS_Interval
<1>7. q \in Surjection(1 .. n, S)
  BY <1>1, <1>5, <1>6, FS_Injection DEF n
<1>8. \A i \in S : \E k \in 1 .. n : q[k] = i
  BY <1>7 DEF Surjection
<1>9. Members(q) = S
  BY <1>3, <1>8 DEF Members
<1>10. q \in Seq(Nodes)
  BY <1>1, <1>3
<1> QED
  BY <1>3, <1>9, <1>10 DEF q

\* The members of two queues in a row.
LEMMA MembersOfConcat ==
  ASSUME NEW p \in Seq(Nodes), NEW q \in Seq(Nodes)
  PROVE  Members(p \o q) = Members(p) \cup Members(q)
<1>1. /\ p \o q \in Seq(Nodes) /\ Len(p \o q) = Len(p) + Len(q)
      /\ Len(p) \in Nat /\ Len(q) \in Nat
      /\ DOMAIN p = 1 .. Len(p) /\ DOMAIN q = 1 .. Len(q)
      /\ DOMAIN (p \o q) = 1 .. Len(p) + Len(q)
      /\ \A i \in 1 .. Len(p) + Len(q) :
           (p \o q)[i] = IF i <= Len(p) THEN p[i] ELSE q[i - Len(p)]
  BY ConcatProperties, LenProperties
<1>2. \A i \in DOMAIN (p \o q) : (p \o q)[i] \in Members(p) \cup Members(q)
  <2> SUFFICES ASSUME NEW i \in 1 .. Len(p) + Len(q)
               PROVE  (p \o q)[i] \in Members(p) \cup Members(q)
    BY <1>1
  <2>1. i <= Len(p) => i \in DOMAIN p
    BY <1>1
  <2>2. ~(i <= Len(p)) => i - Len(p) \in DOMAIN q
    BY <1>1
  <2> QED
    BY <1>1, <2>1, <2>2 DEF Members
<1>3. \A k \in DOMAIN p : p[k] \in Members(p \o q)
  <2> SUFFICES ASSUME NEW k \in 1 .. Len(p)
               PROVE  p[k] \in Members(p \o q)
    BY <1>1
  <2>1. k \in DOMAIN (p \o q) /\ (p \o q)[k] = p[k]
    BY <1>1
  <2> QED
    BY <2>1 DEF Members
<1>4. \A k \in DOMAIN q : q[k] \in Members(p \o q)
  <2> SUFFICES ASSUME NEW k \in 1 .. Len(q)
               PROVE  q[k] \in Members(p \o q)
    BY <1>1
  <2>1. k + Len(p) \in DOMAIN (p \o q) /\ (p \o q)[k + Len(p)] = q[k]
    <3>1. k + Len(p) \in 1 .. Len(p) + Len(q) /\ ~(k + Len(p) <= Len(p))
          /\ k + Len(p) - Len(p) = k
      BY <1>1
    <3> QED
      BY <1>1, <3>1
  <2> QED
    BY <2>1 DEF Members
<1> QED
  BY <1>2, <1>3, <1>4 DEF Members

\* Every node that is not cooling down is asked, and the active one in any case.
LEMMA EveryNodeIsAsked ==
  ASSUME TypeOK
  PROVE  /\ Candidates \in Seq(Nodes)
         /\ Candidates # <<>>
         /\ Members(Candidates) = Available \cup {active}
<1> DEFINE preferred == IF active # 0 /\ 0 \in Available THEN <<0, active>> ELSE <<active>>
           rest == Ascending(Available \ {0, active})
<1>1. active \in Nodes /\ 0 \in Nodes /\ Available \subseteq Nodes
  BY PoolBounds DEF TypeOK, Nodes, Available
<1>2. rest \in Seq(Nodes) /\ Members(rest) = Available \ {0, active}
  BY <1>1, AscendingOrders
<1>3. /\ preferred \in Seq(Nodes)
      /\ preferred # <<>>
      /\ Members(preferred) = IF active # 0 /\ 0 \in Available THEN {0, active} ELSE {active}
  BY <1>1 DEF Members
<1>4. Candidates = preferred \o rest
  BY DEF Candidates
<1> HIDE DEF preferred, rest
<1>5. Candidates \in Seq(Nodes) /\ Len(Candidates) = Len(preferred) + Len(rest)
  BY <1>2, <1>3, <1>4, ConcatProperties
<1>6. Candidates # <<>>
  <2>1. Len(preferred) \in Nat \ {0} /\ Len(rest) \in Nat
    BY <1>2, <1>3, EmptySeq, LenProperties
  <2> QED
    BY <1>5, <2>1
<1>7. Members(Candidates) = Members(preferred) \cup Members(rest)
  BY <1>2, <1>3, <1>4, MembersOfConcat
<1>8. Members(preferred) \cup Members(rest) = Available \cup {active}
  BY <1>2, <1>3
<1> QED
  BY <1>5, <1>6, <1>7, <1>8

-----------------------------------------------------------------------------
(***************************************************************************)
(* The invariant of a poll: a candidate that stays ahead is still in the   *)
(* queue, and the answer that is being judged shows that it is ahead.      *)
(***************************************************************************)

QueueInv ==
  /\ \A j \in steady : Ahead(j)
  /\ poll.pc # "idle" => steady \cap Members(poll.asked) \subseteq Members(poll.queue)
  /\ poll.pc \in {"validate", "waiting", "collect"} => poll.queue # <<>>
  /\ poll.pc = "validate" /\ Candidate \in steady
       => poll.momentum.height > cursor.height
  /\ poll.pc = "waiting" => Candidate \notin steady

PoolInv == TypeOK /\ QueueInv

\* Going on to the next candidate leaves one node behind.
LEMMA TailDropsHead ==
  ASSUME NEW q \in Seq(Nodes), q # <<>>
  PROVE  /\ Head(q) \in Nodes
         /\ Tail(q) \in Seq(Nodes)
         /\ Members(q) \subseteq Members(Tail(q)) \cup {Head(q)}
<1>1. /\ Head(q) \in Nodes /\ Tail(q) \in Seq(Nodes)
      /\ Head(q) = q[1] /\ Len(q) \in Nat /\ Len(q) # 0 /\ Len(Tail(q)) = Len(q) - 1
      /\ DOMAIN q = 1 .. Len(q) /\ DOMAIN Tail(q) = 1 .. Len(q) - 1
      /\ \A k \in 1 .. Len(q) - 1 : Tail(q)[k] = q[k + 1]
  BY HeadTailProperties, EmptySeq, LenProperties
<1>2. ASSUME NEW k \in 1 .. Len(q), k # 1
      PROVE  q[k] \in Members(Tail(q))
  <2>1. k - 1 \in 1 .. Len(q) - 1 /\ (k - 1) + 1 = k
    BY <1>1, <1>2
  <2>2. k - 1 \in DOMAIN Tail(q) /\ Tail(q)[k - 1] = q[k]
    BY <1>1, <2>1
  <2> QED
    BY <2>2 DEF Members
<1>3. Members(q) \subseteq Members(Tail(q)) \cup {Head(q)}
  BY <1>1, <1>2 DEF Members
<1> QED
  BY <1>1, <1>3

\* What a poll holds besides its place.
LEMMA PollFields ==
  ASSUME poll \in Poll, poll.pc # "idle"
  PROVE  /\ poll.queue \in Seq(Nodes) /\ poll.asked \in Seq(Nodes)
         /\ poll.retry \in BOOLEAN
         /\ poll.reorg \in Seq(Nodes) /\ poll.stale \in Seq(Nodes)
         /\ poll.syncing \in Seq(Nodes)
         /\ poll.pc # "frontier" => poll.momentum \in Momentum
BY DEF Poll

LEMMA NoMomentumType == NoMomentum \in [height : {0}, fork : Forks]
BY PoolBounds DEF NoMomentum

\* A poll that goes on to its next candidate, with one of its lists longer.
LEMMA NextCandidateType ==
  ASSUME NEW p \in Poll, p.pc # "idle", p.queue # <<>>, NextCandidate(p)
  PROVE  poll' \in Poll /\ poll'.pc = "frontier" /\ poll'.asked = p.asked
         /\ poll'.queue = Tail(p.queue)
<1>1. p.queue \in Seq(Nodes)
  BY DEF Poll
<1>2. Tail(p.queue) \in Seq(Nodes)
  BY <1>1, TailDropsHead
<1> QED
  BY <1>2 DEF Poll, NextCandidate

\* The three lists a candidate can be put on.
LEMMA ListedType ==
  ASSUME poll \in Poll, poll.pc # "idle", NEW i \in Nodes
  PROVE  \A p \in {[poll EXCEPT !.reorg = Append(@, i)],
                   [poll EXCEPT !.stale = Append(@, i)],
                   [poll EXCEPT !.syncing = Append(@, i)]} :
           p \in Poll /\ p.pc = poll.pc /\ p.asked = poll.asked /\ p.queue = poll.queue
<1>1. /\ Append(poll.reorg, i) \in Seq(Nodes)
      /\ Append(poll.stale, i) \in Seq(Nodes)
      /\ Append(poll.syncing, i) \in Seq(Nodes)
  BY PollFields, AppendProperties
<1> QED
  BY <1>1 DEF Poll

\* A candidate that is given up is only then out of the queue.
LEMMA GivenUp ==
  ASSUME PoolInv, poll.pc # "idle", poll.queue # <<>>, Candidate \notin steady,
         NEW p \in {poll, [poll EXCEPT !.reorg = Append(@, Candidate)],
                    [poll EXCEPT !.stale = Append(@, Candidate)],
                    [poll EXCEPT !.syncing = Append(@, Candidate)]},
         NextCandidate(p), UNCHANGED <<world, cursor, steady>>
  PROVE  poll' \in Poll /\ QueueInv'
<1>1. poll \in Poll /\ poll.queue \in Seq(Nodes)
  BY PollFields DEF PoolInv, TypeOK
<1>2. Candidate \in Nodes
  BY <1>1, TailDropsHead DEF Candidate
<1>3. p \in Poll /\ p.pc = poll.pc /\ p.asked = poll.asked /\ p.queue = poll.queue
  BY <1>1, <1>2, ListedType
<1>4. /\ poll' \in Poll /\ poll'.pc = "frontier" /\ poll'.asked = poll.asked
      /\ poll'.queue = Tail(poll.queue)
  BY <1>3, NextCandidateType
<1>5. steady' = steady /\ \A j \in steady : Ahead(j)'
  BY DEF PoolInv, QueueInv, Ahead, world
<1>6. steady \cap Members(poll.asked) \subseteq Members(Tail(poll.queue))
  <2>1. steady \cap Members(poll.asked) \subseteq Members(poll.queue)
    BY DEF PoolInv, QueueInv
  <2>2. Members(poll.queue) \subseteq Members(Tail(poll.queue)) \cup {Candidate}
    BY <1>1, TailDropsHead DEF Candidate
  <2> QED
    BY <2>1, <2>2
<1>7. Members(poll.asked)' = Members(poll.asked)
      /\ Members(poll.queue)' = Members(Tail(poll.queue))
  BY <1>4 DEF Members
<1> QED
  BY <1>4, <1>5, <1>6, <1>7 DEF QueueInv

LEMMA InitPool == Init => PoolInv
<1> SUFFICES ASSUME Init PROVE PoolInv
  OBVIOUS
<1>1. 0 \in Nodes /\ 1 \in 1 .. MaxHeight /\ 0 \in 0 .. Cooldown
  BY PoolBounds DEF Nodes
<1>2. [NoMomentum EXCEPT !.height = 1] \in Momentum
  BY <1>1, NoMomentumType DEF Momentum
<1>3. TypeOK
  BY <1>1, <1>2 DEF Init, TypeOK, Modes, Idle, Poll
<1> QED
  BY <1>3 DEF Init, PoolInv, QueueInv, Idle

\* The nodes change while they are asked: fewer stay ahead, nothing else moves.
LEMMA WorldKeeps ==
  ASSUME PoolInv, NEW i \in Nodes, Change(i) \/ Grow(i) \/ Fork(i)
  PROVE  PoolInv'
<1>1. UNCHANGED <<pool, cursor, poll>> /\ steady' = {j \in steady : Ahead(j)'}
  BY DEF Change, Grow, Fork, World
<1>2. mode' \in [Nodes -> Modes] /\ front' \in [Nodes -> Momentum]
  <2>1. CASE Change(i)
    BY <2>1 DEF PoolInv, TypeOK, Change
  <2>2. CASE Grow(i)
    <3>1. front[i].height \in 1 .. MaxHeight /\ front[i].height + 1 \in 1 .. MaxHeight
      BY <2>2, PoolBounds DEF PoolInv, TypeOK, Grow, Momentum
    <3> QED
      BY <2>2, <3>1 DEF PoolInv, TypeOK, Grow, Momentum
  <2>3. CASE Fork(i)
    BY <2>3 DEF PoolInv, TypeOK, Fork, Momentum
  <2> QED
    BY <2>1, <2>2, <2>3
<1>3. TypeOK'
  BY <1>1, <1>2 DEF PoolInv, TypeOK, pool
<1>4. \A j \in steady' : Ahead(j)'
  BY <1>1
<1>5. QueueInv'
  BY <1>1, <1>4 DEF PoolInv, QueueInv, Candidate, Members
<1> QED
  BY <1>3, <1>5 DEF PoolInv

LEMMA TickKeeps == ASSUME PoolInv, Tick PROVE PoolInv'
<1>1. cooling' \in [Nodes -> 0 .. Cooldown]
  BY PoolBounds DEF PoolInv, TypeOK, Tick
<1>2. TypeOK'
  BY <1>1 DEF PoolInv, TypeOK, Tick, world
<1>3. QueueInv'
  BY DEF PoolInv, QueueInv, Tick, Candidate, Members, Ahead, world
<1> QED
  BY <1>2, <1>3 DEF PoolInv

LEMMA PollStartKeeps == ASSUME PoolInv, PollStart PROVE PoolInv'
<1>1. Candidates \in Seq(Nodes) /\ (Len(Candidates) = 1) \in BOOLEAN
  BY EveryNodeIsAsked DEF PoolInv
<1>2. <<>> \in Seq(Nodes)
  OBVIOUS
<1>3. poll' \in Poll /\ poll'.pc = "frontier" /\ poll'.asked = poll'.queue
  BY <1>1, <1>2 DEF PollStart, Poll
<1>4. TypeOK'
  BY <1>3 DEF PoolInv, TypeOK, PollStart, world, pool
<1>5. \A j \in steady' : Ahead(j)'
  BY DEF PollStart, Ahead, world
<1>6. QueueInv'
  BY <1>3, <1>5 DEF QueueInv, Members
<1> QED
  BY <1>4, <1>6 DEF PoolInv

\* Giving a candidate up, whichever way.
LEMMA GivenUpKeeps ==
  ASSUME PoolInv, poll.pc # "idle", poll.queue # <<>>, Candidate \notin steady,
         Failed \/ Deferred, UNCHANGED <<world, cursor, steady>>
  PROVE  PoolInv'
<1>1. poll' \in Poll /\ QueueInv'
  BY GivenUp DEF Failed, Deferred
<1>2. cooling' \in [Nodes -> 0 .. Cooldown] /\ active' = active
  BY PoolBounds DEF PoolInv, TypeOK, Failed, Deferred
<1> QED
  BY <1>1, <1>2 DEF PoolInv, TypeOK, world

LEMMA FrontierKeeps == ASSUME PoolInv, Frontier PROVE PoolInv'
<1>1. poll \in Poll /\ poll.pc = "frontier" /\ poll.queue # <<>>
      /\ UNCHANGED <<world, cursor, steady>>
  BY DEF PoolInv, TypeOK, Frontier
<1>2. Candidate \in Nodes
  BY <1>1, PollFields, TailDropsHead DEF Candidate
<1>3. CASE mode[Candidate] = "down"
  <2>1. Candidate \notin steady
    BY <1>3 DEF PoolInv, QueueInv, Ahead
  <2>2. Failed
    BY <1>3 DEF Frontier
  <2> QED
    BY <1>1, <2>1, <2>2, GivenUpKeeps
<1>4. CASE mode[Candidate] # "down"
  <2>1. front[Candidate] \in Momentum
    BY <1>2 DEF PoolInv, TypeOK
  <2>2. /\ poll' = [pc |-> "validate", queue |-> poll.queue, asked |-> poll.asked,
                    retry |-> poll.retry, reorg |-> poll.reorg,
                    stale |-> poll.stale, syncing |-> poll.syncing,
                    momentum |-> front[Candidate]]
        /\ UNCHANGED pool
    BY <1>4 DEF Frontier
  <2>3. poll' \in Poll
    BY <1>1, <2>1, <2>2, PollFields DEF Poll
  <2>4. TypeOK'
    BY <1>1, <2>2, <2>3 DEF PoolInv, TypeOK, world, pool
  <2>5. Candidate \in steady => front[Candidate].height > cursor.height
    BY DEF PoolInv, QueueInv, Ahead
  <2>6. QueueInv'
    BY <1>1, <2>2, <2>5 DEF PoolInv, QueueInv, Candidate, Members, Ahead, world
  <2> QED
    BY <2>4, <2>6 DEF PoolInv
<1> QED
  BY <1>3, <1>4

LEMMA ValidateKeeps == ASSUME PoolInv, Validate PROVE PoolInv'
<1>1. poll \in Poll /\ poll.pc = "validate" /\ poll.queue # <<>>
      /\ UNCHANGED <<world, cursor, steady>>
  BY DEF PoolInv, TypeOK, QueueInv, Validate
<1>2. Candidate \in Nodes
  BY <1>1, PollFields, TailDropsHead DEF Candidate
<1>3. mode[Candidate] # "up" => Candidate \notin steady
  BY DEF PoolInv, QueueInv, Ahead
<1>4. mode[Candidate] \in Modes
  BY <1>2 DEF PoolInv, TypeOK
<1>5. CASE Judge /\ UNCHANGED pool
  <2>1. CASE poll.momentum.height > cursor.height
    <3>1. poll' = [poll EXCEPT !.pc = "collect"]
      BY <1>5, <2>1 DEF Judge
    <3>2. poll' \in Poll /\ poll'.pc = "collect" /\ poll'.queue = poll.queue
          /\ poll'.asked = poll.asked
      BY <1>1, <3>1 DEF Poll
    <3>3. TypeOK'
      BY <1>1, <1>5, <3>2 DEF PoolInv, TypeOK, world, pool
    <3>4. QueueInv'
      BY <1>1, <3>2 DEF PoolInv, QueueInv, Members, Ahead, world
    <3> QED
      BY <3>3, <3>4 DEF PoolInv
  <2>2. CASE ~(poll.momentum.height > cursor.height)
    <3>1. Candidate \notin steady
      BY <1>1, <2>2 DEF PoolInv, QueueInv
    <3>2. PICK p \in {[poll EXCEPT !.reorg = Append(@, Candidate)],
                      [poll EXCEPT !.stale = Append(@, Candidate)]} : NextCandidate(p)
      BY <1>5, <2>2 DEF Judge
    <3>3. poll' \in Poll /\ QueueInv'
      BY <1>1, <3>1, <3>2, GivenUp
    <3>4. TypeOK'
      BY <1>1, <1>5, <3>3 DEF PoolInv, TypeOK, world, pool
    <3> QED
      BY <3>3, <3>4 DEF PoolInv
  <2> QED
    BY <2>1, <2>2
<1>6. CASE mode[Candidate] # "up" /\ (Failed \/ Deferred)
  BY <1>1, <1>3, <1>6, GivenUpKeeps
<1>7. CASE mode[Candidate] # "up" /\ poll' = [poll EXCEPT !.pc = "waiting"]
           /\ UNCHANGED pool
  <2>1. poll' \in Poll /\ poll'.pc = "waiting" /\ poll'.queue = poll.queue
        /\ poll'.asked = poll.asked
    BY <1>1, <1>7 DEF Poll
  <2>2. TypeOK'
    BY <1>1, <1>7, <2>1 DEF PoolInv, TypeOK, world, pool
  <2>3. QueueInv'
    BY <1>1, <1>3, <1>7, <2>1 DEF PoolInv, QueueInv, Members, Candidate, Ahead, world
  <2> QED
    BY <2>2, <2>3 DEF PoolInv
<1>8. \/ Judge /\ UNCHANGED pool
      \/ mode[Candidate] # "up" /\ (Failed \/ Deferred)
      \/ mode[Candidate] # "up" /\ poll' = [poll EXCEPT !.pc = "waiting"] /\ UNCHANGED pool
  <2>1. poll.retry \in BOOLEAN
    BY <1>1, PollFields
  <2>2. RequireSync \in BOOLEAN
    BY PoolBounds
  <2> QED
    BY <1>4, <2>1, <2>2 DEF Validate, Modes
<1> QED
  BY <1>5, <1>6, <1>7, <1>8

LEMMA RecoveredKeeps == ASSUME PoolInv, Recovered PROVE PoolInv'
<1>1. poll \in Poll /\ poll.pc = "waiting" /\ UNCHANGED <<world, pool, cursor, steady>>
  BY DEF PoolInv, TypeOK, Recovered
<1>2. poll' \in Poll /\ poll'.pc = "frontier" /\ poll'.queue = poll.queue
      /\ poll'.asked = poll.asked
  BY <1>1 DEF Poll, Recovered
<1>3. TypeOK'
  BY <1>1, <1>2 DEF PoolInv, TypeOK, world, pool
<1>4. QueueInv'
  BY <1>1, <1>2 DEF PoolInv, QueueInv, Members, Ahead, world
<1> QED
  BY <1>3, <1>4 DEF PoolInv

LEMMA WaitedForNothingKeeps == ASSUME PoolInv, WaitedForNothing PROVE PoolInv'
<1>1. /\ poll.pc = "waiting" /\ poll.queue # <<>> /\ Candidate \notin steady
      /\ Failed \/ Deferred
      /\ UNCHANGED <<world, cursor, steady>>
  BY DEF PoolInv, QueueInv, WaitedForNothing
<1> QED
  BY <1>1, GivenUpKeeps

LEMMA CollectKeeps == ASSUME PoolInv, Collect PROVE PoolInv'
<1>1. poll \in Poll /\ poll.pc = "collect" /\ poll.queue # <<>> /\ UNCHANGED world
  BY DEF PoolInv, TypeOK, QueueInv, Collect
<1>2. Candidate \in Nodes /\ poll.momentum \in Momentum
  BY <1>1, PollFields, TailDropsHead DEF Candidate
<1>3. CASE /\ active' = Candidate
           /\ cooling' = [cooling EXCEPT ![Candidate] = 0]
           /\ cursor' = poll.momentum
           /\ poll' = Idle
           /\ steady' = {}
  <2>1. TypeOK'
    BY <1>1, <1>2, <1>3, PoolBounds DEF PoolInv, TypeOK, Idle, Poll, world
  <2>2. QueueInv'
    BY <1>3 DEF QueueInv, Idle
  <2> QED
    BY <2>1, <2>2 DEF PoolInv
<1>4. CASE /\ mode[Candidate] \in {"unready", "down"}
           /\ Failed
           /\ UNCHANGED <<cursor, steady>>
  <2>1. Candidate \notin steady
    BY <1>4 DEF PoolInv, QueueInv, Ahead
  <2> QED
    BY <1>1, <1>4, <2>1, GivenUpKeeps
<1> QED
  BY <1>3, <1>4 DEF Collect

LEMMA ConcludeKeeps == ASSUME PoolInv, Conclude PROVE PoolInv'
<1>1. poll \in Poll /\ poll.pc = "frontier" /\ poll' = Idle /\ steady' = {}
      /\ UNCHANGED <<world, cursor>>
  BY DEF PoolInv, TypeOK, Conclude, Asked
<1>2. active' \in Nodes /\ cooling' \in [Nodes -> 0 .. Cooldown]
  <2>1. CASE Verdict \in {"reorg", "stale"}
    <3>1. poll.reorg # <<>> \/ poll.stale # <<>>
      BY <2>1 DEF Verdict
    <3>2. Chosen \in Nodes
      BY <1>1, <3>1, PollFields, TailDropsHead DEF Chosen
    <3> QED
      BY <2>1, <3>2, PoolBounds DEF Conclude, PoolInv, TypeOK
  <2>2. CASE Verdict \notin {"reorg", "stale"}
    BY <2>2 DEF Conclude, PoolInv, TypeOK, pool
  <2> QED
    BY <2>1, <2>2
<1>3. TypeOK'
  BY <1>1, <1>2 DEF PoolInv, TypeOK, Idle, Poll, world
<1>4. QueueInv'
  BY <1>1 DEF QueueInv, Idle
<1> QED
  BY <1>3, <1>4 DEF PoolInv
-----------------------------------------------------------------------------
(***************************************************************************)
(* Theorems                                                                *)
(***************************************************************************)

LEMMA PoolSafe == Spec => []PoolInv
<1>1. PoolInv /\ [Next]_vars => PoolInv'
  <2> SUFFICES ASSUME PoolInv, [Next]_vars
               PROVE  PoolInv'
    OBVIOUS
  <2>1. CASE \E i \in Nodes : Change(i) \/ Grow(i) \/ Fork(i)
    BY <2>1, WorldKeeps
  <2>2. CASE Tick
    BY <2>2, TickKeeps
  <2>3. CASE PollStart
    BY <2>3, PollStartKeeps
  <2>4. CASE Frontier
    BY <2>4, FrontierKeeps
  <2>5. CASE Validate
    BY <2>5, ValidateKeeps
  <2>6. CASE Recovered
    BY <2>6, RecoveredKeeps
  <2>7. CASE WaitedForNothing
    BY <2>7, WaitedForNothingKeeps
  <2>8. CASE Collect
    BY <2>8, CollectKeeps
  <2>9. CASE Conclude
    BY <2>9, ConcludeKeeps
  <2>10. CASE UNCHANGED vars
    BY <2>10 DEF PoolInv, TypeOK, QueueInv, Candidate, Members, Ahead, vars, world, pool
  <2> QED
    BY <2>1, <2>2, <2>3, <2>4, <2>5, <2>6, <2>7, <2>8, <2>9, <2>10 DEF Next, PollStep
<1> QED
  BY InitPool, <1>1, PTL DEF Spec

\* The variables of the pool keep their types, and a poll always has a candidate
\* to go to: the list it starts from is never empty, a verdict names a node.
THEOREM TypeCorrect == Spec => []TypeOK
BY PoolSafe, PTL DEF PoolInv

\* A poll that ends without a snapshot has passed over no node that was up and
\* ahead of the cursor from its beginning to its end, for any number of nodes and
\* whatever they do between two RPCs.
THEOREM NoFreshNodeIsPassedOver == Spec => []FailsOver
<1>1. PoolInv => FailsOver
  <2> SUFFICES ASSUME PoolInv, Asked
               PROVE  steady \cap Members(poll.asked) = {}
    BY DEF FailsOver
  <2>1. poll.pc = "frontier" /\ poll.queue = <<>>
    BY DEF Asked
  <2>2. steady \cap Members(poll.asked) \subseteq Members(<<>>)
    BY <2>1 DEF PoolInv, QueueInv
  <2>3. Members(<<>>) = {}
    BY DEF Members
  <2> QED
    BY <2>2, <2>3
<1> QED
  BY <1>1, PoolSafe, PTL

\* A poll asks every node that is not cooling down, and the active one in any
\* case: no order of failures leaves it without a candidate, and none is left out.
THEOREM PollAsksEveryNode ==
  Spec => [][PollStart => /\ poll'.asked # <<>>
                          /\ Members(poll'.asked) = Available \cup {active}]_vars
<1>1. ASSUME PoolInv, PollStart
      PROVE  /\ poll'.asked # <<>>
             /\ Members(poll'.asked) = Available \cup {active}
  <2>1. poll'.asked = Candidates
    BY <1>1 DEF PollStart
  <2> QED
    BY <1>1, <2>1, EveryNodeIsAsked DEF PoolInv
<1> QED
  BY <1>1, PoolSafe, PTL
=============================================================================
