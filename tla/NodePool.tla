------------------------------ MODULE NodePool ------------------------------
(***************************************************************************)
(* NodeRpcPool: the collector's choice of a node (utils/node_rpc_pool.py). *)
(* A poll asks one candidate after the other; a candidate is several RPCs, *)
(* and the nodes fail, recover, grow and fork between any two of them.     *)
(* The caller remembers the momentum of the last success and asks for a    *)
(* newer one.                                                              *)
(***************************************************************************)
EXTENDS Naturals, Sequences, FiniteSets

CONSTANTS
  Last,        \* index of the last node; 0 is the primary
  Forks,       \* hashes a momentum of one height may have
  Cooldown,    \* failure_cooldown_seconds, in ticks
  RequireSync, \* node_require_sync_info
  MaxHeight    \* bound: momentums

ASSUME PoolBounds ==
  /\ Last \in Nat /\ Cooldown \in Nat
  /\ MaxHeight \in Nat \ {0} /\ Forks # {}
  /\ RequireSync \in BOOLEAN

Nodes == 0 .. Last

VARIABLES
  mode,    \* what each node is up to
  front,   \* newest momentum of each node
  cooling, \* _unavailable_until - now, in ticks
  active,  \* active_index
  cursor,  \* previous_height and previous_hash; height 0 is None
  poll,    \* local variables of collect_snapshot
  steady   \* history: nodes up and ahead of the cursor since the poll began

world == <<mode, front>>
pool == <<cooling, active>>
vars == <<world, pool, cursor, poll, steady>>

\* unready: an old frontier, another sync state, a height below its target, an
\* empty list of pillars, or data that cannot be used.  down: no answer.
Modes == {"up", "syncing", "unready", "down"}
Momentum == [height : 1 .. MaxHeight, fork : Forks]
NoMomentum == [height |-> 0, fork |-> CHOOSE f \in Forks : TRUE]

Idle == [pc |-> "idle"]

\* What collect_snapshot holds: the momentum of a candidate after its frontier.
Poll ==
  [pc : {"idle"}]
  \cup [pc : {"frontier"}, queue : Seq(Nodes), asked : Seq(Nodes), retry : BOOLEAN,
        reorg : Seq(Nodes), stale : Seq(Nodes), syncing : Seq(Nodes)]
  \cup [pc : {"frontier", "validate", "waiting", "collect"}, queue : Seq(Nodes),
        asked : Seq(Nodes), retry : BOOLEAN, reorg : Seq(Nodes), stale : Seq(Nodes),
        syncing : Seq(Nodes), momentum : Momentum]

TypeOK ==
  /\ mode \in [Nodes -> Modes]
  /\ front \in [Nodes -> Momentum]
  /\ cooling \in [Nodes -> 0 .. Cooldown]
  /\ active \in Nodes
  /\ cursor \in Momentum \cup {NoMomentum}
  /\ poll \in Poll
  /\ steady \subseteq Nodes

Init ==
  /\ mode = [i \in Nodes |-> "up"]
  /\ front = [i \in Nodes |-> [NoMomentum EXCEPT !.height = 1]]
  /\ cooling = [i \in Nodes |-> 0]
  /\ active = 0
  /\ cursor = NoMomentum
  /\ poll = Idle
  /\ steady = {}
-----------------------------------------------------------------------------
(***************************************************************************)
(* The nodes and the clock                                                 *)
(***************************************************************************)

Ahead(i) == mode[i] = "up" /\ front[i].height > cursor.height

\* What one node does; the others stay.
World(i) ==
  /\ UNCHANGED <<pool, cursor, poll>>
  /\ steady' = {j \in steady : Ahead(j)'}

Change(i) ==
  /\ \E m \in Modes \ {mode[i]} : mode' = [mode EXCEPT ![i] = m]
  /\ UNCHANGED front
  /\ World(i)

Grow(i) ==
  /\ mode[i] # "down"
  /\ front[i].height < MaxHeight
  /\ \E f \in Forks :
       front' = [front EXCEPT ![i] = [height |-> @.height + 1, fork |-> f]]
  /\ UNCHANGED mode
  /\ World(i)

\* The newest momentum is replaced by one with another hash.
Fork(i) ==
  /\ \E f \in Forks \ {front[i].fork} : front' = [front EXCEPT ![i].fork = f]
  /\ UNCHANGED mode
  /\ World(i)

Tick ==
  /\ \E i \in Nodes : cooling[i] > 0
  /\ cooling' = [i \in Nodes |-> IF cooling[i] > 0 THEN cooling[i] - 1 ELSE 0]
  /\ UNCHANGED <<world, active, cursor, poll, steady>>
-----------------------------------------------------------------------------
(***************************************************************************)
(* _candidate_indices                                                      *)
(***************************************************************************)

Available ==
  LET rested == {i \in Nodes : cooling[i] = 0}
  IN  IF rested = {} THEN Nodes ELSE rested

Ascending(S) ==
  CHOOSE q \in [1 .. Cardinality(S) -> S] :
    \A j, k \in DOMAIN q : j < k => q[j] < q[k]

\* Mutant of Candidates: nobody but the preferred nodes.
CandidatesPreferredOnly ==
  IF active # 0 /\ 0 \in Available THEN <<0, active>> ELSE <<active>>

\* Mutant of Candidates: the primary is not put first.
CandidatesActiveFirst == <<active>> \o Ascending(Available \ {active})

\* The active node comes first even while it is cooling down.
Candidates ==
  LET preferred == IF active # 0 /\ 0 \in Available THEN <<0, active>>
                                                    ELSE <<active>>
  IN  preferred \o Ascending(Available \ {0, active})
-----------------------------------------------------------------------------
(***************************************************************************)
(* collect_snapshot                                                        *)
(***************************************************************************)

PollStart ==
  /\ poll.pc = "idle"
  /\ poll' = [pc |-> "frontier", queue |-> Candidates, asked |-> Candidates,
              retry |-> Len(Candidates) = 1,
              reorg |-> <<>>, stale |-> <<>>, syncing |-> <<>>]
  /\ steady' = {i \in Nodes : Ahead(i)}
  /\ UNCHANGED <<world, pool, cursor>>

Candidate == Head(poll.queue)

\* continue: the next candidate, with the lists as they are now.
NextCandidate(p) == poll' = [p EXCEPT !.pc = "frontier", !.queue = Tail(@)]

Failed ==
  /\ NextCandidate(poll)
  /\ cooling' = [cooling EXCEPT ![Candidate] = Cooldown]
  /\ UNCHANGED active

\* NodeSyncingError
Deferred ==
  /\ NextCandidate([poll EXCEPT !.syncing = Append(@, Candidate)])
  /\ cooling' = [cooling EXCEPT ![Candidate] = Cooldown]
  /\ UNCHANGED active

\* get_latest_momentum
Frontier ==
  /\ poll.pc = "frontier"
  /\ poll.queue # <<>>
  /\ IF mode[Candidate] = "down"
     THEN Failed
     ELSE /\ poll' = [pc |-> "validate", queue |-> poll.queue, asked |-> poll.asked,
                      retry |-> poll.retry, reorg |-> poll.reorg,
                      stale |-> poll.stale, syncing |-> poll.syncing,
                      momentum |-> front[Candidate]]
          /\ UNCHANGED pool
  /\ UNCHANGED <<world, cursor, steady>>

\* Mutant of Judge: a node with nothing new ends the poll.
JudgeAndStop ==
  IF poll.momentum.height > cursor.height
  THEN poll' = [poll EXCEPT !.pc = "collect"]
  ELSE poll' = [poll EXCEPT !.pc = "frontier", !.queue = <<>>,
                            !.stale = Append(@, Candidate)]

\* The comparison with what the caller has.
Judge ==
  IF poll.momentum.height > cursor.height
  THEN poll' = [poll EXCEPT !.pc = "collect"]
  ELSE IF poll.momentum = cursor
  THEN NextCandidate([poll EXCEPT !.stale = Append(@, Candidate)])
  ELSE NextCandidate([poll EXCEPT !.reorg = Append(@, Candidate)])

\* _validate_node.  When stats.syncInfo does not answer, the node counts as
\* valid unless the setting requires it.
Validate ==
  /\ poll.pc = "validate"
  /\ CASE mode[Candidate] = "up" \/ (mode[Candidate] = "down" /\ ~ RequireSync)
            -> Judge /\ UNCHANGED pool
       [] mode[Candidate] = "unready" \/ (mode[Candidate] = "down" /\ RequireSync)
            -> Failed
       [] mode[Candidate] = "syncing" /\ poll.retry
            -> /\ poll' = [poll EXCEPT !.pc = "waiting"]
               /\ UNCHANGED pool
       [] mode[Candidate] = "syncing" /\ ~ poll.retry
            -> Deferred
  /\ UNCHANGED <<world, cursor, steady>>

\* _wait_for_sync: another get_sync_info, and then the frontier once more.
Recovered ==
  /\ poll.pc = "waiting"
  /\ mode[Candidate] = "up"
  /\ poll' = [poll EXCEPT !.pc = "frontier", !.retry = FALSE]
  /\ UNCHANGED <<world, pool, cursor, steady>>

\* Another bad state, or the time is over before a good one was seen.
WaitedForNothing ==
  /\ poll.pc = "waiting"
  /\ Deferred \/ (mode[Candidate] = "unready" /\ Failed)
  /\ UNCHANGED <<world, cursor, steady>>

\* get_all_pillars, get_reward_epoch and, at a new epoch, get_reward_history;
\* the caller stores the momentum.
Collect ==
  /\ poll.pc = "collect"
  /\ \/ /\ mode[Candidate] # "down"
        /\ active' = Candidate
        /\ cooling' = [cooling EXCEPT ![Candidate] = 0]
        /\ cursor' = poll.momentum
        /\ poll' = Idle
        /\ steady' = {}
     \/ /\ mode[Candidate] \in {"unready", "down"}
        /\ Failed
        /\ UNCHANGED <<cursor, steady>>
  /\ UNCHANGED world

\* The status when no candidate has anything new.
Verdict ==
  IF poll.reorg # <<>> THEN "reorg"
  ELSE IF poll.stale # <<>> THEN "stale"
  ELSE IF poll.syncing # <<>> THEN "deferred" ELSE "failed"

\* All stale candidates have the height of the cursor, so max takes the first.
Chosen == Head(IF poll.reorg # <<>> THEN poll.reorg ELSE poll.stale)

Asked == poll.pc = "frontier" /\ poll.queue = <<>>

Conclude ==
  /\ Asked
  /\ IF Verdict \in {"reorg", "stale"}
     THEN /\ active' = Chosen
          /\ cooling' = [cooling EXCEPT ![Chosen] = 0]
     ELSE UNCHANGED pool
  /\ poll' = Idle
  /\ steady' = {}
  /\ UNCHANGED <<world, cursor>>

PollStep ==
  PollStart \/ Frontier \/ Validate \/ Recovered \/ WaitedForNothing
    \/ Collect \/ Conclude

Next ==
  \/ \E i \in Nodes : Change(i) \/ Grow(i) \/ Fork(i)
  \/ Tick
  \/ PollStep

Spec == Init /\ [][Next]_vars

\* The loop of the collector keeps polling, and the clock runs.
FairSpec == Spec /\ WF_vars(PollStep) /\ WF_vars(Tick)
-----------------------------------------------------------------------------
(***************************************************************************)
(* Properties                                                              *)
(***************************************************************************)

Members(q) == {q[k] : k \in DOMAIN q}

\* A poll that ends without a snapshot passed over no candidate that was up and
\* had something new all the while, whatever the others answered.
FailsOver == Asked => steady \cap Members(poll.asked) = {}

\* What a node has that stays up is collected in the end, through failures,
\* cooldowns and failovers of all the others.
FreshNodeIsUsed ==
  \A i \in Nodes, h \in 1 .. MaxHeight :
    <>[](mode[i] = "up" /\ front[i].height >= h) => <>(cursor.height >= h)

\* A primary that has recovered is asked first again, whichever node was active.
PrimaryIsPreferred ==
  <>[](mode[0] = "up") => <>[](poll.pc # "idle" => Head(poll.asked) = 0)
=============================================================================
