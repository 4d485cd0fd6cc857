------------------------------ MODULE Collector ------------------------------
(***************************************************************************)
(* Collector.run_once and the loop around it: one poll after the other,    *)
(* each a series of separate transactions, on top of Observation.  The     *)
(* process may stop between any two transactions and any database call     *)
(* may raise; the network grows, forks and is read through nodes that may  *)
(* lag.  Delivery of the notifications is the module Outbox.               *)
(***************************************************************************)
EXTENDS Observation, Sequences

CONSTANTS
  Listings,   \* what a momentum may say: sets of owners
  Forks,      \* hashes a momentum of one height may have
  MaxHeight,  \* bound: momentums
  MaxStale,   \* bound: stale_count
  Grace,      \* stale_grace_runs
  Retention,  \* snapshot_retention_days
  MaxGap,     \* bound: days without a new snapshot
  MaxFaults   \* bound: crashes and database errors

ASSUME CollectorBounds ==
  /\ Listings \subseteq SUBSET Owners /\ Listings # {} /\ Forks # {} /\ EpochNumbers # {}
  /\ MaxHeight \in Nat \ {0} /\ MaxStale \in Nat /\ Grace \in Nat \ {0}
  /\ Retention \in Nat \ {0} /\ MaxGap \in Nat /\ MaxFaults \in Nat

VARIABLES
  chain,      \* the network: one momentum per height
  node,       \* the row of node_state
  poll,       \* status of the latest row of poll_runs
  snapshots,  \* age in days of the days that have pillar_snapshots
  run,        \* where run_once is, and its local variables
  budget,     \* faults that may still come
  committed,  \* history: height of the latest committed observation
  told,       \* history: what a subscriber to every notification believes
  gap         \* history: once, no stored snapshot was younger than the retention

cvars == <<vars, chain, node, poll, snapshots, run, budget, committed, told, gap>>

tables == <<vars, snapshots, committed, told, gap>>

Momentum == [listed : Listings, epoch : EpochNumbers, fork : Forks]

\* hash of the height that node_state remembers; height 0 stands for NULL
NodeRow == [height : 0 .. MaxHeight, fork : Forks, stale : 0 .. MaxStale,
            health : {"unknown", "healthy", "stale", "reorg", "error"}]

Idle == [pc |-> "idle"]

\* The hash of a momentum that has not been replaced.
First == CHOOSE f \in Forks : TRUE

\* What a poll holds after get_node_state, and after the answer of a node; an
\* exception may come with any of it.
Failing == {"failing", "failed marked"}
Answered == {"success", "recorded", "advanced", "dispatching",
             "stale", "stale marked", "reorg", "reorg marked"}
Run ==
  [pc : {"idle", "begun"} \cup Failing]
  \cup [pc : {"prepared"} \cup Failing, previous : NodeRow, bootstrap : BOOLEAN]
  \cup [pc : Answered \cup Failing, previous : NodeRow, bootstrap : BOOLEAN,
        height : 1 .. MaxHeight, momentum : Momentum]

CollectorTypeOK ==
  /\ chain \in Seq(Momentum) /\ Len(chain) \in 1 .. MaxHeight
  /\ node \in NodeRow
  /\ poll \in {"none", "running", "success", "stale", "reorg", "failed"}
  /\ run \in Run
  /\ snapshots \subseteq 0 .. Retention + 1
  /\ committed \in 0 .. MaxHeight
  /\ budget \in 0 .. MaxFaults
  /\ gap \in BOOLEAN

CInit ==
  /\ Init
  /\ \E l \in Listings :
       chain = <<[listed |-> l, epoch |-> Min(EpochNumbers), fork |-> First]>>
  /\ node = [height |-> 0, fork |-> First, stale |-> 0, health |-> "unknown"]
  /\ poll = "none"
  /\ snapshots = {}
  /\ run = Idle
  /\ budget = MaxFaults
  /\ committed = 0
  /\ told = view
  /\ gap = FALSE
-----------------------------------------------------------------------------
(***************************************************************************)
(* The network and the calendar                                            *)
(***************************************************************************)

Tip == chain[Len(chain)]

Grow ==
  /\ Len(chain) < MaxHeight
  /\ \E m \in Momentum :
       /\ m.epoch \in Tip.epoch .. Tip.epoch + 1
       /\ m.fork = First
       /\ chain' = Append(chain, m)
  /\ UNCHANGED <<tables, node, poll, run, budget>>

\* The newest momentum is replaced by one with another hash.
Fork ==
  /\ \E f \in Forks \ {Tip.fork} : chain' = [chain EXCEPT ![Len(chain)].fork = f]
  /\ UNCHANGED <<tables, node, poll, run, budget>>

\* What an outage longer than the retention, or an empty listing, may leave.
NoteGap == gap' = (gap \/ \A a \in snapshots' : a > Retention)

\* Midnight: every stored snapshot gets a day older.
Day ==
  /\ snapshots # {}
  /\ Min(snapshots) < MaxGap
  /\ snapshots' = {Min({a + 1, Retention + 1}) : a \in snapshots}
  /\ NoteGap
  /\ UNCHANGED <<vars, committed, told, chain, node, poll, run, budget>>

\* Mutant of Prune: the last day that is kept goes, too.
PruneEarly ==
  /\ run.pc = "idle"
  /\ snapshots \cap {Retention, Retention + 1} # {}
  /\ snapshots' = snapshots \ {Retention, Retention + 1}
  /\ UNCHANGED <<vars, committed, told, gap, chain, node, poll, run, budget>>

\* run_maintenance_if_due between two polls: days behind the retention go.
Prune ==
  /\ run.pc = "idle"
  /\ snapshots \cap {Retention + 1} # {}
  /\ snapshots' = snapshots \ {Retention + 1}
  /\ UNCHANGED <<vars, committed, told, gap, chain, node, poll, run, budget>>
-----------------------------------------------------------------------------
(***************************************************************************)
(* run_once                                                                *)
(***************************************************************************)

Goto(step) == run' = [run EXCEPT !.pc = step]

\* begin_poll
Begin ==
  /\ run.pc = "idle"
  /\ poll' = "running"
  /\ run' = [pc |-> "begun"]
  /\ UNCHANGED <<tables, chain, node, budget>>

\* get_node_state and get_overview.  Nothing else writes those rows while
\* run_once is under way, so one step reads both.
Prepare ==
  /\ run.pc = "begun"
  /\ run' = [pc |-> "prepared", previous |-> node, bootstrap |-> snapshots = {}]
  /\ UNCHANGED <<tables, chain, node, poll, budget>>

\* Mutant of Verdict: the next height does not count as newer.
VerdictSkips(h) ==
  IF run.previous.height = 0 \/ h > run.previous.height + 1 THEN "success"
  ELSE IF h >= run.previous.height THEN "stale" ELSE "reorg"

\* What collect_snapshot makes of a node that is not synchronising and whose newest
\* momentum has height h.
Verdict(h) ==
  IF run.previous.height = 0 \/ h > run.previous.height THEN "success"
  ELSE IF h = run.previous.height /\ chain[h].fork = run.previous.fork
       THEN "stale" ELSE "reorg"

Answer(h, status) ==
  /\ run.pc = "prepared"
  /\ status = "stale" => run.previous.stale < MaxStale
  /\ run' = [pc |-> status, previous |-> run.previous,
             bootstrap |-> run.bootstrap, height |-> h, momentum |-> chain[h]]
  /\ UNCHANGED <<tables, chain, node, poll, budget>>

\* collect_snapshot and update_poll_momentum.  An empty listing is NodeNotReadyError
\* unless the setting believes it.
Collect(h) ==
  /\ run.pc = "prepared"
  /\ Verdict(h) = "success" => chain[h].listed # {} \/ AllowEmpty
  /\ Answer(h, Verdict(h))

\* All that answered are synchronising: the poll is deferred as stale before the
\* momentum is compared with anything.
NodeSyncing(h) == Answer(h, "stale")

\* No node answers, or an RPC result is not usable.
CollectFails ==
  /\ run.pc = "prepared"
  /\ Goto("failing")
  /\ UNCHANGED <<tables, chain, node, poll, budget>>

ReadingOf(m) ==
  [o \in m.listed |->
    [name |-> CHOOSE n \in Names : TRUE, shares |-> CHOOSE s \in Shares : TRUE,
     produced |-> 0, expected |-> 0]]

\* Mutant of Record: a first poll is recognised by the empty node_state.
RecordBootstrapByNodeState ==
  /\ run.pc = "success"
  /\ Observe(ReadingOf(run.momentum), run.momentum.epoch, {})
  /\ told' = IF epochs = {} THEN view'
             ELSE IF run.previous.height = 0 THEN told
             ELSE Follow(told, events', run.momentum.epoch)
  /\ snapshots' = IF run.momentum.listed = {} THEN snapshots ELSE snapshots \cup {0}
  /\ NoteGap
  /\ committed' = run.height
  /\ Goto("recorded")
  /\ UNCHANGED <<chain, node, poll, budget>>

\* record_observation: events, notifications and a snapshot of each listed pillar in
\* one transaction.  A bootstrap poll has no channels; a subscriber starts at the very
\* first one.
Record ==
  /\ run.pc = "success"
  /\ Observe(ReadingOf(run.momentum), run.momentum.epoch, {})
  /\ told' = IF epochs = {} THEN view'
             ELSE IF run.bootstrap THEN told
             ELSE Follow(told, events', run.momentum.epoch)
  /\ snapshots' = IF run.momentum.listed = {} THEN snapshots ELSE snapshots \cup {0}
  /\ NoteGap
  /\ committed' = run.height
  /\ Goto("recorded")
  /\ UNCHANGED <<chain, node, poll, budget>>

\* Mutant of Advance: the stale counter is not reset.
AdvanceKeepsStale ==
  /\ run.pc = "recorded"
  /\ node' = [node EXCEPT !.height = run.height, !.fork = run.momentum.fork,
                          !.health = "healthy"]
  /\ Goto("advanced")
  /\ UNCHANGED <<tables, chain, poll, budget>>

\* update_node_state after the observation.
Advance ==
  /\ run.pc = "recorded"
  /\ node' = [height |-> run.height, fork |-> run.momentum.fork, stale |-> 0,
              health |-> "healthy"]
  /\ Goto("advanced")
  /\ UNCHANGED <<tables, chain, poll, budget>>

\* finish_poll(success); the pinned message and dispatch_pending follow.
Succeed ==
  /\ run.pc = "advanced"
  /\ poll' = "success"
  /\ Goto("dispatching")
  /\ UNCHANGED <<tables, chain, node, budget>>

\* dispatch_pending returns, whatever became of the messages.
Dispatched ==
  /\ run.pc = "dispatching"
  /\ run' = Idle
  /\ UNCHANGED <<tables, chain, node, poll, budget>>

\* Mutant of MarkStale: the height of the answer is stored.
MarkStaleForgets ==
  /\ run.pc = "stale"
  /\ node' = [node EXCEPT !.stale = run.previous.stale + 1, !.height = 0,
                !.health = IF run.previous.stale + 1 >= Grace THEN "stale" ELSE "healthy"]
  /\ Goto("stale marked")
  /\ UNCHANGED <<tables, chain, poll, budget>>

\* _mark_stale: update_node_state with everything but health and count as read.
MarkStale ==
  /\ run.pc = "stale"
  /\ node' = [run.previous EXCEPT !.stale = @ + 1,
                !.health = IF run.previous.stale + 1 >= Grace THEN "stale" ELSE "healthy"]
  /\ Goto("stale marked")
  /\ UNCHANGED <<tables, chain, poll, budget>>

\* _mark_reorg
MarkReorg ==
  /\ run.pc = "reorg"
  /\ node' = [run.previous EXCEPT !.health = "reorg"]
  /\ Goto("reorg marked")
  /\ UNCHANGED <<tables, chain, poll, budget>>

\* finish_poll(stale) and finish_poll(reorg)
Close(marked, status) ==
  /\ run.pc = marked
  /\ poll' = status
  /\ run' = Idle
  /\ UNCHANGED <<tables, chain, node, budget>>

CloseStale == Close("stale marked", "stale")
CloseReorg == Close("reorg marked", "reorg")

\* _mark_failed: finish_poll, then update_node_state of the row as it is now.
MarkFailed ==
  /\ run.pc = "failing"
  /\ poll' = "failed"
  /\ Goto("failed marked")
  /\ UNCHANGED <<tables, chain, node, budget>>

HealthError ==
  /\ run.pc = "failed marked"
  /\ node' = [node EXCEPT !.health = "error"]
  /\ run' = Idle
  /\ UNCHANGED <<tables, chain, poll, budget>>

\* A database call raises inside the try block, begin_poll's excepted; inside
\* _mark_failed the exception leaves run_once and run_forever goes on.
DatabaseRaises ==
  /\ run.pc # "idle"
  /\ budget > 0
  /\ budget' = budget - 1
  /\ IF run.pc \in Failing THEN run' = Idle ELSE Goto("failing")
  /\ UNCHANGED <<tables, chain, node, poll>>

\* The process stops and is started again.
Crash ==
  /\ run.pc # "idle"
  /\ budget > 0
  /\ budget' = budget - 1
  /\ run' = Idle
  /\ UNCHANGED <<tables, chain, node, poll>>

Step ==
  \/ Begin \/ Prepare
  \/ \E h \in 1 .. Len(chain) : Collect(h) \/ NodeSyncing(h)
  \/ CollectFails
  \/ Record \/ Advance \/ Succeed \/ Dispatched
  \/ MarkStale \/ CloseStale \/ MarkReorg \/ CloseReorg
  \/ MarkFailed \/ HealthError

CNext == Grow \/ Fork \/ Day \/ Prune \/ Step \/ DatabaseRaises \/ Crash

CSpec == CInit /\ [][CNext]_cvars

\* run_forever never stops polling, and again and again the node that answers
\* is up to date.
CFairness == WF_cvars(Step) /\ SF_cvars(Collect(Len(chain)))

CFairSpec == CSpec /\ CFairness
-----------------------------------------------------------------------------
(***************************************************************************)
(* Properties                                                              *)
(***************************************************************************)

\* node_state is the cursor of the collector: it never goes back and never gets
\* ahead of the stored observation; and while no fault has left it behind, an
\* older momentum never overwrites a newer observation, whatever nodes answer.
CursorIsSafe ==
  [][/\ node'.height >= node.height
     /\ node'.height <= committed'
     /\ budget = MaxFaults => committed' >= committed]_cvars

\* Only the very first poll is silent, as SETUP.md has it, though "first" is read off the
\* snapshots, which maintenance removes, and a crash after the observation and before
\* the cursor makes the next poll record again: whoever follows the notifications knows
\* what the tables know, unless an outage outlasted the retention or a first listing
\* was empty.
SubscribersKeepUp == ~gap => told = view

\* A closed row of poll_runs agrees with node_state, which is written before
\* it, until the next poll writes: readers of both never see a success with an
\* old height, or a stale poll that was not counted.
PollRowAgrees ==
  run.pc \in {"idle", "begun", "prepared", "dispatching"} =>
    /\ poll = "success" => /\ node.health = "healthy"
                           /\ node.stale = 0
                           /\ node.height = committed
    /\ poll = "stale" => /\ node.stale > 0
                         /\ (node.health = "stale") <=> (node.stale >= Grace)
    /\ poll = "reorg" => node.health = "reorg"

\* Whatever the network reaches is recorded in the end, through crashes,
\* errors, lagging nodes and forks.
CatchesUp ==
  \A h \in 1 .. MaxHeight : Len(chain) >= h ~> committed >= h
=============================================================================
