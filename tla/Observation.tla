---------------------------- MODULE Observation ----------------------------
(***************************************************************************)
(* Database.record_observation: one transaction that compares a snapshot   *)
(* of the network with the pillars and epochs tables, writes the events    *)
(* that tell the difference, and replaces the rows.  A follower that only  *)
(* reads the events (a subscriber, the event feed of the web application)  *)
(* is kept beside the tables as a history variable.                        *)
(***************************************************************************)
EXTENDS PillarStatus, FiniteSets, FiniteSetsExt

CONSTANTS
  Owners,        \* owner addresses
  Names,         \* pillar names
  Shares,        \* pairs of momentum and delegate reward percentages
  Counts,        \* values of producedMomentums and expectedMomentums
  AllowEmpty,    \* allow_empty_pillars: an empty list of pillars is believed
  EpochNumbers,  \* reward epochs the node reports
  MissedBound    \* bound: missed_momentums in the model

VARIABLES
  pillars,  \* the pillars table
  epochs,   \* the epoch numbers of the epochs table
  events,   \* the events of the latest observation
  view,     \* history: what the follower of the events believes
  quiet     \* history: observations since it was last seen producing, at most
            \* Threshold

vars == <<pillars, epochs, events, view, quiet>>

ASSUME EpochNumbersAssumption == EpochNumbers \subseteq Nat
ASSUME CountsAssumption == Counts \subseteq Nat
ASSUME NamesAssumption == Names # {} /\ Shares # {}

Reading == [name : Names, shares : Shares, produced : Counts, expected : Counts]
RowStatus == {"none", "active", "inactive", "dismantled"}

\* "none" is the status of an address that has no row.
Row == [present : BOOLEAN, status : RowStatus, name : Names, shares : Shares,
        produced : Nat, expected : Nat, missed : Nat, epoch : Nat]

NoRow ==
  [present |-> FALSE, status |-> "none", name |-> CHOOSE n \in Names : TRUE,
   shares |-> CHOOSE s \in Shares : TRUE,
   produced |-> 0, expected |-> 0, missed |-> 0, epoch |-> 0]

Stranger == [present |-> FALSE]

TypeOK ==
  /\ pillars \in [Owners -> Row]
  /\ \A o \in Owners :
       pillars[o].present <=> pillars[o].status \in {"active", "inactive"}
  /\ epochs \in SUBSET Nat
  /\ quiet \in [Owners -> Nat]

Init ==
  /\ pillars = [o \in Owners |-> NoRow]
  /\ epochs = {}
  /\ events = {}
  /\ view = [epoch |-> 0, pillar |-> [o \in Owners |-> Stranger]]
  /\ quiet = [o \in Owners |-> 0]
-----------------------------------------------------------------------------
(***************************************************************************)
(* The rows of one observation                                             *)
(***************************************************************************)

Upserted(prev, now, epoch) ==
  [present |-> TRUE, status |-> Status(prev, now, epoch),
   name |-> now.name, shares |-> now.shares,
   produced |-> now.produced, expected |-> now.expected,
   missed |-> MissedMomentums(prev, now, epoch), epoch |-> epoch]

Dismantled(prev) == [prev EXCEPT !.present = FALSE, !.status = "dismantled"]

\* reading is a function on the owners the node listed.
NewRow(o, reading, epoch) ==
  IF o \in DOMAIN reading THEN Upserted(pillars[o], reading[o], epoch)
  ELSE IF pillars[o].present THEN Dismantled(pillars[o])
       ELSE pillars[o]
-----------------------------------------------------------------------------
(***************************************************************************)
(* The events of one observation                                           *)
(***************************************************************************)

\* Mutant of EpochEvents: the newest epoch is compared with >=.
EpochEventsAgain(epoch) ==
  {[type |-> "epoch_available", epoch |-> e] :
     e \in {x \in {epoch} : epochs # {} /\ x >= Max(epochs)}}

EpochEvents(epoch) ==
  {[type |-> "epoch_available", epoch |-> e] :
     e \in {x \in {epoch} : epochs # {} /\ x > Max(epochs)}}

Created(reading) ==
  {[type |-> "pillar_created", owner |-> o, name |-> reading[o].name,
    shares |-> reading[o].shares, reappeared |-> pillars[o].status # "none"] :
     o \in {x \in DOMAIN reading : ~ pillars[x].present}}

\* Owners that were listed before and are listed now.
Known(reading) == {o \in DOMAIN reading : pillars[o].present}

Renamed(reading) ==
  {[type |-> "pillar_name_changed", owner |-> o, name |-> reading[o].name] :
     o \in {x \in Known(reading) : pillars[x].name # reading[x].name}}

Repriced(reading) ==
  {[type |-> "reward_shares_changed", owner |-> o, shares |-> reading[o].shares] :
     o \in {x \in Known(reading) : pillars[x].shares # reading[x].shares}}

\* Mutant of Turned: no event when the pillar comes back to active.
TurnedInactiveOnly(reading, epoch) ==
  {[type |-> "pillar_status", owner |-> o, status |-> "inactive"] :
     o \in {x \in Known(reading) :
              /\ pillars[x].status = "active"
              /\ Status(pillars[x], reading[x], epoch) = "inactive"}}

\* The two types pillar_active and pillar_inactive.
Turned(reading, epoch) ==
  {[type |-> "pillar_status", owner |-> o,
    status |-> Status(pillars[o], reading[o], epoch)] :
     o \in {x \in Known(reading) :
              pillars[x].status # Status(pillars[x], reading[x], epoch)}}

Vanished(reading) ==
  {[type |-> "pillar_dismantled", owner |-> o] :
     o \in {x \in Owners \ DOMAIN reading : pillars[x].present}}

EventsOf(reading, epoch) ==
  UNION {EpochEvents(epoch), Created(reading), Renamed(reading),
         Repriced(reading), Turned(reading, epoch), Vanished(reading)}
-----------------------------------------------------------------------------
(***************************************************************************)
(* The follower                                                            *)
(***************************************************************************)

FollowPillar(seen, about) ==
  LET only(type) == CHOOSE e \in about : e.type = type
      has(type) == \E e \in about : e.type = type
  IN  IF has("pillar_created")
      THEN [present |-> TRUE, name |-> only("pillar_created").name,
            shares |-> only("pillar_created").shares, status |-> "active"]
      ELSE IF has("pillar_dismantled") \/ ~ seen.present
      THEN Stranger
      ELSE [present |-> TRUE,
            name |-> IF has("pillar_name_changed")
                     THEN only("pillar_name_changed").name ELSE seen.name,
            shares |-> IF has("reward_shares_changed")
                       THEN only("reward_shares_changed").shares ELSE seen.shares,
            status |-> IF has("pillar_status")
                       THEN only("pillar_status").status ELSE seen.status]

\* The first observation has no epoch_available event: the follower starts there.
Follow(old, new, epoch) ==
  LET news == {e \in new : e.type = "epoch_available"}
  IN  [epoch |-> IF epochs = {} THEN epoch
                 ELSE IF news = {} THEN old.epoch
                 ELSE (CHOOSE e \in news : TRUE).epoch,
       pillar |-> [o \in Owners |->
                    FollowPillar(old.pillar[o],
                                 {e \in new \ news : e.owner = o})]]
-----------------------------------------------------------------------------
\* record_observation: reading from embedded.pillar.getAll, epoch the newest
\* reward epoch, history the older ones that are upserted with it.
Observe(reading, epoch, history) ==
  /\ pillars' = [o \in Owners |-> NewRow(o, reading, epoch)]
  /\ epochs' = epochs \cup {epoch} \cup history
  /\ events' = EventsOf(reading, epoch)
  /\ view' = Follow(view, events', epoch)
  /\ quiet' = [o \in Owners |->
                IF o \in DOMAIN reading /\ pillars[o].present
                     /\ ~ Produced(pillars[o], reading[o])
                THEN Min({quiet[o] + 1, Threshold}) ELSE 0]

\* The node reports any snapshot and any newest epoch (a lagging backup node
\* reports an older one); its reward history is asked for only at a new epoch.
Next ==
  \E listed \in SUBSET Owners, epoch \in EpochNumbers :
    \E reading \in [listed -> Reading] :
      /\ listed # {} \/ AllowEmpty
      /\ \A o \in listed :
           MissedMomentums(pillars[o], reading[o], epoch) <= MissedBound
      /\ IF \E e \in epochs : epoch <= e
         THEN Observe(reading, epoch, {})
         ELSE \E history \in SUBSET {e \in EpochNumbers : e < epoch} :
                Observe(reading, epoch, history)

Spec == Init /\ [][Next]_vars
-----------------------------------------------------------------------------
(***************************************************************************)
(* Properties                                                              *)
(***************************************************************************)

Public(row) ==
  IF row.present
  THEN [present |-> TRUE, name |-> row.name, shares |-> row.shares,
        status |-> row.status]
  ELSE Stranger

\* The events tell the whole difference: whoever applies them in order knows
\* the present pillars, their names, shares and status, and the newest epoch.
FeedRebuildsTable ==
  /\ \A o \in Owners : view.pillar[o] = Public(pillars[o])
  /\ epochs # {} => view.epoch = Max(epochs)

\* A follower never hears of an epoch twice, nor of an older one after a newer
\* one, even while the node's own answer goes back and forth.
EpochFeedIncreases ==
  [][\A e \in events' : e.type = "epoch_available" => e.epoch > view.epoch]_vars

\* An inactive pillar was last seen producing at least Threshold observations
\* ago: no reset, reappearance or restart of the counters turns it early.
InactiveMeansQuiet ==
  \A o \in Owners : pillars[o].status = "inactive" => quiet[o] >= Threshold
=============================================================================
