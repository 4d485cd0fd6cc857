------------------------- MODULE ObservationProofs -------------------------
(***************************************************************************)
(* Theorems about the observations of any number of pillars, of a network  *)
(* that moves on while it is read and of one of which nothing is known.    *)
(***************************************************************************)
EXTENDS Rollover, Collector, SequenceTheorems, WellFoundedInduction, TLAPS

\* What a node may say of a pillar, counters of any size.
AnyReading == [name : Names, shares : Shares, produced : Nat, expected : Nat]

\* The missed momentums of a listed pillar are never more than the observations
\* since it was last seen producing.
QuietInv ==
  \A o \in Owners :
    /\ pillars[o].present => pillars[o].missed <= quiet[o] \/ quiet[o] >= Threshold
    /\ pillars[o].status = "inactive" => quiet[o] >= Threshold

\* The follower knows what the tables say.
FeedInv ==
  /\ view.pillar = [o \in Owners |-> Public(pillars[o])]
  /\ epochs # {} => view.epoch \in epochs /\ \A e \in epochs : e <= view.epoch

TablesInv == TypeOK /\ QuietInv /\ FeedInv
-----------------------------------------------------------------------------
(***************************************************************************)
(* One row                                                                 *)
(***************************************************************************)

LEMMA SmallerOfTwo ==
  ASSUME NEW a \in Nat, NEW b \in Nat
  PROVE  Min({a, b}) = IF a <= b THEN a ELSE b
BY DEF Min

\* The row of a pillar that is listed.
LEMMA UpsertedRow ==
  ASSUME NEW prev \in Row, prev.present <=> prev.status \in {"active", "inactive"},
         NEW now \in AnyReading, NEW epoch \in Nat
  PROVE  LET new == Upserted(prev, now, epoch)
         IN  /\ new \in Row /\ new.present /\ new.status \in {"active", "inactive"}
             /\ new.name = now.name /\ new.shares = now.shares
             /\ new.status = Status(prev, now, epoch)
             /\ ~prev.present \/ Produced(prev, now) => new.missed = 0 /\ new.status = "active"
             /\ new.missed <= prev.missed + 1
             /\ new.status = "inactive" =>
                  prev.status = "inactive" \/ prev.missed + 1 >= Threshold
<1>1. /\ prev.present \in BOOLEAN /\ prev.missed \in Nat /\ prev.produced \in Nat
      /\ prev.expected \in Nat /\ prev.epoch \in Nat
      /\ now.produced \in Nat /\ now.expected \in Nat
      /\ now.name \in Names /\ now.shares \in Shares
  BY DEF Row, AnyReading
<1>2. /\ MissedMomentums(prev, now, epoch) \in {0, prev.missed, prev.missed + 1}
      /\ Status(prev, now, epoch) \in {"active", "inactive"}
  BY <1>1 DEF MissedMomentums, Status, Miss, FirstSight, Produced, Reset
<1>3. ~prev.present \/ Produced(prev, now) =>
        MissedMomentums(prev, now, epoch) = 0 /\ Status(prev, now, epoch) = "active"
  BY <1>1 DEF MissedMomentums, Status, Miss, FirstSight, Produced
<1>4. Status(prev, now, epoch) = "inactive" =>
        prev.status = "inactive" \/ prev.missed + 1 >= Threshold
  BY DEF Status
<1>5. Upserted(prev, now, epoch) \in Row
  BY <1>1, <1>2 DEF Upserted, Row, RowStatus
<1> QED
  BY <1>1, <1>2, <1>3, <1>4, <1>5 DEF Upserted

\* Every step of an observation keeps types and counts.
LEMMA RowsStep ==
  ASSUME TypeOK, QuietInv, NEW listed \in SUBSET Owners,
         NEW reading \in [listed -> AnyReading], NEW epoch \in Nat, NEW history,
         Observe(reading, epoch, history), NEW o \in Owners
  PROVE  /\ pillars'[o] \in Row
         /\ pillars'[o].present <=> pillars'[o].status \in {"active", "inactive"}
         /\ quiet'[o] \in Nat
         /\ pillars'[o].present => pillars'[o].missed <= quiet'[o] \/ quiet'[o] >= Threshold
         /\ pillars'[o].status = "inactive" => quiet'[o] >= Threshold
<1>1. /\ pillars[o] \in Row /\ quiet[o] \in Nat /\ Threshold \in Nat
      /\ pillars[o].present <=> pillars[o].status \in {"active", "inactive"}
      /\ pillars'[o] = NewRow(o, reading, epoch)
  BY ThresholdAssumption DEF TypeOK, Observe
<1>2. /\ pillars[o].missed \in Nat /\ pillars[o].present \in BOOLEAN
      /\ DOMAIN reading = listed
  BY <1>1 DEF Row
<1>3. quiet'[o] = IF o \in listed /\ pillars[o].present /\ ~ Produced(pillars[o], reading[o])
                  THEN (IF quiet[o] + 1 <= Threshold THEN quiet[o] + 1 ELSE Threshold) ELSE 0
  BY <1>1, <1>2, SmallerOfTwo DEF Observe
<1>4. CASE o \in listed
  <2> DEFINE new == Upserted(pillars[o], reading[o], epoch)
  <2>1. /\ new \in Row /\ new.present /\ new.status \in {"active", "inactive"}
        /\ ~pillars[o].present \/ Produced(pillars[o], reading[o])
             => new.missed = 0 /\ new.status = "active"
        /\ new.missed <= pillars[o].missed + 1 /\ new.missed \in Nat
        /\ new.status = "inactive" =>
             pillars[o].status = "inactive" \/ pillars[o].missed + 1 >= Threshold
    <3>1. reading[o] \in AnyReading
      BY <1>4
    <3>2. new \in Row => new.missed \in Nat
      BY DEF Row
    <3> HIDE DEF new
    <3> QED
      BY <1>1, <3>1, <3>2, UpsertedRow DEF new
  <2>2. pillars'[o] = new
    BY <1>1, <1>2, <1>4 DEF NewRow
  <2>3. /\ pillars[o].present => pillars[o].missed <= quiet[o] \/ quiet[o] >= Threshold
        /\ pillars[o].status = "inactive" => quiet[o] >= Threshold
    BY DEF QuietInv
  <2> HIDE DEF new
  <2> QED
    BY <1>1, <1>2, <1>3, <1>4, <2>1, <2>2, <2>3
<1>5. CASE o \notin listed /\ pillars[o].present
  <2>1. pillars'[o] = Dismantled(pillars[o])
    BY <1>1, <1>2, <1>5 DEF NewRow
  <2>2. Dismantled(pillars[o]) \in Row
    BY <1>1 DEF Dismantled, Row, RowStatus
  <2>3. ~Dismantled(pillars[o]).present /\ Dismantled(pillars[o]).status = "dismantled"
    BY <1>1 DEF Dismantled, Row
  <2> QED
    BY <1>3, <1>5, <2>1, <2>2, <2>3
<1>6. CASE o \notin listed /\ ~pillars[o].present
  <2>1. pillars'[o] = pillars[o]
    BY <1>1, <1>2, <1>6 DEF NewRow
  <2> QED
    BY <1>1, <1>3, <1>6, <2>1
<1> QED
  BY <1>4, <1>5, <1>6
-----------------------------------------------------------------------------
(***************************************************************************)
(* The events                                                              *)
(***************************************************************************)

\* The events that an observation may have about one pillar.
CreatedEvent(o, reading) ==
  [type |-> "pillar_created", owner |-> o, name |-> reading[o].name,
   shares |-> reading[o].shares, reappeared |-> pillars[o].status # "none"]
RenamedEvent(o, reading) ==
  [type |-> "pillar_name_changed", owner |-> o, name |-> reading[o].name]
RepricedEvent(o, reading) ==
  [type |-> "reward_shares_changed", owner |-> o, shares |-> reading[o].shares]
TurnedEvent(o, reading, epoch) ==
  [type |-> "pillar_status", owner |-> o, status |-> Status(pillars[o], reading[o], epoch)]
VanishedEvent(o) == [type |-> "pillar_dismantled", owner |-> o]

IsAbout(e, o, reading, epoch) ==
  \/ e = CreatedEvent(o, reading) /\ o \in DOMAIN reading /\ ~pillars[o].present
  \/ /\ e = RenamedEvent(o, reading) /\ o \in Known(reading)
     /\ pillars[o].name # reading[o].name
  \/ /\ e = RepricedEvent(o, reading) /\ o \in Known(reading)
     /\ pillars[o].shares # reading[o].shares
  \/ /\ e = TurnedEvent(o, reading, epoch) /\ o \in Known(reading)
     /\ pillars[o].status # Status(pillars[o], reading[o], epoch)
  \/ e = VanishedEvent(o) /\ o \notin DOMAIN reading /\ pillars[o].present

\* Nothing else is about it, and what is about an epoch is only that.
LEMMA EventsAbout ==
  ASSUME NEW reading, NEW epoch, NEW o \in Owners, DOMAIN reading \subseteq Owners, NEW e
  PROVE  (e \in EventsOf(reading, epoch) /\ e.type # "epoch_available" /\ e.owner = o)
           <=> IsAbout(e, o, reading, epoch)
<1>1. e \in EventsOf(reading, epoch) <=>
        \/ e \in EpochEvents(epoch) \/ e \in Created(reading) \/ e \in Renamed(reading)
        \/ e \in Repriced(reading) \/ e \in Turned(reading, epoch) \/ e \in Vanished(reading)
  BY DEF EventsOf
<1>2. e \in EpochEvents(epoch) => e.type = "epoch_available"
  BY DEF EpochEvents
<1>3. /\ e \in Created(reading) =>
           e.type = "pillar_created" /\ e = CreatedEvent(e.owner, reading)
             /\ e.owner \in DOMAIN reading /\ ~pillars[e.owner].present
      /\ (o \in DOMAIN reading /\ ~pillars[o].present) =>
           CreatedEvent(o, reading) \in Created(reading)
      /\ CreatedEvent(o, reading).owner = o /\ CreatedEvent(o, reading).type = "pillar_created"
  BY DEF Created, CreatedEvent
<1>4. /\ e \in Renamed(reading) =>
           e.type = "pillar_name_changed" /\ e = RenamedEvent(e.owner, reading)
             /\ e.owner \in Known(reading) /\ pillars[e.owner].name # reading[e.owner].name
      /\ (o \in Known(reading) /\ pillars[o].name # reading[o].name) =>
           RenamedEvent(o, reading) \in Renamed(reading)
      /\ RenamedEvent(o, reading).owner = o
      /\ RenamedEvent(o, reading).type = "pillar_name_changed"
  BY DEF Renamed, RenamedEvent
<1>5. /\ e \in Repriced(reading) =>
           e.type = "reward_shares_changed" /\ e = RepricedEvent(e.owner, reading)
             /\ e.owner \in Known(reading) /\ pillars[e.owner].shares # reading[e.owner].shares
      /\ (o \in Known(reading) /\ pillars[o].shares # reading[o].shares) =>
           RepricedEvent(o, reading) \in Repriced(reading)
      /\ RepricedEvent(o, reading).owner = o
      /\ RepricedEvent(o, reading).type = "reward_shares_changed"
  BY DEF Repriced, RepricedEvent
<1>6. /\ e \in Turned(reading, epoch) =>
           e.type = "pillar_status" /\ e = TurnedEvent(e.owner, reading, epoch)
             /\ e.owner \in Known(reading)
             /\ pillars[e.owner].status # Status(pillars[e.owner], reading[e.owner], epoch)
      /\ (o \in Known(reading) /\ pillars[o].status # Status(pillars[o], reading[o], epoch)) =>
           TurnedEvent(o, reading, epoch) \in Turned(reading, epoch)
      /\ TurnedEvent(o, reading, epoch).owner = o
      /\ TurnedEvent(o, reading, epoch).type = "pillar_status"
  BY DEF Turned, TurnedEvent
<1>7. /\ e \in Vanished(reading) =>
           e.type = "pillar_dismantled" /\ e = VanishedEvent(e.owner)
             /\ e.owner \notin DOMAIN reading /\ pillars[e.owner].present
      /\ (o \notin DOMAIN reading /\ pillars[o].present) =>
           VanishedEvent(o) \in Vanished(reading)
      /\ VanishedEvent(o).owner = o /\ VanishedEvent(o).type = "pillar_dismantled"
  BY DEF Vanished, VanishedEvent
<1> QED
  BY <1>1, <1>2, <1>3, <1>4, <1>5, <1>6, <1>7 DEF IsAbout

\* A follower who saw what the tables say sees what the tables say.
LEMMA FollowerStep ==
  ASSUME NEW reading, NEW epoch, NEW o \in Owners, DOMAIN reading \subseteq Owners,
         pillars[o] \in Row, NEW about, \A e : e \in about <=> IsAbout(e, o, reading, epoch)
  PROVE  FollowPillar(Public(pillars[o]), about) = Public(NewRow(o, reading, epoch))
<1> DEFINE has(type) == \E e \in about : e.type = type
           only(type) == CHOOSE e \in about : e.type = type
<1>0. /\ CreatedEvent(o, reading).type = "pillar_created"
      /\ RenamedEvent(o, reading).type = "pillar_name_changed"
      /\ RepricedEvent(o, reading).type = "reward_shares_changed"
      /\ TurnedEvent(o, reading, epoch).type = "pillar_status"
      /\ VanishedEvent(o).type = "pillar_dismantled"
  BY DEF CreatedEvent, RenamedEvent, RepricedEvent, TurnedEvent, VanishedEvent
<1>1. /\ has("pillar_created") <=> o \in DOMAIN reading /\ ~pillars[o].present
      /\ has("pillar_created") => only("pillar_created") = CreatedEvent(o, reading)
  BY <1>0 DEF IsAbout
<1>2. has("pillar_dismantled") <=> o \notin DOMAIN reading /\ pillars[o].present
  BY <1>0 DEF IsAbout
<1>3. /\ has("pillar_name_changed") <=>
           o \in Known(reading) /\ pillars[o].name # reading[o].name
      /\ has("pillar_name_changed") => only("pillar_name_changed") = RenamedEvent(o, reading)
  BY <1>0 DEF IsAbout
<1>4. /\ has("reward_shares_changed") <=>
           o \in Known(reading) /\ pillars[o].shares # reading[o].shares
      /\ has("reward_shares_changed") =>
           only("reward_shares_changed") = RepricedEvent(o, reading)
  BY <1>0 DEF IsAbout
<1>5. /\ has("pillar_status") <=>
           o \in Known(reading) /\ pillars[o].status # Status(pillars[o], reading[o], epoch)
      /\ has("pillar_status") => only("pillar_status") = TurnedEvent(o, reading, epoch)
  BY <1>0 DEF IsAbout
<1>6. FollowPillar(Public(pillars[o]), about) =
        IF has("pillar_created")
        THEN [present |-> TRUE, name |-> only("pillar_created").name,
              shares |-> only("pillar_created").shares, status |-> "active"]
        ELSE IF has("pillar_dismantled") \/ ~ Public(pillars[o]).present
        THEN Stranger
        ELSE [present |-> TRUE,
              name |-> IF has("pillar_name_changed")
                       THEN only("pillar_name_changed").name ELSE Public(pillars[o]).name,
              shares |-> IF has("reward_shares_changed")
                         THEN only("reward_shares_changed").shares
                         ELSE Public(pillars[o]).shares,
              status |-> IF has("pillar_status")
                         THEN only("pillar_status").status ELSE Public(pillars[o]).status]
  BY DEF FollowPillar
<1> HIDE DEF has, only
<1>7. CASE o \in DOMAIN reading /\ ~pillars[o].present
  <2>1. Public(NewRow(o, reading, epoch)) =
          [present |-> TRUE, name |-> reading[o].name, shares |-> reading[o].shares,
           status |-> "active"]
    BY <1>7 DEF Public, NewRow, Upserted, Status, FirstSight
  <2>2. /\ has("pillar_created")
        /\ only("pillar_created").name = reading[o].name
        /\ only("pillar_created").shares = reading[o].shares
    BY <1>1, <1>7 DEF CreatedEvent
  <2> QED
    BY <1>6, <2>1, <2>2
<1>8. CASE o \notin DOMAIN reading
  <2>1. Public(NewRow(o, reading, epoch)) = Stranger
    BY <1>8 DEF Public, NewRow, Dismantled, Row
  <2>2. has("pillar_dismantled") \/ ~Public(pillars[o]).present
    BY <1>2, <1>8 DEF Public, Stranger
  <2> QED
    BY <1>1, <1>6, <1>8, <2>1, <2>2
<1>9. CASE o \in DOMAIN reading /\ pillars[o].present
  <2>1. Public(NewRow(o, reading, epoch)) =
          [present |-> TRUE, name |-> reading[o].name, shares |-> reading[o].shares,
           status |-> Status(pillars[o], reading[o], epoch)]
    BY <1>9 DEF Public, NewRow, Upserted
  <2>2. Public(pillars[o]) =
          [present |-> TRUE, name |-> pillars[o].name, shares |-> pillars[o].shares,
           status |-> pillars[o].status]
    BY <1>9 DEF Public
  <2>3. o \in Known(reading)
    BY <1>9 DEF Known
  <2>4. ~has("pillar_created") /\ ~has("pillar_dismantled")
    BY <1>1, <1>2, <1>9
  <2>5. reading[o].name = IF has("pillar_name_changed")
                          THEN only("pillar_name_changed").name ELSE pillars[o].name
    BY <1>3, <2>3 DEF RenamedEvent
  <2>6. reading[o].shares = IF has("reward_shares_changed")
                            THEN only("reward_shares_changed").shares ELSE pillars[o].shares
    BY <1>4, <2>3 DEF RepricedEvent
  <2>7. Status(pillars[o], reading[o], epoch) =
          IF has("pillar_status") THEN only("pillar_status").status ELSE pillars[o].status
    BY <1>5, <2>3 DEF TurnedEvent
  <2> QED
    BY <1>6, <2>1, <2>2, <2>4, <2>5, <2>6, <2>7
<1> QED
  BY <1>7, <1>8, <1>9

\* Which events are about epochs.
LEMMA EpochNews ==
  ASSUME NEW reading, NEW epoch
  PROVE  {e \in EventsOf(reading, epoch) : e.type = "epoch_available"} = EpochEvents(epoch)
<1>1. \A e \in EpochEvents(epoch) : e.type = "epoch_available"
  BY DEF EpochEvents
<1>2. \A e \in Created(reading) : e.type # "epoch_available"
  BY DEF Created
<1>3. \A e \in Renamed(reading) \cup Repriced(reading) : e.type # "epoch_available"
  BY DEF Renamed, Repriced
<1>4. \A e \in Turned(reading, epoch) \cup Vanished(reading) : e.type # "epoch_available"
  BY DEF Turned, Vanished
<1>5. \A e : e \in EventsOf(reading, epoch) <=>
        \/ e \in EpochEvents(epoch) \/ e \in Created(reading) \/ e \in Renamed(reading)
        \/ e \in Repriced(reading) \/ e \in Turned(reading, epoch) \/ e \in Vanished(reading)
  BY DEF EventsOf
<1> QED
  BY <1>1, <1>2, <1>3, <1>4, <1>5

\* The follower knows the newest epoch.
LEMMA NewestEpoch ==
  ASSUME TablesInv
  PROVE  epochs # {} => view.epoch = Max(epochs) /\ view.epoch \in Nat
<1> SUFFICES ASSUME epochs # {}
             PROVE  view.epoch = Max(epochs) /\ view.epoch \in Nat
  OBVIOUS
<1>1. view.epoch \in epochs /\ epochs \subseteq Nat /\ \A e \in epochs : view.epoch >= e
  BY DEF TablesInv, FeedInv, TypeOK
<1>2. ASSUME NEW x \in epochs
      PROVE  (\A y \in epochs : x >= y) <=> x = view.epoch
  <2>1. x \in Nat /\ view.epoch \in Nat /\ view.epoch >= x
    BY <1>1
  <2>2. ASSUME \A y \in epochs : x >= y
        PROVE  x = view.epoch
    <3>1. x >= view.epoch
      BY <1>1, <2>2
    <3> QED
      BY <2>1, <3>1
  <2> QED
    BY <1>1, <2>2
<1>3. Max(epochs) = CHOOSE x \in epochs : x = view.epoch
  BY <1>2, Zenon DEF Max
<1> QED
  BY <1>1, <1>3

\* An epoch is news when it is newer than what the follower knows, and no epoch is
\* when it knows none.
LEMMA EpochIsNewer ==
  ASSUME TablesInv, NEW epoch \in Nat
  PROVE  EpochEvents(epoch) =
           IF epochs # {} /\ epoch > view.epoch
           THEN {[type |-> "epoch_available", epoch |-> epoch]} ELSE {}
BY NewestEpoch DEF EpochEvents

LEMMA FeedStep ==
  ASSUME TablesInv, NEW listed \in SUBSET Owners, NEW reading \in [listed -> AnyReading],
         NEW epoch \in Nat, NEW history \in SUBSET Nat, \A h \in history : h < epoch,
         (\E e \in epochs : epoch <= e) => history = {},
         Observe(reading, epoch, history)
  PROVE  FeedInv'
<1> DEFINE news == EpochEvents(epoch)
           about(o) == {e \in events' \ news : e.owner = o}
<1>1. /\ events' = EventsOf(reading, epoch)
      /\ {e \in events' : e.type = "epoch_available"} = news
      /\ DOMAIN reading \subseteq Owners
  BY EpochNews DEF Observe
<1>2. view' = [epoch |-> IF epochs = {} THEN epoch
                         ELSE IF news = {} THEN view.epoch
                         ELSE (CHOOSE e \in news : TRUE).epoch,
               pillar |-> [o \in Owners |-> FollowPillar(view.pillar[o], about(o))]]
  BY <1>1 DEF Observe, Follow
<1>3. ASSUME NEW o \in Owners
      PROVE  view'.pillar[o] = Public(pillars'[o])
  <2>1. \A e : e \in about(o) <=> IsAbout(e, o, reading, epoch)
    BY <1>1, EventsAbout
  <2>2. pillars[o] \in Row /\ view.pillar[o] = Public(pillars[o])
    BY DEF TablesInv, TypeOK, FeedInv
  <2>3. FollowPillar(view.pillar[o], about(o)) = Public(NewRow(o, reading, epoch))
    <3> HIDE DEF about
    <3> QED
      BY <1>1, <2>1, <2>2, FollowerStep
  <2> QED
    BY <1>2, <2>3 DEF Observe
<1>4. view'.epoch = IF epochs = {} \/ epoch > view.epoch THEN epoch ELSE view.epoch
  <2>1. CASE epochs = {} \/ ~(epoch > view.epoch)
    BY <1>2, <2>1, EpochIsNewer
  <2>2. CASE epochs # {} /\ epoch > view.epoch
    <3>1. news = {[type |-> "epoch_available", epoch |-> epoch]}
      BY <2>2, EpochIsNewer
    <3>2. (CHOOSE e \in news : TRUE) \in news
      BY <3>1
    <3>3. news # {} /\ (CHOOSE e \in news : TRUE).epoch = epoch
      BY <3>1, <3>2
    <3> QED
      BY <1>2, <2>2, <3>3
  <2> QED
    BY <2>1, <2>2
<1>5. epochs' = epochs \cup {epoch} \cup history /\ epochs \subseteq Nat
  BY DEF Observe, TablesInv, TypeOK
<1>6. view'.epoch \in epochs' /\ \A e \in epochs' : e <= view'.epoch
  <2>1. epochs # {} => view.epoch \in epochs /\ \A e \in epochs : e <= view.epoch
    BY DEF TablesInv, FeedInv
  <2>2. CASE epochs = {} \/ epoch > view.epoch
    <3>1. view'.epoch = epoch
      BY <1>4, <2>2
    <3>2. ASSUME NEW e \in epochs
          PROVE  e <= epoch
      <4>1. e \in Nat /\ view.epoch \in Nat /\ e <= view.epoch /\ view.epoch < epoch
        BY <1>5, <2>1, <2>2, <3>2
      <4> QED
        BY <4>1
    <3>3. ASSUME NEW e \in history
          PROVE  e <= epoch
      <4>1. e \in Nat /\ e < epoch
        OBVIOUS
      <4> QED
        BY <4>1
    <3> QED
      BY <1>5, <3>1, <3>2, <3>3
  <2>3. CASE epochs # {} /\ ~(epoch > view.epoch)
    <3>1. view'.epoch = view.epoch /\ view.epoch \in epochs
      BY <1>4, <2>1, <2>3
    <3>2. epoch <= view.epoch
      <4>1. view.epoch \in Nat
        BY <1>5, <3>1
      <4> QED
        BY <2>3, <4>1
    <3>3. history = {} /\ epochs' = epochs \cup {epoch}
      BY <1>5, <3>1, <3>2
    <3> QED
      BY <2>1, <2>3, <3>1, <3>2, <3>3
  <2> QED
    BY <2>2, <2>3
<1>7. view'.pillar = [o \in Owners |-> Public(pillars'[o])]
  BY <1>2, <1>3
<1> QED
  BY <1>6, <1>7 DEF FeedInv, Public
-----------------------------------------------------------------------------
(***************************************************************************)
(* The specification                                                       *)
(***************************************************************************)

\* An observation of any answer keeps tables, counts and follower in step.
LEMMA ObserveStep ==
  ASSUME TablesInv, NEW listed \in SUBSET Owners, NEW reading \in [listed -> AnyReading],
         NEW epoch \in Nat, NEW history \in SUBSET Nat, \A h \in history : h < epoch,
         (\E e \in epochs : epoch <= e) => history = {},
         Observe(reading, epoch, history)
  PROVE  TablesInv'
<1>1. TypeOK /\ QuietInv
  BY DEF TablesInv
<1>2. FeedInv'
  BY FeedStep
<1>3. QuietInv'
  BY <1>1, RowsStep DEF QuietInv
<1>4. /\ pillars' = [o \in Owners |-> pillars'[o]]
      /\ quiet' = [o \in Owners |-> quiet'[o]]
  BY DEF Observe
<1>5. epochs' \subseteq Nat
  BY DEF Observe, TablesInv, TypeOK
<1>6. TypeOK'
  BY <1>1, <1>4, <1>5, RowsStep DEF TypeOK
<1> QED
  BY <1>2, <1>3, <1>6 DEF TablesInv

LEMMA TablesStart == Init => TablesInv
<1> SUFFICES ASSUME Init
             PROVE  TablesInv
  OBVIOUS
<1>1. (CHOOSE n \in Names : TRUE) \in Names /\ (CHOOSE s \in Shares : TRUE) \in Shares
  BY NamesAssumption
<1>2. /\ NoRow \in Row /\ ~NoRow.present /\ NoRow.status = "none"
      /\ Public(NoRow) = Stranger
  BY <1>1 DEF NoRow, Row, RowStatus, Public
<1>3. /\ pillars = [o \in Owners |-> NoRow] /\ epochs = {}
      /\ quiet = [o \in Owners |-> 0] /\ view.pillar = [o \in Owners |-> Stranger]
  BY DEF Init
<1>4. TypeOK
  BY <1>2, <1>3 DEF TypeOK
<1>5. QuietInv
  BY <1>2, <1>3 DEF QuietInv
<1>6. FeedInv
  BY <1>2, <1>3 DEF FeedInv
<1> QED
  BY <1>4, <1>5, <1>6 DEF TablesInv

\* What a snapshot of an unknown network may make of the tables.
LEMMA AnySnapshot ==
  ASSUME Next
  PROVE  \E listed \in SUBSET Owners, epoch \in Nat, history \in SUBSET Nat :
           \E reading \in [listed -> AnyReading] :
             /\ \A h \in history : h < epoch
             /\ (\E e \in epochs : epoch <= e) => history = {}
             /\ Observe(reading, epoch, history)
<1>1. Reading \subseteq AnyReading
  BY CountsAssumption DEF Reading, AnyReading
<1>2. PICK listed \in SUBSET Owners, epoch \in EpochNumbers :
        \E reading \in [listed -> Reading] :
          IF \E e \in epochs : epoch <= e
          THEN Observe(reading, epoch, {})
          ELSE \E history \in SUBSET {e \in EpochNumbers : e < epoch} :
                 Observe(reading, epoch, history)
  BY DEF Next
<1>3. PICK reading \in [listed -> Reading] :
        IF \E e \in epochs : epoch <= e
        THEN Observe(reading, epoch, {})
        ELSE \E history \in SUBSET {e \in EpochNumbers : e < epoch} :
               Observe(reading, epoch, history)
  BY <1>2
<1>4. reading \in [listed -> AnyReading] /\ epoch \in Nat
  BY <1>1, EpochNumbersAssumption
<1>5. PICK history \in SUBSET {e \in EpochNumbers : e < epoch} :
        /\ (\E e \in epochs : epoch <= e) => history = {}
        /\ Observe(reading, epoch, history)
  BY <1>3
<1>6. history \in SUBSET Nat /\ \A h \in history : h < epoch
  BY <1>5, EpochNumbersAssumption
<1> QED
  BY <1>4, <1>5, <1>6

\* The network while it is known, and the answer that the poll holds of it.
NetworkInv ==
  /\ live = Unknown \/ live \in [epoch : Nat \ {0, 1}, produced : [Owners -> Nat],
                                expected : [Owners -> Nat], busy : [Owners -> BOOLEAN]]
  /\ answer # NoAnswer => live # Unknown /\ answer \in [Owners -> AnyReading]

LEMMA NetworkStep == NetworkInv /\ RNext => NetworkInv'
<1> SUFFICES ASSUME NetworkInv, RNext
             PROVE  NetworkInv'
  OBVIOUS
<1> DEFINE Chains == [epoch : Nat \ {0, 1}, produced : [Owners -> Nat],
                      expected : [Owners -> Nat], busy : [Owners -> BOOLEAN]]
<1>1. /\ live = Unknown \/ live \in Chains
      /\ answer # NoAnswer => live # Unknown /\ answer \in [Owners -> AnyReading]
  BY DEF NetworkInv
<1>2. \A c \in Chains : c # Unknown
  BY DEF Unknown
<1>3. CASE \E o \in Owners, used \in BOOLEAN : Slot(o, used)
  <2>1. PICK o \in Owners, used \in BOOLEAN : Slot(o, used)
    BY <1>3
  <2>2. /\ live \in Chains /\ answer' = answer
        /\ live' = [live EXCEPT !.expected[o] = @ + 1,
                                !.produced[o] = IF used THEN @ + 1 ELSE @,
                                !.busy[o] = @ \/ used]
    BY <1>1, <2>1 DEF Slot
  <2>3. /\ live.expected[o] + 1 \in Nat /\ (live.busy[o] \/ used) \in BOOLEAN
        /\ (IF used THEN live.produced[o] + 1 ELSE live.produced[o]) \in Nat
    BY <2>2
  <2>4. live' \in Chains
    BY <2>2, <2>3
  <2> QED
    BY <1>1, <1>2, <2>2, <2>4 DEF NetworkInv
<1>4. CASE NewEpoch
  <2>1. live \in Chains /\ answer' = answer
    BY <1>1, <1>4 DEF NewEpoch
  <2>2. live.epoch + 1 \in Nat \ {0, 1}
    <3>1. live.epoch \in Nat
      BY <2>1
    <3>2. live.epoch # 0 /\ live.epoch # 1
      BY <2>1
    <3> QED
      BY <3>1, <3>2
  <2>3. /\ [o \in Owners |-> 0] \in [Owners -> Nat]
        /\ live' = [live EXCEPT !.epoch = live.epoch + 1,
                                !.produced = [o \in Owners |-> 0],
                                !.expected = [o \in Owners |-> 0]]
    BY <1>4 DEF NewEpoch
  <2>4. live' \in Chains
    BY <2>1, <2>2, <2>3
  <2> QED
    BY <1>1, <1>2, <2>1, <2>4 DEF NetworkInv
<1>5. CASE ReadPillars
  <2>1. live \in Chains
    BY <1>1, <1>5 DEF ReadPillars
  <2>2. live' \in Chains
    BY <1>5, <2>1 DEF ReadPillars
  <2>3. answer' \in [Owners -> AnyReading]
    <3>1. (CHOOSE n \in Names : TRUE) \in Names /\ (CHOOSE s \in Shares : TRUE) \in Shares
      BY NamesAssumption
    <3> QED
      BY <1>5, <2>1, <3>1 DEF ReadPillars, AnyReading
  <2> QED
    BY <1>2, <2>2, <2>3 DEF NetworkInv
<1>6. CASE ReadEpochAndRecord
  BY <1>1, <1>6 DEF ReadEpochAndRecord, NetworkInv
<1>7. CASE ReadUnknown
  BY <1>1, <1>7 DEF ReadUnknown, NetworkInv
<1> QED
  BY <1>3, <1>4, <1>5, <1>6, <1>7 DEF RNext

\* Every step of the specification is an observation of some answer, or none.
LEMMA AnyStep ==
  ASSUME NetworkInv, [RNext]_rvars
  PROVE  \/ UNCHANGED vars
         \/ \E listed \in SUBSET Owners, epoch \in Nat, history \in SUBSET Nat :
              \E reading \in [listed -> AnyReading] :
                /\ \A h \in history : h < epoch
                /\ (\E e \in epochs : epoch <= e) => history = {}
                /\ Observe(reading, epoch, history)
<1>1. CASE ReadEpochAndRecord
  <2>1. answer \in [Owners -> AnyReading] /\ live.epoch - 1 \in Nat
    <3>1. live.epoch \in Nat \ {0, 1} /\ answer \in [Owners -> AnyReading]
      BY <1>1 DEF ReadEpochAndRecord, NetworkInv
    <3> QED
      BY <3>1
  <2>2. Observe(answer, live.epoch - 1, {})
    BY <1>1 DEF ReadEpochAndRecord
  <2> QED
    BY <2>1, <2>2
<1>2. CASE ReadUnknown
  BY <1>2, AnySnapshot DEF ReadUnknown
<1>3. CASE ~ReadEpochAndRecord /\ ~ReadUnknown
  BY <1>3 DEF RNext, Slot, NewEpoch, ReadPillars, rvars
<1> QED
  BY <1>1, <1>2, <1>3

LEMMA TablesAlways == RSpec => [](TablesInv /\ NetworkInv)
<1>1. RInit => TablesInv /\ NetworkInv
  <2> SUFFICES ASSUME RInit
               PROVE  TablesInv /\ NetworkInv
    OBVIOUS
  <2>1. TablesInv
    BY TablesStart DEF RInit
  <2>2. answer = NoAnswer
    BY DEF RInit
  <2>3. ASSUME NEW start, start = [epoch |-> 2, produced |-> [o \in Owners |-> 0],
                                   expected |-> [o \in Owners |-> 0],
                                   busy |-> [o \in Owners |-> TRUE]]
        PROVE  start \in [epoch : Nat \ {0, 1}, produced : [Owners -> Nat],
                          expected : [Owners -> Nat], busy : [Owners -> BOOLEAN]]
    BY <2>3
  <2>4. NetworkInv
    BY <2>2, <2>3 DEF RInit, NetworkInv
  <2> QED
    BY <2>1, <2>4
<1>2. TablesInv /\ NetworkInv /\ [RNext]_rvars => TablesInv' /\ NetworkInv'
  <2> SUFFICES ASSUME TablesInv, NetworkInv, [RNext]_rvars
               PROVE  TablesInv' /\ NetworkInv'
    OBVIOUS
  <2>1. NetworkInv'
    <3>1. CASE RNext
      BY <3>1, NetworkStep
    <3>2. CASE UNCHANGED rvars
      BY <3>2 DEF NetworkInv, rvars
    <3> QED
      BY <3>1, <3>2
  <2>2. TablesInv'
    <3>1. CASE UNCHANGED vars
      BY <3>1 DEF TablesInv, TypeOK, QuietInv, FeedInv, vars
    <3>2. CASE \E listed \in SUBSET Owners, epoch \in Nat, history \in SUBSET Nat :
                 \E reading \in [listed -> AnyReading] :
                   /\ \A h \in history : h < epoch
                   /\ (\E e \in epochs : epoch <= e) => history = {}
                   /\ Observe(reading, epoch, history)
      BY <3>2, ObserveStep
    <3> QED
      BY <3>1, <3>2, AnyStep
  <2> QED
    BY <2>1, <2>2
<1> QED
  BY <1>1, <1>2, PTL DEF RSpec
\* A row of a known network is filed under no later epoch than the network is in.  One
\* with a miss that is filed under the newest epoch whose rewards are known was read
\* in the epoch that goes on: what the pillar produces from then on is seen.
SeenSince(o) ==
  /\ answer = NoAnswer /\ pillars[o].missed > 0 =>
       /\ live.produced[o] >= pillars[o].produced
       /\ live.busy[o] => live.produced[o] > pillars[o].produced
  /\ answer # NoAnswer =>
       /\ live.produced[o] >= answer[o].produced
       /\ live.busy[o] => live.produced[o] > answer[o].produced
  /\ answer # NoAnswer /\ pillars[o].missed > 0 =>
       /\ answer[o].produced >= pillars[o].produced
       /\ idle[o] = 0 => answer[o].produced > pillars[o].produced

\* Of the misses in a row, one at most was counted of a pillar that had produced.
MissesCounted(o) ==
  \/ idle[o] >= Threshold
  \/ answer = NoAnswer /\ pillars[o].missed <= idle[o] + 1
  \/ answer # NoAnswer /\ (idle[o] = 0 \/ pillars[o].missed <= idle[o])

EarnedInv ==
  /\ idle \in [Owners -> Nat]
  /\ live # Unknown => \A o \in Owners :
       /\ pillars[o].present => pillars[o].epoch < live.epoch
       /\ pillars[o].present /\ pillars[o].epoch = live.epoch - 1 => SeenSince(o)
       /\ MissesCounted(o)

\* The state of the network and of one row of a known one, in numbers.
LEMMA NetworkTypes ==
  ASSUME TypeOK, NetworkInv, EarnedInv, live # Unknown, NEW o \in Owners
  PROVE  /\ live.epoch \in Nat \ {0, 1} /\ live.produced \in [Owners -> Nat]
         /\ live.expected \in [Owners -> Nat] /\ live.busy \in [Owners -> BOOLEAN]
         /\ live.produced[o] \in Nat /\ live.busy[o] \in BOOLEAN
         /\ pillars[o].epoch \in Nat /\ pillars[o].missed \in Nat
         /\ pillars[o].produced \in Nat /\ pillars[o].present \in BOOLEAN
         /\ idle[o] \in Nat /\ Threshold \in Nat \ {0}
         /\ answer # NoAnswer => answer \in [Owners -> AnyReading]
                                 /\ answer[o].produced \in Nat
<1>1. live \in [epoch : Nat \ {0, 1}, produced : [Owners -> Nat],
                expected : [Owners -> Nat], busy : [Owners -> BOOLEAN]]
  BY DEF NetworkInv
<1>2. pillars[o] \in Row
  BY DEF TypeOK
<1>3. answer # NoAnswer => answer \in [Owners -> AnyReading] /\ answer[o] \in AnyReading
  BY DEF NetworkInv
<1> QED
  BY <1>1, <1>2, <1>3, ThresholdAssumption DEF Row, AnyReading, EarnedInv

LEMMA EarnedSlot ==
  ASSUME TypeOK, NetworkInv, EarnedInv, NEW s \in Owners, NEW used \in BOOLEAN,
         Slot(s, used)
  PROVE  EarnedInv'
<1>1. /\ live # Unknown /\ UNCHANGED <<pillars, answer, idle>>
      /\ live' = [live EXCEPT !.expected[s] = @ + 1,
                              !.produced[s] = IF used THEN @ + 1 ELSE @,
                              !.busy[s] = @ \/ used]
  BY DEF Slot, vars
<1>2. ASSUME NEW o \in Owners
      PROVE  /\ live'.epoch = live.epoch
             /\ live'.produced[o] \in {live.produced[o], live.produced[o] + 1}
             /\ live'.busy[o] => live.busy[o] \/ live'.produced[o] = live.produced[o] + 1
  <2>1. live \in [epoch : Nat \ {0, 1}, produced : [Owners -> Nat],
                  expected : [Owners -> Nat], busy : [Owners -> BOOLEAN]]
    BY <1>1 DEF NetworkInv
  <2> QED
    BY <1>1, <2>1
<1>3. ASSUME NEW o \in Owners
      PROVE  /\ (pillars[o].present => pillars[o].epoch < live.epoch)'
             /\ (pillars[o].present /\ pillars[o].epoch = live.epoch - 1 => SeenSince(o))'
             /\ MissesCounted(o)'
  BY <1>1, <1>2, NetworkTypes DEF EarnedInv, SeenSince, MissesCounted
<1> QED
  BY <1>1, <1>3 DEF EarnedInv

LEMMA EarnedNewEpoch ==
  ASSUME TypeOK, NetworkInv, EarnedInv, NewEpoch
  PROVE  EarnedInv'
<1>1. live # Unknown /\ UNCHANGED <<pillars, answer, idle>>
  BY DEF NewEpoch, vars
<1>2. live'.epoch = live.epoch + 1
  <2>1. live \in [epoch : Nat \ {0, 1}, produced : [Owners -> Nat],
                  expected : [Owners -> Nat], busy : [Owners -> BOOLEAN]]
    BY <1>1 DEF NetworkInv
  <2> QED
    BY <2>1 DEF NewEpoch
<1>3. ASSUME NEW o \in Owners
      PROVE  /\ (pillars[o].present => pillars[o].epoch < live.epoch)'
             /\ (pillars[o].present => pillars[o].epoch # live.epoch - 1)'
             /\ MissesCounted(o)'
  BY <1>1, <1>2, NetworkTypes DEF EarnedInv, MissesCounted
<1> QED
  BY <1>1, <1>3 DEF EarnedInv

LEMMA EarnedRead ==
  ASSUME TypeOK, NetworkInv, EarnedInv, ReadPillars
  PROVE  EarnedInv'
<1>1. /\ live # Unknown /\ answer = NoAnswer /\ UNCHANGED pillars
      /\ live' = [live EXCEPT !.busy = [o \in Owners |-> FALSE]]
      /\ idle' = [o \in Owners |->
                   IF live.busy[o] THEN 0 ELSE Min({idle[o] + 1, Threshold})]
  BY DEF ReadPillars, vars
<1>2. ASSUME NEW o \in Owners
      PROVE  /\ live'.epoch = live.epoch /\ live'.produced[o] = live.produced[o]
             /\ live'.busy[o] = FALSE /\ answer'[o].produced = live.produced[o]
  <2>1. live \in [epoch : Nat \ {0, 1}, produced : [Owners -> Nat],
                  expected : [Owners -> Nat], busy : [Owners -> BOOLEAN]]
    BY <1>1 DEF NetworkInv
  <2> QED
    BY <1>1, <2>1 DEF ReadPillars
<1>3. ASSUME NEW o \in Owners
      PROVE  idle'[o] = IF live.busy[o] THEN 0
                        ELSE IF idle[o] + 1 <= Threshold THEN idle[o] + 1 ELSE Threshold
  <2>1. idle[o] + 1 \in Nat /\ Threshold \in Nat
    BY <1>1, NetworkTypes
  <2> QED
    BY <1>1, <2>1, SmallerOfTwo
<1>4. ASSUME NEW o \in Owners
      PROVE  answer' # NoAnswer
  <2>1. answer' \in [Owners -> {answer'[x] : x \in Owners}]
    BY DEF ReadPillars
  <2> QED
    BY <2>1 DEF NoAnswer
<1>5. ASSUME NEW o \in Owners
      PROVE  /\ (pillars[o].present => pillars[o].epoch < live.epoch)'
             /\ (pillars[o].present /\ pillars[o].epoch = live.epoch - 1 => SeenSince(o))'
             /\ MissesCounted(o)'
  <2>1. /\ pillars[o].present => pillars[o].epoch < live.epoch
        /\ pillars[o].present /\ pillars[o].epoch = live.epoch - 1 => SeenSince(o)
        /\ MissesCounted(o)
    BY <1>1 DEF EarnedInv
  <2>2. /\ live'.epoch = live.epoch /\ live'.produced[o] = live.produced[o]
        /\ live'.busy[o] = FALSE /\ answer'[o].produced = live.produced[o]
        /\ idle'[o] = IF live.busy[o] THEN 0
                      ELSE IF idle[o] + 1 <= Threshold THEN idle[o] + 1 ELSE Threshold
        /\ answer' # NoAnswer
    BY <1>2, <1>3, <1>4
  <2>3. /\ live.produced[o] \in Nat /\ live.busy[o] \in BOOLEAN /\ idle[o] \in Nat
        /\ pillars[o].missed \in Nat /\ pillars[o].produced \in Nat
        /\ Threshold \in Nat \ {0}
    BY <1>1, NetworkTypes
  <2>4. (pillars[o].present /\ pillars[o].epoch = live.epoch - 1 => SeenSince(o))'
    BY <1>1, <2>1, <2>2, <2>3 DEF SeenSince
  <2>5. MissesCounted(o)'
    BY <1>1, <2>1, <2>2, <2>3 DEF MissesCounted
  <2> QED
    BY <1>1, <2>1, <2>2, <2>4, <2>5
<1>6. idle' \in [Owners -> Nat]
  <2>1. ASSUME NEW o \in Owners
        PROVE  idle'[o] \in Nat
    <3>1. idle[o] + 1 \in Nat /\ Threshold \in Nat
      BY <1>1, NetworkTypes
    <3> QED
      BY <1>3, <3>1
  <2> QED
    BY <1>1, <2>1
<1> QED
  BY <1>5, <1>6 DEF EarnedInv

\* What a record makes of one row of a known network.
LEMMA RecordedRow ==
  ASSUME TypeOK, NetworkInv, EarnedInv, ReadEpochAndRecord, NEW o \in Owners
  PROVE  /\ pillars'[o] = Upserted(pillars[o], answer[o], live.epoch - 1)
         /\ pillars'[o].missed > 0 =>
              /\ pillars[o].present /\ pillars[o].epoch = live.epoch - 1
              /\ pillars'[o].missed <= pillars[o].missed + 1
              /\ pillars[o].missed > 0 => idle[o] > 0
         /\ pillars[o].status = "active" /\ pillars'[o].status = "inactive" =>
              /\ pillars[o].missed + 1 >= Threshold
              /\ pillars[o].missed > 0 => idle[o] > 0
<1> DEFINE epoch == live.epoch - 1
           new == Upserted(pillars[o], answer[o], epoch)
<1>1. answer # NoAnswer /\ live # Unknown /\ Observe(answer, epoch, {})
  BY DEF ReadEpochAndRecord, NetworkInv
<1>2. /\ answer \in [Owners -> AnyReading] /\ answer[o].produced \in Nat
      /\ live.epoch \in Nat \ {0, 1} /\ pillars[o].epoch \in Nat
      /\ pillars[o].missed \in Nat /\ pillars[o].produced \in Nat
      /\ pillars[o].present \in BOOLEAN /\ idle[o] \in Nat
  BY <1>1, NetworkTypes
<1>3. pillars'[o] = new
  BY <1>1, <1>2 DEF Observe, NewRow
<1>4. /\ new.missed = MissedMomentums(pillars[o], answer[o], epoch)
      /\ new.status = Status(pillars[o], answer[o], epoch)
  BY DEF Upserted
<1>5. ASSUME pillars[o].present, ~Reset(pillars[o], answer[o], epoch),
             answer[o].produced = pillars[o].produced
      PROVE  /\ pillars[o].epoch = epoch
             /\ pillars[o].missed > 0 => idle[o] > 0
  <2>1. ~(epoch > pillars[o].epoch) /\ pillars[o].epoch < live.epoch
    BY <1>1, <1>5 DEF Reset, EarnedInv
  <2>2. pillars[o].epoch = epoch
    BY <1>2, <2>1
  <2>3. SeenSince(o)
    BY <1>1, <1>5, <2>2 DEF EarnedInv
  <2> QED
    BY <1>1, <1>2, <1>5, <2>2, <2>3 DEF SeenSince
<1>6. new.missed > 0 => /\ pillars[o].present /\ ~Reset(pillars[o], answer[o], epoch)
                        /\ answer[o].produced = pillars[o].produced
                        /\ new.missed <= pillars[o].missed + 1
  <2> HIDE DEF new, epoch
  <2> QED
    BY <1>2, <1>4 DEF MissedMomentums, Miss, FirstSight
<1>7. pillars[o].status = "active" /\ new.status = "inactive" =>
        /\ pillars[o].present /\ ~Reset(pillars[o], answer[o], epoch)
        /\ answer[o].produced = pillars[o].produced
        /\ pillars[o].missed + 1 >= Threshold
  <2> HIDE DEF new, epoch
  <2> QED
    BY <1>4 DEF Status, Miss, FirstSight
<1> HIDE DEF new
<1> QED
  BY <1>3, <1>5, <1>6, <1>7 DEF new

LEMMA EarnedRecord ==
  ASSUME TypeOK, NetworkInv, EarnedInv, ReadEpochAndRecord
  PROVE  EarnedInv'
<1>1. /\ answer # NoAnswer /\ live # Unknown /\ answer' = NoAnswer
      /\ UNCHANGED <<live, idle>>
  BY DEF ReadEpochAndRecord, NetworkInv
<1>2. ASSUME NEW o \in Owners
      PROVE  /\ (pillars[o].present => pillars[o].epoch < live.epoch)'
             /\ (pillars[o].present /\ pillars[o].epoch = live.epoch - 1 => SeenSince(o))'
             /\ MissesCounted(o)'
  <2>1. /\ pillars'[o].epoch = live.epoch - 1
        /\ pillars'[o].produced = answer[o].produced
    <3>1. pillars'[o] = Upserted(pillars[o], answer[o], live.epoch - 1)
      BY RecordedRow
    <3> QED
      BY <3>1 DEF Upserted
  <2>2. /\ pillars[o].present /\ pillars[o].epoch = live.epoch - 1 => SeenSince(o)
        /\ MissesCounted(o)
    BY <1>1 DEF EarnedInv
  <2>3. /\ live.epoch \in Nat \ {0, 1} /\ idle[o] \in Nat /\ pillars[o].missed \in Nat
        /\ live.produced[o] \in Nat /\ answer[o].produced \in Nat
        /\ Threshold \in Nat \ {0}
    BY <1>1, NetworkTypes
  <2>4. pillars'[o].missed \in Nat
    <3>1. Upserted(pillars[o], answer[o], live.epoch - 1).missed
            = MissedMomentums(pillars[o], answer[o], live.epoch - 1)
      BY DEF Upserted
    <3> QED
      BY <2>3, <3>1, RecordedRow DEF MissedMomentums
  <2>5. pillars'[o].missed > 0 =>
          /\ pillars[o].present /\ pillars[o].epoch = live.epoch - 1
          /\ pillars'[o].missed <= pillars[o].missed + 1
          /\ pillars[o].missed > 0 => idle[o] > 0
    BY RecordedRow
  <2>6. SeenSince(o)'
    BY <1>1, <2>1, <2>2, <2>3, <2>5 DEF SeenSince
  <2>7. MissesCounted(o)'
    BY <1>1, <2>2, <2>3, <2>4, <2>5 DEF MissesCounted
  <2>8. pillars'[o].epoch < live'.epoch
    BY <1>1, <2>1, <2>3
  <2> QED
    BY <2>6, <2>7, <2>8
<1> QED
  BY <1>1, <1>2 DEF EarnedInv

LEMMA EarnedStep ==
  ASSUME TypeOK, NetworkInv, EarnedInv, [RNext]_rvars
  PROVE  EarnedInv'
<1>1. CASE ReadUnknown
  BY <1>1 DEF ReadUnknown, EarnedInv
<1>2. CASE UNCHANGED rvars
  BY <1>2 DEF rvars, vars, EarnedInv, SeenSince, MissesCounted
<1> QED
  BY <1>1, <1>2, EarnedSlot, EarnedNewEpoch, EarnedRead, EarnedRecord DEF RNext

LEMMA EarnedAlways == RSpec => [](TypeOK /\ NetworkInv /\ EarnedInv)
<1>1. RInit => EarnedInv
  <2> SUFFICES ASSUME RInit
               PROVE  EarnedInv
    OBVIOUS
  <2>1. idle = [o \in Owners |-> 0] /\ answer = NoAnswer /\ Init
    BY DEF RInit
  <2>2. \A o \in Owners : pillars[o] = NoRow
    BY <2>1 DEF Init
  <2>3. NoRow.present = FALSE /\ NoRow.missed = 0
    BY DEF NoRow
  <2>4. \A o \in Owners : ~pillars[o].present /\ pillars[o].missed = 0
    BY <2>2, <2>3
  <2> QED
    BY <2>1, <2>4 DEF EarnedInv, MissesCounted
<1>2. TablesInv => TypeOK
  BY DEF TablesInv
<1>3. (TypeOK /\ NetworkInv) /\ EarnedInv /\ [RNext]_rvars => EarnedInv'
  BY EarnedStep
<1> QED
  BY <1>1, <1>2, <1>3, TablesAlways, PTL DEF RSpec
-----------------------------------------------------------------------------
(***************************************************************************)
(* The theorems                                                            *)
(***************************************************************************)

\* The tables hold rows of their types, and a pillar is present exactly when its
\* status says so, whatever record_observation is given.
THEOREM ObservationTypeCorrect == RSpec => []TypeOK
<1>1. TablesInv => TypeOK
  BY DEF TablesInv
<1> QED
  BY <1>1, TablesAlways, PTL

\* Whoever applies the events of record_observation in order knows the present
\* pillars, their names, shares and status, and the newest epoch.
THEOREM PillarFeedRebuildsTable == RSpec => []FeedRebuildsTable
<1>1. TablesInv => FeedRebuildsTable
  BY NewestEpoch DEF TablesInv, FeedInv, FeedRebuildsTable
<1> QED
  BY <1>1, TablesAlways, PTL

\* A pillar that update_pillar_status calls inactive was last seen producing at
\* least Threshold observations ago.
THEOREM InactiveIsQuiet == RSpec => []InactiveMeansQuiet
<1>1. TablesInv => InactiveMeansQuiet
  BY DEF TablesInv, QuietInv, InactiveMeansQuiet
<1> QED
  BY <1>1, TablesAlways, PTL

\* No epoch_available event repeats an epoch or goes back to an older one.
THEOREM EpochsIncrease == RSpec => EpochFeedIncreases
<1>1. TablesInv /\ NetworkInv /\ [RNext]_rvars
        => [\A e \in events' : e.type = "epoch_available" => e.epoch > view.epoch]_vars
  <2> SUFFICES ASSUME TablesInv, NetworkInv, [RNext]_rvars, ~UNCHANGED vars,
                      NEW e \in events', e.type = "epoch_available"
               PROVE  e.epoch > view.epoch
    OBVIOUS
  <2>1. PICK listed \in SUBSET Owners, epoch \in Nat, history \in SUBSET Nat :
          \E reading \in [listed -> AnyReading] : Observe(reading, epoch, history)
    BY AnyStep
  <2>2. PICK reading \in [listed -> AnyReading] : Observe(reading, epoch, history)
    BY <2>1
  <2>3. e \in EpochEvents(epoch)
    BY <2>2, EpochNews DEF Observe
  <2> QED
    BY <2>3, EpochIsNewer
<1> QED
  BY <1>1, TablesAlways, PTL DEF RSpec, EpochFeedIncreases
\* Whatever the epochs do between the answers of the nodes, evaluate_pillar_status
\* turns a pillar inactive only after reads in a row that saw it produce nothing, as
\* many as the threshold or one less.
THEOREM AlarmsAlwaysEarned == RSpec => AlarmsAreEarned
<1>1. TypeOK /\ NetworkInv /\ EarnedInv /\ [RNext]_rvars
        => [live # Unknown => \A o \in Owners :
              pillars[o].status = "active" /\ pillars'[o].status = "inactive"
                => idle[o] >= Threshold - 1]_rvars
  <2> SUFFICES ASSUME TypeOK, NetworkInv, EarnedInv, RNext, live # Unknown,
                      NEW o \in Owners, pillars[o].status = "active",
                      pillars'[o].status = "inactive"
               PROVE  idle[o] >= Threshold - 1
    OBVIOUS
  <2>1. ReadEpochAndRecord
    BY DEF RNext, Slot, NewEpoch, ReadPillars, ReadUnknown, vars
  <2>2. answer # NoAnswer /\ MissesCounted(o)
    BY <2>1 DEF ReadEpochAndRecord, EarnedInv
  <2>3. /\ pillars[o].missed + 1 >= Threshold
        /\ pillars[o].missed > 0 => idle[o] > 0
    BY <2>1, RecordedRow
  <2> QED
    BY <2>2, <2>3, NetworkTypes DEF MissesCounted
<1> QED
  BY <1>1, EarnedAlways, PTL DEF RSpec, AlarmsAreEarned
-----------------------------------------------------------------------------
(***************************************************************************)
(* The collector: what a poll holds, and what it has written so far        *)
(***************************************************************************)

\* A poll knows the row of node_state as it is until it writes it, and what it
\* records is newer.
PollKnowsNode ==
  /\ run.pc \in {"prepared", "success", "recorded", "stale", "reorg"} => run.previous = node
  /\ run.pc \in {"success", "recorded"} => run.height > node.height
  /\ run.pc = "recorded" => committed = run.height
  /\ run.pc = "stale" => node.stale < MaxStale

\* The cursor is behind the observations only between the two transactions, or when
\* a fault came there.
CursorInv ==
  /\ committed \in 0 .. MaxHeight /\ budget \in 0 .. MaxFaults
  /\ node.height <= committed
  /\ budget = MaxFaults /\ run.pc # "recorded" => committed = node.height

\* A row of poll_runs is running until its poll has written node_state; one that
\* is closed agrees with it, also while an exception is handled.
RowAgrees ==
  /\ poll = "success" => /\ node.health = "healthy" /\ node.stale = 0
                         /\ node.height = committed
  /\ poll = "stale" => /\ node.stale > 0
                       /\ (node.health = "stale") <=> (node.stale >= Grace)
  /\ poll = "reorg" => node.health = "reorg"

PollInv ==
  /\ RowAgrees
  /\ run.pc \notin {"idle", "dispatching"} \cup Failing => poll = "running"
  /\ run.pc = "failed marked" => poll = "failed"
  /\ run.pc = "advanced" => /\ node.health = "healthy" /\ node.stale = 0
                            /\ node.height = committed
  /\ run.pc = "stale marked" => /\ node.stale > 0
                                /\ (node.health = "stale") <=> (node.stale >= Grace)
  /\ run.pc = "reorg marked" => node.health = "reorg"

\* Once something was recorded there are snapshots, and a poll that is a bootstrap
\* still sees none.
KeepUpInv ==
  /\ ~gap => /\ told = view
             /\ epochs # {} => \E a \in snapshots : a <= Retention
  /\ run.pc \in {"prepared", "success"} => (run.bootstrap => snapshots = {})

CursorsInv == CollectorTypeOK /\ PollKnowsNode /\ CursorInv /\ PollInv

\* What a poll holds, by where it is.
LEMMA RunFields ==
  ASSUME run \in Run
  PROVE  /\ run.pc \in {"idle", "begun", "prepared"} \cup Answered \cup Failing
         /\ run.pc \in {"prepared"} \cup Answered =>
              run.previous \in NodeRow /\ run.bootstrap \in BOOLEAN
         /\ run.pc \in Answered =>
              run.height \in 1 .. MaxHeight /\ run.momentum \in Momentum
BY DEF Run, Answered, Failing

\* An answer is a success only if its momentum is newer.
LEMMA AnswerStep ==
  ASSUME NEW h, Collect(h) \/ NodeSyncing(h)
  PROVE  \E status \in {"success", "stale", "reorg"} :
           Answer(h, status) /\ (status = "success" => Verdict(h) = "success")
BY DEF Collect, NodeSyncing, Verdict

\* A poll that goes on keeps what it holds.
LEMMA GotoStep ==
  ASSUME run \in Run, NEW step, Goto(step),
         step \in Failing \/ (run.pc \in Answered /\ step \in Answered)
  PROVE  /\ run' \in Run /\ run'.pc = step
         /\ run.pc \in Answered => /\ run'.previous = run.previous
                                   /\ run'.bootstrap = run.bootstrap
                                   /\ run'.height = run.height
                                   /\ run'.momentum = run.momentum
<1>1. run' = [run EXCEPT !.pc = step]
  BY DEF Goto
<1>2. CASE run \in [pc : {"idle", "begun"} \cup Failing]
  BY <1>1, <1>2 DEF Run, Answered, Failing
<1>3. CASE run \in [pc : {"prepared"} \cup Failing, previous : NodeRow, bootstrap : BOOLEAN]
  BY <1>1, <1>3 DEF Run, Answered, Failing
<1>4. CASE run \in [pc : Answered \cup Failing, previous : NodeRow, bootstrap : BOOLEAN,
                    height : 1 .. MaxHeight, momentum : Momentum]
  BY <1>1, <1>4 DEF Run
<1> QED
  BY <1>2, <1>3, <1>4 DEF Run

\* The chain stays a chain.
LEMMA ChainStep ==
  ASSUME CollectorTypeOK, Grow \/ Fork
  PROVE  chain' \in Seq(Momentum) /\ Len(chain') \in 1 .. MaxHeight
<1>1. chain \in Seq(Momentum) /\ Len(chain) \in 1 .. MaxHeight
  BY DEF CollectorTypeOK
<1>2. CASE Grow
  <2>1. PICK m \in Momentum : chain' = Append(chain, m) /\ Len(chain) < MaxHeight
    BY <1>2 DEF Grow
  <2> QED
    BY <1>1, <2>1, AppendProperties, CollectorBounds
<1>3. CASE Fork
  <2>1. PICK f \in Forks : chain' = [chain EXCEPT ![Len(chain)].fork = f]
    BY <1>3 DEF Fork
  <2>2. chain[Len(chain)] \in Momentum /\ Len(chain) \in 1 .. Len(chain)
    BY <1>1, ElementOfSeq
  <2>3. [chain[Len(chain)] EXCEPT !.fork = f] \in Momentum
    BY <2>1, <2>2 DEF Momentum
  <2>4. chain' = [chain EXCEPT ![Len(chain)] = [chain[Len(chain)] EXCEPT !.fork = f]]
    BY <2>1
  <2> QED
    BY <1>1, <2>2, <2>3, <2>4, ExceptSeq
<1> QED
  BY <1>2, <1>3

\* Where each action takes a poll from, and where to.
LEMMA Transitions ==
  ASSUME run \in Run
  PROVE  /\ Begin => run'.pc = "begun"
         /\ Prepare => run'.pc = "prepared"
         /\ CloseStale \/ CloseReorg \/ Dispatched \/ HealthError \/ Crash => run'.pc = "idle"
         /\ CollectFails => run'.pc = "failing"
         /\ MarkFailed => run'.pc = "failed marked"
         /\ DatabaseRaises => run'.pc \in {"failing", "idle"}
         /\ Record => run'.pc = "recorded"
         /\ Advance => run'.pc = "advanced"
         /\ Succeed => run'.pc = "dispatching"
         /\ MarkStale => run'.pc = "stale marked"
         /\ MarkReorg => run'.pc = "reorg marked"
<1>1. (Begin => run'.pc = "begun") /\ (Prepare => run'.pc = "prepared")
  BY DEF Begin, Prepare
<1>2. run' = Idle => run'.pc = "idle"
  BY DEF Idle
<1>3. ASSUME CloseStale \/ CloseReorg \/ Dispatched \/ HealthError \/ Crash
      PROVE  run'.pc = "idle"
  BY <1>2, <1>3 DEF CloseStale, CloseReorg, Close, Dispatched, HealthError, Crash
<1>4. ASSUME Goto("failing")
      PROVE  run'.pc = "failing"
  BY <1>4, GotoStep DEF Failing
<1>5. (CollectFails => run'.pc = "failing") /\ (DatabaseRaises => run'.pc \in {"failing", "idle"})
  BY <1>2, <1>4 DEF CollectFails, DatabaseRaises
<1>6. MarkFailed => run'.pc = "failed marked"
  BY GotoStep DEF MarkFailed, Failing
<1>7. Record => run'.pc = "recorded"
  BY GotoStep DEF Record, Answered
<1>8. Advance => run'.pc = "advanced"
  BY GotoStep DEF Advance, Answered
<1>9. Succeed => run'.pc = "dispatching"
  BY GotoStep DEF Succeed, Answered
<1>10. MarkStale => run'.pc = "stale marked"
  BY GotoStep DEF MarkStale, Answered
<1>11. MarkReorg => run'.pc = "reorg marked"
  BY GotoStep DEF MarkReorg, Answered
<1> QED
  BY <1>1, <1>3, <1>5, <1>6, <1>7, <1>8, <1>9, <1>10, <1>11

LEMMA CollectorTypes ==
  ASSUME CollectorTypeOK, PollKnowsNode, [CNext]_cvars
  PROVE  CollectorTypeOK'
<1> USE DEF CollectorTypeOK, tables
<1>1. /\ MaxHeight \in Nat \ {0} /\ MaxStale \in Nat
      /\ run \in Run /\ node \in NodeRow
  BY CollectorBounds
<1>0. gap' \in BOOLEAN
  <2>1. UNCHANGED gap \/ NoteGap
    BY DEF CNext, Step, cvars, Grow, Fork, Day, Prune, Begin, Prepare, Collect, NodeSyncing,
       Answer, CollectFails, Record, Advance, Succeed, Dispatched, MarkStale, CloseStale,
       MarkReorg, CloseReorg, Close, MarkFailed, HealthError, DatabaseRaises, Crash
  <2> QED
    BY <2>1 DEF NoteGap
<1> USE <1>0
<1>2. CASE Grow \/ Fork
  <2>1. UNCHANGED <<node, poll, run>>
    BY <1>2 DEF Grow, Fork
  <2>2. UNCHANGED <<snapshots, budget, committed>>
    BY <1>2 DEF Grow, Fork
  <2> QED
    BY <1>2, <2>1, <2>2, ChainStep
<1>3. CASE Day \/ Prune
  <2>1. snapshots' \subseteq 0 .. Retention + 1
    <3>1. CASE Day
      <4>1. SUFFICES ASSUME NEW a \in snapshots
                     PROVE  Min({a + 1, Retention + 1}) \in 0 .. Retention + 1
        BY <3>1 DEF Day
      <4> QED
        BY CollectorBounds, SmallerOfTwo
    <3> QED
      BY <1>3, <3>1 DEF Prune
  <2> QED
    BY <1>3, <2>1 DEF Day, Prune
<1>4. CASE Begin \/ CloseStale \/ CloseReorg
  <2>1. Idle \in Run /\ [pc |-> "begun"] \in Run
    BY DEF Idle, Run
  <2> QED
    BY <1>4, <2>1 DEF Begin, CloseStale, CloseReorg, Close
<1>5. CASE Prepare
  <2>1. [pc |-> "prepared", previous |-> node, bootstrap |-> snapshots = {}] \in Run
    BY <1>1 DEF Run
  <2> QED
    BY <1>5, <2>1 DEF Prepare
<1>6. ASSUME NEW h \in 1 .. Len(chain), Collect(h) \/ NodeSyncing(h)
      PROVE  CollectorTypeOK'
  <2>1. chain[h] \in Momentum /\ h \in 1 .. MaxHeight
    BY ElementOfSeq, <1>1
  <2>2. PICK status \in {"success", "stale", "reorg"} : Answer(h, status)
    BY <1>6, AnswerStep
  <2>3. run.previous \in NodeRow /\ run.bootstrap \in BOOLEAN
    BY <1>1, <2>2, RunFields DEF Answer
  <2>4. run' = [pc |-> status, previous |-> run.previous, bootstrap |-> run.bootstrap,
                height |-> h, momentum |-> chain[h]]
    BY <2>2 DEF Answer
  <2>5. run' \in Run
    BY <2>1, <2>3, <2>4 DEF Run, Answered
  <2> QED
    BY <2>2, <2>5 DEF Answer
<1>7. CASE CollectFails \/ MarkFailed
  <2>1. run' \in Run
    BY <1>1, <1>7, GotoStep DEF CollectFails, MarkFailed, Failing
  <2> QED
    BY <1>7, <2>1 DEF CollectFails, MarkFailed
<1>8. CASE Succeed
  <2>1. run' \in Run
    BY <1>1, <1>8, GotoStep DEF Succeed, Answered
  <2> QED
    BY <1>8, <2>1 DEF Succeed
<1>9. CASE Record
  <2>1. run' \in Run
    BY <1>1, <1>9, GotoStep DEF Record, Answered
  <2>2. run.height \in 1 .. MaxHeight
    BY <1>1, <1>9, RunFields DEF Record, Answered
  <2>3. committed' \in 0 .. MaxHeight
    BY <1>9, <2>2 DEF Record
  <2>4. snapshots' \subseteq 0 .. Retention + 1
    BY <1>9, CollectorBounds DEF Record
  <2>5. UNCHANGED <<chain, node, poll, budget>>
    BY <1>9 DEF Record
  <2> QED
    BY <2>1, <2>3, <2>4, <2>5
<1>10. CASE Advance
  <2>1. run' \in Run
    BY <1>1, <1>10, GotoStep DEF Advance, Answered
  <2>2. run.height \in 1 .. MaxHeight /\ run.momentum.fork \in Forks
    BY <1>1, <1>10, RunFields DEF Advance, Answered, Momentum
  <2>3. node' \in NodeRow
    BY <1>1, <1>10, <2>2 DEF Advance, NodeRow
  <2> QED
    BY <1>10, <2>1, <2>3 DEF Advance
<1>11. Idle \in Run
  BY DEF Idle, Run
<1>12. budget' \in 0 .. MaxFaults
  <2>1. CASE DatabaseRaises \/ Crash
    BY <2>1, CollectorBounds DEF DatabaseRaises, Crash
  <2>2. CASE UNCHANGED budget
    BY <2>2
  <2> QED
    BY <2>1, <2>2 DEF CNext, Step, cvars, Grow, Fork, Day, Prune, Begin, Prepare, Collect,
       NodeSyncing, Answer, CollectFails, Record, Advance, Succeed, Dispatched, MarkStale, CloseStale, MarkReorg,
       CloseReorg, Close, MarkFailed, HealthError
<1>13. CASE Dispatched \/ Crash
  BY <1>13, <1>11, <1>12 DEF Dispatched, Crash
<1>14. CASE MarkStale
  <2>1. run' \in Run
    BY <1>1, <1>14, GotoStep DEF MarkStale, Answered
  <2>2. run.previous \in NodeRow /\ run.previous.stale < MaxStale
    BY <1>1, <1>14, RunFields DEF MarkStale, Answered, PollKnowsNode
  <2>3. node' = [run.previous EXCEPT !.stale = run.previous.stale + 1,
                   !.health = IF run.previous.stale + 1 >= Grace THEN "stale" ELSE "healthy"]
    BY <1>14 DEF MarkStale
  <2>4. run.previous.stale + 1 \in 0 .. MaxStale
    BY <1>1, <2>2 DEF NodeRow
  <2>5. node' \in NodeRow
    BY <2>2, <2>3, <2>4 DEF NodeRow
  <2> QED
    BY <1>14, <2>1, <2>5 DEF MarkStale
<1>15. CASE MarkReorg
  <2>1. run' \in Run
    BY <1>1, <1>15, GotoStep DEF MarkReorg, Answered
  <2>2. node' \in NodeRow
    BY <1>1, <1>15, RunFields DEF MarkReorg, Answered, NodeRow
  <2> QED
    BY <1>15, <2>1, <2>2 DEF MarkReorg
<1>16. CASE HealthError
  <2>1. node' \in NodeRow
    BY <1>1, <1>16 DEF HealthError, NodeRow
  <2> QED
    BY <1>16, <1>11, <2>1 DEF HealthError
<1>17. CASE DatabaseRaises
  <2>1. CASE run.pc \in Failing
    BY <1>17, <1>11, <1>12, <2>1 DEF DatabaseRaises
  <2>2. CASE run.pc \notin Failing
    <3>1. run' \in Run
      BY <1>1, <1>17, <2>2, GotoStep DEF DatabaseRaises, Failing
    <3> QED
      BY <1>17, <1>12, <3>1 DEF DatabaseRaises
  <2> QED
    BY <2>1, <2>2
<1>18. CASE UNCHANGED cvars
  BY <1>18 DEF cvars
<1> QED
  BY <1>2, <1>3, <1>4, <1>5, <1>6, <1>7, <1>8, <1>10, <1>13, <1>14, <1>15, <1>16, <1>17,
     <1>18, <1>9 DEF CNext, Step

\* What a poll that is somewhere else holds is not affected by the calendar and the
\* network, and neither are the rows.
LEMMA PollKnowsNodeStep ==
  ASSUME CursorsInv, [CNext]_cvars
  PROVE  PollKnowsNode'
<1> USE DEF CursorsInv, CollectorTypeOK, PollKnowsNode, CursorInv
<1>1. /\ MaxHeight \in Nat \ {0} /\ MaxStale \in Nat
      /\ run \in Run /\ node \in NodeRow
  BY CollectorBounds
<1>2. CASE UNCHANGED <<node, run, committed>>
  BY <1>2
<1>3. CASE Grow \/ Fork \/ Day \/ Prune \/ UNCHANGED cvars
  BY <1>2, <1>3 DEF Grow, Fork, Day, Prune, cvars, tables
<1>4. CASE Begin \/ CloseStale \/ CloseReorg \/ Dispatched \/ HealthError \/ Crash
  <2>1. run'.pc \in {"begun", "idle"}
    BY <1>1, <1>4, Transitions
  <2> QED
    BY <2>1
<1>5. CASE Prepare
  BY <1>5 DEF Prepare
<1>6. ASSUME NEW h \in 1 .. Len(chain), Collect(h) \/ NodeSyncing(h)
      PROVE  PollKnowsNode'
  <2>1. PICK status \in {"success", "stale", "reorg"} :
          Answer(h, status) /\ (status = "success" => Verdict(h) = "success")
    BY <1>6, AnswerStep
  <2>2. run.previous = node /\ node.height \in 0 .. MaxHeight
    BY <1>1, <2>1 DEF Answer, NodeRow
  <2>3. /\ run'.pc = status /\ run'.previous = node /\ run'.height = h
        /\ node' = node
        /\ status = "stale" => node.stale < MaxStale
    BY <2>1, <2>2 DEF Answer
  <2>4. status = "success" => h > node.height
    BY <2>1, <2>2 DEF Verdict
  <2> QED
    BY <2>3, <2>4
<1>7. CASE CollectFails \/ MarkFailed \/ DatabaseRaises
  <2>1. run'.pc \in Failing \cup {"idle"}
    BY <1>1, <1>7, Transitions DEF Failing
  <2> QED
    BY <2>1 DEF Failing
<1>8. CASE Record
  <2>1. /\ run'.pc = "recorded" /\ run'.previous = run.previous /\ run'.height = run.height
    BY <1>1, <1>8, GotoStep DEF Record, Answered
  <2>2. UNCHANGED node /\ committed' = run.height /\ run.pc = "success"
    BY <1>8 DEF Record
  <2> QED
    BY <2>1, <2>2
<1>9. CASE Advance \/ Succeed \/ MarkStale \/ MarkReorg
  <2>1. run'.pc \in {"advanced", "dispatching", "stale marked", "reorg marked"}
    BY <1>1, <1>9, Transitions
  <2> QED
    BY <2>1
<1> QED
  BY <1>3, <1>4, <1>5, <1>6, <1>7, <1>8, <1>9 DEF CNext, Step

\* The cursor moves only to what is committed.
LEMMA CursorStep ==
  ASSUME CursorsInv, [CNext]_cvars
  PROVE  /\ CursorInv'
         /\ node'.height >= node.height
         /\ budget = MaxFaults => committed' >= committed
<1> USE DEF CursorsInv, CollectorTypeOK, PollKnowsNode, CursorInv
<1>1. /\ MaxHeight \in Nat \ {0} /\ MaxStale \in Nat /\ MaxFaults \in Nat
      /\ run \in Run /\ node \in NodeRow /\ node.height \in 0 .. MaxHeight
  BY CollectorBounds DEF NodeRow
<1>2. ASSUME UNCHANGED <<committed, budget>>, node'.height = node.height,
             (run.pc # "recorded" /\ run'.pc # "recorded") \/ UNCHANGED run
      PROVE  /\ CursorInv'
             /\ node'.height >= node.height
             /\ budget = MaxFaults => committed' >= committed
  BY <1>2, <1>1
<1>3. CASE Grow \/ Fork \/ Day \/ Prune \/ UNCHANGED cvars
  BY <1>2, <1>3 DEF Grow, Fork, Day, Prune, cvars, tables
<1>4. CASE Begin \/ Prepare \/ CloseStale \/ CloseReorg \/ Dispatched
  <2>1. run'.pc \in {"begun", "prepared", "idle"}
    BY <1>1, <1>4, Transitions
  <2> QED
    BY <1>2, <1>4, <2>1 DEF Begin, Prepare, CloseStale, CloseReorg, Close, Dispatched, tables
<1>5. ASSUME NEW h \in 1 .. Len(chain), Collect(h) \/ NodeSyncing(h)
      PROVE  UNCHANGED <<committed, budget, node>> /\ run.pc # "recorded" /\ run'.pc # "recorded"
  BY <1>5, AnswerStep DEF Answer, tables
<1>6. CASE CollectFails \/ MarkFailed \/ Succeed
  <2>1. run'.pc # "recorded"
    BY <1>1, <1>6, Transitions
  <2> QED
    BY <1>2, <1>6, <2>1 DEF CollectFails, MarkFailed, Succeed, tables
<1>7. CASE Record
  <2>1. run'.pc = "recorded"
    BY <1>1, <1>7, GotoStep DEF Record, Answered
  <2>2. run.height \in 1 .. MaxHeight
    BY <1>1, <1>7, RunFields DEF Record, Answered
  <2>3. run.pc = "success" /\ committed' = run.height /\ UNCHANGED <<node, budget>>
    BY <1>7 DEF Record
  <2> QED
    BY <1>1, <2>1, <2>2, <2>3
<1>8. CASE Advance
  <2>1. run'.pc = "advanced"
    BY <1>1, <1>8, GotoStep DEF Advance, Answered
  <2>2. run.pc = "recorded" /\ node'.height = run.height /\ UNCHANGED <<committed, budget>>
    BY <1>8 DEF Advance, tables
  <2> QED
    BY <1>1, <2>1, <2>2
<1>9. CASE MarkStale \/ MarkReorg
  <2>1. run'.pc # "recorded" /\ run.previous = node /\ run.pc # "recorded"
    BY <1>1, <1>9, Transitions DEF MarkStale, MarkReorg
  <2>2. node'.height = node.height
    BY <1>1, <1>9, <2>1 DEF MarkStale, MarkReorg, NodeRow
  <2> QED
    BY <1>2, <1>9, <2>1, <2>2 DEF MarkStale, MarkReorg, tables
<1>10. CASE HealthError
  <2>1. node'.height = node.height
    BY <1>1, <1>10 DEF HealthError, NodeRow
  <2> QED
    BY <1>2, <1>10, <2>1 DEF HealthError, tables, Idle
<1>11. CASE DatabaseRaises \/ Crash
  <2>1. budget' < MaxFaults /\ budget' \in 0 .. MaxFaults /\ UNCHANGED <<committed, node>>
    BY <1>1, <1>11 DEF DatabaseRaises, Crash, tables
  <2> QED
    BY <1>1, <2>1
<1> QED
  BY <1>2, <1>3, <1>4, <1>5, <1>6, <1>7, <1>8, <1>9, <1>10, <1>11 DEF CNext, Step

\* What _mark_stale writes.
LEMMA CountedRow ==
  ASSUME NEW row \in NodeRow, NEW count, NEW health
  PROVE  LET new == [row EXCEPT !.stale = count, !.health = health]
         IN  new.stale = count /\ new.health = health
BY DEF NodeRow

\* The health that _mark_stale writes is the one of its count.
LEMMA MarkStaleCounts ==
  ASSUME node \in NodeRow, run.previous = node, MarkStale
  PROVE  node'.stale > 0 /\ (node'.health = "stale" <=> node'.stale >= Grace)
<1>1. node' = [node EXCEPT !.stale = node.stale + 1,
                 !.health = IF node.stale + 1 >= Grace THEN "stale" ELSE "healthy"]
  BY DEF MarkStale
<1>2. /\ node'.stale = node.stale + 1
      /\ node'.health = IF node.stale + 1 >= Grace THEN "stale" ELSE "healthy"
  BY <1>1, CountedRow
<1>3. node.stale \in Nat /\ Grace \in Nat
  BY CollectorBounds DEF NodeRow
<1> QED
  BY <1>2, <1>3

\* A closed row stays true while an exception is handled, and is made true by the
\* write of node_state that precedes it.
LEMMA PollStep ==
  ASSUME CursorsInv, [CNext]_cvars
  PROVE  PollInv'
<1> USE DEF CursorsInv, PollInv
<1>1. /\ Grace \in Nat \ {0} /\ MaxStale \in Nat
      /\ run \in Run /\ node \in NodeRow
  BY CollectorBounds DEF CollectorTypeOK
<1>2. ASSUME poll' = "running",
             run'.pc \notin {"failed marked", "advanced", "stale marked", "reorg marked"}
      PROVE  PollInv'
  BY <1>2 DEF RowAgrees
<1>3. ASSUME UNCHANGED <<poll, node, committed>>,
             UNCHANGED run \/ run'.pc \in {"failing", "idle"}
      PROVE  PollInv'
  BY <1>3 DEF RowAgrees, Failing
<1>4. CASE Grow \/ Fork \/ Day \/ Prune \/ UNCHANGED cvars
  BY <1>3, <1>4 DEF Grow, Fork, Day, Prune, cvars, tables
<1>5. CASE CollectFails \/ Dispatched \/ DatabaseRaises \/ Crash
  <2>1. run'.pc \in {"failing", "idle"}
    BY <1>1, <1>5, Transitions
  <2> QED
    BY <1>3, <1>5, <2>1 DEF CollectFails, Dispatched, DatabaseRaises, Crash, tables
<1>6. CASE Begin \/ Prepare \/ Record
  <2>1. run'.pc \in {"begun", "prepared", "recorded"}
    BY <1>1, <1>6, Transitions
  <2>2. poll' = "running"
    BY <1>6 DEF Begin, Prepare, Record, Failing
  <2> QED
    BY <1>2, <2>1, <2>2
<1>7. ASSUME NEW h \in 1 .. Len(chain), Collect(h) \/ NodeSyncing(h)
      PROVE  PollInv'
  <2>1. PICK status \in {"success", "stale", "reorg"} : Answer(h, status)
    BY <1>7, AnswerStep
  <2>2. run.pc = "prepared" /\ poll' = poll /\ run'.pc = status
    BY <2>1 DEF Answer
  <2>3. poll' = "running"
    BY <2>2 DEF Failing
  <2> QED
    BY <1>2, <2>2, <2>3
<1>8. CASE Advance
  <2>1. run'.pc = "advanced" /\ run.pc = "recorded" /\ poll' = "running"
    BY <1>1, <1>8, Transitions DEF Advance, Failing
  <2>2. node'.health = "healthy" /\ node'.stale = 0 /\ node'.height = committed'
    BY <1>8 DEF Advance, PollKnowsNode, tables
  <2> QED
    BY <2>1, <2>2 DEF RowAgrees
<1>9. CASE Succeed
  <2>1. run'.pc = "dispatching" /\ run.pc = "advanced" /\ poll' = "success"
    BY <1>1, <1>9, Transitions DEF Succeed
  <2>2. UNCHANGED <<node, committed>>
    BY <1>9 DEF Succeed, tables
  <2> QED
    BY <2>1, <2>2 DEF RowAgrees
<1>10. CASE MarkStale
  <2>1. run'.pc = "stale marked" /\ run.pc = "stale" /\ poll' = "running"
    BY <1>1, <1>10, Transitions DEF MarkStale, Failing
  <2>2. node'.stale > 0 /\ (node'.health = "stale" <=> node'.stale >= Grace)
    BY <1>1, <1>10, MarkStaleCounts DEF MarkStale, PollKnowsNode
  <2> QED
    BY <2>1, <2>2 DEF RowAgrees
<1>11. CASE MarkReorg
  <2>1. run'.pc = "reorg marked" /\ run.pc = "reorg" /\ poll' = "running"
    BY <1>1, <1>11, Transitions DEF MarkReorg, Failing
  <2>2. node'.health = "reorg"
    BY <1>1, <1>11 DEF MarkReorg, PollKnowsNode, NodeRow
  <2> QED
    BY <2>1, <2>2 DEF RowAgrees
<1>12. CASE CloseStale
  <2>1. run'.pc = "idle" /\ run.pc = "stale marked" /\ poll' = "stale" /\ node' = node
    BY <1>1, <1>12, Transitions DEF CloseStale, Close
  <2> QED
    BY <2>1 DEF RowAgrees
<1>13. CASE CloseReorg
  <2>1. run'.pc = "idle" /\ run.pc = "reorg marked" /\ poll' = "reorg" /\ node' = node
    BY <1>1, <1>13, Transitions DEF CloseReorg, Close
  <2> QED
    BY <2>1 DEF RowAgrees
<1>14. CASE MarkFailed
  <2>1. run'.pc = "failed marked" /\ poll' = "failed"
    BY <1>1, <1>14, Transitions DEF MarkFailed
  <2> QED
    BY <2>1 DEF RowAgrees, Failing
<1>15. CASE HealthError
  <2>1. run'.pc = "idle" /\ poll' = "failed"
    BY <1>1, <1>15, Transitions DEF HealthError
  <2> QED
    BY <2>1 DEF RowAgrees
<1> QED
  BY <1>4, <1>5, <1>6, <1>7, <1>8, <1>9, <1>10, <1>11, <1>12, <1>13, <1>14, <1>15
     DEF CNext, Step

\* A nonempty set of numbers has a least one.
LEMMA LeastExists ==
  ASSUME NEW S \in SUBSET Nat, S # {}
  PROVE  Min(S) \in S /\ \A k \in S : Min(S) <= k
<1> DEFINE R == OpToRel(<, Nat)
<1>1. PICK i \in S : \A j \in S : ~ (<<j, i>> \in R)
  BY NatLessThanWellFounded, WFMin
<1>2. \A j \in S : ~ (j < i)
  BY <1>1 DEF OpToRel
<1>3. \A j \in S : i <= j
  BY <1>2
<1> QED
  BY <1>3 DEF Min

LEMMA CollectorInit ==
  ASSUME CInit
  PROVE  CursorsInv /\ KeepUpInv
<1>1. PICK l \in Listings :
        chain = <<[listed |-> l, epoch |-> Min(EpochNumbers), fork |-> First]>>
  BY DEF CInit
<1>2. First \in Forks
  BY CollectorBounds DEF First
<1>3. Min(EpochNumbers) \in EpochNumbers
  BY CollectorBounds, EpochNumbersAssumption, LeastExists
<1>4. chain \in Seq(Momentum) /\ Len(chain) \in 1 .. MaxHeight
  <2>1. [listed |-> l, epoch |-> Min(EpochNumbers), fork |-> First] \in Momentum
    BY <1>2, <1>3 DEF Momentum
  <2> QED
    BY <1>1, <2>1, CollectorBounds
<1>5. node \in NodeRow
  BY <1>2, CollectorBounds DEF CInit, NodeRow
<1>6. run \in Run /\ run.pc = "idle"
  BY DEF CInit, Idle, Run
<1>7. /\ snapshots = {} /\ committed = 0 /\ budget = MaxFaults /\ poll = "none"
      /\ node.height = 0 /\ told = view /\ epochs = {} /\ gap = FALSE
  BY DEF CInit, Init
<1>8. CollectorTypeOK
  <2>1. gap \in BOOLEAN
    BY <1>7
  <2> QED
    BY <1>4, <1>5, <1>6, <1>7, <2>1, CollectorBounds DEF CollectorTypeOK
<1>9. PollKnowsNode /\ CursorInv /\ PollInv /\ KeepUpInv
  BY <1>6, <1>7, CollectorBounds
     DEF PollKnowsNode, CursorInv, PollInv, KeepUpInv, RowAgrees, Failing
<1> QED
  BY <1>8, <1>9 DEF CursorsInv

LEMMA CollectorAlways == CSpec => []CursorsInv
<1>1. CInit => CursorsInv
  BY CollectorInit
<1>2. CursorsInv /\ [CNext]_cvars => CursorsInv'
  BY CollectorTypes, PollKnowsNodeStep, CursorStep, PollStep DEF CursorsInv
<1> QED
  BY <1>1, <1>2, PTL DEF CSpec

\* What the collector hands to record_observation is an observation.
LEMMA RecordStep ==
  ASSUME CollectorTypeOK, TablesInv, Record
  PROVE  /\ TablesInv'
         /\ epochs' # {}
         /\ view' = Follow(view, events', run.momentum.epoch)
<1> DEFINE m == run.momentum
<1>1. m \in Momentum
  BY RunFields DEF CollectorTypeOK, Record, Answered
<1>2. m.listed \in SUBSET Owners /\ m.epoch \in Nat
  BY <1>1, CollectorBounds, EpochNumbersAssumption DEF Momentum
<1>3. Observe(ReadingOf(m), m.epoch, {})
  BY DEF Record
<1>4. ReadingOf(m) \in [m.listed -> AnyReading]
  <2>1. (CHOOSE n \in Names : TRUE) \in Names /\ (CHOOSE s \in Shares : TRUE) \in Shares
    BY NamesAssumption
  <2> QED
    BY <2>1 DEF ReadingOf, AnyReading
<1>5. TablesInv'
  BY <1>2, <1>3, <1>4, ObserveStep
<1>6. epochs' # {} /\ view' = Follow(view, events', m.epoch)
  BY <1>3 DEF Observe
<1> QED
  BY <1>5, <1>6

\* No other action of the collector writes the tables of an observation.
LEMMA OthersKeepTables ==
  ASSUME [CNext]_cvars, ~Record
  PROVE  UNCHANGED <<vars, told>>
BY DEF CNext, Step, cvars, tables, Grow, Fork, Day, Prune, Begin, Prepare, Collect,
   NodeSyncing, Answer, CollectFails, Advance, Succeed, Dispatched, MarkStale, CloseStale,
   MarkReorg, CloseReorg, Close, MarkFailed, HealthError, DatabaseRaises, Crash

LEMMA CollectorTablesStep ==
  ASSUME CollectorTypeOK, TablesInv, [CNext]_cvars
  PROVE  TablesInv'
<1>1. CASE Record
  BY <1>1, RecordStep
<1>2. CASE ~Record
  <2>1. UNCHANGED vars
    BY <1>2, OthersKeepTables
  <2> QED
    BY <2>1 DEF TablesInv, TypeOK, QuietInv, FeedInv, vars
<1> QED
  BY <1>1, <1>2

\* Pruning leaves what is not older than the retention, so that a poll is a bootstrap
\* only once unless there was nothing as young.
LEMMA KeepUpStep ==
  ASSUME CursorsInv, TablesInv, KeepUpInv, [CNext]_cvars
  PROVE  KeepUpInv'
<1> USE DEF KeepUpInv
<1>1. /\ Retention \in Nat /\ run \in Run /\ CollectorTypeOK
      /\ snapshots \subseteq 0 .. Retention + 1 /\ snapshots' \subseteq 0 .. Retention + 1
      /\ gap \in BOOLEAN
  BY CollectorBounds, CollectorTypes DEF CursorsInv, CollectorTypeOK
<1>2. ASSUME NoteGap, ~gap'
      PROVE  ~gap /\ \E a \in snapshots' : a <= Retention
  <2>1. ~gap /\ ~ \A a \in snapshots' : a > Retention
    BY <1>1, <1>2 DEF NoteGap
  <2>2. \A a \in snapshots' : a \in Nat
    BY <1>1
  <2> QED
    BY <1>1, <2>1, <2>2
<1>3. CASE Record
  <2>1. run.pc = "success" /\ NoteGap
    BY <1>3 DEF Record
  <2>2. view' = Follow(view, events', run.momentum.epoch)
    BY <1>1, <1>3, RecordStep
  <2>3. ~gap /\ epochs # {} => ~run.bootstrap
    BY <2>1
  <2>4. ~gap => told' = view'
    BY <1>3, <2>2, <2>3 DEF Record
  <2>5. run'.pc = "recorded"
    BY <1>1, <1>3, Transitions
  <2> QED
    BY <1>2, <2>1, <2>4, <2>5
<1>4. ASSUME UNCHANGED <<told, view, epochs, snapshots, gap>>,
             UNCHANGED run \/ run'.pc \notin {"prepared", "success"}
      PROVE  KeepUpInv'
  BY <1>4
<1>5. CASE Day
  <2>1. snapshots # {} /\ NoteGap /\ UNCHANGED <<told, view, epochs, run>>
    BY <1>5 DEF Day, vars
  <2> QED
    BY <1>2, <2>1
<1>6. CASE Prune
  <2>1. /\ run.pc = "idle" /\ snapshots' = snapshots \ {Retention + 1}
        /\ UNCHANGED <<told, view, epochs, run, gap>>
    BY <1>6 DEF Prune, vars
  <2>2. \A a \in snapshots : a <= Retention => a \in snapshots'
    BY <1>1, <2>1
  <2> QED
    BY <2>1, <2>2
<1>7. CASE Grow \/ Fork \/ UNCHANGED cvars
  BY <1>4, <1>7 DEF Grow, Fork, tables, vars, cvars
<1>8. CASE Prepare
  <2>1. run' = [pc |-> "prepared", previous |-> node, bootstrap |-> snapshots = {}]
    BY <1>8 DEF Prepare
  <2>2. UNCHANGED <<told, view, epochs, snapshots, gap>>
    BY <1>8 DEF Prepare, tables, vars
  <2> QED
    BY <2>1, <2>2
<1>9. ASSUME NEW h \in 1 .. Len(chain), Collect(h) \/ NodeSyncing(h)
      PROVE  KeepUpInv'
  <2>1. PICK status : Answer(h, status)
    BY <1>9, AnswerStep
  <2>2. run.pc = "prepared" /\ run'.bootstrap = run.bootstrap
    BY <2>1 DEF Answer
  <2>3. UNCHANGED <<told, view, epochs, snapshots, gap>>
    BY <2>1 DEF Answer, tables, vars
  <2> QED
    BY <2>2, <2>3
<1>10. CASE Begin \/ CollectFails \/ Advance \/ Succeed \/ Dispatched \/ MarkStale
            \/ CloseStale \/ MarkReorg \/ CloseReorg \/ MarkFailed \/ HealthError
            \/ DatabaseRaises \/ Crash
  <2>1. run'.pc \notin {"prepared", "success"}
    BY <1>1, <1>10, Transitions
  <2>2. UNCHANGED <<told, view, epochs, snapshots, gap>>
    BY <1>10 DEF tables, vars, Begin, CollectFails, Advance, Succeed, Dispatched, MarkStale,
       CloseStale, MarkReorg, CloseReorg, Close, MarkFailed, HealthError, DatabaseRaises, Crash
  <2> QED
    BY <1>4, <2>1, <2>2
<1> QED
  BY <1>3, <1>5, <1>6, <1>7, <1>8, <1>9, <1>10 DEF CNext, Step
-----------------------------------------------------------------------------
(***************************************************************************)
(* Theorems about the collector                                            *)
(***************************************************************************)

\* What run_once reads, keeps and writes has its type, whatever the network, the
\* nodes and the faults do.
THEOREM CollectorTypeCorrect == CSpec => []CollectorTypeOK
<1>1. CursorsInv => CollectorTypeOK
  BY DEF CursorsInv
<1> QED
  BY <1>1, CollectorAlways, PTL

\* The row of node_state never goes back and never gets ahead of the observations, and
\* without a fault no older momentum is recorded after a newer one.
THEOREM CursorNeverMisleads == CSpec => CursorIsSafe
<1>1. CursorsInv /\ CursorsInv' /\ [CNext]_cvars
        => [/\ node'.height >= node.height
            /\ node'.height <= committed'
            /\ budget = MaxFaults => committed' >= committed]_cvars
  BY CursorStep DEF CursorsInv, CursorInv
<1> QED
  BY <1>1, CollectorAlways, PTL DEF CSpec, CursorIsSafe

\* Readers of a closed row of poll_runs and of node_state see the same outcome.
THEOREM ClosedPollsAgree == CSpec => []PollRowAgrees
<1>1. CursorsInv => PollRowAgrees
  BY DEF CursorsInv, PollInv, RowAgrees, PollRowAgrees
<1> QED
  BY <1>1, CollectorAlways, PTL

LEMMA CollectorTablesAlways == CSpec => []TablesInv
<1>1. CInit => TablesInv
  BY TablesStart DEF CInit
<1>2. CursorsInv /\ TablesInv /\ [CNext]_cvars => TablesInv'
  BY CollectorTablesStep DEF CursorsInv
<1> QED
  BY <1>1, <1>2, CollectorAlways, PTL DEF CSpec

\* The events of the collector's polls tell what its tables hold, through crashes
\* between its transactions, errors, forks and nodes that lag.
THEOREM CollectorFeedRebuildsTable == CSpec => []FeedRebuildsTable
<1>1. TablesInv => FeedRebuildsTable
  BY NewestEpoch DEF TablesInv, FeedInv, FeedRebuildsTable
<1> QED
  BY <1>1, CollectorTablesAlways, PTL

\* A subscriber to every notification knows what the tables know, through crashes and
\* pruning, unless an outage outlasted the retention or a first listing was empty.
THEOREM SubscribersAlwaysKeepUp == CSpec => []SubscribersKeepUp
<1>1. CInit => KeepUpInv
  BY CollectorInit
<1>2. CursorsInv /\ TablesInv /\ KeepUpInv /\ [CNext]_cvars => KeepUpInv'
  BY KeepUpStep
<1>3. KeepUpInv => SubscribersKeepUp
  BY DEF KeepUpInv, SubscribersKeepUp
<1> QED
  BY <1>1, <1>2, <1>3, CollectorAlways, CollectorTablesAlways, PTL DEF CSpec
=============================================================================
