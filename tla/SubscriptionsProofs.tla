------------------------ MODULE SubscriptionsProofs ------------------------
(***************************************************************************)
(* Theorems about Subscriptions for any number of subscriptions, chats,    *)
(* webhooks, requests, events and crashes.                                 *)
(***************************************************************************)
EXTENDS Subscriptions, SequenceTheorems, TLAPS

\* What a request is about to write was accepted when it was merged.
WritesAreAccepted ==
  \A t \in Handlers : handler[t].pc = "write" => Accepted(handler[t].row)

\* Routes and webhooks are what follows from the table they were built from and the
\* global destinations in use.
RoutesAgree ==
  /\ \A topic \in Topics, to \in Channels :
       [topic |-> topic, to |-> to] \in routes
         <=> \E s \in Subs : /\ basis[s].active
                             /\ topic \in TopicsOf(basis[s])
                             /\ to \in RoutesOf(s, basis[s], home)
  /\ \A s \in Subs :
       hooks[s] = IF basis[s].active /\ basis[s].hook # home.hook
                  THEN basis[s].hook ELSE Nowhere

ToChat(n) == n.to.via \in {"telegram", "chat"}

\* Events and what is kept of them; an event that saw the global destinations change
\* is left out of what follows.
Counted ==
  /\ Len(got) = Len(events)
  /\ moved \subseteq 1 .. Len(events)
  /\ \A n \in pending : n.event \in 1 .. Len(events)

\* What is pending for a chat has not reached it yet, and nothing else is pending for it.
PendingIsNew ==
  \A n \in pending : n.event \notin moved =>
    /\ n.to.via = "chat" => n.to.at # home.chat
    /\ ToChat(n) => Target(n.to) \in Chats /\ got[n.event][Target(n.to)] = 0

OnceInv == Counted /\ PendingIsNew /\ OncePerChat

Inv == SubscriptionsTypeOK /\ WritesAreAccepted /\ RowsAreAccepted /\ RoutesAgree /\ OnceInv
-----------------------------------------------------------------------------
(***************************************************************************)
(* Rows, routes and channels                                               *)
(***************************************************************************)

\* A payload over a row is a row.
LEMMA MergedRow ==
  ASSUME NEW payload \in Payloads, NEW row \in SubscriptionRow
  PROVE  /\ DOMAIN payload \in SUBSET Fields
         /\ [f \in Fields |-> IF f \in DOMAIN payload THEN payload[f] ELSE row[f]]
              \in SubscriptionRow
<1>1. PICK fields \in SUBSET Fields, given \in SubscriptionRow :
        payload = [f \in fields |-> given[f]]
  BY SubscriptionsAssumption
<1> DEFINE merged == [f \in Fields |-> IF f \in DOMAIN payload THEN payload[f] ELSE row[f]]
<1>2. \A f \in Fields : merged[f] \in {given[f], row[f]}
  BY <1>1
<1>3. merged = [chat |-> merged.chat, hook |-> merged.hook, owners |-> merged.owners,
                events |-> merged.events, active |-> merged.active]
  BY DEF Fields
<1>4. /\ merged.chat \in {given.chat, row.chat} /\ merged.hook \in {given.hook, row.hook}
      /\ merged.owners \in {given.owners, row.owners}
      /\ merged.events \in {given.events, row.events}
      /\ merged.active \in {given.active, row.active}
  BY <1>2 DEF Fields
<1> HIDE DEF merged
<1>5. merged \in SubscriptionRow
  BY <1>3, <1>4 DEF SubscriptionRow
<1> QED
  BY <1>1, <1>5 DEF merged

\* The routes of a row, one by one.
LEMMA RouteCases ==
  ASSUME NEW s \in Subs, NEW row \in SubscriptionRow, NEW h \in Homes, NEW to
  PROVE  /\ to \in RoutesOf(s, row, h) <=>
              \/ to = [via |-> "chat", at |-> row.chat] /\ row.chat \notin {h.chat, Nowhere}
              \/ to = [via |-> "subscription", at |-> s] /\ row.hook \notin {h.hook, Nowhere}
         /\ to \in RoutesOf(s, row, h) => to \in Channels
<1>1. row.chat \in Chats \cup {Nowhere}
  BY DEF SubscriptionRow
<1>2. to \in RoutesOf(s, row, h) <=>
        \/ to = [via |-> "chat", at |-> row.chat] /\ row.chat \notin {h.chat, Nowhere}
        \/ to = [via |-> "subscription", at |-> s] /\ row.hook \notin {h.hook, Nowhere}
  BY DEF RoutesOf
<1> QED
  BY <1>1, <1>2 DEF Channels

LEMMA TopicCases ==
  ASSUME NEW row \in SubscriptionRow
  PROVE  TopicsOf(row) \subseteq Topics
BY DEF TopicsOf, Topics, SubscriptionRow

\* What RoutesFrom collects, one by one.
LEMMA RoutesOneByOne ==
  ASSUME NEW h, NEW entry
  PROVE  entry \in RoutesFrom(h) <=>
           \E s \in ActiveSubs : \E topic \in TopicsOf(subs[s]), to \in RoutesOf(s, subs[s], h) :
             entry = [topic |-> topic, to |-> to]
BY DEF RoutesFrom

\* Where a channel leads.
LEMMA TargetCases ==
  ASSUME SubscriptionsTypeOK, NEW to \in Channels
  PROVE  /\ to.via \in {"telegram", "discord", "chat", "subscription"}
         /\ to.via = "telegram" => Target(to) = home.chat /\ to = [via |-> "telegram"]
         /\ to.via = "discord" => Target(to) = home.hook /\ to = [via |-> "discord"]
         /\ to.via = "chat" => /\ Target(to) = to.at /\ to.at \in Chats
                               /\ to = [via |-> "chat", at |-> to.at]
         /\ to.via = "subscription" =>
              /\ Target(to) = hooks[to.at] /\ to.at \in Subs
              /\ Target(to) \in Webhooks \cup {Nowhere}
              /\ to = [via |-> "subscription", at |-> to.at]
         /\ home.chat \in Chats \cup {Nowhere} /\ home.hook \in Webhooks \cup {Nowhere}
         /\ Target(to) \in Places \cup {Nowhere}
<1>1. \/ to \in [via : {"telegram", "discord"}]
      \/ to \in [via : {"chat"}, at : Chats]
      \/ to \in [via : {"subscription"}, at : Subs]
  BY DEF Channels
<1>2. /\ home.chat \in Chats \cup {Nowhere} /\ home.hook \in Webhooks \cup {Nowhere}
      /\ hooks \in [Subs -> Webhooks \cup {Nowhere}]
  BY SubscriptionsAssumption DEF SubscriptionsTypeOK
<1>3. CASE to \in [via : {"telegram", "discord"}]
  BY <1>2, <1>3 DEF Target, Places
<1>4. CASE to \in [via : {"chat"}, at : Chats]
  BY <1>2, <1>4 DEF Target, Places
<1>5. CASE to \in [via : {"subscription"}, at : Subs]
  BY <1>2, <1>5 DEF Target, Places
<1> QED
  BY <1>1, <1>3, <1>4, <1>5

\* Building routes leaves them in agreement with the table as it is.
LEMMA BuildStep ==
  ASSUME SubscriptionsTypeOK, NEW h \in Homes, Build(h)
  PROVE  /\ routes' \in SUBSET [topic : Topics, to : Channels]
         /\ hooks' \in [Subs -> Webhooks \cup {Nowhere}]
         /\ home' = h /\ basis' = subs /\ basis' \in [Subs -> SubscriptionRow \cup {NoRow}]
         /\ RoutesAgree'
<1>1. /\ home' = h /\ basis' = subs /\ routes' = RoutesFrom(h) /\ hooks' = HooksFor(h)
      /\ subs \in [Subs -> SubscriptionRow \cup {NoRow}]
  BY DEF Build, SubscriptionsTypeOK
<1>2. \A s \in Subs : s \in ActiveSubs <=> subs[s].active
  BY DEF ActiveSubs
<1>3. \A s \in ActiveSubs : s \in Subs /\ subs[s] \in SubscriptionRow
  BY <1>1 DEF ActiveSubs, NoRow
<1>4. ASSUME NEW entry \in routes'
      PROVE  entry \in [topic : Topics, to : Channels]
  <2>1. PICK s \in ActiveSubs : \E topic \in TopicsOf(subs[s]), to \in RoutesOf(s, subs[s], h) :
          entry = [topic |-> topic, to |-> to]
    BY <1>1, RoutesOneByOne
  <2>2. PICK topic \in TopicsOf(subs[s]), to \in RoutesOf(s, subs[s], h) :
          entry = [topic |-> topic, to |-> to]
    BY <2>1
  <2>3. topic \in Topics /\ to \in Channels
    BY <1>3, TopicCases, RouteCases
  <2> QED
    BY <2>2, <2>3
<1>5. \A s \in Subs :
        hooks'[s] = IF subs[s].active /\ subs[s].hook # h.hook THEN subs[s].hook ELSE Nowhere
  BY <1>1, <1>2 DEF HooksFor
<1>6. hooks' \in [Subs -> Webhooks \cup {Nowhere}]
  <2>1. \A s \in ActiveSubs : subs[s].hook \in Webhooks \cup {Nowhere}
    BY <1>3 DEF SubscriptionRow
  <2>2. hooks' = [s \in Subs |-> IF s \in ActiveSubs /\ subs[s].hook # h.hook
                                 THEN subs[s].hook ELSE Nowhere]
    BY <1>1 DEF HooksFor
  <2> QED
    BY <2>1, <2>2
<1>7. ASSUME NEW topic \in Topics, NEW to \in Channels
      PROVE  [topic |-> topic, to |-> to] \in routes'
               <=> \E s \in Subs : /\ subs[s].active
                                   /\ topic \in TopicsOf(subs[s])
                                   /\ to \in RoutesOf(s, subs[s], h)
  <2>1. [topic |-> topic, to |-> to] \in routes' <=>
          \E s \in ActiveSubs : \E u \in TopicsOf(subs[s]), v \in RoutesOf(s, subs[s], h) :
            [topic |-> topic, to |-> to] = [topic |-> u, to |-> v]
    BY <1>1, RoutesOneByOne
  <2>2. \A u, v : [topic |-> topic, to |-> to] = [topic |-> u, to |-> v]
                    <=> topic = u /\ to = v
    OBVIOUS
  <2> QED
    BY <1>2, <1>3, <2>1, <2>2
<1>8. RoutesAgree'
  BY <1>1, <1>5, <1>7 DEF RoutesAgree
<1> QED
  BY <1>1, <1>4, <1>6, <1>8
-----------------------------------------------------------------------------
(***************************************************************************)
(* Events and deliveries                                                   *)
(***************************************************************************)

\* What is queued for an event.
LEMMA QueuedCases ==
  ASSUME SubscriptionsTypeOK, NEW topic \in Topics, NEW to
  PROVE  /\ to \in Queued(topic) <=>
              \/ to = [via |-> "telegram"] /\ home.chat # Nowhere
              \/ to = [via |-> "discord"] /\ home.hook # Nowhere
              \/ [topic |-> topic, to |-> to] \in routes
         /\ to \in Queued(topic) => to \in Channels
<1>1. \A entry \in routes :
        entry = [topic |-> entry.topic, to |-> entry.to] /\ entry.to \in Channels
  BY DEF SubscriptionsTypeOK
<1>2. to \in {entry.to : entry \in {r \in routes : r.topic = topic}}
        <=> [topic |-> topic, to |-> to] \in routes
  BY <1>1
<1>3. to \in Queued(topic) <=>
        \/ to = [via |-> "telegram"] /\ home.chat # Nowhere
        \/ to = [via |-> "discord"] /\ home.hook # Nowhere
        \/ to \in {entry.to : entry \in {r \in routes : r.topic = topic}}
  BY DEF Queued
<1>4. [via |-> "telegram"] \in Channels /\ [via |-> "discord"] \in Channels
  BY DEF Channels
<1>5. [topic |-> topic, to |-> to] \in routes => to \in Channels
  BY <1>1
<1> QED
  BY <1>2, <1>3, <1>4, <1>5

LEMMA RecordStep ==
  ASSUME SubscriptionsTypeOK, Counted, NEW topic \in Topics, RecordEvent(topic)
  PROVE  /\ events' \in Seq(Topics) /\ Len(events) \in Nat
         /\ Len(events') = Len(events) + 1 /\ events'[Len(events')] = topic
         /\ got' \in Seq([Places -> Nat]) /\ Len(got') = Len(events')
         /\ \A e \in 1 .. Len(events) : got'[e] = got[e]
         /\ \A d \in Places : got'[Len(events')][d] = 0
         /\ \A n : n \in pending' <=>
              \/ n \in pending
              \/ \E to \in Queued(topic) : n = [event |-> Len(events'), to |-> to]
<1>1. /\ events \in Seq(Topics) /\ got \in Seq([Places -> Nat])
      /\ events' = Append(events, topic) /\ got' = Append(got, [d \in Places |-> 0])
      /\ Len(got) = Len(events)
  BY DEF SubscriptionsTypeOK, RecordEvent, Counted
<1>2. Len(events) \in Nat
  BY <1>1, LenProperties
<1>3. [d \in Places |-> 0] \in [Places -> Nat]
  OBVIOUS
<1>4. /\ got' \in Seq([Places -> Nat]) /\ Len(got') = Len(got) + 1
      /\ \A e \in 1 .. Len(got) : got'[e] = got[e]
      /\ got'[Len(got) + 1] = [d \in Places |-> 0]
  BY <1>1, <1>3, AppendProperties
<1>5. /\ events' \in Seq(Topics) /\ Len(events') = Len(events) + 1
      /\ events'[Len(events) + 1] = topic
  BY <1>1, AppendProperties
<1>6. pending' = pending \cup {[event |-> Len(events'), to |-> route] : route \in Queued(topic)}
  BY DEF RecordEvent
<1> QED
  BY <1>1, <1>2, <1>4, <1>5, <1>6

LEMMA DeliverStep ==
  ASSUME SubscriptionsTypeOK, Counted, NEW n \in pending, Deliver(n)
  PROVE  /\ got' \in Seq([Places -> Nat]) /\ Len(got') = Len(got)
         /\ n.event \in 1 .. Len(got) /\ n.to \in Channels /\ Target(n.to) \in Places
         /\ \A e \in 1 .. Len(got), d \in Places :
              /\ got[e][d] \in Nat
              /\ got'[e][d] = IF e = n.event /\ d = Target(n.to) THEN got[e][d] + 1 ELSE got[e][d]
<1>1. /\ got \in Seq([Places -> Nat]) /\ n.to \in Channels /\ n.event \in 1 .. Len(got)
  BY DEF SubscriptionsTypeOK, Counted
<1>2. Target(n.to) \in Places
  BY <1>1, TargetCases DEF Deliver
<1> DEFINE new == [got[n.event] EXCEPT ![Target(n.to)] = @ + 1]
<1>3. \A e \in 1 .. Len(got) : got[e] \in [Places -> Nat]
  BY <1>1, ElementOfSeq
<1>4. new \in [Places -> Nat]
  BY <1>1, <1>2, <1>3
<1>5. got' = [got EXCEPT ![n.event] = new]
  BY DEF Deliver
<1>6. \A d \in Places : new[d] = IF d = Target(n.to) THEN got[n.event][d] + 1 ELSE got[n.event][d]
  BY <1>1, <1>2, <1>3
<1> HIDE DEF new
<1>7. /\ got' \in Seq([Places -> Nat]) /\ Len(got') = Len(got)
      /\ \A e \in 1 .. Len(got) : got'[e] = IF e = n.event THEN new ELSE got[e]
  BY <1>1, <1>4, <1>5, ExceptSeq
<1>8. ASSUME NEW e \in 1 .. Len(got), NEW d \in Places
      PROVE  /\ got[e][d] \in Nat
             /\ got'[e][d] = IF e = n.event /\ d = Target(n.to) THEN got[e][d] + 1 ELSE got[e][d]
  BY <1>3, <1>6, <1>7
<1> QED
  BY <1>1, <1>2, <1>7, <1>8
-----------------------------------------------------------------------------
(***************************************************************************)
(* The invariant                                                           *)
(***************************************************************************)

LEMMA InvStart == SubscriptionsInit => Inv
<1> SUFFICES ASSUME SubscriptionsInit
             PROVE  Inv
  OBVIOUS
<1>1. /\ subs = [s \in Subs |-> NoRow] /\ basis = subs /\ ~NoRow.active
      /\ handler = [t \in Handlers |-> NoRequest] /\ NoRequest.pc = "idle"
      /\ stage = "down" /\ home \in Homes /\ routes = {} /\ hooks = [s \in Subs |-> Nowhere]
      /\ events = <<>> /\ pending = {} /\ got = <<>> /\ moved = {}
  BY DEF SubscriptionsInit, NoRow, NoRequest
<1>2. \A S : <<>> \in Seq(S) /\ Len(<<>>) = 0
  OBVIOUS
<1>3. SubscriptionsTypeOK
  BY <1>1, <1>2 DEF SubscriptionsTypeOK
<1>4. WritesAreAccepted /\ RowsAreAccepted /\ RoutesAgree
  BY <1>1 DEF WritesAreAccepted, RowsAreAccepted, RoutesAgree
<1>5. OnceInv
  BY <1>1 DEF OnceInv, Counted, PendingIsNew, OncePerChat
<1> QED
  BY <1>3, <1>4, <1>5 DEF Inv

\* Variables that edits of subscriptions leave alone.
LEMMA EditSteps ==
  ASSUME \/ \E s \in Subs, row \in Creations : CreateSubscription(s, row)
         \/ \E t \in Handlers, s \in Subs, payload \in Payloads : MergePayload(t, s, payload)
         \/ \E t \in Handlers : WriteSubscription(t)
  PROVE  UNCHANGED <<stage, dispatcher, events, outcome>>
BY DEF CreateSubscription, MergePayload, WriteSubscription

LEMMA TypeStep ==
  ASSUME SubscriptionsTypeOK, Counted, SubscriptionsNext
  PROVE  SubscriptionsTypeOK'
<1>1. ASSUME NEW s \in Subs, NEW row \in Creations, CreateSubscription(s, row)
      PROVE  SubscriptionsTypeOK'
  <2>1. row \in SubscriptionRow
    BY SubscriptionsAssumption
  <2>2. subs' \in [Subs -> SubscriptionRow \cup {NoRow}]
    BY <1>1, <2>1 DEF CreateSubscription, SubscriptionsTypeOK
  <2> QED
    BY <1>1, <2>2 DEF CreateSubscription, SubscriptionsTypeOK, dispatcher, outcome
<1>2. ASSUME NEW t \in Handlers, NEW s \in Subs, NEW payload \in Payloads,
             MergePayload(t, s, payload)
      PROVE  SubscriptionsTypeOK'
  <2> DEFINE merged == [f \in Fields |-> IF f \in DOMAIN payload THEN payload[f] ELSE subs[s][f]]
  <2>1. subs[s] \in SubscriptionRow
    BY <1>2 DEF MergePayload, SubscriptionsTypeOK
  <2>2. merged \in SubscriptionRow /\ DOMAIN payload \in SUBSET Fields
    BY <2>1, MergedRow
  <2>3. handler' = [handler EXCEPT ![t] =
                  [pc |-> "write", sub |-> s, row |-> merged, given |-> DOMAIN payload]]
    BY <1>2 DEF MergePayload
  <2> HIDE DEF merged
  <2>4. handler' \in [Handlers -> {NoRequest}
          \cup [pc : {"write"}, sub : Subs, row : SubscriptionRow, given : SUBSET Fields]]
    BY <2>2, <2>3 DEF SubscriptionsTypeOK
  <2> QED
    BY <1>2, <2>4 DEF MergePayload, SubscriptionsTypeOK, dispatcher, outcome
<1>3. ASSUME NEW t \in Handlers, WriteSubscription(t)
      PROVE  SubscriptionsTypeOK'
  <2>1. handler[t] \in [pc : {"write"}, sub : Subs, row : SubscriptionRow, given : SUBSET Fields]
    BY <1>3 DEF WriteSubscription, SubscriptionsTypeOK, NoRequest
  <2>2. subs' \in [Subs -> SubscriptionRow \cup {NoRow}]
    BY <1>3, <2>1 DEF WriteSubscription, SubscriptionsTypeOK
  <2>3. handler' \in [Handlers -> {NoRequest}
          \cup [pc : {"write"}, sub : Subs, row : SubscriptionRow, given : SUBSET Fields]]
    BY <1>3 DEF WriteSubscription, SubscriptionsTypeOK
  <2> QED
    BY <1>3, <2>2, <2>3 DEF WriteSubscription, SubscriptionsTypeOK, dispatcher, outcome
<1>4. ASSUME NEW h \in Homes, StartCollector(h) \/ ReloadSettings(h)
      PROVE  SubscriptionsTypeOK'
  <2>1. /\ routes' \in SUBSET [topic : Topics, to : Channels]
        /\ hooks' \in [Subs -> Webhooks \cup {Nowhere}]
        /\ home' = h /\ basis' \in [Subs -> SubscriptionRow \cup {NoRow}]
    BY <1>4, BuildStep DEF StartCollector, ReloadSettings
  <2>2. moved' \in SUBSET Nat
    <3>1. Len(events) \in Nat
      BY LenProperties DEF SubscriptionsTypeOK
    <3>2. moved' \in {moved, 1 .. Len(events)}
      BY <1>4 DEF StartCollector, ReloadSettings
    <3> QED
      BY <3>1, <3>2 DEF SubscriptionsTypeOK
  <2> QED
    BY <1>4, <2>1, <2>2 DEF StartCollector, ReloadSettings, SubscriptionsTypeOK, portal
<1>5. CASE RefreshRoutes
  <2>1. /\ routes' \in SUBSET [topic : Topics, to : Channels]
        /\ hooks' \in [Subs -> Webhooks \cup {Nowhere}]
        /\ home' = home /\ basis' \in [Subs -> SubscriptionRow \cup {NoRow}]
    <3>1. home \in Homes /\ Build(home)
      BY <1>5 DEF RefreshRoutes, SubscriptionsTypeOK
    <3> QED
      BY <3>1, BuildStep
  <2> QED
    BY <1>5, <2>1 DEF RefreshRoutes, SubscriptionsTypeOK, portal, outcome
<1>6. ASSUME NEW topic \in Topics, RecordEvent(topic)
      PROVE  SubscriptionsTypeOK'
  <2>1. events' \in Seq(Topics) /\ got' \in Seq([Places -> Nat])
    BY <1>6, RecordStep
  <2>2. ASSUME NEW n \in pending'
        PROVE  n \in [event : Nat, to : Channels]
    <3>1. Len(events') \in Nat
      BY <2>1, LenProperties
    <3>2. n \in pending \/ \E to \in Queued(topic) : n = [event |-> Len(events'), to |-> to]
      BY <1>6, RecordStep
    <3>3. CASE n \in pending
      BY <3>3 DEF SubscriptionsTypeOK
    <3>4. CASE \E to \in Queued(topic) : n = [event |-> Len(events'), to |-> to]
      <4>1. PICK to \in Queued(topic) : n = [event |-> Len(events'), to |-> to]
        BY <3>4
      <4>2. to \in Channels
        BY QueuedCases
      <4> QED
        BY <3>1, <4>1, <4>2
    <3> QED
      BY <3>2, <3>3, <3>4
  <2> QED
    BY <1>6, <2>1, <2>2 DEF RecordEvent, SubscriptionsTypeOK, portal, dispatcher
<1>7. ASSUME NEW n \in pending, Deliver(n)
      PROVE  SubscriptionsTypeOK'
  <2>1. got' \in Seq([Places -> Nat])
    BY <1>7, DeliverStep
  <2> QED
    BY <1>7, <2>1 DEF Deliver, SubscriptionsTypeOK, portal, dispatcher
<1>8. ASSUME NEW n \in pending, GiveUp(n)
      PROVE  SubscriptionsTypeOK'
  BY <1>8 DEF GiveUp, SubscriptionsTypeOK, portal, dispatcher
<1>9. CASE NothingNew \/ EndPoll \/ CrashCollector
  BY <1>9 DEF NothingNew, EndPoll, CrashCollector, SubscriptionsTypeOK, portal, dispatcher, outcome
<1> QED
  BY <1>1, <1>2, <1>3, <1>4, <1>5, <1>6, <1>7, <1>8, <1>9 DEF SubscriptionsNext, PollStep

LEMMA AcceptedStep ==
  ASSUME SubscriptionsTypeOK, WritesAreAccepted, RowsAreAccepted, SubscriptionsNext
  PROVE  WritesAreAccepted' /\ RowsAreAccepted'
<1> USE DEF WritesAreAccepted, RowsAreAccepted
<1>1. ASSUME NEW s \in Subs, NEW row \in Creations, CreateSubscription(s, row)
      PROVE  WritesAreAccepted' /\ RowsAreAccepted'
  <2>1. subs' = [subs EXCEPT ![s] = row] /\ Accepted(row) /\ UNCHANGED handler
    BY <1>1 DEF CreateSubscription
  <2>2. \A r \in Subs : subs'[r] = IF r = s THEN row ELSE subs[r]
    BY <2>1 DEF SubscriptionsTypeOK
  <2> QED
    BY <2>1, <2>2
<1>2. ASSUME NEW t \in Handlers, NEW s \in Subs, NEW payload \in Payloads,
             MergePayload(t, s, payload)
      PROVE  WritesAreAccepted' /\ RowsAreAccepted'
  <2> DEFINE merged == [f \in Fields |-> IF f \in DOMAIN payload THEN payload[f] ELSE subs[s][f]]
  <2>1. /\ handler' = [handler EXCEPT ![t] =
                     [pc |-> "write", sub |-> s, row |-> merged, given |-> DOMAIN payload]]
        /\ Accepted(merged) /\ UNCHANGED subs
    BY <1>2 DEF MergePayload
  <2> HIDE DEF merged
  <2>2. \A r \in Handlers : IF r = t THEN handler'[r].row = merged ELSE handler'[r] = handler[r]
    BY <2>1 DEF SubscriptionsTypeOK
  <2> QED
    BY <2>1, <2>2
<1>3. ASSUME NEW t \in Handlers, WriteSubscription(t)
      PROVE  WritesAreAccepted' /\ RowsAreAccepted'
  <2>1. /\ handler[t].pc = "write" /\ subs' = [subs EXCEPT ![handler[t].sub] = handler[t].row]
        /\ handler' = [handler EXCEPT ![t] = NoRequest]
    BY <1>3 DEF WriteSubscription
  <2>2. \A r \in Subs : subs'[r] \in {handler[t].row, subs[r]}
    BY <2>1 DEF SubscriptionsTypeOK
  <2>3. \A r \in Handlers : IF r = t THEN handler'[r].pc = "idle" ELSE handler'[r] = handler[r]
    BY <2>1 DEF SubscriptionsTypeOK, NoRequest
  <2> QED
    BY <2>1, <2>2, <2>3
<1>4. ASSUME \/ PollStep
             \/ \E h \in Homes : ReloadSettings(h)
             \/ \E n \in pending : Deliver(n) \/ GiveUp(n)
             \/ CrashCollector
      PROVE  WritesAreAccepted' /\ RowsAreAccepted'
  <2>1. UNCHANGED <<subs, handler>>
    BY <1>4 DEF PollStep, StartCollector, RefreshRoutes, RecordEvent, NothingNew, EndPoll,
                ReloadSettings, Deliver, GiveUp, CrashCollector, portal
  <2> QED
    BY <2>1
<1> QED
  BY <1>1, <1>2, <1>3, <1>4 DEF SubscriptionsNext

LEMMA RoutesStep ==
  ASSUME SubscriptionsTypeOK, RoutesAgree, SubscriptionsNext
  PROVE  RoutesAgree'
<1>1. ASSUME NEW h \in Homes, StartCollector(h) \/ ReloadSettings(h)
      PROVE  RoutesAgree'
  <2>1. Build(h)
    BY <1>1 DEF StartCollector, ReloadSettings
  <2> QED
    BY <2>1, BuildStep
<1>2. CASE RefreshRoutes
  <2>1. Build(home) /\ home \in Homes
    BY <1>2 DEF RefreshRoutes, SubscriptionsTypeOK
  <2> QED
    BY <2>1, BuildStep
<1>3. CASE UNCHANGED dispatcher
  BY <1>3 DEF RoutesAgree, dispatcher
<1>4. ASSUME \/ \E topic \in Topics : RecordEvent(topic)
             \/ NothingNew \/ EndPoll \/ CrashCollector
             \/ \E n \in pending : Deliver(n) \/ GiveUp(n)
      PROVE  UNCHANGED dispatcher
  BY <1>4 DEF RecordEvent, NothingNew, EndPoll, CrashCollector, Deliver, GiveUp
<1> QED
  BY <1>1, <1>2, <1>3, <1>4, EditSteps DEF SubscriptionsNext, PollStep

\* Two notifications of one event for one chat are the same.
LEMMA OneForEachChat ==
  ASSUME SubscriptionsTypeOK, PendingIsNew, NEW n \in pending, NEW m \in pending,
         n.event \notin moved, m.event = n.event, ToChat(n), ToChat(m),
         Target(m.to) = Target(n.to)
  PROVE  m = n
<1>1. n.to \in Channels /\ m.to \in Channels
  BY DEF SubscriptionsTypeOK
<1>2. /\ n = [event |-> n.event, to |-> n.to] /\ m = [event |-> m.event, to |-> m.to]
  BY DEF SubscriptionsTypeOK
<1>3. /\ n.to.via = "chat" => n.to.at # home.chat
      /\ m.to.via = "chat" => m.to.at # home.chat
  BY DEF PendingIsNew
<1>4. n.to.via \in {"telegram", "chat"} /\ m.to.via \in {"telegram", "chat"}
  BY DEF ToChat
<1>5. /\ n.to.via = "telegram" => Target(n.to) = home.chat /\ n.to = [via |-> "telegram"]
      /\ m.to.via = "telegram" => Target(m.to) = home.chat /\ m.to = [via |-> "telegram"]
      /\ n.to.via = "chat" => Target(n.to) = n.to.at /\ n.to = [via |-> "chat", at |-> n.to.at]
      /\ m.to.via = "chat" => Target(m.to) = m.to.at /\ m.to = [via |-> "chat", at |-> m.to.at]
  BY <1>1, TargetCases
<1>6. n.to = m.to
  BY <1>3, <1>4, <1>5
<1> QED
  BY <1>2, <1>6

\* Where an event is queued for a chat.
LEMMA QueuedForChat ==
  ASSUME SubscriptionsTypeOK, RoutesAgree, NEW topic \in Topics, NEW to \in Queued(topic)
  PROVE  /\ to.via = "chat" => to.at # home.chat
         /\ to.via \in {"telegram", "chat"} => Target(to) \in Chats
<1>1. to \in Channels
  BY QueuedCases
<1>2. /\ to.via = "telegram" => Target(to) = home.chat
      /\ to.via = "chat" => Target(to) = to.at /\ to.at \in Chats
      /\ home.chat \in Chats \cup {Nowhere}
  BY <1>1, TargetCases
<1>3. CASE to = [via |-> "telegram"] /\ home.chat # Nowhere
  BY <1>2, <1>3
<1>4. CASE to = [via |-> "discord"]
  BY <1>4
<1>5. CASE [topic |-> topic, to |-> to] \in routes
  <2>1. PICK s \in Subs : basis[s].active /\ to \in RoutesOf(s, basis[s], home)
    BY <1>1, <1>5 DEF RoutesAgree
  <2>2. basis[s] \in SubscriptionRow /\ home \in Homes
    BY <2>1 DEF SubscriptionsTypeOK, NoRow
  <2>3. \/ to = [via |-> "chat", at |-> basis[s].chat] /\ basis[s].chat # home.chat
        \/ to = [via |-> "subscription", at |-> s]
    BY <2>1, <2>2, RouteCases
  <2> QED
    BY <1>2, <2>3
<1> QED
  BY <1>3, <1>4, <1>5, QueuedCases

\* An unmoved event is delivered to a chat once; building anew either keeps the global
\* destinations or moves every event.
LEMMA OnceDeliver ==
  ASSUME SubscriptionsTypeOK, OnceInv, NEW n \in pending, Deliver(n)
  PROVE  OnceInv'
<1>1. /\ Counted /\ PendingIsNew /\ OncePerChat
      /\ pending' = pending \ {n} /\ UNCHANGED <<events, moved, home, hooks>>
  BY DEF OnceInv, Deliver, dispatcher
<1>2. /\ Len(got') = Len(got) /\ Len(got) = Len(events)
      /\ n.event \in 1 .. Len(got) /\ n.to \in Channels /\ Target(n.to) \in Places
      /\ \A e \in 1 .. Len(got), d \in Places :
           /\ got[e][d] \in Nat
           /\ got'[e][d] = IF e = n.event /\ d = Target(n.to) THEN got[e][d] + 1 ELSE got[e][d]
  BY <1>1, DeliverStep DEF Counted
<1>3. \A to : Target(to)' = Target(to)
  BY <1>1 DEF Target
<1>4. Counted'
  BY <1>1, <1>2 DEF Counted
<1>5. ASSUME NEW m \in pending', m.event \notin moved'
      PROVE  /\ m.to.via = "chat" => m.to.at # home'.chat
             /\ ToChat(m) => /\ Target(m.to)' \in Chats
                             /\ got'[m.event][Target(m.to)'] = 0
  <2>1. m \in pending /\ m # n /\ m.event \notin moved /\ m.event \in 1 .. Len(got)
    BY <1>1, <1>2, <1>5 DEF Counted
  <2>2. /\ m.to.via = "chat" => m.to.at # home.chat
        /\ ToChat(m) => Target(m.to) \in Chats /\ got[m.event][Target(m.to)] = 0
    BY <1>1, <2>1 DEF PendingIsNew
  <2>3. ASSUME ToChat(m), m.event = n.event, Target(m.to) = Target(n.to)
        PROVE  FALSE
    <3>1. Target(n.to) \in Chats
      BY <2>2, <2>3
    <3>2. ToChat(n)
      <4>1. /\ n.to.via \in {"telegram", "discord", "chat", "subscription"}
            /\ n.to.via \in {"discord", "subscription"} => Target(n.to) \in Webhooks \cup {Nowhere}
        BY <1>2, TargetCases
      <4> QED
        BY <3>1, <4>1, SubscriptionsAssumption DEF ToChat
    <3> QED
      BY <1>1, <2>1, <2>3, <3>2, OneForEachChat
  <2>4. ASSUME ToChat(m)
        PROVE  /\ Target(m.to)' \in Chats
               /\ got'[m.event][Target(m.to)'] = 0
    <3>1. Target(m.to) \in Chats /\ Target(m.to) \in Places /\ got[m.event][Target(m.to)] = 0
      BY <2>2, <2>4 DEF Places
    <3> QED
      BY <1>2, <1>3, <2>1, <2>3, <2>4, <3>1
  <2> QED
    BY <1>1, <2>2, <2>4
<1>6. PendingIsNew'
  BY <1>5 DEF PendingIsNew, ToChat
<1>7. ASSUME NEW e \in 1 .. Len(events'), NEW c \in Chats, got'[e][c] > 1
      PROVE  e \in moved'
  <2>1. /\ c \in Places /\ e \in 1 .. Len(got) /\ got[e][c] \in Nat
        /\ got'[e][c] = IF e = n.event /\ c = Target(n.to) THEN got[e][c] + 1 ELSE got[e][c]
    BY <1>1, <1>2 DEF Places
  <2>2. CASE ~(e = n.event /\ c = Target(n.to))
    BY <1>1, <1>2, <1>7, <2>1, <2>2 DEF OncePerChat
  <2>3. CASE e = n.event /\ c = Target(n.to)
    <3>1. /\ n.to.via \in {"telegram", "discord", "chat", "subscription"}
          /\ n.to.via \in {"discord", "subscription"} => Target(n.to) \in Webhooks \cup {Nowhere}
      BY <1>2, TargetCases
    <3>2. ToChat(n)
      BY <2>3, <3>1, SubscriptionsAssumption DEF ToChat
    <3>3. e \notin moved => got[e][c] = 0
      BY <1>1, <2>3, <3>2 DEF PendingIsNew
    <3> QED
      BY <1>1, <1>7, <2>1, <2>3, <3>3
  <2> QED
    BY <2>2, <2>3
<1>8. OncePerChat'
  BY <1>7 DEF OncePerChat
<1> QED
  BY <1>4, <1>6, <1>8 DEF OnceInv

LEMMA OnceRecord ==
  ASSUME SubscriptionsTypeOK, RoutesAgree, OnceInv, NEW topic \in Topics, RecordEvent(topic)
  PROVE  OnceInv'
<1>1. Counted /\ PendingIsNew /\ OncePerChat /\ UNCHANGED <<moved, home, hooks>>
  BY DEF OnceInv, RecordEvent, dispatcher
<1>2. /\ Len(events) \in Nat /\ Len(events') = Len(events) + 1 /\ Len(got') = Len(events')
      /\ \A e \in 1 .. Len(events) : got'[e] = got[e]
      /\ \A d \in Places : got'[Len(events')][d] = 0
      /\ \A n : n \in pending' <=>
           \/ n \in pending
           \/ \E to \in Queued(topic) : n = [event |-> Len(events'), to |-> to]
  BY <1>1, RecordStep
<1>3. \A to : Target(to)' = Target(to)
  BY <1>1 DEF Target
<1>4. Counted'
  BY <1>1, <1>2 DEF Counted
<1>5. ASSUME NEW n \in pending', n.event \notin moved'
      PROVE  /\ n.to.via = "chat" => n.to.at # home'.chat
             /\ ToChat(n) => /\ Target(n.to)' \in Chats
                             /\ got'[n.event][Target(n.to)'] = 0
  <2>1. CASE n \in pending
    <3>1. n.event \in 1 .. Len(events) /\ n.event \notin moved
      BY <1>1, <1>5, <2>1 DEF Counted
    <3>2. /\ n.to.via = "chat" => n.to.at # home.chat
          /\ ToChat(n) => Target(n.to) \in Chats /\ got[n.event][Target(n.to)] = 0
      BY <1>1, <2>1, <3>1 DEF PendingIsNew
    <3> QED
      BY <1>1, <1>2, <1>3, <3>1, <3>2
  <2>2. CASE \E to \in Queued(topic) : n = [event |-> Len(events'), to |-> to]
    <3>1. PICK to \in Queued(topic) : n = [event |-> Len(events'), to |-> to]
      BY <2>2
    <3>2. /\ to.via = "chat" => to.at # home.chat
          /\ to.via \in {"telegram", "chat"} => Target(to) \in Chats
      BY QueuedForChat
    <3>3. n.to = to /\ n.event = Len(events') /\ \A d \in Chats : got'[n.event][d] = 0
      BY <1>2, <3>1 DEF Places
    <3> QED
      BY <1>1, <1>3, <3>2, <3>3 DEF ToChat
  <2> QED
    BY <1>2, <2>1, <2>2
<1>6. PendingIsNew'
  BY <1>5 DEF PendingIsNew, ToChat
<1>7. ASSUME NEW e \in 1 .. Len(events'), NEW c \in Chats, got'[e][c] > 1
      PROVE  e \in moved'
  <2>1. c \in Places
    BY DEF Places
  <2>2. e # Len(events')
    BY <1>2, <1>7, <2>1
  <2>3. e \in 1 .. Len(events)
    BY <1>2, <2>2
  <2> QED
    BY <1>1, <1>2, <1>7, <2>3 DEF OncePerChat
<1>8. OncePerChat'
  BY <1>7 DEF OncePerChat
<1> QED
  BY <1>4, <1>6, <1>8 DEF OnceInv

LEMMA OnceBuild ==
  ASSUME SubscriptionsTypeOK, OnceInv, UNCHANGED <<events, pending, got>>,
         \/ home' = home /\ moved' = moved
         \/ moved' = 1 .. Len(events)
  PROVE  OnceInv'
<1>1. Counted /\ PendingIsNew /\ OncePerChat
  BY DEF OnceInv
<1>2. CASE moved' = 1 .. Len(events)
  BY <1>1, <1>2 DEF OnceInv, Counted, PendingIsNew, OncePerChat
<1>3. CASE home' = home /\ moved' = moved
  <2>1. Counted' /\ OncePerChat'
    BY <1>1, <1>3 DEF Counted, OncePerChat
  <2>2. \A n \in pending : ToChat(n) => Target(n.to)' = Target(n.to)
    BY <1>3 DEF ToChat, Target
  <2>3. PendingIsNew'
    BY <1>1, <1>3, <2>2 DEF PendingIsNew, ToChat
  <2> QED
    BY <2>1, <2>3 DEF OnceInv
<1> QED
  BY <1>2, <1>3

LEMMA OnceStep ==
  ASSUME SubscriptionsTypeOK, RoutesAgree, OnceInv, SubscriptionsNext
  PROVE  OnceInv'
<1>1. ASSUME NEW h \in Homes, StartCollector(h) \/ ReloadSettings(h)
      PROVE  OnceInv'
  <2>1. /\ UNCHANGED <<events, pending, got>> /\ home' = h
        /\ \/ h = home /\ moved' = moved
           \/ moved' = 1 .. Len(events)
    BY <1>1 DEF StartCollector, ReloadSettings, Build
  <2> QED
    BY <2>1, OnceBuild
<1>2. CASE RefreshRoutes
  <2>1. UNCHANGED <<events, pending, got, home, moved>>
    BY <1>2 DEF RefreshRoutes, Build, outcome
  <2> QED
    BY <2>1, OnceBuild
<1>3. CASE UNCHANGED <<events, got, home, hooks, moved>> /\ pending' \subseteq pending
  <2>1. \A to : Target(to)' = Target(to)
    BY <1>3 DEF Target
  <2> QED
    BY <1>3, <2>1 DEF OnceInv, Counted, PendingIsNew, OncePerChat, ToChat
<1>4. ASSUME \/ NothingNew \/ EndPoll \/ CrashCollector
             \/ \E n \in pending : GiveUp(n)
      PROVE  UNCHANGED <<events, got, home, hooks, moved>> /\ pending' \subseteq pending
  BY <1>4 DEF NothingNew, EndPoll, CrashCollector, GiveUp, dispatcher, outcome
<1>5. ASSUME \/ \E s \in Subs, row \in Creations : CreateSubscription(s, row)
             \/ \E t \in Handlers, s \in Subs, payload \in Payloads : MergePayload(t, s, payload)
             \/ \E t \in Handlers : WriteSubscription(t)
      PROVE  UNCHANGED <<events, got, home, hooks, moved>> /\ pending' \subseteq pending
  BY <1>5, EditSteps DEF dispatcher, outcome
<1> QED
  BY <1>1, <1>2, <1>3, <1>4, <1>5, OnceDeliver, OnceRecord DEF SubscriptionsNext, PollStep

LEMMA InvNext == Inv /\ SubscriptionsNext => Inv'
BY TypeStep, AcceptedStep, RoutesStep, OnceStep DEF Inv, OnceInv

LEMMA InvStutter == Inv /\ UNCHANGED subscriptionVars => Inv'
<1> SUFFICES ASSUME Inv, UNCHANGED subscriptionVars
             PROVE  Inv'
  OBVIOUS
<1>1. UNCHANGED <<subs, handler, stage, home, routes, hooks, basis, events, pending, got, moved>>
  BY DEF subscriptionVars, portal, dispatcher, outcome
<1>2. SubscriptionsTypeOK'
  BY <1>1 DEF Inv, SubscriptionsTypeOK
<1>3. WritesAreAccepted' /\ RowsAreAccepted' /\ RoutesAgree'
  BY <1>1 DEF Inv, WritesAreAccepted, RowsAreAccepted, RoutesAgree
<1>4. OnceInv'
  BY <1>1, OnceBuild DEF Inv
<1> QED
  BY <1>2, <1>3, <1>4 DEF Inv

LEMMA Invariant == SubscriptionsSpec => []Inv
BY InvStart, InvNext, InvStutter, PTL DEF SubscriptionsSpec
-----------------------------------------------------------------------------
(***************************************************************************)
(* Theorems                                                                *)
(***************************************************************************)

\* The table, what requests hold of it, the routes and the notifications keep their
\* types.
THEOREM SubscriptionsTypeCorrect == SubscriptionsSpec => []SubscriptionsTypeOK
<1>1. Inv => SubscriptionsTypeOK
  BY DEF Inv
<1> QED
  BY <1>1, Invariant, PTL

\* However many updates of a subscription overlap, the row that is left passes the
\* validation of normalise_subscription.
THEOREM RowsStayAccepted == SubscriptionsSpec => []RowsAreAccepted
<1>1. Inv => RowsAreAccepted
  BY DEF Inv
<1> QED
  BY <1>1, Invariant, PTL

\* An event reaches a chat at most once through the global channel and all the
\* subscriptions, unless the global destinations changed while it was pending.
THEOREM OnlyOncePerChat == SubscriptionsSpec => []OncePerChat
<1>1. Inv => OncePerChat
  BY DEF Inv, OnceInv
<1> QED
  BY <1>1, Invariant, PTL

\* What is queued for an event is what it is to reach.
LEMMA QueuedReaches ==
  ASSUME SubscriptionsTypeOK, RoutesAgree, NEW topic \in Topics
  PROVE  {Target(to) : to \in Queued(topic)}
           = Destinations(home) \cup UNION {Wanted(basis[s], topic) : s \in Subs}
<1> DEFINE reached == Destinations(home) \cup UNION {Wanted(basis[s], topic) : s \in Subs}
<1>1. home \in Homes /\ \A s \in Subs : basis[s].active => basis[s] \in SubscriptionRow
  BY DEF SubscriptionsTypeOK, NoRow
<1>2. \A d : d \in Destinations(home) <=> d \in {home.chat, home.hook} /\ d # Nowhere
  BY DEF Destinations
<1>3. \A d, s : d \in Wanted(basis[s], topic) <=>
        /\ basis[s].active /\ topic \in TopicsOf(basis[s])
        /\ d \in {basis[s].chat, basis[s].hook} /\ d # Nowhere
  BY DEF Wanted
<1>4. ASSUME NEW to \in Queued(topic)
      PROVE  Target(to) \in reached
  <2>1. to \in Channels
    BY QueuedCases
  <2>2. CASE to = [via |-> "telegram"] /\ home.chat # Nowhere
    BY <1>2, <2>1, <2>2, TargetCases
  <2>3. CASE to = [via |-> "discord"] /\ home.hook # Nowhere
    BY <1>2, <2>1, <2>3, TargetCases
  <2>4. CASE [topic |-> topic, to |-> to] \in routes
    <3>1. PICK s \in Subs : /\ basis[s].active /\ topic \in TopicsOf(basis[s])
                            /\ to \in RoutesOf(s, basis[s], home)
      BY <2>1, <2>4 DEF RoutesAgree
    <3>2. \/ to = [via |-> "chat", at |-> basis[s].chat] /\ basis[s].chat # Nowhere
          \/ /\ to = [via |-> "subscription", at |-> s]
             /\ basis[s].hook # home.hook /\ basis[s].hook # Nowhere
      BY <1>1, <3>1, RouteCases
    <3>3. \/ Target(to) = basis[s].chat /\ basis[s].chat # Nowhere
          \/ Target(to) = basis[s].hook /\ basis[s].hook # Nowhere
      BY <2>1, <3>1, <3>2, TargetCases DEF RoutesAgree
    <3>4. Target(to) \in Wanted(basis[s], topic)
      BY <1>3, <3>1, <3>3
    <3> QED
      BY <3>4
  <2> QED
    BY <2>2, <2>3, <2>4, QueuedCases
<1>5. ASSUME NEW d \in Destinations(home)
      PROVE  \E to \in Queued(topic) : d = Target(to)
  <2>1. CASE d = home.chat
    <3>1. [via |-> "telegram"] \in Queued(topic)
      BY <1>2, <1>5, <2>1, QueuedCases
    <3>2. Target([via |-> "telegram"]) = home.chat
      BY DEF Target
    <3> QED
      BY <2>1, <3>1, <3>2
  <2>2. CASE d = home.hook
    <3>1. [via |-> "discord"] \in Queued(topic)
      BY <1>2, <1>5, <2>2, QueuedCases
    <3>2. Target([via |-> "discord"]) = home.hook
      BY DEF Target
    <3> QED
      BY <2>2, <3>1, <3>2
  <2> QED
    BY <1>2, <2>1, <2>2
<1>6. ASSUME NEW s \in Subs, NEW d \in Wanted(basis[s], topic)
      PROVE  \E to \in Queued(topic) : d = Target(to)
  <2>1. /\ basis[s].active /\ topic \in TopicsOf(basis[s])
        /\ d \in {basis[s].chat, basis[s].hook} /\ d # Nowhere
    BY <1>3, <1>6
  <2>2. CASE d \in Destinations(home)
    BY <1>5, <2>2
  <2>3. ASSUME d \notin Destinations(home), d = basis[s].chat
        PROVE  \E to \in Queued(topic) : d = Target(to)
    <3> DEFINE to == [via |-> "chat", at |-> basis[s].chat]
    <3>1. to \in RoutesOf(s, basis[s], home) /\ to \in Channels
      BY <1>1, <1>2, <2>1, <2>3, RouteCases
    <3>2. [topic |-> topic, to |-> to] \in routes
      BY <2>1, <3>1 DEF RoutesAgree
    <3>3. Target(to) = basis[s].chat
      BY DEF Target
    <3> HIDE DEF to
    <3> QED
      BY <2>3, <3>2, <3>3, QueuedCases
  <2>4. ASSUME d \notin Destinations(home), d = basis[s].hook
        PROVE  \E to \in Queued(topic) : d = Target(to)
    <3> DEFINE to == [via |-> "subscription", at |-> s]
    <3>1. to \in RoutesOf(s, basis[s], home) /\ to \in Channels
      BY <1>1, <1>2, <2>1, <2>4, RouteCases
    <3>2. [topic |-> topic, to |-> to] \in routes
      BY <2>1, <3>1 DEF RoutesAgree
    <3>3. Target(to) = hooks[s]
      BY DEF Target
    <3>4. hooks[s] = basis[s].hook
      BY <1>2, <2>1, <2>4 DEF RoutesAgree
    <3> HIDE DEF to
    <3> QED
      BY <2>4, <3>2, <3>3, <3>4, QueuedCases
  <2> QED
    BY <2>1, <2>2, <2>3, <2>4
<1>7. \A d : d \in reached <=> \/ d \in Destinations(home)
                               \/ \E s \in Subs : d \in Wanted(basis[s], topic)
  OBVIOUS
<1> HIDE DEF reached
<1>8. {Target(to) : to \in Queued(topic)} = reached
  BY <1>4, <1>5, <1>6, <1>7
<1> QED
  BY <1>8 DEF reached

\* An event is queued for every destination of every subscription that asks for it and
\* for the global destinations, and for nothing else.
THEOREM SubscribersAreReached == SubscriptionsSpec => ReachesSubscribers
<1> DEFINE Reaches ==
      Len(events') > Len(events) =>
        {Target(n.to) : n \in pending' \ pending}
          = Destinations(home)
              \cup UNION {Wanted(basis[s], events'[Len(events')]) : s \in Subs}
<1>1. ASSUME Inv, NEW topic \in Topics, RecordEvent(topic)
      PROVE  Reaches
  <2>1. SubscriptionsTypeOK /\ RoutesAgree /\ Counted
    BY <1>1 DEF Inv, OnceInv
  <2>2. /\ Len(events) \in Nat /\ Len(events') = Len(events) + 1
        /\ events'[Len(events')] = topic
        /\ \A n : n \in pending' <=>
             \/ n \in pending
             \/ \E to \in Queued(topic) : n = [event |-> Len(events'), to |-> to]
    BY <1>1, <2>1, RecordStep
  <2>3. \A n \in pending : n.event # Len(events')
    BY <2>1, <2>2 DEF Counted
  <2>4. \A n : n \in pending' \ pending <=>
          \E to \in Queued(topic) : n = [event |-> Len(events'), to |-> to]
    BY <2>2, <2>3
  <2>5. {Target(n.to) : n \in pending' \ pending} = {Target(to) : to \in Queued(topic)}
    <3> DEFINE new(to) == [event |-> Len(events'), to |-> to]
    <3>1. \A to : new(to).to = to
      OBVIOUS
    <3>2. \A n \in pending' \ pending : \E to \in Queued(topic) : n.to = to
      BY <2>4
    <3>3. \A to \in Queued(topic) : new(to) \in pending' \ pending
      BY <2>4
    <3> HIDE DEF new
    <3> QED
      BY <3>1, <3>2, <3>3
  <2> QED
    BY <2>1, <2>2, <2>5, QueuedReaches
<1>2. ASSUME UNCHANGED events, Inv
      PROVE  Reaches
  <2>1. Len(events) \in Nat
    BY <1>2, LenProperties DEF Inv, SubscriptionsTypeOK
  <2> QED
    BY <1>2, <2>1
<1>3. ASSUME \/ \E h \in Homes : StartCollector(h) \/ ReloadSettings(h)
             \/ RefreshRoutes \/ NothingNew \/ EndPoll \/ CrashCollector
             \/ \E n \in pending : Deliver(n) \/ GiveUp(n)
             \/ UNCHANGED subscriptionVars
      PROVE  UNCHANGED events
  BY <1>3 DEF StartCollector, ReloadSettings, RefreshRoutes, NothingNew, EndPoll,
              CrashCollector, Deliver, GiveUp, subscriptionVars
<1> HIDE DEF Reaches
<1>4. Inv /\ [SubscriptionsNext]_subscriptionVars => Reaches
  BY <1>1, <1>2, <1>3, EditSteps DEF SubscriptionsNext, PollStep
<1>5. Inv /\ [SubscriptionsNext]_subscriptionVars => [Reaches]_subscriptionVars
  BY <1>4
<1> QED
  BY <1>5, Invariant, PTL DEF SubscriptionsSpec, ReachesSubscribers, Reaches
=============================================================================
