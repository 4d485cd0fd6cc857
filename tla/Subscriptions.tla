--------------------------- MODULE Subscriptions ---------------------------
(***************************************************************************)
(* Subscriptions to events, edited in the portal while the collector polls.*)
(* A request reads a row, merges its fields into it and writes all fields  *)
(* back in another transaction; the dispatcher builds its routes from the  *)
(* active rows when the process starts, when settings are reloaded and     *)
(* when a poll begins, queues the events of the poll along them, and looks *)
(* destinations up again when it sends.                                    *)
(*                                                                         *)
(* Who may edit which row is left out, and so are subscriptions in the     *)
(* settings, which count only while the table is empty.  The first poll of *)
(* all, which notifies nobody, is over.                                    *)
(***************************************************************************)
EXTENDS Naturals, Sequences, FiniteSetsExt

CONSTANTS
  Subs,      \* bound: ids of pillar_subscriptions, given out in order
  Pillars,   \* owner addresses
  Chats,     \* Telegram chats
  Webhooks,  \* Discord webhooks
  Homes,     \* global destinations, as pairs of a Telegram chat and a webhook
  Creations, \* what is posted as a new subscription
  Payloads,  \* fields that are patched, as functions on some of Fields
  Nowhere,   \* no chat, no webhook
  Handlers,  \* bound: requests answered at a time
  MaxEdits,  \* bound: subscriptions created and updates begun
  MaxEvents, \* bound: events of the network
  MaxCrashes \* bound: crashes of the collector

VARIABLES
  subs,    \* pillar_subscriptions
  handler, \* local variables of the handlers of updates
  edits,
  stage,   \* where the collector is
  home,    \* its telegram_channel_id and discord_channel_webhook
  routes,  \* its pillar_event_channels and network_event_channels
  hooks,   \* its discord_subscription_webhooks
  basis,   \* history: the table the routes were built from
  events,  \* what the events are about, in order
  pending, \* notifications that are neither sent nor given up
  got,     \* history: messages by event and place
  moved,   \* history: events that saw the global destinations change
  crashes

portal == <<subs, handler, edits>>
dispatcher == <<home, routes, hooks, basis>>
outcome == <<pending, got, moved>>
subscriptionVars == <<portal, stage, dispatcher, events, outcome, crashes>>

Fields == {"chat", "hook", "owners", "events", "active"}
SubscriptionRow ==
  [chat : Chats \cup {Nowhere}, hook : Webhooks \cup {Nowhere}, owners : SUBSET Pillars,
   events : SUBSET {"pillar", "epoch"}, active : BOOLEAN]

ASSUME SubscriptionsAssumption ==
  /\ Chats \cap Webhooks = {} /\ Nowhere \notin Chats \cup Webhooks
  /\ Homes \subseteq [chat : Chats \cup {Nowhere}, hook : Webhooks \cup {Nowhere}]
  /\ Creations \subseteq SubscriptionRow
  /\ Payloads \subseteq
       {[f \in fields |-> row[f]] : fields \in SUBSET Fields, row \in SubscriptionRow}

NoRow == [active |-> FALSE]
NoRequest == [pc |-> "idle"]

\* epoch_available concerns everybody, the other types concern a pillar.
Topics == Pillars \cup {"epoch"}

Places == Chats \cup Webhooks

\* Channels of notifications: the two global ones, a chat, and the webhook of a
\* subscription.
Channels ==
  [via : {"telegram", "discord"}] \cup [via : {"chat"}, at : Chats]
    \cup [via : {"subscription"}, at : Subs]

SubscriptionsTypeOK ==
  /\ subs \in [Subs -> SubscriptionRow \cup {NoRow}]
  /\ basis \in [Subs -> SubscriptionRow \cup {NoRow}]
  /\ handler \in [Handlers -> {NoRequest}
                 \cup [pc : {"write"}, sub : Subs, row : SubscriptionRow, given : SUBSET Fields]]
  /\ stage \in {"down", "idle", "routed", "dispatch"}
  /\ home \in Homes
  /\ routes \in SUBSET [topic : Topics, to : Channels]
  /\ hooks \in [Subs -> Webhooks \cup {Nowhere}]
  /\ events \in Seq(Topics)
  /\ pending \in SUBSET [event : Nat, to : Channels]
  /\ got \in Seq([Places -> Nat])
  /\ moved \in SUBSET Nat

Destinations(h) == {h.chat, h.hook} \ {Nowhere}
-----------------------------------------------------------------------------
(***************************************************************************)
(* Validation and routes                                                   *)
(***************************************************************************)

\* normalise_subscription
Accepted(row) ==
  /\ row.chat # Nowhere \/ row.hook # Nowhere
  /\ row.owners # {} \/ "epoch" \in row.events

\* Mutant of RoutesOf: the global chat is not left out.
RoutesOfEverywhere(s, row, h) ==
  {[via |-> "chat", at |-> row.chat] : x \in {row.chat} \ {Nowhere}}
  \cup {[via |-> "subscription", at |-> s] : x \in {row.hook} \ {h.hook, Nowhere}}

\* Mutant of RoutesOf: a chat that is the global one ends the routing of the row.
RoutesOfStrangers(s, row, h) ==
  IF row.chat = h.chat THEN {}
  ELSE {[via |-> "chat", at |-> row.chat] : x \in {row.chat} \ {Nowhere}}
       \cup {[via |-> "subscription", at |-> s] : x \in {row.hook} \ {h.hook, Nowhere}}

\* The destinations of a subscription that are not global ones.
RoutesOf(s, row, h) ==
  {[via |-> "chat", at |-> row.chat] : x \in {row.chat} \ {h.chat, Nowhere}}
  \cup {[via |-> "subscription", at |-> s] : x \in {row.hook} \ {h.hook, Nowhere}}

TopicsOf(row) ==
  (IF "pillar" \in row.events THEN row.owners ELSE {}) \cup (row.events \cap {"epoch"})

ActiveSubs == {s \in Subs : subs[s].active}

\* _build_pillar_event_channels raises for pillar events without owners.
Routable(h) ==
  \A s \in ActiveSubs :
    RoutesOf(s, subs[s], h) # {} /\ "pillar" \in subs[s].events => subs[s].owners # {}

RoutesFrom(h) ==
  UNION {{[topic |-> topic, to |-> route] :
            topic \in TopicsOf(subs[s]), route \in RoutesOf(s, subs[s], h)} :
         s \in ActiveSubs}

\* Webhooks that are not the global one.
HooksFor(h) ==
  [s \in Subs |-> IF s \in ActiveSubs /\ subs[s].hook # h.hook
                  THEN subs[s].hook ELSE Nowhere]

\* Mutant of Build: built when the settings change and not for every poll.
BuildForOtherSettings(h) ==
  IF h = home /\ stage # "down" THEN UNCHANGED dispatcher
  ELSE /\ home' = h
       /\ routes' = RoutesFrom(h)
       /\ hooks' = HooksFor(h)
       /\ basis' = subs

Build(h) ==
  /\ home' = h
  /\ routes' = RoutesFrom(h)
  /\ hooks' = HooksFor(h)
  /\ basis' = subs

\* Where a notification goes when it is sent now; channel "global" resolves to
\* the present settings, a webhook to the one the routes were built with.
Target(route) ==
  CASE route.via = "telegram" -> home.chat
    [] route.via = "discord" -> home.hook
    [] route.via = "chat" -> route.at
    [] route.via = "subscription" -> hooks[route.at]

SubscriptionsInit ==
  /\ subs = [s \in Subs |-> NoRow]
  /\ handler = [t \in Handlers |-> NoRequest]
  /\ edits = 0
  /\ stage = "down"
  /\ home \in Homes
  /\ routes = {} /\ hooks = [s \in Subs |-> Nowhere] /\ basis = subs
  /\ events = <<>> /\ pending = {} /\ got = <<>> /\ moved = {}
  /\ crashes = 0
-----------------------------------------------------------------------------
(***************************************************************************)
(* The portal                                                              *)
(***************************************************************************)

Edit == edits < MaxEdits /\ edits' = edits + 1

\* The id is one above the last.
CreateSubscription(s, row) ==
  /\ Edit
  /\ {r \in Subs : subs[r] = NoRow} # {}
  /\ s = Min({r \in Subs : subs[r] = NoRow})
  /\ Accepted(row)
  /\ subs' = [subs EXCEPT ![s] = row]
  /\ UNCHANGED <<handler, stage, dispatcher, events, outcome, crashes>>

\* _subscription_for_write: the payload over the row as it is now.
MergePayload(t, s, payload) ==
  LET merged == [f \in Fields |->
                  IF f \in DOMAIN payload THEN payload[f] ELSE subs[s][f]]
  IN  /\ Edit
      /\ handler[t] = NoRequest
      /\ subs[s] # NoRow
      /\ Accepted(merged)
      /\ handler' = [handler EXCEPT ![t] =
                   [pc |-> "write", sub |-> s, row |-> merged, given |-> DOMAIN payload]]
      /\ UNCHANGED <<subs, stage, dispatcher, events, outcome, crashes>>

\* Mutant of WriteSubscription: only what the request gave is written.
WriteGivenFields(t) ==
  /\ handler[t].pc = "write"
  /\ subs' = [subs EXCEPT ![handler[t].sub] =
                [f \in Fields |-> IF f \in handler[t].given THEN handler[t].row[f] ELSE @[f]]]
  /\ handler' = [handler EXCEPT ![t] = NoRequest]
  /\ UNCHANGED <<edits, stage, dispatcher, events, outcome, crashes>>

\* update_pillar_subscription is given every field.
WriteSubscription(t) ==
  /\ handler[t].pc = "write"
  /\ subs' = [subs EXCEPT ![handler[t].sub] = handler[t].row]
  /\ handler' = [handler EXCEPT ![t] = NoRequest]
  /\ UNCHANGED <<edits, stage, dispatcher, events, outcome, crashes>>
-----------------------------------------------------------------------------
(***************************************************************************)
(* The collector                                                           *)
(***************************************************************************)

\* The constructor of the dispatcher; when it raises the process ends and the
\* supervisor starts another.
StartCollector(h) ==
  /\ stage = "down"
  /\ Routable(h)
  /\ Build(h)
  /\ moved' = IF h = home THEN moved ELSE 1 .. Len(events)
  /\ stage' = "idle"
  /\ UNCHANGED <<portal, events, pending, got, crashes>>

\* A reload with other global destinations; refused when the routes cannot be built.
ReloadSettings(h) ==
  /\ stage = "idle"
  /\ h # home
  /\ Routable(h)
  /\ Build(h)
  /\ moved' = 1 .. Len(events)
  /\ UNCHANGED <<portal, stage, events, pending, got, crashes>>

\* refresh_routes; when it raises the poll fails and the next tries again.
RefreshRoutes ==
  /\ stage = "idle"
  /\ Routable(home)
  /\ Build(home)
  /\ stage' = "routed"
  /\ UNCHANGED <<portal, events, outcome, crashes>>

\* record_observation: an event with one notification per distinct channel.
Queued(topic) ==
  {[via |-> "telegram"] : x \in {home.chat} \ {Nowhere}}
  \cup {[via |-> "discord"] : x \in {home.hook} \ {Nowhere}}
  \cup {entry.to : entry \in {r \in routes : r.topic = topic}}

RecordEvent(topic) ==
  /\ stage = "routed"
  /\ Len(events) < MaxEvents
  /\ events' = Append(events, topic)
  /\ pending' = pending \cup {[event |-> Len(events'), to |-> route] : route \in Queued(topic)}
  /\ got' = Append(got, [d \in Places |-> 0])
  /\ stage' = "dispatch"
  /\ UNCHANGED <<portal, dispatcher, moved, crashes>>

NothingNew ==
  /\ stage = "routed"
  /\ stage' = "dispatch"
  /\ UNCHANGED <<portal, dispatcher, events, outcome, crashes>>

\* A notification without a destination fails like one that is rejected.
Deliver(n) ==
  /\ stage = "dispatch"
  /\ Target(n.to) # Nowhere
  /\ pending' = pending \ {n}
  /\ got' = [got EXCEPT ![n.event][Target(n.to)] = @ + 1]
  /\ UNCHANGED <<portal, stage, dispatcher, events, moved, crashes>>

\* The last attempt fails.
GiveUp(n) ==
  /\ stage = "dispatch"
  /\ pending' = pending \ {n}
  /\ UNCHANGED <<portal, stage, dispatcher, events, got, moved, crashes>>

\* A poll that fails or has no newer momentum ends before anything is sent; what
\* was not delivered is tried again in a later one.
EndPoll ==
  /\ stage \in {"routed", "dispatch"}
  /\ stage' = "idle"
  /\ UNCHANGED <<portal, dispatcher, events, outcome, crashes>>

\* The routes are lost with the process.
CrashCollector ==
  /\ crashes < MaxCrashes
  /\ crashes' = crashes + 1
  /\ stage # "down"
  /\ stage' = "down"
  /\ UNCHANGED <<portal, dispatcher, events, outcome>>

PollStep ==
  \/ (\E h \in Homes : StartCollector(h)) \/ RefreshRoutes
  \/ (\E topic \in Topics : RecordEvent(topic)) \/ NothingNew
  \/ EndPoll

SubscriptionsNext ==
  \/ \E s \in Subs, row \in Creations : CreateSubscription(s, row)
  \/ \E t \in Handlers, s \in Subs, payload \in Payloads : MergePayload(t, s, payload)
  \/ \E t \in Handlers : WriteSubscription(t)
  \/ PollStep
  \/ \E h \in Homes : ReloadSettings(h)
  \/ \E n \in pending : Deliver(n) \/ GiveUp(n)
  \/ CrashCollector

\* run_forever keeps polling and the supervisor restarts it.
SubscriptionsSpec ==
  /\ SubscriptionsInit /\ [][SubscriptionsNext]_subscriptionVars
  /\ WF_subscriptionVars(PollStep)
-----------------------------------------------------------------------------
(***************************************************************************)
(* Properties                                                              *)
(***************************************************************************)

\* Two updates that were checked against the same row never leave one that
\* would not have been accepted: the later one replaces all of the row.
RowsAreAccepted == \A s \in Subs : subs[s] = NoRow \/ Accepted(subs[s])

Wanted(row, topic) ==
  IF row.active /\ topic \in TopicsOf(row) THEN {row.chat, row.hook} \ {Nowhere} ELSE {}

\* The notifications of an event lead to every destination of every subscription
\* that was active when the routes were built and asks for it, to the global
\* destinations, and nowhere else.
ReachesSubscribers ==
  [][Len(events') > Len(events) =>
       {Target(n.to) : n \in pending' \ pending}
         = Destinations(home)
             \cup UNION {Wanted(basis[s], events'[Len(events')]) : s \in Subs}]_subscriptionVars

\* No chat receives an event twice, through several subscriptions or as the
\* global channel, unless the global destinations changed while it was pending.
OncePerChat ==
  \A e \in 1 .. Len(events), c \in Chats : got[e][c] > 1 => e \in moved

\* SETUP.md: "Changes are picked up automatically within one minute."  Once there
\* have been edits, the last is in the routes of a collector that runs.
ChangesAreRouted == <>[](edits > 0 => basis = subs /\ stage # "down")

\* functions/subscriptions.py: "Pillar events require at least one pillar owner
\* address".
PillarEventsHaveOwners ==
  \A s \in ActiveSubs : "pillar" \in subs[s].events => subs[s].owners # {}
=============================================================================
