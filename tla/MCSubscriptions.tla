-------------------------- MODULE MCSubscriptions --------------------------
(* Instances of Subscriptions for TLC. *)
EXTENDS Subscriptions

CONSTANTS alice, home1, home2, hook1, hook2

Row(chat, hook, owners, topics) ==
  [chat |-> chat, hook |-> hook, owners |-> owners, events |-> topics, active |-> TRUE]

\* The first global chat is also a subscriber, and so is the second.
MCHomes == {[chat |-> home1, hook |-> Nowhere], [chat |-> home2, hook |-> hook1]}

MCCreations ==
  {Row(home1, hook1, {alice}, {"pillar"}), Row(home1, Nowhere, {}, {"epoch"}),
   Row(home2, hook2, {alice}, {"pillar", "epoch"})}

MCPayloads ==
  {[active |-> FALSE], [chat |-> Nowhere],
   [hook |-> Nowhere, events |-> {"epoch"}, owners |-> {}]}

\* An address list that is emptied while the events stay, and "all" events.
CarelessPayloads == {[owners |-> {}], [events |-> {"pillar", "epoch"}]}
=============================================================================
