\* A subscription to all events whose list of pillars is emptied.
SPECIFICATION SubscriptionsSpec
CONSTANTS
  alice = alice
  home1 = home1
  home2 = home2
  hook1 = hook1
  hook2 = hook2
  Nowhere = Nowhere
  Subs = {1, 2}
  Pillars = {alice}
  Chats = {home1, home2}
  Webhooks = {hook1, hook2}
  Homes <- MCHomes
  Creations <- MCCreations
  Payloads <- CarelessPayloads
  Handlers = {1}
  MaxEdits = 2
  MaxEvents = 0
  MaxCrashes = 0
INVARIANT PillarEventsHaveOwners
