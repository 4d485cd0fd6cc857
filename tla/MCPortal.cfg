\* Saves of settings that meet every step of a reload and of the start of the
\* collector; three accounts and two handlers; two pages of one browser; two
\* subscriptions that share chats and webhooks with each other and with the global
\* channels, three edits, two at a time, an event and a crash.  When the bounds
\* are used up nothing happens any more.
SPECIFICATION MCSpec
CONSTANTS
  MaxSaves = 3
  MaxFaults = 2
  Savers = {one, two}
  Ids = {ann, bob, cat}
  Threads = {one, two}
  Pages = {first, second}
  Persons = {ann, bob}
  Nobody = Nobody
  MaxSessions = 2
  MaxTokens = 4
  alice = alice
  home1 = home1
  home2 = home2
  hook1 = hook1
  hook2 = hook2
  Nowhere = Nowhere
  Subs = {1, 2}
  Pillars = {alice}
  Chats = {home1, home2}
  Webhooks = {hook1, hook2}
  Homes <- MCHomes
  Creations <- MCCreations
  Payloads <- MCPayloads
  Handlers = {1, 2}
  MaxEdits = 3
  MaxEvents = 1
  MaxCrashes = 1
INVARIANTS
  NoSaveIsLost
  ConfigIsUsable
  CopyIsLatest
  SavesAsItself
  NewestMaySave
  RowsAreAccepted
  OncePerChat
PROPERTIES
  LatestIsApplied
  SetupIsFirst
  ReachesSubscribers
  ChangesAreRouted
CHECK_DEADLOCK FALSE
