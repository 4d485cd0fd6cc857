# TLA+ models and proofs of the Zenon Pillar Tracker

The Pillar Tracker polls Zenon nodes, keeps what it sees in SQLite, shows it on a
web page and tells subscribers about changes over Telegram and Discord. This
directory holds TLA+ modules of the parts of it whose correctness depends on
order: several processes over one database, transactions that follow one
another with a stop possible in between, nodes that lag and fork, pages of a
browser whose answers overtake each other, and a calendar that data is removed by.
`PROJECT.json` lists for every definition the lines of the source it stands for.

Source files are named relative to the repository (`collector_controller.py` is
`controllers/collector_controller.py`, `database.py` is `models/database.py`).

## Running it

    tlc -config MCOutbox.cfg MCOutbox        # any run of the table in section 3
    tlapm OutboxProofs.tla                   # any module named *Proofs

A run takes between a second and three minutes. A module `MCx` adds to module `x`
the constants that a configuration assigns values to. Two of them are sums:
`MCObservation` and `MCPortal` hold two and four systems that share no state, and
a variable `part`, chosen at the beginning, says which of them moves. What such a run
checks of one system it checks in all behaviours of that system, and the others
rest; it is one run because the question is one ("what do the tables say", "what
may the portal be told").

## 1. The system

Two processes share the SQLite file (WAL, one connection per call of `Database`,
so one transaction per call unless a method opens several):

- the **collector** (`python pillar_tracker.py --loop`, started again by systemd
  or Docker when it ends): one main thread that polls, dispatches notifications,
  does maintenance and looks for new settings, and one thread for Telegram
  updates; a second collector may be started by hand for a single poll;
- the **web application**: a `ThreadingHTTPServer`, a thread per request, which reads
  the tables, changes accounts, subscriptions and settings, and stores daily
  statistics as a by-product of showing them.

They talk to each other only through the database.

| Component | State | Operations | Talks to |
|---|---|---|---|
| Node RPC wrapper (`utils/node_rpc_wrapper.py`) | none | frontier, sync info, pillars page by page, reward history; retries | a Zenon node |
| Node RPC pool (`utils/node_rpc_pool.py`) | active index, cooldown per node | `collect_snapshot`: order candidates, look at the frontier, validate, wait for synchronisation, collect, give a verdict | wrapper; the collector's cursor |
| Collector loop (`collector_controller.py`) | day of the last maintenance, settings in use and their revision | `run_once`, `run_forever`, `run_maintenance_if_due`, `_mark_failed` | pool, database, dispatcher |
| Observation recording (`database.py`, `record_observation`) | `pillars`, `epochs`, `events`, `pillar_snapshots` | compare a snapshot with the tables, write the difference as events, replace the rows | status function; notifications |
| Pillar status (`functions/status.py`) | none (counters of a pillar's row) | `evaluate_pillar_status` | – |
| Outbox (`database.py`, `services/notification_service.py`) | `notifications`, `epochs.announcement_*` | enqueue, fetch, claim, send, mark sent or failed | HTTP clients |
| Daily statistics and retention (`database.py`) | `pillar_performance_daily`, `performance_finalized_days`, snapshots, a cache in memory | store completed days, prune, answer a request | collector and web threads |
| Runtime settings (`services/settings_service.py`, `database.py`) | `app_settings`, its revision, a copy in each process | save, load, reload | portal, collector |
| Accounts (`web_controller.py`, `database.py`) | `users` | first-run setup, create, update | web threads |
| Sessions and CSRF (`web_controller.py`, `database.py`, `templates/portal.js`) | `sessions`, two cookies of the browser, `csrfToken` of each page | sign in, `/api/auth/me` (rotates the token), sign out, verify, expire | pages of a browser, web threads |
| Subscriptions and routing (`functions/subscriptions.py`, `notification_service.py`) | `pillar_subscriptions`, the routes and webhooks of the dispatcher | create, merge an update, validate, build routes, queue along them | web threads, collector, outbox |
| Telegram updates and pinned message (`collector_controller.py`) | update offset, message id and text in memory | poll updates, answer, edit the pinned message | collector thread, Telegram |
| Web API, rate limiter | sliding windows in memory | read-only queries | everything |
| Import and backfill tools (`tools/`) | – | import of channel history, two backfills of `epochs`, in processes of their own | database |

What makes it hard, and what correctness means, per component:

- **Outbox.** A dispatcher may die holding a row; a reply may be lost; marking
  may fail after the send; two dispatchers may fetch the same row; a fetch is
  limited to fifty rows. Correct means: one sender at a time, no attempt and no
  duplicate that a fault did not cause, a row that says what happened, an epoch
  announcement that is exactly the message sent, and every row settled in the end.
- **Observation.** Everything about a pillar may change at once, epochs go back
  and forth between nodes, counters restart. Correct means: the events are the
  whole difference, once; nobody is alarmed early; an epoch is announced once.
- **Collector.** The observation, the cursor in `node_state` and the row of
  `poll_runs` are written by three transactions. Correct means: a stop between
  two of them neither loses nor falsifies anything that a reader can see, and
  the loop gets to the newest momentum.
- **Node pool.** Cooldowns, the preferred primary, the active index and the
  exception for a lone synchronising node interact, and nodes change between
  the calls of one poll. Correct means: a node that works is used.
- **Daily statistics.** Two processes compute the same days from snapshots that
  one of them removes. Correct means: what is stored is what the snapshots said,
  it stays, and what is not stored yet keeps its snapshots.
- **Settings.** Revision and values are read by two calls around which saves
  happen. Correct means: no save is lost, nothing unusable is applied.
- **Accounts.** Checks and updates are separate transactions. Correct means: one
  first administrator, and always one administrator left.
- **Telegram updates.** Two threads share attributes without a lock and edit one
  message. Correct means: no update is confirmed unhandled, none handled twice
  without a restart, and the message ends up as the newest state.
- **Sessions.** Every load of a page replaces the token of the session, the token
  travels in a cookie all pages share and in the page itself, and answers overtake
  each other. Correct means: a save is accepted only for the account that its page
  shows, and the page that loaded last can save.
- **Subscriptions.** Rows are edited in two transactions while the dispatcher works
  with routes it built earlier, global destinations change and rows are
  pending. Correct means: rows stay acceptable, an event reaches every subscriber
  of it, no chat twice, and an edit is in effect in the end.
- **Epoch history.** Polls, the importer and two backfill tools write the same rows in
  any order, and a tool may end between its transactions. Correct means: estimates
  are marked, observed values survive, no epoch is announced that somebody knew.

## 2. The modules

    Delivery        abstract: what the outbox promises
      ^ implements
    Outbox          notifications table and dispatchers      OutboxProofs
    PillarStatus    evaluate_pillar_status, no state
      ^ extends
    Observation     record_observation
      ^ extends                ^ extends
    Collector       run_once   Rollover   a network that     ObservationProofs
                                          moves while read
    EpochHistory    polls, importer, backfill tools          EpochHistoryProofs
    NodePool        collect_snapshot                         NodePoolProofs
    Maintenance     daily statistics and pruning, two        MaintenanceProofs
                    processes
    Settings        abstract portal; reloads               \
      ^ extends and implements                              |
    PortalSettings  a save in three steps, the portal's     | PortalProofs
                    copy                                    |
    Accounts        handlers of the portal                  |
    Sessions        pages of one browser                   /
    Telegram        polls and button presses, one message    TelegramProofs
    Subscriptions   edits, routes, delivery                  SubscriptionsProofs

Conventions: an action is one transaction, one RPC or one step of a thread that
others may observe; the control state of a thread is a `pc` or the field `pc` of a
record with its local variables. Variables commented as *history* are not in the
program: they say what happened, for the properties. Constants commented as
*bound* limit what TLC explores; the theorems hold for every value of them.
A definition whose comment begins with *Mutant* is a wrong version of the definition
after it, kept to show that the property it names can fail.

**Outbox.** `status`, `attempts`, `age` (time since `last_attempt_at`), `created` are
the columns of `notifications`; `announcement` is the row that filled
`epochs.announcement_at`. `Enqueue` inserts the rows of one observation. `Fetch` is
`get_pending_notifications` (pending or stale, oldest first, `LIMIT`); `Claim` the
conditional `UPDATE` of `claim_notification`; `SendAccepted`, `SendRejected` and
`SendReplyLost` the outcomes of a send; `MarkSent` and `MarkFailed` the two marks, of
which the first also fills the announcement in the same transaction; `Abandon` is
the end of the process. An error while marking a delivered message (`MarkSentRaises`) goes
on to `MarkFailed`, as the `except` of `dispatch_pending` does.

**PillarStatus, Observation, Rollover.** `Status` and `MissedMomentums` are
`evaluate_pillar_status`. `EventsOf` and `NewRow` are the two halves of
`record_observation`; `Observe` is the transaction. `view` is a follower that
reads nothing but the events. In `Observation` the node may say anything; in
`Rollover` there may also be a network whose epoch and counters move on between
`ReadPillars` and `ReadEpochAndRecord` (`live` is `Unknown` or its state). `idle`
counts, for the property, the latest reads in a row that saw a pillar produce nothing.

**EpochHistory.** A row of `epochs` says where each value comes from: `start` with
`estimated` is `epoch_start_at` with `epoch_start_inferred`, `told` with `guessed` is
`announcement_at` with `announcement_inferred`, `paid` says whether the rewards are the
node's. A poll reads the newest epoch (`PollReads`), records (`PollRecords`) and is
finished (`PollFinishes`), each in a transaction; `AnnouncementSent` is
`mark_notification_sent`. `ImportHistory` is one run of the importer over any part of the
channel; `BackfillSchedule` and `BackfillObserved` are the two transactions of
`backfill_epoch_starts.py`, between which `BackfillStops` and leaves estimates;
`BackfillAnnouncements` is the other tool. Two histories: `taken` are the observed starts
that the first transaction has ever overwritten, and `owing` says that no run of the tool
has got to its end since the last one began. It begins with a new database or with one
from before the columns were added.

**Collector.** The steps of `run_once` in the order of the code: `Begin` (`begin_poll`),
`Prepare` (reads `node_state`, and whether there are snapshots), `Collect`, `NodeSyncing`
(all that answered are synchronising, which makes the poll stale before momentums are
compared) or `CollectFails`, then `Record`, `Advance`, `Succeed`, `Dispatched` for a new
momentum, `MarkStale`/`CloseStale` or `MarkReorg`/`CloseReorg` otherwise. `DatabaseRaises`
jumps from any step to `_mark_failed` (`MarkFailed`, `HealthError`), `Crash` to the
beginning. `Grow`, `Fork` and `Day` are the network and the calendar; `Prune` is what
maintenance removes (in days, as only "are there any snapshots" matters here). A listing
without pillars is believed only with `allow_empty_pillars`, and adds no snapshot. The
history `gap` says that once, after an outage or a first listing that was empty, no stored
snapshot was younger than the retention.

**NodePool.** `Candidates` is `_candidate_indices`; one `Frontier`, `Validate` and
`Collect` per candidate, with the lists `reorg`, `stale` and `syncing` that the code
keeps; `Recovered` and `WaitedForNothing` are `_wait_for_sync`; `Conclude` is the end of
`collect_snapshot`. Between any two of them a node changes its mode, grows or
forks.

**Maintenance.** One pillar. `today` and `phase` are the clock around the fifteen
minutes of `PERFORMANCE_FINALIZE_DELAY`. `ListMissing`, `ReadBaseline`,
`ReadRange`, `Store` are the statements of `_store_closed_performance_days`, which
the collector runs for all days (`Maintain`, in chunks) and a web thread for the
days of a page and then for those that `get_delegator_apr` samples (`Request`,
`Estimate`, `Answer`); `BeginPrune` and `PruneBatch` are
`prune_snapshots`. `Bucket` and `Delta` are `_performance_day_buckets`. The clock
waits for work that began before its last turn: such work takes seconds, at
worst minutes.

**Settings, PortalSettings.** `saves` is the sequence of what the portal stored; its
length is the revision. A setting is abstracted to whether the collector can be built
from it. `Start`/`Construct` are `main` and the constructor, `Check`/`Load`/`Apply`
`_reload_settings_if_changed` and `_apply_runtime_config`. A save may land at any
time, also between `Start` and `Construct`; the history `startup` remembers those until
a reload takes their place. `PortalSettings` takes a save apart into `SaveCommits`,
`SaveReads` and `SaveInstalls`, which handlers of other saves run between, and adds the copy
that the web server shows; the history `burst` is the first of the latest saves that
overlap one another.

**Telegram.** The main thread is reduced to what the message needs: `Observe` (a poll
changed the table), `RefreshPillars`, `EditStep`. The worker gets a batch
(`GetUpdates`), moves the offset past each update before it handles it
(`TakeUpdate`), and for a press writes `_pinned_status` and `_pinned_page`
(`Select`), takes the cached pillars or reads the table (`GetPillars`, `Assign`) and edits.
`EditStep` is `_edit_pinned_message` cut at every access to a shared attribute, where
status and page are read one after the other: `CountPages`, `ClampPage`, `StorePage`,
`ReadStatus` and `RenderText` or `RenderKeys`, `Edit`. `Restart` loses all
attributes, the offset among them; what Telegram was not yet asked to forget it
delivers again. `batch` is what `get_updates` returned and is not handled yet; the local
variables of both threads are in `thread`.

**Accounts.** A thread per request: `BeginSetup`/`CreateInitialAdmin` (setup),
`Authorize` and then `CreateUser`, or `ReadCurrent`/`CountAdmins`/`Update`, each a
transaction of its own. A deactivated administrator is refused at `Authorize`, but not in
a request that is already under way.

**Sessions.** Two pages of one browser: `jar` is its cookies, `page` what each page shows
with its `csrfToken`, `call` the request each has under way. `OpenPage`, `FindUser`,
`Rotate`, `PageLoads` are one `/api/auth/me`; `SignIn`/`Welcome` and
`SignOut`/`EndSession`/`Goodbye` sign in and out; `Submit`, `FindSaver` (`_require_user`)
and `CheckSave` (`_require_csrf`) are a save, whose session is looked up twice. An answer
may be lost or come late, a session may end at any time (`Expire`). `CsrfHolds` is the
triple comparison of header, cookie and stored token.

**Subscriptions.** `MergePayload` and `WriteSubscription` are the two transactions of an
update. `Build` is what the dispatcher does when it is constructed, when settings are
reloaded and before every poll (`StartCollector`, `ReloadSettings`, `RefreshRoutes`);
`RoutesOf` leaves global destinations out, `Queued` is the set of channels that
`record_observation` enqueues, and `Target` is where such a channel leads when it is
sent. `basis` remembers the table that the routes were built from.

## 3. What is checked

| Run | Question | Bounds | States |
|---|---|---|---|
| `outbox` | Are claims exclusive, faults the only source of extra attempts and duplicates, rows and announcements truthful and final, every row settled, and `Delivery` implemented? | 2 dispatchers, 2 rows of one epoch, 2 attempts, lease 1 tick, `LIMIT 1`, 2 faults | 379 000 |
| `observation` | Do the events rebuild the tables, is no alarm early, can the end of an epoch between two answers raise one? Do polls and tools that write one row of `epochs` keep what is known of it? | 1 pillar, 2 names, 2 shares, counters 0–1, 3 epochs, threshold 2; or 2 rollovers, 2 slots per epoch; or 3 reward epochs, 2 imports, 1 crash | 585 000 |
| `epochs_doc` | Is a scheduled start always marked as inferred? (**no**) | 2 reward epochs, 1 import | – |
| `collector` | Do cursor, observation, poll row and subscribers agree through crashes, errors, forks and stale nodes, and is every momentum reached? | 2 pillars or none listed, 2 momentums, 2 hashes, 1 fault, 2 days without data over a retention of 1 | 625 000 |
| `maintenance` | Are stored days right and final, and open days intact, with a visitor at any time and a day without maintenance? | 6 days, 2 snapshots, retention 4, requests of 2 days and 1 for the APR, chunks of 1 day, 1 fault | 7.4 million |
| `maintenance_race` | Are completed days final after an outage? (**no**) | 4 days, 2 of them without maintenance, retention 2 | – |
| `node_pool` | Is the node used that works? | 2 nodes, 2 momentums, 2 hashes, cooldown 1 tick | 558 000 |
| `telegram` | Is every update handled before it is confirmed, none repeated without a fault, and does the message end up right? | 2 tables, 2 filters, 2 pages, 2 updates, 1 fault | 2.7 million |
| `portal` | Is any save lost, applied unusable or not shown? Does setup create exactly the first account? Does a page save as the account it shows, and can the newest one? Do subscriptions stay acceptable, does an event reach its subscribers and no chat twice, are edits in effect in the end? | 3 saves, 2 faults, 2 handlers; or 3 accounts, 2 handlers; or 2 pages, 2 accounts, 2 sessions, 4 tokens; or 2 subscriptions, 2 chats, 2 webhooks, 2 sets of global destinations, 3 edits, 2 handlers, 1 event, 1 crash | 1.8 million |
| `settings_doc` | Does the collector end up with the last save? (**no**) | 2 saves, no fault | – |
| `accounts_doc` | Is there always an administrator? (**no**) | 3 accounts, 2 handlers | – |
| `subscriptions_doc` | Do pillar events always have owners? (**no**) | 1 handler, 2 edits | – |

Why the bounds are enough for the cases meant:

- *outbox*: two dispatchers and two rows are the smallest instance where a row is
  fetched by both, taken over, or blocked behind an older one; two attempts have a
  first and a last; one row per epoch could never compete for the announcement, so
  both are about the same; two faults allow a crash in the take-over of a crash.
- *observation*: pillars are compared one by one, so one pillar shows everything
  but the set of events (two are in `collector`). Threshold 2 has a miss that is
  not an alarm; three epochs have an older, a current and a newer one; counters
  0 and 1 have a rise, a fall to zero and a standstill, and from the network, where
  slots come one by one, they go to 2. `missed_momentums` is
  cut off at `MissedBound` by the guard of the action.
  With a network, an alarm needs two misses in a row, so two rollovers contain every
  pattern of rollover, miss and read around one; the theorem has no such bounds.
  Of the epochs, a gap needs an epoch between two others, hence three; two imports
  have a first and one over its result.
- *collector*: two momentums give a bootstrap, a successor, a stale answer of
  either height and a fork of either; a fault strikes at every step. `MaxGap` is one more than
  `Retention`: a snapshot reaches the last day it is kept, and an outage can outlast it.
- *maintenance*: the calendar begins at day two, so that the first days have some to
  look back to, and ends at day seven, the first on which a snapshot is older than the
  retention of four and removed; two snapshots are a baseline and a successor, on
  every choice of days, and one epoch ends between or on them. The one
  fault is a day that passes without maintenance, a run that fails and is not tried
  again before the next day, or a restart, after which it is done again. Pages look
  back two days and the APR one day that is closed, and two and three days more are kept:
  this is the condition of the theorems, and section 7 says what happens otherwise, which
  needs three snapshots. `MCMaintenance` adds that the calendar begins with the first poll:
  days before it only shift what follows.
- *telegram*: two updates are a batch with a rest that can be lost; two tables, one
  with a second page, are enough for a snapshot, a page number or a page count to be
  out of date when it is used; one fault is a restart, a failed read or a lost edit.
- *node_pool*: primary and backup are all that `_candidate_indices` tells apart;
  two momentums make stale, reorganised and new frontiers. `RequireSync` is off
  as in the defaults.
- *portal*: two handlers of saves are one that overtakes another, and three saves let
  two overlap after or before one that does not; two pages are one
  that invalidates what the other holds, two accounts make it matter whose; four
  tokens are two loads after each of two sign-ins, or more of one. Of the
  subscriptions, two rows share a chat, share a webhook, or coincide with a
  global destination; three edits are two creations and an update, or two
  updates of one row at a time; one event has its notifications pending across an
  edit, a reload and a crash.

## 4. Fairness

- *outbox*: `WF(Tick)` (the clock) and `WF(Dispatch(d))` (collector runs come again
  and again, and a process that did not stop goes on). Which way a send ends,
  whether a fault happens and whether anything is inserted is not forced.
  `EveryRowSettles` therefore rests on the attempts running out, not on a service
  that works in the end.
- *collector*: `WF(Step)`, as `run_forever` catches what `run_once` raises and polls
  again, and `SF(Collect(newest))`: again and again the poll is answered by a node
  that is up to date. Without the second assumption a collector whose only node is
  down for ever would be asked to catch up.
- *node_pool*: `WF(PollStep)` and `WF(Tick)`. Nothing is assumed of the nodes; the
  properties begin with "if node i stays up".
- *telegram*: `WF` of each thread: polls go on and find new momentums, and the
  worker goes on asking. Presses, commands and faults are bounded and not forced. The
  message is healed by polls alone, so without them nothing would hold.
- *portal*: `WF(MCCollectorStep)`, the collector's part of `Settings`: the supervisor
  starts the process again and the loop keeps looking. Faults are bounded, saves are
  bounded. `LatestIsApplied` rests on it, and is vacuous where another part moves.
  `settings_doc` has the same, as part of `Spec`. Of the subscriptions, `WF(MCPollStep)`:
  `run_forever` polls again whatever a poll raised, and the supervisor starts a collector
  that ended. Requests, deliveries, reloads and crashes are not forced. `ChangesAreRouted`
  is thus about the last edit, and holds only while no stored row makes routing raise;
  `subscriptions_doc` has one that does, and the instance of `portal` has none. Accounts
  and sessions: safety only.
- *observation*, *maintenance*: safety only.

## 5. What is proved

TLAPS checks eight proof modules without assumptions other than the named ones on
the constants.

**OutboxProofs**, for any number of rows, dispatchers, attempts and faults: type
correctness, `ExclusiveClaim`, `AttemptsAccountedFor`, `DuplicatesNeedFaults`,
`SettledTruthfully`, `AnnouncementMatchesOutbox`, `SettledIsFinal`, and the
refinement `Spec => Delivery!Spec`. The assumption that carries the weight is
`LeaseCoversSend`: a live dispatcher marks its row before its claim is stale. The
code has it by its numbers, not by a check: a send is at most three attempts
(six, with the largest setting) with time-outs of fifteen seconds, and waits of at
most a minute between them (`telegram_wrapper.py`); the lease is ten minutes
(`database.py:1926`). A process that is suspended for longer breaks it.

`ExclusiveClaim` is not inductive: a state in which one dispatcher holds a row that
another is free to claim satisfies it. The invariant `IInv` adds

- `HolderInv`: a row that is held is `sending`, and its age is how long it has been
  held, hence at most `SendBound`; so a stale row is held by nobody alive;
- `AttemptsInv`: a pending row has an attempt left, and an orphaned claim has paid
  for the attempt of the one that takes it over with a fault;
- `DeliveredInv`: a delivery without a fault is either recorded or about to be.

One lemma per conjunct shows that every step preserves it, one step of the proof per
action. `AnnouncementStep` adds that a row that is held was not announced before.
`SettledIsFinal` and the refinement follow from `IInv` for each single step.

**PortalProofs**, in four sections.

- *Settings*, for saves at any time: types, `ConfigIsUsable` and `NoSaveIsLost`, by which
  the revision remembered runs ahead of the settings in use by saves of the start-up only.
  The invariant `IInv` adds that what was read is of the past (`ReadsThePast`), that
  settings are read after the revision they will be remembered by (`LoadedCoversNoted`),
  and that `startup` has all that was saved since the process loaded its settings
  (`StartupIsKnown`). The start-up saves are lost indeed: section 6.
- *PortalSettings*: the portal's handlers, whose saves take three steps each,
  implement the saves of `Settings` in one (`PortalImplementsSettings`), so that what is
  proved there holds here; and `CopyIsLatest`, by an invariant (`CopyInv`) that holds while
  saves are under way, too: what a handler has read is no older than `burst`, and neither is
  the copy once none is under way.
- *Accounts*, for any number of accounts and requests: types, `SetupIsFirst`,
  and that setup creates at most one account ever (`OneSetup`), because accounts are
  never deleted (`SetupInv`).
- *Sessions*, for any number of pages, accounts, sessions and tokens: types,
  `SavesAsItself` and `NewestMaySave`. `SavesAsItself` needs that tokens are fresh
  (`GivenOut`) and that the session which has the token of a page or of an answer is of the
  person it shows (`PagesShowOwners`). The session that `FindSaver` found may end before
  `CheckSave` looks for it; while it is there it is still of the same person
  (`StillOwned`). The comparison with the stored token is what carries
  the weight, the cookie none of it. `NewestMaySave` needs what holds of a page whose answer
  is on its way undisturbed (`Undisturbed`).

**ObservationProofs**, for any pillars, names, counters, epochs and any threshold, and
for known and unknown networks alike: `TypeOK`, `FeedRebuildsTable`, `InactiveMeansQuiet`,
`EpochFeedIncreases`. `AnyStep` reduces each step of `Rollover` to one observation of some
answer. The invariant `TablesInv` has three parts:

- `FeedInv`: the follower's pillars are what the rows make public, and its epoch is the
  greatest in the table, said without `Max`. `EventsAbout` names the five events an
  observation may have about a pillar, and `FollowerStep` shows that the follower makes
  of them what `NewRow` makes of the row;
- `QuietInv`: a present pillar has missed no more than it has been quiet for. Without it
  `InactiveMeansQuiet` is not inductive, as the alarm looks at the misses;
- `TypeOK`, whose second conjunct (present means active or inactive) the first part
  needs.

`AlarmsAreEarned` says of a known network that an alarm follows at least `Threshold` - 1
reads in a row that saw the pillar produce nothing, for every threshold. Its invariant
`EarnedInv` begins with what a rollover between two answers does: the row is filed under
an epoch newer than the one its counters are of. Such a row has no miss, because a newer
epoch is a reset. So a row that has one, filed under the newest epoch, was read in the
epoch that goes on, and whatever the pillar produces from then on raises its counter above
the row (`SeenSince`). Hence only the first of the misses in a row can be of a pillar that
produced (`MissesCounted`).

The same module continues with `Collector`, for any number of pillars, momentums, forks,
stale nodes, crashes and errors. `FeedRebuildsTable` carries over, as each poll is an
observation. `CursorIsSafe` and `PollRowAgrees` need what a poll holds while it runs
(`CursorsInv`): the row of `node_state` it read is still the row (`PollKnowsNode`), the
cursor is behind the observations only between two transactions or after a fault
(`CursorInv`), and a row of `poll_runs` is open until `node_state` was written (`PollInv`).
`SubscribersKeepUp` is proved for any outage. Its invariant (`KeepUpInv`) says that without a
`gap` there is, once anything was recorded, a snapshot of the retention, which pruning
leaves: so a poll is a bootstrap only when nothing was recorded, and nobody misses
an event.

**EpochHistoryProofs**, for any number of epochs, imports and crashes: types,
`InterpolatedIsMarked` (of the times of announcements; of starts it does not hold, section
6), `BackfillGivesBack` (through runs that are cut off in between, and polls and imports
before the next one), `RecordedIsKept`, `AnnouncedOnce`. The first two need
`NothingUnknown`: no notification, no poll and no backfill is about an epoch without a
row. One lemma (`RowSteps`) says what any step may do to a row, which gives both
`RecordedIsKept` and the invariant. That a finite set of numbers has a greatest one
(`GreatestExists`) comes from the well-foundedness of the order.

**SubscriptionsProofs**, for any number of subscriptions, chats, webhooks, overlapping
updates, events and crashes: types, `RowsAreAccepted`, `ReachesSubscribers`, `OncePerChat`.
The invariant has three parts besides the types:

- `WritesAreAccepted`: what a request is about to write was accepted when it was merged,
  and it is written whole;
- `RoutesAgree`: routes and webhooks are those of the table they were built from
  (`basis`) under the global destinations in use; `ReachesSubscribers` is this at the step
  that queues an event (`QueuedReaches`);
- `PendingIsNew`: for an event whose global destinations have not changed, a pending
  notification to a subscriber's chat is not to the global one, and what is pending for a
  chat has not reached it. Two that lead to the same chat are then the same
  (`OneForEachChat`), which makes `OncePerChat` inductive.

`SubscriptionsAssumption` only says what the constants are: chats are not webhooks, and
what is posted or patched are fields of rows.

**TelegramProofs**, for any number of updates, tables, pages, faults and restarts: types,
`NoUpdateSkipped`, `RepeatsNeedFaults`. `UpdatesInv` relates the offset to the batch
(`OffsetInv`: past the update in hand, not past those that wait; everything before the
batch is finished) and counts (`TakenInv`): an update is taken once when the offset passes
it, and once more only if a fault lost the offset.

**NodePoolProofs**, for any number of nodes, momentums and failures: types,
`FailsOver`, and that a poll asks every node that is not cooling down, and the
active one in any case (`PollAsksEveryNode`). `FailsOver` is inductive with `QueueInv`: the
nodes that have been up and ahead since the poll began are still in its queue, and when one of
them is validated its momentum is newer than the cursor. That the candidates can be put in
the order of the code (`OrderExists`) is shown by a minimal counterexample.

**MaintenanceProofs**, for any calendar, number of snapshots, visitors, chunks, outages and
interruptions. The invariant has two layers.

- `RowsInv` says which snapshots may be missing, and needs `Retention >= 3`. Snapshots are
  removed oldest first (`SnapsOK`), and each that is missing is `Gone`: its day is
  stored, and no row of a day that is not stored is less than two days younger. Two days
  are what separates epochs, an epoch lasts a day, so nothing that is
  missing can be the baseline of anything that is open. That a removal keeps this rests on
  `Covers` (what the collector will not store any more, since its first snapshot, is stored),
  hence on the order of `run_maintenance_if_due`: days are stored before snapshots are
  removed, no poll comes between.
- `ValuesInv` says what the numbers are, and needs `LooksBackLess`, which is `Period + 2
  <= Retention` for the days of a page and `AprDays + 3 <= Retention` for those of the
  APR, which are closed: a visitor's days are then within reach (`InReach`), so that for
  every day a process still has to store, what is left suffices (`PendingSafe`); its sums
  are right (`ValueOK`); so is what is stored (`DailyOK`).

`Worth(d)` is what all snapshots there ever were say of day `d`. The lemma that carries
the weight is `BucketIsWorth`: `_performance_day_buckets` computes `Worth(d)` from any
rows that begin on an earlier day, any baseline before them, and any removal that leaves
two days to `d`. `OpenDaysAreIntact` follows from the first layer; `StoredIsTrue` and
`CompletedDaysStay` from both: a day that is stored again is stored with the same value.
The clock's steps wait for work that began before the last one (section 2), which `Recent`
says; it is what limits how late a slow request may be.

**Only model-checked**: all liveness (`EveryRowSettles`, `CatchesUp`,
`FreshNodeIsUsed`, `PrimaryIsPreferred`, `LatestIsApplied`, `PinnedSettles`,
`ChangesAreRouted`), which is out of this prover's reach. The type invariant of
`Maintenance` says that sums are numbers, which is induction over data; the proofs do
without it.

## 6. Findings

Five runs end in a counterexample to a sentence of the repository.

- `maintenance_race`: "Completed days never change, so each day is calculated once
  and stored" (`README.md:268`). `_store_closed_performance_days` lists the missing
  days, reads snapshots and stores in separate transactions, and stores by
  replacing (`database.py:2560`). A visitor's request lists a day; the collector,
  overdue after an outage, stores the same day and prunes its snapshots; the
  request reads what is left and overwrites the value with a smaller one.
- `accounts_doc`: "At least one active administrator is required"
  (`database.py:861`). The row, the count and the update are three transactions;
  two requests that each take away one of the last two administrators both pass.
- `epochs_doc`: "Historical schedule-based epoch starts are stored in
  `epochs.epoch_start_at` and marked by `epoch_start_inferred = 1`" (`SETUP.md:339`). The
  importer fills the missing start of a row the collector inserted, and leaves the mark
  as it is, 0 (`database.py:3014`).
- `settings_doc`: "The collector checks for a new settings revision every 60 seconds and
  applies valid changes without a process restart" (`README.md:173-174`). `main` loads the
  settings before the constructor reads the revision it compares with
  (`collector_controller.py:82`); a save in between is taken for applied, and is not, until
  another save or a restart. `NoSaveIsLost` and `LatestIsApplied` say that no other
  save meets this.
- `subscriptions_doc`: "Pillar events require at least one pillar owner address"
  (`functions/subscriptions.py:105`). The check is skipped when a network event is
  selected too. Such a row makes the construction of the routes raise: every poll fails
  at `refresh_routes`, a reload is refused and a collector that restarts does not start.

## 7. Where the code and the documents differ, without a run

These appeared while the modules were written. The modules follow the code.

- *Attempts.* "Failed messages are retried by later collector runs, up to eight
  attempts" (`SETUP.md:633`). A claim is counted when it is made and the limit is
  looked at only when a failure is marked, so a row whose eighth attempt was
  orphaned by a crash is claimed a ninth time. `AttemptsAccountedFor` states what
  holds: each attempt beyond eight took over a claim that a fault had orphaned.
- *Rollover.* "At an epoch transition, the counter resets without treating the reset
  as a missed check" (`README.md:219-221`). Pillars and epoch come from two calls
  (`node_rpc_pool.py:288-295`). If the epoch ends between them, the new counters
  reach the status function one poll later under an epoch already stored, and a
  pillar whose new count equals the old one has a miss. `AlarmsAreEarned`
  shows that of the misses in a row this explains at most one: with a threshold of one it
  alone makes a pillar inactive, from two on it never does.
- *Failed delivery.* "A failed notification must not invalidate a successful data
  collection" (`README.md:405-406`). A send that fails does not; but a database
  error inside the dispatcher reaches the `except` of `run_once`
  (`collector_controller.py:901`), and the poll that had succeeded is closed as
  failed and the node marked with an error.
- *Bootstrap.* "The first successful run is treated as a bootstrap"
  (`SETUP.md:631`). First means that `pillar_snapshots` is empty
  (`collector_controller.py:801`), which maintenance makes it after an outage longer
  than the retention, and which it stays after a listing without pillars, as there is a
  row per pillar (`database.py:1825`); changes found by the next poll are then not notified.
  `SubscribersKeepUp` says that nothing else has this effect.
- *Baseline.* "Always keeps the day before the first unstored day as a baseline"
  (`README.md:193-195`). Pruning selects by the start of a poll
  (`database.py:2360-2366`, `2424`), statistics by the time of the observation: a
  poll that began before midnight and was recorded after it belongs to a day
  that is kept and is removed with the day before. With the smallest retention of two
  days (`settings_service.py:132`) this can be the baseline of a day that is not stored yet,
  and that day then lacks the difference to it: `OpenDaysAreIntact` fails with three
  snapshots. From three days on only days that are stored can be affected
  (`OpenDaysAlwaysIntact`).
- *Long requests.* A request looks back as many days as it asks for (30 by default, up to
  3650), and stores those that are missing; then it stores the seven closed days of the APR
  (`database.py:2195`, `2486`), whatever it asks for. When it reaches as far back as what is
  removed, maintenance that is done again after a restart, or late, meets it on the same
  days and reproduces `maintenance_race` without a long outage. One day less is not
  enough: a request that is answered across midnight looks back from the day before, and
  a poll recorded across midnight is removed a day early. `StoredIsTrue` and
  `CompletedDaysStay` are therefore stated, proved and checked for `LooksBackLess` (section 5).
  The program's defaults, 30, 7 and a retention of 90, satisfy it; nothing in the code
  relates the three, and with retentions of 2 to 9 days, which the settings allow, the
  APR alone breaks it.
- *Overlapping saves.* Each handler installs what it read back, in any order: the portal's
  own copy may stay at the older of two saves until the next one. `CopyIsLatest` says that
  this is all that can happen: what is shown is as new as some save that overlapped the
  last, and exactly what is stored when the last met no other.
- *Signing out.* A page whose token is out of date is refused with 403, but goes to "/"
  as if it had signed out (`portal.js:931-944`): the session goes on. `EndSession` has
  this refusal.
- *Partial updates.* "Omitted fields are left unchanged" (docstring of
  `update_pillar_subscription`). The handler gives it every field, out of a row that it
  read earlier: of two concurrent updates the later one undoes the earlier. This keeps
  rows acceptable (`RowsAreAccepted`; a mixture of the two need not be).
- *Duplicates.* `OncePerChat` is about one spelling of a chat and about events during
  which the global destinations stayed. A chat id in two spellings, two subscriptions with
  one webhook, or a reload that makes a subscribed chat the global one while rows are
  pending deliver twice.
- *Import and the live tracker.* "Import historical records without changing live tracker
  state" (`database.py:2953`). An import of an epoch the tracker has not met
  makes it known, and the tracker does not announce it (`IsNews`); `AnnouncedOnce` states
  the other half. "Existing rows are never overwritten" (`database.py:2957`), but
  `announcement_inferred` is raised to 1 by a guess even when the row holds a real
  announcement (`Merged`), and "the importer is idempotent" (`SETUP.md:336`) holds for an
  equal crawl only: a different one adds a second event for an epoch.
- *Backfill during a poll.* A poll that has recorded the observed start and is not
  finished when `backfill_epoch_starts.py` runs loses it: the tool gives back the starts
  of successful polls.
- *Failed endpoints.* "A failed endpoint is skipped during that cooldown"
  (`SETUP.md:62-63`). Not the active one: `_candidate_indices` always asks it
  (`node_rpc_pool.py:109-113`). Conversely, a node that recovers within its cooldown
  is not asked even if all others fail, while the docstring has it that
  `NodePoolError` means "no configured node can provide a valid observation"
  (`node_rpc_pool.py:44`).
- *Lost presses.* While a press sets `_pinned_page`, a poll may store the page it
  clamped before (`collector_controller.py:385`, `720`): the button was answered and the page is
  the old one. And a press may show a list older than the last poll's, when the worker
  assigned what it read before it (`collector_controller.py:359`). Both last until the
  next press or poll; `PinnedSettles` is what holds.
- *Interval.* `SETTINGS_CHECK_INTERVAL_SECONDS` is only logged; the sleep loop looks for a
  new revision every second. Checking more often than documented breaks nothing
  that is stated here.

## 8. What is not modelled, and why

`Node RPC wrapper`: its answers are inputs of `NodePool` and `Rollover`. It reads pillars
in pages, and a rank that shifts between two pages would hide a pillar; the default page
of 250 holds every pillar, so a second is not asked for in practice. `HTTP clients`: pure
I/O; their outcomes are in `Outbox`. Reward shares and the figures of the APR:
floating-point arithmetic (that the APR stores days is in `Maintenance`). Rate limiter: a
sliding window under one lock. `migrate_legacy_json.py`: a one-off tool for an empty
database. Templates, logging, environment and schema creation: presentation and I/O.

Within the modelled parts: `collector_status` (health for the page); texts of messages, raw
payloads of snapshots and the columns of durations and rewards; the cache of
performance figures, whose key is the newest snapshot; profiles and passwords; who may
edit which subscription, and subscriptions in the settings, which count only while the table is
empty; an account that is reactivated before its sessions expire, which revives them; the
lists that the bot shows in private chats (an answer here), and a reload of the channel
while a message is edited; a dispatcher that is suspended for longer than the lease.

## 9. Plan

Written in the order in which a mistake would hurt: lost or repeated messages,
wrong observations, lost statistics, a blind collector, then the portal.

1. *Done*: all modules of section 2, with proofs of the safety properties of all
   of them.
2. An abstract specification of the collector, a monotone cursor over committed
   observations, and the proof that `Collector` implements it.
3. `collector_status` beside `PillarStatus`; the performance cache beside `Maintenance`.
