------------------------------ MODULE Telegram ------------------------------
(***************************************************************************)
(* Two threads of a collector process edit one pinned Telegram message:    *)
(* the main thread after a poll, and the update worker when a button of    *)
(* the message is pressed.  They share attributes of the Collector without *)
(* a lock, so a step is what one of them does between two accesses to      *)
(* something the other one writes.  The worker also answers commands, and  *)
(* confirms to Telegram what it has received with an offset.               *)
(*                                                                         *)
(* The channel and the message stay the same: module Settings is about     *)
(* reloads.  The momentum height beside the pillars is left out: it takes  *)
(* the way of the pillars.                                                 *)
(***************************************************************************)
EXTENDS Integers, FiniteSets, SequencesExt

CONSTANTS
  Statuses,   \* filters of the list of pillars
  AllPillars, \* the filter a process starts with
  PageCount,  \* pages of the list, by what the table says and filter
  MaxUpdates, \* bound: button presses and commands
  MaxFaults   \* bound: restarts, database errors and failed edits

\* What the pillars table says, each the successor of the one before.
Tables == DOMAIN PageCount

ASSUME TelegramBounds ==
  /\ AllPillars \in Statuses
  /\ MaxUpdates \in Nat /\ MaxFaults \in Nat
  /\ Cardinality(Tables) \in Nat \ {0} /\ Tables = 0 .. Cardinality(Tables) - 1
  /\ \A table \in Tables : PageCount[table] \in [Statuses -> Nat \ {0}]

VARIABLES
  newest,    \* what the pillars table says
  snapshot,  \* _telegram_pillar_snapshot
  selection, \* _pinned_status and _pinned_page
  thread,    \* where the two threads are, and their local variables
  batch,     \* updates the worker has received and not yet dealt with
  offset,    \* _telegram_update_offset, 0 for None
  updates,   \* what was ever sent to the bot
  confirmed, \* updates the bot has confirmed to Telegram: the first so many
  shown,     \* the pinned message: text and buttons
  taken,     \* history: how often the handling of an update was begun
  finished,  \* history: updates whose handling ended or raised
  faults

attributes == <<snapshot, selection, offset>>
server == <<updates, confirmed, shown>>
history == <<taken, finished>>
vars == <<newest, attributes, thread, batch, server, history, faults>>

NoTable == 99
Nothing == [status |-> AllPillars]
Updates == 1 .. MaxUpdates
Start == [status |-> AllPillars, page |-> 1]

Threads == {"main", "worker"}
Selections == [status : Statuses, page : 1 .. 2]
UpdateRows == [kind : {"press"}, status : Statuses, page : 1 .. 2] \cup [kind : {"command"}]

\* The local variables of an edit before it is begun.
Resting(step) ==
  [pc |-> step, data |-> 0, count |-> 1, page |-> 1, text |-> Start, keys |-> Start]

AtRest == [t \in Threads |-> Resting(IF t = "main" THEN "sleep" ELSE "idle")]

Editing == {"pillars", "count", "clamp", "store", "text", "text page", "keys", "keys page",
            "send"}
MainSteps == {"sleep"} \cup Editing
WorkerSteps == {"idle", "next", "status", "page", "assign", "reply"} \cup Editing

Locals == [pc : MainSteps \cup WorkerSteps, data : Tables, count : Nat \ {0}, page : 1 .. 2,
           text : Selections, keys : Selections]

TypeOK ==
  /\ newest \in Tables /\ snapshot \in Tables \cup {NoTable}
  /\ selection \in Selections
  /\ thread \in [Threads -> Locals]
  /\ thread["main"].pc \in MainSteps /\ thread["worker"].pc \in WorkerSteps
  /\ batch \in Seq(1 .. Len(updates)) /\ updates \in Seq(UpdateRows)
  /\ Len(updates) <= MaxUpdates
  /\ shown \in {Nothing} \cup [table : Tables, text : Selections, keys : Selections,
                                pages : Nat \ {0}]
  /\ confirmed \in 0 .. Len(updates) /\ offset \in 0 .. Len(updates) + 1
  /\ taken \in [Updates -> Nat] /\ finished \subseteq Updates
  /\ faults \in 0 .. MaxFaults

Init ==
  /\ newest = 0
  /\ snapshot = NoTable /\ offset = 0 /\ selection = Start
  /\ thread = AtRest /\ batch = <<>>
  /\ updates = <<>> /\ confirmed = 0
  /\ shown = Nothing
  /\ taken = [u \in Updates |-> 0] /\ finished = {}
  /\ faults = 0

At(t, step) == thread[t].pc = step
Goto(t, step) == thread' = [thread EXCEPT ![t].pc = step] /\ UNCHANGED batch

Fault ==
  /\ faults < MaxFaults
  /\ faults' = faults + 1

\* The process ends and the supervisor starts another: the attributes and both
\* threads are new.
Restart ==
  /\ Fault
  /\ snapshot' = NoTable /\ offset' = 0 /\ selection' = Start
  /\ thread' = AtRest /\ batch' = <<>>
  /\ UNCHANGED <<newest, server, history>>
-----------------------------------------------------------------------------
(***************************************************************************)
(* The main thread                                                         *)
(***************************************************************************)

\* run_once records a new momentum; the message is next.
Observe ==
  /\ At("main", "sleep")
  /\ newest' = (newest + 1) % Cardinality(Tables)
  /\ Goto("main", "pillars")
  /\ UNCHANGED <<attributes, server, history, faults>>

\* An exception between the observation and the message: _mark_failed.
PollFails ==
  /\ At("main", "pillars")
  /\ Fault
  /\ thread' = [thread EXCEPT !["main"] = Resting("sleep")]
  /\ UNCHANGED <<newest, attributes, batch, server, history>>

\* Mutant of RefreshPillars: what is there already is good enough.
RefreshPillarsOnce ==
  /\ At("main", "pillars")
  /\ snapshot' = IF snapshot = NoTable THEN newest ELSE snapshot
  /\ thread' = [thread EXCEPT !["main"].pc = "count", !["main"].data = snapshot']
  /\ UNCHANGED <<newest, selection, offset, batch, server, history, faults>>

\* _get_pinned_pillars with the pillars of the poll
RefreshPillars ==
  /\ At("main", "pillars")
  /\ snapshot' = newest
  /\ thread' = [thread EXCEPT !["main"].pc = "count", !["main"].data = newest]
  /\ UNCHANGED <<newest, selection, offset, batch, server, history, faults>>
-----------------------------------------------------------------------------
(***************************************************************************)
(* _edit_pinned_message, by either thread                                  *)
(***************************************************************************)

Clamp(page, count) == IF page > count THEN count ELSE page

\* pinned_stats_page_count reads the status, then the page is read and stored: the
\* other thread may run between any two of the three.
CountPages(t) ==
  /\ At(t, "count")
  /\ thread' = [thread EXCEPT ![t].pc = "clamp",
                              ![t].count = PageCount[thread[t].data][selection.status]]
  /\ UNCHANGED <<newest, attributes, batch, server, history, faults>>

ClampPage(t) ==
  /\ At(t, "clamp")
  /\ thread' = [thread EXCEPT ![t].pc = "store",
                              ![t].page = Clamp(selection.page, thread[t].count)]
  /\ UNCHANGED <<newest, attributes, batch, server, history, faults>>

StorePage(t) ==
  /\ At(t, "store")
  /\ selection' = [selection EXCEPT !.page = thread[t].page]
  /\ Goto(t, "text")
  /\ UNCHANGED <<newest, snapshot, offset, server, history, faults>>

\* The arguments status and page of the text, and then of the buttons, are read one
\* after the other.
ReadStatus(t) ==
  /\ \/ /\ At(t, "text")
        /\ thread' = [thread EXCEPT ![t].pc = "text page", ![t].text.status = selection.status]
     \/ /\ At(t, "keys")
        /\ thread' = [thread EXCEPT ![t].pc = "keys page", ![t].keys.status = selection.status]
  /\ UNCHANGED <<newest, attributes, batch, server, history, faults>>

\* create_pinned_stats_message counts the pages again.
RenderText(t) ==
  /\ At(t, "text page")
  /\ LET count == PageCount[thread[t].data][thread[t].text.status]
     IN  thread' = [thread EXCEPT ![t].pc = "keys",
                                  ![t].text.page = Clamp(selection.page, count)]
  /\ UNCHANGED <<newest, attributes, batch, server, history, faults>>

\* create_pinned_stats_keyboard, which also leads to the last page
RenderKeys(t) ==
  /\ At(t, "keys page")
  /\ thread' = [thread EXCEPT ![t].pc = "send",
                              ![t].keys.page = Clamp(selection.page, thread[t].count)]
  /\ UNCHANGED <<newest, attributes, batch, server, history, faults>>

\* The worker goes on with the next update.
Done(t) ==
  IF t = "main"
  THEN /\ thread' = [thread EXCEPT !["main"] = Resting("sleep")]
       /\ UNCHANGED <<batch, finished>>
  ELSE /\ thread' = [thread EXCEPT !["worker"] = Resting("next")]
       /\ batch' = Tail(batch)
       /\ finished' = finished \cup {Head(batch)}

\* The edit arrives, or an error is logged and forgotten.
Edit(t) ==
  /\ At(t, "send")
  /\ \/ /\ shown' = [table |-> thread[t].data, text |-> thread[t].text,
                     keys |-> thread[t].keys, pages |-> thread[t].count]
        /\ UNCHANGED faults
     \/ Fault /\ UNCHANGED shown
  /\ Done(t)
  /\ UNCHANGED <<newest, attributes, updates, confirmed, taken>>
-----------------------------------------------------------------------------
(***************************************************************************)
(* Updates                                                                 *)
(***************************************************************************)

\* A button of the pinned message, or a command in a private chat.
Sent ==
  /\ Len(updates) < MaxUpdates
  /\ \E update \in UpdateRows : updates' = Append(updates, update)
  /\ UNCHANGED <<newest, attributes, thread, batch, confirmed, shown, history, faults>>

Larger(a, b) == IF a > b THEN a ELSE b

\* Mutant of GetUpdates: the offset is left out of the call.
GetUpdatesFromAnywhere ==
  /\ At("worker", "idle")
  /\ confirmed < Len(updates)
  /\ batch' = [k \in 1 .. Len(updates) - confirmed |-> confirmed + k]
  /\ thread' = [thread EXCEPT !["worker"].pc = "next"]
  /\ UNCHANGED <<newest, attributes, server, history, faults>>

\* getUpdates: the offset confirms what is below it, the rest is returned.
GetUpdates ==
  /\ At("worker", "idle")
  /\ LET known == Larger(confirmed, offset - 1)
     IN  /\ confirmed < known \/ known < Len(updates)
         /\ confirmed' = known
         /\ batch' = [k \in 1 .. Len(updates) - known |-> known + k]
  /\ thread' = [thread EXCEPT !["worker"].pc = "next"]
  /\ UNCHANGED <<newest, attributes, updates, shown, history, faults>>

NoMoreUpdates ==
  /\ At("worker", "next") /\ batch = <<>>
  /\ Goto("worker", "idle")
  /\ UNCHANGED <<newest, attributes, server, history, faults>>

\* A press that changes nothing is only answered.  It compares status and page one
\* after the other, but nobody else writes the status.
Handle(update) ==
  IF update.kind = "press"
    /\ selection = [status |-> update.status, page |-> update.page]
  THEN Done("worker")
  ELSE /\ Goto("worker", IF update.kind = "press" THEN "status" ELSE "pillars")
       /\ UNCHANGED finished

\* Mutant of TakeUpdate: the offset is moved past the whole batch at once.
TakeUpdateAndBatch ==
  /\ At("worker", "next") /\ batch # <<>>
  /\ LET u == Head(batch)
     IN  /\ offset' = Last(batch) + 1
         /\ taken' = [taken EXCEPT ![u] = @ + 1]
         /\ Handle(updates[u])
  /\ UNCHANGED <<newest, snapshot, selection, server, faults>>

\* The offset moves past an update before it is handled.
TakeUpdate ==
  /\ At("worker", "next") /\ batch # <<>>
  /\ LET u == Head(batch)
     IN  /\ offset' = Larger(offset, u + 1)
         /\ taken' = [taken EXCEPT ![u] = @ + 1]
         /\ Handle(updates[u])
  /\ UNCHANGED <<newest, snapshot, selection, server, faults>>

Handled == updates[Head(batch)]

\* _pinned_status and _pinned_page, one after the other
Select ==
  /\ \/ /\ At("worker", "status")
        /\ selection' = [selection EXCEPT !.status = Handled.status]
        /\ Goto("worker", "page")
     \/ /\ At("worker", "page")
        /\ selection' = [selection EXCEPT !.page = Handled.page]
        /\ Goto("worker", "pillars")
  /\ UNCHANGED <<newest, snapshot, offset, server, history, faults>>

AfterPillars == IF Handled.kind = "press" THEN "count" ELSE "reply"

\* _get_pinned_pillars without pillars: the ones of the last poll, or the table.
GetPillars ==
  /\ At("worker", "pillars")
  /\ thread' = [thread EXCEPT
       !["worker"].pc = IF snapshot = NoTable THEN "assign" ELSE AfterPillars,
       !["worker"].data = IF snapshot = NoTable THEN newest ELSE snapshot]
  /\ UNCHANGED <<newest, attributes, batch, server, history, faults>>

Assign ==
  /\ At("worker", "assign")
  /\ snapshot' = thread["worker"].data
  /\ Goto("worker", AfterPillars)
  /\ UNCHANGED <<newest, selection, offset, server, history, faults>>

\* The table cannot be read.  A press is given up; a command leaves the loop,
\* and what is left of the batch is asked for again.
GetPillarsRaises ==
  /\ At("worker", "pillars") /\ snapshot = NoTable
  /\ Fault
  /\ IF Handled.kind = "press" THEN Done("worker")
     ELSE /\ thread' = [thread EXCEPT !["worker"] = Resting("idle")]
          /\ batch' = <<>>
          /\ finished' = finished \cup {Head(batch)}
  /\ UNCHANGED <<newest, attributes, server, taken>>

\* The answer to a command, in a chat of its own, whatever comes of it.
Reply ==
  /\ At("worker", "reply")
  /\ Done("worker")
  /\ UNCHANGED <<newest, attributes, server, taken, faults>>
-----------------------------------------------------------------------------
EditStep(t) ==
  \/ CountPages(t) \/ ClampPage(t) \/ StorePage(t)
  \/ ReadStatus(t) \/ RenderText(t) \/ RenderKeys(t) \/ Edit(t)

MainStep == Observe \/ RefreshPillars \/ EditStep("main")

WorkerStep ==
  \/ GetUpdates \/ NoMoreUpdates \/ TakeUpdate \/ Select
  \/ GetPillars \/ Assign \/ Reply
  \/ EditStep("worker")

Next == MainStep \/ WorkerStep \/ Sent \/ PollFails \/ GetPillarsRaises \/ Restart

\* Both threads go on, and again and again a poll finds a new momentum.
Spec == Init /\ [][Next]_vars /\ WF_vars(MainStep) /\ WF_vars(WorkerStep)
-----------------------------------------------------------------------------
(***************************************************************************)
(* Properties                                                              *)
(***************************************************************************)

\* An update is not confirmed to Telegram before its handling has ended or
\* raised: an exception loses one update, a restart none.
NoUpdateSkipped == 1 .. confirmed \subseteq finished

\* An update is handled again only after a fault took the process down.
RepeatsNeedFaults == \A u \in Updates : taken[u] <= 1 + faults

\* Two threads edit one message from attributes they change under each other's
\* hands.  When users have left it alone, it ends up showing the newest pillars
\* and the selection in use, in text and in buttons that lead to every page.
PinnedSettles ==
  <>[](thread = AtRest
       => shown = [table |-> newest, text |-> selection, keys |-> selection,
                   pages |-> PageCount[newest][selection.status]])
=============================================================================
