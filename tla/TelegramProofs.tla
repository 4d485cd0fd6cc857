--------------------------- MODULE TelegramProofs ---------------------------
(***************************************************************************)
(* Theorems about the update worker for any number of updates, restarts,   *)
(* errors, tables and pages, whatever the main thread does beside it.      *)
(***************************************************************************)
EXTENDS Telegram, SequenceTheorems, TLAPS

\* The worker deals with the first update of its batch.
InHand == ~At("worker", "idle") /\ ~At("worker", "next")

HandInv ==
  /\ InHand => batch # <<>>
  /\ At("worker", "status") \/ At("worker", "page") => Handled.kind = "press"

\* The offset is past the update in hand and not past those that wait.
OffsetInv ==
  /\ \A k \in 1 .. Len(batch) : batch[k] = batch[1] + k - 1
  /\ batch # <<>> => 1 .. batch[1] - 1 \subseteq finished
  /\ InHand => offset = batch[1] + 1
  /\ ~InHand => 1 .. offset - 1 \subseteq finished
  /\ At("worker", "next") /\ batch # <<>> => offset <= batch[1]

\* Only a lost offset lets an update be taken once more.
TakenInv ==
  \A u \in Updates : taken[u] <= (IF u < offset THEN 1 ELSE 0) + faults

UpdatesInv == TypeOK /\ HandInv /\ OffsetInv /\ NoUpdateSkipped /\ TakenInv
-----------------------------------------------------------------------------
(***************************************************************************)
(* The two threads and their local variables                               *)
(***************************************************************************)

LEMMA PagesExist ==
  ASSUME NEW page \in 1 .. 2, NEW count \in Nat \ {0}
  PROVE  Clamp(page, count) \in 1 .. 2
BY DEF Clamp

LEMMA ZeroIsATable == 0 \in Tables
<1>1. Cardinality(Tables) \in Nat \ {0} /\ Tables = 0 .. Cardinality(Tables) - 1
  BY TelegramBounds
<1> QED
  BY <1>1, 0 \in 0 .. Cardinality(Tables) - 1

\* A thread at rest, or at another step of what it does.
LEMMA RestingIsLocal ==
  ASSUME NEW step \in MainSteps \cup WorkerSteps
  PROVE  Resting(step) \in Locals /\ Resting(step).pc = step
<1>1. Start \in Selections
  BY TelegramBounds DEF Start, Selections
<1> QED
  BY <1>1, ZeroIsATable DEF Resting, Locals

LEMMA GotoIsLocal ==
  ASSUME NEW row \in Locals, NEW step \in MainSteps \cup WorkerSteps
  PROVE  [row EXCEPT !.pc = step] \in Locals /\ [row EXCEPT !.pc = step].pc = step
BY DEF Locals

\* One thread moves.
LEMMA OneMoves ==
  ASSUME thread \in [Threads -> Locals], NEW t \in Threads, NEW row \in Locals,
         thread' = [thread EXCEPT ![t] = row]
  PROVE  /\ thread' \in [Threads -> Locals]
         /\ thread'[t] = row
         /\ \A o \in Threads \ {t} : thread'[o] = thread[o]
OBVIOUS

StepsOf(t) == IF t = "main" THEN MainSteps ELSE WorkerSteps

ThreadsOK ==
  /\ thread \in [Threads -> Locals]
  /\ thread["main"].pc \in MainSteps /\ thread["worker"].pc \in WorkerSteps

LEMMA ThreadMoves ==
  ASSUME ThreadsOK, NEW t \in Threads, NEW row \in Locals, row.pc \in StepsOf(t),
         thread' = [thread EXCEPT ![t] = row]
  PROVE  /\ ThreadsOK'
         /\ thread'[t] = row
         /\ \A o \in Threads \ {t} : thread'[o] = thread[o]
<1>1. /\ thread' \in [Threads -> Locals] /\ thread'[t] = row
      /\ \A o \in Threads \ {t} : thread'[o] = thread[o]
  BY OneMoves DEF ThreadsOK
<1>2. CASE t = "main"
  <2>1. thread'["main"] = row /\ thread'["worker"] = thread["worker"]
    BY <1>1, <1>2 DEF Threads
  <2> QED
    BY <1>1, <1>2, <2>1 DEF ThreadsOK, StepsOf
<1>3. CASE t = "worker"
  <2>1. thread'["worker"] = row /\ thread'["main"] = thread["main"]
    BY <1>1, <1>3 DEF Threads
  <2> QED
    BY <1>1, <1>3, <2>1 DEF ThreadsOK, StepsOf
<1> QED
  BY <1>2, <1>3 DEF Threads

LEMMA GotoMoves ==
  ASSUME ThreadsOK, NEW t \in Threads, NEW step \in StepsOf(t), Goto(t, step)
  PROVE  /\ ThreadsOK'
         /\ thread'[t].pc = step
         /\ \A o \in Threads \ {t} : thread'[o] = thread[o]
         /\ batch' = batch
<1>1. thread[t] \in Locals /\ step \in MainSteps \cup WorkerSteps
  BY DEF ThreadsOK, StepsOf
<1>2. [thread[t] EXCEPT !.pc = step] \in Locals /\ [thread[t] EXCEPT !.pc = step].pc = step
  BY <1>1, GotoIsLocal
<1>3. thread' = [thread EXCEPT ![t] = [thread[t] EXCEPT !.pc = step]] /\ batch' = batch
  BY DEF Goto
<1> QED
  BY <1>2, <1>3, ThreadMoves

\* A thread comes to rest.
LEMMA RestMoves ==
  ASSUME ThreadsOK, NEW t \in Threads, NEW step \in StepsOf(t),
         thread' = [thread EXCEPT ![t] = Resting(step)]
  PROVE  /\ ThreadsOK'
         /\ thread'[t].pc = step
         /\ \A o \in Threads \ {t} : thread'[o] = thread[o]
<1>1. Resting(step) \in Locals /\ Resting(step).pc = step
  BY RestingIsLocal DEF StepsOf
<1> QED
  BY <1>1, ThreadMoves

\* The end of an edit or of an update.
LEMMA DoneMoves ==
  ASSUME ThreadsOK, NEW t \in Threads, Done(t)
  PROVE  /\ ThreadsOK'
         /\ t = "main" => UNCHANGED <<thread["worker"], batch, finished>>
         /\ t = "worker" => /\ thread'["worker"].pc = "next"
                            /\ batch' = Tail(batch)
                            /\ finished' = finished \cup {Head(batch)}
<1>1. "main" \in Threads /\ "worker" \in Threads
  BY DEF Threads
<1>2. CASE t = "main"
  <2>1. /\ thread' = [thread EXCEPT !["main"] = Resting("sleep")]
        /\ UNCHANGED <<batch, finished>>
    BY <1>2 DEF Done
  <2>2. "sleep" \in StepsOf("main")
    BY DEF StepsOf, MainSteps
  <2>3. ThreadsOK' /\ \A o \in Threads \ {"main"} : thread'[o] = thread[o]
    BY <1>1, <2>1, <2>2, RestMoves
  <2> QED
    BY <1>1, <1>2, <2>1, <2>3
<1>3. CASE t = "worker"
  <2>1. /\ thread' = [thread EXCEPT !["worker"] = Resting("next")]
        /\ batch' = Tail(batch)
        /\ finished' = finished \cup {Head(batch)}
    BY <1>3 DEF Done
  <2>2. "next" \in StepsOf("worker")
    BY DEF StepsOf, WorkerSteps
  <2>3. ThreadsOK' /\ thread'["worker"].pc = "next"
    BY <1>1, <2>1, <2>2, RestMoves
  <2> QED
    BY <1>3, <2>1, <2>3
<1> QED
  BY <1>2, <1>3 DEF Threads

\* What Edit leaves to the steps before it.
LEMMA EditMoves ==
  ASSUME TypeOK, NEW t \in Threads,
         \/ CountPages(t) \/ ClampPage(t) \/ StorePage(t)
         \/ ReadStatus(t) \/ RenderText(t) \/ RenderKeys(t)
  PROVE  /\ thread[t].pc \in Editing
         /\ ThreadsOK'
         /\ thread'[t].pc \in Editing
         /\ \A o \in Threads \ {t} : thread'[o] = thread[o]
         /\ selection' \in Selections
         /\ UNCHANGED <<newest, snapshot, offset, batch, updates, confirmed, shown, taken,
                        finished, faults>>
<1> DEFINE row == thread[t]
<1>1. /\ ThreadsOK /\ row \in Locals /\ selection \in Selections
      /\ row.page \in 1 .. 2 /\ row.count \in Nat \ {0} /\ row.data \in Tables
      /\ row.text \in Selections /\ row.keys \in Selections
  BY DEF TypeOK, ThreadsOK, Locals
<1>2. ASSUME NEW status \in Statuses
      PROVE  PageCount[row.data][status] \in Nat \ {0}
  BY <1>1, <1>2, TelegramBounds
<1>3. /\ selection.status \in Statuses /\ row.text.status \in Statuses
      /\ \A count \in Nat \ {0} : Clamp(selection.page, count) \in 1 .. 2
  BY <1>1, PagesExist DEF Selections
<1>4. Editing \subseteq StepsOf(t) /\ Editing \subseteq MainSteps \cup WorkerSteps
  BY DEF StepsOf, MainSteps, WorkerSteps
<1>5. ASSUME NEW new \in Locals, new.pc \in Editing,
             thread' = [thread EXCEPT ![t] = new]
      PROVE  /\ ThreadsOK' /\ thread'[t].pc \in Editing
             /\ \A o \in Threads \ {t} : thread'[o] = thread[o]
  BY <1>1, <1>4, <1>5, ThreadMoves
<1> HIDE DEF row
<1>6. CASE StorePage(t)
  <2>1. /\ ThreadsOK' /\ thread'[t].pc = "text" /\ batch' = batch
        /\ \A o \in Threads \ {t} : thread'[o] = thread[o]
    BY <1>1, <1>4, <1>6, GotoMoves DEF StorePage, Editing
  <2>2. selection' = [selection EXCEPT !.page = row.page]
    BY <1>6 DEF StorePage, row
  <2>3. selection' \in Selections
    BY <1>1, <2>2 DEF Selections
  <2> QED
    BY <1>6, <2>1, <2>3 DEF StorePage, At, Editing, server, history
<1>7. CASE CountPages(t)
  <2> DEFINE count == PageCount[row.data][selection.status]
  <2>1. thread' = [thread EXCEPT ![t] = [row EXCEPT !.pc = "clamp", !.count = count]]
    BY <1>7 DEF CountPages, row
  <2>2. count \in Nat \ {0}
    BY <1>2, <1>3
  <2> HIDE DEF count
  <2>3. /\ [row EXCEPT !.pc = "clamp", !.count = count] \in Locals
        /\ [row EXCEPT !.pc = "clamp", !.count = count].pc \in Editing
    BY <1>1, <1>4, <2>2 DEF Locals, Editing
  <2> QED
    BY <1>1, <1>5, <1>7, <2>1, <2>3 DEF CountPages, At, Editing, attributes, server, history
<1>8. CASE ClampPage(t)
  <2> DEFINE page == Clamp(selection.page, row.count)
  <2>1. thread' = [thread EXCEPT ![t] = [row EXCEPT !.pc = "store", !.page = page]]
    BY <1>8 DEF ClampPage, row
  <2>2. page \in 1 .. 2
    BY <1>1, <1>3
  <2> HIDE DEF page
  <2>3. /\ [row EXCEPT !.pc = "store", !.page = page] \in Locals
        /\ [row EXCEPT !.pc = "store", !.page = page].pc \in Editing
    BY <1>1, <1>4, <2>2 DEF Locals, Editing
  <2> QED
    BY <1>1, <1>5, <1>8, <2>1, <2>3 DEF ClampPage, At, Editing, attributes, server, history
<1>9. CASE ReadStatus(t)
  <2> DEFINE text == [row.text EXCEPT !.status = selection.status]
             keys == [row.keys EXCEPT !.status = selection.status]
  <2>1. \/ thread' = [thread EXCEPT ![t] = [row EXCEPT !.pc = "text page", !.text = text]]
        \/ thread' = [thread EXCEPT ![t] = [row EXCEPT !.pc = "keys page", !.keys = keys]]
    <3>1. \/ thread' = [thread EXCEPT ![t].pc = "text page",
                                      ![t].text.status = selection.status]
          \/ thread' = [thread EXCEPT ![t].pc = "keys page",
                                      ![t].keys.status = selection.status]
      BY <1>9 DEF ReadStatus
    <3>2. thread \in [Threads -> Locals]
      BY <1>1 DEF ThreadsOK
    <3>3. CASE thread' = [thread EXCEPT ![t].pc = "text page",
                                       ![t].text.status = selection.status]
      BY <3>2, <3>3 DEF row
    <3>4. CASE thread' = [thread EXCEPT ![t].pc = "keys page",
                                       ![t].keys.status = selection.status]
      BY <3>2, <3>4 DEF row
    <3> QED
      BY <3>1, <3>3, <3>4
  <2>2. text \in Selections /\ keys \in Selections
    BY <1>1, <1>3 DEF Selections
  <2> HIDE DEF text, keys
  <2>3. /\ [row EXCEPT !.pc = "text page", !.text = text] \in Locals
        /\ [row EXCEPT !.pc = "text page", !.text = text].pc \in Editing
        /\ [row EXCEPT !.pc = "keys page", !.keys = keys] \in Locals
        /\ [row EXCEPT !.pc = "keys page", !.keys = keys].pc \in Editing
    BY <1>1, <1>4, <2>2 DEF Locals, Editing
  <2>4. /\ ThreadsOK' /\ thread'[t].pc \in Editing
        /\ \A o \in Threads \ {t} : thread'[o] = thread[o]
    BY <1>5, <2>1, <2>3
  <2> QED
    BY <1>1, <1>9, <2>4 DEF ReadStatus, At, Editing, attributes, server, history
<1>10. CASE RenderText(t)
  <2> DEFINE text == [row.text EXCEPT
                        !.page = Clamp(selection.page, PageCount[row.data][row.text.status])]
  <2>1. thread' = [thread EXCEPT ![t] = [row EXCEPT !.pc = "keys", !.text = text]]
    BY <1>10 DEF RenderText, row
  <2>2. text \in Selections
    <3>1. Clamp(selection.page, PageCount[row.data][row.text.status]) \in 1 .. 2
      BY <1>2, <1>3
    <3> QED
      BY <1>1, <3>1 DEF Selections
  <2> HIDE DEF text
  <2>3. /\ [row EXCEPT !.pc = "keys", !.text = text] \in Locals
        /\ [row EXCEPT !.pc = "keys", !.text = text].pc \in Editing
    BY <1>1, <1>4, <2>2 DEF Locals, Editing
  <2> QED
    BY <1>1, <1>5, <1>10, <2>1, <2>3 DEF RenderText, At, Editing, attributes, server, history
<1>11. CASE RenderKeys(t)
  <2> DEFINE keys == [row.keys EXCEPT !.page = Clamp(selection.page, row.count)]
  <2>1. thread' = [thread EXCEPT ![t] = [row EXCEPT !.pc = "send", !.keys = keys]]
    BY <1>11 DEF RenderKeys, row
  <2>2. keys \in Selections
    <3>1. Clamp(selection.page, row.count) \in 1 .. 2
      BY <1>1, <1>3
    <3> QED
      BY <1>1, <3>1 DEF Selections
  <2> HIDE DEF keys
  <2>3. /\ [row EXCEPT !.pc = "send", !.keys = keys] \in Locals
        /\ [row EXCEPT !.pc = "send", !.keys = keys].pc \in Editing
    BY <1>1, <1>4, <2>2 DEF Locals, Editing
  <2> QED
    BY <1>1, <1>5, <1>11, <2>1, <2>3 DEF RenderKeys, At, Editing, attributes, server, history
<1> QED
  BY <1>6, <1>7, <1>8, <1>9, <1>10, <1>11

-----------------------------------------------------------------------------
(***************************************************************************)
(* What a step does to the updates                                         *)
(***************************************************************************)

OthersOK ==
  /\ newest \in Tables /\ snapshot \in Tables \cup {NoTable}
  /\ selection \in Selections
  /\ shown \in {Nothing} \cup [table : Tables, text : Selections, keys : Selections,
                               pages : Nat \ {0}]

UpdatesOK ==
  /\ batch \in Seq(1 .. Len(updates)) /\ updates \in Seq(UpdateRows)
  /\ Len(updates) <= MaxUpdates
  /\ confirmed \in 0 .. Len(updates) /\ offset \in 0 .. Len(updates) + 1
  /\ taken \in [Updates -> Nat] /\ finished \subseteq Updates
  /\ faults \in 0 .. MaxFaults

LEMMA TypesInParts == TypeOK <=> ThreadsOK /\ OthersOK /\ UpdatesOK
BY DEF TypeOK, ThreadsOK, OthersOK, UpdatesOK

\* The first update of a batch, and what is left of it.
LEMMA BatchParts ==
  ASSUME UpdatesOK, batch # <<>>
  PROVE  /\ Len(batch) \in Nat \ {0} /\ Len(updates) \in Nat
         /\ Head(batch) = batch[1] /\ batch[1] \in 1 .. Len(updates)
         /\ batch[1] \in Updates
         /\ Tail(batch) \in Seq(1 .. Len(updates)) /\ Len(Tail(batch)) = Len(batch) - 1
         /\ \A k \in 1 .. Len(Tail(batch)) : Tail(batch)[k] = batch[k + 1]
         /\ Tail(batch) # <<>> => 1 \in 1 .. Len(Tail(batch)) /\ 2 \in 1 .. Len(batch)
<1>1. batch \in Seq(1 .. Len(updates)) /\ Len(updates) \in Nat /\ Len(updates) <= MaxUpdates
  BY LenProperties DEF UpdatesOK
<1>2. Len(batch) \in Nat \ {0}
  BY <1>1, EmptySeq
<1>3. batch[1] \in 1 .. Len(updates)
  BY <1>1, <1>2, ElementOfSeq
<1>4. batch[1] \in Updates
  BY <1>1, <1>3, TelegramBounds DEF Updates
<1>5. /\ Tail(batch) \in Seq(1 .. Len(updates)) /\ Len(Tail(batch)) = Len(batch) - 1
      /\ \A k \in 1 .. Len(Tail(batch)) : Tail(batch)[k] = batch[k + 1]
  BY <1>1, HeadTailProperties
<1>6. Tail(batch) # <<>> => Len(Tail(batch)) \in Nat \ {0}
  BY <1>5, EmptySeq
<1> QED
  BY <1>1, <1>2, <1>3, <1>4, <1>5, <1>6

Receiving == {"idle", "next"}

LEMMA TakenKept ==
  ASSUME TakenInv, taken \in [Updates -> Nat], faults \in Nat, faults' \in Nat,
         faults <= faults', UNCHANGED <<taken, offset>>
  PROVE  TakenInv'
<1>1. SUFFICES ASSUME NEW u \in Updates
               PROVE  taken[u] <= (IF u < offset THEN 1 ELSE 0) + faults'
  BY DEF TakenInv
<1>2. taken[u] \in Nat /\ taken[u] <= (IF u < offset THEN 1 ELSE 0) + faults
  BY DEF TakenInv
<1> QED
  BY <1>2

\* A step that does not touch the updates, whatever else it does.
LEMMA UpdatesKept ==
  ASSUME UpdatesInv, ThreadsOK', OthersOK', faults' \in faults .. MaxFaults,
         UNCHANGED <<batch, offset, updates, confirmed, taken, finished>>,
         \/ thread'["worker"].pc = thread["worker"].pc
         \/ /\ thread["worker"].pc \notin Receiving /\ thread'["worker"].pc \notin Receiving
            /\ thread'["worker"].pc \in {"status", "page"}
                 => thread["worker"].pc \in {"status", "page"}
         \/ thread["worker"].pc \in Receiving /\ thread'["worker"].pc = "idle"
  PROVE  UpdatesInv'
<1>1. TypeOK /\ UpdatesOK /\ MaxFaults \in Nat
  BY TypesInParts, TelegramBounds DEF UpdatesInv
<1>2. faults \in Nat /\ faults' \in Nat /\ faults <= faults' /\ faults' \in 0 .. MaxFaults
  BY <1>1 DEF UpdatesOK
<1>3. UpdatesOK'
  BY <1>1, <1>2 DEF UpdatesOK
<1>4. TypeOK'
  BY <1>3, TypesInParts DEF TypeOK, ThreadsOK, OthersOK, UpdatesOK
<1>5. (InHand' <=> InHand) /\ (At("worker", "next")' => At("worker", "next"))
        /\ (At("worker", "status")' \/ At("worker", "page")'
              => At("worker", "status") \/ At("worker", "page"))
  BY DEF InHand, At, Receiving
<1>6. HandInv'
  BY <1>5 DEF UpdatesInv, HandInv, Handled
<1>7. OffsetInv'
  BY <1>5 DEF UpdatesInv, OffsetInv
<1>8. TakenInv'
  BY <1>1, <1>2, TakenKept DEF UpdatesInv, UpdatesOK
<1> QED
  BY <1>4, <1>6, <1>7, <1>8 DEF UpdatesInv, NoUpdateSkipped

\* The end of the update in hand: the next one of the batch is its successor.
LEMMA UpdateEnds ==
  ASSUME UpdatesInv, ThreadsOK', OthersOK', faults' \in faults .. MaxFaults, batch # <<>>,
         thread'["worker"].pc = "next", batch' = Tail(batch),
         finished' = finished \cup {Head(batch)}, offset' = Head(batch) + 1,
         UNCHANGED <<updates, confirmed>>, taken' \in [Updates -> Nat], TakenInv'
  PROVE  UpdatesInv'
<1>1. /\ TypeOK /\ UpdatesOK /\ MaxFaults \in Nat
      /\ 1 .. batch[1] - 1 \subseteq finished
      /\ \A k \in 1 .. Len(batch) : batch[k] = batch[1] + k - 1
  BY TypesInParts, TelegramBounds DEF UpdatesInv, HandInv, OffsetInv
<1>2. faults \in Nat /\ faults' \in Nat /\ faults <= faults' /\ faults' \in 0 .. MaxFaults
  BY <1>1 DEF UpdatesOK
<1>3. /\ batch[1] \in 1 .. Len(updates) /\ Head(batch) = batch[1]
      /\ Len(updates) \in Nat /\ Len(batch) \in Nat \ {0}
      /\ batch' \in Seq(1 .. Len(updates)) /\ Len(batch') = Len(batch) - 1
      /\ \A k \in 1 .. Len(batch') : batch'[k] = batch[k + 1]
      /\ finished' \subseteq Updates
  BY <1>1, BatchParts DEF UpdatesOK
<1>4. UpdatesOK'
  BY <1>1, <1>2, <1>3 DEF UpdatesOK
<1>5. TypeOK'
  BY <1>4, TypesInParts DEF TypeOK, ThreadsOK, OthersOK, UpdatesOK
<1>6. ~InHand' /\ HandInv'
  BY DEF InHand, HandInv, At
<1>7. 1 .. batch[1] \subseteq finished'
  BY <1>1, <1>3
<1>8. OffsetInv'
  <2>1. batch' # <<>> => Len(batch') \in Nat \ {0}
    BY <1>3, EmptySeq
  <2>2. \A k \in 1 .. Len(batch') : batch'[k] = batch[1] + k
    <3> SUFFICES ASSUME NEW k \in 1 .. Len(batch')
                 PROVE  batch'[k] = batch[1] + k
      OBVIOUS
    <3>1. k + 1 \in 1 .. Len(batch) /\ batch'[k] = batch[k + 1]
      BY <1>3
    <3>2. batch[k + 1] = batch[1] + (k + 1) - 1
      BY <1>1, <3>1
    <3> QED
      BY <1>3, <3>1, <3>2
  <2>3. batch' # <<>> => batch'[1] = batch[1] + 1
    BY <2>1, <2>2
  <2>4. \A k \in 1 .. Len(batch') : batch'[k] = batch'[1] + k - 1
    <3> SUFFICES ASSUME NEW k \in 1 .. Len(batch')
                 PROVE  batch'[k] = batch'[1] + k - 1
      OBVIOUS
    <3>1. 1 \in 1 .. Len(batch') /\ k \in Nat
      BY <1>3
    <3>2. batch'[1] = batch[1] + 1 /\ batch'[k] = batch[1] + k
      BY <2>2, <3>1
    <3> QED
      BY <1>3, <3>1, <3>2
  <2>5. offset' = batch[1] + 1
    BY <1>3
  <2>6. 1 .. offset' - 1 \subseteq finished'
    BY <1>3, <1>7, <2>5
  <2>7. batch' # <<>> => 1 .. batch'[1] - 1 \subseteq finished' /\ offset' <= batch'[1]
    BY <1>3, <1>7, <2>3, <2>5
  <2> QED
    BY <1>6, <2>4, <2>6, <2>7 DEF OffsetInv
<1>9. NoUpdateSkipped'
  BY DEF UpdatesInv, NoUpdateSkipped
<1> QED
  BY <1>5, <1>6, <1>8, <1>9 DEF UpdatesInv

\* getUpdates: what the offset confirms is finished, and the batch begins behind it.
LEMMA BatchReceived ==
  ASSUME UpdatesInv, GetUpdates
  PROVE  UpdatesInv'
<1> DEFINE known == Larger(confirmed, offset - 1)
           n == Len(updates) - known
<1>1. TypeOK /\ ThreadsOK /\ OthersOK /\ UpdatesOK /\ ~InHand /\ Len(updates) \in Nat
  BY TypesInParts, LenProperties DEF UpdatesInv, GetUpdates, InHand, At, UpdatesOK
<1>2. /\ known \in 0 .. Len(updates) /\ known >= confirmed /\ known >= offset - 1
      /\ known \in {confirmed, offset - 1}
  BY <1>1 DEF Larger, UpdatesOK
<1>3. /\ confirmed' = known /\ batch' = [k \in 1 .. n |-> known + k]
      /\ thread' = [thread EXCEPT !["worker"].pc = "next"]
      /\ UNCHANGED <<newest, snapshot, selection, offset, updates, shown, taken, finished,
                     faults>>
  BY DEF GetUpdates, attributes, history
<1> HIDE DEF known
<1>4. n \in Nat /\ n = Len(updates) - known
  BY <1>1, <1>2
<1> HIDE DEF n
<1>5. /\ batch' \in Seq(1 .. Len(updates)) /\ Len(batch') = n
      /\ \A k \in 1 .. n : batch'[k] = known + k
  BY <1>1, <1>2, <1>3, <1>4
<1>6. ThreadsOK' /\ thread'["worker"].pc = "next"
  <2>1. "worker" \in Threads /\ "next" \in StepsOf("worker")
    BY DEF Threads, StepsOf, WorkerSteps
  <2> DEFINE row == [thread["worker"] EXCEPT !.pc = "next"]
  <2>2. row \in Locals /\ row.pc = "next"
    BY <1>1, <2>1, GotoIsLocal DEF ThreadsOK, StepsOf
  <2>3. thread' = [thread EXCEPT !["worker"] = row]
    BY <1>3
  <2> HIDE DEF row
  <2>4. ThreadsOK
    BY <1>1
  <2> QED
    BY <2>1, <2>2, <2>3, <2>4, ThreadMoves
<1>7. UpdatesOK' /\ OthersOK'
  BY <1>1, <1>2, <1>3, <1>5 DEF UpdatesOK, OthersOK
<1>8. TypeOK'
  BY <1>6, <1>7, TypesInParts DEF TypeOK, ThreadsOK, OthersOK, UpdatesOK
<1>9. ~InHand' /\ HandInv'
  BY <1>6 DEF InHand, HandInv, At
<1>10. 1 .. offset - 1 \subseteq finished /\ 1 .. confirmed \subseteq finished
  BY <1>1 DEF UpdatesInv, OffsetInv, NoUpdateSkipped
<1>11. 1 .. known \subseteq finished /\ offset <= known + 1
  BY <1>1, <1>2, <1>10 DEF UpdatesOK
<1>12. OffsetInv'
  <2>1. batch' # <<>> => batch'[1] = known + 1
    <3>1. batch' # <<>> => n \in Nat \ {0}
      BY <1>5, EmptySeq
    <3> QED
      BY <1>5, <3>1
  <2>2. \A k \in 1 .. Len(batch') : batch'[k] = batch'[1] + k - 1
    <3> SUFFICES ASSUME NEW k \in 1 .. Len(batch')
                 PROVE  batch'[k] = batch'[1] + k - 1
      OBVIOUS
    <3>1. k \in 1 .. n /\ 1 \in 1 .. n
      BY <1>4, <1>5
    <3> QED
      BY <1>2, <1>5, <3>1
  <2>3. 1 .. offset' - 1 \subseteq finished'
    BY <1>3, <1>10
  <2>4. batch' # <<>> => 1 .. batch'[1] - 1 \subseteq finished' /\ offset' <= batch'[1]
    <3>1. known \in Nat /\ offset' = offset /\ finished' = finished
      BY <1>1, <1>2, <1>3
    <3> QED
      BY <1>11, <2>1, <3>1
  <2> QED
    BY <1>9, <2>2, <2>3, <2>4 DEF OffsetInv
<1>13. TakenInv' /\ NoUpdateSkipped'
  BY <1>3, <1>11 DEF UpdatesInv, TakenInv, NoUpdateSkipped
<1> QED
  BY <1>8, <1>9, <1>12, <1>13 DEF UpdatesInv

\* What Done does to the update in hand.
LEMMA HandDone ==
  ASSUME UpdatesInv, OthersOK', faults' \in faults .. MaxFaults, InHand, Done("worker"),
         UNCHANGED <<offset, updates, confirmed, taken>>
  PROVE  UpdatesInv'
<1>1. ThreadsOK /\ UpdatesOK /\ batch # <<>> /\ offset = batch[1] + 1
  BY TypesInParts DEF UpdatesInv, HandInv, OffsetInv
<1>2. /\ ThreadsOK' /\ thread'["worker"].pc = "next" /\ batch' = Tail(batch)
      /\ finished' = finished \cup {Head(batch)}
  BY <1>1, DoneMoves DEF Threads
<1>3. offset' = Head(batch) + 1
  BY <1>1, BatchParts
<1>4. faults \in Nat /\ faults' \in Nat /\ faults <= faults'
  BY <1>1, TelegramBounds DEF UpdatesOK
<1>5. taken' \in [Updates -> Nat] /\ TakenInv'
  BY <1>1, <1>4, TakenKept DEF UpdatesInv, UpdatesOK
<1> QED
  BY <1>1, <1>2, <1>3, <1>5, UpdateEnds

\* The offset moves past the update, and what was before it is finished.
LEMMA UpdateTaken ==
  ASSUME UpdatesInv, TakeUpdate
  PROVE  UpdatesInv'
<1> DEFINE u == Head(batch)
<1>1. /\ TypeOK /\ ThreadsOK /\ OthersOK /\ UpdatesOK /\ batch # <<>> /\ At("worker", "next")
      /\ offset <= batch[1] /\ 1 .. batch[1] - 1 \subseteq finished
      /\ \A k \in 1 .. Len(batch) : batch[k] = batch[1] + k - 1
  BY TypesInParts DEF UpdatesInv, OffsetInv, TakeUpdate
<1>2. /\ u = batch[1] /\ u \in 1 .. Len(updates) /\ u \in Updates /\ Len(updates) \in Nat
  BY <1>1, BatchParts
<1>3. /\ offset' = Larger(offset, u + 1) /\ taken' = [taken EXCEPT ![u] = @ + 1]
      /\ Handle(updates[u])
      /\ UNCHANGED <<newest, snapshot, selection, updates, confirmed, shown, faults>>
  BY DEF TakeUpdate, server
<1> HIDE DEF u
<1>4. /\ offset \in Nat /\ faults \in Nat /\ faults \in 0 .. MaxFaults
      /\ taken \in [Updates -> Nat] /\ \A v \in Updates : taken[v] \in Nat
  BY <1>1, <1>2 DEF UpdatesOK
<1>5. offset' = u + 1
  BY <1>1, <1>2, <1>3, <1>4 DEF Larger
<1>6. taken' \in [Updates -> Nat]
  BY <1>2, <1>3, <1>4
<1>7. TakenInv'
  <2> SUFFICES ASSUME NEW v \in Updates
               PROVE  taken'[v] <= (IF v < offset' THEN 1 ELSE 0) + faults'
    BY DEF TakenInv
  <2>1. taken[v] <= (IF v < offset THEN 1 ELSE 0) + faults
    BY DEF UpdatesInv, TakenInv
  <2>2. taken'[v] = IF v = u THEN taken[v] + 1 ELSE taken[v]
    BY <1>2, <1>3, <1>4
  <2>3. v \in Nat /\ taken[v] \in Nat
    BY <1>4 DEF Updates
  <2> QED
    BY <1>1, <1>2, <1>3, <1>4, <1>5, <2>1, <2>2, <2>3
<1>8. OthersOK'
  BY <1>1, <1>3 DEF OthersOK
<1>9. CASE Done("worker")
  <2>1. /\ ThreadsOK' /\ thread'["worker"].pc = "next" /\ batch' = Tail(batch)
        /\ finished' = finished \cup {Head(batch)}
    BY <1>1, <1>9, DoneMoves DEF Threads
  <2>2. offset' = Head(batch) + 1
    BY <1>5 DEF u
  <2>3. faults' \in faults .. MaxFaults
    BY <1>3, <1>4, TelegramBounds
  <2> QED
    BY <1>1, <1>3, <1>6, <1>7, <1>8, <2>1, <2>2, <2>3, UpdateEnds
<1>10. CASE /\ Goto("worker", IF updates[u].kind = "press" THEN "status" ELSE "pillars")
            /\ UNCHANGED finished
  <2> DEFINE step == IF updates[u].kind = "press" THEN "status" ELSE "pillars"
  <2>1. step \in StepsOf("worker") /\ "worker" \in Threads
        /\ step \notin Receiving /\ step # "page"
        /\ (step = "status" => updates[u].kind = "press")
    BY DEF StepsOf, WorkerSteps, Editing, Threads, Receiving
  <2>2. Goto("worker", step) /\ UNCHANGED finished
    BY <1>10
  <2> HIDE DEF step
  <2>3. ThreadsOK' /\ thread'["worker"].pc = step /\ batch' = batch
    BY <1>1, <2>1, <2>2, GotoMoves
  <2>4. InHand' /\ ~At("worker", "next")' /\ ~At("worker", "page")'
        /\ (At("worker", "status")' => step = "status")
    BY <2>1, <2>3 DEF InHand, At, Receiving
  <2>5. HandInv'
    BY <1>1, <1>3, <2>1, <2>3, <2>4 DEF HandInv, Handled, u
  <2>6. OffsetInv'
    BY <1>1, <1>2, <1>5, <2>2, <2>3, <2>4 DEF OffsetInv
  <2>7. UpdatesOK'
    BY <1>1, <1>2, <1>3, <1>4, <1>5, <1>6, <2>2, <2>3 DEF UpdatesOK
  <2>8. TypeOK'
    BY <1>8, <2>3, <2>7, TypesInParts DEF TypeOK, ThreadsOK, OthersOK, UpdatesOK
  <2>9. NoUpdateSkipped'
    BY <1>3, <2>2 DEF UpdatesInv, NoUpdateSkipped
  <2> QED
    BY <1>7, <2>5, <2>6, <2>8, <2>9 DEF UpdatesInv
<1> QED
  BY <1>3, <1>9, <1>10 DEF Handle

\* A press or a command joins the end of the queue.
LEMMA UpdateSent ==
  ASSUME UpdatesInv, Sent
  PROVE  UpdatesInv'
<1>1. /\ ThreadsOK /\ OthersOK /\ UpdatesOK /\ MaxUpdates \in Nat
      /\ Len(updates) \in Nat /\ updates \in Seq(UpdateRows)
  BY TypesInParts, LenProperties, TelegramBounds DEF UpdatesInv, UpdatesOK
<1>2. PICK update \in UpdateRows : updates' = Append(updates, update)
  BY DEF Sent
<1>3. /\ updates' \in Seq(UpdateRows) /\ Len(updates') = Len(updates) + 1
      /\ \A k \in 1 .. Len(updates) : updates'[k] = updates[k]
  BY <1>1, <1>2, AppendProperties
<1>4. /\ UNCHANGED <<newest, snapshot, selection, offset, thread, batch, confirmed, shown,
                     taken, finished, faults>>
      /\ Len(updates) < MaxUpdates
  BY DEF Sent, attributes, history
<1>5. batch' \in Seq(1 .. Len(updates'))
  <2>1. 1 .. Len(updates) \subseteq 1 .. Len(updates') /\ batch \in Seq(1 .. Len(updates))
    BY <1>1, <1>3 DEF UpdatesOK
  <2> QED
    BY <1>4, <2>1, SeqMonotonic
<1>6. UpdatesOK'
  BY <1>1, <1>3, <1>4, <1>5 DEF UpdatesOK
<1>7. TypeOK'
  BY <1>1, <1>4, <1>6, TypesInParts DEF TypeOK, ThreadsOK, OthersOK, UpdatesOK
<1>8. HandInv'
  <2>1. (InHand' <=> InHand) /\ (At("worker", "status")' <=> At("worker", "status"))
        /\ (At("worker", "page")' <=> At("worker", "page"))
    BY <1>4 DEF InHand, At
  <2>2. batch # <<>> => Handled' = Handled
    BY <1>1, <1>3, <1>4, BatchParts DEF Handled
  <2>3. At("worker", "status") \/ At("worker", "page") => batch # <<>>
    BY DEF UpdatesInv, HandInv, InHand, At
  <2> QED
    BY <1>4, <2>1, <2>2, <2>3 DEF UpdatesInv, HandInv
<1>9. OffsetInv' /\ TakenInv' /\ NoUpdateSkipped'
  BY <1>4 DEF UpdatesInv, OffsetInv, TakenInv, NoUpdateSkipped, InHand, At
<1> QED
  BY <1>7, <1>8, <1>9 DEF UpdatesInv

LEMMA RestIsOK ==
  /\ AtRest \in [Threads -> Locals]
  /\ AtRest["main"].pc = "sleep" /\ AtRest["worker"].pc = "idle"
<1>1. "main" \in Threads /\ "worker" \in Threads
  BY DEF Threads
<1>2. "sleep" \in MainSteps \cup WorkerSteps /\ "idle" \in MainSteps \cup WorkerSteps
  BY DEF MainSteps, WorkerSteps
<1>3. \A t \in Threads : Resting(IF t = "main" THEN "sleep" ELSE "idle") \in Locals
  BY <1>2, RestingIsLocal
<1>4. /\ AtRest["main"] = Resting("sleep") /\ AtRest["worker"] = Resting("idle")
      /\ AtRest \in [Threads -> Locals]
  BY <1>1, <1>3 DEF AtRest
<1> QED
  BY <1>2, <1>4, RestingIsLocal

\* A new process asks for everything that is not confirmed.
LEMMA ProcessRestarts ==
  ASSUME UpdatesInv, Restart
  PROVE  UpdatesInv'
<1>1. /\ OthersOK /\ UpdatesOK /\ faults \in Nat /\ faults' = faults + 1
      /\ faults' \in 0 .. MaxFaults /\ Len(updates) \in Nat /\ MaxFaults \in Nat
  BY TypesInParts, LenProperties, TelegramBounds
     DEF UpdatesInv, UpdatesOK, Restart, Fault
<1>2. /\ thread' = AtRest /\ batch' = <<>> /\ offset' = 0 /\ snapshot' = NoTable
      /\ selection' = Start
      /\ UNCHANGED <<newest, updates, confirmed, shown, taken, finished>>
  BY DEF Restart, server, history
<1>3. ThreadsOK' /\ ~InHand' /\ At("worker", "idle")' /\ thread'["worker"].pc = "idle"
  BY <1>2, RestIsOK DEF ThreadsOK, MainSteps, WorkerSteps, InHand, At
<1>4. OthersOK'
  BY <1>1, <1>2, TelegramBounds DEF OthersOK, Start, Selections
<1>5. UpdatesOK'
  BY <1>1, <1>2, EmptySeq DEF UpdatesOK
<1>6. TypeOK'
  BY <1>3, <1>4, <1>5, TypesInParts DEF TypeOK, ThreadsOK, OthersOK, UpdatesOK
<1>7. HandInv'
  BY <1>3 DEF HandInv, At
<1>8. OffsetInv'
  BY <1>2, <1>3 DEF OffsetInv
<1>9. TakenInv'
  <2> SUFFICES ASSUME NEW u \in Updates
               PROVE  taken'[u] <= (IF u < offset' THEN 1 ELSE 0) + faults'
    BY DEF TakenInv
  <2>1. taken[u] <= (IF u < offset THEN 1 ELSE 0) + faults /\ taken[u] \in Nat
    BY <1>1 DEF UpdatesInv, TakenInv, UpdatesOK
  <2>2. ~(u < 0)
    BY DEF Updates
  <2> QED
    BY <1>1, <1>2, <2>1, <2>2
<1>10. NoUpdateSkipped'
  BY <1>2 DEF UpdatesInv, NoUpdateSkipped
<1> QED
  BY <1>6, <1>7, <1>8, <1>9, <1>10 DEF UpdatesInv

LEMMA UpdatesStart == Init => UpdatesInv
<1> SUFFICES ASSUME Init
             PROVE  UpdatesInv
  OBVIOUS
<1>1. /\ thread = AtRest /\ batch = <<>> /\ offset = 0 /\ snapshot = NoTable
      /\ selection = Start /\ newest = 0 /\ shown = Nothing
      /\ updates = <<>> /\ confirmed = 0 /\ taken = [u \in Updates |-> 0]
      /\ finished = {} /\ faults = 0
  BY DEF Init
<1>2. ThreadsOK /\ ~InHand /\ At("worker", "idle") /\ thread["worker"].pc = "idle"
  BY <1>1, RestIsOK DEF ThreadsOK, MainSteps, WorkerSteps, InHand, At
<1>3. OthersOK
  BY <1>1, ZeroIsATable, TelegramBounds DEF OthersOK, Start, Selections
<1>4. UpdatesOK
  BY <1>1, EmptySeq, TelegramBounds DEF UpdatesOK
<1>5. TypeOK
  BY <1>2, <1>3, <1>4, TypesInParts
<1>6. HandInv
  BY <1>2 DEF HandInv, At
<1>7. OffsetInv /\ NoUpdateSkipped
  BY <1>1, <1>2 DEF OffsetInv, NoUpdateSkipped
<1>8. TakenInv
  BY <1>1 DEF TakenInv, Updates
<1> QED
  BY <1>5, <1>6, <1>7, <1>8 DEF UpdatesInv

\* The main thread never touches the updates.
LEMMA MainKeepsUpdates ==
  ASSUME UpdatesInv, Observe \/ RefreshPillars \/ PollFails
  PROVE  UpdatesInv'
<1>1. /\ ThreadsOK /\ OthersOK /\ UpdatesOK /\ faults \in Nat /\ MaxFaults \in Nat
      /\ "main" \in Threads /\ "worker" \in Threads /\ faults \in faults .. MaxFaults
  BY TypesInParts, TelegramBounds DEF UpdatesInv, UpdatesOK, Threads
<1>2. CASE Observe
  <2>1. "pillars" \in StepsOf("main") /\ Goto("main", "pillars")
    BY <1>2 DEF Observe, StepsOf, MainSteps, Editing
  <2>2. ThreadsOK' /\ thread'["worker"] = thread["worker"] /\ batch' = batch
    BY <1>1, <2>1, GotoMoves
  <2>3. newest' \in Tables
    <3>1. Cardinality(Tables) \in Nat \ {0} /\ Tables = 0 .. Cardinality(Tables) - 1
      BY TelegramBounds
    <3>2. newest \in 0 .. Cardinality(Tables) - 1
      BY <1>1, <3>1 DEF OthersOK
    <3>3. newest' = (newest + 1) % Cardinality(Tables)
      BY <1>2 DEF Observe
    <3> HIDE DEF Tables
    <3>4. newest' \in 0 .. Cardinality(Tables) - 1
      BY <3>1, <3>2, <3>3
    <3> QED
      BY <3>1, <3>4
  <2>4. UNCHANGED <<snapshot, selection, offset, updates, confirmed, shown, taken, finished,
                    faults>>
    BY <1>2 DEF Observe, attributes, server, history
  <2>5. OthersOK'
    BY <1>1, <2>3, <2>4 DEF OthersOK
  <2> QED
    BY <1>1, <2>2, <2>4, <2>5, UpdatesKept
<1>3. CASE RefreshPillars
  <2> DEFINE row == [thread["main"] EXCEPT !.pc = "count", !.data = newest]
  <2>1. row \in Locals /\ row.pc = "count"
    BY <1>1 DEF ThreadsOK, OthersOK, Locals, MainSteps, Editing
  <2>2. thread' = [thread EXCEPT !["main"] = row]
    BY <1>3 DEF RefreshPillars
  <2> HIDE DEF row
  <2>3. ThreadsOK' /\ thread'["worker"] = thread["worker"]
    BY <1>1, <2>1, <2>2, ThreadMoves DEF StepsOf, MainSteps, Editing
  <2>4. snapshot' = newest
        /\ UNCHANGED <<newest, selection, offset, batch, updates, confirmed, shown, taken,
                       finished, faults>>
    BY <1>3 DEF RefreshPillars, server, history
  <2>5. OthersOK'
    BY <1>1, <2>4 DEF OthersOK
  <2> QED
    BY <1>1, <2>3, <2>4, <2>5, UpdatesKept
<1>4. CASE PollFails
  <2>1. "sleep" \in StepsOf("main")
    BY DEF StepsOf, MainSteps
  <2>2. thread' = [thread EXCEPT !["main"] = Resting("sleep")]
    BY <1>4 DEF PollFails
  <2>3. ThreadsOK' /\ thread'["worker"] = thread["worker"]
    BY <1>1, <2>1, <2>2, RestMoves
  <2>4. /\ faults' \in faults .. MaxFaults
        /\ UNCHANGED <<newest, snapshot, selection, offset, batch, updates, confirmed, shown,
                       taken, finished>>
    BY <1>1, <1>4 DEF PollFails, Fault, attributes, server, history
  <2>5. OthersOK'
    BY <1>1, <2>4 DEF OthersOK
  <2> QED
    BY <1>1, <2>3, <2>4, <2>5, UpdatesKept
<1> QED
  BY <1>2, <1>3, <1>4

\* An edit by either thread; only the end of the worker's one is about an update.
LEMMA EditKeepsUpdates ==
  ASSUME UpdatesInv, NEW t \in Threads, EditStep(t)
  PROVE  UpdatesInv'
<1>1. /\ TypeOK /\ ThreadsOK /\ OthersOK /\ UpdatesOK /\ faults \in Nat /\ MaxFaults \in Nat
      /\ "worker" \in Threads /\ faults \in faults .. MaxFaults /\ thread[t] \in Locals
  BY TypesInParts, TelegramBounds DEF UpdatesInv, UpdatesOK, Threads, ThreadsOK
<1>2. Editing \cap Receiving = {} /\ "status" \notin Editing /\ "page" \notin Editing
  BY DEF Editing, Receiving
<1>3. CASE \/ CountPages(t) \/ ClampPage(t) \/ StorePage(t)
           \/ ReadStatus(t) \/ RenderText(t) \/ RenderKeys(t)
  <2>1. OthersOK'
    BY <1>1, <1>3, EditMoves DEF OthersOK
  <2>2. \/ thread'["worker"].pc = thread["worker"].pc
        \/ thread["worker"].pc \in Editing /\ thread'["worker"].pc \in Editing
    BY <1>1, <1>3, EditMoves
  <2> QED
    BY <1>1, <1>2, <1>3, <2>1, <2>2, EditMoves, UpdatesKept
<1>4. CASE Edit(t)
  <2>1. /\ Done(t)
        /\ UNCHANGED <<newest, snapshot, selection, offset, updates, confirmed, taken>>
        /\ faults' \in faults .. MaxFaults
    BY <1>1, <1>4 DEF Edit, attributes, Fault
  <2>2. OthersOK'
    <3>1. \/ UNCHANGED shown
          \/ shown' = [table |-> thread[t].data, text |-> thread[t].text,
                       keys |-> thread[t].keys, pages |-> thread[t].count]
      BY <1>4 DEF Edit
    <3>2. /\ thread[t].data \in Tables /\ thread[t].text \in Selections
          /\ thread[t].keys \in Selections /\ thread[t].count \in Nat \ {0}
      BY <1>1 DEF Locals
    <3>3. shown' \in {Nothing} \cup [table : Tables, text : Selections, keys : Selections,
                                     pages : Nat \ {0}]
      BY <1>1, <3>1, <3>2 DEF OthersOK
    <3> QED
      BY <1>1, <2>1, <3>3 DEF OthersOK
  <2>3. CASE t = "worker"
    <3>1. InHand
      BY <1>4, <2>3 DEF Edit, InHand, At
    <3> QED
      BY <2>1, <2>2, <2>3, <3>1, HandDone
  <2>4. CASE t # "worker"
    <3>1. t = "main"
      BY <2>4 DEF Threads
    <3>2. ThreadsOK' /\ UNCHANGED <<thread["worker"], batch, finished>>
      BY <1>1, <2>1, <3>1, DoneMoves
    <3> QED
      BY <2>1, <2>2, <3>2, UpdatesKept
  <2> QED
    BY <2>3, <2>4
<1> QED
  BY <1>3, <1>4 DEF EditStep

\* The worker between two edits.
LEMMA WorkerKeepsUpdates ==
  ASSUME UpdatesInv, NoMoreUpdates \/ Select \/ GetPillars \/ Assign
  PROVE  UpdatesInv'
<1>1. /\ ThreadsOK /\ OthersOK /\ UpdatesOK /\ faults \in faults .. MaxFaults
      /\ "worker" \in Threads /\ thread["worker"] \in Locals
      /\ HandInv
  BY TypesInParts, TelegramBounds DEF UpdatesInv, UpdatesOK, Threads, ThreadsOK
<1>2. AfterPillars \in {"count", "reply"}
  BY DEF AfterPillars
<1>3. {"idle", "page", "pillars", "assign", "count", "reply"} \subseteq StepsOf("worker")
  BY DEF StepsOf, WorkerSteps, Editing
<1>4. CASE NoMoreUpdates
  <2>1. ThreadsOK' /\ thread'["worker"].pc = "idle" /\ batch' = batch
    BY <1>1, <1>3, <1>4, GotoMoves DEF NoMoreUpdates
  <2>2. UNCHANGED <<newest, snapshot, selection, offset, updates, confirmed, shown, taken,
                    finished, faults>>
    BY <1>4 DEF NoMoreUpdates, attributes, server, history
  <2>3. OthersOK' /\ thread["worker"].pc \in Receiving
    BY <1>1, <1>4, <2>2 DEF OthersOK, NoMoreUpdates, At, Receiving
  <2> QED
    BY <1>1, <2>1, <2>2, <2>3, UpdatesKept
<1>5. CASE Select
  <2>1. /\ At("worker", "status") \/ At("worker", "page")
        /\ UNCHANGED <<newest, snapshot, offset, updates, confirmed, shown, taken, finished,
                       faults>>
    BY <1>5 DEF Select, server, history
  <2>2. batch # <<>> /\ Handled.kind = "press"
    BY <1>1, <2>1 DEF HandInv, InHand, At
  <2>3. Handled \in UpdateRows
    <3>1. updates \in Seq(UpdateRows) /\ Head(batch) \in 1 .. Len(updates)
      BY <1>1, <2>2, BatchParts DEF UpdatesOK
    <3> QED
      BY <3>1, ElementOfSeq DEF Handled
  <2>4. Handled \in [kind : {"press"}, status : Statuses, page : 1 .. 2]
    BY <2>2, <2>3 DEF UpdateRows
  <2>5. /\ [selection EXCEPT !.status = Handled.status] \in Selections
        /\ [selection EXCEPT !.page = Handled.page] \in Selections
    BY <1>1, <2>4 DEF OthersOK, Selections
  <2>6. OthersOK'
    BY <1>1, <1>5, <2>1, <2>5 DEF Select, OthersOK
  <2>7. /\ ThreadsOK' /\ batch' = batch /\ thread'["worker"].pc \in {"page", "pillars"}
    <3>1. CASE Goto("worker", "page")
      BY <1>1, <1>3, <3>1, GotoMoves
    <3>2. CASE Goto("worker", "pillars")
      BY <1>1, <1>3, <3>2, GotoMoves
    <3> QED
      BY <1>5, <3>1, <3>2 DEF Select
  <2> QED
    BY <1>1, <2>1, <2>6, <2>7, UpdatesKept DEF At, Receiving
<1>6. CASE GetPillars
  <2> DEFINE step == IF snapshot = NoTable THEN "assign" ELSE AfterPillars
             data == IF snapshot = NoTable THEN newest ELSE snapshot
             row == [thread["worker"] EXCEPT !.pc = step, !.data = data]
  <2>1. step \in {"assign", "count", "reply"} /\ data \in Tables
    BY <1>1, <1>2 DEF OthersOK
  <2>2. thread' = [thread EXCEPT !["worker"] = row]
    BY <1>6 DEF GetPillars
  <2> HIDE DEF step, data
  <2>3. row \in Locals /\ row.pc = step
    BY <1>1, <1>3, <2>1 DEF Locals, StepsOf
  <2> HIDE DEF row
  <2>4. ThreadsOK' /\ thread'["worker"].pc = step
    BY <1>1, <1>3, <2>1, <2>2, <2>3, ThreadMoves
  <2>5. /\ UNCHANGED <<newest, snapshot, selection, offset, batch, updates, confirmed, shown,
                       taken, finished, faults>>
        /\ thread["worker"].pc = "pillars"
    BY <1>6 DEF GetPillars, attributes, server, history, At
  <2>6. OthersOK'
    BY <1>1, <2>5 DEF OthersOK
  <2> QED
    BY <1>1, <2>1, <2>4, <2>5, <2>6, UpdatesKept DEF Receiving
<1>7. CASE Assign
  <2>1. /\ ThreadsOK' /\ batch' = batch /\ thread'["worker"].pc \in {"count", "reply"}
    <3>1. Goto("worker", AfterPillars)
      BY <1>7 DEF Assign
    <3> QED
      BY <1>1, <1>2, <1>3, <3>1, GotoMoves
  <2>2. /\ snapshot' = thread["worker"].data /\ thread["worker"].pc = "assign"
        /\ UNCHANGED <<newest, selection, offset, updates, confirmed, shown, taken, finished,
                       faults>>
    BY <1>7 DEF Assign, server, history, At
  <2>3. OthersOK'
    BY <1>1, <2>2 DEF OthersOK, Locals
  <2> QED
    BY <1>1, <2>1, <2>2, <2>3, UpdatesKept DEF Receiving
<1> QED
  BY <1>4, <1>5, <1>6, <1>7

\* A table that cannot be read ends an update, and a command the whole batch.
LEMMA RaisingEndsUpdate ==
  ASSUME UpdatesInv, GetPillarsRaises
  PROVE  UpdatesInv'
<1>1. /\ ThreadsOK /\ OthersOK /\ UpdatesOK /\ faults \in Nat /\ MaxFaults \in Nat
      /\ faults' = faults + 1 /\ faults' \in faults .. MaxFaults /\ InHand
      /\ "worker" \in Threads
  BY TypesInParts, TelegramBounds
     DEF UpdatesInv, UpdatesOK, GetPillarsRaises, Fault, InHand, At, Threads
<1>2. UNCHANGED <<newest, snapshot, selection, offset, updates, confirmed, shown, taken>>
  BY DEF GetPillarsRaises, attributes, server
<1>3. OthersOK'
  BY <1>1, <1>2 DEF OthersOK
<1>4. CASE Done("worker")
  BY <1>1, <1>2, <1>3, <1>4, HandDone
<1>5. CASE /\ thread' = [thread EXCEPT !["worker"] = Resting("idle")]
           /\ batch' = <<>> /\ finished' = finished \cup {Head(batch)}
  <2>1. "idle" \in StepsOf("worker")
    BY DEF StepsOf, WorkerSteps
  <2>2. ThreadsOK' /\ thread'["worker"].pc = "idle"
    BY <1>1, <1>5, <2>1, RestMoves
  <2>3. /\ batch # <<>> /\ offset = batch[1] + 1 /\ 1 .. batch[1] - 1 \subseteq finished
    BY <1>1 DEF UpdatesInv, HandInv, OffsetInv
  <2>4. /\ Head(batch) = batch[1] /\ batch[1] \in Updates /\ batch[1] \in Nat
    BY <1>1, <2>3, BatchParts
  <2>5. UpdatesOK'
    BY <1>1, <1>2, <1>5, <2>4, EmptySeq DEF UpdatesOK
  <2>6. TypeOK'
    BY <1>3, <2>2, <2>5, TypesInParts DEF TypeOK, ThreadsOK, OthersOK, UpdatesOK
  <2>7. ~InHand' /\ ~At("worker", "next")' /\ HandInv'
    BY <2>2 DEF InHand, HandInv, At
  <2>8. OffsetInv'
    BY <1>2, <1>5, <2>3, <2>4, <2>7 DEF OffsetInv
  <2>9. TakenInv'
    BY <1>1, <1>2, TakenKept DEF UpdatesInv, UpdatesOK
  <2>10. NoUpdateSkipped'
    BY <1>2, <1>5 DEF UpdatesInv, NoUpdateSkipped
  <2> QED
    BY <2>6, <2>7, <2>8, <2>9, <2>10 DEF UpdatesInv
<1> QED
  BY <1>4, <1>5 DEF GetPillarsRaises

LEMMA ReplyEndsUpdate ==
  ASSUME UpdatesInv, Reply
  PROVE  UpdatesInv'
<1>1. /\ OthersOK /\ faults \in faults .. MaxFaults /\ InHand /\ Done("worker")
  BY TypesInParts, TelegramBounds DEF UpdatesInv, UpdatesOK, Reply, InHand, At
<1>2. UNCHANGED <<newest, snapshot, selection, offset, updates, confirmed, shown, taken, faults>>
  BY DEF Reply, attributes, server
<1>3. OthersOK'
  BY <1>1, <1>2 DEF OthersOK
<1> QED
  BY <1>1, <1>2, <1>3, HandDone

LEMMA UpdatesAlways == Spec => []UpdatesInv
<1>1. Init => UpdatesInv
  BY UpdatesStart
<1>2. UpdatesInv /\ [Next]_vars => UpdatesInv'
  <2> SUFFICES ASSUME UpdatesInv, [Next]_vars
               PROVE  UpdatesInv'
    OBVIOUS
  <2>1. CASE Observe \/ RefreshPillars \/ PollFails
    BY <2>1, MainKeepsUpdates
  <2>2. CASE EditStep("main") \/ EditStep("worker")
    BY <2>2, EditKeepsUpdates DEF Threads
  <2>3. CASE GetUpdates \/ TakeUpdate
    BY <2>3, BatchReceived, UpdateTaken
  <2>4. CASE NoMoreUpdates \/ Select \/ GetPillars \/ Assign
    BY <2>4, WorkerKeepsUpdates
  <2>5. CASE Reply \/ GetPillarsRaises
    BY <2>5, ReplyEndsUpdate, RaisingEndsUpdate
  <2>6. CASE Sent \/ Restart
    BY <2>6, UpdateSent, ProcessRestarts
  <2>7. CASE UNCHANGED vars
    BY <2>7 DEF vars, attributes, server, history, UpdatesInv, TypeOK, HandInv, OffsetInv,
       NoUpdateSkipped, TakenInv, InHand, At, Handled
  <2> QED
    BY <2>1, <2>2, <2>3, <2>4, <2>5, <2>6, <2>7 DEF Next, MainStep, WorkerStep
<1> QED
  BY <1>1, <1>2, PTL DEF Spec
-----------------------------------------------------------------------------
(***************************************************************************)
(* The theorems                                                            *)
(***************************************************************************)

\* The attributes, the two threads, the batch and the message have their types.
THEOREM TypeCorrect == Spec => []TypeOK
<1>1. UpdatesInv => TypeOK
  BY DEF UpdatesInv
<1> QED
  BY <1>1, UpdatesAlways, PTL

\* What the worker has confirmed to Telegram it has dealt with, over any number of
\* restarts and errors.
THEOREM ConfirmedIsFinished == Spec => []NoUpdateSkipped
<1>1. UpdatesInv => NoUpdateSkipped
  BY DEF UpdatesInv
<1> QED
  BY <1>1, UpdatesAlways, PTL

\* No update is handled more often than there were faults, and once more.
THEOREM RepeatsAreFaults == Spec => []RepeatsNeedFaults
<1>1. UpdatesInv => RepeatsNeedFaults
  <2> SUFFICES ASSUME UpdatesInv, NEW u \in Updates
               PROVE  taken[u] <= 1 + faults
    BY DEF RepeatsNeedFaults
  <2>1. taken[u] \in Nat /\ faults \in Nat
    BY TypesInParts, TelegramBounds DEF UpdatesInv, UpdatesOK
  <2>2. taken[u] <= (IF u < offset THEN 1 ELSE 0) + faults
    BY DEF UpdatesInv, TakenInv
  <2> QED
    BY <2>1, <2>2
<1> QED
  BY <1>1, UpdatesAlways, PTL
=============================================================================
