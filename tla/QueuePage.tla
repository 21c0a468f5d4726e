------------------------------- MODULE QueuePage -------------------------------
(***************************************************************************)
(* The page of one queue: its counts, the tasks of a tab, the poll that    *)
(* refreshes both, the selection and the batch actions on it, and the      *)
(* dialog that confirms a deletion.  The requests carry no number: the     *)
(* answer that comes last is the one shown.  The address may come to name  *)
(* another queue while the page stays mounted.                             *)
(***************************************************************************)
EXTENDS Naturals

CONSTANTS
  Queue,
  Tab,         \* the states a tab lists, "active" first
  PagesOf,     \* per version of the server's data and per tab, the pages of a queue
  MaxVersion,  \* bound: changes on the server
  MaxMoves,    \* bound: clicks on the page
  MaxBatches,  \* bound: batches sent
  Slot         \* requests that can be in flight at once

\* What the constants are assumed to be.
QueuePageAssumption ==
  /\ MaxVersion \in Nat /\ MaxMoves \in Nat /\ MaxBatches \in Nat
  /\ "active" \in Tab
  /\ PagesOf \in [0..MaxVersion -> [Tab -> Nat \ {0}]]

VARIABLES
  stored,        \* version of the tasks on the server
  at,            \* the queue, tab and page asked for
  taskCounts,    \* version of the counts on screen
  tasks,         \* the rows on screen: those of a view, of a version, or none
  tableLoading,  \* a load hides the table
  fetch,         \* per slot, a request in flight and its answer
  selectedIds,   \* ids of the ticked rows
  dialog,        \* the deletion to confirm, with the ids counted in its message
  batch,         \* the batch in flight, or none
  pollInterval,  \* the page is mounted and its poll armed
  steps,         \* clicks so far
  batches        \* batches sent so far

vars == <<stored, at, taskCounts, tasks, tableLoading, fetch, selectedIds, dialog, batch, steps, batches, pollInterval>>

View == [queue: Queue, tab: Tab, page: Nat \ {0}]
\* The row a page of tasks consists of: one id stands for the rows of that page.
Id == View
NoRows == {}
Idle == [kind |-> "idle"]
\* A poll fetches the counts first and the rows next, a reload the rows and then the counts.
Request == [kind: {"counts", "rows", "poll", "reload"}, view: View, loud: BOOLEAN,
            answer: {"waiting", "done", "error"}, ver: 0..MaxVersion]
Asked(kind, v, loud) == [kind |-> kind, view |-> v, loud |-> loud, answer |-> "waiting", ver |-> 0]
NoDialog == [kind |-> "none"]
Dialog == [kind: {"selected", "all"}, asked: SUBSET Id]
NoBatch == [kind |-> "none"]
Batch == [kind: {"delete", "send", "all"}, ids: SUBSET Id]

TypeOK ==
  /\ stored \in 0..MaxVersion
  /\ at \in View
  /\ taskCounts \in 0..MaxVersion
  /\ \A r \in tasks : r.view \in View /\ r.ver \in 0..MaxVersion
  /\ \A r, s \in tasks : r = s
  /\ tableLoading \in BOOLEAN
  /\ \A s \in Slot : fetch[s] = Idle \/ (fetch[s].view \in View /\ fetch[s].ver \in 0..MaxVersion)
  /\ \A i \in selectedIds : i \in Id
  /\ dialog.kind \in {"none", "selected", "all"}
  /\ batch.kind \in {"none", "delete", "send", "all"}
  /\ steps \in 0..MaxMoves /\ batches \in 0..MaxBatches /\ pollInterval \in BOOLEAN

Free(s) == fetch[s] = Idle
\* mutant: a tab without tasks has no page
MutLastPage(counts, tab) == PagesOf[counts][tab] - 1
LastPage(counts, tab) == PagesOf[counts][tab]
Pages == LastPage(taskCounts, at.tab)
Ids(rs) == {r.view : r \in rs}

\* onMount: the counts and the rows at once; the tab effect's second load of the rows is
\* the same request.
Init ==
  /\ stored = 0 /\ taskCounts = 0
  /\ at \in [queue: Queue, tab: {"active"}, page: {1}]
  /\ tasks = NoRows /\ tableLoading = TRUE
  /\ \E s, c \in Slot :
       /\ s = (CHOOSE t \in Slot : TRUE) /\ c = (CHOOSE t \in Slot \ {s} : TRUE)
       /\ fetch = [t \in Slot |-> CASE t = s -> Asked("rows", at, TRUE) [] t = c -> Asked("counts", at, FALSE)
                                    [] OTHER -> Idle]
  /\ selectedIds = {} /\ dialog = NoDialog /\ batch = NoBatch /\ steps = 0 /\ batches = 0 /\ pollInterval = TRUE

Move == steps < MaxMoves /\ steps' = steps + 1
\* The dialog is modal: nothing else on the page is clicked while it is open.
Click == Move /\ dialog = NoDialog /\ pollInterval
Sends(kind, ids) ==
  /\ batch = NoBatch
  /\ batches < MaxBatches /\ batches' = batches + 1
  /\ batch' = [kind |-> kind, ids |-> ids]

Loads(kind, s, v) ==
  /\ Free(s)
  /\ fetch' = [fetch EXCEPT ![s] = Asked(kind, v, TRUE)]
  /\ tableLoading' = TRUE
LoadTasks(s, v) == Loads("rows", s, v)
\* await loadTasks(); await loadData()
Reload(s) == Loads("reload", s, at)

-----------------------------------------------------------------------------
(* Requests and their answers.                                              *)

Poll(s) ==
  /\ pollInterval /\ Free(s)
  /\ fetch' = [fetch EXCEPT ![s] = Asked("poll", at, FALSE)]
  /\ UNCHANGED <<stored, at, taskCounts, tasks, tableLoading, selectedIds, dialog, batch, steps, batches, pollInterval>>

Waiting(s) == ~Free(s) /\ fetch[s].answer = "waiting"

Serve(s) ==
  /\ Waiting(s)
  /\ fetch' = [fetch EXCEPT ![s].answer = "done", ![s].ver = stored]
  /\ UNCHANGED <<stored, at, taskCounts, tasks, tableLoading, selectedIds, dialog, batch, steps, batches, pollInterval>>

Fail(s) ==
  /\ Waiting(s)
  /\ fetch' = [fetch EXCEPT ![s].answer = "error"]
  /\ UNCHANGED <<stored, at, taskCounts, tasks, tableLoading, selectedIds, dialog, batch, steps, batches, pollInterval>>

\* mutant: the poll refreshes the counts alone
MutGoesOn(kind) == FALSE
GoesOn(kind) == kind = "poll"

\* The counts arrive: the clamp effect moves off a page that is gone, and the poll that
\* asked for them goes on to the rows of the view of this moment; after a clamp that is the
\* load the clamp has sent.
CountsArrive(s) ==
  /\ ~Free(s) /\ ~Waiting(s) /\ fetch[s].kind \in {"counts", "poll"}
  /\ taskCounts' = IF fetch[s].answer = "done" THEN fetch[s].ver ELSE taskCounts
  /\ LET last == LastPage(taskCounts', at.tab)
         clamps == at.page > last
     IN /\ at' = [at EXCEPT !.page = IF clamps THEN last ELSE @]
        /\ selectedIds' = IF clamps THEN {} ELSE selectedIds
        /\ tableLoading' = (tableLoading \/ clamps)
        /\ fetch' = [fetch EXCEPT ![s] =
             IF clamps THEN Asked("rows", at', TRUE)
             ELSE IF GoesOn(fetch[s].kind) THEN Asked("rows", at', FALSE) ELSE Idle]
  /\ UNCHANGED <<stored, tasks, dialog, batch, steps, batches, pollInterval>>

\* The rows arrive and are shown, whatever the page shows by now; a reload goes on to the counts.
RowsArrive(s) ==
  /\ ~Free(s) /\ ~Waiting(s) /\ fetch[s].kind \in {"rows", "reload"}
  /\ tasks' = CASE fetch[s].answer = "done" -> {[view |-> fetch[s].view, ver |-> fetch[s].ver]}
               [] fetch[s].answer = "error" /\ fetch[s].loud -> NoRows
               [] OTHER -> tasks
  /\ tableLoading' = (tableLoading /\ ~fetch[s].loud)
  /\ fetch' = [fetch EXCEPT ![s] = IF fetch[s].kind = "reload" THEN Asked("counts", at, FALSE) ELSE Idle]
  /\ UNCHANGED <<stored, at, taskCounts, selectedIds, dialog, batch, steps, batches, pollInterval>>

-----------------------------------------------------------------------------
(* The user moves about.                                                    *)

\* The tab effect: page one, a load, and nothing selected.
ChangeTab(s, t) ==
  /\ Click /\ t # at.tab
  /\ at' = [at EXCEPT !.tab = t, !.page = 1]
  /\ LoadTasks(s, at')
  /\ selectedIds' = {}
  /\ UNCHANGED <<stored, taskCounts, tasks, dialog, batch, batches, pollInterval>>

GoToPage(s, p) ==
  /\ Click /\ p \in 1..Pages /\ p # at.page
  /\ at' = [at EXCEPT !.page = p]
  /\ LoadTasks(s, at')
  /\ selectedIds' = {}
  /\ UNCHANGED <<stored, taskCounts, tasks, dialog, batch, batches, pollInterval>>

\* The address names another queue: the component stays, and so does all it holds.
OpenQueue(q) ==
  /\ pollInterval /\ Move /\ q # at.queue
  /\ at' = [at EXCEPT !.queue = q]
  /\ UNCHANGED <<stored, taskCounts, tasks, tableLoading, fetch, selectedIds, dialog, batch, batches, pollInterval>>

\* loadData from the Live indicator: the counts alone.
Refresh(s) ==
  /\ Click /\ Free(s)
  /\ fetch' = [fetch EXCEPT ![s] = Asked("counts", at, FALSE)]
  /\ UNCHANGED <<stored, at, taskCounts, tasks, tableLoading, selectedIds, dialog, batch, batches, pollInterval>>

\* onDestroy: the poll ends.
Leave ==
  /\ Click
  /\ pollInterval' = FALSE
  /\ UNCHANGED <<stored, at, taskCounts, tasks, tableLoading, fetch, selectedIds, dialog, batch, batches>>

-----------------------------------------------------------------------------
(* Selection and batches.                                                   *)

\* A row is on screen while no load hides the table.
RowsShown == Click /\ ~tableLoading /\ tasks # NoRows

\* handleSelect: the box of a row.
Tick ==
  /\ RowsShown
  /\ selectedIds' \in {selectedIds \cup Ids(tasks), selectedIds \ Ids(tasks)}
  /\ UNCHANGED <<stored, at, taskCounts, tasks, tableLoading, fetch, dialog, batch, batches, pollInterval>>

\* handleSelectAll: the box of the header replaces the selection, whatever it held.
SelectAll ==
  /\ RowsShown
  /\ selectedIds' \in {Ids(tasks), {}}
  /\ UNCHANGED <<stored, at, taskCounts, tasks, tableLoading, fetch, dialog, batch, batches, pollInterval>>

\* canBulkDelete, canBulkArchive
AskToDelete(kind) ==
  /\ Click /\ at.tab # "active"
  /\ dialog' = [kind |-> kind, asked |-> selectedIds]
  /\ UNCHANGED <<stored, at, taskCounts, tasks, tableLoading, fetch, selectedIds, batch, batches, pollInterval>>

AskDelete == selectedIds # {} /\ AskToDelete("selected")
AskDeleteAll == selectedIds = {} /\ AskToDelete("all")

\* mutant: the rows on screen are deleted
MutDoomed(d) == IF d.kind = "all" THEN {[at EXCEPT !.page = p] : p \in 1..Pages} ELSE Ids(tasks)
Doomed(d) == IF d.kind = "all" THEN {[at EXCEPT !.page = p] : p \in 1..Pages} ELSE selectedIds

\* The dialog's action reads the queue, the selection and the tab of this moment.
Confirm ==
  /\ dialog # NoDialog
  /\ dialog' = NoDialog
  /\ Sends(IF dialog.kind = "all" THEN "all" ELSE "delete", Doomed(dialog))
  /\ UNCHANGED <<stored, at, taskCounts, tasks, tableLoading, fetch, selectedIds, steps, pollInterval>>

Cancel ==
  /\ dialog # NoDialog
  /\ dialog' = NoDialog
  /\ UNCHANGED <<stored, at, taskCounts, tasks, tableLoading, fetch, selectedIds, batch, steps, batches, pollInterval>>

\* canBulkArchive, canBulkRun: the selection, or else the whole tab, without a question asked.
ArchiveOrRun ==
  /\ Click /\ at.tab \in {"pending", "retry", "archived"}
  /\ IF selectedIds # {} THEN Sends("send", selectedIds)
     ELSE Sends("all", Doomed([kind |-> "all"]))
  /\ UNCHANGED <<stored, at, taskCounts, tasks, tableLoading, fetch, selectedIds, dialog, pollInterval>>

Changed == stored < MaxVersion /\ stored' = stored + 1

\* The batch is answered: done, its selection is dropped and the rows are loaded again.
BatchDone(s) ==
  /\ batch # NoBatch
  /\ batch' = NoBatch
  /\ Changed \/ UNCHANGED stored
  /\ selectedIds' = IF batch.kind = "all" THEN selectedIds ELSE {}
  /\ Reload(s)
  /\ UNCHANGED <<at, taskCounts, tasks, dialog, steps, batches, pollInterval>>

BatchFailed ==
  /\ batch # NoBatch
  /\ batch' = NoBatch
  /\ UNCHANGED <<stored, at, taskCounts, tasks, tableLoading, fetch, selectedIds, dialog, steps, batches, pollInterval>>

\* handleTaskAction: the server did it, without a question asked; refused, nothing changes.
ActOnRow(s) ==
  /\ RowsShown
  /\ Changed \/ UNCHANGED stored
  /\ Reload(s)
  /\ UNCHANGED <<at, taskCounts, tasks, selectedIds, dialog, batch, batches, pollInterval>>

\* Tasks move on the server.
ServerMoves ==
  /\ Changed
  /\ UNCHANGED <<at, taskCounts, tasks, tableLoading, fetch, selectedIds, dialog, batch, steps, batches, pollInterval>>

Next ==
  \/ \E s \in Slot : Poll(s) \/ Refresh(s) \/ Serve(s) \/ Fail(s) \/ CountsArrive(s) \/ RowsArrive(s)
  \/ \E s \in Slot : BatchDone(s) \/ ActOnRow(s)
  \/ \E s \in Slot, t \in Tab : ChangeTab(s, t)
  \/ \E s \in Slot, p \in 1..Pages : GoToPage(s, p)
  \/ \E q \in Queue : OpenQueue(q)
  \/ Tick \/ SelectAll \/ AskDelete \/ AskDeleteAll \/ Confirm \/ Cancel \/ ArchiveOrRun
  \/ BatchFailed \/ Leave
  \/ ServerMoves

Spec == Init /\ [][Next]_vars

\* The poll goes on, requests end, and a server asked again and again answers at last.
Fairness ==
  /\ WF_vars(\E s \in Slot : Poll(s))
  /\ \A s \in Slot : /\ WF_vars(Serve(s) \/ Fail(s))
                     /\ WF_vars(CountsArrive(s)) /\ WF_vars(RowsArrive(s))
  /\ \A k \in {"poll", "rows"} : SF_vars(\E s \in Slot : Waiting(s) /\ fetch[s].kind = k /\ Serve(s))
  /\ SF_vars(\E s \in Slot : BatchDone(s))
FairSpec == Spec /\ Fairness

-----------------------------------------------------------------------------
(* A confirmed deletion of the selection names no task its message did not count, although  *)
(* the action reads the selection when it is confirmed and polls go on behind the dialog.   *)
DeletesWhatWasAsked ==
  [][dialog.kind = "selected" /\ batch' # batch /\ batch'.kind = "delete" => batch'.ids \subseteq dialog.asked]_vars

(* Without numbered requests an older answer may replace a newer one; still, once the user  *)
(* and the server rest, the rows and the counts of an open page end up those of the queue,  *)
(* the tab and the page it names.                                                           *)
PageCatchesUp ==
  <>[](pollInterval => tasks = {[view |-> at, ver |-> stored]} /\ taskCounts = stored)
=============================================================================
