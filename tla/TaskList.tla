------------------------------- MODULE TaskList -------------------------------
(***************************************************************************)
(* The list of the tasks of every queue: the view (tab, queue filter and   *)
(* page) the user asks for, the numbered requests that fetch it, the       *)
(* silent refreshes of the poll, and the actions on a row.                 *)
(***************************************************************************)
EXTENDS Naturals

CONSTANTS
  Tab,         \* the states a tab lists
  PagesOf,     \* per version of the server's data and per tab, the pages there are
  MaxVersion,  \* bound: changes on the server
  MaxMoves,    \* bound: changes of view by the user
  Slot         \* requests that can be in flight at once

\* What the constants are assumed to be.
TaskListAssumption ==
  /\ MaxVersion \in Nat /\ MaxMoves \in Nat
  /\ PagesOf \in [0..MaxVersion -> [Tab -> Nat \ {0}]]
  /\ "none" \notin Tab /\ "none" \notin Slot

VARIABLES
  version,     \* of the tasks on the server
  view,        \* the tab and the page asked for
  pages,       \* pages the pager knows of
  rows,        \* what the table shows: a view of a version, or nothing
  loading, error,
  current,     \* the slot of the newest request, or none when it was answered
  request,     \* per slot, a request in flight and its answer
  pendingDelete, \* the row a delete was asked for, and not confirmed yet
  pollTimer,   \* the page is mounted and its poll armed
  moves        \* changes of view so far

vars == <<version, view, pages, rows, loading, error, current, request, pendingDelete, pollTimer, moves>>

View == [tab: Tab, page: Nat \ {0}]
NoRows == [tab |-> "none", page |-> 0, ver |-> 0]
Rows == [tab: Tab, page: Nat \ {0}, ver: 0..MaxVersion]
Idle == [kind |-> "idle"]
Request == [kind: {"loud", "silent"}, view: View, answer: {"waiting", "list", "error"}, ver: 0..MaxVersion]
Asked(kind, v) == [kind |-> kind, view |-> v, answer |-> "waiting", ver |-> 0]
NoSlot == "none"
NoDelete == [tab |-> "none"]

TypeOK ==
  /\ version \in 0..MaxVersion
  /\ view \in View /\ pages \in Nat \ {0}
  /\ rows \in Rows \cup {NoRows}
  /\ loading \in BOOLEAN /\ error \in BOOLEAN
  /\ current \in Slot \cup {NoSlot}
  /\ request \in [Slot -> Request \cup {Idle}]
  /\ pendingDelete \in [tab: Tab, ver: 0..MaxVersion] \cup {NoDelete}
  /\ pollTimer \in BOOLEAN /\ moves \in 0..MaxMoves

Free(s) == request[s] = Idle

\* ++requestSeq: the request in slot s is the newest, every other is superseded.
Send(s, kind, v) ==
  /\ Free(s)
  /\ request' = [request EXCEPT ![s] = Asked(kind, v)]
  /\ current' = s

Init ==
  /\ version = 0
  /\ view \in [tab: Tab, page: {1}] /\ pages = 1
  /\ rows = NoRows /\ loading = TRUE /\ error = FALSE
  /\ \E s \in Slot :
       /\ request = [t \in Slot |-> IF t = s THEN Asked("loud", view) ELSE Idle]
       /\ current = s
  /\ pendingDelete = NoDelete /\ pollTimer = TRUE /\ moves = 0

-----------------------------------------------------------------------------
Move == pollTimer /\ moves < MaxMoves /\ moves' = moves + 1

\* The tab or the filter changes: page one of the new view.
ChangeState(s, t) ==
  /\ Move
  /\ t # view.tab
  /\ view' = [tab |-> t, page |-> 1]
  /\ loading' = TRUE
  /\ Send(s, "loud", view')
  /\ UNCHANGED <<version, pages, rows, error, pendingDelete, pollTimer>>

GoToPage(s, p) ==
  /\ Move
  /\ p \in 1..pages /\ p # view.page
  /\ view' = [view EXCEPT !.page = p]
  /\ loading' = TRUE
  /\ Send(s, "loud", view')
  /\ UNCHANGED <<version, pages, rows, error, pendingDelete, pollTimer>>

\* The poll, the Live indicator and the end of an action.
Refresh(s) ==
  /\ pollTimer
  /\ Send(s, "silent", view)
  /\ UNCHANGED <<version, view, pages, rows, loading, error, pendingDelete, moves, pollTimer>>

Waiting(s) == ~Free(s) /\ request[s].answer = "waiting"

Serve(s) ==
  /\ Waiting(s)
  /\ request' = [request EXCEPT ![s].answer = "list", ![s].ver = version]
  /\ UNCHANGED <<version, view, pages, rows, loading, error, current, pendingDelete, moves, pollTimer>>

Fail(s) ==
  /\ Waiting(s)
  /\ request' = [request EXCEPT ![s].answer = "error"]
  /\ UNCHANGED <<version, view, pages, rows, loading, error, current, pendingDelete, moves, pollTimer>>

\* mutant: every answer is shown
MutSuperseded(s) == FALSE
\* "Ignore answers of requests superseded by a newer one (tab/filter/page change)".
Superseded(s) == s # current

ShownAfter(r) ==
  CASE r.answer = "error" /\ r.kind = "silent" -> rows
    [] r.answer = "error" /\ r.kind = "loud"   -> NoRows
    [] OTHER -> [tab |-> r.view.tab, page |-> r.view.page, ver |-> r.ver]

ErrorAfter(r) == IF r.answer = "error" THEN r.kind = "loud" \/ error ELSE FALSE

\* mutant: the page stays beyond the end
MutClamped == view
\* The list shrank below the page: the clamp effect asks for the last page at once.
Clamped == [view EXCEPT !.page = IF view.page > pages' THEN pages' ELSE @]

Arrive(s) ==
  /\ ~Free(s) /\ ~Waiting(s)
  /\ IF Superseded(s)
     THEN /\ request' = [request EXCEPT ![s] = Idle]
          /\ UNCHANGED <<view, rows, pages, loading, error, current, pollTimer>>
     ELSE /\ rows' = ShownAfter(request[s])
          /\ error' = ErrorAfter(request[s])
          /\ pages' = IF request[s].answer = "error" THEN pages
                      ELSE PagesOf[request[s].ver][request[s].view.tab]
          /\ view' = Clamped
          /\ loading' = (view' # view)
          /\ current' = IF view' # view THEN s ELSE NoSlot
          /\ request' = [request EXCEPT ![s] = IF view' # view THEN Asked("loud", view') ELSE Idle]
  /\ UNCHANGED <<version, pendingDelete, moves, pollTimer>>

-----------------------------------------------------------------------------
\* A row's delete asks for confirmation and keeps the row; the others run at once.
AskDelete ==
  /\ pollTimer
  /\ rows # NoRows /\ pendingDelete = NoDelete /\ ~(loading /\ rows = NoRows)
  /\ pendingDelete' = [tab |-> rows.tab, ver |-> rows.ver]
  /\ UNCHANGED <<version, view, pages, rows, loading, error, current, request, moves, pollTimer>>

Changed == version < MaxVersion /\ version' = version + 1

\* The dialog is answered; a confirmed delete, done or refused, ends in a refresh.
ConfirmDelete(s) ==
  /\ pendingDelete # NoDelete /\ pendingDelete' = NoDelete
  /\ Changed \/ UNCHANGED version
  /\ Send(s, "silent", view)
  /\ UNCHANGED <<view, pages, rows, loading, error, moves, pollTimer>>

CancelDelete ==
  /\ pendingDelete # NoDelete /\ pendingDelete' = NoDelete
  /\ UNCHANGED <<version, view, pages, rows, loading, error, current, request, moves, pollTimer>>

\* cancel, run, archive: the server does it or refuses it, and the list is refreshed.
Act(s) ==
  /\ pollTimer /\ rows # NoRows
  /\ Changed \/ UNCHANGED version
  /\ Send(s, "silent", view)
  /\ UNCHANGED <<view, pages, rows, loading, error, pendingDelete, moves, pollTimer>>

\* onDestroy: the poll ends.
Leave ==
  /\ Move /\ pendingDelete = NoDelete
  /\ pollTimer' = FALSE
  /\ UNCHANGED <<version, view, pages, rows, loading, error, current, request, pendingDelete>>

\* Tasks move on the server.
ServerMoves ==
  /\ Changed
  /\ UNCHANGED <<view, pages, rows, loading, error, current, request, pendingDelete, moves, pollTimer>>

Next ==
  \/ \E s \in Slot : Refresh(s) \/ Serve(s) \/ Fail(s) \/ Arrive(s) \/ ConfirmDelete(s) \/ Act(s)
  \/ \E s \in Slot, t \in Tab : ChangeState(s, t)
  \/ \E s \in Slot, p \in 1..pages : GoToPage(s, p)
  \/ AskDelete \/ CancelDelete
  \/ ServerMoves \/ Leave

Spec == Init /\ [][Next]_vars

\* The poll goes on, requests end, and again and again one is answered before the next poll.
Fairness ==
  /\ WF_vars(\E s \in Slot : Refresh(s))
  /\ \A s \in Slot : WF_vars(Serve(s) \/ Fail(s)) /\ WF_vars(Arrive(s))
  /\ SF_vars(\E s \in Slot : ~Superseded(s) /\ Serve(s))
  /\ SF_vars(\E s \in Slot : ~Superseded(s) /\ ~Free(s) /\ request[s].answer # "error" /\ Arrive(s))
FairSpec == Spec /\ Fairness

-----------------------------------------------------------------------------
(* Numbering the requests keeps the table from going back: while it shows the same tab and  *)
(* page, what it shows never becomes older, in whatever order the answers come.             *)
RowsNeverBack ==
  [][rows.tab = rows'.tab /\ rows.page = rows'.page => rows.ver <= rows'.ver]_vars

(* Once the user and the server rest, an open page shows the tab and page asked for, as the server  *)
(* has them, and the page is one that exists.                                               *)
RowsCatchUp ==
  <>[](pollTimer => rows = [tab |-> view.tab, page |-> view.page, ver |-> version]
           /\ view.page <= PagesOf[version][view.tab])
=============================================================================
