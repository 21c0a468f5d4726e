--------------------------- MODULE TaskListProofs ---------------------------
(***************************************************************************)
(* The table never goes back, for any tabs, any data and any number of     *)
(* requests in flight.  The invariant: nothing on the page is newer than   *)
(* the server, and what the newest request was answered is as new as what  *)
(* the table shows, since only that request changes the table.  Then the   *)
(* session: it is dropped only for cause.                                  *)
(***************************************************************************)
EXTENDS MCTaskList, TLAPS

NoneNewer == rows.ver <= version /\ \A s \in Slot : ~Free(s) => request[s].ver <= version
NewestIsFresh ==
  \A s \in Slot : s = current /\ ~Free(s) /\ request[s].answer = "list" => rows.ver <= request[s].ver
ListInv == TypeOK /\ NoneNewer /\ NewestIsFresh

LEMMA AskedType ==
  ASSUME TaskListAssumption, NEW kind \in {"loud", "silent"}, NEW v \in View
  PROVE  Asked(kind, v) \in Request /\ Asked(kind, v).ver = 0 /\ Asked(kind, v).answer = "waiting"
BY DEF TaskListAssumption, Asked, Request

LEMMA RowsType ==
  ASSUME TaskListAssumption
  PROVE  rows \in Rows \cup {NoRows} => rows.ver \in 0..MaxVersion
BY DEF TaskListAssumption, Rows, NoRows

\* The server's data only grows newer.
LEMMA ChangedType ==
  ASSUME TaskListAssumption, version \in 0..MaxVersion, Changed \/ UNCHANGED version
  PROVE  version' \in 0..MaxVersion /\ version <= version'
BY DEF TaskListAssumption, Changed

\* A request that starts becomes the newest, and is not answered yet.
LEMMA SendStep ==
  ASSUME TaskListAssumption, ListInv, NEW s \in Slot, NEW kind \in {"loud", "silent"}, NEW v \in View,
         request' = [request EXCEPT ![s] = Asked(kind, v)], current' = s,
         rows' = rows, version' \in 0..MaxVersion, version <= version'
  PROVE  request' \in [Slot -> Request \cup {Idle}] /\ current' \in Slot /\ NoneNewer' /\ NewestIsFresh'
<1> DEFINE asked == Asked(kind, v)
<1>1. asked \in Request /\ asked.ver = 0 /\ asked.answer = "waiting"
  BY AskedType
<1>2. request \in [Slot -> Request \cup {Idle}] /\ rows.ver \in 0..MaxVersion /\ version \in 0..MaxVersion
  BY RowsType DEF ListInv, TypeOK
<1>3. request' \in [Slot -> Request \cup {Idle}] /\ request'[s] = asked
  BY <1>1, <1>2
<1>4. \A t \in Slot \ {s} : request'[t] = request[t]
  BY <1>2
<1> HIDE DEF asked
<1>5. NoneNewer'
  <2>1. rows'.ver <= version'
    BY <1>2 DEF ListInv, NoneNewer
  <2>2. ASSUME NEW t \in Slot, ~Free(t)' PROVE request'[t].ver <= version'
    <3>1. CASE t = s
      BY <3>1, <1>1, <1>3
    <3>2. CASE t # s
      <4>1. request'[t] = request[t] /\ ~Free(t)
        BY <3>2, <1>4, <2>2 DEF Free
      <4>2. request[t].ver \in 0..MaxVersion /\ request[t].ver <= version
        BY <4>1, <1>2 DEF Free, Request, ListInv, NoneNewer
      <4> QED
        BY <4>1, <4>2, <1>2
    <3> QED
      BY <3>1, <3>2
  <2> QED
    BY <2>1, <2>2 DEF NoneNewer
<1>6. NewestIsFresh'
  BY <1>1, <1>3 DEF NewestIsFresh
<1> QED
  BY <1>3, <1>5, <1>6

\* A step that sends nothing and changes neither the table nor the requests.
LEMMA QuietStep ==
  ASSUME TaskListAssumption, ListInv, TypeOK', UNCHANGED <<rows, request, current>>, version <= version'
  PROVE  ListInv'
<1>1. rows.ver \in 0..MaxVersion /\ version \in 0..MaxVersion /\ version' \in 0..MaxVersion
  BY RowsType DEF ListInv, TypeOK
<1>2. \A s \in Slot : ~Free(s) => request[s].ver \in 0..MaxVersion
  BY DEF ListInv, TypeOK, Free, Request
<1> QED
  BY <1>1, <1>2 DEF ListInv, NoneNewer, NewestIsFresh, Free

LEMMA InitInv ==
  ASSUME TaskListAssumption
  PROVE  Init => ListInv
<1> SUFFICES ASSUME Init PROVE ListInv
  OBVIOUS
<1>1. view \in View
  BY DEF Init, View
<1>2. PICK s \in Slot : request = [t \in Slot |-> IF t = s THEN Asked("loud", view) ELSE Idle] /\ current = s
  BY DEF Init
<1>3. Asked("loud", view) \in Request /\ Asked("loud", view).ver = 0 /\ Asked("loud", view).answer = "waiting"
  BY <1>1, AskedType
<1>4. request \in [Slot -> Request \cup {Idle}]
  BY <1>2, <1>3
<1>5. TypeOK
  <2>1. version \in 0..MaxVersion /\ moves \in 0..MaxMoves
    BY DEF TaskListAssumption, Init
  <2>2. pages \in Nat \ {0} /\ rows \in Rows \cup {NoRows} /\ pendingDelete = NoDelete
    BY DEF Init
  <2>3. loading \in BOOLEAN /\ error \in BOOLEAN /\ pollTimer \in BOOLEAN
    BY DEF Init
  <2> QED
    BY <1>1, <1>2, <1>4, <2>1, <2>2, <2>3 DEF TypeOK
<1>6. NoneNewer /\ NewestIsFresh
  BY <1>2, <1>3 DEF Init, NoneNewer, NewestIsFresh, Free, NoRows
<1> QED
  BY <1>5, <1>6 DEF ListInv

\* The server reads its data now, or the request fails; the table stays.
LEMMA AnswerStep ==
  ASSUME TaskListAssumption, ListInv, NEW s \in Slot, Serve(s) \/ Fail(s)
  PROVE  ListInv'
<1>1. request \in [Slot -> Request \cup {Idle}] /\ request[s] \in Request /\ request[s].ver <= version
  BY DEF ListInv, TypeOK, NoneNewer, Serve, Fail, Waiting, Free
<1>2. version \in 0..MaxVersion /\ rows.ver \in 0..MaxVersion /\ rows.ver <= version
  BY RowsType DEF ListInv, TypeOK, NoneNewer
<1>3. PICK r \in Request : /\ request' = [request EXCEPT ![s] = r]
                           /\ r.ver <= version
                           /\ r.answer = "list" => r.ver = version
  <2>1. CASE Serve(s)
    <3> DEFINE r == [request[s] EXCEPT !.answer = "list", !.ver = version]
    <3>1. r \in Request /\ r.ver = version
      BY <1>1, <1>2 DEF Request
    <3>2. request' = [request EXCEPT ![s] = r]
      BY <2>1, <1>1 DEF Serve
    <3>3. r.ver <= version
      BY <3>1, <1>2
    <3> HIDE DEF r
    <3> QED
      BY <3>1, <3>2, <3>3
  <2>2. CASE Fail(s)
    <3> DEFINE r == [request[s] EXCEPT !.answer = "error"]
    <3>1. r \in Request /\ r.ver = request[s].ver /\ r.answer = "error"
      BY <1>1 DEF Request
    <3>2. request' = [request EXCEPT ![s] = r]
      BY <2>2, <1>1 DEF Fail
    <3> HIDE DEF r
    <3> QED
      BY <3>1, <3>2, <1>1
  <2> QED
    BY <2>1, <2>2
<1>4. UNCHANGED <<version, view, pages, rows, loading, error, current, pendingDelete, moves, pollTimer>>
  BY DEF Serve, Fail
<1>5. TypeOK'
  BY <1>1, <1>3, <1>4 DEF ListInv, TypeOK
<1>6. NoneNewer'
  BY <1>1, <1>3, <1>4 DEF ListInv, NoneNewer, Free
<1>7. NewestIsFresh'
  BY <1>1, <1>2, <1>3, <1>4 DEF ListInv, NewestIsFresh, Free
<1> QED
  BY <1>5, <1>6, <1>7 DEF ListInv

\* Only the newest request changes the table, and the page it is clamped to is one it counted.
LEMMA ArriveStep ==
  ASSUME TaskListAssumption, ListInv, NEW s \in Slot, Arrive(s)
  PROVE  ListInv' /\ (rows.tab = rows'.tab /\ rows.page = rows'.page => rows.ver <= rows'.ver)
<1> DEFINE r == request[s]
<1>1. request \in [Slot -> Request \cup {Idle}] /\ r \in Request /\ r.answer # "waiting" /\ r.ver <= version
  BY DEF ListInv, TypeOK, NoneNewer, Arrive, Waiting, Free
<1>2. version \in 0..MaxVersion /\ rows.ver \in 0..MaxVersion /\ rows.ver <= version /\ rows \in Rows \cup {NoRows}
  BY RowsType DEF ListInv, TypeOK, NoneNewer
<1>3. UNCHANGED <<version, pendingDelete, moves, pollTimer>>
  BY DEF Arrive
<1>4. CASE Superseded(s)
  <2>1. request' = [request EXCEPT ![s] = Idle]
    BY <1>4 DEF Arrive
  <2>2. UNCHANGED <<view, rows, pages, loading, error, current>>
    BY <1>4 DEF Arrive
  <2>3. TypeOK'
    BY <1>1, <1>3, <2>1, <2>2 DEF ListInv, TypeOK
  <2>4. NoneNewer' /\ NewestIsFresh'
    BY <1>1, <1>3, <2>1, <2>2 DEF ListInv, NoneNewer, NewestIsFresh, Free
  <2> QED
    BY <1>2, <2>2, <2>3, <2>4 DEF ListInv
<1>5. CASE ~Superseded(s)
  <2>1. s = current /\ (r.answer = "list" => rows.ver <= r.ver)
    BY <1>5, <1>1 DEF Superseded, ListInv, NewestIsFresh, Arrive
  <2>2. /\ rows' = ShownAfter(r)
        /\ error' = ErrorAfter(r)
        /\ pages' = IF r.answer = "error" THEN pages ELSE PagesOf[r.ver][r.view.tab]
        /\ view' = Clamped
        /\ loading' = (view' # view)
        /\ current' = IF view' # view THEN s ELSE NoSlot
        /\ request' = [request EXCEPT ![s] = IF view' # view THEN Asked("loud", view') ELSE Idle]
    BY <1>5 DEF Arrive
  <2>3. rows' \in Rows \cup {NoRows} /\ rows'.ver \in 0..MaxVersion /\ rows'.ver <= version
    <3>1. CASE r.answer = "list"
      BY <3>1, <2>2, <1>1 DEF ShownAfter, Rows, Request, View
    <3>2. CASE r.answer = "error"
      <4>1. NoRows.ver \in 0..MaxVersion /\ NoRows.ver <= version
        BY <1>2 DEF TaskListAssumption, NoRows
      <4>2. rows' = rows \/ rows' = NoRows
        BY <3>2, <2>2, <1>1 DEF ShownAfter, Request
      <4> QED
        BY <4>1, <4>2, <1>2
    <3> QED
      BY <3>1, <3>2, <1>1 DEF Request
  <2>4. rows.tab = rows'.tab /\ rows.page = rows'.page => rows.ver <= rows'.ver
    <3>1. CASE r.answer = "list"
      BY <3>1, <2>1, <2>2, <1>1 DEF ShownAfter
    <3>2. CASE r.answer = "error" /\ r.kind = "silent"
      BY <3>2, <2>2, <1>2 DEF ShownAfter
    <3>3. CASE r.answer = "error" /\ r.kind = "loud"
      BY <3>3, <2>2, <1>2 DEF TaskListAssumption, ShownAfter, NoRows, Rows
    <3> QED
      BY <3>1, <3>2, <3>3, <1>1 DEF Request
  <2>5. pages' \in Nat \ {0}
    BY <2>2, <1>1 DEF TaskListAssumption, ListInv, TypeOK, Request, View
  <2>6. view' \in View
    BY <2>2, <2>5 DEF Clamped, ListInv, TypeOK, View
  <2>7. error' \in BOOLEAN /\ loading' \in BOOLEAN
    BY <2>2 DEF ErrorAfter, ListInv, TypeOK
  <2>8. CASE view' = view
    <3>1. request' = [request EXCEPT ![s] = Idle] /\ current' = NoSlot
      BY <2>8, <2>2
    <3>2. TypeOK'
      BY <3>1, <1>1, <1>3, <2>3, <2>5, <2>6, <2>7 DEF ListInv, TypeOK
    <3>3. NoneNewer'
      BY <3>1, <1>1, <1>3, <2>3 DEF ListInv, NoneNewer, Free
    <3>4. NewestIsFresh'
      BY <3>1 DEF TaskListAssumption, NewestIsFresh, NoSlot
    <3> QED
      BY <3>2, <3>3, <3>4, <2>4 DEF ListInv
  <2>9. CASE view' # view
    <3>1. request' = [request EXCEPT ![s] = Asked("loud", view')] /\ current' = s
      BY <2>9, <2>2
    <3>2. Asked("loud", view') \in Request /\ Asked("loud", view').ver = 0 /\ Asked("loud", view').answer = "waiting"
      BY <2>6, AskedType
    <3>3. TypeOK'
      BY <3>1, <3>2, <1>1, <1>3, <2>3, <2>5, <2>6, <2>7 DEF ListInv, TypeOK
    <3>4. NoneNewer'
      BY <3>1, <3>2, <1>1, <1>2, <1>3, <2>3 DEF ListInv, NoneNewer, Free
    <3>5. NewestIsFresh'
      BY <3>1, <3>2, <1>1 DEF NewestIsFresh
    <3> QED
      BY <3>3, <3>4, <3>5, <2>4 DEF ListInv
  <2> QED
    BY <2>8, <2>9
<1> QED
  BY <1>4, <1>5

\* Every step that sends a request, of a view there is.
LEMMA SendingStep ==
  ASSUME TaskListAssumption, ListInv, NEW s \in Slot,
         \/ \E t \in Tab : ChangeState(s, t)
         \/ \E p \in 1..pages : GoToPage(s, p)
         \/ Refresh(s) \/ ConfirmDelete(s) \/ Act(s)
  PROVE  ListInv'
<1>1. version' \in 0..MaxVersion /\ version <= version'
  BY ChangedType DEF ListInv, TypeOK, ChangeState, GoToPage, Refresh, ConfirmDelete, Act
<1>2. UNCHANGED <<rows, pages, error, pollTimer>> /\ loading' \in BOOLEAN /\ moves' \in 0..MaxMoves
  <2>1. UNCHANGED <<rows, pages, error, pollTimer>>
    BY DEF ChangeState, GoToPage, Refresh, ConfirmDelete, Act
  <2>2. UNCHANGED loading \/ loading' = TRUE
    BY DEF ChangeState, GoToPage, Refresh, ConfirmDelete, Act
  <2>3. UNCHANGED moves \/ (moves < MaxMoves /\ moves' = moves + 1)
    BY DEF ChangeState, GoToPage, Refresh, ConfirmDelete, Act, Move
  <2>4. loading \in BOOLEAN /\ moves \in 0..MaxMoves
    BY DEF ListInv, TypeOK
  <2>5. moves' \in 0..MaxMoves
    BY <2>3, <2>4 DEF TaskListAssumption
  <2>6. loading' \in BOOLEAN
    BY <2>2, <2>4
  <2> QED
    BY <2>1, <2>5, <2>6
<1>3. view' \in View
  <2>1. CASE \E t \in Tab : ChangeState(s, t)
    BY <2>1 DEF ChangeState, View
  <2>2. CASE \E p \in 1..pages : GoToPage(s, p)
    <3>1. PICK p \in 1..pages : GoToPage(s, p)
      BY <2>2
    <3>2. p \in Nat \ {0}
      BY DEF ListInv, TypeOK
    <3> QED
      BY <3>1, <3>2 DEF GoToPage, ListInv, TypeOK, View
  <2>3. CASE Refresh(s) \/ ConfirmDelete(s) \/ Act(s)
    BY <2>3 DEF Refresh, ConfirmDelete, Act, ListInv, TypeOK
  <2> QED
    BY <2>1, <2>2, <2>3
<1>4. PICK kind \in {"loud", "silent"} : request' = [request EXCEPT ![s] = Asked(kind, view')] /\ current' = s
  BY DEF ChangeState, GoToPage, Refresh, ConfirmDelete, Act, Send
<1>5. pendingDelete' \in [tab: Tab, ver: 0..MaxVersion] \cup {NoDelete}
  BY DEF ListInv, TypeOK, ChangeState, GoToPage, Refresh, ConfirmDelete, Act
<1>6. request' \in [Slot -> Request \cup {Idle}] /\ current' \in Slot /\ NoneNewer' /\ NewestIsFresh'
  BY <1>1, <1>2, <1>3, <1>4, SendStep
<1>7. TypeOK'
  BY <1>1, <1>2, <1>3, <1>5, <1>6 DEF ListInv, TypeOK
<1> QED
  BY <1>6, <1>7 DEF ListInv

\* Every step keeps the invariant, and the table from going back.
LEMMA ListStep ==
  ASSUME TaskListAssumption, ListInv, [Next]_vars
  PROVE  ListInv' /\ (rows.tab = rows'.tab /\ rows.page = rows'.page => rows.ver <= rows'.ver)
<1>1. rows.ver \in 0..MaxVersion
  BY RowsType DEF ListInv, TypeOK
<1>2. ASSUME NEW s \in Slot, Arrive(s) PROVE ListInv' /\ (rows.tab = rows'.tab /\ rows.page = rows'.page => rows.ver <= rows'.ver)
  BY <1>2, ArriveStep
<1>3. ASSUME NEW s \in Slot, Serve(s) \/ Fail(s) PROVE ListInv' /\ UNCHANGED rows
  BY <1>3, AnswerStep DEF Serve, Fail
<1>4. ASSUME NEW s \in Slot,
             \/ \E t \in Tab : ChangeState(s, t)
             \/ \E p \in 1..pages : GoToPage(s, p)
             \/ Refresh(s) \/ ConfirmDelete(s) \/ Act(s)
      PROVE ListInv' /\ UNCHANGED rows
  BY <1>4, SendingStep DEF ChangeState, GoToPage, Refresh, ConfirmDelete, Act
<1>5. CASE AskDelete \/ CancelDelete \/ ServerMoves \/ Leave \/ UNCHANGED vars
  <2>1. UNCHANGED <<rows, request, current>>
    BY <1>5 DEF AskDelete, CancelDelete, ServerMoves, Leave, vars
  <2>2. version' \in 0..MaxVersion /\ version <= version'
    BY <1>5, ChangedType DEF ListInv, TypeOK, AskDelete, CancelDelete, ServerMoves, Leave, vars
  <2>3. pendingDelete' \in [tab: Tab, ver: 0..MaxVersion] \cup {NoDelete}
    <3>1. CASE AskDelete
      BY <3>1 DEF AskDelete, ListInv, TypeOK, Rows
    <3>2. CASE ~AskDelete
      BY <3>2, <1>5 DEF CancelDelete, ServerMoves, Leave, vars, ListInv, TypeOK
    <3> QED
      BY <3>1, <3>2
  <2>4. moves' \in 0..MaxMoves /\ pollTimer' \in BOOLEAN
    <3>1. UNCHANGED moves \/ (moves < MaxMoves /\ moves' = moves + 1)
      BY <1>5 DEF AskDelete, CancelDelete, ServerMoves, Leave, Move, vars
    <3>2. UNCHANGED pollTimer \/ pollTimer' = FALSE
      BY <1>5 DEF AskDelete, CancelDelete, ServerMoves, Leave, vars
    <3>3. moves \in 0..MaxMoves /\ pollTimer \in BOOLEAN
      BY DEF ListInv, TypeOK
    <3>4. moves' \in 0..MaxMoves
      BY <3>1, <3>3 DEF TaskListAssumption
    <3>5. pollTimer' \in BOOLEAN
      BY <3>2, <3>3
    <3> QED
      BY <3>4, <3>5
  <2>5. UNCHANGED <<view, pages, loading, error>>
    BY <1>5 DEF AskDelete, CancelDelete, ServerMoves, Leave, vars
  <2>6. TypeOK'
    BY <2>1, <2>2, <2>3, <2>4, <2>5 DEF ListInv, TypeOK
  <2> QED
    BY <1>1, <2>1, <2>2, <2>6, QuietStep
<1> QED
  BY <1>1, <1>2, <1>3, <1>4, <1>5 DEF Next

\* Type correctness.
THEOREM TypeTheorem ==
  ASSUME TaskListAssumption
  PROVE  Spec => []TypeOK
<1>1. ListInv => TypeOK
  BY DEF ListInv
<1>2. ListInv /\ [Next]_vars => ListInv'
  BY ListStep
<1> QED
  BY <1>1, <1>2, InitInv, PTL DEF Spec

\* In whatever order the answers come, a table that keeps its tab and page never shows older rows.
THEOREM RowsNeverBackTheorem ==
  ASSUME TaskListAssumption
  PROVE  Spec => RowsNeverBack
<1>1. ListInv /\ [Next]_vars => ListInv'
  BY ListStep
<1>2. ListInv /\ [Next]_vars => [rows.tab = rows'.tab /\ rows.page = rows'.page => rows.ver <= rows'.ver]_vars
  BY ListStep
<1> QED
  BY <1>1, <1>2, InitInv, PTL DEF Spec, RowsNeverBack

-----------------------------------------------------------------------------
(* The session.  A cookie the server accepts, and a sign-in it answered, mean that it has  *)
(* its admin; a check is refused only if it was sent without a session that still counts.  *)
Earned(r, a) ==
  /\ r.cookie => a
  /\ r.kind \in {"login", "setup"} /\ r.answer = "yes" => a
  /\ r.kind = "check" /\ r.answer \in {"no", "setup"} => ~r.cookie
SessionInv == Guarded!TypeOK /\ (cookie => admin) /\ \A s \in Slot : Earned(requests[s], admin)

\* What is dropped in a step, and why.
OnlyForCause ==
  auth.authenticated /\ cookie /\ ~auth'.authenticated /\ auth'.checked =>
    \E s \in Slot : \/ Guarded!Answered(s, "logout") /\ requests'[s] = Guarded!Idle
                    \/ Guarded!Answered(s, "check") /\ ~requests[s].cookie /\ requests'[s] = Guarded!Idle

\* The slots of the browser.
InFlight == Guarded!Request \cup {Guarded!Idle}

LEMMA SentEarned ==
  ASSUME NEW kind \in Guarded!Kind, cookie \in BOOLEAN, admin \in BOOLEAN, cookie => admin
  PROVE  Guarded!Sent(kind) \in Guarded!Request /\ Earned(Guarded!Sent(kind), admin)
BY DEF Guarded!Sent, Guarded!Request, Guarded!Kind, Earned

LEMMA IdleEarned == \A a \in BOOLEAN : Guarded!Idle \in InFlight /\ Earned(Guarded!Idle, a)
BY DEF Guarded!Idle, InFlight, Earned

\* An admin is never lost: what was earned stays so.
LEMMA EarnedStays ==
  ASSUME NEW r, NEW a \in BOOLEAN, NEW b \in BOOLEAN, a => b, Earned(r, a)
  PROVE  Earned(r, b)
BY DEF Earned

\* One slot changes, and earns what it holds.
LEMMA SlotChanges ==
  ASSUME SessionInv, NEW s \in Slot, NEW r \in InFlight, requests' = [requests EXCEPT ![s] = r],
         admin' \in BOOLEAN, admin => admin', Earned(r, admin')
  PROVE  requests' \in [Slot -> InFlight] /\ \A t \in Slot : Earned(requests'[t], admin')
<1>1. requests \in [Slot -> InFlight] /\ admin \in BOOLEAN /\ \A t \in Slot : Earned(requests[t], admin)
  BY DEF SessionInv, Guarded!TypeOK, InFlight
<1>2. requests' \in [Slot -> InFlight]
  BY <1>1
<1>3. ASSUME NEW t \in Slot PROVE Earned(requests'[t], admin')
  <2>1. CASE t = s
    BY <2>1, <1>1
  <2>2. CASE t # s
    <3>1. requests'[t] = requests[t]
      BY <2>2, <1>1
    <3> QED
      BY <3>1, <1>1, EarnedStays
  <2> QED
    BY <2>1, <2>2
<1> QED
  BY <1>2, <1>3

\* The requests of a page load.
LEMMA LoadEarned ==
  ASSUME NEW s \in Slot, cookie \in BOOLEAN, admin \in BOOLEAN, cookie => admin,
         NEW rs, rs = [t \in Slot |-> IF t = s THEN Guarded!Sent("check") ELSE Guarded!Idle]
  PROVE  rs \in [Slot -> InFlight] /\ \A t \in Slot : Earned(rs[t], admin)
<1>1. "check" \in Guarded!Kind
  BY DEF Guarded!Kind
<1>2. Guarded!Sent("check") \in InFlight /\ Earned(Guarded!Sent("check"), admin)
  BY <1>1, SentEarned DEF InFlight
<1> QED
  BY <1>2, IdleEarned

LEMMA AuthType ==
  ASSUME NEW a \in Guarded!AuthState
  PROVE  /\ \A v \in BOOLEAN : /\ [a EXCEPT !.loading = v] \in Guarded!AuthState
                               /\ [a EXCEPT !.loading = v].authenticated = a.authenticated
                               /\ [a EXCEPT !.loading = v].checked = a.checked
         /\ [Guarded!DefaultState EXCEPT !.loading = TRUE] \in Guarded!AuthState
         /\ ~[Guarded!DefaultState EXCEPT !.loading = TRUE].checked
         /\ [Guarded!DefaultState EXCEPT !.checked = TRUE] \in Guarded!AuthState
BY DEF Guarded!AuthState, Guarded!DefaultState

LEMMA SessionInit == GuardedClosed \/ Guarded!Init => SessionInv
<1>1. ASSUME GuardedClosed PROVE SessionInv
  <2>1. requests \in [Slot -> InFlight] /\ \A s \in Slot : Earned(requests[s], TRUE)
    BY <1>1, IdleEarned DEF GuardedClosed
  <2>2. admin = TRUE /\ cookie = TRUE /\ route = "login" /\ auth = Guarded!DefaultState
    BY <1>1 DEF GuardedClosed
  <2>3. admin \in BOOLEAN /\ cookie \in BOOLEAN /\ (cookie => admin) /\ \A s \in Slot : Earned(requests[s], admin)
    BY <2>1, <2>2
  <2>4. auth \in Guarded!AuthState /\ route \in Guarded!Route
    BY <2>2 DEF Guarded!DefaultState, Guarded!AuthState, Guarded!Route
  <2> QED
    BY <2>1, <2>3, <2>4 DEF SessionInv, Guarded!TypeOK, InFlight
<1>2. ASSUME Guarded!Init PROVE SessionInv
  <2>1. admin \in BOOLEAN /\ cookie \in BOOLEAN /\ (cookie => admin) /\ route \in Guarded!Route
    BY <1>2 DEF Guarded!Init
  <2>2. requests \in [Slot -> InFlight] /\ \A s \in Slot : Earned(requests[s], admin)
    BY <1>2, <2>1, LoadEarned DEF Guarded!Init
  <2>3. auth \in Guarded!AuthState
    BY <1>2 DEF Guarded!Init, Guarded!AuthState, Guarded!DefaultState
  <2> QED
    BY <2>1, <2>2, <2>3 DEF SessionInv, Guarded!TypeOK, InFlight
<1> QED
  BY <1>1, <1>2

\* The browser sends a request.
LEMMA SentStep ==
  ASSUME SessionInv, NEW s \in Slot,
         Guarded!SubmitLogin(s) \/ Guarded!SubmitSetup(s) \/ Guarded!Logout(s) \/ Guarded!Poll(s)
  PROVE  SessionInv' /\ OnlyForCause
<1>1. cookie \in BOOLEAN /\ admin \in BOOLEAN /\ (cookie => admin) /\ auth \in Guarded!AuthState
  BY DEF SessionInv, Guarded!TypeOK
<1>2. UNCHANGED <<admin, cookie, route>>
  BY DEF Guarded!SubmitLogin, Guarded!SubmitSetup, Guarded!Logout, Guarded!Poll
<1>3. PICK kind \in Guarded!Kind : requests' = [requests EXCEPT ![s] = Guarded!Sent(kind)]
  BY DEF Guarded!SubmitLogin, Guarded!SubmitSetup, Guarded!Logout, Guarded!Poll, Guarded!Kind
<1>4. Guarded!Sent(kind) \in InFlight /\ Earned(Guarded!Sent(kind), admin)
  BY <1>1, SentEarned DEF InFlight
<1>5. requests' \in [Slot -> InFlight] /\ \A t \in Slot : Earned(requests'[t], admin')
  BY <1>1, <1>2, <1>3, <1>4, SlotChanges
<1>6. auth' = auth \/ auth' = [auth EXCEPT !.loading = TRUE]
  BY DEF Guarded!SubmitLogin, Guarded!SubmitSetup, Guarded!Logout, Guarded!Poll
<1>7. auth' \in Guarded!AuthState /\ auth'.authenticated = auth.authenticated
  BY <1>1, <1>6, AuthType
<1> QED
  BY <1>1, <1>2, <1>5, <1>7 DEF SessionInv, Guarded!TypeOK, InFlight, OnlyForCause

\* A request is served or lost.
LEMMA ServedStep ==
  ASSUME SessionInv, NEW s \in Slot, Guarded!Serve(s) \/ Guarded!Lose(s)
  PROVE  SessionInv' /\ OnlyForCause
<1>1. admin \in BOOLEAN /\ requests[s] \in Guarded!Request /\ Earned(requests[s], admin)
  BY DEF SessionInv, Guarded!TypeOK, Guarded!Serve, Guarded!Lose, Guarded!Free
<1>2. UNCHANGED <<cookie, auth, route>>
  BY DEF Guarded!Serve, Guarded!Lose
<1>3. \E a \in Guarded!Answer :
        /\ requests' = [requests EXCEPT ![s] = [requests[s] EXCEPT !.answer = a]]
        /\ admin' \in BOOLEAN /\ (admin => admin')
        /\ Earned([requests[s] EXCEPT !.answer = a], admin')
  <2>1. CASE Guarded!Serve(s)
    <3>1. PICK a \in Guarded!Reply(requests[s]) : requests' = [requests EXCEPT ![s].answer = a]
      BY <2>1 DEF Guarded!Serve
    <3>2. admin' = (admin \/ requests[s].kind = "setup")
      BY <2>1 DEF Guarded!Serve
    <3>3. a \in Guarded!Answer
      BY <1>1 DEF Guarded!Reply, Guarded!Answer, Guarded!Request, Guarded!Kind
    <3>4. Earned([requests[s] EXCEPT !.answer = a], admin')
      BY <1>1, <3>2 DEF Earned, Guarded!Reply, Guarded!Request, Guarded!Kind
    <3>5. admin' \in BOOLEAN /\ (admin => admin')
      BY <1>1, <3>2
    <3> QED
      BY <3>1, <3>3, <3>4, <3>5
  <2>2. CASE Guarded!Lose(s)
    <3>1. requests' = [requests EXCEPT ![s].answer = "error"] /\ admin' = admin
      BY <2>2 DEF Guarded!Lose
    <3>2. Earned([requests[s] EXCEPT !.answer = "error"], admin)
      BY <1>1 DEF Earned, Guarded!Request
    <3> QED
      BY <1>1, <3>1, <3>2 DEF Guarded!Answer
  <2> QED
    BY <2>1, <2>2
<1>4. PICK a \in Guarded!Answer :
        /\ requests' = [requests EXCEPT ![s] = [requests[s] EXCEPT !.answer = a]]
        /\ admin' \in BOOLEAN /\ (admin => admin')
        /\ Earned([requests[s] EXCEPT !.answer = a], admin')
  BY <1>3
<1>5. [requests[s] EXCEPT !.answer = a] \in InFlight
  BY <1>1 DEF Guarded!Request, InFlight
<1>6. requests' \in [Slot -> InFlight] /\ \A t \in Slot : Earned(requests'[t], admin')
  BY <1>4, <1>5, SlotChanges
<1>7. cookie' => admin'
  BY <1>2, <1>4 DEF SessionInv
<1> QED
  BY <1>2, <1>4, <1>6, <1>7 DEF SessionInv, Guarded!TypeOK, InFlight, OnlyForCause

\* What a check leaves of the store.
LEMMA CheckedType ==
  ASSUME NEW a \in Guarded!AuthState, NEW answer \in Guarded!Answer
  PROVE  /\ Guarded!CheckedState(a, answer) \in Guarded!AuthState
         /\ answer \in {"yes", "error"} /\ a.authenticated => Guarded!CheckedState(a, answer).authenticated
BY DEF Guarded!CheckedState, Guarded!AuthState, Guarded!Answer

\* An answer is received.
LEMMA ReceivedStep ==
  ASSUME SessionInv, NEW s \in Slot, Guarded!Receive(s)
  PROVE  SessionInv' /\ OnlyForCause
<1>1. /\ cookie \in BOOLEAN /\ admin \in BOOLEAN /\ (cookie => admin) /\ auth \in Guarded!AuthState
      /\ route \in Guarded!Route /\ requests \in [Slot -> InFlight] /\ Earned(requests[s], admin)
  BY DEF SessionInv, Guarded!TypeOK, InFlight
<1>2. requests[s] \in Guarded!Request /\ requests[s].answer \in Guarded!Answer
  BY <1>1 DEF InFlight, Guarded!Receive, Guarded!CheckDone, Guarded!LoginDone, Guarded!SetupDone, Guarded!SignedIn, Guarded!LogoutDone,
              Guarded!PageDone, Guarded!Answered, Guarded!Idle, Guarded!Request
<1>3. ASSUME NEW r \in InFlight, requests' = [requests EXCEPT ![s] = r], Earned(r, admin), admin' = admin
      PROVE  requests' \in [Slot -> InFlight] /\ \A t \in Slot : Earned(requests'[t], admin')
  BY <1>1, <1>3, SlotChanges
<1>4. ASSUME requests' = [requests EXCEPT ![s] = Guarded!Idle], admin' = admin
      PROVE  /\ requests' \in [Slot -> InFlight] /\ \A t \in Slot : Earned(requests'[t], admin')
             /\ requests'[s] = Guarded!Idle
  BY <1>1, <1>3, <1>4, IdleEarned
<1>5. ASSUME Guarded!CheckDone(s) PROVE SessionInv' /\ OnlyForCause
  <2>1. auth' = Guarded!CheckedState(auth, requests[s].answer) /\ UNCHANGED <<admin, cookie, route>>
    BY <1>5 DEF Guarded!CheckDone
  <2>2. /\ requests' \in [Slot -> InFlight] /\ \A t \in Slot : Earned(requests'[t], admin')
        /\ requests'[s] = Guarded!Idle
    BY <1>4, <1>5 DEF Guarded!CheckDone
  <2>3. auth' \in Guarded!AuthState /\ (requests[s].answer \in {"yes", "error"} /\ auth.authenticated => auth'.authenticated)
    BY <1>1, <1>2, <2>1, CheckedType
  <2>4. Guarded!Answered(s, "check") /\ requests[s].kind = "check"
    BY <1>5 DEF Guarded!CheckDone, Guarded!Answered
  <2>5. requests[s].answer \notin {"yes", "error"} => ~requests[s].cookie
    BY <1>1, <1>2, <2>4 DEF Earned, Guarded!Answer
  <2>6. OnlyForCause
    BY <2>2, <2>3, <2>4, <2>5 DEF OnlyForCause
  <2> QED
    BY <1>1, <2>1, <2>2, <2>3, <2>6 DEF SessionInv, Guarded!TypeOK, InFlight
<1>6. ASSUME NEW kind \in {"login", "setup"}, Guarded!SignedIn(s, kind) PROVE SessionInv' /\ OnlyForCause
  <2>1. requests' \in [Slot -> InFlight] /\ (\A t \in Slot : Earned(requests'[t], admin')) /\ admin' = admin
    BY <1>4, <1>6 DEF Guarded!SignedIn
  <2>2. CASE requests[s].answer = "yes"
    <3>1. cookie' = TRUE /\ route' = "private"
      BY <1>6, <2>2 DEF Guarded!SignedIn
    <3>2. admin
      BY <1>1, <1>6, <2>2 DEF Guarded!SignedIn, Guarded!Answered, Earned
    <3>3. auth' = [auth EXCEPT !.authenticated = TRUE, !.loading = FALSE, !.setupRequired = @ /\ kind # "setup"]
      BY <1>6, <2>2 DEF Guarded!SignedIn
    <3>4. auth' \in Guarded!AuthState /\ auth'.authenticated
      BY <1>1, <3>3 DEF Guarded!AuthState
    <3>5. cookie' \in BOOLEAN /\ (cookie' => admin') /\ admin' \in BOOLEAN /\ route' \in Guarded!Route
      BY <1>1, <2>1, <3>1, <3>2 DEF Guarded!Route
    <3> QED
      BY <2>1, <3>4, <3>5 DEF SessionInv, Guarded!TypeOK, InFlight, OnlyForCause
  <2>3. CASE requests[s].answer # "yes"
    <3>1. auth' = [auth EXCEPT !.loading = FALSE] /\ UNCHANGED <<cookie, route>>
      BY <1>6, <2>3 DEF Guarded!SignedIn
    <3>2. auth' \in Guarded!AuthState /\ auth'.authenticated = auth.authenticated
      BY <1>1, <3>1, AuthType
    <3> QED
      BY <1>1, <2>1, <3>1, <3>2 DEF SessionInv, Guarded!TypeOK, InFlight, OnlyForCause
  <2> QED
    BY <2>2, <2>3
<1>7. ASSUME Guarded!LogoutDone(s) PROVE SessionInv' /\ OnlyForCause
  <2>1. /\ requests' \in [Slot -> InFlight] /\ \A t \in Slot : Earned(requests'[t], admin')
        /\ requests'[s] = Guarded!Idle /\ admin' = admin
    BY <1>4, <1>7 DEF Guarded!LogoutDone
  <2>2. Guarded!Answered(s, "logout") /\ route' = "login" /\ auth' = [Guarded!DefaultState EXCEPT !.checked = TRUE]
    BY <1>7 DEF Guarded!LogoutDone
  <2>3. cookie' = (cookie /\ requests[s].answer = "error")
    BY <1>7 DEF Guarded!LogoutDone
  <2>4. cookie' \in BOOLEAN /\ (cookie' => admin')
    BY <1>1, <2>1, <2>3
  <2>5. auth' \in Guarded!AuthState /\ route' \in Guarded!Route
    BY <1>1, <2>2, AuthType DEF Guarded!Route
  <2>6. OnlyForCause
    BY <2>1, <2>2 DEF OnlyForCause
  <2> QED
    BY <1>1, <2>1, <2>4, <2>5, <2>6 DEF SessionInv, Guarded!TypeOK, InFlight
<1>8. ASSUME Guarded!PageDone(s) PROVE SessionInv' /\ OnlyForCause
  <2>1. UNCHANGED <<admin, cookie, route>>
    BY <1>8 DEF Guarded!PageDone
  <2>2. PICK r \in {Guarded!Sent("check"), Guarded!Idle} : requests' = [requests EXCEPT ![s] = r]
    BY <1>8 DEF Guarded!PageDone
  <2>3. r \in InFlight /\ Earned(r, admin)
    <3>1. "check" \in Guarded!Kind
      BY DEF Guarded!Kind
    <3> QED
      BY <3>1, <2>2, <1>1, SentEarned, IdleEarned DEF InFlight
  <2>4. requests' \in [Slot -> InFlight] /\ \A t \in Slot : Earned(requests'[t], admin')
    BY <1>3, <2>1, <2>2, <2>3
  <2>5. auth' = auth \/ auth' = [auth EXCEPT !.loading = TRUE]
    BY <1>8 DEF Guarded!PageDone
  <2>6. auth' \in Guarded!AuthState /\ auth'.authenticated = auth.authenticated
    BY <1>1, <2>5, AuthType
  <2> QED
    BY <1>1, <2>1, <2>4, <2>6 DEF SessionInv, Guarded!TypeOK, InFlight, OnlyForCause
<1> QED
  BY <1>5, <1>6, <1>7, <1>8 DEF Guarded!Receive, Guarded!LoginDone, Guarded!SetupDone

\* The token expires: nobody keeps a session that counts.
LEMMA ExpiredStep ==
  ASSUME SessionInv, Guarded!Expire
  PROVE  SessionInv' /\ OnlyForCause
<1>1. cookie' = FALSE /\ UNCHANGED <<admin, auth, route>>
  BY DEF Guarded!Expire
<1>2. \A s \in Slot : /\ requests'[s] = IF requests[s] = Guarded!Idle THEN Guarded!Idle ELSE [requests[s] EXCEPT !.cookie = FALSE]
                      /\ requests'[s] \in InFlight /\ Earned(requests'[s], admin)
  <2> TAKE s \in Slot
  <2>1. requests'[s] = IF requests[s] = Guarded!Idle THEN Guarded!Idle ELSE [requests[s] EXCEPT !.cookie = FALSE]
    BY DEF Guarded!Expire, Guarded!Free
  <2>2. requests[s] \in InFlight /\ admin \in BOOLEAN /\ Earned(requests[s], admin)
    BY DEF SessionInv, Guarded!TypeOK, InFlight
  <2>3. CASE requests[s] = Guarded!Idle
    BY <2>1, <2>2, <2>3, IdleEarned
  <2>4. CASE requests[s] # Guarded!Idle
    <3>1. requests[s] \in Guarded!Request
      BY <2>2, <2>4 DEF InFlight
    <3>2. [requests[s] EXCEPT !.cookie = FALSE] \in Guarded!Request
      BY <3>1 DEF Guarded!Request
    <3>3. Earned([requests[s] EXCEPT !.cookie = FALSE], admin)
      BY <2>2, <3>1 DEF Guarded!Request, Earned
    <3> QED
      BY <2>1, <2>4, <3>2, <3>3 DEF InFlight
  <2> QED
    BY <2>1, <2>3, <2>4
<1>3. requests' \in [Slot -> InFlight]
  BY <1>2 DEF Guarded!Expire
<1>4. cookie' \in BOOLEAN /\ ~cookie'
  BY <1>1
<1> QED
  BY <1>1, <1>2, <1>3, <1>4 DEF SessionInv, Guarded!TypeOK, InFlight, OnlyForCause

\* Every step keeps the invariant, and drops a session only for cause.
LEMMA SessionStep == SessionInv /\ [Guarded!Next]_guardedVars => SessionInv' /\ OnlyForCause
<1> SUFFICES ASSUME SessionInv, [Guarded!Next]_guardedVars PROVE SessionInv' /\ OnlyForCause
  OBVIOUS
<1>1. cookie \in BOOLEAN /\ admin \in BOOLEAN /\ (cookie => admin) /\ auth \in Guarded!AuthState /\ route \in Guarded!Route
  BY DEF SessionInv, Guarded!TypeOK
<1>2. CASE Guarded!Open
  <2>1. PICK r \in Guarded!Route : Guarded!Opened(r)
    BY <1>2 DEF Guarded!Open
  <2>2. PICK s \in Slot : requests' = [t \in Slot |-> IF t = s THEN Guarded!Sent("check") ELSE Guarded!Idle]
    BY <2>1 DEF Guarded!Opened
  <2>3. requests' \in [Slot -> InFlight] /\ \A t \in Slot : Earned(requests'[t], admin)
    BY <1>1, <2>2, LoadEarned
  <2>4. auth' \in Guarded!AuthState /\ ~auth'.checked
    BY <1>1, <2>1, AuthType DEF Guarded!Opened
  <2>5. route' \in Guarded!Route /\ UNCHANGED <<admin, cookie>>
    BY <1>2, <2>1 DEF Guarded!Open, Guarded!Opened
  <2> QED
    BY <1>1, <2>3, <2>4, <2>5 DEF SessionInv, Guarded!TypeOK, InFlight, OnlyForCause
<1>3. CASE Guarded!Guard
  <2>1. Guarded!Redirect(auth, route) \in Guarded!Route
    BY <1>1 DEF Guarded!Redirect, Guarded!Route, Guarded!AuthState
  <2>2. route' \in Guarded!Route /\ UNCHANGED <<admin, cookie, auth, requests>>
    BY <1>3, <2>1 DEF Guarded!Guard
  <2> QED
    BY <2>2 DEF SessionInv, Guarded!TypeOK, OnlyForCause
<1>4. CASE UNCHANGED guardedVars
  BY <1>4 DEF guardedVars, SessionInv, Guarded!TypeOK, OnlyForCause
<1> QED
  BY <1>2, <1>3, <1>4, SentStep, ServedStep, ReceivedStep, ExpiredStep DEF Guarded!Next

\* In the browser of a user a session is dropped only for cause, whatever is in flight.
THEOREM DroppedForCauseTheorem == BothSpec => DroppedForCause
<1>1. BothInit => SessionInv
  BY SessionInit DEF BothInit
<1>2. SessionInv /\ [BothNext]_<<vars, guardedVars>> => SessionInv' /\ [OnlyForCause]_guardedVars
  BY SessionStep DEF BothNext
<1>3. [OnlyForCause]_guardedVars => [OnlyForCause]_Guarded!vars
  BY DEF guardedVars, Guarded!vars
<1> QED
  BY <1>1, <1>2, <1>3, PTL DEF BothSpec, DroppedForCause, Guarded!DroppedForCause, OnlyForCause
=============================================================================
