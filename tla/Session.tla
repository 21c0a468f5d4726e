------------------------------- MODULE Session -------------------------------
(***************************************************************************)
(* The dashboard's session: the auth store, the 401 branch of fetchJson,   *)
(* the layout that guards every route, the sign-in, set-up and sign-out    *)
(* forms, and the requests of the page behind the guard.  Requests are     *)
(* answered in any order; each carries the cookie it was sent with.        *)
(***************************************************************************)
EXTENDS Naturals

CONSTANT Slot          \* requests of the browser that can be in flight at once

VARIABLES
  admin,               \* the server has its admin account
  cookie,              \* the browser holds a cookie the server accepts
  auth,                \* the auth store
  route,               \* the kind of page the address bar names
  request              \* per slot, the request in flight and its answer

vars == <<admin, cookie, auth, route, request>>

Route == {"private", "login", "setup"}
AuthState == [authenticated: BOOLEAN, setupRequired: BOOLEAN, loading: BOOLEAN, checked: BOOLEAN]
DefaultState == [authenticated |-> FALSE, setupRequired |-> FALSE, loading |-> FALSE, checked |-> FALSE]

Kind == {"check", "login", "setup", "logout", "page"}
Answer == {"yes", "no", "setup", "error"}
Request == [kind: Kind, cookie: BOOLEAN, answer: Answer \cup {"waiting"}]
Idle == [kind |-> "none", cookie |-> FALSE, answer |-> "waiting"]
Sent(kind) == [kind |-> kind, cookie |-> cookie, answer |-> "waiting"]

TypeOK ==
  /\ admin \in BOOLEAN /\ cookie \in BOOLEAN
  /\ auth \in AuthState
  /\ route \in Route
  /\ request \in [Slot -> Request \cup {Idle}]

\* A page load: the store starts over and the layout checks the session once.
Opened(r) ==
  /\ route' = r
  /\ auth' = [DefaultState EXCEPT !.loading = TRUE]
  /\ \E s \in Slot : request' = [t \in Slot |-> IF t = s THEN Sent("check") ELSE Idle]

Init ==
  /\ admin \in BOOLEAN /\ cookie \in BOOLEAN /\ (cookie => admin)
  /\ auth = [DefaultState EXCEPT !.loading = TRUE]
  /\ route \in Route
  /\ \E s \in Slot : request = [t \in Slot |-> IF t = s THEN Sent("check") ELSE Idle]

Free(s) == request[s] = Idle
\* The children of the layout are on screen.
Shown == auth.checked /\ route = "private"

-----------------------------------------------------------------------------
(* The browser sends.                                                       *)

\* A form is disabled, and its button spins, while the store is loading.
SubmitLogin(s) ==
  /\ Free(s) /\ auth.checked /\ route = "login" /\ ~auth.loading
  /\ request' = [request EXCEPT ![s] = Sent("login")]
  /\ auth' = [auth EXCEPT !.loading = TRUE]
  /\ UNCHANGED <<admin, cookie, route>>

SubmitSetup(s) ==
  /\ Free(s) /\ auth.checked /\ route = "setup" /\ ~auth.loading
  /\ request' = [request EXCEPT ![s] = Sent("setup")]
  /\ auth' = [auth EXCEPT !.loading = TRUE]
  /\ UNCHANGED <<admin, cookie, route>>

\* The account menu is there while the store knows the user.
Logout(s) ==
  /\ Free(s) /\ Shown /\ auth.authenticated
  /\ request' = [request EXCEPT ![s] = Sent("logout")]
  /\ UNCHANGED <<admin, cookie, auth, route>>

\* The page behind the guard polls the API.
Poll(s) ==
  /\ Free(s) /\ Shown
  /\ request' = [request EXCEPT ![s] = Sent("page")]
  /\ UNCHANGED <<admin, cookie, auth, route>>

Open ==
  /\ \E r \in Route : Opened(r)
  /\ UNCHANGED <<admin, cookie>>

-----------------------------------------------------------------------------
(* The server answers, or the answer is lost.                               *)

Reply(r) ==
  CASE r.kind = "check"  -> {IF ~admin THEN "setup" ELSE IF r.cookie THEN "yes" ELSE "no"}
    [] r.kind = "login"  -> IF admin THEN {"yes", "no"} ELSE {"no"}
    [] r.kind = "setup"  -> {IF admin THEN "no" ELSE "yes"}
    [] r.kind = "logout" -> {"yes"}
    [] r.kind = "page"   -> {IF r.cookie THEN "yes" ELSE "no"}

Serve(s) ==
  /\ ~Free(s) /\ request[s].answer = "waiting"
  /\ \E a \in Reply(request[s]) : request' = [request EXCEPT ![s].answer = a]
  /\ admin' = (admin \/ request[s].kind = "setup")
  /\ UNCHANGED <<cookie, auth, route>>

\* The network or the server fails, before the request is served or after it.
Lose(s) ==
  /\ ~Free(s) /\ request[s].answer # "error"
  /\ request' = [request EXCEPT ![s].answer = "error"]
  /\ UNCHANGED <<admin, cookie, auth, route>>

\* The token expires: the cookie, and the requests that carry it, stop counting.
Expire ==
  /\ cookie
  /\ cookie' = FALSE
  /\ request' = [s \in Slot |-> IF Free(s) THEN Idle ELSE [request[s] EXCEPT !.cookie = FALSE]]
  /\ UNCHANGED <<admin, auth, route>>

-----------------------------------------------------------------------------
(* The browser receives.                                                    *)

Answered(s, kind) == request[s].kind = kind /\ request[s].answer # "waiting"

\* mutant: a check that says no leaves the user on record
MutCheckedState(a, answer) ==
  [a EXCEPT !.authenticated = @ \/ answer = "yes", !.setupRequired = answer = "setup", !.loading = FALSE, !.checked = TRUE]
\* mutant: a check that fails counts as one that says no
MutCheckedStateOnError(a, answer) ==
  [authenticated |-> answer = "yes", setupRequired |-> answer = "setup", loading |-> FALSE, checked |-> TRUE]
CheckedState(a, answer) ==
  IF answer = "error" THEN [a EXCEPT !.loading = FALSE, !.checked = TRUE]
  ELSE [authenticated |-> answer = "yes", setupRequired |-> answer = "setup", loading |-> FALSE, checked |-> TRUE]

CheckDone(s) ==
  /\ Answered(s, "check")
  /\ auth' = CheckedState(auth, request[s].answer)
  /\ request' = [request EXCEPT ![s] = Idle]
  /\ UNCHANGED <<admin, cookie, route>>

\* login and setup: the cookie comes with the answer, and the form goes home.
SignedIn(s, kind) ==
  /\ Answered(s, kind)
  /\ request' = [request EXCEPT ![s] = Idle]
  /\ IF request[s].answer = "yes"
     THEN /\ cookie' = TRUE
          /\ auth' = [auth EXCEPT !.authenticated = TRUE, !.loading = FALSE,
                                  !.setupRequired = @ /\ kind # "setup"]
          /\ route' = "private"
     ELSE /\ auth' = [auth EXCEPT !.loading = FALSE]
          /\ UNCHANGED <<cookie, route>>
  /\ UNCHANGED admin

LoginDone(s) == SignedIn(s, "login")
SetupDone(s) == SignedIn(s, "setup")

\* "Ignore errors - we're logging out anyway".
LogoutDone(s) ==
  /\ Answered(s, "logout")
  /\ request' = [request EXCEPT ![s] = Idle]
  /\ cookie' = (cookie /\ request[s].answer = "error")
  /\ auth' = [DefaultState EXCEPT !.checked = TRUE]
  /\ route' = "login"
  /\ UNCHANGED admin

\* fetchJson: a 401 raises auth:unauthorized, and the layout checks the session.
PageDone(s) ==
  /\ Answered(s, "page")
  /\ IF request[s].answer = "no"
     THEN /\ request' = [request EXCEPT ![s] = Sent("check")]
          /\ auth' = [auth EXCEPT !.loading = TRUE]
     ELSE /\ request' = [request EXCEPT ![s] = Idle]
          /\ UNCHANGED auth
  /\ UNCHANGED <<admin, cookie, route>>

Redirect(a, r) ==
  CASE ~a.checked                           -> r
    [] a.checked /\ a.setupRequired         -> "setup"
    [] a.checked /\ ~a.setupRequired        -> IF a.authenticated THEN "private"
                                               ELSE IF r = "private" THEN "login" ELSE r

\* The guard effect of the layout.
Guard ==
  /\ Redirect(auth, route) # route
  /\ route' = Redirect(auth, route)
  /\ UNCHANGED <<admin, cookie, auth, request>>

-----------------------------------------------------------------------------
Receive(s) == CheckDone(s) \/ LoginDone(s) \/ SetupDone(s) \/ LogoutDone(s) \/ PageDone(s)

Next ==
  \/ \E s \in Slot : SubmitLogin(s) \/ SubmitSetup(s) \/ Logout(s) \/ Poll(s)
  \/ \E s \in Slot : Serve(s) \/ Lose(s) \/ Receive(s)
  \/ Guard
  \/ Open
  \/ Expire

Spec == Init /\ [][Next]_vars

\* Effects and timers of the browser run, no request hangs for ever, answers that came are
\* handled, and a server that is polled and asked for the session again and again answers at last.
Fairness ==
  /\ WF_vars(Guard)
  /\ WF_vars(\E s \in Slot : Poll(s))
  /\ \A s \in Slot : WF_vars(Serve(s) \/ (request[s].answer = "waiting" /\ Lose(s))) /\ WF_vars(Receive(s))
  /\ \A k \in {"check", "page"} :
       /\ SF_vars(\E s \in Slot : request[s].kind = k /\ Serve(s))
       /\ SF_vars(\E s \in Slot : request[s].kind = k /\ request[s].answer # "error" /\ Receive(s))
FairSpec == Spec /\ Fairness

-----------------------------------------------------------------------------
(* A page whose session is gone is left: the 401 of its next poll leads to a check, and     *)
(* the check to the sign-in or the set-up page, whatever else is in flight.                 *)
UnauthorizedLeaves == (Shown /\ ~cookie) ~> (~Shown \/ cookie)

(* A signed-in user is dropped only by signing out or by a check that was sent without the  *)
(* session: a failing server never ends it.                                                 *)
DroppedForCause ==
  [][auth.authenticated /\ cookie /\ ~auth'.authenticated /\ auth'.checked =>
       \E s \in Slot : \/ Answered(s, "logout") /\ request'[s] = Idle
                       \/ Answered(s, "check") /\ ~request[s].cookie /\ request'[s] = Idle]_vars
=============================================================================
