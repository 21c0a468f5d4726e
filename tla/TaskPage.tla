------------------------------- MODULE TaskPage -------------------------------
(***************************************************************************)
(* The page that follows one task: it loads the task, arms a timer for the *)
(* next load when an answer comes, starts over when the address names      *)
(* another task, and loads at once after an action or a refresh.  Several  *)
(* loads can be in flight, and their answers come in any order.            *)
(***************************************************************************)
EXTENDS Naturals, FiniteSets

CONSTANTS
  Task,        \* task ids the address may name
  Slot,        \* loads that can be in flight at once
  OpenedIn,    \* the states, "gone" among them, a task may be in when the page opens
  MaxChanges,  \* bound: changes of a task on the server
  MaxClicks    \* bound: navigations, refreshes and actions of the user

VARIABLES
  server,      \* per task, the version and the state the server holds
  taskId,      \* the task the address names
  open,        \* the page is mounted
  generation,  \* bumped on every task change
  task,        \* what is on screen: a task with its version and state, or None
  notFound,    \* the page says that the task no longer exists
  timer,       \* the next load is armed, and stopTimer can clear it
  leaked,      \* armed loads that stopTimer no longer knows
  load,        \* per slot, a load in flight and its answer
  act,         \* the action in flight, or None
  clicks       \* clicks so far

vars == <<server, taskId, open, generation, task, notFound, timer, leaked, load, act, clicks>>
page == <<taskId, open, generation, task, notFound, timer, leaked>>

State == {"pending", "active", "retry", "archived", "completed"}
Gone == "gone"
Action == {"cancel", "run", "archive", "delete"}
None == [kind |-> "none"]
NoTask == [id |-> "none"]

\* What the constants are assumed to be.
TaskPageAssumption ==
  /\ MaxChanges \in Nat /\ MaxClicks \in Nat
  /\ OpenedIn \subseteq State \cup {Gone}
  /\ "none" \notin Task
Idle == [kind |-> "idle"]

Held == [ver: 0..MaxChanges, state: State \cup {Gone}]
Answer == Held \cup {[ver |-> 0, state |-> "waiting"], [ver |-> 0, state |-> "error"]}
Load == [kind: {"load"}, gen: 0..MaxClicks, id: Task, answer: Answer]
Seen == [id: Task, ver: 0..MaxChanges, state: State]
Act == [kind: Action, id: Task, answer: {"waiting", "done", "failed"}]

TypeOK ==
  /\ server \in [Task -> Held]
  /\ taskId \in Task
  /\ open \in BOOLEAN
  /\ generation \in 0..MaxClicks
  /\ task \in Seen \cup {NoTask}
  /\ notFound \in BOOLEAN
  /\ timer \in BOOLEAN
  /\ leaked \in Nat
  /\ load \in [Slot -> Load \cup {Idle}]
  /\ act \in Act \cup {None}
  /\ clicks \in 0..MaxClicks

Free(s) == load[s] = Idle
Asked(gen, id) == [kind |-> "load", gen |-> gen, id |-> id, answer |-> [ver |-> 0, state |-> "waiting"]]

Init ==
  /\ server \in [Task -> [ver: {0}, state: OpenedIn]]
  /\ taskId \in Task
  /\ open = TRUE /\ generation = 0 /\ task = NoTask /\ notFound = FALSE
  /\ timer = FALSE /\ leaked = 0
  /\ \E s \in Slot : load = [t \in Slot |-> IF t = s THEN Asked(0, taskId) ELSE Idle]
  /\ act = None /\ clicks = 0

Click == clicks < MaxClicks /\ clicks' = clicks + 1

-----------------------------------------------------------------------------
(* Loading.                                                                 *)

\* load(): clear the armed timer and ask for the task the address names.
StartLoad(s) ==
  /\ Free(s)
  /\ load' = [load EXCEPT ![s] = Asked(generation, taskId)]

\* The timer fires; one that leaked fires as well, and its load clears the other.
Fire(s) ==
  /\ StartLoad(s)
  /\ \/ timer /\ UNCHANGED leaked
     \/ leaked > 0 /\ leaked' = leaked - 1
  /\ timer' = FALSE
  /\ UNCHANGED <<server, taskId, open, generation, task, notFound, act, clicks>>

\* The Live indicator asks for a refresh.
Refresh(s) ==
  /\ open /\ Click
  /\ StartLoad(s)
  /\ timer' = FALSE
  /\ UNCHANGED <<server, taskId, open, generation, task, notFound, leaked, act>>

Waiting(s) == load[s] # Idle /\ load[s].answer.state = "waiting"

\* The server reads the task: found in its state, or a 404.
Serve(s) ==
  /\ Waiting(s)
  /\ load' = [load EXCEPT ![s].answer = server[load[s].id]]
  /\ UNCHANGED <<server, page, act, clicks>>

Fail(s) ==
  /\ Waiting(s)
  /\ load' = [load EXCEPT ![s].answer = [ver |-> 0, state |-> "error"]]
  /\ UNCHANGED <<server, page, act, clicks>>

\* mutant: answers for a previous task are shown
MutCurrent(l) == l.gen <= generation
Current(l) == l.gen = generation

\* What an answer puts on screen.
ShownAfter(l) ==
  CASE l.answer.state = Gone    -> NoTask
    [] l.answer.state = "error" -> task
    [] OTHER                    -> [id |-> l.id, ver |-> l.answer.ver, state |-> l.answer.state]
\* mutant: a failed load says that the task is gone
MutNotFoundAfter(l) == l.answer.state \in {Gone, "error"}
NotFoundAfter(l) == IF l.answer.state = "error" THEN notFound ELSE l.answer.state = Gone

\* The answer is shown and the next load armed, unless the task is gone; the answer of a
\* previous id is dropped.  Nothing here asks whether the page is still mounted.
Arrive(s) ==
  /\ load[s] # Idle /\ ~Waiting(s)
  /\ load' = [load EXCEPT ![s] = Idle]
  /\ IF Current(load[s])
     THEN /\ task' = ShownAfter(load[s])
          /\ notFound' = NotFoundAfter(load[s])
          /\ timer' = (timer \/ ~notFound')
          /\ leaked' = IF timer /\ ~notFound' THEN leaked + 1 ELSE leaked
     ELSE UNCHANGED <<task, notFound, timer, leaked>>
  /\ UNCHANGED <<server, taskId, open, generation, act, clicks>>

-----------------------------------------------------------------------------
(* Navigation.                                                              *)

\* The address names another task: start over.
Follow(s, id) ==
  /\ open /\ Click /\ id # taskId
  /\ taskId' = id /\ generation' = generation + 1
  /\ task' = NoTask /\ notFound' = FALSE
  /\ timer' = FALSE
  /\ Free(s)
  /\ load' = [load EXCEPT ![s] = Asked(generation + 1, id)]
  /\ UNCHANGED <<server, open, leaked, act>>

Leave ==
  /\ open /\ Click
  /\ open' = FALSE /\ timer' = FALSE
  /\ UNCHANGED <<server, taskId, generation, task, notFound, leaked, load, act>>

-----------------------------------------------------------------------------
(* Actions on the task on screen.                                           *)

Offered(s) ==
  (IF s = "active" THEN {"cancel"} ELSE {"delete"})
    \cup (IF s \in {"retry", "archived"} THEN {"run"} ELSE {})
    \cup (IF s \in {"pending", "retry"} THEN {"archive"} ELSE {})

\* One action at a time here: the page only blocks the button of the one in flight.
Choose(a) ==
  /\ open /\ task # NoTask /\ a \in Offered(task.state)
  /\ act = None /\ Click
  /\ act' = [kind |-> a, id |-> task.id, answer |-> "waiting"]
  /\ UNCHANGED <<server, page, load>>

\* Refused unless the task is still in a state the action applies to.
Applies(a, s) == s # Gone /\ a \in Offered(s)
Becomes(a, s) == CASE a = "run" -> "pending" [] a = "archive" -> "archived" [] a = "delete" -> Gone [] OTHER -> s

Changed(id, s) ==
  /\ server[id].ver < MaxChanges
  /\ server' = [server EXCEPT ![id] = [ver |-> @.ver + 1, state |-> s]]

Perform ==
  /\ act # None /\ act.answer = "waiting"
  /\ \/ /\ Applies(act.kind, server[act.id].state)
        /\ Changed(act.id, Becomes(act.kind, server[act.id].state))
        /\ act' = [act EXCEPT !.answer = "done"]
     \/ /\ act' = [act EXCEPT !.answer = "failed"]
        /\ UNCHANGED server
  /\ UNCHANGED <<page, load, clicks>>

\* A deleted task sends the user to the list; any other end resumes following.
ActEnds(s) ==
  /\ act # None /\ act.answer # "waiting"
  /\ act' = None
  /\ IF act.kind = "delete" /\ act.answer = "done"
     THEN open' = FALSE /\ timer' = FALSE /\ UNCHANGED load
     ELSE StartLoad(s) /\ timer' = FALSE /\ UNCHANGED open
  /\ UNCHANGED <<server, taskId, generation, task, notFound, leaked, clicks>>

\* The server moves a task on its own, or drops it; what is gone stays gone.
Move(id) ==
  /\ server[id].state # Gone
  /\ \E s \in (State \cup {Gone}) \ {server[id].state} : Changed(id, s)
  /\ UNCHANGED <<page, load, act, clicks>>

-----------------------------------------------------------------------------
Next ==
  \/ \E s \in Slot : Fire(s) \/ Refresh(s) \/ Serve(s) \/ Fail(s) \/ Arrive(s) \/ ActEnds(s)
  \/ \E s \in Slot, id \in Task : Follow(s, id)
  \/ \E a \in Action : Choose(a)
  \/ Leave
  \/ Perform
  \/ \E id \in Task : Move(id)

Spec == Init /\ [][Next]_vars

\* Timers fire, requests end, their answers are handled, and a server asked again and
\* again answers at last.
Fairness ==
  /\ WF_vars(\E s \in Slot : Fire(s))
  /\ \A s \in Slot : WF_vars(Serve(s) \/ Fail(s)) /\ WF_vars(Arrive(s))
  /\ SF_vars(\E s \in Slot : Serve(s) /\ Current(load[s]))
  /\ WF_vars(Perform) /\ WF_vars(\E s \in Slot : ActEnds(s))
FairSpec == Spec /\ Fairness

-----------------------------------------------------------------------------
(* "Bumped on every task change so answers for a previous id are dropped": the task on      *)
(* screen is the one the address names, whatever answers are still under way.               *)
ShownIsNamed == task # NoTask => task.id = taskId

Agrees == IF server[taskId].state = Gone THEN task = NoTask /\ notFound
          ELSE task = [id |-> taskId, ver |-> server[taskId].ver, state |-> server[taskId].state]

(* The page never stops following: once the user and the server rest, an open page ends up  *)
(* showing the state the server holds, whatever order the answers came in, and whichever    *)
(* timers were cleared, leaked or left unarmed on the way.                                  *)
FollowsToTheEnd == <>[](open => Agrees)
=============================================================================
