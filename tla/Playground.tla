------------------------------ MODULE Playground ------------------------------
(***************************************************************************)
(* The playground: tasks are sent, also again from the history while a     *)
(* send is under way, and those of the send answered last are followed by  *)
(* a poll.                                                                 *)
(***************************************************************************)
EXTENDS Naturals, FiniteSets

CONSTANTS
  MaxSends,      \* bound: sends
  Polling        \* polls that can be in flight at once

\* What the constants are assumed to be.
PlaygroundAssumption == MaxSends \in Nat

VARIABLES
  tasksOf,       \* per send, the state of its tasks on the server
  sent,          \* the sends made so far
  waiting,       \* those not answered
  sendingFlag,   \* sending
  history,       \* the history has entries, kept from earlier visits too
  answered,      \* the send answered last, or 0
  tracked,       \* the tasks followed, those of one send, and the state shown
  poll           \* per slot, a poll in flight: the tasks it asked for and their state

vars == <<tasksOf, sent, waiting, sendingFlag, history, answered, tracked, poll>>

Send == 1..MaxSends
\* One task stands for those of a send; it ends, and may be run again or go.
TaskState == {"none", "pending", "ended"}
NoTask == [send |-> 0, state |-> "none"]
TrackedTask == [send: 0..MaxSends, state: TaskState]
Idle == [kind |-> "idle"]
Poll == [kind: {"asked", "answered", "gone"}, task: TrackedTask]

TypeOK ==
  /\ tasksOf \in [Send -> TaskState]
  /\ sent \in 0..MaxSends /\ answered \in 0..MaxSends
  /\ waiting \subseteq Send
  /\ sendingFlag \in BOOLEAN /\ history \in BOOLEAN
  /\ tracked \in TrackedTask
  /\ poll \in [Polling -> Poll \cup {Idle}]

Init ==
  /\ tasksOf = [n \in Send |-> "none"]
  /\ sent = 0 /\ waiting = {} /\ sendingFlag = FALSE /\ answered = 0
  /\ history \in BOOLEAN
  /\ tracked = NoTask
  /\ poll = [p \in Polling |-> Idle]

-----------------------------------------------------------------------------
(* Sending.                                                                 *)

Sends ==
  /\ sent < MaxSends /\ sent' = sent + 1
  /\ waiting' = waiting \cup {sent'}
  /\ sendingFlag' = TRUE
  /\ UNCHANGED <<tasksOf, history, answered, tracked, poll>>

HandleSend == ~sendingFlag /\ Sends
\* An entry of the history is sent again: nothing guards it.
HandleResend == history /\ Sends

\* The tasks are enqueued, whether or not the answer gets back.
Enqueue(n) ==
  /\ n \in waiting /\ tasksOf[n] = "none"
  /\ tasksOf' = [tasksOf EXCEPT ![n] = "pending"]
  /\ UNCHANGED <<sent, waiting, sendingFlag, history, answered, tracked, poll>>

\* pollTracked reads the tasks that have not ended as shown.
PollTracked(p, t) ==
  poll' = [poll EXCEPT ![p] = IF t.send # 0 /\ t.state # "ended" THEN [kind |-> "asked", task |-> t] ELSE @]

\* The answer of a send: its tasks are tracked, with no state yet, and polled at once.
SendAnswered(n, p) ==
  /\ n \in waiting /\ tasksOf[n] # "none" /\ poll[p] = Idle
  /\ waiting' = waiting \ {n} /\ sendingFlag' = FALSE
  /\ answered' = n /\ history' = TRUE
  /\ tracked' = [send |-> n, state |-> "none"]
  /\ PollTracked(p, tracked')
  /\ UNCHANGED <<tasksOf, sent>>

\* Refused or lost: the flag falls, also while another send is under way.
SendFailed(n) ==
  /\ n \in waiting
  /\ waiting' = waiting \ {n} /\ sendingFlag' = FALSE
  /\ UNCHANGED <<tasksOf, sent, history, answered, tracked, poll>>

ClearHistory ==
  /\ history /\ history' = FALSE
  /\ UNCHANGED <<tasksOf, sent, waiting, sendingFlag, answered, tracked, poll>>

-----------------------------------------------------------------------------
(* Following.                                                               *)

PollTimer(p) ==
  /\ poll[p] = Idle
  /\ PollTracked(p, tracked)
  /\ UNCHANGED <<tasksOf, sent, waiting, sendingFlag, history, answered, tracked>>

\* getTask: the task as it is, or none.
Serve(p) ==
  /\ poll[p] # Idle /\ poll[p].kind = "asked"
  /\ \/ poll' = [poll EXCEPT ![p].kind = "answered", ![p].task.state = tasksOf[poll[p].task.send]]
     \/ poll' = [poll EXCEPT ![p].kind = "gone"]
  /\ UNCHANGED <<tasksOf, sent, waiting, sendingFlag, history, answered, tracked>>

\* mutant: the answers replace what is tracked
MutShown(t, u) == u
\* The answers are matched by id with the tasks tracked by now.
Shown(t, u) == IF u.send = t.send THEN u ELSE t

UpdatesArrive(p) ==
  /\ poll[p] # Idle /\ poll[p].kind # "asked"
  /\ tracked' = IF poll[p].kind = "answered" THEN Shown(tracked, poll[p].task) ELSE tracked
  /\ poll' = [poll EXCEPT ![p] = Idle]
  /\ UNCHANGED <<tasksOf, sent, waiting, sendingFlag, history, answered>>

\* A worker ends the task, or an operator runs it again.
TaskMoves(n) ==
  /\ tasksOf[n] # "none"
  /\ tasksOf' = [tasksOf EXCEPT ![n] = IF @ = "pending" THEN "ended" ELSE "pending"]
  /\ UNCHANGED <<sent, waiting, sendingFlag, history, answered, tracked, poll>>

Next ==
  \/ HandleSend \/ HandleResend \/ ClearHistory
  \/ \E n \in Send : Enqueue(n) \/ SendFailed(n) \/ TaskMoves(n)
  \/ \E n \in Send, p \in Polling : SendAnswered(n, p)
  \/ \E p \in Polling : PollTimer(p) \/ Serve(p) \/ UpdatesArrive(p)

Spec == Init /\ [][Next]_vars

-----------------------------------------------------------------------------
(* The batch followed is the one answered last: a poll asked for an earlier one brings back *)
(* neither its tasks nor their state.                                                       *)
FollowsLastSend == tracked.send = answered
=============================================================================
