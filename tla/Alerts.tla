------------------------------- MODULE Alerts -------------------------------
(***************************************************************************)
(* alerts/engine.go and state.go: the leader evaluates every alert         *)
(* condition, sends one digest e-mail for all that changed and saves what  *)
(* it told, so that the next evaluation (or the next leader) goes on from  *)
(* there.                                                                  *)
(*                                                                         *)
(* The mail and the Redis hash are written one after the other: the send   *)
(* may fail, or fail after delivering (the SMTP QUIT does), the save may   *)
(* fail, the server may crash.  Leaders do not overlap (see LeaderLock).   *)
(* Times are ages counted in evaluations, saturating at MaxAge.            *)
(***************************************************************************)
EXTENDS Integers

CONSTANTS
  Condition,    \* (queue, rule) keys of conditions
  EventKey,     \* (queue, rule) keys of one-off events
  For,          \* how long each condition must hold before it fires
  Repeat,       \* repeat_interval, 0 for never
  MinEventInterval,
  SendResolved,
  MaxAge,       \* bound: ages saturate here
  FaultSets,    \* the sets of faults that may occur together
  NoState

FaultKind == {"send", "quit", "save", "drain", "crash"}
Throttle == IF Repeat > 0 THEN Repeat ELSE MinEventInterval
Age == 0..MaxAge

\* alertState: an entry holds the ages of since and lastNotified.
Entry == [firing : BOOLEAN, since : Age, notified : Age]

ASSUME AlertsAssumption ==
  /\ Condition \cap EventKey = {}
  /\ MaxAge \in Nat /\ For \in [Condition -> Age] /\ Repeat \in Age
  /\ MinEventInterval \in Age \ {0} /\ SendResolved \in BOOLEAN
  /\ FaultSets \subseteq SUBSET FaultKind /\ NoState \notin Entry

Key == Condition \cup EventKey
Watch(k) == IF k \in Condition THEN {"active", "inactive", "unwatched"} ELSE {"allowed", "unwatched"}
Watches == {"active", "inactive", "allowed", "unwatched"}

VARIABLES
  enabled,  \* alerting is on
  watch,    \* what a collection of the queues' health would find of each key
  events,   \* keys with events recorded
  state,    \* runqy:alerts:state
  told,     \* what the recipient last heard of a condition
  quiet,    \* age of the last e-mail about a key
  pc, view, drained, outcome,  \* an evaluation: its step, what it collected and drained, the send
  faults

world == <<enabled, watch, faults>>
inbox == <<told, quiet>>
vars == <<world, events, state, inbox, pc, view, drained, outcome>>

\* Entries of event keys only throttle: they never fire.
TypeOK ==
  /\ enabled \in BOOLEAN /\ faults \subseteq FaultKind
  /\ watch \in [Key -> Watches] /\ view \in [Key -> Watches]
  /\ events \subseteq EventKey /\ drained \subseteq EventKey
  /\ state \in [Key -> Entry \cup {NoState}]
  /\ \A k \in EventKey : state[k] = NoState \/ ~state[k].firing
  /\ told \in [Condition -> {"open", "closed"}] /\ quiet \in [Key -> Age]
  /\ pc \in {"idle", "drain", "send", "save"} /\ outcome \in {"none", "sent", "failed"}

Init ==
  /\ enabled = TRUE /\ faults \in FaultSets
  /\ watch = [k \in Key |-> IF k \in Condition THEN "inactive" ELSE "allowed"] /\ view = watch
  /\ events = {} /\ drained = {}
  /\ state = [k \in Key |-> NoState]
  /\ told = [k \in Condition |-> "closed"] /\ quiet = [k \in Key |-> MaxAge]
  /\ pc = "idle" /\ outcome = "none"

-----------------------------------------------------------------------------
(* planChanges: what one evaluation makes of the state, what it collected and drained *)

New == [firing |-> FALSE, since |-> 0, notified |-> MaxAge]

\* mutant: the condition's age is not carried over from the stored state
MutTracked(k) == New
\* The entry of an active condition, before its transition.
Tracked(k) == IF state[k] = NoState THEN New ELSE state[k]

Active(k) == k \in Condition /\ view[k] = "active"
Fires(k) == Active(k) /\ ~Tracked(k).firing /\ Tracked(k).since >= For[k]
Repeats(k) == Active(k) /\ Tracked(k).firing /\ Repeat > 0 /\ Tracked(k).notified >= Repeat
\* mutant: a firing alert whose queue is paused or removed is dropped without a word
MutResolves(k) ==
  k \in Condition /\ view[k] = "inactive" /\ state[k] # NoState /\ state[k].firing /\ SendResolved
\* The condition ended, or is no longer evaluated.
Resolves(k) ==
  k \in Condition /\ ~Active(k) /\ state[k] # NoState /\ state[k].firing /\ SendResolved

\* mutant: an event key is throttled for as long as its entry is there
MutThrottled(k) == state[k] # NoState
Throttled(k) == state[k] # NoState /\ state[k].notified < Throttle
Reports(k) == k \in drained /\ view[k] = "allowed" /\ ~Throttled(k)

Notes == {k \in Key : Fires(k) \/ Repeats(k) \/ Resolves(k) \/ Reports(k)}

ThrottleEntry == [firing |-> FALSE, since |-> 0, notified |-> 0]

\* mutant: a repeated alert keeps the time of its first e-mail
MutRepeated(e) == e
Fired(e) == [e EXCEPT !.firing = TRUE, !.notified = 0]
Repeated(e) == [e EXCEPT !.notified = 0]

\* change.next: what to save when the notes were sent or there were none.
NextState(k) ==
  CASE Fires(k) -> Fired(Tracked(k))
    [] Repeats(k) -> Repeated(Tracked(k))
    [] Active(k) /\ ~Fires(k) /\ ~Repeats(k) -> Tracked(k)
    [] Reports(k) -> ThrottleEntry
    [] k \in EventKey /\ ~Reports(k) /\ Throttled(k) -> state[k]
    [] OTHER -> NoState

\* mutant: a failed send is recorded like a successful one
MutFallback(k) == NextState(k)
\* change.fallback: what to save when the send failed.
Fallback(k) ==
  CASE Active(k) -> Tracked(k)
    [] Resolves(k) \/ Reports(k) \/ (k \in EventKey /\ Throttled(k)) -> state[k]
    [] OTHER -> NoState

-----------------------------------------------------------------------------
(* Evaluate *)

\* Read the settings, collect the queues' health, load the state (nobody else writes it).
\* When one of them fails the evaluation ends without a trace.
Collect ==
  /\ pc = "idle" /\ enabled
  /\ view' = watch
  /\ drained' = {} /\ outcome' = "none"
  /\ pc' = "drain"
  /\ UNCHANGED <<world, events, state, inbox>>

\* drainEvents reads and deletes the list; an error is only logged, executed or not.
DrainEvents ==
  /\ pc = "drain"
  /\ \/ drained' = events /\ events' = {}
     \/ "drain" \in faults /\ drained' = {} /\ events' \in {events, {}}
  /\ pc' = "send"
  /\ UNCHANGED <<world, state, inbox, view, outcome>>

Deliver ==
  /\ told' = [k \in Condition |-> IF Fires(k) \/ Repeats(k) THEN "open"
                                  ELSE IF Resolves(k) THEN "closed" ELSE told[k]]
  /\ quiet' = [k \in Key |-> IF k \in Notes THEN 0 ELSE quiet[k]]

\* One digest for all notes.  The error of the SMTP QUIT comes after the delivery.
Send ==
  /\ pc = "send"
  /\ \/ Notes = {} /\ outcome' = "none" /\ UNCHANGED inbox
     \/ Notes # {} /\ outcome' = "sent" /\ Deliver
     \/ Notes # {} /\ outcome' = "failed" /\ "send" \in faults /\ UNCHANGED inbox
     \/ Notes # {} /\ outcome' = "failed" /\ "quit" \in faults /\ Deliver
  /\ pc' = "save"
  /\ UNCHANGED <<world, events, state, view, drained>>

Outcome(k) == IF outcome = "failed" THEN Fallback(k) ELSE NextState(k)

\* One transaction; when it fails (the send may have used up the evaluation's context) it
\* may have been executed.
Save ==
  /\ pc = "save"
  /\ \/ state' = [k \in Key |-> Outcome(k)]
     \/ "save" \in faults /\ UNCHANGED state
  /\ pc' = "idle"
  /\ UNCHANGED <<world, events, inbox, view, drained, outcome>>

-----------------------------------------------------------------------------
(* Time, failures and the other components *)

Older(a) == IF a < MaxAge THEN a + 1 ELSE a
Aged(e) == [e EXCEPT !.since = Older(@), !.notified = Older(@)]

\* Time passes between evaluations (an evaluation has one now).
Tick ==
  /\ pc = "idle"
  /\ state' = [k \in Key |-> IF state[k] = NoState THEN NoState ELSE Aged(state[k])]
  /\ quiet' = [k \in Key |-> Older(quiet[k])]
  /\ UNCHANGED <<world, events, told, pc, view, drained, outcome>>

\* The server dies; the next leader starts from Redis.
Crash ==
  /\ "crash" \in faults /\ pc # "idle"
  /\ pc' = "idle"
  /\ UNCHANGED <<world, events, state, inbox, view, drained, outcome>>

\* EventRecorder.Record, called by the autoscaler.
Record(k) ==
  /\ events' = events \cup {k}
  /\ UNCHANGED <<world, state, inbox, pc, view, drained, outcome>>

\* A queue's health, its rules or its pause change.
Change(k) ==
  /\ \E w \in Watch(k) \ {watch[k]} : watch' = [watch EXCEPT ![k] = w]
  /\ UNCHANGED <<enabled, faults, events, state, inbox, pc, view, drained, outcome>>

SetEnabled ==
  /\ enabled' = ~enabled
  /\ UNCHANGED <<watch, faults, events, state, inbox, pc, view, drained, outcome>>

Evaluate == Collect \/ DrainEvents \/ Send \/ Save

Next ==
  \/ Evaluate \/ Tick \/ Crash \/ SetEnabled
  \/ \E k \in EventKey : Record(k)
  \/ \E k \in Key : Change(k)

Spec == Init /\ [][Next]_vars

\* The loop ticks and evaluates forever and is not cut short every time; a send or a save
\* tried again and again succeeds.
SendSucceeds == Send /\ outcome' # "failed"
SaveSucceeds == Save /\ state' = [k \in Key |-> Outcome(k)]
Fairness ==
  /\ SF_vars(Tick) /\ SF_vars(Collect) /\ SF_vars(DrainEvents)
  /\ SF_vars(SendSucceeds) /\ SF_vars(SaveSucceeds)
FairSpec == Spec /\ Fairness

-----------------------------------------------------------------------------
(* Properties *)

\* As long as no mail goes out unrecorded, what the recipient believes of a condition is what
\* the state says: no alert is sent twice as firing and none is forgotten while open.
Unrecorded == {"quit", "save", "crash"}
Firing(k) == state[k] # NoState /\ state[k].firing
InboxAgrees ==
  faults \cap Unrecorded = {} /\ pc # "save" =>
    \A k \in Condition : /\ Firing(k) => told[k] = "open"
                         /\ SendResolved /\ told[k] = "open" => Firing(k)

\* Under the same condition the recipient gets what Mailbox promises: an alert is announced
\* once, repeated at the interval while it lasts and closed once, and the e-mails about an
\* event key are Throttle apart, whichever sends fail and whoever evaluates.
Promise == INSTANCE Mailbox WITH recorded <- faults \cap Unrecorded = {}
ImplementsMailbox == Promise!Spec

\* A condition that stays active is open in the recipient's mind, whatever fails now and
\* then ("retries it"), as long as repeats are on.
ActiveIsTold ==
  Repeat > 0 => \A k \in Condition :
    <>[](enabled /\ watch[k] = "active") => <>[](told[k] = "open")

\* An alert that ended, or whose queue is paused, muted or removed, is closed: "so the
\* recipient is not left with an alert that never closes".
Closes == \A k \in Condition :
  <>[](enabled /\ watch[k] # "active") => <>[](told[k] = "closed")
EveryFiringCloses == SendResolved /\ faults \cap Unrecorded = {} => Closes

\* An event on a watched queue reaches the recipient, or one was e-mailed recently.
Reported == \A k \in EventKey :
  k \in events ~> (quiet[k] < Throttle \/ view[k] # "allowed" \/ ~enabled)
EventsReported == faults \cap {"send", "drain", "crash"} = {} => Reported
=============================================================================
