---------------------------- MODULE AlertsProofs ----------------------------
(***************************************************************************)
(* For any conditions, event keys and intervals: as long as no mail goes   *)
(* out unrecorded, the recipient's view of an alert is the stored one, and *)
(* the mails are the ones Mailbox promises.                                *)
(***************************************************************************)
EXTENDS Alerts, TLAPS

Open(e) == e # NoState /\ e.firing

LEMMA AgeFacts ==
  0 \in Age /\ MaxAge \in Age /\ \A a \in Age : Older(a) \in Age
  BY AlertsAssumption DEF AlertsAssumption, Age, Older

LEMMA EntryFacts ==
  /\ NoState \notin Entry
  /\ \A e \in Entry : e.firing \in BOOLEAN /\ e.notified \in Age
  /\ New \in Entry /\ ~New.firing
  /\ ThrottleEntry \in Entry /\ ~ThrottleEntry.firing /\ ThrottleEntry.notified = 0
  BY AgeFacts, AlertsAssumption DEF AlertsAssumption, Entry, New, ThrottleEntry

\* How an entry changes.
LEMMA EntrySteps ==
  ASSUME NEW e \in Entry
  PROVE  /\ Fired(e) \in Entry /\ Fired(e).firing
         /\ Repeated(e) \in Entry /\ Repeated(e).firing = e.firing
         /\ Aged(e) \in Entry /\ Aged(e).firing = e.firing /\ Aged(e).notified = Older(e.notified)
  BY AgeFacts DEF Entry, Fired, Repeated, Aged

LEMMA TrackedEntry ==
  ASSUME TypeOK, NEW k \in Key
  PROVE  Tracked(k) \in Entry /\ (Tracked(k).firing <=> Open(state[k]))
<1>1. CASE state[k] = NoState
  BY <1>1, EntryFacts DEF Tracked, Open
<1>2. CASE state[k] # NoState
  BY <1>2, EntryFacts DEF Tracked, TypeOK, Open
<1> QED
  BY <1>1, <1>2

\* What is saved of a condition is firing when it was, or fires now, and is still active.
LEMMA ConditionNext ==
  ASSUME TypeOK, NEW k \in Condition
  PROVE  /\ NextState(k) \in Entry \cup {NoState}
         /\ Open(NextState(k)) <=> Active(k) /\ (Fires(k) \/ Open(state[k]))
<1>1. k \in Key /\ k \notin EventKey /\ ~Reports(k)
  BY AlertsAssumption DEF AlertsAssumption, Key, Reports, TypeOK
<1>2. Tracked(k) \in Entry /\ (Tracked(k).firing <=> Open(state[k]))
  BY <1>1, TrackedEntry
<1>3. NoState \notin Entry
  BY AlertsAssumption DEF AlertsAssumption
<1>4. CASE Fires(k)
  <2>1. NextState(k) = Fired(Tracked(k))
    BY <1>4, <1>1 DEF NextState, Fires, Repeats
  <2> QED
    BY <1>2, <1>3, <1>4, <2>1, EntryFacts, EntrySteps DEF Open, Fires
<1>5. CASE Repeats(k)
  <2>1. NextState(k) = Repeated(Tracked(k)) /\ ~Fires(k)
    BY <1>5, <1>1 DEF NextState, Fires, Repeats
  <2> QED
    BY <1>2, <1>3, <1>5, <2>1, EntryFacts, EntrySteps DEF Open, Repeats
<1>6. CASE Active(k) /\ ~Fires(k) /\ ~Repeats(k)
  <2>1. NextState(k) = Tracked(k)
    BY <1>6, <1>1 DEF NextState
  <2> QED
    BY <1>2, <1>3, <1>6, <2>1 DEF Open
<1>7. CASE ~Active(k)
  <2>1. NextState(k) = NoState
    BY <1>7, <1>1 DEF NextState, Fires, Repeats
  <2> QED
    BY <1>7, <2>1 DEF Open, Fires
<1> QED
  BY <1>4, <1>5, <1>6, <1>7

LEMMA ConditionFallback ==
  ASSUME TypeOK, NEW k \in Condition
  PROVE  /\ Fallback(k) \in Entry \cup {NoState}
         /\ Open(Fallback(k)) => Open(state[k])
         /\ SendResolved /\ Open(state[k]) => Open(Fallback(k))
<1>1. k \in Key /\ k \notin EventKey /\ ~Reports(k) /\ state[k] \in Entry \cup {NoState}
  BY AlertsAssumption DEF AlertsAssumption, Key, Reports, TypeOK
<1>2. Tracked(k) \in Entry /\ (Tracked(k).firing <=> Open(state[k]))
  BY <1>1, TrackedEntry
<1>3. CASE Active(k)
  <2>1. Fallback(k) = Tracked(k)
    BY <1>1, <1>3 DEF Fallback, Resolves
  <2> QED
    BY <1>2, <2>1, EntryFacts DEF Open
<1>4. CASE ~Active(k) /\ Resolves(k)
  BY <1>1, <1>4 DEF Fallback
<1>5. CASE ~Active(k) /\ ~Resolves(k)
  <2>1. Fallback(k) = NoState
    BY <1>1, <1>5 DEF Fallback
  <2> QED
    BY <1>5, <2>1 DEF Open, Resolves
<1> QED
  BY <1>3, <1>4, <1>5

\* What is saved of an event key.
LEMMA EventNext ==
  ASSUME TypeOK, NEW k \in EventKey
  PROVE  /\ NextState(k) = IF Reports(k) THEN ThrottleEntry ELSE IF Throttled(k) THEN state[k] ELSE NoState
         /\ Fallback(k) = IF Reports(k) \/ Throttled(k) THEN state[k] ELSE NoState
<1>1. k \notin Condition
  BY AlertsAssumption DEF AlertsAssumption
<1>2. ~Active(k) /\ ~Fires(k) /\ ~Repeats(k) /\ ~Resolves(k)
  BY <1>1 DEF Active, Fires, Repeats, Resolves
<1>3. CASE Reports(k)
  BY <1>2, <1>3 DEF NextState, Fallback
<1>4. CASE ~Reports(k) /\ Throttled(k)
  BY <1>2, <1>4 DEF NextState, Fallback
<1>5. CASE ~Reports(k) /\ ~Throttled(k)
  BY <1>2, <1>5 DEF NextState, Fallback
<1> QED
  BY <1>3, <1>4, <1>5

\* Type correctness; the entry of an event key never fires.
THEOREM TypeTheorem == Spec => []TypeOK
<1>1. Init => TypeOK
  BY AlertsAssumption DEF Init, TypeOK, AlertsAssumption, Key, Watches, Age
<1>2. TypeOK /\ [Next]_vars => TypeOK'
  <2> SUFFICES ASSUME TypeOK, [Next]_vars PROVE TypeOK'
    OBVIOUS
  <2> USE DEF TypeOK, world, inbox
  <2>1. CASE Save
    <3>1. \A k \in Key : Outcome(k) \in Entry \cup {NoState}
      BY ConditionNext, ConditionFallback, EventNext, EntryFacts DEF Outcome, Key
    <3>2. \A k \in EventKey : Outcome(k) = NoState \/ ~Outcome(k).firing
      BY EventNext, EntryFacts DEF Outcome
    <3>3. state' \in [Key -> Entry \cup {NoState}]
      BY <2>1, <3>1 DEF Save
    <3>4. \A k \in EventKey : state'[k] = NoState \/ ~state'[k].firing
      BY <2>1, <3>2 DEF Save, Key
    <3> QED
      BY <2>1, <3>3, <3>4 DEF Save
  <2>2. CASE Tick
    <3>1. state' \in [Key -> Entry \cup {NoState}]
      BY <2>2, EntryFacts, EntrySteps DEF Tick
    <3>2. \A k \in EventKey : state'[k] = NoState \/ ~state'[k].firing
      BY <2>2, EntryFacts, EntrySteps DEF Tick, Key
    <3>3. quiet' \in [Key -> Age]
      BY <2>2, AgeFacts DEF Tick
    <3> QED
      BY <2>2, <3>1, <3>2, <3>3 DEF Tick
  <2>3. CASE Send
    <3>1. inbox' = inbox \/ Deliver
      BY <2>3 DEF Send
    <3>2. told' \in [Condition -> {"open", "closed"}] /\ quiet' \in [Key -> Age]
      BY <3>1, AgeFacts DEF Deliver
    <3> QED
      BY <2>3, <3>2 DEF Send
  <2>4. CASE Collect \/ DrainEvents \/ Crash \/ SetEnabled
    BY <2>4 DEF Collect, DrainEvents, Crash, SetEnabled
  <2>5. ASSUME NEW k \in EventKey, Record(k) PROVE TypeOK'
    BY <2>5 DEF Record
  <2>6. ASSUME NEW k \in Key, Change(k) PROVE TypeOK'
    BY <2>6 DEF Change, Watch, Watches
  <2>7. CASE UNCHANGED vars
    BY <2>7 DEF vars
  <2> QED
    BY <2>1, <2>2, <2>3, <2>4, <2>5, <2>6, <2>7 DEF Next, Evaluate
<1> QED
  BY <1>1, <1>2, PTL DEF Spec

LEMMA SameFaults ==
  ASSUME [Next]_vars
  PROVE  faults' = faults
  BY DEF Next, Evaluate, Collect, DrainEvents, Send, Save, Tick, Crash, Record, Change, SetEnabled,
    world, vars

-----------------------------------------------------------------------------
(* The recipient's view *)

Recorded == faults \cap Unrecorded = {}

\* The recipient's view agrees with entry e of condition k.
Agrees(k, e) == (Open(e) => told[k] = "open") /\ (SendResolved /\ told[k] = "open" => Open(e))

\* Between a send that did not fail and the save, it agrees with what will be saved.
AgreeInv ==
  \A k \in Condition : IF pc = "save" /\ outcome # "failed" THEN Agrees(k, NextState(k))
                                                           ELSE Agrees(k, state[k])

\* What a note of a sent digest tells is what is saved.
LEMMA DeliveredAgrees ==
  ASSUME TypeOK, NEW k \in Condition, Agrees(k, state[k]),
         told'[k] = IF Fires(k) \/ Repeats(k) THEN "open" ELSE IF Resolves(k) THEN "closed" ELSE told[k]
  PROVE  /\ Open(NextState(k)) => told'[k] = "open"
         /\ SendResolved /\ told'[k] = "open" => Open(NextState(k))
<1>1. k \in Key
  BY DEF Key
<1>2. Tracked(k).firing <=> Open(state[k])
  BY <1>1, TrackedEntry
<1>3. Open(NextState(k)) <=> Active(k) /\ (Fires(k) \/ Open(state[k]))
  BY ConditionNext
<1> QED
  BY <1>2, <1>3 DEF Agrees, Fires, Repeats, Resolves, Open

LEMMA AgreeStep ==
  ASSUME TypeOK, Recorded, AgreeInv, [Next]_vars
  PROVE  AgreeInv'
<1> USE DEF AgreeInv, Agrees, world, inbox
<1>1. CASE Save
  <2>1. pc = "save" /\ pc' = "idle" /\ told' = told /\ state' = [k \in Key |-> Outcome(k)]
    BY <1>1 DEF Save, Recorded, Unrecorded
  <2>2. \A k \in Condition : state'[k] = Outcome(k)
    BY <2>1 DEF Key
  <2>3. ASSUME NEW k \in Condition PROVE Agrees(k, Outcome(k))
    BY <2>1, ConditionFallback DEF Outcome
  <2> QED
    BY <2>1, <2>2, <2>3 DEF Open
<1>2. CASE Send
  <2>1. pc = "send" /\ pc' = "save" /\ UNCHANGED <<state, view, drained>>
    BY <1>2 DEF Send
  <2>2. \A k \in Condition : NextState(k)' = NextState(k)
    BY <2>1 DEF NextState, Fires, Repeats, Active, Tracked, Reports, Throttled
  <2>3. CASE outcome' = "failed" /\ told' = told
    BY <2>1, <2>3 DEF Open
  <2>4. CASE Notes = {} /\ told' = told /\ outcome' # "failed"
    <3>1. \A k \in Condition : ~Fires(k) /\ ~Repeats(k) /\ ~Resolves(k)
      BY <2>4 DEF Notes, Key
    <3> QED
      BY <2>1, <2>2, <2>4, <3>1, DeliveredAgrees DEF Open
  <2>5. CASE Deliver /\ outcome' # "failed"
    <3>1. \A k \in Condition : told'[k] = IF Fires(k) \/ Repeats(k) THEN "open"
                                          ELSE IF Resolves(k) THEN "closed" ELSE told[k]
      BY <2>5 DEF Deliver
    <3> QED
      BY <2>1, <2>2, <2>5, <3>1, DeliveredAgrees DEF Open
  <2> QED
    BY <1>2, <2>3, <2>4, <2>5 DEF Send, Recorded, Unrecorded
<1>3. CASE Tick
  <2>1. \A k \in Condition : Open(state'[k]) <=> Open(state[k])
    BY <1>3, EntryFacts, EntrySteps DEF Tick, Open, TypeOK, Key
  <2> QED
    BY <1>3, <2>1 DEF Tick, Open
<1>4. CASE Collect \/ DrainEvents \/ Crash
  BY <1>4 DEF Collect, DrainEvents, Crash, Open, Recorded, Unrecorded
<1>5. ASSUME NEW j \in Key, SetEnabled \/ (j \in EventKey /\ Record(j)) \/ Change(j) \/ UNCHANGED vars
      PROVE  AgreeInv'
  BY <1>5 DEF SetEnabled, Record, Change, vars, Open, NextState, Fires, Repeats, Active, Tracked,
    Reports, Throttled
<1>6. ASSUME SetEnabled \/ UNCHANGED vars PROVE AgreeInv'
  BY <1>6 DEF SetEnabled, vars, Open, NextState, Fires, Repeats, Active, Tracked, Reports, Throttled
<1> QED
  BY <1>1, <1>2, <1>3, <1>4, <1>5, <1>6 DEF Next, Evaluate, Key

\* As long as no mail goes out unrecorded, no alert is sent twice as firing and none is
\* forgotten while the recipient believes it open.
THEOREM InboxAgreesTheorem == Spec => []InboxAgrees
<1>1. Init => AgreeInv
  BY DEF Init, AgreeInv, Agrees, Open, Key
<1>2. TypeOK /\ (Recorded => AgreeInv) /\ [Next]_vars => (Recorded => AgreeInv)'
  BY AgreeStep, SameFaults DEF Recorded
<1>3. (Recorded => AgreeInv) => InboxAgrees
  BY DEF Recorded, AgreeInv, Agrees, InboxAgrees, Firing, Open
<1> QED
  BY <1>1, <1>2, <1>3, TypeTheorem, PTL DEF Spec

-----------------------------------------------------------------------------
(* The last mail *)

\* Entry e of key k knows of the last mail, or that is a throttle interval ago; the one of
\* a condition only while it fires.
Remembers(k, e) ==
  IF k \in EventKey /\ e = NoState THEN quiet[k] >= Throttle
  ELSE k \in EventKey \/ Open(e) => e.notified <= quiet[k]

QuietInv ==
  \A k \in Key : Remembers(k, IF pc = "save" /\ outcome # "failed" THEN NextState(k) ELSE state[k])

LEMMA ThrottleAge == Throttle \in Age /\ Age \subseteq Int /\ 0 <= Throttle /\ Throttle <= MaxAge
  BY AlertsAssumption DEF AlertsAssumption, Age, Throttle

LEMMA OlderGrows ==
  ASSUME NEW a \in Age, NEW b \in Age, a <= b
  PROVE  Older(a) <= Older(b) /\ b <= Older(b)
  BY AlertsAssumption DEF AlertsAssumption, Age, Older

\* What an evaluation keeps or forgets of an event key.
LEMMA EventRemembers ==
  ASSUME TypeOK, NEW k \in EventKey, Remembers(k, state[k])
  PROVE  /\ Remembers(k, Fallback(k))
         /\ k \notin Notes => Remembers(k, NextState(k))
         /\ k \in Notes => Reports(k) /\ NextState(k) = ThrottleEntry /\ quiet[k] >= Throttle
<1>1. k \in Key /\ quiet[k] \in Age /\ state[k] \in Entry \cup {NoState}
  BY DEF TypeOK, Key
<1>2. state[k] # NoState => state[k].notified \in Age /\ state[k].notified <= quiet[k]
  BY <1>1, EntryFacts DEF Remembers
<1>3. ~Throttled(k) => quiet[k] >= Throttle
  <2>1. CASE state[k] = NoState
    BY <2>1 DEF Remembers
  <2>2. CASE state[k] # NoState
    <3>1. state[k].notified \in Int /\ quiet[k] \in Int /\ Throttle \in Int
      BY <1>1, <1>2, <2>2, ThrottleAge
    <3> QED
      BY <1>2, <2>2, <3>1 DEF Throttled
  <2> QED
    BY <2>1, <2>2
<1>4. k \in Notes <=> Reports(k)
  BY <1>1, AlertsAssumption DEF AlertsAssumption, Notes, Fires, Repeats, Resolves, Active
<1> QED
  BY <1>1, <1>3, <1>4, EventNext DEF Remembers, Reports

\* What an evaluation keeps or forgets of a condition.
LEMMA ConditionRemembers ==
  ASSUME TypeOK, NEW k \in Condition, Remembers(k, state[k])
  PROVE  /\ Remembers(k, Fallback(k))
         /\ k \notin Notes => Remembers(k, NextState(k))
         /\ k \in Notes /\ Open(NextState(k)) => NextState(k).notified = 0
         /\ Repeats(k) => Open(state[k]) /\ quiet[k] >= Repeat
<1>1. k \in Key /\ k \notin EventKey /\ quiet[k] \in Age /\ state[k] \in Entry \cup {NoState}
  BY AlertsAssumption DEF AlertsAssumption, TypeOK, Key
<1>2. Tracked(k).firing <=> Open(state[k])
  BY <1>1, TrackedEntry
<1>3. Open(state[k]) => Tracked(k) = state[k] /\ state[k].notified \in Age /\ state[k].notified <= quiet[k]
  BY <1>1, EntryFacts DEF Remembers, Open, Tracked
<1>4. ~Open(Tracked(k)) \/ Tracked(k) = state[k]
  BY EntryFacts DEF Open, Tracked
<1>5. Open(NextState(k)) <=> Active(k) /\ (Fires(k) \/ Open(state[k]))
  BY ConditionNext
<1>6. Remembers(k, Fallback(k))
  <2>1. Fallback(k) = Tracked(k) \/ Fallback(k) = state[k] \/ Fallback(k) = NoState
    BY DEF Fallback
  <2> QED
    BY <1>1, <1>4, <2>1 DEF Remembers, Open
<1>7. k \notin Notes => Remembers(k, NextState(k))
  <2>1. ASSUME k \notin Notes, Active(k) PROVE NextState(k) = Tracked(k)
    BY <1>1, <2>1 DEF NextState, Notes
  <2> QED
    BY <1>1, <1>4, <1>5, <2>1 DEF Remembers, Open
<1>8. ASSUME Fires(k) \/ Repeats(k) PROVE NextState(k).notified = 0
  <2>1. NextState(k) = Fired(Tracked(k)) \/ NextState(k) = Repeated(Tracked(k))
    <3>1. CASE Fires(k)
      <4>1. Active(k) /\ ~Repeats(k) /\ ~Reports(k)
        BY <1>1, <3>1 DEF Fires, Repeats, Reports, TypeOK
      <4> QED
        BY <1>1, <3>1, <4>1 DEF NextState
    <3>2. CASE Repeats(k)
      <4>1. Active(k) /\ ~Fires(k) /\ ~Reports(k)
        BY <1>1, <3>2 DEF Fires, Repeats, Reports, TypeOK
      <4> QED
        BY <1>1, <3>2, <4>1 DEF NextState
    <3> QED
      BY <1>8, <3>1, <3>2
  <2>2. Tracked(k) \in Entry
    BY <1>1, TrackedEntry
  <2> QED
    BY <2>1, <2>2 DEF Fired, Repeated, Entry
<1>9. k \in Notes /\ Open(NextState(k)) => Fires(k) \/ Repeats(k)
  <2>1. ~Reports(k)
    BY <1>1 DEF Reports, TypeOK
  <2> QED
    BY <1>5, <2>1 DEF Notes, Resolves
<1>10. Repeats(k) => Open(state[k]) /\ quiet[k] >= Repeat
  <2>1. Repeat \in Int /\ quiet[k] \in Int /\ (Open(state[k]) => state[k].notified \in Int)
    BY <1>1, <1>3, ThrottleAge, AlertsAssumption DEF AlertsAssumption
  <2> QED
    BY <1>2, <1>3, <2>1 DEF Repeats
<1> QED
  BY <1>6, <1>7, <1>8, <1>9, <1>10

\* What is stored knows of the last mail, through every step of the evaluation.
LEMMA QuietStep ==
  ASSUME TypeOK, Recorded, QuietInv, [Next]_vars
  PROVE  QuietInv'
<1> USE DEF QuietInv, world, inbox
<1>1. CASE Save
  <2>1. pc = "save" /\ pc' = "idle" /\ quiet' = quiet /\ state' = [k \in Key |-> Outcome(k)]
    BY <1>1 DEF Save, Recorded, Unrecorded
  <2>2. ASSUME NEW k \in Key PROVE Remembers(k, Outcome(k))
    BY <2>1, EventRemembers, ConditionRemembers DEF Outcome, Key
  <2> QED
    BY <2>1, <2>2 DEF Remembers, Open
<1>2. CASE Send
  <2>1. pc = "send" /\ pc' = "save" /\ UNCHANGED <<state, view, drained>>
    BY <1>2 DEF Send
  <2>2. \A k \in Key : NextState(k)' = NextState(k)
    BY <2>1 DEF NextState, Fires, Repeats, Active, Tracked, Reports, Throttled
  <2>3. CASE outcome' = "failed" /\ quiet' = quiet
    BY <2>1, <2>3 DEF Remembers, Open
  <2>4. CASE Notes = {} /\ quiet' = quiet /\ outcome' # "failed"
    <3>1. \A k \in Key : Remembers(k, NextState(k))
      BY <2>1, <2>4, EventRemembers, ConditionRemembers DEF Key
    <3> QED
      BY <2>1, <2>2, <2>4, <3>1 DEF Remembers, Open
  <2>5. CASE Deliver /\ outcome' # "failed"
    <3>1. \A k \in Key : quiet'[k] = IF k \in Notes THEN 0 ELSE quiet[k]
      BY <2>5 DEF Deliver
    <3>2. ASSUME NEW k \in Key, k \notin Notes PROVE Remembers(k, NextState(k))
      BY <2>1, <3>2, EventRemembers, ConditionRemembers DEF Key
    <3>3. ASSUME NEW k \in Key, k \in Notes, k \in EventKey \/ Open(NextState(k))
          PROVE  NextState(k) # NoState /\ NextState(k).notified = 0
      BY <2>1, <3>3, EventRemembers, ConditionRemembers, EntryFacts DEF Key, Open
    <3>4. ASSUME NEW k \in Key
          PROVE  Remembers(k, NextState(k))'
      <4>1. CASE k \in Notes
        <5>1. quiet'[k] = 0
          BY <3>1, <4>1
        <5> QED
          BY <2>2, <3>3, <4>1, <5>1 DEF Remembers, Open
      <4>2. CASE k \notin Notes
        BY <2>2, <3>1, <3>2, <4>2 DEF Remembers, Open
      <4> QED
        BY <4>1, <4>2
    <3> QED
      BY <2>1, <2>5, <3>4
  <2> QED
    BY <1>2, <2>3, <2>4, <2>5 DEF Send, Recorded, Unrecorded
<1>3. CASE Tick
  <2>1. pc = "idle" /\ pc' = "idle"
    BY <1>3 DEF Tick
  <2>2. ASSUME NEW k \in Key
        PROVE  Remembers(k, state[k])'
    <3>1. quiet[k] \in Age /\ state[k] \in Entry \cup {NoState} /\ quiet'[k] = Older(quiet[k])
      BY <1>3 DEF TypeOK, Tick
    <3>2. quiet[k] <= quiet'[k] /\ quiet'[k] \in Age
      <4>1. quiet[k] \in Int
        BY <3>1, ThrottleAge
      <4>2. quiet[k] <= quiet[k]
        BY <4>1
      <4> QED
        BY <3>1, <4>2, OlderGrows, AgeFacts
    <3>3. CASE state[k] = NoState
      <4>1. state'[k] = NoState /\ (k \in EventKey => quiet[k] >= Throttle)
        BY <1>3, <2>1, <3>3 DEF Tick, Remembers
      <4>2. k \in EventKey => quiet'[k] >= Throttle
        <5>1. quiet[k] \in Int /\ quiet'[k] \in Int /\ Throttle \in Int
          BY <3>1, <3>2, ThrottleAge
        <5> QED
          BY <3>2, <4>1, <5>1
      <4>3. Throttle' = Throttle
        BY DEF Throttle
      <4> QED
        BY <4>1, <4>2, <4>3 DEF Remembers, Open
    <3>4. CASE state[k] # NoState
      <4>1. /\ state'[k] = Aged(state[k]) /\ state'[k] \in Entry
            /\ state'[k].firing = state[k].firing /\ state'[k].notified = Older(state[k].notified)
        BY <1>3, <3>1, <3>4, EntrySteps DEF Tick
      <4>2. ASSUME k \in EventKey \/ Open(state[k]) PROVE state'[k].notified <= quiet'[k]
        <5>1. state[k].notified <= quiet[k] /\ state[k].notified \in Age
          BY <2>1, <3>1, <3>4, <4>2, EntryFacts DEF Remembers
        <5> QED
          BY <3>1, <4>1, <5>1, OlderGrows
      <4> QED
        BY <3>4, <4>1, <4>2, EntryFacts DEF Remembers, Open
    <3> QED
      BY <3>3, <3>4
  <2> QED
    BY <2>1, <2>2
<1>4. CASE Collect \/ DrainEvents \/ Crash
  BY <1>4 DEF Collect, DrainEvents, Crash, Remembers, Open, Recorded, Unrecorded
<1>5. ASSUME NEW j \in Key, (j \in EventKey /\ Record(j)) \/ Change(j)
      PROVE  QuietInv'
  BY <1>5 DEF Record, Change, Remembers, Open, NextState, Fires, Repeats, Active, Tracked, Reports, Throttled
<1>6. ASSUME SetEnabled \/ UNCHANGED vars PROVE QuietInv'
  BY <1>6 DEF SetEnabled, vars, Remembers, Open, NextState, Fires, Repeats, Active, Tracked, Reports, Throttled
<1> QED
  BY <1>1, <1>2, <1>3, <1>4, <1>5, <1>6 DEF Next, Evaluate, Key

-----------------------------------------------------------------------------
(* The mails *)

Announced == {k \in Condition : Fires(k)}
Repeating == {k \in Condition : Repeats(k)}
Closed == {k \in Condition : Resolves(k)}
Reporting == {k \in EventKey : Reports(k)}

\* One digest is one mail of Mailbox, due when the recipient's view and the last mail are
\* what is stored.
LEMMA DeliverMails ==
  ASSUME TypeOK, Recorded => AgreeInv /\ QuietInv, pc = "send", Deliver, faults' = faults
  PROVE  Promise!Mail(Announced, Repeating, Closed, Reporting)
<1>1. /\ Announced \cap Closed = {} /\ Repeating \cap (Announced \cup Closed) = {}
  BY DEF Announced, Repeating, Closed, Fires, Repeats, Resolves
<1>2. ASSUME Recorded
      PROVE  /\ \A k \in Announced : Promise!MayAnnounce(k)
             /\ \A k \in Repeating : Promise!MayRepeat(k)
             /\ \A k \in Closed : Promise!MayClose(k)
             /\ \A k \in Reporting : Promise!MayReport(k)
  <2>1. ASSUME NEW k \in Condition
        PROVE  /\ Agrees(k, state[k]) /\ Remembers(k, state[k]) /\ told[k] \in {"open", "closed"}
               /\ Tracked(k).firing <=> Open(state[k])
    BY <1>2, TrackedEntry DEF AgreeInv, QuietInv, Key, TypeOK
  <2>2. \A k \in Announced : Promise!MayAnnounce(k)
    BY <2>1 DEF Announced, Fires, Agrees, Promise!MayAnnounce
  <2>3. \A k \in Repeating : Promise!MayRepeat(k)
    BY <2>1, ConditionRemembers DEF Repeating, Repeats, Agrees, Promise!MayRepeat
  <2>4. \A k \in Closed : Promise!MayClose(k)
    BY <2>1 DEF Closed, Resolves, Agrees, Open, Promise!MayClose
  <2>5. ASSUME NEW k \in Reporting PROVE Promise!MayReport(k)
    <3>1. k \in EventKey /\ k \in Notes /\ Remembers(k, state[k])
      BY <1>2, <2>5 DEF Reporting, Notes, Key, QuietInv
    <3> QED
      BY <3>1, EventRemembers DEF Promise!MayReport
  <2> QED
    BY <2>2, <2>3, <2>4, <2>5
<1>3. told' = [k \in Condition |-> IF k \in Announced \cup Repeating THEN "open"
                                   ELSE IF k \in Closed THEN "closed" ELSE told[k]]
  BY DEF Deliver, Announced, Repeating, Closed
<1>4. \A k \in Key : k \in Notes <=> k \in Announced \cup Repeating \cup Closed \cup Reporting
  BY DEF Notes, Announced, Repeating, Closed, Reporting, Key, Fires, Repeats, Resolves, Active, Reports, TypeOK
<1>5. quiet' = [k \in Promise!Key |-> IF k \in Announced \cup Repeating \cup Closed \cup Reporting
                                      THEN 0 ELSE quiet[k]]
  BY <1>4 DEF Deliver, Key, Promise!Key
<1> QED
  BY <1>1, <1>2, <1>3, <1>5 DEF Promise!Mail, Recorded

\* Every step of the engine is a mail, the passing of time or nothing to the recipient.
LEMMA MailStep ==
  ASSUME TypeOK, Recorded => AgreeInv /\ QuietInv, [Next]_vars
  PROVE  [Promise!Next]_(Promise!vars)
<1>1. faults' = faults
  BY SameFaults
<1>2. CASE Send
  <2>1. CASE inbox' = inbox
    BY <1>1, <2>1 DEF inbox, Promise!vars
  <2>2. CASE Deliver
    <3>1. Promise!Mail(Announced, Repeating, Closed, Reporting)
      BY <1>1, <1>2, <2>2, DeliverMails DEF Send
    <3>2. Announced \in SUBSET Condition /\ Repeating \in SUBSET Condition
          /\ Closed \in SUBSET Condition /\ Reporting \in SUBSET EventKey
      BY DEF Announced, Repeating, Closed, Reporting
    <3> QED
      BY <3>1, <3>2 DEF Promise!Next
  <2> QED
    BY <1>2, <2>1, <2>2 DEF Send
<1>3. CASE Tick
  <2>1. quiet' = [k \in Promise!Key |-> IF quiet[k] < MaxAge THEN quiet[k] + 1 ELSE quiet[k]]
    BY <1>3 DEF Tick, Older, Key, Promise!Key
  <2> QED
    BY <1>1, <1>3, <2>1 DEF Tick, Promise!Next, Promise!Pass
<1>4. CASE ~Send /\ ~Tick
  <2>1. told' = told /\ quiet' = quiet
    BY <1>4 DEF Next, Evaluate, Collect, DrainEvents, Save, Crash, Record, Change, SetEnabled, inbox, vars
  <2> QED
    BY <1>1, <2>1 DEF Promise!vars
<1> QED
  BY <1>2, <1>3, <1>4

\* The engine implements Mailbox: as long as no mail goes out unrecorded, an alert is
\* announced once, repeated at the interval while it lasts and closed once, and the mails
\* about an event key are Throttle apart.
THEOREM MailboxTheorem == Spec => ImplementsMailbox
<1>1. Init => AgreeInv /\ QuietInv
  BY ThrottleAge DEF Init, AgreeInv, Agrees, Open, QuietInv, Remembers, Key
<1>2. TypeOK /\ (Recorded => AgreeInv /\ QuietInv) /\ [Next]_vars => (Recorded => AgreeInv /\ QuietInv)'
  BY AgreeStep, QuietStep, SameFaults DEF Recorded
<1>3. Init => Promise!Init
  BY DEF Init, Key, Promise!Init, Promise!Key
<1>4. TypeOK /\ (Recorded => AgreeInv /\ QuietInv) /\ [Next]_vars => [Promise!Next]_(Promise!vars)
  BY MailStep
<1> QED
  BY <1>1, <1>2, <1>3, <1>4, TypeTheorem, PTL DEF Spec, ImplementsMailbox, Promise!Spec
=============================================================================
