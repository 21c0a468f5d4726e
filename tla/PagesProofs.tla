----------------------------- MODULE PagesProofs -----------------------------
(***************************************************************************)
(* What the pages of MCPages show and send, for any number of requests in  *)
(* flight, clicks and tasks.  One section per page: the invariant of the   *)
(* page, that it holds of the page as it is opened and of one that is not, *)
(* and that every step of the page keeps it.  The last section puts the    *)
(* pages together.                                                         *)
(***************************************************************************)
EXTENDS MCPages, TLAPS

(* The page of a task.  A load of this generation asked for the task named now, and no     *)
(* load is of a generation to come.                                                         *)
NamedBy(l) == l.gen <= generation /\ (Current(l) => l.id = taskId)
LoadsNamed == \A s \in Slot : ~Free(s) => NamedBy(load[s])
\* Every change of task is a click.
Bounded == generation <= clicks
PageInv == TypeOK /\ Bounded /\ LoadsNamed /\ ShownIsNamed

LEMMA AskedType ==
  ASSUME TaskPageAssumption, NEW g \in 0..MaxClicks, NEW id \in Task
  PROVE  Asked(g, id) \in Load /\ Asked(g, id).gen = g /\ Asked(g, id).id = id /\ Asked(g, id) # Idle
BY DEF TaskPageAssumption, Asked, Load, Answer, Held, Idle

\* A load that starts asks for the task named by the state it starts from.
LEMMA StartNamed ==
  ASSUME TaskPageAssumption, PageInv, NEW s \in Slot, NEW g \in 0..MaxClicks, NEW id \in Task,
         load' = [load EXCEPT ![s] = Asked(g, id)],
         generation' = g, taskId' = id, g = generation => id = taskId, g >= generation
  PROVE  load' \in [Slot -> Load \cup {Idle}] /\ LoadsNamed'
<1>1. Asked(g, id) \in Load /\ Asked(g, id).gen = g /\ Asked(g, id).id = id
  BY AskedType
<1>2. load' \in [Slot -> Load \cup {Idle}]
  BY <1>1 DEF PageInv, TypeOK
<1>3. ASSUME NEW t \in Slot, ~Free(t)' PROVE NamedBy(load[t])'
  <2>1. CASE t = s
    BY <2>1, <1>1 DEF NamedBy, Current, PageInv, TypeOK
  <2>2. CASE t # s
    <3>1. load'[t] = load[t] /\ ~Free(t)
      BY <2>2, <1>3 DEF PageInv, TypeOK, Free
    <3>2. NamedBy(load[t]) /\ load[t].gen \in Nat /\ generation \in Nat
      BY <3>1 DEF PageInv, TypeOK, LoadsNamed, Free, Load
    <3> QED
      BY <3>1, <3>2 DEF NamedBy, Current
  <2> QED
    BY <2>1, <2>2
<1> QED
  BY <1>2, <1>3 DEF LoadsNamed

LEMMA InitInv ==
  ASSUME TaskPageAssumption
  PROVE  Init => PageInv
<1> SUFFICES ASSUME Init PROVE PageInv
  OBVIOUS
<1> USE DEF TaskPageAssumption
<1>1. PICK s \in Slot : load = [t \in Slot |-> IF t = s THEN Asked(0, taskId) ELSE Idle]
  BY DEF Init
<1>2. Asked(0, taskId) \in Load /\ Asked(0, taskId).gen = 0 /\ Asked(0, taskId).id = taskId
  BY AskedType DEF Init
<1>3. load \in [Slot -> Load \cup {Idle}]
  BY <1>1, <1>2
<1>4. server \in [Task -> Held]
  BY DEF Init, Held
<1>5. TypeOK
  <2>1. taskId \in Task /\ open \in BOOLEAN /\ notFound \in BOOLEAN /\ timer \in BOOLEAN
    BY DEF Init
  <2>2. generation \in 0..MaxClicks /\ clicks \in 0..MaxClicks /\ leaked \in Nat
    BY DEF Init
  <2>3. task \in Seen \cup {NoTask} /\ act \in Act \cup {None}
    BY DEF Init
  <2> QED
    BY <1>3, <1>4, <2>1, <2>2, <2>3 DEF TypeOK
<1>6. Bounded /\ ShownIsNamed
  BY DEF Init, Bounded, ShownIsNamed
<1>7. LoadsNamed
  BY <1>1, <1>2 DEF LoadsNamed, NamedBy, Current, Free, Init
<1> QED
  BY <1>5, <1>6, <1>7 DEF PageInv

\* What is shown is the answer to a load of this generation.
LEMMA ArriveStep ==
  ASSUME TaskPageAssumption, PageInv, NEW s \in Slot, Arrive(s)
  PROVE  PageInv'
<1> USE DEF TaskPageAssumption
<1> DEFINE l == load[s]
<1>1. l \in Load /\ NamedBy(l) /\ l.answer \in Answer /\ l.id \in Task /\ l.answer.state # "waiting"
  BY DEF PageInv, TypeOK, LoadsNamed, Arrive, Free, Waiting, Load
<1>2. load' \in [Slot -> Load \cup {Idle}]
  BY DEF Arrive, PageInv, TypeOK
<1>3. LoadsNamed'
  BY DEF Arrive, PageInv, TypeOK, LoadsNamed, NamedBy, Current, Free
<1>4. task' \in Seen \cup {NoTask} /\ notFound' \in BOOLEAN /\ timer' \in BOOLEAN /\ leaked' \in Nat
  <2>1. CASE Current(l)
    <3>1. ShownAfter(l) \in Seen \cup {NoTask}
      BY <1>1 DEF ShownAfter, Seen, Answer, Held, PageInv, TypeOK
    <3>2. NotFoundAfter(l) \in BOOLEAN
      BY DEF NotFoundAfter, PageInv, TypeOK
    <3> QED
      BY <2>1, <3>1, <3>2 DEF Arrive, PageInv, TypeOK
  <2>2. CASE ~Current(l)
    BY <2>2 DEF Arrive, PageInv, TypeOK
  <2> QED
    BY <2>1, <2>2
<1>5. ShownIsNamed'
  <2>1. CASE Current(l)
    BY <2>1, <1>1 DEF Arrive, ShownAfter, NamedBy, ShownIsNamed, PageInv, NoTask
  <2>2. CASE ~Current(l)
    BY <2>2 DEF Arrive, ShownIsNamed, PageInv
  <2> QED
    BY <2>1, <2>2
<1> QED
  BY <1>2, <1>3, <1>4, <1>5 DEF Arrive, PageInv, TypeOK, Bounded

\* A step that changes no load, nor what the page names and shows.
LEMMA QuietStep ==
  ASSUME TaskPageAssumption, PageInv, UNCHANGED <<page, load>>, TypeOK', clicks' >= clicks
  PROVE  PageInv'
BY DEF page, PageInv, TypeOK, Bounded, LoadsNamed, NamedBy, Current, Free, ShownIsNamed

LEMMA FollowStep ==
  ASSUME TaskPageAssumption, PageInv, NEW s \in Slot, NEW id \in Task, Follow(s, id)
  PROVE  PageInv'
<1>1. generation + 1 \in 0..MaxClicks /\ clicks' \in 0..MaxClicks /\ generation' <= clicks'
  BY DEF TaskPageAssumption, Follow, Click, PageInv, TypeOK, Bounded
<1>2. generation + 1 # generation /\ generation + 1 >= generation
  BY DEF PageInv, TypeOK
<1>3. load' \in [Slot -> Load \cup {Idle}] /\ LoadsNamed'
  <2>1. load' = [load EXCEPT ![s] = Asked(generation + 1, id)] /\ generation' = generation + 1 /\ taskId' = id
    BY DEF Follow
  <2> QED
    BY <1>1, <1>2, <2>1, StartNamed
<1>4. TypeOK'
  BY <1>1, <1>3 DEF Follow, PageInv, TypeOK
<1> QED
  BY <1>1, <1>3, <1>4 DEF Follow, PageInv, Bounded, ShownIsNamed

\* A load starts for the task the page names.
LEMMA StartLoadStep ==
  ASSUME TaskPageAssumption, PageInv, NEW s \in Slot, StartLoad(s), generation' = generation, taskId' = taskId
  PROVE  load' \in [Slot -> Load \cup {Idle}] /\ LoadsNamed'
<1>1. generation \in 0..MaxClicks /\ taskId \in Task /\ generation >= generation
  BY DEF PageInv, TypeOK
<1>2. load' = [load EXCEPT ![s] = Asked(generation, taskId)]
  BY DEF StartLoad
<1> QED
  BY <1>1, <1>2, StartNamed

\* An answer comes to a load; who asked, and for what, stays.
LEMMA AnswerStep ==
  ASSUME TaskPageAssumption, PageInv, NEW s \in Slot, Serve(s) \/ Fail(s)
  PROVE  PageInv'
<1> USE DEF TaskPageAssumption, PageInv
<1>1. load[s] \in Load /\ taskId \in Task
  BY DEF Serve, Fail, Waiting, TypeOK
<1>2. PICK a \in Answer : load' = [load EXCEPT ![s].answer = a]
  <2>1. CASE Serve(s)
    BY <2>1, <1>1 DEF Serve, TypeOK, Answer, Load
  <2>2. CASE Fail(s)
    BY <2>2 DEF Fail, Answer
  <2> QED
    BY <2>1, <2>2
<1>3. load' = [load EXCEPT ![s] = [load[s] EXCEPT !.answer = a]] /\ [load[s] EXCEPT !.answer = a] \in Load
  BY <1>1, <1>2 DEF Load
<1>4. load' \in [Slot -> Load \cup {Idle}]
  BY <1>3 DEF TypeOK
<1>5. LoadsNamed'
  BY <1>1, <1>3 DEF LoadsNamed, NamedBy, Current, Free, TypeOK, Serve, Fail, page, Waiting, Load
<1> QED
  BY <1>4, <1>5 DEF Serve, Fail, page, TypeOK, Bounded, ShownIsNamed

LEMMA PerformStep ==
  ASSUME TaskPageAssumption, PageInv, Perform
  PROVE  PageInv'
<1> USE DEF TaskPageAssumption, PageInv
<1>1. act \in Act
  BY DEF Perform, TypeOK
<1>2. [act EXCEPT !.answer = "done"] \in Act /\ [act EXCEPT !.answer = "failed"] \in Act
  BY <1>1 DEF Act
<1>3. act' \in Act
  BY <1>2 DEF Perform
<1>4. server' \in [Task -> Held]
  <2>1. CASE UNCHANGED server
    BY <2>1 DEF TypeOK
  <2>2. CASE server' # server
    <3>1. server[act.id] \in Held /\ act.id \in Task
      BY <1>1 DEF TypeOK, Act
    <3>2. Becomes(act.kind, server[act.id].state) \in State \cup {Gone}
      BY <3>1 DEF Becomes, Held, State, Gone
    <3>3. Changed(act.id, Becomes(act.kind, server[act.id].state))
      BY <2>2 DEF Perform
    <3> QED
      BY <3>1, <3>2, <3>3 DEF Changed, TypeOK, Held
  <2> QED
    BY <2>1, <2>2
<1>5. TypeOK'
  BY <1>3, <1>4 DEF Perform, page, TypeOK
<1> QED
  BY <1>5, QuietStep DEF Perform, TypeOK

LEMMA MoveStep ==
  ASSUME TaskPageAssumption, PageInv, NEW id \in Task, Move(id)
  PROVE  PageInv'
<1> USE DEF TaskPageAssumption, PageInv
<1>1. server' \in [Task -> Held]
  BY DEF Move, Changed, TypeOK, Held
<1>2. TypeOK'
  BY <1>1 DEF Move, page, TypeOK
<1> QED
  BY <1>2, QuietStep DEF Move, TypeOK

LEMMA ActEndsStep ==
  ASSUME TaskPageAssumption, PageInv, NEW s \in Slot, ActEnds(s)
  PROVE  PageInv'
<1> USE DEF PageInv
<1>1. load' \in [Slot -> Load \cup {Idle}] /\ LoadsNamed'
  <2>1. CASE StartLoad(s)
    BY <2>1, StartLoadStep DEF ActEnds
  <2>2. CASE UNCHANGED load
    BY <2>2 DEF ActEnds, TypeOK, LoadsNamed, NamedBy, Current, Free
  <2> QED
    BY <2>1, <2>2 DEF ActEnds
<1> QED
  BY <1>1 DEF ActEnds, TypeOK, Bounded, ShownIsNamed

\* Every step keeps the invariant.
LEMMA PageStep ==
  ASSUME TaskPageAssumption, PageInv, [Next]_vars
  PROVE  PageInv'
<1>1. ASSUME NEW s \in Slot, Fire(s) PROVE PageInv'
  <2>1. load' \in [Slot -> Load \cup {Idle}] /\ LoadsNamed'
    BY <1>1, StartLoadStep DEF Fire
  <2>2. leaked' \in Nat
    BY <1>1 DEF Fire, PageInv, TypeOK
  <2> QED
    BY <1>1, <2>1, <2>2 DEF Fire, PageInv, TypeOK, Bounded, ShownIsNamed
<1>2. ASSUME NEW s \in Slot, Refresh(s) PROVE PageInv'
  <2>1. load' \in [Slot -> Load \cup {Idle}] /\ LoadsNamed'
    BY <1>2, StartLoadStep DEF Refresh
  <2>2. clicks' \in 0..MaxClicks /\ clicks' >= clicks
    BY <1>2 DEF TaskPageAssumption, Refresh, Click, PageInv, TypeOK
  <2>3. generation <= clicks'
    BY <2>2 DEF PageInv, TypeOK, Bounded
  <2>4. TypeOK'
    BY <1>2, <2>1, <2>2 DEF Refresh, PageInv, TypeOK
  <2> QED
    BY <1>2, <2>1, <2>3, <2>4 DEF Refresh, PageInv, Bounded, ShownIsNamed
<1>3. ASSUME NEW s \in Slot, Serve(s) \/ Fail(s) PROVE PageInv'
  BY <1>3, AnswerStep
<1>4. ASSUME NEW s \in Slot, Arrive(s) PROVE PageInv'
  BY <1>4, ArriveStep
<1>5. ASSUME NEW s \in Slot, ActEnds(s) PROVE PageInv'
  BY <1>5, ActEndsStep
<1>6. ASSUME NEW s \in Slot, NEW id \in Task, Follow(s, id) PROVE PageInv'
  BY <1>6, FollowStep
<1>7. ASSUME NEW a \in Action, Choose(a) PROVE PageInv'
  <2>1. clicks' \in 0..MaxClicks /\ clicks' >= clicks
    BY <1>7 DEF TaskPageAssumption, Choose, Click, PageInv, TypeOK
  <2>2. act' \in Act
    BY <1>7 DEF Choose, Act, Seen, PageInv, TypeOK
  <2>3. TypeOK'
    BY <1>7, <2>1, <2>2 DEF Choose, page, PageInv, TypeOK
  <2> QED
    BY <1>7, <2>1, <2>3, QuietStep DEF Choose
<1>8. CASE Leave
  <2>1. clicks' \in 0..MaxClicks /\ clicks' >= clicks
    BY <1>8 DEF TaskPageAssumption, Leave, Click, PageInv, TypeOK
  <2>2. generation <= clicks'
    BY <2>1 DEF PageInv, TypeOK, Bounded
  <2>3. TypeOK'
    BY <1>8, <2>1 DEF Leave, PageInv, TypeOK
  <2>4. LoadsNamed'
    BY <1>8 DEF Leave, PageInv, LoadsNamed, NamedBy, Current, Free
  <2> QED
    BY <1>8, <2>2, <2>3, <2>4 DEF Leave, PageInv, Bounded, ShownIsNamed
<1>9. CASE Perform
  BY <1>9, PerformStep
<1>10. ASSUME NEW id \in Task, Move(id) PROVE PageInv'
  BY <1>10, MoveStep
<1>11. CASE UNCHANGED vars
  BY <1>11 DEF vars, PageInv, TypeOK, Bounded, LoadsNamed, NamedBy, Current, Free, ShownIsNamed
<1> QED
  BY <1>1, <1>2, <1>3, <1>4, <1>5, <1>6, <1>7, <1>8, <1>9, <1>10, <1>11 DEF Next

\* Type correctness.
THEOREM TypeTheorem ==
  ASSUME TaskPageAssumption
  PROVE  Spec => []TypeOK
<1>1. PageInv => TypeOK
  BY DEF PageInv
<1> QED
  BY <1>1, InitInv, PageStep, PTL DEF Spec

\* However late the answers come, and whichever task the address names by then, the page
\* shows no task but that one.
THEOREM ShownIsNamedTheorem ==
  ASSUME TaskPageAssumption
  PROVE  Spec => []ShownIsNamed
<1>1. PageInv => ShownIsNamed
  BY DEF PageInv
<1> QED
  BY <1>1, InitInv, PageStep, PTL DEF Spec

-----------------------------------------------------------------------------
(* The page of a vault.  No form, open or not, holds a masked value, and the kind of each   *)
(* is that it was opened with unless the toggle was set.                                    *)
Typed(f) == f.value # "mask" /\ (f.kind = f.default \/ f.toggled)
SaveHasKey == entrySave # Keep!Nothing => entrySave.key \in Key
KeepInv == Keep!TypeOK /\ Typed(entryForm) /\ SaveHasKey /\ SavesWhatWasTyped

LEMMA KeepInit == Keep!Init \/ KeepClosed => KeepInv
<1> SUFFICES ASSUME Keep!Init \/ KeepClosed PROVE KeepInv
  OBVIOUS
<1>1. MaxEntryForms \in Nat
  BY PagesAssumption DEF PagesAssumption, Keep!VaultPageAssumption
<1>2. Keep!NoEntries \in Keep!Entries
  BY DEF Keep!NoEntries, Keep!Entries
<1>3. Keep!Blank \in Keep!Form /\ Typed(Keep!Blank)
  BY DEF Keep!Blank, Keep!Form, Typed
<1>4. vaultStored \in [there: BOOLEAN, entries: Keep!Entries]
  <2>1. CASE Keep!Init
    BY <2>1 DEF Keep!Init
  <2>2. CASE KeepClosed
    BY <1>2, <2>2 DEF KeepClosed
  <2> QED
    BY <2>1, <2>2
<1>5. showing \in BOOLEAN
  BY DEF Keep!Init, KeepClosed
<1>6. vaultLoad \in [Asking -> Keep!Load \cup {Keep!Idle}]
  <2>1. Keep!Asked \in Keep!Load
    BY <1>2 DEF Keep!Asked, Keep!Load
  <2>2. vaultLoad \in [Asking -> {Keep!Asked, Keep!Idle}]
    BY DEF Keep!Init, KeepClosed
  <2> QED
    BY <2>1, <2>2
<1>7. /\ vault = Keep!NoEntries /\ entryForm = Keep!Blank /\ entrySave = Keep!Nothing
      /\ savedBy = "none" /\ toDelete = "nothing" /\ deleting = "nothing" /\ entryForms = 0
  BY DEF Keep!Init, KeepClosed
<1>8. Keep!TypeOK
  BY <1>1, <1>2, <1>3, <1>4, <1>5, <1>6, <1>7 DEF Keep!TypeOK, Keep!Target
<1> QED
  BY <1>3, <1>7, <1>8 DEF KeepInv, SaveHasKey, SavesWhatWasTyped, Keep!SavesWhatWasTyped

\* A load of the vault starts.
LEMMA LoadDataStep ==
  ASSUME Keep!TypeOK, NEW s \in Asking, Keep!LoadData(s)
  PROVE  vaultLoad' \in [Asking -> Keep!Load \cup {Keep!Idle}]
<1>1. Keep!Asked \in Keep!Load
  BY DEF Keep!Asked, Keep!Load, Keep!NoEntries, Keep!Entries
<1> QED
  BY <1>1 DEF Keep!TypeOK, Keep!LoadData

\* What is left of a vault when an entry, or all of it, is deleted.
LEMMA RemovedType ==
  ASSUME Keep!TypeOK, NEW t \in Key \cup {"vault"}
  PROVE  Keep!Removed(t) \in [there: BOOLEAN, entries: Keep!Entries]
<1>1. vaultStored \in [there: BOOLEAN, entries: Keep!Entries]
  BY DEF Keep!TypeOK
<1>2. Keep!NoEntries \in Keep!Entries
  BY DEF Keep!NoEntries, Keep!Entries
<1>3. CASE t = "vault"
  BY <1>2, <1>3 DEF Keep!Removed
<1>4. CASE t # "vault"
  <2>1. [vaultStored.entries EXCEPT ![t] = "none"] \in Keep!Entries
    BY <1>1 DEF Keep!Entries
  <2>2. Keep!Removed(t) = [vaultStored EXCEPT !.entries = [vaultStored.entries EXCEPT ![t] = "none"]]
    BY <1>1, <1>4 DEF Keep!Removed
  <2> QED
    BY <1>1, <2>1, <2>2
<1> QED
  BY <1>3, <1>4

LEMMA SetType ==
  ASSUME Keep!TypeOK, NEW k \in Key, NEW kind \in {"plain", "secret"}, Keep!Set(k, kind)
  PROVE  vaultStored' \in [there: BOOLEAN, entries: Keep!Entries]
<1>1. vaultStored \in [there: BOOLEAN, entries: Keep!Entries]
  BY DEF Keep!TypeOK
<1>2. [vaultStored.entries EXCEPT ![k] = kind] \in Keep!Entries
  BY <1>1 DEF Keep!Entries
<1>3. vaultStored' = [vaultStored EXCEPT !.entries = [vaultStored.entries EXCEPT ![k] = kind]]
  BY <1>1 DEF Keep!Set
<1> QED
  BY <1>1, <1>2, <1>3

\* The effect of a closed form leaves nothing typed in it.
LEMMA ResetTyped ==
  ASSUME NEW f \in Keep!Form
  PROVE  Keep!Reset(f) \in Keep!Form /\ Typed(Keep!Reset(f))
BY DEF Keep!Reset, Keep!Blank, Keep!Form, Typed

\* The steps of the form.
LEMMA FormStep ==
  ASSUME KeepInv, Keep!FormOnly, entryForm' \in Keep!Form, Typed(entryForm'), entryForms' \in 0..MaxEntryForms
  PROVE  KeepInv'
BY DEF KeepInv, Keep!TypeOK, Keep!FormOnly, SaveHasKey, SavesWhatWasTyped, Keep!SavesWhatWasTyped, Typed

LEMMA KeepStep ==
  ASSUME KeepInv, [Keep!Next]_keepVars
  PROVE  KeepInv'
<1>1. MaxEntryForms \in Nat
  BY PagesAssumption DEF PagesAssumption, Keep!VaultPageAssumption
<1>2. /\ vaultStored \in [there: BOOLEAN, entries: Keep!Entries] /\ showing \in BOOLEAN /\ vault \in Keep!Entries
      /\ vaultLoad \in [Asking -> Keep!Load \cup {Keep!Idle}]
      /\ entryForm \in Keep!Form /\ entrySave \in Keep!Form \cup {Keep!Nothing} /\ savedBy \in Asking \cup {"none"}
      /\ toDelete \in Keep!Target /\ deleting \in Keep!Target /\ entryForms \in 0..MaxEntryForms
      /\ Keep!TypeOK /\ Typed(entryForm) /\ SaveHasKey /\ SavesWhatWasTyped
  BY DEF KeepInv, Keep!TypeOK
<1> USE DEF SaveHasKey, SavesWhatWasTyped, Keep!SavesWhatWasTyped
<1>3. ASSUME NEW s \in Asking, Keep!Poll(s) PROVE KeepInv'
  <2>1. vaultLoad' \in [Asking -> Keep!Load \cup {Keep!Idle}]
    BY <1>2, <1>3, LoadDataStep DEF Keep!Poll
  <2> QED
    BY <1>2, <1>3, <2>1 DEF Keep!Poll, KeepInv, Keep!TypeOK, Typed
<1>4. ASSUME NEW s \in Asking, Keep!Serve(s) PROVE KeepInv'
  <2>1. vaultLoad[s] \in Keep!Load
    BY <1>2, <1>4 DEF Keep!Serve, Keep!Idle
  <2>2. [answer |-> "there", entries |-> vaultStored.entries] \in Keep!Load
    BY <1>2 DEF Keep!Load
  <2>3. [vaultLoad[s] EXCEPT !.answer = "error"] \in Keep!Load
    BY <2>1 DEF Keep!Load
  <2>4. PICK a \in Keep!Load : vaultLoad' = [vaultLoad EXCEPT ![s] = a]
    BY <1>2, <1>4, <2>2, <2>3 DEF Keep!Serve
  <2>5. vaultLoad' \in [Asking -> Keep!Load \cup {Keep!Idle}]
    BY <1>2, <2>4
  <2> QED
    BY <1>2, <1>4, <2>5 DEF Keep!Serve, KeepInv, Keep!TypeOK, Typed
<1>5. ASSUME NEW s \in Asking, Keep!LoadArrives(s) PROVE KeepInv'
  <2>1. vaultLoad[s] \in Keep!Load
    BY <1>2, <1>5 DEF Keep!LoadArrives, Keep!Idle
  <2>2. vault' \in Keep!Entries
    BY <1>2, <1>5, <2>1 DEF Keep!LoadArrives, Keep!Load
  <2>3. vaultLoad' \in [Asking -> Keep!Load \cup {Keep!Idle}]
    BY <1>2, <1>5 DEF Keep!LoadArrives
  <2>4. savedBy' \in Asking \cup {"none"} /\ entryForm' \in Keep!Form /\ Typed(entryForm')
    BY <1>2, <1>5, ResetTyped DEF Keep!LoadArrives
  <2>5. UNCHANGED <<vaultStored, showing, entrySave, toDelete, deleting, entryForms>>
    BY <1>5 DEF Keep!LoadArrives
  <2> QED
    BY <1>2, <2>2, <2>3, <2>4, <2>5 DEF KeepInv, Keep!TypeOK, Typed
<1>6. ASSUME NEW s \in Asking, Keep!SaveAnswered(s) PROVE KeepInv'
  <2>1. entrySave \in Keep!Form /\ entrySave.kind \in {"plain", "secret"} /\ entrySave.key \in Key
    BY <1>2, <1>6 DEF Keep!SaveAnswered, Keep!Form
  <2>2. vaultStored' \in [there: BOOLEAN, entries: Keep!Entries]
    BY <1>2, <1>6, <2>1, SetType DEF Keep!SaveAnswered
  <2>3. vaultLoad' \in [Asking -> Keep!Load \cup {Keep!Idle}] /\ savedBy' \in Asking \cup {"none"}
    BY <1>2, <1>6, LoadDataStep DEF Keep!SaveAnswered
  <2>4. entrySave' = Keep!Nothing /\ UNCHANGED <<showing, vault, entryForm, toDelete, deleting, entryForms>>
    BY <1>6 DEF Keep!SaveAnswered
  <2> QED
    BY <1>2, <2>2, <2>3, <2>4 DEF KeepInv, Keep!TypeOK, Typed
<1>7. ASSUME NEW s \in Asking, Keep!DeleteAnswered(s) PROVE KeepInv'
  <2>1. deleting \in Key \cup {"vault"}
    BY <1>2, <1>7 DEF Keep!DeleteAnswered, Keep!Target
  <2>2. vaultStored' \in [there: BOOLEAN, entries: Keep!Entries]
    BY <1>2, <1>7, <2>1, RemovedType DEF Keep!DeleteAnswered
  <2>3. vaultLoad' \in [Asking -> Keep!Load \cup {Keep!Idle}]
    BY <1>2, <1>7, LoadDataStep DEF Keep!DeleteAnswered
  <2>4. showing' \in BOOLEAN
    BY <1>2, <1>7 DEF Keep!DeleteAnswered
  <2>5. entryForm' \in Keep!Form /\ Typed(entryForm')
    <3>1. Keep!Blank \in Keep!Form /\ Typed(Keep!Blank)
      BY DEF Keep!Blank, Keep!Form, Typed
    <3>2. entryForm' = entryForm \/ entryForm' = Keep!Blank
      BY <1>7 DEF Keep!DeleteAnswered
    <3> QED
      BY <1>2, <3>1, <3>2
  <2>6. deleting' = "nothing" /\ UNCHANGED <<vault, entrySave, savedBy, toDelete, entryForms>>
    BY <1>7 DEF Keep!DeleteAnswered
  <2> QED
    BY <1>2, <2>2, <2>3, <2>4, <2>5, <2>6 DEF KeepInv, Keep!TypeOK, Keep!Target, Typed
<1>8. ASSUME NEW k \in Key, Keep!OpenEditEntry(k) PROVE KeepInv'
  <2>1. vault[k] \in {"plain", "secret"}
    BY <1>2, <1>8 DEF Keep!OpenEditEntry, Keep!Entries
  <2>2. entryForm' \in Keep!Form /\ Typed(entryForm')
    BY <1>8, <2>1 DEF Keep!OpenEditEntry, Keep!Form, Typed
  <2>3. entryForms' \in 0..MaxEntryForms
    BY <1>1, <1>2, <1>8 DEF Keep!OpenEditEntry
  <2> QED
    BY <1>8, <2>2, <2>3, FormStep DEF Keep!OpenEditEntry
<1>9. ASSUME NEW t \in Keep!Target, Keep!AskDelete(t) PROVE KeepInv'
  BY <1>2, <1>9 DEF Keep!AskDelete, KeepInv, Keep!TypeOK, Typed
<1>10. CASE Keep!OpenAddEntry
  <2>1. entryForm' \in Keep!Form /\ Typed(entryForm')
    BY <1>2, <1>10 DEF Keep!OpenAddEntry, Keep!Form, Typed
  <2>2. entryForms' \in 0..MaxEntryForms
    BY <1>1, <1>2, <1>10 DEF Keep!OpenAddEntry
  <2> QED
    BY <1>10, <2>1, <2>2, FormStep DEF Keep!OpenAddEntry
<1>11. CASE Keep!TypeIn
  <2>1. entryForm' \in Keep!Form /\ Typed(entryForm')
    <3>1. ASSUME NEW k \in Key, entryForm' = [entryForm EXCEPT !.key = k]
          PROVE  entryForm' \in Keep!Form /\ Typed(entryForm')
      BY <1>2, <3>1 DEF Keep!Form, Typed
    <3>2. CASE entryForm' = [entryForm EXCEPT !.value = "typed"]
      BY <1>2, <3>2 DEF Keep!Form, Typed
    <3>3. ASSUME NEW kind \in {"plain", "secret"}, entryForm' = [entryForm EXCEPT !.kind = kind, !.toggled = TRUE]
          PROVE  entryForm' \in Keep!Form /\ Typed(entryForm')
      BY <1>2, <3>3 DEF Keep!Form, Typed
    <3> QED
      BY <1>11, <3>1, <3>2, <3>3 DEF Keep!TypeIn
  <2> QED
    BY <1>2, <1>11, <2>1, FormStep DEF Keep!TypeIn
<1>12. CASE Keep!Dismiss
  BY <1>2, <1>12, ResetTyped, FormStep DEF Keep!Dismiss
<1>13. CASE Keep!Submit
  <2>1. entryForm.value = "typed" /\ entryForm.key \in Key
    BY <1>2, <1>13 DEF Keep!Submit, Keep!Form, Typed
  <2> QED
    BY <1>2, <1>13, <2>1 DEF Keep!Submit, KeepInv, Keep!TypeOK, Typed
<1>14. CASE Keep!Cancel \/ Keep!Confirm
  BY <1>2, <1>14 DEF Keep!Cancel, Keep!Confirm, KeepInv, Keep!TypeOK, Keep!Target, Typed
<1>15. CASE Keep!Leave
  <2>1. showing' \in BOOLEAN
    BY <1>15 DEF Keep!Leave
  <2> QED
    BY <1>2, <1>15, <2>1 DEF Keep!Leave, KeepInv, Keep!TypeOK, Typed
<1>16. CASE Keep!ServerMoves
  <2>1. vaultStored' \in [there: BOOLEAN, entries: Keep!Entries]
    BY <1>2, <1>16, RemovedType, SetType DEF Keep!ServerMoves
  <2> QED
    BY <1>2, <1>16, <2>1 DEF Keep!ServerMoves, KeepInv, Keep!TypeOK, Typed
<1>17. CASE UNCHANGED keepVars
  BY <1>2, <1>17 DEF keepVars, KeepInv, Keep!TypeOK, Typed
<1> QED
  BY <1>3, <1>4, <1>5, <1>6, <1>7, <1>8, <1>9, <1>10, <1>11, <1>12, <1>13, <1>14, <1>15, <1>16, <1>17 DEF Keep!Next

-----------------------------------------------------------------------------
(* The page of a queue.  While a deletion is to be confirmed the selection only shrinks: it *)
(* is what the message counted, or less.                                                    *)
OneTable(ts) == ts = {} \/ \E v \in Live!View, n \in 0..MaxVersion : ts = {[view |-> v, ver |-> n]}
Fetches == [Slot -> Live!Request \cup {Live!Idle}]
SelectionShrinks == dialog.kind = "selected" => selectedIds \subseteq dialog.asked
LiveInv == Live!TypeOK /\ OneTable(tasks) /\ fetch \in Fetches /\ selectedIds \subseteq Live!Id /\ SelectionShrinks

LEMMA LiveConstants ==
  /\ MaxVersion \in Nat /\ MaxMoves \in Nat /\ MaxBatches \in Nat /\ "active" \in Tab
  /\ \A n \in 0..MaxVersion, t \in Tab : PagesOf[n][t] \in Nat \ {0}
BY PagesAssumption DEF PagesAssumption, Live!QueuePageAssumption

\* At most one table, of a view and a version, is on screen.
LEMMA TableType ==
  ASSUME NEW ts, OneTable(ts)
  PROVE  /\ \A r \in ts : r.view \in Live!View /\ r.ver \in 0..MaxVersion
         /\ \A r, s \in ts : r = s
BY DEF OneTable

\* The requests of a page that keeps the types.
LEMMA FetchesType ==
  ASSUME NEW f \in Fetches
  PROVE  \A s \in Slot : f[s] = Live!Idle \/ (f[s].view \in Live!View /\ f[s].ver \in 0..MaxVersion)
BY DEF Fetches, Live!Request

LEMMA RequestType ==
  ASSUME NEW kind \in {"counts", "rows", "poll", "reload"}, NEW v \in Live!View, NEW loud \in BOOLEAN
  PROVE  Live!Asked(kind, v, loud) \in Live!Request
BY LiveConstants DEF Live!Asked, Live!Request

LEMMA LiveStart == LiveInit \/ LiveClosed => LiveInv
<1> SUFFICES ASSUME LiveInit \/ LiveClosed PROVE LiveInv
  OBVIOUS
<1>1. at \in Live!View
  <2>1. CASE LiveInit
    BY <2>1, LiveConstants DEF LiveInit, Live!Init, Live!View
  <2>2. CASE LiveClosed
    <3> DEFINE q == CHOOSE x \in Queue : TRUE
    <3>1. q \in Queue /\ at = [queue |-> q, tab |-> "active", page |-> 1]
      BY <2>2, PagesAssumption DEF PagesAssumption, LiveClosed
    <3> HIDE DEF q
    <3> QED
      BY <3>1, LiveConstants DEF Live!View
  <2> QED
    BY <2>1, <2>2
<1>2. fetch \in Fetches
  <2>1. Live!Asked("rows", at, TRUE) \in Live!Request /\ Live!Asked("counts", at, FALSE) \in Live!Request
    BY <1>1, RequestType
  <2>2. fetch \in [Slot -> {Live!Asked("rows", at, TRUE), Live!Asked("counts", at, FALSE), Live!Idle}]
    <3>1. CASE LiveInit
      <4>1. PICK s, c \in Slot :
              fetch = [t \in Slot |-> CASE t = s -> Live!Asked("rows", at, TRUE)
                                        [] t = c -> Live!Asked("counts", at, FALSE)
                                        [] OTHER -> Live!Idle]
        BY <3>1 DEF LiveInit, Live!Init
      <4> QED
        BY <4>1
    <3>2. CASE LiveClosed
      BY <3>2 DEF LiveClosed
    <3> QED
      BY <3>1, <3>2
  <2> QED
    BY <2>1, <2>2 DEF Fetches
<1>3. /\ stored = 0 /\ taskCounts = 0 /\ tasks = {} /\ selectedIds = {} /\ dialog = Live!NoDialog
      /\ batch = Live!NoBatch /\ batches = 0 /\ steps \in {0, MaxMoves}
  BY DEF LiveInit, Live!Init, LiveClosed, Live!NoRows
<1>4. tableLoading \in BOOLEAN /\ pollInterval \in BOOLEAN
  BY DEF LiveInit, Live!Init, LiveClosed
<1>5. OneTable(tasks)
  BY <1>3 DEF OneTable
<1>6. Live!TypeOK
  <2>1. (\A r \in tasks : r.view \in Live!View /\ r.ver \in 0..MaxVersion) /\ \A r, s \in tasks : r = s
    BY <1>5, TableType
  <2>2. \A s \in Slot : fetch[s] = Live!Idle \/ (fetch[s].view \in Live!View /\ fetch[s].ver \in 0..MaxVersion)
    BY <1>2, FetchesType
  <2>3. steps \in 0..MaxMoves /\ batches \in 0..MaxBatches /\ stored \in 0..MaxVersion /\ taskCounts \in 0..MaxVersion
    BY <1>3, LiveConstants
  <2>4. dialog.kind = "none" /\ batch.kind = "none" /\ \A i \in selectedIds : i \in Live!Id
    BY <1>3 DEF Live!NoDialog, Live!NoBatch
  <2> QED
    BY <1>1, <1>4, <2>1, <2>2, <2>3, <2>4 DEF Live!TypeOK
<1> QED
  BY <1>2, <1>3, <1>5, <1>6 DEF LiveInv, SelectionShrinks, Live!NoDialog

\* The types after a step, from those of what it changes.
LEMMA LiveTypesAfter ==
  ASSUME stored' \in 0..MaxVersion, at' \in Live!View, taskCounts' \in 0..MaxVersion, OneTable(tasks'), fetch' \in Fetches,
         tableLoading' \in BOOLEAN, selectedIds' \subseteq Live!Id, pollInterval' \in BOOLEAN,
         dialog'.kind \in {"none", "selected", "all"}, batch'.kind \in {"none", "delete", "send", "all"},
         steps' \in 0..MaxMoves, batches' \in 0..MaxBatches, SelectionShrinks'
  PROVE  LiveInv'
<1>1. (\A r \in tasks' : r.view \in Live!View /\ r.ver \in 0..MaxVersion) /\ \A r, s \in tasks' : r = s
  BY TableType
<1>2. \A s \in Slot : fetch'[s] = Live!Idle \/ (fetch'[s].view \in Live!View /\ fetch'[s].ver \in 0..MaxVersion)
  BY FetchesType
<1>3. \A i \in selectedIds' : i \in Live!Id
  OBVIOUS
<1>4. Live!TypeOK'
  BY <1>1, <1>2, <1>3 DEF Live!TypeOK
<1> QED
  BY <1>4 DEF LiveInv

\* What is known before a step.
LEMMA LiveFacts ==
  LiveInv => /\ stored \in 0..MaxVersion /\ at \in Live!View /\ taskCounts \in 0..MaxVersion /\ OneTable(tasks)
             /\ fetch \in Fetches /\ tableLoading \in BOOLEAN /\ selectedIds \subseteq Live!Id /\ pollInterval \in BOOLEAN
             /\ dialog.kind \in {"none", "selected", "all"} /\ batch.kind \in {"none", "delete", "send", "all"}
             /\ steps \in 0..MaxMoves /\ batches \in 0..MaxBatches /\ SelectionShrinks
BY DEF LiveInv, Live!TypeOK

\* The requests after one is sent, answered or ends.
LEMMA FetchesAfter ==
  ASSUME NEW f \in Fetches, NEW s \in Slot
  PROVE  /\ \A r \in Live!Request \cup {Live!Idle} : [f EXCEPT ![s] = r] \in Fetches
         /\ f[s] # Live!Idle => /\ f[s] \in Live!Request
                                /\ \A n \in 0..MaxVersion : [f EXCEPT ![s].answer = "done", ![s].ver = n] \in Fetches
                                /\ [f EXCEPT ![s].answer = "error"] \in Fetches
<1>1. \A r \in Live!Request \cup {Live!Idle} : [f EXCEPT ![s] = r] \in Fetches
  BY DEF Fetches
<1>2. ASSUME f[s] # Live!Idle
      PROVE  /\ f[s] \in Live!Request
             /\ \A n \in 0..MaxVersion : [f EXCEPT ![s].answer = "done", ![s].ver = n] \in Fetches
             /\ [f EXCEPT ![s].answer = "error"] \in Fetches
  <2>1. f[s] \in Live!Request
    BY <1>2 DEF Fetches
  <2>2. \A n \in 0..MaxVersion : [f[s] EXCEPT !.answer = "done", !.ver = n] \in Live!Request
    BY <2>1 DEF Live!Request
  <2>3. [f[s] EXCEPT !.answer = "error"] \in Live!Request
    BY <2>1 DEF Live!Request
  <2> QED
    BY <2>1, <2>2, <2>3 DEF Fetches
<1> QED
  BY <1>1, <1>2

\* A page of the queue at hand, or the same page of another, is a view.
LEMMA ViewsAfter ==
  ASSUME NEW v \in Live!View
  PROVE  /\ v.page \in Nat \ {0} /\ v.tab \in Tab
         /\ \A p \in Nat \ {0} : [v EXCEPT !.page = p] \in Live!View
         /\ \A t \in Tab : [v EXCEPT !.tab = t, !.page = 1] \in Live!View
         /\ \A q \in Queue : [v EXCEPT !.queue = q] \in Live!View
<1>1. v.page \in Nat \ {0} /\ v.tab \in Tab
  BY DEF Live!View
<1>2. \A w \in Live!View, p \in Nat \ {0} : [w EXCEPT !.page = p] \in Live!View
  BY DEF Live!View
<1>3. ASSUME NEW t \in Tab PROVE [v EXCEPT !.tab = t, !.page = 1] \in Live!View
  <2>1. [v EXCEPT !.tab = t] \in Live!View
    BY DEF Live!View
  <2>2. \A w \in Live!View : [w EXCEPT !.page = 1] \in Live!View
    BY <1>2
  <2>3. [v EXCEPT !.tab = t, !.page = 1] = [[v EXCEPT !.tab = t] EXCEPT !.page = 1]
    OBVIOUS
  <2> QED
    BY <2>1, <2>2, <2>3
<1>4. \A q \in Queue : [v EXCEPT !.queue = q] \in Live!View
  BY DEF Live!View
<1> QED
  BY <1>1, <1>2, <1>3, <1>4

\* What a step may not do to a batch.
DeletesAsked == dialog.kind = "selected" /\ batch' # batch /\ batch'.kind = "delete" => batch'.ids \subseteq dialog.asked

\* A request leaves or ends.
LEMMA LiveRequestStep ==
  ASSUME LiveInv, NEW s \in Slot, Live!Poll(s) \/ Live!Refresh(s) \/ Live!Serve(s) \/ Live!Fail(s)
  PROVE  LiveInv' /\ DeletesAsked
<1>1. fetch' \in Fetches
  <2>1. CASE Live!Poll(s) \/ Live!Refresh(s)
    <3>1. \A k \in {"poll", "counts"} : Live!Asked(k, at, FALSE) \in Live!Request
      BY LiveFacts, RequestType
    <3>2. PICK r \in Live!Request : fetch' = [fetch EXCEPT ![s] = r]
      BY <2>1, <3>1 DEF Live!Poll, Live!Refresh
    <3> QED
      BY <3>2, LiveFacts, FetchesAfter
  <2>2. CASE Live!Serve(s) \/ Live!Fail(s)
    <3>1. fetch[s] # Live!Idle
      BY <2>2 DEF Live!Serve, Live!Fail, Live!Waiting, Live!Free
    <3>2. \/ fetch' = [fetch EXCEPT ![s].answer = "done", ![s].ver = stored]
          \/ fetch' = [fetch EXCEPT ![s].answer = "error"]
      BY <2>2 DEF Live!Serve, Live!Fail
    <3>3. fetch \in Fetches /\ stored \in 0..MaxVersion
      BY LiveFacts
    <3>4. /\ \A n \in 0..MaxVersion : [fetch EXCEPT ![s].answer = "done", ![s].ver = n] \in Fetches
          /\ [fetch EXCEPT ![s].answer = "error"] \in Fetches
      BY <3>1, <3>3, FetchesAfter
    <3> QED
      BY <3>2, <3>3, <3>4
  <2> QED
    BY <2>1, <2>2
<1>2. UNCHANGED <<stored, at, taskCounts, tasks, tableLoading, selectedIds, dialog, batch, batches, pollInterval>>
  BY DEF Live!Poll, Live!Refresh, Live!Serve, Live!Fail
<1>3. steps' \in 0..MaxMoves
  <2>1. steps' = steps \/ (steps < MaxMoves /\ steps' = steps + 1)
    BY DEF Live!Poll, Live!Refresh, Live!Serve, Live!Fail, Live!Click, Live!Move
  <2> QED
    BY <2>1, LiveFacts, LiveConstants
<1>4. OneTable(tasks') /\ SelectionShrinks'
  BY <1>2, LiveFacts DEF OneTable, SelectionShrinks
<1> QED
  BY <1>1, <1>2, <1>3, <1>4, LiveFacts, LiveTypesAfter DEF DeletesAsked

\* An answer is shown: the counts, and the page they clamp; or the rows.
LEMMA LiveAnswerStep ==
  ASSUME LiveInv, NEW s \in Slot, Live!CountsArrive(s) \/ Live!RowsArrive(s)
  PROVE  LiveInv' /\ DeletesAsked
<1>1. fetch[s] \in Live!Request
  BY LiveFacts, FetchesAfter DEF Live!CountsArrive, Live!RowsArrive, Live!Free
<1>2. CASE Live!CountsArrive(s)
  <2>1. taskCounts' \in 0..MaxVersion
    BY <1>1, <1>2, LiveFacts DEF Live!CountsArrive, Live!Request
  <2> DEFINE last == Live!LastPage(taskCounts', at.tab)
  <2>2. last \in Nat \ {0}
    BY <2>1, LiveFacts, ViewsAfter, LiveConstants DEF Live!LastPage
  <2>3. /\ at' = [at EXCEPT !.page = IF at.page > last THEN last ELSE @]
        /\ selectedIds' = IF at.page > last THEN {} ELSE selectedIds
        /\ tableLoading' = (tableLoading \/ at.page > last)
        /\ fetch' = [fetch EXCEPT ![s] =
             IF at.page > last THEN Live!Asked("rows", at', TRUE)
             ELSE IF Live!GoesOn(fetch[s].kind) THEN Live!Asked("rows", at', FALSE) ELSE Live!Idle]
        /\ UNCHANGED <<stored, tasks, dialog, batch, steps, batches, pollInterval>>
    BY <1>2 DEF Live!CountsArrive
  <2> HIDE DEF last
  <2>4. at' \in Live!View
    BY <2>2, <2>3, LiveFacts, ViewsAfter
  <2>5. fetch' \in Fetches
    <3>1. Live!Asked("rows", at', TRUE) \in Live!Request /\ Live!Asked("rows", at', FALSE) \in Live!Request
      BY <2>4, RequestType
    <3> QED
      BY <2>3, <3>1, LiveFacts, FetchesAfter
  <2>6. tableLoading' \in BOOLEAN
    BY <2>3, LiveFacts
  <2>7. OneTable(tasks') /\ SelectionShrinks' /\ selectedIds' \subseteq Live!Id
    BY <2>3, LiveFacts DEF OneTable, SelectionShrinks
  <2> QED
    BY <2>1, <2>3, <2>4, <2>5, <2>6, <2>7, LiveFacts, LiveTypesAfter DEF DeletesAsked
<1>3. CASE Live!RowsArrive(s)
  <2>1. UNCHANGED <<stored, at, taskCounts, selectedIds, dialog, batch, steps, batches, pollInterval>>
    BY <1>3 DEF Live!RowsArrive
  <2>2. OneTable(tasks')
    <3>1. fetch[s].view \in Live!View /\ fetch[s].ver \in 0..MaxVersion
      BY <1>1 DEF Live!Request
    <3>2. tasks' \in {tasks, {}, {[view |-> fetch[s].view, ver |-> fetch[s].ver]}}
      BY <1>3 DEF Live!RowsArrive, Live!NoRows
    <3> QED
      BY <3>1, <3>2, LiveFacts DEF OneTable
  <2>3. fetch' \in Fetches
    <3>1. Live!Asked("counts", at, FALSE) \in Live!Request
      BY LiveFacts, RequestType
    <3> QED
      BY <1>3, <3>1, LiveFacts, FetchesAfter DEF Live!RowsArrive
  <2>4. tableLoading' \in BOOLEAN
    BY <1>1, <1>3, LiveFacts DEF Live!RowsArrive, Live!Request
  <2>5. SelectionShrinks'
    BY <2>1, LiveFacts DEF SelectionShrinks
  <2> QED
    BY <2>1, <2>2, <2>3, <2>4, <2>5, LiveFacts, LiveTypesAfter DEF DeletesAsked
<1> QED
  BY <1>2, <1>3

\* A load of the rows, alone or before the counts.
LEMMA LoadsStep ==
  ASSUME NEW kind \in {"rows", "reload"}, NEW s \in Slot, NEW v \in Live!View, LiveInv, Live!Loads(kind, s, v)
  PROVE  fetch' \in Fetches /\ tableLoading' \in BOOLEAN
<1>1. Live!Asked(kind, v, TRUE) \in Live!Request
  BY RequestType
<1>2. fetch' \in Fetches
  BY <1>1, LiveFacts, FetchesAfter DEF Live!Loads
<1>3. tableLoading' = TRUE
  BY DEF Live!Loads
<1> QED
  BY <1>2, <1>3

\* The user goes to another tab, page or queue, or leaves.
LEMMA LiveMoveStep ==
  ASSUME LiveInv
  PROVE  /\ \A s \in Slot, t \in Tab : Live!ChangeTab(s, t) => LiveInv' /\ DeletesAsked
         /\ \A s \in Slot : \A p \in 1..Live!Pages : Live!GoToPage(s, p) => LiveInv' /\ DeletesAsked
         /\ \A q \in Queue : Live!OpenQueue(q) => LiveInv' /\ DeletesAsked
         /\ Live!Leave => LiveInv' /\ DeletesAsked
<1>1. Live!Move => steps' \in 0..MaxMoves
  BY LiveFacts, LiveConstants DEF Live!Move
<1>2. ASSUME NEW s \in Slot, at' \in Live!View, Live!LoadTasks(s, at'), Live!Move, selectedIds' = {},
             UNCHANGED <<stored, taskCounts, tasks, dialog, batch, batches, pollInterval>>
      PROVE  LiveInv' /\ DeletesAsked
  <2>1. fetch' \in Fetches /\ tableLoading' \in BOOLEAN
    BY <1>2, LoadsStep DEF Live!LoadTasks
  <2>2. OneTable(tasks') /\ SelectionShrinks'
    BY <1>2, LiveFacts DEF OneTable, SelectionShrinks
  <2> QED
    BY <1>1, <1>2, <2>1, <2>2, LiveFacts, LiveTypesAfter DEF DeletesAsked
<1>3. ASSUME NEW s \in Slot, NEW t \in Tab, Live!ChangeTab(s, t) PROVE LiveInv' /\ DeletesAsked
  <2>1. at' \in Live!View
    BY <1>3, LiveFacts, ViewsAfter DEF Live!ChangeTab
  <2> QED
    BY <1>2, <1>3, <2>1 DEF Live!ChangeTab, Live!Click
<1>4. ASSUME NEW s \in Slot, NEW p \in 1..Live!Pages, Live!GoToPage(s, p) PROVE LiveInv' /\ DeletesAsked
  <2>1. Live!Pages \in Nat
    BY LiveFacts, ViewsAfter, LiveConstants DEF Live!Pages, Live!LastPage
  <2>2. at' \in Live!View
    <3>1. p \in Nat \ {0} /\ at' = [at EXCEPT !.page = p]
      BY <1>4, <2>1 DEF Live!GoToPage
    <3> QED
      BY <3>1, LiveFacts, ViewsAfter
  <2> QED
    BY <1>2, <1>4, <2>2 DEF Live!GoToPage, Live!Click
<1>5. ASSUME NEW q \in Queue, Live!OpenQueue(q) PROVE LiveInv' /\ DeletesAsked
  <2>1. at' \in Live!View /\ steps' \in 0..MaxMoves
    BY <1>1, <1>5, LiveFacts, ViewsAfter DEF Live!OpenQueue
  <2>2. UNCHANGED <<stored, taskCounts, tasks, tableLoading, fetch, selectedIds, dialog, batch, batches, pollInterval>>
    BY <1>5 DEF Live!OpenQueue
  <2>3. OneTable(tasks') /\ SelectionShrinks'
    BY <2>2, LiveFacts DEF OneTable, SelectionShrinks
  <2> QED
    BY <2>1, <2>2, <2>3, LiveFacts, LiveTypesAfter DEF DeletesAsked
<1>6. ASSUME Live!Leave PROVE LiveInv' /\ DeletesAsked
  <2>1. UNCHANGED <<stored, at, taskCounts, tasks, tableLoading, fetch, selectedIds, dialog, batch, batches>>
    BY <1>6 DEF Live!Leave
  <2>2. OneTable(tasks') /\ SelectionShrinks'
    BY <2>1, LiveFacts DEF OneTable, SelectionShrinks
  <2>3. pollInterval' \in BOOLEAN
    <3>1. pollInterval' = FALSE
      BY <1>6 DEF Live!Leave
    <3> QED
      BY <3>1
  <2>4. steps' \in 0..MaxMoves
    BY <1>1, <1>6 DEF Live!Leave, Live!Click
  <2> QED
    BY <2>1, <2>2, <2>3, <2>4, LiveFacts, LiveTypesAfter DEF DeletesAsked
<1> QED
  BY <1>3, <1>4, <1>5, <1>6

\* The selection, the question asked of it, and the batches.
LEMMA LiveBatchStep ==
  ASSUME LiveInv
  PROVE  /\ Live!Tick \/ Live!SelectAll \/ Live!AskDelete \/ Live!AskDeleteAll \/ Live!Confirm \/ Live!Cancel \/ Live!ArchiveOrRun
              => LiveInv' /\ DeletesAsked
         /\ \A s \in Slot : Live!BatchDone(s) \/ Live!ActOnRow(s) => LiveInv' /\ DeletesAsked
         /\ Live!BatchFailed \/ Live!ServerMoves => LiveInv' /\ DeletesAsked
<1>1. Live!Move => steps' \in 0..MaxMoves
  BY LiveFacts, LiveConstants DEF Live!Move
<1>2. \A k \in {"delete", "send", "all"} : \A ids :
        Live!Sends(k, ids) => batches' \in 0..MaxBatches /\ batch' = [kind |-> k, ids |-> ids]
  BY LiveFacts, LiveConstants DEF Live!Sends
<1>3. Live!Changed \/ UNCHANGED stored => stored' \in 0..MaxVersion
  BY LiveFacts, LiveConstants DEF Live!Changed
<1>4. tasks' = tasks => OneTable(tasks')
  BY LiveFacts
<1>5. ASSUME Live!Tick \/ Live!SelectAll PROVE LiveInv' /\ DeletesAsked
  <2>1. Live!Ids(tasks) \subseteq Live!Id
    BY LiveFacts, TableType DEF Live!Ids, Live!Id
  <2>2. selectedIds' \subseteq Live!Id
    BY <1>5, <2>1, LiveFacts DEF Live!Tick, Live!SelectAll
  <2>3. UNCHANGED <<stored, at, taskCounts, tasks, tableLoading, fetch, dialog, batch, batches, pollInterval>>
    BY <1>5 DEF Live!Tick, Live!SelectAll
  <2>4. SelectionShrinks' /\ steps' \in 0..MaxMoves
    BY <1>1, <1>5, <2>3 DEF Live!Tick, Live!SelectAll, Live!RowsShown, Live!Click, SelectionShrinks, Live!NoDialog
  <2> QED
    BY <1>4, <2>2, <2>3, <2>4, LiveFacts, LiveTypesAfter DEF DeletesAsked
<1>6. ASSUME NEW k \in {"selected", "all"}, Live!AskToDelete(k) PROVE LiveInv' /\ DeletesAsked
  <2>1. UNCHANGED <<stored, at, taskCounts, tasks, tableLoading, fetch, selectedIds, batch, batches, pollInterval>>
    BY <1>6 DEF Live!AskToDelete
  <2>2. dialog' = [kind |-> k, asked |-> selectedIds] /\ steps' \in 0..MaxMoves
    BY <1>1, <1>6 DEF Live!AskToDelete, Live!Click
  <2>3. SelectionShrinks' /\ dialog'.kind \in {"none", "selected", "all"}
    BY <2>1, <2>2 DEF SelectionShrinks
  <2> QED
    BY <1>4, <2>1, <2>2, <2>3, LiveFacts, LiveTypesAfter DEF DeletesAsked
<1>7. ASSUME Live!Confirm PROVE LiveInv' /\ DeletesAsked
  <2>1. UNCHANGED <<stored, at, taskCounts, tasks, tableLoading, fetch, selectedIds, steps, pollInterval>>
    BY <1>7 DEF Live!Confirm
  <2>2. /\ batches' \in 0..MaxBatches
        /\ batch' = [kind |-> IF dialog.kind = "all" THEN "all" ELSE "delete", ids |-> Live!Doomed(dialog)]
        /\ dialog' = Live!NoDialog
    BY <1>2, <1>7 DEF Live!Confirm
  <2>3. SelectionShrinks' /\ dialog'.kind \in {"none", "selected", "all"}
    BY <2>2 DEF SelectionShrinks, Live!NoDialog
  <2>4. dialog.kind = "selected" => batch'.ids = selectedIds
    BY <2>2 DEF Live!Doomed
  <2>5. DeletesAsked
    BY <2>4, LiveFacts DEF DeletesAsked, SelectionShrinks
  <2>6. batch'.kind \in {"none", "delete", "send", "all"}
    BY <2>2
  <2> QED
    BY <1>4, <2>1, <2>2, <2>3, <2>5, <2>6, LiveFacts, LiveTypesAfter
<1>8. ASSUME Live!Cancel PROVE LiveInv' /\ DeletesAsked
  <2>1. UNCHANGED <<stored, at, taskCounts, tasks, tableLoading, fetch, selectedIds, batch, steps, batches, pollInterval>>
    BY <1>8 DEF Live!Cancel
  <2>2. SelectionShrinks' /\ dialog'.kind \in {"none", "selected", "all"}
    BY <1>8 DEF Live!Cancel, SelectionShrinks, Live!NoDialog
  <2> QED
    BY <1>4, <2>1, <2>2, LiveFacts, LiveTypesAfter DEF DeletesAsked
<1>9. ASSUME Live!ArchiveOrRun PROVE LiveInv' /\ DeletesAsked
  <2>1. UNCHANGED <<stored, at, taskCounts, tasks, tableLoading, fetch, selectedIds, dialog, pollInterval>>
    BY <1>9 DEF Live!ArchiveOrRun
  <2>2. \E k \in {"send", "all"} : \E ids : Live!Sends(k, ids)
    BY <1>9 DEF Live!ArchiveOrRun
  <2>3. batches' \in 0..MaxBatches /\ batch'.kind \in {"send", "all"} /\ steps' \in 0..MaxMoves
    BY <1>1, <1>2, <1>9, <2>2 DEF Live!ArchiveOrRun, Live!Click
  <2>4. SelectionShrinks'
    BY <2>1, LiveFacts DEF SelectionShrinks
  <2> QED
    BY <1>4, <2>1, <2>3, <2>4, LiveFacts, LiveTypesAfter DEF DeletesAsked
<1>10. ASSUME NEW s \in Slot, Live!BatchDone(s) PROVE LiveInv' /\ DeletesAsked
  <2>1. UNCHANGED <<at, taskCounts, tasks, dialog, steps, batches, pollInterval>>
    BY <1>10 DEF Live!BatchDone
  <2>2. fetch' \in Fetches /\ tableLoading' \in BOOLEAN
    BY <1>10, LiveFacts, LoadsStep DEF Live!BatchDone, Live!Reload
  <2>3. batch'.kind = "none" /\ selectedIds' \subseteq selectedIds /\ stored' \in 0..MaxVersion
    BY <1>3, <1>10 DEF Live!BatchDone, Live!NoBatch
  <2>4. SelectionShrinks'
    BY <2>1, <2>3, LiveFacts DEF SelectionShrinks
  <2> QED
    BY <1>4, <2>1, <2>2, <2>3, <2>4, LiveFacts, LiveTypesAfter DEF DeletesAsked
<1>11. ASSUME NEW s \in Slot, Live!ActOnRow(s) PROVE LiveInv' /\ DeletesAsked
  <2>1. UNCHANGED <<at, taskCounts, tasks, selectedIds, dialog, batch, batches, pollInterval>>
    BY <1>11 DEF Live!ActOnRow
  <2>2. fetch' \in Fetches /\ tableLoading' \in BOOLEAN
    BY <1>11, LiveFacts, LoadsStep DEF Live!ActOnRow, Live!Reload
  <2>3. stored' \in 0..MaxVersion /\ steps' \in 0..MaxMoves
    BY <1>1, <1>3, <1>11 DEF Live!ActOnRow, Live!RowsShown, Live!Click
  <2>4. SelectionShrinks'
    BY <2>1, LiveFacts DEF SelectionShrinks
  <2> QED
    BY <1>4, <2>1, <2>2, <2>3, <2>4, LiveFacts, LiveTypesAfter DEF DeletesAsked
<1>12. ASSUME Live!BatchFailed \/ Live!ServerMoves PROVE LiveInv' /\ DeletesAsked
  <2>1. UNCHANGED <<at, taskCounts, tasks, tableLoading, fetch, selectedIds, dialog, steps, batches, pollInterval>>
    BY <1>12 DEF Live!BatchFailed, Live!ServerMoves
  <2>2. stored' \in 0..MaxVersion /\ (batch' = batch \/ batch'.kind = "none")
    BY <1>3, <1>12 DEF Live!BatchFailed, Live!ServerMoves, Live!NoBatch
  <2>3. SelectionShrinks' /\ batch'.kind \in {"none", "delete", "send", "all"}
    BY <2>1, <2>2, LiveFacts DEF SelectionShrinks
  <2> QED
    BY <1>4, <2>1, <2>2, <2>3, LiveFacts, LiveTypesAfter DEF DeletesAsked
<1> QED
  BY <1>5, <1>6, <1>7, <1>8, <1>9, <1>10, <1>11, <1>12 DEF Live!AskDelete, Live!AskDeleteAll

\* No step breaks the invariant, or deletes what was not asked.
LEMMA LiveStep == LiveInv /\ [Live!Next]_liveVars => LiveInv' /\ [DeletesAsked]_liveVars
<1> SUFFICES ASSUME LiveInv, [Live!Next]_liveVars PROVE LiveInv' /\ DeletesAsked
  OBVIOUS
<1>1. CASE Live!Next
  BY <1>1, LiveRequestStep, LiveAnswerStep, LiveMoveStep, LiveBatchStep DEF Live!Next
<1>2. CASE UNCHANGED liveVars
  <2>1. OneTable(tasks') /\ SelectionShrinks'
    BY <1>2, LiveFacts DEF liveVars, SelectionShrinks
  <2> QED
    BY <1>2, <2>1, LiveFacts, LiveTypesAfter DEF liveVars, DeletesAsked
<1> QED
  BY <1>1, <1>2

-----------------------------------------------------------------------------
(* The forms of queues.  A page's flag is up exactly while a save of that page is in flight, *)
(* so the next save of it begins when there is none.                                        *)
EditInv == Edit!TypeOK /\ OneSavePerPage

\* What the invariant says of the variables.
LEMMA EditFacts ==
  ASSUME EditInv
  PROVE  /\ known \subseteq Edit!FullName /\ deployment \in [Parent -> Edit!Deployment]
         /\ form \in Edit!Form /\ fetching \in [Slot -> Edit!FullName \cup {Edit!Idle}]
         /\ save \in [Slot -> Edit!Save \cup {Edit!Idle}]
         /\ pageShown \in Edit!Page /\ loading \in BOOLEAN /\ opens \in 0..MaxOpens
         /\ \A s, t \in Slot : Edit!Own(s) /\ Edit!Own(t) => s = t
         /\ loading = \E s \in Slot : Edit!Own(s)
BY DEF EditInv, Edit!TypeOK, OneSavePerPage, Edit!OneSavePerPage

\* Steps after which the same saves of the page are in flight, under the same flag.
LEMMA SavesKept ==
  ASSUME EditInv, loading' = loading, \A s \in Slot : Edit!Own(s)' = Edit!Own(s)
  PROVE  OneSavePerPage'
BY EditFacts DEF OneSavePerPage, Edit!OneSavePerPage

LEMMA BlankType == Edit!Blank \in Edit!Form
BY DEF Edit!Blank, Edit!Form, Edit!Mode

LEMMA EditInit == Edit!Init \/ EditClosed => EditInv
<1> SUFFICES ASSUME Edit!Init \/ EditClosed PROVE EditInv
  OBVIOUS
<1>1. MaxOpens \in Nat
  BY PagesAssumption DEF PagesAssumption, Edit!QueueFormsAssumption
<1>2. known \subseteq Edit!FullName /\ form = Edit!Blank /\ opens = 0
  BY DEF Edit!Init, EditClosed
<1>3. deployment \in [Parent -> Edit!Deployment]
  BY DEF Edit!Init, EditClosed, Edit!Deployment
<1>4. fetching = [s \in Slot |-> Edit!Idle] /\ save = [s \in Slot |-> Edit!Idle]
  BY DEF Edit!Init, EditClosed
<1>5. loading = FALSE /\ pageShown \in Edit!Page
  BY DEF Edit!Init, EditClosed, Edit!Page
<1>6. form \in Edit!Form
  BY <1>2, BlankType
<1>7. Edit!TypeOK
  <2>1. loading \in BOOLEAN
    BY <1>5
  <2>2. opens \in 0..MaxOpens
    BY <1>1, <1>2
  <2>3. fetching \in [Slot -> Edit!FullName \cup {Edit!Idle}] /\ save \in [Slot -> Edit!Save \cup {Edit!Idle}]
    BY <1>4
  <2> QED
    BY <1>2, <1>3, <1>5, <1>6, <2>1, <2>2, <2>3 DEF Edit!TypeOK
<1>8. \A s \in Slot : ~Edit!Own(s)
  BY <1>4 DEF Edit!Own
<1> QED
  BY <1>5, <1>7, <1>8 DEF EditInv, OneSavePerPage, Edit!OneSavePerPage

\* A configuration fills a form.
LEMMA FilledType ==
  ASSUME NEW f \in Edit!Form, NEW q \in Edit!FullName, NEW d \in Edit!Deployment, NEW g \in Edit!Filled(f, q, d)
  PROVE  g \in Edit!Form
<1> DEFINE rows == IF q.sub # "default" THEN {q.sub} ELSE f.rows
           code == f.code \/ d # "none"
           limits == IF d # "none" THEN d = "limited" ELSE f.limits
           config == [queue |-> q, deployment |-> d]
<1>1. rows \in SUBSET Sub /\ q.parent \in Parent
  BY DEF Edit!Form, Edit!FullName
<1>2. code \in BOOLEAN
  BY DEF Edit!Form
<1>3. limits \in BOOLEAN
  BY DEF Edit!Form
<1>4. config \in Edit!Config
  BY DEF Edit!Config
<1>5. PICK x \in IF d = "none" THEN {f.extras} ELSE BOOLEAN :
        g = [f EXCEPT !.open = TRUE, !.mode = "edit", !.parent = q.parent, !.rows = rows, !.code = code,
                      !.limits = limits, !.extras = x, !.config = config]
  BY DEF Edit!Filled, Edit!Form
<1>6. x \in BOOLEAN
  BY DEF Edit!Form
<1> HIDE DEF rows, code, limits, config
<1> QED
  BY <1>1, <1>2, <1>3, <1>4, <1>5, <1>6 DEF Edit!Form, Edit!Mode

\* What a form sends.
LEMMA RowsOfType ==
  ASSUME NEW f \in Edit!Form, NEW rs \in Edit!RowsOf(f)
  PROVE  rs \subseteq Sub
<1>1. "default" \in Sub
  BY PagesAssumption DEF PagesAssumption, Edit!QueueFormsAssumption
<1>2. f.rows \subseteq Sub
  BY DEF Edit!Form
<1> QED
  BY <1>1, <1>2 DEF Edit!RowsOf

\* A save begins while the flag is down: it is the only one of its page.
LEMMA SubmitStep ==
  ASSUME EditInv, NEW s \in Slot, Edit!Submit(s)
  PROVE  EditInv'
<1>1. /\ form \in Edit!Form /\ save \in [Slot -> Edit!Save \cup {Edit!Idle}] /\ ~loading
      /\ loading' = TRUE /\ UNCHANGED <<known, deployment, form, fetching, pageShown, opens>>
  BY EditFacts DEF Edit!Submit, Edit!CanSubmit
<1>2. PICK rs \in Edit!RowsOf(form) :
        save' = [save EXCEPT ![s] = [kind |-> form.mode, parent |-> form.parent, left |-> rs, failed |-> FALSE,
                                     deployed |-> Edit!DeploymentOf(form), here |-> TRUE]]
  BY DEF Edit!Submit
<1> DEFINE v == [kind |-> form.mode, parent |-> form.parent, left |-> rs, failed |-> FALSE,
                 deployed |-> Edit!DeploymentOf(form), here |-> TRUE]
<1>3. form.parent \in Parent
  BY <1>1 DEF Edit!Submit, Edit!Accepted, Edit!Form
<1>4. Edit!DeploymentOf(form) \in Edit!Deployment
  BY DEF Edit!DeploymentOf, Edit!Deployment
<1>5. rs \subseteq Sub
  BY <1>1, RowsOfType
<1>6. form.mode \in Edit!Mode
  BY <1>1 DEF Edit!Form
<1>7. v \in Edit!Save /\ v # Edit!Idle /\ v.here
  BY <1>3, <1>4, <1>5, <1>6 DEF Edit!Save, Edit!Idle
<1>8. \A t \in Slot : ~Edit!Own(t)
  BY <1>1, EditFacts
<1> HIDE DEF v
<1>9. save' = [save EXCEPT ![s] = v]
  BY <1>2 DEF v
<1>10. save' \in [Slot -> Edit!Save \cup {Edit!Idle}]
  BY <1>1, <1>7, <1>9
<1>11. \A t \in Slot : Edit!Own(t)' <=> t = s
  BY <1>1, <1>7, <1>8, <1>9 DEF Edit!Own
<1>12. Edit!TypeOK'
  BY <1>1, <1>10 DEF EditInv, Edit!TypeOK
<1> QED
  BY <1>1, <1>11, <1>12 DEF EditInv, OneSavePerPage, Edit!OneSavePerPage

\* One row of a save is answered: the save goes on.
LEMMA SaveRowStep ==
  ASSUME EditInv, NEW s \in Slot, NEW r \in Sub, Edit!SaveRow(s, r)
  PROVE  EditInv'
<1>1. /\ save \in [Slot -> Edit!Save \cup {Edit!Idle}] /\ save[s] \in Edit!Save /\ save[s] # Edit!Idle
      /\ UNCHANGED <<form, fetching, pageShown, loading, opens>>
  BY EditFacts DEF Edit!SaveRow
<1>2. PICK ok \in BOOLEAN :
        /\ save' = [save EXCEPT ![s].left = @ \ {r}, ![s].failed = @ \/ ~ok]
        /\ \/ ~Edit!Refused(save[s], r) /\ Edit!Saved(save[s].parent, r, save[s].deployed)
           \/ ~ok /\ UNCHANGED <<known, deployment>>
  BY DEF Edit!SaveRow
<1> DEFINE v == [save[s] EXCEPT !.left = @ \ {r}, !.failed = @ \/ ~ok]
<1>3. v \in Edit!Save /\ v # Edit!Idle /\ v.here = save[s].here
  BY <1>1 DEF Edit!Save, Edit!Idle
<1>4. save' = [save EXCEPT ![s] = v]
  BY <1>1, <1>2
<1> HIDE DEF v
<1>5. save' \in [Slot -> Edit!Save \cup {Edit!Idle}]
  BY <1>1, <1>3, <1>4
<1>6. \A t \in Slot : Edit!Own(t)' = Edit!Own(t)
  BY <1>1, <1>3, <1>4 DEF Edit!Own
<1>7. known' \subseteq Edit!FullName /\ deployment' \in [Parent -> Edit!Deployment]
  <2>1. save[s].parent \in Parent /\ save[s].deployed \in Edit!Deployment
    BY <1>1 DEF Edit!Save
  <2>2. [parent |-> save[s].parent, sub |-> r] \in Edit!FullName
    BY <2>1 DEF Edit!FullName
  <2>3. known \subseteq Edit!FullName /\ deployment \in [Parent -> Edit!Deployment]
    BY EditFacts
  <2>4. CASE Edit!Saved(save[s].parent, r, save[s].deployed)
    BY <2>1, <2>2, <2>3, <2>4 DEF Edit!Saved
  <2>5. CASE UNCHANGED <<known, deployment>>
    BY <2>3, <2>5
  <2> QED
    BY <1>2, <2>4, <2>5
<1>8. Edit!TypeOK'
  BY <1>1, <1>5, <1>7 DEF EditInv, Edit!TypeOK
<1> QED
  BY <1>1, <1>6, <1>8, SavesKept DEF EditInv

\* A save ends, and the flag of its page with it, if the page is still shown.
LEMMA SaveEndsStep ==
  ASSUME EditInv, NEW s \in Slot, Edit!SaveEnds(s)
  PROVE  EditInv'
<1>1. /\ save \in [Slot -> Edit!Save \cup {Edit!Idle}] /\ save' = [save EXCEPT ![s] = Edit!Idle]
      /\ save[s] # Edit!Idle /\ UNCHANGED <<known, deployment, fetching, pageShown, opens>>
  BY EditFacts DEF Edit!SaveEnds
<1>2. \A t \in Slot : Edit!Own(t)' <=> Edit!Own(t) /\ t # s
  BY <1>1 DEF Edit!Own
<1>3. form' \in Edit!Form
  BY EditFacts, BlankType DEF Edit!SaveEnds
<1>4. loading' \in BOOLEAN
  BY EditFacts DEF Edit!SaveEnds
<1>5. Edit!TypeOK'
  BY <1>1, <1>3, <1>4 DEF EditInv, Edit!TypeOK
<1>6. CASE save[s].here
  <2>1. Edit!Own(s) /\ loading' = FALSE
    BY <1>1, <1>6 DEF Edit!SaveEnds, Edit!Own
  <2>2. \A t \in Slot : ~Edit!Own(t)'
    BY <1>2, <2>1, EditFacts
  <2> QED
    BY <1>5, <2>1, <2>2 DEF EditInv, OneSavePerPage, Edit!OneSavePerPage
<1>7. CASE ~save[s].here
  <2>1. ~Edit!Own(s) /\ loading' = loading
    BY <1>7 DEF Edit!SaveEnds, Edit!Own
  <2>2. \A t \in Slot : Edit!Own(t)' = Edit!Own(t)
    BY <1>2, <2>1 DEF Edit!Own
  <2> QED
    BY <1>5, <2>1, <2>2, SavesKept DEF EditInv
<1> QED
  BY <1>6, <1>7

\* The page is left: its save in flight is nobody's from here on, and the next flag is down.
LEMMA LeavePageStep ==
  ASSUME EditInv, Edit!LeavePage
  PROVE  EditInv'
<1> DEFINE left == [s \in Slot |-> IF save[s] = Edit!Idle THEN Edit!Idle ELSE [save[s] EXCEPT !.here = FALSE]]
<1>1. /\ save' = left /\ fetching' = [s \in Slot |-> Edit!Idle] /\ form' = Edit!Blank
      /\ loading' = FALSE /\ pageShown' \in Edit!Page /\ UNCHANGED <<known, deployment, opens>>
  BY DEF Edit!LeavePage
<1>2. ASSUME NEW s \in Slot PROVE left[s] \in Edit!Save \cup {Edit!Idle} /\ (left[s] # Edit!Idle => ~left[s].here)
  <2>1. save[s] \in Edit!Save \cup {Edit!Idle}
    BY EditFacts
  <2>2. CASE save[s] = Edit!Idle
    BY <2>2
  <2>3. CASE save[s] # Edit!Idle
    <3>1. save[s] \in Edit!Save /\ left[s] = [save[s] EXCEPT !.here = FALSE]
      BY <2>1, <2>3
    <3> QED
      BY <3>1 DEF Edit!Save
  <2> QED
    BY <2>2, <2>3
<1>3. save' \in [Slot -> Edit!Save \cup {Edit!Idle}]
  BY <1>1, <1>2
<1>4. \A s \in Slot : ~Edit!Own(s)'
  BY <1>1, <1>2 DEF Edit!Own
<1>5. Edit!TypeOK'
  BY <1>1, <1>3, BlankType DEF EditInv, Edit!TypeOK
<1> QED
  BY <1>1, <1>4, <1>5 DEF EditInv, OneSavePerPage, Edit!OneSavePerPage

LEMMA EditStep ==
  ASSUME EditInv, [Edit!Next]_editVars
  PROVE  EditInv'
<1>1. MaxOpens \in Nat
  BY PagesAssumption DEF PagesAssumption, Edit!QueueFormsAssumption
\* Steps that leave the saves and the server alone.
<1>2. ASSUME form' \in Edit!Form, opens' \in 0..MaxOpens, fetching' \in [Slot -> Edit!FullName \cup {Edit!Idle}],
             UNCHANGED <<known, deployment, save, pageShown, loading>>
      PROVE  EditInv'
  <2>1. Edit!TypeOK' /\ \A s \in Slot : Edit!Own(s)' = Edit!Own(s)
    BY <1>2 DEF EditInv, Edit!TypeOK, Edit!Own
  <2> QED
    BY <1>2, <2>1, SavesKept DEF EditInv
<1>3. CASE Edit!OpenCreate
  <2>1. opens' \in 0..MaxOpens
    BY <1>1, <1>3, EditFacts DEF Edit!OpenCreate, Edit!Asked
  <2>2. form' \in Edit!Form
    BY <1>3, EditFacts DEF Edit!OpenCreate, Edit!Form, Edit!Mode
  <2> QED
    BY <1>2, <1>3, <2>1, <2>2, EditFacts DEF Edit!OpenCreate
<1>4. ASSUME NEW s \in Slot, NEW q \in Edit!FullName, Edit!AskEdit(s, q) PROVE EditInv'
  <2>1. opens' \in 0..MaxOpens
    BY <1>1, <1>4, EditFacts DEF Edit!AskEdit, Edit!Asked
  <2>2. fetching' \in [Slot -> Edit!FullName \cup {Edit!Idle}]
    BY <1>4, EditFacts DEF Edit!AskEdit
  <2> QED
    BY <1>2, <1>4, <2>1, <2>2, EditFacts DEF Edit!AskEdit
<1>5. ASSUME NEW s \in Slot, Edit!EditArrives(s) PROVE EditInv'
  <2>1. fetching[s] \in Edit!FullName /\ fetching' \in [Slot -> Edit!FullName \cup {Edit!Idle}]
    BY <1>5, EditFacts DEF Edit!EditArrives
  <2>2. deployment[fetching[s].parent] \in Edit!Deployment
    BY <2>1, EditFacts DEF Edit!FullName
  <2>3. form' \in Edit!Form
    BY <1>5, <2>1, <2>2, EditFacts, FilledType DEF Edit!EditArrives
  <2> QED
    BY <1>2, <1>5, <2>1, <2>3, EditFacts DEF Edit!EditArrives
<1>6. CASE Edit!TypeNames
  <2>1. PICK p \in Parent \cup {Edit!NoParent}, rs \in SUBSET Sub, m \in Edit!Mode :
          form' = [form EXCEPT !.mode = m, !.parent = p, !.rows = rs]
    BY <1>6 DEF Edit!TypeNames
  <2>2. form' \in Edit!Form
    BY <2>1, EditFacts DEF Edit!Form
  <2> QED
    BY <1>2, <1>6, <2>2, EditFacts DEF Edit!TypeNames, Edit!Types
<1>7. CASE Edit!TypeCode \/ Edit!TypeExtras
  <2>1. form' \in Edit!Form
    BY <1>7, EditFacts DEF Edit!TypeCode, Edit!TypeExtras, Edit!Form
  <2> QED
    BY <1>2, <1>7, <2>1, EditFacts DEF Edit!TypeCode, Edit!TypeExtras, Edit!Types
<1>8. CASE Edit!TypeTokenVault
  <2>1. form.config \in Edit!Config
    BY <1>8, EditFacts DEF Edit!TypeTokenVault, Edit!Form
  <2>2. form.config.queue \in Edit!FullName /\ form.config.deployment \in Edit!Deployment
    BY <2>1 DEF Edit!Config
  <2>3. form' \in Edit!Form
    BY <1>8, <2>2, EditFacts, FilledType DEF Edit!TypeTokenVault
  <2> QED
    BY <1>2, <1>8, <2>3, EditFacts DEF Edit!TypeTokenVault, Edit!Types
<1>9. CASE Edit!Dismiss
  BY <1>2, <1>9, EditFacts, BlankType DEF Edit!Dismiss
<1>10. CASE Edit!LeavePage
  BY <1>10, LeavePageStep
<1>11. ASSUME NEW s \in Slot, Edit!Submit(s) PROVE EditInv'
  BY <1>11, SubmitStep
<1>12. ASSUME NEW s \in Slot, NEW r \in Sub, Edit!SaveRow(s, r) PROVE EditInv'
  BY <1>12, SaveRowStep
<1>13. ASSUME NEW s \in Slot, Edit!SaveEnds(s) PROVE EditInv'
  BY <1>13, SaveEndsStep
<1>14. ASSUME NEW q \in Edit!FullName, Edit!DeleteQueue(q) PROVE EditInv'
  <2>1. Edit!TypeOK' /\ \A s \in Slot : Edit!Own(s)' = Edit!Own(s)
    BY <1>14, EditFacts DEF Edit!DeleteQueue, EditInv, Edit!TypeOK, Edit!Own
  <2> QED
    BY <1>14, <2>1, SavesKept DEF EditInv, Edit!DeleteQueue
<1>15. CASE UNCHANGED editVars
  BY <1>2, <1>15, EditFacts DEF editVars
<1> QED
  BY <1>3, <1>4, <1>5, <1>6, <1>7, <1>8, <1>9, <1>10, <1>11, <1>12, <1>13, <1>14, <1>15 DEF Edit!Next

-----------------------------------------------------------------------------
(* The autoscaling page.  Only a refresh that could not read the status leaves the list     *)
(* empty, and it says so until another one starts.                                          *)
EmptyIsExplained == shown.rows = "empty" => shown.error = "status" \/ \E r \in Slot : refresh[r] # Scale!Idle
ScaleInv == Scale!TypeOK /\ EmptyIsExplained

LEMMA ScaleInit == Scale!Init \/ ScaleClosed => ScaleInv
<1> SUFFICES ASSUME Scale!Init \/ ScaleClosed PROVE ScaleInv
  OBVIOUS
<1>1. MaxForms \in Nat
  BY PagesAssumption DEF PagesAssumption, Scale!ScalingPageAssumption
<1>2. /\ shown = [rows |-> "nothing", guarded |-> FALSE, error |-> "none", disabled |-> FALSE]
      /\ providerForm = Scale!Closed /\ switching = "none" /\ forms = 0
      /\ providerTypes \in {"asked", "unknown"}
  BY DEF Scale!Init, ScaleClosed
<1>3. guarded \in BOOLEAN /\ mounted \in BOOLEAN /\ scalePoll \in BOOLEAN
  BY DEF Scale!Init, ScaleClosed
<1>4. refresh \in [Slot -> Scale!Refresh \cup {Scale!Idle}]
  <2>1. Scale!Fresh \in Scale!Refresh
    BY DEF Scale!Fresh, Scale!Refresh
  <2>2. refresh \in [Slot -> {Scale!Fresh, Scale!Idle}]
    BY DEF Scale!Init, ScaleClosed
  <2> QED
    BY <2>1, <2>2
<1>5. shown \in Scale!Shown
  BY <1>2 DEF Scale!Shown
<1>6. providerForm \in Scale!ProviderForm
  BY <1>2 DEF Scale!ProviderForm, Scale!Closed
<1>7. Scale!TypeOK
  BY <1>1, <1>2, <1>3, <1>4, <1>5, <1>6 DEF Scale!TypeOK, Scale!Asks
<1> QED
  BY <1>2, <1>7 DEF ScaleInv, EmptyIsExplained

\* A refresh that starts keeps the list, and is what an empty one waits for.
LEMMA StartsStep ==
  ASSUME Scale!TypeOK, NEW r \in Slot, Scale!Starts(r)
  PROVE  refresh' \in [Slot -> Scale!Refresh \cup {Scale!Idle}] /\ shown' \in Scale!Shown /\ EmptyIsExplained'
<1>1. refresh \in [Slot -> Scale!Refresh \cup {Scale!Idle}] /\ shown \in Scale!Shown
  BY DEF Scale!TypeOK
<1>2. Scale!Fresh \in Scale!Refresh /\ Scale!Fresh # Scale!Idle
  BY DEF Scale!Fresh, Scale!Refresh, Scale!Idle
<1>3. refresh' = [refresh EXCEPT ![r] = Scale!Fresh] /\ shown' = [shown EXCEPT !.error = "none"]
  BY DEF Scale!Starts
<1>4. refresh'[r] # Scale!Idle
  BY <1>1, <1>2, <1>3
<1>5. refresh' \in [Slot -> Scale!Refresh \cup {Scale!Idle}]
  BY <1>1, <1>2, <1>3
<1>6. shown' \in Scale!Shown
  BY <1>1, <1>3 DEF Scale!Shown
<1> QED
  BY <1>4, <1>5, <1>6 DEF EmptyIsExplained

\* The invariant, and with it that what was typed into a form that edits is kept.
LEMMA ScaleStep ==
  ASSUME ScaleInv, [Scale!Next]_scaleVars
  PROVE  /\ ScaleInv'
         /\ providerForm.typed /\ providerForm.mode = "edit" /\ providerForm.open /\ providerForm'.open
              => providerForm'.typed
<1> DEFINE Kept == providerForm.typed /\ providerForm.mode = "edit" /\ providerForm.open /\ providerForm'.open
                     => providerForm'.typed
<1>1. MaxForms \in Nat
  BY PagesAssumption DEF PagesAssumption, Scale!ScalingPageAssumption
<1>2. /\ guarded \in BOOLEAN /\ mounted \in BOOLEAN /\ scalePoll \in BOOLEAN
      /\ shown \in Scale!Shown /\ refresh \in [Slot -> Scale!Refresh \cup {Scale!Idle}]
      /\ providerTypes \in {"asked", "known", "unknown"} /\ switching \in Scale!Asks
      /\ providerForm \in Scale!ProviderForm /\ forms \in 0..MaxForms
  BY DEF ScaleInv, Scale!TypeOK
<1>3. Scale!TypeOK /\ EmptyIsExplained
  BY DEF ScaleInv
<1>4. Scale!Refresh \cap {Scale!Idle} = {}
  BY DEF Scale!Refresh, Scale!Idle
\* Steps that change the form alone.
<1>5. ASSUME Scale!FormOnly, providerForm' \in Scale!ProviderForm, forms' \in 0..MaxForms PROVE ScaleInv'
  BY <1>2, <1>3, <1>5 DEF Scale!FormOnly, ScaleInv, Scale!TypeOK, EmptyIsExplained
<1>6. ASSUME NEW r \in Slot, Scale!Poll(r) \/ Scale!ProviderDeleted(r) PROVE ScaleInv' /\ Kept
  <2>1. refresh' \in [Slot -> Scale!Refresh \cup {Scale!Idle}] /\ shown' \in Scale!Shown /\ EmptyIsExplained'
    BY <1>3, <1>6, StartsStep DEF Scale!Poll, Scale!ProviderDeleted
  <2> QED
    BY <1>2, <1>6, <2>1 DEF Scale!Poll, Scale!ProviderDeleted, Scale!page, ScaleInv, Scale!TypeOK
<1>7. ASSUME NEW r \in Slot, Scale!StatusRead(r) PROVE ScaleInv' /\ Kept
  <2>1. PICK a \in Scale!Answers : refresh' = [refresh EXCEPT ![r] = a]
    BY <1>7 DEF Scale!StatusRead
  <2>2. a \in Scale!Refresh
    <3>1. Scale!Fresh \in Scale!Refresh
      BY DEF Scale!Fresh, Scale!Refresh
    <3>2. [Scale!Fresh EXCEPT !.status = "error"] \in Scale!Refresh
      BY <3>1 DEF Scale!Refresh
    <3>3. [status |-> "ok", guarded |-> guarded] \in Scale!Refresh
      BY <1>2 DEF Scale!Refresh
    <3> QED
      BY <3>2, <3>3 DEF Scale!Answers
  <2>3. refresh[r] # Scale!Idle
    BY <1>7 DEF Scale!StatusRead, Scale!Idle
  <2>4. refresh' \in [Slot -> Scale!Refresh \cup {Scale!Idle}] /\ refresh'[r] # Scale!Idle
    BY <1>2, <1>4, <2>1, <2>2
  <2>5. UNCHANGED <<guarded, shown, mounted, scalePoll, providerTypes, switching, providerForm, forms>>
    BY <1>7 DEF Scale!StatusRead, Scale!page
  <2>6. EmptyIsExplained'
    BY <2>4 DEF EmptyIsExplained
  <2> QED
    BY <1>2, <2>4, <2>5, <2>6 DEF ScaleInv, Scale!TypeOK
<1>8. ASSUME NEW r \in Slot, Scale!ProvidersRead(r) PROVE ScaleInv' /\ Kept
  <2>1. refresh[r] \in Scale!Refresh
    BY <1>2, <1>8 DEF Scale!ProvidersRead, Scale!Idle
  <2>2. PICK p \in {"ok", "disabled", "error"} : shown' = Scale!ShownAfter(refresh[r], p)
    BY <1>8 DEF Scale!ProvidersRead
  <2>3. shown' \in Scale!Shown
    BY <2>1, <2>2 DEF Scale!ShownAfter, Scale!Shown, Scale!Refresh
  <2>4. shown'.rows = "empty" => shown'.error = "status"
    BY <1>8, <2>2 DEF Scale!ShownAfter, Scale!ProvidersRead
  <2>5. refresh' \in [Slot -> Scale!Refresh \cup {Scale!Idle}]
    BY <1>2, <1>8 DEF Scale!ProvidersRead
  <2>6. providerForm' = providerForm \/ providerForm' = Scale!Closed
    BY <1>8 DEF Scale!ProvidersRead
  <2>7. Scale!Closed \in Scale!ProviderForm /\ ~Scale!Closed.open
    BY DEF Scale!Closed, Scale!ProviderForm
  <2>8. UNCHANGED <<guarded, mounted, scalePoll, providerTypes, switching, forms>>
    BY <1>8 DEF Scale!ProvidersRead
  <2>9. Scale!TypeOK'
    BY <1>2, <2>3, <2>5, <2>6, <2>7, <2>8 DEF Scale!TypeOK
  <2>10. Kept
    BY <2>6, <2>7
  <2> QED
    BY <2>4, <2>9, <2>10 DEF ScaleInv, EmptyIsExplained
<1>9. CASE Scale!TypesArrive
  <2>1. Scale!Refilled(providerForm) \in Scale!ProviderForm /\ (providerForm.mode = "edit" => Scale!Refilled(providerForm) = providerForm)
    BY <1>2 DEF Scale!Refilled, Scale!ProviderForm
  <2>2. scalePoll' \in BOOLEAN
    BY <1>9 DEF Scale!TypesArrive
  <2>3. /\ providerForm' = Scale!Refilled(providerForm) /\ providerTypes' \in {"known", "unknown"}
        /\ UNCHANGED <<guarded, shown, refresh, mounted, switching, forms>>
    BY <1>9 DEF Scale!TypesArrive
  <2>4. Scale!TypeOK'
    BY <1>2, <2>1, <2>2, <2>3 DEF Scale!TypeOK
  <2>5. EmptyIsExplained'
    BY <1>3, <2>3 DEF EmptyIsExplained
  <2>6. Kept
    BY <2>1, <2>3
  <2> QED
    BY <2>4, <2>5, <2>6 DEF ScaleInv
<1>10. CASE Scale!Leave
  <2>1. mounted' \in BOOLEAN /\ scalePoll' \in BOOLEAN
    BY <1>10 DEF Scale!Leave
  <2> QED
    BY <1>2, <1>3, <1>10, <2>1 DEF Scale!Leave, ScaleInv, Scale!TypeOK, EmptyIsExplained
<1>11. CASE Scale!ToggleProtect
  BY <1>2, <1>3, <1>11 DEF Scale!ToggleProtect, ScaleInv, Scale!TypeOK, Scale!Asks, EmptyIsExplained
<1>12. ASSUME NEW r \in Slot, Scale!ProtectDone(r) PROVE ScaleInv' /\ Kept
  <2>1. guarded' \in BOOLEAN
    BY <1>2, <1>12 DEF Scale!ProtectDone
  <2>2. refresh' \in [Slot -> Scale!Refresh \cup {Scale!Idle}] /\ shown' \in Scale!Shown /\ EmptyIsExplained'
    <3>1. CASE Scale!Starts(r)
      BY <1>3, <3>1, StartsStep
    <3>2. CASE UNCHANGED <<guarded, shown, refresh>>
      BY <1>2, <1>3, <3>2 DEF EmptyIsExplained
    <3> QED
      BY <1>12, <3>1, <3>2 DEF Scale!ProtectDone
  <2>3. switching' = "none" /\ UNCHANGED <<mounted, scalePoll, providerTypes, providerForm, forms>>
    BY <1>12 DEF Scale!ProtectDone
  <2> QED
    BY <1>2, <2>1, <2>2, <2>3 DEF ScaleInv, Scale!TypeOK, Scale!Asks
<1>13. ASSUME NEW mode \in {"create", "edit"}, Scale!OpenProvider(mode) PROVE ScaleInv' /\ Kept
  <2>1. providerForm' \in Scale!ProviderForm
    BY <1>2, <1>13 DEF Scale!OpenProvider, Scale!ProviderForm
  <2>2. forms' \in 0..MaxForms
    BY <1>1, <1>2, <1>13 DEF Scale!OpenProvider
  <2> QED
    BY <1>5, <1>13, <2>1, <2>2 DEF Scale!OpenProvider
<1>14. CASE Scale!TypeIn
  BY <1>2, <1>5, <1>14 DEF Scale!TypeIn, Scale!ProviderForm
<1>15. CASE Scale!DismissProvider
  BY <1>2, <1>5, <1>15 DEF Scale!DismissProvider, Scale!ProviderForm
<1>16. CASE Scale!SubmitProvider
  BY <1>2, <1>5, <1>16 DEF Scale!SubmitProvider, Scale!ProviderForm
<1>17. ASSUME NEW r \in Slot, Scale!ProviderSaved(r) PROVE ScaleInv' /\ Kept
  <2>1. refresh' \in [Slot -> Scale!Refresh \cup {Scale!Idle}] /\ shown' \in Scale!Shown /\ EmptyIsExplained'
    <3>1. CASE Scale!Starts(r)
      BY <1>3, <3>1, StartsStep
    <3>2. CASE UNCHANGED <<shown, refresh>>
      BY <1>2, <1>3, <3>2 DEF EmptyIsExplained
    <3> QED
      BY <1>17, <3>1, <3>2 DEF Scale!ProviderSaved
  <2>2. PICK x \in {"no"} \cup Slot : providerForm' = [providerForm EXCEPT !.saving = x]
    BY <1>17 DEF Scale!ProviderSaved
  <2>3. providerForm' \in Scale!ProviderForm /\ providerForm'.typed = providerForm.typed
    BY <1>2, <2>2 DEF Scale!ProviderForm
  <2>4. UNCHANGED <<guarded, mounted, scalePoll, providerTypes, switching, forms>>
    BY <1>17 DEF Scale!ProviderSaved
  <2> QED
    BY <1>2, <2>1, <2>3, <2>4 DEF ScaleInv, Scale!TypeOK
<1>18. CASE Scale!ServerMoves
  <2>1. guarded' \in BOOLEAN
    BY <1>18 DEF Scale!ServerMoves
  <2> QED
    BY <1>2, <1>3, <1>18, <2>1 DEF Scale!ServerMoves, Scale!page, ScaleInv, Scale!TypeOK, EmptyIsExplained
<1>19. CASE UNCHANGED scaleVars
  BY <1>2, <1>3, <1>19 DEF scaleVars, ScaleInv, Scale!TypeOK, EmptyIsExplained
<1> QED
  BY <1>6, <1>7, <1>8, <1>9, <1>10, <1>11, <1>12, <1>13, <1>14, <1>15, <1>16, <1>17, <1>18, <1>19 DEF Scale!Next

LEMMA ScaleSafe == ScaleInv => EmptyMeansNone
BY DEF ScaleInv, EmptyIsExplained, EmptyMeansNone, Scale!EmptyMeansNone

-----------------------------------------------------------------------------
(* The form of the alert settings.  The server keeps settings that were loaded and typed    *)
(* over, loads bring what the server keeps, and no form is shown before one has come.       *)
LoadsStored == \A l \in Slot : settingsLoad[l] \in Alert!Stored \cup {"idle", "waiting", "failed"}
FormFromServer == settingsLoaded => alertForm.from \in Alert!Stored /\ alertForm.settings \in Alert!Stored
PostFromServer == post # Alert!Nothing => post.from \in Alert!Stored /\ post.settings \in Alert!Stored
AlertInv == Alert!TypeOK /\ alertStored \in Alert!Stored /\ LoadsStored /\ FormFromServer /\ PostFromServer

LEMMA AlertInit == Alert!Init \/ AlertClosed => AlertInv
<1>1. MaxEdits \in Nat
  BY PagesAssumption DEF PagesAssumption, Alert!AlertFormAssumption
<1> SUFFICES ASSUME Alert!Init \/ AlertClosed PROVE AlertInv
  OBVIOUS
<1>2. /\ alertForm = [from |-> "empty", settings |-> "empty"] /\ settingsLoaded = FALSE
      /\ saved = "empty" /\ post = Alert!Nothing /\ saveLoad = "none" /\ edits = 0
      /\ alertStored \in Alert!Stored
  BY DEF Alert!Init, AlertClosed, Alert!Stored
<1>3. editing = FALSE /\ testing = FALSE
  BY DEF Alert!Init, AlertClosed
<1>4. settingsLoad \in [Slot -> {"idle", "waiting"}]
  BY DEF Alert!Init, AlertClosed
<1>5. alertForm \in Alert!Filled
  BY <1>2 DEF Alert!Filled, Alert!Settings
<1>6. settingsLoaded \in BOOLEAN /\ editing \in BOOLEAN /\ testing \in BOOLEAN
  BY <1>2, <1>3
<1>7. Alert!TypeOK
  BY <1>1, <1>2, <1>4, <1>5, <1>6 DEF Alert!TypeOK, Alert!Settings
<1>8. LoadsStored
  BY <1>4 DEF LoadsStored
<1> QED
  BY <1>2, <1>7, <1>8 DEF AlertInv, FormFromServer, PostFromServer

LEMMA AlertStep ==
  ASSUME AlertInv, [Alert!Next]_alertVars
  PROVE  AlertInv'
<1>1. MaxEdits \in Nat
  BY PagesAssumption DEF PagesAssumption, Alert!AlertFormAssumption
<1>2. /\ alertStored \in Alert!Stored /\ alertForm \in Alert!Filled /\ post \in Alert!Filled \cup {Alert!Nothing}
      /\ settingsLoaded \in BOOLEAN /\ editing \in BOOLEAN /\ testing \in BOOLEAN /\ saved \in Alert!Settings
      /\ settingsLoad \in [Slot -> Alert!Settings \cup {"idle", "waiting", "failed"}]
      /\ saveLoad \in {"none"} \cup Slot /\ edits \in 0..MaxEdits
  BY DEF AlertInv, Alert!TypeOK
<1>3. LoadsStored /\ FormFromServer /\ PostFromServer
  BY DEF AlertInv
<1>4. Alert!Stored \subseteq Alert!Settings
  BY DEF Alert!Settings
<1> USE DEF AlertInv, Alert!TypeOK
<1>5. ASSUME NEW l \in Slot, Alert!ServeLoad(l) PROVE AlertInv'
  <2>1. PICK a \in {alertStored, "failed"} : settingsLoad' = [settingsLoad EXCEPT ![l] = a]
    BY <1>5 DEF Alert!ServeLoad
  <2>2. settingsLoad' \in [Slot -> Alert!Settings \cup {"idle", "waiting", "failed"}] /\ LoadsStored'
    BY <1>2, <1>3, <1>4, <2>1 DEF LoadsStored
  <2> QED
    BY <1>2, <1>3, <1>5, <2>2 DEF Alert!ServeLoad, FormFromServer, PostFromServer
<1>6. ASSUME NEW l \in Slot, Alert!LoadArrives(l) PROVE AlertInv'
  <2>1. settingsLoad' \in [Slot -> Alert!Settings \cup {"idle", "waiting", "failed"}] /\ LoadsStored'
    BY <1>2, <1>3, <1>6 DEF Alert!LoadArrives, LoadsStored
  <2>2. saveLoad' \in {"none"} \cup Slot /\ editing' \in BOOLEAN
    BY <1>2, <1>6 DEF Alert!LoadArrives
  <2>3. UNCHANGED <<alertStored, post, testing, edits>>
    BY <1>6 DEF Alert!LoadArrives
  <2>4. CASE settingsLoad[l] = "failed"
    <3>1. UNCHANGED <<alertForm, saved, settingsLoaded>>
      BY <1>6, <2>4 DEF Alert!LoadArrives
    <3> QED
      BY <1>2, <1>3, <2>1, <2>2, <2>3, <3>1 DEF FormFromServer, PostFromServer
  <2>5. CASE settingsLoad[l] # "failed"
    <3>1. settingsLoad[l] \in Alert!Stored
      BY <1>3, <1>6, <2>5 DEF Alert!LoadArrives, LoadsStored
    <3>2. /\ alertForm' = [from |-> settingsLoad[l], settings |-> settingsLoad[l]]
          /\ saved' = settingsLoad[l] /\ settingsLoaded' = TRUE
      BY <1>6, <2>5 DEF Alert!LoadArrives
    <3>3. alertForm' \in Alert!Filled /\ FormFromServer' /\ saved' \in Alert!Settings
      BY <1>4, <3>1, <3>2 DEF Alert!Filled, FormFromServer
    <3>4. settingsLoaded' \in BOOLEAN
      BY <3>2
    <3> QED
      BY <1>2, <1>3, <2>1, <2>2, <2>3, <3>3, <3>4 DEF PostFromServer
  <2> QED
    BY <2>4, <2>5
<1>7. ASSUME NEW l \in Slot, Alert!CancelEdit(l) PROVE AlertInv'
  <2>1. settingsLoad' \in [Slot -> Alert!Settings \cup {"idle", "waiting", "failed"}] /\ LoadsStored'
    BY <1>2, <1>3, <1>7 DEF Alert!CancelEdit, Alert!LoadSettings, LoadsStored
  <2>2. editing' \in BOOLEAN
    BY <1>7 DEF Alert!CancelEdit
  <2> QED
    BY <1>2, <1>3, <1>7, <2>1, <2>2 DEF Alert!CancelEdit, FormFromServer, PostFromServer
<1>8. ASSUME NEW l \in Slot, Alert!SaveAnswered(l) PROVE AlertInv'
  <2>1. post # Alert!Nothing /\ post.settings \in Alert!Stored
    BY <1>3, <1>8 DEF Alert!SaveAnswered, PostFromServer
  <2>2. alertStored' \in Alert!Stored /\ post' = Alert!Nothing
    BY <1>2, <1>8, <2>1 DEF Alert!SaveAnswered
  <2>3. /\ settingsLoad' \in [Slot -> Alert!Settings \cup {"idle", "waiting", "failed"}] /\ LoadsStored'
        /\ saveLoad' \in {"none"} \cup Slot
    BY <1>2, <1>3, <1>8 DEF Alert!SaveAnswered, Alert!LoadSettings, LoadsStored
  <2>4. UNCHANGED <<alertForm, settingsLoaded, saved, editing, testing, edits>>
    BY <1>8 DEF Alert!SaveAnswered
  <2> QED
    BY <1>2, <1>3, <1>4, <2>2, <2>3, <2>4 DEF FormFromServer, PostFromServer
<1>9. CASE Alert!Edit
  <2>1. editing' \in BOOLEAN
    BY <1>9 DEF Alert!Edit
  <2> QED
    BY <1>2, <1>3, <1>9, <2>1 DEF Alert!Edit, LoadsStored, FormFromServer, PostFromServer
<1>10. CASE Alert!TypeIn
  <2>1. PICK s \in Alert!Stored : alertForm' = [alertForm EXCEPT !.settings = s]
    BY <1>10 DEF Alert!TypeIn
  <2>2. alertForm' \in Alert!Filled /\ alertForm'.from = alertForm.from /\ alertForm'.settings \in Alert!Stored
    BY <1>2, <1>4, <2>1 DEF Alert!Filled
  <2>3. edits' \in 0..MaxEdits
    BY <1>1, <1>2, <1>10 DEF Alert!TypeIn
  <2> QED
    BY <1>2, <1>3, <1>10, <2>2, <2>3 DEF Alert!TypeIn, LoadsStored, FormFromServer, PostFromServer
<1>11. CASE Alert!Test
  <2>1. testing' \in BOOLEAN
    BY <1>11 DEF Alert!Test
  <2> QED
    BY <1>2, <1>3, <1>11, <2>1 DEF Alert!Test, LoadsStored, FormFromServer, PostFromServer
<1>12. CASE Alert!Submit
  BY <1>2, <1>3, <1>12 DEF Alert!Submit, Alert!ShowForm, LoadsStored, FormFromServer, PostFromServer
<1>13. CASE UNCHANGED alertVars
  BY <1>2, <1>3, <1>13 DEF alertVars, LoadsStored, FormFromServer, PostFromServer
<1> QED
  BY <1>5, <1>6, <1>7, <1>8, <1>9, <1>10, <1>11, <1>12, <1>13 DEF Alert!Next

\* No post holds a form that no load has filled.
LEMMA AlertSafe == AlertInv => SavesWhatWasLoaded
BY DEF AlertInv, PostFromServer, SavesWhatWasLoaded, Alert!SavesWhatWasLoaded

-----------------------------------------------------------------------------
(* The page of a worker.  Every stream that is open or will be opened again comes from a    *)
(* break, but for the first.                                                                *)
WorkInv == Work!TypeOK /\ strays + reconnects <= breaks /\ Work!OneStream

LEMMA WorkInit ==
  Work!Init \/ WorkClosed => WorkInv
<1>1. MaxBreaks \in Nat /\ Nobody \notin Worker
  BY PagesAssumption DEF PagesAssumption, Work!WorkerPageAssumption
<1>2. CASE Work!Init
  <2>1. Work!TypeOK /\ strays + reconnects <= breaks
    BY <1>1, <1>2 DEF Work!Init, Work!TypeOK
  <2>2. Work!OneStream
    BY <1>1, <1>2 DEF Work!Init, Work!OneStream
  <2> QED
    BY <2>1, <2>2 DEF WorkInv
<1>3. CASE WorkClosed
  <2> DEFINE w == CHOOSE x \in Worker : TRUE
  <2>1. workerId = w /\ w \in Worker
    BY <1>3, PagesAssumption DEF WorkClosed, PagesAssumption
  <2> HIDE DEF w
  <2>2. /\ onPage = FALSE /\ listed = {} /\ eventSource = Nobody
        /\ strays = 0 /\ reconnects = 0 /\ logLines = {} /\ logsLoading = Nobody
        /\ confirming = Nobody /\ sending = Nobody /\ breaks = 0
    BY <1>3 DEF WorkClosed
  <2>3. Work!TypeOK
   <3>1. workerId \in Worker /\ onPage \in BOOLEAN
    BY <1>1, <2>1, <2>2
   <3>2. listed \subseteq Worker
    BY <1>1, <2>1, <2>2
   <3>3. eventSource \in Worker \cup {Nobody}
    BY <1>1, <2>1, <2>2
   <3>4. strays \in 0..MaxBreaks /\ reconnects \in 0..MaxBreaks /\ breaks \in 0..MaxBreaks
    BY <1>1, <2>1, <2>2
   <3>5. logLines \subseteq Worker
    BY <1>1, <2>1, <2>2
   <3>6. {logsLoading, confirming, sending} \subseteq Worker \cup {Nobody}
    BY <1>1, <2>1, <2>2
   <3> QED
    BY <3>1, <3>2, <3>3, <3>4, <3>5, <3>6 DEF Work!TypeOK
  <2>4. strays + reconnects <= breaks
    BY <2>2
  <2> QED
    BY <2>2, <2>3 DEF Work!OneStream, WorkInv
<1> QED
  BY <1>2, <1>3

LEMMA WorkStep ==
  ASSUME WorkInv, [Work!Next]_workVars
  PROVE  WorkInv'
<1> USE DEF WorkInv, Work!TypeOK, Work!OneStream
<1>1. MaxBreaks \in Nat /\ Nobody \notin Worker
  BY PagesAssumption DEF PagesAssumption, Work!WorkerPageAssumption
<1>2. CASE Work!LogsArrive
  BY <1>1, <1>2 DEF Work!LogsArrive
<1>3. CASE Work!LineArrives
  BY <1>1, <1>3 DEF Work!LineArrives
<1>4. CASE Work!StreamBreaks
  BY <1>1, <1>4 DEF Work!StreamBreaks
<1>5. CASE Work!Reconnect
  BY <1>1, <1>5 DEF Work!Reconnect
<1>6. CASE Work!Leave
  BY <1>1, <1>6 DEF Work!Leave
<1>7. CASE Work!WorkersArrive \/ Work!AskControl \/ Work!Cancel \/ Work!Control \/ Work!ControlAnswered
  BY <1>1, <1>7 DEF Work!WorkersArrive, Work!AskControl, Work!Cancel, Work!Control, Work!ControlAnswered, Work!log
<1>8. ASSUME NEW w \in Worker, Work!OpenWorker(w) PROVE WorkInv'
  BY <1>1, <1>8 DEF Work!OpenWorker, Work!log
<1>9. CASE UNCHANGED workVars
  BY <1>9 DEF workVars
<1> QED
  BY <1>2, <1>3, <1>4, <1>5, <1>6, <1>7, <1>8, <1>9 DEF Work!Next

-----------------------------------------------------------------------------
(* The playground.  A poll asks for the tasks of some send.                                 *)
PollsOfSends == \A p \in Slot : poll[p] # Play!Idle => poll[p].task.send \in Play!Send
PlayInv == Play!TypeOK /\ PollsOfSends /\ FollowsLastSend

LEMMA PlayInit == Play!Init \/ PlayClosed => PlayInv
<1>1. MaxSends \in Nat
  BY PagesAssumption DEF PagesAssumption, Play!PlaygroundAssumption
<1> SUFFICES ASSUME Play!Init \/ PlayClosed PROVE PlayInv
  OBVIOUS
<1>2. /\ tasksOf = [n \in Play!Send |-> "none"] /\ sent = 0 /\ waiting = {} /\ sendingFlag = FALSE
      /\ history \in BOOLEAN /\ answered = 0 /\ tracked = Play!NoTask /\ poll = [p \in Slot |-> Play!Idle]
  BY DEF Play!Init, PlayClosed, Play!Send
<1>3. Play!NoTask \in Play!TrackedTask /\ Play!NoTask.send = 0
  BY <1>1 DEF Play!NoTask, Play!TrackedTask, Play!TaskState
<1>4. sendingFlag \in BOOLEAN /\ history \in BOOLEAN
  BY <1>2
<1>5. Play!TypeOK
  BY <1>1, <1>2, <1>3, <1>4 DEF Play!TypeOK, Play!TaskState
<1> QED
  BY <1>2, <1>3, <1>5 DEF PlayInv, PollsOfSends, FollowsLastSend, Play!FollowsLastSend

\* A poll that starts asks for tasks that were sent.
LEMMA PollTrackedStep ==
  ASSUME PlayInv, NEW p \in Slot, NEW t \in Play!TrackedTask, Play!PollTracked(p, t)
  PROVE  poll' \in [Slot -> Play!Poll \cup {Play!Idle}] /\ PollsOfSends'
<1>1. poll \in [Slot -> Play!Poll \cup {Play!Idle}] /\ MaxSends \in Nat
  BY PagesAssumption DEF PlayInv, Play!TypeOK, PagesAssumption, Play!PlaygroundAssumption
<1>2. CASE t.send # 0 /\ t.state # "ended"
  <2> DEFINE q == [kind |-> "asked", task |-> t]
  <2>1. q \in Play!Poll /\ q.task.send \in Play!Send
    BY <1>1, <1>2 DEF Play!Poll, Play!TrackedTask, Play!Send
  <2>2. poll' = [poll EXCEPT ![p] = q]
    BY <1>2 DEF Play!PollTracked
  <2> HIDE DEF q
  <2> QED
    BY <1>1, <2>1, <2>2 DEF PlayInv, PollsOfSends
<1>3. CASE ~(t.send # 0 /\ t.state # "ended")
  <2>1. poll' = poll
    BY <1>1, <1>3 DEF Play!PollTracked
  <2> QED
    BY <1>1, <2>1 DEF PlayInv, PollsOfSends
<1> QED
  BY <1>2, <1>3

LEMMA PlayStep ==
  ASSUME PlayInv, [Play!Next]_playVars
  PROVE  PlayInv'
<1>1. MaxSends \in Nat
  BY PagesAssumption DEF PagesAssumption, Play!PlaygroundAssumption
<1>2. /\ tasksOf \in [Play!Send -> Play!TaskState] /\ sent \in 0..MaxSends /\ answered \in 0..MaxSends
      /\ waiting \subseteq Play!Send /\ sendingFlag \in BOOLEAN /\ history \in BOOLEAN
      /\ tracked \in Play!TrackedTask /\ poll \in [Slot -> Play!Poll \cup {Play!Idle}]
      /\ PollsOfSends /\ tracked.send = answered
  BY DEF PlayInv, Play!TypeOK, FollowsLastSend, Play!FollowsLastSend
<1> USE DEF PlayInv, Play!TypeOK, FollowsLastSend, Play!FollowsLastSend
<1>3. CASE Play!HandleSend \/ Play!HandleResend
  <2>1. sent' \in 0..MaxSends /\ waiting' \subseteq Play!Send
    <3>1. sent < MaxSends /\ sent' = sent + 1 /\ waiting' = waiting \cup {sent'}
      BY <1>3 DEF Play!HandleSend, Play!HandleResend, Play!Sends
    <3>2. sent' \in 0..MaxSends /\ sent' \in Play!Send
      BY <1>1, <1>2, <3>1 DEF Play!Send
    <3> QED
      BY <1>2, <3>1, <3>2
  <2> QED
    BY <1>2, <1>3, <2>1 DEF Play!HandleSend, Play!HandleResend, Play!Sends, PollsOfSends
<1>4. CASE Play!ClearHistory
  BY <1>2, <1>4 DEF Play!ClearHistory, PollsOfSends
<1>5. ASSUME NEW n \in Play!Send, Play!Enqueue(n) \/ Play!TaskMoves(n) PROVE PlayInv'
  <2>1. tasksOf' \in [Play!Send -> Play!TaskState]
    BY <1>2, <1>5 DEF Play!Enqueue, Play!TaskMoves, Play!TaskState
  <2> QED
    BY <1>2, <1>5, <2>1 DEF Play!Enqueue, Play!TaskMoves, PollsOfSends
<1>6. ASSUME NEW n \in Play!Send, Play!SendFailed(n) PROVE PlayInv'
  BY <1>2, <1>6 DEF Play!SendFailed, PollsOfSends
<1>7. ASSUME NEW n \in Play!Send, NEW p \in Slot, Play!SendAnswered(n, p) PROVE PlayInv'
  <2>1. tracked' \in Play!TrackedTask /\ tracked'.send = n /\ answered' = n /\ n \in 0..MaxSends
    BY <1>1, <1>7 DEF Play!SendAnswered, Play!TrackedTask, Play!Send, Play!TaskState
  <2>2. poll' \in [Slot -> Play!Poll \cup {Play!Idle}] /\ PollsOfSends'
    BY <1>7, <2>1, PollTrackedStep DEF Play!SendAnswered
  <2> QED
    BY <1>2, <1>7, <2>1, <2>2 DEF Play!SendAnswered
<1>8. ASSUME NEW p \in Slot, Play!PollTimer(p) PROVE PlayInv'
  <2>1. poll' \in [Slot -> Play!Poll \cup {Play!Idle}] /\ PollsOfSends'
    BY <1>2, <1>8, PollTrackedStep DEF Play!PollTimer
  <2> QED
    BY <1>2, <1>8, <2>1 DEF Play!PollTimer
<1>9. ASSUME NEW p \in Slot, Play!Serve(p) PROVE PlayInv'
  <2>1. poll[p] \in Play!Poll /\ poll[p].task.send \in Play!Send
    BY <1>2, <1>9 DEF Play!Serve, PollsOfSends
  <2>2. PICK q \in Play!Poll : poll' = [poll EXCEPT ![p] = q] /\ q.task.send \in Play!Send
    <3> DEFINE a == [poll[p] EXCEPT !.kind = "answered", !.task.state = tasksOf[poll[p].task.send]]
               g == [poll[p] EXCEPT !.kind = "gone"]
    <3>1. tasksOf[poll[p].task.send] \in Play!TaskState
      BY <1>2, <2>1
    <3>2. a \in Play!Poll /\ a.task.send \in Play!Send
      BY <2>1, <3>1 DEF Play!Poll, Play!TrackedTask
    <3>3. g \in Play!Poll /\ g.task.send \in Play!Send
      BY <2>1 DEF Play!Poll
    <3>4. poll' = [poll EXCEPT ![p] = a] \/ poll' = [poll EXCEPT ![p] = g]
      BY <1>2, <1>9 DEF Play!Serve
    <3> QED
      BY <3>2, <3>3, <3>4
  <2>3. poll' \in [Slot -> Play!Poll \cup {Play!Idle}] /\ PollsOfSends'
    BY <1>2, <2>2 DEF PollsOfSends
  <2> QED
    BY <1>2, <1>9, <2>3 DEF Play!Serve
<1>10. ASSUME NEW p \in Slot, Play!UpdatesArrive(p) PROVE PlayInv'
  <2>1. poll[p].task \in Play!TrackedTask
    BY <1>2, <1>10 DEF Play!UpdatesArrive, Play!Poll
  <2>2. tracked' \in Play!TrackedTask /\ tracked'.send = answered
    BY <1>2, <1>10, <2>1 DEF Play!UpdatesArrive, Play!Shown
  <2>3. poll' \in [Slot -> Play!Poll \cup {Play!Idle}] /\ PollsOfSends'
    BY <1>2, <1>10 DEF Play!UpdatesArrive, PollsOfSends
  <2> QED
    BY <1>2, <1>10, <2>2, <2>3 DEF Play!UpdatesArrive
<1>11. CASE UNCHANGED playVars
  BY <1>2, <1>11 DEF playVars, PollsOfSends
<1> QED
  BY <1>3, <1>4, <1>5, <1>6, <1>7, <1>8, <1>9, <1>10, <1>11 DEF Play!Next

-----------------------------------------------------------------------------
(* All pages.                                                                               *)

\* A page of a task that is not opened.
LEMMA OneClosedInv == OneClosed => PageInv
<1> SUFFICES ASSUME OneClosed PROVE PageInv
  OBVIOUS
<1>1. taskId \in Task
  <2> DEFINE first == CHOOSE t \in Task : TRUE
  <2>1. first \in Task /\ taskId = first
    BY PagesAssumption DEF PagesAssumption, OneClosed
  <2> HIDE DEF first
  <2> QED
    BY <2>1
<1>2. load \in [Slot -> {Idle}] /\ \A s \in Slot : Free(s)
  BY DEF OneClosed, Free
<1>3. /\ open = FALSE /\ generation = 0 /\ task = NoTask /\ notFound = FALSE /\ timer = FALSE
      /\ leaked = 0 /\ act = None /\ clicks = 0
  BY DEF OneClosed
<1>4. MaxChanges \in Nat /\ MaxClicks \in Nat
  BY PagesAssumption DEF PagesAssumption, TaskPageAssumption
<1>5. server \in [Task -> Held]
  BY <1>4 DEF OneClosed, Held, Gone
<1>6. TypeOK
  <2>1. open \in BOOLEAN /\ notFound \in BOOLEAN /\ timer \in BOOLEAN
    BY <1>3
  <2>2. generation \in 0..MaxClicks /\ clicks \in 0..MaxClicks /\ leaked \in Nat
    BY <1>3, <1>4
  <2>3. task \in Seen \cup {NoTask} /\ act \in Act \cup {None}
    BY <1>3
  <2>4. load \in [Slot -> Load \cup {Idle}]
    BY <1>2
  <2> QED
    BY <1>1, <1>5, <2>1, <2>2, <2>3, <2>4 DEF TypeOK
<1> QED
  BY <1>2, <1>3, <1>6 DEF PageInv, Bounded, LoadsNamed, ShownIsNamed, NoTask

PagesInv == /\ PageInv /\ KeepInv /\ LiveInv /\ EditInv
            /\ ScaleInv /\ AlertInv /\ WorkInv /\ PlayInv

LEMMA PagesStart == PagesInit => PagesInv
<1> SUFFICES ASSUME PagesInit PROVE PagesInv
  OBVIOUS
<1>1. Init \/ OneClosed
  BY DEF PagesInit
<1>2. Keep!Init \/ KeepClosed
  BY DEF PagesInit
<1>3. LiveInit \/ LiveClosed
  BY DEF PagesInit
<1>4. Edit!Init \/ EditClosed
  BY DEF PagesInit
<1>5. Scale!Init \/ ScaleClosed
  BY DEF PagesInit
<1>6. Alert!Init \/ AlertClosed
  BY DEF PagesInit
<1>7. Work!Init \/ WorkClosed
  BY DEF PagesInit
<1>8. Play!Init \/ PlayClosed
  BY DEF PagesInit
<1>9. PageInv
  BY <1>1, InitInv, OneClosedInv, PagesAssumption DEF PagesAssumption
<1> QED
  BY <1>2, <1>3, <1>4, <1>5, <1>6, <1>7, <1>8, <1>9,
     KeepInit, LiveStart, EditInit, ScaleInit, AlertInit, WorkInit, PlayInit DEF PagesInv

\* A step is one of the page that is opened; the others rest.
LEMMA OnePageMoves ==
  [PagesNext]_pagesVars =>
    /\ [Next]_vars /\ [Keep!Next]_keepVars /\ [Live!Next]_liveVars /\ [Edit!Next]_editVars
    /\ [Scale!Next]_scaleVars /\ [Alert!Next]_alertVars /\ [Work!Next]_workVars /\ [Play!Next]_playVars
BY DEF PagesNext, pagesVars

\* What a step of the autoscaling page may not take back.
TypedStays == providerForm.typed /\ providerForm.mode = "edit" /\ providerForm.open /\ providerForm'.open => providerForm'.typed

LEMMA PagesStep ==
  PagesInv /\ [PagesNext]_pagesVars => PagesInv' /\ [DeletesAsked]_liveVars /\ [TypedStays]_scaleVars
<1> SUFFICES ASSUME PagesInv, [PagesNext]_pagesVars
             PROVE  PagesInv' /\ [DeletesAsked]_liveVars /\ [TypedStays]_scaleVars
  OBVIOUS
<1>1. PageInv'
  BY PageStep, OnePageMoves, PagesAssumption DEF PagesInv, PagesAssumption
<1>2. KeepInv' /\ EditInv' /\ AlertInv' /\ WorkInv' /\ PlayInv'
  BY KeepStep, EditStep, AlertStep, WorkStep, PlayStep, OnePageMoves DEF PagesInv
<1>3. LiveInv' /\ [DeletesAsked]_liveVars
  BY LiveStep, OnePageMoves DEF PagesInv
<1>4. ScaleInv' /\ [TypedStays]_scaleVars
  BY ScaleStep, OnePageMoves DEF PagesInv, TypedStays
<1> QED
  BY <1>1, <1>2, <1>3, <1>4 DEF PagesInv

\* Type correctness, of every page and whichever is opened.
THEOREM PagesTypeTheorem == PagesSpec => []PagesTypeOK
<1>1. PagesInv => PagesTypeOK
  BY DEF PagesInv, PagesTypeOK, PageInv, KeepInv, LiveInv, EditInv, ScaleInv, AlertInv, WorkInv, PlayInv
<1> QED
  BY <1>1, PagesStart, PagesStep, PTL DEF PagesSpec

\* The page of a task keeps naming what it shows in the company of the others.
THEOREM PagesShownIsNamedTheorem == PagesSpec => []ShownIsNamed
<1>1. PagesInv => ShownIsNamed
  BY DEF PagesInv, PageInv
<1> QED
  BY <1>1, PagesStart, PagesStep, PTL DEF PagesSpec

\* A save in flight carries a value that was typed, never the mask of a secret the server
\* hides, and the kind the entry had unless its user set it.
THEOREM SavesWhatWasTypedTheorem == PagesSpec => []SavesWhatWasTyped
<1>1. PagesInv => SavesWhatWasTyped
  BY DEF PagesInv, KeepInv
<1> QED
  BY <1>1, PagesStart, PagesStep, PTL DEF PagesSpec

\* A confirmed deletion of the selection names no task its message did not count.
THEOREM DeletesWhatWasAskedTheorem == PagesSpec => DeletesWhatWasAsked
<1>1. [DeletesAsked]_liveVars => [DeletesAsked]_Live!vars
  BY DEF liveVars, Live!vars
<1> QED
  BY <1>1, PagesStart, PagesStep, PTL DEF PagesSpec, DeletesWhatWasAsked, Live!DeletesWhatWasAsked, DeletesAsked

\* However often a form is submitted, dismissed, opened again and left, a page saves once at a
\* time, and its inputs are disabled exactly while it does.
THEOREM OneSavePerPageTheorem == PagesSpec => []OneSavePerPage
<1>1. PagesInv => OneSavePerPage
  BY DEF PagesInv, EditInv
<1> QED
  BY <1>1, PagesStart, PagesStep, PTL DEF PagesSpec

\* With no refresh under way and no error on screen, an empty list means that there is nothing to list.
THEOREM EmptyMeansNoneTheorem == PagesSpec => []EmptyMeansNone
<1>1. PagesInv => EmptyMeansNone
  BY ScaleSafe DEF PagesInv
<1> QED
  BY <1>1, PagesStart, PagesStep, PTL DEF PagesSpec

\* What is typed into the form of an existing provider stays until the form closes, through
\* every poll and answer behind it.
THEOREM EditKeptTheorem == PagesSpec => EditKept
<1>1. [TypedStays]_scaleVars => [TypedStays]_Scale!vars
  BY DEF scaleVars, Scale!vars
<1> QED
  BY <1>1, PagesStart, PagesStep, PTL DEF PagesSpec, EditKept, Scale!EditKept, TypedStays

\* A save of the alert settings sends a form that a load has filled, however loads fail or come late.
THEOREM SavesWhatWasLoadedTheorem == PagesSpec => []SavesWhatWasLoaded
<1>1. PagesInv => SavesWhatWasLoaded
  BY AlertSafe DEF PagesInv
<1> QED
  BY <1>1, PagesStart, PagesStep, PTL DEF PagesSpec

\* A mounted page of a worker has one stream, or one timer that will open it, however often it breaks.
THEOREM OneStreamTheorem == PagesSpec => []OneStream
<1>1. PagesInv => OneStream
  BY DEF PagesInv, WorkInv, OneStream
<1> QED
  BY <1>1, PagesStart, PagesStep, PTL DEF PagesSpec

\* The playground follows the batch answered last, whatever earlier polls bring back.
THEOREM FollowsLastSendTheorem == PagesSpec => []FollowsLastSend
<1>1. PagesInv => FollowsLastSend
  BY DEF PagesInv, PlayInv
<1> QED
  BY <1>1, PagesStart, PagesStep, PTL DEF PagesSpec
=============================================================================
