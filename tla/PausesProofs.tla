---------------------------- MODULE PausesProofs ----------------------------
(***************************************************************************)
(* For any servers, machines and delays: while Redis keeps what it is told *)
(* and a leader that lost its lease knows it, no leader rents during a     *)
(* pause another one recorded, and failures in a row keep counting.        *)
(***************************************************************************)
EXTENDS Pauses, TLAPS

LEMMA Facts ==
  /\ "boot" \in Kind /\ "host" \in Kind /\ "provision" \in Kind
  /\ NoPause \notin Pause /\ NoPauses \in Backoffs /\ Bounded(NoPauses)
  /\ \A p \in Pause : p.failures \in 1..MaxFailures /\ p.until \in Int
<1>1. \A p \in Pause : p \in [failures : Nat, until : Int]
  BY PausesAssumption DEF Pause, PausesAssumption
<1> QED
  BY <1>1, PausesAssumption DEF Kind, PausesAssumption, Pause, NoPauses, Backoffs, Bounded

\* The next pause is a capped one.
LEMMA NextPauseType ==
  ASSUME TypeOK, NEW s \in Server, NEW k \in Kind
  PROVE  /\ Failures(s, k) \in 1..MaxFailures
         /\ NextPause(s, k) \in Pause
         /\ NextPause(s, k).failures = Failures(s, k)
         /\ NextPause(s, k).until \in 1..Longest[k]
<1>1. Longest[k] \in Nat \ {0} /\ MaxFailures \in Nat \ {0}
  BY PausesAssumption DEF PausesAssumption
<1>2. mem[s][k] = NoPause \/ mem[s][k].failures \in 1..MaxFailures
  BY Facts DEF TypeOK, Backoffs
<1>3. Failures(s, k) \in 1..MaxFailures
  BY <1>1, <1>2 DEF Failures, Lowest
<1>4. \A n : Delay(k, n) \in 1..Longest[k]
  BY <1>1 DEF Delay
<1> QED
  BY <1>1, <1>3, <1>4 DEF NextPause, Pause

\* Time brings the end of a pause nearer, and one long past stays long past.
LEMMA OlderPause ==
  ASSUME NEW p \in Pause \cup {NoPause}
  PROVE  /\ Older(p) \in Pause \cup {NoPause}
         /\ Older(p) = NoPause <=> p = NoPause
         /\ p # NoPause => /\ Older(p).failures = p.failures /\ Older(p).until <= p.until
                           /\ p.until >= -Retention - 1 => Older(p).until >= -Retention - 1
         /\ Kept(Older(p)) => Kept(p)
<1>1. CASE p = NoPause
  BY <1>1, Facts DEF Older, Kept
<1>2. CASE p \in Pause /\ p.until < -Retention
  BY <1>2, Facts DEF Older, Kept
<1>3. CASE p \in Pause /\ ~(p.until < -Retention)
  <2>1. Older(p) = [p EXCEPT !.until = @ - 1] /\ p.until \in Int
    BY <1>3, Facts DEF Older
  <2>2. Older(p) \in Pause /\ Older(p).failures = p.failures /\ Older(p).until = p.until - 1
    BY <1>3, <2>1 DEF Pause
  <2> QED
    BY <1>3, <2>1, <2>2, Facts, PausesAssumption DEF Kept, PausesAssumption
<1> QED
  BY <1>1, <1>2, <1>3

LEMMA OlderBackoffs ==
  ASSUME NEW b \in Backoffs, Bounded(b)
  PROVE  /\ [k \in Kind |-> Older(b[k])] \in Backoffs
         /\ Bounded([k \in Kind |-> Older(b[k])])
<1>1. \A k \in Kind : b[k] \in Pause \cup {NoPause} /\ Longest[k] \in Int /\ Retention \in Int
  BY PausesAssumption DEF Backoffs, PausesAssumption
<1>2. ASSUME NEW k \in Kind PROVE Older(b[k]) = NoPause \/ Older(b[k]).until \in (-Retention - 1)..Longest[k]
  <2>1. CASE b[k] = NoPause
    BY <2>1 DEF Older
  <2>2. CASE b[k] # NoPause
    <3>1. b[k].until \in (-Retention - 1)..Longest[k]
      BY <2>2 DEF Bounded
    <3>2. Older(b[k]) \in Pause /\ Older(b[k]).until \in Int
      BY <1>1, <2>2, OlderPause, Facts
    <3> QED
      BY <1>1, <2>2, <3>1, <3>2, OlderPause
  <2> QED
    BY <2>1, <2>2
<1> QED
  BY <1>1, <1>2, OlderPause DEF Backoffs, Bounded

-----------------------------------------------------------------------------
(* Types *)

PausesOK ==
  /\ mem \in [Server -> Backoffs] /\ \A s \in Server : Bounded(mem[s])
  /\ store \in Backoffs /\ Bounded(store)
  /\ owed \in Backoffs /\ Bounded(owed)

\* A map stays one when a pause is put in or taken out.
LEMMA PutPause ==
  ASSUME NEW b \in Backoffs, Bounded(b), NEW k \in Kind, NEW p \in Pause, p.until \in 1..Longest[k]
  PROVE  [b EXCEPT ![k] = p] \in Backoffs /\ Bounded([b EXCEPT ![k] = p])
<1>1. Longest[k] \in Int /\ Retention \in Nat
  BY PausesAssumption DEF PausesAssumption
<1>2. p.until \in (-Retention - 1)..Longest[k]
  BY <1>1
<1> QED
  BY <1>2 DEF Backoffs, Bounded

LEMMA DropPauses ==
  ASSUME NEW b \in Backoffs, Bounded(b), NEW P
  PROVE  /\ [k \in Kind |-> IF k \in P THEN NoPause ELSE b[k]] \in Backoffs
         /\ Bounded([k \in Kind |-> IF k \in P THEN NoPause ELSE b[k]])
BY DEF Backoffs, Bounded

LEMMA LoadType ==
  ASSUME TypeOK, NEW s \in Server, LoadBackoffs(s)
  PROVE  PausesOK'
<1>1. Loaded \in Backoffs /\ Bounded(Loaded)
  BY DEF TypeOK, Loaded, Backoffs, Bounded
<1> QED
  BY <1>1 DEF LoadBackoffs, TypeOK, PausesOK

LEMMA RecordType ==
  ASSUME TypeOK, NEW s \in Server, NEW k \in Kind, RecordFailure(s, k)
  PROVE  PausesOK'
<1> DEFINE p == NextPause(s, k)
<1>1. p \in Pause /\ p.until \in 1..Longest[k]
  BY NextPauseType
<1>2. mem[s] \in Backoffs /\ Bounded(mem[s]) /\ store \in Backoffs /\ Bounded(store)
      /\ owed \in Backoffs /\ Bounded(owed)
  BY DEF TypeOK
<1>3. mem' = [mem EXCEPT ![s] = [mem[s] EXCEPT ![k] = p]] /\ owed' = [owed EXCEPT ![k] = p]
      /\ (store' = [store EXCEPT ![k] = p] \/ store' = store)
  BY DEF RecordFailure, TypeOK
<1> HIDE DEF p
<1>4. [mem[s] EXCEPT ![k] = p] \in Backoffs /\ Bounded([mem[s] EXCEPT ![k] = p])
  BY <1>1, <1>2, PutPause
<1>5. owed' \in Backoffs /\ Bounded(owed')
  BY <1>1, <1>2, <1>3, PutPause
<1>6. store' \in Backoffs /\ Bounded(store')
  BY <1>1, <1>2, <1>3, PutPause
<1> QED
  BY <1>3, <1>4, <1>5, <1>6 DEF TypeOK, PausesOK

LEMMA ClearType ==
  ASSUME TypeOK, NEW s \in Server, NEW K, ClearBackoffs(s, K)
  PROVE  PausesOK'
<1> DEFINE D(b, P) == [k \in Kind |-> IF k \in P THEN NoPause ELSE b[k]]
<1>1. \E K1, K2 : mem' = [mem EXCEPT ![s] = D(mem[s], K1)] /\ owed' = D(owed, K)
                    /\ store' = D(store, K2)
  BY DEF ClearBackoffs
<1>2. mem[s] \in Backoffs /\ Bounded(mem[s]) /\ store \in Backoffs /\ Bounded(store)
      /\ owed \in Backoffs /\ Bounded(owed)
  BY DEF TypeOK
<1>3. \A P : D(mem[s], P) \in Backoffs /\ Bounded(D(mem[s], P))
  BY <1>2, DropPauses
<1>4. \A P : D(owed, P) \in Backoffs /\ Bounded(D(owed, P))
  BY <1>2, DropPauses
<1>5. \A P : D(store, P) \in Backoffs /\ Bounded(D(store, P))
  BY <1>2, DropPauses
<1> HIDE DEF D
<1> QED
  BY <1>1, <1>3, <1>4, <1>5 DEF TypeOK, PausesOK

THEOREM TypeTheorem == Spec => []TypeOK
<1>1. Init => TypeOK
  BY Facts, PausesAssumption DEF Init, TypeOK, PausesAssumption, NoPauses, Kind
<1>2. TypeOK /\ [Next]_vars => TypeOK'
  <2> SUFFICES ASSUME TypeOK, [Next]_vars PROVE TypeOK'
    OBVIOUS
  <2>1. ASSUME NEW s \in Server, Lead(s) PROVE TypeOK'
    <3>1. PausesOK'
      BY <2>1, LoadType DEF Lead, pauses, TypeOK, PausesOK
    <3> QED
      BY <2>1, <3>1 DEF Lead, world, TypeOK, PausesOK
  <2>2. ASSUME NEW s \in Server, Follow(s) PROVE TypeOK'
    BY <2>2 DEF Follow, pauses, world, TypeOK
  <2>3. ASSUME NEW s \in Server, Plan(s) PROVE TypeOK'
    BY <2>3 DEF Plan, lease, pauses, world, TypeOK
  <2>4. ASSUME NEW s \in Server, Provision(s) PROVE TypeOK'
    <3>1. CASE Refused(s)
      <4>1. PausesOK'
        BY <3>1, RecordType, Facts DEF Refused
      <4> QED
        BY <2>4, <3>1, <4>1 DEF Provision, Refused, lease, TypeOK, PausesOK
    <3>2. ASSUME NEW m \in Free, Rented(s, m) PROVE TypeOK'
      <4>1. PausesOK'
        BY <3>2, ClearType DEF Rented
      <4> QED
        BY <2>4, <3>2, <4>1 DEF Provision, Rented, Free, lease, TypeOK, PausesOK
    <3> QED
      BY <2>4, <3>1, <3>2 DEF Provision
  <2>5. ASSUME NEW s \in Server, NEW m \in Machine, Reconcile(s, m) PROVE TypeOK'
    <3>1. PausesOK'
      BY <2>5, RecordType, ClearType, Facts DEF Reconcile, pauses, TypeOK, PausesOK
    <3>2. mach' \in [Machine -> {"none", "booting", "ready", "failed", "hostfault"}]
      BY <2>5 DEF Reconcile, TypeOK
    <3> QED
      BY <2>5, <3>1, <3>2 DEF Reconcile, lease, TypeOK, PausesOK
  <2>6. ASSUME NEW s \in Server, Restart(s) PROVE TypeOK'
    BY <2>6, Facts DEF Restart, world, TypeOK
  <2>7. CASE Tick
    <3>1. PausesOK'
      BY <2>7, OlderBackoffs DEF Tick, TypeOK, PausesOK
    <3> QED
      BY <2>7, <3>1 DEF Tick, lease, world, TypeOK, PausesOK
  <2>8. CASE Expire
    BY <2>8 DEF Expire, pauses, world, TypeOK
  <2>9. ASSUME NEW m \in Machine, MachineChange(m) PROVE TypeOK'
    BY <2>9 DEF MachineChange, lease, pauses, TypeOK
  <2>10. CASE LoadChange
    BY <2>10 DEF LoadChange, lease, pauses, TypeOK
  <2>11. CASE UNCHANGED vars
    BY <2>11 DEF vars, lease, pauses, world, TypeOK
  <2> QED
    BY <2>1, <2>2, <2>3, <2>4, <2>5, <2>6, <2>7, <2>8, <2>9, <2>10, <2>11 DEF Next, Evaluate
<1> QED
  BY <1>1, <1>2, PTL DEF Spec

-----------------------------------------------------------------------------
(* What the leaders recorded is what the leader knows *)

\* A pause the hash no longer holds is one that ended too long ago to matter.
Recorded(k) == store[k] = owed[k] \/ (store[k] = NoPause /\ ~Kept(owed[k]))

\* One server leads at a time, and it knows what the hash holds.
OneKnowingLeader ==
  \A s \in Server : /\ pc[s] # "idle" => wasLeader[s]
                    /\ wasLeader[s] => holder = s /\ mem[s] = store

NothingInEffect ==
  \A s \in Server : pc[s] = "provision" => \A k \in Kind : ~InEffect(mem[s][k])

LeaderKnows == Reliable => /\ \A k \in Kind : Recorded(k)
                           /\ OneKnowingLeader /\ NothingInEffect

LEMMA SameFaults ==
  ASSUME [Next]_vars PROVE faults' = faults
BY DEF Next, Evaluate, Lead, Follow, Plan, Provision, Reconcile, Restart, Tick, Expire,
       MachineChange, LoadChange, world, vars

\* Each of the ways the backoffs change.
LEMMA LoadKnows ==
  ASSUME TypeOK, LeaderKnows, Reliable, NEW s \in Server, LoadBackoffs(s)
  PROVE  mem' = [mem EXCEPT ![s] = store'] /\ \A k \in Kind : Recorded(k)'
<1>1. mem' = [mem EXCEPT ![s] = Loaded] /\ store' = Loaded /\ owed' = owed
  BY DEF LoadBackoffs, Reliable
<1>2. \A k \in Kind : Recorded(k)'
  BY <1>1 DEF Loaded, Recorded, LeaderKnows, Kept
<1> QED
  BY <1>1, <1>2

LEMMA RecordKnows ==
  ASSUME TypeOK, LeaderKnows, Reliable, NEW s \in Server, mem[s] = store,
         NEW k \in Kind, RecordFailure(s, k)
  PROVE  mem' = [mem EXCEPT ![s] = store'] /\ \A j \in Kind : Recorded(j)'
<1> DEFINE p == NextPause(s, k)
<1>1. mem' = [mem EXCEPT ![s] = [mem[s] EXCEPT ![k] = p]] /\ owed' = [owed EXCEPT ![k] = p]
      /\ store' = [store EXCEPT ![k] = p]
  BY DEF RecordFailure, Reliable, TypeOK
<1> HIDE DEF p
<1>2. \A j \in Kind : Recorded(j)'
  BY <1>1 DEF Recorded, LeaderKnows, TypeOK, Backoffs, Kept
<1> QED
  BY <1>1, <1>2

LEMMA ClearKnows ==
  ASSUME TypeOK, LeaderKnows, Reliable, NEW s \in Server, mem[s] = store,
         NEW K \in SUBSET Kind, ClearBackoffs(s, K)
  PROVE  /\ mem' = [mem EXCEPT ![s] = store'] /\ \A j \in Kind : Recorded(j)'
         /\ \A j \in Kind : store'[j] \in {store[j], NoPause}
<1> DEFINE known == {k \in K : mem[s][k] # NoPause}
           Without(b, ks) == [k \in Kind |-> IF k \in ks THEN NoPause ELSE b[k]]
<1>1. mem' = [mem EXCEPT ![s] = Without(mem[s], known)] /\ owed' = Without(owed, K)
      /\ store' = Without(store, known)
  BY DEF ClearBackoffs, Reliable, TypeOK
<1>2. \A j \in Kind : store'[j] = IF j \in known THEN NoPause ELSE store[j]
  BY <1>1
<1>3. \A j \in Kind : owed'[j] = IF j \in K THEN NoPause ELSE owed[j]
  BY <1>1
<1>4. ASSUME NEW j \in Kind PROVE Recorded(j)'
  <2>1. CASE j \in K
    <3>1. store'[j] = NoPause
      BY <2>1, <1>2
    <3> QED
      BY <3>1, <2>1, <1>3 DEF Recorded
  <2>2. CASE j \notin K
    <3>1. store'[j] = store[j] /\ owed'[j] = owed[j]
      BY <2>2, <1>2, <1>3
    <3> QED
      BY <3>1 DEF Recorded, LeaderKnows, Kept
  <2> QED
    BY <2>1, <2>2
<1> QED
  BY <1>1, <1>2, <1>4

\* The leader changed the backoffs and its own step, and nothing of the lease.
LEMMA LeaderStep ==
  ASSUME TypeOK, LeaderKnows, Reliable, NEW s \in Server, wasLeader[s], UNCHANGED lease,
         mem' = [mem EXCEPT ![s] = store'], \A k \in Kind : Recorded(k)',
         \A t \in Server : t # s => pc'[t] = pc[t],
         pc'[s] = "provision" => \A k \in Kind : ~InEffect(store'[k])
  PROVE  LeaderKnows'
<1>1. holder = s /\ \A t \in Server : t # s => ~wasLeader[t] /\ pc[t] = "idle"
  BY DEF LeaderKnows, OneKnowingLeader
<1>2. OneKnowingLeader'
  BY <1>1 DEF OneKnowingLeader, lease, TypeOK
<1>3. NothingInEffect'
  BY <1>1 DEF NothingInEffect, TypeOK, InEffect
<1> QED
  BY <1>2, <1>3 DEF LeaderKnows

LEMMA LeaderKnowsStep == TypeOK /\ LeaderKnows /\ [Next]_vars => LeaderKnows'
<1> SUFFICES ASSUME TypeOK, LeaderKnows, [Next]_vars, Reliable PROVE LeaderKnows'
  BY SameFaults DEF LeaderKnows, Reliable
<1> USE DEF LeaderKnows
<1>1. ASSUME NEW s \in Server, Lead(s) PROVE LeaderKnows'
  <2>1. \A t \in Server : t # s => ~wasLeader[t] /\ pc[t] = "idle"
    BY <1>1, PausesAssumption DEF Lead, Acquires, OneKnowingLeader, PausesAssumption
  <2>2. mem' = [mem EXCEPT ![s] = store'] /\ \A k \in Kind : Recorded(k)'
    <3>1. CASE Reloads(s)
      BY <1>1, <3>1, LoadKnows DEF Lead
    <3>2. CASE ~Reloads(s)
      BY <1>1, <3>2 DEF Lead, Reloads, OneKnowingLeader, pauses, TypeOK, Recorded, Kept
    <3> QED
      BY <3>1, <3>2
  <2>3. OneKnowingLeader'
    BY <1>1, <2>1, <2>2 DEF Lead, OneKnowingLeader, TypeOK
  <2>4. NothingInEffect'
    BY <1>1, <2>1 DEF Lead, NothingInEffect, TypeOK
  <2> QED
    BY <2>2, <2>3, <2>4
<1>2. ASSUME NEW s \in Server, Follow(s) PROVE LeaderKnows'
  <2>1. wasLeader' = [wasLeader EXCEPT ![s] = FALSE] /\ pc[s] = "idle" /\ holder' \in {holder, s}
        /\ UNCHANGED <<mem, store, owed, pc>> /\ (holder' # holder => holder = None)
    BY <1>2 DEF Follow, pauses
  <2>2. OneKnowingLeader'
    BY <2>1, PausesAssumption DEF OneKnowingLeader, TypeOK, PausesAssumption
  <2> QED
    BY <2>1, <2>2 DEF NothingInEffect, InEffect, Recorded, Kept
<1>3. ASSUME NEW s \in Server, Plan(s) PROVE LeaderKnows'
  <2>1. wasLeader[s] /\ mem[s] = store
    BY <1>3 DEF Plan, OneKnowingLeader
  <2>2. mem' = mem /\ store' = store /\ owed' = owed /\ mem = [mem EXCEPT ![s] = store]
    BY <1>3, <2>1 DEF Plan, pauses, TypeOK
  <2>3. \A t \in Server : t # s => pc'[t] = pc[t]
    BY <1>3 DEF Plan, TypeOK
  <2>4. pc'[s] = "provision" => \A k \in Kind : ~InEffect(store[k])
    BY <1>3, <2>1 DEF Plan, TypeOK, Paused
  <2>5. \A k \in Kind : Recorded(k)'
    BY <2>2 DEF Recorded, Kept
  <2> QED
    BY <1>3, <2>1, <2>2, <2>3, <2>4, <2>5, LeaderStep DEF Plan, InEffect
<1>4. ASSUME NEW s \in Server, Provision(s) PROVE LeaderKnows'
  <2>1. wasLeader[s] /\ mem[s] = store /\ \A k \in Kind : ~InEffect(store[k])
    BY <1>4 DEF Provision, OneKnowingLeader, NothingInEffect
  <2>2. CASE Refused(s)
    <3>1. mem' = [mem EXCEPT ![s] = store'] /\ \A k \in Kind : Recorded(k)'
      BY <2>1, <2>2, RecordKnows, Facts DEF Refused
    <3>2. pc' = [pc EXCEPT ![s] = "idle"] /\ UNCHANGED lease
      BY <1>4, <2>2 DEF Provision, Refused
    <3> QED
      BY <2>1, <3>1, <3>2, LeaderStep DEF TypeOK
  <2>3. ASSUME NEW m \in Free, Rented(s, m) PROVE LeaderKnows'
    <3>1. /\ mem' = [mem EXCEPT ![s] = store'] /\ \A k \in Kind : Recorded(k)'
          /\ \A k \in Kind : store'[k] \in {store[k], NoPause}
      BY <2>1, <2>3, ClearKnows, Facts DEF Rented
    <3>2. UNCHANGED lease /\ \A t \in Server : t # s => pc'[t] = pc[t]
      BY <1>4, <2>3 DEF Provision, Rented, TypeOK
    <3>3. \A k \in Kind : ~InEffect(store'[k])
      BY <2>1, <3>1 DEF InEffect
    <3> QED
      BY <2>1, <3>1, <3>2, <3>3, LeaderStep
  <2> QED
    BY <1>4, <2>2, <2>3 DEF Provision
<1>5. ASSUME NEW s \in Server, NEW m \in Machine, Reconcile(s, m) PROVE LeaderKnows'
  <2>1. wasLeader[s] /\ mem[s] = store /\ pc[s] = "reconcile" /\ UNCHANGED <<lease, pc>>
    BY <1>5 DEF Reconcile, OneKnowingLeader
  <2>2. mem' = [mem EXCEPT ![s] = store'] /\ \A k \in Kind : Recorded(k)'
    <3>1. CASE RecordFailure(s, "boot") \/ RecordFailure(s, "host")
      BY <2>1, <3>1, RecordKnows, Facts
    <3>2. CASE ClearBackoffs(s, {"boot", "host"})
      BY <2>1, <3>2, ClearKnows, Facts
    <3>3. CASE UNCHANGED pauses
      BY <2>1, <3>3 DEF pauses, TypeOK, Recorded, Kept
    <3> QED
      BY <1>5, <3>1, <3>2, <3>3 DEF Reconcile
  <2> QED
    BY <2>1, <2>2, LeaderStep
<1>6. ASSUME NEW s \in Server, Restart(s) PROVE LeaderKnows'
  <2>1. OneKnowingLeader' /\ NothingInEffect'
    BY <1>6 DEF Restart, OneKnowingLeader, NothingInEffect, InEffect, TypeOK
  <2> QED
    BY <1>6, <2>1 DEF Restart, Recorded, Kept
<1>7. CASE Tick
  <2>1. \A k \in Kind : store[k] \in Pause \cup {NoPause} /\ owed[k] \in Pause \cup {NoPause}
    BY DEF TypeOK, Backoffs
  <2>2. \A k \in Kind : Recorded(k)'
    BY <1>7, <2>1, OlderPause DEF Tick, Recorded, Kept
  <2>3. OneKnowingLeader'
    BY <1>7 DEF Tick, lease, OneKnowingLeader, TypeOK
  <2>4. NothingInEffect'
    BY <1>7 DEF Tick, OneKnowingLeader, NothingInEffect
  <2> QED
    BY <2>2, <2>3, <2>4
<1>8. CASE Expire
  <2>1. \A s \in Server : ~wasLeader[s]
    BY <1>8 DEF Expire, Reliable, OneKnowingLeader
  <2> QED
    BY <1>8, <2>1 DEF Expire, pauses, Recorded, Kept, OneKnowingLeader, NothingInEffect, InEffect
<1>9. ASSUME UNCHANGED <<lease, pauses, pc>> PROVE LeaderKnows'
  BY <1>9 DEF lease, pauses, Recorded, Kept, OneKnowingLeader, NothingInEffect, InEffect
<1>10. ASSUME NEW m \in Machine, MachineChange(m) PROVE LeaderKnows'
  BY <1>9, <1>10 DEF MachineChange
<1>11. CASE LoadChange
  BY <1>9, <1>11 DEF LoadChange
<1>12. CASE UNCHANGED vars
  BY <1>9, <1>12 DEF vars
<1> QED
  BY <1>1, <1>2, <1>3, <1>4, <1>5, <1>6, <1>7, <1>8, <1>10, <1>11, <1>12 DEF Next, Evaluate

LEMMA LeaderKnowsTheorem == Spec => []LeaderKnows
<1>1. Init => LeaderKnows
  BY PausesAssumption DEF Init, LeaderKnows, OneKnowingLeader, NothingInEffect, Recorded, NoPauses,
     PausesAssumption
<1> QED
  BY <1>1, LeaderKnowsStep, TypeTheorem, PTL DEF Spec

-----------------------------------------------------------------------------
(* Theorems *)

\* The leader that rents sees nothing in effect, and so nothing that was recorded is.
LEMMA RentNothingOwed ==
  ASSUME TypeOK, LeaderKnows, Reliable, NEW s \in Server, pc[s] = "provision", NEW k \in Kind
  PROVE  ~InEffect(owed[k])
<1>1. ~InEffect(store[k]) /\ Recorded(k)
  BY DEF LeaderKnows, OneKnowingLeader, NothingInEffect
<1>2. owed[k] = NoPause \/ owed[k].until \in Int
  BY Facts DEF TypeOK, Backoffs
<1> QED
  BY <1>1, <1>2, PausesAssumption DEF Recorded, InEffect, Kept, PausesAssumption

\* provisionN: whichever server leads, and whatever happened to the others, no machine is
\* rented during a pause that a leader recorded and none ended.
THEOREM PauseHeldTheorem == Spec => PauseHeld
<1> DEFINE Held == Reliable /\ (\E m \in Machine : mach[m] = "none" /\ mach'[m] = "booting")
                    => \A k \in Kind : ~InEffect(owed[k])
<1>1. TypeOK /\ LeaderKnows /\ [Next]_vars => [Held]_vars
  <2> SUFFICES ASSUME TypeOK, LeaderKnows, Next, Reliable,
                      NEW m \in Machine, mach[m] = "none", mach'[m] = "booting"
               PROVE  \A k \in Kind : ~InEffect(owed[k])
    OBVIOUS
  <2>1. PICK s \in Server : Provision(s)
    BY DEF Next, Evaluate, Lead, Follow, Plan, Reconcile, Restart, Tick, Expire,
       MachineChange, LoadChange, world, TypeOK
  <2> QED
    BY <2>1, RentNothingOwed DEF Provision
<1> QED
  BY <1>1, TypeTheorem, LeaderKnowsTheorem, PTL DEF Spec, PauseHeld

\* recordFailure: a pause that is put off counts one more failure than the one recorded before
\* it, by this leader or an earlier one, as long as that one is retained.
LEMMA RecordEscalates ==
  ASSUME TypeOK, LeaderKnows, Reliable, NEW s \in Server, mem[s] = store,
         NEW j \in Kind, RecordFailure(s, j), NEW k \in Kind, Kept(owed[k]),
         owed'[k].until > owed[k].until
  PROVE  owed'[k].failures >= Lowest(owed[k].failures + 1, MaxFailures)
<1>1. store[k] = owed[k] /\ owed[k] # NoPause
  BY DEF LeaderKnows, Recorded, Kept
<1>2. owed[k].until \in Int /\ owed[k].failures \in 1..MaxFailures
  BY <1>1, Facts DEF TypeOK, Backoffs
<1>3. k = j
  BY <1>2 DEF RecordFailure, TypeOK, Backoffs
<1>4. owed'[k] = NextPause(s, k)
  BY <1>3 DEF RecordFailure, TypeOK, Backoffs
<1>5. owed'[k].failures = Lowest(owed[k].failures + 1, MaxFailures)
  BY <1>1, <1>4, NextPauseType DEF Failures
<1> QED
  BY <1>2, <1>5, PausesAssumption DEF Lowest, PausesAssumption

THEOREM EscalatesTheorem == Spec => Escalates
<1> DEFINE Counts(k) == Kept(owed[k]) /\ owed'[k] # NoPause /\ owed'[k].until > owed[k].until
                          => owed'[k].failures >= Lowest(owed[k].failures + 1, MaxFailures)
           Counting == Reliable => \A k \in Kind : Counts(k)
<1>1. TypeOK /\ LeaderKnows /\ [Next]_vars => [Counting]_vars
  <2> SUFFICES ASSUME TypeOK, LeaderKnows, Next, Reliable, NEW k \in Kind, Kept(owed[k]),
                      owed'[k] # NoPause, owed'[k].until > owed[k].until
               PROVE  owed'[k].failures >= Lowest(owed[k].failures + 1, MaxFailures)
    OBVIOUS
  <2>1. owed[k] # NoPause /\ owed[k] \in Pause /\ owed[k].until \in Int
    BY Facts DEF Kept, TypeOK, Backoffs
  <2>2. ASSUME NEW s \in Server, NEW j \in Kind, RecordFailure(s, j), pc[s] # "idle"
        PROVE  owed'[k].failures >= Lowest(owed[k].failures + 1, MaxFailures)
    BY <2>2, RecordEscalates DEF LeaderKnows, OneKnowingLeader
  <2>3. ASSUME NEW s \in Server, NEW K, ClearBackoffs(s, K) PROVE FALSE
    <3>1. owed'[k] = IF k \in K THEN NoPause ELSE owed[k]
      BY <2>3 DEF ClearBackoffs
    <3> QED
      BY <2>1, <3>1
  <2>4. owed' # owed
    BY <2>1
  <2>5. CASE Tick
    <3>1. owed'[k] = Older(owed[k])
      BY <2>5 DEF Tick
    <3>2. Older(owed[k]) \in Pause /\ Older(owed[k]).until <= owed[k].until
      BY <2>1, OlderPause
    <3> QED
      BY <2>1, <3>1, <3>2, Facts
  <2>6. CASE ~Tick
    <3>1. PICK s \in Server : Provision(s) \/ \E m \in Machine : Reconcile(s, m)
      <4>1. \A s \in Server : Lead(s) => owed' = owed
        BY DEF Lead, LoadBackoffs, pauses
      <4>2. \A s \in Server : Follow(s) \/ Plan(s) \/ Restart(s) => owed' = owed
        BY DEF Follow, Plan, Restart, pauses
      <4>3. Expire \/ LoadChange \/ (\E m \in Machine : MachineChange(m)) => owed' = owed
        BY DEF Expire, MachineChange, LoadChange, pauses
      <4> QED
        BY <2>4, <2>6, <4>1, <4>2, <4>3 DEF Next, Evaluate
    <3>2. pc[s] # "idle"
      BY <3>1 DEF Provision, Reconcile
    <3>3. (\E j \in Kind : RecordFailure(s, j)) \/ (\E K : ClearBackoffs(s, K))
      BY <2>4, <3>1, Facts DEF Provision, Refused, Rented, Reconcile, pauses
    <3> QED
      BY <2>2, <2>3, <3>2, <3>3
  <2> QED
    BY <2>5, <2>6
<1> QED
  BY <1>1, TypeTheorem, LeaderKnowsTheorem, PTL DEF Spec, Escalates
=============================================================================
