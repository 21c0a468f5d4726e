-------------------------- MODULE LeaderLockProofs --------------------------
(***************************************************************************)
(* The lease excludes two servers at work, for any number of servers and   *)
(* faults, provided one call and one unit of work fit in the TTL.          *)
(* The invariant bounds what is left of the lease: time spent since the    *)
(* command executed is at most the age of the call, then of the work.  The *)
(* refinement adds that while somebody must be waited for, the key still   *)
(* names him and outlasts the wait.                                        *)
(***************************************************************************)
EXTENDS LeaderLock, TLAPS

LeaseOutlivesWork == CallMax + WorkMax < TTL

\* A server whose command succeeded (reply on its way) holds a lease no older than its call.
Granted(s) == pc[s] \in Calling /\ res[s] = "yes"
GrantedInv(s) == Granted(s) => holder = s /\ ttl + age[s] >= TTL
CallInv(s)    == pc[s] \in Calling => age[s] <= CallMax
WorkInv(s)    == pc[s] = "working" => /\ holder = s
                                      /\ ttl + age[s] + CallMax >= TTL
                                      /\ age[s] <= WorkMax
\* While the others must wait, the key is the leader's and lasts to the end of the wait.
TenureInv ==
  /\ leader = None => since = 0
  /\ leader # None => holder = leader /\ since < Hold /\ ttl + since >= Hold
LeaseInv == \A s \in Server : GrantedInv(s) /\ CallInv(s) /\ WorkInv(s)

\* Type correctness.
THEOREM TypeTheorem == Spec => []TypeOK
<1> USE LockAssumption DEF history
<1>1. Init => TypeOK
  BY DEF Init, TypeOK, Phase, Calling
<1>2. TypeOK /\ [Next]_vars => TypeOK'
  <2> SUFFICES ASSUME TypeOK, [Next]_vars PROVE TypeOK'
    OBVIOUS
  <2> USE DEF TypeOK, Phase, Calling
  <2>1. ASSUME NEW s \in Server, StartAcquire(s) PROVE TypeOK'
    BY <2>1 DEF StartAcquire
  <2>2. ASSUME NEW s \in Server, Execute(s) PROVE TypeOK'
    <3>1. holder' \in Server \cup {None, Ghost} /\ ttl' \in 0..TTL
      BY <2>2 DEF Execute, RenewScript, SetNX
    <3> QED
      BY <2>2, <3>1 DEF Execute, RenewAnswer, SetNXAnswer
  <2>3. ASSUME NEW s \in Server, RenewReply(s) PROVE TypeOK'
    <3>1. CASE res[s] = "yes"
      BY <2>3, <3>1 DEF RenewReply
    <3>2. CASE res[s] # "yes"
      <4>1. owned' \in [Server -> BOOLEAN]
        BY <2>3, <3>2 DEF RenewReply
      <4> QED
        BY <2>3, <3>2, <4>1 DEF RenewReply
    <3> QED
      BY <3>1, <3>2
  <2>4. ASSUME NEW s \in Server, SetNXReply(s) PROVE TypeOK'
    <3>1. leader' \in Server \cup {None, Ghost} /\ since' \in Nat
      BY <2>4 DEF SetNXReply
    <3> QED
      BY <2>4, <3>1 DEF SetNXReply
  <2>5. ASSUME NEW s \in Server, FinishWork(s) PROVE TypeOK'
    BY <2>5 DEF FinishWork
  <2>6. ASSUME NEW s \in Server, CallFails(s) PROVE TypeOK'
    BY <2>6 DEF CallFails, Abandon
  <2>7. ASSUME NEW s \in Server, Release(s) PROVE TypeOK'
    <3>1. leader' \in Server \cup {None, Ghost} /\ since' \in Nat
      BY <2>7 DEF Release
    <3>2. holder' \in Server \cup {None, Ghost} /\ ttl' \in 0..TTL
      BY <2>7 DEF Release, DeleteIfOwn
    <3> QED
      BY <2>7, <3>1, <3>2 DEF Release
  <2>8. ASSUME NEW s \in Server, Crash(s) PROVE TypeOK'
    BY <2>8 DEF Crash, Abandon
  <2>9. ASSUME NEW s \in Server, Restart(s) PROVE TypeOK'
    BY <2>9 DEF Restart
  <2>10. ASSUME NEW id \in Server \cup {Ghost}, NEW op \in Calling, LateExecute(id, op) PROVE TypeOK'
    BY <2>10 DEF LateExecute, RenewScript, SetNX
  <2>11. ASSUME Tick PROVE TypeOK'
    BY <2>11 DEF Tick, Expire, Busy, Wait
  <2>12. CASE UNCHANGED vars
    BY <2>12 DEF vars
  <2> QED
    BY <2>1, <2>2, <2>3, <2>4, <2>5, <2>6, <2>7, <2>8, <2>9, <2>10, <2>11, <2>12
    DEF Next, Acquire
<1> QED
  BY <1>1, <1>2, PTL DEF Spec

LEMMA LeaseStep ==
  ASSUME LeaseOutlivesWork, TypeOK, LeaseInv, [Next]_vars
  PROVE  LeaseInv'
<1> USE LockAssumption DEF TypeOK, Phase, Calling, LeaseInv, GrantedInv, CallInv, WorkInv, Granted
<1>1. ASSUME NEW s \in Server, StartAcquire(s) PROVE LeaseInv'
  BY <1>1 DEF StartAcquire
<1>2. ASSUME NEW s \in Server, Execute(s) PROVE LeaseInv'
  <2>1. /\ (holder' = holder /\ ttl' = ttl) \/ (holder' = s /\ ttl' = TTL /\ holder \in {s, None})
        /\ res'[s] = "yes" => holder' = s /\ ttl' = TTL
    BY <1>2 DEF Execute, RenewScript, SetNX, RenewAnswer, SetNXAnswer
  <2> QED
    BY <1>2, <2>1 DEF Execute
<1>3. ASSUME NEW s \in Server, RenewReply(s) PROVE LeaseInv'
  BY <1>3 DEF RenewReply
<1>4. ASSUME NEW s \in Server, SetNXReply(s) PROVE LeaseInv'
  BY <1>4 DEF SetNXReply
<1>5. ASSUME NEW s \in Server, FinishWork(s) PROVE LeaseInv'
  BY <1>5 DEF FinishWork
<1>6. ASSUME NEW s \in Server, CallFails(s) PROVE LeaseInv'
  BY <1>6 DEF CallFails
<1>7. ASSUME NEW s \in Server, Release(s) PROVE LeaseInv'
  BY <1>7 DEF Release, DeleteIfOwn
<1>8. ASSUME NEW s \in Server, Crash(s) PROVE LeaseInv'
  BY <1>8 DEF Crash
<1>9. ASSUME NEW s \in Server, Restart(s) PROVE LeaseInv'
  BY <1>9 DEF Restart
<1>10. ASSUME NEW id \in Server \cup {Ghost}, NEW op \in {"renew", "setnx"}, LateExecute(id, op)
       PROVE LeaseInv'
  <2>1. (holder' = holder /\ ttl' = ttl) \/ (holder' = id /\ ttl' = TTL /\ holder \in {id, None})
    BY <1>10 DEF LateExecute, RenewScript, SetNX
  <2> QED
    BY <1>10, <2>1 DEF LateExecute
<1>11. ASSUME Tick PROVE LeaseInv'
  <2> SUFFICES ASSUME NEW s \in Server PROVE (GrantedInv(s) /\ CallInv(s) /\ WorkInv(s))'
    OBVIOUS
  <2>1. CASE pc[s] \in {"renew", "setnx"}
    <3>1. age[s] < CallMax /\ age'[s] = age[s] + 1
      BY <1>11, <2>1 DEF Tick, Busy
    <3>2. res[s] = "yes" => ttl > 1
      BY <2>1, <3>1 DEF LeaseOutlivesWork
    <3> QED
      BY <1>11, <2>1, <3>1, <3>2 DEF Tick, Expire
  <2>2. CASE pc[s] = "working"
    <3>1. age[s] < WorkMax /\ age'[s] = age[s] + 1
      BY <1>11, <2>2 DEF Tick, Busy
    <3>2. ttl > 1
      BY <2>2, <3>1 DEF LeaseOutlivesWork
    <3> QED
      BY <1>11, <2>2, <3>1, <3>2 DEF Tick, Expire
  <2>3. CASE pc[s] \in {"idle", "stopped", "crashed"}
    BY <1>11, <2>3 DEF Tick
  <2> QED
    BY <2>1, <2>2, <2>3
<1>12. CASE UNCHANGED vars
  BY <1>12 DEF vars
<1> QED
  BY <1>1, <1>2, <1>3, <1>4, <1>5, <1>6, <1>7, <1>8, <1>9, <1>10, <1>11, <1>12
  DEF Next, Acquire

\* The inductive invariant holds in every behaviour whose work fits in the lease.
LEMMA LeaseInvariant ==
  ASSUME LeaseOutlivesWork
  PROVE  Spec => [](TypeOK /\ LeaseInv)
<1>1. Init => LeaseInv
  BY LockAssumption DEF Init, LeaseInv, GrantedInv, CallInv, WorkInv, Granted, Calling
<1>2. TypeOK /\ LeaseInv /\ [Next]_vars => LeaseInv'
  BY LeaseStep
<1> QED
  BY <1>1, <1>2, TypeTheorem, PTL DEF Spec

\* Two servers are never at work together.
THEOREM MutualExclusionTheorem ==
  ASSUME LeaseOutlivesWork
  PROVE  Spec => []MutualExclusion
<1>1. TypeOK /\ LeaseInv => MutualExclusion
  BY DEF LeaseInv, WorkInv, MutualExclusion
<1> QED
  BY <1>1, LeaseInvariant, PTL

\* A server at work still holds the unexpired key.
THEOREM WorkerHoldsKeyTheorem ==
  ASSUME LeaseOutlivesWork
  PROVE  Spec => []WorkerHoldsKey
<1>1. TypeOK /\ LeaseInv => WorkerHoldsKey
  BY LockAssumption DEF LeaseInv, WorkInv, WorkerHoldsKey, TypeOK, LeaseOutlivesWork
<1> QED
  BY <1>1, LeaseInvariant, PTL

-----------------------------------------------------------------------------
(* The refinement *)

\* A grant answered to s finds nobody else to wait for.
LEMMA GrantFindsNobody ==
  ASSUME LeaseOutlivesWork, TypeOK, LeaseInv, TenureInv, NEW s \in Server, Granted(s)
  PROVE  leader \in {None, s} /\ ttl >= Hold /\ 0 < Hold
BY LockAssumption
DEF LeaseOutlivesWork, TypeOK, LeaseInv, GrantedInv, CallInv, TenureInv, Granted, Hold

LEMMA TenureStep ==
  ASSUME LeaseOutlivesWork, TypeOK, LeaseInv, TenureInv, TypeOK', [Next]_vars
  PROVE  TenureInv'
<1> USE LockAssumption DEF TenureInv, history
<1>0. Hold \in Nat /\ 0 < Hold /\ TTL >= Hold /\ since \in Nat /\ ttl \in Nat
  BY DEF Hold, LeaseOutlivesWork, TypeOK
<1>1. ASSUME NEW id \in Server \cup {Ghost}, RenewScript(id) \/ SetNX(id), UNCHANGED history
      PROVE  TenureInv'
  <2>1. CASE UNCHANGED <<holder, ttl>>
    BY <1>1, <2>1 DEF Hold
  <2>2. CASE holder \in {None, id} /\ holder' = id /\ ttl' = TTL
    <3>1. leader # None => holder' = leader
      BY <2>2
    <3>2. TTL + since >= Hold
      BY <1>0 DEF TypeOK
    <3> QED
      BY <1>1, <2>2, <3>1, <3>2 DEF Hold
  <2> QED
    BY <1>1, <2>1, <2>2 DEF RenewScript, SetNX
<1>2. ASSUME NEW s \in Server, Granted(s), leader' = s, since' = 0, UNCHANGED <<holder, ttl>>
      PROVE  TenureInv'
  <2>1. holder = s
    BY <1>2 DEF LeaseInv, GrantedInv
  <2> QED
    BY <1>0, <1>2, <2>1, GrantFindsNobody
<1>3. ASSUME UNCHANGED <<holder, ttl, history>> PROVE TenureInv'
  BY <1>3 DEF Hold
<1>4. ASSUME NEW s \in Server, Execute(s) PROVE TenureInv'
  BY <1>1, <1>4 DEF Execute
<1>5. ASSUME NEW s \in Server, RenewReply(s) PROVE TenureInv'
  BY <1>2, <1>3, <1>5 DEF RenewReply, Granted, Calling
<1>6. ASSUME NEW s \in Server, SetNXReply(s) PROVE TenureInv'
  BY <1>2, <1>3, <1>6 DEF SetNXReply, Granted, Calling
<1>7. ASSUME NEW s \in Server, Release(s) PROVE TenureInv'
  <2>1. CASE owned[s] /\ DeleteIfOwn(s)
    BY <1>0, <1>7, <2>1 DEF Release, DeleteIfOwn
  <2>2. CASE UNCHANGED <<holder, ttl, history>>
    BY <1>3, <2>2
  <2> QED
    BY <1>7, <2>1, <2>2 DEF Release
<1>8. ASSUME NEW s \in Server, Restart(s) PROVE TenureInv'
  BY <1>0, <1>8 DEF Restart
<1>9. ASSUME NEW id \in Server \cup {Ghost}, NEW op \in Calling, LateExecute(id, op)
      PROVE  TenureInv'
  BY <1>1, <1>9 DEF LateExecute
<1>10. ASSUME Tick PROVE TenureInv'
  BY <1>0, <1>10 DEF Tick, Expire, Wait
<1> QED
  BY <1>3, <1>4, <1>5, <1>6, <1>7, <1>8, <1>9, <1>10
  DEF Next, Acquire, StartAcquire, CallFails, FinishWork, Crash, vars

\* The lease implements a single leader that leads on between its units of work, for any
\* number of servers and faults.
THEOREM RefinementTheorem ==
  ASSUME LeaseOutlivesWork
  PROVE  Spec => ImplementsSingleLeader
<1> DEFINE Acting == {s \in Server : pc[s] = "working"}
           Inv == TypeOK /\ LeaseInv /\ TenureInv
<1>1. Init => SL!Init
  BY DEF Init, SL!Init
<1>2. Inv /\ Inv' /\ [Next]_vars => [SL!Next]_(SL!sl)
  <2> SUFFICES ASSUME Inv, Inv', [Next]_vars
               PROVE  [SL!Next]_(SL!sl)
    OBVIOUS
  <2>0. /\ \A s, t \in Acting : s = t
        /\ \A s, t \in Acting' : s = t
        /\ Acting \in SUBSET Server /\ pc \in [Server -> Phase]
        /\ since \in Nat /\ Hold \in Nat
    BY LockAssumption DEF LeaseInv, WorkInv, TypeOK, Hold, LeaseOutlivesWork
  <2> DEFINE Same == Acting' = Acting
             Still == UNCHANGED <<Acting, leader, since>>
  <2>1. ASSUME NEW s \in Server, pc' = [pc EXCEPT ![s] = "working"], Granted(s),
               leader' = s, since' = 0
        PROVE  SL!Begin(s)
    <3>1. s \in Acting' /\ s \notin Acting /\ Acting' = {s}
      BY <2>0, <2>1 DEF Granted, Calling
    <3>2. \A t \in Acting : t # s /\ t \in Acting'
      BY <2>0, <2>1, <3>1
    <3>3. Acting = {}
      BY <3>1, <3>2
    <3>4. leader \in {None, s}
      BY <2>1, GrantFindsNobody
    <3> QED
      BY <2>1, <3>1, <3>3, <3>4 DEF SL!Begin
  <2>2. ASSUME NEW s \in Server, pc[s] = "working", NEW p, p # "working",
               pc' = [pc EXCEPT ![s] = p], UNCHANGED history
        PROVE  SL!End(s)
    <3>1. Acting = {s}
      BY <2>0, <2>2
    <3>2. Acting' = {}
      BY <2>0, <2>2, <3>1
    <3> QED
      BY <2>2, <3>1, <3>2 DEF SL!End, history
  <2>3. ASSUME NEW s \in Server, pc[s] # "working", NEW p, p # "working",
               pc' = [pc EXCEPT ![s] = p]
        PROVE  Same /\ s \notin Acting
    BY <2>0, <2>3
  <2>4. ASSUME NEW s \in Server, StartAcquire(s) PROVE Still
    BY <2>3, <2>4 DEF StartAcquire, history
  <2>5. ASSUME NEW s \in Server, RenewReply(s) PROVE SL!Begin(s) \/ Still
    <3>1. CASE res[s] = "yes"
      BY <2>1, <2>5, <3>1 DEF RenewReply, Granted, Calling
    <3>2. CASE res[s] # "yes"
      BY <2>3, <2>5, <3>2 DEF RenewReply, history
    <3> QED
      BY <3>1, <3>2
  <2>6. ASSUME NEW s \in Server, SetNXReply(s) PROVE SL!Begin(s) \/ Still
    <3>1. CASE res[s] = "yes"
      BY <2>1, <2>6, <3>1 DEF SetNXReply, Granted, Calling
    <3>2. CASE res[s] # "yes"
      BY <2>3, <2>6, <3>2 DEF SetNXReply, history
    <3> QED
      BY <3>1, <3>2
  <2>7. ASSUME NEW s \in Server, FinishWork(s) PROVE SL!End(s)
    BY <2>2, <2>7 DEF FinishWork
  <2>8. ASSUME NEW s \in Server, CallFails(s) PROVE Still
    BY <2>3, <2>8 DEF CallFails, Calling, history
  <2>9. ASSUME NEW s \in Server, Release(s) PROVE SL!GiveUp(s) \/ Still
    <3>1. Same /\ s \notin Acting
      BY <2>3, <2>9 DEF Release
    <3> HIDE DEF Acting
    <3> QED
      BY <2>9, <3>1 DEF Release, SL!GiveUp, history
  <2>10. ASSUME NEW s \in Server, Crash(s) PROVE SL!End(s) \/ Still
    BY <2>2, <2>3, <2>10 DEF Crash, history
  <2>11. ASSUME NEW s \in Server, Restart(s) PROVE SL!Vanish(s) \/ Still
    <3>1. Same /\ s \notin Acting
      BY <2>3, <2>11 DEF Restart
    <3> HIDE DEF Acting
    <3> QED
      BY <2>11, <3>1 DEF Restart, SL!Vanish
  <2>12. ASSUME UNCHANGED pc, UNCHANGED history PROVE Still
    BY <2>12 DEF history
  <2>13. ASSUME Tick PROVE SL!Pass \/ Still
    <3>1. Same
      BY <2>13 DEF Tick
    <3>2. leader = None => since = 0
      BY DEF TenureInv
    <3> HIDE DEF Acting
    <3> QED
      BY <2>0, <2>13, <3>1, <3>2 DEF Tick, Wait, SL!Pass
  <2>14. SL!Next \/ Still
    <3>1. ASSUME NEW s \in Server, Execute(s) PROVE Still
      BY <2>12, <3>1 DEF Execute, history
    <3>2. ASSUME NEW id \in Server \cup {Ghost}, NEW op \in Calling, LateExecute(id, op) PROVE Still
      BY <2>12, <3>2 DEF LateExecute, history
    <3>3. CASE UNCHANGED vars
      BY <2>12, <3>3 DEF vars, history
    <3> HIDE DEF Still
    <3> QED
      BY <2>4, <2>5, <2>6, <2>7, <2>8, <2>9, <2>10, <2>11, <2>13, <3>1, <3>2, <3>3
      DEF Next, Acquire, SL!Next
  <2> QED
    BY <2>14 DEF SL!sl
<1>3. Init => TenureInv
  BY DEF Init, TenureInv
<1>4. TypeOK /\ LeaseInv /\ TenureInv /\ TypeOK' /\ [Next]_vars => TenureInv'
  BY TenureStep
<1>5. Spec => []Inv
  BY <1>3, <1>4, LeaseInvariant, PTL DEF Spec
<1>6. Spec => SL!Spec
  BY <1>1, <1>2, <1>5, PTL DEF Spec, SL!Spec
<1> QED
  BY <1>6 DEF ImplementsSingleLeader
=============================================================================
