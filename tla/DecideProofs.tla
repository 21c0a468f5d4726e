---------------------------- MODULE DecideProofs ----------------------------
(***************************************************************************)
(* What one scaling decision guarantees for every policy and snapshot.     *)
(* Decide(asc, snap) is unfolded once (DecideCases); each property then    *)
(* follows from the case it is about.  Over several polls, what is kept    *)
(* is that no trigger aims above the fleet the last plan has made.         *)
(***************************************************************************)
EXTENDS Decide, FiniteSetTheorems, TLAPS

\* The number of live instances is a natural number.
LEMMA LiveNat ==
  ASSUME NEW s, IsSnapshot(s)
  PROVE  /\ IsFiniteSet(s.live)
         /\ Live(s) \in Nat
         /\ \A D \in SUBSET s.live : IsFiniteSet(D) /\ Cardinality(D) \in Nat
<1>1. IsFiniteSet(s.live)
  BY FS_Subset, DecideAssumption DEF IsSnapshot
<1>2. \A D \in SUBSET s.live : IsFiniteSet(D) /\ Cardinality(D) \in Nat
  BY <1>1, FS_Subset, FS_CardinalityType
<1> QED
  BY <1>1, <1>2 DEF Live

\* A target is a natural number; only a schedule, min_workers or "no workers" asks for a
\* count that does not depend on the live one.
LEMMA TargetNat ==
  ASSUME NEW p \in Policy, NEW s, IsSnapshot(s), NEW t \in p.up
  PROVE  /\ Target(s, t) \in Nat
         /\ t.workers \in Nat
         /\ t.trigger \in {"no_workers", "queue_depth", "latency", "schedule"}
<1>1. t \in UpTrigger
  BY DEF Policy
<1>2. Growth(s) \in Nat
  BY LiveNat DEF Growth
<1> QED
  BY <1>1, <1>2 DEF UpTrigger, Target

\* The two shapes of a decision.
LEMMA DecideCases ==
  ASSUME NEW p \in Policy, p.min <= p.max, NEW s, IsSnapshot(s), NEW x \in Decide(p, s)
  PROVE  \/ \E d \in Desired(p, s) : /\ d > Live(s)
                                     /\ x = [provision |-> d - Live(s), destroy |-> {}]
         \/ \E f \in Floor(p, s), D \in SUBSET Removable(p, s) :
              /\ x = [provision |-> 0, destroy |-> D]
              /\ D \in OldestFirst(s, Removable(p, s), Live(s) - f)
  BY DEF Decide, ScaleUpTo, ScaleDowns, OldestFirst

\* Desired and Floor are capped by max_workers, and Floor covers every holding schedule.
LEMMA DesiredBounds ==
  ASSUME NEW p \in Policy, p.min <= p.max, NEW s, IsSnapshot(s), NEW d \in Desired(p, s)
  PROVE  /\ d \in Nat
         /\ d <= p.max
         /\ \/ d <= p.min
            \/ \E t \in Firing(p, s) : d <= Target(s, t)
<1>1. PICK x \in Highest({p.min} \cup {Target(s, t) : t \in Firing(p, s)}) : d = Cap(p, x)
  BY DEF Desired
<1>2. /\ p.min \in Nat /\ p.max \in Nat
      /\ x \in Nat
      /\ x = p.min \/ \E t \in Firing(p, s) : x = Target(s, t)
  BY <1>1, TargetNat DEF Policy, Highest, Firing
<1>3. d <= x /\ d <= p.max /\ d \in Nat
  BY <1>1, <1>2 DEF Cap
<1>4. ASSUME NEW t \in Firing(p, s), x = Target(s, t)
      PROVE  d <= Target(s, t)
  BY <1>3, <1>4
<1> QED
  BY <1>2, <1>3, <1>4

LEMMA FloorBounds ==
  ASSUME NEW p \in Policy, p.min <= p.max, NEW s, IsSnapshot(s), NEW f \in Floor(p, s)
  PROVE  /\ f \in Nat
         /\ p.min <= f
         /\ ~Forced(p, s) => \A t \in Schedules(p, s) : t.workers <= f \/ p.max <= f
<1>1. CASE Forced(p, s)
  BY <1>1 DEF Floor, Policy
<1>2. CASE ~Forced(p, s)
  <2>1. PICK x \in Highest({p.min} \cup {t.workers : t \in Schedules(p, s)}) : f = Cap(p, x)
    BY <1>2 DEF Floor
  <2>2. /\ p.min \in Nat /\ p.max \in Nat /\ x \in Nat /\ p.min <= x
        /\ \A t \in Schedules(p, s) : t.workers <= x /\ t.workers \in Nat
    BY <2>1, TargetNat DEF Policy, Highest, Schedules, Firing
  <2> QED
    BY <2>1, <2>2 DEF Cap
<1> QED
  BY <1>1, <1>2

-----------------------------------------------------------------------------

\* Every state of the machine holds no plan yet, or one that decide returned.
PlanFromDecide == plan = NoPlan \/ plan \in Decide(asc, snap)
InputsOK == asc \in Policy /\ asc.min <= asc.max /\ IsSnapshot(snap)

\* What the next poll sees is a snapshot again.
LEMMA CarryInputs ==
  ASSUME InputsOK, Carry
  PROVE  InputsOK'
<1>1. PICK rented \in SUBSET (Instance \ snap.live), gone \in SUBSET plan.destroy, w \in 0..snap.totalWorkers :
        snap' = [snap EXCEPT
                  !.live = (snap.live \ gone) \cup rented,
                  !.view = [i \in Instance |-> IF i \in rented THEN Fresh(snap.now) ELSE snap.view[i]],
                  !.totalWorkers = w]
  BY DEF Carry
<1>2. IsSnapshot(snap)
  BY DEF InputsOK
<1>3. [i \in Instance |-> IF i \in rented THEN Fresh(snap.now) ELSE snap.view[i]]
        \in [Instance -> InstanceView]
  BY <1>2 DEF IsSnapshot, Fresh, InstanceView
<1>4. (snap.live \ gone) \cup rented \in SUBSET Instance /\ w \in Nat
  BY <1>2 DEF IsSnapshot
<1>5. IsSnapshot(snap')
  BY <1>1, <1>2, <1>3, <1>4 DEF IsSnapshot
<1> QED
  BY <1>5 DEF InputsOK, Carry

LEMMA PlanInvariant == Spec => [](InputsOK /\ PlanFromDecide)
<1>1. Init => InputsOK /\ PlanFromDecide
  BY DecideAssumption DEF Init, InputsOK, PlanFromDecide
<1>2. InputsOK /\ PlanFromDecide /\ [Next]_vars => (InputsOK /\ PlanFromDecide)'
  <2> SUFFICES ASSUME InputsOK, PlanFromDecide, [Next]_vars
               PROVE  (InputsOK /\ PlanFromDecide)'
    OBVIOUS
  <2>1. CASE EvaluateQueue
    BY <2>1 DEF EvaluateQueue, InputsOK, PlanFromDecide
  <2>2. CASE Carry
    BY <2>2, CarryInputs DEF Carry, PlanFromDecide, NoPlan
  <2>3. CASE UNCHANGED vars
    BY <2>3 DEF vars, InputsOK, PlanFromDecide
  <2> QED
    BY <2>1, <2>2, <2>3 DEF Next
<1> QED
  BY <1>1, <1>2, PTL DEF Spec

\* A decision is a plan over the snapshot's instances: a count that is never negative and a
\* set of known instances.
THEOREM TypeTheorem == Spec => []TypeOK
<1> DEFINE Typed == decided \in BOOLEAN /\ before \in Plan
<1>1. InputsOK /\ PlanFromDecide => plan \in Plan
  <2> SUFFICES ASSUME InputsOK, plan \in Decide(asc, snap)
               PROVE  plan \in Plan
    BY DEF PlanFromDecide, NoPlan, Plan
  <2>0. Live(snap) \in Nat /\ asc \in Policy /\ asc.min <= asc.max /\ IsSnapshot(snap)
    BY LiveNat DEF InputsOK
  <2>1. CASE \E d \in Desired(asc, snap) :
               d > Live(snap) /\ plan = [provision |-> d - Live(snap), destroy |-> {}]
    BY <2>0, <2>1, DesiredBounds DEF Plan
  <2>2. CASE \E D \in SUBSET Removable(asc, snap) : plan = [provision |-> 0, destroy |-> D]
    BY <2>0, <2>2 DEF Removable, IsSnapshot, Plan
  <2> QED
    BY <2>0, <2>1, <2>2, DecideCases
<1>2. Init => Typed
  <2>1. NoPlan \in Plan
    BY DEF NoPlan, Plan
  <2> QED
    BY <2>1 DEF Init
<1>3. Typed /\ InputsOK /\ PlanFromDecide /\ [Next]_vars => Typed'
  BY <1>1 DEF Next, EvaluateQueue, Carry, vars
<1>4. InputsOK /\ PlanFromDecide /\ Typed => TypeOK
  BY <1>1 DEF InputsOK, TypeOK
<1> QED
  BY <1>2, <1>3, <1>4, PlanInvariant, PTL DEF Spec

\* One decision crosses neither max_workers nor the floor (min_workers, held schedules).
THEOREM BoundsTheorem == Spec => []PlanWithinBounds
<1>1. InputsOK /\ PlanFromDecide => PlanWithinBounds
  <2> SUFFICES ASSUME InputsOK, plan \in Decide(asc, snap)
               PROVE  PlanWithinBounds
    BY DEF PlanFromDecide, NoPlan, PlanWithinBounds
  <2>0. Live(snap) \in Nat /\ asc \in Policy /\ asc.min <= asc.max /\ IsSnapshot(snap)
    BY LiveNat DEF InputsOK
  <2>1. CASE \E d \in Desired(asc, snap) :
               d > Live(snap) /\ plan = [provision |-> d - Live(snap), destroy |-> {}]
    BY <2>0, <2>1, DesiredBounds DEF PlanWithinBounds, Policy
  <2>2. ASSUME NEW f \in Floor(asc, snap), NEW D \in SUBSET Removable(asc, snap),
               plan = [provision |-> 0, destroy |-> D],
               D \in OldestFirst(snap, Removable(asc, snap), Live(snap) - f)
        PROVE  PlanWithinBounds
    <3>1. D \in SUBSET snap.live /\ Removable(asc, snap) \in SUBSET snap.live
      BY DEF Removable
    <3>2. Cardinality(D) \in Nat /\ Cardinality(Removable(asc, snap)) \in Nat
      BY <2>0, <3>1, LiveNat
    <3>3. /\ f \in Nat /\ asc.min <= f
          /\ ~Forced(asc, snap) => \A t \in Schedules(asc, snap) : t.workers <= f \/ asc.max <= f
      BY <2>0, <2>2, FloorBounds
    <3>4. Cardinality(D) = 0 \/ Live(snap) - Cardinality(D) >= f
      BY <2>0, <2>2, <3>2, <3>3 DEF OldestFirst
    <3>5. D # {} => Live(snap) - Cardinality(D) >= f
      BY <2>0, <3>1, <3>4, LiveNat, FS_EmptySet
    <3>6. \A t \in Schedules(asc, snap) : t.workers \in Nat
      BY <2>0, TargetNat DEF Schedules, Firing
    <3>7. asc.min \in Nat /\ asc.max \in Nat
      BY <2>0 DEF Policy
    <3> DEFINE left == Live(snap) - Cardinality(D)
    <3>8. left \in Int /\ (D # {} => left >= f)
      BY <2>0, <3>2, <3>5
    <3> HIDE DEF left
    <3>9. D # {} => /\ left >= asc.min
                    /\ ~Forced(asc, snap) =>
                         \A t \in Schedules(asc, snap) : left >= t.workers \/ left >= asc.max
      BY <3>3, <3>6, <3>7, <3>8
    <3>10. plan.provision = 0 /\ plan.destroy = D
      BY <2>2
    <3> QED
      BY <3>9, <3>10 DEF PlanWithinBounds, left
  <2> QED
    BY <2>0, <2>1, <2>2, DecideCases
<1> QED
  BY <1>1, PlanInvariant, PTL

\* While an instance boots, a decision provisions only up to an explicit count.
THEOREM NoStackingTheorem == Spec => []NoStacking
<1>1. InputsOK /\ PlanFromDecide => NoStacking
  <2> SUFFICES ASSUME InputsOK, plan \in Decide(asc, snap),
                      plan.provision > 0, Booting(snap) # {}
               PROVE  \/ Live(snap) + plan.provision <= asc.min
                      \/ Live(snap) + plan.provision <= 1
                      \/ \E t \in Schedules(asc, snap) : Live(snap) + plan.provision <= t.workers
    BY DEF PlanFromDecide, NoPlan, NoStacking
  <2>0. Live(snap) \in Nat /\ asc \in Policy /\ asc.min <= asc.max /\ IsSnapshot(snap)
    BY LiveNat DEF InputsOK
  <2>1. PICK d \in Desired(asc, snap) : d > Live(snap) /\ plan.provision = d - Live(snap)
    BY <2>0, DecideCases
  <2>2. d \in Nat /\ Live(snap) + plan.provision = d
    BY <2>0, <2>1, DesiredBounds
  <2>3. CASE d <= asc.min
    BY <2>2, <2>3
  <2>4. ASSUME NEW t \in Firing(asc, snap), d <= Target(snap, t)
        PROVE  d <= 1 \/ (t \in Schedules(asc, snap) /\ d <= t.workers)
    <3>1. t.trigger \in {"no_workers", "queue_depth", "latency", "schedule"} /\ t.workers \in Nat
      BY <2>0, TargetNat DEF Firing
    <3>2. CASE t.trigger = "no_workers"
      BY <2>4, <3>2 DEF Target
    <3>3. CASE t.trigger \in {"queue_depth", "latency"}
      BY <2>0, <2>1, <2>2, <2>4, <3>3 DEF Target, Growth
    <3>4. CASE t.trigger = "schedule"
      BY <2>4, <3>4 DEF Target, Schedules
    <3> QED
      BY <3>1, <3>2, <3>3, <3>4
  <2> QED
    BY <2>0, <2>2, <2>3, <2>4, DesiredBounds
<1> QED
  BY <1>1, PlanInvariant, PTL

\* A loaded trigger lifts every count decide may settle on above the live one.
LEMMA LoadLifts ==
  ASSUME NEW p \in Policy, p.min <= p.max, NEW s, IsSnapshot(s),
         Booting(s) = {}, Live(s) < p.max,
         NEW t \in Firing(p, s), t.trigger \in {"queue_depth", "latency"},
         NEW d \in Desired(p, s)
  PROVE  d > Live(s)
<1>1. PICK x \in Highest({p.min} \cup {Target(s, u) : u \in Firing(p, s)}) : d = Cap(p, x)
  BY DEF Desired
<1>2. Live(s) \in Nat /\ p.min \in Nat /\ p.max \in Nat /\ x \in Nat
  BY <1>1, LiveNat, TargetNat DEF Policy, Highest, Firing
<1>3. Target(s, t) = Live(s) + 1
  BY DEF Target, Growth
<1>4. Target(s, t) <= x
  BY <1>1 DEF Highest
<1> QED
  BY <1>1, <1>2, <1>3, <1>4 DEF Cap

\* A queue over its depth or latency limit, below max_workers and with nothing booting,
\* always gets an instance.
THEOREM LoadTheorem == Spec => []LoadIsAnswered
<1> DEFINE Answered == decided => plan \in Decide(asc, snap)
<1>1. Init => Answered
  BY DEF Init
<1>2. Answered /\ [Next]_vars => Answered'
  BY DEF Next, EvaluateQueue, Carry, vars
<1>3. InputsOK /\ Answered => LoadIsAnswered
  <2> SUFFICES ASSUME InputsOK, plan \in Decide(asc, snap),
                      Booting(snap) = {}, Live(snap) < asc.max,
                      NEW t \in asc.up,
                      \/ t.trigger = "queue_depth" /\ PendingOf(snap, t) > t.limit
                      \/ t.trigger = "latency" /\ HasPending(snap, t) /\ OlderThan(snap, t, t.limit)
               PROVE  plan.provision > 0
    BY DEF LoadIsAnswered
  <2>0. Live(snap) \in Nat /\ asc \in Policy /\ asc.min <= asc.max /\ IsSnapshot(snap)
    BY LiveNat DEF InputsOK
  <2>1. t \in Firing(asc, snap) /\ t.trigger \in {"queue_depth", "latency"}
    BY DEF Firing, Fires
  <2>2. \A d \in Desired(asc, snap) : d > Live(snap) /\ d \in Nat
    BY <2>0, <2>1, LoadLifts, DesiredBounds
  <2>3. PICK d \in Desired(asc, snap) : plan = ScaleUpTo(snap, d)
    BY <2>2 DEF Decide
  <2> QED
    BY <2>0, <2>2, <2>3 DEF ScaleUpTo
<1> QED
  BY <1>1, <1>2, <1>3, PlanInvariant, PTL DEF Spec

-----------------------------------------------------------------------------
(* Several polls *)

\* The cap keeps the order of two counts and raises neither.
LEMMA CapMonotone ==
  ASSUME NEW p \in Policy, p.min <= p.max, NEW x \in Nat, NEW y \in Nat, x <= y
  PROVE  Cap(p, x) <= Cap(p, y) /\ Cap(p, x) \in Nat /\ Cap(p, y) \in Nat /\ Cap(p, x) <= x
BY DEF Cap, Policy

\* Snapshots that agree on the load and the clock agree on what the schedules and the load say.
Still(s, u) == s.now = u.now /\ s.window = u.window /\ s.loads = u.loads

LEMMA StillAgree ==
  ASSUME NEW p \in Policy, NEW s, NEW u, Still(s, u)
  PROVE  /\ Forced(p, s) = Forced(p, u)
         /\ Schedules(p, s) = Schedules(p, u)
         /\ Loaded(p, s) = Loaded(p, u)
         /\ \A t \in p.up : t.trigger \in {"queue_depth", "latency"} => (Fires(s, t) = Fires(u, t))
         /\ \A t \in p.up : HasPending(s, t) = HasPending(u, t)
<1>1. \A t \in p.up : /\ HasPending(s, t) = HasPending(u, t)
                       /\ PendingOf(s, t) = PendingOf(u, t)
                       /\ OlderThan(s, t, t.limit) = OlderThan(u, t, t.limit)
                       /\ Hold(s, t) = Hold(u, t)
  BY DEF Still, HasPending, PendingOf, OlderThan, Hold
<1>2. \A t \in p.up : t.trigger \in {"queue_depth", "latency", "schedule"} => (Fires(s, t) = Fires(u, t))
  BY <1>1 DEF Fires, Still
<1>3. Loaded(p, s) = Loaded(p, u)
  BY <1>1, <1>2 DEF Loaded
<1>4. Schedules(p, s) = Schedules(p, u)
  BY <1>2 DEF Schedules, Firing
<1> QED
  BY <1>1, <1>2, <1>3, <1>4 DEF Forced, Still

\* After a rental up to d, with it booting, no trigger aims above d.
LEMMA AfterRental ==
  ASSUME NEW p \in Policy, p.min <= p.max, NEW s, IsSnapshot(s), NEW u, IsSnapshot(u),
         Still(s, u), u.totalWorkers = s.totalWorkers,
         NEW d \in Desired(p, s), Live(u) = d, Booting(u) # {},
         NEW e \in Desired(p, u)
  PROVE  e <= d
<1>1. PICK x \in Highest({p.min} \cup {Target(s, t) : t \in Firing(p, s)}) : d = Cap(p, x)
  BY DEF Desired
<1>2. PICK y \in Highest({p.min} \cup {Target(u, t) : t \in Firing(p, u)}) : e = Cap(p, y)
  BY DEF Desired
<1>3. /\ x \in Nat /\ y \in Nat /\ d \in Nat /\ p.min \in Nat
      /\ p.min <= x /\ \A t \in Firing(p, s) : Target(s, t) <= x
  BY <1>1, <1>2, TargetNat, DesiredBounds DEF Policy, Highest, Firing
<1>4. Firing(p, u) = Firing(p, s)
  <2>1. \A t \in p.up : Fires(u, t) = Fires(s, t)
    <3> SUFFICES ASSUME NEW t \in p.up PROVE Fires(u, t) = Fires(s, t)
      OBVIOUS
    <3>1. t.trigger \in {"no_workers", "queue_depth", "latency", "schedule"}
      BY TargetNat
    <3>2. CASE t.trigger = "no_workers"
      BY <3>2, StillAgree DEF Fires
    <3>3. CASE t.trigger \in {"queue_depth", "latency"}
      BY <3>3, StillAgree
    <3>4. CASE t.trigger = "schedule"
      BY <3>4 DEF Fires, Still, Hold
    <3> QED
      BY <3>1, <3>2, <3>3, <3>4
  <2> QED
    BY <2>1 DEF Firing
<1>5. CASE y = p.min
  BY <1>1, <1>2, <1>3, <1>5, CapMonotone
<1>6. ASSUME NEW t \in Firing(p, s), y = Target(u, t)
      PROVE  e <= d
  <2>1. t.trigger \in {"no_workers", "queue_depth", "latency", "schedule"}
    BY TargetNat DEF Firing
  <2>2. CASE t.trigger \in {"queue_depth", "latency"}
    <3>1. y = d
      BY <1>6, <2>2 DEF Target, Growth
    <3> QED
      BY <1>2, <1>3, <3>1, CapMonotone
  <2>3. CASE t.trigger \in {"no_workers", "schedule"}
    <3>1. Target(u, t) = Target(s, t)
      BY <2>3 DEF Target
    <3>2. y <= x
      BY <1>3, <1>6, <3>1
    <3> QED
      BY <1>1, <1>2, <1>3, <3>2, CapMonotone
  <2> QED
    BY <2>1, <2>2, <2>3
<1> QED
  BY <1>2, <1>4, <1>5, <1>6 DEF Highest

\* A removal that nothing forced, with no work waiting, stops at the count the schedules
\* and min_workers aim for: no trigger aims above what it leaves.
LEMMA AfterRemoval ==
  ASSUME NEW p \in Policy, p.min <= p.max, NEW s, IsSnapshot(s), NEW u, IsSnapshot(u),
         Still(s, u), ~Forced(p, s), ~Loaded(p, s),
         NEW f \in Floor(p, s), NEW e \in Desired(p, u)
  PROVE  e <= f
<1>1. PICK x \in Highest({p.min} \cup {t.workers : t \in Schedules(p, s)}) : f = Cap(p, x)
  BY DEF Floor
<1>2. PICK y \in Highest({p.min} \cup {Target(u, t) : t \in Firing(p, u)}) : e = Cap(p, y)
  BY DEF Desired
<1>3. /\ x \in Nat /\ y \in Nat /\ p.min <= x
      /\ \A t \in Schedules(p, s) : t.workers <= x
  BY <1>1, <1>2, TargetNat DEF Policy, Highest, Schedules, Firing
<1>4. \A t \in Firing(p, u) : t \in Schedules(p, s) /\ Target(u, t) = t.workers
  <2> SUFFICES ASSUME NEW t \in Firing(p, u)
               PROVE  t \in Schedules(p, s) /\ Target(u, t) = t.workers
    OBVIOUS
  <2>1. t.trigger \in {"no_workers", "queue_depth", "latency", "schedule"} /\ t \in p.up
    BY TargetNat DEF Firing
  <2>2. t.trigger \notin {"queue_depth", "latency"}
    BY <2>1, StillAgree DEF Firing, Loaded
  <2>3. t.trigger # "no_workers"
    BY <2>1, StillAgree DEF Firing, Fires, Loaded
  <2>4. t.trigger = "schedule"
    BY <2>1, <2>2, <2>3
  <2>5. t \in Schedules(p, u)
    BY <2>4 DEF Schedules
  <2> QED
    BY <2>4, <2>5, StillAgree DEF Target
<1>5. y <= x
  BY <1>2, <1>3, <1>4 DEF Highest
<1> QED
  BY <1>1, <1>2, <1>3, <1>5, CapMonotone

Excused(p, s) == Forced(p, s) \/ Loaded(p, s)

\* No trigger aims above the fleet the last plan has made.
Met == \A d \in Desired(asc, snap) : d <= Live(snap)
SettledInv ==
  before # NoPlan =>
    \/ before.destroy # {} /\ Excused(asc, snap)
    \/ Met /\ (before.destroy = {} => Booting(snap) # {})

\* Carrying a plan out keeps every trigger at or below the fleet, or the removal excused.
LEMMA CarrySettled ==
  ASSUME InputsOK, PlanFromDecide, SettledInv, Carry
  PROVE  SettledInv'
<1>0. /\ asc \in Policy /\ asc.min <= asc.max /\ IsSnapshot(snap) /\ IsSnapshot(snap') /\ asc' = asc
      /\ Live(snap) \in Nat
  BY CarryInputs, LiveNat DEF InputsOK, Carry
<1>1. PICK rented \in SUBSET (Instance \ snap.live), gone \in SUBSET plan.destroy, w \in 0..snap.totalWorkers :
        /\ Cardinality(rented) = plan.provision
        /\ w + Cardinality(gone) >= snap.totalWorkers
        /\ snap' = [snap EXCEPT
             !.live = (snap.live \ gone) \cup rented,
             !.view = [i \in Instance |-> IF i \in rented THEN Fresh(snap.now) ELSE snap.view[i]],
             !.totalWorkers = w]
  BY DEF Carry
<1>2. /\ Still(snap, snap') /\ snap'.totalWorkers = w /\ w \in Nat /\ w <= snap.totalWorkers
      /\ snap.totalWorkers \in Nat
      /\ snap'.live = (snap.live \ gone) \cup rented
      /\ \A i \in rented : snap'.view[i].booting
      /\ \A i \in Instance \ rented : snap'.view[i] = snap.view[i]
  <2>1. w \in Nat /\ w <= snap.totalWorkers /\ snap.totalWorkers \in Nat
    BY <1>0 DEF IsSnapshot
  <2>2. /\ snap'.view = [i \in Instance |-> IF i \in rented THEN Fresh(snap.now) ELSE snap.view[i]]
        /\ snap'.live = (snap.live \ gone) \cup rented
        /\ snap'.totalWorkers = w
        /\ Still(snap, snap')
    BY <1>0, <1>1 DEF IsSnapshot, Still
  <2>3. \A i \in rented : snap'.view[i] = Fresh(snap.now)
    BY <2>2
  <2>4. \A i \in rented : snap'.view[i].booting
    BY <2>3 DEF Fresh
  <2>5. \A i \in Instance \ rented : snap'.view[i] = snap.view[i]
    BY <2>2
  <2> QED
    BY <2>1, <2>2, <2>4, <2>5
<1>3. IsFiniteSet(rented) /\ IsFiniteSet(snap.live) /\ rented \cap snap.live = {}
  BY <1>0, <1>1, LiveNat, FS_Subset, DecideAssumption DEF IsSnapshot
<1>4. Cardinality(rented) = 0 <=> rented = {}
  BY <1>3, FS_EmptySet
<1>5. gone = {} => w = snap.totalWorkers
  <2>1. Cardinality({}) = 0
    BY FS_EmptySet
  <2> QED
    BY <1>1, <1>2, <2>1
<1>6. CASE plan = NoPlan
  <2>1. gone = {} /\ rented = {} /\ w = snap.totalWorkers
    BY <1>1, <1>6, <1>4, <1>5 DEF NoPlan
  <2>2. snap' = snap
    <3>1. snap'.live = snap.live
      BY <1>2, <2>1
    <3>2. snap'.view = snap.view
      BY <1>0, <1>2, <2>1 DEF IsSnapshot
    <3>3. /\ snap'.now = snap.now /\ snap'.window = snap.window /\ snap'.loads = snap.loads
          /\ snap'.totalWorkers = snap.totalWorkers
      BY <1>2, <2>1 DEF Still
    <3> QED
      BY <1>0, <3>1, <3>2, <3>3 DEF IsSnapshot
  <2> QED
    BY <1>0, <1>6, <2>2 DEF SettledInv, Met, Carry
<1>7. ASSUME NEW d \in Desired(asc, snap), d > Live(snap),
             plan = [provision |-> d - Live(snap), destroy |-> {}]
      PROVE  SettledInv'
  <2>1. gone = {} /\ w = snap.totalWorkers /\ d \in Nat
    BY <1>0, <1>1, <1>7, <1>5, DesiredBounds
  <2>2. Live(snap') = d /\ rented # {}
    <3>1. Cardinality(rented) = d - Live(snap) /\ snap'.live = snap.live \cup rented
      BY <1>1, <1>2, <1>7, <2>1
    <3>2. Cardinality(snap.live \cup rented)
            = Cardinality(snap.live) + Cardinality(rented) - Cardinality(snap.live \cap rented)
      BY <1>3, FS_Union
    <3>3. Cardinality(snap.live \cap rented) = 0
      BY <1>3, FS_EmptySet
    <3>4. Cardinality(rented) # 0
      BY <1>0, <1>7, <2>1, <3>1
    <3>5. Cardinality(snap.live) + (d - Cardinality(snap.live)) - 0 = d
      BY <1>0, <2>1 DEF Live
    <3> QED
      BY <1>4, <3>1, <3>2, <3>3, <3>4, <3>5 DEF Live
  <2>3. Booting(snap') # {}
    BY <1>2, <2>2 DEF Booting
  <2>4. \A e \in Desired(asc, snap') : e <= d
    BY <1>0, <1>2, <2>1, <2>2, <2>3, AfterRental
  <2> QED
    BY <1>0, <2>2, <2>3, <2>4 DEF SettledInv, Met
<1>8. ASSUME NEW f \in Floor(asc, snap), NEW D \in SUBSET Removable(asc, snap), D # {},
             plan = [provision |-> 0, destroy |-> D],
             D \in OldestFirst(snap, Removable(asc, snap), Live(snap) - f)
      PROVE  SettledInv'
  <2>0. before' = plan /\ plan.destroy = D
    BY <1>8 DEF Carry, NoPlan
  <2>1. CASE Excused(asc, snap)
    BY <1>0, <1>2, <1>8, <2>0, <2>1, StillAgree DEF SettledInv, Excused
  <2>2. CASE ~Excused(asc, snap)
    <3>1. \A e \in Desired(asc, snap') : e <= f
      BY <1>0, <1>2, <2>2, AfterRemoval DEF Excused
    <3>2. /\ D \in SUBSET snap.live /\ Removable(asc, snap) \in SUBSET snap.live
          /\ gone \in SUBSET D /\ rented = {}
      BY <1>1, <1>3, <1>8, FS_EmptySet DEF Removable
    <3>3. /\ Cardinality(D) \in Nat /\ Cardinality(Removable(asc, snap)) \in Nat
          /\ IsFiniteSet(D) /\ IsFiniteSet(gone) /\ f \in Nat
      BY <1>0, <3>2, LiveNat, FS_Subset, FloorBounds
    <3>4. Cardinality(D) # 0 /\ Live(snap) - Cardinality(D) >= f
      BY <1>0, <1>8, <3>3, FS_EmptySet DEF OldestFirst
    <3>5. Cardinality(gone) <= Cardinality(D) /\ Cardinality(gone) \in Nat
      BY <3>2, <3>3, FS_Subset, FS_CardinalityType
    <3>6. Live(snap') = Live(snap) - Cardinality(gone)
      <4>1. snap'.live = snap.live \ gone /\ snap.live \cap gone = gone
        BY <1>2, <3>2
      <4> QED
        BY <1>3, <4>1, FS_Difference DEF Live
    <3>7. Live(snap') >= f /\ Live(snap') \in Nat
      BY <1>0, <3>3, <3>4, <3>5, <3>6
    <3>8. \A e \in Desired(asc, snap') : e <= Live(snap')
      BY <1>0, <3>1, <3>3, <3>7, DesiredBounds
    <3> QED
      BY <1>0, <1>8, <2>0, <3>8 DEF SettledInv, Met
  <2> QED
    BY <2>1, <2>2
<1>9. \/ plan = NoPlan
      \/ \E d \in Desired(asc, snap) :
           d > Live(snap) /\ plan = [provision |-> d - Live(snap), destroy |-> {}]
      \/ \E f \in Floor(asc, snap), D \in SUBSET Removable(asc, snap) :
           /\ D # {} /\ plan = [provision |-> 0, destroy |-> D]
           /\ D \in OldestFirst(snap, Removable(asc, snap), Live(snap) - f)
  BY <1>0, DecideCases DEF PlanFromDecide, NoPlan
<1> QED
  BY <1>6, <1>7, <1>8, <1>9

\* While the load and the clock stand still, nothing is rented after a rental, and a removal
\* is undone only when a schedule forced it or work waits.
THEOREM SettlesTheorem == Spec => []Settles
<1>1. Init => SettledInv
  BY DEF Init, SettledInv
<1>2. InputsOK /\ PlanFromDecide /\ SettledInv /\ [Next]_vars => SettledInv'
  <2> SUFFICES ASSUME InputsOK, PlanFromDecide, SettledInv, [Next]_vars
               PROVE  SettledInv'
    OBVIOUS
  <2>1. CASE EvaluateQueue
    BY <2>1 DEF EvaluateQueue, SettledInv, Met
  <2>2. CASE Carry
    BY <2>2, CarrySettled
  <2>3. CASE UNCHANGED vars
    BY <2>3 DEF vars, SettledInv, Met
  <2> QED
    BY <2>1, <2>2, <2>3 DEF Next
<1>3. InputsOK /\ PlanFromDecide /\ SettledInv => Settles
  <2> SUFFICES ASSUME InputsOK, plan \in Decide(asc, snap), SettledInv,
                      plan.provision > 0, before # NoPlan
               PROVE  before.destroy # {} /\ Excused(asc, snap)
    BY DEF PlanFromDecide, NoPlan, Settles, Excused
  <2>1. PICK d \in Desired(asc, snap) : d > Live(snap)
    BY DecideCases DEF InputsOK
  <2>2. d \in Nat /\ Live(snap) \in Nat
    BY DesiredBounds, LiveNat DEF InputsOK
  <2>3. ~Met
    BY <2>1, <2>2 DEF Met
  <2> QED
    BY <2>3 DEF SettledInv
<1> QED
  BY <1>1, <1>2, <1>3, PlanInvariant, PTL DEF Spec
=============================================================================
