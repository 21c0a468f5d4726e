------------------------------- MODULE Decide -------------------------------
(***************************************************************************)
(* autoscale/decide.go: the scaling decision for one parent queue.         *)
(*                                                                         *)
(* decide(asc, snap) is a pure function of the queue's autoscale policy    *)
(* and of a snapshot gathered once per evaluation.  sort.Slice is not      *)
(* stable, so instances with the same activity time may be removed in any  *)
(* order: Decide(asc, snap) is the set of plans the code may return.       *)
(*                                                                         *)
(* The machine below polls a queue whose load and clock stand still: it    *)
(* decides, the fleet becomes what the plan asked for, and it decides      *)
(* again on the fleet it has made.                                         *)
(***************************************************************************)
EXTENDS Integers, FiniteSets, FiniteSetsExt

CONSTANTS
  Instance,    \* managed instances (rows of autoscale_instances)
  SubQueue,    \* short names of sub-queues
  BusyGrace,   \* busyGrace
  Policies,    \* the policies to decide under
  Snapshots    \* the snapshots to decide on

NoTimeout == -1

UpTrigger == [trigger : {"no_workers", "queue_depth", "latency", "schedule"},
              subs : SUBSET SubQueue,  \* {} watches the whole queue
              limit : Nat,             \* threshold or max_latency
              workers : Nat,           \* schedule target
              cron : SUBSET Int,       \* the instants the cron expression fires at
              duration : Nat]

Policy == [min : Nat, max : Nat, up : SUBSET UpTrigger,
           downCron : SUBSET Int,      \* firings of the scale-down schedules
           idle : Nat \cup {NoTimeout}] \* timeout of the last idle trigger

InstanceView == [protected : BOOLEAN, booting : BOOLEAN, busy : BOOLEAN,
                 lastActivity : Int]

\* aggregateQueueStats keeps one load per sub-queue (zero for a paused one).
Load == [pending : Nat, latency : Nat]

IsSnapshot(s) ==
  s \in [now : Int, window : Nat, totalWorkers : Nat, loads : [SubQueue -> Load],
         live : SUBSET Instance, view : [Instance -> InstanceView]]

ASSUME DecideAssumption ==
  /\ BusyGrace \in Nat
  /\ IsFiniteSet(Instance)
  /\ Policies \subseteq Policy
  /\ \A p \in Policies : p.min <= p.max
  /\ \A s \in Snapshots : IsSnapshot(s)

-----------------------------------------------------------------------------
(* Demand *)

Watched(t) == IF t.subs = {} THEN SubQueue ELSE t.subs
PendingOf(snap, t) == MapThenSumSet(LAMBDA q : snap.loads[q].pending, Watched(t))
HasPending(snap, t) == \E q \in Watched(t) : snap.loads[q].pending > 0
OlderThan(snap, t, d) == \E q \in Watched(t) : snap.loads[q].latency > d

\* sched.Next(now - window) <= now: a firing in the half-open window (now - w, now].
CronFiredWithin(cron, w, now) == \E f \in cron : now - w < f /\ f <= now

Hold(snap, t) == IF t.duration > snap.window THEN t.duration ELSE snap.window

Live(snap) == Cardinality(snap.live)
Booting(snap) == {i \in snap.live : snap.view[i].booting}

\* mutant: one more instance even while another is booting
MutGrowth(snap) == Live(snap) + 1
Growth(snap) == IF Booting(snap) = {} THEN Live(snap) + 1 ELSE Live(snap)

\* mutant: the latency of the whole queue is read through the trigger's threshold
MutFires(snap, t) ==
  CASE t.trigger = "no_workers"  -> HasPending(snap, t) /\ snap.totalWorkers = 0
    [] t.trigger = "schedule"    -> CronFiredWithin(t.cron, Hold(snap, t), snap.now)
    [] OTHER                     -> PendingOf(snap, t) > t.limit
Fires(snap, t) ==
  CASE t.trigger = "no_workers"  -> HasPending(snap, t) /\ snap.totalWorkers = 0
    [] t.trigger = "queue_depth" -> PendingOf(snap, t) > t.limit
    [] t.trigger = "latency"     -> HasPending(snap, t) /\ OlderThan(snap, t, t.limit)
    [] t.trigger = "schedule"    -> CronFiredWithin(t.cron, Hold(snap, t), snap.now)

\* The live count a firing trigger aims for.
Target(snap, t) ==
  CASE t.trigger = "no_workers" -> 1
    [] t.trigger \in {"queue_depth", "latency"} -> Growth(snap)
    [] t.trigger = "schedule"   -> t.workers

Firing(asc, snap) == {t \in asc.up : Fires(snap, t)}
Schedules(asc, snap) == {t \in Firing(asc, snap) : t.trigger = "schedule"}

\* The running maximum of the loop over scale_up, capped by max_workers.
Highest(S) == {x \in S : \A y \in S : y <= x}
\* mutant: max_workers forgotten
MutCap(asc, x) == x
Cap(asc, x) == IF x > asc.max THEN asc.max ELSE x
Desired(asc, snap) ==
  {Cap(asc, x) : x \in Highest({asc.min} \cup {Target(snap, t) : t \in Firing(asc, snap)})}

-----------------------------------------------------------------------------
(* Scale-down *)

Forced(asc, snap) == CronFiredWithin(asc.downCron, snap.window, snap.now)

\* mutant: a holding schedule does not protect its instances
MutFloor(asc, snap) == {asc.min}
Floor(asc, snap) ==
  IF Forced(asc, snap)
    THEN {asc.min}
    ELSE {Cap(asc, x) : x \in Highest({asc.min} \cup {t.workers : t \in Schedules(asc, snap)})}

QuietFor(snap, i) == snap.now - snap.view[i].lastActivity

Removable(asc, snap) ==
  {i \in snap.live :
     /\ ~snap.view[i].protected /\ ~snap.view[i].booting /\ ~snap.view[i].busy
     /\ QuietFor(snap, i) >= BusyGrace
     /\ Forced(asc, snap) \/ (asc.idle # NoTimeout /\ QuietFor(snap, i) >= asc.idle)}

\* The first n of the removable instances, longest idle first.
OldestFirst(snap, R, n) ==
  {D \in SUBSET R :
     /\ Cardinality(D) = IF n <= 0 THEN 0 ELSE IF Cardinality(R) > n THEN n ELSE Cardinality(R)
     /\ \A i \in D, j \in R \ D : snap.view[i].lastActivity <= snap.view[j].lastActivity}

Plan == [provision : Nat, destroy : SUBSET Instance]

ScaleUpTo(snap, d) == [provision |-> d - Live(snap), destroy |-> {}]

ScaleDowns(asc, snap) ==
  {[provision |-> 0, destroy |-> D] :
     D \in UNION {OldestFirst(snap, Removable(asc, snap), Live(snap) - f) : f \in Floor(asc, snap)}}

Decide(asc, snap) ==
  UNION {IF d > Live(snap) THEN {ScaleUpTo(snap, d)} ELSE ScaleDowns(asc, snap) :
         d \in Desired(asc, snap)}

-----------------------------------------------------------------------------
VARIABLES
  asc, snap,
  plan,     \* what this poll decided
  decided,
  before    \* the last plan of an earlier poll that changed the fleet
vars == <<asc, snap, plan, decided, before>>

NoPlan == [provision |-> 0, destroy |-> {}]

Init ==
  /\ asc \in Policies
  /\ snap \in Snapshots
  /\ plan = NoPlan
  /\ decided = FALSE
  /\ before = NoPlan

EvaluateQueue ==
  /\ ~decided
  /\ plan' \in Decide(asc, snap)
  /\ decided' = TRUE
  /\ UNCHANGED <<asc, snap, before>>

\* An instance just rented has no ready worker.
Fresh(t) == [protected |-> FALSE, booting |-> TRUE, busy |-> FALSE, lastActivity |-> t]

\* The fleet at the next poll: what was asked for is rented and boots, and the removed
\* instances have gone with their workers, except those that still drain.
Carry ==
  /\ decided
  /\ \E rented \in SUBSET (Instance \ snap.live), gone \in SUBSET plan.destroy, w \in 0..snap.totalWorkers :
       /\ Cardinality(rented) = plan.provision
       /\ w + Cardinality(gone) >= snap.totalWorkers
       /\ snap' = [snap EXCEPT
            !.live = (snap.live \ gone) \cup rented,
            !.view = [i \in Instance |-> IF i \in rented THEN Fresh(snap.now) ELSE snap.view[i]],
            !.totalWorkers = w]
  /\ before' = IF plan = NoPlan THEN before ELSE plan
  /\ plan' = NoPlan
  /\ decided' = FALSE
  /\ UNCHANGED asc

\* Deadlock freedom of this machine says that decide always has an answer.
Next == EvaluateQueue \/ Carry
Spec == Init /\ [][Next]_vars

-----------------------------------------------------------------------------
(* Properties *)

\* The decision is a plan over the snapshot's instances (a count and a set to remove).
TypeOK ==
  asc \in Policy /\ IsSnapshot(snap) /\ {plan, before} \subseteq Plan /\ decided \in BOOLEAN

\* Neither max_workers nor the floor is crossed by one decision: a scale-up never
\* passes max_workers, and a scale-down keeps min_workers and (unless a scale-down
\* schedule forces it) the target of every schedule still holding.
PlanWithinBounds ==
  /\ plan.provision > 0 => Live(snap) + plan.provision <= asc.max
  /\ plan.destroy # {} =>
       LET left == Live(snap) - Cardinality(plan.destroy) IN
         /\ left >= asc.min
         /\ ~Forced(asc, snap) =>
              \A t \in Schedules(asc, snap) : left >= t.workers \/ left >= asc.max

\* Scale-up never stacks: with an instance still booting, a decision provisions only up to
\* an explicit count (min_workers, one worker for an unserved queue, a schedule target).
NoStacking ==
  plan.provision > 0 /\ Booting(snap) # {} =>
    \/ Live(snap) + plan.provision <= asc.min
    \/ Live(snap) + plan.provision <= 1
    \/ \E t \in Schedules(asc, snap) : Live(snap) + plan.provision <= t.workers

\* A queue over its depth or latency limit, below max_workers and with nothing booting,
\* always gets an instance.
LoadIsAnswered ==
  decided /\ Booting(snap) = {} /\ Live(snap) < asc.max =>
    \A t \in asc.up :
      \/ t.trigger = "queue_depth" /\ PendingOf(snap, t) > t.limit
      \/ t.trigger = "latency" /\ HasPending(snap, t) /\ OlderThan(snap, t, t.limit)
      => plan.provision > 0

\* Work waits that a trigger other than a schedule answers: an unserved queue, or one over a
\* depth or latency limit.
Loaded(p, s) ==
  \E t \in p.up :
    \/ t.trigger = "no_workers" /\ HasPending(s, t)
    \/ t.trigger \in {"queue_depth", "latency"} /\ Fires(s, t)

\* While the load and the clock stand still, the polls settle: after a rental, whatever made
\* it, nothing more is rented, and a removal is not undone, unless a scale-down schedule
\* forced it or work waits.
Settles ==
  plan.provision > 0 /\ before # NoPlan =>
    before.destroy # {} /\ (Forced(asc, snap) \/ Loaded(asc, snap))
=============================================================================
