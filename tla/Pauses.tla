-------------------------------- MODULE Pauses -------------------------------
(***************************************************************************)
(* autoscale/state.go and the part of autoscaler.go that paces the renting *)
(* of machines: after a failure a queue rents nothing for a while, longer  *)
(* each time, until something works again.                                 *)
(*                                                                         *)
(* The leader counts in memory and copies each change to a Redis hash,     *)
(* from which the next leader goes on.  The lease is the one of LeaderLock *)
(* seen from the loop: held, taken, lost.  Times are ticks from now.       *)
(***************************************************************************)
EXTENDS Integers

CONSTANTS
  Server,
  Forever,      \* servers that never stop nor crash
  Machine,      \* room for machines of the queue
  Base, Longest,\* first and longest pause of each kind
  Retention,    \* backoffRetention
  MaxFailures,  \* bound: counts saturate here
  FaultSets,    \* the sets of faults that may occur together
  NoPause, None, Ghost

Kind == {"provision", "boot", "host"}
FaultKind == {"refusal", "failed", "hostfault", "save", "load", "redis", "stall"}

ASSUME PausesAssumption ==
  /\ Forever \subseteq Server /\ None \notin Server /\ Ghost \notin Server /\ None # Ghost
  /\ Longest \in [Kind -> Nat \ {0}] /\ Base \in [Kind -> Nat \ {0}]
  /\ Retention \in Nat /\ MaxFailures \in Nat \ {0}
  /\ FaultSets \subseteq SUBSET FaultKind
  /\ NoPause \notin [failures : Nat, until : Int]

VARIABLES
  holder,    \* of the leader lock; Ghost when its process is gone
  wasLeader, \* Autoscaler.wasLeader
  mem,       \* each server's three backoff maps, at the queue
  store,     \* the same in Redis
  owed,      \* what the leaders recorded, forgetting nothing
  mach,      \* the queue's machines
  want,      \* the load asks for more
  pc, todo,  \* each server's evaluation: its step, the instances to reconcile
  faults

pauses == <<mem, store, owed>>
lease == <<holder, wasLeader>>
world == <<mach, want, faults>>
vars == <<lease, pauses, world, pc, todo>>

\* provisionBackoff, until as seen from now.
Pause == [failures : 1..MaxFailures, until : Int]
Backoffs == [Kind -> Pause \cup {NoPause}]
NoPauses == [k \in Kind |-> NoPause]
Bounded(b) == \A k \in Kind : b[k] = NoPause \/ b[k].until \in (-Retention - 1)..Longest[k]

\* No pause is longer than the longest of its kind.
TypeOK ==
  /\ holder \in Server \cup {None, Ghost} /\ wasLeader \in [Server -> BOOLEAN]
  /\ mem \in [Server -> Backoffs] /\ \A s \in Server : Bounded(mem[s])
  /\ store \in Backoffs /\ Bounded(store)
  /\ owed \in Backoffs /\ Bounded(owed)
  /\ mach \in [Machine -> {"none", "booting", "ready", "failed", "hostfault"}]
  /\ want \in BOOLEAN /\ faults \subseteq FaultKind
  /\ pc \in [Server -> {"idle", "reconcile", "provision"}]
  /\ todo \in [Server -> SUBSET Machine]

Init ==
  /\ holder = None /\ wasLeader = [s \in Server |-> FALSE]
  /\ mem = [s \in Server |-> NoPauses] /\ store = NoPauses /\ owed = NoPauses
  /\ mach = [m \in Machine |-> "none"] /\ want = TRUE /\ faults \in FaultSets
  /\ pc = [s \in Server |-> "idle"] /\ todo = [s \in Server |-> {}]

-----------------------------------------------------------------------------
(* The lease and what a server knows *)

\* Lock.Acquire: the server still owns the key, or takes a free one.
Acquires(s) == holder = None \/ (wasLeader[s] /\ holder = s)

\* mutant: what a server remembers of an earlier term is kept
MutReloads(s) == ~wasLeader[s] /\ mem[s] = NoPauses
Reloads(s) == ~wasLeader[s]

\* loadBackoffs drops what ended too long ago.
Kept(p) == p # NoPause /\ p.until >= -Retention
Loaded == [k \in Kind |-> IF Kept(store[k]) THEN store[k] ELSE NoPause]

LoadBackoffs(s) ==
  /\ UNCHANGED owed
  /\ \/ mem' = [mem EXCEPT ![s] = Loaded] /\ store' = Loaded
     \/ "save" \in faults /\ mem' = [mem EXCEPT ![s] = Loaded] /\ UNCHANGED store
     \/ "load" \in faults /\ UNCHANGED <<mem, store>>

Lead(s) ==
  /\ pc[s] = "idle" /\ Acquires(s)
  /\ holder' = s /\ wasLeader' = [wasLeader EXCEPT ![s] = TRUE]
  /\ IF Reloads(s) THEN LoadBackoffs(s) ELSE UNCHANGED pauses
  /\ pc' = [pc EXCEPT ![s] = "reconcile"]
  /\ todo' = [todo EXCEPT ![s] = {m \in Machine : mach[m] # "none"}]
  /\ UNCHANGED world

\* The lock is another's, or Redis does not answer, whether the key was taken or not.
Follow(s) ==
  /\ pc[s] = "idle" /\ (~Acquires(s) \/ "redis" \in faults)
  /\ holder' \in {holder} \cup (IF holder = None /\ "redis" \in faults THEN {s} ELSE {})
  /\ wasLeader' = [wasLeader EXCEPT ![s] = FALSE]
  /\ UNCHANGED <<pauses, world, pc, todo>>

-----------------------------------------------------------------------------
(* The pauses *)

Lowest(a, b) == IF a < b THEN a ELSE b
Failures(s, k) == IF mem[s][k] = NoPause THEN 1 ELSE Lowest(mem[s][k].failures + 1, MaxFailures)

Delay(k, n) == LET delay == Base[k] * 2^Lowest(n - 1, 10)
               IN  IF delay \in 1..Longest[k] THEN delay ELSE Longest[k]

\* mutant: each failure starts the count again
MutNextPause(s, k) == [failures |-> 1, until |-> Delay(k, 1)]
NextPause(s, k) == [failures |-> Failures(s, k), until |-> Delay(k, Failures(s, k))]

\* recordFailure, recordBootFailure; what cannot be saved is only logged.
RecordFailure(s, k) ==
  /\ mem' = [mem EXCEPT ![s][k] = NextPause(s, k)]
  /\ owed' = [owed EXCEPT ![k] = NextPause(s, k)]
  /\ store' = [store EXCEPT ![k] = NextPause(s, k)] \/ ("save" \in faults /\ UNCHANGED store)

\* clearBackoff of each kind that is in memory.
ClearBackoffs(s, kinds) ==
  LET known == {k \in kinds : mem[s][k] # NoPause}
      Without(b, ks) == [k \in Kind |-> IF k \in ks THEN NoPause ELSE b[k]]
  IN  /\ mem' = [mem EXCEPT ![s] = Without(@, known)]
      /\ owed' = Without(owed, kinds)
      /\ \E deleted \in SUBSET known :
           /\ deleted = known \/ "save" \in faults
           /\ store' = Without(store, deleted)

InEffect(p) == p # NoPause /\ p.until > 0
\* mutant: a queue is paused as long as it has an entry
MutPaused(s) == mem[s] # NoPauses
Paused(s) == \E k \in Kind : InEffect(mem[s][k])

-----------------------------------------------------------------------------
(* An evaluation *)

\* One instance in reconcileInstances: one that failed is torn down, a ready one ends the pauses.
Reconcile(s, m) ==
  /\ pc[s] = "reconcile" /\ m \in todo[s]
  /\ todo' = [todo EXCEPT ![s] = @ \ {m}]
  /\ \/ mach[m] = "failed" /\ RecordFailure(s, "boot") /\ mach' = [mach EXCEPT ![m] = "none"]
     \/ mach[m] = "hostfault" /\ RecordFailure(s, "host") /\ mach' = [mach EXCEPT ![m] = "none"]
     \/ mach[m] = "ready" /\ ClearBackoffs(s, {"boot", "host"}) /\ UNCHANGED mach
     \/ mach[m] \in {"none", "booting"} /\ UNCHANGED <<pauses, mach>>
  /\ UNCHANGED <<lease, want, faults, pc>>

Free == {m \in Machine : mach[m] = "none"}

\* decide, then the pauses at the start of provisionN.
Plan(s) ==
  /\ pc[s] = "reconcile" /\ todo[s] = {}
  /\ pc' = [pc EXCEPT ![s] = IF want /\ Free # {} /\ ~Paused(s) THEN "provision" ELSE "idle"]
  /\ UNCHANGED <<lease, pauses, world, todo>>

Rented(s, m) ==
  /\ mach' = [mach EXCEPT ![m] = "booting"]
  /\ ClearBackoffs(s, {"provision"})
  /\ pc' = [pc EXCEPT ![s] = "idle"] \/ (Free # {m} /\ UNCHANGED pc)

Refused(s) ==
  /\ RecordFailure(s, "provision")
  /\ pc' = [pc EXCEPT ![s] = "idle"]
  /\ UNCHANGED mach

\* One instance of the plan.
Provision(s) ==
  /\ pc[s] = "provision"
  /\ ("refusal" \in faults /\ Refused(s)) \/ \E m \in Free : Rented(s, m)
  /\ UNCHANGED <<lease, want, faults, todo>>

-----------------------------------------------------------------------------
(* Time, processes and machines *)

Older(p) == IF p = NoPause \/ p.until < -Retention THEN p ELSE [p EXCEPT !.until = @ - 1]

\* An evaluation has one now; the one of a server held up past its lease is an old one.
Tick ==
  /\ \A s \in Server : holder = s => pc[s] = "idle"
  /\ mem' = [s \in Server |-> [k \in Kind |-> Older(mem[s][k])]]
  /\ store' = [k \in Kind |-> Older(store[k])]
  /\ owed' = [k \in Kind |-> Older(owed[k])]
  /\ UNCHANGED <<lease, world, pc, todo>>

\* A server stops or crashes, and starts again with nothing in memory and another id.
Restart(s) ==
  /\ s \notin Forever
  /\ holder' \in (IF holder = s THEN {Ghost, None} ELSE {holder})
  /\ wasLeader' = [wasLeader EXCEPT ![s] = FALSE]
  /\ mem' = [mem EXCEPT ![s] = NoPauses]
  /\ pc' = [pc EXCEPT ![s] = "idle"] /\ todo' = [todo EXCEPT ![s] = {}]
  /\ UNCHANGED <<store, owed, world>>

\* Nobody renews the key, or its owner was held up for longer than the lease.
Expire ==
  /\ holder # None
  /\ holder \in Server => ~wasLeader[holder] \/ "stall" \in faults
  /\ holder' = None
  /\ UNCHANGED <<wasLeader, pauses, world, pc, todo>>

\* A machine's worker gets ready or never does, starts again, or goes away; more often than
\* the provider reports a host fault, which the code counts on the first boot only.
MachineChange(m) ==
  /\ \/ mach[m] = "booting" /\ \E now \in {"ready"} \cup ({"failed", "hostfault"} \cap faults) :
                                  mach' = [mach EXCEPT ![m] = now]
     \/ mach[m] = "ready" /\ \E now \in {"booting", "none"} : mach' = [mach EXCEPT ![m] = now]
  /\ UNCHANGED <<lease, pauses, want, faults, pc, todo>>

LoadChange == want' = ~want /\ UNCHANGED <<lease, pauses, mach, faults, pc, todo>>

Evaluate(s) == Plan(s) \/ Provision(s) \/ \E m \in Machine : Reconcile(s, m)

Next ==
  \/ \E s \in Server : Lead(s) \/ Follow(s) \/ Evaluate(s) \/ Restart(s)
  \/ \E m \in Machine : MachineChange(m)
  \/ Tick \/ Expire \/ LoadChange

Spec == Init /\ [][Next]_vars

\* The loop ticks and evaluates, the key expires, time passes; no fault or restart has to happen.
Fairness ==
  /\ SF_vars(Tick) /\ SF_vars(Expire)
  /\ \A s \in Server : SF_vars(Lead(s)) /\ WF_vars(Evaluate(s))
FairSpec == Spec /\ Fairness

-----------------------------------------------------------------------------
(* Properties *)

\* Redis keeps what it is told, and a leader that lost its lease knows it.
Reliable == faults \cap {"save", "load", "stall"} = {}

\* "Provisioning pauses survive a server restart or a change of leader": no machine is rented
\* during a pause recorded by any leader and not ended since.
PauseHeld ==
  [][Reliable /\ (\E m \in Machine : mach[m] = "none" /\ mach'[m] = "booting")
       => \A k \in Kind : ~InEffect(owed[k])]_vars

\* Failures in a row pause longer and longer, whoever leads.
Escalates ==
  [][Reliable => \A k \in Kind :
       Kept(owed[k]) /\ owed'[k] # NoPause /\ owed'[k].until > owed[k].until
         => owed'[k].failures >= Lowest(owed[k].failures + 1, MaxFailures)]_vars

\* No pause is for ever: a queue that keeps wanting a machine keeps being tried.
PausesEnd ==
  <>[](want /\ Free # {}) => []<>(\E s \in Server : pc[s] = "provision")
=============================================================================
