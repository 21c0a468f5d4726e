----------------------------- MODULE LeaderLock -----------------------------
(***************************************************************************)
(* leader/leader.go: the Redis lease that elects the one server that runs  *)
(* a background loop (autoscaler, alert evaluator).                        *)
(*                                                                         *)
(* Every Redis command is three steps: it is sent, it executes, its reply  *)
(* arrives.  A command can fail before or after it executed, and one the   *)
(* caller gave up on can still execute later (late).  Time is counted in   *)
(* ticks; a tick cannot pass while a call or a unit of work is at the      *)
(* limit its context gives it.  Two history variables, leader and since,   *)
(* keep what SingleLeader promises; no guard reads them.                   *)
(***************************************************************************)
EXTENDS Integers, FiniteSets

CONSTANTS
  Server,
  Forever,    \* servers that never stop nor crash
  TTL,        \* lease duration
  CallMax,    \* timeout of one Acquire (both its commands share the context)
  WorkMax,    \* longest unit of work between two Acquires
  MaxFaults,  \* bound: failed calls and crashes in a behaviour
  None, Ghost \* no holder; the id of a process that is gone

ASSUME LockAssumption ==
  /\ Server # {} /\ IsFiniteSet(Server) /\ Forever \subseteq Server
  /\ TTL \in Nat \ {0} /\ CallMax \in Nat /\ WorkMax \in Nat /\ MaxFaults \in Nat
  /\ None \notin Server /\ Ghost \notin Server /\ None # Ghost

VARIABLES
  holder,  \* id stored at the key, None when it does not exist
  ttl,     \* ticks until the key expires
  owned,   \* Lock.owned
  pc,      \* what each server is doing
  res,     \* outcome of its command in Redis: "pending" until it executes
  age,     \* ticks since its call or its unit of work began
  late,    \* abandoned commands that may still execute
  faults,
  leader,  \* history: the server that last began work, while its lease must still hold
  since    \* history: ticks since it began

vars == <<holder, ttl, owned, pc, res, age, late, faults, leader, since>>
history == <<leader, since>>

\* Ticks the lease certainly lasts after its grant is known: it may be one call old by then.
Hold == TTL - CallMax

Phase == {"idle", "renew", "setnx", "working", "stopped", "crashed"}
Calling == {"renew", "setnx"}

\* The key's id and expiry, the servers' phases and the calls on their way are well formed.
TypeOK ==
  /\ holder \in Server \cup {None, Ghost}
  /\ ttl \in 0..TTL
  /\ owned \in [Server -> BOOLEAN]
  /\ pc \in [Server -> Phase]
  /\ res \in [Server -> {"pending", "yes", "no"}]
  /\ age \in [Server -> Nat]
  /\ late \subseteq (Server \cup {Ghost}) \X Calling
  /\ faults \in 0..MaxFaults
  /\ leader \in Server \cup {None, Ghost}
  /\ since \in Nat

Init ==
  /\ holder = None /\ ttl = 0
  /\ owned = [s \in Server |-> FALSE]
  /\ pc = [s \in Server |-> "idle"]
  /\ res = [s \in Server |-> "pending"]
  /\ age = [s \in Server |-> 0]
  /\ late = {}
  /\ faults = 0
  /\ leader = None /\ since = 0

-----------------------------------------------------------------------------
(* The two commands of Acquire, as they execute in Redis *)

\* GET == id then PEXPIRE
RenewScript(id) == IF holder = id THEN ttl' = TTL /\ holder' = holder ELSE UNCHANGED <<holder, ttl>>

\* mutant: SETNX, then PEXPIRE even when the key is another server's
MutSetNXExpire(id) == holder' = (IF holder = None THEN id ELSE holder) /\ ttl' = TTL
SetNX(id) == IF holder = None THEN holder' = id /\ ttl' = TTL ELSE UNCHANGED <<holder, ttl>>

RenewAnswer(id) == IF holder = id THEN "yes" ELSE "no"
\* mutant: SetNX's boolean result is ignored
MutSetNXAnswer(id) == "yes"
SetNXAnswer(id) == IF holder = None THEN "yes" ELSE "no"

\* Acquire: renew when we think we own the lock, else try to take it.
StartAcquire(s) ==
  /\ pc[s] = "idle"
  /\ pc' = [pc EXCEPT ![s] = IF owned[s] THEN "renew" ELSE "setnx"]
  /\ res' = [res EXCEPT ![s] = "pending"]
  /\ age' = [age EXCEPT ![s] = 0]
  /\ UNCHANGED <<holder, ttl, owned, late, faults, history>>

Execute(s) ==
  /\ res[s] = "pending"
  /\ \/ pc[s] = "renew" /\ RenewScript(s) /\ res' = [res EXCEPT ![s] = RenewAnswer(s)]
     \/ pc[s] = "setnx" /\ SetNX(s) /\ res' = [res EXCEPT ![s] = SetNXAnswer(s)]
  /\ UNCHANGED <<owned, pc, age, late, faults, history>>

\* The reply arrives.
RenewReply(s) ==
  /\ pc[s] = "renew" /\ res[s] # "pending"
  /\ IF res[s] = "yes"
       THEN /\ pc' = [pc EXCEPT ![s] = "working"]
            /\ age' = [age EXCEPT ![s] = 0]
            /\ leader' = s /\ since' = 0
            /\ UNCHANGED owned
       ELSE /\ pc' = [pc EXCEPT ![s] = "setnx"]
            /\ owned' = [owned EXCEPT ![s] = FALSE]
            /\ UNCHANGED <<age, history>>
  /\ res' = [res EXCEPT ![s] = "pending"]
  /\ UNCHANGED <<holder, ttl, late, faults>>

SetNXReply(s) ==
  /\ pc[s] = "setnx" /\ res[s] # "pending"
  /\ IF res[s] = "yes" THEN leader' = s /\ since' = 0 ELSE UNCHANGED history
  /\ owned' = [owned EXCEPT ![s] = res[s] = "yes"]
  /\ pc' = [pc EXCEPT ![s] = IF res[s] = "yes" THEN "working" ELSE "idle"]
  /\ res' = [res EXCEPT ![s] = "pending"]
  /\ age' = [age EXCEPT ![s] = 0]
  /\ UNCHANGED <<holder, ttl, late, faults>>

\* A command still on its way may be lost or execute later.
Abandon(s) ==
  IF res[s] = "pending" /\ pc[s] \in Calling
    THEN late' \in {late, late \cup {<<s, pc[s]>>}}
    ELSE late' = late

\* The command fails for the caller (error or timeout), executed or not.
CallFails(s) ==
  /\ faults < MaxFaults
  /\ pc[s] \in Calling
  /\ Abandon(s)
  /\ owned' = [owned EXCEPT ![s] = FALSE]
  /\ pc' = [pc EXCEPT ![s] = IF pc[s] = "renew" THEN "setnx" ELSE "idle"]
  /\ res' = [res EXCEPT ![s] = "pending"]
  /\ faults' = faults + 1
  /\ UNCHANGED <<holder, ttl, age, history>>

LateExecute(id, op) ==
  /\ <<id, op>> \in late
  /\ IF op = "renew" THEN RenewScript(id) ELSE SetNX(id)
  /\ late' = late \ {<<id, op>>}
  /\ UNCHANGED <<owned, pc, res, age, faults, history>>

\* One queue evaluated, or one alert evaluation done.
FinishWork(s) ==
  /\ pc[s] = "working"
  /\ pc' = [pc EXCEPT ![s] = "idle"]
  /\ age' = [age EXCEPT ![s] = 0]
  /\ UNCHANGED <<holder, ttl, owned, res, late, faults, history>>

\* mutant: DEL without comparing the id
MutDeleteIfOwn(s) == holder' = None /\ ttl' = 0
\* GET == id then DEL
DeleteIfOwn(s) == IF holder = s THEN holder' = None /\ ttl' = 0 ELSE UNCHANGED <<holder, ttl>>

\* Release on the way out of run(); its command may get lost.
Release(s) ==
  /\ pc[s] = "idle" /\ s \notin Forever
  /\ \/ /\ owned[s] /\ DeleteIfOwn(s)
        /\ IF leader = s THEN leader' = None /\ since' = 0 ELSE UNCHANGED history
     \/ UNCHANGED <<holder, ttl, history>>
  /\ owned' = [owned EXCEPT ![s] = FALSE]
  /\ pc' = [pc EXCEPT ![s] = "stopped"]
  /\ UNCHANGED <<res, age, late, faults>>

Crash(s) ==
  /\ faults < MaxFaults
  /\ pc[s] \notin {"stopped", "crashed"} /\ s \notin Forever
  /\ Abandon(s)
  /\ pc' = [pc EXCEPT ![s] = "crashed"]
  /\ res' = [res EXCEPT ![s] = "pending"]
  /\ faults' = faults + 1
  /\ UNCHANGED <<holder, ttl, owned, age, history>>

\* A new process is a new Lock: New draws another id.
Restart(s) ==
  /\ pc[s] \in {"stopped", "crashed"}
  /\ holder' = IF holder = s THEN Ghost ELSE holder
  /\ leader' = IF leader = s THEN Ghost ELSE leader
  /\ late' = {<<IF m[1] = s THEN Ghost ELSE m[1], m[2]>> : m \in late}
  /\ owned' = [owned EXCEPT ![s] = FALSE]
  /\ pc' = [pc EXCEPT ![s] = "idle"]
  /\ age' = [age EXCEPT ![s] = 0]
  /\ UNCHANGED <<ttl, res, faults, since>>

Expire == IF ttl <= 1 THEN holder' = None /\ ttl' = 0 ELSE holder' = holder /\ ttl' = ttl - 1

\* After Hold ticks nobody has to be waited for.
Wait == IF leader = None \/ since + 1 >= Hold
          THEN leader' = None /\ since' = 0
          ELSE leader' = leader /\ since' = since + 1

Busy(s) == pc[s] \in Calling \cup {"working"}

Tick ==
  /\ \A s \in Server : /\ pc[s] \in Calling => age[s] < CallMax
                       /\ pc[s] = "working" => age[s] < WorkMax
  /\ Expire
  /\ Wait
  /\ age' = [s \in Server |-> IF Busy(s) THEN age[s] + 1 ELSE age[s]]
  /\ UNCHANGED <<owned, pc, res, late, faults>>

Acquire(s) == StartAcquire(s) \/ Execute(s) \/ RenewReply(s) \/ SetNXReply(s) \/ FinishWork(s)

Next ==
  \/ \E s \in Server : Acquire(s) \/ CallFails(s) \/ Release(s) \/ Crash(s) \/ Restart(s)
  \/ \E id \in Server \cup {Ghost}, op \in Calling : LateExecute(id, op)
  \/ Tick

Spec == Init /\ [][Next]_vars

\* The clock advances, replies arrive once calls stop failing, and evaluations end
\* (their contexts have deadlines); nothing makes a server stop, crash or restart.
Fairness ==
  /\ \A s \in Server : /\ WF_vars(StartAcquire(s)) /\ WF_vars(Execute(s))
                       /\ WF_vars(RenewReply(s)) /\ WF_vars(SetNXReply(s)) /\ WF_vars(FinishWork(s))
  /\ SF_vars(Tick)
FairSpec == Spec /\ Fairness

-----------------------------------------------------------------------------
(* Properties *)

\* A server at work still holds the key in Redis: nobody else's release or expiry took it.
WorkerHoldsKey == \A s \in Server : pc[s] = "working" => holder = s /\ ttl > 0

\* "Only the server holding the leader lock acts" (autoscaler.tick).
MutualExclusion ==
  \A s, t \in Server : pc[s] = "working" /\ pc[t] = "working" => s = t

\* The lease implements a single leader that leads on between its units of work: nobody
\* else begins until it has been quiet for Hold ticks or has given the lock up, whatever
\* late commands, lost answers, crashes and other servers' releases do to the key meanwhile.
SL == INSTANCE SingleLeader WITH acting <- {s \in Server : pc[s] = "working"}
ImplementsSingleLeader == SL!Spec

\* A crashed, stopped or cut-off leader, or a key left behind by a lost reply, delays the
\* loop by at most a lease: some server works again and again.
AlwaysReplaced == []<>(\E s \in Server : pc[s] = "working")
=============================================================================
