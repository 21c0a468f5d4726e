------------------------------ MODULE ScaleDown -----------------------------
(***************************************************************************)
(* autoscale/autoscaler.go scaleDown and control/control.go: an instance   *)
(* the plan removes is drained first, destroyed once its worker's          *)
(* heartbeat says drained, and resumed when the plan keeps it after all.   *)
(*                                                                         *)
(* The leader sees a worker only through its heartbeat, a copy written     *)
(* now and then, and reaches it only through a Pub/Sub channel that loses  *)
(* what nobody listens to.  A worker that restarts has a new id.           *)
(***************************************************************************)
EXTENDS Integers, Sequences, FiniteSets

CONSTANTS
  Inst,       \* the queue's instances
  Drainable,  \* those whose worker understands drain
  Scenarios,  \* fleets, each with the faults it meets
  MaxQueue,   \* bound: commands on their way to a worker
  MaxLeaders, \* bound: changes of leader
  MaxRestarts,\* bound: restarts of a worker
  None

FaultKind == {"loss", "senderr", "leader", "grow", "lag", "silent", "restart"}

ASSUME ScaleDownAssumption ==
  /\ Drainable \subseteq Inst /\ MaxQueue \in Nat \ {0}
  /\ MaxLeaders \in Nat /\ MaxRestarts \in Nat /\ None \notin Nat
  /\ \A sc \in Scenarios : sc.fleet \subseteq Inst /\ sc.faults \subseteq FaultKind

VARIABLES
  want,      \* instances the policy removes if idle
  grow,      \* the policy wants more instances than there are
  up,        \* instances not torn down
  id,        \* the id of the worker on an instance
  held,      \* the worker takes no task
  busy,      \* a task is in flight
  beat,      \* the worker's heartbeat
  chan,      \* control commands on their way to the worker
  drainSent, \* the worker id asked to drain
  leaders,   \* changes of leader so far
  faults,    \* the faults of this behaviour
  pc, snap, removing, todo  \* an evaluation: the heartbeats it read, what it removes

world == <<want, grow, faults>>
worker == <<id, held, busy, chan>>
local == <<pc, snap, removing, todo, leaders>>
vars == <<world, up, worker, beat, drainSent, local>>

WorkerId == 0..MaxRestarts
Beat == [id : WorkerId \cup {None}, status : {"none", "running", "draining", "drained"},
         busy : BOOLEAN]
NoBeat == [id |-> None, status |-> "none", busy |-> FALSE]
FirstBeat == [id |-> 0, status |-> "running", busy |-> FALSE]

TypeOK ==
  /\ faults \subseteq FaultKind /\ want \subseteq Inst /\ grow \in BOOLEAN /\ up \subseteq Inst
  /\ id \in [Inst -> WorkerId]
  /\ held \in [Inst -> BOOLEAN] /\ busy \in [Inst -> BOOLEAN]
  /\ beat \in [Inst -> Beat] /\ snap \in [Inst -> Beat]
  /\ chan \in [Inst -> Seq({"drain", "resume"})] /\ \A i \in Inst : Len(chan[i]) <= MaxQueue
  /\ drainSent \in [Inst -> WorkerId \cup {None}]
  /\ pc \in {"idle", "removing", "resuming"}
  /\ removing \subseteq Inst /\ todo \subseteq Inst
  /\ leaders \in 0..MaxLeaders

Init ==
  /\ \E sc \in Scenarios : up = sc.fleet /\ faults = sc.faults
  /\ want = {} /\ grow = FALSE
  /\ id = [i \in Inst |-> 0]
  /\ held = [i \in Inst |-> FALSE] /\ busy = [i \in Inst |-> FALSE]
  /\ beat = [i \in Inst |-> FirstBeat] /\ snap = beat
  /\ chan = [i \in Inst |-> <<>>]
  /\ drainSent = [i \in Inst |-> None]
  /\ pc = "idle" /\ removing = {} /\ todo = {} /\ leaders = 0

-----------------------------------------------------------------------------
(* The evaluation *)

\* Without "lag", a worker has obeyed its last command and said so by the next poll.
UpToDate(i) ==
  /\ chan[i] = <<>>
  /\ beat[i] # NoBeat => beat[i].id = id[i] /\ ((beat[i].status = "running") <=> ~held[i])

\* viewInstance: a worker that reports a task is busy, one that reports nothing is not.
LooksIdle(i) == ~beat[i].busy

\* evaluateQueue up to scaleDown: a plan that provisions returns before it.
Evaluate ==
  /\ pc = "idle" /\ ~grow
  /\ \A i \in up : Len(chan[i]) < MaxQueue /\ ("lag" \in faults \/ UpToDate(i))
  /\ snap' = beat
  /\ removing' = {i \in up \cap want : LooksIdle(i)} /\ todo' = removing'
  /\ pc' = "removing"
  /\ UNCHANGED <<world, up, worker, beat, drainSent, leaders>>

Teardown(i) == up' = up \ {i} /\ UNCHANGED chan

\* control.Publish to worker w: only the worker that now has that id may receive it.
Publish(i, w, command) ==
  \/ w = id[i] /\ chan' = [chan EXCEPT ![i] = Append(@, command)]
  \/ (w # id[i] \/ "loss" \in faults) /\ UNCHANGED chan

\* mutant: a worker that looks idle is destroyed without being drained
MutDestroyNow(i) == i \notin Drainable \/ snap[i].status # "draining"
DestroyNow(i) == i \notin Drainable \/ snap[i].status \in {"none", "drained"}

\* mutant: a drain once sent is never sent again
MutWaiting(i) == drainSent[i] = snap[i].id
Waiting(i) == snap[i].status = "draining" /\ drainSent[i] = snap[i].id

Asked(i) == snap[i].id

\* One instance the plan removes.
Remove(i) ==
  /\ pc = "removing" /\ i \in todo
  /\ todo' = todo \ {i}
  /\ \/ /\ DestroyNow(i)
        /\ drainSent' = [drainSent EXCEPT ![i] = None]
        /\ Teardown(i)
     \/ /\ ~DestroyNow(i) /\ Waiting(i)
        /\ UNCHANGED <<up, chan, drainSent>>
     \/ /\ ~DestroyNow(i) /\ ~Waiting(i)
        /\ \/ /\ Publish(i, snap[i].id, "drain")
              /\ drainSent' = [drainSent EXCEPT ![i] = Asked(i)]
              /\ UNCHANGED up
           \/ /\ "senderr" \in faults
              /\ Teardown(i) /\ UNCHANGED drainSent
  /\ UNCHANGED <<world, id, held, busy, beat, pc, snap, removing, leaders>>

ToResume == {i \in up \ removing : drainSent[i] # None}

StartResuming ==
  /\ pc = "removing" /\ todo = {}
  /\ pc' = "resuming" /\ todo' = ToResume
  /\ UNCHANGED <<world, up, worker, beat, drainSent, snap, removing, leaders>>

\* One instance asked to drain that the plan keeps: forgotten whatever becomes of the command.
Resume(i) ==
  /\ pc = "resuming" /\ i \in todo
  /\ todo' = todo \ {i}
  /\ drainSent' = [drainSent EXCEPT ![i] = None]
  /\ \/ Publish(i, drainSent[i], "resume")
     \/ "senderr" \in faults /\ UNCHANGED chan
  /\ UNCHANGED <<world, up, id, held, busy, beat, pc, snap, removing, leaders>>

EndEvaluation ==
  /\ pc = "resuming" /\ todo = {}
  /\ pc' = "idle"
  /\ UNCHANGED <<world, up, worker, beat, drainSent, snap, removing, todo, leaders>>

\* Another server leads, or this one after another: it discards what it had sent.
LeaderChange ==
  /\ "leader" \in faults /\ leaders < MaxLeaders /\ leaders' = leaders + 1
  /\ pc' = "idle" /\ todo' = {}
  /\ drainSent' = [i \in Inst |-> None]
  /\ UNCHANGED <<world, up, worker, beat, snap, removing>>

-----------------------------------------------------------------------------
(* Workers and load *)

Obey(i) ==
  /\ i \in up /\ chan[i] # <<>>
  /\ held' = [held EXCEPT ![i] = Head(chan[i]) = "drain"]
  /\ chan' = [chan EXCEPT ![i] = Tail(@)]
  /\ UNCHANGED <<world, up, id, busy, beat, drainSent, local>>

TakeTask(i) ==
  /\ i \in up /\ ~held[i] /\ ~busy[i]
  /\ busy' = [busy EXCEPT ![i] = TRUE]
  /\ UNCHANGED <<world, up, id, held, chan, beat, drainSent, local>>

FinishTask(i) ==
  /\ i \in up /\ busy[i]
  /\ busy' = [busy EXCEPT ![i] = FALSE]
  /\ UNCHANGED <<world, up, id, held, chan, beat, drainSent, local>>

Report(i) ==
  [id |-> id[i], busy |-> busy[i],
   status |-> IF ~held[i] THEN "running" ELSE IF busy[i] THEN "draining" ELSE "drained"]

Heartbeat(i) ==
  /\ i \in up /\ beat[i] # Report(i)
  /\ beat' = [beat EXCEPT ![i] = Report(i)]
  /\ UNCHANGED <<world, up, worker, drainSent, local>>

\* The heartbeat of a worker cut off from Redis expires.
FallSilent(i) ==
  /\ "silent" \in faults /\ i \in up /\ beat[i] # NoBeat
  /\ beat' = [beat EXCEPT ![i] = NoBeat]
  /\ UNCHANGED <<world, up, worker, drainSent, local>>

\* The worker process restarts: a new id, no task, no command on its way.
Restart(i) ==
  /\ "restart" \in faults /\ i \in up /\ id[i] < MaxRestarts
  /\ id' = [id EXCEPT ![i] = @ + 1]
  /\ held' = [held EXCEPT ![i] = FALSE] /\ busy' = [busy EXCEPT ![i] = FALSE]
  /\ chan' = [chan EXCEPT ![i] = <<>>]
  /\ UNCHANGED <<world, up, beat, drainSent, local>>

LoadChange ==
  /\ want' \in SUBSET Inst
  /\ grow' \in (IF "grow" \in faults /\ want' = {} THEN BOOLEAN ELSE {FALSE})
  /\ UNCHANGED <<faults, up, worker, beat, drainSent, local>>

Leader == Evaluate \/ StartResuming \/ EndEvaluation \/ \E i \in Inst : Remove(i) \/ Resume(i)

Next ==
  \/ Leader \/ LeaderChange \/ LoadChange
  \/ \E i \in Inst : \/ Obey(i) \/ TakeTask(i) \/ FinishTask(i) \/ Heartbeat(i)
                     \/ FallSilent(i) \/ Restart(i)

Spec == Init /\ [][Next]_vars

\* The loop polls (a load that comes and goes does not dodge every poll), a worker obeys what
\* reaches it, ends its tasks and reports; a command sent again and again reaches it.
Fairness ==
  /\ WF_vars(Leader) /\ SF_vars(Evaluate)
  /\ \A i \in Inst : /\ WF_vars(Obey(i)) /\ WF_vars(FinishTask(i)) /\ WF_vars(Heartbeat(i))
                     /\ SF_vars(Remove(i) /\ (chan' # chan \/ up' # up))
FairSpec == Spec /\ Fairness

-----------------------------------------------------------------------------
(* Properties *)

\* No machine goes away under a task: a drainable worker is destroyed only once it is idle
\* and holds, "so no task is picked up just before the machine goes away".  This needs
\* workers that answer by the next poll: the code acts on the last heartbeat, however old.
Prompt == faults \subseteq {"loss", "leader", "grow"}
NoTaskKilled == [][Prompt => \A i \in Drainable \cap (up \ up') : ~busy[i] /\ held[i]]_vars

\* An idle instance the policy removes for good is torn down in the end.
DrainCompletes ==
  \A i \in Inst : <>[](i \in want /\ ~busy[i]) => <>(i \notin up)

\* "Instances the plan no longer removes (load came back) are resumed", under one leader,
\* while no command is lost and the policy asks for no instance it cannot have.
Kept == \A i \in Inst : <>[](want = {}) => <>[](i \in up => ~held[i])
OneLeaderHeard == faults \subseteq {"restart", "lag", "silent"}
=============================================================================
