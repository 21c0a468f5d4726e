----------------------------- MODULE Instances ------------------------------
(***************************************************************************)
(* autoscale/autoscaler.go and store.go: the life of the rented machines   *)
(* of one queue, from provision to teardown, as one leader evaluates the   *)
(* queue again and again.                                                  *)
(*                                                                         *)
(* The rows of autoscale_instances and the machines at the providers are   *)
(* two stores written one after the other, so between any two calls the    *)
(* leader may crash, a call may fail (having been executed or not) or the  *)
(* evaluation's context may expire.  Which of these faults can occur in a  *)
(* behaviour is chosen at its start.  An id is both the correlation id of  *)
(* a row and the machine rented for it; a row names its machine when       *)
(* placed is TRUE (provider_instance_id in its metadata).                  *)
(***************************************************************************)
EXTENDS Integers, FiniteSets

CONSTANTS
  Id,          \* correlation ids, each drawn at most once
  Provider,    \* configured providers
  MaxWorkers,  \* max_workers
  FaultSets,   \* the sets of fault kinds that may occur together
  NoId

FaultKind == {"db", "provider", "reply", "crash", "deadline", "switch", "protect"}

ASSUME InstancesAssumption ==
  /\ MaxWorkers \in Nat /\ FaultSets \subseteq SUBSET FaultKind
  /\ IsFiniteSet(Id) /\ NoId \notin Id /\ Provider # {}

VARIABLES
  row,      \* the table
  machine,  \* the machines at the providers
  home,     \* the provider a machine was rented from
  conf,     \* the provider the queue's policy names
  faults,   \* the fault kinds of this behaviour
  pc,       \* where the evaluation is
  prov,     \* the provider it resolved
  todo,     \* listed rows it has not reconciled yet
  seen,     \* ids whose listed copy says protected
  live,     \* ids found live
  plan,     \* instances left to provision, ids left to scale down
  cur,      \* the instance being provisioned or torn down
  back,     \* where to go on after a teardown
  expired   \* queueEvalTimeout has passed

store == <<row, machine, home, conf, faults>>
local == <<pc, prov, todo, seen, live, plan, cur, back, expired>>
vars == <<store, local>>

LiveStatus  == {"provisioning", "running"}       \* Instance.IsLive
FinalStatus == {"terminated", "failed"}
Status == {"absent"} \cup LiveStatus \cup {"draining"} \cup FinalStatus

Row == [status : Status, final : {"none"} \cup FinalStatus, placed : BOOLEAN,
        worker : BOOLEAN, protected : BOOLEAN]
NoRow == [status |-> "absent", final |-> "none", placed |-> FALSE,
          worker |-> FALSE, protected |-> FALSE]

\* A dead machine (exited, offline) is still rented until it is destroyed.
Machine == {"none", "booting", "running", "dead", "gone"}
Rented(i) == machine[i] \in {"booting", "running", "dead"}

Phase == {"idle", "reconcile", "provision", "rented", "cleanup",
          "scaledown", "destroying", "finalize"}
OnOne == {"rented", "cleanup", "destroying", "finalize"}   \* busy with the instance cur

\* The stores hold well-formed rows and machines, and the evaluation's locals are in range.
TypeOK ==
  /\ row \in [Id -> Row]
  /\ machine \in [Id -> Machine]
  /\ home \in [Id -> Provider]
  /\ conf \in Provider /\ prov \in Provider /\ faults \subseteq FaultKind
  /\ pc \in Phase /\ back \in {"idle", "reconcile", "scaledown"}
  /\ todo \subseteq Id /\ seen \subseteq Id /\ live \subseteq Id
  /\ plan \in [left : 0..MaxWorkers, destroy : SUBSET Id]
  /\ cur \in IF pc \in OnOne THEN Id ELSE Id \cup {NoId}
  /\ expired \in BOOLEAN

NoPlan == [left |-> 0, destroy |-> {}]

Init ==
  /\ row = [i \in Id |-> NoRow]
  /\ machine = [i \in Id |-> "none"]
  /\ faults \in FaultSets
  /\ conf \in Provider /\ prov = conf /\ home = [i \in Id |-> conf]
  /\ pc = "idle" /\ back = "idle" /\ cur = NoId
  /\ todo = {} /\ seen = {} /\ live = {} /\ plan = NoPlan /\ expired = FALSE

HasStatus(S) == {i \in Id : row[i].status \in S}
LiveRows == HasStatus(LiveStatus)

SetStatus(i, s) == [row EXCEPT ![i].status = s]   \* UpdateStatus

\* A call on the evaluation's context fails once it expired; else it may fail.
MayFail(kind) == expired \/ kind \in faults
MaySucceed == ~expired

-----------------------------------------------------------------------------
(* The start of an evaluation: correlate workers, list the rows *)

\* mutant: a row that started draining is no longer listed
MutListed == LiveRows
\* ListByQueue returns every row that is not final.
Listed == HasStatus(LiveStatus \cup {"draining"})

\* reconcileWorkers stores the worker ids of some machines (its errors are ignored), then
\* the rows are listed.
StartEvaluation ==
  /\ pc = "idle"
  /\ \E W \in SUBSET {i \in Id : machine[i] = "running" /\ row[i].status # "absent"} :
       row' = [i \in Id |-> IF i \in W THEN [row[i] EXCEPT !.worker = TRUE] ELSE row[i]]
  /\ prov' = conf
  /\ todo' = Listed
  /\ seen' = {i \in Id : row[i].protected}
  /\ live' = {} /\ plan' = NoPlan /\ cur' = NoId /\ back' = "idle" /\ expired' = FALSE
  /\ pc' = "reconcile"
  /\ UNCHANGED <<machine, home, conf, faults>>

-----------------------------------------------------------------------------
(* Teardown: the intent first, then the machine, then the final status *)

Mark(r, i, final) == [r EXCEPT ![i].status = "draining", ![i].final = final]

\* mutant: a failed write of the intent is only logged
MutTeardown(r, i, final, ret) ==
  /\ row' = Mark(r, i, final) \/ ("db" \in faults /\ row' \in {r, Mark(r, i, final)})
  /\ pc' = "destroying" /\ cur' = i /\ back' = ret
\* teardown, the table being r: UpdateStatusWithMeta has a context of its own.  On an error
\* nothing is destroyed yet, whether or not the write went through.
Teardown(r, i, final, ret) ==
  \/ /\ row' = Mark(r, i, final)
     /\ pc' = "destroying" /\ cur' = i /\ back' = ret
  \/ /\ "db" \in faults
     /\ row' \in {r, Mark(r, i, final)}
     /\ pc' = ret
     /\ UNCHANGED <<cur, back>>

Unreachable(i) == home[i] # prov

\* mutant: a failed Destroy is only logged
MutDestroy ==
  /\ pc = "destroying"
  /\ \/ machine' = [machine EXCEPT ![cur] = "gone"] /\ MaySucceed
     \/ UNCHANGED machine /\ MayFail("provider")
  /\ pc' = "finalize"
  /\ UNCHANGED <<row, home, conf, faults, prov, todo, seen, live, plan, cur, back, expired>>
\* finishTeardown, first half: prov.Destroy.  A provider does not know the ids of another
\* one: gone is success.
Destroy ==
  /\ pc = "destroying"
  /\ \/ /\ MaySucceed
        /\ machine' = IF Unreachable(cur) THEN machine ELSE [machine EXCEPT ![cur] = "gone"]
        /\ pc' = "finalize"
     \/ /\ MayFail("provider")
        /\ machine' \in {machine} \cup
             (IF expired \/ Unreachable(cur) THEN {} ELSE {[machine EXCEPT ![cur] = "gone"]})
        /\ pc' = back
  /\ UNCHANGED <<row, home, conf, faults, prov, todo, seen, live, plan, cur, back, expired>>

\* mutant: the status written is the one before the teardown
MutFinalOf(r) == IF r.worker THEN "running" ELSE "terminated"
FinalOf(r) == IF r.final = "none" THEN "terminated" ELSE r.final

\* Second half: UpdateStatus to the recorded final status, its error ignored.
Finalize ==
  /\ pc = "finalize"
  /\ \/ row' = SetStatus(cur, FinalOf(row[cur]))
     \/ row' = row /\ "db" \in faults
  /\ pc' = back
  /\ UNCHANGED <<machine, home, conf, faults, prov, todo, seen, live, plan, cur, back, expired>>

-----------------------------------------------------------------------------
(* reconcileInstances *)

ResumeTeardown(i) ==
  /\ pc = "reconcile" /\ i \in todo /\ row[i].status = "draining"
  /\ todo' = todo \ {i} /\ cur' = i /\ back' = "reconcile" /\ pc' = "destroying"
  /\ UNCHANGED <<store, prov, seen, live, plan, expired>>

Answer == [booting |-> "provisioning", running |-> "running", dead |-> "ended",
           gone |-> "ended", none |-> "ended"]

\* prov.Status: what the provider says of an instance ("ended": failed or terminated).
StatusOf(i) ==
  (IF MaySucceed THEN {IF Unreachable(i) THEN "ended" ELSE Answer[machine[i]]} ELSE {})
    \cup (IF MayFail("provider") THEN {"error"} ELSE {})

Heartbeat == {"none", "bootstrapping", "ready", "silent"}
StillBooting(i, hb) == ~row[i].worker \/ hb = "bootstrapping"
WorkerLost(i, hb) == row[i].worker /\ hb \in {"none", "silent"}

\* The provider reports the instance failed or terminated.
ReconcileEnded(i) ==
  /\ pc = "reconcile" /\ i \in todo /\ row[i].status \in LiveStatus
  /\ "ended" \in StatusOf(i)
  /\ todo' = todo \ {i}
  /\ Teardown(row, i, IF row[i].status = "provisioning" THEN "failed" ELSE "terminated", "reconcile")
  /\ UNCHANGED <<machine, home, conf, faults, prov, seen, live, plan, expired>>

\* The row after the provider said "running" (the write may fail).
Promoted(i, answer) ==
  IF answer = "running" /\ row[i].status = "provisioning"
    THEN {SetStatus(i, "running")} \cup (IF "db" \in faults THEN {row} ELSE {})
    ELSE {row}

\* No ready worker within boot_timeout, or a worker silent for workerLostTimeout on an
\* instance that is not protected.
ReconcileDead(i) ==
  /\ pc = "reconcile" /\ i \in todo /\ row[i].status \in LiveStatus
  /\ \E hb \in Heartbeat : StillBooting(i, hb) \/ (WorkerLost(i, hb) /\ i \notin seen)
  /\ todo' = todo \ {i}
  /\ \E answer \in StatusOf(i) \ {"ended"} : \E r \in Promoted(i, answer) :
       Teardown(r, i, "failed", "reconcile")
  /\ UNCHANGED <<machine, home, conf, faults, prov, seen, live, plan, expired>>

\* mutant: an instance still provisioning is not counted as live
MutReconcileLive(i) ==
  /\ pc = "reconcile" /\ i \in todo /\ row[i].status \in LiveStatus
  /\ \E answer \in StatusOf(i) \ {"ended"} : row' \in Promoted(i, answer)
  /\ todo' = todo \ {i}
  /\ live' = IF row'[i].status = "running" THEN live \cup {i} ELSE live
  /\ UNCHANGED <<machine, home, conf, faults, pc, prov, seen, plan, cur, back, expired>>
ReconcileLive(i) ==
  /\ pc = "reconcile" /\ i \in todo /\ row[i].status \in LiveStatus
  /\ \E answer \in StatusOf(i) \ {"ended"} : row' \in Promoted(i, answer)
  /\ todo' = todo \ {i}
  /\ live' = live \cup {i}
  /\ UNCHANGED <<machine, home, conf, faults, pc, prov, seen, plan, cur, back, expired>>

-----------------------------------------------------------------------------
(* Acting on the decision (see Decide for the decision itself) *)

Room == MaxWorkers - Cardinality(live)

\* A plan within the bounds of decide: provision up to max_workers, or scale down
\* instances whose listed copy is not protected.
DecidePlan ==
  /\ pc = "reconcile" /\ todo = {}
  /\ \/ \E n \in 1..Room :
          plan' = [left |-> n, destroy |-> {}] /\ pc' = "provision"
     \/ \E D \in SUBSET (live \ seen) :
          plan' = [left |-> 0, destroy |-> D] /\ pc' = "scaledown"
  /\ UNCHANGED <<store, prov, todo, seen, live, cur, back, expired>>

Fresh == {i \in Id : row[i].status = "absent" /\ machine[i] = "none"}

Rent(i) == /\ machine' = [machine EXCEPT ![i] = "booting"]
           /\ home' = [home EXCEPT ![i] = prov]

\* provision, first half: prov.Provision rents a machine, or fails and leaves a failed row.
\* With "reply", the machine was rented although the call failed.
Provision(i) ==
  /\ pc = "provision" /\ plan.left > 0 /\ i \in Fresh
  /\ \/ /\ MaySucceed /\ Rent(i)
        /\ pc' = "rented" /\ cur' = i /\ UNCHANGED <<row, plan>>
     \/ /\ MayFail("provider")
        /\ \/ UNCHANGED <<machine, home>>
           \/ "reply" \in faults /\ ~expired /\ Rent(i)
        /\ row' \in (IF MaySucceed THEN {SetStatus(i, "failed")} ELSE {})
                    \cup (IF MayFail("db") THEN {row} ELSE {})
        /\ pc' = "idle" /\ plan' = NoPlan /\ UNCHANGED cur
  /\ UNCHANGED <<conf, faults, prov, todo, seen, live, back, expired>>

\* mutant: the machine of a row that could not be recorded is forgotten
MutAfterCreateError == "idle"
AfterCreateError == "cleanup"

Recorded(i) == [row EXCEPT ![i].status = "provisioning", ![i].placed = TRUE]

\* Second half: record the row of the rented machine.  A failed write may have gone through.
Create ==
  /\ pc = "rented"
  /\ \/ /\ MaySucceed
        /\ row' = Recorded(cur)
        /\ plan' = [plan EXCEPT !.left = @ - 1]
        /\ pc' = IF plan.left > 1 THEN "provision" ELSE "idle"
     \/ /\ MayFail("db")
        /\ pc' = AfterCreateError
        /\ row' \in {row, Recorded(cur)}
        /\ UNCHANGED plan
  /\ UNCHANGED <<machine, home, conf, faults, prov, todo, seen, live, cur, back, expired>>

\* Create failed: destroy the untracked machine, on the same context.
DestroyUntracked ==
  /\ pc = "cleanup"
  /\ \/ MaySucceed /\ machine' = [machine EXCEPT ![cur] = "gone"]
     \/ MayFail("provider") /\ UNCHANGED machine
  /\ pc' = "idle" /\ plan' = NoPlan
  /\ UNCHANGED <<row, home, conf, faults, prov, todo, seen, live, cur, back, expired>>

\* scaleDown (its drain protocol is the subject of ScaleDown): tear the instance down, or
\* leave it draining its worker.
ScaleDown(i) ==
  /\ pc = "scaledown" /\ i \in plan.destroy
  /\ plan' = [plan EXCEPT !.destroy = @ \ {i}]
  /\ \/ Teardown(row, i, "terminated", "scaledown")
     \/ UNCHANGED <<row, pc, cur, back>>
  /\ UNCHANGED <<machine, home, conf, faults, prov, todo, seen, live, expired>>

EndEvaluation ==
  /\ pc = "scaledown" /\ plan.destroy = {}
  /\ pc' = "idle"
  /\ UNCHANGED <<store, prov, todo, seen, live, plan, cur, back, expired>>

-----------------------------------------------------------------------------
(* Faults and the world around *)

\* The leader dies; the next one starts over from the stores.
Crash ==
  /\ "crash" \in faults /\ pc # "idle"
  /\ pc' = "idle" /\ plan' = NoPlan
  /\ UNCHANGED <<store, prov, todo, seen, live, cur, back, expired>>

Deadline ==
  /\ "deadline" \in faults /\ pc # "idle" /\ ~expired
  /\ expired' = TRUE
  /\ UNCHANGED <<store, pc, prov, todo, seen, live, plan, cur, back>>

\* POST /api/autoscale/instances/{id}/protect and unprotect, at any time.
SetProtected(i, b) ==
  /\ "protect" \in faults
  /\ row[i].status # "absent" /\ row[i].protected # b
  /\ row' = [row EXCEPT ![i].protected = b]
  /\ UNCHANGED <<machine, home, conf, faults, local>>

\* The queue's policy names another provider.
SwitchProvider(p) ==
  /\ "switch" \in faults /\ p # conf
  /\ conf' = p
  /\ UNCHANGED <<row, machine, home, faults, local>>

MachineStarts(i) ==
  /\ machine[i] = "booting"
  /\ machine' = [machine EXCEPT ![i] = "running"]
  /\ UNCHANGED <<row, home, conf, faults, local>>

MachineDies(i) ==
  /\ machine[i] \in {"booting", "running"}
  /\ machine' = [machine EXCEPT ![i] = "dead"]
  /\ UNCHANGED <<row, home, conf, faults, local>>

\* TLC's bound: with every id drawn the loop ends its evaluation instead of provisioning.
OutOfIds ==
  /\ pc = "provision" /\ Fresh = {}
  /\ pc' = "idle" /\ plan' = NoPlan
  /\ UNCHANGED <<store, prov, todo, seen, live, cur, back, expired>>

Evaluate ==
  \/ StartEvaluation \/ Destroy \/ Finalize \/ DecidePlan \/ Create \/ DestroyUntracked
  \/ EndEvaluation \/ OutOfIds
  \/ \E i \in Id : \/ ResumeTeardown(i) \/ ReconcileEnded(i) \/ ReconcileDead(i)
                   \/ ReconcileLive(i) \/ Provision(i) \/ ScaleDown(i)

Next ==
  \/ Evaluate
  \/ Crash \/ Deadline
  \/ \E i \in Id : MachineStarts(i) \/ MachineDies(i) \/ (\E b \in BOOLEAN : SetProtected(i, b))
  \/ \E p \in Provider : SwitchProvider(p)

Spec == Init /\ [][Next]_vars

\* The loop ticks forever (run), every listed row is reconciled in turn, and calls that
\* are tried again and again succeed in the end.
DestroySucceeds  == Destroy /\ pc' = "finalize"
FinalizeSucceeds == Finalize /\ row' # row
Fairness ==
  /\ WF_vars(Evaluate)
  /\ \A i \in Id : SF_vars(ResumeTeardown(i))
  /\ SF_vars(DestroySucceeds) /\ SF_vars(FinalizeSucceeds)
FairSpec == Spec /\ Fairness

-----------------------------------------------------------------------------
(* Properties *)

\* As long as the queue stays with its provider, a row that names its machine is final only
\* once the machine is destroyed: teardown "destroys an instance at the provider and records
\* its final status".
RecordedEnds ==
  \A i \in Id : row[i].placed /\ row[i].status \in FinalStatus => machine[i] = "gone"
FinalMeansGone == "switch" \notin faults => RecordedEnds

\* As long as nothing is cut short or lost, and not both the database and the provider fail,
\* no machine is rented that no row will lead back to: "destroy it rather than leak it".
EveryMachineTracked ==
  \A i \in Id : Rented(i) =>
    \/ row[i].placed /\ row[i].status \notin FinalStatus
    \/ cur = i /\ pc \in {"rented", "cleanup"}
Accident == {"reply", "crash", "deadline", "switch"}
NoAccident == faults \cap Accident = {} /\ ~({"db", "provider"} \subseteq faults)
NoUntrackedMachine == NoAccident => EveryMachineTracked

\* As long as the database answers, max_workers bounds the rows that count as capacity,
\* whatever else failed before.  (A teardown whose intent cannot be written leaves a live
\* row that the same evaluation no longer counts.)
WithinMaxWorkers == "db" \notin faults => Cardinality(LiveRows) <= MaxWorkers

\* Teardown is one-way: an instance once draining or final is never capacity again.
NoResurrection ==
  [][\A i \in Id : row[i].status \in {"draining"} \cup FinalStatus =>
                   row'[i].status \notin LiveStatus]_vars

\* A teardown once recorded ends, across failed calls and crashes, unless every evaluation
\* reaches it after its own deadline.
TeardownFinishes ==
  "deadline" \notin faults =>
    \A i \in Id : row[i].status = "draining" ~> row[i].status \in FinalStatus

-----------------------------------------------------------------------------
(* The abstract specification *)

\* What a row that names its machine says of it.
Entry(i) ==
  CASE ~row[i].placed -> "none"
    [] row[i].placed /\ row[i].status \in LiveStatus -> "open"
    [] row[i].placed /\ row[i].status = "draining" -> "closing"
    [] OTHER -> "closed"
Books == [i \in Id |-> Entry(i)]
RentedIds == {i \in Id : Rented(i)}
InHand == IF pc \in {"rented", "cleanup"} THEN cur ELSE NoId

\* What a behaviour with these faults may count on.
Given ==
  {c \in {"OneProvider", "NoAccident", "BooksAnswer"} :
     \/ c = "OneProvider" /\ "switch" \notin faults
     \/ c = "NoAccident" /\ NoAccident
     \/ c = "BooksAnswer" /\ "db" \notin faults}

\* The rows, the machines and the one being provisioned implement the books of Rental: the
\* intent is recorded before a machine is destroyed and the end after it, and until a machine
\* rented is recorded or given back nothing else is rented ("destroy it rather than leak it").
R == INSTANCE Rental WITH Max <- MaxWorkers, entry <- Books, rented <- RentedIds,
                          hand <- InHand, given <- Given
ImplementsRental == R!Spec
=============================================================================
