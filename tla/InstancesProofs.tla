--------------------------- MODULE InstancesProofs --------------------------
(***************************************************************************)
(* The instances for any set of ids and any bounds: type correctness,      *)
(* teardown is one-way whatever fails, a final row has no machine as long  *)
(* as the queue stays with its provider, no machine is left untracked      *)
(* unless something is cut short or lost or both stores fail, max_workers  *)
(* is kept while the database answers, and together the promise of Rental. *)
(***************************************************************************)
EXTENDS Instances, FiniteSetTheorems, TLAPS


\* One field of one row written: the table stays a table.
LEMMA RowUpdate ==
  ASSUME row \in [Id -> Row], NEW i \in Id
  PROVE  /\ \A s \in Status : /\ SetStatus(i, s) \in [Id -> Row]
                              /\ SetStatus(i, s)[i].status = s
                              /\ SetStatus(i, s)[i].placed = row[i].placed
                              /\ \A j \in Id \ {i} : SetStatus(i, s)[j] = row[j]
         /\ \A b \in BOOLEAN : [row EXCEPT ![i].protected = b] \in [Id -> Row]
         /\ Recorded(i) \in [Id -> Row]
         /\ Recorded(i)[i].status = "provisioning" /\ Recorded(i)[i].placed
         /\ \A j \in Id \ {i} : Recorded(i)[j] = row[j]
<1>1. \A x \in Row, s \in Status : [x EXCEPT !.status = s] \in Row
  BY DEF Row
<1>2. \A x \in Row, b \in BOOLEAN : [x EXCEPT !.protected = b] \in Row
  BY DEF Row
<1>3. \A s \in Status : SetStatus(i, s) \in [Id -> Row]
  BY <1>1 DEF SetStatus
<1>4. \A s \in Status : /\ SetStatus(i, s)[i].status = s
                       /\ SetStatus(i, s)[i].placed = row[i].placed
                       /\ \A j \in Id \ {i} : SetStatus(i, s)[j] = row[j]
  BY DEF SetStatus, Row
<1>5. [row EXCEPT ![i].status = "provisioning", ![i].placed = TRUE] \in [Id -> Row]
  BY DEF Row, Status, LiveStatus
<1>6. /\ Recorded(i)[i].status = "provisioning" /\ Recorded(i)[i].placed
      /\ \A j \in Id \ {i} : Recorded(i)[j] = row[j]
  BY DEF Recorded, Row
<1> QED
  BY <1>2, <1>3, <1>4, <1>5, <1>6 DEF Recorded

LEMMA NoPlanType == NoPlan \in [left : 0..MaxWorkers, destroy : SUBSET Id]
  BY InstancesAssumption DEF InstancesAssumption, NoPlan

\* A teardown writes its intent or nothing, and destroys only an instance it has marked.
LEMMA TeardownStep ==
  ASSUME NEW r \in [Id -> Row], NEW i \in Id, NEW f \in FinalStatus, NEW ret,
         Teardown(r, i, f, ret)
  PROVE  /\ Mark(r, i, f) \in [Id -> Row]
         /\ \/ /\ pc' = "destroying" /\ cur' = i /\ back' = ret
               /\ row' = Mark(r, i, f)
            \/ /\ pc' = ret /\ cur' = cur /\ back' = back
               /\ row' \in {r, Mark(r, i, f)}
  BY DEF Teardown, Mark, Row, Status, FinalStatus

LEMMA PromotedType ==
  ASSUME TypeOK, NEW i \in Id, NEW answer, NEW r \in Promoted(i, answer)
  PROVE  r \in [Id -> Row]
  BY RowUpdate DEF TypeOK, Promoted, Status, LiveStatus

LEMMA FinalOfType ==
  ASSUME NEW r \in Row
  PROVE  FinalOf(r) \in FinalStatus
  BY DEF FinalOf, Row, FinalStatus

\* An instance is rented only while the plan has one left to provision.
PlanInv == pc = "rented" => plan.left > 0

LEMMA PlanStep ==
  ASSUME TypeOK, PlanInv, [Next]_vars
  PROVE  PlanInv'
<1> USE DEF PlanInv
<1>1. ASSUME StartEvaluation \/ Destroy \/ Finalize \/ DecidePlan \/ Create \/ DestroyUntracked
             \/ EndEvaluation \/ OutOfIds \/ Crash
      PROVE  PlanInv'
  BY <1>1 DEF StartEvaluation, Destroy, Finalize, DecidePlan, Create, DestroyUntracked,
    EndEvaluation, OutOfIds, Crash, AfterCreateError, TypeOK
<1>2. ASSUME NEW i \in Id, ResumeTeardown(i) \/ ReconcileEnded(i) \/ ReconcileDead(i)
                            \/ ReconcileLive(i) \/ ScaleDown(i)
      PROVE  PlanInv'
  BY <1>2 DEF ResumeTeardown, ReconcileEnded, ReconcileDead, ReconcileLive, ScaleDown, Teardown
<1>3. ASSUME NEW i \in Id, Provision(i) PROVE PlanInv'
  BY <1>3 DEF Provision
<1>4. ASSUME NEW i \in Id, MachineStarts(i) \/ MachineDies(i) \/ (\E b \in BOOLEAN : SetProtected(i, b))
      PROVE  PlanInv'
  BY <1>4 DEF MachineStarts, MachineDies, SetProtected, local
<1>5. ASSUME Deadline \/ (\E p \in Provider : SwitchProvider(p)) \/ UNCHANGED vars PROVE PlanInv'
  BY <1>5 DEF SwitchProvider, Deadline, vars, local
<1> QED
  BY <1>1, <1>2, <1>3, <1>4, <1>5 DEF Next, Evaluate

\* Type correctness.
THEOREM TypeTheorem == Spec => []TypeOK
<1> USE InstancesAssumption DEF InstancesAssumption
<1>1. Init => TypeOK
  <2>1. NoRow \in Row
    BY DEF NoRow, Row, Status
  <2> QED
    BY <2>1, NoPlanType DEF Init, TypeOK, Machine, Phase, OnOne
<1>2. TypeOK /\ PlanInv /\ [Next]_vars => TypeOK'
  <2> SUFFICES ASSUME TypeOK, PlanInv, [Next]_vars PROVE TypeOK'
    OBVIOUS
  <2> USE DEF TypeOK, Phase, OnOne, Machine, store, local
  <2>1. ASSUME StartEvaluation PROVE TypeOK'
    <3>1. \A x \in Row : [x EXCEPT !.worker = TRUE] \in Row
      BY DEF Row
    <3>2. row' \in [Id -> Row]
      BY <2>1, <3>1 DEF StartEvaluation
    <3> QED
      BY <2>1, <3>2, NoPlanType DEF StartEvaluation, Listed, HasStatus
  <2>2. ASSUME Destroy PROVE TypeOK'
    BY <2>2 DEF Destroy
  <2>3. ASSUME Finalize PROVE TypeOK'
    BY <2>3, FinalOfType, RowUpdate DEF Finalize, Status
  <2>4. ASSUME DecidePlan PROVE TypeOK'
    <3>1. Cardinality(live) \in Nat
      BY FS_Subset, FS_CardinalityType
    <3> QED
      BY <2>4, <3>1 DEF DecidePlan, Room
  <2>5. ASSUME Create PROVE TypeOK'
    <3>1. row' \in [Id -> Row]
      BY <2>5, RowUpdate DEF Create
    <3>2. CASE pc' = AfterCreateError /\ UNCHANGED plan
      BY <2>5, <3>1, <3>2 DEF Create, AfterCreateError
    <3>3. CASE /\ plan' = [plan EXCEPT !.left = @ - 1]
               /\ pc' = IF plan.left > 1 THEN "provision" ELSE "idle"
      <4>1. plan.left - 1 \in 0..MaxWorkers
        BY <2>5 DEF Create, PlanInv
      <4>2. plan' \in [left : 0..MaxWorkers, destroy : SUBSET Id]
        BY <3>3, <4>1
      <4> QED
        BY <2>5, <3>1, <3>3, <4>2 DEF Create
    <3> QED
      BY <2>5, <3>2, <3>3 DEF Create
  <2>6. ASSUME DestroyUntracked PROVE TypeOK'
    BY <2>6, NoPlanType DEF DestroyUntracked
  <2>7. ASSUME EndEvaluation \/ OutOfIds \/ Crash \/ Deadline PROVE TypeOK'
    BY <2>7, NoPlanType DEF EndEvaluation, OutOfIds, Crash, Deadline
  <2>8. ASSUME NEW i \in Id, ResumeTeardown(i) PROVE TypeOK'
    BY <2>8 DEF ResumeTeardown
  <2>9. ASSUME NEW i \in Id, ReconcileEnded(i) PROVE TypeOK'
    <3>1. PICK f \in FinalStatus : Teardown(row, i, f, "reconcile")
      BY <2>9 DEF ReconcileEnded, FinalStatus
    <3> QED
      BY <2>9, <3>1, TeardownStep DEF ReconcileEnded
  <2>10. ASSUME NEW i \in Id, ReconcileDead(i) PROVE TypeOK'
    <3>1. PICK r \in [Id -> Row] : Teardown(r, i, "failed", "reconcile")
      BY <2>10, PromotedType DEF ReconcileDead
    <3> QED
      BY <2>10, <3>1, TeardownStep DEF ReconcileDead, FinalStatus
  <2>11. ASSUME NEW i \in Id, ReconcileLive(i) PROVE TypeOK'
    <3>1. row' \in [Id -> Row]
      BY <2>11, PromotedType DEF ReconcileLive
    <3> QED
      BY <2>11, <3>1 DEF ReconcileLive
  <2>12. ASSUME NEW i \in Id, Provision(i) PROVE TypeOK'
    <3>1. row' \in [Id -> Row]
      BY <2>12, RowUpdate DEF Provision, Status, FinalStatus
    <3> QED
      BY <2>12, <3>1, NoPlanType DEF Provision, Rent
  <2>13. ASSUME NEW i \in Id, ScaleDown(i) PROVE TypeOK'
    <3>1. CASE Teardown(row, i, "terminated", "scaledown")
      BY <2>13, <3>1, TeardownStep DEF ScaleDown, FinalStatus
    <3>2. CASE UNCHANGED <<row, pc, cur, back>>
      BY <2>13, <3>2 DEF ScaleDown
    <3> QED
      BY <2>13, <3>1, <3>2 DEF ScaleDown
  <2>14. ASSUME NEW i \in Id, MachineStarts(i) \/ MachineDies(i) PROVE TypeOK'
    BY <2>14 DEF MachineStarts, MachineDies
  <2>15. ASSUME NEW i \in Id, NEW b \in BOOLEAN, SetProtected(i, b) PROVE TypeOK'
    BY <2>15, RowUpdate DEF SetProtected
  <2>16. ASSUME NEW p \in Provider, SwitchProvider(p) PROVE TypeOK'
    BY <2>16 DEF SwitchProvider
  <2>17. CASE UNCHANGED vars
    BY <2>17 DEF vars
  <2> QED
    BY <2>1, <2>2, <2>3, <2>4, <2>5, <2>6, <2>7, <2>8, <2>9, <2>10, <2>11, <2>12, <2>13,
       <2>14, <2>15, <2>16, <2>17 DEF Next, Evaluate
<1>3. Init => PlanInv
  BY DEF Init, PlanInv
<1> QED
  BY <1>1, <1>2, <1>3, PlanStep, PTL DEF Spec

-----------------------------------------------------------------------------
(* How a step may change a row and a machine *)

\* A row that is absent names no machine, and the row of a machine just rented is absent.
AbsentInv ==
  /\ \A i \in Id : row[i].status = "absent" => ~row[i].placed
  /\ pc = "rented" => row[cur].status = "absent"

SamePlaced(i) == row'[i].placed = row[i].placed

RowChange(i) ==
  \/ row'[i].status = row[i].status /\ SamePlaced(i)
  \/ /\ pc = "rented" /\ cur = i /\ row[i].status = "absent"
     /\ row'[i].status = "provisioning" /\ row'[i].placed
  \/ pc = "provision" /\ row[i].status = "absent" /\ row'[i].status = "failed" /\ SamePlaced(i)
  \/ row[i].status = "provisioning" /\ row'[i].status = "running" /\ SamePlaced(i)
  \/ row'[i].status = "draining" /\ SamePlaced(i)
  \/ pc = "finalize" /\ cur = i /\ row'[i].status \in FinalStatus /\ SamePlaced(i)

LEMMA TeardownRow ==
  ASSUME TypeOK, NEW i \in Id, NEW answer, NEW r \in {row} \cup Promoted(i, answer),
         NEW f \in FinalStatus, NEW ret, Teardown(r, i, f, ret)
  PROVE  \A j \in Id : RowChange(j)
<1>1. r \in [Id -> Row] /\ row \in [Id -> Row]
  BY PromotedType DEF TypeOK
<1>2. /\ \A j \in Id \ {i} : r[j] = row[j]
      /\ r[i].placed = row[i].placed
      /\ r[i].status = row[i].status \/ (row[i].status = "provisioning" /\ r[i].status = "running")
  BY <1>1, RowUpdate DEF Promoted, Status, LiveStatus
<1>3. /\ \A j \in Id \ {i} : Mark(r, i, f)[j] = r[j]
      /\ Mark(r, i, f)[i].placed = r[i].placed /\ Mark(r, i, f)[i].status = "draining"
  BY <1>1 DEF Mark, Row
<1> QED
  BY <1>1, <1>2, <1>3, TeardownStep DEF RowChange, SamePlaced

\* A row becomes live only from absent, and final only from absent or by a teardown's end.
LEMMA RowChangeStep ==
  ASSUME TypeOK, AbsentInv, [Next]_vars
  PROVE  \A j \in Id : RowChange(j)
<1> USE DEF TypeOK
<1>1. ASSUME UNCHANGED row PROVE \A j \in Id : RowChange(j)
  BY <1>1 DEF RowChange, SamePlaced
<1>2. ASSUME StartEvaluation PROVE \A j \in Id : RowChange(j)
  <2>1. \A x \in Row : /\ [x EXCEPT !.worker = TRUE].status = x.status
                       /\ [x EXCEPT !.worker = TRUE].placed = x.placed
    BY DEF Row
  <2> QED
    BY <1>2, <2>1 DEF StartEvaluation, RowChange, SamePlaced
<1>3. ASSUME Finalize PROVE \A j \in Id : RowChange(j)
  <2>1. cur \in Id /\ FinalOf(row[cur]) \in FinalStatus
    BY <1>3, FinalOfType DEF Finalize, OnOne
  <2> QED
    BY <1>3, <2>1, RowUpdate DEF Finalize, RowChange, SamePlaced, Status
<1>4. ASSUME Create PROVE \A j \in Id : RowChange(j)
  <2>1. cur \in Id /\ row[cur].status = "absent"
    BY <1>4 DEF Create, OnOne, AbsentInv
  <2> QED
    BY <1>4, <2>1, RowUpdate DEF Create, RowChange, SamePlaced
<1>5. ASSUME NEW i \in Id, ReconcileEnded(i) PROVE \A j \in Id : RowChange(j)
  <2>1. PICK f \in FinalStatus : Teardown(row, i, f, "reconcile")
    BY <1>5 DEF ReconcileEnded, FinalStatus
  <2> QED
    BY <1>5, <2>1, TeardownRow DEF ReconcileEnded
<1>6. ASSUME NEW i \in Id, ReconcileDead(i) PROVE \A j \in Id : RowChange(j)
  <2>1. PICK answer \in StatusOf(i) \ {"ended"} :
          \E r \in Promoted(i, answer) : Teardown(r, i, "failed", "reconcile")
    BY <1>6 DEF ReconcileDead
  <2> QED
    BY <2>1, TeardownRow DEF FinalStatus
<1>7. ASSUME NEW i \in Id, ReconcileLive(i) PROVE \A j \in Id : RowChange(j)
  BY <1>7, RowUpdate DEF ReconcileLive, Promoted, RowChange, SamePlaced, Status, LiveStatus
<1>8. ASSUME NEW i \in Id, Provision(i) PROVE \A j \in Id : RowChange(j)
  BY <1>8, RowUpdate DEF Provision, Fresh, RowChange, SamePlaced, Status, FinalStatus
<1>9. ASSUME NEW i \in Id, NEW b \in BOOLEAN, SetProtected(i, b) PROVE \A j \in Id : RowChange(j)
  <2>1. \A x \in Row : /\ [x EXCEPT !.protected = b].status = x.status
                       /\ [x EXCEPT !.protected = b].placed = x.placed
    BY DEF Row
  <2> QED
    BY <1>9, <2>1 DEF SetProtected, RowChange, SamePlaced
<1>10. ASSUME NEW i \in Id, ScaleDown(i) PROVE \A j \in Id : RowChange(j)
  <2>1. CASE Teardown(row, i, "terminated", "scaledown")
    BY <2>1, TeardownRow DEF FinalStatus
  <2> QED
    BY <1>1, <1>10, <2>1 DEF ScaleDown
<1> QED
  BY <1>1, <1>2, <1>3, <1>4, <1>5, <1>6, <1>7, <1>8, <1>9, <1>10
  DEF Next, Evaluate, Destroy, DecidePlan, DestroyUntracked, EndEvaluation, OutOfIds, Crash,
    Deadline, ResumeTeardown, MachineStarts, MachineDies, SwitchProvider, vars, store

MachineChange(i) ==
  \/ machine'[i] = machine[i]
  \/ machine[i] = "none" /\ pc = "provision"
       /\ ((pc' = "rented" /\ cur' = i) \/ "reply" \in faults)
  \/ machine[i] \in {"booting", "running"} /\ machine'[i] \in {"running", "dead"}
  \/ machine'[i] = "gone" /\ cur = i /\ pc \in {"destroying", "cleanup"}

\* A machine is rented once, and gone only by a destroy.
LEMMA MachineChangeStep ==
  ASSUME TypeOK, [Next]_vars
  PROVE  \A j \in Id : MachineChange(j)
<1> USE DEF TypeOK
<1>1. ASSUME UNCHANGED machine PROVE \A j \in Id : MachineChange(j)
  BY <1>1 DEF MachineChange
<1>2. ASSUME Destroy PROVE \A j \in Id : MachineChange(j)
  BY <1>2 DEF Destroy, MachineChange
<1>3. ASSUME DestroyUntracked PROVE \A j \in Id : MachineChange(j)
  BY <1>3 DEF DestroyUntracked, MachineChange
<1>4. ASSUME NEW i \in Id, Provision(i) PROVE \A j \in Id : MachineChange(j)
  BY <1>4 DEF Provision, Rent, Fresh, MachineChange
<1>5. ASSUME NEW i \in Id, MachineStarts(i) \/ MachineDies(i) PROVE \A j \in Id : MachineChange(j)
  BY <1>5 DEF MachineStarts, MachineDies, MachineChange
<1> QED
  BY <1>1, <1>2, <1>3, <1>4, <1>5
  DEF Next, Evaluate, StartEvaluation, Finalize, DecidePlan, Create, EndEvaluation, OutOfIds, Crash,
    Deadline, ResumeTeardown, ReconcileEnded, ReconcileDead, ReconcileLive, ScaleDown, SetProtected,
    SwitchProvider, vars, store

\* The steps that are not the evaluation's: it stays where it is, and so do the statuses.
World ==
  \/ UNCHANGED vars \/ Deadline
  \/ \E i \in Id : MachineStarts(i) \/ MachineDies(i) \/ (\E b \in BOOLEAN : SetProtected(i, b))
  \/ \E p \in Provider : SwitchProvider(p)

LEMMA WorldStep ==
  ASSUME TypeOK, World
  PROVE  /\ pc' = pc /\ cur' = cur /\ back' = back /\ plan' = plan /\ prov' = prov
         /\ \A i \in Id : row'[i].status = row[i].status /\ SamePlaced(i)
<1>1. ASSUME NEW i \in Id, NEW b \in BOOLEAN, SetProtected(i, b)
      PROVE  \A j \in Id : row'[j].status = row[j].status /\ SamePlaced(j)
  <2>1. \A x \in Row : /\ [x EXCEPT !.protected = b].status = x.status
                       /\ [x EXCEPT !.protected = b].placed = x.placed
    BY DEF Row
  <2> QED
    BY <1>1, <2>1 DEF TypeOK, SetProtected, SamePlaced
<1> QED
  BY <1>1 DEF World, Deadline, MachineStarts, MachineDies, SetProtected, SwitchProvider, SamePlaced,
    vars, store, local

\* What an evaluation with an instance in hand may do next.
LEMMA NextStep ==
  ASSUME TypeOK, [Next]_vars
  PROVE  /\ pc = "rented" => Create \/ Crash \/ World
         /\ pc = "cleanup" => DestroyUntracked \/ Crash \/ World
         /\ pc = "finalize" => Finalize \/ Crash \/ World
         /\ pc' = "rented" => World \/ \E i \in Id : Provision(i)
         /\ pc' = "finalize" => World \/ Destroy
  BY DEF Next, Evaluate, World, TypeOK, AfterCreateError, StartEvaluation, Destroy, Finalize, DecidePlan, Create,
    DestroyUntracked, EndEvaluation, OutOfIds, Crash, ResumeTeardown, ReconcileEnded, ReconcileDead,
    ReconcileLive, Provision, ScaleDown, Teardown

-----------------------------------------------------------------------------
(* Teardown is one-way *)

LEMMA AbsentStep ==
  ASSUME TypeOK, TypeOK', AbsentInv, [Next]_vars
  PROVE  AbsentInv'
<1>1. \A i \in Id : row'[i].status = "absent" => row[i].status = "absent" /\ SamePlaced(i)
  BY RowChangeStep DEF RowChange, LiveStatus, FinalStatus
<1>2. pc' = "rented" => row'[cur'].status = "absent"
  <2>1. ASSUME NEW i \in Id, Provision(i), pc' = "rented" PROVE row'[cur'].status = "absent"
    BY <2>1 DEF Provision, Fresh
  <2>2. ASSUME World, pc' = "rented" PROVE row'[cur'].status = "absent"
    BY <2>2, WorldStep DEF AbsentInv, TypeOK, OnOne
  <2> QED
    BY <2>1, <2>2, NextStep
<1> QED
  BY <1>1, <1>2 DEF AbsentInv, SamePlaced

LEMMA AbsentInvariant == Spec => [](TypeOK /\ AbsentInv)
<1>1. Init => AbsentInv
  BY DEF Init, AbsentInv, NoRow
<1> QED
  BY <1>1, TypeTheorem, AbsentStep, PTL DEF Spec

\* An instance once draining or final is never capacity again, whatever fails.
THEOREM NoResurrectionTheorem == Spec => NoResurrection
<1>1. TypeOK /\ AbsentInv /\ [Next]_vars =>
        [\A i \in Id : row[i].status \in {"draining"} \cup FinalStatus =>
                       row'[i].status \notin LiveStatus]_vars
  BY RowChangeStep DEF RowChange, LiveStatus, FinalStatus
<1> QED
  BY <1>1, AbsentInvariant, PTL DEF Spec, NoResurrection

-----------------------------------------------------------------------------
(* A final row has no machine *)

\* The queue stays with one provider.
NoSwitch == "switch" \notin faults
HomeInv == prov = conf /\ \A i \in Id : home[i] = conf
GoneInv == pc = "finalize" => machine[cur] = "gone"
FinalInv == NoSwitch => HomeInv /\ GoneInv /\ RecordedEnds

\* The fault kinds are chosen once.
LEMMA SameFaults ==
  ASSUME [Next]_vars
  PROVE  faults' = faults
  BY DEF Next, Evaluate, StartEvaluation, Destroy, Finalize, DecidePlan, Create,
    DestroyUntracked, EndEvaluation, OutOfIds, Crash, Deadline, ResumeTeardown, ReconcileEnded,
    ReconcileDead, ReconcileLive, Provision, ScaleDown, MachineStarts, MachineDies, SetProtected,
    SwitchProvider, vars, store

LEMMA FinalStep ==
  ASSUME TypeOK, TypeOK', AbsentInv, FinalInv, [Next]_vars
  PROVE  FinalInv'
<1> SUFFICES ASSUME NoSwitch, HomeInv, GoneInv, RecordedEnds
             PROVE  HomeInv' /\ GoneInv' /\ RecordedEnds'
  BY SameFaults DEF FinalInv, NoSwitch
<1>1. HomeInv'
  BY DEF NoSwitch, HomeInv, Next, Evaluate, StartEvaluation, Destroy, Finalize, DecidePlan, Create,
    DestroyUntracked, EndEvaluation, OutOfIds, Crash, Deadline, ResumeTeardown, ReconcileEnded,
    ReconcileDead, ReconcileLive, Provision, Rent, ScaleDown, MachineStarts, MachineDies, SetProtected,
    SwitchProvider, vars, store, local, TypeOK
<1>2. GoneInv'
  <2>1. ASSUME Destroy, pc' = "finalize" PROVE machine'[cur'] = "gone"
    BY <2>1 DEF Destroy, HomeInv, Unreachable, TypeOK, OnOne
  <2>2. ASSUME World, pc' = "finalize" PROVE machine'[cur'] = "gone"
    BY <2>2, WorldStep, MachineChangeStep DEF GoneInv, MachineChange, TypeOK, OnOne
  <2> QED
    BY <2>1, <2>2, NextStep DEF GoneInv
<1>3. RecordedEnds'
  <2> SUFFICES ASSUME NEW i \in Id, row'[i].placed, row'[i].status \in FinalStatus
               PROVE  machine'[i] = "gone"
    BY DEF RecordedEnds
  <2>1. machine[i] = "gone"
    BY RowChangeStep DEF RowChange, SamePlaced, AbsentInv, GoneInv, RecordedEnds, FinalStatus, LiveStatus
  <2> QED
    BY <2>1, MachineChangeStep DEF MachineChange
<1> QED
  BY <1>1, <1>2, <1>3

LEMMA FinalInvariant == Spec => [](TypeOK /\ AbsentInv /\ FinalInv)
<1>1. Init => FinalInv
  BY DEF Init, FinalInv, HomeInv, GoneInv, RecordedEnds, NoRow
<1>2. TypeOK /\ TypeOK' /\ AbsentInv /\ FinalInv /\ [Next]_vars => FinalInv'
  BY FinalStep
<1> QED
  BY <1>1, <1>2, AbsentInvariant, PTL DEF Spec

\* As long as the queue stays with its provider, a final row names no machine still rented.
THEOREM FinalMeansGoneTheorem == Spec => []FinalMeansGone
<1>1. FinalInv => FinalMeansGone
  BY DEF FinalInv, FinalMeansGone, NoSwitch
<1> QED
  BY <1>1, FinalInvariant, PTL

-----------------------------------------------------------------------------
(* No machine is left untracked *)

\* Only a failed write leads to the clean-up, which the provider then does not fail.
CleanupInv == pc = "cleanup" => "db" \in faults
TrackInv == NoAccident => ~expired /\ EveryMachineTracked /\ CleanupInv

LEMMA TrackStep ==
  ASSUME TypeOK, TypeOK', AbsentInv, FinalInv, TrackInv, [Next]_vars
  PROVE  TrackInv'
<1> SUFFICES ASSUME NoAccident, ~expired, EveryMachineTracked, CleanupInv
             PROVE  ~expired' /\ EveryMachineTracked' /\ CleanupInv'
  BY SameFaults DEF TrackInv, NoAccident
<1>0. GoneInv /\ faults' = faults
  BY SameFaults DEF NoAccident, Accident, NoSwitch, FinalInv
<1>1. ~expired'
  BY DEF NoAccident, Accident, Next, Evaluate, StartEvaluation, Destroy, Finalize, DecidePlan, Create,
    DestroyUntracked, EndEvaluation, OutOfIds, Crash, Deadline, ResumeTeardown, ReconcileEnded,
    ReconcileDead, ReconcileLive, Provision, ScaleDown, MachineStarts, MachineDies, SetProtected,
    SwitchProvider, vars, local
<1>2. ASSUME NEW i \in Id, Rented(i)'
      PROVE  \/ row'[i].placed /\ row'[i].status \notin FinalStatus
             \/ cur' = i /\ pc' \in {"rented", "cleanup"}
  <2>1. machine'[i] # machine[i] => Rented(i) \/ (pc' = "rented" /\ cur' = i)
    BY <1>2, MachineChangeStep DEF NoAccident, Accident, MachineChange, Rented
  <2>2. CASE Rented(i) /\ row[i].placed /\ row[i].status \notin FinalStatus
    BY <1>0, <2>2, RowChangeStep DEF RowChange, SamePlaced, AbsentInv, GoneInv, Rented,
      FinalStatus, LiveStatus
  <2>3. CASE cur = i /\ pc \in {"rented", "cleanup"}
    <3>1. ~Crash
      BY DEF Crash, NoAccident, Accident
    <3>2. CASE Create
      BY <2>3, <3>2, RowUpdate DEF Create, AfterCreateError, TypeOK, FinalStatus
    <3>3. CASE DestroyUntracked
      BY <1>2, <2>3, <3>3 DEF DestroyUntracked, MayFail, NoAccident, CleanupInv, TypeOK, Rented
    <3>4. CASE World
      BY <2>3, <3>4, WorldStep
    <3> QED
      BY <2>3, <3>1, <3>2, <3>3, <3>4, NextStep
  <2> QED
    BY <1>2, <2>1, <2>2, <2>3 DEF EveryMachineTracked, Rented
<1>3. CleanupInv'
  <2>1. pc' = "cleanup" => Create \/ (pc = "cleanup" /\ World)
    BY NextStep, WorldStep DEF Next, Evaluate, World, TypeOK, StartEvaluation, Destroy, Finalize,
      DecidePlan, DestroyUntracked, EndEvaluation, OutOfIds, Crash, ResumeTeardown, ReconcileEnded,
      ReconcileDead, ReconcileLive, Provision, ScaleDown, Teardown
  <2>2. Create /\ pc' = "cleanup" => "db" \in faults
    BY DEF Create, MayFail
  <2> QED
    BY <1>0, <2>1, <2>2 DEF CleanupInv
<1> QED
  BY <1>1, <1>2, <1>3 DEF EveryMachineTracked

LEMMA TrackInvariant == Spec => [](TypeOK /\ AbsentInv /\ FinalInv /\ TrackInv)
<1>1. Init => TrackInv
  BY DEF Init, TrackInv, EveryMachineTracked, Rented, CleanupInv
<1>2. TypeOK /\ TypeOK' /\ AbsentInv /\ FinalInv /\ TrackInv /\ [Next]_vars => TrackInv'
  BY TrackStep
<1> QED
  BY <1>1, <1>2, FinalInvariant, PTL DEF Spec

\* Unless something is cut short or lost, or both stores fail, every machine rented is led to
\* by a row or about to be.
THEOREM NoUntrackedMachineTheorem == Spec => []NoUntrackedMachine
<1>1. TrackInv => NoUntrackedMachine
  BY DEF TrackInv, NoUntrackedMachine
<1> QED
  BY <1>1, TrackInvariant, PTL

-----------------------------------------------------------------------------
(* Capacity *)

LEMMA PlanInvariant == Spec => [](TypeOK /\ AbsentInv /\ PlanInv)
<1>1. Init => PlanInv
  BY DEF Init, PlanInv
<1> QED
  BY <1>1, AbsentInvariant, PlanStep, PTL DEF Spec

LEMMA LiveRowsFinite ==
  ASSUME NEW S \in SUBSET Id
  PROVE  IsFiniteSet(S) /\ Cardinality(S) \in Nat
  BY InstancesAssumption, FS_Subset, FS_CardinalityType DEF InstancesAssumption

\* Only the recording of a machine adds to the rows that count as capacity.
LEMMA LiveRowsStep ==
  ASSUME TypeOK, TypeOK', AbsentInv, [Next]_vars
  PROVE  /\ pc # "rented" => LiveRows' \subseteq LiveRows /\ Cardinality(LiveRows') <= Cardinality(LiveRows)
         /\ Cardinality(LiveRows') <= Cardinality(LiveRows) + 1
         /\ LiveRows \subseteq Id /\ Cardinality(LiveRows) \in Nat /\ Cardinality(LiveRows') \in Nat
<1>1. LiveRows \subseteq Id /\ LiveRows' \subseteq Id
  BY DEF LiveRows, HasStatus
<1>2. LiveRows' \subseteq LiveRows \cup {cur}
  BY RowChangeStep DEF RowChange, LiveRows, HasStatus, LiveStatus, FinalStatus
<1>3. pc # "rented" => LiveRows' \subseteq LiveRows
  BY RowChangeStep DEF RowChange, LiveRows, HasStatus, LiveStatus, FinalStatus
<1>4. /\ IsFiniteSet(LiveRows) /\ Cardinality(LiveRows) \in Nat
      /\ IsFiniteSet(LiveRows') /\ Cardinality(LiveRows') \in Nat
  BY <1>1, LiveRowsFinite
<1>5. /\ IsFiniteSet(LiveRows \cup {cur}) /\ Cardinality(LiveRows \cup {cur}) \in Nat
      /\ Cardinality(LiveRows \cup {cur}) <= Cardinality(LiveRows) + 1
  BY <1>4, FS_AddElement, FS_CardinalityType
<1>6. Cardinality(LiveRows') <= Cardinality(LiveRows \cup {cur})
  BY <1>2, <1>5, FS_Subset
<1>7. pc # "rented" => Cardinality(LiveRows') <= Cardinality(LiveRows)
  BY <1>3, <1>4, FS_Subset
<1> QED
  BY <1>1, <1>3, <1>4, <1>5, <1>6, <1>7

\* An evaluation that has not decided yet has met, or will meet, every row that counts; one
\* that provisions has left room for what it still plans.
Reconciling == pc = "reconcile" \/ (pc \in {"destroying", "finalize"} /\ back = "reconcile")
MetInv == Reconciling => LiveRows \subseteq live \cup todo
RoomInv == pc \in {"provision", "rented"} => Cardinality(LiveRows) + plan.left <= MaxWorkers
Fits == Cardinality(LiveRows) <= MaxWorkers
CapacityInv == "db" \notin faults => MetInv /\ RoomInv /\ Fits

LEMMA MetStep ==
  ASSUME TypeOK, TypeOK', AbsentInv, [Next]_vars, "db" \notin faults, MetInv
  PROVE  MetInv'
<1> USE DEF MetInv, Reconciling
<1>1. pc # "rented" => LiveRows' \subseteq LiveRows
  BY LiveRowsStep
<1>2. ASSUME StartEvaluation PROVE MetInv'
  <2>1. LiveRows \subseteq Listed
    BY DEF LiveRows, Listed, HasStatus
  <2> QED
    BY <1>1, <1>2, <2>1 DEF StartEvaluation
<1>3. ASSUME Destroy \/ Finalize PROVE MetInv'
  BY <1>1, <1>3 DEF Destroy, Finalize
<1>4. ASSUME NEW i \in Id, ResumeTeardown(i) PROVE MetInv'
  <2>1. i \notin LiveRows
    BY <1>4 DEF ResumeTeardown, LiveRows, HasStatus, LiveStatus
  <2> QED
    BY <1>1, <1>4, <2>1 DEF ResumeTeardown
<1>5. ASSUME NEW i \in Id, NEW r \in [Id -> Row], NEW f \in FinalStatus, Teardown(r, i, f, "reconcile"),
             pc = "reconcile", todo' = todo \ {i}, live' = live
      PROVE  MetInv'
  <2>1. row' = Mark(r, i, f)
    BY <1>5 DEF Teardown
  <2>2. i \notin LiveRows'
    BY <1>5, <2>1 DEF Mark, LiveRows, HasStatus, LiveStatus, Row
  <2> QED
    BY <1>1, <1>5, <2>2
<1>6. ASSUME NEW i \in Id, ReconcileEnded(i) PROVE MetInv'
  BY <1>5, <1>6 DEF ReconcileEnded, FinalStatus, TypeOK
<1>7. ASSUME NEW i \in Id, ReconcileDead(i) PROVE MetInv'
  <2>1. PICK r \in [Id -> Row] : Teardown(r, i, "failed", "reconcile")
    BY <1>7, PromotedType DEF ReconcileDead
  <2> QED
    BY <1>5, <1>7, <2>1 DEF ReconcileDead, FinalStatus
<1>8. ASSUME NEW i \in Id, ReconcileLive(i) PROVE MetInv'
  BY <1>1, <1>8 DEF ReconcileLive
<1>9. ASSUME World PROVE MetInv'
  <2>1. LiveRows' = LiveRows
    BY <1>9, WorldStep DEF LiveRows, HasStatus
  <2>2. UNCHANGED <<live, todo, pc, back>>
    BY <1>9 DEF World, Deadline, MachineStarts, MachineDies, SetProtected, SwitchProvider, vars, local
  <2> QED
    BY <2>1, <2>2
<1>10. ASSUME NEW i \in Id, ScaleDown(i) PROVE MetInv'
  BY <1>10 DEF ScaleDown, Teardown
<1>11. ASSUME NEW i \in Id, Provision(i) PROVE MetInv'
  BY <1>11 DEF Provision
<1>12. ASSUME DecidePlan \/ Create \/ DestroyUntracked \/ EndEvaluation \/ OutOfIds \/ Crash
       PROVE  MetInv'
  BY <1>12 DEF DecidePlan, Create, DestroyUntracked, EndEvaluation, OutOfIds, Crash, AfterCreateError
<1> QED
  BY <1>2, <1>3, <1>4, <1>6, <1>7, <1>8, <1>9, <1>10, <1>11, <1>12 DEF Next, Evaluate, World

LEMMA RoomStep ==
  ASSUME TypeOK, TypeOK', AbsentInv, PlanInv, [Next]_vars, MetInv, RoomInv
  PROVE  RoomInv'
<1> USE InstancesAssumption DEF InstancesAssumption
<1> SUFFICES ASSUME pc' \in {"provision", "rented"}
             PROVE  Cardinality(LiveRows') + plan'.left <= MaxWorkers
  BY DEF RoomInv
<1>1. DecidePlan \/ Create \/ (\E i \in Id : Provision(i)) \/ World
  BY DEF Next, Evaluate, World, TypeOK, StartEvaluation, Destroy, Finalize,
    DestroyUntracked, EndEvaluation, OutOfIds, Crash, ResumeTeardown, ReconcileEnded, ReconcileDead,
    ReconcileLive, ScaleDown, Teardown
<1>2. plan.left \in Nat /\ plan'.left \in Nat
  BY DEF TypeOK
<1>3. CASE DecidePlan
  <2>1. LiveRows \subseteq live /\ live \subseteq Id
    BY <1>3 DEF DecidePlan, MetInv, Reconciling, TypeOK
  <2>2. Cardinality(LiveRows) <= Cardinality(live) /\ Cardinality(live) \in Nat
    BY <2>1, FS_Subset, LiveRowsFinite
  <2>3. plan'.left <= MaxWorkers - Cardinality(live)
    BY <1>3, <2>2 DEF DecidePlan, Room
  <2>4. Cardinality(LiveRows') <= Cardinality(LiveRows) /\ Cardinality(LiveRows') \in Nat
         /\ Cardinality(LiveRows) \in Nat
    BY <1>3, LiveRowsStep DEF DecidePlan
  <2> QED
    BY <1>2, <2>2, <2>3, <2>4
<1>4. CASE Create
  <2>1. pc = "rented" /\ plan'.left = plan.left - 1
    BY <1>4 DEF Create, AfterCreateError, TypeOK
  <2> QED
    BY <1>2, <2>1, LiveRowsStep DEF RoomInv
<1>5. ASSUME NEW i \in Id, Provision(i) PROVE Cardinality(LiveRows') + plan'.left <= MaxWorkers
  <2>1. pc = "provision" /\ plan' = plan
    BY <1>5 DEF Provision
  <2> QED
    BY <1>2, <2>1, LiveRowsStep DEF RoomInv
<1>6. CASE World
  <2>1. pc' = pc /\ plan' = plan /\ LiveRows' = LiveRows
    BY <1>6, WorldStep DEF LiveRows, HasStatus
  <2> QED
    BY <2>1 DEF RoomInv
<1> QED
  BY <1>1, <1>3, <1>4, <1>5, <1>6

LEMMA FitsStep ==
  ASSUME TypeOK, TypeOK', AbsentInv, PlanInv, [Next]_vars, RoomInv, Fits
  PROVE  Fits'
<1> USE InstancesAssumption DEF InstancesAssumption
<1>1. CASE pc = "rented"
  <2>1. Cardinality(LiveRows) + plan.left <= MaxWorkers /\ plan.left > 0 /\ plan.left \in Nat
    BY <1>1 DEF RoomInv, PlanInv, TypeOK
  <2> QED
    BY <2>1, LiveRowsStep DEF Fits
<1>2. CASE pc # "rented"
  BY <1>2, LiveRowsStep DEF Fits
<1> QED
  BY <1>1, <1>2

LEMMA CapacityInvariant == Spec => [](TypeOK /\ AbsentInv /\ PlanInv /\ CapacityInv)
<1>1. Init => CapacityInv
  <2> SUFFICES ASSUME Init PROVE CapacityInv
    OBVIOUS
  <2>1. LiveRows = {}
    BY DEF Init, LiveRows, HasStatus, NoRow, LiveStatus
  <2> QED
    BY <2>1, FS_EmptySet, InstancesAssumption
    DEF Init, CapacityInv, MetInv, Reconciling, RoomInv, Fits, InstancesAssumption
<1>2. TypeOK /\ TypeOK' /\ AbsentInv /\ PlanInv /\ CapacityInv /\ [Next]_vars => CapacityInv'
  BY MetStep, RoomStep, FitsStep, SameFaults DEF CapacityInv
<1> QED
  BY <1>1, <1>2, PlanInvariant, PTL DEF Spec

\* As long as the database answers, the rows that count as capacity stay within max_workers.
THEOREM WithinMaxWorkersTheorem == Spec => []WithinMaxWorkers
<1>1. CapacityInv => WithinMaxWorkers
  BY DEF CapacityInv, Fits, WithinMaxWorkers
<1> QED
  BY <1>1, CapacityInvariant, PTL

-----------------------------------------------------------------------------
(* The refinement of Rental *)

\* Rows that count or are being torn down name their machine.
PlacedInv == \A i \in Id : row[i].status \in LiveStatus \cup {"draining"} => row[i].placed

\* A machine is destroyed, and its row ended, only under a recorded intent.
TearingDown == pc \in {"destroying", "finalize"}
MarkedInv == TearingDown => row[cur].status = "draining"

\* What an evaluation found live, and what it is to scale down, still is: only the instance in
\* hand changes, and it has left both sets.
LiveHeld ==
  pc = "reconcile" \/ (TearingDown /\ back = "reconcile") =>
    \A i \in live : /\ row[i].status \in LiveStatus /\ i \notin todo
                    /\ TearingDown => i # cur
DestroyHeld ==
  pc = "scaledown" \/ (TearingDown /\ back = "scaledown") =>
    \A i \in plan.destroy : row[i].status \in LiveStatus /\ (TearingDown => i # cur)

HeldInv == PlacedInv /\ MarkedInv /\ LiveHeld /\ DestroyHeld

\* What a teardown does to the table: one live row starts draining, or nothing that counts.
SameBooks(j) ==
  /\ row'[j].placed = row[j].placed
  /\ \/ row'[j].status = row[j].status
     \/ row[j].status \in LiveStatus /\ row'[j].status \in LiveStatus

LEMMA TeardownBooks ==
  ASSUME TypeOK, NEW i \in Id, row[i].status \in LiveStatus, NEW answer,
         NEW r \in {row} \cup Promoted(i, answer), NEW f \in FinalStatus, NEW ret,
         Teardown(r, i, f, ret)
  PROVE  /\ \A j \in Id \ {i} : row'[j] = row[j]
         /\ row'[i].placed = row[i].placed
         /\ \/ /\ pc' = "destroying" /\ cur' = i /\ back' = ret
               /\ row'[i].status = "draining"
            \/ /\ pc' = ret /\ cur' = cur /\ back' = back
               /\ row'[i].status \in LiveStatus \cup {"draining"}
<1>1. r \in [Id -> Row] /\ row \in [Id -> Row]
  BY PromotedType DEF TypeOK
<1>2. /\ \A j \in Id \ {i} : r[j] = row[j]
      /\ r[i].placed = row[i].placed /\ r[i].status \in LiveStatus
  BY <1>1, RowUpdate DEF Promoted, Status, LiveStatus
<1>3. /\ \A j \in Id \ {i} : Mark(r, i, f)[j] = r[j]
      /\ Mark(r, i, f)[i].placed = r[i].placed /\ Mark(r, i, f)[i].status = "draining"
  BY <1>1 DEF Mark, Row
<1> QED
  BY <1>1, <1>2, <1>3, TeardownStep

LEMMA WorldHeld ==
  ASSUME TypeOK, HeldInv, World
  PROVE  HeldInv'
<1>1. UNCHANGED <<live, todo, pc, back, cur, plan>>
  BY DEF World, Deadline, MachineStarts, MachineDies, SetProtected, SwitchProvider, vars, local
<1>2. \A i \in Id : row'[i].status = row[i].status /\ row'[i].placed = row[i].placed
  BY WorldStep DEF SamePlaced
<1> QED
  BY <1>1, <1>2 DEF HeldInv, PlacedInv, MarkedInv, LiveHeld, DestroyHeld, TearingDown, TypeOK, OnOne

\* Every teardown, wherever it starts, keeps the books in order.
LEMMA TeardownHeld ==
  ASSUME TypeOK, TypeOK', HeldInv, NEW i \in Id, row[i].status \in LiveStatus, NEW answer,
         NEW r \in {row} \cup Promoted(i, answer), NEW f \in FinalStatus,
         NEW ret \in {"reconcile", "scaledown"}, pc = ret, Teardown(r, i, f, ret),
         live' = live, todo' = todo \/ todo' = todo \ {i},
         plan' = [plan EXCEPT !.destroy = @ \ {i}] \/ plan' = plan,
         ret = "reconcile" => i \in todo,
         ret = "scaledown" => i \notin plan'.destroy
  PROVE  HeldInv'
<1>1. /\ \A j \in Id \ {i} : row'[j] = row[j]
      /\ row'[i].placed = row[i].placed
      /\ \/ /\ pc' = "destroying" /\ cur' = i /\ back' = ret
            /\ row'[i].status = "draining"
         \/ /\ pc' = ret /\ cur' = cur /\ back' = back
            /\ row'[i].status \in LiveStatus \cup {"draining"}
  BY TeardownBooks
<1>2. PlacedInv'
  BY <1>1 DEF HeldInv, PlacedInv
<1>3. MarkedInv'
  BY <1>1 DEF MarkedInv, TearingDown
<1>4. LiveHeld'
  <2>1. CASE ret = "reconcile"
    <3>1. live \subseteq Id /\ i \notin live
      BY <2>1 DEF HeldInv, LiveHeld, TypeOK
    <3> QED
      BY <1>1, <2>1, <3>1 DEF HeldInv, LiveHeld, TearingDown
  <2>2. CASE ret = "scaledown"
    BY <1>1, <2>2 DEF LiveHeld, TearingDown
  <2> QED
    BY <2>1, <2>2
<1>5. DestroyHeld'
  <2>1. CASE ret = "scaledown"
    <3>1. plan'.destroy \subseteq plan.destroy /\ plan.destroy \subseteq Id
      BY DEF TypeOK
    <3>2. \A j \in plan'.destroy : j \in Id \ {i} /\ row[j].status \in LiveStatus
      BY <2>1, <3>1 DEF HeldInv, DestroyHeld
    <3> QED
      BY <1>1, <2>1, <3>2 DEF DestroyHeld, TearingDown
  <2>2. CASE ret = "reconcile"
    BY <1>1, <2>2 DEF DestroyHeld, TearingDown
  <2> QED
    BY <2>1, <2>2
<1> QED
  BY <1>2, <1>3, <1>4, <1>5 DEF HeldInv

LEMMA HeldStep ==
  ASSUME TypeOK, TypeOK', AbsentInv, HeldInv, [Next]_vars
  PROVE  HeldInv'
<1> USE DEF HeldInv
<1>1. ASSUME World PROVE HeldInv'
  BY <1>1, WorldHeld
<1>2. ASSUME NEW i \in Id, ReconcileEnded(i) PROVE HeldInv'
  <2>1. PICK f \in FinalStatus : Teardown(row, i, f, "reconcile")
    BY <1>2 DEF ReconcileEnded, FinalStatus
  <2> QED
    BY <1>2, <2>1, TeardownHeld DEF ReconcileEnded
<1>3. ASSUME NEW i \in Id, ReconcileDead(i) PROVE HeldInv'
  <2>1. PICK answer \in StatusOf(i) \ {"ended"} :
          \E r \in Promoted(i, answer) : Teardown(r, i, "failed", "reconcile")
    BY <1>3 DEF ReconcileDead
  <2> QED
    BY <1>3, <2>1, TeardownHeld DEF ReconcileDead, FinalStatus
<1>4. ASSUME NEW i \in Id, ScaleDown(i) PROVE HeldInv'
  <2>1. /\ row[i].status \in LiveStatus /\ pc = "scaledown" /\ i \notin plan'.destroy
        /\ plan' = [plan EXCEPT !.destroy = @ \ {i}]
        /\ live' = live /\ todo' = todo
    BY <1>4 DEF ScaleDown, DestroyHeld, TypeOK
  <2>2. CASE Teardown(row, i, "terminated", "scaledown")
    BY <2>1, <2>2, TeardownHeld DEF FinalStatus
  <2>3. CASE UNCHANGED <<row, pc, cur, back>>
    BY <2>1, <2>3 DEF PlacedInv, MarkedInv, LiveHeld, DestroyHeld, TearingDown, TypeOK
  <2> QED
    BY <1>4, <2>2, <2>3 DEF ScaleDown
<1>5. ASSUME StartEvaluation PROVE HeldInv'
  <2>1. \A x \in Row : /\ [x EXCEPT !.worker = TRUE].status = x.status
                       /\ [x EXCEPT !.worker = TRUE].placed = x.placed
    BY DEF Row
  <2>2. \A i \in Id : row'[i].status = row[i].status /\ row'[i].placed = row[i].placed
    BY <1>5, <2>1 DEF StartEvaluation, TypeOK
  <2> QED
    BY <1>5, <2>2 DEF StartEvaluation, PlacedInv, MarkedInv, LiveHeld, DestroyHeld, TearingDown
<1>6. ASSUME Destroy PROVE HeldInv'
  BY <1>6 DEF Destroy, PlacedInv, MarkedInv, LiveHeld, DestroyHeld, TearingDown
<1>7. ASSUME Finalize PROVE HeldInv'
  <2>1. pc = "finalize" /\ cur \in Id /\ UNCHANGED <<todo, live, plan, cur, back>> /\ pc' = back
    BY <1>7 DEF Finalize, TypeOK, OnOne
  <2>2. /\ \A i \in Id \ {cur} : row'[i] = row[i]
        /\ row'[cur].placed = row[cur].placed
        /\ row'[cur].status \in FinalStatus \cup {"draining"}
    <3>1. FinalOf(row[cur]) \in FinalStatus /\ row[cur].status = "draining"
      BY <2>1, FinalOfType DEF TypeOK, MarkedInv, TearingDown
    <3> QED
      BY <1>7, <2>1, <3>1, RowUpdate DEF Finalize, TypeOK, Status
  <2>3. PlacedInv'
    BY <2>1, <2>2 DEF PlacedInv, MarkedInv, TearingDown, FinalStatus, LiveStatus
  <2>4. LiveHeld' /\ DestroyHeld' /\ MarkedInv'
    BY <2>1, <2>2 DEF LiveHeld, DestroyHeld, MarkedInv, TearingDown, TypeOK
  <2> QED
    BY <2>3, <2>4
<1>8. ASSUME NEW i \in Id, ResumeTeardown(i) PROVE HeldInv'
  BY <1>8 DEF ResumeTeardown, store, PlacedInv, MarkedInv, LiveHeld, DestroyHeld, TearingDown,
    LiveStatus
<1>9. ASSUME NEW i \in Id, ReconcileLive(i) PROVE HeldInv'
  <2>1. /\ \A j \in Id \ {i} : row'[j] = row[j]
        /\ row'[i].placed = row[i].placed /\ row'[i].status \in LiveStatus
    BY <1>9, RowUpdate DEF ReconcileLive, Promoted, TypeOK, Status, LiveStatus
  <2>2. /\ pc = "reconcile" /\ row[i].status \in LiveStatus /\ todo' = todo \ {i}
        /\ live' = live \cup {i} /\ UNCHANGED <<pc, plan, cur, back>>
    BY <1>9 DEF ReconcileLive
  <2> QED
    BY <2>1, <2>2 DEF PlacedInv, MarkedInv, LiveHeld, DestroyHeld, TearingDown, TypeOK
<1>10. ASSUME DecidePlan PROVE HeldInv'
  BY <1>10 DEF DecidePlan, store, PlacedInv, MarkedInv, LiveHeld, DestroyHeld, TearingDown, TypeOK
<1>11. ASSUME NEW i \in Id, Provision(i) PROVE HeldInv'
  <2>1. \A j \in Id : /\ row'[j].placed = row[j].placed
                      /\ row'[j].status = row[j].status \/ row'[j].status = "failed"
    BY <1>11, RowUpdate DEF Provision, TypeOK, Status, FinalStatus
  <2> QED
    BY <1>11, <2>1 DEF Provision, PlacedInv, MarkedInv, LiveHeld, DestroyHeld, TearingDown,
      LiveStatus
<1>12. ASSUME Create PROVE HeldInv'
  <2>1. pc' \in {"provision", "idle", "cleanup"}
    BY <1>12 DEF Create, AfterCreateError
  <2>2. PlacedInv'
    BY <1>12, RowUpdate DEF Create, PlacedInv, TypeOK, OnOne
  <2> QED
    BY <2>1, <2>2 DEF MarkedInv, LiveHeld, DestroyHeld, TearingDown
<1>13. ASSUME DestroyUntracked \/ EndEvaluation \/ OutOfIds \/ Crash PROVE HeldInv'
  BY <1>13 DEF DestroyUntracked, EndEvaluation, OutOfIds, Crash, store, PlacedInv, MarkedInv,
    LiveHeld, DestroyHeld, TearingDown
<1> QED
  BY <1>1, <1>2, <1>3, <1>4, <1>5, <1>6, <1>7, <1>8, <1>9, <1>10, <1>11, <1>12, <1>13
  DEF Next, Evaluate, World

LEMMA GivenMeans ==
  /\ "OneProvider" \in Given <=> NoSwitch
  /\ "NoAccident" \in Given <=> NoAccident
  /\ "BooksAnswer" \in Given <=> "db" \notin faults
  BY DEF Given, NoSwitch

LEMMA EntryIs ==
  ASSUME NEW i \in Id
  PROVE  /\ Books[i] = Entry(i)
         /\ Entry(i) = "none" <=> ~row[i].placed
         /\ Entry(i) = "open" <=> row[i].placed /\ row[i].status \in LiveStatus
         /\ row[i].placed /\ row[i].status = "draining" => Entry(i) = "closing"
         /\ row[i].placed /\ row[i].status \in FinalStatus => Entry(i) = "closed"
  BY DEF Books, Entry, LiveStatus, FinalStatus

LEMMA OpenIsLive ==
  ASSUME PlacedInv
  PROVE  R!Open = LiveRows
<1>1. \A i \in Id : Books[i] = "open" <=> row[i].status \in LiveStatus
  BY EntryIs DEF PlacedInv
<1> QED
  BY <1>1 DEF R!Open, LiveRows, HasStatus

LEMMA SameCardinality ==
  ASSUME NEW S
  PROVE  R!Cardinality(S) = Cardinality(S)
  BY DEF R!Cardinality, R!IsFiniteSet, Cardinality, IsFiniteSet

\* Rows that neither begin nor end a stage leave the books as they are.
LEMMA SameBooksStep ==
  ASSUME \A j \in Id : SameBooks(j)
  PROVE  Books' = Books
  BY DEF SameBooks, Books, Entry, LiveStatus

\* One row changes: so does one entry of the books.
LEMMA BooksStep ==
  ASSUME NEW i \in Id, \A j \in Id \ {i} : row'[j] = row[j]
  PROVE  Books' = [Books EXCEPT ![i] = Entry(i)']
<1>1. \A j \in Id \ {i} : Entry(j)' = Entry(j)
  BY DEF Entry
<1> QED
  BY <1>1 DEF Books

LEMMA TeardownRefines ==
  ASSUME TypeOK, PlacedInv, NEW i \in Id, row[i].status \in LiveStatus, NEW answer,
         NEW r \in {row} \cup Promoted(i, answer), NEW f \in FinalStatus,
         NEW ret \in {"reconcile", "scaledown"}, pc = ret, Teardown(r, i, f, ret),
         UNCHANGED <<machine, Given>>
  PROVE  R!Next \/ UNCHANGED R!vars
<1>0. row[i].placed
  BY DEF PlacedInv
<1>1. /\ \A j \in Id \ {i} : row'[j] = row[j]
      /\ row'[i].placed = row[i].placed
      /\ row'[i].status \in LiveStatus \cup {"draining"}
      /\ pc' = "destroying" \/ pc' = ret
  BY TeardownBooks
<1>2. InHand' = InHand /\ RentedIds' = RentedIds
  BY <1>1 DEF InHand, RentedIds, Rented
<1>3. Books' = [Books EXCEPT ![i] = Entry(i)'] /\ Books[i] = "open"
  BY <1>0, <1>1, BooksStep, EntryIs
<1>4. CASE row'[i].status \in LiveStatus
  <2>1. \A j \in Id : SameBooks(j)
    BY <1>1, <1>4 DEF SameBooks
  <2> QED
    BY <1>2, <2>1, SameBooksStep DEF R!vars
<1>5. CASE row'[i].status = "draining"
  <2>1. Entry(i)' = "closing"
    BY <1>0, <1>1, <1>5 DEF Entry, LiveStatus
  <2> QED
    BY <1>2, <1>3, <2>1 DEF R!Next, R!Close
<1> QED
  BY <1>1, <1>4, <1>5

LEMMA RentalStep ==
  ASSUME TypeOK, TypeOK', AbsentInv, FinalInv, TrackInv, PlanInv, CapacityInv, HeldInv, [Next]_vars
  PROVE  R!Next \/ UNCHANGED R!vars
<1> DEFINE Refined == R!Next \/ UNCHANGED R!vars
<1>0. Given' = Given
  BY SameFaults DEF Given, NoAccident
<1>1. ASSUME \A j \in Id : SameBooks(j), RentedIds' = RentedIds, InHand' = InHand PROVE Refined
  BY <1>0, <1>1, SameBooksStep DEF R!vars
<1>2. ASSUME UNCHANGED row PROVE \A j \in Id : SameBooks(j)
  BY <1>2 DEF SameBooks
<1>3. ASSUME UNCHANGED machine PROVE RentedIds' = RentedIds
  BY <1>3 DEF RentedIds, Rented
<1>4. ASSUME World PROVE Refined
  <2>1. InHand' = InHand /\ \A j \in Id : SameBooks(j)
    BY <1>4, WorldStep DEF InHand, SameBooks, SamePlaced
  <2>2. RentedIds' = RentedIds
    BY <1>4 DEF World, Deadline, MachineStarts, MachineDies, SetProtected, SwitchProvider, vars, store,
      RentedIds, Rented, TypeOK
  <2> QED
    BY <1>1, <2>1, <2>2
<1>5. ASSUME StartEvaluation PROVE Refined
  <2>1. \A x \in Row : /\ [x EXCEPT !.worker = TRUE].status = x.status
                       /\ [x EXCEPT !.worker = TRUE].placed = x.placed
    BY DEF Row
  <2>2. \A j \in Id : SameBooks(j)
    BY <1>5, <2>1 DEF StartEvaluation, TypeOK, SameBooks
  <2> QED
    BY <1>1, <1>3, <1>5, <2>2 DEF StartEvaluation, InHand
<1>6. ASSUME DecidePlan \/ EndEvaluation \/ OutOfIds \/ (\E i \in Id : ResumeTeardown(i)) PROVE Refined
  BY <1>1, <1>2, <1>3, <1>6 DEF DecidePlan, EndEvaluation, OutOfIds, ResumeTeardown, InHand, store
<1>7. ASSUME NEW i \in Id, ReconcileEnded(i) PROVE Refined
  <2>1. PICK f \in FinalStatus : Teardown(row, i, f, "reconcile")
    BY <1>7 DEF ReconcileEnded, FinalStatus
  <2> QED
    BY <1>0, <1>7, <2>1, TeardownRefines DEF ReconcileEnded, HeldInv
<1>8. ASSUME NEW i \in Id, ReconcileDead(i) PROVE Refined
  <2>1. PICK answer \in StatusOf(i) \ {"ended"} :
          \E r \in Promoted(i, answer) : Teardown(r, i, "failed", "reconcile")
    BY <1>8 DEF ReconcileDead
  <2> QED
    BY <1>0, <1>8, <2>1, TeardownRefines DEF ReconcileDead, FinalStatus, HeldInv
<1>9. ASSUME NEW i \in Id, ScaleDown(i) PROVE Refined
  <2>1. row[i].status \in LiveStatus /\ pc = "scaledown" /\ UNCHANGED machine
    BY <1>9 DEF ScaleDown, HeldInv, DestroyHeld
  <2>2. CASE Teardown(row, i, "terminated", "scaledown")
    BY <1>0, <2>1, <2>2, TeardownRefines DEF FinalStatus, HeldInv
  <2>3. CASE UNCHANGED <<row, pc, cur, back>>
    BY <1>1, <1>2, <1>3, <2>1, <2>3 DEF InHand
  <2> QED
    BY <1>9, <2>2, <2>3 DEF ScaleDown
<1>10. ASSUME NEW i \in Id, ReconcileLive(i) PROVE Refined
  <2>1. \A j \in Id : SameBooks(j)
    BY <1>10, RowUpdate DEF ReconcileLive, Promoted, TypeOK, Status, LiveStatus, SameBooks
  <2> QED
    BY <1>1, <1>3, <1>10, <2>1 DEF ReconcileLive, InHand
<1>11. ASSUME Destroy PROVE Refined
  <2>1. /\ cur \in Id /\ Books[cur] = "closing" /\ Books' = Books
        /\ InHand' = InHand
    BY <1>11 DEF Destroy, TypeOK, OnOne, HeldInv, PlacedInv, MarkedInv, TearingDown, Books, Entry,
      LiveStatus, InHand
  <2>2. machine' = machine \/ machine' = [machine EXCEPT ![cur] = "gone"]
    BY <1>11 DEF Destroy
  <2>3. RentedIds' = RentedIds \/ RentedIds' = RentedIds \ {cur}
    BY <2>1, <2>2 DEF RentedIds, Rented, TypeOK
  <2> QED
    BY <1>0, <2>1, <2>3 DEF R!Next, R!Return, R!vars
<1>12. ASSUME Finalize PROVE Refined
  <2>1. /\ cur \in Id /\ row[cur].status = "draining" /\ row[cur].placed
        /\ InHand' = InHand /\ RentedIds' = RentedIds
    BY <1>12 DEF Finalize, TypeOK, OnOne, HeldInv, PlacedInv, MarkedInv, TearingDown, InHand,
      RentedIds, Rented
  <2>2. CASE row' = row
    BY <1>1, <1>2, <2>1, <2>2
  <2>3. CASE row' = SetStatus(cur, FinalOf(row[cur]))
    <3>1. FinalOf(row[cur]) \in FinalStatus
      BY <2>1, FinalOfType DEF TypeOK
    <3>2. /\ \A j \in Id \ {cur} : row'[j] = row[j]
          /\ row'[cur].placed /\ row'[cur].status \in FinalStatus
      BY <2>1, <2>3, <3>1, RowUpdate DEF TypeOK, Status
    <3>3. Books[cur] = "closing" /\ Books' = [Books EXCEPT ![cur] = "closed"]
      <4>0. cur' = cur
        BY <1>12 DEF Finalize
      <4>1. Entry(cur) = "closing" /\ Entry(cur)' = "closed"
        BY <2>1, <3>2, <4>0 DEF Entry, LiveStatus, FinalStatus
      <4> QED
        BY <2>1, <3>2, <4>0, <4>1, BooksStep, EntryIs
    <3>4. "OneProvider" \in Given => cur \notin RentedIds
      BY <1>12, GivenMeans DEF Finalize, FinalInv, GoneInv, RentedIds, Rented
    <3> QED
      BY <1>0, <2>1, <3>3, <3>4 DEF R!Next, R!End
  <2> QED
    BY <1>12, <2>2, <2>3 DEF Finalize
<1>13. ASSUME NEW i \in Id, Provision(i) PROVE Refined
  <2>1. /\ row[i].status = "absent" /\ ~row[i].placed /\ machine[i] = "none"
        /\ InHand = NoId /\ Books[i] = "none" /\ i \notin RentedIds
    BY <1>13 DEF Provision, Fresh, AbsentInv, InHand, Books, Entry, RentedIds, Rented
  <2>2. \/ /\ machine' = [machine EXCEPT ![i] = "booting"]
           /\ (pc' = "rented" /\ cur' = i) \/ (pc' = "idle" /\ ~NoAccident)
        \/ UNCHANGED machine /\ pc' = "idle"
    BY <1>13 DEF Provision, Rent, NoAccident, Accident
  <2>3. \A j \in Id \ {i} : row'[j] = row[j]
    BY <1>13, RowUpdate DEF Provision, TypeOK, Status, FinalStatus
  <2>4. ~row'[i].placed
    BY <1>13, <2>1, RowUpdate DEF Provision, TypeOK, Status, FinalStatus
  <2>5. Books' = Books
    BY <2>1, <2>3, <2>4, BooksStep DEF Books, Entry
  <2>6. CASE /\ machine' = [machine EXCEPT ![i] = "booting"]
             /\ (pc' = "rented" /\ cur' = i) \/ (pc' = "idle" /\ ~NoAccident)
    <3>1. RentedIds' = RentedIds \cup {i}
      BY <2>6 DEF RentedIds, Rented, TypeOK
    <3>2. InHand' = i \/ (InHand' = NoId /\ "NoAccident" \notin Given)
      BY <2>6, GivenMeans DEF InHand
    <3> QED
      BY <1>0, <2>1, <2>5, <3>1, <3>2 DEF R!Next, R!Rent
  <2>7. CASE UNCHANGED machine /\ pc' = "idle"
    BY <1>0, <1>3, <2>1, <2>5, <2>7 DEF InHand, R!vars
  <2> QED
    BY <2>2, <2>6, <2>7
<1>14. ASSUME Create PROVE Refined
  <2>1. /\ cur \in Id /\ InHand = cur /\ cur' = cur /\ Books[cur] = "none"
        /\ row[cur].status = "absent" /\ RentedIds' = RentedIds
    BY <1>14 DEF Create, TypeOK, OnOne, InHand, AbsentInv, Books, Entry, RentedIds, Rented
  <2>2. InHand' \in {cur, NoId}
    BY <1>14, <2>1 DEF Create, AfterCreateError, InHand
  <2>3. CASE row' = Recorded(cur)
    <3>1. Books' = [Books EXCEPT ![cur] = "open"]
      <4>1. Entry(cur)' = "open" /\ \A j \in Id \ {cur} : row'[j] = row[j]
        BY <2>1, <2>3, RowUpdate DEF Entry, TypeOK, LiveStatus
      <4> QED
        BY <2>1, <4>1, BooksStep
    <3>2. "BooksAnswer" \in Given => R!Cardinality(R!Open) < MaxWorkers
      <4> SUFFICES ASSUME "BooksAnswer" \in Given PROVE Cardinality(R!Open) < MaxWorkers
        BY SameCardinality
      <4>1. R!Open = LiveRows /\ LiveRows \subseteq Id
        BY OpenIsLive DEF HeldInv, LiveRows, HasStatus
      <4>2. /\ Cardinality(LiveRows) + plan.left <= MaxWorkers /\ plan.left > 0
            /\ plan.left \in Nat /\ MaxWorkers \in Nat
        BY <1>14, GivenMeans, InstancesAssumption
        DEF Create, CapacityInv, RoomInv, PlanInv, TypeOK, InstancesAssumption
      <4>3. Cardinality(LiveRows) \in Nat
        BY <4>1, LiveRowsFinite
      <4> QED
        BY <4>1, <4>2, <4>3
    <3> QED
      BY <1>0, <2>1, <2>2, <3>1, <3>2 DEF R!Next, R!Enter
  <2>4. CASE row' = row /\ pc' = "cleanup"
    BY <1>1, <1>2, <2>1, <2>4 DEF InHand
  <2> QED
    BY <1>14, <2>3, <2>4 DEF Create, AfterCreateError
<1>15. ASSUME DestroyUntracked PROVE Refined
  <2>1. /\ cur \in Id /\ InHand = cur /\ InHand' = NoId /\ Books' = Books
    BY <1>15 DEF DestroyUntracked, TypeOK, OnOne, InHand, Books, Entry
  <2>2. CASE machine' = [machine EXCEPT ![cur] = "gone"]
    <3>1. RentedIds' = RentedIds \ {cur}
      BY <2>1, <2>2 DEF RentedIds, Rented, TypeOK
    <3> QED
      BY <1>0, <2>1, <3>1 DEF R!Next, R!GiveBack
  <2>3. CASE MayFail("provider") /\ UNCHANGED machine
    <3>1. "NoAccident" \notin Given
      BY <1>15, <2>3, GivenMeans DEF DestroyUntracked, MayFail, TrackInv, CleanupInv, NoAccident
    <3> QED
      BY <1>0, <1>3, <2>1, <2>3, <3>1 DEF R!Next, R!LetGo
  <2> QED
    BY <1>15, <2>2, <2>3 DEF DestroyUntracked
<1>16. ASSUME Crash PROVE Refined
  <2>1. /\ "NoAccident" \notin Given /\ InHand' = NoId /\ Books' = Books
        /\ RentedIds' = RentedIds
    BY <1>16, GivenMeans DEF Crash, NoAccident, Accident, InHand, Books, Entry, RentedIds, Rented, store
  <2>2. InHand = NoId \/ InHand \in Id
    BY DEF InHand, TypeOK, OnOne
  <2> QED
    BY <1>0, <2>1, <2>2 DEF R!Next, R!LetGo, R!vars
<1> QED
  BY <1>4, <1>5, <1>6, <1>7, <1>8, <1>9, <1>10, <1>11, <1>12, <1>13, <1>14, <1>15, <1>16
  DEF Next, Evaluate, World

\* Everything the proofs above establish, together.
LEMMA InstancesInvariant ==
  Spec => [](TypeOK /\ AbsentInv /\ FinalInv /\ TrackInv /\ PlanInv /\ CapacityInv /\ HeldInv)
<1>1. Init => HeldInv
  BY DEF Init, HeldInv, PlacedInv, MarkedInv, LiveHeld, DestroyHeld, TearingDown, NoRow, LiveStatus
<1>2. TypeOK /\ TypeOK' /\ AbsentInv /\ HeldInv /\ [Next]_vars => HeldInv'
  BY HeldStep
<1> QED
  BY <1>1, <1>2, TrackInvariant, CapacityInvariant, PTL DEF Spec

\* The autoscaler keeps the promise of Rental: it refines it.
THEOREM RentalTheorem == Spec => ImplementsRental
<1>1. Init => R!Init
  <2> SUFFICES ASSUME Init PROVE R!Init
    OBVIOUS
  <2>1. Books = [i \in Id |-> "none"]
    BY DEF Init, NoRow, Books, Entry
  <2>2. RentedIds = {} /\ InHand = NoId
    BY DEF Init, RentedIds, Rented, InHand
  <2>3. Given \subseteq R!Condition
    BY DEF Given, R!Condition
  <2> QED
    BY <2>1, <2>2, <2>3 DEF R!Init
<1> DEFINE Inv == TypeOK /\ AbsentInv /\ FinalInv /\ TrackInv /\ PlanInv /\ CapacityInv /\ HeldInv
<1>2. Inv /\ Inv' /\ [Next]_vars => [R!Next]_(R!vars)
  BY RentalStep
<1> QED
  BY <1>1, <1>2, InstancesInvariant, PTL DEF Spec, ImplementsRental, R!Spec
=============================================================================
