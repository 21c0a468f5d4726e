--------------------------- MODULE ScaleDownProofs --------------------------
(***************************************************************************)
(* No machine goes away under a task, for any instances, while commands    *)
(* may be lost and leaders replaced, as long as a worker has obeyed its    *)
(* last command and said so by the next poll; and the variables' types.    *)
(***************************************************************************)
EXTENDS ScaleDown, TLAPS

\* At most one command is on its way, and none to an instance whose turn is still to come.
Quiet(i) ==
  \/ pc # "idle" /\ i \in todo
  \/ pc = "removing" /\ i \notin removing
ChanInv(i) ==
  /\ chan[i] \in {<<>>, <<"drain">>, <<"resume">>}
  /\ Quiet(i) => chan[i] = <<>>

\* A worker last heard of as drained is idle and holds, unless it was resumed since and
\* no drain is to follow.
BeatInv(i) ==
  /\ beat[i].status # "none" /\ snap[i].status # "none"
  /\ beat[i].status = "drained" =>
       \/ held[i] /\ ~busy[i]
       \/ ~held[i] /\ chan[i] # <<"drain">> /\ ~(pc = "removing" /\ i \in todo)

\* What the evaluation read about a drained worker still holds when its turn comes.
SnapInv(i) ==
  pc = "removing" /\ i \in todo /\ snap[i].status = "drained" => held[i] /\ ~busy[i]

TodoInv == pc = "removing" => todo \subseteq removing
DrainInv == TodoInv /\ \A i \in up : ChanInv(i) /\ BeatInv(i) /\ SnapInv(i)

Shape ==
  /\ up \subseteq Inst /\ removing \subseteq Inst /\ todo \subseteq Inst
  /\ held \in [Inst -> BOOLEAN] /\ busy \in [Inst -> BOOLEAN]
  /\ DOMAIN beat = Inst /\ DOMAIN snap = Inst /\ DOMAIN chan = Inst

LEMMA ShapeStep ==
  ASSUME Shape, [Next]_vars
  PROVE  Shape'
<1> USE DEF Shape
<1>1. ASSUME NEW i \in Inst, Obey(i) \/ TakeTask(i) \/ FinishTask(i) \/ Heartbeat(i)
                              \/ FallSilent(i) \/ Restart(i)
      PROVE  Shape'
  BY <1>1 DEF Obey, TakeTask, FinishTask, Heartbeat, FallSilent, Restart, world, worker, local
<1>2. ASSUME NEW i \in Inst, Remove(i) \/ Resume(i) PROVE Shape'
  BY <1>2 DEF Remove, Resume, Publish, Teardown
<1>3. ASSUME Evaluate \/ StartResuming \/ EndEvaluation \/ LeaderChange \/ LoadChange \/ UNCHANGED vars
      PROVE  Shape'
  BY <1>3 DEF Evaluate, StartResuming, ToResume, EndEvaluation, LeaderChange, LoadChange, vars, world, worker, local
<1> QED
  BY <1>1, <1>2, <1>3 DEF Next, Leader

LEMMA OneCommand ==
  ASSUME NEW c \in {"drain", "resume"}
  PROVE  /\ Append(<<>>, c) = <<c>> /\ <<c>> # <<>>
         /\ Head(<<c>>) = c /\ Tail(<<c>>) = <<>>
         /\ <<"drain">> # <<"resume">>
  OBVIOUS

LEMMA DrainStep ==
  ASSUME Prompt, Shape, Shape', DrainInv, [Next]_vars
  PROVE  DrainInv'
<1> USE DEF Prompt, Shape, DrainInv, TodoInv, ChanInv, BeatInv, SnapInv, Quiet
<1>1. ASSUME Evaluate PROVE DrainInv'
  BY <1>1 DEF Evaluate, UpToDate, NoBeat, worker
<1>2. ASSUME NEW j \in Inst, Remove(j) PROVE DrainInv'
  <2>1. TodoInv'
    BY <1>2 DEF Remove
  <2>2. ASSUME NEW i \in up', i # j PROVE (ChanInv(i) /\ BeatInv(i) /\ SnapInv(i))'
    BY <1>2, <2>2 DEF Remove, Teardown, Publish
  <2>3. ASSUME j \in up' PROVE (ChanInv(j) /\ BeatInv(j) /\ SnapInv(j))'
    <3>1. chan'[j] \in {<<>>, <<"drain">>}
      BY <1>2, <2>3, OneCommand DEF Remove, Teardown, Publish
    <3>2. pc = "removing" /\ j \in up /\ j \in todo /\ j \in removing /\ j \notin todo' /\ pc' = "removing"
      BY <1>2, <2>3 DEF Remove, Teardown
    <3>3. UNCHANGED <<beat, snap, held, busy, removing>>
      BY <1>2 DEF Remove
    <3> QED
      BY <3>1, <3>2, <3>3
  <2> QED
    BY <2>1, <2>2, <2>3
<1>3. ASSUME StartResuming PROVE DrainInv'
  BY <1>3 DEF StartResuming, ToResume, worker
<1>4. ASSUME NEW j \in Inst, Resume(j) PROVE DrainInv'
  <2>1. ASSUME NEW i \in up', i # j PROVE (ChanInv(i) /\ BeatInv(i) /\ SnapInv(i))'
    BY <1>4, <2>1 DEF Resume, Publish
  <2>2. ASSUME j \in up' PROVE (ChanInv(j) /\ BeatInv(j) /\ SnapInv(j))'
    <3>1. chan'[j] \in {<<>>, <<"resume">>}
      BY <1>4, <2>2, OneCommand DEF Resume, Publish
    <3> QED
      BY <1>4, <2>2, <3>1 DEF Resume
  <2> QED
    BY <1>4, <2>1, <2>2 DEF Resume
<1>5. ASSUME EndEvaluation \/ LeaderChange \/ LoadChange \/ UNCHANGED vars PROVE DrainInv'
  BY <1>5 DEF EndEvaluation, LeaderChange, LoadChange, vars, world, worker, local
<1>6. ASSUME NEW j \in Inst, Obey(j) PROVE DrainInv'
  <2>1. ASSUME NEW i \in up', i # j PROVE (ChanInv(i) /\ BeatInv(i) /\ SnapInv(i))'
    BY <1>6, <2>1 DEF Obey, world, local
  <2>2. chan[j] \in {<<"drain">>, <<"resume">>} /\ chan'[j] = <<>> /\ j \in up /\ ~Quiet(j)
    BY <1>6, OneCommand DEF Obey
  <2>3. held'[j] = (chan[j] = <<"drain">>)
    BY <1>6, <2>2, OneCommand DEF Obey
  <2>4. (ChanInv(j) /\ BeatInv(j) /\ SnapInv(j))'
    BY <1>6, <2>2, <2>3, OneCommand DEF Obey, world, local
  <2> QED
    BY <1>6, <2>1, <2>4 DEF Obey, world, local
<1>7. ASSUME NEW j \in Inst, TakeTask(j) \/ FinishTask(j) PROVE DrainInv'
  BY <1>7 DEF TakeTask, FinishTask, world, local
<1>8. ASSUME NEW j \in Inst, Heartbeat(j) PROVE DrainInv'
  BY <1>8 DEF Heartbeat, Report, world, worker, local
<1> QED
  BY <1>1, <1>2, <1>3, <1>4, <1>5, <1>6, <1>7, <1>8 DEF Next, Leader, FallSilent, Restart

\* The faults are chosen once.
LEMMA SameFaults ==
  ASSUME [Next]_vars
  PROVE  faults' = faults
  BY DEF Next, Leader, Evaluate, StartResuming, EndEvaluation, LeaderChange, LoadChange, Remove,
    Resume, Obey, TakeTask, FinishTask, Heartbeat, FallSilent, Restart, world, vars

\* A drainable worker's machine goes away only once the worker is idle and holds.
THEOREM NoTaskKilledTheorem == Spec => NoTaskKilled
<1> DEFINE IInv == Shape /\ (Prompt => DrainInv)
<1>1. Init => IInv
  BY ScaleDownAssumption DEF Init, Shape, DrainInv, TodoInv, ChanInv, BeatInv, SnapInv, Quiet, FirstBeat
<1>2. IInv /\ [Next]_vars => IInv'
  BY ShapeStep, DrainStep, SameFaults DEF Prompt
<1>3. IInv /\ [Next]_vars => [Prompt => \A i \in Drainable \cap (up \ up') : ~busy[i] /\ held[i]]_vars
  <2> SUFFICES ASSUME Shape, Prompt, DrainInv, Next, NEW i \in Drainable \cap (up \ up')
               PROVE  ~busy[i] /\ held[i]
    OBVIOUS
  <2>1. Remove(i) /\ DestroyNow(i)
    BY DEF Prompt, Next, Leader, Evaluate, StartResuming, EndEvaluation, LeaderChange, LoadChange, Remove,
      Resume, Obey, TakeTask, FinishTask, Heartbeat, FallSilent, Restart, Teardown, world, worker, local
  <2> QED
    BY <2>1 DEF DrainInv, BeatInv, SnapInv, Remove, DestroyNow, Shape
<1> QED
  BY <1>1, <1>2, <1>3, PTL DEF Spec, NoTaskKilled

-----------------------------------------------------------------------------
(* Types: a channel never holds more commands than the bound *)

\* An instance whose turn is still to come is not torn down and has room for a command.
RoomInv ==
  /\ pc = "removing" => todo \subseteq removing
  /\ pc # "idle" => todo \subseteq up
  /\ \A i \in up : Quiet(i) => Len(chan[i]) < MaxQueue
TypeInv == TypeOK /\ RoomInv

Command == {"drain", "resume"}
Queues(q) == q \in [Inst -> Seq(Command)] /\ \A i \in Inst : Len(q[i]) <= MaxQueue

LEMMA CommandSeq ==
  ASSUME NEW q \in Seq(Command)
  PROVE  /\ Len(q) \in Nat
         /\ \A c \in Command : Append(q, c) \in Seq(Command) /\ Len(Append(q, c)) = Len(q) + 1
         /\ q # <<>> => Tail(q) \in Seq(Command) /\ Len(Tail(q)) = Len(q) - 1
OBVIOUS

\* What a command to one instance leaves on the channels.
LEMMA PublishRoom ==
  ASSUME TypeOK, NEW i \in Inst, NEW w, NEW c \in Command, Publish(i, w, c), Len(chan[i]) < MaxQueue
  PROVE  Queues(chan') /\ \A j \in Inst \ {i} : chan'[j] = chan[j]
<1>1. Queues(chan) /\ chan[i] \in Seq(Command) /\ MaxQueue \in Nat
  BY ScaleDownAssumption DEF TypeOK, Command, Queues
<1>2. /\ Append(chan[i], c) \in Seq(Command) /\ Len(Append(chan[i], c)) = Len(chan[i]) + 1
      /\ Len(chan[i]) \in Nat
  BY <1>1, CommandSeq
<1>3. CASE chan' = [chan EXCEPT ![i] = Append(@, c)]
  BY <1>1, <1>2, <1>3 DEF Queues
<1>4. CASE UNCHANGED chan
  BY <1>1, <1>4
<1> QED
  BY <1>3, <1>4 DEF Publish

LEMMA RemoveType ==
  ASSUME TypeInv, NEW i \in Inst, Remove(i)
  PROVE  TypeInv'
<1> USE DEF TypeInv
<1>1. /\ pc = "removing" /\ i \in todo /\ todo' = todo \ {i} /\ UNCHANGED <<pc, removing>>
      /\ i \in up /\ Len(chan[i]) < MaxQueue
  BY DEF Remove, RoomInv, Quiet
<1>2. Queues(chan') /\ \A j \in Inst \ {i} : chan'[j] = chan[j]
  <2>1. CASE UNCHANGED chan
    BY <2>1 DEF TypeOK, Command, Queues
  <2>2. CASE Publish(i, snap[i].id, "drain")
    BY <1>1, <2>2, PublishRoom DEF Command
  <2> QED
    BY <2>1, <2>2 DEF Remove, Teardown
<1>3. drainSent' \in [Inst -> WorkerId \cup {None}]
  <2>1. snap[i].id \in WorkerId \cup {None}
    BY DEF TypeOK, Beat
  <2> QED
    BY <2>1 DEF Remove, Asked, TypeOK
<1>4. up' = up \/ up' = up \ {i}
  BY DEF Remove, Teardown
<1>5. TypeOK'
  BY <1>1, <1>2, <1>3, <1>4 DEF Remove, TypeOK, world, Command, Queues
<1>6. RoomInv'
  BY <1>1, <1>2, <1>4 DEF RoomInv, Quiet, TypeOK
<1> QED
  BY <1>5, <1>6

LEMMA ResumeType ==
  ASSUME TypeInv, NEW i \in Inst, Resume(i)
  PROVE  TypeInv'
<1> USE DEF TypeInv
<1>1. /\ pc = "resuming" /\ i \in todo /\ todo' = todo \ {i} /\ UNCHANGED <<pc, removing, up>>
      /\ i \in up /\ Len(chan[i]) < MaxQueue
  BY DEF Resume, RoomInv, Quiet
<1>2. Queues(chan') /\ \A j \in Inst \ {i} : chan'[j] = chan[j]
  <2>1. CASE UNCHANGED chan
    BY <2>1 DEF TypeOK, Command, Queues
  <2>2. CASE Publish(i, drainSent[i], "resume")
    BY <1>1, <2>2, PublishRoom DEF Command
  <2> QED
    BY <2>1, <2>2 DEF Resume
<1>3. TypeOK'
  BY <1>1, <1>2 DEF Resume, TypeOK, world, Command, Queues
<1>4. RoomInv'
  BY <1>1, <1>2 DEF RoomInv, Quiet, TypeOK
<1> QED
  BY <1>3, <1>4

LEMMA EvaluationType ==
  ASSUME TypeInv, Evaluate \/ StartResuming \/ EndEvaluation \/ LeaderChange \/ LoadChange
  PROVE  TypeInv'
<1> USE DEF TypeInv, TypeOK, RoomInv, Quiet
<1>1. CASE Evaluate
  BY <1>1 DEF Evaluate, world, worker
<1>2. CASE StartResuming
  BY <1>2 DEF StartResuming, ToResume, world, worker
<1>3. CASE EndEvaluation
  BY <1>3 DEF EndEvaluation, world, worker
<1>4. CASE LeaderChange
  <2>1. leaders' \in 0..MaxLeaders
    BY <1>4, ScaleDownAssumption DEF LeaderChange
  <2> QED
    BY <1>4, <2>1 DEF LeaderChange, world, worker
<1>5. CASE LoadChange
  BY <1>5 DEF LoadChange, worker, local
<1> QED
  BY <1>1, <1>2, <1>3, <1>4, <1>5

LEMMA ObeyType ==
  ASSUME TypeInv, NEW i \in Inst, Obey(i)
  PROVE  TypeInv'
<1> USE DEF TypeInv
<1>1. chan[i] \in Seq(Command) /\ chan[i] # <<>> /\ MaxQueue \in Nat /\ Len(chan[i]) <= MaxQueue
  BY ScaleDownAssumption DEF TypeOK, Command, Obey
<1>2. Tail(chan[i]) \in Seq(Command) /\ Len(Tail(chan[i])) = Len(chan[i]) - 1 /\ Len(chan[i]) \in Nat
  BY <1>1, CommandSeq
<1>3. held' \in [Inst -> BOOLEAN]
  BY DEF Obey, TypeOK
<1>4. chan' = [chan EXCEPT ![i] = Tail(chan[i])] /\ chan \in [Inst -> Seq(Command)]
  BY DEF Obey, TypeOK, Command
<1>5. Queues(chan')
  BY <1>1, <1>2, <1>4 DEF Queues, TypeOK
<1>6. TypeOK'
  BY <1>3, <1>5 DEF Obey, TypeOK, world, local, Queues, Command
<1>7. RoomInv'
  BY <1>1, <1>2, <1>4 DEF Obey, RoomInv, Quiet, TypeOK, local
<1> QED
  BY <1>6, <1>7

LEMMA WorkerType ==
  ASSUME TypeInv, NEW i \in Inst,
         TakeTask(i) \/ FinishTask(i) \/ Heartbeat(i) \/ FallSilent(i) \/ Restart(i)
  PROVE  TypeInv'
<1> USE DEF TypeInv, TypeOK, RoomInv, Quiet
<1>1. CASE TakeTask(i) \/ FinishTask(i)
  BY <1>1 DEF TakeTask, FinishTask, world, local
<1>2. CASE Heartbeat(i)
  <2>1. Report(i) \in Beat
    BY DEF Report, Beat
  <2> QED
    BY <1>2, <2>1 DEF Heartbeat, world, worker, local
<1>3. CASE FallSilent(i)
  <2>1. NoBeat \in Beat
    BY DEF NoBeat, Beat
  <2> QED
    BY <1>3, <2>1 DEF FallSilent, world, worker, local
<1>4. CASE Restart(i)
  <2>1. MaxRestarts \in Nat /\ MaxQueue \in Nat \ {0}
    BY ScaleDownAssumption
  <2>2. <<>> \in Seq(Command) /\ Len(<<>>) = 0
    OBVIOUS
  <2>3. id' \in [Inst -> WorkerId]
    BY <1>4, <2>1 DEF Restart, WorkerId
  <2>4. chan' = [chan EXCEPT ![i] = <<>>] /\ chan \in [Inst -> Seq(Command)]
    BY <1>4 DEF Restart, Command
  <2>5. Queues(chan')
    BY <2>1, <2>2, <2>4 DEF Queues
  <2>6. TypeOK'
    BY <1>4, <2>3, <2>5 DEF Restart, world, local, Queues, Command
  <2>7. RoomInv'
    BY <1>4, <2>1, <2>2, <2>4 DEF Restart, local
  <2> QED
    BY <2>6, <2>7
<1> QED
  BY <1>1, <1>2, <1>3, <1>4

\* Every variable keeps its type, whatever the faults.  In particular no channel holds more
\* than MaxQueue commands, though only Evaluate looks: scaleDown sends one per instance.
THEOREM TypeTheorem == Spec => []TypeOK
<1>1. Init => TypeInv
  <2> SUFFICES ASSUME Init PROVE TypeInv
    OBVIOUS
  <2>1. FirstBeat \in Beat /\ 0 \in WorkerId /\ 0 \in 0..MaxLeaders
    BY ScaleDownAssumption DEF FirstBeat, Beat, WorkerId
  <2>2. <<>> \in Seq(Command) /\ Len(<<>>) = 0 /\ MaxQueue \in Nat \ {0}
    BY ScaleDownAssumption
  <2>3. PICK sc \in Scenarios : up = sc.fleet /\ faults = sc.faults
    BY DEF Init
  <2>4. up \subseteq Inst /\ faults \subseteq FaultKind
    BY <2>3, ScaleDownAssumption
  <2>5. TypeOK
    <3>1. chan \in [Inst -> Seq(Command)] /\ \A i \in Inst : Len(chan[i]) <= MaxQueue
      BY <2>2 DEF Init
    <3>2. beat \in [Inst -> Beat] /\ snap \in [Inst -> Beat]
      BY <2>1 DEF Init
    <3>3. id \in [Inst -> WorkerId] /\ drainSent \in [Inst -> WorkerId \cup {None}]
      BY <2>1 DEF Init
    <3> QED
      BY <2>1, <2>4, <3>1, <3>2, <3>3 DEF Init, TypeOK, Command
  <2>6. RoomInv
    BY <2>2, <2>4 DEF Init, RoomInv, Quiet
  <2> QED
    BY <2>5, <2>6 DEF TypeInv
<1>2. TypeInv /\ [Next]_vars => TypeInv'
  <2>1. CASE UNCHANGED vars
    BY <2>1 DEF vars, world, worker, local, TypeInv, TypeOK, RoomInv, Quiet
  <2> QED
    BY <2>1, RemoveType, ResumeType, EvaluationType, ObeyType, WorkerType DEF Next, Leader
<1> QED
  BY <1>1, <1>2, PTL DEF Spec, TypeInv
=============================================================================
