------------------------------ MODULE MCDecide ------------------------------
(* Small policies and snapshots for Decide. Time runs in units of ten seconds. *)
EXTENDS Decide

CONSTANTS i1, i2, i3, qa, qb

MCInstance == {i1, i2, i3}
MCSubQueue == {qa, qb}
MCBusyGrace == 3
Now == 100

Up(trigger, subs, limit, workers, cron, duration) ==
  [trigger |-> trigger, subs |-> subs, limit |-> limit, workers |-> workers,
   cron |-> cron, duration |-> duration]

NoWorkers == Up("no_workers", {}, 0, 0, {}, 0)
Depth     == Up("queue_depth", {}, 2, 0, {}, 0)
DepthOfA  == Up("queue_depth", {qa}, 2, 0, {}, 0)
Slow      == Up("latency", {}, 5, 0, {}, 0)
Nightly   == Up("schedule", {}, 0, 2, {Now - 4}, 6)  \* fired 4 ago, holds for 6
Over      == Up("schedule", {}, 0, 4, {Now}, 0)      \* asks for more than any max below

MCPolicies ==
  {[min |-> lo, max |-> hi, up |-> up, downCron |-> dc, idle |-> idle] :
     lo \in {0, 1}, hi \in {1, 2, 3},
     up \in {{}, {NoWorkers, Depth}, {DepthOfA}, {Depth, Slow}, {NoWorkers, Slow, Nightly}, {Over, Depth}},
     dc \in {{}, {Now}, {Now - 3}}, idle \in {-1, 6}}

View(p, bo, bu, t) == [protected |-> p, booting |-> bo, busy |-> bu, lastActivity |-> t]
Kinds == {View(FALSE, FALSE, FALSE, Now - 2), View(FALSE, FALSE, FALSE, Now - 4),
          View(FALSE, FALSE, FALSE, Now - 9), View(FALSE, FALSE, TRUE, Now),
          View(FALSE, TRUE, FALSE, Now - 9), View(TRUE, FALSE, FALSE, Now - 9)}
Gone == View(FALSE, FALSE, FALSE, 0)

MCSnapshots ==
  {[now |-> Now, window |-> 3, totalWorkers |-> w, loads |-> [q \in MCSubQueue |-> l[q]],
    live |-> live, view |-> [i \in MCInstance |-> IF i \in live THEN v[i] ELSE Gone]] :
     w \in {0, 1}, live \in {{}, {i1}, {i1, i2}, {i1, i2, i3}}, v \in [MCInstance -> Kinds],
     l \in {[q \in MCSubQueue |-> [pending |-> 0, latency |-> 0]],
            [q \in MCSubQueue |-> [pending |-> IF q = qb THEN 3 ELSE 0, latency |-> 2]],
            [q \in MCSubQueue |-> [pending |-> 2, latency |-> IF q = qa THEN 6 ELSE 1]]}}
=============================================================================
