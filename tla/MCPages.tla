------------------------------ MODULE MCPages ------------------------------
(* The pages of the dashboard that show or change one thing: a task, a      *)
(* vault, a queue, the forms of queues, providers and alerts, a worker and  *)
(* the playground.  They have no state in common; the user opens one of     *)
(* those in Opened, and the others rest.                                    *)
EXTENDS TaskPage, TLC

CONSTANTS
  Opened,        \* the pages a run opens
  Key, Asking, MaxEntryForms,
  Queue, Tab, PagesOf, MaxVersion, MaxMoves, MaxBatches,
  Parent, Sub, MaxOpens,
  MaxForms, MaxEdits,
  Worker, Nobody, MaxBreaks,
  MaxSends

VARIABLES
  opened,
  vaultStored, showing, vault, vaultLoad, entryForm, entrySave, savedBy, toDelete, deleting, entryForms,
  stored, at, taskCounts, tasks, tableLoading, fetch, selectedIds, dialog, batch, pollInterval, steps, batches,
  known, deployment, form, fetching, save, pageShown, loading, opens,
  guarded, shown, refresh, mounted, scalePoll, providerTypes, switching, providerForm, forms,
  alertStored, alertForm, settingsLoaded, saved, editing, settingsLoad, post, saveLoad, testing, edits,
  workerId, onPage, listed, eventSource, strays, reconnects, logLines, logsLoading, confirming, sending, breaks,
  tasksOf, sent, waiting, sendingFlag, history, answered, tracked, poll

Keep == INSTANCE VaultPage
Live == INSTANCE QueuePage
Edit == INSTANCE QueueForms
Scale == INSTANCE ScalingPage WITH Refreshing <- Slot
Alert == INSTANCE AlertForm WITH Loading <- Slot
Work == INSTANCE WorkerPage
Play == INSTANCE Playground WITH Polling <- Slot

\* What each module assumes of its constants; a page is opened on some queue or worker.
ASSUME PagesAssumption ==
  /\ TaskPageAssumption /\ Keep!VaultPageAssumption
  /\ Live!QueuePageAssumption /\ Edit!QueueFormsAssumption /\ Scale!ScalingPageAssumption
  /\ Alert!AlertFormAssumption /\ Work!WorkerPageAssumption /\ Play!PlaygroundAssumption
  /\ Task # {} /\ Queue # {} /\ Worker # {}

\* For the configurations.  The second version of a queue is shorter in one tab and longer
\* in the other.
MCPagesOf ==
  (0 :> [t \in Tab |-> IF t = "pending" THEN 2 ELSE 1]) @@ (1 :> [t \in Tab |-> IF t = "active" THEN 2 ELSE 1])

keepVars == <<vaultStored, showing, vault, vaultLoad, entryForm, entrySave, savedBy, toDelete, deleting, entryForms>>
liveVars == <<stored, at, taskCounts, tasks, tableLoading, fetch, selectedIds, dialog, batch, pollInterval, steps, batches>>
editVars == <<known, deployment, form, fetching, save, pageShown, loading, opens>>
scaleVars == <<guarded, shown, refresh, mounted, scalePoll, providerTypes, switching, providerForm, forms>>
alertVars == <<alertStored, alertForm, settingsLoaded, saved, editing, settingsLoad, post, saveLoad, testing, edits>>
workVars == <<workerId, onPage, listed, eventSource, strays, reconnects, logLines, logsLoading, confirming, sending, breaks>>
playVars == <<tasksOf, sent, waiting, sendingFlag, history, answered, tracked, poll>>
pagesVars == <<opened, vars, keepVars, liveVars, editVars, scaleVars, alertVars, workVars, playVars>>

-----------------------------------------------------------------------------
(* Pages that are not opened hold one state: nothing armed, nothing in flight. *)

OneClosed ==
  /\ server = [t \in Task |-> [ver |-> 0, state |-> "gone"]] /\ taskId = CHOOSE t \in Task : TRUE
  /\ open = FALSE /\ generation = 0 /\ task = NoTask /\ notFound = FALSE /\ timer = FALSE
  /\ leaked = 0 /\ load = [s \in Slot |-> Idle] /\ act = None /\ clicks = 0

KeepClosed ==
  /\ vaultStored = [there |-> FALSE, entries |-> Keep!NoEntries] /\ showing = FALSE /\ vault = Keep!NoEntries
  /\ vaultLoad = [s \in Asking |-> Keep!Idle] /\ entryForm = Keep!Blank /\ entrySave = Keep!Nothing
  /\ savedBy = "none" /\ toDelete = "nothing" /\ deleting = "nothing" /\ entryForms = 0

LiveClosed ==
  /\ stored = 0 /\ at = [queue |-> CHOOSE q \in Queue : TRUE, tab |-> "active", page |-> 1]
  /\ taskCounts = 0 /\ tasks = {} /\ tableLoading = FALSE /\ fetch = [s \in Slot |-> Live!Idle]
  /\ selectedIds = {} /\ dialog = Live!NoDialog /\ batch = Live!NoBatch
  /\ pollInterval = FALSE /\ steps = MaxMoves /\ batches = 0

EditClosed ==
  /\ known = {} /\ deployment = [p \in Parent |-> "none"] /\ form = Edit!Blank
  /\ fetching = [s \in Slot |-> Edit!Idle] /\ save = [s \in Slot |-> Edit!Idle]
  /\ pageShown = "queues" /\ loading = FALSE /\ opens = 0

ScaleClosed ==
  /\ guarded = FALSE /\ shown = [rows |-> "nothing", guarded |-> FALSE, error |-> "none", disabled |-> FALSE]
  /\ refresh = [s \in Slot |-> Scale!Idle] /\ mounted = FALSE /\ scalePoll = FALSE /\ providerTypes = "unknown"
  /\ switching = "none" /\ providerForm = Scale!Closed /\ forms = 0

AlertClosed ==
  /\ alertStored = "off" /\ alertForm = [from |-> "empty", settings |-> "empty"] /\ settingsLoaded = FALSE
  /\ saved = "empty" /\ editing = FALSE /\ settingsLoad = [s \in Slot |-> "idle"] /\ post = Alert!Nothing
  /\ saveLoad = "none" /\ testing = FALSE /\ edits = 0

WorkClosed ==
  /\ workerId = (CHOOSE w \in Worker : TRUE) /\ onPage = FALSE /\ listed = {} /\ eventSource = Nobody
  /\ strays = 0 /\ reconnects = 0 /\ logLines = {} /\ logsLoading = Nobody
  /\ confirming = Nobody /\ sending = Nobody /\ breaks = 0

PlayClosed ==
  /\ tasksOf = [n \in 1..MaxSends |-> "none"] /\ sent = 0 /\ waiting = {} /\ sendingFlag = FALSE /\ history = FALSE
  /\ answered = 0 /\ tracked = Play!NoTask /\ poll = [p \in Slot |-> Play!Idle]

-----------------------------------------------------------------------------
\* Which queue is opened first makes no difference: they are alike.
LiveInit == Live!Init /\ at.queue = CHOOSE q \in Queue : TRUE

PagesInit ==
  /\ opened \in Opened
  /\ IF opened = "task" THEN Init ELSE OneClosed
  /\ IF opened = "vault" THEN Keep!Init ELSE KeepClosed
  /\ IF opened = "queue" THEN LiveInit ELSE LiveClosed
  /\ IF opened = "forms" THEN Edit!Init ELSE EditClosed
  /\ IF opened = "scaling" THEN Scale!Init ELSE ScaleClosed
  /\ IF opened = "alerts" THEN Alert!Init ELSE AlertClosed
  /\ IF opened = "worker" THEN Work!Init ELSE WorkClosed
  /\ IF opened = "playground" THEN Play!Init ELSE PlayClosed

PagesNext ==
  \/ /\ opened = "task" /\ Next
     /\ UNCHANGED <<opened, keepVars, liveVars, editVars, scaleVars, alertVars, workVars, playVars>>
  \/ /\ opened = "vault" /\ Keep!Next
     /\ UNCHANGED <<opened, vars, liveVars, editVars, scaleVars, alertVars, workVars, playVars>>
  \/ /\ opened = "queue" /\ Live!Next
     /\ UNCHANGED <<opened, vars, keepVars, editVars, scaleVars, alertVars, workVars, playVars>>
  \/ /\ opened = "forms" /\ Edit!Next
     /\ UNCHANGED <<opened, vars, keepVars, liveVars, scaleVars, alertVars, workVars, playVars>>
  \/ /\ opened = "scaling" /\ Scale!Next
     /\ UNCHANGED <<opened, vars, keepVars, liveVars, editVars, alertVars, workVars, playVars>>
  \/ /\ opened = "alerts" /\ Alert!Next
     /\ UNCHANGED <<opened, vars, keepVars, liveVars, editVars, scaleVars, workVars, playVars>>
  \/ /\ opened = "worker" /\ Work!Next
     /\ UNCHANGED <<opened, vars, keepVars, liveVars, editVars, scaleVars, alertVars, playVars>>
  \/ /\ opened = "playground" /\ Play!Next
     /\ UNCHANGED <<opened, vars, keepVars, liveVars, editVars, scaleVars, alertVars, workVars>>

\* Without fairness, with that of the page of a task, and with that of the page of a queue.
PagesSpec == PagesInit /\ [][PagesNext]_pagesVars
TaskSpec == PagesSpec /\ Fairness
QueueSpec == PagesSpec /\ Live!Fairness

(* The variables of every page keep their types.                                            *)
PagesTypeOK ==
  /\ TypeOK /\ Keep!TypeOK /\ Live!TypeOK /\ Edit!TypeOK
  /\ Scale!TypeOK /\ Alert!TypeOK /\ Work!TypeOK /\ Play!TypeOK

\* The properties of the pages, each stated in the module of its page.
SavesWhatWasTyped == Keep!SavesWhatWasTyped
DeletesWhatWasAsked == Live!DeletesWhatWasAsked
PageCatchesUp == Live!PageCatchesUp
OneSavePerPage == Edit!OneSavePerPage
EmptyMeansNone == Scale!EmptyMeansNone
EditKept == Scale!EditKept
SavesWhatWasLoaded == Alert!SavesWhatWasLoaded
OneStream == Work!OneStream
FollowsLastSend == Play!FollowsLastSend
=============================================================================
