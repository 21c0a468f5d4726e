------------------------------ MODULE WorkerPage ------------------------------
(***************************************************************************)
(* The page of a worker: the stream of its log, opened again by a timer    *)
(* when it breaks, and the commands sent to the worker.  The palette may   *)
(* name another worker while the page stays mounted.                       *)
(***************************************************************************)
EXTENDS Naturals

CONSTANTS
  Worker,
  MaxBreaks,     \* bound: streams that break
  Nobody         \* no worker

\* What the constants are assumed to be.
WorkerPageAssumption == MaxBreaks \in Nat /\ Nobody \notin Worker

VARIABLES
  workerId,      \* the worker the address names
  onPage,        \* the page is mounted
  listed,        \* the workers of the store
  eventSource,   \* the worker whose stream is open
  strays,        \* open streams that eventSource no longer names
  reconnects,    \* timers armed to open a stream
  logLines,      \* the workers whose lines are shown
  logsLoading,   \* the worker whose log was asked for
  confirming,    \* the worker shown when the command to confirm was chosen
  sending,       \* the worker a command is being sent to
  breaks         \* streams broken so far

vars == <<workerId, onPage, listed, eventSource, strays, reconnects, logLines, logsLoading, confirming, sending, breaks>>
log == <<eventSource, strays, reconnects, logLines, logsLoading, breaks>>

TypeOK ==
  /\ workerId \in Worker /\ onPage \in BOOLEAN
  /\ listed \subseteq Worker
  /\ eventSource \in Worker \cup {Nobody}
  /\ strays \in 0..MaxBreaks /\ reconnects \in 0..MaxBreaks /\ breaks \in 0..MaxBreaks
  /\ logLines \subseteq Worker
  /\ {logsLoading, confirming, sending} \subseteq Worker \cup {Nobody}

\* onMount: the workers and the log are asked for, and the stream is opened.
Init ==
  /\ workerId \in Worker /\ onPage = TRUE
  /\ listed = {}
  /\ eventSource = workerId /\ strays = 0 /\ reconnects = 0
  /\ logLines = {} /\ logsLoading = workerId
  /\ confirming = Nobody /\ sending = Nobody /\ breaks = 0

-----------------------------------------------------------------------------
(* The log.                                                                 *)

\* loadInitialLogs: what it brings replaces the lines the stream has added by now.
LogsArrive ==
  /\ logsLoading # Nobody
  /\ logsLoading' = Nobody
  /\ logLines' \in {logLines, {}, {logsLoading}}
  /\ UNCHANGED <<workerId, onPage, listed, eventSource, strays, reconnects, confirming, sending, breaks>>

LineArrives ==
  /\ onPage /\ eventSource # Nobody
  /\ logLines' = logLines \cup {eventSource}
  /\ UNCHANGED <<workerId, onPage, listed, eventSource, strays, reconnects, logsLoading, confirming, sending, breaks>>

\* mutant: the stream is not closed, and the browser opens it again by itself
MutStreamBreaks ==
  /\ eventSource # Nobody
  /\ breaks < MaxBreaks /\ breaks' = breaks + 1
  /\ reconnects' = reconnects + 1
  /\ UNCHANGED <<workerId, onPage, listed, eventSource, strays, logLines, logsLoading, confirming, sending>>
\* onerror: the stream is closed for good and a timer armed, on a page that was left too.
StreamBreaks ==
  /\ eventSource # Nobody
  /\ breaks < MaxBreaks /\ breaks' = breaks + 1
  /\ eventSource' = Nobody
  /\ reconnects' = reconnects + 1
  /\ UNCHANGED <<workerId, onPage, listed, strays, logLines, logsLoading, confirming, sending>>

\* connectSSE for the worker of this moment; a stream still open would be lost from sight.
Reconnect ==
  /\ reconnects > 0 /\ reconnects' = reconnects - 1
  /\ strays' = IF eventSource = Nobody THEN strays ELSE strays + 1
  /\ eventSource' = workerId
  /\ UNCHANGED <<workerId, onPage, listed, logLines, logsLoading, confirming, sending, breaks>>

-----------------------------------------------------------------------------
(* The workers and the commands.                                            *)

\* workersStore.fetch(): a failure keeps the list.
WorkersArrive ==
  /\ listed' \in SUBSET Worker
  /\ UNCHANGED <<workerId, onPage, log, confirming, sending>>

\* The palette, also over a dialog: the component, its stream and its lines stay.
OpenWorker(w) ==
  /\ onPage /\ w # workerId
  /\ workerId' = w
  /\ UNCHANGED <<onPage, listed, log, confirming, sending>>

\* onDestroy: the stream is closed, the timer is not.
Leave ==
  /\ onPage
  /\ onPage' = FALSE /\ eventSource' = Nobody /\ confirming' = Nobody
  /\ UNCHANGED <<workerId, listed, strays, reconnects, logLines, logsLoading, sending, breaks>>

CanControl == onPage /\ workerId \in listed /\ confirming = Nobody /\ sending = Nobody

\* Drain, code_update, worker_update
AskControl ==
  /\ CanControl
  /\ confirming' = workerId
  /\ UNCHANGED <<workerId, onPage, listed, log, sending>>

Cancel ==
  /\ confirming # Nobody /\ confirming' = Nobody
  /\ UNCHANGED <<workerId, onPage, listed, log, sending>>

\* The confirmed action, or resume and config_reload at once: the target is read now.
Control ==
  /\ CanControl \/ confirming # Nobody
  /\ confirming' = Nobody
  /\ sending' = workerId
  /\ UNCHANGED <<workerId, onPage, listed, log>>

ControlAnswered ==
  /\ sending # Nobody /\ sending' = Nobody
  /\ UNCHANGED <<workerId, onPage, listed, log, confirming>>

Next ==
  \/ LogsArrive \/ LineArrives \/ StreamBreaks \/ Reconnect
  \/ WorkersArrive \/ Leave \/ AskControl \/ Cancel \/ Control \/ ControlAnswered
  \/ \E w \in Worker : OpenWorker(w)

Spec == Init /\ [][Next]_vars

-----------------------------------------------------------------------------
(* A mounted page has one stream or one timer that will open it: it never loses its log for *)
(* good and never shows a line twice, however often the stream breaks.                      *)
OneStream ==
  onPage => strays + reconnects + (IF eventSource = Nobody THEN 0 ELSE 1) = 1
=============================================================================
