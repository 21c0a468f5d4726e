------------------------------ MODULE AlertForm ------------------------------
(***************************************************************************)
(* The form of the alert settings: it is filled by every answer to a load, *)
(* whenever that arrives, and a save is followed by a load of its own.     *)
(***************************************************************************)
EXTENDS Naturals

CONSTANTS
  Loading,       \* loads that can be in flight at once
  MaxEdits       \* bound: times the form is typed into

\* What the constants are assumed to be.
AlertFormAssumption == MaxEdits \in Nat

VARIABLES
  alertStored,   \* the settings on the server
  alertForm,     \* what the form holds
  settingsLoaded,
  saved,         \* the settings the summary shows
  editing,
  settingsLoad,  \* per slot, a load in flight: "waiting", or what it was answered
  post,          \* the settings a save has sent and the server has not answered
  saveLoad,      \* the load a successful save waits for
  testing,
  edits          \* times typed so far

vars == <<alertStored, alertForm, settingsLoaded, saved, editing, settingsLoad, post, saveLoad, testing, edits>>

\* Settings that send somewhere, settings that do not, and emptySettings() of a page that
\* has loaded none, with what was typed over it.
Stored == {"off", "on"}
Settings == Stored \cup {"empty"}
\* The settings a form started from, and what they are now.
Filled == [from: Settings, settings: Settings]
Nothing == [from |-> "none"]

TypeOK ==
  /\ alertStored \in Settings
  /\ alertForm \in Filled /\ post \in Filled \cup {Nothing}
  /\ settingsLoaded \in BOOLEAN /\ editing \in BOOLEAN /\ testing \in BOOLEAN
  /\ saved \in Settings
  /\ settingsLoad \in [Loading -> Settings \cup {"idle", "waiting", "failed"}]
  /\ saveLoad \in {"none"} \cup Loading
  /\ edits \in 0..MaxEdits

\* onMount
Init ==
  /\ alertStored \in Stored
  /\ alertForm = [from |-> "empty", settings |-> "empty"]
  /\ settingsLoaded = FALSE /\ saved = "empty" /\ editing = FALSE
  /\ \E l \in Loading : settingsLoad = [k \in Loading |-> IF k = l THEN "waiting" ELSE "idle"]
  /\ post = Nothing /\ saveLoad = "none" /\ testing = FALSE /\ edits = 0

LoadSettings(l) ==
  /\ settingsLoad[l] = "idle"
  /\ settingsLoad' = [settingsLoad EXCEPT ![l] = "waiting"]

ServeLoad(l) ==
  /\ settingsLoad[l] = "waiting"
  /\ \E a \in {alertStored, "failed"} : settingsLoad' = [settingsLoad EXCEPT ![l] = a]
  /\ UNCHANGED <<alertStored, alertForm, settingsLoaded, saved, editing, post, saveLoad, testing, edits>>

\* The answer fills the form, typed into or not; a failed load changes nothing.  The save
\* that waited for it ends either way and folds the card.
LoadArrives(l) ==
  /\ settingsLoad[l] \notin {"idle", "waiting"}
  /\ IF settingsLoad[l] = "failed"
     THEN UNCHANGED <<alertForm, saved, settingsLoaded>>
     ELSE /\ alertForm' = [from |-> settingsLoad[l], settings |-> settingsLoad[l]]
          /\ saved' = settingsLoad[l]
          /\ settingsLoaded' = TRUE
  /\ settingsLoad' = [settingsLoad EXCEPT ![l] = "idle"]
  /\ IF saveLoad = l THEN saveLoad' = "none" /\ editing' = FALSE ELSE UNCHANGED <<saveLoad, editing>>
  /\ UNCHANGED <<alertStored, post, testing, edits>>

Saving == post # Nothing \/ saveLoad # "none"
Configured == saved = "on"
\* mutant: the form does not wait for the settings
MutShowForm == ~Configured \/ editing
ShowForm == settingsLoaded /\ (~Configured \/ editing)

Edit ==
  /\ settingsLoaded /\ Configured /\ ~editing
  /\ editing' = TRUE
  /\ UNCHANGED <<alertStored, alertForm, settingsLoaded, saved, settingsLoad, post, saveLoad, testing, edits>>

CancelEdit(l) ==
  /\ ShowForm /\ Configured /\ ~Saving
  /\ editing' = FALSE
  /\ LoadSettings(l)
  /\ UNCHANGED <<alertStored, alertForm, settingsLoaded, saved, post, saveLoad, testing, edits>>

TypeIn ==
  /\ ShowForm /\ ~Saving
  /\ edits < MaxEdits /\ edits' = edits + 1
  /\ \E s \in Stored : alertForm' = [alertForm EXCEPT !.settings = s]
  /\ UNCHANGED <<alertStored, settingsLoaded, saved, editing, settingsLoad, post, saveLoad, testing>>

\* handleTest: the form goes to the server and is not kept.
Test ==
  /\ settingsLoaded /\ ~Saving
  /\ testing' = ~testing
  /\ UNCHANGED <<alertStored, alertForm, settingsLoaded, saved, editing, settingsLoad, post, saveLoad, edits>>

\* buildSettings() reads the form now; the server keeps the whole of it.
Submit ==
  /\ ShowForm /\ ~Saving
  /\ post' = alertForm
  /\ UNCHANGED <<alertStored, alertForm, settingsLoaded, saved, editing, settingsLoad, saveLoad, testing, edits>>

\* The server keeps the settings and the page loads them; or it refuses, or the answer is lost.
SaveAnswered(l) ==
  /\ post # Nothing
  /\ post' = Nothing
  /\ \/ alertStored' = post.settings /\ saveLoad' = l /\ LoadSettings(l)
     \/ alertStored' \in {alertStored, post.settings} /\ UNCHANGED <<saveLoad, settingsLoad>>
  /\ UNCHANGED <<alertForm, settingsLoaded, saved, editing, testing, edits>>

Next ==
  \/ \E l \in Loading : ServeLoad(l) \/ LoadArrives(l) \/ CancelEdit(l) \/ SaveAnswered(l)
  \/ Edit \/ TypeIn \/ Test \/ Submit

Spec == Init /\ [][Next]_vars

-----------------------------------------------------------------------------
(* A save replaces all the settings; it never sends a form no load has filled, whatever     *)
(* loads fail or come late: what was not typed in is what the server once had.              *)
SavesWhatWasLoaded == post # Nothing => post.from \in Stored
=============================================================================
