------------------------------ MODULE ScalingPage ------------------------------
(***************************************************************************)
(* The autoscaling page: the store that lists instances and providers with *)
(* two requests per refresh, the poll that is armed once the provider      *)
(* types are known, the switch that protects an instance, and the form of  *)
(* a provider.                                                             *)
(***************************************************************************)
EXTENDS Naturals

CONSTANTS
  Refreshing,    \* refreshes that can be in flight at once
  MaxForms       \* bound: provider forms opened

\* What the constants are assumed to be.
ScalingPageAssumption == MaxForms \in Nat

VARIABLES
  guarded,       \* the instance is protected on the server
  shown,         \* what the store holds
  refresh,       \* per slot, a refresh in flight
  mounted,       \* the page is on screen
  scalePoll,     \* the poll is armed
  providerTypes, \* the types are "asked", "known" or "unknown"
  switching,     \* the protection a click asked for, or "none"
  providerForm,  \* the form of a provider
  forms          \* forms opened so far

vars == <<guarded, shown, refresh, mounted, scalePoll, providerTypes, switching, providerForm, forms>>
page == <<mounted, scalePoll, providerTypes, switching, providerForm, forms>>

\* A failed request leaves the list empty; "nothing" was shown before the first answer.
Shown == [rows: {"nothing", "empty", "list"}, guarded: BOOLEAN,
          error: {"none", "status", "providers"}, disabled: BOOLEAN]
Idle == [status |-> "idle"]
Refresh == [status: {"waiting", "ok", "error"}, guarded: BOOLEAN]
Fresh == [status |-> "waiting", guarded |-> FALSE]
\* "saving" names the refresh a successful save waits for.
Closed == [open |-> FALSE, mode |-> "create", typed |-> FALSE, saving |-> "no"]
ProviderForm == [open: BOOLEAN, mode: {"create", "edit"}, typed: BOOLEAN, saving: {"no", "sent"} \cup Refreshing]
Asks == {"none", "on", "off"}

TypeOK ==
  /\ guarded \in BOOLEAN
  /\ shown \in Shown
  /\ refresh \in [Refreshing -> Refresh \cup {Idle}]
  /\ mounted \in BOOLEAN /\ scalePoll \in BOOLEAN
  /\ providerTypes \in {"asked", "known", "unknown"}
  /\ switching \in Asks
  /\ providerForm \in ProviderForm
  /\ forms \in 0..MaxForms

\* onMount: the first refresh, and the provider types are asked for.
Init ==
  /\ guarded \in BOOLEAN
  /\ shown = [rows |-> "nothing", guarded |-> FALSE, error |-> "none", disabled |-> FALSE]
  /\ \E r \in Refreshing : refresh = [q \in Refreshing |-> IF q = r THEN Fresh ELSE Idle]
  /\ mounted = TRUE /\ scalePoll = FALSE /\ providerTypes = "asked"
  /\ switching = "none" /\ providerForm = Closed /\ forms = 0

-----------------------------------------------------------------------------
(* The store.                                                               *)

\* fetch() starts: the error of the one before is taken down.
Starts(r) ==
  /\ refresh[r] = Idle
  /\ refresh' = [refresh EXCEPT ![r] = Fresh]
  /\ shown' = [shown EXCEPT !.error = "none"]

\* The poll and the Live indicator.
Poll(r) ==
  /\ scalePoll
  /\ Starts(r)
  /\ UNCHANGED <<guarded, page>>

Answers == {[status |-> "ok", guarded |-> guarded], [Fresh EXCEPT !.status = "error"]}

\* The status is read, or is not; then the providers are asked for.
StatusRead(r) ==
  /\ refresh[r].status = "waiting"
  /\ \E a \in Answers : refresh' = [refresh EXCEPT ![r] = a]
  /\ UNCHANGED <<guarded, shown, page>>

\* mutant: the answer about providers takes down the error of the status
MutShownAfter(a, providers) ==
  [rows |-> IF a.status = "ok" THEN "list" ELSE "empty", guarded |-> a.guarded,
   error |-> IF providers = "error" THEN "providers" ELSE "none", disabled |-> providers = "disabled"]
\* One update shows both answers: a failed status empties the list and says so.
ShownAfter(a, providers) ==
  [rows |-> IF a.status = "ok" THEN "list" ELSE "empty",
   guarded |-> a.guarded,
   error |-> IF a.status = "error" THEN "status" ELSE IF providers = "error" THEN "providers" ELSE "none",
   disabled |-> providers = "disabled"]

\* The providers are read; the save that waited for this refresh closes the form.
ProvidersRead(r) ==
  /\ refresh[r].status \in {"ok", "error"}
  /\ \E providers \in {"ok", "disabled", "error"} : shown' = ShownAfter(refresh[r], providers)
  /\ refresh' = [refresh EXCEPT ![r] = Idle]
  /\ providerForm' = IF providerForm.saving = r THEN Closed ELSE providerForm
  /\ UNCHANGED <<guarded, mounted, scalePoll, providerTypes, switching, forms>>

-----------------------------------------------------------------------------
(* The page.                                                                *)

\* mutant: any form is filled again
MutRefilled(f) == [f EXCEPT !.typed = FALSE]
\* The form of a new provider is filled again: its effect reads the types.
Refilled(f) == IF f.open /\ f.mode = "create" THEN [f EXCEPT !.typed = FALSE] ELSE f

\* The poll is armed when the types are answered, also on a page that was left.
TypesArrive ==
  /\ providerTypes = "asked"
  /\ providerTypes' \in {"known", "unknown"}
  /\ scalePoll' = TRUE
  /\ providerForm' = Refilled(providerForm)
  /\ UNCHANGED <<guarded, shown, refresh, mounted, switching, forms>>

Leave ==
  /\ mounted /\ ~providerForm.open
  /\ mounted' = FALSE /\ scalePoll' = FALSE
  /\ UNCHANGED <<guarded, shown, refresh, providerTypes, switching, providerForm, forms>>

\* The click asks for the opposite of what is shown; one click at a time here.
ToggleProtect ==
  /\ mounted /\ shown.rows = "list" /\ switching = "none"
  /\ switching' = IF shown.guarded THEN "off" ELSE "on"
  /\ UNCHANGED <<guarded, shown, refresh, mounted, scalePoll, providerTypes, providerForm, forms>>

ProtectDone(r) ==
  /\ switching # "none" /\ switching' = "none"
  /\ \/ guarded' = (switching = "on") /\ Starts(r)
     \/ UNCHANGED <<guarded, shown, refresh>>
  /\ UNCHANGED <<mounted, scalePoll, providerTypes, providerForm, forms>>

-----------------------------------------------------------------------------
(* The form of a provider.                                                  *)

FormOnly == UNCHANGED <<guarded, shown, refresh, mounted, scalePoll, providerTypes, switching>>

\* Edit is offered on the row of a provider; the form keeps the provider of that moment.
OpenProvider(mode) ==
  /\ mounted /\ ~providerForm.open /\ ~shown.disabled
  /\ forms < MaxForms /\ forms' = forms + 1
  /\ mode = "edit" => shown.rows # "nothing"
  /\ providerForm' = [providerForm EXCEPT !.open = TRUE, !.mode = mode, !.typed = FALSE]
  /\ FormOnly

TypeIn ==
  /\ providerForm.open /\ providerForm.saving = "no"
  /\ providerForm' = [providerForm EXCEPT !.typed = TRUE]
  /\ FormOnly /\ UNCHANGED forms

DismissProvider ==
  /\ providerForm.open
  /\ providerForm' = [providerForm EXCEPT !.open = FALSE]
  /\ FormOnly /\ UNCHANGED forms

SubmitProvider ==
  /\ providerForm.open /\ providerForm.typed /\ providerForm.saving = "no"
  /\ providerForm' = [providerForm EXCEPT !.saving = "sent"]
  /\ FormOnly /\ UNCHANGED forms

\* Saved, the page is loaded again and the form waits for it; refused, it stays open.
ProviderSaved(r) ==
  /\ providerForm.saving = "sent"
  /\ \/ Starts(r) /\ providerForm' = [providerForm EXCEPT !.saving = r]
     \/ providerForm' = [providerForm EXCEPT !.saving = "no"] /\ UNCHANGED <<shown, refresh>>
  /\ UNCHANGED <<guarded, mounted, scalePoll, providerTypes, switching, forms>>

\* confirmDeleteProvider: deleted, the page is loaded again.
ProviderDeleted(r) ==
  /\ shown.rows # "nothing" /\ ~providerForm.open
  /\ Starts(r)
  /\ UNCHANGED <<guarded, page>>

\* Another tab protects the instance, or no longer.
ServerMoves ==
  /\ guarded' = ~guarded
  /\ UNCHANGED <<shown, refresh, page>>

Next ==
  \/ \E r \in Refreshing : Poll(r) \/ StatusRead(r) \/ ProvidersRead(r) \/ ProtectDone(r) \/ ProviderSaved(r)
  \/ \E r \in Refreshing : ProviderDeleted(r)
  \/ \E mode \in {"create", "edit"} : OpenProvider(mode)
  \/ TypesArrive \/ Leave \/ ToggleProtect
  \/ TypeIn \/ DismissProvider \/ SubmitProvider
  \/ ServerMoves

Spec == Init /\ [][Next]_vars

-----------------------------------------------------------------------------
(* With no refresh under way and no error on screen, the list is what the server answered:  *)
(* an empty one means that there are no instances, whatever failed or overlapped before.    *)
EmptyMeansNone ==
  (\A r \in Refreshing : refresh[r] = Idle) /\ shown.error = "none" => shown.rows # "empty"

(* What is typed into the form of an existing provider is not taken back by the polls and   *)
(* answers that go on behind it: it is there until the form closes.                         *)
EditKept ==
  [][providerForm.typed /\ providerForm.mode = "edit" /\ providerForm.open /\ providerForm'.open
       => providerForm'.typed]_vars
=============================================================================
