------------------------------ MODULE VaultPage ------------------------------
(***************************************************************************)
(* The page of a vault: the poll behind it, the form that adds and edits   *)
(* entries whose values come back masked, and the dialog that deletes an   *)
(* entry or the vault.                                                     *)
(***************************************************************************)
EXTENDS Naturals

CONSTANTS
  Key,           \* keys of entries
  Asking,        \* requests for the vault that can be in flight at once
  MaxEntryForms  \* bound: entry forms opened

\* What the constants are assumed to be.
VaultPageAssumption == MaxEntryForms \in Nat

VARIABLES
  vaultStored,   \* the server's vault: whether it is there, and its entries
  showing,       \* the page is mounted
  vault,         \* the entries the page shows
  vaultLoad,     \* per slot, a request for the vault and its answer
  entryForm,     \* the form of an entry
  entrySave,     \* what a save has sent
  savedBy,       \* the load a successful save waits for, or "none"
  toDelete,      \* what the dialog asks to delete
  deleting,      \* the deletion in flight
  entryForms     \* entry forms opened so far

vars == <<vaultStored, showing, vault, vaultLoad, entryForm, entrySave, savedBy, toDelete, deleting, entryForms>>

\* Of an entry, its kind: the value is never shown in full.
Entries == [Key -> {"none", "plain", "secret"}]
NoEntries == [k \in Key |-> "none"]
Idle == [answer |-> "idle"]
Asked == [answer |-> "waiting", entries |-> NoEntries]
Load == [answer: {"waiting", "there", "error"}, entries: Entries]
\* The key is empty until it is typed; "default" is the kind the form was opened with.
Form == [open: BOOLEAN, mode: {"create", "edit"}, key: Key \cup {"empty"}, value: {"empty", "typed", "mask"},
         kind: {"plain", "secret"}, default: {"plain", "secret"}, toggled: BOOLEAN]
Nothing == [key |-> "none"]
Blank == [open |-> FALSE, mode |-> "create", key |-> "empty", value |-> "empty",
          kind |-> "secret", default |-> "secret", toggled |-> FALSE]
Target == Key \cup {"nothing", "vault"}

TypeOK ==
  /\ vaultStored \in [there: BOOLEAN, entries: Entries]
  /\ showing \in BOOLEAN /\ vault \in Entries
  /\ vaultLoad \in [Asking -> Load \cup {Idle}]
  /\ entryForm \in Form /\ entrySave \in Form \cup {Nothing}
  /\ savedBy \in Asking \cup {"none"}
  /\ toDelete \in Target /\ deleting \in Target
  /\ entryForms \in 0..MaxEntryForms

Init ==
  /\ vaultStored \in [there: {TRUE}, entries: Entries]
  /\ showing = TRUE /\ vault = NoEntries
  /\ \E s \in Asking : vaultLoad = [t \in Asking |-> IF t = s THEN Asked ELSE Idle]
  /\ entryForm = Blank /\ entrySave = Nothing /\ savedBy = "none"
  /\ toDelete = "nothing" /\ deleting = "nothing" /\ entryForms = 0

-----------------------------------------------------------------------------
(* Loading.                                                                 *)

\* mutant: the toggle stays as the form left it
MutReset(f) == [Blank EXCEPT !.mode = f.mode, !.kind = f.kind]
\* The effect of a closed form.
Reset(f) == [Blank EXCEPT !.mode = f.mode]

LoadData(s) ==
  /\ vaultLoad[s] = Idle
  /\ vaultLoad' = [vaultLoad EXCEPT ![s] = Asked]

\* The poll and the Live indicator.
Poll(s) ==
  /\ showing /\ LoadData(s)
  /\ UNCHANGED <<vaultStored, showing, vault, entryForm, entrySave, savedBy, toDelete, deleting, entryForms>>

\* A vault that is gone is an error like any other.
Serve(s) ==
  /\ vaultLoad[s].answer = "waiting"
  /\ \/ /\ vaultStored.there
        /\ vaultLoad' = [vaultLoad EXCEPT ![s] = [answer |-> "there", entries |-> vaultStored.entries]]
     \/ vaultLoad' = [vaultLoad EXCEPT ![s].answer = "error"]
  /\ UNCHANGED <<vaultStored, showing, vault, entryForm, entrySave, savedBy, toDelete, deleting, entryForms>>

\* An error keeps what is shown.  The save that waited for the load closes the form, also
\* when that is another one by now.
LoadArrives(s) ==
  /\ vaultLoad[s].answer \in {"there", "error"}
  /\ vaultLoad' = [vaultLoad EXCEPT ![s] = Idle]
  /\ vault' = IF vaultLoad[s].answer = "there" THEN vaultLoad[s].entries ELSE vault
  /\ IF savedBy = s THEN savedBy' = "none" /\ entryForm' = Reset(entryForm) ELSE UNCHANGED <<savedBy, entryForm>>
  /\ UNCHANGED <<vaultStored, showing, entrySave, toDelete, deleting, entryForms>>

-----------------------------------------------------------------------------
(* The form of an entry.                                                    *)

Click == showing /\ ~entryForm.open /\ toDelete = "nothing"
Saving == entrySave # Nothing \/ savedBy # "none"
FormOnly == UNCHANGED <<vaultStored, showing, vault, vaultLoad, entrySave, savedBy, toDelete, deleting>>

OpenAddEntry ==
  /\ Click
  /\ entryForms < MaxEntryForms /\ entryForms' = entryForms + 1
  /\ entryForm' = [entryForm EXCEPT !.open = TRUE, !.mode = "create"]
  /\ FormOnly

\* The entry as the page shows it: its flag fills the form, its masked value does not.
OpenEditEntry(k) ==
  /\ Click /\ vault[k] # "none"
  /\ entryForms < MaxEntryForms /\ entryForms' = entryForms + 1
  /\ entryForm' = [open |-> TRUE, mode |-> "edit", key |-> k, value |-> "empty",
                   kind |-> vault[k], default |-> vault[k], toggled |-> FALSE]
  /\ FormOnly

\* The inputs are disabled while a save is under way, the key also when editing.
TypeIn ==
  /\ entryForm.open /\ ~Saving
  /\ \/ \E k \in Key : entryForm.mode = "create" /\ entryForm' = [entryForm EXCEPT !.key = k]
     \/ entryForm' = [entryForm EXCEPT !.value = "typed"]
     \/ \E kind \in {"plain", "secret"} : entryForm' = [entryForm EXCEPT !.kind = kind, !.toggled = TRUE]
  /\ FormOnly /\ UNCHANGED entryForms

\* Escape, the backdrop and the cross work during a save as well.
Dismiss ==
  /\ entryForm.open /\ entryForm' = Reset(entryForm)
  /\ FormOnly /\ UNCHANGED entryForms

Submit ==
  /\ entryForm.open /\ ~Saving
  /\ entryForm.key # "empty" /\ entryForm.value # "empty"
  /\ entrySave' = entryForm
  /\ UNCHANGED <<vaultStored, showing, vault, vaultLoad, entryForm, savedBy, toDelete, deleting, entryForms>>

\* SetEntry: an entry is made or replaced, also by the form that adds one.
Set(k, kind) == vaultStored.there /\ vaultStored' = [vaultStored EXCEPT !.entries[k] = kind]

\* Kept, and the page loads again; or refused, or the answer is lost.
SaveAnswered(s) ==
  /\ entrySave # Nothing /\ entrySave' = Nothing
  /\ \/ Set(entrySave.key, entrySave.kind) /\ savedBy' = s /\ LoadData(s)
     \/ (Set(entrySave.key, entrySave.kind) \/ UNCHANGED vaultStored) /\ UNCHANGED <<savedBy, vaultLoad>>
  /\ UNCHANGED <<showing, vault, entryForm, toDelete, deleting, entryForms>>

-----------------------------------------------------------------------------
(* Deleting.                                                                *)

\* confirmDeleteEntry, confirmDeleteVault
AskDelete(t) ==
  /\ Click /\ t # "nothing" /\ t \in Key => vault[t] # "none"
  /\ toDelete' = t
  /\ UNCHANGED <<vaultStored, showing, vault, vaultLoad, entryForm, entrySave, savedBy, deleting, entryForms>>

Cancel ==
  /\ toDelete # "nothing" /\ toDelete' = "nothing"
  /\ UNCHANGED <<vaultStored, showing, vault, vaultLoad, entryForm, entrySave, savedBy, deleting, entryForms>>

\* One deletion in flight at a time here.
Confirm ==
  /\ toDelete # "nothing" /\ toDelete' = "nothing"
  /\ deleting = "nothing" /\ deleting' = toDelete
  /\ UNCHANGED <<vaultStored, showing, vault, vaultLoad, entryForm, entrySave, savedBy, entryForms>>

Removed(t) == IF t = "vault" THEN [there |-> FALSE, entries |-> NoEntries] ELSE [vaultStored EXCEPT !.entries[t] = "none"]

\* An entry deleted, the page loads again; the vault deleted, the list of vaults is opened,
\* from wherever the user is.
DeleteAnswered(s) ==
  /\ deleting # "nothing" /\ deleting' = "nothing"
  /\ \/ vaultStored' = Removed(deleting) /\ deleting # "vault" /\ LoadData(s) /\ UNCHANGED <<showing, entryForm>>
     \/ vaultStored' = Removed(deleting) /\ deleting = "vault" /\ showing' = FALSE
        /\ entryForm' = Blank /\ UNCHANGED vaultLoad
     \/ vaultStored' \in {vaultStored, Removed(deleting)} /\ UNCHANGED <<showing, entryForm, vaultLoad>>
  /\ UNCHANGED <<vault, entrySave, savedBy, toDelete, entryForms>>

\* onDestroy
Leave ==
  /\ Click
  /\ showing' = FALSE
  /\ UNCHANGED <<vaultStored, vault, vaultLoad, entryForm, entrySave, savedBy, toDelete, deleting, entryForms>>

\* Another administrator, or the command line.
ServerMoves ==
  /\ \/ \E t \in Key \cup {"vault"} : vaultStored' = Removed(t)
     \/ \E k \in Key, kind \in {"plain", "secret"} : Set(k, kind)
  /\ UNCHANGED <<showing, vault, vaultLoad, entryForm, entrySave, savedBy, toDelete, deleting, entryForms>>

Next ==
  \/ \E s \in Asking : Poll(s) \/ Serve(s) \/ LoadArrives(s) \/ SaveAnswered(s) \/ DeleteAnswered(s)
  \/ \E k \in Key : OpenEditEntry(k)
  \/ \E t \in Target : AskDelete(t)
  \/ OpenAddEntry \/ TypeIn \/ Dismiss \/ Submit \/ Cancel \/ Confirm \/ Leave
  \/ ServerMoves

Spec == Init /\ [][Next]_vars

-----------------------------------------------------------------------------
(* What is saved is what was typed: never the masked value the page shows, and secret       *)
(* unless the toggle was set or the entry edited was shown plain, whatever form was open    *)
(* before, was dismissed during a save, or was closed by the answer to it.                  *)
SavesWhatWasTyped ==
  entrySave # Nothing => entrySave.value = "typed" /\ (entrySave.kind = entrySave.default \/ entrySave.toggled)
=============================================================================
