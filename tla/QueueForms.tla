------------------------------ MODULE QueueForms ------------------------------
(***************************************************************************)
(* The form that creates and edits queues, and the two pages that open it: *)
(* the configuration is fetched before the form opens, the form can be     *)
(* dismissed and its page left while it saves, and the server keeps one    *)
(* deployment for all the sub-queues of a parent.                          *)
(***************************************************************************)
EXTENDS Naturals, FiniteSets

CONSTANTS
  Parent, Sub,   \* parent queues, and the names of their sub-queues
  Slot,          \* requests of a kind that can be in flight at once
  MaxOpens       \* bound: forms asked for

\* What the constants are assumed to be.
QueueFormsAssumption == "default" \in Sub /\ MaxOpens \in Nat

VARIABLES
  known,         \* the queues the server has: parent and sub-queue
  deployment,    \* per parent, the deployment the server holds, or "none"
  form,          \* the form, and what it holds
  fetching,      \* per slot, the queue whose configuration was asked for
  save,          \* per slot, a save in flight; here: the page that sent it is still shown
  pageShown,     \* the page on screen; each has a form and a flag of its own
  loading,       \* its queueConfigModalLoading
  opens          \* forms asked for so far

vars == <<known, deployment, form, fetching, save, pageShown, loading, opens>>

FullName == [parent: Parent, sub: Sub]
\* "code" stands for git URL and start command, "limits" for what the form keeps unseen.
Deployment == {"none", "bare", "limited"}
Mode == {"create", "subqueue", "edit"}
NoParent == "none"
\* selectedQueueConfig: what an edit form is filled from.
Config == [queue: FullName, deployment: Deployment]
NoConfig == [queue |-> "none"]
Blank == [open |-> FALSE, mode |-> "create", parent |-> NoParent, rows |-> {},
          code |-> FALSE, limits |-> FALSE, extras |-> FALSE, config |-> NoConfig]
Form == [open: BOOLEAN, mode: Mode, parent: Parent \cup {NoParent}, rows: SUBSET Sub,
         code: BOOLEAN, limits: BOOLEAN, extras: BOOLEAN, config: Config \cup {NoConfig}]
Idle == [kind |-> "idle"]
\* left: the rows not answered yet; failed: one of the others was not made, or not known to be.
Save == [kind: Mode, parent: Parent, left: SUBSET Sub, failed: BOOLEAN, deployed: Deployment, here: BOOLEAN]
Page == {"queues", "autoscaling"}

TypeOK ==
  /\ known \subseteq FullName
  /\ deployment \in [Parent -> Deployment]
  /\ form \in Form
  /\ fetching \in [Slot -> FullName \cup {Idle}]
  /\ save \in [Slot -> Save \cup {Idle}]
  /\ pageShown \in Page /\ loading \in BOOLEAN /\ opens \in 0..MaxOpens

Init ==
  /\ known \in SUBSET FullName
  /\ deployment \in [Parent -> {"none", "limited"}]
  /\ form = Blank
  /\ fetching = [s \in Slot |-> Idle] /\ save = [s \in Slot |-> Idle]
  /\ pageShown \in Page /\ loading = FALSE /\ opens = 0

Asked == opens < MaxOpens /\ opens' = opens + 1

-----------------------------------------------------------------------------
(* Opening and filling.                                                     *)

\* The button, or ?create=1 from the palette, also over an open form: nothing is reset.
OpenCreate ==
  /\ pageShown = "queues"
  /\ Asked
  /\ form' = [form EXCEPT !.open = TRUE, !.mode = IF @ = "edit" THEN "create" ELSE @, !.config = NoConfig]
  /\ UNCHANGED <<known, deployment, fetching, save, pageShown, loading>>

\* A row's edit button, while no form covers it.
AskEdit(s, q) ==
  /\ ~form.open /\ q \in known /\ fetching[s] = Idle
  /\ Asked
  /\ fetching' = [fetching EXCEPT ![s] = q]
  /\ UNCHANGED <<known, deployment, form, save, pageShown, loading>>

\* The effect that fills the form: what the configuration does not have stays as it was.
\* A deployment resets the alert overrides and, if it scales, the autoscaling; which of
\* them it has is left open.
Filled(f, q, d) ==
  {[f EXCEPT !.open = TRUE, !.mode = "edit", !.parent = q.parent,
             !.rows = IF q.sub # "default" THEN {q.sub} ELSE @,
             !.code = @ \/ d # "none",
             !.limits = IF d # "none" THEN d = "limited" ELSE @,
             !.extras = x,
             !.config = [queue |-> q, deployment |-> d]] :
     x \in IF d = "none" THEN {f.extras} ELSE BOOLEAN}

\* The configuration arrives, whatever form is open by now, or cannot be had.
EditArrives(s) ==
  /\ fetching[s] # Idle
  /\ fetching' = [fetching EXCEPT ![s] = Idle]
  /\ \/ fetching[s] \in known /\ form' \in Filled(form, fetching[s], deployment[fetching[s].parent])
     \/ UNCHANGED form
  /\ UNCHANGED <<known, deployment, save, pageShown, loading, opens>>

\* Inputs are disabled while a save is under way.
Types == form.open /\ ~loading /\ UNCHANGED <<known, deployment, fetching, save, pageShown, loading, opens>>

\* What is created, and its names; the name of a queue is fixed when editing.
TypeNames ==
  /\ Types
  /\ \E p \in Parent, rs \in SUBSET Sub, m \in Mode :
       /\ IF form.mode = "edit" THEN m = "edit" /\ p = form.parent ELSE m # "edit"
       /\ form' = [form EXCEPT !.mode = m, !.parent = p, !.rows = rs]

\* The rest is not shown for a sub-queue.
TypeCode == Types /\ form.mode # "subqueue" /\ form' = [form EXCEPT !.code = ~@]
\* Autoscaling and alert overrides.
TypeExtras == Types /\ form.mode # "subqueue" /\ form' = [form EXCEPT !.extras = ~@]

\* The effect reads the vault of a token that the configuration keeps in one: choosing
\* another vault fills the whole form again, and takes back what was typed.
TypeTokenVault ==
  /\ Types /\ form.mode = "edit" /\ form.config # NoConfig /\ form.config.deployment # "none"
  /\ form' \in Filled(form, form.config.queue, form.config.deployment)

\* Escape, the backdrop and the cross work during a save as well; closing resets the form.
Dismiss ==
  /\ form.open
  /\ form' = Blank
  /\ UNCHANGED <<known, deployment, fetching, save, pageShown, loading, opens>>

-----------------------------------------------------------------------------
(* Saving.                                                                  *)

DeploymentOf(f) == IF ~f.code \/ f.mode = "subqueue" THEN "none" ELSE IF f.limits THEN "limited" ELSE "bare"

\* handleSubmit: a new queue needs its code, overrides need a deployment to live in, a
\* sub-queue needs its one name and a parent that is offered.
Accepted(f) ==
  /\ f.parent # NoParent
  /\ f.mode = "create" => f.code
  /\ f.mode = "subqueue" => Cardinality(f.rows) = 1 /\ \E q \in known : q.parent = f.parent
  /\ f.extras /\ f.mode # "subqueue" => f.code

\* Creating sends every row; editing only the first.
RowsOf(f) ==
  LET rows == IF f.rows = {} THEN {"default"} ELSE f.rows
  IN IF f.mode = "edit" THEN {{r} : r \in rows} ELSE {rows}

\* mutant: the flag of the page is not looked at
MutCanSubmit == form.open
CanSubmit == form.open /\ ~loading

Submit(s) ==
  /\ CanSubmit /\ save[s] = Idle /\ Accepted(form)
  /\ \E rs \in RowsOf(form) :
       save' = [save EXCEPT ![s] = [kind |-> form.mode, parent |-> form.parent, left |-> rs,
                                    failed |-> FALSE, deployed |-> DeploymentOf(form), here |-> TRUE]]
  /\ loading' = TRUE
  /\ UNCHANGED <<known, deployment, form, fetching, pageShown, opens>>

\* Store.Save: the upsert of the parent replaces its deployment, also by none.
Saved(p, r, d) ==
  /\ known' = known \cup {[parent |-> p, sub |-> r]}
  /\ deployment' = [deployment EXCEPT ![p] = d]

\* A create is refused for a queue that exists, an update for one that does not.
Refused(sv, r) == ([parent |-> sv.parent, sub |-> r] \in known) # (sv.kind = "edit")

\* The next row: made; refused or not delivered; or made, and the answer lost.
SaveRow(s, r) ==
  /\ save[s] # Idle /\ r \in save[s].left
  /\ \E ok \in BOOLEAN :
       /\ save' = [save EXCEPT ![s].left = @ \ {r}, ![s].failed = @ \/ ~ok]
       /\ \/ ~Refused(save[s], r) /\ Saved(save[s].parent, r, save[s].deployed)
          \/ ~ok /\ UNCHANGED <<known, deployment>>
  /\ UNCHANGED <<form, fetching, pageShown, loading, opens>>

\* Creating several rows closes the form whatever failed; a failed edit or sub-queue
\* keeps it.  The form closed is the one open by now, if its page is still shown.
SaveEnds(s) ==
  /\ save[s] # Idle /\ save[s].left = {}
  /\ save' = [save EXCEPT ![s] = Idle]
  /\ IF save[s].here
       THEN /\ loading' = FALSE
            /\ form' = IF save[s].kind = "create" \/ ~save[s].failed THEN Blank ELSE form
       ELSE UNCHANGED <<loading, form>>
  /\ UNCHANGED <<known, deployment, fetching, pageShown, opens>>

\* The page is left for the other one, or to be mounted anew: form and flag start afresh,
\* and what is still in flight ends without them.
LeavePage ==
  /\ pageShown' \in Page
  /\ form' = Blank /\ loading' = FALSE
  /\ fetching' = [s \in Slot |-> Idle]
  /\ save' = [s \in Slot |-> IF save[s] = Idle THEN Idle ELSE [save[s] EXCEPT !.here = FALSE]]
  /\ UNCHANGED <<known, deployment, opens>>

\* confirmDelete of the queues page, here or in another tab.
DeleteQueue(q) ==
  /\ q \in known
  /\ known' = known \ {q}
  /\ UNCHANGED <<deployment, form, fetching, save, pageShown, loading, opens>>

Next ==
  \/ OpenCreate \/ TypeNames \/ TypeCode \/ TypeExtras \/ TypeTokenVault \/ Dismiss \/ LeavePage
  \/ \E s \in Slot, q \in FullName : AskEdit(s, q)
  \/ \E s \in Slot : EditArrives(s) \/ Submit(s) \/ SaveEnds(s)
  \/ \E s \in Slot, r \in Sub : SaveRow(s, r)
  \/ \E q \in FullName : DeleteQueue(q)

Spec == Init /\ [][Next]_vars

-----------------------------------------------------------------------------
(* The saves of one page never overlap, although its form can be dismissed and another one  *)
(* opened, filled and submitted while the first is saved; and the inputs are disabled for   *)
(* as long as one is under way, no longer.  (A save left behind with its page does not stop *)
(* one of the next page: the flag is new there.)                                            *)
Own(s) == save[s] # Idle /\ save[s].here
OneSavePerPage ==
  /\ \A s, t \in Slot : Own(s) /\ Own(t) => s = t
  /\ loading = \E s \in Slot : Own(s)

(* Adding a sub-queue leaves the deployment its parent has.                                 *)
SubQueueKeepsDeployment ==
  [][\A s \in Slot, r \in Sub : save[s] # Idle /\ save[s].kind = "subqueue" /\ SaveRow(s, r)
       => deployment' = deployment]_vars
=============================================================================
