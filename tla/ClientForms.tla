----------------------------- MODULE ClientForms -----------------------------
(***************************************************************************)
(* The two forms of the web client that take several steps: the wizard     *)
(* that creates a subscription (CreateSubscriptionWizard, useWizard and    *)
(* its steps) and the bulk operation on the subscriptions selected in a    *)
(* list (SubscriptionsPage, BulkOperationModal).                           *)
(***************************************************************************)
EXTENDS Integers, FiniteSets

CONSTANT
  Rows      \* subscriptions of the list; products of the wizard

VARIABLES
  wizard,    \* the wizard
  creating,  \* createMutation: "none", "pending", "done"
  selected,  \* rows selected in the list
  bulk,      \* the bulk modal
  job,       \* the job it watches: "none", "sent", "running", "finished"
  submitted  \* the last submission of either form, and what it was to hold

formVars == <<wizard, creating, selected, bulk, job, submitted>>

-----------------------------------------------------------------------------
(* State. *)

WizardSteps == 0..4   \* customer, plan, products, configure, review
\* What is filled in; of the products, how many lines each has.
InitialData ==
  [customer |-> FALSE, plan |-> FALSE, products |-> [p \in Rows |-> 0],
   startDate |-> FALSE, expiryDate |-> FALSE]
WizardData ==
  [customer : BOOLEAN, plan : BOOLEAN, products : [Rows -> Nat],
   startDate : BOOLEAN, expiryDate : BOOLEAN]
NewWizard == [step |-> 0, data |-> InitialData]

\* Steps of the modal: it confirms, shows the conflicts, then the progress.
BulkSteps == {"closed", "confirm", "conflicts", "progress"}
NewBulk == [step |-> "closed", known |-> FALSE, conflicts |-> {}, skipped |-> {}]

NoSubmission == [form |-> "none"]

FormTypeOK ==
  /\ wizard \in [step : WizardSteps, data : WizardData]
  /\ creating \in {"none", "pending", "done"}
  /\ selected \subseteq Rows
  /\ bulk \in [step : BulkSteps, known : BOOLEAN, conflicts : SUBSET Rows,
               skipped : SUBSET Rows]
  /\ job \in {"none", "sent", "running", "finished"}
  /\ submitted.form \in {"none", "wizard", "bulk"}

FormInit ==
  /\ wizard = NewWizard
  /\ creating = "none"
  /\ selected = {}
  /\ bulk = NewBulk
  /\ job = "none"
  /\ submitted = NoSubmission

bulkVars == <<selected, bulk, job>>
wizardVars == <<wizard, creating>>

-----------------------------------------------------------------------------
(* The wizard. *)

SetData(data) == wizard' = [wizard EXCEPT !.data = data]
OnStep(n) == wizard.step = n /\ creating # "done"

CanProceed ==
  CASE wizard.step = 0 -> wizard.data.customer
    [] wizard.step = 1 -> wizard.data.plan
    [] wizard.step = 3 -> wizard.data.startDate /\ wizard.data.expiryDate
    [] OTHER -> TRUE

StepCustomer ==
  /\ OnStep(0)
  /\ SetData([wizard.data EXCEPT !.customer = TRUE])
  /\ UNCHANGED <<creating, submitted, bulkVars>>

\* A plan, or a template with its plan and its lines; a template may name no
\* plan, and a product in more than one line.
StepPlan ==
  /\ OnStep(1)
  /\ \/ SetData([wizard.data EXCEPT !.plan = TRUE])
     \/ \E plan \in BOOLEAN, lines \in [Rows -> 0..2] :
          SetData([wizard.data EXCEPT !.plan = plan, !.products = lines])
  /\ UNCHANGED <<creating, submitted, bulkVars>>

AddProduct(p) ==
  /\ OnStep(2)
  /\ wizard.data.products[p] = 0
  /\ SetData([wizard.data EXCEPT !.products[p] = 1])
  /\ UNCHANGED <<creating, submitted, bulkVars>>

\* All its lines are removed.
RemoveProduct(p) ==
  /\ OnStep(2)
  /\ SetData([wizard.data EXCEPT !.products[p] = 0])
  /\ UNCHANGED <<creating, submitted, bulkVars>>

\* A date is picked or emptied.
StepConfigure ==
  /\ OnStep(3)
  /\ \E start, expiry \in BOOLEAN :
       SetData([wizard.data EXCEPT !.startDate = start, !.expiryDate = expiry])
  /\ UNCHANGED <<creating, submitted, bulkVars>>

\* The button is disabled while the mutation runs, on whatever step.
Forward ==
  /\ wizard.step < 4 /\ CanProceed /\ creating = "none"
  /\ wizard' = [wizard EXCEPT !.step = @ + 1]
  /\ UNCHANGED <<creating, submitted, bulkVars>>

Back ==
  /\ wizard.step > 0 /\ creating # "done"
  /\ wizard' = [wizard EXCEPT !.step = @ - 1]
  /\ UNCHANGED <<creating, submitted, bulkVars>>

\* Faulty: the list of steps leads anywhere.
GoToStep_Ahead(i) ==
  /\ i # wizard.step /\ creating # "done"
  /\ wizard' = [wizard EXCEPT !.step = i]
  /\ UNCHANGED <<creating, submitted, bulkVars>>

\* The list of steps leads back only.
GoToStep(i) ==
  /\ i < wizard.step /\ creating # "done"
  /\ wizard' = [wizard EXCEPT !.step = i]
  /\ UNCHANGED <<creating, submitted, bulkVars>>

HandleComplete ==
  /\ OnStep(4)
  /\ creating = "none"
  /\ creating' = "pending"
  /\ submitted' = [form |-> "wizard", data |-> wizard.data]
  /\ UNCHANGED <<wizard, bulkVars>>

\* Created, the page is left for that of the new subscription; refused, the
\* wizard stays where it is by then.
CreateSettles ==
  /\ creating = "pending"
  /\ creating' \in {"done", "none"}
  /\ UNCHANGED <<wizard, submitted, bulkVars>>

-----------------------------------------------------------------------------
(* The selection and the bulk operation. *)

InList == bulk.step = "closed"

ToggleSelect(r) ==
  /\ InList
  /\ selected' = IF r \in selected THEN selected \ {r} ELSE selected \cup {r}
  /\ UNCHANGED <<bulk, job, submitted, wizardVars>>

\* The rows now on the page are selected, or all are unselected if as many
\* are selected as the page has, on whatever page they are.
ToggleSelectAll(shown) ==
  /\ InList
  /\ selected' = IF Cardinality(selected) = Cardinality(shown) THEN {} ELSE shown
  /\ UNCHANGED <<bulk, job, submitted, wizardVars>>

HandleBulkAction ==
  /\ InList
  /\ selected # {}
  /\ bulk' = [NewBulk EXCEPT !.step = "confirm"]
  /\ job' = "none"
  /\ UNCHANGED <<selected, submitted, wizardVars>>

HandleConfirm ==
  /\ bulk.step = "confirm"
  /\ bulk' = [bulk EXCEPT !.step = "conflicts"]
  /\ UNCHANGED <<selected, job, submitted, wizardVars>>

\* The server answers which of the selected rows conflict; until then, and if
\* it fails, none is known.
ConflictsArrive(found) ==
  /\ bulk.step = "conflicts"
  /\ found \subseteq selected
  /\ bulk' = [bulk EXCEPT !.known = TRUE, !.conflicts = found]
  /\ UNCHANGED <<selected, job, submitted, wizardVars>>

ToggleSkip(r) ==
  /\ bulk.step = "conflicts"
  /\ r \in bulk.conflicts
  /\ bulk' = [bulk EXCEPT !.skipped =
                IF r \in @ THEN @ \ {r} ELSE @ \cup {r}]
  /\ UNCHANGED <<selected, job, submitted, wizardVars>>

NonConflicted ==
  IF bulk.known THEN {r \in selected : r \notin bulk.conflicts \/ r \notin bulk.skipped}
                ELSE selected

HandleProceed ==
  /\ bulk.step = "conflicts"
  /\ NonConflicted # {}
  /\ bulk' = [bulk EXCEPT !.step = "progress"]
  /\ job' = "sent"
  /\ submitted' = [form |-> "bulk", ids |-> NonConflicted, selected |-> selected,
                   skipped |-> bulk.conflicts \cap bulk.skipped]
  /\ UNCHANGED <<selected, wizardVars>>

\* The request is answered with the number of the job, which is then polled
\* until it has completed or failed; refused, the modal has no job to watch.
JobProceeds ==
  /\ bulk.step = "progress"
  /\ \/ job = "sent" /\ job' \in {"none", "running"}
     \/ job = "running" /\ job' = "finished"
  /\ UNCHANGED <<selected, bulk, submitted, wizardVars>>

\* Escape, the backdrop, Cancel: before the job has finished the selection
\* stays.
CloseBulk ==
  /\ bulk.step # "closed"
  /\ bulk' = NewBulk
  /\ selected' = IF job = "finished" THEN {} ELSE selected
  /\ job' = "none"
  /\ UNCHANGED <<submitted, wizardVars>>

-----------------------------------------------------------------------------
\* Leaving the page loses what it held.
Abandon ==
  /\ wizard' = NewWizard /\ creating' = "none"
  /\ selected' = {} /\ bulk' = NewBulk /\ job' = "none"
  /\ UNCHANGED submitted

WizardNext ==
  \/ StepCustomer \/ StepPlan \/ StepConfigure \/ Forward \/ Back
  \/ \E p \in Rows : AddProduct(p) \/ RemoveProduct(p)
  \/ \E i \in WizardSteps : GoToStep(i)
  \/ HandleComplete \/ CreateSettles \/ Abandon

BulkNext ==
  \/ \E r \in Rows : ToggleSelect(r) \/ ToggleSkip(r)
  \/ \E shown \in SUBSET Rows : ToggleSelectAll(shown) \/ ConflictsArrive(shown)
  \/ HandleBulkAction \/ HandleConfirm \/ HandleProceed \/ JobProceeds
  \/ CloseBulk \/ Abandon

-----------------------------------------------------------------------------
(* Properties. *)

\* Whatever way the person took through the steps, back and forth, with
\* templates applied late and fields emptied again, what is submitted is
\* complete: a subscription has its customer, plan and dates; a bulk job has a
\* row, only selected ones, and none that was shown as skipped.
SubmittedIsChosen ==
  /\ submitted.form = "wizard" =>
       LET d == submitted.data
       IN d.customer /\ d.plan /\ d.startDate /\ d.expiryDate
  /\ submitted.form = "bulk" =>
       /\ submitted.ids # {}
       /\ submitted.ids \subseteq submitted.selected
       /\ submitted.ids \cap submitted.skipped = {}
=============================================================================
