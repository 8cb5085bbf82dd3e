---------------------------- MODULE ClientProofs ----------------------------
(***************************************************************************)
(* Proofs about the screens of the web client, for all shapes of pages,    *)
(* all numbers of mutations under way and writes, and all rows.            *)
(***************************************************************************)
EXTENDS Client, TLAPS

\* The requests under way are not older than what the entry was told of.
ReadsAreFresh ==
  shape.clears /\ fetch.state = "read" => fetch.snap >= told

ScreenInv == ScrTypeOK /\ FreshHasOwnWrites /\ ReadsAreFresh

\* What the steps behind the present one have let pass stays filled in; no
\* conflict is known before the answer.
FilledIn ==
  /\ wizard.step >= 1 => wizard.data.customer
  /\ wizard.step >= 2 => wizard.data.plan
  /\ wizard.step >= 4 => wizard.data.startDate /\ wizard.data.expiryDate
  /\ ~bulk.known => bulk.conflicts = {}

FormInv == FormTypeOK /\ SubmittedIsChosen /\ FilledIn

CallsUpTo(n) ==
  [Calls -> [state : {"idle", "sent", "applied"}, version : 0..n, mine : BOOLEAN]]

-----------------------------------------------------------------------------
(* The dialog's mutations. *)

\* Orphaning changes only who is told.
LEMMA OrphanedType ==
  ASSUME NEW n \in Nat, NEW cs \in CallsUpTo(n)
  PROVE  Orphaned(cs) \in CallsUpTo(n)
BY DEF CallsUpTo, Orphaned

\* A step that ends in Remount leaves well-typed mutations.
LEMMA RemountType ==
  ASSUME NEW n \in Nat, NEW cs \in CallsUpTo(n), NEW lock \in BOOLEAN,
         Remount(cs, lock)
  PROVE  calls' \in CallsUpTo(n) /\ locked' \in BOOLEAN
<1>1. calls' \in CallsUpTo(n)
  BY OrphanedType DEF Remount
<1>2. locked' \in BOOLEAN
  BY DEF Remount
<1> QED
  BY <1>1, <1>2

\* A free slot is a call of any bound.
LEMMA NoCallType ==
  ASSUME NEW n \in Nat
  PROVE  NoCall \in [state : {"idle", "sent", "applied"}, version : 0..n, mine : BOOLEAN]
BY DEF NoCall

\* A mutation that has settled frees its slot.
LEMMA SettledType ==
  ASSUME NEW n \in Nat, NEW cs \in CallsUpTo(n), NEW c \in Calls
  PROVE  [cs EXCEPT ![c] = NoCall] \in CallsUpTo(n)
BY NoCallType DEF CallsUpTo

-----------------------------------------------------------------------------
(* The cache entry. *)

Entries(n) == [seen : NoData..n, marked : BOOLEAN, failed : BOOLEAN]
Fetches(n) == [state : {"none", "asked", "read"}, snap : 0..n]

\* A request that starts leaves the data of its entry and its mark as they are.
LEMMA StartedType ==
  ASSUME NEW n \in Nat, NEW e \in Entries(n)
  PROVE  /\ Started(e) \in Entries(n)
         /\ Started(e).seen = e.seen
         /\ Started(e).marked = e.marked
<1>1. (e.failed /\ e.seen # NoData) \in BOOLEAN
  OBVIOUS
<1> QED
  BY <1>1 DEF Started, Entries

\* Asking keeps what the entry shows and its mark.
LEMMA AskKeeps ==
  ASSUME NEW n \in Nat, entry \in Entries(n), fetch \in Fetches(n), Ask
  PROVE  /\ entry' \in Entries(n) /\ fetch' \in Fetches(n)
         /\ entry'.seen = entry.seen /\ entry'.marked = entry.marked
         /\ fetch'.state = "read" => fetch' = fetch
<1>1. CASE fetch.state = "none"
  BY <1>1, StartedType DEF Ask, Asking, Fetches
<1>2. CASE fetch.state # "none"
  BY <1>2 DEF Ask
<1> QED
  BY <1>1, <1>2

\* Invalidating marks the entry, and on screen drops what was read before.
LEMMA InvalidateMarks ==
  ASSUME NEW n \in Nat, entry \in Entries(n), fetch \in Fetches(n), Invalidate
  PROVE  /\ entry' \in Entries(n) /\ fetch' \in Fetches(n)
         /\ shape.clears => entry'.marked
         /\ shape.clears /\ view = "here" /\ entry.seen # NoData
              => fetch'.state = "asked"
         /\ fetch'.state = "read" => fetch' = fetch
<1> DEFINE marked == [entry EXCEPT !.marked = TRUE]
           again == \/ view = "here" /\ entry.seen # NoData
                    \/ view = "here" /\ fetch.state = "none"
<1>1. marked \in Entries(n) /\ marked.marked
  BY DEF Entries
<1>2. CASE ~shape.clears
  BY <1>2 DEF Invalidate
<1>3. CASE shape.clears /\ again
  <2>1. entry' = Started(marked) /\ fetch' = Asking
    BY <1>3 DEF Invalidate
  <2>2. Started(marked) \in Entries(n) /\ Started(marked).marked = marked.marked
    BY <1>1, StartedType
  <2> HIDE DEF marked
  <2> QED
    BY <2>1, <2>2, <1>1 DEF Asking, Fetches
<1>4. CASE shape.clears /\ ~again
  <2>1. entry' = marked /\ fetch' = fetch
    BY <1>4 DEF Invalidate
  <2> QED
    BY <2>1, <1>1, <1>4
<1> QED
  BY <1>2, <1>3, <1>4

-----------------------------------------------------------------------------
(* The screens keep their invariant. *)

\* The type invariant in the sets the lemmas speak of.
LEMMA TypeParts ==
  ScrTypeOK <=>
    /\ shape \in Shapes /\ view \in {"here", "turned", "away"}
    /\ opened \in BOOLEAN /\ locked \in BOOLEAN
    /\ calls \in CallsUpTo(db)
    /\ db \in 0..MaxWrites /\ told \in 0..db
    /\ entry \in Entries(db) /\ fetch \in Fetches(db)
    /\ view = "away" => ~opened
BY DEF ScrTypeOK, CallsUpTo, Entries, Fetches

\* A step that writes nothing, tells nothing and only may start a request.
LEMMA QuietStep ==
  ASSUME ScreenInv,
         UNCHANGED <<shape, db, told>>,
         view' \in {"here", "turned", "away"}, opened' \in BOOLEAN,
         view' = "away" => ~opened',
         entry' \in Entries(db), fetch' \in Fetches(db),
         entry'.seen = entry.seen, entry'.marked = entry.marked,
         fetch'.state = "read" => fetch' = fetch,
         calls' \in CallsUpTo(db), locked' \in BOOLEAN
  PROVE  ScreenInv'
<1>1. ScrTypeOK'
  BY TypeParts DEF ScreenInv, ScrTypeOK, CallsUpTo, Entries, Fetches
<1>2. FreshHasOwnWrites' /\ ReadsAreFresh'
  BY DEF ScreenInv, FreshHasOwnWrites, ReadsAreFresh
<1> QED
  BY <1>1, <1>2 DEF ScreenInv

\* Every step of a page and its dialog keeps the screens' invariant.
LEMMA ScreenStep ==
  ASSUME ScreenInv, ScrNext
  PROVE  ScreenInv'
<1> USE ScreenAssumption
<1>0. /\ shape \in Shapes /\ view \in {"here", "turned", "away"}
      /\ opened \in BOOLEAN /\ locked \in BOOLEAN
      /\ calls \in CallsUpTo(db)
      /\ db \in 0..MaxWrites /\ db \in Nat /\ told \in 0..db
      /\ entry \in Entries(db) /\ fetch \in Fetches(db)
      /\ view = "away" => ~opened
  BY TypeParts DEF ScreenInv
<1>1. CASE Arrive
  <2>1. \/ Ask
        \/ UNCHANGED <<fetch, entry>>
    BY <1>1 DEF Arrive
  <2>2. /\ entry' \in Entries(db) /\ fetch' \in Fetches(db)
        /\ entry'.seen = entry.seen /\ entry'.marked = entry.marked
        /\ fetch'.state = "read" => fetch' = fetch
    BY <2>1, <1>0, AskKeeps
  <2>3. calls' \in CallsUpTo(db) /\ locked' \in BOOLEAN
    BY <1>1, <1>0, RemountType DEF Arrive
  <2> QED
    BY <1>0, <1>1, <2>2, <2>3, QuietStep DEF Arrive
<1>2. CASE Turn
  <2>1. calls' \in CallsUpTo(db) /\ locked' \in BOOLEAN
    BY <1>2, <1>0, OrphanedType DEF Turn
  <2> QED
    BY <1>0, <1>2, <2>1, QuietStep DEF Turn
<1>3. CASE Leave
  <2>1. calls' \in CallsUpTo(db) /\ locked' \in BOOLEAN
    BY <1>3, <1>0, RemountType DEF Leave
  <2> QED
    BY <1>0, <1>3, <2>1, QuietStep DEF Leave
<1>4. CASE Collect
  <2>1. entry' \in Entries(db) /\ entry'.seen = NoData
    BY <1>4, <1>0 DEF Collect, Empty, Entries, NoData
  <2>2. ScrTypeOK'
    BY <1>4, <1>0, <2>1 DEF Collect, ScrTypeOK, CallsUpTo, Entries, Fetches
  <2> QED
    BY <1>4, <2>1, <2>2 DEF Collect, ScreenInv, FreshHasOwnWrites, ReadsAreFresh
<1>5. CASE Refetch
  <2>1. /\ entry' \in Entries(db) /\ fetch' \in Fetches(db)
        /\ entry'.seen = entry.seen /\ entry'.marked = entry.marked
        /\ fetch'.state = "read" => fetch' = fetch
    BY <1>5, <1>0, AskKeeps DEF Refetch
  <2>2. calls' \in CallsUpTo(db) /\ locked' \in BOOLEAN
    BY <1>5, <1>0, RemountType DEF Refetch
  <2> QED
    BY <1>0, <1>5, <2>1, <2>2, QuietStep DEF Refetch
<1>6. CASE ServerReads
  <2>1. fetch' \in Fetches(db) /\ fetch'.snap = db
    BY <1>6, <1>0 DEF ServerReads, Fetches
  <2>2. ScrTypeOK'
    BY <1>6, <1>0, <2>1 DEF ServerReads, ScrTypeOK, CallsUpTo, Entries, Fetches
  <2> QED
    BY <1>0, <1>6, <2>1, <2>2
    DEF ServerReads, ScreenInv, FreshHasOwnWrites, ReadsAreFresh
<1>7. CASE FetchSucceeds
  <2>1. /\ entry' = [seen |-> fetch.snap, marked |-> FALSE, failed |-> FALSE]
        /\ fetch' = NoFetch /\ fetch.state = "read"
        /\ UNCHANGED <<shape, view, opened, db, told>>
    BY <1>7 DEF FetchSucceeds
  <2>2. entry' \in Entries(db) /\ fetch' \in Fetches(db) /\ fetch'.state = "none"
    BY <2>1, <1>0 DEF Entries, Fetches, NoFetch, NoData
  <2>3. calls' \in CallsUpTo(db) /\ locked' \in BOOLEAN
    BY <1>7, <1>0, RemountType DEF FetchSucceeds
  <2>4. ScrTypeOK'
    BY <1>0, <2>1, <2>2, <2>3 DEF ScrTypeOK, CallsUpTo, Entries, Fetches
  <2>5. FreshHasOwnWrites' /\ ReadsAreFresh'
    BY <2>1, <2>2 DEF ScreenInv, FreshHasOwnWrites, ReadsAreFresh
  <2> QED
    BY <2>4, <2>5 DEF ScreenInv
<1>8. CASE FetchFails
  <2>0. fetch' = NoFetch /\ entry' = [entry EXCEPT !.failed = TRUE]
    BY <1>8 DEF FetchFails
  <2>1. /\ fetch' \in Fetches(db) /\ fetch'.state = "none"
        /\ entry' \in Entries(db)
        /\ entry'.seen = entry.seen /\ entry'.marked = entry.marked
    <3>1. fetch' \in Fetches(db) /\ fetch'.state = "none"
      BY <2>0, <1>0 DEF NoFetch, Fetches
    <3>2. /\ entry' \in Entries(db)
          /\ entry'.seen = entry.seen /\ entry'.marked = entry.marked
      BY <2>0, <1>0 DEF Entries
    <3> QED
      BY <3>1, <3>2
  <2>2. calls' \in CallsUpTo(db) /\ locked' \in BOOLEAN
    BY <1>8, <1>0, RemountType DEF FetchFails
  <2> QED
    BY <1>0, <1>8, <2>1, <2>2, QuietStep DEF FetchFails
<1>9. CASE Open
  <2>1. calls' \in CallsUpTo(db) /\ locked' \in BOOLEAN
    BY <1>9, <1>0, RemountType DEF Open
  <2> QED
    BY <1>0, <1>9, <2>1, QuietStep DEF Open
<1>10. CASE Close
  <2>1. calls' \in CallsUpTo(db) /\ locked' \in BOOLEAN
    BY <1>10, <1>0, RemountType DEF Close
  <2> QED
    BY <1>0, <1>10, <2>1, QuietStep DEF Close
<1>11. ASSUME NEW c \in Calls, Submit(c) PROVE ScreenInv'
  <2>1. [state |-> "sent", version |-> 0, mine |-> TRUE]
          \in [state : {"idle", "sent", "applied"}, version : 0..db, mine : BOOLEAN]
    BY <1>0
  <2>2. calls' \in CallsUpTo(db)
    BY <1>11, <1>0, <2>1, OrphanedType DEF Submit, CallsUpTo
  <2>3. locked' \in BOOLEAN
    BY <1>11 DEF Submit
  <2> QED
    BY <1>0, <1>11, <2>2, <2>3, QuietStep DEF Submit
<1>12. ASSUME NEW c \in Calls, ServerApplies(c) PROVE ScreenInv'
  <2>1. db' = db + 1 /\ db' \in 0..MaxWrites
    BY <1>12, <1>0 DEF ServerApplies
  <2>2. calls' \in CallsUpTo(db')
    BY <1>12, <1>0, <2>1 DEF ServerApplies, CallsUpTo
  <2>3. ScrTypeOK'
    BY <1>12, <1>0, <2>1, <2>2
    DEF ServerApplies, ScrTypeOK, CallsUpTo, Entries, Fetches
  <2> QED
    BY <1>12, <2>3 DEF ServerApplies, ScreenInv, FreshHasOwnWrites, ReadsAreFresh
<1>13. ASSUME NEW c \in Calls, Success(c) PROVE ScreenInv'
  <2>1. /\ entry' \in Entries(db) /\ fetch' \in Fetches(db)
        /\ shape.clears => entry'.marked
        /\ shape.clears /\ view = "here" /\ entry.seen # NoData
             => fetch'.state = "asked"
        /\ fetch'.state = "read" => fetch' = fetch
    BY <1>13, <1>0, InvalidateMarks DEF Success
  <2>2. /\ told' \in 0..db
        /\ told' # told =>
             fetch.state = "none" \/ (view = "here" /\ entry.seen # NoData)
    BY <1>13, <1>0 DEF Success, CallsUpTo
  <2>3. /\ view' \in {"here", "turned", "away"} /\ opened' \in BOOLEAN
        /\ view' = "away" => ~opened'
        /\ UNCHANGED <<shape, db>>
    BY <1>13, <1>0 DEF Success
  <2>4. [calls EXCEPT ![c] = NoCall] \in CallsUpTo(db)
    BY <1>0, SettledType
  <2>5. (locked /\ ~calls[c].mine) \in BOOLEAN
    BY <1>0
  <2>6. calls' \in CallsUpTo(db) /\ locked' \in BOOLEAN
    BY <1>13, <1>0, <2>4, <2>5, RemountType DEF Success
  <2>7. ScrTypeOK'
    BY <1>0, <2>1, <2>2, <2>3, <2>6 DEF ScrTypeOK, CallsUpTo, Entries, Fetches
  <2>8. FreshHasOwnWrites'
    BY <2>1, <2>3 DEF FreshHasOwnWrites
  <2>9. ReadsAreFresh'
    BY <1>0, <2>1, <2>2, <2>3 DEF ScreenInv, ReadsAreFresh
  <2> QED
    BY <2>7, <2>8, <2>9 DEF ScreenInv
<1>14. ASSUME NEW c \in Calls, Failure(c) PROVE ScreenInv'
  <2>1. [calls EXCEPT ![c] = NoCall] \in CallsUpTo(db)
    BY <1>0, SettledType
  <2>2. (locked /\ ~calls[c].mine) \in BOOLEAN
    BY <1>0
  <2>3. calls' \in CallsUpTo(db) /\ locked' \in BOOLEAN
    BY <1>14, <1>0, <2>1, <2>2, RemountType DEF Failure
  <2> QED
    BY <1>0, <1>14, <2>3, QuietStep DEF Failure
<1> QED
  BY <1>1, <1>2, <1>3, <1>4, <1>5, <1>6, <1>7, <1>8, <1>9, <1>10, <1>11, <1>12,
     <1>13, <1>14
  DEF ScrNext, Deliver

-----------------------------------------------------------------------------
(* The wizard keeps its invariant. *)

\* Nothing is submitted, and what the steps demand is still filled in.
LEMMA WizardKeeps ==
  ASSUME FormInv, UNCHANGED <<submitted, bulkVars>>,
         NEW n \in WizardSteps, NEW d \in WizardData,
         wizard' = [step |-> n, data |-> d],
         creating' \in {"none", "pending", "done"},
         n >= 1 => d.customer,
         n >= 2 => d.plan,
         n >= 4 => d.startDate /\ d.expiryDate
  PROVE  FormInv'
<1>1. FormTypeOK'
  BY DEF FormInv, FormTypeOK, bulkVars
<1>2. SubmittedIsChosen'
  BY DEF FormInv, SubmittedIsChosen
<1>3. FilledIn'
  BY DEF FormInv, FilledIn, bulkVars
<1> QED
  BY <1>1, <1>2, <1>3 DEF FormInv

\* A page of the wizard changes the data.
LEMMA DataKeeps ==
  ASSUME FormInv, NEW d \in WizardData, SetData(d),
         UNCHANGED <<creating, submitted, bulkVars>>,
         wizard.step >= 1 => d.customer,
         wizard.step >= 2 => d.plan,
         wizard.step >= 4 => d.startDate /\ d.expiryDate
  PROVE  FormInv'
<1>1. wizard' = [step |-> wizard.step, data |-> d] /\ wizard.step \in WizardSteps
  BY DEF FormInv, FormTypeOK, SetData
<1>2. creating' \in {"none", "pending", "done"}
  BY DEF FormInv, FormTypeOK
<1> QED
  BY <1>1, <1>2, WizardKeeps

\* The wizard moves to a step whose demands are met.
LEMMA MoveKeeps ==
  ASSUME FormInv, NEW n \in WizardSteps, wizard' = [wizard EXCEPT !.step = n],
         UNCHANGED <<creating, submitted, bulkVars>>,
         n >= 1 => wizard.data.customer,
         n >= 2 => wizard.data.plan,
         n >= 4 => wizard.data.startDate /\ wizard.data.expiryDate
  PROVE  FormInv'
<1>1. wizard' = [step |-> n, data |-> wizard.data] /\ wizard.data \in WizardData
  BY DEF FormInv, FormTypeOK
<1>2. creating' \in {"none", "pending", "done"}
  BY DEF FormInv, FormTypeOK
<1> QED
  BY <1>1, <1>2, WizardKeeps

\* Leaving the page starts again with nothing.
LEMMA AbandonKeeps ==
  ASSUME FormInv, Abandon
  PROVE  FormInv'
<1>1. InitialData \in WizardData
  BY DEF InitialData, WizardData
<1>2. wizard' = [step |-> 0, data |-> InitialData]
  BY DEF Abandon, NewWizard
<1>3. FormTypeOK'
  BY <1>1, <1>2 DEF FormInv, FormTypeOK, Abandon, NewBulk, WizardSteps, BulkSteps
<1>4. SubmittedIsChosen'
  BY DEF FormInv, SubmittedIsChosen, Abandon
<1>5. FilledIn'
  BY <1>1, <1>2 DEF FilledIn, Abandon, NewBulk
<1> QED
  BY <1>3, <1>4, <1>5 DEF FormInv

\* The steps of the wizard keep the invariant of the forms.
LEMMA WizardStep ==
  ASSUME FormInv, WizardNext
  PROVE  FormInv'
<1>0. /\ wizard \in [step : WizardSteps, data : WizardData]
      /\ wizard.step \in Int
      /\ creating \in {"none", "pending", "done"}
      /\ wizard.step >= 1 => wizard.data.customer
      /\ wizard.step >= 2 => wizard.data.plan
      /\ wizard.step >= 4 => wizard.data.startDate /\ wizard.data.expiryDate
  BY DEF FormInv, FormTypeOK, FilledIn, WizardSteps
<1>1. CASE StepCustomer
  <2>1. [wizard.data EXCEPT !.customer = TRUE] \in WizardData
    BY <1>0 DEF WizardData
  <2> QED
    BY <1>0, <1>1, <2>1, DataKeeps DEF StepCustomer, OnStep, WizardData
<1>2. CASE StepPlan
  <2>1. CASE SetData([wizard.data EXCEPT !.plan = TRUE])
    <3>1. [wizard.data EXCEPT !.plan = TRUE] \in WizardData
      BY <1>0 DEF WizardData
    <3> QED
      BY <1>0, <1>2, <2>1, <3>1, DataKeeps DEF StepPlan, OnStep, WizardData
  <2>2. ASSUME NEW plan \in BOOLEAN, NEW lines \in [Rows -> 0..2],
               SetData([wizard.data EXCEPT !.plan = plan, !.products = lines])
        PROVE  FormInv'
    <3> DEFINE d == [wizard.data EXCEPT !.plan = plan, !.products = lines]
    <3>1. lines \in [Rows -> Nat]
      OBVIOUS
    <3>2. d \in WizardData /\ d.customer = wizard.data.customer
      BY <1>0, <3>1 DEF WizardData
    <3>3. SetData(d) /\ wizard.step = 1 /\ UNCHANGED <<creating, submitted, bulkVars>>
      BY <1>2, <2>2 DEF StepPlan, OnStep
    <3> HIDE DEF d
    <3>4. /\ wizard.step >= 1 => d.customer
          /\ wizard.step >= 2 => d.plan
          /\ wizard.step >= 4 => d.startDate /\ d.expiryDate
      BY <1>0, <3>2, <3>3
    <3> QED
      BY <3>2, <3>3, <3>4, DataKeeps
  <2> QED
    BY <1>2, <2>1, <2>2 DEF StepPlan
<1>3. CASE StepConfigure
  <2>1. PICK start \in BOOLEAN, expiry \in BOOLEAN :
          SetData([wizard.data EXCEPT !.startDate = start, !.expiryDate = expiry])
    BY <1>3 DEF StepConfigure
  <2> DEFINE d == [wizard.data EXCEPT !.startDate = start, !.expiryDate = expiry]
  <2>2. /\ d \in WizardData
        /\ d.customer = wizard.data.customer
        /\ d.plan = wizard.data.plan
    BY <1>0 DEF WizardData
  <2>3. SetData(d) /\ wizard.step = 3 /\ UNCHANGED <<creating, submitted, bulkVars>>
    BY <1>3, <2>1 DEF StepConfigure, OnStep
  <2> HIDE DEF d
  <2>4. /\ wizard.step >= 1 => d.customer
        /\ wizard.step >= 2 => d.plan
        /\ wizard.step >= 4 => d.startDate /\ d.expiryDate
    BY <1>0, <2>2, <2>3
  <2> QED
    BY <2>2, <2>3, <2>4, DataKeeps
<1>4. CASE Forward
  <2>1. wizard.step + 1 \in WizardSteps /\ wizard' = [wizard EXCEPT !.step = wizard.step + 1]
    BY <1>0, <1>4 DEF Forward, WizardSteps
  <2>2. /\ wizard.step + 1 >= 1 => wizard.data.customer
        /\ wizard.step + 1 >= 2 => wizard.data.plan
        /\ wizard.step + 1 >= 4 => wizard.data.startDate /\ wizard.data.expiryDate
    BY <1>0, <1>4 DEF Forward, CanProceed, WizardSteps
  <2> QED
    BY <1>4, <2>1, <2>2, MoveKeeps DEF Forward
<1>5. CASE Back
  <2>1. wizard.step - 1 \in WizardSteps /\ wizard' = [wizard EXCEPT !.step = wizard.step - 1]
    BY <1>0, <1>5 DEF Back, WizardSteps
  <2> QED
    BY <1>0, <1>5, <2>1, MoveKeeps DEF Back
<1>6. ASSUME NEW p \in Rows, AddProduct(p) PROVE FormInv'
  <2>1. [wizard.data EXCEPT !.products[p] = 1] \in WizardData
    BY <1>0 DEF WizardData
  <2> QED
    BY <1>0, <1>6, <2>1, DataKeeps DEF AddProduct, OnStep, WizardData
<1>7. ASSUME NEW p \in Rows, RemoveProduct(p) PROVE FormInv'
  <2>1. [wizard.data EXCEPT !.products[p] = 0] \in WizardData
    BY <1>0 DEF WizardData
  <2> QED
    BY <1>0, <1>7, <2>1, DataKeeps DEF RemoveProduct, OnStep, WizardData
<1>8. ASSUME NEW i \in WizardSteps, GoToStep(i) PROVE FormInv'
  BY <1>0, <1>8, MoveKeeps DEF GoToStep, WizardSteps
<1>9. CASE HandleComplete
  <2>1. FormTypeOK'
    BY <1>9 DEF FormInv, FormTypeOK, HandleComplete, bulkVars
  <2>2. SubmittedIsChosen'
    BY <1>0, <1>9 DEF HandleComplete, OnStep, SubmittedIsChosen
  <2>3. FilledIn'
    BY <1>9 DEF FormInv, FilledIn, HandleComplete, bulkVars
  <2> QED
    BY <2>1, <2>2, <2>3 DEF FormInv
<1>10. CASE CreateSettles
  <2>1. wizard' = [step |-> wizard.step, data |-> wizard.data]
    BY <1>0, <1>10 DEF CreateSettles
  <2> QED
    BY <1>0, <1>10, <2>1, WizardKeeps DEF CreateSettles
<1>11. CASE Abandon
  BY <1>11, AbandonKeeps
<1> QED
  BY <1>1, <1>2, <1>3, <1>4, <1>5, <1>6, <1>7, <1>8, <1>9, <1>10, <1>11 DEF WizardNext

-----------------------------------------------------------------------------
(* The bulk operation keeps its invariant. *)

\* Every step of the bulk operation keeps the invariant of the forms.
LEMMA BulkStep ==
  ASSUME FormInv, BulkNext
  PROVE  FormInv'
<1> USE DEF FormInv, FormTypeOK, SubmittedIsChosen, FilledIn, wizardVars, BulkSteps
<1>1. ASSUME NEW r \in Rows, ToggleSelect(r) PROVE FormInv'
  BY <1>1 DEF ToggleSelect
<1>2. ASSUME NEW shown \in SUBSET Rows, ToggleSelectAll(shown) PROVE FormInv'
  BY <1>2 DEF ToggleSelectAll
<1>3. CASE HandleBulkAction
  BY <1>3 DEF HandleBulkAction, NewBulk
<1>4. CASE HandleConfirm
  BY <1>4 DEF HandleConfirm
<1>5. ASSUME NEW found \in SUBSET Rows, ConflictsArrive(found) PROVE FormInv'
  BY <1>5 DEF ConflictsArrive
<1>6. ASSUME NEW r \in Rows, ToggleSkip(r) PROVE FormInv'
  BY <1>6 DEF ToggleSkip
<1>7. CASE HandleProceed
  BY <1>7 DEF HandleProceed, NonConflicted
<1>8. CASE JobProceeds
  BY <1>8 DEF JobProceeds
<1>9. CASE CloseBulk
  BY <1>9 DEF CloseBulk, NewBulk
<1>10. CASE Abandon
  BY <1>10, AbandonKeeps
<1> QED
  BY <1>1, <1>2, <1>3, <1>4, <1>5, <1>6, <1>7, <1>8, <1>9, <1>10 DEF BulkNext

-----------------------------------------------------------------------------
(* The theorems. *)

ClientInv == ScreenInv /\ FormInv

\* A client that has just been loaded satisfies the invariant.
LEMMA InitEstablishes == ASSUME Init PROVE ClientInv
<1> USE ScreenAssumption
<1>1. ScrTypeOK
  <2>1. db = 0 /\ 0 \in 0..MaxWrites /\ 0 \in 0..db
    BY DEF Init, ScrInit
  <2>2. calls \in [Calls -> [state : {"idle", "sent", "applied"},
                            version : 0..db, mine : BOOLEAN]]
    BY <2>1 DEF Init, ScrInit, NoCall
  <2>3. entry \in [seen : NoData..db, marked : BOOLEAN, failed : BOOLEAN]
    BY <2>1 DEF Init, ScrInit, Empty, NoData
  <2>4. fetch \in [state : {"none", "asked", "read"}, snap : 0..db]
    BY <2>1 DEF Init, ScrInit, Asking
  <2> QED
    BY <2>1, <2>2, <2>3, <2>4 DEF Init, ScrInit, ScrTypeOK
<1>2. FreshHasOwnWrites /\ ReadsAreFresh
  BY DEF Init, ScrInit, FreshHasOwnWrites, ReadsAreFresh, Empty, Asking
<1>3. InitialData \in WizardData
  BY DEF InitialData, WizardData
<1>4. wizard = [step |-> 0, data |-> InitialData]
  BY DEF Init, FormInit, NewWizard
<1>5. FormTypeOK
  BY <1>3, <1>4
  DEF Init, FormInit, FormTypeOK, NewBulk, NoSubmission, WizardSteps, BulkSteps
<1>6. SubmittedIsChosen
  BY DEF Init, FormInit, SubmittedIsChosen, NoSubmission
<1>7. FilledIn
  BY <1>3, <1>4 DEF Init, FormInit, FilledIn, NewBulk
<1> QED
  BY <1>1, <1>2, <1>5, <1>6, <1>7 DEF ClientInv, ScreenInv, FormInv

\* A part that stands still keeps its invariant.
LEMMA ScreenStands == ASSUME ScreenInv, UNCHANGED screenVars PROVE ScreenInv'
BY DEF ScreenInv, ScrTypeOK, FreshHasOwnWrites, ReadsAreFresh, screenVars

\* ... and the forms' when none of theirs has.
LEMMA FormStands == ASSUME FormInv, UNCHANGED formVars PROVE FormInv'
BY DEF FormInv, FormTypeOK, SubmittedIsChosen, FilledIn, formVars

\* The inductive invariant of the client's screens.
THEOREM ScreensAreConsistent == Spec => []ClientInv
<1>1. Init => ClientInv
  BY InitEstablishes
<1>2. ClientInv /\ [Next]_clientVars => ClientInv'
  <2> SUFFICES ASSUME ClientInv, [Next]_clientVars PROVE ClientInv'
    OBVIOUS
  <2>1. CASE ScrNext /\ UNCHANGED formVars
    BY <2>1, ScreenStep, FormStands DEF ClientInv
  <2>2. CASE WizardNext /\ UNCHANGED screenVars
    BY <2>2, WizardStep, ScreenStands DEF ClientInv
  <2>3. CASE BulkNext /\ UNCHANGED screenVars
    BY <2>3, BulkStep, ScreenStands DEF ClientInv
  <2>4. CASE UNCHANGED clientVars
    BY <2>4, ScreenStands, FormStands DEF ClientInv, clientVars
  <2> QED
    BY <2>1, <2>2, <2>3, <2>4 DEF Next
<1> QED
  BY <1>1, <1>2, PTL DEF Spec

\* The type invariant, for all shapes, mutations, writes and rows.
THEOREM ScreensTypeCorrect == Spec => []ClientTypeOK
<1>1. ClientInv => ClientTypeOK
  BY DEF ClientInv, ScreenInv, FormInv, ClientTypeOK
<1> QED
  BY <1>1, ScreensAreConsistent, PTL

\* However many mutations of a page overlap, however its requests are
\* overtaken and wherever the person goes, an entry that is not marked shows
\* every write it was told of.
THEOREM EntriesHaveOwnWrites == Spec => []FreshHasOwnWrites
<1>1. ClientInv => FreshHasOwnWrites
  BY DEF ClientInv, ScreenInv
<1> QED
  BY <1>1, ScreensAreConsistent, PTL

\* No way through the wizard or the bulk operation submits less, or more,
\* than was chosen.
THEOREM SubmissionsAreChosen == Spec => []SubmittedIsChosen
<1>1. ClientInv => SubmittedIsChosen
  BY DEF ClientInv, FormInv
<1> QED
  BY <1>1, ScreensAreConsistent, PTL
=============================================================================
