# A verification project for the subscription management system

The system is a multi-tenant FastAPI application over PostgreSQL, Redis and
Celery, with a React client. Companies sell plans to customers; customers
subscribe, change plan, pay and cancel in a portal; invoices that stay unpaid go
through dunning. This directory holds TLA+ models of the parts whose correctness
depends on the order in which requests, transactions, background runs, answers
and clicks take effect, TLC configurations that check them on small instances,
and TLAPS proofs.

Paths below are relative to `src/`.

## 1. Inventory

| Part | State | Operations | Interacts with | What makes it correct |
|---|---|---|---|---|
| Invoices, payments (`app/services/billing/invoice_service.py`, `payment_service.py`) | `invoices.status`, `amount_paid`, rows of `payments` | generate, confirm, cancel, PATCH, manual payment, portal payment | subscriptions (invoices of), PayPal, dunning (reads status) | books balance; paid exactly when covered; paid is final |
| PayPal (`paypal_service.py`, `paypal_gateway.py`) | orders at PayPal; nothing in the database until the capture | create checkout, success page, failure page | payments | each captured order recorded, once |
| Request transactions (`app/dependencies/db.py`, `app/repositories/base.py`) | one session per request | commit, roll back | everything | all or nothing per request; no isolation beyond READ COMMITTED |
| Subscriptions (`app/services/subscriptions/subscription.py`, `fsm.py`, `invoice_factory.py`) | `subscriptions.status`, `plan_id`, the invoice of an activation | create, activate, close, update | invoice factory | status machine respected; active implies invoiced |
| Plan changes (`upgrade.py`, `downgrade.py`, `pro_rata.py`) | `plan_id`, `downgrade_at`, `downgrade_to_plan_id`, delta invoices | upgrade, schedule a downgrade, finalise it | portal, invoice factory | nobody on a plan dearer than charged |
| Customer portal (`subscriptions/portal.py`) | as above, for the customer's own row | create, change plan, cancel | all of the above | one subscription per customer |
| Bulk operations (`app/services/bulk`, `app/tasks/bulk_tasks.py`) | `status`, `plan_id`, `discount_id` of many rows; job status in Redis | preview, activate, close, apply discount, change plan | subscriptions, past the status machine | failed rows untouched; the report tells the truth |
| Dunning (`dunning_service.py`, `app/config/dunning.py`) | `dunning_schedules` | create a batch, process the due rows (retry, suspend, cancel) | invoices (reads), subscriptions (writes past the machine) | steps in order, once; paid spared; every due row taken |
| Sessions (`app/services/auth.py`, `token_family.py`, `portal.py`) | token set per family in Redis, `sessions` rows, the client's cookie | login, refresh, logout, revoke | Redis and database changed by separate steps | one live token per family; reuse ends the family |
| Invitations, accounts (`auth.py`, `tenant.py`, `company/customer.py`) | `invite_tokens`, `users` | invite, accept, register | tenants | accepted at most once |
| Tenants (`admin_tenant.py`) | `tenants.status`, `deleted_at` | create, suspend, reactivate, delete | login, subscriptions | no deletion over active subscriptions |
| Invoice builder, discounts (`invoice_builder.py`, `discount_strategies.py`) | totals, `discounts.used_count`, invoice numbers | build | invoices | totals add up; usage limit kept; numbers unique |
| Revenue recognition (`app/services/revenue`, `app/tasks/revenue_tasks.py`) | `revenue_recognitions` | process one invoice, process all pending | invoices | rows of an invoice sum to its amount, once |
| Client session (`frontend/src/lib/axios.ts`, `stores/authStore.ts`, `pages/auth`, `PrivateRoute`, `AppShell`) | user and access token in memory, the refresh mutex and its queue, the form shown | sign in, send, refresh, log out, time out, load | the server's sessions, every query | one refresh at a time; nothing waits for ever; nobody signed in unasked |
| Client pages and queries (`frontend/src/hooks`, `frontend/src/pages`) | a cache entry per query key, the requests and mutations under way, dialogs open or not | show, turn, submit, close, leave; answers, failures, invalidations | each other, through the cache | what was written is shown; no page stays on its loader |
| Client forms of several steps (`CreateSubscriptionWizard`, `useWizard`, `SubscriptionsPage`, `BulkOperationModal`) | step and data of the wizard; selection, conflicts, skipped rows, job | forward, back, templates, select, skip, proceed | subscriptions, bulk operations | what is submitted is complete and was chosen |
| Client presentation (`frontend/src/components`, `types`, `lib`) | - | tables, charts, badges, formatting | - | see "Not modelled" |
| Churn, rate limiting, catalogue, metrics, audit, e-mail, PDF, routers | derived data, counters, rows | - | - | see "Not modelled" |

What is hard here:

* **Interleaving of requests.** No query takes a row lock and no row carries a
  version. A handler checks a row it read and commits later; other requests
  commit in between. The ORM writes the columns whose value differs from the one
  read, computed from the one read. (An earlier flush of the handler holds the
  row from its flush to its commit; the order of such writes is the order of the
  commits, which is what the models have.)
* **A second system.** PayPal and Redis change at once, the database at commit.
* **Two authorities over a status.** The status machine guards the services;
  dunning and the bulk operations write the column directly.
* **Background runs** read many rows, act on each, and commit at the end.
* **Late answers.** The client keeps going while a request is out: the form is
  left, the dialog closed, the user gone, the query asked again. An answer meets
  whatever is there by then.

`PROJECT.json` lists each hazard at its line with the properties about it.

## 2. Modules

```
InvoiceAccount          what billing promises for an invoice (abstract)
InvoicePayments         requests and transactions over invoices; IsAccount
  InvoicePaymentsProofs   theorems about InvoicePayments
  MCInvoicePayments       instances for TLC
SubscriptionContract    what is promised for a subscription (abstract)
SubscriptionLifecycle   requests and transactions over subscriptions; HonoursContract
  SubscriptionProofs      theorems about SubscriptionLifecycle
  MCSubscriptionLifecycle
Dunning                 EXTENDS SubscriptionLifecycle: dunning beside it
  DunningProofs           theorems about Dunning
  MCDunning
TokenFamilies           refresh tokens in Redis and in the session rows
  TokenFamiliesProofs     theorems about TokenFamilies
  MCTokenFamilies
ClientSession           the client's store, interceptors, forms and routes
  ClientSessionProofs     theorems about ClientSession
  MCClientSession
ClientApi               every hook: its key, what it reads, writes, invalidates
  ClientPages             every page and dialog; the shapes that follow from them
ClientScreens           a cache entry, its requests, a dialog and its mutations
ClientForms             the subscription wizard and the bulk operation
Client                  EXTENDS ClientPages, ClientScreens, ClientForms
  ClientProofs            theorems about Client
  MCClient
```

### InvoicePayments

A handler is two steps. Its reading step (`ReadConfirm`, `ReadCancel`,
`ReadUpdate`, `ReadRecordPayment`, `ReadPortalPay`, `HandleSuccess`) is enabled
when the handler does not refuse the request, and stores in `tx[w]` what it will
write; `Commit(w)` writes it; `Rollback(w)` drops it. A request that is refused
changes nothing and has no step. `status` and `paid` are the columns of
`invoices` (`paid` is `amount_paid`), `received` the sum of the rows of
`payments`. Totals are small naturals fixed per invoice, zero among them.
`CreateCheckout` and `HandleSuccess` talk to PayPal, which is modelled from how
`paypal_service.py` uses it: an approved order is captured at most once.
`HandleSuccess` captures the order first and looks the invoice up afterwards
(`FoundFor`): if it is there, and the caller's if the caller is a customer, the
payment is opened, and otherwise the handler raises and the capture stands. Both
are one step with the capture, because the code does nothing between its answer
and that read that another request could observe; the commit is separate, and
losing it loses the record of the money too.

### SubscriptionLifecycle

The same two steps, over the rows of `subscriptions`: `status`, `plan`, `downTo`
(`downgrade_to_plan_id`; `downgrade_at` is set and cleared with it), and three
counters of what the handlers insert beside them: `bills`
(`create_from_subscription`), `deltas` (`create_delta`, as an amount) and `first`
(the plan a row began with). `stx[w]` holds, per row, the columns a transaction
writes, so that bulk requests and dunning can write several. `Desks` says who
sends requests: the portal, the staff, the bulk page, the beat task that would
call `finalize`. Amounts are counted at a full billing cycle: `Delta` keeps the
sign decision of the pro-rata calculator and not its days.

### Dunning

`Dunning` extends `SubscriptionLifecycle`: the processors are workers whose open
transaction collects the statuses a run has set. `StartRun` selects the due
rows; `Miss`, `Skip`, `Retry` and `Punish` execute one row each, in any order,
since the query has none; `FinishRun` commits outcomes and subscriptions
together. The relationships are loaded eagerly, so a run sees every invoice and
subscription as it was when the rows were selected (`Begun`): `find_by_id` asks
the database whether the invoice is there (`Found`), but the object it returns is
the one the session already has. Only `repo.update` reads the subscription again,
after its write. `Miss` is the branch of an invoice that is not found, which
leaves the row pending; `RemoveInvoice` gives it a cause, which this commit offers
no route for. `CreateBatch` asks nothing of the invoice, as the code does, and may
be called again for the same one. An invoice is reduced to unpaid, paid,
cancelled or deleted, which is all dunning looks at. Time moves from one of the
`Days` to any later one.

### TokenFamilies

Redis changes at every call, the session row at the commit, so a request is as
many steps as it makes calls: `rq[w]` holds its next step and its arguments. A
refresh is `Present`, `Remove` (SREM of the old hash), then either `Delete`
(reuse) or `Add`, `Rotate`, `Answer`, `Commit`; a login is `Login`, `Register`,
`Answer`, `Commit`; a logout is `Logout`, `Drop`, `RevokeRows`, `Commit`, and a
revocation in the portal `Revoke`, one `Drop` per family, `Commit`. `Fail` ends a
request anywhere: Redis keeps what it did. The client may send any token it was
given, at any time and again. A refresh token is a signed payload of user, family
and second of issue (`app/core/security.py:57-71` puts no identifier into it), so
in the model a token is the second it was issued in, and two of the same second
are one. `spent` and `ended` record what has happened, for the properties only.
The check of passwords, and the keys' expiry in Redis, which is that of the
tokens, are left out.

### ClientSession

JavaScript runs one callback at a time, so an action is what happens between two
awaits. `user` and `token` are the auth store, `isRefreshing` and the requests in
state `queued` the refresh mutex of `axios.ts` and its `failedQueue`. A request
that meets a 401 either joins the queue (`Enqueue`), starts the refresh
(`StartRefresh`) or, if it was sent again already, gives up (`GiveUp`);
`RefreshSucceeds` and `RefreshFails` settle all who wait, in the one callback in
which the code does. Access tokens are numbers in the order of issue, which may
expire at any time. `page` and `form` are the route and the state of its form; a
login whose form was left goes on in `late`. `leaving` is the assignment to
`window.location.href`: the page that is left runs on until the browser has
loaded the next (`Redirect`), and that load forgets everything in memory.
`RefreshSucceeds` is what the client does with a body of the form it expects; the
server of this commit answers another (section 5), which is one of the causes of
`RefreshFails`.

### ClientApi, ClientPages and ClientScreens

`ClientApi` is the table of the hooks: for each query its key and the records it
is made of, for each mutation the records it writes and the keys it
invalidates. `ClientPages` is the table of the routed pages with their dialogs:
which queries a page shows, which of their conditions replace the whole page,
which it pages or filters, and for each dialog where it is mounted, what
disables its button, how the code after a success is reached, and whether it
closes or navigates. A query of a page beside a mutation of one of its dialogs
that writes what the query shows has a *shape* (`ShapeOf`), and pages with the
same shape behave alike: the thirty pages and their pairs have thirty-one shapes
(`PageShapes`).

`ClientScreens` is one such pair as a state machine: the cache entry (`entry`),
its request (`fetch`), the dialog (`opened`, `locked`), the mutations under way
(`calls`), and the records as a version number (`db`). The query library is
external; `Ask`, `Invalidate` and `Collect` model what the hooks rely on: a
request under way is joined, but an invalidation drops it if there are data to
show meanwhile, and an entry off screen is only marked. `Success` runs the hook's
`onSuccess` whether or not the component still exists, and what follows it
according to the shape. `told` is the highest version whose success the entry was
told of while it could act on it; a success that meets a first load, or the
request of an entry that is off screen, is not counted (section 5).

### ClientForms

The wizard's data are reduced to filled in or not, and its products to the
number of lines each has; `CanProceed` is the guard of its Next button, and
`GoToStep`, `Back`, templates and emptied dates are the ways around it. The bulk
operation keeps the selection of the list, the conflicts and the skipped rows
apart, as the components do; `known` tells whether the conflicts have arrived.
`Client` composes both with the screens: one page is mounted at a time, so a
behaviour follows one of the three.

### Abstract specifications

`InvoiceAccount`: an account is opened, credited, settled by the receipt that
covers it (or by the staff, who may PATCH a status), and voided only while
open. `SubscriptionContract`: a subscription is offered, billed as it starts,
moved only to plans that have been charged for, and ended only on a closable
plan. One request at a time, the transactions implement them
(`IsAccount`, `HonoursContract`); overlapping requests do not, see section 5.

## 3. Runs

| Run | Instance | Shows |
|---|---|---|
| PaymentsSerial | 1 worker, 2 invoices (totals 2 and 0), 1 order, rollbacks | TypeOK, BooksBalance, OpenOwes, LedgerOnlyGrows, PaidIsFinal, IsAccount |
| PaymentsOverlap | 3 workers, 2 invoices, 1 order, no failing transaction, no PATCH to paid | CreditedOnce; until the first checkout PaidIsCovered and ColumnIsModest |
| FindOverpayment | 2 workers, 1 invoice | *violated*: NoOverpayment |
| FindUnrecordedCapture | 1 worker, 2 invoices, 2 customers, no failing transaction | *violated*: CapturedIsRecorded |
| SubsSerial | 1 worker, 2 rows, 1 customer, 3 plans, one unclosable; portal, staff, bulk page and beat task; rollbacks | SubTypeOK, DowngradeIsCheaper, OneSubscription, FollowsMachine, HonoursContract, ClosedIsFrozen |
| SubsOverlap | 3 workers, 1 row, 3 plans | PlanIsCharged, ActiveIsBilled |
| FindTwoSubscriptions | 2 workers, 2 rows | *violated*: OneSubscription |
| DunningOverlap | 2 processors and a portal/bulk request, 1 batch, rollbacks | DunTypeOK, StepsEscalate, PausedByDunning, PaidBeforeRunIsSpared |
| FindClosedPaused | 1 processor and a portal request, 2 invoices of one subscription with a batch each | *violated*: CancelledForGood |
| SessionsOverlap | 2 requests, 2 logins, 2 seconds, requests that fail anywhere | TokTypeOK, OneLiveToken, RotationMovesForward, UnspentIsLive, RevokedForGood |
| ClientSession | 2 requests, 2 people, 2 access tokens, fair | CliTypeOK, OneRefresh, SentAtMostTwice, SignInIsAsked, EveryRequestSettles |
| Client | every shape of the pages, 2 mutations under way, 2 writes; 2 rows or products; fair | ClientTypeOK, FreshHasOwnWrites, SubmittedIsChosen, PagesSettle |

Bounds, and why they are enough:

* A total of 2 with amounts 1 and 2 has a part payment, an exact one, and two
  part payments that overlap; a total of 0 is the invoice that is covered before
  it is paid. `MaxReceived` only stops manual and portal payments from going on
  for ever after an overpayment; every property is about a state reached earlier.
* A lost update takes two overlapping requests; a third lets one more read the
  result while both are open.
* Three plans let an upgrade pass the target of a scheduled downgrade. Two rows
  are a customer's present and former subscription. `MaxDelta` stops chains of
  upgrades that finalised downgrades would let go on for ever.
* `Days` holds 0 and the days on which a step of a batch created on day 0 falls
  due. `Tick` may pass over any of them, so that the steps fall due one by one or
  several at once, and a batch created on a later day has its first steps come due
  among them. `FindClosedPaused` keeps the
  days of the suspend and cancel steps of a batch created on day 0 and of one
  created on day 14; the theorems are for any set of days.
* Two requests in two families let a revocation of both overlap a refresh of
  one. Two seconds (`MaxTime` 1) have tokens that are equal and tokens that are
  not; the theorems are for any number of either.
* In SubsSerial the bulk page may select one of the two rows (`Selectable`), so
  that FollowsMachine still says something of the other.
* Two requests of the client are one that leads the refresh and one that waits
  for it. Two access tokens are a login and a refresh, or two logins; the
  theorems are for any number. Two people let the answer to one meet the session
  of the other.
* Two mutations under way are one that was closed under and the one sent after
  it, two writes the one a request has read and the one it has not. Two rows have
  one that conflicts and one that does not, one on the page and one that is not.
* Deadlock is not checked where the system may really stop: no request need come,
  and in ClientSession the person may be left at a page with nothing to answer.

Fairness. None is assumed on the server: `process_pending` and `finalize` are called
by nothing in this commit (`app/config/celery_beat.py` has three other tasks), so
that a due row or a scheduled downgrade takes effect in the end is not a property
of this code. In ClientSession
every request is answered or fails by its timeout
(`frontend/src/lib/axios.ts`, 30 seconds) and the browser loads what it is sent
to; in Client a query that was asked is read, and its answer, or its failure,
arrives. Nothing is assumed of what people do, nor of mutations.

## 4. Proofs

`InvoicePaymentsProofs` proves, for every number of workers, invoices, orders
and every total:

* `TypeCorrect`: the type invariant.
* `OrdersAreCreditedOnce`, through the inductive `CreditInv`: a pending payment
  exists for an order only once it is captured, for at most one worker, and not
  any more when it is credited. CreditedOnce alone is not inductive: it does not
  say what the open transactions are about to insert.
* `PaidInvoicesAreCovered` and `ColumnsAreModest`, through the inductive
  `CoverageInv` (`CoverageHolds`), which bounds the amount_paid an open transaction
  carries by what will have been recorded when it commits. They hold until the
  first PayPal checkout (a capture is not checked against the amount due), and
  their one assumption is that no PATCH sets paid.
* `SerialBooksBalance` and `SerialOpenOwes`, through `SerialInv`, for a single
  worker: the open transaction still sees the row it read. The action properties
  `SerialLedgerOnlyGrows` and `SerialPaidIsFinal` follow from the same invariant.
* `SerialIsAccount`: with a single worker each commit is, invoice by invoice, a
  step of `InvoiceAccount` or a stutter. The invariant `AccountInv` says which one:
  a transaction that cancels, or moves an invoice between its unsettled statuses,
  read an unsettled invoice and brings no money; one that sets paid covers the
  total, or is a PATCH.

`SubscriptionProofs` proves, for every set of workers, rows, customers, plans and
prices, and all four desks:

* `SubTypeCorrect`, through the inductive `InsertInv` (`RowsAppearOnce`). That an
  existing row has a plan depends on who inserts it: a row that does not exist is
  empty, at most one open transaction writes to it, and it inserts it whole.
* `PlansAreCharged` and `ActiveRowsAreBilled`, however the requests overlap,
  through `ChargeInv` and `BillInv`, which bound the plan an open transaction moves
  a row to by what is charged once its own delta invoice is, and tie an open
  activation or closing to the invoice that goes with it. They speak of the rows
  that are not in `Selectable`: a bulk change of plan charges nothing, and a bulk
  activation invoices nothing. In `SubsOverlap` no row is selectable.
* With a single worker, `SchedulesAreCheaper`, `PortalGivesOneSubscription`,
  `StatusesFollowMachine`, `ClosedRowsAreFrozen`, and the refinement
  `SubscriptionsHonourContract`, through `ReadInv`: the open transaction is one that
  its handler would open on the rows as they are now (`UpToDate`). Each handler is
  first shown to open one of seven kinds of transaction (`RequestOpens`), so that
  the steps split by kind and not by handler; each kind then commits as one step of
  `SubscriptionContract` on its row and none on the others. ReadInv also says that
  an offered subscription has no invoice, without which its activation would not be
  the contract's `Start`.

`DunningProofs` proves, for every set of workers, processors, subscriptions,
invoices, batches and days:

* `DunTypeCorrect`, through `DunInv`: InsertInv again, and `BatchInv`, that the rows
  of a batch appear together, for a subscription that exists, and that a run
  executes each row it took on once. A run writes only to rows that exist, so it
  never takes part in an insertion.
* `StepsAreTakenInOrder`, for any number of overlapping processors, through
  `EscalateInv`: with a step, a run takes on every earlier step of the batch that is
  not settled, since an earlier step is due when a later one is; only a deleted
  invoice makes a run pass over a row.
* `PausesAreDunnings`, for any number of overlapping processors and requests,
  through `PauseInv`: whoever is about to write paused is a run that has executed a
  suspend row, and a suspend row is never stored as failed.
* `OutcomesAreFinal`, for one processor, through `FinalInv`: one run is open at a
  time, and what it took on is pending until it ends. With two it is false, and the
  one run of dunning that passes has two, so no run checks it.
* `PaidInvoicesAreSpared`, for any number of overlapping processors: once an
  invoice is paid and no run is open that began before, no subscription is paused
  or closed for it any more. Through `SpareInv`: what a run has punished was unpaid
  when the run began. That it may have been paid since is in section 5.
* `PlansAreChargedBesideDunning`: the theorem `PlansAreCharged` again, of the
  composed system and with any number of overlapping runs. The invariant is
  ChargeInv, which the steps of a run keep because they write statuses only.
  (ActiveIsBilled is not kept: section 5.)

The single worker, and the single processor of OutcomesAreFinal, are not what the
deployment guarantees. The theorems that assume them say that the handlers are
right one at a time, and the findings and section 5 say which of the results an
overlap breaks; every theorem that survives overlaps is stated without them.

`TokenFamiliesProofs` proves, for every number of requests, logins and seconds:

* `TokensTypeCorrect`: the type invariant, which bounds tokens by the clock.
* `OneTokenIsLive`, `RotationsMoveForward`, `UnspentTokensAreLive`, through the
  inductive `FamilyInv` (`FamiliesAreConsistent`). That a family has one live
  token says nothing of the request that has taken the token out and has not yet
  added the next; FamilyInv says that such a request is the only one, that it
  finds the family empty, and that its token is no older than any used up. The
  reason is that the removal succeeds for one request only; the proof of the step
  `Remove` is where that is used.
  `RotationsMoveForward` counts in seconds: no live token is older than one that was
  taken out. Within one second the two are the same token (section 5).
* `RevocationsStay`: an action property, from the type invariant.

`ClientSessionProofs` proves, for every number of people, requests and tokens:

* `ClientTypeCorrect`, and `RefreshIsExclusive` and `RetriesAreBounded` through the
  inductive `CliInv` (`ClientIsConsistent`). OneRefresh does not bound how often a
  request is sent: CliInv ties the count to the `_retry` mark, and the mark to the
  state, so that a request that leads or waits has been sent once and one that was
  sent again is marked.
* `SignInsAreAsked`: an action property; no invariant is needed, for each action
  either keeps the user, signs out, or is the form's own answer.

`ClientProofs` proves, for every set of shapes, any number of mutations, writes
and rows:

* `ScreensTypeCorrect`, `EntriesHaveOwnWrites` and `SubmissionsAreChosen`, through
  the inductive `ClientInv` (`ScreensAreConsistent`), which is the conjunction of
  one invariant for the screens and one for the forms. FreshHasOwnWrites is not
  inductive: an answer under way could make the entry unmarked and old. The
  strengthening (`ReadsAreFresh`) says that a request which has read is at least
  as new as what the entry was told of; the proof of `Success` is where the
  dropping of the overtaken request is used. For SubmittedIsChosen it says that
  whatever the wizard's steps demand is filled in behind the present step
  (`FilledIn`), which no step of the wizard may undo.

All theorems rest on the named assumptions about the constants alone
(`ConstantsAssumption`, `SubscriptionAssumption`, `DunningAssumption`,
`FamilyAssumption`, `ClientAssumption`, `ScreenAssumption`), and on those that a
theorem states. TLC has checked the inductive invariants as invariants of small
instances before they were proved.

Only model-checked: liveness (EveryRequestSettles, PagesSettle), which is
out of the prover's reach, and the tables of the client
(`ClientApi`, `ClientPages`), which are data that the theorems about `Client` take as
any set of shapes. Every invariant, action property and refinement of a passing run
is stated by a theorem. No module with a theorem, nor any it extends, declares a
RECURSIVE operator.

## 5. What the code does not do

### On the server

Four runs are expected to find a violation of what the repository says; the
findings in `PROJECT.json` quote the lines:

* `FindOverpayment`, `FindTwoSubscriptions`: a check and a write that another request
  comes between.
* `FindUnrecordedCapture`: `handle_success` takes the money (`paypal_service.py:149`)
  before it finds that the invoice in the URL does not exist or is another
  customer's (157-160). A transaction that fails after the capture has the same
  effect.
* `FindClosedPaused`: the suspend step of one invoice reopens, as paused, what the
  cancel step of another had closed.

The same models show more of the kind, as their constants are changed or a stronger
property is asked of them, and the passing runs leave these cases out on purpose:

* With two workers, PaidIsFinal fails: a confirmation, cancellation or update
  that read the invoice before it was paid writes its status afterwards. With
  PayPal as well, LedgerOnlyGrows fails: after an overpayment amount_due is
  negative and the portal records it.
* With two workers FollowsMachine and HonoursContract fail: an activation that
  read confirmed reopens a subscription closed meanwhile and bills it again, and
  a cancellation that checked the flag of the old plan closes an unclosable one.
* With two processors OutcomeIsFinal fails: both take the same row, and the second
  overwrites the outcome, with skipped if the invoice was paid in between.
* A run goes by the invoice as it loaded it (`dunning_service.py:98`, `:131`): one
  that is paid while the run is open has its subscription paused or closed all the
  same. PaidBeforeRunIsSpared is about the runs that begin afterwards.
* Nothing calls `process_pending`, which says it is called hourly
  (`dunning_service.py:223`): a due row may wait for ever, and with it whatever an
  unpaid invoice should lead to.
* When the suspend and the cancel step of a batch come due in one run, the
  subscription is left paused if the database returns the cancel step first
  (`app/repositories/billing.py:198`); and a request that overlaps a run overwrites
  the status the run has set.
* Beside dunning ActiveIsBilled fails: a cancellation closes the subscription of
  its invoice whatever its status, one that was never active among them.
* The revocation of the rows on reuse is rolled back by the exception that
  reports it (`auth.py:149-152` and `dependencies/db.py:59-61`): the family is gone
  from Redis, the rows stay open, and the message says all are revoked. The step
  `Delete` is the end of such a request, and it leaves `session` alone.
* A token that is refreshed in the second of its issue is replaced by itself
  (`app/core/security.py:66`), so that a used token is good again.
* A family deleted while a refresh is between its two calls of Redis has a live
  token again when the refresh adds its own. That a family in `ended` stays empty
  is therefore no property of TokenFamilies.
* A refresh whose answer is lost has used up the token; the client that repeats it
  is treated as a reuse. UnspentIsLive is about tokens no refresh has taken out.
* Refresh looks at Redis only, never at the session row.
* Nothing calls `DowngradeService.finalize` (`downgrade.py:10` says a beat task
  does): a scheduled downgrade waits for ever.
* A customer whose subscription dunning paused is refused a second subscription
  (`portal.py:59`) and found to have none by change_plan and cancel
  (`portal.py:326-333`); a payment does not resume it.

### In the client

The session:

* The server answers login, refresh and registration with a flat body
  (`app/schemas/auth.py:59`); `frontend/src/stores/authStore.ts:32` reads
  `data.data.accessToken`, which throws, so that a refresh always ends in
  `RefreshFails`: everybody who waited fails and the person is sent to the login.
* With a server that answers in the expected form, a refresh that is answered
  after a logout, or after another login, gives its token to whoever is signed in
  by then (`authStore.ts:33`). SignInIsAsked is about the user, which a
  refresh keeps, not about the token.
* A full page load signs out; the cookie is not used to sign in again. Logout is
  the client's alone: the server's `/auth/logout` is never called, and the query
  cache is kept, so the next person may be shown entries of the former.
* A visitor of the public page of plans is asked for a subscription; the 401 that
  follows leads to the login.

A page and its dialogs:

* `Missed` lists the pairs of one page in which a mutation writes what a query
  shows and does not invalidate it: the previews of plan changes in the portal,
  the check of a company's slug, the unpaid invoices to choose from after a
  payment, and the list under a bulk job, which the page asks for again only when
  the modal is closed after the job has finished. PagesSettle leaves them out;
  with them it fails.
* Between pages there are more, which no run looks at: a recorded payment and the
  page of its invoice; a generated, confirmed or cancelled invoice and the payment
  summary, the subscription's invoices and the dashboard; an upgrade or downgrade
  by the staff and the list of subscriptions; an upgrade in the portal and the
  customer's invoices; a company's suspension or deletion and the admin
  dashboard; a change of the catalogue and the plans and templates of the wizard.
  Each shows the old state for up to five minutes (`queryClient.ts`, staleTime).
* A success that meets the first load of its query, or a request of an entry that
  is off screen, does not drop that request; if it read before the write, its
  answer clears the mark and the write is missing until the entry is stale by
  age. `told` counts neither.
* Closing PortalPaymentModal under a running payment resets what disables its
  button, and it can be sent again (`PortalPaymentModal.tsx:60`); so can the forms
  that are mounted while they are open. The Subscribe buttons of `PlansPage.tsx`
  are never disabled. The model has these second submissions, and no property
  forbids them: the guards against them are in the server, or missing there
  (OneSubscription, NoOverpayment).
* The wizard that was left while its creation ran still navigates to the new
  subscription when it is answered (`CreateSubscriptionWizard.tsx:54`).
* Proceed is enabled while the conflicts are loading or have failed to load: all
  selected rows are sent. Escape under a running job keeps the selection.
  `toggleSelectAll` compares numbers only: as many rows selected as another
  page shows are unselected by it.
* Deleting the last row of the last page leaves the list on a page that is
  empty. Clearing a search does not cancel the change that is being debounced
  (`SearchInput.tsx:39`), which then brings the term back as a filter.
* Many routes the client calls are not among those of `app/routers`: those of
  `/portal/subscriptions/`, PUT on the profile, the conflicts and the status of
  bulk jobs, and others. The model gives every request both outcomes. The link
  that edits an invoice leads to no route, and PortalDashboard has none.

## 6. Not modelled

On the server:

* *Invoice builder and discounts*: totals are constants of InvoicePayments. The
  usage limit is compared with a count read without a lock, and numbers are a count
  plus one; both give way at the first overlap, and amounts are products and
  roundings of decimals that small integers would not represent.
* *The executor of bulk operations*: its batches that fail one by one while what
  they have flushed is committed, and the status of the job in Redis, which stays
  at running when the task fails. The operations themselves are modelled, as one
  transaction each; BulkApplyDiscount writes a column that no modelled part reads.
* *Revenue recognition*: rows derived from an invoice, deleted and inserted again;
  two overlapping tasks may leave both sets.
* *Invitations and accounts*, *tenant lifecycle*, *rate limiting*: one check and
  one write each, whose overlap has no guard that a property could rest on. An
  invitation may be accepted twice, a tenant deleted beside a subscription just
  created, a counter left without its expiry when the process ends between the two
  calls of Redis (`app/services/rate_limit.py:40`).
* *Pro-rata arithmetic*: amounts are counted at a full billing cycle.
* *Catalogue*: create, read, update and delete of rows, without order among them.
* Routers, schemas and middleware translate HTTP into the calls modelled here;
  churn scores and metrics are statistics over reads; audit log, e-mail and PDF
  are output. Keys in Redis expire with the tokens they hold, and are not expired
  in the model.

In the client:

* *Presentation*: tables, charts, badges, formatting, layout and the types. They
  show what they are given and keep no state that another part reads.
* Branding of tenants, the contents of forms and their validation, quantities,
  prices and notes of the wizard, the Retry button of a query whose request is
  already under way, the delay and number of its automatic retries (part of the
  one request), and which of several pages is on screen: one entry, one dialog and
  one page are followed at a time, which is why the pairs between pages are listed
  above and not checked.
* How client and server fit together: ClientSession and TokenFamilies are not
  composed, because in this commit no refresh of the client succeeds.
