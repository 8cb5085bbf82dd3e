------------------------- MODULE SubscriptionContract -------------------------
(***************************************************************************)
(* What the subscription services promise for each subscription, without   *)
(* requests or transactions: it is offered, runs once it has been billed,  *)
(* and ends for good, never on a plan that cannot be closed; and it is     *)
(* never on a plan dearer than what its customer was charged for.          *)
(***************************************************************************)
EXTENDS Integers

CONSTANTS Subs, Plans, Price, Closable

VARIABLES
  phase,    \* "absent", "offered", "running" or "ended"
  current,  \* the plan
  invoices, \* the number of subscription invoices
  charged   \* the full-cycle price its customer was charged

contractVars == <<phase, current, invoices, charged>>

ContractInit ==
  /\ phase = [s \in Subs |-> "absent"]
  /\ current \in [Subs -> {current[s] : s \in Subs}]
  /\ invoices = [s \in Subs |-> 0]
  /\ charged = [s \in Subs |-> 0]

Offer(s, p) ==
  /\ phase[s] = "absent"
  /\ phase' = [phase EXCEPT ![s] = "offered"]
  /\ current' = [current EXCEPT ![s] = p]
  /\ charged' = [charged EXCEPT ![s] = Price[p]]
  /\ UNCHANGED invoices

\* The subscription starts, and is billed for it: there and then for a
\* customer of the portal, after an offer for a customer of the staff.
Start(s) ==
  /\ phase[s] = "offered"
  /\ phase' = [phase EXCEPT ![s] = "running"]
  /\ invoices' = [invoices EXCEPT ![s] = 1]
  /\ UNCHANGED <<current, charged>>

Subscribe(s, p) ==
  /\ phase[s] = "absent"
  /\ phase' = [phase EXCEPT ![s] = "running"]
  /\ current' = [current EXCEPT ![s] = p]
  /\ invoices' = [invoices EXCEPT ![s] = 1]
  /\ charged' = [charged EXCEPT ![s] = Price[p]]

\* A running subscription is charged for a dearer plan; to a plan that has
\* been charged for it may be moved at any time.
Move(s, p) ==
  /\ phase[s] # "absent"
  /\ charged'[s] >= charged[s]
  /\ charged'[s] >= Price[p]
  /\ charged'[s] > charged[s] => phase[s] = "running"
  /\ charged' = [charged EXCEPT ![s] = charged'[s]]
  /\ current' = [current EXCEPT ![s] = p]
  /\ UNCHANGED <<phase, invoices>>

End(s) ==
  /\ phase[s] = "running"
  /\ current[s] \in Closable
  /\ phase' = [phase EXCEPT ![s] = "ended"]
  /\ UNCHANGED <<current, invoices, charged>>

ContractNext ==
  \E s \in Subs :
    \/ Start(s)
    \/ End(s)
    \/ \E p \in Plans : Offer(s, p) \/ Subscribe(s, p) \/ Move(s, p)

ContractSpec == ContractInit /\ [][ContractNext]_contractVars
=============================================================================
