---------------------------- MODULE InvoiceAccount ----------------------------
(***************************************************************************)
(* What the billing services promise for each invoice, without requests or *)
(* transactions: an account that money arrives on, one receipt at a time.  *)
(* It is settled by the receipt that covers the total, or by the staff's   *)
(* word, and stays settled; it is voided only while it is open.            *)
(***************************************************************************)
EXTENDS Integers

CONSTANTS Invoices, Total

VARIABLES
  state,   \* "absent", "open", "settled" or "void"
  money    \* the money received

accountVars == <<state, money>>

AccountInit ==
  /\ state = [i \in Invoices |-> "absent"]
  /\ money = [i \in Invoices |-> 0]

Bill(i) ==
  /\ state[i] = "absent"
  /\ state' = [state EXCEPT ![i] = "open"]
  /\ UNCHANGED money

\* Money for a void account is taken too: a PayPal capture cannot be undone.
Receive(i) ==
  /\ state[i] # "absent"
  /\ money'[i] >= money[i]
  /\ money' = [money EXCEPT ![i] = money'[i]]
  /\ state' = [state EXCEPT ![i] = IF money'[i] >= Total[i]
                                     THEN "settled" ELSE @]

Void(i) ==
  /\ state[i] = "open"
  /\ state' = [state EXCEPT ![i] = "void"]
  /\ UNCHANGED money

\* The staff marks an account settled that the money has not.
Settle(i) ==
  /\ state[i] = "open"
  /\ state' = [state EXCEPT ![i] = "settled"]
  /\ UNCHANGED money

AccountNext ==
  \E i \in Invoices : Bill(i) \/ Void(i) \/ Settle(i) \/ Receive(i)

AccountSpec == AccountInit /\ [][AccountNext]_accountVars
=============================================================================
