------------------------------ MODULE MCDunning ------------------------------
(* Small instances of Dunning for TLC.                                     *)
EXTENDS Dunning, TLC
\* One customer owns all the rows; every invoice is for the first row.
MCOwner == [s \in Subs |-> CHOOSE c \in Customers : TRUE]
MCSubOf == [i \in Invoices |-> CHOOSE s \in Subs : \A t \in Subs : s <= t]
\* The batches are spread over the invoices.
MCInvoiceOf ==
  LET one == CHOOSE i \in Invoices : TRUE
      others == Invoices \ {one}
  IN  [b \in Batches |-> IF b = 2 /\ others # {} THEN CHOOSE i \in others : TRUE
                                                ELSE one]
MCPrice == [p \in Plans |-> p]
MCSymmetry == Permutations(Processors)
=============================================================================
