-------------------------- MODULE MCInvoicePayments --------------------------
(* Small instances of InvoicePayments for TLC.                             *)
EXTENDS InvoicePayments, TLC
\* One invoice of total 2; any further one has total 0 (a discount that takes
\* the whole subtotal, an upgrade whose credit exceeds its charge).
MCTotal == [i \in Invoices |-> IF i = (CHOOSE j \in Invoices : TRUE) THEN 2 ELSE 0]
\* All the invoices are of one customer; any other customer has none.
MCOwner == [i \in Invoices |-> CHOOSE c \in Customers : TRUE]
MCSymmetry == Permutations(Workers)
=============================================================================
