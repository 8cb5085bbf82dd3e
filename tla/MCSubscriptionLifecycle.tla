----------------------- MODULE MCSubscriptionLifecycle -----------------------
(* Small instances of SubscriptionLifecycle for TLC.                       *)
EXTENDS SubscriptionLifecycle, TLC
\* The first customer owns the odd rows; a second one, if there is one, the
\* even rows.
MCOwner ==
  LET one == CHOOSE c \in Customers : TRUE
      others == Customers \ {one}
  IN  [s \in Subs |-> IF s % 2 = 0 /\ others # {} THEN CHOOSE c \in others : TRUE
                                                  ELSE one]
\* Plans are numbers, dearer as they grow.
MCPrice == [p \in Plans |-> p]
MCSymmetry == Permutations(Workers)
=============================================================================
