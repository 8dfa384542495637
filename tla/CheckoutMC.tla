------------------------------ MODULE CheckoutMC ------------------------------
(***************************************************************************)
(* TLC instances of Checkout: the orders of one customer, who shares the  *)
(* wallet and the coupon between them.                                      *)
(***************************************************************************)
EXTENDS Checkout, TLC

CONSTANT u1

MCOwner == [o \in Orders |-> u1]

Symmetry == Permutations(Orders) \cup Permutations(Reviewers)
==============================================================================
