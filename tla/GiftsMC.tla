-------------------------------- MODULE GiftsMC --------------------------------
(* Constant values for TLC. *)
EXTENDS Gifts, TLC

CONSTANTS g1, g2, u1, u2, b1, b2

\* Two gifts of two buyers.
MCBuyer == (g1 :> b1) @@ (g2 :> b2)

\* A gift from its payment on.
OneGift == (g1 :> "unpaid") @@ (g2 :> "void")

\* One person and two gifts whose accounts are active; two people and one gift.
MCScenarios == {[stage |-> (g1 :> "ready") @@ (g2 :> "ready"), visitors |-> {u1}],
                [stage |-> OneGift, visitors |-> {u1, u2}]}

MCOneGift == {[stage |-> OneGift, visitors |-> {u1}]}

WorkerSymmetry == Permutations(Workers)
===============================================================================
