------------------------------- MODULE RewardsMC -------------------------------
(* Constant values for TLC. *)
EXTENDS Rewards, TLC

CONSTANTS o1, o2, o3, r1, r2

\* The second order is a repeat purchase of the first referee.
MCReferee == (o1 :> r1) @@ (o2 :> r1) @@ (o3 :> r2)
MCRank == (o1 :> 1) @@ (o2 :> 2) @@ (o3 :> 3)
MCWorth == (o1 :> 1) @@ (o2 :> 2) @@ (o3 :> 4)
MCTiers == {[target |-> 1, fee |-> 1], [target |-> 2, fee |-> 2]}
MCOnePurchase == {[target |-> 1, fee |-> 1]}
MCOneTier == {[target |-> 2, fee |-> 1]}

\* Two orders only.
MCTwoReferees == (o1 :> r1) @@ (o3 :> r2)
MCTwoRanks == (o1 :> 1) @@ (o3 :> 3)
MCTwoWorths == (o1 :> 1) @@ (o3 :> 4)

\* Workers are interchangeable; used with safety properties only.
WorkerSymmetry == Permutations(Workers)
===============================================================================
