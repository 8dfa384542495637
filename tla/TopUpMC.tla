-------------------------------- MODULE TopUpMC --------------------------------
(* Constant values for TLC. *)
EXTENDS TopUp, TLC

CONSTANTS t1, t2, t3

MCMethod == (t1 :> "card") @@ (t2 :> "stars") @@ (t3 :> "crypto")
MCAmount == (t1 :> 1) @@ (t2 :> 2) @@ (t3 :> 4)

\* A card receipt, or Stars beside a crypto payment.
MCAsked == {{t1}, {t2, t3}}
===============================================================================
