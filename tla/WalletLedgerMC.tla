---------------------------- MODULE WalletLedgerMC ----------------------------
(***************************************************************************)
(* TLC instances of WalletLedger.  Wallets, workers and keys are model      *)
(* values and are interchangeable, so safety runs use their symmetry.       *)
(***************************************************************************)
EXTENDS WalletLedger, TLC

MCAmounts == {-1, 1, 2}

\* acked only records the past: no action reads it, and as rows are only added
\* a request once found booked stays so, whatever was acknowledged before.
\* Nobody has the form open in Spec.
WithoutAcked == <<balance, usable, rows, lock, job, day>>

Symmetry == Permutations(Wallets) \cup Permutations(Workers) \cup Permutations(Keys)
==============================================================================
