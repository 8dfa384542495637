----------------------------- MODULE IdealLedger -----------------------------
(***************************************************************************)
(* What the wallet ledger promises its callers, with no rows, locks or      *)
(* workers: a set of money movements, each named by an idempotency key that *)
(* is used once in the whole installation, and a balance per wallet that    *)
(* moves only together with the movement that explains it.                  *)
(*                                                                          *)
(* WalletLedger is shown to implement this module.                          *)
(***************************************************************************)
EXTENDS Integers

CONSTANTS
    Wallets,    \* the wallets of all customers
    Keys,       \* the idempotency keys callers may present
    Deltas      \* the signed amounts that may move, integers

VARIABLES
    total,      \* total[w]: the cash of wallet w
    moved       \* the movements applied so far: <<wallet, key, signed amount>>

vars == <<total, moved>>

Init ==
    /\ total = [w \in Wallets |-> 0]
    /\ moved = {}

\* One movement of d on wallet w under a key nobody has used.
Move(w, k, d) ==
    /\ \A m \in moved : m[2] # k
    /\ total' = [total EXCEPT ![w] = @ + d]
    /\ moved' = moved \cup {<<w, k, d>>}

Next == \E w \in Wallets, k \in Keys, d \in Deltas : Move(w, k, d)

Spec == Init /\ [][Next]_vars
==============================================================================
