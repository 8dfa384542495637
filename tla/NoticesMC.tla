------------------------------- MODULE NoticesMC -------------------------------
(* Constant values for TLC. *)
EXTENDS Notices, TLC

CONSTANTS a, b, n1, n2

About(kind, subject, messages) ==
    [kind |-> kind, about |-> subject, messages |-> messages]

\* b is the one who may be invited; the warning is of the account's first term.
MCScenes == {(n1 :> About("join", b, 2)) @@ (n2 :> About("none", 0, 0)),
             (n1 :> About("low", 1, 1)) @@ (n2 :> About("none", 0, 0)),
             (n1 :> About("rule", 0, 2)) @@ (n2 :> About("gift", 0, 2)),
             (n1 :> About("offer", 0, 2)) @@ (n2 :> About("gift", 0, 2))}
===============================================================================
