-------------------------------- MODULE MenusMC -------------------------------
(* The absences some answer depends on, with and without the right of the     *)
(* staff: whatever a handler may answer, it can answer in this instance, since *)
(* the keyboard is still there when the things have gone.  The keyboards and   *)
(* buttons are those of the code.                                              *)
EXTENDS Menus

Lacking == {{}} \cup {{k} : k \in Kinds} \cup {{"referrals", "support"}, {"plan", "unpaid"}}
MCAbsences == Lacking \cup {l \cup {"staff"} : l \in Lacking}

ASSUME EveryAnswerIsPossible ==
    \A b \in DOMAIN Answers : \A a \in Answers[b] : a.lacks \in MCAbsences
=============================================================================
