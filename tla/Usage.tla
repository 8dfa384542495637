--------------------------------- MODULE Usage ---------------------------------
(***************************************************************************)
(* One Connectix account and our copy of it: sync_connectix_status of       *)
(* vpn_providers/tasks.py, and the condition of the low-usage warning that  *)
(* subscriptions/reminders.py reads from the copy.                          *)
(*                                                                          *)
(* A beat starts a synchronisation every five minutes whether or not the    *)
(* last one has ended.  A run lists the provider's accounts first and saves *)
(* what it saw account by account, the subscription after the remote row,   *)
(* so two runs may save in the other order than they listed.                *)
(***************************************************************************)
EXTENDS Naturals

CONSTANTS
    Workers,    \* Celery workers
    Levels,     \* how much of the term may be left
    MaxTerm     \* bound on the terms of the account

\* "days" and "traffic" are below their warning thresholds.
ASSUME UsageAssumption ==
    /\ {"plenty", "expired"} \subseteq Levels
    /\ Levels \subseteq {"plenty", "days", "traffic", "expired", "inactive"}
    /\ MaxTerm \in Nat \ {0}

VARIABLES
    account,    \* the account at the provider
    copy,       \* what ProviderRemoteSubscription says of it
    fresh,      \* last_synced_at lies within thirty minutes
    status,     \* Subscription.status
    sync        \* sync[p]: the synchronisation that worker p runs

usage == <<account, copy, fresh, status, sync>>

\* A term is what expire_date and the group of a renewal tell apart.
Account == [term : 1 .. MaxTerm, level : Levels]

Statuses == {"active", "expired", "suspended", "cancelled"}

NoSync == [pc |-> "none"]

Sync == {NoSync} \cup [pc : {"listed"}, saw : Account]
            \cup [pc : {"copied"}, status : Statuses]

UsageInit ==
    /\ account = [term |-> 1, level |-> "plenty"]
    /\ copy = account
    /\ fresh = TRUE
    /\ status = "active"
    /\ sync = [p \in Workers |-> NoSync]

-----------------------------------------------------------------------------
(* The provider, the clock and staff *)

Consume ==
    /\ account.level # "expired"
    /\ \E level \in Levels \ {"plenty", account.level} :
          /\ level \in {"days", "traffic"} => account.level = "plenty"
          /\ account' = [account EXCEPT !.level = level]
    /\ UNCHANGED <<copy, fresh, status, sync>>

Renew ==
    /\ account.term < MaxTerm
    /\ account' = [term |-> account.term + 1, level |-> "plenty"]
    /\ UNCHANGED <<copy, fresh, status, sync>>

\* Thirty minutes without a synchronisation.
GrowOld ==
    /\ fresh
    /\ fresh' = FALSE
    /\ UNCHANGED <<account, copy, status, sync>>

\* The status field of the Subscription form.
Cancel ==
    /\ status # "cancelled"
    /\ status' = "cancelled"
    /\ UNCHANGED <<account, copy, fresh, sync>>

-----------------------------------------------------------------------------
(* sync_connectix_status *)

Do(p, s) == sync' = [sync EXCEPT ![p] = s]

\* The pages of the provider's client list.
List(p) ==
    /\ sync[p] = NoSync
    /\ Do(p, [pc |-> "listed", saw |-> account])
    /\ UNCHANGED <<account, copy, fresh, status>>

StatusOf(level) ==
    CASE level = "expired" -> "expired"
      [] level = "inactive" -> "suspended"
      [] OTHER -> "active"

\* A cancelled subscription stays so.
StatusAfter(level) == IF status = "cancelled" THEN status ELSE StatusOf(level)

\* Mutant of CopyAccount: the saved metadata overrides what was listed.
CopyUnderSaved(p) ==
    /\ sync[p].pc = "listed"
    /\ fresh' = TRUE
    /\ Do(p, [pc |-> "copied", status |-> StatusAfter(sync[p].saw.level)])
    /\ UNCHANGED <<account, copy, status>>

\* The remote row is saved; its subscription was loaded with it.
CopyAccount(p) ==
    /\ sync[p].pc = "listed"
    /\ copy' = sync[p].saw
    /\ fresh' = TRUE
    /\ Do(p, [pc |-> "copied", status |-> StatusAfter(sync[p].saw.level)])
    /\ UNCHANGED <<account, status>>

\* The loaded subscription is saved with its new status, unless it was
\* cancelled when it was loaded.
CopyStatus(p) ==
    /\ sync[p].pc = "copied"
    /\ status' = IF sync[p].status = "cancelled" THEN status ELSE sync[p].status
    /\ Do(p, NoSync)
    /\ UNCHANGED <<account, copy, fresh>>

\* The listing fails, or the worker dies.
AbandonSync(p) ==
    /\ sync[p] # NoSync
    /\ Do(p, NoSync)
    /\ UNCHANGED <<account, copy, fresh, status>>

-----------------------------------------------------------------------------
\* warning_reason: days count only while the copy is fresh, traffic always.
\* warning_cycle: the term is the copy's.
WarningDue(term) ==
    /\ status = "active"
    /\ copy.term = term
    /\ \/ copy.level = "days" /\ fresh
       \/ copy.level = "traffic"

UsageTypeOK ==
    /\ account \in Account
    /\ copy \in Account
    /\ fresh \in BOOLEAN
    /\ status \in Statuses
    /\ sync \in [Workers -> Sync]

\* When the account changes no more, our copy and the subscription's status
\* come to say what it is, although runs that overlap may save what they
\* listed earlier.
CopyCatchesUp ==
    \/ []<>(status = "cancelled")
    \/ <>[](copy = account /\ status = StatusOf(account.level))
===============================================================================
