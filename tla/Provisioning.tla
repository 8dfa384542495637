----------------------------- MODULE Provisioning -----------------------------
(***************************************************************************)
(* Delivery of one paid order: the Celery task provision_paid_order and the *)
(* service provision_order_subscription it drives, which open an account at *)
(* a VPN provider for the order's subscription.                             *)
(*                                                                          *)
(* A task message may be delivered more than once, and staff may queue the  *)
(* order again, so several workers can run the task.  They meet in one      *)
(* short transaction that takes a five-minute lease on the subscription;    *)
(* everything after it (the requests to the provider, the saving of what it *)
(* answered, the status of the order) runs without a lock, on objects read  *)
(* earlier, and a worker may die between any two of these steps.            *)
(***************************************************************************)
EXTENDS Integers

CONSTANTS
    Workers,        \* Celery workers
    Kinds,          \* provider types the order's provider may be of
    MaxDeliveries   \* bound on the task messages

ASSUME ProvisioningAssumption ==
    /\ Kinds \subseteq {"hiddify", "connectix", "other"}
    /\ MaxDeliveries \in Nat

VARIABLES
    kind,       \* the type of the provider; "other" has no adapter
    faults,     \* what has gone wrong so far, for the properties only
    order,      \* Order.status
    paid,       \* whether the confirmed payments cover the price
    sub,        \* the Subscription and its ProviderRemoteSubscription
    queue,      \* task messages waiting
    sent,       \* task messages sent
    accounts,   \* accounts the provider has opened for the order
    job         \* job[p]: where worker p is in the task

vars == <<kind, faults, order, paid, sub, queue, sent, accounts, job>>

Errors == {"unsupported", "retryable_error", "needs_review"}

\* identity: a remote id (or uuid) is saved.  lease: provisioning_started_at
\* is null, within the last five minutes, or older.
Subscription == [status : {"pending", "active"},
                 state : {"queued", "in_progress", "active"} \cup Errors,
                 attempts : Nat, identity : BOOLEAN,
                 lease : {"never", "held", "lapsed"}]

\* "begun" has read the order, "leased" holds the lease, "create" and "query"
\* are about to call the provider, "created" has its answer, "finished" has
\* tried, "refreshed" and "returned" know the subscription's status.
Job == [pc : {"idle", "begun", "leased", "create", "created", "query", "finished"}]
       \cup [pc : {"refreshed", "returned"}, status : {"pending", "active"}]

At(p, pc) == job[p].pc = pc

Goto(p, pc) == job' = [job EXCEPT ![p] = [pc |-> pc]]

Return(p, pc, status) == job' = [job EXCEPT ![p] = [pc |-> pc, status |-> status]]

-----------------------------------------------------------------------------
Init ==
    /\ kind \in Kinds
    /\ faults = {}
    /\ order = "paid"
    /\ paid = TRUE
    /\ sub = [status |-> "pending", state |-> "queued", attempts |-> 0,
              identity |-> FALSE, lease |-> "never"]
    /\ queue = 1
    /\ sent = 1
    /\ accounts = 0
    /\ job = [p \in Workers |-> [pc |-> "idle"]]

\* The broker delivers a message again.
Redeliver ==
    /\ sent < MaxDeliveries
    /\ queue' = queue + 1
    /\ sent' = sent + 1
    /\ UNCHANGED <<kind, faults, order, paid, sub, accounts, job>>

\* change_order_safely(status="paid") queues the order again.
SetPaid ==
    /\ sent < MaxDeliveries
    /\ order \in {"paid", "processing"}
    /\ paid
    /\ order' = "paid"
    /\ queue' = queue + 1
    /\ sent' = sent + 1
    /\ UNCHANGED <<kind, faults, paid, sub, accounts, job>>

\* A worker takes a message; only a paid order goes on.
Begin(p) ==
    /\ At(p, "idle")
    /\ queue > 0
    /\ queue' = queue - 1
    /\ IF order \in {"paid", "processing"} /\ paid THEN Goto(p, "begun") ELSE UNCHANGED job
    /\ UNCHANGED <<kind, faults, order, paid, sub, sent, accounts>>

-----------------------------------------------------------------------------
(* The transaction under the subscription's row lock *)

\* Mutant of Ambiguous: one attempt too many is allowed.
AmbiguousLater == sub.attempts > 1 /\ ~sub.identity

\* An earlier attempt left no account that is known.
Ambiguous == sub.attempts > 0 /\ ~sub.identity

AlreadyActive(p) ==
    /\ At(p, "begun")
    /\ sub.status = "active"
    /\ Goto(p, "idle")
    /\ UNCHANGED <<kind, faults, order, paid, sub, queue, sent, accounts>>

\* An earlier attempt may have opened an account: no attempt may follow it.
HoldForReview(p) ==
    /\ At(p, "begun")
    /\ sub.status # "active"
    /\ Ambiguous
    /\ sub' = [sub EXCEPT !.state = "needs_review"]
    /\ Goto(p, "idle")
    /\ UNCHANGED <<kind, faults, order, paid, queue, sent, accounts>>

AlreadyRunning(p) ==
    /\ At(p, "begun")
    /\ sub.status # "active"
    /\ ~Ambiguous
    /\ sub.lease = "held"
    /\ Goto(p, "idle")
    /\ UNCHANGED <<kind, faults, order, paid, sub, queue, sent, accounts>>

\* Mutant of TakeLease: the lease of another run is not respected.
TakeOverLease(p) ==
    /\ At(p, "begun")
    /\ sub.status # "active"
    /\ ~Ambiguous
    /\ sub' = [sub EXCEPT !.lease = "held", !.attempts = @ + 1, !.state = "in_progress"]
    /\ Goto(p, "leased")
    /\ UNCHANGED <<kind, faults, order, paid, queue, sent, accounts>>

TakeLease(p) ==
    /\ At(p, "begun")
    /\ sub.status # "active"
    /\ ~Ambiguous
    /\ sub.lease # "held"
    /\ sub' = [sub EXCEPT !.lease = "held", !.attempts = @ + 1, !.state = "in_progress"]
    /\ Goto(p, "leased")
    /\ UNCHANGED <<kind, faults, order, paid, queue, sent, accounts>>

\* Five minutes pass, perhaps for a run that is still going on.
LeaseLapses ==
    /\ sub.lease = "held"
    /\ sub' = [sub EXCEPT !.lease = "lapsed"]
    /\ faults' = IF \A p \in Workers : job[p].pc \in {"idle", "begun"}
                   THEN faults ELSE faults \cup {"overrun"}
    /\ UNCHANGED <<kind, order, paid, queue, sent, accounts, job>>

-----------------------------------------------------------------------------
(* provision_order_subscription, without a lock *)

\* The provider is missing or inactive, or its type has no adapter.
NoProvider(p) ==
    /\ At(p, "leased")
    /\ sub.status # "active"
    /\ \/ sub' = [sub EXCEPT !.state = "retryable_error"]
       \/ kind = "other" /\ sub' = [sub EXCEPT !.state = "unsupported"]
    /\ Return(p, "returned", "pending")
    /\ UNCHANGED <<kind, faults, order, paid, queue, sent, accounts>>

\* The subscription is read: done, to be looked up, or to be created.
Load(p) ==
    /\ At(p, "leased")
    /\ \/ sub.status = "active" /\ Return(p, "returned", "active")
       \/ /\ sub.status # "active"
          /\ kind # "other"
          /\ Goto(p, IF sub.identity THEN "query" ELSE "create")
    /\ UNCHANGED <<kind, faults, order, paid, sub, queue, sent, accounts>>

\* A provider call failed.  Connectix errors ask for review; Hiddify's client
\* swallows errors and answers nothing.
CallFailed(p) ==
    /\ sub' = IF kind = "connectix" THEN [sub EXCEPT !.state = "needs_review"] ELSE sub
    /\ Goto(p, "finished")

\* The create request, sent once: it succeeds, or fails, or succeeds but its
\* answer is lost.
Create(p) ==
    /\ At(p, "create")
    /\ \/ accounts' = accounts + 1 /\ Goto(p, "created") /\ UNCHANGED sub
       \/ accounts' \in {accounts, accounts + 1} /\ CallFailed(p)
    /\ UNCHANGED <<kind, faults, order, paid, queue, sent>>

\* Mutant of SaveIdentity: a save that failed goes unnoticed.
SaveIdentityOrGoOn(p) ==
    /\ At(p, "created")
    /\ sub' \in {sub, [sub EXCEPT !.identity = TRUE]}
    /\ Goto(p, "query")
    /\ UNCHANGED <<kind, faults, order, paid, queue, sent, accounts>>

\* The account's identity is saved, unless the database refuses; that error
\* is swallowed.
SaveIdentity(p) ==
    /\ At(p, "created")
    /\ \/ sub' = [sub EXCEPT !.identity = TRUE] /\ Goto(p, "query")
       \/ UNCHANGED sub /\ Goto(p, "finished")
    /\ UNCHANGED <<kind, faults, order, paid, queue, sent, accounts>>

\* The account is looked up: it is ready, not ready yet, or the call fails.
Query(p) ==
    /\ At(p, "query")
    /\ \/ /\ sub' = [sub EXCEPT !.status = "active", !.state = "active"]
          /\ Goto(p, "finished")
       \/ UNCHANGED sub /\ Goto(p, "finished")
       \/ CallFailed(p)
    /\ UNCHANGED <<kind, faults, order, paid, queue, sent, accounts>>

\* Mutant of Refresh: the object in memory is trusted.
TrustMemory(p) ==
    /\ At(p, "finished")
    /\ Return(p, "refreshed", "pending")
    /\ UNCHANGED <<kind, faults, order, paid, sub, queue, sent, accounts>>

\* The subscription is read again before the order is saved.
Refresh(p) ==
    /\ At(p, "finished")
    /\ Return(p, "refreshed", sub.status)
    /\ UNCHANGED <<kind, faults, order, paid, sub, queue, sent, accounts>>

\* The order object read when the service began is saved with a new status.
WriteOrder(p) ==
    /\ At(p, "refreshed")
    /\ order' = IF job[p].status = "active" THEN "completed" ELSE "processing"
    /\ Return(p, "returned", job[p].status)
    /\ UNCHANGED <<kind, faults, paid, sub, queue, sent, accounts>>

-----------------------------------------------------------------------------
(* Back in the task *)

\* Mutant of Settled: a run that failed may always be retried.
AlwaysRetryable(s) == [s EXCEPT !.state = IF @ \in Errors THEN @ ELSE "retryable_error"]

\* Mutant of Settled: only a run with a saved identity is settled.
SettledIfIdentified(s) ==
    IF s.identity /\ s.state \notin Errors THEN [s EXCEPT !.state = "retryable_error"] ELSE s

\* What an unsuccessful run leaves: an error it already recorded stands.
Settled(s) ==
    [s EXCEPT !.state = IF @ \in Errors THEN @
                        ELSE IF s.identity THEN "retryable_error" ELSE "needs_review"]

Finish(p) ==
    /\ At(p, "returned")
    /\ sub' = IF job[p].status = "active" THEN [sub EXCEPT !.state = "active"] ELSE Settled(sub)
    /\ Goto(p, "idle")
    /\ UNCHANGED <<kind, faults, order, paid, queue, sent, accounts>>

\* An exception leaves the service (the database fails outside the provider
\* calls): the task's except clause records it.
Raise(p) ==
    /\ job[p].pc \in {"leased", "finished", "refreshed"}
    /\ sub' = [sub EXCEPT !.state = IF sub.identity THEN "retryable_error" ELSE "needs_review"]
    /\ Goto(p, "idle")
    /\ faults' = faults \cup {"error"}
    /\ UNCHANGED <<kind, order, paid, queue, sent, accounts>>

\* The worker process dies; its message was acknowledged when it began.
Die(p) ==
    /\ ~At(p, "idle")
    /\ Goto(p, "idle")
    /\ faults' = faults \cup {"death"}
    /\ UNCHANGED <<kind, order, paid, sub, queue, sent, accounts>>

\* Staff refund the order's payment.
Refund ==
    /\ paid
    /\ paid' = FALSE
    /\ order' = "refunded"
    /\ UNCHANGED <<kind, faults, sub, queue, sent, accounts, job>>

-----------------------------------------------------------------------------
Service(p) ==
    \/ NoProvider(p)
    \/ Load(p)
    \/ Create(p)
    \/ SaveIdentity(p)
    \/ Query(p)
    \/ Refresh(p)
    \/ WriteOrder(p)

Task(p) ==
    \/ Begin(p)
    \/ AlreadyActive(p)
    \/ HoldForReview(p)
    \/ AlreadyRunning(p)
    \/ TakeLease(p)
    \/ Service(p)
    \/ Finish(p)

Next ==
    \/ Redeliver
    \/ SetPaid
    \/ LeaseLapses
    \/ \E p \in Workers : Task(p) \/ Raise(p) \/ Die(p)

Spec == Init /\ [][Next]_vars

\* The workers that live go on; others take the place of those that died.
FairSpec == Spec /\ \A p \in Workers : WF_vars(Task(p))

RefundSpec == Init /\ [][Next \/ Refund]_vars

-----------------------------------------------------------------------------
(* Properties *)

\* Types of the columns and of the task's local state.
TypeOK ==
    /\ kind \in Kinds
    /\ faults \subseteq {"overrun", "error", "death"}
    /\ order \in {"paid", "processing", "completed", "refunded"}
    /\ paid \in BOOLEAN
    /\ sub \in Subscription
    /\ queue \in Nat
    /\ sent \in Nat
    /\ accounts \in Nat
    /\ job \in [Workers -> Job]

\* However often the task is delivered, retried, killed or outlives its
\* lease, the provider opens at most one account for the order.
AtMostOneAccount == accounts <= 1

\* A completed order can be served: its subscription is active, and an active
\* subscription knows the one account of its customer.
CompletedIsServed ==
    /\ order = "completed" => sub.status = "active"
    /\ sub.status = "active" => sub.identity /\ accounts = 1

\* A run marked safe to retry cannot open a second account: nothing was
\* opened yet, or the account is known.
RetryIsSafe == sub.state = "retryable_error" => sub.identity \/ accounts = 0

\* Every started run leaves a verdict behind, unless a worker died.
RunsAreSettled ==
    sub.state = "in_progress" ~> sub.state # "in_progress" \/ "death" \in faults

\* The order of an active subscription is completed in the end, also when
\* several runs took turns on it, unless one outlived its lease, died or was
\* interrupted.
ServedIsCompleted == sub.status = "active" ~> order = "completed" \/ faults # {}

\* While runs end within their lease a completed order stays completed: no
\* run that overlaps the one which completed it writes an older view of the
\* subscription over it.
CompletedIsFinal ==
    [][order = "completed" /\ "overrun" \notin faults => order' = "completed"]_vars

\* Provisioning completes orders only while their payments cover them.
CompletedIsPaid == order = "completed" => paid
==============================================================================
