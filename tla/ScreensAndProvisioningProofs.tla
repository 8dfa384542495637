---------------------- MODULE ScreensAndProvisioningProofs ----------------------
(***************************************************************************)
(* Proofs about the two components whose state is one record shared by      *)
(* concurrent actors who work on copies of it.                              *)
(*                                                                          *)
(* Provisioning, for any number of workers and deliveries, with runs that   *)
(* may outlive their lease, die or be interrupted by a failing database.    *)
(* The lease is not what keeps the order at one account.  The argument is   *)
(* that until an identity is saved only the first attempt runs: any later   *)
(* worker finds attempts > 0 and is held for review.  So nobody but that    *)
(* first run can create an account or save its identity, and who comes      *)
(* after the identity is saved looks the account up and creates none.       *)
(*                                                                          *)
(* BotScreens, for any number of messages handled at a time, forms, items   *)
(* and plans.  No handler looks whether the row it goes on with is still    *)
(* the row.  The argument is that whatever row a message is read in as an   *)
(* answer that is kept, that row holds the other answers of one form and    *)
(* that form's question is the one that is open (Whole); so the copy a      *)
(* handler writes back late is whole, however stale it is.                  *)
(***************************************************************************)
EXTENDS Provisioning, BotScreens, FiniteSetTheorems, TLAPS

-----------------------------------------------------------------------------
(* The delivery of an order *)

Running(p) == job[p].pc \notin {"idle", "begun"}

\* Before the first attempt nothing has happened.
Untouched ==
    sub.attempts = 0 => /\ accounts = 0
                        /\ ~sub.identity
                        /\ \A p \in Workers : ~Running(p)

\* While no identity is saved there is one run, and it is ahead of its
\* create request until that request is sent.
FirstRunOnly ==
    ~sub.identity =>
        /\ \A p, q \in Workers : Running(p) /\ Running(q) => p = q
        /\ \A p \in Workers : job[p].pc \in {"leased", "create"} => accounts = 0
        /\ \A p \in Workers : job[p].pc \in {"leased", "create", "created"} =>
              sub.state # "retryable_error"

\* Once an identity is saved, nobody creates.
IdentityEndsCreation ==
    sub.identity => /\ accounts = 1
                    /\ \A p \in Workers : job[p].pc \notin {"create", "created"}

\* What a run knows is still so.
RunsKnow ==
    \A p \in Workers :
        /\ job[p].pc = "created" => accounts = 1
        /\ job[p].pc = "query" => sub.identity
        /\ job[p].pc \in {"refreshed", "returned"} /\ job[p].status = "active" =>
              sub.status = "active"

\* The two halves of CompletedIsServed.
ActiveIsIdentified == sub.status = "active" => sub.identity /\ accounts = 1
CompletedIsActive == order = "completed" => sub.status = "active"

\* The inductive invariant.
DeliveryInv ==
    /\ TypeOK
    /\ AtMostOneAccount
    /\ Untouched
    /\ FirstRunOnly
    /\ IdentityEndsCreation
    /\ RunsKnow
    /\ ActiveIsIdentified
    /\ CompletedIsActive
    /\ RetryIsSafe
-----------------------------------------------------------------------------
\* A paid order that nobody has begun to deliver satisfies the invariant.
LEMMA InitEstablishesDeliveryInv == Init => DeliveryInv
  <1> SUFFICES ASSUME Init PROVE DeliveryInv
    OBVIOUS
  <1> USE DEF Init
  <1>1. TypeOK
    <2>1. job \in [Workers -> Job]
      BY DEF Job
    <2>2. sub \in Subscription
      BY DEF Subscription, Errors
    <2> QED
      BY <2>1, <2>2 DEF TypeOK
  <1>2. Untouched /\ FirstRunOnly /\ IdentityEndsCreation /\ RunsKnow
    BY DEF Untouched, FirstRunOnly, IdentityEndsCreation, RunsKnow, Running
  <1>3. AtMostOneAccount /\ ActiveIsIdentified /\ CompletedIsActive /\ RetryIsSafe
    BY DEF AtMostOneAccount, ActiveIsIdentified, CompletedIsActive, RetryIsSafe
  <1> QED
    BY <1>1, <1>2, <1>3 DEF DeliveryInv

\* Every step of a worker, of the broker and of staff preserves the invariant.
LEMMA NextPreservesDeliveryInv == DeliveryInv /\ [Next]_vars => DeliveryInv'
  <1> SUFFICES ASSUME DeliveryInv, [Next]_vars PROVE DeliveryInv'
    OBVIOUS
  <1> USE DEF DeliveryInv, TypeOK, AtMostOneAccount, Untouched, FirstRunOnly, Running,
              IdentityEndsCreation, RunsKnow, ActiveIsIdentified, CompletedIsActive,
              RetryIsSafe, Subscription, Errors, Job, At, Goto, Return
  <1>1. CASE Redeliver
    BY <1>1 DEF Redeliver
  <1>2. CASE SetPaid
    BY <1>2 DEF SetPaid
  <1>3. CASE LeaseLapses
    BY <1>3 DEF LeaseLapses
  <1>4. ASSUME NEW p \in Workers, Begin(p) PROVE DeliveryInv'
    BY <1>4 DEF Begin
  <1>5. ASSUME NEW p \in Workers, AlreadyActive(p) PROVE DeliveryInv'
    BY <1>5 DEF AlreadyActive
  <1>6. ASSUME NEW p \in Workers, HoldForReview(p) PROVE DeliveryInv'
    BY <1>6 DEF HoldForReview
  <1>7. ASSUME NEW p \in Workers, AlreadyRunning(p) PROVE DeliveryInv'
    BY <1>7 DEF AlreadyRunning
  <1>8. ASSUME NEW p \in Workers, TakeLease(p) PROVE DeliveryInv'
    <2>0. ~sub.identity => /\ accounts = 0
                           /\ \A q \in Workers : ~Running(q)
      BY <1>8 DEF TakeLease, Ambiguous
    <2>1. TypeOK'
      <3>1. sub' \in Subscription
        <4>1. sub' = [status |-> sub.status, state |-> "in_progress",
                      attempts |-> sub.attempts + 1, identity |-> sub.identity,
                      lease |-> "held"]
          BY <1>8 DEF TakeLease
        <4>2. sub.attempts + 1 \in Nat
          OBVIOUS
        <4> QED
          BY <4>1, <4>2
      <3>2. job' \in [Workers -> Job]
        BY <1>8 DEF TakeLease
      <3> QED
        BY <1>8, <3>1, <3>2 DEF TakeLease
    <2>2. AtMostOneAccount'
      BY <1>8 DEF TakeLease
    <2>3. Untouched'
      BY <1>8 DEF TakeLease
    <2>4. FirstRunOnly'
      <3>1. sub'.identity = sub.identity /\ sub'.state = "in_progress" /\ accounts' = accounts
        BY <1>8 DEF TakeLease
      <3>2. \A q \in Workers : Running(q)' => q = p \/ Running(q)
        BY <1>8 DEF TakeLease
      <3> QED
        BY <2>0, <3>1, <3>2
    <2>5. IdentityEndsCreation'
      BY <1>8 DEF TakeLease
    <2>6. RunsKnow'
      BY <1>8 DEF TakeLease
    <2>7. ActiveIsIdentified'
      BY <1>8 DEF TakeLease
    <2>8. CompletedIsActive'
      BY <1>8 DEF TakeLease
    <2>9. RetryIsSafe'
      BY <1>8 DEF TakeLease
    <2> QED
      BY <2>1, <2>2, <2>3, <2>4, <2>5, <2>6, <2>7, <2>8, <2>9
  <1>9. ASSUME NEW p \in Workers, NoProvider(p) PROVE DeliveryInv'
    BY <1>9 DEF NoProvider
  <1>10. ASSUME NEW p \in Workers, Load(p) PROVE DeliveryInv'
    BY <1>10 DEF Load
  <1>11. ASSUME NEW p \in Workers, Create(p) PROVE DeliveryInv'
    <2>1. TypeOK'
      BY <1>11 DEF Create, CallFailed
    <2>2. AtMostOneAccount'
      BY <1>11 DEF Create, CallFailed
    <2>3. Untouched'
      BY <1>11 DEF Create, CallFailed
    <2>4. FirstRunOnly'
      BY <1>11 DEF Create, CallFailed
    <2>5. IdentityEndsCreation'
      BY <1>11 DEF Create, CallFailed
    <2>6. RunsKnow'
      BY <1>11 DEF Create, CallFailed
    <2>7. ActiveIsIdentified'
      BY <1>11 DEF Create, CallFailed
    <2>8. CompletedIsActive'
      BY <1>11 DEF Create, CallFailed
    <2>9. RetryIsSafe'
      BY <1>11 DEF Create, CallFailed
    <2> QED
      BY <2>1, <2>2, <2>3, <2>4, <2>5, <2>6, <2>7, <2>8, <2>9
  <1>12. ASSUME NEW p \in Workers, SaveIdentity(p) PROVE DeliveryInv'
    <2>1. TypeOK'
      <3>1. sub' \in Subscription
        BY <1>12 DEF SaveIdentity
      <3>2. job' \in [Workers -> Job]
        BY <1>12 DEF SaveIdentity
      <3> QED
        BY <1>12, <3>1, <3>2 DEF SaveIdentity
    <2>2. AtMostOneAccount'
      BY <1>12 DEF SaveIdentity
    <2>3. Untouched'
      BY <1>12 DEF SaveIdentity
    <2>4. FirstRunOnly'
      BY <1>12 DEF SaveIdentity
    <2>5. IdentityEndsCreation'
      BY <1>12 DEF SaveIdentity
    <2>6. RunsKnow'
      BY <1>12 DEF SaveIdentity
    <2>7. ActiveIsIdentified'
      BY <1>12 DEF SaveIdentity
    <2>8. CompletedIsActive'
      BY <1>12 DEF SaveIdentity
    <2>9. RetryIsSafe'
      BY <1>12 DEF SaveIdentity
    <2> QED
      BY <2>1, <2>2, <2>3, <2>4, <2>5, <2>6, <2>7, <2>8, <2>9
  <1>13. ASSUME NEW p \in Workers, Query(p) PROVE DeliveryInv'
    <2>1. TypeOK'
      <3>1. sub' \in Subscription
        BY ZenonT(40), <1>13 DEF Query, CallFailed
      <3>2. job' \in [Workers -> Job]
        BY <1>13 DEF Query, CallFailed
      <3> QED
        BY <1>13, <3>1, <3>2 DEF Query, CallFailed
    <2>2. AtMostOneAccount'
      BY <1>13 DEF Query, CallFailed
    <2>3. Untouched'
      BY <1>13 DEF Query, CallFailed
    <2>4. FirstRunOnly'
      BY <1>13 DEF Query, CallFailed
    <2>5. IdentityEndsCreation'
      BY <1>13 DEF Query, CallFailed
    <2>6. RunsKnow'
      <3>1. job' = [job EXCEPT ![p] = [pc |-> "finished"]]
        BY <1>13 DEF Query, CallFailed
      <3>2. sub'.identity = sub.identity /\ (sub.status = "active" => sub'.status = "active")
        BY <1>13 DEF Query, CallFailed
      <3>3. accounts' = accounts
        BY <1>13 DEF Query
      <3> QED
        BY <3>1, <3>2, <3>3
    <2>7. ActiveIsIdentified'
      BY <1>13 DEF Query, CallFailed
    <2>8. CompletedIsActive'
      BY <1>13 DEF Query, CallFailed
    <2>9. RetryIsSafe'
      BY <1>13 DEF Query, CallFailed
    <2> QED
      BY <2>1, <2>2, <2>3, <2>4, <2>5, <2>6, <2>7, <2>8, <2>9
  <1>14. ASSUME NEW p \in Workers, Refresh(p) PROVE DeliveryInv'
    BY <1>14 DEF Refresh
  <1>15. ASSUME NEW p \in Workers, WriteOrder(p) PROVE DeliveryInv'
    BY <1>15 DEF WriteOrder
  <1>16. ASSUME NEW p \in Workers, Finish(p) PROVE DeliveryInv'
    <2>1. TypeOK'
      BY <1>16 DEF Finish, Settled
    <2>2. AtMostOneAccount'
      BY <1>16 DEF Finish, Settled
    <2>3. Untouched'
      BY <1>16 DEF Finish, Settled
    <2>4. FirstRunOnly'
      BY <1>16 DEF Finish, Settled
    <2>5. IdentityEndsCreation'
      BY <1>16 DEF Finish, Settled
    <2>6. RunsKnow'
      BY <1>16 DEF Finish, Settled
    <2>7. ActiveIsIdentified'
      BY <1>16 DEF Finish, Settled
    <2>8. CompletedIsActive'
      BY <1>16 DEF Finish, Settled
    <2>9. RetryIsSafe'
      BY <1>16 DEF Finish, Settled
    <2> QED
      BY <2>1, <2>2, <2>3, <2>4, <2>5, <2>6, <2>7, <2>8, <2>9
  <1>17. ASSUME NEW p \in Workers, Raise(p) PROVE DeliveryInv'
    BY <1>17 DEF Raise
  <1>18. ASSUME NEW p \in Workers, Die(p) PROVE DeliveryInv'
    BY <1>18 DEF Die
  <1>19. CASE UNCHANGED vars
    BY <1>19 DEF vars
  <1> QED
    BY <1>1, <1>2, <1>3, <1>4, <1>5, <1>6, <1>7, <1>8, <1>9, <1>10, <1>11, <1>12, <1>13, <1>14, <1>15, <1>16, <1>17, <1>18, <1>19
    DEF Next, Task, Service

\* The inductive invariant holds in every reachable state.
THEOREM DeliveryInvariant == Spec => []DeliveryInv
  BY InitEstablishesDeliveryInv, NextPreservesDeliveryInv, PTL DEF Spec

\* The order's subscription, lease and task state keep their types.
THEOREM DeliveryTypes == Spec => []TypeOK
  <1>1. DeliveryInv => TypeOK
    BY DEF DeliveryInv
  <1> QED
    BY <1>1, DeliveryInvariant, PTL

\* Whatever the number of workers and deliveries, and however long a run takes,
\* create requests open at most one account at the provider.
THEOREM OneAccountPerOrder == Spec => []AtMostOneAccount
  <1>1. DeliveryInv => AtMostOneAccount
    BY DEF DeliveryInv
  <1> QED
    BY <1>1, DeliveryInvariant, PTL

\* No stale write completes an order that has nothing to show for it: its
\* subscription is active and names its one account.
THEOREM CompletedOrdersAreServed == Spec => []CompletedIsServed
  <1>1. DeliveryInv => CompletedIsServed
    BY DEF DeliveryInv, ActiveIsIdentified, CompletedIsActive, CompletedIsServed
  <1> QED
    BY <1>1, DeliveryInvariant, PTL

\* The retryable verdict never invites a second account.
THEOREM RetriesAreSafe == Spec => []RetryIsSafe
  <1>1. DeliveryInv => RetryIsSafe
    BY DEF DeliveryInv
  <1> QED
    BY <1>1, DeliveryInvariant, PTL

-----------------------------------------------------------------------------
(* The lease *)

\* While no run outlives it, the lease does exclude other runs, and a run that
\* goes on after the order is completed has nothing left to write to it.
LeaseExcludes ==
    "overrun" \notin faults =>
        /\ \A p, q \in Workers : Running(p) /\ Running(q) => p = q
        /\ \A p \in Workers : Running(p) => sub.lease = "held"
        /\ order = "completed" => \A p \in Workers : Running(p) => job[p].pc = "returned"

\* Who moves when: only the run p moves, its lease is not touched, and it does
\* not begin anew.
LEMMA RunKeepsLease ==
    ASSUME LeaseExcludes, TypeOK, NEW p \in Workers, Running(p),
           job' \in [Workers -> Job], \A q \in Workers \ {p} : job'[q] = job[q],
           sub'.lease = sub.lease, faults \subseteq faults',
           order' = "completed" => order = "completed" \/ job'[p].pc = "returned",
           job[p].pc = "returned" => job'[p].pc = "idle"
    PROVE  LeaseExcludes'
  <1>1. SUFFICES ASSUME "overrun" \notin faults'
                 PROVE  /\ \A q, r \in Workers : Running(q)' /\ Running(r)' => q = r
                        /\ \A q \in Workers : Running(q)' => sub'.lease = "held"
                        /\ order' = "completed" =>
                              \A q \in Workers : Running(q)' => job'[q].pc = "returned"
    BY DEF LeaseExcludes
  <1>2. /\ \A q \in Workers : Running(q) => p = q
        /\ sub.lease = "held"
        /\ order = "completed" => job[p].pc = "returned"
    BY <1>1 DEF LeaseExcludes
  <1>3. \A q \in Workers : Running(q)' => q = p
    BY <1>2 DEF Running
  <1> QED
    BY <1>2, <1>3 DEF Running

\* Nobody starts a run, and what is said of the runs does not change.
LEMMA RestKeepsLease ==
    ASSUME LeaseExcludes, \A q \in Workers : Running(q)' => Running(q) /\ job'[q] = job[q],
           sub' = sub, faults \subseteq faults', order' = "completed" => order = "completed"
    PROVE  LeaseExcludes'
  BY DEF LeaseExcludes

\* A step of a run that goes on, or ends.
LEMMA RunEdits ==
    ASSUME TypeOK, NEW p \in Workers, NEW j \in Job, job' = [job EXCEPT ![p] = j]
    PROVE  /\ job' \in [Workers -> Job] /\ job'[p] = j
           /\ \A q \in Workers \ {p} : job'[q] = job[q]
  BY DEF TypeOK

\* The phases of a job.
LEMMA Phases ==
    /\ \A pc \in {"idle", "begun", "leased", "create", "created", "query", "finished"} :
          [pc |-> pc] \in Job
    /\ \A pc \in {"refreshed", "returned"} : \A st \in {"pending", "active"} :
          [pc |-> pc, status |-> st] \in Job
    /\ \A j \in Job : j.pc \in {"refreshed", "returned"} => j.status \in {"pending", "active"}
  BY DEF Job

\* The lease is inductive beside the invariant of delivery.
LEMMA NextPreservesLease == DeliveryInv /\ LeaseExcludes /\ [Next]_vars => LeaseExcludes'
  <1> SUFFICES ASSUME DeliveryInv, LeaseExcludes, [Next]_vars PROVE LeaseExcludes'
    OBVIOUS
  <1>0. TypeOK /\ CompletedIsActive
    BY DEF DeliveryInv
  <1>1. CASE Redeliver \/ SetPaid \/ UNCHANGED vars
    <2>1. UNCHANGED <<job, sub, faults>> /\ (order' = "completed" => order = "completed")
      BY <1>1 DEF Redeliver, SetPaid, vars
    <2> QED
      BY <2>1, RestKeepsLease DEF Running
  <1>2. CASE LeaseLapses
    <2>1. CASE \A p \in Workers : job[p].pc \in {"idle", "begun"}
      BY <1>2, <2>1 DEF LeaseLapses, LeaseExcludes, Running
    <2>2. CASE ~ \A p \in Workers : job[p].pc \in {"idle", "begun"}
      BY <1>2, <2>2 DEF LeaseLapses, LeaseExcludes
    <2> QED
      BY <2>1, <2>2
  <1>3. ASSUME NEW p \in Workers,
               \/ Begin(p) \/ AlreadyActive(p) \/ AlreadyRunning(p)
               \/ HoldForReview(p) \/ TakeLease(p)
        PROVE  LeaseExcludes'
    <2>1. job[p].pc \in {"idle", "begun"} /\ ~Running(p)
      BY <1>3 DEF Begin, AlreadyActive, AlreadyRunning, HoldForReview, TakeLease, At, Running
    <2>2. CASE Begin(p) \/ AlreadyActive(p) \/ AlreadyRunning(p) \/ HoldForReview(p)
      <3>1. \E j \in {[pc |-> "idle"], [pc |-> "begun"]} : job' = job \/ job' = [job EXCEPT ![p] = j]
        BY <2>2 DEF Begin, AlreadyActive, AlreadyRunning, HoldForReview, Goto
      <3>2. UNCHANGED <<faults, order>> /\ sub'.lease = sub.lease
        <4>1. sub' = sub \/ sub' = [sub EXCEPT !.state = "needs_review"]
          BY <2>2 DEF Begin, AlreadyActive, AlreadyRunning, HoldForReview
        <4>2. UNCHANGED <<faults, order>>
          BY <2>2 DEF Begin, AlreadyActive, AlreadyRunning, HoldForReview
        <4> QED
          BY <1>0, <4>1, <4>2 DEF TypeOK, Subscription
      <3>3. \A q \in Workers : Running(q)' => Running(q) /\ job'[q] = job[q]
        BY <1>0, <2>1, <3>1 DEF TypeOK, Running
      <3> QED
        BY <3>2, <3>3 DEF LeaseExcludes
    <2>3. CASE TakeLease(p)
      <3>1. /\ sub.status # "active" /\ sub.lease # "held" /\ UNCHANGED <<faults, order>>
            /\ job' = [job EXCEPT ![p] = [pc |-> "leased"]]
            /\ sub' = [sub EXCEPT !.lease = "held", !.attempts = @ + 1, !.state = "in_progress"]
        BY <2>3 DEF TakeLease, Goto
      <3>2. sub'.lease = "held" /\ order' # "completed"
        BY <1>0, <3>1 DEF TypeOK, Subscription, CompletedIsActive
      <3>3. \A q \in Workers \ {p} : job'[q] = job[q]
        BY <1>0, <3>1 DEF TypeOK
      <3>4. "overrun" \notin faults' => \A q \in Workers : Running(q)' => q = p
        BY <3>1, <3>3 DEF LeaseExcludes, Running
      <3> QED
        BY <3>2, <3>4 DEF LeaseExcludes
    <2> QED
      BY <1>3, <2>2, <2>3
  <1>4. ASSUME NEW p \in Workers, Service(p) \/ Finish(p) \/ Raise(p)
        PROVE  LeaseExcludes'
    <2>1. Running(p)
      BY <1>4 DEF Service, NoProvider, Load, Create, SaveIdentity, Query, Refresh, WriteOrder,
                  Finish, Raise, At, Running
    <2>2. sub'.lease = sub.lease
      BY <1>0, <1>4 DEF Service, NoProvider, Load, Create, SaveIdentity, Query, Refresh,
                        WriteOrder, Finish, Raise, CallFailed, Settled, TypeOK, Subscription
    <2>3. faults \subseteq faults'
      BY <1>4 DEF Service, NoProvider, Load, Create, SaveIdentity, Query, Refresh, WriteOrder,
                  Finish, Raise
    <2>4. \E j \in Job : job' = [job EXCEPT ![p] = j] /\ (job[p].pc = "returned" => j.pc = "idle")
                         /\ (order' = "completed" => order = "completed" \/ j.pc = "returned")
      <3>1. job[p] \in Job
        BY <1>0 DEF TypeOK
      <3>2. CASE NoProvider(p) \/ Load(p) \/ Create(p) \/ SaveIdentity(p) \/ Query(p)
        BY <3>2, Phases DEF NoProvider, Load, Create, SaveIdentity, Query, CallFailed, At, Goto,
                            Return
      <3>3. CASE Refresh(p)
        BY <1>0, <3>3, Phases DEF Refresh, At, Return, TypeOK, Subscription
      <3>4. CASE WriteOrder(p)
        BY <3>1, <3>4, Phases DEF WriteOrder, At, Return
      <3>5. CASE Finish(p) \/ Raise(p)
        BY <3>5, Phases DEF Finish, Raise, At, Goto
      <3> QED
        BY <1>4, <3>2, <3>3, <3>4, <3>5 DEF Service
    <2>5. PICK j \in Job : job' = [job EXCEPT ![p] = j] /\ (job[p].pc = "returned" => j.pc = "idle")
                           /\ (order' = "completed" => order = "completed" \/ j.pc = "returned")
      BY <2>4
    <2>6. /\ job' \in [Workers -> Job] /\ job'[p] = j
          /\ \A q \in Workers \ {p} : job'[q] = job[q]
      BY <1>0, <2>5, RunEdits
    <2> QED
      BY <1>0, <2>1, <2>2, <2>3, <2>5, <2>6, RunKeepsLease
  <1>5. ASSUME NEW p \in Workers, Die(p) PROVE LeaseExcludes'
    <2>1. /\ job' = [job EXCEPT ![p] = [pc |-> "idle"]] /\ sub' = sub /\ order' = order
          /\ faults \subseteq faults'
      BY <1>5 DEF Die, Goto
    <2>2. \A q \in Workers : Running(q)' => Running(q) /\ job'[q] = job[q]
      BY <1>0, <2>1 DEF TypeOK, Running
    <2> QED
      BY <2>1, <2>2, RestKeepsLease
  <1> QED
    BY <1>1, <1>2, <1>3, <1>4, <1>5 DEF Next, Task

\* No run that overlaps the one which completed the order writes an older view
\* over it, unless a run outlived its lease: the lease excludes the others, and
\* a completed order's subscription is active, so none begins later
\* (provision_paid_order, provision_order_subscription).
THEOREM CompletedForGood == Spec => CompletedIsFinal
  <1>1. Init => LeaseExcludes
    BY DEF Init, LeaseExcludes, Running
  <1>2. DeliveryInv /\ LeaseExcludes /\ [Next]_vars =>
           [order = "completed" /\ "overrun" \notin faults => order' = "completed"]_vars
    <2> SUFFICES ASSUME DeliveryInv, LeaseExcludes, Next,
                        order = "completed", "overrun" \notin faults
                 PROVE  order' = "completed"
      OBVIOUS
    <2>1. \A p \in Workers : ~WriteOrder(p)
      BY DEF LeaseExcludes, Running, WriteOrder, At
    <2>2. ~SetPaid
      BY DEF SetPaid
    <2>3. CASE Redeliver \/ LeaseLapses
      BY <2>3 DEF Redeliver, LeaseLapses
    <2>4. ASSUME NEW p \in Workers, Task(p) \/ Raise(p) \/ Die(p) PROVE order' = order
      BY <2>1, <2>4 DEF Task, Service, Begin, AlreadyActive, HoldForReview, AlreadyRunning,
                        TakeLease, NoProvider, Load, Create, SaveIdentity, Query, Refresh, Finish,
                        Raise, Die
    <2> QED
      BY <2>2, <2>3, <2>4 DEF Next
  <1> QED
    BY <1>1, <1>2, DeliveryInvariant, NextPreservesLease, PTL DEF Spec, CompletedIsFinal

-----------------------------------------------------------------------------
(* The screens of the bot: what makes a form whole *)

Forms == DOMAIN TypedSteps

\* The answers a form's row holds when a step is asked.
Before == [
    add_panel_user  |-> [name |-> {}, usage_limit |-> {"name"},
                         package_days |-> {"name", "usage_limit"}],
    add_panel_admin |-> [name |-> {}, mode |-> {"name"}, telegram_id |-> {"name", "mode"},
                         can_add_admin |-> {"name", "mode", "telegram_id"}],
    add_card        |-> [bank_name |-> {}, card_number |-> {"bank_name"},
                         cardholder_name |-> {"bank_name", "card_number"}],
    add_crypto      |-> [name |-> {}, symbol |-> {"name"}, network |-> {"name", "symbol"},
                         wallet_address |-> {"name", "symbol", "network"}],
    add_gateway     |-> [gateway_type |-> {}, name |-> {"gateway_type"},
                         api_key |-> {"gateway_type", "name"},
                         secret_key |-> {"gateway_type", "name", "api_key"}],
    broadcast       |-> [message |-> {}, confirm |-> {"message"}]]

\* The draft holds these fields, and they were given to the form of the row.
Given(data, form, fields) ==
    \A f \in fields : f \in DOMAIN Draft(data, form) /\ Draft(data, form)[f] = data.form

Filled(data, form, step) ==
    /\ "form" \in DOMAIN data
    /\ step \in DOMAIN Before[form]
    /\ Given(data, form, Before[form][step])

\* What a state says of the data left from earlier screens.
PlacesKnown(r) ==
    /\ r.state = "new" => r.data = <<>>
    /\ r.state = "main_menu" => Str(r.data, "action") = "none"
    /\ r.state = "subscription_management" => Str(r.data, "step") = "rename_subscription"
    /\ r.state = "referral_setup" => Str(r.data, "step") = "manual_referrer"
    /\ "admin_action" \in DOMAIN r.data => Str(r.data, "action") # "control"
    /\ "admin_data" \in DOMAIN r.data =>
           DOMAIN r.data.admin_data \subseteq {"name", "mode", "telegram_id", "can_add_admin"}

\* A ticket's form holds answers to one ticket.
TicketWhole(r) ==
    LET step == Str(r.data, "step") IN
    r.state = "support_ticket" /\ step \in {"category", "subject", "description"} =>
        /\ {"step", "ticket_id", "device_type"} \subseteq DOMAIN r.data
        /\ r.data.device_type = r.data.ticket_id
        /\ step # "category" =>
               "category_id" \in DOMAIN r.data /\ r.data.category_id = r.data.ticket_id
        /\ IF step = "description"
           THEN "subject" \in DOMAIN r.data /\ r.data.subject = r.data.ticket_id
           ELSE DOMAIN r.data \subseteq {"step", "ticket_id", "device_type", "category_id"}

\* The second question about a link or a rule holds the name given to the first.
ControlWhole(r) ==
    r.state = "admin_action" /\ Str(r.data, "action") = "control" =>
        /\ {"action", "control_action", "object_id"} \subseteq DOMAIN r.data
        /\ r.data.control_action \in {"linkowner", "ruletext"} =>
               "name" \in DOMAIN r.data /\ r.data.name = r.data.object_id

\* While a form's question is open its draft holds the answers before it.  The
\* screen of an admin's rights opens questions of a form that was not begun; no
\* answer to them is read, since the action is another.
FormWhole(r, q) ==
    q.kind \in Forms =>
        /\ r.state \in {"admin_action", "purchase_flow", "payment_process"}
        /\ \/ Filled(r.data, q.kind, q.part) /\ r.data.form = q.of
           \/ /\ q.kind = "add_panel_admin" /\ q.part \in {"mode", "telegram_id"}
              /\ Str(r.data, "action") # "add_panel_admin"
        /\ Str(r.data, "action") \in Forms \cup {"control"} => r.data.action = q.kind

\* A handler that goes on with the row is given an answer to the open question.
OneReading(r, q) == TextReading(r).kind \in Several => TextReading(r) = q

Whole(r, q) ==
    /\ PlacesKnown(r) /\ TicketWhole(r) /\ ControlWhole(r)
    /\ FormWhole(r, q) /\ OneReading(r, q)

\* The same of the copy a message is handled with.
Routed(j) ==
    j.pc = "sent" /\ j.read.kind \in Several =>
        j.read = TextReading(j.row) /\ j.read = j.asked /\ Whole(j.row, j.asked)

\* The inductive invariant of FormsAreWhole.
ScreensInv ==
    /\ DOMAIN handling = Handlers
    /\ \A h \in Handlers : handling[h].pc \in {"idle", "sent", "sending"}
    /\ ~scene.hasty => /\ Whole(row, asked)
                       /\ \A h \in Handlers : Routed(handling[h])
                       /\ mixed = {}

\* The inductive invariant of OncePerPrompt.
OnceInv == made \in [{"ticket", "credit"} -> [1..MaxForms -> 0..1]]

-----------------------------------------------------------------------------
(* What makes an answer reach its question *)

\* Menus that disturb each other when one is entered while a question of the
\* other is open: the step or the search left in the row is read with the state
\* and the action of the newer screen.
Interfere ==
    {{"wallet", part} : part \in {"panel_users", "panel_admins", "orders", "tickets", "brand",
                                  "search"}}
        \cup {{"purchase", "search"}, {"panel_admins", "search"}}

Apart(parts) == \A pair \in Interfere : ~(pair \subseteq parts)

\* What is left in the row was left by a part that is visited.
Marks(r) ==
    /\ "none" \notin DOMAIN r.data
    /\ "admin_action" \in DOMAIN r.data => "search" \in scene.parts
    /\ r.state = "purchase_flow" => "purchase" \in scene.parts
    /\ Str(r.data, "action") = "edit_panel_admin" => "panel_admins" \in scene.parts
    /\ Str(r.data, "step") = "waiting_purchase_coupon" => "purchase" \in scene.parts
    /\ Str(r.data, "step") = "waiting_custom_amount" => "wallet" \in scene.parts

\* The amount's step outlives its question, but no other question is open then.
OwnStep(r, q) ==
    Str(r.data, "step") = "waiting_custom_amount" =>
        q \in {NoQuestion, Question("custom_amount", "none", None)}

\* In the panel's state the action is that of the open form.
OwnAction(r, q) ==
    r.state = "admin_action" /\ q.kind \in Forms =>
        Str(r.data, "action") \in {q.kind, "edit_panel_admin"}

OwnReading(r, q) ==
    q # NoQuestion =>
        \A medium \in Media :
            \/ Reading(medium, r) \in {NoQuestion, Unknown, q}
            \/ Reading(medium, r).kind = "wallet_receipt"

Fits(r, q) == Marks(r) /\ OwnStep(r, q) /\ OwnAction(r, q) /\ OwnReading(r, q)

JobFits(j) ==
    j.pc = "sent" =>
        /\ j.read.kind \in Several => Fits(j.row, j.asked)
        /\ j.read.kind = "purchase_coupon" => "purchase" \in scene.parts

\* The inductive invariant of AnswersFitPrompts, relative to ScreensInv.
AnswersInv ==
    Apart(scene.parts) /\ ~scene.hasty =>
        Fits(row, asked) /\ \A h \in Handlers : JobFits(handling[h])

-----------------------------------------------------------------------------
(* What holds a new user in the onboarding *)

Kept == "bypassed" \in past \/ ("onboarded" \in past /\ gate # "required")

\* The staff's buttons skip the onboarding: a new user is no staff.
Joined(parts) == "onboarding" \in parts => parts \cap StaffParts = {}

SetupJob(j) ==
    \/ j.pc = "idle"
    \/ /\ j.pc = "sent" /\ j.read.kind = "setup"
       /\ j.read.part = "phone" => "name" \in profile

\* The row of a user who is held, and the messages under way.
InSetup ==
    /\ \/ row.state = "new"
       \/ /\ row.state = "profile_setup"
          /\ Str(row.data, "step") = "phone" => "name" \in profile
          /\ Str(row.data, "step") = "device" => {"name", "phone"} \subseteq profile
       \/ row = [state |-> "main_menu", data |-> <<>>] /\ Complete /\ gate = "required"
    /\ asked.kind \in {"none", "setup"}
    /\ \A h \in Handlers : SetupJob(handling[h])

\* The inductive invariant of OnboardingIsKept.
OnboardingInv ==
    /\ DOMAIN handling = Handlers
    /\ profile \subseteq {"name", "phone", "device"}
    /\ Complete => "onboarded" \in past
    /\ ~Kept => "onboarding" \in scene.parts
    /\ staff => scene.parts \cap StaffParts # {}
    /\ Joined(scene.parts) /\ ~Kept => InSetup

-----------------------------------------------------------------------------
(* What a written row keeps *)

DraftKeys == {"user_data", "admin_data", "card_data", "crypto_data", "gateway_data",
              "broadcast_text"}

\* e has the answers to forms that d has.
SameForms(d, e) ==
    \A key \in DraftKeys \cup {"form"} :
        /\ key \in DOMAIN d <=> key \in DOMAIN e
        /\ key \in DOMAIN d => d[key] = e[key]

\* r is the row after data was merged into it.
Written(r, old, state, data) ==
    /\ r.state = state
    /\ DOMAIN r.data = DOMAIN old \cup DOMAIN data
    /\ \A key \in DOMAIN data : r.data[key] = data[key]
    /\ \A key \in DOMAIN old \ DOMAIN data : r.data[key] = old[key]

\* Put writes the row.
LEMMA PutWrites ==
    ASSUME NEW state, NEW data, Put(state, data)
    PROVE  Written(row', row.data, state, data)
BY DEF Put, Written, Merged

\* Every form has a key for its draft.
LEMMA DraftKeyIsKey == \A form \in Forms : DraftKey[form] \in DraftKeys
BY DEF Forms, DraftKey, DraftKeys, TypedSteps

\* A draft is complete while its keys are left alone.
LEMMA SameFilled ==
    ASSUME NEW d, NEW e, SameForms(d, e), NEW form \in Forms, NEW step, Filled(d, form, step)
    PROVE  Filled(e, form, step)
<1>1. Draft(e, form) = Draft(d, form)
  BY DraftKeyIsKey DEF SameForms, Draft
<1> QED
  BY <1>1 DEF Filled, SameForms, Given

\* A form stays whole when a menu is shown instead of an answer.
LEMMA FormKept ==
    ASSUME NEW r, NEW s, NEW q, FormWhole(r, q), SameForms(r.data, s.data),
           s.state \in {"admin_action", "purchase_flow", "payment_process"},
           \/ Str(s.data, "action") = Str(r.data, "action")
           \/ Str(s.data, "action") \notin Forms \cup {"control"}
    PROVE  FormWhole(s, q)
<1> SUFFICES ASSUME q.kind \in Forms PROVE FormWhole(s, q)
  BY DEF FormWhole
<1>1. CASE Filled(r.data, q.kind, q.part) /\ r.data.form = q.of
  <2>1. Filled(s.data, q.kind, q.part) /\ s.data.form = q.of
    BY <1>1, SameFilled DEF SameForms, Filled
  <2>2. Str(s.data, "action") \in Forms \cup {"control"} => s.data.action = q.kind
    BY DEF FormWhole, Str, Forms, TypedSteps
  <2> QED
    BY <2>1, <2>2 DEF FormWhole
<1>2. CASE /\ q.kind = "add_panel_admin" /\ q.part \in {"mode", "telegram_id"}
           /\ Str(r.data, "action") # "add_panel_admin"
  <2>1. Str(s.data, "action") # "add_panel_admin"
    BY <1>2 DEF Forms, TypedSteps
  <2>2. Str(s.data, "action") \in Forms \cup {"control"} => s.data.action = q.kind
    BY DEF FormWhole, Str, Forms, TypedSteps
  <2> QED
    BY <1>2, <2>1, <2>2 DEF FormWhole
<1> QED
  BY <1>1, <1>2 DEF FormWhole

-----------------------------------------------------------------------------
(* What the dispatcher reads *)

\* Only the panel's states and the search's leftover are read as staff's input.
LEMMA StaffReading ==
    ASSUME NEW r, PlacesKnown(r), TextReading(r).kind \in Forms \cup {"control"}
    PROVE  /\ TextReading(r) = AdminReading(r.data)
           /\ Str(r.data, "action") = TextReading(r).kind
           /\ r.state = "admin_action" \/ Str(r.data, "admin_action") = "search_user"
           /\ r.state \notin {"profile_setup", "referral_setup", "profile_edit", "support_ticket",
                              "subscription_management", "payment_process"}
<1>1. r.state \notin {"profile_setup", "referral_setup", "profile_edit", "support_ticket",
                      "subscription_management", "payment_process"}
  BY DEF PlacesKnown, TextReading, SupportReading, PaymentReading, Question, NoQuestion, Forms,
         TypedSteps
<1>2. /\ TextReading(r) = AdminReading(r.data)
      /\ r.state = "admin_action" \/ Str(r.data, "admin_action") = "search_user"
  BY <1>1 DEF TextReading, Question, NoQuestion, Forms, TypedSteps
<1>3. Str(r.data, "action") = AdminReading(r.data).kind
  BY <1>2 DEF AdminReading, Question, NoQuestion, Unknown, Forms, TypedSteps, Target
<1> QED
  BY <1>1, <1>2, <1>3

\* The control panel's input is read in its own state.
LEMMA ControlReading ==
    ASSUME NEW r, PlacesKnown(r), TextReading(r).kind = "control"
    PROVE  /\ r.state = "admin_action" /\ Str(r.data, "action") = "control"
           /\ TextReading(r) = Question("control", r.data.control_action, r.data.object_id)
<1>1. /\ TextReading(r) = AdminReading(r.data)
      /\ Str(r.data, "action") = "control"
      /\ r.state = "admin_action" \/ Str(r.data, "admin_action") = "search_user"
  BY StaffReading
<1> QED
  BY <1>1 DEF PlacesKnown, AdminReading, Str

\* A form's answer is read by its action, step and number.
LEMMA FormReading ==
    ASSUME NEW r, PlacesKnown(r), TextReading(r).kind \in Forms
    PROVE  LET data == r.data IN
           /\ Str(data, "action") = TextReading(r).kind
           /\ Str(data, "step") = TextReading(r).part
           /\ data.form = TextReading(r).of
<1>1. /\ TextReading(r) = AdminReading(r.data)
      /\ Str(r.data, "action") \in Forms
  BY StaffReading
<1> QED
  BY <1>1 DEF AdminReading, Question, NoQuestion, Forms, TypedSteps

\* A ticket's answer is read in the ticket's state only.
LEMMA TicketReading ==
    ASSUME NEW r, TextReading(r).kind = "ticket"
    PROVE  /\ r.state = "support_ticket"
           /\ TextReading(r) = Question("ticket", Str(r.data, "step"), r.data.ticket_id)
           /\ Str(r.data, "step") \in {"subject", "description"}
<1>1. r.state = "support_ticket"
  BY DEF TextReading, AdminReading, PaymentReading, Question, NoQuestion, Unknown, Target,
         TypedSteps
<1> QED
  BY <1>1 DEF TextReading, SupportReading, Question, NoQuestion

\* Only typed answers and shared contacts go on with the row just read.
LEMMA SeveralReadings ==
    ASSUME NEW medium \in Media, NEW r, Reading(medium, r).kind \in Several
    PROVE  Reading(medium, r) = TextReading(r)
<1>1. PhotoReading(r).kind \notin Several
  BY DEF PhotoReading, Question, NoQuestion, Several, TypedSteps
<1>2. ContactReading(r) = TextReading(r) \/ ContactReading(r).kind \notin Several
  BY DEF ContactReading, Question, NoQuestion, Several, TypedSteps
<1> QED
  BY <1>1, <1>2 DEF Reading

-----------------------------------------------------------------------------
(* Screens that leave no form behind *)

\* Nothing that is typed on a screen of the shop goes on with the row.
LEMMA ShopReading ==
    ASSUME NEW r, PlacesKnown(r), r.state = "purchase_flow",
           Str(r.data, "step") \in {"plan_selection", "service_selection", "plan_details",
                                   "plan_filters", "payment_method"}
    PROVE  TextReading(r).kind \notin Several
<1>1. CASE Str(r.data, "admin_action") = "search_user"
  <2>1. TextReading(r) = AdminReading(r.data) /\ Str(r.data, "action") # "control"
    BY <1>1 DEF TextReading, PlacesKnown, Str
  <2> QED
    BY <2>1 DEF AdminReading, Question, NoQuestion, Unknown, Several, TypedSteps, Target
<1>2. CASE Str(r.data, "admin_action") # "search_user"
  BY <1>2 DEF TextReading, Question, NoQuestion, Several, TypedSteps
<1> QED
  BY <1>1, <1>2

\* The main menu and the profile's setup start from an empty row.
LEMMA MenuWhole ==
    ASSUME NEW state \in {"main_menu", "profile_setup"}, Clear(state), asked' = NoQuestion
    PROVE  Whole(row', asked')
BY DEF Clear, Whole, PlacesKnown, TicketWhole, ControlWhole, FormWhole, OneReading, Str, Forms,
       TextReading, Question, NoQuestion, Several, TypedSteps

\* A customer's prompt is whole whatever was in the row.
LEMMA PromptWhole ==
    ASSUME PlacesKnown(row), NEW state, NEW data, Put(state, data), asked'.kind \notin Forms,
           "admin_action" \notin DOMAIN data, "admin_data" \notin DOMAIN data,
           "action" \in DOMAIN data => data.action # "control",
           \/ state \in {"profile_setup", "payment_process"}
           \/ state = "purchase_flow" /\ "step" \in DOMAIN data /\ data.step = "payment_method"
           \/ /\ state = "subscription_management"
              /\ "step" \in DOMAIN data /\ data.step = "rename_subscription"
           \/ /\ state = "referral_setup"
              /\ "step" \in DOMAIN data /\ data.step = "manual_referrer"
           \/ state = "profile_edit" /\ OneReading(row', asked')
    PROVE  Whole(row', asked')
<1>1. Written(row', row.data, state, data)
  BY PutWrites
<1>2. PlacesKnown(row')
  BY <1>1 DEF PlacesKnown, Written, Str
<1>3. TicketWhole(row') /\ ControlWhole(row') /\ FormWhole(row', asked')
  BY <1>1 DEF TicketWhole, ControlWhole, FormWhole, Written
<1>4. OneReading(row', asked')
  <2>1. CASE state \in {"profile_setup", "payment_process"}
    BY <1>1, <2>1 DEF Written, OneReading, TextReading, PaymentReading, Question, NoQuestion,
                      Several, TypedSteps
  <2>2. CASE state = "purchase_flow"
    BY <1>1, <1>2, <2>2, ShopReading DEF Written, OneReading, Str
  <2>3. CASE state = "subscription_management"
    BY <1>1, <2>3 DEF Written, OneReading, TextReading, Question, Several, TypedSteps, Str
  <2>4. CASE state = "referral_setup"
    BY <1>1, <2>4 DEF Written, OneReading, TextReading, Question, Several, TypedSteps, Str
  <2> QED
    BY <2>1, <2>2, <2>3, <2>4
<1> QED
  BY <1>2, <1>3, <1>4 DEF Whole

\* A question of the profile.
LEMMA FieldWhole ==
    ASSUME NEW field, NEW chain, AskField(field, chain)
    PROVE  Whole(row', asked')
BY DEF AskField, Replace, Whole, PlacesKnown, TicketWhole, ControlWhole, FormWhole, OneReading,
       Str, Forms, TextReading, Question, NoQuestion, Several, TypedSteps

\* A screen of the shop or the wallet that leaves the question asked.
LEMMA ScreenWhole ==
    ASSUME Whole(row, asked), NEW state, NEW data, Put(state, data), asked' = asked,
           DOMAIN data \subseteq {"step", "order_id", "card_id", "action", "amount"},
           "action" \in DOMAIN data => data.action \in {"none", "wallet_charge"},
           \/ state = "payment_process"
           \/ state = "purchase_flow" /\ "step" \in DOMAIN data
                 /\ data.step \in {"plan_selection", "service_selection", "plan_details",
                                   "plan_filters", "payment_method"}
    PROVE  Whole(row', asked')
<1>1. Written(row', row.data, state, data)
  BY PutWrites
<1>2. PlacesKnown(row')
  BY <1>1 DEF Whole, PlacesKnown, Written, Str
<1>3. TicketWhole(row') /\ ControlWhole(row')
  BY <1>1 DEF TicketWhole, ControlWhole, Written
<1>4. FormWhole(row', asked')
  <2>1. SameForms(row.data, row'.data)
    BY <1>1 DEF SameForms, DraftKeys, Written
  <2>2. \/ Str(row'.data, "action") = Str(row.data, "action")
        \/ Str(row'.data, "action") \notin Forms \cup {"control"}
    BY <1>1 DEF Written, Str, Forms, TypedSteps
  <2> QED
    BY <1>1, <2>1, <2>2, FormKept DEF Whole, Written
<1>5. OneReading(row', asked')
  <2>1. CASE state = "payment_process"
    BY <1>1, <2>1 DEF Written, OneReading, TextReading, PaymentReading, Question, NoQuestion,
                      Several, TypedSteps
  <2>2. CASE state = "purchase_flow"
    BY <1>1, <1>2, <2>2, ShopReading DEF Written, OneReading, Str
  <2> QED
    BY <2>1, <2>2
<1> QED
  BY <1>2, <1>3, <1>4, <1>5 DEF Whole

-----------------------------------------------------------------------------
(* Tickets *)

\* A ticket's form starts with a row of its own.
LEMMA CreateTicketWhole ==
    ASSUME CreateTicket
    PROVE  Whole(row', asked')
BY DEF CreateTicket, Replace, Whole, PlacesKnown, TicketWhole, ControlWhole, FormWhole,
       OneReading, Str, Forms, TextReading, SupportReading, Question, NoQuestion, Several,
       TypedSteps

\* The device's buttons name the ticket of the row.
LEMMA TicketDeviceWhole ==
    ASSUME Whole(row, asked), TicketDevice
    PROVE  Whole(row', asked')
<1>1. /\ row.state = "support_ticket" /\ asked' = asked
      /\ Str(row.data, "step") \in {"category", "subject", "description"}
      /\ Written(row', row.data, "support_ticket", [device_type |-> row.data.ticket_id])
  BY DEF TicketDevice, Replace, Written, Merged
<1>2. /\ Str(row'.data, "step") = Str(row.data, "step")
      /\ Str(row'.data, "action") = Str(row.data, "action")
      /\ row'.state = row.state
  BY <1>1 DEF Written, Str
<1>3. PlacesKnown(row')
  BY <1>1, <1>2 DEF Whole, PlacesKnown, Written
<1>4. TicketWhole(row')
  BY <1>1, <1>2 DEF Whole, TicketWhole, Written
<1>5. ControlWhole(row') /\ FormWhole(row', asked')
  BY <1>1 DEF Whole, ControlWhole, FormWhole, Written
<1>6. OneReading(row', asked')
  <2>1. {"step", "ticket_id"} \subseteq DOMAIN row.data
    BY <1>1 DEF Whole, TicketWhole
  <2>2. TextReading(row') = TextReading(row)
    BY <1>1, <1>2, <2>1 DEF Written, TextReading, SupportReading
  <2> QED
    BY <1>1, <2>2 DEF Whole, OneReading
<1> QED
  BY <1>3, <1>4, <1>5, <1>6 DEF Whole

\* The category belongs to the ticket of the row.
LEMMA TicketCategoryWhole ==
    ASSUME Whole(row, asked), TicketCategory
    PROVE  Whole(row', asked')
<1> DEFINE n == row.data.ticket_id
<1>1. /\ row.state = "support_ticket" /\ Str(row.data, "step") = "category"
      /\ asked' = Question("ticket", "subject", n)
      /\ Written(row', row.data, "support_ticket", [step |-> "subject", category_id |-> n])
  BY PutWrites DEF TicketCategory, Ask
<1>2. /\ {"step", "ticket_id", "device_type"} \subseteq DOMAIN row.data
      /\ row.data.device_type = n
      /\ DOMAIN row.data \subseteq {"step", "ticket_id", "device_type", "category_id"}
  BY <1>1 DEF Whole, TicketWhole
<1>3. /\ Str(row'.data, "step") = "subject" /\ row'.data.ticket_id = n
      /\ row'.data.device_type = n /\ row'.data.category_id = n
      /\ DOMAIN row'.data = {"step", "ticket_id", "device_type", "category_id"}
      /\ row'.state = "support_ticket"
  BY <1>1, <1>2 DEF Written, Str
<1>4. PlacesKnown(row') /\ TicketWhole(row') /\ ControlWhole(row') /\ FormWhole(row', asked')
  BY <1>1, <1>3 DEF PlacesKnown, TicketWhole, ControlWhole, FormWhole, Question, Forms, TypedSteps
<1>5. OneReading(row', asked')
  BY <1>1, <1>3 DEF OneReading, TextReading, SupportReading
<1> QED
  BY <1>4, <1>5 DEF Whole

\* What a handler of a ticket's answer was given: the ticket as it was then.
LEMMA TicketRouted ==
    ASSUME NEW j, Routed(j), j.pc = "sent", j.read.kind = "ticket"
    PROVE  /\ Str(j.row.data, "step") = j.read.part /\ j.row.state = "support_ticket"
           /\ j.asked.of = j.row.data.ticket_id
           /\ TicketWhole(j.row)
<1>1. j.read = TextReading(j.row) /\ j.read = j.asked /\ Whole(j.row, j.asked)
  BY DEF Routed, Several
<1> DEFINE r == j.row
<1>2. TextReading(r).kind = "ticket"
  BY <1>1
<1> HIDE DEF r
<1>3. /\ TextReading(r) = Question("ticket", Str(r.data, "step"), r.data.ticket_id)
      /\ r.state = "support_ticket"
  BY <1>2, TicketReading
<1>4. j.read = Question("ticket", Str(j.row.data, "step"), j.row.data.ticket_id)
  BY <1>1, <1>3 DEF r
<1>5. j.read.part = Str(j.row.data, "step") /\ j.read.of = j.row.data.ticket_id
  BY <1>4 DEF Question
<1> QED
  BY <1>1, <1>3, <1>5 DEF r, Whole

\* The subject is written with the rest of the ticket it was typed for.
LEMMA TicketSubjectWhole ==
    ASSUME NEW h \in Handlers, Routed(handling[h]), Whole(row, asked), TicketSubject(h)
    PROVE  Whole(row', asked')
<1> DEFINE j == handling[h]
           data == Merged(j.row.data, [step |-> "description", subject |-> j.asked.of])
<1>1. /\ j.row.state = "support_ticket" /\ Str(j.row.data, "step") = "subject"
      /\ j.asked.of = j.row.data.ticket_id /\ TicketWhole(j.row)
  BY TicketRouted DEF TicketSubject, Answers
<1>2. /\ Written(row', row.data, "support_ticket", data)
      /\ asked' = Question("ticket", "description", data.ticket_id)
  BY PutWrites DEF TicketSubject, Ask
<1>3. /\ DOMAIN data = {"step", "subject", "ticket_id", "device_type", "category_id"}
      /\ data.step = "description"
      /\ data.ticket_id = data.subject /\ data.device_type = data.subject
      /\ data.category_id = data.subject
  BY <1>1 DEF TicketWhole, Merged, Str
<1> HIDE DEF data
<1>4. PlacesKnown(row')
  BY <1>2, <1>3 DEF Whole, PlacesKnown, Written, Str
<1>5. TicketWhole(row') /\ ControlWhole(row') /\ FormWhole(row', asked')
  BY <1>2, <1>3 DEF TicketWhole, ControlWhole, FormWhole, Written, Str, Question, Forms, TypedSteps
<1>6. OneReading(row', asked')
  BY <1>2, <1>3 DEF OneReading, TextReading, SupportReading, Written, Str
<1> QED
  BY <1>4, <1>5, <1>6 DEF Whole

\* Replies and searches share the state of the ticket's form, not its steps.
LEMMA ReplyWhole ==
    ASSUME Whole(row, asked), NEW data, Put("support_ticket", data), asked'.kind \notin Forms,
           "step" \in DOMAIN data, data.step \in {"reply", "search_faq"},
           DOMAIN data \subseteq {"step", "ticket_id"}
    PROVE  Whole(row', asked')
<1>1. Written(row', row.data, "support_ticket", data) /\ Str(row'.data, "step") = data.step
  BY PutWrites DEF Written, Str
<1>2. PlacesKnown(row')
  BY <1>1 DEF Whole, PlacesKnown, Written, Str
<1>3. TicketWhole(row') /\ ControlWhole(row') /\ FormWhole(row', asked')
  BY <1>1 DEF TicketWhole, ControlWhole, FormWhole, Written
<1>4. OneReading(row', asked')
  BY <1>1 DEF OneReading, TextReading, SupportReading, Written, Question, Several, TypedSteps
<1> QED
  BY <1>2, <1>3, <1>4 DEF Whole

-----------------------------------------------------------------------------
(* The control panel, edits and searches *)

\* Every prompt of the control panel starts from an empty row.
LEMMA ControlPromptWhole ==
    ASSUME NEW action, NEW object, action \notin {"linkowner", "ruletext"},
           ControlPrompt(action, object)
    PROVE  Whole(row', asked')
<1>1. /\ row' = [state |-> "admin_action",
                 data |-> [action |-> "control", control_action |-> action,
                           object_id |-> object]]
      /\ asked' = Question("control", action, object)
  BY DEF ControlPrompt, Replace
<1>2. PlacesKnown(row') /\ TicketWhole(row') /\ ControlWhole(row') /\ FormWhole(row', asked')
  BY <1>1 DEF PlacesKnown, TicketWhole, ControlWhole, FormWhole, Str, Question, Forms, TypedSteps
<1>3. OneReading(row', asked')
  BY <1>1 DEF OneReading, TextReading, AdminReading, Str
<1> QED
  BY <1>2, <1>3 DEF Whole

\* What a handler of the control panel's input was given.
LEMMA ControlRouted ==
    ASSUME NEW j, Routed(j), j.pc = "sent", j.read.kind = "control"
    PROVE  /\ j.row.state = "admin_action" /\ Str(j.row.data, "action") = "control"
           /\ {"action", "control_action", "object_id"} \subseteq DOMAIN j.row.data
           /\ j.row.data.control_action = j.read.part
           /\ j.asked.of = j.row.data.object_id
           /\ ControlWhole(j.row) /\ PlacesKnown(j.row)
<1>1. j.read = TextReading(j.row) /\ j.read = j.asked /\ Whole(j.row, j.asked)
  BY DEF Routed, Several
<1> DEFINE r == j.row
<1>2. TextReading(r).kind = "control" /\ PlacesKnown(r) /\ ControlWhole(r)
  BY <1>1 DEF Whole
<1> HIDE DEF r
<1>3. /\ r.state = "admin_action" /\ Str(r.data, "action") = "control"
      /\ TextReading(r) = Question("control", r.data.control_action, r.data.object_id)
  BY <1>2, ControlReading
<1>4. j.read = Question("control", j.row.data.control_action, j.row.data.object_id)
  BY <1>1, <1>3 DEF r
<1>5. j.row.data.control_action = j.read.part /\ j.read.of = j.row.data.object_id
  BY <1>4 DEF Question
<1>6. {"action", "control_action", "object_id"} \subseteq DOMAIN r.data
  BY <1>2, <1>3 DEF ControlWhole
<1> QED
  BY <1>1, <1>2, <1>3, <1>5, <1>6 DEF r

\* The name of a link or a rule is kept with the prompt it answers.
LEMMA NameWhole ==
    ASSUME NEW h \in Handlers, Routed(handling[h]), NEW action,
           NEW next \in {"linkowner", "ruletext"}, NameMessage(h, action, next)
    PROVE  Whole(row', asked')
<1> DEFINE j == handling[h]
           old == j.row.data
           data == Merged(old, [control_action |-> next, name |-> j.asked.of])
<1>1. /\ j.row.state = "admin_action" /\ Str(old, "action") = "control"
      /\ {"action", "control_action", "object_id"} \subseteq DOMAIN old
      /\ j.asked.of = old.object_id
      /\ PlacesKnown(j.row)
  BY ControlRouted DEF NameMessage, AsStaff, Answers
<1>2. row' = [state |-> "admin_action", data |-> data]
      /\ asked' = Question("control", next, data.object_id)
  BY <1>1 DEF NameMessage, Replace
<1>3. /\ DOMAIN data = DOMAIN old \cup {"name"}
      /\ data.control_action = next /\ data.name = old.object_id
      /\ \A key \in DOMAIN old \ {"control_action", "name"} : data[key] = old[key]
  BY <1>1 DEF Merged
<1> HIDE DEF data
<1>4. /\ "action" \in DOMAIN data /\ data.action = "control"
      /\ data.object_id = data.name
  BY <1>1, <1>3 DEF Str
<1>5. PlacesKnown(row')
  BY <1>1, <1>2, <1>3, <1>4 DEF PlacesKnown, Str
<1>6. TicketWhole(row') /\ ControlWhole(row') /\ FormWhole(row', asked')
  BY <1>1, <1>2, <1>3, <1>4 DEF TicketWhole, ControlWhole, FormWhole, Str, Question, Forms,
                                TypedSteps
<1>7. OneReading(row', asked')
  BY <1>2, <1>3, <1>4 DEF OneReading, TextReading, AdminReading, Str
<1> QED
  BY <1>5, <1>6, <1>7 DEF Whole

\* A prompt for one answer replaces what the row's action was.
LEMMA EditWhole ==
    ASSUME Whole(row, asked), NEW part, NEW action \in DOMAIN Target, NEW data, NEW object,
           DOMAIN data \subseteq {"step", "user_uuid", "order_number", "ticket_id", "card_id",
                                  "wallet_id"},
           EditPrompt(part, action, data, object)
    PROVE  Whole(row', asked')
<1> DEFINE new == Merged(data, [action |-> action])
<1>1. /\ Written(row', row.data, "admin_action", new)
      /\ asked' = Question(action, "none", object)
  BY PutWrites DEF EditPrompt, Ask
<1>2. DOMAIN new = DOMAIN data \cup {"action"} /\ new.action = action
  BY DEF Merged
<1> HIDE DEF new
<1>3. /\ "action" \in DOMAIN row'.data /\ row'.data.action = action
      /\ action \notin Forms \cup {"control", "none"}
  BY <1>1, <1>2 DEF Written, Forms, TypedSteps, Target
<1>4. PlacesKnown(row')
  BY <1>1, <1>2, <1>3 DEF Whole, PlacesKnown, Written, Str
<1>5. TicketWhole(row') /\ ControlWhole(row') /\ FormWhole(row', asked')
  BY <1>1, <1>3 DEF TicketWhole, ControlWhole, FormWhole, Written, Str, Question
<1>6. OneReading(row', asked')
  <2>1. TextReading(row') = AdminReading(row'.data)
    BY <1>1 DEF Written, TextReading
  <2>2. AdminReading(row'.data).kind \in {action, "search_user", "unknown"}
    BY <1>3 DEF AdminReading, Str, Question, Unknown, Forms
  <2>3. {action, "search_user", "unknown"} \cap Several = {}
    BY <1>3 DEF Several, Forms, TypedSteps, Target
  <2> QED
    BY <2>1, <2>2, <2>3 DEF OneReading
<1> QED
  BY <1>4, <1>5, <1>6 DEF Whole

\* The search for a username is begun where no form waits.
LEMMA UsernameWhole ==
    ASSUME Whole(row, asked), ~scene.hasty, RequestSearchUsername
    PROVE  Whole(row', asked')
<1>1. /\ Written(row', row.data, "main_menu", [admin_action |-> "search_user"])
      /\ asked' = Question("search_user", "none", None)
      /\ Str(row.data, "action") = "none"
  BY PutWrites DEF RequestSearchUsername, Ask
<1>2. Str(row'.data, "action") = "none"
  BY <1>1 DEF Written, Str
<1>3. PlacesKnown(row')
  BY <1>1, <1>2 DEF Whole, PlacesKnown, Written
<1>4. TicketWhole(row') /\ ControlWhole(row') /\ FormWhole(row', asked')
  BY <1>1 DEF TicketWhole, ControlWhole, FormWhole, Written, Question, Forms, TypedSteps
<1>5. OneReading(row', asked')
  <2>1. TextReading(row') = AdminReading(row'.data)
    BY <1>1 DEF Written, TextReading, Str
  <2>2. AdminReading(row'.data).kind \in {"search_user", "unknown"}
    BY <1>2 DEF AdminReading, Question, Unknown, TypedSteps, Target
  <2> QED
    BY <2>1, <2>2 DEF OneReading, Several, TypedSteps
<1> QED
  BY <1>3, <1>4, <1>5 DEF Whole

\* The screen of an admin's rights shows the buttons of another form.
LEMMA EditAdminWhole ==
    ASSUME Whole(row, asked), StartEditPanelAdmin
    PROVE  Whole(row', asked')
<1>1. /\ Written(row', row.data, "admin_action", [action |-> "edit_panel_admin", step |-> "mode"])
      /\ asked' = Question("add_panel_admin", "mode", None)
  BY PutWrites DEF StartEditPanelAdmin, Ask
<1>2. Str(row'.data, "action") = "edit_panel_admin"
  BY <1>1 DEF Written, Str
<1>3. PlacesKnown(row')
  BY <1>1, <1>2 DEF Whole, PlacesKnown, Written
<1>4. TicketWhole(row') /\ ControlWhole(row') /\ FormWhole(row', asked')
  BY <1>1, <1>2 DEF TicketWhole, ControlWhole, FormWhole, Written, Question, Forms, TypedSteps
<1>5. OneReading(row', asked')
  <2>1. TextReading(row') = AdminReading(row'.data)
    BY <1>1 DEF Written, TextReading
  <2>2. AdminReading(row'.data).kind \in {"search_user", "unknown"}
    BY <1>2 DEF AdminReading, Question, Unknown, TypedSteps, Target
  <2> QED
    BY <2>1, <2>2 DEF OneReading, Several, TypedSteps
<1> QED
  BY <1>3, <1>4, <1>5 DEF Whole

-----------------------------------------------------------------------------
(* The staff's forms *)

\* After step the answers before next are those before step and its own.
Follows(form, step, next) ==
    /\ form \in Forms
    /\ step \in DOMAIN Before[form] /\ next \in DOMAIN Before[form]
    /\ Before[form][next] \subseteq Before[form][step] \cup {step}

\* The draft's keys are no other keys of the row.
LEMMA DraftKeyApart ==
    ASSUME NEW form \in Forms
    PROVE  /\ DraftKey[form] \notin {"step", "form", "action", "admin_action", "none"}
           /\ DraftKey[form] = "admin_data" => form = "add_panel_admin"
BY DEF Forms, DraftKey, TypedSteps

\* What saving an answer changes of the row's data.
Saved(e, d, form, field, value, next) ==
    /\ DOMAIN e = DOMAIN d \cup {DraftKey[form], "step"}
    /\ e.step = next
    /\ DOMAIN Draft(e, form) = DOMAIN Draft(d, form) \cup {field}
    /\ Draft(e, form)[field] = value
    /\ \A f \in DOMAIN Draft(d, form) \ {field} : Draft(e, form)[f] = Draft(d, form)[f]
    /\ \A key \in DOMAIN d \ {DraftKey[form], "step"} : e[key] = d[key]

\* The row an answer is saved into.
LEMMA WithSaves ==
    ASSUME NEW d, NEW form \in Forms, NEW field, NEW value, NEW next, NEW e,
           e = With(d, form, field, value, next)
    PROVE  Saved(e, d, form, field, value, next)
<1> DEFINE key == DraftKey[form]
           old == Draft(d, form)
           new == Merged(old, Entry(field, value))
<1>1. key # "step"
  BY DraftKeyApart
<1>2. e = Merged(Merged(d, Entry(key, new)), [step |-> next])
  BY DEF With
<1> HIDE DEF key, new, old
<1>3. /\ DOMAIN e = DOMAIN d \cup {key, "step"}
      /\ e.step = next /\ e[key] = new
      /\ \A k \in DOMAIN d \ {key, "step"} : e[k] = d[k]
  BY <1>1, <1>2 DEF Merged, Entry
<1>4. Draft(e, form) = new
  BY <1>3 DEF Draft, key
<1>5. /\ DOMAIN new = DOMAIN old \cup {field} /\ new[field] = value
      /\ \A f \in DOMAIN old \ {field} : new[f] = old[f]
  BY DEF Merged, Entry, new
<1> QED
  BY <1>3, <1>4, <1>5 DEF key, old, Saved

\* A saved answer completes what the next step asks for.
LEMMA NextFilled ==
    ASSUME NEW d, NEW form, NEW step, NEW next, Follows(form, step, next),
           Filled(d, form, step), NEW e, NEW n, n = d.form,
           e = With(d, form, step, n, next)
    PROVE  /\ Filled(e, form, next) /\ e.form = n
           /\ Saved(e, d, form, step, n, next)
<1> DEFINE old == Draft(d, form)
           new == Draft(e, form)
<1>1. form \in Forms
  BY DEF Follows
<1>2. Saved(e, d, form, step, n, next)
  BY <1>1, WithSaves
<1>3. "form" \in DOMAIN e /\ e.form = n
  BY <1>1, <1>2, DraftKeyApart DEF Filled, Saved
<1>4. \A f \in Before[form][step] : f \in DOMAIN old /\ old[f] = n
  BY DEF Filled, Given
<1>5. /\ DOMAIN new = DOMAIN old \cup {step} /\ new[step] = n
      /\ \A f \in DOMAIN old \ {step} : new[f] = old[f]
  BY <1>2 DEF Saved
<1> HIDE DEF old, new
<1>6. \A f \in Before[form][step] \cup {step} : f \in DOMAIN new /\ new[f] = n
  BY <1>4, <1>5
<1>7. Given(e, form, Before[form][next])
  BY <1>3, <1>6 DEF Given, Follows, new
<1> QED
  BY <1>2, <1>3, <1>7 DEF Filled, Follows

\* A button or a typed answer saves the answer to a form's open step.
LEMMA AnswerWhole ==
    ASSUME NEW r, NEW q, Whole(r, q),
           NEW form, NEW step, NEW next, Follows(form, step, next), q.kind = form, q.part = step,
           \/ form # "add_panel_admin"
           \/ Str(r.data, "action") = form
           \/ step = "mode" /\ next = "telegram_id",
           NEW n, "form" \in DOMAIN r.data => n = r.data.form,
           NEW s, NEW d, d = r.data, NEW e, s = [state |-> r.state, data |-> e],
           e = With(d, form, step, n, next),
           NEW a, a = Question(form, next, n)
    PROVE  Whole(s, a)
<1>1. /\ form \in Forms
      /\ r.state \in {"admin_action", "purchase_flow", "payment_process"}
      /\ Str(d, "action") \in Forms \cup {"control"} => Str(d, "action") = form
  BY DEF Follows, Whole, FormWhole, Str, Forms, TypedSteps
<1>2. Saved(e, d, form, step, n, next)
  BY <1>1, WithSaves
<1>3. /\ Str(e, "action") = Str(d, "action") /\ e.step = next /\ "step" \in DOMAIN e
      /\ "admin_action" \in DOMAIN e <=> "admin_action" \in DOMAIN d
  BY <1>1, <1>2, DraftKeyApart DEF Saved, Str
<1>4. a.kind = form /\ a.part = next /\ a.of = n
  BY DEF Question
<1>5. FormWhole(s, a)
  <2>1. \/ Filled(d, form, step) /\ d.form = q.of
        \/ form = "add_panel_admin" /\ Str(d, "action") # "add_panel_admin"
    BY <1>1 DEF Whole, FormWhole
  <2>2. ASSUME Filled(d, form, step)
        PROVE  Filled(e, form, next) /\ e.form = n
    BY <2>2, NextFilled DEF Filled
  <2>3. Str(e, "action") \in Forms \cup {"control"} => e.action = form
    BY <1>1, <1>3 DEF Str, Forms, TypedSteps
  <2> QED
    BY <1>1, <1>3, <1>4, <2>1, <2>2, <2>3 DEF FormWhole
<1>6. PlacesKnown(s)
  <2>1. Str(e, "action") # "control"
    BY <1>1, <1>3 DEF Forms, TypedSteps
  <2>2. ASSUME "admin_data" \in DOMAIN e
        PROVE  DOMAIN e.admin_data \subseteq {"name", "mode", "telegram_id", "can_add_admin"}
    <3>1. CASE form = "add_panel_admin"
      <4>1. /\ DraftKey[form] = "admin_data"
            /\ step \in {"name", "mode", "telegram_id", "can_add_admin"}
        BY <3>1 DEF DraftKey, Follows, Before
      <4>2. /\ Draft(e, form) = e.admin_data
            /\ DOMAIN Draft(d, form) \subseteq {"name", "mode", "telegram_id", "can_add_admin"}
        BY <2>2, <4>1 DEF Draft, Whole, PlacesKnown
      <4> QED
        BY <1>2, <4>1, <4>2 DEF Saved
    <3>2. CASE form # "add_panel_admin"
      <4>1. "admin_data" \in DOMAIN d /\ e.admin_data = d.admin_data
        BY <1>1, <1>2, <2>2, <3>2, DraftKeyApart DEF Saved
      <4> QED
        BY <4>1 DEF Whole, PlacesKnown
    <3> QED
      BY <3>1, <3>2
  <2> QED
    BY <1>1, <1>3, <2>1, <2>2 DEF PlacesKnown
<1>7. TicketWhole(s) /\ ControlWhole(s)
  BY <1>1, <1>3 DEF TicketWhole, ControlWhole, Forms, TypedSteps
<1>8. OneReading(s, a)
  <2>1. TextReading(s) = AdminReading(e) \/ TextReading(s).kind \notin Several
    BY <1>1 DEF TextReading, PaymentReading, Question, NoQuestion, Several, TypedSteps
  <2>2. CASE Str(e, "action") \in Forms
    <3>1. Str(e, "action") = form
      BY <1>1, <1>3, <2>2
    <3>2. e.form = n
      BY <1>1, <1>4, <1>5, <3>1 DEF FormWhole
    <3>3. AdminReading(e) \in {NoQuestion, Question(form, next, n)}
      BY <1>1, <1>3, <3>1, <3>2 DEF AdminReading, Str, Forms, TypedSteps
    <3>4. NoQuestion.kind \notin Several
      BY DEF NoQuestion, Question, Several, TypedSteps
    <3> QED
      BY <2>1, <3>3, <3>4 DEF OneReading
  <2>3. CASE Str(e, "action") \notin Forms
    <3>1. Str(e, "action") # "control"
      BY <1>1, <1>3, <2>3
    <3>2. AdminReading(e).kind \notin Several
      BY <2>3, <3>1 DEF AdminReading, Question, Unknown, NoQuestion, Several, Forms, Target,
             TypedSteps
    <3> QED
      BY <2>1, <3>2 DEF OneReading
  <2> QED
    BY <2>2, <2>3
<1> QED
  BY <1>5, <1>6, <1>7, <1>8 DEF Whole

\* What the handler of a form's typed answer was given.
LEMMA FormRouted ==
    ASSUME NEW j, Routed(j), j.pc = "sent", j.read.kind \in Forms
    PROVE  /\ Whole(j.row, j.asked) /\ j.asked = j.read
           /\ Str(j.row.data, "action") = j.read.kind
           /\ Filled(j.row.data, j.read.kind, j.read.part)
           /\ j.row.data.form = j.asked.of
<1>1. j.read = TextReading(j.row) /\ j.read = j.asked /\ Whole(j.row, j.asked)
  BY DEF Routed, Several, Forms
<1> DEFINE r == j.row
<1>2. TextReading(r).kind \in Forms /\ PlacesKnown(r)
  BY <1>1 DEF Whole
<1> HIDE DEF r
<1>3. /\ Str(r.data, "action") = TextReading(r).kind
      /\ r.data.form = TextReading(r).of
  BY <1>2, FormReading
<1>4. Str(j.row.data, "action") = j.read.kind /\ j.row.data.form = j.asked.of
  BY <1>1, <1>3 DEF r
<1>5. Filled(j.row.data, j.read.kind, j.read.part)
  BY <1>1, <1>4 DEF Whole, FormWhole
<1> QED
  BY <1>1, <1>4, <1>5

\* A typed answer is saved into the row it was read with.
LEMMA TypedWhole ==
    ASSUME NEW h \in Handlers, Routed(handling[h]),
           NEW form, NEW step, NEW next, Follows(form, step, next), TypedStep(h, form, step, next)
    PROVE  Whole(row', asked')
<1> DEFINE j == handling[h]
           r == j.row
           q == j.asked
           n == q.of
           d == r.data
           e == With(d, form, step, n, next)
<1>1. /\ j.pc = "sent" /\ j.read.kind = form /\ j.read.part = step /\ form \in Forms
      /\ row' = [state |-> r.state, data |-> e]
      /\ asked' = Question(form, next, d.form)
  BY DEF TypedStep, AsStaff, Answers, Replace, Follows
<1>2. /\ Whole(r, q) /\ q.kind = form /\ q.part = step
      /\ Str(d, "action") = form /\ d.form = n
  BY <1>1, FormRouted
<1>3. asked' = Question(form, next, n)
  BY <1>1, <1>2
<1> HIDE DEF j, r, q, n
<1>4. d = r.data
  OBVIOUS
<1>5. /\ row' = [state |-> r.state, data |-> e] /\ e = With(d, form, step, n, next)
      /\ Str(r.data, "action") = form /\ r.data.form = n
  BY <1>1, <1>2
<1> HIDE DEF d, e
<1> QED
  BY <1>2, <1>3, <1>4, <1>5, AnswerWhole

\* A button saves its answer into the row as it is.
LEMMA ButtonWhole ==
    ASSUME Whole(row, asked), ~scene.hasty,
           NEW part, NEW form, NEW step, NEW next, Follows(form, step, next),
           form = "add_panel_admin" => step = "mode" /\ next = "telegram_id",
           ButtonStep(part, form, step, next)
    PROVE  Whole(row', asked')
<1> DEFINE n == Get(row.data, "form")
           d == row.data
           e == With(d, form, step, n, next)
<1>1. /\ asked.kind = form /\ asked.part = step
      /\ row' = [state |-> row.state, data |-> e]
      /\ asked' = Question(form, next, n)
  BY DEF ButtonStep, Replace
<1>2. "form" \in DOMAIN row.data => n = row.data.form
  BY DEF Get
<1>3. d = row.data /\ e = With(d, form, step, n, next)
  OBVIOUS
<1> HIDE DEF n, d, e
<1> QED
  BY <1>1, <1>2, <1>3, AnswerWhole

\* A form begins with a number nothing else has.
LEMMA StartFormWhole ==
    ASSUME Whole(row, asked), NEW part, NEW form \in Forms, NEW step,
           step \in DOMAIN Before[form], Before[form][step] = {}, StartForm(part, form, step)
    PROVE  Whole(row', asked')
<1> DEFINE new == [action |-> form, step |-> step, form |-> forms + 1]
           n == forms + 1
<1>1. /\ Written(row', row.data, "admin_action", new)
      /\ asked' = Question(form, step, n)
  BY PutWrites DEF StartForm, Ask
<1>2. /\ row'.state = "admin_action"
      /\ DOMAIN row'.data = DOMAIN row.data \cup {"action", "step", "form"}
      /\ row'.data.action = form /\ row'.data.step = step /\ row'.data.form = n
      /\ \A key \in DOMAIN row.data \ {"action", "step", "form"} : row'.data[key] = row.data[key]
  BY <1>1 DEF Written
<1>3. asked'.kind = form /\ asked'.part = step /\ asked'.of = n
  BY <1>1 DEF Question
<1> HIDE DEF n
<1>4. Str(row'.data, "action") = form /\ form # "control" /\ form # "none"
  BY <1>2 DEF Str, Forms, TypedSteps
<1>5. PlacesKnown(row')
  BY <1>2, <1>4 DEF Whole, PlacesKnown
<1>6. TicketWhole(row') /\ ControlWhole(row')
  BY <1>2, <1>4 DEF TicketWhole, ControlWhole
<1>7. FormWhole(row', asked')
  BY <1>2, <1>3, <1>4 DEF FormWhole, Filled, Given
<1>8. OneReading(row', asked')
  <2>1. TextReading(row') = AdminReading(row'.data)
    BY <1>2 DEF TextReading
  <2>2. AdminReading(row'.data) \in {NoQuestion, Question(form, step, n)}
    BY <1>2, <1>4 DEF AdminReading, Str, Forms
  <2>3. NoQuestion.kind \notin Several
    BY DEF NoQuestion, Question, Several, TypedSteps
  <2> QED
    BY <1>1, <2>1, <2>2, <2>3 DEF OneReading, n
<1> QED
  BY <1>5, <1>6, <1>7, <1>8 DEF Whole

-----------------------------------------------------------------------------
(* What no screen touches *)

\* Messages being handled are left or ended, and objects are made once.
Quiet ==
    /\ scene' = scene
    /\ \/ handling' = handling
       \/ \E h \in Handlers, end \in {NoJob, [pc |-> "sending"]} :
              handling' = [handling EXCEPT ![h] = end]
    /\ \/ made' = made
       \/ \E n : CreateTicketOnce(n) \/ CreditOnce(n)

\* The screens of a new user are quiet.
LEMMA OnboardingQuiet == Onboarding => Quiet
BY DEF Onboarding, Start, EnterByMessage, Help, SetupProfile, FinishClaims, PressSetup,
       SetInitialDevice, FinishDevices, VerifyJoin, FindMember, ApproveJoin, NameStep, PhoneStep,
       Answers, SetProfile, Quiet, person, goods

\* So are those of the profile.
LEMMA ProfileQuiet == ProfileScreens => Quiet
BY DEF ProfileScreens, EditProfile, SetGender, BeginCompletion, RequestField, SaveField,
       StartRename, StartManualReferrer, RenameMessage, ManualReferrerMessage, Press, Answers,
       Quiet, person, goods

\* So are those of the wallet.
LEMMA WalletQuiet == WalletScreens => Quiet
BY DEF WalletScreens, RequestCustomAmount, ShowCouponInput, InitiateCharge, ShowCardPayment,
       RequestTxid, CustomAmountMessage, ReceiptPhoto, TxidMessage, CouponMessage, Press, Answers,
       Quiet, person, goods

\* So are those of the shop.
LEMMA PurchaseQuiet == PurchaseScreens => Quiet
BY DEF PurchaseScreens, ShowPlans, ShowService, ShowPlanDetails, PlanPicker, PlanFilter, Browse,
       PaidAtOnce, CancelPurchase, ShowPaymentMethods, RequestPurchaseCoupon, ShowSelectedCard,
       PaymentDone, PaymentNotDone, PurchaseCouponMessage, CardReceipt, Press, Answers, Quiet,
       person, goods

\* So are those of the support.
LEMMA SupportQuiet == SupportScreens => Quiet
BY DEF SupportScreens, CreateTicket, TicketDevice, TicketCategory, ShowMyTickets, StartFaqSearch,
       StartTicketReply, TicketSubject, TicketDescription, TicketReply, FaqSearch, Press, Answers,
       Quiet, person, goods

\* So is the control panel.
LEMMA ControlQuiet == ControlPanel => Quiet
BY DEF ControlPanel, ControlScreen, LinkNew, RuleNew, UserCredit, TierNew, UserSearch, LinkEdit,
       PlanEdit, ChallengeEdit, TierEdit, RuleEdit, NumberedPrompt, Prompt, LinkNameMessage,
       RuleNameMessage, NameMessage, LinkOwnerMessage, RuleTextMessage, SecondMessage,
       ObjectMessage, CreditMessage, PressStaff, AsStaff, Answers, Quiet, person, goods

\* So are the staff's edits.
LEMMA EditsQuiet == StaffEdits => Quiet
<1>1. \/ StartSearchPanelUser \/ StartSearchPanelAdmin \/ EditBrandName \/ EditBrandDescription
      \/ SearchPayment \/ RequestSearchUsername
      \/ \E i \in Items : \/ StartEditUserField(i) \/ StartOrderAdminNote(i) \/ StartStaffReply(i)
                          \/ StartEditCardField(i) \/ StartEditCryptoField(i)
      => Quiet
  BY DEF StartSearchPanelUser, StartSearchPanelAdmin, EditBrandName, EditBrandDescription,
         SearchPayment, RequestSearchUsername, StartEditUserField, StartOrderAdminNote,
         StartStaffReply, StartEditCardField, StartEditCryptoField, EditPrompt, PressStaff,
         Quiet, goods
<1>2. ASSUME NEW h \in Handlers,
             \/ ApplyUserFieldEdit(h) \/ OrderAdminNote(h) \/ StaffTicketReply(h)
             \/ PanelAdminSearch(h) \/ EditCardField(h) \/ EditCryptoField(h)
             \/ EditBrandField(h) \/ PaymentSearch(h) \/ UsernameSearch(h)
      PROVE  Quiet
  BY <1>2 DEF ApplyUserFieldEdit, OrderAdminNote, StaffTicketReply, PanelAdminSearch,
              EditCardField, EditCryptoField, EditBrandField, PaymentSearch, UsernameSearch,
              SingleAnswer, AsStaff, Answers, Quiet, goods
<1> QED
  BY <1>1, <1>2 DEF StaffEdits

\* So are the staff's forms.
LEMMA FormsQuiet == StaffForms => Quiet
<1>1. \/ StartAddPanelUser \/ StartAddPanelAdmin \/ StartEditPanelAdmin \/ PanelAdminMode
      \/ PanelAdminCanAdd \/ AddPaymentCard \/ AddCryptoCurrency \/ CryptoNetwork
      \/ AddPaymentGateway \/ GatewayType \/ StartBroadcast \/ CancelBroadcast
      => Quiet
  BY DEF StartAddPanelUser, StartAddPanelAdmin, StartEditPanelAdmin, PanelAdminMode,
         PanelAdminCanAdd, AddPaymentCard, AddCryptoCurrency, CryptoNetwork, AddPaymentGateway,
         GatewayType, StartBroadcast, CancelBroadcast, StartForm, ButtonStep, PressStaff, Quiet,
         goods
<1>2. ASSUME NEW h \in Handlers,
             \/ AddPanelUserStep(h) \/ AddPanelAdminStep(h) \/ CardStep(h)
             \/ CryptoStep(h) \/ GatewayStep(h) \/ BroadcastInput(h)
             \/ BroadcastConfirm(h) \/ BroadcastSend(h) \/ BroadcastEnds(h)
      PROVE  Quiet
  BY <1>2 DEF AddPanelUserStep, AddPanelAdminStep, CardStep, CryptoStep, GatewayStep,
              BroadcastInput, BroadcastConfirm, BroadcastSend, BroadcastEnds, TypedStep,
              LastStep, ExecuteBroadcast, AsStaff, Answers, Quiet, person, goods
<1> QED
  BY <1>1, <1>2 DEF StaffForms

\* Only a message that arrives is not.
LEMMA StepsQuiet ==
    ASSUME BotNext
    PROVE  Quiet \/ \E h \in Handlers, medium \in Media : Send(h, medium)
<1>1. RevokeStaff \/ MainMenu => Quiet
  BY DEF RevokeStaff, MainMenu, Press, Quiet, goods
<1>2. ASSUME NEW h \in Handlers, Refuse(h) \/ Demoted(h) \/ Cancelled(h)
      PROVE  Quiet
  BY <1>2 DEF Refuse, Demoted, Cancelled, Quiet, goods
<1> QED
  BY <1>1, <1>2, OnboardingQuiet, ProfileQuiet, WalletQuiet, PurchaseQuiet, SupportQuiet,
     ControlQuiet, EditsQuiet, FormsQuiet DEF BotNext, Messages

-----------------------------------------------------------------------------
(* What is made is made of one form's answers *)

\* Answers with one number are not mixed.
LEMMA OneNumber ==
    ASSUME NEW what, NEW answers, NEW n, answers \subseteq {n}, Mix(what, answers)
    PROVE  mixed' = mixed
<1>1. Cardinality({n}) = 1 /\ IsFiniteSet({n})
  BY FS_Singleton
<1>2. Cardinality(answers) <= 1 /\ Cardinality(answers) \in Nat
  BY <1>1, FS_Subset, FS_CardinalityType
<1> QED
  BY <1>2 DEF Mix

\* A ticket is made of the answers given for its number.
LEMMA TicketUnmixed ==
    ASSUME NEW h \in Handlers, Routed(handling[h]), TicketDescription(h)
    PROVE  mixed' = mixed
<1> DEFINE data == handling[h].row.data
           n == data.ticket_id
           answers == {data.ticket_id, data.category_id, data.device_type, data.subject,
                       handling[h].asked.of}
<1>1. /\ Str(data, "step") = "description" /\ handling[h].row.state = "support_ticket"
      /\ handling[h].asked.of = n /\ TicketWhole(handling[h].row)
  BY TicketRouted DEF TicketDescription, Answers
<1>2. data.category_id = n /\ data.device_type = n /\ data.subject = n
  BY <1>1 DEF TicketWhole
<1>3. answers \subseteq {n} /\ Mix("ticket", answers)
  BY <1>1, <1>2 DEF TicketDescription
<1> HIDE DEF answers, n
<1> QED
  BY <1>3, OneNumber

\* A link or a rule is made of a name and an owner or a text for one number.
LEMMA ControlUnmixed ==
    ASSUME NEW h \in Handlers, Routed(handling[h]), NEW action \in {"linkowner", "ruletext"},
           SecondMessage(h, action)
    PROVE  mixed' = mixed
<1> DEFINE data == handling[h].row.data
           n == data.object_id
           answers == {data.name, handling[h].asked.of}
<1>1. /\ handling[h].row.state = "admin_action" /\ Str(data, "action") = "control"
      /\ data.control_action = action /\ handling[h].asked.of = n
      /\ ControlWhole(handling[h].row)
  BY ControlRouted DEF SecondMessage, AsStaff, Answers
<1>2. data.name = n
  BY <1>1 DEF ControlWhole
<1>3. answers \subseteq {n} /\ Mix(action, answers)
  BY <1>1, <1>2 DEF SecondMessage
<1> HIDE DEF answers, n
<1> QED
  BY <1>3, OneNumber

\* The last typed answer finds the others of its form in the draft.
LEMMA LastUnmixed ==
    ASSUME NEW h \in Handlers, Routed(handling[h]), NEW form \in Forms, NEW step, NEW fields,
           step \in DOMAIN Before[form], fields \subseteq Before[form][step] \cup {step},
           LastStep(h, form, step, fields)
    PROVE  mixed' = mixed
<1> DEFINE data == handling[h].row.data
           n == handling[h].asked.of
           old == Draft(data, form)
           draft == Merged(old, Entry(step, n))
           answers == {draft[f] : f \in fields}
<1>1. Filled(data, form, step) /\ data.form = n
  BY FormRouted DEF LastStep, AsStaff, Answers
<1>2. mixed' = mixed \/ Mix(form, answers)
  BY DEF LastStep
<1>3. \A f \in Before[form][step] : f \in DOMAIN old /\ old[f] = n
  BY <1>1 DEF Filled, Given
<1> HIDE DEF old, n
<1>4. \A f \in fields : draft[f] = n
  BY <1>3 DEF Merged, Entry
<1>5. answers \subseteq {n}
  BY <1>4
<1> HIDE DEF answers
<1> QED
  BY <1>2, <1>5, OneNumber

\* The button that ends an admin's form finds the other answers in the draft.
LEMMA AdminUnmixed ==
    ASSUME Whole(row, asked), ~scene.hasty, PanelAdminCanAdd
    PROVE  mixed' = mixed
<1> DEFINE form == "add_panel_admin"
           data == row.data
           n == Get(data, "form")
           old == Draft(data, form)
           draft == Merged(old, Entry("can_add_admin", n))
           answers == {draft[f] : f \in DOMAIN draft}
<1>1. /\ asked.kind = form /\ asked.part = "can_add_admin" /\ "admin_data" \in DOMAIN data
      /\ mixed' = mixed \/ Mix(form, answers)
  BY DEF PanelAdminCanAdd
<1>2. form \in Forms
  BY DEF Forms, TypedSteps
<1>3. Filled(data, form, "can_add_admin")
  BY <1>1, <1>2 DEF Whole, FormWhole
<1>4. /\ \A f \in {"name", "mode", "telegram_id"} : f \in DOMAIN old /\ old[f] = data.form
      /\ n = data.form
  BY <1>3 DEF Filled, Given, Before, Get
<1>5. DOMAIN old \subseteq {"name", "mode", "telegram_id", "can_add_admin"}
  BY <1>1 DEF Whole, PlacesKnown, Draft, DraftKey
<1> HIDE DEF old, n
<1>6. DOMAIN draft = DOMAIN old \cup {"can_add_admin"} /\ draft["can_add_admin"] = n
  BY DEF Merged, Entry
<1>7. \A f \in {"name", "mode", "telegram_id"} : draft[f] = n
  BY <1>4 DEF Merged, Entry
<1> HIDE DEF draft
<1>8. answers \subseteq {n}
  BY <1>5, <1>6, <1>7
<1> HIDE DEF answers
<1> QED
  BY <1>1, <1>8, OneNumber

\* A broadcast is sent with the text of its own form.
LEMMA BroadcastUnmixed ==
    ASSUME NEW h \in Handlers, NEW data, Filled(data, "broadcast", "confirm"),
           ExecuteBroadcast(h, data)
    PROVE  mixed' = mixed
<1> DEFINE n == data.form
           answers == {Draft(data, "broadcast").message, data.form}
<1>1. Draft(data, "broadcast").message = n
  BY DEF Filled, Given, Before
<1>2. answers \subseteq {n} /\ Mix("broadcast", answers)
  BY <1>1 DEF ExecuteBroadcast
<1> HIDE DEF answers, n
<1> QED
  BY <1>2, OneNumber

-----------------------------------------------------------------------------
(* The row stays whole *)

\* A screen that leaves the row and the question leaves them whole.
LEMMA SameWhole ==
    ASSUME Whole(row, asked), UNCHANGED <<row, asked>>
    PROVE  Whole(row', asked')
<1>1. row' = row /\ asked' = asked
  OBVIOUS
<1> QED
  BY <1>1

\* The main menu.
LEMMA MainWhole ==
    ASSUME Menu
    PROVE  Whole(row', asked')
BY MenuWhole DEF Menu

\* A question of the onboarding, or none.
LEMMA SetupWhole ==
    ASSUME Whole(row, asked), NEW data, NEW question, Ask("profile_setup", data, question),
           question.kind \notin Forms, DOMAIN data = {"step"}
    PROVE  Whole(row', asked')
BY PromptWhole DEF Ask, Whole

\* The device's question.
LEMMA DeviceWhole ==
    ASSUME Whole(row, asked), AskDevice
    PROVE  Whole(row', asked')
<1> DEFINE data == [step |-> "device"]
<1>1. Ask("profile_setup", data, NoQuestion) /\ DOMAIN data = {"step"}
  BY DEF AskDevice
<1>2. NoQuestion.kind \notin Forms
  BY DEF NoQuestion, Question, Forms, TypedSteps
<1> HIDE DEF data
<1> QED
  BY <1>1, <1>2, SetupWhole

\* The question for the name.
LEMMA SetupNameWhole ==
    ASSUME Whole(row, asked), StartProfileSetup
    PROVE  Whole(row', asked')
<1> DEFINE data == [step |-> "name"]
           question == Question("setup", "name", None)
<1>1. Ask("profile_setup", data, question) /\ DOMAIN data = {"step"}
  BY DEF StartProfileSetup
<1>2. question.kind \notin Forms
  BY DEF Question, Forms, TypedSteps
<1> HIDE DEF data, question
<1> QED
  BY <1>1, <1>2, SetupWhole

\* The onboarding keeps the row whole.
LEMMA OnboardingWhole ==
    ASSUME Whole(row, asked), Onboarding
    PROVE  Whole(row', asked') /\ mixed' = mixed
<1>1. mixed' = mixed
  BY DEF Onboarding, Start, EnterByMessage, Help, SetupProfile, FinishClaims, PressSetup,
         SetInitialDevice, FinishDevices, VerifyJoin, FindMember, ApproveJoin, NameStep, PhoneStep,
         goods
<1>2. ASSUME Menu \/ ShowProfileSetup \/ AskDevice \/ StartProfileSetup \/ UNCHANGED <<row, asked>>
      PROVE  Whole(row', asked')
  BY <1>2, SameWhole, MainWhole, MenuWhole, DeviceWhole, SetupNameWhole DEF ShowProfileSetup
<1>3. ASSUME NEW h \in Handlers, NameStep(h)
      PROVE  Whole(row', asked')
  <2> DEFINE data == [step |-> "phone"]
             question == Question("setup", "phone", None)
  <2>1. Ask("profile_setup", data, question) /\ DOMAIN data = {"step"}
    BY <1>3 DEF NameStep
  <2>2. question.kind \notin Forms
    BY DEF Question, Forms, TypedSteps
  <2> HIDE DEF data, question
  <2> QED
    BY <2>1, <2>2, SetupWhole
<1>4. \/ Menu \/ ShowProfileSetup \/ AskDevice \/ StartProfileSetup \/ UNCHANGED <<row, asked>>
      \/ \E h \in Handlers : NameStep(h)
  BY DEF Onboarding, Start, EnterByMessage, Help, SetupProfile, FinishClaims, SetInitialDevice,
         FinishDevices, VerifyJoin, FindMember, ApproveJoin, PhoneStep
<1> QED
  BY <1>1, <1>2, <1>3, <1>4

\* The profile's questions are read as they were asked.
LEMMA ProfileAskWhole ==
    ASSUME Whole(row, asked), NEW data, NEW question, Ask("profile_edit", data, question),
           DOMAIN data \subseteq {"step", "completion_flow", "field"}, "step" \in DOMAIN data,
           IF data.step = "waiting_input"
           THEN "field" \in DOMAIN data /\ question = Question("profile", data.field, None)
           ELSE question = NoQuestion
    PROVE  Whole(row', asked')
<1>1. Written(row', row.data, "profile_edit", data) /\ asked' = question
  BY PutWrites DEF Ask
<1>2. OneReading(row', asked')
  BY <1>1 DEF Written, OneReading, TextReading, Str, NoQuestion, Question, Several, TypedSteps
<1>3. asked'.kind \notin Forms
  BY <1>1 DEF NoQuestion, Question, Forms, TypedSteps
<1> QED
  BY <1>1, <1>2, <1>3, PromptWhole DEF Ask, Whole

\* The profile's screens keep the row whole.
LEMMA ProfileWhole ==
    ASSUME Whole(row, asked), ProfileScreens
    PROVE  Whole(row', asked') /\ mixed' = mixed
<1>1. mixed' = mixed
  BY DEF ProfileScreens, EditProfile, SetGender, BeginCompletion, RequestField, SaveField,
         StartRename, StartManualReferrer, RenameMessage, ManualReferrerMessage, goods
<1>2. CASE EditProfile
  <2> DEFINE data == [step |-> "menu"]
  <2>1. /\ Ask("profile_edit", data, NoQuestion) /\ DOMAIN data = {"step"}
        /\ data.step # "waiting_input"
    BY <1>2 DEF EditProfile
  <2> HIDE DEF data
  <2> QED
    BY <1>1, <2>1, ProfileAskWhole
<1>3. CASE BeginCompletion \/ \E field : RequestField(field)
  BY <1>1, <1>3, FieldWhole DEF BeginCompletion, RequestField
<1>4. ASSUME NEW h \in Handlers, NEW field, SaveField(h, field)
      PROVE  Whole(row', asked')
  <2>1. CASE Menu
    BY <2>1, MainWhole
  <2>2. CASE Ask("profile_edit", [completion_flow |-> TRUE, field |-> NextField[field],
                                  step |-> "waiting_input"],
                 Question("profile", NextField[field], None))
    <3> DEFINE data == [completion_flow |-> TRUE, field |-> NextField[field],
                        step |-> "waiting_input"]
    <3>1. Ask("profile_edit", data, Question("profile", data.field, None))
      BY <2>2
    <3>2. DOMAIN data = {"completion_flow", "field", "step"} /\ data.step = "waiting_input"
      OBVIOUS
    <3> HIDE DEF data
    <3> DEFINE question == Question("profile", data.field, None)
    <3>3. Ask("profile_edit", data, question) /\ question = Question("profile", data.field, None)
      BY <3>1
    <3> HIDE DEF question
    <3> QED
      BY <3>2, <3>3, ProfileAskWhole
  <2>3. CASE Ask("profile_edit", [completion_flow |-> FALSE, step |-> "gender"], NoQuestion)
    <3> DEFINE data == [completion_flow |-> FALSE, step |-> "gender"]
    <3>1. /\ Ask("profile_edit", data, NoQuestion) /\ DOMAIN data = {"completion_flow", "step"}
          /\ data.step # "waiting_input"
      BY <2>3
    <3> HIDE DEF data
    <3> QED
      BY <3>1, ProfileAskWhole
  <2> QED
    BY <1>4, <2>1, <2>2, <2>3 DEF SaveField
<1>5. ASSUME NEW i, StartRename(i)
      PROVE  Whole(row', asked')
  <2> DEFINE data == [step |-> "rename_subscription", subscription_id |-> i]
  <2>1. /\ Put("subscription_management", data) /\ DOMAIN data = {"step", "subscription_id"}
        /\ data.step = "rename_subscription" /\ asked'.kind \notin Forms
    BY <1>5 DEF StartRename, Ask, Question, Forms, TypedSteps
  <2> HIDE DEF data
  <2> QED
    BY <2>1, PromptWhole DEF Whole
<1>6. CASE StartManualReferrer
  <2> DEFINE data == [step |-> "manual_referrer"]
  <2>1. /\ Put("referral_setup", data) /\ DOMAIN data = {"step"}
        /\ data.step = "manual_referrer" /\ asked'.kind \notin Forms
    BY <1>6 DEF StartManualReferrer, Ask, Question, Forms, TypedSteps
  <2> HIDE DEF data
  <2> QED
    BY <1>1, <2>1, PromptWhole DEF Whole
<1>7. CASE SetGender \/ \E h \in Handlers : RenameMessage(h) \/ ManualReferrerMessage(h)
  BY <1>1, <1>7, MainWhole DEF SetGender, RenameMessage, ManualReferrerMessage
<1> QED
  BY <1>1, <1>2, <1>3, <1>4, <1>5, <1>6, <1>7 DEF ProfileScreens

\* A prompt of the wallet or of an order's payment.
LEMMA PaymentAskWhole ==
    ASSUME Whole(row, asked), NEW data, NEW what, NEW of,
           Ask("payment_process", data, Question(what, "none", of)), what \notin Forms,
           DOMAIN data \cap {"admin_action", "admin_data"} = {},
           "action" \in DOMAIN data => data.action # "control"
    PROVE  Whole(row', asked')
<1>1. asked'.kind = what /\ Put("payment_process", data)
  BY DEF Ask, Question
<1> QED
  BY <1>1, PromptWhole DEF Whole

\* The wallet's screens keep the row whole.
LEMMA WalletWhole ==
    ASSUME Whole(row, asked), WalletScreens
    PROVE  Whole(row', asked') /\ mixed' = mixed
<1>1. mixed' = mixed
  BY DEF WalletScreens, RequestCustomAmount, ShowCouponInput, InitiateCharge, ShowCardPayment,
         RequestTxid, CustomAmountMessage, ReceiptPhoto, TxidMessage, CouponMessage, goods
<1>2. CASE RequestCustomAmount
  <2> DEFINE data == [action |-> "wallet_charge", step |-> "waiting_custom_amount"]
  <2>1. /\ Ask("payment_process", data, Question("custom_amount", "none", None))
        /\ DOMAIN data = {"action", "step"} /\ data.action # "control"
        /\ "custom_amount" \notin Forms
    BY <1>2 DEF RequestCustomAmount, Forms, TypedSteps
  <2> HIDE DEF data
  <2> QED
    BY <1>1, <2>1, PaymentAskWhole
<1>3. CASE ShowCouponInput
  <2> DEFINE data == [action |-> "wallet_coupon", step |-> "waiting_coupon"]
  <2>1. /\ Ask("payment_process", data, Question("coupon", "none", None))
        /\ DOMAIN data = {"action", "step"} /\ data.action # "control"
        /\ "coupon" \notin Forms
    BY <1>3 DEF ShowCouponInput, Forms, TypedSteps
  <2> HIDE DEF data
  <2> QED
    BY <1>1, <2>1, PaymentAskWhole
<1>4. ASSUME NEW i, ShowCardPayment(i)
      PROVE  Whole(row', asked')
  <2> DEFINE data == [action |-> "wallet_charge", amount |-> i, step |-> "waiting_receipt"]
  <2>1. /\ Ask("payment_process", data, Question("wallet_receipt", "none", i))
        /\ DOMAIN data = {"action", "amount", "step"} /\ data.action # "control"
        /\ "wallet_receipt" \notin Forms
    BY <1>4 DEF ShowCardPayment, Forms, TypedSteps
  <2> HIDE DEF data
  <2> QED
    BY <2>1, PaymentAskWhole
<1>5. ASSUME NEW i, RequestTxid(i)
      PROVE  Whole(row', asked')
  <2> DEFINE data == [action |-> "wallet_crypto_txid", payment_id |-> i, step |-> "waiting_txid"]
  <2>1. /\ Ask("payment_process", data, Question("txid", "none", i))
        /\ DOMAIN data = {"action", "payment_id", "step"} /\ data.action # "control"
        /\ "txid" \notin Forms
    BY <1>5 DEF RequestTxid, Forms, TypedSteps
  <2> HIDE DEF data
  <2> QED
    BY <2>1, PaymentAskWhole
<1>6. ASSUME NEW i, ShowWalletMethods(i), asked' = asked \/ asked' = NoQuestion
      PROVE  Whole(row', asked')
  <2> DEFINE data == [action |-> "wallet_charge", amount |-> i]
  <2>1. /\ Put("payment_process", data) /\ DOMAIN data = {"action", "amount"}
        /\ data.action = "wallet_charge"
    BY <1>6 DEF ShowWalletMethods
  <2>2. NoQuestion.kind \notin Forms
    BY DEF NoQuestion, Question, Forms, TypedSteps
  <2> HIDE DEF data
  <2>3. CASE asked' = asked
    BY <2>1, <2>3, ScreenWhole
  <2>4. CASE asked' = NoQuestion
    BY <2>1, <2>2, <2>4, PromptWhole DEF Whole
  <2> QED
    BY <1>6, <2>3, <2>4
<1>7. ASSUME NEW h \in Handlers, ReceiptPhoto(h) \/ TxidMessage(h) \/ CouponMessage(h)
      PROVE  Whole(row', asked')
  BY <1>7, MainWhole DEF ReceiptPhoto, TxidMessage, CouponMessage
<1> QED
  BY <1>1, <1>2, <1>3, <1>4, <1>5, <1>6, <1>7
  DEF WalletScreens, InitiateCharge, CustomAmountMessage

\* A screen that leads to an order's payment.
LEMMA OrderWhole ==
    ASSUME Whole(row, asked), NEW i,
           Ask("purchase_flow", [step |-> "payment_method", order_id |-> i], NoQuestion)
    PROVE  Whole(row', asked')
<1> DEFINE data == [step |-> "payment_method", order_id |-> i]
<1>1. /\ Put("purchase_flow", data) /\ DOMAIN data = {"step", "order_id"}
      /\ data.step = "payment_method" /\ asked'.kind \notin Forms
  BY DEF Ask, NoQuestion, Question, Forms, TypedSteps
<1> HIDE DEF data
<1> QED
  BY <1>1, PromptWhole DEF Whole

\* The shop's screens keep the row whole.
LEMMA PurchaseWhole ==
    ASSUME Whole(row, asked), PurchaseScreens
    PROVE  Whole(row', asked') /\ mixed' = mixed
<1>1. mixed' = mixed
  BY DEF PurchaseScreens, ShowPlans, ShowService, ShowPlanDetails, PlanPicker, PlanFilter, Browse,
         PaidAtOnce, CancelPurchase, ShowPaymentMethods, RequestPurchaseCoupon, ShowSelectedCard,
         PaymentDone, PaymentNotDone, PurchaseCouponMessage, CardReceipt, goods
<1>2. ASSUME NEW step \in {"plan_selection", "service_selection", "plan_details", "plan_filters"},
             Browse(step)
      PROVE  Whole(row', asked')
  <2> DEFINE data == [step |-> step]
  <2>1. /\ Put("purchase_flow", data) /\ DOMAIN data = {"step"} /\ data.step = step
        /\ asked' = asked
    BY <1>2 DEF Browse
  <2> HIDE DEF data
  <2> QED
    BY <2>1, ScreenWhole
<1>3. ASSUME NEW i, ShowPaymentMethods(i)
      PROVE  Whole(row', asked')
  <2> DEFINE data == [step |-> "payment_method", order_id |-> i]
  <2>1. /\ Put("purchase_flow", data) /\ DOMAIN data = {"step", "order_id"}
        /\ data.step = "payment_method" /\ asked' = asked
    BY <1>3 DEF ShowPaymentMethods
  <2> HIDE DEF data
  <2> QED
    BY <2>1, ScreenWhole
<1>4. CASE PaidAtOnce \/ CancelPurchase
  <2>1. Menu \/ (Replace("purchase_flow", [step |-> "plan_details"]) /\ asked' = NoQuestion)
    BY <1>4 DEF PaidAtOnce, CancelPurchase
  <2>2. ASSUME Replace("purchase_flow", [step |-> "plan_details"]), asked' = NoQuestion
        PROVE  Whole(row', asked')
    BY <2>2 DEF Replace, Whole, PlacesKnown, TicketWhole, ControlWhole, FormWhole, OneReading, Str,
                Forms, TextReading, Question, NoQuestion, Several, TypedSteps
  <2> QED
    BY <1>1, <2>1, <2>2, MainWhole
<1>5. ASSUME NEW i, RequestPurchaseCoupon(i)
      PROVE  Whole(row', asked')
  <2> DEFINE data == [step |-> "waiting_purchase_coupon", action |-> "purchase_coupon",
                      order_id |-> i]
  <2>1. /\ Ask("payment_process", data, Question("purchase_coupon", "none", i))
        /\ DOMAIN data = {"step", "action", "order_id"} /\ data.action # "control"
        /\ "purchase_coupon" \notin Forms
    BY <1>5 DEF RequestPurchaseCoupon, Forms, TypedSteps
  <2> HIDE DEF data
  <2> QED
    BY <2>1, PaymentAskWhole
<1>6. ASSUME NEW i, ShowSelectedCard(i)
      PROVE  Whole(row', asked')
  <2> DEFINE data == [step |-> "card_transfer", order_id |-> i, card_id |-> TRUE,
                      action |-> "none"]
  <2>1. /\ Put("payment_process", data) /\ data.action = "none" /\ asked' = asked
        /\ DOMAIN data = {"step", "order_id", "card_id", "action"}
    BY <1>6 DEF ShowSelectedCard
  <2> HIDE DEF data
  <2> QED
    BY <2>1, ScreenWhole
<1>7. ASSUME NEW i, PaymentDone(i)
      PROVE  Whole(row', asked')
  <2> DEFINE data == [step |-> "waiting_receipt", order_id |-> i, action |-> "none",
                      card_id |-> row.data.card_id]
  <2>1. /\ Ask("payment_process", data, Question("order_receipt", "none", i))
        /\ DOMAIN data = {"step", "order_id", "action", "card_id"} /\ data.action # "control"
        /\ "order_receipt" \notin Forms
    BY <1>7 DEF PaymentDone, Forms, TypedSteps
  <2> HIDE DEF data
  <2> QED
    BY <2>1, PaymentAskWhole
<1>8. ASSUME NEW i, PaymentNotDone(i)
      PROVE  Whole(row', asked')
  BY <1>8, OrderWhole DEF PaymentNotDone
<1>9. ASSUME NEW h, PurchaseCouponMessage(h)
      PROVE  Whole(row', asked')
  BY <1>9, OrderWhole, MainWhole DEF PurchaseCouponMessage
<1>10. ASSUME NEW h, CardReceipt(h)
       PROVE  Whole(row', asked')
  <2> DEFINE i == handling[h].read.of
             data == [step |-> "under_review", order_id |-> i]
  <2>1. /\ Put("payment_process", data) /\ DOMAIN data = {"step", "order_id"}
        /\ asked'.kind \notin Forms
    BY <1>10 DEF CardReceipt, Ask, NoQuestion, Question, Forms, TypedSteps
  <2> HIDE DEF data
  <2> QED
    BY <2>1, PromptWhole DEF Whole
<1> QED
  BY <1>1, <1>2, <1>3, <1>4, <1>5, <1>6, <1>7, <1>8, <1>9, <1>10
  DEF PurchaseScreens, ShowPlans, ShowService, ShowPlanDetails, PlanPicker, PlanFilter

\* The support's screens keep the row whole, and no ticket is mixed.
LEMMA SupportWhole ==
    ASSUME Whole(row, asked), \A h \in Handlers : Routed(handling[h]), SupportScreens
    PROVE  Whole(row', asked') /\ mixed' = mixed
<1>1. CASE CreateTicket
  BY <1>1, CreateTicketWhole DEF CreateTicket
<1>2. CASE TicketDevice
  BY <1>2, TicketDeviceWhole DEF TicketDevice, goods
<1>3. CASE TicketCategory
  BY <1>3, TicketCategoryWhole DEF TicketCategory, goods
<1>4. CASE ShowMyTickets
  BY <1>4, MainWhole DEF ShowMyTickets, goods
<1>5. CASE StartFaqSearch
  <2> DEFINE data == [step |-> "search_faq"]
  <2>1. /\ Put("support_ticket", data) /\ DOMAIN data = {"step"} /\ data.step = "search_faq"
        /\ asked'.kind \notin Forms /\ mixed' = mixed
    BY <1>5 DEF StartFaqSearch, Ask, Question, Forms, TypedSteps, goods
  <2> HIDE DEF data
  <2> QED
    BY <2>1, ReplyWhole
<1>6. ASSUME NEW i, StartTicketReply(i)
      PROVE  Whole(row', asked') /\ mixed' = mixed
  <2> DEFINE data == [step |-> "reply", ticket_id |-> i]
  <2>1. /\ Put("support_ticket", data) /\ DOMAIN data = {"step", "ticket_id"}
        /\ data.step = "reply" /\ asked'.kind \notin Forms /\ mixed' = mixed
    BY <1>6 DEF StartTicketReply, Ask, Question, Forms, TypedSteps, goods
  <2> HIDE DEF data
  <2> QED
    BY <2>1, ReplyWhole
<1>7. ASSUME NEW h \in Handlers, TicketSubject(h)
      PROVE  Whole(row', asked') /\ mixed' = mixed
  BY <1>7, TicketSubjectWhole DEF TicketSubject, goods
<1>8. ASSUME NEW h \in Handlers, TicketDescription(h)
      PROVE  Whole(row', asked') /\ mixed' = mixed
  BY <1>8, TicketUnmixed, MainWhole DEF TicketDescription
<1>9. ASSUME NEW h \in Handlers, TicketReply(h) \/ FaqSearch(h)
      PROVE  Whole(row', asked') /\ mixed' = mixed
  BY <1>9, MainWhole DEF TicketReply, FaqSearch, goods
<1> QED
  BY <1>1, <1>2, <1>3, <1>4, <1>5, <1>6, <1>7, <1>8, <1>9 DEF SupportScreens

\* The control panel keeps the row whole, and no link or rule is mixed.
LEMMA ControlPanelWhole ==
    ASSUME Whole(row, asked), \A h \in Handlers : Routed(handling[h]), ControlPanel
    PROVE  Whole(row', asked') /\ mixed' = mixed
<1>1. ASSUME NEW action \in {"linknew", "rulenew", "usercredit", "linkedit", "planedit", "chedit",
                             "tiernew", "tieredit", "ruleedit", "usersearch"},
             NEW object, Prompt(action, object) \/ NumberedPrompt(action)
      PROVE  Whole(row', asked') /\ mixed' = mixed
  <2>1. mixed' = mixed
    BY <1>1 DEF Prompt, NumberedPrompt, goods
  <2>2. ControlPrompt(action, object) \/ ControlPrompt(action, forms + 1)
    BY <1>1 DEF Prompt, NumberedPrompt
  <2>3. action \notin {"linkowner", "ruletext"}
    OBVIOUS
  <2> DEFINE n == forms + 1
  <2>4. ControlPrompt(action, object) \/ ControlPrompt(action, n)
    BY <2>2
  <2> HIDE DEF n
  <2> QED
    BY <2>1, <2>3, <2>4, ControlPromptWhole
<1>2. CASE ControlScreen
  BY <1>2, MainWhole DEF ControlScreen, goods
<1>3. ASSUME NEW h \in Handlers, LinkNameMessage(h) \/ RuleNameMessage(h)
      PROVE  Whole(row', asked') /\ mixed' = mixed
  <2>1. NameMessage(h, "linknew", "linkowner") \/ NameMessage(h, "rulenew", "ruletext")
    BY <1>3 DEF LinkNameMessage, RuleNameMessage
  <2>2. mixed' = mixed
    BY <2>1 DEF NameMessage, goods
  <2> QED
    BY <2>1, <2>2, NameWhole
<1>4. ASSUME NEW h \in Handlers, LinkOwnerMessage(h) \/ RuleTextMessage(h)
      PROVE  Whole(row', asked') /\ mixed' = mixed
  <2>1. SecondMessage(h, "linkowner") \/ SecondMessage(h, "ruletext")
    BY <1>4 DEF LinkOwnerMessage, RuleTextMessage
  <2>2. mixed' = mixed
    BY <2>1, ControlUnmixed
  <2> QED
    BY <2>1, <2>2, MainWhole DEF SecondMessage
<1>5. ASSUME NEW h \in Handlers, ObjectMessage(h) \/ CreditMessage(h)
      PROVE  Whole(row', asked') /\ mixed' = mixed
  BY <1>5, MainWhole DEF ObjectMessage, CreditMessage, goods
<1> QED
  BY <1>1, <1>2, <1>3, <1>4, <1>5
  DEF ControlPanel, LinkNew, RuleNew, UserCredit, TierNew, UserSearch, LinkEdit, PlanEdit,
      ChallengeEdit, TierEdit, RuleEdit

\* The staff's edits and searches keep the row whole.
LEMMA EditsWhole ==
    ASSUME Whole(row, asked), ~scene.hasty, StaffEdits
    PROVE  Whole(row', asked') /\ mixed' = mixed
<1>1. ASSUME NEW part, NEW action \in DOMAIN Target, EditPrompt(part, action, <<>>, None)
      PROVE  Whole(row', asked') /\ mixed' = mixed
  <2> DEFINE data == <<>>
  <2>1. EditPrompt(part, action, data, None) /\ DOMAIN data = {}
    BY <1>1
  <2>2. mixed' = mixed
    BY <1>1 DEF EditPrompt, goods
  <2> HIDE DEF data
  <2> QED
    BY <2>1, <2>2, EditWhole
<1>2. ASSUME NEW part, NEW action \in DOMAIN Target, NEW i, NEW data,
             EditPrompt(part, action, data, i),
             DOMAIN data \subseteq {"step", "user_uuid", "order_number", "ticket_id", "card_id",
                                    "wallet_id"}
      PROVE  Whole(row', asked') /\ mixed' = mixed
  <2>1. mixed' = mixed
    BY <1>2 DEF EditPrompt, goods
  <2> QED
    BY <1>2, <2>1, EditWhole
<1>3. CASE \/ StartSearchPanelUser \/ StartSearchPanelAdmin \/ EditBrandName
           \/ EditBrandDescription \/ SearchPayment
  BY <1>1, <1>3 DEF StartSearchPanelUser, StartSearchPanelAdmin, EditBrandName,
                    EditBrandDescription, SearchPayment, Target
<1>4. ASSUME NEW i, StartEditUserField(i)
      PROVE  Whole(row', asked') /\ mixed' = mixed
  <2> DEFINE data == [user_uuid |-> i, step |-> "input"]
  <2>1. /\ EditPrompt("panel_users", "edit_panel_user", data, i)
        /\ DOMAIN data = {"user_uuid", "step"}
    BY <1>4 DEF StartEditUserField
  <2> HIDE DEF data
  <2> QED
    BY <1>2, <2>1 DEF Target
<1>5. ASSUME NEW i, StartOrderAdminNote(i)
      PROVE  Whole(row', asked') /\ mixed' = mixed
  <2> DEFINE data == [order_number |-> i]
  <2>1. EditPrompt("orders", "order_admin_note", data, i) /\ DOMAIN data = {"order_number"}
    BY <1>5 DEF StartOrderAdminNote
  <2> HIDE DEF data
  <2> QED
    BY <1>2, <2>1 DEF Target
<1>6. ASSUME NEW i, StartStaffReply(i)
      PROVE  Whole(row', asked') /\ mixed' = mixed
  <2> DEFINE data == [ticket_id |-> i]
  <2>1. EditPrompt("tickets", "ticket_reply", data, i) /\ DOMAIN data = {"ticket_id"}
    BY <1>6 DEF StartStaffReply
  <2> HIDE DEF data
  <2> QED
    BY <1>2, <2>1 DEF Target
<1>7. ASSUME NEW i, StartEditCardField(i)
      PROVE  Whole(row', asked') /\ mixed' = mixed
  <2> DEFINE data == [card_id |-> i, step |-> "input"]
  <2>1. EditPrompt("cards", "edit_card", data, i) /\ DOMAIN data = {"card_id", "step"}
    BY <1>7 DEF StartEditCardField
  <2> HIDE DEF data
  <2> QED
    BY <1>2, <2>1 DEF Target
<1>8. ASSUME NEW i, StartEditCryptoField(i)
      PROVE  Whole(row', asked') /\ mixed' = mixed
  <2> DEFINE data == [wallet_id |-> i, step |-> "input"]
  <2>1. EditPrompt("crypto", "edit_crypto", data, i) /\ DOMAIN data = {"wallet_id", "step"}
    BY <1>8 DEF StartEditCryptoField
  <2> HIDE DEF data
  <2> QED
    BY <1>2, <2>1 DEF Target
<1>9. CASE RequestSearchUsername
  BY <1>9, UsernameWhole DEF RequestSearchUsername, goods
<1>10. ASSUME NEW h \in Handlers, NEW action, SingleAnswer(h, action)
       PROVE  Whole(row', asked') /\ mixed' = mixed
  BY <1>10, MainWhole DEF SingleAnswer, goods
<1> QED
  BY <1>3, <1>4, <1>5, <1>6, <1>7, <1>8, <1>9, <1>10
  DEF StaffEdits, ApplyUserFieldEdit, OrderAdminNote, StaffTicketReply, PanelAdminSearch,
      EditCardField, EditCryptoField, EditBrandField, PaymentSearch, UsernameSearch

\* The steps that follow each other.
LEMMA StepsFollow ==
    /\ Follows("add_panel_user", "name", "usage_limit")
    /\ Follows("add_panel_user", "usage_limit", "package_days")
    /\ Follows("add_panel_admin", "name", "mode")
    /\ Follows("add_panel_admin", "mode", "telegram_id")
    /\ Follows("add_panel_admin", "telegram_id", "can_add_admin")
    /\ Follows("add_card", "bank_name", "card_number")
    /\ Follows("add_card", "card_number", "cardholder_name")
    /\ Follows("add_crypto", "name", "symbol")
    /\ Follows("add_crypto", "symbol", "network")
    /\ Follows("add_crypto", "network", "wallet_address")
    /\ Follows("add_gateway", "gateway_type", "name")
    /\ Follows("add_gateway", "name", "api_key")
    /\ Follows("add_gateway", "api_key", "secret_key")
    /\ Follows("broadcast", "message", "confirm")
BY DEF Follows, Before, Forms, TypedSteps

\* The first steps, and what the last ones find.
LEMMA StepsEnd ==
    /\ \A pair \in {<<"add_panel_user", "name">>, <<"add_panel_admin", "name">>,
                    <<"add_card", "bank_name">>, <<"add_crypto", "name">>,
                    <<"add_gateway", "gateway_type">>, <<"broadcast", "message">>} :
           /\ pair[1] \in Forms /\ pair[2] \in DOMAIN Before[pair[1]]
           /\ Before[pair[1]][pair[2]] = {}
    /\ Before.add_panel_user.package_days = {"name", "usage_limit"}
    /\ Before.add_card.cardholder_name = {"bank_name", "card_number"}
    /\ Before.add_crypto.wallet_address = {"name", "symbol", "network"}
    /\ Before.add_gateway.secret_key = {"gateway_type", "name", "api_key"}
    /\ "package_days" \in DOMAIN Before.add_panel_user
    /\ "cardholder_name" \in DOMAIN Before.add_card
    /\ "wallet_address" \in DOMAIN Before.add_crypto
    /\ "secret_key" \in DOMAIN Before.add_gateway
    /\ {"add_panel_user", "add_card", "add_crypto", "add_gateway", "broadcast"} \subseteq Forms
BY DEF Before, Forms, TypedSteps

\* The staff's forms keep the row whole, and nothing made of them is mixed.
LEMMA FormsWhole ==
    ASSUME Whole(row, asked), ~scene.hasty, \A h \in Handlers : Routed(handling[h]), StaffForms
    PROVE  Whole(row', asked') /\ mixed' = mixed
<1>1. ASSUME NEW part, NEW form \in Forms, NEW step \in DOMAIN Before[form],
             Before[form][step] = {}, StartForm(part, form, step)
      PROVE  Whole(row', asked') /\ mixed' = mixed
  <2>1. mixed' = mixed
    BY <1>1 DEF StartForm
  <2> QED
    BY <1>1, <2>1, StartFormWhole
<1>2. CASE \/ StartAddPanelUser \/ StartAddPanelAdmin \/ AddPaymentCard \/ AddCryptoCurrency
           \/ AddPaymentGateway \/ StartBroadcast
  BY <1>1, <1>2, StepsEnd DEF StartAddPanelUser, StartAddPanelAdmin, AddPaymentCard,
                              AddCryptoCurrency, AddPaymentGateway, StartBroadcast
<1>3. ASSUME NEW part, NEW form, NEW step, NEW next, Follows(form, step, next),
             form = "add_panel_admin" => step = "mode" /\ next = "telegram_id",
             ButtonStep(part, form, step, next)
      PROVE  Whole(row', asked') /\ mixed' = mixed
  <2>1. mixed' = mixed
    BY <1>3 DEF ButtonStep, goods
  <2> QED
    BY <1>3, <2>1, ButtonWhole
<1>4. CASE PanelAdminMode \/ CryptoNetwork \/ GatewayType
  BY <1>3, <1>4, StepsFollow DEF PanelAdminMode, CryptoNetwork, GatewayType
<1>5. ASSUME NEW h \in Handlers, NEW form, NEW step, NEW next, Follows(form, step, next),
             TypedStep(h, form, step, next)
      PROVE  Whole(row', asked') /\ mixed' = mixed
  <2>1. mixed' = mixed
    BY <1>5 DEF TypedStep, goods
  <2> QED
    BY <1>5, <2>1, TypedWhole
<1>6. ASSUME NEW h \in Handlers, NEW form \in Forms, NEW step \in DOMAIN Before[form], NEW fields,
             fields \subseteq Before[form][step] \cup {step}, LastStep(h, form, step, fields)
      PROVE  Whole(row', asked') /\ mixed' = mixed
  BY <1>6, LastUnmixed, MainWhole DEF LastStep
<1>7. ASSUME NEW h \in Handlers,
             \/ AddPanelUserStep(h) \/ AddPanelAdminStep(h) \/ CardStep(h) \/ CryptoStep(h)
             \/ GatewayStep(h) \/ BroadcastInput(h)
      PROVE  Whole(row', asked') /\ mixed' = mixed
  <2>1. CASE AddPanelUserStep(h)
    <3>1. CASE LastStep(h, "add_panel_user", "package_days",
                        {"name", "usage_limit", "package_days"})
      BY <1>6, <3>1, StepsEnd
    <3> QED
      BY <1>5, <2>1, <3>1, StepsFollow DEF AddPanelUserStep
  <2>2. CASE AddPanelAdminStep(h)
    BY <1>5, <2>2, StepsFollow DEF AddPanelAdminStep
  <2>3. CASE CardStep(h)
    <3>1. CASE LastStep(h, "add_card", "cardholder_name",
                        {"bank_name", "card_number", "cardholder_name"})
      BY <1>6, <3>1, StepsEnd
    <3> QED
      BY <1>5, <2>3, <3>1, StepsFollow DEF CardStep
  <2>4. CASE CryptoStep(h)
    <3>1. CASE LastStep(h, "add_crypto", "wallet_address",
                        {"name", "symbol", "network", "wallet_address"})
      BY <1>6, <3>1, StepsEnd
    <3> QED
      BY <1>5, <2>4, <3>1, StepsFollow DEF CryptoStep
  <2>5. CASE GatewayStep(h)
    <3>1. CASE LastStep(h, "add_gateway", "secret_key", {"gateway_type", "name", "api_key"})
      BY <1>6, <3>1, StepsEnd
    <3> QED
      BY <1>5, <2>5, <3>1, StepsFollow DEF GatewayStep
  <2>6. CASE BroadcastInput(h)
    BY <1>5, <2>6, StepsFollow DEF BroadcastInput
  <2> QED
    BY <1>7, <2>1, <2>2, <2>3, <2>4, <2>5, <2>6
<1>8. CASE StartEditPanelAdmin
  BY <1>8, EditAdminWhole DEF StartEditPanelAdmin, goods
<1>9. CASE PanelAdminCanAdd
  BY <1>9, AdminUnmixed, MainWhole DEF PanelAdminCanAdd
<1>10. CASE CancelBroadcast \/ \E h \in Handlers : BroadcastEnds(h)
  BY <1>10, MainWhole DEF CancelBroadcast, BroadcastEnds, goods
<1>11. ASSUME NEW h \in Handlers, BroadcastConfirm(h)
       PROVE  Whole(row', asked') /\ mixed' = mixed
  <2> DEFINE data == handling[h].row.data
  <2>1. ExecuteBroadcast(h, data) /\ Filled(data, "broadcast", "confirm")
    BY <1>11, FormRouted, StepsEnd DEF BroadcastConfirm
  <2> HIDE DEF data
  <2> QED
    BY <2>1, BroadcastUnmixed, SameWhole DEF ExecuteBroadcast
<1>12. ASSUME NEW h \in Handlers, BroadcastSend(h)
       PROVE  Whole(row', asked') /\ mixed' = mixed
  <2> DEFINE data == row.data
  <2>1. ExecuteBroadcast(h, data) /\ Filled(data, "broadcast", "confirm")
    BY <1>12, StepsEnd DEF BroadcastSend, Whole, FormWhole
  <2> HIDE DEF data
  <2> QED
    BY <2>1, BroadcastUnmixed, SameWhole DEF ExecuteBroadcast
<1> QED
  BY <1>2, <1>4, <1>7, <1>8, <1>9, <1>10, <1>11, <1>12 DEF StaffForms

-----------------------------------------------------------------------------
(* Forms are whole *)

\* The first state.
LEMMA ScreensInit ==
    ASSUME BotInit
    PROVE  ScreensInv
<1>1. \A h \in Handlers : handling[h].pc = "idle"
  BY DEF BotInit, NoJob
<1>2. DOMAIN handling = Handlers /\ mixed = {} /\ asked = NoQuestion
  BY DEF BotInit
<1>3. row = [state |-> "new", data |-> <<>>] \/ row = [state |-> "main_menu", data |-> <<>>]
  BY DEF BotInit
<1>4. Whole(row, asked)
  BY <1>2, <1>3 DEF Whole, PlacesKnown, TicketWhole, ControlWhole, FormWhole, OneReading, Str,
                    Forms, TextReading, Question, NoQuestion, Several, TypedSteps
<1> QED
  BY <1>1, <1>2, <1>4 DEF ScreensInv, Routed

\* The jobs stay routed when one ends.
LEMMA QuietRouted ==
    ASSUME DOMAIN handling = Handlers, \A h \in Handlers : Routed(handling[h]), Quiet
    PROVE  \A h \in Handlers : Routed(handling'[h])
<1>1. CASE handling' = handling
  BY <1>1
<1>2. ASSUME NEW h \in Handlers, NEW end \in {NoJob, [pc |-> "sending"]},
             handling' = [handling EXCEPT ![h] = end]
      PROVE  \A g \in Handlers : Routed(handling'[g])
  <2>1. handling'[h] = end /\ \A g \in Handlers \ {h} : handling'[g] = handling[g]
    BY <1>2
  <2>2. Routed(end)
    BY DEF Routed, NoJob
  <2> QED
    BY <2>1, <2>2
<1> QED
  BY <1>1, <1>2 DEF Quiet

\* What a handler takes of a message and of the row.
LEMMA Sends ==
    ASSUME NEW h, NEW medium, Send(h, medium)
    PROVE  \E act : /\ handling' = [handling EXCEPT ![h] = act]
                    /\ act.pc = "sent" /\ act.read = Reading(medium, row)
                    /\ act.read.kind \in Several => act.row = row /\ act.asked = asked
<1> DEFINE read == Reading(medium, row)
           act == IF read.kind \in Several
                  THEN [pc |-> "sent", medium |-> medium, read |-> read, row |-> row,
                        asked |-> asked]
                  ELSE [pc |-> "sent", medium |-> medium, read |-> read]
<1>1. handling' = [handling EXCEPT ![h] = act]
  BY DEF Send
<1> HIDE DEF read
<1>2. act.pc = "sent" /\ act.read = read
  OBVIOUS
<1>3. read.kind \in Several => act.row = row /\ act.asked = asked
  OBVIOUS
<1> HIDE DEF act
<1> WITNESS act
<1> QED
  BY <1>1, <1>2, <1>3 DEF read

\* A message is routed by the row as it is.
LEMMA SendRouted ==
    ASSUME DOMAIN handling = Handlers, \A h \in Handlers : Routed(handling[h]),
           Whole(row, asked), NEW k \in Handlers, NEW medium \in Media, Send(k, medium)
    PROVE  \A h \in Handlers : Routed(handling'[h])
<1>1. PICK act : /\ handling' = [handling EXCEPT ![k] = act]
                 /\ act.read = Reading(medium, row)
                 /\ act.read.kind \in Several => act.row = row /\ act.asked = asked
  BY Sends
<1>2. Routed(act)
  BY <1>1, SeveralReadings DEF Routed, Whole, OneReading
<1>3. handling'[k] = act /\ \A h \in Handlers \ {k} : handling'[h] = handling[h]
  BY <1>1
<1> QED
  BY <1>2, <1>3

\* What the handlers are doing.
Busy == /\ DOMAIN handling = Handlers
        /\ \A h \in Handlers : handling[h].pc \in {"idle", "sent", "sending"}

\* Every step leaves a message with each handler, or none.
LEMMA StepBusy ==
    ASSUME Busy, BotNext
    PROVE  Busy'
<1>1. CASE Quiet
  <2>1. ASSUME NEW h \in Handlers, NEW end \in {NoJob, [pc |-> "sending"]},
               handling' = [handling EXCEPT ![h] = end]
        PROVE  Busy'
    BY <2>1 DEF Busy, NoJob
  <2> QED
    BY <1>1, <2>1 DEF Quiet, Busy
<1>2. ASSUME NEW h \in Handlers, NEW medium \in Media, Send(h, medium)
      PROVE  Busy'
  <2>1. PICK act : handling' = [handling EXCEPT ![h] = act] /\ act.pc = "sent"
    BY <1>2, Sends
  <2> QED
    BY <2>1 DEF Busy
<1> QED
  BY <1>1, <1>2, StepsQuiet

\* Every step keeps the row, the messages and what is made whole.
LEMMA ScreensNext ==
    ASSUME ScreensInv, BotNext
    PROVE  ScreensInv'
<1>1. scene' = scene
  BY StepsQuiet DEF Quiet, Send
<1>2. Busy'
  BY StepBusy DEF ScreensInv, Busy
<1>3. ASSUME ~scene.hasty
      PROVE  Whole(row', asked') /\ mixed' = {} /\ \A h \in Handlers : Routed(handling'[h])
  <2>1. /\ Whole(row, asked) /\ mixed = {} /\ DOMAIN handling = Handlers
        /\ \A h \in Handlers : Routed(handling[h])
    BY <1>3 DEF ScreensInv
  <2>2. \A h \in Handlers : Routed(handling'[h])
    BY <2>1, StepsQuiet, QuietRouted, SendRouted
  <2>3. CASE RevokeStaff \/ MainMenu \/ Messages
    BY <2>1, <2>2, <2>3, MainWhole, SameWhole
    DEF RevokeStaff, MainMenu, Messages, Send, Refuse, Demoted, Cancelled, goods
  <2>4. CASE \/ Onboarding \/ ProfileScreens \/ WalletScreens \/ PurchaseScreens
             \/ SupportScreens \/ ControlPanel \/ StaffEdits \/ StaffForms
    BY <1>3, <2>1, <2>2, <2>4, OnboardingWhole, ProfileWhole, WalletWhole, PurchaseWhole,
       SupportWhole, ControlPanelWhole, EditsWhole, FormsWhole
  <2> QED
    BY <2>1, <2>2, <2>3, <2>4 DEF BotNext
<1> QED
  BY <1>1, <1>2, <1>3 DEF ScreensInv, Busy

\* Whatever row or copy of the row an answer is kept in holds the other answers of one
\* form, the one whose question is open (BaseHandler.update_user_state, state.asave).
THEOREM ScreensInvariant == BotSpec => []ScreensInv
<1>1. ScreensInv /\ UNCHANGED botVars => ScreensInv'
  BY DEF ScreensInv, Whole, FormWhole, botVars, goods
<1> QED
  BY <1>1, ScreensInit, ScreensNext, PTL DEF BotSpec

\* A ticket, link, rule, panel user, panel admin, card, crypto wallet, gateway or
\* broadcast is made of answers given to one form only.
THEOREM FormsStayWhole == BotSpec => []FormsAreWhole
<1>1. ScreensInv => FormsAreWhole
  BY DEF ScreensInv, FormsAreWhole
<1> QED
  BY <1>1, ScreensInvariant, PTL

-----------------------------------------------------------------------------
(* Objects are made once *)

\* A count goes from none to one and no further.
LEMMA CountOnce ==
    ASSUME NEW f \in [1..MaxForms -> 0..1], NEW n
    PROVE  [f EXCEPT ![n] = IF @ = 0 THEN 1 ELSE @] \in [1..MaxForms -> 0..1]
<1> DEFINE v == IF f[n] = 0 THEN 1 ELSE f[n]
<1>1. n \in 1..MaxForms => v \in 0..1
  OBVIOUS
<1> HIDE DEF v
<1>2. [f EXCEPT ![n] = v] \in [1..MaxForms -> 0..1]
  BY <1>1
<1> QED
  BY <1>2 DEF v

\* Made objects are counted to one.
LEMMA OnceInvariant == BotSpec => []OnceInv
<1>1. BotInit => OnceInv
  BY DEF BotInit, OnceInv
<1>2. ASSUME OnceInv, BotNext
      PROVE  OnceInv'
  <2>1. CASE made' = made
    BY <1>2, <2>1 DEF OnceInv
  <2>2. ASSUME NEW what \in {"ticket", "credit"}, NEW new \in [1..MaxForms -> 0..1],
               made' = [made EXCEPT ![what] = new]
        PROVE  OnceInv'
    BY <1>2, <2>2 DEF OnceInv
  <2>3. ASSUME NEW n, CreateTicketOnce(n)
        PROVE  OnceInv'
    <3> DEFINE old == made["ticket"]
               new == [old EXCEPT ![n] = IF @ = 0 THEN 1 ELSE @]
    <3>1. made' = [made EXCEPT !["ticket"] = new]
      BY <2>3, Zenon DEF CreateTicketOnce
    <3>2. old \in [1..MaxForms -> 0..1]
      BY <1>2 DEF OnceInv
    <3> HIDE DEF old
    <3>3. new \in [1..MaxForms -> 0..1]
      BY <3>2, CountOnce
    <3> HIDE DEF new
    <3> QED
      BY <2>2, <3>1, <3>3
  <2>4. ASSUME NEW n, CreditOnce(n)
        PROVE  OnceInv'
    <3> DEFINE old == made["credit"]
               new == [old EXCEPT ![n] = IF @ = 0 THEN 1 ELSE @]
    <3>1. made' = [made EXCEPT !["credit"] = new]
      BY <2>4, Zenon DEF CreditOnce
    <3>2. old \in [1..MaxForms -> 0..1]
      BY <1>2 DEF OnceInv
    <3> HIDE DEF old
    <3>3. new \in [1..MaxForms -> 0..1]
      BY <3>2, CountOnce
    <3> HIDE DEF new
    <3> QED
      BY <2>2, <3>1, <3>3
  <2> QED
    BY <1>2, <2>1, <2>3, <2>4, StepsQuiet DEF Quiet, Send, goods
<1>3. OnceInv /\ UNCHANGED botVars => OnceInv'
  <2>1. UNCHANGED botVars => made' = made
    BY DEF botVars, goods
  <2> QED
    BY <2>1 DEF OnceInv
<1> QED
  BY <1>1, <1>2, <1>3, PTL DEF BotSpec

\* An answer sent again while the first is handled makes nothing twice.
THEOREM OnePerPrompt == BotSpec => []OncePerPrompt
<1>1. ASSUME OnceInv, NEW what \in DOMAIN made, NEW n \in DOMAIN made[what]
      PROVE  made[what][n] <= 1
  <2>1. made[what] \in [1..MaxForms -> 0..1]
    BY <1>1 DEF OnceInv
  <2> QED
    BY <1>1, <2>1
<1>2. OnceInv => OncePerPrompt
  BY <1>1 DEF OncePerPrompt
<1> QED
  BY <1>2, OnceInvariant, PTL

-----------------------------------------------------------------------------
(* Answers are taken for what was asked *)

\* A photo is read as a receipt only.
LEMMA PhotoNothing ==
    ASSUME NEW r, r.state # "payment_process" \/ Str(r.data, "step") # "waiting_receipt"
    PROVE  PhotoReading(r) = NoQuestion
BY DEF PhotoReading

\* A contact is read as a text or as nothing.
LEMMA MediaFit ==
    ASSUME NEW r, NEW q, TextReading(r) \in {NoQuestion, Unknown, q},
           PhotoReading(r) \in {NoQuestion, q} \/ PhotoReading(r).kind = "wallet_receipt"
    PROVE  OwnReading(r, q)
BY DEF OwnReading, Media, Reading, ContactReading

\* Nothing has to fit where nothing is asked.
LEMMA NothingFits ==
    ASSUME NEW r, Marks(r)
    PROVE  Fits(r, NoQuestion)
BY DEF Fits, OwnStep, OwnAction, OwnReading, NoQuestion, Question, Forms, TypedSteps

\* What is merged into a row without a mark leaves those it has.
LEMMA MarksKept ==
    ASSUME Marks(row), NEW state, NEW data, Put(state, data),
           "none" \notin DOMAIN data, "admin_action" \notin DOMAIN data,
           state = "purchase_flow" => "purchase" \in scene.parts,
           "action" \in DOMAIN data => data.action # "edit_panel_admin",
           "step" \in DOMAIN data => data.step \notin {"waiting_purchase_coupon",
                                                       "waiting_custom_amount"}
    PROVE  Marks(row')
<1>1. Written(row', row.data, state, data)
  BY PutWrites
<1> QED
  BY <1>1 DEF Marks, Written, Str

\* A prompt of its own step.
LEMMA AskFits ==
    ASSUME Marks(row), NEW state, NEW data, NEW q, Ask(state, data, q), q.kind \notin Forms,
           "none" \notin DOMAIN data, "admin_action" \notin DOMAIN data, state # "purchase_flow",
           "action" \in DOMAIN data => data.action # "edit_panel_admin",
           "step" \in DOMAIN data,
           data.step \notin {"waiting_purchase_coupon", "waiting_custom_amount", "waiting_receipt"},
           TextReading(row') \in {NoQuestion, Unknown, q}
    PROVE  Fits(row', asked')
<1>1. Written(row', row.data, state, data) /\ asked' = q /\ Put(state, data)
  BY PutWrites DEF Ask
<1>2. Marks(row')
  BY <1>1, MarksKept
<1>3. Str(row'.data, "step") = data.step
  BY <1>1 DEF Written, Str
<1>4. PhotoReading(row') = NoQuestion
  BY <1>3, PhotoNothing
<1>5. OwnReading(row', asked')
  BY <1>1, <1>4, MediaFit
<1> QED
  BY <1>1, <1>2, <1>3, <1>5 DEF Fits, OwnStep, OwnAction

\* The main menu and the profile's setup fit.
LEMMA MenuFits ==
    ASSUME NEW state \in {"main_menu", "profile_setup"}, Clear(state), asked' = NoQuestion
    PROVE  Fits(row', asked')
<1>1. Marks(row')
  BY DEF Clear, Marks, Str
<1> QED
  BY <1>1, NothingFits

\* Leaving all as it is.
LEMMA SameFits ==
    ASSUME Fits(row, asked), UNCHANGED <<row, asked>>
    PROVE  Fits(row', asked')
<1>1. row' = row /\ asked' = asked
  OBVIOUS
<1> QED
  BY <1>1

\* A screen that asks nothing more.
LEMMA NoneFits ==
    ASSUME Marks(row), NEW state, NEW data, Ask(state, data, NoQuestion),
           "none" \notin DOMAIN data, "admin_action" \notin DOMAIN data,
           state = "purchase_flow" => "purchase" \in scene.parts,
           "action" \in DOMAIN data => data.action # "edit_panel_admin",
           "step" \in DOMAIN data => data.step \notin {"waiting_purchase_coupon",
                                                       "waiting_custom_amount"}
    PROVE  Fits(row', asked')
<1>1. Put(state, data) /\ asked' = NoQuestion
  BY DEF Ask
<1> QED
  BY <1>1, MarksKept, NothingFits

\* No form or setup names itself like a question of the customer's screens.
LEMMA NoFormKinds ==
    Forms \cap {"none", "setup", "profile", "rename", "referrer", "custom_amount",
                "wallet_receipt", "txid", "coupon", "purchase_coupon", "order_receipt", "ticket",
                "reply", "faq", "control", "search_user", "unknown"} = {}
BY DEF Forms, TypedSteps

\* The screens of a new user.
LEMMA OnboardingFits ==
    ASSUME Fits(row, asked), Onboarding
    PROVE  Fits(row', asked')
<1>1. CASE Menu \/ ShowProfileSetup \/ UNCHANGED <<row, asked>>
  BY <1>1, MenuFits, SameFits DEF Menu, ShowProfileSetup
<1>2. CASE AskDevice
  <2> DEFINE data == [step |-> "device"]
  <2>1. /\ Ask("profile_setup", data, NoQuestion) /\ DOMAIN data = {"step"}
        /\ data.step = "device"
    BY <1>2 DEF AskDevice
  <2> HIDE DEF data
  <2> QED
    BY <2>1, NoneFits DEF Fits
<1>3. ASSUME NEW step \in {"name", "phone"},
             Ask("profile_setup", [step |-> step], Question("setup", step, None))
      PROVE  Fits(row', asked')
  <2> DEFINE data == [step |-> step]
             q == Question("setup", step, None)
  <2>1. /\ Ask("profile_setup", data, q) /\ DOMAIN data = {"step"} /\ data.step = step
        /\ q.kind \notin Forms
    BY <1>3, NoFormKinds DEF Question
  <2>2. TextReading(row') = q
    BY <2>1, PutWrites DEF Ask, Written, TextReading, Str
  <2> HIDE DEF data, q
  <2> QED
    BY <2>1, <2>2, AskFits DEF Fits
<1>4. \/ Menu \/ ShowProfileSetup \/ UNCHANGED <<row, asked>> \/ AskDevice
      \/ \E step \in {"name", "phone"} :
             Ask("profile_setup", [step |-> step], Question("setup", step, None))
  BY DEF Onboarding, Start, EnterByMessage, Help, SetupProfile, FinishClaims, SetInitialDevice,
         FinishDevices, VerifyJoin, FindMember, ApproveJoin, PhoneStep, NameStep,
         StartProfileSetup
<1> QED
  BY <1>1, <1>2, <1>3, <1>4

\* The profile's questions.
LEMMA ProfileFits ==
    ASSUME Fits(row, asked), ProfileScreens
    PROVE  Fits(row', asked')
<1>1. CASE EditProfile
  <2> DEFINE data == [step |-> "menu"]
  <2>1. Ask("profile_edit", data, NoQuestion) /\ DOMAIN data = {"step"} /\ data.step = "menu"
    BY <1>1 DEF EditProfile
  <2> HIDE DEF data
  <2> QED
    BY <2>1, NoneFits DEF Fits
<1>2. ASSUME NEW field, NEW chain, AskField(field, chain)
      PROVE  Fits(row', asked')
  <2> DEFINE q == Question("profile", field, None)
  <2>1. /\ row' = [state |-> "profile_edit",
                   data |-> [completion_flow |-> chain, field |-> field, step |-> "waiting_input"]]
        /\ asked' = q /\ q.kind \notin Forms
    BY <1>2, NoFormKinds DEF AskField, Replace, Question
  <2>2. TextReading(row') = q /\ PhotoReading(row') = NoQuestion
    BY <2>1 DEF TextReading, PhotoReading, Str
  <2> HIDE DEF q
  <2> QED
    BY <2>1, <2>2, MediaFit DEF Fits, Marks, OwnStep, OwnAction, Str
<1>3. ASSUME NEW h \in Handlers, NEW field, SaveField(h, field)
      PROVE  Fits(row', asked')
  <2>1. CASE Menu
    BY <2>1, MenuFits DEF Menu
  <2>2. CASE Ask("profile_edit", [completion_flow |-> TRUE, field |-> NextField[field],
                                  step |-> "waiting_input"],
                 Question("profile", NextField[field], None))
    <3> DEFINE next == NextField[field]
               data == [completion_flow |-> TRUE, field |-> next, step |-> "waiting_input"]
               q == Question("profile", next, None)
    <3>1. /\ Ask("profile_edit", data, q) /\ DOMAIN data = {"completion_flow", "field", "step"}
          /\ data.step = "waiting_input" /\ q.kind \notin Forms
      BY <2>2, NoFormKinds DEF Question
    <3> HIDE DEF next
    <3>2. TextReading(row') = q
      BY <3>1, PutWrites DEF Ask, Written, TextReading, Str
    <3> HIDE DEF data, q
    <3> QED
      BY <3>1, <3>2, AskFits DEF Fits
  <2>3. CASE Ask("profile_edit", [completion_flow |-> FALSE, step |-> "gender"], NoQuestion)
    <3> DEFINE data == [completion_flow |-> FALSE, step |-> "gender"]
    <3>1. /\ Ask("profile_edit", data, NoQuestion) /\ DOMAIN data = {"completion_flow", "step"}
          /\ data.step = "gender"
      BY <2>3
    <3> HIDE DEF data
    <3> QED
      BY <3>1, NoneFits DEF Fits
  <2> QED
    BY <1>3, <2>1, <2>2, <2>3 DEF SaveField
<1>4. ASSUME NEW i, StartRename(i)
      PROVE  Fits(row', asked')
  <2> DEFINE data == [step |-> "rename_subscription", subscription_id |-> i]
             q == Question("rename", "none", i)
  <2>1. /\ Ask("subscription_management", data, q) /\ DOMAIN data = {"step", "subscription_id"}
        /\ data.step = "rename_subscription" /\ q.kind \notin Forms
    BY <1>4, NoFormKinds DEF StartRename, Question
  <2>2. TextReading(row') = q
    BY <2>1, PutWrites DEF Ask, Written, TextReading, Str
  <2> HIDE DEF data, q
  <2> QED
    BY <2>1, <2>2, AskFits DEF Fits
<1>5. CASE StartManualReferrer
  <2> DEFINE data == [step |-> "manual_referrer"]
             q == Question("referrer", "none", None)
  <2>1. /\ Ask("referral_setup", data, q) /\ DOMAIN data = {"step"}
        /\ data.step = "manual_referrer" /\ q.kind \notin Forms
    BY <1>5, NoFormKinds DEF StartManualReferrer, Question
  <2>2. TextReading(row') = q
    BY <2>1, PutWrites DEF Ask, Written, TextReading, Str
  <2> HIDE DEF data, q
  <2> QED
    BY <2>1, <2>2, AskFits DEF Fits
<1>6. CASE SetGender \/ \E h \in Handlers : RenameMessage(h) \/ ManualReferrerMessage(h)
  BY <1>6, MenuFits DEF SetGender, RenameMessage, ManualReferrerMessage, Menu
<1> QED
  BY <1>1, <1>2, <1>3, <1>4, <1>5, <1>6 DEF ProfileScreens, BeginCompletion, RequestField

\* The wallet's screens.
LEMMA WalletFits ==
    ASSUME Fits(row, asked), WalletScreens
    PROVE  Fits(row', asked')
<1>1. CASE RequestCustomAmount
  <2> DEFINE data == [action |-> "wallet_charge", step |-> "waiting_custom_amount"]
             q == Question("custom_amount", "none", None)
  <2>1. /\ Written(row', row.data, "payment_process", data) /\ asked' = q
        /\ q.kind \notin Forms /\ "wallet" \in scene.parts
    BY <1>1, PutWrites, NoFormKinds DEF RequestCustomAmount, Ask, Press, Here, Question
  <2>2. Marks(row')
    BY <2>1 DEF Fits, Marks, Written, Str
  <2>3. TextReading(row') = q /\ PhotoReading(row') = NoQuestion
    BY <2>1 DEF TextReading, PaymentReading, PhotoReading, Written, Str
  <2>4. OwnStep(row', asked')
    BY <2>1 DEF OwnStep
  <2> HIDE DEF data, q
  <2> QED
    BY <2>1, <2>2, <2>3, <2>4, MediaFit DEF Fits, OwnAction
<1>2. CASE ShowCouponInput
  <2> DEFINE data == [action |-> "wallet_coupon", step |-> "waiting_coupon"]
             q == Question("coupon", "none", None)
  <2>1. /\ Ask("payment_process", data, q) /\ DOMAIN data = {"action", "step"}
        /\ data.step = "waiting_coupon" /\ data.action = "wallet_coupon" /\ q.kind \notin Forms
    BY <1>2, NoFormKinds DEF ShowCouponInput, Question
  <2>2. TextReading(row') = q
    BY <2>1, PutWrites DEF Ask, Written, TextReading, PaymentReading, Str
  <2> HIDE DEF data, q
  <2> QED
    BY <2>1, <2>2, AskFits DEF Fits
<1>3. ASSUME NEW i, ShowCardPayment(i)
      PROVE  Fits(row', asked')
  <2> DEFINE data == [action |-> "wallet_charge", amount |-> i, step |-> "waiting_receipt"]
             q == Question("wallet_receipt", "none", i)
  <2>1. /\ Put("payment_process", data) /\ asked' = q /\ q.kind \notin Forms
        /\ DOMAIN data = {"action", "amount", "step"} /\ data.step = "waiting_receipt"
        /\ data.action = "wallet_charge"
    BY <1>3, NoFormKinds DEF ShowCardPayment, Ask, Question
  <2>2. Written(row', row.data, "payment_process", data)
    BY <2>1, PutWrites
  <2>3. TextReading(row') = NoQuestion /\ PhotoReading(row').kind = "wallet_receipt"
    BY <2>2 DEF TextReading, PaymentReading, PhotoReading, Written, Str, Question
  <2>4. OwnStep(row', asked')
    BY <2>2 DEF OwnStep, Written, Str
  <2> HIDE DEF data, q
  <2>5. Marks(row')
    BY <2>1, MarksKept DEF Fits
  <2> QED
    BY <2>1, <2>3, <2>4, <2>5, MediaFit DEF Fits, OwnAction
<1>4. ASSUME NEW i, RequestTxid(i)
      PROVE  Fits(row', asked')
  <2> DEFINE data == [action |-> "wallet_crypto_txid", payment_id |-> i, step |-> "waiting_txid"]
             q == Question("txid", "none", i)
  <2>1. /\ Ask("payment_process", data, q) /\ DOMAIN data = {"action", "payment_id", "step"}
        /\ data.step = "waiting_txid" /\ data.action = "wallet_crypto_txid" /\ q.kind \notin Forms
    BY <1>4, NoFormKinds DEF RequestTxid, Question
  <2>2. TextReading(row') = q
    BY <2>1, PutWrites DEF Ask, Written, TextReading, PaymentReading, Str
  <2> HIDE DEF data, q
  <2> QED
    BY <2>1, <2>2, AskFits DEF Fits
<1>5. ASSUME NEW i, ShowWalletMethods(i), asked' = asked \/ asked' = NoQuestion
      PROVE  Fits(row', asked')
  <2> DEFINE data == [action |-> "wallet_charge", amount |-> i]
             q == Question("custom_amount", "none", None)
  <2>1. /\ Put("payment_process", data) /\ DOMAIN data = {"action", "amount"}
        /\ data.action = "wallet_charge"
    BY <1>5 DEF ShowWalletMethods
  <2>2. Written(row', row.data, "payment_process", data)
    BY <2>1, PutWrites
  <2>3. /\ \/ TextReading(row') = NoQuestion
           \/ TextReading(row') = q /\ Str(row.data, "step") = "waiting_custom_amount"
        /\ \/ PhotoReading(row') = NoQuestion
           \/ PhotoReading(row').kind = "wallet_receipt"
        /\ Str(row'.data, "step") = Str(row.data, "step")
    <3>1. /\ row'.state = "payment_process" /\ Str(row'.data, "action") = "wallet_charge"
          /\ Str(row'.data, "step") = Str(row.data, "step")
      BY <2>2 DEF Written, Str
    <3>2. \/ TextReading(row') = NoQuestion
          \/ TextReading(row') = q /\ Str(row.data, "step") = "waiting_custom_amount"
      BY <3>1 DEF TextReading, PaymentReading
    <3>3. PhotoReading(row') = NoQuestion \/ PhotoReading(row').kind = "wallet_receipt"
      BY <3>1 DEF PhotoReading, Question
    <3> QED
      BY <3>1, <3>2, <3>3
  <2>4. OwnStep(row', asked')
    BY <1>5, <2>3 DEF Fits, OwnStep
  <2>5. OwnAction(row', asked')
    BY <2>2 DEF Written, OwnAction
  <2>6. TextReading(row') = q => asked \in {NoQuestion, q} \/ TextReading(row') = NoQuestion
    BY <2>3 DEF Fits, OwnStep
  <2> HIDE DEF data, q
  <2>7. Marks(row')
    BY <2>1, MarksKept DEF Fits
  <2>8. OwnReading(row', asked')
    <3>1. CASE asked' = NoQuestion
      BY <3>1 DEF OwnReading
    <3>2. CASE asked' # NoQuestion
      BY <1>5, <2>3, <2>6, <3>2, MediaFit
    <3> QED
      BY <3>1, <3>2
  <2> QED
    BY <2>4, <2>5, <2>7, <2>8 DEF Fits
<1>6. ASSUME NEW h \in Handlers, ReceiptPhoto(h) \/ TxidMessage(h) \/ CouponMessage(h)
      PROVE  Fits(row', asked')
  BY <1>6, MenuFits DEF ReceiptPhoto, TxidMessage, CouponMessage, Menu
<1> QED
  BY <1>1, <1>2, <1>3, <1>4, <1>5, <1>6
  DEF WalletScreens, InitiateCharge, CustomAmountMessage

\* Screens that lead a question to a row that is read as another's are not visited.
LEMMA PairsApart ==
    ASSUME Apart(scene.parts)
    PROVE  /\ "wallet" \in scene.parts =>
                  {"panel_users", "panel_admins", "orders", "tickets", "brand", "search"}
                      \cap scene.parts = {}
           /\ "search" \in scene.parts =>
                  {"purchase", "panel_admins"} \cap scene.parts = {}
<1>1. /\ \A part \in {"panel_users", "panel_admins", "orders", "tickets", "brand", "search"} :
             {"wallet", part} \in Interfere
      /\ {"purchase", "search"} \in Interfere /\ {"panel_admins", "search"} \in Interfere
  BY DEF Interfere
<1> QED
  BY <1>1 DEF Apart

\* A screen of the shop that leaves the question.
LEMMA ShopFits ==
    ASSUME Fits(row, asked), Apart(scene.parts), "purchase" \in scene.parts,
           NEW data, Put("purchase_flow", data), asked' = asked,
           DOMAIN data \subseteq {"step", "order_id"}, "step" \in DOMAIN data,
           data.step \in {"plan_selection", "service_selection", "plan_details", "plan_filters",
                          "payment_method"}
    PROVE  Fits(row', asked')
<1>1. Written(row', row.data, "purchase_flow", data)
  BY PutWrites
<1>2. Marks(row')
  BY MarksKept DEF Fits
<1>3. "admin_action" \notin DOMAIN row'.data
  BY <1>2, PairsApart DEF Marks
<1>4. TextReading(row') = NoQuestion /\ PhotoReading(row') = NoQuestion
  BY <1>1, <1>3 DEF TextReading, PhotoReading, Written, Str
<1>5. OwnStep(row', asked') /\ OwnAction(row', asked')
  BY <1>1 DEF Written, OwnStep, OwnAction, Str
<1> QED
  BY <1>2, <1>4, <1>5, MediaFit DEF Fits

\* The shop's screens.
LEMMA PurchaseFits ==
    ASSUME Fits(row, asked), Apart(scene.parts), PurchaseScreens,
           \A h \in Handlers : handling[h].pc = "sent" /\ handling[h].read.kind = "purchase_coupon"
                                   => "purchase" \in scene.parts
    PROVE  Fits(row', asked')
<1>1. ASSUME NEW step \in {"plan_selection", "service_selection", "plan_details", "plan_filters"},
             Browse(step)
      PROVE  Fits(row', asked')
  <2> DEFINE data == [step |-> step]
  <2>1. /\ Put("purchase_flow", data) /\ DOMAIN data = {"step"} /\ data.step = step
        /\ asked' = asked /\ "purchase" \in scene.parts
    BY <1>1 DEF Browse, Press, Here
  <2> HIDE DEF data
  <2> QED
    BY <2>1, ShopFits
<1>2. ASSUME NEW i, ShowPaymentMethods(i)
      PROVE  Fits(row', asked')
  <2> DEFINE data == [step |-> "payment_method", order_id |-> i]
  <2>1. /\ Put("purchase_flow", data) /\ DOMAIN data = {"step", "order_id"}
        /\ data.step = "payment_method" /\ asked' = asked /\ "purchase" \in scene.parts
    BY <1>2 DEF ShowPaymentMethods, Press, Here
  <2> HIDE DEF data
  <2> QED
    BY <2>1, ShopFits
<1>3. CASE PaidAtOnce \/ CancelPurchase
  <2>1. ASSUME Replace("purchase_flow", [step |-> "plan_details"]), asked' = NoQuestion,
               "purchase" \in scene.parts
        PROVE  Fits(row', asked')
    <3>1. Marks(row')
      BY <2>1 DEF Replace, Marks, Str
    <3> QED
      BY <2>1, <3>1, NothingFits
  <2> QED
    BY <1>3, <2>1, MenuFits DEF PaidAtOnce, CancelPurchase, Menu, Press, Here
<1>4. ASSUME NEW i, RequestPurchaseCoupon(i)
      PROVE  Fits(row', asked')
  <2> DEFINE data == [step |-> "waiting_purchase_coupon", action |-> "purchase_coupon",
                      order_id |-> i]
             q == Question("purchase_coupon", "none", i)
  <2>1. /\ Written(row', row.data, "payment_process", data) /\ asked' = q
        /\ q.kind \notin Forms /\ "purchase" \in scene.parts
    BY <1>4, PutWrites, NoFormKinds DEF RequestPurchaseCoupon, Ask, Press, Here, Question
  <2>2. Marks(row') /\ OwnStep(row', asked')
    BY <2>1 DEF Fits, Marks, OwnStep, Written, Str
  <2>3. TextReading(row') = q /\ PhotoReading(row') = NoQuestion
    BY <2>1 DEF TextReading, PaymentReading, PhotoReading, Written, Str
  <2> HIDE DEF data, q
  <2> QED
    BY <2>1, <2>2, <2>3, MediaFit DEF Fits, OwnAction
<1>5. ASSUME NEW i, ShowSelectedCard(i)
      PROVE  Fits(row', asked')
  <2> DEFINE data == [step |-> "card_transfer", order_id |-> i, card_id |-> TRUE,
                      action |-> "none"]
  <2>1. /\ Put("payment_process", data) /\ data.action = "none" /\ data.step = "card_transfer"
        /\ DOMAIN data = {"step", "order_id", "card_id", "action"} /\ asked' = asked
    BY <1>5 DEF ShowSelectedCard
  <2>2. Written(row', row.data, "payment_process", data)
    BY <2>1, PutWrites
  <2>3. TextReading(row') = NoQuestion /\ PhotoReading(row') = NoQuestion
    BY <2>2 DEF TextReading, PaymentReading, PhotoReading, Written, Str
  <2>4. OwnStep(row', asked') /\ OwnAction(row', asked')
    BY <2>2 DEF Written, OwnStep, OwnAction, Str
  <2> HIDE DEF data
  <2>5. Marks(row')
    BY <2>1, MarksKept DEF Fits
  <2> QED
    BY <2>3, <2>4, <2>5, MediaFit DEF Fits
<1>6. ASSUME NEW i, PaymentDone(i)
      PROVE  Fits(row', asked')
  <2> DEFINE card == row.data.card_id
             data == [step |-> "waiting_receipt", order_id |-> i, action |-> "none",
                      card_id |-> card]
             q == Question("order_receipt", "none", i)
  <2>1. /\ Put("payment_process", data) /\ asked' = q /\ q.kind \notin Forms
        /\ data.action = "none" /\ data.step = "waiting_receipt"
        /\ DOMAIN data = {"step", "order_id", "action", "card_id"}
    BY <1>6, NoFormKinds DEF PaymentDone, Ask, Question
  <2> HIDE DEF card
  <2>2. Written(row', row.data, "payment_process", data)
    BY <2>1, PutWrites
  <2>3. TextReading(row') = q /\ PhotoReading(row') = q
    BY <2>2 DEF TextReading, PaymentReading, PhotoReading, Written, Str
  <2>4. OwnStep(row', asked')
    BY <2>2 DEF Written, OwnStep, Str
  <2> HIDE DEF data, q
  <2>5. Marks(row')
    BY <2>1, MarksKept DEF Fits
  <2> QED
    BY <2>1, <2>3, <2>4, <2>5, MediaFit DEF Fits, OwnAction
<1>7. ASSUME NEW i, Ask("purchase_flow", [step |-> "payment_method", order_id |-> i], NoQuestion),
             "purchase" \in scene.parts
      PROVE  Fits(row', asked')
  <2> DEFINE data == [step |-> "payment_method", order_id |-> i]
  <2>1. /\ Ask("purchase_flow", data, NoQuestion) /\ DOMAIN data = {"step", "order_id"}
        /\ data.step = "payment_method"
    BY <1>7
  <2> HIDE DEF data
  <2> QED
    BY <1>7, <2>1, NoneFits DEF Fits
<1>8. ASSUME NEW i, PaymentNotDone(i)
      PROVE  Fits(row', asked')
  BY <1>7, <1>8 DEF PaymentNotDone, Press, Here
<1>9. ASSUME NEW h \in Handlers, PurchaseCouponMessage(h)
      PROVE  Fits(row', asked')
  BY <1>7, <1>9, MenuFits DEF PurchaseCouponMessage, Answers, Menu
<1>10. ASSUME NEW h \in Handlers, CardReceipt(h)
       PROVE  Fits(row', asked')
  <2> DEFINE i == handling[h].read.of
             data == [step |-> "under_review", order_id |-> i]
  <2>1. /\ Ask("payment_process", data, NoQuestion) /\ DOMAIN data = {"step", "order_id"}
        /\ data.step = "under_review"
    BY <1>10 DEF CardReceipt
  <2> HIDE DEF data
  <2> QED
    BY <2>1, NoneFits DEF Fits
<1> QED
  BY <1>1, <1>2, <1>3, <1>4, <1>5, <1>6, <1>8, <1>9, <1>10
  DEF PurchaseScreens, ShowPlans, ShowService, ShowPlanDetails, PlanPicker, PlanFilter

\* The support's screens.
LEMMA SupportFits ==
    ASSUME Fits(row, asked), Whole(row, asked), SupportScreens,
           \A h \in Handlers : Routed(handling[h]),
           \A h \in Handlers : handling[h].pc = "sent" /\ handling[h].read.kind \in Several
                                   => Fits(handling[h].row, handling[h].asked)
    PROVE  Fits(row', asked')
<1>1. CASE CreateTicket
  <2>1. Marks(row') /\ asked' = NoQuestion
    BY <1>1 DEF CreateTicket, Replace, Marks, Str
  <2> QED
    BY <2>1, NothingFits
<1>2. CASE TicketDevice
  <2>1. /\ row.state = "support_ticket" /\ asked' = asked
        /\ Str(row.data, "step") \in {"category", "subject", "description"}
        /\ Written(row', row.data, "support_ticket", [device_type |-> row.data.ticket_id])
    BY <1>2 DEF TicketDevice, Replace, Written, Merged
  <2>2. "ticket_id" \in DOMAIN row.data
    BY <2>1 DEF Whole, TicketWhole
  <2>3. /\ row'.state = "support_ticket" /\ DOMAIN row'.data = DOMAIN row.data \cup {"device_type"}
        /\ \A key \in DOMAIN row.data \ {"device_type"} : row'.data[key] = row.data[key]
    BY <2>1 DEF Written
  <2>4. Marks(row') /\ OwnStep(row', asked') /\ OwnAction(row', asked')
    BY <2>1, <2>3 DEF Fits, Marks, OwnStep, OwnAction, Str
  <2>5. TextReading(row') = TextReading(row) /\ PhotoReading(row') = NoQuestion
    BY <2>1, <2>2, <2>3 DEF TextReading, SupportReading, PhotoReading, Str
  <2>6. TextReading(row).kind # "wallet_receipt"
    BY <2>1 DEF TextReading, SupportReading, Question, NoQuestion
  <2>7. OwnReading(row', asked')
    <3>1. CASE asked = NoQuestion
      BY <2>1, <3>1 DEF OwnReading
    <3>2. CASE asked # NoQuestion
      <4>1. TextReading(row) \in {NoQuestion, Unknown, asked}
        BY <2>6, <3>2 DEF Fits, OwnReading, Media, Reading
      <4> QED
        BY <2>1, <2>5, <4>1, MediaFit
    <3> QED
      BY <3>1, <3>2
  <2> QED
    BY <2>4, <2>7 DEF Fits
<1>3. CASE TicketCategory
  <2> DEFINE n == row.data.ticket_id
             data == [step |-> "subject", category_id |-> n]
             q == Question("ticket", "subject", n)
  <2>1. /\ Ask("support_ticket", data, q) /\ DOMAIN data = {"step", "category_id"}
        /\ data.step = "subject" /\ q.kind \notin Forms
    BY <1>3, NoFormKinds DEF TicketCategory, Question
  <2>2. "ticket_id" \in DOMAIN row.data
    BY <1>3 DEF TicketCategory, Whole, TicketWhole
  <2>3. /\ row'.state = "support_ticket" /\ Str(row'.data, "step") = "subject"
        /\ row'.data.ticket_id = n
    BY <2>1, <2>2, PutWrites DEF Ask, Written, Str
  <2>4. TextReading(row') = q
    BY <2>3 DEF TextReading, SupportReading
  <2> HIDE DEF n, data, q
  <2> QED
    BY <2>1, <2>4, AskFits DEF Fits
<1>4. ASSUME NEW h \in Handlers, TicketSubject(h)
      PROVE  Fits(row', asked')
  <2> DEFINE j == handling[h]
             old == j.row.data
             data == Merged(old, [step |-> "description", subject |-> j.asked.of])
             q == Question("ticket", "description", data.ticket_id)
  <2>1. /\ Str(old, "step") = "subject" /\ j.row.state = "support_ticket" /\ TicketWhole(j.row)
        /\ Fits(j.row, j.asked)
    BY <1>4, TicketRouted DEF TicketSubject, Answers, Several
  <2>2. "ticket_id" \in DOMAIN old
    BY <2>1 DEF TicketWhole
  <2>3. Marks(j.row)
    BY <2>1 DEF Fits
  <2>4. /\ Put("support_ticket", data) /\ asked' = q /\ q.kind \notin Forms
    BY <1>4, NoFormKinds DEF TicketSubject, Ask, Question
  <2>5. /\ DOMAIN data = DOMAIN old \cup {"step", "subject"} /\ data.step = "description"
        /\ \A key \in DOMAIN old \ {"step", "subject"} : data[key] = old[key]
    BY DEF Merged
  <2> HIDE DEF data
  <2>6. Written(row', row.data, "support_ticket", data)
    BY <2>4, PutWrites
  <2>7. /\ row'.state = "support_ticket" /\ Str(row'.data, "step") = "description"
        /\ row'.data.ticket_id = data.ticket_id
    BY <2>2, <2>5, <2>6 DEF Written, Str
  <2>8. TextReading(row') = q /\ PhotoReading(row') = NoQuestion
    BY <2>7 DEF TextReading, SupportReading, PhotoReading
  <2> HIDE DEF old, q
  <2>9. Marks(row')
    <3>1. /\ "none" \notin DOMAIN data
          /\ "admin_action" \in DOMAIN data => "search" \in scene.parts
          /\ "action" \in DOMAIN data /\ data.action = "edit_panel_admin"
                 => "panel_admins" \in scene.parts
      BY <2>3, <2>5 DEF Marks, Str, old
    <3> QED
      BY <2>6, <2>7, <3>1 DEF Fits, Marks, Written, Str
  <2> QED
    BY <2>4, <2>7, <2>8, <2>9, MediaFit DEF Fits, OwnStep, OwnAction
<1>5. ASSUME NEW i, StartTicketReply(i)
      PROVE  Fits(row', asked')
  <2> DEFINE data == [step |-> "reply", ticket_id |-> i]
             q == Question("reply", "none", i)
  <2>1. /\ Ask("support_ticket", data, q) /\ DOMAIN data = {"step", "ticket_id"}
        /\ data.step = "reply" /\ q.kind \notin Forms
    BY <1>5, NoFormKinds DEF StartTicketReply, Question
  <2>2. TextReading(row') = q
    BY <2>1, PutWrites DEF Ask, Written, TextReading, SupportReading, Str
  <2> HIDE DEF data, q
  <2> QED
    BY <2>1, <2>2, AskFits DEF Fits
<1>6. CASE StartFaqSearch
  <2> DEFINE data == [step |-> "search_faq"]
             q == Question("faq", "none", None)
  <2>1. /\ Ask("support_ticket", data, q) /\ DOMAIN data = {"step"}
        /\ data.step = "search_faq" /\ q.kind \notin Forms
    BY <1>6, NoFormKinds DEF StartFaqSearch, Question
  <2>2. TextReading(row') = q
    BY <2>1, PutWrites DEF Ask, Written, TextReading, SupportReading, Str
  <2> HIDE DEF data, q
  <2> QED
    BY <2>1, <2>2, AskFits DEF Fits
<1>7. CASE \/ ShowMyTickets
           \/ \E h \in Handlers : TicketDescription(h) \/ TicketReply(h) \/ FaqSearch(h)
  BY <1>7, MenuFits DEF ShowMyTickets, TicketDescription, TicketReply, FaqSearch, Menu
<1> QED
  BY <1>1, <1>2, <1>3, <1>4, <1>5, <1>6, <1>7 DEF SupportScreens

\* The control panel's prompts.
LEMMA ControlFits ==
    ASSUME Fits(row, asked), ControlPanel,
           \A h \in Handlers : Routed(handling[h]),
           \A h \in Handlers : handling[h].pc = "sent" /\ handling[h].read.kind \in Several
                                   => Fits(handling[h].row, handling[h].asked)
    PROVE  Fits(row', asked')
<1>1. ASSUME NEW action, NEW object, ControlPrompt(action, object)
      PROVE  Fits(row', asked')
  <2> DEFINE q == Question("control", action, object)
  <2>1. /\ row' = [state |-> "admin_action",
                   data |-> [action |-> "control", control_action |-> action,
                             object_id |-> object]]
        /\ asked' = q /\ q.kind \notin Forms
    BY <1>1, NoFormKinds DEF ControlPrompt, Replace, Question
  <2>2. TextReading(row') = q /\ PhotoReading(row') = NoQuestion
    BY <2>1 DEF TextReading, AdminReading, PhotoReading, Str
  <2> HIDE DEF q
  <2> QED
    BY <2>1, <2>2, MediaFit DEF Fits, Marks, OwnStep, OwnAction, Str
<1>2. ASSUME NEW action, NEW object, Prompt(action, object) \/ NumberedPrompt(action)
      PROVE  Fits(row', asked')
  <2> DEFINE n == forms + 1
  <2>1. ControlPrompt(action, object) \/ ControlPrompt(action, n)
    BY <1>2 DEF Prompt, NumberedPrompt
  <2> HIDE DEF n
  <2> QED
    BY <1>1, <2>1
<1>3. ASSUME NEW h \in Handlers, NEW action, NEW next, NameMessage(h, action, next)
      PROVE  Fits(row', asked')
  <2> DEFINE j == handling[h]
             old == j.row.data
             data == Merged(old, [control_action |-> next, name |-> j.asked.of])
             q == Question("control", next, data.object_id)
  <2>1. /\ j.row.state = "admin_action" /\ Str(old, "action") = "control"
        /\ {"action", "control_action", "object_id"} \subseteq DOMAIN old
        /\ Fits(j.row, j.asked)
    BY <1>3, ControlRouted DEF NameMessage, AsStaff, Answers, Several
  <2>2. j.asked.kind = "control"
    BY <1>3 DEF NameMessage, AsStaff, Answers, Routed, Several
  <2>3. /\ row' = [state |-> "admin_action", data |-> data]
        /\ asked' = q /\ q.kind \notin Forms
    BY <1>3, <2>1, NoFormKinds DEF NameMessage, Replace, Question
  <2>4. /\ DOMAIN data = DOMAIN old \cup {"control_action", "name"}
        /\ data.control_action = next
        /\ \A key \in DOMAIN old \ {"control_action", "name"} : data[key] = old[key]
    BY DEF Merged
  <2> HIDE DEF data
  <2>5. Str(data, "action") = "control"
    BY <2>1, <2>4 DEF Str
  <2>6. TextReading(row') = q /\ PhotoReading(row') = NoQuestion
    BY <2>3, <2>4, <2>5 DEF TextReading, AdminReading, PhotoReading
  <2>7. Str(data, "step") = Str(old, "step")
    BY <2>4 DEF Str
  <2>8. Marks(row')
    BY <2>1, <2>3, <2>4, <2>5, <2>7 DEF Fits, Marks
  <2>9. OwnStep(row', asked')
    <3>1. Str(old, "step") # "waiting_custom_amount"
      BY <2>1, <2>2 DEF Fits, OwnStep, NoQuestion, Question
    <3> QED
      BY <2>3, <2>7, <3>1 DEF OwnStep
  <2> HIDE DEF q
  <2> QED
    BY <2>3, <2>6, <2>8, <2>9, MediaFit DEF Fits, OwnAction
<1>4. CASE \/ ControlScreen
           \/ \E h \in Handlers : \/ LinkOwnerMessage(h) \/ RuleTextMessage(h) \/ ObjectMessage(h)
                                  \/ CreditMessage(h)
  BY <1>4, MenuFits DEF ControlScreen, LinkOwnerMessage, RuleTextMessage, SecondMessage,
                        ObjectMessage, CreditMessage, Menu
<1> QED
  BY <1>2, <1>3, <1>4
  DEF ControlPanel, LinkNew, RuleNew, UserCredit, TierNew, UserSearch, LinkEdit, PlanEdit,
      ChallengeEdit, TierEdit, RuleEdit, LinkNameMessage, RuleNameMessage

\* A prompt of the staff for one answer.
LEMMA EditFits ==
    ASSUME Fits(row, asked), Apart(scene.parts), NEW part, NEW action \in DOMAIN Target,
           NEW data, NEW object, EditPrompt(part, action, data, object),
           DOMAIN data \subseteq {"step", "user_uuid", "order_number", "ticket_id", "card_id",
                                  "wallet_id"},
           IF Target[action] = "none" THEN object = None
           ELSE Target[action] \in DOMAIN data /\ data[Target[action]] = object,
           IF action \in {"edit_panel_user", "edit_card", "edit_crypto"}
           THEN "step" \in DOMAIN data /\ data.step = "input"
           ELSE "step" \notin DOMAIN data
                /\ part \in {"panel_users", "panel_admins", "orders", "tickets", "brand", "search"}
    PROVE  Fits(row', asked')
<1> DEFINE new == Merged(data, [action |-> action])
           q == Question(action, "none", object)
<1>1. /\ Written(row', row.data, "admin_action", new) /\ Put("admin_action", new)
      /\ asked' = q /\ part \in scene.parts
  BY PutWrites DEF EditPrompt, Ask, PressStaff, Here
<1>2. /\ DOMAIN new = DOMAIN data \cup {"action"} /\ new.action = action
      /\ \A key \in DOMAIN data \ {"action"} : new[key] = data[key]
  BY DEF Merged
<1> HIDE DEF new
<1>3. /\ "action" \in DOMAIN row'.data /\ row'.data.action = action
      /\ action \notin Forms \cup {"control", "none", "edit_panel_admin"}
  BY <1>1, <1>2 DEF Written, Forms, TypedSteps, Target
<1>4. Marks(row')
  <2>1. "step" \in DOMAIN new => new.step = "input"
    BY <1>2
  <2> QED
    BY <1>1, <1>2, <1>3, <2>1, MarksKept DEF Fits
<1>5. Str(row'.data, "step") # "waiting_custom_amount"
  <2>1. CASE "step" \in DOMAIN data
    BY <1>1, <1>2, <2>1 DEF Written, Str
  <2>2. CASE "step" \notin DOMAIN data
    <3>1. "wallet" \notin scene.parts
      BY <1>1, <2>2, PairsApart
    <3> QED
      BY <1>4, <3>1 DEF Marks
  <2> QED
    BY <2>1, <2>2
<1>6. Get(row'.data, Target[action]) = object
  <2>1. CASE Target[action] = "none"
    BY <1>4, <2>1 DEF Marks, Get
  <2>2. CASE Target[action] # "none"
    <3>1. Target[action] # "action"
      BY DEF Target
    <3> QED
      BY <1>1, <1>2, <2>2, <3>1 DEF Written, Get
  <2> QED
    BY <2>1, <2>2
<1>7. action \in {"edit_panel_user", "edit_card", "edit_crypto"} => Str(row'.data, "step") = "input"
  BY <1>1, <1>2 DEF Written, Str
<1>8. AdminReading(row'.data) = q
  <2>1. Str(row'.data, "action") = action
    BY <1>3 DEF Str
  <2> QED
    BY <1>3, <1>6, <1>7, <2>1 DEF AdminReading, Forms
<1>9. TextReading(row') = q /\ PhotoReading(row') = NoQuestion
  BY <1>1, <1>8 DEF TextReading, PhotoReading, Written
<1>10. q.kind = action
  BY DEF Question
<1> HIDE DEF q
<1> QED
  BY <1>1, <1>3, <1>4, <1>5, <1>9, <1>10, MediaFit DEF Fits, OwnStep, OwnAction

\* The staff's edits and searches.
LEMMA EditsFits ==
    ASSUME Fits(row, asked), Apart(scene.parts), ~scene.hasty, StaffEdits
    PROVE  Fits(row', asked')
<1>1. ASSUME NEW part \in {"panel_users", "panel_admins", "brand", "search"},
             NEW action \in {"search_panel_user", "search_panel_admin", "edit_brand_name",
                             "edit_brand_description", "search_payment"},
             EditPrompt(part, action, <<>>, None)
      PROVE  Fits(row', asked')
  <2> DEFINE data == <<>>
  <2>1. EditPrompt(part, action, data, None) /\ DOMAIN data = {}
    BY <1>1
  <2>2. action \in DOMAIN Target /\ Target[action] = "none"
    BY DEF Target
  <2> HIDE DEF data
  <2> QED
    BY <2>1, <2>2, EditFits
<1>2. CASE \/ StartSearchPanelUser \/ StartSearchPanelAdmin \/ EditBrandName
           \/ EditBrandDescription \/ SearchPayment
  BY <1>1, <1>2 DEF StartSearchPanelUser, StartSearchPanelAdmin, EditBrandName,
                    EditBrandDescription, SearchPayment
<1>3. ASSUME NEW i, StartEditUserField(i)
      PROVE  Fits(row', asked')
  <2> DEFINE data == [user_uuid |-> i, step |-> "input"]
  <2>1. /\ EditPrompt("panel_users", "edit_panel_user", data, i)
        /\ DOMAIN data = {"user_uuid", "step"} /\ data.step = "input" /\ data["user_uuid"] = i
    BY <1>3 DEF StartEditUserField
  <2>2. "edit_panel_user" \in DOMAIN Target /\ Target["edit_panel_user"] = "user_uuid"
    BY DEF Target
  <2> HIDE DEF data
  <2> QED
    BY <2>1, <2>2, EditFits
<1>4. ASSUME NEW i, StartOrderAdminNote(i)
      PROVE  Fits(row', asked')
  <2> DEFINE data == [order_number |-> i]
  <2>1. /\ EditPrompt("orders", "order_admin_note", data, i)
        /\ DOMAIN data = {"order_number"} /\ data["order_number"] = i
    BY <1>4 DEF StartOrderAdminNote
  <2>2. "order_admin_note" \in DOMAIN Target /\ Target["order_admin_note"] = "order_number"
    BY DEF Target
  <2> HIDE DEF data
  <2> QED
    BY <2>1, <2>2, EditFits
<1>5. ASSUME NEW i, StartStaffReply(i)
      PROVE  Fits(row', asked')
  <2> DEFINE data == [ticket_id |-> i]
  <2>1. /\ EditPrompt("tickets", "ticket_reply", data, i)
        /\ DOMAIN data = {"ticket_id"} /\ data["ticket_id"] = i
    BY <1>5 DEF StartStaffReply
  <2>2. "ticket_reply" \in DOMAIN Target /\ Target["ticket_reply"] = "ticket_id"
    BY DEF Target
  <2> HIDE DEF data
  <2> QED
    BY <2>1, <2>2, EditFits
<1>6. ASSUME NEW i, StartEditCardField(i)
      PROVE  Fits(row', asked')
  <2> DEFINE data == [card_id |-> i, step |-> "input"]
  <2>1. /\ EditPrompt("cards", "edit_card", data, i)
        /\ DOMAIN data = {"card_id", "step"} /\ data.step = "input" /\ data["card_id"] = i
    BY <1>6 DEF StartEditCardField
  <2>2. "edit_card" \in DOMAIN Target /\ Target["edit_card"] = "card_id"
    BY DEF Target
  <2> HIDE DEF data
  <2> QED
    BY <2>1, <2>2, EditFits
<1>7. ASSUME NEW i, StartEditCryptoField(i)
      PROVE  Fits(row', asked')
  <2> DEFINE data == [wallet_id |-> i, step |-> "input"]
  <2>1. /\ EditPrompt("crypto", "edit_crypto", data, i)
        /\ DOMAIN data = {"wallet_id", "step"} /\ data.step = "input" /\ data["wallet_id"] = i
    BY <1>7 DEF StartEditCryptoField
  <2>2. "edit_crypto" \in DOMAIN Target /\ Target["edit_crypto"] = "wallet_id"
    BY DEF Target
  <2> HIDE DEF data
  <2> QED
    BY <2>1, <2>2, EditFits
<1>8. CASE RequestSearchUsername
  <2> DEFINE data == [admin_action |-> "search_user"]
             q == Question("search_user", "none", None)
  <2>1. /\ Written(row', row.data, "main_menu", data) /\ asked' = q
        /\ Str(row.data, "action") = "none" /\ "search" \in scene.parts /\ q.kind \notin Forms
    BY <1>8, PutWrites, NoFormKinds DEF RequestSearchUsername, Ask, PressStaff, Here, Question
  <2>2. Str(row'.data, "action") = "none" /\ Str(row'.data, "admin_action") = "search_user"
    BY <2>1 DEF Written, Str
  <2>3. Marks(row')
    BY <2>1, <2>2 DEF Fits, Marks, Written, Str
  <2>4. TextReading(row') = AdminReading(row'.data) /\ PhotoReading(row') = NoQuestion
    BY <2>1, <2>2 DEF TextReading, PhotoReading, Written
  <2>5. AdminReading(row'.data) = q
    BY <2>2 DEF AdminReading, TypedSteps, Target
  <2>6. Str(row'.data, "step") # "waiting_custom_amount"
    BY <2>1, <2>3, PairsApart DEF Marks
  <2>7. row'.state = "main_menu"
    BY <2>1 DEF Written
  <2> HIDE DEF q, data
  <2> QED
    BY <2>1, <2>3, <2>4, <2>5, <2>6, <2>7, MediaFit DEF Fits, OwnStep, OwnAction
<1>9. ASSUME NEW h \in Handlers, NEW action, SingleAnswer(h, action)
      PROVE  Fits(row', asked')
  BY <1>9, MenuFits DEF SingleAnswer, Menu
<1> QED
  BY <1>2, <1>3, <1>4, <1>5, <1>6, <1>7, <1>8, <1>9
  DEF StaffEdits, ApplyUserFieldEdit, OrderAdminNote, StaffTicketReply, PanelAdminSearch,
      EditCardField, EditCryptoField, EditBrandField, PaymentSearch, UsernameSearch

\* The steps of the forms are no steps of the wallet or the shop.
LEMMA FormSteps ==
    ASSUME NEW form \in Forms, NEW step \in DOMAIN Before[form]
    PROVE  step \notin {"waiting_purchase_coupon", "waiting_custom_amount", "waiting_receipt",
                        "waiting_coupon", "waiting_txid", "none"}
BY DEF Forms, Before, TypedSteps

\* A saved answer fits the next question.
LEMMA AnswerFits ==
    ASSUME Apart(scene.parts),
           NEW r, NEW q, Whole(r, q), Fits(r, q),
           NEW form, NEW step, NEW next, Follows(form, step, next), q.kind = form, q.part = step,
           NEW n, "form" \in DOMAIN r.data => n = r.data.form,
           NEW s, NEW d, d = r.data, NEW e, s = [state |-> r.state, data |-> e],
           e = With(d, form, step, n, next),
           NEW a, a = Question(form, next, n)
    PROVE  Fits(s, a)
<1>1. /\ form \in Forms /\ next \in DOMAIN Before[form]
      /\ r.state \in {"admin_action", "purchase_flow", "payment_process"}
  BY DEF Follows, Whole, FormWhole
<1>2. Saved(e, d, form, step, n, next)
  BY <1>1, WithSaves
<1>3. /\ Str(e, "action") = Str(d, "action") /\ Str(e, "step") = next
      /\ "admin_action" \in DOMAIN e <=> "admin_action" \in DOMAIN d
      /\ "none" \in DOMAIN e <=> "none" \in DOMAIN d
      /\ "form" \in DOMAIN d => "form" \in DOMAIN e /\ e.form = d.form
  BY <1>1, <1>2, DraftKeyApart DEF Saved, Str
<1>4. next \notin {"waiting_purchase_coupon", "waiting_custom_amount", "waiting_receipt",
                   "waiting_coupon", "waiting_txid", "none"}
  BY <1>1, FormSteps
<1>5. a.kind = form
  BY DEF Question
<1>6. Marks(s)
  BY <1>3, <1>4 DEF Fits, Marks
<1>7. OwnStep(s, a) /\ OwnAction(s, a)
  BY <1>3, <1>4, <1>5 DEF Fits, OwnStep, OwnAction
<1>8. PhotoReading(s) = NoQuestion
  BY <1>3, <1>4, PhotoNothing
<1>9. TextReading(s) \in {NoQuestion, Unknown, a}
  <2>1. CASE r.state = "payment_process"
    BY <1>3, <1>4, <2>1 DEF TextReading, PaymentReading
  <2>2. CASE r.state = "purchase_flow"
    <3>1. "admin_action" \notin DOMAIN d
      BY <2>2, PairsApart DEF Fits, Marks
    <3> QED
      BY <1>3, <2>2, <3>1 DEF TextReading, Str
  <2>3. CASE r.state = "admin_action"
    <3>1. TextReading(s) = AdminReading(e)
      BY <2>3 DEF TextReading
    <3>2. Str(e, "action") \in {form, "edit_panel_admin"}
      BY <1>1, <1>3, <2>3 DEF Fits, OwnAction
    <3>3. CASE Str(e, "action") = form
      <4>1. form # "control"
        BY <1>1 DEF Forms, TypedSteps
      <4>2. "form" \in DOMAIN d
        BY <1>1, <1>3, <3>3 DEF Whole, FormWhole, Filled
      <4>3. e.form = n
        BY <1>3, <4>2
      <4>4. AdminReading(e) \in {NoQuestion, a}
        BY <1>1, <1>3, <3>3, <4>1, <4>3 DEF AdminReading, Forms
      <4> QED
        BY <3>1, <4>4
    <3>4. CASE Str(e, "action") = "edit_panel_admin"
      <4>1. "admin_action" \notin DOMAIN e
        BY <1>3, <3>4, PairsApart DEF Fits, Marks
      <4>2. AdminReading(e) = Unknown
        BY <3>4, <4>1 DEF AdminReading, Str, TypedSteps, Target
      <4> QED
        BY <3>1, <4>2
    <3> QED
      BY <3>2, <3>3, <3>4
  <2> QED
    BY <1>1, <2>1, <2>2, <2>3
<1>10. OwnReading(s, a)
  BY <1>8, <1>9, MediaFit
<1> QED
  BY <1>6, <1>7, <1>10 DEF Fits

\* A typed answer of a form.
LEMMA TypedFits ==
    ASSUME Apart(scene.parts), NEW h \in Handlers, Routed(handling[h]), JobFits(handling[h]),
           NEW form, NEW step, NEW next, Follows(form, step, next), TypedStep(h, form, step, next)
    PROVE  Fits(row', asked')
<1> DEFINE j == handling[h]
           r == j.row
           q == j.asked
           n == q.of
           d == r.data
           e == With(d, form, step, n, next)
<1>1. /\ j.pc = "sent" /\ j.read.kind = form /\ j.read.part = step /\ form \in Forms
      /\ row' = [state |-> r.state, data |-> e]
      /\ asked' = Question(form, next, d.form)
  BY DEF TypedStep, AsStaff, Answers, Replace, Follows
<1>2. Whole(r, q) /\ q.kind = form /\ q.part = step /\ d.form = n
  BY <1>1, FormRouted
<1>3. Fits(r, q)
  BY <1>1 DEF JobFits, Several, Forms
<1>4. asked' = Question(form, next, n)
  BY <1>1, <1>2
<1> HIDE DEF j, r, q, n
<1>5. d = r.data
  OBVIOUS
<1>6. /\ row' = [state |-> r.state, data |-> e] /\ e = With(d, form, step, n, next)
      /\ r.data.form = n
  BY <1>1, <1>2
<1> HIDE DEF d, e
<1> QED
  BY <1>2, <1>3, <1>4, <1>5, <1>6, AnswerFits

\* A button that answers a form.
LEMMA ButtonFits ==
    ASSUME Apart(scene.parts), Whole(row, asked), Fits(row, asked), ~scene.hasty,
           NEW part, NEW form, NEW step, NEW next, Follows(form, step, next),
           ButtonStep(part, form, step, next)
    PROVE  Fits(row', asked')
<1> DEFINE n == Get(row.data, "form")
           d == row.data
           e == With(d, form, step, n, next)
<1>1. /\ asked.kind = form /\ asked.part = step
      /\ row' = [state |-> row.state, data |-> e]
      /\ asked' = Question(form, next, n)
  BY DEF ButtonStep, Replace
<1>2. "form" \in DOMAIN row.data => n = row.data.form
  BY DEF Get
<1>3. d = row.data /\ e = With(d, form, step, n, next)
  OBVIOUS
<1> HIDE DEF n, d, e
<1> QED
  BY <1>1, <1>2, <1>3, AnswerFits

\* The first question of a form.
LEMMA StartFits ==
    ASSUME Fits(row, asked), NEW part, NEW form \in Forms, NEW step \in DOMAIN Before[form],
           StartForm(part, form, step)
    PROVE  Fits(row', asked')
<1> DEFINE n == forms + 1
           data == [action |-> form, step |-> step, form |-> n]
           q == Question(form, step, n)
<1>1. /\ Put("admin_action", data) /\ Written(row', row.data, "admin_action", data)
      /\ asked' = q /\ q.kind = form
  BY PutWrites DEF StartForm, Ask, Question
<1> HIDE DEF n
<1>2. /\ DOMAIN data = {"action", "step", "form"} /\ data.action = form /\ data.step = step
      /\ form \notin {"edit_panel_admin", "control", "none"}
      /\ step \notin {"waiting_purchase_coupon", "waiting_custom_amount", "waiting_receipt",
                      "waiting_coupon", "waiting_txid", "none"}
  BY FormSteps DEF Forms, TypedSteps
<1>3. /\ Str(row'.data, "action") = form /\ Str(row'.data, "step") = step
      /\ row'.state = "admin_action" /\ row'.data.form = n
  BY <1>1 DEF Written, Str
<1>4. TextReading(row') \in {NoQuestion, q}
  BY <1>2, <1>3 DEF TextReading, AdminReading, Forms
<1>5. PhotoReading(row') = NoQuestion
  BY <1>3, PhotoNothing
<1> HIDE DEF data, q
<1>6. Marks(row')
  BY <1>1, <1>2, MarksKept DEF Fits
<1>7. OwnStep(row', asked') /\ OwnAction(row', asked')
  BY <1>1, <1>2, <1>3 DEF OwnStep, OwnAction
<1> QED
  BY <1>1, <1>4, <1>5, <1>6, <1>7, MediaFit DEF Fits

\* The buttons of an admin's rights.
LEMMA EditAdminFits ==
    ASSUME Fits(row, asked), Apart(scene.parts), StartEditPanelAdmin
    PROVE  Fits(row', asked')
<1> DEFINE data == [action |-> "edit_panel_admin", step |-> "mode"]
           q == Question("add_panel_admin", "mode", None)
<1>1. /\ Written(row', row.data, "admin_action", data) /\ asked' = q
      /\ "panel_admins" \in scene.parts
  BY PutWrites DEF StartEditPanelAdmin, Ask, PressStaff, Here
<1>2. /\ Str(row'.data, "action") = "edit_panel_admin" /\ Str(row'.data, "step") = "mode"
      /\ row'.state = "admin_action"
  BY <1>1 DEF Written, Str
<1>3. Marks(row')
  BY <1>1, <1>2 DEF Fits, Marks, Written
<1>4. "admin_action" \notin DOMAIN row'.data
  BY <1>1, <1>3, PairsApart DEF Marks
<1>5. TextReading(row') = Unknown /\ PhotoReading(row') = NoQuestion
  BY <1>2, <1>4 DEF TextReading, AdminReading, PhotoReading, Str, TypedSteps, Target
<1>6. OwnStep(row', asked') /\ OwnAction(row', asked')
  BY <1>2 DEF OwnStep, OwnAction
<1> HIDE DEF data, q
<1> QED
  BY <1>3, <1>5, <1>6, MediaFit DEF Fits

\* The staff's forms.
LEMMA FormsFit ==
    ASSUME Fits(row, asked), Whole(row, asked), Apart(scene.parts), ~scene.hasty, StaffForms,
           \A h \in Handlers : Routed(handling[h]) /\ JobFits(handling[h])
    PROVE  Fits(row', asked')
<1>1. CASE \/ StartAddPanelUser \/ StartAddPanelAdmin \/ AddPaymentCard \/ AddCryptoCurrency
           \/ AddPaymentGateway \/ StartBroadcast
  BY <1>1, StepsEnd, StartFits DEF StartAddPanelUser, StartAddPanelAdmin, AddPaymentCard,
                                   AddCryptoCurrency, AddPaymentGateway, StartBroadcast
<1>2. CASE PanelAdminMode \/ CryptoNetwork \/ GatewayType
  BY <1>2, StepsFollow, ButtonFits DEF PanelAdminMode, CryptoNetwork, GatewayType
<1>3. ASSUME NEW h \in Handlers, NEW form, NEW step, NEW fields, LastStep(h, form, step, fields)
      PROVE  Fits(row', asked')
  BY <1>3, MenuFits DEF LastStep, Menu
<1>4. ASSUME NEW h \in Handlers, NEW form, NEW step, NEW next, Follows(form, step, next),
             TypedStep(h, form, step, next)
      PROVE  Fits(row', asked')
  BY <1>4, TypedFits
<1>5. ASSUME NEW h \in Handlers,
             \/ AddPanelUserStep(h) \/ AddPanelAdminStep(h) \/ CardStep(h) \/ CryptoStep(h)
             \/ GatewayStep(h) \/ BroadcastInput(h)
      PROVE  Fits(row', asked')
  BY <1>3, <1>4, <1>5, StepsFollow DEF AddPanelUserStep, AddPanelAdminStep, CardStep, CryptoStep,
                                       GatewayStep, BroadcastInput
<1>6. CASE StartEditPanelAdmin
  BY <1>6, EditAdminFits
<1>7. CASE PanelAdminCanAdd \/ CancelBroadcast \/ \E h \in Handlers : BroadcastEnds(h)
  BY <1>7, MenuFits DEF PanelAdminCanAdd, CancelBroadcast, BroadcastEnds, Menu
<1>8. CASE \E h \in Handlers : BroadcastConfirm(h) \/ BroadcastSend(h)
  BY <1>8, SameFits DEF BroadcastConfirm, BroadcastSend, ExecuteBroadcast
<1> QED
  BY <1>1, <1>2, <1>5, <1>6, <1>7, <1>8 DEF StaffForms

\* A message is read in the row as it is.
LEMMA SendFits ==
    ASSUME DOMAIN handling = Handlers, \A h \in Handlers : JobFits(handling[h]),
           Fits(row, asked), NEW k \in Handlers, NEW medium \in Media, Send(k, medium)
    PROVE  \A h \in Handlers : JobFits(handling'[h])
<1>1. PICK act : /\ handling' = [handling EXCEPT ![k] = act]
                 /\ act.read = Reading(medium, row)
                 /\ act.read.kind \in Several => act.row = row /\ act.asked = asked
  BY Sends
<1>2. Reading(medium, row).kind = "purchase_coupon" =>
          Str(row.data, "step") = "waiting_purchase_coupon"
  <2>1. TextReading(row).kind = "purchase_coupon" =>
            Str(row.data, "step") = "waiting_purchase_coupon"
    BY DEF TextReading, SupportReading, PaymentReading, AdminReading, Question, NoQuestion,
           Unknown, TypedSteps, Target
  <2>2. PhotoReading(row).kind # "purchase_coupon"
    BY DEF PhotoReading, Question, NoQuestion
  <2>3. ContactReading(row) \in {TextReading(row), NoQuestion}
    BY DEF ContactReading
  <2> QED
    BY <2>1, <2>2, <2>3 DEF Reading, NoQuestion, Question
<1>3. JobFits(act)
  BY <1>1, <1>2 DEF JobFits, Fits, Marks
<1>4. handling'[k] = act /\ \A h \in Handlers \ {k} : handling'[h] = handling[h]
  BY <1>1
<1> QED
  BY <1>3, <1>4

\* A message that was routed keeps its row.
LEMMA QuietFits ==
    ASSUME DOMAIN handling = Handlers, \A h \in Handlers : JobFits(handling[h]), Quiet
    PROVE  \A h \in Handlers : JobFits(handling'[h])
<1>1. CASE handling' = handling
  BY <1>1
<1>2. ASSUME NEW h \in Handlers, NEW end \in {NoJob, [pc |-> "sending"]},
             handling' = [handling EXCEPT ![h] = end]
      PROVE  \A g \in Handlers : JobFits(handling'[g])
  <2>1. handling'[h] = end /\ \A g \in Handlers \ {h} : handling'[g] = handling[g]
    BY <1>2
  <2>2. JobFits(end)
    BY DEF JobFits, NoJob
  <2> QED
    BY <2>1, <2>2
<1> QED
  BY <1>1, <1>2 DEF Quiet

\* Fitting is a matter of the parts visited, which do not change.
LEMMA FitsSteady ==
    ASSUME scene' = scene, Fits(row', asked'), \A h \in Handlers : JobFits(handling'[h])
    PROVE  Fits(row, asked)' /\ \A h \in Handlers : JobFits(handling[h])'
BY DEF Fits, Marks, OwnStep, OwnAction, OwnReading, JobFits

\* The invariant of the answers.
LEMMA AnswersInvariant == BotSpec => []AnswersInv
<1>1. BotInit => AnswersInv
  <2> SUFFICES ASSUME BotInit PROVE AnswersInv
    OBVIOUS
  <2>1. row = [state |-> "new", data |-> <<>>] \/ row = [state |-> "main_menu", data |-> <<>>]
    BY DEF BotInit
  <2>2. asked = NoQuestion /\ \A h \in Handlers : handling[h].pc = "idle"
    BY DEF BotInit, NoJob
  <2>3. Marks(row)
    BY <2>1 DEF Marks, Str
  <2> QED
    BY <2>2, <2>3, NothingFits DEF AnswersInv, JobFits
<1>2. ASSUME ScreensInv, AnswersInv, BotNext
      PROVE  AnswersInv'
  <2>1. scene' = scene
    BY <1>2, StepsQuiet DEF Quiet, Send
  <2> SUFFICES ASSUME Apart(scene.parts), ~scene.hasty
               PROVE  Fits(row, asked)' /\ \A h \in Handlers : JobFits(handling[h])'
    BY <2>1 DEF AnswersInv, Apart
  <2>2. /\ Fits(row, asked) /\ Whole(row, asked) /\ DOMAIN handling = Handlers
        /\ \A h \in Handlers : Routed(handling[h]) /\ JobFits(handling[h])
    BY <1>2 DEF ScreensInv, AnswersInv
  <2>3. \A h \in Handlers : JobFits(handling'[h])
    BY <1>2, <2>2, StepsQuiet, QuietFits, SendFits
  <2>4. CASE RevokeStaff \/ MainMenu \/ Messages
    <3>1. Menu \/ UNCHANGED <<row, asked>>
      BY <2>4 DEF RevokeStaff, MainMenu, Messages, Send, Refuse, Demoted, Cancelled
    <3>2. Fits(row', asked')
      BY <2>2, <3>1, MenuFits, SameFits DEF Menu
    <3> QED
      BY <2>1, <2>3, <3>2, FitsSteady
  <2>5. CASE Onboarding \/ ProfileScreens \/ WalletScreens \/ PurchaseScreens
    <3>1. Fits(row', asked')
      BY <2>2, <2>5, OnboardingFits, ProfileFits, WalletFits, PurchaseFits DEF JobFits
    <3> QED
      BY <2>1, <2>3, <3>1, FitsSteady
  <2>6. CASE SupportScreens \/ ControlPanel \/ StaffEdits \/ StaffForms
    <3>1. Fits(row', asked')
      BY <2>2, <2>6, SupportFits, ControlFits, EditsFits, FormsFit DEF JobFits
    <3> QED
      BY <2>1, <2>3, <3>1, FitsSteady
  <2> QED
    BY <1>2, <2>4, <2>5, <2>6 DEF BotNext
<1>3. AnswersInv /\ UNCHANGED botVars => AnswersInv'
  <2> SUFFICES ASSUME AnswersInv, UNCHANGED botVars PROVE AnswersInv'
    OBVIOUS
  <2>1. row' = row /\ asked' = asked /\ handling' = handling /\ scene' = scene
    BY DEF botVars
  <2> QED
    BY <2>1, FitsSteady DEF AnswersInv, Apart
<1> QED
  BY <1>1, <1>2, <1>3, ScreensInvariant, PTL DEF BotSpec

\* While a question is open, what the user sends is taken for an answer to that
\* question or for nothing, if none of the menus are visited that disturb each other.
THEOREM AnswersReachTheirPrompts == BotSpec => [](Apart(scene.parts) => AnswersFitPrompts)
<1>1. AnswersInv => (Apart(scene.parts) => AnswersFitPrompts)
  BY DEF AnswersInv, Fits, OwnReading, AnswersFitPrompts
<1> QED
  BY <1>1, AnswersInvariant, PTL

-----------------------------------------------------------------------------
(* The onboarding is kept *)

\* Only the onboarding's screens change what is known of the person.
LEMMA PersonSteady ==
    ASSUME BotNext
    PROVE  \/ Onboarding
           \/ UNCHANGED person
           \/ RevokeStaff
<1>1. ProfileScreens => UNCHANGED person
  BY DEF ProfileScreens, EditProfile, SetGender, BeginCompletion, RequestField, SaveField,
         StartRename, StartManualReferrer, RenameMessage, ManualReferrerMessage
<1>2. WalletScreens => UNCHANGED person
  BY DEF WalletScreens, RequestCustomAmount, ShowCouponInput, InitiateCharge, ShowCardPayment,
         RequestTxid, CustomAmountMessage, ReceiptPhoto, TxidMessage, CouponMessage
<1>3. PurchaseScreens => UNCHANGED person
  BY DEF PurchaseScreens, ShowPlans, ShowService, ShowPlanDetails, PlanPicker, PlanFilter, Browse,
         PaidAtOnce, CancelPurchase, ShowPaymentMethods, RequestPurchaseCoupon, ShowSelectedCard,
         PaymentDone, PaymentNotDone, PurchaseCouponMessage, CardReceipt
<1>4. SupportScreens => UNCHANGED person
  BY DEF SupportScreens, CreateTicket, TicketDevice, TicketCategory, ShowMyTickets,
         StartFaqSearch, StartTicketReply, TicketSubject, TicketDescription, TicketReply, FaqSearch
<1>5. ControlPanel => UNCHANGED person
  BY DEF ControlPanel, ControlScreen, LinkNew, RuleNew, UserCredit, TierNew, UserSearch, LinkEdit,
         PlanEdit, ChallengeEdit, TierEdit, RuleEdit, NumberedPrompt, Prompt, LinkNameMessage,
         RuleNameMessage, NameMessage, LinkOwnerMessage, RuleTextMessage, SecondMessage,
         ObjectMessage, CreditMessage, PressStaff, AsStaff
<1>6. StaffEdits => UNCHANGED person
  BY DEF StaffEdits, StartSearchPanelUser, StartSearchPanelAdmin, EditBrandName,
         EditBrandDescription, SearchPayment, RequestSearchUsername, StartEditUserField,
         StartOrderAdminNote, StartStaffReply, StartEditCardField, StartEditCryptoField,
         EditPrompt, ApplyUserFieldEdit, OrderAdminNote, StaffTicketReply, PanelAdminSearch,
         EditCardField, EditCryptoField, EditBrandField, PaymentSearch, UsernameSearch,
         SingleAnswer, PressStaff, AsStaff
<1>7. StaffForms => UNCHANGED person
  BY DEF StaffForms, StartAddPanelUser, StartAddPanelAdmin, StartEditPanelAdmin, PanelAdminMode,
         PanelAdminCanAdd, AddPaymentCard, AddCryptoCurrency, CryptoNetwork, AddPaymentGateway,
         GatewayType, StartBroadcast, CancelBroadcast, StartForm, ButtonStep, AddPanelUserStep,
         AddPanelAdminStep, CardStep, CryptoStep, GatewayStep, BroadcastInput, BroadcastConfirm,
         BroadcastSend, BroadcastEnds, TypedStep, LastStep, ExecuteBroadcast, PressStaff, AsStaff
<1>8. MainMenu \/ Messages => UNCHANGED person
  BY DEF MainMenu, Messages, Send, Refuse, Demoted, Cancelled
<1> QED
  BY <1>1, <1>2, <1>3, <1>4, <1>5, <1>6, <1>7, <1>8 DEF BotNext

\* What the onboarding's screens do with the person.
LEMMA OnboardingPerson ==
    ASSUME Onboarding, profile \subseteq {"name", "phone", "device"}
    PROVE  /\ staff' = staff /\ past \subseteq past'
           /\ gate' = gate \/ gate' = "verified"
           /\ profile' \subseteq {"name", "phone", "device"}
           /\ \/ profile' = profile
              \/ profile' = {"name", "phone", "device"} => "onboarded" \in past'
<1>1. ASSUME NEW fields, SetProfile(fields), fields \subseteq {"name", "phone", "device"}
      PROVE  /\ staff' = staff /\ past \subseteq past' /\ gate' = gate
             /\ profile' \subseteq {"name", "phone", "device"}
             /\ profile' = {"name", "phone", "device"} => "onboarded" \in past'
  BY <1>1 DEF SetProfile
<1>2. CASE SetInitialDevice \/ \E h \in Handlers : NameStep(h) \/ PhoneStep(h)
  <2>1. PICK fields : SetProfile(fields) /\ fields \subseteq {"name", "phone", "device"}
    <3>1. CASE SetInitialDevice
      <4> DEFINE fields == IF "device" \in profile THEN profile \ {"device"}
                           ELSE profile \cup {"device"}
      <4>1. SetProfile(fields) /\ fields \subseteq {"name", "phone", "device"}
        BY <3>1 DEF SetInitialDevice
      <4> HIDE DEF fields
      <4> QED
        BY <4>1
    <3>2. CASE \E h \in Handlers : NameStep(h) \/ PhoneStep(h)
      <4>1. SetProfile(profile \cup {"name"}) \/ SetProfile(profile \cup {"phone"})
        BY <3>2 DEF NameStep, PhoneStep
      <4> DEFINE f == profile \cup {"name"}
                 g == profile \cup {"phone"}
      <4>2. /\ SetProfile(f) \/ SetProfile(g)
            /\ f \subseteq {"name", "phone", "device"} /\ g \subseteq {"name", "phone", "device"}
        BY <4>1
      <4> HIDE DEF f, g
      <4> QED
        BY <4>2
    <3> QED
      BY <1>2, <3>1, <3>2
  <2> QED
    BY <1>1, <2>1
<1>3. CASE \/ Start \/ EnterByMessage \/ Help \/ SetupProfile \/ FinishClaims \/ FinishDevices
           \/ VerifyJoin \/ FindMember \/ ApproveJoin
  BY <1>3 DEF Start, EnterByMessage, Help, SetupProfile, FinishClaims, FinishDevices, VerifyJoin,
              FindMember, ApproveJoin, person
<1> QED
  BY <1>2, <1>3 DEF Onboarding

\* What is known of the person grows with what the person is let into.
LEMMA PersonKept ==
    ASSUME OnboardingInv, BotNext
    PROVE  /\ profile' \subseteq {"name", "phone", "device"}
           /\ Complete' => "onboarded" \in past'
           /\ Kept => Kept'
           /\ staff' => scene.parts \cap StaffParts # {}
<1>1. CASE Onboarding
  <2>1. Complete' => profile' = {"name", "phone", "device"}
    BY DEF Complete
  <2>2. profile' = profile => (Complete' <=> Complete)
    BY DEF Complete
  <2> QED
    BY <1>1, <2>1, <2>2, OnboardingPerson DEF OnboardingInv, Kept
<1>2. CASE UNCHANGED person \/ RevokeStaff
  <2>1. profile' = profile /\ past' = past /\ gate' = gate /\ (staff' => staff)
    BY <1>2 DEF RevokeStaff, person
  <2> QED
    BY <2>1 DEF OnboardingInv, Kept, Complete
<1> QED
  BY <1>1, <1>2, PersonSteady

\* Who is held back by the onboarding reaches no screen but its own.
LEMMA HeldBack ==
    ASSUME OnboardingInv, Joined(scene.parts), ~Kept, BotNext
    PROVE  \/ Onboarding
           \/ \E h \in Handlers : Refuse(h) \/ \E medium \in Media : Send(h, medium)
<1>1. ~staff /\ InSetup
  BY DEF OnboardingInv, Joined
<1>2. Complete => gate = "required"
  BY DEF OnboardingInv, Kept
<1>3. \A part : ~Press(part)
  BY <1>1, <1>2 DEF Press, Here, InSetup, Gated
<1>4. \A part : ~PressStaff(part)
  BY <1>1 DEF PressStaff
<1>5. ASSUME NEW h \in Handlers, NEW what, NEW part, Answers(h, what, part)
      PROVE  what = "setup"
  BY <1>1, <1>5 DEF Answers, InSetup, SetupJob
<1>6. \A h \in Handlers : \A what, part : ~AsStaff(h, what, part)
  BY <1>1 DEF AsStaff
<1>7. ~MainMenu /\ ~RevokeStaff
  BY <1>1, <1>3 DEF MainMenu, RevokeStaff
<1>8. ~ProfileScreens
  BY <1>3, <1>5 DEF ProfileScreens, EditProfile, SetGender, BeginCompletion, RequestField,
                    SaveField, StartRename, StartManualReferrer, RenameMessage,
                    ManualReferrerMessage
<1>9. ~WalletScreens
  BY <1>3, <1>5 DEF WalletScreens, RequestCustomAmount, ShowCouponInput, InitiateCharge,
                    ShowCardPayment, RequestTxid, CustomAmountMessage, ReceiptPhoto, TxidMessage,
                    CouponMessage
<1>10. ~PurchaseScreens
  BY <1>3, <1>5 DEF PurchaseScreens, ShowPlans, ShowService, ShowPlanDetails, PlanPicker,
                    PlanFilter, Browse, PaidAtOnce, CancelPurchase, ShowPaymentMethods,
                    RequestPurchaseCoupon, ShowSelectedCard, PaymentDone, PaymentNotDone,
                    PurchaseCouponMessage, CardReceipt
<1>11. ~SupportScreens
  BY <1>3, <1>5 DEF SupportScreens, CreateTicket, TicketDevice, TicketCategory, ShowMyTickets,
                    StartFaqSearch, StartTicketReply, TicketSubject, TicketDescription,
                    TicketReply, FaqSearch
<1>12. ~ControlPanel
  BY <1>4, <1>6 DEF ControlPanel, ControlScreen, LinkNew, RuleNew, UserCredit, TierNew,
                    UserSearch, LinkEdit, PlanEdit, ChallengeEdit, TierEdit, RuleEdit,
                    NumberedPrompt, Prompt, LinkNameMessage, RuleNameMessage, NameMessage,
                    LinkOwnerMessage, RuleTextMessage, SecondMessage, ObjectMessage, CreditMessage
<1>13. ~StaffEdits
  BY <1>4, <1>6 DEF StaffEdits, StartSearchPanelUser, StartSearchPanelAdmin, EditBrandName,
                    EditBrandDescription, SearchPayment, RequestSearchUsername,
                    StartEditUserField, StartOrderAdminNote, StartStaffReply, StartEditCardField,
                    StartEditCryptoField, EditPrompt, ApplyUserFieldEdit, OrderAdminNote,
                    StaffTicketReply, PanelAdminSearch, EditCardField, EditCryptoField,
                    EditBrandField, PaymentSearch, UsernameSearch, SingleAnswer
<1>14. ~StaffForms
  <2>1. \A h \in Handlers : ~BroadcastConfirm(h) /\ ~BroadcastSend(h)
    BY <1>1 DEF BroadcastConfirm, BroadcastSend
  <2>2. \A h \in Handlers : ~BroadcastEnds(h)
    BY <1>1 DEF BroadcastEnds, InSetup, SetupJob
  <2> QED
    BY <1>4, <1>6, <2>1, <2>2
    DEF StaffForms, StartAddPanelUser, StartAddPanelAdmin, StartEditPanelAdmin, PanelAdminMode,
        PanelAdminCanAdd, AddPaymentCard, AddCryptoCurrency, CryptoNetwork, AddPaymentGateway,
        GatewayType, StartBroadcast, CancelBroadcast, StartForm, ButtonStep, AddPanelUserStep,
        AddPanelAdminStep, CardStep, CryptoStep, GatewayStep, BroadcastInput, TypedStep, LastStep
<1>15. \A h \in Handlers : ~Demoted(h) /\ ~Cancelled(h)
  <2>1. "setup" \notin StaffKinds
    BY DEF StaffKinds, TypedSteps, Target
  <2> QED
    BY <1>1, <2>1 DEF Demoted, Cancelled, InSetup, SetupJob
<1> QED
  BY <1>7, <1>8, <1>9, <1>10, <1>11, <1>12, <1>13, <1>14, <1>15 DEF BotNext, Messages

\* A message to the onboarding is read as one.
LEMMA SetupSend ==
    ASSUME DOMAIN handling = Handlers, InSetup, NEW k \in Handlers, NEW medium \in Media,
           Send(k, medium)
    PROVE  InSetup'
<1>1. PICK act : /\ handling' = [handling EXCEPT ![k] = act]
                 /\ act.pc = "sent" /\ act.read = Reading(medium, row)
  BY Sends
<1>2. act.read # NoQuestion /\ row.state # "new"
  BY <1>1 DEF Send
<1>3. row' = row /\ asked' = asked /\ profile' = profile /\ gate' = gate
  BY DEF Send, person
<1>4. act.read \in {TextReading(row), PhotoReading(row)}
  BY <1>1, <1>2 DEF Reading, ContactReading
<1>5. PhotoReading(row) = NoQuestion
  BY PhotoNothing DEF InSetup
<1>6. row.state = "profile_setup"
  BY <1>2, <1>4, <1>5 DEF InSetup, TextReading, Str
<1>7. act.read.kind = "setup" /\ (act.read.part = "phone" => "name" \in profile)
  BY <1>2, <1>4, <1>5, <1>6 DEF InSetup, TextReading, Question, NoQuestion
<1>8. handling'[k] = act /\ \A h \in Handlers \ {k} : handling'[h] = handling[h]
  BY <1>1
<1>9. \A h \in Handlers : SetupJob(handling[h])'
  BY <1>1, <1>3, <1>7, <1>8 DEF InSetup, SetupJob
<1> QED
  BY <1>3, <1>6, <1>9 DEF InSetup

\* The onboarding's screens lead to each other while it is not over.
LEMMA SetupStep ==
    ASSUME OnboardingInv, InSetup, ~Kept, ~Kept', Onboarding
    PROVE  InSetup'
<1>1. Complete => gate = "required"
  BY DEF OnboardingInv, Kept
<1>2. \A h \in Handlers : handling'[h] = handling[h] \/ handling'[h] = NoJob
  BY DEF OnboardingInv, Onboarding, Start, EnterByMessage, Help, SetupProfile, FinishClaims,
         PressSetup, SetInitialDevice, FinishDevices, VerifyJoin, FindMember, ApproveJoin,
         NameStep, PhoneStep, Answers
<1>3. "name" \in profile => "name" \in profile'
  BY DEF Onboarding, Start, EnterByMessage, Help, SetupProfile, FinishClaims, PressSetup,
         SetInitialDevice, FinishDevices, VerifyJoin, FindMember, ApproveJoin, NameStep,
         PhoneStep, SetProfile, person
<1>4. \A h \in Handlers : SetupJob(handling[h])'
  BY <1>2, <1>3 DEF InSetup, SetupJob, NoJob
<1>5. ASSUME ShowProfileSetup
      PROVE  InSetup'
  BY <1>4, <1>5 DEF ShowProfileSetup, Clear, InSetup, Str, NoQuestion, Question
<1>6. ASSUME AskDevice, {"name", "phone"} \subseteq profile'
      PROVE  InSetup'
  <2>1. /\ Written(row', row.data, "profile_setup", [step |-> "device"])
        /\ asked' = NoQuestion
    BY <1>6, PutWrites DEF AskDevice, Ask
  <2>2. row'.state = "profile_setup" /\ Str(row'.data, "step") = "device"
    BY <2>1 DEF Written, Str
  <2> QED
    BY <1>4, <1>6, <2>1, <2>2 DEF InSetup, NoQuestion, Question
<1>7. ASSUME StartProfileSetup
      PROVE  InSetup'
  <2>1. /\ Written(row', row.data, "profile_setup", [step |-> "name"])
        /\ asked' = Question("setup", "name", None)
    BY <1>7, PutWrites DEF StartProfileSetup, Ask
  <2>2. row'.state = "profile_setup" /\ Str(row'.data, "step") = "name"
    BY <2>1 DEF Written, Str
  <2> QED
    BY <1>4, <2>1, <2>2 DEF InSetup, Question
<1>8. CASE Start
  <2>1. UNCHANGED person /\ ~(row.state \in {"new", "profile_setup"}) => Gated
    BY <1>8 DEF Start, InSetup, Gated
  <2>2. ShowProfileSetup \/ (AskDevice /\ {"name", "phone"} \subseteq profile')
    BY <1>8, <2>1 DEF Start, person
  <2> QED
    BY <1>5, <1>6, <2>2
<1>9. CASE EnterByMessage \/ Help
  BY <1>9 DEF EnterByMessage, Help, Kept
<1>10. CASE SetupProfile
  BY <1>7, <1>10 DEF SetupProfile
<1>11. CASE FinishClaims
  <2>1. ~Complete
    BY <1>1, <1>11 DEF FinishClaims, PressSetup, Gated
  <2>2. StartProfileSetup \/ (AskDevice /\ {"name", "phone"} \subseteq profile')
    BY <1>11, <2>1 DEF FinishClaims, OnboardingInv, Complete, person
  <2> QED
    BY <1>6, <1>7, <2>2
<1>12. CASE SetInitialDevice
  <2>1. {"name", "phone"} \subseteq profile
    BY <1>12 DEF SetInitialDevice, InSetup
  <2>2. AskDevice /\ {"name", "phone"} \subseteq profile'
    BY <1>12, <2>1 DEF SetInitialDevice, SetProfile
  <2> QED
    BY <1>6, <2>2
<1>13. CASE FinishDevices
  <2>1. ~Complete
    BY <1>1, <1>13 DEF FinishDevices, PressSetup, Gated
  <2>2. {"name", "phone"} \subseteq profile /\ profile' = profile
    BY <1>13 DEF FinishDevices, InSetup, person
  <2>3. AskDevice
    BY <1>13, <2>1, <2>2 DEF FinishDevices, OnboardingInv, Complete
  <2> QED
    BY <1>6, <2>2, <2>3
<1>14. CASE VerifyJoin
  BY <1>1, <1>5, <1>14 DEF VerifyJoin
<1>15. CASE FindMember \/ ApproveJoin
  <2>1. row' = row /\ asked' = asked /\ profile' = profile /\ past' = past /\ gate' = "verified"
    BY <1>15 DEF FindMember, ApproveJoin
  <2>2. ~Complete
    BY <2>1 DEF OnboardingInv, Kept
  <2> QED
    BY <1>4, <2>1, <2>2 DEF InSetup
<1>16. ASSUME NEW h \in Handlers, NameStep(h)
       PROVE  InSetup'
  <2>1. /\ Written(row', row.data, "profile_setup", [step |-> "phone"])
        /\ asked' = Question("setup", "phone", None) /\ "name" \in profile'
    BY <1>16, PutWrites DEF NameStep, Ask, SetProfile
  <2>2. row'.state = "profile_setup" /\ Str(row'.data, "step") = "phone"
    BY <2>1 DEF Written, Str
  <2> QED
    BY <1>4, <2>1, <2>2 DEF InSetup, Question
<1>17. ASSUME NEW h \in Handlers, PhoneStep(h)
       PROVE  InSetup'
  <2>1. "name" \in profile
    BY <1>17 DEF PhoneStep, Answers, InSetup, SetupJob
  <2>2. AskDevice /\ {"name", "phone"} \subseteq profile'
    BY <1>17, <2>1 DEF PhoneStep, SetProfile
  <2> QED
    BY <1>6, <2>2
<1> QED
  BY <1>8, <1>9, <1>10, <1>11, <1>12, <1>13, <1>14, <1>15, <1>16, <1>17 DEF Onboarding

\* The invariant of the onboarding.
LEMMA OnboardingInvariant == BotSpec => []OnboardingInv
<1>1. BotInit => OnboardingInv
  <2> SUFFICES ASSUME BotInit PROVE OnboardingInv
    OBVIOUS
  <2>1. \A h \in Handlers : SetupJob(handling[h])
    BY DEF BotInit, NoJob, SetupJob
  <2>2. CASE "onboarding" \in scene.parts
    BY <2>1, <2>2 DEF BotInit, OnboardingInv, Complete, InSetup, NoQuestion, Question
  <2>3. CASE "onboarding" \notin scene.parts
    BY <2>3 DEF BotInit, OnboardingInv, Complete, Kept
  <2> QED
    BY <2>2, <2>3
<1>2. ASSUME OnboardingInv, BotNext
      PROVE  OnboardingInv'
  <2>1. scene' = scene
    BY <1>2, StepsQuiet DEF Quiet, Send
  <2>2. DOMAIN handling' = Handlers
    BY <1>2, StepsQuiet DEF OnboardingInv, Quiet, Send
  <2>3. ASSUME Joined(scene.parts), ~Kept'
        PROVE  InSetup'
    <3>1. ~Kept /\ InSetup
      BY <1>2, <2>3, PersonKept DEF OnboardingInv
    <3>2. ASSUME NEW h \in Handlers, Refuse(h)
          PROVE  InSetup'
      <4>1. /\ row' = row /\ asked' = asked /\ profile' = profile /\ gate' = gate
            /\ handling' = [handling EXCEPT ![h] = NoJob]
        BY <3>2 DEF Refuse, person
      <4>2. \A g \in Handlers : handling'[g] = handling[g] \/ handling'[g] = NoJob
        BY <1>2, <4>1 DEF OnboardingInv
      <4>3. \A g \in Handlers : SetupJob(handling[g])'
        BY <3>1, <4>1, <4>2 DEF InSetup, SetupJob, NoJob
      <4> QED
        BY <3>1, <4>1, <4>3 DEF InSetup, Complete
    <3> QED
      BY <1>2, <2>3, <3>1, <3>2, HeldBack, SetupSend, SetupStep DEF OnboardingInv
  <2> QED
    BY <1>2, <2>1, <2>2, <2>3, PersonKept DEF OnboardingInv
<1>3. OnboardingInv /\ UNCHANGED botVars => OnboardingInv'
  BY DEF OnboardingInv, botVars, person, Kept, Complete, InSetup, SetupJob
<1> QED
  BY <1>1, <1>2, <1>3, PTL DEF BotSpec

\* A user without staff's menus is asked nothing but the onboarding's questions before it is
\* over and the required channel joined, except by the ways around it the code leaves open.
THEOREM OnboardingStaysKept == BotSpec => [](Joined(scene.parts) => OnboardingIsKept)
<1>1. OnboardingInv => (Joined(scene.parts) => OnboardingIsKept)
  BY DEF OnboardingInv, InSetup, Kept, OnboardingIsKept
<1> QED
  BY <1>1, OnboardingInvariant, PTL
=================================================================================
