------------------------------ MODULE GiftsProofs ------------------------------
(***************************************************************************)
(* Proofs about Gifts for any number of gifts, people and workers.          *)
(*                                                                          *)
(* Two locks carry the argument.  The voucher's keeps a handover at one     *)
(* person: a claim that passed LockVoucher holds it until it commits, so    *)
(* what it read of claimed_by still holds then (HoldsVouchers).  The order's   *)
(* keeps the reward at one: an award that found none still finds none when  *)
(* it books (HoldsOrder).  The user's row lock is not needed for either.    *)
(*                                                                          *)
(* That a person is brought by one gift only has another reason: a user is  *)
(* created once, so of all claims and vouchers of one person at most one    *)
(* carries the mark of the newcomer (OneNewcomer), and until its gift is    *)
(* handed over nobody is recorded as that person's referrer.                *)
(***************************************************************************)
EXTENDS Gifts, TLAPS

\* A claim whose transaction is still open.
Locking(p) == Claiming(p) /\ job[p].pc # "callbacks"

\* What the kind and the phase of a job have to do with each other.
Fits(p) ==
    /\ job[p].pc \in {"commit", "callbacks"} => Claiming(p)
    /\ job[p].pc = "notice" => job[p].kind = "notify"
    /\ job[p].kind = "claim" => job[p].todo = {} /\ job[p].done \subseteq {job[p].gift}

\* The vouchers a claim has passed.
Passed(p) == job[p].done \cup (IF job[p].pc \in {"order", "user"} THEN {job[p].gift} ELSE {})

\* A claim holds them, and nobody else reserved them.
HoldsVouchers(p) ==
    Locking(p) => \A g \in Passed(p) : /\ lock[<<"voucher", g>>] = p
                                      /\ voucher[g].claimedBy \in {Nobody, job[p].user}

\* The gifts whose callbacks are due were handed over to the claimant.
KnowsRecipients(p) ==
    job[p].pc = "callbacks" => \A g \in job[p].done : recipient[g] = job[p].user

\* An award is about a newcomer's gift and holds the order while it books.
HoldsOrder(p) ==
    Awarding(p) /\ job[p].pc \in {"order", "user"} =>
        LET g == job[p].gift
        IN  /\ recipient[g] # Nobody /\ voucher[g].fresh
            /\ job[p].pc = "user" => lock[<<"order", g>>] = p /\ ~reward[g]

JobSound(p) == Fits(p) /\ HoldsVouchers(p) /\ KnowsRecipients(p) /\ HoldsOrder(p)

JobsSound == \A p \in Workers : JobSound(p)

\* An account that does not exist has no owner; who read the recipient of a
\* gift knows it, or read none, and its transfer is announced, a newcomer's is
\* rewarded and a pill is promised for a gift that was handed over only.
GiftsFit ==
    \A g \in Gifts :
        /\ account[g].status = "none" => account[g] = NoAccount
        /\ run[g].recipient \in {Nobody, recipient[g]}
        /\ "notify" \in queue[g] => recipient[g] # Nobody
        /\ reward[g] => recipient[g] # Nobody /\ voucher[g].fresh
        /\ notice[g] = "pill" => reward[g]

Newcomer(p) == Locking(p) /\ job[p].fresh

\* Of the claims and vouchers of one person one is a newcomer's at most.
OneNewcomer ==
    /\ \A g \in Gifts : voucher[g].fresh => voucher[g].claimedBy \in member \cap People
    /\ \A g, h \in Gifts : /\ voucher[g].fresh /\ voucher[h].fresh
                            /\ voucher[g].claimedBy = voucher[h].claimedBy
                            => g = h
    /\ \A p \in Workers : Newcomer(p) =>
          /\ job[p].kind = "claim" /\ job[p].user \in member
          /\ \A g \in Gifts : voucher[g].fresh => voucher[g].claimedBy # job[p].user
    /\ \A p, q \in Workers : Newcomer(p) /\ Newcomer(q) /\ job[p].user = job[q].user => p = q

\* Nobody invited a newcomer before the gift is handed over, and then its
\* buyer did.
NewcomersInviter ==
    /\ \A u \in People \ member : referrer[u] = Nobody
    /\ \A p \in Workers : Newcomer(p) => referrer[job[p].user] = Nobody
    /\ \A g \in Gifts : voucher[g].fresh =>
          referrer[voucher[g].claimedBy] = IF recipient[g] = Nobody THEN Nobody ELSE Buyer[g]

\* The inductive invariant.
GiftsInv == TypeOK /\ JobsSound /\ HandedOver /\ GiftsFit /\ OneNewcomer /\ NewcomersInviter

-----------------------------------------------------------------------------
(* Facts about jobs and locks *)

\* A job under way is about a person and a gift.
LEMMA JobTypes ==
    ASSUME TypeOK, NEW p \in Workers, job[p].pc # "idle"
    PROVE  /\ job[p] # NoJob
           /\ job[p].user \in People /\ job[p].gift \in Gifts /\ job[p].fresh \in BOOLEAN
           /\ job[p].todo \subseteq Gifts /\ job[p].done \subseteq Gifts /\ job[p].ready \subseteq Gifts
           /\ job[p].kind \in {"claim", "complete", "notify", "award"}
           /\ job[p].pc \in {"voucher", "order", "user", "commit", "callbacks", "notice"}
           /\ job[p] \in Job \ {NoJob}
  BY DEF TypeOK, Job, NoJob

\* Nobody is a person, and what is not under way is no claim and no award.
LEMMA Idleness ==
    /\ Nobody \notin People /\ Nobody \notin Buyers /\ Nobody \notin Workers
    /\ NoJob.kind = "idle" /\ NoJob.pc = "idle"
    /\ \A p \in Workers : Claiming(p) \/ Awarding(p) => job[p] # NoJob
  BY GiftsAssumption DEF Users, NoJob, Claiming, Awarding

\* The locks are tuples of their kind, so that a voucher's is nobody else's.
LEMMA LocksDiffer ==
    ASSUME NEW g \in Gifts
    PROVE  /\ <<"voucher", g>> \in Locks /\ <<"order", g>> \in Locks
           /\ \A h \in Gifts : <<"voucher", g>> # <<"order", h>>
           /\ \A u \in People : <<"user", u>> \in Locks /\ <<"voucher", g>> # <<"user", u>>
                                                    /\ <<"order", g>> # <<"user", u>>
  BY DEF Locks

Vouchers == [issued : BOOLEAN, expired : BOOLEAN,
             claimedBy : People \cup {Nobody}, fresh : BOOLEAN]

Accounts == [status : {"none", "pending", "active"}, owner : Users \cup {Nobody}]

Runs == [pc : {"idle", "leased", "activated", "over"}, recipient : People \cup {Nobody}]

\* The rows that change do so column by column.
LEMMA RowEdits ==
    /\ \A v \in Vouchers : /\ [v EXCEPT !.issued = TRUE] \in Vouchers
                           /\ [v EXCEPT !.expired = TRUE] \in Vouchers
                           /\ \A u \in People, f \in BOOLEAN :
                                 [v EXCEPT !.claimedBy = u, !.fresh = f] \in Vouchers
    /\ \A a \in Accounts : [a EXCEPT !.status = "active"] \in Accounts
    /\ \A r \in Runs : [r EXCEPT !.pc = "activated"] \in Runs
  BY DEF Vouchers, Accounts, Runs

\* The columns by the names of their types.
LEMMA RowTypes ==
    TypeOK => /\ voucher \in [Gifts -> Vouchers]
              /\ account \in [Gifts -> Accounts]
              /\ run \in [Gifts -> Runs]
  BY DEF TypeOK, Vouchers, Accounts, Runs

\* The initial situations satisfy the invariant.
LEMMA InitEstablishesGiftsInv == Init => GiftsInv
  <1> SUFFICES ASSUME Init PROVE GiftsInv
    OBVIOUS
  <1> PICK s \in Scenarios : InitOf(s.stage) /\ visitors = s.visitors
    BY DEF Init
  <1> USE GiftsAssumption DEF Init, InitOf
  <1>0. s.stage \in [Gifts -> {"unpaid", "ready", "void"}] /\ s.visitors \subseteq People
    OBVIOUS
  <1>1. TypeOK
    <2>1. status \in [Gifts -> OrderStatus]
      BY <1>0 DEF OrderStatus, Paid
    <2>2. voucher \in [Gifts -> [issued : BOOLEAN, expired : BOOLEAN,
                                claimedBy : People \cup {Nobody}, fresh : BOOLEAN]]
      BY DEF NoVoucher
    <2>3. account \in [Gifts -> [status : {"none", "pending", "active"},
                                owner : Users \cup {Nobody}]]
      BY DEF NoAccount, Users, Buyers
    <2>4. details \in [Gifts -> SUBSET Users]
      BY DEF Users, Buyers
    <2>5. job \in [Workers -> Job]
      BY DEF Job
    <2> QED
      BY <1>0, <2>1, <2>2, <2>3, <2>4, <2>5 DEF TypeOK, NoRun, Users
  <1>2. HandedOver /\ GiftsFit
    BY DEF HandedOver, GiftsFit, NoJob, NoRun,
           NoAccount, NoVoucher
  <1>3. JobsSound /\ OneNewcomer /\ NewcomersInviter
    BY DEF JobsSound, JobSound, Fits, HoldsVouchers, KnowsRecipients, HoldsOrder, NoJob, Claiming,
           Locking, Awarding, OneNewcomer, NewcomersInviter, Newcomer, NoVoucher
  <1> QED
    BY <1>1, <1>2, <1>3 DEF GiftsInv

-----------------------------------------------------------------------------
(* Payments, provisioning and people *)

\* Statuses alone say nothing about vouchers and jobs.
LEMMA ConfirmKeeps == ASSUME GiftsInv, NEW g \in Gifts, Confirm(g) PROVE GiftsInv'
  <1> USE GiftsAssumption, Idleness DEF GiftsInv, Confirm, orders, published, users, world
  <1>1. TypeOK'
    BY DEF TypeOK, Trouble, OrderStatus, Paid, Detail, NoAccount, NoRun, Users, Buyers
  <1>2. HandedOver' /\ GiftsFit'
    BY DEF TypeOK, HandedOver, GiftsFit, Detail, NoAccount, NoRun
  <1>3. JobsSound' /\ OneNewcomer' /\ NewcomersInviter'
    BY DEF TypeOK, JobsSound, JobSound, Fits, HoldsVouchers, KnowsRecipients, HoldsOrder,
           OneNewcomer, NewcomersInviter, Claiming, Locking, Awarding, Newcomer, Passed
  <1> QED
    BY <1>1, <1>2, <1>3

\* A new voucher is nobody's.
LEMMA IssueKeeps == ASSUME GiftsInv, NEW g \in Gifts, Issue(g) PROVE GiftsInv'
  <1> USE GiftsAssumption, Idleness DEF GiftsInv, Issue, orders, published, users, world
  <1>1. TypeOK'
    <2>1. voucher' \in [Gifts -> Vouchers]
      BY RowTypes, RowEdits
    <2> QED
      BY <2>1 DEF TypeOK, Vouchers, Trouble
  <1>2. HandedOver' /\ GiftsFit'
    BY DEF TypeOK, HandedOver, GiftsFit, Detail, NoAccount, NoRun
  <1>3. JobsSound' /\ OneNewcomer' /\ NewcomersInviter'
    BY DEF TypeOK, JobsSound, JobSound, Fits, HoldsVouchers, KnowsRecipients, HoldsOrder,
           OneNewcomer, NewcomersInviter, Claiming, Locking, Awarding, Newcomer, Passed
  <1> QED
    BY <1>1, <1>2, <1>3

\* Only a missing account gets an owner here, so its gift is not handed over.
LEMMA OpenAccountKeeps == ASSUME GiftsInv, NEW g \in Gifts, OpenAccount(g) PROVE GiftsInv'
  <1> USE GiftsAssumption, Idleness DEF GiftsInv, OpenAccount, orders, published, users, world
  <1>1. TypeOK'
    BY DEF TypeOK, Trouble, OrderStatus, Paid, Detail, NoAccount, NoRun, Users, Buyers
  <1>2. HandedOver' /\ GiftsFit'
    BY DEF TypeOK, HandedOver, GiftsFit, Detail, NoAccount, NoRun
  <1>3. JobsSound' /\ OneNewcomer' /\ NewcomersInviter'
    BY DEF TypeOK, JobsSound, JobSound, Fits, HoldsVouchers, KnowsRecipients, HoldsOrder,
           OneNewcomer, NewcomersInviter, Claiming, Locking, Awarding, Newcomer, Passed
  <1> QED
    BY <1>1, <1>2, <1>3

\* As Confirm.
LEMMA RefundKeeps == ASSUME GiftsInv, NEW g \in Gifts, Refund(g) PROVE GiftsInv'
  <1> USE GiftsAssumption, Idleness DEF GiftsInv, Refund, orders, published, users, world
  <1>1. TypeOK'
    BY DEF TypeOK, Trouble, OrderStatus, Paid, Detail, NoAccount, NoRun, Users, Buyers
  <1>2. HandedOver' /\ GiftsFit'
    BY DEF TypeOK, HandedOver, GiftsFit, Detail, NoAccount, NoRun
  <1>3. JobsSound' /\ OneNewcomer' /\ NewcomersInviter'
    BY DEF TypeOK, JobsSound, JobSound, Fits, HoldsVouchers, KnowsRecipients, HoldsOrder,
           OneNewcomer, NewcomersInviter, Claiming, Locking, Awarding, Newcomer, Passed
  <1> QED
    BY <1>1, <1>2, <1>3

\* A voucher that expires stays with whom it is reserved for.
LEMMA ExpireKeeps == ASSUME GiftsInv, NEW g \in Gifts, Expire(g) PROVE GiftsInv'
  <1> USE GiftsAssumption, Idleness DEF GiftsInv, Expire, orders, published, users, world
  <1>1. TypeOK'
    <2>1. voucher' \in [Gifts -> Vouchers]
      BY RowTypes, RowEdits
    <2> QED
      BY <2>1 DEF TypeOK, Vouchers, Trouble
  <1>2. HandedOver' /\ GiftsFit'
    BY DEF TypeOK, HandedOver, GiftsFit, Detail, NoAccount, NoRun
  <1>3. JobsSound' /\ OneNewcomer' /\ NewcomersInviter'
    BY DEF TypeOK, JobsSound, JobSound, Fits, HoldsVouchers, KnowsRecipients, HoldsOrder,
           OneNewcomer, NewcomersInviter, Claiming, Locking, Awarding, Newcomer, Passed
  <1> QED
    BY <1>1, <1>2, <1>3

\* The provider says nothing about gifts.
LEMMA SetProviderKeeps == ASSUME GiftsInv, SetProvider PROVE GiftsInv'
  <1> USE GiftsAssumption, Idleness DEF GiftsInv, SetProvider, orders, published, users, world
  <1>1. TypeOK'
    BY DEF TypeOK, Trouble, OrderStatus, Paid, Detail, NoAccount, NoRun, Users, Buyers
  <1>2. HandedOver' /\ GiftsFit'
    BY DEF TypeOK, HandedOver, GiftsFit, Detail, NoAccount, NoRun
  <1>3. JobsSound' /\ OneNewcomer' /\ NewcomersInviter'
    BY DEF TypeOK, JobsSound, JobSound, Fits, HoldsVouchers, KnowsRecipients, HoldsOrder,
           OneNewcomer, NewcomersInviter, Claiming, Locking, Awarding, Newcomer, Passed
  <1> QED
    BY <1>1, <1>2, <1>3

\* The run reads the recipient there is, and the details go to the buyer and
\* to this recipient.
LEMMA BeginRunKeeps == ASSUME GiftsInv, NEW g \in Gifts, BeginRun(g) PROVE GiftsInv'
  <1> USE GiftsAssumption, Idleness DEF GiftsInv, BeginRun, orders, published, users, world
  <1>1. TypeOK'
    <2>1. run' \in [Gifts -> Runs]
      <3>1. [pc |-> "leased", recipient |-> recipient[g]] \in Runs
        BY DEF TypeOK, Runs
      <3> QED
        BY <3>1, RowTypes
    <2>2. details' \in [Gifts -> SUBSET Users]
      <3>1. {Buyer[g], recipient[g]} \ {Nobody} \subseteq Users
        BY DEF TypeOK, Users, Buyers
      <3> QED
        BY <3>1 DEF TypeOK, Detail
    <2>3. queue' \in [Gifts -> SUBSET {"provision", "notify"}]
      BY DEF TypeOK
    <2> QED
      BY <2>1, <2>2, <2>3 DEF TypeOK, Runs
  <1>2. HandedOver' /\ GiftsFit'
    <2>1. HandedOver'
      BY DEF TypeOK, HandedOver, Detail
    <2>2. \A h \in Gifts : run'[h].recipient \in {Nobody, recipient[h]}
      <3>1. \A h \in Gifts : run'[h] \in {run[h], [pc |-> "leased", recipient |-> recipient[h]]}
        BY RowTypes
      <3> QED
        BY <3>1 DEF GiftsFit
    <2>3. \A h \in Gifts : queue'[h] \subseteq queue[h]
      BY DEF TypeOK
    <2> QED
      BY <2>1, <2>2, <2>3 DEF GiftsFit
  <1>3. JobsSound' /\ OneNewcomer' /\ NewcomersInviter'
    BY DEF TypeOK, JobsSound, JobSound, Fits, HoldsVouchers, KnowsRecipients, HoldsOrder,
           OneNewcomer, NewcomersInviter, Claiming, Locking, Awarding, Newcomer, Passed
  <1> QED
    BY <1>1, <1>2, <1>3

\* An activated account keeps its owner.
LEMMA ActivateAccountKeeps == ASSUME GiftsInv, NEW g \in Gifts, ActivateAccount(g) PROVE GiftsInv'
  <1> USE GiftsAssumption, Idleness DEF GiftsInv, ActivateAccount, orders, published, users, world
  <1>1. TypeOK'
    <2>1. account' \in [Gifts -> Accounts]
      BY RowTypes, RowEdits
    <2>2. run' \in [Gifts -> Runs]
      BY RowTypes, RowEdits
    <2> QED
      BY <2>1, <2>2 DEF TypeOK, Accounts, Runs
  <1>2. HandedOver' /\ GiftsFit'
    BY DEF TypeOK, HandedOver, GiftsFit, Detail, NoAccount, NoRun
  <1>3. JobsSound' /\ OneNewcomer' /\ NewcomersInviter'
    BY DEF TypeOK, JobsSound, JobSound, Fits, HoldsVouchers, KnowsRecipients, HoldsOrder,
           OneNewcomer, NewcomersInviter, Claiming, Locking, Awarding, Newcomer, Passed
  <1> QED
    BY <1>1, <1>2, <1>3

\* The recipient the run read is the gift's recipient still.
LEMMA CompleteOrderKeeps == ASSUME GiftsInv, NEW g \in Gifts, CompleteOrder(g) PROVE GiftsInv'
  <1> USE GiftsAssumption, Idleness DEF GiftsInv, CompleteOrder, orders, published, users, world
  <1>1. TypeOK'
    BY DEF TypeOK, Trouble, OrderStatus, Paid, Detail, NoAccount, NoRun, Users, Buyers
  <1>2. HandedOver' /\ GiftsFit'
    BY DEF TypeOK, HandedOver, GiftsFit, Detail, NoAccount, NoRun
  <1>3. JobsSound' /\ OneNewcomer' /\ NewcomersInviter'
    BY DEF TypeOK, JobsSound, JobSound, Fits, HoldsVouchers, KnowsRecipients, HoldsOrder,
           OneNewcomer, NewcomersInviter, Claiming, Locking, Awarding, Newcomer, Passed
  <1> QED
    BY <1>1, <1>2, <1>3

\* A failed run forgets its recipient.
LEMMA FailRunKeeps == ASSUME GiftsInv, NEW g \in Gifts, FailRun(g) PROVE GiftsInv'
  <1> USE GiftsAssumption, Idleness DEF GiftsInv, FailRun, orders, published, users, world
  <1>1. TypeOK'
    BY DEF TypeOK, Trouble, OrderStatus, Paid, Detail, NoAccount, NoRun, Users, Buyers
  <1>2. HandedOver' /\ GiftsFit'
    BY DEF TypeOK, HandedOver, GiftsFit, Detail, NoAccount, NoRun
  <1>3. JobsSound' /\ OneNewcomer' /\ NewcomersInviter'
    BY DEF TypeOK, JobsSound, JobSound, Fits, HoldsVouchers, KnowsRecipients, HoldsOrder,
           OneNewcomer, NewcomersInviter, Claiming, Locking, Awarding, Newcomer, Passed
  <1> QED
    BY <1>1, <1>2, <1>3

\* The beat looks at gifts that were handed over.
LEMMA RecoverNoticeKeeps == ASSUME GiftsInv, NEW g \in Gifts, RecoverNotice(g) PROVE GiftsInv'
  <1> USE GiftsAssumption, Idleness DEF GiftsInv, RecoverNotice, orders, published, users, world
  <1>1. TypeOK'
    BY DEF TypeOK, Trouble, OrderStatus, Paid, Detail, NoAccount, NoRun, Users, Buyers
  <1>2. HandedOver' /\ GiftsFit'
    BY DEF TypeOK, HandedOver, GiftsFit, Detail, NoAccount, NoRun
  <1>3. JobsSound' /\ OneNewcomer' /\ NewcomersInviter'
    BY DEF TypeOK, JobsSound, JobSound, Fits, HoldsVouchers, KnowsRecipients, HoldsOrder,
           OneNewcomer, NewcomersInviter, Claiming, Locking, Awarding, Newcomer, Passed
  <1> QED
    BY <1>1, <1>2, <1>3

\* Who joins by an invitation is no newcomer of a gift, then or later.
LEMMA JoinInvitedKeeps == ASSUME GiftsInv, NEW u \in visitors, NEW b \in Buyers, JoinInvited(u, b) PROVE GiftsInv'
  <1> USE GiftsAssumption, Idleness DEF GiftsInv, JoinInvited, orders, published, users, world
  <1>1. TypeOK'
    BY DEF TypeOK, Trouble, OrderStatus, Paid, Detail, NoAccount, NoRun, Users, Buyers
  <1>2. HandedOver' /\ GiftsFit'
    BY DEF TypeOK, HandedOver, GiftsFit, Detail, NoAccount, NoRun
  <1>3. JobsSound' /\ OneNewcomer' /\ NewcomersInviter'
    BY DEF TypeOK, JobsSound, JobSound, Fits, HoldsVouchers, KnowsRecipients, HoldsOrder,
           OneNewcomer, NewcomersInviter, Claiming, Locking, Awarding, Newcomer, Passed
  <1> QED
    BY <1>1, <1>2, <1>3

\* Complete profiles stay complete.
LEMMA CompleteProfileKeeps == ASSUME GiftsInv, NEW u \in visitors, CompleteProfile(u) PROVE GiftsInv'
  <1> USE GiftsAssumption, Idleness DEF GiftsInv, CompleteProfile, orders, published, users, world
  <1>1. TypeOK'
    BY DEF TypeOK, Trouble, OrderStatus, Paid, Detail, NoAccount, NoRun, Users, Buyers
  <1>2. HandedOver' /\ GiftsFit'
    BY DEF TypeOK, HandedOver, GiftsFit, Detail, NoAccount, NoRun
  <1>3. JobsSound' /\ OneNewcomer' /\ NewcomersInviter'
    BY DEF TypeOK, JobsSound, JobSound, Fits, HoldsVouchers, KnowsRecipients, HoldsOrder,
           OneNewcomer, NewcomersInviter, Claiming, Locking, Awarding, Newcomer, Passed
  <1> QED
    BY <1>1, <1>2, <1>3

-----------------------------------------------------------------------------
(* Steps that change locks and one job only *)

\* Another job sees nothing of a step of p that frees p's locks or takes free
\* ones, writes under p's locks only and leaves alone what was handed over.
LEMMA OthersStaySound ==
    ASSUME GiftsInv, NEW p \in Workers, NEW q \in Workers, q # p,
           job'[q] = job[q],
           \A x \in Locks : lock[x] \notin {Nobody, p} => lock'[x] = lock[x],
           \A g \in Gifts : /\ lock[<<"voucher", g>>] # p => voucher'[g] = voucher[g]
                            /\ lock[<<"order", g>>] # p => reward'[g] = reward[g]
                            /\ voucher[g].fresh => voucher'[g].fresh
                            /\ recipient[g] # Nobody => recipient'[g] = recipient[g]
    PROVE  JobSound(q)'
  <1>1. JobSound(q) /\ q # Nobody /\ TypeOK
    BY Idleness DEF GiftsInv, JobsSound
  <1>2. Fits(q)'
    BY <1>1 DEF JobSound, Fits, Claiming
  <1>3. KnowsRecipients(q)'
    <2>1. ASSUME job[q].pc = "callbacks", NEW g \in job[q].done
          PROVE  recipient'[g] = job[q].user
      <3>1. g \in Gifts /\ job[q].user # Nobody
        BY <1>1, <2>1, JobTypes, Idleness
      <3> QED
        BY <1>1, <2>1, <3>1 DEF JobSound, KnowsRecipients
    <2> QED
      BY <2>1 DEF KnowsRecipients
  <1>4. HoldsVouchers(q)'
    <2>1. SUFFICES ASSUME Locking(q), NEW g \in Passed(q)
                   PROVE  lock'[<<"voucher", g>>] = q /\ voucher'[g].claimedBy \in {Nobody, job[q].user}
      BY DEF HoldsVouchers, Locking, Claiming, Passed
    <2>2. lock[<<"voucher", g>>] = q /\ voucher[g].claimedBy \in {Nobody, job[q].user}
      BY <1>1, <2>1 DEF JobSound, HoldsVouchers
    <2>3. g \in Gifts
      <3>1. job[q].pc # "idle"
        BY <1>1, <2>1, Idleness DEF TypeOK, Job, Locking
      <3> QED
        BY <1>1, <3>1, JobTypes DEF Passed
    <2> QED
      BY <1>1, <2>2, <2>3, LocksDiffer
  <1>5. HoldsOrder(q)'
    <2>1. ASSUME Awarding(q), job[q].pc \in {"order", "user"}
          PROVE  /\ recipient'[job[q].gift] # Nobody /\ voucher'[job[q].gift].fresh
                 /\ job[q].pc = "user" => /\ lock'[<<"order", job[q].gift>>] = q
                                          /\ ~reward'[job[q].gift]
      <3>1. job[q].gift \in Gifts
        BY <1>1, <2>1, JobTypes
      <3> QED
        BY <1>1, <2>1, <3>1, LocksDiffer DEF JobSound, HoldsOrder
    <2> QED
      BY <1>1, <2>1 DEF HoldsOrder, Awarding
  <1> QED
    BY <1>2, <1>3, <1>4, <1>5 DEF JobSound

\* So it preserves the invariant if p's new job is sound and no newcomer's
\* claim appears.
LEMMA JobStepKeeps ==
    ASSUME GiftsInv, NEW p \in Workers, NoWrite,
           job' \in [Workers -> Job], \A q \in Workers \ {p} : job'[q] = job[q],
           lock' \in [Locks -> Workers \cup {Nobody}],
           \A x \in Locks : lock[x] \notin {Nobody, p} => lock'[x] = lock[x],
           JobSound(p)',
           Newcomer(p)' => Newcomer(p) /\ job'[p].user = job[p].user /\ job'[p].kind = job[p].kind
    PROVE  GiftsInv'
  <1> USE DEF NoWrite, orders, published, users, world
  <1>1. TypeOK'
    BY DEF GiftsInv, TypeOK
  <1>2. JobsSound'
    <2>1. \A q \in Workers \ {p} : JobSound(q)'
      BY OthersStaySound
    <2> QED
      BY <2>1 DEF JobsSound
  <1>3. HandedOver' /\ GiftsFit'
    BY DEF GiftsInv, HandedOver, GiftsFit
  <1>4. \A q \in Workers : Newcomer(q)' => Newcomer(q) /\ job'[q].user = job[q].user
                                                    /\ job'[q].kind = job[q].kind
    BY DEF Newcomer, Locking, Claiming
  <1>5. OneNewcomer'
    BY <1>4 DEF GiftsInv, OneNewcomer
  <1>6. NewcomersInviter'
    BY <1>4 DEF GiftsInv, NewcomersInviter
  <1> QED
    BY <1>1, <1>2, <1>3, <1>5, <1>6 DEF GiftsInv

\* Nothing is to be known of an idle process.
LEMMA IdleIsSound ==
    ASSUME NEW p \in Workers, job'[p] = NoJob
    PROVE  JobSound(p)' /\ ~Newcomer(p)'
  BY DEF JobSound, Fits, HoldsVouchers, KnowsRecipients, HoldsOrder, Newcomer, Locking,
         Claiming, Awarding, NoJob

\* Frees only p's locks.
LEMMA ReleaseFrees ==
    ASSUME TypeOK, NEW p \in Workers, Release(p)
    PROVE  /\ lock' \in [Locks -> Workers \cup {Nobody}]
           /\ \A x \in Locks : lock[x] \notin {Nobody, p} => lock'[x] = lock[x]
  BY DEF TypeOK, Release

\* Takes a lock nobody else holds.
LEMMA TakeLocks ==
    ASSUME TypeOK, NEW p \in Workers, NEW x \in Locks, lock[x] \in {Nobody, p}, Take(p, x)
    PROVE  /\ lock' \in [Locks -> Workers \cup {Nobody}]
           /\ lock'[x] = p
           /\ \A y \in Locks : lock[y] \notin {Nobody, p} => lock'[y] = lock[y]
           /\ \A y \in Locks : lock[y] = p => lock'[y] = p
  BY DEF TypeOK, Take

\* A transaction that ends without a write.
LEMMA FinishKeeps == ASSUME GiftsInv, NEW p \in Workers, Finish(p), NoWrite PROVE GiftsInv'
  <1>1. /\ job' \in [Workers -> Job] /\ job'[p] = NoJob
        /\ \A q \in Workers \ {p} : job'[q] = job[q]
    BY DEF Finish, GiftsInv, TypeOK, Job
  <1> QED
    BY <1>1, IdleIsSound, ReleaseFrees, JobStepKeeps DEF Finish, GiftsInv

-----------------------------------------------------------------------------
(* A claim takes its locks *)

\* The edits of a job that is under way.
LEMMA JobEdits ==
    \A j \in Job \ {NoJob} :
        /\ \A pc \in {"voucher", "order", "user", "commit", "callbacks", "notice"} :
              [j EXCEPT !.pc = pc] \in Job
        /\ \A D \in SUBSET Gifts :
              /\ [j EXCEPT !.done = D] \in Job
              /\ [j EXCEPT !.pc = "commit", !.done = D] \in Job
              /\ \A R \in SUBSET Gifts :
                    /\ [j EXCEPT !.pc = "callbacks", !.done = D, !.ready = R] \in Job
                    /\ \A h \in Gifts :
                          [j EXCEPT !.pc = "voucher", !.gift = h, !.todo = R, !.done = D] \in Job
  BY ZenonT(40) DEF Job

\* A voucher that is free, or reserved for this person already, is locked.
LEMMA LockVoucherKeeps == ASSUME GiftsInv, NEW p \in Workers, LockVoucher(p) PROVE GiftsInv'
  <1> DEFINE g == job[p].gift
             x == <<"voucher", g>>
  <1>0. TypeOK /\ NoWrite /\ JobSound(p) /\ Claiming(p) /\ job[p].pc = "voucher"
    BY DEF GiftsInv, JobsSound, LockVoucher
  <1>1. job[p] \in Job \ {NoJob} /\ g \in Gifts /\ x \in Locks
    BY <1>0, JobTypes, LocksDiffer
  <1>2. CASE Finish(p)
    BY <1>0, <1>2, FinishKeeps
  <1>3. CASE Take(p, x) /\ Advance(p, "order") /\ voucher[g].claimedBy \in {Nobody, job[p].user}
    <2>1. /\ job' \in [Workers -> Job] /\ job'[p] = [job[p] EXCEPT !.pc = "order"]
          /\ \A q \in Workers \ {p} : job'[q] = job[q]
      BY <1>0, <1>1, <1>3, JobEdits DEF Advance, TypeOK
    <2>2. lock[x] = Nobody
      BY DEF LockVoucher, Free
    <2>3. /\ lock' \in [Locks -> Workers \cup {Nobody}] /\ lock'[x] = p
          /\ \A y \in Locks : lock[y] \notin {Nobody, p} => lock'[y] = lock[y]
          /\ \A y \in Locks : lock[y] = p => lock'[y] = p
      BY <1>0, <1>1, <1>3, <2>2, TakeLocks
    <2>4. /\ job'[p].kind = job[p].kind /\ job'[p].user = job[p].user /\ job'[p].fresh = job[p].fresh
          /\ job'[p].gift = g /\ job'[p].done = job[p].done /\ job'[p].todo = job[p].todo
          /\ job'[p].pc = "order"
      BY <1>1, <2>1 DEF Job
    <2>5. JobSound(p)'
      <3>1. Fits(p)' /\ KnowsRecipients(p)' /\ HoldsOrder(p)'
        BY <1>0, <2>4 DEF JobSound, Fits, KnowsRecipients, HoldsOrder, Claiming, Awarding
      <3>2. HoldsVouchers(p)'
        <4>1. Passed(p)' = job[p].done \cup {g} /\ Passed(p) = job[p].done
          BY <1>0, <2>4 DEF Passed
        <4>2. \A h \in job[p].done : <<"voucher", h>> \in Locks
          BY <1>0, JobTypes, LocksDiffer
        <4>3. \A h \in job[p].done : /\ lock[<<"voucher", h>>] = p
                                     /\ voucher[h].claimedBy \in {Nobody, job[p].user}
          BY <1>0, <4>1 DEF JobSound, HoldsVouchers, Locking
        <4>4. \A h \in Passed(p)' : /\ lock'[<<"voucher", h>>] = p
                                    /\ voucher'[h].claimedBy \in {Nobody, job'[p].user}
          BY <1>0, <1>3, <2>3, <2>4, <4>1, <4>2, <4>3 DEF NoWrite, orders
        <4> QED
          BY <4>4 DEF HoldsVouchers
      <3> QED
        BY <3>1, <3>2 DEF JobSound
    <2>6. Newcomer(p)' => Newcomer(p)
      BY <1>0, <2>4 DEF Newcomer, Locking
    <2> QED
      BY <1>0, <2>1, <2>3, <2>4, <2>5, <2>6, JobStepKeeps
  <1> QED
    BY <1>2, <1>3 DEF LockVoucher

\* A paid order is locked.
LEMMA LockOrderKeeps == ASSUME GiftsInv, NEW p \in Workers, LockOrder(p) PROVE GiftsInv'
  <1> DEFINE g == job[p].gift
             x == <<"order", g>>
  <1>0. TypeOK /\ NoWrite /\ JobSound(p) /\ Claiming(p) /\ job[p].pc = "order"
    BY DEF GiftsInv, JobsSound, LockOrder
  <1>1. job[p] \in Job \ {NoJob} /\ g \in Gifts /\ x \in Locks
    BY <1>0, JobTypes, LocksDiffer
  <1>2. CASE Finish(p)
    BY <1>0, <1>2, FinishKeeps
  <1>3. CASE Take(p, x) /\ Advance(p, "user")
    <2>1. /\ job' \in [Workers -> Job] /\ job'[p] = [job[p] EXCEPT !.pc = "user"]
          /\ \A q \in Workers \ {p} : job'[q] = job[q]
      BY <1>0, <1>1, <1>3, JobEdits DEF Advance, TypeOK
    <2>2. lock[x] = Nobody
      BY DEF LockOrder, Free
    <2>3. /\ lock' \in [Locks -> Workers \cup {Nobody}]
          /\ \A y \in Locks : lock[y] \notin {Nobody, p} => lock'[y] = lock[y]
          /\ \A y \in Locks : lock[y] = p => lock'[y] = p
      BY <1>0, <1>1, <1>3, <2>2, TakeLocks
    <2>4. /\ job'[p].kind = job[p].kind /\ job'[p].user = job[p].user /\ job'[p].fresh = job[p].fresh
          /\ job'[p].gift = g /\ job'[p].done = job[p].done /\ job'[p].todo = job[p].todo
          /\ job'[p].pc = "user"
      BY <1>1, <2>1 DEF Job
    <2>5. JobSound(p)'
      <3>1. Fits(p)' /\ KnowsRecipients(p)' /\ HoldsOrder(p)'
        BY <1>0, <2>4 DEF JobSound, Fits, KnowsRecipients, HoldsOrder, Claiming, Awarding
      <3>2. HoldsVouchers(p)'
        <4>1. Passed(p)' = Passed(p) /\ \A h \in Passed(p) : <<"voucher", h>> \in Locks
          BY <1>0, <1>1, <2>4, JobTypes, LocksDiffer DEF Passed
        <4>2. \A h \in Passed(p) : /\ lock[<<"voucher", h>>] = p
                                   /\ voucher[h].claimedBy \in {Nobody, job[p].user}
          BY <1>0 DEF JobSound, HoldsVouchers, Locking
        <4> QED
          BY <1>0, <2>3, <2>4, <4>1, <4>2 DEF HoldsVouchers, NoWrite, orders
      <3> QED
        BY <3>1, <3>2 DEF JobSound
    <2>6. Newcomer(p)' => Newcomer(p)
      BY <1>0, <2>4 DEF Newcomer, Locking
    <2> QED
      BY <1>0, <2>1, <2>3, <2>4, <2>5, <2>6, JobStepKeeps
  <1> QED
    BY <1>2, <1>3 DEF LockOrder

\* With the user locked, the voucher and the order are done; the next voucher
\* of a completion follows.
LEMMA LockUserKeeps == ASSUME GiftsInv, NEW p \in Workers, LockUser(p) PROVE GiftsInv'
  <1> DEFINE g == job[p].gift
             x == <<"user", job[p].user>>
             done == job[p].done \cup {g}
  <1>0. TypeOK /\ NoWrite /\ JobSound(p) /\ Claiming(p) /\ job[p].pc = "user"
    BY DEF GiftsInv, JobsSound, LockUser
  <1>1. job[p] \in Job \ {NoJob} /\ g \in Gifts /\ x \in Locks /\ done \in SUBSET Gifts
        /\ job[p].todo \subseteq Gifts
    BY <1>0, JobTypes, LocksDiffer
  <1>2. CASE Finish(p)
    BY <1>0, <1>2, FinishKeeps
  <1>3. CASE /\ Take(p, x)
             /\ \/ /\ job[p].todo = {}
                   /\ job' = [job EXCEPT ![p].pc = "commit", ![p].done = done]
                \/ \E h \in job[p].todo :
                      job' = [job EXCEPT ![p].pc = "voucher", ![p].gift = h,
                                         ![p].todo = @ \ {h}, ![p].done = done]
    <2>1. \/ /\ job[p].todo = {}
             /\ job' = [job EXCEPT ![p] = [job[p] EXCEPT !.pc = "commit", !.done = done]]
          \/ \E h \in job[p].todo :
                job' = [job EXCEPT ![p] = [job[p] EXCEPT !.pc = "voucher", !.gift = h,
                                             !.todo = job[p].todo \ {h}, !.done = done]]
      BY <1>3
    <2>2. /\ job' \in [Workers -> Job] /\ \A q \in Workers \ {p} : job'[q] = job[q]
          /\ job'[p].kind = job[p].kind /\ job'[p].user = job[p].user /\ job'[p].fresh = job[p].fresh
          /\ job'[p].done = done
          /\ \/ job[p].todo = {} /\ job'[p].todo = {} /\ job'[p].pc = "commit" /\ job'[p].gift = g
             \/ job[p].todo # {} /\ job'[p].pc = "voucher"
      <3>1. CASE job[p].todo = {}
                 /\ job' = [job EXCEPT ![p] = [job[p] EXCEPT !.pc = "commit", !.done = done]]
        <4>1. [job[p] EXCEPT !.pc = "commit", !.done = done] \in Job
          BY <1>1, JobEdits
        <4>2. job' \in [Workers -> Job] /\ \A q \in Workers \ {p} : job'[q] = job[q]
          BY <1>0, <3>1, <4>1 DEF TypeOK
        <4>3. job'[p] = [job[p] EXCEPT !.pc = "commit", !.done = done]
          BY <1>0, <3>1 DEF TypeOK
        <4> QED
          BY <1>1, <3>1, <4>2, <4>3 DEF Job
      <3>2. ASSUME NEW h \in job[p].todo,
                   job' = [job EXCEPT ![p] = [job[p] EXCEPT !.pc = "voucher", !.gift = h,
                                                !.todo = job[p].todo \ {h}, !.done = done]]
            PROVE  /\ job' \in [Workers -> Job] /\ \A q \in Workers \ {p} : job'[q] = job[q]
                   /\ job'[p].kind = job[p].kind /\ job'[p].user = job[p].user
                   /\ job'[p].fresh = job[p].fresh /\ job'[p].done = done
                   /\ job'[p].pc = "voucher"
        <4> DEFINE j == [job[p] EXCEPT !.pc = "voucher", !.gift = h,
                                       !.todo = job[p].todo \ {h}, !.done = done]
        <4>1. j \in Job
          BY <1>1, JobEdits
        <4>2. job' \in [Workers -> Job] /\ \A q \in Workers \ {p} : job'[q] = job[q]
          BY <1>0, <3>2, <4>1 DEF TypeOK
        <4>3. job'[p] = j
          BY <1>0, <3>2 DEF TypeOK
        <4> QED
          BY <1>1, <4>2, <4>3 DEF Job
      <3> QED
        BY <2>1, <3>1, <3>2
    <2>3. lock[x] \in {Nobody, p}
      BY DEF LockUser
    <2>4. /\ lock' \in [Locks -> Workers \cup {Nobody}]
          /\ \A y \in Locks : lock[y] \notin {Nobody, p} => lock'[y] = lock[y]
          /\ \A y \in Locks : lock[y] = p => lock'[y] = p
      BY <1>0, <1>1, <1>3, <2>3, TakeLocks
    <2>5. JobSound(p)'
      <3>1. Fits(p)' /\ KnowsRecipients(p)' /\ HoldsOrder(p)'
        BY <1>0, <2>2 DEF JobSound, Fits, KnowsRecipients, HoldsOrder, Claiming, Awarding
      <3>2. HoldsVouchers(p)'
        <4>1. Passed(p)' = done /\ Passed(p) = done /\ \A h \in done : <<"voucher", h>> \in Locks
          BY <1>0, <1>1, <2>2, LocksDiffer DEF Passed
        <4>2. \A h \in done : /\ lock[<<"voucher", h>>] = p
                              /\ voucher[h].claimedBy \in {Nobody, job[p].user}
          BY <1>0, <4>1 DEF JobSound, HoldsVouchers, Locking
        <4> QED
          BY <1>0, <2>2, <2>4, <4>1, <4>2 DEF HoldsVouchers, NoWrite, orders
      <3> QED
        BY <3>1, <3>2 DEF JobSound
    <2>6. Newcomer(p)' => Newcomer(p)
      BY <1>0, <2>2 DEF Newcomer, Locking
    <2> QED
      BY <1>0, <2>2, <2>4, <2>5, <2>6, JobStepKeeps
  <1> QED
    BY <1>2, <1>3 DEF LockUser

-----------------------------------------------------------------------------
(* Operations begin *)

\* Whoever opens a gift link is a newcomer if the user is created for it, and
\* then has no claim and no inviter yet.
LEMMA StartKeeps ==
    ASSUME GiftsInv, NEW p \in Workers, NEW u \in visitors, NEW g \in Gifts, Start(p, u, g)
    PROVE  GiftsInv'
  <1> DEFINE j == [NoJob EXCEPT !.kind = "claim", !.user = u, !.gift = g,
                                !.fresh = (u \notin member), !.pc = "voucher"]
  <1> USE DEF Start, orders, published, world
  <1>0. TypeOK /\ u \in People /\ job[p] = NoJob
    BY DEF GiftsInv, TypeOK
  <1>1. j \in Job /\ j.kind = "claim" /\ j.user = u /\ j.gift = g /\ j.fresh = (u \notin member)
        /\ j.pc = "voucher" /\ j.todo = {} /\ j.done = {}
    BY <1>0 DEF Job, NoJob
  <1>2. job' \in [Workers -> Job] /\ job'[p] = j /\ \A q \in Workers \ {p} : job'[q] = job[q]
    BY <1>0, <1>1 DEF TypeOK
  <1> HIDE DEF j
  <1>3. TypeOK'
    BY <1>0, <1>2 DEF TypeOK, Users
  <1>4. JobsSound'
    <2>1. JobSound(p)'
      BY <1>1, <1>2, Idleness DEF JobSound, Fits, HoldsVouchers, KnowsRecipients, HoldsOrder, Passed,
         Claiming, Awarding
    <2>2. \A q \in Workers \ {p} : JobSound(q)'
      BY <1>2, OthersStaySound
    <2> QED
      BY <2>1, <2>2 DEF JobsSound
  <1>5. HandedOver' /\ GiftsFit'
    BY DEF GiftsInv, HandedOver, GiftsFit
  <1>6. /\ Newcomer(p)' => u \notin member
        /\ \A q \in Workers \ {p} : Newcomer(q)' => Newcomer(q)
    BY <1>1, <1>2 DEF Newcomer, Locking, Claiming
  <1>7. OneNewcomer'
    BY <1>1, <1>2, <1>6 DEF GiftsInv, OneNewcomer
  <1>8. NewcomersInviter'
    BY <1>0, <1>1, <1>2, <1>6 DEF GiftsInv, NewcomersInviter
  <1> QED
    BY <1>3, <1>4, <1>5, <1>7, <1>8 DEF GiftsInv

\* A completion is nobody's first visit.
LEMMA BeginCompleteKeeps ==
    ASSUME GiftsInv, NEW p \in Workers, NEW u \in visitors, BeginComplete(p, u)
    PROVE  GiftsInv'
  <1> DEFINE held == {g \in Gifts : voucher[g].claimedBy = u /\ recipient[g] = Nobody}
  <1>0. TypeOK /\ u \in People /\ NoWrite /\ lock' = lock
    BY DEF BeginComplete, GiftsInv, TypeOK
  <1>1. PICK g \in held : job' = [job EXCEPT ![p] = [NoJob EXCEPT !.kind = "complete", !.user = u,
                                    !.gift = g, !.todo = held \ {g}, !.pc = "voucher"]]
    BY DEF BeginComplete
  <1> DEFINE j == [NoJob EXCEPT !.kind = "complete", !.user = u, !.gift = g,
                                !.todo = held \ {g}, !.pc = "voucher"]
  <1>2. j \in Job /\ j.kind = "complete" /\ j.pc = "voucher" /\ ~j.fresh /\ j.done = {}
    BY <1>0 DEF Job, NoJob
  <1>3. job' \in [Workers -> Job] /\ job'[p] = j /\ \A q \in Workers \ {p} : job'[q] = job[q]
    BY <1>0, <1>1, <1>2 DEF TypeOK
  <1> HIDE DEF j, held
  <1>4. JobSound(p)' /\ ~Newcomer(p)'
    BY <1>2, <1>3 DEF JobSound, Fits, HoldsVouchers, KnowsRecipients, HoldsOrder, Passed,
       Claiming, Awarding, Newcomer
  <1>5. lock' \in [Locks -> Workers \cup {Nobody}]
    BY <1>0 DEF TypeOK
  <1> QED
    BY <1>0, <1>3, <1>4, <1>5, JobStepKeeps

\* The transfer task finds a gift that was handed over.
LEMMA TakeNotifyKeeps ==
    ASSUME GiftsInv, NEW p \in Workers, NEW g \in Gifts, TakeNotify(p, g)
    PROVE  GiftsInv'
  <1> DEFINE j == [NoJob EXCEPT !.kind = "notify", !.user = recipient[g], !.gift = g,
                                !.pc = IF Earns(g) THEN "order" ELSE "notice"]
  <1> USE DEF TakeNotify, orders, users, world
  <1>0. TypeOK /\ recipient[g] # Nobody /\ recipient[g] \in People
    BY DEF GiftsInv, GiftsFit, TypeOK
  <1>1. /\ j \in Job /\ j.kind = "notify" /\ j.gift = g /\ j.pc \in {"order", "notice"}
        /\ j.pc = "order" => voucher[g].fresh
    BY <1>0 DEF Job, NoJob, Earns
  <1>2. job' \in [Workers -> Job] /\ job'[p] = j /\ \A q \in Workers \ {p} : job'[q] = job[q]
    BY <1>0, <1>1 DEF TypeOK
  <1> HIDE DEF j
  <1>3. TypeOK'
    BY <1>0, <1>2 DEF TypeOK
  <1>4. JobsSound'
    <2>1. JobSound(p)'
      BY <1>0, <1>1, <1>2 DEF JobSound, Fits, HoldsVouchers, KnowsRecipients, HoldsOrder, Locking,
         Claiming, Awarding
    <2>2. \A q \in Workers \ {p} : JobSound(q)'
      BY <1>2, OthersStaySound
    <2> QED
      BY <2>1, <2>2 DEF JobsSound
  <1>5. HandedOver' /\ GiftsFit'
    BY <1>0 DEF GiftsInv, HandedOver, GiftsFit, TypeOK
  <1>6. ~Newcomer(p)' /\ \A q \in Workers \ {p} : Newcomer(q)' => Newcomer(q)
    BY <1>1, <1>2 DEF Newcomer, Locking, Claiming
  <1>7. OneNewcomer' /\ NewcomersInviter'
    BY <1>2, <1>6 DEF GiftsInv, OneNewcomer, NewcomersInviter
  <1> QED
    BY <1>3, <1>4, <1>5, <1>7 DEF GiftsInv

\* So does the reward task.
LEMMA TakeRewardKeeps ==
    ASSUME GiftsInv, NEW p \in Workers, NEW g \in Gifts, TakeReward(p, g)
    PROVE  GiftsInv'
  <1> DEFINE j == [NoJob EXCEPT !.kind = "award", !.user = recipient[g], !.gift = g, !.pc = "order"]
  <1>0. /\ TypeOK /\ recipient[g] # Nobody /\ recipient[g] \in People /\ voucher[g].fresh
        /\ NoWrite /\ lock' = lock /\ job' = [job EXCEPT ![p] = j]
    BY DEF TakeReward, Earns, GiftsInv, TypeOK
  <1>1. j \in Job /\ j.kind = "award" /\ j.gift = g /\ j.pc = "order"
    BY <1>0 DEF Job, NoJob
  <1>2. job' \in [Workers -> Job] /\ job'[p] = j /\ \A q \in Workers \ {p} : job'[q] = job[q]
    BY <1>0, <1>1 DEF TypeOK
  <1> HIDE DEF j
  <1>3. JobSound(p)' /\ ~Newcomer(p)'
    BY <1>0, <1>1, <1>2 DEF JobSound, Fits, HoldsVouchers, KnowsRecipients, HoldsOrder, Locking,
       Claiming, Awarding, Newcomer, NoWrite, orders
  <1>4. lock' \in [Locks -> Workers \cup {Nobody}]
    BY <1>0 DEF TypeOK
  <1> QED
    BY <1>0, <1>2, <1>3, <1>4, JobStepKeeps

-----------------------------------------------------------------------------
(* Awards and notices *)

\* The award of p is over, and the transfer task goes on to its notice.
LEMMA AfterAwardIsSound ==
    ASSUME TypeOK, NEW p \in Workers, job[p].pc # "idle", AfterAward(p)
    PROVE  /\ job' \in [Workers -> Job] /\ \A q \in Workers \ {p} : job'[q] = job[q]
           /\ JobSound(p)' /\ ~Newcomer(p)'
  <1>1. job[p] \in Job \ {NoJob}
    BY JobTypes
  <1>2. CASE job[p].kind = "notify"
    <2> DEFINE j == [job[p] EXCEPT !.pc = "notice"]
    <2>1. j \in Job /\ j.kind = "notify" /\ j.pc = "notice"
      <3>1. j \in Job
        BY <1>1, JobEdits
      <3> QED
        BY <1>1, <1>2, <3>1 DEF Job
    <2>2. /\ job' \in [Workers -> Job] /\ job'[p] = j
          /\ \A q \in Workers \ {p} : job'[q] = job[q]
      BY <1>2, <2>1 DEF AfterAward, TypeOK
    <2> HIDE DEF j
    <2> QED
      BY <2>1, <2>2 DEF JobSound, Fits, HoldsVouchers, KnowsRecipients, HoldsOrder, Locking,
         Claiming, Newcomer
  <1>3. CASE job[p].kind # "notify"
    <2>1. job' \in [Workers -> Job] /\ job'[p] = NoJob /\ \A q \in Workers \ {p} : job'[q] = job[q]
      BY <1>3 DEF AfterAward, TypeOK, Job
    <2> QED
      BY <2>1, IdleIsSound
  <1> QED
    BY <1>2, <1>3

\* The order is locked while no reward is found.
LEMMA AwardOrderKeeps == ASSUME GiftsInv, NEW p \in Workers, AwardOrder(p) PROVE GiftsInv'
  <1> DEFINE g == job[p].gift
             x == <<"order", g>>
  <1>0. TypeOK /\ NoWrite /\ JobSound(p) /\ Awarding(p) /\ job[p].pc = "order"
    BY DEF GiftsInv, JobsSound, AwardOrder
  <1>1. job[p] \in Job \ {NoJob} /\ g \in Gifts /\ x \in Locks
    BY <1>0, JobTypes, LocksDiffer
  <1>2. CASE AfterAward(p)
    <2>1. Release(p) /\ job[p].pc # "idle"
      BY <1>0, <1>2 DEF AfterAward
    <2> QED
      BY <1>0, <1>2, <2>1, AfterAwardIsSound, ReleaseFrees, JobStepKeeps
  <1>3. CASE Take(p, x) /\ Advance(p, "user") /\ ~reward[g]
    <2> DEFINE j == [job[p] EXCEPT !.pc = "user"]
    <2>1. j \in Job /\ j.kind = job[p].kind /\ j.pc = "user" /\ j.gift = g
      <3>1. j \in Job
        BY <1>1, JobEdits
      <3> QED
        BY <1>1, <3>1 DEF Job
    <2>2. /\ job' \in [Workers -> Job] /\ job'[p] = j
          /\ \A q \in Workers \ {p} : job'[q] = job[q]
      BY <1>0, <1>1, <1>3, <2>1 DEF Advance, TypeOK
    <2> HIDE DEF j
    <2>3. lock[x] = Nobody
      BY DEF AwardOrder, Free
    <2>4. /\ lock' \in [Locks -> Workers \cup {Nobody}] /\ lock'[x] = p
          /\ \A y \in Locks : lock[y] \notin {Nobody, p} => lock'[y] = lock[y]
      BY <1>0, <1>1, <1>3, <2>3, TakeLocks
    <2>5. JobSound(p)' /\ ~Newcomer(p)'
      BY <1>0, <1>3, <2>1, <2>2, <2>4 DEF JobSound, Fits, HoldsVouchers, KnowsRecipients, HoldsOrder,
         Locking, Claiming, Awarding, Newcomer, NoWrite, orders
    <2> QED
      BY <1>0, <2>2, <2>4, <2>5, JobStepKeeps
  <1> QED
    BY <1>2, <1>3 DEF AwardOrder

\* The reward is booked under the order's lock, and none was there before.
LEMMA AwardUserKeeps == ASSUME GiftsInv, NEW p \in Workers, AwardUser(p) PROVE GiftsInv'
  <1> DEFINE g == job[p].gift
  <1> USE DEF orders, published, users, world
  <1>0. /\ TypeOK /\ JobSound(p) /\ Awarding(p) /\ job[p].pc = "user"
        /\ AfterAward(p) /\ Release(p)
        /\ UNCHANGED <<orders, published, users, world>>
    BY DEF GiftsInv, JobsSound, AwardUser, AfterAward
  <1>1. g \in Gifts
    BY <1>0, JobTypes
  <1>2. PICK granted \in BOOLEAN : reward' = [reward EXCEPT ![g] = granted]
    BY DEF AwardUser
  <1>3. recipient[g] # Nobody /\ voucher[g].fresh /\ lock[<<"order", g>>] = p /\ ~reward[g]
    BY <1>0 DEF JobSound, HoldsOrder
  <1>4. /\ job' \in [Workers -> Job] /\ \A q \in Workers \ {p} : job'[q] = job[q]
        /\ JobSound(p)' /\ ~Newcomer(p)'
    BY <1>0, AfterAwardIsSound
  <1>5. /\ lock' \in [Locks -> Workers \cup {Nobody}]
        /\ \A x \in Locks : lock[x] \notin {Nobody, p} => lock'[x] = lock[x]
    BY <1>0, ReleaseFrees
  <1>6. TypeOK'
    BY <1>0, <1>2, <1>4, <1>5 DEF TypeOK
  <1>7. JobsSound'
    <2>1. \A h \in Gifts : lock[<<"order", h>>] # p => reward'[h] = reward[h]
      BY <1>0, <1>2, <1>3 DEF TypeOK
    <2>2. \A q \in Workers \ {p} : JobSound(q)'
      BY <1>0, <1>4, <1>5, <2>1, OthersStaySound
    <2> QED
      BY <1>4, <2>2 DEF JobsSound
  <1>8. HandedOver' /\ GiftsFit'
    BY <1>0, <1>1, <1>2, <1>3 DEF GiftsInv, HandedOver, GiftsFit, TypeOK
  <1>9. \A q \in Workers : Newcomer(q)' => q # p /\ Newcomer(q)
    BY <1>4 DEF Newcomer, Locking, Claiming
  <1>10. OneNewcomer' /\ NewcomersInviter'
    BY <1>0, <1>4, <1>9 DEF GiftsInv, OneNewcomer, NewcomersInviter
  <1> QED
    BY <1>6, <1>7, <1>8, <1>10 DEF GiftsInv

\* The notice promises a pill only if the reward is there.
LEMMA NotifyKeeps == ASSUME GiftsInv, NEW p \in Workers, Notify(p) PROVE GiftsInv'
  <1> USE DEF Notify, orders, published, users, world
  <1>0. TypeOK /\ job[p].gift \in Gifts
    BY JobTypes DEF GiftsInv
  <1>1. job' \in [Workers -> Job] /\ job'[p] = NoJob /\ \A q \in Workers \ {p} : job'[q] = job[q]
    BY <1>0 DEF TypeOK, Job
  <1>2. TypeOK'
    BY <1>0, <1>1 DEF TypeOK
  <1>3. JobsSound'
    <2>1. \A q \in Workers \ {p} : JobSound(q)'
      BY <1>1, OthersStaySound
    <2> QED
      BY <1>1, <2>1, IdleIsSound DEF JobsSound
  <1>4. HandedOver' /\ GiftsFit'
    BY <1>0 DEF GiftsInv, HandedOver, GiftsFit, TypeOK
  <1>5. \A q \in Workers : Newcomer(q)' => q # p /\ Newcomer(q)
    BY <1>1, IdleIsSound DEF Newcomer, Locking, Claiming
  <1>6. OneNewcomer' /\ NewcomersInviter'
    BY <1>1, <1>5 DEF GiftsInv, OneNewcomer, NewcomersInviter
  <1> QED
    BY <1>2, <1>3, <1>4, <1>6 DEF GiftsInv

\* The callbacks publish tasks for a gift that was handed over.
LEMMA CallbacksKeeps == ASSUME GiftsInv, NEW p \in Workers, Callbacks(p) PROVE GiftsInv'
  <1> USE DEF orders, users, world
  <1>0. /\ TypeOK /\ JobSound(p) /\ job[p].pc = "callbacks" /\ lock' = lock
        /\ UNCHANGED <<orders, notice, reward, users, world>>
    BY DEF GiftsInv, JobsSound, Callbacks
  <1>1. job[p] \in Job \ {NoJob} /\ job[p].done \subseteq Gifts /\ job[p].user \in People
    BY <1>0, JobTypes
  <1>2. PICK g \in job[p].done, lost \in SUBSET {"provision", "notify"} :
            /\ IF g \in job[p].ready THEN Detail(g, {recipient[g]}) ELSE UNCHANGED details
            /\ queue' = [queue EXCEPT ![g] = @ \cup
                   ((IF g \in job[p].ready THEN {"notify"} ELSE {"provision", "notify"}) \ lost)]
            /\ IF job[p].done \ {g} = {} \/ "notify" \in lost
               THEN job' = [job EXCEPT ![p] = NoJob]
               ELSE job' = [job EXCEPT ![p].done = job[p].done \ {g}]
    BY DEF Callbacks
  <1>3. g \in Gifts /\ recipient[g] = job[p].user /\ recipient[g] \in People /\ recipient[g] # Nobody
    BY <1>0, <1>1, Idleness DEF JobSound, KnowsRecipients
  <1> DEFINE j == [job[p] EXCEPT !.done = job[p].done \ {g}]
  <1>4. /\ j \in Job /\ j.kind = job[p].kind /\ j.pc = "callbacks" /\ j.user = job[p].user
        /\ j.todo = job[p].todo /\ j.gift = job[p].gift /\ j.done = job[p].done \ {g}
    <2>1. j \in Job
      BY <1>1, JobEdits
    <2> QED
      BY <1>0, <1>1, <2>1 DEF Job
  <1>5. /\ job' \in [Workers -> Job] /\ job'[p] \in {NoJob, j}
        /\ \A q \in Workers \ {p} : job'[q] = job[q]
    <2>1. NoJob \in Job
      BY DEF Job
    <2>2. job' = [job EXCEPT ![p] = NoJob] \/ job' = [job EXCEPT ![p] = j]
      BY <1>2
    <2>3. job \in [Workers -> Job] /\ j \in Job
      BY <1>0, <1>4 DEF TypeOK
    <2> HIDE DEF j
    <2> QED
      BY <2>1, <2>2, <2>3
  <1> HIDE DEF j
  <1>6. TypeOK'
    <2>1. queue' \in [Gifts -> SUBSET {"provision", "notify"}]
      BY <1>0, <1>2, <1>3 DEF TypeOK
    <2>2. details' \in [Gifts -> SUBSET Users]
      BY SMTT(30), <1>0, <1>2, <1>3 DEF TypeOK, Detail, Users
    <2> QED
      BY <1>0, <1>5, <2>1, <2>2 DEF TypeOK
  <1>7. JobsSound'
    <2>1. \A q \in Workers \ {p} : JobSound(q)'
      BY <1>0, <1>5, OthersStaySound
    <2>2. CASE job'[p] = NoJob
      BY <2>1, <2>2, IdleIsSound DEF JobsSound
    <2>3. CASE job'[p] = j
      <3>1. JobSound(p)'
        BY <1>0, <1>4, <2>3 DEF JobSound, Fits, HoldsVouchers, KnowsRecipients, HoldsOrder, Locking,
           Claiming, Awarding
      <3> QED
        BY <2>1, <3>1 DEF JobsSound
    <2> QED
      BY <1>5, <2>2, <2>3
  <1>8. HandedOver'
    <2>1. \A h \in Gifts : details'[h] \subseteq details[h] \cup {recipient[h]}
      BY <1>0, <1>2, <1>3 DEF TypeOK, Detail
    <2> QED
      BY <1>0, <2>1 DEF GiftsInv, HandedOver
  <1>9. GiftsFit'
    BY <1>0, <1>2, <1>3 DEF GiftsInv, GiftsFit, TypeOK
  <1>10. \A q \in Workers : Newcomer(q)' => q # p /\ Newcomer(q)
    BY <1>4, <1>5, IdleIsSound DEF Newcomer, Locking, Claiming
  <1>11. OneNewcomer' /\ NewcomersInviter'
    BY <1>0, <1>5, <1>10 DEF GiftsInv, OneNewcomer, NewcomersInviter
  <1> QED
    BY <1>6, <1>7, <1>8, <1>9, <1>11 DEF GiftsInv

-----------------------------------------------------------------------------
(* A claim commits *)

\* What the commit of a claim makes of vouchers, gifts and accounts.
LEMMA CommitWrites ==
    ASSUME GiftsInv, NEW p \in Workers, CommitClaim(p), Reserve(p), Transfer(p),
           recipient' = [g \in Gifts |-> IF g \in HandedTo(p) THEN job[p].user ELSE recipient[g]]
    PROVE  /\ voucher' \in [Gifts -> Vouchers]
           /\ account' \in [Gifts -> Accounts]
           /\ recipient' \in [Gifts -> People \cup {Nobody}]
  <1>1. TypeOK /\ job[p].pc = "commit"
    BY DEF GiftsInv, CommitClaim
  <1>2. job[p].user \in People /\ job[p].fresh \in BOOLEAN
    BY <1>1, JobTypes
  <1>3. voucher' \in [Gifts -> Vouchers]
    BY <1>1, <1>2, RowTypes, RowEdits DEF Reserve
  <1>4. \A g \in Gifts : [status |-> IF account[g] = NoAccount THEN "pending" ELSE account[g].status,
                          owner |-> job[p].user] \in Accounts
    BY <1>1, <1>2, RowTypes DEF Accounts, Users
  <1>5. account' \in [Gifts -> Accounts]
    BY <1>1, <1>4, RowTypes DEF Transfer
  <1> QED
    BY <1>1, <1>2, <1>3, <1>5 DEF TypeOK

\* A claim that commits hands over gifts that were nobody's, of vouchers that
\* were nobody's or reserved for this person.
LEMMA CommitClaimKeeps == ASSUME GiftsInv, NEW p \in Workers, CommitClaim(p) PROVE GiftsInv'
  <1> DEFINE u == job[p].user
             H == HandedTo(p)
             S == Reserved(p)
  <1> USE Idleness
  <1>0. /\ TypeOK /\ JobSound(p) /\ Claiming(p) /\ Locking(p) /\ job[p].pc = "commit"
        /\ UNCHANGED <<status, run, published, reward, member, complete, world>>
    BY DEF GiftsInv, JobsSound, CommitClaim, Locking
  <1>1. /\ job[p] \in Job \ {NoJob} /\ job[p].done \subseteq Gifts /\ u \in People /\ u # Nobody
        /\ job[p].ready \subseteq Gifts /\ job[p].fresh \in BOOLEAN
    BY <1>0, JobTypes
  <1>2. \A g \in job[p].done : lock[<<"voucher", g>>] = p /\ voucher[g].claimedBy \in {Nobody, u}
    BY <1>0 DEF JobSound, HoldsVouchers, Passed
  <1>3. /\ H \subseteq S /\ S \subseteq job[p].done /\ S \subseteq Gifts
        /\ \A g \in S : recipient[g] = Nobody
        /\ H # {} => u \in complete /\ H = S
    BY <1>1 DEF HandedTo, Reserved
  <1>4. CASE Finish(p) /\ UNCHANGED <<voucher, recipient, account, referrer>>
    <2>1. NoWrite
      BY <1>0, <1>4 DEF NoWrite, orders, users
    <2> QED
      BY <1>4, <2>1, FinishKeeps
  <1>5. CASE /\ Reserve(p)
             /\ recipient' = [g \in Gifts |-> IF g \in H THEN u ELSE recipient[g]]
             /\ Attribute(p)
             /\ Transfer(p)
             /\ Release(p)
             /\ job' = [job EXCEPT ![p] =
                          IF H = {} THEN NoJob
                          ELSE [@ EXCEPT !.pc = "callbacks", !.done = H,
                                         !.ready = {g \in H : account[g].status = "active"}]]
    <2> DEFINE new == {g \in H : voucher'[g].fresh}
               j == [job[p] EXCEPT !.pc = "callbacks", !.done = H,
                                   !.ready = {g \in H : account[g].status = "active"}]
    <2>1. /\ voucher' \in [Gifts -> Vouchers] /\ account' \in [Gifts -> Accounts]
          /\ recipient' \in [Gifts -> People \cup {Nobody}]
      BY <1>5, CommitWrites
    \* vouchers
    <2>2. \A g \in Gifts : /\ voucher[g].claimedBy # Nobody => voucher'[g] = voucher[g]
                           /\ g \notin job[p].done => voucher'[g] = voucher[g]
      BY <1>3, <1>5 DEF Reserve
    <2>3. \A g \in Gifts : voucher[g].fresh => /\ voucher[g].claimedBy # Nobody
                                               /\ voucher[g].claimedBy \in member \cap People
                                               /\ voucher'[g] = voucher[g]
      BY <2>2 DEF GiftsInv, OneNewcomer
    <2>4. \A g \in S : voucher'[g].claimedBy = u
      <3> TAKE g \in S
      <3>1. CASE voucher[g].claimedBy = Nobody
        <4>1. voucher'[g] = [voucher[g] EXCEPT !.claimedBy = u, !.fresh = job[p].fresh]
          BY <1>3, <1>5, <3>1 DEF Reserve
        <4>2. voucher[g] \in Vouchers
          BY <1>0, <1>3, RowTypes
        <4> QED
          BY <4>1, <4>2 DEF Vouchers
      <3>2. CASE voucher[g].claimedBy # Nobody
        BY <1>2, <1>3, <2>2, <3>2
      <3> QED
        BY <3>1, <3>2
    <2>5. \A g \in Gifts : voucher'[g].fresh /\ ~voucher[g].fresh =>
              /\ g \in S /\ voucher'[g].claimedBy = u /\ Newcomer(p)
              /\ job[p].kind = "claim" /\ job[p].done \subseteq {job[p].gift}
              /\ u \in member /\ referrer[u] = Nobody
              /\ \A h \in Gifts : voucher[h].fresh => voucher[h].claimedBy # u
      <3> TAKE g \in Gifts
      <3> HAVE voucher'[g].fresh /\ ~voucher[g].fresh
      <3>1. g \in S /\ voucher[g].claimedBy = Nobody
        BY <1>5 DEF Reserve
      <3>2. voucher'[g] = [voucher[g] EXCEPT !.claimedBy = u, !.fresh = job[p].fresh]
        BY <1>3, <1>5, <3>1 DEF Reserve
      <3>3. voucher[g] \in Vouchers
        BY <1>0, <1>3, RowTypes
      <3>4. job[p].fresh
        BY <3>2, <3>3 DEF Vouchers
      <3>5. Newcomer(p)
        BY <1>0, <3>4 DEF Newcomer
      <3>6. job[p].kind = "claim" /\ u \in member
            /\ \A h \in Gifts : voucher[h].fresh => voucher[h].claimedBy # u
        BY <3>5 DEF GiftsInv, OneNewcomer
      <3>7. referrer[u] = Nobody
        BY <3>5 DEF GiftsInv, NewcomersInviter
      <3>8. job[p].done \subseteq {job[p].gift}
        BY <1>0, <3>6 DEF JobSound, Fits
      <3> QED
        BY <2>4, <3>1, <3>5, <3>6, <3>7, <3>8
    <2>6. \A g, h \in Gifts : /\ voucher'[g].fresh /\ voucher'[h].fresh
                              /\ voucher'[g].claimedBy = voucher'[h].claimedBy
                              => g = h
      <3> TAKE g, h \in Gifts
      <3> HAVE voucher'[g].fresh /\ voucher'[h].fresh /\ voucher'[g].claimedBy = voucher'[h].claimedBy
      <3>1. CASE voucher[g].fresh /\ voucher[h].fresh
        BY <2>3, <3>1 DEF GiftsInv, OneNewcomer
      <3>2. CASE ~voucher[g].fresh /\ ~voucher[h].fresh
        BY <1>3, <2>5, <3>2
      <3>3. CASE voucher[g].fresh /\ ~voucher[h].fresh
        <4>1. voucher'[h].claimedBy = u /\ voucher[g].claimedBy # u
          BY <2>5, <3>3
        <4> QED
          BY <2>3, <3>3, <4>1
      <3>4. CASE ~voucher[g].fresh /\ voucher[h].fresh
        <4>1. voucher'[g].claimedBy = u /\ voucher[h].claimedBy # u
          BY <2>5, <3>4
        <4> QED
          BY <2>3, <3>4, <4>1
      <3> QED
        BY <3>1, <3>2, <3>3, <3>4
    \* inviters
    <2>7. \A g \in new : g \in Gifts /\ voucher'[g].claimedBy = u /\ referrer[u] = Nobody
      <3> TAKE g \in new
      <3>1. g \in S /\ g \in Gifts /\ recipient[g] = Nobody /\ voucher'[g].claimedBy = u
        BY <1>3, <2>4
      <3>2. CASE voucher[g].fresh
        BY <2>3, <3>1, <3>2 DEF GiftsInv, NewcomersInviter
      <3>3. CASE ~voucher[g].fresh
        BY <2>5, <3>1, <3>3
      <3> QED
        BY <3>1, <3>2, <3>3
    <2>8. \A g \in new : referrer' = [referrer EXCEPT ![u] = Buyer[g]]
      <3> TAKE g \in new
      <3>1. \A h \in new : h = g
        BY <2>6, <2>7
      <3>2. (CHOOSE h \in new : TRUE) = g
        BY <3>1
      <3> QED
        BY <1>5, <2>7, <3>2 DEF Attribute
    <2>9. new = {} => referrer' = referrer
      BY <1>5 DEF Attribute
    <2>10. referrer' \in [People -> Buyers \cup {Nobody}]
      <3>1. referrer \in [People -> Buyers \cup {Nobody}]
        BY <1>0 DEF TypeOK
      <3>2. \A g \in new : Buyer[g] \in Buyers
        BY <2>7 DEF Buyers
      <3> HIDE DEF new
      <3> QED
        BY <2>8, <2>9, <3>1, <3>2
    <2>11. /\ \A w \in People : w # u => referrer'[w] = referrer[w]
           /\ \A g \in new : referrer'[u] = Buyer[g]
      <3>1. referrer \in [People -> Buyers \cup {Nobody}]
        BY <1>0 DEF TypeOK
      <3> HIDE DEF new
      <3> QED
        BY <1>1, <2>8, <2>9, <3>1
    \* the job
    <2>12. job' \in [Workers -> Job] /\ (\A q \in Workers \ {p} : job'[q] = job[q])
           /\ (H = {} => job'[p] = NoJob) /\ (H # {} => j \in Job /\ job'[p] = j)
      <3>1. NoJob \in Job
        BY DEF Job
      <3>2. j \in Job
        <4>1. H \in SUBSET Gifts /\ {g \in H : account[g].status = "active"} \in SUBSET Gifts
          BY <1>3
        <4> HIDE DEF H
        <4> QED
          BY <1>1, <4>1, JobEdits
      <3>3. job \in [Workers -> Job]
        BY <1>0 DEF TypeOK
      <3>4. job' = [job EXCEPT ![p] = IF H = {} THEN NoJob ELSE j]
        BY <1>5
      <3> HIDE DEF j, H
      <3> QED
        BY <3>1, <3>2, <3>3, <3>4
    <2>13. JobSound(p)' /\ ~Newcomer(p)'
      <3>1. CASE H = {}
        BY <2>12, <3>1, IdleIsSound
      <3>2. CASE H # {}
        <4>1. /\ j.kind = job[p].kind /\ j.pc = "callbacks" /\ j.user = u /\ j.todo = job[p].todo
              /\ j.gift = job[p].gift /\ j.done = H
          <5> HIDE DEF H
          <5> QED
            BY <1>1, <2>12, <3>2 DEF Job
        <4>2. job'[p] = j
          BY <2>12, <3>2
        <4>3. \A g \in H : recipient'[g] = u
          BY <1>3, <1>5
        <4>4. Fits(p)'
          BY <1>0, <1>3, <4>1, <4>2 DEF JobSound, Fits, Claiming
        <4> QED
          BY <1>0, <4>1, <4>2, <4>3, <4>4 DEF JobSound, HoldsVouchers, KnowsRecipients, HoldsOrder,
             Locking, Claiming, Awarding, Newcomer
      <3> QED
        BY <3>1, <3>2
    <2>14. /\ lock' \in [Locks -> Workers \cup {Nobody}]
           /\ \A x \in Locks : lock[x] \notin {Nobody, p} => lock'[x] = lock[x]
      BY <1>0, <1>5, ReleaseFrees
    <2>15. JobsSound'
      <3>1. \A g \in Gifts : /\ lock[<<"voucher", g>>] # p => voucher'[g] = voucher[g]
                             /\ lock[<<"order", g>>] # p => reward'[g] = reward[g]
                             /\ voucher[g].fresh => voucher'[g].fresh
                             /\ recipient[g] # Nobody => recipient'[g] = recipient[g]
        BY <1>0, <1>2, <1>3, <1>5, <2>2, <2>3
      <3>2. \A q \in Workers \ {p} : JobSound(q)'
        BY <2>12, <2>14, <3>1, OthersStaySound
      <3> QED
        BY <2>13, <3>2 DEF JobsSound
    \* rows
    <2>16. TypeOK'
      BY <1>0, <2>1, <2>10, <2>12, <2>14 DEF TypeOK, Vouchers, Accounts, published, world
    <2>17. \A g \in H : account'[g].status # "none" /\ account'[g].owner = u
      BY <1>0, <1>3, <1>5 DEF Transfer, GiftsInv, GiftsFit
    <2>18. \A g \in Gifts \ H : account'[g] = account[g] /\ recipient'[g] = recipient[g]
      BY <1>5 DEF Transfer
    <2>19. \A g \in H : recipient'[g] = u /\ recipient[g] = Nobody
      BY <1>3, <1>5
    <2>20. HandedOver'
      <3>1. ASSUME NEW g \in H
            PROVE  /\ voucher'[g].claimedBy = u /\ account'[g].status # "none"
                   /\ account'[g].owner = u /\ u \in complete /\ details[g] \subseteq {Buyer[g], u}
        <4>1. details[g] \subseteq {Buyer[g], Nobody} /\ details[g] \subseteq Users /\ Nobody \notin Users
          BY <1>0, <1>3, <2>19, GiftsAssumption DEF GiftsInv, HandedOver, TypeOK
        <4> QED
          BY <1>3, <2>4, <2>17, <4>1
      <3>2. ASSUME NEW g \in Gifts \ H, recipient[g] # Nobody
            PROVE  voucher'[g] = voucher[g]
        BY <2>2, <3>2 DEF GiftsInv, HandedOver
      <3>3. details' = details /\ complete' = complete
        BY <1>0 DEF published
      <3> QED
        BY <2>18, <2>19, <3>1, <3>2, <3>3 DEF GiftsInv, HandedOver
    <2>21. GiftsFit'
      <3>1. \A g \in Gifts : account'[g].status = "none" => account'[g] = NoAccount
        BY <2>17, <2>18 DEF GiftsInv, GiftsFit
      <3>2. \A g \in Gifts : recipient[g] # Nobody => recipient'[g] = recipient[g]
        BY <2>18, <2>19
      <3>3. UNCHANGED <<run, queue, reward, notice>>
        BY <1>0 DEF published
      <3> QED
        BY <2>3, <3>1, <3>2, <3>3 DEF GiftsInv, GiftsFit
    <2>22. \A q \in Workers : Newcomer(q)' => q # p /\ Newcomer(q) /\ job'[q] = job[q]
      BY <2>12, <2>13 DEF Newcomer, Locking, Claiming
    <2>23. OneNewcomer'
      <3>1. \A g \in Gifts : voucher'[g].fresh => voucher'[g].claimedBy \in member \cap People
        BY <1>1, <2>3, <2>5
      <3>2. \A q \in Workers : Newcomer(q)' =>
              \A g \in Gifts : voucher'[g].fresh => voucher'[g].claimedBy # job[q].user
        <4>1. SUFFICES ASSUME NEW q \in Workers, Newcomer(q), q # p, NEW g \in Gifts, voucher'[g].fresh
                       PROVE  voucher'[g].claimedBy # job[q].user
          BY <2>22
        <4>2. CASE voucher[g].fresh
          BY <2>3, <4>1, <4>2 DEF GiftsInv, OneNewcomer
        <4>3. CASE ~voucher[g].fresh
          BY <2>5, <4>1, <4>3 DEF GiftsInv, OneNewcomer
        <4> QED
          BY <4>2, <4>3
      <3>3. \A q \in Workers : Newcomer(q)' => job'[q].kind = "claim" /\ job'[q].user \in member
        BY <2>22 DEF GiftsInv, OneNewcomer
      <3>4. \A q, r \in Workers : Newcomer(q)' /\ Newcomer(r)' /\ job'[q].user = job'[r].user => q = r
        BY <2>22 DEF GiftsInv, OneNewcomer
      <3> QED
        BY <1>0, <2>6, <2>22, <3>1, <3>2, <3>3, <3>4 DEF OneNewcomer
    <2>24. NewcomersInviter'
      <3>1. \A w \in People \ member : referrer'[w] = Nobody
        <4>1. new # {} => u \in member
          BY <2>7, <2>23, <1>0 DEF OneNewcomer
        <4> HIDE DEF new
        <4> QED
          BY <2>9, <2>11, <4>1 DEF GiftsInv, NewcomersInviter
      <3>2. \A q \in Workers : Newcomer(q)' => referrer'[job'[q].user] = Nobody
        <4>1. SUFFICES ASSUME NEW q \in Workers, Newcomer(q)', Newcomer(q), job'[q] = job[q]
                       PROVE  referrer'[job[q].user] = Nobody
          BY <2>22
        <4>2. referrer[job[q].user] = Nobody
          BY <4>1 DEF GiftsInv, NewcomersInviter
        <4>3. job[q].user \in People
          BY <1>0, <4>1, JobTypes DEF Newcomer, Locking, TypeOK, Job
        <4>4. new # {} => job[q].user # u
          BY <2>7, <2>23, <4>1 DEF OneNewcomer
        <4> HIDE DEF new
        <4> QED
          BY <2>9, <2>11, <4>2, <4>3, <4>4
      <3>3. ASSUME NEW g \in Gifts, voucher'[g].fresh
            PROVE  referrer'[voucher'[g].claimedBy] =
                      IF recipient'[g] = Nobody THEN Nobody ELSE Buyer[g]
        <4>1. CASE g \in H
          BY <1>1, <1>3, <2>4, <2>11, <2>19, <3>3, <4>1
        <4>2. CASE g \notin H /\ new # {}
          <5>1. voucher'[g].claimedBy # u
            BY <2>6, <2>7, <3>3, <4>2
          <5>2. voucher[g].fresh
            BY <2>5, <3>3, <5>1
          <5> QED
            BY <2>3, <2>11, <2>18, <4>2, <5>1, <5>2 DEF GiftsInv, NewcomersInviter
        <4>3. CASE g \notin H /\ new = {}
          <5>1. referrer' = referrer /\ recipient'[g] = recipient[g]
            BY <2>9, <2>18, <4>3
          <5>2. CASE voucher[g].fresh
            BY <2>3, <5>1, <5>2 DEF GiftsInv, NewcomersInviter
          <5>3. CASE ~voucher[g].fresh
            BY <1>3, <2>5, <3>3, <5>1, <5>3
          <5> QED
            BY <5>2, <5>3
        <4> QED
          BY <4>1, <4>2, <4>3
      <3> QED
        BY <1>0, <3>1, <3>2, <3>3 DEF NewcomersInviter
    <2> QED
      BY <2>15, <2>16, <2>20, <2>21, <2>23, <2>24 DEF GiftsInv
  <1> QED
    BY <1>4, <1>5 DEF CommitClaim

-----------------------------------------------------------------------------
(* The invariant holds *)

\* A rolled back transaction writes nothing.
LEMMA RollbackKeeps ==
    ASSUME GiftsInv, NEW p \in Workers, Abort(p) \/ Die(p)
    PROVE  GiftsInv'
  BY FinishKeeps DEF Abort, Die

\* Each step of a transaction keeps the invariant.
LEMMA StepKeeps == ASSUME GiftsInv, NEW p \in Workers, Step(p) PROVE GiftsInv'
  BY LockVoucherKeeps, LockOrderKeeps, LockUserKeeps, CommitClaimKeeps, CallbacksKeeps,
     AwardOrderKeeps, AwardUserKeeps, NotifyKeeps, RollbackKeeps DEF Step, Claim, Award

\* So does what customers do.
LEMMA CustomersKeep == ASSUME GiftsInv, Customers PROVE GiftsInv'
  BY StartKeeps, BeginCompleteKeeps, CompleteProfileKeeps, JoinInvitedKeeps DEF Customers

\* So does a worker that takes a task.
LEMMA TasksKeep == ASSUME GiftsInv, NEW p \in Workers, TakeTask(p) PROVE GiftsInv'
  BY TakeNotifyKeeps, TakeRewardKeeps DEF TakeTask

\* So does what happens to one order.
LEMMA OrdersKeep ==
    ASSUME GiftsInv, NEW g \in Gifts, Payments(g) \/ Provision(g) \/ RecoverNotice(g)
    PROVE  GiftsInv'
  BY ConfirmKeeps, IssueKeeps, OpenAccountKeeps, RefundKeeps, ExpireKeeps, BeginRunKeeps,
     ActivateAccountKeeps, CompleteOrderKeeps, FailRunKeeps, RecoverNoticeKeeps
  DEF Payments, Provision

\* So does a step that changes nothing.
LEMMA StutterKeepsGiftsInv == ASSUME GiftsInv, UNCHANGED vars PROVE GiftsInv'
  <1> USE DEF vars, orders, published, users, world
  <1>1. TypeOK' /\ HandedOver' /\ GiftsFit'
    BY DEF GiftsInv, TypeOK, HandedOver, GiftsFit
  <1>2. JobsSound' /\ OneNewcomer' /\ NewcomersInviter'
    BY DEF GiftsInv, JobsSound, JobSound, Fits, HoldsVouchers, KnowsRecipients, HoldsOrder,
           OneNewcomer, NewcomersInviter, Claiming, Locking, Awarding, Newcomer, Passed
  <1> QED
    BY <1>1, <1>2 DEF GiftsInv

\* The invariant is inductive.
LEMMA NextPreservesGiftsInv == GiftsInv /\ [Next]_vars => GiftsInv'
  BY StutterKeepsGiftsInv, CustomersKeep, SetProviderKeeps, OrdersKeep, StepKeeps, TasksKeep,
     RollbackKeeps DEF Next

\* Every reachable state satisfies the inductive invariant.
THEOREM GiftsInvariant == Spec => []GiftsInv
  BY InitEstablishesGiftsInv, NextPreservesGiftsInv, PTL DEF Spec

\* The types of the columns, for any number of gifts, people and workers.
THEOREM TypeCorrect == Spec => []TypeOK
  <1>1. GiftsInv => TypeOK
    BY DEF GiftsInv
  <1> QED
    BY <1>1, GiftsInvariant, PTL

\* A gift that was handed over belongs to one person on the voucher, the order
\* and the account, and its details reached this person and the buyer only,
\* whichever claims, completions and provisioning runs overlapped
\* (claim_gift and notify_gift_transfer).
THEOREM OnePerson == Spec => []HandedOver
  <1>1. GiftsInv => HandedOver
    BY DEF GiftsInv
  <1> QED
    BY <1>1, GiftsInvariant, PTL

\* The invariant gives a person one rewarded gift and a promised pill a reward.
LEMMA RewardsAreEarned == GiftsInv => OneInvitation
  <1> SUFFICES ASSUME GiftsInv, NEW g \in Gifts
               PROVE  /\ reward[g] => /\ voucher[g].fresh
                                      /\ referrer[recipient[g]] = Buyer[g]
                                      /\ \A h \in Gifts \ {g} : reward[h] => recipient[h] # recipient[g]
                      /\ notice[g] = "pill" => reward[g]
    BY DEF OneInvitation
  <1>1. \A h \in Gifts : reward[h] => /\ recipient[h] # Nobody /\ voucher[h].fresh
                                      /\ voucher[h].claimedBy = recipient[h]
    BY DEF GiftsInv, GiftsFit, HandedOver
  <1>2. reward[g] => referrer[recipient[g]] = Buyer[g]
    BY <1>1 DEF GiftsInv, NewcomersInviter
  <1>3. ASSUME NEW h \in Gifts, reward[g], reward[h], recipient[h] = recipient[g]
        PROVE  h = g
    BY <1>1, <1>3 DEF GiftsInv, OneNewcomer
  <1> QED
    BY <1>1, <1>2, <1>3 DEF GiftsInv, GiftsFit

\* For any number of gifts, claims and transactions that die or repeat, whoever
\* was rewarded for a gift is the inviter of its recipient, and nobody else was
\* rewarded for this person (claim_gift, award_level_one_referral_for_payment).
THEOREM OneGiftPerPerson == Spec => []OneInvitation
  BY GiftsInvariant, RewardsAreEarned, PTL

-----------------------------------------------------------------------------
(* Nothing is taken back *)

\* What a step leaves to the person who has it.
Kept(g) ==
    /\ voucher[g].claimedBy # Nobody => voucher'[g].claimedBy = voucher[g].claimedBy
    /\ recipient[g] # Nobody => recipient'[g] = recipient[g]
                                /\ account'[g].owner = account[g].owner

\* Most steps touch neither voucher, order nor account; three edit other
\* columns of them, or create a missing account.
LEMMA OrdersKept ==
    ASSUME GiftsInv, NEW h \in Gifts, Payments(h) \/ Provision(h) \/ RecoverNotice(h), NEW g \in Gifts
    PROVE  Kept(g)
  <1>1. /\ voucher \in [Gifts -> Vouchers] /\ account \in [Gifts -> Accounts]
        /\ recipient[g] # Nobody => account[g].status # "none"
    BY RowTypes DEF GiftsInv, HandedOver
  <1>2. \A v \in Vouchers : /\ [v EXCEPT !.issued = TRUE].claimedBy = v.claimedBy
                            /\ [v EXCEPT !.expired = TRUE].claimedBy = v.claimedBy
    BY DEF Vouchers
  <1>3. \A a \in Accounts : [a EXCEPT !.status = "active"].owner = a.owner
    BY DEF Accounts
  <1>4. CASE Issue(h) \/ Expire(h)
    BY <1>1, <1>2, <1>4 DEF Issue, Expire, Kept
  <1>5. CASE OpenAccount(h)
    BY <1>1, <1>5 DEF OpenAccount, Kept, NoAccount
  <1>6. CASE ActivateAccount(h)
    BY <1>1, <1>3, <1>6 DEF ActivateAccount, Kept
  <1>7. CASE Confirm(h) \/ Refund(h) \/ BeginRun(h) \/ CompleteOrder(h) \/ FailRun(h) \/ RecoverNotice(h)
    BY <1>7 DEF Confirm, Refund, BeginRun, CompleteOrder, FailRun, RecoverNotice, orders, Kept
  <1> QED
    BY <1>4, <1>5, <1>6, <1>7 DEF Payments, Provision

\* A claim writes vouchers that were nobody's and gifts nobody had.
LEMMA ClaimKept ==
    ASSUME GiftsInv, NEW p \in Workers, CommitClaim(p), NEW g \in Gifts
    PROVE  Kept(g)
  <1>1. CASE UNCHANGED <<voucher, recipient, account>>
    BY <1>1 DEF Kept
  <1>2. CASE /\ Reserve(p) /\ Transfer(p)
             /\ recipient' = [h \in Gifts |-> IF h \in HandedTo(p) THEN job[p].user ELSE recipient[h]]
    <2>1. recipient[g] # Nobody => g \notin HandedTo(p)
      BY DEF HandedTo, Reserved
    <2> QED
      BY <1>2, <2>1 DEF Reserve, Transfer, Kept
  <1> QED
    BY <1>1, <1>2 DEF CommitClaim

\* No step reassigns a gift.
LEMMA StepsKept == GiftsInv /\ [Next]_vars => \A g \in Gifts : Kept(g)
  <1> SUFFICES ASSUME GiftsInv, [Next]_vars, NEW g \in Gifts PROVE Kept(g)
    OBVIOUS
  <1>1. CASE UNCHANGED orders
    BY <1>1 DEF orders, Kept
  <1>2. CASE Customers \/ SetProvider \/ UNCHANGED vars
    BY <1>1, <1>2 DEF Customers, Start, BeginComplete, CompleteProfile, JoinInvited, SetProvider,
       NoWrite, vars
  <1>3. ASSUME NEW p \in Workers, TakeTask(p) \/ Die(p) \/ Abort(p) \/ Award(p)
        PROVE  Kept(g)
    BY <1>1, <1>3 DEF TakeTask, TakeNotify, TakeReward, Die, Abort, Award, AwardOrder, AwardUser,
       Notify, NoWrite
  <1>4. ASSUME NEW p \in Workers, Claim(p)
        PROVE  Kept(g)
    BY <1>1, <1>4, ClaimKept DEF Claim, LockVoucher, LockOrder, LockUser, Callbacks, NoWrite
  <1> QED
    BY <1>2, <1>3, <1>4, OrdersKept DEF Next, Step

\* A voucher is never reserved for a second person and a gift never taken back:
\* no step does, whatever links are followed later (claim_gift).
THEOREM NothingIsReassigned == Spec => NeverReassigned
  <1>1. GiftsInv /\ [Next]_vars =>
          [\A g \in Gifts :
              /\ voucher[g].claimedBy # Nobody => voucher'[g].claimedBy = voucher[g].claimedBy
              /\ recipient[g] # Nobody => recipient'[g] = recipient[g]
                                          /\ account'[g].owner = account[g].owner]_vars
    BY StepsKept DEF Kept
  <1> QED
    BY <1>1, GiftsInvariant, PTL DEF Spec, NeverReassigned
=============================================================================
