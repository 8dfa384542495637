--------------------------------- MODULE Gifts ---------------------------------
(***************************************************************************)
(* Paid gifts: the voucher a confirmed gift order issues, the claim of its  *)
(* link by another person, the handover once that person's profile is       *)
(* complete, the account details and the transfer notice                    *)
(* (orders/checkout_links.py, orders/gift_delivery.py, and the gift parts   *)
(* of the payment signal, of provisioning and of the referral tasks).       *)
(*                                                                          *)
(* A claim, a completion and an award are transactions that take row locks  *)
(* one by one: claim_gift locks voucher, order and user, and                *)
(* complete_claimed_gifts runs it for several vouchers in one transaction,  *)
(* so it holds the user while it waits for the next voucher.  What is       *)
(* published on commit happens afterwards, in the same process, and is lost *)
(* with it.                                                                 *)
(*                                                                          *)
(* The row lock of the subscription is held for the end of a claim and for  *)
(* one short transaction of the provisioning only, so both are one step.    *)
(***************************************************************************)
EXTENDS Integers, FiniteSets

CONSTANTS
    Gifts,      \* gift orders of one brand, with their vouchers
    People,     \* users who follow gift links
    Buyer,      \* Buyer[g]: Order.user of gift g, a person or somebody else
    Workers,    \* processes: bot handlers and Celery workers
    Scenarios,  \* first situations: stage[g], how far order g has come ("unpaid",
                \* with an account that is "ready", or "void"), and who will
                \* follow links (visitors)
    Strangers,  \* people who are not members at first
    MaxTroubles,\* bound on refunds, expiries, failed runs and provider changes
    Nobody      \* no user, and the holder of a free lock

Buyers == {Buyer[g] : g \in Gifts}

Users == People \cup Buyers

ASSUME GiftsAssumption ==
    /\ Nobody \notin Users \cup Workers
    /\ Strangers \subseteq People
    /\ MaxTroubles \in Nat
    /\ Scenarios \subseteq [stage : [Gifts -> {"unpaid", "ready", "void"}],
                            visitors : SUBSET People]

VARIABLES
    status,     \* status[g]: Order.status
    voucher,    \* voucher[g]: the GiftVoucher row
    recipient,  \* recipient[g]: Order.recipient
    account,    \* account[g]: Subscription: status and owner
    run,        \* run[g]: provision_paid_order: its phase and the recipient it read
    queue,      \* queue[g]: tasks published for the gift and not yet taken
    details,    \* details[g]: users whose account details were queued
    reward,     \* reward[g]: the buyer's ReferralReward exists
    notice,     \* notice[g]: the transfer notice: "no", or what it says of a pill
    member,     \* users of the brand
    complete,   \* users whose initial profile is complete
    referrer,   \* referrer[u]: who invited u, or Nobody
    provider,   \* the brand has an active provider
    visitors,   \* people who follow links; never changes
    troubles,   \* how many of MaxTroubles happened
    lock,       \* lock[x]: the process that holds row lock x
    job         \* job[p]: the operation process p is in

orders == <<status, voucher, recipient, account, run>>
published == <<queue, details, notice>>
users == <<member, complete, referrer>>
world == <<provider, visitors, troubles>>
vars == <<orders, published, reward, users, world, lock, job>>

Paid == {"paid", "completed"}

OrderStatus == Paid \cup {"unpaid", "refunded"}

NoVoucher == [issued |-> FALSE, expired |-> FALSE, claimedBy |-> Nobody, fresh |-> FALSE]

NoAccount == [status |-> "none", owner |-> Nobody]

NoRun == [pc |-> "idle", recipient |-> Nobody]

Locks == {<<"voucher", g>> : g \in Gifts} \cup {<<"order", g>> : g \in Gifts}
            \cup {<<"user", u>> : u \in People}

NoJob == [kind |-> "idle", user |-> Nobody, gift |-> Nobody, fresh |-> FALSE,
          todo |-> {}, done |-> {}, ready |-> {}, pc |-> "idle"]

\* todo: vouchers still to claim; done: vouchers claimed, then gifts whose
\* on_commit callbacks are due; ready: the gifts among them found active.
Job == {NoJob} \cup
       [kind : {"claim", "complete", "notify", "award"}, user : People,
        gift : Gifts, fresh : BOOLEAN, todo : SUBSET Gifts,
        done : SUBSET Gifts, ready : SUBSET Gifts,
        pc : {"voucher", "order", "user", "commit", "callbacks", "notice"}]

-----------------------------------------------------------------------------
(* Helpers *)

Free(x) == lock[x] = Nobody

Take(p, x) == lock' = [lock EXCEPT ![x] = p]

\* The transaction of p ends, with or without its writes.
Release(p) == lock' = [x \in DOMAIN lock |-> IF lock[x] = p THEN Nobody ELSE lock[x]]

Finish(p) == Release(p) /\ job' = [job EXCEPT ![p] = NoJob]

Advance(p, pc) == job' = [job EXCEPT ![p].pc = pc]

\* Nothing but locks and jobs changes.
NoWrite == UNCHANGED <<orders, published, reward, users, world>>

Trouble == troubles < MaxTroubles /\ troubles' = troubles + 1

\* queue_ready_gift_details for a user, once per voucher and user.
Detail(g, us) == details' = [details EXCEPT ![g] = @ \cup (us \ {Nobody})]

-----------------------------------------------------------------------------
InitOf(stage) ==
    /\ status = [g \in Gifts |-> CASE stage[g] = "unpaid" -> "unpaid"
                                    [] stage[g] = "ready" -> "completed"
                                    [] stage[g] = "void" -> "refunded"]
    /\ voucher = [g \in Gifts |-> [NoVoucher EXCEPT !.issued = stage[g] = "ready"]]
    /\ account = [g \in Gifts |-> IF stage[g] = "ready"
                                  THEN [status |-> "active", owner |-> Buyer[g]] ELSE NoAccount]
    /\ details = [g \in Gifts |-> IF stage[g] = "ready" THEN {Buyer[g]} ELSE {}]

Init ==
    /\ \E s \in Scenarios : InitOf(s.stage) /\ visitors = s.visitors
    /\ recipient = [g \in Gifts |-> Nobody]
    /\ run = [g \in Gifts |-> NoRun]
    /\ queue = [g \in Gifts |-> {}]
    /\ reward = [g \in Gifts |-> FALSE]
    /\ notice = [g \in Gifts |-> "no"]
    /\ member = Users \ Strangers
    /\ complete = Buyers
    /\ referrer = [u \in People |-> Nobody]
    /\ provider = TRUE
    /\ troubles = 0
    /\ lock = [x \in Locks |-> Nobody]
    /\ job = [p \in Workers |-> NoJob]

(* The order is paid: the gift branch of payment_post_save, statement by      *)
(* statement, since nothing encloses it in a transaction                      *)

Confirm(g) ==
    /\ status[g] = "unpaid"
    /\ status' = [status EXCEPT ![g] = "paid"]
    /\ UNCHANGED <<voucher, recipient, account, run, published, reward, users,
                   world, lock, job>>

\* issue_paid_gift, called by the signal and again when the buyer opens the
\* order in the bot.
Issue(g) ==
    /\ status[g] \in Paid /\ recipient[g] = Nobody
    /\ ~voucher[g].issued
    /\ voucher' = [voucher EXCEPT ![g].issued = TRUE]
    /\ UNCHANGED <<status, recipient, account, run, published, reward, users,
                   world, lock, job>>

\* Mutant of OpenAccount: the subscription is updated, not only created.
OpenAccountAnew(g) ==
    /\ status[g] \in Paid /\ voucher[g].issued /\ provider
    /\ account[g].status # "active"
    /\ account' = [account EXCEPT ![g] = [status |-> "pending", owner |-> Buyer[g]]]
    /\ queue' = [queue EXCEPT ![g] = @ \cup {"provision"}]
    /\ UNCHANGED <<status, voucher, recipient, run, details, notice, reward,
                   users, world, lock, job>>

\* The subscription, owned by the buyer unless a claim created it before, and
\* the task that provisions it.
OpenAccount(g) ==
    /\ status[g] \in Paid /\ voucher[g].issued /\ provider
    /\ account[g].status # "active"
    /\ account' = [account EXCEPT ![g] =
                     IF @ = NoAccount THEN [status |-> "pending", owner |-> Buyer[g]] ELSE @]
    /\ queue' = [queue EXCEPT ![g] = @ \cup {"provision"}]
    /\ UNCHANGED <<status, voucher, recipient, run, details, notice, reward,
                   users, world, lock, job>>

\* The payment is refunded by hand.
Refund(g) ==
    /\ Trouble
    /\ status[g] \in Paid
    /\ Free(<<"order", g>>)
    /\ status' = [status EXCEPT ![g] = "refunded"]
    /\ UNCHANGED <<voucher, recipient, account, run, published, reward, users,
                   provider, visitors, lock, job>>

\* GiftVoucher.expires_at passes.
Expire(g) ==
    /\ Trouble
    /\ voucher[g].issued /\ ~voucher[g].expired
    /\ voucher' = [voucher EXCEPT ![g].expired = TRUE]
    /\ UNCHANGED <<status, recipient, account, run, published, reward, users,
                   provider, visitors, lock, job>>

SetProvider ==
    /\ Trouble
    /\ provider' = ~provider
    /\ UNCHANGED <<orders, published, reward, users, visitors, lock, job>>

-----------------------------------------------------------------------------
(* provision_paid_order of a gift; its failures are Provisioning's subject *)

\* A task on an order that is completed or refunded does nothing, one beside
\* a run in progress or after a failed one neither, and one that finds the
\* account active queues the details.
BeginRun(g) ==
    /\ "provision" \in queue[g]
    /\ queue' = [queue EXCEPT ![g] = @ \ {"provision"}]
    /\ IF status[g] = "paid" /\ account[g].status = "pending" /\ run[g] = NoRun
       THEN run' = [run EXCEPT ![g] = [pc |-> "leased", recipient |-> recipient[g]]]
       ELSE UNCHANGED run
    /\ IF status[g] = "paid" /\ account[g].status = "active"
       THEN Detail(g, {Buyer[g], recipient[g]})
       ELSE UNCHANGED details
    /\ UNCHANGED <<status, voucher, recipient, account, notice, reward, users,
                   world, lock, job>>

\* The service activates the subscription, then completes the order; both
\* rows are saved by columns, so an owner written meanwhile stays.
ActivateAccount(g) ==
    /\ run[g].pc = "leased"
    /\ account' = [account EXCEPT ![g].status = "active"]
    /\ run' = [run EXCEPT ![g].pc = "activated"]
    /\ UNCHANGED <<status, voucher, recipient, published, reward, users,
                   world, lock, job>>

\* The details go to the buyer and to the recipient the run read at first.
CompleteOrder(g) ==
    /\ run[g].pc = "activated"
    /\ Free(<<"order", g>>)
    /\ status' = [status EXCEPT ![g] = "completed"]
    /\ Detail(g, {Buyer[g], run[g].recipient})
    /\ run' = [run EXCEPT ![g] = [pc |-> "over", recipient |-> Nobody]]
    /\ UNCHANGED <<voucher, recipient, account, queue, notice, reward, users,
                   world, lock, job>>

\* The provider fails: the subscription is held for review.
FailRun(g) ==
    /\ Trouble
    /\ run[g].pc = "leased"
    /\ run' = [run EXCEPT ![g] = [pc |-> "over", recipient |-> Nobody]]
    /\ UNCHANGED <<status, voucher, recipient, account, published, reward,
                   users, provider, visitors, lock, job>>

-----------------------------------------------------------------------------
(* People: the /start handler, registration and the profile *)

\* Mutant of Start: whoever follows a gift link is a new member.
StartAlwaysNew(p, u, g) ==
    /\ job[p] = NoJob
    /\ member' = member \cup {u}
    /\ job' = [job EXCEPT ![p] = [NoJob EXCEPT !.kind = "claim", !.user = u, !.gift = g,
                                      !.fresh = TRUE, !.pc = "voucher"]]
    /\ UNCHANGED <<orders, published, reward, complete, referrer, world, lock>>

\* handle_start_command with a gift link: the user is created by a statement
\* of its own, and `created` is only in the handler's memory.
Start(p, u, g) ==
    /\ job[p] = NoJob
    /\ member' = member \cup {u}
    /\ job' = [job EXCEPT ![p] = [NoJob EXCEPT !.kind = "claim", !.user = u, !.gift = g,
                                      !.fresh = (u \notin member), !.pc = "voucher"]]
    /\ UNCHANGED <<orders, published, reward, complete, referrer, world, lock>>

\* A stranger joins by somebody's ordinary invitation.
JoinInvited(u, inviter) ==
    /\ u \notin member
    /\ member' = member \cup {u}
    /\ referrer' = [referrer EXCEPT ![u] = inviter]
    /\ UNCHANGED <<orders, published, reward, complete, world, lock, job>>

\* The last field of the initial profile is saved.
CompleteProfile(u) ==
    /\ u \in member \ complete
    /\ complete' = complete \cup {u}
    /\ UNCHANGED <<orders, published, reward, member, referrer, world, lock, job>>

\* complete_claimed_gifts, after the profile or the channel gate: the vouchers
\* this user reserved, in any order.
BeginComplete(p, u) ==
    LET held == {g \in Gifts : voucher[g].claimedBy = u /\ recipient[g] = Nobody}
    IN  /\ job[p] = NoJob
        /\ u \in complete
        /\ \E g \in held :
              job' = [job EXCEPT ![p] = [NoJob EXCEPT !.kind = "complete", !.user = u, !.gift = g,
                                             !.todo = held \ {g}, !.pc = "voucher"]]
        /\ NoWrite /\ UNCHANGED lock

-----------------------------------------------------------------------------
(* claim_gift, lock by lock.  A refusal rolls the whole transaction back. *)

Claiming(p) == job[p].kind \in {"claim", "complete"}

\* Mutant of LockVoucher: a voucher reserved by somebody else is not refused.
LockVoucherOpen(p) ==
    LET v == voucher[job[p].gift]
    IN  /\ Claiming(p) /\ job[p].pc = "voucher"
        /\ Free(<<"voucher", job[p].gift>>)
        /\ IF v.issued /\ (v.expired => v.claimedBy # Nobody)
           THEN Take(p, <<"voucher", job[p].gift>>) /\ Advance(p, "order")
           ELSE Finish(p)
        /\ NoWrite

\* Unknown, expired before any claim, or reserved by somebody else.
LockVoucher(p) ==
    LET v == voucher[job[p].gift]
    IN  /\ Claiming(p) /\ job[p].pc = "voucher"
        /\ Free(<<"voucher", job[p].gift>>)
        /\ IF /\ v.issued
              /\ v.expired => v.claimedBy # Nobody
              /\ v.claimedBy \in {Nobody, job[p].user}
           THEN Take(p, <<"voucher", job[p].gift>>) /\ Advance(p, "order")
           ELSE Finish(p)
        /\ NoWrite

\* The order must be paid, and somebody else's.
LockOrder(p) ==
    LET g == job[p].gift
    IN  /\ Claiming(p) /\ job[p].pc = "order"
        /\ Free(<<"order", g>>)
        /\ IF status[g] \in Paid /\ Buyer[g] # job[p].user
           THEN Take(p, <<"order", g>>) /\ Advance(p, "user")
           ELSE Finish(p)
        /\ NoWrite

\* The user, unless this transaction holds the row already; then the next
\* voucher of a completion, in whatever order the query returned them.
LockUser(p) ==
    LET g == job[p].gift
        u == job[p].user
        done == job[p].done \cup {g}
    IN  /\ Claiming(p) /\ job[p].pc = "user"
        /\ lock[<<"user", u>>] \in {Nobody, p}
        /\ \/ /\ recipient[g] \notin {Nobody, u}
              /\ Finish(p)
           \/ /\ recipient[g] \in {Nobody, u}
              /\ Take(p, <<"user", u>>)
              /\ \/ /\ job[p].todo = {}
                    /\ job' = [job EXCEPT ![p].pc = "commit", ![p].done = done]
                 \/ \E h \in job[p].todo :
                       job' = [job EXCEPT ![p].pc = "voucher", ![p].gift = h,
                                          ![p].todo = @ \ {h}, ![p].done = done]
        /\ NoWrite

\* Vouchers of this transaction that nobody owns yet.
Reserved(p) == {g \in job[p].done : recipient[g] = Nobody}

\* Those it hands over: all, if the profile is complete.
HandedTo(p) == IF job[p].user \in complete THEN Reserved(p) ELSE {}

Reserve(p) ==
    voucher' = [g \in Gifts |->
                  IF g \in Reserved(p) /\ voucher[g].claimedBy = Nobody
                  THEN [voucher[g] EXCEPT !.claimedBy = job[p].user, !.fresh = job[p].fresh]
                  ELSE voucher[g]]

\* A member who came by this gift and whom nobody invited is the buyer's
\* referral.
Attribute(p) ==
    LET u == job[p].user
        new == {g \in HandedTo(p) : voucher'[g].fresh}
    IN  referrer' = IF new # {} /\ referrer[u] = Nobody
                    THEN [referrer EXCEPT ![u] = Buyer[CHOOSE g \in new : TRUE]]
                    ELSE referrer

\* The account passes to the recipient; a missing one is created.
Transfer(p) ==
    account' = [g \in Gifts |->
                  IF g \notin HandedTo(p) THEN account[g]
                  ELSE [status |-> IF account[g] = NoAccount THEN "pending" ELSE account[g].status,
                        owner |-> job[p].user]]

\* The claim commits, unless an account is missing and cannot be created:
\* then the reservation is rolled back as well.
CommitClaim(p) ==
    /\ Claiming(p) /\ job[p].pc = "commit"
    /\ \/ /\ ~provider /\ \E g \in HandedTo(p) : account[g] = NoAccount
          /\ Finish(p)
          /\ UNCHANGED <<voucher, recipient, account, referrer>>
       \/ /\ provider \/ \A g \in HandedTo(p) : account[g] # NoAccount
          /\ Reserve(p)
          /\ recipient' = [g \in Gifts |-> IF g \in HandedTo(p) THEN job[p].user ELSE recipient[g]]
          /\ Attribute(p)
          /\ Transfer(p)
          /\ Release(p)
          /\ job' = [job EXCEPT ![p] =
                       IF HandedTo(p) = {} THEN NoJob
                       ELSE [@ EXCEPT !.pc = "callbacks", !.done = HandedTo(p),
                                      !.ready = {g \in HandedTo(p) : account[g].status = "active"}]]
    /\ UNCHANGED <<status, run, published, reward, member, complete, world>>

\* The on_commit callbacks of one gift: details or provisioning (whose
\* publication may fail, which is logged), and the transfer task, whose
\* failed publication ends the callbacks.
Callbacks(p) ==
    /\ job[p].pc = "callbacks"
    /\ \E g \in job[p].done :
        LET left == job[p].done \ {g}
        IN  /\ IF g \in job[p].ready
               THEN Detail(g, {recipient[g]})
               ELSE UNCHANGED details
            /\ \E lost \in SUBSET {"provision", "notify"} :
                /\ queue' = [queue EXCEPT ![g] = @ \cup
                       ((IF g \in job[p].ready THEN {"notify"} ELSE {"provision", "notify"}) \ lost)]
                /\ IF left = {} \/ "notify" \in lost
                   THEN job' = [job EXCEPT ![p] = NoJob]
                   ELSE job' = [job EXCEPT ![p].done = left]
    /\ UNCHANGED <<orders, notice, reward, users, world, lock>>

-----------------------------------------------------------------------------
(* notify_gift_transfer and process_referral_reward *)

\* Only a member who came by this gift brings a reward.
Earns(g) == voucher[g].claimedBy = recipient[g] /\ voucher[g].fresh

\* The transfer task is taken from the queue.
TakeNotify(p, g) ==
    /\ job[p] = NoJob
    /\ "notify" \in queue[g]
    /\ queue' = [queue EXCEPT ![g] = @ \ {"notify"}]
    /\ job' = [job EXCEPT ![p] = [NoJob EXCEPT !.kind = "notify", !.user = recipient[g], !.gift = g,
                                      !.pc = IF Earns(g) THEN "order" ELSE "notice"]]
    /\ UNCHANGED <<orders, details, notice, reward, users, world, lock>>

\* The reward task of the payment, published at the payment and again by
\* recover_pending_referral_rewards.
TakeReward(p, g) ==
    /\ job[p] = NoJob
    /\ recipient[g] # Nobody /\ Earns(g) /\ ~reward[g]
    /\ job' = [job EXCEPT ![p] = [NoJob EXCEPT !.kind = "award", !.user = recipient[g],
                                      !.gift = g, !.pc = "order"]]
    /\ NoWrite /\ UNCHANGED lock

Awarding(p) == job[p].kind \in {"notify", "award"}

\* After the award, refused or not, the transfer task queues its notice.
AfterAward(p) ==
    /\ Release(p)
    /\ job' = [job EXCEPT ![p] = IF @.kind = "notify" THEN [@ EXCEPT !.pc = "notice"] ELSE NoJob]

\* award_level_one_referral_for_payment locks the order.
AwardOrder(p) ==
    LET g == job[p].gift
    IN  /\ Awarding(p) /\ job[p].pc = "order"
        /\ Free(<<"order", g>>)
        /\ IF status[g] \in Paid /\ ~reward[g]
           THEN Take(p, <<"order", g>>) /\ Advance(p, "user")
           ELSE AfterAward(p)
        /\ NoWrite

\* award_claimed_gift locks the recipient and books the point; the buyer's
\* frozen wallet or a missing program refuses it.
AwardUser(p) ==
    LET g == job[p].gift
    IN  /\ Awarding(p) /\ job[p].pc = "user"
        /\ Free(<<"user", job[p].user>>)
        /\ \E granted \in BOOLEAN : reward' = [reward EXCEPT ![g] = granted]
        /\ AfterAward(p)
        /\ UNCHANGED <<orders, published, users, world>>

\* Mutant of Notify: a notice needs a reward.
NotifyRewarded(p) ==
    LET g == job[p].gift
    IN  /\ job[p].pc = "notice"
        /\ notice' = [notice EXCEPT ![g] =
                        IF account[g].owner = recipient[g] /\ reward[g] THEN "pill" ELSE @]
        /\ job' = [job EXCEPT ![p] = NoJob]
        /\ UNCHANGED <<orders, queue, details, reward, users, world, lock>>

\* _queue_gift_transfer_notice: the recipient must own the account; the text
\* tells whether the buyer got a pill, and a later task writes it anew.
Notify(p) ==
    LET g == job[p].gift
    IN  /\ job[p].pc = "notice"
        /\ notice' = [notice EXCEPT ![g] =
                        IF account[g].owner # recipient[g] THEN @
                        ELSE IF reward[g] THEN "pill" ELSE "none"]
        /\ job' = [job EXCEPT ![p] = NoJob]
        /\ UNCHANGED <<orders, queue, details, reward, users, world, lock>>

\* recover_missing_gift_transfer_notices
RecoverNotice(g) ==
    /\ recipient[g] # Nobody /\ notice[g] = "no"
    /\ account[g].owner = recipient[g]
    /\ queue' = [queue EXCEPT ![g] = @ \cup {"notify"}]
    /\ UNCHANGED <<orders, details, notice, reward, users, world, lock, job>>

-----------------------------------------------------------------------------
(* Rollbacks *)

\* The row lock process p waits for.
Wanted(p) ==
    CASE job[p].pc \in {"voucher", "order"} -> {<<job[p].pc, job[p].gift>>}
      [] job[p].pc = "user" -> {<<"user", job[p].user>>}
      [] OTHER -> {}

Holder(p) == {lock[x] : x \in Wanted(p)} \ {Nobody, p}

\* PostgreSQL aborts one of two transactions that wait for each other.
Abort(p) ==
    /\ \E q \in Holder(p) : p \in Holder(q)
    /\ Finish(p)
    /\ NoWrite

\* The process dies, in its transaction or after it.
Die(p) ==
    /\ job[p] # NoJob
    /\ Finish(p)
    /\ NoWrite

-----------------------------------------------------------------------------
Claim(p) ==
    \/ LockVoucher(p)
    \/ LockOrder(p)
    \/ LockUser(p)
    \/ CommitClaim(p)
    \/ Callbacks(p)

Award(p) ==
    \/ AwardOrder(p)
    \/ AwardUser(p)
    \/ Notify(p)

Step(p) == Claim(p) \/ Award(p) \/ Abort(p)

TakeTask(p) == \E g \in Gifts : TakeNotify(p, g) \/ TakeReward(p, g)

Provision(g) ==
    \/ BeginRun(g)
    \/ ActivateAccount(g)
    \/ CompleteOrder(g)
    \/ FailRun(g)

Payments(g) ==
    \/ Confirm(g)
    \/ Issue(g)
    \/ OpenAccount(g)
    \/ Refund(g)
    \/ Expire(g)

Customers ==
    \/ \E p \in Workers, u \in visitors :
          \/ \E g \in Gifts : voucher[g].issued /\ Start(p, u, g)
          \/ BeginComplete(p, u)
    \/ \E u \in visitors : CompleteProfile(u) \/ \E b \in Buyers : JoinInvited(u, b)

Next ==
    \/ Customers
    \/ SetProvider
    \/ \E g \in Gifts : Payments(g) \/ Provision(g) \/ RecoverNotice(g)
    \/ \E p \in Workers : Step(p) \/ TakeTask(p) \/ Die(p)

Spec == Init /\ [][Next]_vars

\* A transaction that is running goes on, waiting tasks are taken and the beat
\* looks for transfers without a notice.  Payments, people, the clock and the
\* provider are never fair, and no worker dies.
SteadySpec ==
    /\ Init
    /\ [][\/ Customers
          \/ \E g \in Gifts : Payments(g) \/ Provision(g) \/ RecoverNotice(g)
          \/ \E p \in Workers : Step(p) \/ TakeTask(p)]_vars
    /\ \A p \in Workers : WF_vars(Step(p))
    /\ \A g \in Gifts : WF_vars(RecoverNotice(g)) /\ SF_vars(\E p \in Workers : TakeNotify(p, g))
-----------------------------------------------------------------------------
(* Properties *)

\* Types of the columns.
TypeOK ==
    /\ status \in [Gifts -> OrderStatus]
    /\ voucher \in [Gifts -> [issued : BOOLEAN, expired : BOOLEAN,
                              claimedBy : People \cup {Nobody}, fresh : BOOLEAN]]
    /\ recipient \in [Gifts -> People \cup {Nobody}]
    /\ account \in [Gifts -> [status : {"none", "pending", "active"}, owner : Users \cup {Nobody}]]
    /\ run \in [Gifts -> [pc : {"idle", "leased", "activated", "over"},
                          recipient : People \cup {Nobody}]]
    /\ queue \in [Gifts -> SUBSET {"provision", "notify"}]
    /\ details \in [Gifts -> SUBSET Users]
    /\ reward \in [Gifts -> BOOLEAN]
    /\ notice \in [Gifts -> {"no", "pill", "none"}]
    /\ member \subseteq Users /\ complete \subseteq Users
    /\ referrer \in [People -> Buyers \cup {Nobody}]
    /\ provider \in BOOLEAN
    /\ visitors \subseteq People
    /\ troubles \in 0..MaxTroubles
    /\ lock \in [Locks -> Workers \cup {Nobody}]
    /\ job \in [Workers -> Job]

\* A gift that was handed over belongs to one person everywhere: the voucher,
\* the order and the account name the same member with a complete profile,
\* and the details reached no other user than this member and the buyer.
HandedOver ==
    \A g \in Gifts :
        /\ recipient[g] # Nobody =>
              /\ voucher[g].claimedBy = recipient[g]
              /\ account[g].status # "none" /\ account[g].owner = recipient[g]
              /\ recipient[g] \in complete
        /\ details[g] \subseteq {Buyer[g], recipient[g]}

\* A person is brought by one gift at most: whoever was rewarded for a gift
\* is the inviter of its recipient, nobody else was rewarded for that person,
\* and no notice promises a pill that was not booked.
OneInvitation ==
    \A g \in Gifts :
        /\ reward[g] => /\ voucher[g].fresh
                        /\ referrer[recipient[g]] = Buyer[g]
                        /\ \A h \in Gifts \ {g} : reward[h] => recipient[h] # recipient[g]
        /\ notice[g] = "pill" => reward[g]

\* Once reserved a voucher never passes to another person, and a gift that was
\* handed over stays so, whatever links are followed later.
NeverReassigned ==
    [][\A g \in Gifts :
          /\ voucher[g].claimedBy # Nobody => voucher'[g].claimedBy = voucher[g].claimedBy
          /\ recipient[g] # Nobody => recipient'[g] = recipient[g]
                                      /\ account'[g].owner = account[g].owner]_vars

\* The buyer of a gift that was handed over gets the transfer notice, also
\* when the task was lost with its broker.
HandoverIsAnnounced ==
    \A g \in Gifts : recipient[g] # Nobody ~> notice[g] # "no"
===============================================================================
