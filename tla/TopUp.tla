--------------------------------- MODULE TopUp ---------------------------------
(***************************************************************************)
(* Wallet top-ups of one customer: card receipts, crypto payments, Telegram *)
(* Stars invoices and wallet coupons (bot/handlers/wallet.py,               *)
(* orders/services.py and the wallet branches of the payment signals).      *)
(*                                                                          *)
(* The bot runs its handlers concurrently.  A handler that reviews a        *)
(* receipt or takes a TXID reads the payment, tests it in memory and saves  *)
(* the columns it changed, without a lock; the signal handlers of the save  *)
(* commit on their own.  Stars updates and coupons are single transactions  *)
(* under a row lock.  A movement of the wallet is one step: WalletLedger    *)
(* shows why it can be.                                                     *)
(***************************************************************************)
EXTENDS Integers, FiniteSets, FiniteSetsExt

CONSTANTS
    Payments,       \* payments without order
    Method,         \* Method[t]: "card", "crypto" or "stars"
    Amount,         \* Amount[t]: its amount
    Handlers,       \* concurrent coroutines of the bot
    Gift,           \* value of the wallet coupon
    MaxUses,        \* Coupon.max_uses
    MaxPerUser,     \* Coupon.max_uses_per_user
    MaxElsewhere,   \* bound on uses of the coupon by other customers
    Asked,          \* sets of payments the customer may ask for
    Nobody          \* the holder of a free lock

ASSUME TopUpAssumption ==
    /\ Method \in [Payments -> {"card", "crypto", "stars"}]
    /\ Amount \in [Payments -> Nat \ {0}]
    /\ {Gift, MaxUses, MaxPerUser, MaxElsewhere} \subseteq Nat
    /\ Asked \subseteq SUBSET Payments
    /\ Nobody \notin Handlers

VARIABLES
    status,     \* status[t]: Payment.status, "none" before the row exists
    expired,    \* expired[t]: Payment.expires_at has passed
    shown,      \* shown[t]: the reviewers have buttons for the payment
    checkout,   \* checkout[t]: Telegram's side of a Stars invoice: "none",
                \* "cleared" by the pre-checkout answer, "charged"
    updates,    \* Stars payments whose successful_payment update is under way
    credited,   \* credited[t]: times the payment was credited to the wallet
    reversed,   \* payments whose refund was taken off the wallet
    approved,   \* payments some reviewer confirmed
    balance,    \* Wallet.balance
    usable,     \* Wallet.is_active and not is_frozen
    usage,      \* CouponUsage rows: of this customer, of others
    couponLock, \* the transaction that holds the coupon's row
    wanted,     \* the payments the customer asks for; never changes
    mortal,     \* the bot may be restarted; never changes
    job         \* job[h]: what handler h is doing

invoice == <<checkout, updates>>
given == <<wanted, mortal>>
money == <<credited, reversed, balance, usage>>
vars == <<status, expired, shown, invoice, approved, money, usable, couponLock, given, job>>

Statuses == {"none", "pending", "awaiting", "confirmed", "failed", "refunded"}

NoJob == [pc |-> "idle"]

\* A review or a TXID, with the status it will write and the one read last.
SaveJob == [pc : {"read", "saving", "signal"}, payment : Payments,
            to : {"confirmed", "failed", "awaiting"}, previous : Statuses]

Job == {NoJob} \cup SaveJob \cup [pc : {"coupon"}, uses : Nat]

Credit(t) == credited' = [credited EXCEPT ![t] = @ + 1] /\ balance' = balance + Amount[t]

-----------------------------------------------------------------------------
Init ==
    /\ status = [t \in Payments |-> "none"]
    /\ expired = [t \in Payments |-> FALSE]
    /\ shown = [t \in Payments |-> FALSE]
    /\ checkout = [t \in Payments |-> "none"]
    /\ updates = {}
    /\ credited = [t \in Payments |-> 0]
    /\ reversed = {}
    /\ approved = {}
    /\ balance = 0
    /\ usable = TRUE
    /\ usage = [own |-> 0, others |-> 0]
    /\ couponLock = Nobody
    /\ wanted \in Asked
    /\ mortal \in BOOLEAN
    /\ job = [h \in Handlers |-> NoJob]

(* The customer asks for payments, staff and clock *)

Create(t, method) ==
    /\ t \in wanted /\ status[t] = "none" /\ Method[t] = method
    /\ status' = [status EXCEPT ![t] = "pending"]
    /\ UNCHANGED <<expired, invoice, approved, money, usable, couponLock, given, job>>

\* handle_receipt_photo: the receipt goes to the reviewers at once.
ReceiptPhoto(t) == Create(t, "card") /\ shown' = [shown EXCEPT ![t] = TRUE]

\* show_crypto_address, of a wallet that can be used; nobody is told yet.
CryptoAddress(t) == usable /\ Create(t, "crypto") /\ UNCHANGED shown

\* process_stars_payment
StarsInvoice(t) == usable /\ Create(t, "stars") /\ UNCHANGED shown

Expire(t) ==
    /\ status[t] # "none" /\ ~expired[t]
    /\ expired' = [expired EXCEPT ![t] = TRUE]
    /\ UNCHANGED <<status, shown, invoice, approved, money, usable, couponLock, job, given>>

SetUsable ==
    /\ usable' = ~usable
    /\ UNCHANGED <<status, expired, shown, invoice, approved, money, couponLock, job, given>>

\* A confirmed top-up is refunded in the web admin: the amount leaves the
\* wallet once, whatever is left in it.
Refund(t) ==
    /\ status[t] = "confirmed"
    /\ status' = [status EXCEPT ![t] = "refunded"]
    /\ IF t \in reversed
       THEN UNCHANGED <<reversed, balance>>
       ELSE reversed' = reversed \cup {t} /\ balance' = balance - Amount[t]
    /\ UNCHANGED <<expired, shown, invoice, approved, credited, usage, usable,
                   couponLock, job, given>>

-----------------------------------------------------------------------------
(* Telegram Stars: each update is one transaction under the payment's lock *)

\* validate_stars_pre_checkout; the answer may not reach Telegram in time, and
\* the invoice cannot be tried again then.
PreCheckout(t) ==
    /\ Method[t] = "stars" /\ status[t] = "pending"
    /\ ~expired[t]
    /\ status' = [status EXCEPT ![t] = "awaiting"]
    /\ \E answered \in BOOLEAN :
          checkout' = [checkout EXCEPT ![t] = IF answered THEN "cleared" ELSE @]
    /\ UNCHANGED <<expired, shown, updates, approved, money, usable, couponLock, job, given>>

\* Telegram charges a cleared invoice and sends the update.
Charge(t) ==
    /\ checkout[t] = "cleared"
    /\ checkout' = [checkout EXCEPT ![t] = "charged"]
    /\ updates' = updates \cup {t}
    /\ UNCHANGED <<status, expired, shown, approved, money, usable, couponLock, job, given>>

\* confirm_stars_payment with the credit of its signal.  The update may come
\* again; one that comes after the deadline is refused for good.
Succeed(t) ==
    /\ t \in updates
    /\ updates' \in {updates, updates \ {t}}
    /\ IF status[t] = "awaiting" /\ ~expired[t]
       THEN status' = [status EXCEPT ![t] = "confirmed"] /\ Credit(t)
       ELSE UNCHANGED <<status, credited, balance>>
    /\ UNCHANGED <<expired, shown, checkout, approved, reversed, usage, usable,
                   couponLock, job, given>>

-----------------------------------------------------------------------------
(* Handlers that save a payment they read earlier *)

\* handle_txid_message finds a live crypto payment.
ReadTxid(h, t) ==
    /\ job[h] = NoJob
    /\ Method[t] = "crypto" /\ status[t] = "pending" /\ ~expired[t]
    /\ job' = [job EXCEPT ![h] = [pc |-> "read", payment |-> t, to |-> "awaiting",
                                  previous |-> status[t]]]
    /\ UNCHANGED <<status, expired, shown, invoice, approved, money, usable, couponLock, given>>

\* A reviewer's button, on a payment that is not settled.
ReadReview(h, t, to) ==
    /\ job[h] = NoJob
    /\ shown[t] /\ status[t] \in {"pending", "awaiting"}
    /\ job' = [job EXCEPT ![h] = [pc |-> "read", payment |-> t, to |-> to,
                                  previous |-> status[t]]]
    /\ UNCHANGED <<status, expired, shown, invoice, approved, money, usable, couponLock, given>>

Confirm(h, t) == ReadReview(h, t, "confirmed")

Reject(h, t) == ReadReview(h, t, "failed")

\* payment_pre_save reads the previous status from the database.
PreSave(h) ==
    /\ job[h].pc = "read"
    /\ job' = [job EXCEPT ![h].pc = "saving", ![h].previous = status[job[h].payment]]
    /\ UNCHANGED <<status, expired, shown, invoice, approved, money, usable, couponLock, given>>

\* The UPDATE of the columns; a handled TXID also brings the buttons.
SavePayment(h) ==
    LET t == job[h].payment
    IN  /\ job[h].pc = "saving"
        /\ status' = [status EXCEPT ![t] = job[h].to]
        /\ shown' = [shown EXCEPT ![t] = @ \/ job[h].to = "awaiting"]
        /\ approved' = IF job[h].to = "confirmed" THEN approved \cup {t} ELSE approved
        /\ job' = [job EXCEPT ![h].pc = "signal"]
        /\ UNCHANGED <<expired, invoice, money, usable, couponLock, given>>

\* Mutant of CreditOnce: the idempotency key is not looked for.
CreditAlways(t) == Credit(t)

\* _apply_payment_wallet_delta: one movement per key.
CreditOnce(t) ==
    IF credited[t] > 0 THEN UNCHANGED <<credited, balance>> ELSE Credit(t)

\* Mutant of Signal: only payments that awaited confirmation are credited.
SignalAwaiting(h) ==
    LET t == job[h].payment
    IN  /\ job[h].pc = "signal"
        /\ IF job[h].to = "confirmed" /\ job[h].previous = "awaiting"
           THEN CreditOnce(t)
           ELSE UNCHANGED <<credited, balance>>
        /\ job' = [job EXCEPT ![h] = NoJob]
        /\ UNCHANGED <<status, expired, shown, invoice, approved, reversed,
                       usage, usable, couponLock, given>>

\* payment_post_save of a top-up: nothing unless the status changed.
Signal(h) ==
    LET t == job[h].payment
    IN  /\ job[h].pc = "signal"
        /\ IF job[h].to = "confirmed" /\ job[h].previous # "confirmed"
           THEN CreditOnce(t)
           ELSE UNCHANGED <<credited, balance>>
        /\ job' = [job EXCEPT ![h] = NoJob]
        /\ UNCHANGED <<status, expired, shown, invoice, approved, reversed,
                       usage, usable, couponLock, given>>

-----------------------------------------------------------------------------
(* The wallet coupon: redeem_wallet_coupon *)

Exhausted == usage.own + usage.others >= MaxUses \/ usage.own >= MaxPerUser

\* The coupon is locked and its uses are counted.
LockCoupon(h) ==
    /\ job[h] = NoJob
    /\ couponLock = Nobody
    /\ ~Exhausted
    /\ couponLock' = h
    /\ job' = [job EXCEPT ![h] = [pc |-> "coupon", uses |-> usage.own + usage.others]]
    /\ UNCHANGED <<status, expired, shown, invoice, approved, money, usable, given>>

\* Usage row and credit commit together, or the wallet is not usable.
Redeem(h) ==
    /\ job[h].pc = "coupon"
    /\ IF usable
       THEN /\ usage' = [usage EXCEPT !.own = @ + 1]
            /\ balance' = balance + Gift
       ELSE UNCHANGED <<usage, balance>>
    /\ couponLock' = Nobody
    /\ job' = [job EXCEPT ![h] = NoJob]
    /\ UNCHANGED <<status, expired, shown, invoice, approved, credited,
                   reversed, usable, given>>

\* Another customer uses the coupon, for a wallet or an order, under its lock.
RedeemElsewhere ==
    /\ couponLock = Nobody
    /\ usage.own + usage.others < MaxUses /\ usage.others < MaxElsewhere
    /\ usage' = [usage EXCEPT !.others = @ + 1]
    /\ UNCHANGED <<status, expired, shown, invoice, approved, credited, reversed,
                   balance, usable, couponLock, job, given>>

-----------------------------------------------------------------------------
\* The bot stops: what its coroutines were doing is gone.
Restart ==
    /\ mortal
    /\ \E h \in Handlers : job[h] # NoJob
    /\ job' = [h \in Handlers |-> NoJob]
    /\ couponLock' = Nobody
    /\ UNCHANGED <<status, expired, shown, invoice, approved, money, usable, given>>

Save(h) == PreSave(h) \/ SavePayment(h) \/ Signal(h)

Next ==
    \/ \E t \in Payments :
          \/ ReceiptPhoto(t)
          \/ CryptoAddress(t)
          \/ StarsInvoice(t)
          \/ Expire(t)
          \/ Refund(t)
          \/ PreCheckout(t)
          \/ Charge(t)
          \/ Succeed(t)
          \/ \E h \in Handlers :
                \/ ReadTxid(h, t)
                \/ Confirm(h, t)
                \/ Reject(h, t)
    \/ \E h \in Handlers : Save(h) \/ LockCoupon(h) \/ Redeem(h)
    \/ RedeemElsewhere
    \/ SetUsable
    \/ Restart

\* A coroutine that reads a payment goes on while the bot lives, and Telegram's
\* updates are handled.
Spec ==
    /\ Init
    /\ [][Next]_vars
    /\ \A h \in Handlers : WF_vars(Save(h))
    /\ \A t \in Payments : WF_vars(Succeed(t))

-----------------------------------------------------------------------------
(* Properties *)

\* Types of the columns.
TypeOK ==
    /\ status \in [Payments -> Statuses]
    /\ expired \in [Payments -> BOOLEAN] /\ shown \in [Payments -> BOOLEAN]
    /\ checkout \in [Payments -> {"none", "cleared", "charged"}]
    /\ updates \subseteq Payments
    /\ credited \in [Payments -> Nat]
    /\ reversed \subseteq Payments /\ approved \subseteq Payments
    /\ balance \in Int
    /\ usable \in BOOLEAN
    /\ usage \in [own : Nat, others : Nat]
    /\ couponLock \in Handlers \cup {Nobody}
    /\ wanted \in Asked /\ mortal \in BOOLEAN
    /\ job \in [Handlers -> Job]

AmountsOf(S) == MapThenSumSet(LAMBDA t : Amount[t], S)

\* However reviews, updates and coupons interleave, every payment is credited
\* once at most, Stars only when Telegram charged them and a receipt only when
\* a reviewer confirmed it, the coupon within its limits, and the balance is
\* what these movements come to.
CreditsExplained ==
    /\ \A t \in Payments :
          /\ credited[t] <= 1
          /\ credited[t] = 1 => IF Method[t] = "stars" THEN checkout[t] = "charged"
                                                       ELSE t \in approved
    /\ usage.own <= MaxPerUser /\ usage.own + usage.others <= MaxUses
    /\ balance = AmountsOf({t \in Payments : credited[t] > 0}) - AmountsOf(reversed)
                   + Gift * usage.own

\* While the bot lives, a receipt that a reviewer confirmed is credited, and so
\* are Stars that were charged unless the invoice expired first.
PaidIsCredited ==
    \A t \in Payments :
        /\ (~mortal /\ t \in approved) ~> (credited[t] = 1)
        /\ (~mortal /\ checkout[t] = "charged") ~> (credited[t] = 1 \/ expired[t])
===============================================================================
