------------------------------- MODULE Checkout -------------------------------
(***************************************************************************)
(* The checkout of one brand: orders, their payments, wallet credit, one    *)
(* discount coupon and the card-transfer quotes, as moved by the customers  *)
(* through the Telegram bot and by the staff who review receipts.           *)
(*                                                                          *)
(* Operations that run in one database transaction under the order's row    *)
(* lock (wallet payment, cancellation, coupon, quote, receipt, the admin    *)
(* status change) are one step each.  The receipt review of the bot is not: *)
(* it reads the payment without a lock, tests its status and saves it in a  *)
(* transaction of its own, and the payment's signal handler then reads and  *)
(* saves the order in further transactions.  Those are the steps of a       *)
(* reviewer r, between which everything else may happen, other reviewers    *)
(* included, and after each of which the bot process may die.               *)
(*                                                                          *)
(* Money is counted in small integers.  Wallet movements are booked as      *)
(* IdealLedger promises; spending limits, frozen and inactive wallets show  *)
(* up as less spendable credit.                                             *)
(***************************************************************************)
EXTENDS Integers, Sequences, FiniteSetsExt

CONSTANTS
    Users,          \* customers
    Orders,         \* orders they may place
    Owner,          \* Owner[o]: the customer of order o
    Prices,         \* plan prices after plan discounts, positive
    Discount,       \* the coupon's fixed discount
    MaxUses,        \* Coupon.max_uses
    MaxUsesPerUser, \* Coupon.max_uses_per_user
    CreditUnit,     \* wallet credit is spent in multiples of this (1000 toman)
    Cards,          \* the brand's bank cards
    MaxExtra,       \* PaymentCard.unique_amount_max_extra
    Reviewers,      \* concurrent receipt reviews in the bot
    ProviderUp,     \* the answers "is there an active provider" may get
    MaxTopUp,       \* bound on the cash a customer brings in
    MaxPayments     \* bound on the payments made

ASSUME CheckoutAssumption ==
    /\ Owner \in [Orders -> Users]
    /\ Prices \subseteq Nat \ {0}
    /\ {Discount, CreditUnit, MaxExtra} \subseteq Nat \ {0}
    /\ {MaxUses, MaxUsesPerUser, MaxTopUp, MaxPayments} \subseteq Nat
    /\ ProviderUp \subseteq BOOLEAN

VARIABLES
    status,     \* status[o]: Order.status, or "none" before it is placed
    price,      \* price[o]: Order.final_price
    pays,       \* the Payment rows of orders, by id
    cash,       \* cash[u]: Wallet.balance
    topped,     \* topped[u]: cash brought in so far
    keys,       \* idempotency keys of checkout's ledger rows
    usages,     \* the orders with a CouponUsage
    uses,       \* Coupon.current_uses
    quotes,     \* the CardTransferQuote rows, oldest first
    sub,        \* sub[o]: the order's Subscription
    review      \* review[r]: the receipt review reviewer r is running

vars == <<status, price, pays, cash, topped, keys, usages, uses, quotes, sub, review>>
money == <<cash, topped, keys>>
coupon == <<usages, uses>>

OrderStatus == {"none", "pending", "awaiting_payment", "processing", "paid",
                "completed", "failed", "cancelled", "refunded"}

Unfinished == {"pending", "awaiting_payment"}

PaymentStatus == {"pending", "confirmed", "failed", "cancelled", "refunded"}

Payment == [order : Orders, method : {"wallet", "card"},
            status : PaymentStatus, amount : Nat \ {0}]

\* Two deadlines: expires_at ends "live", release_after ends "expired".
Quote == [order : Orders, card : Cards, base : Nat \ {0}, expected : Nat \ {0},
          reserved : BOOLEAN, phase : {"live", "expired", "released"}]

NoReview == [pc |-> "idle"]

Snapshot == [status : OrderStatus, price : Nat, total : Nat]

Review ==
    {NoReview}
    \cup [pc : {"read"}, pay : 1 .. MaxPayments, to : {"confirmed", "failed"}]
    \cup [pc : {"ready", "saved"}, pay : 1 .. MaxPayments,
          to : {"confirmed", "failed"}, prev : PaymentStatus]
    \cup [pc : {"decided", "settled"}, pay : 1 .. MaxPayments,
          to : {"confirmed", "failed"}, prev : PaymentStatus, seen : Snapshot]

-----------------------------------------------------------------------------
(* Helpers *)

\* Payments of order o with a given status, and their sum.
PaymentsOf(o, st) == {i \in DOMAIN pays : pays[i].order = o /\ pays[i].status = st}

SumOf(ids) == MapThenSumSet(LAMBDA i : pays[i].amount, ids)

Total(o) == SumOf(PaymentsOf(o, "confirmed"))

Due(o) == price[o] - Total(o)

\* checkout_rounded_credit
Rounded(amount) == (amount \div CreditUnit) * CreditUnit

Smaller(a, b) == IF a < b THEN a ELSE b
Larger(a, b) == IF a > b THEN a ELSE b

QuotesOf(o) == {i \in DOMAIN quotes : quotes[i].order = o}

\* What the handler of a confirmed payment makes of an order whose confirmed
\* payments sum to total.
AfterConfirmation(o, total) == IF total < price[o] THEN "awaiting_payment" ELSE "paid"

\* Subscription.objects.get_or_create(order=...)
WithSubscription(o) == [sub EXCEPT ![o] = IF @ = "none" THEN "pending" ELSE @]

-----------------------------------------------------------------------------
Init ==
    /\ status = [o \in Orders |-> "none"]
    /\ price = [o \in Orders |-> 0]
    /\ pays = <<>>
    /\ cash = [u \in Users |-> 0]
    /\ topped = [u \in Users |-> 0]
    /\ keys = {}
    /\ usages = {}
    /\ uses = 0
    /\ quotes = <<>>
    /\ sub = [o \in Orders |-> "none"]
    /\ review = [r \in Reviewers |-> NoReview]

\* A confirmed top-up, an admin credit, a reward: cash from outside checkout.
TopUp(u, amount) ==
    /\ topped[u] + amount <= MaxTopUp
    /\ cash' = [cash EXCEPT ![u] = @ + amount]
    /\ topped' = [topped EXCEPT ![u] = @ + amount]
    /\ UNCHANGED <<status, price, pays, keys, coupon, quotes, sub, review>>

PlaceOrder(o, p) ==
    /\ status[o] = "none"
    /\ status' = [status EXCEPT ![o] = "pending"]
    /\ price' = [price EXCEPT ![o] = p]
    /\ UNCHANGED <<pays, money, coupon, quotes, sub, review>>

\* spendable_wallet_balance: the balance at most, less when a limit is near.
Spendable(u) == 1 .. cash[u]

\* pay_order_with_wallet(allow_partial=True), the payment's handler included.
\* credit is what the wallet's state and limits let the customer spend.
PayWithWallet(o, credit, up) ==
    LET u == Owner[o]
        amount == Smaller(Rounded(credit), Due(o))
        key == <<"order-wallet-payment", o, Total(o)>>
        total == Total(o) + amount
    IN  /\ status[o] \in Unfinished
        /\ credit \in Spendable(u)
        /\ amount > 0
        /\ key \notin keys
        /\ Len(pays) < MaxPayments
        /\ cash' = [cash EXCEPT ![u] = @ - amount]
        /\ keys' = keys \cup {key}
        /\ pays' = Append(pays, [order |-> o, method |-> "wallet",
                                 status |-> "confirmed", amount |-> amount])
        /\ status' = [status EXCEPT ![o] = AfterConfirmation(o, total)]
        /\ sub' = IF total >= price[o] /\ up THEN WithSubscription(o) ELSE sub
        /\ UNCHANGED <<price, topped, coupon, quotes, review>>

\* The idempotency key under which payment i is refunded.
RefundKey(i) == <<"payment-refund", i>>

\* Mutant of Refundable: only the newest payment is refunded.
RefundableLast(ids) ==
    {i \in ids : /\ pays[i].method = "wallet" /\ RefundKey(i) \notin keys
                 /\ \A j \in ids : j <= i}

\* The payments among ids that saving them as REFUNDED pays back, each once.
Refundable(ids) == {i \in ids : pays[i].method = "wallet" /\ RefundKey(i) \notin keys}

Refund(u, ids) ==
    /\ cash' = [cash EXCEPT ![u] = @ + SumOf(Refundable(ids))]
    /\ keys' = keys \cup {RefundKey(i) : i \in Refundable(ids)}

\* Mutant of ReturnCoupon: the coupon stays with the cancelled order.
KeepCoupon(o) == UNCHANGED coupon

\* A cancelled order gives its use of the coupon back.
ReturnCoupon(o) ==
    /\ usages' = usages \ {o}
    /\ uses' = IF o \in usages /\ uses > 0 THEN uses - 1 ELSE uses

\* cancel_unpaid_order
CancelOrder(o) ==
    LET paid == PaymentsOf(o, "confirmed")
        open == PaymentsOf(o, "pending")
    IN  /\ status[o] \in Unfinished
        /\ Total(o) < price[o]
        /\ \A i \in paid : pays[i].method = "wallet"
        /\ Refund(Owner[o], paid)
        /\ pays' = [i \in DOMAIN pays |->
                      IF i \in paid THEN [pays[i] EXCEPT !.status = "refunded"]
                      ELSE IF i \in open THEN [pays[i] EXCEPT !.status = "cancelled"]
                      ELSE pays[i]]
        /\ ReturnCoupon(o)
        /\ status' = [status EXCEPT ![o] = "cancelled"]
        /\ UNCHANGED <<price, topped, quotes, sub, review>>

\* apply_purchase_coupon; its tests of validity, plan and campaign only refuse.
ApplyCoupon(o) ==
    LET discount == Smaller(price[o], Discount)
    IN  /\ status[o] \in Unfinished
        /\ o \notin usages
        /\ QuotesOf(o) = {}
        /\ Cardinality(usages) < MaxUses
        /\ Cardinality({q \in usages : Owner[q] = Owner[o]}) < MaxUsesPerUser
        /\ price[o] - discount >= Larger(Total(o), 1)
        /\ price' = [price EXCEPT ![o] = @ - discount]
        /\ usages' = usages \cup {o}
        /\ uses' = uses + 1
        /\ UNCHANGED <<status, pays, money, quotes, sub, review>>

\* Mutant of FreeAmounts: amounts of expired quotes are free again.
FreeOfLiveQuotes(c, due) ==
    {due + e : e \in 1 .. MaxExtra} \
        {quotes[i].expected : i \in {j \in DOMAIN quotes : quotes[j].card = c
                                                        /\ quotes[j].phase = "live"}}

\* Amounts a new quote on card c may ask for: due itself, or with unique
\* amounts the first free suffix, if any, over the card's whole history.
FreeAmounts(c, due) ==
    {due + e : e \in 1 .. MaxExtra} \
        {quotes[i].expected : i \in {j \in DOMAIN quotes : quotes[j].card = c}}

\* Reservations of card c past their bank-reconciliation window end.
Swept(c) ==
    [i \in DOMAIN quotes |->
        IF quotes[i].card = c /\ quotes[i].phase = "released"
        THEN [quotes[i] EXCEPT !.reserved = FALSE] ELSE quotes[i]]

\* reserve_card_quote for an order without a quote.
ReserveQuote(o, c, unique) ==
    LET expected == IF unique THEN Min(FreeAmounts(c, Due(o))) ELSE Due(o)
    IN  /\ status[o] \in Unfinished
        /\ Due(o) > 0
        /\ QuotesOf(o) = {}
        /\ unique => FreeAmounts(c, Due(o)) # {}
        /\ quotes' = Append(Swept(c), [order |-> o, card |-> c, base |-> Due(o),
                                       expected |-> expected, reserved |-> unique,
                                       phase |-> "live"])
        /\ UNCHANGED <<status, price, pays, money, coupon, sub, review>>

\* reserve_card_quote again: the same amount on the same card is extended
\* within its window; any other call is refused and rolled back.
ReopenQuote(o, c) ==
    /\ status[o] \in Unfinished
    /\ Due(o) > 0
    /\ \E i \in QuotesOf(o) :
        /\ quotes[i].card = c
        /\ quotes[i].base = Due(o)
        /\ quotes[i].phase # "released"
        /\ quotes' = [Swept(c) EXCEPT ![i].phase = "live"]
    /\ UNCHANGED <<status, price, pays, money, coupon, sub, review>>

\* Time passes expires_at, or release_after.
ExpireQuote(i) ==
    /\ quotes[i].phase = "live"
    /\ quotes' = [quotes EXCEPT ![i].phase = "expired"]
    /\ UNCHANGED <<status, price, pays, money, coupon, sub, review>>

ReleaseQuote(i) ==
    /\ quotes[i].phase = "expired"
    /\ quotes' = [quotes EXCEPT ![i].phase = "released"]
    /\ UNCHANGED <<status, price, pays, money, coupon, sub, review>>

\* The order's quote, unless it expired or asks for another amount than is due.
UsableQuotes(o) ==
    {i \in QuotesOf(o) : quotes[i].phase = "live" /\ quotes[i].base = Due(o)}

\* _record_card_receipt
SendReceipt(o) ==
    /\ status[o] \in Unfinished
    /\ \A i \in PaymentsOf(o, "pending") \cup PaymentsOf(o, "confirmed") :
          pays[i].method # "card"
    /\ Due(o) > 0
    /\ Len(pays) < MaxPayments
    /\ \E i \in UsableQuotes(o) :
        pays' = Append(pays, [order |-> o, method |-> "card", status |-> "pending",
                             amount |-> quotes[i].expected])
    /\ status' = [status EXCEPT ![o] = "processing"]
    /\ UNCHANGED <<price, money, coupon, quotes, sub, review>>

-----------------------------------------------------------------------------
(* Receipt review: admin_confirm_payment and admin_reject_payment *)

\* The payment is fetched and its status tested.
ReadPayment(r, i, to) ==
    /\ review[r] = NoReview
    /\ pays[i].method = "card"
    /\ pays[i].status = "pending"
    /\ review' = [review EXCEPT ![r] = [pc |-> "read", pay |-> i, to |-> to]]
    /\ UNCHANGED <<status, price, pays, money, coupon, quotes, sub>>

\* payment_pre_save reads the status the row has now.
PreSave(r) ==
    /\ review[r].pc = "read"
    /\ review' = [review EXCEPT ![r] =
                    [pc |-> "ready", pay |-> review[r].pay, to |-> review[r].to,
                     prev |-> pays[review[r].pay].status]]
    /\ UNCHANGED <<status, price, pays, money, coupon, quotes, sub>>

\* One confirmed card payment per order: the table's unique index.
IndexAllows(i, to) ==
    to = "confirmed" =>
        \A j \in PaymentsOf(pays[i].order, "confirmed") \ {i} : pays[j].method = "wallet"

\* UPDATE payments SET status; the handler returns at once when the status
\* it replaces is the same.
SavePayment(r) ==
    LET i == review[r].pay
        to == review[r].to
    IN  /\ review[r].pc = "ready"
        /\ IF IndexAllows(i, to)
           THEN /\ pays' = [pays EXCEPT ![i].status = to]
                /\ review' = [review EXCEPT ![r] =
                                IF review[r].prev = to THEN NoReview
                                ELSE [review[r] EXCEPT !.pc = "saved"]]
           ELSE /\ review' = [review EXCEPT ![r] = NoReview]
                /\ UNCHANGED pays
        /\ UNCHANGED <<status, price, money, coupon, quotes, sub>>

\* payment_post_save loads the order and sums its confirmed payments.
HandlerRead(r) ==
    LET o == pays[review[r].pay].order
    IN  /\ review[r].pc = "saved"
        /\ review' = [review EXCEPT ![r] =
                        [pc |-> "decided", pay |-> review[r].pay, to |-> review[r].to,
                         prev |-> review[r].prev,
                         seen |-> [status |-> status[o], price |-> price[o],
                                   total |-> Total(o)]]]
        /\ UNCHANGED <<status, price, pays, money, coupon, quotes, sub>>

\* Mutant of Outcome: a total equal to the price is not enough.
OutcomeOffByOne(to, seen) ==
    IF to = "confirmed"
    THEN IF seen.total <= seen.price THEN "awaiting_payment" ELSE "paid"
    ELSE IF seen.total > 0 THEN "awaiting_payment" ELSE "failed"

\* The status the handler gives the order it loaded.
Outcome(to, seen) ==
    IF to = "confirmed"
    THEN IF seen.total < seen.price THEN "awaiting_payment" ELSE "paid"
    ELSE IF seen.total > 0 THEN "awaiting_payment" ELSE "failed"

\* Mutant of HandlerWrite: the handler returns when the status is unchanged.
HandlerWriteIfNew(r) ==
    LET o == pays[review[r].pay].order
        seen == review[r].seen
        new == Outcome(review[r].to, seen)
    IN  /\ review[r].pc = "decided"
        /\ status' = [status EXCEPT ![o] = IF seen.status = new THEN @ ELSE new]
        /\ review' = [review EXCEPT ![r] = IF new = "paid" /\ seen.status # new
                                           THEN [@ EXCEPT !.pc = "settled"] ELSE NoReview]
        /\ UNCHANGED <<price, pays, money, coupon, quotes, sub>>

\* order.save(update_fields=["status"]); a confirmation skips an equal status.
HandlerWrite(r) ==
    LET o == pays[review[r].pay].order
        seen == review[r].seen
        new == Outcome(review[r].to, seen)
    IN  /\ review[r].pc = "decided"
        /\ status' = IF review[r].to = "confirmed" /\ seen.status = new
                     THEN status ELSE [status EXCEPT ![o] = new]
        /\ review' = [review EXCEPT ![r] = IF new = "paid" THEN [@ EXCEPT !.pc = "settled"]
                                           ELSE NoReview]
        /\ UNCHANGED <<price, pays, money, coupon, quotes, sub>>

\* The paid order gets its subscription, if a provider is active.
HandlerProvision(r, up) ==
    /\ review[r].pc = "settled"
    /\ sub' = IF up THEN WithSubscription(pays[review[r].pay].order) ELSE sub
    /\ review' = [review EXCEPT ![r] = NoReview]
    /\ UNCHANGED <<status, price, pays, money, coupon, quotes>>

ReviewStep(r) ==
    \/ PreSave(r)
    \/ SavePayment(r)
    \/ HandlerRead(r)
    \/ HandlerWrite(r)
    \/ \E up \in ProviderUp : HandlerProvision(r, up)

\* The bot process dies; what it has committed stays.
Die(r) ==
    /\ review[r] # NoReview
    /\ review' = [review EXCEPT ![r] = NoReview]
    /\ UNCHANGED <<status, price, pays, money, coupon, quotes, sub>>

-----------------------------------------------------------------------------
(* Staff and the provisioning worker *)

\* Mutant of Settable: staff decide whether an order is paid.
SettableAtWill(o, to) ==
    to = "failed" => Total(o) = 0

\* Staff may call an order paid only if it is, and failed only if nothing was paid.
Settable(o, to) ==
    \/ to \in {"paid", "processing", "completed"} /\ Due(o) <= 0
    \/ to = "failed" /\ Total(o) = 0

\* The admin menu's change_order_safely.  Its "cancelled" branch looks the
\* order up by the wrong key and always fails, so it is no action.
SetOrder(o, to, up) ==
    /\ status[o] \notin {"none", "cancelled", "refunded", "completed"}
    /\ Settable(o, to)
    /\ to = "completed" => sub[o] # "none"
    \* order_completed_post_save sends an order whose subscription is not
    \* active back to paid, to be provisioned
    /\ status' = [status EXCEPT ![o] =
                    IF to = "completed" /\ sub[o] = "pending" /\ up THEN "paid" ELSE to]
    /\ UNCHANGED <<price, pays, money, coupon, quotes, sub, review>>

\* The web admin saves a confirmed payment as refunded.
RefundPayment(i) ==
    LET o == pays[i].order
    IN  /\ pays[i].status = "confirmed"
        /\ pays' = [pays EXCEPT ![i].status = "refunded"]
        /\ Refund(Owner[o], {i})
        /\ status' = [status EXCEPT ![o] = "refunded"]
        /\ UNCHANGED <<price, topped, coupon, quotes, sub, review>>

\* provision_paid_order succeeds at the provider.
Provision(o) ==
    /\ sub[o] = "pending"
    /\ status[o] \in {"paid", "processing"}
    /\ Due(o) <= 0
    /\ sub' = [sub EXCEPT ![o] = "active"]
    /\ status' = [status EXCEPT ![o] = "completed"]
    /\ UNCHANGED <<price, pays, money, coupon, quotes, review>>

-----------------------------------------------------------------------------
Customer ==
    \/ \E u \in Users, a \in 1 .. MaxTopUp : TopUp(u, a)
    \/ \E o \in Orders :
        \/ \E p \in Prices : PlaceOrder(o, p)
        \/ \E credit \in 1 .. MaxTopUp, up \in ProviderUp : PayWithWallet(o, credit, up)
        \/ CancelOrder(o)
        \/ ApplyCoupon(o)
        \/ \E c \in Cards, unique \in BOOLEAN : ReserveQuote(o, c, unique)
        \/ \E c \in Cards : ReopenQuote(o, c)
        \/ SendReceipt(o)

Staff ==
    \/ \E r \in Reviewers, i \in DOMAIN pays, to \in {"confirmed", "failed"} :
          ReadPayment(r, i, to)
    \/ \E o \in Orders, to \in {"paid", "processing", "completed", "failed"}, up \in ProviderUp :
          SetOrder(o, to, up)

System ==
    \/ \E r \in Reviewers : ReviewStep(r)
    \/ \E o \in Orders : Provision(o)
    \/ \E i \in DOMAIN quotes : ExpireQuote(i) \/ ReleaseQuote(i)

Next == Customer \/ Staff \/ System \/ \E r \in Reviewers : Die(r)

Spec == Init /\ [][Next]_vars

\* A bot process that does not die finishes the reviews it has begun, while
\* staff also refund payments by hand.
SteadySpec ==
    /\ Init /\ [][Customer \/ Staff \/ System \/ \E i \in DOMAIN pays : RefundPayment(i)]_vars
    /\ \A r \in Reviewers : WF_vars(ReviewStep(r))

\* The same bot when it may die, and is started again.
MortalSpec == Spec /\ \A r \in Reviewers : WF_vars(ReviewStep(r))

-----------------------------------------------------------------------------
(* Properties *)

\* Types of the columns; money never goes below zero.
TypeOK ==
    /\ status \in [Orders -> OrderStatus]
    /\ price \in [Orders -> Nat]
    /\ pays \in Seq(Payment)
    /\ cash \in [Users -> Nat]
    /\ topped \in [Users -> 0 .. MaxTopUp]
    /\ usages \subseteq Orders
    /\ uses \in Nat
    /\ quotes \in Seq(Quote)
    /\ sub \in [Orders -> {"none", "pending", "active"}]
    /\ review \in [Reviewers -> Review]

\* Cash a customer put in is in the wallet or in a standing wallet payment:
\* partial payments, cancellations and refunds lose nothing and return
\* nothing twice, whatever reviewers do at the same time.
CashIsConserved ==
    \A u \in Users :
        topped[u] = cash[u] + SumOf({i \in DOMAIN pays :
                                      /\ Owner[pays[i].order] = u
                                      /\ pays[i].method = "wallet"
                                      /\ pays[i].status = "confirmed"})

\* A cancelled order holds no money, no coupon and no open receipt.
CancelledHoldsNothing ==
    \A o \in Orders : status[o] = "cancelled" =>
        /\ Total(o) = 0
        /\ PaymentsOf(o, "pending") = {}
        /\ o \notin usages

\* An amount a bank message may still match names one order of the card, and a
\* card receipt under review is worth what its order still owes: confirming it
\* settles that order, coupons and wallet credit notwithstanding.
ReceiptSettles ==
    /\ \A i, j \in DOMAIN quotes :
          i # j /\ quotes[i].reserved /\ quotes[j].reserved /\ quotes[i].card = quotes[j].card
              => quotes[i].expected # quotes[j].expected
    /\ \A o \in Orders : status[o] = "processing" =>
          \A i \in PaymentsOf(o, "pending") : Total(o) + pays[i].amount >= price[o]

\* An order is paid or delivered only against confirmed payments that cover
\* its price, and they never exceed it by more than a unique suffix.
PaidIsCovered ==
    \A o \in Orders :
        /\ status[o] \in {"paid", "completed"} => Total(o) >= price[o]
        /\ Total(o) <= price[o] + MaxExtra

\* An unfinished order has something left to pay.
UnfinishedOwes ==
    \A o \in Orders : status[o] \in Unfinished => Due(o) > 0

\* A settled order never becomes payable again.
SettledStaysSettled ==
    [][\A o \in Orders : status[o] \in {"paid", "completed"} => status'[o] \notin Unfinished]_vars

\* Every confirmed card receipt gets its order a subscription to deliver,
\* unless staff refund a payment of the order.
ReceiptIsServed ==
    \A o \in Orders :
        (\E i \in PaymentsOf(o, "confirmed") : pays[i].method = "card")
            ~> sub[o] # "none" \/ PaymentsOf(o, "refunded") # {}
==============================================================================
