---------------------------- MODULE CheckoutProofs ----------------------------
(***************************************************************************)
(* Theorems of Checkout, for any number of customers, orders and payments.  *)
(*                                                                          *)
(* The first part holds for any number of reviewers: wallet money is        *)
(* conserved, an amount a bank message may still match names one order, and *)
(* a receipt that waits covers what its order owes.  Reviews only ever      *)
(* touch card payments, a refund's idempotency key is spent only when its   *)
(* payment is refunded, and credit is given back only with a cancellation,  *)
(* which ends the receipts of its order too.                                *)
(*                                                                          *)
(* The second part is about one review at a time (OneReviewer).  With two,  *)
(* the unlocked review breaks what it states: one reviewer rejects a        *)
(* receipt, the order is paid or cancelled otherwise, and the other's       *)
(* confirmation is still saved.                                             *)
(***************************************************************************)
EXTENDS Checkout, FiniteSums

-----------------------------------------------------------------------------
(* Payments p as data *)

Confirmed(p, o) == {i \in DOMAIN p : p[i].order = o /\ p[i].status = "confirmed"}

Pending(p, o) == {i \in DOMAIN p : p[i].order = o /\ p[i].status = "pending"}

\* What is confirmed for order o.
Received(p, o) == AmountSum(p, Confirmed(p, o))

\* The wallet payments of customer u that stand.
Standing(p, u) == {i \in DOMAIN p : /\ Owner[p[i].order] = u
                                    /\ p[i].method = "wallet"
                                    /\ p[i].status = "confirmed"}

\* The order of the payment a review is about.
Reviewed(j) == pays[j.pay].order

-----------------------------------------------------------------------------
(* For any number of reviewers *)

\* Reviews are about card payments that exist.
ReviewsKnown ==
    /\ Len(pays) <= MaxPayments
    /\ \A r \in Reviewers : review[r] # NoReview =>
          review[r].pay \in DOMAIN pays /\ pays[review[r].pay].method = "card"

\* The key of a refund is spent when its wallet payment is refunded.
RefundsRecorded ==
    \A i \in Nat : RefundKey(i) \in keys =>
        i \in DOMAIN pays /\ pays[i].status = "refunded" /\ pays[i].method = "wallet"

\* CashIsConserved as a sum of amounts.
CashStands == \A u \in Users : topped[u] = cash[u] + AmountSum(pays, Standing(pays, u))

\* Reserved amounts of a card differ, and an amount asked for is what was due,
\* a suffix added at most.
QuotesDiffer ==
    /\ \A i, j \in DOMAIN quotes :
          i # j /\ quotes[i].reserved /\ quotes[j].reserved /\ quotes[i].card = quotes[j].card
              => quotes[i].expected # quotes[j].expected
    /\ \A i \in DOMAIN quotes :
          quotes[i].base <= quotes[i].expected /\ quotes[i].expected <= quotes[i].base + MaxExtra

\* The inductive invariant of the first part.
CashInv ==
    /\ TypeOK
    /\ ReviewsKnown
    /\ RefundsRecorded
    /\ CashStands
    /\ QuotesDiffer

\* The credit that order o received.
Credit(p, o) == {i \in DOMAIN p : /\ p[i].order = o
                                  /\ p[i].method = "wallet"
                                  /\ p[i].status = "confirmed"}

\* Payments are made for orders that were placed.
PlacedFirst == \A i \in DOMAIN pays : status[pays[i].order] # "none"

\* Receipt i and the credit of its order cover the price.
Backed(i) ==
    LET o == pays[i].order
    IN  pays[i].method = "card" /\ AmountSum(pays, Credit(pays, o)) + pays[i].amount >= price[o]

\* While a receipt waits its order may be confirmed, failed or paid for by
\* reviews that began earlier, but its credit is only given back together with
\* the receipt.
ReceiptsBacked == \A i \in DOMAIN pays : pays[i].status = "pending" => Backed(i)

\* The inductive invariant about receipts, beside CashInv.
ReceiptInv == PlacedFirst /\ ReceiptsBacked

-----------------------------------------------------------------------------
(* For one reviewer at a time *)

OneReviewer == \A q, r \in Reviewers : q = r

\* An order that is not placed has nothing; one that may still be paid has not
\* received more than its price; one that is paid has received its price.
Covered(o) ==
    /\ status[o] = "none" => o \notin usages /\ \A i \in DOMAIN pays : pays[i].order # o
    /\ status[o] = "cancelled" => o \notin usages /\ Confirmed(pays, o) = {}
    /\ status[o] \in Unfinished => Received(pays, o) <= price[o]
    /\ status[o] \in {"paid", "completed"} => Received(pays, o) >= price[o]
    /\ Received(pays, o) <= price[o] + MaxExtra

\* While receipt i waits, its order o is neither payable otherwise nor settled,
\* the receipt covers what is owed, and no other receipt of it waits or counts.
Waits(i, o) ==
    /\ pays[i].method = "card"
    /\ status[o] \in {"processing", "failed"}
    /\ Received(pays, o) < price[o]
    /\ Received(pays, o) + pays[i].amount >= price[o]
    /\ Received(pays, o) + pays[i].amount <= price[o] + MaxExtra
    /\ \A j \in DOMAIN pays :
          pays[j].order = o /\ pays[j].method = "card"
          /\ pays[j].status \in {"pending", "confirmed"} => j = i

\* An order whose receipt was saved, and whose status is still to follow.
Decides(o, to) ==
    /\ status[o] \notin Unfinished \cup {"none", "cancelled"}
    /\ Pending(pays, o) = {}
    /\ to = "confirmed" => Received(pays, o) >= price[o]
    /\ to = "failed" => Received(pays, o) < price[o]

\* What review j has read is still so, and while it is under way its order
\* waits for it.
Current(j) ==
    /\ j.pc \in {"read", "ready"} => pays[j.pay].status = "pending"
    /\ j.pc = "ready" => j.prev = "pending"
    /\ j.pc \in {"saved", "decided"} => Decides(Reviewed(j), j.to)
    /\ j.pc = "decided" =>
          j.seen.price = price[Reviewed(j)] /\ j.seen.total = Received(pays, Reviewed(j))

OrdersCovered == \A o \in Orders : Covered(o)

ReceiptsCover ==
    \A i \in DOMAIN pays : pays[i].status = "pending" => Waits(i, pays[i].order)

ReviewsCurrent == \A r \in Reviewers : Current(review[r])

\* The inductive invariant of the second part, beside the first's.
OrderInv == OrdersCovered /\ ReceiptsCover /\ ReviewsCurrent

-----------------------------------------------------------------------------
(* Lemmas about payments as data *)

\* Total and SumOf, in terms of the data.
LEMMA TotalIsReceived ==
    /\ \A o : Total(o) = Received(pays, o)
    /\ \A S : SumOf(S) = AmountSum(pays, S)
    /\ \A o : PaymentsOf(o, "confirmed") = Confirmed(pays, o)
    /\ \A o : PaymentsOf(o, "pending") = Pending(pays, o)
  <1>1. \A S : SumOf(S) = AmountSum(pays, S)
    BY DEF SumOf, AmountSum
  <1>2. /\ \A o : PaymentsOf(o, "confirmed") = Confirmed(pays, o)
        /\ \A o : PaymentsOf(o, "pending") = Pending(pays, o)
    BY DEF PaymentsOf, Confirmed, Pending
  <1>3. \A o : Total(o) = Received(pays, o)
    BY <1>1, <1>2 DEF Total, Received
  <1> QED
    BY <1>1, <1>2, <1>3

\* Payments have numbers, and so has every sum of them.
LEMMA PaymentFacts ==
    ASSUME NEW p \in Seq(Payment)
    PROVE  /\ DOMAIN p = 1 .. Len(p) /\ Len(p) \in Nat
           /\ \A i \in DOMAIN p : /\ p[i] \in Payment /\ p[i].order \in Orders
                                  /\ p[i].method \in {"wallet", "card"}
                                  /\ p[i].status \in PaymentStatus
                                  /\ p[i].amount \in Nat \ {0}
           /\ \A S \in SUBSET (DOMAIN p) :
                /\ IsFiniteSet(S)
                /\ \A i \in S : p[i].amount \in Nat
                /\ AmountSum(p, S) \in Nat
           /\ \A o : Confirmed(p, o) \in SUBSET (DOMAIN p) /\ Received(p, o) \in Nat
           /\ \A u : Standing(p, u) \in SUBSET (DOMAIN p) /\ AmountSum(p, Standing(p, u)) \in Nat
  <1>1. DOMAIN p = 1 .. Len(p) /\ Len(p) \in Nat
    OBVIOUS
  <1>2. ASSUME NEW i \in DOMAIN p
        PROVE  /\ p[i] \in Payment /\ p[i].order \in Orders /\ p[i].method \in {"wallet", "card"}
               /\ p[i].status \in PaymentStatus /\ p[i].amount \in Nat \ {0}
    <2>1. p[i] \in Payment
      BY <1>1
    <2> QED
      BY <2>1 DEF Payment
  <1>3. ASSUME NEW S \in SUBSET (DOMAIN p)
        PROVE  /\ IsFiniteSet(S) /\ (\A i \in S : p[i].amount \in Nat)
               /\ AmountSum(p, S) \in Nat
    <2>1. IsFiniteSet(DOMAIN p)
      BY <1>1, FS_Interval
    <2>2. IsFiniteSet(S)
      BY <2>1, FS_Subset
    <2>3. \A i \in S : p[i].amount \in Nat
      BY <1>2
    <2> QED
      BY <2>2, <2>3, AmountMonotone
  <1>4. \A o : Confirmed(p, o) \in SUBSET (DOMAIN p)
    BY DEF Confirmed
  <1>5. \A u : Standing(p, u) \in SUBSET (DOMAIN p)
    BY DEF Standing
  <1> QED
    BY <1>1, <1>2, <1>3, <1>4, <1>5 DEF Received

\* A payment more in a set of payments, whose amounts do not change.
LEMMA OneMore ==
    ASSUME NEW p \in Seq(Payment), NEW q \in Seq(Payment), DOMAIN p \subseteq DOMAIN q,
           \A i \in DOMAIN p : q[i].amount = p[i].amount,
           NEW S \in SUBSET (DOMAIN p), NEW i \in DOMAIN q, i \notin S
    PROVE  /\ AmountSum(q, S) = AmountSum(p, S)
           /\ AmountSum(q, S \cup {i}) = AmountSum(p, S) + q[i].amount
  <1>1. IsFiniteSet(S) /\ \A j \in S : q[j].amount = p[j].amount
    BY PaymentFacts
  <1>2. \A j \in S \cup {i} : q[j].amount \in Nat
    BY PaymentFacts
  <1>3. AmountSum(q, S) = AmountSum(p, S)
    BY <1>1, AmountSame
  <1>4. AmountSum(q, S \cup {i}) = AmountSum(q, S) + q[i].amount
    BY <1>1, <1>2, AmountAdd
  <1> QED
    BY <1>3, <1>4

\* A new payment.
LEMMA PaymentAppended ==
    ASSUME NEW p \in Seq(Payment), NEW x \in Payment, NEW q, q = Append(p, x)
    PROVE  /\ q \in Seq(Payment) /\ Len(q) = Len(p) + 1
           /\ DOMAIN q = DOMAIN p \cup {Len(p) + 1} /\ Len(p) + 1 \notin DOMAIN p
           /\ q[Len(p) + 1] = x /\ \A i \in DOMAIN p : q[i] = p[i]
  OBVIOUS

\* What a new payment adds to what an order received and a customer spent.
LEMMA PaymentCounted ==
    ASSUME NEW p \in Seq(Payment), NEW x \in Payment, NEW q, q = Append(p, x)
    PROVE  /\ \A o : Received(q, o) =
                IF x.order = o /\ x.status = "confirmed"
                THEN Received(p, o) + x.amount ELSE Received(p, o)
           /\ \A u \in Users : AmountSum(q, Standing(q, u)) =
                IF Owner[x.order] = u /\ x.method = "wallet" /\ x.status = "confirmed"
                THEN AmountSum(p, Standing(p, u)) + x.amount ELSE AmountSum(p, Standing(p, u))
  <1> DEFINE n == Len(p) + 1
  <1>1. /\ q \in Seq(Payment) /\ Len(q) = n
        /\ DOMAIN q = DOMAIN p \cup {n} /\ n \notin DOMAIN p /\ n \in DOMAIN q
        /\ q[n] = x /\ \A i \in DOMAIN p : q[i] = p[i]
    OBVIOUS
  <1>2. x.amount \in Nat
    BY DEF Payment
  <1> HIDE DEF n
  <1>3. ASSUME NEW S \in SUBSET (DOMAIN p)
        PROVE  /\ AmountSum(q, S) = AmountSum(p, S) /\ AmountSum(p, S) \in Nat
               /\ AmountSum(q, S \cup {n}) = AmountSum(p, S) + x.amount
    <2>1. /\ n \notin S /\ DOMAIN p \subseteq DOMAIN q /\ n \in DOMAIN q
          /\ \A i \in DOMAIN p : q[i].amount = p[i].amount
          /\ p \in Seq(Payment) /\ q \in Seq(Payment) /\ S \in SUBSET (DOMAIN p)
      BY <1>1
    <2>2. /\ AmountSum(q, S) = AmountSum(p, S)
          /\ AmountSum(q, S \cup {n}) = AmountSum(p, S) + q[n].amount
      BY ONLY <2>1, OneMore
    <2>3. AmountSum(p, S) \in Nat
      BY PaymentFacts
    <2> QED
      BY <1>1, <2>2, <2>3
  <1>4. ASSUME NEW o
        PROVE  /\ Confirmed(q, o) = IF x.order = o /\ x.status = "confirmed"
                                      THEN Confirmed(p, o) \cup {n} ELSE Confirmed(p, o)
               /\ Confirmed(p, o) \in SUBSET (DOMAIN p)
    BY <1>1 DEF Confirmed
  <1>5. ASSUME NEW u
        PROVE  /\ Standing(q, u) = IF Owner[x.order] = u /\ x.method = "wallet" /\ x.status = "confirmed"
                                     THEN Standing(p, u) \cup {n} ELSE Standing(p, u)
               /\ Standing(p, u) \in SUBSET (DOMAIN p)
    BY <1>1 DEF Standing
  <1>6. ASSUME NEW o
        PROVE  Received(q, o) =
                 IF x.order = o /\ x.status = "confirmed"
                 THEN Received(p, o) + x.amount ELSE Received(p, o)
    <2>1. CASE x.order = o /\ x.status = "confirmed"
      BY <1>3, <1>4, <2>1 DEF Received
    <2>2. CASE ~(x.order = o /\ x.status = "confirmed")
      <3>1. Received(q, o) = Received(p, o) /\ Received(p, o) \in Nat
        BY <1>3, <1>4, <2>2 DEF Received
      <3> QED
        BY <2>2, <3>1
    <2> QED
      BY <2>1, <2>2
  <1>7. ASSUME NEW u \in Users
        PROVE  AmountSum(q, Standing(q, u)) =
                 IF Owner[x.order] = u /\ x.method = "wallet" /\ x.status = "confirmed"
                 THEN AmountSum(p, Standing(p, u)) + x.amount ELSE AmountSum(p, Standing(p, u))
    <2> DEFINE New == Owner[x.order] = u /\ x.method = "wallet" /\ x.status = "confirmed"
    <2>1. CASE New
      BY <1>3, <1>5, <2>1
    <2>2. CASE ~New
      <3>1. Standing(q, u) = Standing(p, u)
        BY <1>5, <2>2
      <3>2. /\ AmountSum(q, Standing(q, u)) = AmountSum(p, Standing(p, u))
            /\ AmountSum(p, Standing(p, u)) \in Nat
        BY <1>3, <1>5, <3>1
      <3> QED
        BY <2>2, <3>2
    <2> QED
      BY <2>1, <2>2
  <1> QED
    BY <1>6, <1>7

\* A confirmed payment is received.
LEMMA OrderPaid ==
    ASSUME NEW p \in Seq(Payment), NEW x \in Payment, NEW q, q = Append(p, x),
           x.status = "confirmed"
    PROVE  Received(q, x.order) = Received(p, x.order) + x.amount
  BY PaymentCounted

\* A card payment that is not confirmed gets another status.
LEMMA PaymentSaved ==
    ASSUME NEW p \in Seq(Payment), NEW i \in DOMAIN p, NEW st \in PaymentStatus,
           p[i].method = "card",
           NEW q, q = [p EXCEPT ![i].status = st]
    PROVE  /\ q \in Seq(Payment) /\ Len(q) = Len(p) /\ DOMAIN q = DOMAIN p
           /\ \A j \in DOMAIN p : /\ j # i => q[j] = p[j]
                                  /\ q[j].order = p[j].order /\ q[j].method = p[j].method
                                  /\ q[j].amount = p[j].amount
           /\ q[i].status = st
  <1>1. p[i] \in Payment
    BY PaymentFacts
  <1> DEFINE x == [p[i] EXCEPT !.status = st]
  <1>2. /\ x \in Payment /\ x.status = st /\ x.order = p[i].order /\ x.method = p[i].method
        /\ x.amount = p[i].amount
    BY <1>1 DEF Payment
  <1>3. q = [p EXCEPT ![i] = x]
    OBVIOUS
  <1> HIDE DEF x
  <1>4. /\ q \in Seq(Payment) /\ Len(q) = Len(p) /\ DOMAIN q = DOMAIN p
        /\ q[i] = x /\ \A j \in DOMAIN p : j # i => q[j] = p[j]
    BY <1>2, <1>3
  <1>5. \A j \in DOMAIN p : /\ q[j].order = p[j].order /\ q[j].method = p[j].method
                            /\ q[j].amount = p[j].amount
    BY <1>2, <1>4
  <1> QED
    BY <1>2, <1>4, <1>5

\* What that adds to what its order received.
LEMMA SavedCounted ==
    ASSUME NEW p \in Seq(Payment), NEW i \in DOMAIN p, NEW st \in PaymentStatus,
           p[i].method = "card", p[i].status # "confirmed",
           NEW q, q = [p EXCEPT ![i].status = st]
    PROVE  \A o : Received(q, o) =
              IF p[i].order = o /\ st = "confirmed"
              THEN Received(p, o) + p[i].amount ELSE Received(p, o)
  <1>1. /\ q \in Seq(Payment) /\ DOMAIN q = DOMAIN p
        /\ q[i].status = st /\ \A j \in DOMAIN p : j # i => q[j] = p[j]
        /\ \A j \in DOMAIN p : q[j].order = p[j].order /\ q[j].amount = p[j].amount
    BY PaymentSaved
  <1> SUFFICES ASSUME NEW o
               PROVE  Received(q, o) =
                         IF p[i].order = o /\ st = "confirmed"
                         THEN Received(p, o) + p[i].amount ELSE Received(p, o)
    OBVIOUS
  <1>2. /\ Confirmed(q, o) = IF p[i].order = o /\ st = "confirmed"
                               THEN Confirmed(p, o) \cup {i} ELSE Confirmed(p, o)
        /\ Confirmed(p, o) \in SUBSET (DOMAIN p) /\ i \notin Confirmed(p, o)
    BY <1>1 DEF Confirmed
  <1> DEFINE S == Confirmed(p, o)
  <1>3. /\ AmountSum(q, S) = AmountSum(p, S)
        /\ AmountSum(q, S \cup {i}) = AmountSum(p, S) + p[i].amount
    <2>1. /\ DOMAIN p \subseteq DOMAIN q /\ i \in DOMAIN q /\ q[i].amount = p[i].amount
          /\ \A j \in DOMAIN p : q[j].amount = p[j].amount
          /\ p \in Seq(Payment) /\ q \in Seq(Payment) /\ S \in SUBSET (DOMAIN p) /\ i \notin S
      BY <1>1, <1>2
    <2> HIDE DEF S
    <2>2. /\ AmountSum(q, S) = AmountSum(p, S)
          /\ AmountSum(q, S \cup {i}) = AmountSum(p, S) + q[i].amount
      BY ONLY <2>1, OneMore
    <2> QED
      BY <2>1, <2>2
  <1> QED
    BY <1>2, <1>3 DEF Received

\* A confirmed receipt is received.
LEMMA ReceiptConfirmed ==
    ASSUME NEW p \in Seq(Payment), NEW i \in DOMAIN p,
           p[i].method = "card", p[i].status # "confirmed",
           NEW q, q = [p EXCEPT ![i].status = "confirmed"]
    PROVE  Received(q, p[i].order) = Received(p, p[i].order) + p[i].amount
  <1>1. "confirmed" \in PaymentStatus
    BY DEF PaymentStatus
  <1> QED
    BY ZenonT(40), <1>1, SavedCounted

\* A rejected one changes nothing.
LEMMA ReceiptRejected ==
    ASSUME NEW p \in Seq(Payment), NEW i \in DOMAIN p,
           p[i].method = "card", p[i].status # "confirmed",
           NEW q, q = [p EXCEPT ![i].status = "failed"]
    PROVE  Received(q, p[i].order) = Received(p, p[i].order)
  <1>1. "failed" \in PaymentStatus
    BY DEF PaymentStatus
  <1>2. /\ DOMAIN q = DOMAIN p /\ q[i].status = "failed"
        /\ \A j \in DOMAIN p : j # i => q[j] = p[j]
        /\ \A j \in DOMAIN p : q[j].order = p[j].order /\ q[j].amount = p[j].amount
    BY <1>1, PaymentSaved
  <1> DEFINE S == Confirmed(p, p[i].order)
  <1>3. Confirmed(q, p[i].order) = S
    BY <1>2 DEF Confirmed
  <1>4. IsFiniteSet(S) /\ \A j \in S : q[j].amount = p[j].amount
    BY <1>2, PaymentFacts DEF Confirmed
  <1>5. AmountSum(q, S) = AmountSum(p, S)
    BY ONLY <1>4, AmountSame
  <1> QED
    BY <1>3, <1>5 DEF Received

\* It is nothing to the wallet.
LEMMA SavedStands ==
    ASSUME NEW p \in Seq(Payment), NEW i \in DOMAIN p, NEW st \in PaymentStatus,
           p[i].method = "card",
           NEW q, q = [p EXCEPT ![i].status = st]
    PROVE  \A u \in Users : AmountSum(q, Standing(q, u)) = AmountSum(p, Standing(p, u))
  <1>1. /\ DOMAIN q = DOMAIN p
        /\ \A j \in DOMAIN p : j # i => q[j] = p[j]
        /\ \A j \in DOMAIN p : /\ q[j].order = p[j].order /\ q[j].method = p[j].method
                               /\ q[j].amount = p[j].amount
    BY PaymentSaved
  <1> TAKE u \in Users
  <1>2. Standing(q, u) = Standing(p, u) /\ Standing(p, u) \in SUBSET (DOMAIN p)
    BY <1>1 DEF Standing
  <1>3. IsFiniteSet(Standing(p, u)) /\ \A j \in Standing(p, u) : q[j].amount = p[j].amount
    BY <1>1, <1>2, PaymentFacts
  <1>4. AmountSum(q, Standing(p, u)) = AmountSum(p, Standing(p, u))
    BY ONLY <1>3, AmountSame
  <1> QED
    BY <1>2, <1>4

\* The confirmed payments of an order are refunded, its pending ones cancelled.
LEMMA PaymentsCancelled ==
    ASSUME NEW p \in Seq(Payment), NEW o \in Orders,
           \A i \in Confirmed(p, o) : p[i].method = "wallet",
           NEW q, q = [i \in DOMAIN p |->
                         IF i \in Confirmed(p, o) THEN [p[i] EXCEPT !.status = "refunded"]
                         ELSE IF i \in Pending(p, o) THEN [p[i] EXCEPT !.status = "cancelled"]
                         ELSE p[i]]
    PROVE  /\ q \in Seq(Payment) /\ Len(q) = Len(p) /\ DOMAIN q = DOMAIN p
           /\ \A i \in DOMAIN p : /\ q[i].order = p[i].order /\ q[i].method = p[i].method
                                  /\ q[i].amount = p[i].amount
                                  /\ p[i].order # o => q[i] = p[i]
                                  /\ p[i].status \notin {"confirmed", "pending"} => q[i] = p[i]
           /\ \A i \in DOMAIN p : p[i].order = o => q[i].status \notin {"confirmed", "pending"}
           /\ \A i \in Confirmed(p, o) : q[i].status = "refunded"
  <1> DEFINE A == Confirmed(p, o)
             B == Pending(p, o)
  <1>1. A \subseteq DOMAIN p /\ B \subseteq DOMAIN p /\ A \cap B = {}
    BY DEF Confirmed, Pending
  <1>2. ASSUME NEW i \in DOMAIN p
        PROVE  /\ [p[i] EXCEPT !.status = "refunded"] \in Payment
               /\ [p[i] EXCEPT !.status = "refunded"].status = "refunded"
               /\ [p[i] EXCEPT !.status = "refunded"].order = p[i].order
               /\ [p[i] EXCEPT !.status = "refunded"].method = p[i].method
               /\ [p[i] EXCEPT !.status = "refunded"].amount = p[i].amount
               /\ [p[i] EXCEPT !.status = "cancelled"] \in Payment
               /\ [p[i] EXCEPT !.status = "cancelled"].status = "cancelled"
               /\ [p[i] EXCEPT !.status = "cancelled"].order = p[i].order
               /\ [p[i] EXCEPT !.status = "cancelled"].method = p[i].method
               /\ [p[i] EXCEPT !.status = "cancelled"].amount = p[i].amount
               /\ p[i] \in Payment
    <2>1. p[i] \in Payment
      BY PaymentFacts
    <2> QED
      BY <2>1 DEF Payment, PaymentStatus
  <1>3. DOMAIN q = DOMAIN p /\ DOMAIN p = 1 .. Len(p) /\ Len(p) \in Nat
    BY PaymentFacts
  <1>4. \A i \in DOMAIN p : q[i] = IF i \in A THEN [p[i] EXCEPT !.status = "refunded"]
                                   ELSE IF i \in B THEN [p[i] EXCEPT !.status = "cancelled"]
                                   ELSE p[i]
    OBVIOUS
  <1>5. ASSUME NEW i \in DOMAIN p
        PROVE  /\ q[i] \in Payment
               /\ q[i].order = p[i].order /\ q[i].method = p[i].method
               /\ q[i].amount = p[i].amount
               /\ i \in A => q[i].status = "refunded"
               /\ i \in B => q[i].status = "cancelled"
               /\ i \notin A /\ i \notin B => q[i] = p[i]
    BY <1>1, <1>2, <1>4
  <1>6. q \in Seq(Payment) /\ Len(q) = Len(p)
    <2>1. q = [i \in 1 .. Len(p) |-> q[i]]
      BY <1>3
    <2>2. \A i \in 1 .. Len(p) : q[i] \in Payment
      BY <1>3, <1>5
    <2> QED
      BY ONLY <1>3, <2>1, <2>2
  <1>7. \A i \in DOMAIN p : /\ i \in A <=> p[i].order = o /\ p[i].status = "confirmed"
                            /\ i \in B <=> p[i].order = o /\ p[i].status = "pending"
    BY DEF Confirmed, Pending
  <1>8. \A i \in DOMAIN p : /\ p[i].order # o => q[i] = p[i]
                            /\ p[i].status \notin {"confirmed", "pending"} => q[i] = p[i]
                            /\ p[i].order = o => q[i].status \notin {"confirmed", "pending"}
    BY <1>5, <1>7
  <1> QED
    BY <1>1, <1>3, <1>5, <1>6, <1>8 DEF A

\* The order has nothing left, and its customer gets back what stood.
LEMMA CancelledCounted ==
    ASSUME NEW p \in Seq(Payment), NEW q \in Seq(Payment), NEW o \in Orders,
           DOMAIN q = DOMAIN p,
           \A i \in Confirmed(p, o) : p[i].method = "wallet",
           \A i \in DOMAIN p : /\ q[i].order = p[i].order /\ q[i].method = p[i].method
                               /\ q[i].amount = p[i].amount
                               /\ p[i].order # o => q[i] = p[i]
                               /\ p[i].order = o => q[i].status \notin {"confirmed", "pending"}
                               /\ p[i].status \notin {"confirmed", "pending"} => q[i] = p[i]
    PROVE  /\ \A a \in Orders : Received(q, a) = IF a = o THEN 0 ELSE Received(p, a)
           /\ \A u \in Users : AmountSum(p, Standing(p, u)) =
                IF u = Owner[o] THEN AmountSum(q, Standing(q, u)) + AmountSum(p, Confirmed(p, o))
                ELSE AmountSum(q, Standing(q, u))
  <1> DEFINE A == Confirmed(p, o)
             B == Pending(p, o)
  <1>1. A \subseteq DOMAIN p /\ B \subseteq DOMAIN p /\ A \cap B = {}
    BY DEF Confirmed, Pending
  <1>2. /\ DOMAIN q = DOMAIN p
        /\ \A i \in DOMAIN p : /\ q[i].order = p[i].order /\ q[i].method = p[i].method
                               /\ q[i].amount = p[i].amount
                               /\ p[i].order # o => q[i] = p[i]
                               /\ p[i].order = o => q[i].status \notin {"confirmed", "pending"}
                               /\ p[i].status \notin {"confirmed", "pending"} => q[i] = p[i]
    OBVIOUS
  <1>3. \A i \in DOMAIN p : /\ i \in A <=> p[i].order = o /\ p[i].status = "confirmed"
                            /\ i \in B <=> p[i].order = o /\ p[i].status = "pending"
    BY DEF Confirmed, Pending
  <1>4. p \in Seq(Payment) /\ \A i \in A : p[i].method = "wallet"
    OBVIOUS
  <1>5. \A S \in SUBSET (DOMAIN p) : AmountSum(q, S) = AmountSum(p, S) /\ AmountSum(p, S) \in Nat
    <2> SUFFICES ASSUME NEW S \in SUBSET (DOMAIN p)
                 PROVE  AmountSum(q, S) = AmountSum(p, S) /\ AmountSum(p, S) \in Nat
      OBVIOUS
    <2>1. IsFiniteSet(S) /\ AmountSum(p, S) \in Nat
      BY PaymentFacts
    <2>2. \A j \in S : q[j].amount = p[j].amount
      BY <1>2
    <2>3. AmountSum(q, S) = AmountSum(p, S)
      BY ONLY <2>1, <2>2, AmountSame
    <2> QED
      BY <2>1, <2>3
  <1> HIDE DEF A, B
  <1>6. ASSUME NEW a \in Orders
         PROVE  Received(q, a) = IF a = o THEN 0 ELSE Received(p, a)
    <2>1. CASE a = o
      <3>1. Confirmed(q, a) = {}
        BY <1>2, <2>1 DEF Confirmed
      <3> QED
        BY ONLY <2>1, <3>1, AmountEmpty DEF Received
    <2>2. CASE a # o
      <3>1. Confirmed(q, a) = Confirmed(p, a) /\ Confirmed(p, a) \in SUBSET (DOMAIN p)
        <4>1. ASSUME NEW i \in DOMAIN p
              PROVE  q[i].order = a /\ q[i].status = "confirmed"
                       <=> p[i].order = a /\ p[i].status = "confirmed"
          <5>1. q[i].order = p[i].order
            BY <1>2
          <5>2. p[i].order = a => q[i] = p[i]
            BY <1>2, <2>2
          <5> QED
            BY <5>1, <5>2
        <4> QED
          BY <1>2, <4>1 DEF Confirmed
      <3> QED
        BY <1>5, <2>2, <3>1 DEF Received
    <2> QED
      BY <2>1, <2>2
  <1>7. ASSUME NEW u \in Users
         PROVE  AmountSum(p, Standing(p, u)) =
                  IF u = Owner[o] THEN AmountSum(q, Standing(q, u)) + AmountSum(p, A)
                  ELSE AmountSum(q, Standing(q, u))
    <2>1. Standing(p, u) \in SUBSET (DOMAIN p) /\ A \in SUBSET (DOMAIN p)
      BY <1>1 DEF Standing
    <2>2. CASE u = Owner[o]
      <3>1. Standing(q, u) = Standing(p, u) \ A
        <4>1. ASSUME NEW i \in DOMAIN p
              PROVE  q[i].status = "confirmed" <=> p[i].status = "confirmed" /\ i \notin A
          <5>1. CASE p[i].status = "confirmed"
            BY <1>2, <1>3, <2>2, <5>1
          <5>2. CASE p[i].status # "confirmed"
            BY <1>2, <1>3, <5>2
          <5> QED
            BY <5>1, <5>2
        <4> QED
          BY <1>2, <4>1 DEF Standing
      <3>2. A \subseteq Standing(p, u)
        BY <1>1, <1>3, <1>4, <2>2 DEF Standing
      <3> DEFINE R == Standing(q, u)
      <3>3. /\ R \in SUBSET (DOMAIN p) /\ R \cap A = {} /\ R \cup A = Standing(p, u)
        BY <2>1, <3>1, <3>2
      <3> HIDE DEF R
      <3>4. /\ IsFiniteSet(R) /\ IsFiniteSet(A) /\ \A i \in R \cup A : p[i].amount \in Nat
        BY <1>1, <3>3, PaymentFacts
      <3>5. AmountSum(p, R \cup A) = AmountSum(p, R) + AmountSum(p, A)
        BY ONLY <3>3, <3>4, AmountUnion
      <3>6. AmountSum(p, R) = AmountSum(q, R)
        BY <1>5, <3>3
      <3> QED
        BY <2>2, <3>3, <3>5, <3>6 DEF R
    <2>3. CASE u # Owner[o]
      <3>1. Standing(q, u) = Standing(p, u)
        <4>1. ASSUME NEW i \in DOMAIN p, Owner[p[i].order] = u
              PROVE  q[i] = p[i]
          BY <1>2, <2>3, <4>1
        <4>2. ASSUME NEW i \in DOMAIN p
              PROVE  /\ Owner[q[i].order] = u <=> Owner[p[i].order] = u
                     /\ Owner[p[i].order] = u =>
                          q[i].method = p[i].method /\ q[i].status = p[i].status
          BY <1>2, <4>1
        <4> QED
          BY <1>2, <4>2 DEF Standing
      <3>2. AmountSum(q, Standing(q, u)) = AmountSum(p, Standing(p, u))
            /\ AmountSum(p, Standing(p, u)) \in Nat
        BY <1>5, <2>1, <3>1
      <3> QED
        BY <2>3, <3>2
    <2> QED
      BY <2>2, <2>3
  <1> QED
    BY <1>6, <1>7 DEF A

-----------------------------------------------------------------------------
(* The columns of the first part *)

\* What a review can be.
LEMMA ReviewTypes ==
    /\ NoReview \in Review /\ NoReview.pc = "idle"
    /\ \A i \in 1 .. MaxPayments, to \in {"confirmed", "failed"} :
          [pc |-> "read", pay |-> i, to |-> to] \in Review
    /\ \A i \in 1 .. MaxPayments, to \in {"confirmed", "failed"}, prev \in PaymentStatus :
          \A pc \in {"ready", "saved"} :
             [pc |-> pc, pay |-> i, to |-> to, prev |-> prev] \in Review
    /\ \A i \in 1 .. MaxPayments, to \in {"confirmed", "failed"}, prev \in PaymentStatus :
          \A pc \in {"decided", "settled"}, seen \in Snapshot :
             [pc |-> pc, pay |-> i, to |-> to, prev |-> prev, seen |-> seen] \in Review
    /\ \A j \in Review : j.pc # "idle" => /\ j # NoReview
                                          /\ j.pay \in 1 .. MaxPayments
                                          /\ j.to \in {"confirmed", "failed"}
    /\ \A j \in Review : j.pc \in {"ready", "saved"} =>
          j \in [pc : {"ready", "saved"}, pay : 1 .. MaxPayments,
                 to : {"confirmed", "failed"}, prev : PaymentStatus]
    /\ \A j \in Review : j.pc \in {"decided", "settled"} =>
          j \in [pc : {"decided", "settled"}, pay : 1 .. MaxPayments,
                 to : {"confirmed", "failed"}, prev : PaymentStatus, seen : Snapshot]
    /\ \A j \in Review : j # NoReview => j.pc # "idle"
  BY DEF Review, NoReview

\* What a review becomes when only its point of control changes.
LEMMA ReviewEdits ==
    /\ \A j \in [pc : {"ready", "saved"}, pay : 1 .. MaxPayments,
                 to : {"confirmed", "failed"}, prev : PaymentStatus] :
          [j EXCEPT !.pc = "saved"] = [pc |-> "saved", pay |-> j.pay, to |-> j.to, prev |-> j.prev]
    /\ \A j \in [pc : {"decided", "settled"}, pay : 1 .. MaxPayments,
                 to : {"confirmed", "failed"}, prev : PaymentStatus, seen : Snapshot] :
          [j EXCEPT !.pc = "settled"] = [pc |-> "settled", pay |-> j.pay, to |-> j.to,
                                         prev |-> j.prev, seen |-> j.seen]
  OBVIOUS

\* Numbers the steps work with.
LEMMA Numbers ==
    ASSUME TypeOK
    PROVE  /\ MaxExtra \in Nat \ {0} /\ Discount \in Nat \ {0} /\ CreditUnit \in Nat \ {0}
           /\ MaxPayments \in Nat /\ MaxTopUp \in Nat
           /\ \A o \in Orders : /\ price[o] \in Nat /\ Received(pays, o) \in Nat
                                /\ Total(o) = Received(pays, o) /\ Total(o) \in Nat
                                /\ Due(o) = price[o] - Received(pays, o) /\ Due(o) \in Int
                                /\ Owner[o] \in Users
           /\ \A u \in Users : cash[u] \in Nat /\ topped[u] \in Nat
           /\ \A i \in DOMAIN pays : pays[i].order \in Orders /\ pays[i].amount \in Nat \ {0}
           /\ DOMAIN pays = 1 .. Len(pays) /\ Len(pays) \in Nat
  <1>1. \A o \in Orders : Received(pays, o) \in Nat
    BY PaymentFacts DEF TypeOK
  <1>2. /\ \A i \in DOMAIN pays : pays[i].order \in Orders /\ pays[i].amount \in Nat \ {0}
        /\ DOMAIN pays = 1 .. Len(pays) /\ Len(pays) \in Nat
    BY PaymentFacts DEF TypeOK
  <1>3. \A o \in Orders : Total(o) = Received(pays, o)
    BY TotalIsReceived
  <1>4. ASSUME NEW o \in Orders
        PROVE  /\ price[o] \in Nat /\ Owner[o] \in Users
               /\ Due(o) = price[o] - Received(pays, o) /\ Due(o) \in Int
    BY <1>1, <1>3, CheckoutAssumption DEF TypeOK, Due
  <1>5. \A u \in Users : cash[u] \in Nat /\ topped[u] \in Nat
    BY CheckoutAssumption DEF TypeOK
  <1> QED
    BY <1>1, <1>2, <1>3, <1>4, <1>5, CheckoutAssumption

\* Nothing is placed, brought in or reviewed.
LEMMA InitEstablishesCashInv == Init => CashInv
  <1> SUFFICES ASSUME Init PROVE CashInv
    OBVIOUS
  <1> USE CheckoutAssumption DEF Init
  <1>1. TypeOK
    BY ReviewTypes DEF TypeOK, OrderStatus
  <1>2. ReviewsKnown /\ RefundsRecorded
    BY ReviewTypes DEF ReviewsKnown, RefundsRecorded
  <1>3. CashStands
    <2>1. \A u : Standing(pays, u) = {}
      BY DEF Standing
    <2>2. AmountSum(pays, {}) = 0
      BY ONLY AmountEmpty
    <2>3. \A u \in Users : AmountSum(pays, Standing(pays, u)) = 0
      BY ONLY <2>1, <2>2
    <2>4. \A u \in Users : topped[u] = 0 /\ cash[u] = 0
      OBVIOUS
    <2> QED
      BY ONLY <2>3, <2>4 DEF CashStands
  <1>4. QuotesDiffer
    BY DEF QuotesDiffer
  <1> QED
    BY <1>1, <1>2, <1>3, <1>4 DEF CashInv

\* A step that moves no money.
LEMMA MoneyKept ==
    ASSUME CashInv, UNCHANGED <<pays, money>>
    PROVE  RefundsRecorded' /\ CashStands'
  BY DEF CashInv, RefundsRecorded, CashStands, money

\* A step that moves neither money nor quotes and concerns no review.
LEMMA OrderStepKeepsCashInv ==
    ASSUME CashInv, UNCHANGED <<pays, money, quotes, review>>,
           status' \in [Orders -> OrderStatus], price' \in [Orders -> Nat],
           usages' \subseteq Orders, uses' \in Nat,
           sub' \in [Orders -> {"none", "pending", "active"}]
    PROVE  CashInv'
  <1>1. TypeOK'
    BY DEF CashInv, TypeOK, money
  <1>2. ReviewsKnown' /\ QuotesDiffer'
    BY DEF CashInv, ReviewsKnown, QuotesDiffer
  <1> QED
    BY <1>1, <1>2, MoneyKept DEF CashInv

\* A step of a review that saves nothing but an order and its subscription.
LEMMA ReviewStepKeepsCashInv ==
    ASSUME CashInv, NEW r \in Reviewers, NEW j \in Review,
           review' = [review EXCEPT ![r] = j],
           j # NoReview => j.pay \in DOMAIN pays /\ pays[j.pay].method = "card",
           UNCHANGED <<price, pays, money, coupon, quotes>>,
           status' \in [Orders -> OrderStatus],
           sub' \in [Orders -> {"none", "pending", "active"}]
    PROVE  CashInv'
  <1>1. /\ review' \in [Reviewers -> Review]
        /\ review'[r] = j /\ \A q \in Reviewers \ {r} : review'[q] = review[q]
    BY DEF CashInv, TypeOK
  <1>2. TypeOK'
    BY <1>1 DEF CashInv, TypeOK, money, coupon
  <1>3. ReviewsKnown'
    BY <1>1 DEF CashInv, ReviewsKnown
  <1>4. QuotesDiffer'
    BY DEF CashInv, QuotesDiffer
  <1> QED
    BY <1>2, <1>3, <1>4, MoneyKept DEF CashInv

-----------------------------------------------------------------------------
(* The customer's steps *)

\* Money from outside.
LEMMA TopUpKeepsCashInv ==
    ASSUME CashInv, NEW u \in Users, NEW a \in 1 .. MaxTopUp, TopUp(u, a)
    PROVE  CashInv'
  <1>1. /\ topped[u] + a <= MaxTopUp
        /\ cash' = [cash EXCEPT ![u] = @ + a] /\ topped' = [topped EXCEPT ![u] = @ + a]
        /\ UNCHANGED <<status, price, pays, keys, coupon, quotes, sub, review>>
    BY DEF TopUp
  <1>2. TypeOK /\ cash[u] \in Nat /\ topped[u] \in Nat /\ a \in Nat /\ MaxTopUp \in Nat
    BY Numbers DEF CashInv
  <1>3. /\ cash'[u] = cash[u] + a /\ topped'[u] = topped[u] + a
        /\ \A v \in Users \ {u} : cash'[v] = cash[v] /\ topped'[v] = topped[v]
        /\ cash' \in [Users -> Nat] /\ topped' \in [Users -> 0 .. MaxTopUp]
    BY <1>1, <1>2 DEF TypeOK
  <1>4. TypeOK'
    BY <1>1, <1>2, <1>3 DEF TypeOK, coupon
  <1>5. ReviewsKnown' /\ RefundsRecorded' /\ QuotesDiffer'
    BY <1>1 DEF CashInv, ReviewsKnown, RefundsRecorded, QuotesDiffer
  <1>6. CashStands'
    <2> SUFFICES ASSUME NEW v \in Users
                 PROVE  topped'[v] = cash'[v] + AmountSum(pays', Standing(pays', v))
      BY DEF CashStands
    <2>1. pays' = pays
      BY <1>1
    <2>2. topped[v] = cash[v] + AmountSum(pays, Standing(pays, v))
      BY DEF CashInv, CashStands
    <2>3. AmountSum(pays, Standing(pays, v)) \in Nat
      BY <1>2, PaymentFacts DEF TypeOK
    <2> DEFINE m == AmountSum(pays, Standing(pays, v))
    <2>4. AmountSum(pays', Standing(pays', v)) = m
      BY <2>1
    <2> HIDE DEF m
    <2> QED
      BY <1>2, <1>3, <2>2, <2>3, <2>4 DEF m
  <1> QED
    BY <1>4, <1>5, <1>6 DEF CashInv

\* Rounding down to a multiple.
LEMMA RoundingDown ==
    ASSUME NEW c \in Nat, NEW P \in Nat \ {0}
    PROVE  (c \div P) * P \in Nat /\ (c \div P) * P <= c
  <1>1. c \div P \in Nat /\ (c \div P) * P <= c
    OBVIOUS
  <1> DEFINE q == c \div P
  <1>2. q \in Nat /\ P \in Nat
    BY <1>1
  <1> HIDE DEF q
  <1>3. q * P \in Nat
    BY <1>2
  <1> QED
    BY <1>1, <1>3 DEF q

\* A wallet payment takes from the wallet what it books as a payment.
LEMMA PayKeepsCashInv ==
    ASSUME CashInv, NEW o \in Orders, NEW credit \in 1 .. MaxTopUp, NEW up \in ProviderUp,
           PayWithWallet(o, credit, up)
    PROVE  /\ CashInv'
           /\ \E x \in Payment :
                /\ pays' = Append(pays, x) /\ x.order = o /\ x.method = "wallet"
                /\ x.status = "confirmed" /\ x.amount <= price[o] - Received(pays, o)
                /\ status' = [status EXCEPT ![o] =
                                IF Received(pays, o) + x.amount < price[o]
                                  THEN "awaiting_payment" ELSE "paid"]
  <1> DEFINE u == Owner[o]
             amount == Smaller(Rounded(credit), Due(o))
             x == [order |-> o, method |-> "wallet", status |-> "confirmed", amount |-> amount]
             key == <<"order-wallet-payment", o, Total(o)>>
  <1>1. /\ status[o] \in Unfinished /\ credit \in 1 .. cash[u] /\ amount > 0
        /\ Len(pays) < MaxPayments
        /\ cash' = [cash EXCEPT ![u] = @ - amount]
        /\ keys' = keys \cup {key}
        /\ pays' = Append(pays, x)
        /\ status' = [status EXCEPT ![o] = AfterConfirmation(o, Total(o) + amount)]
        /\ sub' = IF Total(o) + amount >= price[o] /\ up THEN WithSubscription(o) ELSE sub
        /\ UNCHANGED <<price, topped, coupon, quotes, review>>
    BY DEF PayWithWallet, Spendable
  <1>2. TypeOK
    BY DEF CashInv
  <1>3. /\ u \in Users /\ cash[u] \in Nat /\ price[o] \in Nat /\ Received(pays, o) \in Nat
        /\ Total(o) = Received(pays, o) /\ Due(o) = price[o] - Received(pays, o)
        /\ CreditUnit \in Nat \ {0} /\ MaxPayments \in Nat /\ Len(pays) \in Nat
    BY <1>2, Numbers
  <1>4. Rounded(credit) \in Nat /\ Rounded(credit) <= credit
    <2>1. credit \in Nat
      BY <1>1, <1>3
    <2>2. (credit \div CreditUnit) * CreditUnit \in Nat
            /\ (credit \div CreditUnit) * CreditUnit <= credit
      BY ONLY <1>3, <2>1, RoundingDown
    <2> QED
      BY <2>2 DEF Rounded
  <1>5. amount \in Nat \ {0} /\ amount <= cash[u] /\ amount <= price[o] - Received(pays, o)
    BY <1>1, <1>3, <1>4 DEF Smaller
  <1>6. x \in Payment /\ x.order = o /\ x.method = "wallet" /\ x.status = "confirmed"
        /\ x.amount = amount
    BY <1>5 DEF Payment, PaymentStatus
  <1> HIDE DEF amount, x, u
  <1>7. status' = [status EXCEPT ![o] = IF Received(pays, o) + x.amount < price[o]
                                          THEN "awaiting_payment" ELSE "paid"]
    BY <1>1, <1>3, <1>6 DEF AfterConfirmation
  <1>8. /\ pays \in Seq(Payment) /\ pays' \in Seq(Payment) /\ Len(pays') = Len(pays) + 1
        /\ DOMAIN pays' = DOMAIN pays \cup {Len(pays) + 1}
        /\ pays'[Len(pays) + 1] = x /\ \A i \in DOMAIN pays : pays'[i] = pays[i]
        /\ \A v \in Users :
             AmountSum(pays', Standing(pays', v)) =
               IF Owner[x.order] = v THEN AmountSum(pays, Standing(pays, v)) + x.amount
               ELSE AmountSum(pays, Standing(pays, v))
    <2>1. pays \in Seq(Payment) /\ x \in Payment /\ pays' = Append(pays, x)
      BY <1>1, <1>2, <1>6 DEF TypeOK
    <2>2. /\ pays' \in Seq(Payment) /\ Len(pays') = Len(pays) + 1
          /\ DOMAIN pays' = DOMAIN pays \cup {Len(pays) + 1}
          /\ pays'[Len(pays) + 1] = x /\ \A i \in DOMAIN pays : pays'[i] = pays[i]
      BY ONLY <2>1, PaymentAppended
    <2>3. x.method = "wallet" /\ x.status = "confirmed"
      BY <1>6
    <2>5. \A v \in Users :
             AmountSum(pays', Standing(pays', v)) =
               IF Owner[x.order] = v /\ x.method = "wallet" /\ x.status = "confirmed"
               THEN AmountSum(pays, Standing(pays, v)) + x.amount
               ELSE AmountSum(pays, Standing(pays, v))
      BY ONLY <2>1, PaymentCounted
    <2>4. \A v \in Users :
             AmountSum(pays', Standing(pays', v)) =
               IF Owner[x.order] = v THEN AmountSum(pays, Standing(pays, v)) + x.amount
               ELSE AmountSum(pays, Standing(pays, v))
      BY ONLY <2>3, <2>5
    <2> QED
      BY <2>1, <2>2, <2>4
  <1>9. /\ cash'[u] = cash[u] - amount /\ \A v \in Users \ {u} : cash'[v] = cash[v]
        /\ cash' \in [Users -> Nat]
    BY <1>1, <1>2, <1>3, <1>5 DEF TypeOK
  <1>10. TypeOK'
    <2>1. status' \in [Orders -> OrderStatus]
      BY <1>2, <1>7 DEF TypeOK, OrderStatus
    <2>2. sub' \in [Orders -> {"none", "pending", "active"}]
      BY <1>1, <1>2 DEF TypeOK, WithSubscription
    <2> QED
      BY <1>1, <1>2, <1>8, <1>9, <2>1, <2>2 DEF TypeOK, coupon
  <1>11. ReviewsKnown'
    <2>1. Len(pays') <= MaxPayments
      BY <1>1, <1>3, <1>8
    <2>2. ASSUME NEW r \in Reviewers, review'[r] # NoReview
          PROVE  review'[r].pay \in DOMAIN pays' /\ pays'[review'[r].pay].method = "card"
      BY <1>1, <1>8, <2>2 DEF CashInv, ReviewsKnown
    <2> QED
      BY <2>1, <2>2 DEF ReviewsKnown
  <1>12. RefundsRecorded'
    <2> SUFFICES ASSUME NEW i \in Nat, RefundKey(i) \in keys'
                 PROVE  /\ i \in DOMAIN pays' /\ pays'[i].status = "refunded"
                        /\ pays'[i].method = "wallet"
      BY DEF RefundsRecorded, RefundKey
    <2>1. RefundKey(i) # key
      BY DEF RefundKey
    <2>2. i \in DOMAIN pays /\ pays[i].status = "refunded" /\ pays[i].method = "wallet"
      BY <1>1, <2>1 DEF CashInv, RefundsRecorded
    <2> QED
      BY <1>8, <2>2
  <1>13. CashStands'
    <2> SUFFICES ASSUME NEW v \in Users
                 PROVE  topped'[v] = cash'[v] + AmountSum(pays', Standing(pays', v))
      BY DEF CashStands
    <2> DEFINE m == AmountSum(pays, Standing(pays, v))
    <2>1. m \in Nat /\ topped[v] = cash[v] + m /\ topped' = topped /\ cash[v] \in Nat
      BY <1>1, <1>2, Numbers, PaymentFacts DEF TypeOK, CashInv, CashStands
    <2>2. AmountSum(pays', Standing(pays', v)) = IF u = v THEN m + amount ELSE m
      BY <1>6, <1>8 DEF u
    <2> HIDE DEF m
    <2> QED
      BY <1>3, <1>5, <1>9, <2>1, <2>2
  <1>14. QuotesDiffer'
    BY <1>1 DEF CashInv, QuotesDiffer
  <1> QED
    BY <1>1, <1>5, <1>6, <1>7, <1>10, <1>11, <1>12, <1>13, <1>14 DEF CashInv

\* What cancelling an order does to the payments and the wallet.
LEMMA CancelOrderEffects ==
    ASSUME CashInv, NEW o \in Orders, CancelOrder(o)
    PROVE  /\ pays \in Seq(Payment) /\ pays' \in Seq(Payment)
           /\ Len(pays') = Len(pays) /\ DOMAIN pays' = DOMAIN pays
           /\ \A i \in Confirmed(pays, o) : pays[i].method = "wallet"
           /\ \A i \in DOMAIN pays :
                /\ pays'[i].order = pays[i].order /\ pays'[i].method = pays[i].method
                /\ pays'[i].amount = pays[i].amount
                /\ pays[i].order # o => pays'[i] = pays[i]
                /\ pays[i].order = o => pays'[i].status \notin {"confirmed", "pending"}
                /\ pays[i].status \notin {"confirmed", "pending"} => pays'[i] = pays[i]
           /\ \A i \in Confirmed(pays, o) : pays'[i].status = "refunded"
           /\ Refundable(Confirmed(pays, o)) = Confirmed(pays, o)
           /\ keys' = keys \cup {RefundKey(i) : i \in Confirmed(pays, o)}
           /\ cash' = [cash EXCEPT ![Owner[o]] = @ + AmountSum(pays, Confirmed(pays, o))]
           /\ status[o] \in Unfinished /\ status' = [status EXCEPT ![o] = "cancelled"]
           /\ usages' = usages \ {o}
           /\ uses' = IF o \in usages /\ uses > 0 THEN uses - 1 ELSE uses
           /\ UNCHANGED <<price, topped, quotes, sub, review>>
  <1>1. pays \in Seq(Payment)
    BY DEF CashInv, TypeOK
  <1>2. /\ PaymentsOf(o, "confirmed") = Confirmed(pays, o)
        /\ PaymentsOf(o, "pending") = Pending(pays, o)
        /\ \A S : SumOf(S) = AmountSum(pays, S)
    BY TotalIsReceived
  <1>3. /\ \A i \in Confirmed(pays, o) : pays[i].method = "wallet"
        /\ pays' = [i \in DOMAIN pays |->
                      IF i \in Confirmed(pays, o) THEN [pays[i] EXCEPT !.status = "refunded"]
                      ELSE IF i \in Pending(pays, o) THEN [pays[i] EXCEPT !.status = "cancelled"]
                      ELSE pays[i]]
    BY <1>2 DEF CancelOrder
  <1>4. Refundable(Confirmed(pays, o)) = Confirmed(pays, o)
    <2>1. \A i \in Confirmed(pays, o) : i \in Nat /\ pays[i].status # "refunded"
      BY <1>1, PaymentFacts DEF Confirmed
    <2>2. \A i \in Confirmed(pays, o) : RefundKey(i) \notin keys
      BY <2>1 DEF CashInv, RefundsRecorded
    <2> QED
      BY <1>3, <2>2 DEF Refundable
  <1>5. /\ keys' = keys \cup {RefundKey(i) : i \in Confirmed(pays, o)}
        /\ cash' = [cash EXCEPT ![Owner[o]] = @ + AmountSum(pays, Confirmed(pays, o))]
    BY <1>2, <1>4 DEF CancelOrder, Refund
  <1>6. /\ status[o] \in Unfinished /\ status' = [status EXCEPT ![o] = "cancelled"]
        /\ usages' = usages \ {o}
        /\ uses' = IF o \in usages /\ uses > 0 THEN uses - 1 ELSE uses
        /\ UNCHANGED <<price, topped, quotes, sub, review>>
    BY DEF CancelOrder, ReturnCoupon
  <1>7. /\ pays' \in Seq(Payment) /\ Len(pays') = Len(pays) /\ DOMAIN pays' = DOMAIN pays
        /\ \A i \in DOMAIN pays :
             /\ pays'[i].order = pays[i].order /\ pays'[i].method = pays[i].method
             /\ pays'[i].amount = pays[i].amount
             /\ pays[i].order # o => pays'[i] = pays[i]
             /\ pays[i].status \notin {"confirmed", "pending"} => pays'[i] = pays[i]
    BY ONLY SMTT(30), <1>1, <1>3, o \in Orders, PaymentsCancelled
  <1>8. /\ \A i \in DOMAIN pays : pays[i].order = o => pays'[i].status \notin {"confirmed", "pending"}
        /\ \A i \in Confirmed(pays, o) : pays'[i].status = "refunded"
    BY ONLY <1>1, <1>3, o \in Orders, PaymentsCancelled
  <1> QED
    BY <1>1, <1>3, <1>4, <1>5, <1>6, <1>7, <1>8

\* A cancelled order's wallet payments go back to the wallet.
LEMMA CancelKeepsCashInv ==
    ASSUME CashInv, NEW o \in Orders, CancelOrder(o)
    PROVE  CashInv'
  <1> DEFINE A == Confirmed(pays, o)
  <1>1. /\ pays \in Seq(Payment) /\ pays' \in Seq(Payment)
        /\ Len(pays') = Len(pays) /\ DOMAIN pays' = DOMAIN pays
        /\ \A i \in A : pays[i].method = "wallet" /\ pays'[i].status = "refunded"
        /\ \A i \in DOMAIN pays :
             /\ pays'[i].order = pays[i].order /\ pays'[i].method = pays[i].method
             /\ pays'[i].amount = pays[i].amount
             /\ pays[i].order # o => pays'[i] = pays[i]
             /\ pays[i].order = o => pays'[i].status \notin {"confirmed", "pending"}
             /\ pays[i].status \notin {"confirmed", "pending"} => pays'[i] = pays[i]
    BY CancelOrderEffects
  <1>2. /\ keys' = keys \cup {RefundKey(i) : i \in A}
        /\ cash' = [cash EXCEPT ![Owner[o]] = @ + AmountSum(pays, A)]
        /\ status' = [status EXCEPT ![o] = "cancelled"]
        /\ usages' = usages \ {o}
        /\ uses' = IF o \in usages /\ uses > 0 THEN uses - 1 ELSE uses
        /\ UNCHANGED <<price, topped, quotes, sub, review>>
    BY CancelOrderEffects
  <1>3. TypeOK /\ Owner[o] \in Users /\ A \in SUBSET (DOMAIN pays) /\ AmountSum(pays, A) \in Nat
    BY <1>1, Numbers, PaymentFacts DEF CashInv
  <1> HIDE DEF A
  <1>4. /\ cash'[Owner[o]] = cash[Owner[o]] + AmountSum(pays, A)
        /\ \A u \in Users \ {Owner[o]} : cash'[u] = cash[u]
        /\ cash' \in [Users -> Nat]
    BY <1>2, <1>3 DEF TypeOK
  <1>5. TypeOK'
    <2>1. uses' \in Nat
      BY <1>2, <1>3 DEF TypeOK
    <2>2. status' \in [Orders -> OrderStatus]
      BY <1>2, <1>3 DEF TypeOK, OrderStatus
    <2> QED
      BY <1>1, <1>2, <1>3, <1>4, <2>1, <2>2 DEF TypeOK
  <1>6. ReviewsKnown'
    BY <1>1, <1>2 DEF CashInv, ReviewsKnown
  <1>7. RefundsRecorded'
    <2> SUFFICES ASSUME NEW i \in Nat, RefundKey(i) \in keys'
                 PROVE  /\ i \in DOMAIN pays' /\ pays'[i].status = "refunded"
                        /\ pays'[i].method = "wallet"
      BY DEF RefundsRecorded, RefundKey
    <2>1. CASE RefundKey(i) \in keys
      <3>1. i \in DOMAIN pays /\ pays[i].status = "refunded" /\ pays[i].method = "wallet"
        BY <2>1 DEF CashInv, RefundsRecorded
      <3> QED
        BY <1>1, <3>1
    <2>2. CASE RefundKey(i) \notin keys
      <3>1. PICK j \in A : RefundKey(i) = RefundKey(j)
        BY <1>2, <2>2
      <3>2. i = j
        BY <3>1 DEF RefundKey
      <3> QED
        BY <1>1, <1>3, <3>2
    <2> QED
      BY <2>1, <2>2
  <1>8. CashStands'
    <2> SUFFICES ASSUME NEW u \in Users
                 PROVE  topped'[u] = cash'[u] + AmountSum(pays', Standing(pays', u))
      BY DEF CashStands
    <2>1. /\ topped'[u] = topped[u] /\ topped[u] = cash[u] + AmountSum(pays, Standing(pays, u))
          /\ cash[u] \in Nat
      BY <1>2, <1>3, Numbers DEF CashInv, CashStands
    <2>2. AmountSum(pays', Standing(pays', u)) \in Nat
      BY <1>1, PaymentFacts
    <2>3. AmountSum(pays, Standing(pays, u)) =
             IF u = Owner[o] THEN AmountSum(pays', Standing(pays', u)) + AmountSum(pays, A)
             ELSE AmountSum(pays', Standing(pays', u))
      BY <1>1, CancelledCounted DEF A
    <2> DEFINE m == AmountSum(pays, Standing(pays, u))
               n == AmountSum(pays', Standing(pays', u))
    <2> HIDE DEF m, n
    <2>4. CASE u = Owner[o]
      <3>1. topped[u] = cash[u] + m /\ m = n + AmountSum(pays, A) /\ n \in Nat
            /\ cash'[u] = cash[u] + AmountSum(pays, A)
        BY <1>4, <2>1, <2>2, <2>3, <2>4 DEF m, n
      <3> QED
        BY <1>3, <2>1, <3>1 DEF n
    <2>5. CASE u # Owner[o]
      BY <1>4, <2>1, <2>3, <2>5
    <2> QED
      BY <2>4, <2>5
  <1>9. QuotesDiffer'
    BY <1>2 DEF CashInv, QuotesDiffer
  <1> QED
    BY <1>5, <1>6, <1>7, <1>8, <1>9 DEF CashInv

\* A coupon changes a price only, and leaves it above zero.
LEMMA CouponKeepsCashInv ==
    ASSUME CashInv, NEW o \in Orders, ApplyCoupon(o)
    PROVE  /\ CashInv'
           /\ status[o] \in Unfinished /\ QuotesOf(o) = {}
           /\ UNCHANGED <<status, pays, quotes, review>>
           /\ price' = [price EXCEPT ![o] = price'[o]]
           /\ price'[o] \in Nat /\ price'[o] <= price[o] /\ Received(pays, o) <= price'[o]
           /\ usages' = usages \cup {o}
  <1> DEFINE discount == Smaller(price[o], Discount)
  <1>1. /\ status[o] \in Unfinished /\ QuotesOf(o) = {}
        /\ price[o] - discount >= Larger(Total(o), 1)
        /\ price' = [price EXCEPT ![o] = @ - discount]
        /\ usages' = usages \cup {o} /\ uses' = uses + 1
        /\ UNCHANGED <<status, pays, money, quotes, sub, review>>
    BY DEF ApplyCoupon
  <1>2. TypeOK
    BY DEF CashInv
  <1>3. /\ price[o] \in Nat /\ Discount \in Nat \ {0} /\ Total(o) = Received(pays, o)
        /\ Received(pays, o) \in Nat
    BY <1>2, Numbers
  <1>4. discount \in Nat
    BY <1>3 DEF Smaller
  <1> HIDE DEF discount
  <1>5. /\ price[o] - discount \in Nat /\ price[o] - discount <= price[o]
        /\ Received(pays, o) <= price[o] - discount
    BY <1>1, <1>3, <1>4 DEF Larger
  <1>6. price' \in [Orders -> Nat] /\ price'[o] = price[o] - discount
    BY <1>1, <1>2, <1>5 DEF TypeOK
  <1>7. CashInv'
    BY <1>1, <1>2, <1>6, OrderStepKeepsCashInv DEF TypeOK
  <1> QED
    BY <1>1, <1>2, <1>5, <1>6, <1>7 DEF TypeOK

\* Order steps of the customer and the staff that only move a status.
LEMMA PlaceKeepsCashInv ==
    ASSUME CashInv, NEW o \in Orders, NEW p \in Prices, PlaceOrder(o, p)
    PROVE  CashInv'
  <1>1. /\ status' = [status EXCEPT ![o] = "pending"] /\ price' = [price EXCEPT ![o] = p]
        /\ UNCHANGED <<pays, money, coupon, quotes, sub, review>>
    BY DEF PlaceOrder
  <1>2. TypeOK /\ p \in Nat
    BY CheckoutAssumption DEF CashInv
  <1>3. status' \in [Orders -> OrderStatus] /\ price' \in [Orders -> Nat]
    BY <1>1, <1>2 DEF TypeOK, OrderStatus
  <1> QED
    BY <1>1, <1>2, <1>3, OrderStepKeepsCashInv DEF TypeOK, coupon

\* The menu of order statuses moves no money.
LEMMA SetKeepsCashInv ==
    ASSUME CashInv, NEW o \in Orders, NEW to \in {"paid", "processing", "completed", "failed"},
           NEW up \in ProviderUp, SetOrder(o, to, up)
    PROVE  CashInv'
  <1> DEFINE new == IF to = "completed" /\ sub[o] = "pending" /\ up THEN "paid" ELSE to
  <1>1. /\ status' = [status EXCEPT ![o] = new]
        /\ UNCHANGED <<price, pays, money, coupon, quotes, sub, review>>
    BY DEF SetOrder
  <1>2. new \in OrderStatus
    BY DEF OrderStatus
  <1>3. TypeOK
    BY DEF CashInv
  <1> HIDE DEF new
  <1>4. status' \in [Orders -> OrderStatus]
    BY <1>1, <1>2, <1>3 DEF TypeOK
  <1> QED
    BY <1>1, <1>3, <1>4, OrderStepKeepsCashInv DEF TypeOK, coupon

\* Provisioning moves no money.
LEMMA ProvisionKeepsCashInv ==
    ASSUME CashInv, NEW o \in Orders, Provision(o)
    PROVE  CashInv'
  <1>1. /\ status' = [status EXCEPT ![o] = "completed"] /\ sub' = [sub EXCEPT ![o] = "active"]
        /\ UNCHANGED <<price, pays, money, coupon, quotes, review>>
    BY DEF Provision
  <1>2. TypeOK
    BY DEF CashInv
  <1>3. /\ status' \in [Orders -> OrderStatus]
        /\ sub' \in [Orders -> {"none", "pending", "active"}]
    BY <1>1, <1>2 DEF TypeOK, OrderStatus
  <1> QED
    BY <1>1, <1>2, <1>3, OrderStepKeepsCashInv DEF TypeOK, coupon

-----------------------------------------------------------------------------
(* Quotes *)

\* A step on quotes alone.
LEMMA QuoteStepKeepsCashInv ==
    ASSUME CashInv, UNCHANGED <<status, price, pays, money, coupon, sub, review>>,
           quotes' \in Seq(Quote), QuotesDiffer'
    PROVE  CashInv'
  <1>1. TypeOK'
    BY DEF CashInv, TypeOK, money, coupon
  <1>2. ReviewsKnown'
    BY DEF CashInv, ReviewsKnown
  <1> QED
    BY <1>1, <1>2, MoneyKept DEF CashInv

\* What a quote may become: a change of phase, or its reservation given up.
LEMMA QuoteEdits ==
    ASSUME NEW x \in Quote
    PROVE  /\ \A ph \in {"live", "expired", "released"} :
                /\ [x EXCEPT !.phase = ph] \in Quote
                /\ [x EXCEPT !.phase = ph].order = x.order
                /\ [x EXCEPT !.phase = ph].card = x.card
                /\ [x EXCEPT !.phase = ph].base = x.base
                /\ [x EXCEPT !.phase = ph].expected = x.expected
                /\ [x EXCEPT !.phase = ph].reserved = x.reserved
           /\ [x EXCEPT !.reserved = FALSE] \in Quote
           /\ [x EXCEPT !.reserved = FALSE].order = x.order
           /\ [x EXCEPT !.reserved = FALSE].card = x.card
           /\ [x EXCEPT !.reserved = FALSE].base = x.base
           /\ [x EXCEPT !.reserved = FALSE].expected = x.expected
           /\ ~ [x EXCEPT !.reserved = FALSE].reserved
           /\ x.base \in Nat \ {0} /\ x.expected \in Nat \ {0} /\ x.order \in Orders
  BY DEF Quote

\* The same quotes, some with another phase or without their reservation.
SameQuotes(q) ==
    /\ q \in Seq(Quote) /\ Len(q) = Len(quotes) /\ DOMAIN q = DOMAIN quotes
    /\ \A i \in DOMAIN quotes :
         /\ q[i].order = quotes[i].order /\ q[i].card = quotes[i].card
         /\ q[i].base = quotes[i].base /\ q[i].expected = quotes[i].expected
         /\ q[i].reserved => quotes[i].reserved

\* Sweeping a card only gives up reservations.
LEMMA SweptSame ==
    ASSUME quotes \in Seq(Quote), NEW c
    PROVE  SameQuotes(Swept(c))
  <1>1. DOMAIN quotes = 1 .. Len(quotes) /\ Len(quotes) \in Nat
    OBVIOUS
  <1>2. ASSUME NEW i \in DOMAIN quotes
        PROVE  /\ Swept(c)[i] \in Quote
               /\ Swept(c)[i].order = quotes[i].order /\ Swept(c)[i].card = quotes[i].card
               /\ Swept(c)[i].base = quotes[i].base /\ Swept(c)[i].expected = quotes[i].expected
               /\ Swept(c)[i].reserved => quotes[i].reserved
    <2>1. quotes[i] \in Quote
      BY <1>1
    <2>2. CASE quotes[i].card = c /\ quotes[i].phase = "released"
      <3>1. Swept(c)[i] = [quotes[i] EXCEPT !.reserved = FALSE]
        BY <2>2 DEF Swept
      <3> DEFINE x == quotes[i]
                 y == [x EXCEPT !.reserved = FALSE]
      <3>2. /\ y \in Quote /\ y.order = x.order /\ y.card = x.card
            /\ y.base = x.base /\ y.expected = x.expected /\ ~ y.reserved
        <4>1. x \in Quote
          BY <2>1
        <4> HIDE DEF x
        <4> QED
          BY ONLY <4>1, QuoteEdits
      <3>3. Swept(c)[i] = y
        BY ONLY <3>1
      <3> HIDE DEF y
      <3> QED
        BY ONLY <3>2, <3>3
    <2>3. CASE ~ (quotes[i].card = c /\ quotes[i].phase = "released")
      <3>1. Swept(c)[i] = quotes[i]
        BY <2>3 DEF Swept
      <3> QED
        BY <2>1, <3>1
    <2> QED
      BY <2>2, <2>3
  <1>3. Swept(c) = [i \in 1 .. Len(quotes) |-> Swept(c)[i]]
    BY <1>1 DEF Swept
  <1> DEFINE s == Swept(c)
  <1>4. s = [i \in 1 .. Len(quotes) |-> s[i]] /\ \A i \in 1 .. Len(quotes) : s[i] \in Quote
    BY <1>1, <1>2, <1>3
  <1> HIDE DEF s
  <1>5. s \in Seq(Quote) /\ Len(s) = Len(quotes) /\ DOMAIN s = DOMAIN quotes
    BY ONLY <1>1, <1>4
  <1> QED
    BY <1>2, <1>5 DEF SameQuotes, s

\* A change of phase keeps the quotes the same.
LEMMA PhaseSame ==
    ASSUME quotes \in Seq(Quote), NEW q, SameQuotes(q), NEW i \in DOMAIN quotes,
           NEW ph \in {"live", "expired", "released"}
    PROVE  SameQuotes([q EXCEPT ![i].phase = ph])
  <1> DEFINE x == [q[i] EXCEPT !.phase = ph]
             s == [q EXCEPT ![i] = x]
  <1>1. /\ q \in Seq(Quote) /\ i \in DOMAIN q /\ q[i] \in Quote
        /\ Len(q) = Len(quotes) /\ DOMAIN q = DOMAIN quotes
    BY DEF SameQuotes
  <1>2. /\ x \in Quote /\ x.order = q[i].order /\ x.card = q[i].card /\ x.base = q[i].base
        /\ x.expected = q[i].expected /\ x.reserved = q[i].reserved
    BY <1>1, QuoteEdits
  <1> HIDE DEF x
  <1>3. /\ s \in Seq(Quote) /\ Len(s) = Len(quotes) /\ DOMAIN s = DOMAIN quotes
        /\ s[i] = x /\ \A j \in DOMAIN quotes : j # i => s[j] = q[j]
    BY <1>1, <1>2
  <1>4. SameQuotes(s)
    <2> HIDE DEF s
    <2>1. ASSUME NEW j \in DOMAIN quotes
          PROVE  /\ s[j].order = quotes[j].order /\ s[j].card = quotes[j].card
                 /\ s[j].base = quotes[j].base /\ s[j].expected = quotes[j].expected
                 /\ s[j].reserved => quotes[j].reserved
      BY <1>2, <1>3 DEF SameQuotes
    <2> QED
      BY <1>3, <2>1 DEF SameQuotes
  <1> QED
    BY <1>4 DEF x

\* Same quotes differ as before.
LEMMA SameDiffer ==
    ASSUME QuotesDiffer, SameQuotes(quotes')
    PROVE  QuotesDiffer' /\ quotes' \in Seq(Quote)
  <1>1. /\ DOMAIN quotes' = DOMAIN quotes /\ quotes' \in Seq(Quote)
        /\ \A i \in DOMAIN quotes :
             /\ quotes'[i].card = quotes[i].card /\ quotes'[i].base = quotes[i].base
             /\ quotes'[i].expected = quotes[i].expected
             /\ quotes'[i].reserved => quotes[i].reserved
    BY DEF SameQuotes
  <1> QED
    BY <1>1 DEF QuotesDiffer

\* Reopening, expiring and releasing a quote.
LEMMA QuotePhasesKeepCashInv ==
    ASSUME CashInv,
           \/ \E o \in Orders, c \in Cards : ReopenQuote(o, c)
           \/ \E i \in DOMAIN quotes : ExpireQuote(i) \/ ReleaseQuote(i)
    PROVE  /\ CashInv' /\ SameQuotes(quotes')
           /\ UNCHANGED <<status, price, pays, money, coupon, sub, review>>
  <1>1. quotes \in Seq(Quote) /\ SameQuotes(quotes) /\ QuotesDiffer
    BY DEF CashInv, TypeOK, SameQuotes
  <1>2. UNCHANGED <<status, price, pays, money, coupon, sub, review>>
    BY DEF ReopenQuote, ExpireQuote, ReleaseQuote
  <1>3. CASE \E i \in DOMAIN quotes : ExpireQuote(i) \/ ReleaseQuote(i)
    <2>1. PICK i \in DOMAIN quotes : \/ quotes' = [quotes EXCEPT ![i].phase = "expired"]
                                    \/ quotes' = [quotes EXCEPT ![i].phase = "released"]
      BY <1>3 DEF ExpireQuote, ReleaseQuote
    <2>2. /\ SameQuotes([quotes EXCEPT ![i].phase = "expired"])
          /\ SameQuotes([quotes EXCEPT ![i].phase = "released"])
      BY <1>1, PhaseSame
    <2>3. SameQuotes(quotes')
      BY <2>1, <2>2
    <2> QED
      BY <1>1, <1>2, <2>3, SameDiffer, QuoteStepKeepsCashInv
  <1>4. CASE \E o \in Orders, c \in Cards : ReopenQuote(o, c)
    <2>1. PICK o \in Orders, c \in Cards : ReopenQuote(o, c)
      BY <1>4
    <2>2. PICK i \in DOMAIN quotes : quotes' = [Swept(c) EXCEPT ![i].phase = "live"]
      BY <2>1 DEF ReopenQuote, QuotesOf
    <2>3. SameQuotes(Swept(c))
      BY <1>1, SweptSame
    <2>4. SameQuotes([Swept(c) EXCEPT ![i].phase = "live"])
      BY <1>1, <2>3, PhaseSame
    <2>5. SameQuotes(quotes')
      BY <2>2, <2>4
    <2> QED
      BY <1>1, <1>2, <2>5, SameDiffer, QuoteStepKeepsCashInv
  <1> QED
    BY <1>3, <1>4

\* The suffix taken is free: it is asked for by no other quote of the card.
LEMMA SuffixIsFree ==
    ASSUME MaxExtra \in Nat, NEW c, NEW due \in Nat, FreeAmounts(c, due) # {}
    PROVE  /\ Min(FreeAmounts(c, due)) \in due + 1 .. due + MaxExtra
           /\ \A i \in DOMAIN quotes : quotes[i].card = c =>
                 quotes[i].expected # Min(FreeAmounts(c, due))
  <1> DEFINE F == FreeAmounts(c, due)
  <1>1. /\ F \subseteq Nat /\ \A e \in F : e \in due + 1 .. due + MaxExtra
        /\ \A i \in DOMAIN quotes : quotes[i].card = c => quotes[i].expected \notin F
    BY DEF FreeAmounts
  <1> HIDE DEF F
  <1>2. PICK n \in F : \A m \in F : n <= m
    BY <1>1, LeastNumber DEF F
  <1>3. Min(F) \in F
    BY <1>2 DEF Min
  <1> QED
    BY <1>1, <1>3 DEF F

\* A new quote reserves a free suffix, or asks for what is due.
LEMMA ReserveKeepsCashInv ==
    ASSUME CashInv, NEW o \in Orders, NEW c \in Cards, NEW unique \in BOOLEAN,
           ReserveQuote(o, c, unique)
    PROVE  CashInv'
  <1> DEFINE expected == IF unique THEN Min(FreeAmounts(c, Due(o))) ELSE Due(o)
             x == [order |-> o, card |-> c, base |-> Due(o), expected |-> expected,
                   reserved |-> unique, phase |-> "live"]
             s == Swept(c)
  <1>1. /\ Due(o) > 0 /\ (unique => FreeAmounts(c, Due(o)) # {})
        /\ quotes' = Append(s, x)
        /\ UNCHANGED <<status, price, pays, money, coupon, sub, review>>
    BY DEF ReserveQuote
  <1>2. TypeOK /\ QuotesDiffer /\ quotes \in Seq(Quote)
    BY DEF CashInv, TypeOK
  <1>3. MaxExtra \in Nat /\ Due(o) \in Nat \ {0}
    BY <1>1, <1>2, Numbers
  <1>4. /\ expected \in Nat \ {0} /\ Due(o) <= expected /\ expected <= Due(o) + MaxExtra
        /\ unique => \A i \in DOMAIN quotes : quotes[i].card = c => quotes[i].expected # expected
    <2>1. CASE unique
      <3>1. /\ expected \in Due(o) + 1 .. Due(o) + MaxExtra
            /\ \A i \in DOMAIN quotes : quotes[i].card = c => quotes[i].expected # expected
        BY <1>1, <1>3, <2>1, SuffixIsFree
      <3> HIDE DEF expected
      <3> QED
        BY <1>3, <3>1
    <2>2. CASE ~unique
      BY <1>3, <2>2
    <2> QED
      BY <2>1, <2>2
  <1> HIDE DEF expected
  <1>5. /\ x \in Quote /\ x.card = c /\ x.base = Due(o) /\ x.expected = expected
        /\ x.reserved = unique
    BY <1>3, <1>4 DEF Quote
  <1>6. SameQuotes(s)
    BY <1>2, SweptSame
  <1> HIDE DEF x, s
  <1> DEFINE n == Len(quotes) + 1
  <1>7. /\ quotes' \in Seq(Quote) /\ DOMAIN quotes' = DOMAIN quotes \cup {n}
        /\ n \notin DOMAIN quotes /\ quotes'[n] = x
        /\ \A i \in DOMAIN quotes : quotes'[i] = s[i]
    <2>1. s \in Seq(Quote) /\ Len(s) = Len(quotes) /\ DOMAIN s = DOMAIN quotes
      BY <1>6 DEF SameQuotes
    <2> QED
      BY <1>1, <1>5, <2>1
  <1> HIDE DEF n
  <1>8. \A i \in DOMAIN quotes :
          /\ quotes'[i].card = quotes[i].card /\ quotes'[i].base = quotes[i].base
          /\ quotes'[i].expected = quotes[i].expected
          /\ quotes'[i].reserved => quotes[i].reserved
    BY <1>6, <1>7 DEF SameQuotes
  <1>9. \A i \in DOMAIN quotes' : /\ quotes'[i].base <= quotes'[i].expected
                                  /\ quotes'[i].expected <= quotes'[i].base + MaxExtra
    <2>1. /\ quotes'[n].base <= quotes'[n].expected
          /\ quotes'[n].expected <= quotes'[n].base + MaxExtra
      BY <1>4, <1>5, <1>7
    <2> QED
      BY <1>2, <1>7, <1>8, <2>1 DEF QuotesDiffer
  <1>10. ASSUME NEW i \in DOMAIN quotes, quotes'[i].card = c, unique
         PROVE  quotes'[i].expected # quotes'[n].expected
    BY <1>4, <1>5, <1>7, <1>8, <1>10
  <1>11. ASSUME NEW i \in DOMAIN quotes', NEW j \in DOMAIN quotes', i # j,
                quotes'[i].reserved, quotes'[j].reserved, quotes'[i].card = quotes'[j].card
         PROVE  quotes'[i].expected # quotes'[j].expected
    <2>1. CASE i \in DOMAIN quotes /\ j \in DOMAIN quotes
      BY <1>2, <1>8, <1>11, <2>1 DEF QuotesDiffer
    <2>2. CASE i = n
      <3>1. unique /\ j \in DOMAIN quotes /\ quotes'[j].card = c
        BY <1>5, <1>7, <1>11, <2>2
      <3> QED
        BY <1>10, <2>2, <3>1
    <2>3. CASE j = n
      <3>1. unique /\ i \in DOMAIN quotes /\ quotes'[i].card = c
        BY <1>5, <1>7, <1>11, <2>3
      <3> QED
        BY <1>10, <2>3, <3>1
    <2> QED
      BY <1>7, <2>1, <2>2, <2>3
  <1>12. QuotesDiffer'
    BY <1>9, <1>11 DEF QuotesDiffer
  <1> QED
    BY <1>1, <1>7, <1>12, QuoteStepKeepsCashInv

-----------------------------------------------------------------------------
(* Receipts *)

\* A receipt is a pending card payment of what a quote asks for.
LEMMA SendReceiptEffects ==
    ASSUME CashInv, NEW o \in Orders, SendReceipt(o)
    PROVE  \E x \in Payment :
             /\ pays' = Append(pays, x)
             /\ x.order = o /\ x.method = "card" /\ x.status = "pending"
             /\ price[o] - Received(pays, o) > 0
             /\ price[o] - Received(pays, o) <= x.amount
             /\ x.amount <= price[o] - Received(pays, o) + MaxExtra
             /\ status[o] \in Unfinished /\ status' = [status EXCEPT ![o] = "processing"]
             /\ \A j \in DOMAIN pays : pays[j].order = o /\ pays[j].method = "card"
                  => pays[j].status \notin {"pending", "confirmed"}
             /\ Len(pays) < MaxPayments
             /\ UNCHANGED <<price, money, coupon, quotes, sub, review>>
  <1>1. PICK i \in UsableQuotes(o) :
           pays' = Append(pays, [order |-> o, method |-> "card", status |-> "pending",
                                 amount |-> quotes[i].expected])
    BY DEF SendReceipt
  <1>2. /\ i \in DOMAIN quotes /\ quotes[i].base = Due(o)
        /\ quotes[i].base <= quotes[i].expected
        /\ quotes[i].expected <= quotes[i].base + MaxExtra
    BY DEF UsableQuotes, QuotesOf, CashInv, QuotesDiffer
  <1>3. quotes[i].expected \in Nat \ {0}
    <2>1. quotes \in Seq(Quote)
      BY DEF CashInv, TypeOK
    <2>2. quotes[i] \in Quote
      BY <1>2, <2>1
    <2> QED
      BY <2>2 DEF Quote
  <1> DEFINE x == [order |-> o, method |-> "card", status |-> "pending",
                   amount |-> quotes[i].expected]
  <1>4. /\ x \in Payment /\ x.order = o /\ x.method = "card" /\ x.status = "pending"
        /\ x.amount = quotes[i].expected
    BY <1>3 DEF Payment, PaymentStatus
  <1>5. pays' = Append(pays, x)
    BY <1>1
  <1> HIDE DEF x
  <1>6. Due(o) = price[o] - Received(pays, o)
    BY Numbers DEF CashInv
  <1>7. /\ Due(o) > 0 /\ status[o] \in Unfinished /\ status' = [status EXCEPT ![o] = "processing"]
        /\ Len(pays) < MaxPayments
        /\ UNCHANGED <<price, money, coupon, quotes, sub, review>>
    BY DEF SendReceipt
  <1>8. \A j \in DOMAIN pays : pays[j].order = o /\ pays[j].method = "card"
                  => pays[j].status \notin {"pending", "confirmed"}
    BY DEF SendReceipt, PaymentsOf
  <1> QED
    BY <1>2, <1>4, <1>5, <1>6, <1>7, <1>8

\* It moves no money yet.
LEMMA SendKeepsCashInv ==
    ASSUME CashInv, NEW o \in Orders, SendReceipt(o)
    PROVE  CashInv'
  <1>1. PICK x \in Payment :
             /\ pays' = Append(pays, x)
             /\ x.order = o /\ x.method = "card" /\ x.status = "pending"
             /\ status' = [status EXCEPT ![o] = "processing"]
             /\ Len(pays) < MaxPayments
             /\ UNCHANGED <<price, money, coupon, quotes, sub, review>>
    BY SendReceiptEffects
  <1>2. TypeOK /\ pays \in Seq(Payment) /\ MaxPayments \in Nat /\ Len(pays) \in Nat
    BY Numbers DEF CashInv, TypeOK
  <1>3. /\ pays' \in Seq(Payment) /\ Len(pays') = Len(pays) + 1
        /\ DOMAIN pays' = DOMAIN pays \cup {Len(pays) + 1}
        /\ \A i \in DOMAIN pays : pays'[i] = pays[i]
    BY ONLY <1>1, <1>2, PaymentAppended
  <1>4. \A u \in Users : AmountSum(pays', Standing(pays', u)) = AmountSum(pays, Standing(pays, u))
    <2>1. \A u \in Users : AmountSum(pays', Standing(pays', u)) =
             IF Owner[x.order] = u /\ x.method = "wallet" /\ x.status = "confirmed"
             THEN AmountSum(pays, Standing(pays, u)) + x.amount
             ELSE AmountSum(pays, Standing(pays, u))
      BY ONLY <1>1, <1>2, PaymentCounted
    <2> QED
      BY <1>1, <2>1
  <1>5. TypeOK'
    <2>1. status' \in [Orders -> OrderStatus]
      BY <1>1, <1>2 DEF TypeOK, OrderStatus
    <2> QED
      BY <1>1, <1>2, <1>3, <2>1 DEF TypeOK, money, coupon
  <1>6. ReviewsKnown'
    BY <1>1, <1>2, <1>3 DEF CashInv, ReviewsKnown
  <1>7. RefundsRecorded'
    BY <1>1, <1>3 DEF CashInv, RefundsRecorded, money, RefundKey
  <1>8. CashStands'
    BY <1>1, <1>4 DEF CashInv, CashStands, money
  <1>9. QuotesDiffer'
    BY <1>1 DEF CashInv, QuotesDiffer
  <1> QED
    BY <1>5, <1>6, <1>7, <1>8, <1>9 DEF CashInv

\* The steps of a review that save no payment.
LEMMA ReadKeepsCashInv ==
    ASSUME CashInv, NEW r \in Reviewers, NEW i \in DOMAIN pays,
           NEW to \in {"confirmed", "failed"}, ReadPayment(r, i, to)
    PROVE  CashInv'
  <1> DEFINE j == [pc |-> "read", pay |-> i, to |-> to]
  <1>1. /\ pays[i].method = "card" /\ review' = [review EXCEPT ![r] = j]
        /\ UNCHANGED <<status, price, pays, money, coupon, quotes, sub>>
    BY DEF ReadPayment
  <1>2. TypeOK /\ i \in 1 .. MaxPayments
    BY Numbers DEF CashInv, ReviewsKnown
  <1>3. j \in Review /\ j.pay = i
    BY <1>2, ReviewTypes
  <1> HIDE DEF j
  <1> QED
    BY <1>1, <1>2, <1>3, ReviewStepKeepsCashInv DEF TypeOK

\* The status a save remembers is the one it read.
LEMMA PreSaveKeepsCashInv ==
    ASSUME CashInv, NEW r \in Reviewers, PreSave(r)
    PROVE  CashInv'
  <1> DEFINE k == review[r]
             j == [pc |-> "ready", pay |-> k.pay, to |-> k.to, prev |-> pays[k.pay].status]
  <1>1. /\ k.pc = "read" /\ review' = [review EXCEPT ![r] = j]
        /\ UNCHANGED <<status, price, pays, money, coupon, quotes, sub>>
    BY DEF PreSave
  <1>2. TypeOK /\ k \in Review
    BY DEF CashInv, TypeOK
  <1>3. k # NoReview /\ k.pay \in 1 .. MaxPayments /\ k.to \in {"confirmed", "failed"}
    BY <1>1, <1>2, ReviewTypes
  <1>4. k.pay \in DOMAIN pays /\ pays[k.pay].method = "card"
    BY <1>3 DEF CashInv, ReviewsKnown
  <1>5. pays[k.pay].status \in PaymentStatus
    BY <1>2, <1>4, PaymentFacts DEF TypeOK
  <1>6. j \in Review /\ j.pay = k.pay
    <2> HIDE DEF k
    <2> QED
      BY <1>3, <1>5, ReviewTypes
  <1> HIDE DEF j
  <1> QED
    BY <1>1, <1>2, <1>4, <1>6, ReviewStepKeepsCashInv DEF TypeOK

\* What a review's later steps know of it.
LEMMA ReviewUnderWay ==
    ASSUME CashInv, NEW r \in Reviewers, review[r].pc \in {"read", "ready", "saved", "decided", "settled"}
    PROVE  /\ review[r] \in Review /\ review[r] # NoReview
           /\ review[r].pay \in DOMAIN pays /\ review[r].pay \in 1 .. MaxPayments
           /\ pays[review[r].pay].method = "card"
           /\ review[r].to \in {"confirmed", "failed"}
           /\ Reviewed(review[r]) \in Orders
           /\ review[r].pc \in {"ready", "saved"} =>
                review[r] \in [pc : {"ready", "saved"}, pay : 1 .. MaxPayments,
                               to : {"confirmed", "failed"}, prev : PaymentStatus]
           /\ review[r].pc \in {"decided", "settled"} =>
                review[r] \in [pc : {"decided", "settled"}, pay : 1 .. MaxPayments,
                               to : {"confirmed", "failed"}, prev : PaymentStatus,
                               seen : Snapshot]
  <1>1. TypeOK /\ review[r] \in Review
    BY DEF CashInv, TypeOK
  <1>2. /\ review[r] # NoReview /\ review[r].pay \in 1 .. MaxPayments
        /\ review[r].to \in {"confirmed", "failed"}
    BY <1>1, ReviewTypes
  <1>3. review[r].pay \in DOMAIN pays /\ pays[review[r].pay].method = "card"
    BY <1>2 DEF CashInv, ReviewsKnown
  <1>4. Reviewed(review[r]) \in Orders
    BY <1>1, <1>3, Numbers DEF Reviewed
  <1> QED
    BY <1>1, <1>2, <1>3, <1>4, ReviewTypes

\* payment_post_save reads the order and sums its confirmed payments.
LEMMA HandlerReadKeepsCashInv ==
    ASSUME CashInv, NEW r \in Reviewers, HandlerRead(r)
    PROVE  CashInv'
  <1> DEFINE k == review[r]
             o == Reviewed(k)
             seen == [status |-> status[o], price |-> price[o], total |-> Total(o)]
             j == [pc |-> "decided", pay |-> k.pay, to |-> k.to, prev |-> k.prev, seen |-> seen]
  <1>1. /\ k.pc = "saved" /\ review' = [review EXCEPT ![r] = j]
        /\ UNCHANGED <<status, price, pays, money, coupon, quotes, sub>>
    BY DEF HandlerRead, Reviewed
  <1>2. /\ k.pay \in DOMAIN pays /\ k.pay \in 1 .. MaxPayments /\ pays[k.pay].method = "card"
        /\ k.to \in {"confirmed", "failed"} /\ o \in Orders
        /\ k \in [pc : {"ready", "saved"}, pay : 1 .. MaxPayments,
                  to : {"confirmed", "failed"}, prev : PaymentStatus]
    BY <1>1, ReviewUnderWay
  <1>3. TypeOK
    BY DEF CashInv
  <1> HIDE DEF k, o
  <1>4. seen \in Snapshot
    <2>1. status[o] \in OrderStatus /\ price[o] \in Nat /\ Total(o) \in Nat
      BY <1>2, <1>3, Numbers DEF TypeOK
    <2> QED
      BY <2>1 DEF Snapshot
  <1> HIDE DEF seen
  <1>5. j \in Review /\ j.pay = k.pay
    BY <1>2, <1>4, ReviewTypes
  <1> HIDE DEF j
  <1> QED
    BY <1>1, <1>2, <1>3, <1>5, ReviewStepKeepsCashInv DEF TypeOK

\* payment_post_save saves the status it decided on.
LEMMA HandlerWriteKeepsCashInv ==
    ASSUME CashInv, NEW r \in Reviewers, HandlerWrite(r)
    PROVE  CashInv'
  <1> DEFINE k == review[r]
             o == Reviewed(k)
             new == Outcome(k.to, k.seen)
             j == IF new = "paid" THEN [k EXCEPT !.pc = "settled"] ELSE NoReview
  <1>1. /\ k.pc = "decided" /\ review' = [review EXCEPT ![r] = j]
        /\ status' = IF k.to = "confirmed" /\ k.seen.status = new
                     THEN status ELSE [status EXCEPT ![o] = new]
        /\ UNCHANGED <<price, pays, money, coupon, quotes, sub>>
    BY DEF HandlerWrite, Reviewed
  <1>2. /\ k.pay \in DOMAIN pays /\ k.pay \in 1 .. MaxPayments /\ pays[k.pay].method = "card"
        /\ k.to \in {"confirmed", "failed"} /\ o \in Orders
        /\ k \in [pc : {"decided", "settled"}, pay : 1 .. MaxPayments,
                  to : {"confirmed", "failed"}, prev : PaymentStatus, seen : Snapshot]
    BY <1>1, ReviewUnderWay
  <1>3. TypeOK
    BY DEF CashInv
  <1> HIDE DEF k, o
  <1>4. new \in OrderStatus
    BY DEF Outcome, OrderStatus
  <1> HIDE DEF new
  <1>5. status' \in [Orders -> OrderStatus]
    BY <1>1, <1>3, <1>4 DEF TypeOK
  <1>6. j \in Review /\ (j # NoReview => j.pay = k.pay)
    <2>1. k.prev \in PaymentStatus /\ k.seen \in Snapshot
      BY <1>2
    <2>2. [k EXCEPT !.pc = "settled"] = [pc |-> "settled", pay |-> k.pay, to |-> k.to,
                                         prev |-> k.prev, seen |-> k.seen]
      BY <1>2, ReviewEdits
    <2>3. [pc |-> "settled", pay |-> k.pay, to |-> k.to, prev |-> k.prev, seen |-> k.seen]
             \in Review
      BY <1>2, <2>1, ReviewTypes
    <2> QED
      BY <2>2, <2>3, ReviewTypes
  <1> HIDE DEF j
  <1>7. sub' \in [Orders -> {"none", "pending", "active"}]
    BY <1>1, <1>3 DEF TypeOK
  <1> QED
    BY <1>1, <1>2, <1>5, <1>6, <1>7, ReviewStepKeepsCashInv

\* A review ends: its order is provisioned, or the bot dies.
LEMMA ReviewEndKeepsCashInv ==
    ASSUME CashInv, NEW r \in Reviewers,
           \/ \E up \in ProviderUp : HandlerProvision(r, up)
           \/ Die(r)
    PROVE  CashInv'
  <1>1. /\ review' = [review EXCEPT ![r] = NoReview]
        /\ UNCHANGED <<status, price, pays, money, coupon, quotes>>
    BY DEF HandlerProvision, Die
  <1>2. TypeOK
    BY DEF CashInv
  <1>3. sub' \in [Orders -> {"none", "pending", "active"}]
    <2>1. CASE Die(r)
      BY <1>2, <2>1 DEF Die, TypeOK
    <2>2. CASE \E up \in ProviderUp : HandlerProvision(r, up)
      BY <1>2, <2>2 DEF HandlerProvision, TypeOK, WithSubscription
    <2> QED
      BY <2>1, <2>2
  <1>4. status' \in [Orders -> OrderStatus] /\ NoReview \in Review
    BY <1>1, <1>2, ReviewTypes DEF TypeOK
  <1> QED
    BY <1>1, <1>3, <1>4, ReviewStepKeepsCashInv

\* Saving a receipt's payment is nothing to the wallet.
LEMMA SaveKeepsCashInv ==
    ASSUME CashInv, NEW r \in Reviewers, SavePayment(r)
    PROVE  CashInv'
  <1> DEFINE k == review[r]
             i == k.pay
             to == k.to
             j == IF k.prev = to THEN NoReview ELSE [k EXCEPT !.pc = "saved"]
  <1>1. /\ k.pc = "ready"
        /\ \/ pays' = [pays EXCEPT ![i].status = to] /\ review' = [review EXCEPT ![r] = j]
           \/ pays' = pays /\ review' = [review EXCEPT ![r] = NoReview]
        /\ UNCHANGED <<status, price, money, coupon, quotes, sub>>
    BY DEF SavePayment
  <1>2. /\ i \in DOMAIN pays /\ i \in 1 .. MaxPayments /\ pays[i].method = "card"
        /\ to \in {"confirmed", "failed"}
        /\ k \in [pc : {"ready", "saved"}, pay : 1 .. MaxPayments,
                  to : {"confirmed", "failed"}, prev : PaymentStatus]
    BY <1>1, ReviewUnderWay
  <1>3. TypeOK /\ pays \in Seq(Payment)
    BY DEF CashInv, TypeOK
  <1>4. j \in Review /\ (j # NoReview => j.pay = i)
    <2> HIDE DEF k
    <2>1. k.prev \in PaymentStatus
      BY <1>2
    <2>2. [k EXCEPT !.pc = "saved"] = [pc |-> "saved", pay |-> k.pay, to |-> k.to,
                                       prev |-> k.prev]
      BY <1>2, ReviewEdits
    <2>3. [pc |-> "saved", pay |-> k.pay, to |-> k.to, prev |-> k.prev] \in Review
      BY <1>2, <2>1, ReviewTypes
    <2> QED
      BY <2>2, <2>3, ReviewTypes
  <1> HIDE DEF j, i, to, k
  <1>5. CASE pays' = pays /\ review' = [review EXCEPT ![r] = NoReview]
    <2>1. UNCHANGED <<price, pays, money, coupon, quotes>> /\ NoReview \in Review
      BY <1>1, <1>5, ReviewTypes
    <2>2. status' \in [Orders -> OrderStatus] /\ sub' \in [Orders -> {"none", "pending", "active"}]
      BY <1>1, <1>3 DEF TypeOK
    <2> QED
      BY <1>5, <2>1, <2>2, ReviewStepKeepsCashInv
  <1>6. CASE pays' = [pays EXCEPT ![i].status = to] /\ review' = [review EXCEPT ![r] = j]
    <2>1. /\ pays \in Seq(Payment) /\ i \in DOMAIN pays /\ to \in PaymentStatus
          /\ pays[i].method = "card" /\ pays' = [pays EXCEPT ![i].status = to]
      BY <1>2, <1>3, <1>6 DEF PaymentStatus
    <2>2. /\ pays' \in Seq(Payment) /\ Len(pays') = Len(pays) /\ DOMAIN pays' = DOMAIN pays
          /\ \A m \in DOMAIN pays : /\ m # i => pays'[m] = pays[m]
                                    /\ pays'[m].method = pays[m].method
      BY ONLY <2>1, PaymentSaved
    <2>3. \A u \in Users : AmountSum(pays', Standing(pays', u)) = AmountSum(pays, Standing(pays, u))
      BY ONLY ZenonT(40), <2>1, SavedStands
    <2>4. review' \in [Reviewers -> Review]
      BY <1>3, <1>4, <1>6 DEF TypeOK
    <2>5. TypeOK'
      BY <1>1, <1>3, <2>2, <2>4 DEF TypeOK, money, coupon
    <2>6. ReviewsKnown'
      <3>1. ASSUME NEW s \in Reviewers, review'[s] # NoReview
            PROVE  review'[s].pay \in DOMAIN pays' /\ pays'[review'[s].pay].method = "card"
        <4>1. CASE s = r
          <5>1. review'[s] = j
            BY <1>3, <1>6, <4>1 DEF TypeOK
          <5> QED
            BY <1>2, <1>4, <2>2, <3>1, <5>1
        <4>2. CASE s # r
          <5>1. review'[s] = review[s]
            BY <1>6, <4>2
          <5> QED
            BY <2>2, <3>1, <5>1 DEF CashInv, ReviewsKnown
        <4> QED
          BY <4>1, <4>2
      <3> QED
        BY <2>2, <3>1 DEF CashInv, ReviewsKnown
    <2>7. RefundsRecorded'
      <3> SUFFICES ASSUME NEW m \in Nat, RefundKey(m) \in keys'
                   PROVE  /\ m \in DOMAIN pays' /\ pays'[m].status = "refunded"
                          /\ pays'[m].method = "wallet"
        BY DEF RefundsRecorded, RefundKey
      <3>1. m \in DOMAIN pays /\ pays[m].status = "refunded" /\ pays[m].method = "wallet"
        BY <1>1 DEF CashInv, RefundsRecorded, money
      <3>2. m # i
        BY <1>2, <3>1
      <3> QED
        BY <2>2, <3>1, <3>2
    <2>8. CashStands'
      BY <1>1, <2>3 DEF CashInv, CashStands, money
    <2>9. QuotesDiffer'
      BY <1>1 DEF CashInv, QuotesDiffer
    <2> QED
      BY <2>5, <2>6, <2>7, <2>8, <2>9 DEF CashInv
  <1> QED
    BY <1>1, <1>5, <1>6

-----------------------------------------------------------------------------
(* Theorems for any number of reviewers *)

\* No step, and no stuttering, breaks the invariant.
LEMMA NextKeepsCashInv == CashInv /\ [Next]_vars => CashInv'
  <1> SUFFICES ASSUME CashInv, [Next]_vars PROVE CashInv'
    OBVIOUS
  <1>1. CASE Customer
    <2>1. ASSUME NEW u \in Users, NEW a \in 1 .. MaxTopUp, TopUp(u, a) PROVE CashInv'
      BY <2>1, TopUpKeepsCashInv
    <2>2. ASSUME NEW o \in Orders, NEW p \in Prices, PlaceOrder(o, p) PROVE CashInv'
      BY <2>2, PlaceKeepsCashInv
    <2>3. ASSUME NEW o \in Orders, NEW credit \in 1 .. MaxTopUp, NEW up \in ProviderUp,
                 PayWithWallet(o, credit, up)
          PROVE CashInv'
      BY <2>3, PayKeepsCashInv
    <2>4. ASSUME NEW o \in Orders, CancelOrder(o) PROVE CashInv'
      BY <2>4, CancelKeepsCashInv
    <2>5. ASSUME NEW o \in Orders, ApplyCoupon(o) PROVE CashInv'
      BY <2>5, CouponKeepsCashInv
    <2>6. ASSUME NEW o \in Orders, NEW c \in Cards, NEW unique \in BOOLEAN,
                 ReserveQuote(o, c, unique)
          PROVE CashInv'
      BY <2>6, ReserveKeepsCashInv
    <2>7. ASSUME NEW o \in Orders, NEW c \in Cards, ReopenQuote(o, c) PROVE CashInv'
      BY <2>7, QuotePhasesKeepCashInv
    <2>8. ASSUME NEW o \in Orders, SendReceipt(o) PROVE CashInv'
      BY <2>8, SendKeepsCashInv
    <2> QED
      BY <1>1, <2>1, <2>2, <2>3, <2>4, <2>5, <2>6, <2>7, <2>8 DEF Customer
  <1>2. CASE Staff
    BY <1>2, ReadKeepsCashInv, SetKeepsCashInv DEF Staff
  <1>3. CASE System
    <2>1. ASSUME NEW r \in Reviewers, ReviewStep(r) PROVE CashInv'
      BY <2>1, PreSaveKeepsCashInv, SaveKeepsCashInv, HandlerReadKeepsCashInv,
         HandlerWriteKeepsCashInv, ReviewEndKeepsCashInv DEF ReviewStep
    <2>2. ASSUME NEW o \in Orders, Provision(o) PROVE CashInv'
      BY <2>2, ProvisionKeepsCashInv
    <2>3. ASSUME NEW i \in DOMAIN quotes, ExpireQuote(i) \/ ReleaseQuote(i) PROVE CashInv'
      BY <2>3, QuotePhasesKeepCashInv
    <2> QED
      BY <1>3, <2>1, <2>2, <2>3 DEF System
  <1>4. CASE \E r \in Reviewers : Die(r)
    BY <1>4, ReviewEndKeepsCashInv
  <1>5. CASE UNCHANGED vars
    <2>1. TypeOK'
      BY <1>5 DEF CashInv, TypeOK, vars, money, coupon
    <2>2. ReviewsKnown' /\ QuotesDiffer'
      BY <1>5 DEF CashInv, ReviewsKnown, QuotesDiffer, vars
    <2>3. UNCHANGED <<pays, money>>
      BY <1>5 DEF vars, money
    <2> QED
      BY <2>1, <2>2, <2>3, MoneyKept DEF CashInv
  <1> QED
    BY <1>1, <1>2, <1>3, <1>4, <1>5 DEF Next

\* The invariant holds of every state the checkout reaches.
THEOREM CashInvariant == Spec => []CashInv
  BY InitEstablishesCashInv, NextKeepsCashInv, PTL DEF Spec

\* The columns keep their types; no wallet goes below zero.
THEOREM TypeCorrect == Spec => []TypeOK
  BY CashInvariant, PTL DEF CashInv

\* Cash a customer put in is in the wallet or in a standing wallet payment,
\* whatever any number of reviewers do at the same time.
THEOREM CashIsKept == Spec => []CashIsConserved
  <1>1. CashInv => CashIsConserved
    BY DEF CashInv, CashStands, CashIsConserved, SumOf, AmountSum, Standing
  <1> QED
    BY <1>1, CashInvariant, PTL

-----------------------------------------------------------------------------
(* Receipts under any number of reviewers *)

\* Credit that is kept weighs as much as before.
LEMMA CreditGrows ==
    ASSUME NEW p \in Seq(Payment), NEW q \in Seq(Payment), NEW a,
           \A j \in Credit(p, a) : j \in Credit(q, a) /\ q[j].amount = p[j].amount
    PROVE  /\ AmountSum(p, Credit(p, a)) \in Nat /\ AmountSum(q, Credit(q, a)) \in Nat
           /\ AmountSum(p, Credit(p, a)) <= AmountSum(q, Credit(q, a))
  <1> DEFINE S == Credit(p, a)
             T == Credit(q, a)
  <1>1. /\ S \in SUBSET (DOMAIN p) /\ T \in SUBSET (DOMAIN q) /\ S \subseteq T
        /\ \A j \in S : p[j].amount = q[j].amount
    BY DEF Credit
  <1> HIDE DEF S, T
  <1>2. /\ IsFiniteSet(S) /\ AmountSum(p, S) \in Nat
        /\ IsFiniteSet(T) /\ \A j \in T : q[j].amount \in Nat
    BY <1>1, PaymentFacts
  <1>3. AmountSum(p, S) = AmountSum(q, S)
    BY <1>1, <1>2, AmountSame
  <1>4. AmountSum(q, S) <= AmountSum(q, T) /\ AmountSum(q, T) \in Nat
    BY <1>1, <1>2, AmountMonotone
  <1> QED
    BY <1>2, <1>3, <1>4 DEF S, T

\* What a step must leave of the receipts that still wait after it.
LEMMA ReceiptsKept ==
    ASSUME CashInv, CashInv', ReceiptInv, PlacedFirst',
           \A i \in DOMAIN pays' : pays'[i].status = "pending" =>
              \/ Backed(i)'
              \/ /\ i \in DOMAIN pays /\ pays'[i] = pays[i]
                 /\ price'[pays[i].order] <= price[pays[i].order]
                 /\ \A j \in Credit(pays, pays[i].order) :
                       j \in Credit(pays', pays[i].order) /\ pays'[j].amount = pays[j].amount
    PROVE  ReceiptInv'
  <1> SUFFICES ASSUME NEW i \in DOMAIN pays', pays'[i].status = "pending",
                      i \in DOMAIN pays, pays'[i] = pays[i],
                      price'[pays[i].order] <= price[pays[i].order],
                      \A j \in Credit(pays, pays[i].order) :
                         j \in Credit(pays', pays[i].order) /\ pays'[j].amount = pays[j].amount
               PROVE  Backed(i)'
    BY DEF ReceiptInv, ReceiptsBacked
  <1>1. pays \in Seq(Payment) /\ pays' \in Seq(Payment)
    BY DEF CashInv, TypeOK
  <1>2. PICK o \in Orders : o = pays[i].order /\ pays'[i].order = o
    BY <1>1, PaymentFacts
  <1>3. /\ pays[i].amount \in Nat /\ pays'[i].amount = pays[i].amount
        /\ pays'[i].method = pays[i].method
        /\ price[o] \in Nat /\ price'[o] \in Nat /\ price'[o] <= price[o]
    <2>1. pays[i].amount \in Nat
      BY <1>1, PaymentFacts
    <2> QED
      BY <1>2, <2>1 DEF CashInv, TypeOK
  <1>4. Backed(i)
    BY DEF ReceiptInv, ReceiptsBacked
  <1>5. /\ pays[i].method = "card"
        /\ AmountSum(pays, Credit(pays, o)) + pays[i].amount >= price[o]
    BY <1>2, <1>4 DEF Backed
  <1>6. \A j \in Credit(pays, o) : j \in Credit(pays', o) /\ pays'[j].amount = pays[j].amount
    BY <1>2
  <1>7. /\ AmountSum(pays, Credit(pays, o)) \in Nat /\ AmountSum(pays', Credit(pays', o)) \in Nat
        /\ AmountSum(pays, Credit(pays, o)) <= AmountSum(pays', Credit(pays', o))
    BY <1>1, <1>6, CreditGrows
  <1>8. AmountSum(pays', Credit(pays', o)) + pays'[i].amount >= price'[o]
    BY <1>3, <1>5, <1>7
  <1> QED
    BY <1>2, <1>3, <1>5, <1>8 DEF Backed

\* A step that leaves the payments and the prices of placed orders alone, and
\* takes no order back.
LEMMA PaymentsAlone ==
    ASSUME CashInv, CashInv', ReceiptInv, pays' = pays,
           \A o \in Orders : status[o] # "none" => status'[o] # "none" /\ price'[o] <= price[o]
    PROVE  ReceiptInv'
  <1>1. \A i \in DOMAIN pays : pays[i].order \in Orders
    BY PaymentFacts DEF CashInv, TypeOK
  <1>2. PlacedFirst'
    BY <1>1 DEF ReceiptInv, PlacedFirst
  <1>3. \A i \in DOMAIN pays : price'[pays[i].order] <= price[pays[i].order]
    BY <1>1 DEF ReceiptInv, PlacedFirst
  <1> QED
    BY <1>2, <1>3, ReceiptsKept DEF Credit

\* A new payment of a placed order, which is credit or a receipt that covers
\* what is owed.
LEMMA AppendKeepsReceiptInv ==
    ASSUME CashInv, CashInv', ReceiptInv, NEW o \in Orders, NEW x \in Payment, x.order = o,
           pays' = Append(pays, x), status[o] # "none", price' = price,
           \A a \in Orders : status[a] # "none" => status'[a] # "none",
           \A n : n = Len(pays) + 1 => x.status # "pending" \/ Backed(n)'
    PROVE  ReceiptInv'
  <1>1. pays \in Seq(Payment) /\ x \in Payment /\ pays' = Append(pays, x)
    BY DEF CashInv, TypeOK
  <1>2. /\ DOMAIN pays' = DOMAIN pays \cup {Len(pays) + 1}
        /\ pays'[Len(pays) + 1] = x /\ \A i \in DOMAIN pays : pays'[i] = pays[i]
    BY ONLY <1>1, PaymentAppended
  <1>3. \A i \in DOMAIN pays : pays[i].order \in Orders
    BY <1>1, PaymentFacts
  <1>4. PlacedFirst'
    BY <1>2, <1>3 DEF ReceiptInv, PlacedFirst
  <1>5. \A i \in DOMAIN pays : price'[pays[i].order] <= price[pays[i].order]
    BY <1>3 DEF CashInv, TypeOK
  <1>6. \A a : \A j \in Credit(pays, a) : j \in Credit(pays', a) /\ pays'[j].amount = pays[j].amount
    BY <1>2 DEF Credit
  <1>7. ASSUME NEW i \in DOMAIN pays', pays'[i].status = "pending"
        PROVE  \/ Backed(i)'
               \/ /\ i \in DOMAIN pays /\ pays'[i] = pays[i]
                  /\ price'[pays[i].order] <= price[pays[i].order]
                  /\ \A j \in Credit(pays, pays[i].order) :
                        j \in Credit(pays', pays[i].order) /\ pays'[j].amount = pays[j].amount
    <2>1. CASE i \in DOMAIN pays
      BY <1>2, <1>5, <1>6, <2>1
    <2>2. CASE i = Len(pays) + 1
      BY <1>2, <1>7, <2>2
    <2> QED
      BY <1>2, <2>1, <2>2
  <1> QED
    BY <1>4, <1>7, ReceiptsKept

\* Placing an order, which has no payment yet.
LEMMA PlaceKeepsReceiptInv ==
    ASSUME CashInv, ReceiptInv, NEW o \in Orders, NEW p \in Prices, PlaceOrder(o, p)
    PROVE  ReceiptInv'
  <1>1. CashInv' /\ pays' = pays
    BY PlaceKeepsCashInv DEF PlaceOrder
  <1>2. /\ status[o] = "none" /\ status' = [status EXCEPT ![o] = "pending"]
        /\ price' = [price EXCEPT ![o] = p]
    BY DEF PlaceOrder
  <1>3. \A a \in Orders : status[a] # "none" => status'[a] # "none" /\ price'[a] <= price[a]
    <2> SUFFICES ASSUME NEW a \in Orders, status[a] # "none"
                 PROVE  status'[a] # "none" /\ price'[a] <= price[a]
      OBVIOUS
    <2>1. status'[a] = status[a] /\ price'[a] = price[a] /\ price[a] \in Nat
      BY <1>2 DEF CashInv, TypeOK
    <2> QED
      BY <2>1
  <1> QED
    BY <1>1, <1>3, PaymentsAlone

\* Wallet credit towards an order.
LEMMA PayKeepsReceiptInv ==
    ASSUME CashInv, ReceiptInv, NEW o \in Orders, NEW credit \in 1 .. MaxTopUp,
           NEW up \in ProviderUp, PayWithWallet(o, credit, up)
    PROVE  ReceiptInv'
  <1>1. /\ CashInv'
        /\ \E x \in Payment :
             /\ pays' = Append(pays, x) /\ x.order = o /\ x.method = "wallet"
             /\ x.status = "confirmed" /\ x.amount <= price[o] - Received(pays, o)
             /\ status' = [status EXCEPT ![o] =
                             IF Received(pays, o) + x.amount < price[o]
                               THEN "awaiting_payment" ELSE "paid"]
    BY PayKeepsCashInv
  <1>2. PICK x \in Payment : /\ pays' = Append(pays, x) /\ x.order = o /\ x.status = "confirmed"
                             /\ status' = [status EXCEPT ![o] =
                                             IF Received(pays, o) + x.amount < price[o]
                                               THEN "awaiting_payment" ELSE "paid"]
    BY <1>1
  <1>3. status[o] # "none" /\ price' = price
    BY DEF PayWithWallet, Unfinished
  <1>4. \A a \in Orders : status[a] # "none" => status'[a] # "none"
    BY <1>2 DEF CashInv, TypeOK
  <1> QED
    BY <1>1, <1>2, <1>3, <1>4, AppendKeepsReceiptInv

\* A cancellation gives the credit back and ends the receipts of its order.
LEMMA CancelKeepsReceiptInv ==
    ASSUME CashInv, ReceiptInv, NEW o \in Orders, CancelOrder(o)
    PROVE  ReceiptInv'
  <1>1. /\ DOMAIN pays' = DOMAIN pays
        /\ \A i \in DOMAIN pays :
             /\ pays'[i].order = pays[i].order
             /\ pays[i].order # o => pays'[i] = pays[i]
             /\ pays[i].order = o => pays'[i].status \notin {"confirmed", "pending"}
    BY CancelOrderEffects
  <1>2. CashInv'
    BY CancelKeepsCashInv
  <1>3. status' = [status EXCEPT ![o] = "cancelled"] /\ price' = price
    BY DEF CancelOrder
  <1>4. \A i \in DOMAIN pays : pays[i].order \in Orders
    BY PaymentFacts DEF CashInv, TypeOK
  <1>5. PlacedFirst'
    BY <1>1, <1>3, <1>4 DEF ReceiptInv, PlacedFirst, CashInv, TypeOK
  <1>6. \A i \in DOMAIN pays : price'[pays[i].order] <= price[pays[i].order]
    BY <1>3, <1>4 DEF CashInv, TypeOK
  <1>7. \A a \in Orders \ {o} : \A j \in Credit(pays, a) :
           j \in Credit(pays', a) /\ pays'[j].amount = pays[j].amount
    BY <1>1 DEF Credit
  <1>8. \A i \in DOMAIN pays' : pays'[i].status = "pending" =>
           pays'[i] = pays[i] /\ pays[i].order \in Orders \ {o}
    BY <1>1, <1>4
  <1> QED
    BY <1>1, <1>2, <1>5, <1>6, <1>7, <1>8, ReceiptsKept

\* A coupon only lowers the price.
LEMMA CouponKeepsReceiptInv ==
    ASSUME CashInv, ReceiptInv, NEW o \in Orders, ApplyCoupon(o)
    PROVE  ReceiptInv'
  <1>1. /\ CashInv' /\ UNCHANGED <<status, pays>>
        /\ price' = [price EXCEPT ![o] = price'[o]] /\ price'[o] <= price[o]
    BY CouponKeepsCashInv
  <1>2. \A a \in Orders : status[a] # "none" => status'[a] # "none" /\ price'[a] <= price[a]
    <2> SUFFICES ASSUME NEW a \in Orders PROVE price'[a] <= price[a]
      BY <1>1
    <2>1. CASE a = o
      BY <1>1, <2>1
    <2>2. CASE a # o
      <3>1. price'[a] = price[a] /\ price[a] \in Nat
        BY <1>1, <2>2 DEF CashInv, TypeOK
      <3> QED
        BY <3>1
    <2> QED
      BY <2>1, <2>2
  <1> QED
    BY <1>1, <1>2, PaymentsAlone

\* A receipt is sent when no other of its order waits or counts, so what is
\* owed then is the price without the credit.
LEMMA SendKeepsReceiptInv ==
    ASSUME CashInv, ReceiptInv, NEW o \in Orders, SendReceipt(o)
    PROVE  ReceiptInv'
  <1>1. PICK x \in Payment :
           /\ pays' = Append(pays, x)
           /\ x.order = o /\ x.method = "card" /\ x.status = "pending"
           /\ price[o] - Received(pays, o) <= x.amount
           /\ status[o] \in Unfinished /\ status' = [status EXCEPT ![o] = "processing"]
           /\ \A j \in DOMAIN pays : pays[j].order = o /\ pays[j].method = "card"
                => pays[j].status \notin {"pending", "confirmed"}
           /\ price' = price
    BY SendReceiptEffects
  <1>2. CashInv'
    BY SendKeepsCashInv
  <1>3. pays \in Seq(Payment) /\ pays' \in Seq(Payment) /\ price[o] \in Nat
    BY <1>2 DEF CashInv, TypeOK
  <1>4. Confirmed(pays, o) = Credit(pays, o)
    BY <1>1, <1>3, PaymentFacts DEF Confirmed, Credit
  <1>5. x \in Payment /\ pays \in Seq(Payment) /\ pays' = Append(pays, x)
    BY <1>1, <1>3
  <1>6. /\ pays'[Len(pays) + 1] = x /\ DOMAIN pays' = DOMAIN pays \cup {Len(pays) + 1}
        /\ \A i \in DOMAIN pays : pays'[i] = pays[i]
    BY ONLY <1>5, PaymentAppended
  <1>7. \A j \in Credit(pays, o) : j \in Credit(pays', o) /\ pays'[j].amount = pays[j].amount
    BY <1>6 DEF Credit
  <1>8. /\ AmountSum(pays, Credit(pays, o)) \in Nat /\ AmountSum(pays', Credit(pays', o)) \in Nat
        /\ AmountSum(pays, Credit(pays, o)) <= AmountSum(pays', Credit(pays', o))
    BY <1>3, <1>7, CreditGrows
  <1>9. AmountSum(pays', Credit(pays', o)) + x.amount >= price[o]
    <2>1. price[o] - AmountSum(pays, Credit(pays, o)) <= x.amount /\ x.amount \in Nat
      BY <1>1, <1>4 DEF Received, Payment
    <2> QED
      BY <1>3, <1>8, <2>1
  <1>10. \A n : n = Len(pays) + 1 => Backed(n)'
    BY <1>1, <1>6, <1>9 DEF Backed
  <1>11. \A a \in Orders : status[a] # "none" => status'[a] # "none"
    BY <1>1 DEF CashInv, TypeOK
  <1> QED
    BY <1>1, <1>2, <1>10, <1>11, AppendKeepsReceiptInv DEF Unfinished

\* A review confirms or fails a card payment, whatever has become of it.
LEMMA SaveKeepsReceiptInv ==
    ASSUME CashInv, ReceiptInv, NEW r \in Reviewers, SavePayment(r)
    PROVE  ReceiptInv'
  <1>1. CashInv' /\ UNCHANGED <<status, price>>
    BY SaveKeepsCashInv DEF SavePayment
  <1>2. CASE pays' = pays
    <2>1. \A o \in Orders : price[o] <= price[o]
      BY DEF CashInv, TypeOK
    <2> QED
      BY <1>1, <1>2, <2>1, PaymentsAlone
  <1>3. CASE pays' # pays
    <2> DEFINE i == review[r].pay
               to == review[r].to
    <2>1. /\ i \in DOMAIN pays /\ pays[i].method = "card" /\ to \in {"confirmed", "failed"}
      BY ReviewUnderWay DEF SavePayment
    <2>2. pays' = [pays EXCEPT ![i].status = to]
      BY <1>3 DEF SavePayment
    <2> HIDE DEF i, to
    <2>3. pays \in Seq(Payment) /\ to \in PaymentStatus
      BY <2>1 DEF CashInv, TypeOK, PaymentStatus
    <2>4. /\ DOMAIN pays' = DOMAIN pays
          /\ \A j \in DOMAIN pays : /\ j # i => pays'[j] = pays[j]
                                    /\ pays'[j].order = pays[j].order
                                    /\ pays'[j].method = pays[j].method
                                    /\ pays'[j].amount = pays[j].amount
          /\ pays'[i].status = to
      BY ONLY <2>1, <2>2, <2>3, PaymentSaved
    <2>5. \A j \in DOMAIN pays : price'[pays[j].order] <= price[pays[j].order]
      BY <1>1, <2>3, PaymentFacts DEF CashInv, TypeOK
    <2>6. PlacedFirst'
      BY <1>1, <2>4 DEF ReceiptInv, PlacedFirst
    <2>7. \A a : \A j \in Credit(pays, a) : j \in Credit(pays', a) /\ pays'[j].amount = pays[j].amount
      BY <2>1, <2>4 DEF Credit
    <2>8. \A j \in DOMAIN pays' : pays'[j].status = "pending" => j \in DOMAIN pays /\ pays'[j] = pays[j]
      BY <2>1, <2>4
    <2> QED
      BY <1>1, <2>5, <2>6, <2>7, <2>8, ReceiptsKept
  <1> QED
    BY <1>2, <1>3

\* The invariant about receipts is inductive.
LEMMA NextKeepsReceiptInv == CashInv /\ ReceiptInv /\ [Next]_vars => ReceiptInv'
  <1> SUFFICES ASSUME CashInv, ReceiptInv, [Next]_vars PROVE ReceiptInv'
    OBVIOUS
  <1>1. CashInv' /\ TypeOK
    BY NextKeepsCashInv DEF CashInv
  <1>2. \A o \in Orders : price[o] <= price[o]
    BY <1>1 DEF TypeOK
  <1>3. CASE UNCHANGED <<pays, price, status>>
    BY <1>1, <1>2, <1>3, PaymentsAlone
  <1>4. CASE UNCHANGED <<pays, price>> /\ \E o \in Orders : \E new \in OrderStatus \ {"none"} :
                status' = [status EXCEPT ![o] = new]
    <2>1. \A a \in Orders : status[a] # "none" => status'[a] # "none"
      BY <1>1, <1>4 DEF TypeOK
    <2> QED
      BY <1>1, <1>2, <1>4, <2>1, PaymentsAlone
  <1>5. CASE Customer
    <2>1. ASSUME NEW o \in Orders,
                 \/ \E c \in Cards, unique \in BOOLEAN : ReserveQuote(o, c, unique)
                 \/ \E c \in Cards : ReopenQuote(o, c)
          PROVE  ReceiptInv'
      BY <1>3, <2>1 DEF ReserveQuote, ReopenQuote
    <2>2. ASSUME NEW u \in Users, NEW a \in 1 .. MaxTopUp, TopUp(u, a) PROVE ReceiptInv'
      BY <1>3, <2>2 DEF TopUp
    <2> QED
      BY <1>5, <2>1, <2>2, PlaceKeepsReceiptInv, PayKeepsReceiptInv, CancelKeepsReceiptInv,
         CouponKeepsReceiptInv, SendKeepsReceiptInv DEF Customer
  <1>6. CASE Staff
    <2>1. ASSUME NEW r \in Reviewers, NEW i \in DOMAIN pays, NEW to \in {"confirmed", "failed"},
                 ReadPayment(r, i, to)
          PROVE  ReceiptInv'
      BY <1>3, <2>1 DEF ReadPayment
    <2>2. ASSUME NEW o \in Orders, NEW to \in {"paid", "processing", "completed", "failed"},
                 NEW up \in ProviderUp, SetOrder(o, to, up)
          PROVE  ReceiptInv'
      <3>1. \E new \in OrderStatus \ {"none"} : status' = [status EXCEPT ![o] = new]
        BY <2>2 DEF SetOrder, OrderStatus
      <3>2. UNCHANGED <<pays, price>>
        BY <2>2 DEF SetOrder
      <3> QED
        BY <1>4, <3>1, <3>2
    <2> QED
      BY <1>6, <2>1, <2>2 DEF Staff
  <1>7. CASE System \/ \E r \in Reviewers : Die(r)
    <2>1. ASSUME NEW r \in Reviewers, HandlerWrite(r) PROVE ReceiptInv'
      <3>1. UNCHANGED <<pays, price>>
        BY <2>1 DEF HandlerWrite
      <3>2. Reviewed(review[r]) \in Orders
        BY <1>1, <2>1, ReviewUnderWay DEF CashInv, HandlerWrite
      <3>3. \/ status' = status
            \/ status' = [status EXCEPT ![Reviewed(review[r])] =
                            Outcome(review[r].to, review[r].seen)]
        BY <2>1 DEF HandlerWrite, Reviewed
      <3>4. Outcome(review[r].to, review[r].seen) \in OrderStatus \ {"none"}
        BY DEF Outcome, OrderStatus
      <3> QED
        BY <1>3, <1>4, <3>1, <3>2, <3>3, <3>4
    <2>2. ASSUME NEW r \in Reviewers,
                 \/ PreSave(r) \/ HandlerRead(r) \/ Die(r)
                 \/ \E up \in ProviderUp : HandlerProvision(r, up)
          PROVE  ReceiptInv'
      BY <1>3, <2>2 DEF PreSave, HandlerRead, Die, HandlerProvision
    <2>3. ASSUME NEW o \in Orders, Provision(o) PROVE ReceiptInv'
      <3>1. UNCHANGED <<pays, price>> /\ status' = [status EXCEPT ![o] = "completed"]
        BY <2>3 DEF Provision
      <3> QED
        BY <1>4, <3>1 DEF OrderStatus
    <2>4. ASSUME NEW i \in DOMAIN quotes, ExpireQuote(i) \/ ReleaseQuote(i) PROVE ReceiptInv'
      BY <1>3, <2>4 DEF ExpireQuote, ReleaseQuote
    <2> QED
      BY <1>7, <2>1, <2>2, <2>3, <2>4, SaveKeepsReceiptInv DEF System, ReviewStep
  <1>8. CASE UNCHANGED vars
    BY <1>3, <1>8 DEF vars
  <1> QED
    BY <1>5, <1>6, <1>7, <1>8 DEF Next

\* A reserved amount names one order, and a receipt under review covers what
\* its order owes, coupons, credit and any number of concurrent reviews
\* notwithstanding (reserve_card_quote, _record_card_receipt).
THEOREM ReceiptsSettle == Spec => []ReceiptSettles
  <1>1. Init => ReceiptInv
    BY DEF Init, ReceiptInv, PlacedFirst, ReceiptsBacked
  <1>2. CashInv /\ ReceiptInv => ReceiptSettles
    <2> SUFFICES ASSUME CashInv, ReceiptInv PROVE ReceiptSettles
      OBVIOUS
    <2>1. ASSUME NEW o \in Orders, NEW i \in PaymentsOf(o, "pending")
          PROVE  Total(o) + pays[i].amount >= price[o]
      <3>1. i \in DOMAIN pays /\ pays[i].order = o /\ pays[i].status = "pending"
        BY DEF PaymentsOf
      <3>2. AmountSum(pays, Credit(pays, o)) + pays[i].amount >= price[o]
        BY <3>1 DEF ReceiptInv, ReceiptsBacked, Backed
      <3> DEFINE S == Credit(pays, o)
                 T == Confirmed(pays, o)
      <3>3. S \subseteq T /\ T \in SUBSET (DOMAIN pays)
        BY DEF Credit, Confirmed
      <3> HIDE DEF S, T
      <3>4. pays \in Seq(Payment) /\ price[o] \in Nat
        BY DEF CashInv, TypeOK
      <3>5. IsFiniteSet(T) /\ (\A j \in T : pays[j].amount \in Nat) /\ pays[i].amount \in Nat
        BY <3>1, <3>3, <3>4, PaymentFacts
      <3>6. AmountSum(pays, S) <= AmountSum(pays, T) /\ AmountSum(pays, S) \in Nat
            /\ AmountSum(pays, T) \in Nat
        BY <3>3, <3>5, AmountMonotone
      <3>7. Total(o) = AmountSum(pays, T)
        BY TotalIsReceived DEF Received, T
      <3>8. AmountSum(pays, S) + pays[i].amount >= price[o]
        BY <3>2 DEF S
      <3> QED
        BY <3>4, <3>5, <3>6, <3>7, <3>8
    <2> QED
      BY <2>1 DEF CashInv, QuotesDiffer, ReceiptSettles
  <1> QED
    BY <1>1, <1>2, CashInvariant, NextKeepsReceiptInv, PTL DEF Spec

-----------------------------------------------------------------------------
(* One reviewer at a time: what a step leaves alone *)

\* An order whose payments are the same received the same.
LEMMA SamePayments ==
    ASSUME NEW p \in Seq(Payment), NEW q \in Seq(Payment), NEW a,
           \A i \in DOMAIN p : i \in DOMAIN q /\ (p[i].order = a => q[i] = p[i]),
           \A i \in DOMAIN q : q[i].order = a => i \in DOMAIN p /\ p[i].order = a
    PROVE  /\ Confirmed(q, a) = Confirmed(p, a)
           /\ Pending(q, a) = Pending(p, a)
           /\ Received(q, a) = Received(p, a)
  <1>1. Confirmed(q, a) = Confirmed(p, a) /\ Pending(q, a) = Pending(p, a)
    BY DEF Confirmed, Pending
  <1>2. /\ IsFiniteSet(Confirmed(p, a))
        /\ \A i \in Confirmed(p, a) : q[i].amount = p[i].amount
    BY PaymentFacts DEF Confirmed
  <1>3. AmountSum(q, Confirmed(p, a)) = AmountSum(p, Confirmed(p, a))
    BY ONLY <1>2, AmountSame
  <1> QED
    BY <1>1, <1>3 DEF Received

\* An order a step says nothing of.
Untouched(a) ==
    /\ status'[a] = status[a] /\ price'[a] = price[a] /\ (a \in usages' => a \in usages)
    /\ \A i \in DOMAIN pays : i \in DOMAIN pays' /\ (pays[i].order = a => pays'[i] = pays[i])
    /\ \A i \in DOMAIN pays' : pays'[i].order = a => i \in DOMAIN pays /\ pays[i].order = a

\* It stays as it was.
LEMMA UntouchedKept ==
    ASSUME CashInv, CashInv', OrderInv, NEW a \in Orders, Untouched(a)
    PROVE  /\ Covered(a)'
           /\ \A i \in DOMAIN pays' :
                pays'[i].order = a /\ pays'[i].status = "pending" => Waits(i, a)'
           /\ \A j : /\ j.pay \in DOMAIN pays
                     /\ Reviewed(j) = a
                     /\ Current(j)
                     => Current(j)'
  <1>1. pays \in Seq(Payment) /\ pays' \in Seq(Payment)
    BY DEF CashInv, TypeOK
  <1>2. /\ Confirmed(pays', a) = Confirmed(pays, a) /\ Pending(pays', a) = Pending(pays, a)
        /\ Received(pays', a) = Received(pays, a)
    BY ONLY <1>1, Untouched(a), SamePayments DEF Untouched
  <1>3. Covered(a)'
    BY <1>2 DEF OrderInv, OrdersCovered, Covered, Untouched
  <1>4. ASSUME NEW i \in DOMAIN pays', pays'[i].order = a, pays'[i].status = "pending"
        PROVE  Waits(i, a)'
    <2>1. i \in DOMAIN pays /\ pays[i].order = a /\ pays'[i] = pays[i]
      BY <1>4 DEF Untouched
    <2>2. Waits(i, a)
      BY <1>4, <2>1 DEF OrderInv, ReceiptsCover
    <2>3. \A j \in DOMAIN pays' :
             pays'[j].order = a /\ pays'[j].method = "card"
             /\ pays'[j].status \in {"pending", "confirmed"} => j = i
      BY <2>2 DEF Untouched, Waits
    <2> QED
      BY <1>2, <2>1, <2>2, <2>3 DEF Untouched, Waits
  <1>5. ASSUME NEW j, j.pay \in DOMAIN pays, Reviewed(j) = a, Current(j)
        PROVE  Current(j)'
    <2>1. pays'[j.pay] = pays[j.pay] /\ Reviewed(j)' = a
      BY <1>5 DEF Untouched, Reviewed
    <2> QED
      BY <1>2, <1>5, <2>1 DEF Untouched, Current, Decides
  <1> QED
    BY <1>3, <1>4, <1>5

\* A step that concerns one order keeps the invariant if it leaves that order,
\* its receipts and its reviews in order.
LEMMA OneOrderTouched ==
    ASSUME CashInv, CashInv', OrderInv, NEW o \in Orders,
           \A a \in Orders \ {o} : Untouched(a),
           Covered(o)',
           \A i \in DOMAIN pays' :
              pays'[i].order = o /\ pays'[i].status = "pending" => Waits(i, o)',
           \A r \in Reviewers :
              \/ review'[r] = review[r] /\ (review[r] = NoReview \/ Reviewed(review[r]) # o)
              \/ Current(review[r])'
    PROVE  OrderInv'
  <1>1. pays' \in Seq(Payment) /\ \A i \in DOMAIN pays' : pays'[i].order \in Orders
    BY PaymentFacts DEF CashInv, TypeOK
  <1>2. OrdersCovered'
    BY UntouchedKept DEF OrdersCovered
  <1>3. ReceiptsCover'
    <2> SUFFICES ASSUME NEW i \in DOMAIN pays', pays'[i].status = "pending"
                 PROVE  Waits(i, pays[i].order)'
      BY DEF ReceiptsCover
    <2>1. PICK a \in Orders : a = pays'[i].order
      BY <1>1
    <2>2. Waits(i, a)'
      <3>1. CASE a = o
        BY <2>1, <3>1
      <3>2. CASE a # o
        BY <2>1, <3>2, UntouchedKept
      <3> QED
        BY <3>1, <3>2
    <2> QED
      BY <2>1, <2>2
  <1>4. ReviewsCurrent'
    <2> SUFFICES ASSUME NEW r \in Reviewers, ~ Current(review[r])'
                 PROVE  FALSE
      BY DEF ReviewsCurrent
    <2>1. review'[r] = review[r] /\ (review[r] = NoReview \/ Reviewed(review[r]) # o)
      OBVIOUS
    <2> DEFINE j == review[r]
    <2>2. CASE j = NoReview
      <3>1. review'[r].pc = "idle"
        BY <2>1, <2>2, ReviewTypes
      <3>2. Current(review[r])'
        BY <3>1 DEF Current
      <3> QED
        BY <3>2
    <2>3. CASE j # NoReview
      <3>1. j.pay \in DOMAIN pays /\ Reviewed(j) \in Orders
        BY <2>3, Numbers DEF CashInv, ReviewsKnown, Reviewed
      <3>2. Current(j)
        BY DEF OrderInv, ReviewsCurrent
      <3>3. PICK k : k = review[r]
        OBVIOUS
      <3>4. PICK a : a = Reviewed(k)
        OBVIOUS
      <3>5. a \in Orders /\ Untouched(a) /\ k.pay \in DOMAIN pays /\ Reviewed(k) = a /\ Current(k)
        BY <2>1, <2>3, <3>1, <3>2, <3>3, <3>4
      <3>6. Current(k)'
        BY <3>5, UntouchedKept
      <3>7. Current(review[r])'
        BY <2>1, <3>3, <3>6
      <3> QED
        BY <3>7
    <2> QED
      BY <2>2, <2>3
  <1> QED
    BY <1>2, <1>3, <1>4 DEF OrderInv

\* A step of one review that saves nothing.
LEMMA OneReviewTouched ==
    ASSUME OrderInv, NEW r \in Reviewers, UNCHANGED <<status, price, pays>>,
           usages' = usages,
           \A q \in Reviewers \ {r} : review'[q] = review[q],
           Current(review[r])'
    PROVE  OrderInv'
  <1>1. OrdersCovered'
    BY DEF OrderInv, OrdersCovered, Covered
  <1>2. ReceiptsCover'
    BY DEF OrderInv, ReceiptsCover, Waits
  <1>3. ReviewsCurrent'
    <2> SUFFICES ASSUME NEW q \in Reviewers, q # r PROVE Current(review[q])'
      BY DEF ReviewsCurrent
    <2>1. PICK k : k = review[q]
      OBVIOUS
    <2>2. Current(k)
      BY <2>1 DEF OrderInv, ReviewsCurrent
    <2>3. Current(k)'
      BY <2>2 DEF Current, Decides, Reviewed
    <2> QED
      BY <2>1, <2>3
  <1> QED
    BY <1>1, <1>2, <1>3 DEF OrderInv

\* A step that says nothing of orders, payments and reviews.
LEMMA NothingTouched ==
    ASSUME OrderInv, UNCHANGED <<status, price, pays, usages, review>>
    PROVE  OrderInv'
  BY DEF OrderInv, OrdersCovered, Covered, ReceiptsCover, Waits, ReviewsCurrent, Current,
         Decides, Reviewed

\* A step that says nothing of payments and only speaks of order o.
LEMMA OthersUntouched ==
    ASSUME NEW o \in Orders, pays' = pays, usages' \subseteq usages \cup {o},
           \A a \in Orders \ {o} : status'[a] = status[a] /\ price'[a] = price[a]
    PROVE  \A a \in Orders \ {o} : Untouched(a)
  BY DEF Untouched

\* What review steps there are.
LEMMA ReviewPoints ==
    \A j \in Review : j.pc \in {"idle", "read", "ready", "saved", "decided", "settled"}
  BY DEF Review, NoReview

\* An order that may still be paid is under no review, and no receipt of it waits.
LEMMA ReviewsElsewhere ==
    ASSUME CashInv, OrderInv, NEW o \in Orders, status[o] \in Unfinished \cup {"none"},
           review' = review
    PROVE  /\ \A i \in DOMAIN pays : pays[i].order = o => pays[i].status # "pending"
           /\ \A r \in Reviewers :
                \/ review'[r] = review[r] /\ (review[r] = NoReview \/ Reviewed(review[r]) # o)
                \/ Current(review[r])'
  <1>1. \A i \in DOMAIN pays : pays[i].status = "pending" => status[pays[i].order] \in {"processing", "failed"}
    BY DEF OrderInv, ReceiptsCover, Waits
  <1>2. status[o] \notin {"processing", "failed"}
    BY DEF Unfinished
  <1>3. ASSUME NEW r \in Reviewers
        PROVE  \/ review[r] = NoReview \/ Reviewed(review[r]) # o
               \/ Current(review[r])'
    <2>1. review[r] \in Review /\ Current(review[r])
      BY DEF CashInv, TypeOK, OrderInv, ReviewsCurrent
    <2>2. CASE review[r].pc \in {"read", "ready"}
      <3>1. review[r].pay \in DOMAIN pays /\ pays[review[r].pay].status = "pending"
        BY <2>1, <2>2, ReviewUnderWay DEF Current
      <3> QED
        BY <1>1, <1>2, <3>1 DEF Reviewed
    <2>3. CASE review[r].pc \in {"saved", "decided"}
      BY <2>1, <2>3 DEF Current, Decides
    <2>4. CASE review[r].pc \in {"idle", "settled"}
      BY <2>4 DEF Current
    <2> QED
      BY <2>1, <2>2, <2>3, <2>4, ReviewPoints
  <1> QED
    BY <1>1, <1>2, <1>3

\* A placed order has received nothing.
LEMMA PlaceKeepsOrderInv ==
    ASSUME CashInv, OrderInv, NEW o \in Orders, NEW p \in Prices, PlaceOrder(o, p)
    PROVE  OrderInv'
  <1>1. /\ status[o] = "none"
        /\ status' = [status EXCEPT ![o] = "pending"] /\ price' = [price EXCEPT ![o] = p]
        /\ UNCHANGED <<pays, money, coupon, quotes, sub, review>>
    BY DEF PlaceOrder
  <1>2. CashInv' /\ TypeOK /\ p \in Nat /\ MaxExtra \in Nat
    BY PlaceKeepsCashInv, CheckoutAssumption DEF CashInv
  <1>3. \A a \in Orders \ {o} : Untouched(a)
    <2>1. \A a \in Orders \ {o} : status'[a] = status[a] /\ price'[a] = price[a]
      BY <1>1
    <2>2. pays' = pays /\ usages' \subseteq usages \cup {o}
      BY <1>1 DEF coupon
    <2> QED
      BY <2>1, <2>2, OthersUntouched
  <1>4. o \notin usages /\ \A i \in DOMAIN pays : pays[i].order # o
    BY <1>1 DEF OrderInv, OrdersCovered, Covered
  <1>5. Covered(o)'
    <2>1. Confirmed(pays', o) = {}
      BY <1>1, <1>4 DEF Confirmed
    <2>2. Received(pays', o) = 0
      BY ONLY <2>1, AmountEmpty DEF Received
    <2>3. status'[o] = "pending" /\ price'[o] = p
      BY <1>1, <1>2 DEF TypeOK
    <2> QED
      BY <1>2, <2>2, <2>3 DEF Covered, Unfinished
  <1>6. \A r \in Reviewers :
           \/ review'[r] = review[r] /\ (review[r] = NoReview \/ Reviewed(review[r]) # o)
           \/ Current(review[r])'
    BY <1>1, ReviewsElsewhere
  <1> QED
    BY <1>1, <1>2, <1>3, <1>4, <1>5, <1>6, OneOrderTouched

\* A coupon leaves a price above what was received.
LEMMA CouponKeepsOrderInv ==
    ASSUME CashInv, OrderInv, NEW o \in Orders, ApplyCoupon(o)
    PROVE  OrderInv'
  <1>1. /\ CashInv' /\ status[o] \in Unfinished
        /\ UNCHANGED <<status, pays, quotes, review>>
        /\ price' = [price EXCEPT ![o] = price'[o]]
        /\ price'[o] \in Nat /\ Received(pays, o) <= price'[o]
        /\ usages' = usages \cup {o}
    BY CouponKeepsCashInv
  <1>2. TypeOK /\ MaxExtra \in Nat /\ Received(pays, o) \in Nat
    BY Numbers DEF CashInv
  <1>3. \A a \in Orders \ {o} : Untouched(a)
    <2>1. \A a \in Orders \ {o} : status'[a] = status[a] /\ price'[a] = price[a]
      BY <1>1, <1>2 DEF TypeOK
    <2> QED
      BY <1>1, <2>1, OthersUntouched
  <1>4. Covered(o)'
    <2>1. Received(pays', o) = Received(pays, o)
      BY <1>1
    <2>2. status'[o] \notin {"none", "cancelled", "paid", "completed"}
      BY <1>1 DEF Unfinished
    <2> QED
      BY <1>1, <1>2, <2>1, <2>2 DEF Covered
  <1>5. /\ \A i \in DOMAIN pays : pays[i].order = o => pays[i].status # "pending"
        /\ \A r \in Reviewers :
           \/ review'[r] = review[r] /\ (review[r] = NoReview \/ Reviewed(review[r]) # o)
           \/ Current(review[r])'
    BY <1>1, ReviewsElsewhere
  <1> QED
    BY <1>1, <1>3, <1>4, <1>5, OneOrderTouched

\* A new payment of o is nothing to other orders.
LEMMA AppendUntouched ==
    ASSUME pays \in Seq(Payment), NEW o \in Orders, NEW x \in Payment, x.order = o,
           pays' = Append(pays, x), UNCHANGED <<price, usages>>,
           \A a \in Orders \ {o} : status'[a] = status[a]
    PROVE  \A a \in Orders \ {o} : Untouched(a)
  <1>1. pays \in Seq(Payment) /\ x \in Payment /\ pays' = Append(pays, x)
    OBVIOUS
  <1>2. /\ DOMAIN pays' = DOMAIN pays \cup {Len(pays) + 1} /\ pays'[Len(pays) + 1] = x
        /\ \A i \in DOMAIN pays : pays'[i] = pays[i]
    BY ONLY <1>1, PaymentAppended
  <1>3. ASSUME NEW a \in Orders \ {o}
        PROVE  Untouched(a)
    <2>1. status'[a] = status[a] /\ price'[a] = price[a] /\ (a \in usages' => a \in usages)
      OBVIOUS
    <2>2. \A i \in DOMAIN pays : i \in DOMAIN pays' /\ (pays[i].order = a => pays'[i] = pays[i])
      BY <1>2
    <2>3. \A i \in DOMAIN pays' : pays'[i].order = a => i \in DOMAIN pays /\ pays[i].order = a
      BY <1>2, <1>3
    <2> QED
      BY <2>1, <2>2, <2>3 DEF Untouched
  <1> QED
    BY <1>3

\* A wallet payment is of what is due at most.
LEMMA PayKeepsOrderInv ==
    ASSUME CashInv, OrderInv, NEW o \in Orders, NEW credit \in 1 .. MaxTopUp, NEW up \in ProviderUp,
           PayWithWallet(o, credit, up)
    PROVE  OrderInv'
  <1>1. PICK x \in Payment :
                /\ pays' = Append(pays, x) /\ x.order = o /\ x.method = "wallet"
                /\ x.status = "confirmed" /\ x.amount <= price[o] - Received(pays, o)
                /\ status' = [status EXCEPT ![o] =
                                IF Received(pays, o) + x.amount < price[o]
                                  THEN "awaiting_payment" ELSE "paid"]
    BY PayKeepsCashInv
  <1>2. CashInv'
    BY PayKeepsCashInv
  <1>3. /\ status[o] \in Unfinished /\ UNCHANGED <<price, usages, review>>
    BY DEF PayWithWallet, coupon
  <1>4. /\ TypeOK /\ pays \in Seq(Payment) /\ MaxExtra \in Nat
        /\ Received(pays, o) \in Nat /\ price[o] \in Nat /\ x.amount \in Nat
    BY Numbers DEF CashInv, TypeOK, Payment
  <1>5. /\ DOMAIN pays' = DOMAIN pays \cup {Len(pays) + 1} /\ pays'[Len(pays) + 1] = x
        /\ \A i \in DOMAIN pays : pays'[i] = pays[i]
    BY ONLY <1>1, <1>4, PaymentAppended
  <1>6. Received(pays', o) = Received(pays, o) + x.amount
    <2>1. pays \in Seq(Payment) /\ pays' = Append(pays, x) /\ x.status = "confirmed"
      BY <1>1, <1>4
    <2>2. Received(pays', x.order) = Received(pays, x.order) + x.amount
      BY ONLY <2>1, OrderPaid
    <2> QED
      BY <1>1, <2>2
  <1>7. \A a \in Orders \ {o} : Untouched(a)
    <2>1. \A a \in Orders \ {o} : status'[a] = status[a]
      BY <1>1
    <2> QED
      BY ONLY <1>1, <1>3, <1>4, <2>1, o \in Orders, AppendUntouched
  <1>8. Covered(o)'
    <2>1. status'[o] = IF Received(pays, o) + x.amount < price[o]
                       THEN "awaiting_payment" ELSE "paid"
      BY <1>1, <1>4 DEF TypeOK
    <2>2. price'[o] = price[o] /\ Received(pays', o) <= price'[o]
      BY <1>1, <1>3, <1>4, <1>6
    <2>3. status'[o] \notin {"none", "cancelled"}
      BY <2>1
    <2>4. status'[o] \in {"paid", "completed"} => Received(pays', o) >= price'[o]
      BY <1>3, <1>4, <1>6, <2>1
    <2>5. Received(pays', o) <= price'[o] + MaxExtra
      BY <1>4, <1>6, <2>2
    <2> QED
      BY <2>2, <2>3, <2>4, <2>5 DEF Covered
  <1>9. /\ \A i \in DOMAIN pays : pays[i].order = o => pays[i].status # "pending"
        /\ \A r \in Reviewers :
           \/ review'[r] = review[r] /\ (review[r] = NoReview \/ Reviewed(review[r]) # o)
           \/ Current(review[r])'
    BY <1>3, ReviewsElsewhere
  <1>10. \A i \in DOMAIN pays' : pays'[i].order = o => pays'[i].status # "pending"
    BY <1>1, <1>5, <1>9
  <1> QED
    BY <1>2, <1>7, <1>8, <1>9, <1>10, OneOrderTouched

\* A cancelled order keeps nothing.
LEMMA CancelKeepsOrderInv ==
    ASSUME CashInv, OrderInv, NEW o \in Orders, CancelOrder(o)
    PROVE  OrderInv'
  <1>1. /\ pays \in Seq(Payment) /\ pays' \in Seq(Payment) /\ DOMAIN pays' = DOMAIN pays
        /\ \A i \in DOMAIN pays :
             /\ pays'[i].order = pays[i].order
             /\ pays[i].order # o => pays'[i] = pays[i]
             /\ pays[i].order = o => pays'[i].status \notin {"confirmed", "pending"}
        /\ status[o] \in Unfinished /\ status' = [status EXCEPT ![o] = "cancelled"]
        /\ usages' = usages \ {o}
        /\ UNCHANGED <<price, review>>
    BY CancelOrderEffects
  <1>2. CashInv' /\ TypeOK /\ MaxExtra \in Nat /\ price[o] \in Nat
    BY CancelKeepsCashInv, Numbers DEF CashInv
  <1>3. ASSUME NEW a \in Orders \ {o}
        PROVE  Untouched(a)
    <2>1. status'[a] = status[a] /\ price'[a] = price[a] /\ (a \in usages' => a \in usages)
      BY <1>1
    <2> QED
      BY <1>1, <2>1 DEF Untouched
  <1>4. Covered(o)'
    <2>1. Confirmed(pays', o) = {}
      BY <1>1 DEF Confirmed
    <2>2. Received(pays', o) = 0
      BY ONLY <2>1, AmountEmpty DEF Received
    <2>3. status'[o] = "cancelled" /\ price'[o] = price[o]
      BY <1>1, <1>2 DEF TypeOK
    <2> QED
      BY <1>1, <1>2, <2>1, <2>2, <2>3 DEF Covered, Unfinished
  <1>5. \A r \in Reviewers :
           \/ review'[r] = review[r] /\ (review[r] = NoReview \/ Reviewed(review[r]) # o)
           \/ Current(review[r])'
    BY <1>1, ReviewsElsewhere
  <1>6. \A i \in DOMAIN pays' : pays'[i].order = o => pays'[i].status # "pending"
    BY <1>1
  <1> QED
    BY <1>2, <1>3, <1>4, <1>5, <1>6, OneOrderTouched

\* A receipt that is sent covers what is due, and is the only one.
LEMMA SendKeepsOrderInv ==
    ASSUME CashInv, OrderInv, NEW o \in Orders, SendReceipt(o)
    PROVE  OrderInv'
  <1>1. PICK x \in Payment :
             /\ pays' = Append(pays, x)
             /\ x.order = o /\ x.method = "card" /\ x.status = "pending"
             /\ price[o] - Received(pays, o) > 0
             /\ price[o] - Received(pays, o) <= x.amount
             /\ x.amount <= price[o] - Received(pays, o) + MaxExtra
             /\ status[o] \in Unfinished /\ status' = [status EXCEPT ![o] = "processing"]
             /\ \A j \in DOMAIN pays : pays[j].order = o /\ pays[j].method = "card"
                  => pays[j].status \notin {"pending", "confirmed"}
             /\ Len(pays) < MaxPayments
             /\ UNCHANGED <<price, money, coupon, quotes, sub, review>>
    BY SendReceiptEffects
  <1>2. CashInv' /\ UNCHANGED <<price, usages, review>>
    BY <1>1, SendKeepsCashInv DEF coupon
  <1>3. /\ TypeOK /\ pays \in Seq(Payment) /\ MaxExtra \in Nat
        /\ Received(pays, o) \in Nat /\ price[o] \in Nat /\ x.amount \in Nat
    BY Numbers DEF CashInv, TypeOK, Payment
  <1>4. /\ DOMAIN pays' = DOMAIN pays \cup {Len(pays) + 1} /\ pays'[Len(pays) + 1] = x
        /\ \A i \in DOMAIN pays : pays'[i] = pays[i]
    BY ONLY <1>1, <1>3, PaymentAppended
  <1>5. Received(pays', o) = Received(pays, o)
    <2>1. \A a : Received(pays', a) = IF x.order = a /\ x.status = "confirmed"
                                      THEN Received(pays, a) + x.amount ELSE Received(pays, a)
      BY ONLY <1>1, <1>3, PaymentCounted
    <2> QED
      BY <1>1, <2>1
  <1>6. \A a \in Orders \ {o} : Untouched(a)
    <2>1. \A a \in Orders \ {o} : status'[a] = status[a]
      BY <1>1
    <2> QED
      BY ONLY <1>1, <1>2, <1>3, <2>1, o \in Orders, AppendUntouched
  <1>7. status'[o] = "processing" /\ price'[o] = price[o]
    BY <1>1, <1>2, <1>3 DEF TypeOK
  <1>8. Covered(o)'
    BY <1>1, <1>3, <1>5, <1>7 DEF Covered, Unfinished
  <1>9. \A r \in Reviewers :
           \/ review'[r] = review[r] /\ (review[r] = NoReview \/ Reviewed(review[r]) # o)
           \/ Current(review[r])'
    BY <1>1, <1>2, ReviewsElsewhere
  <1>10. ASSUME NEW i \in DOMAIN pays', pays'[i].order = o, pays'[i].status = "pending"
         PROVE  Waits(i, o)'
    <2>1. \A j \in DOMAIN pays : pays[j].order = o => pays[j].status # "pending"
      BY <1>1, <1>2, ReviewsElsewhere
    <2>2. i = Len(pays) + 1
      BY <1>4, <1>10, <2>1
    <2>3. pays'[i].method = "card" /\ pays'[i].amount = x.amount
      BY <1>1, <1>4, <2>2
    <2>4. \A j \in DOMAIN pays' :
             pays'[j].order = o /\ pays'[j].method = "card"
             /\ pays'[j].status \in {"pending", "confirmed"} => j = i
      BY <1>1, <1>4, <2>2
    <2>5. /\ Received(pays', o) < price'[o]
          /\ Received(pays', o) + x.amount >= price'[o]
          /\ Received(pays', o) + x.amount <= price'[o] + MaxExtra
      BY <1>1, <1>3, <1>5, <1>7
    <2> QED
      BY <1>7, <2>3, <2>4, <2>5 DEF Waits
  <1> QED
    BY <1>2, <1>6, <1>8, <1>9, <1>10, OneOrderTouched

\* A status set by staff or by the worker keeps what was paid and what waits.
LEMMA StatusKeepsOrderInv ==
    ASSUME CashInv, CashInv', OrderInv, NEW o \in Orders, NEW new \in {"paid", "processing", "completed", "failed"},
           status' = [status EXCEPT ![o] = new], UNCHANGED <<price, pays, usages, review>>,
           new \in {"paid", "completed"} => Received(pays, o) >= price[o],
           Received(pays, o) < price[o] => new = "failed"
    PROVE  OrderInv'
  <1>1. TypeOK
    BY DEF CashInv
  <1>2. status'[o] = new /\ \A a \in Orders \ {o} : status'[a] = status[a]
    BY <1>1 DEF TypeOK
  <1>3. \A a \in Orders \ {o} : Untouched(a)
    BY <1>2, OthersUntouched
  <1>4. Covered(o)'
    BY <1>2 DEF Covered, Unfinished, OrderInv, OrdersCovered
  <1>5. ASSUME NEW i \in DOMAIN pays', pays'[i].order = o, pays'[i].status = "pending"
        PROVE  Waits(i, o)'
    <2>1. Waits(i, o)
      BY <1>5 DEF OrderInv, ReceiptsCover
    <2> QED
      BY <1>2, <2>1 DEF Waits
  <1>6. ASSUME NEW r \in Reviewers
        PROVE  \/ review'[r] = review[r] /\ (review[r] = NoReview \/ Reviewed(review[r]) # o)
               \/ Current(review[r])'
    <2>1. CASE Reviewed(review[r]) # o
      BY <2>1
    <2>2. CASE Reviewed(review[r]) = o
      <3>1. PICK k : k = review[r]
        OBVIOUS
      <3>2. Current(k) /\ Reviewed(k) = o
        BY <2>2, <3>1 DEF OrderInv, ReviewsCurrent
      <3>3. status'[o] \notin Unfinished \cup {"none", "cancelled"}
        BY <1>2 DEF Unfinished
      <3>4. Reviewed(k)' = o
        BY <3>2 DEF Reviewed
      <3>5. Current(k)'
        BY <3>2, <3>3, <3>4 DEF Current, Decides
      <3> QED
        BY <3>1, <3>5
    <2> QED
      BY <2>1, <2>2
  <1> QED
    BY <1>3, <1>4, <1>5, <1>6, OneOrderTouched

\* The menu of order statuses keeps the second part: it calls an order paid only
\* when nothing is due.
LEMMA SetKeepsOrderInv ==
    ASSUME CashInv, OrderInv, NEW o \in Orders, NEW to \in {"paid", "processing", "completed", "failed"},
           NEW up \in ProviderUp, SetOrder(o, to, up)
    PROVE  OrderInv'
  <1> DEFINE new == IF to = "completed" /\ sub[o] = "pending" /\ up THEN "paid" ELSE to
  <1>1. /\ status' = [status EXCEPT ![o] = new] /\ Settable(o, to)
        /\ UNCHANGED <<price, pays, usages, review>>
    BY DEF SetOrder, coupon
  <1>2. /\ CashInv' /\ price[o] \in Nat /\ Received(pays, o) \in Nat
        /\ Total(o) = Received(pays, o) /\ Due(o) = price[o] - Received(pays, o)
    BY SetKeepsCashInv, Numbers DEF CashInv
  <1>3. to = "failed" \/ Received(pays, o) >= price[o]
    BY <1>1, <1>2 DEF Settable
  <1>4. /\ new \in {"paid", "processing", "completed", "failed"}
        /\ new = "failed" <=> to = "failed"
    OBVIOUS
  <1> HIDE DEF new
  <1>5. new \in {"paid", "completed"} => Received(pays, o) >= price[o]
    BY <1>3, <1>4
  <1>6. Received(pays, o) < price[o] => new = "failed"
    BY <1>2, <1>3, <1>4
  <1> QED
    BY <1>1, <1>2, <1>4, <1>5, <1>6, StatusKeepsOrderInv

\* Provisioning completes orders that are paid.
LEMMA ProvisionKeepsOrderInv ==
    ASSUME CashInv, OrderInv, NEW o \in Orders, Provision(o)
    PROVE  OrderInv'
  <1>1. /\ status' = [status EXCEPT ![o] = "completed"] /\ Due(o) <= 0
        /\ UNCHANGED <<price, pays, usages, review>>
    BY DEF Provision, coupon
  <1>2. /\ CashInv' /\ price[o] \in Nat /\ Received(pays, o) \in Nat
        /\ Due(o) = price[o] - Received(pays, o)
    BY ProvisionKeepsCashInv, Numbers DEF CashInv
  <1>3. Received(pays, o) >= price[o] /\ ~ (Received(pays, o) < price[o])
    BY <1>1, <1>2
  <1> QED
    BY <1>1, <1>2, <1>3, StatusKeepsOrderInv

-----------------------------------------------------------------------------
(* One reviewer at a time: the steps of the review *)

\* A reviewer reads a receipt that is under review.
LEMMA ReadKeepsOrderInv ==
    ASSUME CashInv, OrderInv, NEW r \in Reviewers, NEW i \in DOMAIN pays,
           NEW to \in {"confirmed", "failed"}, ReadPayment(r, i, to)
    PROVE  OrderInv'
  <1>1. /\ pays[i].status = "pending"
        /\ review' = [review EXCEPT ![r] = [pc |-> "read", pay |-> i, to |-> to]]
        /\ UNCHANGED <<status, price, pays, usages>>
    BY DEF ReadPayment, coupon
  <1>2. /\ review'[r] = [pc |-> "read", pay |-> i, to |-> to]
        /\ \A q \in Reviewers \ {r} : review'[q] = review[q]
    BY <1>1 DEF CashInv, TypeOK
  <1>3. Current(review[r])'
    BY <1>1, <1>2 DEF Current
  <1> QED
    BY <1>1, <1>2, <1>3, OneReviewTouched

\* With what the save remembers the review goes on as before.
LEMMA PreSaveKeepsOrderInv ==
    ASSUME CashInv, OrderInv, NEW r \in Reviewers, PreSave(r)
    PROVE  OrderInv'
  <1> DEFINE k == review[r]
             j == [pc |-> "ready", pay |-> k.pay, to |-> k.to, prev |-> pays[k.pay].status]
  <1>1. /\ k.pc = "read" /\ review' = [review EXCEPT ![r] = j]
        /\ UNCHANGED <<status, price, pays, usages>>
    BY DEF PreSave, coupon
  <1>2. review'[r] = j /\ \A q \in Reviewers \ {r} : review'[q] = review[q]
    BY <1>1 DEF CashInv, TypeOK
  <1>3. pays[k.pay].status = "pending"
    BY <1>1 DEF OrderInv, ReviewsCurrent, Current
  <1>4. j.pc = "ready" /\ j.pay = k.pay /\ j.prev = "pending"
    BY <1>3
  <1> HIDE DEF j, k
  <1>5. Current(review[r])'
    BY <1>1, <1>2, <1>3, <1>4 DEF Current
  <1> QED
    BY <1>1, <1>2, <1>5, OneReviewTouched

\* The handler reads what the order is.
LEMMA HandlerReadKeepsOrderInv ==
    ASSUME CashInv, OrderInv, NEW r \in Reviewers, HandlerRead(r)
    PROVE  OrderInv'
  <1> DEFINE k == review[r]
             o == Reviewed(k)
             seen == [status |-> status[o], price |-> price[o], total |-> Total(o)]
             j == [pc |-> "decided", pay |-> k.pay, to |-> k.to, prev |-> k.prev, seen |-> seen]
  <1>1. /\ k.pc = "saved" /\ review' = [review EXCEPT ![r] = j]
        /\ UNCHANGED <<status, price, pays, usages>>
    BY DEF HandlerRead, Reviewed, coupon
  <1>2. review'[r] = j /\ \A q \in Reviewers \ {r} : review'[q] = review[q]
    BY <1>1 DEF CashInv, TypeOK
  <1>3. Decides(o, k.to) /\ o = pays[k.pay].order
    BY <1>1 DEF OrderInv, ReviewsCurrent, Current, Reviewed
  <1>4. Total(o) = Received(pays, o)
    BY TotalIsReceived
  <1>5. /\ j.pc = "decided" /\ j.pay = k.pay /\ j.to = k.to
        /\ j.seen.price = price[o] /\ j.seen.total = Received(pays, o)
    BY <1>4
  <1> HIDE DEF j, k, o
  <1>6. PICK a, t : a = o /\ t = k.to
    OBVIOUS
  <1>7. Reviewed(review[r])' = a
    BY <1>1, <1>2, <1>3, <1>5, <1>6 DEF Reviewed
  <1>8. Decides(a, t)'
    BY <1>1, <1>3, <1>6 DEF Decides
  <1>9. Current(review[r])'
    BY <1>1, <1>2, <1>5, <1>6, <1>7, <1>8 DEF Current
  <1> QED
    BY <1>1, <1>2, <1>9, OneReviewTouched

\* A review ends, or its process dies.
LEMMA ReviewEndKeepsOrderInv ==
    ASSUME CashInv, OrderInv, NEW r \in Reviewers,
           \/ \E up \in ProviderUp : HandlerProvision(r, up)
           \/ Die(r)
    PROVE  OrderInv'
  <1>1. /\ review' = [review EXCEPT ![r] = NoReview]
        /\ UNCHANGED <<status, price, pays, usages>>
    BY DEF HandlerProvision, Die, coupon
  <1>2. /\ review'[r] = NoReview
        /\ \A q \in Reviewers \ {r} : review'[q] = review[q]
    BY <1>1 DEF CashInv, TypeOK
  <1>3. review'[r].pc = "idle"
    BY <1>2, ReviewTypes
  <1>4. Current(review[r])'
    BY <1>3 DEF Current
  <1> QED
    BY <1>1, <1>2, <1>4, OneReviewTouched

\* The status the handler writes is that of the payments it summed: an order
\* it calls paid has received its price, one it does not has not.
LEMMA HandlerWriteKeepsOrderInv ==
    ASSUME OneReviewer, CashInv, OrderInv, NEW r \in Reviewers, HandlerWrite(r)
    PROVE  OrderInv'
  <1> DEFINE k == review[r]
             new == Outcome(k.to, k.seen)
  <1>0. PICK o : o = Reviewed(k)
    OBVIOUS
  <1>1. /\ k.pc = "decided"
        /\ review' = [review EXCEPT ![r] = IF new = "paid" THEN [@ EXCEPT !.pc = "settled"]
                                           ELSE NoReview]
        /\ status' = IF k.to = "confirmed" /\ k.seen.status = new
                     THEN status ELSE [status EXCEPT ![o] = new]
        /\ UNCHANGED <<price, pays, usages>>
    BY <1>0 DEF HandlerWrite, Reviewed, coupon
  <1>2. /\ CashInv' /\ TypeOK /\ o \in Orders /\ k.to \in {"confirmed", "failed"}
        /\ k \in [pc : {"decided", "settled"}, pay : 1 .. MaxPayments,
                  to : {"confirmed", "failed"}, prev : PaymentStatus, seen : Snapshot]
    BY <1>0, <1>1, HandlerWriteKeepsCashInv, ReviewUnderWay DEF CashInv
  <1>3. /\ Decides(o, k.to) /\ Covered(o)
        /\ k.seen.price = price[o] /\ k.seen.total = Received(pays, o)
    BY <1>0, <1>1, <1>2 DEF OrderInv, ReviewsCurrent, Current, OrdersCovered
  <1>4. price[o] \in Nat /\ Received(pays, o) \in Nat
    BY <1>2, Numbers
  <1>5. review'[r].pc \in {"idle", "settled"}
    <2>1. review'[r] = IF new = "paid" THEN [k EXCEPT !.pc = "settled"] ELSE NoReview
      BY <1>1, <1>2 DEF TypeOK
    <2>2. [k EXCEPT !.pc = "settled"].pc = "settled"
      BY <1>2
    <2> QED
      BY <2>1, <2>2, ReviewTypes
  <1> HIDE DEF k
  <1>6. new = IF k.to = "confirmed" THEN "paid"
              ELSE IF Received(pays, o) > 0 THEN "awaiting_payment" ELSE "failed"
    BY <1>2, <1>3, <1>4 DEF Outcome, Decides
  <1> HIDE DEF new
  <1>7. \A a \in Orders \ {o} : Untouched(a)
    BY <1>1, <1>2, OthersUntouched
  <1>8. status'[o] = status[o] \/ status'[o] = new
    BY <1>1, <1>2 DEF TypeOK
  <1>9. Covered(o)'
    <2>1. CASE status'[o] = status[o]
      BY <1>1, <1>3, <2>1 DEF Covered
    <2>2. CASE status'[o] = new
      <3>1. CASE k.to = "confirmed"
        <4>1. status'[o] = "paid" /\ Received(pays, o) >= price[o]
          BY <1>3, <1>6, <2>2, <3>1 DEF Decides
        <4> QED
          BY <1>1, <1>3, <4>1 DEF Covered, Unfinished
      <3>2. CASE k.to = "failed"
        <4>1. Received(pays, o) < price[o] /\ new \in {"awaiting_payment", "failed"}
          BY <1>3, <1>6, <3>2 DEF Decides
        <4>2. Received(pays, o) <= price[o]
          BY <1>4, <4>1
        <4> QED
          BY <1>1, <1>3, <2>2, <4>1, <4>2 DEF Covered, Unfinished
      <3> QED
        BY <1>2, <3>1, <3>2
    <2> QED
      BY <1>8, <2>1, <2>2
  <1>10. \A i \in DOMAIN pays' : pays'[i].order = o => pays'[i].status # "pending"
    BY <1>1, <1>3 DEF Decides, Pending
  <1>11. \A q \in Reviewers : Current(review[q])'
    <2> TAKE q \in Reviewers
    <2>1. q = r
      BY DEF OneReviewer
    <2> QED
      BY <1>5, <2>1 DEF Current
  <1> QED
    BY <1>2, <1>7, <1>9, <1>10, <1>11, OneOrderTouched

\* A confirmed receipt covers its order; a rejected one leaves it short.
LEMMA SaveKeepsOrderInv ==
    ASSUME OneReviewer, CashInv, OrderInv, NEW r \in Reviewers, SavePayment(r)
    PROVE  OrderInv'
  <1> DEFINE k == review[r]
  <1>0. PICK i, to, o : i = k.pay /\ to = k.to /\ o = Reviewed(k)
    OBVIOUS
  <1>1. /\ k.pc = "ready"
        /\ \/ /\ pays' = [pays EXCEPT ![i].status = to]
              /\ review' = [review EXCEPT ![r] = IF k.prev = to THEN NoReview
                                                 ELSE [@ EXCEPT !.pc = "saved"]]
           \/ pays' = pays /\ review' = [review EXCEPT ![r] = NoReview]
        /\ UNCHANGED <<status, price, usages>>
    BY <1>0 DEF SavePayment, coupon
  <1>2. /\ CashInv' /\ TypeOK /\ o \in Orders /\ pays \in Seq(Payment) /\ i \in DOMAIN pays
        /\ pays[i].method = "card" /\ to \in {"confirmed", "failed"} /\ o = pays[i].order
        /\ k \in [pc : {"ready", "saved"}, pay : 1 .. MaxPayments,
                  to : {"confirmed", "failed"}, prev : PaymentStatus]
    BY <1>0, <1>1, SaveKeepsCashInv, ReviewUnderWay DEF CashInv, TypeOK, Reviewed
  <1>3. pays[i].status = "pending" /\ k.prev = "pending"
    BY <1>0, <1>1 DEF OrderInv, ReviewsCurrent, Current
  <1>4. Waits(i, o) /\ Covered(o)
    BY <1>2, <1>3 DEF OrderInv, ReceiptsCover, OrdersCovered
  <1>5. CASE pays' = pays /\ review' = [review EXCEPT ![r] = NoReview]
    <2>1. review'[r] = NoReview /\ \A q \in Reviewers \ {r} : review'[q] = review[q]
      BY <1>2, <1>5 DEF TypeOK
    <2>2. review'[r].pc = "idle"
      BY <2>1, ReviewTypes
    <2>3. Current(review[r])'
      BY <2>2 DEF Current
    <2> QED
      BY <1>1, <1>5, <2>1, <2>3, OneReviewTouched
  <1>6. CASE /\ pays' = [pays EXCEPT ![i].status = to]
             /\ review' = [review EXCEPT ![r] = IF k.prev = to THEN NoReview
                                                ELSE [@ EXCEPT !.pc = "saved"]]
    <2>1. review'[r] = [pc |-> "saved", pay |-> i, to |-> to, prev |-> k.prev]
      <3>1. review'[r] = [k EXCEPT !.pc = "saved"]
        BY <1>2, <1>3, <1>6 DEF TypeOK
      <3> QED
        BY <1>0, <1>2, <3>1, ReviewEdits
    <2> HIDE DEF k
    <2>2. /\ pays \in Seq(Payment) /\ i \in DOMAIN pays /\ to \in PaymentStatus
          /\ pays[i].method = "card" /\ pays' = [pays EXCEPT ![i].status = to]
          /\ pays[i].status # "confirmed"
      BY <1>2, <1>3, <1>6 DEF PaymentStatus
    <2>3. /\ DOMAIN pays' = DOMAIN pays /\ pays'[i].status = to
          /\ \A m \in DOMAIN pays : /\ m # i => pays'[m] = pays[m]
                                    /\ pays'[m].order = pays[m].order
                                    /\ pays'[m].method = pays[m].method
      BY ONLY <2>2, PaymentSaved
    <2>4. Received(pays', o) = IF to = "confirmed" THEN Received(pays, o) + pays[i].amount
                               ELSE Received(pays, o)
      <3>1. CASE to = "confirmed"
        <4>1. pays' = [pays EXCEPT ![i].status = "confirmed"]
          BY <2>2, <3>1
        <4>2. Received(pays', pays[i].order) = Received(pays, pays[i].order) + pays[i].amount
          BY ONLY <2>2, <4>1, ReceiptConfirmed
        <4> QED
          BY <1>2, <3>1, <4>2
      <3>2. CASE to = "failed"
        <4>1. pays' = [pays EXCEPT ![i].status = "failed"]
          BY <2>2, <3>2
        <4>2. Received(pays', pays[i].order) = Received(pays, pays[i].order)
          BY ONLY <2>2, <4>1, ReceiptRejected
        <4> QED
          BY <1>2, <3>2, <4>2
      <3> QED
        BY <1>2, <3>1, <3>2
    <2>5. \A a \in Orders \ {o} : Untouched(a)
      BY <1>1, <1>2, <2>3 DEF Untouched
    <2>6. \A m \in DOMAIN pays' : pays'[m].order = o => pays'[m].status # "pending"
      <3> SUFFICES ASSUME NEW m \in DOMAIN pays', pays'[m].order = o, pays'[m].status = "pending"
                   PROVE  FALSE
        OBVIOUS
      <3>1. m # i /\ pays[m].status = "pending" /\ pays[m].order = o /\ m \in DOMAIN pays
        BY <1>2, <2>3
      <3>2. pays[m].method = "card"
        BY <3>1 DEF OrderInv, ReceiptsCover, Waits
      <3> QED
        BY <1>4, <3>1, <3>2 DEF Waits
    <2>7. /\ price[o] \in Nat /\ Received(pays, o) \in Nat /\ pays[i].amount \in Nat
          /\ price'[o] = price[o] /\ status'[o] = status[o] /\ MaxExtra \in Nat
      BY <1>1, <1>2, Numbers
    <2>8. /\ Received(pays', o) <= price'[o] + MaxExtra
          /\ to = "confirmed" => Received(pays', o) >= price'[o]
          /\ to = "failed" => Received(pays', o) < price'[o]
      BY <1>4, <2>4, <2>7 DEF Waits
    <2>9. status'[o] \in {"processing", "failed"}
      BY <1>4, <2>7 DEF Waits
    <2>10. Covered(o)'
      BY <2>8, <2>9 DEF Covered, Unfinished
    <2>11. Decides(o, to)'
      BY <2>6, <2>8, <2>9 DEF Decides, Unfinished, Pending
    <2>12. Reviewed(review[r])' = o
      BY <1>2, <2>1, <2>3 DEF Reviewed
    <2>13. Current(review[r])'
      BY <2>1, <2>11, <2>12 DEF Current
    <2>14. \A q \in Reviewers : Current(review[q])'
      <3> TAKE q \in Reviewers
      <3>1. q = r
        BY DEF OneReviewer
      <3> QED
        BY <2>13, <3>1
    <2> QED
      BY <1>2, <2>5, <2>6, <2>10, <2>14, OneOrderTouched
  <1> QED
    BY <1>1, <1>5, <1>6

-----------------------------------------------------------------------------
(* Theorems for one reviewer at a time *)

\* Nothing is placed, received or reviewed.
LEMMA InitEstablishesOrderInv == Init => OrderInv
  <1> SUFFICES ASSUME Init PROVE OrderInv
    OBVIOUS
  <1> USE CheckoutAssumption DEF Init
  <1>1. ASSUME NEW o \in Orders
        PROVE  Covered(o)
    <2>1. Confirmed(pays, o) = {}
      BY DEF Confirmed
    <2>2. Received(pays, o) = 0
      BY ONLY <2>1, AmountEmpty DEF Received
    <2>3. status[o] = "none" /\ price[o] = 0 /\ o \notin usages /\ DOMAIN pays = {}
      OBVIOUS
    <2>4. MaxExtra \in Nat
      BY CheckoutAssumption
    <2> QED
      BY ONLY <2>2, <2>3, <2>4 DEF Covered, Unfinished
  <1>2. ReceiptsCover
    BY DEF ReceiptsCover
  <1>3. ReviewsCurrent
    BY ReviewTypes DEF ReviewsCurrent, Current
  <1> QED
    BY <1>1, <1>2, <1>3 DEF OrderInv, OrdersCovered

\* No step, and no stuttering, breaks it.
LEMMA NextKeepsOrderInv ==
    ASSUME OneReviewer, CashInv, OrderInv, [Next]_vars
    PROVE  OrderInv'
  <1>1. CASE Customer
    <2>1. ASSUME NEW u \in Users, NEW a \in 1 .. MaxTopUp, TopUp(u, a) PROVE OrderInv'
      BY <2>1, NothingTouched DEF TopUp, coupon
    <2>2. ASSUME NEW o \in Orders, NEW p \in Prices, PlaceOrder(o, p) PROVE OrderInv'
      BY <2>2, PlaceKeepsOrderInv
    <2>3. ASSUME NEW o \in Orders, NEW credit \in 1 .. MaxTopUp, NEW up \in ProviderUp,
                 PayWithWallet(o, credit, up)
          PROVE OrderInv'
      BY <2>3, PayKeepsOrderInv
    <2>4. ASSUME NEW o \in Orders, CancelOrder(o) PROVE OrderInv'
      BY <2>4, CancelKeepsOrderInv
    <2>5. ASSUME NEW o \in Orders, ApplyCoupon(o) PROVE OrderInv'
      BY <2>5, CouponKeepsOrderInv
    <2>6. ASSUME NEW o \in Orders, NEW c \in Cards, NEW unique \in BOOLEAN,
                 ReserveQuote(o, c, unique)
          PROVE OrderInv'
      BY <2>6, NothingTouched DEF ReserveQuote, coupon
    <2>7. ASSUME NEW o \in Orders, NEW c \in Cards, ReopenQuote(o, c) PROVE OrderInv'
      BY <2>7, NothingTouched DEF ReopenQuote, coupon
    <2>8. ASSUME NEW o \in Orders, SendReceipt(o) PROVE OrderInv'
      BY <2>8, SendKeepsOrderInv
    <2> QED
      BY <1>1, <2>1, <2>2, <2>3, <2>4, <2>5, <2>6, <2>7, <2>8 DEF Customer
  <1>2. CASE Staff
    BY <1>2, ReadKeepsOrderInv, SetKeepsOrderInv DEF Staff
  <1>3. CASE System
    <2>1. ASSUME NEW r \in Reviewers, ReviewStep(r) PROVE OrderInv'
      BY <2>1, PreSaveKeepsOrderInv, SaveKeepsOrderInv, HandlerReadKeepsOrderInv,
         HandlerWriteKeepsOrderInv, ReviewEndKeepsOrderInv DEF ReviewStep
    <2>2. ASSUME NEW o \in Orders, Provision(o) PROVE OrderInv'
      BY <2>2, ProvisionKeepsOrderInv
    <2>3. ASSUME NEW i \in DOMAIN quotes, ExpireQuote(i) \/ ReleaseQuote(i) PROVE OrderInv'
      BY <2>3, NothingTouched DEF ExpireQuote, ReleaseQuote, coupon
    <2> QED
      BY <1>3, <2>1, <2>2, <2>3 DEF System
  <1>4. CASE \E r \in Reviewers : Die(r)
    BY <1>4, ReviewEndKeepsOrderInv
  <1>5. CASE UNCHANGED vars
    BY <1>5, NothingTouched DEF vars, coupon
  <1> QED
    BY <1>1, <1>2, <1>3, <1>4, <1>5 DEF Next

\* The invariant of the second part holds of every state one reviewer reaches.
THEOREM OrderInvariant ==
    ASSUME OneReviewer
    PROVE  Spec => []OrderInv
  <1>1. CashInv /\ OrderInv /\ [Next]_vars => OrderInv'
    BY NextKeepsOrderInv
  <1> QED
    BY <1>1, InitEstablishesOrderInv, CashInvariant, PTL DEF Spec

\* A cancelled order holds no money, no coupon and no open receipt.
THEOREM CancelledKeepsNothing ==
    ASSUME OneReviewer
    PROVE  Spec => []CancelledHoldsNothing
  <1>1. CashInv /\ OrderInv => CancelledHoldsNothing
    <2> SUFFICES ASSUME CashInv, OrderInv, NEW o \in Orders, status[o] = "cancelled"
                 PROVE  /\ Total(o) = 0 /\ PaymentsOf(o, "pending") = {} /\ o \notin usages
      BY DEF CancelledHoldsNothing
    <2>1. o \notin usages /\ Confirmed(pays, o) = {}
      BY DEF OrderInv, OrdersCovered, Covered
    <2>2. Received(pays, o) = 0
      BY ONLY <2>1, AmountEmpty DEF Received
    <2>3. PaymentsOf(o, "pending") = {}
      BY DEF OrderInv, ReceiptsCover, Waits, PaymentsOf
    <2> QED
      BY <2>1, <2>2, <2>3, TotalIsReceived
  <1> QED
    BY <1>1, CashInvariant, OrderInvariant, PTL

\* A paid order is covered by confirmed payments, which exceed its price by no
\* more than a unique suffix.
THEOREM PaidOrdersAreCovered ==
    ASSUME OneReviewer
    PROVE  Spec => []PaidIsCovered
  <1>1. OrderInv => PaidIsCovered
    BY TotalIsReceived DEF OrderInv, OrdersCovered, Covered, PaidIsCovered
  <1> QED
    BY <1>1, OrderInvariant, PTL

\* A step makes an order payable only if it was, is new, or has not received
\* its price.
LEMMA PayableOnlyIfOwed ==
    ASSUME CashInv, OrderInv, [Next]_vars, NEW o \in Orders, status'[o] \in Unfinished
    PROVE  \/ status[o] \in Unfinished \cup {"none"}
           \/ Received(pays, o) < price[o]
  <1> SUFFICES ASSUME status[o] \notin Unfinished \cup {"none"}
               PROVE  Received(pays, o) < price[o]
    OBVIOUS
  <1>1. TypeOK /\ status'[o] # status[o]
    BY DEF CashInv
  <1>2. CASE Customer
    <2>1. \A a \in Orders, p \in Prices : ~ PlaceOrder(a, p)
      BY <1>1 DEF PlaceOrder, TypeOK
    <2>2. \A a \in Orders, credit \in 1 .. MaxTopUp, up \in ProviderUp : ~ PayWithWallet(a, credit, up)
      BY <1>1 DEF PayWithWallet, TypeOK
    <2>3. \A a \in Orders : ~ CancelOrder(a)
      BY <1>1 DEF CancelOrder, TypeOK
    <2>4. \A a \in Orders : ~ SendReceipt(a)
      BY <1>1 DEF SendReceipt, TypeOK
    <2> QED
      BY <1>1, <1>2, <2>1, <2>2, <2>3, <2>4
         DEF Customer, TopUp, ApplyCoupon, ReserveQuote, ReopenQuote
  <1>3. CASE Staff
    <2>1. \A a \in Orders, to \in {"paid", "processing", "completed", "failed"}, up \in ProviderUp :
             ~ SetOrder(a, to, up)
      BY <1>1 DEF SetOrder, TypeOK, Unfinished
    <2> QED
      BY <1>1, <1>3, <2>1 DEF Staff, ReadPayment
  <1>4. CASE System
    <2>1. \A a \in Orders : ~ Provision(a)
      BY <1>1 DEF Provision, TypeOK, Unfinished
    <2>2. PICK r \in Reviewers : HandlerWrite(r)
      BY <1>1, <1>4, <2>1 DEF System, ReviewStep, PreSave, SavePayment, HandlerRead,
         HandlerProvision, ExpireQuote, ReleaseQuote
    <2> DEFINE k == review[r]
               new == Outcome(k.to, k.seen)
    <2>3. k.pc = "decided" /\ status' \in {status, [status EXCEPT ![Reviewed(k)] = new]}
      BY <2>2 DEF HandlerWrite, Reviewed
    <2>4. o = Reviewed(k) /\ status'[o] = new
      BY <1>1, <2>3 DEF TypeOK
    <2>5. /\ Decides(o, k.to) /\ k.to \in {"confirmed", "failed"}
          /\ k.seen.price = price[o] /\ k.seen.total = Received(pays, o)
      BY <2>3, <2>4, ReviewUnderWay DEF OrderInv, ReviewsCurrent, Current
    <2>6. price[o] \in Nat /\ Received(pays, o) \in Nat
      BY <1>1, Numbers
    <2>7. CASE k.to = "confirmed"
      <3>1. new = "paid"
        <4> HIDE DEF k
        <4> QED
          BY <2>5, <2>6, <2>7 DEF Outcome, Decides
      <3> QED
        BY <2>4, <3>1 DEF Unfinished
    <2>8. CASE k.to = "failed"
      BY <2>5, <2>8 DEF Decides
    <2> QED
      BY <2>5, <2>7, <2>8
  <1>5. CASE \E r \in Reviewers : Die(r)
    BY <1>1, <1>5 DEF Die
  <1>6. CASE UNCHANGED vars
    BY <1>1, <1>6 DEF vars
  <1> QED
    BY <1>2, <1>3, <1>4, <1>5, <1>6 DEF Next

\* A settled order never becomes payable again.
THEOREM SettledForGood ==
    ASSUME OneReviewer
    PROVE  Spec => SettledStaysSettled
  <1>1. CashInv /\ OrderInv /\ [Next]_vars =>
           [\A o \in Orders : status[o] \in {"paid", "completed"} => status'[o] \notin Unfinished]_vars
    <2> SUFFICES ASSUME CashInv, OrderInv, [Next]_vars,
                        NEW o \in Orders, status[o] \in {"paid", "completed"}
                 PROVE  status'[o] \notin Unfinished
      OBVIOUS
    <2>1. status[o] \notin Unfinished \cup {"none"}
      BY DEF Unfinished
    <2>2. Received(pays, o) >= price[o] /\ Received(pays, o) \in Nat /\ price[o] \in Nat
      BY Numbers DEF OrderInv, OrdersCovered, Covered, CashInv
    <2> QED
      BY <2>1, <2>2, PayableOnlyIfOwed
  <1> QED
    BY <1>1, CashInvariant, OrderInvariant, PTL DEF Spec, SettledStaysSettled
=============================================================================
