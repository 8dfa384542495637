----------------------------- MODULE TopUpProofs -----------------------------
(***************************************************************************)
(* Theorems of TopUp, for any number of payments, handlers and restarts.    *)
(*                                                                          *)
(* CreditsExplained alone is not inductive.  That a payment is credited     *)
(* only once rests on who can reach it: the buttons of the reviewers are    *)
(* never shown for a Stars payment, so only the updates credit it, and each *)
(* of them leaves the payment in a status no later one accepts.  That the   *)
(* coupon keeps its limits rests on its lock: what a handler counted under  *)
(* the lock is still the number of uses when it adds one.                   *)
(***************************************************************************)
EXTENDS TopUp, FiniteSums

\* The payments that were credited.
Paid == {t \in Payments : credited[t] > 0}

\* Only receipts and crypto payments are reviewed, and a handler that is
\* about to credit one has saved its confirmation.
ReviewsSound ==
    /\ \A t \in Payments : shown[t] => Method[t] # "stars"
    /\ \A h \in Handlers : job[h] \in SaveJob =>
          /\ Method[job[h].payment] # "stars"
          /\ job[h].pc = "signal" /\ job[h].to = "confirmed" => job[h].payment \in approved

\* Updates are about charged Stars invoices, and a credited one accepts no
\* other.
UpdatesSound ==
    \A t \in Payments :
        /\ checkout[t] # "none" => Method[t] = "stars" /\ status[t] \notin {"none", "pending"}
        /\ t \in updates => checkout[t] = "charged"
        /\ Method[t] = "stars" /\ credited[t] > 0 => status[t] \in {"confirmed", "refunded"}

CreditedOnce ==
    \A t \in Payments :
        /\ credited[t] <= 1
        /\ credited[t] = 1 => IF Method[t] = "stars" THEN checkout[t] = "charged"
                                                     ELSE t \in approved

\* A handler that redeems the coupon holds its lock, and there is a use left.
CouponHeld ==
    /\ \A h \in Handlers : job[h].pc = "coupon" => couponLock = h /\ ~Exhausted
    /\ usage.own <= MaxPerUser /\ usage.own + usage.others <= MaxUses

\* The balance, as a sum over finitely many payments.
BalanceExplained ==
    /\ IsFiniteSet(Paid) /\ IsFiniteSet(reversed)
    /\ balance = AmountsOf(Paid) - AmountsOf(reversed) + Gift * usage.own

\* The inductive invariant.
TopUpInv ==
    /\ TypeOK
    /\ ReviewsSound
    /\ UpdatesSound
    /\ CreditedOnce
    /\ CouponHeld
    /\ BalanceExplained

-----------------------------------------------------------------------------
(* Lemmas about the operators *)

\* AmountsOf is a sum of weights in the sense of FiniteSums.
LEMMA AmountsIsSum == \A S : AmountsOf(S) = SumOver(Amount, S)
  BY DEF AmountsOf, SumOver

\* Amounts add up to numbers, one payment more to its amount more.
LEMMA AmountsAdd ==
    ASSUME NEW S, S \subseteq Payments, IsFiniteSet(S), NEW t \in Payments
    PROVE  /\ AmountsOf(S) \in Nat
           /\ IsFiniteSet(S \cup {t})
           /\ t \notin S => AmountsOf(S \cup {t}) = AmountsOf(S) + Amount[t]
  <1>1. \A s \in Payments : Amount[s] \in Nat
    BY TopUpAssumption
  <1>2. IsFiniteSet(S \cup {t})
    BY FS_AddElement
  <1>3. SumOver(Amount, S) \in Nat
    BY <1>1, SumNatural
  <1>4. t \notin S => SumOver(Amount, S \cup {t}) = Amount[t] + SumOver(Amount, S)
    <2>1. \A s \in S \cup {t} : Amount[s] \in Int
      BY <1>1
    <2> QED
      BY <2>1, SumAdd
  <1> QED
    BY <1>1, <1>2, <1>3, <1>4, AmountsIsSum

\* Nothing is credited before anything is asked for.
LEMMA NoAmounts == AmountsOf({}) = 0
  BY AmountsIsSum, SumEmpty

\* What a job can be.
LEMMA JobTypes ==
    /\ NoJob \in Job
    /\ \A j \in SaveJob : j \in Job /\ j # NoJob /\ j.pc # "coupon" /\ j.payment \in Payments
                          /\ j.to \in {"confirmed", "failed", "awaiting"} /\ j.previous \in Statuses
    /\ \A n \in Nat : [pc |-> "coupon", uses |-> n] \in Job
    /\ \A n \in Nat : [pc |-> "coupon", uses |-> n] \notin SaveJob
    /\ NoJob \notin SaveJob
    /\ NoJob.pc = "idle"
    /\ \A j \in Job : j.pc \in {"read", "saving", "signal"} => j \in SaveJob
    /\ \A pc \in {"read", "saving", "signal"}, t \in Payments,
          to \in {"confirmed", "failed", "awaiting"}, previous \in Statuses :
          /\ [pc |-> pc, payment |-> t, to |-> to, previous |-> previous] \in SaveJob
  BY DEF Job, SaveJob, NoJob

\* What the two halves of payment.save() make of a job.
LEMMA JobEdits ==
    ASSUME NEW j \in SaveJob
    PROVE  /\ [j EXCEPT !.pc = "signal"]
                = [pc |-> "signal", payment |-> j.payment, to |-> j.to, previous |-> j.previous]
           /\ \A previous \in Statuses :
                [j EXCEPT !.pc = "saving", !.previous = previous]
                  = [pc |-> "saving", payment |-> j.payment, to |-> j.to, previous |-> previous]
  <1>1. [j EXCEPT !.pc = "signal"]
          = [pc |-> "signal", payment |-> j.payment, to |-> j.to, previous |-> j.previous]
    BY DEF SaveJob
  <1>2. ASSUME NEW previous \in Statuses
        PROVE  [j EXCEPT !.pc = "saving", !.previous = previous]
                 = [pc |-> "saving", payment |-> j.payment, to |-> j.to, previous |-> previous]
    <2> DEFINE d == [j EXCEPT !.pc = "saving"]
    <2>1. d = [pc |-> "saving", payment |-> j.payment, to |-> j.to, previous |-> j.previous]
      BY DEF SaveJob
    <2>2. [j EXCEPT !.pc = "saving", !.previous = previous] = [d EXCEPT !.previous = previous]
      OBVIOUS
    <2> HIDE DEF d
    <2>3. [d EXCEPT !.previous = previous]
            = [pc |-> "saving", payment |-> j.payment, to |-> j.to, previous |-> previous]
      BY <2>1
    <2> QED
      BY <2>2, <2>3
  <1> QED
    BY <1>1, <1>2

-----------------------------------------------------------------------------
\* The invariant holds initially: nothing was asked for.
LEMMA InitEstablishesTopUpInv == Init => TopUpInv
  <1> SUFFICES ASSUME Init PROVE TopUpInv
    OBVIOUS
  <1> USE TopUpAssumption
  <1>1. TypeOK
    BY JobTypes DEF Init, TypeOK, Statuses
  <1>2. ReviewsSound
    BY JobTypes DEF Init, ReviewsSound
  <1>3. UpdatesSound /\ CreditedOnce
    BY DEF Init, UpdatesSound, CreditedOnce
  <1>4. CouponHeld
    BY JobTypes DEF Init, CouponHeld
  <1>5. BalanceExplained
    <2>1. Paid = {} /\ reversed = {} /\ balance = 0 /\ usage.own = 0
      BY DEF Init, Paid
    <2>2. Gift * 0 = 0
      OBVIOUS
    <2> QED
      BY <2>1, <2>2, NoAmounts, FS_EmptySet DEF BalanceExplained
  <1> QED
    BY <1>1, <1>2, <1>3, <1>4, <1>5 DEF TopUpInv

-----------------------------------------------------------------------------
(* The steps of the customer, of staff and of the clock *)

\* The payments reached by a step that moves no money and no coupon.
LEMMA MoneyKept ==
    ASSUME TopUpInv, UNCHANGED money
    PROVE  BalanceExplained'
  BY DEF TopUpInv, BalanceExplained, money, Paid

\* A payment that was not credited before is credited.
LEMMA CreditExplained ==
    ASSUME TopUpInv, NEW t \in Payments, credited[t] = 0, Credit(t), UNCHANGED <<reversed, usage>>
    PROVE  /\ BalanceExplained'
           /\ credited' \in [Payments -> Nat] /\ balance' \in Int
           /\ credited'[t] = 1 /\ \A s \in Payments \ {t} : credited'[s] = credited[s]
  <1>1. /\ credited \in [Payments -> Nat] /\ balance \in Int /\ Amount[t] \in Nat
        /\ reversed \subseteq Payments
        /\ Gift * usage.own \in Nat
    <2>1. Gift \in Nat /\ usage.own \in Nat
      BY TopUpAssumption DEF TopUpInv, TypeOK
    <2> QED
      BY <2>1, TopUpAssumption DEF TopUpInv, TypeOK
  <1>2. credited'[t] = 1 /\ \A s \in Payments \ {t} : credited'[s] = credited[s]
    BY <1>1 DEF Credit
  <1>3. credited' \in [Payments -> Nat] /\ balance' = balance + Amount[t] /\ balance' \in Int
    BY <1>1 DEF Credit
  <1>4. Paid' = Paid \cup {t} /\ t \notin Paid /\ Paid \subseteq Payments /\ IsFiniteSet(Paid)
    BY <1>1, <1>2 DEF Paid, TopUpInv, BalanceExplained
  <1>5. /\ AmountsOf(Paid') = AmountsOf(Paid) + Amount[t] /\ AmountsOf(Paid) \in Nat
        /\ IsFiniteSet(Paid') /\ AmountsOf(reversed) \in Nat
    BY <1>1, <1>4, AmountsAdd DEF TopUpInv, BalanceExplained
  <1>6. BalanceExplained'
    <2>1. balance' = AmountsOf(Paid') - AmountsOf(reversed) + Gift * usage.own
      BY <1>1, <1>3, <1>5 DEF TopUpInv, BalanceExplained
    <2> QED
      BY <1>5, <2>1 DEF TopUpInv, BalanceExplained
  <1> QED
    BY <1>2, <1>3, <1>6

\* Asking for a payment: nobody can have credited it.
LEMMA CreateKeepsTopUpInv ==
    ASSUME TopUpInv, NEW t \in Payments, ReceiptPhoto(t) \/ CryptoAddress(t) \/ StarsInvoice(t)
    PROVE  TopUpInv'
  <1> USE TopUpAssumption
  <1>1. /\ status[t] = "none" /\ status' = [status EXCEPT ![t] = "pending"]
        /\ UNCHANGED <<expired, invoice, approved, money, usable, couponLock, given, job>>
        /\ shown' = shown \/ (shown' = [shown EXCEPT ![t] = TRUE] /\ Method[t] = "card")
    BY DEF ReceiptPhoto, CryptoAddress, StarsInvoice, Create
  <1>2. TypeOK'
    <2>1. status' \in [Payments -> Statuses] /\ shown' \in [Payments -> BOOLEAN]
      BY <1>1 DEF TopUpInv, TypeOK, Statuses
    <2> QED
      BY <1>1, <2>1 DEF TopUpInv, TypeOK, invoice, money, given
  <1>3. ReviewsSound'
    <2>1. \A s \in Payments : shown'[s] => shown[s] \/ Method[s] = "card"
      BY <1>1 DEF TopUpInv, TypeOK
    <2> QED
      BY <1>1, <2>1 DEF TopUpInv, ReviewsSound
  <1>4. UpdatesSound' /\ CreditedOnce'
    BY <1>1 DEF TopUpInv, TypeOK, UpdatesSound, CreditedOnce, invoice, money
  <1>5. CouponHeld'
    BY <1>1 DEF TopUpInv, CouponHeld, Exhausted, money
  <1> QED
    BY <1>1, <1>2, <1>3, <1>4, <1>5, MoneyKept DEF TopUpInv

\* A deadline passes, a wallet is frozen or freed.
LEMMA ClockKeepsTopUpInv ==
    ASSUME TopUpInv, SetUsable \/ \E t \in Payments : Expire(t)
    PROVE  TopUpInv'
  <1>1. /\ UNCHANGED <<status, shown, invoice, approved, money, couponLock, given, job>>
        /\ expired' \in [Payments -> BOOLEAN] /\ usable' \in BOOLEAN
    BY DEF TopUpInv, TypeOK, SetUsable, Expire
  <1>2. TypeOK'
    BY <1>1 DEF TopUpInv, TypeOK, invoice, money, given
  <1>3. ReviewsSound' /\ UpdatesSound' /\ CreditedOnce' /\ CouponHeld'
    BY <1>1 DEF TopUpInv, ReviewsSound, UpdatesSound, CreditedOnce, CouponHeld, Exhausted,
                invoice, money
  <1> QED
    BY <1>1, <1>2, <1>3, MoneyKept DEF TopUpInv

\* The refund of a confirmed top-up leaves the wallet once.
LEMMA RefundKeepsTopUpInv ==
    ASSUME TopUpInv, NEW t \in Payments, Refund(t)
    PROVE  TopUpInv'
  <1> USE TopUpAssumption
  <1>1. /\ status[t] = "confirmed" /\ status' = [status EXCEPT ![t] = "refunded"]
        /\ UNCHANGED <<expired, shown, invoice, approved, credited, usage, usable,
                       couponLock, job, given>>
    BY DEF Refund
  <1>2. \/ reversed' = reversed /\ balance' = balance
        \/ t \notin reversed /\ reversed' = reversed \cup {t} /\ balance' = balance - Amount[t]
    BY DEF Refund
  <1>3. balance \in Int /\ Amount[t] \in Nat
    BY DEF TopUpInv, TypeOK
  <1>4. TypeOK'
    <2>1. status' \in [Payments -> Statuses]
      BY <1>1 DEF TopUpInv, TypeOK, Statuses
    <2>2. reversed' \subseteq Payments /\ balance' \in Int
      BY <1>2, <1>3 DEF TopUpInv, TypeOK
    <2> QED
      BY <1>1, <2>1, <2>2 DEF TopUpInv, TypeOK, invoice, given
  <1>5. ReviewsSound' /\ CouponHeld' /\ CreditedOnce'
    BY <1>1 DEF TopUpInv, ReviewsSound, CouponHeld, CreditedOnce, Exhausted, invoice
  <1>6. UpdatesSound'
    BY <1>1 DEF TopUpInv, TypeOK, UpdatesSound, invoice
  <1>7. BalanceExplained'
    <2>1. CASE reversed' = reversed /\ balance' = balance
      BY <1>1, <2>1, MoneyKept DEF money
    <2>2. CASE t \notin reversed /\ reversed' = reversed \cup {t} /\ balance' = balance - Amount[t]
      <3>1. /\ AmountsOf(reversed') = AmountsOf(reversed) + Amount[t]
            /\ AmountsOf(reversed) \in Nat /\ IsFiniteSet(reversed')
        BY <2>2, AmountsAdd DEF TopUpInv, TypeOK, BalanceExplained
      <3>2. Paid' = Paid /\ AmountsOf(Paid) \in Nat /\ usage' = usage
        BY <1>1, AmountsAdd DEF Paid, TopUpInv, BalanceExplained
      <3>3. Gift * usage.own \in Nat
        <4>1. Gift \in Nat /\ usage.own \in Nat
          BY DEF TopUpInv, TypeOK
        <4> QED
          BY <4>1
      <3>4. balance = AmountsOf(Paid) - AmountsOf(reversed) + Gift * usage.own
        BY DEF TopUpInv, BalanceExplained
      <3>5. balance' = AmountsOf(Paid) - AmountsOf(reversed') + Gift * usage.own
        BY <1>3, <2>2, <3>1, <3>2, <3>3, <3>4
      <3> QED
        BY <3>1, <3>2, <3>5 DEF TopUpInv, BalanceExplained
    <2> QED
      BY <1>2, <2>1, <2>2
  <1> QED
    BY <1>4, <1>5, <1>6, <1>7 DEF TopUpInv

-----------------------------------------------------------------------------
(* Telegram's updates *)

\* The pre-checkout answer and the charge: a Stars invoice that is pending has
\* not been credited.
LEMMA InvoiceKeepsTopUpInv ==
    ASSUME TopUpInv, NEW t \in Payments, PreCheckout(t) \/ Charge(t)
    PROVE  TopUpInv'
  <1> USE TopUpAssumption
  <1>1. UNCHANGED <<expired, shown, approved, money, usable, couponLock, job, given>>
    BY DEF PreCheckout, Charge
  <1>2. /\ Method[t] = "stars"
        /\ checkout' \in [Payments -> {"none", "cleared", "charged"}]
        /\ \A s \in Payments \ {t} : checkout'[s] = checkout[s] /\ status'[s] = status[s]
        /\ updates' \subseteq Payments
        /\ status' \in [Payments -> Statuses]
        /\ checkout[t] = "charged" => checkout'[t] = "charged"
    <2>1. CASE PreCheckout(t)
      <3>1. status[t] = "pending" /\ status' = [status EXCEPT ![t] = "awaiting"]
            /\ updates' = updates /\ Method[t] = "stars" /\ checkout[t] = "none"
        BY <2>1 DEF PreCheckout, TopUpInv, UpdatesSound
      <3>2. PICK answered \in BOOLEAN :
              checkout' = [checkout EXCEPT ![t] = IF answered THEN "cleared" ELSE @]
        BY <2>1 DEF PreCheckout
      <3> QED
        BY <3>1, <3>2 DEF TopUpInv, TypeOK, Statuses
    <2>2. CASE Charge(t)
      BY <2>2 DEF Charge, TopUpInv, TypeOK, UpdatesSound
    <2> QED
      BY <2>1, <2>2
  <1>3. (status'[t] \notin {"none", "pending"} /\ credited[t] = 0) \/ status'[t] = status[t]
    <2>1. CASE PreCheckout(t)
      <3>1. status[t] = "pending" /\ status'[t] = "awaiting" /\ credited[t] \in Nat
        BY <2>1 DEF PreCheckout, TopUpInv, TypeOK
      <3>2. credited[t] = 0
        BY <1>2, <3>1 DEF TopUpInv, UpdatesSound
      <3> QED
        BY <3>1, <3>2
    <2>2. CASE Charge(t)
      BY <2>2 DEF Charge
    <2> QED
      BY <2>1, <2>2
  <1>4. checkout'[t] = checkout[t] \/ status'[t] \notin {"none", "pending"}
    BY DEF PreCheckout, Charge, TopUpInv, TypeOK, UpdatesSound
  <1>5. \A s \in updates' : checkout'[s] = "charged"
    BY <1>2 DEF PreCheckout, Charge, TopUpInv, TypeOK, UpdatesSound
  <1>6. TypeOK'
    BY <1>1, <1>2 DEF TopUpInv, TypeOK, money, given
  <1>7. ReviewsSound' /\ CouponHeld'
    BY <1>1 DEF TopUpInv, ReviewsSound, CouponHeld, Exhausted, money
  <1>8. CreditedOnce'
    BY <1>1, <1>2 DEF TopUpInv, CreditedOnce, money
  <1>9. UpdatesSound'
    BY <1>1, <1>2, <1>3, <1>4, <1>5 DEF TopUpInv, UpdatesSound, money
  <1> QED
    BY <1>1, <1>6, <1>7, <1>8, <1>9, MoneyKept DEF TopUpInv

\* successful_payment: it credits a charged invoice that still waits, and
\* leaves it confirmed, so that the same update again credits nothing.
LEMMA SucceedKeepsTopUpInv ==
    ASSUME TopUpInv, NEW t \in Payments, Succeed(t)
    PROVE  TopUpInv'
  <1> USE TopUpAssumption
  <1>1. /\ UNCHANGED <<expired, shown, checkout, approved, reversed, usage, usable,
                       couponLock, job, given>>
        /\ t \in updates /\ updates' \subseteq updates
        /\ checkout[t] = "charged" /\ Method[t] = "stars"
    BY DEF Succeed, TopUpInv, UpdatesSound
  <1>2. ReviewsSound' /\ CouponHeld'
    BY <1>1 DEF TopUpInv, ReviewsSound, CouponHeld, Exhausted
  <1>3. CASE status[t] = "awaiting" /\ ~expired[t]
    <2>1. status' = [status EXCEPT ![t] = "confirmed"] /\ Credit(t)
      BY <1>3 DEF Succeed
    <2>2. credited[t] = 0
      <3>1. credited[t] \in Nat /\ ~(credited[t] > 0)
        BY <1>1, <1>3 DEF TopUpInv, TypeOK, UpdatesSound
      <3> QED
        BY <3>1
    <2>3. /\ BalanceExplained'
          /\ credited' \in [Payments -> Nat] /\ balance' \in Int
          /\ credited'[t] = 1 /\ \A s \in Payments \ {t} : credited'[s] = credited[s]
      BY <1>1, <2>1, <2>2, CreditExplained
    <2>4. TypeOK'
      <3>1. status' \in [Payments -> Statuses]
        BY <2>1 DEF TopUpInv, TypeOK, Statuses
      <3> QED
        BY <1>1, <2>3, <3>1 DEF TopUpInv, TypeOK, given
    <2>5. UpdatesSound'
      BY <1>1, <2>1, <2>3 DEF TopUpInv, TypeOK, UpdatesSound
    <2>6. CreditedOnce'
      BY <1>1, <2>3 DEF TopUpInv, CreditedOnce
    <2> QED
      BY <1>2, <2>3, <2>4, <2>5, <2>6 DEF TopUpInv
  <1>4. CASE ~(status[t] = "awaiting" /\ ~expired[t])
    <2>1. UNCHANGED <<status, credited, balance>>
      BY <1>4 DEF Succeed
    <2>2. TypeOK'
      BY <1>1, <2>1 DEF TopUpInv, TypeOK, given
    <2>3. UpdatesSound' /\ CreditedOnce'
      BY <1>1, <2>1 DEF TopUpInv, UpdatesSound, CreditedOnce
    <2>4. BalanceExplained'
      BY <1>1, <2>1, MoneyKept DEF money
    <2> QED
      BY <1>2, <2>2, <2>3, <2>4 DEF TopUpInv
  <1> QED
    BY <1>3, <1>4

-----------------------------------------------------------------------------
(* The handlers *)

\* A reviewer or a TXID reads a payment that is no Stars payment.
LEMMA ReadKeepsTopUpInv ==
    ASSUME TopUpInv, NEW h \in Handlers, NEW t \in Payments,
           ReadTxid(h, t) \/ Confirm(h, t) \/ Reject(h, t)
    PROVE  TopUpInv'
  <1> USE TopUpAssumption
  <1>1. PICK to \in {"confirmed", "failed", "awaiting"} :
          job' = [job EXCEPT ![h] = [pc |-> "read", payment |-> t, to |-> to,
                                     previous |-> status[t]]]
    BY DEF ReadTxid, Confirm, Reject, ReadReview
  <1>2. /\ UNCHANGED <<status, expired, shown, invoice, approved, money, usable, couponLock, given>>
        /\ Method[t] # "stars"
    BY DEF ReadTxid, Confirm, Reject, ReadReview, TopUpInv, ReviewsSound
  <1>3. /\ job'[h] \in SaveJob /\ job'[h].pc = "read" /\ job'[h].payment = t
        /\ \A g \in Handlers \ {h} : job'[g] = job[g]
        /\ job' \in [Handlers -> Job]
    <2>1. status[t] \in Statuses /\ job \in [Handlers -> Job]
      BY DEF TopUpInv, TypeOK
    <2>2. [pc |-> "read", payment |-> t, to |-> to, previous |-> status[t]] \in SaveJob
      BY <2>1, JobTypes
    <2> QED
      BY <1>1, <2>1, <2>2, JobTypes
  <1>4. TypeOK'
    BY <1>2, <1>3 DEF TopUpInv, TypeOK, invoice, money, given
  <1>5. ReviewsSound'
    BY <1>2, <1>3 DEF TopUpInv, ReviewsSound
  <1>6. UpdatesSound' /\ CreditedOnce'
    BY <1>2 DEF TopUpInv, UpdatesSound, CreditedOnce, invoice, money
  <1>7. CouponHeld'
    BY <1>2, <1>3 DEF TopUpInv, CouponHeld, Exhausted, money
  <1> QED
    BY <1>2, <1>4, <1>5, <1>6, <1>7, MoneyKept DEF TopUpInv

\* The two halves of payment.save(): no Stars payment changes, and what a
\* signal will credit is approved.
LEMMA SaveKeepsTopUpInv ==
    ASSUME TopUpInv, NEW h \in Handlers, PreSave(h) \/ SavePayment(h)
    PROVE  TopUpInv'
  <1> USE TopUpAssumption
  <1> DEFINE t == job[h].payment
  <1>1. /\ job[h] \in SaveJob /\ t \in Payments /\ Method[t] # "stars"
        /\ job[h].to \in {"confirmed", "failed", "awaiting"}
    BY JobTypes DEF PreSave, SavePayment, TopUpInv, TypeOK, ReviewsSound
  <1>2. /\ \E pc \in {"saving", "signal"} : \E previous \in Statuses :
              job' = [job EXCEPT ![h] = [pc |-> pc, payment |-> t, to |-> job[h].to,
                                         previous |-> previous]]
        /\ status' \in [Payments -> Statuses] /\ shown' \in [Payments -> BOOLEAN]
        /\ \A s \in Payments \ {t} : status'[s] = status[s] /\ shown'[s] = shown[s]
        /\ approved' \subseteq Payments /\ approved \subseteq approved'
        /\ UNCHANGED <<expired, invoice, money, usable, couponLock, given>>
        /\ job'[h].pc = "signal" /\ job[h].to = "confirmed" => t \in approved'
    <2>1. CASE PreSave(h)
      <3>1. job' = [job EXCEPT ![h].pc = "saving", ![h].previous = status[t]]
        BY <2>1 DEF PreSave
      <3>2. job' = [job EXCEPT ![h] = [pc |-> "saving", payment |-> t, to |-> job[h].to,
                                       previous |-> status[t]]]
        <4>1. job \in [Handlers -> Job] /\ status[t] \in Statuses
          BY <1>1 DEF TopUpInv, TypeOK
        <4>2. job' = [job EXCEPT ![h] = [job[h] EXCEPT !.pc = "saving", !.previous = status[t]]]
          BY <3>1, <4>1
        <4> QED
          BY <1>1, <4>1, <4>2, JobEdits
      <3> QED
        BY ZenonT(40), <1>1, <2>1, <3>2 DEF PreSave, TopUpInv, TypeOK
    <2>2. CASE SavePayment(h)
      <3>1. job' = [job EXCEPT ![h] = [pc |-> "signal", payment |-> t, to |-> job[h].to,
                                       previous |-> job[h].previous]]
        <4>1. job \in [Handlers -> Job]
          BY DEF TopUpInv, TypeOK
        <4>2. job' = [job EXCEPT ![h] = [job[h] EXCEPT !.pc = "signal"]]
          BY <2>2, <4>1 DEF SavePayment
        <4> QED
          BY <1>1, <4>2, JobEdits
      <3>2. /\ status' = [status EXCEPT ![t] = job[h].to]
            /\ shown' = [shown EXCEPT ![t] = @ \/ job[h].to = "awaiting"]
            /\ approved' = IF job[h].to = "confirmed" THEN approved \cup {t} ELSE approved
            /\ UNCHANGED <<expired, invoice, money, usable, couponLock, given>>
        BY <2>2 DEF SavePayment
      <3>3. job[h].to \in Statuses /\ job[h].previous \in Statuses
        BY <1>1, JobTypes DEF Statuses
      <3> QED
        BY <1>1, <3>1, <3>2, <3>3 DEF TopUpInv, TypeOK
    <2> QED
      BY <2>1, <2>2
  <1>3. /\ job'[h] \in SaveJob /\ job'[h].payment = t /\ job'[h].to = job[h].to
        /\ job'[h].pc # "coupon"
        /\ \A g \in Handlers \ {h} : job'[g] = job[g]
        /\ job' \in [Handlers -> Job]
    <2>1. PICK pc \in {"saving", "signal"}, previous \in Statuses :
              job' = [job EXCEPT ![h] = [pc |-> pc, payment |-> t, to |-> job[h].to,
                                         previous |-> previous]]
      BY <1>2
    <2>2. [pc |-> pc, payment |-> t, to |-> job[h].to, previous |-> previous] \in SaveJob
      BY <1>1, JobTypes
    <2> QED
      BY <2>1, <2>2, JobTypes DEF TopUpInv, TypeOK
  <1> HIDE DEF t
  <1>4. TypeOK'
    BY <1>2, <1>3 DEF TopUpInv, TypeOK, invoice, money, given
  <1>5. ReviewsSound'
    <2>1. \A s \in Payments : shown'[s] => Method[s] # "stars"
      BY <1>1, <1>2 DEF TopUpInv, ReviewsSound
    <2>2. ASSUME NEW g \in Handlers, job'[g] \in SaveJob
          PROVE  /\ Method[job'[g].payment] # "stars"
                 /\ job'[g].pc = "signal" /\ job'[g].to = "confirmed"
                      => job'[g].payment \in approved'
      <3>1. CASE g = h
        BY <1>1, <1>2, <1>3, <3>1
      <3>2. CASE g # h
        BY <1>2, <1>3, <2>2, <3>2 DEF TopUpInv, ReviewsSound
      <3> QED
        BY <3>1, <3>2
    <2> QED
      BY <2>1, <2>2 DEF ReviewsSound
  <1>6. UpdatesSound'
    BY <1>1, <1>2 DEF TopUpInv, UpdatesSound, invoice, money
  <1>7. CreditedOnce'
    BY <1>2 DEF TopUpInv, CreditedOnce, invoice, money
  <1>8. CouponHeld'
    BY <1>2, <1>3 DEF TopUpInv, CouponHeld, Exhausted, money
  <1> QED
    BY <1>2, <1>4, <1>5, <1>6, <1>7, <1>8, MoneyKept DEF TopUpInv

\* The signal of a review: it credits what is confirmed, unless that was done.
LEMMA SignalKeepsTopUpInv ==
    ASSUME TopUpInv, NEW h \in Handlers, Signal(h)
    PROVE  TopUpInv'
  <1> USE TopUpAssumption
  <1> DEFINE t == job[h].payment
  <1>1. /\ job[h] \in SaveJob /\ t \in Payments /\ Method[t] # "stars"
        /\ job[h].to = "confirmed" => t \in approved
    BY JobTypes DEF Signal, TopUpInv, TypeOK, ReviewsSound
  <1>2. /\ job' = [job EXCEPT ![h] = NoJob]
        /\ UNCHANGED <<status, expired, shown, invoice, approved, reversed,
                       usage, usable, couponLock, given>>
        /\ \/ UNCHANGED <<credited, balance>>
           \/ credited[t] = 0 /\ Credit(t) /\ job[h].to = "confirmed"
    <2>1. credited[t] \in Nat
      BY <1>1 DEF TopUpInv, TypeOK
    <2> QED
      BY <2>1 DEF Signal, CreditOnce
  <1> HIDE DEF t
  <1>3. /\ job'[h] = NoJob /\ \A g \in Handlers \ {h} : job'[g] = job[g]
        /\ job' \in [Handlers -> Job]
    BY <1>2, JobTypes DEF TopUpInv, TypeOK
  <1>4. ReviewsSound'
    BY <1>2, <1>3, JobTypes DEF TopUpInv, ReviewsSound
  <1>5. CouponHeld'
    BY <1>2, <1>3, JobTypes DEF TopUpInv, CouponHeld, Exhausted
  <1>6. CASE UNCHANGED <<credited, balance>>
    <2>1. TypeOK'
      BY <1>2, <1>3, <1>6 DEF TopUpInv, TypeOK, invoice, given
    <2>2. UpdatesSound' /\ CreditedOnce'
      BY <1>2, <1>6 DEF TopUpInv, UpdatesSound, CreditedOnce, invoice
    <2>3. BalanceExplained'
      BY <1>2, <1>6, MoneyKept DEF money
    <2> QED
      BY <1>4, <1>5, <2>1, <2>2, <2>3 DEF TopUpInv
  <1>7. CASE credited[t] = 0 /\ Credit(t) /\ job[h].to = "confirmed"
    <2>1. /\ BalanceExplained'
          /\ credited' \in [Payments -> Nat] /\ balance' \in Int
          /\ credited'[t] = 1 /\ \A s \in Payments \ {t} : credited'[s] = credited[s]
      BY <1>1, <1>2, <1>7, CreditExplained
    <2>2. TypeOK'
      BY <1>2, <1>3, <2>1 DEF TopUpInv, TypeOK, invoice, given
    <2>3. UpdatesSound'
      BY <1>1, <1>2, <2>1 DEF TopUpInv, UpdatesSound, invoice
    <2>4. CreditedOnce'
      BY <1>1, <1>2, <1>7, <2>1 DEF TopUpInv, CreditedOnce, invoice
    <2> QED
      BY <1>4, <1>5, <2>1, <2>2, <2>3, <2>4 DEF TopUpInv
  <1> QED
    BY <1>2, <1>6, <1>7

\* The lock on the coupon's row, and what is done under it.
LEMMA CouponKeepsTopUpInv ==
    ASSUME TopUpInv, NEW h \in Handlers, LockCoupon(h) \/ Redeem(h)
    PROVE  TopUpInv'
  <1> USE TopUpAssumption
  <1>1. /\ UNCHANGED <<status, expired, shown, invoice, approved, credited, reversed, usable, given>>
        /\ job' \in [Handlers -> Job]
        /\ \A g \in Handlers \ {h} : job'[g] = job[g]
        /\ job'[h] \notin SaveJob
        /\ couponLock' \in Handlers \cup {Nobody}
    <2>1. usage.own + usage.others \in Nat
      BY DEF TopUpInv, TypeOK
    <2> QED
      BY <2>1, JobTypes DEF LockCoupon, Redeem, money, TopUpInv, TypeOK
  <1>2. ReviewsSound' /\ UpdatesSound' /\ CreditedOnce'
    BY <1>1 DEF TopUpInv, ReviewsSound, UpdatesSound, CreditedOnce, invoice
  <1>3. CASE UNCHANGED <<usage, balance>>
    <2>1. TypeOK'
      BY <1>1, <1>3 DEF TopUpInv, TypeOK, invoice, given
    <2>2. BalanceExplained'
      BY <1>1, <1>3, MoneyKept DEF money
    <2>3. CouponHeld'
      <3>1. CASE LockCoupon(h)
        <4>1. couponLock = Nobody /\ couponLock' = h /\ ~Exhausted
          BY <3>1 DEF LockCoupon
        <4>2. \A g \in Handlers : job[g].pc # "coupon"
          BY <4>1 DEF TopUpInv, CouponHeld
        <4> QED
          BY <1>1, <1>3, <4>1, <4>2 DEF TopUpInv, CouponHeld, Exhausted
      <3>2. CASE Redeem(h)
        <4>1. job[h].pc = "coupon" /\ job' = [job EXCEPT ![h] = NoJob]
          BY <3>2 DEF Redeem
        <4>2. \A g \in Handlers \ {h} : job[g].pc # "coupon"
          BY <4>1 DEF TopUpInv, CouponHeld
        <4>3. job'[h].pc # "coupon"
          BY <4>1, JobTypes DEF TopUpInv, TypeOK
        <4> QED
          BY <1>1, <1>3, <4>2, <4>3 DEF TopUpInv, CouponHeld
      <3> QED
        BY <3>1, <3>2
    <2> QED
      BY <1>2, <2>1, <2>2, <2>3 DEF TopUpInv
  <1>4. CASE Redeem(h) /\ usable
    <2>1. /\ job[h].pc = "coupon" /\ job' = [job EXCEPT ![h] = NoJob]
          /\ usage' = [usage EXCEPT !.own = @ + 1] /\ balance' = balance + Gift
      BY <1>4 DEF Redeem
    <2>2. /\ usage \in [own : Nat, others : Nat] /\ balance \in Int /\ Gift \in Nat
          /\ usage.own \in Nat /\ usage.others \in Nat /\ MaxUses \in Nat /\ MaxPerUser \in Nat
      BY DEF TopUpInv, TypeOK
    <2>3. /\ usage' \in [own : Nat, others : Nat] /\ balance' \in Int
          /\ usage'.own = usage.own + 1 /\ usage'.others = usage.others
      BY <2>1, <2>2
    <2>4. TypeOK'
      BY <1>1, <2>3 DEF TopUpInv, TypeOK, invoice, given
    <2>5. CouponHeld'
      <3>1. ~Exhausted
        BY <2>1 DEF TopUpInv, CouponHeld
      <3>2. usage'.own <= MaxPerUser /\ usage'.own + usage'.others <= MaxUses
        BY <2>2, <2>3, <3>1 DEF Exhausted
      <3>3. \A g \in Handlers \ {h} : job[g].pc # "coupon"
        BY <2>1 DEF TopUpInv, CouponHeld
      <3>4. job'[h].pc # "coupon"
        BY <2>1, JobTypes DEF TopUpInv, TypeOK
      <3> QED
        BY <1>1, <3>2, <3>3, <3>4 DEF CouponHeld
    <2>6. BalanceExplained'
      <3>1. /\ Paid' = Paid /\ reversed' = reversed
            /\ AmountsOf(Paid) \in Nat /\ AmountsOf(reversed) \in Int
        <4>1. \A s \in Payments : Amount[s] \in Nat
          OBVIOUS
        <4>2. /\ IsFiniteSet(Paid) /\ IsFiniteSet(reversed)
              /\ Paid \subseteq Payments /\ reversed \subseteq Payments
          BY DEF TopUpInv, BalanceExplained, TypeOK, Paid
        <4>3. SumOver(Amount, Paid) \in Nat
          BY <4>1, <4>2, SumNatural
        <4>4. SumOver(Amount, reversed) \in Nat
          BY <4>1, <4>2, SumNatural
        <4> QED
          BY <1>1, <4>3, <4>4, AmountsIsSum DEF Paid
      <3>2. Gift * (usage.own + 1) = Gift * usage.own + Gift /\ Gift * usage.own \in Nat
        BY <2>2
      <3>3. balance = AmountsOf(Paid) - AmountsOf(reversed) + Gift * usage.own
        BY DEF TopUpInv, BalanceExplained
      <3>4. balance' = AmountsOf(Paid) - AmountsOf(reversed) + Gift * usage'.own
        BY <2>1, <2>2, <2>3, <3>1, <3>2, <3>3
      <3> QED
        BY <3>1, <3>4 DEF TopUpInv, BalanceExplained
    <2> QED
      BY <1>2, <2>4, <2>5, <2>6 DEF TopUpInv
  <1> QED
    BY <1>3, <1>4 DEF LockCoupon, Redeem, money

\* Another customer's use of the coupon, while nobody holds its lock.
LEMMA RedeemElsewhereKeepsTopUpInv ==
    ASSUME TopUpInv, RedeemElsewhere
    PROVE  TopUpInv'
  <1> USE TopUpAssumption
  <1>1. /\ UNCHANGED <<status, expired, shown, invoice, approved, credited, reversed,
                       balance, usable, couponLock, job, given>>
        /\ couponLock = Nobody /\ usage.own + usage.others < MaxUses
        /\ usage' = [usage EXCEPT !.others = @ + 1]
    BY DEF RedeemElsewhere
  <1>2. /\ usage \in [own : Nat, others : Nat] /\ MaxUses \in Nat
        /\ usage.own \in Nat /\ usage.others \in Nat
    BY DEF TopUpInv, TypeOK
  <1>3. /\ usage' \in [own : Nat, others : Nat]
        /\ usage'.own = usage.own /\ usage'.others = usage.others + 1
    BY <1>1, <1>2
  <1>4. TypeOK'
    BY <1>1, <1>3 DEF TopUpInv, TypeOK, invoice, given
  <1>5. ReviewsSound' /\ UpdatesSound' /\ CreditedOnce'
    BY <1>1 DEF TopUpInv, ReviewsSound, UpdatesSound, CreditedOnce, invoice
  <1>6. CouponHeld'
    <2>1. \A g \in Handlers : job[g].pc # "coupon"
      BY <1>1 DEF TopUpInv, CouponHeld
    <2>2. usage'.own <= MaxPerUser /\ usage'.own + usage'.others <= MaxUses
      BY <1>1, <1>2, <1>3 DEF TopUpInv, CouponHeld
    <2> QED
      BY <1>1, <2>1, <2>2 DEF CouponHeld
  <1>7. BalanceExplained'
    BY <1>1, <1>3 DEF TopUpInv, BalanceExplained, Paid
  <1> QED
    BY <1>4, <1>5, <1>6, <1>7 DEF TopUpInv

\* A restart ends every handler's work and frees the coupon.
LEMMA RestartKeepsTopUpInv ==
    ASSUME TopUpInv, Restart
    PROVE  TopUpInv'
  <1> USE TopUpAssumption
  <1>1. /\ UNCHANGED <<status, expired, shown, invoice, approved, money, usable, given>>
        /\ job' = [h \in Handlers |-> NoJob] /\ couponLock' = Nobody
    BY DEF Restart
  <1>2. TypeOK'
    BY <1>1, JobTypes DEF TopUpInv, TypeOK, invoice, money, given
  <1>3. ReviewsSound' /\ UpdatesSound' /\ CreditedOnce' /\ CouponHeld'
    BY <1>1, JobTypes DEF TopUpInv, ReviewsSound, UpdatesSound, CreditedOnce, CouponHeld,
                          invoice, money
  <1> QED
    BY <1>1, <1>2, <1>3, MoneyKept DEF TopUpInv

-----------------------------------------------------------------------------
\* Every step preserves the invariant.
LEMMA NextPreservesTopUpInv == TopUpInv /\ [Next]_vars => TopUpInv'
  <1> SUFFICES ASSUME TopUpInv, [Next]_vars PROVE TopUpInv'
    OBVIOUS
  <1>1. CASE UNCHANGED vars
    <2>1. UNCHANGED <<status, expired, shown, invoice, approved, money, usable, couponLock, given, job>>
      BY <1>1 DEF vars
    <2>2. TypeOK' /\ ReviewsSound' /\ UpdatesSound' /\ CreditedOnce' /\ CouponHeld'
      BY <2>1 DEF TopUpInv, TypeOK, ReviewsSound, UpdatesSound, CreditedOnce, CouponHeld,
                  Exhausted, invoice, money, given
    <2> QED
      BY <2>1, <2>2, MoneyKept DEF TopUpInv
  <1>2. ASSUME NEW t \in Payments, ReceiptPhoto(t) \/ CryptoAddress(t) \/ StarsInvoice(t)
        PROVE  TopUpInv'
    BY <1>2, CreateKeepsTopUpInv
  <1>3. ASSUME NEW t \in Payments, Expire(t) PROVE TopUpInv'
    BY <1>3, ClockKeepsTopUpInv
  <1>4. ASSUME NEW t \in Payments, Refund(t) PROVE TopUpInv'
    BY <1>4, RefundKeepsTopUpInv
  <1>5. ASSUME NEW t \in Payments, PreCheckout(t) \/ Charge(t) PROVE TopUpInv'
    BY <1>5, InvoiceKeepsTopUpInv
  <1>6. ASSUME NEW t \in Payments, Succeed(t) PROVE TopUpInv'
    BY <1>6, SucceedKeepsTopUpInv
  <1>7. ASSUME NEW h \in Handlers, NEW t \in Payments,
               ReadTxid(h, t) \/ Confirm(h, t) \/ Reject(h, t)
        PROVE  TopUpInv'
    BY <1>7, ReadKeepsTopUpInv
  <1>8. ASSUME NEW h \in Handlers, Save(h) PROVE TopUpInv'
    BY <1>8, SaveKeepsTopUpInv, SignalKeepsTopUpInv DEF Save
  <1>9. ASSUME NEW h \in Handlers, LockCoupon(h) \/ Redeem(h) PROVE TopUpInv'
    BY <1>9, CouponKeepsTopUpInv
  <1>10. CASE RedeemElsewhere
    BY <1>10, RedeemElsewhereKeepsTopUpInv
  <1>11. CASE SetUsable
    BY <1>11, ClockKeepsTopUpInv
  <1>12. CASE Restart
    BY <1>12, RestartKeepsTopUpInv
  <1> QED
    BY <1>1, <1>2, <1>3, <1>4, <1>5, <1>6, <1>7, <1>8, <1>9, <1>10, <1>11, <1>12 DEF Next

\* The invariant holds in every reachable state.
THEOREM TopUpInvariant == Spec => []TopUpInv
  BY InitEstablishesTopUpInv, NextPreservesTopUpInv, PTL DEF Spec

\* The columns keep their types.
THEOREM TypeCorrect == Spec => []TypeOK
  <1>1. TopUpInv => TypeOK
    BY DEF TopUpInv
  <1> QED
    BY <1>1, TopUpInvariant, PTL

\* However many receipts are reviewed at once, however often Telegram repeats
\* an update and wherever the bot is restarted: a payment is credited once at
\* most and for a reason, the coupon keeps its limits, and the balance is what
\* the movements come to.
THEOREM CreditsAreExplained == Spec => []CreditsExplained
  <1>1. TopUpInv => CreditsExplained
    BY DEF TopUpInv, CreditedOnce, CouponHeld, BalanceExplained, CreditsExplained, Paid
  <1> QED
    BY <1>1, TopUpInvariant, PTL
=============================================================================
