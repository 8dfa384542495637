----------------------------- MODULE WalletLedger -----------------------------
(***************************************************************************)
(* The wallet ledger: credit_wallet and debit_wallet of orders/services.py, *)
(* _apply_payment_wallet_delta and the WalletTransaction signal handlers of *)
(* orders/signals.py, run by the bot process and the Celery workers against *)
(* one PostgreSQL database under READ COMMITTED.                            *)
(*                                                                          *)
(* A money movement is one database transaction: it takes the wallet's row  *)
(* lock (select_for_update) and reads the row, looks its idempotency key up *)
(* and checks availability, funds and spending limits, then inserts a       *)
(* WalletTransaction whose signal handlers write the new balance; the       *)
(* commit makes both visible and frees the lock.  The wallet row read under *)
(* the lock is the one every later statement uses, so it is kept in job[p]. *)
(* A worker may die, and its transaction roll back, at any point.           *)
(*                                                                          *)
(* Next is what services and signals do.  RacyNext adds the two ways staff  *)
(* reach these tables past the row lock: the Wallet form, whose save writes *)
(* back every column it read, and the deletion of a WalletTransaction.      *)
(***************************************************************************)
EXTENDS Integers, Sequences, FiniteSetsExt

CONSTANTS
    Wallets,        \* wallets
    Workers,        \* concurrent callers: bot handlers, Celery workers, admin views
    Keys,           \* idempotency keys; each may be presented any number of times
    Amounts,        \* the amounts callers pass, invalid ones included
    DailyLimit,     \* Wallet.daily_spending_limit, or NoLimit
    MonthlyLimit,   \* Wallet.monthly_spending_limit, or NoLimit
    NoLimit,        \* a NULL limit
    DaysPerMonth,   \* length of a month
    MaxDay,         \* bound on the calendar
    NoWorker        \* the value of a free row lock

ASSUME WalletLedgerAssumption ==
    /\ Amounts \subseteq Int
    /\ DaysPerMonth \in Nat \ {0}
    /\ MaxDay \in Nat
    /\ NoWorker \notin Workers
    /\ NoLimit \notin Nat
    /\ DailyLimit \in Nat \cup {NoLimit}
    /\ MonthlyLimit \in Nat \cup {NoLimit}

VARIABLES
    balance,    \* balance[w]: the committed Wallet.balance
    usable,     \* usable[w]: is_active and not is_frozen
    rows,       \* rows[w]: the committed WalletTransaction rows, oldest first
    lock,       \* lock[w]: the worker that holds the row lock
    job,        \* job[p]: the operation worker p is running
    acked,      \* operations reported to their caller as done
    day,        \* the current day
    form        \* form[w]: an open Wallet admin form (RacyNext only)

vars == <<balance, usable, rows, lock, job, acked, day, form>>

Ops == {"credit", "debit", "delta"}

Request == [op : Ops, wallet : Wallets, key : Keys, amount : Amounts]

Row == [op : Ops, key : Keys, amount : Amounts, before : Int, after : Int, day : Nat]

\* The columns of the wallet row as read under the lock.
Seen == [balance : Int, usable : BOOLEAN]

NoJob == [pc |-> "idle"]

Job == {NoJob} \cup [pc : {"waiting"}, req : Request]
               \cup [pc : {"locked", "checked"}, req : Request, seen : Seen]

NoForm == [open |-> FALSE]

-----------------------------------------------------------------------------
(* Helpers on rows *)

\* wallet_transaction_pre_save: withdrawals and payments lower the balance,
\* every other type adds its (possibly negative) amount.
Signed(op, amount) == IF op = "debit" THEN -amount ELSE amount

KeyUsed(k) == \E w \in Wallets : \E i \in DOMAIN rows[w] : rows[w][i].key = k

\* The existing row the caller's key names, if it is the same movement.
SameMovement(req) ==
    \E i \in DOMAIN rows[req.wallet] :
        /\ rows[req.wallet][i].key = req.key
        /\ rows[req.wallet][i].amount = req.amount

\* Sum of the debits of wallet w created on or after day d.
SpentSince(w, d) ==
    MapThenSumSet(LAMBDA i : rows[w][i].amount,
                  {i \in DOMAIN rows[w] : /\ rows[w][i].op = "debit"
                                          /\ rows[w][i].day >= d})

MonthStart == (day \div DaysPerMonth) * DaysPerMonth

Exceeds(spent, limit) == limit # NoLimit /\ spent > limit

\* Credits and debits validate their amount before any query; a payment's
\* delta comes from its stored amount, negative when a top-up is reversed.
ValidAmount(op, amount) == op = "delta" \/ amount > 0

-----------------------------------------------------------------------------
Init ==
    /\ balance = [w \in Wallets |-> 0]
    /\ usable \in [Wallets -> BOOLEAN]
    /\ rows = [w \in Wallets |-> <<>>]
    /\ lock = [w \in Wallets |-> NoWorker]
    /\ job = [p \in Workers |-> NoJob]
    /\ acked = {}
    /\ day = 0
    /\ form = [w \in Wallets |-> NoForm]

\* A caller starts an operation.  The same request may be made again after a
\* crash or a redelivered task, or at the same time by another worker.
Call(p, req) ==
    /\ job[p] = NoJob
    /\ ValidAmount(req.op, req.amount)
    /\ job' = [job EXCEPT ![p] = [pc |-> "waiting", req |-> req]]
    /\ UNCHANGED <<balance, usable, rows, lock, acked, day, form>>

\* Mutant of Lock: a plain get(), which waits for nobody.
LockWithoutWaiting(p) ==
    /\ job[p].pc = "waiting"
    /\ LET w == job[p].req.wallet IN
        job' = [job EXCEPT ![p] =
                    [pc |-> "locked", req |-> job[p].req,
                     seen |-> [balance |-> balance[w], usable |-> usable[w]]]]
    /\ UNCHANGED <<balance, usable, rows, lock, acked, day, form>>

\* Wallet.objects.select_for_update().get(): waits for the lock, then reads.
Lock(p) ==
    /\ job[p].pc = "waiting"
    /\ LET w == job[p].req.wallet IN
        /\ lock[w] = NoWorker
        /\ lock' = [lock EXCEPT ![w] = p]
        /\ job' = [job EXCEPT ![p] =
                    [pc |-> "locked", req |-> job[p].req,
                     seen |-> [balance |-> balance[w], usable |-> usable[w]]]]
    /\ UNCHANGED <<balance, usable, rows, acked, day, form>>

\* The transaction of p ends and its lock is released.
Release(p) ==
    /\ lock' = [lock EXCEPT ![job[p].req.wallet] = NoWorker]
    /\ job' = [job EXCEPT ![p] = NoJob]

\* Mutant of ReturnExisting: the row found is not compared with the request.
ReturnAnyExisting(p) ==
    /\ job[p].pc = "locked"
    /\ KeyUsed(job[p].req.key)
    /\ Release(p)
    /\ acked' = acked \cup {job[p].req}
    /\ UNCHANGED <<balance, usable, rows, day, form>>

\* The key is already in the table: the caller gets the row it names, or an
\* error when that row is another movement.  A payment's delta returns silently.
ReturnExisting(p) ==
    /\ job[p].pc = "locked"
    /\ KeyUsed(job[p].req.key)
    /\ Release(p)
    /\ acked' = IF job[p].req.op # "delta" /\ SameMovement(job[p].req)
                  THEN acked \cup {job[p].req} ELSE acked
    /\ UNCHANGED <<balance, usable, rows, day, form>>

\* Mutant of Affordable: the limits alone are checked.
AffordableByLimits(req, seen) ==
    /\ ~Exceeds(SpentSince(req.wallet, day) + req.amount, DailyLimit)
    /\ ~Exceeds(SpentSince(req.wallet, MonthStart) + req.amount, MonthlyLimit)

\* Mutant of Affordable: what was spent is compared, not what will be.
AffordableSoFar(req, seen) ==
    /\ seen.balance >= req.amount
    /\ ~Exceeds(SpentSince(req.wallet, day), DailyLimit)
    /\ ~Exceeds(SpentSince(req.wallet, MonthStart), MonthlyLimit)

\* The checks of debit_wallet after availability: funds and both limits.
Affordable(req, seen) ==
    /\ seen.balance >= req.amount
    /\ ~Exceeds(SpentSince(req.wallet, day) + req.amount, DailyLimit)
    /\ ~Exceeds(SpentSince(req.wallet, MonthStart) + req.amount, MonthlyLimit)

\* What must hold for a new movement; the signal path checks nothing.
Allowed(req, seen) ==
    \/ req.op = "delta"
    \/ req.op = "credit" /\ seen.usable
    \/ req.op = "debit" /\ seen.usable /\ Affordable(req, seen)

\* The wallet is unavailable, or lacks the funds, or a limit would be passed.
Refuse(p) ==
    /\ job[p].pc = "locked"
    /\ ~KeyUsed(job[p].req.key)
    /\ ~Allowed(job[p].req, job[p].seen)
    /\ Release(p)
    /\ UNCHANGED <<balance, usable, rows, acked, day, form>>

\* The new movement passed every check; its row is still to be written.
Accept(p) ==
    /\ job[p].pc = "locked"
    /\ ~KeyUsed(job[p].req.key)
    /\ Allowed(job[p].req, job[p].seen)
    /\ job' = [job EXCEPT ![p].pc = "checked"]
    /\ UNCHANGED <<balance, usable, rows, lock, acked, day, form>>

NewRow(req, before) ==
    [op |-> req.op, key |-> req.key, amount |-> req.amount, before |-> before,
     after |-> before + Signed(req.op, req.amount), day |-> day]

\* INSERT, the handlers that set balance_after and Wallet.balance, COMMIT.
Commit(p) ==
    /\ job[p].pc = "checked"
    /\ ~KeyUsed(job[p].req.key)
    /\ LET req == job[p].req
           row == NewRow(req, job[p].seen.balance)
       IN  /\ rows' = [rows EXCEPT ![req.wallet] = Append(@, row)]
           /\ balance' = [balance EXCEPT ![req.wallet] = row.after]
           /\ acked' = IF req.op # "delta" THEN acked \cup {req} ELSE acked
    /\ Release(p)
    /\ UNCHANGED <<usable, day, form>>

\* Mutant of Rollback: the wallet is saved in a transaction of its own.
RollbackHalf(p) ==
    /\ job[p].pc \in {"locked", "checked"}
    /\ Release(p)
    /\ LET req == job[p].req IN
        balance' = [balance EXCEPT ![req.wallet] = job[p].seen.balance + Signed(req.op, req.amount)]
    /\ UNCHANGED <<usable, rows, acked, day, form>>

\* The unique index on idempotency_key refuses the row, or the worker dies.
Rollback(p) ==
    /\ job[p].pc \in {"locked", "checked"}
    /\ Release(p)
    /\ UNCHANGED <<balance, usable, rows, acked, day, form>>

\* Staff save the Wallet form and no movement commits between its read and
\* its write: only the columns they edited change.
SetUsable(w) ==
    /\ lock[w] = NoWorker
    /\ usable' = [usable EXCEPT ![w] = ~@]
    /\ UNCHANGED <<balance, rows, lock, job, acked, day, form>>

NextDay ==
    /\ day < MaxDay
    /\ day' = day + 1
    /\ UNCHANGED <<balance, usable, rows, lock, job, acked, form>>

Next ==
    \/ \E p \in Workers :
        \/ \E op \in Ops, w \in Wallets, k \in Keys, a \in Amounts :
              Call(p, [op |-> op, wallet |-> w, key |-> k, amount |-> a])
        \/ Lock(p)
        \/ ReturnExisting(p)
        \/ Refuse(p)
        \/ Accept(p)
        \/ Commit(p)
        \/ Rollback(p)
    \/ \E w \in Wallets : SetUsable(w)
    \/ NextDay

Spec == Init /\ [][Next]_vars

-----------------------------------------------------------------------------
(* Staff access past the row lock *)

\* get_object() of the change view: a plain read.
OpenForm(w) ==
    /\ ~form[w].open
    /\ form' = [form EXCEPT ![w] = [open |-> TRUE, balance |-> balance[w]]]
    /\ UNCHANGED <<balance, usable, rows, lock, job, acked, day>>

\* obj.save(): an UPDATE of every column, the read-only ones included.
SaveForm(w) ==
    /\ form[w].open
    /\ lock[w] = NoWorker
    /\ balance' = [balance EXCEPT ![w] = form[w].balance]
    /\ \E u \in BOOLEAN : usable' = [usable EXCEPT ![w] = u]
    /\ form' = [form EXCEPT ![w] = NoForm]
    /\ UNCHANGED <<rows, lock, job, acked, day>>

\* wallet_transaction_deleted: the balance goes back to what it was before
\* the deleted row, whatever has been booked since.
DeleteRow(w, i) ==
    /\ lock[w] = NoWorker
    /\ rows' = [rows EXCEPT ![w] = SubSeq(@, 1, i - 1) \o SubSeq(@, i + 1, Len(@))]
    /\ balance' = [balance EXCEPT ![w] = rows[w][i].before]
    /\ UNCHANGED <<usable, lock, job, acked, day, form>>

RacyNext ==
    \/ Next
    \/ \E w \in Wallets :
        \/ OpenForm(w)
        \/ SaveForm(w)
        \/ \E i \in DOMAIN rows[w] : DeleteRow(w, i)

RacySpec == Init /\ [][RacyNext]_vars

-----------------------------------------------------------------------------
(* Properties *)

\* Types of the columns.  Rows of credit_wallet and debit_wallet carry
\* positive amounts, as their validation demands.
TypeOK ==
    /\ balance \in [Wallets -> Int]
    /\ usable \in [Wallets -> BOOLEAN]
    /\ rows \in [Wallets -> Seq(Row)]
    /\ lock \in [Wallets -> Workers \cup {NoWorker}]
    /\ job \in [Workers -> Job]
    /\ acked \subseteq Request
    /\ day \in Nat
    /\ \A w \in Wallets : \A i \in DOMAIN rows[w] :
          ValidAmount(rows[w][i].op, rows[w][i].amount)

\* Each row starts at the balance its predecessor left, and moves it by its
\* own amount.
RowsChain ==
    \A w \in Wallets : \A i \in DOMAIN rows[w] :
        LET row == rows[w][i] IN
        /\ row.after = row.before + Signed(row.op, row.amount)
        /\ row.before = IF i = 1 THEN 0 ELSE rows[w][i - 1].after

\* Wallet.balance is what the newest row says it is.
BalanceIsLastRow ==
    \A w \in Wallets :
        balance[w] = IF rows[w] = <<>> THEN 0 ELSE rows[w][Len(rows[w])].after

\* The ledger explains the balance: no movement is lost, counted twice or
\* computed from a stale balance, however callers interleave or die.
LedgerExplainsBalance == RowsChain /\ BalanceIsLastRow

\* A debit is never taken from money that is not there, although deltas may
\* lower a balance below zero between two debits.
DebitsCovered ==
    \A w \in Wallets : \A i \in DOMAIN rows[w] :
        rows[w][i].op = "debit" => rows[w][i].after >= 0

\* Whatever a caller is told happened did: the row its key names is on its
\* wallet and has its amount, whoever else presented the key.
AckedIsBooked == [][\A req \in acked' \ acked : SameMovement(req)']_vars

\* A day's and a month's debits stay within the wallet's limits, also when
\* the check and the row fall on two sides of midnight.
LimitsHold ==
    \A w \in Wallets, d \in 0 .. MaxDay :
        LET Debits(D) == {i \in DOMAIN rows[w] :
                            rows[w][i].op = "debit" /\ rows[w][i].day \in D}
            Spent(D) == MapThenSumSet(LAMBDA i : rows[w][i].amount, Debits(D))
        IN  /\ ~Exceeds(Spent({d}), DailyLimit)
            /\ ~Exceeds(Spent({e \in 0 .. MaxDay :
                          e \div DaysPerMonth = d \div DaysPerMonth}), MonthlyLimit)

\* The ledger as its callers see it.
Moved == UNION {{<<w, rows[w][i].key, Signed(rows[w][i].op, rows[w][i].amount)>> :
                    i \in DOMAIN rows[w]} : w \in Wallets}

Deltas == {Signed(op, a) : op \in Ops, a \in Amounts}

Ideal == INSTANCE IdealLedger WITH total <- balance, moved <- Moved

\* The ledger implements the ideal one: every change of a balance is one
\* movement, booked under a key no wallet has used before.
ImplementsIdeal == Ideal!Spec
==============================================================================
