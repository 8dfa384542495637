-------------------------- MODULE WalletLedgerProofs --------------------------
(***************************************************************************)
(* Theorems of WalletLedger, for any number of wallets, workers, keys and   *)
(* amounts.                                                                 *)
(***************************************************************************)
EXTENDS WalletLedger, FiniteSums

\* A key names at most one row of the whole installation.
KeysUnique ==
    \A v, w \in Wallets : \A i \in DOMAIN rows[v], j \in DOMAIN rows[w] :
        rows[v][i].key = rows[w][j].key => v = w /\ i = j

\* A worker inside its transaction holds the wallet's row lock, and the row
\* it read under the lock is still the committed one.
LockedRowIsCurrent ==
    \A p \in Workers : job[p].pc \in {"locked", "checked"} =>
        /\ lock[job[p].req.wallet] = p
        /\ job[p].seen.balance = balance[job[p].req.wallet]

\* What a running operation has been checked for.
RequestsChecked ==
    \A p \in Workers :
        /\ job[p] # NoJob => ValidAmount(job[p].req.op, job[p].req.amount)
        /\ job[p].pc = "checked" /\ job[p].req.op = "debit"
             => job[p].seen.balance >= job[p].req.amount

\* Everything ever acknowledged is booked.
AllAckedBooked == \A req \in acked : SameMovement(req)

\* The inductive invariant.
LedgerInv ==
    /\ TypeOK
    /\ LockedRowIsCurrent
    /\ RequestsChecked
    /\ LedgerExplainsBalance
    /\ DebitsCovered
    /\ AllAckedBooked
    /\ KeysUnique

-----------------------------------------------------------------------------
\* The invariant holds initially: there are no rows and no operations.
LEMMA InitEstablishesLedgerInv == Init => LedgerInv
  <1> SUFFICES ASSUME Init PROVE LedgerInv
    OBVIOUS
  <1> USE WalletLedgerAssumption DEF Init
  <1>1. TypeOK
    BY DEF TypeOK, Job, NoJob
  <1>2. LockedRowIsCurrent /\ RequestsChecked
    BY DEF LockedRowIsCurrent, RequestsChecked, NoJob
  <1>3. LedgerExplainsBalance
    BY DEF LedgerExplainsBalance, RowsChain, BalanceIsLastRow
  <1>4. DebitsCovered /\ AllAckedBooked /\ KeysUnique
    BY DEF DebitsCovered, AllAckedBooked, KeysUnique
  <1> QED
    BY <1>1, <1>2, <1>3, <1>4 DEF LedgerInv

-----------------------------------------------------------------------------
\* What job[p] is at each point of an operation.
LEMMA JobShape ==
    ASSUME TypeOK, NEW p \in Workers
    PROVE  /\ job[p].pc = "waiting" => job[p] \in [pc : {"waiting"}, req : Request]
           /\ job[p].pc \in {"locked", "checked"} =>
                job[p] \in [pc : {"locked", "checked"}, req : Request, seen : Seen]
           /\ job[p] # NoJob => job[p].req \in Request
  <1>1. job[p] \in Job
    BY DEF TypeOK
  <1>2. CASE job[p] = NoJob
    BY <1>2 DEF NoJob
  <1>3. CASE job[p] \in [pc : {"waiting"}, req : Request]
    BY <1>3
  <1>4. CASE job[p] \in [pc : {"locked", "checked"}, req : Request, seen : Seen]
    BY <1>4
  <1> QED
    BY <1>1, <1>2, <1>3, <1>4 DEF Job

\* A worker that only ends its transaction, whatever it told its caller about
\* rows that are booked, leaves the ledger and the other workers as they were.
LEMMA ReleasePreservesLedgerInv ==
    ASSUME LedgerInv,
           NEW p \in Workers, job[p].pc \in {"locked", "checked"}, Release(p),
           \/ acked' = acked
           \/ acked' = acked \cup {job[p].req} /\ SameMovement(job[p].req),
           UNCHANGED <<balance, usable, rows, day, form>>
    PROVE  LedgerInv'
  <1> USE WalletLedgerAssumption DEF LedgerInv, Release
  <1>0. job[p].req \in Request
    BY DEF TypeOK, Job, NoJob
  <1>1. TypeOK'
    <2>1. job' \in [Workers -> Job]
      BY DEF TypeOK, Job
    <2>2. lock' \in [Wallets -> Workers \cup {NoWorker}]
      BY DEF TypeOK
    <2> QED
      BY <1>0, <2>1, <2>2 DEF TypeOK
  <1>2. LockedRowIsCurrent'
    <2> SUFFICES ASSUME NEW q \in Workers, job'[q].pc \in {"locked", "checked"}
                 PROVE  /\ lock'[job'[q].req.wallet] = q
                        /\ job'[q].seen.balance = balance'[job'[q].req.wallet]
      BY DEF LockedRowIsCurrent
    <2>1. q # p /\ job'[q] = job[q]
      BY DEF TypeOK, NoJob
    <2>2. lock[job[q].req.wallet] = q /\ lock[job[p].req.wallet] = p
      BY <2>1 DEF LockedRowIsCurrent
    <2>3. job[q].req \in Request
      BY <2>1 DEF TypeOK, Job, NoJob
    <2> QED
      BY <1>0, <2>1, <2>2, <2>3 DEF LockedRowIsCurrent, TypeOK, Request
  <1>3. RequestsChecked'
    BY DEF RequestsChecked, TypeOK, NoJob
  <1>4. LedgerExplainsBalance' /\ DebitsCovered' /\ KeysUnique'
    BY DEF LedgerExplainsBalance, RowsChain, BalanceIsLastRow, DebitsCovered, KeysUnique
  <1>5. AllAckedBooked'
    BY DEF AllAckedBooked, SameMovement
  <1> QED
    BY <1>1, <1>2, <1>3, <1>4, <1>5

\* Starting an operation, taking the lock and passing the checks change no
\* committed row.
LEMMA CallPreservesLedgerInv ==
    ASSUME LedgerInv,
           NEW p \in Workers, NEW req \in Request, Call(p, req)
    PROVE  LedgerInv'
  <1> USE WalletLedgerAssumption DEF LedgerInv, Call
  <1>1. TypeOK'
    <2>1. [pc |-> "waiting", req |-> req] \in Job
      BY DEF Job
    <2>2. job' \in [Workers -> Job]
      BY <2>1 DEF TypeOK
    <2> QED
      BY <2>2 DEF TypeOK
  <1>2. LockedRowIsCurrent' /\ RequestsChecked'
    BY DEF LockedRowIsCurrent, RequestsChecked, TypeOK, NoJob
  <1>3. LedgerExplainsBalance' /\ DebitsCovered' /\ KeysUnique' /\ AllAckedBooked'
    BY DEF LedgerExplainsBalance, RowsChain, BalanceIsLastRow, DebitsCovered, KeysUnique,
           AllAckedBooked, SameMovement
  <1> QED
    BY <1>1, <1>2, <1>3

\* Waiting for the lock, then reading the row: the balance read is current.
LEMMA LockPreservesLedgerInv ==
    ASSUME LedgerInv, NEW p \in Workers, Lock(p)
    PROVE  LedgerInv'
  <1> USE WalletLedgerAssumption DEF LedgerInv, Lock
  <1>0. job[p] \in [pc : {"waiting"}, req : Request] /\ job[p].req \in Request
    BY JobShape
  <1>1. TypeOK'
    <2>1. [balance |-> balance[job[p].req.wallet],
           usable |-> usable[job[p].req.wallet]] \in Seen
      BY <1>0 DEF TypeOK, Seen, Request
    <2>2. job' \in [Workers -> Job]
      BY <1>0, <2>1 DEF TypeOK, Job
    <2> QED
      BY <2>2 DEF TypeOK
  <1>2. LockedRowIsCurrent'
    <2> SUFFICES ASSUME NEW q \in Workers, job'[q].pc \in {"locked", "checked"}
                 PROVE  /\ lock'[job'[q].req.wallet] = q
                        /\ job'[q].seen.balance = balance'[job'[q].req.wallet]
      BY DEF LockedRowIsCurrent
    <2>1. CASE q = p
      BY <1>0, <2>1 DEF TypeOK, Request
    <2>2. CASE q # p
      <3>1. job'[q] = job[q] /\ lock[job[q].req.wallet] = q
        BY <2>2 DEF LockedRowIsCurrent, TypeOK
      <3>2. job[q].req \in Request
        BY <3>1 DEF TypeOK, Job, NoJob
      <3> QED
        BY <1>0, <2>2, <3>1, <3>2 DEF LockedRowIsCurrent, TypeOK, Request
    <2> QED
      BY <2>1, <2>2
  <1>3. RequestsChecked'
    <2> SUFFICES ASSUME NEW q \in Workers
                 PROVE  /\ job'[q] # NoJob => ValidAmount(job'[q].req.op, job'[q].req.amount)
                        /\ job'[q].pc = "checked" /\ job'[q].req.op = "debit"
                             => job'[q].seen.balance >= job'[q].req.amount
      BY DEF RequestsChecked
    <2>1. CASE q = p
      <3>1. job'[q].pc = "locked" /\ job'[q].req = job[p].req
        BY <1>0, <2>1 DEF TypeOK
      <3>2. job[p] # NoJob
        BY DEF NoJob
      <3> QED
        BY <2>1, <3>1, <3>2 DEF RequestsChecked
    <2>2. CASE q # p
      BY <2>2 DEF RequestsChecked, TypeOK
    <2> QED
      BY <2>1, <2>2
  <1>4. LedgerExplainsBalance' /\ DebitsCovered' /\ KeysUnique' /\ AllAckedBooked'
    BY DEF LedgerExplainsBalance, RowsChain, BalanceIsLastRow, DebitsCovered, KeysUnique,
           AllAckedBooked, SameMovement
  <1> QED
    BY <1>1, <1>2, <1>3, <1>4

\* Passing the checks of credit_wallet and debit_wallet writes nothing yet.
LEMMA AcceptPreservesLedgerInv ==
    ASSUME LedgerInv, NEW p \in Workers, Accept(p)
    PROVE  LedgerInv'
  <1> USE WalletLedgerAssumption DEF LedgerInv, Accept
  <1>0. job[p] \in [pc : {"locked"}, req : Request, seen : Seen]
    BY JobShape
  <1>1. job'[p] = [pc |-> "checked", req |-> job[p].req, seen |-> job[p].seen]
    BY <1>0 DEF TypeOK
  <1>2. TypeOK'
    <2>1. job' \in [Workers -> Job]
      BY <1>0, <1>1 DEF TypeOK, Job
    <2> QED
      BY <2>1 DEF TypeOK
  <1>3. LockedRowIsCurrent'
    <2> SUFFICES ASSUME NEW q \in Workers, job'[q].pc \in {"locked", "checked"}
                 PROVE  /\ lock[job'[q].req.wallet] = q
                        /\ job'[q].seen.balance = balance[job'[q].req.wallet]
      BY DEF LockedRowIsCurrent
    <2>1. job[q].pc \in {"locked", "checked"} /\ job'[q].req = job[q].req /\ job'[q].seen = job[q].seen
      BY <1>0, <1>1 DEF TypeOK
    <2> QED
      BY <2>1 DEF LockedRowIsCurrent
  <1>4. RequestsChecked'
    BY <1>0, <1>1 DEF RequestsChecked, TypeOK, NoJob, Allowed, Affordable
  <1>5. LedgerExplainsBalance' /\ DebitsCovered' /\ KeysUnique' /\ AllAckedBooked'
    BY DEF LedgerExplainsBalance, RowsChain, BalanceIsLastRow, DebitsCovered, KeysUnique,
           AllAckedBooked, SameMovement
  <1> QED
    BY <1>2, <1>3, <1>4, <1>5

-----------------------------------------------------------------------------
\* The commit: one row is appended to one wallet.  Because the balance read
\* under the lock is still current, the row continues the wallet's chain.
LEMMA CommitPreservesLedgerInv ==
    ASSUME LedgerInv, NEW p \in Workers, Commit(p)
    PROVE  LedgerInv'
  <1> DEFINE req == job[p].req
             w == req.wallet
             n == Len(rows[w])
             row == NewRow(req, job[p].seen.balance)
  <1> USE WalletLedgerAssumption DEF LedgerInv
  <1>1. /\ job[p] \in [pc : {"locked", "checked"}, req : Request, seen : Seen]
        /\ job[p].pc = "checked" /\ job[p] # NoJob
        /\ req \in Request /\ w \in Wallets
    BY JobShape DEF Commit, NoJob, Request
  <1>2. lock[w] = p /\ job[p].seen.balance = balance[w] /\ balance[w] \in Int
    BY <1>1 DEF LockedRowIsCurrent, TypeOK
  <1>3. /\ row \in Row /\ row.op = req.op /\ row.key = req.key /\ row.amount = req.amount
        /\ row.before = balance[w] /\ row.after = balance[w] + Signed(req.op, req.amount)
    <2>1. req.op \in Ops /\ req.key \in Keys /\ req.amount \in Amounts /\ req.amount \in Int
      BY <1>1 DEF Request
    <2>2. Signed(req.op, req.amount) \in Int
      BY <2>1 DEF Signed
    <2>3. balance[w] + Signed(req.op, req.amount) \in Int
      BY <1>2, <2>2
    <2> HIDE DEF req, w
    <2>4. row = [op |-> req.op, key |-> req.key, amount |-> req.amount, before |-> balance[w],
                 after |-> balance[w] + Signed(req.op, req.amount), day |-> day]
      BY <1>2 DEF NewRow
    <2> QED
      BY <1>2, <2>1, <2>3, <2>4 DEF Row, TypeOK
  <1>4. /\ rows' = [rows EXCEPT ![w] = Append(@, row)]
        /\ balance' = [balance EXCEPT ![w] = row.after]
        /\ lock' = [lock EXCEPT ![w] = NoWorker]
        /\ job' = [job EXCEPT ![p] = NoJob]
        /\ UNCHANGED <<usable, day>>
        /\ ~KeyUsed(req.key)
    BY DEF Commit, Release
  <1>5. ValidAmount(req.op, req.amount) /\ (req.op = "debit" => balance[w] >= req.amount)
    BY <1>1, <1>2 DEF RequestsChecked
  <1>6. /\ \A v \in Wallets : rows[v] \in Seq(Row)
        /\ n \in Nat /\ rows'[w] \in Seq(Row) /\ Len(rows'[w]) = n + 1
        /\ DOMAIN rows[w] = 1 .. n /\ DOMAIN rows'[w] = 1 .. (n + 1)
        /\ rows'[w][n + 1] = row
        /\ \A i \in 1 .. n : rows'[w][i] = rows[w][i]
        /\ \A v \in Wallets \ {w} : rows'[v] = rows[v]
    BY <1>1, <1>3, <1>4 DEF TypeOK
  <1> HIDE DEF req, w, n, row
  <1>7. TypeOK'
    <2>1. balance' \in [Wallets -> Int]
      BY <1>1, <1>3, <1>4 DEF TypeOK, Row
    <2>2. rows' \in [Wallets -> Seq(Row)]
      BY <1>1, <1>4, <1>6 DEF TypeOK
    <2>3. job' \in [Workers -> Job] /\ lock' \in [Wallets -> Workers \cup {NoWorker}]
      BY <1>1, <1>4 DEF TypeOK, Job
    <2>4. acked' \subseteq Request
      BY <1>1 DEF TypeOK, Commit, req
    <2>5. \A v \in Wallets : \A i \in DOMAIN rows'[v] :
             ValidAmount(rows'[v][i].op, rows'[v][i].amount)
      <3> SUFFICES ASSUME NEW v \in Wallets, NEW i \in DOMAIN rows'[v]
                   PROVE  ValidAmount(rows'[v][i].op, rows'[v][i].amount)
        OBVIOUS
      <3>1. CASE v = w /\ i = n + 1
        BY <1>3, <1>5, <1>6, <3>1
      <3>2. CASE ~(v = w /\ i = n + 1)
        <4>1. CASE v # w
          BY <1>6, <4>1 DEF TypeOK
        <4>2. CASE v = w
          <5>1. i \in 1 .. n
            BY <1>6, <3>2, <4>2
          <5> QED
            BY <1>6, <4>2, <5>1 DEF TypeOK
        <4> QED
          BY <4>1, <4>2
      <3> QED
        BY <3>1, <3>2
    <2> QED
      BY <1>4, <2>1, <2>2, <2>3, <2>4, <2>5 DEF TypeOK
  <1>8. LockedRowIsCurrent'
    <2> SUFFICES ASSUME NEW q \in Workers, job'[q].pc \in {"locked", "checked"}
                 PROVE  /\ lock'[job'[q].req.wallet] = q
                        /\ job'[q].seen.balance = balance'[job'[q].req.wallet]
      BY DEF LockedRowIsCurrent
    <2>1. q # p /\ job'[q] = job[q]
      BY <1>4 DEF TypeOK, NoJob
    <2>2. job[q].req.wallet \in Wallets
      BY <2>1, JobShape DEF Request
    <2>3. lock[job[q].req.wallet] = q /\ job[q].req.wallet # w
      BY <1>2, <2>1 DEF LockedRowIsCurrent
    <2> QED
      BY <1>4, <2>1, <2>2, <2>3 DEF LockedRowIsCurrent, TypeOK
  <1>9. RequestsChecked'
    BY <1>4 DEF RequestsChecked, TypeOK, NoJob
  <1>10. LedgerExplainsBalance'
    <2>1. balance[w] = IF rows[w] = <<>> THEN 0 ELSE rows[w][n].after
      BY <1>1 DEF LedgerExplainsBalance, BalanceIsLastRow, n
    <2>2. rows[w] = <<>> <=> n = 0
      BY <1>1, <1>6 DEF n
    <2>3. RowsChain'
      <3> SUFFICES ASSUME NEW v \in Wallets, NEW i \in DOMAIN rows'[v]
                   PROVE  /\ rows'[v][i].after = rows'[v][i].before
                                + Signed(rows'[v][i].op, rows'[v][i].amount)
                          /\ rows'[v][i].before = IF i = 1 THEN 0 ELSE rows'[v][i - 1].after
        BY DEF RowsChain
      <3>1. CASE v = w /\ i = n + 1
        BY <1>3, <1>6, <2>1, <2>2, <3>1
      <3>2. CASE v # w
        BY <1>6, <3>2 DEF LedgerExplainsBalance, RowsChain
      <3>3. CASE v = w /\ i # n + 1
        <4>1. i \in 1 .. n /\ (i # 1 => i - 1 \in 1 .. n)
          BY <1>6, <3>3
        <4> QED
          BY <1>6, <3>3, <4>1 DEF LedgerExplainsBalance, RowsChain
      <3> QED
        BY <3>1, <3>2, <3>3
    <2>4. BalanceIsLastRow'
      <3> SUFFICES ASSUME NEW v \in Wallets
                   PROVE  balance'[v] = IF rows'[v] = <<>> THEN 0
                                        ELSE rows'[v][Len(rows'[v])].after
        BY DEF BalanceIsLastRow
      <3>1. CASE v = w
        <4>1. rows'[w] # <<>> /\ rows'[w][Len(rows'[w])] = row
          BY <1>1, <1>6
        <4> QED
          BY <1>1, <1>4, <3>1, <4>1 DEF TypeOK
      <3>2. CASE v # w
        BY <1>4, <1>6, <3>2 DEF LedgerExplainsBalance, BalanceIsLastRow, TypeOK
      <3> QED
        BY <3>1, <3>2
    <2> QED
      BY <2>3, <2>4 DEF LedgerExplainsBalance
  <1>11. DebitsCovered'
    <2> SUFFICES ASSUME NEW v \in Wallets, NEW i \in DOMAIN rows'[v], rows'[v][i].op = "debit"
                 PROVE  rows'[v][i].after >= 0
      BY DEF DebitsCovered
    <2>1. CASE v = w /\ i = n + 1
      <3>1. req.op = "debit" /\ row.after = balance[w] - req.amount /\ req.amount \in Int
        BY <1>1, <1>3, <1>6, <2>1 DEF Signed, Request
      <3> QED
        BY <1>2, <1>5, <1>6, <2>1, <3>1
    <2>2. CASE v # w
      BY <1>6, <2>2 DEF DebitsCovered
    <2>3. CASE v = w /\ i # n + 1
      BY <1>6, <2>3 DEF DebitsCovered
    <2> QED
      BY <2>1, <2>2, <2>3
  <1>12. AllAckedBooked'
    <2>1. \A r \in acked : SameMovement(r)'
      <3> SUFFICES ASSUME NEW r \in acked PROVE SameMovement(r)'
        OBVIOUS
      <3>1. PICK i \in DOMAIN rows[r.wallet] :
              rows[r.wallet][i].key = r.key /\ rows[r.wallet][i].amount = r.amount
        BY DEF AllAckedBooked, SameMovement
      <3>2. r.wallet \in Wallets
        BY DEF TypeOK, Request
      <3>3. i \in DOMAIN rows'[r.wallet] /\ rows'[r.wallet][i] = rows[r.wallet][i]
        BY <1>1, <1>6, <3>1, <3>2
      <3> QED
        BY <3>1, <3>3 DEF SameMovement
    <2>2. \E i \in DOMAIN rows'[w] : rows'[w][i].key = req.key /\ rows'[w][i].amount = req.amount
      <3>1. n + 1 \in DOMAIN rows'[w]
        BY <1>6
      <3> QED
        BY <1>3, <1>6, <3>1
    <2>3. acked' \subseteq acked \cup {req}
      BY DEF Commit, req
    <2>4. \A r \in acked' : SameMovement(r)'
      BY <2>1, <2>2, <2>3 DEF SameMovement, w
    <2> QED
      BY <2>4 DEF AllAckedBooked
  <1>13. KeysUnique'
    <2> SUFFICES ASSUME NEW v \in Wallets, NEW u \in Wallets,
                        NEW i \in DOMAIN rows'[v], NEW j \in DOMAIN rows'[u],
                        rows'[v][i].key = rows'[u][j].key
                 PROVE  v = u /\ i = j
      BY DEF KeysUnique
    <2> DEFINE New(x, k) == x = w /\ k = n + 1
    <2>1. ~New(v, i) => i \in DOMAIN rows[v] /\ rows'[v][i] = rows[v][i]
      BY <1>6
    <2>2. ~New(u, j) => j \in DOMAIN rows[u] /\ rows'[u][j] = rows[u][j]
      BY <1>6
    <2>3. CASE New(v, i) /\ New(u, j)
      BY <2>3
    <2>4. CASE New(v, i) /\ ~New(u, j)
      BY <1>3, <1>4, <1>6, <2>2, <2>4 DEF KeyUsed
    <2>5. CASE ~New(v, i) /\ New(u, j)
      BY <1>3, <1>4, <1>6, <2>1, <2>5 DEF KeyUsed
    <2>6. CASE ~New(v, i) /\ ~New(u, j)
      BY <2>1, <2>2, <2>6 DEF KeysUnique
    <2> QED
      BY <2>3, <2>4, <2>5, <2>6
  <1> QED
    BY <1>7, <1>8, <1>9, <1>10, <1>11, <1>12, <1>13

-----------------------------------------------------------------------------
\* Every step of the services preserves the invariant.
LEMMA NextPreservesLedgerInv == LedgerInv /\ [Next]_vars => LedgerInv'
  <1> SUFFICES ASSUME LedgerInv, [Next]_vars PROVE LedgerInv'
    OBVIOUS
  <1> USE WalletLedgerAssumption
  <1>1. ASSUME NEW p \in Workers, NEW op \in Ops, NEW w \in Wallets, NEW k \in Keys,
               NEW a \in Amounts, Call(p, [op |-> op, wallet |-> w, key |-> k, amount |-> a])
        PROVE  LedgerInv'
    <2>1. [op |-> op, wallet |-> w, key |-> k, amount |-> a] \in Request
      BY DEF Request
    <2> QED
      BY <1>1, <2>1, CallPreservesLedgerInv
  <1>2. ASSUME NEW p \in Workers, Lock(p) PROVE LedgerInv'
    BY <1>2, LockPreservesLedgerInv
  <1>3. ASSUME NEW p \in Workers, ReturnExisting(p) PROVE LedgerInv'
    BY <1>3, ReleasePreservesLedgerInv DEF ReturnExisting
  <1>4. ASSUME NEW p \in Workers, Refuse(p) PROVE LedgerInv'
    BY <1>4, ReleasePreservesLedgerInv DEF Refuse
  <1>5. ASSUME NEW p \in Workers, Accept(p) PROVE LedgerInv'
    BY <1>5, AcceptPreservesLedgerInv
  <1>6. ASSUME NEW p \in Workers, Commit(p) PROVE LedgerInv'
    BY <1>6, CommitPreservesLedgerInv
  <1>7. ASSUME NEW p \in Workers, Rollback(p) PROVE LedgerInv'
    BY <1>7, ReleasePreservesLedgerInv DEF Rollback
  <1>8. ASSUME NEW w \in Wallets, SetUsable(w) PROVE LedgerInv'
    <2>1. TypeOK'
      BY <1>8 DEF LedgerInv, SetUsable, TypeOK
    <2>2. LockedRowIsCurrent' /\ RequestsChecked'
      BY <1>8 DEF LedgerInv, SetUsable, LockedRowIsCurrent, RequestsChecked
    <2>3. LedgerExplainsBalance' /\ DebitsCovered' /\ AllAckedBooked' /\ KeysUnique'
      BY <1>8 DEF LedgerInv, SetUsable, LedgerExplainsBalance, RowsChain, BalanceIsLastRow,
                  DebitsCovered, AllAckedBooked, SameMovement, KeysUnique
    <2> QED
      BY <2>1, <2>2, <2>3 DEF LedgerInv
  <1>9. CASE NextDay
    <2>1. TypeOK'
      BY <1>9 DEF LedgerInv, NextDay, TypeOK
    <2>2. LockedRowIsCurrent' /\ RequestsChecked'
      BY <1>9 DEF LedgerInv, NextDay, LockedRowIsCurrent, RequestsChecked
    <2>3. LedgerExplainsBalance' /\ DebitsCovered' /\ AllAckedBooked' /\ KeysUnique'
      BY <1>9 DEF LedgerInv, NextDay, LedgerExplainsBalance, RowsChain, BalanceIsLastRow,
                  DebitsCovered, AllAckedBooked, SameMovement, KeysUnique
    <2> QED
      BY <2>1, <2>2, <2>3 DEF LedgerInv
  <1>10. CASE UNCHANGED vars
    <2>1. TypeOK' /\ LockedRowIsCurrent' /\ RequestsChecked'
      BY <1>10 DEF LedgerInv, vars, TypeOK, LockedRowIsCurrent, RequestsChecked
    <2>2. LedgerExplainsBalance' /\ DebitsCovered' /\ AllAckedBooked' /\ KeysUnique'
      BY <1>10 DEF LedgerInv, vars, LedgerExplainsBalance, RowsChain, BalanceIsLastRow,
                   DebitsCovered, AllAckedBooked, SameMovement, KeysUnique
    <2> QED
      BY <2>1, <2>2 DEF LedgerInv
  <1> QED
    BY <1>1, <1>2, <1>3, <1>4, <1>5, <1>6, <1>7, <1>8, <1>9, <1>10 DEF Next

\* The inductive invariant holds in every reachable state.
THEOREM LedgerInvariant == Spec => []LedgerInv
  BY InitEstablishesLedgerInv, NextPreservesLedgerInv, PTL DEF Spec

\* The columns keep their types, and rows booked by the services carry
\* amounts that passed validation.
THEOREM TypeCorrect == Spec => []TypeOK
  <1>1. LedgerInv => TypeOK
    BY DEF LedgerInv
  <1> QED
    BY <1>1, LedgerInvariant, PTL

\* However many bot processes and workers book movements on however many
\* wallets, crash and retry, the ledger rows chain up to the balance.
THEOREM BalancesAreExplained == Spec => []LedgerExplainsBalance
  <1>1. LedgerInv => LedgerExplainsBalance
    BY DEF LedgerInv
  <1> QED
    BY <1>1, LedgerInvariant, PTL

\* No debit overdraws: debit_wallet's check still holds when its row commits.
THEOREM DebitsAreCovered == Spec => []DebitsCovered
  <1>1. LedgerInv => DebitsCovered
    BY DEF LedgerInv
  <1> QED
    BY <1>1, LedgerInvariant, PTL

\* A caller that was told its movement is booked finds it booked, also when
\* the answer came from the row an earlier attempt left.
THEOREM AcknowledgedIsBooked == Spec => AckedIsBooked
  <1>1. LedgerInv' => (\A req \in acked' \ acked : SameMovement(req)')
    <2> SUFFICES ASSUME LedgerInv', NEW req \in acked' \ acked
                 PROVE  SameMovement(req)'
      OBVIOUS
    <2>1. \A r \in acked' : SameMovement(r)'
      BY DEF LedgerInv, AllAckedBooked
    <2> QED
      BY <2>1
  <1>2. LedgerInv' => [\A req \in acked' \ acked : SameMovement(req)']_vars
    BY <1>1
  <1> QED
    BY <1>2, LedgerInvariant, PTL DEF AckedIsBooked

-----------------------------------------------------------------------------
(* The ledger implements IdealLedger *)

\* A step that books no row moves nothing.
LEMMA UnchangedRowsMoveNothing ==
    ASSUME UNCHANGED <<balance, rows>>
    PROVE  UNCHANGED <<balance, Moved>>
  BY DEF Moved

\* A commit is one ideal movement under a fresh key.
LEMMA CommitMoves ==
    ASSUME LedgerInv, NEW p \in Workers, Commit(p)
    PROVE  Ideal!Next
  <1> DEFINE req == job[p].req
             w == req.wallet
             d == Signed(req.op, req.amount)
             Moves(v) == {<<v, rows[v][i].key, Signed(rows[v][i].op, rows[v][i].amount)>> :
                            i \in DOMAIN rows[v]}
             NewMoves(v) == {<<v, rows'[v][i].key, Signed(rows'[v][i].op, rows'[v][i].amount)>> :
                            i \in DOMAIN rows'[v]}
             row == NewRow(req, job[p].seen.balance)
             n == Len(rows[w])
  <1> USE WalletLedgerAssumption DEF LedgerInv
  <1>1. /\ req \in Request /\ w \in Wallets /\ req.key \in Keys
        /\ job[p].seen.balance = balance[w] /\ balance[w] \in Int
    <2>1. job[p].pc = "checked" /\ job[p] # NoJob
      BY DEF Commit, NoJob
    <2> QED
      BY <2>1, JobShape DEF LockedRowIsCurrent, TypeOK, Request
  <1>2. d \in Deltas
    BY <1>1 DEF Deltas, Request
  <1>3. /\ rows' = [rows EXCEPT ![w] = Append(@, row)]
        /\ balance' = [balance EXCEPT ![w] = balance[w] + d]
        /\ row.key = req.key /\ row.op = req.op /\ row.amount = req.amount
        /\ row \in Row
    <2>1. req.op \in Ops /\ req.amount \in Amounts /\ d \in Int
      <3>1. req.op \in Ops /\ req.amount \in Amounts /\ req.amount \in Int
        BY <1>1 DEF Request
      <3> QED
        BY <3>1 DEF Signed
    <2>2. row = [op |-> req.op, key |-> req.key, amount |-> req.amount, before |-> balance[w],
                 after |-> balance[w] + d, day |-> day]
      BY <1>1 DEF NewRow
    <2>3. balance[w] + d \in Int
      BY <1>1, <2>1
    <2>4. row \in Row /\ row.after = balance[w] + d
      BY <1>1, <2>1, <2>2, <2>3 DEF Row, TypeOK
    <2>5. rows' = [rows EXCEPT ![w] = Append(@, row)] /\ balance' = [balance EXCEPT ![w] = row.after]
      BY DEF Commit
    <2> QED
      BY <2>2, <2>4, <2>5
  <1>4. /\ DOMAIN rows[w] = 1 .. n /\ n \in Nat /\ DOMAIN rows'[w] = 1 .. (n + 1)
        /\ rows'[w][n + 1] = row
        /\ \A i \in 1 .. n : rows'[w][i] = rows[w][i]
        /\ \A v \in Wallets \ {w} : rows'[v] = rows[v]
    BY SMTT(30), <1>1, <1>3 DEF TypeOK
  <1> HIDE DEF req, w, d, row, n
  <1>5. \A m \in Moved : m[2] # req.key
    <2> SUFFICES ASSUME NEW v \in Wallets, NEW i \in DOMAIN rows[v]
                 PROVE  rows[v][i].key # req.key
      BY DEF Moved
    <2> QED
      BY DEF Commit, KeyUsed, req
  <1>6. NewMoves(w) = Moves(w) \cup {<<w, req.key, d>>}
    <2>1. NewMoves(w) \subseteq Moves(w) \cup {<<w, req.key, d>>}
      <3> SUFFICES ASSUME NEW i \in 1 .. (n + 1)
                   PROVE  <<w, rows'[w][i].key, Signed(rows'[w][i].op, rows'[w][i].amount)>>
                            \in Moves(w) \cup {<<w, req.key, d>>}
        BY <1>4
      <3>1. CASE i = n + 1
        BY <1>3, <1>4, <3>1 DEF d
      <3>2. CASE i # n + 1
        <4>1. i \in DOMAIN rows[w] /\ rows'[w][i] = rows[w][i]
          BY <1>4, <3>2
        <4> QED
          BY <4>1
      <3> QED
        BY <3>1, <3>2
    <2>2. Moves(w) \subseteq NewMoves(w)
      <3> SUFFICES ASSUME NEW i \in DOMAIN rows[w]
                   PROVE  <<w, rows[w][i].key, Signed(rows[w][i].op, rows[w][i].amount)>>
                            \in NewMoves(w)
        OBVIOUS
      <3>1. i \in DOMAIN rows'[w] /\ rows'[w][i] = rows[w][i]
        BY <1>4
      <3> QED
        BY <3>1
    <2>3. <<w, req.key, d>> \in NewMoves(w)
      <3>1. n + 1 \in DOMAIN rows'[w]
        BY <1>4
      <3>2. <<w, rows'[w][n + 1].key, Signed(rows'[w][n + 1].op, rows'[w][n + 1].amount)>>
              = <<w, req.key, d>>
        BY <1>3, <1>4 DEF d
      <3> QED
        BY <3>1, <3>2
    <2> QED
      BY <2>1, <2>2, <2>3
  <1>7. \A v \in Wallets \ {w} : NewMoves(v) = Moves(v)
    BY <1>4
  <1>8. Moved = UNION {Moves(v) : v \in Wallets} /\ Moved' = UNION {NewMoves(v) : v \in Wallets}
    BY DEF Moved
  <1> HIDE DEF Moves, NewMoves
  <1>9. Moved' = Moved \cup {<<w, req.key, d>>}
    BY <1>1, <1>6, <1>7, <1>8
  <1>10. balance' = [balance EXCEPT ![w] = @ + d]
    BY <1>3
  <1>11. Ideal!Move(w, req.key, d)
    BY <1>5, <1>9, <1>10 DEF Ideal!Move
  <1> QED
    BY <1>1, <1>2, <1>11 DEF Ideal!Next

\* The row lock, the checks and the signal handlers together give callers the
\* ideal ledger: cash moves only in whole movements, each booked once under a
\* key no wallet has used.
THEOREM ImplementsIdealLedger == Spec => ImplementsIdeal
  <1>1. Init => Ideal!Init
    BY DEF Init, Ideal!Init, Moved
  <1>2. LedgerInv /\ [Next]_vars => [Ideal!Next]_<<balance, Moved>>
    <2> SUFFICES ASSUME LedgerInv, [Next]_vars
                 PROVE  Ideal!Next \/ UNCHANGED <<balance, Moved>>
      OBVIOUS
    <2>1. ASSUME NEW p \in Workers, Commit(p) PROVE Ideal!Next
      BY <2>1, CommitMoves
    <2>2. CASE UNCHANGED <<balance, rows>>
      BY <2>2, UnchangedRowsMoveNothing
    <2>3. (\E p \in Workers : Commit(p)) \/ UNCHANGED <<balance, rows>>
      BY DEF Next, vars, Call, Lock, ReturnExisting, Refuse, Accept, Rollback, SetUsable, NextDay
    <2> QED
      BY <2>1, <2>2, <2>3
  <1> QED
    BY <1>1, <1>2, LedgerInvariant, PTL DEF Spec, ImplementsIdeal, Ideal!Spec, Ideal!vars

-----------------------------------------------------------------------------
(* Spending limits *)

\* The debits of the rows r booked on a day of D.
DebitsOn(r, D) == {i \in DOMAIN r : r[i].op = "debit" /\ r[i].day \in D}

\* Months do not overlap, and a later day's month does not start earlier.
LEMMA Months ==
    ASSUME NEW P \in Nat \ {0}, NEW d \in Nat
    PROVE  /\ (d \div P) * P \in Nat
           /\ (d \div P) * P <= ((d + 1) \div P) * P
           /\ \A e \in Nat : e \div P = d \div P => e >= (d \div P) * P
  <1>1. \A e \in Nat : e \div P \in Nat /\ (e \div P) * P <= e /\ e < (e \div P) * P + P
    OBVIOUS
  <1>2. \A a, b \in Nat : a <= b => a * P <= b * P
    OBVIOUS
  <1>3. (d \div P) * P \in Nat
    BY <1>1
  <1>4. d \div P <= (d + 1) \div P
    <2> DEFINE a == d \div P
               b == (d + 1) \div P
    <2>1. a \in Nat /\ b \in Nat /\ a * P <= d /\ d + 1 < b * P + P
      BY <1>1
    <2> HIDE DEF a, b
    <2>2. b * P + P = (b + 1) * P
      BY <2>1
    <2>3. ASSUME b + 1 <= a PROVE FALSE
      <3>1. (b + 1) * P <= a * P
        BY <1>2, <2>1, <2>3
      <3>2. a * P \in Nat /\ (b + 1) * P \in Nat
        BY <2>1
      <3> HIDE <1>1, <1>2
      <3> QED
        BY <2>1, <2>2, <3>1, <3>2
    <2>4. a <= b
      BY <2>1, <2>3
    <2> QED
      BY <2>4 DEF a, b
  <1>5. (d \div P) * P <= ((d + 1) \div P) * P
    BY <1>1, <1>2, <1>4
  <1> QED
    BY <1>1, <1>3, <1>5

\* The rows of r that count as spent since day d.
Since(r, d) == {i \in DOMAIN r : r[i].op = "debit" /\ r[i].day >= d}

\* The month of day d.
MonthOf(d) == {e \in 0 .. MaxDay : e \div DaysPerMonth = d \div DaysPerMonth}

\* A debit of amount a on day d, in the month that starts on day m, fits both
\* limits of the wallet with rows r.
Fits(r, d, m, a) ==
    /\ ~Exceeds(AmountSum(r, Since(r, d)) + a, DailyLimit)
    /\ ~Exceeds(AmountSum(r, Since(r, m)) + a, MonthlyLimit)

\* What LimitsHold says of the wallet with rows r and of day d.
Within(r, d) ==
    /\ ~Exceeds(AmountSum(r, DebitsOn(r, {d})), DailyLimit)
    /\ ~Exceeds(AmountSum(r, DebitsOn(r, MonthOf(d))), MonthlyLimit)

\* A debit that passed the checks still fits both limits, whatever other
\* callers have booked and however the calendar has moved since.
LimitsChecked ==
    \A p \in Workers : job[p].pc = "checked" /\ job[p].req.op = "debit" =>
        Fits(rows[job[p].req.wallet], day, MonthStart, job[p].req.amount)

DaysWithin == \A w \in Wallets, d \in 0 .. MaxDay : Within(rows[w], d)

\* What the proof of LimitsHold carries along, beside LedgerInv.
LimitsInv == LimitsChecked /\ DaysWithin

\* LimitsHold is DaysWithin.
LEMMA LimitsHoldUnfolds == LimitsHold <=> DaysWithin
  BY DEF LimitsHold, DaysWithin, Within, MonthOf, AmountSum, DebitsOn

\* The checks of debit_wallet are Fits.
LEMMA AffordableFits ==
    ASSUME NEW req, NEW seen, Affordable(req, seen)
    PROVE  Fits(rows[req.wallet], day, MonthStart, req.amount)
  <1>1. \A w, d : SpentSince(w, d) = AmountSum(rows[w], Since(rows[w], d))
    BY DEF SpentSince, AmountSum, Since
  <1> QED
    BY <1>1 DEF Affordable, Fits

\* The columns the sums are made of.
LEMMA RowFacts ==
    ASSUME TypeOK, NEW w \in Wallets
    PROVE  /\ IsFiniteSet(DOMAIN rows[w])
           /\ \A i \in DOMAIN rows[w] :
                /\ rows[w][i].day \in Nat
                /\ rows[w][i].op = "debit" => rows[w][i].amount \in Nat
  <1>1. rows[w] \in Seq(Row) /\ DOMAIN rows[w] = 1 .. Len(rows[w]) /\ Len(rows[w]) \in Nat
    BY DEF TypeOK
  <1>2. IsFiniteSet(1 .. Len(rows[w]))
    <2>1. \A n \in Nat : IsFiniteSet(1 .. n)
      BY ONLY FS_Interval
    <2> QED
      BY ONLY <1>1, <2>1
  <1>3. ASSUME NEW i \in DOMAIN rows[w]
        PROVE  /\ rows[w][i].day \in Nat
               /\ rows[w][i].op = "debit" => rows[w][i].amount \in Nat
    <2>1. rows[w][i] \in Row
      BY <1>1
    <2>2. ValidAmount(rows[w][i].op, rows[w][i].amount)
      BY DEF TypeOK
    <2>3. rows[w][i].day \in Nat /\ rows[w][i].amount \in Int
      BY <2>1, WalletLedgerAssumption DEF Row
    <2> QED
      BY <2>2, <2>3 DEF ValidAmount
  <1> QED
    BY <1>1, <1>2, <1>3

\* A smaller amount does not exceed a limit that a larger one keeps.
LEMMA LessExceedsLess ==
    ASSUME NEW a \in Int, NEW b \in Int, a <= b,
           NEW limit \in Nat \cup {NoLimit}, ~Exceeds(b, limit)
    PROVE  ~Exceeds(a, limit)
  BY WalletLedgerAssumption DEF Exceeds

\* Spending since a later day is no more than since an earlier one, and on
\* a set of days no more than since the first of them.
LEMMA SpentShrinks ==
    ASSUME TypeOK, NEW w \in Wallets, NEW d \in Int
    PROVE  LET r == rows[w] IN
           /\ AmountSum(r, Since(r, d)) \in Nat
           /\ \A e \in Int : d <= e => /\ AmountSum(r, Since(r, e)) \in Nat
                                       /\ AmountSum(r, Since(r, e)) <= AmountSum(r, Since(r, d))
           /\ \A D : (\A e \in D : e >= d) =>
                /\ IsFiniteSet(DebitsOn(r, D))
                /\ \A i \in DebitsOn(r, D) : r[i].amount \in Nat
                /\ AmountSum(r, DebitsOn(r, D)) \in Nat
                /\ AmountSum(r, DebitsOn(r, D)) <= AmountSum(r, Since(r, d))
  <1> DEFINE r == rows[w]
             T == Since(r, d)
  <1>1. T \subseteq DOMAIN r /\ IsFiniteSet(DOMAIN r)
    BY RowFacts DEF Since
  <1>2. IsFiniteSet(T) /\ (\A i \in T : r[i].amount \in Nat)
    BY <1>1, FS_Subset, RowFacts DEF Since
  <1>3. ASSUME NEW S, S \subseteq T
        PROVE  /\ AmountSum(r, S) \in Nat /\ AmountSum(r, S) <= AmountSum(r, T)
               /\ IsFiniteSet(S) /\ (\A i \in S : r[i].amount \in Nat)
    BY <1>2, <1>3, AmountMonotone, FS_Subset
  <1>4. ASSUME NEW e \in Int, d <= e
        PROVE  AmountSum(r, Since(r, e)) \in Nat /\ AmountSum(r, Since(r, e)) <= AmountSum(r, T)
    <2>1. Since(r, e) \subseteq T
      BY <1>4, RowFacts DEF Since
    <2> QED
      BY <1>3, <2>1
  <1>5. ASSUME NEW D, \A e \in D : e >= d
        PROVE  /\ IsFiniteSet(DebitsOn(r, D))
               /\ \A i \in DebitsOn(r, D) : r[i].amount \in Nat
               /\ AmountSum(r, DebitsOn(r, D)) \in Nat
               /\ AmountSum(r, DebitsOn(r, D)) <= AmountSum(r, T)
    <2>1. DebitsOn(r, D) \subseteq T
      BY <1>5 DEF DebitsOn, Since
    <2> QED
      BY <1>3, <2>1
  <1> QED
    BY <1>3, <1>4, <1>5

\* The calendar and the limits, as numbers.
LEMMA Calendar ==
    ASSUME TypeOK
    PROVE  /\ day \in Nat /\ MonthStart \in Nat
           /\ (day' = day + 1 => MonthStart <= MonthStart' /\ MonthStart' \in Nat)
           /\ \A d \in Nat : d \div DaysPerMonth = day \div DaysPerMonth =>
                \A e \in MonthOf(d) : e >= MonthStart
           /\ DailyLimit \in Nat \cup {NoLimit} /\ MonthlyLimit \in Nat \cup {NoLimit}
  <1>1. day \in Nat /\ DaysPerMonth \in Nat \ {0}
    BY WalletLedgerAssumption DEF TypeOK
  <1>2. MonthStart = (day \div DaysPerMonth) * DaysPerMonth /\ MonthStart \in Nat
    BY <1>1, Months DEF MonthStart
  <1>3. day' = day + 1 => MonthStart' = ((day + 1) \div DaysPerMonth) * DaysPerMonth
    BY DEF MonthStart
  <1>4. day + 1 \in Nat
    BY <1>1
  <1>5. ((day + 1) \div DaysPerMonth) * DaysPerMonth \in Nat
    BY <1>1, <1>4, Months
  <1>6. (day \div DaysPerMonth) * DaysPerMonth <= ((day + 1) \div DaysPerMonth) * DaysPerMonth
    BY <1>1, Months
  <1>7. ASSUME NEW d \in Nat, d \div DaysPerMonth = day \div DaysPerMonth, NEW e \in MonthOf(d)
        PROVE  e >= MonthStart
    <2>1. e \in 0 .. MaxDay /\ e \div DaysPerMonth = day \div DaysPerMonth
      BY <1>7 DEF MonthOf
    <2>2. e \in Nat
      BY <2>1, WalletLedgerAssumption
    <2> QED
      BY <1>1, <1>2, <2>1, <2>2, Months
  <1> QED
    BY <1>1, <1>2, <1>3, <1>5, <1>6, <1>7, WalletLedgerAssumption

\* A checked debit stays within the limits while its wallet's rows stay as
\* they are, also when the day or the month ends in between.
LEMMA CheckedStaysChecked ==
    ASSUME LedgerInv, LimitsChecked, NEW p \in Workers,
           job[p].pc = "checked", job[p].req.op = "debit",
           day' = day \/ day' = day + 1
    PROVE  Fits(rows[job[p].req.wallet], day', MonthStart', job[p].req.amount)
  <1> DEFINE w == job[p].req.wallet
             a == job[p].req.amount
             S(d) == AmountSum(rows[w], Since(rows[w], d))
  <1>1. TypeOK /\ w \in Wallets /\ a \in Int
    <2>1. job[p].req \in Request
      BY JobShape DEF LedgerInv
    <2> QED
      BY <2>1, WalletLedgerAssumption DEF LedgerInv, Request
  <1>4. /\ day \in Nat /\ MonthStart \in Nat /\ day' \in Nat /\ MonthStart' \in Nat
        /\ day <= day' /\ MonthStart <= MonthStart'
        /\ DailyLimit \in Nat \cup {NoLimit} /\ MonthlyLimit \in Nat \cup {NoLimit}
    <2>1. CASE day' = day
      <3>1. MonthStart' = MonthStart
        BY <2>1 DEF MonthStart
      <3> QED
        BY <1>1, <2>1, <3>1, Calendar
    <2>2. CASE day' = day + 1
      BY <1>1, <2>2, Calendar
    <2> QED
      BY <2>1, <2>2
  <1>5. /\ S(day) \in Nat /\ S(day') \in Nat /\ S(day') <= S(day)
        /\ S(MonthStart) \in Nat /\ S(MonthStart') \in Nat /\ S(MonthStart') <= S(MonthStart)
    BY <1>1, <1>4, SpentShrinks
  <1>6. ~Exceeds(S(day) + a, DailyLimit) /\ ~Exceeds(S(MonthStart) + a, MonthlyLimit)
    BY DEF LimitsChecked, Fits
  <1>9. Fits(rows[w], day', MonthStart', a) <=>
          ~Exceeds(S(day') + a, DailyLimit) /\ ~Exceeds(S(MonthStart') + a, MonthlyLimit)
    BY DEF Fits
  <1> HIDE DEF w, a, S
  <1>7. /\ S(day) + a \in Int /\ S(day') + a \in Int /\ S(day') + a <= S(day) + a
        /\ S(MonthStart) + a \in Int /\ S(MonthStart') + a \in Int
        /\ S(MonthStart') + a <= S(MonthStart) + a
    BY <1>1, <1>5
  <1>8. ~Exceeds(S(day') + a, DailyLimit) /\ ~Exceeds(S(MonthStart') + a, MonthlyLimit)
    BY <1>4, <1>6, <1>7, LessExceedsLess
  <1> QED
    BY <1>8, <1>9 DEF w, a

\* A step that writes no row keeps both, if a debit it lets pass is checked.
LEMMA NoRowKeepsLimits ==
    ASSUME LedgerInv, LimitsInv, rows' = rows, day' = day \/ day' = day + 1,
           \A p \in Workers : job'[p].pc = "checked" =>
             \/ job'[p] = job[p]
             \/ day' = day /\ Allowed(job'[p].req, job[p].seen)
    PROVE  LimitsInv'
  <1>1. DaysWithin'
    BY DEF DaysWithin, LimitsInv
  <1>2. ASSUME NEW p \in Workers, job'[p].pc = "checked", job'[p].req.op = "debit"
        PROVE  Fits(rows'[job'[p].req.wallet], day', MonthStart', job'[p].req.amount)
    <2>1. CASE job'[p] = job[p]
      BY <1>2, <2>1, CheckedStaysChecked DEF LimitsInv
    <2>2. CASE day' = day /\ Allowed(job'[p].req, job[p].seen)
      <3>1. MonthStart' = MonthStart
        BY <2>2 DEF MonthStart
      <3>2. Fits(rows[job'[p].req.wallet], day, MonthStart, job'[p].req.amount)
        BY <1>2, <2>2, AffordableFits DEF Allowed
      <3> QED
        BY <2>2, <3>1, <3>2
    <2> QED
      BY <1>2, <2>1, <2>2
  <1>3. LimitsChecked'
    BY <1>2 DEF LimitsChecked
  <1> QED
    BY <1>1, <1>3 DEF LimitsInv

\* The commit of a checked debit keeps its day and its month within the
\* limits: what is booked on the day and in the month is at most what was
\* counted at the check, because the rows of the wallet cannot change while
\* its lock is held.
LEMMA CommitKeepsLimits ==
    ASSUME LedgerInv, LimitsInv, NEW p \in Workers, Commit(p)
    PROVE  LimitsInv'
  <1> DEFINE req == job[p].req
             w == req.wallet
             n == Len(rows[w])
             row == NewRow(req, job[p].seen.balance)
  <1> USE WalletLedgerAssumption DEF LedgerInv
  <1>1. /\ job[p].pc = "checked" /\ req \in Request /\ w \in Wallets
        /\ req.amount \in Int /\ ValidAmount(req.op, req.amount)
        /\ lock[w] = p
    <2>1. job[p].pc = "checked" /\ job[p] # NoJob
      BY DEF Commit, NoJob
    <2>2. req \in Request
      BY <2>1, JobShape
    <2> QED
      BY <2>1, <2>2 DEF LockedRowIsCurrent, RequestsChecked, Request
  <1>2. row.op = req.op /\ row.amount = req.amount /\ row.day = day /\ day \in Nat
    BY DEF NewRow, TypeOK
  <1>3. /\ rows' = [rows EXCEPT ![w] = Append(@, row)]
        /\ job' = [job EXCEPT ![p] = NoJob]
        /\ day' = day /\ MonthStart' = MonthStart
    BY DEF Commit, Release, MonthStart
  <1>4. /\ DOMAIN rows[w] = 1 .. n /\ n \in Nat /\ DOMAIN rows'[w] = 1 .. (n + 1)
        /\ rows'[w][n + 1] = row
        /\ \A i \in 1 .. n : rows'[w][i] = rows[w][i]
        /\ \A v \in Wallets \ {w} : rows'[v] = rows[v]
    BY <1>1, <1>3 DEF TypeOK
  <1>5. req.op = "debit" => Fits(rows[w], day, MonthStart, req.amount)
    BY <1>1 DEF LimitsInv, LimitsChecked
  <1>6. ASSUME NEW q \in Workers, job'[q].pc = "checked", job'[q].req.op = "debit"
        PROVE  Fits(rows'[job'[q].req.wallet], day', MonthStart', job'[q].req.amount)
    <2>1. q # p /\ job'[q] = job[q]
      BY <1>3, <1>6 DEF TypeOK, NoJob
    <2>2. job[q].req \in Request /\ job[q].pc = "checked" /\ job[q].req.op = "debit"
      BY <1>6, <2>1, JobShape
    <2>3. job[q].req.wallet # w /\ job[q].req.wallet \in Wallets
      BY <1>1, <2>1, <2>2 DEF LockedRowIsCurrent, Request
    <2>4. Fits(rows[job[q].req.wallet], day, MonthStart, job[q].req.amount)
      BY <2>2 DEF LimitsInv, LimitsChecked
    <2> QED
      BY <1>3, <1>4, <2>1, <2>3, <2>4
  <1>7. LimitsChecked'
    BY <1>6 DEF LimitsChecked
  <1> HIDE DEF req, w, n, row
  <1>8. \A D : DebitsOn(rows'[w], D)
                 = IF req.op = "debit" /\ day \in D THEN DebitsOn(rows[w], D) \cup {n + 1}
                                                    ELSE DebitsOn(rows[w], D)
    BY <1>2, <1>4 DEF DebitsOn
  <1>9. ASSUME NEW D, IsFiniteSet(DebitsOn(rows[w], D)),
               \A i \in DebitsOn(rows[w], D) : rows[w][i].amount \in Nat
        PROVE  AmountSum(rows'[w], DebitsOn(rows'[w], D))
                 = IF req.op = "debit" /\ day \in D
                     THEN AmountSum(rows[w], DebitsOn(rows[w], D)) + req.amount
                     ELSE AmountSum(rows[w], DebitsOn(rows[w], D))
    <2> DEFINE S == DebitsOn(rows[w], D)
    <2>1. S \subseteq 1 .. n /\ n + 1 \notin S /\ IsFiniteSet(S)
      BY <1>4, <1>9 DEF DebitsOn
    <2>2. AmountSum(rows'[w], S) = AmountSum(rows[w], S)
      BY <1>4, <2>1, AmountSame
    <2>3. CASE req.op = "debit" /\ day \in D
      <3>1. req.amount \in Nat
        BY <1>1, <2>3 DEF ValidAmount
      <3>2. \A i \in S \cup {n + 1} : rows'[w][i].amount \in Nat
        BY <1>2, <1>4, <1>9, <2>1, <3>1
      <3>3. AmountSum(rows'[w], S \cup {n + 1}) = AmountSum(rows'[w], S) + rows'[w][n + 1].amount
        BY <2>1, <3>2, AmountAdd
      <3> QED
        BY <1>2, <1>4, <1>8, <2>2, <2>3, <3>3
    <2>4. CASE ~(req.op = "debit" /\ day \in D)
      BY <1>8, <2>2, <2>4
    <2> QED
      BY <2>3, <2>4
  <1>10. ASSUME NEW D, NEW first \in {day, MonthStart}, \A e \in D : e >= first,
                NEW limit \in Nat \cup {NoLimit},
                ~Exceeds(AmountSum(rows[w], DebitsOn(rows[w], D)), limit),
                req.op = "debit" =>
                  ~Exceeds(AmountSum(rows[w], Since(rows[w], first)) + req.amount, limit)
         PROVE  ~Exceeds(AmountSum(rows'[w], DebitsOn(rows'[w], D)), limit)
    <2> DEFINE A == AmountSum(rows[w], DebitsOn(rows[w], D))
               B == AmountSum(rows[w], Since(rows[w], first))
    <2>1. first \in Int
      BY Calendar
    <2>2. /\ A \in Nat /\ B \in Nat /\ A <= B
          /\ IsFiniteSet(DebitsOn(rows[w], D))
          /\ \A i \in DebitsOn(rows[w], D) : rows[w][i].amount \in Nat
      BY <1>1, <1>10, <2>1, SpentShrinks
    <2>3. AmountSum(rows'[w], DebitsOn(rows'[w], D)) = IF req.op = "debit" /\ day \in D
                                                    THEN A + req.amount ELSE A
      BY <1>9, <2>2
    <2> HIDE DEF A, B
    <2>4. req.op = "debit" => ~Exceeds(A + req.amount, limit)
      <3> SUFFICES ASSUME req.op = "debit" PROVE ~Exceeds(A + req.amount, limit)
        OBVIOUS
      <3>1. ~Exceeds(B + req.amount, limit)
        BY <1>10 DEF B
      <3>2. A + req.amount \in Int /\ B + req.amount \in Int /\ A + req.amount <= B + req.amount
        BY <1>1, <2>2
      <3> QED
        BY <3>1, <3>2, LessExceedsLess
    <2> QED
      BY <1>10, <2>3, <2>4 DEF A
  <1>11. ASSUME NEW D, D \subseteq Nat, day \notin D
         PROVE  AmountSum(rows'[w], DebitsOn(rows'[w], D)) = AmountSum(rows[w], DebitsOn(rows[w], D))
    <2>1. /\ IsFiniteSet(DebitsOn(rows[w], D))
          /\ \A i \in DebitsOn(rows[w], D) : rows[w][i].amount \in Nat
      <3>1. 0 \in Int /\ \A e \in D : e >= 0
        BY <1>11
      <3> QED
        BY <1>1, <3>1, SpentShrinks
    <2> QED
      BY <1>9, <1>11, <2>1
  <1>12. ASSUME NEW d \in 0 .. MaxDay PROVE Within(rows'[w], d)
    <2>1. Within(rows[w], d)
      BY <1>1 DEF DaysWithin, LimitsInv
    <2>2. d \in Nat /\ DailyLimit \in Nat \cup {NoLimit} /\ MonthlyLimit \in Nat \cup {NoLimit}
      OBVIOUS
    <2>3. ~Exceeds(AmountSum(rows'[w], DebitsOn(rows'[w], {d})), DailyLimit)
      <3>1. CASE d = day
        <4>1. req.op = "debit" =>
                ~Exceeds(AmountSum(rows[w], Since(rows[w], day)) + req.amount, DailyLimit)
          BY <1>5 DEF Fits
        <4>2. (\A e \in {d} : e >= day) /\ ~Exceeds(AmountSum(rows[w], DebitsOn(rows[w], {d})), DailyLimit)
          BY <1>2, <2>1, <3>1 DEF Within
        <4> QED
          BY <1>10, <2>2, <4>1, <4>2
      <3>2. CASE d # day
        <4>1. AmountSum(rows'[w], DebitsOn(rows'[w], {d})) = AmountSum(rows[w], DebitsOn(rows[w], {d}))
          BY <1>11, <2>2, <3>2
        <4> QED
          BY <2>1, <4>1 DEF Within
      <3> QED
        BY <3>1, <3>2
    <2>4. ~Exceeds(AmountSum(rows'[w], DebitsOn(rows'[w], MonthOf(d))), MonthlyLimit)
      <3>1. CASE d \div DaysPerMonth = day \div DaysPerMonth
        <4>1. req.op = "debit" =>
                ~Exceeds(AmountSum(rows[w], Since(rows[w], MonthStart)) + req.amount, MonthlyLimit)
          BY <1>5 DEF Fits
        <4>2. /\ \A e \in MonthOf(d) : e >= MonthStart
              /\ ~Exceeds(AmountSum(rows[w], DebitsOn(rows[w], MonthOf(d))), MonthlyLimit)
          BY <2>1, <2>2, <3>1, Calendar DEF Within
        <4> QED
          BY <1>10, <2>2, <4>1, <4>2
      <3>2. CASE d \div DaysPerMonth # day \div DaysPerMonth
        <4>1. day \notin MonthOf(d)
          BY <3>2 DEF MonthOf
        <4>2. AmountSum(rows'[w], DebitsOn(rows'[w], MonthOf(d)))
                = AmountSum(rows[w], DebitsOn(rows[w], MonthOf(d)))
          BY <1>11, <4>1 DEF MonthOf
        <4> QED
          BY <2>1, <4>2 DEF Within
      <3> QED
        BY <3>1, <3>2
    <2> QED
      BY <2>3, <2>4 DEF Within
  <1>13. ASSUME NEW v \in Wallets, NEW d \in 0 .. MaxDay PROVE Within(rows'[v], d)
    <2>1. CASE v = w
      BY <1>12, <2>1
    <2>2. CASE v # w
      BY <1>4, <2>2 DEF DaysWithin, LimitsInv
    <2> QED
      BY <2>1, <2>2
  <1>14. DaysWithin'
    BY <1>13 DEF DaysWithin
  <1> QED
    BY <1>7, <1>14 DEF LimitsInv

\* Both hold initially: nothing is booked, nobody is checked.
LEMMA InitEstablishesLimitsInv == Init => LimitsInv
  <1> SUFFICES ASSUME Init PROVE LimitsInv
    OBVIOUS
  <1>1. LimitsChecked
    BY DEF LimitsChecked, Init, NoJob
  <1>2. ASSUME NEW w \in Wallets, NEW d \in 0 .. MaxDay PROVE Within(rows[w], d)
    <2>1. \A D : DebitsOn(rows[w], D) = {}
      BY DEF Init, DebitsOn
    <2>2. AmountSum(rows[w], {}) = 0
      BY AmountIsSum, SumEmpty
    <2> QED
      BY <2>1, <2>2, WalletLedgerAssumption DEF Within, Exceeds
  <1> QED
    BY <1>1, <1>2 DEF LimitsInv, DaysWithin

\* Every step keeps the limits.
LEMMA NextKeepsLimits == LedgerInv /\ LimitsInv /\ [Next]_vars => LimitsInv'
  <1> SUFFICES ASSUME LedgerInv, LimitsInv, [Next]_vars PROVE LimitsInv'
    OBVIOUS
  <1>0. TypeOK
    BY DEF LedgerInv
  <1>1. ASSUME NEW p \in Workers,
               \/ \E req \in Request : Call(p, req)
               \/ Lock(p) \/ ReturnExisting(p) \/ Refuse(p) \/ Rollback(p)
        PROVE  LimitsInv'
    <2>1. rows' = rows /\ day' = day
      BY <1>1 DEF Call, Lock, ReturnExisting, Refuse, Rollback
    <2>2. \A q \in Workers \ {p} : job'[q] = job[q]
      BY <1>0, <1>1 DEF TypeOK, Call, Lock, ReturnExisting, Refuse, Rollback, Release
    <2>3. job'[p].pc # "checked"
      BY <1>0, <1>1 DEF TypeOK, Call, Lock, ReturnExisting, Refuse, Rollback, Release, NoJob
    <2> QED
      BY <2>1, <2>2, <2>3, NoRowKeepsLimits
  <1>2. ASSUME NEW p \in Workers, Accept(p) PROVE LimitsInv'
    <2>1. rows' = rows /\ day' = day /\ Allowed(job[p].req, job[p].seen)
      BY <1>2 DEF Accept
    <2>2. job[p] \in [pc : {"locked"}, req : Request, seen : Seen]
      BY <1>0, <1>2, JobShape DEF Accept
    <2>3. job'[p].req = job[p].req /\ \A q \in Workers \ {p} : job'[q] = job[q]
      BY <1>0, <1>2, <2>2 DEF TypeOK, Accept
    <2> QED
      BY <2>1, <2>3, NoRowKeepsLimits
  <1>3. ASSUME NEW p \in Workers, Commit(p) PROVE LimitsInv'
    BY <1>3, CommitKeepsLimits
  <1>4. CASE NextDay \/ UNCHANGED vars \/ \E w \in Wallets : SetUsable(w)
    <2>1. rows' = rows /\ job' = job /\ (day' = day \/ day' = day + 1)
      BY <1>4 DEF NextDay, vars, SetUsable
    <2> QED
      BY <2>1, NoRowKeepsLimits
  <1>5. ASSUME NEW p \in Workers, NEW op \in Ops, NEW w \in Wallets, NEW k \in Keys,
               NEW a \in Amounts, Call(p, [op |-> op, wallet |-> w, key |-> k, amount |-> a])
        PROVE  LimitsInv'
    <2>1. [op |-> op, wallet |-> w, key |-> k, amount |-> a] \in Request
      BY DEF Request
    <2> QED
      BY <1>1, <1>5, <2>1
  <1> QED
    BY <1>1, <1>2, <1>3, <1>4, <1>5 DEF Next

\* However callers interleave, die and retry around midnight and the end of
\* the month, no day's and no month's debits pass the wallet's limits.
THEOREM LimitsAreKept == Spec => []LimitsHold
  <1>1. LimitsInv => LimitsHold
    BY LimitsHoldUnfolds DEF LimitsInv
  <1>2. Init => LimitsInv
    BY InitEstablishesLimitsInv
  <1>3. LedgerInv /\ LimitsInv /\ [Next]_vars => LimitsInv'
    BY NextKeepsLimits
  <1> QED
    BY <1>1, <1>2, <1>3, LedgerInvariant, PTL DEF Spec
==============================================================================
