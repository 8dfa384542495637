----------------------------- MODULE NoticesProofs -----------------------------
(***************************************************************************)
(* SentOnce for any number of workers, notices, messages and troubles.      *)
(*                                                                          *)
(* The row lock is what keeps the notice at one message: one delivery works *)
(* on a row at a time (OneDelivery), it found the row unsent and nobody     *)
(* else may mark it (DeliveryIsUnsent), and a message that Telegram has     *)
(* accepted is recorded, is the running delivery's, or was orphaned by a    *)
(* rollback (MessagesAccounted).  That a row exists before anything is done *)
(* with it (MadeFirst) keeps a second creation from forgetting sent_at.     *)
(*                                                                          *)
(* FirstTouch for any users and visits: one visit sees its user as new, and *)
(* until it is recorded no click of that user is a registration             *)
(* (OneRegistration).                                                       *)
(***************************************************************************)
EXTENDS Notices, FiniteSetTheorems, TLAPS

Delivering(p, n) == job[p] \in [pc : {"sending", "accepted"}, notice : {n}]

Unrecorded(p, n) == job[p] = [pc |-> "accepted", notice |-> n]

OutboxTypes ==
    /\ row \in [Notices -> Row]
    /\ queue \in [Notices -> Nat]
    /\ copies \in [Notices -> Nat]
    /\ orphans \in [Notices -> Nat]
    /\ job \in [Workers -> Job]

MadeFirst ==
    \A n \in Notices : row[n].sent \/ queue[n] > 0 \/ Locked(n) => row[n].made

OneDelivery ==
    \A n \in Notices, p, q \in Workers : Delivering(p, n) /\ Delivering(q, n) => p = q

DeliveryIsUnsent ==
    \A n \in Notices, p \in Workers : Delivering(p, n) => ~row[n].sent

MessagesAccounted ==
    \A n \in Notices :
        \/ copies[n] <= orphans[n]
        \/ /\ copies[n] = orphans[n] + 1
           /\ row[n].sent \/ \E p \in Workers : Unrecorded(p, n)

OutboxInv ==
    /\ OutboxTypes
    /\ MadeFirst
    /\ OneDelivery
    /\ DeliveryIsUnsent
    /\ MessagesAccounted

-----------------------------------------------------------------------------
\* The accounting bounds the messages.
LEMMA AccountingBoundsMessages == OutboxInv => SentOnce
  BY DEF OutboxInv, OutboxTypes, MessagesAccounted, SentOnce

\* A job that delivers is about a notice; any other job delivers nothing.
LEMMA JobKinds ==
    ASSUME NEW p \in Workers, job[p] \in Job
    PROVE  /\ job[p].pc = "sending" =>
                 job[p].notice \in Notices /\ job[p] = [pc |-> "sending", notice |-> job[p].notice]
           /\ job[p].pc = "accepted" =>
                 job[p].notice \in Notices /\ job[p] = [pc |-> "accepted", notice |-> job[p].notice]
           /\ job[p].pc \in {"deleting", "deleted"} => job[p].notice \in Notices
           /\ \A n : Delivering(p, n) => job[p].pc \in {"sending", "accepted"} /\ job[p].notice = n
           /\ job[p].pc = "deleted" => job[p].outcome \in {"done", "failed", "no"}
  BY DEF Job, NoJob, Delivering

\* The outbox is empty at first.
LEMMA InitEstablishesOutboxInv == Init => OutboxInv
  <1> SUFFICES ASSUME Init PROVE OutboxInv
    OBVIOUS
  <1>1. OutboxTypes
    BY DEF Init, OutboxTypes, Row, NoRow, Job, NoJob
  <1>2. \A n, p : p \in Workers => ~Delivering(p, n)
    BY DEF Init, Delivering, NoJob
  <1>3. MadeFirst
    BY <1>2 DEF Init, MadeFirst, NoRow, Locked, Delivering
  <1>4. OneDelivery /\ DeliveryIsUnsent
    BY <1>2 DEF OneDelivery, DeliveryIsUnsent
  <1>5. MessagesAccounted
    BY DEF Init, MessagesAccounted
  <1> QED
    BY <1>1, <1>3, <1>4, <1>5 DEF OutboxInv

-----------------------------------------------------------------------------
\* Steps that end deliveries or leave them alone keep the invariant, if they
\* send nothing, mark nothing and queue only rows that are made.
LEMMA FrameKeepsOutboxInv ==
    ASSUME OutboxInv, OutboxTypes',
           \A n \in Notices : /\ row'[n].sent = row[n].sent
                              /\ row[n].made => row'[n].made
                              /\ queue'[n] > 0 => queue[n] > 0 \/ row'[n].made,
           UNCHANGED <<copies, orphans>>,
           \A n \in Notices, p \in Workers : /\ Delivering(p, n)' => Delivering(p, n)
                                             /\ Unrecorded(p, n) => Unrecorded(p, n)'
    PROVE  OutboxInv'
  <1>1. MadeFirst'
    <2> SUFFICES ASSUME NEW n \in Notices, (row[n].sent \/ queue[n] > 0 \/ Locked(n))'
                 PROVE  row'[n].made
      BY DEF MadeFirst
    <2>1. Locked(n)' => Locked(n)
      BY DEF Locked, Delivering
    <2>2. row[n].sent \/ queue[n] > 0 \/ Locked(n) => row[n].made
      BY DEF OutboxInv, MadeFirst
    <2> QED
      BY <2>1, <2>2
  <1>2. OneDelivery'
    BY DEF OutboxInv, OneDelivery, Delivering
  <1>3. DeliveryIsUnsent'
    <2> SUFFICES ASSUME NEW n \in Notices, NEW p \in Workers, Delivering(p, n)'
                 PROVE  ~row'[n].sent
      BY DEF DeliveryIsUnsent
    <2>1. Delivering(p, n)
      BY DEF Delivering
    <2> QED
      BY <2>1 DEF OutboxInv, DeliveryIsUnsent
  <1>4. MessagesAccounted'
    <2> SUFFICES ASSUME NEW n \in Notices,
                        ~(copies[n] <= orphans[n])
                 PROVE  /\ copies[n] = orphans[n] + 1
                        /\ row'[n].sent \/ \E p \in Workers : Unrecorded(p, n)'
      BY DEF MessagesAccounted
    <2> QED
      BY DEF OutboxInv, MessagesAccounted, Unrecorded
  <1> QED
    BY <1>1, <1>2, <1>3, <1>4 DEF OutboxInv

\* Steps that leave the outbox alone.
LEMMA UntouchedKeepsOutboxInv ==
    ASSUME OutboxInv, UNCHANGED <<row, queue, copies, orphans, job>>
    PROVE  OutboxInv'
  BY DEF OutboxInv, OutboxTypes, MadeFirst, OneDelivery, DeliveryIsUnsent, MessagesAccounted,
         Locked, Delivering, Unrecorded

\* The rows made so far can be counted.
LEMMA PkIsNat == Cardinality({m \in Notices : row[m].made}) \in Nat
  <1>1. IsFiniteSet({m \in Notices : row[m].made})
    BY NoticesAssumption, FS_Subset
  <1> QED
    BY <1>1, FS_CardinalityType

\* Stamping a row for publication, after making it if need be.
LEMMA PublishKeepsOutboxInv ==
    ASSUME OutboxInv, NEW n \in Notices, NEW r \in Row, r.made, r.sent = row[n].sent,
           Publish(n, r), UNCHANGED <<copies, orphans, job>>
    PROVE  OutboxInv'
  <1>1. row' = [row EXCEPT ![n] = [r EXCEPT !.queued = "recent"]]
    BY DEF Publish
  <1>2. [r EXCEPT !.queued = "recent"] \in Row
    BY DEF Row
  <1>3. /\ [r EXCEPT !.queued = "recent"].sent = row[n].sent
        /\ [r EXCEPT !.queued = "recent"].made
    BY DEF Row
  <1>4. queue' = [queue EXCEPT ![n] = @ + 1] \/ queue' = queue
    BY DEF Publish
  <1>5. OutboxTypes'
    BY <1>1, <1>2, <1>4 DEF OutboxInv, OutboxTypes
  <1>6. \A m \in Notices : /\ row'[m].sent = row[m].sent
                           /\ row[m].made => row'[m].made
                           /\ queue'[m] > 0 => queue[m] > 0 \/ row'[m].made
    BY <1>1, <1>3, <1>4 DEF OutboxInv, OutboxTypes
  <1>7. \A m \in Notices, p \in Workers : /\ Delivering(p, m)' => Delivering(p, m)
                                          /\ Unrecorded(p, m) => Unrecorded(p, m)'
    BY DEF Delivering, Unrecorded
  <1> QED
    BY <1>5, <1>6, <1>7, FrameKeepsOutboxInv

\* _queue_once makes the row, or finds it, and publishes.
LEMMA QueueOnceKeepsOutboxInv ==
    ASSUME OutboxInv, NEW n \in Notices, QueueOnce(n)
    PROVE  OutboxInv'
  <1> DEFINE r == GetOrCreate(n)
  <1>1. CASE row[n].made
    <2>1. r = row[n] /\ r \in Row
      BY <1>1 DEF GetOrCreate, OutboxInv, OutboxTypes
    <2>2. Publish(n, r) /\ UNCHANGED <<copies, orphans, job>>
      BY DEF QueueOnce
    <2> HIDE DEF r
    <2> QED
      BY <1>1, <2>1, <2>2, PublishKeepsOutboxInv
  <1>2. CASE ~row[n].made
    <2>1. r = [NoRow EXCEPT !.made = TRUE, !.pk = 1 + Cardinality({m \in Notices : row[m].made})]
      BY <1>2 DEF GetOrCreate
    <2>2. r \in Row /\ r.made /\ r.sent = FALSE
      <3> DEFINE pk == 1 + Cardinality({m \in Notices : row[m].made})
      <3>1. pk \in Nat
        BY PkIsNat
      <3>2. r = [NoRow EXCEPT !.made = TRUE, !.pk = pk]
        BY <2>1
      <3> HIDE DEF r, pk
      <3> QED
        BY <3>1, <3>2 DEF Row, NoRow
    <2>3. row[n].sent = FALSE
      BY <1>2 DEF OutboxInv, OutboxTypes, MadeFirst, Row
    <2>4. Publish(n, r) /\ UNCHANGED <<copies, orphans, job>>
      BY DEF QueueOnce
    <2> HIDE DEF r
    <2> QED
      BY <2>2, <2>3, <2>4, PublishKeepsOutboxInv
  <1> QED
    BY <1>1, <1>2

\* The recovery publishes a row again.
LEMMA RecoverKeepsOutboxInv ==
    ASSUME OutboxInv, NEW n \in Notices, Recover(n)
    PROVE  OutboxInv'
  <1>1. row[n] \in Row
    BY DEF OutboxInv, OutboxTypes
  <1>2. row[n].made /\ Publish(n, row[n]) /\ UNCHANGED <<copies, orphans, job>>
    BY DEF Recover, Pending
  <1> QED
    BY <1>1, <1>2, PublishKeepsOutboxInv

-----------------------------------------------------------------------------
(* Deliveries *)

\* A job that ends or begins something else than a delivery, while it holds
\* no unrecorded message.
LEMMA OtherJobs ==
    ASSUME OutboxInv, NEW p \in Workers, NEW j \in Job,
           job' = [job EXCEPT ![p] = j],
           j.pc \notin {"sending", "accepted"}, job[p].pc # "accepted"
    PROVE  /\ job' \in [Workers -> Job]
           /\ \A n \in Notices, q \in Workers :
                 (Delivering(q, n)' => Delivering(q, n)) /\ (Unrecorded(q, n) => Unrecorded(q, n)')
  <1>1. job \in [Workers -> Job]
    BY DEF OutboxInv, OutboxTypes
  <1>2. job' \in [Workers -> Job]
    BY <1>1
  <1>3. ASSUME NEW n \in Notices, NEW q \in Workers
        PROVE  (Delivering(q, n)' => Delivering(q, n)) /\ (Unrecorded(q, n) => Unrecorded(q, n)')
    <2>1. CASE q = p
      <3>1. job'[q] = j
        BY <1>1, <2>1
      <3>2. ~Delivering(q, n)'
        BY <3>1 DEF Delivering
      <3>3. ~Unrecorded(q, n)
        BY <2>1 DEF Unrecorded
      <3> QED
        BY <3>2, <3>3
    <2>2. CASE q # p
      BY <1>1, <2>2 DEF Delivering, Unrecorded
    <2> QED
      BY <2>1, <2>2
  <1> QED
    BY <1>2, <1>3

\* A change of a row that touches neither its existence nor sent_at.
LEMMA OtherColumns ==
    ASSUME OutboxInv, NEW n \in Notices, NEW r \in Row, row' = [row EXCEPT ![n] = r],
           r.made = row[n].made, r.sent = row[n].sent
    PROVE  /\ row' \in [Notices -> Row]
           /\ \A m \in Notices : row'[m].sent = row[m].sent /\ row'[m].made = row[m].made
  BY DEF OutboxInv, OutboxTypes

\* Minutes pass for a row.
LEMMA GetOldKeepsOutboxInv ==
    ASSUME OutboxInv, NEW n \in Notices, GetOld(n)
    PROVE  OutboxInv'
  <1> DEFINE r == [row[n] EXCEPT !.queued = "old"]
  <1>1. row[n] \in Row
    BY DEF OutboxInv, OutboxTypes
  <1>2. r \in Row /\ r.made = row[n].made /\ r.sent = row[n].sent
    BY <1>1 DEF Row
  <1>3. row' = [row EXCEPT ![n] = r]
    BY DEF GetOld
  <1>4. /\ row' \in [Notices -> Row]
        /\ \A m \in Notices : row'[m].sent = row[m].sent /\ row'[m].made = row[m].made
    BY <1>2, <1>3, OtherColumns
  <1>5. UNCHANGED <<queue, copies, orphans, job>>
    BY DEF GetOld
  <1>6. OutboxTypes'
    BY <1>4, <1>5 DEF OutboxInv, OutboxTypes
  <1>7. \A m \in Notices, p \in Workers :
           (Delivering(p, m)' => Delivering(p, m)) /\ (Unrecorded(p, m) => Unrecorded(p, m)')
    BY <1>5 DEF Delivering, Unrecorded
  <1> QED
    BY <1>4, <1>5, <1>6, <1>7, FrameKeepsOutboxInv

\* A delivery begins: no other one works on the row.
LEMMA BeginKeepsOutboxInv ==
    ASSUME OutboxInv, NEW p \in Workers, NEW n \in Notices,
           ~Locked(n), queue[n] > 0, ~row[n].sent, job[p] = NoJob,
           queue' = [queue EXCEPT ![n] = @ - 1],
           job' = [job EXCEPT ![p] = [pc |-> "sending", notice |-> n]],
           UNCHANGED <<row, copies, orphans>>
    PROVE  OutboxInv'
  <1>1. OutboxTypes /\ row[n].made
    BY DEF OutboxInv, OutboxTypes, MadeFirst
  <1>2. OutboxTypes'
    BY <1>1 DEF OutboxTypes, Job
  <1>3. /\ Delivering(p, n)'
        /\ \A m \in Notices : Delivering(p, m)' => m = n
        /\ \A m \in Notices, q \in Workers : q # p => (Delivering(q, m)' <=> Delivering(q, m))
        /\ \A q \in Workers : ~Delivering(q, n)
    BY <1>1 DEF OutboxTypes, Delivering, Locked
  <1>4. \A m \in Notices, q \in Workers : Unrecorded(q, m) => Unrecorded(q, m)'
    BY <1>1 DEF OutboxTypes, Unrecorded, NoJob
  <1>5. MadeFirst'
    <2> SUFFICES ASSUME NEW m \in Notices, (row[m].sent \/ queue[m] > 0 \/ Locked(m))'
                 PROVE  row[m].made
      BY DEF MadeFirst
    <2>1. Locked(m)' => Locked(m) \/ m = n
      BY <1>3 DEF Locked, Delivering
    <2> QED
      BY <1>1, <2>1 DEF OutboxInv, MadeFirst, OutboxTypes
  <1>6. OneDelivery'
    <2> SUFFICES ASSUME NEW m \in Notices, NEW q \in Workers, NEW x \in Workers,
                        Delivering(q, m)', Delivering(x, m)'
                 PROVE  q = x
      BY DEF OneDelivery
    <2>1. CASE q = p \/ x = p
      BY <1>3, <2>1
    <2>2. CASE q # p /\ x # p
      BY <1>3, <2>2 DEF OutboxInv, OneDelivery
    <2> QED
      BY <2>1, <2>2
  <1>7. DeliveryIsUnsent'
    <2> SUFFICES ASSUME NEW m \in Notices, NEW q \in Workers, Delivering(q, m)'
                 PROVE  ~row[m].sent
      BY DEF DeliveryIsUnsent
    <2> QED
      BY <1>3 DEF OutboxInv, DeliveryIsUnsent
  <1>8. MessagesAccounted'
    <2> SUFFICES ASSUME NEW m \in Notices, ~(copies[m] <= orphans[m])
                 PROVE  /\ copies[m] = orphans[m] + 1
                        /\ row[m].sent \/ \E q \in Workers : Unrecorded(q, m)'
      BY DEF MessagesAccounted
    <2> QED
      BY <1>4 DEF OutboxInv, MessagesAccounted
  <1> QED
    BY <1>2, <1>5, <1>6, <1>7, <1>8 DEF OutboxInv

\* A delivery starts with an unlocked row.
LEMMA TakeKeepsOutboxInv ==
    ASSUME OutboxInv, NEW p \in Workers, NEW n \in Notices, Take(p, n)
    PROVE  OutboxInv'
  <1>1. /\ ~Locked(n) /\ queue[n] > 0 /\ job[p] = NoJob
        /\ queue' = [queue EXCEPT ![n] = @ - 1]
        /\ UNCHANGED <<copies, orphans>>
    BY DEF Take, Idle
  <1>2. OutboxTypes
    BY DEF OutboxInv
  <1>3. queue' \in [Notices -> Nat] /\ \A m \in Notices : queue'[m] > 0 => queue[m] > 0
    BY <1>1, <1>2 DEF OutboxTypes
  <1>4. CASE UNCHANGED <<row, job>>
    <2>1. OutboxTypes'
      BY <1>1, <1>2, <1>3, <1>4 DEF OutboxTypes
    <2>2. \A m \in Notices, q \in Workers :
             (Delivering(q, m)' => Delivering(q, m)) /\ (Unrecorded(q, m) => Unrecorded(q, m)')
      BY <1>4 DEF Delivering, Unrecorded
    <2> QED
      BY <1>1, <1>3, <1>4, <2>1, <2>2, FrameKeepsOutboxInv
  <1>5. CASE row' = [row EXCEPT ![n].abandoned = TRUE] /\ UNCHANGED job
    <2> DEFINE r == [row[n] EXCEPT !.abandoned = TRUE]
    <2>1. r \in Row /\ r.made = row[n].made /\ r.sent = row[n].sent
      BY <1>2 DEF OutboxTypes, Row
    <2>2. row' = [row EXCEPT ![n] = r]
      BY <1>5
    <2>3. /\ row' \in [Notices -> Row]
          /\ \A m \in Notices : row'[m].sent = row[m].sent /\ row'[m].made = row[m].made
      BY <2>1, <2>2, OtherColumns
    <2>4. OutboxTypes'
      BY <1>1, <1>2, <1>3, <1>5, <2>3 DEF OutboxTypes
    <2>5. \A m \in Notices, q \in Workers :
             (Delivering(q, m)' => Delivering(q, m)) /\ (Unrecorded(q, m) => Unrecorded(q, m)')
      BY <1>5 DEF Delivering, Unrecorded
    <2> QED
      BY <1>1, <1>3, <2>3, <2>4, <2>5, FrameKeepsOutboxInv
  <1>6. CASE ~row[n].sent /\ Goto(p, "sending", n) /\ UNCHANGED row
    BY <1>1, <1>6, BeginKeepsOutboxInv DEF Goto
  <1> QED
    BY <1>4, <1>5, <1>6 DEF Take

\* Telegram accepts the message of the only delivery at work on the row.
LEMMA AcceptKeepsOutboxInv ==
    ASSUME OutboxInv, NEW p \in Workers, Accept(p)
    PROVE  OutboxInv'
  <1>1. OutboxTypes /\ job[p] \in Job
    BY DEF OutboxInv, OutboxTypes
  <1>2. PICK n \in Notices : job[p] = [pc |-> "sending", notice |-> n]
    BY <1>1, JobKinds DEF Accept
  <1>3. /\ copies' = [copies EXCEPT ![n] = @ + 1]
        /\ job' = [job EXCEPT ![p] = [pc |-> "accepted", notice |-> n]]
        /\ UNCHANGED <<row, queue, orphans>>
    BY <1>2 DEF Accept, Goto
  <1>4. OutboxTypes'
    BY <1>1, <1>2, <1>3 DEF OutboxTypes, Job
  <1>5. \A m \in Notices, q \in Workers : Delivering(q, m)' <=> Delivering(q, m)
    BY <1>1, <1>2, <1>3 DEF OutboxTypes, Delivering
  <1>6. MadeFirst'
    <2>1. \A m \in Notices : Locked(m)' <=> Locked(m)
      BY <1>5 DEF Locked, Delivering
    <2> QED
      BY <1>3, <2>1 DEF OutboxInv, MadeFirst
  <1>7. OneDelivery' /\ DeliveryIsUnsent'
    BY <1>3, <1>5 DEF OutboxInv, OneDelivery, DeliveryIsUnsent
  <1>8. Delivering(p, n) /\ ~Unrecorded(p, n) /\ Unrecorded(p, n)'
    <2>1. Delivering(p, n)
      BY <1>2 DEF Delivering
    <2>2. ~Unrecorded(p, n)
      BY <1>2 DEF Unrecorded
    <2>3. Unrecorded(p, n)'
      BY <1>1, <1>3 DEF OutboxTypes, Unrecorded
    <2> QED
      BY <2>1, <2>2, <2>3
  <1>9. copies[n] <= orphans[n]
    <2>1. ~row[n].sent
      BY <1>2, <1>8 DEF OutboxInv, DeliveryIsUnsent
    <2>2. ASSUME NEW q \in Workers, Unrecorded(q, n) PROVE FALSE
      <3>1. Delivering(q, n)
        BY <2>2 DEF Unrecorded, Delivering
      <3>2. q = p
        BY <1>2, <1>8, <3>1 DEF OutboxInv, OneDelivery
      <3> QED
        BY <1>8, <2>2, <3>2
    <2> QED
      BY <1>2, <2>1, <2>2 DEF OutboxInv, MessagesAccounted
  <1>10. MessagesAccounted'
    <2> SUFFICES ASSUME NEW m \in Notices, ~(copies'[m] <= orphans[m])
                 PROVE  /\ copies'[m] = orphans[m] + 1
                        /\ row[m].sent \/ \E q \in Workers : Unrecorded(q, m)'
      BY <1>3 DEF MessagesAccounted
    <2>1. CASE m = n
      <3>1. copies'[n] = copies[n] + 1 /\ copies[n] \in Nat /\ orphans[n] \in Nat
        BY <1>1, <1>2, <1>3 DEF OutboxTypes
      <3>2. copies'[m] = orphans[m] + 1
        BY <1>9, <2>1, <3>1
      <3> QED
        BY <1>8, <2>1, <3>2
    <2>2. CASE m # n
      <3>1. copies'[m] = copies[m]
        BY <1>1, <1>3, <2>2 DEF OutboxTypes
      <3>2. \A q \in Workers : Unrecorded(q, m) => Unrecorded(q, m)'
        BY <1>1, <1>2, <1>3, <2>2 DEF OutboxTypes, Unrecorded
      <3> QED
        BY <3>1, <3>2 DEF OutboxInv, MessagesAccounted
    <2> QED
      BY <2>1, <2>2
  <1> QED
    BY <1>4, <1>6, <1>7, <1>10 DEF OutboxInv

\* The message is recorded, and the delivery was the only one.
LEMMA SaveKeepsOutboxInv ==
    ASSUME OutboxInv, NEW p \in Workers, Save(p)
    PROVE  OutboxInv'
  <1> DEFINE n == job[p].notice
  <1>1. OutboxTypes /\ job[p] \in Job
    BY DEF OutboxInv, OutboxTypes
  <1>2. n \in Notices /\ job[p] = [pc |-> "accepted", notice |-> n]
    BY <1>1, JobKinds DEF Save
  <1>3. /\ row' = [row EXCEPT ![n].sent = TRUE]
        /\ job' = [job EXCEPT ![p] = NoJob]
        /\ UNCHANGED <<queue, copies, orphans>>
    BY DEF Save
  <1> HIDE DEF n
  <1>4. /\ row' \in [Notices -> Row]
        /\ row'[n].sent /\ row'[n].made = row[n].made
        /\ \A m \in Notices : m # n => row'[m] = row[m]
    BY ZenonT(40), <1>1, <1>2, <1>3 DEF OutboxTypes, Row
  <1>5. OutboxTypes'
    BY <1>1, <1>3, <1>4 DEF OutboxTypes, Job
  <1>6. Delivering(p, n) /\ (\A m \in Notices : ~Delivering(p, m)')
    BY <1>1, <1>2, <1>3 DEF OutboxTypes, Delivering, NoJob
  <1>7. \A q \in Workers, m \in Notices :
           q # p => (Delivering(q, m)' <=> Delivering(q, m)) /\ (Unrecorded(q, m)' <=> Unrecorded(q, m))
    BY <1>1, <1>3 DEF OutboxTypes, Delivering, Unrecorded
  <1>8. MadeFirst'
    <2> SUFFICES ASSUME NEW m \in Notices, (row[m].sent \/ queue[m] > 0 \/ Locked(m))'
                 PROVE  row'[m].made
      BY DEF MadeFirst
    <2>1. Locked(m)' => Locked(m)
      BY <1>6, <1>7 DEF Locked, Delivering
    <2>2. Locked(n)
      BY <1>6 DEF Locked, Delivering
    <2> QED
      BY <1>2, <1>3, <1>4, <2>1, <2>2 DEF OutboxInv, MadeFirst
  <1>9. OneDelivery'
    BY <1>6, <1>7 DEF OutboxInv, OneDelivery
  <1>10. DeliveryIsUnsent'
    <2> SUFFICES ASSUME NEW m \in Notices, NEW q \in Workers, Delivering(q, m)'
                 PROVE  ~row'[m].sent
      BY DEF DeliveryIsUnsent
    <2>1. q # p /\ Delivering(q, m)
      BY <1>6, <1>7
    <2>2. m # n
      BY <1>2, <1>6, <2>1 DEF OutboxInv, OneDelivery
    <2> QED
      BY <1>4, <2>1, <2>2 DEF OutboxInv, DeliveryIsUnsent
  <1>11. MessagesAccounted'
    <2> SUFFICES ASSUME NEW m \in Notices, ~(copies[m] <= orphans[m])
                 PROVE  /\ copies[m] = orphans[m] + 1
                        /\ row'[m].sent \/ \E q \in Workers : Unrecorded(q, m)'
      BY <1>3 DEF MessagesAccounted
    <2>1. copies[m] = orphans[m] + 1 /\ (row[m].sent \/ \E q \in Workers : Unrecorded(q, m))
      BY DEF OutboxInv, MessagesAccounted
    <2>2. CASE m = n
      BY <1>4, <2>1, <2>2
    <2>3. CASE m # n
      <3>1. ~Unrecorded(p, m)
        BY <1>2, <2>3 DEF Unrecorded
      <3> QED
        BY <1>4, <1>7, <2>1, <2>3, <3>1
    <2> QED
      BY <2>2, <2>3
  <1> QED
    BY <1>5, <1>8, <1>9, <1>10, <1>11 DEF OutboxInv

\* A rollback ends the delivery; a message it had sent becomes an orphan.
LEMMA FailKeepsOutboxInv ==
    ASSUME OutboxInv, NEW p \in Workers, Fail(p)
    PROVE  OutboxInv'
  <1> DEFINE n == job[p].notice
  <1>1. OutboxTypes /\ job[p] \in Job
    BY DEF OutboxInv, OutboxTypes
  <1>2. /\ n \in Notices /\ Delivering(p, n)
        /\ job[p] \in {[pc |-> "sending", notice |-> n], [pc |-> "accepted", notice |-> n]}
    <2>1. CASE job[p].pc = "sending"
      <3>1. n \in Notices /\ job[p] = [pc |-> "sending", notice |-> n]
        BY <1>1, <2>1, JobKinds
      <3> HIDE DEF n
      <3> QED
        BY <3>1 DEF Delivering
    <2>2. CASE job[p].pc = "accepted"
      <3>1. n \in Notices /\ job[p] = [pc |-> "accepted", notice |-> n]
        BY <1>1, <2>2, JobKinds
      <3> HIDE DEF n
      <3> QED
        BY <3>1 DEF Delivering
    <2> QED
      BY <2>1, <2>2 DEF Fail
  <1>3. /\ job' = [job EXCEPT ![p] = NoJob]
        /\ UNCHANGED <<row, copies>>
        /\ queue' = [queue EXCEPT ![n] = @ + 1] \/ queue' = queue
        /\ orphans' = IF job[p].pc = "accepted" THEN [orphans EXCEPT ![n] = @ + 1] ELSE orphans
    BY DEF Fail, RollBack
  <1> HIDE DEF n
  <1>4. OutboxTypes'
    BY <1>1, <1>2, <1>3 DEF OutboxTypes, Job
  <1>5. \A m \in Notices : ~Delivering(p, m)' /\ ~Unrecorded(p, m)'
    BY <1>1, <1>3 DEF OutboxTypes, Delivering, Unrecorded, NoJob
  <1>6. \A q \in Workers, m \in Notices :
           q # p => (Delivering(q, m)' <=> Delivering(q, m)) /\ (Unrecorded(q, m)' <=> Unrecorded(q, m))
    BY <1>1, <1>3 DEF OutboxTypes, Delivering, Unrecorded
  <1>7. MadeFirst'
    <2> SUFFICES ASSUME NEW m \in Notices, (row[m].sent \/ queue[m] > 0 \/ Locked(m))'
                 PROVE  row[m].made
      BY <1>3 DEF MadeFirst
    <2>1. Locked(m)' => Locked(m)
      BY <1>5, <1>6 DEF Locked, Delivering
    <2>2. row[n].made
      BY <1>2 DEF OutboxInv, MadeFirst, Locked, Delivering
    <2>3. m = n \/ queue'[m] = queue[m]
      BY <1>1, <1>3 DEF OutboxTypes
    <2> QED
      BY <1>3, <2>1, <2>2, <2>3 DEF OutboxInv, MadeFirst
  <1>8. OneDelivery' /\ DeliveryIsUnsent'
    BY <1>3, <1>5, <1>6 DEF OutboxInv, OneDelivery, DeliveryIsUnsent
  <1>9. MessagesAccounted'
    <2> SUFFICES ASSUME NEW m \in Notices, ~(copies[m] <= orphans'[m])
                 PROVE  /\ copies[m] = orphans'[m] + 1
                        /\ row[m].sent \/ \E q \in Workers : Unrecorded(q, m)'
      BY <1>3 DEF MessagesAccounted
    <2>1. orphans'[m] >= orphans[m] /\ orphans[m] \in Nat /\ copies[m] \in Nat
      BY <1>1, <1>2, <1>3 DEF OutboxTypes
    <2>2. copies[m] = orphans[m] + 1 /\ (row[m].sent \/ \E q \in Workers : Unrecorded(q, m))
      <3>1. ~(copies[m] <= orphans[m])
        <4>1. orphans'[m] \in Nat
          BY <1>4 DEF OutboxTypes
        <4> QED
          BY <2>1, <4>1
      <3> QED
        BY <3>1 DEF OutboxInv, MessagesAccounted
    <2>3. orphans'[m] = orphans[m]
      BY <1>4, <2>1, <2>2 DEF OutboxTypes
    <2>4. ~Unrecorded(p, m)
      BY <1>1, <1>2, <1>3, <2>3 DEF OutboxTypes, Unrecorded
    <2> QED
      BY <1>6, <2>2, <2>3, <2>4
  <1> QED
    BY <1>4, <1>7, <1>8, <1>9 DEF OutboxInv

\* Giving up on a recipient ends the delivery of an unsent row.
LEMMA ForbidKeepsOutboxInv ==
    ASSUME OutboxInv, NEW p \in Workers, Forbid(p)
    PROVE  OutboxInv'
  <1>1. OutboxTypes /\ job[p] \in Job
    BY DEF OutboxInv, OutboxTypes
  <1>2. PICK n \in Notices : job[p] = [pc |-> "sending", notice |-> n]
    BY <1>1, JobKinds DEF Forbid
  <1>3. /\ row' = [row EXCEPT ![n].abandoned = TRUE]
        /\ job' = [job EXCEPT ![p] = NoJob]
        /\ UNCHANGED <<queue, copies, orphans>>
    BY <1>2 DEF Forbid
  <1> DEFINE r == [row[n] EXCEPT !.abandoned = TRUE]
  <1>4. r \in Row /\ r.made = row[n].made /\ r.sent = row[n].sent
    BY <1>1 DEF OutboxTypes, Row
  <1>5. row' = [row EXCEPT ![n] = r]
    BY <1>3
  <1>6. /\ row' \in [Notices -> Row]
        /\ \A m \in Notices : row'[m].sent = row[m].sent /\ row'[m].made = row[m].made
    BY <1>4, <1>5, OtherColumns
  <1>7. NoJob \in Job /\ NoJob.pc \notin {"sending", "accepted"} /\ job[p].pc # "accepted"
    BY <1>2 DEF Job, NoJob
  <1>8. /\ job' \in [Workers -> Job]
        /\ \A m \in Notices, q \in Workers :
              (Delivering(q, m)' => Delivering(q, m)) /\ (Unrecorded(q, m) => Unrecorded(q, m)')
    BY <1>3, <1>7, OtherJobs
  <1>9. OutboxTypes'
    BY <1>1, <1>3, <1>6, <1>8 DEF OutboxTypes
  <1> QED
    BY <1>3, <1>6, <1>8, <1>9, FrameKeepsOutboxInv

-----------------------------------------------------------------------------
(* Deletions *)

\* A worker goes on with something else than a delivery; only the lease and
\* the deletion of a row may change.
LEMMA DeletionKeepsOutboxInv ==
    ASSUME OutboxInv, NEW p \in Workers, NEW j \in Job, NEW n \in Notices, NEW r \in Row,
           job' = [job EXCEPT ![p] = j], row' = [row EXCEPT ![n] = r],
           j.pc \notin {"sending", "accepted"}, job[p].pc # "accepted",
           r.made = row[n].made, r.sent = row[n].sent,
           UNCHANGED <<queue, copies, orphans>>
    PROVE  OutboxInv'
  <1>1. /\ row' \in [Notices -> Row]
        /\ \A m \in Notices : row'[m].sent = row[m].sent /\ row'[m].made = row[m].made
    BY OtherColumns
  <1>2. /\ job' \in [Workers -> Job]
        /\ \A m \in Notices, q \in Workers :
              (Delivering(q, m)' => Delivering(q, m)) /\ (Unrecorded(q, m) => Unrecorded(q, m)')
    BY OtherJobs
  <1>3. OutboxTypes'
    BY <1>1, <1>2 DEF OutboxInv, OutboxTypes
  <1> QED
    BY <1>1, <1>2, <1>3, FrameKeepsOutboxInv

\* The deletion of a join notice is leased.
LEMMA ClaimKeepsOutboxInv ==
    ASSUME OutboxInv, NEW p \in Workers, NEW n \in Notices, Claim(p, n)
    PROVE  OutboxInv'
  <1> DEFINE j == [pc |-> "deleting", notice |-> n]
             r == [row[n] EXCEPT !.lease = "held"]
  <1>1. OutboxTypes
    BY DEF OutboxInv
  <1>2. /\ job' = [job EXCEPT ![p] = j] /\ job[p] = NoJob
        /\ UNCHANGED <<queue, copies, orphans>>
    BY DEF Claim, Goto, Idle
  <1>3. row' = [row EXCEPT ![n] = r]
    BY DEF Claim
  <1>4. r \in Row /\ r.made = row[n].made /\ r.sent = row[n].sent
    BY <1>1 DEF OutboxTypes, Row
  <1>5. j \in Job /\ j.pc \notin {"sending", "accepted"} /\ job[p].pc # "accepted"
    BY <1>2 DEF Job, NoJob
  <1> HIDE DEF j, r
  <1> QED
    BY <1>2, <1>3, <1>4, <1>5, DeletionKeepsOutboxInv

\* A lease lapses.
LEMMA LapseClaimKeepsOutboxInv ==
    ASSUME OutboxInv, NEW n \in Notices, LapseClaim(n)
    PROVE  OutboxInv'
  <1> DEFINE r == [row[n] EXCEPT !.lease = "lapsed"]
  <1>1. OutboxTypes
    BY DEF OutboxInv
  <1>2. UNCHANGED <<queue, copies, orphans, job>>
    BY DEF LapseClaim
  <1>3. row' = [row EXCEPT ![n] = r]
    BY DEF LapseClaim
  <1>4. r \in Row /\ r.made = row[n].made /\ r.sent = row[n].sent
    BY <1>1 DEF OutboxTypes, Row
  <1>5. /\ row' \in [Notices -> Row]
        /\ \A m \in Notices : row'[m].sent = row[m].sent /\ row'[m].made = row[m].made
    BY <1>3, <1>4, OtherColumns
  <1>6. OutboxTypes'
    BY <1>1, <1>2, <1>5 DEF OutboxTypes
  <1>7. \A m \in Notices, p \in Workers :
           (Delivering(p, m)' => Delivering(p, m)) /\ (Unrecorded(p, m) => Unrecorded(p, m)')
    BY <1>2 DEF Delivering, Unrecorded
  <1> QED
    BY <1>2, <1>5, <1>6, <1>7, FrameKeepsOutboxInv

\* Telegram is asked to delete the message.
LEMMA CallDeleteKeepsOutboxInv ==
    ASSUME OutboxInv, NEW p \in Workers, CallDelete(p)
    PROVE  OutboxInv'
  <1>1. OutboxTypes /\ job[p] \in Job /\ job[p].pc = "deleting"
    BY DEF OutboxInv, OutboxTypes, CallDelete
  <1>2. PICK n \in Notices : job[p].notice = n
    BY <1>1, JobKinds
  <1>3. PICK outcome \in {"done", "failed", "no"} :
           job' = [job EXCEPT ![p] = [pc |-> "deleted", notice |-> n, outcome |-> outcome]]
    BY <1>2 DEF CallDelete, Deleted
  <1>4. UNCHANGED <<row, queue, copies, orphans>>
    BY DEF CallDelete
  <1> DEFINE j == [pc |-> "deleted", notice |-> n, outcome |-> outcome]
  <1>5. j \in Job /\ j.pc \notin {"sending", "accepted"} /\ job[p].pc # "accepted"
    BY <1>1 DEF Job
  <1>6. row[n] \in Row /\ row' = [row EXCEPT ![n] = row[n]]
    BY <1>1, <1>4 DEF OutboxTypes
  <1>7. job' = [job EXCEPT ![p] = j]
    BY <1>3
  <1> HIDE DEF j
  <1> QED
    BY <1>4, <1>5, <1>6, <1>7, DeletionKeepsOutboxInv

\* What Telegram answered is recorded.
LEMMA RecordDeletionKeepsOutboxInv ==
    ASSUME OutboxInv, NEW p \in Workers, RecordDeletion(p)
    PROVE  OutboxInv'
  <1>1. OutboxTypes /\ job[p] \in Job /\ job[p].pc = "deleted"
    BY DEF OutboxInv, OutboxTypes, RecordDeletion
  <1>2. PICK n \in Notices : job[p].notice = n
    BY <1>1, JobKinds
  <1> DEFINE told == IF job[p].outcome = "no" THEN row[n].deletion ELSE job[p].outcome
             r == [[row[n] EXCEPT !.lease = "never"] EXCEPT !.deletion = told]
  <1>3. row[n] \in Row
    BY <1>1 DEF OutboxTypes
  <1>4. told \in {"no", "done", "failed"}
    BY <1>1, <1>3, JobKinds DEF Row
  <1>5. row' = [row EXCEPT ![n] = r]
    BY <1>1, <1>2, <1>3 DEF RecordDeletion, OutboxTypes, Row
  <1>6. r \in Row /\ r.made = row[n].made /\ r.sent = row[n].sent
    <2> HIDE DEF told
    <2> QED
      BY <1>3, <1>4 DEF Row
  <1>7. job' = [job EXCEPT ![p] = NoJob] /\ UNCHANGED <<queue, copies, orphans>>
    BY DEF RecordDeletion
  <1>8. NoJob \in Job /\ NoJob.pc \notin {"sending", "accepted"} /\ job[p].pc # "accepted"
    BY <1>1 DEF Job, NoJob
  <1> HIDE DEF r
  <1> QED
    BY <1>5, <1>6, <1>7, <1>8, DeletionKeepsOutboxInv

\* Trouble ends a deletion before its outcome is recorded.
LEMMA AbandonDeletionKeepsOutboxInv ==
    ASSUME OutboxInv, NEW p \in Workers, AbandonDeletion(p)
    PROVE  OutboxInv'
  <1>1. /\ job' = [job EXCEPT ![p] = NoJob] /\ job[p].pc # "accepted"
        /\ UNCHANGED <<row, queue, copies, orphans>>
    BY DEF AbandonDeletion
  <1>2. NoJob \in Job /\ NoJob.pc \notin {"sending", "accepted"}
    BY DEF Job, NoJob
  <1>3. /\ job' \in [Workers -> Job]
        /\ \A m \in Notices, q \in Workers :
              (Delivering(q, m)' => Delivering(q, m)) /\ (Unrecorded(q, m) => Unrecorded(q, m)')
    BY <1>1, <1>2, OtherJobs
  <1>4. OutboxTypes'
    BY <1>1, <1>3 DEF OutboxInv, OutboxTypes
  <1> QED
    BY <1>1, <1>3, <1>4, FrameKeepsOutboxInv

-----------------------------------------------------------------------------
\* The invariant is inductive.
LEMMA StepKeepsOutboxInv == OutboxInv /\ [Next]_vars => OutboxInv'
  <1> SUFFICES ASSUME OutboxInv, [Next]_vars PROVE OutboxInv'
    OBVIOUS
  <1>1. ASSUME NEW p \in Workers, Work(p) PROVE OutboxInv'
    <2>1. CASE RunSync(p)
      BY <2>1, UntouchedKeepsOutboxInv DEF RunSync, outbox
    <2> QED
      BY <1>1, <2>1, AcceptKeepsOutboxInv, SaveKeepsOutboxInv, CallDeleteKeepsOutboxInv,
         RecordDeletionKeepsOutboxInv DEF Work
  <1>2. ASSUME NEW p \in Workers, Forbid(p) \/ Fail(p) \/ AbandonDeletion(p)
        PROVE  OutboxInv'
    BY <1>2, ForbidKeepsOutboxInv, FailKeepsOutboxInv, AbandonDeletionKeepsOutboxInv
  <1>3. ASSUME NEW p \in Workers, StartSync(p) PROVE OutboxInv'
    BY <1>3, UntouchedKeepsOutboxInv DEF StartSync, outbox
  <1>4. ASSUME NEW p \in Workers, NEW n \in Staged, Take(p, n) \/ Claim(p, n)
        PROVE  OutboxInv'
    BY <1>4, TakeKeepsOutboxInv, ClaimKeepsOutboxInv DEF Staged
  <1>5. ASSUME NEW n \in Staged, QueueOnce(n) \/ Recover(n) \/ GetOld(n) \/ LapseClaim(n)
        PROVE  OutboxInv'
    BY <1>5, QueueOnceKeepsOutboxInv, RecoverKeepsOutboxInv, GetOldKeepsOutboxInv,
       LapseClaimKeepsOutboxInv DEF Staged
  <1>6. ASSUME NEW n \in Staged, Ripen(n) \/ ChangeMind(n) PROVE OutboxInv'
    BY <1>6, UntouchedKeepsOutboxInv DEF Ripen, ChangeMind, outbox
  <1>7. CASE Invite \/ Live \/ Interfere
    BY <1>7, UntouchedKeepsOutboxInv DEF Invite, Live, Interfere, outbox
  <1>8. CASE UNCHANGED vars
    BY <1>8, UntouchedKeepsOutboxInv DEF vars, outbox
  <1> QED
    BY <1>1, <1>2, <1>3, <1>4, <1>5, <1>6, <1>7, <1>8 DEF Next

\* The inductive invariant of the outbox: rows exist before anything happens
\* to them, one delivery works on a row, on an unsent one, and every message
\* Telegram accepted is recorded, orphaned or about to be recorded.
THEOREM OutboxInvariant == Spec => []OutboxInv
  <1>1. Init => OutboxInv
    BY InitEstablishesOutboxInv
  <1>2. OutboxInv /\ [Next]_vars => OutboxInv'
    BY StepKeepsOutboxInv
  <1> QED
    BY <1>1, <1>2, PTL DEF Spec

\* _queue_once, the beats, retries and redeliveries of any number of workers
\* send a notice once, and once more for each record that was lost.
THEOREM NoticesAreSentOnce == Spec => []SentOnce
  BY OutboxInvariant, AccountingBoundsMessages, PTL

-----------------------------------------------------------------------------
(* First touch *)

Arrived(v) == visit[v].pc = "arrived"

Registering(v) == Arrived(v) /\ visit[v].created

\* Who is on the way is a user, and so is who invited him.
VisitorsKnown ==
    /\ \A v \in Visits : Arrived(v) => {visit[v].user, visit[v].link} \subseteq member
    /\ \A u \in Users : \A i \in DOMAIN clicks[u] : {u, clicks[u][i].link} \subseteq member

\* One visit sees the user as new, and no click says so before it is recorded.
OneRegistration ==
    \A v \in Visits : Registering(v) =>
        /\ visit[v].user \notin Founders
        /\ \A w \in Visits : Registering(w) /\ visit[w].user = visit[v].user => w = v
        /\ \A i \in DOMAIN clicks[visit[v].user] : ~clicks[visit[v].user][i].registration

\* The inductive invariant of FirstTouch.
FirstTouchInv ==
    InvitationsTypeOK /\ Founders \subseteq member
        /\ VisitorsKnown /\ OneRegistration /\ FirstTouch

\* What else is not of the outbox.
RestTypes ==
    /\ UsageTypeOK
    /\ scene \in Scenes
    /\ chat \in [Notices -> {"none", "there", "gone"}]
    /\ ripe \in [Notices -> BOOLEAN]
    /\ willing \in [Notices -> BOOLEAN]
    /\ standing \in [Notices -> BOOLEAN]
    /\ troubles \in Nat

\* Nobody has visited at first.
LEMMA InitTouches == Init => FirstTouchInv
BY InvitationsAssumption
   DEF Init, InvitationsInit, FirstTouchInv, InvitationsTypeOK, VisitorsKnown, OneRegistration,
       FirstTouch, Registering, Arrived, Visit, Click

\* Only the handler that creates a user sees a new one.
LEMMA ArriveTouches ==
    ASSUME FirstTouchInv, NEW v \in Visits, NEW u \in Users, NEW r \in Users, Arrive(v, u, r)
    PROVE  FirstTouchInv'
<1> DEFINE new == [pc |-> "arrived", user |-> u, link |-> r, created |-> u \notin member]
<1>1. /\ visit' = [visit EXCEPT ![v] = new] /\ member' = member \cup {u}
      /\ clicks' = clicks /\ referrer' = referrer /\ r \in member
  BY DEF Arrive
<1>2. /\ new \in Visit /\ new.pc = "arrived" /\ new.user = u /\ new.link = r
      /\ new.created = (u \notin member)
  BY DEF Visit
<1> HIDE DEF new
<1>3. InvitationsTypeOK'
  BY <1>1, <1>2 DEF FirstTouchInv, InvitationsTypeOK
<1>4. visit'[v] = new /\ \A w \in Visits \ {v} : visit'[w] = visit[w]
  BY <1>1 DEF FirstTouchInv, InvitationsTypeOK
<1>5. VisitorsKnown'
  BY <1>1, <1>2, <1>4 DEF FirstTouchInv, VisitorsKnown, Arrived
<1>6. OneRegistration'
  <2>1. ASSUME NEW w \in Visits, w # v, Registering(w)'
        PROVE  /\ Registering(w) /\ visit'[w].user = visit[w].user /\ visit[w].user \in member
               /\ visit[w].user \in Users
    BY <2>1, <1>4 DEF FirstTouchInv, VisitorsKnown, Registering, Arrived, InvitationsTypeOK
  <2>2. Registering(v)' => /\ u \notin member /\ u \notin Founders /\ visit'[v].user = u
                           /\ DOMAIN clicks[u] = {}
    BY <1>2, <1>4 DEF FirstTouchInv, VisitorsKnown, Registering, Arrived
  <2>3. ASSUME NEW w \in Visits, Registering(w)'
        PROVE  /\ visit'[w].user \notin Founders
               /\ \A i \in DOMAIN clicks'[visit'[w].user] :
                     ~clicks'[visit'[w].user][i].registration
    BY <2>1, <2>2, <2>3, <1>1 DEF FirstTouchInv, OneRegistration
  <2>4. ASSUME NEW w \in Visits, NEW x \in Visits, Registering(w)', Registering(x)',
               visit'[x].user = visit'[w].user
        PROVE  x = w
    BY <2>1, <2>2, <2>4 DEF FirstTouchInv, OneRegistration
  <2> QED
    BY <2>3, <2>4 DEF OneRegistration
<1>7. FirstTouch'
  BY <1>1 DEF FirstTouchInv, FirstTouch
<1>8. (Founders \subseteq member)'
  BY <1>1 DEF FirstTouchInv
<1> QED
  BY <1>3, <1>5, <1>6, <1>7, <1>8 DEF FirstTouchInv

\* A visit that ends without a record.
LEMMA FumbleTouches ==
    ASSUME FirstTouchInv, NEW v \in Visits, Fumble(v)
    PROVE  FirstTouchInv'
<1>1. /\ visit' = [visit EXCEPT ![v] = [pc |-> "done"]] /\ member' = member
      /\ clicks' = clicks /\ referrer' = referrer
  BY DEF Fumble, Leave
<1>2. InvitationsTypeOK'
  BY <1>1 DEF FirstTouchInv, InvitationsTypeOK, Visit
<1>3. visit'[v].pc = "done" /\ \A w \in Visits \ {v} : visit'[w] = visit[w]
  BY <1>1 DEF FirstTouchInv, InvitationsTypeOK
<1>4. \A w \in Visits : Arrived(w)' => w # v /\ visit'[w] = visit[w]
  BY <1>3 DEF Arrived
<1>5. VisitorsKnown' /\ FirstTouch' /\ (Founders \subseteq member)'
  BY <1>1, <1>4 DEF FirstTouchInv, VisitorsKnown, FirstTouch, Arrived
<1>6. OneRegistration'
  BY <1>1, <1>4 DEF FirstTouchInv, OneRegistration, Registering, Arrived
<1> QED
  BY <1>2, <1>5, <1>6 DEF FirstTouchInv

\* A code is typed by users about other users.
LEMMA TypeCodeTouches ==
    ASSUME FirstTouchInv, NEW u \in Users, NEW r \in Users, TypeCode(u, r)
    PROVE  FirstTouchInv'
<1>1. /\ referrer' = [referrer EXCEPT ![u] = r] /\ member' = member
      /\ clicks' = clicks /\ visit' = visit /\ {u, r} \subseteq member /\ u # r
  BY DEF TypeCode
<1>2. InvitationsTypeOK' /\ VisitorsKnown' /\ OneRegistration'
  BY <1>1 DEF FirstTouchInv, InvitationsTypeOK, VisitorsKnown, OneRegistration, Registering,
     Arrived
<1>3. FirstTouch'
  BY <1>1 DEF FirstTouchInv, FirstTouch, InvitationsTypeOK
<1> QED
  BY <1>1, <1>2, <1>3 DEF FirstTouchInv

\* A visit is recorded by one row for a link, the user's first row if he is new.
LEMMA TrackedRows ==
    ASSUME NEW old \in Seq(Click), NEW row1 \in Click, NEW new,
           new = old \/ (new = Append(old, row1) /\ \A i \in DOMAIN old : old[i].link # row1.link)
    PROVE  /\ new \in Seq(Click)
           /\ \A i \in DOMAIN new : \/ i \in DOMAIN old /\ new[i] = old[i]
                                    \/ /\ i \notin DOMAIN old /\ new[i] = row1
                                       /\ \A j \in DOMAIN new \ {i} : j \in DOMAIN old
                                       /\ \A j \in DOMAIN old : old[j].link # row1.link
OBVIOUS

\* The recorded visit registers its user for the first time, or not at all.
LEMMA RegisterTouches ==
    ASSUME FirstTouchInv, NEW v \in Visits, Register(v)
    PROVE  FirstTouchInv'
<1> DEFINE u == visit[v].user
           new == [link |-> visit[v].link, registration |-> visit[v].created]
           rows == Tracked(u, visit[v].link, visit[v].created)
           old == clicks[u]
<1>1. /\ Arrived(v) /\ u \in Users /\ u = visit[v].user /\ old = clicks[u]
      /\ new \in Click /\ new.link = visit[v].link /\ {u, new.link} \subseteq member
      /\ new.registration => Registering(v)
  BY DEF Register, FirstTouchInv, InvitationsTypeOK, Visit, Click, Arrived, Registering,
     VisitorsKnown
<1>2. old \in Seq(Click)
  BY <1>1 DEF FirstTouchInv, InvitationsTypeOK
<1>3. \/ rows = old
      \/ rows = Append(old, new) /\ \A i \in DOMAIN old : old[i].link # new.link
  BY DEF Tracked
<1>4. /\ visit' = [visit EXCEPT ![v] = [pc |-> "done"]] /\ member' = member
      /\ \/ clicks' = clicks /\ referrer' = referrer
         \/ /\ u # new.link /\ clicks' = [clicks EXCEPT ![u] = rows]
            /\ referrer' \in {referrer, [referrer EXCEPT ![u] = new.link]}
  BY DEF Register, Leave
<1> HIDE DEF u, new, rows, old
<1>5. /\ rows \in Seq(Click)
      /\ \A i \in DOMAIN rows : \/ i \in DOMAIN old /\ rows[i] = old[i]
                                \/ /\ i \notin DOMAIN old /\ rows[i] = new
                                   /\ \A j \in DOMAIN rows \ {i} : j \in DOMAIN old
                                   /\ \A j \in DOMAIN old : old[j].link # new.link
  BY <1>1, <1>2, <1>3, TrackedRows
<1>6. /\ clicks' \in [Users -> Seq(Click)]
      /\ \A x \in Users : clicks'[x] = clicks[x] \/ (x = u /\ clicks'[x] = rows)
  <2> DEFINE S == Seq(Click)
  <2>1. clicks \in [Users -> S] /\ rows \in S
    BY <1>5 DEF FirstTouchInv, InvitationsTypeOK
  <2>2. clicks' = clicks \/ clicks' = [clicks EXCEPT ![u] = rows]
    BY <1>4
  <2> HIDE DEF S
  <2>3. /\ clicks' \in [Users -> S]
        /\ \A x \in Users : clicks'[x] = clicks[x] \/ (x = u /\ clicks'[x] = rows)
    BY <2>1, <2>2, <1>1
  <2> QED
    BY <2>3 DEF S
<1>7. /\ referrer' \in [Users -> Users \cup {Nobody}]
      /\ \A x \in Users : \/ referrer'[x] = referrer[x]
                          \/ x = u /\ referrer'[x] = new.link /\ u # new.link
  BY <1>1, <1>4 DEF FirstTouchInv, InvitationsTypeOK, Click
<1>8. visit' \in [Visits -> Visit] /\ \A w \in Visits : Arrived(w)' => w # v /\ visit'[w] = visit[w]
  BY <1>4 DEF FirstTouchInv, InvitationsTypeOK, Visit, Arrived
<1>9. InvitationsTypeOK'
  BY <1>4, <1>6, <1>7, <1>8 DEF FirstTouchInv, InvitationsTypeOK
<1>10. VisitorsKnown'
  BY <1>1, <1>4, <1>5, <1>6, <1>8 DEF FirstTouchInv, VisitorsKnown, Arrived
<1>11. new.registration =>
          /\ u \notin Founders
          /\ \A i \in DOMAIN clicks[u] : ~clicks[u][i].registration
          /\ \A w \in Visits : Registering(w) /\ visit[w].user = u => w = v
  BY <1>1 DEF FirstTouchInv, OneRegistration
<1>12. OneRegistration'
  <2>1. ASSUME NEW w \in Visits, Registering(w)'
        PROVE  w # v /\ Registering(w) /\ visit'[w] = visit[w] /\ visit[w].user \in Users
    BY <2>1, <1>8 DEF Registering, Arrived, FirstTouchInv, InvitationsTypeOK, Visit
  <2>2. ASSUME NEW w \in Visits, Registering(w)', NEW i \in DOMAIN clicks'[visit'[w].user],
               clicks'[visit'[w].user][i].registration
        PROVE  FALSE
    <3>1. \A j \in DOMAIN clicks[visit[w].user] : ~clicks[visit[w].user][j].registration
      BY <2>1, <2>2 DEF FirstTouchInv, OneRegistration
    <3>2. visit[w].user = u /\ clicks'[u] = rows
      BY <2>1, <2>2, <3>1, <1>6
    <3>3. new.registration
      BY <2>1, <2>2, <3>1, <3>2, <1>1, <1>5
    <3> QED
      BY <2>1, <2>2, <3>2, <3>3, <1>11
  <2>3. ASSUME NEW w \in Visits, Registering(w)'
        PROVE  /\ visit'[w].user \notin Founders
               /\ \A x \in Visits : Registering(x)' /\ visit'[x].user = visit'[w].user => x = w
    BY <2>1, <2>3 DEF FirstTouchInv, OneRegistration
  <2> QED
    BY <2>2, <2>3 DEF OneRegistration
<1>13. FirstTouch'
  <2>1. ASSUME NEW x \in Users, clicks'[x] = clicks[x]
        PROVE  /\ \A i, j \in DOMAIN clicks'[x] :
                     \/ clicks'[x][i].link = clicks'[x][j].link
                     \/ clicks'[x][i].registration /\ clicks'[x][j].registration
                     => i = j
               /\ x \in Founders => \A i \in DOMAIN clicks'[x] : ~clicks'[x][i].registration
    BY <2>1 DEF FirstTouchInv, FirstTouch
  <2>2. ASSUME clicks'[u] = rows
        PROVE  /\ \A i, j \in DOMAIN clicks'[u] :
                     \/ clicks'[u][i].link = clicks'[u][j].link
                     \/ clicks'[u][i].registration /\ clicks'[u][j].registration
                     => i = j
               /\ u \in Founders => \A i \in DOMAIN clicks'[u] : ~clicks'[u][i].registration
    <3>1. ASSUME NEW i \in DOMAIN rows, NEW j \in DOMAIN rows,
                 \/ rows[i].link = rows[j].link
                 \/ rows[i].registration /\ rows[j].registration
          PROVE  i = j
      BY <3>1, <1>1, <1>5, <1>11 DEF FirstTouchInv, FirstTouch
    <3>2. u \in Founders => \A i \in DOMAIN rows : ~rows[i].registration
      BY <1>1, <1>5, <1>11 DEF FirstTouchInv, FirstTouch
    <3> QED
      BY <2>2, <3>1, <3>2
  <2>3. ASSUME NEW x \in Users, referrer'[x] # Nobody
        PROVE  {x, referrer'[x]} \subseteq member' /\ referrer'[x] # x
    BY <2>3, <1>1, <1>4, <1>7 DEF FirstTouchInv, FirstTouch
  <2>4. \A x \in Users : clicks'[x] = clicks[x] \/ (x = u /\ clicks'[u] = rows)
    BY <1>6
  <2> QED
    BY <2>1, <2>2, <2>3, <2>4 DEF FirstTouch
<1> QED
  BY <1>4, <1>9, <1>10, <1>12, <1>13 DEF FirstTouchInv

\* The outbox and the account know nothing of the visits.
LEMMA VisitsApart == [Next]_vars => Invite \/ UNCHANGED invitations
<1>1. ASSUME NEW p \in Workers, NEW n \in Staged,
             \/ Take(p, n) \/ Claim(p, n) \/ QueueOnce(n) \/ Recover(n) \/ GetOld(n) \/ Ripen(n)
             \/ LapseClaim(n) \/ ChangeMind(n)
      PROVE  UNCHANGED invitations
  BY <1>1 DEF Take, Claim, QueueOnce, Recover, GetOld, Ripen, LapseClaim, ChangeMind
<1>2. ASSUME NEW n \in Staged,
             \/ QueueOnce(n) \/ Recover(n) \/ GetOld(n) \/ Ripen(n)
             \/ LapseClaim(n) \/ ChangeMind(n)
      PROVE  UNCHANGED invitations
  BY <1>2 DEF QueueOnce, Recover, GetOld, Ripen, LapseClaim, ChangeMind
<1>3. ASSUME NEW p \in Workers,
             \/ Work(p) \/ Forbid(p) \/ Fail(p) \/ AbandonDeletion(p) \/ StartSync(p)
      PROVE  UNCHANGED invitations
  BY <1>3 DEF Work, Accept, Save, CallDelete, RecordDeletion, RunSync, Forbid, Fail,
              AbandonDeletion, StartSync
<1>4. Live \/ Interfere \/ UNCHANGED vars => UNCHANGED invitations
  BY DEF Live, Interfere, vars
<1> QED
  BY <1>1, <1>2, <1>3, <1>4 DEF Next

\* The inductive invariant of first touch.
LEMMA FirstTouchInvariant == Spec => []FirstTouchInv
<1>1. FirstTouchInv /\ [Next]_vars => FirstTouchInv'
  <2> SUFFICES ASSUME FirstTouchInv, Invite \/ UNCHANGED invitations PROVE FirstTouchInv'
    BY VisitsApart
  <2>1. CASE Invite
    BY <2>1, ArriveTouches, RegisterTouches, FumbleTouches, TypeCodeTouches DEF Invite
  <2>2. CASE UNCHANGED invitations
    BY <2>2 DEF FirstTouchInv, InvitationsTypeOK, VisitorsKnown, OneRegistration, FirstTouch,
       Registering, Arrived, invitations
  <2> QED
    BY <2>1, <2>2
<1> QED
  BY <1>1, InitTouches, PTL DEF Spec

\* A user is registered through one link at most, and the inviter is a user of the
\* brand and another person, however /start messages overlap
\* (_process_referral_sync, track_referral_click, attribute_referral).
THEOREM FirstTouchHolds == Spec => []FirstTouch
<1>1. FirstTouchInv => FirstTouch
  BY DEF FirstTouchInv
<1> QED
  BY <1>1, FirstTouchInvariant, PTL

\* Rows are only appended.
LEMMA TrackedExtends ==
    ASSUME NEW old \in Seq(Click), NEW r, NEW new, new = old \/ new = Append(old, r)
    PROVE  \A i \in DOMAIN old : i \in DOMAIN new /\ new[i] = old[i]
OBVIOUS

\* A visit keeps the rows of its user and an inviter who is known.
LEMMA RegisterAppends ==
    ASSUME FirstTouchInv, NEW v \in Visits, Register(v), NEW x \in Users
    PROVE  /\ \A i \in DOMAIN clicks[x] : i \in DOMAIN clicks'[x] /\ clicks'[x][i] = clicks[x][i]
           /\ referrer[x] # Nobody => referrer'[x] = referrer[x]
<1> DEFINE u == visit[v].user
           new == [link |-> visit[v].link, registration |-> visit[v].created]
           rows == Tracked(u, visit[v].link, visit[v].created)
           old == clicks[x]
<1>1. old \in Seq(Click) /\ DOMAIN clicks = Users /\ DOMAIN referrer = Users
  BY DEF FirstTouchInv, InvitationsTypeOK
<1>2. /\ clicks' = clicks \/ clicks' = [clicks EXCEPT ![u] = rows]
      /\ \/ referrer' = referrer
         \/ referrer[u] = Nobody /\ referrer' = [referrer EXCEPT ![u] = visit[v].link]
  <2>1. CASE UNCHANGED <<clicks, referrer>>
    BY <2>1
  <2>2. CASE /\ clicks' = [clicks EXCEPT ![u] = rows]
             /\ referrer' = IF rows[1] = [link |-> visit[v].link, registration |-> TRUE]
                               /\ referrer[u] = Nobody
                            THEN [referrer EXCEPT ![u] = visit[v].link] ELSE referrer
    <3> HIDE DEF rows, u
    <3> QED
      BY <2>2
  <2> QED
    BY <2>1, <2>2 DEF Register
<1>3. u = x => rows = old \/ rows = Append(old, new)
  BY DEF Tracked
<1> HIDE DEF new, rows, u
<1>4. clicks'[x] = old \/ clicks'[x] = Append(old, new)
  BY <1>1, <1>2, <1>3
<1>5. referrer[x] # Nobody => referrer'[x] = referrer[x]
  BY <1>1, <1>2
<1> HIDE DEF old
<1>6. \A i \in DOMAIN old : i \in DOMAIN clicks'[x] /\ clicks'[x][i] = old[i]
  BY <1>1, <1>4, TrackedExtends
<1> QED
  BY <1>5, <1>6 DEF old

\* A user's first click and inviter are never rewritten, whatever is visited or typed
\* later (_process_referral_sync: "The recorded first touch is immutable").
THEOREM FirstTouchStays == Spec => FirstTouchIsFinal
<1>1. ASSUME FirstTouchInv, [Next]_vars, NEW x \in Users
      PROVE  /\ \A i \in DOMAIN clicks[x] :
                   i \in DOMAIN clicks'[x] /\ clicks'[x][i] = clicks[x][i]
             /\ referrer[x] # Nobody => referrer'[x] = referrer[x]
  <2>1. CASE UNCHANGED <<clicks, referrer>>
    BY <2>1
  <2>2. ASSUME NEW v \in Visits, Register(v)
        PROVE  /\ \A i \in DOMAIN clicks[x] :
                     i \in DOMAIN clicks'[x] /\ clicks'[x][i] = clicks[x][i]
               /\ referrer[x] # Nobody => referrer'[x] = referrer[x]
    BY <1>1, <2>2, RegisterAppends
  <2>3. ASSUME NEW u \in Users, NEW r \in Users, TypeCode(u, r)
        PROVE  clicks' = clicks /\ (referrer[x] # Nobody => referrer'[x] = referrer[x])
    BY <2>3 DEF TypeCode
  <2>4. ASSUME NEW v \in Visits, Fumble(v) \/ \E u, r \in Users : Arrive(v, u, r)
        PROVE  UNCHANGED <<clicks, referrer>>
    BY <2>4 DEF Fumble, Arrive
  <2>5. Invite \/ UNCHANGED invitations
    BY <1>1, VisitsApart
  <2> QED
    BY <2>1, <2>2, <2>3, <2>4, <2>5 DEF Invite, invitations
<1>2. FirstTouchInv /\ [Next]_vars =>
         [\A u \in Users :
             /\ \A i \in DOMAIN clicks[u] :
                   i \in DOMAIN clicks'[u] /\ clicks'[u][i] = clicks[u][i]
             /\ referrer[u] # Nobody => referrer'[u] = referrer[u]]_invitations
  BY <1>1
<1> QED
  BY <1>2, FirstTouchInvariant, PTL DEF Spec, FirstTouchIsFinal

-----------------------------------------------------------------------------
(* Types *)

\* The synchronisation keeps its types.
LEMMA UsageTyped ==
    ASSUME UsageTypeOK,
           \/ Consume \/ Renew \/ GrowOld \/ Cancel
           \/ \E p \in Workers : List(p) \/ CopyAccount(p) \/ CopyStatus(p) \/ AbandonSync(p)
    PROVE  UsageTypeOK'
<1>1. CASE Consume \/ Renew \/ GrowOld \/ Cancel
  <2>1. account' \in Account
    BY <1>1, UsageAssumption DEF UsageTypeOK, Consume, Renew, GrowOld, Cancel, Account
  <2>2. /\ fresh' \in BOOLEAN /\ status' \in Statuses /\ copy' = copy /\ sync' = sync
    BY <1>1 DEF UsageTypeOK, Consume, Renew, GrowOld, Cancel, Statuses
  <2> QED
    BY <2>1, <2>2 DEF UsageTypeOK
<1>2. \A level : StatusAfter(level) \in Statuses
  BY DEF StatusAfter, StatusOf, Statuses, UsageTypeOK
<1>3. ASSUME NEW p \in Workers, sync[p].pc = "listed"
      PROVE  sync[p].saw \in Account
  BY <1>3 DEF UsageTypeOK, Sync, NoSync
<1>4. ASSUME NEW p \in Workers, sync[p].pc = "copied"
      PROVE  sync[p].status \in Statuses
  BY <1>4 DEF UsageTypeOK, Sync, NoSync
<1>5. ASSUME NEW p \in Workers, List(p)
      PROVE  UsageTypeOK'
  BY <1>5 DEF UsageTypeOK, List, Do, Sync
<1>6. ASSUME NEW p \in Workers, CopyAccount(p)
      PROVE  UsageTypeOK'
  <2> DEFINE s == StatusAfter(sync[p].saw.level)
  <2>1. s \in Statuses
    BY <1>2
  <2>2. /\ copy' = sync[p].saw /\ fresh' = TRUE /\ account' = account /\ status' = status
        /\ sync' = [sync EXCEPT ![p] = [pc |-> "copied", status |-> s]]
        /\ sync[p].saw \in Account
    BY <1>6, <1>3 DEF CopyAccount, Do
  <2> HIDE DEF s
  <2> QED
    BY <2>1, <2>2 DEF UsageTypeOK, Sync
<1>7. ASSUME NEW p \in Workers, CopyStatus(p) \/ AbandonSync(p)
      PROVE  UsageTypeOK'
  BY <1>7, <1>4 DEF UsageTypeOK, CopyStatus, AbandonSync, Do, Sync
<1> QED
  BY <1>1, <1>5, <1>6, <1>7

\* Every step of the outbox leaves the synchronisation alone, and the others the outbox.
LEMMA StepTyped ==
    ASSUME OutboxInv, RestTypes, [Next]_vars
    PROVE  RestTypes'
<1> USE DEF RestTypes, Trouble
<1>0. \A p \in Workers : job[p] \in Job
  BY DEF OutboxInv, OutboxTypes
<1>1. ASSUME NEW n \in Staged, QueueOnce(n) \/ Recover(n)
      PROVE  RestTypes'
  BY <1>1 DEF QueueOnce, Recover, Publish, usage, minds, UsageTypeOK
<1>2. ASSUME NEW n \in Staged, GetOld(n) \/ Ripen(n) \/ LapseClaim(n)
      PROVE  RestTypes'
  <2>1. /\ UNCHANGED <<usage, scene, chat, minds, troubles>>
        /\ ripe' = ripe \/ ripe' = [ripe EXCEPT ![n] = TRUE]
    BY <1>2 DEF GetOld, Ripen, LapseClaim
  <2> QED
    BY <2>1 DEF usage, minds, UsageTypeOK
<1>3. ASSUME NEW n \in Staged, ChangeMind(n)
      PROVE  RestTypes'
  <2>1. \E b \in BOOLEAN : /\ willing' \in {willing, [willing EXCEPT ![n] = b]}
                          /\ standing' \in {standing, [standing EXCEPT ![n] = b]}
    <3>1. CASE willing' = [willing EXCEPT ![n] = ~willing[n]] /\ standing' = standing
      <4>1. (~willing[n]) \in BOOLEAN
        OBVIOUS
      <4> QED
        BY <3>1, <4>1
    <3>2. CASE standing' = [standing EXCEPT ![n] = ~standing[n]] /\ willing' = willing
      <4>1. (~standing[n]) \in BOOLEAN
        OBVIOUS
      <4> QED
        BY <3>2, <4>1
    <3>3. CASE standing' = [standing EXCEPT ![n] = FALSE] /\ willing' = willing
      BY <3>3
    <3> QED
      BY <1>3, <3>1, <3>2, <3>3 DEF ChangeMind
  <2>2. /\ willing' \in [Notices -> BOOLEAN]
        /\ standing' \in [Notices -> BOOLEAN]
    BY <2>1
  <2>3. UNCHANGED <<usage, scene, chat, ripe>> /\ troubles' = troubles + 1
    BY <1>3 DEF ChangeMind, outbox
  <2> QED
    BY <2>2, <2>3 DEF usage, UsageTypeOK
<1>4. ASSUME NEW p \in Workers, NEW n \in Staged, Take(p, n) \/ Claim(p, n)
      PROVE  RestTypes'
  BY <1>4 DEF Take, Claim, usage, minds, UsageTypeOK
<1>5. ASSUME NEW p \in Workers, Accept(p) \/ Save(p) \/ RecordDeletion(p) \/ CallDelete(p)
      PROVE  RestTypes'
  BY <1>5 DEF Accept, Save, RecordDeletion, CallDelete, usage, minds, UsageTypeOK
<1>6. ASSUME NEW p \in Workers, Forbid(p) \/ Fail(p) \/ AbandonDeletion(p)
      PROVE  RestTypes'
  BY <1>6 DEF Forbid, Fail, RollBack, AbandonDeletion, usage, minds, UsageTypeOK
<1>7. ASSUME NEW p \in Workers, RunSync(p) \/ StartSync(p)
      PROVE  RestTypes'
  BY <1>7, UsageTyped DEF RunSync, StartSync, outbox, minds
<1>8. CASE Live \/ Interfere
  BY <1>8, UsageTyped DEF Live, Interfere, outbox, minds
<1>9. CASE Invite
  BY <1>9 DEF Invite, outbox, minds, usage, UsageTypeOK
<1>10. CASE UNCHANGED vars
  BY <1>10 DEF vars, outbox, minds, usage, UsageTypeOK
<1> QED
  BY <1>1, <1>2, <1>3, <1>4, <1>5, <1>6, <1>7, <1>8, <1>9, <1>10 DEF Next, Work

\* Rows, messages, jobs, visits and synchronisations keep their types.
THEOREM NoticesTypes == Spec => []TypeOK
<1>1. Init => RestTypes
  BY UsageAssumption
     DEF Init, RestTypes, UsageInit, UsageTypeOK, Account, Statuses, Sync, NoSync
<1>2. OutboxInv /\ RestTypes /\ [Next]_vars => RestTypes'
  BY StepTyped
<1>3. OutboxInv /\ RestTypes /\ FirstTouchInv => TypeOK
  BY DEF OutboxInv, OutboxTypes, RestTypes, FirstTouchInv, TypeOK
<1> QED
  BY <1>1, <1>2, <1>3, OutboxInvariant, FirstTouchInvariant, PTL DEF Spec
===============================================================================
