-------------------------------- MODULE Notices --------------------------------
(***************************************************************************)
(* The outbox of scheduled messages: the GamificationNotification rows of   *)
(* referrals/tasks.py, with what asks for them (invitations, the low-usage  *)
(* warning, rules, challenge offers, gifts), their delivery by Celery       *)
(* workers, the beat that recovers lost deliveries, and the deletion of     *)
(* join notices ten hours after they were sent.                             *)
(*                                                                          *)
(* A row is queued under its lock and published on commit; the publication  *)
(* may be lost.  A delivery holds the row lock while Telegram answers and   *)
(* saves sent_at afterwards, so a worker that dies in between leaves a      *)
(* message nobody recorded; its task is delivered again (acks_late).  The   *)
(* deletion calls Telegram without the lock, under a lease of five minutes. *)
(***************************************************************************)
EXTENDS Invitations, Usage, FiniteSets

CONSTANTS
    Notices,    \* notices, each with its dedupe key
    Scenes,     \* what the notices are about: functions from notices to topics
    Limit,      \* how many pending rows the recovery beat takes
    MaxTroubles \* bound on lost publications, failed calls, dead workers and
                \* changes of mind

Kinds == {"none", "join", "low", "rule", "offer", "gift"}

ASSUME NoticesAssumption ==
    /\ IsFiniteSet(Notices)
    /\ \A s \in Scenes : DOMAIN s = Notices /\ \A n \in Notices : s[n].kind \in Kinds
    /\ MaxTroubles \in Nat

VARIABLES
    scene,      \* scene[n]: the kind of notice n, "none" if it plays no part; the
                \* referee or the term it is about; and the bound on its delivery
                \* messages at the broker; never changes
    row,        \* row[n]: the GamificationNotification row
    queue,      \* queue[n]: delivery messages at the broker, retries included
    copies,     \* copies[n]: messages Telegram accepted for n
    orphans,    \* orphans[n]: those whose delivery was not recorded
    chat,       \* chat[n]: the recorded message in the recipient's chat
    ripe,       \* ripe[n]: ten hours have passed since sent_at
    willing,    \* willing[n]: the recipient is active and has not opted out
    standing,   \* standing[n]: the rule is active, the challenge still offered
    job,        \* job[p]: the delivery or deletion of worker p
    troubles    \* how many of MaxTroubles happened

outbox == <<row, queue, copies, orphans, chat, ripe, job>>
minds == <<willing, standing>>
vars == <<invitations, usage, scene, outbox, minds, troubles>>

\* queued: delivery_queued_at is absent, within five minutes, or older.  pk:
\* the order in which rows were made.  lease: auto_delete_claimed_at.
Row == [made : BOOLEAN, pk : Nat, queued : {"never", "recent", "old"},
        sent : BOOLEAN, abandoned : BOOLEAN,
        lease : {"never", "held", "lapsed"}, deletion : {"no", "done", "failed"}]

NoRow == [made |-> FALSE, pk |-> 0, queued |-> "never", sent |-> FALSE,
          abandoned |-> FALSE, lease |-> "never", deletion |-> "no"]

NoJob == [pc |-> "idle"]

Job == {NoJob} \cup [pc : {"sending", "accepted", "deleting"}, notice : Notices]
           \cup [pc : {"deleted"}, notice : Notices, outcome : {"done", "failed", "no"}]

Trouble == troubles < MaxTroubles /\ troubles' = troubles + 1

\* The row lock of a delivery, held from its first query to its commit.
Locked(n) == \E p \in Workers : job[p] \in [pc : {"sending", "accepted"}, notice : {n}]

Idle(p) == job[p] = NoJob /\ sync[p] = NoSync

Goto(p, pc, n) == job' = [job EXCEPT ![p] = [pc |-> pc, notice |-> n]]

Kind(n) == scene[n].kind

Staged == {n \in Notices : Kind(n) # "none"}

-----------------------------------------------------------------------------
Init ==
    /\ InvitationsInit
    /\ UsageInit
    /\ scene \in Scenes
    /\ row = [n \in Notices |-> NoRow]
    /\ queue = [n \in Notices |-> 0]
    /\ copies = [n \in Notices |-> 0]
    /\ orphans = [n \in Notices |-> 0]
    /\ chat = [n \in Notices |-> "none"]
    /\ ripe = [n \in Notices |-> FALSE]
    /\ willing = [n \in Notices |-> TRUE]
    /\ standing = [n \in Notices |-> TRUE]
    /\ job = [p \in Workers |-> NoJob]
    /\ troubles = 0

-----------------------------------------------------------------------------
(* Who asks for a notice *)

\* What the scan that asks for the notice finds in the database: a referral,
\* a subscription that runs low, a rule or an offer with its audience.
Occasion(n) ==
    CASE Kind(n) = "join" -> referrer[scene[n].about] # Nobody
      [] Kind(n) = "low" -> WarningDue(scene[n].about)
      [] Kind(n) \in {"rule", "offer"} -> standing[n] /\ willing[n]
      [] Kind(n) = "gift" -> ~row[n].made
      [] OTHER -> FALSE

\* _queue_delivery refuses settled rows, inactive rules and a second message
\* within five minutes.
MayQueue(n, r) ==
    /\ Kind(n) = "rule" => standing[n]
    /\ ~r.sent /\ ~r.abandoned
    /\ r.queued # "recent"

\* The row is stamped; the message is published on commit, or lost.
Publish(n, r) ==
    /\ row' = [row EXCEPT ![n] = [r EXCEPT !.queued = "recent"]]
    /\ \/ /\ queue[n] < scene[n].messages
          /\ queue' = [queue EXCEPT ![n] = @ + 1]
          /\ UNCHANGED troubles
       \/ Trouble /\ UNCHANGED queue

\* The row the dedupe key names, made if there is none.
GetOrCreate(n) ==
    IF row[n].made THEN row[n]
    ELSE [NoRow EXCEPT !.made = TRUE,
                       !.pk = 1 + Cardinality({m \in Notices : row[m].made})]

\* A scan, or the hook of the commit it recovers, calls _queue_once.
QueueOnce(n) ==
    /\ Occasion(n)
    /\ ~Locked(n)
    /\ LET r == GetOrCreate(n)
       IN  MayQueue(n, r) /\ Publish(n, r)
    /\ UNCHANGED <<invitations, usage, scene, copies, orphans, chat, ripe, minds, job>>

\* The rows run_gamification_notifications looks at: unsent, not abandoned,
\* their rule active, the oldest Limit of them.
Pending == {n \in Staged : /\ row[n].made
                           /\ ~row[n].sent /\ ~row[n].abandoned
                           /\ Kind(n) = "rule" => standing[n]}

Crowded(n) == Cardinality({m \in Pending : row[m].pk < row[n].pk}) >= Limit

\* Mutant of Recover: a row that was queued once is left alone.
RecoverUnqueued(n) ==
    /\ n \in Pending /\ ~Crowded(n)
    /\ ~Locked(n)
    /\ row[n].queued = "never"
    /\ MayQueue(n, row[n])
    /\ Publish(n, row[n])
    /\ UNCHANGED <<invitations, usage, scene, copies, orphans, chat, ripe, minds, job>>

\* The recovery at the head of run_gamification_notifications.
Recover(n) ==
    /\ n \in Pending /\ ~Crowded(n)
    /\ ~Locked(n)
    /\ MayQueue(n, row[n])
    /\ Publish(n, row[n])
    /\ UNCHANGED <<invitations, usage, scene, copies, orphans, chat, ripe, minds, job>>

\* Five minutes pass since delivery_queued_at.
GetOld(n) ==
    /\ row[n].queued = "recent"
    /\ row' = [row EXCEPT ![n].queued = "old"]
    /\ UNCHANGED <<invitations, usage, scene, queue, copies, orphans, chat, ripe, minds,
                   job, troubles>>

-----------------------------------------------------------------------------
(* deliver_gamification_notification *)

\* A warning whose term ended or whose condition cannot be seen any more.
Outdated(n) == Kind(n) = "low" /\ ~WarningDue(scene[n].about)

\* The recipient may not have it now; gifts are delivered whatever he chose.
Withheld(n) ==
    \/ ~willing[n] /\ Kind(n) # "gift"
    \/ Kind(n) \in {"rule", "offer"} /\ ~standing[n]

\* Mutant of Take: the row is read without select_for_update.
TakeUnlocked(p, n) ==
    /\ Idle(p)
    /\ queue[n] > 0
    /\ queue' = [queue EXCEPT ![n] = @ - 1]
    /\ IF row[n].sent \/ row[n].abandoned
         THEN UNCHANGED <<row, job>>
         ELSE IF Outdated(n)
           THEN row' = [row EXCEPT ![n].abandoned = TRUE] /\ UNCHANGED job
           ELSE /\ IF Withheld(n) THEN UNCHANGED job ELSE Goto(p, "sending", n)
                /\ UNCHANGED row
    /\ UNCHANGED <<invitations, usage, scene, copies, orphans, chat, ripe, minds, troubles>>

\* A worker takes a message and locks the row.  Nothing is left to do for a
\* settled row; an outdated warning is abandoned; a withheld notice waits.
Take(p, n) ==
    /\ Idle(p)
    /\ queue[n] > 0
    /\ ~Locked(n)
    /\ queue' = [queue EXCEPT ![n] = @ - 1]
    /\ \/ /\ row[n].sent \/ row[n].abandoned
          /\ UNCHANGED <<row, job>>
       \/ /\ ~row[n].sent /\ ~row[n].abandoned
          /\ Outdated(n)
          /\ row' = [row EXCEPT ![n].abandoned = TRUE]
          /\ UNCHANGED job
       \/ /\ ~row[n].sent /\ ~row[n].abandoned
          /\ ~Outdated(n)
          /\ IF Withheld(n) THEN UNCHANGED job ELSE Goto(p, "sending", n)
          /\ UNCHANGED row
    /\ UNCHANGED <<invitations, usage, scene, copies, orphans, chat, ripe, minds, troubles>>

\* Telegram accepts the message.
Accept(p) ==
    /\ job[p].pc = "sending"
    /\ LET n == job[p].notice IN
        /\ copies' = [copies EXCEPT ![n] = @ + 1]
        /\ Goto(p, "accepted", n)
    /\ UNCHANGED <<invitations, usage, scene, row, queue, orphans, chat, ripe, minds, troubles>>

\* sent_at and the message's id are saved, and the row is released.
Save(p) ==
    /\ job[p].pc = "accepted"
    /\ LET n == job[p].notice IN
        /\ row' = [row EXCEPT ![n].sent = TRUE]
        /\ chat' = [chat EXCEPT ![n] = "there"]
    /\ job' = [job EXCEPT ![p] = NoJob]
    /\ UNCHANGED <<invitations, usage, scene, queue, copies, orphans, ripe, minds, troubles>>

\* The recipient has blocked the bot: TelegramForbiddenError.
Forbid(p) ==
    /\ job[p].pc = "sending"
    /\ Trouble
    /\ row' = [row EXCEPT ![job[p].notice].abandoned = TRUE]
    /\ job' = [job EXCEPT ![p] = NoJob]
    /\ UNCHANGED <<invitations, usage, scene, queue, copies, orphans, chat, ripe, minds>>

\* The transaction of p rolls back; a message it sent stays in the chat.
RollBack(p) ==
    LET n == job[p].notice IN
    /\ orphans' = IF job[p].pc = "accepted" THEN [orphans EXCEPT ![n] = @ + 1] ELSE orphans
    /\ job' = [job EXCEPT ![p] = NoJob]

\* The call, its answer or the save fails: the failure is counted and the
\* task retried, up to its limit.  Or the worker is lost, and the broker
\* delivers the task again.
Fail(p) ==
    /\ job[p].pc \in {"sending", "accepted"}
    /\ Trouble
    /\ RollBack(p)
    /\ \/ queue' = [queue EXCEPT ![job[p].notice] = @ + 1]
       \/ UNCHANGED queue
    /\ UNCHANGED <<invitations, usage, scene, row, copies, chat, ripe, minds>>

-----------------------------------------------------------------------------
(* delete_expired_referrer_join_messages *)

\* Ten hours pass since sent_at.
Ripen(n) ==
    /\ row[n].sent /\ Kind(n) = "join" /\ ~ripe[n]
    /\ ripe' = [ripe EXCEPT ![n] = TRUE]
    /\ UNCHANGED <<invitations, usage, scene, row, queue, copies, orphans, chat, minds,
                   job, troubles>>

\* The row's lease is taken in a short transaction.
Claim(p, n) ==
    /\ Idle(p)
    /\ ripe[n] /\ ~Locked(n)
    /\ row[n].deletion = "no" /\ row[n].lease # "held"
    /\ row' = [row EXCEPT ![n].lease = "held"]
    /\ Goto(p, "deleting", n)
    /\ UNCHANGED <<invitations, usage, scene, queue, copies, orphans, chat, ripe, minds, troubles>>

\* Five minutes pass since the batch of the claim began.
LapseClaim(n) ==
    /\ row[n].lease = "held"
    /\ row' = [row EXCEPT ![n].lease = "lapsed"]
    /\ UNCHANGED <<invitations, usage, scene, queue, copies, orphans, chat, ripe, minds,
                   job, troubles>>

Deleted(p, n, outcome) ==
    job' = [job EXCEPT ![p] = [pc |-> "deleted", notice |-> n, outcome |-> outcome]]

\* Telegram removes the message, refuses because it is gone, or the call
\* fails and may have removed it.
CallDelete(p) ==
    /\ job[p].pc = "deleting"
    /\ LET n == job[p].notice IN
        \/ /\ chat[n] = "there"
           /\ chat' = [chat EXCEPT ![n] = "gone"]
           /\ Deleted(p, n, "done")
           /\ UNCHANGED troubles
        \/ /\ chat[n] = "gone"
           /\ Deleted(p, n, "failed")
           /\ UNCHANGED <<chat, troubles>>
        \/ /\ Trouble
           /\ chat' \in {chat, [chat EXCEPT ![n] = "gone"]}
           /\ Deleted(p, n, "no")
    /\ UNCHANGED <<invitations, usage, scene, row, queue, copies, orphans, ripe, minds>>

\* Mutant of RecordDeletion: a call that failed is final.
RecordAnyOutcome(p) ==
    /\ job[p].pc = "deleted"
    /\ LET n == job[p].notice IN
        row' = [row EXCEPT ![n].lease = "never",
                           ![n].deletion = IF job[p].outcome = "no" THEN "done" ELSE job[p].outcome]
    /\ job' = [job EXCEPT ![p] = NoJob]
    /\ UNCHANGED <<invitations, usage, scene, queue, copies, orphans, chat, ripe, minds, troubles>>

\* Any lease is dropped, and what the call told is recorded.
RecordDeletion(p) ==
    /\ job[p].pc = "deleted"
    /\ LET n == job[p].notice IN
        row' = [row EXCEPT ![n].lease = "never",
                           ![n].deletion = IF job[p].outcome = "no" THEN @ ELSE job[p].outcome]
    /\ job' = [job EXCEPT ![p] = NoJob]
    /\ UNCHANGED <<invitations, usage, scene, queue, copies, orphans, chat, ripe, minds, troubles>>

\* The worker dies on the way; a periodic task is not delivered again.
AbandonDeletion(p) ==
    /\ job[p].pc \in {"deleting", "deleted"}
    /\ Trouble
    /\ job' = [job EXCEPT ![p] = NoJob]
    /\ UNCHANGED <<invitations, usage, scene, row, queue, copies, orphans, chat, ripe, minds>>

-----------------------------------------------------------------------------
(* The people, the account and the workers *)

\* A recipient opts out or in; staff turn a rule off or on; an offer is
\* answered.
ChangeMind(n) ==
    /\ Trouble
    /\ \/ Kind(n) # "gift" /\ willing' = [willing EXCEPT ![n] = ~@] /\ UNCHANGED standing
       \/ Kind(n) = "rule" /\ standing' = [standing EXCEPT ![n] = ~@] /\ UNCHANGED willing
       \/ Kind(n) = "offer" /\ standing' = [standing EXCEPT ![n] = FALSE] /\ UNCHANGED willing
    /\ UNCHANGED <<invitations, usage, scene, outbox>>

With(kind) == \E n \in Staged : Kind(n) = kind

Invite ==
    /\ With("join")
    /\ \/ \E v \in Visits :
            \/ \E u, r \in Users : Arrive(v, u, r)
            \/ Register(v)
            \/ Fumble(v)
       \/ \E u, r \in Users : TypeCode(u, r)
    /\ UNCHANGED <<usage, scene, outbox, minds, troubles>>

Live ==
    /\ With("low")
    /\ Consume \/ Renew \/ GrowOld
    /\ UNCHANGED <<invitations, scene, outbox, minds, troubles>>

Interfere ==
    /\ With("low")
    /\ Trouble
    /\ Cancel \/ \E p \in Workers : AbandonSync(p)
    /\ UNCHANGED <<invitations, scene, outbox, minds>>

StartSync(p) ==
    /\ With("low") /\ Idle(p)
    /\ List(p)
    /\ UNCHANGED <<invitations, scene, outbox, minds, troubles>>

RunSync(p) ==
    /\ CopyAccount(p) \/ CopyStatus(p)
    /\ UNCHANGED <<invitations, scene, outbox, minds, troubles>>

\* The next step of whatever worker p is in.
Work(p) ==
    \/ Accept(p)
    \/ Save(p)
    \/ CallDelete(p)
    \/ RecordDeletion(p)
    \/ RunSync(p)

Next ==
    \/ \E p \in Workers :
        \/ Work(p)
        \/ Forbid(p)
        \/ Fail(p)
        \/ AbandonDeletion(p)
        \/ StartSync(p)
        \/ \E n \in Staged : Take(p, n) \/ Claim(p, n)
    \/ \E n \in Staged :
        \/ QueueOnce(n)
        \/ Recover(n)
        \/ GetOld(n)
        \/ Ripen(n)
        \/ LapseClaim(n)
        \/ ChangeMind(n)
    \/ Invite
    \/ Live
    \/ Interfere

Spec == Init /\ [][Next]_vars

\* Workers go on and take what waits, beats come round, and time passes.
\* People, providers and failures are not fair.
FairSpec ==
    /\ Spec
    /\ \A p \in Workers : WF_vars(Work(p))
    /\ SF_vars(\E p \in Workers : StartSync(p))
    /\ \A n \in Notices :
          /\ SF_vars(n \in Staged /\ \E p \in Workers : Take(p, n))
          /\ SF_vars(n \in Staged /\ \E p \in Workers : Claim(p, n))
          /\ WF_vars(n \in Staged /\ QueueOnce(n))
          /\ WF_vars(n \in Staged /\ Recover(n))
          /\ WF_vars(n \in Staged /\ (GetOld(n) \/ Ripen(n) \/ LapseClaim(n)))

-----------------------------------------------------------------------------
(* Properties *)

\* Types of rows, messages and jobs.
TypeOK ==
    /\ InvitationsTypeOK
    /\ UsageTypeOK
    /\ scene \in Scenes
    /\ row \in [Notices -> Row]
    /\ queue \in [Notices -> Nat]
    /\ copies \in [Notices -> Nat]
    /\ orphans \in [Notices -> Nat]
    /\ chat \in [Notices -> {"none", "there", "gone"}]
    /\ ripe \in [Notices -> BOOLEAN]
    /\ willing \in [Notices -> BOOLEAN]
    /\ standing \in [Notices -> BOOLEAN]
    /\ job \in [Workers -> Job]
    /\ troubles \in Nat

\* However often a notice is asked for, published, redelivered or retried, by
\* whatever workers at once, its recipient gets one message, plus one for
\* every delivery whose record was lost after Telegram had accepted it.
SentOnce == \A n \in Notices : copies[n] <= orphans[n] + 1

Settled(n) == row[n].sent \/ row[n].abandoned

\* A notice whose occasion lasts, whose recipient may have it and which is
\* not behind Limit notices nobody may have, is delivered or given up, though
\* publications, calls and workers are lost on the way.
NoticeArrives ==
    []<>(\A n \in Staged :
            \/ Settled(n)
            \/ ~Occasion(n) /\ ~row[n].made
            \/ Withheld(n) \/ Crowded(n))

\* A join notice that was sent disappears from the inviter's chat, or is
\* recorded as one Telegram refuses to delete, also when the worker that
\* claimed it dies or two claims overlap.
JoinNoticeVanishes ==
    []<>(\A n \in Staged :
            Kind(n) = "join" /\ row[n].sent => chat[n] = "gone" \/ row[n].deletion = "failed")
===============================================================================
