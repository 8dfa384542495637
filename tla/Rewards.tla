-------------------------------- MODULE Rewards --------------------------------
(***************************************************************************)
(* Referral points and the challenge of one inviting customer of a brand:   *)
(* award_level_one_referral_for_payment, grant_profile_completion_pill and  *)
(* the services of referrals/gamification.py, run by Celery workers, the    *)
(* beat scheduler and the bot.                                              *)
(*                                                                          *)
(* Every operation is one database transaction that takes row locks one by  *)
(* one and writes at the end.  Because the operations take them in          *)
(* different orders they can wait for each other in a circle; PostgreSQL    *)
(* then aborts one of them.  A transaction's reads happen under the lock    *)
(* that protects them, so its job keeps only how far it has got, and what   *)
(* it writes is computed at its commit.                                     *)
(*                                                                          *)
(* Purchases are worth small integers.  A purchase is confirmed before the  *)
(* challenge's window, while it is open or after it; the clock is not       *)
(* counted otherwise.                                                       *)
(***************************************************************************)
EXTENDS Integers, FiniteSets, FiniteSetsExt

CONSTANTS
    Workers,        \* concurrent transactions
    Orders,         \* purchases of referred customers
    Rank,           \* Rank[o]: place of o's payment by its time of creation
    Batch,          \* payments the recovery takes at a time
    Referee,        \* Referee[o]: who buys order o
    Worth,          \* Worth[o]: cash value of the purchase's point
    Cheap,          \* orders under the minimum purchase amount or beyond a cap
    ProfileWorth,   \* cash value of the profile pill
    PointsPerPill,  \* POINTS_PER_PILL
    Tiers,          \* tiers of the challenge program: [target, fee]
    NeedsJoin,      \* ChallengeProgram.require_referral_join_during_challenge
    LevelPoints,    \* lifetime points that reach the bonus level
    LevelBonus,     \* its one-time bonus
    Money,          \* the cash the inviter brings along
    Unverified,     \* referees without a verified phone at first
    Latecomers,     \* referees who join once the challenge is open
    Nobody          \* the holder of a free lock

Referees == {Referee[o] : o \in Orders}

Profile == "profile"        \* the source of the profile pill

Sources == Orders \cup {Profile}

ASSUME RewardsAssumption ==
    /\ IsFiniteSet(Orders)
    /\ Orders \cap {Profile, "program", "challenge", "account", "wallet"} = {}
    /\ Nobody \notin Workers
    /\ Rank \in [Orders -> Nat] /\ Batch \in Nat
    /\ Worth \in [Orders -> Nat \ {0}]
    /\ Cheap \subseteq Orders
    /\ {PointsPerPill, ProfileWorth} \subseteq Nat \ {0}
    /\ {LevelPoints, LevelBonus, Money} \subseteq Nat
    /\ Unverified \cup Latecomers \subseteq Referees
    /\ \A t \in Tiers : t.target \in Nat \ {0} /\ t.fee \in Nat \ {0}
    /\ NeedsJoin \in BOOLEAN

VARIABLES
    paid,       \* paid[o]: the window's phase when o was fully paid, or "no"
    referral,   \* referral[r]: Referral.status of referee r
    converted,  \* converted[r]: the phase of Referral.converted_at, or "no"
    verified,   \* referees who verified their phone
    reward,     \* reward[s]: the ReferralReward of source s
    challenge,  \* the UserChallenge row
    window,     \* "before" the challenge's starts_at, "open", or "over"
    cash,       \* Wallet.balance of the inviter
    frozen,     \* Wallet.challenge_frozen_balance
    usable,     \* Wallet.is_active and not is_frozen
    account,    \* RewardAccount: liquid_points, lifetime_points
    bonus,      \* the level bonus was credited
    lock,       \* lock[x]: the transaction that holds row lock x
    job         \* job[p]: the transaction worker p is running

vars == <<paid, referral, converted, verified, reward, challenge, window, cash,
          frozen, usable, account, bonus, lock, job>>
purchases == <<paid, verified>>
wallet == <<cash, frozen, bonus>>

Locks == Orders \cup {"program", "challenge", "account", "wallet", "profile"}

Phases == {"before", "open", "over"}

\* A reward row: none, a cancelled row of no value, an uncashed pill, a cashed
\* one, a provisional challenge point, a challenge point that won or lost.
RewardStatus == {"none", "zero", "pill", "cashed", "provisional", "won", "lost"}

Settled == {"succeeded", "failed", "declined"}

ChallengeStatus == {"none", "offered", "awaiting_funds", "active"} \cup Settled

NoTier == [target |-> 0, fee |-> 0]

NoJob == [kind |-> "idle", source |-> Profile, pc |-> "idle"]

JobKinds == {"award", "profile", "settle", "activate"}

Job == {NoJob} \cup [kind : JobKinds, source : Sources,
                     pc : {"start", "order", "program", "challenge", "record",
                           "point", "account", "wallet", "commit"}]

-----------------------------------------------------------------------------
(* Helpers *)

Having(st) == {s \in Sources : reward[s] = st}

Value(s) == IF s = Profile THEN ProfileWorth ELSE Worth[s]

SumOf(S) == MapThenSumSet(Value, S)

Events == Having("provisional") \cup Having("won") \cup Having("lost")

Free(x) == lock[x] = Nobody

Take(p, x) == lock' = [lock EXCEPT ![x] = p]

\* The transaction of p goes on to its next step.
Advance(p, pc) == job' = [job EXCEPT ![p].pc = pc]

\* The transaction of p ends and frees what it held.
Finish(p) ==
    /\ lock' = [x \in Locks |-> IF lock[x] = p THEN Nobody ELSE lock[x]]
    /\ job' = [job EXCEPT ![p] = NoJob]

\* Nothing but locks and jobs changes.
NoWrite == UNCHANGED <<purchases, referral, converted, reward, challenge,
                       window, wallet, usable, account>>

-----------------------------------------------------------------------------
Init ==
    /\ paid = [o \in Orders |-> "no"]
    /\ referral = [r \in Referees |-> "pending"]
    /\ converted = [r \in Referees |-> "no"]
    /\ verified = Referees \ Unverified
    /\ reward = [s \in Sources |-> "none"]
    /\ challenge = [status |-> "none", tier |-> NoTier, count |-> 0]
    /\ window = "before"
    /\ cash = Money
    /\ frozen = 0
    /\ usable = TRUE
    /\ account = [liquid |-> 0, lifetime |-> 0]
    /\ bonus = FALSE
    /\ lock = [x \in Locks |-> Nobody]
    /\ job = [p \in Workers |-> NoJob]

(* The surroundings: customers, staff, the clock *)

\* Staff freeze or free the wallet.
SetUsable ==
    /\ usable' = ~usable
    /\ Free("wallet")
    /\ UNCHANGED <<purchases, referral, converted, reward, challenge, window,
                   wallet, account, lock, job>>

Verify(r) ==
    /\ r \notin verified
    /\ verified' = verified \cup {r}
    /\ UNCHANGED <<paid, referral, converted, reward, challenge, window,
                   wallet, usable, account, lock, job>>

\* The conversion window of a referral that brought nothing passes.
Lapse(r) ==
    /\ referral[r] = "pending"
    /\ referral' = [referral EXCEPT ![r] = "lapsed"]
    /\ UNCHANGED <<purchases, converted, reward, challenge, window, wallet,
                   usable, account, lock, job>>

\* The last payment of order o is confirmed.
Pay(o) ==
    /\ paid[o] = "no"
    /\ Referee[o] \in Latecomers => window # "before"
    /\ paid' = [paid EXCEPT ![o] = window]
    /\ UNCHANGED <<verified, referral, converted, reward, challenge, window, wallet,
                   usable, account, lock, job>>

\* The challenge's ends_at passes.
WindowEnds ==
    /\ window = "open"
    /\ window' = "over"
    /\ UNCHANGED <<purchases, referral, converted, reward, challenge, wallet,
                   usable, account, lock, job>>

-----------------------------------------------------------------------------
(* Offer, decline and tier *)

\* run_gamification_notifications: get_or_create of the offer.
Offer ==
    /\ challenge.status = "none"
    /\ challenge' = [challenge EXCEPT !.status = "offered"]
    /\ UNCHANGED <<purchases, referral, converted, reward, window, wallet,
                   usable, account, lock, job>>

\* decline_challenge
Decline ==
    /\ Free("challenge")
    /\ challenge.status = "offered"
    /\ challenge' = [challenge EXCEPT !.status = "declined"]
    /\ UNCHANGED <<purchases, referral, converted, reward, window, wallet,
                   usable, account, lock, job>>

\* choose_challenge_tier; the tier may be changed until it is paid for.
ChooseTier(t) ==
    /\ Free("challenge")
    /\ challenge.status \in {"offered", "awaiting_funds"}
    /\ challenge' = [challenge EXCEPT !.tier = t, !.status = "awaiting_funds"]
    /\ UNCHANGED <<purchases, referral, converted, reward, window, wallet,
                   usable, account, lock, job>>

-----------------------------------------------------------------------------
(* Transactions begin *)

Begin(p, kind, s) ==
    /\ job[p] = NoJob
    /\ job' = [job EXCEPT ![p] = [kind |-> kind, source |-> s, pc |-> "start"]]

\* process_referral_reward of a paid order, published when the payment was
\* confirmed and delivered late, twice or never.
Deliver(p, o) ==
    /\ paid[o] # "no"
    /\ Begin(p, "award", o)
    /\ NoWrite /\ UNCHANGED lock

\* Paid orders without a reward whose referral is not expired.
Recoverable == {o \in Orders : /\ paid[o] # "no"
                               /\ reward[o] = "none"
                               /\ referral[Referee[o]] # "expired"}

\* Mutant of Recover: one purchase at a time.
RecoverOne(p, o) ==
    /\ o \in Recoverable
    /\ \A q \in Recoverable : Rank[q] >= Rank[o]
    /\ Begin(p, "award", o)
    /\ NoWrite /\ UNCHANGED lock

\* recover_pending_referral_rewards: the beat runs the oldest ones again.
Recover(p, o) ==
    /\ o \in Recoverable
    /\ Cardinality({q \in Recoverable : Rank[q] < Rank[o]}) < Batch
    /\ Begin(p, "award", o)
    /\ NoWrite /\ UNCHANGED lock

\* The bot saves a profile that is complete.
BeginProfile(p) == Begin(p, "profile", Profile) /\ NoWrite /\ UNCHANGED lock

\* Mutant of BeginSettle: the deadline is compared the wrong way round.
BeginSettleEarly(p) ==
    /\ challenge.status = "active"
    /\ window = "open"
    /\ Begin(p, "settle", Profile)
    /\ NoWrite /\ UNCHANGED lock

\* The beat settles active challenges whose window is over.
BeginSettle(p) ==
    /\ challenge.status = "active"
    /\ window = "over"
    /\ Begin(p, "settle", Profile)
    /\ NoWrite /\ UNCHANGED lock

\* The customer pays for the challenge they see awaiting funds.
BeginActivate(p) ==
    /\ challenge.status = "awaiting_funds"
    /\ Begin(p, "activate", Profile)
    /\ NoWrite /\ UNCHANGED lock

-----------------------------------------------------------------------------
(* The locks of an award, up to the decision what the purchase earns *)

\* Mutant of LockOrder: an order is read without waiting for its lock.
LockOrderAtOnce(p) ==
    LET o == job[p].source
    IN  /\ job[p].kind = "award" /\ job[p].pc = "start"
        /\ IF reward[o] = "none" THEN Advance(p, "order") /\ UNCHANGED lock ELSE Finish(p)
        /\ NoWrite

\* Payment and order are locked; an order with a reward is done.
LockOrder(p) ==
    LET o == job[p].source
    IN  /\ job[p].kind = "award" /\ job[p].pc = "start"
        /\ Free(o)
        /\ IF reward[o] = "none" THEN Take(p, o) /\ Advance(p, "order") ELSE Finish(p)
        /\ NoWrite

\* The brand's program row and the referral, then the tests of eligibility.
LockProgram(p) ==
    LET o == job[p].source
        r == Referee[o]
    IN  /\ job[p].pc = "order"
        /\ Free("program")
        /\ \/ \* the referral lapsed before its first purchase
              /\ referral[r] = "lapsed"
              /\ referral' = [referral EXCEPT ![r] = "expired"]
              /\ Finish(p)
              /\ UNCHANGED reward
           \/ \* no referral to reward
              /\ referral[r] = "expired"
              /\ Finish(p)
              /\ UNCHANGED <<referral, reward>>
           \/ \* too cheap: a row of no value ends the matter
              /\ referral[r] \notin {"lapsed", "expired"}
              /\ o \in Cheap
              /\ reward' = [reward EXCEPT ![o] = "zero"]
              /\ Finish(p)
              /\ UNCHANGED referral
           \/ \* the phone is not verified: nothing is recorded
              /\ referral[r] \notin {"lapsed", "expired"}
              /\ o \notin Cheap /\ r \notin verified
              /\ Finish(p)
              /\ UNCHANGED <<referral, reward>>
           \/ /\ referral[r] \notin {"lapsed", "expired"}
              /\ o \notin Cheap /\ r \in verified
              /\ Take(p, "program") /\ Advance(p, "program")
              /\ UNCHANGED <<referral, reward>>
        /\ UNCHANGED <<purchases, converted, challenge, window, wallet, usable,
                       account>>

\* An active challenge whose window contains the confirmation of order o.
InWindow(o) == challenge.status = "active" /\ paid[o] = "open"

\* Mutant of Qualifies: a person who bought before counts as new.
QualifiesRepeatedly(o) ==
    /\ challenge.count < challenge.tier.target
    /\ NeedsJoin => Referee[o] \in Latecomers

\* The purchase counts for the challenge: a person not counted yet, who came
\* and first bought since it started.
Qualifies(o) ==
    LET r == Referee[o]
    IN  /\ challenge.count < challenge.tier.target
        /\ \A e \in Events : Referee[e] # r
        /\ NeedsJoin => r \in Latecomers
        /\ converted[r] # "before"
        /\ \A q \in Orders \ {o} : Referee[q] = r => paid[q] # "before"

\* maybe_record_challenge_referral locks the challenge if there is one to
\* lock, and keeps the lock also when the purchase does not qualify.
LockChallenge(p) ==
    LET o == job[p].source
    IN  /\ job[p].pc = "program"
        /\ IF InWindow(o)
           THEN /\ Free("challenge")
                /\ Take(p, "challenge")
                /\ Advance(p, IF Qualifies(o) THEN "record" ELSE "point")
           ELSE Advance(p, "point") /\ UNCHANGED lock
        /\ NoWrite

-----------------------------------------------------------------------------
(* Points and cash-out: cash_out_completed_pills *)

\* grant_profile_completion_pill: the profile is locked; one pill per profile.
LockProfile(p) ==
    /\ job[p].kind = "profile" /\ job[p].pc = "start"
    /\ Free("profile")
    /\ IF reward[Profile] = "none"
       THEN Take(p, "profile") /\ Advance(p, "point")
       ELSE Finish(p)
    /\ NoWrite

\* Pills open once this transaction's point is added.
Open(s) == Having("pill") \cup {s}

\* The level bonus is looked at by purchases only.
LevelReached(s) == s # Profile /\ account.lifetime + 1 >= LevelPoints

NeedsWallet(s) == Cardinality(Open(s)) >= PointsPerPill \/ LevelReached(s)

\* The reward account serialises the points of one customer.
LockAccount(p) ==
    /\ job[p].pc = "point"
    /\ Free("account")
    /\ Take(p, "account")
    /\ Advance(p, IF NeedsWallet(job[p].source) THEN "account" ELSE "commit")
    /\ NoWrite

\* The wallet, for complete pills and the bonus; credit_wallet refuses a
\* frozen or inactive wallet and everything is rolled back.
LockWallet(p) ==
    /\ job[p].pc = "account"
    /\ Free("wallet")
    /\ IF usable THEN Take(p, "wallet") /\ Advance(p, "commit") ELSE Finish(p)
    /\ NoWrite

\* Mutant of CashOut: liquid points are not recomputed after the pay-out.
CashOutStale(s, group) ==
    /\ reward' = [t \in Sources |-> IF t \in group THEN "cashed"
                                    ELSE IF t = s THEN "pill" ELSE reward[t]]
    /\ account' = [liquid |-> Cardinality(Open(s)), lifetime |-> account.lifetime + 1]

\* The pills in group are paid, the rest stays liquid.
CashOut(s, group) ==
    /\ reward' = [t \in Sources |-> IF t \in group THEN "cashed"
                                    ELSE IF t = s THEN "pill" ELSE reward[t]]
    /\ account' = [liquid |-> Cardinality(Open(s) \ group),
                   lifetime |-> account.lifetime + 1]

\* Pills leave in complete groups, the oldest first; their age is not
\* modelled, so any group may be the oldest.
Groups(s) ==
    kSubset((Cardinality(Open(s)) \div PointsPerPill) * PointsPerPill, Open(s))

Bonus(s) == IF LevelReached(s) /\ ~bonus THEN LevelBonus ELSE 0

\* The purchase (or the profile) earns a pill.
CommitPoint(p) ==
    LET s == job[p].source
    IN  /\ job[p].kind \in {"award", "profile"} /\ job[p].pc = "commit"
        /\ \E group \in Groups(s) :
            /\ CashOut(s, group)
            /\ cash' = cash + SumOf(group) + Bonus(s)
        /\ bonus' = (bonus \/ LevelReached(s))
        /\ IF s = Profile
           THEN UNCHANGED <<referral, converted>>
           ELSE /\ referral' = [referral EXCEPT ![Referee[s]] = "rewarded"]
                /\ converted' = [converted EXCEPT ![Referee[s]] =
                                    IF @ = "no" THEN window ELSE @]
        /\ Finish(p)
        /\ UNCHANGED <<purchases, challenge, window, frozen, usable>>

-----------------------------------------------------------------------------
(* The challenge: activation, recording, settlement *)

\* activate_challenge_from_wallet, settle_challenge: the row is locked first.
LockRow(p) ==
    /\ job[p].kind \in {"settle", "activate"} /\ job[p].pc = "start"
    /\ Free("challenge")
    /\ IF challenge.status = (IF job[p].kind = "settle" THEN "active" ELSE "awaiting_funds")
       THEN Take(p, "challenge") /\ Advance(p, "challenge")
       ELSE Finish(p)
    /\ NoWrite

\* The entry money moves from the balance to the frozen balance.
Activate(p) ==
    /\ job[p].kind = "activate" /\ job[p].pc = "challenge"
    /\ Free("wallet")
    /\ IF usable /\ cash >= challenge.tier.fee
       THEN /\ cash' = cash - challenge.tier.fee
            /\ frozen' = frozen + challenge.tier.fee
            /\ challenge' = [challenge EXCEPT !.status = "active"]
            /\ window' = "open"
       ELSE UNCHANGED <<cash, frozen, challenge, window>>
    /\ Finish(p)
    /\ UNCHANGED <<purchases, referral, converted, reward, bonus, usable,
                   account>>

\* maybe_record_challenge_referral: the purchase is a provisional point, and
\* the one that fills the target goes on to settle the challenge.
Record(p) ==
    LET o == job[p].source
    IN  /\ job[p].pc = "record"
        /\ IF challenge.count + 1 >= challenge.tier.target
           THEN Advance(p, "challenge") /\ UNCHANGED <<lock, reward, challenge, referral, converted>>
           ELSE /\ reward' = [reward EXCEPT ![o] = "provisional"]
                /\ challenge' = [challenge EXCEPT !.count = @ + 1]
                /\ referral' = [referral EXCEPT ![Referee[o]] =
                                   IF @ = "pending" THEN "converted" ELSE @]
                /\ converted' = [converted EXCEPT ![Referee[o]] =
                                   IF @ = "no" THEN window ELSE @]
                /\ Finish(p)
        /\ UNCHANGED <<purchases, window, wallet, usable, account>>

\* settle_challenge: the wallet is locked before the reward account.
SettleWallet(p) ==
    /\ job[p].kind \in {"award", "settle"} /\ job[p].pc = "challenge"
    /\ Free("wallet")
    /\ IF usable THEN Take(p, "wallet") /\ Advance(p, "wallet") ELSE Finish(p)
    /\ NoWrite

\* Mutant of PayOut: the released entry is not taken off the frozen balance.
SettleDouble(p, won) ==
    /\ cash' = cash + challenge.tier.fee
                    + IF won THEN SumOf(Having("provisional") \cup ({job[p].source} \ {Profile})) ELSE 0
    /\ UNCHANGED frozen

\* The entry money returns in either case; a win also pays the points.
PayOut(p, won) ==
    /\ cash' = cash + challenge.tier.fee
                    + IF won THEN SumOf(Having("provisional") \cup ({job[p].source} \ {Profile})) ELSE 0
    /\ frozen' = frozen - challenge.tier.fee

\* The points and the challenge get their final status.  A purchase that
\* fills the target brings its own point along.
Settle(p) ==
    LET won == job[p].kind = "award"
        own == {job[p].source} \ {Profile}
        points == Having("provisional") \cup own
    IN  /\ job[p].kind \in {"award", "settle"} /\ job[p].pc = "wallet"
        /\ Free("account")
        /\ PayOut(p, won)
        /\ reward' = [s \in Sources |-> IF s \notin points THEN reward[s]
                                        ELSE IF won THEN "won" ELSE "lost"]
        /\ challenge' = [challenge EXCEPT !.status = IF won THEN "succeeded" ELSE "failed",
                                          !.count = @ + Cardinality(own)]
        /\ account' = [liquid |-> Cardinality(Having("pill")),
                       lifetime |-> account.lifetime + IF won THEN Cardinality(points) ELSE 0]
        /\ IF won
           THEN /\ referral' = [r \in Referees |-> IF \E s \in points : Referee[s] = r
                                                   THEN "rewarded" ELSE referral[r]]
                /\ converted' = [converted EXCEPT ![Referee[job[p].source]] =
                                    IF @ = "no" THEN window ELSE @]
           ELSE UNCHANGED <<referral, converted>>
        /\ Finish(p)
        /\ UNCHANGED <<purchases, window, bonus, usable>>

-----------------------------------------------------------------------------
(* Rollbacks *)

\* The row lock worker p is waiting for.
Wanted(p) ==
    CASE job[p] = NoJob -> {}
      [] job[p].pc = "start" /\ job[p].kind = "award" -> {job[p].source}
      [] job[p].pc = "start" /\ job[p].kind = "profile" -> {"profile"}
      [] job[p].pc = "start" -> {"challenge"}
      [] job[p].pc = "order" -> {"program"}
      [] job[p].pc = "program" /\ InWindow(job[p].source) -> {"challenge"}
      [] job[p].pc \in {"point", "wallet"} -> {"account"}
      [] job[p].pc \in {"account", "challenge"} -> {"wallet"}
      [] OTHER -> {}

Holder(p) == {lock[x] : x \in Wanted(p)} \ {Nobody, p}

\* Two transactions wait for each other.
InDeadlock(p) == \E q \in Holder(p) : p \in Holder(q)

\* PostgreSQL aborts a transaction of a deadlock; the task fails.
Abort(p) ==
    /\ InDeadlock(p)
    /\ Finish(p)
    /\ NoWrite

\* A worker dies in its transaction.
Die(p) ==
    /\ job[p] # NoJob
    /\ Finish(p)
    /\ NoWrite

-----------------------------------------------------------------------------
Step(p) ==
    \/ LockOrder(p)
    \/ LockProgram(p)
    \/ LockChallenge(p)
    \/ LockProfile(p)
    \/ LockAccount(p)
    \/ LockWallet(p)
    \/ CommitPoint(p)
    \/ LockRow(p)
    \/ Activate(p)
    \/ Record(p)
    \/ SettleWallet(p)
    \/ Settle(p)
    \/ Abort(p)

Tasks(p) ==
    \/ \E o \in Orders : Deliver(p, o) \/ Recover(p, o)
    \/ BeginSettle(p)

Surroundings ==
    \/ \E r \in Referees : Verify(r)
    \/ \E o \in Orders : Pay(o)
    \/ WindowEnds
    \/ Offer
    \/ Decline
    \/ \E t \in Tiers : ChooseTier(t)
    \/ \E p \in Workers : BeginProfile(p) \/ BeginActivate(p)

Next ==
    \/ Surroundings
    \/ SetUsable
    \/ \E r \in Referees : Lapse(r)
    \/ \E p \in Workers : Step(p) \/ Tasks(p) \/ Die(p)

Spec == Init /\ [][Next]_vars

\* Transactions go on and the beat runs; no worker dies, no referral lapses
\* and staff leave the wallet usable.  Only the recovery is fair: the task
\* published with the payment may be lost.  The survivor of a deadlock is
\* granted the lock it waits for before a retry can take it away again, hence
\* the strong fairness of the steps that wait for it.
SteadySpec ==
    /\ Init
    /\ [][Surroundings \/ \E p \in Workers : Step(p) \/ Tasks(p)]_vars
    /\ \A p \in Workers : WF_vars(Step(p)) /\ SF_vars(LockWallet(p) \/ Settle(p))
    /\ \A o \in Orders : SF_vars(\E p \in Workers : Recover(p, o))
    /\ SF_vars(\E p \in Workers : BeginSettle(p))

-----------------------------------------------------------------------------
(* Properties *)

\* Types of the columns.
TypeOK ==
    /\ paid \in [Orders -> Phases \cup {"no"}]
    /\ referral \in [Referees -> {"pending", "lapsed", "expired", "converted", "rewarded"}]
    /\ converted \in [Referees -> Phases \cup {"no"}]
    /\ verified \subseteq Referees
    /\ reward \in [Sources -> RewardStatus]
    /\ challenge \in [status : ChallengeStatus, tier : Tiers \cup {NoTier}, count : Nat]
    /\ window \in Phases
    /\ {cash, frozen} \subseteq Nat
    /\ {usable, bonus} \subseteq BOOLEAN
    /\ account \in [liquid : Nat, lifetime : Nat]
    /\ lock \in [Locks -> Workers \cup {Nobody}]
    /\ job \in [Workers -> Job]

\* The inviter's money is what was brought in and earned: each cashed pill,
\* each won point and the bonus paid once, and the entry money is either
\* frozen, while its challenge is active, or back, whatever tasks ran twice,
\* died or were aborted.
MoneyExplained ==
    /\ cash + frozen = Money + SumOf(Having("cashed") \cup Having("won"))
                             + IF bonus THEN LevelBonus ELSE 0
    /\ frozen = IF challenge.status = "active" THEN challenge.tier.fee ELSE 0

\* liquid_points tells the open pills, which are fewer than a box.
LiquidIsOpenPill ==
    /\ account.liquid = Cardinality(Having("pill"))
    /\ account.liquid < PointsPerPill

\* A challenge counts distinct people, never more than its target, and it
\* succeeds only when full.
ChallengeCountsPeople ==
    /\ challenge.count = Cardinality(Events)
    /\ \A e, f \in Events : e # f => Referee[e] # Referee[f]
    /\ challenge.count <= challenge.tier.target
    /\ challenge.status = "succeeded" => challenge.count = challenge.tier.target

\* Settled and declined challenges, cashed pills and final points stay so.
FinalStaysFinal ==
    [][/\ challenge.status \in Settled => challenge' = challenge
       /\ \A s \in Sources : reward[s] \in {"zero", "cashed", "won", "lost"}
                                => reward'[s] = reward[s]]_vars

\* A fully paid purchase of a verified referee is rewarded, also when its task
\* was lost or its transaction aborted.
PurchaseIsRewarded ==
    \A o \in Orders :
        (paid[o] # "no" /\ Referee[o] \in verified)
            ~> reward[o] # "none"

\* A challenge whose window is over is settled.
ChallengeIsSettled ==
    (challenge.status = "active" /\ window = "over") ~> challenge.status \in Settled
==============================================================================
