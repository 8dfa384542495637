----------------------------- MODULE RewardsProofs -----------------------------
(***************************************************************************)
(* Proofs about Rewards for any number of purchases, workers and tiers.     *)
(*                                                                          *)
(* Each purchase and the profile are rewarded under a row lock of their     *)
(* own, so whoever read that there is no reward still finds none when it    *)
(* commits (HoldsSource).  Whoever records for the challenge, settles or    *)
(* activates it holds the challenge's row, and what was read of its status, *)
(* its count and its people is true until then (HoldsChallenge).  The       *)
(* account's and the wallet's locks are not needed for the invariants:      *)
(* what is written under them is computed by the statement that writes it.  *)
(***************************************************************************)
EXTENDS Rewards, FiniteSums

-----------------------------------------------------------------------------
(* The inductive invariant *)

\* What the kind and the phase of a job have to do with each other.
Fits(p) ==
    /\ IF job[p].kind = "award" THEN job[p].source \in Orders ELSE job[p].source = Profile
    /\ job[p].pc \in {"order", "program", "record"} => job[p].kind = "award"
    /\ job[p].pc \in {"point", "account", "commit"} => job[p].kind \in {"award", "profile"}
    /\ job[p].pc = "challenge" => job[p].kind \in {"award", "settle", "activate"}
    /\ job[p].pc = "wallet" => job[p].kind \in {"award", "settle"}

\* A job that rewards a source holds its row, and there is no reward yet.
HoldsSource(p) ==
    job[p].kind \in {"award", "profile"} /\ job[p].pc # "start" =>
        lock[job[p].source] = p /\ reward[job[p].source] = "none"

\* A job that changes the challenge holds its row and knows its status; one
\* that records a purchase knows that the buyer is new and that there is room,
\* and one that goes on to settle that this is the last person.
HoldsChallenge(p) ==
    job[p].pc \in {"record", "challenge", "wallet"} =>
        /\ lock["challenge"] = p
        /\ challenge.status = IF job[p].kind = "activate" THEN "awaiting_funds" ELSE "active"
        /\ job[p].kind = "award" =>
              /\ challenge.count < challenge.tier.target
              /\ \A e \in Events : Referee[e] # Referee[job[p].source]
              /\ job[p].pc # "record" => challenge.count + 1 = challenge.tier.target

JobSound(p) == Fits(p) /\ HoldsSource(p) /\ HoldsChallenge(p)

JobsSound == \A p \in Workers : JobSound(p)

\* Nobody is counted before the challenge is active, and the profile is no
\* purchase.
BooksFit ==
    /\ challenge.status \in {"none", "offered", "awaiting_funds", "declined"} => challenge.count = 0
    /\ reward[Profile] \in {"none", "pill", "cashed"}

RewardsInv ==
    TypeOK /\ JobsSound /\ BooksFit /\ MoneyExplained /\ LiquidIsOpenPill /\ ChallengeCountsPeople

-----------------------------------------------------------------------------
(* Facts about jobs, locks and rewards *)

JobPhases == {"start", "order", "program", "challenge", "record", "point", "account", "wallet", "commit"}

\* The fields of a job that is under way.
LEMMA JobTypes ==
    ASSUME TypeOK, NEW p \in Workers, job[p] # NoJob
    PROVE  /\ job[p].source \in Sources /\ job[p].kind \in JobKinds /\ job[p].pc \in JobPhases
           /\ job[p] \in Job \ {NoJob}
  BY DEF TypeOK, Job, JobPhases

\* An idle worker has no kind and no phase.
LEMMA Idleness ==
    /\ Nobody \notin Workers
    /\ NoJob.kind = "idle" /\ NoJob.pc = "idle" /\ NoJob.source = Profile /\ NoJob \in Job
    /\ \A p \in Workers : job[p].kind \in JobKinds \/ job[p].pc \in JobPhases => job[p] # NoJob
  BY RewardsAssumption DEF NoJob, Job, JobKinds, JobPhases

\* The rows locked are different ones.
LEMMA LocksDiffer ==
    /\ Sources \subseteq Locks /\ {"program", "challenge", "account", "wallet"} \subseteq Locks
    /\ \A s \in Sources : s \notin {"program", "challenge", "account", "wallet"}
    /\ \A o \in Orders : o # Profile
  BY RewardsAssumption DEF Locks, Sources, Profile

\* A job in another phase is a job.
LEMMA JobEdits ==
    \A j \in Job \ {NoJob}, pc \in JobPhases :
        LET k == [j EXCEPT !.pc = pc]
        IN  k \in Job /\ k.kind = j.kind /\ k.source = j.source /\ k.pc = pc
  BY DEF Job, JobPhases

\* A worker that advances changes its own phase only.
LEMMA Advances ==
    ASSUME TypeOK, NEW p \in Workers, job[p] # NoJob, NEW pc \in JobPhases, Advance(p, pc)
    PROVE  /\ job' \in [Workers -> Job]
           /\ job'[p].kind = job[p].kind /\ job'[p].source = job[p].source /\ job'[p].pc = pc
           /\ \A q \in Workers \ {p} : job'[q] = job[q]
  <1> DEFINE k == [job[p] EXCEPT !.pc = pc]
  <1>1. k \in Job /\ k.kind = job[p].kind /\ k.source = job[p].source /\ k.pc = pc
    BY JobTypes, JobEdits
  <1>2. job' = [job EXCEPT ![p] = k] /\ job \in [Workers -> Job]
    BY DEF Advance, TypeOK
  <1> HIDE DEF k
  <1> QED BY <1>1, <1>2

\* A worker that finishes is idle and releases its own locks only.
LEMMA Finishes ==
    ASSUME TypeOK, NEW p \in Workers, Finish(p)
    PROVE  /\ job' \in [Workers -> Job] /\ job'[p] = NoJob
           /\ \A q \in Workers \ {p} : job'[q] = job[q]
           /\ lock' \in [Locks -> Workers \cup {Nobody}]
           /\ \A x \in Locks : lock[x] \notin {Nobody, p} => lock'[x] = lock[x]
  BY Idleness DEF TypeOK, Finish

\* A free lock is taken, and no other lock changes.
LEMMA Takes ==
    ASSUME TypeOK, NEW p \in Workers, NEW x \in Locks, Free(x), Take(p, x)
    PROVE  /\ lock' \in [Locks -> Workers \cup {Nobody}] /\ lock'[x] = p
           /\ \A y \in Locks : lock[y] # Nobody => lock'[y] = lock[y]
  BY DEF TypeOK, Free, Take

\* Nothing is asked of an idle worker.
LEMMA IdleIsSound == ASSUME NEW p \in Workers, job'[p] = NoJob PROVE JobSound(p)'
  BY Idleness DEF JobSound, Fits, HoldsSource, HoldsChallenge

\* A job sees nothing of a step that leaves it its locks, rewards nothing
\* whose row it holds and leaves the challenge alone if it holds that.
LEMMA OthersStaySound ==
    ASSUME TypeOK, NEW q \in Workers, JobSound(q), job'[q] = job[q],
           \A x \in Locks : lock[x] = q => lock'[x] = q,
           \A s \in Sources : lock[s] = q /\ reward[s] = "none" => reward'[s] = "none",
           lock["challenge"] = q /\ challenge.status \in {"active", "awaiting_funds"}
              => challenge' = challenge /\ Events' = Events
    PROVE  JobSound(q)'
  <1>1. CASE job[q] = NoJob
    BY <1>1, IdleIsSound
  <1>2. CASE job[q] # NoJob
    <2>1. job[q].source \in Sources /\ job[q].source \in Locks /\ "challenge" \in Locks
      BY <1>2, JobTypes, LocksDiffer
    <2>2. Fits(q)'
      BY DEF JobSound, Fits
    <2>3. HoldsSource(q)'
      BY <2>1 DEF JobSound, HoldsSource
    <2>4. HoldsChallenge(q)'
      BY <2>1 DEF JobSound, HoldsChallenge
    <2> QED BY <2>2, <2>3, <2>4 DEF JobSound
  <1> QED BY <1>1, <1>2

\* A step of one job that writes nothing.
LEMMA JobStepKeeps ==
    ASSUME RewardsInv, NEW p \in Workers, NoWrite,
           job' \in [Workers -> Job], \A q \in Workers \ {p} : job'[q] = job[q],
           lock' \in [Locks -> Workers \cup {Nobody}],
           \A x \in Locks : lock[x] \notin {Nobody, p} => lock'[x] = lock[x],
           JobSound(p)'
    PROVE  RewardsInv'
  <1> USE DEF NoWrite, purchases, wallet
  <1>1. TypeOK'
    BY DEF RewardsInv, TypeOK
  <1>2. JobsSound'
    <2>1. ASSUME NEW q \in Workers \ {p} PROVE JobSound(q)'
      BY OthersStaySound, Idleness DEF RewardsInv, JobsSound, Events, Having
    <2> QED BY <2>1 DEF JobsSound
  <1>3. BooksFit' /\ MoneyExplained' /\ LiquidIsOpenPill' /\ ChallengeCountsPeople'
    BY DEF RewardsInv, BooksFit, MoneyExplained, LiquidIsOpenPill, ChallengeCountsPeople, Events,
           Having
  <1> QED BY <1>1, <1>2, <1>3 DEF RewardsInv

\* A transaction that ends without a write.
LEMMA FinishKeeps == ASSUME RewardsInv, NEW p \in Workers, Finish(p), NoWrite PROVE RewardsInv'
  BY Finishes, IdleIsSound, JobStepKeeps DEF RewardsInv

\* A transaction begins.
LEMMA BeginKeeps ==
    ASSUME RewardsInv, NEW p \in Workers, NEW kind \in JobKinds, NEW s \in Sources,
           IF kind = "award" THEN s \in Orders ELSE s = Profile,
           Begin(p, kind, s), NoWrite, UNCHANGED lock
    PROVE  RewardsInv'
  <1> DEFINE j == [kind |-> kind, source |-> s, pc |-> "start"]
  <1>1. j \in Job /\ j.kind = kind /\ j.source = s /\ j.pc = "start"
    BY DEF Job
  <1>2. job' = [job EXCEPT ![p] = j] /\ job \in [Workers -> Job] /\ lock' \in [Locks -> Workers \cup {Nobody}]
    BY DEF Begin, RewardsInv, TypeOK
  <1> HIDE DEF j
  <1>3. job' \in [Workers -> Job] /\ job'[p] = j /\ \A q \in Workers \ {p} : job'[q] = job[q]
    BY <1>1, <1>2
  <1>4. JobSound(p)'
    BY <1>1, <1>3 DEF JobSound, Fits, HoldsSource, HoldsChallenge
  <1> QED BY <1>2, <1>3, <1>4, JobStepKeeps

-----------------------------------------------------------------------------
(* Sums of rewards *)

Weights == [s \in Sources |-> Value(s)]

\* The weights of the sum of cashed pills.
LEMMA RewardWeights ==
    /\ IsFiniteSet(Sources)
    /\ \A S \in SUBSET Sources : IsFiniteSet(S) /\ Cardinality(S) \in Nat
    /\ \A s \in Sources : Weights[s] = Value(s) /\ Value(s) \in Nat
  <1>1. IsFiniteSet(Sources)
    BY RewardsAssumption, FS_AddElement DEF Sources
  <1>2. \A s \in Sources : Weights[s] = Value(s) /\ Value(s) \in Nat
    BY RewardsAssumption DEF Weights, Value, Sources
  <1> QED BY <1>1, <1>2, FS_Subset, FS_CardinalityType

\* The sum of the model is the sum of FiniteSums.
LEMMA SumOfIsSum == ASSUME NEW S \in SUBSET Sources PROVE SumOf(S) = SumOver(Weights, S)
  <1> DEFINE P(f) == f = [A \in SUBSET S |-> IF A = {} THEN 0 ELSE Value(Choice(A)) + f[A \ {Choice(A)}]]
             Q(f) == f = Body(Weights, S, f)
  <1>1. SumOf(S) = (CHOOSE f : P(f))[S]
    BY DEF SumOf, MapThenSumSet, MapThenFoldSet, Choice
  <1>2. SumOver(Weights, S) = (CHOOSE f : Q(f))[S]
    BY SumIsFold DEF Fold
  <1>3. \A f : P(f) <=> Q(f)
    BY ChoiceIn, RewardWeights DEF Body
  <1> HIDE DEF P, Q
  <1>4. (CHOOSE f : P(f)) = (CHOOSE f : Q(f))
    BY <1>3
  <1> QED BY <1>1, <1>2, <1>4

\* The worth of two sets of sources with no member in common.
LEMMA WorthAdds ==
    ASSUME NEW S \in SUBSET Sources, NEW T \in SUBSET Sources, S \cap T = {}
    PROVE  SumOf(S \cup T) = SumOf(S) + SumOf(T) /\ SumOf(S) \in Nat /\ SumOf(T) \in Nat
  <1>1. IsFiniteSet(S) /\ IsFiniteSet(T) /\ \A s \in S \cup T : Weights[s] \in Nat
    BY RewardWeights
  <1>2. SumOver(Weights, S \cup T) = SumOver(Weights, S) + SumOver(Weights, T)
    BY <1>1, SumUnion
  <1>3. SumOver(Weights, S) \in Nat /\ SumOver(Weights, T) \in Nat
    BY <1>1, SumNatural
  <1> QED BY <1>2, <1>3, SumOfIsSum

-----------------------------------------------------------------------------
(* The beginning and the surroundings *)

\* The invariant holds initially.
LEMMA InitEstablishesRewardsInv == Init => RewardsInv
  <1> SUFFICES ASSUME Init PROVE RewardsInv
    OBVIOUS
  <1> USE RewardsAssumption DEF Init
  <1>1. TypeOK
    <2>1. job \in [Workers -> Job] /\ \A p \in Workers : job[p] = NoJob
      BY Idleness
    <2>2. challenge \in [status : ChallengeStatus, tier : Tiers \cup {NoTier}, count : Nat]
      BY DEF ChallengeStatus
    <2>3. reward \in [Sources -> RewardStatus]
      BY DEF RewardStatus
    <2> QED BY <2>1, <2>2, <2>3 DEF TypeOK, Phases
  <1>2. \A st : st # "none" => Having(st) = {}
    BY DEF Having
  <1>3. Events = {} /\ Having("pill") = {} /\ Having("cashed") \cup Having("won") = {}
    BY <1>2 DEF Events
  <1>4. SumOf({}) = 0
    BY SumOfIsSum, SumEmpty
  <1>5. JobsSound
    BY Idleness DEF JobsSound, JobSound, Fits, HoldsSource, HoldsChallenge
  <1>6. BooksFit /\ ChallengeCountsPeople
    BY <1>3, FS_EmptySet DEF BooksFit, ChallengeCountsPeople, NoTier, Sources
  <1>7. LiquidIsOpenPill
    <2>1. PointsPerPill \in Nat \ {0}
      OBVIOUS
    <2>2. account.liquid = 0
      OBVIOUS
    <2>3. Cardinality(Having("pill")) = 0
      BY <1>3, FS_EmptySet
    <2> QED BY ONLY <2>1, <2>2, <2>3 DEF LiquidIsOpenPill
  <1>8. MoneyExplained
    <2>1. Money \in Nat
      OBVIOUS
    <2>2. frozen = 0 /\ challenge.status # "active"
      OBVIOUS
    <2>3. (IF bonus THEN LevelBonus ELSE 0) = 0
      OBVIOUS
    <2>4. SumOf(Having("cashed") \cup Having("won")) = 0 /\ cash = Money
      BY <1>3, <1>4
    <2> QED BY <2>1, <2>2, <2>3, <2>4 DEF MoneyExplained
  <1> QED BY <1>1, <1>5, <1>6, <1>7, <1>8 DEF RewardsInv

\* What happens to customers, orders, the clock and the wallet's usability
\* says nothing about money and counts.
LEMMA SurroundingsKeep ==
    ASSUME RewardsInv, UNCHANGED <<reward, challenge, wallet, account, lock, job>>, TypeOK'
    PROVE  RewardsInv'
  <1> USE DEF wallet
  <1>1. JobsSound'
    BY DEF RewardsInv, JobsSound, JobSound, Fits, HoldsSource, HoldsChallenge, Events, Having
  <1>2. BooksFit' /\ MoneyExplained' /\ LiquidIsOpenPill' /\ ChallengeCountsPeople'
    BY DEF RewardsInv, BooksFit, MoneyExplained, LiquidIsOpenPill, ChallengeCountsPeople, Events,
           Having
  <1> QED BY <1>1, <1>2 DEF RewardsInv

\* What customers and the calendar do keeps the invariant.
LEMMA CustomersKeep ==
    ASSUME RewardsInv,
           \/ SetUsable \/ WindowEnds
           \/ \E r \in Referees : Verify(r) \/ Lapse(r)
           \/ \E o \in Orders : Pay(o)
    PROVE  RewardsInv'
  <1>1. TypeOK /\ "over" \in Phases /\ Referees = {Referee[o] : o \in Orders}
    BY DEF RewardsInv, Phases, Referees
  <1>2. CASE SetUsable
    BY <1>1, <1>2, SurroundingsKeep DEF SetUsable, TypeOK, purchases, wallet
  <1>3. CASE WindowEnds
    BY <1>1, <1>3, SurroundingsKeep DEF WindowEnds, TypeOK, purchases, wallet
  <1>4. ASSUME NEW r \in Referees, Verify(r) PROVE RewardsInv'
    BY <1>1, <1>4, SurroundingsKeep DEF Verify, TypeOK, wallet
  <1>5. ASSUME NEW r \in Referees, Lapse(r) PROVE RewardsInv'
    BY <1>1, <1>5, SurroundingsKeep DEF Lapse, TypeOK, purchases, wallet
  <1>6. ASSUME NEW o \in Orders, Pay(o) PROVE RewardsInv'
    BY <1>1, <1>6, SurroundingsKeep DEF Pay, TypeOK, wallet
  <1> QED BY <1>2, <1>3, <1>4, <1>5, <1>6

\* Rows of the challenge and their edits.
ChallengeRows == [status : ChallengeStatus, tier : Tiers \cup {NoTier}, count : Nat]

\* The fields of the challenge.
LEMMA ChallengeFields ==
    ASSUME NEW c \in ChallengeRows
    PROVE  /\ c.status \in ChallengeStatus /\ c.tier \in Tiers \cup {NoTier} /\ c.count \in Nat
           /\ DOMAIN c = {"status", "tier", "count"}
  BY DEF ChallengeRows

\* A challenge with another status.
LEMMA StatusEdit ==
    ASSUME NEW c \in ChallengeRows, NEW st
    PROVE  [c EXCEPT !.status = st] = [status |-> st, tier |-> c.tier, count |-> c.count]
  <1>1. DOMAIN c = {"status", "tier", "count"}
    BY ChallengeFields
  <1> QED BY <1>1

\* A challenge with another count.
LEMMA CountEdit ==
    ASSUME NEW c \in ChallengeRows, NEW n
    PROVE  [c EXCEPT !.count = n] = [status |-> c.status, tier |-> c.tier, count |-> n]
  <1>1. DOMAIN c = {"status", "tier", "count"}
    BY ChallengeFields
  <1> QED BY <1>1

\* A challenge that was chosen.
LEMMA TierEdit ==
    ASSUME NEW c \in ChallengeRows, NEW t, NEW st
    PROVE  [c EXCEPT !.tier = t, !.status = st] = [status |-> st, tier |-> t, count |-> c.count]
  <1> DEFINE d == [c EXCEPT !.tier = t]
  <1>1. [c EXCEPT !.tier = t, !.status = st] = [d EXCEPT !.status = st]
    OBVIOUS
  <1>2. d = [status |-> c.status, tier |-> t, count |-> c.count]
    <2>1. DOMAIN c = {"status", "tier", "count"}
      BY ChallengeFields
    <2> QED BY <2>1
  <1> HIDE DEF d
  <1> QED BY <1>1, <1>2

\* A challenge that was recorded or settled.
LEMMA SettlementEdit ==
    ASSUME NEW c \in ChallengeRows, NEW st, NEW n
    PROVE  [c EXCEPT !.status = st, !.count = n] = [status |-> st, tier |-> c.tier, count |-> n]
  <1> DEFINE d == [c EXCEPT !.status = st]
  <1>1. [c EXCEPT !.status = st, !.count = n] = [d EXCEPT !.count = n]
    OBVIOUS
  <1>2. d = [status |-> st, tier |-> c.tier, count |-> c.count]
    BY StatusEdit
  <1> HIDE DEF d
  <1> QED BY <1>1, <1>2

\* Offer, refusal and choice concern a challenge in which nobody is counted
\* and that no job has under its lock.
LEMMA OffersKeep ==
    ASSUME RewardsInv, Offer \/ Decline \/ \E t \in Tiers : ChooseTier(t)
    PROVE  RewardsInv'
  <1> USE DEF purchases, wallet
  <1>0. /\ UNCHANGED <<purchases, referral, converted, reward, window, wallet, usable, account, lock, job>>
        /\ challenge \in ChallengeRows /\ challenge.count = 0
        /\ challenge.status \in {"none", "offered", "awaiting_funds"}
        /\ challenge.status = "none" \/ lock["challenge"] = Nobody
    BY DEF RewardsInv, TypeOK, ChallengeRows, BooksFit, Offer, Decline, ChooseTier, Free
  <1>1. /\ challenge' \in ChallengeRows /\ challenge'.count = 0 /\ challenge'.tier.target \in Nat
        /\ challenge'.status \in {"offered", "awaiting_funds", "declined"}
    <2>1. {"offered", "awaiting_funds", "declined"} \subseteq ChallengeStatus
      BY DEF ChallengeStatus, Settled
    <2>2. \A t \in Tiers \cup {NoTier} : t.target \in Nat
      BY RewardsAssumption DEF NoTier
    <2>3. PICK st \in {"offered", "awaiting_funds", "declined"}, t \in Tiers \cup {NoTier} :
            challenge' = [status |-> st, tier |-> t, count |-> 0]
      <3>1. CASE Offer
        BY <1>0, <3>1, StatusEdit, ChallengeFields DEF Offer
      <3>2. CASE Decline
        BY <1>0, <3>2, StatusEdit, ChallengeFields DEF Decline
      <3>3. CASE \E t \in Tiers : ChooseTier(t)
        <4>1. PICK t \in Tiers : ChooseTier(t)
          BY <3>3
        <4>2. challenge' = [challenge EXCEPT !.tier = t, !.status = "awaiting_funds"]
          BY <4>1 DEF ChooseTier
        <4>3. challenge' = [status |-> "awaiting_funds", tier |-> t, count |-> 0]
          BY <1>0, <4>2, TierEdit
        <4> QED BY <4>3
      <3> QED BY <3>1, <3>2, <3>3
    <2>4. challenge' \in ChallengeRows
      BY <2>1, <2>3 DEF ChallengeRows
    <2> QED BY <2>2, <2>3, <2>4
  <1>2. TypeOK'
    BY <1>0, <1>1 DEF RewardsInv, TypeOK, ChallengeRows
  <1>3. JobsSound'
    <2>1. ASSUME NEW q \in Workers PROVE JobSound(q)'
      BY <1>0, Idleness, OthersStaySound DEF RewardsInv, JobsSound
    <2> QED BY <2>1 DEF JobsSound
  <1>4. /\ Events' = Events /\ Having("pill")' = Having("pill")
        /\ Having("cashed")' = Having("cashed") /\ Having("won")' = Having("won")
    BY <1>0 DEF Events, Having
  <1>5. BooksFit' /\ LiquidIsOpenPill' /\ ChallengeCountsPeople'
    <2>1. BooksFit' /\ LiquidIsOpenPill'
      BY <1>0, <1>1, <1>4 DEF RewardsInv, BooksFit, LiquidIsOpenPill
    <2>2. challenge.count = Cardinality(Events) /\ \A e, f \in Events : e # f => Referee[e] # Referee[f]
      BY DEF RewardsInv, ChallengeCountsPeople
    <2>3. challenge'.count <= challenge'.tier.target /\ challenge'.status # "succeeded"
      BY <1>1
    <2>4. ChallengeCountsPeople'
      BY <1>0, <1>1, <1>4, <2>2, <2>3 DEF ChallengeCountsPeople
    <2> QED BY <2>1, <2>4
  <1>6. MoneyExplained'
    BY <1>0, <1>1, <1>4 DEF RewardsInv, MoneyExplained
  <1> QED BY <1>2, <1>3, <1>5, <1>6 DEF RewardsInv

-----------------------------------------------------------------------------
(* Transactions begin and take their locks *)

\* A worker that begins a transaction keeps the invariant.
LEMMA TasksKeep ==
    ASSUME RewardsInv, NEW p \in Workers, Tasks(p) \/ BeginProfile(p) \/ BeginActivate(p)
    PROVE  RewardsInv'
  <1>1. Profile \in Sources /\ Profile \notin Orders /\ Orders \subseteq Sources
        /\ {"award", "profile", "settle", "activate"} \subseteq JobKinds
    BY LocksDiffer DEF Sources, JobKinds
  <1>2. ASSUME NEW o \in Orders, Deliver(p, o) \/ Recover(p, o) PROVE RewardsInv'
    BY <1>1, <1>2, BeginKeeps DEF Deliver, Recover
  <1>3. CASE BeginSettle(p) \/ BeginProfile(p) \/ BeginActivate(p)
    BY <1>1, <1>3, BeginKeeps DEF BeginSettle, BeginProfile, BeginActivate
  <1> QED BY <1>2, <1>3 DEF Tasks

\* A job that takes a free lock and goes on, or goes on without a lock.
LEMMA GoesOn ==
    ASSUME RewardsInv, NEW p \in Workers, job[p] # NoJob, NEW pc \in JobPhases, Advance(p, pc),
           UNCHANGED lock \/ \E x \in Locks : Free(x) /\ Take(p, x)
    PROVE  /\ job' \in [Workers -> Job]
           /\ job'[p].kind = job[p].kind /\ job'[p].source = job[p].source /\ job'[p].pc = pc
           /\ \A q \in Workers \ {p} : job'[q] = job[q]
           /\ lock' \in [Locks -> Workers \cup {Nobody}]
           /\ \A y \in Locks : lock[y] # Nobody => lock'[y] = lock[y]
  BY Advances, Takes DEF RewardsInv, TypeOK

\* A purchase or a profile without a reward is locked.
LEMMA LockSourceKeeps ==
    ASSUME RewardsInv, NEW p \in Workers, LockOrder(p) \/ LockProfile(p)
    PROVE  RewardsInv'
  <1> DEFINE s == job[p].source
  <1>0. /\ TypeOK /\ NoWrite /\ JobSound(p) /\ job[p].kind \in {"award", "profile"} /\ job[p].pc = "start"
        /\ Free(s)
    BY LocksDiffer DEF RewardsInv, JobsSound, JobSound, Fits, LockOrder, LockProfile, Profile
  <1>1. s \in Sources /\ s \in Locks /\ job[p] # NoJob
    BY <1>0, JobTypes, Idleness, LocksDiffer DEF JobKinds
  <1>2. CASE Finish(p)
    BY <1>0, <1>2, FinishKeeps
  <1>3. ASSUME NEW pc, reward[s] = "none", Take(p, s), Advance(p, pc),
               pc = (IF job[p].kind = "award" THEN "order" ELSE "point")
        PROVE  RewardsInv'
    <2>1. pc \in JobPhases
      BY <1>3 DEF JobPhases
    <2>2. /\ job' \in [Workers -> Job]
          /\ job'[p].kind = job[p].kind /\ job'[p].source = s /\ job'[p].pc = pc
          /\ \A q \in Workers \ {p} : job'[q] = job[q]
          /\ lock' \in [Locks -> Workers \cup {Nobody}]
          /\ \A y \in Locks : lock[y] # Nobody => lock'[y] = lock[y]
      BY <1>0, <1>1, <1>3, <2>1, GoesOn
    <2>3. lock'[s] = p
      BY <1>0, <1>1, <1>3, Takes
    <2>4. JobSound(p)'
      BY <1>0, <1>3, <2>2, <2>3 DEF JobSound, Fits, HoldsSource, HoldsChallenge, NoWrite
    <2> QED BY <1>0, <2>2, <2>4, JobStepKeeps
  <1> QED
    BY <1>0, <1>2, <1>3, LocksDiffer DEF LockOrder, LockProfile, JobSound, Fits, Profile

\* The challenge is locked for a purchase that may count, and the lock is
\* kept without a word of it if it does not.
LEMMA LockChallengeKeeps == ASSUME RewardsInv, NEW p \in Workers, LockChallenge(p) PROVE RewardsInv'
  <1> DEFINE o == job[p].source
  <1>0. /\ TypeOK /\ NoWrite /\ JobSound(p) /\ job[p].pc = "program" /\ job[p].kind = "award"
        /\ "program" \in JobPhases
    BY DEF RewardsInv, JobsSound, JobSound, Fits, LockChallenge, JobPhases
  <1>1. o \in Sources /\ o \in Locks /\ job[p] # NoJob /\ "challenge" \in Locks /\ o # "challenge"
        /\ p # Nobody
    BY <1>0, JobTypes, Idleness, LocksDiffer
  <1>2. lock[o] = p /\ reward[o] = "none" /\ o \in Orders
    BY <1>0 DEF JobSound, Fits, HoldsSource
  <1>3. PICK pc \in {"record", "point"} :
          /\ Advance(p, pc)
          /\ pc = "record" => /\ challenge.status = "active" /\ Qualifies(o)
                              /\ Free("challenge") /\ Take(p, "challenge")
          /\ UNCHANGED lock \/ \E x \in Locks : Free(x) /\ Take(p, x)
    BY <1>1 DEF LockChallenge, InWindow
  <1>4. /\ job' \in [Workers -> Job]
        /\ job'[p].kind = "award" /\ job'[p].source = o /\ job'[p].pc = pc
        /\ \A q \in Workers \ {p} : job'[q] = job[q]
        /\ lock' \in [Locks -> Workers \cup {Nobody}]
        /\ \A y \in Locks : lock[y] # Nobody => lock'[y] = lock[y]
    BY <1>0, <1>1, <1>3, GoesOn DEF JobPhases
  <1>5. pc = "record" => lock'["challenge"] = p
    BY <1>0, <1>1, <1>3, Takes
  <1>6. JobSound(p)'
    <2>1. Fits(p)' /\ HoldsSource(p)'
      BY <1>0, <1>1, <1>2, <1>3, <1>4 DEF Fits, HoldsSource, NoWrite
    <2>2. Events' = Events /\ challenge' = challenge
      BY <1>0 DEF NoWrite, Events, Having
    <2>3. HoldsChallenge(p)'
      BY <1>3, <1>4, <1>5, <2>2 DEF HoldsChallenge, Qualifies
    <2> QED BY <2>1, <2>3 DEF JobSound
  <1> QED BY <1>0, <1>1, <1>4, <1>6, JobStepKeeps

\* Account and wallet are locked on the way to the commit, and the wallet for
\* a settlement.
LEMMA LockMoneyKeeps ==
    ASSUME RewardsInv, NEW p \in Workers, LockAccount(p) \/ LockWallet(p) \/ SettleWallet(p)
    PROVE  RewardsInv'
  <1> DEFINE s == job[p].source
  <1>0. /\ TypeOK /\ NoWrite /\ JobSound(p) /\ job[p].pc \in {"point", "account", "challenge"}
        /\ job[p].pc \in JobPhases
        /\ job[p].pc = "challenge" => job[p].kind \in {"award", "settle"}
    BY DEF RewardsInv, JobsSound, LockAccount, LockWallet, SettleWallet, JobPhases
  <1>1. s \in Sources /\ s \in Locks /\ job[p] # NoJob /\ {"account", "wallet", "challenge"} \subseteq Locks
        /\ p # Nobody
    BY <1>0, JobTypes, Idleness, LocksDiffer
  <1>2. CASE Finish(p)
    BY <1>0, <1>2, FinishKeeps
  <1>3. ASSUME NEW pc, Advance(p, pc), \E x \in Locks : Free(x) /\ Take(p, x),
               pc \in (IF job[p].pc = "challenge" THEN {"wallet"} ELSE {"account", "commit"})
        PROVE  RewardsInv'
    <2>1. pc \in JobPhases
      BY <1>3 DEF JobPhases
    <2>2. /\ job' \in [Workers -> Job]
          /\ job'[p].kind = job[p].kind /\ job'[p].source = s /\ job'[p].pc = pc
          /\ \A q \in Workers \ {p} : job'[q] = job[q]
          /\ lock' \in [Locks -> Workers \cup {Nobody}]
          /\ \A y \in Locks : lock[y] # Nobody => lock'[y] = lock[y]
      BY <1>1, <1>3, <2>1, GoesOn
    <2>3. Events' = Events /\ challenge' = challenge /\ reward' = reward
      BY <1>0 DEF NoWrite, Events, Having
    <2>4. Fits(p)' /\ HoldsSource(p)'
      BY <1>0, <1>1, <1>3, <2>2, <2>3 DEF JobSound, Fits, HoldsSource
    <2>5. HoldsChallenge(p)'
      BY <1>0, <1>1, <1>3, <2>2, <2>3 DEF JobSound, Fits, HoldsChallenge
    <2>6. JobSound(p)'
      BY <2>4, <2>5 DEF JobSound
    <2> QED BY <1>0, <1>1, <2>2, <2>6, JobStepKeeps
  <1>4. CASE LockAccount(p)
    BY <1>1, <1>3, <1>4 DEF LockAccount
  <1>5. CASE LockWallet(p)
    BY <1>1, <1>2, <1>3, <1>5 DEF LockWallet
  <1>6. CASE SettleWallet(p)
    BY <1>1, <1>2, <1>3, <1>6 DEF SettleWallet
  <1> QED BY <1>4, <1>5, <1>6

\* A settlement and an activation find the challenge as they need it.
LEMMA LockRowKeeps == ASSUME RewardsInv, NEW p \in Workers, LockRow(p) PROVE RewardsInv'
  <1>0. /\ TypeOK /\ NoWrite /\ JobSound(p) /\ job[p].pc = "start" /\ Free("challenge")
        /\ job[p].kind \in {"settle", "activate"}
    BY DEF RewardsInv, JobsSound, LockRow
  <1>1. job[p] # NoJob /\ "challenge" \in Locks /\ "challenge" \in JobPhases /\ p # Nobody
    BY <1>0, JobTypes, Idleness, LocksDiffer DEF JobKinds, JobPhases
  <1>2. CASE Finish(p)
    BY <1>0, <1>2, FinishKeeps
  <1>3. CASE /\ challenge.status = (IF job[p].kind = "settle" THEN "active" ELSE "awaiting_funds")
             /\ Take(p, "challenge") /\ Advance(p, "challenge")
    <2>1. /\ job' \in [Workers -> Job]
          /\ job'[p].kind = job[p].kind /\ job'[p].source = job[p].source /\ job'[p].pc = "challenge"
          /\ \A q \in Workers \ {p} : job'[q] = job[q]
          /\ lock' \in [Locks -> Workers \cup {Nobody}]
          /\ \A y \in Locks : lock[y] # Nobody => lock'[y] = lock[y]
      BY <1>0, <1>1, <1>3, GoesOn
    <2>2. lock'["challenge"] = p
      BY <1>0, <1>1, <1>3, Takes
    <2>3. JobSound(p)'
      BY <1>0, <1>3, <2>1, <2>2 DEF JobSound, Fits, HoldsSource, HoldsChallenge, NoWrite
    <2> QED BY <1>0, <1>1, <2>1, <2>3, JobStepKeeps
  <1> QED BY <1>2, <1>3 DEF LockRow

\* A rollback writes nothing.
LEMMA RollbackKeeps == ASSUME RewardsInv, NEW p \in Workers, Abort(p) \/ Die(p) PROVE RewardsInv'
  BY FinishKeeps DEF Abort, Die

-----------------------------------------------------------------------------
(* Transactions that write *)

\* A commit rewards sources whose row it holds, and changes the challenge only
\* under its row.
LEMMA CommitIsSound ==
    ASSUME RewardsInv, NEW p \in Workers, Finish(p),
           \A s \in Sources : lock[s] # p /\ reward[s] = "none" => reward'[s] = "none",
           lock["challenge"] = p \/ (challenge' = challenge /\ Events' = Events)
    PROVE  JobsSound'
  <1>1. ASSUME NEW q \in Workers \ {p} PROVE JobSound(q)'
    BY Finishes, OthersStaySound, Idleness DEF RewardsInv, JobsSound
  <1>2. JobSound(p)'
    BY Finishes, IdleIsSound DEF RewardsInv
  <1> QED BY <1>1, <1>2 DEF JobsSound

\* The sets of rewards of each kind, whatever else is written.
Books == <<Having("pill"), Having("cashed"), Having("won"), Events, challenge, wallet,
           account.liquid, reward[Profile]>>

\* What is said of the books holds while they are not written.
LEMMA BooksUnchanged ==
    ASSUME RewardsInv, UNCHANGED Books
    PROVE  BooksFit' /\ MoneyExplained' /\ LiquidIsOpenPill' /\ ChallengeCountsPeople'
  BY DEF Books, wallet, RewardsInv, BooksFit, MoneyExplained, LiquidIsOpenPill, ChallengeCountsPeople

\* What an award knows when it goes beyond its first lock.
LEMMA AwardFacts ==
    ASSUME RewardsInv, NEW p \in Workers, job[p].kind = "award", job[p].pc \in JobPhases \ {"start"}
    PROVE  /\ job[p].source \in Orders /\ job[p].source \in Sources /\ job[p].source # Profile
           /\ Referee[job[p].source] \in Referees
           /\ lock[job[p].source] = p /\ reward[job[p].source] = "none"
           /\ job[p] # NoJob
  <1>1. JobSound(p) /\ job[p] # NoJob
    BY Idleness DEF RewardsInv, JobsSound
  <1>2. job[p].source \in Orders
    BY <1>1 DEF JobSound, Fits
  <1> QED BY <1>1, <1>2, LocksDiffer DEF JobSound, HoldsSource, Sources, Referees

\* The referral expires, or the purchase is too cheap to be worth a point.
LEMMA LockProgramKeeps == ASSUME RewardsInv, NEW p \in Workers, LockProgram(p) PROVE RewardsInv'
  <1> DEFINE o == job[p].source
  <1>0. /\ TypeOK /\ JobSound(p) /\ job[p].pc = "order" /\ job[p].kind = "award" /\ "order" \in JobPhases
        /\ UNCHANGED <<purchases, converted, challenge, window, wallet, usable, account>>
    BY DEF RewardsInv, JobsSound, JobSound, Fits, LockProgram, JobPhases
  <1>1. /\ o \in Orders /\ o \in Sources /\ o # Profile /\ Referee[o] \in Referees
        /\ lock[o] = p /\ reward[o] = "none" /\ job[p] # NoJob
    BY <1>0, AwardFacts
  <1>2. CASE /\ Finish(p)
             /\ reward' \in {reward, [reward EXCEPT ![o] = "zero"]}
             /\ referral' \in {referral, [referral EXCEPT ![Referee[o]] = "expired"]}
    <2>1. TypeOK'
      <3>1. job' \in [Workers -> Job] /\ lock' \in [Locks -> Workers \cup {Nobody}]
        BY <1>0, <1>2, Finishes
      <3>2. reward' \in [Sources -> RewardStatus]
        BY <1>0, <1>2 DEF TypeOK, RewardStatus
      <3>3. referral' \in [Referees -> {"pending", "lapsed", "expired", "converted", "rewarded"}]
        BY <1>0, <1>2 DEF TypeOK
      <3> QED BY <1>0, <3>1, <3>2, <3>3 DEF TypeOK, purchases, wallet
    <2>2. \A s \in Sources : reward'[s] = reward[s] \/ (s = o /\ reward'[s] = "zero")
      BY <1>0, <1>2 DEF TypeOK
    <2>3. UNCHANGED Books
      BY <1>0, <1>1, <2>2 DEF Books, Having, Events, Sources
    <2>4. JobsSound'
      BY <1>0, <1>1, <1>2, <2>2, <2>3, CommitIsSound DEF Books
    <2> QED BY <2>1, <2>3, <2>4, BooksUnchanged DEF RewardsInv
  <1>3. CASE Take(p, "program") /\ Advance(p, "program") /\ UNCHANGED <<referral, reward>>
    <2>1. Free("program") /\ "program" \in Locks /\ "program" \in JobPhases /\ p # Nobody /\ o \in Locks
      BY <1>1, LocksDiffer, Idleness DEF LockProgram, JobPhases
    <2>2. NoWrite
      BY <1>0, <1>3 DEF NoWrite
    <2>3. /\ job' \in [Workers -> Job]
          /\ job'[p].kind = job[p].kind /\ job'[p].source = o /\ job'[p].pc = "program"
          /\ \A q \in Workers \ {p} : job'[q] = job[q]
          /\ lock' \in [Locks -> Workers \cup {Nobody}]
          /\ \A y \in Locks : lock[y] # Nobody => lock'[y] = lock[y]
      BY <1>1, <1>3, <2>1, GoesOn
    <2>4. JobSound(p)'
      BY <1>0, <1>1, <1>3, <2>1, <2>3 DEF JobSound, Fits, HoldsSource, HoldsChallenge
    <2> QED BY <2>1, <2>2, <2>3, <2>4, JobStepKeeps
  <1> QED BY <1>2, <1>3 DEF LockProgram

\* Entry money is frozen for a challenge that awaits it.
LEMMA ActivateKeeps == ASSUME RewardsInv, NEW p \in Workers, Activate(p) PROVE RewardsInv'
  <1>0. /\ TypeOK /\ JobSound(p) /\ job[p].kind = "activate" /\ job[p].pc = "challenge" /\ Finish(p)
        /\ UNCHANGED <<purchases, referral, converted, reward, bonus, usable, account>>
    BY DEF RewardsInv, JobsSound, Activate
  <1>1. lock["challenge"] = p /\ challenge.status = "awaiting_funds" /\ challenge \in ChallengeRows
    BY <1>0 DEF JobSound, HoldsChallenge, TypeOK, ChallengeRows
  <1>2. CASE UNCHANGED <<cash, frozen, challenge, window>>
    <2>1. NoWrite
      BY <1>0, <1>2 DEF NoWrite, purchases, wallet
    <2> QED BY <1>0, <2>1, FinishKeeps
  <1>3. CASE /\ cash >= challenge.tier.fee
             /\ cash' = cash - challenge.tier.fee /\ frozen' = frozen + challenge.tier.fee
             /\ challenge' = [challenge EXCEPT !.status = "active"]
             /\ window' = "open"
    <2>1. /\ challenge' = [status |-> "active", tier |-> challenge.tier, count |-> challenge.count]
          /\ challenge.tier \in Tiers \cup {NoTier} /\ challenge.count = 0
      BY <1>1, <1>3, StatusEdit, ChallengeFields DEF RewardsInv, BooksFit
    <2>2. challenge.tier.fee \in Nat /\ challenge.tier.target \in Nat
      BY <2>1, RewardsAssumption DEF NoTier
    <2>3. cash \in Nat /\ frozen \in Nat /\ frozen = 0
      BY <1>0, <1>1 DEF TypeOK, RewardsInv, MoneyExplained
    <2>4. TypeOK'
      <3>1. challenge' \in ChallengeRows
        BY <2>1 DEF ChallengeRows, ChallengeStatus
      <3>2. cash' \in Nat /\ frozen' \in Nat
        BY <1>3, <2>2, <2>3
      <3>3. job' \in [Workers -> Job] /\ lock' \in [Locks -> Workers \cup {Nobody}]
        BY <1>0, Finishes
      <3> QED BY <1>0, <1>3, <3>1, <3>2, <3>3 DEF TypeOK, ChallengeRows, purchases, Phases
    <2>5. JobsSound'
      BY <1>0, <1>1, CommitIsSound
    <2>6. /\ Events' = Events /\ Having("pill")' = Having("pill")
          /\ Having("cashed")' = Having("cashed") /\ Having("won")' = Having("won")
      BY <1>0 DEF Events, Having
    <2>7. BooksFit' /\ LiquidIsOpenPill'
      BY <1>0, <2>1, <2>6 DEF RewardsInv, BooksFit, LiquidIsOpenPill
    <2>8. MoneyExplained'
      <3>1. cash' + frozen' = cash + frozen /\ frozen' = challenge'.tier.fee /\ challenge'.status = "active"
        BY <1>3, <2>1, <2>2, <2>3
      <3>2. bonus' = bonus
        BY <1>0
      <3> QED BY <2>6, <3>1, <3>2 DEF RewardsInv, MoneyExplained
    <2>9. ChallengeCountsPeople'
      <3>1. challenge.count = Cardinality(Events) /\ \A e, f \in Events : e # f => Referee[e] # Referee[f]
        BY DEF RewardsInv, ChallengeCountsPeople
      <3>2. challenge'.count = 0 /\ challenge'.tier = challenge.tier /\ challenge'.status = "active"
        BY <2>1
      <3> QED BY <2>1, <2>2, <2>6, <3>1, <3>2 DEF ChallengeCountsPeople
    <2> QED BY <2>4, <2>5, <2>7, <2>8, <2>9 DEF RewardsInv
  <1> QED BY <1>2, <1>3 DEF Activate

\* Complete boxes leave no room for another: with the new pill the open ones
\* fill one box at most.
LEMMA GroupsLeaveLess ==
    ASSUME RewardsInv, NEW s \in Sources, reward[s] = "none", NEW group \in Groups(s)
    PROVE  /\ group \subseteq Open(s) /\ Open(s) \in SUBSET Sources
           /\ Cardinality(Open(s) \ group) \in Nat
           /\ Cardinality(Open(s) \ group) < PointsPerPill
  <1> DEFINE n == Cardinality(Open(s))
  <1>1. Open(s) \in SUBSET Sources /\ Having("pill") \in SUBSET Sources /\ s \notin Having("pill")
    BY DEF Open, Having
  <1>2. IsFiniteSet(Open(s)) /\ n \in Nat /\ IsFiniteSet(Having("pill"))
    BY <1>1, RewardWeights
  <1>3. n = Cardinality(Having("pill")) + 1
    BY <1>1, <1>2, FS_AddElement DEF Open
  <1>4. PointsPerPill \in Nat \ {0} /\ n <= PointsPerPill
    <2>1. Cardinality(Having("pill")) \in Nat /\ Cardinality(Having("pill")) < PointsPerPill
      BY <1>1, RewardWeights DEF RewardsInv, LiquidIsOpenPill
    <2>2. PointsPerPill \in Nat \ {0}
      BY RewardsAssumption
    <2> QED BY <1>3, <2>1, <2>2
  <1>5. group \subseteq Open(s) /\ Cardinality(group) = (n \div PointsPerPill) * PointsPerPill
    BY DEF Groups, kSubset
  <1>6. IsFiniteSet(group) /\ Cardinality(Open(s) \ group) = n - Cardinality(group)
    <2>1. IsFiniteSet(group) /\ Open(s) \cap group = group
      BY <1>2, <1>5, FS_Subset
    <2> QED BY <1>2, <2>1, FS_Difference
  <1> HIDE DEF n
  <1>7. CASE n < PointsPerPill
    <2>1. n \div PointsPerPill = 0
      BY <1>2, <1>4, <1>7
    <2>2. Cardinality(group) = 0
      BY <1>4, <1>5, <2>1
    <2> QED BY <1>1, <1>2, <1>5, <1>6, <1>7, <2>2
  <1>8. CASE n = PointsPerPill
    <2>1. n \div PointsPerPill = 1
      BY <1>4, <1>8
    <2>2. Cardinality(group) = n
      BY <1>4, <1>5, <1>8, <2>1
    <2> QED BY <1>1, <1>2, <1>4, <1>5, <1>6, <2>2
  <1> QED BY <1>2, <1>4, <1>7, <1>8

\* What a pay-out makes of the sets of rewards.
LEMMA CashOutMoves ==
    ASSUME TypeOK, NEW s \in Sources, reward[s] = "none", NEW group, group \subseteq Open(s),
           Open(s) \in SUBSET Sources, CashOut(s, group)
    PROVE  /\ reward' \in [Sources -> RewardStatus]
           /\ Having("pill")' = Open(s) \ group
           /\ (Having("cashed") \cup Having("won"))' = (Having("cashed") \cup Having("won")) \cup group
           /\ (Having("cashed") \cup Having("won")) \cap group = {}
           /\ Events' = Events
           /\ \A t \in Sources \ {s} : reward[t] = "none" => reward'[t] = "none"
           /\ reward'[Profile] \in {reward[Profile], "pill", "cashed"}
  <1>1. \A t \in Sources : reward'[t] = IF t \in group THEN "cashed" ELSE IF t = s THEN "pill" ELSE reward[t]
    BY DEF CashOut
  <1>2. reward' \in [Sources -> RewardStatus]
    BY DEF CashOut, TypeOK, RewardStatus
  <1>3. \A t \in group : t \in Sources /\ (t = s \/ reward[t] = "pill")
    BY DEF Open, Having
  <1>4. Having("pill")' = Open(s) \ group
    BY <1>1, <1>3 DEF Open, Having
  <1>5. /\ (Having("cashed") \cup Having("won"))' = (Having("cashed") \cup Having("won")) \cup group
        /\ (Having("cashed") \cup Having("won")) \cap group = {}
    BY <1>1, <1>3 DEF Having
  <1>6. Events' = Events
    BY <1>1, <1>3 DEF Events, Having
  <1>7. \A t \in Sources \ {s} : reward[t] = "none" => reward'[t] = "none"
    BY <1>1, <1>3
  <1>8. reward'[Profile] \in {reward[Profile], "pill", "cashed"}
    BY <1>1 DEF Sources
  <1> QED BY <1>2, <1>4, <1>5, <1>6, <1>7, <1>8

\* A point is booked, and a box that is full is paid.
LEMMA CommitPointKeeps == ASSUME RewardsInv, NEW p \in Workers, CommitPoint(p) PROVE RewardsInv'
  <1> DEFINE s == job[p].source
             Paid == Having("cashed") \cup Having("won")
  <1>0. /\ TypeOK /\ JobSound(p) /\ job[p].kind \in {"award", "profile"} /\ job[p].pc = "commit"
        /\ Finish(p) /\ bonus' = (bonus \/ LevelReached(s))
        /\ UNCHANGED <<purchases, challenge, window, frozen, usable>>
    BY DEF RewardsInv, JobsSound, CommitPoint
  <1>1. /\ s \in Sources /\ lock[s] = p /\ reward[s] = "none" /\ s # "challenge"
        /\ job[p].kind = "award" => s \in Orders
    BY <1>0, JobTypes, Idleness, LocksDiffer DEF JobSound, HoldsSource, Fits, JobKinds
  <1>2. PICK group \in Groups(s) : CashOut(s, group) /\ cash' = cash + SumOf(group) + Bonus(s)
    BY DEF CommitPoint
  <1>3. /\ group \subseteq Open(s) /\ Open(s) \in SUBSET Sources
        /\ Cardinality(Open(s) \ group) \in Nat /\ Cardinality(Open(s) \ group) < PointsPerPill
    BY <1>1, GroupsLeaveLess
  <1>4. /\ reward' \in [Sources -> RewardStatus]
        /\ Having("pill")' = Open(s) \ group
        /\ Paid' = Paid \cup group /\ Paid \cap group = {}
        /\ Events' = Events
        /\ \A t \in Sources \ {s} : reward[t] = "none" => reward'[t] = "none"
        /\ reward'[Profile] \in {reward[Profile], "pill", "cashed"}
    BY <1>0, <1>1, <1>2, <1>3, CashOutMoves
  <1>5. account' = [liquid |-> Cardinality(Open(s) \ group), lifetime |-> account.lifetime + 1]
    BY <1>2 DEF CashOut
  <1>6. SumOf(Paid \cup group) = SumOf(Paid) + SumOf(group) /\ SumOf(Paid) \in Nat /\ SumOf(group) \in Nat
    <2>1. Paid \in SUBSET Sources /\ group \in SUBSET Sources
      BY <1>3 DEF Having
    <2> QED BY <1>4, <2>1, WorthAdds
  <1>7. /\ LevelBonus \in Nat /\ Bonus(s) \in Nat
        /\ (IF bonus' THEN LevelBonus ELSE 0) = (IF bonus THEN LevelBonus ELSE 0) + Bonus(s)
    <2>1. LevelBonus \in Nat
      BY RewardsAssumption
    <2> DEFINE before == IF bonus THEN LevelBonus ELSE 0
               after == IF bonus' THEN LevelBonus ELSE 0
    <2>2. \/ before = LevelBonus /\ after = LevelBonus /\ Bonus(s) = 0
          \/ before = 0 /\ after = LevelBonus /\ Bonus(s) = LevelBonus
          \/ before = 0 /\ after = 0 /\ Bonus(s) = 0
      <3>1. CASE bonus
        BY <1>0, <3>1, Zenon DEF Bonus
      <3>2. CASE ~bonus /\ LevelReached(s)
        BY <1>0, <3>2, Zenon DEF Bonus
      <3>3. CASE ~bonus /\ ~LevelReached(s)
        BY <1>0, <3>3, Zenon DEF Bonus
      <3> QED BY <3>1, <3>2, <3>3
    <2> HIDE DEF before, after
    <2>3. Bonus(s) \in Nat /\ after = before + Bonus(s)
      BY ONLY <2>1, <2>2
    <2> QED BY <2>1, <2>3 DEF before, after
  <1>8. cash \in Nat /\ frozen \in Nat /\ account.lifetime \in Nat
    BY <1>0 DEF TypeOK
  <1>9. TypeOK'
    <2>1. /\ referral' \in [Referees -> {"pending", "lapsed", "expired", "converted", "rewarded"}]
          /\ converted' \in [Referees -> Phases \cup {"no"}]
      <3>1. CASE s = Profile
        BY <1>0, <3>1 DEF CommitPoint, TypeOK
      <3>2. CASE s # Profile
        <4>1. /\ referral' = [referral EXCEPT ![Referee[s]] = "rewarded"]
              /\ converted' = [converted EXCEPT ![Referee[s]] = IF @ = "no" THEN window ELSE @]
          BY <3>2 DEF CommitPoint
        <4> QED BY <1>0, <4>1 DEF TypeOK
      <3> QED BY <3>1, <3>2
    <2>2. job' \in [Workers -> Job] /\ lock' \in [Locks -> Workers \cup {Nobody}]
      BY <1>0, Finishes
    <2>3. cash' \in Nat /\ account' \in [liquid : Nat, lifetime : Nat]
      BY <1>2, <1>3, <1>5, <1>6, <1>7, <1>8
    <2>4. bonus' \in BOOLEAN
      BY <1>0
    <2> QED BY <1>0, <1>4, <2>1, <2>2, <2>3, <2>4 DEF TypeOK, purchases
  <1>10. JobsSound'
    BY <1>0, <1>1, <1>4, CommitIsSound
  <1>11. BooksFit'
    BY <1>0, <1>4 DEF RewardsInv, BooksFit
  <1>12. LiquidIsOpenPill'
    BY <1>3, <1>4, <1>5 DEF LiquidIsOpenPill
  <1>13. ChallengeCountsPeople'
    BY <1>0, <1>4 DEF RewardsInv, ChallengeCountsPeople
  <1>14. MoneyExplained'
    <2>1. /\ cash + frozen = Money + SumOf(Paid) + IF bonus THEN LevelBonus ELSE 0
          /\ frozen = IF challenge.status = "active" THEN challenge.tier.fee ELSE 0
      BY DEF RewardsInv, MoneyExplained
    <2>2. SumOf(Paid)' = SumOf(Paid) + SumOf(group)
      BY <1>4, <1>6
    <2>3. Money \in Nat /\ (IF bonus THEN LevelBonus ELSE 0) \in Nat
      BY <1>7, RewardsAssumption
    <2>4. cash' + frozen' = Money + SumOf(Paid)' + IF bonus' THEN LevelBonus ELSE 0
      <3> HIDE DEF Paid
      <3> QED BY <1>0, <1>2, <1>6, <1>7, <1>8, <2>1, <2>2, <2>3
    <2> QED BY <1>0, <2>1, <2>4 DEF MoneyExplained
  <1> QED BY <1>9, <1>10, <1>11, <1>12, <1>13, <1>14 DEF RewardsInv

\* A purchase becomes a provisional point, unless it is the last one needed.
LEMMA RecordKeeps == ASSUME RewardsInv, NEW p \in Workers, Record(p) PROVE RewardsInv'
  <1> DEFINE o == job[p].source
  <1>0. /\ TypeOK /\ JobSound(p) /\ job[p].pc = "record" /\ job[p].kind = "award" /\ "record" \in JobPhases
        /\ UNCHANGED <<purchases, window, wallet, usable, account>>
    BY DEF RewardsInv, JobsSound, JobSound, Fits, Record, JobPhases
  <1>1. /\ o \in Orders /\ o \in Sources /\ o # Profile /\ Referee[o] \in Referees
        /\ lock[o] = p /\ reward[o] = "none" /\ job[p] # NoJob
    BY <1>0, AwardFacts
  <1>2. /\ lock["challenge"] = p /\ challenge.status = "active" /\ challenge \in ChallengeRows
        /\ challenge.count < challenge.tier.target
        /\ \A e \in Events : Referee[e] # Referee[o]
    BY <1>0 DEF JobSound, HoldsChallenge, TypeOK, ChallengeRows
  <1>3. challenge.count \in Nat /\ challenge.tier.target \in Nat
    BY <1>2, ChallengeFields, RewardsAssumption DEF NoTier
  <1>4. CASE /\ challenge.count + 1 >= challenge.tier.target
             /\ Advance(p, "challenge")
             /\ UNCHANGED <<lock, reward, challenge, referral, converted>>
    <2>1. NoWrite /\ "challenge" \in JobPhases
      BY <1>0, <1>4 DEF NoWrite, JobPhases
    <2>2. /\ job' \in [Workers -> Job]
          /\ job'[p].kind = job[p].kind /\ job'[p].source = o /\ job'[p].pc = "challenge"
          /\ \A q \in Workers \ {p} : job'[q] = job[q]
          /\ lock' \in [Locks -> Workers \cup {Nobody}]
          /\ \A y \in Locks : lock[y] # Nobody => lock'[y] = lock[y]
      BY <1>1, <1>4, <2>1, GoesOn
    <2>3. Events' = Events
      BY <1>4 DEF Events, Having
    <2>4. challenge.count + 1 = challenge.tier.target
      BY <1>2, <1>3, <1>4
    <2>5. JobSound(p)'
      BY <1>0, <1>1, <1>2, <1>4, <2>2, <2>3, <2>4 DEF JobSound, Fits, HoldsSource, HoldsChallenge
    <2> QED BY <1>4, <2>1, <2>2, <2>5, JobStepKeeps
  <1>5. CASE /\ challenge.count + 1 < challenge.tier.target
             /\ reward' = [reward EXCEPT ![o] = "provisional"]
             /\ challenge' = [challenge EXCEPT !.count = @ + 1]
             /\ referral' = [referral EXCEPT ![Referee[o]] = IF @ = "pending" THEN "converted" ELSE @]
             /\ converted' = [converted EXCEPT ![Referee[o]] = IF @ = "no" THEN window ELSE @]
             /\ Finish(p)
    <2>1. challenge' = [status |-> "active", tier |-> challenge.tier, count |-> challenge.count + 1]
      BY <1>2, <1>5, CountEdit
    <2>2. \A s \in Sources : reward'[s] = IF s = o THEN "provisional" ELSE reward[s]
      BY <1>0, <1>1, <1>5 DEF TypeOK
    <2>3. TypeOK'
      <3>1. challenge' \in ChallengeRows
        BY <1>2, <1>3, <2>1, ChallengeFields DEF ChallengeRows, ChallengeStatus
      <3>2. reward' \in [Sources -> RewardStatus]
        BY <1>0, <1>5 DEF TypeOK, RewardStatus
      <3>3. /\ referral' \in [Referees -> {"pending", "lapsed", "expired", "converted", "rewarded"}]
            /\ converted' \in [Referees -> Phases \cup {"no"}]
        BY <1>0, <1>5 DEF TypeOK
      <3>4. job' \in [Workers -> Job] /\ lock' \in [Locks -> Workers \cup {Nobody}]
        BY <1>0, <1>5, Finishes
      <3> QED BY <1>0, <3>1, <3>2, <3>3, <3>4 DEF TypeOK, ChallengeRows, purchases, wallet
    <2>4. /\ Events' = Events \cup {o} /\ o \notin Events /\ Events \in SUBSET Sources
          /\ Having("pill")' = Having("pill")
          /\ Having("cashed")' = Having("cashed") /\ Having("won")' = Having("won")
          /\ reward'[Profile] = reward[Profile]
      BY <1>1, <2>2 DEF Events, Having, Sources
    <2>5. JobsSound'
      BY <1>1, <1>2, <1>5, <2>2, CommitIsSound
    <2>6. BooksFit' /\ LiquidIsOpenPill'
      BY <1>0, <2>1, <2>4 DEF RewardsInv, BooksFit, LiquidIsOpenPill
    <2>7. MoneyExplained'
      <3>1. challenge'.tier = challenge.tier /\ challenge'.status = challenge.status
            /\ UNCHANGED <<cash, frozen, bonus>>
        BY <1>0, <1>2, <2>1 DEF wallet
      <3> QED BY <2>4, <3>1 DEF RewardsInv, MoneyExplained
    <2>8. ChallengeCountsPeople'
      <3>1. challenge.count = Cardinality(Events) /\ \A e, f \in Events : e # f => Referee[e] # Referee[f]
        BY DEF RewardsInv, ChallengeCountsPeople
      <3>2. Cardinality(Events') = challenge.count + 1
        BY <2>4, <3>1, RewardWeights, FS_AddElement
      <3>3. \A e, f \in Events' : e # f => Referee[e] # Referee[f]
        BY <1>2, <2>4, <3>1
      <3> QED BY <1>3, <1>5, <2>1, <3>2, <3>3 DEF ChallengeCountsPeople
    <2> QED BY <2>3, <2>5, <2>6, <2>7, <2>8 DEF RewardsInv
  <1> QED
    <2>1. challenge.count + 1 >= challenge.tier.target \/ challenge.count + 1 < challenge.tier.target
      BY <1>3
    <2> QED BY <1>3, <1>4, <1>5, <2>1 DEF Record

\* What a settlement makes of the sets of rewards.
LEMMA SettlementMoves ==
    ASSUME TypeOK, NEW own, own \subseteq Sources, \A s \in own : reward[s] = "none",
           NEW st \in {"won", "lost"},
           \A s \in Sources : reward'[s] = IF reward[s] = "provisional" \/ s \in own THEN st ELSE reward[s]
    PROVE  /\ Having("pill")' = Having("pill") /\ Having("cashed")' = Having("cashed")
           /\ Having("won")' = IF st = "won" THEN Having("won") \cup (Having("provisional") \cup own)
                                             ELSE Having("won")
           /\ (Having("cashed") \cup Having("won")) \cap (Having("provisional") \cup own) = {}
           /\ Events' = Events \cup own /\ Events \cap own = {}
           /\ \A s \in Sources \ own : reward[s] = "none" => reward'[s] = "none"
  <1>1. Having("pill")' = Having("pill") /\ Having("cashed")' = Having("cashed")
    BY DEF Having
  <1>2. Having("won")' = IF st = "won" THEN Having("won") \cup (Having("provisional") \cup own)
                                        ELSE Having("won")
    BY DEF Having
  <1>3. (Having("cashed") \cup Having("won")) \cap (Having("provisional") \cup own) = {}
    BY DEF Having
  <1>4. Events' = Events \cup own /\ Events \cap own = {}
    BY DEF Events, Having
  <1> QED BY <1>1, <1>2, <1>3, <1>4

\* The challenge is settled: the entry money returns, the points are final.
LEMMA SettleKeeps == ASSUME RewardsInv, NEW p \in Workers, Settle(p) PROVE RewardsInv'
  <1> DEFINE won == job[p].kind = "award"
             own == {job[p].source} \ {Profile}
             points == Having("provisional") \cup own
             fee == challenge.tier.fee
             end == IF won THEN "succeeded" ELSE "failed"
             Earned == Having("cashed") \cup Having("won")
  <1>0. /\ TypeOK /\ JobSound(p) /\ job[p].kind \in {"award", "settle"} /\ job[p].pc = "wallet"
        /\ "wallet" \in JobPhases /\ Finish(p)
        /\ UNCHANGED <<purchases, window, bonus, usable>>
    BY DEF RewardsInv, JobsSound, Settle, JobPhases
  <1>1. /\ lock["challenge"] = p /\ challenge.status = "active" /\ challenge \in ChallengeRows
        /\ won => challenge.count + 1 = challenge.tier.target
                  /\ \A e \in Events : Referee[e] # Referee[job[p].source]
    BY <1>0 DEF JobSound, HoldsChallenge, TypeOK, ChallengeRows
  <1>2. /\ fee \in Nat /\ challenge.tier.target \in Nat /\ challenge.count \in Nat
        /\ challenge.tier \in Tiers \cup {NoTier}
    BY <1>1, ChallengeFields, RewardsAssumption DEF NoTier
  <1>3. /\ own \subseteq Sources /\ Profile \notin own
        /\ \A s \in own : reward[s] = "none" /\ lock[s] = p
        /\ IF won THEN own = {job[p].source} /\ job[p].source \in Orders ELSE own = {}
    <2>1. CASE won
      BY <1>0, <2>1, AwardFacts
    <2>2. CASE ~won
      BY <1>0, <2>2 DEF JobSound, Fits
    <2> QED BY <2>1, <2>2
  <1>4. /\ reward' = [s \in Sources |-> IF s \notin points THEN reward[s]
                                        ELSE IF won THEN "won" ELSE "lost"]
        /\ challenge' = [challenge EXCEPT !.status = end, !.count = @ + Cardinality(own)]
        /\ account' = [liquid |-> Cardinality(Having("pill")),
                       lifetime |-> account.lifetime + IF won THEN Cardinality(points) ELSE 0]
        /\ cash' = cash + fee + IF won THEN SumOf(points) ELSE 0
        /\ frozen' = frozen - fee
    BY DEF Settle, PayOut
  <1>5. /\ reward' \in [Sources -> RewardStatus]
        /\ Having("pill")' = Having("pill")
        /\ Earned' = IF won THEN Earned \cup points ELSE Earned
        /\ Earned \cap points = {}
        /\ Events' = Events \cup own /\ Events \cap own = {}
        /\ \A s \in Sources \ own : reward[s] = "none" => reward'[s] = "none"
    <2> DEFINE st == IF won THEN "won" ELSE "lost"
    <2>1. st \in {"won", "lost"} /\ (st = "won" <=> won)
      OBVIOUS
    <2>2. \A s \in Sources : reward'[s] = IF reward[s] = "provisional" \/ s \in own THEN st ELSE reward[s]
      BY <1>4 DEF Having
    <2>3. reward' \in [Sources -> RewardStatus]
      BY <1>0, <1>4 DEF TypeOK, RewardStatus
    <2> HIDE DEF st, own
    <2>4. own \subseteq Sources /\ (\A s \in own : reward[s] = "none") /\ TypeOK
      BY <1>0, <1>3
    <2>5. /\ Having("pill")' = Having("pill") /\ Having("cashed")' = Having("cashed")
          /\ Having("won")' = IF st = "won" THEN Having("won") \cup points ELSE Having("won")
          /\ Earned \cap points = {}
          /\ Events' = Events \cup own /\ Events \cap own = {}
          /\ \A s \in Sources \ own : reward[s] = "none" => reward'[s] = "none"
      BY ONLY <2>1, <2>2, <2>4, SettlementMoves
    <2>6. Earned' = IF won THEN Earned \cup points ELSE Earned
      <3>1. CASE won
        <4>1. Having("won")' = Having("won") \cup points
          BY <2>1, <2>5, <3>1
        <4>2. Earned \cup points = Having("cashed") \cup (Having("won") \cup points)
          OBVIOUS
        <4> QED BY <2>5, <3>1, <4>1, <4>2
      <3>2. CASE ~won
        BY <2>1, <2>5, <3>2
      <3> QED BY <3>1, <3>2
    <2> QED BY <2>3, <2>5, <2>6
  <1>6. own \in SUBSET Sources /\ points \in SUBSET Sources /\ Earned \in SUBSET Sources
        /\ Events \in SUBSET Sources
    BY <1>3 DEF Having, Events
  <1>7. Cardinality(own) = IF won THEN 1 ELSE 0
    BY <1>3, FS_EmptySet, FS_Singleton
  <1>8. challenge' = [status |-> end, tier |-> challenge.tier, count |-> challenge.count + Cardinality(own)]
    BY <1>1, <1>4, SettlementEdit
  <1>9. SumOf(Earned \cup points) = SumOf(Earned) + SumOf(points) /\ SumOf(Earned) \in Nat
        /\ SumOf(points) \in Nat
    BY <1>5, <1>6, WorthAdds
  <1>10. cash \in Nat /\ frozen = fee
    BY <1>0, <1>1 DEF TypeOK, RewardsInv, MoneyExplained
  <1> HIDE DEF own, Earned
  <1>11. TypeOK'
    <2>1. challenge' \in ChallengeRows
      <3>1. end \in ChallengeStatus
        BY DEF ChallengeStatus, Settled
      <3>2. challenge.count + Cardinality(own) \in Nat
        BY <1>2, <1>7
      <3> QED BY <1>2, <1>8, <3>1, <3>2 DEF ChallengeRows
    <2>2. account' \in [liquid : Nat, lifetime : Nat]
      <3>1. account.lifetime \in Nat /\ Cardinality(points) \in Nat /\ Cardinality(Having("pill")) \in Nat
        BY <1>0, <1>6, RewardWeights DEF TypeOK, Having
      <3> QED BY <1>4, <3>1
    <2>3. cash' \in Nat /\ frozen' \in Nat
      <3> HIDE DEF points
      <3> QED BY <1>2, <1>4, <1>9, <1>10
    <2>4. /\ referral' \in [Referees -> {"pending", "lapsed", "expired", "converted", "rewarded"}]
          /\ converted' \in [Referees -> Phases \cup {"no"}]
      <3>1. CASE won
        <4>1. /\ referral' = [r \in Referees |-> IF \E s \in points : Referee[s] = r
                                                 THEN "rewarded" ELSE referral[r]]
              /\ converted' = [converted EXCEPT ![Referee[job[p].source]] = IF @ = "no" THEN window ELSE @]
          BY <3>1 DEF Settle, own
        <4> HIDE DEF points
        <4> QED BY <1>0, <4>1 DEF TypeOK
      <3>2. CASE ~won
        BY <1>0, <3>2 DEF Settle, TypeOK
      <3> QED BY <3>1, <3>2
    <2>5. job' \in [Workers -> Job] /\ lock' \in [Locks -> Workers \cup {Nobody}]
      BY <1>0, Finishes
    <2> QED BY <1>0, <1>5, <2>1, <2>2, <2>3, <2>4, <2>5 DEF TypeOK, ChallengeRows, purchases
  <1>12. JobsSound'
    BY <1>0, <1>1, <1>3, <1>5, CommitIsSound
  <1>13. BooksFit'
    <2>1. reward[Profile] \in {"none", "pill", "cashed"} /\ Profile \in Sources
      BY DEF RewardsInv, BooksFit, Sources
    <2>2. reward'[Profile] = reward[Profile]
      BY <1>3, <1>4, <2>1 DEF Having
    <2> QED BY <1>8, <2>1, <2>2 DEF BooksFit
  <1>14. LiquidIsOpenPill'
    BY <1>4, <1>5 DEF RewardsInv, LiquidIsOpenPill
  <1>15. ChallengeCountsPeople'
    <2>1. /\ challenge.count = Cardinality(Events) /\ \A e, f \in Events : e # f => Referee[e] # Referee[f]
          /\ challenge.count <= challenge.tier.target
      BY DEF RewardsInv, ChallengeCountsPeople
    <2>2. CASE won
      <3>1. own = {job[p].source}
        BY <1>3, <2>2
      <3>2. Cardinality(Events') = challenge.count + 1
        BY <1>5, <1>6, <2>1, <3>1, RewardWeights, FS_AddElement
      <3>3. \A e, f \in Events' : e # f => Referee[e] # Referee[f]
        BY <1>1, <1>5, <2>1, <2>2, <3>1
      <3> QED BY <1>1, <1>2, <1>7, <1>8, <2>2, <3>2, <3>3 DEF ChallengeCountsPeople
    <2>3. CASE ~won
      BY <1>2, <1>3, <1>5, <1>7, <1>8, <2>1, <2>3 DEF ChallengeCountsPeople
    <2> QED BY <2>2, <2>3
  <1>16. MoneyExplained'
    <2>1. cash + frozen = Money + SumOf(Earned) + IF bonus THEN LevelBonus ELSE 0
      BY DEF RewardsInv, MoneyExplained, Earned
    <2>2. frozen' = 0 /\ challenge'.status # "active"
      BY <1>2, <1>4, <1>8, <1>10
    <2>3. SumOf(Earned)' = SumOf(Earned) + IF won THEN SumOf(points) ELSE 0
      BY <1>5, <1>9
    <2>4. Money \in Nat
      BY RewardsAssumption
    <2> DEFINE extra == IF bonus THEN LevelBonus ELSE 0
               gain == IF won THEN SumOf(points) ELSE 0
    <2>5. extra \in Nat /\ gain \in Nat /\ extra' = extra
      BY <1>0, <1>9, RewardsAssumption
    <2>6. cash' + frozen' = Money + SumOf(Earned)' + extra'
      <3>1. cash + frozen = Money + SumOf(Earned) + extra
        BY <2>1
      <3>2. cash' = cash + fee + gain /\ SumOf(Earned)' = SumOf(Earned) + gain
        BY <1>4, <2>3
      <3> HIDE DEF extra, gain, fee
      <3> QED BY <1>2, <1>9, <1>10, <2>2, <2>4, <2>5, <3>1, <3>2
    <2> QED BY <2>2, <2>6 DEF MoneyExplained, Earned
  <1> QED BY <1>11, <1>12, <1>13, <1>14, <1>15, <1>16 DEF RewardsInv

-----------------------------------------------------------------------------
(* The invariant holds *)

\* Each step of a transaction keeps the invariant.
LEMMA StepKeeps == ASSUME RewardsInv, NEW p \in Workers, Step(p) PROVE RewardsInv'
  BY LockSourceKeeps, LockProgramKeeps, LockChallengeKeeps, LockMoneyKeeps, LockRowKeeps,
     CommitPointKeeps, ActivateKeeps, RecordKeeps, SettleKeeps, RollbackKeeps DEF Step

\* So does a step that changes nothing.
LEMMA StutterKeepsRewardsInv == ASSUME RewardsInv, UNCHANGED vars PROVE RewardsInv'
  <1>1. TypeOK'
    BY DEF RewardsInv, TypeOK, vars
  <1> QED BY <1>1, SurroundingsKeep DEF vars, wallet

\* The invariant is inductive.
LEMMA NextPreservesRewardsInv == RewardsInv /\ [Next]_vars => RewardsInv'
  BY StutterKeepsRewardsInv, CustomersKeep, OffersKeep, TasksKeep, StepKeeps, RollbackKeeps
  DEF Next, Surroundings

\* Every reachable state satisfies the inductive invariant.
THEOREM RewardsInvariant == Spec => []RewardsInv
  BY InitEstablishesRewardsInv, NextPreservesRewardsInv, PTL DEF Spec

\* The types of the columns.
THEOREM TypeCorrect == Spec => []TypeOK
  <1>1. RewardsInv => TypeOK
    BY DEF RewardsInv
  <1> QED BY <1>1, RewardsInvariant, PTL

\* No task that runs twice, dies or is aborted makes or loses money: the
\* inviter's wallet holds what was brought in and earned, each cashed pill and
\* won point once, and the entry money is frozen or back
\* (award_level_one_referral_for_payment, settle_challenge).
THEOREM MoneyIsExplained == Spec => []MoneyExplained
  <1>1. RewardsInv => MoneyExplained
    BY DEF RewardsInv
  <1> QED BY <1>1, RewardsInvariant, PTL

\* liquid_points always tells the open pills, and a full box never stays
\* unpaid (cash_out_completed_pills).
THEOREM LiquidPointsAreOpenPills == Spec => []LiquidIsOpenPill
  <1>1. RewardsInv => LiquidIsOpenPill
    BY DEF RewardsInv
  <1> QED BY <1>1, RewardsInvariant, PTL

\* A challenge counts distinct people, never more than its target, and has
\* succeeded only with all of them (maybe_record_challenge_referral).
THEOREM CountedPeopleDiffer == Spec => []ChallengeCountsPeople
  <1>1. RewardsInv => ChallengeCountsPeople
    BY DEF RewardsInv
  <1> QED BY <1>1, RewardsInvariant, PTL

-----------------------------------------------------------------------------
(* What is final *)

Final ==
    /\ challenge.status \in Settled => challenge' = challenge
    /\ \A s \in Sources : reward[s] \in {"zero", "cashed", "won", "lost"} => reward'[s] = reward[s]

\* Only the commits of a point, of a record and of a settlement write rewards,
\* where there was none, a pill or a provisional point; and only a challenge
\* that is not settled is offered, chosen, activated, counted for or settled.
LEMMA StepsAreFinal == RewardsInv /\ [Next]_vars => Final
  <1> SUFFICES ASSUME RewardsInv, [Next]_vars PROVE Final
    OBVIOUS
  <1>0. TypeOK /\ JobsSound
    BY DEF RewardsInv
  <1>1. CASE UNCHANGED <<challenge, reward>>
    BY <1>1 DEF Final
  <1>2. CASE UNCHANGED vars \/ SetUsable \/ WindowEnds
             \/ (\E r \in Referees : Verify(r) \/ Lapse(r)) \/ \E o \in Orders : Pay(o)
    BY <1>1, <1>2 DEF vars, SetUsable, WindowEnds, Verify, Lapse, Pay
  <1>3. CASE Offer \/ Decline \/ \E t \in Tiers : ChooseTier(t)
    BY <1>3 DEF Final, Offer, Decline, ChooseTier, Settled
  <1>4. ASSUME NEW p \in Workers, Tasks(p) \/ BeginProfile(p) \/ BeginActivate(p) \/ Die(p) \/ Abort(p)
        PROVE  Final
    BY <1>1, <1>4 DEF Tasks, Deliver, Recover, BeginSettle, BeginProfile, BeginActivate, Die, Abort, NoWrite
  <1>5. ASSUME NEW p \in Workers,
               \/ LockOrder(p) \/ LockChallenge(p) \/ LockProfile(p) \/ LockAccount(p) \/ LockWallet(p)
               \/ LockRow(p) \/ SettleWallet(p)
        PROVE  Final
    BY <1>1, <1>5 DEF LockOrder, LockChallenge, LockProfile, LockAccount, LockWallet, LockRow,
       SettleWallet, NoWrite
  <1>6. ASSUME NEW p \in Workers, LockProgram(p) PROVE Final
    <2>1. job[p].pc = "order" /\ job[p].kind = "award" /\ "order" \in JobPhases \ {"start"}
      BY <1>0, <1>6 DEF LockProgram, JobsSound, JobSound, Fits, JobPhases
    <2>2. reward[job[p].source] = "none"
      BY <2>1, AwardFacts
    <2>3. challenge' = challenge /\ reward' \in {reward, [reward EXCEPT ![job[p].source] = "zero"]}
      BY <1>6 DEF LockProgram
    <2> QED BY <1>0, <2>2, <2>3 DEF Final, TypeOK
  <1>7. ASSUME NEW p \in Workers, CommitPoint(p) PROVE Final
    <2>1. /\ job[p].source \in Sources /\ reward[job[p].source] = "none" /\ challenge' = challenge
      BY <1>0, <1>7, JobTypes, Idleness DEF CommitPoint, JobsSound, JobSound, HoldsSource, JobKinds
    <2>2. PICK group \in Groups(job[p].source) : CashOut(job[p].source, group)
      BY <1>7 DEF CommitPoint
    <2>3. \A s \in group : s = job[p].source \/ reward[s] = "pill"
      BY <2>1, <2>2 DEF Groups, kSubset, Open, Having
    <2> QED BY <2>1, <2>2, <2>3 DEF Final, CashOut
  <1>8. ASSUME NEW p \in Workers, Activate(p) PROVE Final
    <2>1. challenge.status = "awaiting_funds"
      BY <1>0, <1>8 DEF Activate, JobsSound, JobSound, HoldsChallenge
    <2> QED BY <1>8, <2>1 DEF Activate, Final, Settled
  <1>9. ASSUME NEW p \in Workers, Record(p) PROVE Final
    <2>1. job[p].pc = "record" /\ job[p].kind = "award" /\ "record" \in JobPhases \ {"start"}
      BY <1>0, <1>9 DEF Record, JobsSound, JobSound, Fits, JobPhases
    <2>2. reward[job[p].source] = "none" /\ challenge.status = "active"
      BY <1>0, <2>1, AwardFacts DEF JobsSound, JobSound, HoldsChallenge
    <2>3. reward' \in {reward, [reward EXCEPT ![job[p].source] = "provisional"]}
      BY <1>9 DEF Record
    <2> QED BY <1>0, <2>2, <2>3 DEF Final, TypeOK, Settled
  <1>10. ASSUME NEW p \in Workers, Settle(p) PROVE Final
    <2>1. job[p].pc = "wallet" /\ challenge.status = "active" /\ "wallet" \in JobPhases \ {"start"}
      BY <1>0, <1>10 DEF Settle, JobsSound, JobSound, HoldsChallenge, JobPhases
    <2>2. \A s \in Sources : s \in Having("provisional") \cup ({job[p].source} \ {Profile})
                               => reward[s] \in {"none", "provisional"}
      <3>1. job[p].source # Profile => reward[job[p].source] = "none"
        BY <1>0, <2>1, AwardFacts DEF JobsSound, JobSound, Fits
      <3> QED BY <3>1 DEF Having
    <2>3. \A s \in Sources : s \notin Having("provisional") \cup ({job[p].source} \ {Profile})
                               => reward'[s] = reward[s]
      BY <1>10 DEF Settle
    <2> QED BY <2>1, <2>2, <2>3 DEF Final, Settled
  <1> QED BY <1>2, <1>3, <1>4, <1>5, <1>6, <1>7, <1>8, <1>9, <1>10 DEF Next, Surroundings, Step

\* Settled and declined challenges and final points are never reopened, paid
\* again or counted again (settle_challenge, decline_challenge).
THEOREM FinalIsFinal == Spec => FinalStaysFinal
  <1>1. RewardsInv /\ [Next]_vars =>
          [/\ challenge.status \in Settled => challenge' = challenge
           /\ \A s \in Sources : reward[s] \in {"zero", "cashed", "won", "lost"}
                                   => reward'[s] = reward[s]]_vars
    BY StepsAreFinal DEF Final
  <1> QED BY <1>1, RewardsInvariant, PTL DEF Spec, FinalStaysFinal
=============================================================================
