------------------------------ MODULE Invitations ------------------------------
(***************************************************************************)
(* First-touch attribution of a new user to the owner of a link:            *)
(* handle_start_command and _process_referral_sync of bot/handlers/start.py *)
(* with attribute_referral and track_referral_click of referrals/services.py*)
(*                                                                          *)
(* The bot handles every /start in a coroutine of its own.  Looking the     *)
(* user up, or creating it, and recording the visit are separated by        *)
(* awaits; the recording itself is one transaction, and all transactions of *)
(* the bot run in its one synchronous thread.                               *)
(***************************************************************************)
EXTENDS Naturals, Sequences

CONSTANTS
    Users,      \* people who may use the brand's bot
    Founders,   \* those who are its users at first
    Visits,     \* /start messages with the code of a link
    Nobody      \* no inviter

ASSUME InvitationsAssumption ==
    /\ Founders \subseteq Users
    /\ Nobody \notin Users

VARIABLES
    member,     \* users of the brand
    clicks,     \* clicks[u]: the ReferralClick rows of u, oldest first
    referrer,   \* referrer[u]: User.referred_by, and the Referral row
    visit       \* visit[v]: the coroutine that handles message v

invitations == <<member, clicks, referrer, visit>>

Click == [link : Users, registration : BOOLEAN]

Visit == [pc : {"none", "done"}] \cup
         [pc : {"arrived"}, user : Users, link : Users, created : BOOLEAN]

InvitationsInit ==
    /\ member = Founders
    /\ clicks = [u \in Users |-> <<>>]
    /\ referrer = [u \in Users |-> Nobody]
    /\ visit = [v \in Visits |-> [pc |-> "none"]]

Leave(v) == visit' = [visit EXCEPT ![v] = [pc |-> "done"]]

\* get_or_create_user: only the handler that creates the row sees a new user.
Arrive(v, u, r) ==
    /\ visit[v].pc = "none"
    /\ r \in member
    /\ visit' = [visit EXCEPT ![v] = [pc |-> "arrived", user |-> u, link |-> r,
                                      created |-> u \notin member]]
    /\ member' = member \cup {u}
    /\ UNCHANGED <<clicks, referrer>>

\* track_referral_click: one row per link and visitor.
Tracked(u, r, created) ==
    IF \E i \in DOMAIN clicks[u] : clicks[u][i].link = r
      THEN clicks[u]
      ELSE Append(clicks[u], [link |-> r, registration |-> created])

\* The transaction records the visit; the user's first visit, if it was the
\* one that registered the account, names the inviter.
Register(v) ==
    /\ visit[v].pc = "arrived"
    /\ LET u == visit[v].user
           r == visit[v].link
           rows == Tracked(u, r, visit[v].created)
       IN  \/ u = r /\ UNCHANGED <<clicks, referrer>>
           \/ /\ u # r
              /\ clicks' = [clicks EXCEPT ![u] = rows]
              /\ referrer' = IF rows[1] = [link |-> r, registration |-> TRUE]
                                /\ referrer[u] = Nobody
                               THEN [referrer EXCEPT ![u] = r] ELSE referrer
    /\ Leave(v)
    /\ UNCHANGED member

\* The transaction fails and is answered "failed", or the bot dies.
Fumble(v) ==
    /\ visit[v].pc = "arrived"
    /\ Leave(v)
    /\ UNCHANGED <<member, clicks, referrer>>

\* The inviter's code, typed by a user who has none yet.
TypeCode(u, r) ==
    /\ u \in member /\ r \in member /\ u # r
    /\ referrer[u] = Nobody
    /\ referrer' = [referrer EXCEPT ![u] = r]
    /\ UNCHANGED <<member, clicks, visit>>

InvitationsTypeOK ==
    /\ member \subseteq Users
    /\ clicks \in [Users -> Seq(Click)]
    /\ referrer \in [Users -> Users \cup {Nobody}]
    /\ visit \in [Visits -> Visit]

\* A user is registered through one link at most, founders through none, and is
\* counted once for a link: however visits of new users overlap, fail or are
\* repeated, no second click can name the inviter.  Inviters are users of the
\* brand, and nobody invites himself.
FirstTouch ==
    \A u \in Users :
        /\ \A i, j \in DOMAIN clicks[u] :
              \/ clicks[u][i].link = clicks[u][j].link
              \/ clicks[u][i].registration /\ clicks[u][j].registration
              => i = j
        /\ u \in Founders => \A i \in DOMAIN clicks[u] : ~clicks[u][i].registration
        /\ referrer[u] # Nobody => {u, referrer[u]} \subseteq member /\ referrer[u] # u

\* The clicks of a user, the first of them in particular, and the inviter are never
\* rewritten: "The recorded first touch is immutable" (start.py:131).
FirstTouchIsFinal ==
    [][\A u \in Users :
          /\ \A i \in DOMAIN clicks[u] : i \in DOMAIN clicks'[u] /\ clicks'[u][i] = clicks[u][i]
          /\ referrer[u] # Nobody => referrer'[u] = referrer[u]]_invitations
===============================================================================
