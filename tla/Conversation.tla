------------------------------ MODULE Conversation ------------------------------
(***************************************************************************)
(* The conversation of one Telegram user with the bot of one brand          *)
(* (bot/dispatcher.py, bot/handlers/base.py): a single BotState row says    *)
(* what the next typed message answers, and every handler writes it.        *)
(*                                                                          *)
(* A message is routed by the row read when it arrives and handled later,   *)
(* by a coroutine of its own, with that copy; other updates may be handled  *)
(* in between.  A pressed button is one step: the user waits for its        *)
(* screen.  CustomerScreens and StaffScreens give the handlers, BotScreens  *)
(* puts them together.                                                      *)
(***************************************************************************)
EXTENDS Integers, FiniteSets

CONSTANTS
    Items,      \* what a question may be about: an order, an amount, a
                \* subscription, a ticket, a field of an object, an audience
    Handlers,   \* coroutines that handle messages
    MaxForms,   \* bound on forms begun
    Plans,      \* sets of parts of the bot the user may visit in a behaviour
    None        \* no item

VARIABLES
    row,        \* BotState: current_state and state_data
    asked,      \* the last question the user was asked and did not leave
    handling,   \* handling[h]: the message h handles, with the row it was routed by
    profile,    \* which of name, phone and device are known
    gate,       \* the required channel: "none", "required" or "verified"
    past,       \* "onboarded": the profile was complete once; "bypassed": the
                \* user reached the menu in a way that skips the onboarding
    staff,      \* the user has admin access
    forms,      \* number of forms begun; a form is known by its number
    made,       \* made[kind][n]: objects made with the token of form n
    mixed,      \* kinds of objects made of the answers to several forms
    scene       \* the parts visited, and whether the user is hasty: answers
                \* forms on old screens, leaves them for a search; never changes

person == <<profile, gate, past, staff>>
goods == <<forms, made, mixed>>
botVars == <<row, asked, handling, person, goods, scene>>

Question(kind, part, of) == [kind |-> kind, part |-> part, of |-> of]
NoQuestion == Question("none", "none", None)

\* No answer is expected, but the text resets the row.
Unknown == Question("unknown", "none", None)

Get(data, key) == IF key \in DOMAIN data THEN data[key] ELSE None
Str(data, key) == IF key \in DOMAIN data THEN data[key] ELSE "none"

NoJob == [pc |-> "idle"]

-----------------------------------------------------------------------------
(* The row *)

\* dict.update: what data has of a key wins.
Merged(old, data) ==
    [key \in DOMAIN old \cup DOMAIN data |-> IF key \in DOMAIN data THEN data[key] ELSE old[key]]

\* update_user_state: data is merged into what is there, no data clears it.
Put(state, data) == row' = [state |-> state, data |-> Merged(row.data, data)]
Clear(state) == row' = [state |-> state, data |-> <<>>]
Replace(state, data) == row' = [state |-> state, data |-> data]

Ask(state, data, question) == Put(state, data) /\ asked' = question

\* The main menu, or a result with buttons only: no question is left.
Menu == Clear("main_menu") /\ asked' = NoQuestion

Complete == profile = {"name", "phone", "device"}
Gated == gate = "required" /\ Complete

-----------------------------------------------------------------------------
(* What the dispatcher takes a message for, by the row it reads *)

SupportReading(data) ==
    LET step == Str(data, "step") IN
    IF step \in {"subject", "description"} THEN Question("ticket", step, data.ticket_id)
    ELSE IF step = "reply" THEN Question("reply", "none", data.ticket_id)
    ELSE IF step = "search_faq" THEN Question("faq", "none", None)
    ELSE NoQuestion

PaymentReading(data) ==
    LET step == Str(data, "step")
        action == Str(data, "action")
    IN
    IF action = "wallet_charge" /\ step = "waiting_custom_amount"
    THEN Question("custom_amount", "none", None)
    ELSE IF action = "wallet_crypto_txid" /\ step = "waiting_txid"
    THEN Question("txid", "none", data.payment_id)
    ELSE IF action = "wallet_coupon" /\ step = "waiting_coupon"
    THEN Question("coupon", "none", None)
    ELSE IF action = "purchase_coupon" /\ step = "waiting_purchase_coupon"
    THEN Question("purchase_coupon", "none", data.order_id)
    ELSE IF action = "none" /\ step = "waiting_receipt" /\ "card_id" \in DOMAIN data
    THEN Question("order_receipt", "none", data.order_id)
    ELSE NoQuestion

\* The steps of the staff's forms that are typed, and those with a button.
TypedSteps == [
    add_panel_user  |-> {"name", "usage_limit", "package_days"},
    add_panel_admin |-> {"name", "telegram_id"},
    add_card        |-> {"bank_name", "card_number", "cardholder_name"},
    add_crypto      |-> {"name", "symbol", "wallet_address"},
    add_gateway     |-> {"name", "api_key", "secret_key"},
    broadcast       |-> {"message", "confirm"}]

\* Where the row keeps what an edited or searched object is.
Target == [
    edit_panel_user        |-> "user_uuid",
    order_admin_note       |-> "order_number",
    ticket_reply           |-> "ticket_id",
    edit_card              |-> "card_id",
    edit_crypto            |-> "wallet_id",
    edit_brand_name        |-> "none",
    edit_brand_description |-> "none",
    search_panel_user      |-> "none",
    search_panel_admin     |-> "none",
    search_payment         |-> "none"]

AdminReading(data) ==
    LET action == Str(data, "action")
        step == Str(data, "step")
    IN
    IF action = "control"
    THEN Question("control", data.control_action, data.object_id)
    ELSE IF action \in DOMAIN TypedSteps
    THEN IF step \in TypedSteps[action] THEN Question(action, step, data.form) ELSE NoQuestion
    ELSE IF /\ action \in DOMAIN Target
            /\ action \in {"edit_panel_user", "edit_card", "edit_crypto"} => step = "input"
    THEN Question(action, "none", Get(data, Target[action]))
    ELSE IF Str(data, "admin_action") = "search_user"
    THEN Question("search_user", "none", None)
    ELSE Unknown

TextReading(r) ==
    LET step == Str(r.data, "step") IN
    IF r.state = "profile_setup"
    THEN IF step \in {"name", "phone"} THEN Question("setup", step, None) ELSE NoQuestion
    ELSE IF r.state = "referral_setup" /\ step = "manual_referrer"
    THEN Question("referrer", "none", None)
    ELSE IF r.state = "profile_edit"
    THEN IF step = "waiting_input" THEN Question("profile", r.data.field, None) ELSE NoQuestion
    ELSE IF r.state = "subscription_management" /\ step = "rename_subscription"
    THEN Question("rename", "none", r.data.subscription_id)
    ELSE IF r.state = "support_ticket" THEN SupportReading(r.data)
    ELSE IF r.state = "payment_process" THEN PaymentReading(r.data)
    ELSE IF r.state = "admin_action" \/ Str(r.data, "admin_action") = "search_user"
    THEN AdminReading(r.data)
    ELSE NoQuestion

PhotoReading(r) ==
    LET waiting == r.state = "payment_process" /\ Str(r.data, "step") = "waiting_receipt" IN
    IF waiting /\ Str(r.data, "action") = "wallet_charge" /\ "amount" \in DOMAIN r.data
    THEN Question("wallet_receipt", "none", r.data.amount)
    ELSE IF waiting /\ Str(r.data, "action") # "wallet_charge" /\ "card_id" \in DOMAIN r.data
    THEN Question("order_receipt", "none", r.data.order_id)
    ELSE NoQuestion

\* A shared contact answers the phone questions only.
ContactReading(r) ==
    LET read == TextReading(r) IN
    IF read.kind \in {"setup", "profile"} /\ read.part = "phone" THEN read ELSE NoQuestion

Media == {"text", "photo", "contact"}

Reading(medium, r) ==
    IF medium = "text" THEN TextReading(r)
    ELSE IF medium = "photo" THEN PhotoReading(r)
    ELSE ContactReading(r)

-----------------------------------------------------------------------------
(* Messages and buttons *)

\* The kinds of questions whose handlers go on with the row just read; the
\* others use nothing of it but the question.
Several == {"ticket", "profile", "control"} \cup DOMAIN TypedSteps

StaffKinds == {"control", "search_user", "unknown"} \cup DOMAIN TypedSteps \cup DOMAIN Target

\* A message that is read as nothing gets the menu for an answer.
Send(h, medium) ==
    /\ handling[h] = NoJob
    /\ row.state # "new"
    /\ medium = "text" => ~Gated
    /\ LET read == Reading(medium, row) IN
       /\ read # NoQuestion
       /\ handling' = [handling EXCEPT ![h] =
              IF read.kind \in Several
              THEN [pc |-> "sent", medium |-> medium, read |-> read, row |-> row, asked |-> asked]
              ELSE [pc |-> "sent", medium |-> medium, read |-> read]]
    /\ UNCHANGED <<row, asked, person, goods, scene>>

\* Handler h takes its message for an answer to this kind of question, and ends.
Answers(h, kind, part) ==
    /\ handling[h].pc = "sent"
    /\ handling[h].read.kind = kind /\ handling[h].read.part = part
    /\ handling' = [handling EXCEPT ![h] = NoJob]
    /\ UNCHANGED scene

\* The answer is refused with a message, or its handler fails before it saves.
Refuse(h) ==
    /\ handling[h].pc = "sent"
    /\ handling' = [handling EXCEPT ![h] = NoJob]
    /\ UNCHANGED <<row, asked, person, goods, scene>>

\* An object is made of answers that were given to these forms.
Mix(kind, answers) ==
    mixed' = IF Cardinality(answers) > 1 THEN mixed \cup {kind} ELSE mixed

Here(part) == part \in scene.parts /\ row.state # "new"

\* As Press, before the dispatcher guarded the onboarding.
PressUnguarded(part) ==
    /\ Here(part)
    /\ UNCHANGED <<handling, scene>>

\* route_callback: no button but those of the onboarding before the profile is
\* complete, none but its own while the channel is required.
Press(part) ==
    /\ Here(part)
    /\ ~(row.state = "profile_setup" /\ ~Complete)
    /\ ~Gated
    /\ UNCHANGED <<handling, scene>>

\* The control panel's buttons are handled before the channel is asked for.
PressStaff(part) ==
    /\ Here(part)
    /\ staff
    /\ part = "control" \/ ~Gated
    /\ UNCHANGED <<handling, person, scene>>
=============================================================================
