------------------------------ MODULE StaffScreens ------------------------------
(***************************************************************************)
(* The staff's handlers that read or write the BotState row: the control    *)
(* panel (bot/handlers/admin_control.py) and the forms, edits, searches and *)
(* broadcasts of bot/handlers/admin_hiddify.py.                             *)
(***************************************************************************)
EXTENDS Conversation

\* The admin's menus.
StaffParts == {"control", "panel_users", "panel_admins", "orders", "tickets", "cards",
               "crypto", "gateways", "brand", "search", "broadcast"}

\* Those with buttons that do not test the row's step.
LooseParts == {"panel_admins", "crypto", "gateways", "broadcast", "search"}

\* handle_admin_message asks for the access again: without it the row is reset.
AsStaff(h, kind, part) == Answers(h, kind, part) /\ staff /\ UNCHANGED person

Demoted(h) ==
    /\ handling[h].pc = "sent"
    /\ handling[h].read.kind \in StaffKinds
    /\ ~staff
    /\ handling' = [handling EXCEPT ![h] = NoJob]
    /\ Menu
    /\ UNCHANGED <<person, goods, scene>>

\* /cancel, or a text no branch takes.
Cancelled(h) ==
    /\ handling[h].pc = "sent"
    /\ handling[h].read.kind \in StaffKinds
    /\ staff
    /\ handling' = [handling EXCEPT ![h] = NoJob]
    /\ Menu
    /\ UNCHANGED <<person, goods, scene>>

RevokeStaff ==
    /\ staff
    /\ staff' = FALSE
    /\ UNCHANGED <<row, asked, handling, profile, gate, past, goods, scene>>

-----------------------------------------------------------------------------
(* Control panel: every button of it resets the row first *)

ControlScreen ==
    /\ PressStaff("control")
    /\ Menu
    /\ UNCHANGED goods

\* control_prompt
ControlPrompt(action, object) ==
    /\ Replace("admin_action", [action |-> "control", control_action |-> action,
                                object_id |-> object])
    /\ asked' = Question("control", action, object)

Prompt(action, object) ==
    /\ PressStaff("control")
    /\ ControlPrompt(action, object)
    /\ UNCHANGED goods

\* A form or a credit with the number that stands for what is kept of it.
NumberedPrompt(action) ==
    /\ PressStaff("control")
    /\ forms < MaxForms
    /\ forms' = forms + 1
    /\ ControlPrompt(action, forms + 1)
    /\ UNCHANGED <<made, mixed>>

LinkNew == NumberedPrompt("linknew")
RuleNew == NumberedPrompt("rulenew")
UserCredit == NumberedPrompt("usercredit")
LinkEdit(i) == Prompt("linkedit", i)
PlanEdit(i) == Prompt("planedit", i)
ChallengeEdit(i) == Prompt("chedit", i)
TierNew == Prompt("tiernew", None)
TierEdit(i) == Prompt("tieredit", i)
RuleEdit(i) == Prompt("ruleedit", i)
UserSearch == Prompt("usersearch", None)

\* linknew and rulenew: the name is kept in the row, then owner or text follow.
NameMessage(h, action, next) ==
    LET data == Merged(handling[h].row.data,
                       [control_action |-> next, name |-> handling[h].asked.of])
    IN
    /\ AsStaff(h, "control", action)
    /\ Replace(handling[h].row.state, data)
    /\ asked' = Question("control", next, data.object_id)
    /\ UNCHANGED goods

LinkNameMessage(h) == NameMessage(h, "linknew", "linkowner")
RuleNameMessage(h) == NameMessage(h, "rulenew", "ruletext")

SecondMessage(h, action) ==
    /\ AsStaff(h, "control", action)
    /\ Mix(action, {handling[h].row.data.name, handling[h].asked.of})
    /\ Menu
    /\ UNCHANGED <<forms, made>>

LinkOwnerMessage(h) == SecondMessage(h, "linkowner")
RuleTextMessage(h) == SecondMessage(h, "ruletext")

\* linkedit, planedit, chedit, tiernew, tieredit, ruleedit, usersearch
ObjectMessage(h) ==
    /\ \E action \in {"linkedit", "planedit", "chedit", "tiernew", "tieredit", "ruleedit",
                      "usersearch"} : AsStaff(h, "control", action)
    /\ Menu
    /\ UNCHANGED goods

\* credit_wallet with the idempotency key made of the prompt's request_key.
CreditOnce(n) ==
    made' = [made EXCEPT !["credit"][n] = IF @ = 0 THEN 1 ELSE @]

CreditMessage(h) ==
    /\ AsStaff(h, "control", "usercredit")
    /\ CreditOnce(handling[h].row.data.object_id)
    /\ Menu
    /\ UNCHANGED <<forms, mixed>>

-----------------------------------------------------------------------------
(* Single answers: edits, notes, replies and searches *)

EditPrompt(part, action, data, object) ==
    /\ PressStaff(part)
    /\ Ask("admin_action", Merged(data, [action |-> action]), Question(action, "none", object))
    /\ UNCHANGED goods

StartEditUserField(i) ==
    EditPrompt("panel_users", "edit_panel_user", [user_uuid |-> i, step |-> "input"], i)
StartOrderAdminNote(i) == EditPrompt("orders", "order_admin_note", [order_number |-> i], i)
\* No answer is ever taken: the handler calls a method that does not exist (Refuse).
StartSearchPanelUser == EditPrompt("panel_users", "search_panel_user", <<>>, None)
StartStaffReply(i) == EditPrompt("tickets", "ticket_reply", [ticket_id |-> i], i)
StartSearchPanelAdmin == EditPrompt("panel_admins", "search_panel_admin", <<>>, None)
StartEditCardField(i) == EditPrompt("cards", "edit_card", [card_id |-> i, step |-> "input"], i)
StartEditCryptoField(i) == EditPrompt("crypto", "edit_crypto", [wallet_id |-> i, step |-> "input"], i)
EditBrandName == EditPrompt("brand", "edit_brand_name", <<>>, None)
EditBrandDescription == EditPrompt("brand", "edit_brand_description", <<>>, None)
SearchPayment == EditPrompt("search", "search_payment", <<>>, None)

\* request_search_username keeps what an earlier prompt left in the row.
RequestSearchUsername ==
    /\ PressStaff("search")
    /\ scene.hasty \/ Str(row.data, "action") = "none"
    /\ Ask("main_menu", [admin_action |-> "search_user"], Question("search_user", "none", None))
    /\ UNCHANGED goods

SingleAnswer(h, action) ==
    /\ AsStaff(h, action, "none")
    /\ Menu
    /\ UNCHANGED goods

ApplyUserFieldEdit(h) == SingleAnswer(h, "edit_panel_user")
OrderAdminNote(h) == SingleAnswer(h, "order_admin_note")
StaffTicketReply(h) == SingleAnswer(h, "ticket_reply")
PanelAdminSearch(h) == SingleAnswer(h, "search_panel_admin")
EditCardField(h) == SingleAnswer(h, "edit_card")
EditCryptoField(h) == SingleAnswer(h, "edit_crypto")
EditBrandField(h) == \E field \in {"edit_brand_name", "edit_brand_description"} :
                         SingleAnswer(h, field)
PaymentSearch(h) == SingleAnswer(h, "search_payment")
UsernameSearch(h) == SingleAnswer(h, "search_user")

-----------------------------------------------------------------------------
(* Forms: several answers, kept in the row until the last one is given *)

\* The row's copy of the answers given so far.
DraftKey == [add_panel_user |-> "user_data", add_panel_admin |-> "admin_data",
             add_card |-> "card_data", add_crypto |-> "crypto_data",
             add_gateway |-> "gateway_data", broadcast |-> "broadcast_text"]

Draft(data, form) == IF DraftKey[form] \in DOMAIN data THEN data[DraftKey[form]] ELSE <<>>

Entry(key, value) == [k \in {key} |-> value]

With(data, form, field, value, next) ==
    LET draft == Merged(Draft(data, form), Entry(field, value)) IN
    Merged(Merged(data, Entry(DraftKey[form], draft)), [step |-> next])

StartForm(part, form, step) ==
    /\ PressStaff(part)
    /\ forms < MaxForms
    /\ forms' = forms + 1
    /\ Ask("admin_action", [action |-> form, step |-> step, form |-> forms + 1],
           Question(form, step, forms + 1))
    /\ UNCHANGED <<made, mixed>>

\* A typed answer goes into the draft; the row read with the message is saved.
TypedStep(h, form, step, next) ==
    LET data == handling[h].row.data IN
    /\ AsStaff(h, form, step)
    /\ Replace(handling[h].row.state, With(data, form, step, handling[h].asked.of, next))
    /\ asked' = Question(form, next, data.form)
    /\ UNCHANGED goods

\* The last typed answer: the object is made, or an error shown when the panel
\* refuses it or an answer is missing.
LastStep(h, form, step, fields) ==
    LET draft == Merged(Draft(handling[h].row.data, form), Entry(step, handling[h].asked.of)) IN
    /\ AsStaff(h, form, step)
    /\ IF fields \subseteq DOMAIN draft
       THEN Mix(form, {draft[f] : f \in fields})
       ELSE UNCHANGED mixed
    /\ Menu
    /\ UNCHANGED <<forms, made>>

\* A button that answers a step tests neither the form nor the step.
ButtonStep(part, form, step, next) ==
    /\ PressStaff(part)
    /\ scene.hasty \/ (asked.kind = form /\ asked.part = step)
    /\ Replace(row.state, With(row.data, form, step, Get(row.data, "form"), next))
    /\ asked' = Question(form, next, Get(row.data, "form"))
    /\ UNCHANGED goods

StartAddPanelUser == StartForm("panel_users", "add_panel_user", "name")

AddPanelUserStep(h) ==
    \/ TypedStep(h, "add_panel_user", "name", "usage_limit")
    \/ TypedStep(h, "add_panel_user", "usage_limit", "package_days")
    \/ LastStep(h, "add_panel_user", "package_days", {"name", "usage_limit", "package_days"})

StartAddPanelAdmin == StartForm("panel_admins", "add_panel_admin", "name")

AddPanelAdminStep(h) ==
    \/ TypedStep(h, "add_panel_admin", "name", "mode")
    \/ TypedStep(h, "add_panel_admin", "telegram_id", "can_add_admin")

PanelAdminMode ==
    /\ row.data # <<>>
    /\ ButtonStep("panel_admins", "add_panel_admin", "mode", "telegram_id")

\* The telegram id may be missing.
PanelAdminCanAdd ==
    LET draft == Merged(Draft(row.data, "add_panel_admin"),
                        Entry("can_add_admin", Get(row.data, "form")))
    IN
    /\ PressStaff("panel_admins")
    /\ scene.hasty \/ (asked.kind = "add_panel_admin" /\ asked.part = "can_add_admin")
    /\ "admin_data" \in DOMAIN row.data
    /\ IF {"name", "mode"} \subseteq DOMAIN draft
       THEN Mix("add_panel_admin", {draft[f] : f \in DOMAIN draft})
       ELSE UNCHANGED mixed
    /\ Menu
    /\ UNCHANGED <<forms, made>>

\* The buttons of this screen are those of the form above; the id they ask for
\* is not awaited, and nothing reads which admin is edited.
StartEditPanelAdmin ==
    /\ PressStaff("panel_admins")
    /\ Ask("admin_action", [action |-> "edit_panel_admin", step |-> "mode"],
           Question("add_panel_admin", "mode", None))
    /\ UNCHANGED goods

AddPaymentCard == StartForm("cards", "add_card", "bank_name")

CardStep(h) ==
    \/ TypedStep(h, "add_card", "bank_name", "card_number")
    \/ TypedStep(h, "add_card", "card_number", "cardholder_name")
    \/ LastStep(h, "add_card", "cardholder_name", {"bank_name", "card_number", "cardholder_name"})

AddCryptoCurrency == StartForm("crypto", "add_crypto", "name")

CryptoStep(h) ==
    \/ TypedStep(h, "add_crypto", "name", "symbol")
    \/ TypedStep(h, "add_crypto", "symbol", "network")
    \/ LastStep(h, "add_crypto", "wallet_address", {"name", "symbol", "network", "wallet_address"})

CryptoNetwork == ButtonStep("crypto", "add_crypto", "network", "wallet_address")

AddPaymentGateway == StartForm("gateways", "add_gateway", "gateway_type")

GatewayType == ButtonStep("gateways", "add_gateway", "gateway_type", "name")

GatewayStep(h) ==
    \/ TypedStep(h, "add_gateway", "name", "api_key")
    \/ TypedStep(h, "add_gateway", "api_key", "secret_key")
    \/ LastStep(h, "add_gateway", "secret_key", {"gateway_type", "name", "api_key"})

-----------------------------------------------------------------------------
(* Broadcasts *)

StartBroadcast == StartForm("broadcast", "broadcast", "message")

BroadcastInput(h) == TypedStep(h, "broadcast", "message", "confirm")

\* _execute_broadcast sends the text to the audience of the row, one user after
\* another, and resets the row when it has ended.
ExecuteBroadcast(h, data) ==
    /\ handling' = [handling EXCEPT ![h] = [pc |-> "sending"]]
    /\ Mix("broadcast", {Draft(data, "broadcast").message, data.form})
    /\ UNCHANGED <<row, asked, forms, made, person, scene>>

BroadcastConfirm(h) ==
    /\ handling[h].pc = "sent" /\ staff
    /\ handling[h].read.kind = "broadcast" /\ handling[h].read.part = "confirm"
    /\ ExecuteBroadcast(h, handling[h].row.data)

\* The button tests the action, not the step.
BroadcastSend(h) ==
    /\ Here("broadcast") /\ staff /\ ~Gated
    /\ handling[h] = NoJob
    /\ scene.hasty \/ (asked.kind = "broadcast" /\ asked.part = "confirm")
    /\ Str(row.data, "action") = "broadcast"
    /\ "broadcast_text" \in DOMAIN row.data
    /\ ExecuteBroadcast(h, row.data)

BroadcastEnds(h) ==
    /\ handling[h].pc = "sending"
    /\ handling' = [handling EXCEPT ![h] = NoJob]
    /\ Menu
    /\ UNCHANGED <<person, goods, scene>>

\* cancel_broadcast, or a button send that finds no text.
CancelBroadcast ==
    /\ PressStaff("broadcast")
    /\ Menu
    /\ UNCHANGED goods
=============================================================================
