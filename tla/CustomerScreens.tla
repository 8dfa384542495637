---------------------------- MODULE CustomerScreens ----------------------------
(***************************************************************************)
(* The customer's handlers that read or write the BotState row: onboarding, *)
(* profile, names of subscriptions, referrer, wallet, purchase and support  *)
(* (bot/handlers/start.py, profile.py, subscriptions.py, referrals.py,      *)
(* wallet.py, purchase.py, plan_picker.py, support.py).                     *)
(***************************************************************************)
EXTENDS Conversation

-----------------------------------------------------------------------------
(* Onboarding of a new user and the main menu *)

\* A field of the profile is set or, for the devices, taken back.
SetProfile(fields) ==
    /\ profile' = fields
    /\ past' = IF fields = {"name", "phone", "device"} THEN past \cup {"onboarded"} ELSE past
    /\ UNCHANGED <<gate, staff>>

ShowProfileSetup == Clear("profile_setup") /\ asked' = NoQuestion
AskDevice == Ask("profile_setup", [step |-> "device"], NoQuestion)

StartProfileSetup ==
    Ask("profile_setup", [step |-> "name"], Question("setup", "name", None))

\* handle_start_command.  A user who came in another way is onboarded late,
\* if a gift waits for him or the channel is required.
Start ==
    /\ "onboarding" \in scene.parts
    /\ LET missing == ~Complete
           incomplete == \/ row.state \in {"new", "profile_setup"}
                         \/ missing /\ gate # "none"
       IN
       \/ /\ \/ incomplete
             \/ missing    \* a reserved gift waits for the profile
          /\ IF {"name", "phone"} \subseteq profile /\ "device" \notin profile
             THEN AskDevice ELSE ShowProfileSetup
       \/ ~incomplete /\ ~Gated /\ Menu
    /\ UNCHANGED <<handling, person, goods, scene>>

\* A first message that is no /start makes the account as well.
EnterByMessage ==
    /\ row.state = "new"
    /\ Menu
    /\ past' = past \cup {"bypassed"}
    /\ UNCHANGED <<handling, profile, gate, staff, goods, scene>>

\* The /help command shows the main menu to anyone.
Help ==
    /\ "onboarding" \in scene.parts
    /\ Menu
    /\ past' = past \cup {"bypassed"}
    /\ UNCHANGED <<handling, profile, gate, staff, goods, scene>>

MainMenu ==
    /\ \E part \in scene.parts : Press(part)
    /\ Menu
    /\ UNCHANGED <<person, goods>>

\* The buttons of the onboarding are let through by route_callback.
PressSetup ==
    /\ Here("onboarding")
    /\ ~Gated
    /\ UNCHANGED <<handling, scene, goods>>

\* "Complete the profile", and the buttons that once skipped it.
SetupProfile ==
    /\ PressSetup
    /\ StartProfileSetup
    /\ UNCHANGED person

FinishClaims ==
    /\ PressSetup
    /\ row.state \in {"profile_setup", "subscription_management"}
    /\ IF {"name", "phone"} \subseteq profile
       THEN IF "device" \in profile THEN Menu ELSE AskDevice
       ELSE StartProfileSetup
    /\ UNCHANGED person

NameStep(h) ==
    /\ Answers(h, "setup", "name")
    /\ SetProfile(profile \cup {"name"})
    /\ Ask("profile_setup", [step |-> "phone"], Question("setup", "phone", None))
    /\ UNCHANGED goods

\* Typed, or sent as a contact: a contact is checked with the row as it is.
PhoneStep(h) ==
    /\ Answers(h, "setup", "phone")
    /\ handling[h].medium = "contact" => TextReading(row) = handling[h].read
    /\ SetProfile(profile \cup {"phone"})
    /\ AskDevice
    /\ UNCHANGED goods

\* set_initial_device: pressed again it takes the device back.
SetInitialDevice ==
    /\ PressSetup
    /\ row.state = "profile_setup" /\ Str(row.data, "step") = "device"
    /\ SetProfile(IF "device" \in profile THEN profile \ {"device"} ELSE profile \cup {"device"})
    /\ AskDevice

FinishDevices ==
    /\ PressSetup
    /\ row.state = "profile_setup" /\ Str(row.data, "step") = "device"
    /\ IF "device" \in profile THEN Menu ELSE AskDevice
    /\ UNCHANGED person

\* verify_channel_join
VerifyJoin ==
    /\ Here("onboarding")
    /\ IF Complete
       THEN gate # "required" /\ Menu
       ELSE ShowProfileSetup
    /\ UNCHANGED <<handling, person, goods, scene>>

\* show_channel_gate_if_required finds the user in the channel.
FindMember ==
    /\ Gated
    /\ gate' = "verified"
    /\ UNCHANGED <<row, asked, handling, profile, past, staff, goods, scene>>

\* approve_required_channel_join
ApproveJoin ==
    /\ gate = "required" /\ row.state # "new"
    /\ gate' = "verified"
    /\ UNCHANGED <<row, asked, handling, profile, past, staff, goods, scene>>

-----------------------------------------------------------------------------
(* Profile, names of subscriptions, referrer *)

EditProfile ==
    /\ Press("profile")
    /\ Ask("profile_edit", [step |-> "menu"], NoQuestion)
    /\ UNCHANGED <<person, goods>>

SetGender ==
    /\ Press("profile")
    /\ Menu
    /\ UNCHANGED <<person, goods>>

AskField(field, chain) ==
    /\ Replace("profile_edit", [completion_flow |-> chain, field |-> field,
                                step |-> "waiting_input"])
    /\ asked' = Question("profile", field, None)

BeginCompletion ==
    /\ Press("profile")
    /\ AskField("birth_date", TRUE)
    /\ UNCHANGED <<person, goods>>

RequestField(field) ==
    /\ Press("profile")
    /\ AskField(field, FALSE)
    /\ UNCHANGED <<person, goods>>

NextField == [birth_date |-> "phone", phone |-> "locations"]

\* As SaveField, when the next step of the chain is not saved with the field.
SaveFieldForgotten(h, field) ==
    LET chain == handling[h].row.data.completion_flow IN
    /\ Answers(h, "profile", field)
    /\ IF chain /\ field \in DOMAIN NextField
       THEN asked' = Question("profile", NextField[field], None) /\ UNCHANGED row
       ELSE Menu
    /\ UNCHANGED <<person, goods>>

\* _save_field: the chain goes on from the field of the row the answer was
\* routed by; at its end the gender is asked with buttons, unless it is known.
SaveField(h, field) ==
    LET chain == handling[h].row.data.completion_flow IN
    /\ Answers(h, "profile", field)
    /\ IF chain /\ field \in DOMAIN NextField
       THEN Ask("profile_edit", [completion_flow |-> TRUE, field |-> NextField[field],
                                 step |-> "waiting_input"],
                Question("profile", NextField[field], None))
       ELSE \/ chain /\ Ask("profile_edit", [completion_flow |-> FALSE, step |-> "gender"],
                            NoQuestion)
            \/ Menu
    /\ UNCHANGED <<person, goods>>

StartRename(i) ==
    /\ Press("subscription")
    /\ Ask("subscription_management",
           [step |-> "rename_subscription", subscription_id |-> i],
           Question("rename", "none", i))
    /\ UNCHANGED <<person, goods>>

RenameMessage(h) ==
    /\ Answers(h, "rename", "none")
    /\ Menu
    /\ UNCHANGED <<person, goods>>

StartManualReferrer ==
    /\ Press("referral")
    /\ Ask("referral_setup", [step |-> "manual_referrer"], Question("referrer", "none", None))
    /\ UNCHANGED <<person, goods>>

ManualReferrerMessage(h) ==
    /\ Answers(h, "referrer", "none")
    /\ Menu
    /\ UNCHANGED <<person, goods>>

-----------------------------------------------------------------------------
(* Wallet *)

RequestCustomAmount ==
    /\ Press("wallet")
    /\ Ask("payment_process", [action |-> "wallet_charge", step |-> "waiting_custom_amount"],
           Question("custom_amount", "none", None))
    /\ UNCHANGED <<person, goods>>

\* show_payment_methods: the step is left as it is.
ShowWalletMethods(amount) ==
    Put("payment_process", [action |-> "wallet_charge", amount |-> amount])

CustomAmountMessage(h) ==
    /\ Answers(h, "custom_amount", "none")
    /\ \E amount \in Items : ShowWalletMethods(amount)
    /\ asked' = NoQuestion
    /\ UNCHANGED <<person, goods>>

\* The screen asks nothing: a question asked before it still waits.
InitiateCharge(amount) ==
    /\ Press("wallet")
    /\ ShowWalletMethods(amount)
    /\ UNCHANGED <<asked, person, goods>>

ShowCardPayment(amount) ==
    /\ Press("wallet")
    /\ Ask("payment_process",
           [action |-> "wallet_charge", amount |-> amount, step |-> "waiting_receipt"],
           Question("wallet_receipt", "none", amount))
    /\ UNCHANGED <<person, goods>>

ReceiptPhoto(h) ==
    /\ Answers(h, "wallet_receipt", "none")
    /\ Menu
    /\ UNCHANGED <<person, goods>>

RequestTxid(payment) ==
    /\ Press("wallet")
    /\ Ask("payment_process",
           [action |-> "wallet_crypto_txid", payment_id |-> payment, step |-> "waiting_txid"],
           Question("txid", "none", payment))
    /\ UNCHANGED <<person, goods>>

TxidMessage(h) ==
    /\ Answers(h, "txid", "none")
    /\ Menu
    /\ UNCHANGED <<person, goods>>

ShowCouponInput ==
    /\ Press("wallet")
    /\ Ask("payment_process", [action |-> "wallet_coupon", step |-> "waiting_coupon"],
           Question("coupon", "none", None))
    /\ UNCHANGED <<person, goods>>

CouponMessage(h) ==
    /\ Answers(h, "coupon", "none")
    /\ Menu
    /\ UNCHANGED <<person, goods>>

-----------------------------------------------------------------------------
(* Purchase *)

Browse(step) ==
    /\ Press("purchase")
    /\ Put("purchase_flow", [step |-> step])
    /\ UNCHANGED <<asked, person, goods>>

ShowPlans == Browse("plan_selection")
ShowService == Browse("service_selection")
ShowPlanDetails == Browse("plan_details")

\* A button of the plan picker: an old menu is refused by its token and step.
PlanFilter ==
    /\ row.state = "purchase_flow"
    /\ Str(row.data, "step") \in {"plan_filters", "plan_selection", "plan_details"}
    /\ \E step \in {"plan_selection", "plan_filters"} : Browse(step)

PlanPicker == Browse("plan_filters")

\* initiate_purchase of a new or an open order, or the order's payment screen.
\* Whether an order still takes payments is not modelled: either may be.
ShowPaymentMethods(order) ==
    /\ Press("purchase")
    /\ Put("purchase_flow", [step |-> "payment_method", order_id |-> order])
    /\ UNCHANGED <<asked, person, goods>>

\* An order that is free or paid for by the wallet.
PaidAtOnce ==
    /\ Press("purchase")
    /\ Menu
    /\ UNCHANGED <<person, goods>>

\* The menu with the amount returned, or the plan again.
CancelPurchase ==
    /\ Press("purchase")
    /\ \/ Menu
       \/ Replace("purchase_flow", [step |-> "plan_details"]) /\ asked' = NoQuestion
    /\ UNCHANGED <<person, goods>>

RequestPurchaseCoupon(order) ==
    /\ Press("purchase")
    /\ Ask("payment_process", [step |-> "waiting_purchase_coupon",
                               action |-> "purchase_coupon", order_id |-> order],
           Question("purchase_coupon", "none", order))
    /\ UNCHANGED <<person, goods>>

\* The order's payment screen follows, or the menu if the coupon settles it.
PurchaseCouponMessage(h) ==
    LET order == handling[h].read.of IN
    /\ Answers(h, "purchase_coupon", "none")
    /\ \/ Ask("purchase_flow", [step |-> "payment_method", order_id |-> order], NoQuestion)
       \/ Menu
    /\ UNCHANGED <<person, goods>>

ShowSelectedCard(order) ==
    /\ Press("purchase")
    /\ Put("payment_process", [step |-> "card_transfer", order_id |-> order,
                               card_id |-> TRUE, action |-> "none"])
    /\ UNCHANGED <<asked, person, goods>>

PaymentDone(order) ==
    /\ Press("purchase")
    /\ row.state = "payment_process" /\ Str(row.data, "step") = "card_transfer"
    /\ row.data.order_id = order
    /\ Ask("payment_process", [step |-> "waiting_receipt", order_id |-> order,
                               action |-> "none", card_id |-> row.data.card_id],
           Question("order_receipt", "none", order))
    /\ UNCHANGED <<person, goods>>

PaymentNotDone(order) ==
    /\ Press("purchase")
    /\ Ask("purchase_flow", [step |-> "payment_method", order_id |-> order], NoQuestion)
    /\ UNCHANGED <<person, goods>>

\* handle_payment_receipt, of a photo or a text.
CardReceipt(h) ==
    LET order == handling[h].read.of IN
    /\ Answers(h, "order_receipt", "none")
    /\ Ask("payment_process", [step |-> "under_review", order_id |-> order], NoQuestion)
    /\ UNCHANGED <<person, goods>>

-----------------------------------------------------------------------------
(* Support *)

\* A ticket's form: its number stands for the ticket_id drawn here.
CreateTicket ==
    /\ Press("support")
    /\ forms < MaxForms
    /\ forms' = forms + 1
    /\ Replace("support_ticket", [step |-> "category", ticket_id |-> forms + 1,
                                  device_type |-> forms + 1])
    /\ asked' = NoQuestion
    /\ UNCHANGED <<made, mixed, person>>

\* The device's buttons stay below each step of the form.
TicketDevice ==
    /\ Press("support")
    /\ row.state = "support_ticket"
    /\ Str(row.data, "step") \in {"category", "subject", "description"}
    /\ Replace(row.state, Merged(row.data, [device_type |-> row.data.ticket_id]))
    /\ UNCHANGED <<asked, person, goods>>

TicketCategory ==
    /\ Press("support")
    /\ row.state = "support_ticket" /\ Str(row.data, "step") = "category"
    /\ Ask("support_ticket", [step |-> "subject", category_id |-> row.data.ticket_id],
           Question("ticket", "subject", row.data.ticket_id))
    /\ UNCHANGED <<person, goods>>

\* As TicketSubject, when the subject is saved into the row as it is by now.
TicketSubjectMerged(h) ==
    LET data == Merged(Merged(handling[h].row.data, row.data),
                       [step |-> "description", subject |-> handling[h].asked.of,
                        ticket_id |-> handling[h].read.of])
    IN
    /\ Answers(h, "ticket", "subject")
    /\ Replace("support_ticket", data)
    /\ asked' = Question("ticket", "description", data.ticket_id)
    /\ UNCHANGED <<person, goods>>

\* handle_ticket_subject writes back all it read.
TicketSubject(h) ==
    LET data == Merged(handling[h].row.data,
                       [step |-> "description", subject |-> handling[h].asked.of])
    IN
    /\ Answers(h, "ticket", "subject")
    /\ Ask("support_ticket", data, Question("ticket", "description", data.ticket_id))
    /\ UNCHANGED <<person, goods>>

\* As CreateTicketOnce, without the form's ticket_id.
CreateTicketAgain(n) == made' = [made EXCEPT !["ticket"][n] = @ + 1]

\* _create_ticket: get_or_create by the ticket_id of the form.
CreateTicketOnce(n) ==
    made' = [made EXCEPT !["ticket"][n] = IF @ = 0 THEN 1 ELSE @]

TicketDescription(h) ==
    LET data == handling[h].row.data IN
    /\ Answers(h, "ticket", "description")
    /\ CreateTicketOnce(data.ticket_id)
    /\ Mix("ticket", {data.ticket_id, data.category_id, data.device_type, data.subject,
                      handling[h].asked.of})
    /\ Menu
    /\ UNCHANGED <<forms, person>>

ShowMyTickets ==
    /\ Press("support")
    /\ Menu
    /\ UNCHANGED <<person, goods>>

StartTicketReply(ticket) ==
    /\ Press("support")
    /\ Ask("support_ticket", [step |-> "reply", ticket_id |-> ticket],
           Question("reply", "none", ticket))
    /\ UNCHANGED <<person, goods>>

TicketReply(h) ==
    /\ Answers(h, "reply", "none")
    /\ Menu
    /\ UNCHANGED <<person, goods>>

StartFaqSearch ==
    /\ Press("support")
    /\ Ask("support_ticket", [step |-> "search_faq"], Question("faq", "none", None))
    /\ UNCHANGED <<person, goods>>

FaqSearch(h) ==
    /\ Answers(h, "faq", "none")
    /\ Menu
    /\ UNCHANGED <<person, goods>>
=============================================================================
