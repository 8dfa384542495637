------------------------------- MODULE BotScreens -------------------------------
(***************************************************************************)
(* The whole conversation: customer's and staff's screens over one BotState *)
(* row, with messages handled by concurrent coroutines.                     *)
(***************************************************************************)
EXTENDS CustomerScreens, StaffScreens

BotInit ==
    /\ scene \in [parts : Plans, hasty : BOOLEAN]
    /\ scene.hasty => scene.parts \cap LooseParts # {}
    /\ LET new == "onboarding" \in scene.parts IN
       /\ row = [state |-> IF new THEN "new" ELSE "main_menu", data |-> <<>>]
       /\ profile = IF new THEN {} ELSE {"name", "phone", "device"}
       /\ gate \in IF new THEN {"none", "required"} ELSE {"none"}
       /\ past = IF new THEN {} ELSE {"onboarded"}
    /\ staff = (scene.parts \cap StaffParts # {})
    /\ asked = NoQuestion
    /\ handling = [h \in Handlers |-> NoJob]
    /\ forms = 0
    /\ made = [kind \in {"ticket", "credit"} |-> [n \in 1..MaxForms |-> 0]]
    /\ mixed = {}

Onboarding ==
    \/ Start \/ EnterByMessage \/ Help \/ SetupProfile \/ FinishClaims
    \/ SetInitialDevice \/ FinishDevices \/ VerifyJoin \/ FindMember \/ ApproveJoin
    \/ \E h \in Handlers : NameStep(h) \/ PhoneStep(h)

ProfileScreens ==
    \/ EditProfile \/ SetGender \/ BeginCompletion
    \/ \E field \in {"full_name", "birth_date", "phone", "locations"} :
          RequestField(field) \/ \E h \in Handlers : SaveField(h, field)
    \/ \E i \in Items : StartRename(i)
    \/ StartManualReferrer
    \/ \E h \in Handlers : RenameMessage(h) \/ ManualReferrerMessage(h)

WalletScreens ==
    \/ RequestCustomAmount \/ ShowCouponInput
    \/ \E i \in Items : InitiateCharge(i) \/ ShowCardPayment(i) \/ RequestTxid(i)
    \/ \E h \in Handlers : \/ CustomAmountMessage(h) \/ ReceiptPhoto(h)
                           \/ TxidMessage(h) \/ CouponMessage(h)

PurchaseScreens ==
    \/ ShowPlans \/ ShowService \/ ShowPlanDetails \/ PlanPicker \/ PlanFilter
    \/ PaidAtOnce \/ CancelPurchase
    \/ \E i \in Items : \/ ShowPaymentMethods(i) \/ RequestPurchaseCoupon(i)
                        \/ ShowSelectedCard(i) \/ PaymentDone(i) \/ PaymentNotDone(i)
    \/ \E h \in Handlers : PurchaseCouponMessage(h) \/ CardReceipt(h)

SupportScreens ==
    \/ CreateTicket \/ TicketDevice \/ TicketCategory \/ ShowMyTickets \/ StartFaqSearch
    \/ \E i \in Items : StartTicketReply(i)
    \/ \E h \in Handlers : \/ TicketSubject(h) \/ TicketDescription(h)
                           \/ TicketReply(h) \/ FaqSearch(h)

ControlPanel ==
    \/ ControlScreen \/ LinkNew \/ RuleNew \/ UserCredit \/ TierNew \/ UserSearch
    \/ \E i \in Items : LinkEdit(i) \/ PlanEdit(i) \/ ChallengeEdit(i) \/ TierEdit(i) \/ RuleEdit(i)
    \/ \E h \in Handlers : \/ LinkNameMessage(h) \/ RuleNameMessage(h) \/ LinkOwnerMessage(h)
                           \/ RuleTextMessage(h) \/ ObjectMessage(h) \/ CreditMessage(h)

StaffEdits ==
    \/ StartSearchPanelUser \/ StartSearchPanelAdmin \/ EditBrandName \/ EditBrandDescription
    \/ SearchPayment \/ RequestSearchUsername
    \/ \E i \in Items : \/ StartEditUserField(i) \/ StartOrderAdminNote(i) \/ StartStaffReply(i)
                        \/ StartEditCardField(i) \/ StartEditCryptoField(i)
    \/ \E h \in Handlers : \/ ApplyUserFieldEdit(h) \/ OrderAdminNote(h) \/ StaffTicketReply(h)
                           \/ PanelAdminSearch(h) \/ EditCardField(h) \/ EditCryptoField(h)
                           \/ EditBrandField(h) \/ PaymentSearch(h) \/ UsernameSearch(h)

StaffForms ==
    \/ StartAddPanelUser \/ StartAddPanelAdmin \/ StartEditPanelAdmin \/ PanelAdminMode \/ PanelAdminCanAdd
    \/ AddPaymentCard \/ AddCryptoCurrency \/ CryptoNetwork \/ AddPaymentGateway \/ GatewayType
    \/ StartBroadcast \/ CancelBroadcast
    \/ \E h \in Handlers : \/ AddPanelUserStep(h) \/ AddPanelAdminStep(h) \/ CardStep(h)
                           \/ CryptoStep(h) \/ GatewayStep(h) \/ BroadcastInput(h)
                           \/ BroadcastConfirm(h) \/ BroadcastSend(h) \/ BroadcastEnds(h)

Messages ==
    \E h \in Handlers : \/ \E medium \in Media : Send(h, medium)
                        \/ Refuse(h) \/ Demoted(h) \/ Cancelled(h)

BotNext ==
    \/ Onboarding \/ ProfileScreens \/ WalletScreens \/ PurchaseScreens \/ SupportScreens
    \/ ControlPanel \/ StaffEdits \/ StaffForms \/ RevokeStaff
    \/ MainMenu
    \/ Messages

BotSpec == BotInit /\ [][BotNext]_botVars

-----------------------------------------------------------------------------
(* Properties *)

\* While a question is open, whatever the user sends is taken for an answer to
\* that question or for nothing: no leftover of an earlier screen, no message
\* handled late and no merge of the row makes it the answer to another.  Two
\* exceptions are the code's: a top-up's receipt is awaited after its screen was
\* left (wallet.py:517), and a hasty user misleads the forms.
AnswersFitPrompts ==
    asked # NoQuestion /\ ~scene.hasty =>
        \A medium \in Media :
            \/ Reading(medium, row) \in {NoQuestion, Unknown, asked}
            \/ Reading(medium, row).kind = "wallet_receipt"

\* A ticket, link, rule, panel user, panel admin, card, crypto wallet, gateway
\* or broadcast is made of answers given to one form only, however messages and
\* buttons overlap, unless the user is hasty.
FormsAreWhole == ~scene.hasty => mixed = {}

\* The last answer of a ticket's form makes one ticket, and a typed wallet credit
\* is booked once, when the answer is sent again while the first is handled.
OncePerPrompt ==
    \A kind \in DOMAIN made : \A n \in DOMAIN made[kind] : made[kind][n] <= 1

\* Nobody is asked anything but the questions of the onboarding before it is
\* over and the required channel joined, except by the ways around it that the
\* code leaves open: /help, and a first message that is no /start.
OnboardingIsKept ==
    asked.kind \notin {"none", "setup"} =>
        "bypassed" \in past \/ ("onboarded" \in past /\ gate # "required")
=============================================================================
