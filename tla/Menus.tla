-------------------------------- MODULE Menus ---------------------------------
(***************************************************************************)
(* A person in front of the bot: one message with a keyboard, which they    *)
(* press, while rows, panels and rights come and go elsewhere.  Keyboards   *)
(* stay in the chat: what a button refers to may be gone when it is pressed,*)
(* and keyboards of older versions of the bot are still there.              *)
(***************************************************************************)
EXTENDS Routes

CONSTANTS Absences    \* which kinds of things may be missing at once
ASSUME MenusAssumption == Absences \subseteq SUBSET Kinds

VARIABLES
    screen,     \* the keyboard the person looks at
    there,      \* the kinds of things that exist
    homing      \* the person presses nothing but the last button

vars == <<screen, there, homing>>

-----------------------------------------------------------------------------
(* Keyboards nobody pressed for *)

\* Buttons only older versions offered, which the dispatcher still routes.
OldKeyboard ==
    <<"setup_profile", "share_referral", "referral_link", "purchase_category_old", "gift_plan_1",
      "renew_nocredit_1_1", "renew_with_plan_1_1", "renewal_plans_page_1_2", "renewal_page",
      "my_own_subscriptions", "family_subscriptions", "subscription_claim_1", "usage_stats_1",
      "renew_1", "upgrade_1", "transfer_1", "upgrade_level", "download_vless_1", "copy_vless_1",
      "copy_sub_link_1", "mtproxies_1", "short_url_1", "payment_methods_back", "back_to_plans",
      "payment_crypto_u", "wallet_pay_gateway_1000", "wallet_gw_1_1000", "wallet_history",
      "statistics", "leaderboard", "achievements", "claim_reward:1", "admin_users", "admin_stats",
      "admin_ticket_stats", "admin_search_user", "admin_paid_orders", "admin_users_page_1",
      "aeu_u", "admin_view_order_1", "admin_cancel_order_1", "admin_confirm_order_1",
      "admin_bot_settings", "admin_cancel_broadcast", "help", "main_menu">>

\* What tasks and services send: gamification notices, notification rules,
\* delivered subscriptions and gifts, top-ups.
Notices ==
    {<<b>> : b \in {"rewards", "my_subscriptions", "active_challenges", "complete_profile",
                    "service_survey_start", "referral_system", "wallet", "main_menu",
                    "purchase_subscription", "useful_content"}}
      \cup {<<"challenge_accept_1", "challenge_decline_1">>, <<"referral_system", "how_to_earn">>,
            <<"rename_subscription_1", "get_config_1", "useful_category_install", "useful_category_downloads">>}

\* The receipts sent to the staff are no menus.
Receipts ==
    {<<"admin_confirm_wallet_1", "admin_reject_wallet_1">>,
     <<"admin_confirm_payment_1", "admin_reject_payment_1">>}

\* handle_text_message and handle_media_message, to whatever was asked last
CustomerReplies ==
    Gated(ProfileReplies \cup ManualReferrerReplies \cup TicketReplies \cup FaqReplies \cup RenameReplies
            \cup CouponReplies \cup ReceiptReplies \cup ChargeReplies \cup WalletReplies)
StaffReplies ==
    Found("staff",
        ControlReplies \cup EditPanelUserReplies \cup PanelUserReplies \cup PanelAdminReplies
          \cup OrderNoteReplies \cup TicketRepliesByStaff \cup BroadcastReplies \cup GatewayReplies
          \cup SearchPaymentReplies \cup CardReplies \cup EditCardReplies \cup CryptoReplies
          \cup EditCryptoReplies \cup ShowMainMenu)

-----------------------------------------------------------------------------
(* The answers to every button there is, worked out once *)

ButtonsOf(answers) == UNION {ToSet(a.keyboard) : a \in answers}
ButtonsAnswered(routes) ==
    UNION {ButtonsOf(IF r.by = <<>> THEN r.answers ELSE UNION {r.by[x] : x \in DOMAIN r.by})
             : r \in ToSet(routes)}
AllButtons(routes) ==
    ToSet(OldKeyboard) \cup UNION {ToSet(k) : k \in Notices \cup Receipts}
      \cup ButtonsOf(CustomerReplies \cup StaffReplies) \cup ButtonsAnswered(routes)
      \cup {"verify_channel_join"}
Answers ==
    LET AnswersOf(routes) == [b \in AllButtons(routes) |-> Dispatched(routes, b)]
    IN AnswersOf(RouteCallback)

Now(answers) == {a \in answers : a.needs \subseteq there /\ a.lacks \cap there = {}}

-----------------------------------------------------------------------------

Init == screen = OldKeyboard /\ there \in {Kinds, Kinds \ {"member"}} /\ homing = FALSE

Answered(a) ==
    /\ screen' = IF a.keeps THEN screen ELSE a.keyboard
    /\ there' = (there \ a.erases) \cup a.makes
    /\ Kinds \ there' \in Absences

PressAt(i) == \E a \in Now(Answers[screen[i]]) : Answered(a)

\* The person presses a button.
Press == \E i \in DOMAIN screen : ~homing /\ PressAt(i) /\ UNCHANGED homing

\* They write something.
Write == ~homing /\ (\E a \in Now(CustomerReplies \cup StaffReplies) : Answered(a)) /\ UNCHANGED homing

\* /start, /help and the messages that come unasked
Command ==
    /\ ~homing
    /\ \E a \in Now(Gated(ShowMainMenu \cup ShowHelpMenu)) : Answered(a)
    /\ UNCHANGED homing
Notify ==
    /\ ~homing
    /\ screen' \in Notices \cup (IF "staff" \in there THEN Receipts ELSE {})
    /\ UNCHANGED <<there, homing>>

\* Something disappears or comes back elsewhere; a membership once verified stays.
Elsewhere ==
    /\ ~homing
    /\ \E k \in Kinds :
          \/ k \in there /\ k # "member" /\ there' = there \ {k}
          \/ k \notin there /\ there' = there \cup {k}
    /\ Kinds \ there' \in Absences
    /\ UNCHANGED <<screen, homing>>

\* From here on they only press the last button.
GoHome ==
    /\ ~homing /\ screen \notin Receipts \cup {<<>>} /\ there = Kinds
    /\ homing' = TRUE
    /\ UNCHANGED <<screen, there>>
MainMenus == {a.keyboard : a \in ShowMainMenu}
PressLast ==
    /\ homing /\ screen # <<>>
    /\ PressAt(Len(screen))
    /\ homing' = (screen' \notin MainMenus)

Next == Press \/ Write \/ Command \/ Notify \/ Elsewhere \/ GoHome \/ PressLast

Spec == Init /\ [][Next]_vars /\ WF_vars(PressLast)

-----------------------------------------------------------------------------
(* Properties *)

\* Buttons that never do what they say.
DeadButtons ==
    {"qr_codes_1", "admin_eum_u_no_reset", "admin_update_crypto_rates", "upgrade_level"}
      \cup {"aoc_1_" \o s : s \in {"pending", "awaiting_payment", "cancelled", "refunded"}}

\* Routes a shorter prefix hides.
Shadowed == {"upgrade_level", "payment_methods_back"}

\* Buttons taken by a route that names less of them than a later one, which
\* would answer otherwise.
Misrouted ==
    LET Hidden(routes) ==
            {b \in AllButtons(routes) : \E i \in Matching(routes, b) :
                /\ Precision(routes[i], b) > Precision(routes[Min(Matching(routes, b))], b)
                /\ AnswersBy(routes[i], b) # Routed(routes, b)}
    IN Hidden(RouteCallback)

\* Every button of every keyboard a person can have in front of them reaches the
\* route meant for it, is understood there and answered without an error,
\* whatever has disappeared since the keyboard was shown; the dead and the
\* hidden ones are named.
ButtonsWork ==
    \A i \in DOMAIN screen :
       /\ screen[i] \notin DeadButtons => \A a \in Now(Answers[screen[i]]) : ~a.fails
       /\ screen[i] \in Misrouted => screen[i] \in Shadowed

\* A person without access to the staff's menus is never shown one of their
\* buttons by a press, a message or a task, also when they keep keyboards from
\* the time they had it.
StaffOnly ==
    [][("staff" \notin there /\ screen' # screen) =>
          \A i \in DOMAIN screen' : ~Administrative(screen'[i])]_vars

\* The only application for a platform is shown again by its own way back.
Loop == screen # <<>> /\ Last(screen) = "academy_platform_connectix_android"

\* While nothing disappears elsewhere, whoever keeps pressing the last button of
\* whatever is shown comes back to the main menu, or to the one screen known to
\* lead to itself: no other handler's way back leads round in a circle or only
\* says something.
WayHome == homing ~> (~homing \/ Loop)
=============================================================================
