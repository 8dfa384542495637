-------------------------------- MODULE Routes --------------------------------
(***************************************************************************)
(* The dispatcher's route_callback: which handler answers which button.     *)
(* The routes are tried in their order in the code, those of "ac:" first;   *)
(* a button goes to the first that matches.  A route of the same texts as   *)
(* one before it is left out.                                               *)
(***************************************************************************)
EXTENDS PersonMenus, SubscriptionMenus, PurchaseMenus, StaffMenus, ControlMenus, FiniteSetsExt

-----------------------------------------------------------------------------
(* Routes *)

StartsWith(text, prefix) == Len(prefix) <= Len(text) /\ SubSeq(text, 1, Len(prefix)) = prefix
After(text, prefix) == SubSeq(text, Len(prefix) + 1, Len(text))
Numbered(text) == SubSeq(text, Len(text), Len(text)) \in {"0", "1", "2", "3", "4", "5"}

\* A route of texts, or of the texts with a prefix but not with some longer
\* ones; "refused" answers data whose last part is no number, "by" answers by
\* what follows the prefix.
Route == [texts |-> {}, prefixes |-> {}, but |-> {}, answers |-> {},
          number |-> FALSE, refused |-> Fail, by |-> <<>>]

Is(texts, answers) == [Route EXCEPT !.texts = texts, !.answers = answers]
Text(prefix, answers) == [Route EXCEPT !.prefixes = {prefix}, !.answers = answers]
Number(prefix, answers) == [Text(prefix, answers) EXCEPT !.number = TRUE]
\* The dispatcher itself refuses what is no number.
Checked(prefix, answers) == [Number(prefix, answers) EXCEPT !.refused = Alert]
Each(prefix, by) == [Route EXCEPT !.prefixes = {prefix}, !.by = by]

\* Mutant of Matched: a prefix also takes what a longer one is meant for.
MatchedUnguarded(route, data) == {p \in route.prefixes : StartsWith(data, p)}

\* The prefixes of the route that take the data
Matched(route, data) ==
    {p \in route.prefixes : StartsWith(data, p) /\ \A b \in route.but : ~StartsWith(data, b)}
Matches(route, data) == data \in route.texts \/ Matched(route, data) # {}

\* How much of the data the route names
Precision(route, data) ==
    IF data \in route.texts THEN Len(data) + 1 ELSE Max({Len(p) : p \in Matched(route, data)})

AnswersBy(route, data) ==
    IF data \in route.texts THEN route.answers
    ELSE IF route.number /\ ~Numbered(data) THEN route.refused
    ELSE IF route.by = <<>> THEN route.answers
    ELSE LET rest == After(data, CHOOSE p \in Matched(route, data) : TRUE)
         IN IF rest \in DOMAIN route.by THEN route.by[rest] ELSE Alert

-----------------------------------------------------------------------------
(* handle_control_callback: the part before the first colon, then ids, which *)
(* are refused when they are no numbers                                      *)

\* A section with or without a page
Section(name, answers) == [Checked(Button(name \o ":"), answers) EXCEPT !.texts = {Button(name)}]

ControlLinkRoutes ==
    <<Each(Button("tickets:"),
           [p \in {s \o n : s \in {"open", "in_progress", "resolved"}, n \in {"", ":1", ":2"}} |->
               ControlTickets(CHOOSE s \in {"open", "in_progress", "resolved"} : StartsWith(p, s))]),
      Section("links", ControlLinks),
      Checked(Button("link:"), ControlLink),
      Checked(Button("linkvisits:"), ControlLinkVisits),
      Checked(Button("linkvisitor:"), ControlLinkVisitor),
      Is({Button("linknew")}, ControlPrompt(Button("links"))),
      Checked(Button("linktoggle:"), ControlLink),
      Checked(Button("linkedit:"), EditLink)>>

ControlPlanRoutes ==
    <<Section("plans", ControlPlans),
      Checked(Button("plan:"), ControlPlan),
      Each(Button("plantoggle:1:"), [f \in ToSet(PlanSwitches) |-> Found("plan_row", Alert \cup ControlPlan)]),
      Each(Button("planedit:1:"), [f \in ToSet(PlanFields) |-> EditPlan]),
      Is({Button("free")}, ControlPlans),
      Is({Button("plansync")}, SyncPlans)>>

ControlChallengeRoutes ==
    <<Is({Button("challenge")}, ControlChallenge),
      Each(Button("chtoggle:"), [f \in ToSet(ProgramSwitches) |-> Alert \cup ControlChallenge]),
      Is({Button("chtrigger")}, ChooseOfferTrigger),
      Each(Button("chtrigger:"), [t \in ToSet(Triggers) |-> ControlChallenge]),
      Each(Button("chedit:"), [f \in ToSet(ProgramFields) |-> EditProgram]),
      Is({Button("tiernew")}, EditProgram),
      Checked(Button("tier:"), ControlTier),
      Checked(Button("tieredit:"), EditTier),
      Checked(Button("tiertoggle:"), ToggleTier)>>

ControlRuleRoutes ==
    <<Section("rules", ControlRules),
      Checked(Button("rule:"), ControlRule),
      Is({Button("rulenew")}, ControlPrompt(Button("rules"))),
      Checked(Button("ruletoggle:"), ControlRule),
      Each(Button("ruleedit:1:"), [f \in ToSet(RuleFields) |-> EditRule(f)]),
      Each(Button("ruleset:1:"),
           [s \in UNION {{f \o ":" \o v : v \in ToSet(RuleChoices[f])} : f \in DOMAIN RuleChoices} |-> SetRule]),
      Checked(Button("rulepreview:"), PreviewRule)>>

ControlUserRoutes ==
    <<Is({Button("report")}, ControlReport),
      Is({Button("export")}, ControlExport),
      Section("users", ControlUsers),
      Checked(Button("user:"), ControlUser(Button("users"))),
      Is({Button("usersearch")}, ControlPrompt(Button("users"))),
      Checked(Button("usertoggle:"), ToggleUser),
      Checked(Button("usercredit:"), CreditUser)>>

\* Any other text of "ac:" is no longer valid.
ControlRoutes ==
    ControlLinkRoutes \o ControlPlanRoutes \o ControlChallengeRoutes \o ControlRuleRoutes
        \o ControlUserRoutes \o <<Text(Button(""), Fail)>>

-----------------------------------------------------------------------------
(* route_callback, for the customer *)

ProfileRoutes ==
    <<Is({"main_menu"}, ShowMainMenu),
      Is({"my_profile"}, ShowMyProfile),
      Is({"complete_profile"}, BeginCompletion),
      Is({"edit_profile"}, EditProfile),
      Is({"edit_gender"}, ShowGenderOptions),
      Text("set_gender_", SetGender),
      Is({"edit_device"}, ShowDeviceOptions),
      Text("set_device_", SetDeviceType),
      Is({"edit_full_name", "edit_birth_date", "edit_phone", "edit_locations"}, RequestFieldUpdate),
      [Text("setup_device_", HandleProfileSetupCallback) EXCEPT !.texts = {"finish_devices"}],
      Is({"setup_profile", "skip_profile", "request_phone", "skip_phone",
          "onboarding_existing_subscription", "onboarding_no_subscription",
          "onboarding_add_subscription", "onboarding_finish_claims"}, HandleProfileSetupCallback),
      Is({"referral_system"}, ShowReferralMenu),
      Is({"manual_referrer"}, StartManualReferrer),
      Is({"referral_stats"}, ShowReferralStats),
      Is({"referral_materials"}, ShowReferralMaterials),
      Number("referral_material_", ShowReferralMaterial),
      Is({"share_referral", "copy_referral_link"}, ShowReferralMenu),
      Is({"referral_link", "share_referral_old"}, ShowReferralMenu)>>

PurchaseRoutes ==
    <<Is({"purchase_subscription"}, ShowSubscriptionPlans),
      Text("cancel_purchase_", CancelPurchase),
      Text("pf:", HandlePlanFilter),
      Each("purchase_category_",
           [c \in {"normal", "royal", "iran_ip", "old"} |-> ShowPlansByCategory(c)]),
      Is({"purchase_special"}, ShowSpecialOffers),
      Number("plans_page_", ShowPlansPage),
      Is({"service_guide"}, ShowServiceGuide),
      Number("select_plan_", ShowPlanDetails),
      Text("purchase_coupon_", RequestPurchaseCoupon),
      Number("purchase_nocredit_", InitiatePurchase),
      Number("purchase_plan_", InitiatePurchase),
      Number("gift_plan_", ShowPlanDetails),
      Number("buy_for_other_nocredit_", InitiatePurchase),
      Number("buy_for_other_", InitiatePurchase),
      Number("admin_confirm_wallet_", AdminConfirmWallet),
      Number("admin_reject_wallet_", AdminRejectWallet),
      Number("admin_confirm_payment_", AdminConfirmPayment),
      Number("admin_reject_payment_", AdminRejectPayment),
      Text("payment_done_", PaymentDone),
      Text("payment_not_done_", PaymentNotDone),
      Text("payment_methods_", ShowPaymentMethodsForOrder),
      Text("payment_wallet_", ProcessWalletPayment),
      Text("payment_card_transfer_", ShowCardTransferPayment),
      Text("payment_", Alert),
      Text("select_card_", ShowSelectedCard)>>

WalletRoutes ==
    <<Is({"wallet"}, ShowWallet),
      Is({"charge_wallet"}, ShowChargeOptions),
      Is({"charge_custom"}, RequestCustomAmount),
      Number("charge_amount_", InitiateCharge),
      Number("wallet_pay_card_", ShowCardPayment),
      Is({"wallet_send_receipt"}, PromptSendReceipt),
      Number("wallet_pay_gateway_", ShowGatewayPayment),
      Number("wallet_gw_", ProcessGatewayPayment),
      Number("wallet_pay_crypto_", ShowCryptoPayment),
      Number("wallet_crypto_", ShowCryptoAddress),
      Text("copy_crypto_addr_", CopyCryptoAddress),
      Text("send_txid_", RequestTxid),
      Number("wallet_pay_stars_", ShowStarsPayment),
      Number("wallet_stars_pay_", ProcessStarsPayment),
      \* Any other page is the first.
      Text("wallet_history_", ShowWalletHistory),
      Is({"wallet_noop"}, Alert),
      Is({"wallet_coupon"}, ShowCouponInput),
      Is({"wallet_history"}, ShowWalletHistory)>>

SubscriptionRoutes ==
    <<Is({"my_subscriptions"}, ShowMySubscriptions),
      Is({"my_own_subscriptions", "family_subscriptions"}, ShowSubscriptionList),
      Is({"renewal_page"}, ShowMySubscriptions),
      Checked("rename_subscription_", StartRenameSubscription),
      Checked("renewal_plans_page_", ShowRenewalDetails),
      Number("renewal_details_", ShowRenewalDetails),
      Checked("subscription_claim_", ShowSubscriptionClaim),
      Number("repurchase_subscription_", PurchasePlanForSubscription),
      Number("renew_nocredit_", PurchasePlanForSubscription),
      Number("renew_with_plan_", PurchasePlanForSubscription),
      Checked("hide_subscription_", HideExpiredSubscription),
      Number("subscription_details_", ShowSubscriptionDetails),
      Number("get_config_", GetSubscriptionConfig),
      [Number("usage_stats_", ShowMySubscriptions) EXCEPT !.prefixes = @ \cup {"refresh_stats_"}]>>

HiddifyRoutes ==
    <<Number("renew_", HiddifyShowSubscriptionDetails),
      Number("upgrade_", HiddifyShowSubscriptionDetails),
      Number("transfer_", HiddifyShowSubscriptionDetails),
      Checked("copy_config_", CopyConfig),
      Checked("download_", DownloadConfig),
      \* A method only the other handler of subscriptions has
      Text("qr_codes_", Fail),
      Checked("config_file_", SendConfigFile),
      Number("get_apps_", ShowAppsMenu),
      [Route EXCEPT !.prefixes = {"apps_" \o p \o "_" : p \in {"android", "ios", "windows", "linux", "mac", "all"}},
                    !.answers = ShowAppsByPlatform, !.number = TRUE],
      Number("show_config_", ShowConfigByProtocol),
      [Route EXCEPT !.prefixes = {"copy_vless_", "copy_vmess_", "copy_trojan_"},
                    !.answers = CopyConfig, !.number = TRUE],
      Number("copy_sub_link_", Alert),
      Number("qr_", ShowQrCode),
      Number("mtproxies_", ShowMtproxies),
      Number("short_url_", GetShortUrl)>>

ContentRoutes ==
    <<Is({"active_challenges"}, ShowActiveChallenges),
      Checked("challenge_accept_", AcceptChallenge),
      Checked("challenge_decline_", DeclineChallenge),
      Checked("challenge_tier_", SelectTier),
      Checked("challenge_pay_", PayChallenge),
      Is({"service_survey_start"}, StartSurvey),
      Each("survey_rate_", [r \in {s \o "_" \o n : s \in ToSet(Steps), n \in {"1", "5"}} |->
                                Rate(CHOOSE s \in ToSet(Steps) : StartsWith(r, s))]),
      Is({"academy_other_apps"}, ShowOtherApps),
      Each("academy_app_", [f \in Families |-> ShowApp(f)]),
      Each("academy_platform_",
           [p \in {f \o "_" \o q : f \in Families, q \in Platforms} |->
               LET f == CHOOSE f \in Families : StartsWith(p, f)
               IN ShowPlatform(f, After(p, f \o "_"))]),
      Number("academy_file_", SendInstaller),
      Is({"useful_content"}, ShowAcademy),
      Each("useful_category_", [c \in Categories |-> ShowCategory(c)]),
      Each("useful_item_", [i \in DOMAIN Items |-> ShowItem(i)])>>

SupportRoutes ==
    <<Is({"support"}, ShowSupportMenu),
      Is({"create_ticket"}, ShowCreateTicket),
      Text("ticket_device_", SelectTicketDevice),
      Number("ticket_cat_", HandleTicketCategory),
      Number("subscriptions_page_", ShowMySubscriptions),
      Is({"my_tickets"}, ShowMyTickets),
      Number("tickets_page_", ShowMyTickets),
      Number("ticket_details_", ShowTicketDetails),
      Number("ticket_reply_", StartTicketReply),
      Number("ticket_close_", CloseTicket),
      [Number("ticket_rate_", ShowRatingOptions) EXCEPT !.but = {"ticket_rate_submit_"}],
      Number("ticket_rate_submit_", SubmitRating),
      Is({"faq"}, ShowFaq),
      Number("faq_page_", ShowFaq),
      Number("faq_article_", ShowFaqArticle),
      Number("faq_helpful_", VoteFaq),
      Number("faq_not_helpful_", VoteFaq),
      Is({"faq_search"}, StartFaqSearch),
      Is({"contact_info"}, ShowContactInfo),
      Is({"ticket_noop"}, Alert)>>

RewardRoutes ==
    <<Is({"rewards"}, ShowRewards),
      Text("claim_reward:", RedeemReward),
      Is({"how_to_earn"}, ShowHowToEarn),
      Is({"leaderboard"}, ShowLeaderboard),
      Is({"achievements"}, ShowAchievements),
      Number("achievements_page_", ShowAchievements),
      Number("claim_achievement_", ClaimAchievement),
      Is({"upgrade_level"}, ShowRewards),
      Is({"statistics"}, ShowStatistics),
      Is({"detailed_stats"}, ShowDetailedStats),
      Is({"subscription_stats"}, ShowSubscriptionStats),
      Is({"help"}, ShowHelpMenu),
      Is({"help_usage"}, ShowUsageGuide),
      Is({"about"}, ShowAbout),
      Is({"terms"}, ShowTerms),
      Is({"privacy"}, ShowPrivacy)>>

-----------------------------------------------------------------------------
(* route_callback, for the staff *)

PanelUserRoutes ==
    <<Is({"admin_list_panel_users"}, ListPanelUsers),
      Is({"admin_list_connectix_users"}, ListConnectixUsers),
      Checked("admin_connectix_users_page_", ListConnectixUsers),
      Checked("admin_users_page_", ShowUserListPage),
      Text("admin_view_panel_user_", ViewPanelUserDetails),
      Text("admin_edit_panel_user_", StartEditPanelUser),
      \* The field and the mode are what follows the last "_".
      Each("admin_euf_u_", [f \in {"name", "usage", "days", "mode", "comment"} |-> StartEditUserField(f)]),
      Each("admin_eum_", [m \in {"u_weekly", "u_monthly", "u_yearly", "u_no_reset"} |->
                              ApplyUserModeChange(IF m = "u_no_reset" THEN "u_no" ELSE "u")]),
      Text("admin_toggle_user_", TogglePanelUserStatus),
      Text("admin_delete_panel_user_", DeletePanelUser),
      Text("admin_cdu_", ConfirmDeleteUser),
      Text("admin_reset_user_", ResetUserUsage),
      Text("admin_cru_", ConfirmResetUsage),
      Is({"admin_search_panel_user"}, StartSearchPanelUser),
      Is({"admin_add_panel_user"}, StartAddPanelUser),
      Is({"admin_update_usage"}, UpdateUserUsage),
      Text("avu_", ViewPanelUserDetails),
      Text("aeu_", StartEditPanelUser),
      Checked("aup_", ShowUserListPage),
      Is({"admin_noop"}, Alert),
      Is({"admin_panel_users"}, ShowPanelUsersMenu)>>

MenuRoutes ==
    <<Is({"admin_edit_welcome_message", "admin_edit_contact_info"}, EditBotText),
      Is({"admin_edit_main_menu"}, ControlMainMenu),
      Each("admin_menu_toggle_", [f \in ToSet(MenuSwitches) |-> ToggleMainMenu(f)]),
      Is({"admin_sync_users"}, UpdateUserUsage),
      Is({"admin_panel_stats"}, ShowServerStatus),
      Number("admin_revenue_chart_", ShowRevenueChart),
      Text("crypto_network_", HandleCryptoNetworkSelection),
      Is({"admin"}, ShowAdminMenu),
      Is({"admin_dashboard"}, ShowDashboard),
      Is({"admin_users"}, ShowPanelUsersMenu),
      Is({"admin_orders"}, ShowOrdersManagement),
      Is({"admin_today_sales"}, ShowTodaySales),
      Checked("admin_today_sales_", ShowTodaySales),
      Checked("admin_today_sale_", ShowTodaySaleDetails),
      Is({"admin_tickets"}, ShowTicketsManagement),
      Is({"admin_broadcast"}, ShowBroadcastMenu),
      Is({"admin_settings"}, ShowSettings),
      Is({"admin_search_user"}, RequestSearchUsername),
      Is({"admin_stats"}, ShowDashboard),
      Is({"admin_ticket_stats"}, ShowTicketsManagement)>>

PanelAdminRoutes ==
    <<Is({"admin_panel_admins"}, ShowPanelAdminsMenu),
      Is({"admin_list_panel_admins"}, ListPanelAdmins),
      Is({"admin_add_panel_admin"}, StartAddPanelAdmin),
      Is({"admin_search_panel_admin"}, StartSearchPanelAdmin),
      Is({"admin_sync_panel_admins"}, SyncPanelAdmins),
      Text("admin_view_panel_admin_", ViewPanelAdminDetails),
      Text("admin_edit_panel_admin_", StartEditPanelAdmin),
      Text("admin_delete_panel_admin_", DeletePanelAdmin),
      Text("admin_mode_", HandlePanelAdminModeSelection),
      Text("admin_can_add_", HandlePanelAdminCanAdd),
      Is({"admin_server_status"}, ShowServerStatus),
      Is({"admin_panel_settings"}, ShowPanelSettings)>>

OrderRoutes ==
    <<Is({"admin_pending_orders", "admin_completed_orders", "admin_failed_orders", "admin_paid_orders",
          "admin_all_orders"}, ListOrders),
      Is({"admin_refresh_orders"}, ListOrders),
      Number("aop_", ListOrders),
      Text("aod_", ViewOrderDetails),
      Each("aoc_1_", [s \in {"pending", "awaiting_payment", "paid", "processing", "completed",
                             "cancelled", "refunded", "failed"} |-> ChangeOrderStatus(s)]),
      Text("aost_", StartOrderStatusPicker),
      Text("aoan_", StartOrderAdminNote),
      Number("admin_view_order_", ViewOrderDetails),
      Number("admin_cancel_order_", CancelOrder),
      Number("admin_confirm_order_", ConfirmOrder),
      Is({"admin_open_tickets"}, ControlTickets("open")),
      Is({"admin_in_progress_tickets"}, ControlTickets("in_progress")),
      Is({"admin_resolved_tickets"}, ControlTickets("resolved")),
      Number("admin_view_ticket_", ViewTicketDetails),
      Number("admin_assign_ticket_", ChangeTicket),
      Number("admin_close_ticket_", ChangeTicket),
      Number("admin_reopen_ticket_", ChangeTicket),
      Is({"admin_broadcast_all", "admin_broadcast_active", "admin_broadcast_inactive",
          "admin_broadcast_premium"}, StartBroadcast),
      Is({"admin_broadcast_send"}, ConfirmBroadcastSend),
      Is({"admin_cancel_broadcast"}, CancelBroadcast)>>

PaymentRoutes ==
    <<Is({"admin_edit_brand_info"}, ShowBrandSettings),
      Is({"admin_payment_settings"}, ShowPaymentSettings),
      Is({"admin_bot_settings"}, ShowBotSettings),
      Is({"admin_payment_gateways"}, ShowPaymentGateways),
      Is({"admin_payment_history"}, ShowPaymentHistoryPage),
      Number("admin_payment_history_", ShowPaymentHistoryPage),
      Is({"admin_revenue_report"}, ShowRevenueReport),
      Is({"admin_revenue_chart"}, ShowRevenueChart),
      Is({"admin_export_revenue"}, ExportRevenueExcel),
      Is({"admin_add_gateway"}, AddPaymentGateway),
      Each("gw_type_", [g \in {"stripe", "paypal", "zarinpal", "idpay", "razorpay", "custom"} |->
                            HandleGatewayTypeSelection]),
      Is({"admin_manage_cards"}, ManageCards),
      Is({"admin_manage_crypto"}, ManageCrypto),
      Is({"admin_add_card"}, AddPaymentCard),
      Is({"admin_edit_cards"}, EditCardsList),
      Is({"admin_delete_card"}, DeleteCardList),
      Number("admin_edit_card_", EditCardDetails),
      Text("admin_card_field_", StartEditCardField),
      Number("admin_card_toggle_", ToggleCardStatus),
      Number("admin_confirm_delete_card_", ConfirmDeleteCard),
      Number("admin_do_delete_card_", DoDeleteCard)>>

CryptoRoutes ==
    <<Is({"admin_add_crypto"}, AddCryptoCurrency),
      Is({"admin_edit_cryptos"}, EditCryptosList),
      Is({"admin_delete_crypto"}, DeleteCryptoList),
      Is({"admin_update_crypto_rates"}, UpdateCryptoRates),
      Number("admin_edit_crypto_", EditCryptoDetails),
      Text("admin_crypto_field_", StartEditCryptoField),
      Number("admin_crypto_toggle_", ToggleCryptoStatus),
      Number("admin_confirm_delete_crypto_", ConfirmDeleteCrypto),
      Number("admin_do_delete_crypto_", DoDeleteCrypto),
      Is({"admin_search_payment"}, SearchPayment),
      Is({"admin_filter_payments"}, FilterPaymentsByStatus),
      Each("admin_payments_status_",
           [p \in {s \o n : s \in ToSet(Statuses), n \in {"", "_1", "_2"}} |->
               ShowPaymentsByStatus(CHOOSE s \in ToSet(Statuses) : StartsWith(p, s))]),
      Is({"admin_edit_brand_name", "admin_edit_brand_description"}, EditBrand),
      Number("admin_ticket_messages_", ShowTicketMessages),
      Number("admin_reply_ticket_", StartTicketReplyByStaff),
      Is({"payment_methods_back", "back_to_plans"}, ShowSubscriptionPlans)>>

RouteCallback ==
    ControlRoutes \o ProfileRoutes \o PurchaseRoutes \o WalletRoutes \o SubscriptionRoutes
        \o HiddifyRoutes \o ContentRoutes \o SupportRoutes \o RewardRoutes \o PanelUserRoutes
        \o MenuRoutes \o PanelAdminRoutes \o OrderRoutes \o PaymentRoutes \o CryptoRoutes

-----------------------------------------------------------------------------
(* The answers to a button, by the routes given *)

Matching(routes, data) == {i \in DOMAIN routes : Matches(routes[i], data)}

Routed(routes, data) ==
    IF Matching(routes, data) = {} THEN Fail
    ELSE AnswersBy(routes[Min(Matching(routes, data))], data)

\* Mutant of Administrative: the short prefixes of orders are forgotten.
AdministrativeAtLength(data) ==
    data = "admin" \/ \E p \in {"admin_", "gw_type_", "crypto_network_", "ac:"} : StartsWith(data, p)

\* Buttons for which the dispatcher asks for access to the staff's menus.
Administrative(data) ==
    \/ data = "admin"
    \/ \E p \in {"admin_", "ao", "apu", "avu_", "aeu_", "aup_", "gw_type_", "crypto_network_", "ac:"} :
          StartsWith(data, p)

\* show_channel_gate_if_required, for all but the buttons of "ac:"
Gate == Show(<<"verify_channel_join">>)
Gated(answers) == Of("member", answers, Gate)
\* The main menu, or the name of a gift delivered now that the user has joined
VerifyChannelJoin == Gated(ShowMainMenu \cup Show(<<"rename_subscription_1", "main_menu">>))

Dispatched(routes, data) ==
    LET Answered == IF data = "verify_channel_join" THEN VerifyChannelJoin
                    ELSE IF StartsWith(data, "ac:") THEN Routed(routes, data)
                    ELSE Gated(Routed(routes, data))
    IN IF Administrative(data) THEN Found("staff", Answered) ELSE Answered
=============================================================================
