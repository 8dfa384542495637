------------------------------ MODULE StaffMenus ------------------------------
(***************************************************************************)
(* The staff's menus: users and admins of a Hiddify panel, orders, tickets, *)
(* broadcasts, settings, payments, cards and cryptocurrencies.  "provider"  *)
(* is a configured panel, "account" and "admin_account" a user and an admin *)
(* of it, "form" that the steps of a new admin are not over.  Whatever else *)
(* a panel answers, the handler shows the way back.                         *)
(***************************************************************************)
EXTENDS Keyboards

Panel(answers) == Found("provider", answers)

\* Shown, or the error and the way back
OrBack(answers, data) == answers \cup Back(data)

-----------------------------------------------------------------------------
(* bot/handlers/admin_hiddify.py: the panel's users *)

ShowAdminMenu ==
    LET Menu == <<"admin_dashboard", "admin_today_sales", "ac:users", "ac:plans", "ac:links",
                  "ac:challenge", "ac:rules", "ac:report", "admin_panel_users", "admin_orders",
                  "admin_tickets", "admin_broadcast", "admin_settings">>
    IN Of("provider", Show(Menu \o <<"admin_panel_admins", "admin_server_status", "main_menu">>),
                      Show(Append(Menu, "main_menu")))

\* A page of eight; "previous" and "next" on both sides of its number.
UserListPage ==
    ShowOne({<<"admin_add_panel_user", "admin_panel_users">>,
             <<"avu_u", "admin_noop", "admin_add_panel_user", "admin_search_panel_user", "aup_1",
               "aup_2", "admin_list_panel_users", "admin_panel_users">>})
ListPanelUsers == Panel(OrBack(UserListPage, "admin_panel_users"))
ShowUserListPage == ListPanelUsers
ListConnectixUsers ==
    Alert \cup OrBack(ShowOne(Pages("admin_connectix_users_page_")
                                ++ Row(<<"admin_list_connectix_users", "admin_panel_users">>)),
                      "admin_panel_users")

Account(answers) ==
    Panel(Of("account", OrBack(answers, "admin_list_panel_users"), Back("admin_list_panel_users")))

ViewPanelUserDetails ==
    Account(Show(<<"admin_edit_panel_user_u", "admin_toggle_user_u", "admin_reset_user_u",
                   "admin_delete_panel_user_u", "admin_list_panel_users">>))
StartEditPanelUser ==
    Account(Show(<<"admin_euf_u_name", "admin_euf_u_usage", "admin_euf_u_days", "admin_euf_u_mode",
                   "admin_euf_u_comment", "admin_toggle_user_u", "admin_reset_user_u",
                   "admin_view_panel_user_u">>))
\* "no_reset" is read as the mode "reset" of the user "u_no".
StartEditUserField(field) ==
    IF field = "mode"
    THEN Show(<<"admin_eum_u_weekly", "admin_eum_u_monthly", "admin_eum_u_yearly",
                "admin_eum_u_no_reset", "admin_edit_panel_user_u">>)
    ELSE Back("admin_edit_panel_user_u")
ApplyUserModeChange(uuid) ==
    Panel(IF uuid = "u" THEN Back("admin_edit_panel_user_u")
                        ELSE Errs(Back("admin_edit_panel_user_" \o uuid)))
EditPanelUserReplies == Alert \cup Show(<<"admin_edit_panel_user_u", "admin_list_panel_users">>)
TogglePanelUserStatus == Panel(Found("account", Alert \cup ViewPanelUserDetails))

DeletePanelUser == Account(Show(<<"admin_cdu_u", "admin_view_panel_user_u">>))
ConfirmDeleteUser ==
    Panel(Erase("account", Show(<<"admin_list_panel_users", "admin_panel_users">>))
            \cup Show(<<"admin_list_panel_users", "admin_panel_users">>))
ResetUserUsage == Account(Show(<<"admin_cru_u", "admin_view_panel_user_u">>))
ConfirmResetUsage == Panel(Show(<<"admin_view_panel_user_u", "admin_list_panel_users">>))

StartSearchPanelUser == Back("admin_panel_users")
StartAddPanelUser == Back("admin_panel_users")
UpdateUserUsage == Panel(Back("admin_panel_users"))
\* The steps of a new user; a search, which calls a method nothing defines.
PanelUserReplies ==
    Alert \cup Back("admin_panel_users")
      \cup Panel(Make("account", Show(<<"admin_list_panel_users", "admin_panel_users">>)))

ShowPanelUsersMenu ==
    LET Menu(hiddify) == ShowOne(May(<<"admin_list_connectix_users">>) ++ Row(hiddify) ++ Row(<<"admin">>))
    IN Of("provider",
          Menu(<<"admin_list_panel_users", "admin_add_panel_user", "admin_search_panel_user",
                 "admin_update_usage">>),
          Menu(<<>>))

ShowDashboard == Show(<<"admin_dashboard", "admin">>)
ShowServerStatus == Panel(OrBack(Show(<<"admin_server_status", "admin_panel_settings", "admin">>), "admin"))

-----------------------------------------------------------------------------
(* bot/handlers/admin_hiddify.py: the panel's admins *)

ModeButtons ==
    <<"admin_mode_super_admin", "admin_mode_admin", "admin_mode_agent", "admin_panel_admins">>

ShowPanelAdminsMenu ==
    Show(<<"admin_list_panel_admins", "admin_add_panel_admin", "admin_search_panel_admin",
           "admin_sync_panel_admins", "admin">>)
ListPanelAdmins ==
    Panel(OrBack(Show(<<"admin_add_panel_admin", "admin_list_panel_admins", "admin_panel_admins">>),
                 "admin_panel_admins"))
StartAddPanelAdmin == Back("admin_panel_admins")
HandlePanelAdminModeSelection == Found("form", Back("admin_panel_admins"))
HandlePanelAdminCanAdd ==
    LET Told == Show(<<"admin_list_panel_admins", "admin_panel_admins">>)
    IN Found("form", Panel(Told \cup Make("admin_account", Told)))
SyncPanelAdmins == Panel(Back("admin_panel_admins"))
\* It calls get_admin_by_uuid, which the panel's client does not have.
ViewPanelAdminDetails == Panel(Errs(Back("admin_list_panel_admins")))
StartEditPanelAdmin == Show(ModeButtons)
DeletePanelAdmin ==
    Panel(Back("admin_list_panel_admins")
            \cup Erase("admin_account", Back("admin_list_panel_admins")))
StartSearchPanelAdmin == Back("admin_panel_admins")
\* The steps of a new admin, and a search.
PanelAdminReplies ==
    Alert \cup Back("admin_panel_admins")
      \cup ShowOne({ModeButtons, <<"admin_can_add_yes", "admin_can_add_no">>,
                    <<"admin_search_panel_admin", "admin_panel_admins">>})

-----------------------------------------------------------------------------
(* bot/handlers/admin_hiddify.py: orders *)

ShowOrdersManagement ==
    Show(<<"admin_today_sales", "admin_all_orders", "admin_pending_orders", "admin_completed_orders",
           "admin_failed_orders", "admin">>)
ShowTodaySales ==
    ShowOne(May(<<"admin_today_sale_1">>) ++ Pages("admin_today_sales_") ++ Row(<<"admin_orders">>))
ShowTodaySaleDetails == Found("payment", Back("admin_today_sales"))

\* list_orders, show_order_list_page and refresh_orders
OrderListPage ==
    ShowOne({<<"admin_search_payment", "admin_orders">>,
             <<"aod_1", "admin_noop", "admin_search_payment", "admin_orders", "aop_1", "aop_2",
               "admin_refresh_orders", "admin_orders">>})
ListOrders == OrBack(OrderListPage, "admin_orders")

StatusButtons ==
    {<<>>, <<"aoc_1_paid", "aoc_1_cancelled">>, <<"aoc_1_processing", "aoc_1_cancelled">>,
     <<"aoc_1_completed", "aoc_1_cancelled">>, <<"aoc_1_refunded">>, <<"aoc_1_pending">>}
ViewOrderDetails ==
    Of("order", OrBack(ShowOne(StatusButtons ++ Row(<<"aoan_1", "aost_1", "admin_refresh_orders">>)),
                       "admin_orders"),
                Back("admin_orders"))

\* change_order_safely looks an order it is to cancel up by the wrong key, and
\* refuses every status it does not name.
ChangeOrderStatus(status) ==
    LET Told == Show(<<"aod_1", "admin_refresh_orders">>) IN
    IF status \in {"paid", "processing", "completed", "failed"} THEN Told ELSE Errs(Told)
StartOrderStatusPicker ==
    Show(<<"aoc_1_pending", "aoc_1_awaiting_payment", "aoc_1_paid", "aoc_1_processing",
           "aoc_1_completed", "aoc_1_cancelled", "aoc_1_refunded", "aoc_1_failed", "aod_1">>)
StartOrderAdminNote == Back("aod_1")
OrderNoteReplies == Alert \cup Show(<<"aod_1", "admin_refresh_orders">>)
ConfirmOrder == Back("admin_orders")
CancelOrder == Back("admin_orders")

-----------------------------------------------------------------------------
(* bot/handlers/admin_hiddify.py: tickets and broadcasts *)

ShowTicketsManagement ==
    Show(<<"admin_open_tickets", "admin_in_progress_tickets", "admin_resolved_tickets", "admin">>)
ViewTicketDetails ==
    Of("ticket", Show(<<"admin_ticket_messages_1", "admin_reply_ticket_1", "admin_assign_ticket_1",
                        "admin_close_ticket_1", "admin_reopen_ticket_1", "admin_tickets">>),
                 Back("admin_tickets"))
\* assign_ticket, close_ticket, reopen_ticket
ChangeTicket == Back("admin_tickets")
StartTicketReplyByStaff == Back("admin_tickets")
TicketRepliesByStaff == Alert \cup Back("admin_tickets")
ShowTicketMessages ==
    Of("ticket", OrBack(Show(<<"admin_reply_ticket_1", "admin_view_ticket_1">>), "admin_tickets"),
                 Back("admin_tickets"))

ShowBroadcastMenu ==
    Show(<<"admin_broadcast_all", "admin_broadcast_active", "admin_broadcast_inactive",
           "admin_broadcast_premium", "admin">>)
StartBroadcast == Back("admin")
BroadcastReplies == Alert \cup Show(<<"admin_broadcast_send", "admin">>)
ConfirmBroadcastSend == Alert \cup Back("admin")
CancelBroadcast == Back("admin")

-----------------------------------------------------------------------------
(* bot/handlers/admin_hiddify.py: settings and payments *)

ShowSettings ==
    Show(<<"admin_edit_brand_info", "admin_payment_settings", "admin_panel_settings", "admin">>)
ShowBrandSettings ==
    Show(<<"admin_edit_brand_name", "admin_edit_brand_description", "admin_settings">>)
\* edit_brand_name, edit_brand_description
EditBrand == Back("admin_settings")
ShowBotSettings ==
    Show(<<"admin_edit_welcome_message", "admin_edit_main_menu", "admin_edit_contact_info",
           "admin_settings">>)
ShowPanelSettings ==
    Of("provider", Show(<<"admin_sync_users", "admin_panel_stats", "admin_settings">>),
                   Back("admin_settings"))
RequestSearchUsername == Back("admin")

ShowPaymentSettings ==
    Show(<<"admin_payment_gateways", "admin_payment_history", "admin_revenue_report", "admin_settings">>)
ShowPaymentGateways ==
    OrBack(Show(<<"admin_add_gateway", "admin_manage_cards", "admin_manage_crypto",
                  "admin_payment_settings">>), "admin_payment_settings")
AddPaymentGateway ==
    Show(<<"gw_type_stripe", "gw_type_paypal", "gw_type_zarinpal", "gw_type_idpay",
           "gw_type_razorpay", "gw_type_custom", "admin_payment_gateways">>)
HandleGatewayTypeSelection == Back("admin_payment_gateways")
GatewayReplies == Alert \cup Back("admin_payment_gateways")

ShowPaymentHistoryPage ==
    OrBack(ShowOne(Pages("admin_payment_history_")
                     ++ Row(<<"admin_search_payment", "admin_filter_payments",
                              "admin_payment_history_1", "admin_payment_settings">>)),
           "admin_payment_settings")
SearchPayment == Back("admin_payment_history_1")
\* _handle_search_payment, defined twice: the later definition holds
SearchPaymentReplies == Back("admin_payment_history_1")
Statuses == <<"pending", "awaiting_confirmation", "confirmed", "failed", "cancelled", "refunded">>
FilterPaymentsByStatus ==
    Show([i \in 1..6 |-> "admin_payments_status_" \o Statuses[i]]
           \o <<"admin_payment_history_1", "admin_payment_history_1">>)
ShowPaymentsByStatus(status) ==
    OrBack(ShowOne(Pages("admin_payments_status_" \o status \o "_")
                     ++ Row(<<"admin_payments_status_" \o status \o "_1", "admin_filter_payments">>)),
           "admin_payment_history_1")
ShowRevenueReport ==
    OrBack(Show(<<"admin_revenue_chart", "admin_export_revenue", "admin_revenue_report",
                  "admin_payment_settings">>), "admin_payment_settings")
ShowRevenueChart ==
    OrBack(Show(<<"admin_revenue_chart_30", "admin_revenue_chart_90", "admin_revenue_chart",
                  "admin_revenue_report">>), "admin_revenue_report")
ExportRevenueExcel == Back("admin_revenue_report")

-----------------------------------------------------------------------------
(* bot/handlers/admin_hiddify.py: cards and cryptocurrencies *)

ManageCards ==
    OrBack(Show(<<"admin_add_card", "admin_edit_cards", "admin_delete_card", "admin_payment_gateways">>),
           "admin_payment_gateways")
AddPaymentCard == Back("admin_manage_cards")
CardReplies == Alert \cup Back("admin_manage_cards") \cup Make("card", Back("admin_manage_cards"))

\* One row or more, none, or an error.
Listed(kind, button, data) ==
    Of(kind, OrBack(Show(<<button, data>>), data), Back(data))
EditCardsList == Listed("card", "admin_edit_card_1", "admin_manage_cards")
EditCardDetails ==
    Of("card", OrBack(Show(<<"admin_card_field_1_bank_name", "admin_card_field_1_card_number",
                             "admin_card_field_1_cardholder_name", "admin_card_toggle_1",
                             "admin_edit_cards">>), "admin_manage_cards"),
               Back("admin_manage_cards"))
StartEditCardField == Back("admin_settings")
EditCardReplies == Back("admin_settings")
ToggleCardStatus == Back("admin_edit_card_1")
DeleteCardList == Listed("card", "admin_confirm_delete_card_1", "admin_manage_cards")
ConfirmDeleteCard ==
    Of("card", OrBack(Show(<<"admin_do_delete_card_1", "admin_delete_card">>), "admin_manage_cards"),
               Back("admin_manage_cards"))
\* It may also fail, with the same way back.
DoDeleteCard == Back("admin_manage_cards") \cup Found("card", Erase("card", Back("admin_manage_cards")))

ManageCrypto ==
    OrBack(Show(<<"admin_add_crypto", "admin_edit_cryptos", "admin_delete_crypto",
                  "admin_update_crypto_rates", "admin_payment_gateways">>), "admin_payment_gateways")
AddCryptoCurrency == Back("admin_manage_crypto")
CryptoReplies ==
    Alert \cup Back("admin_manage_crypto") \cup Make("crypto", Back("admin_manage_crypto"))
      \cup Show(<<"crypto_network_bitcoin", "crypto_network_ethereum", "crypto_network_tron",
                  "crypto_network_bsc", "crypto_network_polygon", "admin_manage_crypto">>)
HandleCryptoNetworkSelection == Back("admin_manage_crypto")
EditCryptosList == Listed("crypto", "admin_edit_crypto_1", "admin_manage_crypto")
EditCryptoDetails ==
    Of("crypto", OrBack(Show(<<"admin_crypto_field_1_name", "admin_crypto_field_1_symbol",
                               "admin_crypto_field_1_wallet_address", "admin_crypto_toggle_1",
                               "admin_edit_cryptos">>), "admin_manage_crypto"),
                 Back("admin_manage_crypto"))
StartEditCryptoField == Back("admin_settings")
EditCryptoReplies == Back("admin_settings")
ToggleCryptoStatus == Back("admin_edit_crypto_1")
DeleteCryptoList == Listed("crypto", "admin_confirm_delete_crypto_1", "admin_manage_crypto")
ConfirmDeleteCrypto ==
    Of("crypto", OrBack(Show(<<"admin_do_delete_crypto_1", "admin_delete_crypto">>), "admin_manage_crypto"),
                 Back("admin_manage_crypto"))
DoDeleteCrypto ==
    Back("admin_manage_crypto") \cup Found("crypto", Erase("crypto", Back("admin_manage_crypto")))
\* It calls aall(), which querysets do not have.
UpdateCryptoRates == Errs(Back("admin_manage_crypto"))
=============================================================================
