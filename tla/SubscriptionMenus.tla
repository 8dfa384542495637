--------------------------- MODULE SubscriptionMenus ---------------------------
(***************************************************************************)
(* The menus about the user's subscriptions: the list, the details, the     *)
(* renewal, and the configurations of each kind of panel.  "service" is the *)
(* row the user may reach, "subscription" that they have not hidden it.     *)
(***************************************************************************)
EXTENDS Keyboards

Shown(answers) == Found("service", Found("subscription", answers))

-----------------------------------------------------------------------------
(* bot/handlers/subscriptions.py *)

ShowMySubscriptions ==
    LET Few == Show(<<"purchase_subscription", "main_menu">>)
        Some == ShowOne(Row(<<"subscription_details_1">>) ++ Pages("subscriptions_page_")
                          ++ Row(<<"purchase_subscription", "main_menu">>))
    IN Of("service", Of("subscription", Some, Few), Few)

ShowSubscriptionClaim == Found("claim", Back("my_subscriptions"))

\* my_own_subscriptions and family_subscriptions
ShowSubscriptionList ==
    Show(<<"purchase_subscription", "my_subscriptions">>)
        \cup Of("service", Show(<<"subscription_details_1", "my_subscriptions">>),
                           Show(<<"purchase_subscription", "my_subscriptions">>))

\* A gift nobody has claimed cannot be renewed.
ShowRenewalDetails ==
    Shown(Alert \cup Show(<<"purchase_subscription", "repurchase_subscription_1",
                            "subscription_details_1">>))

StartRenameSubscription == Found("service", Back("subscription_details_1"))
RenameReplies == Alert \cup Show(<<"my_subscriptions", "main_menu">>)

\* Active or not; unclaimed gift or cancelled, expired, or running.
ShowSubscriptionDetails ==
    Shown(ShowOne(May(<<"get_config_1">>)
                    ++ {<<>>, <<"renewal_details_1", "hide_subscription_1">>, <<"renewal_details_1">>}
                    ++ Row(<<"rename_subscription_1", "my_subscriptions">>)))

\* Only an expired one; the list that follows no longer has it.
HideExpiredSubscription ==
    Found("service", Alert \cup Erase("subscription", Show(<<"purchase_subscription", "main_menu">>)))

ConfigEnd == <<"rename_subscription_1", "main_menu", "useful_content",
               "useful_category_install", "useful_category_downloads">>

SendConnectixConfig == Alert \cup Show(ConfigEnd)
SendStandardConfig ==
    ShowOne(May(<<"copy_config_vless_1">>) ++ May(<<"copy_config_vmess_1">>)
              ++ May(<<"copy_config_trojan_1">>) ++ Row(<<"qr_codes_1", "config_file_1">> \o ConfigEnd))

-----------------------------------------------------------------------------
(* bot/handlers/subscription_hiddify.py: the panel may have no configuration, *)
(* fail or not be there; it does not look at hidden subscriptions.            *)

HiddifyShowSubscriptionDetails ==
    Found("service", Show(<<"get_config_1", "usage_stats_1", "get_apps_1", "my_subscriptions">>)
                       \cup Back("my_subscriptions"))

HiddifyGetSubscriptionConfig ==
    Found("service",
        Alert \cup ShowOne({<<"support", "subscription_details_1">>, <<"subscription_details_1">>,
                            <<"show_config_1_0", "show_config_1_1", "subscription_details_1">>,
                            <<"my_subscriptions">>}))

ShowConfigByProtocol ==
    Found("service", Alert \cup ShowOne({<<"qr_1_0", "get_config_1">>, <<"get_config_1">>}))

ShowAppsMenu ==
    Found("service", Show(<<"apps_android_1", "apps_ios_1", "apps_windows_1", "apps_linux_1",
                            "apps_mac_1", "apps_all_1", "subscription_details_1">>)
                       \cup Back("subscription_details_1"))
ShowAppsByPlatform == Found("service", Back("get_apps_1"))

ShowMtproxies == Found("service", Back("subscription_details_1")) \cup Back("my_subscriptions")
GetShortUrl ==
    Found("service", ShowOne({<<"short_url_1", "subscription_details_1">>, <<"subscription_details_1">>}))
        \cup Back("my_subscriptions")

CopyConfig == Alert
DownloadConfig == Alert
SendConfigFile == Alert
ShowQrCode == Alert \cup Found("service", Back("subscription_details_1"))

\* subscriptions.py get_subscription_config: the handler of the panel's kind.
GetSubscriptionConfig ==
    Found("service", Alert \cup SendConnectixConfig \cup SendStandardConfig)
        \cup HiddifyGetSubscriptionConfig
=============================================================================
