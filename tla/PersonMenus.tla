------------------------------ MODULE PersonMenus ------------------------------
(***************************************************************************)
(* The customer's menus about the person: main menu, profile, referrals,    *)
(* rewards, challenges, survey, academy, support, help and statistics.      *)
(***************************************************************************)
EXTENDS Keyboards

-----------------------------------------------------------------------------
(* bot/handlers/base.py, start.py *)

MainMenuButtons(referrals, support) ==
    <<"purchase_subscription", "my_profile">>
        \o (IF referrals THEN <<"rewards", "referral_system">> ELSE <<>>)
        \o (IF support THEN <<"support">> ELSE <<>>)
        \o <<"my_subscriptions">>
        \o (IF referrals THEN <<"active_challenges">> ELSE <<>>)
        \o <<"useful_content">>

\* The keyboard as the brand's switches and the person's access have it now.
ShowMainMenu ==
    LET Menu(referrals, support) ==
            Of("staff", Show(Append(MainMenuButtons(referrals, support), "admin")),
                        Show(MainMenuButtons(referrals, support)))
    IN Of("referrals", Of("support", Menu(TRUE, TRUE), Menu(TRUE, FALSE)),
                       Of("support", Menu(FALSE, TRUE), Menu(FALSE, FALSE)))

\* Once the onboarding is over its buttons are only told so; the others ask for
\* the name again.
HandleProfileSetupCallback == Alert \cup Back("main_menu")

-----------------------------------------------------------------------------
(* bot/handlers/profile.py *)

ShowMyProfile ==
    Show(<<"complete_profile", "edit_profile", "my_subscriptions", "referral_system",
           "how_to_earn", "wallet", "main_menu">>)
EditProfile ==
    Show(<<"complete_profile", "edit_birth_date", "edit_full_name", "edit_phone",
           "edit_locations", "edit_gender", "edit_device", "my_profile">>)
ShowGenderOptions == Show(<<"set_gender_female", "set_gender_male", "edit_profile">>)
SetGender == Show(<<"my_profile", "main_menu">>)
ShowDeviceOptions == Show(<<"set_device_android", "set_device_ios", "edit_profile">>)
\* _toggle_device, then the options again
SetDeviceType == ShowDeviceOptions
BeginCompletion == Back("edit_profile")
RequestFieldUpdate == Back("edit_profile")
\* _save_field: asked again, asked for the next field or done
ProfileReplies ==
    Back("edit_profile") \cup ShowOne({<<"set_gender_female", "set_gender_male">>,
                                       <<"my_profile", "main_menu">>})

-----------------------------------------------------------------------------
(* bot/handlers/referrals.py *)

\* "manual_referrer" while nobody referred the user and the brand allows it
ShowReferralMenu ==
    ShowOne(Row(<<"referral_materials", "referral_stats">>) ++ May(<<"manual_referrer">>)
              ++ Row(<<"main_menu">>))
StartManualReferrer == Alert \cup Back("referral_system")
ManualReferrerReplies == Alert \cup Back("referral_system")
ShowReferralStats == Back("referral_system")
ShowReferralMaterials == ShowOne(May(<<"referral_material_1">>) ++ Row(<<"referral_system">>))
ShowReferralMaterial == Found("material", Back("referral_materials"))

-----------------------------------------------------------------------------
(* bot/handlers/rewards.py *)

ShowRewards == Show(<<"how_to_earn", "referral_system", "main_menu">>)
RedeemReward == Alert \cup Show(<<"my_subscriptions", "rewards">>)
ShowAchievements ==
    Back("rewards")
        \cup ShowOne(May(<<"claim_achievement_1">>) ++ Pages("achievements_page_") ++ Row(<<"rewards">>))
ClaimAchievement == Alert \cup ShowAchievements
ShowHowToEarn == Show(<<"referral_system", "active_challenges", "rewards">>)
ShowLeaderboard == Show(<<"how_to_earn", "rewards">>)

-----------------------------------------------------------------------------
(* bot/handlers/challenges.py *)

\* None or declined; offered; waiting for money; running; over.
ShowActiveChallenges ==
    ShowOne({<<"main_menu">>, <<"referral_system", "main_menu">>}) \cup
    Of("challenge",
       ShowOne({<<"challenge_accept_1", "challenge_decline_1", "main_menu">>,
                <<"referral_system", "rewards", "main_menu">>}
                 \cup (May(<<"challenge_pay_1">>)
                         ++ Row(<<"charge_wallet", "challenge_accept_1", "main_menu">>))),
       Back("main_menu"))
AcceptChallenge == Found("challenge", ShowOne(May(<<"challenge_tier_1">>) ++ Row(<<"active_challenges">>)))
DeclineChallenge == Found("challenge", Alert \cup Back("main_menu"))
SelectTier ==
    Found("challenge", Alert \cup Show(<<"challenge_pay_1", "charge_wallet", "challenge_accept_1">>))
PayChallenge == Found("challenge", Alert \cup Show(<<"referral_system", "active_challenges">>))

-----------------------------------------------------------------------------
(* bot/handlers/survey.py *)

Steps == <<"quality", "app", "support">>

RatingKeyboard(key) == <<"survey_rate_" \o key \o "_1", "survey_rate_" \o key \o "_5", "main_menu">>
StartSurvey == Alert \cup Show(RatingKeyboard(Steps[1]))
\* The next step; after the last the thanks, or the first when one is missing.
Rate(key) ==
    LET i == CHOOSE i \in 1..3 : Steps[i] = key IN
    Alert \cup (IF i < 3 THEN Show(RatingKeyboard(Steps[i + 1]))
                ELSE ShowOne({<<"create_ticket", "main_menu">>, RatingKeyboard(Steps[1])}))

-----------------------------------------------------------------------------
(* bot/handlers/useful_content.py *)

Categories == {"downloads", "install", "app_usage", "faq", "internet_tips"}
Families == {"connectix", "v2rayng", "happ"}
Platforms == {"android", "windows"}

\* The item of each id: an application for a platform, or an article.
Items == [i \in {"1", "2", "3", "4"} |->
    CASE i = "1" -> [family |-> "connectix", platform |-> "android"]
      [] i = "2" -> [family |-> "v2rayng", platform |-> "android"]
      [] i = "3" -> [family |-> "happ", platform |-> "windows"]
      [] i = "4" -> [family |-> "", platform |-> ""]]
ItemsOf(family, platform) ==
    {i \in DOMAIN Items : Items[i].family = family /\ Items[i].platform = platform}
ItemButton(i) == "useful_item_" \o i

\* Mutant of ItemBack: every application leads back to its platform.
ItemBackToPlatform(i) ==
    LET item == Items[i] IN
    IF item.family = "" THEN "useful_category_install"
    ELSE "academy_platform_" \o item.family \o "_" \o item.platform

\* _item_back: an android application leads back to the list of its platform
ItemBack(i) ==
    LET item == Items[i] IN
    CASE item.family \in {"connectix", "v2rayng"} /\ item.platform = "android" ->
             "academy_platform_" \o item.family \o "_android"
      [] item.family = "" -> "useful_category_install"
      [] OTHER -> "academy_app_" \o item.family

ShowAcademy ==
    Show(<<"useful_category_downloads", "useful_category_install", "useful_category_app_usage",
           "useful_category_faq", "useful_category_internet_tips", "main_menu">>)
ShowCategory(category) ==
    IF category = "downloads"
    THEN Show(<<"academy_app_connectix", "academy_other_apps", "useful_content">>)
    ELSE ShowOne(May(<<ItemButton("4")>>) ++ Row(<<"useful_content">>))
ShowOtherApps ==
    ShowOne(Row(<<"academy_app_v2rayng", "academy_app_happ">>) ++ May(<<ItemButton("4")>>)
              ++ Row(<<"useful_category_downloads">>))
ShowItem(i) ==
    Found("item", ShowOne(May(<<"academy_file_" \o i>>) ++ Row(<<ItemBack(i)>>)))

\* The only item of a platform is shown at once, except v2rayNG's.
ShowPlatform(family, platform) ==
    LET List(only) == Row(only) ++ Row(<<"academy_app_" \o family>>)
        Only(i) == IF family # "v2rayng" THEN ShowItem(i) ELSE ShowOne(List(<<ItemButton(i)>>))
        Several(i) == ShowOne(List(<<ItemButton(i), ItemButton(i)>>))
    IN ShowOne(List(<<>>)) \cup UNION {Only(i) \cup Several(i) : i \in ItemsOf(family, platform)}
ShowApp(family) ==
    LET Choice(i) == {<<ItemButton(i)>>, <<"academy_platform_" \o family \o "_" \o Items[i].platform>>}
    IN ShowOne(({<<>>} \cup UNION {Choice(i) : i \in {j \in DOMAIN Items : Items[j].family = family}})
                 ++ Row(<<IF family = "connectix" THEN "useful_category_downloads"
                                                  ELSE "academy_other_apps">>))

\* The file, the link when there is no file, or the way to the support.
SendInstaller == Found("item", Alert \cup Back("support"))

-----------------------------------------------------------------------------
(* bot/handlers/support.py *)

ShowSupportMenu == Show(<<"create_ticket", "my_tickets", "useful_content", "contact_info", "main_menu">>)
TicketDeviceButtons == <<"ticket_noop", "ticket_device_android", "ticket_device_none">>
ShowCreateTicket ==
    Found("category", Show(<<"ticket_cat_1">> \o TicketDeviceButtons \o <<"support">>))
\* The keyboard keeps its other buttons; the marks of the chosen device change.
SelectTicketDevice == Alert
HandleTicketCategory ==
    Found("category", Alert \cup Show(TicketDeviceButtons \o <<"create_ticket">>))
TicketReplies ==
    Alert \cup ShowOne({TicketDeviceButtons \o <<"create_ticket">>,
                        <<"ticket_details_1", "my_tickets", "main_menu">>,
                        <<"ticket_details_1", "main_menu">>})
ShowMyTickets ==
    Of("ticket", ShowOne({<<"ticket_details_1">>}
                           ++ {<<>>, <<"ticket_noop", "tickets_page_2">>, <<"tickets_page_1", "ticket_noop">>}
                           ++ Row(<<"create_ticket", "support">>)),
                 Show(<<"create_ticket", "support">>))
ShowTicketDetails ==
    Found("ticket", ShowOne({<<"ticket_reply_1", "ticket_close_1">>, <<"ticket_rate_1">>, <<>>}
                              ++ Row(<<"my_tickets">>)))
StartTicketReply == Found("ticket", Alert \cup Back("ticket_details_1"))
CloseTicket == Found("ticket", Alert \cup Show(<<"ticket_rate_1", "my_tickets">>))
RatingButtons == <<"ticket_rate_submit_1_1", "ticket_rate_submit_1_2", "ticket_rate_submit_1_3",
                   "ticket_rate_submit_1_4", "ticket_rate_submit_1_5">>
ShowRatingOptions == Found("ticket", Alert \cup Show(RatingButtons \o <<"ticket_details_1">>))
SubmitRating == Found("ticket", Alert \cup Back("ticket_details_1"))
ShowFaq ==
    Of("article", ShowOne(Row(<<"faq_article_1">>) ++ Pages("faq_page_") ++ Row(<<"faq_search", "support">>)),
                  Show(<<"faq_search", "support">>))
ShowFaqArticle == Found("article", Show(<<"faq_helpful_1", "faq_not_helpful_1", "faq">>))
VoteFaq == Alert
StartFaqSearch == Back("faq")
FaqReplies ==
    Alert \cup ShowOne({<<"faq_search", "faq">>, <<"faq_article_1", "faq_search", "faq">>})
ShowContactInfo == Show(<<"create_ticket", "support">>)

-----------------------------------------------------------------------------
(* bot/handlers/help.py, stats.py *)

ShowHelpMenu == Show(<<"help_usage", "about", "terms", "privacy", "main_menu">>)
ShowUsageGuide == Show(<<"support", "useful_content", "help">>)
ShowAbout == Show(<<"purchase_subscription", "contact_info", "help">>)
ShowTerms == Show(<<"privacy", "help">>)
ShowPrivacy == Show(<<"terms", "help">>)

ShowStatistics == Show(<<"detailed_stats", "main_menu">>)
ShowDetailedStats == Show(<<"subscription_stats", "statistics">>)
ShowSubscriptionStats == Of("subscription", Back("detailed_stats"), Alert)
=============================================================================
