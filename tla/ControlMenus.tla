----------------------------- MODULE ControlMenus -----------------------------
(***************************************************************************)
(* The staff's menus whose buttons begin with "ac:": campaign links, plans, *)
(* the challenge program, notification rules and users, and the main menu   *)
(* and ticket lists built with the same screens.  A row that is gone, or a  *)
(* value that is refused, is only told.                                     *)
(***************************************************************************)
EXTENDS Keyboards

\* button
Button(action) == "ac:" \o action
Buttons(actions) == [i \in DOMAIN actions |-> Button(actions[i])]
OfEach(prefix, names) == [i \in DOMAIN names |-> Button(prefix \o names[i])]

\* control_screen appends the way back; control_prompt shows nothing else.
ControlScreen(rows, back) == ShowOne(rows ++ Row(<<back>>))
ControlPrompt(back) == Back(back)

\* A list of eight rows a page.
ControlList(row, more, section) ==
    ControlScreen(May(<<Button(row)>>) ++ Row(Buttons(more)) ++ Pages(Button(section \o ":")), "admin")

-----------------------------------------------------------------------------
(* Campaign links *)

ControlLinks == ControlList("link:1", <<"linknew">>, "links")
ControlLink ==
    Found("link", ControlScreen(Row(Buttons(<<"linkvisits:1:1", "linkedit:1", "linktoggle:1">>)),
                                Button("links")))
ControlLinkVisits ==
    Found("link", ControlScreen(May(<<Button("linkvisitor:1:1:1")>>) ++ Pages(Button("linkvisits:1:")),
                                Button("link:1")))
EditLink == Found("link", ControlPrompt(Button("link:1")))

-----------------------------------------------------------------------------
(* Users *)

ControlUser(back) ==
    Found("person", ControlScreen(Row(Buttons(<<"usertoggle:1", "usercredit:1">>)), back))
ControlLinkVisitor == Found("link", ControlUser(Button("linkvisits:1:1")))
ControlUsers == ControlList("user:1", <<"usersearch">>, "users")
\* Staff and superusers are never blocked here.
ToggleUser == Alert \cup ControlUser(Button("users"))
CreditUser == Found("person", ControlPrompt(Button("user:1")))

-----------------------------------------------------------------------------
(* Plans *)

PlanFields == <<"name", "price", "display_order", "discount_percentage">>
PlanSwitches == <<"is_visible", "is_featured", "sync_price", "sync_bot_settings">>

ControlPlans == ControlList("plan:1", <<"free", "plansync">>, "plans")
ControlPlan ==
    Found("plan_row", ControlScreen(Row(OfEach("planedit:1:", PlanFields) \o OfEach("plantoggle:1:", PlanSwitches)),
                                    Button("plans")))
EditPlan == Found("plan_row", ControlPrompt(Button("plan:1")))
SyncPlans == ControlScreen(Row(<<>>), Button("plans"))

-----------------------------------------------------------------------------
(* The challenge program, which is created when it is first shown *)

ProgramFields == <<"name", "offer_delay_minutes", "duration_days", "reward_percent", "intro_text">>
ProgramSwitches == <<"is_active", "require_referral_join_during_challenge">>
Triggers == <<"joined", "first_purchase", "last_purchase", "first_active_subscription", "referral_link_join">>

ControlChallenge ==
    ControlScreen(Row(OfEach("chedit:", ProgramFields) \o <<Button("chtrigger")>>
                        \o OfEach("chtoggle:", ProgramSwitches))
                    ++ May(<<Button("tier:1")>>) ++ Row(Buttons(<<"tiernew", "report">>)),
                  "admin")
ChooseOfferTrigger == ControlScreen(Row(OfEach("chtrigger:", Triggers)), Button("challenge"))
EditProgram == ControlPrompt(Button("challenge"))
ControlTier ==
    Found("tier", ControlScreen(Row(Buttons(<<"tieredit:1", "tiertoggle:1">>)), Button("challenge")))
\* The row is only looked up when the value comes.
EditTier == ControlPrompt(Button("challenge"))
ToggleTier == Found("tier", Alert \cup ControlChallenge)
ControlReport == ControlScreen(Row(Buttons(<<"export", "report">>)), "admin")
\* Two files are sent below.
ControlExport == Alert

-----------------------------------------------------------------------------
(* Notification rules *)

RuleFields ==
    <<"name", "kind", "trigger", "delay_minutes", "audience", "message", "button_action", "button_text">>
RuleChoices == [kind |-> <<"custom", "survey", "referral_intro", "profile_completion">>,
                trigger |-> Triggers,
                audience |-> <<"all", "active", "inactive", "royal", "normal", "iran_ip">>,
                button_action |-> <<"main_menu", "purchase_subscription", "active_challenges",
                                    "referral_system", "complete_profile", "service_survey_start",
                                    "my_subscriptions", "useful_content">>]

ControlRules == ControlList("rule:1", <<"rulenew">>, "rules")
ControlRule ==
    Found("rule", ControlScreen(Row(OfEach("ruleedit:1:", RuleFields) \o Buttons(<<"rulepreview:1", "ruletoggle:1">>)),
                                Button("rules")))
EditRule(field) ==
    Found("rule",
        IF field \in DOMAIN RuleChoices
        THEN ControlScreen(Row(OfEach("ruleset:1:" \o field \o ":", RuleChoices[field])), Button("rule:1"))
        ELSE ControlPrompt(Button("rule:1")))
\* full_clean may refuse the value.
SetRule == Found("rule", Alert \cup ControlRule)
PreviewRule == Found("rule", ControlScreen(Row(<<>>), Button("rule:1")))

-----------------------------------------------------------------------------
(* handle_control_message: asked again, or saved *)

ControlReplies ==
    LET Saved(back) == Show(<<back, "admin">>) IN
    Alert \cup Make("link", Saved(Button("link:1"))) \cup Make("rule", Saved(Button("rule:1")))
      \cup Make("tier", Saved(Button("challenge"))) \cup Saved(Button("challenge"))
      \cup Found("plan_row", Saved(Button("plan:1"))) \cup Found("person", Saved(Button("user:1")))
      \cup Saved("admin_bot_settings")

-----------------------------------------------------------------------------
(* The main menu's switches and the tickets of a status *)

MenuSwitches == <<"referral_system_enabled", "wallet_system_enabled", "support_system_enabled">>
ControlMainMenu ==
    ControlScreen(Row([i \in 1..3 |-> "admin_menu_toggle_" \o MenuSwitches[i]]), "admin_bot_settings")
\* toggle_main_menu; the wallet's switch hides nothing here.
ToggleMainMenu(field) ==
    CASE field = "referral_system_enabled" -> Toggle("referrals", ControlMainMenu)
      [] field = "support_system_enabled" -> Toggle("support", ControlMainMenu)
      [] OTHER -> ControlMainMenu
EditBotText == ControlPrompt("admin_bot_settings")
ControlTickets(status) ==
    ControlScreen(May(<<"admin_view_ticket_1">>) ++ Pages(Button("tickets:" \o status \o ":")),
                  "admin_tickets")
=============================================================================
