----------------------------- MODULE PurchaseMenus -----------------------------
(***************************************************************************)
(* The menus in which the customer spends: choosing a plan, paying an order *)
(* and topping up the wallet.  "plan" is a plan still offered to this user, *)
(* "unpaid" that the order can still be paid or cancelled, "method" that a  *)
(* card transfer is enabled and has a card, "picker" that the session of    *)
(* the plan picker is the latest, "wallet" that the wallet is neither       *)
(* closed nor frozen, "receipt" a payment the staff has not decided.        *)
(***************************************************************************)
EXTENDS Keyboards

Services == <<"purchase_category_normal", "purchase_category_royal", "purchase_category_iran_ip",
              "purchase_special">>

ShowSubscriptionPlans == Show(Services \o <<"service_guide", "main_menu">>)
ShowServiceGuide == Show(Services \o <<"purchase_subscription">>)

-----------------------------------------------------------------------------
(* bot/handlers/plan_picker.py *)

\* _picker_button, in a session whose token is t
PickerButton(choice) == "pf:t:" \o choice

\* What each stage offers; the trial comes first, the guide and the services last.
Stage(choices, all) ==
    May(<<"select_plan_1">>) ++ choices ++ (IF all THEN Row(<<PickerButton("all:")>>) ELSE Row(<<>>))
        ++ Row(<<"service_guide", "purchase_subscription">>)
PickerBack == Row(<<PickerButton("back:")>>)
PickerPages == Pages("pf:t:page:")
RenderPlanPicker ==
    ShowOne(Stage(Row(<<>>), TRUE)
      \cup Stage(May(<<PickerButton("duration:m1")>>) ++ May(<<PickerButton("users:1")>>), TRUE)
      \cup Stage(May(<<PickerButton("range:a")>>) ++ PickerBack, TRUE)
      \cup Stage(May(<<PickerButton("type:volume")>>) ++ May(<<PickerButton("type:unlimited")>>)
                   ++ May(<<PickerButton("type:time")>>) ++ PickerBack, FALSE)
      \cup Stage(May(<<"select_plan_1">>) ++ May(<<PickerButton("allusers:2")>>) ++ PickerBack, FALSE)
      \cup Stage(May(<<"select_plan_1">>) ++ PickerPages ++ PickerBack, TRUE)
      \cup Stage(May(<<"select_plan_1">>) ++ PickerPages ++ PickerBack, FALSE))

\* An old session is refused; a choice leads to any stage.
HandlePlanFilter == Found("picker", RenderPlanPicker)
ShowPlansByCategory(category) ==
    IF category \in {"normal", "royal", "iran_ip"} THEN RenderPlanPicker ELSE Alert

\* get_plans
PlanList ==
    ShowOne({<<"select_plan_1">>} ++ Pages("plans_page_all_1_") ++ Row(<<"purchase_subscription">>))
        \cup Back("purchase_subscription")
ShowSpecialOffers == PlanList
ShowPlansPage == PlanList

-----------------------------------------------------------------------------
(* bot/handlers/purchase.py *)

ShowPlanDetails ==
    Found("plan",
        ShowOne(Row(<<"purchase_plan_1", "purchase_nocredit_1", "buy_for_other_1", "buy_for_other_nocredit_1">>)
                  ++ {<<"purchase_special">>, <<PickerButton("stage:bundle")>>,
                      <<"purchase_category_normal">>}))

Paid == Show(<<"my_subscriptions", "main_menu">>)

\* _order_payment_content: paid in full, to be paid, or no longer payable.  The
\* support comes first when there is no method, above the coupon.
ShowPaymentMethods ==
    LET Methods == May(<<"payment_wallet_u">>) ++ May(<<"select_card_1_u">>)
        Above(methods) == IF methods = <<>> THEN <<"support">> ELSE <<>>
        Unpaid == ShowOne({Above(m) \o c \o m \o <<"cancel_purchase_u">> :
                              m \in Methods, c \in May(<<"purchase_coupon_u">>)})
    IN Of("unpaid", Of("plan", Unpaid \cup Paid, Back("purchase_subscription")),
                    Paid \cup Back("purchase_subscription"))
ShowPaymentMethodsForOrder == Found("order", ShowPaymentMethods)

\* A trial already used, an unnamed bot or a hidden plan; a free gift, a free
\* subscription, or an order to pay.
InitiatePurchase ==
    Found("plan", Alert \cup Back("purchase_subscription") \cup Back("my_subscriptions") \cup ShowPaymentMethods)
PurchasePlanForSubscription ==
    Found("service", Found("plan", Alert \cup Back("my_subscriptions") \cup ShowPaymentMethods))

RequestPurchaseCoupon == Found("order", Found("unpaid", Back("payment_methods_u")))
CouponReplies == Alert \cup ShowPaymentMethods

\* The wallet's money comes back, or there is none and the plan is shown again,
\* which it also is when the order was cancelled before; any other order is refused.
CancelPurchase ==
    Found("order", Of("unpaid", Erase("unpaid", Back("purchase_subscription") \cup ShowPlanDetails),
                                Alert \cup ShowPlanDetails))

ProcessWalletPayment == Found("order", Found("plan", Alert \cup Paid \cup ShowPaymentMethods))
Payable(answers) == Found("order", Found("unpaid", Found("plan", Found("method", answers))))
ShowCardTransferPayment == Payable(Show(<<"select_card_1_u", "payment_methods_u">>))
ShowSelectedCard == Payable(Alert \cup Show(<<"payment_done_u", "payment_card_transfer_u">>))
PaymentDone == Found("order", Found("plan", Found("unpaid", Alert \cup Back("payment_not_done_u"))))
PaymentNotDone == Found("order", Show(<<"payment_methods_u", "main_menu">>))

\* handle_payment_receipt: for another person, or for oneself
ReceiptReplies ==
    Alert \cup ShowOne({<<"useful_category_downloads", "useful_category_install", "useful_category_app_usage">>}
                         ++ May(<<"useful_category_faq", "useful_category_internet_tips">>)
                         ++ Row(<<"main_menu">>))

\* Only a pending payment; a rejection also takes the buttons away.
AdminConfirmPayment == Found("staff", Found("receipt", Erase("receipt", Alert)))
AdminRejectPayment == Found("staff", Found("receipt", Erase("receipt", Show(<<>>))))

-----------------------------------------------------------------------------
(* bot/handlers/wallet.py *)

ShowWallet == Show(<<"charge_wallet", "wallet_history_1", "wallet_coupon", "main_menu">>)
ShowWalletHistory ==
    Show(<<"charge_wallet", "wallet">>)
        \cup ShowOne(May(<<"wallet_history_1">>) ++ Row(<<"wallet_noop">>) ++ May(<<"wallet_history_2">>)
                       ++ Row(<<"charge_wallet", "wallet">>))

\* A currency without preset amounts or limits is refused.
ShowChargeOptions ==
    Found("wallet", Found("currency",
        Show(<<"charge_amount_1000", "charge_amount_2000", "charge_custom", "wallet_coupon", "wallet">>)))
RequestCustomAmount == Found("currency", Back("charge_wallet"))

\* show_payment_methods of the wallet
ChargeMethods ==
    ShowOne(May(<<"wallet_pay_card_1000">>) ++ May(<<"wallet_pay_crypto_1000">>)
              ++ May(<<"wallet_pay_stars_1000">>) ++ Row(<<"charge_wallet">>))
InitiateCharge == Found("currency", Found("wallet", ChargeMethods))
ChargeReplies == Alert \cup ChargeMethods \cup Back("charge_wallet") \cup Back("wallet")

Chargeable(answers) == Found("currency", Found("wallet", answers))
ShowCardPayment == Chargeable(Alert \cup Show(<<"wallet_send_receipt", "charge_wallet">>))
PromptSendReceipt == Back("charge_wallet")
ShowCryptoPayment == Chargeable(Alert \cup Found("coin", Show(<<"wallet_crypto_1_100000", "charge_amount_1000">>)))
ShowCryptoAddress ==
    Chargeable(Found("coin", Alert \cup Show(<<"copy_crypto_addr_u", "send_txid_u", "charge_wallet">>)))
CopyCryptoAddress == Alert
RequestTxid == Found("payment", Show(<<"wallet", "charge_wallet">>))
ShowStarsPayment == Chargeable(Alert \cup Show(<<"wallet_stars_pay_100000_100000", "charge_amount_1000">>))
\* An invoice is sent below.
ProcessStarsPayment == Alert
\* Gateways are not supported.
ShowGatewayPayment == Alert
ProcessGatewayPayment == Alert
ShowCouponInput == Back("wallet")

\* handle_receipt_photo with _send_charge_menu, handle_txid_message,
\* handle_successful_payment and handle_coupon_message
WalletReplies ==
    Alert \cup ShowOne({<<"charge_amount_1000", "charge_amount_2000", "charge_custom", "wallet">>, <<"wallet">>,
                        <<"wallet", "wallet_history_1", "main_menu">>, <<"wallet", "main_menu">>,
                        <<"wallet", "purchase_subscription", "main_menu">>,
                        <<"wallet", "charge_wallet", "purchase_subscription", "main_menu">>})

AdminConfirmWallet == Found("staff", Found("receipt", Erase("receipt", Show(<<>>))))
AdminRejectWallet == Found("staff", Found("receipt", Erase("receipt", Show(<<>>))))
=============================================================================
