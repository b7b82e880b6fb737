------------------------------ MODULE Checkout ------------------------------
(***************************************************************************)
(* Paying for a plan in the web client: the subscription panel             *)
(* (components/admin/SubscriptionBillingPanel.tsx) and the checkout dialog *)
(* it opens (components/pricing/PlanCheckoutModal.tsx), with the orders    *)
(* the server keeps.                                                       *)
(*                                                                         *)
(* The dialog stays mounted while it is closed, so most of its state       *)
(* outlives a closing; a payment once begun goes on whatever happens to    *)
(* the dialog.  It is opened for one plan, and priced by the server for    *)
(* the coupon, on which alone the amount depends.  The buyer's state (which*)
(* splits the tax) and autopay are further fields of a purchase, as the    *)
(* gateway is, and the call-back tab one more form, as the sales tab is:   *)
(* they are left out.                                                      *)
(***************************************************************************)
EXTENDS Naturals, Sequences, FiniteSets, SequencesExt

CONSTANTS
    Coupons,
    Gateways,        \* what the server offers; "razorpay" and "cashfree" are known to the dialog
    None,
    MaxOpenings,     \* bound: openings of the dialog
    MaxAsked,        \* bound: quotes asked for and not answered
    MaxOrders        \* bound: orders made

VARIABLES
    dialog,   \* PlanCheckoutModal's state
    panel,    \* the panel around it: "shown", "refreshing", "failed", "failedOpen"
    quotes,   \* quotes asked for, the last asked last, and whether the last still counts
    flow,     \* handleOnlinePayment or an inquiry on its way
    orders    \* the server's orders, by request key

checkoutVars == <<dialog, panel, quotes, flow, orders>>

Priced == [coupon : Coupons \cup {None}]

\* quoteError stays out: it is only shown; couponJustApplied too: it only toasts.
Fresh == [open |-> FALSE, mode |-> "online", quote |-> None, coupon |-> None,
          gateway |-> "razorpay", loading |-> FALSE, fulfilled |-> None,
          session |-> 0, made |-> 0, quoteLoading |-> FALSE, opening |-> 0]

CheckoutInit ==
    /\ dialog = Fresh
    /\ panel = "shown"
    /\ quotes = [asked |-> <<>>, live |-> FALSE]
    /\ flow = None
    /\ orders = <<>>

-----------------------------------------------------------------------------
(* The quote *)

Mounted == panel \in {"shown", "refreshing"}

QuoteInputs(d) == [coupon |-> d.coupon]
PurchaseOf(d) == [coupon |-> d.coupon, gateway |-> d.gateway]

\* The dialog becomes d; the effect asks for a quote again when an input of it changed.  React
\* runs it before the page handles another event, so the two are one step: the frame drawn in
\* between, not loading yet, is left out.
Becomes(d) ==
    IF d.open /\ (~dialog.open \/ QuoteInputs(d) # QuoteInputs(dialog))
    THEN /\ Len(quotes.asked) < MaxAsked
         /\ dialog' = [d EXCEPT !.quoteLoading = TRUE]
         /\ quotes' = [asked |-> Append(quotes.asked, QuoteInputs(d)), live |-> TRUE]
    ELSE /\ dialog' = d
         /\ quotes' = [quotes EXCEPT !.live = @ /\ d.open]

\* Mutant: the effect has no clean-up, every answer counts.
CountsAlways(i) == dialog.open
Counts(i) == quotes.live /\ i = Len(quotes.asked)

Taken(i) == [asked |-> RemoveAt(quotes.asked, i),
             live |-> quotes.live /\ i # Len(quotes.asked)]

QuoteArrives(i) ==
    /\ dialog' = IF Counts(i) THEN [dialog EXCEPT !.quote = quotes.asked[i], !.quoteLoading = FALSE]
                 ELSE dialog
    /\ quotes' = Taken(i)
    /\ UNCHANGED <<panel, flow, orders>>

\* A failure with a coupon takes the coupon off and asks again (one step, as above), the last
\* good quote stays; without one there is no quote.
QuoteFails(i) ==
    /\ IF Counts(i)
       THEN IF dialog.coupon # None
            THEN /\ dialog' = [dialog EXCEPT !.coupon = None, !.quoteLoading = TRUE]
                 /\ quotes' = [asked |-> Append(RemoveAt(quotes.asked, i),
                                                [QuoteInputs(dialog) EXCEPT !.coupon = None]),
                               live |-> TRUE]
            ELSE /\ dialog' = [dialog EXCEPT !.quote = None, !.quoteLoading = FALSE]
                 /\ quotes' = Taken(i)
       ELSE dialog' = dialog /\ quotes' = Taken(i)
    /\ UNCHANGED <<panel, flow, orders>>

\* "Try again" under the error.
TryAgain ==
    /\ Mounted /\ dialog.open /\ dialog.quote = None /\ ~dialog.quoteLoading
    /\ Len(quotes.asked) < MaxAsked
    /\ dialog' = [dialog EXCEPT !.quoteLoading = TRUE]
    /\ quotes' = [asked |-> Append(quotes.asked, QuoteInputs(dialog)), live |-> TRUE]
    /\ UNCHANGED <<panel, flow, orders>>

-----------------------------------------------------------------------------
(* Opening, closing, and the fields *)

Opened(d) == [d EXCEPT !.open = TRUE, !.opening = @ + 1]

Open ==
    /\ Mounted
    /\ ~dialog.open
    /\ dialog.opening < MaxOpenings
    /\ Becomes(Opened(dialog))
    /\ UNCHANGED <<panel, flow, orders>>

\* Closing forgets the session, the quote and the success, not what was entered.
Shut(d) == [d EXCEPT !.open = FALSE, !.session = 0, !.quote = None, !.fulfilled = None]

Close ==
    /\ Mounted /\ dialog.open
    /\ Becomes(Shut(dialog))
    /\ UNCHANGED <<panel, flow, orders>>

Shown == Mounted /\ dialog.open /\ dialog.fulfilled = None

\* A tab of the dialog.
PickMode(mode) ==
    /\ Shown /\ dialog.mode # mode
    /\ dialog' = [dialog EXCEPT !.mode = mode]
    /\ UNCHANGED <<panel, quotes, flow, orders>>

\* The gateways and the profile, asked for at the opening and at each change of tab,
\* arrive, however late, over what was picked and typed meanwhile; those asked for on the
\* online tab, where nothing can be paid online, make the dialog leave for the sales tab.
Loaded(first, leave) ==
    /\ Mounted /\ dialog.opening > 0
    /\ Becomes([dialog EXCEPT !.gateway = first, !.mode = IF leave THEN "sales" ELSE @])
    /\ UNCHANGED <<panel, flow, orders>>

Online == Shown /\ dialog.mode = "online"

PickGateway(g) ==
    /\ Online /\ dialog.gateway # g
    /\ dialog' = [dialog EXCEPT !.gateway = g]
    /\ UNCHANGED <<panel, quotes, flow, orders>>

ApplyCoupon(c) ==
    /\ Online /\ dialog.coupon # c
    /\ Becomes([dialog EXCEPT !.coupon = c])
    /\ UNCHANGED <<panel, flow, orders>>

\* "Remove", next to a coupon the quote has.
RemoveCoupon ==
    /\ Online /\ dialog.coupon # None
    /\ dialog.quote # None /\ dialog.quote.coupon # None
    /\ Becomes([dialog EXCEPT !.coupon = None])
    /\ UNCHANGED <<panel, flow, orders>>

-----------------------------------------------------------------------------
(* Paying *)

PayEnabled == ~dialog.loading /\ dialog.quote # None

Begun(stage) == [stage |-> stage, what |-> PurchaseOf(dialog), opening |-> dialog.opening,
                 key |-> None, here |-> TRUE]

\* The click: what is bought is what the screen had then.
Pay ==
    /\ Online /\ PayEnabled
    /\ flow = None    \* bound: none left behind by an unmounted dialog
    /\ flow' = Begun("profile")
    /\ dialog' = [dialog EXCEPT !.loading = TRUE]
    /\ UNCHANGED <<panel, quotes, orders>>

At(stage) == flow # None /\ flow.stage = stage

\* What the flow sets of its own dialog: nothing once that one is unmounted.
Sets(d) == dialog' = IF flow.here THEN d ELSE dialog

\* Mutant: a session for each attempt.
SessionNew(d) == d.made + 1
SessionOf(d) == IF d.session # 0 THEN d.session ELSE d.made + 1

\* The profile is saved, or not: the order is sent all the same.  The key is the
\* session's, made now if there is none, and the purchase.
ProfileSaved ==
    /\ At("profile")
    /\ dialog' = [dialog EXCEPT !.made = IF SessionOf(dialog) > @ THEN SessionOf(dialog) ELSE @,
                                !.session = IF flow.here THEN SessionOf(dialog) ELSE @]
    /\ flow' = [flow EXCEPT !.stage = "order", !.key = <<SessionOf(dialog), flow.what>>]
    /\ UNCHANGED <<panel, quotes, orders>>

\* The flow is over and the button comes back.
Back(d) == [d EXCEPT !.loading = FALSE]

\* POST /billing/orders: the same key gets the pending order back.  The answer may be lost.
OrderServed ==
    LET new == [status |-> "pending", charged |-> FALSE, opening |-> flow.opening] IN
    /\ At("order")
    /\ flow.key \in DOMAIN orders \/ Cardinality(DOMAIN orders) < MaxOrders
    /\ orders' = IF flow.key \in DOMAIN orders THEN orders
                 ELSE [k \in DOMAIN orders \cup {flow.key} |-> IF k = flow.key THEN new ELSE orders[k]]
    /\ \/ /\ orders'[flow.key].status = "pending"
          /\ flow' = [flow EXCEPT !.stage = "window"]
          /\ dialog' = dialog
       \/ /\ flow' = None
          /\ Sets(Back(dialog))
    /\ UNCHANGED <<panel, quotes>>

\* No order: a coupon used up, a network failure, or the key's order is paid already.
OrderRefused ==
    /\ At("order")
    /\ flow' = None
    /\ Sets(Back(dialog))
    /\ UNCHANGED <<panel, quotes, orders>>

\* The gateway's script does not load, or its window is closed without paying.
WindowClosed ==
    /\ At("window")
    /\ flow' = None
    /\ Sets(Back(dialog))
    /\ UNCHANGED <<panel, quotes, orders>>

\* The gateway takes the money for its order, once, and the confirm is sent.
Charged ==
    /\ At("window")
    /\ ~orders[flow.key].charged
    /\ orders' = [orders EXCEPT ![flow.key].charged = TRUE]
    /\ flow' = [flow EXCEPT !.stage = "confirm"]
    /\ UNCHANGED <<dialog, panel, quotes>>

\* The gateway tells the server itself.
Webhook(k) ==
    /\ orders[k].charged /\ orders[k].status = "pending"
    /\ orders' = [orders EXCEPT ![k].status = "paid"]
    /\ UNCHANGED <<dialog, panel, quotes, flow>>

\* After a payment Razorpay's handler leaves the button as it is; Cashfree's brings it back.
After(d) == IF flow.what.gateway = "cashfree" THEN Back(d) ELSE d

\* POST .../confirm finds the money and says "paid": the dialog announces the plan, and
\* the panel loads the subscription again.
ConfirmPaid ==
    /\ At("confirm")
    /\ orders' = [orders EXCEPT ![flow.key].status = "paid"]
    /\ Sets([After(dialog) EXCEPT !.fulfilled = flow.key])
    /\ panel' = IF Mounted THEN "refreshing" ELSE panel
    /\ flow' = None
    /\ UNCHANGED quotes

\* It says something else (the gateway has not settled it yet).
ConfirmOther ==
    /\ At("confirm")
    /\ Sets(After(dialog))
    /\ flow' = None
    /\ UNCHANGED <<panel, quotes, orders>>

\* It fails, before or after the server heard it: neither gateway's code resets the button.
ConfirmFails ==
    /\ At("confirm")
    /\ orders' \in {orders, [orders EXCEPT ![flow.key].status = "paid"]}
    /\ flow' = None
    /\ UNCHANGED <<dialog, panel, quotes>>

\* The sales and call-back tabs: one request, closing the dialog when it goes well.
Inquire ==
    /\ Shown /\ dialog.mode # "online" /\ ~dialog.loading
    /\ flow = None
    /\ flow' = Begun("inquiry")
    /\ dialog' = [dialog EXCEPT !.loading = TRUE]
    /\ UNCHANGED <<panel, quotes, orders>>

InquiryEnds ==
    /\ At("inquiry")
    /\ flow' = None
    /\ IF flow.here THEN Becomes(Back(dialog)) \/ Becomes(Back(Shut(dialog)))
       ELSE UNCHANGED <<dialog, quotes>>
    /\ UNCHANGED <<panel, orders>>

-----------------------------------------------------------------------------
(* The panel around it *)

\* handleCancelAutopay ends with the same refresh.
CancelAutopay ==
    /\ panel = "shown"
    /\ panel' = "refreshing"
    /\ UNCHANGED <<dialog, quotes, flow, orders>>

Refreshed ==
    /\ panel = "refreshing"
    /\ panel' = "shown"
    /\ UNCHANGED <<dialog, quotes, flow, orders>>

\* The panel gives way to "We could not load": the dialog in it is unmounted.
RefreshFails ==
    /\ panel = "refreshing"
    /\ panel' = IF dialog.open THEN "failedOpen" ELSE "failed"
    /\ dialog' = [Fresh EXCEPT !.opening = dialog.opening, !.made = dialog.made]
    /\ quotes' = [quotes EXCEPT !.live = FALSE]
    /\ flow' = IF flow = None THEN None ELSE [flow EXCEPT !.here = FALSE]
    /\ UNCHANGED orders

\* "Try again" works: the dialog is mounted anew, open if it was never closed.
RefreshedAgain ==
    /\ ~Mounted
    /\ panel' = "shown"
    /\ IF panel = "failed" THEN UNCHANGED <<dialog, quotes>>
       ELSE dialog.opening < MaxOpenings /\ Becomes(Opened(dialog))
    /\ UNCHANGED <<flow, orders>>

-----------------------------------------------------------------------------
CheckoutNext ==
    \/ \E i \in DOMAIN quotes.asked : QuoteArrives(i) \/ QuoteFails(i)
    \/ TryAgain \/ Open \/ Close \/ RemoveCoupon
    \/ \E mode \in {"online", "sales"} : PickMode(mode)
    \/ \E g \in Gateways, leave \in BOOLEAN : Loaded(g, leave)
    \/ \E g \in Gateways : PickGateway(g)
    \/ \E c \in Coupons : ApplyCoupon(c)
    \/ Pay \/ ProfileSaved \/ OrderServed \/ OrderRefused \/ WindowClosed \/ Charged
    \/ \E k \in DOMAIN orders : Webhook(k)
    \/ ConfirmPaid \/ ConfirmOther \/ ConfirmFails \/ Inquire \/ InquiryEnds
    \/ CancelAutopay \/ Refreshed \/ RefreshFails \/ RefreshedAgain

-----------------------------------------------------------------------------
(* Properties *)

CheckoutTypeOK ==
    /\ dialog \in [open : BOOLEAN, mode : {"online", "sales"}, quote : Priced \cup {None},
                   coupon : Coupons \cup {None}, gateway : {"razorpay", "cashfree"},
                   loading : BOOLEAN, fulfilled : DOMAIN orders \cup {None}, session : Nat,
                   made : Nat, quoteLoading : BOOLEAN, opening : 0..MaxOpenings]
    /\ panel \in {"shown", "refreshing", "failed", "failedOpen"}
    /\ quotes.asked \in Seq(Priced) /\ Len(quotes.asked) <= MaxAsked
    /\ flow # None => /\ flow.stage \in {"profile", "order", "window", "confirm", "inquiry"}
                      /\ flow.stage \in {"window", "confirm"} => flow.key \in DOMAIN orders

\* With no "Updating quote", the price on the screen is the one for what the screen has:
\* never a late answer to an earlier question.
QuoteIsCurrent ==
    Mounted /\ dialog.open /\ ~dialog.quoteLoading /\ dialog.quote # None
        => dialog.quote = QuoteInputs(dialog)

\* While the dialog stays open, a purchase tried again is the same order: "a second click
\* returns the order the first one made instead of making another".
OneOrderWhileOpen ==
    [][\A k \in DOMAIN orders' \ DOMAIN orders :
          (Mounted /\ dialog.open /\ flow.opening = dialog.opening)
              => ~\E j \in DOMAIN orders : j[2] = k[2] /\ orders[j].opening = flow.opening]_checkoutVars
=============================================================================
