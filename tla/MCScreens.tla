------------------------------ MODULE MCScreens ------------------------------
(* One instance of each page that keeps state of its own: Checkout, Tracking, OrderDesk and  *)
(* VoucherForm.  The pages share nothing but the session (ClientSession), so a behaviour     *)
(* stays on the screen it starts on, and the states of the pages add up.                     *)
EXTENDS Naturals, FiniteSets

CONSTANTS
    Coupons, Gateways, None, MaxOpenings, MaxAsked, MaxOrders,     \* Checkout
    s1, s2, a, b, Nobody, MaxStarts, MaxPings, MaxShifts,          \* Tracking
    Items, Absent, MaxCalls, MaxClicks, MaxEdits,                  \* OrderDesk
    MaxTyped, MaxAmount                                            \* VoucherForm

ASSUME CheckoutAssumption ==
    /\ Gateways \subseteq {"razorpay", "cashfree"}    \* those the dialog knows
    /\ MaxOpenings \in Nat /\ MaxAsked \in Nat

ASSUME DeskAssumption ==
    /\ Items # {}    \* create_order refuses an order without items
    /\ MaxClicks \in Nat /\ MaxEdits \in Nat

ASSUME FormAssumption == MaxTyped \in Nat /\ MaxAmount \in Nat
ASSUME TrackingAssumption == MaxShifts \in Nat /\ Nobody \notin {s1, s2}

VARIABLES
    screen,
    dialog, panel, quotes, flow, orders,        \* Checkout
    phone, starts, watch, service, shifts,      \* Tracking
    order, desk, calls,                         \* OrderDesk
    list, form, quick, saves                    \* VoucherForm

Sessions == {s1, s2}
Owner == [s \in Sessions |-> IF s = s1 THEN a ELSE b]

C == INSTANCE Checkout
T == INSTANCE Tracking WITH Tokens <- Sessions, Person <- Owner, desk <- shifts
D == INSTANCE OrderDesk
V == INSTANCE VoucherForm

checkout == <<dialog, panel, quotes, flow, orders>>
tracking == <<phone, starts, watch, service, shifts>>
ordering == <<order, desk, calls>>
voucher == <<list, form, quick, saves>>
vars == <<screen, checkout, tracking, ordering, voucher>>

Init ==
    /\ screen \in {"checkout", "tracking", "orders", "voucher"}
    /\ C!CheckoutInit /\ T!TrackingInit /\ D!DeskInit /\ V!FormInit

Next ==
    /\ UNCHANGED screen
    /\ \/ /\ screen = "checkout" /\ C!CheckoutNext
          /\ UNCHANGED <<tracking, ordering, voucher>>
       \/ /\ screen = "tracking" /\ T!TrackingNext
          /\ UNCHANGED <<checkout, ordering, voucher>>
       \/ /\ screen = "orders" /\ D!DeskNext
          /\ UNCHANGED <<checkout, tracking, voucher>>
       \/ /\ screen = "voucher" /\ V!FormNext
          /\ UNCHANGED <<checkout, tracking, ordering>>

Spec == Init /\ [][Next]_vars

\* The types of the four pages (each module states and explains its own).
TypeOK == C!CheckoutTypeOK /\ T!TrackingTypeOK /\ D!DeskTypeOK /\ V!FormTypeOK

\* The properties of the pages, stated and explained in their modules.  Checkout:
QuoteIsCurrent == C!QuoteIsCurrent
OneOrderWhileOpen == C!OneOrderWhileOpen
\* Tracking:
StopLasts == T!StopLasts
FollowsSignedIn == T!FollowsSignedIn
WatchersKnown == T!WatchersKnown
\* OrderDesk:
StatusAddsUp == D!StatusAddsUp
CancelledStays == D!CancelledStays
OwnEditLosesNothing == D!OwnEditLosesNothing
\* VoucherForm:
SavedOnItsOwn == V!SavedOnItsOwn
=============================================================================
