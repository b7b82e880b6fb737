--------------------------- MODULE CheckoutProofs ---------------------------
(***************************************************************************)
(* What the checkout (module Checkout, as MCScreens instantiates it)       *)
(* guarantees for any coupons, gateways, openings of the dialog, quotes on *)
(* their way and orders.  The invariant has two parts: which question the  *)
(* answer that still counts belongs to (QuotePart), and in whose session   *)
(* the orders of the opening on the screen were made (SalePart).           *)
(***************************************************************************)
EXTENDS MCScreens, SequenceTheorems, TLAPS

Purchases == [coupon : Coupons \cup {None}, gateway : {"razorpay", "cashfree"}]
Keys == (Nat \ {0}) \X Purchases
OrderRecords == [status : {"pending", "paid"}, charged : BOOLEAN, opening : 0..MaxOpenings]
Flows == [stage : {"profile", "order", "window", "confirm", "inquiry"}, what : Purchases,
          opening : 0..MaxOpenings, key : Keys \cup {None}, here : BOOLEAN]
Dialogs(placed) ==
  [open : BOOLEAN, mode : {"online", "sales"}, quote : C!Priced \cup {None},
   coupon : Coupons \cup {None}, gateway : {"razorpay", "cashfree"},
   loading : BOOLEAN, fulfilled : DOMAIN placed \cup {None}, session : Nat,
   made : Nat, quoteLoading : BOOLEAN, opening : 0..MaxOpenings]
QuoteRecords == [asked : Seq(C!Priced), live : BOOLEAN]

\* The dialog is open only where it is mounted.
OpenIsMounted == dialog.open => C!Mounted

\* The answer that still counts is the last one asked for, about what the screen has.
LastCounts ==
  quotes.live => /\ dialog.open /\ quotes.asked # <<>>
                 /\ quotes.asked[Len(quotes.asked)] = C!QuoteInputs(dialog)

\* What QuoteIsCurrent says, mounted or not.
QuoteNow ==
  dialog.open /\ ~dialog.quoteLoading /\ dialog.quote # None
      => dialog.quote = C!QuoteInputs(dialog)

QuotePart == quotes \in QuoteRecords /\ Len(quotes.asked) <= MaxAsked /\ LastCounts /\ QuoteNow

\* The flow has made its key.
Keyed == flow # None /\ flow.stage \in {"order", "window", "confirm"}

SaleTypes ==
  /\ DOMAIN orders \subseteq Keys /\ orders \in [DOMAIN orders -> OrderRecords]
  /\ flow \in Flows \cup {None}
  /\ Keyed => flow.key \in Keys /\ flow.key[2] = flow.what
  /\ flow # None /\ flow.stage \in {"window", "confirm"} => flow.key \in DOMAIN orders

\* Nothing belongs to an opening still to come.
NoneAhead ==
  /\ \A k \in DOMAIN orders : orders[k].opening <= dialog.opening
  /\ flow # None => flow.opening <= dialog.opening

\* What was bought or is being bought in the opening on the screen is bought in its session,
\* which does not change while the dialog is open.
OneSession ==
  dialog.open =>
    /\ \A k \in DOMAIN orders : orders[k].opening = dialog.opening => k[1] = dialog.session
    /\ flow # None /\ flow.opening = dialog.opening
          => flow.here /\ (Keyed => flow.key[1] = dialog.session)

SalePart == SaleTypes /\ NoneAhead /\ OneSession

CheckoutIInv ==
  /\ dialog \in Dialogs(orders)
  /\ panel \in {"shown", "refreshing", "failed", "failedOpen"}
  /\ OpenIsMounted /\ QuotePart /\ SalePart

-----------------------------------------------------------------------------
(* Facts *)

\* What is left of a sequence when the element at i is taken out: one element less, and the
\* same last one unless that was it.
LEMMA RemoveAtFacts ==
  ASSUME NEW S, NEW s \in Seq(S), NEW i \in DOMAIN s
  PROVE  /\ C!RemoveAt(s, i) \in Seq(S)
         /\ Len(C!RemoveAt(s, i)) = Len(s) - 1
         /\ i # Len(s) => /\ C!RemoveAt(s, i) # <<>>
                          /\ C!RemoveAt(s, i)[Len(C!RemoveAt(s, i))] = s[Len(s)]
<1>1. i \in 1..Len(s) /\ Len(s) \in Nat
  OBVIOUS
<1> DEFINE left == SubSeq(s, 1, i - 1)
           right == SubSeq(s, i + 1, Len(s))
<1>2. left \in Seq(S) /\ Len(left) = i - 1
  BY <1>1, SubSeqProperties
<1>3. right \in Seq(S) /\ Len(right) = Len(s) - i
  BY <1>1, SubSeqProperties
<1>4. i # Len(s) => Len(s) - i \in 1..Len(s) - (i + 1) + 1 /\ right[Len(s) - i] = s[Len(s)]
  <2>1. \A n \in 1..Len(s) - (i + 1) + 1 : right[n] = s[i + 1 + n - 1]
    BY <1>1, SubSeqProperties
  <2>2. \A n \in Nat : i \in 1..n /\ i # n => n - i \in 1..n - (i + 1) + 1 /\ i + 1 + (n - i) - 1 = n
    BY <1>1
  <2> HIDE DEF right
  <2>3. QED BY <1>1, <2>1, <2>2
<1>5. C!RemoveAt(s, i) = left \o right
  BY DEF C!RemoveAt
<1> HIDE DEF left, right
<1>6. /\ left \o right \in Seq(S) /\ Len(left \o right) = Len(s) - 1
      /\ i # Len(s) => (left \o right)[Len(s) - 1] = right[Len(s) - i]
  BY <1>1, <1>2, <1>3, ConcatProperties
<1>7. i # Len(s) => Len(s) - 1 > 0
  BY <1>1
<1>8. QED
  BY <1>1, <1>4, <1>5, <1>6, <1>7

\* The invariant says more than the page's type invariant and QuoteIsCurrent.
LEMMA CheckoutIInvImplies ==
  ASSUME CheckoutIInv
  PROVE  C!CheckoutTypeOK /\ QuoteIsCurrent
<1>1. C!CheckoutTypeOK
  BY DEF CheckoutIInv, C!CheckoutTypeOK, Dialogs, QuotePart, QuoteRecords, SalePart, SaleTypes, Flows
<1>2. QuoteIsCurrent
  BY DEF CheckoutIInv, QuotePart, QuoteNow, QuoteIsCurrent, C!QuoteIsCurrent
<1>3. QED BY <1>1, <1>2

\* The quote is judged by four fields of the dialog.
LEMMA QuoteKept ==
  ASSUME QuotePart, UNCHANGED quotes,
         dialog'.open = dialog.open, dialog'.coupon = dialog.coupon,
         dialog'.quote = dialog.quote, dialog'.quoteLoading = dialog.quoteLoading
  PROVE  QuotePart'
  BY DEF QuotePart, LastCounts, QuoteNow, C!QuoteInputs

\* The sales are judged by three.
LEMMA SaleKept ==
  ASSUME SalePart, UNCHANGED <<flow, orders>>,
         dialog'.open = dialog.open, dialog'.session = dialog.session,
         dialog'.opening = dialog.opening
  PROVE  SalePart'
  BY DEF SalePart, SaleTypes, Keyed, NoneAhead, OneSession

\* A dialog that is closed sells nothing, and nothing has been sold in a new opening.
LEMMA SaleOfNoOpening ==
  ASSUME CheckoutIInv, UNCHANGED <<flow, orders>>, dialog' \in Dialogs(orders),
         \/ ~dialog'.open /\ dialog'.opening = dialog.opening
         \/ dialog'.opening = dialog.opening + 1
  PROVE  SalePart'
<1>1. SaleTypes'
  BY DEF CheckoutIInv, SalePart, SaleTypes, Keyed
<1>2. dialog.opening \in Nat /\ dialog'.opening \in Nat /\ dialog.opening <= dialog'.opening
  BY DEF CheckoutIInv, Dialogs
<1>3. \A k \in DOMAIN orders : orders[k].opening \in Nat /\ orders[k].opening <= dialog.opening
  BY DEF CheckoutIInv, SalePart, SaleTypes, NoneAhead, OrderRecords
<1>4. flow # None => flow.opening \in Nat /\ flow.opening <= dialog.opening
  BY DEF CheckoutIInv, SalePart, SaleTypes, NoneAhead, Flows
<1>5. NoneAhead'
  BY <1>2, <1>3, <1>4 DEF NoneAhead
<1>6. OneSession'
  BY <1>2, <1>3, <1>4 DEF OneSession
<1>7. QED BY <1>1, <1>5, <1>6 DEF SalePart

\* What Becomes makes of the dialog and the quotes, for a dialog that changes no quote of its
\* own while it stays open.
LEMMA BecomesFacts ==
  ASSUME CheckoutIInv, NEW d \in Dialogs(orders), C!Becomes(d),
         dialog.open /\ d.open => d.quote = dialog.quote /\ d.quoteLoading = dialog.quoteLoading
  PROVE  /\ dialog' \in Dialogs(orders)
         /\ dialog'.open = d.open /\ dialog'.session = d.session /\ dialog'.opening = d.opening
         /\ QuotePart'
<1> DEFINE asks == d.open /\ (~dialog.open \/ C!QuoteInputs(d) # C!QuoteInputs(dialog))
           e == [d EXCEPT !.quoteLoading = TRUE]
<1>1. quotes \in QuoteRecords /\ quotes.asked \in Seq(C!Priced) /\ Len(quotes.asked) \in Nat
  BY DEF CheckoutIInv, QuotePart, QuoteRecords
<1>2. /\ e \in Dialogs(orders) /\ e.open = d.open /\ e.session = d.session
      /\ e.opening = d.opening /\ e.coupon = d.coupon /\ e.quoteLoading
  BY DEF Dialogs
<1>3. CASE asks
  <2> DEFINE q == C!QuoteInputs(d)
  <2>1. q \in C!Priced /\ q = C!QuoteInputs(e)
    BY <1>2 DEF C!QuoteInputs, C!Priced, Dialogs
  <2>2. /\ dialog' = e /\ Len(quotes.asked) < MaxAsked
        /\ quotes' = [asked |-> Append(quotes.asked, q), live |-> TRUE]
    BY <1>3 DEF C!Becomes
  <2> HIDE DEF q, e
  <2>3. /\ Append(quotes.asked, q) \in Seq(C!Priced)
        /\ Len(Append(quotes.asked, q)) = Len(quotes.asked) + 1
        /\ Append(quotes.asked, q)[Len(quotes.asked) + 1] = q
        /\ Append(quotes.asked, q) # <<>>
    BY <1>1, <2>1
  <2>4. quotes' \in QuoteRecords /\ Len(quotes'.asked) <= MaxAsked
    BY <1>1, <2>2, <2>3, CheckoutAssumption DEF QuoteRecords
  <2>5. LastCounts'
    BY <1>2, <1>3, <2>1, <2>2, <2>3 DEF LastCounts
  <2>6. QuoteNow'
    BY <1>2, <2>2 DEF QuoteNow
  <2>7. QED BY <1>2, <2>2, <2>4, <2>5, <2>6 DEF QuotePart
<1>4. CASE ~asks
  <2>1. dialog' = d /\ quotes' = [quotes EXCEPT !.live = @ /\ d.open]
    BY <1>4 DEF C!Becomes
  <2>2. d.open => dialog.open /\ C!QuoteInputs(d) = C!QuoteInputs(dialog)
    BY <1>4
  <2>3. quotes' \in QuoteRecords /\ quotes'.asked = quotes.asked /\ quotes'.live = (quotes.live /\ d.open)
    BY <1>1, <2>1 DEF QuoteRecords, Dialogs
  <2>4. LastCounts'
    BY <2>1, <2>2, <2>3 DEF CheckoutIInv, QuotePart, LastCounts
  <2>5. QuoteNow'
    BY <2>1, <2>2 DEF CheckoutIInv, QuotePart, QuoteNow
  <2>6. QED BY <2>1, <2>3, <2>4, <2>5 DEF CheckoutIInv, QuotePart
<1>5. QED BY <1>3, <1>4

\* An order that is charged or paid is the same order.
LEMMA MarkedFacts ==
  ASSUME SaleTypes, NEW k \in DOMAIN orders,
         \/ orders' = [orders EXCEPT ![k].status = "paid"]
         \/ orders' = [orders EXCEPT ![k].charged = TRUE]
         \/ orders' = orders
  PROVE  /\ DOMAIN orders' = DOMAIN orders /\ orders' \in [DOMAIN orders' -> OrderRecords]
         /\ \A j \in DOMAIN orders : orders'[j].opening = orders[j].opening
         /\ Dialogs(orders') = Dialogs(orders)
<1>1. orders \in [DOMAIN orders -> OrderRecords]
  BY DEF SaleTypes
<1>2. [orders[k] EXCEPT !.status = "paid"] \in OrderRecords /\ [orders[k] EXCEPT !.charged = TRUE] \in OrderRecords
  BY <1>1 DEF OrderRecords
<1>3. DOMAIN orders' = DOMAIN orders /\ orders' \in [DOMAIN orders' -> OrderRecords]
  BY <1>1, <1>2
<1>4. \A j \in DOMAIN orders : orders'[j].opening = orders[j].opening
  BY <1>1 DEF OrderRecords
<1>5. QED BY <1>3, <1>4 DEF Dialogs

\* The flow takes its next stage, or ends, and the orders stay what they are.
LEMMA FlowMoves ==
  ASSUME SalePart,
         dialog'.open = dialog.open, dialog'.session = dialog.session,
         dialog'.opening = dialog.opening,
         DOMAIN orders' = DOMAIN orders, orders' \in [DOMAIN orders' -> OrderRecords],
         \A j \in DOMAIN orders : orders'[j].opening = orders[j].opening,
         flow' # None
            => Keyed /\ \E stage \in {"order", "window", "confirm"} :
                           flow' = [flow EXCEPT !.stage = stage] /\ flow.key \in DOMAIN orders
  PROVE  SalePart'
<1>1. CASE flow' = None
  BY <1>1 DEF SalePart, SaleTypes, Keyed, NoneAhead, OneSession
<1>2. CASE flow' # None
  <2>1. PICK stage \in {"order", "window", "confirm"} : flow' = [flow EXCEPT !.stage = stage]
    BY <1>2
  <2>2. flow \in Flows /\ Keyed /\ flow.key \in DOMAIN orders
    BY <1>2 DEF SalePart, SaleTypes, Keyed
  <2>3. /\ flow' \in Flows /\ flow'.key = flow.key /\ flow'.what = flow.what
        /\ flow'.opening = flow.opening /\ flow'.here = flow.here
    BY <2>1, <2>2 DEF Flows
  <2>4. SaleTypes'
    BY <2>2, <2>3 DEF SalePart, SaleTypes, Keyed
  <2>5. NoneAhead'
    BY <2>2, <2>3 DEF SalePart, NoneAhead, Keyed
  <2>6. OneSession'
    BY <2>2, <2>3 DEF SalePart, OneSession, Keyed
  <2>7. QED BY <2>4, <2>5, <2>6 DEF SalePart
<1>3. QED BY <1>1, <1>2

\* What is bought is a purchase, and the flow knows the opening it was bought in.
LEMMA BegunFacts ==
  ASSUME CheckoutIInv, NEW stage \in {"profile", "inquiry"},
         flow' = C!Begun(stage), UNCHANGED orders,
         dialog'.open = dialog.open, dialog'.session = dialog.session,
         dialog'.opening = dialog.opening
  PROVE  SalePart'
<1>1. C!PurchaseOf(dialog) \in Purchases
  BY DEF CheckoutIInv, Dialogs, C!PurchaseOf, Purchases
<1>2. dialog.opening \in 0..MaxOpenings
  BY DEF CheckoutIInv, Dialogs
<1>3. /\ flow' \in Flows /\ flow'.stage = stage
      /\ flow'.opening = dialog.opening /\ flow'.here
  BY <1>1, <1>2 DEF C!Begun, Flows
<1>4. ~Keyed'
  BY <1>3 DEF Keyed
<1>5. SaleTypes'
  BY <1>3, <1>4 DEF CheckoutIInv, SalePart, SaleTypes
<1>6. NoneAhead'
  BY <1>2, <1>3 DEF CheckoutIInv, SalePart, NoneAhead
<1>7. OneSession'
  BY <1>3, <1>4 DEF CheckoutIInv, SalePart, OneSession
<1>8. QED BY <1>5, <1>6, <1>7 DEF SalePart

-----------------------------------------------------------------------------
(* Every step keeps the invariant *)

\* Nothing has been opened, asked for or bought.
LEMMA CheckoutInitEstablishes == C!CheckoutInit => CheckoutIInv
<1> SUFFICES ASSUME C!CheckoutInit PROVE CheckoutIInv
  OBVIOUS
<1>1. DOMAIN orders = {} /\ orders \in [DOMAIN orders -> OrderRecords]
  BY DEF C!CheckoutInit
<1>2. dialog \in Dialogs(orders) /\ ~dialog.open
  BY CheckoutAssumption DEF C!CheckoutInit, C!Fresh, Dialogs
<1>3. quotes \in QuoteRecords /\ quotes.asked = <<>> /\ ~quotes.live
  BY DEF C!CheckoutInit, QuoteRecords
<1>4. QuotePart
  BY <1>2, <1>3, CheckoutAssumption DEF QuotePart, LastCounts, QuoteNow
<1>5. flow = None /\ panel = "shown"
  BY DEF C!CheckoutInit
<1>6. SalePart
  BY <1>1, <1>2, <1>5 DEF SalePart, SaleTypes, Keyed, NoneAhead, OneSession
<1>7. QED BY <1>2, <1>4, <1>5, <1>6 DEF CheckoutIInv, OpenIsMounted

\* A quote arrives: the one that counts is for what the screen has.
LEMMA QuoteArrivesPreserves ==
  ASSUME CheckoutIInv, NEW i \in DOMAIN quotes.asked, C!QuoteArrives(i)
  PROVE  CheckoutIInv'
<1>1. quotes \in QuoteRecords /\ quotes.asked \in Seq(C!Priced) /\ Len(quotes.asked) \in Nat
      /\ quotes.asked[i] \in C!Priced
  BY DEF CheckoutIInv, QuotePart, QuoteRecords
<1>2. /\ quotes'.asked = C!RemoveAt(quotes.asked, i)
      /\ quotes'.live = (quotes.live /\ i # Len(quotes.asked))
      /\ quotes' \in QuoteRecords /\ Len(quotes'.asked) <= MaxAsked
  BY <1>1, RemoveAtFacts, CheckoutAssumption DEF C!QuoteArrives, C!Taken, CheckoutIInv, QuotePart, QuoteRecords
<1>3. /\ dialog' \in Dialogs(orders) /\ dialog'.open = dialog.open /\ dialog'.session = dialog.session
      /\ dialog'.opening = dialog.opening /\ dialog'.coupon = dialog.coupon
      /\ C!Counts(i) => dialog'.quote = quotes.asked[i]
      /\ ~C!Counts(i) => dialog' = dialog
  BY <1>1 DEF C!QuoteArrives, CheckoutIInv, Dialogs
<1>4. LastCounts'
  BY <1>1, <1>2, <1>3, RemoveAtFacts, ZenonT(40) DEF CheckoutIInv, QuotePart, LastCounts, C!QuoteInputs
<1>5. QuoteNow'
  <2>1. CASE C!Counts(i)
    BY <1>3, <2>1 DEF C!Counts, CheckoutIInv, QuotePart, LastCounts, QuoteNow, C!QuoteInputs
  <2>2. CASE ~C!Counts(i)
    BY <1>3, <2>2 DEF CheckoutIInv, QuotePart, QuoteNow
  <2>3. QED BY <2>1, <2>2
<1>6. SalePart'
  BY <1>3, SaleKept DEF C!QuoteArrives, CheckoutIInv
<1>7. QED
  BY <1>2, <1>3, <1>4, <1>5, <1>6 DEF C!QuoteArrives, CheckoutIInv, OpenIsMounted, C!Mounted, QuotePart

\* A quote fails: the coupon goes and the next question is the one that counts, or there is
\* no quote.
LEMMA QuoteFailsPreserves ==
  ASSUME CheckoutIInv, NEW i \in DOMAIN quotes.asked, C!QuoteFails(i)
  PROVE  CheckoutIInv'
<1>1. quotes \in QuoteRecords /\ quotes.asked \in Seq(C!Priced) /\ Len(quotes.asked) \in Nat
      /\ Len(quotes.asked) <= MaxAsked
  BY DEF CheckoutIInv, QuotePart, QuoteRecords
<1> DEFINE kept == C!RemoveAt(quotes.asked, i)
           next == [C!QuoteInputs(dialog) EXCEPT !.coupon = None]
<1>2. /\ kept \in Seq(C!Priced) /\ Len(kept) = Len(quotes.asked) - 1
      /\ i # Len(quotes.asked) => kept # <<>> /\ kept[Len(kept)] = quotes.asked[Len(quotes.asked)]
  BY <1>1, RemoveAtFacts
<1>3. next \in C!Priced /\ next.coupon = None
  BY DEF C!QuoteInputs, C!Priced
<1>4. /\ dialog' \in Dialogs(orders) /\ dialog'.open = dialog.open /\ dialog'.session = dialog.session
      /\ dialog'.opening = dialog.opening
  BY ZenonT(40) DEF C!QuoteFails, CheckoutIInv, Dialogs
<1>5. QuotePart'
  <2>1. CASE C!Counts(i) /\ dialog.coupon # None
    <3>1. dialog'.coupon = None /\ dialog'.quoteLoading /\ dialog.open
      BY <2>1 DEF C!QuoteFails, C!Counts, CheckoutIInv, Dialogs, QuotePart, LastCounts
    <3>2. quotes' = [asked |-> Append(kept, next), live |-> TRUE]
      BY <2>1 DEF C!QuoteFails
    <3>3. next = C!QuoteInputs(dialog')
      BY <3>1 DEF C!QuoteInputs
    <3> HIDE DEF kept, next
    <3>4. /\ Append(kept, next) \in Seq(C!Priced) /\ Len(Append(kept, next)) = Len(kept) + 1
          /\ Append(kept, next)[Len(kept) + 1] = next /\ Append(kept, next) # <<>>
      BY <1>2, <1>3
    <3>5. quotes' \in QuoteRecords /\ Len(quotes'.asked) <= MaxAsked
      BY <1>1, <1>2, <3>2, <3>4 DEF QuoteRecords
    <3>6. LastCounts' /\ QuoteNow'
      BY <1>4, <3>1, <3>2, <3>3, <3>4 DEF LastCounts, QuoteNow, C!QuoteInputs
    <3>7. QED BY <3>5, <3>6 DEF QuotePart
  <2>2. CASE ~(C!Counts(i) /\ dialog.coupon # None)
    <3>1. quotes' = C!Taken(i) /\ dialog'.coupon = dialog.coupon
      BY <2>2 DEF C!QuoteFails, CheckoutIInv, Dialogs
    <3>2. /\ quotes'.asked = kept /\ quotes'.live = (quotes.live /\ i # Len(quotes.asked))
          /\ quotes' \in QuoteRecords /\ Len(quotes'.asked) <= MaxAsked
      BY <1>1, <1>2, <3>1, CheckoutAssumption DEF C!Taken, QuoteRecords
    <3>3. LastCounts'
      <4> HIDE DEF kept
      <4>1. QED
        BY <1>2, <1>4, <3>1, <3>2 DEF CheckoutIInv, QuotePart, LastCounts, C!QuoteInputs
    <3>4. dialog' = dialog \/ dialog'.quote = None
      BY <2>2 DEF C!QuoteFails, CheckoutIInv, Dialogs
    <3>5. QuoteNow'
      BY <3>4 DEF CheckoutIInv, QuotePart, QuoteNow
    <3>6. QED BY <3>2, <3>3, <3>5 DEF QuotePart
  <2>3. QED BY <2>1, <2>2
<1>6. SalePart'
  BY <1>4, SaleKept DEF C!QuoteFails, CheckoutIInv
<1>7. QED
  BY <1>4, <1>5, <1>6 DEF C!QuoteFails, CheckoutIInv, OpenIsMounted, C!Mounted

\* "Try again": the question that counts is about what the screen has.
LEMMA TryAgainPreserves ==
  ASSUME CheckoutIInv, C!TryAgain PROVE CheckoutIInv'
<1>1. quotes \in QuoteRecords /\ quotes.asked \in Seq(C!Priced) /\ Len(quotes.asked) \in Nat
  BY DEF CheckoutIInv, QuotePart, QuoteRecords
<1> DEFINE q == C!QuoteInputs(dialog)
<1>2. q \in C!Priced
  BY DEF CheckoutIInv, Dialogs, C!QuoteInputs, C!Priced
<1>3. /\ dialog.open /\ Len(quotes.asked) < MaxAsked
      /\ quotes' = [asked |-> Append(quotes.asked, q), live |-> TRUE]
      /\ dialog' = [dialog EXCEPT !.quoteLoading = TRUE] /\ UNCHANGED <<panel, flow, orders>>
  BY DEF C!TryAgain
<1>4. /\ dialog' \in Dialogs(orders) /\ dialog'.open = dialog.open /\ dialog'.session = dialog.session
      /\ dialog'.opening = dialog.opening /\ dialog'.quoteLoading /\ q = C!QuoteInputs(dialog')
  BY <1>3 DEF CheckoutIInv, Dialogs, C!QuoteInputs
<1>5. QuotePart'
  <2> HIDE DEF q
  <2>1. /\ Append(quotes.asked, q) \in Seq(C!Priced)
        /\ Len(Append(quotes.asked, q)) = Len(quotes.asked) + 1
        /\ Append(quotes.asked, q)[Len(quotes.asked) + 1] = q
        /\ Append(quotes.asked, q) # <<>>
    BY <1>1, <1>2
  <2>2. quotes' \in QuoteRecords /\ Len(quotes'.asked) <= MaxAsked
    BY <1>1, <1>3, <2>1, CheckoutAssumption DEF QuoteRecords
  <2>3. LastCounts' /\ QuoteNow'
    BY <1>3, <1>4, <2>1 DEF LastCounts, QuoteNow
  <2>4. QED BY <2>2, <2>3 DEF QuotePart
<1>6. SalePart'
  BY <1>3, <1>4, SaleKept DEF CheckoutIInv
<1>7. QED
  BY <1>3, <1>4, <1>5, <1>6 DEF CheckoutIInv, OpenIsMounted, C!Mounted

\* The dialog opens: a new opening, in which nothing has been bought.
LEMMA OpenedPreserves ==
  ASSUME CheckoutIInv, dialog.opening < MaxOpenings, ~dialog.open,
         C!Becomes(C!Opened(dialog)), C!Mounted', panel' \in {"shown", "refreshing"},
         UNCHANGED <<flow, orders>>
  PROVE  CheckoutIInv'
<1>1. /\ C!Opened(dialog) \in Dialogs(orders)
      /\ C!Opened(dialog).opening = dialog.opening + 1
  <2>1. dialog \in Dialogs(orders) /\ dialog.opening \in 0..MaxOpenings
    BY DEF CheckoutIInv, Dialogs
  <2>2. dialog.opening + 1 \in 0..MaxOpenings
    BY <2>1, CheckoutAssumption
  <2>3. QED BY <2>1, <2>2 DEF C!Opened, Dialogs
<1>2. dialog' \in Dialogs(orders) /\ dialog'.opening = dialog.opening + 1 /\ QuotePart'
  BY <1>1, BecomesFacts
<1>3. SalePart'
  BY <1>2, SaleOfNoOpening
<1>4. QED BY <1>2, <1>3 DEF CheckoutIInv, OpenIsMounted

\* The dialog closes: what it shows and sells is nobody's business any more.
LEMMA ShutPreserves ==
  ASSUME CheckoutIInv, NEW d \in Dialogs(orders), d.opening = dialog.opening,
         C!Becomes(C!Shut(d)), UNCHANGED <<panel, flow, orders>>
  PROVE  CheckoutIInv'
<1>1. /\ C!Shut(d) \in Dialogs(orders) /\ ~C!Shut(d).open
      /\ C!Shut(d).opening = dialog.opening
  BY DEF C!Shut, Dialogs
<1>2. dialog' \in Dialogs(orders) /\ ~dialog'.open /\ dialog'.opening = dialog.opening /\ QuotePart'
  BY <1>1, BecomesFacts
<1>3. SalePart'
  BY <1>2, SaleOfNoOpening
<1>4. QED BY <1>2, <1>3 DEF CheckoutIInv, OpenIsMounted

\* A field changes: the coupon asks for a quote again, the others do not.
LEMMA FieldPreserves ==
  ASSUME CheckoutIInv, NEW d \in Dialogs(orders), C!Becomes(d),
         d.open = dialog.open, d.session = dialog.session, d.opening = dialog.opening,
         d.quote = dialog.quote, d.quoteLoading = dialog.quoteLoading,
         UNCHANGED <<panel, flow, orders>>
  PROVE  CheckoutIInv'
<1>1. /\ dialog' \in Dialogs(orders) /\ dialog'.open = dialog.open /\ dialog'.session = dialog.session
      /\ dialog'.opening = dialog.opening /\ QuotePart'
  BY BecomesFacts
<1>2. SalePart'
  BY <1>1, SaleKept DEF CheckoutIInv
<1>3. QED BY <1>1, <1>2 DEF CheckoutIInv, OpenIsMounted, C!Mounted

\* A step that changes neither what the quote nor what the sales are judged by.
LEMMA QuietPreserves ==
  ASSUME CheckoutIInv, dialog' \in Dialogs(orders'),
         dialog'.open = dialog.open, dialog'.coupon = dialog.coupon, dialog'.quote = dialog.quote,
         dialog'.quoteLoading = dialog.quoteLoading, UNCHANGED quotes, SalePart',
         panel' \in {"shown", "refreshing", "failed", "failedOpen"}, C!Mounted => C!Mounted'
  PROVE  CheckoutIInv'
<1>1. QuotePart'
  BY QuoteKept DEF CheckoutIInv
<1>2. QED BY <1>1 DEF CheckoutIInv, OpenIsMounted

\* Opening, closing and the fields.
LEMMA EntryPreserves ==
  ASSUME CheckoutIInv,
         \/ C!Open \/ C!Close \/ C!RemoveCoupon
         \/ \E mode \in {"online", "sales"} : C!PickMode(mode)
         \/ \E g \in Gateways, enabled \in BOOLEAN : C!Loaded(g, enabled)
         \/ \E g \in Gateways : C!PickGateway(g)
         \/ \E c \in Coupons : C!ApplyCoupon(c)
  PROVE  CheckoutIInv'
<1>1. dialog \in Dialogs(orders) /\ panel \in {"shown", "refreshing", "failed", "failedOpen"} /\ SalePart
  BY DEF CheckoutIInv
<1>2. CASE C!Open
  BY <1>1, <1>2, OpenedPreserves DEF C!Open, C!Mounted
<1>3. CASE C!Close
  BY <1>1, <1>3, ShutPreserves DEF C!Close
<1>4. CASE C!RemoveCoupon
  <2> DEFINE d == [dialog EXCEPT !.coupon = None]
  <2>1. d \in Dialogs(orders) /\ d.open = dialog.open /\ d.session = dialog.session
        /\ d.opening = dialog.opening /\ d.quote = dialog.quote /\ d.quoteLoading = dialog.quoteLoading
    BY <1>1 DEF Dialogs
  <2>2. C!Becomes(d) /\ UNCHANGED <<panel, flow, orders>>
    BY <1>4 DEF C!RemoveCoupon
  <2> HIDE DEF d
  <2>3. QED BY <2>1, <2>2, FieldPreserves
<1>5. ASSUME NEW mode \in {"online", "sales"}, C!PickMode(mode) PROVE CheckoutIInv'
  <2>1. /\ dialog' \in Dialogs(orders') /\ dialog'.open = dialog.open /\ dialog'.coupon = dialog.coupon
        /\ dialog'.quote = dialog.quote /\ dialog'.quoteLoading = dialog.quoteLoading
        /\ dialog'.session = dialog.session /\ dialog'.opening = dialog.opening
        /\ UNCHANGED <<panel, quotes, flow, orders>>
    BY <1>1, <1>5 DEF C!PickMode, Dialogs
  <2>2. SalePart'
    BY <1>1, <2>1, SaleKept
  <2>3. QED BY <1>1, <2>1, <2>2, QuietPreserves DEF C!Mounted
<1>6. ASSUME NEW g \in Gateways, NEW leave \in BOOLEAN, C!Loaded(g, leave) PROVE CheckoutIInv'
  <2> DEFINE d == [dialog EXCEPT !.gateway = g,
                                 !.mode = IF leave THEN "sales" ELSE @]
  <2>1. d \in Dialogs(orders) /\ d.open = dialog.open /\ d.session = dialog.session
        /\ d.opening = dialog.opening /\ d.quote = dialog.quote /\ d.quoteLoading = dialog.quoteLoading
    BY <1>1, CheckoutAssumption DEF Dialogs
  <2>2. C!Becomes(d) /\ UNCHANGED <<panel, flow, orders>>
    BY <1>6 DEF C!Loaded
  <2> HIDE DEF d
  <2>3. QED BY <2>1, <2>2, FieldPreserves
<1>7. ASSUME NEW g \in Gateways, C!PickGateway(g) PROVE CheckoutIInv'
  <2>1. /\ dialog' \in Dialogs(orders') /\ dialog'.open = dialog.open /\ dialog'.coupon = dialog.coupon
        /\ dialog'.quote = dialog.quote /\ dialog'.quoteLoading = dialog.quoteLoading
        /\ dialog'.session = dialog.session /\ dialog'.opening = dialog.opening
        /\ UNCHANGED <<panel, quotes, flow, orders>>
    BY <1>1, <1>7, CheckoutAssumption DEF C!PickGateway, Dialogs
  <2>2. SalePart'
    BY <1>1, <2>1, SaleKept
  <2>3. QED BY <1>1, <2>1, <2>2, QuietPreserves DEF C!Mounted
<1>8. ASSUME NEW c \in Coupons, C!ApplyCoupon(c) PROVE CheckoutIInv'
  <2> DEFINE d == [dialog EXCEPT !.coupon = c]
  <2>1. d \in Dialogs(orders) /\ d.open = dialog.open /\ d.session = dialog.session
        /\ d.opening = dialog.opening /\ d.quote = dialog.quote /\ d.quoteLoading = dialog.quoteLoading
    BY <1>1 DEF Dialogs
  <2>2. C!Becomes(d) /\ UNCHANGED <<panel, flow, orders>>
    BY <1>8 DEF C!ApplyCoupon
  <2> HIDE DEF d
  <2>3. QED BY <2>1, <2>2, FieldPreserves
<1>9. QED BY <1>2, <1>3, <1>4, <1>5, <1>6, <1>7, <1>8

\* A payment or an inquiry begins.
LEMMA BeginPreserves ==
  ASSUME CheckoutIInv, C!Pay \/ C!Inquire PROVE CheckoutIInv'
<1>1. /\ dialog' = [dialog EXCEPT !.loading = TRUE] /\ UNCHANGED <<panel, quotes, orders>>
      /\ flow' = C!Begun("profile") \/ flow' = C!Begun("inquiry")
  BY DEF C!Pay, C!Inquire
<1>2. /\ dialog' \in Dialogs(orders') /\ dialog'.open = dialog.open /\ dialog'.coupon = dialog.coupon
      /\ dialog'.quote = dialog.quote /\ dialog'.quoteLoading = dialog.quoteLoading
      /\ dialog'.session = dialog.session /\ dialog'.opening = dialog.opening
  BY <1>1 DEF CheckoutIInv, Dialogs
<1>3. SalePart'
  BY <1>1, <1>2, BegunFacts
<1>4. QED BY <1>1, <1>2, <1>3, QuietPreserves DEF CheckoutIInv, C!Mounted

\* The flow makes its key, in the session of the dialog it was begun in.
LEMMA ProfileSavedPreserves ==
  ASSUME CheckoutIInv, C!ProfileSaved PROVE CheckoutIInv'
<1> DEFINE s == C!SessionOf(dialog)
<1>1. /\ dialog \in Dialogs(orders) /\ dialog.session \in Nat /\ dialog.made \in Nat
      /\ flow \in Flows /\ flow # None /\ flow.stage = "profile" /\ flow.what \in Purchases
  BY DEF CheckoutIInv, Dialogs, SalePart, SaleTypes, Flows, C!ProfileSaved, C!At
<1>2. s \in Nat \ {0} /\ (dialog.session # 0 => s = dialog.session)
  BY <1>1 DEF C!SessionOf
<1>3. /\ dialog' = [dialog EXCEPT !.made = IF s > @ THEN s ELSE @,
                                  !.session = IF flow.here THEN s ELSE @]
      /\ flow' = [flow EXCEPT !.stage = "order", !.key = <<s, flow.what>>]
      /\ UNCHANGED <<panel, quotes, orders>>
  BY DEF C!ProfileSaved
<1> HIDE DEF s
<1>4. <<s, flow.what>> \in Keys
  BY <1>1, <1>2 DEF Keys
<1>5. /\ flow' \in Flows /\ flow'.stage = "order" /\ flow'.key = <<s, flow.what>>
      /\ flow'.what = flow.what /\ flow'.opening = flow.opening /\ flow'.here = flow.here
  BY <1>1, <1>3, <1>4 DEF Flows
<1>6. /\ dialog' \in Dialogs(orders') /\ dialog'.open = dialog.open /\ dialog'.coupon = dialog.coupon
      /\ dialog'.quote = dialog.quote /\ dialog'.quoteLoading = dialog.quoteLoading
      /\ dialog'.opening = dialog.opening
      /\ dialog'.session = IF flow.here THEN s ELSE dialog.session
  BY <1>1, <1>2, <1>3 DEF Dialogs
<1>7. SaleTypes'
  BY <1>3, <1>4, <1>5 DEF CheckoutIInv, SalePart, SaleTypes, Keyed
<1>8. NoneAhead'
  BY <1>1, <1>3, <1>5, <1>6 DEF CheckoutIInv, SalePart, NoneAhead
<1>9. OneSession'
  <2> SUFFICES ASSUME dialog.open
               PROVE  /\ \A k \in DOMAIN orders :
                            orders[k].opening = dialog.opening => k[1] = dialog'.session
                      /\ flow.opening = dialog.opening => flow.here /\ s = dialog'.session
    BY <1>3, <1>4, <1>5, <1>6 DEF OneSession
  <2>1. /\ \A k \in DOMAIN orders : orders[k].opening = dialog.opening => k[1] = dialog.session
        /\ flow.opening = dialog.opening => flow.here
    BY <1>1 DEF CheckoutIInv, SalePart, OneSession
  <2>2. \A k \in DOMAIN orders : k[1] # 0
    BY DEF CheckoutIInv, SalePart, SaleTypes, Keys
  <2>3. \A k \in DOMAIN orders : orders[k].opening = dialog.opening => dialog.session # 0
    BY <2>1, <2>2
  <2>4. QED BY <1>2, <1>6, <2>1, <2>3
<1>10. SalePart'
  BY <1>7, <1>8, <1>9 DEF SalePart
<1>11. QED BY <1>3, <1>6, <1>10, QuietPreserves DEF CheckoutIInv, C!Mounted

\* The server makes the order, or finds the one the key has.
LEMMA OrderServedPreserves ==
  ASSUME CheckoutIInv, C!OrderServed PROVE CheckoutIInv'
<1> DEFINE k == flow.key
           new == [status |-> "pending", charged |-> FALSE, opening |-> flow.opening]
<1>1. /\ flow \in Flows /\ flow # None /\ flow.stage = "order" /\ Keyed /\ k \in Keys
      /\ k[2] = flow.what /\ flow.opening \in 0..MaxOpenings
      /\ orders \in [DOMAIN orders -> OrderRecords] /\ DOMAIN orders \subseteq Keys
  BY DEF CheckoutIInv, SalePart, SaleTypes, Keyed, Flows, C!OrderServed, C!At
<1>2. /\ orders' = IF k \in DOMAIN orders THEN orders
                   ELSE [j \in DOMAIN orders \cup {k} |-> IF j = k THEN new ELSE orders[j]]
      /\ \/ flow' = [flow EXCEPT !.stage = "window"] /\ dialog' = dialog
         \/ flow' = None /\ dialog' = (IF flow.here THEN C!Back(dialog) ELSE dialog)
      /\ UNCHANGED <<panel, quotes>>
  BY DEF C!OrderServed, C!Sets
<1>3. new \in OrderRecords /\ new.opening = flow.opening
  BY <1>1 DEF OrderRecords
<1> HIDE DEF k, new
<1>4. /\ DOMAIN orders' = DOMAIN orders \cup {k}
      /\ \A j \in DOMAIN orders : orders'[j] = orders[j]
      /\ k \notin DOMAIN orders => orders'[k] = new
  BY <1>2
<1>5. DOMAIN orders' \subseteq Keys /\ orders' \in [DOMAIN orders' -> OrderRecords]
  BY <1>1, <1>2, <1>3, <1>4
<1>6. /\ dialog' \in Dialogs(orders') /\ dialog'.open = dialog.open /\ dialog'.coupon = dialog.coupon
      /\ dialog'.quote = dialog.quote /\ dialog'.quoteLoading = dialog.quoteLoading
      /\ dialog'.session = dialog.session /\ dialog'.opening = dialog.opening
  <2>1. dialog \in Dialogs(orders')
    BY <1>4 DEF CheckoutIInv, Dialogs
  <2>2. QED BY <1>2, <2>1, ZenonT(40) DEF Dialogs, C!Back
<1>7. flow' # None => /\ flow' \in Flows /\ flow'.stage = "window" /\ flow'.key = k
                      /\ flow'.what = flow.what /\ flow'.opening = flow.opening
                      /\ flow'.here = flow.here
  BY <1>1, <1>2 DEF Flows, k
<1>8. SaleTypes'
  BY <1>1, <1>2, <1>4, <1>5, <1>7 DEF SaleTypes, Keyed
<1>9. NoneAhead'
  BY <1>1, <1>3, <1>4, <1>6, <1>7 DEF CheckoutIInv, SalePart, NoneAhead
<1>10. OneSession'
  BY <1>1, <1>3, <1>4, <1>6, <1>7 DEF CheckoutIInv, SalePart, OneSession, k
<1>11. SalePart'
  BY <1>8, <1>9, <1>10 DEF SalePart
<1>12. QED BY <1>2, <1>6, <1>11, QuietPreserves DEF CheckoutIInv, C!Mounted

\* The flow goes on, or ends: the money is taken, the confirm is answered, or nothing comes
\* of it.
LEMMA PayingPreserves ==
  ASSUME CheckoutIInv,
         \/ C!OrderRefused \/ C!WindowClosed \/ C!Charged \/ C!ConfirmPaid \/ C!ConfirmOther
         \/ C!ConfirmFails
  PROVE  CheckoutIInv'
<1>1. /\ dialog \in Dialogs(orders) /\ panel \in {"shown", "refreshing", "failed", "failedOpen"}
      /\ SaleTypes /\ SalePart /\ flow \in Flows /\ flow # None /\ Keyed
  BY DEF CheckoutIInv, SalePart, SaleTypes, Keyed, C!OrderRefused, C!WindowClosed, C!Charged,
         C!ConfirmPaid, C!ConfirmOther, C!ConfirmFails, C!At
<1>2. \/ orders' = orders
      \/ flow.key \in DOMAIN orders /\ orders' = [orders EXCEPT ![flow.key].status = "paid"]
      \/ flow.key \in DOMAIN orders /\ orders' = [orders EXCEPT ![flow.key].charged = TRUE]
  BY <1>1 DEF SaleTypes, C!OrderRefused, C!WindowClosed, C!Charged, C!ConfirmPaid,
              C!ConfirmOther, C!ConfirmFails, C!At
<1>3. /\ DOMAIN orders' = DOMAIN orders /\ orders' \in [DOMAIN orders' -> OrderRecords]
      /\ \A j \in DOMAIN orders : orders'[j].opening = orders[j].opening
      /\ Dialogs(orders') = Dialogs(orders)
  <2>1. CASE orders' = orders
    BY <1>1, <2>1 DEF SaleTypes
  <2>2. CASE orders' # orders
    BY <1>1, <1>2, <2>2, MarkedFacts
  <2>3. QED BY <2>1, <2>2
<1>4. flow' # None
         => \E stage \in {"order", "window", "confirm"} :
               flow' = [flow EXCEPT !.stage = stage] /\ flow.key \in DOMAIN orders
  BY <1>1 DEF SaleTypes, C!OrderRefused, C!WindowClosed, C!Charged, C!ConfirmPaid,
              C!ConfirmOther, C!ConfirmFails, C!At
<1>5. /\ UNCHANGED quotes /\ panel' \in {"shown", "refreshing", "failed", "failedOpen"}
      /\ C!Mounted => C!Mounted'
  BY <1>1 DEF C!OrderRefused, C!WindowClosed, C!Charged, C!ConfirmPaid, C!ConfirmOther,
              C!ConfirmFails, C!Mounted
<1>6. \/ dialog' = dialog \/ dialog' = C!Back(dialog)
      \/ flow.key \in DOMAIN orders /\ \E d \in {dialog, C!Back(dialog)} :
            dialog' = [d EXCEPT !.fulfilled = flow.key]
  BY <1>1 DEF SaleTypes, C!OrderRefused, C!WindowClosed, C!Charged, C!ConfirmPaid,
              C!ConfirmOther, C!ConfirmFails, C!At, C!Sets, C!After
<1>7. /\ dialog' \in Dialogs(orders) /\ dialog'.open = dialog.open /\ dialog'.coupon = dialog.coupon
      /\ dialog'.quote = dialog.quote /\ dialog'.quoteLoading = dialog.quoteLoading
      /\ dialog'.session = dialog.session /\ dialog'.opening = dialog.opening
  <2>1. /\ C!Back(dialog) \in Dialogs(orders) /\ C!Back(dialog).open = dialog.open
        /\ C!Back(dialog).coupon = dialog.coupon /\ C!Back(dialog).quote = dialog.quote
        /\ C!Back(dialog).quoteLoading = dialog.quoteLoading
        /\ C!Back(dialog).session = dialog.session /\ C!Back(dialog).opening = dialog.opening
    BY <1>1 DEF C!Back, Dialogs
  <2>2. CASE dialog' = dialog \/ dialog' = C!Back(dialog)
    BY <1>1, <2>1, <2>2
  <2>3. CASE flow.key \in DOMAIN orders /\ \E d \in {dialog, C!Back(dialog)} :
               dialog' = [d EXCEPT !.fulfilled = flow.key]
    <3>1. PICK d \in {dialog, C!Back(dialog)} : dialog' = [d EXCEPT !.fulfilled = flow.key]
      BY <2>3
    <3>2. d \in Dialogs(orders)
      BY <1>1, <2>1
    <3>3. /\ dialog' \in Dialogs(orders) /\ dialog'.open = d.open /\ dialog'.coupon = d.coupon
          /\ dialog'.quote = d.quote /\ dialog'.quoteLoading = d.quoteLoading
          /\ dialog'.session = d.session /\ dialog'.opening = d.opening
      BY <2>3, <3>1, <3>2 DEF Dialogs
    <3>4. QED BY <2>1, <3>3
  <2>4. QED BY <1>6, <2>2, <2>3
<1>8. SalePart'
  BY <1>1, <1>3, <1>4, <1>7, FlowMoves
<1>9. QED BY <1>3, <1>5, <1>7, <1>8, QuietPreserves

\* The gateway tells the server: an order is paid.
LEMMA WebhookPreserves ==
  ASSUME CheckoutIInv, NEW k \in DOMAIN orders, C!Webhook(k) PROVE CheckoutIInv'
<1>1. /\ orders' = [orders EXCEPT ![k].status = "paid"]
      /\ UNCHANGED <<dialog, panel, quotes, flow>>
  BY DEF C!Webhook
<1>2. SaleTypes
  BY DEF CheckoutIInv, SalePart
<1>3. /\ DOMAIN orders' = DOMAIN orders /\ orders' \in [DOMAIN orders' -> OrderRecords]
      /\ \A j \in DOMAIN orders : orders'[j].opening = orders[j].opening
      /\ Dialogs(orders') = Dialogs(orders)
  BY <1>1, <1>2, MarkedFacts
<1>4. SalePart'
  BY <1>1, <1>3 DEF CheckoutIInv, SalePart, SaleTypes, Keyed, NoneAhead, OneSession
<1>5. QED BY <1>1, <1>3, <1>4, QuietPreserves DEF CheckoutIInv, C!Mounted

\* An inquiry ends, closing the dialog when it went well.
LEMMA InquiryEndsPreserves ==
  ASSUME CheckoutIInv, C!InquiryEnds PROVE CheckoutIInv'
<1>1. /\ flow' = None /\ UNCHANGED <<panel, orders>> /\ dialog \in Dialogs(orders)
      /\ \/ C!Becomes(C!Back(dialog)) \/ C!Becomes(C!Back(C!Shut(dialog)))
         \/ UNCHANGED <<dialog, quotes>>
  BY DEF C!InquiryEnds, CheckoutIInv
<1>2. CASE C!Becomes(C!Back(dialog))
  <2>1. /\ C!Back(dialog) \in Dialogs(orders) /\ C!Back(dialog).open = dialog.open
        /\ C!Back(dialog).session = dialog.session /\ C!Back(dialog).opening = dialog.opening
        /\ C!Back(dialog).quote = dialog.quote
        /\ C!Back(dialog).quoteLoading = dialog.quoteLoading
    BY <1>1 DEF C!Back, Dialogs
  <2>2. /\ dialog' \in Dialogs(orders) /\ dialog'.open = dialog.open /\ dialog'.session = dialog.session
        /\ dialog'.opening = dialog.opening /\ QuotePart'
    BY <1>2, <2>1, BecomesFacts
  <2>3. SalePart'
    BY <1>1, <2>2 DEF CheckoutIInv, SalePart, SaleTypes, Keyed, NoneAhead, OneSession
  <2>4. QED BY <1>1, <2>2, <2>3 DEF CheckoutIInv, OpenIsMounted, C!Mounted
<1>3. CASE C!Becomes(C!Back(C!Shut(dialog)))
  <2>1. /\ C!Back(C!Shut(dialog)) \in Dialogs(orders) /\ ~C!Back(C!Shut(dialog)).open
        /\ C!Back(C!Shut(dialog)).opening = dialog.opening
    BY <1>1 DEF C!Back, C!Shut, Dialogs
  <2>2. dialog' \in Dialogs(orders) /\ ~dialog'.open /\ dialog'.opening = dialog.opening /\ QuotePart'
    BY <1>3, <2>1, BecomesFacts
  <2>3. SalePart'
    BY <1>1, <2>2 DEF CheckoutIInv, SalePart, SaleTypes, Keyed, NoneAhead, OneSession
  <2>4. QED BY <1>1, <2>2, <2>3 DEF CheckoutIInv, OpenIsMounted, C!Mounted
<1>4. CASE UNCHANGED <<dialog, quotes>>
  <2>1. SalePart'
    BY <1>1, <1>4 DEF CheckoutIInv, SalePart, SaleTypes, Keyed, NoneAhead, OneSession
  <2>2. QED BY <1>1, <1>4, <2>1, QuietPreserves DEF CheckoutIInv, C!Mounted
<1>5. QED BY <1>1, <1>2, <1>3, <1>4

\* The panel is loaded again, or fails and takes the dialog with it.
LEMMA PanelPreserves ==
  ASSUME CheckoutIInv, C!CancelAutopay \/ C!Refreshed \/ C!RefreshFails \/ C!RefreshedAgain
  PROVE  CheckoutIInv'
<1>1. dialog \in Dialogs(orders) /\ panel \in {"shown", "refreshing", "failed", "failedOpen"} /\ SalePart
  BY DEF CheckoutIInv
<1>2. CASE C!CancelAutopay \/ C!Refreshed
  <2>1. panel' \in {"shown", "refreshing"} /\ UNCHANGED <<dialog, quotes, flow, orders>>
    BY <1>2 DEF C!CancelAutopay, C!Refreshed
  <2>2. SalePart'
    BY <1>1, <2>1, SaleKept
  <2>3. QED BY <1>1, <2>1, <2>2, QuietPreserves DEF C!Mounted
<1>3. CASE C!RefreshFails
  <2>1. /\ panel' \in {"failed", "failedOpen"} /\ UNCHANGED orders
        /\ dialog' = [C!Fresh EXCEPT !.opening = dialog.opening, !.made = dialog.made]
        /\ quotes' = [quotes EXCEPT !.live = FALSE]
        /\ flow' = IF flow = None THEN None ELSE [flow EXCEPT !.here = FALSE]
    BY <1>3 DEF C!RefreshFails
  <2>2. dialog' \in Dialogs(orders') /\ ~dialog'.open /\ dialog'.opening = dialog.opening
    BY <1>1, <2>1 DEF C!Fresh, Dialogs
  <2>3. QuotePart'
    BY <2>1, <2>2 DEF CheckoutIInv, QuotePart, QuoteRecords, LastCounts, QuoteNow
  <2>4. flow' # None => /\ flow # None /\ flow' \in Flows /\ flow'.stage = flow.stage
                        /\ flow'.key = flow.key /\ flow'.what = flow.what
                        /\ flow'.opening = flow.opening
    BY <1>1, <2>1 DEF SalePart, SaleTypes, Flows
  <2>5. SaleTypes'
    BY <1>1, <2>1, <2>4 DEF SalePart, SaleTypes, Keyed
  <2>6. NoneAhead' /\ OneSession'
    BY <1>1, <2>1, <2>2, <2>4 DEF SalePart, NoneAhead, OneSession
  <2>7. QED BY <2>1, <2>2, <2>3, <2>5, <2>6 DEF CheckoutIInv, SalePart, OpenIsMounted
<1>4. CASE C!RefreshedAgain
  <2>1. ~dialog.open /\ panel' = "shown" /\ UNCHANGED <<flow, orders>>
    BY <1>4 DEF C!RefreshedAgain, CheckoutIInv, OpenIsMounted
  <2>2. CASE UNCHANGED <<dialog, quotes>>
    <3>1. SalePart'
      BY <1>1, <2>1, <2>2, SaleKept
    <3>2. QED BY <1>1, <2>1, <2>2, <3>1, QuietPreserves DEF C!Mounted
  <2>3. CASE dialog.opening < MaxOpenings /\ C!Becomes(C!Opened(dialog))
    BY <2>1, <2>3, OpenedPreserves DEF C!Mounted
  <2>4. QED BY <1>4, <2>2, <2>3 DEF C!RefreshedAgain
<1>5. QED BY <1>2, <1>3, <1>4

\* Every step of the page, and of another page, keeps the invariant.
LEMMA CheckoutStepPreserves == CheckoutIInv /\ [Next]_vars => CheckoutIInv'
<1> SUFFICES ASSUME CheckoutIInv, [Next]_vars PROVE CheckoutIInv'
  OBVIOUS
<1>1. CASE C!CheckoutNext
  BY <1>1, QuoteArrivesPreserves, QuoteFailsPreserves, TryAgainPreserves, EntryPreserves,
     BeginPreserves, ProfileSavedPreserves, OrderServedPreserves, PayingPreserves,
     WebhookPreserves, InquiryEndsPreserves, PanelPreserves DEF C!CheckoutNext
<1>2. CASE UNCHANGED checkout
  BY <1>2 DEF checkout, CheckoutIInv, OpenIsMounted, C!Mounted, QuotePart, LastCounts, QuoteNow,
              SalePart, SaleTypes, Keyed, NoneAhead, OneSession, Dialogs
<1>3. QED BY <1>1, <1>2 DEF Next, vars

-----------------------------------------------------------------------------
(* The theorems *)

\* The inductive invariant of the checkout: the answer that counts is for what is on the
\* screen, and an opening of the dialog buys in one session.
THEOREM CheckoutInvariance == Spec => []CheckoutIInv
<1>1. Init => CheckoutIInv
  BY CheckoutInitEstablishes DEF Init
<1>2. QED BY <1>1, CheckoutStepPreserves, PTL DEF Spec

\* With no "Updating quote", the price on the screen is the one for what the screen has:
\* never a late answer to an earlier question.
THEOREM QuoteIsCurrentCorrect == Spec => []QuoteIsCurrent
<1>1. CheckoutIInv => QuoteIsCurrent
  BY CheckoutIInvImplies
<1>2. QED BY <1>1, CheckoutInvariance, PTL

\* A purchase tried again while the dialog stays open is the same order.
THEOREM OneOrderWhileOpenCorrect == Spec => OneOrderWhileOpen
<1>1. CheckoutIInv /\ [Next]_vars
        => [\A k \in DOMAIN orders' \ DOMAIN orders :
              (C!Mounted /\ dialog.open /\ flow.opening = dialog.opening)
                 => ~\E j \in DOMAIN orders : j[2] = k[2] /\ orders[j].opening = flow.opening]_C!checkoutVars
  <2> SUFFICES ASSUME CheckoutIInv, [Next]_vars,
                      NEW k \in DOMAIN orders' \ DOMAIN orders,
                      dialog.open, flow.opening = dialog.opening,
                      NEW j \in DOMAIN orders, j[2] = k[2], orders[j].opening = flow.opening
               PROVE  FALSE
    OBVIOUS
  <2>1. C!OrderServed
    <3>1. SaleTypes
      BY DEF CheckoutIInv, SalePart
    <3>2. ~UNCHANGED orders
      OBVIOUS
    <3>3. C!CheckoutNext
      BY <3>2 DEF Next, vars, checkout
    <3>4. ASSUME C!Charged \/ C!ConfirmPaid \/ C!ConfirmFails \/ \E i \in DOMAIN orders : C!Webhook(i)
          PROVE  FALSE
      BY <3>4, <3>1 DEF C!Charged, C!ConfirmPaid, C!ConfirmFails, C!Webhook
    <3>5. QED
      BY <3>2, <3>3, <3>4 DEF C!CheckoutNext, C!QuoteArrives, C!QuoteFails, C!TryAgain, C!Open,
         C!Close, C!RemoveCoupon, C!PickMode, C!Loaded, C!PickGateway, C!ApplyCoupon, C!Pay,
         C!ProfileSaved, C!OrderRefused, C!WindowClosed, C!ConfirmOther, C!Inquire,
         C!InquiryEnds, C!CancelAutopay, C!Refreshed, C!RefreshFails, C!RefreshedAgain
  <2>2. /\ k = flow.key /\ flow # None /\ Keyed
    BY <2>1 DEF C!OrderServed, C!At, Keyed
  <2>3. j[1] = dialog.session /\ k[1] = dialog.session /\ j \in Keys /\ k \in Keys
    BY <2>2 DEF CheckoutIInv, SalePart, SaleTypes, OneSession
  <2>4. j = k
    BY <2>3 DEF Keys
  <2>5. QED BY <2>4
<1>2. QED
  BY <1>1, CheckoutInvariance, PTL DEF Spec, OneOrderWhileOpen, C!OneOrderWhileOpen
=============================================================================
