---------------------------- MODULE MCInboundSync ----------------------------
\* Records of one company: a group (g), a stock item (s), a record of a collection that
\* Tally exports without an ALTERID filter (u), and a voucher in each of two date ranges
\* (v1, v2).  A run takes some of them.
EXTENDS InboundSync, TLC

CONSTANTS g, u, s, v1, v2

\* g and s: two master collections.
EditedColl == g :> 1 @@ s :> 2
EditedRange == g :> 1 @@ s :> 1

\* s, u, v1 and v2: two master collections and the vouchers.
BothColl == s :> 1 @@ u :> 2 @@ v1 :> 3 @@ v2 :> 3
BothRange == s :> 1 @@ u :> 1 @@ v1 :> 1 @@ v2 :> 2
=============================================================================
