--------------------------- MODULE MCOutboundQueue ---------------------------
\* One or two vouchers of the portal, whose contents are one of two texts.
EXTENDS OutboundQueue

CONSTANTS v1, v2, tA, tB
=============================================================================
