----------------------------- MODULE MCOrderDesk -----------------------------
EXTENDS OrderDesk
Spec == DeskInit /\ [][DeskNext]_deskVars
=============================================================================
