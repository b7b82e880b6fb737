--------------------------- MODULE MCInboundUpload ---------------------------
\* Uploads over one or two backends, and an import of the Sync page.
EXTENDS InboundUpload, TLC

CONSTANTS u1, u2, u3, m1, p1, p2, kA, plain, other

\* Two backends, one key: u1 and u3 are two tries of an upload (a third one
\* may have failed before), u2 is another payload, forced.
MCProc == u1 :> p1 @@ u2 :> p1 @@ u3 :> p2
MCOneKey == u1 :> kA @@ u2 :> kA @@ u3 :> kA
MCSha == u1 :> plain @@ u2 :> other @@ u3 :> plain

\* Two backends: two uploads and an import of the Sync page on one, an upload on
\* the other; without keys, for receipts let nobody wait.
MCLocksProc == u1 :> p1 @@ u2 :> p2 @@ u3 :> p1 @@ m1 :> p1
MCLocksKeys == u1 :> None @@ u2 :> None @@ u3 :> None
MCLocksSha == u1 :> plain @@ u2 :> plain @@ u3 :> plain
=============================================================================
