---------------------------- MODULE MCIdempotency ----------------------------
\* Six requests on three fingerprints: three under one key, the third with
\* another body; one under a second key; two identical ones without a key.
EXTENDS Idempotency, TLC

CONSTANTS r1, r2, r3, r4, r5, r6, kA, kB, noKey, b1, b2

MCFp == r1 :> kA @@ r2 :> kA @@ r3 :> kA @@ r4 :> kB @@ r5 :> noKey @@ r6 :> noKey
MCBody == r1 :> b1 @@ r2 :> b1 @@ r3 :> b2 @@ r4 :> b1 @@ r5 :> b1 @@ r6 :> b1
=============================================================================
