--------------------------- MODULE MCIdempotency ----------------------------
\* Small instances of Idempotency for TLC.
EXTENDS Idempotency, TLC

CONSTANTS r1, r2, r3, k1, k2, h1, h2

ThreeRequests == {r1, r2, r3}
TwoRequests == {r1, r2}
TwoKeys == {k1, k2}
OneKey == {k1}
TwoHashes == {h1, h2}
OneHash == {h1}

Symmetric == Permutations({r1, r2, r3}) \cup Permutations({h1, h2})
=============================================================================
