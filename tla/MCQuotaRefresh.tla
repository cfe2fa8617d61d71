--------------------------- MODULE MCQuotaRefresh ---------------------------
EXTENDS QuotaRefresh, TLC
CONSTANTS a1, a2, m1, r1, r2, i1, i2, w1, w2
Interchangeable == Permutations({a1, a2}) \cup Permutations({r1, r2}) \cup Permutations({w1, w2})
=============================================================================
