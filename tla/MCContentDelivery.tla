-------------------------- MODULE MCContentDelivery --------------------------
EXTENDS ContentDelivery, TLC
CONSTANTS r1, r2, d1, d2, f1, f2, a, b

Symmetric == Permutations({r1, r2}) \cup Permutations({d1, d2})
             \cup Permutations({f1, f2}) \cup Permutations({a, b})
=============================================================================
