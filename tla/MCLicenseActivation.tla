------------------------- MODULE MCLicenseActivation -------------------------
(* Values of LicenseActivation's constants for model checking.             *)
EXTENDS LicenseActivation, TLC

\* A licence, its reissue under the same identifier that begins and ends later, and
\* another that ends with the first.
MCToken == {[id |-> 1, starts |-> 0, expires |-> 2],
            [id |-> 1, starts |-> 1, expires |-> 3],
            [id |-> 2, starts |-> 0, expires |-> 2]}

RequestSymmetry == Permutations(Request)
=============================================================================
