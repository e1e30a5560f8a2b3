--------------------------- MODULE MCLicenseClock ---------------------------
(* Values of LicenseClock's constants for model checking.                  *)
EXTENDS LicenseClock, TLC

\* A short licence and its renewal.
MCLicence == {[starts |-> 0, expires |-> 1], [starts |-> 1, expires |-> 2]}

\* Nothing in the specification tells one anchor file from the other.
AnchorSymmetry == Permutations(Anchor)

=============================================================================
