--------------------------- MODULE MCScreenPairing ---------------------------
(* ScreenPairing with small bounds, for model checking.                    *)
EXTENDS ScreenPairing

=============================================================================
