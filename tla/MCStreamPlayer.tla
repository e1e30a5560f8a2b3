--------------------------- MODULE MCStreamPlayer ---------------------------
(* StreamPlayer with the code's own retry limit, for model checking.       *)
EXTENDS StreamPlayer

=============================================================================
