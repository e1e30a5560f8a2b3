---------------------------- MODULE MCLiveStream ----------------------------
(* Values of LiveStream's constants for model checking.                    *)
EXTENDS LiveStream

=============================================================================
