--------------------------- MODULE LicenceRegister ---------------------------
(***************************************************************************)
(* What the activation of licences promises (the header of                 *)
(* activateLicenseToken, src/lib/licensing/index.ts 8-9: anti-replay and   *)
(* anti-downgrade): an installation holds one licence; a licence that was  *)
(* once entered is never entered again, and the one held is only replaced  *)
(* by one that ends no sooner. The promise holds while the register can be *)
(* trusted, and LicenseActivation says what ends that.                     *)
(***************************************************************************)
EXTENDS Integers

CONSTANTS Token, NoToken

VARIABLES
  record,    \* the licence held, NoToken before the first
  used,      \* identifiers of the licences entered so far
  trusted

vars == <<record, used, trusted>>

Init == record = NoToken /\ used = {} /\ trusted = TRUE

Enter(t) ==
  /\ trusted
  /\ t.id \notin used
  /\ record # NoToken => record.expires <= t.expires
  /\ record' = t
  /\ used' = used \cup {t.id}
  /\ UNCHANGED trusted

\* Nothing is promised from here on.
Distrust == trusted' = FALSE

Next == (\E t \in Token : Enter(t)) \/ Distrust

Spec == Init /\ [][Next]_vars
=============================================================================
