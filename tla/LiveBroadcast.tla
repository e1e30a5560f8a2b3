---------------------------- MODULE LiveBroadcast ----------------------------
(***************************************************************************)
(* What the stream-service promises the televisions (state, grace timer    *)
(* and broadcastStream of stream-service/index.ts, 124-160 and 201-243):   *)
(* at most one publication is on the air, it goes off only through its     *)
(* grace period or with the service, another one comes only afterwards,    *)
(* and a television shows nothing that was not so when it was said. How,   *)
(* when, in which order and whether at all it is told is left open.        *)
(***************************************************************************)
CONSTANTS Tv, Session, NoSession

VARIABLES
  up,       \* the service runs
  current,  \* session of the publication on the air, or NoSession
  ending,   \* its grace period runs
  told,     \* [Tv -> words under way to it]
  shown     \* [Tv -> the last word it heard; "unknown" says nothing]

air  == <<up, current, ending>>
vars == <<air, told, shown>>

Init ==
  /\ up = TRUE /\ current = NoSession /\ ending = FALSE
  /\ told = [t \in Tv |-> {}] /\ shown = [t \in Tv |-> "unknown"]

State == IF current = NoSession THEN "off" ELSE "live"

\* The televisions may be told how things stand from now on, or nothing, when they
\* are to play another source; words get lost.
Tell ==
  /\ \A t \in Tv : told'[t] \subseteq told[t] \cup {State', "unknown"}
  /\ UNCHANGED shown

Begin(s) ==
  /\ up /\ current = NoSession
  /\ current' = s /\ UNCHANGED <<up, ending>>
  /\ Tell

End ==
  /\ up /\ current # NoSession
  /\ ending' = TRUE /\ UNCHANGED <<up, current>>
  /\ UNCHANGED <<told, shown>>

GoOff ==
  /\ up /\ ending
  /\ current' = NoSession /\ ending' = FALSE /\ UNCHANGED up
  /\ Tell

Die ==
  /\ up /\ up' = FALSE
  /\ current' = NoSession /\ ending' = FALSE
  /\ UNCHANGED <<told, shown>>

Recover ==
  /\ ~up /\ up' = TRUE
  /\ UNCHANGED <<current, ending>>
  /\ Tell

Remind == UNCHANGED air /\ Tell

Hear(t) ==
  /\ UNCHANGED air
  /\ \E w \in told[t] : shown' = [shown EXCEPT ![t] = w]
  /\ \A u \in Tv : told'[u] \subseteq told[u]

Next ==
  \/ \E s \in Session : Begin(s)
  \/ End
  \/ GoOff
  \/ Die
  \/ Recover
  \/ Remind
  \/ \E t \in Tv : Hear(t)

Spec == Init /\ [][Next]_vars
=============================================================================
