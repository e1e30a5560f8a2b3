----------------------------- MODULE TrialLedger -----------------------------
(***************************************************************************)
(* What the trial anchors together promise (the header of storage.ts,      *)
(* lines 13-14, and of readTrialAnchors, 104-111: earliest start, latest   *)
(* mark, sticky flags, so that erasing one anchor does not restart the     *)
(* trial): ONE ledger that nothing erases, written only by an evaluation   *)
(* that looks at the clock. LicenseClock keeps it in files that get lost.  *)
(***************************************************************************)
EXTENDS Integers

CONSTANTS NoTime, TOLERANCE, INTERVAL

VARIABLES
  clock,
  start,     \* when the trial began, NoTime before
  seen,      \* high-water mark of the clock
  tampered   \* the clock was once caught going back

ledger == <<start, seen, tampered>>
vars   == <<clock, ledger>>

Init == clock = 0 /\ start = NoTime /\ seen = NoTime /\ tampered = FALSE

WentBack == seen # NoTime /\ clock < seen - TOLERANCE

\* The trial begins at most once, on an honest clock.
BeginTrial == start = NoTime /\ ~tampered /\ ~WentBack /\ start' = clock

\* The mark only rises; the throttle leaves it less than INTERVAL behind.
Mark  == seen' = IF seen < clock THEN clock ELSE seen
Leave == seen <= clock /\ clock < seen + INTERVAL /\ UNCHANGED <<start, seen>>

Observe ==
  /\ \/ Mark /\ (BeginTrial \/ UNCHANGED start)
     \/ seen # NoTime /\ Leave
  /\ tampered' = (tampered \/ WentBack)
  /\ UNCHANGED clock

MoveClock == UNCHANGED ledger

Next == Observe \/ MoveClock

Spec == Init /\ [][Next]_vars
=============================================================================
