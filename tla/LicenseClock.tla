----------------------------- MODULE LicenseClock -----------------------------
(***************************************************************************)
(* src/lib/licensing: what an installation is entitled to at each reading  *)
(* of a clock that may be set back. The trial lives in two anchor files    *)
(* (storage.ts), the commercial licence in one database row; every         *)
(* evaluation (getLicenseSystemState) reads both, moves the anchors'       *)
(* high-water mark, and judges trial and licence by the EFFECTIVE time.    *)
(*                                                                         *)
(* Anchor access is synchronous, so one evaluation is one step. Audit      *)
(* events are left out; the extra anchor write they cause is not.          *)
(***************************************************************************)
EXTENDS Integers, FiniteSets

CONSTANTS
  Anchor,      \* anchor files (data directory, home directory)
  TRIAL,       \* length of the trial
  TOLERANCE,   \* CLOCK_TAMPER_TOLERANCE_MS
  INTERVAL,    \* lastSeenAt write throttle
  GRACE,       \* licence grace, 0 when it is off
  Licence,     \* licences issued for this installation: [starts, expires]
  TotalLoss,   \* ways in which all anchors may fail together
  MaxTime      \* bound: latest clock reading

ASSUME ClockAssumption ==
  /\ TRIAL \in Nat \ {0} /\ TOLERANCE \in Nat /\ INTERVAL \in Nat \ {0}
  /\ GRACE \in Nat /\ MaxTime \in Nat
ASSUME AnchorAssumption == IsFiniteSet(Anchor) /\ Anchor # {}
ASSUME LicenceAssumption ==
  /\ TotalLoss \subseteq {"bad", "absent", "unwritten"}
  /\ Licence \subseteq {l \in [starts : Nat, expires : Nat] : l.starts < l.expires}

NoTime    == -1
Time      == Nat \cup {NoTime}
NoLicence == [starts |-> 0, expires |-> 0]

\* A parsed anchor. "bad" is unparsable or carries an invalid stamp.
File   == [kind : {"ok", "bad", "absent"}, start : Time, seen : Time, tampered : BOOLEAN]
Unread(kind) == [kind |-> kind, start |-> NoTime, seen |-> NoTime, tampered |-> FALSE]

Verdict == {"none", "trial", "unlicensed", "active", "grace", "expired", "invalid"}

VARIABLES
  clock,     \* Date.now()
  files,     \* [Anchor -> File]
  record,    \* LicenseState row, NoLicence when there is none
  used,      \* licences in the LicenseHistory table
  verdict,   \* status of the last evaluation
  tampered,  \* clockTampered of the last evaluation
  \* --- history
  judged,    \* the licence the last evaluation read
  granted,   \* every trial start an evaluation has worked with
  latest     \* highest clock reading of any evaluation

licence == <<record, used>>
outcome == <<verdict, tampered, judged, granted, latest>>
vars    == <<clock, files, licence, outcome>>

TypeOK ==
  /\ clock \in 0..MaxTime
  /\ files \in [Anchor -> File]
  /\ record \in Licence \cup {NoLicence} /\ judged \in Licence \cup {NoLicence}
  /\ used \in SUBSET Licence
  /\ verdict \in Verdict
  /\ tampered \in BOOLEAN
  /\ granted \in SUBSET Nat
  /\ latest \in Time

Init ==
  /\ clock = 0
  /\ files = [a \in Anchor |-> Unread("absent")]
  /\ record = NoLicence /\ used = {} /\ judged = NoLicence
  /\ verdict = "none" /\ tampered = FALSE
  /\ granted = {} /\ latest = NoTime

-----------------------------------------------------------------------------
(* Reading the anchors.                                                    *)

Later(x, y) == IF x < y THEN y ELSE x

Intact(fs)   == {a \in Anchor : fs[a].kind = "ok"}
Starts(fs)   == {fs[a].start : a \in Intact(fs)} \ {NoTime}
SeenTimes(fs) == {fs[a].seen : a \in Intact(fs)} \ {NoTime}

\* Seeded faults: a start is believed only when every anchor has it ...
MergedStart_NeedsAll(fs) ==
  IF Starts(fs) = {} \/ Intact(fs) # Anchor THEN NoTime
  ELSE CHOOSE s \in Starts(fs) : \A x \in Starts(fs) : s <= x

\* ... and so is a rollback.
MergedTampered_NeedsAll(fs) == Intact(fs) # {} /\ \A a \in Intact(fs) : fs[a].tampered

\* readTrialAnchors: earliest start, latest high-water mark, sticky flag.
MergedStart(fs) ==
  IF Starts(fs) = {} THEN NoTime
  ELSE CHOOSE s \in Starts(fs) : \A x \in Starts(fs) : s <= x

MergedSeen(fs) ==
  IF SeenTimes(fs) = {} THEN NoTime
  ELSE CHOOSE s \in SeenTimes(fs) : \A x \in SeenTimes(fs) : x <= s

MergedTampered(fs) == \E a \in Intact(fs) : fs[a].tampered

IntegrityWarning(fs) == \E a \in Anchor : fs[a].kind = "bad"

-----------------------------------------------------------------------------
(* One evaluation.                                                         *)

RolledBack(now, seen) == seen # NoTime /\ now < seen - TOLERANCE

\* refreshTrialState: may a trial start now?
StartsTrial(fs, now, hasLicence) ==
  /\ MergedStart(fs) = NoTime
  /\ ~hasLicence
  /\ ~MergedTampered(fs)
  /\ ~RolledBack(now, MergedSeen(fs))
  /\ ~IntegrityWarning(fs)

NeedsWrite(fs, now, hasLicence) ==
  LET seen == MergedSeen(fs) IN
  \/ StartsTrial(fs, now, hasLicence)
  \/ RolledBack(now, seen) /\ ~MergedTampered(fs)
  \/ seen = NoTime
  \/ now - seen >= INTERVAL
  \/ now < seen

\* The merged state after the refresh, as it is judged and (if needed) written.
NewStart(fs, now, hasLicence) ==
  IF StartsTrial(fs, now, hasLicence) THEN now ELSE MergedStart(fs)

\* Seeded fault: the high-water mark follows the clock down.
NewSeen_Follows(fs, now, hasLicence) ==
  IF NeedsWrite(fs, now, hasLicence) THEN now ELSE MergedSeen(fs)

NewSeen(fs, now, hasLicence) ==
  IF NeedsWrite(fs, now, hasLicence) THEN Later(now, MergedSeen(fs)) ELSE MergedSeen(fs)

NewTampered(fs, now) == MergedTampered(fs) \/ RolledBack(now, MergedSeen(fs))

\* Seeded fault: the wall clock is trusted.
EffectiveTime_WallClock(now, seen, isTampered) == now

\* trial.ts effectiveTime: a clock caught going back is frozen at the high-water mark.
EffectiveTime(now, seen, isTampered) == IF isTampered THEN Later(now, seen) ELSE now

\* validator.ts, on a licence of this installation.
LicenceStatus(l, now) ==
  IF now < l.starts THEN "invalid"
  ELSE IF now < l.expires THEN "active"
  ELSE IF now < l.expires + GRACE THEN "grace" ELSE "expired"

\* Seeded fault: the end of the trial is reported under a name nobody knows.
TrialStatus_OtherName(start, now) ==
  IF start # NoTime /\ now < start + TRIAL THEN "trial" ELSE "trial_ended"

TrialStatus(start, now) ==
  IF start # NoTime /\ now < start + TRIAL THEN "trial" ELSE "unlicensed"

\* A write reaches the anchors in `reached`; the others keep what they had.
Written(fs, reached, start, seen, isTampered) ==
  [a \in Anchor |-> IF a \in reached
                    THEN [kind |-> "ok", start |-> start, seen |-> seen,
                          tampered |-> isTampered]
                    ELSE fs[a]]

\* getLicenseSystemState. A failed database read counts as no licence; a write that
\* fails is swallowed anchor by anchor (storage.ts 167-174), so it may reach any of
\* them, or none where TotalLoss allows it; the end of a trial or licence may be
\* logged, which writes the anchors once more.
Evaluate(dbRead, reached, audited) ==
  LET read   == IF dbRead THEN record ELSE NoLicence
      licensed == read # NoLicence
      start  == NewStart(files, clock, licensed)
      seen   == NewSeen(files, clock, licensed)
      isTampered == NewTampered(files, clock)
      eff    == EffectiveTime(clock, seen, isTampered)
      status == IF licensed THEN LicenceStatus(read, eff) ELSE TrialStatus(start, eff)
  IN
  /\ reached = {} => "unwritten" \in TotalLoss
  /\ audited => status = "expired" \/ (status = "unlicensed" /\ start # NoTime)
  /\ verdict' = status
  /\ tampered' = isTampered
  /\ judged' = read
  /\ files' = (IF NeedsWrite(files, clock, licensed) \/ audited
               THEN Written(files, reached, start, seen, isTampered) ELSE files)
  /\ granted' = (IF start = NoTime THEN granted ELSE granted \cup {start})
  /\ latest' = Later(clock, latest)
  /\ UNCHANGED <<clock, licence>>

\* Does l end before a licence that is still in force?
Shortens(l, current) ==
  /\ current # NoLicence
  /\ LicenceStatus(current, clock) \in {"active", "grace"}
  /\ l.expires < current.expires

\* activateLicenseToken, run alone: the token must be in force by the wall clock,
\* new, and not shorten the licence in force. Failed reads count as nothing found,
\* a failed append to the history is swallowed.
Activate(l, currentRead, historyRead, logged) ==
  LET current == IF currentRead THEN record ELSE NoLicence IN
  /\ l.starts <= clock /\ clock < l.expires
  /\ l # current
  /\ ~(historyRead /\ l \in used)
  /\ ~Shortens(l, current)
  /\ record' = l
  /\ used' = (IF logged THEN used \cup {l} ELSE used)
  /\ UNCHANGED <<clock, files, outcome>>

-----------------------------------------------------------------------------
(* Environment.                                                            *)

Tick ==
  /\ clock < MaxTime
  /\ clock' = clock + 1
  /\ UNCHANGED <<files, licence, outcome>>

SetBack(t) ==
  /\ t < clock
  /\ clock' = t
  /\ UNCHANGED <<files, licence, outcome>>

\* An intact anchor that knows everything the anchors together know.
Complete(fs, a) ==
  /\ a \in Intact(fs)
  /\ \A s \in Starts(fs) : fs[a].start # NoTime /\ fs[a].start <= s
  /\ \A s \in SeenTimes(fs) : s <= fs[a].seen
  /\ MergedTampered(fs) => fs[a].tampered

\* Anchors in `lost` become unreadable (disk error, AUTH_SECRET rotated: the stamps
\* no longer match) or absent (a home directory that went away).
Damage(lost, kind) ==
  /\ lost # {}
  /\ kind \in TotalLoss \/ \E a \in Anchor \ lost : Complete(files, a)
  /\ files' = [a \in Anchor |-> IF a \in lost /\ files[a].kind # "absent"
                                THEN Unread(kind) ELSE files[a]]
  /\ UNCHANGED <<clock, licence, outcome>>

Next ==
  \/ \E dbRead, audited \in BOOLEAN, reached \in SUBSET Anchor :
       Evaluate(dbRead, reached, audited)
  \/ \E l \in Licence, currentRead, historyRead, logged \in BOOLEAN :
       Activate(l, currentRead, historyRead, logged)
  \/ Tick
  \/ \E t \in 0..MaxTime : SetBack(t)
  \/ \E lost \in SUBSET Anchor, kind \in {"bad", "absent"} : Damage(lost, kind)

Spec == Init /\ [][Next]_vars

-----------------------------------------------------------------------------
(* Properties.                                                             *)

\* An installation works with one trial start for ever: neither the loss of an anchor,
\* nor one that cannot be written, nor the clock, nor a spell without database gives
\* a second trial (storage.ts 210-287).
OneTrial == \A s, t \in granted : s = t

\* Setting the clock back does not stretch a trial: while it is reported active, no
\* evaluation has ever run later than the tolerance and the write throttle allow.
TrialBounded ==
  verdict = "trial" =>
    \E s \in granted : latest < s + TRIAL + TOLERANCE + INTERVAL

\* ... and does not revive the licence that was judged, once it ran out.
LicenceBounded ==
  verdict \in {"active", "grace"} =>
    latest < judged.expires + GRACE + TOLERANCE + INTERVAL

\* However anchors are lost, left behind by a write (never all) or repaired, the
\* evaluations use them as one ledger that nothing erases: one start, a mark that only
\* rises and follows the clock within the throttle, a rollback flag that stays set.
Ledger == INSTANCE TrialLedger
            WITH start <- MergedStart(files), seen <- MergedSeen(files), tampered <- tampered
KeepsLedger == Ledger!Spec
=============================================================================
