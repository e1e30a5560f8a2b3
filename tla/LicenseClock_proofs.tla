-------------------------- MODULE LicenseClock_proofs --------------------------
(***************************************************************************)
(* Proofs about LicenseClock, for any number of anchors, any lengths and   *)
(* any clock, as long as the anchors never all fail (TotalLoss = {}).      *)
(*                                                                         *)
(* The inductive invariant: from the first evaluation on, one intact       *)
(* anchor is COMPLETE, so what an evaluation merges out of the files is    *)
(* what earlier ones left there; and the merged high-water mark stays      *)
(* within one write throttle of the highest clock any evaluation has read. *)
(***************************************************************************)
EXTENDS LicenseClock, TLAPS

\* The files before the first evaluation.
Fresh == \A a \in Anchor : files[a].kind = "absent"

Kept == Fresh \/ \E a \in Anchor : Complete(files, a)

\* The trial start the evaluations have worked with is the one in the files.
StartKept == granted = {MergedStart(files)} \ {NoTime}

TamperKept == tampered <=> MergedTampered(files)

HighWater ==
  latest # NoTime => /\ MergedSeen(files) # NoTime
                     /\ latest < MergedSeen(files) + INTERVAL

IInv == TypeOK /\ Kept /\ StartKept /\ TamperKept /\ HighWater

-----------------------------------------------------------------------------
(* What the merge returns.                                                 *)

\* An absent anchor has nothing to say.
LEMMA MergedOfFresh ==
  ASSUME NEW fs, \A a \in Anchor : fs[a].kind = "absent"
  PROVE  /\ MergedStart(fs) = NoTime /\ MergedSeen(fs) = NoTime /\ ~MergedTampered(fs)
         /\ Starts(fs) = {} /\ SeenTimes(fs) = {}
<1>1. Intact(fs) = {}
  BY DEF Intact
<1>2. Starts(fs) = {} /\ SeenTimes(fs) = {}
  BY <1>1 DEF Starts, SeenTimes
<1>3. QED
  BY <1>1, <1>2 DEF MergedStart, MergedSeen, MergedTampered

\* A complete anchor says everything.
LEMMA MergedOfComplete ==
  ASSUME NEW fs \in [Anchor -> File], NEW a \in Anchor, Complete(fs, a)
  PROVE  /\ MergedStart(fs) = fs[a].start
         /\ MergedSeen(fs) = fs[a].seen
         /\ MergedTampered(fs) <=> fs[a].tampered
<1>1. a \in Intact(fs)
  BY DEF Complete
<1>2. Starts(fs) \subseteq Nat /\ SeenTimes(fs) \subseteq Nat
  BY DEF Starts, SeenTimes, Intact, File, Time, NoTime
<1>3. fs[a].start \in Time /\ fs[a].seen \in Time
  BY DEF File
<1>4. MergedStart(fs) = fs[a].start
  <2>1. CASE Starts(fs) = {}
    <3>1. fs[a].start = NoTime
      BY <2>1, <1>1 DEF Starts
    <3>2. QED
      BY <2>1, <3>1 DEF MergedStart
  <2>2. CASE Starts(fs) # {}
    <3>1. fs[a].start \in Starts(fs) /\ \A x \in Starts(fs) : fs[a].start <= x
      BY <2>2, <1>1 DEF Complete, Starts
    <3>2. \A s \in Starts(fs) : (\A x \in Starts(fs) : s <= x) => s = fs[a].start
      BY <3>1, <1>2
    <3>3. QED
      BY <2>2, <3>1, <3>2 DEF MergedStart
  <2>3. QED
    BY <2>1, <2>2
<1>5. MergedSeen(fs) = fs[a].seen
  <2>1. CASE SeenTimes(fs) = {}
    <3>1. fs[a].seen = NoTime
      BY <2>1, <1>1 DEF SeenTimes
    <3>2. QED
      BY <2>1, <3>1 DEF MergedSeen
  <2>2. CASE SeenTimes(fs) # {}
    <3>1. fs[a].seen \in SeenTimes(fs) /\ \A x \in SeenTimes(fs) : x <= fs[a].seen
      <4>1. \A x \in SeenTimes(fs) : x <= fs[a].seen
        BY DEF Complete
      <4>2. fs[a].seen # NoTime
        BY <4>1, <2>2, <1>2, <1>3 DEF NoTime, Time
      <4>3. QED
        BY <4>1, <4>2, <1>1 DEF SeenTimes
    <3>2. \A s \in SeenTimes(fs) : (\A x \in SeenTimes(fs) : x <= s) => s = fs[a].seen
      BY <3>1, <1>2
    <3>3. QED
      BY <2>2, <3>1, <3>2 DEF MergedSeen
  <2>3. QED
    BY <2>1, <2>2
<1>6. MergedTampered(fs) <=> fs[a].tampered
  BY <1>1 DEF Complete, MergedTampered
<1>7. QED
  BY <1>4, <1>5, <1>6

\* So, whatever is kept, the merge is of the right type and dominates every anchor.
LEMMA MergedFacts ==
  ASSUME TypeOK, Kept
  PROVE  /\ MergedStart(files) \in Time /\ MergedSeen(files) \in Time
         /\ MergedTampered(files) \in BOOLEAN
         /\ \A s \in Starts(files) : MergedStart(files) # NoTime /\ MergedStart(files) <= s
         /\ \A s \in SeenTimes(files) : s <= MergedSeen(files)
<1>1. CASE Fresh
  <2>1. /\ MergedStart(files) = NoTime /\ MergedSeen(files) = NoTime
        /\ Starts(files) = {} /\ SeenTimes(files) = {}
    BY <1>1, MergedOfFresh DEF Fresh
  <2>2. MergedTampered(files) \in BOOLEAN
    BY DEF MergedTampered
  <2>3. QED
    BY <2>1, <2>2 DEF Time, NoTime
<1>2. CASE \E a \in Anchor : Complete(files, a)
  <2>1. PICK a \in Anchor : Complete(files, a)
    BY <1>2
  <2>2. files \in [Anchor -> File] /\ files[a] \in File
    BY DEF TypeOK
  <2>3. /\ MergedStart(files) = files[a].start
        /\ MergedSeen(files) = files[a].seen
    BY <2>1, <2>2, MergedOfComplete
  <2>4. /\ \A s \in Starts(files) : files[a].start # NoTime /\ files[a].start <= s
        /\ \A s \in SeenTimes(files) : s <= files[a].seen
    BY <2>1 DEF Complete
  <2>5. MergedTampered(files) \in BOOLEAN
    BY DEF MergedTampered
  <2>6. QED
    BY <2>2, <2>3, <2>4, <2>5 DEF File
<1>3. QED
  BY <1>1, <1>2 DEF Kept

\* Writing a state that dominates every anchor makes the anchors written complete.
LEMMA WrittenComplete ==
  ASSUME NEW fs \in [Anchor -> File], NEW reached \in SUBSET Anchor, NEW b \in reached,
         NEW start \in Time, NEW seen \in Time, NEW t \in BOOLEAN,
         \A s \in Starts(fs) : start # NoTime /\ start <= s,
         \A s \in SeenTimes(fs) : s <= seen,
         MergedTampered(fs) => t
  PROVE  /\ Written(fs, reached, start, seen, t) \in [Anchor -> File]
         /\ Complete(Written(fs, reached, start, seen, t), b)
<1> DEFINE new == [kind |-> "ok", start |-> start, seen |-> seen, tampered |-> t]
           gs  == Written(fs, reached, start, seen, t)
<1>1. new \in File
  BY DEF File
<1>2. gs \in [Anchor -> File]
  BY <1>1 DEF Written
<1>3. \A a \in Anchor : gs[a] = IF a \in reached THEN new ELSE fs[a]
  BY DEF Written
<1> HIDE DEF gs
<1>4. gs[b] = new /\ b \in Intact(gs)
  BY <1>3 DEF Intact
<1>5. \A a \in Intact(gs) : a \in reached \/ (a \in Intact(fs) /\ gs[a] = fs[a])
  BY <1>3 DEF Intact
<1>6. \A s \in Starts(gs) : start # NoTime /\ start <= s
  <2> SUFFICES ASSUME NEW s \in Starts(gs) PROVE start # NoTime /\ start <= s
    OBVIOUS
  <2>1. PICK a \in Intact(gs) : s = gs[a].start /\ s # NoTime
    BY DEF Starts
  <2>2. a \in Anchor
    BY DEF Intact
  <2>3. CASE a \in reached
    BY <2>1, <2>2, <2>3, <1>3 DEF Time, NoTime
  <2>4. CASE a \in Intact(fs) /\ gs[a] = fs[a]
    <3>1. s \in Starts(fs)
      BY <2>1, <2>4 DEF Starts
    <3>2. QED
      BY <3>1
  <2>5. QED
    BY <2>3, <2>4, <1>5
<1>7. \A s \in SeenTimes(gs) : s <= seen
  <2> SUFFICES ASSUME NEW s \in SeenTimes(gs) PROVE s <= seen
    OBVIOUS
  <2>1. PICK a \in Intact(gs) : s = gs[a].seen /\ s # NoTime
    BY DEF SeenTimes
  <2>2. a \in Anchor
    BY DEF Intact
  <2>3. CASE a \in reached
    BY <2>1, <2>2, <2>3, <1>3 DEF Time, NoTime
  <2>4. CASE a \in Intact(fs) /\ gs[a] = fs[a]
    <3>1. s \in SeenTimes(fs)
      BY <2>1, <2>4 DEF SeenTimes
    <3>2. QED
      BY <3>1
  <2>5. QED
    BY <2>3, <2>4, <1>5
<1>8. MergedTampered(gs) => t
  <2> SUFFICES ASSUME MergedTampered(gs) PROVE t
    OBVIOUS
  <2>1. PICK a \in Intact(gs) : gs[a].tampered
    BY DEF MergedTampered
  <2>2. a \in Anchor
    BY DEF Intact
  <2>3. CASE a \in reached
    BY <2>1, <2>2, <2>3, <1>3
  <2>4. CASE a \in Intact(fs) /\ gs[a] = fs[a]
    BY <2>1, <2>4 DEF MergedTampered
  <2>5. QED
    BY <2>3, <2>4, <1>5
<1>9. Complete(gs, b)
  BY <1>4, <1>6, <1>7, <1>8 DEF Complete
<1>10. QED
  BY <1>2, <1>9 DEF gs

-----------------------------------------------------------------------------
(* One evaluation.                                                         *)

\* What the refresh decides dominates what it read, and is what it read unless it
\* also decides to write.
LEMMA RefreshFacts ==
  ASSUME TypeOK, Kept, NEW licensed \in BOOLEAN
  PROVE  LET start == NewStart(files, clock, licensed)
             seen  == NewSeen(files, clock, licensed)
             t     == NewTampered(files, clock)
         IN /\ start \in Time /\ seen \in Nat /\ t \in BOOLEAN
            /\ \A s \in Starts(files) : start # NoTime /\ start <= s
            /\ \A s \in SeenTimes(files) : s <= seen
            /\ MergedTampered(files) => t
            /\ MergedStart(files) # NoTime => start = MergedStart(files)
            /\ MergedSeen(files) <= seen
            /\ clock < seen + INTERVAL
            /\ ~NeedsWrite(files, clock, licensed) =>
                 /\ start = MergedStart(files) /\ seen = MergedSeen(files)
                 /\ t = MergedTampered(files)
<1> DEFINE start == NewStart(files, clock, licensed)
           seen  == NewSeen(files, clock, licensed)
           t     == NewTampered(files, clock)
<1> USE ClockAssumption
<1>1. /\ MergedStart(files) \in Time /\ MergedSeen(files) \in Time
      /\ \A s \in Starts(files) : MergedStart(files) # NoTime /\ MergedStart(files) <= s
      /\ \A s \in SeenTimes(files) : s <= MergedSeen(files)
  BY MergedFacts
<1>2. clock \in Nat
  BY DEF TypeOK
<1>3. start \in Time /\ (MergedStart(files) # NoTime => start = MergedStart(files))
  BY <1>1, <1>2 DEF NewStart, StartsTrial, Time
<1>4. \A s \in Starts(files) : start # NoTime /\ start <= s
  BY <1>1, <1>3
<1>5. seen \in Nat /\ MergedSeen(files) <= seen /\ clock < seen + INTERVAL
  <2>1. CASE NeedsWrite(files, clock, licensed)
    <3>1. seen = Later(clock, MergedSeen(files))
      BY <2>1 DEF NewSeen
    <3>2. QED
      BY <3>1, <1>1, <1>2 DEF Later, Time, NoTime
  <2>2. CASE ~NeedsWrite(files, clock, licensed)
    <3>1. seen = MergedSeen(files)
      BY <2>2 DEF NewSeen
    <3>2. MergedSeen(files) # NoTime /\ ~(clock - MergedSeen(files) >= INTERVAL)
      BY <2>2 DEF NeedsWrite
    <3>3. QED
      BY <3>1, <3>2, <1>1, <1>2 DEF Time
  <2>3. QED
    BY <2>1, <2>2
<1>6. \A s \in SeenTimes(files) : s <= seen
  <2>1. SeenTimes(files) \subseteq Nat
    BY DEF TypeOK, SeenTimes, Intact, File, Time
  <2>2. MergedSeen(files) \in Int
    BY <1>1 DEF Time, NoTime
  <2>3. QED
    BY <2>1, <2>2, <1>1, <1>5
<1>7. t \in BOOLEAN /\ (MergedTampered(files) => t)
  BY DEF NewTampered, MergedTampered, RolledBack
<1>8. ASSUME ~NeedsWrite(files, clock, licensed)
      PROVE  /\ start = MergedStart(files) /\ seen = MergedSeen(files)
             /\ t = MergedTampered(files)
  <2>1. start = MergedStart(files) /\ seen = MergedSeen(files)
    BY <1>8 DEF NeedsWrite, NewStart, NewSeen
  <2>2. t = MergedTampered(files)
    BY <1>8 DEF NeedsWrite, NewTampered, MergedTampered, RolledBack
  <2>3. QED
    BY <2>1, <2>2
<1>9. QED
  BY <1>3, <1>4, <1>5, <1>6, <1>7, <1>8

\* So after an evaluation the files say exactly what it has worked with.
LEMMA EvaluateFiles ==
  ASSUME TotalLoss = {}, TypeOK, Kept, NEW dbRead \in BOOLEAN, NEW audited \in BOOLEAN,
         NEW reached \in SUBSET Anchor, Evaluate(dbRead, reached, audited),
         NEW licensed \in BOOLEAN,
         licensed = ((IF dbRead THEN record ELSE NoLicence) # NoLicence)
  PROVE  /\ files' \in [Anchor -> File]
         /\ \E a \in Anchor : Complete(files', a)
         /\ MergedStart(files') = NewStart(files, clock, licensed)
         /\ MergedSeen(files') = NewSeen(files, clock, licensed)
         /\ MergedTampered(files') = NewTampered(files, clock)
<1> DEFINE start == NewStart(files, clock, licensed)
           seen  == NewSeen(files, clock, licensed)
           t     == NewTampered(files, clock)
<1>1. /\ start \in Time /\ seen \in Nat /\ t \in BOOLEAN
      /\ \A s \in Starts(files) : start # NoTime /\ start <= s
      /\ \A s \in SeenTimes(files) : s <= seen
      /\ MergedTampered(files) => t
      /\ ~NeedsWrite(files, clock, licensed) =>
           /\ start = MergedStart(files) /\ seen = MergedSeen(files)
           /\ t = MergedTampered(files)
  BY RefreshFacts
<1>2. files \in [Anchor -> File]
  BY DEF TypeOK
<1>3. files' = IF NeedsWrite(files, clock, licensed) \/ audited
               THEN Written(files, reached, start, seen, t) ELSE files
  BY DEF Evaluate
<1>4. CASE NeedsWrite(files, clock, licensed) \/ audited
  <2>1. PICK b \in reached : TRUE
    BY DEF Evaluate
  <2>2. files' = Written(files, reached, start, seen, t)
    BY <1>3, <1>4
  <2> HIDE DEF start, seen, t
  <2>3. seen \in Time
    BY <1>1 DEF Time
  <2>4. files' \in [Anchor -> File] /\ Complete(files', b)
    BY <2>1, <2>2, <2>3, <1>1, <1>2, WrittenComplete
  <2>5. files'[b].start = start /\ files'[b].seen = seen /\ files'[b].tampered = t
    BY <2>1, <2>2 DEF Written
  <2>6. /\ MergedStart(files') = files'[b].start
        /\ MergedSeen(files') = files'[b].seen
        /\ MergedTampered(files') <=> files'[b].tampered
    BY <2>1, <2>4, MergedOfComplete
  <2>7. MergedTampered(files') = t
    BY <2>5, <2>6, <1>1 DEF MergedTampered
  <2>8. QED
    BY <2>1, <2>4, <2>5, <2>6, <2>7 DEF start, seen, t
<1>5. CASE ~(NeedsWrite(files, clock, licensed) \/ audited)
  <2>1. files' = files
    BY <1>3, <1>5
  <2>2. MergedSeen(files) # NoTime
    BY <1>5 DEF NeedsWrite
  <2>3. ~Fresh
    BY <2>2, MergedOfFresh DEF Fresh
  <2>4. \E a \in Anchor : Complete(files, a)
    BY <2>3 DEF Kept
  <2>5. QED
    BY <2>1, <2>4, <1>1, <1>2, <1>5
<1>6. QED
  BY <1>4, <1>5

LEMMA EvaluateSafe ==
  ASSUME TotalLoss = {}, IInv, NEW dbRead \in BOOLEAN, NEW audited \in BOOLEAN,
         NEW reached \in SUBSET Anchor, Evaluate(dbRead, reached, audited)
  PROVE  IInv' /\ TrialBounded' /\ LicenceBounded' /\ (tampered => tampered')
<1> DEFINE read == IF dbRead THEN record ELSE NoLicence
           licensed == read # NoLicence
           start == NewStart(files, clock, licensed)
           seen  == NewSeen(files, clock, licensed)
           t     == NewTampered(files, clock)
           eff   == EffectiveTime(clock, seen, t)
<1> USE ClockAssumption
<1>1. TypeOK /\ Kept /\ licensed \in BOOLEAN
  BY DEF IInv
<1>2. /\ files' \in [Anchor -> File]
      /\ \E a \in Anchor : Complete(files', a)
      /\ MergedStart(files') = start
      /\ MergedSeen(files') = seen
      /\ MergedTampered(files') = t
  BY <1>1, EvaluateFiles
<1>3. /\ start \in Time /\ seen \in Nat /\ t \in BOOLEAN
      /\ MergedTampered(files) => t
      /\ MergedStart(files) # NoTime => start = MergedStart(files)
      /\ MergedSeen(files) <= seen
      /\ clock < seen + INTERVAL
  BY <1>1, RefreshFacts
<1>4. /\ verdict' = IF licensed THEN LicenceStatus(read, eff) ELSE TrialStatus(start, eff)
      /\ tampered' = t /\ judged' = read
      /\ granted' = IF start = NoTime THEN granted ELSE granted \cup {start}
      /\ latest' = Later(clock, latest)
      /\ UNCHANGED <<clock, record, used>>
  BY DEF Evaluate, licence
<1>5. clock \in Nat /\ latest \in Time /\ MergedSeen(files) \in Time
  BY <1>1, MergedFacts DEF TypeOK
<1>6. read \in Licence \cup {NoLicence}
  BY <1>1 DEF TypeOK
<1> HIDE DEF start, seen, t, licensed, read
<1>7. latest' \in Nat /\ latest' < seen + INTERVAL
  <2>1. latest = NoTime \/ latest < MergedSeen(files) + INTERVAL
    BY DEF IInv, HighWater
  <2>2. QED
    BY <2>1, <1>3, <1>4, <1>5 DEF Later, Time, NoTime
<1>8. eff \in Nat /\ latest' < eff + TOLERANCE + INTERVAL
  <2>1. CASE t
    <3>1. eff = Later(clock, seen)
      BY <2>1 DEF EffectiveTime
    <3>2. QED
      BY <3>1, <1>3, <1>5, <1>7 DEF Later
  <2>2. CASE ~t
    <3>1. eff = clock
      BY <2>2 DEF EffectiveTime
    <3>2. MergedSeen(files) = NoTime \/ ~(clock < MergedSeen(files) - TOLERANCE)
      BY <2>2 DEF NewTampered, RolledBack, t
    <3>3. latest = NoTime \/ (MergedSeen(files) # NoTime /\ latest < MergedSeen(files) + INTERVAL)
      BY DEF IInv, HighWater
    <3>4. QED
      BY <3>1, <3>2, <3>3, <1>3, <1>4, <1>5, <1>7 DEF Later, Time, NoTime
  <2>3. QED
    BY <2>1, <2>2
<1>9. granted' = {start} \ {NoTime}
  <2>1. granted = {MergedStart(files)} \ {NoTime}
    BY DEF IInv, StartKept
  <2>2. QED
    BY <2>1, <1>3, <1>4
<1>10. TypeOK'
  <2>1. verdict' \in Verdict
    BY <1>4 DEF Verdict, LicenceStatus, TrialStatus
  <2>2. granted' \in SUBSET Nat
    BY <1>9, <1>3 DEF Time
  <2>3. latest' \in Time
    BY <1>7 DEF Time
  <2>4. QED
    BY <2>1, <2>2, <2>3, <1>1, <1>2, <1>3, <1>4, <1>6 DEF TypeOK
<1>11. Kept' /\ StartKept' /\ TamperKept'
  BY <1>2, <1>4, <1>9 DEF Kept, StartKept, TamperKept
<1>12. HighWater'
  BY <1>2, <1>3, <1>7 DEF HighWater, NoTime
<1>13. TrialBounded'
  <2> SUFFICES ASSUME verdict' = "trial"
               PROVE  \E s \in granted' : latest' < s + TRIAL + TOLERANCE + INTERVAL
    BY DEF TrialBounded
  <2>1. start # NoTime /\ eff < start + TRIAL
    BY <1>4 DEF LicenceStatus, TrialStatus
  <2>2. start \in granted'
    BY <2>1, <1>9
  <2>3. latest' < start + TRIAL + TOLERANCE + INTERVAL
    BY <2>1, <1>3, <1>7, <1>8 DEF Time
  <2>4. QED
    BY <2>2, <2>3
<1>14. LicenceBounded'
  <2> SUFFICES ASSUME verdict' \in {"active", "grace"}
               PROVE  latest' < judged'.expires + GRACE + TOLERANCE + INTERVAL
    BY DEF LicenceBounded
  <2>1. read.expires \in Nat
    BY <1>6, LicenceAssumption DEF NoLicence
  <2>2. eff < read.expires + GRACE
    BY <1>4, <1>8, <2>1 DEF LicenceStatus, TrialStatus
  <2>3. QED
    BY <2>1, <2>2, <1>4, <1>7, <1>8
<1>15. tampered => tampered'
  BY <1>3, <1>4 DEF IInv, TamperKept
<1>16. QED
  BY <1>10, <1>11, <1>12, <1>13, <1>14, <1>15 DEF IInv

-----------------------------------------------------------------------------
(* The environment.                                                        *)

\* An anchor that survives complete is complete for what is left.
LEMMA DamageSafe ==
  ASSUME IInv, TotalLoss = {}, NEW lost \in SUBSET Anchor, NEW kind \in {"bad", "absent"},
         Damage(lost, kind)
  PROVE  /\ IInv' /\ UNCHANGED <<verdict, tampered, judged, granted, latest>>
         /\ MergedStart(files') = MergedStart(files) /\ MergedSeen(files') = MergedSeen(files)
<1>1. PICK a \in Anchor \ lost : Complete(files, a)
  BY DEF Damage
<1>2. files \in [Anchor -> File]
  BY DEF IInv, TypeOK
<1>3. \A b \in Anchor : files'[b] = files[b] \/ files'[b] = Unread(kind)
  BY <1>2 DEF Damage
<1>4. Unread(kind) \in File
  BY DEF Unread, File, Time, NoTime
<1>5. files' \in [Anchor -> File]
  BY <1>2, <1>4 DEF Damage
<1>6. files'[a] = files[a]
  BY <1>1 DEF Damage
<1>7. \A b \in Intact(files') : b \in Intact(files) /\ files'[b] = files[b]
  BY <1>3 DEF Intact, Unread
<1>8. Starts(files') \subseteq Starts(files) /\ SeenTimes(files') \subseteq SeenTimes(files)
  BY <1>7 DEF Starts, SeenTimes
<1>9. MergedTampered(files') => MergedTampered(files)
  BY <1>7 DEF MergedTampered
<1>10. a \in Intact(files')
  BY <1>1, <1>6 DEF Complete, Intact
<1>11. Complete(files', a)
  BY <1>1, <1>6, <1>8, <1>9, <1>10 DEF Complete
<1>12. /\ MergedStart(files') = MergedStart(files)
       /\ MergedSeen(files') = MergedSeen(files)
       /\ MergedTampered(files') <=> MergedTampered(files)
  <2>1. /\ MergedStart(files) = files[a].start /\ MergedSeen(files) = files[a].seen
        /\ MergedTampered(files) <=> files[a].tampered
    BY <1>1, <1>2, MergedOfComplete
  <2>2. /\ MergedStart(files') = files'[a].start /\ MergedSeen(files') = files'[a].seen
        /\ MergedTampered(files') <=> files'[a].tampered
    BY <1>1, <1>5, <1>11, MergedOfComplete
  <2>3. QED
    BY <2>1, <2>2, <1>6
<1>13. UNCHANGED <<clock, record, used, verdict, tampered, judged, granted, latest>>
  BY DEF Damage, licence, outcome
<1>14. TypeOK'
  BY <1>5, <1>13 DEF IInv, TypeOK
<1>15. Kept' /\ StartKept' /\ TamperKept' /\ HighWater'
  BY <1>11, <1>12, <1>13 DEF IInv, Kept, StartKept, TamperKept, HighWater
<1>16. QED
  BY <1>12, <1>13, <1>14, <1>15 DEF IInv

\* A step that leaves the anchors and the outcome alone disturbs nothing.
LEMMA QuietSafe ==
  ASSUME IInv, UNCHANGED <<files, verdict, tampered, judged, granted, latest>>,
         clock' \in 0..MaxTime, record' \in Licence \cup {NoLicence}, used' \in SUBSET Licence
  PROVE  IInv' /\ (TrialBounded => TrialBounded') /\ (LicenceBounded => LicenceBounded')
<1>1. TypeOK'
  BY DEF IInv, TypeOK
<1>2. Kept' /\ StartKept' /\ TamperKept' /\ HighWater'
  BY DEF IInv, Kept, Fresh, StartKept, TamperKept, HighWater
<1>3. (TrialBounded => TrialBounded') /\ (LicenceBounded => LicenceBounded')
  BY DEF TrialBounded, LicenceBounded
<1>4. QED
  BY <1>1, <1>2, <1>3 DEF IInv

-----------------------------------------------------------------------------
(* The invariant and the theorems.                                         *)

Bounded == TrialBounded /\ LicenceBounded

LEMMA InitIInv == Init => IInv /\ Bounded
<1> SUFFICES ASSUME Init PROVE IInv /\ Bounded
  OBVIOUS
<1>1. TypeOK
  <2>1. Unread("absent") \in File
    BY DEF File, Unread, Time, NoTime
  <2>2. files \in [Anchor -> File]
    BY <2>1 DEF Init
  <2>3. clock \in 0..MaxTime /\ latest \in Time
    BY ClockAssumption DEF Init, Time, NoTime
  <2>4. QED
    BY <2>2, <2>3 DEF Init, TypeOK, Verdict
<1>2. Fresh
  BY DEF Init, Fresh, Unread
<1>3. MergedStart(files) = NoTime /\ ~MergedTampered(files)
  BY <1>2, MergedOfFresh DEF Fresh
<1>4. Kept /\ StartKept /\ TamperKept /\ HighWater
  BY <1>2, <1>3 DEF Init, Kept, StartKept, TamperKept, HighWater
<1>5. Bounded
  BY DEF Init, Bounded, TrialBounded, LicenceBounded
<1>6. QED
  BY <1>1, <1>4, <1>5 DEF IInv

LEMMA NextIInv ==
  ASSUME TotalLoss = {}
  PROVE  IInv /\ Bounded /\ [Next]_vars => IInv' /\ Bounded' /\ (tampered => tampered')
<1> SUFFICES ASSUME IInv, Bounded, [Next]_vars
             PROVE  IInv' /\ Bounded' /\ (tampered => tampered')
  OBVIOUS
<1> USE DEF Bounded
<1>1. clock \in 0..MaxTime /\ record \in Licence \cup {NoLicence} /\ used \in SUBSET Licence
  BY DEF IInv, TypeOK
<1>2. CASE \E dbRead, audited \in BOOLEAN, reached \in SUBSET Anchor :
             Evaluate(dbRead, reached, audited)
  BY <1>2, EvaluateSafe
<1>3. CASE \E l \in Licence, currentRead, historyRead, logged \in BOOLEAN :
             Activate(l, currentRead, historyRead, logged)
  <2>1. PICK l \in Licence, currentRead \in BOOLEAN, historyRead \in BOOLEAN, logged \in BOOLEAN :
          Activate(l, currentRead, historyRead, logged)
    BY <1>3
  <2>2. /\ UNCHANGED <<clock, files, verdict, tampered, judged, granted, latest>>
        /\ record' = l /\ used' \in SUBSET Licence
    BY <2>1, <1>1 DEF Activate, outcome
  <2>3. QED
    BY <2>2, <1>1, QuietSafe
<1>4. CASE Tick
  <2>1. clock' \in 0..MaxTime
    BY <1>1, <1>4, ClockAssumption DEF Tick
  <2>2. QED
    BY <1>1, <1>4, <2>1, QuietSafe DEF Tick, licence, outcome
<1>5. CASE \E t \in 0..MaxTime : SetBack(t)
  BY <1>1, <1>5, QuietSafe DEF SetBack, licence, outcome
<1>6. CASE \E lost \in SUBSET Anchor, kind \in {"bad", "absent"} : Damage(lost, kind)
  <2>1. IInv' /\ UNCHANGED <<verdict, tampered, judged, granted, latest>>
    BY <1>6, DamageSafe
  <2>2. QED
    BY <2>1 DEF TrialBounded, LicenceBounded
<1>7. CASE UNCHANGED vars
  BY <1>1, <1>7, QuietSafe DEF vars, licence, outcome
<1>8. QED
  BY <1>2, <1>3, <1>4, <1>5, <1>6, <1>7 DEF Next

\* An installation works with one trial start for ever, as long as its anchors are
\* never all lost (storage.ts 210-287).
THEOREM TrialIsUnique ==
  ASSUME TotalLoss = {}
  PROVE  Spec => []OneTrial
<1>1. IInv => OneTrial
  BY DEF IInv, StartKept, OneTrial
<1>2. QED
  BY <1>1, InitIInv, NextIInv, PTL DEF Spec

\* The state keeps its type.
THEOREM TypeCorrect ==
  ASSUME TotalLoss = {}
  PROVE  Spec => []TypeOK
<1>1. IInv => TypeOK
  BY DEF IInv
<1>2. QED
  BY <1>1, InitIInv, NextIInv, PTL DEF Spec

\* Setting the clock back gains a trial or a licence less than the tolerance plus the
\* write throttle (trial.ts 19-31, storage.ts 239-257).
THEOREM RollbackGainsLittle ==
  ASSUME TotalLoss = {}
  PROVE  Spec => [](TrialBounded /\ LicenceBounded)
<1>1. Bounded => TrialBounded /\ LicenceBounded
  BY DEF Bounded
<1>2. QED
  BY <1>1, InitIInv, NextIInv, PTL DEF Spec

\* A licence is not reported in force later than its end, its grace, the tolerance and
\* the throttle together, however the clock is set back (validator.ts 167-188).
THEOREM LicenceEnds ==
  ASSUME TotalLoss = {}
  PROVE  Spec => []LicenceBounded
<1>1. TrialBounded /\ LicenceBounded => LicenceBounded
  OBVIOUS
<1>2. QED
  BY <1>1, RollbackGainsLittle, PTL

-----------------------------------------------------------------------------
(* The ledger.                                                             *)

\* An evaluation is an entry in the ledger.
LEMMA EvaluateObserves ==
  ASSUME TotalLoss = {}, IInv, NEW dbRead \in BOOLEAN, NEW audited \in BOOLEAN,
         NEW reached \in SUBSET Anchor, Evaluate(dbRead, reached, audited)
  PROVE  Ledger!Observe
<1> DEFINE licensed == (IF dbRead THEN record ELSE NoLicence) # NoLicence
           start == NewStart(files, clock, licensed)
           seen  == NewSeen(files, clock, licensed)
           old   == MergedSeen(files)
<1> USE ClockAssumption
<1>1. TypeOK /\ Kept /\ licensed \in BOOLEAN /\ (tampered <=> MergedTampered(files))
  BY DEF IInv, TamperKept
<1>2. MergedStart(files)' = start /\ MergedSeen(files)' = seen
  BY <1>1, EvaluateFiles
<1>3. clock \in Nat /\ old \in Time /\ tampered \in BOOLEAN
  BY <1>1, MergedFacts DEF TypeOK
<1>4. clock' = clock /\ tampered' = (MergedTampered(files) \/ RolledBack(clock, old))
  BY DEF Evaluate, NewTampered
<1>5. tampered' = (tampered \/ Ledger!WentBack)
  <2>1. Ledger!WentBack <=> RolledBack(clock, old)
    BY DEF Ledger!WentBack, RolledBack
  <2> QED BY <1>1, <1>3, <1>4, <2>1, Zenon DEF TypeOK
<1> HIDE DEF licensed
<1>6. start = MergedStart(files) \/ (StartsTrial(files, clock, licensed) /\ start = clock)
  BY DEF NewStart
<1>7. ASSUME StartsTrial(files, clock, licensed)
      PROVE  NeedsWrite(files, clock, licensed) /\ Ledger!BeginTrial
  <2>1. NeedsWrite(files, clock, licensed)
    BY <1>7 DEF NeedsWrite
  <2>2. start = clock
    BY <1>7 DEF NewStart
  <2>3. /\ MergedStart(files) = NoTime /\ ~MergedTampered(files)
        /\ ~RolledBack(clock, old)
    BY <1>7 DEF StartsTrial
  <2> QED BY <1>1, <1>2, <2>1, <2>2, <2>3 DEF Ledger!BeginTrial, Ledger!WentBack, RolledBack
<1>8. CASE NeedsWrite(files, clock, licensed)
  <2>1. seen = IF old < clock THEN clock ELSE old
    BY <1>3, <1>8 DEF NewSeen, Later, Time, NoTime
  <2>2. Ledger!Mark
    BY <1>2, <2>1 DEF Ledger!Mark
  <2>3. Ledger!BeginTrial \/ MergedStart(files)' = MergedStart(files)
    BY <1>2, <1>6, <1>7
  <2> QED BY <1>4, <1>5, <2>2, <2>3 DEF Ledger!Observe
<1>9. CASE ~NeedsWrite(files, clock, licensed)
  <2>1. start = MergedStart(files) /\ seen = old
    BY <1>6, <1>7, <1>9 DEF NewSeen
  <2>2. old # NoTime /\ old <= clock /\ clock < old + INTERVAL
    BY <1>3, <1>9 DEF NeedsWrite, Time, NoTime
  <2>3. old # NoTime /\ Ledger!Leave
    BY <1>2, <2>1, <2>2 DEF Ledger!Leave
  <2> QED BY <1>4, <1>5, <2>3 DEF Ledger!Observe
<1> QED BY <1>8, <1>9

\* Every other step leaves the ledger alone: what is lost is lost without a trace.
LEMMA LedgerStep ==
  ASSUME TotalLoss = {}, IInv, Bounded, [Next]_vars
  PROVE  [Ledger!Next]_(Ledger!vars)
<1>1. ASSUME UNCHANGED <<MergedStart(files), MergedSeen(files), tampered>> PROVE Ledger!Next
  BY <1>1 DEF Ledger!Next, Ledger!MoveClock, Ledger!ledger
<1>2. ASSUME UNCHANGED <<files, tampered>> PROVE Ledger!Next
  BY <1>1, <1>2
<1>3. CASE \E dbRead, audited \in BOOLEAN, reached \in SUBSET Anchor :
             Evaluate(dbRead, reached, audited)
  BY <1>3, EvaluateObserves DEF Ledger!Next
<1>4. CASE \E l \in Licence, currentRead, historyRead, logged \in BOOLEAN :
             Activate(l, currentRead, historyRead, logged)
  BY <1>2, <1>4 DEF Activate, outcome
<1>5. CASE Tick \/ \E t \in 0..MaxTime : SetBack(t)
  BY <1>2, <1>5 DEF Tick, SetBack, outcome
<1>6. CASE \E lost \in SUBSET Anchor, kind \in {"bad", "absent"} : Damage(lost, kind)
  <2>1. UNCHANGED <<MergedStart(files), MergedSeen(files), tampered>>
    BY <1>6, DamageSafe
  <2> QED BY <1>1, <2>1
<1>7. CASE UNCHANGED vars
  BY <1>2, <1>7 DEF vars, outcome
<1> QED BY <1>3, <1>4, <1>5, <1>6, <1>7 DEF Next

\* The anchors implement the ledger: whichever of them are lost, left behind or
\* repaired, as long as one intact anchor knows everything (storage.ts 13-14, 104-111).
THEOREM AnchorsKeepLedger ==
  ASSUME TotalLoss = {}
  PROVE  Spec => KeepsLedger
<1>1. Init => Ledger!Init
  <2> SUFFICES ASSUME Init PROVE Ledger!Init
    OBVIOUS
  <2>1. \A a \in Anchor : files[a].kind = "absent"
    BY DEF Init, Unread
  <2> QED BY <2>1, MergedOfFresh DEF Init, Ledger!Init
<1>2. IInv /\ Bounded /\ [Next]_vars => [Ledger!Next]_(Ledger!vars)
  BY LedgerStep
<1> QED BY <1>1, <1>2, InitIInv, NextIInv, PTL DEF Spec, KeepsLedger, Ledger!Spec

\* The high-water mark never falls and a trial once begun keeps its start, whatever is
\* read back from the anchors (storage.ts 135-141, 239-245).
THEOREM MarkNeverFalls ==
  ASSUME TotalLoss = {}
  PROVE  Spec => [][/\ MergedSeen(files) <= MergedSeen(files)'
                    /\ MergedStart(files) # NoTime => UNCHANGED MergedStart(files)]_vars
<1>1. ASSUME IInv, Bounded, [Next]_vars
      PROVE  /\ MergedSeen(files) <= MergedSeen(files)'
             /\ MergedStart(files) # NoTime => UNCHANGED MergedStart(files)
  <2>1. clock \in Nat /\ MergedSeen(files) \in Int
    BY <1>1, MergedFacts DEF IInv, TypeOK, Time, NoTime
  <2>2. [Ledger!Next]_(Ledger!vars)
    BY <1>1, LedgerStep
  <2> QED BY <2>1, <2>2 DEF Ledger!Next, Ledger!Observe, Ledger!Mark, Ledger!Leave,
            Ledger!BeginTrial, Ledger!MoveClock, Ledger!vars, Ledger!ledger
<1>2. IInv /\ Bounded /\ [Next]_vars
        => [/\ MergedSeen(files) <= MergedSeen(files)'
            /\ MergedStart(files) # NoTime => UNCHANGED MergedStart(files)]_vars
  BY <1>1
<1> QED BY <1>2, InitIInv, NextIInv, PTL DEF Spec

\* A detected rollback stays detected whatever anchor is lost (storage.ts 141).
THEOREM TamperIsSticky ==
  ASSUME TotalLoss = {}
  PROVE  Spec => [][tampered => tampered']_vars
<1>1. IInv /\ Bounded /\ [Next]_vars => [tampered => tampered']_vars
  BY NextIInv
<1> QED BY <1>1, InitIInv, NextIInv, PTL DEF Spec

=============================================================================
