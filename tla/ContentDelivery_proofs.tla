----------------------- MODULE ContentDelivery_proofs -----------------------
(***************************************************************************)
(* Proofs about ContentDelivery, for every set of themes, rows, requests   *)
(* and fetches and any number of operations and faults.                    *)
(***************************************************************************)
EXTENDS ContentDelivery, FiniteSetTheorems, WellFoundedInduction, TLAPS

-----------------------------------------------------------------------------
(* The inductive invariant: themes, rows and directories.                  *)

\* What a request holds, by the step it has reached.
Named ==
  \A r \in Request :
    /\ req[r].stage \notin {"idle", "apply", "notify"} => req[r].theme \in Theme
    /\ req[r].stage \in {"create", "load", "remove", "drop"} => req[r].dir \in Dir

\* A directory being written is whole and belongs to one request and no row.
Fresh ==
  \A r \in Request : req[r].stage = "create" =>
    /\ dirs[req[r].dir] = "whole"
    /\ \A t \in DOMAIN themes : themes[t].dir # req[r].dir
    /\ \A q \in Request : req[q].stage = "create" /\ req[q].dir = req[r].dir => q = r

\* A directory being removed was a row's: no other row and no new theme has it.
Doomed ==
  \A r \in Request : req[r].stage \in {"remove", "drop"} =>
    /\ dirs[req[r].dir] # "unused"
    /\ req[r].stage = "drop" => dirs[req[r].dir] = "gone" \/ req[r].dir \in strays
    /\ \A t \in DOMAIN themes : themes[t].dir = req[r].dir => t = req[r].theme
    /\ \A q \in Request : req[q].stage = "create" => req[q].dir # req[r].dir

Placed == \A t \in DOMAIN themes : dirs[themes[t].dir] # "unused"

\* An activation that has read a row still in the table.
Reading ==
  \A r \in Request : req[r].stage \in {"load", "apply"} /\ ~req[r].stale =>
    req[r].theme \in DOMAIN themes \cup {Default}

ThemeInv == Named /\ Fresh /\ Doomed /\ Placed /\ Reading /\ DirsMatchRows /\ ActiveIsInstalled

-----------------------------------------------------------------------------
(* The inductive invariant: what the stamps and bundles say of the store.  *)

\* Every row of a table is a row of the snapshot S or newer than all of S.
Grown(tab, S) ==
  \A x \in DOMAIN tab : \/ x \in DOMAIN S /\ tab[x] = S[x]
                        \/ \A y \in DOMAIN S : S[y] < tab[x]

Dated == /\ settings.at <= clock
         /\ \A x \in DOMAIN rows : rows[x] <= clock
         /\ \A t \in DOMAIN themes : themes[t].at <= clock

\* A snapshot is of the past.
SeenPast(s) ==
  /\ s.changed <= settings.at
  /\ s.licence = 3 \/ s.licence <= licence
  /\ \A x \in DOMAIN s.rows : s.rows[x] <= clock
  /\ \A t \in DOMAIN s.themes : s.themes[t] <= clock
  /\ Grown(rows, s.rows)
  /\ Grown(ThemeTimes, s.themes)

\* A row of the snapshot that is still there was read ...
RowsRead(s, b) ==
  /\ s.changed <= b.changed /\ b.changed <= settings.at
  /\ DOMAIN b.rows \subseteq DOMAIN s.rows
  /\ \A x \in DOMAIN s.rows \cap DOMAIN rows : rows[x] = s.rows[x] =>
       x \in DOMAIN b.rows /\ b.rows[x] = s.rows[x]

LicenceRead(s, b) == b.licence <= licence /\ (s.licence = 3 \/ s.licence <= b.licence)

\* ... and so was the theme, if the settings and its row are those of the snapshot.
ThemeRead(s, b) ==
  settings.at = s.changed =>
    /\ b.theme \in {settings.active, Default}
    /\ b.theme \in DOMAIN s.themes \cup {Default}
    /\ settings.active \in DOMAIN themes \cap DOMAIN s.themes =>
         \/ b.theme = settings.active
         \/ themes[settings.active].at # s.themes[settings.active]
         \/ dirs[themes[settings.active].dir] # "whole"

CopyTrue(c) == SeenPast(c.seen) /\ (c.whole =>
  RowsRead(c.seen, c.bundle) /\ LicenceRead(c.seen, c.bundle) /\ ThemeRead(c.seen, c.bundle))

FetchTrue(x) ==
  /\ SeenPast(x.seen)
  /\ x.stage \in {"active", "theme", "full"} /\ x.whole => RowsRead(x.seen, x.read)
  /\ x.stage \in {"theme", "full"} /\ x.whole => LicenceRead(x.seen, x.read)
  /\ x.stage = "theme" /\ settings.at = x.seen.changed => x.read.theme = settings.active
  /\ x.stage = "full" /\ x.whole => ThemeRead(x.seen, x.read)

ScreenInv == Dated /\ CopyTrue(held) /\ \A f \in Fetch : FetchTrue(fetch[f])

IInv == TypeOK /\ ThemeInv /\ ScreenInv

-----------------------------------------------------------------------------
(* Finite sets of numbers have a latest element; COUNT and MAX tell whether *)
(* a table is the snapshot.                                                 *)

LEMMA LatestIs ==
  ASSUME NEW T, T \subseteq Nat, T # {}, NEW c \in Nat, \A t \in T : t <= c
  PROVE  Latest(T) \in T /\ \A t \in T : t <= Latest(T)
<1> DEFINE D == {c - t : t \in T}
<1>1. D \subseteq Nat /\ D # {}
  <2>1. ASSUME NEW t \in T PROVE c - t \in Nat
    <3>1. t \in Nat /\ t <= c
      OBVIOUS
    <3> QED BY <3>1
  <2> QED BY <2>1
<1>2. PICK x \in D : \A y \in D : ~(<<y, x>> \in OpToRel(<, Nat))
  BY <1>1, NatLessThanWellFounded, WFMin
<1>3. \A y \in D : ~(y < x)
  BY <1>1, <1>2 DEF OpToRel
<1>4. PICK m \in T : x = c - m
  OBVIOUS
<1>5. \A t \in T : t <= m
  <2> TAKE t \in T
  <2>1. ~(c - t < c - m)
    BY <1>3, <1>4
  <2> QED BY <2>1
<1> QED BY <1>5 DEF Latest

LEMMA LatestOf ==
  ASSUME NEW f, f \in [DOMAIN f -> Nat], DOMAIN f # {},
         NEW c \in Nat, \A x \in DOMAIN f : f[x] <= c
  PROVE  LET m == Latest({f[x] : x \in DOMAIN f})
         IN  m \in Nat /\ (\E x \in DOMAIN f : f[x] = m) /\ \A x \in DOMAIN f : f[x] <= m
<1> DEFINE T == {f[x] : x \in DOMAIN f}
<1>1. T \subseteq Nat /\ T # {} /\ \A t \in T : t <= c
  OBVIOUS
<1>2. Latest(T) \in T /\ \A t \in T : t <= Latest(T)
  BY <1>1, LatestIs
<1> QED BY <1>1, <1>2

LEMMA SameSummary ==
  ASSUME NEW K, IsFiniteSet(K), NEW c \in Nat,
         NEW tab, IsTable(tab, K, Nat), \A x \in DOMAIN tab : tab[x] <= c,
         NEW S, IsTable(S, K, Nat), \A x \in DOMAIN S : S[x] <= c,
         Grown(tab, S), Summary(tab) = Summary(S)
  PROVE  tab = S
<1>1. /\ tab \in [DOMAIN tab -> Nat] /\ DOMAIN tab \subseteq K
      /\ S \in [DOMAIN S -> Nat] /\ DOMAIN S \subseteq K
  BY DEF IsTable
<1>2. Cardinality(DOMAIN tab) = Cardinality(DOMAIN S)
  BY DEF Summary
<1>3. IsFiniteSet(DOMAIN tab) /\ IsFiniteSet(DOMAIN S)
  BY <1>1, FS_Subset
<1>4. CASE DOMAIN tab = {}
  <2>1. DOMAIN S = {}
    BY <1>2, <1>3, <1>4, FS_EmptySet
  <2> QED BY <1>1, <1>4, <2>1
<1>5. CASE DOMAIN tab # {}
  <2>1. DOMAIN S # {}
    BY <1>2, <1>3, <1>5, FS_EmptySet
  <2> DEFINE m == Latest({tab[x] : x \in DOMAIN tab})
             n == Latest({S[x] : x \in DOMAIN S})
  <2>2. m = n
    BY <1>5, <2>1 DEF Summary
  <2>3. m \in Nat /\ \A x \in DOMAIN tab : tab[x] <= m
    BY <1>1, <1>5, LatestOf
  <2>4. PICK y \in DOMAIN S : S[y] = n
    BY <1>1, <2>1, LatestOf
  <2> HIDE DEF m, n
  <2>5. \A x \in DOMAIN tab : x \in DOMAIN S /\ tab[x] = S[x]
    <3> TAKE x \in DOMAIN tab
    <3>1. tab[x] \in Nat /\ tab[x] <= S[y]
      BY <1>1, <2>2, <2>3, <2>4
    <3>2. ~(S[y] < tab[x])
      BY <1>1, <3>1
    <3> QED BY <3>2 DEF Grown
  <2>6. DOMAIN tab = DOMAIN S
    BY <1>2, <1>3, <2>5, FS_Subset
  <2> QED BY <1>1, <2>5, <2>6
<1> QED BY <1>4, <1>5
-----------------------------------------------------------------------------
(* Types. *)

LEMMA PutTable ==
  ASSUME NEW f, NEW S, NEW V, IsTable(f, S, V), NEW k \in S, NEW v \in V
  PROVE  IsTable(Put(f, k, v), S, V)
BY DEF IsTable, Put

LEMMA WithoutTable ==
  ASSUME NEW f, NEW S, NEW V, IsTable(f, S, V), NEW k
  PROVE  IsTable(Without(f, k), S, V)
BY DEF IsTable, Without

LEMMA NothingTyped == IsSeen(NoSeen) /\ IsBundle(NoBundle) /\ IsCopy(NoCopy) /\ IsFetch(Quiet)
<1>1. \A S : IsTable(NoRows, S, Nat)
  BY DEF IsTable, NoRows
<1>2. IsSeen(NoSeen) /\ IsBundle(NoBundle)
  BY <1>1 DEF IsSeen, IsBundle, NoSeen, NoBundle
<1>3. IsCopy(NoCopy)
  BY <1>2 DEF IsCopy, NoCopy, Copy
<1> QED BY <1>2, <1>3 DEF IsFetch, Quiet, FetchStage

LEMMA NowTyped ==
  ASSUME StoreType
  PROVE  /\ IsTable(ThemeTimes, Theme, Nat) /\ IsSeen(Now) /\ IsBundle(Bundle)
         /\ \A t \in Theme \cup {Default} : Resolve(t) \in Theme \cup {Default}
<1>1. IsTable(ThemeTimes, Theme, Nat)
  BY DEF StoreType, IsTable, ThemeTimes
<1>2. \A t \in Theme \cup {Default} : Resolve(t) \in Theme \cup {Default}
  BY DEF Resolve
<1>3. licence \in 0..3 /\ settings.active \in Theme \cup {Default} /\ settings.at \in Nat
      /\ IsTable(rows, RowId, Nat)
  BY DEF StoreType
<1>4. IsSeen(Now)
  BY <1>1, <1>3 DEF IsSeen, Now
<1>5. IsBundle(Bundle)
  BY <1>2, <1>3 DEF IsBundle, Bundle
<1> QED BY <1>1, <1>2, <1>4, <1>5

LEMMA InitTypes == ASSUME Init PROVE TypeOK
<1>1. StoreType
  BY DEF Init, StoreType, IsTable
<1>2. IsCopy(held) /\ IsCopy(shown)
  BY <1>1, NowTyped DEF Init, IsCopy, Copy
<1>3. ScreenType
  BY <1>2, NothingTyped DEF Init, ScreenType
<1>4. ReqType
  BY DEF Init, ReqType, Idle, Stage
<1>5. CountType
  <2>1. /\ missed = FALSE /\ unsaid = FALSE /\ strays = {} /\ adrift = FALSE
        /\ submits = 0 /\ faults = 0
    BY DEF Init
  <2>2. 0 \in 0..MaxOps /\ 0 \in 0..MaxFaults
    BY BoundAssumption
  <2> QED BY <2>1, <2>2 DEF CountType
<1> QED BY <1>1, <1>3, <1>4, <1>5 DEF TypeOK

\* The steps that leave the store alone.
Silent(r) == \/ Submit(r) \/ Check(r) \/ Lookup(r) \/ Load(r) \/ Find(r) \/ Revert(r) \/ Fails(r)
             \/ Notify(r) \/ LoseNotice(r)
Silence   == (\E f \in Fetch : FetchStep(f)) \/ Online \/ Reload \/ Crash

LEMMA SilentFrame ==
  ASSUME (\E r \in Request : Silent(r)) \/ Silence PROVE UNCHANGED <<clock, store, licence>>
<1>1. ASSUME NEW r \in Request, Silent(r) PROVE UNCHANGED <<clock, store, licence>>
  <2>1. CASE Submit(r) BY <2>1 DEF Submit
  <2>2. CASE Check(r) BY <2>2 DEF Check
  <2>3. CASE Lookup(r) BY <2>3 DEF Lookup
  <2>4. CASE Load(r) BY <2>4 DEF Load
  <2>5. CASE Find(r) BY <2>5 DEF Find
  <2>6. CASE Revert(r) BY <2>6 DEF Revert
  <2>7. CASE Fails(r) BY <2>7 DEF Fails
  <2>8. CASE Notify(r) BY <2>8 DEF Notify
  <2>9. CASE LoseNotice(r) BY <2>9 DEF LoseNotice
  <2> QED BY <1>1, <2>1, <2>2, <2>3, <2>4, <2>5, <2>6, <2>7, <2>8, <2>9 DEF Silent
<1>2. ASSUME NEW f \in Fetch, FetchStep(f) PROVE UNCHANGED <<clock, store, licence>>
  <2>1. CASE StampLicence(f) BY <2>1 DEF StampLicence
  <2>8. CASE StampThemes(f) BY <2>8 DEF StampThemes
  <2>2. CASE StampTables(f) BY <2>2 DEF StampTables
  <2>3. CASE ReadRows(f) BY <2>3 DEF ReadRows
  <2>4. CASE ReadActive(f) BY <2>4 DEF ReadActive
  <2>5. CASE ReadTheme(f) BY <2>5 DEF ReadTheme
  <2>6. CASE Answer(f) BY <2>6 DEF Answer
  <2>7. CASE FetchFails(f) BY <2>7 DEF FetchFails
  <2> QED BY <1>2, <2>1, <2>2, <2>3, <2>4, <2>5, <2>6, <2>7, <2>8 DEF FetchStep
<1>3. CASE Online BY <1>3 DEF Online
<1>4. CASE Reload BY <1>4 DEF Reload
<1>5. CASE Crash BY <1>5 DEF Crash
<1> QED BY <1>1, <1>2, <1>3, <1>4, <1>5 DEF Silence

\* The steps of Next, those that change the store one by one.
LEMMA Steps ==
  ASSUME Next
  PROVE  \/ \E r \in Request : \/ Silent(r) \/ Write(r) \/ Create(r) \/ Apply(r) \/ Remove(r)
                                \/ Drop(r) \/ WriteRow(r) \/ DeleteRow(r) \/ Renew(r)
         \/ Silence \/ Lapse
BY DEF Next, ThemeStep, RowStep, Silent, Silence

LEMMA StoreStep == ASSUME TypeOK, Named, Next PROVE StoreType'
<1> USE DEF TypeOK, StoreType
<1>1. ASSUME NEW r \in Request, Write(r) PROVE StoreType'
  BY <1>1 DEF Write, FreeDirs
<1>2. ASSUME NEW r \in Request, Create(r) PROVE StoreType'
  <2>1. req[r].theme \in Theme /\ req[r].dir \in Dir
    BY <1>2 DEF Create, Named
  <2>2. clock + 1 \in Nat /\ [dir |-> req[r].dir, at |-> clock + 1] \in [dir : Dir, at : Nat]
    BY <2>1
  <2>3. IsTable(Put(themes, req[r].theme, [dir |-> req[r].dir, at |-> clock + 1]),
                Theme, [dir : Dir, at : Nat])
    BY <2>1, <2>2, PutTable
  <2> QED BY <1>2, <2>3 DEF Create
<1>3. ASSUME NEW r \in Request, Apply(r) PROVE StoreType'
  BY <1>3 DEF Apply, Target, ReqType
<1>4. ASSUME NEW r \in Request, Remove(r) PROVE StoreType'
  BY <1>4 DEF Remove, Goto
<1>5. ASSUME NEW r \in Request, Drop(r) PROVE StoreType'
  BY <1>5, WithoutTable DEF Drop
<1>6. ASSUME NEW r \in Request, WriteRow(r) \/ DeleteRow(r) PROVE StoreType'
  BY <1>6, PutTable, WithoutTable DEF WriteRow, DeleteRow
<1>7. ASSUME NEW r \in Request, Renew(r) PROVE StoreType'
  BY <1>7 DEF Renew, store
<1>8. CASE Lapse
  BY <1>8 DEF Lapse, store
<1>9. ASSUME UNCHANGED <<clock, store, licence>> PROVE StoreType'
  BY <1>9 DEF store
<1> QED BY <1>1, <1>2, <1>3, <1>4, <1>5, <1>6, <1>7, <1>8, <1>9, Steps, SilentFrame

LEMMA SendTyped ==
  ASSUME ScreenType, NEW f \in Fetch, NEW A \in SUBSET Fetch
  PROVE  IsFetch([Quiet EXCEPT !.stage = "stamp", !.base = held, !.after = A])
<1>1. IsFetch(Quiet) /\ IsCopy(held)
  BY NothingTyped DEF ScreenType
<1> QED BY <1>1 DEF IsFetch, FetchStage, Quiet

LEMMA SettledTyped ==
  ASSUME ScreenType, NEW f \in Fetch
  PROVE  \A g \in Fetch : IsFetch(Settled(f)[g])
<1> TAKE g \in Fetch
<1>1. CASE g = f
  BY <1>1, NothingTyped DEF Settled
<1>2. CASE g # f
  <2>1. IsFetch(fetch[g]) /\ fetch[f].after \subseteq Fetch
    BY DEF ScreenType, IsFetch
  <2>2. Settled(f)[g] = [fetch[g] EXCEPT !.after = @ \ {f}, !.late = @ \/ g \in fetch[f].after]
    BY <1>2 DEF Settled
  <2>3. (fetch[g].late \/ g \in fetch[f].after) \in BOOLEAN
    OBVIOUS
  <2> QED BY <2>1, <2>2, <2>3 DEF IsFetch
<1> QED BY <1>1, <1>2

LEMMA FetchSet ==
  ASSUME ScreenType, NEW f \in Fetch, NEW x, IsFetch(x),
         fetch' = [fetch EXCEPT ![f] = x], UNCHANGED <<held, shown>>
  PROVE  ScreenType'
BY DEF ScreenType

LEMMA FetchChange ==
  ASSUME NEW x, IsFetch(x), NEW st \in FetchStage, NEW s, IsSeen(s), NEW b, IsBundle(b),
         NEW w \in BOOLEAN
  PROVE  /\ IsFetch([x EXCEPT !.stage = st, !.seen = s])
         /\ IsFetch([x EXCEPT !.stage = st, !.read = b])
         /\ IsFetch([x EXCEPT !.stage = st, !.read = b, !.whole = w])
<1>1. /\ x \in [stage : FetchStage, base : {x.base}, seen : {x.seen}, read : {x.read},
               whole : BOOLEAN, after : SUBSET Fetch, late : BOOLEAN]
      /\ IsCopy(x.base) /\ IsSeen(x.seen) /\ IsBundle(x.read)
  BY DEF IsFetch
<1>2. IsFetch([x EXCEPT !.stage = st, !.seen = s])
  <2> DEFINE y == [x EXCEPT !.stage = st, !.seen = s]
  <2>1. y.base = x.base /\ y.seen = s /\ y.read = x.read
    BY <1>1
  <2>2. y \in [stage : FetchStage, base : {x.base}, seen : {s}, read : {x.read},
              whole : BOOLEAN, after : SUBSET Fetch, late : BOOLEAN]
    BY <1>1
  <2> HIDE DEF y
  <2> QED BY <1>1, <2>1, <2>2 DEF IsFetch
<1>3. IsFetch([x EXCEPT !.stage = st, !.read = b, !.whole = w])
  <2> DEFINE y == [x EXCEPT !.stage = st, !.read = b, !.whole = w]
  <2>1. y.base = x.base /\ y.seen = x.seen /\ y.read = b
    BY <1>1
  <2>2. y \in [stage : FetchStage, base : {x.base}, seen : {x.seen}, read : {b},
              whole : BOOLEAN, after : SUBSET Fetch, late : BOOLEAN]
    BY <1>1
  <2> HIDE DEF y
  <2> QED BY <1>1, <2>1, <2>2 DEF IsFetch
<1>4. IsFetch([x EXCEPT !.stage = st, !.read = b])
  <2> DEFINE y == [x EXCEPT !.stage = st, !.read = b]
  <2>1. y.base = x.base /\ y.seen = x.seen /\ y.read = b
    BY <1>1
  <2>2. y \in [stage : FetchStage, base : {x.base}, seen : {x.seen}, read : {b},
              whole : BOOLEAN, after : SUBSET Fetch, late : BOOLEAN]
    BY <1>1
  <2> HIDE DEF y
  <2> QED BY <1>1, <2>1, <2>2 DEF IsFetch
<1> QED BY <1>2, <1>3, <1>4

LEMMA ReadingChange ==
  ASSUME NEW s, IsSeen(s), NEW b, IsBundle(b), NEW n \in Nat, NEW tab, IsTable(tab, RowId, Nat)
  PROVE  /\ IsSeen([s EXCEPT !.changed = n, !.rows = tab])
         /\ IsBundle([b EXCEPT !.changed = n, !.rows = tab])
<1>1. /\ s \in [licence : 0..3, active : Theme \cup {Default}, tallied : BOOLEAN,
                themes : {s.themes}, changed : Nat, rows : {s.rows}]
      /\ IsTable(s.themes, Theme, Nat)
  BY DEF IsSeen
<1>2. b \in [licence : 0..3, theme : Theme \cup {Default}, changed : Nat, rows : {b.rows}]
  BY DEF IsBundle
<1>3. IsSeen([s EXCEPT !.changed = n, !.rows = tab])
  <2> DEFINE y == [s EXCEPT !.changed = n, !.rows = tab]
  <2>1. y.themes = s.themes /\ y.rows = tab
    BY <1>1
  <2>2. y \in [licence : 0..3, active : Theme \cup {Default}, tallied : BOOLEAN,
              themes : {s.themes}, changed : Nat, rows : {tab}]
    BY <1>1
  <2> HIDE DEF y
  <2> QED BY <1>1, <2>1, <2>2 DEF IsSeen
<1>4. IsBundle([b EXCEPT !.changed = n, !.rows = tab])
  BY <1>2 DEF IsBundle
<1> QED BY <1>3, <1>4

LEMMA TalliedTyped ==
  ASSUME NEW s, IsSeen(s), NEW a \in Theme \cup {Default}, NEW r \in BOOLEAN,
         NEW tab, IsTable(tab, Theme, Nat)
  PROVE  IsSeen([s EXCEPT !.active = a, !.tallied = r, !.themes = tab])
<1>1. /\ s \in [licence : 0..3, active : Theme \cup {Default}, tallied : BOOLEAN,
                themes : {s.themes}, changed : Nat, rows : {s.rows}]
      /\ IsTable(s.rows, RowId, Nat)
  BY DEF IsSeen
<1> DEFINE y == [s EXCEPT !.active = a, !.tallied = r, !.themes = tab]
<1>2. y.themes = tab /\ y.rows = s.rows
  BY <1>1
<1>3. y \in [licence : 0..3, active : Theme \cup {Default}, tallied : BOOLEAN,
            themes : {tab}, changed : Nat, rows : {s.rows}]
  BY <1>1
<1> HIDE DEF y
<1>4. IsSeen(y)
  BY <1>1, <1>2, <1>3 DEF IsSeen
<1> QED BY <1>4 DEF y

LEMMA ScreenStep == ASSUME TypeOK, Named, Next PROVE ScreenType'
<1> USE DEF TypeOK
<1>0. \A f \in Fetch : IsFetch(fetch[f])
  BY DEF ScreenType
<1>1. ASSUME NEW f \in Fetch, Send(f), UNCHANGED <<held, shown>> PROVE ScreenType'
  <2>1. Flying \subseteq Fetch
    BY DEF Flying
  <2> QED BY <1>1, <2>1, SendTyped, FetchSet DEF Send
<1>2. ASSUME NEW f \in Fetch, StampLicence(f) PROVE ScreenType'
  <2>1. PICK l \in {licence, 3} : fetch' = [fetch EXCEPT ![f] =
          [fetch[f] EXCEPT !.stage = "tally", !.seen = [NoSeen EXCEPT !.licence = l]]]
    BY <1>2 DEF StampLicence
  <2>2. l \in 0..3
    BY DEF StoreType
  <2>3. IsSeen([NoSeen EXCEPT !.licence = l])
    BY <2>2, NothingTyped DEF IsSeen, NoSeen
  <2>4. IsFetch([fetch[f] EXCEPT !.stage = "tally", !.seen = [NoSeen EXCEPT !.licence = l]])
    BY <1>0, <2>3, NothingTyped, FetchChange DEF FetchStage
  <2> QED BY <1>2, <2>1, <2>4, FetchSet DEF StampLicence
<1>18. ASSUME NEW f \in Fetch, StampThemes(f) PROVE ScreenType'
  <2>1. PICK read \in BOOLEAN : fetch' = [fetch EXCEPT ![f] =
          [fetch[f] EXCEPT !.stage = "count",
             !.seen = [fetch[f].seen EXCEPT !.active = settings.active, !.tallied = read,
                                            !.themes = ThemeTimes]]]
    BY <1>18 DEF StampThemes
  <2> DEFINE s == [fetch[f].seen EXCEPT !.active = settings.active, !.tallied = read,
                                        !.themes = ThemeTimes]
  <2>2. settings.active \in Theme \cup {Default} /\ IsTable(ThemeTimes, Theme, Nat)
    BY NowTyped DEF StoreType
  <2>3. IsSeen(fetch[f].seen)
    BY <1>0 DEF IsFetch
  <2>4. IsSeen(s)
    BY <2>2, <2>3, TalliedTyped
  <2> HIDE DEF s
  <2>5. IsFetch([fetch[f] EXCEPT !.stage = "count", !.seen = s])
    BY <1>0, <2>4, NothingTyped, FetchChange DEF FetchStage
  <2>6. fetch' = [fetch EXCEPT ![f] = [fetch[f] EXCEPT !.stage = "count", !.seen = s]]
    BY <2>1 DEF s
  <2> QED BY <1>18, <2>5, <2>6, FetchSet DEF StampThemes
<1>3. ASSUME NEW f \in Fetch, StampTables(f) PROVE ScreenType'
  <2> DEFINE s == [fetch[f].seen EXCEPT !.changed = settings.at, !.rows = rows]
  <2>1. PICK st \in FetchStage : fetch' = [fetch EXCEPT ![f] = [fetch[f] EXCEPT !.stage = st, !.seen = s]]
    BY <1>3 DEF StampTables, FetchStage
  <2>2. settings.at \in Nat /\ IsTable(rows, RowId, Nat)
    BY DEF StoreType
  <2>3. IsSeen(fetch[f].seen)
    BY <1>0 DEF IsFetch
  <2>4. IsSeen(s)
    BY <2>2, <2>3, NothingTyped, ReadingChange
  <2> HIDE DEF s
  <2>5. IsFetch([fetch[f] EXCEPT !.stage = st, !.seen = s])
    BY <1>0, <2>4, NothingTyped, FetchChange
  <2> QED BY <1>3, <2>1, <2>5, FetchSet DEF StampTables
<1>4. ASSUME NEW f \in Fetch, NEW st \in FetchStage, NEW b, IsBundle(b), NEW w \in BOOLEAN,
             fetch' = [fetch EXCEPT ![f] = Got(fetch[f], st, b, w)], UNCHANGED <<held, shown>>
      PROVE  ScreenType'
  <2>1. IsFetch(Got(fetch[f], st, b, w))
    BY <1>0, <1>4, NothingTyped, FetchChange DEF Got
  <2> QED BY <1>4, <2>1, FetchSet
<1>5. ASSUME NEW f \in Fetch, ReadRows(f) PROVE ScreenType'
  <2> DEFINE b == [fetch[f].read EXCEPT !.changed = settings.at, !.rows = rows]
             w == DOMAIN rows \subseteq DOMAIN fetch[f].seen.rows
  <2>1. fetch' = [fetch EXCEPT ![f] = Got(fetch[f], "active", b, w)] /\ UNCHANGED <<held, shown>>
    BY <1>5 DEF ReadRows
  <2>2. settings.at \in Nat /\ IsTable(rows, RowId, Nat) /\ IsBundle(fetch[f].read)
    BY <1>0 DEF StoreType, IsFetch
  <2>3. IsBundle(b) /\ w \in BOOLEAN /\ "active" \in FetchStage
    BY <2>2, NothingTyped, ReadingChange DEF FetchStage
  <2> HIDE DEF b, w
  <2> QED BY <1>4, <2>1, <2>3
<1>6. ASSUME NEW f \in Fetch, ReadActive(f) PROVE ScreenType'
  <2>1. PICK l \in {licence, 3} : fetch' = [fetch EXCEPT ![f] = Got(fetch[f], "theme",
          [fetch[f].read EXCEPT !.licence = l, !.theme = settings.active], fetch[f].whole /\ l # 3)]
    BY <1>6 DEF ReadActive
  <2> DEFINE b == [fetch[f].read EXCEPT !.licence = l, !.theme = settings.active]
             w == fetch[f].whole /\ l # 3
  <2>2. IsBundle(fetch[f].read) /\ settings.active \in Theme \cup {Default} /\ l \in 0..3
    BY <1>0 DEF IsFetch, StoreType
  <2>3. IsBundle(b)
    BY <2>2 DEF IsBundle
  <2>4. w \in BOOLEAN /\ "theme" \in FetchStage
    BY DEF FetchStage
  <2>5. fetch' = [fetch EXCEPT ![f] = Got(fetch[f], "theme", b, w)] /\ UNCHANGED <<held, shown>>
    BY <1>6, <2>1 DEF ReadActive
  <2> HIDE DEF b, w
  <2> QED BY <1>4, <2>3, <2>4, <2>5
<1>7. ASSUME NEW f \in Fetch, ReadTheme(f) PROVE ScreenType'
  <2> DEFINE found == Resolve(fetch[f].read.theme)
  <2>1. PICK t \in {found, Default} : fetch' = [fetch EXCEPT ![f] = Got(fetch[f], "full",
          [fetch[f].read EXCEPT !.theme = t],
          fetch[f].whole /\ t = found /\ t \in DOMAIN fetch[f].seen.themes \cup {Default})]
    BY <1>7 DEF ReadTheme
  <2> DEFINE b == [fetch[f].read EXCEPT !.theme = t]
             w == fetch[f].whole /\ t = found /\ t \in DOMAIN fetch[f].seen.themes \cup {Default}
  <2>2. IsBundle(fetch[f].read) /\ t \in Theme \cup {Default}
    BY <1>0, <2>1, NowTyped DEF IsFetch, IsBundle
  <2>3. IsBundle(b)
    BY <2>2 DEF IsBundle
  <2>4. w \in BOOLEAN /\ "full" \in FetchStage
    BY DEF FetchStage
  <2>5. fetch' = [fetch EXCEPT ![f] = Got(fetch[f], "full", b, w)] /\ UNCHANGED <<held, shown>>
    BY <1>7, <2>1 DEF ReadTheme
  <2> HIDE DEF b, w
  <2> QED BY <1>4, <2>3, <2>4, <2>5
<1>8. ASSUME NEW f \in Fetch, Answer(f) PROVE ScreenType'
  <2>1. IsCopy(fetch[f].base) /\ IsCopy(Copy(fetch[f].seen, fetch[f].read, fetch[f].whole))
    BY <1>0 DEF IsFetch, IsCopy, Copy
  <2>2. IsCopy(held') /\ IsCopy(shown')
    BY <1>8, <2>1 DEF Answer, ScreenType
  <2> QED BY <1>8, <2>2, SettledTyped DEF Answer, ScreenType, Settled
<1>9. ASSUME NEW f \in Fetch, FetchFails(f) PROVE ScreenType'
  BY <1>9, SettledTyped, NothingTyped DEF FetchFails, ScreenType, Settled
<1>10. CASE Reload
  <2>1. PICK f \in Fetch : fetch' = [g \in Fetch |->
           IF g = f THEN [Quiet EXCEPT !.stage = "stamp", !.base = held] ELSE Quiet]
    BY <1>10 DEF Reload
  <2>2. IsFetch([Quiet EXCEPT !.stage = "stamp", !.base = held])
    BY NothingTyped DEF ScreenType, IsFetch, FetchStage, Quiet
  <2> QED BY <1>10, <2>1, <2>2, NothingTyped DEF Reload, ScreenType
<1>11. CASE Crash
  BY <1>11, NothingTyped DEF Crash, ScreenType
<1>12. ASSUME NEW r \in Request, Notify(r) PROVE ScreenType'
  BY <1>1, <1>12 DEF Notify
<1>13. CASE Online
  BY <1>1, <1>13 DEF Online
<1>14. ASSUME UNCHANGED screen PROVE ScreenType'
  BY <1>14 DEF screen, ScreenType
<1>15. ASSUME NEW r \in Request, ThemeStep(r) PROVE UNCHANGED screen
  <2>1. CASE Submit(r) \/ Check(r) \/ Write(r) \/ Create(r) \/ Lookup(r)
    BY <2>1 DEF Submit, Check, Write, Create, Lookup
  <2>2. CASE Load(r) \/ Apply(r) \/ Find(r) \/ Remove(r) \/ Drop(r) \/ Revert(r) \/ Fails(r)
    BY <2>2 DEF Load, Apply, Find, Remove, Drop, Revert, Fails
  <2> QED BY <1>15, <2>1, <2>2 DEF ThemeStep
<1>16. ASSUME NEW r \in Request, WriteRow(r) \/ DeleteRow(r) \/ Renew(r) \/ LoseNotice(r)
       PROVE UNCHANGED screen
  BY <1>16 DEF WriteRow, DeleteRow, Renew, LoseNotice
<1>17. CASE Lapse
  BY <1>14, <1>17 DEF Lapse
<1> QED
  BY <1>2, <1>3, <1>5, <1>6, <1>7, <1>8, <1>9, <1>10, <1>11, <1>12, <1>13, <1>14, <1>15, <1>16, <1>17, <1>18
  DEF Next, RowStep, FetchStep

\* A request moves on, ends, or is closed by a restart.
LEMMA ReqSet ==
  ASSUME ReqType, NEW r \in Request,
         NEW x \in [stage : Stage, theme : Theme \cup {Default}, dir : Dir \cup {NoDir},
                   stale : BOOLEAN],
         req' = [req EXCEPT ![r] = x]
  PROVE  ReqType'
BY DEF ReqType

LEMMA ReqGoto ==
  ASSUME ReqType, NEW r \in Request, NEW st \in Stage, Goto(r, st) \/ End(r)
  PROVE  ReqType'
<1>1. CASE Goto(r, st)
  BY <1>1 DEF ReqType, Goto
<1>2. CASE End(r)
  <2>1. Idle \in [stage : Stage, theme : Theme \cup {Default}, dir : Dir \cup {NoDir}, stale : BOOLEAN]
    BY DEF Idle, Stage
  <2> QED BY <1>2, <2>1, ReqSet DEF End
<1> QED BY <1>1, <1>2

LEMMA ReqStep == ASSUME TypeOK, Next PROVE ReqType'
<1> USE DEF TypeOK
<1>0. {"idle", "write", "load", "apply", "remove", "drop", "revert", "reset", "notify", "create"}
        \subseteq Stage
  BY DEF Stage
<1>1. ASSUME NEW r \in Request, Submit(r) PROVE ReqType'
  <2>1. \A st \in Stage, t \in Theme \cup {Default} : Open(r, st, t, NoDir) \in
          [stage : Stage, theme : Theme \cup {Default}, dir : Dir \cup {NoDir}, stale : BOOLEAN]
    BY DEF Open
  <2>2. "check" \in Stage /\ "lookup" \in Stage /\ "find" \in Stage /\ "apply" \in Stage
    BY DEF Stage
  <2> QED BY <1>1, <2>1, <2>2, ReqSet DEF Submit
<1>2. ASSUME NEW r \in Request, Check(r) PROVE ReqType'
  BY <1>2, <1>0, ReqGoto DEF Check
<1>3. ASSUME NEW r \in Request, Write(r) PROVE ReqType'
  BY <1>3, <1>0, ReqGoto DEF Write, FreeDirs, ReqType
<1>4. ASSUME NEW r \in Request, Create(r) PROVE ReqType'
  BY <1>4, <1>0, ReqGoto DEF Create
<1>5. ASSUME NEW r \in Request, Lookup(r) PROVE ReqType'
  BY <1>5, <1>0, ReqGoto DEF Lookup, ReqType, StoreType, IsTable
<1>6. ASSUME NEW r \in Request, Load(r) PROVE ReqType'
  BY <1>6, <1>0, ReqGoto DEF Load
<1>7. ASSUME NEW r \in Request, Apply(r) PROVE ReqType'
  BY <1>7, <1>0, ReqGoto DEF Apply
<1>8. ASSUME NEW r \in Request, Find(r) PROVE ReqType'
  BY <1>8, <1>0, ReqGoto DEF Find, ReqType, StoreType, IsTable
<1>9. ASSUME NEW r \in Request, Remove(r) PROVE ReqType'
  BY <1>9, <1>0, ReqGoto DEF Remove
<1>10. ASSUME NEW r \in Request, Drop(r) PROVE ReqType'
  <2>1. CASE SameRow(r)
    <3> DEFINE R == [stage : Stage, theme : Theme \cup {Default}, dir : Dir \cup {NoDir},
                     stale : BOOLEAN]
    <3>1. [req[r] EXCEPT !.stage = "revert"] \in R
      BY <1>0 DEF ReqType
    <3>2. \A q \in Request : [req[q] EXCEPT !.stale = req[q].stale \/ q \in Overtaken(r)] \in R
      BY DEF ReqType
    <3> QED BY <1>10, <2>1, <3>1, <3>2 DEF Drop, ReqType
  <2> QED BY <1>10, <2>1, <1>0, ReqGoto DEF Drop
<1>11. ASSUME NEW r \in Request, Revert(r) PROVE ReqType'
  BY <1>11, <1>0, ReqGoto DEF Revert
<1>12. ASSUME NEW r \in Request, Fails(r) PROVE ReqType'
  BY <1>12, <1>0, ReqGoto DEF Fails
<1>20. CASE UNCHANGED req
  BY <1>20 DEF ReqType
<1>13. ASSUME NEW r \in Request, WriteRow(r) PROVE ReqType'
  BY <1>13, <1>0, <1>20, ReqGoto DEF WriteRow, Announce, StaySilent
<1>14. ASSUME NEW r \in Request, DeleteRow(r) PROVE ReqType'
  BY <1>14, <1>0, <1>20, ReqGoto DEF DeleteRow, Announce, StaySilent
<1>15. ASSUME NEW r \in Request, Renew(r) PROVE ReqType'
  BY <1>15, <1>0, ReqGoto DEF Renew
<1>16. ASSUME NEW r \in Request, Notify(r) PROVE ReqType'
  BY <1>16, <1>0, ReqGoto DEF Notify
<1>17. ASSUME NEW r \in Request, LoseNotice(r) PROVE ReqType'
  BY <1>17, <1>0, ReqGoto DEF LoseNotice
<1>18. CASE Crash
  BY <1>18, <1>0 DEF Crash, ReqType, Idle
<1>19. ASSUME NEW f \in Fetch, FetchStep(f) PROVE UNCHANGED req
  BY <1>19 DEF FetchStep, StampLicence, StampThemes, StampTables, ReadRows, ReadActive, ReadTheme, Answer, FetchFails
<1>21. CASE Lapse \/ Online \/ Reload
  BY <1>20, <1>21 DEF Lapse, Online, Reload
<1> QED
  BY <1>1, <1>2, <1>3, <1>4, <1>5, <1>6, <1>7, <1>8, <1>9, <1>10, <1>11, <1>12, <1>13, <1>14, <1>15, <1>16, <1>17, <1>18, <1>19, <1>20, <1>21 DEF Next, ThemeStep, RowStep

LEMMA CountStep == ASSUME TypeOK, Named, Next PROVE CountType'
<1> USE DEF TypeOK, CountType, gaps
<1>1. submits + 1 \in Nat /\ faults + 1 \in Nat
  OBVIOUS
<1>2. Fault => faults' \in 0..MaxFaults
  BY <1>1, BoundAssumption DEF Fault
<1>3. Submitted => submits' \in 0..MaxOps
  BY <1>1, BoundAssumption DEF Submitted
<1>4. \A r \in Request : Left(r) \subseteq Dir
  BY DEF Left, Named
<1>5. \A r \in Request : req[r].stage \in {"create", "remove"} => req[r].dir \in Dir
  BY DEF Named
<1>6. ASSUME NEW r \in Request, Submit(r) PROVE CountType'
  BY <1>2, <1>3, <1>4, <1>5, <1>6 DEF Submit
<1>7. ASSUME NEW r \in Request, Check(r) PROVE CountType'
  BY <1>2, <1>3, <1>4, <1>5, <1>7 DEF Check
<1>8. ASSUME NEW r \in Request, Write(r) PROVE CountType'
  BY <1>2, <1>3, <1>4, <1>5, <1>8 DEF Write, FreeDirs
<1>9. ASSUME NEW r \in Request, Create(r) PROVE CountType'
  BY <1>2, <1>3, <1>4, <1>5, <1>9 DEF Create
<1>10. ASSUME NEW r \in Request, Lookup(r) PROVE CountType'
  BY <1>2, <1>3, <1>4, <1>5, <1>10 DEF Lookup
<1>11. ASSUME NEW r \in Request, Load(r) PROVE CountType'
  BY <1>2, <1>3, <1>4, <1>5, <1>11 DEF Load
<1>12. ASSUME NEW r \in Request, Apply(r) PROVE CountType'
  BY <1>2, <1>3, <1>4, <1>5, <1>12 DEF Apply
<1>13. ASSUME NEW r \in Request, Find(r) PROVE CountType'
  BY <1>2, <1>3, <1>4, <1>5, <1>13 DEF Find
<1>14. ASSUME NEW r \in Request, Remove(r) PROVE CountType'
  BY <1>2, <1>3, <1>4, <1>5, <1>14 DEF Remove
<1>15. ASSUME NEW r \in Request, Drop(r) PROVE CountType'
  BY <1>2, <1>3, <1>4, <1>5, <1>15 DEF Drop
<1>16. ASSUME NEW r \in Request, Revert(r) PROVE CountType'
  BY <1>2, <1>3, <1>4, <1>5, <1>16 DEF Revert
<1>17. ASSUME NEW r \in Request, Fails(r) PROVE CountType'
  BY <1>2, <1>3, <1>4, <1>5, <1>17 DEF Fails
<1>18. ASSUME NEW r \in Request, WriteRow(r) PROVE CountType'
  BY <1>2, <1>3, <1>4, <1>5, <1>18 DEF WriteRow, Announce, StaySilent
<1>19. ASSUME NEW r \in Request, DeleteRow(r) PROVE CountType'
  BY <1>2, <1>3, <1>4, <1>5, <1>19 DEF DeleteRow, Announce, StaySilent
<1>20. ASSUME NEW r \in Request, Renew(r) PROVE CountType'
  BY <1>2, <1>3, <1>4, <1>5, <1>20 DEF Renew
<1>21. ASSUME NEW r \in Request, Notify(r) PROVE CountType'
  BY <1>2, <1>3, <1>4, <1>5, <1>21 DEF Notify, Send
<1>22. ASSUME NEW r \in Request, LoseNotice(r) PROVE CountType'
  BY <1>2, <1>3, <1>4, <1>5, <1>22 DEF LoseNotice
<1>23. ASSUME NEW f \in Fetch, StampLicence(f) PROVE CountType'
  BY <1>2, <1>23 DEF StampLicence
<1>34. ASSUME NEW f \in Fetch, StampThemes(f) PROVE CountType'
  BY <1>2, <1>34 DEF StampThemes
<1>24. ASSUME NEW f \in Fetch, StampTables(f) PROVE CountType'
  BY <1>2, <1>24 DEF StampTables
<1>25. ASSUME NEW f \in Fetch, ReadRows(f) PROVE CountType'
  BY <1>2, <1>25 DEF ReadRows
<1>26. ASSUME NEW f \in Fetch, ReadActive(f) PROVE CountType'
  BY <1>2, <1>26 DEF ReadActive
<1>27. ASSUME NEW f \in Fetch, ReadTheme(f) PROVE CountType'
  BY <1>2, <1>27 DEF ReadTheme
<1>28. ASSUME NEW f \in Fetch, Answer(f) PROVE CountType'
  BY <1>2, <1>28 DEF Answer
<1>29. ASSUME NEW f \in Fetch, FetchFails(f) PROVE CountType'
  BY <1>2, <1>29 DEF FetchFails
<1>30. CASE Lapse
  BY <1>2, <1>30 DEF Lapse
<1>31. CASE Online
  BY <1>2, <1>31 DEF Online, Send
<1>32. CASE Reload
  BY <1>2, <1>32 DEF Reload
<1>33. CASE Crash
  <2>1. strays' \subseteq Dir
    BY <1>4, <1>33 DEF Crash
  <2> QED BY <1>2, <1>33, <2>1 DEF Crash
<1> QED
  BY <1>6, <1>7, <1>8, <1>9, <1>10, <1>11, <1>12, <1>13, <1>14, <1>15, <1>16, <1>17, <1>18, <1>19, <1>20, <1>21, <1>22, <1>23, <1>24, <1>25, <1>26, <1>27, <1>28, <1>29, <1>30, <1>31, <1>32, <1>33, <1>34
  DEF Next, ThemeStep, RowStep, FetchStep

LEMMA StutterTypes == ASSUME TypeOK, UNCHANGED vars PROVE TypeOK'
<1>1. StoreType' /\ ReqType'
  BY DEF TypeOK, StoreType, ReqType, vars, store
<1>2. ScreenType' /\ CountType'
  BY DEF TypeOK, ScreenType, CountType, vars, screen, gaps
<1> QED BY <1>1, <1>2 DEF TypeOK
-----------------------------------------------------------------------------
(* The theme store. *)

ThemeFrame == UNCHANGED <<settings, themes, dirs, strays, adrift>>

LEMMA ThemeStill == ASSUME ThemeInv, ThemeFrame, UNCHANGED req PROVE ThemeInv'
<1> USE DEF ThemeInv, ThemeFrame
<1>1. Named' /\ Fresh' /\ Doomed' /\ Placed' /\ Reading'
  BY DEF Named, Fresh, Doomed, Placed, Reading
<1>2. DirsMatchRows' /\ ActiveIsInstalled'
  BY DEF DirsMatchRows, Removing, Building, ActiveIsInstalled, Unmoored
<1> QED BY <1>1, <1>2

\* A request that neither builds nor removes a directory moves on.
LEMMA ThemeLocal ==
  ASSUME ReqType, ThemeInv, ThemeFrame, NEW r \in Request, NEW x,
         req' = [req EXCEPT ![r] = x],
         x.stage \notin {"create", "drop"}, req[r].stage \notin {"create", "drop"},
         x.stage \notin {"idle", "apply", "notify"} => x.theme \in Theme,
         x.stage = "load" => x.dir \in Dir,
         x.stage = "remove" => x.theme \in DOMAIN themes /\ x.dir = themes[x.theme].dir /\ x.dir \in Dir,
         x.stage \in {"load", "apply"} /\ ~x.stale => x.theme \in DOMAIN themes \cup {Default},
         Unmoored(r) => settings.active # req[r].theme \/ (x.stage = "reset" /\ x.theme = req[r].theme)
  PROVE  ThemeInv'
<1>1. req'[r] = x /\ \A q \in Request : q # r => req'[q] = req[q]
  BY DEF ReqType
<1>2. UNCHANGED <<settings, themes, dirs, strays, adrift>>
  BY DEF ThemeFrame
<1>3. Named'
  BY <1>1 DEF ThemeInv, Named
<1>4. Fresh'
  BY <1>1, <1>2 DEF ThemeInv, Fresh
<1>5. Doomed'
  <2> SUFFICES ASSUME NEW p \in Request, req'[p].stage \in {"remove", "drop"}
               PROVE  /\ dirs[req'[p].dir] # "unused"
                      /\ req'[p].stage = "drop" => dirs[req'[p].dir] = "gone" \/ req'[p].dir \in strays
                      /\ \A t \in DOMAIN themes : themes[t].dir = req'[p].dir => t = req'[p].theme
                      /\ \A q \in Request : req'[q].stage = "create" => req'[q].dir # req'[p].dir
    BY <1>2 DEF Doomed
  <2>1. CASE p # r
    BY <1>1, <2>1 DEF ThemeInv, Doomed
  <2>2. CASE p = r
    <3>1. x.theme \in DOMAIN themes /\ x.dir = themes[x.theme].dir
      BY <1>1, <2>2
    <3> QED BY <1>1, <2>2, <3>1 DEF ThemeInv, Fresh, Placed, DirsMatchRows
  <2> QED BY <2>1, <2>2
<1>6. Placed' /\ Reading'
  BY <1>1, <1>2 DEF ThemeInv, Placed, Reading
<1>7. DirsMatchRows'
  BY <1>1, <1>2 DEF ThemeInv, DirsMatchRows, Removing, Building
<1>8. ActiveIsInstalled'
  BY <1>1, <1>2 DEF ThemeInv, ActiveIsInstalled, Unmoored
<1> QED BY <1>3, <1>4, <1>5, <1>6, <1>7, <1>8 DEF ThemeInv

LEMMA ThemeWrite == ASSUME TypeOK, ThemeInv, NEW r \in Request, Write(r) PROVE ThemeInv'
<1>1. PICK d \in FreeDirs :
        \/ /\ dirs' = [dirs EXCEPT ![d] = "whole"]
           /\ req' = [req EXCEPT ![r].stage = "create", ![r].dir = d] /\ strays' = strays
        \/ /\ req' = [req EXCEPT ![r] = Idle]
           /\ \/ dirs' = [dirs EXCEPT ![d] = "gone"] /\ strays' = strays
              \/ dirs' = [dirs EXCEPT ![d] = "whole"] /\ strays' = strays \cup {d}
  BY DEF Write, End
<1>2. UNCHANGED <<settings, themes, adrift>> /\ req[r].stage = "write"
  BY DEF Write
<1>3. /\ d \in Dir /\ dirs[d] = "unused" /\ dirs \in [Dir -> {"unused", "whole", "gone"}]
      /\ \A t \in DOMAIN themes : themes[t].dir \in Dir /\ themes[t].dir # d
      /\ \A q \in Request : req[q].stage \in {"create", "remove", "drop"} => req[q].dir \in Dir /\ req[q].dir # d
  BY DEF FreeDirs, TypeOK, StoreType, IsTable, ThemeInv, Placed, Fresh, Doomed, Named
<1>4. \A e \in Dir : e # d => dirs'[e] = dirs[e]
  BY <1>1, <1>3
<1>5. \A q \in Request : q # r => req'[q] = req[q]
  BY <1>1 DEF TypeOK, ReqType
<1>6. req[r].theme \in Theme
  BY <1>2 DEF ThemeInv, Named
<1>7. \/ /\ req'[r].stage = "create" /\ req'[r].dir = d /\ req'[r].theme \in Theme
         /\ dirs'[d] = "whole" /\ strays' = strays
      \/ /\ req'[r].stage = "idle" /\ strays \subseteq strays' /\ (dirs'[d] = "gone" \/ d \in strays')
  BY <1>1, <1>3, <1>6 DEF TypeOK, ReqType, Idle
<1>8. Named'
  BY <1>3, <1>5, <1>7 DEF ThemeInv, Named
<1>9. Fresh'
  BY <1>2, <1>3, <1>4, <1>5, <1>7 DEF ThemeInv, Fresh
<1>10. Doomed'
  BY <1>2, <1>3, <1>4, <1>5, <1>7 DEF ThemeInv, Doomed
<1>11. Placed' /\ Reading'
  BY <1>2, <1>3, <1>4, <1>5, <1>7 DEF ThemeInv, Placed, Reading
<1>12. DirsMatchRows'
  BY <1>2, <1>3, <1>4, <1>5, <1>7 DEF ThemeInv, DirsMatchRows, Removing, Building
<1>13. ActiveIsInstalled'
  BY <1>2, <1>5, <1>7 DEF ThemeInv, ActiveIsInstalled, Unmoored
<1> QED BY <1>8, <1>9, <1>10, <1>11, <1>12, <1>13 DEF ThemeInv

LEMMA ThemeCreate == ASSUME TypeOK, ThemeInv, NEW r \in Request, Create(r) PROVE ThemeInv'
<1> DEFINE t == req[r].theme
           d == req[r].dir
<1>1. /\ req[r].stage = "create" /\ t \in Theme /\ d \in Dir
      /\ UNCHANGED <<settings, dirs, adrift>>
  BY DEF Create, ThemeInv, Named
<1>2. req'[r] = Idle /\ \A q \in Request : q # r => req'[q] = req[q]
  BY DEF Create, End, TypeOK, ReqType
<1>3. Idle.stage = "idle"
  BY DEF Idle
<1>4. \/ /\ t \notin DOMAIN themes /\ strays' = strays
         /\ DOMAIN themes' = DOMAIN themes \cup {t}
         /\ themes'[t].dir = d /\ \A u \in DOMAIN themes : themes'[u] = themes[u]
      \/ themes' = themes /\ strays' = strays \cup {d}
  BY DEF Create, Put
<1>5. /\ dirs[d] = "whole" /\ \A u \in DOMAIN themes : themes[u].dir # d
      /\ \A q \in Request : q # r => /\ req[q].stage = "create" => req[q].dir # d
                                     /\ req[q].stage \in {"remove", "drop"} => req[q].dir # d
  BY <1>1 DEF ThemeInv, Fresh, Doomed
<1> HIDE DEF t, d
<1>11. Named'
  BY <1>1, <1>2, <1>3, <1>4, <1>5 DEF ThemeInv, Named
<1>12. Fresh'
  <2> SUFFICES ASSUME NEW q \in Request, req'[q].stage = "create"
               PROVE  /\ dirs'[req'[q].dir] = "whole"
                      /\ \A u \in DOMAIN themes' : themes'[u].dir # req'[q].dir
                      /\ \A p \in Request : req'[p].stage = "create" /\ req'[p].dir = req'[q].dir => p = q
    BY DEF Fresh
  <2>1. q # r /\ req'[q] = req[q] /\ req[q].stage = "create" /\ req[q].dir # d
    <3>1. q # r
      BY <1>2, <1>3
    <3>2. req'[q] = req[q] /\ req[q].stage = "create"
      BY <1>2, <3>1
    <3>3. req[q].dir # d
      BY <1>5, <3>1, <3>2
    <3> QED BY <3>1, <3>2, <3>3
  <2>2. /\ dirs[req[q].dir] = "whole" /\ \A u \in DOMAIN themes : themes[u].dir # req[q].dir
        /\ \A p \in Request : req[p].stage = "create" /\ req[p].dir = req[q].dir => p = q
    BY <2>1 DEF ThemeInv, Fresh
  <2>3. \A u \in DOMAIN themes' : themes'[u].dir # req[q].dir
    BY <1>4, <2>1, <2>2
  <2> QED BY <1>1, <1>2, <1>3, <2>1, <2>2, <2>3
<1>13. Doomed'
  BY <1>1, <1>2, <1>3, <1>4, <1>5 DEF ThemeInv, Doomed
<1>14. Placed' /\ Reading'
  BY <1>1, <1>2, <1>3, <1>4, <1>5 DEF ThemeInv, Placed, Reading
<1>15. DirsMatchRows'
  BY <1>1, <1>2, <1>3, <1>4, <1>5 DEF ThemeInv, DirsMatchRows, Removing, Building, t, d
<1>16. ActiveIsInstalled'
  BY <1>1, <1>2, <1>3, <1>4, <1>5 DEF ThemeInv, ActiveIsInstalled, Unmoored
<1> QED BY <1>11, <1>12, <1>13, <1>14, <1>15, <1>16 DEF ThemeInv

LEMMA ThemeApply == ASSUME TypeOK, ThemeInv, NEW r \in Request, Apply(r) PROVE ThemeInv'
<1>1. /\ req[r].stage \in {"apply", "reset"} /\ UNCHANGED <<themes, dirs, strays>>
      /\ settings'.active = Target(r) /\ adrift' = (req[r].stage = "apply" /\ req[r].stale)
  BY DEF Apply
<1>2. req'[r].stage = "notify" /\ \A q \in Request : q # r => req'[q] = req[q]
  BY DEF Apply, Goto, TypeOK, ReqType
<1>3. adrift' \/ Target(r) \in DOMAIN themes \cup {Default}
  BY <1>1 DEF ThemeInv, Reading, Target
<1>11. Named'
  BY <1>1, <1>2, <1>3 DEF ThemeInv, Named
<1>12. Fresh'
  BY <1>1, <1>2, <1>3 DEF ThemeInv, Fresh
<1>13. Doomed'
  BY <1>1, <1>2, <1>3 DEF ThemeInv, Doomed
<1>14. Placed' /\ Reading'
  BY <1>1, <1>2, <1>3 DEF ThemeInv, Placed, Reading
<1>15. DirsMatchRows'
  BY <1>1, <1>2, <1>3 DEF ThemeInv, DirsMatchRows, Removing, Building
<1>16. ActiveIsInstalled'
  BY <1>1, <1>2, <1>3 DEF ThemeInv, ActiveIsInstalled, Unmoored
<1> QED BY <1>11, <1>12, <1>13, <1>14, <1>15, <1>16 DEF ThemeInv

LEMMA ThemeRemove == ASSUME TypeOK, ThemeInv, NEW r \in Request, Remove(r) PROVE ThemeInv'
<1> DEFINE d == req[r].dir
<1>1. /\ req[r].stage = "remove" /\ d \in Dir /\ req[r].theme \in Theme
      /\ UNCHANGED <<settings, themes, adrift>>
  BY DEF Remove, ThemeInv, Named
<1>2. /\ req'[r].stage = "drop" /\ req'[r].dir = d /\ req'[r].theme = req[r].theme
      /\ \A q \in Request : q # r => req'[q] = req[q]
  BY DEF Remove, Goto, TypeOK, ReqType
<1>3. \A e \in Dir : e # d => dirs'[e] = dirs[e]
  BY <1>1 DEF Remove, TypeOK, StoreType
<1>4. \/ dirs'[d] = "gone" /\ strays' = strays
      \/ dirs' = dirs /\ strays' = strays \cup {d}
  BY <1>1 DEF Remove, TypeOK, StoreType
<1>5. /\ dirs[d] # "unused" /\ \A t \in DOMAIN themes : themes[t].dir = d => t = req[r].theme
      /\ \A q \in Request : req[q].stage = "create" => req[q].dir # d
  BY <1>1 DEF ThemeInv, Doomed
<1>6. /\ \A t \in DOMAIN themes : themes[t].dir \in Dir
      /\ \A q \in Request : req[q].stage \in {"create", "remove", "drop"} => req[q].dir \in Dir
  BY DEF TypeOK, StoreType, IsTable, ThemeInv, Named
<1> HIDE DEF d
<1>11. Named'
  BY <1>1, <1>2, <1>3, <1>4, <1>5, <1>6 DEF ThemeInv, Named
<1>12. Fresh'
  BY <1>1, <1>2, <1>3, <1>4, <1>5, <1>6 DEF ThemeInv, Fresh
<1>13. Doomed'
  BY <1>1, <1>2, <1>3, <1>4, <1>5, <1>6 DEF ThemeInv, Doomed
<1>14. Placed' /\ Reading'
  BY <1>1, <1>2, <1>3, <1>4, <1>5, <1>6 DEF ThemeInv, Placed, Reading
<1>15. DirsMatchRows'
  BY <1>1, <1>2, <1>3, <1>4, <1>5, <1>6 DEF ThemeInv, DirsMatchRows, Removing, Building
<1>16. ActiveIsInstalled'
  BY <1>1, <1>2, <1>3, <1>4, <1>5, <1>6 DEF ThemeInv, ActiveIsInstalled, Unmoored
<1> QED BY <1>11, <1>12, <1>13, <1>14, <1>15, <1>16 DEF ThemeInv

LEMMA ThemeDrop == ASSUME TypeOK, ThemeInv, NEW r \in Request, Drop(r) PROVE ThemeInv'
<1> DEFINE t == req[r].theme
           d == req[r].dir
<1>1. /\ req[r].stage = "drop" /\ d \in Dir /\ t \in Theme /\ t # Default
      /\ UNCHANGED <<settings, dirs, strays, adrift>>
  BY DefaultIsBuiltIn DEF Drop, ThemeInv, Named
<1>2. /\ dirs[d] = "gone" \/ d \in strays
      /\ \A u \in DOMAIN themes : themes[u].dir = d => u = t
      /\ \A q \in Request : req[q].stage = "create" => req[q].dir # d
  BY <1>1 DEF ThemeInv, Doomed
<1>3. /\ \A q \in Request \ {r} : /\ req'[q].stage = req[q].stage /\ req'[q].theme = req[q].theme
                                 /\ req'[q].dir = req[q].dir
      /\ \/ SameRow(r) /\ req'[r].stage = "revert" /\ req'[r].theme = t
            /\ DOMAIN themes' = DOMAIN themes \ {t} /\ (\A u \in DOMAIN themes' : themes'[u] = themes[u])
            /\ (\A q \in Request \ {r} : req'[q].stale = (req[q].stale \/ q \in Overtaken(r)))
         \/ ~SameRow(r) /\ req'[r].stage = "idle" /\ themes' = themes
            /\ (\A q \in Request \ {r} : req'[q] = req[q])
  <2>1. CASE SameRow(r)
    <3>1. /\ req' = [q \in Request |->
               IF q = r THEN [req[r] EXCEPT !.stage = "revert"]
               ELSE [req[q] EXCEPT !.stale = req[q].stale \/ q \in Overtaken(r)]]
          /\ themes' = Without(themes, t)
      BY <2>1 DEF Drop
    <3>2. req'[r].stage = "revert" /\ req'[r].theme = t
      BY <3>1 DEF TypeOK, ReqType
    <3>3. ASSUME NEW q \in Request \ {r}
          PROVE  /\ req'[q].stage = req[q].stage /\ req'[q].theme = req[q].theme
                 /\ req'[q].dir = req[q].dir
                 /\ req'[q].stale = (req[q].stale \/ q \in Overtaken(r))
      BY <3>1 DEF TypeOK, ReqType
    <3> QED BY <2>1, <3>1, <3>2, <3>3 DEF Without
  <2>2. CASE ~SameRow(r)
    BY <2>2 DEF Drop, End, Idle, TypeOK, ReqType
  <2> QED BY <2>1, <2>2
<1>4. SameRow(r) => t \in DOMAIN themes /\ themes[t].dir = d
  BY DEF SameRow
<1>5. ~SameRow(r) => \A u \in DOMAIN themes : themes[u].dir # d
  BY <1>2 DEF SameRow
<1>6. \A q \in Request \ {r} : req[q].stage \in {"load", "apply"} /\ req[q].theme = t => q \in Overtaken(r)
  BY DEF Overtaken
<1> HIDE DEF t, d
<1>11. Named'
  BY <1>1, <1>2, <1>3, <1>4, <1>5, <1>6 DEF ThemeInv, Named
<1>12. Fresh'
  BY <1>1, <1>2, <1>3, <1>4, <1>5, <1>6 DEF ThemeInv, Fresh
<1>13. Doomed'
  BY <1>1, <1>2, <1>3, <1>4, <1>5, <1>6 DEF ThemeInv, Doomed
<1>14. Placed' /\ Reading'
  BY <1>1, <1>2, <1>3, <1>4, <1>5, <1>6 DEF ThemeInv, Placed, Reading
<1>15. DirsMatchRows'
  BY <1>1, <1>2, <1>3, <1>4, <1>5 DEF ThemeInv, DirsMatchRows, Removing, Building, d, t
<1>16. ActiveIsInstalled'
  BY <1>1, <1>2, <1>3, <1>4, <1>5, <1>6 DEF ThemeInv, ActiveIsInstalled, Unmoored
<1> QED BY <1>11, <1>12, <1>13, <1>14, <1>15, <1>16 DEF ThemeInv

LEMMA ThemeFails == ASSUME TypeOK, ThemeInv, NEW r \in Request, Fails(r) PROVE ThemeInv'
<1>1. /\ UNCHANGED <<settings, themes, dirs>> /\ strays' = strays \cup Left(r)
      /\ adrift' = (adrift \/ Unmoored(r))
  BY DEF Fails, store
<1>2. req'[r].stage = "idle" /\ \A q \in Request : q # r => req'[q] = req[q]
  BY DEF Fails, End, Idle, TypeOK, ReqType
<1>3. req[r].stage \in {"create", "drop"} => req[r].dir \in strays'
  BY <1>1 DEF Left
<1>11. Named'
  BY <1>1, <1>2, <1>3 DEF ThemeInv, Named
<1>12. Fresh'
  BY <1>1, <1>2, <1>3 DEF ThemeInv, Fresh
<1>13. Doomed'
  BY <1>1, <1>2, <1>3 DEF ThemeInv, Doomed
<1>14. Placed' /\ Reading'
  BY <1>1, <1>2, <1>3 DEF ThemeInv, Placed, Reading
<1>15. DirsMatchRows'
  BY <1>1, <1>2, <1>3 DEF ThemeInv, DirsMatchRows, Removing, Building
<1>16. ActiveIsInstalled'
  BY <1>1, <1>2, <1>3 DEF ThemeInv, ActiveIsInstalled, Unmoored
<1> QED BY <1>11, <1>12, <1>13, <1>14, <1>15, <1>16 DEF ThemeInv

LEMMA ThemeCrash == ASSUME TypeOK, ThemeInv, Crash PROVE ThemeInv'
<1>1. /\ UNCHANGED <<settings, themes, dirs>> /\ strays \subseteq strays'
      /\ adrift' = (adrift \/ \E r \in Request : Unmoored(r))
  BY DEF Crash, store
<1>2. \A r \in Request : req'[r].stage = "idle"
  BY DEF Crash, Idle
<1>3. \A r \in Request : req[r].stage \in {"create", "drop"} => req[r].dir \in strays'
  BY DEF Crash, Left
<1>11. Named'
  BY <1>1, <1>2, <1>3 DEF ThemeInv, Named
<1>12. Fresh'
  BY <1>1, <1>2, <1>3 DEF ThemeInv, Fresh
<1>13. Doomed'
  BY <1>1, <1>2, <1>3 DEF ThemeInv, Doomed
<1>14. Placed' /\ Reading'
  BY <1>1, <1>2, <1>3 DEF ThemeInv, Placed, Reading
<1>15. DirsMatchRows'
  BY <1>1, <1>2, <1>3 DEF ThemeInv, DirsMatchRows, Removing, Building
<1>16. ActiveIsInstalled'
  BY <1>1, <1>2, <1>3 DEF ThemeInv, ActiveIsInstalled, Unmoored
<1> QED BY <1>11, <1>12, <1>13, <1>14, <1>15, <1>16 DEF ThemeInv

LEMMA ThemeStep1 == ASSUME TypeOK, ThemeInv, Next PROVE ThemeInv'
<1> USE DEF TypeOK, ThemeFrame, store
<1>1. ASSUME NEW r \in Request, Submit(r) PROVE ThemeInv'
  BY <1>1, ThemeLocal DEF Submit, Open, Unmoored
<1>2. ASSUME NEW r \in Request, Check(r) PROVE ThemeInv'
  <2>1. PICK x : x \in {Idle, [req[r] EXCEPT !.stage = "write"]} /\ req' = [req EXCEPT ![r] = x]
    BY <1>2 DEF Check, Goto, End, ReqType
  <2>2. x.stage \in {"idle", "write"} /\ (x.stage = "write" => x.theme = req[r].theme)
    BY <2>1 DEF Idle, ReqType
  <2>3. req[r].stage = "check" /\ req[r].theme \in Theme
    BY <1>2 DEF Check, ThemeInv, Named
  <2> QED BY <1>2, <2>1, <2>2, <2>3, ThemeLocal DEF Check, Unmoored
<1>3. ASSUME NEW r \in Request, Lookup(r) PROVE ThemeInv'
  <2>1. req[r].stage = "lookup" /\ req[r].theme \in Theme
    BY <1>3 DEF Lookup, ThemeInv, Named
  <2>2. CASE req[r].theme \in DOMAIN themes
    <3> DEFINE x == [req[r] EXCEPT !.stage = "load", !.dir = themes[req[r].theme].dir]
    <3>1. req' = [req EXCEPT ![r] = x]
      BY <1>3, <2>2 DEF Lookup
    <3>2. x.stage = "load" /\ x.theme = req[r].theme /\ x.dir \in Dir
      BY <2>2 DEF ReqType, StoreType, IsTable
    <3> HIDE DEF x
    <3> QED BY <1>3, <2>1, <2>2, <3>1, <3>2, ThemeLocal DEF Lookup, Unmoored
  <2>3. CASE req[r].theme \notin DOMAIN themes
    BY <1>3, <2>1, <2>3, ThemeLocal DEF Lookup, End, Idle, Unmoored
  <2> QED BY <2>2, <2>3
<1>4. ASSUME NEW r \in Request, Load(r) PROVE ThemeInv'
  <2>1. req[r].stage = "load" /\ req[r].theme \in Theme
        /\ (req[r].stale \/ req[r].theme \in DOMAIN themes \cup {Default})
    BY <1>4 DEF Load, ThemeInv, Named, Reading
  <2>2. CASE Goto(r, "apply")
    <3> DEFINE x == [req[r] EXCEPT !.stage = "apply"]
    <3>1. req' = [req EXCEPT ![r] = x]
      BY <2>2 DEF Goto
    <3>2. x.stage = "apply" /\ x.theme = req[r].theme /\ x.stale = req[r].stale
      BY DEF ReqType
    <3> HIDE DEF x
    <3> QED BY <1>4, <2>1, <3>1, <3>2, ThemeLocal DEF Load, Unmoored
  <2>3. CASE End(r)
    BY <1>4, <2>1, <2>3, ThemeLocal DEF Load, End, Idle, Unmoored
  <2> QED BY <1>4, <2>2, <2>3 DEF Load
<1>5. ASSUME NEW r \in Request, Find(r) PROVE ThemeInv'
  <2>1. req[r].stage = "find" /\ req[r].theme \in Theme
    BY <1>5 DEF Find, ThemeInv, Named
  <2>2. CASE req[r].theme \in DOMAIN themes
    <3> DEFINE x == [req[r] EXCEPT !.stage = "remove", !.dir = themes[req[r].theme].dir]
    <3>1. req' = [req EXCEPT ![r] = x]
      BY <1>5, <2>2 DEF Find
    <3>2. x.stage = "remove" /\ x.theme = req[r].theme /\ x.dir \in Dir
          /\ x.dir = themes[req[r].theme].dir
      BY <2>2 DEF ReqType, StoreType, IsTable
    <3> HIDE DEF x
    <3> QED BY <1>5, <2>1, <2>2, <3>1, <3>2, ThemeLocal DEF Find, Unmoored
  <2>3. CASE req[r].theme \notin DOMAIN themes
    BY <1>5, <2>1, <2>3, ThemeLocal DEF Find, End, Idle, Unmoored
  <2> QED BY <2>2, <2>3
<1>6. ASSUME NEW r \in Request, Revert(r) PROVE ThemeInv'
  <2>1. req[r].stage = "revert" /\ req[r].theme \in Theme
    BY <1>6 DEF Revert, ThemeInv, Named
  <2>2. CASE settings.active = req[r].theme
    <3> DEFINE x == [req[r] EXCEPT !.stage = "reset"]
    <3>1. req' = [req EXCEPT ![r] = x]
      BY <1>6, <2>2 DEF Revert, Goto
    <3>2. x.stage = "reset" /\ x.theme = req[r].theme
      BY DEF ReqType
    <3> HIDE DEF x
    <3> QED BY <1>6, <2>1, <3>1, <3>2, ThemeLocal DEF Revert, Unmoored
  <2>3. CASE settings.active # req[r].theme
    BY <1>6, <2>1, <2>3, ThemeLocal DEF Revert, End, Idle, Unmoored
  <2> QED BY <2>2, <2>3
<1>7. ASSUME NEW r \in Request, WriteRow(r) \/ DeleteRow(r) \/ Renew(r) PROVE ThemeInv'
  <2> DEFINE x == [req[r] EXCEPT !.stage = "notify"]
  <2>1. /\ req' = req \/ req' = [req EXCEPT ![r] = x]
        /\ req[r].stage = "idle" /\ ThemeFrame
    BY <1>7 DEF WriteRow, DeleteRow, Renew, Announce, StaySilent, Goto
  <2>2. x.stage = "notify"
    BY DEF ReqType
  <2> HIDE DEF x
  <2> QED BY <2>1, <2>2, ThemeStill, ThemeLocal DEF Unmoored
<1>8. ASSUME NEW r \in Request, Notify(r) \/ LoseNotice(r) PROVE ThemeInv'
  <2>1. req' = [req EXCEPT ![r] = Idle] /\ req[r].stage = "notify" /\ ThemeFrame
    BY <1>8 DEF Notify, LoseNotice, End
  <2> QED BY <2>1, ThemeLocal DEF Idle, Unmoored
<1>9. ASSUME NEW f \in Fetch, FetchStep(f) PROVE ThemeInv'
  <2>1. ThemeFrame /\ UNCHANGED req
    BY <1>9 DEF FetchStep, StampLicence, StampThemes, StampTables, ReadRows, ReadActive, ReadTheme, Answer, FetchFails
  <2> QED BY <2>1, ThemeStill
<1>10. CASE Lapse \/ Online \/ Reload
  <2>1. ThemeFrame /\ UNCHANGED req
    BY <1>10 DEF Lapse, Online, Reload
  <2> QED BY <2>1, ThemeStill
<1> QED
  BY <1>1, <1>2, <1>3, <1>4, <1>5, <1>6, <1>7, <1>8, <1>9, <1>10, ThemeWrite, ThemeCreate, ThemeApply,
     ThemeRemove, ThemeDrop, ThemeFails, ThemeCrash
  DEF Next, ThemeStep, RowStep

LEMMA InitTheme == ASSUME TypeOK, Init PROVE ThemeInv
<1>1. \A r \in Request : req[r].stage = "idle" /\ req[r].theme = Default
  BY DEF Init, Idle
<1>2. PICK installed \in SUBSET Theme, place \in [Theme -> Dir] :
       /\ \A t, u \in installed : place[t] = place[u] => t = u
       /\ themes = [t \in installed |-> [dir |-> place[t], at |-> 1]]
       /\ dirs = [d \in Dir |-> IF \E t \in installed : place[t] = d
                                THEN "whole" ELSE "unused"]
       /\ \E a \in installed \cup {Default} : settings = [active |-> a, at |-> 1]
  BY DEF Init
<1>3. Named /\ Fresh /\ Doomed /\ Placed /\ Reading
  BY <1>1, <1>2 DEF Named, Fresh, Doomed, Placed, Reading
<1>4. DirsMatchRows
  BY <1>1, <1>2 DEF DirsMatchRows, Removing, Building
<1>5. ActiveIsInstalled
  BY <1>2 DEF ActiveIsInstalled
<1> QED BY <1>3, <1>4, <1>5 DEF ThemeInv
-----------------------------------------------------------------------------
(* Stamps and bundles. *)

\* What a step may do to the store: a row that is not new is the row it was, and
\* the directory of a theme that is not new does not become whole again.
RowsMove ==
  \A x \in DOMAIN rows' : \/ x \in DOMAIN rows /\ rows'[x] = rows[x]
                          \/ (rows'[x] > clock /\ rows'[x] <= clock')
ThemesMove ==
  \A t \in DOMAIN themes' :
    \/ /\ t \in DOMAIN themes /\ themes'[t] = themes[t]
       /\ dirs'[themes[t].dir] = "whole" => dirs[themes[t].dir] = "whole"
    \/ themes'[t].at > clock /\ themes'[t].at <= clock'
SettingsMove == settings' = settings \/ (settings'.at > clock /\ settings'.at <= clock')
TimeMoves    == clock <= clock' /\ licence <= licence'
StoreMoves   == TimeMoves /\ SettingsMove /\ RowsMove /\ ThemesMove

LEMMA NextMoves == ASSUME TypeOK, ThemeInv, Next PROVE StoreMoves
<1>0. clock \in Nat /\ clock + 1 > clock /\ licence \in 0..2
  BY DEF TypeOK, StoreType
<1>a. rows' = rows => RowsMove
  BY DEF RowsMove
<1>b. themes' = themes /\ dirs' = dirs => ThemesMove
  BY DEF ThemesMove
<1>c. settings' = settings => SettingsMove
  BY DEF SettingsMove
<1>d. (clock' = clock \/ clock' = clock + 1) /\ licence' = licence => TimeMoves
  BY <1>0 DEF TimeMoves
<1>1. ASSUME NEW r \in Request, Write(r) PROVE StoreMoves
  <2>1. PICK d \in FreeDirs : \A e \in Dir : e # d => dirs'[e] = dirs[e]
    BY <1>1 DEF Write, FreeDirs, TypeOK, StoreType
  <2>2. \A t \in DOMAIN themes : themes[t].dir \in Dir /\ themes[t].dir # d
    BY DEF ThemeInv, Placed, FreeDirs, TypeOK, StoreType, IsTable
  <2>3. ThemesMove
    BY <1>1, <2>1, <2>2 DEF Write, ThemesMove
  <2> QED BY <1>1, <2>3, <1>a, <1>c, <1>d DEF Write, StoreMoves
<1>2. ASSUME NEW r \in Request, Create(r) PROVE StoreMoves
  <2>1. ThemesMove
    BY <1>0, <1>2 DEF Create, Put, ThemesMove
  <2> QED BY <1>2, <2>1, <1>a, <1>c, <1>d DEF Create, StoreMoves
<1>3. ASSUME NEW r \in Request, Apply(r) PROVE StoreMoves
  <2>1. SettingsMove
    BY <1>0, <1>3 DEF Apply, SettingsMove
  <2> QED BY <1>3, <2>1, <1>a, <1>b, <1>d DEF Apply, StoreMoves
<1>4. ASSUME NEW r \in Request, Remove(r) PROVE StoreMoves
  <2>1. \A e \in Dir : dirs'[e] = "whole" => dirs[e] = "whole"
    BY <1>4 DEF Remove, TypeOK, StoreType
  <2>2. \A t \in DOMAIN themes : themes[t].dir \in Dir
    BY DEF TypeOK, StoreType, IsTable
  <2>3. ThemesMove
    BY <1>4, <2>1, <2>2 DEF Remove, ThemesMove
  <2> QED BY <1>4, <2>3, <1>a, <1>c, <1>d DEF Remove, StoreMoves
<1>5. ASSUME NEW r \in Request, Drop(r) PROVE StoreMoves
  <2>1. ThemesMove
    BY <1>5 DEF Drop, Without, ThemesMove
  <2> QED BY <1>5, <2>1, <1>a, <1>c, <1>d DEF Drop, StoreMoves
<1>6. ASSUME NEW r \in Request, WriteRow(r) PROVE StoreMoves
  <2>1. RowsMove
    BY <1>0, <1>6 DEF WriteRow, Put, RowsMove
  <2> QED BY <1>6, <2>1, <1>b, <1>c, <1>d DEF WriteRow, StoreMoves
<1>7. ASSUME NEW r \in Request, DeleteRow(r) PROVE StoreMoves
  <2>1. RowsMove
    BY <1>7 DEF DeleteRow, Without, RowsMove
  <2> QED BY <1>7, <2>1, <1>b, <1>c, <1>d DEF DeleteRow, StoreMoves
<1>8. ASSUME UNCHANGED <<clock, store>>, licence <= licence' PROVE StoreMoves
  <2>1. TimeMoves
    BY <1>0, <1>8 DEF TimeMoves
  <2> QED BY <1>8, <2>1, <1>a, <1>b, <1>c DEF store, StoreMoves
<1>9. ASSUME NEW r \in Request, Renew(r) PROVE StoreMoves
  BY <1>8, <1>9 DEF Renew
<1>10. CASE Lapse
  BY <1>8, <1>10 DEF Lapse
<1>11. ASSUME UNCHANGED <<clock, store, licence>> PROVE StoreMoves
  BY <1>0, <1>8, <1>11
<1> QED BY <1>1, <1>2, <1>3, <1>4, <1>5, <1>6, <1>7, <1>9, <1>10, <1>11, Steps, SilentFrame

LEMMA DatedStep == ASSUME StoreType, StoreType', Dated, StoreMoves PROVE Dated'
BY DEF StoreType, IsTable, Dated, StoreMoves, TimeMoves, SettingsMove, RowsMove, ThemesMove

LEMMA SeenStep ==
  ASSUME StoreType, StoreType', Dated, StoreMoves, NEW s, IsSeen(s), SeenPast(s)
  PROVE  SeenPast(s)'
<1>1. /\ s.changed \in Nat /\ s.licence \in 0..3 /\ IsTable(s.rows, RowId, Nat) /\ IsTable(s.themes, Theme, Nat)
  BY DEF IsSeen
<1>2. /\ clock \in Nat /\ clock' \in Nat /\ settings.at \in Nat /\ settings'.at \in Nat
      /\ licence \in 0..2 /\ licence' \in 0..2
  BY DEF StoreType
<1>3. s.changed <= settings'.at /\ (s.licence = 3 \/ s.licence <= licence')
  BY <1>1, <1>2 DEF SeenPast, StoreMoves, TimeMoves, SettingsMove, Dated
<1>4. /\ \A x \in DOMAIN s.rows : s.rows[x] <= clock'
      /\ \A t \in DOMAIN s.themes : s.themes[t] <= clock'
  BY <1>1, <1>2 DEF SeenPast, StoreMoves, TimeMoves, IsTable
<1>5. Grown(rows', s.rows)
  <2> SUFFICES ASSUME NEW x \in DOMAIN rows'
               PROVE  \/ x \in DOMAIN s.rows /\ rows'[x] = s.rows[x]
                      \/ \A y \in DOMAIN s.rows : s.rows[y] < rows'[x]
    BY DEF Grown
  <2>1. CASE x \in DOMAIN rows /\ rows'[x] = rows[x]
    BY <2>1 DEF SeenPast, Grown
  <2>2. CASE rows'[x] > clock
    BY <1>1, <1>2, <2>2 DEF SeenPast, IsTable, StoreType
  <2> QED BY <2>1, <2>2 DEF StoreMoves, RowsMove
<1>6. Grown(ThemeTimes, s.themes)'
  <2> SUFFICES ASSUME NEW x \in DOMAIN themes'
               PROVE  \/ x \in DOMAIN s.themes /\ themes'[x].at = s.themes[x]
                      \/ \A y \in DOMAIN s.themes : s.themes[y] < themes'[x].at
    BY DEF Grown, ThemeTimes
  <2>1. CASE x \in DOMAIN themes /\ themes'[x] = themes[x]
    BY <2>1 DEF SeenPast, Grown, ThemeTimes
  <2>2. CASE themes'[x].at > clock
    <3>1. themes'[x].at \in Nat
      BY DEF StoreType, IsTable
    <3> QED BY <1>1, <1>2, <2>2, <3>1 DEF SeenPast, IsTable
  <2> QED BY <2>1, <2>2 DEF StoreMoves, ThemesMove
<1> QED BY <1>3, <1>4, <1>5, <1>6 DEF SeenPast

LEMMA RowsStep ==
  ASSUME StoreType, StoreType', Dated, StoreMoves, NEW s, IsSeen(s), SeenPast(s),
         NEW b, IsBundle(b), RowsRead(s, b)
  PROVE  RowsRead(s, b)'
<1>1. /\ s.changed \in Nat /\ IsTable(s.rows, RowId, Nat) /\ b.changed \in Nat
  BY DEF IsSeen, IsBundle
<1>2. b.changed <= settings'.at
  BY <1>1 DEF RowsRead, StoreMoves, TimeMoves, SettingsMove, Dated, StoreType
<1>3. ASSUME NEW x \in DOMAIN s.rows \cap DOMAIN rows', rows'[x] = s.rows[x]
      PROVE  x \in DOMAIN b.rows /\ b.rows[x] = s.rows[x]
  <2>1. s.rows[x] <= clock /\ s.rows[x] \in Nat /\ clock \in Nat
    BY <1>1 DEF SeenPast, IsTable, StoreType
  <2>2. x \in DOMAIN rows /\ rows'[x] = rows[x]
    BY <1>3, <2>1 DEF StoreMoves, RowsMove
  <2> QED BY <1>3, <2>2 DEF RowsRead
<1> QED BY <1>2, <1>3 DEF RowsRead

LEMMA LicenceStep ==
  ASSUME StoreType, StoreType', StoreMoves, NEW s, NEW b, IsBundle(b), LicenceRead(s, b)
  PROVE  LicenceRead(s, b)'
<1>1. b.licence \in 0..3 /\ licence \in 0..2 /\ licence' \in 0..2 /\ licence <= licence'
  BY DEF IsBundle, StoreType, StoreMoves, TimeMoves
<1> QED BY <1>1 DEF LicenceRead

\* The settings of a snapshot, once overwritten, never come back.
LEMMA ChangedStep ==
  ASSUME StoreType, StoreType', Dated, StoreMoves, NEW s, IsSeen(s), SeenPast(s),
         settings'.at = s.changed
  PROVE  settings' = settings
<1>1. s.changed \in Nat /\ settings.at \in Nat /\ settings'.at \in Nat /\ clock \in Nat
  BY DEF IsSeen, StoreType
<1>2. s.changed <= settings.at /\ settings.at <= clock
  BY DEF SeenPast, Dated
<1> QED BY <1>1, <1>2 DEF StoreMoves, SettingsMove

LEMMA ThemeReadStep ==
  ASSUME StoreType, StoreType', Dated, StoreMoves, NEW s, IsSeen(s), SeenPast(s),
         NEW b, ThemeRead(s, b)
  PROVE  ThemeRead(s, b)'
<1> SUFFICES ASSUME settings'.at = s.changed
    PROVE /\ b.theme \in {settings'.active, Default}
          /\ b.theme \in DOMAIN s.themes \cup {Default}
          /\ settings'.active \in DOMAIN themes' \cap DOMAIN s.themes =>
               \/ b.theme = settings'.active
               \/ themes'[settings'.active].at # s.themes[settings'.active]
               \/ dirs'[themes'[settings'.active].dir] # "whole"
  BY DEF ThemeRead
<1>1. settings' = settings
  BY ChangedStep
<1>2. /\ b.theme \in {settings.active, Default} /\ b.theme \in DOMAIN s.themes \cup {Default}
      /\ settings.active \in DOMAIN themes \cap DOMAIN s.themes =>
           \/ b.theme = settings.active
           \/ themes[settings.active].at # s.themes[settings.active]
           \/ dirs[themes[settings.active].dir] # "whole"
  BY <1>1 DEF ThemeRead
<1> DEFINE t == settings.active
<1>3. ASSUME t \in DOMAIN themes' \cap DOMAIN s.themes, themes'[t].at = s.themes[t],
             dirs'[themes'[t].dir] = "whole"
      PROVE  b.theme = t
  <2>1. s.themes[t] <= clock /\ s.themes[t] \in Nat /\ clock \in Nat
    BY <1>3 DEF SeenPast, IsSeen, IsTable, StoreType
  <2>2. ~(themes'[t].at > clock)
    BY <1>3, <2>1
  <2>3. /\ t \in DOMAIN themes /\ themes'[t] = themes[t]
        /\ dirs'[themes[t].dir] = "whole" => dirs[themes[t].dir] = "whole"
    BY <1>3, <2>2 DEF StoreMoves, ThemesMove
  <2> QED BY <1>2, <1>3, <2>3
<1> QED BY <1>1, <1>2, <1>3

\* Resolving the theme of the settings reads them truly.
LEMMA ResolveTrue ==
  ASSUME NEW s, NEW b, b.theme = Resolve(settings.active),
         b.theme \in DOMAIN s.themes \cup {Default}
  PROVE  ThemeRead(s, b)
BY DEF ThemeRead, Resolve

LEMMA CopyFuture ==
  ASSUME StoreType, StoreType', Dated, StoreMoves, NEW c, IsCopy(c), CopyTrue(c)
  PROVE  CopyTrue(c)'
<1>1. IsSeen(c.seen) /\ IsBundle(c.bundle) /\ SeenPast(c.seen)
  BY DEF IsCopy, CopyTrue
<1>2. SeenPast(c.seen)'
  BY <1>1, SeenStep
<1>3. ASSUME c.whole
      PROVE  RowsRead(c.seen, c.bundle)' /\ LicenceRead(c.seen, c.bundle)' /\ ThemeRead(c.seen, c.bundle)'
  <2>1. RowsRead(c.seen, c.bundle) /\ LicenceRead(c.seen, c.bundle) /\ ThemeRead(c.seen, c.bundle)
    BY <1>3 DEF CopyTrue
  <2>2. RowsRead(c.seen, c.bundle)'
    BY <1>1, <2>1, RowsStep
  <2>3. LicenceRead(c.seen, c.bundle)'
    BY <1>1, <2>1, LicenceStep
  <2>4. ThemeRead(c.seen, c.bundle)'
    BY <1>1, <2>1, ThemeReadStep
  <2> QED BY <2>2, <2>3, <2>4
<1> QED BY <1>2, <1>3 DEF CopyTrue

LEMMA FetchFuture ==
  ASSUME StoreType, StoreType', Dated, StoreMoves, NEW x, IsFetch(x), FetchTrue(x)
  PROVE  FetchTrue(x)'
<1>1. IsSeen(x.seen) /\ IsBundle(x.read) /\ SeenPast(x.seen)
  BY DEF IsFetch, FetchTrue
<1>2. SeenPast(x.seen)'
  BY <1>1, SeenStep
<1>3. RowsRead(x.seen, x.read) => RowsRead(x.seen, x.read)'
  BY <1>1, RowsStep
<1>4. LicenceRead(x.seen, x.read) => LicenceRead(x.seen, x.read)'
  BY <1>1, LicenceStep
<1>5. ThemeRead(x.seen, x.read) => ThemeRead(x.seen, x.read)'
  BY <1>1, ThemeReadStep
<1>6. settings'.at = x.seen.changed => settings' = settings
  BY <1>1, ChangedStep
<1> QED BY <1>2, <1>3, <1>4, <1>5, <1>6 DEF FetchTrue

LEMMA QuietTrue ==
  ASSUME StoreType, NEW x, x.seen = NoSeen, x.stage \in {"idle", "stamp"} PROVE FetchTrue(x)
<1>1. SeenPast(NoSeen)
  <2>1. DOMAIN NoRows = {}
    BY DEF NoRows
  <2>2. Grown(rows, NoRows) /\ Grown(ThemeTimes, NoRows)
    BY <2>1 DEF Grown
  <2>3. 0 <= settings.at /\ 0 <= licence
    BY DEF StoreType
  <2> QED BY <2>1, <2>2, <2>3 DEF SeenPast, NoSeen
<1> QED BY <1>1 DEF FetchTrue

LEMMA InitScreen == ASSUME TypeOK, Init PROVE ScreenInv
<1>1. /\ clock = 1 /\ settings.at = 1 /\ licence = 0 /\ held = Copy(Now, Bundle, TRUE)
      /\ \A x \in DOMAIN rows : rows[x] = 1
      /\ \A t \in DOMAIN themes : themes[t].at = 1
      /\ \A f \in Fetch : fetch[f] = Quiet
  BY DEF Init
<1>2. Dated
  BY <1>1 DEF Dated
<1>3. \A f \in Fetch : FetchTrue(fetch[f])
  BY <1>1, QuietTrue DEF TypeOK, Quiet
<1>4. SeenPast(Now)
  BY <1>1 DEF SeenPast, Now, Grown, ThemeTimes
<1>5. RowsRead(Now, Bundle)
  BY <1>1 DEF RowsRead, Now, Bundle
<1>6. LicenceRead(Now, Bundle)
  BY <1>1 DEF LicenceRead, Now, Bundle
<1>7. ThemeRead(Now, Bundle)
  <2>1. Bundle.theme = Resolve(settings.active) /\ Now.themes = ThemeTimes
    BY DEF Bundle, Now
  <2>2. Resolve(settings.active) \in DOMAIN ThemeTimes \cup {Default}
    BY DEF Resolve, ThemeTimes
  <2> QED BY <2>1, <2>2, ResolveTrue
<1>8. held.seen = Now /\ held.bundle = Bundle
  BY <1>1 DEF Copy
<1>9. CopyTrue(held)
  BY <1>4, <1>5, <1>6, <1>7, <1>8 DEF CopyTrue
<1> QED BY <1>2, <1>3, <1>9 DEF ScreenInv

\* What a fetch puts into its snapshot and reads for its bundle is true.
LEMMA StampLicenceTrue ==
  ASSUME TypeOK, ScreenInv, NEW f \in Fetch, StampLicence(f) PROVE FetchTrue(fetch'[f])
<1>1. PICK l \in {licence, 3} : fetch'[f] = [fetch[f] EXCEPT !.stage = "tally",
        !.seen = [NoSeen EXCEPT !.licence = l]]
  BY DEF StampLicence, TypeOK, ScreenType
<1> DEFINE s == [NoSeen EXCEPT !.licence = l]
<1>2. s.licence = l /\ s.themes = NoRows /\ s.changed = 0 /\ s.rows = NoRows
  BY DEF NoSeen
<1>3. fetch'[f].stage = "tally" /\ fetch'[f].seen = s
  <2>1. IsFetch(fetch[f])
    BY DEF TypeOK, ScreenType
  <2> QED BY <1>1, <2>1 DEF IsFetch
<1> HIDE DEF s
<1>4. DOMAIN NoRows = {}
  BY DEF NoRows
<1>5. Grown(rows, s.rows) /\ Grown(ThemeTimes, s.themes)
  BY <1>2, <1>4 DEF Grown
<1>6. 0 <= settings.at /\ licence <= licence
  BY DEF TypeOK, StoreType
<1>7. SeenPast(s)
  BY <1>1, <1>2, <1>4, <1>5, <1>6 DEF SeenPast
<1> QED BY <1>3, <1>7 DEF FetchTrue

LEMMA StampThemesTrue ==
  ASSUME TypeOK, ScreenInv, NEW f \in Fetch, StampThemes(f) PROVE FetchTrue(fetch'[f])
<1>1. PICK read \in BOOLEAN : fetch'[f] = [fetch[f] EXCEPT !.stage = "count",
        !.seen = [fetch[f].seen EXCEPT !.active = settings.active, !.tallied = read,
                                       !.themes = ThemeTimes]]
  BY DEF StampThemes, TypeOK, ScreenType
<1> DEFINE s == [fetch[f].seen EXCEPT !.active = settings.active, !.tallied = read,
                                      !.themes = ThemeTimes]
<1>2. IsFetch(fetch[f]) /\ IsSeen(fetch[f].seen) /\ SeenPast(fetch[f].seen)
  BY DEF TypeOK, ScreenType, IsFetch, ScreenInv, FetchTrue
<1>3. /\ s.licence = fetch[f].seen.licence /\ s.themes = ThemeTimes
      /\ s.changed = fetch[f].seen.changed /\ s.rows = fetch[f].seen.rows
  BY <1>2 DEF IsSeen
<1>4. fetch'[f].stage = "count" /\ fetch'[f].seen = s
  BY <1>1, <1>2 DEF IsFetch
<1> HIDE DEF s
<1>5. Grown(ThemeTimes, s.themes) /\ \A t \in DOMAIN s.themes : s.themes[t] <= clock
  BY <1>3 DEF Grown, ScreenInv, Dated, ThemeTimes
<1>6. SeenPast(s)
  BY <1>2, <1>3, <1>5 DEF SeenPast
<1> QED BY <1>4, <1>6 DEF FetchTrue

LEMMA StampTablesTrue ==
  ASSUME TypeOK, ScreenInv, NEW f \in Fetch, StampTables(f) PROVE FetchTrue(fetch'[f])
<1> DEFINE s == [fetch[f].seen EXCEPT !.changed = settings.at, !.rows = rows]
<1>1. IsFetch(fetch[f]) /\ IsSeen(fetch[f].seen) /\ SeenPast(fetch[f].seen)
  BY DEF TypeOK, ScreenType, IsFetch, ScreenInv, FetchTrue
<1>2. /\ s.changed = settings.at /\ s.rows = rows
      /\ s.licence = fetch[f].seen.licence /\ s.themes = fetch[f].seen.themes
  BY <1>1 DEF IsSeen
<1>3. \E st \in {"same", "rows"} : fetch'[f] = [fetch[f] EXCEPT !.seen = s, !.stage = st]
  BY DEF StampTables, TypeOK, ScreenType
<1> HIDE DEF s
<1>4. fetch'[f].stage \in {"same", "rows"} /\ fetch'[f].seen = s
  BY <1>1, <1>3 DEF IsFetch
<1>5. settings.at <= settings.at /\ \A x \in DOMAIN rows : rows[x] <= clock
  BY DEF TypeOK, StoreType, ScreenInv, Dated
<1>6. SeenPast(s)
  BY <1>1, <1>2, <1>5 DEF SeenPast, Grown
<1> QED BY <1>4, <1>6 DEF FetchTrue

\* A step that reads leaves the stamp alone.
LEMMA GotIs ==
  ASSUME NEW x, IsFetch(x), NEW stage, NEW b, NEW w
  PROVE  LET y == Got(x, stage, b, w)
         IN  y.stage = stage /\ y.seen = x.seen /\ y.read = b /\ y.whole = w
BY DEF IsFetch, Got

LEMMA ReadRowsTrue ==
  ASSUME TypeOK, ScreenInv, NEW f \in Fetch, ReadRows(f) PROVE FetchTrue(fetch'[f])
<1> DEFINE x == fetch[f]
           b == [x.read EXCEPT !.changed = settings.at, !.rows = rows]
           w == DOMAIN rows \subseteq DOMAIN x.seen.rows
<1>1. IsFetch(x) /\ IsBundle(x.read) /\ IsSeen(x.seen) /\ SeenPast(x.seen)
  BY DEF TypeOK, ScreenType, IsFetch, ScreenInv, FetchTrue
<1>2. b.changed = settings.at /\ b.rows = rows
  BY <1>1 DEF IsBundle
<1>3. fetch'[f] = Got(x, "active", b, w)
  BY DEF ReadRows, TypeOK, ScreenType
<1>4. w => RowsRead(x.seen, b)
  <2>1. x.seen.changed <= settings.at /\ settings.at <= settings.at
    BY <1>1 DEF SeenPast, TypeOK, StoreType
  <2> QED BY <1>2, <2>1 DEF RowsRead
<1> HIDE DEF x, b, w
<1>5. fetch'[f].stage = "active" /\ fetch'[f].seen = x.seen /\ fetch'[f].read = b /\ fetch'[f].whole = w
  BY <1>1, <1>3, GotIs
<1> QED BY <1>1, <1>4, <1>5 DEF FetchTrue

LEMMA ReadActiveTrue ==
  ASSUME TypeOK, ScreenInv, NEW f \in Fetch, ReadActive(f) PROVE FetchTrue(fetch'[f])
<1>1. PICK l \in {licence, 3} : fetch'[f] = Got(fetch[f], "theme",
        [fetch[f].read EXCEPT !.licence = l, !.theme = settings.active], fetch[f].whole /\ l # 3)
  BY DEF ReadActive, TypeOK, ScreenType
<1> DEFINE x == fetch[f]
           b == [x.read EXCEPT !.licence = l, !.theme = settings.active]
           w == x.whole /\ l # 3
<1>2. IsFetch(x) /\ IsBundle(x.read) /\ SeenPast(x.seen) /\ (x.whole => RowsRead(x.seen, x.read))
  BY DEF TypeOK, ScreenType, IsFetch, ScreenInv, FetchTrue, ReadActive
<1>3. b.changed = x.read.changed /\ b.rows = x.read.rows /\ b.licence = l /\ b.theme = settings.active
  BY <1>2 DEF IsBundle
<1>4. w => RowsRead(x.seen, b)
  BY <1>2, <1>3 DEF RowsRead
<1>5. w => LicenceRead(x.seen, b)
  <2>1. licence <= licence
    BY DEF TypeOK, StoreType
  <2> QED BY <1>1, <1>2, <1>3, <2>1 DEF LicenceRead, SeenPast
<1>6. fetch'[f] = Got(x, "theme", b, w)
  BY <1>1
<1> HIDE DEF x, b, w
<1>7. fetch'[f].stage = "theme" /\ fetch'[f].seen = x.seen /\ fetch'[f].read = b /\ fetch'[f].whole = w
  BY <1>2, <1>6, GotIs
<1> QED BY <1>2, <1>3, <1>4, <1>5, <1>7 DEF FetchTrue

LEMMA ReadThemeTrue ==
  ASSUME TypeOK, ScreenInv, NEW f \in Fetch, ReadTheme(f) PROVE FetchTrue(fetch'[f])
<1> DEFINE x == fetch[f]
           found == Resolve(x.read.theme)
<1>1. PICK t \in {found, Default} : fetch'[f] = Got(x, "full", [x.read EXCEPT !.theme = t],
        x.whole /\ t = found /\ t \in DOMAIN x.seen.themes \cup {Default})
  BY DEF ReadTheme, TypeOK, ScreenType
<1> DEFINE b == [x.read EXCEPT !.theme = t]
           w == x.whole /\ t = found /\ t \in DOMAIN x.seen.themes \cup {Default}
<1>2. /\ IsFetch(x) /\ IsBundle(x.read) /\ SeenPast(x.seen)
      /\ x.whole => RowsRead(x.seen, x.read) /\ LicenceRead(x.seen, x.read)
      /\ settings.at = x.seen.changed => x.read.theme = settings.active
  BY DEF TypeOK, ScreenType, IsFetch, ScreenInv, FetchTrue, ReadTheme
<1>3. b.changed = x.read.changed /\ b.rows = x.read.rows /\ b.licence = x.read.licence /\ b.theme = t
  BY <1>2 DEF IsBundle
<1>4. w => RowsRead(x.seen, b) /\ LicenceRead(x.seen, b)
  BY <1>2, <1>3 DEF RowsRead, LicenceRead
<1>5. w => ThemeRead(x.seen, b)
  <2>1. CASE settings.at # x.seen.changed
    BY <2>1 DEF ThemeRead
  <2>2. CASE settings.at = x.seen.changed
    BY <1>2, <1>3, <2>2, ResolveTrue
  <2> QED BY <2>1, <2>2
<1>6. fetch'[f] = Got(x, "full", b, w)
  BY <1>1
<1> HIDE DEF x, b, w, found
<1>7. fetch'[f].stage = "full" /\ fetch'[f].seen = x.seen /\ fetch'[f].read = b /\ fetch'[f].whole = w
  BY <1>2, <1>6, GotIs
<1> QED BY <1>2, <1>4, <1>5, <1>7 DEF FetchTrue

\* The fetches after a step, seen from the store before it.
LEMMA FetchesTrue ==
  ASSUME TypeOK, ScreenInv, Next
  PROVE  CopyTrue(held') /\ \A f \in Fetch : FetchTrue(fetch'[f])
<1>0. /\ CopyTrue(held) /\ \A f \in Fetch : FetchTrue(fetch[f])
      /\ \A f \in Fetch : IsFetch(fetch[f])
      /\ fetch = [f \in Fetch |-> fetch[f]] /\ StoreType
  BY DEF ScreenInv, TypeOK, ScreenType
<1>1. ASSUME NEW f \in Fetch, NEW x, FetchTrue(x), fetch' = [fetch EXCEPT ![f] = x], held' = held
      PROVE  CopyTrue(held') /\ \A g \in Fetch : FetchTrue(fetch'[g])
  BY <1>0, <1>1
<1>2. ASSUME NEW x, x.seen = NoSeen, x.stage = "stamp" PROVE FetchTrue(x)
  BY <1>0, <1>2, QuietTrue
<1>3. FetchTrue(Quiet)
  BY <1>0, QuietTrue DEF Quiet
<1>4. ASSUME NEW f \in Fetch, NEW A
      PROVE  FetchTrue([Quiet EXCEPT !.stage = "stamp", !.base = held, !.after = A])
             /\ FetchTrue([Quiet EXCEPT !.stage = "stamp", !.base = held])
  BY <1>2 DEF Quiet
<1>5. ASSUME NEW f \in Fetch, Send(f), held' = held
      PROVE  CopyTrue(held') /\ \A g \in Fetch : FetchTrue(fetch'[g])
  BY <1>1, <1>4, <1>5 DEF Send
<1>6. ASSUME NEW f \in Fetch, NEW g \in Fetch PROVE FetchTrue(Settled(f)[g])
  <2>1. CASE g = f
    BY <1>3, <2>1 DEF Settled
  <2>2. CASE g # f
    <3> DEFINE y == [fetch[g] EXCEPT !.after = @ \ {f}, !.late = @ \/ g \in fetch[f].after]
    <3>1. Settled(f)[g] = y
      BY <2>2 DEF Settled
    <3>2. /\ y.seen = fetch[g].seen /\ y.stage = fetch[g].stage
          /\ y.read = fetch[g].read /\ y.whole = fetch[g].whole
      BY <1>0 DEF IsFetch
    <3> HIDE DEF y
    <3> QED BY <1>0, <3>1, <3>2 DEF FetchTrue
  <2> QED BY <2>1, <2>2
<1>7. ASSUME NEW f \in Fetch, FetchStep(f)
      PROVE  CopyTrue(held') /\ \A g \in Fetch : FetchTrue(fetch'[g])
  <2>1. ASSUME StampLicence(f) \/ StampThemes(f) \/ StampTables(f) \/ ReadRows(f) \/ ReadActive(f) \/ ReadTheme(f)
        PROVE  CopyTrue(held') /\ \A g \in Fetch : FetchTrue(fetch'[g])
    <3>1. FetchTrue(fetch'[f])
      BY <2>1, StampLicenceTrue, StampThemesTrue, StampTablesTrue, ReadRowsTrue, ReadActiveTrue, ReadThemeTrue
    <3>2. held' = held /\ \A g \in Fetch : g # f => fetch'[g] = fetch[g]
      BY <1>0, <2>1 DEF StampLicence, StampThemes, StampTables, ReadRows, ReadActive, ReadTheme
    <3> QED BY <1>0, <3>1, <3>2
  <2>2. CASE Answer(f)
    <3>1. fetch' = Settled(f)
      BY <2>2 DEF Answer
    <3>2. held' = held \/ (fetch[f].stage = "full"
                           /\ held' = Copy(fetch[f].seen, fetch[f].read, fetch[f].whole))
      BY <2>2 DEF Answer
    <3>3. fetch[f].stage = "full" => CopyTrue(Copy(fetch[f].seen, fetch[f].read, fetch[f].whole))
      BY <1>0 DEF FetchTrue, CopyTrue, Copy
    <3> QED BY <1>0, <1>6, <3>1, <3>2, <3>3
  <2>3. CASE FetchFails(f)
    <3>1. held' = held /\ fetch' = [Settled(f) EXCEPT ![f] = Quiet]
      BY <2>3 DEF FetchFails
    <3>2. \A g \in Fetch : fetch'[g] = Quiet \/ fetch'[g] = Settled(f)[g]
      BY <3>1 DEF Settled
    <3> QED BY <1>0, <1>3, <1>6, <3>1, <3>2
  <2> QED BY <1>7, <2>1, <2>2, <2>3 DEF FetchStep
<1>8. CASE Online
  BY <1>5, <1>8 DEF Online
<1>9. CASE Reload
  <2>1. PICK f \in Fetch : fetch' = [g \in Fetch |->
          IF g = f THEN [Quiet EXCEPT !.stage = "stamp", !.base = held] ELSE Quiet]
    BY <1>9 DEF Reload
  <2>2. held' = held
    BY <1>9 DEF Reload
  <2> QED BY <1>0, <1>3, <1>4, <2>1, <2>2
<1>10. CASE Crash
  BY <1>0, <1>3, <1>10 DEF Crash
<1>11. ASSUME NEW r \in Request, Notify(r)
       PROVE  CopyTrue(held') /\ \A g \in Fetch : FetchTrue(fetch'[g])
  BY <1>5, <1>11 DEF Notify
<1>12. ASSUME UNCHANGED <<fetch, held>>
       PROVE  CopyTrue(held') /\ \A g \in Fetch : FetchTrue(fetch'[g])
  BY <1>0, <1>12
<1>13. ASSUME NEW r \in Request, ThemeStep(r) PROVE UNCHANGED <<fetch, held>>
  <2>1. CASE Submit(r) \/ Check(r) \/ Write(r) \/ Create(r) \/ Lookup(r) \/ Load(r)
    BY <2>1 DEF Submit, Check, Write, Create, Lookup, Load, screen
  <2>2. CASE Apply(r) \/ Find(r) \/ Remove(r) \/ Drop(r) \/ Revert(r) \/ Fails(r)
    BY <2>2 DEF Apply, Find, Remove, Drop, Revert, Fails, screen
  <2> QED BY <1>13, <2>1, <2>2 DEF ThemeStep
<1>14. ASSUME NEW r \in Request, WriteRow(r) \/ DeleteRow(r) \/ Renew(r) \/ LoseNotice(r) \/ Lapse
       PROVE  UNCHANGED <<fetch, held>>
  BY <1>14 DEF WriteRow, DeleteRow, Renew, LoseNotice, Lapse, screen
<1>15. CASE Lapse
  BY <1>12, <1>15 DEF Lapse, screen
<1> QED BY <1>7, <1>8, <1>9, <1>10, <1>11, <1>12, <1>13, <1>14, <1>15 DEF Next, RowStep

LEMMA ScreenMoves == ASSUME TypeOK, TypeOK', ThemeInv, ScreenInv, Next PROVE ScreenInv'
<1>1. StoreType /\ StoreType' /\ Dated /\ StoreMoves
  BY NextMoves DEF TypeOK, ScreenInv
<1>2. Dated'
  BY <1>1, DatedStep
<1>3. CopyTrue(held') /\ \A f \in Fetch : FetchTrue(fetch'[f])
  BY FetchesTrue
<1>4. IsCopy(held') /\ \A f \in Fetch : IsFetch(fetch'[f])
  BY DEF TypeOK, ScreenType
<1>5. CopyTrue(held)'
  BY <1>1, <1>3, <1>4, CopyFuture
<1>6. \A f \in Fetch : FetchTrue(fetch[f])'
  BY <1>1, <1>3, <1>4, FetchFuture
<1> QED BY <1>2, <1>5, <1>6 DEF ScreenInv

-----------------------------------------------------------------------------
(* What the invariant says of a copy whose stamp is the current one. *)

LEMMA SoundTheme ==
  ASSUME TypeOK, Sound, NEW s, NEW b, ThemeRead(s, b),
         s.changed = settings.at, s.themes = ThemeTimes
  PROVE  b.theme = Resolve(settings.active)
<1> DEFINE a == settings.active
<1>1. /\ b.theme \in {a, Default} /\ b.theme \in DOMAIN themes \cup {Default}
      /\ a \in DOMAIN themes =>
           b.theme = a \/ dirs[themes[a].dir] # "whole"
  BY DEF ThemeRead, ThemeTimes
<1>2. CASE a \in DOMAIN themes
  <2>1. Resolve(a) = a /\ a # Default
    BY <1>2, DefaultIsBuiltIn DEF Sound, TypeOK, StoreType, IsTable
  <2>2. dirs[themes[a].dir] = "whole"
    BY <2>1 DEF Resolve
  <2> QED BY <1>1, <1>2, <2>1, <2>2
<1>3. CASE a \notin DOMAIN themes
  BY <1>1, <1>3 DEF Resolve
<1> QED BY <1>2, <1>3

LEMMA CurrentCopy ==
  ASSUME TypeOK, ScreenInv, NEW c, IsCopy(c), CopyTrue(c),
         c.whole, Sound, Stamp(c.seen) = Stamp(Now)
  PROVE  c.bundle = Bundle
<1> DEFINE s == c.seen
           b == c.bundle
<1>1. /\ IsSeen(s) /\ IsBundle(b) /\ SeenPast(s)
      /\ RowsRead(s, b) /\ LicenceRead(s, b) /\ ThemeRead(s, b)
  BY DEF IsCopy, CopyTrue
<1> HIDE DEF s, b
<1>2. /\ s.licence = licence /\ Summary(s.themes) = Summary(ThemeTimes)
      /\ s.changed = settings.at /\ Summary(s.rows) = Summary(rows)
  BY DEF Stamp, Counted, Now, s
<1>3. /\ IsTable(rows, RowId, Nat) /\ IsTable(s.rows, RowId, Nat) /\ clock \in Nat
      /\ IsTable(ThemeTimes, Theme, Nat) /\ IsTable(s.themes, Theme, Nat)
      /\ licence \in 0..2 /\ settings.at \in Nat
  BY <1>1, NowTyped DEF IsSeen, TypeOK, StoreType
<1>4. s.rows = rows
  <2>1. /\ \A x \in DOMAIN rows : rows[x] <= clock
        /\ \A x \in DOMAIN s.rows : s.rows[x] <= clock
        /\ Grown(rows, s.rows)
    BY <1>1 DEF ScreenInv, Dated, SeenPast
  <2> QED BY <1>2, <1>3, <2>1, RowIdFinite, SameSummary
<1>5. s.themes = ThemeTimes
  <2>1. /\ \A t \in DOMAIN ThemeTimes : ThemeTimes[t] <= clock
        /\ \A t \in DOMAIN s.themes : s.themes[t] <= clock
        /\ Grown(ThemeTimes, s.themes)
    BY <1>1 DEF ScreenInv, Dated, SeenPast, ThemeTimes
  <2> QED BY <1>2, <1>3, <2>1, ThemeFinite, SameSummary
<1>6. b.rows = rows
  BY <1>1, <1>3, <1>4 DEF RowsRead, IsBundle, IsTable
<1>7. b.changed = settings.at
  BY <1>1, <1>2, <1>3 DEF RowsRead, IsBundle
<1>8. b.licence = licence
  BY <1>1, <1>2, <1>3 DEF LicenceRead, IsBundle
<1>9. b.theme = Resolve(settings.active)
  BY <1>1, <1>2, <1>5, SoundTheme
<1>10. b = [licence |-> b.licence, theme |-> b.theme, changed |-> b.changed, rows |-> b.rows]
  BY <1>1 DEF IsBundle
<1> QED BY <1>6, <1>7, <1>8, <1>9, <1>10 DEF Bundle, b

LEMMA Faithful == ASSUME IInv PROVE EtagFaithful
BY CurrentCopy DEF IInv, EtagFaithful, TypeOK, ScreenType, ScreenInv

-----------------------------------------------------------------------------
(* The theorems. *)

LEMMA Start == ASSUME Init PROVE IInv
BY InitTypes, InitTheme, InitScreen DEF IInv

LEMMA Step == ASSUME IInv, [Next]_vars PROVE IInv'
<1>1. CASE Next
  <2>1. TypeOK /\ Named /\ ThemeInv /\ ScreenInv
    BY DEF IInv, ThemeInv
  <2>2. TypeOK'
    BY <1>1, <2>1, StoreStep, ScreenStep, ReqStep, CountStep DEF TypeOK
  <2>3. ThemeInv'
    BY <1>1, <2>1, ThemeStep1
  <2>4. ScreenInv'
    BY <1>1, <2>1, <2>2, ScreenMoves
  <2> QED BY <2>2, <2>3, <2>4 DEF IInv
<1>2. CASE UNCHANGED vars
  <2>1. TypeOK'
    BY <1>2, StutterTypes DEF IInv
  <2>2. ThemeInv'
    BY <1>2, ThemeStill DEF IInv, ThemeFrame, vars, store
  <2>3. /\ clock' = clock /\ settings' = settings /\ themes' = themes /\ dirs' = dirs
        /\ rows' = rows /\ licence' = licence /\ fetch' = fetch /\ held' = held
    BY <1>2 DEF vars, store, screen
  <2>4. ScreenInv'
    BY <2>3 DEF IInv, ScreenInv, Dated, CopyTrue, FetchTrue, SeenPast, RowsRead, LicenceRead,
                ThemeRead, Grown, ThemeTimes
  <2> QED BY <2>1, <2>2, <2>4 DEF IInv
<1> QED BY <1>1, <1>2

(* The inductive invariant holds in every state. *)
THEOREM Invariant == Spec => []IInv
<1>1. Init => IInv
  BY Start
<1>2. IInv /\ [Next]_vars => IInv'
  BY Step
<1> QED BY <1>1, <1>2, PTL DEF Spec

(* Every variable has its type (themes/store.ts, api/content). *)
THEOREM Types == Spec => []TypeOK
<1>1. IInv => TypeOK
  BY DEF IInv
<1> QED BY <1>1, Invariant, PTL

(* The directories of imported themes and the rows of their table agree but  *)
(* for what a failure or a restart left behind, whatever installations,      *)
(* activations and deletions overlap (installTheme, deleteTheme).            *)
THEOREM DirectoriesMatch == Spec => []DirsMatchRows
<1>1. IInv => DirsMatchRows
  BY DEF IInv, ThemeInv
<1> QED BY <1>1, Invariant, PTL

(* The settings name an installed theme, unless its deletion is still to     *)
(* revert them, failed, or crossed an activation (activateTheme, deleteTheme).*)
THEOREM ActiveInstalled == Spec => []ActiveIsInstalled
<1>1. IInv => ActiveIsInstalled
  BY DEF IInv, ThemeInv
<1> QED BY <1>1, Invariant, PTL

(* A 304 keeps a bundle only if it is the current one: COUNT and MAX tell    *)
(* every change of a table from the snapshot they were taken of, for any     *)
(* number of rows, themes and overlapping writes (contentVersionStamp).      *)
THEOREM RevalidationFaithful == Spec => []EtagFaithful
<1>1. IInv => EtagFaithful
  BY Faithful
<1> QED BY <1>1, Invariant, PTL

-----------------------------------------------------------------------------
(* What is under way to the screen.  Every change is announced by a request *)
(* that is still to notify it, carried by the last fetch sent, or shown.    *)

\* A request that will still change the settings or tell the screen.
Pending(r) == \/ req[r].stage \in {"reset", "notify"}
              \/ req[r].stage = "revert" /\ req[r].theme = settings.active

\* A snapshot of the themes has the row of the active theme, as it is now.
Agrees(s) ==
  /\ settings.active \in DOMAIN s.themes <=> settings.active \in DOMAIN themes
  /\ settings.active \in DOMAIN themes => s.themes[settings.active] = themes[settings.active].at

\* The rows of a table are the current ones, as far as the screen was told.
Told(tab) == unsaid \/ tab = rows

\* A bundle is what the screen should show.
Matches(b) == /\ b.licence = licence /\ b.theme = Resolve(settings.active)
              /\ b.changed = settings.at /\ Told(b.rows)

\* What a fetch has seen and read so far is current.
UpToDate(x) ==
  /\ ~x.late
  /\ x.stage \in {"tally", "count", "same"} => x.seen.licence \in {licence, 3}
  /\ x.stage \in {"count", "same"} => Agrees(x.seen)
  /\ x.stage = "same" => x.seen.changed = settings.at /\ Told(x.seen.rows)
  /\ x.stage \in {"active", "theme"} => x.read.changed = settings.at /\ Told(x.read.rows)
  /\ x.stage = "theme" =>
       x.read.theme = settings.active /\ (x.whole => x.read.licence = licence)
  /\ x.stage = "full" => (x.whole /\ Sound => Matches(x.read))

\* The fetch sent after all others.
LastSent(f) == /\ \A g \in Flying : f \notin fetch[g].after
               /\ \A g \in Flying \ {f} : g \in fetch[f].after

ShowsCurrent == shown.whole /\ Sound => Matches(shown.bundle)
Bringing     == \E f \in Flying : LastSent(f) /\ UpToDate(fetch[f])
Brought      == ShowsCurrent /\ \A f \in Flying : fetch[f].late
Delivering   == missed \/ (\E r \in Request : Pending(r)) \/ Bringing \/ Brought

SentAfterFlying == \A f \in Fetch : fetch[f].after \subseteq Flying

\* The copy a fetch revalidates is true, and its stamp is as old as it.
Based(x) ==
  /\ x.stage # "idle" => CopyTrue(x.base)
  /\ x.stage \notin {"idle", "stamp", "tally"} => Grown(x.seen.themes, x.base.seen.themes)
  /\ x.stage = "same" => Stamp(x.seen) = Stamp(x.base.seen)

DeliveryInv == SentAfterFlying /\ (\A f \in Fetch : Based(fetch[f])) /\ Delivering

\* A step that changes nothing of what the screen would be answered.
KeepsView ==
  /\ settings' = settings /\ licence' = licence /\ (unsaid' \/ (~unsaid /\ rows' = rows))
  /\ settings.active \in DOMAIN themes' <=> settings.active \in DOMAIN themes
  /\ settings.active \in DOMAIN themes => themes'[settings.active] = themes[settings.active]
  /\ Sound' => Sound /\ Resolve(settings.active)' = Resolve(settings.active)

\* It is enough that it keeps the row of the active theme.
LEMMA ViewKept ==
  ASSUME TypeOK, ScreenInv, StoreMoves,
         settings' = settings, licence' = licence, unsaid' \/ (~unsaid /\ rows' = rows),
         settings.active \in DOMAIN themes' <=> settings.active \in DOMAIN themes,
         settings.active \in DOMAIN themes => themes'[settings.active] = themes[settings.active]
  PROVE  KeepsView
<1> DEFINE a == settings.active
<1>1. CASE a \in DOMAIN themes
  <2>1. a # Default
    BY <1>1, DefaultIsBuiltIn DEF TypeOK, StoreType, IsTable
  <2>2. themes[a].at <= clock /\ themes[a].at \in Nat /\ clock \in Nat
    BY <1>1 DEF ScreenInv, Dated, TypeOK, StoreType, IsTable
  <2>3. ~(themes'[a].at > clock)
    BY <1>1, <2>2
  <2>4. dirs'[themes[a].dir] = "whole" => dirs[themes[a].dir] = "whole"
    BY <1>1, <2>3 DEF StoreMoves, ThemesMove
  <2>5. Sound' => dirs'[themes[a].dir] = "whole"
    BY <1>1, <2>1 DEF Sound, Resolve
  <2>6. dirs[themes[a].dir] = "whole" => Resolve(a) = a
    BY <1>1 DEF Resolve
  <2>7. Sound' => Resolve(a) = a /\ Resolve(a)' = a
    BY <1>1, <2>4, <2>5, <2>6 DEF Resolve
  <2> QED BY <2>7 DEF KeepsView, Sound
<1>2. CASE a \notin DOMAIN themes
  <2>1. Resolve(a) = Default /\ Resolve(a)' = Default
    BY <1>2 DEF Resolve
  <2> QED BY <1>2, <2>1 DEF KeepsView, Sound
<1> QED BY <1>1, <1>2

LEMMA PendingLocal ==
  ASSUME NEW r \in Request, settings' = settings, ~Pending(r),
         \A q \in Request \ {r} : req'[q].stage = req[q].stage /\ req'[q].theme = req[q].theme,
         \A q \in Request : ~Pending(q)'
  PROVE  \A q \in Request : ~Pending(q)
BY DEF Pending

\* The frame of a step of r that touches no other request.
LEMMA StepLocal ==
  ASSUME TypeOK, ScreenInv, StoreMoves, NEW r \in Request, ~Pending(r),
         settings' = settings, themes' = themes, licence' = licence,
         unsaid' \/ (~unsaid /\ rows' = rows),
         \A q \in Request \ {r} : req'[q] = req[q],
         \A q \in Request : ~Pending(q)'
  PROVE  (\A q \in Request : ~Pending(q)) /\ KeepsView
BY PendingLocal, ViewKept

\* Steps of the theme routes change nothing visible, or stay announced.
LEMMA QuietSteps ==
  ASSUME TypeOK, ThemeInv, ScreenInv, StoreMoves, NEW r \in Request, ~missed', \A q \in Request : ~Pending(q)',
         Submit(r) \/ Check(r) \/ Write(r) \/ Lookup(r) \/ Load(r) \/ Find(r) \/ Remove(r) \/ Fails(r) \/ Revert(r)
  PROVE  ~missed /\ (\A q \in Request : ~Pending(q)) /\ KeepsView
<1>0. req \in [Request -> [stage : Stage, theme : Theme \cup {Default},
                           dir : Dir \cup {NoDir}, stale : BOOLEAN]]
  BY DEF TypeOK, ReqType
<1>1. CASE Submit(r)
  <2>1. \A q \in Request \ {r} : req'[q] = req[q]
    BY <1>0, <1>1 DEF Submit
  <2>2. ~Pending(r) /\ UNCHANGED <<settings, themes, rows, licence, missed, unsaid>>
    BY <1>1 DEF Submit, Pending, store, gaps
  <2> QED BY <2>1, <2>2, StepLocal
<1>2. CASE Check(r) \/ Lookup(r) \/ Load(r) \/ Find(r)
  <2>1. \A q \in Request \ {r} : req'[q] = req[q]
    BY <1>0, <1>2 DEF Check, Lookup, Load, Find, Goto, End
  <2>2. ~Pending(r) /\ UNCHANGED <<settings, themes, rows, licence, missed, unsaid>>
    BY <1>2 DEF Check, Lookup, Load, Find, Pending, store, gaps
  <2> QED BY <2>1, <2>2, StepLocal
<1>3. CASE Write(r) \/ Remove(r)
  <2>1. \A q \in Request \ {r} : req'[q] = req[q]
    BY <1>0, <1>3 DEF Write, Remove, Goto, End
  <2>2. ~Pending(r) /\ UNCHANGED <<settings, themes, rows, licence, missed, unsaid>>
    BY <1>3 DEF Write, Remove, Pending, gaps
  <2> QED BY <2>1, <2>2, StepLocal
<1>4. CASE Fails(r)
  <2>1. \A q \in Request \ {r} : req'[q] = req[q]
    BY <1>0, <1>4 DEF Fails, End
  <2>2. ~missed /\ ~Unannounced(r)
    BY <1>4 DEF Fails
  <2>3. ~Pending(r) /\ UNCHANGED <<settings, themes, rows, licence, unsaid>>
    BY <1>4, <2>2 DEF Fails, Pending, Unannounced, store, gaps
  <2> QED BY <2>1, <2>2, <2>3, StepLocal
<1>5. CASE Revert(r)
  <2>1. settings.active # req[r].theme
    <3> SUFFICES ASSUME settings.active = req[r].theme PROVE FALSE
      OBVIOUS
    <3>1. req'[r].stage = "reset"
      BY <1>0, <1>5 DEF Revert, Goto
    <3> QED BY <3>1 DEF Pending, gaps
  <2>2. \A q \in Request \ {r} : req'[q] = req[q]
    BY <1>0, <1>5 DEF Revert, Goto, End
  <2>3. ~Pending(r) /\ UNCHANGED <<settings, themes, rows, licence, missed, unsaid>>
    BY <1>5, <2>1 DEF Revert, Pending, store, gaps
  <2> QED BY <2>2, <2>3, StepLocal
<1> QED BY <1>1, <1>2, <1>3, <1>4, <1>5

LEMMA CreateAnnounced ==
  ASSUME TypeOK, ThemeInv, ScreenInv, StoreMoves, NEW r \in Request, ~missed',
         \A q \in Request : ~Pending(q)', Create(r)
  PROVE  ~missed /\ (\A q \in Request : ~Pending(q)) /\ KeepsView
<1>0. req \in [Request -> [stage : Stage, theme : Theme \cup {Default},
                           dir : Dir \cup {NoDir}, stale : BOOLEAN]]
  BY DEF TypeOK, ReqType
<1>1. /\ \A q \in Request \ {r} : req'[q] = req[q]
      /\ ~Pending(r) /\ ~missed /\ UNCHANGED <<settings, rows, licence, unsaid>>
  <2>1. /\ \A q \in Request \ {r} : req'[q] = req[q]
        /\ ~Pending(r) /\ UNCHANGED <<settings, rows, licence, unsaid>>
    BY <1>0 DEF Create, End, Pending, gaps
  <2>2. ~missed
    BY DEF Create, gaps
  <2> QED BY <2>1, <2>2
<1>2. CASE req[r].theme \in DOMAIN themes
  BY <1>1, <1>2, StepLocal DEF Create
<1>3. CASE req[r].theme \notin DOMAIN themes
  <2>1. settings.active # req[r].theme
    BY <1>3 DEF Create
  <2>2. themes' = Put(themes, req[r].theme, [dir |-> req[r].dir, at |-> clock'])
    BY <1>3 DEF Create
  <2>3. /\ settings.active \in DOMAIN themes' <=> settings.active \in DOMAIN themes
        /\ settings.active \in DOMAIN themes => themes'[settings.active] = themes[settings.active]
    BY <2>1, <2>2 DEF Put
  <2> QED BY <1>1, <2>3, PendingLocal, ViewKept
<1> QED BY <1>2, <1>3

LEMMA DropAnnounced ==
  ASSUME TypeOK, ThemeInv, ScreenInv, StoreMoves, NEW r \in Request, ~missed',
         \A q \in Request : ~Pending(q)', Drop(r)
  PROVE  ~missed /\ (\A q \in Request : ~Pending(q)) /\ KeepsView
<1>0. req \in [Request -> [stage : Stage, theme : Theme \cup {Default},
                           dir : Dir \cup {NoDir}, stale : BOOLEAN]]
  BY DEF TypeOK, ReqType
<1>1. ~Pending(r) /\ ~missed /\ UNCHANGED <<settings, rows, licence, unsaid>>
  BY DEF Drop, Pending, gaps
<1>2. \A q \in Request \ {r} : req'[q].stage = req[q].stage /\ req'[q].theme = req[q].theme
  BY <1>0 DEF Drop, End
<1>3. CASE SameRow(r)
  <2>1. req'[r].stage = "revert" /\ req'[r].theme = req[r].theme
    BY <1>0, <1>3 DEF Drop
  <2>2. settings.active # req[r].theme
    BY <1>1, <2>1 DEF Pending, gaps
  <2>3. themes' = Without(themes, req[r].theme)
    BY <1>3 DEF Drop
  <2>4. /\ settings.active \in DOMAIN themes' <=> settings.active \in DOMAIN themes
        /\ settings.active \in DOMAIN themes => themes'[settings.active] = themes[settings.active]
    BY <2>2, <2>3 DEF Without
  <2> QED BY <1>1, <1>2, <2>4, PendingLocal, ViewKept
<1>4. CASE ~SameRow(r)
  <2>1. themes' = themes
    BY <1>4 DEF Drop
  <2> QED BY <1>1, <1>2, <2>1, PendingLocal, ViewKept
<1> QED BY <1>3, <1>4

\* The steps that leave the screen and its fetches alone.
Upstream(r) == ThemeStep(r) \/ WriteRow(r) \/ DeleteRow(r) \/ Renew(r) \/ LoseNotice(r)

LEMMA Announced ==
  ASSUME TypeOK, ThemeInv, ScreenInv, StoreMoves, ~missed', \A q \in Request : ~Pending(q)',
         (\E r \in Request : Upstream(r)) \/ Lapse
  PROVE  ~missed /\ (\A q \in Request : ~Pending(q)) /\ KeepsView
<1>0. req \in [Request -> [stage : Stage, theme : Theme \cup {Default},
                           dir : Dir \cup {NoDir}, stale : BOOLEAN]]
  BY DEF TypeOK, ReqType
<1>1. PICK r \in Request : Upstream(r)
  BY DEF Lapse
<1>2. \A q \in Request : req'[q].stage # "notify"
  BY DEF Pending
<1>3. ~Apply(r)
  BY <1>0, <1>2 DEF Apply, Goto
<1>4. ~Renew(r)
  BY <1>0, <1>2 DEF Renew, Goto
<1>6. ASSUME WriteRow(r) \/ DeleteRow(r)
      PROVE  ~missed /\ (\A q \in Request : ~Pending(q)) /\ KeepsView
  <2>1. ~Announce(r)
    BY <1>0, <1>2 DEF Announce, Goto
  <2>2. /\ unsaid' = TRUE /\ UNCHANGED <<req, missed, settings, themes, licence>>
        /\ req[r].stage = "idle"
    BY <1>6, <2>1 DEF WriteRow, DeleteRow, StaySilent
  <2>3. ~Pending(r)
    BY <2>2 DEF Pending
  <2> QED BY <2>2, <2>3, StepLocal
<1>5. ~LoseNotice(r)
  BY DEF LoseNotice
<1> QED BY <1>1, <1>3, <1>4, <1>5, <1>6, QuietSteps, CreateAnnounced, DropAnnounced DEF Upstream, ThemeStep

\* What was current stays so while the view is kept.
LEMMA StaysUpToDate ==
  ASSUME KeepsView, NEW x, UpToDate(x) PROVE UpToDate(x)'
<1>1. x.stage \in {"count", "same"} => Agrees(x.seen)'
  BY DEF KeepsView, UpToDate, Agrees
<1> QED BY <1>1 DEF KeepsView, UpToDate, Told, Matches

LEMMA UpstreamScreen ==
  ASSUME (\E r \in Request : Upstream(r)) \/ Lapse PROVE UNCHANGED <<fetch, held, shown>>
<1>1. ASSUME NEW r \in Request, ThemeStep(r) PROVE UNCHANGED <<fetch, held, shown>>
  <2>1. CASE Submit(r) \/ Check(r) \/ Write(r) \/ Create(r) \/ Lookup(r) \/ Load(r)
    BY <2>1 DEF Submit, Check, Write, Create, Lookup, Load, screen
  <2>2. CASE Apply(r) \/ Find(r) \/ Remove(r) \/ Drop(r) \/ Revert(r) \/ Fails(r)
    BY <2>2 DEF Apply, Find, Remove, Drop, Revert, Fails, screen
  <2> QED BY <1>1, <2>1, <2>2 DEF ThemeStep
<1>2. ASSUME NEW r \in Request, WriteRow(r) \/ DeleteRow(r) \/ Renew(r) \/ LoseNotice(r)
      PROVE  UNCHANGED <<fetch, held, shown>>
  BY <1>2 DEF WriteRow, DeleteRow, Renew, LoseNotice, screen
<1>3. CASE Lapse
  BY <1>3 DEF Lapse, screen
<1> QED BY <1>1, <1>2, <1>3 DEF Upstream

LEMMA UpstreamDelivers ==
  ASSUME TypeOK, ThemeInv, ScreenInv, StoreMoves, Delivering,
         (\E r \in Request : Upstream(r)) \/ Lapse, UNCHANGED <<fetch, shown>>
  PROVE  Delivering'
<1> SUFFICES ASSUME ~missed', \A r \in Request : ~Pending(r)'
             PROVE  Bringing' \/ Brought'
  BY DEF Delivering
<1>1. ~missed /\ (\A r \in Request : ~Pending(r)) /\ KeepsView
  BY Announced
<1>2. CASE Bringing
  <2>1. PICK f \in Flying : LastSent(f) /\ UpToDate(fetch[f])
    BY <1>2 DEF Bringing
  <2>2. Flying' = Flying /\ LastSent(f)'
    BY <2>1 DEF Flying, LastSent
  <2>3. UpToDate(fetch[f])'
    BY <1>1, <2>1, StaysUpToDate
  <2> QED BY <2>1, <2>2, <2>3 DEF Bringing
<1>3. CASE Brought
  BY <1>1, <1>3 DEF Brought, ShowsCurrent, Matches, Told, KeepsView, Flying
<1> QED BY <1>1, <1>2, <1>3 DEF Delivering

-----------------------------------------------------------------------------
(* The fetches. *)

\* A fetch that is sent is the last.
LEMMA SendDelivers ==
  ASSUME ScreenType, SentAfterFlying, NEW f \in Fetch, Send(f) PROVE Delivering' /\ SentAfterFlying'
<1> DEFINE y == [Quiet EXCEPT !.stage = "stamp", !.base = held, !.after = Flying]
<1>1. fetch'[f] = y /\ (\A g \in Fetch \ {f} : fetch'[g] = fetch[g]) /\ f \notin Flying
  BY DEF Send, ScreenType, Flying
<1>2. y.stage = "stamp" /\ y.after = Flying /\ y.late = FALSE
  BY DEF Quiet
<1> HIDE DEF y
<1>3. Flying' = Flying \cup {f}
  BY <1>1, <1>2 DEF Flying
<1>4. SentAfterFlying'
  BY <1>1, <1>2, <1>3 DEF SentAfterFlying
<1>5. LastSent(f)'
  <2>1. \A g \in Flying : f \notin fetch[g].after
    BY <1>1 DEF SentAfterFlying, Flying
  <2> QED BY <1>1, <1>2, <1>3, <2>1 DEF LastSent, Flying
<1>6. UpToDate(fetch[f])'
  BY <1>1, <1>2 DEF UpToDate
<1> QED BY <1>3, <1>4, <1>5, <1>6 DEF Delivering, Bringing

LEMMA ReloadDelivers ==
  ASSUME Reload PROVE Delivering' /\ SentAfterFlying'
<1> DEFINE y == [Quiet EXCEPT !.stage = "stamp", !.base = held]
<1>1. PICK f \in Fetch : fetch' = [g \in Fetch |-> IF g = f THEN y ELSE Quiet]
  BY DEF Reload
<1>2. /\ y.stage = "stamp" /\ y.after = {} /\ y.late = FALSE
      /\ Quiet.stage = "idle" /\ Quiet.after = {}
  BY DEF Quiet
<1>3. fetch'[f] = y /\ \A g \in Fetch \ {f} : fetch'[g] = Quiet
  BY <1>1
<1> HIDE DEF y
<1>4. Flying' = {f}
  BY <1>2, <1>3 DEF Flying
<1>5. LastSent(f)' /\ SentAfterFlying'
  BY <1>2, <1>3, <1>4 DEF LastSent, SentAfterFlying
<1>6. UpToDate(fetch[f])'
  BY <1>2, <1>3 DEF UpToDate
<1> QED BY <1>4, <1>5, <1>6 DEF Delivering, Bringing

LEMMA CrashDelivers ==
  ASSUME TypeOK, Crash, Delivering, SentAfterFlying PROVE Delivering' /\ SentAfterFlying'
<1>1. Quiet.stage = "idle" /\ Quiet.after = {}
  BY DEF Quiet
<1>2. \A f \in Fetch : fetch'[f] = Quiet
  BY DEF Crash
<1>3. Flying' = {} /\ SentAfterFlying'
  BY <1>1, <1>2 DEF Flying, SentAfterFlying
<1>4. SUFFICES ASSUME ~missed' PROVE Brought'
  BY <1>3 DEF Delivering
<1>5. ~missed /\ Flying = {} /\ \A r \in Request : ~Unannounced(r)
  BY <1>4 DEF Crash
<1>6. \A r \in Request : ~Pending(r)
  BY <1>5 DEF Pending, Unannounced
<1>7. ShowsCurrent
  BY <1>5, <1>6 DEF Delivering, Bringing, Brought
<1>8. UNCHANGED <<settings, themes, dirs, rows, licence, shown, unsaid>>
  BY DEF Crash, store
<1>9. ShowsCurrent'
  BY <1>7, <1>8 DEF ShowsCurrent, Sound, Resolve, Matches, Told
<1> QED BY <1>3, <1>9 DEF Brought

-----------------------------------------------------------------------------
\* The end of a fetch, seen from the others.
LEMMA Settlement ==
  ASSUME ScreenType, NEW f \in Fetch, NEW g \in Fetch \ {f}
  PROVE  /\ Settled(f)[g].stage = fetch[g].stage /\ Settled(f)[g].seen = fetch[g].seen
         /\ Settled(f)[g].base = fetch[g].base
         /\ Settled(f)[g].read = fetch[g].read /\ Settled(f)[g].whole = fetch[g].whole
         /\ Settled(f)[g].after = fetch[g].after \ {f}
         /\ Settled(f)[g].late <=> (fetch[g].late \/ g \in fetch[f].after)
<1> DEFINE y == [fetch[g] EXCEPT !.after = @ \ {f}, !.late = @ \/ g \in fetch[f].after]
<1>1. IsFetch(fetch[g]) /\ Settled(f)[g] = y
  BY DEF ScreenType, Settled
<1>2. /\ y.stage = fetch[g].stage /\ y.seen = fetch[g].seen /\ y.base = fetch[g].base
      /\ y.read = fetch[g].read /\ y.whole = fetch[g].whole
      /\ y.after = fetch[g].after \ {f}
      /\ y.late = (fetch[g].late \/ g \in fetch[f].after)
  BY <1>1 DEF IsFetch
<1> QED BY <1>1, <1>2

StoreStill == UNCHANGED <<settings, themes, dirs, rows, licence, req, unsaid>>

LEMMA StillPending == ASSUME StoreStill, NEW r \in Request PROVE Pending(r)' <=> Pending(r)
BY DEF StoreStill, Pending

LEMMA StillUpToDate == ASSUME StoreStill, NEW x PROVE UpToDate(x)' <=> UpToDate(x)
BY DEF StoreStill, UpToDate, Agrees, Sound, Resolve, Matches, Told

LEMMA StillCurrent ==
  ASSUME StoreStill PROVE (shown'.whole /\ Sound => Matches(shown'.bundle)) => ShowsCurrent'
BY DEF StoreStill, ShowsCurrent, Sound, Resolve, Matches, Told

\* The last fetch stays the last and up to date when another one ends.
LEMMA LastRemains ==
  ASSUME ScreenType, StoreStill, NEW f \in Fetch, fetch[f].stage # "idle", fetch' = Settled(f),
         NEW l \in Flying \ {f}, LastSent(l), UpToDate(fetch[l])
  PROVE  Bringing'
<1>1. l \in Fetch /\ f \in Flying /\ l \notin fetch[f].after
  BY DEF Flying, LastSent
<1>2. fetch'[f].stage = "idle"
  BY DEF Settled, Quiet
<1>3. Flying' = Flying \ {f}
  BY <1>2, Settlement DEF Flying
<1>4. LastSent(l)'
  <2>1. \A g \in Flying \ {f} : fetch'[g].after = fetch[g].after \ {f}
    BY Settlement DEF Flying
  <2> QED BY <1>3, <2>1 DEF LastSent
<1>5. UpToDate(fetch'[l])
  <2>1. /\ fetch'[l].stage = fetch[l].stage /\ fetch'[l].seen = fetch[l].seen
        /\ fetch'[l].read = fetch[l].read /\ fetch'[l].whole = fetch[l].whole
        /\ fetch'[l].late <=> (fetch[l].late \/ l \in fetch[f].after)
    BY <1>1, Settlement
  <2> QED BY <1>1, <2>1 DEF UpToDate
<1>6. UpToDate(fetch[l])'
  BY <1>5, StillUpToDate
<1> QED BY <1>3, <1>4, <1>6 DEF Bringing

LEMMA SettledAfter ==
  ASSUME ScreenType, SentAfterFlying, NEW f \in Fetch, fetch' = Settled(f) PROVE SentAfterFlying'
<1>1. fetch'[f].stage = "idle" /\ fetch'[f].after = {}
  BY DEF Settled, Quiet
<1>2. \A g \in Fetch \ {f} : fetch'[g].stage = fetch[g].stage /\ fetch'[g].after = fetch[g].after \ {f}
  BY Settlement
<1> QED BY <1>1, <1>2 DEF SentAfterFlying, Flying

-----------------------------------------------------------------------------
(* A fetch that reads stays where it is in the order. *)

LEMMA ReadingDelivers ==
  ASSUME StoreStill, UNCHANGED <<shown, missed>>, Delivering, SentAfterFlying,
         fetch = [g \in Fetch |-> fetch[g]],
         NEW f \in Fetch, NEW y, fetch' = [fetch EXCEPT ![f] = y],
         fetch[f].stage # "idle", y.stage # "idle",
         y.after = fetch[f].after, y.late = fetch[f].late,
         UpToDate(fetch[f]) => UpToDate(y)
  PROVE  Delivering' /\ SentAfterFlying'
<1>1. fetch'[f] = y /\ \A g \in Fetch \ {f} : fetch'[g] = fetch[g]
  OBVIOUS
<1>2. Flying' = Flying
  BY <1>1 DEF Flying
<1>3. \A g \in Fetch : fetch'[g].after = fetch[g].after /\ fetch'[g].late = fetch[g].late
  BY <1>1
<1>4. SentAfterFlying'
  BY <1>2, <1>3 DEF SentAfterFlying
<1>5. CASE missed
  BY <1>4, <1>5 DEF Delivering
<1>6. CASE \E r \in Request : Pending(r)
  BY <1>4, <1>6, StillPending DEF Delivering
<1>7. CASE Bringing
  <2>1. PICK l \in Flying : LastSent(l) /\ UpToDate(fetch[l])
    BY <1>7 DEF Bringing
  <2>2. LastSent(l)'
    BY <1>2, <1>3, <2>1 DEF LastSent, Flying
  <2>3. UpToDate(fetch'[l])
    BY <1>1, <2>1 DEF Flying
  <2>4. UpToDate(fetch[l])'
    BY <2>3, StillUpToDate
  <2> QED BY <1>2, <1>4, <2>2, <2>4 DEF Delivering, Bringing
<1>8. CASE Brought
  <2>1. ShowsCurrent'
    BY <1>8, StillCurrent DEF Brought, ShowsCurrent
  <2> QED BY <1>2, <1>3, <1>4, <1>8, <2>1 DEF Delivering, Brought, Flying
<1> QED BY <1>5, <1>6, <1>7, <1>8 DEF Delivering

\* What a reading step makes of its fetch.
LEMMA GotOrder ==
  ASSUME NEW x, IsFetch(x), NEW stage, NEW b, NEW w
  PROVE  LET y == Got(x, stage, b, w)
         IN  y.after = x.after /\ y.late = x.late /\ y.base = x.base
BY DEF IsFetch, Got

\* A step that reads leaves the base and the snapshot alone.
LEMMA GotBased ==
  ASSUME NEW x, IsFetch(x), x.stage \notin {"idle", "stamp", "tally"}, Based(x),
         NEW stage \in {"active", "theme", "full"}, NEW b, NEW w
  PROVE  Based(Got(x, stage, b, w))
<1> DEFINE y == Got(x, stage, b, w)
<1>1. y.base = x.base /\ y.seen = x.seen /\ y.stage = stage
  BY GotIs, GotOrder
<1> HIDE DEF y
<1>2. Based(y)
  BY <1>1 DEF Based
<1> QED BY <1>2 DEF y

Reads(f) == StampLicence(f) \/ StampThemes(f) \/ StampTables(f) \/ ReadRows(f) \/ ReadActive(f) \/ ReadTheme(f)

\* The fetch x of a step, before it, and y after it.
Advances(x, y) ==
  /\ y.stage # "idle" /\ y.after = x.after /\ y.late = x.late
  /\ UpToDate(x) => UpToDate(y)
  /\ Based(x) => Based(y)

LEMMA StampLicenceAdvances ==
  ASSUME TypeOK, NEW f \in Fetch, StampLicence(f) PROVE Advances(fetch[f], fetch'[f])
<1> DEFINE x == fetch[f]
           y == fetch'[f]
<1>1. PICK l \in {licence, 3} : y = [x EXCEPT !.stage = "tally",
        !.seen = [NoSeen EXCEPT !.licence = l]]
  BY DEF StampLicence, TypeOK, ScreenType
<1> DEFINE s == [NoSeen EXCEPT !.licence = l]
<1>2. s.licence = l
  BY DEF NoSeen
<1>3. IsFetch(x) /\ x.stage = "stamp"
  BY DEF TypeOK, ScreenType, StampLicence
<1>4. y = [x EXCEPT !.stage = "tally", !.seen = s]
  BY <1>1
<1> HIDE DEF x, y, s
<1>5. /\ y.stage = "tally" /\ y.seen = s /\ y.base = x.base
      /\ y.after = x.after /\ y.late = x.late
  BY <1>3, <1>4 DEF IsFetch
<1>6. UpToDate(x) => UpToDate(y)
  BY <1>1, <1>2, <1>5 DEF UpToDate
<1>7. Based(x) => Based(y)
  BY <1>3, <1>5 DEF Based
<1> QED BY <1>5, <1>6, <1>7 DEF Advances, x, y

LEMMA StampThemesAdvances ==
  ASSUME TypeOK, NEW f \in Fetch, StampThemes(f) PROVE Advances(fetch[f], fetch'[f])
<1> DEFINE x == fetch[f]
           y == fetch'[f]
<1>1. PICK read \in BOOLEAN : y = [x EXCEPT !.stage = "count",
        !.seen = [x.seen EXCEPT !.active = settings.active, !.tallied = read,
                                !.themes = ThemeTimes]]
  BY DEF StampThemes, TypeOK, ScreenType
<1> DEFINE s == [x.seen EXCEPT !.active = settings.active, !.tallied = read,
                               !.themes = ThemeTimes]
<1>2. IsFetch(x) /\ IsSeen(x.seen) /\ x.stage = "tally"
  BY DEF TypeOK, ScreenType, StampThemes, IsFetch
<1>3. s.licence = x.seen.licence /\ s.themes = ThemeTimes
  BY <1>2 DEF IsSeen
<1>4. y = [x EXCEPT !.stage = "count", !.seen = s]
  BY <1>1
<1> HIDE DEF x, y, s
<1>5. /\ y.stage = "count" /\ y.seen = s /\ y.base = x.base
      /\ y.after = x.after /\ y.late = x.late
  BY <1>2, <1>4 DEF IsFetch
<1>6. Agrees(s)
  BY <1>3 DEF Agrees, ThemeTimes
<1>7. UpToDate(x) => UpToDate(y)
  BY <1>2, <1>3, <1>5, <1>6 DEF UpToDate
<1>8. Based(x) => Based(y)
  BY <1>2, <1>3, <1>5 DEF Based, CopyTrue, SeenPast
<1> QED BY <1>5, <1>7, <1>8 DEF Advances, x, y

LEMMA StampTablesAdvances ==
  ASSUME TypeOK, NEW f \in Fetch, StampTables(f) PROVE Advances(fetch[f], fetch'[f])
<1> DEFINE x == fetch[f]
           y == fetch'[f]
           s == [x.seen EXCEPT !.changed = settings.at, !.rows = rows]
<1>1. y = [x EXCEPT !.seen = s,
             !.stage = IF Stamp(s) = Stamp(x.base.seen) THEN "same" ELSE "rows"]
  BY DEF StampTables, TypeOK, ScreenType
<1>2. IsFetch(x) /\ IsSeen(x.seen) /\ x.stage = "count"
  BY DEF TypeOK, ScreenType, StampTables, IsFetch
<1>3. /\ s.licence = x.seen.licence /\ s.themes = x.seen.themes
      /\ s.changed = settings.at /\ s.rows = rows
  BY <1>2 DEF IsSeen
<1> HIDE DEF x, y, s
<1>4. /\ y.stage = IF Stamp(s) = Stamp(x.base.seen) THEN "same" ELSE "rows"
      /\ y.seen = s /\ y.base = x.base /\ y.after = x.after /\ y.late = x.late
  BY <1>1, <1>2 DEF IsFetch
<1>5. Agrees(x.seen) => Agrees(s)
  BY <1>3 DEF Agrees
<1>6. UpToDate(x) => UpToDate(y)
  BY <1>2, <1>3, <1>4, <1>5 DEF UpToDate, Told
<1>7. Based(x) => Based(y)
  BY <1>2, <1>3, <1>4 DEF Based
<1> QED BY <1>4, <1>6, <1>7 DEF Advances, x, y

LEMMA ReadAdvances ==
  ASSUME TypeOK, NEW f \in Fetch, ReadRows(f) \/ ReadActive(f) \/ ReadTheme(f)
  PROVE  Advances(fetch[f], fetch'[f])
<1> DEFINE x == fetch[f]
<1>0. IsFetch(x) /\ IsBundle(x.read) /\ x.stage \notin {"idle", "stamp", "tally"}
      /\ fetch = [g \in Fetch |-> fetch[g]]
  BY DEF TypeOK, ScreenType, IsFetch, ReadRows, ReadActive, ReadTheme
<1>1. ASSUME NEW st \in {"active", "theme", "full"}, NEW b, NEW w, fetch'[f] = Got(x, st, b, w),
             UpToDate(x) => UpToDate(Got(x, st, b, w))
      PROVE  Advances(x, fetch'[f])
  BY <1>0, <1>1, GotIs, GotOrder, GotBased DEF Advances
<1>2. CASE ReadRows(f)
  <2> DEFINE b == [x.read EXCEPT !.changed = settings.at, !.rows = rows]
             w == DOMAIN rows \subseteq DOMAIN x.seen.rows
  <2>1. fetch'[f] = Got(x, "active", b, w)
    BY <1>0, <1>2 DEF ReadRows
  <2>2. b.changed = settings.at /\ b.rows = rows
    BY <1>0 DEF IsBundle
  <2> HIDE DEF b, w, x
  <2>3. UpToDate(x) => UpToDate(Got(x, "active", b, w))
    <3> DEFINE y == Got(x, "active", b, w)
    <3>1. y.stage = "active" /\ y.read = b /\ y.whole = w /\ y.late = x.late
      BY <1>0, GotIs, GotOrder
    <3> HIDE DEF y
    <3>2. UpToDate(x) => UpToDate(y)
      BY <1>0, <2>2, <3>1 DEF UpToDate, Told
    <3> QED BY <3>2 DEF y
  <2> QED BY <1>1, <2>1, <2>3 DEF x
<1>3. CASE ReadActive(f)
  <2>1. PICK l \in {licence, 3} : fetch'[f] = Got(x, "theme",
          [x.read EXCEPT !.licence = l, !.theme = settings.active], x.whole /\ l # 3)
    BY <1>0, <1>3 DEF ReadActive
  <2> DEFINE b == [x.read EXCEPT !.licence = l, !.theme = settings.active]
             w == x.whole /\ l # 3
  <2>2. /\ b.changed = x.read.changed /\ b.rows = x.read.rows
        /\ b.licence = l /\ b.theme = settings.active
    BY <1>0 DEF IsBundle
  <2>3. x.stage = "active"
    BY <1>3 DEF ReadActive
  <2>4. w => l = licence
    BY <2>1
  <2>5. fetch'[f] = Got(x, "theme", b, w)
    BY <2>1
  <2> HIDE DEF b, w, x
  <2>6. UpToDate(x) => UpToDate(Got(x, "theme", b, w))
    <3> DEFINE y == Got(x, "theme", b, w)
    <3>1. y.stage = "theme" /\ y.read = b /\ y.whole = w /\ y.late = x.late
      BY <1>0, GotIs, GotOrder
    <3> HIDE DEF y
    <3>2. UpToDate(x) => UpToDate(y)
      BY <1>0, <2>2, <2>3, <2>4, <3>1 DEF UpToDate
    <3> QED BY <3>2 DEF y
  <2> QED BY <1>1, <2>5, <2>6 DEF x
<1>4. CASE ReadTheme(f)
  <2>1. PICK t \in {Resolve(x.read.theme), Default} : fetch'[f] = Got(x, "full",
          [x.read EXCEPT !.theme = t],
          x.whole /\ t = Resolve(x.read.theme) /\ t \in DOMAIN x.seen.themes \cup {Default})
    BY <1>0, <1>4 DEF ReadTheme
  <2> DEFINE b == [x.read EXCEPT !.theme = t]
             w == x.whole /\ t = Resolve(x.read.theme) /\ t \in DOMAIN x.seen.themes \cup {Default}
  <2>2. /\ b.licence = x.read.licence /\ b.theme = t
        /\ b.changed = x.read.changed /\ b.rows = x.read.rows
    BY <1>0 DEF IsBundle
  <2>3. x.stage = "theme"
    BY <1>4 DEF ReadTheme
  <2>4. w => x.whole /\ t = Resolve(x.read.theme)
    OBVIOUS
  <2>5. fetch'[f] = Got(x, "full", b, w)
    BY <2>1
  <2> HIDE DEF b, w, x
  <2>6. ASSUME UpToDate(x), w PROVE Matches(b)
    <3>1. /\ x.read.theme = settings.active /\ x.read.licence = licence
          /\ x.read.changed = settings.at /\ Told(x.read.rows)
      BY <2>3, <2>4, <2>6 DEF UpToDate
    <3> QED BY <2>2, <2>4, <2>6, <3>1 DEF Matches
  <2>7. UpToDate(x) => UpToDate(Got(x, "full", b, w))
    <3> DEFINE y == Got(x, "full", b, w)
    <3>1. y.stage = "full" /\ y.read = b /\ y.whole = w /\ y.late = x.late
      BY <1>0, GotIs, GotOrder
    <3> HIDE DEF y
    <3>2. UpToDate(x) => UpToDate(y)
      BY <1>0, <2>6, <3>1 DEF UpToDate
    <3> QED BY <3>2 DEF y
  <2> QED BY <1>1, <2>5, <2>7 DEF x
<1> QED BY <1>2, <1>3, <1>4

LEMMA ReadsDeliver ==
  ASSUME TypeOK, Delivering, SentAfterFlying, NEW f \in Fetch, Reads(f)
  PROVE  Delivering' /\ SentAfterFlying'
<1>1. Advances(fetch[f], fetch'[f])
  BY StampLicenceAdvances, StampThemesAdvances, StampTablesAdvances, ReadAdvances DEF Reads
<1>2. StoreStill /\ UNCHANGED <<shown, missed>> /\ fetch[f].stage # "idle"
  BY DEF Reads, StampLicence, StampThemes, StampTables, ReadRows, ReadActive, ReadTheme, StoreStill, store, gaps
<1>3. fetch = [g \in Fetch |-> fetch[g]]
  BY DEF TypeOK, ScreenType
<1>4. fetch' = [fetch EXCEPT ![f] = fetch'[f]]
  BY <1>3 DEF Reads, StampLicence, StampThemes, StampTables, ReadRows, ReadActive, ReadTheme
<1> DEFINE y == fetch'[f]
<1>5. /\ fetch' = [fetch EXCEPT ![f] = y] /\ y.stage # "idle"
      /\ y.after = fetch[f].after /\ y.late = fetch[f].late
      /\ UpToDate(fetch[f]) => UpToDate(y)
  BY <1>1, <1>4 DEF Advances
<1> HIDE DEF y
<1> QED BY <1>2, <1>3, <1>5, ReadingDelivers

-----------------------------------------------------------------------------
(* A fetch that ends. *)

\* A 304 to the last fetch, when all it saw is current, is about a current copy.
LEMMA SameCopy ==
  ASSUME TypeOK, ScreenInv, NEW f \in Fetch, fetch[f].stage = "same", UpToDate(fetch[f]),
         Based(fetch[f]), ~Unknown(fetch[f].seen), fetch[f].base.whole, Sound
  PROVE  Matches(fetch[f].base.bundle)
<1> DEFINE n == fetch[f].seen
           s == fetch[f].base.seen
           b == fetch[f].base.bundle
<1>1. /\ IsSeen(n) /\ IsSeen(s) /\ IsBundle(b) /\ SeenPast(n) /\ SeenPast(s)
      /\ RowsRead(s, b) /\ LicenceRead(s, b) /\ ThemeRead(s, b)
      /\ Grown(n.themes, s.themes) /\ Stamp(n) = Stamp(s)
  BY DEF TypeOK, ScreenType, IsFetch, IsCopy, Based, CopyTrue, ScreenInv, FetchTrue
<1>2. Agrees(n) /\ n.licence = licence /\ n.tallied /\ n.changed = settings.at /\ Told(n.rows)
  BY DEF UpToDate, Unknown
<1> HIDE DEF n, s, b
<1>3. /\ s.licence = licence /\ Summary(s.themes) = Summary(n.themes)
      /\ s.changed = settings.at /\ Summary(s.rows) = Summary(n.rows)
  BY <1>1, <1>2 DEF Stamp, Counted
<1>4. /\ IsTable(rows, RowId, Nat) /\ IsTable(s.rows, RowId, Nat) /\ clock \in Nat
      /\ IsTable(n.themes, Theme, Nat) /\ IsTable(s.themes, Theme, Nat)
      /\ licence \in 0..2 /\ settings.at \in Nat
  BY <1>1 DEF IsSeen, TypeOK, StoreType
<1>5. Told(s.rows)
  <2>1. /\ \A x \in DOMAIN rows : rows[x] <= clock
        /\ \A x \in DOMAIN s.rows : s.rows[x] <= clock
        /\ Grown(rows, s.rows)
    BY <1>1 DEF ScreenInv, Dated, SeenPast
  <2>2. unsaid \/ Summary(s.rows) = Summary(rows)
    BY <1>2, <1>3 DEF Told
  <2> QED BY <1>4, <2>1, <2>2, RowIdFinite, SameSummary DEF Told
<1>6. s.themes = n.themes
  <2>1. /\ \A t \in DOMAIN n.themes : n.themes[t] <= clock
        /\ \A t \in DOMAIN s.themes : s.themes[t] <= clock
    BY <1>1 DEF SeenPast
  <2> QED BY <1>1, <1>3, <1>4, <2>1, ThemeFinite, SameSummary
<1>7. Told(b.rows)
  BY <1>1, <1>4, <1>5 DEF RowsRead, IsBundle, IsTable, Told
<1>8. b.changed = settings.at
  BY <1>1, <1>3, <1>4 DEF RowsRead, IsBundle
<1>9. b.licence = licence
  BY <1>1, <1>3, <1>4 DEF LicenceRead, IsBundle
<1>10. b.theme = Resolve(settings.active)
  <2> DEFINE a == settings.active
  <2>1. /\ b.theme \in {a, Default} /\ b.theme \in DOMAIN n.themes \cup {Default}
        /\ a \in DOMAIN themes \cap DOMAIN n.themes =>
             \/ b.theme = a
             \/ themes[a].at # n.themes[a]
             \/ dirs[themes[a].dir] # "whole"
    BY <1>1, <1>3, <1>6 DEF ThemeRead
  <2>2. CASE a \in DOMAIN themes
    <3>1. a \in DOMAIN n.themes /\ n.themes[a] = themes[a].at
      BY <1>2, <2>2 DEF Agrees
    <3>2. Resolve(a) = a /\ a # Default
      BY <2>2, DefaultIsBuiltIn DEF Sound, TypeOK, StoreType, IsTable
    <3>3. dirs[themes[a].dir] = "whole"
      BY <3>2 DEF Resolve
    <3> QED BY <2>1, <2>2, <3>1, <3>2, <3>3
  <2>3. CASE a \notin DOMAIN themes
    <3>1. a \notin DOMAIN n.themes
      BY <1>2, <2>3 DEF Agrees
    <3>2. Resolve(a) = Default
      BY <2>3 DEF Resolve
    <3> QED BY <2>1, <3>1, <3>2
  <2> QED BY <2>2, <2>3
<1> QED BY <1>7, <1>8, <1>9, <1>10 DEF Matches, b

LEMMA AnswerDelivers ==
  ASSUME TypeOK, ScreenInv, DeliveryInv, NEW f \in Fetch, Answer(f)
  PROVE  Delivering' /\ SentAfterFlying'
<1>0. ScreenType /\ SentAfterFlying /\ Based(fetch[f]) /\ Delivering
  BY DEF TypeOK, DeliveryInv
<1>1. StoreStill /\ fetch' = Settled(f) /\ fetch[f].stage # "idle"
  BY DEF Answer, StoreStill, store
<1>2. SentAfterFlying'
  BY <1>0, <1>1, SettledAfter
<1>3. SUFFICES ASSUME ~missed', \A r \in Request : ~Pending(r)'
               PROVE  Bringing' \/ Brought'
  BY <1>2 DEF Delivering
<1>4. ~missed /\ ~fetch[f].late /\ ~Unknown(fetch[f].seen)
  BY <1>3 DEF Answer
<1>5. \A r \in Request : ~Pending(r)
  BY <1>1, <1>3, StillPending
<1>6. ~Brought
  BY <1>1, <1>4 DEF Brought, Flying
<1>7. PICK l \in Flying : LastSent(l) /\ UpToDate(fetch[l])
  BY <1>0, <1>4, <1>5, <1>6 DEF Delivering, Bringing
<1>8. CASE l # f
  BY <1>0, <1>1, <1>7, <1>8, LastRemains
<1>9. CASE l = f
  <2>1. shown'.whole /\ Sound => Matches(shown'.bundle)
    <3>1. CASE fetch[f].stage = "same"
      <4>1. shown' = fetch[f].base
        BY <3>1 DEF Answer
      <4> QED BY <1>0, <1>4, <1>7, <1>9, <3>1, <4>1, SameCopy
    <3>2. CASE fetch[f].stage = "full"
      <4>1. shown' = Copy(fetch[f].seen, fetch[f].read, fetch[f].whole)
        BY <3>2 DEF Answer
      <4>2. fetch[f].whole /\ Sound => Matches(fetch[f].read)
        BY <1>7, <1>9, <3>2 DEF UpToDate
      <4> QED BY <4>1, <4>2 DEF Copy
    <3> QED BY <3>1, <3>2 DEF Answer
  <2>2. \A g \in Flying' : fetch'[g].late
    <3> TAKE g \in Flying'
    <3>1. g \in Fetch \ {f}
      BY <1>1 DEF Flying, Settled, Quiet
    <3>2. g \in Flying
      BY <1>1, <3>1, Settlement, <1>0 DEF Flying
    <3>3. g \in fetch[f].after
      BY <1>7, <1>9, <3>1, <3>2 DEF LastSent
    <3> QED BY <1>0, <1>1, <3>1, <3>3, Settlement
  <2> QED BY <1>1, <2>1, <2>2, StillCurrent DEF Brought
<1> QED BY <1>8, <1>9

LEMMA FailureDelivers ==
  ASSUME TypeOK, DeliveryInv, NEW f \in Fetch, FetchFails(f)
  PROVE  Delivering' /\ SentAfterFlying'
<1>0. ScreenType /\ SentAfterFlying /\ Delivering
  BY DEF TypeOK, DeliveryInv
<1>1. StoreStill /\ shown' = shown /\ fetch[f].stage # "idle"
  BY DEF FetchFails, StoreStill, store
<1>2. fetch' = Settled(f)
  BY DEF FetchFails, Settled
<1>3. SentAfterFlying'
  BY <1>0, <1>2, SettledAfter
<1>4. SUFFICES ASSUME ~missed', \A r \in Request : ~Pending(r)'
               PROVE  Bringing' \/ Brought'
  BY <1>3 DEF Delivering
<1>5. ~missed /\ (fetch[f].late \/ \E g \in Flying : f \in fetch[g].after)
  BY <1>4 DEF FetchFails
<1>6. \A r \in Request : ~Pending(r)
  BY <1>1, <1>4, StillPending
<1>7. CASE Bringing
  <2>1. PICK l \in Flying : LastSent(l) /\ UpToDate(fetch[l])
    BY <1>7 DEF Bringing
  <2>2. l # f
    BY <1>5, <2>1 DEF LastSent, UpToDate
  <2> QED BY <1>0, <1>1, <1>2, <2>1, <2>2, LastRemains
<1>8. CASE Brought
  <2>1. ShowsCurrent'
    BY <1>1, <1>8, StillCurrent DEF Brought, ShowsCurrent
  <2>2. \A g \in Flying' : fetch'[g].late
    <3> TAKE g \in Flying'
    <3>1. g \in Fetch \ {f}
      BY <1>2 DEF Flying, Settled, Quiet
    <3>2. g \in Flying
      BY <1>0, <1>2, <3>1, Settlement DEF Flying
    <3> QED BY <1>0, <1>2, <1>8, <3>1, <3>2, Settlement DEF Brought
  <2> QED BY <2>1, <2>2 DEF Brought
<1> QED BY <1>0, <1>5, <1>6, <1>7, <1>8 DEF Delivering

-----------------------------------------------------------------------------
(* The induction. *)

\* The bases of the fetches after a step, seen from the store before it.
LEMMA FetchesBased ==
  ASSUME TypeOK, ScreenInv, \A f \in Fetch : Based(fetch[f]), Next
  PROVE  \A f \in Fetch : Based(fetch'[f])
<1>0. ScreenType /\ fetch = [f \in Fetch |-> fetch[f]] /\ CopyTrue(held)
  BY DEF TypeOK, ScreenType, ScreenInv
<1>1. Based(Quiet)
  BY DEF Based, Quiet
<1>2. ASSUME NEW A
      PROVE  /\ Based([Quiet EXCEPT !.stage = "stamp", !.base = held, !.after = A])
             /\ Based([Quiet EXCEPT !.stage = "stamp", !.base = held])
  BY <1>0 DEF Based, Quiet
<1>3. ASSUME NEW f \in Fetch, Send(f) PROVE \A g \in Fetch : Based(fetch'[g])
  <2>1. \A g \in Fetch \ {f} : fetch'[g] = fetch[g]
    BY <1>0, <1>3 DEF Send
  <2>2. Based(fetch'[f])
    BY <1>0, <1>2, <1>3 DEF Send
  <2> QED BY <2>1, <2>2
<1>4. ASSUME NEW f \in Fetch, Reads(f) PROVE \A g \in Fetch : Based(fetch'[g])
  <2>1. \A g \in Fetch \ {f} : fetch'[g] = fetch[g]
    BY <1>0, <1>4 DEF Reads, StampLicence, StampThemes, StampTables, ReadRows, ReadActive, ReadTheme
  <2>2. Advances(fetch[f], fetch'[f])
    BY <1>4, StampLicenceAdvances, StampThemesAdvances, StampTablesAdvances, ReadAdvances DEF Reads
  <2> QED BY <2>1, <2>2 DEF Advances
<1>5. ASSUME NEW f \in Fetch, Answer(f) \/ FetchFails(f) PROVE \A g \in Fetch : Based(fetch'[g])
  <2>1. fetch' = Settled(f)
    BY <1>5 DEF Answer, FetchFails, Settled
  <2>2. Based(fetch'[f])
    BY <1>1, <2>1 DEF Settled
  <2>3. ASSUME NEW g \in Fetch \ {f} PROVE Based(fetch'[g])
    <3>1. /\ fetch'[g].stage = fetch[g].stage /\ fetch'[g].seen = fetch[g].seen
          /\ fetch'[g].base = fetch[g].base
      BY <1>0, <2>1, Settlement
    <3> QED BY <3>1 DEF Based
  <2> QED BY <2>2, <2>3
<1>6. CASE Online
  BY <1>3, <1>6 DEF Online
<1>7. CASE Reload
  <2>1. PICK f \in Fetch : fetch' = [g \in Fetch |->
          IF g = f THEN [Quiet EXCEPT !.stage = "stamp", !.base = held] ELSE Quiet]
    BY <1>7 DEF Reload
  <2> QED BY <1>1, <1>2, <2>1
<1>8. CASE Crash
  BY <1>1, <1>8 DEF Crash
<1>9. ASSUME NEW r \in Request, Notify(r) PROVE \A g \in Fetch : Based(fetch'[g])
  BY <1>3, <1>9 DEF Notify
<1>10. ASSUME (\E r \in Request : Upstream(r)) \/ Lapse PROVE \A g \in Fetch : Based(fetch'[g])
  BY <1>10, UpstreamScreen
<1> QED BY <1>4, <1>5, <1>6, <1>7, <1>8, <1>9, <1>10 DEF Next, RowStep, FetchStep, Reads, Upstream

LEMMA DeliveryStep ==
  ASSUME IInv, IInv', DeliveryInv, Next PROVE DeliveryInv'
<1>0. /\ TypeOK /\ ThemeInv /\ ScreenInv /\ StoreType /\ StoreType' /\ StoreMoves /\ Dated
      /\ SentAfterFlying /\ Delivering /\ (\A f \in Fetch : Based(fetch[f])) /\ ScreenType
  BY NextMoves DEF IInv, TypeOK, ScreenInv, DeliveryInv
<1>1. ASSUME NEW f \in Fetch PROVE Based(fetch[f])'
  <2>1. Based(fetch'[f]) /\ IsFetch(fetch'[f])
    BY <1>0, FetchesBased DEF IInv, TypeOK, ScreenType
  <2>2. IsCopy(fetch'[f].base)
    BY <2>1 DEF IsFetch
  <2>3. CopyTrue(fetch'[f].base) => CopyTrue(fetch[f].base)'
    BY <1>0, <2>2, CopyFuture
  <2> QED BY <2>1, <2>3 DEF Based
<1>2. ASSUME NEW f \in Fetch, FetchStep(f) PROVE Delivering' /\ SentAfterFlying'
  BY <1>0, <1>2, ReadsDeliver, AnswerDelivers, FailureDelivers DEF FetchStep, Reads, DeliveryInv
<1>3. ASSUME NEW r \in Request, Notify(r) PROVE Delivering' /\ SentAfterFlying'
  BY <1>0, <1>3, SendDelivers DEF Notify
<1>4. ASSUME Online PROVE Delivering' /\ SentAfterFlying'
  BY <1>0, <1>4, SendDelivers DEF Online
<1>5. ASSUME Reload PROVE Delivering' /\ SentAfterFlying'
  BY <1>5, ReloadDelivers
<1>6. ASSUME Crash PROVE Delivering' /\ SentAfterFlying'
  BY <1>0, <1>6, CrashDelivers
<1>7. ASSUME (\E r \in Request : Upstream(r)) \/ Lapse PROVE Delivering' /\ SentAfterFlying'
  <2>1. UNCHANGED <<fetch, shown>>
    BY <1>7, UpstreamScreen
  <2>2. Delivering'
    BY <1>0, <1>7, <2>1, UpstreamDelivers
  <2>3. SentAfterFlying'
    BY <1>0, <2>1 DEF SentAfterFlying, Flying
  <2> QED BY <2>2, <2>3
<1>8. Delivering' /\ SentAfterFlying'
  BY <1>2, <1>3, <1>4, <1>5, <1>6, <1>7 DEF Next, RowStep, Upstream
<1> QED BY <1>1, <1>8 DEF DeliveryInv

LEMMA DeliveryStart == ASSUME Init PROVE DeliveryInv
<1>1. \A f \in Fetch : fetch[f] = Quiet
  BY DEF Init
<1>2. Flying = {} /\ SentAfterFlying
  BY <1>1 DEF Flying, SentAfterFlying, Quiet
<1>3. \A f \in Fetch : Based(fetch[f])
  BY <1>1 DEF Based, Quiet
<1>4. shown.bundle = Bundle
  BY DEF Init, Copy
<1> QED BY <1>2, <1>3, <1>4 DEF DeliveryInv, Delivering, Brought, ShowsCurrent, Matches, Told, Bundle

LEMMA DeliveryStutter == ASSUME DeliveryInv, UNCHANGED vars PROVE DeliveryInv'
<1>1. /\ clock' = clock /\ settings' = settings /\ themes' = themes /\ dirs' = dirs
      /\ rows' = rows /\ licence' = licence /\ fetch' = fetch /\ req' = req
      /\ shown' = shown /\ missed' = missed /\ unsaid' = unsaid
  BY DEF vars, store, screen, gaps
<1>2. SentAfterFlying'
  BY <1>1 DEF DeliveryInv, SentAfterFlying, Flying
<1>3. \A f \in Fetch : Based(fetch[f])'
  BY <1>1 DEF DeliveryInv, Based, CopyTrue, SeenPast, RowsRead, LicenceRead, ThemeRead, Grown, ThemeTimes
<1>4. StoreStill /\ Flying' = Flying
  BY <1>1 DEF StoreStill, Flying
<1>5. Bringing => Bringing'
  BY <1>1, <1>4, StillUpToDate DEF Bringing, LastSent
<1>6. Brought => Brought'
  BY <1>1, <1>4, StillCurrent DEF Brought, ShowsCurrent
<1>7. (\E r \in Request : Pending(r)) => (\E r \in Request : Pending(r)')
  BY <1>4, StillPending
<1>8. Delivering'
  BY <1>1, <1>5, <1>6, <1>7 DEF DeliveryInv, Delivering
<1> QED BY <1>2, <1>3, <1>8 DEF DeliveryInv

(* At rest the screen shows the current content, unless a change was missed, *)
(* and but for rows changed in silence since its last fetch was sent:        *)
(* whatever changes and fetches overlap, any number of them, and in whatever *)
(* order they are answered, the last change is announced by a request, then  *)
(* carried by the last fetch sent, then shown (notifyContentUpdate,          *)
(* fetchContent, the route /api/content).                                    *)
THEOREM ScreenShowsCurrent == Spec => []ScreenCurrent
<1>1. Init => DeliveryInv
  BY DeliveryStart
<1>2. IInv /\ IInv' /\ DeliveryInv /\ [Next]_vars => DeliveryInv'
  BY DeliveryStep, DeliveryStutter
<1>3. DeliveryInv => ScreenCurrent
  BY DEF DeliveryInv, Delivering, Bringing, Brought, ShowsCurrent, Matches, Told,
         ScreenCurrent, AtRest, Pending
<1> QED BY <1>1, <1>2, <1>3, Invariant, PTL DEF Spec
=============================================================================
