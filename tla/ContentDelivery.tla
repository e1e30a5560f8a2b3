--------------------------- MODULE ContentDelivery ---------------------------
(***************************************************************************)
(* How the content of the television screen is changed and delivered.      *)
(*                                                                         *)
(* The administration routes install, activate and delete imported themes  *)
(* (lib/themes/store.ts) and write content rows (promotions, dishes, ...);  *)
(* every request runs await by await beside the others, any of its steps   *)
(* may fail and the server may restart.  After a change the route asks the *)
(* realtime service to tell the screen, which fetches /api/content again;  *)
(* the routes of the Screen table do not.                                  *)
(* That route first computes a version stamp -- licence, active theme and, *)
(* for each table, COUNT and MAX(updatedAt) --, answers 304 when the       *)
(* screen already holds that stamp, and otherwise reads the bundle.        *)
(*                                                                         *)
(* One table stands for the stamped tables that hold rows: they are        *)
(* stamped and read alike and independently.  A write of it is announced   *)
(* (promotions, dishes, schedules, ...) or silent (screens).  A row is     *)
(* represented by its updatedAt, which the strictly increasing clock makes *)
(* distinct for every write.                                               *)
(* The snapshot a stamp is computed from is kept beside the stamp (seen).  *)
(***************************************************************************)
EXTENDS Naturals, FiniteSets

CONSTANTS
  Theme,      \* the ids of the importable themes
  Default,    \* the id of the built-in theme
  Dir,        \* the directory names newDirName may draw
  NoDir,      \* no directory yet
  RowId,      \* the ids of content rows
  Request,    \* the administration requests that may be open at once
  Fetch,      \* the fetches of the screen that may be open at once
  MaxOps,     \* bound: administration requests submitted
  MaxFaults   \* bound: failed steps, lost notices, restarts and reloads

ASSUME DefaultIsBuiltIn == Default \notin Theme
ASSUME NoDirIsNone == NoDir \notin Dir
ASSUME RowIdFinite == IsFiniteSet(RowId)
ASSUME ThemeFinite == IsFiniteSet(Theme)
ASSUME BoundAssumption == MaxOps \in Nat /\ MaxFaults \in Nat

VARIABLES
  clock,      \* the time of the last write
  settings,   \* the Settings row: active theme, updatedAt
  themes,     \* the Theme table: theme -> [dir, at]
  dirs,       \* the directories under imported/
  rows,       \* a content table: row -> updatedAt
  licence,    \* 0 in force, 1 lapsed, 2 renewed
  req,        \* the administration requests
  fetch,      \* the fetches of the screen
  held,       \* the response in the HTTP cache of the screen
  shown,      \* the response the screen shows
  missed,     \* history: a change no fetch is going to bring
  unsaid,     \* history: a row changed without notice since the last fetch was sent
  strays,     \* history: directories a failed request left behind
  adrift,     \* history: the active theme lost its row to a crossing or failure
  submits, faults

store  == <<settings, themes, dirs, rows>>
screen == <<fetch, held, shown>>
gaps   == <<missed, unsaid>>
vars   == <<clock, store, licence, req, screen, gaps, strays, adrift, submits, faults>>

-----------------------------------------------------------------------------
Put(f, k, v)  == [x \in DOMAIN f \cup {k} |-> IF x = k THEN v ELSE f[x]]
Without(f, k) == [x \in DOMAIN f \ {k} |-> f[x]]

(* COUNT and MAX(updatedAt) of a table. *)
Latest(T)    == CHOOSE m \in T : \A t \in T : t <= m
Summary_MaxOnly(tab) == [n |-> 0, max |-> IF DOMAIN tab = {} THEN 0
                                         ELSE Latest({tab[x] : x \in DOMAIN tab})]
Summary(tab) == [n |-> Cardinality(DOMAIN tab),
                 max |-> IF DOMAIN tab = {} THEN 0
                         ELSE Latest({tab[x] : x \in DOMAIN tab})]

ThemeTimes == [t \in DOMAIN themes |-> themes[t].at]

(* contentVersionStamp of what the route saw, the ETag.  A Theme table it   *)
(* could not count (not tallied) is stamped as unknown, whatever it held.   *)
NoRows == [x \in {} |-> 0]
Counted(s) == IF s.tallied THEN Summary(s.themes) ELSE Summary(NoRows)
Stamp_NoLicence(s) == [active |-> s.active, tallied |-> s.tallied, themes |-> Counted(s),
                       changed |-> s.changed, rows |-> Summary(s.rows)]
Stamp(s) == [licence |-> s.licence, active |-> s.active, tallied |-> s.tallied,
             themes |-> Counted(s), changed |-> s.changed, rows |-> Summary(s.rows)]

Now == [licence |-> licence, active |-> settings.active, tallied |-> TRUE,
        themes |-> ThemeTimes, changed |-> settings.at, rows |-> rows]

(* resolveActiveTheme: a theme without row or directory falls back. *)
Resolve(name) == IF name \in DOMAIN themes /\ dirs[themes[name].dir] = "whole"
                 THEN name ELSE Default

(* The bundle /api/content answers. *)
Bundle == [licence |-> licence, theme |-> Resolve(settings.active),
           changed |-> settings.at, rows |-> rows]

Copy(s, b, w) == [seen |-> s, bundle |-> b, whole |-> w]

-----------------------------------------------------------------------------
Stage == {"idle", "check", "write", "create", "lookup", "load",
          "apply", "find", "remove", "drop", "revert", "reset", "notify"}
FetchStage == {"idle", "stamp", "tally", "count", "rows", "active", "theme", "full", "same"}

Idle  == [stage |-> "idle", theme |-> Default, dir |-> NoDir, stale |-> FALSE]

(* A fetch: the copy it revalidates, what its stamp saw, what it read, the *)
(* fetches sent before it, and whether a later one was answered already.   *)
NoSeen == [licence |-> 0, active |-> Default, tallied |-> TRUE, themes |-> NoRows,
           changed |-> 0, rows |-> NoRows]
NoBundle == [licence |-> 0, theme |-> Default, changed |-> 0, rows |-> NoRows]
NoCopy == Copy(NoSeen, NoBundle, TRUE)
Quiet == [stage |-> "idle", base |-> NoCopy, seen |-> NoSeen, read |-> NoBundle,
          whole |-> TRUE, after |-> {}, late |-> FALSE]

Init ==
  /\ clock = 1
  /\ \E installed \in SUBSET Theme, place \in [Theme -> Dir] :
       /\ \A t, u \in installed : place[t] = place[u] => t = u
       /\ themes = [t \in installed |-> [dir |-> place[t], at |-> 1]]
       /\ dirs = [d \in Dir |-> IF \E t \in installed : place[t] = d
                                THEN "whole" ELSE "unused"]
       /\ \E a \in installed \cup {Default} : settings = [active |-> a, at |-> 1]
  /\ \E some \in SUBSET RowId : rows = [x \in some |-> 1]
  /\ licence = 0
  /\ req = [r \in Request |-> Idle]
  /\ held = Copy(Now, Bundle, TRUE)
  /\ shown = held
  /\ fetch = [f \in Fetch |-> Quiet]
  /\ missed = FALSE /\ unsaid = FALSE /\ strays = {} /\ adrift = FALSE
  /\ submits = 0 /\ faults = 0

-----------------------------------------------------------------------------
(* The administration requests. *)
Open(r, stage, t, d) == [stage |-> stage, theme |-> t, dir |-> d, stale |-> FALSE]
Goto(r, stage) == req' = [req EXCEPT ![r].stage = stage]
End(r)         == req' = [req EXCEPT ![r] = Idle]

Submitted == submits < MaxOps /\ submits' = submits + 1
Fault     == faults < MaxFaults /\ faults' = faults + 1
Allowed   == licence # 1      \* themes.custom

(* One of the theme routes is called. *)
Submit(r) ==
  /\ req[r].stage = "idle" /\ Submitted /\ Allowed
  /\ \/ \E t \in Theme, stage \in {"check", "lookup", "find"} :
          req' = [req EXCEPT ![r] = Open(r, stage, t, NoDir)]
     \/ req' = [req EXCEPT ![r] = Open(r, "apply", Default, NoDir)]
  /\ UNCHANGED <<clock, store, licence, screen, gaps, strays, adrift, faults>>

(* installTheme: the id must be free; a directory name is drawn. *)
Check(r) ==
  /\ req[r].stage = "check"
  /\ IF req[r].theme \in DOMAIN themes THEN End(r) ELSE Goto(r, "write")
  /\ UNCHANGED <<clock, store, licence, screen, gaps, strays, adrift, submits, faults>>

(* The directory is written and read back.  A failed write, or a file that  *)
(* reads back corrupt, removes it; an unreadable one stays without a row.   *)
FreeDirs_Derived == Dir
FreeDirs == {d \in Dir : dirs[d] = "unused"}

Write(r) ==
  /\ req[r].stage = "write"
  /\ \E d \in FreeDirs :
       /\ \/ /\ dirs' = [dirs EXCEPT ![d] = "whole"]
             /\ req' = [req EXCEPT ![r].stage = "create", ![r].dir = d]
             /\ UNCHANGED <<strays, faults>>
          \/ /\ Fault /\ End(r)
             /\ \/ dirs' = [dirs EXCEPT ![d] = "gone"] /\ UNCHANGED strays
                \/ dirs' = [dirs EXCEPT ![d] = "whole"] /\ strays' = strays \cup {d}
  /\ UNCHANGED <<clock, settings, themes, rows, licence, screen, gaps, adrift, submits>>

(* The row; a row with this id that appeared meanwhile makes it fail, and *)
(* the directory stays.                                                   *)
Create(r) ==
  /\ req[r].stage = "create"
  /\ LET t == req[r].theme IN
     \/ /\ t \notin DOMAIN themes
        /\ clock' = clock + 1
        /\ themes' = Put(themes, t, [dir |-> req[r].dir, at |-> clock'])
        /\ missed' = (missed \/ settings.active = t)
        /\ UNCHANGED <<unsaid, strays>>
     \/ /\ t \in DOMAIN themes
        /\ strays' = strays \cup {req[r].dir}
        /\ UNCHANGED <<clock, themes, gaps>>
  /\ End(r)
  /\ UNCHANGED <<settings, dirs, rows, licence, screen, adrift, submits, faults>>

(* activateTheme: the row, then the specification on disk. *)
Lookup(r) ==
  /\ req[r].stage = "lookup"
  /\ IF req[r].theme \in DOMAIN themes
     THEN req' = [req EXCEPT ![r].stage = "load", ![r].dir = themes[req[r].theme].dir]
     ELSE End(r)
  /\ UNCHANGED <<clock, store, licence, screen, gaps, strays, adrift, submits, faults>>

Load(r) ==
  /\ req[r].stage = "load"
  /\ IF dirs[req[r].dir] = "whole" THEN Goto(r, "apply") ELSE End(r)
  /\ UNCHANGED <<clock, store, licence, screen, gaps, strays, adrift, submits, faults>>

(* applyThemeSettings, called by activateTheme ("apply") and deleteTheme ("reset"). *)
Target(r) == IF req[r].stage = "reset" THEN Default ELSE req[r].theme

Apply(r) ==
  /\ req[r].stage \in {"apply", "reset"}
  /\ clock' = clock + 1
  /\ settings' = [active |-> Target(r), at |-> clock']
  /\ adrift' = (req[r].stage = "apply" /\ req[r].stale)
  /\ Goto(r, "notify")
  /\ UNCHANGED <<themes, dirs, rows, licence, screen, gaps, strays, submits, faults>>

(* deleteTheme: the row is read, the directory removed -- a failure to is *)
(* ignored --, the row deleted by its id, and the active theme read.       *)
Find(r) ==
  /\ req[r].stage = "find"
  /\ IF req[r].theme \in DOMAIN themes
     THEN req' = [req EXCEPT ![r].stage = "remove", ![r].dir = themes[req[r].theme].dir]
     ELSE End(r)
  /\ UNCHANGED <<clock, store, licence, screen, gaps, strays, adrift, submits, faults>>

Remove(r) ==
  /\ req[r].stage = "remove"
  /\ Goto(r, "drop")
  /\ \/ dirs' = [dirs EXCEPT ![req[r].dir] = "gone"] /\ UNCHANGED <<strays, faults>>
     \/ /\ Fault /\ UNCHANGED dirs
        /\ strays' = strays \cup {req[r].dir}
  /\ UNCHANGED <<clock, settings, themes, rows, licence, screen, gaps, adrift, submits>>

(* The row is the one Find read; the directory tells it from a later one. *)
SameRow(r) == req[r].theme \in DOMAIN themes /\ themes[req[r].theme].dir = req[r].dir

(* Requests that read the row of r before it is deleted go on with it. *)
Overtaken(r) == {q \in Request \ {r} : req[q].stage \in {"load", "apply"} /\ req[q].theme = req[r].theme}

Drop(r) ==
  /\ req[r].stage = "drop"
  /\ IF SameRow(r)
     THEN /\ themes' = Without(themes, req[r].theme)
          /\ req' = [q \in Request |->
               IF q = r THEN [req[r] EXCEPT !.stage = "revert"]
               ELSE [req[q] EXCEPT !.stale = @ \/ q \in Overtaken(r)]]
     ELSE End(r) /\ UNCHANGED themes
  /\ UNCHANGED <<clock, settings, dirs, rows, licence, screen, gaps, strays, adrift, submits, faults>>

Revert_NoReset(r) ==
  /\ req[r].stage = "revert" /\ End(r)
  /\ UNCHANGED <<clock, store, licence, screen, gaps, strays, adrift, submits, faults>>
Revert(r) ==
  /\ req[r].stage = "revert"
  /\ IF settings.active = req[r].theme THEN Goto(r, "reset") ELSE End(r)
  /\ UNCHANGED <<clock, store, licence, screen, gaps, strays, adrift, submits, faults>>

\* Seeded fault: a content route answers without having the screen told.
Announce_Forgotten(r) == UNCHANGED <<req, gaps>>

\* A content route creates or edits a row, or deletes it, and has the screen told.
Announce(r) == Goto(r, "notify") /\ UNCHANGED gaps

\* The routes of the Screen table answer without a notice.
StaySilent == unsaid' = TRUE /\ UNCHANGED <<req, missed>>

WriteRow(r) ==
  /\ req[r].stage = "idle" /\ Submitted
  /\ clock' = clock + 1
  /\ \E x \in RowId : rows' = Put(rows, x, clock')
  /\ Announce(r) \/ StaySilent
  /\ UNCHANGED <<settings, themes, dirs, licence, screen, strays, adrift, faults>>

DeleteRow(r) ==
  /\ req[r].stage = "idle" /\ Submitted
  /\ \E x \in DOMAIN rows : rows' = Without(rows, x)
  /\ Announce(r) \/ StaySilent
  /\ UNCHANGED <<clock, settings, themes, dirs, licence, screen, strays, adrift, faults>>

(* A new licence is activated. *)
Renew(r) ==
  /\ req[r].stage = "idle" /\ Submitted
  /\ licence = 1 /\ licence' = 2
  /\ Goto(r, "notify")
  /\ UNCHANGED <<clock, store, screen, gaps, strays, adrift, faults>>

(* The licence lapses: nobody tells the screen. *)
Lapse ==
  /\ licence = 0 /\ licence' = 1 /\ Fault
  /\ missed' = TRUE
  /\ UNCHANGED <<clock, store, req, screen, unsaid, strays, adrift, submits>>

-----------------------------------------------------------------------------
(* The fetches of the screen. *)
Flying  == {f \in Fetch : fetch[f].stage # "idle"}
Send(f) ==
  /\ fetch[f].stage = "idle"
  /\ fetch' = [fetch EXCEPT ![f] = [Quiet EXCEPT !.stage = "stamp", !.base = held,
                                                 !.after = Flying]]
  /\ missed' = FALSE /\ unsaid' = FALSE

(* fetch f ends; the fetches it was sent after are now answered late. *)
Settled(f) == [g \in Fetch |->
  IF g = f THEN Quiet
  ELSE [fetch[g] EXCEPT !.after = @ \ {f}, !.late = @ \/ g \in fetch[f].after]]

(* broadcast content:update reaches the screen, or is lost. *)
Notify(r) ==
  /\ req[r].stage = "notify" /\ End(r)
  /\ \E f \in Fetch : Send(f)
  /\ UNCHANGED <<clock, store, licence, held, shown, strays, adrift, submits, faults>>

LoseNotice(r) ==
  /\ req[r].stage = "notify" /\ End(r) /\ Fault
  /\ missed' = TRUE
  /\ UNCHANGED <<clock, store, licence, screen, unsaid, strays, adrift, submits>>

(* The window's online event. *)
Online ==
  /\ Fault
  /\ \E f \in Fetch : Send(f)
  /\ UNCHANGED <<clock, store, licence, req, held, shown, strays, adrift, submits>>

(* The page is reloaded: its fetches are gone, it fetches again and shows *)
(* meanwhile, or when that fails, what the service worker kept.           *)
Reload ==
  /\ Fault
  /\ \E f \in Fetch : fetch' = [g \in Fetch |->
       IF g = f THEN [Quiet EXCEPT !.stage = "stamp", !.base = held] ELSE Quiet]
  /\ missed' = FALSE /\ unsaid' = FALSE
  /\ UNCHANGED <<clock, store, licence, req, held, shown, strays, adrift, submits>>

(* contentVersionStamp: the licence, then the active theme and the Theme    *)
(* table, then the rows; a licence or a Theme table that cannot be read is  *)
(* stamped as unknown.                                                      *)
StampLicence(f) ==
  /\ fetch[f].stage = "stamp"
  /\ \E l \in {licence, 3} :
       /\ IF l = 3 THEN Fault ELSE UNCHANGED faults
       /\ fetch' = [fetch EXCEPT ![f].stage = "tally",
                                 ![f].seen = [NoSeen EXCEPT !.licence = l]]
  /\ UNCHANGED <<clock, store, licence, req, held, shown, gaps, strays, adrift, submits>>

StampThemes(f) ==
  /\ fetch[f].stage = "tally"
  /\ \E read \in BOOLEAN :
       /\ IF read THEN UNCHANGED faults ELSE Fault
       /\ fetch' = [fetch EXCEPT ![f].stage = "count",
            ![f].seen = [@ EXCEPT !.active = settings.active, !.tallied = read,
                                  !.themes = ThemeTimes]]
  /\ UNCHANGED <<clock, store, licence, req, held, shown, gaps, strays, adrift, submits>>

StampTables(f) ==
  /\ fetch[f].stage = "count"
  /\ LET seen == [fetch[f].seen EXCEPT !.changed = settings.at, !.rows = rows] IN
     fetch' = [fetch EXCEPT ![f].seen = seen,
       ![f].stage = IF Stamp(seen) = Stamp(fetch[f].base.seen) THEN "same" ELSE "rows"]
  /\ UNCHANGED <<clock, store, licence, req, held, shown, gaps, strays, adrift, submits, faults>>

(* A fetch that has read b, and whether b agrees with its stamp. *)
Got(x, stage, b, whole) == [x EXCEPT !.stage = stage, !.read = b, !.whole = whole]

(* The bundle: settings and rows; licence and active theme; the theme. *)
ReadRows(f) ==
  /\ fetch[f].stage = "rows"
  /\ fetch' = [fetch EXCEPT ![f] = Got(fetch[f], "active",
       [fetch[f].read EXCEPT !.changed = settings.at, !.rows = rows],
       DOMAIN rows \subseteq DOMAIN fetch[f].seen.rows)]
  /\ UNCHANGED <<clock, store, licence, req, held, shown, gaps, strays, adrift, submits, faults>>

ReadActive(f) ==
  /\ fetch[f].stage = "active"
  /\ \E l \in {licence, 3} :      \* 3: it could not be read: trial, watermark
       /\ IF l = 3 THEN Fault ELSE UNCHANGED faults
       /\ fetch' = [fetch EXCEPT ![f] = Got(fetch[f], "theme",
            [fetch[f].read EXCEPT !.licence = l, !.theme = settings.active],
            fetch[f].whole /\ l # 3)]
  /\ UNCHANGED <<clock, store, licence, req, held, shown, gaps, strays, adrift, submits>>

ReadTheme(f) ==
  /\ fetch[f].stage = "theme"
  /\ LET found == Resolve(fetch[f].read.theme) IN
     \E t \in {found, Default} :   \* its file may not be readable
       /\ IF t # found THEN Fault ELSE UNCHANGED faults
       /\ fetch' = [fetch EXCEPT ![f] = Got(fetch[f], "full",
            [fetch[f].read EXCEPT !.theme = t],
            fetch[f].whole /\ t = found /\ t \in DOMAIN fetch[f].seen.themes \cup {Default})]
  /\ UNCHANGED <<clock, store, licence, req, held, shown, gaps, strays, adrift, submits>>

(* A part of the stamp could not be read: it matches the unknown of another. *)
Unknown(s) == s.licence = 3 \/ ~s.tallied

(* The answer arrives: 304, the copy that was revalidated, or a new copy. *)
Answer(f) ==
  /\ \/ fetch[f].stage = "same" /\ shown' = fetch[f].base /\ UNCHANGED held
     \/ /\ fetch[f].stage = "full"
        /\ held' = Copy(fetch[f].seen, fetch[f].read, fetch[f].whole)
        /\ shown' = held'
  /\ fetch' = Settled(f)
  /\ missed' = (missed \/ fetch[f].late \/ Unknown(fetch[f].seen))
  /\ UNCHANGED <<clock, store, licence, req, unsaid, strays, adrift, submits, faults>>

(* It does not: the screen keeps what it shows and does not try again. *)
FetchFails(f) ==
  /\ fetch[f].stage # "idle" /\ Fault
  /\ fetch' = [Settled(f) EXCEPT ![f] = Quiet]
  /\ missed' = (missed \/ (~fetch[f].late /\ \A g \in Flying : f \notin fetch[g].after))
  /\ UNCHANGED <<clock, store, licence, req, held, shown, unsaid, strays, adrift, submits>>

-----------------------------------------------------------------------------
(* What a request leaves behind when it stops before its next step. *)
Left_AnyStage(r) == {req[r].dir}
Left(r) == IF req[r].stage \in {"create", "drop"} THEN {req[r].dir} ELSE {}
Unmoored(r)    == req[r].stage \in {"revert", "reset"}
Unannounced(r) == req[r].stage \in {"drop", "revert", "reset", "notify"}

(* A database step of the request fails, or its file cannot be read back. *)
Fails(r) ==
  /\ req[r].stage \in Stage \ {"idle", "write", "remove", "notify"} /\ Fault
  /\ strays' = strays \cup Left(r)
  /\ adrift' = (adrift \/ Unmoored(r))
  /\ missed' = (missed \/ Unannounced(r))
  /\ End(r)
  /\ UNCHANGED <<clock, store, licence, screen, unsaid, submits>>

(* The server restarts. *)
Crash ==
  /\ Fault
  /\ strays' = strays \cup UNION {Left(r) : r \in Request}
  /\ adrift' = (adrift \/ \E r \in Request : Unmoored(r))
  /\ missed' = (missed \/ Flying # {} \/ \E r \in Request : Unannounced(r))
  /\ req' = [r \in Request |-> Idle]
  /\ fetch' = [f \in Fetch |-> Quiet]
  /\ UNCHANGED <<clock, store, licence, held, shown, unsaid, submits>>

ThemeStep(r) == \/ Submit(r) \/ Check(r) \/ Write(r)
                \/ Create(r) \/ Lookup(r) \/ Load(r) \/ Apply(r) \/ Find(r) \/ Remove(r)
                \/ Drop(r) \/ Revert(r) \/ Fails(r)
RowStep(r)   == WriteRow(r) \/ DeleteRow(r) \/ Renew(r) \/ Notify(r) \/ LoseNotice(r)
FetchStep(f) == \/ StampLicence(f) \/ StampThemes(f) \/ StampTables(f)
                \/ ReadRows(f) \/ ReadActive(f) \/ ReadTheme(f)
                \/ Answer(f) \/ FetchFails(f)

Next ==
  \/ \E r \in Request : ThemeStep(r) \/ RowStep(r)
  \/ \E f \in Fetch : FetchStep(f)
  \/ Lapse \/ Online \/ Reload \/ Crash

Spec == Init /\ [][Next]_vars

-----------------------------------------------------------------------------
(* A partial function from S to V: a table. *)
IsTable(f, S, V) == DOMAIN f \subseteq S /\ f \in [DOMAIN f -> V]
IsSeen(s) ==
  /\ s \in [licence : 0..3, active : Theme \cup {Default}, tallied : BOOLEAN,
            themes : {s.themes}, changed : Nat, rows : {s.rows}]
  /\ IsTable(s.themes, Theme, Nat) /\ IsTable(s.rows, RowId, Nat)
IsBundle(b) ==
  /\ b \in [licence : 0..3, theme : Theme \cup {Default}, changed : Nat, rows : {b.rows}]
  /\ IsTable(b.rows, RowId, Nat)
IsCopy(c) ==
  /\ c \in [seen : {c.seen}, bundle : {c.bundle}, whole : BOOLEAN]
  /\ IsSeen(c.seen) /\ IsBundle(c.bundle)
IsFetch(x) ==
  /\ x \in [stage : FetchStage, base : {x.base}, seen : {x.seen}, read : {x.read},
            whole : BOOLEAN, after : SUBSET Fetch, late : BOOLEAN]
  /\ IsCopy(x.base) /\ IsSeen(x.seen) /\ IsBundle(x.read)

StoreType ==
  /\ clock \in Nat
  /\ settings \in [active : Theme \cup {Default}, at : Nat]
  /\ IsTable(themes, Theme, [dir : Dir, at : Nat])
  /\ dirs \in [Dir -> {"unused", "whole", "gone"}]
  /\ IsTable(rows, RowId, Nat) /\ licence \in 0..2
ReqType == req \in [Request -> [stage : Stage, theme : Theme \cup {Default},
                                dir : Dir \cup {NoDir}, stale : BOOLEAN]]
ScreenType == /\ fetch = [f \in Fetch |-> fetch[f]] /\ \A f \in Fetch : IsFetch(fetch[f])
              /\ IsCopy(held) /\ IsCopy(shown)
CountType == /\ missed \in BOOLEAN /\ unsaid \in BOOLEAN /\ adrift \in BOOLEAN /\ strays \subseteq Dir
             /\ submits \in 0..MaxOps /\ faults \in 0..MaxFaults

(* Every variable has its type (lib/themes/store.ts, app/api/content). *)
TypeOK == StoreType /\ ReqType /\ ScreenType /\ CountType

(* Rows and directories of themes agree (installTheme, deleteTheme): the *)
(* directory of a row is complete and belongs to no other row, and a     *)
(* directory on disk belongs to a row or to a request at work on it,     *)
(* except for those a failed step or a restart left behind.              *)
Removing(d) == \E r \in Request : req[r].stage = "drop" /\ req[r].dir = d
Building(d) == \E r \in Request : req[r].stage = "create" /\ req[r].dir = d
DirsMatchRows ==
  /\ \A t \in DOMAIN themes : LET d == themes[t].dir IN
       \/ dirs[d] = "whole" \/ d \in strays \/ Removing(d)
  /\ \A t, u \in DOMAIN themes : themes[t].dir = themes[u].dir => t = u
  /\ \A d \in Dir : dirs[d] = "whole" =>
       \/ \E t \in DOMAIN themes : themes[t].dir = d
       \/ d \in strays \/ Building(d)

(* The settings name an installed theme, unless its deletion is about to  *)
(* revert it, was cut short, or overlapped an activation that had already *)
(* read the theme's row (activateTheme, deleteTheme).                     *)
ActiveIsInstalled ==
  \/ settings.active \in DOMAIN themes \cup {Default} \/ adrift
  \/ \E r \in Request : Unmoored(r) /\ req[r].theme = settings.active

(* While the stamp of a cached response is the current one, the response   *)
(* is the current bundle: a 304 never preserves content that has changed   *)
(* (contentVersionStamp: COUNT and MAX).  Excepted are a response whose    *)
(* bundle was misread or holds a row created after its stamp, and a theme  *)
(* whose directory is gone while its row is not.                           *)
Sound == settings.active \in DOMAIN themes => Resolve(settings.active) = settings.active
EtagFaithful == held.whole /\ Sound /\ Stamp(held.seen) = Stamp(Now) => held.bundle = Bundle

(* When nothing is under way and no change was missed -- its notice lost,   *)
(* the fetch it caused failed, overtaken or stamped in part, or a lapse of   *)
(* the licence nobody tells --, the screen shows the current settings, theme *)
(* and licence, and the current rows unless one was changed in silence after *)
(* its last fetch was sent (notifyContentUpdate, fetchContent).              *)
AtRest == Flying = {} /\ \A r \in Request : req[r].stage = "idle"
ScreenCurrent == AtRest /\ ~missed /\ shown.whole /\ Sound =>
  /\ shown.bundle.licence = licence
  /\ shown.bundle.theme = Resolve(settings.active)
  /\ shown.bundle.changed = settings.at
  /\ ~unsaid => shown.bundle.rows = rows
=============================================================================
