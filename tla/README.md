# View_LBA in TLA+

View_LBA is a digital-signage system for a waiting room: televisions show live
video that an OBS publishes, and announcements, menus and themes that an
administrator edits. This directory models the parts of it in which several
actors, timers or failures meet, checks them with TLC on small instances, and
proves what matters most with TLAPS for every value of the constants.

    tlc -workers 2 -config LiveStream.cfg MCLiveStream      # model-check a run
    tlapm LiveStream_proofs.tla                             # check its proofs

`PROJECT.json` lists the runs, the theorems, the definitions with the source
lines each one stands for, the hazards of the code, and for every checked property
a seeded bug (operators such as `Teardown_KeepsTimer`, marked "Seeded fault")
that breaks it.

## 1. Inventory

Paths are relative to `src/`. RS is `mini-services/realtime-service/index.ts`, SS
is `mini-services/stream-service/index.ts`, TD and SP are
`src/components/display/TvDisplay.tsx` and `StreamPlayer.tsx`.

| component | state it keeps | operations | hard behaviours | what makes it correct | module |
|---|---|---|---|---|---|
| **stream-service** (SS) | in memory: `currentKey`, `currentApp`, one `state` (live, session id, path), grace timer, set of viewer sessions | 2 s key refresh, publish and play hooks of node-media-server, 2.5 s grace timer, 10 s broadcast, control server | hooks against timers; two publishers on one flag; crash loses everything | live has a cause, dead air is reported, viewers are counted, old keys stay dead | `LiveStream`, which implements `LiveBroadcast` |
| **stream API routes** | the `Settings` row (key, app, host, ports) | key rotation, RTMP settings, `/api/stream/status`, FLV proxy with idle watchdog | rotation is not pushed to SS; the proxy reads the key at each pull | an old key is never admitted again | `LiveStream` |
| **TV: live flag** (TD) | `serverLive` (unknown, live, off) | `stream:server` events, status poll every 10 s | lost events, late answers that overwrite newer events | ends up agreeing with SS | `LiveStream` |
| **TV: StreamPlayer** (SP) | UI state, generation, attempts, retry timer, stall count, attached player | effects on settings, rebuild, teardown, async import of the library, video and player events, watchdog | callbacks of a dead generation, state read before the render it causes | no leaked player, quiet when off, never abandoned, ends up live | `StreamPlayer` |
| **licensing: trial and clock** | two anchor files (trial start, high-water mark, tampered), licence row, history | evaluate, activate | unreadable or stale anchors, clock set back, failed database reads | one trial, bounded stretch, sticky tamper flag | `LicenseClock`, which implements `TrialLedger` |
| **licensing: activation, status cache** | licence row, history with `isCurrent`, 3 s public cache with an epoch | activate, status | overlapping activations, cache filled by an older read | no downgrade, one current row, cache no older than the last activation | `LicenseActivation`, which implements `LicenceRegister` |
| licensing: token, crypto, fingerprint, disk binding, request code, features | none | encode, sign, verify, bind | none of state | inverse functions, tolerance of hardware drift | not modelled |
| **realtime-service** (RS) | screens by socket, pairing rooms with TTL and attempts per socket | `display:register`, `pair:wait`, internal broadcast, heartbeat | reconnection, code expiry, limits, delivery counted late | a token is delivered to the screen that shows the code; a shown code is waited for | `ScreenPairing` (rooms and registration) |
| **screen pairing** | TV: token and code in localStorage; server: token hash on the `Screen` row | register, wait, complete, reject; admin: link a code | a hash written before delivery; a rejection that arrives after completion | a paired TV stays paired; a TV that waits can be paired; no row is locked | `ScreenPairing` |
| **content** (`api/content`, TD) | content tables; bundle shown, HTTP cache, copy in localStorage, service worker cache | CRUD, version stamp and 304, fetch, `content:update` | stamp and bundle read apart, older bundle applied over newer, lost notices | a 304 keeps only current content; the TV ends up with it | `ContentDelivery` (not the offline copies) |
| **themes** | theme rows, directories, settings of the active theme | install, activate, delete, purge | files and rows written apart, activate against delete | the active theme exists, no orphan directories | `ContentDelivery` |
| admin API, users, backup | Prisma rows, upload files | CRUD, settings, users, backup and restore | last administrator, restore half done | there is always an administrator | content rows: `ContentDelivery`; backup and restore: `Installer` |
| sessions, rate limit, SSRF guard, env | login limiter in memory | checks | none (synchronous) | unit-tested | not modelled |
| **installer core** | phases, registry of rollback actions, install state on disk | install, update, repair, uninstall, rollback | a phase fails, rollback of what was there before | a run that ends well serves; a failed one leaves no more than its rollback could not remove; data and secrets survive both | `Installer` |
| installer tooling, scripts | files | packaging, CLI, tray, backup, GC | sequential | – | not modelled, but for `init-production`, backup and restore, in `Installer` |
| Android licence issuer | issued licences, requests, key vault | open request, issue, renew, back up | killed between insert and mark | one licence per request | not modelled |
| admin panel, `components/ui` | form state | presentation | – | – | not modelled |

### How they interact

    OBS --RTMP--> node-media-server --loopback hooks--> stream-service
       stream-service --POST /internal/broadcast--> realtime-service --socket--> TVs
       TV --GET /api/stream/status--> Next.js --HTTP--> stream-service
       TV --GET /api/stream/live.flv--> Next.js --HTTP-FLV--> node-media-server
    admin panel --API--> Next.js --> SQLite <--2 s refresh-- stream-service
       API after each write --> realtime-service --> content:update --> TVs

Nothing is acknowledged between the stream-service and the televisions: events
may be lost, and polling is what repairs. The key reaches the stream-service only
by its polling of the database.

## 2. Plan

Order by importance for the waiting room (does it show video, does it keep working,
is it entitled to), each module written to be proved about: constants with named
assumptions, one action per operation, no RECURSIVE operator.

1. `LiveStream`, `StreamPlayer`, `LicenseClock` with their proofs (done).
2. `ScreenPairing`: RS, the identity part of TD and the token routes together (done).
3. `LicenseActivation` at the granularity of awaits, and the abstract
   `LicenceRegister` it implements (done, with proofs).
4. `Installer`: phases, failures, rollback, both service adapters, restore and
   uninstall (done, with proofs).
5. `ContentDelivery`: themes, content rows, version stamp and the screen (done, with
   proofs).
6. The abstract `LiveBroadcast` under `LiveStream` and `TrialLedger` under
   `LicenseClock`, with their refinements proved; the safety halves of the liveness
   properties (done).
7. What remains: the composition of `LiveStream` with the FLV pull as the `feed` of
   `StreamPlayer`, the offline copies of a television, and the licence issuer.

## 3. What is modelled

### LiveStream

One module, because its three processes share nothing but messages: the `Settings`
row, node-media-server (NMS), the stream-service, and the televisions.

| state | code |
|---|---|
| `settings` | `rtmpApp`, `rtmpStreamKey`, `streamSource` of the `Settings` row; keys are numbered in the order they are generated, 0 is none |
| `nms`, `flv`, `notify`, `nextSession` | external: publisher slots, open FLV pulls, hook requests not handled yet, session ids |
| `up`, `currentKey`, `currentApp` | the process, SS 58-113 |
| `live`, `sessionId`, `lastSession`, `graceTimer`, `playSessions` | `state`, the timer and the viewer set, SS 124-147 |
| `chan`, `poll`, `serverLive` | `stream:server` events and poll answers on their way to a TV, and what TD believes |
| `lastAdmitted`, `edits`, `crashes` | history and bounds |

Actions are the handlers: `RefreshStreamConfig` (tick), `Publish` (prePublish and the
slot), `PostPublish`, `DonePublish`, `GraceExpires`, `PostPlay`, `DonePlay`,
`PeriodicBroadcast`, `Crash`, `Restart`, `OpenFlv`/`CloseFlv` (proxy), `RotateKey`,
`SetStream` (admin: application and source), `DeliverEvent`, `StatusAnswered`, `PollApplied`, `PollLost` (TV).
A broadcast reaches any subset of the televisions: `broadcastStream` is fire and
forget. While the source is external no pull is opened and the status route answers
`live: null`, which a television takes for unknown; the service goes on either way.

Assumptions. Hooks come over one loopback connection in order. NMS keeps the slot of
a publisher that left for a grace (30 s, `tests/stream-pipeline.test.ts` 18 and
348) in which the same path may be resumed under a new session. Events of one
television arrive in order if they arrive.

`LiveBroadcast` is what the service promises the televisions, whatever carries it: at
most one publication is on the air, no other takes over from it, its end goes through a
grace period or comes with the end of the service, and no television shows what was not
so when it was said. `KeepsBroadcast` is the refinement. The registered session is the
publication on the air, the grace timer is its end, and all that is under way to a
television, events and poll answer, is a *set* of words: the abstract service leaves
order, number and loss open. It has no step back from the end to the air: the branch of
`postPublish` that clears a running timer (SS 207-210) is never taken, because the
session registered is never announced again and any other is turned away before (SS
203). That is finding 1 from the other side.

### StreamPlayer

The component as React runs it. A handler and the render it causes are one step,
but the order inside is the code's: `rebuild()` reads `videoRef` *before* the
render its own `setState` causes (`Rebuild(props, mounted)` in `RetryTimer`), an
effect runs *after* the render of the new props (`Rebuild(p, ShowVideo(p, uiState))`
in `ChangeProps`). `genRef` tells loads and players of the present
generation (`"cur"`) from those of older ones (`"old"`).
`feed` is the environment: whether the source delivers media. An error or stall event
comes only while it does not, a `playing` event only while it does.

`mse` says whether the browser plays live media by MSE; it never changes. Without it a
load of mpegts.js ends in `fallback` with nothing to retry (SP 190-194): the properties
that promise a picture are about browsers with it. (A television that has fallen back
so and is then given an external source stays in `connecting`: the video is unmounted
when `rebuild()` looks for it, as in finding 2.)

Left out: a player that hangs in `connecting` without an error event (nothing in the
code ends that; it is a hazard), the soft recovery of an hls.js MEDIA_ERROR, volume,
fullscreen, metrics.

### LicenseClock

An evaluation (`getLicenseSystemState`) reads the licence row (the read may fail and then
counts as no licence), reads and merges the anchors, decides whether the trial starts,
moves the high-water mark, writes the anchors if something changed, and judges. Anchor
access is synchronous, so this is one action, `Evaluate`; its choices are the failed
read, which anchors the write reaches, and whether the end of a trial or licence is logged
(which writes the anchors again). `Activate` is `activateLicenseToken` run alone.
The environment advances the clock, sets it back to any earlier reading, and damages
anchors. An anchor is damaged freely so long as an intact one knows all that the
anchors together know; constant `TotalLoss` lists the ways in which all may go at once:
unreadable, missing, or not reached by a write, whose failures `writeTrialAnchors`
swallows (`storage.ts` 172-174).
Time is counted in units; `TRIAL`, `TOLERANCE`, `INTERVAL` and `GRACE` are the code's
7 days, 2 hours, 1 minute and optional grace, scaled down in TLC and
arbitrary in the proofs. Every licence of the model has passed signature and binding.

`TrialLedger` is what the anchors are for (`storage.ts` 13-14, 104-111): one ledger of
trial start, high-water mark and tampered flag, which no damage touches and only an
evaluation writes. The mark follows the clock up, or lags it by less than the throttle; the
trial begins once, on a clock that did not go back. `KeepsLedger` is the refinement, with
start and mark read off whatever anchors are left, so each step that damages
anchors has to leave the ledger as it was.

### ScreenPairing

The identity of a television, across four parts: the API routes that create screens
and link codes, the rooms and registrations of RS, the wire, and TD.

| state | code |
|---|---|
| `rows`, `tokens` | `active` and `tokenHash` of the `Screen` rows; tokens are numbered as they are generated and a token stands for its own hash |
| `jobs` | requests of the token route or of the creation route, between their awaits |
| `conn`, `up`, `down` | the socket and what is under way on it, in order; all is lost when it breaks |
| `attempts`, `room`, `entry` | `pairAttempts`, `pairRoomOf`, `screens`, kept per socket id |
| `key`, `token`, `chosen` | localStorage, with the React state `screenCode` that follows it |
| `shown`, `picker` | `pairCodeRef`, `showPicker` |
| `excused`, `linked`, `refused`, `ops` | history the properties need, and a bound |

`PairEffect` is the React effect on `[showPicker, screenCode]`; every handler that
changes one of them takes it along. `LoadPage` is what a reload leaves: localStorage.
`WriteHash`, `BroadcastToRoom` (once, and again 600 ms later) and `UndoHash` are the
steps of one request, with the other actors in between. A broadcast may be carried
out and its answer lost (3 s time-out), and the web server may restart between two steps
(`ApiDies`). `OnRegister` reads the database at the moment it serves the message,
or fails to, and then refuses as if there were no row. `HandToken` is the
token route without a code.

Assumptions. Codes are random: two televisions never draw the same one, and none is
drawn again while it is in use. With `Hasty = FALSE` administrators read a code off a
screen that has settled and link it once; with `Hasty = TRUE` they may link the code of
a registration that is still under way, or one that the screen showed before and whose
room is still there (it stays until its TTL, after a completed pairing too), and then
`NeverDiscardsGoodToken` fails with two requests: the refusal of the first token arrives
after the second one was stored. A deleted row is created again only when no request
that began on the old one is under way; such a request keeps the old row's id, and ends
with an error in the code. Left out: administrators' snapshots, `lastSeen`,
audio and commands, the rate limits of HTTP.

### LicenseActivation and LicenceRegister

`activateLicenseToken` from its first read of the store on, one action per await:
`Submit` (the synchronous checks), `ReadCurrent` and `ReadHistory` (anti-replay and
anti-downgrade, each read may fail and then counts as nothing found), `Save` (the
licence row), `Demote` and `CreateRow` (the two statements of `appendHistory`, whose
failure is swallowed), `Notify`, `Bump` (the epoch). `Poll`, `Evaluate`,
`StoreEntry` are `GET /api/license`: the epoch is read before the evaluation and the
entry stored after it; `Age` is the 3 s life of the entry. `Restart` loses everything
in memory between any two of them, and `SetClock` sets the clock.

| state | code |
|---|---|
| `record`, `history` | `LicenseState` row, `LicenseHistory` table |
| `req`, `poll` | activations and status readers between their awaits |
| `epoch`, `cache` | `stateEpoch`, the cached public summary |
| `disturbed` | history: an access failed, two activations crossed, or the clock went back behind the licence in force |

`LicenceRegister` is what the header of `index.ts` (8-9) promises, anti-replay and
anti-downgrade: one licence held, never one entered twice, never one that ends sooner.
`KeepsRegister` is the refinement, with the identifiers entered so far read off the
history, the record and the requests under way. Once `disturbed`, the register is no
longer trusted and nothing is claimed: two activations that cross both pass the checks
against the older licence, so in the code the shorter one may win, and a token whose row
was lost may be entered again. A licence of the model is `[id, starts, expires]`,
already verified and bound; `LicenseClock` has the evaluation of the one in force.

### Installer

One machine. On disk or in the service manager, so it lasts: `code` (a version, `Mixed`
while or after an incomplete copy), `env` (secrets named by the job that wrote them, and
port), `db` (last migration, content; `Torn` when overwritten in part),
`backups`, `units`, `auto`, and the processes (`running` the code each was started from,
`listening` the port of the app). In the memory of a run, lost with it: `phase`,
`job`, `registry` (the `RollbackRegistry`), `next`.

A run is `StartInstall`, `Preflight`, `Deploy`, `DeployEnds`, `Environment`,
`InitDatabase`, `ServicesBegin`, `InstallUnit` once per unit, `StartServices`, `Health`,
`CreateAdmin`, `Finalize`; any command of it may fail (`Fault`), and then
`RollbackServices` and `RollbackFiles` follow, whose own commands may fail too. A payload
that comes without a build and is not to be built on the machine only gives a warning
(`install.ts` 439-442): what runs from then on is the build it was copied over, or
nothing (`OldBuild`). `StartUninstall` and five `Remove...` steps are `uninstallAction`; `StartRestore`, `RestoreStop`, `RestoreSafety`,
`RestoreCopy`, `RestoreStart` are `restoreAction` with `restore.ts`. `ManageServices`,
`Backup`, `Edit`, `ServiceDies` (systemd or NSSM restart it) come between, `Crash` kills
the run, `Reboot` starts what is enabled.

Both adapters ignore what `systemctl` and `nssm` answer when they stop and remove, and
`performRollback` (75-78), `uninstallAction` (202-208) and `restoreAction` (129, 136)
go on whatever comes of it. `TakeDown` is a removal that succeeds; `TakeDownInPart` one in
which commands fail: some units stay, of the processes to stop none, those of the units
that stay, or all go on, and on Linux a unit that stays may be disabled. `Stop` and
`Launch` in `ManageServices`, `RestoreStop` and `RestoreStart` reach any subset of the
services when a command fails. Where the adapters differ the actions do
(`InstallUnitLinux`, `InstallUnitWindows`): the one of Windows stops, removes and
installs each service without looking at the result of the first two, never finds its own
services active in the preflight, and keeps the `.env` in `appDir`.

One installer runs at a time, and nobody edits the files by hand. Left out: firewall rules
(the Linux adapter registers none), empty directories, the system user, the checks of
tools and disk space (a failed preflight stands for them), the media directory (an
option of the uninstallation like that of the backups), retention of fourteen
backups, the tray, the graphical front end. A unit file that is written in part counts as
a unit.

### ContentDelivery

| state | code |
|---|---|
| `settings`, `themes`, `rows`, `dirs` | `Settings`, `Theme`, a content table, the directories under `imported/` |
| `licence` | in force, lapsed, renewed; 3 in a reading stands for one that failed |
| `req` | requests of administrators between their awaits |
| `fetch` | fetches of the screen, with what their stamp saw and what they read |
| `held`, `shown` | the response in the HTTP cache, the bundle on the screen |
| `missed`, `unsaid`, `strays`, `adrift` | history: what a failure, or a write without notice, left, by property |

Themes: `Submit`, `Check`, `Write`, `Create` (install), `Lookup`, `Load`, `Apply`
(activate), `Find`, `Remove`, `Drop`, `Revert` and `Apply` (delete). Rows: `WriteRow`,
`DeleteRow`, which `Announce` the change or `StaySilent`, `Renew` (a licence is
renewed), and `Notify` or `LoseNotice`. The route:
`StampLicence`, `StampThemes` (active theme, table of themes), `StampTables` (COUNT and
MAX of each table), then 304 or `ReadRows`, `ReadActive`, `ReadTheme`. The screen: `Send` inside
`Notify`, `Online` and `Reload`; `Answer` and `FetchFails`. `Fails` and `Crash` end a
request, or all, between two steps.

One table stands for the stamped tables with rows, which are stamped and read alike and
independently. Six are written with a notice, and `Screen` without one: its routes
(`admin/screens/route.ts` 113-156, `[id]/route.ts` 17-52, `[id]/token/route.ts`) send no
`content:update` although the table is stamped (`content/route.ts` 43) and served (75).
A write of the model's table may be of either kind. A licence or a table of themes
that cannot be read is stamped as unknown. A row
is its `updatedAt`: the clock of the model advances with every write, so two writes never
share a time; a server clock set back is a hazard and not in the model. Writing a
directory is one step: an installation that fails inside it removes what it wrote.
A fetch is sent while there is a free slot of `Fetch`; two of them are enough for one
to overtake the other. The properties name their exceptions: `whole` (a bundle read
without fault, that holds no row created after its stamp), `Sound` (no theme row whose
directory is gone), `missed` (no notice lost, no fetch failed, overtaken or stamped in
part), `unsaid` (no row changed in silence since the last fetch was sent). `missed`
is where `src/lib/realtime.ts` 27 and `docs/ARCHITECTURE.md` 45 speak of a polling that
would repair; there is none, see 6.

## 4. Runs

| run | instance | shows |
|---|---|---|
| `live_stream` | 1 TV, 2 apps, local or external source, 2 keys, 1 edit, 2 publications, 1 crash, 1 hook and 1 event in flight beyond those forced | six safety and liveness properties of the pipeline, see below |
| `live_stream_reconnect` | 1 path, 2 publications, no crash | finding 1 |
| `stream_player` | 2 URLs, browsers with MSE and without, 3 failures in a row, the code's limit of 3 fast retries | safety and liveness of the player when fewer failures than the fallback needs come in a row |
| `stream_player_fallback` | the same with 4 failures | finding 2 |
| `stream_player_first_url` | 1 URL that may be missing | finding 3 |
| `license_clock` | 2 anchors, trial 2, tolerance 1, throttle 2, grace 1, two licences, clock up to 5 | trial and licence under rollbacks and damaged anchors |
| `license_clock_lost_anchors` | the same, all anchors may be invalid at once | finding 4 |
| `screen_pairing` | 1 TV, 1 row, 1 request at a time, 2 tokens, 2 waits per socket, 4 codes in use, 1 disturbance (drop, reload, selection, key, edit of the row, dying request) | pairing from any of these, see below |
| `screen_pairing_renewal` | a connected TV that nobody touches, the code's 5 waits per socket | finding 5 |
| `license_activation` | 3 licences (one reissued under its id), 2 requests at a time, 3 in all, 1 reader, 2 days, 1 fault | the refinement, the history, the cache |
| `installer` | both platforms, 2 versions, 2 ports, 2 installations or uninstallations with restores between, 1 fault, 1 edit | what a run promises, succeeding or failing |
| `content_delivery` | 1 importable theme, 2 directories, 2 rows, 2 requests at a time, 2 in all, 2 fetches, 1 fault | themes, 304 and screen under interleaving |

Properties of the passing runs, beside one `TypeOK` each:

* `LiveHasCause` – the service never announces a broadcast that nothing will end.
* `KeepsBroadcast` – the televisions see one broadcast at a time, as `LiveBroadcast` promises.
* `ViewersMatchPulls` – the viewer count is right once the hooks about a viewer are handled.
* `RotationIsOneWay` – after a newer key was admitted, an older one never is.
* `DeadAirIsReported` – when nobody publishes, the flag goes off, unless somebody comes back.
* `TvConverges` – a television ends up with the flag the service settles on, if the source
  stays local.
* `NoOrphanPlayer`, `QuietWhenOff`, `LiveHasPlayer` – no leaked player, nothing playing or
  pending while off, what is shown as live has a player.
* `NeverAbandoned` – in a browser with MSE, on a usable source there is always a player, a
  load or a retry.
* `GoesLive` – when the settings rest and the source delivers, such a TV ends up live.
* `OneTrial` – one trial start for ever.
* `TrialBounded`, `LicenceBounded` – setting the clock back gains at most the tolerance
  plus the write throttle, for trial and licence.
* `KeepsLedger` – the surviving anchors together behave as the one ledger of `TrialLedger`;
  in particular the start stays, the mark never falls and a rollback is never forgotten.
* `AwaitedUnlessBlocked` – the code a TV shows is the one RS waits for, unless a wait or a
  renewal is under way or the limit of the socket is used up.
* `NoOrphanHash` – no row asks for a token that nobody was given.
* `NeverDiscardsGoodToken` – a television never forgets the token its row asks for.
* `DeliveredIsVerified` – a TV that holds it and stays connected ends up registered as
  verified, unless its registration met a locked database or an inactive row.
* `KeepsRegister` – activations implement `LicenceRegister` until one is disturbed.
* `HistoryNamesRecord` – until then the history has one current row, that of the licence held.
* `PublicViewCurrent` – no summary that may be served is older than the last answered
  activation.
* `SuccessMeansServing` – a run reported as complete serves the code just deployed (the build
  it found, when it deployed none), on the port asked for, over a database migrated for it,
  from units that come back.
* `FaultFreeRunSucceeds` – without a failed command, four named situations alone roll a
  run back.
* `LeftoversExplained` – what a failed run leaves registered or running is what its rollback
  was told to remove and failed to, or the one unit whose file broke off; after a rollback
  without failures nothing of the run is left.
* `SecretsStable`, `DataSafe`, `CodeOutlivesUnits` – who may remove the `.env`, the content, the
  code, and in which order: the code goes after the units, unless removing these failed.
* `RunEnds` – every job ends, whatever fails in it.
* `DirsMatchRows` – rows and directories of themes agree, but for what a failure left.
* `ActiveIsInstalled` – the settings name an installed theme, unless a deletion is to revert
  them, failed, or crossed an activation.
* `EtagFaithful` – a 304 never preserves content that has changed.
* `ScreenCurrent` – at rest and with no change missed, the screen shows the current
  settings, theme and licence, and the current rows unless one was changed in silence.

### Bounds

Two publications are the least in which one is taken for a second publisher, resumes a
slot, or moves to another path; two keys and one edit give one rotation or
one app change between them; one crash separates the two. `MaxNotify` and `MaxChan` limit
posting, not handling: `ReleaseSlot` may queue beyond it, so up to three hooks
wait. Televisions do not interact, so one shows what each does. In `StreamPlayer` the
number of failures is bounded by the failures in a row (going live resets it), and the two
instances lie on the two sides of the code's limit. In `LicenseClock` the clock reaches
past trial (2), tolerance (1) and throttle (2), where both bounds bite, and may then
be set back to any reading. In `ScreenPairing`
sockets are independent of each other, and `HandToken` stands for what another
television's pairing does to a row, so one TV suffices; two tokens give a re-link; four codes
are the shown one, the awaited one, one on the wire and one in a request. Two waits per
socket reach the limit; one disturbance is enough to break a connection at every point.
In `LicenseActivation` two requests
cross, a third comes after them, and the reissued licence is what replay and downgrade
checks tell apart. In `Installer` the second job meets whatever the first, failed, killed
or complete, left behind; one fault puts a failure at any command of either. (A failed
run whose rollback fails as well takes two faults on Linux, unless the run fails without
one, as over another port or without a build; the proofs have no bound.) In
`ContentDelivery` one theme is installed, activated and deleted by requests that cross,
two directories tell a re-installation from the installation before, two rows let a
deletion and a creation cancel in COUNT, and two fetches overtake each other.
`CHECK_DEADLOCK FALSE` everywhere but in `license_activation`, because the bounded
environment may stop: administrators have no edits left, OBS and the viewers stay away.

### Fairness

* `LiveStream`: weak fairness of hook handling, the grace timer, the supervisor's
  restart and the release of a slot in grace: node timers, loopback requests and
  systemd. Televisions poll for ever (weak) and infinitely often get an answer
  (strong, since an answer may be lost). None of events, OBS, viewers or administrators.
* `StreamPlayer`: weak fairness of the retry timer, of the current load and of the healing
  watchdog, a 5 s interval.
* `LicenseClock`: none, its properties are safety.
* `Installer`: weak fairness of the next step of the run under way: it is one sequential
  program whose waits have deadlines (the health phase gives up after its timeout). None
  of starting one, of services dying, of reboots.
* `LicenseActivation`, `ContentDelivery`: none, their properties are safety.
* `ScreenPairing`: weak fairness of serving a message of a connected TV and of handling one
  at the TV (event loops). None of connecting, timers, requests, people.

## 5. What is proved

All of it for every value of the constants that satisfies the named assumptions.

| theorem | statement | argument |
|---|---|---|
| `LiveStream_proofs!TypeCorrect` | `Spec => []TypeOK` | `TypeInv`: types, and an occupied slot has a session id |
| `LiveIsCaused` | `Spec => [](LiveHasCause /\ GraceOverSession)` | `SessionInv`: live has a registered session and the timer runs only over one; in the hook queue the start of a publication stands before its end, or its slot is still held (`StartBeforeEnd`), so a start that sets `live` always leaves a cause behind |
| `TvsSeeOneBroadcast` | `Spec => KeepsBroadcast` | `InOrder`: publications are announced in the order of their sessions, each once, and those still queued are younger than the one registered. So a `postPublish` is `Begin` or is ignored, and every other step is one of the abstract service, a word heard, or a stutter |
| `TvsDrain` | while the flag rests, stale events to a television only drain, and a television that agrees with the flag stays so | every broadcast carries the flag of that step (`BroadcastSends`); a dead service is off (`DownIsOff`), which the poll relies on |
| `KeysOnlyGoForward` | `Spec => RotationIsOneWay` | `KeyInv`: last admitted key ≤ loaded key ≤ saved key while a key is loaded. A restart loads what is saved or nothing, never an older key |
| `ViewersAreCounted` | `Spec => []ViewersMatchPulls` | `ViewerInv`: the *last* hook in the queue about a TV says whether its pull is open |
| `StreamPlayer_proofs!PlayerSafety` | `TypeOK`, `NoOrphanPlayer`, `QuietWhenOff`, `LiveHasPlayer` | their conjunction is inductive; the lemma `RebuildSafe` does `rebuild()` once for all its callers |
| `PlayerNeverAbandoned` | `Spec => []NeverAbandoned` (in a browser with MSE) if a URL is never missing and failures in a row do not exceed the fast retries | adds `Armed`: outside fallback the video element is mounted when a rebuild comes |
| `LicenseClock_proofs!TypeCorrect`, `TrialIsUnique` | one trial | `IInv`: some intact anchor is `Complete` (or there are none yet), so the merge of what is left is the merge of all; and the merged start is the only one ever granted |
| `RollbackGainsLittle` | `TrialBounded`, `LicenceBounded` | adds the high-water mark: the latest reading exceeds the stored mark by less than the throttle |
| `AnchorsKeepLedger` | `Spec => KeepsLedger` | by `IInv`, the merge of the anchors left is what a complete one holds, and damage leaves one complete (`DamageSafe`), so it is a stutter; an evaluation is `Observe` (`EvaluateObserves`) |
| `MarkNeverFalls`, `TamperIsSticky` | the merged high-water mark never decreases, a detected rollback stays detected | read off the ledger |
| `ScreenPairing_proofs!TypeCorrect` | `Spec => []TypeOK` | adds that a request under way names a row |
| `HashesHaveOwners` | `Spec => []NoOrphanHash` | `HashInv`: tokens are fresh (`Generated`), a request has none before it writes (`BeforeHash`), and while it has one no row but its own asks for it (`OwnRow`), so reverting clears every trace |
| `CodesAreAwaited` | `Spec => []AwaitedUnlessBlocked` | `AwaitInv`: the *last* wait on the wire is for the code shown, and a code is shown without identity only, so connecting always announces it |
| `ScreenPairingTokens_proofs!GoodTokensAreKept` | `Spec => NeverDiscardsGoodToken` if `Hasty = FALSE` | `GoodInv`: at most one identity is on the wire of a television in either direction (`HonestAt`), and at most one request has a code that the service may still come to wait for (`AloneAt`), since a drawn code is nobody's and a linked one is not linked again; so a refusal behind a delivery is about what was delivered, and one that arrives is about the identity held |
| `DeliveredIsRegistered` | a connected TV that holds the token its row asks for, with nothing left to ask, is registered as verified, unless its registration was refused for an inactive row or a locked database; `Hasty` or not | `RegInv`: what it asks *last* is about the identity it holds (`RegisteredAt`), and no token is used before it is generated (`SeenAt`), so a refused one is not revived |
| `LiveStream_proofs!GraceTimerHasSession`, `StreamPlayer_proofs!PlayerTypes`, `PlayerQuiet`, `LiveIsPlayed`, `LicenseClock_proofs!LicenceEnds` | the remaining safety properties of those runs, each by itself | conjuncts of the invariants above |
| `LicenseActivation_proofs!Types`, `NeverStale` | `TypeOK`, `PublicViewCurrent` | `Epochs` and `Readings`: an entry or a reading of the present epoch, while nothing is unannounced, is of the present record; a reading begun before carries an older epoch |
| `OneCurrentRow`, `Refinement` | `HistoryNamesRecord`, `Spec => KeepsRegister` | `Kept`: while undisturbed at most one request is past its first read, what it saw is still the record, and the history holds every identifier but those under way; so `Save` is `Enter` and every other step a stutter, or `Distrust` |
| `Installer_proofs!TypeInvariant` | `TypeOK` | `TInv`: the parameters a phase needs are there, and what runs at boot is registered |
| `Serving`, `FaultFree` | `SuccessMeansServing`, `FaultFreeRunSucceeds` | `PhaseInv`: what each finished phase leaves is still so in every later phase (code deployed, `.env` written, database migrated, units there, processes of the new code), on Windows if no command failed |
| `Leftovers` | `Spec => []LeftoversExplained` | a unit that was not there before is in the registry from its creation on, or is the one whose creation failed; and the rollback takes down what is in the registry unless a command of it fails |
| `RunIsBounded` | a job takes at most 15 steps: each lowers `StepsLeft`, no other raises it | by phase; the loop over the units is counted by `next` (`StepsFrom`) |
| `Secrets`, `Data`, `CodeOutlives` | the three action properties | case by case on who writes the variable, with the memory of a job telling which job it is and which of its phases had a failure |
| `ContentDelivery_proofs!Types`, `DirectoriesMatch`, `ActiveInstalled` | `TypeOK`, `DirsMatchRows`, `ActiveIsInstalled` | `ThemeInv`: the directory of a request is its own (`Named`, `Fresh`), a deletion's row is doomed or already replaced (`Doomed`), an activation that has read a row knows whether it has gone stale (`Reading`) |
| `RevalidationFaithful` | `EtagFaithful` | `ScreenInv`: every snapshot is of the past, so a table whose COUNT and MAX are those of the snapshot is the snapshot: a row written since is newer than all of it, and one deleted since lowers COUNT |
| `ScreenShowsCurrent` | `Spec => []ScreenCurrent` | `DeliveryInv`: while no change is missed, either a request is still to notify the screen or to reset the theme (`Pending`), or the last fetch sent is up to date in all it has seen and read (`Bringing`), or the screen is current and whatever is still in flight was overtaken (`Brought`), each but for rows changed in silence; a 304 to the last fetch is about a current copy by the argument of `RevalidationFaithful` (`SameCopy`) |

The theorems of `LicenseClock` assume `TotalLoss = {}`: run `license_clock_lost_anchors`
shows why. Invariants are seldom inductive as they stand; the strengthenings above were
checked by TLC before they were proved.

Only model-checked: the liveness properties (`DeadAirIsReported`, `TvConverges`,
`GoesLive`, `DeliveredIsVerified`, `RunEnds`), since liveness under fairness is beyond the
prover. What each of them says of single states and steps is proved all the same:
`LiveIsCaused` (off the air, something is under way that ends `live`), `TvsDrain`,
`PlayerNeverAbandoned`, `DeliveredIsRegistered` and `RunIsBounded`; what is left to TLC is
that the messages, timers and steps they count on are taken. Every safety and action
property of a passing run, and each of the three refinements, is proved, some under
the assumption their row names.

## 6. Findings

1. **A publisher that comes back during the grace timer stays off air** (SS 203).
   Its `postPublish` is taken for a second publisher because `state.live` still holds
   the old session; 2.5 s later the timer clears the flag and nothing announces the
   publication that is running. `docs/OBS_SETUP.md` 31 says that state and video recover
   by themselves. Run `live_stream_reconnect`.
2. **The fourth failure in a row stops the player for good** (SP 143-160, 182). The
   `fallback` state unmounts the video; the retry 30 s later calls `rebuild()` while the
   element is absent, so it starts nothing and schedules nothing. The comment on line 47
   says it keeps trying every 30 s. Run `stream_player_fallback`.
3. **The first URL does not start the player** (SP 262). A television showing the waiting
   screen has no video element when the effect of the new URL runs, and ends up
   `connecting` with no player until it is reloaded or the settings change again.
   `README.md` 80-81 promises that changes reach the TV at once. Run `stream_player_first_url`.
4. **A refused trial is granted the second time** (`licensing/storage.ts` 222-244). When
   every anchor's stamp is invalid the evaluation refuses to start a trial, and
   writes valid anchors without a start; the next evaluation sees no warning and starts
   one. Run `license_clock_lost_anchors`.
5. **A renewed code cannot be linked** (RS 352). Every heartbeat of an unpaired TV
   repeats `pair:wait` (TD 232-234) and counts as one of the five attempts of its socket,
   which are spent after a minute. Ten minutes later the room expires, the TV shows a new
   code and its `pair:wait` is refused, and so is every later one of this connection.
   `ScreenPicker.tsx` 55 says that the code renews itself. Run `screen_pairing_renewal`.

Met while modelling and not the subject of a run of their own, since the models except
them by name:

* **The table of screens is served, and changes without a notice** (`admin/screens/route.ts`
  116-156, `[id]/route.ts` 17-52): a television keeps the old list of screens, names and
  locations until some other change makes it fetch, although the
  repository's `README.md` 80 promises every change "al instante".
* **Nothing polls the content.** A lost `content:update` is repaired by the next one, an `online`
  event of the window or a reload only: a socket that reconnects does not fetch. `src/lib/realtime.ts` 27,
  `src/lib/licensing/index.ts` 470, `docs/ARCHITECTURE.md` 45 and `docs/OPERATIONS.md` 92
  speak of a polling that the television does not have; its loading screen
  (TD 466) says that it retries by itself.
* **COUNT does not tell every deletion** (`api/content/route.ts` 12-13): a row created
  after the stamp was read and sent in the bundle, and deleted before the next
  fetch, leaves COUNT and MAX as they were, and the 304 keeps it on the screen.
* **An answer of the service worker is a 200** (`sw-tv.js` 77-94): with the server away
  the television takes the cached bundle for a fresh one, does not show that it is offline
  and renews the 24 h of its own copy (TD 66-71).
* **Two activations that cross** may leave the shorter licence in force
  (`licensing/index.ts` 408-441), and a failed append forgets that a token was used.
* **A running Windows installation cannot be updated** through `runInstall`: its adapter is
  asked for its services without a runner and answers that none is active
  (`windows/adapter.ts` 81-90, 230), so the preflight finds the ports taken.
* **A failed update takes the service away**: the units it re-created are removed although
  the installation before had them (`rollback.ts` 71); data, `.env` and the new code stay.
* **A removal that fails is reported as done**: the adapters ignore the exit status of
  `systemctl` and `nssm`, so `performRollback` lists as removed units that are still there
  (`rollback.ts` 73-74; its header promises to report exactly what was reverted), and
  `uninstallAction` goes on to delete the code under them although its comment (201) says
  that no service is to be left pointing at deleted files.
* **An update without a build serves the old one**: `install.ts` 440 warns that the server
  will not start, but over an installation its old build is there, starts, and passes the
  health check.

## 7. Not modelled

* Encodings and cryptography of licences, hardware probing, parsing and validation of
  theme packages: pure functions with golden vectors and unit tests in the repository,
  and no state to interleave. A module about them would transcribe them.
* The admin panel, the widgets of the television, `components/ui` (vendored), the launcher,
  the graphical installer, the tray: presentation, about two fifths of the code.
* Packaging (`build-deb.ts`, `payload.ts`, bundles, AppImage), deployment scripts, media
  collection and log purging: sequential file handling.
* The Android issuer: one user, one thread; what it issues is an input here.
* Users, logs, sessions and uploads: single-row calls behind a role check; the login limiter is
  synchronous and in memory.
* The offline copies of a television (localStorage, service worker) and `purgeInvalidThemes`.

The definitions therefore stand for a small share of all lines, and for most of those in
which something can happen in the wrong order. Within the modelled parts: the rebinding of
the FLV port, the host and port fields, and the 503/409 answers of the proxy; audit events
of licensing, except the anchor write they cause; the request limit of the activate route;
administrators' sockets, metrics and audio of RS.
