------------------------------ MODULE LiveStream ------------------------------
(***************************************************************************)
(* The live-video pipeline: OBS publishes to the node-media-server (NMS)   *)
(* that runs inside mini-services/stream-service, NMS posts its hooks to   *)
(* the service's control server, the service keeps ONE `state.live` flag   *)
(* with a short grace timer, and every TV keeps a copy of that flag        *)
(* (`serverLive`) fed by best-effort realtime events and by polling.       *)
(*                                                                         *)
(* NMS itself is a library: its slots are modelled from the hooks the      *)
(* service subscribes to and from what tests/stream-pipeline.test.ts says  *)
(* of it (a path keeps its slot for a 30 s grace, in which a publisher can *)
(* resume it under a new session id; donePublish comes when it runs out).  *)
(***************************************************************************)
EXTENDS Naturals, Sequences, FiniteSets

CONSTANTS
  Tv,          \* television screens
  App,         \* RTMP application names an operator may configure
  DefaultApp,  \* value of currentApp before the first successful refresh
  MaxKey,      \* bound: stream keys ever generated
  MaxEdit,     \* bound: edits of the RTMP settings
  MaxSession,  \* bound: publishing sessions NMS ever opens
  MaxNotify,   \* bound: hook requests under way when another one is posted
  MaxChan,     \* bound: stream:server events on their way to one TV
  MaxCrash     \* bound: crashes of the stream-service process

ASSUME AppAssumption    == DefaultApp \in App
ASSUME BoundsAssumption == /\ MaxKey \in Nat /\ MaxEdit \in Nat /\ MaxSession \in Nat
                           /\ MaxNotify \in Nat /\ MaxChan \in Nat
                           /\ MaxCrash \in Nat

NoKey     == 0
NoSession == 0
Path      == [app : App, key : 1..MaxKey]
NoPath    == [app |-> DefaultApp, key |-> NoKey]

Publishing == [act : {"postPublish", "donePublish"}, id : 1..MaxSession]
Playing    == [act : {"postPlay", "donePlay"}, id : Tv]
Hook       == Publishing \cup Playing

VARIABLES
  \* --- SQLite row Settings(id='main'), written by the admin routes
  settings,      \* [app, key, local]; key = NoKey until one is generated; local: the
                 \* televisions play the RTMP server, not an external URL
  \* --- node-media-server (external)
  nms,           \* [Path -> [st : free | on | grace, id : session]]
  flv,           \* [Tv -> Path or NoPath]: the HTTP-FLV pull open for a TV
  notify,        \* FIFO of hook requests not handled yet
  nextSession,   \* sessions opened so far
  \* --- stream-service process
  up,            \* is the process running
  currentKey, currentApp,
  live, sessionId, lastSession, graceTimer, playSessions,
  \* --- channel to the TVs and their copies
  chan,          \* [Tv -> Seq]: stream:server events in flight
  poll,          \* [Tv -> none | live | off | unknown]: status answer in flight
  serverLive,    \* [Tv -> unknown | live | off]: what TvDisplay believes
  \* --- history and bound
  lastAdmitted,  \* key of the last publication admitted (0: none yet)
  edits, crashes

config  == <<settings>>
media   == <<nms, flv, notify, nextSession>>
loaded  == <<currentKey, currentApp>>
session == <<live, sessionId, lastSession, graceTimer>>
screens == <<poll, serverLive>>
ghosts  == <<lastAdmitted, edits, crashes>>
vars    == <<config, media, up, loaded, session, playSessions, chan, screens, ghosts>>

\* Seeded fault: the payload says "stopped", which no television understands.
Word_OtherWording(b) == IF b THEN "live" ELSE "stopped"

Word(b) == IF b THEN "live" ELSE "off"

Occupied(p) == nms[p].st # "free"
IsAbout(h, t) == h.act \in {"postPlay", "donePlay"} /\ h.id = t
OnAir       == \E p \in Path : nms[p].st = "on"

SettingsOK == settings \in [app : App, key : 0..MaxKey, local : BOOLEAN]

MediaOK ==
  /\ nms \in [Path -> [st : {"free", "on", "grace"}, id : 0..MaxSession]]
  /\ flv \in [Tv -> Path \cup {NoPath}]
  /\ notify \in Seq(Hook)
  /\ nextSession \in 0..MaxSession

ServiceOK ==
  /\ up \in BOOLEAN
  /\ currentKey \in 0..MaxKey /\ currentApp \in App
  /\ live \in BOOLEAN /\ graceTimer \in BOOLEAN
  /\ sessionId \in 0..MaxSession /\ lastSession \in 0..MaxSession
  /\ playSessions \in SUBSET Tv

ScreensOK ==
  /\ chan \in [Tv -> Seq({"live", "off"})]
  /\ poll \in [Tv -> {"none", "live", "off", "unknown"}]
  /\ serverLive \in [Tv -> {"unknown", "live", "off"}]

HistoryOK == lastAdmitted \in 0..MaxKey /\ edits \in 0..MaxEdit /\ crashes \in 0..MaxCrash

TypeOK == SettingsOK /\ MediaOK /\ ServiceOK /\ ScreensOK /\ HistoryOK

FreeSlots == [p \in Path |-> [st |-> "free", id |-> NoSession]]

Init ==
  /\ settings \in [app : {DefaultApp}, key : {0, 1} \cap (0..MaxKey), local : BOOLEAN]
  /\ nms = FreeSlots
  /\ flv = [t \in Tv |-> NoPath]
  /\ notify = << >>
  /\ nextSession = 0
  /\ up = TRUE
  /\ currentKey = settings.key /\ currentApp = settings.app
  /\ live = FALSE /\ sessionId = NoSession /\ lastSession = NoSession
  /\ graceTimer = FALSE /\ playSessions = {}
  /\ chan = [t \in Tv |-> << >>]
  /\ poll = [t \in Tv |-> "none"]
  /\ serverLive = [t \in Tv |-> "unknown"]
  /\ lastAdmitted = NoKey
  /\ edits = 0 /\ crashes = 0

-----------------------------------------------------------------------------
(* Operators and administrators: PUT and POST /api/admin/stream/rtmp.      *)

\* A fresh random key replaces the old one; nothing tells the stream-service.
RotateKey ==
  /\ settings.key < MaxKey /\ edits < MaxEdit
  /\ edits' = edits + 1
  /\ settings' = [settings EXCEPT !.key = @ + 1]
  /\ UNCHANGED <<media, up, loaded, session, playSessions, chan, screens, lastAdmitted, crashes>>

\* The application name and the source of the televisions, together or alone.
SetStream(a, local) ==
  /\ edits < MaxEdit
  /\ edits' = edits + 1
  /\ settings' = [settings EXCEPT !.app = a, !.local = local]
  /\ settings' # settings
  /\ UNCHANGED <<media, up, loaded, session, playSessions, chan, screens, lastAdmitted, crashes>>

-----------------------------------------------------------------------------
(* node-media-server and its clients (external).                           *)

\* Seeded fault: any key is good as long as one is configured.
ValidPublish_AnyKey(p) == currentKey # NoKey /\ p.app = currentApp

\* The decision of the prePublish hook, and of the in-process listener.
ValidPublish(p) ==
  /\ currentKey # NoKey
  /\ p.app = currentApp
  /\ p.key = currentKey

\* OBS opens a publication: refused when the path already has a publisher or
\* the key is wrong; otherwise the slot is taken, or resumed out of its grace.
Publish(p) ==
  /\ up
  /\ nextSession < MaxSession /\ Len(notify) < MaxNotify
  /\ nms[p].st # "on"
  /\ ValidPublish(p)
  /\ nextSession' = nextSession + 1
  /\ nms' = [nms EXCEPT ![p] = [st |-> "on", id |-> nextSession']]
  /\ notify' = Append(notify, [act |-> "postPublish", id |-> nextSession'])
  /\ lastAdmitted' = p.key
  /\ UNCHANGED <<config, flv, up, loaded, session, playSessions, chan, screens, edits, crashes>>

\* OBS stops or loses its connection: NMS keeps the slot for its grace.
Unpublish(p) ==
  /\ nms[p].st = "on"
  /\ nms' = [nms EXCEPT ![p].st = "grace"]
  /\ UNCHANGED <<config, flv, notify, nextSession, up, loaded, session, playSessions,
                 chan, screens, ghosts>>

\* The NMS grace runs out: the slot is freed and donePublish is posted.
ReleaseSlot(p) ==
  /\ nms[p].st = "grace"
  /\ nms' = [nms EXCEPT ![p] = [st |-> "free", id |-> NoSession]]
  /\ notify' = Append(notify, [act |-> "donePublish", id |-> nms[p].id])
  /\ UNCHANGED <<config, flv, nextSession, up, loaded, session, playSessions,
                 chan, screens, ghosts>>

\* GET /api/stream/live.flv for a TV: the proxy pulls the path the SETTINGS name
\* now, if they name the local source; it answers only while that path has a slot.
OpenFlv(t) ==
  LET p == [app |-> settings.app, key |-> settings.key] IN
  /\ settings.local
  /\ up /\ flv[t] = NoPath
  /\ p \in Path /\ Occupied(p)
  /\ Len(notify) < MaxNotify
  /\ flv' = [flv EXCEPT ![t] = p]
  /\ notify' = Append(notify, [act |-> "postPlay", id |-> t])
  /\ UNCHANGED <<config, nms, nextSession, up, loaded, session, playSessions,
                 chan, screens, ghosts>>

\* The pull ends: the TV leaves, or the proxy's idle watchdog cuts it.
CloseFlv(t) ==
  /\ flv[t] # NoPath
  /\ Len(notify) < MaxNotify
  /\ flv' = [flv EXCEPT ![t] = NoPath]
  /\ notify' = Append(notify, [act |-> "donePlay", id |-> t])
  /\ UNCHANGED <<config, nms, nextSession, up, loaded, session, playSessions,
                 chan, screens, ghosts>>

-----------------------------------------------------------------------------
(* The stream-service process.                                             *)

\* broadcastStream: one attempt per TV, silently lost on the way or not.
Broadcast(b) ==
  \E got \in SUBSET Tv :
    chan' = [t \in Tv |-> IF t \in got /\ Len(chan[t]) < MaxChan
                          THEN Append(chan[t], Word(b)) ELSE chan[t]]

\* The 2 s tick re-reads the row. A locked database keeps the last value, which
\* is the tick not happening.
RefreshStreamConfig ==
  /\ up
  /\ currentKey' = settings.key
  /\ currentApp' = settings.app
  /\ UNCHANGED <<config, media, up, session, playSessions, chan, screens, ghosts>>

NextHook(act) == up /\ notify # << >> /\ Head(notify).act = act

\* A publication arriving while another session is registered as live is taken
\* for a second publisher and changes nothing.
IgnoresPublisher(id) == live /\ sessionId # NoSession /\ sessionId # id

PostPublish ==
  /\ NextHook("postPublish")
  /\ notify' = Tail(notify)
  /\ LET id == Head(notify).id IN
     IF IgnoresPublisher(id)
     THEN UNCHANGED <<session, chan>>
     ELSE /\ graceTimer' = FALSE
          /\ live' = TRUE
          /\ sessionId' = id
          /\ lastSession' = lastSession
          /\ Broadcast(TRUE)
  /\ UNCHANGED <<config, nms, flv, nextSession, up, loaded, playSessions, screens, ghosts>>

\* Seeded faults: only the registered session ends the broadcast ...
EndsSession_OnlyRegistered(id) == sessionId = id

\* ... or any session does, registered or not.
EndsSession_Always(id) == TRUE

\* Which donePublish hooks start (or restart) the grace timer.
EndsSession(id) == sessionId = id \/ live

DonePublish ==
  /\ NextHook("donePublish")
  /\ notify' = Tail(notify)
  /\ IF EndsSession(Head(notify).id)
     THEN graceTimer' = TRUE /\ lastSession' = sessionId
     ELSE UNCHANGED <<graceTimer, lastSession>>
  /\ UNCHANGED <<config, nms, flv, nextSession, up, loaded, live, sessionId,
                 playSessions, chan, screens, ghosts>>

\* The 2.5 s timer callback.
GraceExpires ==
  /\ up /\ graceTimer
  /\ graceTimer' = FALSE
  /\ live' = FALSE
  /\ sessionId' = NoSession
  /\ Broadcast(FALSE)
  /\ UNCHANGED <<config, media, up, loaded, lastSession, playSessions, screens, ghosts>>

\* A viewer comes or goes; the event about it is throttled, so it may be left out.
PostPlay ==
  /\ NextHook("postPlay")
  /\ notify' = Tail(notify)
  /\ playSessions' = playSessions \cup {Head(notify).id}
  /\ Broadcast(live)
  /\ UNCHANGED <<config, nms, flv, nextSession, up, loaded, session, screens, ghosts>>

\* Seeded fault: a viewer who leaves while nothing is live is not counted out.
DonePlay_OnlyWhenLive ==
  /\ NextHook("donePlay")
  /\ notify' = Tail(notify)
  /\ playSessions' = (IF live THEN playSessions \ {Head(notify).id} ELSE playSessions)
  /\ Broadcast(live)
  /\ UNCHANGED <<config, nms, flv, nextSession, up, loaded, session, screens, ghosts>>

DonePlay ==
  /\ NextHook("donePlay")
  /\ notify' = Tail(notify)
  /\ playSessions' = playSessions \ {Head(notify).id}
  /\ Broadcast(live)
  /\ UNCHANGED <<config, nms, flv, nextSession, up, loaded, session, screens, ghosts>>

\* The 10 s interval.
PeriodicBroadcast ==
  /\ up
  /\ Broadcast(live)
  /\ UNCHANGED <<config, media, up, loaded, session, playSessions, screens, ghosts>>

\* The process dies (or gets SIGTERM): NMS, its sessions and the hooks under way
\* die with it; nothing of `state` is persisted.
Crash ==
  /\ up /\ crashes < MaxCrash
  /\ crashes' = crashes + 1
  /\ up' = FALSE
  /\ nms' = FreeSlots
  /\ flv' = [t \in Tv |-> NoPath]
  /\ notify' = << >>
  /\ currentKey' = NoKey /\ currentApp' = DefaultApp
  /\ live' = FALSE /\ sessionId' = NoSession /\ lastSession' = NoSession
  /\ graceTimer' = FALSE /\ playSessions' = {}
  /\ UNCHANGED <<config, nextSession, chan, screens, lastAdmitted, edits>>

\* The supervisor starts it again: module initialisation tries one refresh,
\* main() ends with a broadcast.
Restart ==
  /\ ~up
  /\ up' = TRUE
  /\ \/ currentKey' = settings.key /\ currentApp' = settings.app
     \/ UNCHANGED loaded
  /\ Broadcast(FALSE)
  /\ UNCHANGED <<config, media, session, playSessions, screens, ghosts>>

-----------------------------------------------------------------------------
(* A television: TvDisplay's socket handler and its backup polling.        *)

\* The "stream:server" handler.
DeliverEvent(t) ==
  /\ chan[t] # << >>
  /\ chan' = [chan EXCEPT ![t] = Tail(@)]
  /\ serverLive' = [serverLive EXCEPT ![t] = Head(chan[t])]
  /\ UNCHANGED <<config, media, up, loaded, session, playSessions, poll, ghosts>>

\* GET /api/stream/status reads the flag; a dead service reads as not live, and
\* nothing is said of an external source (live: null).
StatusAnswered(t) ==
  /\ poll[t] = "none"
  /\ poll' = [poll EXCEPT ![t] = IF settings.local THEN Word(up /\ live) ELSE "unknown"]
  /\ UNCHANGED <<config, media, up, loaded, session, playSessions, chan, serverLive, ghosts>>

\* Seeded fault: an answer "not live" is taken for a failed request.
PollApplied_OnlyLive(t) ==
  /\ poll[t] # "none"
  /\ poll' = [poll EXCEPT ![t] = "none"]
  /\ serverLive' = (IF poll[t] = "live" THEN [serverLive EXCEPT ![t] = "live"] ELSE serverLive)
  /\ UNCHANGED <<config, media, up, loaded, session, playSessions, chan, ghosts>>

\* The answer reaches the TV, later.
PollApplied(t) ==
  /\ poll[t] # "none"
  /\ poll' = [poll EXCEPT ![t] = "none"]
  /\ serverLive' = [serverLive EXCEPT ![t] = poll[t]]
  /\ UNCHANGED <<config, media, up, loaded, session, playSessions, chan, ghosts>>

\* ... or is lost: the last known value is kept.
PollLost(t) ==
  /\ poll[t] # "none"
  /\ poll' = [poll EXCEPT ![t] = "none"]
  /\ UNCHANGED <<config, media, up, loaded, session, playSessions, chan, serverLive, ghosts>>

-----------------------------------------------------------------------------
HandleHook == PostPublish \/ DonePublish \/ PostPlay \/ DonePlay

Next ==
  \/ RotateKey
  \/ \E a \in App, local \in BOOLEAN : SetStream(a, local)
  \/ \E p \in Path : Publish(p)
  \/ \E p \in Path : Unpublish(p)
  \/ \E p \in Path : ReleaseSlot(p)
  \/ \E t \in Tv : OpenFlv(t)
  \/ \E t \in Tv : CloseFlv(t)
  \/ RefreshStreamConfig
  \/ PostPublish
  \/ DonePublish
  \/ GraceExpires
  \/ PostPlay
  \/ DonePlay
  \/ PeriodicBroadcast
  \/ Crash
  \/ Restart
  \/ \E t \in Tv : DeliverEvent(t)
  \/ \E t \in Tv : StatusAnswered(t)
  \/ \E t \in Tv : PollApplied(t)
  \/ \E t \in Tv : PollLost(t)

Spec == Init /\ [][Next]_vars

\* Timers fire and loopback hooks are served; the supervisor restarts the
\* service; a TV polls for ever and infinitely often gets its answer. Nothing is
\* assumed of events, of OBS, of viewers or of administrators.
Fairness ==
  /\ WF_vars(HandleHook)
  /\ WF_vars(GraceExpires)
  /\ WF_vars(Restart)
  /\ \A p \in Path : WF_vars(ReleaseSlot(p))
  /\ \A t \in Tv : WF_vars(StatusAnswered(t)) /\ SF_vars(PollApplied(t))

FairSpec == Spec /\ Fairness

-----------------------------------------------------------------------------
(* Properties.                                                             *)

\* The service never announces a live stream without a cause: a publisher holds a
\* slot, or a donePublish is on its way, or the grace timer that will end it runs
\* (handlers of index.ts 201-243).
LiveHasCause ==
  live => \/ graceTimer
          \/ \E p \in Path : Occupied(p)
          \/ \E i \in 1..Len(notify) : notify[i].act = "donePublish"

\* However hooks, timers, crashes, events and polls interleave, the televisions see one
\* broadcast at a time, which another publication never takes over, which a grace period
\* precedes the end of, and about which they are told nothing that is not so.
Told == [t \in Tv |-> {chan[t][i] : i \in 1..Len(chan[t])} \cup ({poll[t]} \ {"none"})]
Air == INSTANCE LiveBroadcast
         WITH Session <- 1..MaxSession, current <- sessionId, ending <- graceTimer,
              told <- Told, shown <- serverLive
KeepsBroadcast == Air!Spec

\* The viewer count the panel shows is the number of open pulls as soon as the
\* hooks about a TV have been handled, crashes included (index.ts 245-258).
ViewersMatchPulls ==
  \A t \in Tv :
    (\A i \in 1..Len(notify) : ~IsAbout(notify[i], t)) => (t \in playSessions <=> flv[t] # NoPath)

\* Rotation is one way: after a publication with a newer key was admitted, none
\* with an older key is, whatever crashes and failed refreshes happen in between
\* (index.ts 90-113, 190-199).
RotationIsOneWay == [][lastAdmitted' >= lastAdmitted]_vars

\* A publisher that stays away is reported off air (donePublish and its grace).
DeadAirIsReported == ~OnAir ~> (~live \/ OnAir)

\* A TV that is to play the RTMP server ends up believing what the service settles
\* on, although events are lost and an old poll answer may overwrite a newer event (TvDisplay.tsx 205-207, 248-266).
TvConverges ==
  <>[]settings.local =>
    \A t \in Tv : /\ <>[]live => <>[](serverLive[t] = "live")
                  /\ <>[]~live => <>[](serverLive[t] = "off")

\* docs/OBS_SETUP.md: after a long drop, when OBS reconnects "el estado y el vídeo
\* se recuperan solos": a publication that lasts ends up announced as live.
ReconnectRecovers == <>[]OnAir => <>[]live
=============================================================================
