----------------------------- MODULE StreamPlayer -----------------------------
(***************************************************************************)
(* src/components/display/StreamPlayer.tsx: the video player of one TV.    *)
(* Four things race in it: React effects that rebuild the player when the  *)
(* settings or the server state change, an asynchronous load of the player *)
(* library, retry timers, and events of the player and the <video> tag.    *)
(*                                                                         *)
(* A React handler and the render it causes are one step, but inside the   *)
(* step the code's order is kept: rebuild() looks at videoRef BEFORE the   *)
(* render its own setState causes, and an effect runs AFTER the render     *)
(* that the new props cause.                                               *)
(*                                                                         *)
(* genRef only ever serves to tell an asynchronous load of the current     *)
(* generation from an older one: loads and players are "cur" or "old".     *)
(***************************************************************************)
EXTENDS Naturals

CONSTANTS
  Url,             \* stream URLs an operator may configure
  NoUrl,           \* the empty URL
  MayLackUrl,      \* may there be no URL (fresh installation, or emptied)?
  MAX_FAST_RETRIES,\* retries with a short delay before "fallback"
  MaxFailures      \* bound: failures in a row without going live in between

ASSUME UrlAssumption == NoUrl \notin Url /\ Url # {} /\ MayLackUrl \in BOOLEAN
ASSUME RetriesAssumption == MAX_FAST_RETRIES \in Nat /\ MaxFailures \in Nat

UiState == {"connecting", "live", "reconnecting", "fallback", "waiting", "disabled"}
Props   == [enabled : BOOLEAN, local : BOOLEAN,
            server : {"unknown", "live", "off"}, url : Url \cup {NoUrl}]

VARIABLES
  props,      \* settings and serverLive, as passed by TvDisplay
  uiState,    \* stateRef and uiState, always set together
  mounted,    \* is the <video> element rendered (videoRef.current # null)
  attempts,   \* attemptsRef
  timer,      \* retryTimerRef: none, fast (5 s * n) or slow (30 s)
  loads,      \* asynchronous player loads under way
  players,    \* players created and not destroyed
  stallTicks, \* stallTicksRef
  feed,       \* is the source delivering media (environment)
  mse         \* does this browser play live media by MSE (environment, rigid)

vars == <<props, uiState, mounted, attempts, timer, loads, players, stallTicks, feed, mse>>

TypeOK ==
  /\ props \in Props
  /\ uiState \in UiState
  /\ mounted \in BOOLEAN /\ feed \in BOOLEAN /\ mse \in BOOLEAN
  /\ attempts \in 0..MaxFailures
  /\ timer \in {"none", "fast", "slow"}
  /\ loads \in SUBSET {"cur", "old"}
  /\ players \in SUBSET {"cur", "old"}
  /\ stallTicks \in 0..1

\* Seeded fault: the render forgets that OBS is known to be off.
EffState_IgnoresServer(p, s) ==
  IF ~p.enabled THEN "disabled"
  ELSE IF ~p.local /\ p.url = NoUrl THEN "waiting" ELSE s

\* The effective state the render and the watchdog derive.
EffState(p, s) ==
  IF ~p.enabled THEN "disabled"
  ELSE IF p.local THEN (IF p.server = "off" THEN "fallback" ELSE s)
  ELSE IF p.url = NoUrl THEN "waiting" ELSE s

ShowVideo(p, s) == EffState(p, s) \in {"live", "connecting", "reconnecting"}

\* What the setup effect tests before it builds anything.
SourceUsable(p) == p.enabled /\ ~(p.local /\ p.server = "off")

\* The RTMP server needs no URL.
HasSource(p) == p.local \/ p.url # NoUrl

\* The state of a TV just after its first effect ran with the video mounted, or
\* with nothing to play.
Init ==
  /\ props \in {p \in Props : p.url = NoUrl => MayLackUrl}
  /\ uiState = (IF SourceUsable(props) /\ ~HasSource(props) THEN "waiting" ELSE "connecting")
  /\ mounted = ShowVideo(props, uiState)
  /\ attempts = 0 /\ timer = "none" /\ stallTicks = 0
  /\ loads = (IF SourceUsable(props) /\ props.local THEN {"cur"} ELSE {})
  /\ players = (IF SourceUsable(props) /\ ~props.local /\ HasSource(props) THEN {"cur"} ELSE {})
  /\ feed \in BOOLEAN /\ mse \in BOOLEAN

-----------------------------------------------------------------------------
(* The component's own functions.                                          *)

\* setState; going live resets the retry and stall counters.
SetState(p, s) ==
  /\ uiState' = s
  /\ mounted' = ShowVideo(p, s)
  /\ IF s = "live" THEN attempts' = 0 /\ stallTicks' = 0 ELSE TRUE

\* teardown(): a new generation starts, the attached player is destroyed.
Outdated(ls)   == IF ls = {} THEN {} ELSE {"old"}
Destroyed(ps)  == ps \ {"cur"}

\* Seeded fault: the retry timer survives the teardown.
Teardown_KeepsTimer ==
  /\ timer' = timer
  /\ loads' = Outdated(loads)
  /\ players' = Destroyed(players)

Teardown ==
  /\ timer' = "none"
  /\ loads' = Outdated(loads)
  /\ players' = Destroyed(players)

\* rebuild() for the settings p, with videoRef set or not when it runs. A player
\* is only started when the <video> is there; the local one needs an async load.
Rebuild(p, videoThere) ==
  /\ timer' = "none"
  /\ UNCHANGED <<attempts, stallTicks>>
  /\ IF ~p.enabled THEN SetState(p, "disabled")
     ELSE IF p.local /\ p.server = "off" THEN SetState(p, "fallback")
     ELSE IF ~HasSource(p) THEN SetState(p, "waiting")
     ELSE SetState(p, "connecting")
  /\ LET starts == videoThere /\ SourceUsable(p) /\ HasSource(p) IN
     /\ loads' = Outdated(loads) \cup (IF starts /\ p.local THEN {"cur"} ELSE {})
     /\ players' = Destroyed(players) \cup (IF starts /\ ~p.local THEN {"cur"} ELSE {})

\* scheduleRetry(): a short delay for the first failures, then fallback.
ScheduleRetry ==
  /\ attempts < MaxFailures
  /\ IF uiState \in {"disabled", "waiting"}
     THEN UNCHANGED <<uiState, mounted, attempts, timer>>
     ELSE /\ attempts' = attempts + 1
          /\ IF attempts' <= MAX_FAST_RETRIES
             THEN SetState(props, "reconnecting") /\ timer' = "fast"
             ELSE SetState(props, "fallback") /\ timer' = "slow"

-----------------------------------------------------------------------------
(* React: the setup effect on a change of its dependencies.                *)

ChangeProps(p) ==
  /\ p # props
  /\ props' = p
  /\ IF SourceUsable(p)
     THEN Rebuild(p, ShowVideo(p, uiState))
     ELSE /\ Teardown
          /\ mounted' = ShowVideo(p, uiState)
          /\ UNCHANGED <<uiState, attempts, stallTicks>>
  /\ UNCHANGED <<feed, mse>>

SetEnabled   == ChangeProps([props EXCEPT !.enabled = ~@])
SetSource    == ChangeProps([props EXCEPT !.local = ~@])
SetServer(s) == ChangeProps([props EXCEPT !.server = s])
SetUrl(u)    == /\ u = NoUrl => MayLackUrl
                /\ ChangeProps([props EXCEPT !.url = u])

-----------------------------------------------------------------------------
(* Asynchronous load of mpegts.js.                                         *)

\* Seeded fault: the resolved import does not check its generation.
LoadDone_AnyGeneration(g) ==
  /\ g \in loads
  /\ loads' = loads \ {g}
  /\ \/ /\ mse /\ players' = players \cup {g}
        /\ UNCHANGED <<uiState, mounted>>
     \/ /\ ~mse /\ SetState(props, "fallback")
        /\ UNCHANGED players
  /\ UNCHANGED <<props, attempts, timer, stallTicks, feed, mse>>

\* The awaited import resolves. A load of an older generation does nothing; the
\* current one brings a player, or, where the browser cannot play FLV, gives up
\* ("Navegador sin MSE", 190-194): fallback, and nothing that would retry.
LoadDone(g) ==
  /\ g \in loads
  /\ loads' = loads \ {g}
  /\ \/ /\ g = "cur" /\ mse
        /\ players' = players \cup {g}
        /\ UNCHANGED <<uiState, mounted>>
     \/ /\ g = "cur" /\ ~mse
        /\ SetState(props, "fallback")
        /\ UNCHANGED players
     \/ g = "old" /\ UNCHANGED <<uiState, mounted, players>>
  /\ UNCHANGED <<props, attempts, timer, stallTicks, feed, mse>>

\* Seeded fault: nobody catches the failed import.
LoadFails_Uncaught(g) ==
  /\ g \in loads /\ ~feed
  /\ loads' = loads \ {g}
  /\ UNCHANGED <<props, uiState, mounted, attempts, timer, players, stallTicks, feed, mse>>

\* ... or throws.
LoadFails(g) ==
  /\ g \in loads /\ ~feed
  /\ loads' = loads \ {g}
  /\ IF g = "cur" THEN ScheduleRetry
     ELSE UNCHANGED <<uiState, mounted, attempts, timer>>
  /\ UNCHANGED <<props, players, stallTicks, feed, mse>>

\* The retry timer calls the latest rebuild.
RetryTimer ==
  /\ timer # "none"
  /\ Rebuild(props, mounted)
  /\ UNCHANGED <<props, feed, mse>>

-----------------------------------------------------------------------------
(* Player and <video> events.                                              *)

Attached == "cur" \in players

\* A fatal or network error of mpegts.js or hls.js.
PlayerError ==
  /\ Attached /\ ~feed
  /\ ScheduleRetry
  /\ UNCHANGED <<props, loads, players, stallTicks, feed, mse>>

VideoPlaying ==
  /\ mounted /\ Attached /\ feed
  /\ SetState(props, "live")
  /\ UNCHANGED <<props, timer, loads, players, feed, mse>>

VideoWaiting ==
  /\ mounted /\ Attached /\ ~feed
  /\ uiState = "live"
  /\ SetState(props, "connecting")
  /\ UNCHANGED <<props, attempts, timer, loads, players, stallTicks, feed, mse>>

VideoError ==
  /\ mounted /\ Attached /\ ~feed
  /\ uiState \notin {"reconnecting", "fallback"}
  /\ ScheduleRetry
  /\ UNCHANGED <<props, loads, players, stallTicks, feed, mse>>

\* Seeded fault: the watchdog looks at the wrong state.
WatchdogHeals_WhenReconnecting ==
  /\ mounted /\ Attached /\ feed
  /\ uiState = "reconnecting"
  /\ SetState(props, "live")
  /\ UNCHANGED <<props, timer, loads, players, feed, mse>>

\* The 5 s watchdog: heals a lost "playing" event ...
WatchdogHeals ==
  /\ mounted /\ Attached /\ feed
  /\ uiState = "connecting"
  /\ SetState(props, "live")
  /\ UNCHANGED <<props, timer, loads, players, feed, mse>>

\* Seeded fault: one tick too many before a stalled video is retried.
WatchdogStall_OneMoreTick ==
  /\ mounted /\ ~(Attached /\ feed)
  /\ EffState(props, uiState) = "live"
  /\ IF stallTicks + 1 > 2
     THEN stallTicks' = 0 /\ ScheduleRetry
     ELSE /\ stallTicks' = stallTicks + 1
          /\ UNCHANGED <<uiState, mounted, attempts, timer>>
  /\ UNCHANGED <<props, loads, players, feed, mse>>

\* ... and counts ticks of a live video that does not advance.
WatchdogStall ==
  /\ mounted /\ ~(Attached /\ feed)
  /\ EffState(props, uiState) = "live"
  /\ IF stallTicks + 1 >= 2
     THEN stallTicks' = 0 /\ ScheduleRetry
     ELSE /\ stallTicks' = stallTicks + 1
          /\ UNCHANGED <<uiState, mounted, attempts, timer>>
  /\ UNCHANGED <<props, loads, players, feed, mse>>

\* A tick that finds the live video advancing.
WatchdogFine ==
  /\ mounted /\ Attached /\ feed
  /\ EffState(props, uiState) = "live" /\ stallTicks # 0
  /\ stallTicks' = 0
  /\ UNCHANGED <<props, uiState, mounted, attempts, timer, loads, players, feed, mse>>

\* The network, OBS and the proxy: media stops or flows again.
FeedChanges ==
  /\ feed' = ~feed
  /\ UNCHANGED <<props, uiState, mounted, attempts, timer, loads, players, stallTicks, mse>>

-----------------------------------------------------------------------------
Next ==
  \/ SetEnabled
  \/ SetSource
  \/ \E s \in {"unknown", "live", "off"} : SetServer(s)
  \/ \E u \in Url \cup {NoUrl} : SetUrl(u)
  \/ \E g \in {"cur", "old"} : LoadDone(g)
  \/ \E g \in {"cur", "old"} : LoadFails(g)
  \/ RetryTimer
  \/ PlayerError
  \/ VideoPlaying
  \/ VideoWaiting
  \/ VideoError
  \/ WatchdogHeals
  \/ WatchdogStall
  \/ WatchdogFine
  \/ FeedChanges

Spec == Init /\ [][Next]_vars

\* Timers fire, a load settles, and the watchdog keeps ticking.
Fairness ==
  /\ WF_vars(RetryTimer)
  /\ WF_vars(LoadDone("cur"))
  /\ WF_vars(WatchdogHeals)

FairSpec == Spec /\ Fairness

-----------------------------------------------------------------------------
(* Properties.                                                             *)

\* A load that resolves after the player was torn down never brings a player to
\* life, and there is never a second one beside a load (genRef, 107-130, 185-214).
NoOrphanPlayer == players \subseteq {"cur"} /\ ("cur" \in loads => players = {})

\* While transmission is disabled, or OBS is known to be off, nothing plays, nothing
\* is about to, and no retry is pending: the TV does not pull a dead stream.
QuietWhenOff == ~SourceUsable(props) => /\ players = {} /\ timer = "none"
                                        /\ "cur" \notin loads

\* What a TV shows as live is backed by a player.
LiveHasPlayer == EffState(props, uiState) = "live" => Attached

\* In a browser that can play live media, the player never gives up on a usable
\* source: a player, a load or a retry is always there ("en fallback, seguir probando cada 30s", StreamPlayer.tsx 47).
NeverAbandoned ==
  mse /\ SourceUsable(props) /\ HasSource(props)
    => Attached \/ "cur" \in loads \/ timer # "none"

\* Once the settings are left alone, if the source is usable and delivers and the
\* browser can play it, the TV ends up showing it, and keeps it (effects, retries and watchdog together).
GoesLive ==
  (/\ <>[](feed /\ mse /\ SourceUsable(props) /\ HasSource(props))
   /\ <>[][FALSE]_props)
    => <>[](EffState(props, uiState) = "live")
=============================================================================
