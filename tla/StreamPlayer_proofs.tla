-------------------------- MODULE StreamPlayer_proofs --------------------------
(***************************************************************************)
(* Proofs about StreamPlayer, for every set of URLs and every bound.       *)
(* The invariant is inductive as soon as the three safety properties are   *)
(* taken together: "nothing plays when off" is what makes a retry timer or *)
(* a player error evidence of a usable source, and "no player beside a     *)
(* load" is what makes a failed load harmless to a live picture.           *)
(***************************************************************************)
EXTENDS StreamPlayer, TLAPS

IInv == TypeOK /\ NoOrphanPlayer /\ QuietWhenOff /\ LiveHasPlayer

-----------------------------------------------------------------------------
(* Lemmas about the functions of the component.                            *)

\* A rebuild for usable settings leaves one player or one load of the current
\* generation at most, no retry, and a picture that is not called live.
LEMMA RebuildSafe ==
  ASSUME NEW p \in Props, NEW there \in BOOLEAN,
         TypeOK, NoOrphanPlayer, SourceUsable(p), props' = p, feed' \in BOOLEAN, mse' = mse,
         Rebuild(p, there)
  PROVE  IInv'
<1>1. uiState' \in {"connecting", "waiting"} /\ mounted' = ShowVideo(p, uiState')
  BY DEF Rebuild, SetState, SourceUsable
<1>2. TypeOK'
  BY <1>1 DEF TypeOK, Rebuild, ShowVideo, UiState, Outdated, Destroyed
<1>3. NoOrphanPlayer'
  BY DEF NoOrphanPlayer, Rebuild, Outdated, Destroyed
<1>4. QuietWhenOff'
  BY DEF QuietWhenOff, SourceUsable
<1>5. LiveHasPlayer'
  BY <1>1 DEF LiveHasPlayer, EffState
<1>6. QED
  BY <1>2, <1>3, <1>4, <1>5 DEF IInv

\* A retry is only scheduled by a player, a load or a video of a usable source.
LEMMA RetrySafe ==
  ASSUME IInv, SourceUsable(props), ScheduleRetry, UNCHANGED <<props, feed, mse>>,
         players' = players, loads' \subseteq loads, stallTicks' \in 0..1
  PROVE  IInv'
<1> USE RetriesAssumption
<1>1. \/ UNCHANGED <<uiState, mounted, attempts, timer>> /\ uiState \in {"disabled", "waiting"}
      \/ /\ attempts < MaxFailures /\ attempts' = attempts + 1
         /\ uiState' \in {"reconnecting", "fallback"}
         /\ mounted' = ShowVideo(props, uiState')
         /\ timer' \in {"fast", "slow"}
  BY DEF ScheduleRetry, SetState
<1>2. TypeOK'
  <2>1. attempts' \in 0..MaxFailures
    <3>1. attempts' = attempts \/ (attempts < MaxFailures /\ attempts' = attempts + 1)
      BY <1>1
    <3>2. attempts \in 0..MaxFailures
      BY DEF IInv, TypeOK
    <3>3. QED
      BY <3>1, <3>2
  <2>2. mounted' \in BOOLEAN
    <3>1. mounted' = mounted \/ mounted' = ShowVideo(props, uiState')
      BY <1>1
    <3>2. ShowVideo(props, uiState') \in BOOLEAN
      BY DEF ShowVideo
    <3>3. QED
      BY <3>1, <3>2 DEF IInv, TypeOK
  <2>3. timer' \in {"none", "fast", "slow"} /\ uiState' \in UiState
    BY <1>1 DEF IInv, TypeOK, UiState
  <2>4. QED
    BY <2>1, <2>2, <2>3 DEF IInv, TypeOK
<1>3. NoOrphanPlayer' /\ QuietWhenOff'
  BY DEF IInv, NoOrphanPlayer, QuietWhenOff, SourceUsable
<1>4. LiveHasPlayer'
  BY <1>1 DEF LiveHasPlayer, EffState
<1>5. QED
  BY <1>2, <1>3, <1>4 DEF IInv

\* Any change of the settings or of the server state is safe.
LEMMA ChangeSafe ==
  ASSUME IInv, NEW p \in Props, ChangeProps(p)
  PROVE  IInv'
<1>1. CASE SourceUsable(p)
  <2>1. ShowVideo(p, uiState) \in BOOLEAN
    BY DEF ShowVideo
  <2>2. QED
    BY <1>1, <2>1, RebuildSafe DEF ChangeProps, IInv, TypeOK
<1>2. CASE ~SourceUsable(p)
  <2>1. /\ props' = p /\ UNCHANGED <<uiState, attempts, stallTicks, feed, mse>>
        /\ timer' = "none" /\ loads' \subseteq {"old"} /\ players' = {}
        /\ mounted' = ShowVideo(p, uiState)
    BY <1>2 DEF ChangeProps, Teardown, Outdated, Destroyed, IInv, NoOrphanPlayer
  <2>2. TypeOK'
    BY <2>1 DEF IInv, TypeOK, ShowVideo
  <2>3. NoOrphanPlayer' /\ QuietWhenOff'
    BY <2>1 DEF NoOrphanPlayer, QuietWhenOff
  <2>4. LiveHasPlayer'
    BY <1>2, <2>1 DEF LiveHasPlayer, EffState, SourceUsable
  <2>5. QED
    BY <2>2, <2>3, <2>4 DEF IInv
<1>3. QED
  BY <1>1, <1>2

-----------------------------------------------------------------------------
(* The invariant.                                                          *)

LEMMA InitIInv == Init => IInv
<1> SUFFICES ASSUME Init PROVE IInv
  OBVIOUS
<1>1. TypeOK
  BY RetriesAssumption DEF Init, TypeOK, UiState, ShowVideo
<1>2. NoOrphanPlayer /\ QuietWhenOff
  BY DEF Init, NoOrphanPlayer, QuietWhenOff
<1>3. LiveHasPlayer
  BY DEF Init, LiveHasPlayer, EffState
<1>4. QED
  BY <1>1, <1>2, <1>3 DEF IInv

LEMMA NextIInv == IInv /\ [Next]_vars => IInv'
<1> SUFFICES ASSUME IInv, [Next]_vars PROVE IInv'
  OBVIOUS
<1> USE RetriesAssumption
<1>1. CASE SetEnabled
  <2>1. [props EXCEPT !.enabled = ~@] \in Props
    BY DEF IInv, TypeOK, Props
  <2>2. QED
    BY <1>1, <2>1, ChangeSafe DEF SetEnabled
<1>2. CASE SetSource
  <2>1. [props EXCEPT !.local = ~@] \in Props
    BY DEF IInv, TypeOK, Props
  <2>2. QED
    BY <1>2, <2>1, ChangeSafe DEF SetSource
<1>3. CASE \E s \in {"unknown", "live", "off"} : SetServer(s)
  <2>1. PICK s \in {"unknown", "live", "off"} : SetServer(s)
    BY <1>3
  <2>2. [props EXCEPT !.server = s] \in Props
    BY DEF IInv, TypeOK, Props
  <2>3. QED
    BY <2>1, <2>2, ChangeSafe DEF SetServer
<1>4. CASE \E u \in Url \cup {NoUrl} : SetUrl(u)
  <2>1. PICK u \in Url \cup {NoUrl} : SetUrl(u)
    BY <1>4
  <2>2. [props EXCEPT !.url = u] \in Props
    BY DEF IInv, TypeOK, Props
  <2>3. QED
    BY <2>1, <2>2, ChangeSafe DEF SetUrl
<1>5. CASE \E g \in {"cur", "old"} : LoadDone(g)
  <2>1. PICK g \in {"cur", "old"} : LoadDone(g)
    BY <1>5
  <2>2. CASE ~mse /\ g = "cur"
    <3> SUFFICES ASSUME ~mse, g = "cur" PROVE IInv'
      BY <2>2
    <3>1. /\ loads' = loads \ {g} /\ UNCHANGED <<props, attempts, timer, stallTicks, feed, mse>>
          /\ SetState(props, "fallback") /\ UNCHANGED players
      BY <2>1, Zenon DEF LoadDone
    <3>6. uiState' = "fallback" /\ mounted' = ShowVideo(props, "fallback")
      BY <3>1 DEF SetState
    <3>7. mounted' \in BOOLEAN
      BY <3>6 DEF ShowVideo
    <3>2. TypeOK'
      BY <3>1, <3>6, <3>7 DEF IInv, TypeOK, UiState
    <3>3. NoOrphanPlayer' /\ QuietWhenOff'
      BY <3>1 DEF IInv, NoOrphanPlayer, QuietWhenOff, SourceUsable
    <3>4. LiveHasPlayer'
      BY <3>6 DEF LiveHasPlayer, EffState
    <3>5. QED
      BY <3>2, <3>3, <3>4 DEF IInv
  <2>3. CASE mse \/ g = "old"
    BY <2>1, <2>3 DEF LoadDone, IInv, TypeOK, NoOrphanPlayer, QuietWhenOff, SourceUsable,
                      LiveHasPlayer, Attached
  <2>4. QED
    BY <2>2, <2>3
<1>6. CASE \E g \in {"cur", "old"} : LoadFails(g)
  <2>1. PICK g \in {"cur", "old"} : LoadFails(g)
    BY <1>6
  <2>2. CASE g = "cur"
    BY <2>1, <2>2, RetrySafe DEF LoadFails, IInv, TypeOK, QuietWhenOff
  <2>3. CASE g = "old"
    BY <2>1, <2>3 DEF LoadFails, IInv, TypeOK, NoOrphanPlayer, QuietWhenOff, SourceUsable,
                      LiveHasPlayer, Attached
  <2>4. QED
    BY <2>2, <2>3
<1>7. CASE RetryTimer
  BY <1>7, RebuildSafe DEF RetryTimer, IInv, TypeOK, QuietWhenOff
<1>8. CASE PlayerError
  BY <1>8, RetrySafe DEF PlayerError, Attached, IInv, TypeOK, QuietWhenOff
<1>9. CASE VideoPlaying
  BY <1>9 DEF VideoPlaying, SetState, ShowVideo, Attached, IInv, TypeOK, UiState,
              NoOrphanPlayer, QuietWhenOff, SourceUsable, LiveHasPlayer
<1>10. CASE VideoWaiting
  BY <1>10 DEF VideoWaiting, SetState, ShowVideo, Attached, IInv, TypeOK, UiState,
               NoOrphanPlayer, QuietWhenOff, SourceUsable, LiveHasPlayer
<1>11. CASE VideoError
  BY <1>11, RetrySafe DEF VideoError, Attached, IInv, TypeOK, QuietWhenOff
<1>12. CASE WatchdogHeals
  BY <1>12 DEF WatchdogHeals, SetState, ShowVideo, Attached, IInv, TypeOK, UiState,
               NoOrphanPlayer, QuietWhenOff, SourceUsable, LiveHasPlayer
<1>13. CASE WatchdogStall
  <2>1. SourceUsable(props)
    BY <1>13 DEF WatchdogStall, EffState, SourceUsable
  <2>2. CASE ScheduleRetry /\ stallTicks' = 0
    BY <1>13, <2>1, <2>2, RetrySafe DEF WatchdogStall
  <2>3. CASE ~(stallTicks + 1 >= 2) /\ stallTicks' = stallTicks + 1
             /\ UNCHANGED <<uiState, mounted, attempts, timer>>
    <3>1. stallTicks' \in 0..1
      BY <2>3 DEF IInv, TypeOK
    <3>2. QED
      BY <1>13, <2>3, <3>1 DEF WatchdogStall, IInv, TypeOK, NoOrphanPlayer, QuietWhenOff,
                               SourceUsable, LiveHasPlayer, Attached
  <2>4. QED
    BY <1>13, <2>2, <2>3 DEF WatchdogStall
<1>14. CASE WatchdogFine
  BY <1>14 DEF WatchdogFine, IInv, TypeOK, NoOrphanPlayer, QuietWhenOff, SourceUsable,
               LiveHasPlayer, Attached
<1>15. CASE FeedChanges
  BY <1>15 DEF FeedChanges, IInv, TypeOK, NoOrphanPlayer, QuietWhenOff, SourceUsable,
               LiveHasPlayer, Attached
<1>16. CASE UNCHANGED vars
  BY <1>16 DEF vars, IInv, TypeOK, NoOrphanPlayer, QuietWhenOff, SourceUsable,
               LiveHasPlayer, Attached
<1>17. QED
  BY <1>1, <1>2, <1>3, <1>4, <1>5, <1>6, <1>7, <1>8, <1>9, <1>10, <1>11, <1>12, <1>13,
     <1>14, <1>15, <1>16 DEF Next

\* The state of the player keeps its type, and no load of an earlier generation ever
\* brings a player to life, nothing plays when the source is off, and what is shown as
\* live has a player (StreamPlayer.tsx 107-307), for every bound and set of URLs.
THEOREM PlayerSafety == Spec => [](TypeOK /\ NoOrphanPlayer /\ QuietWhenOff /\ LiveHasPlayer)
  BY InitIInv, NextIInv, PTL DEF Spec, IInv

\* Every variable of the player keeps its type (StreamPlayer.tsx 64-87).
THEOREM PlayerTypes == Spec => []TypeOK
  BY PlayerSafety, PTL

\* While transmission is off nothing plays, loads or waits to retry (107-148, 313-328).
THEOREM PlayerQuiet == Spec => []QuietWhenOff
  BY PlayerSafety, PTL

\* What the television shows as live has a player behind it (445-485).
THEOREM LiveIsPlayed == Spec => []LiveHasPlayer
  BY PlayerSafety, PTL

-----------------------------------------------------------------------------
(* The player never gives up, as long as no failure reaches the "fallback" *)
(* branch of scheduleRetry and the URL is never emptied: then the <video>  *)
(* of a usable source is always in the page when rebuild() looks for it.   *)

Armed ==
  /\ props.url # NoUrl
  /\ uiState \in {"connecting", "live", "reconnecting"}
  /\ mounted = ShowVideo(props, uiState)
  /\ SourceUsable(props) => Attached \/ "cur" \in loads \/ timer # "none"

LEMMA RebuildArms ==
  ASSUME NEW p \in Props, NEW there, SourceUsable(p), p.url # NoUrl,
         there, Rebuild(p, there), props' = p
  PROVE  Armed'
<1>1. uiState' = "connecting"
  BY DEF Rebuild, SetState, SourceUsable, HasSource
<1>2. "cur" \in loads' \/ "cur" \in players'
  BY DEF Rebuild, HasSource
<1>3. mounted' = ShowVideo(p, uiState')
  BY DEF Rebuild, SetState
<1>4. QED
  BY <1>1, <1>2, <1>3 DEF Armed, Attached

LEMMA ChangeArms ==
  ASSUME IInv, Armed, NEW p \in Props, p.url # NoUrl, ChangeProps(p)
  PROVE  Armed'
<1>1. CASE SourceUsable(p)
  <2>1. ShowVideo(p, uiState)
    BY <1>1 DEF ShowVideo, EffState, SourceUsable, Armed
  <2>2. QED
    BY <1>1, <2>1, RebuildArms DEF ChangeProps
<1>2. CASE ~SourceUsable(p)
  BY <1>2 DEF ChangeProps, Teardown, Armed
<1>3. QED
  BY <1>1, <1>2

LEMMA RetryArms ==
  ASSUME IInv, Armed, MaxFailures <= MAX_FAST_RETRIES, ScheduleRetry, props' = props
  PROVE  Armed'
<1>1. attempts + 1 <= MAX_FAST_RETRIES
  <2>1. attempts \in Nat /\ attempts < MaxFailures
    BY RetriesAssumption DEF IInv, TypeOK, ScheduleRetry, Armed
  <2>2. QED
    BY <2>1, RetriesAssumption
<1>2. /\ uiState' = "reconnecting" /\ timer' = "fast"
      /\ mounted' = ShowVideo(props, uiState')
  BY <1>1 DEF ScheduleRetry, SetState, Armed
<1>3. QED
  BY <1>2 DEF Armed

LEMMA NextArmed ==
  ASSUME ~MayLackUrl, MaxFailures <= MAX_FAST_RETRIES
  PROVE  IInv /\ mse /\ Armed /\ [Next]_vars => Armed'
<1> SUFFICES ASSUME IInv, mse, Armed, [Next]_vars PROVE Armed'
  OBVIOUS
<1>1. CASE SetEnabled
  <2>1. [props EXCEPT !.enabled = ~@] \in Props /\ [props EXCEPT !.enabled = ~@].url # NoUrl
    BY DEF IInv, TypeOK, Props, Armed
  <2>2. QED
    BY <1>1, <2>1, ChangeArms DEF SetEnabled
<1>2. CASE SetSource
  <2>1. [props EXCEPT !.local = ~@] \in Props /\ [props EXCEPT !.local = ~@].url # NoUrl
    BY DEF IInv, TypeOK, Props, Armed
  <2>2. QED
    BY <1>2, <2>1, ChangeArms DEF SetSource
<1>3. CASE \E s \in {"unknown", "live", "off"} : SetServer(s)
  <2>1. PICK s \in {"unknown", "live", "off"} : SetServer(s)
    BY <1>3
  <2>2. [props EXCEPT !.server = s] \in Props /\ [props EXCEPT !.server = s].url # NoUrl
    BY DEF IInv, TypeOK, Props, Armed
  <2>3. QED
    BY <2>1, <2>2, ChangeArms DEF SetServer
<1>4. CASE \E u \in Url \cup {NoUrl} : SetUrl(u)
  <2>1. PICK u \in Url : SetUrl(u)
    BY <1>4 DEF SetUrl
  <2>2. [props EXCEPT !.url = u] \in Props /\ [props EXCEPT !.url = u].url # NoUrl
    BY UrlAssumption DEF IInv, TypeOK, Props
  <2>3. QED
    BY <2>1, <2>2, ChangeArms DEF SetUrl
<1>5. CASE \E g \in {"cur", "old"} : LoadDone(g)
  BY <1>5 DEF LoadDone, Armed, Attached, SourceUsable
<1>6. CASE \E g \in {"cur", "old"} : LoadFails(g)
  <2>1. PICK g \in {"cur", "old"} : LoadFails(g)
    BY <1>6
  <2>2. CASE g = "cur"
    BY <2>1, <2>2, RetryArms DEF LoadFails
  <2>3. CASE g = "old"
    BY <2>1, <2>3 DEF LoadFails, Armed, Attached, SourceUsable
  <2>4. QED
    BY <2>2, <2>3
<1>7. CASE RetryTimer
  <2>1. SourceUsable(props) /\ props \in Props
    BY <1>7 DEF RetryTimer, IInv, TypeOK, QuietWhenOff
  <2>2. mounted
    BY <2>1 DEF Armed, ShowVideo, EffState, SourceUsable
  <2>3. QED
    BY <1>7, <2>1, <2>2, RebuildArms DEF RetryTimer, Armed
<1>8. CASE PlayerError
  BY <1>8, RetryArms DEF PlayerError
<1>9. CASE VideoPlaying
  BY <1>9 DEF VideoPlaying, SetState, Armed, Attached, SourceUsable
<1>10. CASE VideoWaiting
  BY <1>10 DEF VideoWaiting, SetState, Armed, Attached, SourceUsable
<1>11. CASE VideoError
  BY <1>11, RetryArms DEF VideoError
<1>12. CASE WatchdogHeals
  BY <1>12 DEF WatchdogHeals, SetState, Armed, Attached, SourceUsable
<1>13. CASE WatchdogStall
  BY <1>13, RetryArms DEF WatchdogStall, Armed, Attached, SourceUsable
<1>14. CASE WatchdogFine
  BY <1>14 DEF WatchdogFine, Armed, Attached, SourceUsable
<1>15. CASE FeedChanges
  BY <1>15 DEF FeedChanges, Armed, Attached, SourceUsable
<1>16. CASE UNCHANGED vars
  BY <1>16 DEF vars, Armed, Attached, SourceUsable
<1>17. QED
  BY <1>1, <1>2, <1>3, <1>4, <1>5, <1>6, <1>7, <1>8, <1>9, <1>10, <1>11, <1>12, <1>13,
     <1>14, <1>15, <1>16 DEF Next

\* What the browser can play does not change.
LEMMA SameBrowser == [Next]_vars => mse' = mse
  BY DEF Next, SetEnabled, SetSource, SetServer, SetUrl, ChangeProps, LoadDone, LoadFails,
         RetryTimer, PlayerError, VideoPlaying, VideoWaiting, VideoError, WatchdogHeals,
         WatchdogStall, WatchdogFine, FeedChanges, vars

\* A TV that can play live media and whose settings are usable always has a player, a load or a retry under way,
\* when at most MAX_FAST_RETRIES failures follow each other and the URL is never
\* emptied (StreamPlayer.tsx 133-148, 166-307).
THEOREM PlayerNeverAbandoned ==
  ASSUME ~MayLackUrl, MaxFailures <= MAX_FAST_RETRIES
  PROVE  Spec => []NeverAbandoned
<1>1. Init => (mse => Armed)
  BY UrlAssumption DEF Init, Armed, Attached, Props, HasSource
<1>2. (mse => Armed) => NeverAbandoned
  BY DEF Armed, NeverAbandoned
<1>3. IInv /\ (mse => Armed) /\ [Next]_vars => (mse => Armed)'
  BY NextArmed, SameBrowser
<1>4. QED
  BY <1>1, <1>2, <1>3, InitIInv, NextIInv, PTL DEF Spec

=============================================================================
