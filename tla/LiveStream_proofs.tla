--------------------------- MODULE LiveStream_proofs ---------------------------
(***************************************************************************)
(* Proofs about LiveStream, for any number of screens, applications, keys, *)
(* sessions, hooks under way and crashes.                                  *)
(*                                                                         *)
(* Four invariants carry them: what the queued hooks still have to say     *)
(* about the publishers (SessionInv) and about each viewer (ViewerInv),    *)
(* the order of the key an operator generated, the key the service has     *)
(* loaded and the key last admitted (KeyInv), and the order of the         *)
(* sessions still to be announced (InOrder). With the first and the last   *)
(* of them the module implements LiveBroadcast.                            *)
(***************************************************************************)
EXTENDS LiveStream, SequenceTheorems, TLAPS

\* A slot that is taken belongs to a session.
SlotIds == \A p \in Path : Occupied(p) => nms[p].id \in 1..MaxSession

TypeInv == TypeOK /\ SlotIds

-----------------------------------------------------------------------------
(* Types.                                                                  *)

LEMMA BroadcastType ==
  ASSUME chan \in [Tv -> Seq({"live", "off"})], NEW b \in BOOLEAN, Broadcast(b)
  PROVE  chan' \in [Tv -> Seq({"live", "off"})]
<1>1. Word(b) \in {"live", "off"}
  BY DEF Word
<1>2. \A t \in Tv : Append(chan[t], Word(b)) \in Seq({"live", "off"})
  BY <1>1, AppendProperties
<1>3. PICK got \in SUBSET Tv :
        chan' = [t \in Tv |-> IF t \in got /\ Len(chan[t]) < MaxChan
                              THEN Append(chan[t], Word(b)) ELSE chan[t]]
  BY DEF Broadcast
<1>4. QED
  BY <1>2, <1>3

\* The head of the queue of hooks and what is left of it.
LEMMA HookTaken ==
  ASSUME notify \in Seq(Hook), notify # << >>
  PROVE  Head(notify) \in Hook /\ Tail(notify) \in Seq(Hook)
  BY HeadTailProperties

\* Hooks that are posted.
LEMMA HookPosted ==
  ASSUME notify \in Seq(Hook), NEW h \in Hook
  PROVE  Append(notify, h) \in Seq(Hook)
  BY AppendProperties

LEMMA InitType == Init => TypeInv
<1> SUFFICES ASSUME Init PROVE TypeInv
  OBVIOUS
<1> USE AppAssumption, BoundsAssumption
<1>1. SettingsOK
  BY DEF Init, SettingsOK
<1>2. MediaOK
  <2>1. nms \in [Path -> [st : {"free", "on", "grace"}, id : 0..MaxSession]]
    BY DEF Init, FreeSlots, NoSession
  <2>2. notify \in Seq(Hook)
    BY EmptySeq DEF Init
  <2>3. QED
    BY <2>1, <2>2 DEF Init, MediaOK
<1>3. ServiceOK
  <2>1. up \in BOOLEAN /\ live \in BOOLEAN /\ graceTimer \in BOOLEAN
    BY DEF Init
  <2>2. /\ currentKey \in 0..MaxKey /\ currentApp \in App
        /\ sessionId \in 0..MaxSession /\ lastSession \in 0..MaxSession
        /\ playSessions \in SUBSET Tv
    BY <1>1 DEF Init, SettingsOK, NoSession
  <2>3. QED
    BY <2>1, <2>2 DEF ServiceOK
<1>4. ScreensOK
  <2>1. << >> \in Seq({"live", "off"})
    BY EmptySeq
  <2>2. QED
    BY <2>1 DEF Init, ScreensOK
<1>5. HistoryOK
  BY DEF Init, HistoryOK, NoKey
<1>6. SlotIds
  BY DEF Init, SlotIds, Occupied, FreeSlots
<1>7. QED
  BY <1>1, <1>2, <1>3, <1>4, <1>5, <1>6 DEF TypeInv, TypeOK

LEMMA NextType == TypeInv /\ [Next]_vars => TypeInv'
<1> SUFFICES ASSUME TypeInv, [Next]_vars PROVE TypeInv'
  OBVIOUS
<1> USE AppAssumption, BoundsAssumption
<1>a. SettingsOK /\ MediaOK /\ ServiceOK /\ ScreensOK /\ HistoryOK /\ SlotIds
  BY DEF TypeInv, TypeOK
<1> DEFINE Slot == [st : {"free", "on", "grace"}, id : 0..MaxSession]
<1>1. CASE RotateKey
  <2>1. SettingsOK' /\ HistoryOK'
    BY <1>1, <1>a DEF RotateKey, SettingsOK, HistoryOK
  <2>2. MediaOK' /\ ServiceOK' /\ ScreensOK' /\ SlotIds'
    BY <1>1, <1>a DEF RotateKey, media, loaded, session, screens,
                      MediaOK, ServiceOK, ScreensOK, SlotIds, Occupied
  <2>3. QED
    BY <2>1, <2>2 DEF TypeInv, TypeOK
<1>2. CASE \E a \in App, l \in BOOLEAN : SetStream(a, l)
  <2>1. SettingsOK' /\ HistoryOK'
    <3>1. PICK a \in App, l \in BOOLEAN : SetStream(a, l)
      BY <1>2
    <3>2. settings \in [app : App, key : 0..MaxKey, local : BOOLEAN]
      BY <1>a DEF SettingsOK
    <3>3. settings' = [settings EXCEPT !.app = a, !.local = l]
      BY <3>1, Zenon DEF SetStream
    <3>4. SettingsOK'
      BY <3>2, <3>3 DEF SettingsOK
    <3>5. edits < MaxEdit /\ edits' = edits + 1 /\ lastAdmitted' = lastAdmitted /\ crashes' = crashes
      BY <3>1, Zenon DEF SetStream
    <3>6. HistoryOK'
      BY <3>5, <1>a DEF HistoryOK
    <3>7. QED
      BY <3>4, <3>6
  <2>2. MediaOK' /\ ServiceOK' /\ ScreensOK' /\ SlotIds'
    BY <1>2, <1>a DEF SetStream, media, loaded, session, screens,
                      MediaOK, ServiceOK, ScreensOK, SlotIds, Occupied
  <2>3. QED
    BY <2>1, <2>2 DEF TypeInv, TypeOK
<1>3. CASE \E p \in Path : Publish(p)
  <2>1. PICK p \in Path : Publish(p)
    BY <1>3
  <2>2. nextSession' \in 1..MaxSession
    BY <2>1, <1>a DEF Publish, MediaOK
  <2>3. nms' \in [Path -> Slot]
    BY <2>1, <2>2, <1>a DEF Publish, MediaOK
  <2>4. notify' \in Seq(Hook)
    <3>1. [act |-> "postPublish", id |-> nextSession'] \in Hook
      BY <2>2 DEF Hook, Publishing
    <3>2. QED
      BY <2>1, <3>1, <1>a, HookPosted DEF Publish, MediaOK
  <2>5. MediaOK'
    BY <2>1, <2>2, <2>3, <2>4, <1>a DEF Publish, MediaOK
  <2>6. SlotIds'
    BY <2>1, <2>2, <1>a DEF Publish, MediaOK, SlotIds, Occupied
  <2>7. HistoryOK'
    BY <2>1, <1>a DEF Publish, HistoryOK, Path
  <2>8. SettingsOK' /\ ServiceOK' /\ ScreensOK'
    BY <2>1, <1>a DEF Publish, config, loaded, session, screens,
                      SettingsOK, ServiceOK, ScreensOK
  <2>9. QED
    BY <2>5, <2>6, <2>7, <2>8 DEF TypeInv, TypeOK
<1>4. CASE \E p \in Path : Unpublish(p)
  <2>1. PICK p \in Path : Unpublish(p)
    BY <1>4
  <2>2. nms' \in [Path -> Slot]
    BY <2>1, <1>a DEF Unpublish, MediaOK
  <2>3. MediaOK'
    BY <2>1, <2>2, <1>a DEF Unpublish, MediaOK
  <2>4. SlotIds'
    BY <2>1, <1>a DEF Unpublish, MediaOK, SlotIds, Occupied
  <2>5. SettingsOK' /\ ServiceOK' /\ ScreensOK' /\ HistoryOK'
    BY <2>1, <1>a DEF Unpublish, config, loaded, session, screens, ghosts,
                      SettingsOK, ServiceOK, ScreensOK, HistoryOK
  <2>6. QED
    BY <2>3, <2>4, <2>5 DEF TypeInv, TypeOK
<1>5. CASE \E p \in Path : ReleaseSlot(p)
  <2>1. PICK p \in Path : ReleaseSlot(p)
    BY <1>5
  <2>2. nms' \in [Path -> Slot]
    BY <2>1, <1>a DEF ReleaseSlot, MediaOK, NoSession
  <2>3. notify' \in Seq(Hook)
    <3>1. [act |-> "donePublish", id |-> nms[p].id] \in Hook
      BY <2>1, <1>a DEF Hook, Publishing, ReleaseSlot, SlotIds, Occupied
    <3>2. QED
      BY <2>1, <3>1, <1>a, HookPosted DEF ReleaseSlot, MediaOK
  <2>4. MediaOK'
    BY <2>1, <2>2, <2>3, <1>a DEF ReleaseSlot, MediaOK
  <2>5. SlotIds'
    BY <2>1, <1>a DEF ReleaseSlot, MediaOK, SlotIds, Occupied
  <2>6. SettingsOK' /\ ServiceOK' /\ ScreensOK' /\ HistoryOK'
    BY <2>1, <1>a DEF ReleaseSlot, config, loaded, session, screens, ghosts,
                      SettingsOK, ServiceOK, ScreensOK, HistoryOK
  <2>7. QED
    BY <2>4, <2>5, <2>6 DEF TypeInv, TypeOK
<1>6. CASE \E t \in Tv : OpenFlv(t)
  <2>1. PICK t \in Tv : OpenFlv(t)
    BY <1>6
  <2>2. notify' \in Seq(Hook)
    <3>1. [act |-> "postPlay", id |-> t] \in Hook
      BY DEF Hook, Playing
    <3>2. QED
      BY <2>1, <3>1, <1>a, HookPosted DEF OpenFlv, MediaOK
  <2>3. flv' \in [Tv -> Path \cup {NoPath}]
    BY <2>1, <1>a DEF OpenFlv, MediaOK
  <2>4. MediaOK' /\ SlotIds'
    BY <2>1, <2>2, <2>3, <1>a DEF OpenFlv, MediaOK, SlotIds, Occupied
  <2>5. SettingsOK' /\ ServiceOK' /\ ScreensOK' /\ HistoryOK'
    BY <2>1, <1>a DEF OpenFlv, config, loaded, session, screens, ghosts,
                      SettingsOK, ServiceOK, ScreensOK, HistoryOK
  <2>6. QED
    BY <2>4, <2>5 DEF TypeInv, TypeOK
<1>7. CASE \E t \in Tv : CloseFlv(t)
  <2>1. PICK t \in Tv : CloseFlv(t)
    BY <1>7
  <2>2. notify' \in Seq(Hook)
    <3>1. [act |-> "donePlay", id |-> t] \in Hook
      BY DEF Hook, Playing
    <3>2. QED
      BY <2>1, <3>1, <1>a, HookPosted DEF CloseFlv, MediaOK
  <2>3. flv' \in [Tv -> Path \cup {NoPath}]
    BY <2>1, <1>a DEF CloseFlv, MediaOK
  <2>4. MediaOK' /\ SlotIds'
    BY <2>1, <2>2, <2>3, <1>a DEF CloseFlv, MediaOK, SlotIds, Occupied
  <2>5. SettingsOK' /\ ServiceOK' /\ ScreensOK' /\ HistoryOK'
    BY <2>1, <1>a DEF CloseFlv, config, loaded, session, screens, ghosts,
                      SettingsOK, ServiceOK, ScreensOK, HistoryOK
  <2>6. QED
    BY <2>4, <2>5 DEF TypeInv, TypeOK
<1>8. CASE RefreshStreamConfig
  <2>1. ServiceOK'
    BY <1>8, <1>a DEF RefreshStreamConfig, session, ServiceOK, SettingsOK
  <2>2. SettingsOK' /\ MediaOK' /\ ScreensOK' /\ HistoryOK' /\ SlotIds'
    BY <1>8, <1>a DEF RefreshStreamConfig, config, media, screens, ghosts,
                      SettingsOK, MediaOK, ScreensOK, HistoryOK, SlotIds, Occupied
  <2>3. QED
    BY <2>1, <2>2 DEF TypeInv, TypeOK
<1>9. CASE PostPublish
  <2>1. Head(notify) \in Hook /\ Tail(notify) \in Seq(Hook)
    BY <1>9, <1>a, HookTaken DEF PostPublish, NextHook, MediaOK
  <2>2. Head(notify).id \in 1..MaxSession
    BY <1>9, <2>1 DEF PostPublish, NextHook, Hook, Publishing, Playing
  <2>3. MediaOK' /\ SlotIds' /\ SettingsOK' /\ HistoryOK'
    BY <1>9, <2>1, <1>a DEF PostPublish, config, ghosts, MediaOK, SlotIds, Occupied,
                            SettingsOK, HistoryOK
  <2>4. ServiceOK'
    <3>1. up' \in BOOLEAN /\ live' \in BOOLEAN /\ graceTimer' \in BOOLEAN
      BY <1>9, <1>a DEF PostPublish, session, ServiceOK
    <3>2. /\ currentKey' \in 0..MaxKey /\ currentApp' \in App
          /\ sessionId' \in 0..MaxSession /\ lastSession' \in 0..MaxSession
          /\ playSessions' \in SUBSET Tv
      <4>1. /\ sessionId' = sessionId \/ sessionId' = Head(notify).id
            /\ UNCHANGED <<lastSession, currentKey, currentApp, playSessions>>
        BY <1>9 DEF PostPublish, loaded, session
      <4>2. QED
        BY <4>1, <2>2, <1>a DEF ServiceOK
    <3>3. QED
      BY <3>1, <3>2 DEF ServiceOK
  <2>5. chan' \in [Tv -> Seq({"live", "off"})]
    BY <1>9, <1>a, BroadcastType DEF PostPublish, ScreensOK
  <2>6. ScreensOK'
    BY <1>9, <2>5, <1>a DEF PostPublish, screens, ScreensOK
  <2>7. QED
    BY <2>3, <2>4, <2>6 DEF TypeInv, TypeOK
<1>10. CASE DonePublish
  <2>1. Tail(notify) \in Seq(Hook)
    BY <1>10, <1>a, HookTaken DEF DonePublish, NextHook, MediaOK
  <2>2. MediaOK' /\ SlotIds' /\ SettingsOK' /\ HistoryOK' /\ ScreensOK'
    BY <1>10, <2>1, <1>a DEF DonePublish, config, ghosts, screens, MediaOK, SlotIds,
                             Occupied, SettingsOK, HistoryOK, ScreensOK
  <2>3. ServiceOK'
    BY <1>10, <1>a DEF DonePublish, loaded, ServiceOK
  <2>4. QED
    BY <2>2, <2>3 DEF TypeInv, TypeOK
<1>11. CASE GraceExpires
  <2>1. chan' \in [Tv -> Seq({"live", "off"})]
    BY <1>11, <1>a, BroadcastType DEF GraceExpires, ScreensOK
  <2>2. ServiceOK'
    <3>1. up' \in BOOLEAN /\ live' \in BOOLEAN /\ graceTimer' \in BOOLEAN
      BY <1>11, <1>a DEF GraceExpires, ServiceOK
    <3>2. /\ currentKey' \in 0..MaxKey /\ currentApp' \in App
          /\ sessionId' \in 0..MaxSession /\ lastSession' \in 0..MaxSession
          /\ playSessions' \in SUBSET Tv
      BY <1>11, <1>a DEF GraceExpires, loaded, ServiceOK, NoSession
    <3>3. QED
      BY <3>1, <3>2 DEF ServiceOK
  <2>3. SettingsOK' /\ MediaOK' /\ ScreensOK' /\ HistoryOK' /\ SlotIds'
    BY <1>11, <2>1, <1>a DEF GraceExpires, config, media, screens, ghosts, ScreensOK,
                             SettingsOK, MediaOK, HistoryOK, SlotIds, Occupied
  <2>4. QED
    BY <2>2, <2>3 DEF TypeInv, TypeOK
<1>12. CASE PostPlay \/ DonePlay
  <2>1. Head(notify) \in Hook /\ Tail(notify) \in Seq(Hook)
    BY <1>12, <1>a, HookTaken DEF PostPlay, DonePlay, NextHook, MediaOK
  <2>2. Head(notify).id \in Tv
    BY <1>12, <2>1 DEF PostPlay, DonePlay, NextHook, Hook, Publishing, Playing
  <2>3. MediaOK' /\ SlotIds' /\ SettingsOK' /\ HistoryOK'
    BY <1>12, <2>1, <1>a DEF PostPlay, DonePlay, config, ghosts, MediaOK, SlotIds,
                             Occupied, SettingsOK, HistoryOK
  <2>4. ServiceOK'
    BY <1>12, <2>2, <1>a DEF PostPlay, DonePlay, loaded, session, ServiceOK
  <2>5. chan' \in [Tv -> Seq({"live", "off"})]
    BY <1>12, <1>a, BroadcastType DEF PostPlay, DonePlay, ScreensOK, ServiceOK
  <2>6. ScreensOK'
    BY <1>12, <2>5, <1>a DEF PostPlay, DonePlay, screens, ScreensOK
  <2>7. QED
    BY <2>3, <2>4, <2>6 DEF TypeInv, TypeOK
<1>13. CASE PeriodicBroadcast
  <2>1. chan' \in [Tv -> Seq({"live", "off"})]
    BY <1>13, <1>a, BroadcastType DEF PeriodicBroadcast, ScreensOK, ServiceOK
  <2>2. TypeOK' /\ SlotIds'
    BY <1>13, <2>1, <1>a DEF PeriodicBroadcast, config, media, loaded, session, screens,
         ghosts, TypeOK, SettingsOK, MediaOK, ServiceOK, ScreensOK, HistoryOK, SlotIds, Occupied
  <2>3. QED
    BY <2>2 DEF TypeInv
<1>14. CASE Crash
  <2>1. nms' \in [Path -> Slot]
    BY <1>14 DEF Crash, FreeSlots, NoSession
  <2>2. notify' \in Seq(Hook)
    BY <1>14, EmptySeq DEF Crash
  <2>3. MediaOK'
    BY <1>14, <2>1, <2>2, <1>a DEF Crash, MediaOK
  <2>4. SlotIds'
    BY <1>14 DEF Crash, SlotIds, Occupied, FreeSlots
  <2>5. ServiceOK'
    <3>1. up' \in BOOLEAN /\ live' \in BOOLEAN /\ graceTimer' \in BOOLEAN
      BY <1>14, <1>a DEF Crash, ServiceOK
    <3>2. /\ currentKey' \in 0..MaxKey /\ currentApp' \in App
          /\ sessionId' \in 0..MaxSession /\ lastSession' \in 0..MaxSession
          /\ playSessions' \in SUBSET Tv
      BY <1>14, <1>a DEF Crash, NoKey, NoSession
    <3>3. QED
      BY <3>1, <3>2 DEF ServiceOK
  <2>6. SettingsOK' /\ ScreensOK' /\ HistoryOK'
    BY <1>14, <1>a DEF Crash, config, screens, SettingsOK, ScreensOK, HistoryOK
  <2>7. QED
    BY <2>3, <2>4, <2>5, <2>6 DEF TypeInv, TypeOK
<1>15. CASE Restart
  <2>1. chan' \in [Tv -> Seq({"live", "off"})]
    BY <1>15, <1>a, BroadcastType DEF Restart, ScreensOK
  <2>2. ServiceOK'
    BY <1>15, <1>a DEF Restart, loaded, session, ServiceOK, SettingsOK
  <2>3. SettingsOK' /\ MediaOK' /\ ScreensOK' /\ HistoryOK' /\ SlotIds'
    BY <1>15, <2>1, <1>a DEF Restart, config, media, screens, ghosts,
                             SettingsOK, MediaOK, ScreensOK, HistoryOK, SlotIds, Occupied
  <2>4. QED
    BY <2>2, <2>3 DEF TypeInv, TypeOK
<1>16. CASE \E t \in Tv : DeliverEvent(t)
  <2>1. PICK t \in Tv : DeliverEvent(t)
    BY <1>16
  <2>2. Head(chan[t]) \in {"live", "off"} /\ Tail(chan[t]) \in Seq({"live", "off"})
    BY <2>1, <1>a, HeadTailProperties DEF DeliverEvent, ScreensOK
  <2>3. ScreensOK'
    BY <2>1, <2>2, <1>a DEF DeliverEvent, ScreensOK
  <2>4. SettingsOK' /\ MediaOK' /\ ServiceOK' /\ HistoryOK' /\ SlotIds'
    BY <2>1, <1>a DEF DeliverEvent, config, media, loaded, session, ghosts,
                      SettingsOK, MediaOK, ServiceOK, HistoryOK, SlotIds, Occupied
  <2>5. QED
    BY <2>3, <2>4 DEF TypeInv, TypeOK
<1>17. CASE \E t \in Tv : StatusAnswered(t) \/ PollApplied(t) \/ PollLost(t)
  <2>1. PICK t \in Tv : StatusAnswered(t) \/ PollApplied(t) \/ PollLost(t)
    BY <1>17
  <2>2. ScreensOK'
    BY <2>1, <1>a DEF StatusAnswered, PollApplied, PollLost, ScreensOK, Word
  <2>3. SettingsOK' /\ MediaOK' /\ ServiceOK' /\ HistoryOK' /\ SlotIds'
    BY <2>1, <1>a DEF StatusAnswered, PollApplied, PollLost, config, media, loaded, session,
                      ghosts, SettingsOK, MediaOK, ServiceOK, HistoryOK, SlotIds, Occupied
  <2>4. QED
    BY <2>2, <2>3 DEF TypeInv, TypeOK
<1>18. CASE UNCHANGED vars
  BY <1>18, <1>a DEF vars, config, media, loaded, session, screens, ghosts, TypeInv, TypeOK,
       SettingsOK, MediaOK, ServiceOK, ScreensOK, HistoryOK, SlotIds, Occupied
<1>19. QED
  BY <1>1, <1>2, <1>3, <1>4, <1>5, <1>6, <1>7, <1>8, <1>9, <1>10, <1>11, <1>12, <1>13,
     <1>14, <1>15, <1>16, <1>17, <1>18 DEF Next

\* The state of the pipeline keeps its type, for any number of everything.
THEOREM TypeCorrect == Spec => []TypeOK
<1>1. TypeInv => TypeOK
  BY DEF TypeInv
<1>2. QED
  BY <1>1, InitType, NextType, PTL DEF Spec

-----------------------------------------------------------------------------
(* The queue of hooks.                                                     *)

LEMMA QueueGrows ==
  ASSUME notify \in Seq(Hook), NEW h \in Hook, notify' = Append(notify, h)
  PROVE  /\ Len(notify) \in Nat /\ Len(notify') = Len(notify) + 1
         /\ \A i \in 1..Len(notify) : notify'[i] = notify[i]
         /\ notify'[Len(notify) + 1] = h
  BY AppendProperties, LenProperties

LEMMA QueueShrinks ==
  ASSUME notify \in Seq(Hook), notify # << >>, notify' = Tail(notify)
  PROVE  /\ Len(notify) \in Nat \ {0} /\ Len(notify') = Len(notify) - 1
         /\ \A i \in 1..Len(notify') : notify'[i] = notify[i + 1]
         /\ Head(notify) = notify[1]
<1>1. Len(notify) \in Nat /\ Len(notify) # 0
  BY LenProperties, EmptySeq
<1>2. Len(notify') = Len(notify) - 1 /\ \A i \in 1..Len(notify') : notify'[i] = notify[i + 1]
  BY HeadTailProperties
<1>3. QED
  BY <1>1, <1>2

-----------------------------------------------------------------------------
(* The session the service believes in.                                    *)

SomeOccupied == \E p \in Path : Occupied(p)

\* A publication that is announced in the queue is there, or its end is too.
StartBeforeEnd ==
  \A i \in 1..Len(notify) :
    notify[i].act = "postPublish" =>
      SomeOccupied \/ \E j \in 1..Len(notify) : i < j /\ notify[j].act = "donePublish"

Registered == /\ live => sessionId # NoSession
              /\ sessionId # NoSession => live
              /\ graceTimer => live

SessionInv == Registered /\ StartBeforeEnd /\ LiveHasCause

\* Appending a hook about a viewer, or one of a publication that is there, or the
\* end of one, is harmless.
LEMMA SessionGrows ==
  ASSUME notify \in Seq(Hook), SessionInv, NEW h \in Hook, notify' = Append(notify, h),
         UNCHANGED <<live, sessionId, graceTimer>>,
         \/ h.act \in {"postPlay", "donePlay"} /\ UNCHANGED nms
         \/ h.act = "postPublish" /\ SomeOccupied'
         \/ h.act = "donePublish"
  PROVE  SessionInv'
<1>1. /\ Len(notify) \in Nat /\ Len(notify') = Len(notify) + 1
      /\ \A i \in 1..Len(notify) : notify'[i] = notify[i]
      /\ notify'[Len(notify) + 1] = h
  BY QueueGrows
<1>2. Registered'
  BY DEF SessionInv, Registered
<1>3. CASE h.act \in {"postPlay", "donePlay"} /\ UNCHANGED nms
  <2>1. SomeOccupied' = SomeOccupied
    BY <1>3 DEF SomeOccupied, Occupied
  <2>2. StartBeforeEnd'
    BY <1>1, <1>3, <2>1 DEF SessionInv, StartBeforeEnd
  <2>3. LiveHasCause'
    BY <1>1, <1>3, <2>1 DEF SessionInv, LiveHasCause, SomeOccupied
  <2>4. QED
    BY <1>2, <2>2, <2>3 DEF SessionInv
<1>4. CASE SomeOccupied'
  BY <1>2, <1>4 DEF SessionInv, StartBeforeEnd, LiveHasCause, SomeOccupied
<1>5. CASE h.act = "donePublish"
  <2>1. Len(notify) + 1 \in 1..Len(notify') /\ notify'[Len(notify) + 1].act = "donePublish"
    BY <1>1, <1>5
  <2>2. LiveHasCause'
    BY <2>1 DEF LiveHasCause
  <2>3. StartBeforeEnd'
    <3> SUFFICES ASSUME NEW i \in 1..Len(notify'), notify'[i].act = "postPublish"
                 PROVE  \E j \in 1..Len(notify') : i < j /\ notify'[j].act = "donePublish"
      BY DEF StartBeforeEnd
    <3>1. i # Len(notify) + 1
      BY <2>1
    <3>2. i < Len(notify) + 1
      BY <3>1, <1>1
    <3>3. QED
      BY <2>1, <3>2
  <2>4. QED
    BY <1>2, <2>2, <2>3 DEF SessionInv
<1>6. QED
  BY <1>3, <1>4, <1>5

\* Taking a hook off the queue keeps what the others have to say.
LEMMA SessionShrinks ==
  ASSUME notify \in Seq(Hook), StartBeforeEnd, notify # << >>, notify' = Tail(notify),
         UNCHANGED nms
  PROVE  /\ StartBeforeEnd'
         /\ (\E i \in 1..Len(notify) : i > 1 /\ notify[i].act = "donePublish")
              => \E i \in 1..Len(notify') : notify'[i].act = "donePublish"
<1>1. /\ Len(notify) \in Nat \ {0} /\ Len(notify') = Len(notify) - 1
      /\ \A i \in 1..Len(notify') : notify'[i] = notify[i + 1]
  BY QueueShrinks
<1>2. SomeOccupied' = SomeOccupied
  BY DEF SomeOccupied, Occupied
<1>3. \A i \in 1..Len(notify) : i > 1 => i - 1 \in 1..Len(notify') /\ notify'[i - 1] = notify[i]
  <2> SUFFICES ASSUME NEW i \in 1..Len(notify), i > 1
               PROVE  i - 1 \in 1..Len(notify') /\ notify'[i - 1] = notify[i]
    OBVIOUS
  <2>1. i - 1 \in 1..Len(notify') /\ (i - 1) + 1 = i
    BY <1>1
  <2>2. QED
    BY <1>1, <2>1
<1>4. StartBeforeEnd'
  <2> SUFFICES ASSUME NEW i \in 1..Len(notify'), notify'[i].act = "postPublish", ~SomeOccupied'
               PROVE  \E j \in 1..Len(notify') : i < j /\ notify'[j].act = "donePublish"
    BY DEF StartBeforeEnd
  <2>1. i + 1 \in 1..Len(notify) /\ notify[i + 1].act = "postPublish"
    BY <1>1
  <2>2. PICK j \in 1..Len(notify) : i + 1 < j /\ notify[j].act = "donePublish"
    BY <2>1, <1>2 DEF StartBeforeEnd
  <2>3. j - 1 \in 1..Len(notify') /\ notify'[j - 1].act = "donePublish" /\ i < j - 1
    BY <2>2, <1>1, <1>3
  <2>4. QED
    BY <2>3
<1>5. QED
  BY <1>3, <1>4

LEMMA InitSession == Init => SessionInv
  BY DEF Init, SessionInv, Registered, StartBeforeEnd, LiveHasCause

LEMMA NextSession == TypeInv /\ SessionInv /\ [Next]_vars => SessionInv'
<1> SUFFICES ASSUME TypeInv, SessionInv, [Next]_vars PROVE SessionInv'
  OBVIOUS
<1>a. notify \in Seq(Hook) /\ MediaOK /\ SlotIds
  BY DEF TypeInv, TypeOK, MediaOK
<1>b. ASSUME UNCHANGED <<nms, notify, session>> PROVE SessionInv'
  <2>1. UNCHANGED <<nms, notify, live, sessionId, graceTimer>>
    BY <1>b DEF session
  <2>2. QED
    BY <2>1 DEF SessionInv, Registered, StartBeforeEnd, LiveHasCause, SomeOccupied, Occupied
<1>1. CASE \/ RotateKey \/ RefreshStreamConfig \/ PeriodicBroadcast \/ Restart
           \/ \E a \in App, l \in BOOLEAN : SetStream(a, l)
           \/ \E t \in Tv : DeliverEvent(t) \/ StatusAnswered(t) \/ PollApplied(t) \/ PollLost(t)
           \/ UNCHANGED vars
  <2>1. UNCHANGED <<nms, notify, session>>
    BY <1>1 DEF RotateKey, RefreshStreamConfig, PeriodicBroadcast, Restart, SetStream, DeliverEvent,
                StatusAnswered, PollApplied, PollLost, vars, media
  <2>2. QED
    BY <2>1, <1>b
<1>2. CASE \E p \in Path : Publish(p)
  <2>1. PICK p \in Path : Publish(p)
    BY <1>2
  <2>2. nextSession' \in 1..MaxSession
    BY <2>1, <1>a, BoundsAssumption DEF Publish, MediaOK
  <2>3. [act |-> "postPublish", id |-> nextSession'] \in Hook
    BY <2>2 DEF Hook, Publishing
  <2>4. SomeOccupied'
    BY <2>1, <1>a DEF Publish, MediaOK, SomeOccupied, Occupied
  <2>5. /\ notify' = Append(notify, [act |-> "postPublish", id |-> nextSession'])
        /\ UNCHANGED <<live, sessionId, graceTimer>>
    BY <2>1 DEF Publish, session
  <2>6. QED
    BY <2>3, <2>4, <2>5, <1>a, SessionGrows
<1>3. CASE \E p \in Path : Unpublish(p)
  <2>1. PICK p \in Path : Unpublish(p)
    BY <1>3
  <2>2. Occupied(p)' /\ UNCHANGED <<notify, live, sessionId, graceTimer>>
    BY <2>1, <1>a DEF Unpublish, MediaOK, Occupied, session
  <2>3. QED
    BY <2>2 DEF SessionInv, Registered, StartBeforeEnd, LiveHasCause, SomeOccupied
<1>4. CASE \E p \in Path : ReleaseSlot(p)
  <2>1. PICK p \in Path : ReleaseSlot(p)
    BY <1>4
  <2>2. [act |-> "donePublish", id |-> nms[p].id] \in Hook
    BY <2>1, <1>a DEF Hook, Publishing, ReleaseSlot, SlotIds, Occupied
  <2>3. /\ notify' = Append(notify, [act |-> "donePublish", id |-> nms[p].id])
        /\ UNCHANGED <<live, sessionId, graceTimer>>
    BY <2>1 DEF ReleaseSlot, session
  <2>4. QED
    BY <2>2, <2>3, <1>a, SessionGrows
<1>5. CASE \E t \in Tv : OpenFlv(t)
  <2>1. PICK t \in Tv : OpenFlv(t)
    BY <1>5
  <2>2. [act |-> "postPlay", id |-> t] \in Hook
    BY DEF Hook, Playing
  <2>3. /\ notify' = Append(notify, [act |-> "postPlay", id |-> t])
        /\ UNCHANGED <<nms, live, sessionId, graceTimer>>
    BY <2>1 DEF OpenFlv, session
  <2>4. QED
    BY <2>2, <2>3, <1>a, SessionGrows
<1>6. CASE \E t \in Tv : CloseFlv(t)
  <2>1. PICK t \in Tv : CloseFlv(t)
    BY <1>6
  <2>2. [act |-> "donePlay", id |-> t] \in Hook
    BY DEF Hook, Playing
  <2>3. /\ notify' = Append(notify, [act |-> "donePlay", id |-> t])
        /\ UNCHANGED <<nms, live, sessionId, graceTimer>>
    BY <2>1 DEF CloseFlv, session
  <2>4. QED
    BY <2>2, <2>3, <1>a, SessionGrows
<1>7. CASE PostPublish
  <2>1. notify # << >> /\ Head(notify).act = "postPublish" /\ notify' = Tail(notify) /\ UNCHANGED nms
    BY <1>7 DEF PostPublish, NextHook
  <2>2. Head(notify) \in Hook
    BY <2>1, <1>a, HookTaken
  <2>3. Head(notify).id \in 1..MaxSession /\ Head(notify).id # NoSession
    BY <2>1, <2>2, BoundsAssumption DEF Hook, Publishing, Playing, NoSession
  <2>4. /\ StartBeforeEnd'
        /\ (\E i \in 1..Len(notify) : i > 1 /\ notify[i].act = "donePublish")
             => \E i \in 1..Len(notify') : notify'[i].act = "donePublish"
    BY <2>1, <1>a, SessionShrinks DEF SessionInv
  <2>5. notify[1].act = "postPublish" /\ Len(notify) \in Nat \ {0}
    BY <2>1, <1>a, QueueShrinks
  <2>6. SomeOccupied' = SomeOccupied
    BY <2>1 DEF SomeOccupied, Occupied
  <2>7. CASE IgnoresPublisher(Head(notify).id)
    <3>1. UNCHANGED <<live, sessionId, graceTimer>>
      BY <1>7, <2>7 DEF PostPublish, session
    <3>2. graceTimer \/ SomeOccupied
            \/ \E i \in 1..Len(notify) : i > 1 /\ notify[i].act = "donePublish"
      <4>1. live
        BY <2>7 DEF IgnoresPublisher
      <4>2. \A i \in 1..Len(notify) : notify[i].act = "donePublish" => i > 1
        BY <2>5
      <4>3. QED
        BY <4>1, <4>2 DEF SessionInv, LiveHasCause, SomeOccupied
    <3>3. LiveHasCause'
      BY <3>1, <3>2, <2>4, <2>6 DEF LiveHasCause, SomeOccupied
    <3>4. QED
      BY <3>1, <3>3, <2>4 DEF SessionInv, Registered
  <2>8. CASE ~IgnoresPublisher(Head(notify).id)
    <3>1. live' /\ ~graceTimer' /\ sessionId' = Head(notify).id
      BY <1>7, <2>8 DEF PostPublish
    <3>2. SomeOccupied \/ \E i \in 1..Len(notify) : i > 1 /\ notify[i].act = "donePublish"
      BY <2>5 DEF SessionInv, StartBeforeEnd
    <3>3. LiveHasCause'
      BY <3>2, <2>4, <2>6 DEF LiveHasCause, SomeOccupied
    <3>4. Registered'
      BY <3>1, <2>3 DEF Registered, NoSession
    <3>5. QED
      BY <3>3, <3>4, <2>4 DEF SessionInv
  <2>9. QED
    BY <2>7, <2>8
<1>8. CASE DonePublish
  <2>1. /\ notify # << >> /\ notify' = Tail(notify)
        /\ UNCHANGED <<nms, live, sessionId>> /\ Head(notify).act = "donePublish"
    BY <1>8 DEF DonePublish, NextHook
  <2>2. Head(notify) \in Hook
    BY <2>1, <1>a, HookTaken
  <2>3. Head(notify).id # NoSession
    BY <2>1, <2>2, BoundsAssumption DEF Hook, Publishing, Playing, NoSession
  <2>4. StartBeforeEnd'
    BY <2>1, <1>a, SessionShrinks DEF SessionInv
  <2>5. CASE EndsSession(Head(notify).id)
    <3>1. live /\ graceTimer'
      BY <1>8, <2>3, <2>5 DEF DonePublish, EndsSession, SessionInv, Registered
    <3>2. QED
      BY <3>1, <2>1, <2>4 DEF SessionInv, Registered, LiveHasCause
  <2>6. CASE ~EndsSession(Head(notify).id)
    <3>1. ~live /\ UNCHANGED graceTimer
      BY <1>8, <2>6 DEF DonePublish, EndsSession
    <3>2. QED
      BY <3>1, <2>1, <2>4 DEF SessionInv, Registered, LiveHasCause
  <2>7. QED
    BY <2>5, <2>6
<1>9. CASE GraceExpires
  <2>1. ~live' /\ ~graceTimer' /\ sessionId' = NoSession /\ UNCHANGED <<nms, notify>>
    BY <1>9 DEF GraceExpires, media
  <2>2. QED
    BY <2>1 DEF SessionInv, Registered, LiveHasCause, StartBeforeEnd, SomeOccupied, Occupied
<1>10. CASE PostPlay \/ DonePlay
  <2>1. /\ notify # << >> /\ Head(notify).act # "donePublish" /\ notify' = Tail(notify)
        /\ UNCHANGED <<nms, live, sessionId, graceTimer>>
    BY <1>10 DEF PostPlay, DonePlay, NextHook, session
  <2>2. /\ StartBeforeEnd'
        /\ (\E i \in 1..Len(notify) : i > 1 /\ notify[i].act = "donePublish")
             => \E i \in 1..Len(notify') : notify'[i].act = "donePublish"
    BY <2>1, <1>a, SessionShrinks DEF SessionInv
  <2>3. notify[1].act # "donePublish" /\ Len(notify) \in Nat \ {0}
    BY <2>1, <1>a, QueueShrinks
  <2>4. \A i \in 1..Len(notify) : notify[i].act = "donePublish" => i > 1
    BY <2>3
  <2>5. LiveHasCause'
    BY <2>1, <2>2, <2>4 DEF SessionInv, LiveHasCause, Occupied
  <2>6. QED
    BY <2>1, <2>2, <2>5 DEF SessionInv, Registered
<1>11. CASE Crash
  <2>1. ~live' /\ ~graceTimer' /\ sessionId' = NoSession /\ notify' = << >>
    BY <1>11 DEF Crash
  <2>2. QED
    BY <2>1 DEF SessionInv, Registered, LiveHasCause, StartBeforeEnd
<1>12. QED
  BY <1>1, <1>2, <1>3, <1>4, <1>5, <1>6, <1>7, <1>8, <1>9, <1>10, <1>11 DEF Next

GraceOverSession == graceTimer => live /\ sessionId # NoSession

\* The service never announces a live stream without a cause, and its grace timer
\* always has a session to end (index.ts 201-243), however the hooks of any number
\* of publications and paths interleave.
THEOREM LiveIsCaused == Spec => [](LiveHasCause /\ GraceOverSession)
<1>1. SessionInv => LiveHasCause /\ GraceOverSession
  BY DEF SessionInv, Registered, GraceOverSession
<1>2. QED
  BY <1>1, InitType, NextType, InitSession, NextSession, PTL DEF Spec

\* The grace timer runs only over a registered session (index.ts 221-243), so it takes
\* no broadcast off the air but the one whose end started it.
THEOREM GraceTimerHasSession == Spec => []GraceOverSession
<1>1. LiveHasCause /\ GraceOverSession => GraceOverSession
  OBVIOUS
<1>2. QED
  BY <1>1, LiveIsCaused, PTL

-----------------------------------------------------------------------------
(* Keys only go forward.                                                   *)

KeyInv ==
  /\ lastAdmitted <= settings.key
  /\ currentKey <= settings.key
  /\ currentKey = NoKey \/ lastAdmitted <= currentKey

LEMMA NextKey ==
  TypeInv /\ KeyInv /\ [Next]_vars => KeyInv' /\ (lastAdmitted' >= lastAdmitted)
<1> SUFFICES ASSUME TypeInv, KeyInv, [Next]_vars PROVE KeyInv' /\ (lastAdmitted' >= lastAdmitted)
  OBVIOUS
<1>a. settings.key \in Nat /\ lastAdmitted \in Nat /\ currentKey \in Nat
  BY BoundsAssumption DEF TypeInv, TypeOK, SettingsOK, ServiceOK, HistoryOK
<1>1. CASE RotateKey
  <2>1. settings'.key = settings.key + 1 /\ UNCHANGED <<currentKey, lastAdmitted>>
    BY <1>1 DEF RotateKey, loaded, TypeInv, TypeOK, SettingsOK
  <2>2. QED
    BY <2>1, <1>a DEF KeyInv
<1>2. CASE \E a \in App, l \in BOOLEAN : SetStream(a, l)
  <2>1. settings'.key = settings.key /\ UNCHANGED <<currentKey, lastAdmitted>>
    BY <1>2 DEF SetStream, loaded, TypeInv, TypeOK, SettingsOK
  <2>2. QED
    BY <2>1, <1>a DEF KeyInv
<1>3. CASE \E p \in Path : Publish(p)
  <2>1. /\ currentKey # NoKey /\ lastAdmitted' = currentKey
        /\ UNCHANGED <<settings, currentKey>>
    BY <1>3 DEF Publish, ValidPublish, config, loaded
  <2>2. QED
    BY <2>1, <1>a DEF KeyInv
<1>4. CASE RefreshStreamConfig
  <2>1. currentKey' = settings.key /\ UNCHANGED <<settings, lastAdmitted>>
    BY <1>4 DEF RefreshStreamConfig, config, ghosts
  <2>2. QED
    BY <2>1, <1>a DEF KeyInv
<1>5. CASE Crash
  <2>1. currentKey' = NoKey /\ UNCHANGED <<settings, lastAdmitted>>
    BY <1>5 DEF Crash, config
  <2>2. QED
    BY <2>1, <1>a DEF KeyInv, NoKey
<1>6. CASE Restart
  <2>1. (currentKey' = settings.key \/ currentKey' = currentKey) /\ UNCHANGED <<settings, lastAdmitted>>
    BY <1>6 DEF Restart, config, loaded, ghosts
  <2>2. QED
    BY <2>1, <1>a DEF KeyInv
<1>7. CASE \/ PostPublish \/ DonePublish \/ GraceExpires \/ PostPlay \/ DonePlay
           \/ PeriodicBroadcast \/ UNCHANGED vars
           \/ \E p \in Path : Unpublish(p) \/ ReleaseSlot(p)
           \/ \E t \in Tv : \/ OpenFlv(t) \/ CloseFlv(t) \/ DeliverEvent(t)
                            \/ StatusAnswered(t) \/ PollApplied(t) \/ PollLost(t)
  <2>1. UNCHANGED <<settings, currentKey, lastAdmitted>>
    BY <1>7 DEF PostPublish, DonePublish, GraceExpires, PostPlay, DonePlay, PeriodicBroadcast,
         vars, Unpublish, ReleaseSlot, OpenFlv, CloseFlv, DeliverEvent, StatusAnswered,
         PollApplied, PollLost, config, loaded, ghosts
  <2>2. QED
    BY <2>1, <1>a DEF KeyInv
<1>8. QED
  BY <1>1, <1>2, <1>3, <1>4, <1>5, <1>6, <1>7 DEF Next

\* After a publication with a newer key was admitted none with an older one is,
\* through any crashes and missed refreshes (index.ts 90-113, 190-199).
THEOREM KeysOnlyGoForward == Spec => RotationIsOneWay
<1>1. Init => KeyInv
  <2> SUFFICES ASSUME Init PROVE KeyInv
    OBVIOUS
  <2>1. settings.key \in Nat /\ currentKey = settings.key /\ lastAdmitted = 0
    BY BoundsAssumption DEF Init, NoKey
  <2>2. QED
    BY <2>1 DEF KeyInv
<1>2. TypeInv /\ KeyInv /\ [Next]_vars => [lastAdmitted' >= lastAdmitted]_vars
  BY NextKey
<1>3. QED
  BY <1>1, <1>2, InitType, NextType, NextKey, PTL DEF Spec, RotationIsOneWay

-----------------------------------------------------------------------------
(* The viewers the service counts.                                         *)

\* The last hook about a television says whether its pull is open; when there is
\* none, the service already knows.
LastHookKnows ==
  \A t \in Tv, i \in 1..Len(notify) :
    /\ IsAbout(notify[i], t)
    /\ \A j \in 1..Len(notify) : i < j => ~IsAbout(notify[j], t)
    => (notify[i].act = "postPlay" <=> flv[t] # NoPath)

ViewerInv == LastHookKnows /\ ViewersMatchPulls

\* A hook about no television changes nothing.
LEMMA ViewerGrowsOther ==
  ASSUME notify \in Seq(Hook), ViewerInv, NEW h \in Hook, notify' = Append(notify, h),
         h.act \notin {"postPlay", "donePlay"}, UNCHANGED <<flv, playSessions>>
  PROVE  ViewerInv'
<1>1. /\ Len(notify) \in Nat /\ Len(notify') = Len(notify) + 1
      /\ \A i \in 1..Len(notify) : notify'[i] = notify[i]
      /\ notify'[Len(notify) + 1] = h
  BY QueueGrows
<1>2. \A t \in Tv, i \in 1..Len(notify') :
        IsAbout(notify'[i], t) => i \in 1..Len(notify) /\ IsAbout(notify[i], t)
  BY <1>1 DEF IsAbout
<1>3. \A t \in Tv, i \in 1..Len(notify) : IsAbout(notify[i], t) => IsAbout(notify'[i], t)
  BY <1>1
<1>4. 1..Len(notify) \subseteq 1..Len(notify')
  BY <1>1
<1>5. LastHookKnows'
  <2> SUFFICES ASSUME NEW t \in Tv, NEW i \in 1..Len(notify'), IsAbout(notify'[i], t),
                      \A j \in 1..Len(notify') : i < j => ~IsAbout(notify'[j], t)
               PROVE  notify'[i].act = "postPlay" <=> flv'[t] # NoPath
    BY DEF LastHookKnows
  <2>1. i \in 1..Len(notify) /\ IsAbout(notify[i], t) /\ notify'[i] = notify[i]
    BY <1>1, <1>2
  <2>2. \A j \in 1..Len(notify) : i < j => ~IsAbout(notify[j], t)
    BY <1>3, <1>4
  <2>3. QED
    BY <2>1, <2>2 DEF ViewerInv, LastHookKnows
<1>6. ViewersMatchPulls'
  BY <1>3, <1>4 DEF ViewerInv, ViewersMatchPulls
<1>7. QED
  BY <1>5, <1>6 DEF ViewerInv

\* A hook about television t says what has just become of its pull.
LEMMA ViewerGrows ==
  ASSUME notify \in Seq(Hook), ViewerInv, NEW t \in Tv, NEW h \in Hook, IsAbout(h, t),
         notify' = Append(notify, h), UNCHANGED playSessions,
         h.act = "postPlay" <=> flv'[t] # NoPath,
         \A u \in Tv \ {t} : flv'[u] = flv[u]
  PROVE  ViewerInv'
<1>1. /\ Len(notify) \in Nat /\ Len(notify') = Len(notify) + 1
      /\ \A i \in 1..Len(notify) : notify'[i] = notify[i]
      /\ notify'[Len(notify) + 1] = h
  BY QueueGrows
<1>2. Len(notify) + 1 \in 1..Len(notify') /\ 1..Len(notify) \subseteq 1..Len(notify')
  BY <1>1
<1>3. \A u \in Tv : IsAbout(h, u) => u = t
  BY DEF IsAbout
<1>4. \A i \in 1..Len(notify') : i = Len(notify) + 1 \/ (i \in 1..Len(notify) /\ i < Len(notify) + 1)
  BY <1>1
<1>5. LastHookKnows'
  <2> SUFFICES ASSUME NEW u \in Tv, NEW i \in 1..Len(notify'), IsAbout(notify'[i], u),
                      \A j \in 1..Len(notify') : i < j => ~IsAbout(notify'[j], u)
               PROVE  notify'[i].act = "postPlay" <=> flv'[u] # NoPath
    BY DEF LastHookKnows
  <2>1. CASE u = t
    <3>1. i = Len(notify) + 1
      BY <2>1, <1>1, <1>2, <1>4
    <3>2. QED
      BY <2>1, <3>1, <1>1
  <2>2. CASE u # t
    <3>1. i \in 1..Len(notify) /\ notify'[i] = notify[i] /\ IsAbout(notify[i], u)
      BY <2>2, <1>1, <1>3, <1>4
    <3>2. \A j \in 1..Len(notify) : i < j => ~IsAbout(notify[j], u)
      BY <1>1, <1>2
    <3>3. flv'[u] = flv[u]
      BY <2>2
    <3>4. QED
      BY <3>1, <3>2, <3>3 DEF ViewerInv, LastHookKnows
  <2>3. QED
    BY <2>1, <2>2
<1>6. ViewersMatchPulls'
  <2> SUFFICES ASSUME NEW u \in Tv, \A i \in 1..Len(notify') : ~IsAbout(notify'[i], u)
               PROVE  u \in playSessions' <=> flv'[u] # NoPath
    BY DEF ViewersMatchPulls
  <2>1. u # t
    BY <1>1, <1>2
  <2>2. \A i \in 1..Len(notify) : ~IsAbout(notify[i], u)
    BY <1>1, <1>2
  <2>3. QED
    BY <2>1, <2>2 DEF ViewerInv, ViewersMatchPulls
<1>7. QED
  BY <1>5, <1>6 DEF ViewerInv

\* Handling a hook: what it says is remembered, if it is about a television.
LEMMA ViewerShrinks ==
  ASSUME notify \in Seq(Hook), ViewerInv, notify # << >>, notify' = Tail(notify), UNCHANGED flv,
         \A t \in Tv : ~IsAbout(Head(notify), t) => (t \in playSessions' <=> t \in playSessions),
         \A t \in Tv : IsAbout(Head(notify), t)
                         => (t \in playSessions' <=> Head(notify).act = "postPlay")
  PROVE  ViewerInv'
<1>1. /\ Len(notify) \in Nat \ {0} /\ Len(notify') = Len(notify) - 1
      /\ \A i \in 1..Len(notify') : notify'[i] = notify[i + 1]
      /\ Head(notify) = notify[1]
  BY QueueShrinks
<1>2. \A i \in 1..Len(notify) :
        i = 1 \/ (i > 1 /\ i - 1 \in 1..Len(notify') /\ notify'[i - 1] = notify[i])
  <2> SUFFICES ASSUME NEW i \in 1..Len(notify), i # 1
               PROVE  i > 1 /\ i - 1 \in 1..Len(notify') /\ notify'[i - 1] = notify[i]
    OBVIOUS
  <2>1. i > 1 /\ i - 1 \in 1..Len(notify') /\ (i - 1) + 1 = i
    BY <1>1
  <2>2. QED
    BY <1>1, <2>1
<1>3. LastHookKnows'
  <2> SUFFICES ASSUME NEW t \in Tv, NEW i \in 1..Len(notify'), IsAbout(notify'[i], t),
                      \A j \in 1..Len(notify') : i < j => ~IsAbout(notify'[j], t)
               PROVE  notify'[i].act = "postPlay" <=> flv'[t] # NoPath
    BY DEF LastHookKnows
  <2>1. i + 1 \in 1..Len(notify) /\ notify'[i] = notify[i + 1]
    BY <1>1
  <2>2. \A j \in 1..Len(notify) : i + 1 < j => ~IsAbout(notify[j], t)
    <3> SUFFICES ASSUME NEW j \in 1..Len(notify), i + 1 < j PROVE ~IsAbout(notify[j], t)
      OBVIOUS
    <3>1. j - 1 \in 1..Len(notify') /\ notify'[j - 1] = notify[j] /\ i < j - 1
      BY <1>2
    <3>2. QED
      BY <3>1
  <2>3. QED
    BY <2>1, <2>2 DEF ViewerInv, LastHookKnows
<1>4. ViewersMatchPulls'
  <2> SUFFICES ASSUME NEW t \in Tv, \A i \in 1..Len(notify') : ~IsAbout(notify'[i], t)
               PROVE  t \in playSessions' <=> flv[t] # NoPath
    BY DEF ViewersMatchPulls
  <2>1. \A i \in 1..Len(notify) : i # 1 => ~IsAbout(notify[i], t)
    BY <1>2
  <2>2. CASE IsAbout(Head(notify), t)
    <3>1. 1 \in 1..Len(notify) /\ \A j \in 1..Len(notify) : 1 < j => ~IsAbout(notify[j], t)
      BY <1>1, <2>1
    <3>2. Head(notify).act = "postPlay" <=> flv[t] # NoPath
      BY <1>1, <2>2, <3>1 DEF ViewerInv, LastHookKnows
    <3>3. QED
      BY <2>2, <3>2
  <2>3. CASE ~IsAbout(Head(notify), t)
    <3>1. \A i \in 1..Len(notify) : ~IsAbout(notify[i], t)
      BY <1>1, <2>1, <2>3
    <3>2. QED
      BY <2>3, <3>1 DEF ViewerInv, ViewersMatchPulls
  <2>4. QED
    BY <2>2, <2>3
<1>5. QED
  BY <1>3, <1>4 DEF ViewerInv

LEMMA InitViewer == Init => ViewerInv
  BY DEF Init, ViewerInv, LastHookKnows, ViewersMatchPulls

LEMMA NextViewer == TypeInv /\ ViewerInv /\ [Next]_vars => ViewerInv'
<1> SUFFICES ASSUME TypeInv, ViewerInv, [Next]_vars PROVE ViewerInv'
  OBVIOUS
<1>a. /\ notify \in Seq(Hook) /\ MediaOK /\ SlotIds
      /\ flv \in [Tv -> Path \cup {NoPath}]
  BY DEF TypeInv, TypeOK, MediaOK
<1>b. ASSUME UNCHANGED <<notify, flv, playSessions>> PROVE ViewerInv'
  BY <1>b DEF ViewerInv, LastHookKnows, ViewersMatchPulls
<1>1. CASE \/ RotateKey \/ RefreshStreamConfig \/ GraceExpires \/ PeriodicBroadcast \/ Restart
           \/ \E a \in App, l \in BOOLEAN : SetStream(a, l)
           \/ \E p \in Path : Unpublish(p)
           \/ \E t \in Tv : DeliverEvent(t) \/ StatusAnswered(t) \/ PollApplied(t) \/ PollLost(t)
           \/ UNCHANGED vars
  <2>1. UNCHANGED <<notify, flv, playSessions>>
    BY <1>1 DEF RotateKey, RefreshStreamConfig, GraceExpires, PeriodicBroadcast, Restart, SetStream,
         Unpublish, DeliverEvent, StatusAnswered, PollApplied, PollLost, vars, media
  <2>2. QED
    BY <2>1, <1>b
<1>2. CASE \E p \in Path : Publish(p)
  <2>1. PICK p \in Path : Publish(p)
    BY <1>2
  <2>2. [act |-> "postPublish", id |-> nextSession'] \in Hook
    BY <2>1, <1>a, BoundsAssumption DEF Publish, MediaOK, Hook, Publishing
  <2>3. /\ notify' = Append(notify, [act |-> "postPublish", id |-> nextSession'])
        /\ UNCHANGED <<flv, playSessions>>
    BY <2>1 DEF Publish
  <2>4. QED
    BY <2>2, <2>3, <1>a, ViewerGrowsOther
<1>3. CASE \E p \in Path : ReleaseSlot(p)
  <2>1. PICK p \in Path : ReleaseSlot(p)
    BY <1>3
  <2>2. [act |-> "donePublish", id |-> nms[p].id] \in Hook
    BY <2>1, <1>a DEF Hook, Publishing, ReleaseSlot, SlotIds, Occupied
  <2>3. /\ notify' = Append(notify, [act |-> "donePublish", id |-> nms[p].id])
        /\ UNCHANGED <<flv, playSessions>>
    BY <2>1 DEF ReleaseSlot
  <2>4. QED
    BY <2>2, <2>3, <1>a, ViewerGrowsOther
<1>4. CASE \E t \in Tv : OpenFlv(t)
  <2>1. PICK t \in Tv : OpenFlv(t)
    BY <1>4
  <2> DEFINE h == [act |-> "postPlay", id |-> t]
  <2>2. h \in Hook /\ IsAbout(h, t) /\ h.act = "postPlay"
    BY DEF Hook, Playing, IsAbout
  <2>3. flv'[t] # NoPath /\ \A u \in Tv \ {t} : flv'[u] = flv[u]
    BY <2>1, <1>a, BoundsAssumption DEF OpenFlv, Path, NoPath, NoKey
  <2>4. notify' = Append(notify, h) /\ UNCHANGED playSessions
    BY <2>1 DEF OpenFlv
  <2> HIDE DEF h
  <2>5. QED
    BY <2>2, <2>3, <2>4, <1>a, ViewerGrows
<1>5. CASE \E t \in Tv : CloseFlv(t)
  <2>1. PICK t \in Tv : CloseFlv(t)
    BY <1>5
  <2> DEFINE h == [act |-> "donePlay", id |-> t]
  <2>2. h \in Hook /\ IsAbout(h, t) /\ h.act # "postPlay"
    BY DEF Hook, Playing, IsAbout
  <2>3. flv'[t] = NoPath /\ \A u \in Tv \ {t} : flv'[u] = flv[u]
    BY <2>1, <1>a DEF CloseFlv
  <2>4. notify' = Append(notify, h) /\ UNCHANGED playSessions
    BY <2>1 DEF CloseFlv
  <2> HIDE DEF h
  <2>5. QED
    BY <2>2, <2>3, <2>4, <1>a, ViewerGrows
<1>6. CASE PostPublish \/ DonePublish
  <2>1. /\ notify # << >> /\ notify' = Tail(notify) /\ UNCHANGED <<flv, playSessions>>
        /\ Head(notify).act \notin {"postPlay", "donePlay"}
    BY <1>6 DEF PostPublish, DonePublish, NextHook
  <2>2. \A t \in Tv : ~IsAbout(Head(notify), t)
    BY <2>1 DEF IsAbout
  <2>3. QED
    BY <2>1, <2>2, <1>a, ViewerShrinks
<1>7. CASE PostPlay
  <2>1. /\ notify # << >> /\ notify' = Tail(notify) /\ UNCHANGED flv
        /\ Head(notify).act = "postPlay"
        /\ playSessions' = playSessions \cup {Head(notify).id}
    BY <1>7 DEF PostPlay, NextHook
  <2>2. \A t \in Tv : IsAbout(Head(notify), t) <=> Head(notify).id = t
    BY <2>1 DEF IsAbout
  <2>3. QED
    BY <2>1, <2>2, <1>a, ViewerShrinks
<1>8. CASE DonePlay
  <2>1. /\ notify # << >> /\ notify' = Tail(notify) /\ UNCHANGED flv
        /\ Head(notify).act = "donePlay"
        /\ playSessions' = playSessions \ {Head(notify).id}
    BY <1>8 DEF DonePlay, NextHook
  <2>2. \A t \in Tv : IsAbout(Head(notify), t) <=> Head(notify).id = t
    BY <2>1 DEF IsAbout
  <2>3. QED
    BY <2>1, <2>2, <1>a, ViewerShrinks
<1>9. CASE Crash
  <2>1. notify' = << >> /\ playSessions' = {} /\ \A t \in Tv : flv'[t] = NoPath
    BY <1>9 DEF Crash
  <2>2. QED
    BY <2>1 DEF ViewerInv, LastHookKnows, ViewersMatchPulls
<1>10. QED
  BY <1>1, <1>2, <1>3, <1>4, <1>5, <1>6, <1>7, <1>8, <1>9 DEF Next

\* The viewers the panel shows are the open pulls, once the hooks about them have been
\* handled, for any number of televisions (index.ts 245-258).
THEOREM ViewersAreCounted == Spec => []ViewersMatchPulls
<1>1. ViewerInv => ViewersMatchPulls
  BY DEF ViewerInv
<1>2. QED
  BY <1>1, InitType, NextType, InitViewer, NextViewer, PTL DEF Spec

-----------------------------------------------------------------------------
(* What a television believes, while the flag of the service rests.        *)

\* Where the flag of the service is read (StatusAnswered), it is off when nothing runs.
DownIsOff == ~up => ~live

\* No event that contradicts the flag is under way to a television behind the first n.
StaleWithin(t, n) == \A i \in 1..Len(chan[t]) : i > n => chan[t][i] = Word(live)

\* Nothing under way to a television contradicts the flag.
Fresh(t) == StaleWithin(t, 0) /\ poll[t] \in {"none", Word(live)}

\* While the flag of the source rests, what contradicts it on the way to a television only drains, an
\* event at a time; once it has drained, whatever arrives agrees with the flag, and a
\* television that agrees with it goes on to do so.
DrainsAt(t) ==
  /\ \A n \in Nat : StaleWithin(t, n) =>
       /\ StaleWithin(t, n)'
       /\ DeliverEvent(t) /\ n > 0 => StaleWithin(t, n - 1)'
  /\ Fresh(t) =>
       /\ Fresh(t)'
       /\ DeliverEvent(t) \/ PollApplied(t) => serverLive'[t] = Word(live)
       /\ serverLive[t] = Word(live) => serverLive'[t] = Word(live)

AgreementLasts == [][settings.local /\ (live' <=> live) => \A t \in Tv : DrainsAt(t)]_vars

\* What the service may send: nothing, or the flag it has now.
SendsTo(t) == chan'[t] = chan[t] \/ chan'[t] = Append(chan[t], Word(live'))

LEMMA BroadcastSends ==
  ASSUME chan \in [Tv -> Seq({"live", "off"})], NEW b \in BOOLEAN, Broadcast(b), live' = b
  PROVE  \A t \in Tv : SendsTo(t)
<1>1. PICK got \in SUBSET Tv :
        chan' = [t \in Tv |-> IF t \in got /\ Len(chan[t]) < MaxChan
                              THEN Append(chan[t], Word(b)) ELSE chan[t]]
  BY DEF Broadcast
<1>2. Word(live') = Word(b)
  OBVIOUS
<1>3. QED
  BY <1>1, <1>2 DEF SendsTo

LEMMA NextDown == DownIsOff /\ [Next]_vars => DownIsOff'
<1> SUFFICES ASSUME DownIsOff, [Next]_vars PROVE DownIsOff'
  OBVIOUS
<1>1. CASE UNCHANGED <<up, live>>
  BY <1>1 DEF DownIsOff
<1>2. CASE up'
  BY <1>2 DEF DownIsOff
<1>3. CASE ~live'
  BY <1>3 DEF DownIsOff
<1>4. UNCHANGED <<up, live>> \/ up' \/ ~live'
  <2>1. CASE \/ RotateKey \/ RefreshStreamConfig \/ DonePublish
             \/ PostPlay \/ DonePlay \/ PeriodicBroadcast
    BY <2>1 DEF RotateKey, RefreshStreamConfig, DonePublish, PostPlay, DonePlay, PeriodicBroadcast,
                session
  <2>2. CASE PostPublish \/ GraceExpires \/ Crash \/ Restart
    <3>1. CASE PostPublish
      <4>1. up /\ up' = up
        BY <3>1 DEF PostPublish, NextHook
      <4>2. up'
        BY <4>1, Zenon
      <4>3. QED
        BY <4>2
    <3>2. CASE GraceExpires \/ Crash
      <4>1. ~live'
        BY <3>2 DEF GraceExpires, Crash
      <4>2. QED
        BY <4>1
    <3>3. CASE Restart
      <4>1. up'
        BY <3>3 DEF Restart
      <4>2. QED
        BY <4>1
    <3>4. QED
      BY <2>2, <3>1, <3>2, <3>3
  <2>3. CASE \/ \E a \in App, l \in BOOLEAN : SetStream(a, l)
             \/ \E p \in Path : Publish(p) \/ Unpublish(p) \/ ReleaseSlot(p)
    BY <2>3 DEF SetStream, Publish, Unpublish, ReleaseSlot, session
  <2>4. CASE \E t \in Tv : OpenFlv(t) \/ CloseFlv(t) \/ DeliverEvent(t) \/ StatusAnswered(t)
                           \/ PollApplied(t) \/ PollLost(t)
    BY <2>4 DEF OpenFlv, CloseFlv, DeliverEvent, StatusAnswered, PollApplied, PollLost, session
  <2>5. CASE UNCHANGED vars
    BY <2>5 DEF vars, session
  <2>6. QED
    BY <2>1, <2>2, <2>3, <2>4, <2>5 DEF Next
<1>5. QED
  BY <1>1, <1>2, <1>3, <1>4

\* The events that the service sends leave nothing staler under way.
LEMMA SendsFresh ==
  ASSUME TypeInv, NEW t \in Tv, SendsTo(t), live' <=> live, NEW n \in Nat, StaleWithin(t, n)
  PROVE  StaleWithin(t, n)'
<1>1. chan[t] \in Seq({"live", "off"}) /\ Word(live) \in {"live", "off"} /\ Word(live') = Word(live)
  BY DEF TypeInv, TypeOK, ScreensOK, Word
<1>2. CASE chan'[t] = chan[t]
  BY <1>1, <1>2 DEF StaleWithin
<1>3. CASE chan'[t] = Append(chan[t], Word(live'))
  <2>1. /\ Len(chan[t]) \in Nat /\ Len(chan'[t]) = Len(chan[t]) + 1
        /\ \A i \in 1..Len(chan[t]) : chan'[t][i] = chan[t][i]
        /\ chan'[t][Len(chan[t]) + 1] = Word(live)
    BY <1>1, <1>3, AppendProperties, LenProperties
  <2>2. \A i \in 1..Len(chan'[t]) : i \in 1..Len(chan[t]) \/ i = Len(chan[t]) + 1
    BY <2>1
  <2>3. \A i \in 1..Len(chan'[t]) : i > n => chan'[t][i] = Word(live)
    BY <2>1, <2>2 DEF StaleWithin
  <2>4. QED
    BY <2>3, <1>1 DEF StaleWithin
<1>4. QED
  BY <1>2, <1>3 DEF SendsTo

\* An event that is handled was the first of those under way.
LEMMA DeliverDrains ==
  ASSUME TypeInv, live' <=> live, NEW t \in Tv, DeliverEvent(t), NEW n \in Nat, StaleWithin(t, n)
  PROVE  /\ StaleWithin(t, n)'
         /\ n > 0 => StaleWithin(t, n - 1)'
         /\ n = 0 => serverLive'[t] = Word(live)
<1>1. /\ chan[t] \in Seq({"live", "off"}) /\ chan[t] # << >> /\ chan'[t] = Tail(chan[t])
      /\ serverLive'[t] = Head(chan[t]) /\ Word(live') = Word(live)
  BY DEF TypeInv, TypeOK, ScreensOK, Word, DeliverEvent
<1>2. /\ Len(chan[t]) \in Nat \ {0} /\ Len(chan'[t]) = Len(chan[t]) - 1
      /\ Head(chan[t]) = chan[t][1]
      /\ \A i \in 1..Len(chan'[t]) : chan'[t][i] = chan[t][i + 1]
  BY <1>1, HeadTailProperties, LenProperties, EmptySeq
<1>3. \A i \in 1..Len(chan'[t]) : i + 1 > n => chan'[t][i] = Word(live)
  <2>1. ASSUME NEW i \in 1..Len(chan'[t]) PROVE i + 1 \in 1..Len(chan[t])
    BY <1>2
  <2>2. QED
    BY <2>1, <1>2 DEF StaleWithin
<1>4. StaleWithin(t, n)' /\ (n > 0 => StaleWithin(t, n - 1)')
  <2>1. \A i \in 1..Len(chan'[t]) : i \in Nat /\ (i > n => i + 1 > n) /\ (i > n - 1 => i + 1 > n)
    BY <1>2
  <2>2. QED
    BY <2>1, <1>1, <1>3 DEF StaleWithin
<1>5. n = 0 => serverLive'[t] = Word(live)
  BY <1>1, <1>2 DEF StaleWithin
<1>6. QED
  BY <1>4, <1>5

LEMMA OthersKeep ==
  ASSUME TypeInv, live' <=> live, NEW t \in Tv, ~DeliverEvent(t), SendsTo(t),
         poll'[t] \in {poll[t], "none", Word(live)},
         serverLive'[t] = serverLive[t] \/ PollApplied(t)
  PROVE  DrainsAt(t)
<1>1. Word(live') = Word(live)
  BY DEF TypeInv, TypeOK, ServiceOK, Word
<1>2. \A n \in Nat : StaleWithin(t, n) => StaleWithin(t, n)'
  BY SendsFresh
<1>3. ASSUME Fresh(t) PROVE Fresh(t)'
  BY <1>1, <1>2, <1>3 DEF Fresh
<1>4. ASSUME Fresh(t), PollApplied(t) PROVE serverLive'[t] = Word(live)
  BY <1>4 DEF Fresh, PollApplied, TypeInv, TypeOK, ScreensOK
<1>5. QED
  BY <1>2, <1>3, <1>4 DEF DrainsAt

\* While the flag rests, every television of the local source drains towards it and then stays with it,
\* whatever events are lost and however late an answer is (index.ts 138-163, TvDisplay.tsx
\* 205-207, 246-266): a late answer or an old event overwrites a newer one at most once
\* for each that was under way when the flag came to rest. That they arrive at all is
\* TvConverges.
THEOREM TvsDrain == Spec => AgreementLasts
<1>1. Init => DownIsOff
  BY DEF Init, DownIsOff
<1>2. TypeInv /\ DownIsOff /\ [Next]_vars
        => [settings.local /\ (live' <=> live) => \A t \in Tv : DrainsAt(t)]_vars
  <2> SUFFICES ASSUME TypeInv, DownIsOff, Next, settings.local, live' <=> live, NEW u \in Tv
               PROVE  DrainsAt(u)
    OBVIOUS
  <2>1. /\ chan \in [Tv -> Seq({"live", "off"})] /\ poll \in [Tv -> {"none", "live", "off", "unknown"}]
        /\ serverLive \in [Tv -> {"unknown", "live", "off"}]
        /\ Word(live') = Word(live)
    BY DEF TypeInv, TypeOK, ScreensOK, ServiceOK, Word
  <2>2. CASE DeliverEvent(u)
    <3>1. /\ \A n \in Nat : StaleWithin(u, n) =>
                StaleWithin(u, n)' /\ (n > 0 => StaleWithin(u, n - 1)')
          /\ StaleWithin(u, 0) => serverLive'[u] = Word(live)
      BY <2>2, DeliverDrains
    <3>2. poll' = poll
      BY <2>2 DEF DeliverEvent
    <3>3. Fresh(u) => Fresh(u)'
      BY <2>1, <3>1, <3>2 DEF Fresh
    <3>4. QED
      BY <3>1, <3>3 DEF DrainsAt, Fresh
  <2>3. ASSUME ~DeliverEvent(u), \A t \in Tv : SendsTo(t), UNCHANGED screens PROVE DrainsAt(u)
    BY <2>3, OthersKeep DEF screens
  <2>4. CASE ~DeliverEvent(u) /\ \E t \in Tv : DeliverEvent(t)
    <3>1. PICK t \in Tv : DeliverEvent(t)
      BY <2>4
    <3>2. t # u
      BY <2>4, <3>1
    <3>3. SendsTo(u) /\ serverLive'[u] = serverLive[u] /\ poll' = poll
      BY <2>1, <3>1, <3>2 DEF DeliverEvent, SendsTo
    <3>4. QED
      BY <2>4, <3>3, OthersKeep
  <2>5. CASE ~DeliverEvent(u) /\ \E t \in Tv : StatusAnswered(t)
    <3>1. PICK t \in Tv : StatusAnswered(t)
      BY <2>5
    <3>2. Word(up /\ live) = Word(live)
      BY DEF DownIsOff, Word
    <3>3. SendsTo(u) /\ serverLive' = serverLive /\ poll'[u] \in {poll[u], "none", Word(live)}
      BY <2>1, <3>1, <3>2 DEF StatusAnswered, SendsTo
    <3>4. QED
      BY <2>5, <3>3, OthersKeep
  <2>6. CASE ~DeliverEvent(u) /\ \E t \in Tv : PollApplied(t)
    <3>1. PICK t \in Tv : PollApplied(t)
      BY <2>6
    <3>2. /\ SendsTo(u) /\ poll'[u] \in {poll[u], "none", Word(live)}
          /\ serverLive'[u] = serverLive[u] \/ PollApplied(u)
      BY <2>1, <3>1 DEF PollApplied, SendsTo
    <3>3. QED
      BY <2>6, <3>2, OthersKeep
  <2>7. CASE ~DeliverEvent(u) /\ \E t \in Tv : PollLost(t)
    <3>1. PICK t \in Tv : PollLost(t)
      BY <2>7
    <3>2. SendsTo(u) /\ serverLive' = serverLive /\ poll'[u] \in {poll[u], "none", Word(live)}
      BY <2>1, <3>1 DEF PollLost, SendsTo
    <3>3. QED
      BY <2>7, <3>2, OthersKeep
  <2>8. CASE ~DeliverEvent(u) /\ UNCHANGED <<chan, screens>>
    <3>1. \A t \in Tv : SendsTo(t)
      BY <2>8 DEF SendsTo
    <3>2. QED
      BY <2>3, <2>8, <3>1
  <2>9. CASE ~DeliverEvent(u) /\ \E b \in BOOLEAN : Broadcast(b) /\ live' = b /\ UNCHANGED screens
    <3>1. \A t \in Tv : SendsTo(t)
      BY <2>1, <2>9, BroadcastSends
    <3>2. QED
      BY <2>3, <2>9, <3>1
  <2>10. \/ UNCHANGED <<chan, screens>>
         \/ \E b \in BOOLEAN : Broadcast(b) /\ live' = b /\ UNCHANGED screens
         \/ \E t \in Tv : DeliverEvent(t) \/ StatusAnswered(t) \/ PollApplied(t) \/ PollLost(t)
    <3>1. CASE PostPublish
      BY <3>1 DEF PostPublish
    <3>2. CASE GraceExpires
      BY <3>2 DEF GraceExpires
    <3>3. CASE PostPlay \/ DonePlay \/ PeriodicBroadcast
      <4>1. Broadcast(live) /\ UNCHANGED session /\ UNCHANGED screens /\ live \in BOOLEAN
        BY <3>3 DEF PostPlay, DonePlay, PeriodicBroadcast, TypeInv, TypeOK, ServiceOK
      <4>2. QED
        BY <4>1 DEF session
    <3>4. CASE Restart
      <4>1. Broadcast(FALSE) /\ UNCHANGED session /\ UNCHANGED screens /\ ~live /\ live \in BOOLEAN
        BY <3>4 DEF Restart, DownIsOff, TypeInv, TypeOK, ServiceOK
      <4>2. live' = FALSE
        BY <4>1 DEF session
      <4>3. QED
        BY <4>1, <4>2
    <3>5. QED
      BY <3>1, <3>2, <3>3, <3>4
      DEF Next, RotateKey, SetStream, Publish, Unpublish, ReleaseSlot, OpenFlv, CloseFlv,
          RefreshStreamConfig, DonePublish, Crash
  <2>11. QED
    BY <2>2, <2>4, <2>5, <2>6, <2>7, <2>8, <2>9, <2>10
<1>3. QED
  BY <1>1, <1>2, NextDown, InitType, NextType, PTL DEF Spec, AgreementLasts

-----------------------------------------------------------------------------
(* The service and the wires to the televisions implement LiveBroadcast.   *)

Starts(i) == i \in 1..Len(notify) /\ notify[i].act = "postPublish"

\* Publications are announced in the order of their sessions, each once, and all those
\* still to be announced are younger than the one on the air.
InOrder ==
  /\ sessionId <= nextSession
  /\ \A i \in 1..Len(notify) : Starts(i) => sessionId < notify[i].id /\ notify[i].id <= nextSession
  /\ \A i, j \in 1..Len(notify) : i < j /\ Starts(i) /\ Starts(j) => notify[i].id < notify[j].id

\* The sessions of the announcements are numbers.
LEMMA StartIds ==
  ASSUME notify \in Seq(Hook), NEW i \in 1..Len(notify), Starts(i)
  PROVE  notify[i].id \in 1..MaxSession
<1>1. notify[i] \in Hook
  BY LenProperties
<1>2. QED
  BY <1>1 DEF Starts, Hook, Publishing, Playing

LEMMA OrderGrows ==
  ASSUME TypeInv, InOrder, NEW h \in Hook, notify' = Append(notify, h),
         UNCHANGED sessionId, nextSession' \in Nat, nextSession <= nextSession',
         h.act = "postPublish" => h.id = nextSession' /\ nextSession < nextSession'
  PROVE  InOrder'
<1>1. notify \in Seq(Hook) /\ nextSession \in Nat /\ sessionId \in Nat
  BY BoundsAssumption DEF TypeInv, TypeOK, MediaOK, ServiceOK
<1>2. /\ Len(notify) \in Nat /\ Len(notify') = Len(notify) + 1
      /\ \A i \in 1..Len(notify) : notify'[i] = notify[i]
      /\ notify'[Len(notify) + 1] = h
  BY <1>1, QueueGrows
<1>3. \A i \in 1..Len(notify') : i \in 1..Len(notify) \/ i = Len(notify) + 1
  BY <1>2
<1>4. \A i \in 1..Len(notify) : Starts(i) => notify[i].id \in Nat
  BY <1>1, StartIds, BoundsAssumption
<1>5. \A i \in 1..Len(notify) : Starts(i)' => Starts(i) /\ notify'[i].id = notify[i].id
  BY <1>2 DEF Starts
<1>6. \A i \in 1..Len(notify') : i = Len(notify) + 1 /\ Starts(i)' =>
        notify'[i].id = nextSession' /\ nextSession < nextSession'
  BY <1>2 DEF Starts
<1>7. \A i \in 1..Len(notify') : Starts(i)' =>
        sessionId < notify'[i].id /\ notify'[i].id <= nextSession'
  <2>1. SUFFICES ASSUME NEW i \in 1..Len(notify'), Starts(i)'
                 PROVE  sessionId < notify'[i].id /\ notify'[i].id <= nextSession'
    OBVIOUS
  <2>2. CASE i \in 1..Len(notify)
    BY <2>1, <2>2, <1>1, <1>4, <1>5 DEF InOrder
  <2>3. CASE i = Len(notify) + 1
    <3>1. notify'[i].id = nextSession' /\ nextSession < nextSession'
      BY <2>1, <2>3, <1>6
    <3>2. QED
      BY <3>1, <1>1 DEF InOrder
  <2>4. QED
    BY <2>2, <2>3, <1>3
<1>8. \A i, j \in 1..Len(notify') :
        i < j /\ Starts(i)' /\ Starts(j)' => notify'[i].id < notify'[j].id
  <2>1. SUFFICES ASSUME NEW i \in 1..Len(notify'), NEW j \in 1..Len(notify'),
                        i < j, Starts(i)', Starts(j)'
                 PROVE  notify'[i].id < notify'[j].id
    OBVIOUS
  <2>2. i \in 1..Len(notify)
    BY <2>1, <1>2, <1>3
  <2>3. CASE j \in 1..Len(notify)
    BY <2>1, <2>2, <2>3, <1>5 DEF InOrder
  <2>4. CASE j = Len(notify) + 1
    <3>1. notify'[j].id = nextSession' /\ nextSession < nextSession'
      BY <2>1, <2>4, <1>6
    <3>2. notify'[i].id = notify[i].id /\ notify[i].id \in Nat /\ notify[i].id <= nextSession
      BY <2>1, <2>2, <1>4, <1>5 DEF InOrder
    <3>3. QED
      BY <3>1, <3>2, <1>1
  <2>5. QED
    BY <2>3, <2>4, <1>3
<1>9. sessionId' <= nextSession'
  BY <1>1 DEF InOrder
<1>10. QED
  BY <1>7, <1>8, <1>9 DEF InOrder

LEMMA OrderShrinks ==
  ASSUME TypeInv, InOrder, notify # << >>, notify' = Tail(notify), UNCHANGED nextSession,
         \/ sessionId' = sessionId
         \/ sessionId' = Head(notify).id /\ Head(notify).act = "postPublish"
  PROVE  InOrder'
<1>1. notify \in Seq(Hook) /\ nextSession \in Nat /\ sessionId \in Nat
  BY BoundsAssumption DEF TypeInv, TypeOK, MediaOK, ServiceOK
<1>2. /\ Len(notify) \in Nat \ {0} /\ Len(notify') = Len(notify) - 1
      /\ \A i \in 1..Len(notify') : notify'[i] = notify[i + 1]
      /\ Head(notify) = notify[1]
  BY <1>1, QueueShrinks
<1>3. \A i \in 1..Len(notify') : i + 1 \in 1..Len(notify) /\ 1 < i + 1
  BY <1>2
<1>4. \A i \in 1..Len(notify) : Starts(i) => notify[i].id \in Nat
  BY <1>1, StartIds, BoundsAssumption
<1>5. \A i \in 1..Len(notify') : Starts(i)' => Starts(i + 1) /\ notify'[i].id = notify[i + 1].id
  BY <1>2, <1>3 DEF Starts
<1>6. 1 \in 1..Len(notify) /\ (sessionId' # sessionId => Starts(1) /\ sessionId' = notify[1].id)
  BY <1>2 DEF Starts
<1>7. sessionId' <= nextSession'
  BY <1>1, <1>6 DEF InOrder
<1>8. \A i \in 1..Len(notify') : Starts(i)' =>
        sessionId' < notify'[i].id /\ notify'[i].id <= nextSession'
  <2>1. SUFFICES ASSUME NEW i \in 1..Len(notify'), Starts(i)'
                 PROVE  sessionId' < notify'[i].id /\ notify'[i].id <= nextSession'
    OBVIOUS
  <2>2. i + 1 \in 1..Len(notify) /\ 1 < i + 1 /\ Starts(i + 1) /\ notify'[i].id = notify[i + 1].id
    BY <2>1, <1>3, <1>5
  <2>3. CASE sessionId' = sessionId
    BY <2>2, <2>3 DEF InOrder
  <2>4. CASE sessionId' # sessionId
    BY <2>2, <2>4, <1>6 DEF InOrder
  <2>5. QED
    BY <2>3, <2>4
<1>9. \A i, j \in 1..Len(notify') :
        i < j /\ Starts(i)' /\ Starts(j)' => notify'[i].id < notify'[j].id
  <2>1. SUFFICES ASSUME NEW i \in 1..Len(notify'), NEW j \in 1..Len(notify'),
                        i < j, Starts(i)', Starts(j)'
                 PROVE  notify'[i].id < notify'[j].id
    OBVIOUS
  <2>2. i + 1 < j + 1
    BY <2>1, <1>2
  <2>3. QED
    BY <2>1, <2>2, <1>3, <1>5 DEF InOrder
<1>10. QED
  BY <1>7, <1>8, <1>9 DEF InOrder

LEMMA NextOrder == TypeInv /\ InOrder /\ [Next]_vars => InOrder'
<1> SUFFICES ASSUME TypeInv, InOrder, [Next]_vars PROVE InOrder'
  OBVIOUS
<1>a. /\ notify \in Seq(Hook) /\ nextSession \in Nat /\ sessionId \in Nat
      /\ MediaOK /\ SlotIds
  BY BoundsAssumption DEF TypeInv, TypeOK, MediaOK, ServiceOK
<1>1. CASE \/ RotateKey \/ RefreshStreamConfig \/ PeriodicBroadcast \/ Restart
           \/ \E a \in App, l \in BOOLEAN : SetStream(a, l)
           \/ \E p \in Path : Unpublish(p)
           \/ \E t \in Tv : DeliverEvent(t) \/ StatusAnswered(t) \/ PollApplied(t) \/ PollLost(t)
           \/ UNCHANGED vars
  <2>1. UNCHANGED <<notify, nextSession, sessionId>>
    BY <1>1 DEF RotateKey, RefreshStreamConfig, PeriodicBroadcast, Restart, SetStream, Unpublish,
                DeliverEvent, StatusAnswered, PollApplied, PollLost, vars, media, session
  <2>2. QED
    BY <2>1 DEF InOrder, Starts
<1>2. CASE \E p \in Path : Publish(p)
  <2>1. PICK p \in Path : Publish(p)
    BY <1>2
  <2>2. /\ nextSession' = nextSession + 1 /\ nextSession' \in 1..MaxSession
        /\ notify' = Append(notify, [act |-> "postPublish", id |-> nextSession'])
        /\ UNCHANGED sessionId
    BY <2>1, <1>a, BoundsAssumption DEF Publish, MediaOK, session
  <2>3. [act |-> "postPublish", id |-> nextSession'] \in Hook
    BY <2>2 DEF Hook, Publishing
  <2>4. QED
    BY <2>2, <2>3, <1>a, OrderGrows
<1>3. CASE \E p \in Path : ReleaseSlot(p)
  <2>1. PICK p \in Path : ReleaseSlot(p)
    BY <1>3
  <2>2. [act |-> "donePublish", id |-> nms[p].id] \in Hook
    BY <2>1, <1>a DEF Hook, Publishing, ReleaseSlot, SlotIds, Occupied
  <2>3. /\ notify' = Append(notify, [act |-> "donePublish", id |-> nms[p].id])
        /\ UNCHANGED <<nextSession, sessionId>>
    BY <2>1 DEF ReleaseSlot, session
  <2>4. QED
    BY <2>2, <2>3, <1>a, OrderGrows
<1>4. CASE \E t \in Tv : OpenFlv(t) \/ CloseFlv(t)
  <2>1. PICK t \in Tv : OpenFlv(t) \/ CloseFlv(t)
    BY <1>4
  <2>2. PICK a \in {"postPlay", "donePlay"} : notify' = Append(notify, [act |-> a, id |-> t])
    BY <2>1 DEF OpenFlv, CloseFlv
  <2>3. [act |-> a, id |-> t] \in Hook
    BY DEF Hook, Playing
  <2>4. UNCHANGED <<nextSession, sessionId>>
    BY <2>1 DEF OpenFlv, CloseFlv, session
  <2>5. QED
    BY <2>2, <2>3, <2>4, <1>a, OrderGrows
<1>5. CASE PostPublish
  <2>1. /\ notify # << >> /\ Head(notify).act = "postPublish" /\ notify' = Tail(notify)
        /\ UNCHANGED nextSession
        /\ sessionId' = sessionId \/ sessionId' = Head(notify).id
    BY <1>5 DEF PostPublish, NextHook, session
  <2>2. QED
    BY <2>1, OrderShrinks
<1>6. CASE DonePublish \/ PostPlay \/ DonePlay
  <2>1. notify # << >> /\ notify' = Tail(notify) /\ UNCHANGED <<nextSession, sessionId>>
    BY <1>6 DEF DonePublish, PostPlay, DonePlay, NextHook, session
  <2>2. QED
    BY <2>1, OrderShrinks
<1>7. CASE GraceExpires \/ Crash
  <2>1. /\ sessionId' = 0 /\ UNCHANGED nextSession
        /\ UNCHANGED notify \/ notify' = << >>
    BY <1>7 DEF GraceExpires, Crash, media, NoSession
  <2>2. \A i \in 1..Len(notify) : Starts(i) => notify[i].id \in 1..MaxSession
    BY <1>a, StartIds
  <2>3. CASE UNCHANGED notify
    <3>1. \A i \in 1..Len(notify) : Starts(i) => 0 < notify[i].id
      BY <2>2
    <3>2. QED
      BY <3>1, <2>1, <2>3, <1>a DEF InOrder, Starts
  <2>4. CASE notify' = << >>
    BY <2>1, <2>4, <1>a DEF InOrder, Starts
  <2>5. QED
    BY <2>1, <2>3, <2>4
<1>8. QED
  BY <1>1, <1>2, <1>3, <1>4, <1>5, <1>6, <1>7 DEF Next

\* The word on everything the televisions may hear next.
LEMMA StateIsWord ==
  ASSUME live \in BOOLEAN, Registered
  PROVE  Air!State = Word(live) /\ (~live => sessionId = NoSession)
  BY DEF Registered, Word, Air!State

\* Broadcasts only add the present word.
LEMMA SendsTell ==
  ASSUME TypeInv, \A t \in Tv : SendsTo(t), UNCHANGED screens,
         live' \in BOOLEAN, Registered'
  PROVE  Air!Tell
<1>1. Air!State' = Word(live')
  BY DEF Registered, Word, Air!State
<1>2. ASSUME NEW t \in Tv PROVE Told'[t] \subseteq Told[t] \cup {Word(live')}
  <2>1. chan[t] \in Seq({"live", "off"}) /\ Word(live') \in {"live", "off"} /\ poll' = poll
    BY DEF TypeInv, TypeOK, ScreensOK, Word, screens
  <2>2. \A i \in 1..Len(chan'[t]) :
          (\E h \in 1..Len(chan[t]) : chan'[t][i] = chan[t][h]) \/ chan'[t][i] = Word(live')
    <3>1. CASE chan'[t] = chan[t]
      BY <3>1
    <3>2. CASE chan'[t] = Append(chan[t], Word(live'))
      <4>1. /\ Len(chan[t]) \in Nat /\ Len(chan'[t]) = Len(chan[t]) + 1
            /\ \A i \in 1..Len(chan[t]) : chan'[t][i] = chan[t][i]
            /\ chan'[t][Len(chan[t]) + 1] = Word(live')
        BY <2>1, <3>2, AppendProperties, LenProperties
      <4>2. \A i \in 1..Len(chan'[t]) : i \in 1..Len(chan[t]) \/ i = Len(chan[t]) + 1
        BY <4>1
      <4>3. QED
        BY <4>1, <4>2
    <3>3. QED
      BY <3>1, <3>2 DEF SendsTo
  <2>3. QED
    BY <2>1, <2>2 DEF Told
<1>3. QED
  BY <1>1, <1>2 DEF Air!Tell, screens

LEMMA ToldStays == UNCHANGED <<chan, poll>> => Told' = Told
  BY DEF Told

\* The steps that change the service: each is one of the abstract service.
LEMMA ServiceRefines ==
  ASSUME TypeInv, TypeInv', Registered, Registered', InOrder, DownIsOff,
         PostPublish \/ DonePublish \/ GraceExpires \/ Crash \/ Restart
  PROVE  Air!Next \/ UNCHANGED Air!vars
<1>a. /\ notify \in Seq(Hook) /\ chan \in [Tv -> Seq({"live", "off"})]
      /\ live \in BOOLEAN /\ live' \in BOOLEAN /\ sessionId \in Nat
  BY BoundsAssumption DEF TypeInv, TypeOK, MediaOK, ServiceOK, ScreensOK
<1>b. ASSUME NEW b \in BOOLEAN, Broadcast(b), live' = b, UNCHANGED screens PROVE Air!Tell
  <2>1. \A t \in Tv : SendsTo(t)
    BY <1>a, <1>b, BroadcastSends
  <2>2. QED
    BY <1>a, <1>b, <2>1, SendsTell
<1>1. CASE PostPublish
  <2> DEFINE id == Head(notify).id
  <2>1. /\ up /\ UNCHANGED <<up, screens>> /\ notify # << >> /\ Head(notify).act = "postPublish"
    BY <1>1 DEF PostPublish, NextHook
  <2>2. 1 \in 1..Len(notify) /\ Starts(1) /\ id = notify[1].id
    BY <1>a, <2>1, HeadTailProperties, LenProperties, EmptySeq DEF Starts
  <2>3. id \in 1..MaxSession /\ sessionId < id
    BY <1>a, <2>2, StartIds DEF InOrder
  <2>4. CASE IgnoresPublisher(id)
    <3>1. UNCHANGED <<session, chan>>
      BY <1>1, <2>4 DEF PostPublish
    <3>2. UNCHANGED <<up, sessionId, graceTimer, chan, poll, serverLive>>
      BY <2>1, <3>1 DEF session, screens
    <3>3. QED
      BY <3>2, ToldStays DEF Air!vars, Air!air
  <2>5. CASE ~IgnoresPublisher(id)
    <3>1. ~graceTimer' /\ graceTimer' = FALSE /\ live' = TRUE /\ sessionId' = id /\ Broadcast(TRUE)
      BY <1>1, <2>5 DEF PostPublish
    <3>2. ~live /\ sessionId = NoSession
      <4>1. sessionId # id
        BY <1>a, <2>3, BoundsAssumption
      <4>2. ~(live /\ sessionId # NoSession)
        BY <2>5, <4>1 DEF IgnoresPublisher
      <4>3. QED
        BY <4>2 DEF Registered
    <3>3. graceTimer' = graceTimer
      <4>1. graceTimer \in BOOLEAN /\ ~graceTimer
        BY <3>2 DEF Registered, TypeInv, TypeOK, ServiceOK
      <4>2. QED
        BY <3>1, <4>1
    <3>4. Air!Tell
      BY <1>b, <2>1, <3>1
    <3>5. Air!Begin(id)
      BY <2>1, <3>1, <3>2, <3>3, <3>4 DEF Air!Begin
    <3>6. QED
      BY <2>3, <3>5 DEF Air!Next
  <2>6. QED
    BY <2>4, <2>5
<1>2. CASE DonePublish
  <2>1. /\ up /\ UNCHANGED <<up, live, sessionId, chan, screens>>
        /\ notify # << >> /\ Head(notify).act = "donePublish"
    BY <1>2 DEF DonePublish, NextHook
  <2>2. Told' = Told /\ serverLive' = serverLive
    BY <2>1, ToldStays DEF screens
  <2>3. CASE EndsSession(Head(notify).id)
    <3>1. graceTimer' = TRUE /\ graceTimer'
      BY <1>2, <2>3 DEF DonePublish
    <3>2. sessionId # NoSession
      BY <3>1, <2>1 DEF Registered
    <3>3. Air!End
      BY <2>1, <2>2, <3>1, <3>2 DEF Air!End
    <3>4. QED
      BY <3>3 DEF Air!Next
  <2>4. CASE ~EndsSession(Head(notify).id)
    <3>1. UNCHANGED graceTimer
      BY <1>2, <2>4 DEF DonePublish
    <3>2. QED
      BY <2>1, <2>2, <3>1 DEF Air!vars, Air!air
  <2>5. QED
    BY <2>3, <2>4
<1>3. CASE GraceExpires
  <2>1. /\ up /\ graceTimer /\ graceTimer' = FALSE /\ live' = FALSE /\ sessionId' = NoSession
        /\ Broadcast(FALSE) /\ UNCHANGED <<up, screens>>
    BY <1>3 DEF GraceExpires
  <2>2. Air!Tell
    BY <1>b, <2>1
  <2>3. Air!GoOff
    BY <2>1, <2>2 DEF Air!GoOff
  <2>4. QED
    BY <2>3 DEF Air!Next
<1>4. CASE Crash
  <2>1. /\ up /\ up' = FALSE /\ graceTimer' = FALSE /\ sessionId' = NoSession
        /\ UNCHANGED <<chan, screens>>
    BY <1>4 DEF Crash
  <2>2. Told' = Told /\ serverLive' = serverLive
    BY <2>1, ToldStays DEF screens
  <2>3. Air!Die
    BY <2>1, <2>2 DEF Air!Die
  <2>4. QED
    BY <2>3 DEF Air!Next
<1>5. CASE Restart
  <2>1. /\ ~up /\ up' = TRUE /\ Broadcast(FALSE)
        /\ UNCHANGED <<screens, live, sessionId, graceTimer>>
    BY <1>5 DEF Restart, session
  <2>2. live' = FALSE
    BY <1>a, <2>1 DEF DownIsOff
  <2>3. Air!Tell
    BY <1>b, <2>1, <2>2
  <2>4. Air!Recover
    BY <2>1, <2>3 DEF Air!Recover
  <2>5. QED
    BY <2>4 DEF Air!Next
<1>6. QED
  BY <1>1, <1>2, <1>3, <1>4, <1>5

\* The steps of the wires and of the televisions.
LEMMA ScreensRefine ==
  ASSUME TypeInv, TypeInv', Registered, Registered', DownIsOff,
         UNCHANGED <<up, live, sessionId, graceTimer>>,
         \/ PostPlay \/ DonePlay \/ PeriodicBroadcast
         \/ \E t \in Tv : DeliverEvent(t) \/ StatusAnswered(t) \/ PollApplied(t) \/ PollLost(t)
  PROVE  Air!Next
<1>a. /\ chan \in [Tv -> Seq({"live", "off"})] /\ poll \in [Tv -> {"none", "live", "off", "unknown"}]
      /\ serverLive \in [Tv -> {"unknown", "live", "off"}]
      /\ live \in BOOLEAN /\ live' \in BOOLEAN
  BY DEF TypeInv, TypeOK, ServiceOK, ScreensOK
<1>b. UNCHANGED Air!air
  BY DEF Air!air
<1>1. CASE PostPlay \/ DonePlay \/ PeriodicBroadcast
  <2>1. Broadcast(live) /\ UNCHANGED screens
    BY <1>1 DEF PostPlay, DonePlay, PeriodicBroadcast
  <2>2. \A t \in Tv : SendsTo(t)
    BY <1>a, <2>1, BroadcastSends
  <2>3. Air!Tell
    BY <1>a, <2>1, <2>2, SendsTell
  <2>4. QED
    BY <1>b, <2>3 DEF Air!Remind, Air!Next
<1>2. CASE \E t \in Tv : DeliverEvent(t)
  <2>1. PICK t \in Tv : DeliverEvent(t)
    BY <1>2
  <2>2. /\ chan[t] # << >> /\ chan' = [chan EXCEPT ![t] = Tail(chan[t])] /\ poll' = poll
        /\ serverLive' = [serverLive EXCEPT ![t] = Head(chan[t])]
    BY <2>1 DEF DeliverEvent
  <2>3. /\ 1 \in 1..Len(chan[t]) /\ Head(chan[t]) = chan[t][1]
        /\ \A i \in 1..Len(Tail(chan[t])) :
             i + 1 \in 1..Len(chan[t]) /\ Tail(chan[t])[i] = chan[t][i + 1]
    <3>1. /\ Len(chan[t]) \in Nat \ {0} /\ Len(Tail(chan[t])) = Len(chan[t]) - 1
          /\ Head(chan[t]) = chan[t][1]
          /\ \A i \in 1..Len(Tail(chan[t])) : Tail(chan[t])[i] = chan[t][i + 1]
      BY <1>a, <2>2, HeadTailProperties, LenProperties, EmptySeq
    <3>2. QED
      BY <3>1
  <2>4. Head(chan[t]) \in Told[t]
    BY <2>3 DEF Told
  <2>5. \A u \in Tv : Told'[u] \subseteq Told[u]
    <3>1. ASSUME NEW u \in Tv, u # t PROVE Told'[u] = Told[u]
      BY <1>a, <2>2, <3>1 DEF Told
    <3>2. Told'[t] \subseteq Told[t]
      <4>1. chan'[t] = Tail(chan[t])
        BY <1>a, <2>2
      <4>2. \A i \in 1..Len(chan'[t]) : \E h \in 1..Len(chan[t]) : chan'[t][i] = chan[t][h]
        BY <2>3, <4>1
      <4>3. QED
        BY <2>2, <4>2 DEF Told
    <3>3. QED
      BY <3>1, <3>2
  <2>6. Air!Hear(t)
    BY <1>b, <2>2, <2>4, <2>5 DEF Air!Hear
  <2>7. QED
    BY <2>6 DEF Air!Next
<1>3. CASE \E t \in Tv : StatusAnswered(t)
  <2>1. PICK t \in Tv : StatusAnswered(t)
    BY <1>3
  <2>2. Word(up /\ live) = Word(live)
    BY DEF DownIsOff, Word
  <2>3. /\ \E w \in {Word(live), "unknown"} : poll' = [poll EXCEPT ![t] = w]
        /\ chan' = chan /\ serverLive' = serverLive
    BY <2>1, <2>2 DEF StatusAnswered
  <2>4. Air!State' = Word(live)
    BY DEF Registered, Word, Air!State
  <2>5. ASSUME NEW u \in Tv PROVE Told'[u] \subseteq Told[u] \cup {Word(live), "unknown"}
    BY <1>a, <2>3 DEF Told
  <2>6. Air!Tell
    BY <2>3, <2>4, <2>5 DEF Air!Tell
  <2>7. QED
    BY <1>b, <2>6 DEF Air!Remind, Air!Next
<1>4. CASE \E t \in Tv : PollApplied(t)
  <2>1. PICK t \in Tv : PollApplied(t)
    BY <1>4
  <2>2. /\ poll[t] # "none" /\ poll' = [poll EXCEPT ![t] = "none"] /\ chan' = chan
        /\ serverLive' = [serverLive EXCEPT ![t] = poll[t]]
    BY <2>1 DEF PollApplied
  <2>3. poll[t] \in Told[t]
    BY <2>2 DEF Told
  <2>4. \A u \in Tv : Told'[u] \subseteq Told[u]
    BY <1>a, <2>2 DEF Told
  <2>5. Air!Hear(t)
    BY <1>b, <2>2, <2>3, <2>4 DEF Air!Hear
  <2>6. QED
    BY <2>5 DEF Air!Next
<1>5. CASE \E t \in Tv : PollLost(t)
  <2>1. PICK t \in Tv : PollLost(t)
    BY <1>5
  <2>2. poll' = [poll EXCEPT ![t] = "none"] /\ chan' = chan /\ serverLive' = serverLive
    BY <2>1 DEF PollLost
  <2>3. \A u \in Tv : Told'[u] \subseteq Told[u]
    BY <1>a, <2>2 DEF Told
  <2>4. Air!Tell
    BY <2>2, <2>3 DEF Air!Tell
  <2>5. QED
    BY <1>b, <2>4 DEF Air!Remind, Air!Next
<1>6. QED
  BY <1>1, <1>2, <1>3, <1>4, <1>5

\* Hooks, timers, crashes, lost events and late polls together show the televisions one
\* broadcast at a time: no publication takes over from another that is on the air or
\* ending, the end comes after a grace period or with the service, and nothing is shown
\* that was not so when it was said (index.ts 124-167, 201-243, 383, TvDisplay.tsx
\* 205-207, 246-266). The sessions of the announcements still queued are younger than
\* the one on the air, so no announcement can revive what is ending.
THEOREM TvsSeeOneBroadcast == Spec => KeepsBroadcast
<1>1. Init => Air!Init /\ InOrder /\ DownIsOff
  <2> SUFFICES ASSUME Init PROVE Air!Init /\ InOrder /\ DownIsOff
    OBVIOUS
  <2>1. Told = [t \in Tv |-> {}]
    BY LenProperties, EmptySeq DEF Init, Told
  <2>2. Air!Init
    BY <2>1 DEF Init, Air!Init
  <2>3. InOrder /\ DownIsOff
    BY DEF Init, InOrder, DownIsOff, NoSession
  <2>4. QED
    BY <2>2, <2>3
<1>2. TypeInv /\ TypeInv' /\ Registered /\ Registered' /\ InOrder /\ DownIsOff /\ [Next]_vars
        => [Air!Next]_(Air!vars)
  <2> SUFFICES ASSUME TypeInv, TypeInv', Registered, Registered', InOrder, DownIsOff, [Next]_vars
               PROVE  Air!Next \/ UNCHANGED Air!vars
    OBVIOUS
  <2>1. CASE PostPublish \/ DonePublish \/ GraceExpires \/ Crash \/ Restart
    BY <2>1, ServiceRefines
  <2>2. CASE \/ PostPlay \/ DonePlay \/ PeriodicBroadcast
             \/ \E t \in Tv : DeliverEvent(t) \/ StatusAnswered(t) \/ PollApplied(t) \/ PollLost(t)
    <3>1. UNCHANGED <<up, live, sessionId, graceTimer>>
      BY <2>2 DEF PostPlay, DonePlay, PeriodicBroadcast, DeliverEvent, StatusAnswered, PollApplied,
                  PollLost, session
    <3>2. QED
      BY <2>2, <3>1, ScreensRefine
  <2>3. CASE \/ RotateKey \/ RefreshStreamConfig \/ UNCHANGED vars
             \/ \E a \in App, l \in BOOLEAN : SetStream(a, l)
             \/ \E p \in Path : Publish(p) \/ Unpublish(p) \/ ReleaseSlot(p)
             \/ \E t \in Tv : OpenFlv(t) \/ CloseFlv(t)
    <3>1. UNCHANGED <<up, session, chan, screens>>
      BY <2>3 DEF RotateKey, RefreshStreamConfig, SetStream, Publish, Unpublish, ReleaseSlot, OpenFlv,
                  CloseFlv, vars
    <3>2. UNCHANGED <<up, sessionId, graceTimer, chan, poll, serverLive>>
      BY <3>1 DEF session, screens
    <3>3. QED
      BY <3>2, ToldStays DEF Air!vars, Air!air
  <2>4. QED
    BY <2>1, <2>2, <2>3 DEF Next
<1>3. SessionInv => Registered
  BY DEF SessionInv
<1>4. QED
  BY <1>1, <1>2, <1>3, InitType, NextType, InitSession, NextSession, NextOrder, NextDown, PTL
  DEF Spec, KeepsBroadcast, Air!Spec
=============================================================================
