------------------------- MODULE ScreenPairing_proofs -------------------------
(***************************************************************************)
(* Proofs about ScreenPairing, for any number of televisions, rows,        *)
(* requests, codes, tokens and disturbances, and any limit of waits,       *)
(* hasty administrators included.                                          *)
(*                                                                         *)
(* Two invariants beside the types: who knows the token that each row asks *)
(* for (HashInv), and what the last wait on the wire of a television says  *)
(* of the code it shows (AwaitInv).                                        *)
(***************************************************************************)
EXTENDS ScreenPairing, SequenceTheorems, TLAPS

\* A request under way is about a row.
JobsHaveScreens == \A j \in Job : jobs[j].step # "idle" => jobs[j].screen \in Screen

TypeInv == TypeOK /\ JobsHaveScreens

-----------------------------------------------------------------------------
(* What the pieces of the actions do to the types.                         *)

LEMMA MessageTypes ==
  /\ \A s \in Identity, k \in Token0 : RegisterAs(s, k) \in UpMessage
  /\ \A c \in Code0 : WaitFor(c) \in UpMessage
  /\ \A s \in Screen, k \in Token0 :
       [ev |-> "complete", screen |-> s, token |-> k] \in DownMessage
  /\ \A r \in {"unknown", "inactive", "bad-token"} :
       [ev |-> "rejected", reason |-> r] \in DownMessage
  /\ [ev |-> "expired"] \in DownMessage
  BY DEF RegisterAs, WaitFor, UpMessage, DownMessage

LEMMA ConstantTypes ==
  /\ NoToken \in Token0 /\ NoCode \in Code0 /\ 1..MaxCode \subseteq Code0
  /\ NoScreen \in Identity /\ Screen \subseteq Identity
  /\ NoEntry \in Entry
  BY PairBounds DEF NoToken, NoCode, Token0, Code0, NoScreen, Identity, Entry, NoEntry

\* What a TV sends is appended to its own channel.
LEMMA SendType ==
  ASSUME up \in [Tv -> Seq(UpMessage)], NEW t \in Tv, NEW ms \in Seq(UpMessage),
         SendUp(t, ms)
  PROVE  /\ up' \in [Tv -> Seq(UpMessage)]
         /\ up'[t] = up[t] \o ms
         /\ \A u \in Tv : u # t => up'[u] = up[u]
<1>1. up[t] \o ms \in Seq(UpMessage)
  BY ConcatProperties
<1>2. QED
  BY <1>1 DEF SendUp

\* What a message taken off a channel leaves.
LEMMA TakeType ==
  ASSUME NEW M, NEW chan \in [Tv -> Seq(M)], NEW t \in Tv, chan[t] # << >>
  PROVE  /\ Head(chan[t]) \in M
         /\ [chan EXCEPT ![t] = Tail(@)] \in [Tv -> Seq(M)]
  BY HeadTailProperties

\* What a message put on a channel leaves.
LEMMA PutType ==
  ASSUME NEW M, NEW chan \in [Tv -> Seq(M)], NEW t \in Tv, NEW m \in M
  PROVE  [chan EXCEPT ![t] = Append(@, m)] \in [Tv -> Seq(M)]
  BY AppendProperties

LEMMA DrawsType ==
  ASSUME TvOK, GhostsOK, NEW t \in Tv, NEW c \in 1..MaxCode, Draws(t, c)
  PROVE  shown' \in [Tv -> Code0] /\ linked' \in [Tv -> BOOLEAN] /\ shown'[t] = c
  BY ConstantTypes DEF TvOK, GhostsOK, Draws

LEMMA PairEffectType ==
  ASSUME TypeOK, NEW t \in Tv, NEW p \in BOOLEAN, NEW k \in Identity, PairEffect(t, p, k)
  PROVE  /\ shown' \in [Tv -> Code0] /\ linked' \in [Tv -> BOOLEAN]
         /\ up' \in [Tv -> Seq(UpMessage)]
<1>1. CASE UNCHANGED <<shown, linked, up>>
  BY <1>1 DEF TypeOK, TvOK, GhostsOK, WireOK
<1>2. CASE \E c \in 1..MaxCode :
             Draws(t, c) /\ SendUp(t, IF conn[t] THEN <<WaitFor(c)>> ELSE << >>)
  <2>1. PICK c \in 1..MaxCode :
          Draws(t, c) /\ SendUp(t, IF conn[t] THEN <<WaitFor(c)>> ELSE << >>)
    BY <1>2
  <2>2. (IF conn[t] THEN <<WaitFor(c)>> ELSE << >>) \in Seq(UpMessage)
    BY MessageTypes, ConstantTypes
  <2>3. QED
    BY <2>1, <2>2, DrawsType, SendType DEF TypeOK, WireOK
<1>3. QED
  BY <1>1, <1>2 DEF PairEffect

LEMMA CloseType ==
  ASSUME TypeOK, NEW t \in Tv, SocketCloses(t)
  PROVE  WireOK' /\ ServiceOK' /\ refused' \in [Tv -> BOOLEAN]
<1>1. << >> \in Seq(UpMessage) /\ << >> \in Seq(DownMessage)
  BY EmptySeq
<1>2. WireOK'
  BY <1>1 DEF SocketCloses, TypeOK, WireOK
<1>3. ServiceOK'
  BY ConstantTypes, PairBounds DEF SocketCloses, TypeOK, ServiceOK
<1>4. QED
  BY <1>2, <1>3 DEF SocketCloses, TypeOK, GhostsOK

LEMMA LoadType ==
  ASSUME TypeOK, NEW t \in Tv, LoadPage(t), key' \in [Tv -> Identity],
         token' \in [Tv -> Token0], chosen' \in [Tv -> BOOLEAN]
  PROVE  WireOK' /\ ServiceOK' /\ TvOK' /\ refused' \in [Tv -> BOOLEAN] /\ linked' \in [Tv -> BOOLEAN]
<1>1. WireOK' /\ ServiceOK' /\ refused' \in [Tv -> BOOLEAN]
  BY CloseType DEF LoadPage
<1>2. picker' \in [Tv -> BOOLEAN]
  BY DEF LoadPage, TypeOK, TvOK
<1>3. shown' \in [Tv -> Code0] /\ linked' \in [Tv -> BOOLEAN]
  <2>1. CASE \E c \in 1..MaxCode : Draws(t, c)
    BY <2>1, DrawsType DEF TypeOK
  <2>2. CASE shown' = [shown EXCEPT ![t] = NoCode] /\ UNCHANGED linked
    BY <2>2, ConstantTypes DEF TypeOK, TvOK, GhostsOK
  <2>3. QED
    BY <2>1, <2>2 DEF LoadPage
<1>4. QED
  BY <1>1, <1>2, <1>3 DEF TvOK

-----------------------------------------------------------------------------
(* Types.                                                                  *)

LEMMA InitType == Init => TypeInv
<1> SUFFICES ASSUME Init PROVE TypeInv
  OBVIOUS
<1> USE ConstantTypes, PairBounds
<1>1. ApiOK
  BY DEF Init, ApiOK, NoJob, JobStep, Token0
<1>2. ServiceOK
  BY DEF Init, ServiceOK
<1>3. WireOK
  BY EmptySeq DEF Init, WireOK
<1>4. TvOK
  <2>1. (IF MaxCode = 0 THEN NoCode ELSE 1) \in Code0
    BY DEF Code0, NoCode
  <2>2. QED
    BY <2>1 DEF Init, TvOK
<1>5. GhostsOK
  BY DEF Init, GhostsOK
<1>6. JobsHaveScreens
  BY DEF Init, NoJob, JobsHaveScreens
<1>7. QED
  BY <1>1, <1>2, <1>3, <1>4, <1>5, <1>6 DEF TypeInv, TypeOK

\* Television: its life, its user and the events it receives.
LEMMA TvNextType ==
  ASSUME TypeOK, NEW t \in Tv,
         \/ Connect(t) \/ Drop(t) \/ Reload(t) \/ TogglePicker(t) \/ Heartbeat(t)
         \/ OnRejected(t) \/ OnComplete(t) \/ OnExpired(t)
         \/ \E s \in Identity : Select(t, s)
  PROVE  TypeOK'
<1> USE ConstantTypes, PairBounds
<1>a. ApiOK /\ ServiceOK /\ WireOK /\ TvOK /\ GhostsOK
  BY DEF TypeOK
<1>1. CASE Connect(t)
  <2>1. \E ms \in Seq(UpMessage) : SendUp(t, ms)
    <3>1. RegisterAs(key[t], token[t]) \in UpMessage /\ WaitFor(shown[t]) \in UpMessage
      BY <1>a, MessageTypes DEF TvOK
    <3>2. /\ <<RegisterAs(key[t], token[t])>> \in Seq(UpMessage)
          /\ (IF key[t] = NoScreen /\ shown[t] # NoCode
              THEN <<WaitFor(shown[t])>> ELSE << >>) \in Seq(UpMessage)
      BY <3>1
    <3>3. QED
      BY <1>1, <3>2, ConcatProperties DEF Connect
  <2>2. WireOK'
    BY <2>1, <1>1, <1>a, SendType DEF Connect, WireOK
  <2>3. QED
    BY <2>2, <1>1, <1>a DEF Connect, TypeOK, ApiOK, ServiceOK, TvOK, GhostsOK,
                            api, service, tvs, store, view, ghosts
<1>2. CASE Drop(t)
  <2>1. WireOK' /\ ServiceOK' /\ refused' \in [Tv -> BOOLEAN]
    BY <1>2, CloseType DEF Drop
  <2>2. QED
    BY <2>1, <1>2, <1>a DEF Drop, Operates, TypeOK, ApiOK, TvOK, GhostsOK,
                            api, tvs, store, view
<1>3. CASE Reload(t)
  <2>1. /\ WireOK' /\ ServiceOK' /\ TvOK'
        /\ refused' \in [Tv -> BOOLEAN] /\ linked' \in [Tv -> BOOLEAN]
    BY <1>3, <1>a, LoadType DEF Reload, store, TvOK
  <2>2. QED
    BY <2>1, <1>3, <1>a DEF Reload, Operates, TypeOK, ApiOK, GhostsOK, api
<1>4. CASE \E s \in Identity : Select(t, s)
  <2>1. PICK s \in Identity : Select(t, s)
    BY <1>4
  <2>2. /\ WireOK' /\ ServiceOK' /\ TvOK'
        /\ refused' \in [Tv -> BOOLEAN] /\ linked' \in [Tv -> BOOLEAN]
    BY <2>1, <1>a, LoadType DEF Select, TvOK
  <2>3. QED
    BY <2>1, <2>2, <1>a DEF Select, Operates, TypeOK, ApiOK, GhostsOK, api
<1>5. CASE TogglePicker(t)
  <2>1. /\ shown' \in [Tv -> Code0] /\ linked' \in [Tv -> BOOLEAN]
        /\ up' \in [Tv -> Seq(UpMessage)]
    <3>1. key[t] \in Identity /\ (~picker[t]) \in BOOLEAN
      BY <1>a DEF TvOK
    <3>2. QED
      BY <1>5, <3>1, PairEffectType DEF TogglePicker
  <2>2. QED
    BY <2>1, <1>5, <1>a DEF TogglePicker, Operates, TypeOK, ApiOK, ServiceOK, WireOK, TvOK,
                            GhostsOK, api, service, store
<1>6. CASE Heartbeat(t)
  <2>1. <<WaitFor(shown[t])>> \in Seq(UpMessage)
    BY <1>a, MessageTypes DEF TvOK
  <2>2. WireOK'
    BY <2>1, <1>6, <1>a, SendType DEF Heartbeat, WireOK
  <2>3. QED
    BY <2>2, <1>6, <1>a DEF Heartbeat, TypeOK, ApiOK, ServiceOK, TvOK, GhostsOK,
                            api, service, tvs, store, view, ghosts
<1>7. CASE OnRejected(t)
  <2> DEFINE forgets == Head(down[t]).reason = "bad-token" /\ token[t] # NoToken
  <2>1. /\ shown' \in [Tv -> Code0] /\ linked' \in [Tv -> BOOLEAN]
        /\ up' \in [Tv -> Seq(UpMessage)]
    <3>1. (IF forgets THEN NoScreen ELSE key[t]) \in Identity
      BY <1>a DEF TvOK
    <3>2. QED
      BY <1>7, <3>1, PairEffectType DEF OnRejected
  <2>2. down' \in [Tv -> Seq(DownMessage)]
    BY <1>7, <1>a, TakeType DEF OnRejected, Receives, WireOK
  <2>3. key' \in [Tv -> Identity] /\ token' \in [Tv -> Token0] /\ picker' \in [Tv -> BOOLEAN]
    BY <1>7, <1>a DEF OnRejected, TvOK
  <2>4. QED
    BY <2>1, <2>2, <2>3, <1>7, <1>a DEF OnRejected, TypeOK, ApiOK, ServiceOK, WireOK, TvOK,
                                        GhostsOK, api, service
<1>8. CASE OnComplete(t)
  <2> DEFINE m == Head(down[t])
  <2>1. m \in DownMessage /\ m.ev = "complete" /\ down' \in [Tv -> Seq(DownMessage)]
    BY <1>8, <1>a, TakeType DEF OnComplete, Receives, WireOK
  <2>2. m.screen \in Identity /\ m.token \in Token0
    BY <2>1 DEF DownMessage
  <2>3. <<RegisterAs(m.screen, m.token)>> \in Seq(UpMessage)
    BY <2>2, MessageTypes
  <2>4. WireOK'
    BY <2>1, <2>3, <1>8, <1>a, SendType DEF OnComplete, WireOK
  <2>5. TvOK'
    BY <2>2, <1>8, <1>a DEF OnComplete, TvOK
  <2>6. QED
    BY <2>4, <2>5, <1>8, <1>a DEF OnComplete, TypeOK, ApiOK, ServiceOK, GhostsOK,
                                  api, service, ghosts
<1>9. CASE OnExpired(t)
  <2>1. down' \in [Tv -> Seq(DownMessage)]
    BY <1>9, <1>a, TakeType DEF OnExpired, Receives, WireOK
  <2>2. /\ shown' \in [Tv -> Code0] /\ linked' \in [Tv -> BOOLEAN]
        /\ up' \in [Tv -> Seq(UpMessage)]
    <3>1. CASE UNCHANGED <<shown, linked, up>>
      BY <3>1, <1>a DEF TvOK, GhostsOK, WireOK
    <3>2. CASE \E c \in 1..MaxCode : Draws(t, c) /\ SendUp(t, <<WaitFor(c)>>)
      <4>1. PICK c \in 1..MaxCode : Draws(t, c) /\ SendUp(t, <<WaitFor(c)>>)
        BY <3>2
      <4>2. <<WaitFor(c)>> \in Seq(UpMessage)
        BY MessageTypes
      <4>3. QED
        BY <4>1, <4>2, <1>a, DrawsType, SendType DEF WireOK
    <3>3. QED
      BY <1>9, <3>1, <3>2 DEF OnExpired
  <2>3. QED
    BY <2>1, <2>2, <1>9, <1>a DEF OnExpired, TypeOK, ApiOK, ServiceOK, WireOK, TvOK, GhostsOK,
                                  api, service, store
<1>10. QED
  BY <1>1, <1>2, <1>3, <1>4, <1>5, <1>6, <1>7, <1>8, <1>9

\* The realtime-service.
LEMMA ServiceNextType ==
  ASSUME TypeOK, NEW t \in Tv,
         \/ \E dbRead \in BOOLEAN : OnRegister(t, dbRead)
         \/ OnWait(t) \/ PairTtl(t)
  PROVE  TypeOK'
<1> USE ConstantTypes, PairBounds
<1>a. ApiOK /\ ServiceOK /\ WireOK /\ TvOK /\ GhostsOK
  BY DEF TypeOK
<1>1. CASE \E dbRead \in BOOLEAN : OnRegister(t, dbRead)
  <2>1. PICK dbRead \in BOOLEAN : OnRegister(t, dbRead)
    BY <1>1
  <2> DEFINE m == Head(up[t])
             verdict == CheckScreenAuth(m, dbRead)
  <2>2. m \in UpMessage /\ m.ev = "register" /\ up' \in [Tv -> Seq(UpMessage)]
    BY <2>1, <1>a, TakeType DEF OnRegister, Serves, WireOK
  <2>3. m.screen \in Identity
    BY <2>2 DEF UpMessage
  <2>4. verdict \in {"verified", "unverified", "unknown", "inactive", "bad-token"}
    BY DEF CheckScreenAuth
  <2>5. entry' \in [Tv -> Entry] /\ down' \in [Tv -> Seq(DownMessage)]
    <3>1. CASE verdict \in {"verified", "unverified"}
      <4>1. [screen |-> m.screen, verified |-> verdict = "verified"] \in Entry
        BY <2>3 DEF Entry
      <4>2. QED
        BY <3>1, <4>1, <2>1, <1>a DEF OnRegister, ServiceOK, WireOK
    <3>2. CASE verdict \notin {"verified", "unverified"}
      <4>1. [ev |-> "rejected", reason |-> verdict] \in DownMessage
        BY <3>2, <2>4, MessageTypes
      <4>2. [down EXCEPT ![t] = Append(@, [ev |-> "rejected", reason |-> verdict])]
              \in [Tv -> Seq(DownMessage)]
        BY <4>1, <1>a, PutType DEF WireOK
      <4>3. QED
        BY <3>2, <4>2, <2>1, <1>a DEF OnRegister, ServiceOK
    <3>3. QED
      BY <3>1, <3>2
  <2>6. refused' \in [Tv -> BOOLEAN]
    BY <2>1, <1>a DEF OnRegister, GhostsOK
  <2>7. QED
    BY <2>1, <2>2, <2>5, <2>6, <1>a DEF OnRegister, TypeOK, ApiOK, ServiceOK, WireOK, TvOK,
                                        GhostsOK, api, tvs, store, view
<1>2. CASE OnWait(t)
  <2>1. /\ Head(up[t]) \in UpMessage /\ Head(up[t]).ev = "wait"
        /\ up' \in [Tv -> Seq(UpMessage)]
    BY <1>2, <1>a, TakeType DEF OnWait, Serves, WireOK
  <2>2. Head(up[t]).code \in Code0
    BY <2>1 DEF UpMessage
  <2>3. attempts[t] + 1 > PAIR_MAX_ATTEMPTS \/ attempts[t] + 1 \in 0..(PAIR_MAX_ATTEMPTS + 1)
    BY <1>a DEF ServiceOK
  <2>4. ServiceOK'
    BY <2>2, <2>3, <1>2, <1>a DEF OnWait, ServiceOK
  <2>5. QED
    BY <2>1, <2>4, <1>2, <1>a DEF OnWait, TypeOK, ApiOK, WireOK, TvOK, GhostsOK,
                                  api, tvs, store, view, ghosts
<1>3. CASE PairTtl(t)
  <2>1. WireOK'
    BY <1>3, <1>a, PutType, MessageTypes DEF PairTtl, WireOK
  <2>2. QED
    BY <2>1, <1>3, <1>a DEF PairTtl, TypeOK, ApiOK, ServiceOK, TvOK, GhostsOK,
                            api, tvs, store, view, ghosts
<1>4. QED
  BY <1>1, <1>2, <1>3

\* The requests of the API.
LEMMA JobNextType ==
  ASSUME TypeInv, NEW j \in Job,
         \/ \E s \in Screen, t \in Tv \cup {NoTv}, c \in Code0 : StartLink(j, s, t, c)
         \/ \E s \in Screen, t \in Tv \cup {NoTv}, c \in Code0 : StartCreate(j, s, t, c)
         \/ WriteHash(j) \/ UndoHash(j) \/ ApiDies(j)
         \/ \E reached, answered \in BOOLEAN : BroadcastToRoom(j, reached, answered)
  PROVE  TypeOK'
<1> USE ConstantTypes, PairBounds
<1>a. ApiOK /\ ServiceOK /\ WireOK /\ TvOK /\ GhostsOK
  BY DEF TypeInv, TypeOK
<1> DEFINE Request == [step : JobStep, screen : Identity, tv : Tv \cup {NoTv},
                       code : Code0, token : Token0]
           Row     == [st : {"absent", "on", "off", "deleted"}, hash : Token0]
<1>b. rows \in [Screen -> Row] /\ jobs \in [Job -> Request] /\ NoJob \in Request
  BY <1>a DEF ApiOK, NoJob, JobStep
<1>c. ASSUME jobs' \in [Job -> Request], rows' \in [Screen -> Row], tokens' \in Token0
      PROVE  ApiOK'
  BY <1>c DEF ApiOK
<1>1. CASE \E s \in Screen, t \in Tv \cup {NoTv}, c \in Code0 :
             StartLink(j, s, t, c) \/ StartCreate(j, s, t, c)
  <2>1. PICK s \in Screen, t \in Tv \cup {NoTv}, c \in Code0 :
          StartLink(j, s, t, c) \/ StartCreate(j, s, t, c)
    BY <1>1
  <2>2. Starts(j, s, t, c)
    BY <2>1 DEF StartLink, StartCreate
  <2>3. [step |-> "hash", screen |-> s, tv |-> t, code |-> c, token |-> NoToken] \in Request
    BY DEF JobStep
  <2>4. jobs' \in [Job -> Request]
    BY <2>2, <2>3, <1>b DEF Starts
  <2>5. rows' \in [Screen -> Row]
    BY <2>1, <1>b DEF StartLink, StartCreate
  <2>6. linked' \in [Tv -> BOOLEAN]
    BY <2>2, <1>a DEF Starts, Typed, GhostsOK
  <2>7. QED
    BY <2>2, <2>4, <2>5, <2>6, <1>a, <1>c
    DEF Starts, TypeOK, ApiOK, ServiceOK, WireOK, TvOK, GhostsOK, service, wire, tvs, store, view
<1>2. CASE WriteHash(j)
  <2>1. tokens' \in Token0
    BY <1>2, <1>a DEF WriteHash, ApiOK, Token0
  <2>2. jobs' \in [Job -> Request] /\ rows' \in [Screen -> Row]
    <3>1. rows' \in [Screen -> Row]
      BY <2>1, <1>2, <1>b DEF WriteHash
    <3>2. CASE jobs' = [jobs EXCEPT ![j].step = "send", ![j].token = tokens']
      <4>1. jobs' = [jobs EXCEPT ![j] = [@ EXCEPT !.step = "send", !.token = tokens']]
        BY <3>2, <1>b
      <4>2. [jobs[j] EXCEPT !.step = "send", !.token = tokens'] \in Request
        BY <2>1, <1>b DEF JobStep
      <4>3. QED
        BY <3>1, <4>1, <4>2, <1>b
    <3>3. CASE jobs' = [jobs EXCEPT ![j] = NoJob]
      BY <3>1, <3>3, <1>b
    <3>4. QED
      BY <3>2, <3>3, <1>2 DEF WriteHash
  <2>3. QED
    BY <2>1, <2>2, <1>2, <1>a, <1>c
    DEF WriteHash, TypeOK, ServiceOK, WireOK, TvOK, GhostsOK, service, wire, tvs, store, view, ghosts
<1>3. CASE UndoHash(j)
  <2>1. jobs' \in [Job -> Request] /\ rows' \in [Screen -> Row]
    BY <1>3, <1>b DEF UndoHash
  <2>2. QED
    BY <2>1, <1>3, <1>a, <1>c
    DEF UndoHash, TypeOK, ApiOK, ServiceOK, WireOK, TvOK, GhostsOK,
        service, wire, tvs, store, view, ghosts
<1>4. CASE ApiDies(j)
  <2>1. jobs' \in [Job -> Request]
    BY <1>4, <1>b DEF ApiDies
  <2>2. GhostsOK'
    <3>1. jobs[j].token \in Token0
      BY <1>b
    <3>2. QED
      BY <3>1, <1>4, <1>a DEF ApiDies, Operates, GhostsOK
  <2>3. QED
    BY <2>1, <2>2, <1>4, <1>a, <1>b, <1>c
    DEF ApiDies, TypeOK, ApiOK, ServiceOK, WireOK, TvOK, service, wire, tvs, store, view
<1>5. CASE \E reached, answered \in BOOLEAN : BroadcastToRoom(j, reached, answered)
  <2>1. PICK reached, answered \in BOOLEAN : BroadcastToRoom(j, reached, answered)
    BY <1>5
  <2>2. jobs[j] \in Request
    BY <1>b
  <2>3. jobs' \in [Job -> Request]
    BY <2>1, <2>2, <1>b DEF BroadcastToRoom, JobStep
  <2>4. excused' \in SUBSET Token0
    BY <2>1, <2>2, <1>a DEF BroadcastToRoom, GhostsOK
  <2>5. WireOK'
    <3>1. CASE UNCHANGED down
      BY <3>1, <2>1, <1>a DEF BroadcastToRoom, WireOK
    <3>2. CASE reached /\ Waiting(j)
      <4>1. jobs[j].tv \in Tv
        BY <3>2 DEF Waiting
      <4>2. [ev |-> "complete", screen |-> jobs[j].screen, token |-> jobs[j].token]
              \in DownMessage
        BY <2>1, <2>2, MessageTypes DEF BroadcastToRoom, TypeInv, JobsHaveScreens
      <4>3. QED
        BY <3>2, <4>1, <4>2, <2>1, <1>a, PutType DEF BroadcastToRoom, WireOK
    <3>3. QED
      BY <3>1, <3>2, <2>1 DEF BroadcastToRoom
  <2>6. QED
    BY <2>1, <2>3, <2>4, <2>5, <1>a, <1>b, <1>c
    DEF BroadcastToRoom, TypeOK, ApiOK, ServiceOK, TvOK, GhostsOK, service, tvs, store, view
<1>6. QED
  BY <1>1, <1>2, <1>3, <1>4, <1>5

\* Administrators and the rows.
LEMMA RowNextType ==
  ASSUME TypeOK, NEW s \in Screen, HandToken(s) \/ SetActive(s) \/ DeleteScreen(s)
  PROVE  TypeOK'
<1> USE ConstantTypes, PairBounds
<1>a. ApiOK /\ ServiceOK /\ WireOK /\ TvOK /\ GhostsOK
  BY DEF TypeOK
<1>1. ApiOK'
  <2>1. CASE HandToken(s)
    BY <2>1, <1>a DEF HandToken, ApiOK, Token0
  <2>2. CASE SetActive(s)
    BY <2>2, <1>a DEF SetActive, ApiOK
  <2>3. CASE DeleteScreen(s)
    BY <2>3, <1>a DEF DeleteScreen, ApiOK
  <2>4. QED
    BY <2>1, <2>2, <2>3
<1>2. GhostsOK'
  <2>1. CASE HandToken(s)
    BY <2>1, <1>1, <1>a DEF HandToken, ApiOK, GhostsOK
  <2>2. CASE SetActive(s) \/ DeleteScreen(s)
    BY <2>2, <1>a DEF SetActive, DeleteScreen, Operates, GhostsOK
  <2>3. QED
    BY <2>1, <2>2
<1>3. UNCHANGED <<service, wire, tvs>>
  BY DEF HandToken, SetActive, DeleteScreen
<1>4. QED
  BY <1>1, <1>2, <1>3, <1>a
  DEF TypeOK, ServiceOK, WireOK, TvOK, service, wire, tvs, store, view

\* Requests keep to the rows they were made for.
LEMMA NextJobScreens == TypeInv /\ [Next]_vars => JobsHaveScreens'
<1> SUFFICES ASSUME TypeInv, [Next]_vars PROVE JobsHaveScreens'
  OBVIOUS
<1> DEFINE Kept == \A j \in Job : \/ jobs'[j].step = "idle"
                                 \/ jobs'[j].screen \in Screen
                                 \/ jobs'[j] = jobs[j]
<1>a. jobs \in [Job -> [step : JobStep, screen : Identity, tv : Tv \cup {NoTv},
                        code : Code0, token : Token0]]
  BY DEF TypeInv, TypeOK, ApiOK
<1>b. Kept => JobsHaveScreens'
  BY DEF TypeInv, JobsHaveScreens
<1>1. CASE UNCHANGED jobs
  BY <1>1, <1>b
<1>2. ASSUME NEW j \in Job, NEW s \in Screen, NEW t \in Tv \cup {NoTv}, NEW c \in Code0,
             StartLink(j, s, t, c) \/ StartCreate(j, s, t, c)
      PROVE  JobsHaveScreens'
  BY <1>2, <1>a, <1>b DEF StartLink, StartCreate, Starts
<1>3. ASSUME NEW j \in Job,
             WriteHash(j) \/ UndoHash(j) \/ ApiDies(j) \/
               \E reached, answered \in BOOLEAN : BroadcastToRoom(j, reached, answered)
      PROVE  JobsHaveScreens'
  <2>1. jobs[j].step # "idle"
    BY <1>3 DEF WriteHash, UndoHash, ApiDies, BroadcastToRoom
  <2>2. jobs[j].screen \in Screen
    BY <2>1 DEF TypeInv, JobsHaveScreens
  <2>3. jobs'[j].step = "idle" \/ jobs'[j].screen = jobs[j].screen
    BY <1>3, <1>a DEF WriteHash, UndoHash, ApiDies, BroadcastToRoom, NoJob
  <2>4. \A i \in Job : i # j => jobs'[i] = jobs[i]
    BY <1>3, <1>a DEF WriteHash, UndoHash, ApiDies, BroadcastToRoom
  <2>5. QED
    BY <2>2, <2>3, <2>4, <1>b
<1>4. \/ UNCHANGED jobs
      \/ \E j \in Job, s \in Screen, t \in Tv \cup {NoTv}, c \in Code0 :
           StartLink(j, s, t, c) \/ StartCreate(j, s, t, c)
      \/ \E j \in Job : WriteHash(j) \/ UndoHash(j) \/ ApiDies(j) \/
           \E reached, answered \in BOOLEAN : BroadcastToRoom(j, reached, answered)
  <2>1. CASE UNCHANGED vars
    BY <2>1 DEF vars, api
  <2>2. ASSUME NEW t \in Tv,
               \/ Connect(t) \/ Drop(t) \/ Reload(t) \/ TogglePicker(t) \/ Heartbeat(t)
               \/ OnRejected(t) \/ OnComplete(t) \/ OnExpired(t) \/ OnWait(t) \/ PairTtl(t)
               \/ \E s \in Identity : Select(t, s)
               \/ \E dbRead \in BOOLEAN : OnRegister(t, dbRead)
        PROVE  UNCHANGED jobs
    BY <2>2 DEF Connect, Drop, Reload, TogglePicker, Heartbeat, OnRejected, OnComplete,
                OnExpired, OnWait, PairTtl, Select, OnRegister, api
  <2>3. ASSUME NEW s \in Screen, HandToken(s) \/ SetActive(s) \/ DeleteScreen(s)
        PROVE  UNCHANGED jobs
    BY <2>3 DEF HandToken, SetActive, DeleteScreen
  <2>4. QED
    BY <2>1, <2>2, <2>3 DEF Next
<1>5. QED
  BY <1>1, <1>2, <1>3, <1>4

LEMMA NextType == TypeInv /\ [Next]_vars => TypeInv'
<1> SUFFICES ASSUME TypeInv, [Next]_vars PROVE TypeOK'
  BY NextJobScreens DEF TypeInv
<1>1. CASE UNCHANGED vars
  BY <1>1 DEF vars, api, service, wire, tvs, store, view, ghosts,
              TypeInv, TypeOK, ApiOK, ServiceOK, WireOK, TvOK, GhostsOK
<1>2. CASE Next
  BY <1>2, TvNextType, ServiceNextType, JobNextType, RowNextType DEF Next, TypeInv
<1>3. QED
  BY <1>1, <1>2

\* Rows, requests, rooms, wires and televisions keep their types, whatever
\* breaks and whoever intervenes.
THEOREM TypeCorrect == Spec => []TypeOK
<1>1. TypeInv => TypeOK
  BY DEF TypeInv
<1>2. QED
  BY <1>1, InitType, NextType, PTL DEF Spec

-----------------------------------------------------------------------------
(* Every hash has somebody who knows its token. A token is in the hands of *)
(* the request that made it until it is delivered or reverted, and no row  *)
(* but the one of that request asks for it: so reverting reverts it all.   *)

Generated == /\ \A s \in Screen : rows[s].hash <= tokens
             /\ \A j \in Job : jobs[j].token <= tokens

BeforeHash == \A j \in Job : jobs[j].step \in {"idle", "hash"} => jobs[j].token = NoToken

OwnRow == \A j \in Job, s \in Screen :
            jobs[j].token # NoToken /\ rows[s].hash = jobs[j].token => s = jobs[j].screen

HashInv == Generated /\ BeforeHash /\ OwnRow /\ NoOrphanHash

LEMMA InitHash == Init => HashInv
<1> SUFFICES ASSUME Init PROVE HashInv
  OBVIOUS
<1>1. /\ \A s \in Screen : rows[s].hash = 0
      /\ \A j \in Job : jobs[j].token = 0
      /\ tokens = 0
  BY DEF Init, NoJob, NoToken
<1>2. QED
  BY <1>1 DEF HashInv, Generated, BeforeHash, OwnRow, NoOrphanHash, NoToken

LEMMA NextHash == TypeInv /\ HashInv /\ [Next]_vars => HashInv'
<1> SUFFICES ASSUME TypeInv, HashInv, [Next]_vars PROVE HashInv'
  OBVIOUS
<1> USE PairBounds DEF NoToken
<1>a. /\ rows \in [Screen -> [st : {"absent", "on", "off", "deleted"}, hash : Token0]]
      /\ jobs \in [Job -> [step : JobStep, screen : Identity, tv : Tv \cup {NoTv},
                           code : Code0, token : Token0]]
      /\ tokens \in Nat /\ Token0 \subseteq Nat
  BY DEF TypeInv, TypeOK, ApiOK, Token0
<1>c. (\A s \in Screen : rows[s].hash \in Nat) /\ (\A j \in Job : jobs[j].token \in Nat)
  BY <1>a
<1>b. Generated /\ BeforeHash /\ OwnRow /\ NoOrphanHash
  BY DEF HashInv
<1>1. CASE UNCHANGED <<rows, jobs, tokens, excused>>
  BY <1>1, <1>b DEF HashInv, Generated, BeforeHash, OwnRow, NoOrphanHash
<1>2. ASSUME NEW j \in Job, NEW s \in Screen, NEW t \in Tv \cup {NoTv}, NEW c \in Code0,
             StartLink(j, s, t, c) \/ StartCreate(j, s, t, c)
      PROVE  HashInv'
  <2>1. /\ jobs[j] = NoJob /\ UNCHANGED <<tokens, excused>>
        /\ jobs' = [jobs EXCEPT ![j] = [step |-> "hash", screen |-> s, tv |-> t,
                                        code |-> c, token |-> NoToken]]
    BY <1>2 DEF StartLink, StartCreate, Starts
  <2>2. \A r \in Screen : rows'[r].hash = rows[r].hash
    BY <1>2, <1>a DEF StartLink, StartCreate
  <2>3. \A i \in Job : jobs'[i].token = jobs[i].token /\ (i # j => jobs'[i] = jobs[i])
    BY <2>1, <1>a DEF NoJob
  <2>4. QED
    BY <2>1, <2>2, <2>3, <1>a, <1>b
    DEF HashInv, Generated, BeforeHash, OwnRow, NoOrphanHash
<1>3. ASSUME NEW j \in Job, WriteHash(j) PROVE HashInv'
  <2> DEFINE s == jobs[j].screen
  <2>1. /\ jobs[j].step = "hash" /\ jobs[j].token = NoToken /\ tokens' = tokens + 1
        /\ UNCHANGED excused /\ s \in Screen
    BY <1>3, <1>b DEF WriteHash, BeforeHash, TypeInv, JobsHaveScreens, ghosts
  <2>2. CASE Exists(s)
    <3>1. /\ rows' = [rows EXCEPT ![s].hash = tokens']
          /\ jobs' = [jobs EXCEPT ![j].step = "send", ![j].token = tokens']
      BY <1>3, <2>2 DEF WriteHash
    <3>2. rows'[s].hash = tokens' /\ \A r \in Screen : r # s => rows'[r] = rows[r]
      BY <3>1, <2>1, <1>a
    <3>3. /\ jobs'[j].token = tokens' /\ jobs'[j].step = "send" /\ jobs'[j].screen = s
          /\ \A i \in Job : i # j => jobs'[i] = jobs[i]
      BY <3>1, <1>a
    <3>4. Generated'
      BY <3>2, <3>3, <2>1, <1>a, <1>b, <1>c DEF Generated
    <3>5. BeforeHash'
      BY <3>3, <1>b DEF BeforeHash
    <3>6. OwnRow'
      BY <3>2, <3>3, <2>1, <1>a, <1>b DEF OwnRow, Generated
    <3>7. NoOrphanHash'
      BY <3>2, <3>3, <2>1, <1>b DEF NoOrphanHash
    <3>8. QED
      BY <3>4, <3>5, <3>6, <3>7 DEF HashInv
  <2>3. CASE ~Exists(s)
    <3>1. UNCHANGED rows /\ jobs' = [jobs EXCEPT ![j] = NoJob]
      BY <1>3, <2>3 DEF WriteHash
    <3>2. \A i \in Job : jobs'[i].token = jobs[i].token /\ (i # j => jobs'[i] = jobs[i])
      BY <3>1, <2>1, <1>a DEF NoJob
    <3>3. tokens <= tokens' /\ Generated'
      BY <3>1, <3>2, <2>1, <1>a, <1>b, <1>c DEF Generated
    <3>4. BeforeHash'
      BY <3>2, <2>1, <1>b DEF BeforeHash
    <3>5. OwnRow' /\ NoOrphanHash'
      BY <3>1, <3>2, <2>1, <1>b DEF OwnRow, NoOrphanHash
    <3>6. QED
      BY <3>3, <3>4, <3>5 DEF HashInv
  <2>4. QED
    BY <2>2, <2>3
<1>4. ASSUME NEW j \in Job, NEW reached \in BOOLEAN, NEW answered \in BOOLEAN,
             BroadcastToRoom(j, reached, answered)
      PROVE  HashInv'
  <2>1. UNCHANGED <<rows, tokens>> /\ excused \subseteq excused'
    BY <1>4 DEF BroadcastToRoom
  <2>2. \A i \in Job : i # j => jobs'[i] = jobs[i]
    BY <1>4, <1>a DEF BroadcastToRoom
  <2>3. CASE jobs' = [jobs EXCEPT ![j] = NoJob] /\ excused' = excused \cup {jobs[j].token}
    <3>1. jobs'[j].token = 0
      BY <2>3, <1>a DEF NoJob
    <3>2. QED
      BY <3>1, <2>1, <2>2, <2>3, <1>a, <1>b
      DEF HashInv, Generated, BeforeHash, OwnRow, NoOrphanHash
  <2>4. CASE \E st \in {"resend", "undo"} : jobs' = [jobs EXCEPT ![j].step = st]
    <3>1. /\ jobs'[j].token = jobs[j].token /\ jobs'[j].screen = jobs[j].screen
          /\ jobs'[j].step \in {"resend", "undo"}
      BY <2>4, <1>a
    <3>2. QED
      BY <3>1, <2>1, <2>2, <1>a, <1>b
      DEF HashInv, Generated, BeforeHash, OwnRow, NoOrphanHash
  <2>5. QED
    BY <1>4, <2>3, <2>4 DEF BroadcastToRoom
<1>5. ASSUME NEW j \in Job, UndoHash(j) PROVE HashInv'
  <2> DEFINE s == jobs[j].screen
  <2>1. /\ UNCHANGED <<tokens, excused>> /\ jobs' = [jobs EXCEPT ![j] = NoJob]
        /\ rows' = [rows EXCEPT ![s].hash = NoToken]
    BY <1>5 DEF UndoHash, ghosts
  <2>2. s \in Screen
    BY <1>5 DEF UndoHash, TypeInv, JobsHaveScreens
  <2>3. jobs'[j] = NoJob /\ \A i \in Job : i # j => jobs'[i] = jobs[i]
    BY <2>1, <1>a
  <2>4. rows'[s].hash = 0 /\ \A r \in Screen : r # s => rows'[r] = rows[r]
    BY <2>1, <2>2, <1>a
  <2>5. Generated' /\ BeforeHash' /\ OwnRow'
    BY <2>1, <2>3, <2>4, <1>a, <1>b DEF Generated, BeforeHash, OwnRow, NoJob
  <2>6. NoOrphanHash'
    BY <2>1, <2>3, <2>4, <1>b DEF NoOrphanHash, OwnRow
  <2>7. QED
    BY <2>5, <2>6 DEF HashInv
<1>6. ASSUME NEW j \in Job, ApiDies(j) PROVE HashInv'
  <2>1. /\ UNCHANGED <<rows, tokens>> /\ jobs' = [jobs EXCEPT ![j] = NoJob]
        /\ excused' = excused \cup {jobs[j].token}
    BY <1>6 DEF ApiDies
  <2>2. jobs'[j] = NoJob /\ \A i \in Job : i # j => jobs'[i] = jobs[i]
    BY <2>1, <1>a
  <2>3. QED
    BY <2>1, <2>2, <1>a, <1>b
    DEF HashInv, Generated, BeforeHash, OwnRow, NoOrphanHash, NoJob
<1>7. ASSUME NEW s \in Screen, HandToken(s) PROVE HashInv'
  <2>1. /\ tokens' = tokens + 1 /\ excused' = excused \cup {tokens'} /\ UNCHANGED jobs
        /\ rows' = [rows EXCEPT ![s].hash = tokens']
    BY <1>7 DEF HandToken
  <2>2. rows'[s].hash = tokens' /\ \A r \in Screen : r # s => rows'[r] = rows[r]
    BY <2>1, <1>a
  <2>3. Generated' /\ BeforeHash'
    BY <2>1, <2>2, <1>a, <1>b DEF Generated, BeforeHash
  <2>4. OwnRow'
    BY <2>1, <2>2, <1>a, <1>b DEF OwnRow, Generated
  <2>5. NoOrphanHash'
    BY <2>1, <2>2, <1>b DEF NoOrphanHash
  <2>6. QED
    BY <2>3, <2>4, <2>5 DEF HashInv
<1>8. ASSUME NEW s \in Screen, SetActive(s) \/ DeleteScreen(s) PROVE HashInv'
  <2>1. UNCHANGED <<jobs, tokens, excused>>
    BY <1>8 DEF SetActive, DeleteScreen
  <2>2. \A r \in Screen : rows'[r].hash = rows[r].hash \/ rows'[r].hash = 0
    BY <1>8, <1>a DEF SetActive, DeleteScreen
  <2>3. QED
    BY <2>1, <2>2, <1>a, <1>b DEF HashInv, Generated, BeforeHash, OwnRow, NoOrphanHash
<1>9. ASSUME NEW t \in Tv,
             \/ Connect(t) \/ Drop(t) \/ Reload(t) \/ TogglePicker(t) \/ Heartbeat(t)
             \/ OnRejected(t) \/ OnComplete(t) \/ OnExpired(t) \/ OnWait(t) \/ PairTtl(t)
             \/ \E s \in Identity : Select(t, s)
             \/ \E dbRead \in BOOLEAN : OnRegister(t, dbRead)
      PROVE  UNCHANGED <<rows, jobs, tokens, excused>>
  BY <1>9 DEF Connect, Drop, Reload, TogglePicker, Heartbeat, OnRejected, OnComplete,
              OnExpired, OnWait, PairTtl, Select, OnRegister, api, ghosts
<1>10. CASE UNCHANGED vars
  BY <1>10, <1>1 DEF vars, api, ghosts
<1>11. QED
  BY <1>1, <1>2, <1>3, <1>4, <1>5, <1>6, <1>7, <1>8, <1>9, <1>10 DEF Next

\* No row is ever locked by a token that nobody was given, whichever requests
\* overlap, fail to deliver, or die with the web server.
THEOREM HashesHaveOwners == Spec => []NoOrphanHash
<1>1. HashInv => NoOrphanHash
  BY DEF HashInv
<1>2. QED
  BY <1>1, InitType, NextType, InitHash, NextHash, PTL DEF Spec

-----------------------------------------------------------------------------
(* The code on show is the last one the television asked to wait for, and  *)
(* what it asked for last is what it gets.                                 *)

LastWait(t, i) ==
  up[t][i].ev = "wait" /\ \A n \in 1..Len(up[t]) : i < n => up[t][n].ev # "wait"

\* A code is shown by televisions without identity only, and the last wait on the
\* wire is for it.
AwaitAt(t) ==
  /\ shown[t] # NoCode => key[t] = NoScreen
  /\ conn[t] /\ shown[t] # NoCode =>
       \A i \in 1..Len(up[t]) : LastWait(t, i) => up[t][i].code = shown[t]
  /\ conn[t] /\ shown[t] # NoCode /\ ~UnderWay(t) /\ attempts[t] <= PAIR_MAX_ATTEMPTS
       => room[t] = shown[t]

AwaitInv == \A t \in Tv : AwaitAt(t)

LEMMA Untouched ==
  ASSUME NEW u \in Tv, AwaitAt(u), conn'[u] = conn[u], up'[u] = up[u], down'[u] = down[u],
         attempts'[u] = attempts[u], room'[u] = room[u], shown'[u] = shown[u], key'[u] = key[u]
  PROVE  AwaitAt(u)'
  BY DEF AwaitAt, LastWait, UnderWay

\* A television that sends a wait for the code it now shows.
LEMMA Announced ==
  ASSUME TypeOK, NEW t \in Tv, NEW c \in Code0, NEW ms \in Seq(UpMessage),
         SendUp(t, ms), ms # << >>, ms[Len(ms)] = WaitFor(c),
         shown'[t] = c, key'[t] = NoScreen
  PROVE  AwaitAt(t)'
<1> DEFINE last == Len(up'[t])
<1>1. up[t] \in Seq(UpMessage) /\ up'[t] = up[t] \o ms /\ Len(up[t]) \in Nat /\ Len(ms) \in Nat \ {0}
  BY SendType, LenProperties, EmptySeq DEF TypeOK, WireOK
<1>2. last = Len(up[t]) + Len(ms)
  BY <1>1, ConcatProperties
<1>3. last \in 1..last /\ last \in 1..Len(up[t]) + Len(ms) /\ ~(last <= Len(up[t])) /\ last - Len(up[t]) = Len(ms)
  BY <1>1, <1>2
<1>4. up'[t][last] = WaitFor(c)
  BY <1>1, <1>3, ConcatProperties
<1>5. UnderWay(t)'
  BY <1>3, <1>4 DEF UnderWay, WaitFor
<1>6. ASSUME NEW i \in 1..last, LastWait(t, i)' PROVE i = last
  <2>1. ~(i < last)
    BY <1>3, <1>4, <1>6 DEF LastWait, WaitFor
  <2>2. last \in Nat
    BY <1>1, <1>2
  <2> HIDE DEF last
  <2>3. QED
    BY <2>1, <2>2
<1>7. QED
  BY <1>4, <1>5, <1>6 DEF AwaitAt, WaitFor

\* A message that is neither lost waits nor lost expiries leaves the claim alone.
LEMMA DownKept ==
  ASSUME TypeOK, NEW t \in Tv, down[t] # << >>, Head(down[t]).ev # "expired",
         down' = [down EXCEPT ![t] = Tail(@)],
         NEW i \in 1..Len(down[t]), down[t][i].ev = "expired"
  PROVE  \E n \in 1..Len(down'[t]) : down'[t][n].ev = "expired"
<1>1. /\ down[t] \in Seq(DownMessage) /\ down'[t] = Tail(down[t]) /\ Len(down[t]) \in Nat
      /\ Head(down[t]) = down[t][1]
  BY LenProperties DEF TypeOK, WireOK
<1>2. /\ Len(down'[t]) = Len(down[t]) - 1
      /\ \A n \in 1..Len(down'[t]) : down'[t][n] = down[t][n + 1]
  BY <1>1, HeadTailProperties
<1>3. i # 1
  BY <1>1
<1>4. i - 1 \in 1..Len(down'[t]) /\ (i - 1) + 1 = i
  BY <1>1, <1>2, <1>3
<1>5. QED
  BY <1>2, <1>4

LEMMA DownGrown ==
  ASSUME TypeOK, NEW t \in Tv, NEW m \in DownMessage, down'[t] = Append(down[t], m)
  PROVE  /\ \A i \in 1..Len(down[t]) : i \in 1..Len(down'[t]) /\ down'[t][i] = down[t][i]
         /\ Len(down'[t]) \in 1..Len(down'[t]) /\ down'[t][Len(down'[t])] = m
<1>1. down[t] \in Seq(DownMessage) /\ Len(down[t]) \in Nat
  BY LenProperties DEF TypeOK, WireOK
<1>2. QED
  BY <1>1, AppendProperties

\* What is left on the wire after the service has taken a message.
LEMMA UpTaken ==
  ASSUME TypeOK, NEW t \in Tv, up[t] # << >>, up' = [up EXCEPT ![t] = Tail(@)]
  PROVE  /\ Len(up[t]) \in Nat \ {0} /\ Len(up'[t]) = Len(up[t]) - 1
         /\ \A n \in 1..Len(up'[t]) : n + 1 \in 1..Len(up[t]) /\ up'[t][n] = up[t][n + 1]
         /\ \A n \in 1..Len(up[t]) : n # 1 => n - 1 \in 1..Len(up'[t]) /\ up'[t][n - 1] = up[t][n]
         /\ Head(up[t]) = up[t][1]
<1>1. /\ up[t] \in Seq(UpMessage) /\ up'[t] = Tail(up[t])
      /\ Len(up[t]) \in Nat \ {0} /\ Head(up[t]) = up[t][1]
  BY LenProperties, EmptySeq DEF TypeOK, WireOK
<1>2. /\ Len(up'[t]) = Len(up[t]) - 1
      /\ \A n \in 1..Len(up'[t]) : up'[t][n] = up[t][n + 1]
  BY <1>1, HeadTailProperties
<1>3. \A n \in 1..Len(up'[t]) : n + 1 \in 1..Len(up[t])
  BY <1>1, <1>2
<1>4. \A n \in 1..Len(up[t]) : n # 1 => n - 1 \in 1..Len(up'[t]) /\ (n - 1) + 1 = n
  BY <1>1, <1>2
<1>5. QED
  BY <1>1, <1>2, <1>3, <1>4

LEMMA LastWaitTaken ==
  ASSUME TypeOK, NEW t \in Tv, up[t] # << >>, up' = [up EXCEPT ![t] = Tail(@)],
         NEW n \in 1..Len(up'[t]), LastWait(t, n)'
  PROVE  n + 1 \in 1..Len(up[t]) /\ LastWait(t, n + 1) /\ up[t][n + 1] = up'[t][n]
<1>1. n + 1 \in 1..Len(up[t]) /\ up'[t][n] = up[t][n + 1]
  BY UpTaken
<1>2. ASSUME NEW k \in 1..Len(up[t]), n + 1 < k PROVE up[t][k].ev # "wait"
  <2>1. k # 1 /\ n < k - 1
    BY <1>2
  <2>2. k - 1 \in 1..Len(up'[t]) /\ up'[t][k - 1] = up[t][k]
    BY <2>1, UpTaken
  <2>3. QED
    BY <2>1, <2>2 DEF LastWait
<1>3. QED
  BY <1>1, <1>2 DEF LastWait

\* The effect of the picker and the identity on the code.
LEMMA PairEffectAwait ==
  ASSUME TypeOK, NEW t \in Tv, AwaitAt(t), NEW p \in BOOLEAN, NEW k \in Identity,
         PairEffect(t, p, k), key'[t] = k, shown[t] # NoCode => k = NoScreen,
         UNCHANGED <<conn, attempts, room>>,
         \A i \in 1..Len(down[t]) : down[t][i].ev = "expired" =>
           \E n \in 1..Len(down'[t]) : down'[t][n].ev = "expired"
  PROVE  AwaitAt(t)'
<1>1. CASE UNCHANGED <<shown, linked, up>>
  <2>1. UnderWay(t) => UnderWay(t)'
    BY <1>1 DEF UnderWay
  <2>2. QED
    BY <1>1, <2>1 DEF AwaitAt, LastWait
<1>2. CASE k = NoScreen /\ \E c \in 1..MaxCode :
             Draws(t, c) /\ SendUp(t, IF conn[t] THEN <<WaitFor(c)>> ELSE << >>)
  <2>1. PICK c \in 1..MaxCode :
          Draws(t, c) /\ SendUp(t, IF conn[t] THEN <<WaitFor(c)>> ELSE << >>)
    BY <1>2
  <2>2. shown'[t] = c /\ c \in Code0
    BY <2>1, DrawsType, ConstantTypes DEF TypeOK
  <2>3. CASE conn[t]
    <3>1. <<WaitFor(c)>> \in Seq(UpMessage) /\ <<WaitFor(c)>> # << >>
          /\ <<WaitFor(c)>>[Len(<<WaitFor(c)>>)] = WaitFor(c)
      BY <2>2, MessageTypes
    <3>2. SendUp(t, <<WaitFor(c)>>)
      BY <2>1, <2>3
    <3>3. QED
      BY <3>1, <3>2, <2>2, <1>2, Announced
  <2>4. CASE ~conn[t]
    BY <2>4, <1>2 DEF AwaitAt
  <2>5. QED
    BY <2>3, <2>4
<1>3. QED
  BY <1>1, <1>2 DEF PairEffect

LEMMA LoadAwait ==
  ASSUME TypeOK, NEW t \in Tv, LoadPage(t), key' \in [Tv -> Identity]
  PROVE  AwaitAt(t)'
<1>1. ~conn'[t]
  BY DEF LoadPage, SocketCloses, TypeOK, WireOK
<1>2. CASE key'[t] = NoScreen
  BY <1>1, <1>2 DEF AwaitAt
<1>3. CASE key'[t] # NoScreen
  <2>1. shown'[t] = NoCode
    BY <1>3 DEF LoadPage, TypeOK, TvOK
  <2>2. QED
    BY <2>1 DEF AwaitAt
<1>4. QED
  BY <1>2, <1>3

LEMMA TvNextAwait ==
  ASSUME TypeOK, NEW t \in Tv, AwaitAt(t),
         \/ Connect(t) \/ Drop(t) \/ Reload(t) \/ TogglePicker(t) \/ Heartbeat(t)
         \/ OnRejected(t) \/ OnComplete(t) \/ OnExpired(t)
         \/ \E s \in Identity : Select(t, s)
  PROVE  AwaitAt(t)'
<1>a. ApiOK /\ ServiceOK /\ WireOK /\ TvOK /\ GhostsOK
  BY DEF TypeOK
<1>b. RegisterAs(key[t], token[t]) \in UpMessage /\ WaitFor(shown[t]) \in UpMessage
  BY <1>a, MessageTypes DEF TvOK
<1>1. CASE Connect(t)
  <2>0. UNCHANGED <<shown, key>>
    BY <1>1 DEF Connect, tvs, store, view
  <2>1. CASE shown[t] = NoCode
    BY <2>0, <2>1 DEF AwaitAt
  <2>2. CASE shown[t] # NoCode
    <3> DEFINE ms == <<RegisterAs(key[t], token[t])>> \o <<WaitFor(shown[t])>>
    <3>1. key[t] = NoScreen /\ SendUp(t, ms)
      BY <1>1, <2>2 DEF Connect, AwaitAt
    <3>2. ms \in Seq(UpMessage) /\ ms # << >> /\ ms[Len(ms)] = WaitFor(shown[t])
      <4>1. /\ <<RegisterAs(key[t], token[t])>> \in Seq(UpMessage)
            /\ <<WaitFor(shown[t])>> \in Seq(UpMessage)
            /\ Len(<<RegisterAs(key[t], token[t])>>) = 1 /\ Len(<<WaitFor(shown[t])>>) = 1
            /\ <<WaitFor(shown[t])>>[1] = WaitFor(shown[t])
        BY <1>b
      <4>2. ms \in Seq(UpMessage) /\ Len(ms) = 2
        BY <4>1, ConcatProperties
      <4>3. ms[2] = <<WaitFor(shown[t])>>[2 - 1]
        BY <4>1, ConcatProperties
      <4>4. QED
        BY <4>1, <4>2, <4>3, EmptySeq
    <3>3. shown[t] \in Code0
      BY <1>a DEF TvOK
    <3> HIDE DEF ms
    <3>4. QED
      BY <2>0, <3>1, <3>2, <3>3, Announced
  <2>3. QED
    BY <2>1, <2>2
<1>2. CASE Drop(t)
  <2>1. ~conn'[t] /\ UNCHANGED <<shown, key>>
    BY <1>2, <1>a DEF Drop, SocketCloses, tvs, store, view, WireOK
  <2>2. QED
    BY <2>1 DEF AwaitAt
<1>3. CASE Reload(t)
  BY <1>3, <1>a, LoadAwait DEF Reload, store, TvOK
<1>4. CASE \E s \in Identity : Select(t, s)
  BY <1>4, <1>a, LoadAwait DEF Select, TvOK
<1>5. CASE TogglePicker(t)
  <2>1. key[t] \in Identity /\ (~picker[t]) \in BOOLEAN
    BY <1>a DEF TvOK
  <2>2. /\ PairEffect(t, ~picker[t], key[t])
        /\ UNCHANGED <<key, conn, attempts, room, down>>
    BY <1>5 DEF TogglePicker, service, store
  <2>3. shown[t] # NoCode => key[t] = NoScreen
    BY DEF AwaitAt
  <2>4. QED
    BY <2>1, <2>2, <2>3, PairEffectAwait
<1>6. CASE Heartbeat(t)
  <2>1. <<WaitFor(shown[t])>> \in Seq(UpMessage) /\ <<WaitFor(shown[t])>> # << >>
        /\ <<WaitFor(shown[t])>>[Len(<<WaitFor(shown[t])>>)] = WaitFor(shown[t])
    BY <1>b
  <2>2. /\ SendUp(t, <<WaitFor(shown[t])>>) /\ key[t] = NoScreen
        /\ UNCHANGED <<shown, key>> /\ shown[t] \in Code0
    BY <1>6, <1>a DEF Heartbeat, tvs, store, view, TvOK
  <2>3. QED
    BY <2>1, <2>2, Announced
<1>7. CASE OnRejected(t)
  <2> DEFINE forgets == Head(down[t]).reason = "bad-token" /\ token[t] # NoToken
             k == IF forgets THEN NoScreen ELSE key[t]
  <2>1. k \in Identity /\ key'[t] = k /\ PairEffect(t, TRUE, k)
        /\ UNCHANGED <<conn, attempts, room>>
    BY <1>7, <1>a, ConstantTypes DEF OnRejected, service, TvOK
  <2>2. shown[t] # NoCode => k = NoScreen
    BY DEF AwaitAt
  <2>3. /\ down[t] # << >> /\ Head(down[t]).ev # "expired"
        /\ down' = [down EXCEPT ![t] = Tail(@)]
    BY <1>7 DEF OnRejected, Receives
  <2>4. \A i \in 1..Len(down[t]) : down[t][i].ev = "expired" =>
          \E n \in 1..Len(down'[t]) : down'[t][n].ev = "expired"
    BY <2>3, DownKept
  <2> HIDE DEF k
  <2>5. QED
    BY <2>1, <2>2, <2>4, PairEffectAwait
<1>8. CASE OnComplete(t)
  <2>1. shown'[t] = NoCode
    BY <1>8, <1>a DEF OnComplete, TvOK
  <2>2. QED
    BY <2>1 DEF AwaitAt
<1>9. CASE OnExpired(t)
  <2>1. CASE shown[t] = NoCode
    <3>1. shown'[t] = NoCode
      BY <1>9, <2>1 DEF OnExpired
    <3>2. QED
      BY <3>1 DEF AwaitAt
  <2>2. CASE shown[t] # NoCode
    <3>1. PICK c \in 1..MaxCode : Draws(t, c) /\ SendUp(t, <<WaitFor(c)>>)
      BY <1>9, <2>2 DEF OnExpired
    <3>2. shown'[t] = c /\ c \in Code0
      BY <3>1, <1>a, DrawsType, ConstantTypes
    <3>3. <<WaitFor(c)>> \in Seq(UpMessage) /\ <<WaitFor(c)>> # << >>
          /\ <<WaitFor(c)>>[Len(<<WaitFor(c)>>)] = WaitFor(c)
      BY <3>2, MessageTypes
    <3>4. key'[t] = NoScreen
      BY <1>9, <2>2 DEF OnExpired, AwaitAt, store
    <3>5. QED
      BY <3>1, <3>2, <3>3, <3>4, Announced
  <2>3. QED
    BY <2>1, <2>2
<1>10. QED
  BY <1>1, <1>2, <1>3, <1>4, <1>5, <1>6, <1>7, <1>8, <1>9

\* The service takes a message: a wait is granted the room of its code.
LEMMA ServiceNextAwait ==
  ASSUME TypeOK, NEW t \in Tv, AwaitAt(t),
         \/ \E dbRead \in BOOLEAN : OnRegister(t, dbRead)
         \/ OnWait(t) \/ PairTtl(t)
  PROVE  AwaitAt(t)'
<1>a. ApiOK /\ ServiceOK /\ WireOK /\ TvOK /\ GhostsOK
  BY DEF TypeOK
<1>b. UNCHANGED <<conn, shown, key>>
  BY DEF OnRegister, OnWait, PairTtl, tvs, store, view
<1>1. CASE \E dbRead \in BOOLEAN : OnRegister(t, dbRead)
  <2>1. PICK dbRead \in BOOLEAN : OnRegister(t, dbRead)
    BY <1>1
  <2>2. /\ up[t] # << >> /\ Head(up[t]).ev = "register" /\ up' = [up EXCEPT ![t] = Tail(@)]
        /\ UNCHANGED <<attempts, room>>
    BY <2>1 DEF OnRegister, Serves
  <2>3. \A n \in 1..Len(up'[t]) : LastWait(t, n)' =>
          n + 1 \in 1..Len(up[t]) /\ LastWait(t, n + 1) /\ up[t][n + 1] = up'[t][n]
    BY <2>2, LastWaitTaken
  <2>4. (\E i \in 1..Len(up[t]) : up[t][i].ev = "wait")
          => \E i \in 1..Len(up'[t]) : up'[t][i].ev = "wait"
    <3> SUFFICES ASSUME NEW i \in 1..Len(up[t]), up[t][i].ev = "wait"
                 PROVE  \E n \in 1..Len(up'[t]) : up'[t][n].ev = "wait"
      OBVIOUS
    <3>1. i # 1
      BY <2>2, UpTaken
    <3>2. i - 1 \in 1..Len(up'[t]) /\ up'[t][i - 1] = up[t][i]
      BY <2>2, <3>1, UpTaken
    <3>3. QED
      BY <3>2
  <2>5. (\E i \in 1..Len(down[t]) : down[t][i].ev = "expired")
          => \E i \in 1..Len(down'[t]) : down'[t][i].ev = "expired"
    <3>1. CASE UNCHANGED down
      BY <3>1
    <3>2. CASE \E v \in {"unknown", "inactive", "bad-token"} :
                 down' = [down EXCEPT ![t] = Append(@, [ev |-> "rejected", reason |-> v])]
      <4>1. PICK v \in {"unknown", "inactive", "bad-token"} :
              down' = [down EXCEPT ![t] = Append(@, [ev |-> "rejected", reason |-> v])]
        BY <3>2
      <4>2. down'[t] = Append(down[t], [ev |-> "rejected", reason |-> v])
        BY <4>1, <1>a DEF WireOK
      <4>3. \A i \in 1..Len(down[t]) : i \in 1..Len(down'[t]) /\ down'[t][i] = down[t][i]
        BY <4>2, MessageTypes, DownGrown
      <4>4. QED
        BY <4>3
    <3>3. CheckScreenAuth(Head(up[t]), dbRead)
            \in {"verified", "unverified", "unknown", "inactive", "bad-token"}
      BY DEF CheckScreenAuth
    <3>4. QED
      BY <2>1, <3>1, <3>2, <3>3 DEF OnRegister
  <2>6. UnderWay(t) => UnderWay(t)'
    BY <2>4, <2>5 DEF UnderWay
  <2>7. QED
    BY <1>b, <2>2, <2>3, <2>6 DEF AwaitAt
<1>2. CASE OnWait(t)
  <2> DEFINE n == attempts[t] + 1
  <2>1. /\ up[t] # << >> /\ Head(up[t]).ev = "wait" /\ up' = [up EXCEPT ![t] = Tail(@)]
        /\ UNCHANGED down
    BY <1>2 DEF OnWait, Serves
  <2>2. \A i \in 1..Len(up'[t]) : LastWait(t, i)' =>
          i + 1 \in 1..Len(up[t]) /\ LastWait(t, i + 1) /\ up[t][i + 1] = up'[t][i]
    BY <2>1, LastWaitTaken
  <2>3. ASSUME conn[t], shown[t] # NoCode, ~UnderWay(t)', attempts'[t] <= PAIR_MAX_ATTEMPTS
        PROVE  room'[t] = shown[t]
    <3>1. 1 \in 1..Len(up[t]) /\ up[t][1] = Head(up[t])
      BY <2>1, UpTaken
    <3>2. ASSUME NEW i \in 1..Len(up[t]), 1 < i PROVE up[t][i].ev # "wait"
      <4>0. i # 1
        BY <3>2
      <4>1. i - 1 \in 1..Len(up'[t]) /\ up'[t][i - 1] = up[t][i]
        BY <2>1, <4>0, UpTaken
      <4>2. QED
        BY <2>3, <4>1 DEF UnderWay
    <3>3. Head(up[t]).code = shown[t]
      BY <2>1, <2>3, <3>1, <3>2 DEF LastWait, AwaitAt
    <3>4. ~(n > PAIR_MAX_ATTEMPTS)
      BY <1>2, <2>3, <1>a, PairBounds DEF OnWait, ServiceOK
    <3>5. QED
      BY <3>3, <3>4, <1>2, <1>a DEF OnWait, ServiceOK
  <2>4. QED
    BY <1>b, <2>2, <2>3 DEF AwaitAt
<1>3. CASE PairTtl(t)
  <2>1. /\ down'[t] = Append(down[t], [ev |-> "expired"])
        /\ UNCHANGED up
    BY <1>3, <1>a DEF PairTtl, WireOK
  <2>2. UnderWay(t)'
    BY <2>1, MessageTypes, DownGrown DEF UnderWay
  <2>3. QED
    BY <1>b, <2>1, <2>2 DEF AwaitAt, LastWait
<1>4. QED
  BY <1>1, <1>2, <1>3

LEMMA InitAwait == Init => AwaitInv
  BY DEF Init, AwaitInv, AwaitAt

LEMMA NextAwait == TypeInv /\ AwaitInv /\ [Next]_vars => AwaitInv'
<1> SUFFICES ASSUME TypeInv, AwaitInv, [Next]_vars, NEW u \in Tv PROVE AwaitAt(u)'
  BY DEF AwaitInv
<1>a. TypeOK /\ ApiOK /\ ServiceOK /\ WireOK /\ TvOK /\ AwaitAt(u)
  BY DEF TypeInv, TypeOK, AwaitInv
<1> DEFINE Same == /\ conn'[u] = conn[u] /\ up'[u] = up[u] /\ down'[u] = down[u]
                   /\ attempts'[u] = attempts[u] /\ room'[u] = room[u]
                   /\ shown'[u] = shown[u] /\ key'[u] = key[u]
<1>b. Same => AwaitAt(u)'
  BY <1>a, Untouched
<1>1. CASE UNCHANGED vars
  BY <1>1, <1>b DEF vars, service, wire, tvs, store, view
<1>2. ASSUME NEW t \in Tv,
             \/ Connect(t) \/ Drop(t) \/ Reload(t) \/ TogglePicker(t) \/ Heartbeat(t)
             \/ OnRejected(t) \/ OnComplete(t) \/ OnExpired(t)
             \/ \E s \in Identity : Select(t, s)
      PROVE  AwaitAt(u)'
  <2>1. CASE u = t
    BY <2>1, <1>2, <1>a, TvNextAwait
  <2>2. CASE u # t
    <3>1. CASE Connect(t) \/ Heartbeat(t)
      BY <3>1, <2>2, <1>a, <1>b
      DEF Connect, Heartbeat, SendUp, service, tvs, store, view, WireOK
    <3>2. CASE Drop(t)
      BY <3>2, <2>2, <1>a, <1>b
      DEF Drop, SocketCloses, tvs, store, view, WireOK, ServiceOK
    <3>3. CASE Reload(t) \/ \E s \in Identity : Select(t, s)
      BY <3>3, <2>2, <1>a, <1>b
      DEF Reload, Select, LoadPage, SocketCloses, Draws, store, WireOK, ServiceOK, TvOK
    <3>4. CASE TogglePicker(t) \/ OnRejected(t)
      BY <3>4, <2>2, <1>a, <1>b
      DEF TogglePicker, OnRejected, Receives, PairEffect, Draws, SendUp, service, store, WireOK, TvOK
    <3>5. CASE OnComplete(t) \/ OnExpired(t)
      BY <3>5, <2>2, <1>a, <1>b
      DEF OnComplete, OnExpired, Receives, Draws, SendUp, service, store, WireOK, TvOK
    <3>6. QED
      BY <1>2, <3>1, <3>2, <3>3, <3>4, <3>5
  <2>3. QED
    BY <2>1, <2>2
<1>3. ASSUME NEW t \in Tv,
             \/ \E dbRead \in BOOLEAN : OnRegister(t, dbRead)
             \/ OnWait(t) \/ PairTtl(t)
      PROVE  AwaitAt(u)'
  <2>1. CASE u = t
    BY <2>1, <1>3, <1>a, ServiceNextAwait
  <2>2. CASE u # t
    BY <1>3, <2>2, <1>a, <1>b
    DEF OnRegister, OnWait, PairTtl, Serves, tvs, store, view, WireOK, ServiceOK
  <2>3. QED
    BY <2>1, <2>2
<1>4. ASSUME NEW j \in Job, NEW reached \in BOOLEAN, NEW answered \in BOOLEAN,
             BroadcastToRoom(j, reached, answered)
      PROVE  AwaitAt(u)'
  <2> DEFINE b == jobs[j]
             m == [ev |-> "complete", screen |-> b.screen, token |-> b.token]
  <2>1. UNCHANGED <<conn, up, attempts, room, shown, key>>
    BY <1>4 DEF BroadcastToRoom, service, tvs, store, view
  <2>2. CASE down'[u] = down[u]
    BY <2>1, <2>2, <1>b
  <2>3. CASE down'[u] = Append(down[u], m)
    <3>1. m \in DownMessage
      <4>1. b.screen \in Screen /\ b.token \in Token0
        BY <1>4, <1>a DEF BroadcastToRoom, ApiOK, TypeInv, JobsHaveScreens
      <4>2. QED
        BY <4>1, MessageTypes
    <3> HIDE DEF m
    <3>2. \A i \in 1..Len(down[u]) : i \in 1..Len(down'[u]) /\ down'[u][i] = down[u][i]
      BY <2>3, <3>1, <1>a, DownGrown
    <3>3. UnderWay(u) => UnderWay(u)'
      BY <3>2, <2>1 DEF UnderWay
    <3>4. QED
      BY <2>1, <3>3, <1>a DEF AwaitAt, LastWait
  <2>4. QED
    BY <1>4, <2>2, <2>3, <1>a DEF BroadcastToRoom, WireOK
<1>5. ASSUME NEW j \in Job,
             \/ \E s \in Screen, t \in Tv \cup {NoTv}, c \in Code0 :
                  StartLink(j, s, t, c) \/ StartCreate(j, s, t, c)
             \/ WriteHash(j) \/ UndoHash(j) \/ ApiDies(j)
      PROVE  AwaitAt(u)'
  BY <1>5, <1>b DEF StartLink, StartCreate, Starts, WriteHash, UndoHash, ApiDies,
                    service, wire, tvs, store, view
<1>6. ASSUME NEW s \in Screen, HandToken(s) \/ SetActive(s) \/ DeleteScreen(s)
      PROVE  AwaitAt(u)'
  BY <1>6, <1>b DEF HandToken, SetActive, DeleteScreen, service, wire, tvs, store, view
<1>7. QED
  BY <1>1, <1>2, <1>3, <1>4, <1>5, <1>6 DEF Next

\* The code a television shows can be linked, whatever expired, broke or was
\* reloaded before, unless a renewal is on its way or its socket has used up its waits.
THEOREM CodesAreAwaited == Spec => []AwaitedUnlessBlocked
<1>1. AwaitInv => AwaitedUnlessBlocked
  BY DEF AwaitInv, AwaitAt, AwaitedUnlessBlocked
<1>2. QED
  BY <1>1, InitType, NextType, InitAwait, NextAwait, PTL DEF Spec

=============================================================================
