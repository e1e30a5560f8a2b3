---------------------------- MODULE ScreenPairing ----------------------------
(***************************************************************************)
(* How a television gets and keeps its identity. An unpaired TV shows a    *)
(* six-digit code and waits in the room of that code at the realtime       *)
(* service; an administrator types the code; the API writes the hash of a  *)
(* new token on the Screen row and broadcasts the token to the room; the   *)
(* TV stores it and registers with it. A TV whose token is refused forgets *)
(* it and shows a new code.                                                *)
(*                                                                         *)
(* A TV and its socket are joined by two FIFO channels (socket.io keeps    *)
(* the order of a connection and drops what is under way when it breaks).  *)
(* A token stands for its own hash. Codes are random: the codes of two TVs *)
(* differ, so a code is a pair (TV, number) and a TV never draws one of    *)
(* its own that is still in use somewhere.                                 *)
(***************************************************************************)
EXTENDS Naturals, Sequences, FiniteSets

CONSTANTS
  Tv,                 \* televisions
  Screen,             \* Screen rows (their codes, TV-001 ...)
  Job,                \* requests of the API that may be under way together
  PAIR_MAX_ATTEMPTS,  \* pair:wait requests a socket may make
  Hasty,              \* may a code be linked twice, or while messages fly?
  MaxCode,            \* bound: codes of one TV in use at a time
  MaxToken,           \* bound: tokens ever generated
  MaxOps,             \* bound: drops, reloads, key presses, edits of rows
  MaxMsg              \* bound: messages under way when a TV sends another one

NoScreen == "ANON"    \* what a TV without identity registers as
NoTv     == "nobody"  \* the TV of a mistyped code
NoToken  == 0
NoCode   == 0

ASSUME ScreenAssumption == NoScreen \notin Screen /\ NoTv \notin Tv /\ Hasty \in BOOLEAN
ASSUME PairBounds == /\ PAIR_MAX_ATTEMPTS \in Nat /\ MaxCode \in Nat
                     /\ MaxToken \in Nat /\ MaxOps \in Nat /\ MaxMsg \in Nat

Identity == Screen \cup {NoScreen}
Token0   == 0..MaxToken
Code0    == 0..MaxCode
Entry    == [screen : Identity, verified : BOOLEAN]
NoEntry  == [screen |-> NoScreen, verified |-> FALSE]

\* TV to service, and service to TV.
UpMessage   == [ev : {"register"}, screen : Identity, token : Token0]
                 \cup [ev : {"wait"}, code : Code0]
DownMessage == [ev : {"rejected"}, reason : {"unknown", "inactive", "bad-token"}]
                 \cup [ev : {"complete"}, screen : Screen, token : Token0]
                 \cup [ev : {"expired"}]

JobStep == {"idle", "hash", "send", "resend", "undo"}
NoJob   == [step |-> "idle", screen |-> NoScreen, tv |-> NoTv,
            code |-> NoCode, token |-> NoToken]

VARIABLES
  \* --- SQLite, and the requests of the API
  rows,      \* [Screen -> [st : absent | on | off | deleted, hash]]
  jobs,      \* [Job -> request under way]
  tokens,    \* tokens generated so far
  \* --- realtime-service, per socket
  conn,      \* is the TV connected
  attempts,  \* pairAttempts
  room,      \* pairRoomOf: the code waited for, with its TTL running
  entry,     \* screens: the registration of the socket
  up, down,  \* messages under way
  \* --- television: localStorage, then memory
  key, token, chosen,
  shown,     \* pairCodeRef
  picker,    \* showPicker
  \* --- history and bound
  excused,   \* tokens handed to the administrator, delivered, or of a job that died
  linked,    \* was the code shown by the TV linked since it was drawn
  refused,   \* was the identity last registered refused for its row or the database
  ops

api     == <<rows, jobs, tokens>>
service == <<attempts, room, entry>>
wire    == <<conn, up, down>>
store   == <<key, token, chosen>>
view    == <<shown, picker>>
tvs     == <<store, view>>
ghosts  == <<excused, linked, refused, ops>>
vars    == <<api, service, wire, tvs, ghosts>>

ApiOK ==
  /\ rows \in [Screen -> [st : {"absent", "on", "off", "deleted"}, hash : Token0]]
  /\ jobs \in [Job -> [step : JobStep, screen : Identity, tv : Tv \cup {NoTv},
                       code : Code0, token : Token0]]
  /\ tokens \in Token0

ServiceOK ==
  /\ attempts \in [Tv -> 0..(PAIR_MAX_ATTEMPTS + 1)]
  /\ room \in [Tv -> Code0]
  /\ entry \in [Tv -> Entry]

WireOK ==
  /\ conn \in [Tv -> BOOLEAN]
  /\ up \in [Tv -> Seq(UpMessage)]
  /\ down \in [Tv -> Seq(DownMessage)]

TvOK ==
  /\ key \in [Tv -> Identity] /\ token \in [Tv -> Token0]
  /\ chosen \in [Tv -> BOOLEAN] /\ picker \in [Tv -> BOOLEAN]
  /\ shown \in [Tv -> Code0]

GhostsOK ==
  /\ excused \in SUBSET Token0
  /\ linked \in [Tv -> BOOLEAN]
  /\ refused \in [Tv -> BOOLEAN]
  /\ ops \in 0..MaxOps

TypeOK == ApiOK /\ ServiceOK /\ WireOK /\ TvOK /\ GhostsOK

\* New televisions, some rows created beforehand; the first page load has drawn a code.
Init ==
  /\ \E there \in SUBSET Screen :
       rows = [s \in Screen |-> [st |-> IF s \in there THEN "on" ELSE "absent",
                                 hash |-> NoToken]]
  /\ jobs = [j \in Job |-> NoJob] /\ tokens = 0
  /\ conn = [t \in Tv |-> FALSE] /\ attempts = [t \in Tv |-> 0]
  /\ room = [t \in Tv |-> NoCode] /\ entry = [t \in Tv |-> NoEntry]
  /\ up = [t \in Tv |-> << >>] /\ down = [t \in Tv |-> << >>]
  /\ key = [t \in Tv |-> NoScreen] /\ token = [t \in Tv |-> NoToken]
  /\ chosen = [t \in Tv |-> FALSE] /\ picker = [t \in Tv |-> TRUE]
  /\ shown = [t \in Tv |-> IF MaxCode = 0 THEN NoCode ELSE 1]
  /\ excused = {} /\ linked = [t \in Tv |-> FALSE]
  /\ refused = [t \in Tv |-> FALSE] /\ ops = 0

-----------------------------------------------------------------------------
(* Television: what its handlers share.                                    *)

RegisterAs(s, k) == [ev |-> "register", screen |-> s, token |-> k]
WaitFor(c)       == [ev |-> "wait", code |-> c]

SendUp(t, ms) == up' = [up EXCEPT ![t] = @ \o ms]

\* Codes of t that are in use nowhere, and the one it draws (any would do).
Fresh(t) == {c \in 1..MaxCode :
              /\ c # shown[t] /\ c # room[t]
              /\ \A i \in 1..Len(up[t]) : up[t][i] # WaitFor(c)
              /\ \A j \in Job : ~(jobs[j].tv = t /\ jobs[j].code = c)}

Draws(t, c) ==
  /\ c \in Fresh(t) /\ \A d \in Fresh(t) : c <= d
  /\ shown' = [shown EXCEPT ![t] = c]
  /\ linked' = [linked EXCEPT ![t] = FALSE]

\* Seeded fault: the code is shown, and waited for from the next heartbeat on.
PairEffect_Silent(t, newPicker, newKey) ==
  IF newPicker /\ newKey = NoScreen /\ <<newPicker, newKey>> # <<picker[t], key[t]>>
  THEN \E c \in 1..MaxCode : Draws(t, c) /\ UNCHANGED up
  ELSE UNCHANGED <<shown, linked, up>>

\* The effect on [showPicker, screenCode]: a TV that now shows the picker without
\* identity draws a code and, when connected, waits for it.
PairEffect(t, newPicker, newKey) ==
  IF newPicker /\ newKey = NoScreen /\ <<newPicker, newKey>> # <<picker[t], key[t]>>
  THEN \E c \in 1..MaxCode :
         Draws(t, c) /\ SendUp(t, IF conn[t] THEN <<WaitFor(c)>> ELSE << >>)
  ELSE UNCHANGED <<shown, linked, up>>

\* The socket breaks: the service forgets all it kept under its id.
SocketCloses(t) ==
  /\ conn' = [conn EXCEPT ![t] = FALSE]
  /\ up' = [up EXCEPT ![t] = << >>]
  /\ down' = [down EXCEPT ![t] = << >>]
  /\ attempts' = [attempts EXCEPT ![t] = 0]
  /\ room' = [room EXCEPT ![t] = NoCode]
  /\ entry' = [entry EXCEPT ![t] = NoEntry]
  /\ refused' = [refused EXCEPT ![t] = FALSE]

Operates == ops < MaxOps /\ ops' = ops + 1

-----------------------------------------------------------------------------
(* Television: its life and its user.                                      *)

\* The "connect" handler: register, and wait for the code shown.
Connect(t) ==
  /\ ~conn[t]
  /\ conn' = [conn EXCEPT ![t] = TRUE]
  /\ SendUp(t, <<RegisterAs(key[t], token[t])>>
               \o (IF key[t] = NoScreen /\ shown[t] # NoCode
                   THEN <<WaitFor(shown[t])>> ELSE << >>))
  /\ UNCHANGED <<api, service, down, tvs, ghosts>>

\* Network lost, or the realtime-service restarted.
Drop(t) ==
  /\ conn[t] /\ Operates
  /\ SocketCloses(t)
  /\ UNCHANGED <<api, tvs, excused, linked>>

\* The page loads anew: localStorage stays, memory does not.
LoadPage(t) ==
  /\ SocketCloses(t)
  /\ picker' = [picker EXCEPT ![t] = ~chosen'[t]]
  /\ IF picker'[t] /\ key'[t] = NoScreen
     THEN \E c \in 1..MaxCode : Draws(t, c)
     ELSE shown' = [shown EXCEPT ![t] = NoCode] /\ UNCHANGED linked

Reload(t) ==
  /\ Operates
  /\ UNCHANGED store
  /\ LoadPage(t)
  /\ UNCHANGED <<api, excused>>

\* A screen (or none) is picked from the list; the token is left where it is.
Select(t, s) ==
  /\ picker[t] /\ Operates
  /\ s \in Screen => rows[s].st = "on"
  /\ key' = [key EXCEPT ![t] = s]
  /\ chosen' = [chosen EXCEPT ![t] = TRUE]
  /\ UNCHANGED token
  /\ LoadPage(t)
  /\ UNCHANGED <<api, excused>>

\* Key S, or the picker's close button.
TogglePicker(t) ==
  /\ Operates /\ Len(up[t]) < MaxMsg
  /\ picker' = [picker EXCEPT ![t] = ~@]
  /\ PairEffect(t, ~picker[t], key[t])
  /\ UNCHANGED <<api, service, conn, down, store, excused, refused>>

\* The 15 s heartbeat repeats the wait of a TV without identity.
Heartbeat(t) ==
  /\ conn[t] /\ key[t] = NoScreen /\ shown[t] # NoCode
  /\ Len(up[t]) < MaxMsg
  /\ SendUp(t, <<WaitFor(shown[t])>>)
  /\ UNCHANGED <<api, service, conn, down, tvs, ghosts>>

-----------------------------------------------------------------------------
(* Television: events of the service.                                      *)

Receives(t, ev) ==
  /\ conn[t] /\ down[t] # << >> /\ Head(down[t]).ev = ev
  /\ down' = [down EXCEPT ![t] = Tail(@)]

\* Seeded fault: whatever the reason, the identity is forgotten.
OnRejected_AnyReason(t) ==
  /\ Receives(t, "rejected")
  /\ LET forgets == token[t] # NoToken IN
     /\ token' = [token EXCEPT ![t] = NoToken]
     /\ key' = [key EXCEPT ![t] = IF forgets THEN NoScreen ELSE @]
     /\ picker' = [picker EXCEPT ![t] = TRUE]
     /\ PairEffect(t, TRUE, IF forgets THEN NoScreen ELSE key[t])
  /\ UNCHANGED <<api, service, conn, chosen, excused, refused, ops>>

\* "screen:rejected": a refused token is forgotten with the identity; the picker opens.
OnRejected(t) ==
  /\ Receives(t, "rejected")
  /\ LET forgets == Head(down[t]).reason = "bad-token" /\ token[t] # NoToken IN
     /\ token' = [token EXCEPT ![t] = IF forgets THEN NoToken ELSE @]
     /\ key' = [key EXCEPT ![t] = IF forgets THEN NoScreen ELSE @]
     /\ picker' = [picker EXCEPT ![t] = TRUE]
     /\ PairEffect(t, TRUE, IF forgets THEN NoScreen ELSE key[t])
  /\ UNCHANGED <<api, service, conn, chosen, excused, refused, ops>>

\* Seeded fault: the identity is stored, for the next connection to use.
OnComplete_NoRegister(t) ==
  /\ Receives(t, "complete")
  /\ LET m == Head(down[t]) IN
     /\ key' = [key EXCEPT ![t] = m.screen]
     /\ token' = [token EXCEPT ![t] = m.token]
  /\ chosen' = [chosen EXCEPT ![t] = TRUE]
  /\ shown' = [shown EXCEPT ![t] = NoCode]
  /\ picker' = [picker EXCEPT ![t] = FALSE]
  /\ UNCHANGED <<api, service, conn, up, ghosts>>

\* "pair:complete": the identity is stored and used at once.
OnComplete(t) ==
  /\ Receives(t, "complete")
  /\ LET m == Head(down[t]) IN
     /\ key' = [key EXCEPT ![t] = m.screen]
     /\ token' = [token EXCEPT ![t] = m.token]
     /\ SendUp(t, <<RegisterAs(m.screen, m.token)>>)
  /\ chosen' = [chosen EXCEPT ![t] = TRUE]
  /\ shown' = [shown EXCEPT ![t] = NoCode]
  /\ picker' = [picker EXCEPT ![t] = FALSE]
  /\ UNCHANGED <<api, service, conn, ghosts>>

\* "pair:expired": a new code replaces the one shown, if there is one.
OnExpired(t) ==
  /\ Receives(t, "expired")
  /\ IF shown[t] = NoCode
     THEN UNCHANGED <<shown, linked, up>>
     ELSE \E c \in 1..MaxCode : Draws(t, c) /\ SendUp(t, <<WaitFor(c)>>)
  /\ UNCHANGED <<api, service, conn, store, picker, excused, refused, ops>>

-----------------------------------------------------------------------------
(* realtime-service.                                                       *)

Serves(t, ev) ==
  /\ conn[t] /\ up[t] # << >> /\ Head(up[t]).ev = ev
  /\ up' = [up EXCEPT ![t] = Tail(@)]

\* Seeded fault: an inactive screen is refused for a reason the TV does not know.
CheckScreenAuth_OtherReason(m, dbRead) ==
  IF ~dbRead \/ m.screen = NoScreen THEN "unknown"
  ELSE LET row == rows[m.screen] IN
       IF row.st \in {"absent", "deleted"} THEN "unknown"
       ELSE IF row.st = "off" THEN "disabled"
       ELSE IF row.hash = NoToken THEN "unverified"
       ELSE IF m.token # row.hash THEN "bad-token" ELSE "verified"

\* checkScreenAuth on the row; a locked database reads as no row.
CheckScreenAuth(m, dbRead) ==
  IF ~dbRead \/ m.screen = NoScreen THEN "unknown"
  ELSE LET row == rows[m.screen] IN
       IF row.st \in {"absent", "deleted"} THEN "unknown"
       ELSE IF row.st = "off" THEN "inactive"
       ELSE IF row.hash = NoToken THEN "unverified"
       ELSE IF m.token # row.hash THEN "bad-token" ELSE "verified"

\* "screen:register". A refusal leaves an earlier registration of the socket alone.
OnRegister(t, dbRead) ==
  /\ Serves(t, "register")
  /\ LET m == Head(up[t])  verdict == CheckScreenAuth(m, dbRead) IN
     /\ IF verdict \in {"verified", "unverified"}
        THEN /\ entry' = [entry EXCEPT ![t] = [screen |-> m.screen,
                                               verified |-> verdict = "verified"]]
             /\ UNCHANGED down
        ELSE /\ down' = [down EXCEPT ![t] =
                           Append(@, [ev |-> "rejected", reason |-> verdict])]
             /\ UNCHANGED entry
     /\ refused' = [refused EXCEPT ![t] = m.screen \in Screen /\ verdict \in {"unknown", "inactive"}]
  /\ UNCHANGED <<api, attempts, room, conn, tvs, excused, linked, ops>>

\* "pair:wait": one room per socket, a limited number of requests.
OnWait(t) ==
  /\ Serves(t, "wait")
  /\ LET n == attempts[t] + 1 IN
     /\ attempts' = [attempts EXCEPT ![t] = IF n > PAIR_MAX_ATTEMPTS
                                            THEN PAIR_MAX_ATTEMPTS + 1 ELSE n]
     /\ room' = [room EXCEPT ![t] = IF n > PAIR_MAX_ATTEMPTS THEN @ ELSE Head(up[t]).code]
  /\ UNCHANGED <<api, entry, conn, down, tvs, ghosts>>

\* The 10 minutes of a room are over.
PairTtl(t) ==
  /\ conn[t] /\ room[t] # NoCode
  /\ room' = [room EXCEPT ![t] = NoCode]
  /\ down' = [down EXCEPT ![t] = Append(@, [ev |-> "expired"])]
  /\ UNCHANGED <<api, attempts, entry, conn, up, tvs, ghosts>>

-----------------------------------------------------------------------------
(* Administrators and the API.                                             *)

Quiet(t) == up[t] = << >> /\ down[t] = << >>

\* What can be typed: the code a TV shows, or one that nobody shows. A code is read
\* off a screen that has been there for longer than messages take, and is linked
\* once. Hasty administrators do neither, and may type a code read before the TV went
\* on to another: its room stays until the TTL, after a completed pairing too.
Types(t, c) ==
  \/ t = NoTv /\ c = NoCode
  \/ t \in Tv /\ c = shown[t] /\ c # NoCode /\ Quiet(t) /\ ~linked[t]
  \/ Hasty /\ t \in Tv /\ c \in {shown[t], room[t]} \ {NoCode}

Typed(t) == linked' = (IF t = NoTv THEN linked ELSE [linked EXCEPT ![t] = TRUE])

Starts(j, s, t, c) ==
  /\ jobs[j] = NoJob
  /\ Types(t, c) /\ Typed(t)
  /\ jobs' = [jobs EXCEPT ![j] = [step |-> "hash", screen |-> s, tv |-> t,
                                  code |-> c, token |-> NoToken]]
  /\ UNCHANGED <<tokens, service, wire, tvs, excused, refused, ops>>

Exists(s) == rows[s].st \in {"on", "off"}

\* POST .../screens/[id]/token: the row is read ...
StartLink(j, s, t, c) ==
  /\ Exists(s)
  /\ Starts(j, s, t, c)
  /\ UNCHANGED rows

\* POST .../screens with a code: the row is created ... A deleted one is created again
\* when no request that began on the old row is under way: those keep its id.
StartCreate(j, s, t, c) ==
  /\ ~Exists(s) /\ \A i \in Job : jobs[i].screen # s
  /\ Starts(j, s, t, c)
  /\ rows' = [rows EXCEPT ![s].st = "on"]

\* ... and the hash of a new token is written before the token is sent.
WriteHash(j) ==
  /\ jobs[j].step = "hash" /\ tokens < MaxToken
  /\ tokens' = tokens + 1
  /\ LET s == jobs[j].screen IN
     IF Exists(s)
     THEN /\ rows' = [rows EXCEPT ![s].hash = tokens']
          /\ jobs' = [jobs EXCEPT ![j].step = "send", ![j].token = tokens']
     ELSE UNCHANGED rows /\ jobs' = [jobs EXCEPT ![j] = NoJob]
  /\ UNCHANGED <<service, wire, tvs, ghosts>>

Waiting(j) == LET b == jobs[j] IN b.tv \in Tv /\ conn[b.tv] /\ room[b.tv] = b.code

\* One POST /broadcast to the room, 3 s time-out: the service may be reached and its
\* answer lost. Counts the sockets in the room, twice before it gives up.
BroadcastToRoom(j, reached, answered) ==
  LET b == jobs[j] IN
  /\ b.step \in {"send", "resend"}
  /\ answered => reached
  /\ down' = (IF reached /\ Waiting(j)
              THEN [down EXCEPT ![b.tv] = Append(@, [ev |-> "complete", screen |-> b.screen,
                                                     token |-> b.token])]
              ELSE down)
  /\ IF answered /\ Waiting(j)
     THEN jobs' = [jobs EXCEPT ![j] = NoJob] /\ excused' = excused \cup {b.token}
     ELSE /\ jobs' = [jobs EXCEPT ![j].step = IF b.step = "send" THEN "resend" ELSE "undo"]
          /\ UNCHANGED excused
  /\ UNCHANGED <<rows, tokens, service, conn, up, tvs, linked, refused, ops>>

\* Seeded fault: the hash of the undelivered token stays.
UndoHash_Forgotten(j) ==
  /\ jobs[j].step = "undo"
  /\ jobs' = [jobs EXCEPT ![j] = NoJob]
  /\ UNCHANGED <<rows, tokens, service, wire, tvs, ghosts>>

\* Nobody was counted: the hash is cleared, whichever it is by now.
UndoHash(j) ==
  /\ jobs[j].step = "undo"
  /\ jobs' = [jobs EXCEPT ![j] = NoJob]
  /\ rows' = [rows EXCEPT ![jobs[j].screen].hash = NoToken]
  /\ UNCHANGED <<tokens, service, wire, tvs, ghosts>>

\* The web server restarts in the middle of a request.
ApiDies(j) ==
  /\ jobs[j].step # "idle" /\ Operates
  /\ jobs' = [jobs EXCEPT ![j] = NoJob]
  /\ excused' = excused \cup {jobs[j].token}
  /\ UNCHANGED <<rows, tokens, service, wire, tvs, linked, refused>>

\* The token route without a code: the token goes to the administrator.
HandToken(s) ==
  /\ Exists(s) /\ tokens < MaxToken
  /\ tokens' = tokens + 1
  /\ rows' = [rows EXCEPT ![s].hash = tokens']
  /\ excused' = excused \cup {tokens'}
  /\ UNCHANGED <<jobs, service, wire, tvs, linked, refused, ops>>

\* PUT .../screens/[id] { active }.
SetActive(s) ==
  /\ Exists(s) /\ Operates
  /\ rows' = [rows EXCEPT ![s].st = IF @ = "on" THEN "off" ELSE "on"]
  /\ UNCHANGED <<jobs, tokens, service, wire, tvs, excused, linked, refused>>

DeleteScreen(s) ==
  /\ Exists(s) /\ Operates
  /\ rows' = [rows EXCEPT ![s] = [st |-> "deleted", hash |-> NoToken]]
  /\ UNCHANGED <<jobs, tokens, service, wire, tvs, excused, linked, refused>>

-----------------------------------------------------------------------------
Next ==
  \/ \E t \in Tv : Connect(t)
  \/ \E t \in Tv : Drop(t)
  \/ \E t \in Tv : Reload(t)
  \/ \E t \in Tv, s \in Identity : Select(t, s)
  \/ \E t \in Tv : TogglePicker(t)
  \/ \E t \in Tv : Heartbeat(t)
  \/ \E t \in Tv : OnRejected(t)
  \/ \E t \in Tv : OnComplete(t)
  \/ \E t \in Tv : OnExpired(t)
  \/ \E t \in Tv, dbRead \in BOOLEAN : OnRegister(t, dbRead)
  \/ \E t \in Tv : OnWait(t)
  \/ \E t \in Tv : PairTtl(t)
  \/ \E j \in Job, s \in Screen, t \in Tv \cup {NoTv}, c \in Code0 : StartLink(j, s, t, c)
  \/ \E j \in Job, s \in Screen, t \in Tv \cup {NoTv}, c \in Code0 : StartCreate(j, s, t, c)
  \/ \E j \in Job : WriteHash(j)
  \/ \E j \in Job, reached, answered \in BOOLEAN : BroadcastToRoom(j, reached, answered)
  \/ \E j \in Job : UndoHash(j)
  \/ \E j \in Job : ApiDies(j)
  \/ \E s \in Screen : HandToken(s)
  \/ \E s \in Screen : SetActive(s)
  \/ \E s \in Screen : DeleteScreen(s)

Spec == Init /\ [][Next]_vars

\* A connection that stays carries its messages. Nothing is assumed of requests,
\* timers, administrators or users.
Fairness ==
  \A t \in Tv :
    /\ WF_vars((\E dbRead \in BOOLEAN : OnRegister(t, dbRead)) \/ OnWait(t))
    /\ WF_vars(OnRejected(t) \/ OnComplete(t) \/ OnExpired(t))

FairSpec == Spec /\ Fairness

-----------------------------------------------------------------------------
(* Properties.                                                             *)

UnderWay(t) ==
  \/ \E i \in 1..Len(up[t]) : up[t][i].ev = "wait"
  \/ \E i \in 1..Len(down[t]) : down[t][i].ev = "expired"

\* Does t hold the token its row asks for?
Current(t) ==
  token[t] # NoToken /\ key[t] \in Screen /\ rows[key[t]].hash = token[t]

\* The code on a screen can be linked: unless a renewal is under way or the limit
\* of its socket is used up, the service waits for that very code (TvDisplay 117-132,
\* 148-150, 188-196, 232; realtime-service 344-364).
AwaitedUnlessBlocked ==
  \A t \in Tv :
    conn[t] /\ shown[t] # NoCode /\ ~UnderWay(t) /\ attempts[t] <= PAIR_MAX_ATTEMPTS
      => room[t] = shown[t]

\* ScreenPicker.tsx 55: "El código caduca a los 10 minutos y se renueva solo": the code
\* on a connected screen can be linked, however long it has been there.
ShownCodeIsAwaited ==
  \A t \in Tv : conn[t] /\ shown[t] # NoCode /\ ~UnderWay(t) => room[t] = shown[t]

\* A row asks for a token only if a TV was sent it, an administrator was handed it, or a
\* request that has still to deliver or revert it is under way (or died with the web
\* server): none is locked by a token nobody has.
NoOrphanHash ==
  \A s \in Screen :
    rows[s].hash # NoToken =>
      \/ rows[s].hash \in excused
      \/ \E j \in Job : jobs[j].token = rows[s].hash

\* A TV forgets its token only when the row asks for another one, or for none: the
\* refusal of an old registration never costs a new token (TvDisplay 159-163).
NeverDiscardsGoodToken ==
  [][\A t \in Tv : token[t] # NoToken /\ token'[t] = NoToken => ~Current(t)]_vars

\* A TV that holds the current token and stays connected ends up registered as verified,
\* unless its registration was refused for an inactive row or a locked database.
DeliveredIsVerified ==
  \A t \in Tv :
    <>[](conn[t] /\ Current(t) /\ ~refused[t])
      => <>[](entry[t] = [screen |-> key[t], verified |-> TRUE])
=============================================================================
