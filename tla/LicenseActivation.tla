-------------------------- MODULE LicenseActivation --------------------------
(***************************************************************************)
(* The activation of licences by administrators, one action per await of   *)
(* activateLicenseToken (src/lib/licensing/index.ts) on the Prisma store,  *)
(* and the public summary of GET /api/license, which is cached until it    *)
(* ages or an activation moves the state epoch.                            *)
(*                                                                         *)
(* Tokens are well formed, signed and bound to this installation: what the *)
(* synchronous checks refuse never reaches the store. LicenseClock has the *)
(* evaluation of the record; here a reader only learns which record it was.*)
(***************************************************************************)
EXTENDS Integers, Sequences

CONSTANTS
  Token,       \* licences: [id, starts, expires]; ids may repeat
  NoToken,     \* no licence
  Unread,      \* what a failed database read leaves of the record
  Request,     \* activations in progress at a time
  Poller,      \* readers of /api/license
  GRACE,       \* days a licence is honoured after it ends
  MaxDay,      \* bound: latest day
  MaxSubmits,  \* bound: activations
  MaxFaults    \* bound: failed reads and writes, and restarts of the server

ASSUME TokenAssumption ==
  /\ NoToken \notin Token /\ Unread \notin Token \cup {NoToken}
  /\ \A t \in Token : t.starts \in Nat /\ t.expires \in Nat
ASSUME BoundAssumption ==
  GRACE \in Nat /\ MaxDay \in Nat /\ MaxSubmits \in Nat /\ MaxFaults \in Nat

VARIABLES
  today,      \* Date.now(), in days
  record,     \* LicenseState row
  history,    \* LicenseHistory table, in order of creation
  req,        \* [Request -> activation in progress]
  epoch,      \* stateEpoch
  cache,      \* public summary: [epoch, body], or NoEntry
  poll,       \* [Poller -> reading in progress]
  submits, faults,
  \* --- history
  disturbed   \* the promise of LicenceRegister is off (see Disturbs)

store  == <<record, history>>
server == <<epoch, cache, poll>>
counts == <<submits, faults>>
vars   == <<today, store, req, server, counts, disturbed>>

IdleReq == [pc |-> "idle", token |-> NoToken, day |-> 0, seen |-> NoToken]
IdlePoll == [pc |-> "idle", epoch |-> 0, body |-> NoToken]
NoEntry == [epoch |-> -1, body |-> NoToken]

\* What an activation is about to do.
Stage == {"idle", "current", "history", "save", "demote", "append", "notify", "bump"}

\* The row of the licence is written, its row in the history is not.
Pending == {r \in Request : req[r].pc \in {"demote", "append"}}

\* The record has changed, the epoch has not moved.
Unannounced == {r \in Request : req[r].pc \in {"demote", "append", "notify", "bump"}}

HistoryRow == [id : {t.id : t \in Token}, current : BOOLEAN]

StoreType ==
  /\ record \in Token \cup {NoToken}
  /\ history \in Seq(HistoryRow)

ReqType ==
  req \in [Request -> [pc : Stage, token : Token \cup {NoToken}, day : 0..MaxDay,
                      seen : Token \cup {NoToken}]]

ServerType ==
  /\ epoch \in Nat
  /\ cache \in [epoch : Nat \cup {-1}, body : Token \cup {NoToken, Unread}]
  /\ poll \in [Poller -> [pc : {"idle", "read", "store"}, epoch : Nat,
                          body : Token \cup {NoToken, Unread}]]

CountType ==
  /\ today \in 0..MaxDay
  /\ submits \in 0..MaxSubmits /\ faults \in 0..MaxFaults

TypeOK == StoreType /\ ReqType /\ ServerType /\ CountType /\ disturbed \in BOOLEAN

Init ==
  /\ today = 0
  /\ record = NoToken /\ history = <<>>
  /\ req = [r \in Request |-> IdleReq]
  /\ epoch = 0 /\ cache = NoEntry
  /\ poll = [p \in Poller |-> IdlePoll]
  /\ submits = 0 /\ faults = 0
  /\ disturbed = FALSE

-----------------------------------------------------------------------------
(* activateLicenseToken. An activation that is refused, or that fails, is  *)
(* over: nothing of it remains but the answer.                             *)

\* An access to the database that may fail.
Fails(ok) ==
  /\ ok \/ faults < MaxFaults
  /\ faults' = (IF ok THEN faults ELSE faults + 1)

Over(r)     == req' = [req EXCEPT ![r] = IdleReq]
Goto(r, pc) == req' = [req EXCEPT ![r].pc = pc]

\* A licence in force on a day; the day may precede its start if the clock was set back.
InForce(t, day) == t.starts <= day /\ day < t.expires + GRACE

HistoryIds == {history[i].id : i \in DOMAIN history}

\* The synchronous checks: only a token in force by the clock gets any further.
Submit(r, t) ==
  /\ req[r].pc = "idle" /\ submits < MaxSubmits
  /\ t.starts <= today /\ today < t.expires
  /\ submits' = submits + 1
  /\ req' = [req EXCEPT ![r] = [pc |-> "current", token |-> t, day |-> today,
                                seen |-> NoToken]]
  /\ UNCHANGED <<today, store, server, faults, disturbed>>

\* The record is read, or counts as absent when it cannot be. The token that is
\* already there is acknowledged, another token of that licence is refused.
ReadCurrent(r, ok) ==
  LET seen == IF ok THEN record ELSE NoToken IN
  /\ req[r].pc = "current"
  /\ Fails(ok)
  /\ IF seen # NoToken /\ seen.id = req[r].token.id
     THEN Over(r)
     ELSE req' = [req EXCEPT ![r].pc = "history", ![r].seen = seen]
  /\ disturbed' = (disturbed \/ ~ok)
  /\ UNCHANGED <<today, store, server, submits>>

\* Seeded fault: the end of the licence is compared with the day of activation.
Downgrades_WrongDate(t, current, day) ==
  /\ current # NoToken
  /\ InForce(current, day)
  /\ t.expires < day

Downgrades(t, current, day) ==
  /\ current # NoToken
  /\ InForce(current, day)
  /\ t.expires < current.expires

\* Seeded fault: the history is consulted for the licence that is current only.
ReadHistory_CurrentOnly(r, ok) ==
  /\ req[r].pc = "history"
  /\ Fails(ok)
  /\ IF \/ ok /\ \E i \in DOMAIN history : history[i].current /\ history[i].id = req[r].token.id
        \/ Downgrades(req[r].token, req[r].seen, req[r].day)
     THEN Over(r) ELSE Goto(r, "save")
  /\ disturbed' = (disturbed \/ ~ok)
  /\ UNCHANGED <<today, store, server, submits>>

\* Anti-replay by the history, and anti-downgrade by the licence read before.
ReadHistory(r, ok) ==
  /\ req[r].pc = "history"
  /\ Fails(ok)
  /\ IF \/ ok /\ req[r].token.id \in HistoryIds
        \/ Downgrades(req[r].token, req[r].seen, req[r].day)
     THEN Over(r) ELSE Goto(r, "save")
  /\ disturbed' = (disturbed \/ ~ok)
  /\ UNCHANGED <<today, store, server, submits>>

\* Two activations have crossed, or the clock says that the licence read has not begun.
Crossed(r) ==
  \/ record # req[r].seen
  \/ Pending # {}
  \/ req[r].seen # NoToken /\ req[r].day < req[r].seen.starts

\* The upsert of the record; when it throws, the request fails and nothing is saved.
Save(r, ok) ==
  /\ req[r].pc = "save"
  /\ Fails(ok)
  /\ IF ok
     THEN /\ record' = req[r].token
          /\ Goto(r, "demote")
          /\ disturbed' = (disturbed \/ Crossed(r))
     ELSE /\ Over(r)
          /\ UNCHANGED <<record, disturbed>>
  /\ UNCHANGED <<today, history, server, submits>>

Demoted(rows) == [i \in DOMAIN rows |-> [rows[i] EXCEPT !.current = FALSE]]

\* Seeded fault: the rows of the other licences stay current.
Demote_KeepsRows(r, ok) ==
  /\ req[r].pc = "demote"
  /\ Fails(ok)
  /\ Goto(r, IF ok THEN "append" ELSE "notify")
  /\ disturbed' = (disturbed \/ ~ok)
  /\ UNCHANGED <<today, store, server, submits>>

\* appendHistory: no row is current, then the new one is. Its failure is swallowed.
Demote(r, ok) ==
  /\ req[r].pc = "demote"
  /\ Fails(ok)
  /\ history' = (IF ok THEN Demoted(history) ELSE history)
  /\ Goto(r, IF ok THEN "append" ELSE "notify")
  /\ disturbed' = (disturbed \/ ~ok)
  /\ UNCHANGED <<today, record, server, submits>>

\* Seeded fault: the row is created without its flag.
CreateRow_NoFlag(r, ok) ==
  /\ req[r].pc = "append"
  /\ Fails(ok)
  /\ history' = (IF ok THEN Append(history, [id |-> req[r].token.id])
                 ELSE history)
  /\ Goto(r, "notify")
  /\ disturbed' = (disturbed \/ ~ok)
  /\ UNCHANGED <<today, record, server, submits>>

CreateRow(r, ok) ==
  /\ req[r].pc = "append"
  /\ Fails(ok)
  /\ history' = (IF ok THEN Append(history, [id |-> req[r].token.id, current |-> TRUE])
                 ELSE history)
  /\ Goto(r, "notify")
  /\ disturbed' = (disturbed \/ ~ok)
  /\ UNCHANGED <<today, record, server, submits>>

\* The audit row and content:update to the televisions, both best effort.
Notify(r) ==
  /\ req[r].pc = "notify"
  /\ Goto(r, "bump")
  /\ UNCHANGED <<today, store, server, counts, disturbed>>

\* Only now do the cached summaries lapse, and the answer is sent.
Bump(r) ==
  /\ req[r].pc = "bump"
  /\ Over(r)
  /\ epoch' = epoch + 1
  /\ UNCHANGED <<today, store, cache, poll, counts, disturbed>>

-----------------------------------------------------------------------------
(* GET /api/license.                                                       *)

\* A cached summary of this epoch answers; otherwise the state is evaluated.
Poll(p) ==
  /\ poll[p].pc = "idle"
  /\ cache.epoch # epoch
  /\ poll' = [poll EXCEPT ![p] = [pc |-> "read", epoch |-> epoch, body |-> NoToken]]
  /\ UNCHANGED <<today, store, req, epoch, cache, counts, disturbed>>

Evaluate(p, ok) ==
  /\ poll[p].pc = "read"
  /\ Fails(ok)
  /\ poll' = [poll EXCEPT ![p].pc = "store", ![p].body = IF ok THEN record ELSE Unread]
  /\ UNCHANGED <<today, store, req, epoch, cache, submits, disturbed>>

\* Seeded fault: the entry is stamped with the epoch of its storing.
StoreEntry_Late(p) ==
  /\ poll[p].pc = "store"
  /\ cache' = [epoch |-> epoch, body |-> poll[p].body]
  /\ poll' = [poll EXCEPT ![p] = IdlePoll]
  /\ UNCHANGED <<today, store, req, epoch, counts, disturbed>>

\* The entry carries the epoch read before the evaluation.
StoreEntry(p) ==
  /\ poll[p].pc = "store"
  /\ cache' = [epoch |-> poll[p].epoch, body |-> poll[p].body]
  /\ poll' = [poll EXCEPT ![p] = IdlePoll]
  /\ UNCHANGED <<today, store, req, epoch, counts, disturbed>>

\* CACHE_TTL_MS.
Age ==
  /\ cache # NoEntry
  /\ cache' = NoEntry
  /\ UNCHANGED <<today, store, req, epoch, poll, counts, disturbed>>

-----------------------------------------------------------------------------
(* Environment.                                                            *)

\* Days pass, and the clock of the server may be set back.
SetClock(d) ==
  /\ d # today /\ d <= today + 1
  /\ today' = d
  /\ UNCHANGED <<store, req, server, counts, disturbed>>

\* The process ends with everything it was doing, and starts with an empty memory.
Restart ==
  /\ Fails(FALSE)
  /\ req' = [r \in Request |-> IdleReq]
  /\ poll' = [p \in Poller |-> IdlePoll]
  /\ epoch' = 0 /\ cache' = NoEntry
  /\ disturbed' = (disturbed \/ Pending # {})
  /\ UNCHANGED <<today, store, submits>>

Next ==
  \/ \E r \in Request :
       \/ \E t \in Token : Submit(r, t)
       \/ \E ok \in BOOLEAN :
            ReadCurrent(r, ok) \/ ReadHistory(r, ok) \/ Save(r, ok)
              \/ Demote(r, ok) \/ CreateRow(r, ok)
       \/ Notify(r)
       \/ Bump(r)
  \/ \E p \in Poller : Poll(p) \/ (\E ok \in BOOLEAN : Evaluate(p, ok)) \/ StoreEntry(p)
  \/ Age
  \/ \E d \in 0..MaxDay : SetClock(d)
  \/ Restart

Spec == Init /\ [][Next]_vars

-----------------------------------------------------------------------------
(* Properties.                                                             *)

IdOf(t) == IF t = NoToken THEN {} ELSE {t.id}

\* Every licence entered so far, its row in the history written or about to be.
Used == HistoryIds \cup IdOf(record) \cup {req[r].token.id : r \in Pending}

\* As long as no read or write of the store fails, no two activations cross between
\* reading the record and appending to the history, and the clock does not go back
\* behind the licence in force, the activations keep the promise of LicenceRegister:
\* no replay, no downgrade (index.ts 406-458).
Register == INSTANCE LicenceRegister
              WITH record <- record, used <- Used, trusted <- ~disturbed

KeepsRegister == Register!Spec

CurrentRows == {i \in DOMAIN history : history[i].current}

\* Under the same conditions the history has exactly one current row, that of the
\* licence in the record (storage.ts 351-371), whenever no activation is between
\* writing the one and the other.
HistoryNamesRecord ==
  ~disturbed /\ Pending = {} =>
    IF record = NoToken THEN CurrentRows = {}
    ELSE \E i \in DOMAIN history : CurrentRows = {i} /\ history[i].id = record.id

\* Once an activation has been answered, nobody is told of the licence before it: a
\* summary that may still be served from the cache was read from the present record
\* (or from none, when the read failed), whatever was being read, stored or activated
\* meanwhile (route.ts 29-51).
PublicViewCurrent ==
  cache.epoch = epoch /\ Unannounced = {} => cache.body \in {record, Unread}
=============================================================================
