---------------------- MODULE LicenseActivation_proofs ----------------------
(***************************************************************************)
(* Proofs about LicenseActivation, for every set of licences, requests and *)
(* readers, and any number of activations and faults.                      *)
(***************************************************************************)
EXTENDS LicenseActivation, SequenceTheorems, TLAPS

-----------------------------------------------------------------------------
(* The inductive invariant.                                                *)

\* What a request holds once it has passed the synchronous checks.
ReqOK ==
  \A r \in Request : req[r].pc # "idle" =>
    /\ req[r].token \in Token
    /\ req[r].day < req[r].token.expires

\* No entry and no reading is ahead of the epoch.
Epochs ==
  /\ cache.epoch <= epoch
  /\ \A p \in Poller : poll[p].epoch <= epoch

\* A reading that will be stored under the present epoch is of the present record.
Readings ==
  Unannounced = {} => \A p \in Poller :
    poll[p].pc = "store" /\ poll[p].epoch = epoch => poll[p].body \in {record, Unread}

\* At most one activation is between the record and the history, and its licence is
\* the record; no row is current when it is about to create its own.
OnePending ==
  \A r \in Pending :
    /\ Pending = {r}
    /\ record = req[r].token
    /\ req[r].pc = "append" => CurrentRows = {}

\* What an activation has read was entered once, and is not what it brings ...
SeenOnce ==
  \A r \in Request : req[r].pc \in {"history", "save"} /\ req[r].seen # NoToken =>
    /\ req[r].seen.id \in Used
    /\ req[r].seen.id # req[r].token.id

\* ... and as long as it is still the record, what it brings is new and lasts as long.
ReadyToSave ==
  \A r \in Request : req[r].pc = "save" /\ record = req[r].seen =>
    /\ req[r].token.id \notin Used
    /\ record # NoToken /\ record.starts <= req[r].day =>
         record.expires <= req[r].token.expires

Kept == ~disturbed => HistoryNamesRecord /\ OnePending /\ SeenOnce /\ ReadyToSave

IInv == TypeOK /\ ReqOK /\ Epochs /\ PublicViewCurrent /\ Readings /\ Kept

-----------------------------------------------------------------------------

LEMMA InitIInv ==
  ASSUME TokenAssumption, BoundAssumption, Init PROVE IInv
<1>1. StoreType /\ ReqType /\ ServerType /\ CountType
  BY DEF TokenAssumption, BoundAssumption, Init, StoreType, ReqType, ServerType, CountType,
         IdleReq, IdlePoll, NoEntry, Stage
<1>2. Pending = {} /\ Unannounced = {}
  BY DEF Init, Pending, Unannounced, IdleReq
<1>3. CurrentRows = {}
  BY DEF Init, CurrentRows
<1>4. ReqOK /\ Epochs /\ PublicViewCurrent /\ Readings
  BY DEF Init, ReqOK, Epochs, PublicViewCurrent, Readings, IdleReq, IdlePoll, NoEntry
<1>5. HistoryNamesRecord /\ OnePending /\ SeenOnce /\ ReadyToSave
  BY <1>2, <1>3 DEF Init, HistoryNamesRecord, OnePending, SeenOnce, ReadyToSave, IdleReq
<1>6. disturbed \in BOOLEAN
  BY DEF Init
<1> QED BY <1>1, <1>4, <1>5, <1>6 DEF IInv, TypeOK, Kept

\* The type invariant, one part at a time.
LEMMA StoreStep ==
  ASSUME TypeOK, ReqOK, [Next]_vars PROVE StoreType'
<1> USE DEF TypeOK, StoreType, ReqType
<1>1. ASSUME NEW r \in Request, NEW ok \in BOOLEAN, Save(r, ok) PROVE StoreType'
  BY <1>1 DEF Save
<1>2. ASSUME NEW r \in Request, NEW ok \in BOOLEAN, Demote(r, ok) PROVE StoreType'
  <2>1. CASE ok
    <3>1. /\ history' = [i \in 1..Len(history) |-> [history[i] EXCEPT !.current = FALSE]]
          /\ Len(history) \in Nat
      BY <1>2, <2>1 DEF Demote, Demoted
    <3>2. ASSUME NEW i \in 1..Len(history) PROVE history'[i] \in HistoryRow
      <4>1. history[i] \in HistoryRow
        BY <3>1
      <4>2. history'[i] = [history[i] EXCEPT !.current = FALSE]
        BY <3>1
      <4> QED BY <4>1, <4>2 DEF HistoryRow
    <3> QED BY <1>2, <3>1, <3>2, IsASeq DEF Demote
  <2>2. CASE ~ok
    BY <1>2, <2>2 DEF Demote
  <2> QED BY <2>1, <2>2
<1>3. ASSUME NEW r \in Request, NEW ok \in BOOLEAN, CreateRow(r, ok) PROVE StoreType'
  <2>1. req[r].token \in Token
    BY <1>3 DEF CreateRow, ReqOK
  <2>2. [id |-> req[r].token.id, current |-> TRUE] \in HistoryRow
    BY <2>1 DEF HistoryRow
  <2>3. CASE ok
    BY <1>3, <2>2, <2>3, AppendProperties DEF CreateRow
  <2>4. CASE ~ok
    BY <1>3, <2>4 DEF CreateRow
  <2> QED BY <2>3, <2>4
<1>4. CASE UNCHANGED store
  BY <1>4 DEF store
<1> QED BY <1>1, <1>2, <1>3, <1>4 DEF Next, vars, Submit, ReadCurrent, ReadHistory, Notify,
      Bump, Poll, Evaluate, StoreEntry, Age, SetClock, Restart

LEMMA ReqStep ==
  ASSUME BoundAssumption, TypeOK, ReqOK, [Next]_vars PROVE ReqType' /\ ReqOK'
<1> USE DEF BoundAssumption, TypeOK, StoreType, ReqType, ReqOK, Stage, CountType
<1>1. ASSUME NEW r \in Request, NEW t \in Token, Submit(r, t) PROVE ReqType' /\ ReqOK'
  BY <1>1 DEF Submit
<1>2. ASSUME NEW r \in Request, NEW ok \in BOOLEAN, ReadCurrent(r, ok)
      PROVE ReqType' /\ ReqOK'
  <2>1. CASE req' = [req EXCEPT ![r] = IdleReq]
    BY <2>1 DEF IdleReq
  <2>2. CASE req' # [req EXCEPT ![r] = IdleReq]
    <3> DEFINE seen == IF ok THEN record ELSE NoToken
    <3>1. seen \in Token \cup {NoToken}
      OBVIOUS
    <3>2. /\ req[r].pc = "current"
          /\ req' = [req EXCEPT ![r].pc = "history", ![r].seen = seen]
      BY <1>2, <2>2 DEF ReadCurrent, Over
    <3> HIDE DEF seen
    <3> QED BY <3>1, <3>2
  <2> QED BY <2>1, <2>2
<1>3. ASSUME NEW r \in Request, NEW ok \in BOOLEAN, ReadHistory(r, ok)
      PROVE ReqType' /\ ReqOK'
  <2>1. CASE req' = [req EXCEPT ![r] = IdleReq]
    BY <2>1 DEF IdleReq
  <2>2. CASE req' # [req EXCEPT ![r] = IdleReq]
    <3>1. req[r].pc = "history" /\ req' = [req EXCEPT ![r].pc = "save"]
      BY <1>3, <2>2 DEF ReadHistory, Over, Goto
    <3> QED BY <3>1
  <2> QED BY <2>1, <2>2
<1>4. ASSUME NEW r \in Request, NEW ok \in BOOLEAN, Save(r, ok) PROVE ReqType' /\ ReqOK'
  <2>1. CASE req' = [req EXCEPT ![r] = IdleReq]
    BY <2>1 DEF IdleReq
  <2>2. CASE req' # [req EXCEPT ![r] = IdleReq]
    <3>1. req[r].pc = "save" /\ req' = [req EXCEPT ![r].pc = "demote"]
      BY <1>4, <2>2 DEF Save, Over, Goto
    <3> QED BY <3>1
  <2> QED BY <2>1, <2>2
<1>5. ASSUME NEW r \in Request, NEW ok \in BOOLEAN, Demote(r, ok) PROVE ReqType' /\ ReqOK'
  BY <1>5 DEF Demote, Goto
<1>6. ASSUME NEW r \in Request, NEW ok \in BOOLEAN, CreateRow(r, ok)
      PROVE ReqType' /\ ReqOK'
  BY <1>6 DEF CreateRow, Goto
<1>7. ASSUME NEW r \in Request, Notify(r) PROVE ReqType' /\ ReqOK'
  BY <1>7 DEF Notify, Goto
<1>8. ASSUME NEW r \in Request, Bump(r) PROVE ReqType' /\ ReqOK'
  BY <1>8 DEF Bump, Over, IdleReq
<1>9. CASE Restart
  BY <1>9 DEF Restart, IdleReq
<1>10. CASE UNCHANGED req
  BY <1>10
<1> QED BY <1>1, <1>2, <1>3, <1>4, <1>5, <1>6, <1>7, <1>8, <1>9, <1>10
      DEF Next, vars, Poll, Evaluate, StoreEntry, Age, SetClock

LEMMA ServerStep ==
  ASSUME TypeOK, [Next]_vars PROVE ServerType'
<1> USE DEF TypeOK, StoreType, ServerType
<1>1. ASSUME NEW r \in Request, Bump(r) PROVE ServerType'
  BY <1>1 DEF Bump
<1>2. ASSUME NEW p \in Poller, Poll(p) PROVE ServerType'
  BY <1>2 DEF Poll
<1>3. ASSUME NEW p \in Poller, NEW ok \in BOOLEAN, Evaluate(p, ok) PROVE ServerType'
  <2>1. CASE ok
    BY <1>3, <2>1 DEF Evaluate
  <2>2. CASE ~ok
    BY <1>3, <2>2 DEF Evaluate
  <2> QED BY <2>1, <2>2
<1>4. ASSUME NEW p \in Poller, StoreEntry(p) PROVE ServerType'
  BY <1>4 DEF StoreEntry, IdlePoll
<1>5. CASE Age
  BY <1>5 DEF Age, NoEntry
<1>6. CASE Restart
  BY <1>6 DEF Restart, IdlePoll, NoEntry
<1>7. CASE UNCHANGED server
  BY <1>7 DEF server
<1> QED BY <1>1, <1>2, <1>3, <1>4, <1>5, <1>6, <1>7 DEF Next, vars, Submit, ReadCurrent,
      ReadHistory, Save, Demote, CreateRow, Notify, SetClock

LEMMA CountStep ==
  ASSUME BoundAssumption, TypeOK, [Next]_vars PROVE CountType'
<1> USE DEF BoundAssumption, TypeOK, CountType
<1>1. CASE UNCHANGED <<today, counts>>
  BY <1>1 DEF counts
<1>2. ASSUME NEW ok \in BOOLEAN, Fails(ok), UNCHANGED <<today, submits>> PROVE CountType'
  BY <1>2 DEF Fails
<1>3. ASSUME NEW r \in Request, NEW t \in Token, Submit(r, t) PROVE CountType'
  BY <1>3 DEF Submit
<1>4. ASSUME NEW d \in 0..MaxDay, SetClock(d) PROVE CountType'
  BY <1>4 DEF SetClock, counts
<1> QED BY <1>1, <1>2, <1>3, <1>4 DEF Next, vars, ReadCurrent, ReadHistory, Save, Demote,
      CreateRow, Notify, Bump, Poll, Evaluate, StoreEntry, Age, Restart

\* Trust that is lost does not come back.
LEMMA DisturbedStep ==
  ASSUME TypeOK, [Next]_vars
  PROVE disturbed' \in BOOLEAN /\ (disturbed => disturbed')
<1> DEFINE Stays == disturbed' \in BOOLEAN /\ (disturbed => disturbed')
<1>1. disturbed \in BOOLEAN
  BY DEF TypeOK
<1>2. ASSUME NEW r \in Request, NEW ok \in BOOLEAN, ReadCurrent(r, ok) PROVE Stays
  BY <1>2, Zenon DEF ReadCurrent
<1>3. ASSUME NEW r \in Request, NEW ok \in BOOLEAN, ReadHistory(r, ok) PROVE Stays
  BY <1>3, Zenon DEF ReadHistory
<1>4. ASSUME NEW r \in Request, NEW ok \in BOOLEAN, Save(r, ok) PROVE Stays
  BY <1>1, <1>4, Zenon DEF Save
<1>5. ASSUME NEW r \in Request, NEW ok \in BOOLEAN, Demote(r, ok) PROVE Stays
  BY <1>5, Zenon DEF Demote
<1>6. ASSUME NEW r \in Request, NEW ok \in BOOLEAN, CreateRow(r, ok) PROVE Stays
  BY <1>6, Zenon DEF CreateRow
<1>7. CASE Restart
  BY <1>7, Zenon DEF Restart
<1>8. CASE UNCHANGED disturbed
  BY <1>1, <1>8
<1> QED BY <1>2, <1>3, <1>4, <1>5, <1>6, <1>7, <1>8 DEF Next, vars, Submit, Notify, Bump,
      Poll, Evaluate, StoreEntry, Age, SetClock

LEMMA TypeStep ==
  ASSUME BoundAssumption, TypeOK, ReqOK, [Next]_vars PROVE TypeOK' /\ ReqOK'
BY StoreStep, ReqStep, ServerStep, CountStep, DisturbedStep DEF TypeOK
-----------------------------------------------------------------------------
(* The public summary.                                                     *)

Public == Epochs /\ PublicViewCurrent /\ Readings

\* A step that leaves the record, the epoch, the cache and the readings alone, and
\* announces nothing, is harmless.
LEMMA PublicFrame ==
  ASSUME Public, UNCHANGED <<record, epoch, cache, poll>>,
         Unannounced' = {} => Unannounced = {}
  PROVE  Public'
BY DEF Public, Epochs, PublicViewCurrent, Readings

LEMMA PublicStep ==
  ASSUME TypeOK, Public, [Next]_vars PROVE Public'
<1> USE DEF TypeOK, ReqType, ServerType
<1>1. ASSUME NEW r \in Request, NEW t \in Token, Submit(r, t) PROVE Public'
  <2>1. Unannounced' = Unannounced
    BY <1>1 DEF Submit, Unannounced
  <2> QED BY <1>1, <2>1, PublicFrame DEF Submit, store, server
<1>2. ASSUME NEW r \in Request, NEW ok \in BOOLEAN, ReadCurrent(r, ok) PROVE Public'
  <2>0. ASSUME NEW q \in Request, q # r PROVE req'[q] = req[q]
    BY <1>2, <2>0 DEF ReadCurrent, Over
  <2>1. req[r].pc = "current" /\ req'[r].pc \in {"idle", "history"}
    <3>1. CASE req' = [req EXCEPT ![r] = IdleReq]
      BY <1>2, <3>1 DEF ReadCurrent, IdleReq
    <3>2. CASE req' # [req EXCEPT ![r] = IdleReq]
      BY <1>2, <3>2 DEF ReadCurrent, Over
    <3> QED BY <3>1, <3>2
  <2>2. Unannounced' = Unannounced
    BY <2>0, <2>1 DEF Unannounced
  <2> QED BY <1>2, <2>2, PublicFrame DEF ReadCurrent, store, server
<1>3. ASSUME NEW r \in Request, NEW ok \in BOOLEAN, ReadHistory(r, ok) PROVE Public'
  <2>1. Unannounced' = Unannounced
    BY <1>3 DEF ReadHistory, Over, Goto, IdleReq, Unannounced
  <2> QED BY <1>3, <2>1, PublicFrame DEF ReadHistory, store, server
<1>4. ASSUME NEW r \in Request, NEW ok \in BOOLEAN, Save(r, ok) PROVE Public'
  <2>1. CASE ok
    <3>1. r \in Unannounced'
      BY <1>4, <2>1 DEF Save, Goto, Unannounced
    <3> QED BY <1>4, <3>1 DEF Save, server, Public, Epochs, PublicViewCurrent, Readings
  <2>2. CASE ~ok
    <3>1. Unannounced' = Unannounced
      BY <1>4, <2>2 DEF Save, Over, IdleReq, Unannounced
    <3> QED BY <1>4, <2>2, <3>1, PublicFrame DEF Save, server
  <2> QED BY <2>1, <2>2
<1>5. ASSUME NEW r \in Request, NEW ok \in BOOLEAN, Demote(r, ok) PROVE Public'
  <2>1. r \in Unannounced'
    BY <1>5 DEF Demote, Goto, Unannounced
  <2> QED BY <1>5, <2>1, PublicFrame DEF Demote, server
<1>6. ASSUME NEW r \in Request, NEW ok \in BOOLEAN, CreateRow(r, ok) PROVE Public'
  <2>1. r \in Unannounced'
    BY <1>6 DEF CreateRow, Goto, Unannounced
  <2> QED BY <1>6, <2>1, PublicFrame DEF CreateRow, server
<1>7. ASSUME NEW r \in Request, Notify(r) PROVE Public'
  <2>1. r \in Unannounced'
    BY <1>7 DEF Notify, Goto, Unannounced
  <2> QED BY <1>7, <2>1, PublicFrame DEF Notify, store, server
\* The epoch moves: what is cached or being read lags behind.
<1>8. ASSUME NEW r \in Request, Bump(r) PROVE Public'
  <2>1. cache.epoch \in Nat \cup {-1} /\ \A p \in Poller : poll[p].epoch \in Nat
    OBVIOUS
  <2> QED BY <1>8, <2>1 DEF Bump, store, Public, Epochs, PublicViewCurrent, Readings
<1>9. ASSUME NEW p \in Poller, Poll(p) PROVE Public'
  <2>1. Unannounced' = Unannounced
    BY <1>9 DEF Poll, Unannounced
  <2>2. poll' = [poll EXCEPT ![p] = [pc |-> "read", epoch |-> epoch, body |-> NoToken]]
    BY <1>9 DEF Poll
  <2> QED BY <1>9, <2>1, <2>2 DEF Poll, store, Public, Epochs, PublicViewCurrent, Readings
<1>10. ASSUME NEW p \in Poller, NEW ok \in BOOLEAN, Evaluate(p, ok) PROVE Public'
  <2> DEFINE body == IF ok THEN record ELSE Unread
  <2>1. Unannounced' = Unannounced
    BY <1>10 DEF Evaluate, Unannounced
  <2>2. poll' = [poll EXCEPT ![p].pc = "store", ![p].body = body]
    BY <1>10 DEF Evaluate
  <2>3. body \in {record, Unread}
    OBVIOUS
  <2> HIDE DEF body
  <2> QED BY <1>10, <2>1, <2>2, <2>3
        DEF Evaluate, store, Public, Epochs, PublicViewCurrent, Readings
\* The entry is of the epoch its reading began in.
<1>11. ASSUME NEW p \in Poller, StoreEntry(p) PROVE Public'
  <2>1. Unannounced' = Unannounced
    BY <1>11 DEF StoreEntry, Unannounced
  <2>2. /\ poll[p].pc = "store"
        /\ cache' = [epoch |-> poll[p].epoch, body |-> poll[p].body]
        /\ poll' = [poll EXCEPT ![p] = [pc |-> "idle", epoch |-> 0, body |-> NoToken]]
        /\ UNCHANGED <<record, epoch>>
    BY <1>11 DEF StoreEntry, IdlePoll, store
  <2> QED BY <2>1, <2>2 DEF Public, Epochs, PublicViewCurrent, Readings
<1>12. CASE Age
  <2>1. Unannounced' = Unannounced
    BY <1>12 DEF Age, Unannounced
  <2> QED BY <1>12, <2>1 DEF Age, NoEntry, store, Public, Epochs, PublicViewCurrent, Readings
<1>13. ASSUME NEW d \in 0..MaxDay, SetClock(d) PROVE Public'
  <2>1. Unannounced' = Unannounced
    BY <1>13 DEF SetClock, Unannounced
  <2> QED BY <1>13, <2>1, PublicFrame DEF SetClock, store, server
<1>14. CASE Restart
  BY <1>14 DEF Restart, IdlePoll, NoEntry, Public, Epochs, PublicViewCurrent, Readings
<1>15. CASE UNCHANGED vars
  BY <1>15 DEF vars, store, server, Public, Epochs, PublicViewCurrent, Readings, Unannounced
<1> QED BY <1>1, <1>2, <1>3, <1>4, <1>5, <1>6, <1>7, <1>8, <1>9, <1>10, <1>11, <1>12, <1>13,
           <1>14, <1>15 DEF Next
-----------------------------------------------------------------------------
(* The register.                                                           *)

Trusted == ~disturbed /\ HistoryNamesRecord /\ OnePending /\ SeenOnce /\ ReadyToSave

\* What a step means to the register: nothing, or one licence entered.
Unmoved == record' = record /\ Used' = Used
Entered ==
  \E t \in Token :
    /\ t.id \notin Used
    /\ record # NoToken => record.expires <= t.expires
    /\ record' = t /\ Used' = Used \cup {t.id}

\* A request that is not about to write the history, before or after.
LEMMA RequestFrame ==
  ASSUME TypeOK, Trusted, ~disturbed', UNCHANGED store,
         NEW r \in Request, NEW x, req' = [req EXCEPT ![r] = x],
         r \notin Pending, x.pc \notin {"demote", "append"}
  PROVE  /\ Pending' = Pending /\ Used' = Used /\ record' = record
         /\ HistoryNamesRecord' /\ OnePending'
         /\ \A q \in Request \ {r} : req'[q] = req[q]
         /\ req'[r] = x
<1>1. req'[r] = x /\ \A q \in Request \ {r} : req'[q] = req[q]
  BY DEF TypeOK, ReqType
<1>2. Pending' = Pending
  BY <1>1 DEF Pending
<1>3. \A q \in Pending : req'[q] = req[q]
  BY <1>1 DEF Pending
<1>4. UNCHANGED <<record, history>>
  BY DEF store
<1>5. Used' = Used
  BY <1>2, <1>3, <1>4 DEF Used, HistoryIds, IdOf
<1>6. HistoryNamesRecord' /\ OnePending'
  BY <1>2, <1>3, <1>4 DEF Trusted, HistoryNamesRecord, OnePending, CurrentRows
<1> QED BY <1>1, <1>2, <1>4, <1>5, <1>6

\* One that has nothing to save after the step, either.
LEMMA QuietStep ==
  ASSUME TypeOK, Trusted, ~disturbed', UNCHANGED store,
         NEW r \in Request, NEW x, req' = [req EXCEPT ![r] = x],
         r \notin Pending, x.pc \notin {"history", "save", "demote", "append"}
  PROVE  Trusted' /\ Unmoved
<1>1. /\ Used' = Used /\ record' = record
      /\ HistoryNamesRecord' /\ OnePending'
      /\ \A q \in Request \ {r} : req'[q] = req[q]
      /\ req'[r] = x
  BY RequestFrame
<1>2. SeenOnce' /\ ReadyToSave'
  BY <1>1 DEF Trusted, SeenOnce, ReadyToSave
<1> QED BY <1>1, <1>2 DEF Trusted, Unmoved

LEMMA ReadCurrentKeeps ==
  ASSUME TypeOK, Trusted, ~disturbed', NEW r \in Request, NEW ok \in BOOLEAN,
         ReadCurrent(r, ok)
  PROVE  Trusted' /\ Unmoved
<1>1. r \notin Pending /\ UNCHANGED store
  BY DEF ReadCurrent, Pending
<1>2. CASE req' = [req EXCEPT ![r] = IdleReq]
  BY <1>1, <1>2, QuietStep DEF IdleReq
<1>3. CASE req' # [req EXCEPT ![r] = IdleReq]
  <2>1. ok
    BY Zenon DEF ReadCurrent
  <2> DEFINE x == [req[r] EXCEPT !.pc = "history", !.seen = record]
  <2>2. /\ req' = [req EXCEPT ![r].pc = "history", ![r].seen = record]
        /\ record = NoToken \/ record.id # req[r].token.id
    BY <1>3, <2>1 DEF ReadCurrent, Over
  <2>3. req' = [req EXCEPT ![r] = x]
    BY <2>2 DEF TypeOK, ReqType
  <2>4. x.pc = "history" /\ x.seen = record /\ x.token = req[r].token
    BY DEF TypeOK, ReqType
  <2> HIDE DEF x
  <2>5. /\ Used' = Used /\ record' = record
        /\ HistoryNamesRecord' /\ OnePending'
        /\ \A q \in Request \ {r} : req'[q] = req[q]
        /\ req'[r] = x
    BY <1>1, <2>3, <2>4, RequestFrame
  <2>6. record # NoToken => record.id \in Used
    BY DEF Used, IdOf
  <2>7. SeenOnce'
    <3> SUFFICES ASSUME NEW q \in Request, req'[q].pc \in {"history", "save"},
                        req'[q].seen # NoToken
                 PROVE  req'[q].seen.id \in Used' /\ req'[q].seen.id # req'[q].token.id
      BY DEF SeenOnce
    <3>1. CASE q = r
      BY <2>2, <2>4, <2>5, <2>6, <3>1
    <3>2. CASE q # r
      BY <2>5, <3>2 DEF Trusted, SeenOnce
    <3> QED BY <3>1, <3>2
  <2>8. ReadyToSave'
    BY <2>4, <2>5 DEF Trusted, ReadyToSave
  <2> QED BY <2>5, <2>7, <2>8 DEF Trusted, Unmoved
<1> QED BY <1>2, <1>3

\* The two checks that make an activation ready: not in the history, no downgrade.
LEMMA ReadHistoryKeeps ==
  ASSUME TokenAssumption, BoundAssumption, TypeOK, ReqOK, Trusted, ~disturbed',
         NEW r \in Request, NEW ok \in BOOLEAN, ReadHistory(r, ok)
  PROVE  Trusted' /\ Unmoved
<1>1. r \notin Pending /\ UNCHANGED store /\ req[r].pc = "history"
  BY DEF ReadHistory, Pending
<1>2. CASE req' = [req EXCEPT ![r] = IdleReq]
  BY <1>1, <1>2, QuietStep DEF IdleReq
<1>3. CASE req' # [req EXCEPT ![r] = IdleReq]
  <2>1. ok
    BY Zenon DEF ReadHistory
  <2> DEFINE x == [req[r] EXCEPT !.pc = "save"]
  <2>2. /\ req' = [req EXCEPT ![r].pc = "save"]
        /\ req[r].token.id \notin HistoryIds
        /\ ~Downgrades(req[r].token, req[r].seen, req[r].day)
    BY <1>3, <2>1 DEF ReadHistory, Over, Goto
  <2>3. req' = [req EXCEPT ![r] = x]
    BY <2>2 DEF TypeOK, ReqType
  <2>4. x.pc = "save" /\ x.seen = req[r].seen /\ x.token = req[r].token /\ x.day = req[r].day
    BY DEF TypeOK, ReqType
  <2> HIDE DEF x
  <2>5. /\ Used' = Used /\ record' = record
        /\ HistoryNamesRecord' /\ OnePending'
        /\ \A q \in Request \ {r} : req'[q] = req[q]
        /\ req'[r] = x
    BY <1>1, <2>3, <2>4, RequestFrame
  <2>6. SeenOnce'
    BY <1>1, <2>4, <2>5 DEF Trusted, SeenOnce
  <2>7. record = req[r].seen => req[r].token.id \notin Used
    <3> SUFFICES ASSUME record = req[r].seen PROVE req[r].token.id \notin Used
      OBVIOUS
    <3>1. req[r].token.id \notin IdOf(record)
      BY <1>1 DEF Trusted, SeenOnce, IdOf
    <3>2. \A q \in Pending : req[q].token = record /\ record \in Token
      BY DEF Trusted, OnePending, ReqOK, Pending
    <3>3. \A q \in Pending : req[q].token.id \in IdOf(record)
      BY <3>2 DEF IdOf, TokenAssumption
    <3> QED BY <2>2, <3>1, <3>3 DEF Used
  <2>8. record = req[r].seen /\ record # NoToken /\ record.starts <= req[r].day =>
          record.expires <= req[r].token.expires
    <3>1. /\ req[r].token \in Token /\ req[r].day < req[r].token.expires
          /\ req[r].day \in Nat
      BY <1>1 DEF ReqOK, TypeOK, ReqType, BoundAssumption
    <3>2. record # NoToken => record \in Token
      BY DEF TypeOK, StoreType
    <3> QED BY <2>2, <3>1, <3>2 DEF Downgrades, InForce, TokenAssumption, BoundAssumption
  <2>9. ReadyToSave'
    BY <2>4, <2>5, <2>7, <2>8 DEF Trusted, ReadyToSave
  <2> QED BY <2>5, <2>6, <2>9 DEF Trusted, Unmoved
<1> QED BY <1>2, <1>3

\* The licence enters the register: what the checks found still holds, because nobody
\* has saved since (Crossed).
LEMMA SaveKeeps ==
  ASSUME TokenAssumption, TypeOK, ReqOK, Trusted, ~disturbed', NEW r \in Request,
         Save(r, TRUE)
  PROVE  Trusted' /\ Entered
<1> DEFINE t == req[r].token
<1>1. /\ req[r].pc = "save" /\ t \in Token
      /\ record' = t /\ history' = history
      /\ req' = [req EXCEPT ![r].pc = "demote"]
  BY DEF Save, Goto, ReqOK
<1>2. ~Crossed(r)
  BY Zenon DEF Save
<1>3. /\ record = req[r].seen /\ Pending = {}
      /\ record # NoToken => record.starts <= req[r].day
  <2>1. record # NoToken => record \in Token
    BY DEF TypeOK, StoreType
  <2>2. req[r].day \in 0..MaxDay
    BY DEF TypeOK, ReqType
  <2> QED BY <1>2, <2>1, <2>2 DEF Crossed, TokenAssumption
<1>4. /\ t.id \notin Used
      /\ record # NoToken => record.expires <= t.expires
  BY <1>1, <1>3 DEF Trusted, ReadyToSave
<1>5. /\ \A q \in Request \ {r} : req'[q] = req[q]
      /\ req'[r].pc = "demote" /\ req'[r].token = t
  BY <1>1 DEF TypeOK, ReqType
<1>6. Pending' = {r}
  BY <1>3, <1>5 DEF Pending
<1>7. IdOf(record) \subseteq HistoryIds
  BY <1>3 DEF Trusted, HistoryNamesRecord, HistoryIds, IdOf
<1>8. Used = HistoryIds
  BY <1>3, <1>7 DEF Used
<1>9. Used' = Used \cup {t.id}
  <2>1. HistoryIds' = HistoryIds
    BY <1>1 DEF HistoryIds
  <2>2. IdOf(t) = {t.id}
    BY <1>1 DEF IdOf, TokenAssumption
  <2>3. {req'[q].token.id : q \in Pending'} = {t.id}
    BY <1>5, <1>6
  <2>4. Used' = HistoryIds' \cup IdOf(t) \cup {req'[q].token.id : q \in Pending'}
    BY <1>1 DEF Used, IdOf
  <2> HIDE DEF t
  <2> QED BY <1>8, <2>1, <2>2, <2>3, <2>4
<1>10. HistoryNamesRecord' /\ OnePending'
  BY <1>1, <1>5, <1>6 DEF HistoryNamesRecord, OnePending
<1>11. SeenOnce'
  BY <1>5, <1>9 DEF Trusted, SeenOnce
<1>12. ReadyToSave'
  <2> SUFFICES ASSUME NEW q \in Request, req'[q].pc = "save", req'[q].seen = t PROVE FALSE
    BY <1>1 DEF ReadyToSave
  <2>1. q # r /\ req[q].pc = "save" /\ req[q].seen = t
    BY <1>5
  <2>2. t # NoToken
    BY <1>1 DEF TokenAssumption
  <2> QED BY <1>4, <2>1, <2>2 DEF Trusted, SeenOnce
<1> QED BY <1>1, <1>4, <1>9, <1>10, <1>11, <1>12 DEF Trusted, Entered

\* The rows lose their flags and keep their identifiers.
LEMMA DemoteKeeps ==
  ASSUME TypeOK, Trusted, ~disturbed', NEW r \in Request, NEW ok \in BOOLEAN, Demote(r, ok)
  PROVE  Trusted' /\ Unmoved
<1>1. ok
  BY Zenon DEF Demote
<1>2. /\ req[r].pc = "demote" /\ record' = record
      /\ history' = Demoted(history)
      /\ req' = [req EXCEPT ![r].pc = "append"]
  BY <1>1 DEF Demote, Goto
<1>3. r \in Pending /\ Pending = {r} /\ record = req[r].token
  BY <1>2 DEF Trusted, OnePending, Pending
<1>4. /\ \A q \in Request : req'[q].token = req[q].token /\ req'[q].seen = req[q].seen
                           /\ req'[q].day = req[q].day
      /\ \A q \in Request \ {r} : req'[q].pc = req[q].pc
      /\ req'[r].pc = "append"
  BY <1>2 DEF TypeOK, ReqType
<1>5. Pending' = {r}
  BY <1>3, <1>4 DEF Pending
<1>6. /\ DOMAIN history' = DOMAIN history
      /\ \A i \in DOMAIN history : history'[i].id = history[i].id /\ ~history'[i].current
  <2>1. \A i \in DOMAIN history : history[i] \in HistoryRow
    BY DEF TypeOK, StoreType
  <2> QED BY <1>2, <2>1 DEF Demoted, HistoryRow
<1>7. HistoryIds' = HistoryIds /\ CurrentRows' = {}
  BY <1>6 DEF HistoryIds, CurrentRows
<1>8. Used' = Used
  BY <1>2, <1>3, <1>4, <1>5, <1>7 DEF Used, IdOf
<1>9. HistoryNamesRecord' /\ OnePending'
  BY <1>2, <1>3, <1>4, <1>5, <1>7 DEF HistoryNamesRecord, OnePending
<1>10. SeenOnce' /\ ReadyToSave'
  BY <1>2, <1>4, <1>8 DEF Trusted, SeenOnce, ReadyToSave
<1> QED BY <1>2, <1>8, <1>9, <1>10 DEF Trusted, Unmoved

\* The new row is the current one, and its licence is the record.
LEMMA CreateRowKeeps ==
  ASSUME TokenAssumption, TypeOK, ReqOK, Trusted, ~disturbed', NEW r \in Request,
         NEW ok \in BOOLEAN, CreateRow(r, ok)
  PROVE  Trusted' /\ Unmoved
<1> DEFINE row == [id |-> req[r].token.id, current |-> TRUE]
           n   == Len(history)
<1>1. ok
  BY Zenon DEF CreateRow
<1>2. /\ req[r].pc = "append" /\ record' = record
      /\ history' = Append(history, row)
      /\ req' = [req EXCEPT ![r].pc = "notify"]
  BY <1>1 DEF CreateRow, Goto
<1>3. /\ Pending = {r} /\ record = req[r].token /\ record \in Token
      /\ CurrentRows = {}
  BY <1>2 DEF Trusted, OnePending, Pending, ReqOK
<1>4. /\ \A q \in Request : req'[q].token = req[q].token /\ req'[q].seen = req[q].seen
                           /\ req'[q].day = req[q].day
      /\ \A q \in Request \ {r} : req'[q].pc = req[q].pc
      /\ req'[r].pc = "notify"
  BY <1>2 DEF TypeOK, ReqType
<1>5. Pending' = {}
  BY <1>3, <1>4 DEF Pending
<1>6. /\ n \in Nat /\ DOMAIN history = 1..n /\ DOMAIN history' = 1..(n + 1)
      /\ history'[n + 1] = row /\ \A i \in 1..n : history'[i] = history[i]
  BY <1>2 DEF TypeOK, StoreType
<1>7. HistoryIds' = HistoryIds \cup {record.id}
  <2> HIDE DEF n
  <2>1. {history'[i].id : i \in 1..(n + 1)} = {history[i].id : i \in 1..n} \cup {row.id}
    BY <1>6
  <2> QED BY <1>3, <1>6, <2>1 DEF HistoryIds
<1>8. CurrentRows' = {n + 1}
  <2> HIDE DEF n
  <2>1. \A i \in 1..n : ~history[i].current
    BY <1>3, <1>6 DEF CurrentRows
  <2> QED BY <1>6, <2>1 DEF CurrentRows
<1>9. Used' = Used
  <2>1. IdOf(record) = {record.id}
    BY <1>3 DEF IdOf, TokenAssumption
  <2>2. {req[q].token.id : q \in Pending} = {record.id}
    BY <1>3
  <2>3. {req'[q].token.id : q \in Pending'} = {}
    BY <1>5
  <2>4. Used' = HistoryIds' \cup IdOf(record) \cup {req'[q].token.id : q \in Pending'}
    BY <1>2 DEF Used, IdOf
  <2> QED BY <1>7, <2>1, <2>2, <2>3, <2>4 DEF Used
<1>10. HistoryNamesRecord' /\ OnePending'
  <2>1. n + 1 \in DOMAIN history' /\ history'[n + 1].id = record.id
    BY <1>3, <1>6
  <2> QED BY <1>2, <1>3, <1>5, <1>8, <2>1 DEF HistoryNamesRecord, OnePending, TokenAssumption
<1>11. SeenOnce' /\ ReadyToSave'
  BY <1>2, <1>4, <1>9 DEF Trusted, SeenOnce, ReadyToSave
<1> QED BY <1>2, <1>9, <1>10, <1>11 DEF Trusted, Unmoved

\* A restart forgets the requests, none of which had the history still to write.
LEMMA RestartKeeps ==
  ASSUME TypeOK, Trusted, ~disturbed', Restart PROVE Trusted' /\ Unmoved
<1>1. Pending = {} /\ UNCHANGED <<record, history>>
  BY Zenon DEF Restart, store
<1>2. \A q \in Request : req'[q].pc = "idle"
  BY DEF Restart, IdleReq
<1>3. Pending' = {}
  BY <1>2 DEF Pending
<1>4. Used' = Used
  BY <1>1, <1>3 DEF Used, HistoryIds, IdOf
<1>5. HistoryNamesRecord' /\ OnePending'
  BY <1>1, <1>3 DEF Trusted, HistoryNamesRecord, OnePending, CurrentRows
<1>6. SeenOnce' /\ ReadyToSave'
  BY <1>2 DEF SeenOnce, ReadyToSave
<1> QED BY <1>1, <1>4, <1>5, <1>6 DEF Trusted, Unmoved

LEMMA TrustedStep ==
  ASSUME TokenAssumption, BoundAssumption, TypeOK, ReqOK, Trusted, ~disturbed', [Next]_vars
  PROVE  Trusted' /\ (Unmoved \/ Entered)
<1>1. ASSUME NEW r \in Request, NEW t \in Token, Submit(r, t) PROVE Trusted' /\ Unmoved
  <2> DEFINE x == [pc |-> "current", token |-> t, day |-> today, seen |-> NoToken]
  <2>1. req' = [req EXCEPT ![r] = x] /\ r \notin Pending /\ UNCHANGED store
    BY <1>1 DEF Submit, Pending
  <2>2. x.pc = "current"
    OBVIOUS
  <2> HIDE DEF x
  <2> QED BY <2>1, <2>2, QuietStep
<1>2. ASSUME NEW r \in Request, NEW ok \in BOOLEAN, ReadCurrent(r, ok)
      PROVE Trusted' /\ Unmoved
  BY <1>2, ReadCurrentKeeps
<1>3. ASSUME NEW r \in Request, NEW ok \in BOOLEAN, ReadHistory(r, ok)
      PROVE Trusted' /\ Unmoved
  BY <1>3, ReadHistoryKeeps
<1>4. ASSUME NEW r \in Request, NEW ok \in BOOLEAN, Save(r, ok)
      PROVE Trusted' /\ (Unmoved \/ Entered)
  <2>1. CASE ok = TRUE
    BY <1>4, <2>1, SaveKeeps
  <2>2. CASE ok = FALSE
    <3>1. /\ req' = [req EXCEPT ![r] = IdleReq] /\ r \notin Pending
          /\ UNCHANGED store /\ IdleReq.pc = "idle"
      BY <1>4, <2>2 DEF Save, Over, Pending, store, IdleReq
    <3> QED BY <3>1, QuietStep
  <2> QED BY <2>1, <2>2
<1>5. ASSUME NEW r \in Request, NEW ok \in BOOLEAN, Demote(r, ok) PROVE Trusted' /\ Unmoved
  BY <1>5, DemoteKeeps
<1>6. ASSUME NEW r \in Request, NEW ok \in BOOLEAN, CreateRow(r, ok)
      PROVE Trusted' /\ Unmoved
  BY <1>6, CreateRowKeeps
<1>7. ASSUME NEW r \in Request, Notify(r) PROVE Trusted' /\ Unmoved
  <2> DEFINE x == [req[r] EXCEPT !.pc = "bump"]
  <2>1. /\ req' = [req EXCEPT ![r] = x] /\ x.pc = "bump"
        /\ r \notin Pending /\ UNCHANGED store
    BY <1>7 DEF Notify, Goto, Pending, TypeOK, ReqType
  <2> HIDE DEF x
  <2> QED BY <2>1, QuietStep
<1>8. ASSUME NEW r \in Request, Bump(r) PROVE Trusted' /\ Unmoved
  <2>1. /\ req' = [req EXCEPT ![r] = IdleReq] /\ r \notin Pending
        /\ UNCHANGED store /\ IdleReq.pc = "idle"
    BY <1>8 DEF Bump, Over, Pending, IdleReq
  <2> QED BY <2>1, QuietStep
<1>9. CASE Restart
  BY <1>9, RestartKeeps
<1>10. CASE UNCHANGED <<record, history, req>>
  <2>1. Used' = Used
    BY <1>10 DEF Used, HistoryIds, IdOf, Pending
  <2> QED BY <1>10, <2>1 DEF Trusted, Unmoved, HistoryNamesRecord, OnePending, SeenOnce,
            ReadyToSave, CurrentRows, Pending
<1> QED BY <1>1, <1>2, <1>3, <1>4, <1>5, <1>6, <1>7, <1>8, <1>9, <1>10 DEF Next, vars, store,
      Poll, Evaluate, StoreEntry, Age, SetClock

-----------------------------------------------------------------------------

LEMMA StepIInv ==
  ASSUME TokenAssumption, BoundAssumption, IInv, [Next]_vars PROVE IInv'
<1>1. TypeOK' /\ ReqOK'
  BY TypeStep DEF IInv
<1>2. Epochs' /\ PublicViewCurrent' /\ Readings'
  BY PublicStep DEF IInv, Public
<1>3. ~disturbed' => ~disturbed
  BY DisturbedStep DEF IInv
<1>4. Kept'
  <2> SUFFICES ASSUME ~disturbed' PROVE Trusted'
    BY DEF Kept, Trusted
  <2> QED BY <1>3, TrustedStep DEF IInv, Kept, Trusted
<1> QED BY <1>1, <1>2, <1>4 DEF IInv

THEOREM Invariant == Spec => []IInv
<1>1. Init => IInv
  BY InitIInv, TokenAssumption, BoundAssumption
<1>2. IInv /\ [Next]_vars => IInv'
  BY StepIInv, TokenAssumption, BoundAssumption
<1> QED BY <1>1, <1>2, PTL DEF Spec

\* Every variable keeps its type, whatever fails or crosses.
THEOREM Types == Spec => []TypeOK
<1>1. IInv => TypeOK
  BY DEF IInv
<1> QED BY <1>1, Invariant, PTL

\* Nobody is told of the licence before the one activated, from the moment the
\* activation is answered, for any number of readers, activations and restarts.
THEOREM NeverStale == Spec => []PublicViewCurrent
<1>1. IInv => PublicViewCurrent
  BY DEF IInv
<1> QED BY <1>1, Invariant, PTL

\* The history names the licence in the record, until activations cross, a write is
\* lost or the clock goes back behind the licence in force.
THEOREM OneCurrentRow == Spec => []HistoryNamesRecord
<1>1. IInv => HistoryNamesRecord
  BY DEF IInv, Kept, HistoryNamesRecord
<1> QED BY <1>1, Invariant, PTL

\* Until then, the activations implement the register of licences: whatever the order
\* of their reads and writes, no licence is entered twice or replaced by a shorter one.
THEOREM Refinement == Spec => KeepsRegister
<1>1. Init => Register!Init
  BY DEF Init, Register!Init, Used, HistoryIds, IdOf, Pending, IdleReq
<1>2. IInv /\ [Next]_vars => [Register!Next]_(Register!vars)
  <2> SUFFICES ASSUME IInv, [Next]_vars PROVE [Register!Next]_(Register!vars)
    OBVIOUS
  <2>1. CASE disturbed'
    <3>1. Register!Distrust
      BY <2>1 DEF Register!Distrust
    <3> QED BY <3>1 DEF Register!Next
  <2>2. CASE ~disturbed'
    <3>1. ~disturbed /\ (~disturbed)' = ~disturbed
      BY <2>2, DisturbedStep DEF IInv
    <3>2. Unmoved \/ Entered
      BY <2>2, <3>1, TrustedStep, TokenAssumption, BoundAssumption DEF IInv, Kept, Trusted
    <3>3. CASE Unmoved
      BY <3>1, <3>3 DEF Unmoved, Register!vars
    <3>4. CASE Entered
      <4>1. PICK t \in Token : /\ t.id \notin Used
                               /\ record # NoToken => record.expires <= t.expires
                               /\ record' = t /\ Used' = Used \cup {t.id}
        BY <3>4 DEF Entered
      <4>2. Register!Enter(t)
        BY <3>1, <4>1 DEF Register!Enter
      <4> QED BY <4>2 DEF Register!Next
    <3> QED BY <3>2, <3>3, <3>4
  <2> QED BY <2>1, <2>2
<1> QED BY <1>1, <1>2, Invariant, PTL DEF Spec, KeepsRegister, Register!Spec
=============================================================================
