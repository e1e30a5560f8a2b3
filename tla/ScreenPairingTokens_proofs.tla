---------------------- MODULE ScreenPairingTokens_proofs ----------------------
(***************************************************************************)
(* A television never gives up a token that its row still asks for, for    *)
(* any number of televisions, rows, requests, codes, tokens and            *)
(* disturbances, when a code is linked once and read off a screen that     *)
(* nothing is under way to (Hasty = FALSE).                                *)
(*                                                                         *)
(* The reason is that at most one identity is on the wire of a television  *)
(* at a time, in either direction: a request can deliver only to the code  *)
(* it was given, a television draws a code nobody has, and only one        *)
(* request has the code the service may still come to wait for. A refusal  *)
(* is then always about the identity that the television holds.            *)
(*                                                                         *)
(* The second theorem, DeliveredIsRegistered, needs neither assumption:    *)
(* what a television asks last is about the identity it now holds, so when *)
(* everything is answered the service knows it under that identity.        *)
(***************************************************************************)
EXTENDS ScreenPairing_proofs

\* A message is somewhere on a channel.
On(q, m) == \E i \in 1..Len(q) : q[i] = m

\* ... and another one behind it.
After(q, m, n) == \E h, i \in 1..Len(q) : h < i /\ q[h] = m /\ q[i] = n

CompleteFor(s, k) == [ev |-> "complete", screen |-> s, token |-> k]
BadToken          == [ev |-> "rejected", reason |-> "bad-token"]
Expired           == [ev |-> "expired"]

\* The registrations under way, the identities under way, the refusals under way,
\* and the identities a refusal comes after.
Claimed(t, s, k)   == On(up[t], RegisterAs(s, k))
Delivered(t, s, k) == On(down[t], CompleteFor(s, k))
BadUnderWay(t)     == On(down[t], BadToken)
Refuted(t, s, k)   == After(down[t], CompleteFor(s, k), BadToken)

\* Can the service still come to deliver what is sent to code c?
Reach(t, c) ==
  IF conn[t]
  THEN \/ room[t] = c
       \/ attempts[t] < PAIR_MAX_ATTEMPTS /\ (shown[t] = c \/ On(up[t], WaitFor(c)))
  ELSE shown[t] = c

Sending(j) == jobs[j].step \in {"send", "resend", "undo"}

\* Tokens that are held, under way or about to be have been generated.
KnownAt(t) ==
  /\ token[t] <= tokens
  /\ \A s \in Screen, k \in Token0 : Delivered(t, s, k) => k # NoToken /\ k <= tokens

JobsReady == \A j \in Job : /\ Sending(j) => jobs[j].token # NoToken
                            /\ jobs[j].tv \in Tv => jobs[j].code # NoCode

SilentAt(t) ==
  ~conn[t] => up[t] = << >> /\ down[t] = << >> /\ room[t] = NoCode /\ attempts[t] = 0

\* What is on the wire of a television is about one identity, and a refusal that will
\* reach it after an identity is about that one.
HonestAt(t) ==
  /\ BadUnderWay(t) => ~Current(t)
  /\ \A s \in Screen, k \in Token0 : Refuted(t, s, k) => rows[s].hash # k
  /\ \A s, r \in Screen, k, l \in Token0 :
       Delivered(t, s, k) /\ Delivered(t, r, l) => s = r /\ k = l
  /\ \A s \in Screen, k \in Token0 :
       Claimed(t, s, k) => (s = key[t] /\ k = token[t]) \/ token[t] = NoToken
  /\ \A s, r \in Screen, k, l \in Token0 :
       Claimed(t, s, k) /\ Delivered(t, r, l) => s = r /\ k = l

\* A request that can still reach a television is the only one, and is about the
\* identity on its wire, if there is one.
AloneAt(t) ==
  /\ \A j \in Job : jobs[j].tv = t /\ Reach(t, jobs[j].code) =>
       \A s \in Screen, k \in Token0 :
         Claimed(t, s, k) \/ Delivered(t, s, k) =>
           s = jobs[j].screen /\ k = jobs[j].token /\ k # NoToken
  /\ \A i, j \in Job :
       /\ jobs[i].tv = t /\ Reach(t, jobs[i].code)
       /\ jobs[j].tv = t /\ Reach(t, jobs[j].code)
       => i = j
  /\ \A i, j \in Job : jobs[i].tv = t /\ jobs[j].tv = t /\ i # j => jobs[i].code # jobs[j].code
  /\ \A j \in Job : ~linked[t] /\ shown[t] # NoCode /\ jobs[j].tv = t => jobs[j].code # shown[t]

GoodAt(t) == KnownAt(t) /\ SilentAt(t) /\ HonestAt(t) /\ AloneAt(t)
GoodInv   == JobsReady /\ \A t \in Tv : GoodAt(t)

-----------------------------------------------------------------------------
(* Messages on a channel.                                                  *)

LEMMA OnEmpty == \A m : ~On(<< >>, m)
  BY DEF On

LEMMA OnOne == \A x, m : On(<<x>>, m) <=> m = x
  BY DEF On

LEMMA OnTail ==
  ASSUME NEW M, NEW q \in Seq(M), q # << >>
  PROVE  \A m : On(q, m) <=> (On(Tail(q), m) \/ m = Head(q))
<1>1. /\ Len(q) \in Nat \ {0} /\ Head(q) = q[1] /\ Len(Tail(q)) = Len(q) - 1
      /\ \A i \in 1..Len(Tail(q)) : Tail(q)[i] = q[i + 1]
  BY HeadTailProperties, LenProperties, EmptySeq
<1>2. ASSUME NEW m, On(Tail(q), m) PROVE On(q, m)
  <2>1. PICK i \in 1..Len(Tail(q)) : Tail(q)[i] = m
    BY <1>2 DEF On
  <2>2. i + 1 \in 1..Len(q) /\ q[i + 1] = m
    BY <1>1, <2>1
  <2>3. QED
    BY <2>2 DEF On
<1>3. ASSUME NEW m, On(q, m), m # Head(q) PROVE On(Tail(q), m)
  <2>1. PICK i \in 1..Len(q) : q[i] = m
    BY <1>3 DEF On
  <2>2. i # 1
    BY <1>1, <1>3, <2>1
  <2>3. i - 1 \in 1..Len(Tail(q)) /\ Tail(q)[i - 1] = q[(i - 1) + 1] /\ (i - 1) + 1 = i
    BY <1>1, <2>2
  <2>4. QED
    BY <2>1, <2>3 DEF On
<1>4. On(q, Head(q))
  BY <1>1 DEF On
<1>5. QED
  BY <1>2, <1>3, <1>4

LEMMA OnAppend ==
  ASSUME NEW M, NEW q \in Seq(M), NEW x \in M
  PROVE  \A m : On(Append(q, x), m) <=> (On(q, m) \/ m = x)
<1>1. /\ Len(q) \in Nat /\ Len(Append(q, x)) = Len(q) + 1
      /\ Append(q, x)[Len(q) + 1] = x
      /\ \A i \in 1..Len(q) : Append(q, x)[i] = q[i]
  BY AppendProperties, LenProperties
<1>2. QED
  BY <1>1 DEF On

LEMMA OnConcat ==
  ASSUME NEW M, NEW q \in Seq(M), NEW r \in Seq(M)
  PROVE  \A m : On(q \o r, m) <=> (On(q, m) \/ On(r, m))
<1>1. /\ Len(q) \in Nat /\ Len(r) \in Nat /\ Len(q \o r) = Len(q) + Len(r)
      /\ \A i \in 1..(Len(q) + Len(r)) :
           (q \o r)[i] = IF i <= Len(q) THEN q[i] ELSE r[i - Len(q)]
  BY ConcatProperties, LenProperties
<1>2. ASSUME NEW m, On(q \o r, m) PROVE On(q, m) \/ On(r, m)
  <2>1. PICK i \in 1..(Len(q) + Len(r)) : (q \o r)[i] = m
    BY <1>1, <1>2 DEF On
  <2>2. CASE i <= Len(q)
    BY <1>1, <2>1, <2>2 DEF On
  <2>3. CASE ~(i <= Len(q))
    <3>1. i - Len(q) \in 1..Len(r) /\ r[i - Len(q)] = m
      BY <1>1, <2>1, <2>3
    <3>2. QED
      BY <3>1 DEF On
  <2>4. QED
    BY <2>2, <2>3
<1>3. ASSUME NEW m, On(q, m) PROVE On(q \o r, m)
  BY <1>1, <1>3 DEF On
<1>4. ASSUME NEW m, On(r, m) PROVE On(q \o r, m)
  <2>1. PICK i \in 1..Len(r) : r[i] = m
    BY <1>4 DEF On
  <2>2. /\ i + Len(q) \in 1..(Len(q) + Len(r)) /\ ~(i + Len(q) <= Len(q))
        /\ (i + Len(q)) - Len(q) = i
    BY <1>1, <2>1
  <2>3. (q \o r)[i + Len(q)] = m
    BY <1>1, <2>1, <2>2
  <2>4. QED
    BY <1>1, <2>2, <2>3 DEF On
<1>5. QED
  BY <1>2, <1>3, <1>4

LEMMA AfterEmpty == \A m, n : ~After(<< >>, m, n)
  BY DEF After

LEMMA AfterOn == \A q, m, n : After(q, m, n) => On(q, m) /\ On(q, n)
  BY DEF After, On

LEMMA AfterTail ==
  ASSUME NEW M, NEW q \in Seq(M), q # << >>
  PROVE  \A m, n : After(q, m, n) <=> (After(Tail(q), m, n) \/ (m = Head(q) /\ On(Tail(q), n)))
<1>1. /\ Len(q) \in Nat \ {0} /\ Head(q) = q[1] /\ Len(Tail(q)) = Len(q) - 1
      /\ \A i \in 1..Len(Tail(q)) : Tail(q)[i] = q[i + 1]
  BY HeadTailProperties, LenProperties, EmptySeq
<1>2. ASSUME NEW m, NEW n, After(Tail(q), m, n) PROVE After(q, m, n)
  <2>1. PICK h, i \in 1..Len(Tail(q)) : h < i /\ Tail(q)[h] = m /\ Tail(q)[i] = n
    BY <1>2 DEF After
  <2>2. /\ h + 1 \in 1..Len(q) /\ i + 1 \in 1..Len(q) /\ h + 1 < i + 1
        /\ q[h + 1] = m /\ q[i + 1] = n
    BY <1>1, <2>1
  <2>3. QED
    BY <2>2 DEF After
<1>3. ASSUME NEW n, On(Tail(q), n) PROVE After(q, Head(q), n)
  <2>1. PICK i \in 1..Len(Tail(q)) : Tail(q)[i] = n
    BY <1>3 DEF On
  <2>2. /\ 1 \in 1..Len(q) /\ i + 1 \in 1..Len(q) /\ 1 < i + 1
        /\ q[1] = Head(q) /\ q[i + 1] = n
    BY <1>1, <2>1
  <2>3. QED
    BY <2>2 DEF After
<1>4. ASSUME NEW m, NEW n, After(q, m, n)
      PROVE  After(Tail(q), m, n) \/ (m = Head(q) /\ On(Tail(q), n))
  <2>1. PICK h, i \in 1..Len(q) : h < i /\ q[h] = m /\ q[i] = n
    BY <1>4 DEF After
  <2>2. /\ i - 1 \in 1..Len(Tail(q)) /\ (i - 1) + 1 = i
    BY <1>1, <2>1
  <2>3. Tail(q)[i - 1] = n
    BY <1>1, <2>1, <2>2
  <2>4. CASE h = 1
    BY <1>1, <2>1, <2>2, <2>3, <2>4 DEF On
  <2>5. CASE h # 1
    <3>1. /\ h - 1 \in 1..Len(Tail(q)) /\ (h - 1) + 1 = h /\ h - 1 < i - 1
      BY <1>1, <2>1, <2>5
    <3>2. Tail(q)[h - 1] = m
      BY <1>1, <2>1, <3>1
    <3>3. QED
      BY <2>2, <2>3, <3>1, <3>2 DEF After
  <2>6. QED
    BY <2>4, <2>5
<1>5. QED
  BY <1>2, <1>3, <1>4

LEMMA AfterAppend ==
  ASSUME NEW M, NEW q \in Seq(M), NEW x \in M
  PROVE  \A m, n : After(Append(q, x), m, n) => After(q, m, n) \/ (On(q, m) /\ n = x)
<1>1. /\ Len(q) \in Nat /\ Len(Append(q, x)) = Len(q) + 1
      /\ Append(q, x)[Len(q) + 1] = x
      /\ \A i \in 1..Len(q) : Append(q, x)[i] = q[i]
  BY AppendProperties, LenProperties
<1>2. SUFFICES ASSUME NEW m, NEW n, After(Append(q, x), m, n)
               PROVE  After(q, m, n) \/ (On(q, m) /\ n = x)
  OBVIOUS
<1>3. PICK h, i \in 1..(Len(q) + 1) : h < i /\ Append(q, x)[h] = m /\ Append(q, x)[i] = n
  BY <1>1, <1>2 DEF After
<1>4. h \in 1..Len(q) /\ q[h] = m
  BY <1>1, <1>3
<1>5. CASE i = Len(q) + 1
  BY <1>1, <1>3, <1>4, <1>5 DEF On
<1>6. CASE i # Len(q) + 1
  <2>1. i \in 1..Len(q) /\ q[i] = n
    BY <1>1, <1>3, <1>6
  <2>2. QED
    BY <1>3, <1>4, <2>1 DEF After
<1>7. QED
  BY <1>5, <1>6

LEMMA MessagesDiffer ==
  /\ \A s, r, k, l : RegisterAs(s, k) = RegisterAs(r, l) => s = r /\ k = l
  /\ \A s, r, k, l : CompleteFor(s, k) = CompleteFor(r, l) => s = r /\ k = l
  /\ \A c, d : WaitFor(c) = WaitFor(d) => c = d
  /\ \A s, k, c : RegisterAs(s, k) # WaitFor(c)
  /\ \A s, k : CompleteFor(s, k) # BadToken /\ CompleteFor(s, k) # Expired
  /\ BadToken # Expired
  /\ \A s, k, r : CompleteFor(s, k) # [ev |-> "rejected", reason |-> r]
  /\ \A r : BadToken = [ev |-> "rejected", reason |-> r] => r = "bad-token"
<1>1. \A s, r, k, l : RegisterAs(s, k) = RegisterAs(r, l) => s = r /\ k = l
  <2>1. \A s, k : RegisterAs(s, k).screen = s /\ RegisterAs(s, k).token = k
    BY DEF RegisterAs
  <2>2. QED
    BY <2>1
<1>2. \A s, r, k, l : CompleteFor(s, k) = CompleteFor(r, l) => s = r /\ k = l
  <2>1. \A s, k : CompleteFor(s, k).screen = s /\ CompleteFor(s, k).token = k
    BY DEF CompleteFor
  <2>2. QED
    BY <2>1
<1>3. \A c, d : WaitFor(c) = WaitFor(d) => c = d
  <2>1. \A c : WaitFor(c).code = c
    BY DEF WaitFor
  <2>2. QED
    BY <2>1
<1>4. \A r : BadToken = [ev |-> "rejected", reason |-> r] => r = "bad-token"
  <2>1. \A r : [ev |-> "rejected", reason |-> r].reason = r
    OBVIOUS
  <2>2. BadToken.reason = "bad-token"
    BY DEF BadToken
  <2>3. QED
    BY <2>1, <2>2
<1>5. /\ \A s, k : RegisterAs(s, k).ev = "register" /\ CompleteFor(s, k).ev = "complete"
      /\ \A c : WaitFor(c).ev = "wait"
      /\ \A r : [ev |-> "rejected", reason |-> r].ev = "rejected"
      /\ BadToken.ev = "rejected" /\ Expired.ev = "expired"
  BY DEF RegisterAs, CompleteFor, WaitFor, BadToken, Expired
<1>6. /\ \A s, k, c : RegisterAs(s, k) # WaitFor(c)
      /\ \A s, k : CompleteFor(s, k) # BadToken /\ CompleteFor(s, k) # Expired
      /\ BadToken # Expired
      /\ \A s, k, r : CompleteFor(s, k) # [ev |-> "rejected", reason |-> r]
  BY <1>5
<1>7. QED
  BY <1>1, <1>2, <1>3, <1>4, <1>6
-----------------------------------------------------------------------------
(* What a step may do to the wire of a television without a second thought. *)

FewerClaims(t)     == \A s \in Screen, k \in Token0 : Claimed(t, s, k)' => Claimed(t, s, k)
FewerDeliveries(t) == \A s \in Screen, k \in Token0 : Delivered(t, s, k)' => Delivered(t, s, k)
FewerRefusals(t)   ==
  /\ \A s \in Screen, k \in Token0 : Refuted(t, s, k)' => Refuted(t, s, k)
  /\ BadUnderWay(t)' => BadUnderWay(t)

Wants(j, t) == jobs[j].tv = t /\ Reach(t, jobs[j].code)

\* The requests for t are among those there were; one may have got its token.
SameJobs(t) ==
  \A j \in Job : jobs'[j].tv = t =>
    /\ jobs[j].tv = t /\ jobs'[j].code = jobs[j].code /\ jobs'[j].screen = jobs[j].screen
    /\ jobs[j].token # NoToken => jobs'[j].token = jobs[j].token

FewerWanted(t) == \A j \in Job : Wants(j, t)' => Wants(j, t)

\* A code that was not linked before is the one shown before, or nobody's.
NewCode(t) ==
  ~linked'[t] /\ shown'[t] # NoCode =>
    \/ shown'[t] = shown[t] /\ ~linked[t]
    \/ \A j \in Job : jobs[j].tv = t => jobs[j].code # shown'[t]

LEMMA AloneKept ==
  ASSUME NEW t \in Tv, AloneAt(t), SameJobs(t), FewerWanted(t), NewCode(t),
         FewerClaims(t), FewerDeliveries(t)
  PROVE  AloneAt(t)'
<1>1. ASSUME NEW j \in Job, Wants(j, t)', NEW s \in Screen, NEW k \in Token0,
             Claimed(t, s, k)' \/ Delivered(t, s, k)'
      PROVE  s = jobs'[j].screen /\ k = jobs'[j].token /\ k # NoToken
  <2>1. Wants(j, t) /\ (Claimed(t, s, k) \/ Delivered(t, s, k))
    BY <1>1 DEF FewerWanted, FewerClaims, FewerDeliveries
  <2>2. s = jobs[j].screen /\ k = jobs[j].token /\ k # NoToken
    BY <2>1 DEF AloneAt, Wants
  <2>3. QED
    BY <1>1, <2>2 DEF SameJobs, Wants
<1>2. ASSUME NEW i \in Job, NEW j \in Job, Wants(i, t)', Wants(j, t)' PROVE i = j
  <2>1. Wants(i, t) /\ Wants(j, t)
    BY <1>2 DEF FewerWanted
  <2>2. QED
    BY <2>1 DEF AloneAt, Wants
<1>3. \A i, j \in Job : jobs'[i].tv = t /\ jobs'[j].tv = t /\ i # j => jobs'[i].code # jobs'[j].code
  BY DEF AloneAt, SameJobs
<1>4. \A j \in Job : ~linked'[t] /\ shown'[t] # NoCode /\ jobs'[j].tv = t => jobs'[j].code # shown'[t]
  BY DEF AloneAt, SameJobs, NewCode
<1>5. QED
  BY <1>1, <1>2, <1>3, <1>4 DEF AloneAt, Wants

\* A row asks for what it asked for, for nothing, or for a new token.
HashesMove == \A s \in Screen : \/ rows'[s].hash = rows[s].hash
                                \/ rows'[s].hash = NoToken
                                \/ rows'[s].hash = tokens + 1

LEMMA HonestKept ==
  ASSUME TypeOK, NEW t \in Tv, HonestAt(t), KnownAt(t), HashesMove,
         FewerClaims(t), FewerDeliveries(t), FewerRefusals(t),
         key'[t] = key[t], token'[t] = token[t]
  PROVE  HonestAt(t)'
<1>a. /\ tokens \in Nat /\ token[t] \in Nat /\ Token0 \subseteq Nat
      /\ \A s \in Screen : rows[s].hash \in Nat
  BY PairBounds DEF TypeOK, ApiOK, TvOK, Token0
<1>1. BadUnderWay(t)' => ~Current(t)'
  <2>1. SUFFICES ASSUME BadUnderWay(t)', Current(t)' PROVE FALSE
    OBVIOUS
  <2>2. ~Current(t)
    BY <2>1 DEF FewerRefusals, HonestAt
  <2>3. QED
    BY <1>a, <2>1, <2>2 DEF Current, HashesMove, KnownAt, NoToken
<1>2. ASSUME NEW s \in Screen, NEW k \in Token0, Refuted(t, s, k)' PROVE rows'[s].hash # k
  <2>1. Refuted(t, s, k) /\ rows[s].hash # k
    BY <1>2 DEF FewerRefusals, HonestAt
  <2>2. k # NoToken /\ k <= tokens
    BY <2>1, AfterOn DEF Refuted, Delivered, KnownAt
  <2>3. QED
    BY <1>a, <2>1, <2>2 DEF HashesMove
<1>3. QED
  BY <1>1, <1>2 DEF HonestAt, FewerClaims, FewerDeliveries

LEMMA KnownKept ==
  ASSUME TypeOK, NEW t \in Tv, KnownAt(t), FewerDeliveries(t), token'[t] = token[t],
         tokens' = tokens \/ tokens' = tokens + 1
  PROVE  KnownAt(t)'
<1>1. tokens \in Nat /\ token[t] \in Nat /\ Token0 \subseteq Nat
  BY PairBounds DEF TypeOK, ApiOK, TvOK, Token0
<1>2. ASSUME NEW s \in Screen, NEW k \in Token0, Delivered(t, s, k)'
      PROVE  k # NoToken /\ k <= tokens'
  <2>1. k # NoToken /\ k <= tokens
    BY <1>2 DEF KnownAt, FewerDeliveries
  <2>2. k \in Nat
    BY <1>1
  <2>3. QED
    BY <1>1, <2>1, <2>2
<1>3. token'[t] <= tokens'
  BY <1>1 DEF KnownAt
<1>4. QED
  BY <1>2, <1>3 DEF KnownAt

\* A television that a step does not touch.
SameTv(u) == /\ conn'[u] = conn[u] /\ up'[u] = up[u] /\ down'[u] = down[u]
             /\ attempts'[u] = attempts[u] /\ room'[u] = room[u]
             /\ shown'[u] = shown[u] /\ linked'[u] = linked[u]
             /\ key'[u] = key[u] /\ token'[u] = token[u]

LEMMA SameTvGood ==
  ASSUME TypeOK, NEW u \in Tv, GoodAt(u), SameTv(u), SameJobs(u), HashesMove,
         tokens' = tokens \/ tokens' = tokens + 1
  PROVE  GoodAt(u)'
<1>1. FewerClaims(u) /\ FewerDeliveries(u) /\ FewerRefusals(u) /\ NewCode(u)
  BY DEF SameTv, FewerClaims, FewerDeliveries, FewerRefusals, NewCode,
         Claimed, Delivered, Refuted, BadUnderWay
<1>2. FewerWanted(u)
  <2>1. \A c : Reach(u, c)' <=> Reach(u, c)
    BY DEF Reach, SameTv
  <2>2. QED
    BY <2>1 DEF FewerWanted, Wants, SameJobs, Reach, SameTv
<1>3. SilentAt(u)'
  BY DEF GoodAt, SilentAt, SameTv
<1>4. QED
  BY <1>1, <1>2, <1>3, AloneKept, HonestKept, KnownKept DEF GoodAt, SameTv

-----------------------------------------------------------------------------
(* Television.                                                             *)

\* A step that leaves the rows and the requests alone.
LEMMA ApiSame ==
  ASSUME NEW t \in Tv, UNCHANGED api
  PROVE  SameJobs(t) /\ HashesMove /\ tokens' = tokens
  BY DEF api, SameJobs, HashesMove

LEMMA Sent ==
  ASSUME TypeOK, NEW t \in Tv, NEW ms \in Seq(UpMessage), SendUp(t, ms)
  PROVE  \A m : On(up'[t], m) <=> (On(up[t], m) \/ On(ms, m))
<1>1. up[t] \in Seq(UpMessage) /\ up'[t] = up[t] \o ms
  BY SendType DEF TypeOK, WireOK
<1>2. QED
  BY <1>1, OnConcat

LEMMA Taken ==
  ASSUME TypeOK, NEW t \in Tv, down[t] # << >>, down' = [down EXCEPT ![t] = Tail(@)]
  PROVE  /\ Head(down[t]) \in DownMessage
         /\ \A m : On(down[t], m) <=> (On(down'[t], m) \/ m = Head(down[t]))
         /\ \A m, n : After(down[t], m, n) <=>
                        (After(down'[t], m, n) \/ (m = Head(down[t]) /\ On(down'[t], n)))
         /\ FewerDeliveries(t) /\ FewerRefusals(t)
<1>1. down[t] \in Seq(DownMessage) /\ down'[t] = Tail(down[t])
  BY DEF TypeOK, WireOK
<1>2. Head(down[t]) \in DownMessage
  BY <1>1, HeadTailProperties
<1>3. \A m : On(down[t], m) <=> (On(down'[t], m) \/ m = Head(down[t]))
  BY <1>1, OnTail
<1>4. \A m, n : After(down[t], m, n) <=>
                  (After(down'[t], m, n) \/ (m = Head(down[t]) /\ On(down'[t], n)))
  BY <1>1, AfterTail
<1>5. FewerDeliveries(t) /\ FewerRefusals(t)
  BY <1>3, <1>4 DEF FewerDeliveries, FewerRefusals, Delivered, Refuted, BadUnderWay
<1>6. QED
  BY <1>2, <1>3, <1>4, <1>5

LEMMA Served ==
  ASSUME TypeOK, NEW t \in Tv, up[t] # << >>, up' = [up EXCEPT ![t] = Tail(@)]
  PROVE  /\ \A m : On(up[t], m) <=> (On(up'[t], m) \/ m = Head(up[t]))
         /\ FewerClaims(t)
<1>1. up[t] \in Seq(UpMessage) /\ up'[t] = Tail(up[t])
  BY DEF TypeOK, WireOK
<1>2. \A m : On(up[t], m) <=> (On(up'[t], m) \/ m = Head(up[t]))
  BY <1>1, OnTail
<1>3. QED
  BY <1>2 DEF FewerClaims, Claimed

\* A code that nobody has, asked for or not, brings no request any nearer.
LEMMA Drawn ==
  ASSUME TypeOK, NEW t \in Tv, NEW c \in 1..MaxCode, Draws(t, c),
         \A m : On(up'[t], m) => On(up[t], m) \/ m = WaitFor(c),
         UNCHANGED <<conn, attempts, room, jobs>>
  PROVE  FewerWanted(t) /\ FewerClaims(t) /\ NewCode(t)
<1>1. \A j \in Job : jobs[j].tv = t => jobs[j].code # c
  BY DEF Draws, Fresh
<1>2. shown'[t] = c
  BY DrawsType DEF TypeOK
<1>3. FewerClaims(t)
  BY MessagesDiffer DEF FewerClaims, Claimed
<1>4. NewCode(t)
  BY <1>1, <1>2 DEF NewCode
<1>5. FewerWanted(t)
  <2>1. SUFFICES ASSUME NEW j \in Job, Wants(j, t)' PROVE Wants(j, t)
    BY DEF FewerWanted
  <2>2. jobs[j].tv = t /\ jobs[j].code # c
    BY <1>1, <2>1 DEF Wants
  <2>3. On(up'[t], WaitFor(jobs[j].code)) => On(up[t], WaitFor(jobs[j].code))
    BY <2>2, MessagesDiffer
  <2>4. QED
    BY <1>2, <2>1, <2>2, <2>3 DEF Wants, Reach
<1>6. QED
  BY <1>3, <1>4, <1>5

LEMMA Unseen ==
  ASSUME NEW t \in Tv, shown'[t] = shown[t], linked'[t] = linked[t],
         \A m : On(up'[t], m) => On(up[t], m) \/ m = WaitFor(shown[t]),
         UNCHANGED <<conn, attempts, room, jobs>>
  PROVE  FewerWanted(t) /\ FewerClaims(t) /\ NewCode(t)
<1>1. FewerClaims(t) /\ NewCode(t)
  BY MessagesDiffer DEF FewerClaims, Claimed, NewCode
<1>2. FewerWanted(t)
  <2>1. SUFFICES ASSUME NEW j \in Job, Wants(j, t)' PROVE Wants(j, t)
    BY DEF FewerWanted
  <2>2. On(up'[t], WaitFor(jobs[j].code)) =>
          On(up[t], WaitFor(jobs[j].code)) \/ shown[t] = jobs[j].code
    BY MessagesDiffer
  <2>3. QED
    BY <2>1, <2>2 DEF Wants, Reach
<1>3. QED
  BY <1>1, <1>2

LEMMA PairEffectGood ==
  ASSUME TypeOK, NEW t \in Tv, NEW p \in BOOLEAN, NEW k \in Identity, PairEffect(t, p, k),
         UNCHANGED <<conn, attempts, room, jobs>>
  PROVE  /\ FewerWanted(t) /\ FewerClaims(t) /\ NewCode(t)
         /\ ~conn[t] => up'[t] = up[t]
<1>1. CASE UNCHANGED <<shown, linked, up>>
  BY <1>1, Unseen
<1>2. CASE \E c \in 1..MaxCode :
             Draws(t, c) /\ SendUp(t, IF conn[t] THEN <<WaitFor(c)>> ELSE << >>)
  <2>1. PICK c \in 1..MaxCode :
          Draws(t, c) /\ SendUp(t, IF conn[t] THEN <<WaitFor(c)>> ELSE << >>)
    BY <1>2
  <2>2. WaitFor(c) \in UpMessage
    BY MessageTypes, ConstantTypes
  <2>3. CASE conn[t]
    <3>1. <<WaitFor(c)>> \in Seq(UpMessage) /\ SendUp(t, <<WaitFor(c)>>)
      BY <2>1, <2>2, <2>3
    <3>2. \A m : On(up'[t], m) => On(up[t], m) \/ m = WaitFor(c)
      BY <3>1, Sent, OnOne
    <3>3. QED
      BY <2>1, <2>3, <3>2, Drawn
  <2>4. CASE ~conn[t]
    <3>1. << >> \in Seq(UpMessage) /\ SendUp(t, << >>)
      BY <2>1, <2>4
    <3>2. up'[t] = up[t]
      <4>1. up[t] \in Seq(UpMessage) /\ up'[t] = up[t] \o << >>
        BY <3>1, SendType DEF TypeOK, WireOK
      <4>2. QED
        BY <4>1, ConcatEmptySeq
    <3>3. QED
      BY <2>1, <3>2, Drawn
  <2>5. QED
    BY <2>3, <2>4
<1>3. QED
  BY <1>1, <1>2 DEF PairEffect

\* A television whose connection is gone and whose code nobody has.
LEMMA LoadGood ==
  ASSUME TypeOK, JobsReady, NEW t \in Tv, GoodAt(t), SocketCloses(t), UNCHANGED api,
         token'[t] = token[t],
         \/ shown'[t] = NoCode
         \/ \E c \in 1..MaxCode : Draws(t, c)
         \/ shown'[t] = shown[t] /\ linked'[t] = linked[t]
  PROVE  GoodAt(t)'
<1>1. /\ ~conn'[t] /\ up'[t] = << >> /\ down'[t] = << >>
      /\ room'[t] = NoCode /\ attempts'[t] = 0
  BY DEF SocketCloses, TypeOK, WireOK, ServiceOK
<1>2. SilentAt(t)'
  BY <1>1 DEF SilentAt
<1>3. /\ \A s, k : ~Claimed(t, s, k)' /\ ~Delivered(t, s, k)' /\ ~Refuted(t, s, k)'
      /\ ~BadUnderWay(t)'
  BY <1>1, OnEmpty, AfterEmpty DEF Claimed, Delivered, Refuted, BadUnderWay
<1>4. KnownAt(t)'
  BY <1>3, ApiSame DEF KnownAt, GoodAt
<1>5. HonestAt(t)'
  BY <1>3 DEF HonestAt
<1>6. AloneAt(t)'
  <2>1. \A i, j \in Job : jobs[i].tv = t /\ jobs[j].tv = t /\ i # j => jobs[i].code # jobs[j].code
    BY DEF GoodAt, AloneAt
  <2>2. \A i, j \in Job : Wants(i, t)' /\ Wants(j, t)' => i = j
    BY <1>1, <2>1, ApiSame DEF Wants, Reach, SameJobs
  <2>3. NewCode(t)
    <3>1. CASE shown'[t] = NoCode
      BY <3>1 DEF NewCode
    <3>2. CASE \E c \in 1..MaxCode : Draws(t, c)
      BY <3>2, DrawsType DEF NewCode, Draws, Fresh, TypeOK
    <3>3. CASE shown'[t] = shown[t] /\ linked'[t] = linked[t]
      BY <3>3 DEF NewCode
    <3>4. QED
      BY <3>1, <3>2, <3>3
  <2>4. \A j \in Job : ~linked'[t] /\ shown'[t] # NoCode /\ jobs'[j].tv = t => jobs'[j].code # shown'[t]
    BY <2>3, ApiSame DEF NewCode, SameJobs, GoodAt, AloneAt
  <2>5. \A i, j \in Job : jobs'[i].tv = t /\ jobs'[j].tv = t /\ i # j => jobs'[i].code # jobs'[j].code
    BY <2>1, ApiSame DEF SameJobs
  <2>6. QED
    BY <1>3, <2>2, <2>4, <2>5 DEF AloneAt, Wants
<1>7. QED
  BY <1>2, <1>4, <1>5, <1>6 DEF GoodAt

LEMMA ConnectGood ==
  ASSUME TypeOK, JobsReady, NEW t \in Tv, AwaitAt(t), GoodAt(t), Connect(t)
  PROVE  GoodAt(t)'
<1> DEFINE asks == key[t] = NoScreen /\ shown[t] # NoCode
           name == <<RegisterAs(key[t], token[t])>>
           wait == IF asks THEN <<WaitFor(shown[t])>> ELSE << >>
<1>a. /\ up[t] = << >> /\ down[t] = << >> /\ room[t] = NoCode /\ ~conn[t]
      /\ UNCHANGED <<api, attempts, room, down, shown, linked, key, token>>
  BY DEF Connect, GoodAt, SilentAt, service, tvs, store, view, ghosts
<1>b. conn'[t]
  BY DEF Connect, TypeOK, WireOK
<1>c. \A m : On(up'[t], m) <=> (m = RegisterAs(key[t], token[t]) \/ (asks /\ m = WaitFor(shown[t])))
  <2>1. RegisterAs(key[t], token[t]) \in UpMessage /\ WaitFor(shown[t]) \in UpMessage
    BY MessageTypes DEF TypeOK, TvOK
  <2>2. name \in Seq(UpMessage) /\ wait \in Seq(UpMessage)
    BY <2>1
  <2>3. SendUp(t, name \o wait)
    BY DEF Connect
  <2>4. /\ \A m : On(name, m) <=> m = RegisterAs(key[t], token[t])
        /\ \A m : On(wait, m) <=> (asks /\ m = WaitFor(shown[t]))
    BY OnOne, OnEmpty
  <2> HIDE DEF name, wait, asks
  <2>5. name \o wait \in Seq(UpMessage) /\ \A m : On(name \o wait, m) <=> (On(name, m) \/ On(wait, m))
    BY <2>2, OnConcat, ConcatProperties
  <2>6. \A m : On(up'[t], m) <=> (On(up[t], m) \/ On(name \o wait, m))
    BY <2>3, <2>5, Sent
  <2>7. QED
    BY <1>a, <2>4, <2>5, <2>6, OnEmpty
<1>1. /\ \A s, k : ~Delivered(t, s, k)' /\ ~Refuted(t, s, k)'
      /\ ~BadUnderWay(t)'
      /\ \A s, k : Claimed(t, s, k)' => s = key[t] /\ k = token[t]
  BY <1>a, <1>c, OnEmpty, AfterEmpty, MessagesDiffer
  DEF Claimed, Delivered, Refuted, BadUnderWay
<1>2. KnownAt(t)' /\ SilentAt(t)' /\ HonestAt(t)'
  BY <1>a, <1>b, <1>1 DEF KnownAt, SilentAt, HonestAt, GoodAt, api
<1>3. \A j \in Job : Wants(j, t)' => jobs[j].tv = t /\ jobs[j].code = shown[t] /\ shown[t] # NoCode
  <2>1. SUFFICES ASSUME NEW j \in Job, Wants(j, t)'
                 PROVE  jobs[j].tv = t /\ jobs[j].code = shown[t] /\ shown[t] # NoCode
    OBVIOUS
  <2>2. jobs[j].tv = t /\ jobs[j].code # NoCode
    BY <2>1, <1>a DEF Wants, JobsReady, api
  <2>3. On(up'[t], WaitFor(jobs[j].code)) => jobs[j].code = shown[t]
    BY <1>c, MessagesDiffer
  <2>4. QED
    BY <2>1, <2>2, <2>3, <1>a, <1>b DEF Wants, Reach, api
<1>4. AloneAt(t)'
  <2>1. ASSUME NEW j \in Job, Wants(j, t)', NEW s \in Screen, NEW k,
               Claimed(t, s, k)'
        PROVE  FALSE
    BY <2>1, <1>1, <1>3, ScreenAssumption DEF AwaitAt
  <2>2. \A i, j \in Job : Wants(i, t)' /\ Wants(j, t)' => i = j
    BY <1>3 DEF GoodAt, AloneAt
  <2>3. UNCHANGED <<jobs, shown, linked>>
    BY <1>a DEF api
  <2>4. QED
    BY <1>1, <2>1, <2>2, <2>3 DEF AloneAt, Wants, GoodAt
<1>5. QED
  BY <1>2, <1>4 DEF GoodAt

LEMMA HeartbeatGood ==
  ASSUME TypeOK, NEW t \in Tv, GoodAt(t), Heartbeat(t)
  PROVE  GoodAt(t)'
<1>1. <<WaitFor(shown[t])>> \in Seq(UpMessage)
  BY MessageTypes DEF TypeOK, TvOK
<1>2. \A m : On(up'[t], m) => On(up[t], m) \/ m = WaitFor(shown[t])
  BY <1>1, Sent, OnOne DEF Heartbeat
<1>3. UNCHANGED <<api, conn, attempts, room, down, shown, linked, key, token>> /\ conn[t]
  BY DEF Heartbeat, service, tvs, store, view, ghosts
<1>4. FewerWanted(t) /\ FewerClaims(t) /\ NewCode(t)
  BY <1>2, <1>3, Unseen DEF api
<1>5. FewerDeliveries(t) /\ FewerRefusals(t)
  BY <1>3 DEF FewerDeliveries, FewerRefusals, Delivered, Refuted, BadUnderWay
<1>6. SilentAt(t)'
  BY <1>3 DEF SilentAt
<1>7. QED
  BY <1>3, <1>4, <1>5, <1>6, ApiSame, AloneKept, HonestKept, KnownKept DEF GoodAt

LEMMA ToggleGood ==
  ASSUME TypeOK, NEW t \in Tv, GoodAt(t), TogglePicker(t)
  PROVE  GoodAt(t)'
<1>1. key[t] \in Identity /\ (~picker[t]) \in BOOLEAN
  BY DEF TypeOK, TvOK
<1>2. /\ PairEffect(t, ~picker[t], key[t])
      /\ UNCHANGED <<api, conn, attempts, room, down, key, token>>
  BY DEF TogglePicker, service, store
<1>3. FewerWanted(t) /\ FewerClaims(t) /\ NewCode(t) /\ (~conn[t] => up'[t] = up[t])
  BY <1>1, <1>2, PairEffectGood DEF api
<1>4. FewerDeliveries(t) /\ FewerRefusals(t)
  BY <1>2 DEF FewerDeliveries, FewerRefusals, Delivered, Refuted, BadUnderWay
<1>5. SilentAt(t)'
  BY <1>2, <1>3 DEF SilentAt, GoodAt
<1>6. QED
  BY <1>2, <1>3, <1>4, <1>5, ApiSame, AloneKept, HonestKept, KnownKept DEF GoodAt

LEMMA RejectedGood ==
  ASSUME TypeOK, NEW t \in Tv, GoodAt(t), OnRejected(t)
  PROVE  GoodAt(t)'
<1> DEFINE forgets == Head(down[t]).reason = "bad-token" /\ token[t] # NoToken
           k       == IF forgets THEN NoScreen ELSE key[t]
<1>1. /\ conn[t] /\ down[t] # << >> /\ down' = [down EXCEPT ![t] = Tail(@)]
      /\ UNCHANGED <<api, conn, attempts, room>>
  BY DEF OnRejected, Receives, service
<1>2. k \in Identity /\ PairEffect(t, TRUE, k) /\ key'[t] = k
      /\ token'[t] = IF forgets THEN NoToken ELSE token[t]
  BY ConstantTypes DEF OnRejected, TypeOK, TvOK
<1> HIDE DEF k
<1>3. FewerWanted(t) /\ FewerClaims(t) /\ NewCode(t)
  BY <1>1, <1>2, PairEffectGood DEF api
<1>4. FewerDeliveries(t) /\ FewerRefusals(t)
  BY <1>1, Taken
<1>5. SilentAt(t)'
  BY <1>1 DEF SilentAt
<1>6. AloneAt(t)'
  BY <1>1, <1>3, <1>4, ApiSame, AloneKept DEF GoodAt
<1>7. CASE forgets
  <2>1. token'[t] = NoToken
    BY <1>2, <1>7
  <2>2. KnownAt(t)'
    <3>1. NoToken <= tokens
      BY PairBounds DEF TypeOK, ApiOK, Token0, NoToken
    <3>2. QED
      BY <2>1, <3>1, <1>1, <1>4 DEF KnownAt, GoodAt, FewerDeliveries, api
  <2>3. HonestAt(t)'
    BY <2>1, <1>1, <1>3, <1>4
    DEF HonestAt, GoodAt, Current, FewerClaims, FewerDeliveries, FewerRefusals, api
  <2>4. QED
    BY <2>2, <2>3, <1>5, <1>6 DEF GoodAt
<1>8. CASE ~forgets
  BY <1>1, <1>2, <1>3, <1>4, <1>5, <1>6, <1>8, ApiSame, HonestKept, KnownKept DEF GoodAt, k
<1>9. QED
  BY <1>7, <1>8

LEMMA CompleteGood ==
  ASSUME TypeOK, JobsReady, NEW t \in Tv, GoodAt(t), OnComplete(t)
  PROVE  GoodAt(t)'
<1> DEFINE m == Head(down[t])
<1>1. /\ conn[t] /\ down[t] # << >> /\ down' = [down EXCEPT ![t] = Tail(@)] /\ m.ev = "complete"
      /\ UNCHANGED <<api, conn, attempts, room, linked>>
  BY DEF OnComplete, Receives, service, ghosts
<1>2. /\ m \in DownMessage
      /\ \A x : On(down[t], x) <=> (On(down'[t], x) \/ x = m)
      /\ \A x, y : After(down[t], x, y) <=> (After(down'[t], x, y) \/ (x = m /\ On(down'[t], y)))
      /\ FewerDeliveries(t) /\ FewerRefusals(t)
  BY <1>1, Taken
<1>3. PICK s \in Screen, k \in Token0 : m = CompleteFor(s, k)
  BY <1>1, <1>2 DEF DownMessage, CompleteFor
<1>4. m.screen = s /\ m.token = k
  BY <1>3 DEF CompleteFor
<1>5. key'[t] = s /\ token'[t] = k /\ shown'[t] = NoCode /\ SendUp(t, <<RegisterAs(s, k)>>)
  BY <1>4 DEF OnComplete, TypeOK, TvOK
<1> HIDE DEF m
<1>6. Delivered(t, s, k)
  BY <1>2, <1>3 DEF Delivered
<1>7. \A x : On(up'[t], x) <=> (On(up[t], x) \/ x = RegisterAs(s, k))
  <2>1. <<RegisterAs(s, k)>> \in Seq(UpMessage)
    BY MessageTypes, ConstantTypes
  <2>2. QED
    BY <2>1, <1>5, Sent, OnOne
<1>8. \A r \in Screen, l \in Token0 : Claimed(t, r, l)' => r = s /\ l = k
  <2>1. SUFFICES ASSUME NEW r \in Screen, NEW l \in Token0, Claimed(t, r, l)'
                 PROVE  r = s /\ l = k
    OBVIOUS
  <2>2. Claimed(t, r, l) \/ RegisterAs(r, l) = RegisterAs(s, k)
    BY <2>1, <1>7 DEF Claimed
  <2>3. QED
    BY <2>2, <1>6, MessagesDiffer DEF GoodAt, HonestAt
<1>9. \A r \in Screen, l \in Token0 : Delivered(t, r, l)' => r = s /\ l = k
  BY <1>2, <1>6 DEF FewerDeliveries, GoodAt, HonestAt
<1>10. KnownAt(t)'
  BY <1>1, <1>2, <1>5, <1>6 DEF KnownAt, GoodAt, FewerDeliveries, api
<1>11. SilentAt(t)'
  BY <1>1 DEF SilentAt
<1>12. HonestAt(t)'
  <2>1. BadUnderWay(t)' => rows[s].hash # k
    <3>1. BadUnderWay(t)' => Refuted(t, s, k)
      BY <1>2, <1>3 DEF BadUnderWay, Refuted
    <3>2. QED
      BY <3>1 DEF GoodAt, HonestAt
  <2>2. BadUnderWay(t)' => ~Current(t)'
    BY <2>1, <1>1, <1>5 DEF Current, api
  <2>3. \A r \in Screen, l \in Token0 : Refuted(t, r, l)' => rows'[r].hash # l
    BY <1>1, <1>2 DEF FewerRefusals, GoodAt, HonestAt, api
  <2>4. QED
    BY <2>2, <2>3, <1>5, <1>8, <1>9 DEF HonestAt
<1>13. AloneAt(t)'
  <2>1. \A j \in Job : Wants(j, t)' => Wants(j, t)
    <3>1. SUFFICES ASSUME NEW j \in Job, Wants(j, t)' PROVE Wants(j, t)
      OBVIOUS
    <3>2. jobs[j].tv = t /\ jobs[j].code # NoCode
      BY <3>1, <1>1 DEF Wants, JobsReady, api
    <3>3. On(up'[t], WaitFor(jobs[j].code)) => On(up[t], WaitFor(jobs[j].code))
      BY <1>7, MessagesDiffer
    <3>4. QED
      BY <3>1, <3>2, <3>3, <1>1, <1>5 DEF Wants, Reach, api
  <2>2. \A j \in Job : Wants(j, t) => s = jobs[j].screen /\ k = jobs[j].token /\ k # NoToken
    BY <1>6 DEF GoodAt, AloneAt, Wants
  <2>3. UNCHANGED <<jobs, linked>>
    BY <1>1 DEF api
  <2>4. /\ \A i, j \in Job : Wants(i, t)' /\ Wants(j, t)' => i = j
        /\ \A i, j \in Job : jobs[i].tv = t /\ jobs[j].tv = t /\ i # j => jobs[i].code # jobs[j].code
    BY <2>1 DEF GoodAt, AloneAt, Wants
  <2>5. QED
    BY <2>1, <2>2, <2>3, <2>4, <1>5, <1>8, <1>9 DEF AloneAt, Wants
<1>14. QED
  BY <1>10, <1>11, <1>12, <1>13 DEF GoodAt

LEMMA ExpiredGood ==
  ASSUME TypeOK, NEW t \in Tv, GoodAt(t), OnExpired(t)
  PROVE  GoodAt(t)'
<1>1. /\ conn[t] /\ down[t] # << >> /\ down' = [down EXCEPT ![t] = Tail(@)]
      /\ UNCHANGED <<api, conn, attempts, room, key, token>>
  BY DEF OnExpired, Receives, service, store
<1>2. FewerDeliveries(t) /\ FewerRefusals(t)
  BY <1>1, Taken
<1>3. FewerWanted(t) /\ FewerClaims(t) /\ NewCode(t)
  <2>1. CASE UNCHANGED <<shown, linked, up>>
    BY <2>1, <1>1, Unseen DEF api
  <2>2. CASE \E c \in 1..MaxCode : Draws(t, c) /\ SendUp(t, <<WaitFor(c)>>)
    <3>1. PICK c \in 1..MaxCode : Draws(t, c) /\ SendUp(t, <<WaitFor(c)>>)
      BY <2>2
    <3>2. <<WaitFor(c)>> \in Seq(UpMessage)
      BY MessageTypes, ConstantTypes
    <3>3. \A m : On(up'[t], m) => On(up[t], m) \/ m = WaitFor(c)
      BY <3>1, <3>2, Sent, OnOne
    <3>4. QED
      BY <3>1, <3>3, <1>1, Drawn DEF api
  <2>3. QED
    BY <2>1, <2>2 DEF OnExpired
<1>4. SilentAt(t)'
  BY <1>1 DEF SilentAt
<1>5. QED
  BY <1>1, <1>2, <1>3, <1>4, ApiSame, AloneKept, HonestKept, KnownKept DEF GoodAt

-----------------------------------------------------------------------------
(* realtime-service.                                                       *)

LEMMA PutOn ==
  ASSUME TypeOK, NEW t \in Tv, NEW m \in DownMessage, down'[t] = Append(down[t], m)
  PROVE  /\ \A x : On(down'[t], x) <=> (On(down[t], x) \/ x = m)
         /\ \A x, y : After(down'[t], x, y) => After(down[t], x, y) \/ (On(down[t], x) /\ y = m)
<1>1. down[t] \in Seq(DownMessage)
  BY DEF TypeOK, WireOK
<1>2. QED
  BY <1>1, OnAppend, AfterAppend

LEMMA RegisterGood ==
  ASSUME TypeOK, NEW t \in Tv, NEW dbRead \in BOOLEAN, GoodAt(t), OnRegister(t, dbRead)
  PROVE  GoodAt(t)'
<1> DEFINE m       == Head(up[t])
           verdict == CheckScreenAuth(m, dbRead)
           answer  == [ev |-> "rejected", reason |-> verdict]
<1>1. /\ conn[t] /\ up[t] # << >> /\ m.ev = "register" /\ up' = [up EXCEPT ![t] = Tail(@)]
      /\ UNCHANGED <<api, conn, attempts, room, shown, linked, key, token>>
  BY DEF OnRegister, Serves, tvs, store, view
<1>2. /\ \A x : On(up[t], x) <=> (On(up'[t], x) \/ x = m)
      /\ FewerClaims(t)
  BY <1>1, Served
<1>3. FewerWanted(t) /\ NewCode(t)
  BY <1>1, <1>2, Unseen DEF api
<1>4. SilentAt(t)'
  BY <1>1 DEF SilentAt
<1>5. CASE UNCHANGED down
  <2>1. FewerDeliveries(t) /\ FewerRefusals(t)
    BY <1>5 DEF FewerDeliveries, FewerRefusals, Delivered, Refuted, BadUnderWay
  <2>2. QED
    BY <2>1, <1>1, <1>2, <1>3, <1>4, ApiSame, AloneKept, HonestKept, KnownKept DEF GoodAt
<1>6. CASE down' = [down EXCEPT ![t] = Append(@, answer)]
           /\ verdict \in {"unknown", "inactive", "bad-token"}
  <2>1. answer \in DownMessage /\ down'[t] = Append(down[t], answer)
    BY <1>6, MessageTypes DEF TypeOK, WireOK
  <2> HIDE DEF answer
  <2>2. /\ \A x : On(down'[t], x) <=> (On(down[t], x) \/ x = answer)
        /\ \A x, y : After(down'[t], x, y) => After(down[t], x, y) \/ (On(down[t], x) /\ y = answer)
    BY <2>1, PutOn
  <2>3. FewerDeliveries(t)
    BY <2>2, MessagesDiffer DEF FewerDeliveries, Delivered, answer
  <2>4. KnownAt(t)' /\ AloneAt(t)'
    BY <2>3, <1>1, <1>2, <1>3, ApiSame, AloneKept, KnownKept DEF GoodAt
  <2>5. CASE verdict # "bad-token"
    <3>1. answer # BadToken
      BY <2>5, MessagesDiffer DEF answer
    <3>2. FewerRefusals(t)
      BY <2>2, <3>1 DEF FewerRefusals, Refuted, BadUnderWay
    <3>3. QED
      BY <2>3, <2>4, <3>2, <1>1, <1>2, <1>4, ApiSame, HonestKept DEF GoodAt
  <2>6. CASE verdict = "bad-token"
    <3>1. m.screen \in Screen /\ m.token \in Token0 /\ m = RegisterAs(m.screen, m.token)
          /\ rows[m.screen].hash # m.token
      <4>1. m \in UpMessage
        BY <1>1, TakeType DEF TypeOK, WireOK
      <4>2. m.screen \in Identity /\ m.token \in Token0 /\ m = RegisterAs(m.screen, m.token)
        BY <4>1, <1>1 DEF UpMessage, RegisterAs
      <4>3. m.screen # NoScreen /\ rows[m.screen].hash # m.token
        BY <2>6 DEF CheckScreenAuth
      <4>4. QED
        BY <4>2, <4>3 DEF Identity
    <3> DEFINE s == m.screen
               k == m.token
    <3>2. Claimed(t, s, k) /\ rows[s].hash # k /\ s \in Screen /\ k \in Token0
      BY <3>1, <1>2 DEF Claimed
    <3> HIDE DEF s, k
    <3>3. ~Current(t)'
      <4>1. (s = key[t] /\ k = token[t]) \/ token[t] = NoToken
        BY <3>2 DEF GoodAt, HonestAt
      <4>2. QED
        BY <4>1, <3>2, <1>1 DEF Current, api
    <3>4. ASSUME NEW r \in Screen, NEW l \in Token0, Refuted(t, r, l)'
          PROVE  rows'[r].hash # l
      <4>1. Refuted(t, r, l) \/ Delivered(t, r, l)
        BY <3>4, <2>2 DEF Refuted, Delivered
      <4>2. CASE Refuted(t, r, l)
        BY <4>2, <1>1 DEF GoodAt, HonestAt, api
      <4>3. CASE Delivered(t, r, l)
        BY <4>3, <3>2, <1>1 DEF GoodAt, HonestAt, api
      <4>4. QED
        BY <4>1, <4>2, <4>3
    <3>5. HonestAt(t)'
      BY <3>3, <3>4, <2>3, <1>1, <1>2 DEF HonestAt, GoodAt, FewerClaims, FewerDeliveries
    <3>6. QED
      BY <3>5, <2>4, <1>4 DEF GoodAt
  <2>7. QED
    BY <2>5, <2>6
<1>7. QED
  <2>1. verdict \in {"verified", "unverified", "unknown", "inactive", "bad-token"}
    BY DEF CheckScreenAuth
  <2>2. QED
    BY <2>1, <1>5, <1>6 DEF OnRegister

LEMMA WaitGood ==
  ASSUME TypeOK, NEW t \in Tv, GoodAt(t), OnWait(t)
  PROVE  GoodAt(t)'
<1> DEFINE m == Head(up[t])
<1>1. /\ conn[t] /\ up[t] # << >> /\ m.ev = "wait" /\ up' = [up EXCEPT ![t] = Tail(@)]
      /\ UNCHANGED <<api, conn, down, shown, linked, key, token>>
  BY DEF OnWait, Serves, tvs, store, view, ghosts
<1>2. /\ \A x : On(up[t], x) <=> (On(up'[t], x) \/ x = m)
      /\ FewerClaims(t)
  BY <1>1, Served
<1>3. FewerDeliveries(t) /\ FewerRefusals(t) /\ NewCode(t)
  BY <1>1 DEF FewerDeliveries, FewerRefusals, Delivered, Refuted, BadUnderWay, NewCode
<1>4. On(up[t], WaitFor(m.code))
  <2>1. m \in UpMessage
    BY <1>1, TakeType DEF TypeOK, WireOK
  <2>2. m = WaitFor(m.code)
    BY <2>1, <1>1 DEF UpMessage, WaitFor
  <2>3. QED
    BY <1>2, <2>2
<1>5. FewerWanted(t)
  <2>1. SUFFICES ASSUME NEW j \in Job, Wants(j, t)' PROVE Wants(j, t)
    BY DEF FewerWanted
  <2> DEFINE c == jobs[j].code
  <2>2. \/ room'[t] = c
        \/ attempts'[t] < PAIR_MAX_ATTEMPTS /\ (shown[t] = c \/ On(up[t], WaitFor(c)))
    BY <2>1, <1>1, <1>2 DEF Wants, Reach, api
  <2>3. /\ attempts[t] \in Nat /\ PAIR_MAX_ATTEMPTS \in Nat
        /\ attempts'[t] = IF attempts[t] + 1 > PAIR_MAX_ATTEMPTS
                          THEN PAIR_MAX_ATTEMPTS + 1 ELSE attempts[t] + 1
        /\ room'[t] = IF attempts[t] + 1 > PAIR_MAX_ATTEMPTS THEN room[t] ELSE m.code
    BY PairBounds DEF OnWait, TypeOK, ServiceOK
  <2> HIDE DEF m
  <2>4. \/ room[t] = c
        \/ attempts[t] < PAIR_MAX_ATTEMPTS
           /\ (m.code = c \/ shown[t] = c \/ On(up[t], WaitFor(c)))
    BY <2>2, <2>3
  <2>5. QED
    BY <2>1, <2>4, <1>1, <1>4 DEF Wants, Reach, api
<1>6. SilentAt(t)'
  BY <1>1 DEF SilentAt
<1>7. QED
  BY <1>1, <1>2, <1>3, <1>5, <1>6, ApiSame, AloneKept, HonestKept, KnownKept DEF GoodAt

LEMMA TtlGood ==
  ASSUME TypeOK, JobsReady, NEW t \in Tv, GoodAt(t), PairTtl(t)
  PROVE  GoodAt(t)'
<1>1. /\ conn[t] /\ room'[t] = NoCode /\ down'[t] = Append(down[t], Expired)
      /\ UNCHANGED <<api, conn, attempts, up, shown, linked, key, token>>
  BY DEF PairTtl, TypeOK, WireOK, ServiceOK, Expired, tvs, store, view, ghosts
<1>2. Expired \in DownMessage
  BY MessageTypes DEF Expired
<1>3. /\ \A x : On(down'[t], x) <=> (On(down[t], x) \/ x = Expired)
      /\ \A x, y : After(down'[t], x, y) => After(down[t], x, y) \/ (On(down[t], x) /\ y = Expired)
  BY <1>1, <1>2, PutOn
<1>4. FewerDeliveries(t) /\ FewerRefusals(t)
  BY <1>3, MessagesDiffer DEF FewerDeliveries, FewerRefusals, Delivered, Refuted, BadUnderWay
<1>5. FewerClaims(t) /\ NewCode(t) /\ SilentAt(t)'
  BY <1>1 DEF FewerClaims, Claimed, NewCode, SilentAt
<1>6. FewerWanted(t)
  <2>1. SUFFICES ASSUME NEW j \in Job, Wants(j, t)' PROVE Wants(j, t)
    BY DEF FewerWanted
  <2>2. jobs[j].tv = t /\ jobs[j].code # NoCode
    BY <2>1, <1>1 DEF Wants, JobsReady, api
  <2>3. QED
    BY <2>1, <2>2, <1>1 DEF Wants, Reach, api
<1>7. QED
  BY <1>1, <1>4, <1>5, <1>6, ApiSame, AloneKept, HonestKept, KnownKept DEF GoodAt

-----------------------------------------------------------------------------
(* Administrators, the requests of the API and the rows.                   *)

LEMMA StartGood ==
  ASSUME TypeOK, JobsReady, Hasty = FALSE, NEW u \in Tv, AwaitAt(u), GoodAt(u),
         NEW j \in Job, NEW s \in Screen, NEW t \in Tv \cup {NoTv}, NEW c \in Code0,
         StartLink(j, s, t, c) \/ StartCreate(j, s, t, c)
  PROVE  GoodAt(u)' /\ JobsReady'
<1> DEFINE b == [step |-> "hash", screen |-> s, tv |-> t, code |-> c, token |-> NoToken]
<1>a. jobs \in [Job -> [step : JobStep, screen : Identity, tv : Tv \cup {NoTv},
                        code : Code0, token : Token0]]
  BY DEF TypeOK, ApiOK
<1>1. /\ jobs[j] = NoJob /\ jobs' = [jobs EXCEPT ![j] = b] /\ Types(t, c) /\ Typed(t)
      /\ UNCHANGED <<tokens, conn, up, down, attempts, room, shown, key, token>>
  BY DEF StartLink, StartCreate, Starts, service, wire, tvs, store, view
<1>2. jobs'[j] = b /\ \A i \in Job : i # j => jobs'[i] = jobs[i]
  BY <1>1, <1>a
<1>3. \A r \in Screen : rows'[r].hash = rows[r].hash
  BY DEF StartLink, StartCreate, TypeOK, ApiOK
<1>4. b.tv = t /\ b.code = c /\ b.step = "hash"
  OBVIOUS
<1> HIDE DEF b
<1>5. t \in Tv => c # NoCode /\ c = shown[t] /\ Quiet(t) /\ ~linked[t]
  BY <1>1, ScreenAssumption DEF Types
<1>6. JobsReady'
  BY <1>2, <1>4, <1>5 DEF JobsReady, Sending
<1>7. CASE u # t
  <2>1. SameTv(u)
    BY <1>1, <1>7 DEF Typed, SameTv, TypeOK, GhostsOK
  <2>2. SameJobs(u)
    BY <1>2, <1>4, <1>7 DEF SameJobs
  <2>3. QED
    BY <2>1, <2>2, <1>1, <1>3, <1>6, SameTvGood DEF HashesMove
<1>8. CASE u = t
  <2>1. c # NoCode /\ c = shown[u] /\ up[u] = << >> /\ down[u] = << >> /\ ~linked[u]
    BY <1>5, <1>8 DEF Quiet
  <2>2. linked'[u]
    BY <1>1, <1>8, ScreenAssumption DEF Typed, TypeOK, GhostsOK
  <2>3. /\ \A r, k : ~Claimed(u, r, k)' /\ ~Delivered(u, r, k)' /\ ~Refuted(u, r, k)'
        /\ ~BadUnderWay(u)'
    BY <1>1, <2>1, OnEmpty, AfterEmpty DEF Claimed, Delivered, Refuted, BadUnderWay
  <2>4. KnownAt(u)' /\ SilentAt(u)' /\ HonestAt(u)'
    BY <1>1, <2>3 DEF KnownAt, SilentAt, HonestAt, GoodAt
  <2>5. \A i \in Job : i # j /\ jobs[i].tv = u => jobs[i].code # c
    BY <2>1 DEF GoodAt, AloneAt
  <2>6. \A i \in Job : i # j /\ Wants(i, u)' => Wants(i, u) /\ conn[u] /\ room[u] # c
    <3>1. SUFFICES ASSUME NEW i \in Job, i # j, Wants(i, u)'
                   PROVE  Wants(i, u) /\ conn[u] /\ room[u] # c
      OBVIOUS
    <3>2. jobs'[i] = jobs[i] /\ jobs[i].tv = u /\ jobs[i].code # c
      BY <3>1, <1>2, <2>5 DEF Wants
    <3>3. Reach(u, jobs[i].code)
      BY <3>1, <3>2, <1>1 DEF Wants, Reach
    <3>4. ~On(up[u], WaitFor(jobs[i].code))
      BY <2>1, OnEmpty
    <3>5. QED
      BY <3>2, <3>3, <3>4, <2>1 DEF Wants, Reach
  <2>7. Wants(j, u)' /\ conn[u] => room[u] = c
    <3>1. SUFFICES ASSUME Wants(j, u)', conn[u], room[u] # c PROVE FALSE
      OBVIOUS
    <3>2. ~On(up[u], WaitFor(c)) /\ ~UnderWay(u)
      BY <2>1, OnEmpty DEF UnderWay
    <3>3. attempts[u] < PAIR_MAX_ATTEMPTS
      BY <3>1, <3>2, <1>1, <1>2, <1>4 DEF Wants, Reach
    <3>4. attempts[u] <= PAIR_MAX_ATTEMPTS
      BY <3>3, PairBounds DEF TypeOK, ServiceOK
    <3>5. QED
      BY <3>1, <3>2, <3>4, <2>1 DEF AwaitAt
  <2>8. \A h, i \in Job : Wants(h, u)' /\ Wants(i, u)' => h = i
    BY <2>6, <2>7 DEF GoodAt, AloneAt, Wants
  <2>9. \A h, i \in Job : jobs'[h].tv = u /\ jobs'[i].tv = u /\ h # i => jobs'[h].code # jobs'[i].code
    BY <1>2, <1>4, <2>5 DEF GoodAt, AloneAt
  <2>10. AloneAt(u)'
    BY <2>2, <2>3, <2>8, <2>9 DEF AloneAt, Wants
  <2>11. QED
    BY <2>4, <2>10, <1>6 DEF GoodAt
<1>9. QED
  BY <1>7, <1>8

LEMMA WriteGood ==
  ASSUME TypeInv, BeforeHash, JobsReady, NEW j \in Job, WriteHash(j)
  PROVE  /\ JobsReady' /\ \A u \in Tv : GoodAt(u) => GoodAt(u)'
<1>a. /\ jobs \in [Job -> [step : JobStep, screen : Identity, tv : Tv \cup {NoTv},
                           code : Code0, token : Token0]]
      /\ tokens \in Nat
  BY PairBounds DEF TypeInv, TypeOK, ApiOK, Token0
<1>1. /\ jobs[j].token = NoToken /\ tokens' = tokens + 1 /\ jobs[j].screen \in Screen
      /\ UNCHANGED <<conn, up, down, attempts, room, shown, linked, key, token>>
  BY DEF WriteHash, BeforeHash, TypeInv, JobsHaveScreens, service, wire, tvs, store, view, ghosts
<1>2. /\ \A i \in Job : i # j => jobs'[i] = jobs[i]
      /\ \/ jobs'[j] = NoJob
         \/ /\ jobs'[j].tv = jobs[j].tv /\ jobs'[j].code = jobs[j].code
            /\ jobs'[j].screen = jobs[j].screen /\ jobs'[j].token = tokens + 1
  BY <1>1, <1>a DEF WriteHash
<1>3. HashesMove
  BY <1>1 DEF WriteHash, HashesMove, TypeInv, TypeOK, ApiOK
<1>4. \A u \in Tv : SameJobs(u) /\ SameTv(u)
  BY <1>1, <1>2, ScreenAssumption DEF SameJobs, SameTv, NoJob
<1>5. JobsReady'
  <2>1. tokens + 1 # NoToken
    BY <1>a DEF NoToken
  <2>2. QED
    BY <2>1, <1>2, ScreenAssumption DEF JobsReady, Sending, NoJob
<1>6. QED
  BY <1>1, <1>3, <1>4, <1>5, SameTvGood DEF TypeInv

\* Requests that end, and rows that administrators edit.
LEMMA EndGood ==
  ASSUME TypeInv, JobsReady,
         \/ \E j \in Job : UndoHash(j) \/ ApiDies(j)
         \/ \E s \in Screen : HandToken(s) \/ SetActive(s) \/ DeleteScreen(s)
  PROVE  /\ JobsReady' /\ \A u \in Tv : GoodAt(u) => GoodAt(u)'
<1>a. /\ rows \in [Screen -> [st : {"absent", "on", "off", "deleted"}, hash : Token0]]
      /\ jobs \in [Job -> [step : JobStep, screen : Identity, tv : Tv \cup {NoTv},
                           code : Code0, token : Token0]]
  BY DEF TypeInv, TypeOK, ApiOK
<1>1. /\ UNCHANGED <<conn, up, down, attempts, room, shown, linked, key, token>>
      /\ tokens' = tokens \/ tokens' = tokens + 1
  BY DEF UndoHash, ApiDies, HandToken, SetActive, DeleteScreen,
         service, wire, tvs, store, view, ghosts
<1>2. \A i \in Job : jobs'[i] = jobs[i] \/ jobs'[i] = NoJob
  BY <1>a DEF UndoHash, ApiDies, HandToken, SetActive, DeleteScreen
<1>3. HashesMove
  <2>1. CASE \E j \in Job : UndoHash(j) \/ ApiDies(j)
    <3>1. PICK j \in Job : UndoHash(j) \/ ApiDies(j)
      BY <2>1
    <3>2. jobs[j].screen \in Screen
      BY <3>1 DEF UndoHash, ApiDies, TypeInv, JobsHaveScreens
    <3>3. QED
      BY <3>1, <3>2, <1>a DEF UndoHash, ApiDies, HashesMove
  <2>2. CASE \E s \in Screen : HandToken(s) \/ SetActive(s) \/ DeleteScreen(s)
    BY <2>2, <1>a DEF HandToken, SetActive, DeleteScreen, HashesMove
  <2>3. QED
    BY <2>1, <2>2
<1>4. \A u \in Tv : SameJobs(u) /\ SameTv(u)
  BY <1>1, <1>2, ScreenAssumption DEF SameJobs, SameTv, NoJob
<1>5. JobsReady'
  BY <1>2, ScreenAssumption DEF JobsReady, Sending, NoJob
<1>6. QED
  BY <1>1, <1>3, <1>4, <1>5, SameTvGood DEF TypeInv

LEMMA BroadcastGood ==
  ASSUME TypeInv, Generated, JobsReady, NEW j \in Job,
         NEW reached \in BOOLEAN, NEW answered \in BOOLEAN,
         BroadcastToRoom(j, reached, answered)
  PROVE  /\ JobsReady' /\ \A u \in Tv : GoodAt(u) => GoodAt(u)'
<1> DEFINE b == jobs[j]
<1>a. /\ jobs \in [Job -> [step : JobStep, screen : Identity, tv : Tv \cup {NoTv},
                           code : Code0, token : Token0]]
      /\ TypeOK
  BY DEF TypeInv, TypeOK, ApiOK
<1>1. /\ b.step \in {"send", "resend"} /\ b.token # NoToken /\ b.screen \in Screen
      /\ b.token \in Token0 /\ b.token <= tokens
      /\ UNCHANGED <<rows, tokens, conn, up, attempts, room, shown, linked, key, token>>
  BY <1>a DEF BroadcastToRoom, JobsReady, Sending, TypeInv, JobsHaveScreens, Generated,
              service, tvs, store, view
<1>2. /\ \A i \in Job : i # j => jobs'[i] = jobs[i]
      /\ \/ jobs'[j] = NoJob
         \/ /\ jobs'[j].tv = b.tv /\ jobs'[j].code = b.code
            /\ jobs'[j].screen = b.screen /\ jobs'[j].token = b.token
  BY <1>a DEF BroadcastToRoom
<1>3. HashesMove
  BY <1>1 DEF HashesMove
<1>4. \A u \in Tv : SameJobs(u)
  BY <1>2, ScreenAssumption DEF SameJobs, NoJob
<1>5. JobsReady'
  BY <1>1, <1>2, ScreenAssumption DEF JobsReady, Sending, NoJob
<1>6. ASSUME NEW u \in Tv, GoodAt(u), down'[u] = down[u] PROVE GoodAt(u)'
  <2>1. SameTv(u)
    BY <1>1, <1>6 DEF SameTv
  <2>2. QED
    BY <2>1, <1>a, <1>1, <1>3, <1>4, <1>6, SameTvGood
<1>7. ASSUME NEW u \in Tv, GoodAt(u), u = b.tv, conn[u], room[u] = b.code,
             down'[u] = Append(down[u], CompleteFor(b.screen, b.token))
      PROVE  GoodAt(u)'
  <2> DEFINE s == b.screen
             k == b.token
  <2>0. /\ s \in Screen /\ k \in Token0 /\ k # NoToken /\ k <= tokens
        /\ down'[u] = Append(down[u], CompleteFor(s, k))
    BY <1>1, <1>7
  <2>1. Wants(j, u)
    BY <1>7 DEF Wants, Reach
  <2>2. \A r \in Screen, l \in Token0 : Claimed(u, r, l) \/ Delivered(u, r, l) => r = s /\ l = k
    BY <2>1, <1>7 DEF GoodAt, AloneAt, Wants
  <2>3. \A i \in Job : Wants(i, u) => i = j
    BY <2>1, <1>7 DEF GoodAt, AloneAt, Wants
  <2> HIDE DEF s, k
  <2>4. CompleteFor(s, k) \in DownMessage
    BY <2>0, MessageTypes DEF CompleteFor
  <2>5. /\ \A x : On(down'[u], x) <=> (On(down[u], x) \/ x = CompleteFor(s, k))
        /\ \A x, y : After(down'[u], x, y) =>
                       After(down[u], x, y) \/ (On(down[u], x) /\ y = CompleteFor(s, k))
    BY <2>0, <2>4, <1>a, PutOn
  <2>6. FewerRefusals(u)
    BY <2>5, MessagesDiffer DEF FewerRefusals, Refuted, BadUnderWay
  <2>7. \A r \in Screen, l \in Token0 : Delivered(u, r, l)' => r = s /\ l = k
    BY <2>2, <2>5, MessagesDiffer DEF Delivered
  <2>8. \A r \in Screen, l \in Token0 : Claimed(u, r, l)' => Claimed(u, r, l) /\ r = s /\ l = k
    BY <2>2, <1>1 DEF Claimed
  <2>9. FewerWanted(u)
    <3>1. SUFFICES ASSUME NEW i \in Job, Wants(i, u)' PROVE Wants(i, u)
      BY DEF FewerWanted
    <3>2. jobs[i].tv = u /\ jobs'[i].code = jobs[i].code
      BY <3>1, <1>4 DEF Wants, SameJobs
    <3>3. QED
      BY <3>1, <3>2, <1>1 DEF Wants, Reach
  <2>10. KnownAt(u)'
    BY <2>0, <2>7, <1>1, <1>7 DEF KnownAt, GoodAt
  <2>11. SilentAt(u)'
    BY <1>1, <1>7 DEF SilentAt
  <2>12. HonestAt(u)'
    <3>1. Current(u)' <=> Current(u)
      BY <1>1 DEF Current
    <3>2. BadUnderWay(u)' => ~Current(u)'
      BY <3>1, <2>6, <1>7 DEF FewerRefusals, GoodAt, HonestAt
    <3>3. \A r \in Screen, l \in Token0 : Refuted(u, r, l)' => rows'[r].hash # l
      BY <2>6, <1>1, <1>7 DEF FewerRefusals, GoodAt, HonestAt
    <3>4. \A r \in Screen, l \in Token0 :
            Claimed(u, r, l)' => (r = key'[u] /\ l = token'[u]) \/ token'[u] = NoToken
      BY <2>8, <1>1, <1>7 DEF GoodAt, HonestAt
    <3>5. QED
      BY <3>2, <3>3, <3>4, <2>7, <2>8 DEF HonestAt
  <2>13. AloneAt(u)'
    <3>1. \A i \in Job : Wants(i, u)' => s = jobs'[i].screen /\ k = jobs'[i].token
      <4>1. SUFFICES ASSUME NEW i \in Job, Wants(i, u)'
                     PROVE  s = jobs'[i].screen /\ k = jobs'[i].token
        OBVIOUS
      <4>2. i = j /\ jobs'[j].tv = u
        BY <4>1, <2>3, <2>9 DEF FewerWanted, Wants
      <4>3. QED
        BY <4>2, <1>2, ScreenAssumption DEF NoJob, s, k
    <3>2. \A h, i \in Job : Wants(h, u)' /\ Wants(i, u)' => h = i
      BY <2>3, <2>9 DEF FewerWanted
    <3>3. /\ \A h, i \in Job : jobs'[h].tv = u /\ jobs'[i].tv = u /\ h # i => jobs'[h].code # jobs'[i].code
          /\ \A i \in Job : ~linked'[u] /\ shown'[u] # NoCode /\ jobs'[i].tv = u
                              => jobs'[i].code # shown'[u]
      BY <1>1, <1>4, <1>7 DEF SameJobs, GoodAt, AloneAt
    <3>4. QED
      BY <3>1, <3>2, <3>3, <2>0, <2>7, <2>8 DEF AloneAt, Wants
  <2>14. QED
    BY <2>10, <2>11, <2>12, <2>13 DEF GoodAt
<1>8. QED
  <2>1. \A u \in Tv : \/ down'[u] = down[u]
                      \/ /\ u = b.tv /\ conn[u] /\ room[u] = b.code
                         /\ down'[u] = Append(down[u], CompleteFor(b.screen, b.token))
    BY <1>a DEF BroadcastToRoom, Waiting, CompleteFor, TypeOK, WireOK
  <2>2. QED
    BY <2>1, <1>5, <1>6, <1>7

-----------------------------------------------------------------------------
LEMMA InitGood == Init => GoodInv
<1> SUFFICES ASSUME Init PROVE GoodInv
  OBVIOUS
<1>1. \A j \in Job : jobs[j].step = "idle" /\ jobs[j].tv = NoTv
  BY DEF Init, NoJob
<1>2. JobsReady
  BY <1>1, ScreenAssumption DEF JobsReady, Sending
<1>3. ASSUME NEW t \in Tv PROVE GoodAt(t)
  <2>1. /\ ~conn[t] /\ up[t] = << >> /\ down[t] = << >> /\ room[t] = NoCode
        /\ attempts[t] = 0 /\ token[t] = NoToken /\ tokens = 0
    BY DEF Init
  <2>2. /\ \A s, k : ~Claimed(t, s, k) /\ ~Delivered(t, s, k) /\ ~Refuted(t, s, k)
        /\ ~BadUnderWay(t)
    BY <2>1, OnEmpty, AfterEmpty DEF Claimed, Delivered, Refuted, BadUnderWay
  <2>3. KnownAt(t) /\ SilentAt(t) /\ HonestAt(t)
    BY <2>1, <2>2 DEF KnownAt, SilentAt, HonestAt, NoToken
  <2>4. AloneAt(t)
    BY <1>1, ScreenAssumption DEF AloneAt
  <2>5. QED
    BY <2>3, <2>4 DEF GoodAt
<1>4. QED
  BY <1>2, <1>3 DEF GoodInv

LEMMA TvNextGood ==
  ASSUME TypeOK, JobsReady, NEW t \in Tv, AwaitAt(t), GoodAt(t),
         \/ Connect(t) \/ Drop(t) \/ Reload(t) \/ TogglePicker(t) \/ Heartbeat(t)
         \/ OnRejected(t) \/ OnComplete(t) \/ OnExpired(t)
         \/ \E s \in Identity : Select(t, s)
         \/ \E dbRead \in BOOLEAN : OnRegister(t, dbRead)
         \/ OnWait(t) \/ PairTtl(t)
  PROVE  GoodAt(t)'
<1>1. CASE Drop(t)
  <2>1. /\ SocketCloses(t) /\ UNCHANGED <<api, token, shown, linked>>
    BY <1>1 DEF Drop, tvs, store, view
  <2>2. QED
    BY <2>1, LoadGood
<1>2. CASE Reload(t) \/ \E s \in Identity : Select(t, s)
  <2>1. /\ LoadPage(t) /\ UNCHANGED <<api, token>>
    BY <1>2 DEF Reload, Select, store
  <2>2. /\ SocketCloses(t)
        /\ shown'[t] = NoCode \/ \E c \in 1..MaxCode : Draws(t, c)
    BY <2>1 DEF LoadPage, TypeOK, TvOK
  <2>3. QED
    BY <2>1, <2>2, LoadGood
<1>3. QED
  BY <1>1, <1>2, ConnectGood, ToggleGood, HeartbeatGood, RejectedGood, CompleteGood,
     ExpiredGood, RegisterGood, WaitGood, TtlGood

\* A step of one television leaves the others alone.
LEMMA OthersSame ==
  ASSUME TypeOK, NEW t \in Tv, NEW u \in Tv, u # t,
         \/ Connect(t) \/ Drop(t) \/ Reload(t) \/ TogglePicker(t) \/ Heartbeat(t)
         \/ OnRejected(t) \/ OnComplete(t) \/ OnExpired(t)
         \/ \E s \in Identity : Select(t, s)
         \/ \E dbRead \in BOOLEAN : OnRegister(t, dbRead)
         \/ OnWait(t) \/ PairTtl(t)
  PROVE  SameTv(u)
<1>a. ServiceOK /\ WireOK /\ TvOK /\ GhostsOK
  BY DEF TypeOK
<1>1. CASE Connect(t) \/ Heartbeat(t)
  BY <1>1, <1>a DEF Connect, Heartbeat, SendUp, service, tvs, store, view, ghosts, WireOK, SameTv
<1>2. CASE Drop(t)
  BY <1>2, <1>a DEF Drop, SocketCloses, tvs, store, view, WireOK, ServiceOK, SameTv
<1>3. CASE Reload(t) \/ \E s \in Identity : Select(t, s)
  BY <1>3, <1>a DEF Reload, Select, LoadPage, SocketCloses, Draws, store,
                    WireOK, ServiceOK, TvOK, GhostsOK, SameTv
<1>4. CASE TogglePicker(t) \/ OnRejected(t)
  <2>1. \E p, k : PairEffect(t, p, k)
    BY <1>4 DEF TogglePicker, OnRejected
  <2>2. shown'[u] = shown[u] /\ linked'[u] = linked[u] /\ up'[u] = up[u]
    BY <2>1, <1>a DEF PairEffect, Draws, SendUp, WireOK, TvOK, GhostsOK
  <2>3. /\ conn'[u] = conn[u] /\ attempts'[u] = attempts[u] /\ room'[u] = room[u]
        /\ down'[u] = down[u] /\ key'[u] = key[u] /\ token'[u] = token[u]
    BY <1>4, <1>a DEF TogglePicker, OnRejected, Receives, service, store, WireOK, TvOK
  <2>4. QED
    BY <2>2, <2>3 DEF SameTv
<1>5. CASE OnComplete(t) \/ OnExpired(t)
  BY <1>5, <1>a DEF OnComplete, OnExpired, Receives, Draws, SendUp, service, store, ghosts,
                    WireOK, TvOK, GhostsOK, SameTv
<1>6. CASE (\E dbRead \in BOOLEAN : OnRegister(t, dbRead)) \/ OnWait(t) \/ PairTtl(t)
  BY <1>6, <1>a DEF OnRegister, OnWait, PairTtl, Serves, tvs, store, view, ghosts,
                    WireOK, ServiceOK, SameTv
<1>7. QED
  BY <1>1, <1>2, <1>3, <1>4, <1>5, <1>6

LEMMA NextGood ==
  TypeInv /\ HashInv /\ AwaitInv /\ GoodInv /\ Hasty = FALSE /\ [Next]_vars => GoodInv'
<1> SUFFICES ASSUME TypeInv, HashInv, AwaitInv, GoodInv, Hasty = FALSE, [Next]_vars PROVE GoodInv'
  OBVIOUS
<1>a. /\ TypeOK /\ Generated /\ BeforeHash /\ JobsReady
      /\ \A t \in Tv : AwaitAt(t) /\ GoodAt(t)
  BY DEF TypeInv, HashInv, AwaitInv, GoodInv
<1>1. ASSUME NEW t \in Tv,
             \/ Connect(t) \/ Drop(t) \/ Reload(t) \/ TogglePicker(t) \/ Heartbeat(t)
             \/ OnRejected(t) \/ OnComplete(t) \/ OnExpired(t)
             \/ \E s \in Identity : Select(t, s)
             \/ \E dbRead \in BOOLEAN : OnRegister(t, dbRead)
             \/ OnWait(t) \/ PairTtl(t)
      PROVE  GoodInv'
  <2>1. UNCHANGED api
    BY <1>1 DEF Connect, Drop, Reload, TogglePicker, Heartbeat, OnRejected, OnComplete,
                OnExpired, OnWait, PairTtl, Select, OnRegister
  <2>2. GoodAt(t)'
    BY <1>1, <1>a, TvNextGood
  <2>3. \A u \in Tv : u # t => SameTv(u)
    BY <1>1, <1>a, OthersSame
  <2>4. \A u \in Tv : u # t => GoodAt(u)'
    BY <2>1, <2>3, <1>a, ApiSame, SameTvGood
  <2>5. JobsReady'
    BY <2>1, <1>a DEF JobsReady, Sending, api
  <2>6. QED
    BY <2>2, <2>4, <2>5 DEF GoodInv
<1>2. ASSUME NEW j \in Job, NEW s \in Screen, NEW t \in Tv \cup {NoTv}, NEW c \in Code0,
             StartLink(j, s, t, c) \/ StartCreate(j, s, t, c)
      PROVE  GoodInv'
  <2>1. \A u \in Tv : GoodAt(u)' /\ JobsReady'
    BY <1>2, <1>a, StartGood
  <2>2. JobsReady'
    <3>1. CASE Tv = {}
      <4>1. jobs \in [Job -> [step : JobStep, screen : Identity, tv : Tv \cup {NoTv},
                               code : Code0, token : Token0]]
        BY <1>a DEF TypeOK, ApiOK
      <4>2. \A i \in Job : jobs'[i] = jobs[i] \/ jobs'[i].step = "hash"
        BY <4>1, <1>2 DEF StartLink, StartCreate, Starts
      <4>3. QED
        BY <3>1, <4>2, <1>a DEF JobsReady, Sending
    <3>2. CASE Tv # {}
      BY <2>1, <3>2
    <3>3. QED
      BY <3>1, <3>2
  <2>3. QED
    BY <2>1, <2>2 DEF GoodInv
<1>3. ASSUME NEW j \in Job,
             WriteHash(j) \/ UndoHash(j) \/ ApiDies(j) \/
               \E reached, answered \in BOOLEAN : BroadcastToRoom(j, reached, answered)
      PROVE  GoodInv'
  <2>1. CASE WriteHash(j)
    BY <2>1, <1>a, WriteGood DEF GoodInv
  <2>2. CASE UndoHash(j) \/ ApiDies(j)
    BY <2>2, <1>a, EndGood DEF GoodInv
  <2>3. CASE \E reached, answered \in BOOLEAN : BroadcastToRoom(j, reached, answered)
    BY <2>3, <1>a, BroadcastGood DEF GoodInv
  <2>4. QED
    BY <1>3, <2>1, <2>2, <2>3
<1>4. ASSUME NEW s \in Screen, HandToken(s) \/ SetActive(s) \/ DeleteScreen(s)
      PROVE  GoodInv'
  BY <1>4, <1>a, EndGood DEF GoodInv
<1>5. CASE UNCHANGED vars
  <2>1. \A u \in Tv : SameTv(u)
    BY <1>5 DEF SameTv, vars, service, wire, tvs, store, view, ghosts
  <2>2. UNCHANGED api
    BY <1>5 DEF vars
  <2>3. \A u \in Tv : GoodAt(u)'
    BY <2>1, <2>2, <1>a, ApiSame, SameTvGood
  <2>4. JobsReady'
    BY <2>2, <1>a DEF JobsReady, Sending, api
  <2>5. QED
    BY <2>3, <2>4 DEF GoodInv
<1>6. QED
  BY <1>1, <1>2, <1>3, <1>4, <1>5 DEF Next

\* A television drops its token only on a refusal, and a refusal is about the identity
\* it holds.
LEMMA KeepsGood ==
  ASSUME TypeOK, GoodInv, [Next]_vars
  PROVE  \A t \in Tv : token[t] # NoToken /\ token'[t] = NoToken => ~Current(t)
<1> SUFFICES ASSUME NEW t \in Tv, token[t] # NoToken, token'[t] = NoToken PROVE ~Current(t)
  OBVIOUS
<1>a. GoodAt(t) /\ TvOK /\ WireOK
  BY DEF GoodInv, TypeOK
<1>1. CASE \E u \in Tv : OnRejected(u)
  <2>1. PICK u \in Tv : OnRejected(u)
    BY <1>1
  <2>2. u = t /\ Head(down[t]).reason = "bad-token"
    BY <2>1, <1>a DEF OnRejected, TvOK
  <2>3. down[t] # << >> /\ Head(down[t]).ev = "rejected" /\ down' = [down EXCEPT ![t] = Tail(@)]
    BY <2>1, <2>2 DEF OnRejected, Receives
  <2>4. Head(down[t]) \in DownMessage /\ On(down[t], Head(down[t]))
    BY <2>3, Taken
  <2>5. Head(down[t]) = BadToken
    BY <2>2, <2>3, <2>4 DEF DownMessage, BadToken
  <2>6. BadUnderWay(t)
    BY <2>4, <2>5 DEF BadUnderWay
  <2>7. QED
    BY <2>6, <1>a DEF GoodAt, HonestAt
<1>2. CASE \E u \in Tv : OnComplete(u)
  <2>1. PICK u \in Tv : OnComplete(u)
    BY <1>2
  <2>2. u = t /\ token'[t] = Head(down[t]).token
    BY <2>1, <1>a DEF OnComplete, TvOK
  <2>3. /\ down[t] # << >> /\ Head(down[t]).ev = "complete"
        /\ down' = [down EXCEPT ![t] = Tail(@)]
    BY <2>1, <2>2 DEF OnComplete, Receives
  <2>4. Head(down[t]) \in DownMessage /\ On(down[t], Head(down[t]))
    BY <2>3, Taken
  <2>5. PICK s \in Screen, k \in Token0 : Head(down[t]) = CompleteFor(s, k)
    BY <2>3, <2>4 DEF DownMessage, CompleteFor
  <2>6. token'[t] = k /\ Delivered(t, s, k)
    BY <2>2, <2>4, <2>5 DEF CompleteFor, Delivered
  <2>7. QED
    BY <2>6, <1>a DEF GoodAt, KnownAt
<1>3. CASE UNCHANGED token
  BY <1>3
<1>4. (\E u \in Tv : OnRejected(u) \/ OnComplete(u)) \/ UNCHANGED token
  <2>1. CASE UNCHANGED vars
    BY <2>1 DEF vars, tvs, store
  <2>2. ASSUME NEW u \in Tv,
               \/ Connect(u) \/ Drop(u) \/ Reload(u) \/ TogglePicker(u) \/ Heartbeat(u)
               \/ OnExpired(u) \/ OnWait(u) \/ PairTtl(u)
               \/ \E s \in Identity : Select(u, s)
               \/ \E dbRead \in BOOLEAN : OnRegister(u, dbRead)
        PROVE  UNCHANGED token
    BY <2>2 DEF Connect, Drop, Reload, TogglePicker, Heartbeat, OnExpired, OnWait, PairTtl,
                Select, OnRegister, tvs, store
  <2>3. ASSUME NEW j \in Job,
               \/ \E s \in Screen, v \in Tv \cup {NoTv}, c \in Code0 :
                    StartLink(j, s, v, c) \/ StartCreate(j, s, v, c)
               \/ WriteHash(j) \/ UndoHash(j) \/ ApiDies(j)
               \/ \E reached, answered \in BOOLEAN : BroadcastToRoom(j, reached, answered)
        PROVE  UNCHANGED token
    BY <2>3 DEF StartLink, StartCreate, Starts, WriteHash, UndoHash, ApiDies, BroadcastToRoom,
                tvs, store
  <2>4. ASSUME NEW s \in Screen, HandToken(s) \/ SetActive(s) \/ DeleteScreen(s)
        PROVE  UNCHANGED token
    BY <2>4 DEF HandToken, SetActive, DeleteScreen, tvs, store
  <2>5. QED
    BY <2>1, <2>2, <2>3, <2>4 DEF Next
<1>5. QED
  BY <1>1, <1>2, <1>3, <1>4

\* Codes linked once, off a screen that nothing is under way to: then whatever expires,
\* breaks, is reloaded, re-linked, reverted or deleted, a television forgets a token only
\* if its row no longer asks for it.
THEOREM GoodTokensAreKept ==
  ASSUME Hasty = FALSE
  PROVE  Spec => NeverDiscardsGoodToken
<1>1. TypeInv /\ HashInv /\ AwaitInv /\ GoodInv /\ [Next]_vars => GoodInv'
  BY NextGood
<1>2. TypeInv /\ GoodInv /\ [Next]_vars =>
        [\A t \in Tv : token[t] # NoToken /\ token'[t] = NoToken => ~Current(t)]_vars
  BY KeepsGood DEF TypeInv
<1>3. QED
  BY <1>1, <1>2, InitType, NextType, InitHash, NextHash, InitAwait, NextAwait, InitGood, PTL
  DEF Spec, NeverDiscardsGoodToken

-----------------------------------------------------------------------------
(* Delivered and used: the other half of NeverDiscardsGoodToken. Hasty     *)
(* administrators are allowed here.                                        *)

Asking(t) == \E i \in 1..Len(up[t]) : up[t][i].ev = "register"

LastClaim(t, i) ==
  up[t][i].ev = "register" /\ \A n \in 1..Len(up[t]) : i < n => up[t][n].ev # "register"

\* A connected television with a token asks last for the identity it holds; once it has
\* nothing left to ask, it is registered as verified, if that is what the row asks for
\* and the row or the database did not stand in the way.
RegisteredAt(t) ==
  conn[t] /\ token[t] # NoToken =>
    /\ \A i \in 1..Len(up[t]) : LastClaim(t, i) => up[t][i] = RegisterAs(key[t], token[t])
    /\ ~Asking(t) /\ Current(t) /\ ~refused[t]
         => entry[t] = [screen |-> key[t], verified |-> TRUE]

RegisteredUnlessAsking == \A t \in Tv : RegisteredAt(t)

\* No television holds, or is sent, a token that is still to be generated.
SeenAt(t) ==
  /\ token[t] <= tokens
  /\ \A s \in Screen, k \in Token0 : Delivered(t, s, k) => k <= tokens

RegInv == \A t \in Tv : RegisteredAt(t) /\ SeenAt(t)

\* A token once refused is never asked for again.
NotRevived(t) == Current(t)' => Current(t)

LEMMA NotRevivedByRows ==
  ASSUME TypeOK, NEW t \in Tv, SeenAt(t), HashesMove, key'[t] = key[t], token'[t] = token[t]
  PROVE  NotRevived(t)
<1>1. tokens \in Nat /\ token[t] \in Nat
  BY PairBounds DEF TypeOK, ApiOK, TvOK, Token0
<1>2. QED
  BY <1>1 DEF NotRevived, Current, HashesMove, SeenAt, NoToken

LEMMA SeenKept ==
  ASSUME TypeOK, NEW t \in Tv, SeenAt(t), FewerDeliveries(t), token'[t] = token[t],
         tokens' = tokens \/ tokens' = tokens + 1
  PROVE  SeenAt(t)'
<1>1. tokens \in Nat /\ token[t] \in Nat /\ Token0 \subseteq Nat
  BY PairBounds DEF TypeOK, ApiOK, TvOK, Token0
<1>2. ASSUME NEW s \in Screen, NEW k \in Token0, Delivered(t, s, k)' PROVE k <= tokens'
  <2>1. k <= tokens /\ k \in Nat
    BY <1>1, <1>2 DEF SeenAt, FewerDeliveries
  <2>2. QED
    BY <1>1, <2>1
<1>3. token'[t] <= tokens'
  BY <1>1 DEF SeenAt
<1>4. QED
  BY <1>2, <1>3 DEF SeenAt

\* What a television sends comes behind what it had sent.
LEMMA SentLast ==
  ASSUME TypeOK, NEW t \in Tv, NEW ms \in Seq(UpMessage), SendUp(t, ms)
  PROVE  /\ Len(up[t]) \in Nat /\ Len(ms) \in Nat /\ Len(up'[t]) = Len(up[t]) + Len(ms)
         /\ \A i \in 1..Len(up[t]) : i \in 1..Len(up'[t]) /\ up'[t][i] = up[t][i]
         /\ \A i \in 1..Len(up'[t]) : i \in 1..Len(up[t]) \/
              (i - Len(up[t]) \in 1..Len(ms) /\ up'[t][i] = ms[i - Len(up[t])])
         /\ \A i \in 1..Len(ms) :
              i + Len(up[t]) \in 1..Len(up'[t]) /\ up'[t][i + Len(up[t])] = ms[i]
<1>1. up[t] \in Seq(UpMessage) /\ up'[t] = up[t] \o ms
  BY SendType DEF TypeOK, WireOK
<1> DEFINE p == Len(up[t])  q == Len(ms)
<1>2. /\ p \in Nat /\ q \in Nat /\ Len(up'[t]) = p + q
      /\ \A i \in 1..(p + q) : up'[t][i] = IF i <= p THEN up[t][i] ELSE ms[i - p]
  BY <1>1, ConcatProperties, LenProperties
<1> HIDE DEF p, q
<1>3. \A i \in 1..p : i \in 1..(p + q) /\ up'[t][i] = up[t][i]
  BY <1>2
<1>4. \A i \in 1..(p + q) : i \in 1..p \/ (i - p \in 1..q /\ up'[t][i] = ms[i - p])
  BY <1>2
<1>5. \A i \in 1..q : i + p \in 1..(p + q) /\ up'[t][i + p] = ms[i]
  <2>1. ASSUME NEW i \in 1..q PROVE i + p \in 1..(p + q) /\ ~(i + p <= p) /\ (i + p) - p = i
    BY <1>2
  <2>2. QED
    BY <2>1, <1>2
<1>6. QED
  BY <1>2, <1>3, <1>4, <1>5 DEF p, q

\* A television that sends no registration.
LEMMA SendsOther ==
  ASSUME TypeOK, NEW t \in Tv, RegisteredAt(t), NEW ms \in Seq(UpMessage), SendUp(t, ms),
         \A i \in 1..Len(ms) : ms[i].ev # "register",
         conn'[t] = conn[t], key'[t] = key[t], token'[t] = token[t],
         entry'[t] = entry[t], refused'[t] = refused[t], NotRevived(t)
  PROVE  RegisteredAt(t)'
<1>1. /\ \A i \in 1..Len(up[t]) : i \in 1..Len(up'[t]) /\ up'[t][i] = up[t][i]
      /\ \A i \in 1..Len(up'[t]) : i \in 1..Len(up[t]) \/ up'[t][i].ev # "register"
  <2>1. /\ \A i \in 1..Len(up[t]) : i \in 1..Len(up'[t]) /\ up'[t][i] = up[t][i]
        /\ \A i \in 1..Len(up'[t]) : i \in 1..Len(up[t]) \/
             (i - Len(up[t]) \in 1..Len(ms) /\ up'[t][i] = ms[i - Len(up[t])])
    BY SentLast
  <2>2. QED
    BY <2>1, Zenon
<1>2. \A i \in 1..Len(up'[t]) : LastClaim(t, i)' => i \in 1..Len(up[t]) /\ LastClaim(t, i)
  BY <1>1 DEF LastClaim
<1>3. Asking(t) => Asking(t)'
  BY <1>1 DEF Asking
<1>4. QED
  BY <1>1, <1>2, <1>3 DEF RegisteredAt, NotRevived

\* ... and one that sends the registration of the identity it now holds.
LEMMA SendsOwn ==
  ASSUME TypeOK, NEW t \in Tv, NEW ms \in Seq(UpMessage), SendUp(t, ms), ms # << >>,
         ms[1] = RegisterAs(key'[t], token'[t]),
         \A i \in 1..Len(ms) : i # 1 => ms[i].ev # "register"
  PROVE  RegisteredAt(t)'
<1> DEFINE p == Len(up[t])
<1>0. Len(ms) \in Nat \ {0}
  BY LenProperties, EmptySeq
<1>1. /\ p \in Nat /\ Len(up'[t]) \in Nat
      /\ \A i \in 1..Len(up'[t]) : i \in 1..p \/
           (i - p \in 1..Len(ms) /\ up'[t][i] = ms[i - p])
      /\ 1 + p \in 1..Len(up'[t]) /\ up'[t][1 + p] = ms[1]
  BY <1>0, SentLast
<1> HIDE DEF p
<1>2. up'[t][1 + p].ev = "register"
  BY <1>1 DEF RegisterAs
<1>3. Asking(t)'
  BY <1>1, <1>2 DEF Asking
<1>4. ASSUME NEW i \in 1..Len(up'[t]), LastClaim(t, i)' PROVE i = 1 + p
  <2>1. ~(i < 1 + p)
    BY <1>1, <1>2, <1>4 DEF LastClaim
  <2>2. i - p \in 1..Len(ms) /\ up'[t][i] = ms[i - p]
    <3>1. i \notin 1..p
      BY <1>1, <2>1
    <3>2. QED
      BY <1>1, <3>1
  <2>3. i - p = 1
    BY <2>2, <1>4 DEF LastClaim
  <2>4. QED
    BY <1>1, <2>3
<1>5. QED
  BY <1>1, <1>3, <1>4 DEF RegisteredAt

LEMMA OneMessage ==
  /\ \A c \in Code0 : /\ <<WaitFor(c)>> \in Seq(UpMessage)
                      /\ \A i \in 1..Len(<<WaitFor(c)>>) : <<WaitFor(c)>>[i].ev # "register"
  /\ << >> \in Seq(UpMessage) /\ Len(<< >>) = 0
<1>1. \A c \in Code0 : <<WaitFor(c)>> \in Seq(UpMessage)
  BY MessageTypes
<1>2. \A c : Len(<<WaitFor(c)>>) = 1 /\ <<WaitFor(c)>>[1].ev = "wait"
  BY DEF WaitFor
<1>3. << >> \in Seq(UpMessage) /\ Len(<< >>) = 0
  BY EmptySeq
<1>4. QED
  BY <1>1, <1>2, <1>3

\* A step that leaves alone what a television is registered as.
LEMMA QuietRegistered ==
  ASSUME NEW t \in Tv, RegisteredAt(t), up'[t] = up[t], conn'[t] = conn[t],
         key'[t] = key[t], token'[t] = token[t], entry'[t] = entry[t],
         refused'[t] = refused[t], NotRevived(t)
  PROVE  RegisteredAt(t)'
<1>1. /\ \A i : LastClaim(t, i)' <=> LastClaim(t, i)
      /\ Asking(t)' <=> Asking(t)
  BY DEF LastClaim, Asking
<1>2. QED
  BY <1>1 DEF RegisteredAt, NotRevived

LEMMA PairEffectRegistered ==
  ASSUME TypeOK, NEW t \in Tv, RegisteredAt(t), NEW p \in BOOLEAN, NEW k \in Identity,
         PairEffect(t, p, k), conn'[t] = conn[t], key'[t] = key[t], token'[t] = token[t],
         entry'[t] = entry[t], refused'[t] = refused[t], NotRevived(t)
  PROVE  RegisteredAt(t)'
<1>1. CASE UNCHANGED <<shown, linked, up>>
  BY <1>1, QuietRegistered
<1>2. CASE \E c \in 1..MaxCode :
             Draws(t, c) /\ SendUp(t, IF conn[t] THEN <<WaitFor(c)>> ELSE << >>)
  <2>1. PICK c \in 1..MaxCode : SendUp(t, IF conn[t] THEN <<WaitFor(c)>> ELSE << >>)
    BY <1>2
  <2>2. c \in Code0
    BY ConstantTypes
  <2>3. CASE conn[t]
    <3>1. SendUp(t, <<WaitFor(c)>>)
      BY <2>1, <2>3
    <3>2. QED
      BY <3>1, <2>2, OneMessage, SendsOther
  <2>4. CASE ~conn[t]
    BY <2>4 DEF RegisteredAt
  <2>5. QED
    BY <2>3, <2>4
<1>3. QED
  BY <1>1, <1>2 DEF PairEffect

\* What the television and its user do.
LEMMA TvRegistered ==
  ASSUME TypeOK, NEW t \in Tv, RegisteredAt(t), SeenAt(t),
         \/ Connect(t) \/ Drop(t) \/ Reload(t) \/ TogglePicker(t) \/ Heartbeat(t)
         \/ OnRejected(t) \/ OnComplete(t) \/ OnExpired(t)
         \/ \E s \in Identity : Select(t, s)
  PROVE  RegisteredAt(t)'
<1>a. /\ key[t] \in Identity /\ token[t] \in Token0 /\ shown[t] \in Code0 /\ TvOK /\ WireOK
  BY DEF TypeOK, TvOK
<1>b. UNCHANGED api
  BY DEF Connect, Drop, Reload, Select, TogglePicker, Heartbeat, OnRejected, OnComplete, OnExpired
<1>c. ASSUME key'[t] = key[t], token'[t] = token[t] PROVE NotRevived(t)
  BY <1>b, <1>c DEF NotRevived, Current, api
<1>1. CASE Connect(t)
  <2> DEFINE own == RegisterAs(key[t], token[t])
             ws  == IF key[t] = NoScreen /\ shown[t] # NoCode
                    THEN <<WaitFor(shown[t])>> ELSE << >>
             ms  == <<own>> \o ws
  <2>1. /\ <<own>> \in Seq(UpMessage) /\ Len(<<own>>) = 1 /\ <<own>>[1] = own
    BY <1>a, MessageTypes
  <2>2. ws \in Seq(UpMessage) /\ \A i \in 1..Len(ws) : ws[i].ev # "register"
    BY <1>a, OneMessage
  <2>3. SendUp(t, ms) /\ UNCHANGED <<key, token>>
    BY <1>1 DEF Connect, tvs, store
  <2> HIDE DEF own, ws
  <2>4. /\ ms \in Seq(UpMessage) /\ Len(ms) = 1 + Len(ws) /\ Len(ws) \in Nat
        /\ \A i \in 1..Len(ms) : ms[i] = IF i <= 1 THEN <<own>>[i] ELSE ws[i - 1]
    BY <2>1, <2>2, ConcatProperties, LenProperties
  <2> HIDE DEF ms
  <2>5. ms[1] = own /\ ms # << >>
    BY <2>1, <2>4, EmptySeq
  <2>6. ASSUME NEW i \in 1..Len(ms), i # 1 PROVE ms[i].ev # "register"
    <3>1. i - 1 \in 1..Len(ws) /\ ms[i] = ws[i - 1]
      BY <2>4, <2>6
    <3>2. QED
      BY <3>1, <2>2
  <2>7. QED
    BY <2>3, <2>4, <2>5, <2>6, SendsOwn DEF own
<1>2. CASE Drop(t) \/ Reload(t) \/ \E s \in Identity : Select(t, s)
  <2>1. ~conn'[t]
    BY <1>2, <1>a DEF Drop, Reload, Select, LoadPage, SocketCloses, WireOK
  <2>2. QED
    BY <2>1 DEF RegisteredAt
<1>3. CASE TogglePicker(t)
  <2>1. PairEffect(t, ~picker[t], key[t]) /\ (~picker[t]) \in BOOLEAN
    BY <1>3, <1>a DEF TogglePicker, TvOK
  <2>2. UNCHANGED <<conn, key, token, entry, refused>>
    BY <1>3 DEF TogglePicker, service, store
  <2>3. QED
    BY <2>1, <2>2, <1>a, <1>c, PairEffectRegistered
<1>4. CASE Heartbeat(t)
  <2>1. SendUp(t, <<WaitFor(shown[t])>>) /\ UNCHANGED <<conn, key, token, entry, refused>>
    BY <1>4 DEF Heartbeat, service, tvs, store, ghosts
  <2>2. QED
    BY <2>1, <1>a, <1>c, OneMessage, SendsOther
<1>5. CASE OnRejected(t)
  <2>1. CASE Head(down[t]).reason = "bad-token" /\ token[t] # NoToken
    <3>1. token'[t] = NoToken
      BY <1>5, <2>1, <1>a DEF OnRejected, TvOK
    <3>2. QED
      BY <3>1 DEF RegisteredAt
  <2>2. CASE ~(Head(down[t]).reason = "bad-token" /\ token[t] # NoToken)
    <3>1. key'[t] = key[t] /\ token'[t] = token[t] /\ PairEffect(t, TRUE, key[t])
      BY <1>5, <2>2, <1>a DEF OnRejected, TvOK
    <3>2. UNCHANGED <<conn, entry, refused>>
      BY <1>5 DEF OnRejected, service
    <3>3. QED
      BY <3>1, <3>2, <1>a, <1>c, PairEffectRegistered
  <2>3. QED
    BY <2>1, <2>2
<1>6. CASE OnComplete(t)
  <2> DEFINE own == RegisterAs(Head(down[t]).screen, Head(down[t]).token)
  <2>1. down[t] # << >> /\ Head(down[t]).ev = "complete" /\ down' = [down EXCEPT ![t] = Tail(@)]
    BY <1>6 DEF OnComplete, Receives
  <2>2. PICK s \in Screen, k \in Token0 : Head(down[t]) = CompleteFor(s, k)
    BY <2>1, Taken DEF DownMessage, CompleteFor
  <2>3. own = RegisterAs(key'[t], token'[t]) /\ SendUp(t, <<own>>)
    BY <1>6, <1>a DEF OnComplete, TvOK
  <2>4. own \in UpMessage
    BY <2>2, MessageTypes, ConstantTypes DEF CompleteFor
  <2> HIDE DEF own
  <2>5. /\ <<own>> \in Seq(UpMessage) /\ <<own>> # << >> /\ <<own>>[1] = own
        /\ \A i \in 1..Len(<<own>>) : i = 1
    BY <2>4
  <2>6. QED
    BY <2>3, <2>5, SendsOwn
<1>7. CASE OnExpired(t)
  <2>1. UNCHANGED <<conn, key, token, entry, refused>>
    BY <1>7 DEF OnExpired, service, store
  <2>2. CASE UNCHANGED up
    BY <2>1, <2>2, <1>c, QuietRegistered
  <2>3. CASE \E c \in 1..MaxCode : SendUp(t, <<WaitFor(c)>>)
    <3>1. PICK c \in Code0 : SendUp(t, <<WaitFor(c)>>)
      BY <2>3, ConstantTypes
    <3>2. QED
      BY <3>1, <2>1, <1>c, OneMessage, SendsOther
  <2>4. QED
    BY <1>7, <2>2, <2>3 DEF OnExpired
<1>8. QED
  BY <1>1, <1>2, <1>3, <1>4, <1>5, <1>6, <1>7

\* What the service does with a message: a registration that is the last one, of an
\* identity the row asks for, is verified unless it is refused for the row or database.
LEMMA ServedRegistered ==
  ASSUME TypeOK, NEW t \in Tv, RegisteredAt(t), SeenAt(t),
         \/ \E dbRead \in BOOLEAN : OnRegister(t, dbRead)
         \/ OnWait(t) \/ PairTtl(t)
  PROVE  RegisteredAt(t)'
<1>a. UNCHANGED <<api, conn, key, token>>
  BY DEF OnRegister, OnWait, PairTtl, tvs, store
<1>b. NotRevived(t) /\ (Current(t)' <=> Current(t))
  BY <1>a DEF NotRevived, Current, api
<1>1. CASE PairTtl(t)
  BY <1>1, <1>a, <1>b, QuietRegistered DEF PairTtl, ghosts
<1>2. ASSUME up[t] # << >>, up' = [up EXCEPT ![t] = Tail(@)]
      PROVE  /\ \A i \in 1..Len(up'[t]) : LastClaim(t, i)' =>
                  i + 1 \in 1..Len(up[t]) /\ LastClaim(t, i + 1) /\ up[t][i + 1] = up'[t][i]
             /\ ~Asking(t)' =>
                  \A i \in 1..Len(up[t]) : i # 1 => up[t][i].ev # "register"
             /\ 1 \in 1..Len(up[t]) /\ Head(up[t]) = up[t][1]
  <2>1. /\ Len(up[t]) \in Nat \ {0} /\ Len(up'[t]) = Len(up[t]) - 1
        /\ \A n \in 1..Len(up'[t]) : n + 1 \in 1..Len(up[t]) /\ up'[t][n] = up[t][n + 1]
        /\ \A n \in 1..Len(up[t]) : n # 1 => n - 1 \in 1..Len(up'[t]) /\ up'[t][n - 1] = up[t][n]
        /\ Head(up[t]) = up[t][1]
    BY <1>2, UpTaken
  <2>2. ASSUME NEW i \in 1..Len(up'[t]), LastClaim(t, i)'
        PROVE  LastClaim(t, i + 1)
    <3>1. ASSUME NEW n \in 1..Len(up[t]), i + 1 < n PROVE up[t][n].ev # "register"
      <4>1. n - 1 \in 1..Len(up'[t]) /\ up'[t][n - 1] = up[t][n] /\ i < n - 1
        BY <2>1, <3>1
      <4>2. QED
        BY <4>1, <2>2 DEF LastClaim
    <3>2. up[t][i + 1].ev = "register"
      BY <2>1, <2>2 DEF LastClaim
    <3>3. QED
      BY <3>1, <3>2 DEF LastClaim
  <2>3. ASSUME ~Asking(t)', NEW i \in 1..Len(up[t]), i # 1 PROVE up[t][i].ev # "register"
    BY <2>1, <2>3 DEF Asking
  <2>4. QED
    BY <2>1, <2>2, <2>3
<1>3. ASSUME conn[t], token[t] # NoToken, NEW i \in 1..Len(up'[t]), LastClaim(t, i)',
             up[t] # << >>, up' = [up EXCEPT ![t] = Tail(@)]
      PROVE  up'[t][i] = RegisterAs(key[t], token[t])
  BY <1>2, <1>3 DEF RegisteredAt
<1>4. CASE OnWait(t)
  <2>1. /\ up[t] # << >> /\ up' = [up EXCEPT ![t] = Tail(@)] /\ Head(up[t]).ev = "wait"
        /\ UNCHANGED <<entry, refused>>
    BY <1>4 DEF OnWait, Serves, ghosts
  <2>2. ~Asking(t)' => ~Asking(t)
    BY <2>1, <1>2 DEF Asking
  <2>3. QED
    BY <2>1, <2>2, <1>3, <1>a, <1>b DEF RegisteredAt
<1>5. CASE \E dbRead \in BOOLEAN : OnRegister(t, dbRead)
  <2>0. PICK dbRead \in BOOLEAN : OnRegister(t, dbRead)
    BY <1>5
  <2> DEFINE m == Head(up[t])
             verdict == CheckScreenAuth(m, dbRead)
  <2>1. /\ up[t] # << >> /\ up' = [up EXCEPT ![t] = Tail(@)] /\ m.ev = "register"
        /\ IF verdict \in {"verified", "unverified"}
           THEN entry'[t] = [screen |-> m.screen, verified |-> verdict = "verified"]
           ELSE TRUE
        /\ refused'[t] = (m.screen \in Screen /\ verdict \in {"unknown", "inactive"})
    BY <2>0 DEF OnRegister, Serves, TypeOK, ServiceOK, GhostsOK
  <2>2. ASSUME conn[t], token[t] # NoToken, ~Asking(t)', Current(t), ~refused'[t]
        PROVE  entry'[t] = [screen |-> key[t], verified |-> TRUE]
    <3>1. LastClaim(t, 1) /\ 1 \in 1..Len(up[t]) /\ m = up[t][1]
      BY <2>1, <2>2, <1>2 DEF LastClaim
    <3>2. m = RegisterAs(key[t], token[t])
      BY <2>2, <3>1 DEF RegisteredAt
    <3>3. m.screen = key[t] /\ m.token = token[t]
      BY <3>2 DEF RegisterAs
    <3>4. key[t] \in Screen /\ rows[key[t]].hash = token[t]
      BY <2>2 DEF Current
    <3>5. verdict \in {"unknown", "inactive", "verified"}
      BY <2>2, <3>3, <3>4 DEF CheckScreenAuth
    <3>6. verdict = "verified"
      BY <2>1, <2>2, <3>3, <3>4, <3>5
    <3>7. QED
      BY <2>1, <3>3, <3>6
  <2>3. QED
    BY <2>1, <2>2, <1>3, <1>a, <1>b DEF RegisteredAt
<1>6. QED
  BY <1>1, <1>4, <1>5

\* A television learns only tokens that exist.
LEMMA TvSeen ==
  ASSUME TypeOK, NEW t \in Tv, SeenAt(t),
         \/ Connect(t) \/ Drop(t) \/ Reload(t) \/ TogglePicker(t) \/ Heartbeat(t)
         \/ OnRejected(t) \/ OnComplete(t) \/ OnExpired(t)
         \/ \E s \in Identity : Select(t, s)
         \/ \E dbRead \in BOOLEAN : OnRegister(t, dbRead)
         \/ OnWait(t) \/ PairTtl(t)
  PROVE  SeenAt(t)'
<1>a. TvOK /\ WireOK /\ tokens \in Nat
  BY PairBounds DEF TypeOK, ApiOK, Token0
<1>b. tokens' = tokens
  BY DEF Connect, Drop, Reload, Select, TogglePicker, Heartbeat, OnRejected, OnComplete, OnExpired,
         OnRegister, OnWait, PairTtl, api
<1>1. CASE Drop(t) \/ Reload(t) \/ \E s \in Identity : Select(t, s)
  <2>1. down'[t] = << >> /\ token'[t] = token[t]
    BY <1>1, <1>a DEF Drop, Reload, Select, LoadPage, SocketCloses, tvs, store, WireOK
  <2>2. FewerDeliveries(t)
    BY <2>1, OnEmpty DEF FewerDeliveries, Delivered
  <2>3. QED
    BY <2>1, <2>2, <1>b, SeenKept
<1>2. CASE Connect(t) \/ TogglePicker(t) \/ Heartbeat(t) \/ OnWait(t)
  <2>1. UNCHANGED <<down, token>>
    BY <1>2 DEF Connect, TogglePicker, Heartbeat, OnWait, tvs, store
  <2>2. FewerDeliveries(t)
    BY <2>1 DEF FewerDeliveries, Delivered
  <2>3. QED
    BY <2>1, <2>2, <1>b, SeenKept
<1>3. CASE OnRejected(t)
  <2>1. FewerDeliveries(t)
    BY <1>3, Taken DEF OnRejected, Receives
  <2>2. token'[t] = token[t] \/ token'[t] = NoToken
    BY <1>3, <1>a DEF OnRejected, TvOK
  <2>3. QED
    BY <2>1, <2>2, <1>a, <1>b DEF SeenAt, FewerDeliveries, NoToken
<1>4. CASE OnComplete(t)
  <2>1. down[t] # << >> /\ Head(down[t]).ev = "complete" /\ down' = [down EXCEPT ![t] = Tail(@)]
    BY <1>4 DEF OnComplete, Receives
  <2>2. /\ Head(down[t]) \in DownMessage /\ On(down[t], Head(down[t])) /\ FewerDeliveries(t)
    BY <2>1, Taken
  <2>3. PICK s \in Screen, k \in Token0 : Head(down[t]) = CompleteFor(s, k)
    BY <2>1, <2>2 DEF DownMessage, CompleteFor
  <2>4. token'[t] = k
    BY <1>4, <1>a, <2>3 DEF OnComplete, TvOK, CompleteFor
  <2>5. Delivered(t, s, k)
    BY <2>2, <2>3 DEF Delivered
  <2>6. QED
    BY <2>2, <2>4, <2>5, <1>b DEF SeenAt, FewerDeliveries
<1>5. CASE OnExpired(t)
  <2>1. FewerDeliveries(t) /\ token' = token
    BY <1>5, Taken DEF OnExpired, Receives, store
  <2>2. QED
    BY <2>1, <1>b, SeenKept
<1>6. CASE (\E dbRead \in BOOLEAN : OnRegister(t, dbRead)) \/ PairTtl(t)
  <2>1. token' = token
    BY <1>6 DEF OnRegister, PairTtl, tvs, store
  <2>2. \/ down' = down
        \/ \E m \in DownMessage : m.ev # "complete" /\ down'[t] = Append(down[t], m)
    <3>1. CASE PairTtl(t)
      <4> DEFINE m == [ev |-> "expired"]
      <4>1. down'[t] = Append(down[t], m) /\ m \in DownMessage /\ m.ev # "complete"
        BY <3>1, <1>a, MessageTypes DEF PairTtl, WireOK
      <4>2. QED
        BY <4>1
    <3>2. ASSUME NEW dbRead \in BOOLEAN, OnRegister(t, dbRead), down' # down
          PROVE \E m \in DownMessage : m.ev # "complete" /\ down'[t] = Append(down[t], m)
      <4> DEFINE v == CheckScreenAuth(Head(up[t]), dbRead)
                 m == [ev |-> "rejected", reason |-> v]
      <4>1. v \notin {"verified", "unverified"} /\ down'[t] = Append(down[t], m)
        BY <3>2, <1>a DEF OnRegister, WireOK
      <4>2. v \in {"unknown", "inactive", "unverified", "bad-token", "verified"}
        BY DEF CheckScreenAuth
      <4> HIDE DEF v
      <4>3. m \in DownMessage /\ m.ev # "complete"
        BY <4>1, <4>2, MessageTypes
      <4>4. QED
        BY <4>1, <4>3
    <3>3. QED
      BY <1>6, <3>1, <3>2
  <2>3. FewerDeliveries(t)
    <3>1. CASE down' = down
      BY <3>1 DEF FewerDeliveries, Delivered
    <3>2. ASSUME NEW m \in DownMessage, m.ev # "complete", down'[t] = Append(down[t], m)
          PROVE FewerDeliveries(t)
      <4>1. \A x : On(down'[t], x) <=> (On(down[t], x) \/ x = m)
        BY <3>2, PutOn
      <4>2. \A s, k : CompleteFor(s, k) # m
        BY <3>2 DEF CompleteFor
      <4>3. QED
        BY <4>1, <4>2 DEF FewerDeliveries, Delivered
    <3>3. QED
      BY <2>2, <3>1, <3>2
  <2>4. QED
    BY <2>1, <2>3, <1>b, SeenKept
<1>7. QED
  BY <1>1, <1>2, <1>3, <1>4, <1>5, <1>6

LEMMA OthersEntry ==
  ASSUME TypeOK, NEW t \in Tv, NEW u \in Tv, u # t,
         \/ Connect(t) \/ Drop(t) \/ Reload(t) \/ TogglePicker(t) \/ Heartbeat(t)
         \/ OnRejected(t) \/ OnComplete(t) \/ OnExpired(t)
         \/ \E s \in Identity : Select(t, s)
         \/ \E dbRead \in BOOLEAN : OnRegister(t, dbRead)
         \/ OnWait(t) \/ PairTtl(t)
  PROVE  entry'[u] = entry[u] /\ refused'[u] = refused[u]
<1>a. ServiceOK /\ GhostsOK
  BY DEF TypeOK
<1>1. CASE Drop(t) \/ Reload(t) \/ \E s \in Identity : Select(t, s)
  BY <1>1, <1>a DEF Drop, Reload, Select, LoadPage, SocketCloses, ServiceOK, GhostsOK
<1>2. CASE \E dbRead \in BOOLEAN : OnRegister(t, dbRead)
  BY <1>2, <1>a DEF OnRegister, ServiceOK, GhostsOK
<1>3. CASE \/ Connect(t) \/ TogglePicker(t) \/ Heartbeat(t) \/ OnRejected(t) \/ OnComplete(t)
           \/ OnExpired(t) \/ OnWait(t) \/ PairTtl(t)
  <2>1. UNCHANGED <<entry, refused>>
    BY <1>3 DEF Connect, TogglePicker, Heartbeat, OnRejected, OnComplete, OnExpired, OnWait,
                PairTtl, service, ghosts
  <2>2. QED
    BY <2>1
<1>4. QED
  BY <1>1, <1>2, <1>3

\* A television that a step does not touch, whatever happens to the rows.
LEMMA UntouchedRegistered ==
  ASSUME TypeOK, NEW u \in Tv, RegisteredAt(u), SeenAt(u), HashesMove, FewerDeliveries(u),
         up'[u] = up[u], conn'[u] = conn[u], key'[u] = key[u], token'[u] = token[u],
         entry'[u] = entry[u], refused'[u] = refused[u],
         tokens' = tokens \/ tokens' = tokens + 1
  PROVE  RegisteredAt(u)' /\ SeenAt(u)'
<1>1. NotRevived(u)
  BY NotRevivedByRows
<1>2. QED
  BY <1>1, QuietRegistered, SeenKept

\* What administrators and the API do to the rows.
LEMMA RowsMove ==
  ASSUME TypeInv, BeforeHash,
         \/ \E j \in Job, s \in Screen, t \in Tv \cup {NoTv}, c \in Code0 :
              StartLink(j, s, t, c) \/ StartCreate(j, s, t, c)
         \/ \E j \in Job : WriteHash(j) \/ UndoHash(j) \/ ApiDies(j)
         \/ \E j \in Job, reached, answered \in BOOLEAN : BroadcastToRoom(j, reached, answered)
         \/ \E s \in Screen : HandToken(s) \/ SetActive(s) \/ DeleteScreen(s)
  PROVE  /\ HashesMove /\ (tokens' = tokens \/ tokens' = tokens + 1)
         /\ UNCHANGED <<up, conn, key, token, entry, refused>>
<1>a. /\ rows \in [Screen -> [st : {"absent", "on", "off", "deleted"}, hash : Token0]]
      /\ JobsHaveScreens
  BY DEF TypeInv, TypeOK, ApiOK
<1> DEFINE Kept == /\ tokens' = tokens \/ tokens' = tokens + 1
                   /\ UNCHANGED <<up, conn, key, token, entry, refused>>
<1>1. Kept
  <2>1. ASSUME NEW j \in Job, NEW s \in Screen, NEW t \in Tv \cup {NoTv}, NEW c \in Code0,
               StartLink(j, s, t, c) \/ StartCreate(j, s, t, c)
        PROVE  Kept
    BY <2>1 DEF StartLink, StartCreate, Starts, service, wire, tvs, store, ghosts
  <2>2. ASSUME NEW j \in Job, WriteHash(j) \/ UndoHash(j) \/ ApiDies(j) PROVE Kept
    <3>1. CASE WriteHash(j)
      BY <3>1 DEF WriteHash, service, wire, tvs, store, ghosts
    <3>2. CASE UndoHash(j)
      BY <3>2 DEF UndoHash, service, wire, tvs, store, ghosts
    <3>3. CASE ApiDies(j)
      BY <3>3 DEF ApiDies, service, wire, tvs, store
    <3>4. QED
      BY <2>2, <3>1, <3>2, <3>3
  <2>3. ASSUME NEW j \in Job, NEW reached \in BOOLEAN, NEW answered \in BOOLEAN,
               BroadcastToRoom(j, reached, answered)
        PROVE  Kept
    BY <2>3 DEF BroadcastToRoom, service, tvs, store
  <2>4. ASSUME NEW s \in Screen, HandToken(s) \/ SetActive(s) \/ DeleteScreen(s) PROVE Kept
    BY <2>4 DEF HandToken, SetActive, DeleteScreen, service, wire, tvs, store
  <2> HIDE DEF Kept
  <2>5. QED
    BY <2>1, <2>2, <2>3, <2>4
<1>2. CASE \E j \in Job, s \in Screen, t \in Tv \cup {NoTv}, c \in Code0 :
             StartLink(j, s, t, c) \/ StartCreate(j, s, t, c)
  <2>1. HashesMove
    BY <1>2, <1>a DEF StartLink, StartCreate, HashesMove
  <2>2. QED
    BY <2>1, <1>1
<1>3. CASE \E j \in Job : WriteHash(j) \/ UndoHash(j) \/ ApiDies(j)
  <2>1. PICK j \in Job : WriteHash(j) \/ UndoHash(j) \/ ApiDies(j)
    BY <1>3
  <2>2. jobs[j].screen \in Screen
    BY <2>1, <1>a DEF JobsHaveScreens, WriteHash, UndoHash, ApiDies
  <2>3. HashesMove
    BY <2>1, <2>2, <1>a DEF HashesMove, WriteHash, UndoHash, ApiDies
  <2>4. QED
    BY <2>3, <1>1
<1>4. CASE \E j \in Job, reached, answered \in BOOLEAN : BroadcastToRoom(j, reached, answered)
  <2>1. HashesMove
    BY <1>4 DEF BroadcastToRoom, HashesMove
  <2>2. QED
    BY <2>1, <1>1
<1>5. CASE \E s \in Screen : HandToken(s) \/ SetActive(s) \/ DeleteScreen(s)
  <2>1. HashesMove
    BY <1>5, <1>a DEF HashesMove, HandToken, SetActive, DeleteScreen
  <2>2. QED
    BY <2>1, <1>1
<1>6. QED
  BY <1>2, <1>3, <1>4, <1>5

LEMMA NextReg == TypeInv /\ HashInv /\ RegInv /\ [Next]_vars => RegInv'
<1> SUFFICES ASSUME TypeInv, HashInv, RegInv, [Next]_vars PROVE RegInv'
  OBVIOUS
<1>a. TypeOK /\ Generated /\ BeforeHash /\ \A t \in Tv : RegisteredAt(t) /\ SeenAt(t)
  BY DEF TypeInv, HashInv, RegInv
<1>1. ASSUME NEW t \in Tv,
             \/ Connect(t) \/ Drop(t) \/ Reload(t) \/ TogglePicker(t) \/ Heartbeat(t)
             \/ OnRejected(t) \/ OnComplete(t) \/ OnExpired(t)
             \/ \E s \in Identity : Select(t, s)
             \/ \E dbRead \in BOOLEAN : OnRegister(t, dbRead)
             \/ OnWait(t) \/ PairTtl(t)
      PROVE  RegInv'
  <2>1. UNCHANGED api
    BY <1>1 DEF Connect, Drop, Reload, TogglePicker, Heartbeat, OnRejected, OnComplete,
                OnExpired, OnWait, PairTtl, Select, OnRegister
  <2>2. HashesMove /\ tokens' = tokens
    BY <2>1 DEF HashesMove, api
  <2>3. RegisteredAt(t)' /\ SeenAt(t)'
    BY <1>1, <1>a, TvRegistered, ServedRegistered, TvSeen
  <2>4. ASSUME NEW u \in Tv, u # t PROVE RegisteredAt(u)' /\ SeenAt(u)'
    <3>1. SameTv(u) /\ entry'[u] = entry[u] /\ refused'[u] = refused[u]
      BY <1>1, <1>a, <2>4, OthersSame, OthersEntry
    <3>2. FewerDeliveries(u)
      BY <3>1 DEF SameTv, FewerDeliveries, Delivered
    <3>3. QED
      BY <3>1, <3>2, <2>2, <1>a, UntouchedRegistered DEF SameTv
  <2>5. QED
    BY <2>3, <2>4 DEF RegInv
<1>2. ASSUME HashesMove, tokens' = tokens \/ tokens' = tokens + 1,
             UNCHANGED <<up, conn, key, token, entry, refused>>,
             \A u \in Tv : FewerDeliveries(u)
      PROVE  RegInv'
  BY <1>2, <1>a, UntouchedRegistered DEF RegInv
<1>3. CASE \/ \E j \in Job, s \in Screen, t \in Tv \cup {NoTv}, c \in Code0 :
                StartLink(j, s, t, c) \/ StartCreate(j, s, t, c)
           \/ \E j \in Job : WriteHash(j) \/ UndoHash(j) \/ ApiDies(j)
           \/ \E s \in Screen : HandToken(s) \/ SetActive(s) \/ DeleteScreen(s)
  <2>1. UNCHANGED down
    BY <1>3 DEF StartLink, StartCreate, Starts, WriteHash, UndoHash, ApiDies, HandToken,
                SetActive, DeleteScreen, wire
  <2>2. \A u \in Tv : FewerDeliveries(u)
    BY <2>1 DEF FewerDeliveries, Delivered
  <2>3. /\ HashesMove /\ (tokens' = tokens \/ tokens' = tokens + 1)
        /\ UNCHANGED <<up, conn, key, token, entry, refused>>
    BY <1>3, <1>a, RowsMove
  <2>4. QED
    BY <2>2, <2>3, <1>2
<1>4. ASSUME NEW j \in Job, NEW reached \in BOOLEAN, NEW answered \in BOOLEAN,
             BroadcastToRoom(j, reached, answered)
      PROVE  RegInv'
  <2> DEFINE b == jobs[j]
  <2>1. /\ HashesMove /\ (tokens' = tokens \/ tokens' = tokens + 1)
        /\ UNCHANGED <<up, conn, key, token, entry, refused>>
    BY <1>4, <1>a, RowsMove
  <2>2. /\ UNCHANGED tokens /\ b.screen \in Screen /\ b.token \in Token0 /\ b.token <= tokens
        /\ \A u \in Tv : \/ down'[u] = down[u]
                         \/ down'[u] = Append(down[u], CompleteFor(b.screen, b.token))
    BY <1>4, <1>a DEF BroadcastToRoom, TypeInv, JobsHaveScreens, Generated, TypeOK, ApiOK, WireOK,
                      CompleteFor
  <2> HIDE DEF b
  <2>3. ASSUME NEW u \in Tv PROVE RegisteredAt(u)' /\ SeenAt(u)'
    <3>1. RegisteredAt(u)'
      <4>1. NotRevived(u)
        BY <2>1, <1>a, NotRevivedByRows
      <4>2. QED
        BY <2>1, <4>1, <1>a, QuietRegistered
    <3>2. CASE down'[u] = down[u]
      <4>1. FewerDeliveries(u)
        BY <3>2 DEF FewerDeliveries, Delivered
      <4>2. QED
        BY <3>1, <4>1, <2>1, <1>a, SeenKept
    <3>3. CASE down'[u] = Append(down[u], CompleteFor(b.screen, b.token))
      <4>1. CompleteFor(b.screen, b.token) \in DownMessage
        BY <2>2, MessageTypes DEF CompleteFor
      <4>2. \A x : On(down'[u], x) <=> (On(down[u], x) \/ x = CompleteFor(b.screen, b.token))
        BY <3>3, <4>1, <1>a, PutOn
      <4>3. \A s \in Screen, k \in Token0 : Delivered(u, s, k)' => Delivered(u, s, k) \/ k = b.token
        BY <4>2, MessagesDiffer DEF Delivered
      <4>4. SeenAt(u)'
        BY <4>3, <2>1, <2>2, <1>a DEF SeenAt
      <4>5. QED
        BY <3>1, <4>4
    <3>4. QED
      BY <2>2, <3>2, <3>3
  <2>4. QED
    BY <2>3 DEF RegInv
<1>5. CASE UNCHANGED vars
  <2>1. UNCHANGED <<rows, tokens, up, down, conn, key, token, entry, refused>>
    BY <1>5 DEF vars, api, service, wire, tvs, store, ghosts
  <2>2. HashesMove /\ \A u \in Tv : FewerDeliveries(u)
    BY <2>1 DEF HashesMove, FewerDeliveries, Delivered
  <2>3. QED
    BY <2>1, <2>2, <1>2
<1>6. QED
  BY <1>1, <1>3, <1>4, <1>5 DEF Next

\* A television that holds the token its row asks for and has nothing more to ask is
\* registered as verified, unless its row is inactive or gone or the database was locked
\* when it asked; and what it asks last is about the identity it holds (index.ts
\* 313-341, TvDisplay.tsx 139-147, 169-185). Hasty administrators, reloads, drops and
\* re-linked rows included. That it is asked and answered is DeliveredIsVerified.
THEOREM DeliveredIsRegistered == Spec => []RegisteredUnlessAsking
<1>1. Init => RegInv
  <2>1. SUFFICES ASSUME Init, NEW t \in Tv PROVE RegisteredAt(t) /\ SeenAt(t)
    BY DEF RegInv
  <2>2. ~conn[t] /\ token[t] = 0 /\ tokens = 0 /\ down[t] = << >>
    BY <2>1 DEF Init, NoToken
  <2>3. QED
    BY <2>2, OnEmpty DEF RegisteredAt, SeenAt, Delivered
<1>2. RegInv => RegisteredUnlessAsking
  BY DEF RegInv, RegisteredUnlessAsking
<1>3. QED
  BY <1>1, <1>2, InitType, NextType, InitHash, NextHash, NextReg, PTL DEF Spec
=============================================================================
