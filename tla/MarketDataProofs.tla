-------------------------- MODULE MarketDataProofs --------------------------
(***************************************************************************)
(* Market data, proved with TLAPS for any symbols, levels, sessions, orders *)
(* and clicks:                                                              *)
(*   SubscriptionsEnd - no subscription outlives its session;               *)
(*   MarketTypes      - what the threads hand each other is well formed;    *)
(*   CandlesAgree     - the candles of the two resolutions tell one story,  *)
(*                      however the clock is set;                           *)
(*   ClientConverges  - the client's screen comes to show the exchange's    *)
(*                      book, wherever the protocol can add up.             *)
(* The invariants they rest on are SubscriptionsInv, FewLevels, CandlesInv  *)
(* and FeedInv.                                                             *)
(***************************************************************************)
EXTENDS MarketData, SequenceTheorems, FiniteSetTheorems, TLAPS

(* What the io thread knows of the sessions: the variables of the invariant *)
(* apart from the requests.                                                 *)
Subscribed(su, reg, i) ==
  /\ su \in [Symbols -> SUBSET Session] /\ reg \subseteq Session
  /\ i.pc = "unsubscribe" => i.session \in Session
  /\ \A s \in Symbols : \A k \in su[s] :
       k \in reg \/ (i.pc = "unsubscribe" /\ i.session = k)

ClientSide(sess, cs, sym) ==
  /\ sess \in 0..MaxSessions /\ sym \in Symbols
  /\ cs \in {"Connecting", "Pending", "Active", "LoggingOut"} => sess # 0

LEMMA InvIs ==
  /\ SubscriptionsInv <=> /\ up \in [Session -> Seq(Request)] /\ Subscribed(subs, registered, io)
                          /\ ClientSide(session, cstate, symbol)
  /\ SubscriptionsInv' <=> /\ up' \in [Session -> Seq(Request)]
                           /\ Subscribed(subs', registered', io')
                           /\ ClientSide(session', cstate', symbol')
BY DEF SubscriptionsInv, NoOrphanSubscription, Subscribed, ClientSide

(* A request is taken off a session's queue.                                *)
LEMMA RequestTaken ==
  ASSUME up \in [Session -> Seq(Request)], NEW k \in Session, up[k] # << >>,
         up' = [up EXCEPT ![k] = Tail(@)]
  PROVE  up' \in [Session -> Seq(Request)] /\ Head(up[k]) \in Request
<1>1. up[k] \in Seq(Request)
  OBVIOUS
<1>2. Head(up[k]) \in Request /\ Tail(up[k]) \in Seq(Request)
  BY <1>1, HeadTailProperties
<1>3. QED
  BY <1>2

LEMMA WorkersQuiet ==
  ASSUME WorkerStep
  PROVE  UNCHANGED <<up, subs, registered, io, session, cstate, symbol>>
BY DEF WorkerStep, Insert, Cancel, Trade, publishIncremental, Deliver, serverVars, clientVars

LEMMA IoKeeps ==
  ASSUME SubscriptionsInv, IoStep
  PROVE  SubscriptionsInv'
<1>1. /\ up \in [Session -> Seq(Request)] /\ Subscribed(subs, registered, io)
      /\ ClientSide(session, cstate, symbol)
  BY InvIs
<1>2. ASSUME NEW k \in Session, Subscribe(k) PROVE SubscriptionsInv'
  <2>1. up' \in [Session -> Seq(Request)] /\ Head(up[k]) \in Request
    BY <1>1, <1>2, RequestTaken DEF Subscribe
  <2>2. PICK s \in Symbols : subs' = [subs EXCEPT ![s] = @ \cup {k}]
    BY <2>1, <1>2 DEF Subscribe, Request
  <2>3. io'.pc = "walk" /\ io.pc = "idle" /\ k \in registered /\ registered' = registered
    BY <1>2 DEF Subscribe
  <2>4. Subscribed(subs', registered', io')
    BY <2>2, <2>3, <1>1 DEF Subscribed
  <2>5. UNCHANGED <<session, cstate, symbol>>
    BY <1>2 DEF Subscribe, clientVars
  <2>6. QED
    BY <2>1, <2>4, <2>5, <1>1, InvIs
<1>3. ASSUME NEW k \in Session, Unsubscribe(k) PROVE SubscriptionsInv'
  <2>1. up' \in [Session -> Seq(Request)] /\ Head(up[k]) \in Request
    BY <1>1, <1>3, RequestTaken DEF Unsubscribe
  <2>2. PICK s \in Symbols : subs' = [subs EXCEPT ![s] = @ \ {k}]
    BY <2>1, <1>3 DEF Unsubscribe, Request
  <2>3. UNCHANGED <<registered, io, session, cstate, symbol>>
    BY <1>3 DEF Unsubscribe, clientVars
  <2>4. Subscribed(subs', registered', io')
    BY <2>2, <2>3, <1>1 DEF Subscribed
  <2>5. QED
    BY <2>1, <2>3, <2>4, <1>1, InvIs
<1>4. ASSUME NEW k \in Session, unregisterSession(k) PROVE SubscriptionsInv'
  <2>1. /\ io.pc = "idle" /\ registered' = registered \ {k}
        /\ io' = [pc |-> "unsubscribe", session |-> k]
        /\ UNCHANGED <<up, subs, session, cstate, symbol>>
    BY <1>4 DEF unregisterSession, clientVars
  <2>2. io'.pc = "unsubscribe" /\ io'.session = k
    BY <2>1
  <2>3. Subscribed(subs', registered', io')
    BY <2>1, <2>2, <1>1 DEF Subscribed
  <2>4. QED
    BY <2>1, <2>3, <1>1, InvIs
<1>5. CASE WalkLevel \/ WriteSnapshot
  <2>1. io.pc = "walk" /\ UNCHANGED <<up, subs, registered, session, cstate, symbol>>
    BY <1>5 DEF WalkLevel, WriteSnapshot, clientVars
  <2>2. \A s \in Symbols : \A k \in subs[s] : k \in registered
    BY <2>1, <1>1 DEF Subscribed
  <2>3. io'.pc = "unsubscribe" => io'.session \in Session
    <3>1. CASE WriteSnapshot
      BY <3>1 DEF WriteSnapshot, IdleIo
    <3>2. CASE WalkLevel
      <4>1. PICK l, e : io' = [io EXCEPT !.left = l, !.entries = e]
        BY <3>2 DEF WalkLevel
      <4>2. io'.pc = io.pc
        BY <4>1
      <4>3. QED
        BY <2>1, <4>2
    <3>3. QED
      BY <1>5, <3>1, <3>2
  <2>4. Subscribed(subs', registered', io')
    BY <2>1, <2>2, <2>3, <1>1 DEF Subscribed
  <2>5. QED
    BY <2>1, <2>4, <1>1, InvIs
<1>6. CASE removeSubscription
  <2>1. /\ io.pc = "unsubscribe" /\ subs' = [s \in Symbols |-> subs[s] \ {io.session}]
        /\ io'.pc = "idle" /\ UNCHANGED <<up, registered, session, cstate, symbol>>
    BY <1>6 DEF removeSubscription, clientVars, IdleIo
  <2>2. Subscribed(subs', registered', io')
    BY <2>1, <1>1 DEF Subscribed
  <2>3. QED
    BY <2>1, <2>2, <1>1, InvIs
<1>7. QED
  BY <1>2, <1>3, <1>4, <1>5, <1>6 DEF IoStep

(* sendMarketDataRequest, when the session takes it.                        *)
LEMMA RequestSent ==
  ASSUME up \in [Session -> Seq(Request)], ClientSide(session, cstate, symbol),
         NEW type \in {"1", "2"}, sendMarketDataRequest(type, symbol)
  PROVE  up' \in [Session -> Seq(Request)]
<1>1. CASE cstate # "Active"
  BY <1>1 DEF sendMarketDataRequest
<1>2. CASE cstate = "Active"
  <2> DEFINE r == [type |-> type, symbol |-> symbol]
  <2>1. session \in Session /\ up' = [up EXCEPT ![session] = Append(up[session], r)]
    BY <1>2, MarketAssumption DEF sendMarketDataRequest, ClientSide, Session
  <2>2. r \in Request
    BY DEF ClientSide, Request
  <2> HIDE DEF r
  <2>3. Append(up[session], r) \in Seq(Request)
    BY <2>1, <2>2, AppendProperties
  <2>4. QED
    BY <2>1, <2>3
<1>3. QED
  BY <1>1, <1>2

LEMMA UiKeeps ==
  ASSUME SubscriptionsInv, UiStep
  PROVE  SubscriptionsInv'
<1>1. /\ up \in [Session -> Seq(Request)] /\ Subscribed(subs, registered, io)
      /\ ClientSide(session, cstate, symbol)
  BY InvIs
<1>2. UNCHANGED <<subs, registered, io>>
  BY DEF UiStep, Buttons, Sync, PressUnsubscribe, PressSubscribe, NoClick, SwapBook, selectSymbol,
         unchangedByUi, serverVars
<1>3. ClientSide(session', cstate', symbol')
  <2>1. CASE Buttons
    BY <2>1, <1>1, MarketAssumption DEF Buttons, ClientSide
  <2>2. CASE \E s \in Symbols : selectSymbol(s)
    BY <2>2, <1>1 DEF selectSymbol, ClientSide
  <2>3. CASE Sync \/ PressUnsubscribe \/ PressSubscribe \/ NoClick \/ SwapBook
    BY <2>3, <1>1 DEF Sync, PressUnsubscribe, PressSubscribe, NoClick, SwapBook, ClientSide
  <2>4. QED
    BY <2>1, <2>2, <2>3 DEF UiStep
<1>4. \/ UNCHANGED up
      \/ sendMarketDataRequest("1", symbol) \/ sendMarketDataRequest("2", symbol)
  BY DEF UiStep, Buttons, Sync, PressUnsubscribe, PressSubscribe, NoClick, SwapBook, selectSymbol
<1>5. up' \in [Session -> Seq(Request)]
  BY <1>1, <1>4, RequestSent
<1>6. QED
  BY <1>1, <1>2, <1>3, <1>5, InvIs

LEMMA NetKeeps ==
  ASSUME SubscriptionsInv, NetStep
  PROVE  SubscriptionsInv'
<1>1. /\ up \in [Session -> Seq(Request)] /\ Subscribed(subs, registered, io)
      /\ ClientSide(session, cstate, symbol)
  BY InvIs
<1>2. UNCHANGED <<up, subs, io, session, symbol>>
  BY DEF NetStep, ConnectionUp, LoggedOn, LoggedOut, CheckSymbol, Apply, unchangedByNet
<1>3. \/ cstate = "Connecting" /\ cstate' = "Pending" /\ registered' = registered \cup {session}
      \/ UNCHANGED registered /\ cstate = "Pending" /\ cstate' = "Active"
      \/ UNCHANGED registered /\ cstate' \in {cstate, "Disconnected"}
  BY DEF NetStep, ConnectionUp, LoggedOn, LoggedOut, CheckSymbol, Apply
<1>4. ClientSide(session', cstate', symbol')
  BY <1>1, <1>2, <1>3 DEF ClientSide
<1>5. Subscribed(subs', registered', io')
  <2>1. cstate = "Connecting" => session \in Session
    BY <1>1, MarketAssumption DEF ClientSide, Session
  <2>2. registered \subseteq registered' /\ registered' \subseteq Session
    BY <2>1, <1>1, <1>3 DEF Subscribed
  <2>3. QED
    BY <2>2, <1>1, <1>2 DEF Subscribed
<1>6. QED
  BY <1>1, <1>2, <1>4, <1>5, InvIs

LEMMA SubscriptionsFirst == MarketInit => SubscriptionsInv
<1>1. SUFFICES ASSUME MarketInit PROVE SubscriptionsInv
  OBVIOUS
<1>2. << >> \in Seq(Request)
  BY EmptySeq
<1>3. up \in [Session -> Seq(Request)]
  BY <1>1, <1>2 DEF MarketInit
<1>4. Subscribed(subs, registered, io)
  BY <1>1 DEF MarketInit, Subscribed, IdleIo
<1>5. ClientSide(session, cstate, symbol)
  BY <1>1, MarketAssumption DEF MarketInit, ClientSide
<1>6. QED
  BY <1>3, <1>4, <1>5, InvIs

LEMMA SubscriptionsStep ==
  ASSUME SubscriptionsInv, [MarketNext]_marketVars
  PROVE  SubscriptionsInv'
<1>1. CASE UNCHANGED <<up, subs, registered, io, session, cstate, symbol>>
  BY <1>1, InvIs
<1>2. CASE WorkerStep
  BY <1>1, <1>2, WorkersQuiet
<1>3. CASE UNCHANGED marketVars
  BY <1>1, <1>3 DEF marketVars, serverVars, clientVars
<1>4. QED
  BY <1>2, <1>3, IoKeeps, UiKeeps, NetKeeps DEF MarketNext

(* However requests, disconnects, reconnects and deliveries interleave, a   *)
(* session that was unregistered has no subscription left once the io       *)
(* thread is done with unregisterSession.                                   *)
THEOREM SubscriptionsEnd == MarketSpec => []NoOrphanSubscription
<1>1. SubscriptionsInv => NoOrphanSubscription
  BY DEF SubscriptionsInv
<1>2. QED
  BY <1>1, SubscriptionsFirst, SubscriptionsStep, PTL DEF MarketSpec

-----------------------------------------------------------------------------
(* The candles.                                                             *)

LEMMA Greatest ==
  ASSUME NEW S, NEW m \in S, S \subseteq Int, \A x \in S : x <= m
  PROVE  Max(S) = m
<1>1. \E x \in S : \A y \in S : x >= y
  OBVIOUS
<1>2. Max(S) \in S /\ \A y \in S : Max(S) >= y
  BY <1>1 DEF Max
<1>3. m \in Int /\ Max(S) \in Int
  BY <1>2
<1>4. Max(S) <= m /\ m <= Max(S)
  BY <1>2
<1>5. QED
  BY <1>3, <1>4

LEMMA Least ==
  ASSUME NEW S, NEW m \in S, S \subseteq Int, \A x \in S : m <= x
  PROVE  Min(S) = m
<1>1. \E x \in S : \A y \in S : x =< y
  OBVIOUS
<1>2. Min(S) \in S /\ \A y \in S : Min(S) =< y
  BY <1>1 DEF Min
<1>3. m \in Int /\ Min(S) \in Int
  BY <1>2
<1>4. Min(S) >= m /\ m >= Min(S)
  BY <1>2
<1>5. QED
  BY <1>3, <1>4

LEMMA OfTwo ==
  ASSUME NEW a \in Int, NEW b \in Int
  PROVE  /\ Max({a, b}) = IF a <= b THEN b ELSE a
         /\ Min({a, b}) = IF a <= b THEN a ELSE b
<1> DEFINE S == {a, b}
<1>1. a \in S /\ b \in S /\ S \subseteq Int /\ \A x \in S : x = a \/ x = b
  OBVIOUS
<1> HIDE DEF S
<1>2. CASE a <= b
  <2>1. (\A x \in S : x <= b) /\ (\A x \in S : a <= x)
    BY <1>1, <1>2
  <2>2. Max(S) = b /\ Min(S) = a
    BY <1>1, <2>1, Greatest, Least
  <2>3. QED
    BY <1>2, <2>2 DEF S
<1>3. CASE ~(a <= b)
  <2>1. (\A x \in S : x <= a) /\ (\A x \in S : b <= x)
    BY <1>1, <1>3
  <2>2. Max(S) = a /\ Min(S) = b
    BY <1>1, <2>1, Greatest, Least
  <2>3. QED
    BY <1>3, <2>2 DEF S
<1>4. QED
  BY <1>2, <1>3

(* The volume of a set of candles as a fold.                                 *)
AddVolume(d, o, sum) == o.volume + sum

Pick(s) == CHOOSE x \in s : TRUE

VolumeSum == INSTANCE FoldTheory WITH Step <- AddVolume, Choice <- Pick

LEMMA VolumeFold ==
  ASSUME NEW S PROVE Volume(S) = VolumeSum!FoldOf(0, 0, S)
BY DEF Volume, MapThenSumSet, MapThenFoldSet, VolumeSum!FoldOf, VolumeSum!IsFold, AddVolume, Pick

LEMMA VolumePicks == ASSUME NEW S PROVE VolumeSum!Chooses(S)
BY DEF VolumeSum!Chooses, Pick

LEMMA VolumeFinite == ASSUME NEW S PROVE VolumeSum!IsFiniteSet(S) <=> IsFiniteSet(S)
BY DEF VolumeSum!IsFiniteSet, IsFiniteSet

LEMMA VolumeOf ==
  ASSUME NEW S \in SUBSET Candle, IsFiniteSet(S)
  PROVE  /\ Volume(S) \in Int
         /\ \A o \in S : Volume(S) = o.volume + Volume(S \ {o})
         /\ Volume({}) = 0
<1>1. VolumeSum!StaysIn(S, 0, Int) /\ VolumeSum!Commutes(S, 0, Int)
  BY DEF VolumeSum!StaysIn, VolumeSum!Commutes, AddVolume, Candle
<1>2. VolumeSum!FoldOf(0, 0, S) \in Int
  BY <1>1, VolumePicks, VolumeFinite, VolumeSum!FoldStays
<1>3. ASSUME NEW o \in S
      PROVE  VolumeSum!FoldOf(0, 0, S) = AddVolume(0, o, VolumeSum!FoldOf(0, 0, S \ {o}))
  BY <1>1, VolumePicks, VolumeFinite, VolumeSum!FoldAnyLast
<1>4. VolumeSum!FoldOf(0, 0, {}) = 0
  BY VolumeSum!FoldEmpty
<1>5. QED
  BY <1>2, <1>3, <1>4, VolumeFold DEF AddVolume

LEMMA LevelIs == \A p \in Levels : p \in Nat /\ p \in Int
<1>1. Levels \subseteq Nat \ {0}
  BY CandlesAssumption
<1>2. QED
  BY <1>1

LEMMA CandleIs ==
  ASSUME NEW c \in Candle
  PROVE  /\ c.timestamp \in Nat /\ c.volume \in Nat
         /\ c.open \in Levels /\ c.high \in Levels /\ c.low \in Levels /\ c.close \in Levels
         /\ c.high \in Int /\ c.low \in Int
<1>1. /\ c.timestamp \in Nat /\ c.volume \in Nat
      /\ c.open \in Levels /\ c.high \in Levels /\ c.low \in Levels /\ c.close \in Levels
  BY DEF Candle
<1>2. QED
  BY <1>1, LevelIs

(* The candle an update starts, and the one it leaves of an active candle.    *)
Fresh(t, p, q) ==
  [timestamp |-> t, open |-> p, high |-> p, low |-> p, close |-> p, volume |-> q]

Updated(c, p, q) ==
  [c EXCEPT !.high = Max({@, p}), !.low = Min({@, p}), !.close = p, !.volume = @ + q]

LEMMA UpdateIs ==
  ASSUME NEW c, NEW i, NEW p, NEW q, NEW now
  PROVE  updateAggregate(c, i, p, q, now) =
           IF Starts(c, i, now) THEN Fresh(bucketStart(i, now), p, q) ELSE Updated(c, p, q)
BY DEF updateAggregate, Fresh, Updated

LEMMA FreshIs ==
  ASSUME NEW t \in Nat, NEW p \in Levels, NEW q \in Nat
  PROVE  /\ Fresh(t, p, q) \in Candle
         /\ Fresh(t, p, q).timestamp = t /\ Fresh(t, p, q).volume = q
         /\ Fresh(t, p, q).open = p /\ Fresh(t, p, q).close = p
         /\ Fresh(t, p, q).high = p /\ Fresh(t, p, q).low = p
BY DEF Fresh, Candle

LEMMA UpdatedIs ==
  ASSUME NEW c \in Candle, NEW p \in Levels, NEW q \in Nat
  PROVE  LET u == Updated(c, p, q) IN
         /\ u \in Candle
         /\ u.timestamp = c.timestamp /\ u.volume = c.volume + q
         /\ u.open = c.open /\ u.close = p
         /\ u.high \in {c.high, p} /\ c.high <= u.high /\ p <= u.high
         /\ u.low \in {c.low, p} /\ u.low <= c.low /\ u.low <= p
<1>1. /\ c.high \in Levels /\ c.low \in Levels /\ p \in Levels /\ Levels \subseteq Int
      /\ c.volume \in Nat
  BY CandleIs, CandlesAssumption
<1>2. /\ Max({c.high, p}) = IF c.high <= p THEN p ELSE c.high
      /\ Min({c.low, p}) = IF c.low <= p THEN c.low ELSE p
  BY <1>1, OfTwo
<1> DEFINE h == Max({c.high, p})
           l == Min({c.low, p})
<1>3. Updated(c, p, q) = [c EXCEPT !.high = h, !.low = l, !.close = p, !.volume = @ + q]
  BY DEF Updated
<1> HIDE DEF h, l
<1>4. /\ h = IF c.high <= p THEN p ELSE c.high
      /\ l = IF c.low <= p THEN c.low ELSE p
  BY <1>2 DEF h, l
<1>5. /\ h \in {c.high, p} /\ c.high <= h /\ p <= h
      /\ l \in {c.low, p} /\ l <= c.low /\ l <= p
      /\ h \in Levels /\ l \in Levels
  <2>1. c.high \in Int /\ c.low \in Int /\ p \in Int
    BY CandleIs, LevelIs
  <2>2. h \in {c.high, p} /\ l \in {c.low, p}
    BY <1>4
  <2>3. c.high <= h /\ p <= h /\ l <= c.low /\ l <= p
    BY <1>4, <2>1
  <2>4. QED
    BY <1>1, <2>2, <2>3
<1>6. c.volume + q \in Nat
  BY <1>1
<1> DEFINE u == Updated(c, p, q)
<1>7. /\ u \in Candle /\ u.timestamp = c.timestamp /\ u.volume = c.volume + q
      /\ u.open = c.open /\ u.close = p /\ u.high = h /\ u.low = l
  BY <1>3, <1>5, <1>6 DEF Candle
<1> HIDE DEF u
<1>8. QED
  BY <1>5, <1>7 DEF u

(* A candle of its own is its only combination.                              *)
LEMMA CombinesOne ==
  ASSUME NEW t \in Nat, NEW u \in Nat, NEW p \in Levels, NEW q \in Nat
  PROVE  Combines(Fresh(t, p, q), {Fresh(u, p, q)})
<1> DEFINE c == Fresh(t, p, q)
           o == Fresh(u, p, q)
<1>1. /\ c \in Candle /\ c.volume = q /\ c.open = p /\ c.close = p /\ c.high = p /\ c.low = p
      /\ o \in Candle /\ o.volume = q /\ o.open = p /\ o.close = p /\ o.high = p /\ o.low = p
      /\ o.timestamp = u
  BY FreshIs
<1> HIDE DEF c, o
<1>2. Volume({o}) = q
  <2>1. {o} \in SUBSET Candle /\ IsFiniteSet({o}) /\ {o} \ {o} = {}
    BY <1>1, FS_Singleton
  <2>2. Volume({o}) = o.volume + Volume({o} \ {o}) /\ Volume({}) = 0
    BY <2>1, VolumeOf
  <2>3. QED
    BY <1>1, <2>1, <2>2
<1>3. p \in Int
  BY CandlesAssumption
<1>4. Combines(c, {o})
  BY <1>1, <1>2, <1>3 DEF Combines
<1>5. QED
  BY <1>4 DEF c, o

(* A candle goes on with the next minute.                                     *)
LEMMA CombinesNext ==
  ASSUME NEW c \in Candle, NEW S \in SUBSET Candle, IsFiniteSet(S), Combines(c, S),
         NEW p \in Levels, NEW q \in Nat, NEW now \in Nat,
         \A r \in S : r.timestamp < now
  PROVE  Combines(Updated(c, p, q), S \cup {Fresh(now, p, q)})
<1> DEFINE d == Updated(c, p, q)
           o == Fresh(now, p, q)
           T == S \cup {o}
<1>1. /\ o \in Candle /\ o.timestamp = now /\ o.volume = q
      /\ o.open = p /\ o.close = p /\ o.high = p /\ o.low = p
  BY FreshIs
<1>2. /\ d \in Candle /\ d.volume = c.volume + q /\ d.open = c.open /\ d.close = p
      /\ d.high \in {c.high, p} /\ c.high <= d.high /\ p <= d.high
      /\ d.low \in {c.low, p} /\ d.low <= c.low /\ d.low <= p
  BY UpdatedIs
<1> HIDE DEF d, o
<1>3. /\ \A r \in T : r.timestamp \in Nat /\ r.high \in Int /\ r.low \in Int /\ r.volume \in Nat
      /\ \A r \in {c, d} : r.high \in Int /\ r.low \in Int /\ r.volume \in Nat
      /\ p \in Int
  BY <1>1, <1>2, CandleIs, CandlesAssumption
<1>4. o \notin S /\ T \ {o} = S /\ o \in T
  BY <1>1, <1>3
<1>5. d.volume = Volume(T)
  <2>1. T \in SUBSET Candle /\ IsFiniteSet(T)
    BY <1>1, FS_AddElement
  <2>2. Volume(T) = o.volume + Volume(T \ {o}) /\ Volume(S) \in Int
    BY <1>4, <2>1, VolumeOf
  <2>3. c.volume = Volume(S)
    BY DEF Combines
  <2>4. Volume(T \ {o}) = Volume(S)
    BY <1>4
  <2>5. c.volume \in Nat
    BY CandleIs
  <2> HIDE DEF T
  <2>6. QED
    BY <1>1, <1>2, <2>2, <2>3, <2>4, <2>5
<1> HIDE DEF T
<1>6. T = S \cup {o}
  BY DEF T
<1>7. \A x, r \in T : x.timestamp = r.timestamp => x = r
  BY <1>1, <1>3, <1>6 DEF Combines
<1>8. \E x \in T : d.open = x.open /\ \A r \in T : x.timestamp <= r.timestamp
  <2>1. PICK x \in S : c.open = x.open /\ \A r \in S : x.timestamp <= r.timestamp
    BY DEF Combines
  <2>2. QED
    BY <1>1, <1>2, <1>3, <1>6, <2>1
<1>9. \E x \in T : d.close = x.close /\ \A r \in T : r.timestamp <= x.timestamp
  BY <1>1, <1>2, <1>3, <1>6
<1>10. (\E x \in T : d.high = x.high) /\ (\E x \in T : d.low = x.low)
  BY <1>1, <1>2, <1>6 DEF Combines
<1>11. \A x \in T : x.high <= d.high /\ d.low <= x.low
  BY <1>1, <1>2, <1>3, <1>6 DEF Combines
<1>12. Combines(d, T)
  BY <1>5, <1>7, <1>8, <1>9, <1>10, <1>11 DEF Combines
<1>13. QED
  BY <1>12 DEF d, o, T

(* A candle goes on within the last minute.                                   *)
LEMMA CombinesLast ==
  ASSUME NEW c \in Candle, NEW S \in SUBSET Candle, IsFiniteSet(S), Combines(c, S),
         NEW p \in Levels, NEW q \in Nat, NEW a \in S,
         \A r \in S \ {a} : r.timestamp < a.timestamp
  PROVE  Combines(Updated(c, p, q), (S \ {a}) \cup {Updated(a, p, q)})
<1> DEFINE d == Updated(c, p, q)
           o == Updated(a, p, q)
           R == S \ {a}
           T == R \cup {o}
<1>1. /\ o \in Candle /\ o.timestamp = a.timestamp /\ o.volume = a.volume + q
      /\ o.open = a.open /\ o.close = p
      /\ o.high \in {a.high, p} /\ a.high <= o.high /\ p <= o.high
      /\ o.low \in {a.low, p} /\ o.low <= a.low /\ o.low <= p
  BY UpdatedIs
<1>2. /\ d \in Candle /\ d.volume = c.volume + q /\ d.open = c.open /\ d.close = p
      /\ d.high \in {c.high, p} /\ c.high <= d.high /\ p <= d.high
      /\ d.low \in {c.low, p} /\ d.low <= c.low /\ d.low <= p
  BY UpdatedIs
<1> HIDE DEF d, o
<1>3. /\ \A r \in T \cup S : r.timestamp \in Nat /\ r.high \in Int /\ r.low \in Int /\ r.volume \in Nat
      /\ \A r \in {c, d} : r.high \in Int /\ r.low \in Int /\ r.volume \in Nat
      /\ p \in Int
  BY <1>1, <1>2, CandleIs, CandlesAssumption
<1>4. o \notin R /\ T \ {o} = R /\ o \in T
  BY <1>1, <1>3
<1>5. d.volume = Volume(T)
  <2>1. R \in SUBSET Candle /\ IsFiniteSet(R) /\ T \in SUBSET Candle /\ IsFiniteSet(T)
    BY <1>1, FS_AddElement, FS_RemoveElement
  <2>2. /\ Volume(T) = o.volume + Volume(T \ {o}) /\ Volume(S) = a.volume + Volume(R)
        /\ Volume(R) \in Int
    BY <1>4, <2>1, VolumeOf
  <2>3. c.volume = Volume(S)
    BY DEF Combines
  <2>4. Volume(T \ {o}) = Volume(R)
    BY <1>4
  <2>5. a.volume \in Nat
    BY CandleIs
  <2> HIDE DEF T, R
  <2>6. QED
    BY <1>1, <1>2, <2>2, <2>3, <2>4, <2>5
<1> HIDE DEF T
<1>6. T = (S \ {a}) \cup {o}
  BY DEF T
<1>7. \A x, r \in T : x.timestamp = r.timestamp => x = r
  BY <1>1, <1>3, <1>6 DEF Combines
<1>8. \E x \in T : d.open = x.open /\ \A r \in T : x.timestamp <= r.timestamp
  <2>1. PICK x \in S : c.open = x.open /\ \A r \in S : x.timestamp <= r.timestamp
    BY DEF Combines
  <2>2. CASE x = a
    BY <1>1, <1>2, <1>3, <1>6, <2>1, <2>2
  <2>3. CASE x # a
    BY <1>1, <1>2, <1>3, <1>6, <2>1, <2>3
  <2>4. QED
    BY <2>2, <2>3
<1>9. \E x \in T : d.close = x.close /\ \A r \in T : r.timestamp <= x.timestamp
  BY <1>1, <1>2, <1>3, <1>6
<1>10. \A x \in S : x.high <= c.high /\ c.low <= x.low
  BY DEF Combines
<1>11. \E x \in T : d.high = x.high
  <2>1. PICK x \in S : c.high = x.high
    BY DEF Combines
  <2>2. CASE d.high = p
    BY <1>1, <1>2, <1>3, <1>6, <1>10, <2>2
  <2>3. CASE d.high = c.high
    <3>1. CASE x # a
      BY <1>6, <2>1, <2>3, <3>1
    <3>2. CASE x = a
      <4>1. o.high = d.high
        BY <1>1, <1>2, <1>3, <1>6, <2>1, <2>3, <3>2
      <4>2. QED
        BY <1>6, <4>1
    <3>3. QED
      BY <3>1, <3>2
  <2>4. QED
    BY <1>2, <2>2, <2>3
<1>12. \E x \in T : d.low = x.low
  <2>1. PICK x \in S : c.low = x.low
    BY DEF Combines
  <2>2. CASE d.low = p
    BY <1>1, <1>2, <1>3, <1>6, <1>10, <2>2
  <2>3. CASE d.low = c.low
    <3>1. CASE x # a
      BY <1>6, <2>1, <2>3, <3>1
    <3>2. CASE x = a
      <4>1. o.low = d.low
        BY <1>1, <1>2, <1>3, <1>6, <2>1, <2>3, <3>2
      <4>2. QED
        BY <1>6, <4>1
    <3>3. QED
      BY <3>1, <3>2
  <2>4. QED
    BY <1>2, <2>2, <2>3
<1>13. \A x \in T : x.high <= d.high /\ d.low <= x.low
  BY <1>1, <1>2, <1>3, <1>6, <1>10
<1>14. Combines(d, T)
  BY <1>5, <1>7, <1>8, <1>9, <1>11, <1>12, <1>13 DEF Combines
<1>15. QED
  BY <1>14 DEF d, o, T

LEMMA Buckets ==
  ASSUME NEW now \in Nat, NEW t \in Nat
  PROVE  LET b  == bucketStart(5, now)
             t5 == bucketStart(5, t)
         IN  /\ bucketStart(1, now) = now
             /\ b \in Nat /\ b <= now /\ now < b + 5
             /\ now <= t => b <= t5
             /\ t <= now => t5 <= b
             /\ t5 < b => t5 + 5 <= b
BY DEF bucketStart

LEMMA InactiveIs == \A c \in Candle : c # Inactive
<1>1. \A c \in Candle : c.timestamp # -1
  BY CandleIs
<1>2. Inactive.timestamp = -1
  BY DEF Inactive
<1>3. QED
  BY <1>1, <1>2

(* What an update leaves in the table of an interval.                        *)
Saved(table, c, i, now) ==
  IF c # Inactive /\ Starts(c, i, now) THEN addCandle(table, c) ELSE table

(* The first candles of a symbol.                                            *)
LEMMA InStepFirst ==
  ASSUME NEW p \in Levels, NEW q \in Nat, NEW now \in Nat
  PROVE  InStep(Fresh(now, p, q), Fresh(bucketStart(5, now), p, q), {}, {})
<1> DEFINE b == bucketStart(5, now)
           one == Fresh(now, p, q)
           five == Fresh(b, p, q)
<1>1. b \in Nat /\ b <= now /\ now < b + 5
  BY Buckets
<1>2. Combines(five, {one})
  BY <1>1, CombinesOne
<1>3. /\ one \in Candle /\ one.timestamp = now
      /\ five \in Candle /\ five.timestamp = b
  BY <1>1, FreshIs
<1> HIDE DEF one, five
<1>4. one # Inactive /\ five # Inactive
  BY <1>3, InactiveIs
<1>5. Within({one}, five) = {one}
  BY <1>1, <1>3 DEF Within
<1>6. {} \cup ({one} \ {Inactive}) = {one} /\ {} \cup ({five} \ {Inactive}) = {five}
  BY <1>4
<1>7. five.timestamp = bucketStart(5, one.timestamp)
  BY <1>3
<1>8. InStep(one, five, {}, {})
  BY <1>2, <1>4, <1>5, <1>6, <1>7, FS_EmptySet DEF InStep
<1>9. QED
  BY <1>8 DEF one, five

(* What InStep says of candles that are active.                              *)
Active(one, five, ones, fives) ==
  /\ five.timestamp = bucketStart(5, one.timestamp)
  /\ \A r \in ones : r.timestamp < one.timestamp
  /\ \A r \in fives : r.timestamp + 5 <= five.timestamp
  /\ \A c \in fives \cup {five} : Combines(c, Within(ones \cup {one}, c))

LEMMA InStepActive ==
  ASSUME NEW one \in Candle, NEW five \in Candle, NEW ones, NEW fives
  PROVE  InStep(one, five, ones, fives)
           <=> IsFiniteSet(ones) /\ Active(one, five, ones, fives)
<1>1. one # Inactive /\ five # Inactive
  BY InactiveIs
<1>2. {one} \ {Inactive} = {one} /\ {five} \ {Inactive} = {five}
  BY <1>1
<1>3. QED
  BY <1>1, <1>2 DEF InStep, Active

(* An update within the last minute, or stamped before it.                    *)
LEMMA ActiveLast ==
  ASSUME NEW one \in Candle, NEW five \in Candle, NEW ones \in SUBSET Candle,
         NEW fives \in SUBSET Candle, IsFiniteSet(ones), Active(one, five, ones, fives),
         NEW p \in Levels, NEW q \in Nat
  PROVE  Active(Updated(one, p, q), Updated(five, p, q), ones, fives)
<1> DEFINE o1 == Updated(one, p, q)
           o5 == Updated(five, p, q)
           S == Within(ones \cup {one}, five)
<1>1. /\ o1 \in Candle /\ o1.timestamp = one.timestamp
      /\ o5 \in Candle /\ o5.timestamp = five.timestamp
  BY UpdatedIs
<1>2. /\ five.timestamp = bucketStart(5, one.timestamp)
      /\ \A r \in ones : r.timestamp < one.timestamp
      /\ \A r \in fives : r.timestamp + 5 <= five.timestamp
      /\ \A c \in fives \cup {five} : Combines(c, Within(ones \cup {one}, c))
  BY DEF Active
<1>3. /\ one.timestamp \in Nat /\ five.timestamp \in Nat
      /\ \A r \in ones \cup fives : r.timestamp \in Nat
  BY CandleIs
<1>4. five.timestamp <= one.timestamp /\ one.timestamp < five.timestamp + 5
  BY <1>2, <1>3, Buckets
<1>5. S \in SUBSET Candle /\ IsFiniteSet(S) /\ one \in S /\ Combines(five, S)
  <2>1. IsFiniteSet(ones \cup {one}) /\ S \in SUBSET (ones \cup {one})
    BY FS_AddElement DEF Within
  <2>2. IsFiniteSet(S)
    BY <2>1, FS_Subset
  <2>3. one \in S
    BY <1>3, <1>4 DEF Within
  <2>4. QED
    BY <1>2, <2>1, <2>2, <2>3
<1>6. \A r \in S \ {one} : r.timestamp < one.timestamp
  BY <1>2 DEF Within
<1>7. Combines(o5, (S \ {one}) \cup {o1})
  <2> HIDE DEF S
  <2>1. QED
    BY <1>5, <1>6, CombinesLast
<1>8. Within(ones \cup {o1}, o5) = (S \ {one}) \cup {o1}
  <2> HIDE DEF o1, o5
  <2>1. one \notin ones
    BY <1>2, <1>3
  <2>2. QED
    BY <1>1, <1>3, <1>4, <2>1 DEF Within
<1>9. ASSUME NEW c \in fives
      PROVE  Within(ones \cup {o1}, c) = Within(ones \cup {one}, c)
  <2> HIDE DEF o1, o5
  <2>1. c.timestamp + 5 <= one.timestamp /\ c.timestamp \in Nat
    BY <1>2, <1>3, <1>4
  <2>2. QED
    BY <1>1, <1>3, <2>1 DEF Within
<1> HIDE DEF o1, o5, S
<1>10. Active(o1, o5, ones, fives)
  BY <1>1, <1>2, <1>7, <1>8, <1>9 DEF Active
<1>11. QED
  BY <1>10 DEF o1, o5

(* A new minute of the same five.                                             *)
LEMMA ActiveNext ==
  ASSUME NEW one \in Candle, NEW five \in Candle, NEW ones \in SUBSET Candle,
         NEW fives \in SUBSET Candle, IsFiniteSet(ones), Active(one, five, ones, fives),
         NEW p \in Levels, NEW q \in Nat, NEW now \in Nat,
         one.timestamp < now, bucketStart(5, now) = five.timestamp
  PROVE  Active(Fresh(now, p, q), Updated(five, p, q), ones \cup {one}, fives)
<1> DEFINE o1 == Fresh(now, p, q)
           o5 == Updated(five, p, q)
           S == Within(ones \cup {one}, five)
<1>1. /\ o1 \in Candle /\ o1.timestamp = now
      /\ o5 \in Candle /\ o5.timestamp = five.timestamp
  BY FreshIs, UpdatedIs
<1>2. /\ five.timestamp = bucketStart(5, one.timestamp)
      /\ \A r \in ones : r.timestamp < one.timestamp
      /\ \A r \in fives : r.timestamp + 5 <= five.timestamp
      /\ \A c \in fives \cup {five} : Combines(c, Within(ones \cup {one}, c))
  BY DEF Active
<1>3. /\ one.timestamp \in Nat /\ five.timestamp \in Nat
      /\ \A r \in ones \cup fives : r.timestamp \in Nat
  BY CandleIs
<1>4. five.timestamp <= now /\ now < five.timestamp + 5
  BY <1>3, Buckets
<1>5. S \in SUBSET Candle /\ IsFiniteSet(S) /\ Combines(five, S)
  <2>1. IsFiniteSet(ones \cup {one}) /\ S \in SUBSET (ones \cup {one})
    BY FS_AddElement DEF Within
  <2>2. IsFiniteSet(S)
    BY <2>1, FS_Subset
  <2>3. QED
    BY <1>2, <2>1, <2>2
<1>6. \A r \in ones \cup {one} : r.timestamp < now
  BY <1>2, <1>3
<1>7. Combines(o5, S \cup {o1})
  <2>1. \A r \in S : r.timestamp < now
    BY <1>6 DEF Within
  <2> HIDE DEF S
  <2>2. QED
    BY <1>5, <2>1, CombinesNext
<1>8. Within((ones \cup {one}) \cup {o1}, o5) = S \cup {o1}
  <2> HIDE DEF o1, o5
  <2>1. QED
    BY <1>1, <1>3, <1>4 DEF Within
<1>9. ASSUME NEW c \in fives
      PROVE  Within((ones \cup {one}) \cup {o1}, c) = Within(ones \cup {one}, c)
  <2> HIDE DEF o1, o5
  <2>1. c.timestamp + 5 <= now /\ c.timestamp \in Nat
    BY <1>2, <1>3, <1>4
  <2>2. QED
    BY <1>1, <1>3, <2>1 DEF Within
<1> HIDE DEF o1, o5, S
<1>10. Active(o1, o5, ones \cup {one}, fives)
  BY <1>1, <1>2, <1>6, <1>7, <1>8, <1>9 DEF Active
<1>11. QED
  BY <1>10 DEF o1, o5

(* A new five minutes.                                                        *)
LEMMA ActiveBoth ==
  ASSUME NEW one \in Candle, NEW five \in Candle, NEW ones \in SUBSET Candle,
         NEW fives \in SUBSET Candle, Active(one, five, ones, fives),
         NEW p \in Levels, NEW q \in Nat, NEW now \in Nat, five.timestamp < bucketStart(5, now)
  PROVE  Active(Fresh(now, p, q), Fresh(bucketStart(5, now), p, q),
                ones \cup {one}, fives \cup {five})
<1> DEFINE b == bucketStart(5, now)
           o1 == Fresh(now, p, q)
           o5 == Fresh(b, p, q)
<1>1. /\ five.timestamp = bucketStart(5, one.timestamp)
      /\ \A r \in ones : r.timestamp < one.timestamp
      /\ \A r \in fives : r.timestamp + 5 <= five.timestamp
      /\ \A c \in fives \cup {five} : Combines(c, Within(ones \cup {one}, c))
  BY DEF Active
<1>2. /\ one.timestamp \in Nat /\ five.timestamp \in Nat
      /\ \A r \in ones \cup fives : r.timestamp \in Nat
  BY CandleIs
<1>3. /\ b \in Nat /\ b <= now /\ now < b + 5 /\ five.timestamp + 5 <= b
      /\ one.timestamp < five.timestamp + 5
  BY <1>1, <1>2, Buckets
<1>4. /\ o1 \in Candle /\ o1.timestamp = now
      /\ o5 \in Candle /\ o5.timestamp = b
  BY <1>3, FreshIs
<1>5. Combines(o5, {o1})
  BY <1>3, CombinesOne
<1>6. \A r \in ones \cup {one} : r.timestamp < b /\ r.timestamp \in Nat
  BY <1>1, <1>2, <1>3
<1>7. \A c \in fives \cup {five} : c.timestamp + 5 <= b /\ c.timestamp \in Nat
  BY <1>1, <1>2, <1>3
<1> HIDE DEF b, o1, o5
<1>8. Within((ones \cup {one}) \cup {o1}, o5) = {o1}
  BY <1>3, <1>4, <1>6 DEF Within
<1>9. ASSUME NEW c \in fives \cup {five}
      PROVE  Within((ones \cup {one}) \cup {o1}, c) = Within(ones \cup {one}, c)
  BY <1>3, <1>4, <1>7 DEF Within
<1>10. Active(o1, o5, ones \cup {one}, fives \cup {five})
  <2>1. o5.timestamp = bucketStart(5, o1.timestamp)
    BY <1>4 DEF b
  <2>2. \A r \in ones \cup {one} : r.timestamp < o1.timestamp
    BY <1>3, <1>4, <1>6
  <2>3. \A r \in fives \cup {five} : r.timestamp + 5 <= o5.timestamp
    BY <1>4, <1>7
  <2>4. QED
    BY <1>1, <1>5, <1>8, <1>9, <2>1, <2>2, <2>3 DEF Active
<1>11. QED
  BY <1>10 DEF o1, o5, b

LEMMA SavedBefore ==
  ASSUME NEW table, NEW c, \A r \in table : r.timestamp # c.timestamp
  PROVE  addCandle(table, c) = table \cup {c}
BY DEF addCandle

(* An update keeps the two resolutions in step.                              *)
LEMMA InStepKept ==
  ASSUME NEW one \in Candle \cup {Inactive}, NEW five \in Candle \cup {Inactive},
         NEW ones \in SUBSET Candle, NEW fives \in SUBSET Candle,
         InStep(one, five, ones, fives),
         NEW p \in Levels, NEW q \in Nat, NEW now \in Nat
  PROVE  InStep(updateAggregate(one, 1, p, q, now), updateAggregate(five, 5, p, q, now),
                Saved(ones, one, 1, now), Saved(fives, five, 5, now))
<1> DEFINE b == bucketStart(5, now)
<1>1. /\ updateAggregate(one, 1, p, q, now) =
           IF Starts(one, 1, now) THEN Fresh(now, p, q) ELSE Updated(one, p, q)
      /\ updateAggregate(five, 5, p, q, now) =
           IF Starts(five, 5, now) THEN Fresh(b, p, q) ELSE Updated(five, p, q)
      /\ Starts(one, 1, now) <=> one = Inactive \/ now > one.timestamp
      /\ Starts(five, 5, now) <=> five = Inactive \/ b > five.timestamp
      /\ b \in Nat
  BY UpdateIs, Buckets DEF Starts
<1>2. IsFiniteSet(ones) /\ (one = Inactive <=> five = Inactive)
  BY DEF InStep
<1>3. CASE one = Inactive
  <2>1. five = Inactive /\ ones = {} /\ fives = {}
    BY <1>3 DEF InStep
  <2>2. Saved(ones, one, 1, now) = {} /\ Saved(fives, five, 5, now) = {}
    BY <1>3, <2>1 DEF Saved
  <2>3. QED
    BY <1>1, <1>3, <2>1, <2>2, InStepFirst
<1>4. CASE one # Inactive
  <2>1. one \in Candle /\ five \in Candle /\ one # Inactive /\ five # Inactive
    BY <1>2, <1>4
  <2>2. Active(one, five, ones, fives)
    BY <2>1, InStepActive
  <2>3. /\ one.timestamp \in Nat /\ five.timestamp \in Nat
        /\ \A r \in ones \cup fives : r.timestamp \in Nat
    BY <2>1, CandleIs
  <2>4. /\ five.timestamp = bucketStart(5, one.timestamp)
        /\ \A r \in ones : r.timestamp # one.timestamp
        /\ \A r \in fives : r.timestamp # five.timestamp
    BY <2>2, <2>3 DEF Active
  <2>5. /\ now <= one.timestamp => b <= five.timestamp
        /\ one.timestamp <= now => five.timestamp <= b
    BY <2>3, <2>4, Buckets
  <2>6. /\ addCandle(ones, one) = ones \cup {one}
        /\ addCandle(fives, five) = fives \cup {five}
    BY <2>4, SavedBefore
  <2>7. IsFiniteSet(ones \cup {one})
    BY <1>2, FS_AddElement
  <2>8. /\ Fresh(now, p, q) \in Candle /\ Fresh(b, p, q) \in Candle
        /\ Updated(one, p, q) \in Candle /\ Updated(five, p, q) \in Candle
    BY <1>1, <2>1, FreshIs, UpdatedIs
  <2>9. CASE now <= one.timestamp
    <3>1. ~Starts(one, 1, now) /\ ~Starts(five, 5, now)
      BY <1>1, <2>1, <2>3, <2>5, <2>9
    <3>2. Active(Updated(one, p, q), Updated(five, p, q), ones, fives)
      BY <1>2, <2>1, <2>2, ActiveLast
    <3>3. InStep(Updated(one, p, q), Updated(five, p, q), ones, fives)
      BY <1>2, <2>8, <3>2, InStepActive
    <3>4. QED
      BY <1>1, <3>1, <3>3 DEF Saved
  <2>10. CASE one.timestamp < now /\ ~(five.timestamp < b)
    <3>1. Starts(one, 1, now) /\ ~Starts(five, 5, now) /\ b = five.timestamp
      BY <1>1, <2>1, <2>3, <2>5, <2>10
    <3>2. Active(Fresh(now, p, q), Updated(five, p, q), ones \cup {one}, fives)
      BY <1>2, <2>1, <2>2, <2>10, <3>1, ActiveNext
    <3>3. InStep(Fresh(now, p, q), Updated(five, p, q), ones \cup {one}, fives)
      BY <2>7, <2>8, <3>2, InStepActive
    <3>4. QED
      BY <1>1, <2>1, <2>6, <3>1, <3>3 DEF Saved
  <2>11. CASE one.timestamp < now /\ five.timestamp < b
    <3>1. Starts(one, 1, now) /\ Starts(five, 5, now)
      BY <1>1, <2>1, <2>3, <2>11
    <3>2. Active(Fresh(now, p, q), Fresh(b, p, q), ones \cup {one}, fives \cup {five})
      BY <2>1, <2>2, <2>11, ActiveBoth
    <3>3. InStep(Fresh(now, p, q), Fresh(b, p, q), ones \cup {one}, fives \cup {five})
      BY <2>7, <2>8, <3>2, InStepActive
    <3>4. QED
      BY <1>1, <2>1, <2>6, <3>1, <3>3 DEF Saved
  <2>12. QED
    BY <2>3, <2>9, <2>10, <2>11
<1>5. QED
  BY <1>3, <1>4

LEMMA UpdateType ==
  ASSUME NEW c \in Candle \cup {Inactive}, NEW table \in SUBSET Candle, NEW i \in Intervals,
         NEW p \in Levels, NEW q \in Nat, NEW now \in Nat
  PROVE  /\ updateAggregate(c, i, p, q, now) \in Candle
         /\ Saved(table, c, i, now) \in SUBSET Candle
<1>1. bucketStart(i, now) \in Nat
  BY DEF Intervals, bucketStart
<1>2. Fresh(bucketStart(i, now), p, q) \in Candle
  BY <1>1, FreshIs
<1>3. ~Starts(c, i, now) => Updated(c, p, q) \in Candle
  BY UpdatedIs DEF Starts
<1>4. QED
  BY <1>2, <1>3, UpdateIs DEF Saved, addCandle

LEMMA CandlesStep ==
  ASSUME CandlesInv, NEW s \in Symbols, NEW p \in Levels, NEW q \in Nat, NEW now \in Nat,
         onTrade(s, p, q, now)
  PROVE  CandlesInv'
<1>1. \A x \in Symbols \X Intervals :
        /\ agg[x] \in Candle \cup {Inactive} /\ rows[x] \in SUBSET Candle
        /\ agg'[x] = IF x[1] = s THEN updateAggregate(agg[x], x[2], p, q, now) ELSE agg[x]
        /\ rows'[x] = IF x[1] = s THEN Saved(rows[x], agg[x], x[2], now) ELSE rows[x]
  BY DEF CandlesInv, CandlesTypeOK, onTrade, Saved
<1>2. \A u \in Symbols, i \in Intervals :
        /\ agg[u, i] \in Candle \cup {Inactive} /\ rows[u, i] \in SUBSET Candle
        /\ agg'[u, i] = IF u = s THEN updateAggregate(agg[u, i], i, p, q, now) ELSE agg[u, i]
        /\ rows'[u, i] = IF u = s THEN Saved(rows[u, i], agg[u, i], i, now) ELSE rows[u, i]
  <2>1. ASSUME NEW u \in Symbols, NEW i \in Intervals
        PROVE  LET x == <<u, i>> IN x \in Symbols \X Intervals /\ x[1] = u /\ x[2] = i
    OBVIOUS
  <2>2. QED
    BY <1>1, <2>1
<1>3. CandlesTypeOK'
  <2>1. \A x \in Symbols \X Intervals : agg'[x] \in Candle \cup {Inactive} /\ rows'[x] \in SUBSET Candle
    <3>1. ASSUME NEW x \in Symbols \X Intervals
          PROVE  agg'[x] \in Candle \cup {Inactive} /\ rows'[x] \in SUBSET Candle
      <4>1. x[2] \in Intervals
        OBVIOUS
      <4>2. agg[x] \in Candle \cup {Inactive} /\ rows[x] \in SUBSET Candle
        BY <1>1
      <4>3. /\ updateAggregate(agg[x], x[2], p, q, now) \in Candle
            /\ Saved(rows[x], agg[x], x[2], now) \in SUBSET Candle
        BY <4>1, <4>2, UpdateType
      <4>4. QED
        BY <1>1, <4>2, <4>3
    <3>2. QED
      BY <3>1
  <2>2. agg' = [x \in Symbols \X Intervals |-> agg'[x]] /\ rows' = [x \in Symbols \X Intervals |-> rows'[x]]
    BY DEF onTrade
  <2>3. QED
    BY <2>1, <2>2 DEF CandlesTypeOK
<1>4. ASSUME NEW u \in Symbols
      PROVE  InStep(agg[u, 1], agg[u, 5], rows[u, 1], rows[u, 5])'
  <2>1. 1 \in Intervals /\ 5 \in Intervals
    BY DEF Intervals
  <2>2. InStep(agg[u, 1], agg[u, 5], rows[u, 1], rows[u, 5])
    BY DEF CandlesInv
  <2>3. /\ agg[u, 1] \in Candle \cup {Inactive} /\ rows[u, 1] \in SUBSET Candle
        /\ agg[u, 5] \in Candle \cup {Inactive} /\ rows[u, 5] \in SUBSET Candle
    BY <1>2, <2>1
  <2>4. InStep(agg'[u, 1], agg'[u, 5], rows'[u, 1], rows'[u, 5])
    <3>1. CASE u = s
      <4>1. /\ agg'[u, 1] = updateAggregate(agg[u, 1], 1, p, q, now)
            /\ agg'[u, 5] = updateAggregate(agg[u, 5], 5, p, q, now)
            /\ rows'[u, 1] = Saved(rows[u, 1], agg[u, 1], 1, now)
            /\ rows'[u, 5] = Saved(rows[u, 5], agg[u, 5], 5, now)
        BY <1>2, <2>1, <3>1
      <4>2. InStep(updateAggregate(agg[u, 1], 1, p, q, now), updateAggregate(agg[u, 5], 5, p, q, now),
                   Saved(rows[u, 1], agg[u, 1], 1, now), Saved(rows[u, 5], agg[u, 5], 5, now))
        BY <2>2, <2>3, InStepKept
      <4>3. QED
        BY <4>1, <4>2
    <3>2. CASE u # s
      BY <1>2, <2>1, <2>2, <3>2
    <3>3. QED
      BY <3>1, <3>2
  <2>5. QED
    BY <2>4 DEF InStep
<1>5. QED
  BY <1>3, <1>4 DEF CandlesInv

-----------------------------------------------------------------------------
(* Levels, sums and snapshots.                                              *)

LEMMA HasGreatest ==
  ASSUME NEW S \in SUBSET Int, IsFiniteSet(S), S # {}
  PROVE  Max(S) \in S /\ \A x \in S : x <= Max(S)
<1>1. VolumeSum!IsFiniteSet(S)
  BY VolumeFinite
<1>2. \E m \in S : \A x \in S : x <= m
  BY <1>1, VolumeSum!GreatestExists
<1>3. PICK m \in S : \A x \in S : x <= m
  BY <1>2
<1>4. Max(S) = m
  BY <1>3, Greatest
<1>5. QED
  BY <1>3, <1>4

LEMMA FiniteDomain ==
  ASSUME NEW S, NEW seq \in Seq(S)
  PROVE  DOMAIN seq = 1..Len(seq) /\ Len(seq) \in Nat /\ IsFiniteSet(DOMAIN seq)
<1>1. DOMAIN seq = 1..Len(seq) /\ Len(seq) \in Nat
  BY LenProperties
<1>2. QED
  BY <1>1, FS_Interval

(* The total of a level as a fold.                                           *)
AddAt(orders, i, sum) == orders[i] + sum

LevelTotal == INSTANCE FoldTheory WITH Step <- AddAt, Choice <- Pick

LEMMA TotalFold ==
  ASSUME NEW orders PROVE Total(orders) = LevelTotal!FoldOf(orders, 0, DOMAIN orders)
BY DEF Total, FoldSeq, FoldFunction, FoldFunctionOnSet, MapThenFoldSet, LevelTotal!FoldOf,
   LevelTotal!IsFold, AddAt, Pick

LEMMA TotalOf ==
  ASSUME NEW orders \in Seq(Nat)
  PROVE  /\ Total(orders) \in Nat
         /\ orders = << >> => Total(orders) = 0
         /\ Len(orders) = 1 => Total(orders) = orders[1]
<1> DEFINE D == DOMAIN orders
<1>1. D = 1..Len(orders) /\ Len(orders) \in Nat /\ IsFiniteSet(D)
  BY FiniteDomain
<1>2. \A i \in D : orders[i] \in Nat
  BY <1>1
<1>3. LevelTotal!StaysIn(D, orders, Nat)
  <2> HIDE DEF D
  <2>1. QED
    BY <1>2 DEF LevelTotal!StaysIn, AddAt
<1>4. \A S : LevelTotal!Chooses(S)
  BY DEF LevelTotal!Chooses, Pick
<1>5. \A S : LevelTotal!IsFiniteSet(S) <=> IsFiniteSet(S)
  BY DEF LevelTotal!IsFiniteSet, IsFiniteSet
<1> HIDE DEF D
<1>6. LevelTotal!FoldOf(orders, 0, D) \in Nat
  BY <1>1, <1>3, <1>4, <1>5, LevelTotal!FoldStays
<1>7. LevelTotal!FoldOf(orders, 0, {}) = 0
  BY LevelTotal!FoldEmpty
<1>8. LevelTotal!FoldOf(orders, 0, D) =
        IF D = {} THEN 0
        ELSE AddAt(orders, Pick(D), LevelTotal!FoldOf(orders, 0, D \ {Pick(D)}))
  BY <1>1, <1>4, <1>5, LevelTotal!FoldStep
<1>9. Total(orders) = LevelTotal!FoldOf(orders, 0, D)
  BY TotalFold DEF D
<1>10. orders = << >> => D = {}
  BY DEF D
<1>11. ASSUME Len(orders) = 1 PROVE Total(orders) = orders[1]
  <2>1. D = {1}
    BY <1>1, <1>11
  <2>2. Pick(D) = 1 /\ D \ {Pick(D)} = {}
    BY <2>1 DEF Pick
  <2>3. orders[1] \in Nat
    BY <1>2, <2>1
  <2>4. LevelTotal!FoldOf(orders, 0, D \ {Pick(D)}) = 0
    BY <1>7, <2>2
  <2>5. Total(orders) = orders[1] + 0
    BY <1>8, <1>9, <2>1, <2>2, <2>4 DEF AddAt
  <2>6. QED
    BY <2>3, <2>5
<1>12. QED
  BY <1>6, <1>7, <1>8, <1>9, <1>10, <1>11

(* A snapshot as a fold over its entries, in their order.                    *)
SetLevel(entries, i, levels) == [levels EXCEPT ![entries[i].tick] = entries[i].size]

Newest(S) == Max(S)

Snapshots == INSTANCE FoldTheory WITH Step <- SetLevel, Choice <- Newest

LEMMA SnapshotFold ==
  ASSUME NEW levels, NEW entries
  PROVE  handleSnapshot(levels, entries) = Snapshots!FoldOf(entries, NoLevels, DOMAIN entries)
BY DEF handleSnapshot, FoldLeft, MapThenFoldSet, Snapshots!FoldOf, Snapshots!IsFold, SetLevel,
   Newest

LEMMA SnapshotChoice ==
  ASSUME NEW n \in Nat
  PROVE  Snapshots!Chooses(1..n) /\ Snapshots!IsFiniteSet(1..n)
<1>1. IsFiniteSet(1..n)
  BY FS_Interval
<1>2. Snapshots!IsFiniteSet(1..n)
  BY <1>1 DEF Snapshots!IsFiniteSet, IsFiniteSet
<1>3. ASSUME NEW s \in SUBSET (1..n), s # {} PROVE Newest(s) \in s
  <2>1. s \in SUBSET Int
    OBVIOUS
  <2>2. IsFiniteSet(s)
    <3> DEFINE N == 1..n
    <3>1. IsFiniteSet(N) /\ s \in SUBSET N
      BY <1>1
    <3> HIDE DEF N
    <3>2. QED
      BY <3>1, FS_Subset
  <2>3. QED
    BY <1>3, <2>1, <2>2, HasGreatest DEF Newest
<1>4. QED
  BY <1>2, <1>3 DEF Snapshots!Chooses

LEMMA SnapshotOf ==
  ASSUME NEW levels, NEW entries \in Seq(Quote)
  PROVE  /\ handleSnapshot(levels, entries) \in [Ticks -> Nat]
         /\ entries = << >> => handleSnapshot(levels, entries) = NoLevels
<1> DEFINE D == DOMAIN entries
<1>1. D = 1..Len(entries) /\ Len(entries) \in Nat
  BY FiniteDomain
<1>2. \A i \in D : entries[i] \in Quote
  BY <1>1
<1>3. Snapshots!Chooses(D) /\ Snapshots!IsFiniteSet(D)
  BY <1>1, SnapshotChoice
<1>4. handleSnapshot(levels, entries) = Snapshots!FoldOf(entries, NoLevels, D)
  BY SnapshotFold
<1>5. entries = << >> => D = {}
  OBVIOUS
<1> HIDE DEF D
<1>6. Snapshots!StaysIn(D, entries, [Ticks -> Nat])
  BY <1>2 DEF Snapshots!StaysIn, SetLevel, Quote
<1>7. NoLevels \in [Ticks -> Nat]
  BY DEF NoLevels
<1>8. Snapshots!FoldOf(entries, NoLevels, D) \in [Ticks -> Nat]
  BY <1>3, <1>6, <1>7, Snapshots!FoldStays
<1>9. Snapshots!FoldOf(entries, NoLevels, {}) = NoLevels
  BY Snapshots!FoldEmpty
<1>10. QED
  BY <1>4, <1>5, <1>8, <1>9

(* One more entry.                                                            *)
LEMMA SnapshotAppend ==
  ASSUME NEW levels, NEW entries \in Seq(Quote), NEW e \in Quote
  PROVE  handleSnapshot(levels, Append(entries, e)) =
           [handleSnapshot(levels, entries) EXCEPT ![e.tick] = e.size]
<1> DEFINE more == Append(entries, e)
           n == Len(entries)
           D == 1..n
           E == 1..(n + 1)
<1>1. /\ n \in Nat /\ more \in Seq(Quote) /\ DOMAIN more = E /\ DOMAIN entries = D
      /\ more[n + 1] = e /\ \A i \in D : more[i] = entries[i]
  BY AppendProperties, LenProperties
<1>2. /\ handleSnapshot(levels, entries) = Snapshots!FoldOf(entries, NoLevels, D)
      /\ handleSnapshot(levels, more) = Snapshots!FoldOf(more, NoLevels, E)
  BY <1>1, SnapshotFold
<1>3. /\ Snapshots!Chooses(D) /\ Snapshots!IsFiniteSet(D)
      /\ Snapshots!Chooses(E) /\ Snapshots!IsFiniteSet(E)
  BY <1>1, SnapshotChoice
<1>4. Newest(E) = n + 1 /\ E # {} /\ E \ {n + 1} = D
  <2>1. n + 1 \in E /\ E \subseteq Int /\ \A x \in E : x <= n + 1
    BY <1>1
  <2>2. Newest(E) = n + 1
    BY <2>1, Greatest DEF Newest
  <2>3. QED
    BY <1>1, <2>2
<1> HIDE DEF more, D, E
<1>5. Snapshots!SameSteps(D, more, entries)
  BY <1>1 DEF Snapshots!SameSteps, SetLevel
<1>6. Snapshots!FoldOf(more, NoLevels, D) = Snapshots!FoldOf(entries, NoLevels, D)
  BY <1>3, <1>5, Snapshots!FoldSame
<1>7. Snapshots!FoldOf(more, NoLevels, E) =
        IF E = {} THEN NoLevels
        ELSE SetLevel(more, Newest(E), Snapshots!FoldOf(more, NoLevels, E \ {Newest(E)}))
  BY <1>3, Snapshots!FoldStep
<1>8. handleSnapshot(levels, more) = SetLevel(more, n + 1, handleSnapshot(levels, entries))
  BY <1>2, <1>4, <1>6, <1>7
<1>9. QED
  BY <1>1, <1>8 DEF SetLevel, more

(* The sizes, and the orders, behind a printed price as folds.               *)
SumAt(b, p, sum) == Total(b[p]) + sum

CountAt(b, p, sum) == Len(b[p]) + sum

Behinds == INSTANCE FoldTheory WITH Step <- SumAt, Choice <- Pick

Counts == INSTANCE FoldTheory WITH Step <- CountAt, Choice <- Pick

Books == [Levels -> Seq(Nat \ {0})]

LEMMA BookFolds ==
  ASSUME NEW b, NEW t
  PROVE  /\ LevelSum(b, t) = Behinds!FoldOf(b, 0, Behind(t))
         /\ Crowded(b, t) <=> Counts!FoldOf(b, 0, Behind(t)) > 1
         /\ \A S : Behinds!Chooses(S) /\ Counts!Chooses(S)
         /\ \A S : /\ Behinds!IsFiniteSet(S) <=> IsFiniteSet(S)
                   /\ Counts!IsFiniteSet(S) <=> IsFiniteSet(S)
<1>1. LevelSum(b, t) = Behinds!FoldOf(b, 0, Behind(t))
  BY DEF LevelSum, MapThenSumSet, MapThenFoldSet, Behinds!FoldOf, Behinds!IsFold, SumAt, Pick
<1>2. MapThenSumSet(LAMBDA p : Len(b[p]), Behind(t)) = Counts!FoldOf(b, 0, Behind(t))
  BY DEF MapThenSumSet, MapThenFoldSet, Counts!FoldOf, Counts!IsFold, CountAt, Pick
<1>3. Crowded(b, t) <=> Counts!FoldOf(b, 0, Behind(t)) > 1
  BY <1>2 DEF Crowded
<1>4. \A S : Behinds!Chooses(S) /\ Counts!Chooses(S)
  BY DEF Behinds!Chooses, Counts!Chooses, Pick
<1>5. \A S : /\ Behinds!IsFiniteSet(S) <=> IsFiniteSet(S)
             /\ Counts!IsFiniteSet(S) <=> IsFiniteSet(S)
  BY DEF Behinds!IsFiniteSet, Counts!IsFiniteSet, IsFiniteSet
<1>6. QED
  BY <1>1, <1>3, <1>4, <1>5

LEMMA BehindIs ==
  ASSUME NEW t \in Ticks
  PROVE  Behind(t) \in SUBSET Levels /\ IsFiniteSet(Behind(t)) /\ t \in Nat
<1>1. t \in Nat
  BY LevelIs DEF Ticks, Rounded
<1> DEFINE I == (10 * t - 5)..(10 * t + 4)
<1>2. IsFiniteSet(I)
  <2>1. 10 * t - 5 \in Int /\ 10 * t + 4 \in Int
    BY <1>1
  <2>2. QED
    BY <2>1, FS_Interval
<1>3. Behind(t) \in SUBSET I
  BY <1>1, LevelIs DEF Behind, Rounded
<1> HIDE DEF I
<1>4. IsFiniteSet(Behind(t))
  BY <1>2, <1>3, FS_Subset
<1>5. QED
  BY <1>1, <1>4 DEF Behind

LEMMA LevelIn ==
  ASSUME NEW b \in Books, NEW p \in Levels
  PROVE  /\ b[p] \in Seq(Nat \ {0}) /\ b[p] \in Seq(Nat) /\ Len(b[p]) \in Nat
         /\ b[p] = << >> <=> Len(b[p]) = 0
         /\ Total(b[p]) \in Nat
<1>1. b[p] \in Seq(Nat \ {0})
  BY DEF Books
<1>2. b[p] \in Seq(Nat)
  <2>1. \A i \in 1..Len(b[p]) : b[p][i] \in Nat
    BY <1>1, ElementOfSeq
  <2>2. QED
    BY <1>1, <2>1
<1>3. Len(b[p]) \in Nat /\ (b[p] = << >> <=> Len(b[p]) = 0)
  BY <1>1, EmptySeq, LenProperties
<1>4. QED
  BY <1>1, <1>2, <1>3, TotalOf

(* The part of a sum over the prices of S, all but p of them empty.           *)
LEMMA SumsIn ==
  ASSUME NEW b \in Books, NEW S \in SUBSET Levels, IsFiniteSet(S)
  PROVE  /\ Behinds!FoldOf(b, 0, S) \in Nat /\ Counts!FoldOf(b, 0, S) \in Nat
         /\ \A p \in S : /\ Behinds!FoldOf(b, 0, S) = Total(b[p]) + Behinds!FoldOf(b, 0, S \ {p})
                         /\ Counts!FoldOf(b, 0, S) = Len(b[p]) + Counts!FoldOf(b, 0, S \ {p})
         /\ (\A p \in S : b[p] = << >>) => Behinds!FoldOf(b, 0, S) = 0
<1>1. \A p \in S : Total(b[p]) \in Nat /\ Len(b[p]) \in Nat
  BY LevelIn
<1>2. /\ Behinds!StaysIn(S, b, Nat) /\ Behinds!Commutes(S, b, Nat)
      /\ Counts!StaysIn(S, b, Nat) /\ Counts!Commutes(S, b, Nat)
  <2>1. \A x, y, a \in Nat : x + a \in Nat /\ x + (y + a) = y + (x + a)
    OBVIOUS
  <2>2. Behinds!StaysIn(S, b, Nat) /\ Counts!StaysIn(S, b, Nat)
    BY <1>1, <2>1 DEF Behinds!StaysIn, Counts!StaysIn, SumAt, CountAt
  <2>3. Behinds!Commutes(S, b, Nat) /\ Counts!Commutes(S, b, Nat)
    BY <1>1, <2>1, Zenon DEF Behinds!Commutes, Counts!Commutes, SumAt, CountAt
  <2>4. QED
    BY <2>2, <2>3
<1>3. /\ Behinds!Chooses(S) /\ Behinds!IsFiniteSet(S)
      /\ Counts!Chooses(S) /\ Counts!IsFiniteSet(S)
  BY BookFolds
<1>4. Behinds!FoldOf(b, 0, S) \in Nat
  BY <1>2, <1>3, Behinds!FoldStays
<1>5. Counts!FoldOf(b, 0, S) \in Nat
  BY <1>2, <1>3, Counts!FoldStays
<1>6. \A p \in S : Behinds!FoldOf(b, 0, S) = SumAt(b, p, Behinds!FoldOf(b, 0, S \ {p}))
  BY <1>2, <1>3, Behinds!FoldAnyLast
<1>7. \A p \in S : Counts!FoldOf(b, 0, S) = CountAt(b, p, Counts!FoldOf(b, 0, S \ {p}))
  BY <1>2, <1>3, Counts!FoldAnyLast
<1>8. ASSUME \A p \in S : b[p] = << >> PROVE Behinds!FoldOf(b, 0, S) = 0
  <2>1. \A p \in S : Total(b[p]) = 0
    <3>1. ASSUME NEW p \in S PROVE Total(b[p]) = 0
      <4>1. b[p] \in Seq(Nat)
        BY LevelIn
      <4>2. QED
        BY <1>8, <4>1, TotalOf
    <3>2. QED
      BY <3>1
  <2>2. Behinds!StaysIn(S, b, {0})
    BY <2>1 DEF Behinds!StaysIn, SumAt
  <2>3. Behinds!FoldOf(b, 0, S) \in {0}
    BY <1>3, <2>2, Behinds!FoldStays
  <2>4. QED
    BY <2>3
<1>9. QED
  BY <1>4, <1>5, <1>6, <1>7, <1>8 DEF SumAt, CountAt

LEMMA SumNone ==
  ASSUME NEW b \in Books, NEW t \in Ticks, \A p \in Behind(t) : b[p] = << >>
  PROVE  LevelSum(b, t) = 0
BY BehindIs, SumsIn, BookFolds

LEMMA SumNat ==
  ASSUME NEW b \in Books, NEW t \in Ticks
  PROVE  LevelSum(b, t) \in Nat
BY BehindIs, SumsIn, BookFolds

LEMMA SumOne ==
  ASSUME NEW b \in Books, NEW t \in Ticks, NEW p \in Behind(t),
         \A q \in Behind(t) : q # p => b[q] = << >>
  PROVE  LevelSum(b, t) = Total(b[p])
<1> DEFINE S == Behind(t)
           R == S \ {p}
<1>1. S \in SUBSET Levels /\ IsFiniteSet(S) /\ R \in SUBSET Levels /\ IsFiniteSet(R)
  BY BehindIs, FS_RemoveElement
<1>2. \A q \in R : b[q] = << >>
  OBVIOUS
<1>3. Total(b[p]) \in Nat
  BY <1>1, LevelIn
<1>4. LevelSum(b, t) = Behinds!FoldOf(b, 0, S)
  BY BookFolds
<1>5. Behinds!FoldOf(b, 0, S) = Total(b[p]) + Behinds!FoldOf(b, 0, R)
  <2> HIDE DEF S
  <2>1. p \in S
    BY DEF S
  <2>2. QED
    BY <1>1, <2>1, SumsIn
<1> HIDE DEF S, R
<1>6. Behinds!FoldOf(b, 0, R) = 0
  BY <1>1, <1>2, SumsIn
<1>7. QED
  BY <1>3, <1>4, <1>5, <1>6

LEMMA SumSame ==
  ASSUME NEW b, NEW c, NEW t \in Ticks, \A p \in Behind(t) : b[p] = c[p]
  PROVE  LevelSum(b, t) = LevelSum(c, t)
<1> DEFINE S == Behind(t)
<1>1. Behinds!Chooses(S) /\ Behinds!IsFiniteSet(S)
  BY BehindIs, BookFolds
<1>2. Behinds!SameSteps(S, b, c)
  BY DEF Behinds!SameSteps, SumAt
<1> HIDE DEF S
<1>3. Behinds!FoldOf(b, 0, S) = Behinds!FoldOf(c, 0, S)
  BY <1>1, <1>2, Behinds!FoldSame
<1>4. QED
  BY <1>3, BookFolds DEF S

LEMMA CrowdedIs ==
  ASSUME NEW b, NEW t PROVE Crowded(b, t) \in BOOLEAN
<1> DEFINE n == MapThenSumSet(LAMBDA p : Len(b[p]), Behind(t))
<1>1. (n > 1) \in BOOLEAN
  <2> HIDE DEF n
  <2>1. QED
    OBVIOUS
<1>2. Crowded(b, t) = (n > 1)
  BY DEF Crowded
<1> HIDE DEF n
<1>3. QED
  BY <1>1, <1>2

(* A level that is not crowded holds at most one order.                      *)
LEMMA NotCrowded ==
  ASSUME NEW b \in Books, NEW t \in Ticks, ~Crowded(b, t), NEW p \in Behind(t), b[p] # << >>
  PROVE  Len(b[p]) = 1 /\ \A q \in Behind(t) : q # p => b[q] = << >>
<1> DEFINE S == Behind(t)
           R == S \ {p}
<1>1. S \in SUBSET Levels /\ IsFiniteSet(S) /\ R \in SUBSET Levels /\ IsFiniteSet(R) /\ p \in S
  BY BehindIs, FS_RemoveElement
<1>2. ~(Counts!FoldOf(b, 0, S) > 1)
  BY BookFolds
<1>3. \A q \in S : Len(b[q]) \in Nat /\ (b[q] = << >> <=> Len(b[q]) = 0)
  BY <1>1, LevelIn
<1> HIDE DEF S
<1>4. /\ Counts!FoldOf(b, 0, S) = Len(b[p]) + Counts!FoldOf(b, 0, R)
      /\ Counts!FoldOf(b, 0, R) \in Nat /\ Counts!FoldOf(b, 0, S) \in Nat
  BY <1>1, SumsIn
<1>5. Len(b[p]) = 1 /\ Counts!FoldOf(b, 0, R) = 0
  <2>1. Len(b[p]) \in Nat /\ Len(b[p]) # 0
    <3>1. Len(b[p]) \in Nat /\ (b[p] = << >> <=> Len(b[p]) = 0)
      BY <1>1, <1>3
    <3>2. QED
      BY <3>1
  <2> HIDE DEF R
  <2>2. \A x, y, z \in Nat : ~(x > 1) /\ x = y + z /\ y # 0 => y = 1 /\ z = 0
    OBVIOUS
  <2>3. QED
    BY <1>2, <1>4, <2>1, <2>2, Zenon
<1>6. ASSUME NEW q \in R PROVE b[q] = << >>
  <2> DEFINE Q == R \ {q}
  <2>1. Q \in SUBSET Levels /\ IsFiniteSet(Q)
    BY <1>1, FS_RemoveElement
  <2>2. Counts!FoldOf(b, 0, R) = Len(b[q]) + Counts!FoldOf(b, 0, Q)
    <3> HIDE DEF R
    <3>1. QED
      BY <1>1, <1>6, SumsIn
  <2> HIDE DEF Q, R
  <2>3. Counts!FoldOf(b, 0, Q) \in Nat
    BY <2>1, SumsIn
  <2>4. q \in S
    BY <1>6 DEF R
  <2>5. QED
    BY <1>3, <1>5, <2>2, <2>3, <2>4
<1>7. QED
  BY <1>5, <1>6 DEF S

-----------------------------------------------------------------------------
(* Types.                                                                   *)

LEMMA RoundedIn == \A p \in Levels : Rounded(p) \in Ticks
BY DEF Ticks

LEMMA WorkerIs ==
  ASSUME NEW w \in WorkerStates
  PROVE  /\ w.pc \in {"idle", "publish", "deliver"}
         /\ w.pc # "idle" => w.blurs \in BOOLEAN /\ w.entry \in Entry
         /\ w.pc = "publish" => w.price \in Levels
         /\ w.pc = "deliver" => w.targets \in SUBSET Session
BY DEF WorkerStates, IdleWorker

LEMMA WorkerMade ==
  ASSUME NEW e \in Entry, NEW b \in BOOLEAN
  PROVE  /\ \A p \in Levels :
              [pc |-> "publish", price |-> p, blurs |-> b, entry |-> e] \in WorkerStates
         /\ \A T \in SUBSET Session :
              [pc |-> "deliver", blurs |-> b, entry |-> e, targets |-> T] \in WorkerStates
BY DEF WorkerStates

LEMMA IoIs ==
  ASSUME NEW i \in IoStates
  PROVE  /\ i.pc = "walk" => /\ i.session \in Session /\ i.symbol \in Symbols
                             /\ i.left \in SUBSET Levels /\ i.entries \in Seq(Quote)
                             /\ i \in [pc : {"walk"}, session : Session, symbol : Symbols,
                                       left : SUBSET Levels, entries : Seq(Quote)]
         /\ i.pc = "unsubscribe" => i.session \in Session
BY DEF IoStates, IdleIo

LEMMA MessageIs ==
  ASSUME NEW m \in Snapshot \cup Refresh
  PROVE  /\ m.symbol \in Symbols /\ m # NoMessage /\ m.type \in {"W", "X"}
         /\ m.type = "W" => m.entries \in Seq(Quote)
         /\ m.type = "X" => m.entry \in Entry
<1>1. m.type \in {"W", "X"} /\ NoMessage.type = "none"
  BY DEF Snapshot, Refresh, NoMessage
<1>2. m # NoMessage
  BY <1>1
<1>3. QED
  BY <1>1, <1>2 DEF Snapshot, Refresh

Blurs == [Session -> [Symbols -> SUBSET Ticks]]

LEMMA BlurTypes ==
  ASSUME NEW s \in Symbols, blur \in Blurs, subs \in [Symbols -> SUBSET Session]
  PROVE  /\ \A t \in Ticks : Blurred(s, t) \in Blurs
         /\ \A k \in Session : \A X \in SUBSET Ticks : [blur EXCEPT ![k][s] = X] \in Blurs
<1>1. ASSUME NEW k \in Session, NEW X \in SUBSET Ticks
      PROVE  [blur[k] EXCEPT ![s] = X] \in [Symbols -> SUBSET Ticks]
  <2>1. blur[k] \in [Symbols -> SUBSET Ticks]
    BY DEF Blurs
  <2>2. QED
    BY <2>1
<1>2. ASSUME NEW t \in Ticks PROVE Blurred(s, t) \in Blurs
  <2>1. ASSUME NEW k \in Session
        PROVE  /\ blur[k] \in [Symbols -> SUBSET Ticks]
               /\ [blur[k] EXCEPT ![s] = @ \cup {t}] \in [Symbols -> SUBSET Ticks]
    <3>1. blur[k] \in [Symbols -> SUBSET Ticks]
      BY DEF Blurs
    <3>2. blur[k][s] \cup {t} \in SUBSET Ticks
      BY <3>1
    <3>3. QED
      BY <1>1, <3>1, <3>2
  <2>2. QED
    BY <2>1 DEF Blurred, Blurs
<1>3. ASSUME NEW k \in Session, NEW X \in SUBSET Ticks
      PROVE  [blur EXCEPT ![k][s] = X] \in Blurs
  BY <1>1 DEF Blurs
<1>4. QED
  BY <1>2, <1>3

(* One level of one book changes.                                            *)
LEMMA BookChanged ==
  ASSUME book \in [Symbols -> Books], FewLevels, NEW s \in Symbols, NEW p \in Levels,
         NEW level \in Seq(Nat \ {0}), book' = [book EXCEPT ![s][p] = level]
  PROVE  book' \in [Symbols -> Books] /\ FewLevels'
<1>1. book[s] \in Books
  OBVIOUS
<1>2. [book[s] EXCEPT ![p] = level] \in Books
  BY <1>1 DEF Books
<1>3. book' = [book EXCEPT ![s] = [book[s] EXCEPT ![p] = level]]
  OBVIOUS
<1>4. book' \in [Symbols -> Books]
  BY <1>2, <1>3
<1>5. ASSUME NEW u \in Symbols
      PROVE  IsFiniteSet({q \in Levels : book'[u][q] # << >>})
  <2> DEFINE old == {q \in Levels : book[u][q] # << >>}
             new == {q \in Levels : book'[u][q] # << >>}
  <2>1. IsFiniteSet(old)
    BY DEF FewLevels
  <2>2. \A q \in Levels : q = p \/ book'[u][q] = book[u][q]
    BY <1>1, <1>3 DEF Books
  <2>3. new \in SUBSET (old \cup {p})
    BY <2>2
  <2> HIDE DEF old, new
  <2>4. IsFiniteSet(old \cup {p})
    BY <2>1, FS_AddElement
  <2>5. IsFiniteSet(new)
    BY <2>3, <2>4, FS_Subset
  <2>6. QED
    BY <2>5 DEF new
<1>6. QED
  BY <1>4, <1>5 DEF FewLevels

LEMMA LevelEdits ==
  ASSUME NEW level \in Seq(Nat \ {0})
  PROVE  /\ \A q \in Nat \ {0} : Append(level, q) \in Seq(Nat \ {0})
         /\ \A i \in DOMAIN level : RemoveAt(level, i) \in Seq(Nat \ {0}) /\ level[i] \in Nat \ {0}
         /\ level # << >> =>
              /\ Head(level) \in Nat \ {0} /\ Tail(level) \in Seq(Nat \ {0})
              /\ \A q \in 1..Head(level) : q # Head(level) =>
                   [level EXCEPT ![1] = @ - q] \in Seq(Nat \ {0})
<1>1. \A q \in Nat \ {0} : Append(level, q) \in Seq(Nat \ {0})
  BY AppendProperties
<1>2. DOMAIN level = 1..Len(level) /\ Len(level) \in Nat
  BY LenProperties
<1>3. ASSUME NEW i \in DOMAIN level
      PROVE  RemoveAt(level, i) \in Seq(Nat \ {0}) /\ level[i] \in Nat \ {0}
  <2>1. i \in 1..Len(level) /\ \A j \in 1..Len(level) : level[j] \in Nat \ {0}
    BY <1>2, ElementOfSeq
  <2>2. /\ SubSeq(level, 1, i - 1) \in Seq(Nat \ {0})
        /\ SubSeq(level, i + 1, Len(level)) \in Seq(Nat \ {0})
    BY <1>2, <2>1, SubSeqProperties
  <2>3. SubSeq(level, 1, i - 1) \o SubSeq(level, i + 1, Len(level)) \in Seq(Nat \ {0})
    BY <2>2, ConcatProperties
  <2>4. QED
    BY <2>1, <2>3 DEF RemoveAt
<1>4. ASSUME level # << >>
      PROVE  /\ Head(level) \in Nat \ {0} /\ Tail(level) \in Seq(Nat \ {0})
             /\ \A q \in 1..Head(level) : q # Head(level) =>
                  [level EXCEPT ![1] = @ - q] \in Seq(Nat \ {0})
  <2>1. Head(level) \in Nat \ {0} /\ Tail(level) \in Seq(Nat \ {0}) /\ Len(level) # 0
        /\ Head(level) = level[1]
    BY <1>4, HeadTailProperties, EmptySeq
  <2>2. ASSUME NEW q \in 1..Head(level), q # Head(level)
        PROVE  [level EXCEPT ![1] = @ - q] \in Seq(Nat \ {0})
    <3>1. level[1] - q \in Nat \ {0} /\ 1 \in 1..Len(level)
      BY <1>2, <2>1, <2>2
    <3>2. QED
      BY <3>1, ExceptSeq
  <2>3. QED
    BY <2>1, <2>2
<1>5. QED
  BY <1>1, <1>3, <1>4

LEMMA PublishingTypes ==
  ASSUME worker \in [Symbols -> WorkerStates], blur \in Blurs,
         subs \in [Symbols -> SUBSET Session], NEW s \in Symbols,
         NEW action \in {"New", "Delete"}, NEW p \in Levels, NEW q \in Nat,
         NEW b \in BOOLEAN, Publishing(s, action, p, q, b)
  PROVE  worker' \in [Symbols -> WorkerStates] /\ blur' \in Blurs
<1> DEFINE e == [action |-> action, tick |-> Rounded(p), size |-> q]
           w == [pc |-> "publish", price |-> p, blurs |-> b, entry |-> e]
<1>1. e \in Entry
  BY RoundedIn DEF Entry
<1> HIDE DEF e
<1>2. w \in WorkerStates
  BY <1>1, WorkerMade
<1>3. worker' = [worker EXCEPT ![s] = w]
  BY DEF Publishing, e
<1> HIDE DEF w
<1>4. worker' \in [Symbols -> WorkerStates]
  BY <1>2, <1>3
<1>5. blur' = IF b THEN Blurred(s, Rounded(p)) ELSE blur
  BY DEF Publishing
<1>6. blur' \in Blurs
  BY <1>5, BlurTypes, RoundedIn
<1>7. QED
  BY <1>4, <1>6

LEMMA RemainingTypes ==
  ASSUME worker \in [Symbols -> WorkerStates], NEW s \in Symbols, worker[s].pc # "idle",
         NEW T \in SUBSET Session, Remaining(s, T)
  PROVE  worker' \in [Symbols -> WorkerStates]
<1>1. worker[s].blurs \in BOOLEAN /\ worker[s].entry \in Entry
  BY WorkerIs
<1> DEFINE w == IF T = {} THEN IdleWorker
                ELSE [pc |-> "deliver", blurs |-> worker[s].blurs, entry |-> worker[s].entry,
                      targets |-> T]
<1>2. w \in WorkerStates
  <2>1. IdleWorker \in WorkerStates
    BY DEF WorkerStates
  <2>2. QED
    BY <1>1, <2>1, WorkerMade
<1>3. worker' = [worker EXCEPT ![s] = w]
  BY DEF Remaining
<1> HIDE DEF w
<1>4. QED
  BY <1>2, <1>3

Wire == [Session -> Seq(Snapshot \cup Refresh)]

LEMMA WriteTypes ==
  ASSUME down \in Wire, NEW k \in Session, NEW m \in Snapshot \cup Refresh, Write(k, m)
  PROVE  down' \in Wire
<1>1. down[k] \in Seq(Snapshot \cup Refresh)
  BY DEF Wire
<1>2. Append(down[k], m) \in Seq(Snapshot \cup Refresh)
  BY <1>1, AppendProperties
<1>3. down' = down \/ down' = [down EXCEPT ![k] = Append(down[k], m)]
  BY DEF Write
<1>4. QED
  BY <1>2, <1>3 DEF Wire

(* The parts of the type invariant that are not in SubscriptionsInv.         *)
BookTypes(b, w) == b \in [Symbols -> Books] /\ w \in [Symbols -> WorkerStates]

ClientTypes(c, u, st, sh, n) ==
  /\ c \in States
  /\ u \in [pc : {"buttons", "sync", "market", "swap"}, seen : States]
  /\ st \in {"Disconnected", "Ready", "Subscribed"}
  /\ sh \in [symbol : Symbols, levels : [Ticks -> Nat]]
  /\ n \in Snapshot \cup Refresh \cup {NoMessage}

LEMMA TypesAre ==
  /\ MarketTypeOK /\ SubscriptionsInv <=>
       /\ SubscriptionsInv /\ CandlesTypeOK /\ BookTypes(book, worker) /\ io \in IoStates
       /\ down \in Wire /\ blur \in Blurs /\ ClientTypes(cstate, ui, status, shown, net)
  /\ (MarketTypeOK /\ SubscriptionsInv)' <=>
       /\ SubscriptionsInv' /\ CandlesTypeOK' /\ BookTypes(book', worker') /\ io' \in IoStates
       /\ down' \in Wire /\ blur' \in Blurs /\ ClientTypes(cstate', ui', status', shown', net')
BY DEF MarketTypeOK, SubscriptionsInv, BookTypes, ClientTypes, Wire, Blurs, Books

LEMMA OnTradeTypes ==
  ASSUME CandlesTypeOK, NEW s \in Symbols, NEW p \in Levels, NEW q \in Nat, NEW now \in Nat,
         onTrade(s, p, q, now)
  PROVE  CandlesTypeOK'
<1>1. \A x \in Symbols \X Intervals :
        /\ agg[x] \in Candle \cup {Inactive} /\ rows[x] \in SUBSET Candle
        /\ agg'[x] = IF x[1] = s THEN updateAggregate(agg[x], x[2], p, q, now) ELSE agg[x]
        /\ rows'[x] = IF x[1] = s THEN Saved(rows[x], agg[x], x[2], now) ELSE rows[x]
  BY DEF CandlesTypeOK, onTrade, Saved
<1>2. ASSUME NEW x \in Symbols \X Intervals
      PROVE  agg'[x] \in Candle \cup {Inactive} /\ rows'[x] \in SUBSET Candle
  <2>1. x[2] \in Intervals
    OBVIOUS
  <2>2. agg[x] \in Candle \cup {Inactive} /\ rows[x] \in SUBSET Candle
    BY <1>1
  <2>3. /\ updateAggregate(agg[x], x[2], p, q, now) \in Candle
        /\ Saved(rows[x], agg[x], x[2], now) \in SUBSET Candle
    BY <2>1, <2>2, UpdateType
  <2>4. QED
    BY <1>1, <2>2, <2>3
<1>3. /\ agg' = [x \in Symbols \X Intervals |-> agg'[x]]
      /\ rows' = [x \in Symbols \X Intervals |-> rows'[x]]
  BY DEF onTrade
<1>4. QED
  BY <1>2, <1>3 DEF CandlesTypeOK

(* An update that reaches the aggregator.                                     *)
LEMMA Aggregated ==
  ASSUME worker \in [Symbols -> WorkerStates], NEW s \in Symbols, publishIncremental(s),
         ~UNCHANGED candleVars
  PROVE  \E p \in Levels, q \in Nat, now \in Nat : onTrade(s, p, q, now)
<1>1. worker[s].pc = "publish"
  BY DEF publishIncremental
<1>2. PICK now \in Clock : onTrade(s, worker[s].price, worker[s].entry.size, now)
  BY DEF publishIncremental, GeneralSubscriber
<1>3. worker[s].price \in Levels /\ worker[s].entry \in Entry
  BY <1>1, WorkerIs
<1>4. worker[s].entry.size \in Nat /\ now \in Nat
  BY <1>3, CandlesAssumption DEF Entry
<1>5. QED
  BY <1>2, <1>3, <1>4

LEMMA WorkerTypes ==
  ASSUME MarketTypeOK, SubscriptionsInv, FewLevels, WorkerStep
  PROVE  MarketTypeOK' /\ FewLevels'
<1>1. /\ SubscriptionsInv /\ CandlesTypeOK /\ BookTypes(book, worker) /\ io \in IoStates
      /\ down \in Wire /\ blur \in Blurs /\ ClientTypes(cstate, ui, status, shown, net)
  BY TypesAre
<1>2. /\ UNCHANGED <<io, cstate, ui, status, shown, net, up, subs, registered, session, symbol>>
      /\ SubscriptionsInv'
  <2>1. UNCHANGED <<io, cstate, ui, status, shown, net, up, subs, registered, session, symbol>>
    BY DEF WorkerStep, Insert, Cancel, Trade, publishIncremental, Deliver, serverVars, clientVars
  <2>2. QED
    BY <2>1, <1>1, InvIs
<1> DEFINE Typed == /\ CandlesTypeOK' /\ BookTypes(book', worker')
                    /\ down' \in Wire /\ blur' \in Blurs /\ FewLevels'
<1>3. SUFFICES Typed
  BY <1>1, <1>2, TypesAre
<1>4. /\ book \in [Symbols -> Books] /\ worker \in [Symbols -> WorkerStates]
      /\ subs \in [Symbols -> SUBSET Session]
  BY <1>1 DEF BookTypes, SubscriptionsInv
<1>5. UNCHANGED candleVars => CandlesTypeOK'
  BY <1>1 DEF candleVars, CandlesTypeOK
<1>6. ASSUME NEW s \in Symbols, NEW p \in Levels, NEW q \in Sizes, Insert(s, p, q)
      PROVE  Typed
  <2>1. /\ book' = [book EXCEPT ![s][p] = Append(@, q)] /\ UNCHANGED <<candleVars, down>>
        /\ Publishing(s, "New", p, q, Crowded(book'[s], Rounded(p)))
    BY <1>6 DEF Insert
  <2>2. q \in Nat \ {0}
    BY CandlesAssumption
  <2>3. Append(book[s][p], q) \in Seq(Nat \ {0})
    <3>1. book[s][p] \in Seq(Nat \ {0})
      BY <1>4 DEF Books
    <3>2. QED
      BY <2>2, <3>1, LevelEdits
  <2>4. book' = [book EXCEPT ![s][p] = Append(book[s][p], q)]
    BY <2>1, <1>4
  <2>5. book' \in [Symbols -> Books] /\ FewLevels'
    BY <1>4, <2>3, <2>4, BookChanged
  <2>6. Crowded(book'[s], Rounded(p)) \in BOOLEAN
    BY CrowdedIs
  <2>7. worker' \in [Symbols -> WorkerStates] /\ blur' \in Blurs
    BY <1>1, <1>4, <2>1, <2>2, <2>6, PublishingTypes
  <2>8. QED
    BY <1>1, <1>5, <2>1, <2>5, <2>7 DEF BookTypes
<1>7. ASSUME NEW s \in Symbols, NEW p \in Levels, NEW i \in DOMAIN book[s][p], Cancel(s, p, i)
      PROVE  Typed
  <2>1. /\ book' = [book EXCEPT ![s][p] = RemoveAt(@, i)] /\ UNCHANGED <<candleVars, down>>
        /\ Publishing(s, "Delete", p, book[s][p][i], Crowded(book[s], Rounded(p)))
    BY <1>7 DEF Cancel
  <2>2. RemoveAt(book[s][p], i) \in Seq(Nat \ {0}) /\ book[s][p][i] \in Nat
    <3>1. book[s][p] \in Seq(Nat \ {0})
      BY <1>4 DEF Books
    <3>2. QED
      BY <3>1, LevelEdits
  <2>3. book' = [book EXCEPT ![s][p] = RemoveAt(book[s][p], i)]
    BY <2>1, <1>4
  <2>4. book' \in [Symbols -> Books] /\ FewLevels'
    BY <1>4, <2>2, <2>3, BookChanged
  <2>5. Crowded(book[s], Rounded(p)) \in BOOLEAN
    BY CrowdedIs
  <2>6. worker' \in [Symbols -> WorkerStates] /\ blur' \in Blurs
    BY <1>1, <1>4, <2>1, <2>2, <2>5, PublishingTypes
  <2>7. QED
    BY <1>1, <1>5, <2>1, <2>4, <2>6 DEF BookTypes
<1>8. ASSUME NEW s \in Symbols, NEW p \in Levels, Trade(s, p)
      PROVE  Typed
  <2>1. /\ book[s][p] # << >> /\ UNCHANGED <<candleVars, down, worker>>
        /\ blur' = Blurred(s, Rounded(p))
    BY <1>8 DEF Trade
  <2>2. PICK q \in 1..Head(book[s][p]) : book' = [book EXCEPT ![s][p] = Filled(@, q)]
    BY <1>8 DEF Trade
  <2> DEFINE level == Filled(book[s][p], q)
  <2>3. level \in Seq(Nat \ {0})
    <3>1. book[s][p] \in Seq(Nat \ {0})
      BY <1>4 DEF Books
    <3>2. QED
      BY <2>1, <3>1, LevelEdits DEF Filled
  <2>4. book' = [book EXCEPT ![s][p] = level]
    BY <2>2, <1>4
  <2> HIDE DEF level
  <2>5. book' \in [Symbols -> Books] /\ FewLevels'
    BY <1>4, <2>3, <2>4, BookChanged
  <2>6. blur' \in Blurs
    BY <1>1, <1>4, <2>1, BlurTypes, RoundedIn
  <2>7. QED
    BY <1>1, <1>4, <1>5, <2>1, <2>5, <2>6 DEF BookTypes
<1>9. ASSUME NEW s \in Symbols, publishIncremental(s)
      PROVE  Typed
  <2>1. /\ worker[s].pc = "publish" /\ Remaining(s, subs[s]) /\ UNCHANGED <<book, down, blur>>
    BY <1>9 DEF publishIncremental
  <2>2. worker' \in [Symbols -> WorkerStates]
    BY <1>4, <2>1, RemainingTypes
  <2>3. CandlesTypeOK'
    BY <1>1, <1>4, <1>5, <1>9, Aggregated, OnTradeTypes
  <2>4. QED
    BY <1>1, <1>4, <2>1, <2>2, <2>3 DEF BookTypes, FewLevels
<1>10. ASSUME NEW s \in Symbols, NEW k \in Session, Deliver(s, k)
       PROVE  Typed
  <2>1. /\ worker[s].pc = "deliver" /\ k \in worker[s].targets
        /\ Remaining(s, worker[s].targets \ {k}) /\ UNCHANGED <<book, candleVars>>
        /\ \/ Write(k, [type |-> "X", symbol |-> s, entry |-> worker[s].entry])
           \/ UNCHANGED down
        /\ \/ blur' = [blur EXCEPT ![k][s] = @ \cup {worker[s].entry.tick}]
           \/ UNCHANGED blur
    BY <1>10 DEF Deliver
  <2>2. worker[s].targets \in SUBSET Session /\ worker[s].entry \in Entry
    BY <1>4, <2>1, WorkerIs
  <2>3. worker' \in [Symbols -> WorkerStates]
    BY <1>4, <2>1, <2>2, RemainingTypes
  <2>4. [type |-> "X", symbol |-> s, entry |-> worker[s].entry] \in Snapshot \cup Refresh
    BY <2>2 DEF Refresh
  <2>5. down' \in Wire
    BY <1>1, <2>1, <2>4, WriteTypes
  <2>6. worker[s].entry.tick \in Ticks /\ blur[k][s] \in SUBSET Ticks
    BY <1>1, <2>2 DEF Entry, Blurs
  <2>7. blur[k][s] \cup {worker[s].entry.tick} \in SUBSET Ticks
    BY <2>6
  <2>8. [blur EXCEPT ![k][s] = blur[k][s] \cup {worker[s].entry.tick}] \in Blurs
    BY <1>1, <1>4, <2>7, BlurTypes
  <2>9. blur' \in Blurs
    BY <1>1, <2>1, <2>8
  <2>10. QED
    BY <1>1, <1>4, <1>5, <2>1, <2>3, <2>5, <2>9 DEF BookTypes, FewLevels
<1>11. QED
  BY <1>6, <1>7, <1>8, <1>9, <1>10 DEF WorkerStep

LEMMA OthersKeepBooks ==
  ASSUME IoStep \/ UiStep \/ NetStep \/ UNCHANGED marketVars
  PROVE  UNCHANGED <<worker, book, candleVars>>
<1>1. IoStep => UNCHANGED <<worker, book, candleVars>>
  BY DEF IoStep, Subscribe, Unsubscribe, unregisterSession, WalkLevel, WriteSnapshot,
     removeSubscription, bookVars
<1>2. UiStep => UNCHANGED <<worker, book, candleVars>>
  BY DEF UiStep, Buttons, Sync, PressUnsubscribe, PressSubscribe, NoClick, SwapBook,
     selectSymbol, unchangedByUi, bookVars
<1>3. NetStep => UNCHANGED <<worker, book, candleVars>>
  BY DEF NetStep, ConnectionUp, LoggedOn, LoggedOut, CheckSymbol, Apply, unchangedByNet, bookVars
<1>4. UNCHANGED marketVars => UNCHANGED <<worker, book, candleVars>>
  BY DEF marketVars, bookVars
<1>5. QED
  BY <1>1, <1>2, <1>3, <1>4

(* The level the walk finds next.                                             *)
Found == {p \in io.left : book[io.symbol][p] # << >>}

LEMMA FoundIs ==
  ASSUME io \in IoStates, io.pc = "walk", book \in [Symbols -> Books], FewLevels, Found # {}
  PROVE  /\ Max(Found) \in Found /\ \A p \in Found : p <= Max(Found)
         /\ Max(Found) \in Levels /\ Total(book[io.symbol][Max(Found)]) \in Nat
<1> DEFINE full == {p \in Levels : book[io.symbol][p] # << >>}
<1>1. io.symbol \in Symbols /\ io.left \in SUBSET Levels
  BY IoIs
<1>2. IsFiniteSet(full)
  BY <1>1 DEF FewLevels
<1>3. Found \in SUBSET full
  BY <1>1 DEF Found
<1> HIDE DEF full
<1>4. IsFiniteSet(Found)
  BY <1>2, <1>3, FS_Subset
<1>5. Found \in SUBSET Levels
  BY <1>1 DEF Found
<1>6. Found \in SUBSET Int
  BY <1>5, LevelIs
<1>7. Max(Found) \in Found /\ \A p \in Found : p <= Max(Found)
  BY <1>4, <1>6, HasGreatest
<1>8. Max(Found) \in Levels
  BY <1>5, <1>7
<1>9. book[io.symbol] \in Books
  BY <1>1
<1>10. QED
  BY <1>7, <1>8, <1>9, LevelIn

(* What the walk notes of that level.                                         *)
LEMMA WalkIs ==
  ASSUME io \in IoStates, book \in [Symbols -> Books], FewLevels, WalkLevel
  PROVE  LET m == Max(Found)
             e == [tick |-> Rounded(m), size |-> Total(book[io.symbol][m])]
         IN  /\ io.pc = "walk" /\ m \in Found /\ m \in Levels /\ e \in Quote
             /\ \A p \in Found : p <= m
             /\ io' = [pc |-> "walk", session |-> io.session, symbol |-> io.symbol,
                       left |-> {p \in io.left : p < m}, entries |-> Append(io.entries, e)]
<1> DEFINE m == Max(Found)
           e == [tick |-> Rounded(m), size |-> Total(book[io.symbol][m])]
           l == {p \in io.left : p < m}
           s == Append(io.entries, e)
<1>1. io.pc = "walk" /\ Found # {} /\ io' = [io EXCEPT !.left = l, !.entries = s]
  BY DEF WalkLevel, Found
<1>2. m \in Found /\ m \in Levels /\ Total(book[io.symbol][m]) \in Nat /\ \A p \in Found : p <= m
  BY <1>1, FoundIs
<1>3. e \in Quote
  BY <1>2, RoundedIn DEF Quote
<1>4. io \in [pc : {"walk"}, session : Session, symbol : Symbols, left : SUBSET Levels,
              entries : Seq(Quote)]
  BY <1>1, IoIs
<1> HIDE DEF l, s
<1>5. io' = [pc |-> "walk", session |-> io.session, symbol |-> io.symbol, left |-> l,
             entries |-> s]
  BY <1>1, <1>4
<1>6. QED
  BY <1>1, <1>2, <1>3, <1>5 DEF l, s

LEMMA IoTypes ==
  ASSUME MarketTypeOK, SubscriptionsInv, FewLevels, IoStep
  PROVE  MarketTypeOK' /\ FewLevels'
<1>1. /\ SubscriptionsInv /\ CandlesTypeOK /\ BookTypes(book, worker) /\ io \in IoStates
      /\ down \in Wire /\ blur \in Blurs /\ ClientTypes(cstate, ui, status, shown, net)
  BY TypesAre
<1>2. /\ UNCHANGED <<worker, book, candleVars, cstate, ui, status, shown, net>>
      /\ SubscriptionsInv'
  <2>1. UNCHANGED <<cstate, ui, status, shown, net>>
    BY DEF IoStep, Subscribe, Unsubscribe, unregisterSession, WalkLevel, WriteSnapshot,
       removeSubscription, clientVars
  <2>2. QED
    BY <2>1, IoKeeps, OthersKeepBooks
<1> DEFINE Typed == io' \in IoStates /\ down' \in Wire /\ blur' \in Blurs
<1>3. SUFFICES Typed
  <2>1. CandlesTypeOK' /\ FewLevels'
    BY <1>1, <1>2 DEF candleVars, CandlesTypeOK, FewLevels
  <2>2. QED
    BY <1>1, <1>2, <2>1, TypesAre
<1>4. /\ subs \in [Symbols -> SUBSET Session] /\ up \in [Session -> Seq(Request)]
      /\ book \in [Symbols -> Books]
  BY <1>1 DEF SubscriptionsInv, BookTypes
<1>5. IdleIo \in IoStates /\ \A k \in Session : [pc |-> "unsubscribe", session |-> k] \in IoStates
  BY DEF IoStates
<1>6. ASSUME NEW k \in Session, Subscribe(k) PROVE Typed
  <2> DEFINE s == Head(up[k]).symbol
             i == [pc |-> "walk", session |-> k, symbol |-> s, left |-> Levels, entries |-> << >>]
             X == {t \in Ticks : worker[s].pc # "idle" /\ worker[s].blurs /\ worker[s].entry.tick = t}
                    \cup {t \in Ticks : Cardinality({p \in Behind(t) : book[s][p] # << >>}) > 1}
  <2>1. io' = i /\ blur' = [blur EXCEPT ![k][s] = X] /\ down' = down
    BY <1>6 DEF Subscribe
  <2>2. s \in Symbols
    <3>1. Head(up[k]) \in Request
      BY <1>4, <1>6, RequestTaken DEF Subscribe
    <3>2. QED
      BY <3>1 DEF Request
  <2>3. X \in SUBSET Ticks
    OBVIOUS
  <2> HIDE DEF s, X
  <2>4. << >> \in Seq(Quote)
    BY EmptySeq
  <2>5. i \in IoStates
    BY <2>2, <2>4 DEF IoStates
  <2> HIDE DEF i
  <2>6. blur' \in Blurs
    BY <1>1, <1>4, <2>1, <2>2, <2>3, BlurTypes
  <2>7. QED
    BY <1>1, <2>1, <2>5, <2>6
<1>7. ASSUME NEW k \in Session, Unsubscribe(k) PROVE Typed
  <2>1. Head(up[k]) \in Request
    BY <1>4, <1>7, RequestTaken DEF Unsubscribe
  <2>2. Head(up[k]).symbol \in Symbols
    BY <2>1 DEF Request
  <2>3. blur' = [blur EXCEPT ![k][Head(up[k]).symbol] = {}] /\ UNCHANGED <<io, down>>
    BY <1>7 DEF Unsubscribe
  <2>4. blur' \in Blurs
    BY <1>1, <1>4, <2>2, <2>3, BlurTypes
  <2>5. QED
    BY <1>1, <2>3, <2>4
<1>8. ASSUME NEW k \in Session, unregisterSession(k) PROVE Typed
  BY <1>1, <1>5, <1>8 DEF unregisterSession
<1>9. CASE WalkLevel
  <2> DEFINE m == Max(Found)
             e == [tick |-> Rounded(m), size |-> Total(book[io.symbol][m])]
             l == {p \in io.left : p < m}
  <2>1. /\ io.pc = "walk" /\ e \in Quote
        /\ io' = [pc |-> "walk", session |-> io.session, symbol |-> io.symbol, left |-> l,
                  entries |-> Append(io.entries, e)]
    BY <1>1, <1>4, <1>9, WalkIs
  <2>2. /\ io.session \in Session /\ io.symbol \in Symbols /\ io.left \in SUBSET Levels
        /\ io.entries \in Seq(Quote)
    BY <1>1, <2>1, IoIs
  <2>3. l \in SUBSET Levels
    BY <2>2
  <2> HIDE DEF l, e
  <2>4. Append(io.entries, e) \in Seq(Quote)
    BY <2>1, <2>2, AppendProperties
  <2>5. io' \in IoStates
    BY <2>1, <2>2, <2>3, <2>4 DEF IoStates
  <2>6. UNCHANGED <<down, blur>>
    BY <1>9 DEF WalkLevel
  <2>7. QED
    BY <1>1, <2>5, <2>6
<1>10. CASE WriteSnapshot
  <2>1. /\ io.pc = "walk" /\ io' = IdleIo /\ UNCHANGED blur
        /\ Write(io.session, [type |-> "W", symbol |-> io.symbol, entries |-> io.entries])
    BY <1>10 DEF WriteSnapshot
  <2>2. io.session \in Session /\ io.symbol \in Symbols /\ io.entries \in Seq(Quote)
    BY <1>1, <2>1, IoIs
  <2>3. [type |-> "W", symbol |-> io.symbol, entries |-> io.entries] \in Snapshot \cup Refresh
    BY <2>2 DEF Snapshot
  <2>4. down' \in Wire
    BY <1>1, <2>1, <2>2, <2>3, WriteTypes
  <2>5. QED
    BY <1>1, <1>5, <2>1, <2>4
<1>11. CASE removeSubscription
  <2>1. /\ io.pc = "unsubscribe" /\ io' = IdleIo /\ UNCHANGED down
        /\ blur' = [blur EXCEPT ![io.session] = [s \in Symbols |-> {}]]
    BY <1>11 DEF removeSubscription
  <2>2. [s \in Symbols |-> {}] \in [Symbols -> SUBSET Ticks]
    OBVIOUS
  <2>3. blur' \in Blurs
    BY <1>1, <2>1, <2>2 DEF Blurs
  <2>4. QED
    BY <1>1, <1>5, <2>1, <2>3
<1>12. QED
  BY <1>6, <1>7, <1>8, <1>9, <1>10, <1>11 DEF IoStep

LEMMA UiTypes ==
  ASSUME MarketTypeOK, SubscriptionsInv, FewLevels, UiStep
  PROVE  MarketTypeOK' /\ FewLevels'
<1>1. /\ SubscriptionsInv /\ CandlesTypeOK /\ BookTypes(book, worker) /\ io \in IoStates
      /\ down \in Wire /\ blur \in Blurs /\ ClientTypes(cstate, ui, status, shown, net)
  BY TypesAre
<1>2. UNCHANGED <<worker, book, candleVars, io, net, blur>> /\ SubscriptionsInv'
  <2>1. UNCHANGED <<io, net, blur>>
    BY DEF UiStep, Buttons, Sync, PressUnsubscribe, PressSubscribe, NoClick, SwapBook,
       selectSymbol, unchangedByUi, serverVars
  <2>2. QED
    BY <2>1, UiKeeps, OthersKeepBooks
<1> DEFINE Typed == down' \in Wire /\ ClientTypes(cstate', ui', status', shown', net')
<1>3. SUFFICES Typed
  <2>1. CandlesTypeOK' /\ FewLevels'
    BY <1>1, <1>2 DEF candleVars, CandlesTypeOK, FewLevels
  <2>2. QED
    BY <1>1, <1>2, <2>1, TypesAre
<1>4. /\ cstate \in States /\ ui \in [pc : {"buttons", "sync", "market", "swap"}, seen : States]
      /\ status \in {"Disconnected", "Ready", "Subscribed"} /\ symbol \in Symbols
      /\ shown \in [symbol : Symbols, levels : [Ticks -> Nat]]
      /\ net' \in Snapshot \cup Refresh \cup {NoMessage}
  BY <1>1, <1>2 DEF ClientTypes, SubscriptionsInv
<1>5. NewFrame \in [pc : {"buttons", "sync", "market", "swap"}, seen : States]
  BY DEF NewFrame, States
<1>6. ASSUME NEW pc \in {"buttons", "sync", "market", "swap"}, ui' = [ui EXCEPT !.pc = pc]
      PROVE  ui' \in [pc : {"buttons", "sync", "market", "swap"}, seen : States]
  BY <1>4, <1>6
<1>7. CASE Buttons
  <2>1. cstate' \in States
    BY <1>7 DEF Buttons, States
  <2>2. ui' = [ui EXCEPT !.pc = "sync"] /\ UNCHANGED <<status, shown>>
    BY <1>7 DEF Buttons
  <2>3. down' \in Wire
    <3>1. << >> \in Seq(Snapshot \cup Refresh)
      BY EmptySeq
    <3>2. UNCHANGED down \/ down' = [down EXCEPT ![session] = << >>]
      BY <1>7 DEF Buttons
    <3>3. QED
      BY <1>1, <3>1, <3>2 DEF Wire
  <2>4. QED
    BY <1>4, <1>6, <2>1, <2>2, <2>3 DEF ClientTypes
<1>8. CASE Sync
  <2>1. /\ ui' = [pc |-> "market", seen |-> cstate] /\ UNCHANGED <<cstate, shown, down>>
        /\ status' \in {"Disconnected", "Ready", status}
    BY <1>8 DEF Sync, unchangedByUi
  <2>2. ui' \in [pc : {"buttons", "sync", "market", "swap"}, seen : States]
    BY <1>4, <2>1
  <2>3. QED
    BY <1>1, <1>4, <2>1, <2>2 DEF ClientTypes
<1>9. CASE PressUnsubscribe \/ PressSubscribe \/ NoClick
  <2>1. /\ ui' = NewFrame /\ UNCHANGED <<cstate, shown, down>> /\ status' \in {status, "Subscribed"}
    BY <1>9 DEF PressUnsubscribe, PressSubscribe, NoClick, unchangedByUi
  <2>2. QED
    BY <1>1, <1>4, <1>5, <2>1 DEF ClientTypes
<1>10. CASE SwapBook
  <2>1. ui' = NewFrame /\ UNCHANGED <<cstate, status, down>>
    BY <1>10 DEF SwapBook, unchangedByUi
  <2>2. NoLevels \in [Ticks -> Nat]
    BY DEF NoLevels
  <2>3. shown' \in [symbol : Symbols, levels : [Ticks -> Nat]]
    BY <1>4, <1>10, <2>2 DEF SwapBook
  <2>4. QED
    BY <1>1, <1>4, <1>5, <2>1, <2>3 DEF ClientTypes
<1>11. ASSUME NEW s \in Symbols, selectSymbol(s) PROVE Typed
  <2>1. /\ ui' = [ui EXCEPT !.pc = "swap"] /\ UNCHANGED <<cstate, shown, down>>
        /\ status' \in {"Ready", status}
    BY <1>11 DEF selectSymbol, unchangedByUi
  <2>2. QED
    BY <1>1, <1>4, <1>6, <2>1 DEF ClientTypes
<1>12. QED
  BY <1>7, <1>8, <1>9, <1>10, <1>11 DEF UiStep

(* A message changes the levels shown.                                        *)
LEMMA AppliedTypes ==
  ASSUME NEW levels \in [Ticks -> Nat], NEW m \in Snapshot \cup Refresh
  PROVE  /\ m.type = "W" => handleSnapshot(levels, m.entries) \in [Ticks -> Nat]
         /\ m.type # "W" => updateLevel(levels, m.entry) \in [Ticks -> Nat]
<1>1. CASE m.type = "W"
  BY <1>1, MessageIs, SnapshotOf
<1>2. CASE m.type # "W"
  <2>1. m.entry \in Entry
    BY <1>2, MessageIs
  <2>2. m.entry.tick \in Ticks /\ Stated(m.entry) \in Nat
    BY <2>1 DEF Entry, Stated
  <2>3. QED
    BY <1>2, <2>2 DEF updateLevel
<1>3. QED
  BY <1>1, <1>2

LEMMA NetTypes ==
  ASSUME MarketTypeOK, SubscriptionsInv, FewLevels, NetStep
  PROVE  MarketTypeOK' /\ FewLevels'
<1>1. /\ SubscriptionsInv /\ CandlesTypeOK /\ BookTypes(book, worker) /\ io \in IoStates
      /\ down \in Wire /\ blur \in Blurs /\ ClientTypes(cstate, ui, status, shown, net)
  BY TypesAre
<1>2. UNCHANGED <<worker, book, candleVars, io, ui, status, blur>> /\ SubscriptionsInv'
  <2>1. UNCHANGED <<io, ui, status, blur>>
    BY DEF NetStep, ConnectionUp, LoggedOn, LoggedOut, CheckSymbol, Apply, unchangedByNet
  <2>2. QED
    BY <2>1, NetKeeps, OthersKeepBooks
<1> DEFINE Typed == down' \in Wire /\ ClientTypes(cstate', ui', status', shown', net')
<1>3. SUFFICES Typed
  <2>1. CandlesTypeOK' /\ FewLevels'
    BY <1>1, <1>2 DEF candleVars, CandlesTypeOK, FewLevels
  <2>2. QED
    BY <1>1, <1>2, <2>1, TypesAre
<1>4. CASE ConnectionUp \/ LoggedOn \/ LoggedOut
  <2>1. cstate' \in States /\ UNCHANGED <<down, shown, net>>
    BY <1>4 DEF ConnectionUp, LoggedOn, LoggedOut, States
  <2>2. QED
    BY <1>1, <1>2, <2>1 DEF ClientTypes
<1>5. CASE CheckSymbol
  <2>1. /\ session # 0 /\ down[session] # << >> /\ down' = [down EXCEPT ![session] = Tail(@)]
        /\ net' \in {Head(down[session]), NoMessage} /\ UNCHANGED <<cstate, shown>>
    BY <1>5 DEF CheckSymbol
  <2>2. session \in Session
    BY <1>1, <2>1, MarketAssumption DEF SubscriptionsInv, Session
  <2>3. down[session] \in Seq(Snapshot \cup Refresh)
    BY <1>1, <2>2 DEF Wire
  <2>4. /\ Head(down[session]) \in Snapshot \cup Refresh
        /\ Tail(down[session]) \in Seq(Snapshot \cup Refresh)
    BY <2>1, <2>3, HeadTailProperties
  <2>5. down' \in Wire
    BY <1>1, <2>1, <2>4 DEF Wire
  <2>6. QED
    BY <1>1, <1>2, <2>1, <2>4, <2>5 DEF ClientTypes
<1>6. CASE Apply
  <2>1. /\ net # NoMessage /\ net' = NoMessage /\ UNCHANGED <<cstate, down>>
        /\ shown' = [shown EXCEPT !.levels =
             IF net.type = "W" THEN handleSnapshot(shown.levels, net.entries)
             ELSE updateLevel(shown.levels, net.entry)]
    BY <1>6 DEF Apply
  <2>2. net \in Snapshot \cup Refresh /\ shown \in [symbol : Symbols, levels : [Ticks -> Nat]]
    BY <1>1, <2>1 DEF ClientTypes
  <2>3. shown.levels \in [Ticks -> Nat]
    BY <2>2
  <2> DEFINE l == IF net.type = "W" THEN handleSnapshot(shown.levels, net.entries)
                  ELSE updateLevel(shown.levels, net.entry)
  <2>4. l \in [Ticks -> Nat]
    BY <2>2, <2>3, AppliedTypes
  <2>5. shown' = [shown EXCEPT !.levels = l]
    BY <2>1
  <2> HIDE DEF l
  <2>6. shown' \in [symbol : Symbols, levels : [Ticks -> Nat]]
    BY <2>2, <2>4, <2>5
  <2>7. QED
    BY <1>1, <1>2, <2>1, <2>6 DEF ClientTypes
<1>7. QED
  BY <1>4, <1>5, <1>6 DEF NetStep

LEMMA TypesFirst == MarketInit => MarketTypeOK /\ SubscriptionsInv /\ FewLevels
<1> SUFFICES ASSUME MarketInit PROVE MarketTypeOK /\ SubscriptionsInv /\ FewLevels
  OBVIOUS
<1>1. CandlesTypeOK
  BY DEF MarketInit, CandlesInit, CandlesTypeOK
<1>2. BookTypes(book, worker) /\ FewLevels
  <2>1. /\ book = [s \in Symbols |-> [p \in Levels |-> << >>]]
        /\ worker = [s \in Symbols |-> IdleWorker]
    BY DEF MarketInit
  <2>2. << >> \in Seq(Nat \ {0})
    BY EmptySeq
  <2>3. [p \in Levels |-> << >>] \in Books
    BY <2>2 DEF Books
  <2>4. IdleWorker \in WorkerStates
    BY DEF WorkerStates
  <2>5. \A s \in Symbols : {p \in Levels : book[s][p] # << >>} = {}
    BY <2>1
  <2>6. FewLevels
    BY <2>5, FS_EmptySet DEF FewLevels
  <2>7. QED
    BY <2>1, <2>3, <2>4, <2>6 DEF BookTypes
<1>3. io \in IoStates
  BY DEF MarketInit, IoStates
<1>4. down \in Wire /\ blur \in Blurs
  <2>1. << >> \in Seq(Snapshot \cup Refresh)
    BY EmptySeq
  <2>2. QED
    BY <2>1 DEF MarketInit, Wire, Blurs
<1>5. ClientTypes(cstate, ui, status, shown, net)
  BY MarketAssumption DEF MarketInit, ClientTypes, States, NewFrame, NoLevels
<1>6. QED
  BY <1>1, <1>2, <1>3, <1>4, <1>5, SubscriptionsFirst, TypesAre

LEMMA TypesStep ==
  ASSUME MarketTypeOK, SubscriptionsInv, FewLevels, [MarketNext]_marketVars
  PROVE  MarketTypeOK' /\ SubscriptionsInv' /\ FewLevels'
<1>1. CASE UNCHANGED marketVars
  <2>1. MarketTypeOK'
    BY <1>1 DEF marketVars, bookVars, serverVars, clientVars, candleVars, MarketTypeOK,
       CandlesTypeOK
  <2>2. FewLevels'
    BY <1>1 DEF marketVars, bookVars, FewLevels
  <2>3. QED
    BY <2>1, <2>2, SubscriptionsStep
<1>2. QED
  BY <1>1, SubscriptionsStep, WorkerTypes, IoTypes, UiTypes, NetTypes DEF MarketNext

(* What the threads hand each other stays well formed: every entry of an    *)
(* update or a snapshot has the printed price of some level and a quantity, *)
(* an update in hand is for sessions that exist, and no order of a book is  *)
(* empty - a filled one leaves its level.                                   *)
THEOREM MarketTypes == MarketSpec => []MarketTypeOK
BY TypesFirst, TypesStep, PTL DEF MarketSpec

-----------------------------------------------------------------------------
(* The candles are fed by the workers.                                      *)

LEMMA CandlesInvStep ==
  ASSUME MarketTypeOK, CandlesInv, [MarketNext]_marketVars
  PROVE  CandlesInv'
<1>1. CASE UNCHANGED candleVars
  BY <1>1 DEF candleVars, CandlesInv, CandlesTypeOK
<1>2. ASSUME NEW s \in Symbols, publishIncremental(s), ~UNCHANGED candleVars
      PROVE  CandlesInv'
  <2>1. worker \in [Symbols -> WorkerStates]
    BY DEF MarketTypeOK
  <2>2. QED
    BY <1>2, <2>1, Aggregated, CandlesStep
<1>3. CASE WorkerStep
  <2>1. PICK s \in Symbols : publishIncremental(s) \/ UNCHANGED candleVars
    BY <1>3 DEF WorkerStep, Insert, Cancel, Trade, Deliver
  <2>2. QED
    BY <1>1, <1>2, <2>1
<1>4. QED
  BY <1>1, <1>3, OthersKeepBooks DEF MarketNext

(* The first of the candles that are combined, and the last, by their stamps. *)
LEMMA CombinesReads ==
  ASSUME NEW c \in Candle, NEW ones \in SUBSET Candle, IsFiniteSet(ones), Combines(c, ones)
  PROVE  LET At(t)  == CHOOSE o \in ones : o.timestamp = t
             stamps == {o.timestamp : o \in ones}
         IN  /\ ones # {}
             /\ Cardinality(ones) = Cardinality(stamps)
             /\ c.open = At(Min(stamps)).open /\ c.close = At(Max(stamps)).close
             /\ c.high = Max({o.high : o \in ones}) /\ c.low = Min({o.low : o \in ones})
             /\ c.volume = Volume(ones)
<1> DEFINE At(t) == CHOOSE o \in ones : o.timestamp = t
           stamps == {o.timestamp : o \in ones}
           highs == {o.high : o \in ones}
           lows == {o.low : o \in ones}
<1>1. /\ \A o, r \in ones : o.timestamp = r.timestamp => o = r
      /\ c.volume = Volume(ones) /\ ones # {}
  BY DEF Combines
<1>2. stamps \subseteq Int /\ highs \subseteq Int /\ lows \subseteq Int
  BY CandleIs
<1>3. ASSUME NEW o \in ones PROVE At(o.timestamp) = o
  BY <1>1
<1>4. c.open = At(Min(stamps)).open
  <2>1. PICK o \in ones : c.open = o.open /\ \A r \in ones : o.timestamp <= r.timestamp
    BY DEF Combines
  <2>2. o.timestamp \in stamps /\ \A x \in stamps : o.timestamp <= x
    BY <2>1
  <2> HIDE DEF stamps, At
  <2>3. Min(stamps) = o.timestamp
    BY <1>2, <2>2, Least
  <2>4. QED
    BY <1>3, <2>1, <2>3
<1>5. c.close = At(Max(stamps)).close
  <2>1. PICK o \in ones : c.close = o.close /\ \A r \in ones : r.timestamp <= o.timestamp
    BY DEF Combines
  <2>2. o.timestamp \in stamps /\ \A x \in stamps : x <= o.timestamp
    BY <2>1
  <2> HIDE DEF stamps, At
  <2>3. Max(stamps) = o.timestamp
    BY <1>2, <2>2, Greatest
  <2>4. QED
    BY <1>3, <2>1, <2>3
<1>6. c.high = Max(highs)
  <2>1. c.high \in highs /\ \A x \in highs : x <= c.high
    BY DEF Combines
  <2> HIDE DEF highs
  <2>2. QED
    BY <1>2, <2>1, Greatest
<1>7. c.low = Min(lows)
  <2>1. c.low \in lows /\ \A x \in lows : c.low <= x
    BY DEF Combines
  <2> HIDE DEF lows
  <2>2. QED
    BY <1>2, <2>1, Least
<1>8. Cardinality(ones) = Cardinality(stamps)
  <2> DEFINE f == [o \in ones |-> o.timestamp]
  <2>1. f \in Bijection(ones, stamps)
    <3>1. f \in [ones -> stamps] /\ \A o \in ones : f[o] = o.timestamp
      OBVIOUS
    <3>2. \A t \in stamps : \E o \in ones : o.timestamp = t
      OBVIOUS
    <3> HIDE DEF f, stamps
    <3>3. \A o, r \in ones : f[o] = f[r] => o = r
      BY <1>1, <3>1
    <3>4. \A t \in stamps : \E o \in ones : f[o] = t
      BY <3>1, <3>2
    <3>5. QED
      BY <3>1, <3>3, <3>4 DEF Bijection, Injection, Surjection, IsInjective
  <2> HIDE DEF f, stamps
  <2>2. ExistsBijection(ones, stamps)
    BY <2>1 DEF ExistsBijection
  <2>3. QED
    BY <2>2, FS_Bijection
<1>9. QED
  BY <1>1, <1>4, <1>5, <1>6, <1>7, <1>8

LEMMA CandlesInvReads == CandlesInv => CandlesReconcile
<1> SUFFICES ASSUME CandlesInv, NEW s \in Symbols, NEW c \in AllCandles(s, 5)
             PROVE  LET ones   == Within(AllCandles(s, 1), c)
                        At(t)  == CHOOSE o \in ones : o.timestamp = t
                        stamps == {o.timestamp : o \in ones}
                    IN  /\ ones # {}
                        /\ Cardinality(ones) = Cardinality(stamps)
                        /\ c.open = At(Min(stamps)).open /\ c.close = At(Max(stamps)).close
                        /\ c.high = Max({o.high : o \in ones}) /\ c.low = Min({o.low : o \in ones})
                        /\ c.volume = Volume(ones)
  BY DEF CandlesReconcile
<1>1. InStep(agg[s, 1], agg[s, 5], rows[s, 1], rows[s, 5])
  BY DEF CandlesInv
<1>2. /\ agg[s, 1] \in Candle \cup {Inactive} /\ rows[s, 1] \in SUBSET Candle
      /\ agg[s, 5] \in Candle \cup {Inactive} /\ rows[s, 5] \in SUBSET Candle
  <2>1. <<s, 1>> \in Symbols \X Intervals /\ <<s, 5>> \in Symbols \X Intervals
    BY DEF Intervals
  <2>2. QED
    BY <2>1 DEF CandlesInv, CandlesTypeOK
<1>3. c \in Candle
  BY <1>2 DEF AllCandles
<1> DEFINE all == AllCandles(s, 1)
           ones == Within(all, c)
<1>4. all \in SUBSET Candle /\ IsFiniteSet(all)
  <2>1. IsFiniteSet(rows[s, 1])
    BY <1>1 DEF InStep
  <2>2. IsFiniteSet(rows[s, 1] \cup {agg[s, 1]})
    BY <2>1, FS_AddElement
  <2>3. all \in SUBSET (rows[s, 1] \cup {agg[s, 1]})
    BY DEF AllCandles
  <2>4. IsFiniteSet(all)
    BY <2>2, <2>3, FS_Subset
  <2>5. QED
    BY <1>2, <2>4 DEF AllCandles
<1>5. Combines(c, ones)
  BY <1>1 DEF InStep, AllCandles
<1>6. ones \in SUBSET all
  BY DEF Within
<1> HIDE DEF ones, all
<1>7. ones \in SUBSET Candle /\ IsFiniteSet(ones)
  BY <1>4, <1>6, FS_Subset
<1> USE DEF all
<1>8. QED
  BY <1>3, <1>5, <1>7, CombinesReads DEF ones

(* The aggregator's two intervals, each with its own bucket arithmetic, tell *)
(* one story for every sequence of updates and every reading of the clock,   *)
(* a clock set back included.                                               *)
THEOREM CandlesAgree == MarketSpec => []CandlesReconcile
<1> DEFINE Inv == MarketTypeOK /\ SubscriptionsInv /\ FewLevels /\ CandlesInv
<1>1. MarketInit => CandlesInv
  <2> SUFFICES ASSUME MarketInit PROVE CandlesInv
    OBVIOUS
  <2>1. agg = [x \in Symbols \X Intervals |-> Inactive] /\ rows = [x \in Symbols \X Intervals |-> {}]
    BY DEF MarketInit, CandlesInit
  <2>2. CandlesTypeOK
    BY <2>1 DEF CandlesTypeOK
  <2>3. InStep(Inactive, Inactive, {}, {})
    BY FS_EmptySet DEF InStep
  <2>4. ASSUME NEW s \in Symbols
        PROVE  InStep(agg[s, 1], agg[s, 5], rows[s, 1], rows[s, 5])
    <3>1. <<s, 1>> \in Symbols \X Intervals /\ <<s, 5>> \in Symbols \X Intervals
      BY DEF Intervals
    <3>2. QED
      BY <2>1, <2>3, <3>1
  <2>5. QED
    BY <2>2, <2>4 DEF CandlesInv
<1>2. MarketInit => Inv
  BY <1>1, TypesFirst
<1>3. Inv /\ [MarketNext]_marketVars => Inv'
  BY TypesStep, CandlesInvStep
<1>4. Inv => CandlesReconcile
  BY CandlesInvReads
<1>5. QED
  BY <1>2, <1>3, <1>4, PTL DEF MarketSpec

-----------------------------------------------------------------------------
(* The panel of the client.                                                 *)

(* No request of session k has been made, and it is subscribed to nothing.   *)
Silent(k) == up[k] = << >> /\ \A s \in Symbols : k \notin subs[s]

Unused(k) == k > session \/ (k = session /\ cstate \in {"Connecting", "Pending"})

PanelSeen ==
  /\ ui.pc = "market" /\ ui.seen = "Active" => cstate = "Active"
  /\ ui.pc # "swap" => shown.symbol = symbol
  /\ ui.pc = "swap" => status # "Subscribed"

LEMMA PanelIs ==
  /\ PanelInv <=> /\ cstate \in {"Pending", "Active", "LoggingOut"} => session \in registered
                  /\ \A k \in Session : Unused(k) => Silent(k)
                  /\ PanelSeen
  /\ PanelInv' <=> /\ cstate' \in {"Pending", "Active", "LoggingOut"} => session' \in registered'
                   /\ \A k \in Session : Unused(k)' => Silent(k)'
                   /\ PanelSeen'
BY DEF PanelInv, Silent, Unused, PanelSeen

LEMMA PanelIo ==
  ASSUME MarketTypeOK, SubscriptionsInv, PanelInv, IoStep
  PROVE  PanelInv'
<1>1. /\ UNCHANGED <<session, cstate, ui, shown, symbol, status>>
      /\ subs \in [Symbols -> SUBSET Session] /\ up \in [Session -> Seq(Request)]
  BY DEF IoStep, Subscribe, Unsubscribe, unregisterSession, WalkLevel, WriteSnapshot,
     removeSubscription, clientVars, SubscriptionsInv
<1>2. cstate \in {"Pending", "Active", "LoggingOut"} => session \in registered'
  <2>1. ASSUME NEW k \in Session, unregisterSession(k),
               cstate \in {"Pending", "Active", "LoggingOut"}
        PROVE  session \in registered'
    BY <2>1, PanelIs DEF unregisterSession, Open
  <2>2. (\E k \in Session : unregisterSession(k)) \/ UNCHANGED registered
    BY DEF IoStep, Subscribe, Unsubscribe, WalkLevel, WriteSnapshot, removeSubscription
  <2>3. QED
    BY <2>1, <2>2, PanelIs
<1>3. ASSUME NEW k \in Session, Silent(k) PROVE Silent(k)'
  <2>1. CASE UNCHANGED <<up, subs>>
    BY <1>3, <2>1 DEF Silent
  <2>2. ASSUME NEW j \in Session, Subscribe(j) \/ Unsubscribe(j) PROVE Silent(k)'
    <3>1. up[j] # << >> /\ up' = [up EXCEPT ![j] = Tail(@)] /\ j # k
      BY <1>3, <2>2 DEF Subscribe, Unsubscribe, Silent
    <3>2. Head(up[j]) \in Request
      BY <1>1, <3>1, RequestTaken
    <3> DEFINE u == Head(up[j]).symbol
    <3>3. /\ u \in Symbols
          /\ \/ subs' = [subs EXCEPT ![u] = @ \cup {j}]
             \/ subs' = [subs EXCEPT ![u] = @ \ {j}]
      BY <2>2, <3>2 DEF Subscribe, Unsubscribe, Request
    <3> HIDE DEF u
    <3>4. \A s \in Symbols : k \in subs'[s] => k \in subs[s]
      <4>1. \A s \in Symbols : subs'[s] \subseteq subs[s] \cup {j}
        BY <1>1, <3>3
      <4>2. QED
        BY <3>1, <4>1
    <3>5. QED
      BY <1>1, <1>3, <3>1, <3>4 DEF Silent
  <2>3. CASE removeSubscription
    BY <1>1, <1>3, <2>3 DEF Silent, removeSubscription
  <2>4. QED
    BY <2>1, <2>2, <2>3 DEF IoStep, unregisterSession, WalkLevel, WriteSnapshot
<1>4. \A k \in Session : Unused(k)' => Silent(k)'
  <2>1. \A k \in Session : Unused(k)' => Unused(k)
    BY <1>1 DEF Unused
  <2>2. QED
    BY <1>3, <2>1, PanelIs
<1>5. PanelSeen'
  BY <1>1, PanelIs DEF PanelSeen
<1>6. QED
  BY <1>1, <1>2, <1>4, <1>5, PanelIs

(* The panel asks for market data only in a frame that saw the session       *)
(* active, and the session is not lost before the frame is over.            *)
LEMMA PanelAsks ==
  ASSUME MarketTypeOK, SubscriptionsInv, PanelInv, NEW type \in {"1", "2"},
         ui.pc = "market", ui.seen = "Active", sendMarketDataRequest(type, symbol)
  PROVE  LET r == [type |-> type, symbol |-> symbol]
         IN  /\ cstate = "Active" /\ session \in Session /\ r \in Request
             /\ up' = [up EXCEPT ![session] = Append(up[session], r)]
<1>1. cstate = "Active"
  BY PanelIs DEF PanelSeen
<1>2. session \in Session /\ symbol \in Symbols
  BY <1>1, MarketAssumption DEF SubscriptionsInv, Session
<1>3. up' = [up EXCEPT ![session] = Append(up[session], [type |-> type, symbol |-> symbol])]
  BY <1>1 DEF sendMarketDataRequest
<1>4. QED
  BY <1>1, <1>2, <1>3 DEF Request

LEMMA PanelUi ==
  ASSUME MarketTypeOK, SubscriptionsInv, PanelInv, UiStep
  PROVE  PanelInv'
<1>1. /\ UNCHANGED <<registered, subs>> /\ up \in [Session -> Seq(Request)]
      /\ session \in 0..MaxSessions
  BY DEF UiStep, Buttons, Sync, PressUnsubscribe, PressSubscribe, NoClick, SwapBook,
     selectSymbol, unchangedByUi, serverVars, SubscriptionsInv
<1>2. CASE Buttons
  <2>1. /\ ui.pc = "buttons" /\ ui' = [ui EXCEPT !.pc = "sync"]
        /\ UNCHANGED <<up, symbol, shown, status>>
        /\ \/ session' = session + 1 /\ cstate' = "Connecting" /\ session < MaxSessions
           \/ session' = session /\ cstate = "Active" /\ cstate' = "LoggingOut"
           \/ session' = session /\ cstate' = "Disconnected"
    BY <1>2 DEF Buttons
  <2>2. ui'.pc = "sync"
    BY <2>1 DEF MarketTypeOK
  <2>3. PanelSeen'
    BY <2>1, <2>2, PanelIs DEF PanelSeen
  <2>4. \A k \in Session : Unused(k)' => Unused(k)
    BY <1>1, <2>1 DEF Unused, Session
  <2>5. \A k \in Session : Silent(k) => Silent(k)'
    BY <1>1, <2>1 DEF Silent
  <2>6. cstate' \in {"Pending", "Active", "LoggingOut"} => session' \in registered'
    BY <1>1, <2>1, PanelIs
  <2>7. QED
    BY <2>3, <2>4, <2>5, <2>6, PanelIs
<1>3. ASSUME UNCHANGED <<session, cstate>>,
             \/ UNCHANGED up
             \/ /\ ui.pc = "market" /\ ui.seen = "Active"
                /\ \E type \in {"1", "2"} : sendMarketDataRequest(type, symbol),
             PanelSeen'
      PROVE  PanelInv'
  <2>1. \A k \in Session : Unused(k)' => Unused(k)
    BY <1>3 DEF Unused
  <2>2. ASSUME NEW k \in Session, Unused(k) PROVE Silent(k)'
    <3>1. Silent(k)
      BY <2>2, PanelIs
    <3>2. CASE UNCHANGED up
      BY <1>1, <3>1, <3>2 DEF Silent
    <3>3. CASE ~UNCHANGED up
      <4>1. PICK type \in {"1", "2"} : sendMarketDataRequest(type, symbol)
        BY <1>3, <3>3
      <4>2. PICK q : cstate = "Active" /\ session \in Session /\ up' = [up EXCEPT ![session] = q]
        BY <1>3, <3>3, <4>1, PanelAsks
      <4>3. k # session
        BY <1>1, <2>2, <4>2 DEF Unused, Session
      <4>4. QED
        BY <1>1, <3>1, <4>2, <4>3 DEF Silent
    <3>4. QED
      BY <3>2, <3>3
  <2>3. QED
    BY <1>1, <1>3, <2>1, <2>2, PanelIs
<1>4. CASE Sync
  <2>1. /\ ui' = [pc |-> "market", seen |-> cstate] /\ ui.pc # "swap"
        /\ UNCHANGED <<session, cstate, up, shown, symbol>>
    BY <1>4 DEF Sync
  <2>2. PanelSeen'
    BY <2>1, PanelIs DEF PanelSeen
  <2>3. QED
    BY <1>3, <2>1, <2>2
<1>5. CASE PressUnsubscribe \/ PressSubscribe \/ NoClick
  <2>1. /\ ui' = NewFrame /\ ui.pc = "market" /\ UNCHANGED <<session, cstate, shown, symbol>>
        /\ \/ UNCHANGED up
           \/ /\ ui.seen = "Active"
              /\ \E type \in {"1", "2"} : sendMarketDataRequest(type, symbol)
    BY <1>5 DEF PressUnsubscribe, PressSubscribe, NoClick
  <2>2. PanelSeen'
    BY <2>1, PanelIs DEF PanelSeen, NewFrame
  <2>3. QED
    BY <1>3, <2>1, <2>2
<1>6. CASE SwapBook
  <2>1. /\ ui' = NewFrame /\ UNCHANGED <<session, cstate, up, symbol>>
        /\ shown' = IF shown.symbol = symbol THEN shown
                    ELSE [symbol |-> symbol, levels |-> NoLevels]
    BY <1>6 DEF SwapBook
  <2>2. PanelSeen'
    BY <2>1 DEF PanelSeen, NewFrame
  <2>3. QED
    BY <1>3, <2>1, <2>2
<1>7. ASSUME NEW s \in Symbols, selectSymbol(s) PROVE PanelInv'
  <2>1. /\ ui.pc = "market" /\ ui' = [ui EXCEPT !.pc = "swap"] /\ UNCHANGED <<session, cstate>>
        /\ status' # "Subscribed"
        /\ \/ UNCHANGED up
           \/ ui.seen = "Active" /\ sendMarketDataRequest("2", symbol)
    BY <1>7 DEF selectSymbol
  <2>2. ui'.pc = "swap"
    BY <2>1 DEF MarketTypeOK
  <2>3. PanelSeen'
    BY <2>1, <2>2 DEF PanelSeen
  <2>4. QED
    BY <1>3, <2>1, <2>3
<1>8. QED
  BY <1>2, <1>4, <1>5, <1>6, <1>7 DEF UiStep

LEMMA PanelNet ==
  ASSUME MarketTypeOK, SubscriptionsInv, PanelInv, NetStep
  PROVE  PanelInv'
<1>1. UNCHANGED <<session, ui, symbol, status, up, subs>>
  BY DEF NetStep, ConnectionUp, LoggedOn, LoggedOut, CheckSymbol, Apply, unchangedByNet
<1>2. shown'.symbol = shown.symbol
  <2>1. CASE Apply
    <3>1. PICK l : shown' = [shown EXCEPT !.levels = l]
      BY <2>1 DEF Apply
    <3>2. QED
      BY <3>1 DEF MarketTypeOK
  <2>2. QED
    BY <2>1 DEF NetStep, ConnectionUp, LoggedOn, LoggedOut, CheckSymbol
<1>3. \/ cstate = "Connecting" /\ cstate' = "Pending" /\ registered' = registered \cup {session}
      \/ cstate = "Pending" /\ cstate' = "Active" /\ UNCHANGED registered
      \/ cstate = "LoggingOut" /\ cstate' = "Disconnected" /\ UNCHANGED registered
      \/ UNCHANGED <<cstate, registered>>
  BY DEF NetStep, ConnectionUp, LoggedOn, LoggedOut, CheckSymbol, Apply
<1>4. PanelSeen'
  BY <1>1, <1>2, <1>3, PanelIs DEF PanelSeen
<1>5. \A k \in Session : Unused(k)' => Unused(k)
  BY <1>1, <1>3 DEF Unused
<1>6. \A k \in Session : Silent(k) => Silent(k)'
  BY <1>1 DEF Silent
<1>7. cstate' \in {"Pending", "Active", "LoggingOut"} => session' \in registered'
  BY <1>1, <1>3, PanelIs
<1>8. QED
  BY <1>4, <1>5, <1>6, <1>7, PanelIs

LEMMA PanelStep ==
  ASSUME MarketTypeOK, SubscriptionsInv, PanelInv, [MarketNext]_marketVars
  PROVE  PanelInv'
<1>1. CASE UNCHANGED <<session, cstate, ui, shown, symbol, status, up, subs, registered>>
  BY <1>1, PanelIs DEF PanelSeen, Silent, Unused
<1>2. CASE WorkerStep \/ UNCHANGED marketVars
  <2>1. UNCHANGED <<session, cstate, ui, shown, symbol, status, up, subs, registered>>
    BY <1>2 DEF WorkerStep, Insert, Cancel, Trade, publishIncremental, Deliver, marketVars,
       serverVars, clientVars
  <2>2. QED
    BY <1>1, <2>1
<1>3. QED
  BY <1>2, PanelIo, PanelUi, PanelNet DEF MarketNext

-----------------------------------------------------------------------------
(* What the workers publish.                                                *)

WorkerSays(s) ==
  worker[s].pc # "idle" =>
    IF worker[s].blurs
    THEN \A k \in subs[s] : worker[s].entry.tick \in blur[k][s]
    ELSE Stated(worker[s].entry) = LevelSum(book[s], worker[s].entry.tick)

LEMMA WorkersAre ==
  /\ WorkersInv <=> \A s \in Symbols : WorkerSays(s)
  /\ WorkersInv' <=> \A s \in Symbols : WorkerSays(s)'
BY DEF WorkersInv, WorkerSays

(* The subscribers that stay keep their blurs of the symbol.                 *)
BlursStay(s) == \A k \in subs'[s] : k \in subs[s] /\ blur[k][s] \subseteq blur'[k][s]

LEMMA SaysOn ==
  ASSUME NEW s \in Symbols, WorkerSays(s), worker'[s] = worker[s], book'[s] = book[s], BlursStay(s)
  PROVE  WorkerSays(s)'
BY DEF WorkerSays, BlursStay

LEMMA BlurredIs ==
  ASSUME blur \in Blurs, subs \in [Symbols -> SUBSET Session], NEW s \in Symbols, NEW t
  PROVE  /\ \A k \in subs[s] : t \in Blurred(s, t)[k][s]
         /\ \A k \in Session : \A u \in Symbols : blur[k][u] \subseteq Blurred(s, t)[k][u]
         /\ \A k \in Session : \A u \in Symbols : u # s => Blurred(s, t)[k][u] = blur[k][u]
         /\ \A k \in Session : Blurred(s, t)[k][s] \subseteq blur[k][s] \cup {t}
<1>1. ASSUME NEW k \in Session
      PROVE  /\ blur[k] \in [Symbols -> SUBSET Ticks]
             /\ Blurred(s, t)[k] = IF k \in subs[s] THEN [blur[k] EXCEPT ![s] = @ \cup {t}] ELSE blur[k]
  BY DEF Blurs, Blurred
<1>2. \A k \in subs[s] : k \in Session
  OBVIOUS
<1>3. QED
  BY <1>1, <1>2

(* A new order at a level that is not crowded is all there is of the level,  *)
(* and the deletion of an order of such a level leaves nothing.              *)
LEMMA InsertTells ==
  ASSUME book \in [Symbols -> Books], NEW s \in Symbols, NEW p \in Levels, NEW q \in Sizes,
         Insert(s, p, q), ~Crowded(book'[s], Rounded(p)), book' \in [Symbols -> Books]
  PROVE  /\ LevelSum(book'[s], Rounded(p)) = q
         /\ \A x \in Behind(Rounded(p)) : x # p => book'[s][x] = << >>
<1>1. book' = [book EXCEPT ![s][p] = Append(@, q)] /\ book[s] \in Books /\ book'[s] \in Books
  BY DEF Insert
<1>2. book'[s][p] = Append(book[s][p], q) /\ book[s][p] \in Seq(Nat \ {0}) /\ q \in Nat \ {0}
  BY <1>1, CandlesAssumption DEF Books
<1>3. p \in Behind(Rounded(p)) /\ Rounded(p) \in Ticks
  BY RoundedIn DEF Behind
<1>4. /\ Len(book'[s][p]) = Len(book[s][p]) + 1 /\ book'[s][p] # << >>
      /\ book'[s][p][Len(book[s][p]) + 1] = q
  BY <1>2, AppendProperties
<1>5. Len(book'[s][p]) = 1 /\ \A x \in Behind(Rounded(p)) : x # p => book'[s][x] = << >>
  BY <1>1, <1>3, <1>4, NotCrowded
<1>6. book'[s][p][1] = q
  <2>1. Len(book[s][p]) \in Nat
    BY <1>2, LenProperties
  <2>2. Len(book[s][p]) = 0
    BY <1>4, <1>5, <2>1
  <2>3. QED
    BY <1>4, <2>2
<1>7. book'[s][p] \in Seq(Nat)
  BY <1>1, LevelIn
<1>8. Total(book'[s][p]) = q
  BY <1>5, <1>6, <1>7, TotalOf
<1>9. LevelSum(book'[s], Rounded(p)) = Total(book'[s][p])
  <2> DEFINE b == book'[s]
             t == Rounded(p)
  <2>1. b \in Books /\ t \in Ticks /\ p \in Behind(t) /\ \A x \in Behind(t) : x # p => b[x] = << >>
    BY <1>1, <1>3, <1>5
  <2> HIDE DEF b, t
  <2>2. LevelSum(b, t) = Total(b[p])
    BY <2>1, SumOne
  <2>3. QED
    BY <2>2 DEF b, t
<1>10. QED
  BY <1>5, <1>8, <1>9

LEMMA CancelTells ==
  ASSUME book \in [Symbols -> Books], NEW s \in Symbols, NEW p \in Levels,
         NEW i \in DOMAIN book[s][p], Cancel(s, p, i), ~Crowded(book[s], Rounded(p)),
         book' \in [Symbols -> Books]
  PROVE  /\ LevelSum(book'[s], Rounded(p)) = 0
         /\ \A x \in Behind(Rounded(p)) : book'[s][x] = << >>
<1>1. book' = [book EXCEPT ![s][p] = RemoveAt(@, i)] /\ book[s] \in Books /\ book'[s] \in Books
  BY DEF Cancel
<1>2. /\ book'[s][p] = RemoveAt(book[s][p], i) /\ book[s][p] \in Seq(Nat \ {0})
      /\ \A x \in Levels : x # p => book'[s][x] = book[s][x]
  BY <1>1 DEF Books
<1>3. p \in Behind(Rounded(p)) /\ Rounded(p) \in Ticks /\ Behind(Rounded(p)) \in SUBSET Levels
  BY RoundedIn DEF Behind
<1>4. DOMAIN book[s][p] = 1..Len(book[s][p]) /\ Len(book[s][p]) \in Nat
  BY <1>2, LenProperties
<1>5. book[s][p] # << >>
  BY <1>4, EmptySeq
<1>6. Len(book[s][p]) = 1 /\ \A x \in Behind(Rounded(p)) : x # p => book[s][x] = << >>
  BY <1>1, <1>3, <1>5, NotCrowded
<1>7. book'[s][p] = << >>
  <2>1. i = 1
    BY <1>4, <1>6
  <2>2. SubSeq(book[s][p], 1, 0) = << >> /\ SubSeq(book[s][p], 2, 1) = << >>
    BY <1>2, SubSeqProperties
  <2>3. QED
    BY <1>2, <1>6, <2>1, <2>2 DEF RemoveAt
<1>8. \A x \in Behind(Rounded(p)) : book'[s][x] = << >>
  BY <1>2, <1>3, <1>6, <1>7
<1>9. LevelSum(book'[s], Rounded(p)) = 0
  BY <1>1, <1>3, <1>8, SumNone
<1>10. QED
  BY <1>8, <1>9

LEMMA WorkersStep ==
  ASSUME MarketTypeOK, SubscriptionsInv, FewLevels, WorkersInv, [MarketNext]_marketVars
  PROVE  WorkersInv'
<1>1. /\ book \in [Symbols -> Books] /\ worker \in [Symbols -> WorkerStates]
      /\ subs \in [Symbols -> SUBSET Session] /\ blur \in Blurs
      /\ up \in [Session -> Seq(Request)]
      /\ book' \in [Symbols -> Books]
  BY TypesStep, TypesAre DEF BookTypes, SubscriptionsInv
<1>2. ASSUME NEW s \in Symbols, UNCHANGED <<worker, book>>, BlursStay(s) PROVE WorkerSays(s)'
  BY <1>2, SaysOn, WorkersAre
<1>3. ASSUME UNCHANGED <<worker, book, subs, blur>> PROVE WorkersInv'
  BY <1>2, <1>3, WorkersAre DEF BlursStay
<1>4. ASSUME NEW s \in Symbols, NEW u \in Symbols, u # s, UNCHANGED subs,
             worker'[u] = worker[u], book'[u] = book[u],
             \/ UNCHANGED blur \/ \E t \in Ticks : blur' = Blurred(s, t)
      PROVE  WorkerSays(u)'
  <2>1. BlursStay(u)
    BY <1>1, <1>4, BlurredIs DEF BlursStay
  <2>2. QED
    BY <1>4, <2>1, SaysOn, WorkersAre
<1>5. ASSUME NEW s \in Symbols, NEW p \in Levels, NEW q \in Sizes, Insert(s, p, q)
      PROVE  WorkersInv'
  <2> DEFINE b == Crowded(book'[s], Rounded(p))
             e == [action |-> "New", tick |-> Rounded(p), size |-> q]
             w == [pc |-> "publish", price |-> p, blurs |-> b, entry |-> e]
  <2>1. /\ book' = [book EXCEPT ![s][p] = Append(@, q)] /\ UNCHANGED subs
        /\ blur' = IF b THEN Blurred(s, Rounded(p)) ELSE blur
        /\ worker' = [worker EXCEPT ![s] = w]
    BY <1>5 DEF Insert, Publishing, serverVars
  <2>2. w.blurs = b /\ w.entry.tick = Rounded(p) /\ Stated(w.entry) = q
    BY DEF Stated
  <2>3. ~b => LevelSum(book'[s], Rounded(p)) = q
    BY <1>1, <1>5, InsertTells
  <2>4. Rounded(p) \in Ticks
    BY RoundedIn
  <2> HIDE DEF b, w
  <2>5. WorkerSays(s)'
    BY <1>1, <2>1, <2>2, <2>3, <2>4, BlurredIs DEF WorkerSays
  <2>6. \A u \in Symbols : u # s => worker'[u] = worker[u] /\ book'[u] = book[u]
    BY <1>1, <2>1
  <2>7. QED
    BY <1>4, <2>1, <2>4, <2>5, <2>6, WorkersAre
<1>6. ASSUME NEW s \in Symbols, NEW p \in Levels, NEW i \in DOMAIN book[s][p], Cancel(s, p, i)
      PROVE  WorkersInv'
  <2> DEFINE b == Crowded(book[s], Rounded(p))
             e == [action |-> "Delete", tick |-> Rounded(p), size |-> book[s][p][i]]
             w == [pc |-> "publish", price |-> p, blurs |-> b, entry |-> e]
  <2>1. /\ book' = [book EXCEPT ![s][p] = RemoveAt(@, i)] /\ UNCHANGED subs
        /\ blur' = IF b THEN Blurred(s, Rounded(p)) ELSE blur
        /\ worker' = [worker EXCEPT ![s] = w]
    BY <1>6 DEF Cancel, Publishing, serverVars
  <2>2. w.blurs = b /\ w.entry.tick = Rounded(p) /\ Stated(w.entry) = 0
    BY DEF Stated
  <2>3. ~b => LevelSum(book'[s], Rounded(p)) = 0
    BY <1>1, <1>6, CancelTells
  <2>4. Rounded(p) \in Ticks
    BY RoundedIn
  <2> HIDE DEF b, w
  <2>5. WorkerSays(s)'
    BY <1>1, <2>1, <2>2, <2>3, <2>4, BlurredIs DEF WorkerSays
  <2>6. \A u \in Symbols : u # s => worker'[u] = worker[u] /\ book'[u] = book[u]
    BY <1>1, <2>1
  <2>7. QED
    BY <1>4, <2>1, <2>4, <2>5, <2>6, WorkersAre
<1>7. ASSUME NEW s \in Symbols, NEW p \in Levels, Trade(s, p) PROVE WorkersInv'
  <2>1. /\ worker[s].pc = "idle" /\ UNCHANGED <<worker, subs>> /\ blur' = Blurred(s, Rounded(p))
    BY <1>7 DEF Trade, serverVars
  <2>2. \A u \in Symbols : u # s => book'[u] = book[u]
    BY <1>1, <1>7 DEF Trade
  <2>3. WorkerSays(s)'
    BY <2>1 DEF WorkerSays
  <2>4. QED
    BY <1>4, <2>1, <2>2, <2>3, RoundedIn, WorkersAre
<1>8. ASSUME NEW s \in Symbols, worker[s].pc # "idle", NEW T, Remaining(s, T),
             UNCHANGED <<book, subs>>, \A u \in Symbols : BlursStay(u)
      PROVE  WorkersInv'
  <2>1. ASSUME NEW u \in Symbols PROVE WorkerSays(u)'
    <3>1. CASE worker'[u] = worker[u]
      BY <1>8, <3>1, SaysOn, WorkersAre
    <3>2. CASE worker'[u] # worker[u]
      <4>1. u = s /\ (worker'[u].pc = "idle" \/ /\ worker'[u].blurs = worker[u].blurs
                                                /\ worker'[u].entry = worker[u].entry)
        BY <1>1, <1>8, <3>2 DEF Remaining, IdleWorker
      <4>2. CASE worker'[u].pc = "idle"
        BY <4>2 DEF WorkerSays
      <4>3. CASE worker[u].pc # "idle" /\ worker'[u].pc # "idle"
        BY <1>8, <4>1, <4>3, WorkersAre DEF WorkerSays, BlursStay
      <4>4. CASE worker[u].pc = "idle"
        BY <1>8, <4>1, <4>4
      <4>5. QED
        BY <4>2, <4>3, <4>4
    <3>3. QED
      BY <3>1, <3>2
  <2>2. QED
    BY <2>1, WorkersAre
<1>9. ASSUME NEW s \in Symbols, publishIncremental(s) PROVE WorkersInv'
  <2>1. /\ worker[s].pc = "publish" /\ Remaining(s, subs[s]) /\ UNCHANGED <<book, subs, blur>>
    BY <1>9 DEF publishIncremental, serverVars
  <2>2. \A u \in Symbols : BlursStay(u)
    BY <2>1 DEF BlursStay
  <2>3. worker[s].pc # "idle"
    BY <2>1
  <2>4. QED
    BY <1>8, <2>1, <2>2, <2>3
<1>10. ASSUME NEW s \in Symbols, NEW k \in Session, Deliver(s, k) PROVE WorkersInv'
  <2>1. /\ worker[s].pc = "deliver" /\ Remaining(s, worker[s].targets \ {k})
        /\ UNCHANGED <<book, subs>>
        /\ \/ UNCHANGED blur
           \/ blur' = [blur EXCEPT ![k][s] = @ \cup {worker[s].entry.tick}]
    BY <1>10 DEF Deliver, serverVars
  <2> DEFINE x == worker[s].entry.tick
  <2>2. \A j \in Session : \A u \in Symbols : blur[j][u] \subseteq blur'[j][u]
    <3>1. UNCHANGED blur \/ blur' = [blur EXCEPT ![k][s] = @ \cup {x}]
      BY <2>1
    <3> HIDE DEF x
    <3>2. CASE blur' = [blur EXCEPT ![k][s] = @ \cup {x}]
      <4>1. \A j \in Session : \A u \in Symbols :
              blur'[j][u] = IF j = k /\ u = s THEN blur[j][u] \cup {x} ELSE blur[j][u]
        BY <1>1, <3>2 DEF Blurs
      <4>2. QED
        BY <4>1
    <3>3. QED
      BY <3>1, <3>2
  <2>3. \A u \in Symbols : BlursStay(u)
    BY <1>1, <2>1, <2>2 DEF BlursStay
  <2>4. worker[s].pc # "idle"
    BY <2>1
  <2>5. QED
    BY <1>8, <2>1, <2>3, <2>4
<1>11. ASSUME NEW k \in Session, Subscribe(k) PROVE WorkersInv'
  <2>1. /\ up[k] # << >> /\ up' = [up EXCEPT ![k] = Tail(@)] /\ UNCHANGED <<worker, book>>
    BY <1>11 DEF Subscribe, bookVars
  <2>2. PICK s \in Symbols : s = Head(up[k]).symbol
    BY <1>1, <2>1, RequestTaken DEF Request
  <2> DEFINE X == {t \in Ticks : worker[s].pc # "idle" /\ worker[s].blurs /\ worker[s].entry.tick = t}
             Y == {t \in Ticks : Cardinality({p \in Behind(t) : book[s][p] # << >>}) > 1}
  <2>3. subs' = [subs EXCEPT ![s] = @ \cup {k}] /\ blur' = [blur EXCEPT ![k][s] = X \cup Y]
    BY <1>11, <2>2 DEF Subscribe
  <2>4. ASSUME worker[s].pc # "idle", worker[s].blurs PROVE worker[s].entry.tick \in X
    <3>1. worker[s].entry \in Entry
      BY <1>1, <2>2, <2>4, WorkerIs
    <3>2. worker[s].entry.tick \in Ticks
      BY <3>1 DEF Entry
    <3>3. QED
      BY <2>4, <3>2
  <2> HIDE DEF X, Y
  <2>5. /\ \A j \in Session : blur'[j][s] = IF j = k THEN X \cup Y ELSE blur[j][s]
        /\ \A j \in Session : \A u \in Symbols : u # s => blur'[j][u] = blur[j][u]
        /\ subs'[s] = subs[s] \cup {k}
        /\ \A u \in Symbols : u # s => subs'[u] = subs[u]
    BY <1>1, <2>2, <2>3 DEF Blurs
  <2>6. WorkerSays(s)'
    <3>1. WorkerSays(s)
      BY <2>2, WorkersAre
    <3>2. ASSUME worker[s].pc # "idle", worker[s].blurs, NEW j \in subs'[s]
          PROVE  worker[s].entry.tick \in blur'[j][s]
      <4>1. j \in Session /\ (j = k \/ j \in subs[s])
        BY <1>1, <2>2, <2>5, <3>2
      <4>2. CASE j = k
        BY <2>4, <2>5, <3>2, <4>1, <4>2
      <4>3. CASE j # k
        BY <2>5, <3>1, <3>2, <4>1, <4>3 DEF WorkerSays
      <4>4. QED
        BY <4>2, <4>3
    <3>3. QED
      BY <2>1, <3>1, <3>2 DEF WorkerSays
  <2>7. ASSUME NEW u \in Symbols, u # s PROVE WorkerSays(u)'
    <3>1. BlursStay(u)
      BY <1>1, <2>5, <2>7 DEF BlursStay
    <3>2. QED
      BY <1>2, <2>1, <3>1
  <2>8. QED
    BY <2>6, <2>7, WorkersAre
<1>12. ASSUME NEW k \in Session, Unsubscribe(k) PROVE WorkersInv'
  <2> DEFINE s == Head(up[k]).symbol
  <2>1. /\ up[k] # << >> /\ up' = [up EXCEPT ![k] = Tail(@)]
        /\ subs' = [subs EXCEPT ![s] = @ \ {k}] /\ blur' = [blur EXCEPT ![k][s] = {}]
        /\ UNCHANGED <<worker, book>>
    BY <1>12 DEF Unsubscribe, bookVars
  <2>2. s \in Symbols
    BY <1>1, <2>1, RequestTaken DEF Request
  <2> HIDE DEF s
  <2>3. /\ \A j \in Session : \A u \in Symbols : u # s \/ j # k => blur'[j][u] = blur[j][u]
        /\ subs'[s] = subs[s] \ {k}
        /\ \A u \in Symbols : u # s => subs'[u] = subs[u]
    BY <1>1, <2>1, <2>2 DEF Blurs
  <2>4. ASSUME NEW u \in Symbols PROVE BlursStay(u)
    BY <1>1, <2>3 DEF BlursStay
  <2>5. QED
    BY <1>2, <2>1, <2>4, WorkersAre
<1>13. CASE removeSubscription
  <2>1. /\ io.pc = "unsubscribe" /\ UNCHANGED <<worker, book>>
        /\ \A s \in Symbols : subs'[s] = subs[s] \ {io.session}
        /\ blur' = [blur EXCEPT ![io.session] = [s \in Symbols |-> {}]]
    BY <1>13 DEF removeSubscription, bookVars
  <2>2. \A j \in Session : j # io.session => blur'[j] = blur[j]
    BY <1>1, <2>1 DEF Blurs
  <2>3. ASSUME NEW u \in Symbols PROVE BlursStay(u)
    BY <1>1, <2>1, <2>2 DEF BlursStay
  <2>4. QED
    BY <1>2, <2>1, <2>3, WorkersAre
<1>14. CASE UiStep \/ NetStep \/ UNCHANGED marketVars
  <2>1. UNCHANGED <<subs, blur>>
    BY <1>14 DEF UiStep, Buttons, Sync, PressUnsubscribe, PressSubscribe, NoClick, SwapBook,
       selectSymbol, unchangedByUi, serverVars, NetStep, ConnectionUp, LoggedOn, LoggedOut,
       CheckSymbol, Apply, unchangedByNet, marketVars
  <2>2. QED
    BY <1>3, <1>14, <2>1, OthersKeepBooks
<1>15. ASSUME NEW k \in Session, unregisterSession(k) PROVE WorkersInv'
  BY <1>3, <1>15 DEF unregisterSession, bookVars
<1>16. CASE WalkLevel \/ WriteSnapshot
  BY <1>3, <1>16 DEF WalkLevel, WriteSnapshot, bookVars
<1>17. WorkerStep => WorkersInv'
  BY <1>5, <1>6, <1>7, <1>9, <1>10 DEF WorkerStep
<1>18. IoStep => WorkersInv'
  BY <1>11, <1>12, <1>13, <1>15, <1>16 DEF IoStep
<1>19. QED
  BY <1>14, <1>17, <1>18 DEF MarketNext

-----------------------------------------------------------------------------
(* What is on its way to the client.                                        *)

Messages == Snapshot \cup Refresh

About(queue, s, t) == {i \in DOMAIN queue : queue[i].symbol = s /\ Speaks(queue[i], t)}

LEMMA WillShowIs ==
  ASSUME NEW queue, NEW m, NEW levels, NEW s, NEW t, NEW v
  PROVE  WillShow(queue, m, levels, s, t, v) <=>
           \/ \E i \in About(queue, s, t) :
                Word(queue[i], t) = v /\ \A j \in About(queue, s, t) : j <= i
           \/ About(queue, s, t) = {} /\ v = IF Speaks(m, t) THEN Word(m, t) ELSE levels[t]
BY DEF WillShow, About

LEMMA AppendIs ==
  ASSUME NEW queue \in Seq(Messages), NEW x \in Messages
  PROVE  /\ Len(queue) \in Nat /\ DOMAIN queue = 1..Len(queue)
         /\ DOMAIN Append(queue, x) = 1..(Len(queue) + 1)
         /\ Append(queue, x)[Len(queue) + 1] = x
         /\ \A i \in 1..Len(queue) : Append(queue, x)[i] = queue[i]
BY AppendProperties, LenProperties

(* A message that speaks of the level last decides it.                       *)
LEMMA LastWord ==
  ASSUME NEW queue \in Seq(Messages), NEW x \in Messages, NEW m, NEW levels, NEW s, NEW t,
         x.symbol = s, Speaks(x, t)
  PROVE  WillShow(Append(queue, x), m, levels, s, t, Word(x, t))
<1> DEFINE more == Append(queue, x)
           n == Len(queue)
<1>1. /\ n \in Nat /\ DOMAIN more = 1..(n + 1) /\ more[n + 1] = x
  BY AppendIs
<1> HIDE DEF more, n
<1>2. n + 1 \in About(more, s, t)
  BY <1>1 DEF About
<1>3. \A j \in About(more, s, t) : j <= n + 1
  BY <1>1 DEF About
<1>4. QED
  BY <1>1, <1>2, <1>3, WillShowIs DEF more

(* One that does not leaves it.                                              *)
LEMMA NoWord ==
  ASSUME NEW queue \in Seq(Messages), NEW x \in Messages, NEW m, NEW levels, NEW s, NEW t, NEW v,
         ~(x.symbol = s /\ Speaks(x, t)), WillShow(queue, m, levels, s, t, v)
  PROVE  WillShow(Append(queue, x), m, levels, s, t, v)
<1> DEFINE more == Append(queue, x)
           n == Len(queue)
<1>1. /\ n \in Nat /\ DOMAIN queue = 1..n /\ DOMAIN more = 1..(n + 1) /\ more[n + 1] = x
      /\ \A i \in 1..n : more[i] = queue[i]
  BY AppendIs
<1> HIDE DEF more, n
<1>2. \A i : i \in 1..(n + 1) <=> (i \in 1..n \/ i = n + 1)
  BY <1>1
<1>3. About(more, s, t) = About(queue, s, t)
  BY <1>1, <1>2, Zenon DEF About
<1>4. \A i \in About(queue, s, t) : more[i] = queue[i]
  BY <1>1 DEF About
<1>5. QED
  BY <1>3, <1>4, WillShowIs DEF more

LEMMA NoneSpeaks == \A t : ~Speaks(NoMessage, t)
BY DEF Speaks, NoMessage

(* CheckSymbol: a message is taken off the wire.                             *)
LEMMA Received ==
  ASSUME NEW queue \in Seq(Messages), queue # << >>, NEW levels, NEW s, NEW t, NEW v,
         WillShow(queue, NoMessage, levels, s, t, v)
  PROVE  WillShow(Tail(queue), IF Head(queue).symbol = s THEN Head(queue) ELSE NoMessage,
                  levels, s, t, v)
<1> DEFINE rest == Tail(queue)
           x == Head(queue)
           m == IF x.symbol = s THEN x ELSE NoMessage
           n == Len(rest)
<1>1. /\ n \in Nat /\ DOMAIN rest = 1..n /\ DOMAIN queue = 1..(n + 1) /\ x = queue[1]
      /\ \A i \in 1..n : rest[i] = queue[i + 1]
  <2>1. /\ rest \in Seq(Messages) /\ Len(queue) \in Nat /\ n = Len(queue) - 1 /\ x = queue[1]
        /\ \A i \in 1..n : rest[i] = queue[i + 1]
    BY HeadTailProperties
  <2>2. DOMAIN rest = 1..n /\ n \in Nat /\ DOMAIN queue = 1..Len(queue)
    BY <2>1, LenProperties
  <2>3. QED
    BY <2>1, <2>2
<1> HIDE DEF rest, x, n
<1>2. \A i : i \in About(rest, s, t) <=> i \in 1..n /\ i + 1 \in About(queue, s, t)
  <2>1. \A i \in 1..n : i + 1 \in 1..(n + 1)
    BY <1>1
  <2>2. QED
    BY <1>1, <2>1 DEF About
<1>3. CASE \E i \in About(queue, s, t) :
             Word(queue[i], t) = v /\ \A j \in About(queue, s, t) : j <= i
  <2>1. PICK i \in About(queue, s, t) :
          Word(queue[i], t) = v /\ \A j \in About(queue, s, t) : j <= i
    BY <1>3
  <2>2. i \in 1..(n + 1) /\ queue[i].symbol = s /\ Speaks(queue[i], t)
    BY <1>1, <2>1 DEF About
  <2>3. CASE i = 1
    <3>1. About(rest, s, t) = {}
      <4>1. \A j \in 1..n : ~(j + 1 <= 1)
        BY <1>1
      <4>2. QED
        BY <1>2, <2>1, <2>3, <4>1
    <3>2. m = x /\ Speaks(x, t) /\ Word(x, t) = v
      BY <1>1, <2>1, <2>2, <2>3
    <3>3. QED
      BY <3>1, <3>2, WillShowIs DEF rest, x
  <2>4. CASE i # 1
    <3>1. i - 1 \in 1..n /\ (i - 1) + 1 = i
      BY <1>1, <2>2, <2>4
    <3>2. i - 1 \in About(rest, s, t) /\ rest[i - 1] = queue[i]
      BY <1>1, <1>2, <2>1, <3>1
    <3>3. \A j \in About(rest, s, t) : j <= i - 1
      <4>1. ASSUME NEW j \in About(rest, s, t) PROVE j <= i - 1
        <5>1. j \in 1..n /\ j + 1 <= i
          BY <1>2, <2>1, <4>1
        <5>2. QED
          BY <1>1, <2>2, <5>1
      <4>2. QED
        BY <4>1
    <3>4. QED
      BY <2>1, <3>2, <3>3, WillShowIs DEF rest, x
  <2>5. QED
    BY <2>3, <2>4
<1>4. CASE About(queue, s, t) = {} /\ v = levels[t]
  <2>1. About(rest, s, t) = {}
    BY <1>2, <1>4
  <2>2. ~Speaks(m, t)
    <3>1. 1 \in 1..(n + 1)
      BY <1>1
    <3>2. ~(x.symbol = s /\ Speaks(x, t))
      BY <1>1, <1>4, <3>1 DEF About
    <3>3. QED
      BY <3>2, NoneSpeaks
  <2>3. QED
    BY <1>4, <2>1, <2>2, WillShowIs DEF rest, x
<1>5. QED
  BY <1>3, <1>4, WillShowIs, NoneSpeaks

(* Apply: the message counts now.                                            *)
LEMMA Applied ==
  ASSUME NEW queue, NEW m \in Messages, NEW levels \in [Ticks -> Nat], NEW s, NEW t \in Ticks, NEW v,
         WillShow(queue, m, levels, s, t, v)
  PROVE  WillShow(queue, NoMessage,
                  IF m.type = "W" THEN handleSnapshot(levels, m.entries)
                  ELSE updateLevel(levels, m.entry), s, t, v)
<1> DEFINE after == IF m.type = "W" THEN handleSnapshot(levels, m.entries)
                    ELSE updateLevel(levels, m.entry)
<1>1. after[t] = IF Speaks(m, t) THEN Word(m, t) ELSE levels[t]
  <2>1. CASE m.type = "W"
    <3>1. handleSnapshot(levels, m.entries) = handleSnapshot(NoLevels, m.entries)
      BY SnapshotFold
    <3>2. QED
      BY <2>1, <3>1 DEF Speaks, Word
  <2>2. CASE m.type # "W"
    <3>1. m.type = "X"
      BY <2>2, MessageIs DEF Messages
    <3>2. QED
      BY <2>2, <3>1 DEF Speaks, Word, updateLevel
  <2>3. QED
    BY <2>1, <2>2
<1> HIDE DEF after
<1>2. QED
  BY <1>1, WillShowIs, NoneSpeaks DEF after

-----------------------------------------------------------------------------
(* The stream of the client.                                                *)

Sole(t) ==
  \A p, q \in Behind(t) :
    book[symbol][p] # << >> /\ book[symbol][q] # << >> => p = q

Walked(t) ==
  (\A p \in io.left \cap Behind(t) : book[symbol][p] = << >>)
    => handleSnapshot(NoLevels, io.entries)[t] = LevelSum(book[symbol], t)

Told(t) == WillShow(down[session], net, shown.levels, symbol, t, LevelSum(book[symbol], t))

LEMMA ConvergingIs ==
  ASSUME NEW t
  PROVE  /\ Converging(t) <=>
              Sole(t) /\ (InHand(t) \/ (Walking /\ Walked(t)) \/ (~Walking /\ Told(t)))
         /\ Converging(t)' <=>
              Sole(t)' /\ (InHand(t)' \/ (Walking' /\ Walked(t)') \/ (~Walking' /\ Told(t)'))
BY DEF Converging, Sole, Walked, Told

(* A step that leaves the level alone and keeps what is under way.           *)
LEMMA StillConverging ==
  ASSUME NEW t \in Ticks, Converging(t), UNCHANGED <<session, symbol>>,
         \A p \in Behind(t) : book'[symbol][p] = book[symbol][p],
         InHand(t) => InHand(t)',
         ~InHand(t) /\ Walking => UNCHANGED io,
         ~InHand(t) /\ ~Walking /\ Told(t) =>
           ~Walking' /\ WillShow(down'[session], net', shown'.levels, symbol, t,
                                 LevelSum(book[symbol], t))
  PROVE  Converging(t)'
<1>1. LevelSum(book'[symbol], t) = LevelSum(book[symbol], t)
  BY SumSame
<1>2. Sole(t)'
  BY ConvergingIs DEF Sole
<1>3. CASE InHand(t)
  BY <1>2, <1>3, ConvergingIs
<1>4. CASE ~InHand(t) /\ Walking
  <2>1. Walked(t) /\ io' = io
    BY <1>4, ConvergingIs
  <2>2. Walking'
    BY <1>4, <2>1 DEF Walking
  <2>3. Walked(t)'
    BY <1>1, <2>1 DEF Walked
  <2>4. QED
    BY <1>2, <2>2, <2>3, ConvergingIs
<1>5. CASE ~InHand(t) /\ ~Walking
  <2>1. ~Walking' /\ WillShow(down'[session], net', shown'.levels, symbol, t,
                              LevelSum(book[symbol], t))
    BY <1>5, ConvergingIs
  <2>2. Told(t)'
    BY <1>1, <2>1 DEF Told
  <2>3. QED
    BY <1>2, <2>1, <2>2, ConvergingIs
<1>6. QED
  BY <1>3, <1>4, <1>5

TypesInv == MarketTypeOK /\ SubscriptionsInv /\ FewLevels

LEMMA ActiveIs ==
  ASSUME TypesInv, PanelInv, cstate = "Active"
  PROVE  /\ session \in Session /\ symbol \in Symbols /\ session \in registered /\ Open(session)
         /\ book \in [Symbols -> Books] /\ worker \in [Symbols -> WorkerStates]
         /\ io \in IoStates /\ down \in Wire /\ blur \in Blurs /\ up \in [Session -> Seq(Request)]
         /\ subs \in [Symbols -> SUBSET Session]
         /\ down[session] \in Seq(Messages) /\ shown.levels \in [Ticks -> Nat]
<1>1. TypesInv /\ SubscriptionsInv
  BY DEF TypesInv
<1>2. /\ BookTypes(book, worker) /\ io \in IoStates /\ down \in Wire /\ blur \in Blurs
      /\ ClientTypes(cstate, ui, status, shown, net)
  BY <1>1, TypesAre DEF TypesInv
<1>3. session \in 0..MaxSessions /\ session # 0 /\ symbol \in Symbols
  BY <1>1 DEF SubscriptionsInv
<1>4. session \in Session
  BY <1>3, MarketAssumption DEF Session
<1>5. session \in registered /\ Open(session)
  BY PanelIs DEF Open
<1>6. down[session] \in Seq(Messages)
  BY <1>2, <1>4 DEF Wire, Messages
<1>7. shown.levels \in [Ticks -> Nat]
  BY <1>2 DEF ClientTypes
<1>8. QED
  BY <1>1, <1>2, <1>3, <1>4, <1>5, <1>6, <1>7 DEF BookTypes, SubscriptionsInv

LEMMA StreamIs ==
  ASSUME TypesInv, PanelInv, Streaming
  PROVE  /\ session \in Session /\ symbol \in Symbols /\ session \in registered
         /\ session \in subs[symbol] /\ Open(session) /\ cstate = "Active"
         /\ book \in [Symbols -> Books] /\ worker \in [Symbols -> WorkerStates]
         /\ io \in IoStates /\ down \in Wire /\ blur \in Blurs /\ up \in [Session -> Seq(Request)]
         /\ subs \in [Symbols -> SUBSET Session]
         /\ down[session] \in Seq(Messages) /\ shown.levels \in [Ticks -> Nat]
BY ActiveIs DEF Streaming

LEMMA WriteIs ==
  ASSUME down \in Wire, session \in Session, Open(session), NEW k \in Session, NEW m, Write(k, m)
  PROVE  down'[session] = IF k = session THEN Append(down[session], m) ELSE down[session]
BY DEF Write, Open, Wire

(* A worker's step, seen by the client that streams symbol.                  *)
LEMMA FeedBook ==
  ASSUME TypesInv, PanelInv, WorkersInv, Streaming,
         UNCHANGED <<session, symbol, io, net, shown>>, book' \in [Symbols -> Books],
         NEW t \in Ticks, t \notin blur'[session][symbol],
         t \notin blur[session][symbol] => Converging(t),
         NEW s \in Symbols, NEW p \in Levels,
         \/ \E q \in Sizes : Insert(s, p, q)
         \/ \E i \in DOMAIN book[s][p] : Cancel(s, p, i)
         \/ Trade(s, p)
  PROVE  Converging(t)'
<1>1. /\ session \in Session /\ symbol \in Symbols /\ session \in subs[symbol]
      /\ book \in [Symbols -> Books] /\ worker \in [Symbols -> WorkerStates]
      /\ blur \in Blurs /\ subs \in [Symbols -> SUBSET Session]
  BY StreamIs
<1>2. UNCHANGED <<subs, down>> /\ worker[s].pc = "idle"
  BY DEF Insert, Cancel, Trade, serverVars
<1>3. /\ blur' \in {blur, Blurred(s, Rounded(p))}
      /\ \A u \in Symbols : u # s => worker'[u] = worker[u]
      /\ worker'[s].pc = "idle" \/ (worker'[s].pc = "publish" /\ worker'[s].entry.tick = Rounded(p))
  <2>1. ASSUME NEW action, NEW q, NEW b, Publishing(s, action, p, q, b)
        PROVE  /\ blur' \in {blur, Blurred(s, Rounded(p))}
               /\ \A u \in Symbols : u # s => worker'[u] = worker[u]
               /\ worker'[s].pc = "publish" /\ worker'[s].entry.tick = Rounded(p)
    BY <1>1, <2>1 DEF Publishing
  <2>2. CASE Trade(s, p)
    BY <1>2, <2>2 DEF Trade
  <2>3. ASSUME NEW q \in Sizes, Insert(s, p, q)
        PROVE  \E action, b : Publishing(s, action, p, q, b)
    BY <2>3 DEF Insert
  <2>4. ASSUME NEW i \in DOMAIN book[s][p], Cancel(s, p, i)
        PROVE  \E action, q, b : Publishing(s, action, p, q, b)
    BY <2>4 DEF Cancel
  <2>5. QED
    BY <2>1, <2>2, <2>3, <2>4
<1>4. \A u \in Symbols : \A x \in Levels : u # s \/ x # p => book'[u][x] = book[u][x]
  <2>1. PICK level : book' = [book EXCEPT ![s][p] = level]
    <3>1. CASE \E q \in Sizes : Insert(s, p, q)
      BY <3>1 DEF Insert
    <3>2. CASE \E i \in DOMAIN book[s][p] : Cancel(s, p, i)
      BY <3>2 DEF Cancel
    <3>3. CASE Trade(s, p)
      BY <3>3 DEF Trade
    <3>4. QED
      BY <3>1, <3>2, <3>3
  <2>2. QED
    BY <1>1, <2>1 DEF Books
<1>5. t \notin blur[session][symbol] /\ Converging(t)
  BY <1>1, <1>3, BlurredIs
<1>6. CASE symbol # s \/ t # Rounded(p)
  <2>1. \A x \in Behind(t) : book'[symbol][x] = book[symbol][x]
    BY <1>1, <1>4, <1>6 DEF Behind
  <2>2. InHand(t) => InHand(t)'
    BY <1>1, <1>2, <1>3 DEF InHand
  <2>3. ~Walking => ~Walking'
    BY DEF Walking
  <2>4. QED
    BY <1>2, <1>5, <2>1, <2>2, <2>3, StillConverging DEF Told
<1>7. CASE symbol = s /\ t = Rounded(p)
  <2>1. blur' # Blurred(s, Rounded(p))
    BY <1>1, <1>7, BlurredIs
  <2>2. ~Trade(s, p)
    BY <2>1 DEF Trade
  <2>3. ASSUME NEW q \in Sizes, Insert(s, p, q)
        PROVE  Sole(t)' /\ InHand(t)'
    <3>1. Publishing(s, "New", p, q, Crowded(book'[s], Rounded(p)))
      BY <2>3 DEF Insert
    <3>2. ~Crowded(book'[s], Rounded(p))
      BY <2>1, <3>1 DEF Publishing
    <3>3. \A x \in Behind(t) : x # p => book'[s][x] = << >>
      BY <1>1, <1>7, <2>3, <3>2, InsertTells
    <3>4. worker'[s].pc = "publish" /\ worker'[s].entry.tick = t
      BY <1>1, <1>7, <3>1 DEF Publishing
    <3>5. QED
      BY <1>7, <3>3, <3>4 DEF Sole, InHand
  <2>4. ASSUME NEW i \in DOMAIN book[s][p], Cancel(s, p, i)
        PROVE  Sole(t)' /\ InHand(t)'
    <3>1. Publishing(s, "Delete", p, book[s][p][i], Crowded(book[s], Rounded(p)))
      BY <2>4 DEF Cancel
    <3>2. ~Crowded(book[s], Rounded(p))
      BY <2>1, <3>1 DEF Publishing
    <3>3. \A x \in Behind(t) : book'[s][x] = << >>
      BY <1>1, <1>7, <2>4, <3>2, CancelTells
    <3>4. worker'[s].pc = "publish" /\ worker'[s].entry.tick = t
      BY <1>1, <1>7, <3>1 DEF Publishing
    <3>5. QED
      BY <1>7, <3>3, <3>4 DEF Sole, InHand
  <2>5. QED
    BY <2>2, <2>3, <2>4, ConvergingIs
<1>8. QED
  BY <1>6, <1>7

(* A message has been written to the client.                                 *)
LEMMA Sent ==
  ASSUME down[session] \in Seq(Messages), NEW x \in Messages, UNCHANGED <<net, shown>>,
         down'[session] = Append(down[session], x), NEW t, NEW v
  PROVE  /\ x.symbol = symbol /\ Speaks(x, t) =>
              WillShow(down'[session], net', shown'.levels, symbol, t, Word(x, t))
         /\ ~(x.symbol = symbol /\ Speaks(x, t)) =>
              (WillShow(down[session], net, shown.levels, symbol, t, v)
                 => WillShow(down'[session], net', shown'.levels, symbol, t, v))
<1> DEFINE queue == down[session]
           more == down'[session]
           n == net
           l == shown.levels
           s == symbol
<1>1. queue \in Seq(Messages) /\ more = Append(queue, x)
  OBVIOUS
<1>2. net' = n /\ shown'.levels = l
  OBVIOUS
<1> HIDE DEF queue, more, n, l, s
<1>3. ASSUME x.symbol = s, Speaks(x, t) PROVE WillShow(more, n, l, s, t, Word(x, t))
  <2>1. WillShow(Append(queue, x), n, l, s, t, Word(x, t))
    BY ONLY x \in Messages, <1>1, <1>3, LastWord
  <2>2. QED
    BY <1>1, <2>1
<1>4. ASSUME ~(x.symbol = s /\ Speaks(x, t)), WillShow(queue, n, l, s, t, v)
      PROVE  WillShow(more, n, l, s, t, v)
  <2>1. WillShow(Append(queue, x), n, l, s, t, v)
    BY ONLY x \in Messages, <1>1, <1>4, NoWord
  <2>2. QED
    BY <1>1, <2>1
<1>5. QED
  BY <1>2, <1>3, <1>4 DEF queue, more, n, l, s

LEMMA FeedPublish ==
  ASSUME TypesInv, PanelInv, Streaming, UNCHANGED <<session, symbol, io, net, shown>>,
         NEW t \in Ticks, t \notin blur'[session][symbol],
         t \notin blur[session][symbol] => Converging(t),
         NEW s \in Symbols, publishIncremental(s)
  PROVE  Converging(t)'
<1>1. /\ session \in subs[symbol] /\ symbol \in Symbols /\ worker \in [Symbols -> WorkerStates]
  BY StreamIs
<1>2. UNCHANGED <<book, down, blur>> /\ worker[s].pc = "publish" /\ Remaining(s, subs[s])
  BY DEF publishIncremental
<1>3. InHand(t) => InHand(t)'
  <2>1. CASE s # symbol
    <3>1. worker'[symbol] = worker[symbol]
      BY <1>1, <1>2, <2>1 DEF Remaining
    <3>2. QED
      BY <3>1 DEF InHand
  <2>2. CASE s = symbol
    <3>1. worker'[symbol] = [pc |-> "deliver", blurs |-> worker[symbol].blurs,
                             entry |-> worker[symbol].entry, targets |-> subs[symbol]]
      BY <1>1, <1>2, <2>2 DEF Remaining
    <3>2. QED
      BY <1>1, <3>1 DEF InHand
  <2>3. QED
    BY <2>1, <2>2
<1>4. ~Walking => ~Walking'
  BY DEF Walking
<1>5. QED
  BY <1>2, <1>3, <1>4, StillConverging DEF Told

LEMMA FeedDeliver ==
  ASSUME TypesInv, PanelInv, WorkersInv, Streaming, UNCHANGED <<session, symbol, io, net, shown>>,
         NEW t \in Ticks, t \notin blur'[session][symbol],
         t \notin blur[session][symbol] => Converging(t),
         NEW s \in Symbols, NEW k \in Session, Deliver(s, k)
  PROVE  Converging(t)'
<1> DEFINE m == [type |-> "X", symbol |-> s, entry |-> worker[s].entry]
           T == worker[s].targets \ {k}
<1>1. /\ session \in Session /\ symbol \in Symbols /\ session \in registered
      /\ session \in subs[symbol] /\ Open(session)
      /\ book \in [Symbols -> Books] /\ worker \in [Symbols -> WorkerStates]
      /\ down \in Wire /\ blur \in Blurs /\ down[session] \in Seq(Messages)
  BY StreamIs
<1>2. /\ worker[s].pc = "deliver" /\ k \in worker[s].targets /\ Remaining(s, T)
      /\ IF k \in registered THEN Write(k, m) ELSE UNCHANGED down
      /\ blur' = IF io.pc = "walk" /\ io.session = k /\ io.symbol = s
                 THEN [blur EXCEPT ![k][s] = @ \cup {worker[s].entry.tick}] ELSE blur
      /\ UNCHANGED book
  BY DEF Deliver
<1>3. worker[s].entry \in Entry /\ worker[s].targets \in SUBSET Session
  BY <1>1, <1>2, WorkerIs
<1>4. m \in Messages /\ m.symbol = s /\ (Speaks(m, t) <=> worker[s].entry.tick = t)
      /\ Word(m, t) = Stated(worker[s].entry)
  BY <1>3 DEF Messages, Refresh, Speaks, Word
<1>5. worker' = [worker EXCEPT ![s] = IF T = {} THEN IdleWorker
                   ELSE [pc |-> "deliver", blurs |-> worker[s].blurs, entry |-> worker[s].entry,
                         targets |-> T]]
  BY <1>2 DEF Remaining
<1>6. blur[session][symbol] \subseteq blur'[session][symbol]
  <2> DEFINE x == worker[s].entry.tick
  <2>1. blur' = blur \/ blur' = [blur EXCEPT ![k][s] = @ \cup {x}]
    BY <1>2
  <2> HIDE DEF x
  <2>2. CASE blur' = [blur EXCEPT ![k][s] = @ \cup {x}]
    <3>1. blur'[session][symbol] = IF session = k /\ symbol = s
                                   THEN blur[session][symbol] \cup {x} ELSE blur[session][symbol]
      BY <1>1, <2>2 DEF Blurs
    <3>2. QED
      BY <3>1
  <2>3. QED
    BY <2>1, <2>2
<1>7. t \notin blur[session][symbol] /\ Converging(t)
  BY <1>6
<1>8. \/ k = session /\ down'[session] = Append(down[session], m)
      \/ k # session /\ down'[session] = down[session]
  <2> HIDE DEF m
  <2>1. CASE k = session
    <3>1. Write(session, m)
      BY <1>1, <1>2, <2>1
    <3>2. down'[session] = Append(down[session], m)
      BY ONLY <1>1, <3>1, WriteIs
    <3>3. QED
      BY <2>1, <3>2
  <2>2. CASE k # session
    BY <1>1, <1>2, <2>2, WriteIs
  <2>3. QED
    BY <2>1, <2>2
<1> HIDE DEF m
<1>9. ~Walking => ~Walking'
  BY DEF Walking
<1>10. CASE s # symbol \/ k # session
  <2>1. InHand(t) => InHand(t)'
    <3>1. CASE s # symbol
      BY <1>1, <1>5, <3>1 DEF InHand
    <3>2. CASE s = symbol /\ k # session
      <4>1. ASSUME InHand(t) PROVE session \in T /\ worker[symbol].entry.tick = t
        BY <1>2, <3>2, <4>1 DEF InHand
      <4>2. session \in T =>
              worker'[symbol] = [pc |-> "deliver", blurs |-> worker[s].blurs,
                                 entry |-> worker[s].entry, targets |-> T]
        BY <1>1, <1>5, <3>2
      <4> HIDE DEF T
      <4>3. QED
        BY <3>2, <4>1, <4>2 DEF InHand
    <3>3. QED
      BY <1>10, <3>1, <3>2
  <2>2. Told(t) => WillShow(down'[session], net', shown'.levels, symbol, t, LevelSum(book[symbol], t))
    <3>1. CASE k # session
      BY <1>8, <3>1 DEF Told
    <3>2. CASE k = session /\ s # symbol
      BY <1>1, <1>4, <1>8, <3>2, Sent DEF Told
    <3>3. QED
      BY <1>10, <3>1, <3>2
  <2>3. QED
    BY <1>2, <1>7, <1>9, <2>1, <2>2, StillConverging
<1>11. CASE s = symbol /\ k = session
  <2>1. CASE worker[s].entry.tick # t
    <3>1. ~InHand(t)
      BY <1>11, <2>1 DEF InHand
    <3>2. Told(t) => WillShow(down'[session], net', shown'.levels, symbol, t, LevelSum(book[symbol], t))
      BY <1>1, <1>4, <1>8, <1>11, <2>1, Sent DEF Told
    <3>3. QED
      BY <1>2, <1>7, <1>9, <3>1, <3>2, StillConverging
  <2>2. CASE worker[s].entry.tick = t
    <3>1. ~(io.pc = "walk" /\ io.session = k /\ io.symbol = s)
      <4>1. SUFFICES ASSUME io.pc = "walk" /\ io.session = k /\ io.symbol = s PROVE FALSE
        OBVIOUS
      <4>2. blur' = [blur EXCEPT ![k][s] = @ \cup {t}]
        BY <1>2, <2>2, <4>1
      <4>3. t \in blur'[session][symbol]
        BY <1>1, <1>11, <4>2 DEF Blurs
      <4>4. QED
        BY <4>3
    <3>2. ~Walking'
      BY <1>11, <3>1 DEF Walking
    <3>3. Stated(worker[s].entry) = LevelSum(book[symbol], t)
      <4>1. WorkerSays(symbol)
        BY <1>1, WorkersAre
      <4>2. QED
        BY <1>1, <1>2, <1>7, <1>11, <2>2, <4>1 DEF WorkerSays
    <3>4. WillShow(down'[session], net', shown'.levels, symbol, t, LevelSum(book[symbol], t))
      BY <1>1, <1>4, <1>8, <1>11, <2>2, <3>3, Sent
    <3>5. Sole(t)' /\ Told(t)'
      BY <1>2, <1>7, <3>4, ConvergingIs DEF Sole, Told
    <3>6. QED
      BY <3>2, <3>5, ConvergingIs
  <2>3. QED
    BY <2>1, <2>2
<1>12. QED
  BY <1>10, <1>11

(* No worker disturbs the stream.                                            *)
LEMMA FeedWorker ==
  ASSUME TypesInv, FeedInv, WorkerStep, Streaming', NEW t \in Ticks \ blur'[session'][symbol']
  PROVE  Converging(t)'
<1>1. UNCHANGED <<session, symbol, io, net, shown, cstate, status, subs, up>>
  BY DEF WorkerStep, Insert, Cancel, Trade, publishIncremental, Deliver, serverVars, clientVars
<1>2. Streaming
  BY <1>1 DEF Streaming
<1>3. /\ PanelInv /\ WorkersInv /\ t \in Ticks /\ t \notin blur'[session][symbol]
      /\ t \notin blur[session][symbol] => Converging(t)
  BY <1>1, <1>2 DEF FeedInv
<1>4. book' \in [Symbols -> Books]
  <2>1. MarketTypeOK' /\ SubscriptionsInv'
    BY WorkerTypes, WorkersQuiet, InvIs DEF TypesInv
  <2>2. QED
    BY <2>1, TypesAre DEF BookTypes
<1>5. PICK s \in Symbols :
        \/ \E p \in Levels : \/ \E q \in Sizes : Insert(s, p, q)
                             \/ \E i \in DOMAIN book[s][p] : Cancel(s, p, i)
                             \/ Trade(s, p)
        \/ publishIncremental(s)
        \/ \E k \in Session : Deliver(s, k)
  BY DEF WorkerStep
<1>6. CASE \E p \in Levels : \/ \E q \in Sizes : Insert(s, p, q)
                             \/ \E i \in DOMAIN book[s][p] : Cancel(s, p, i)
                             \/ Trade(s, p)
  BY <1>1, <1>2, <1>3, <1>4, <1>6, FeedBook
<1>7. CASE publishIncremental(s)
  BY <1>1, <1>2, <1>3, <1>7, FeedPublish
<1>8. CASE \E k \in Session : Deliver(s, k)
  BY <1>1, <1>2, <1>3, <1>8, FeedDeliver
<1>9. QED
  BY <1>5, <1>6, <1>7, <1>8

(* A request of another session, or for another symbol, is no concern of     *)
(* the stream.                                                              *)
LEMMA OtherRequest ==
  ASSUME TypesInv, PanelInv, cstate = "Active", UNCHANGED <<session, symbol, cstate, status>>,
         NEW k \in Session, up[k] # << >>, up' = [up EXCEPT ![k] = Tail(@)],
         NEW s \in Symbols, s = Head(up[k]).symbol, k # session \/ s # symbol,
         \/ subs' = [subs EXCEPT ![s] = @ \cup {k}] \/ subs' = [subs EXCEPT ![s] = @ \ {k}],
         NEW X, blur' = [blur EXCEPT ![k][s] = X]
  PROVE  /\ Streaming' => Streaming
         /\ blur'[session][symbol] = blur[session][symbol]
<1>1. /\ session \in Session /\ symbol \in Symbols /\ blur \in Blurs
      /\ up \in [Session -> Seq(Request)] /\ subs \in [Symbols -> SUBSET Session]
  BY ActiveIs
<1>2. blur'[session][symbol] = blur[session][symbol]
  BY <1>1 DEF Blurs
<1>3. session \in subs'[symbol] => session \in subs[symbol]
  <2>1. CASE subs' = [subs EXCEPT ![s] = @ \cup {k}]
    BY <1>1, <2>1
  <2>2. CASE subs' = [subs EXCEPT ![s] = @ \ {k}]
    BY <1>1, <2>2
  <2>3. QED
    BY <2>1, <2>2
<1>4. ASSUME \A i \in DOMAIN up'[session] : up'[session][i].symbol # symbol
      PROVE  \A i \in DOMAIN up[session] : up[session][i].symbol # symbol
  <2>1. CASE k # session
    BY <1>1, <1>4, <2>1
  <2>2. CASE k = session
    <3> DEFINE q == up[session]
               rest == Tail(q)
    <3>1. q \in Seq(Request) /\ q # << >> /\ up'[session] = rest /\ Head(q).symbol # symbol
      BY <1>1, <2>2
    <3>2. /\ Len(q) \in Nat /\ Len(rest) = Len(q) - 1 /\ Head(q) = q[1]
          /\ DOMAIN q = 1..Len(q) /\ DOMAIN rest = 1..Len(rest)
          /\ \A i \in 1..Len(rest) : rest[i] = q[i + 1]
      <4>1. rest \in Seq(Request) /\ Len(rest) = Len(q) - 1 /\ Head(q) = q[1]
            /\ \A i \in 1..Len(rest) : rest[i] = q[i + 1]
        BY <3>1, HeadTailProperties
      <4>2. QED
        BY <3>1, <4>1, LenProperties
    <3> HIDE DEF q, rest
    <3>3. ASSUME NEW i \in 1..Len(q), i # 1 PROVE q[i].symbol # symbol
      <4>1. i - 1 \in 1..Len(rest) /\ (i - 1) + 1 = i
        BY <3>2, <3>3
      <4>2. rest[i - 1] = q[i]
        BY <3>2, <4>1
      <4>3. rest[i - 1].symbol # symbol
        BY <1>4, <3>1, <3>2, <4>1
      <4>4. QED
        BY <4>2, <4>3
    <3>4. QED
      BY <3>1, <3>2, <3>3 DEF q
  <2>3. QED
    BY <2>1, <2>2
<1>5. QED
  BY <1>2, <1>3, <1>4 DEF Streaming

(* A level that is not shown yet: nothing of the walk has been noted.        *)
LEMMA FreshWalk ==
  ASSUME book \in [Symbols -> Books], symbol \in Symbols, NEW t \in Ticks,
         Cardinality({p \in Behind(t) : book[symbol][p] # << >>}) <= 1
  PROVE  /\ Sole(t)
         /\ (\A p \in Levels \cap Behind(t) : book[symbol][p] = << >>)
              => handleSnapshot(NoLevels, << >>)[t] = LevelSum(book[symbol], t)
<1> DEFINE full == {p \in Behind(t) : book[symbol][p] # << >>}
<1>1. Behind(t) \in SUBSET Levels /\ IsFiniteSet(Behind(t)) /\ full \in SUBSET Behind(t)
  BY BehindIs
<1>2. Sole(t)
  <2>1. SUFFICES ASSUME NEW p \in full, NEW q \in full, p # q PROVE FALSE
    BY DEF Sole
  <2> HIDE DEF full
  <2>2. IsFiniteSet(full) /\ Cardinality(full) \in Nat
    BY <1>1, FS_Subset, FS_CardinalityType
  <2>3. Cardinality(full) <= 1
    BY DEF full
  <2>4. Cardinality(full) = 0 \/ Cardinality(full) = 1
    BY <2>2, <2>3
  <2>5. full = {} \/ \E x : full = {x}
    BY <2>2, <2>4, FS_EmptySet, FS_Singleton
  <2>6. QED
    BY <2>1, <2>5
<1>3. ASSUME \A p \in Levels \cap Behind(t) : book[symbol][p] = << >>
      PROVE  handleSnapshot(NoLevels, << >>)[t] = LevelSum(book[symbol], t)
  <2>1. LevelSum(book[symbol], t) = 0
    BY <1>1, <1>3, SumNone
  <2>2. << >> \in Seq(Quote)
    BY EmptySeq
  <2>3. handleSnapshot(NoLevels, << >>) = NoLevels
    BY <2>2, SnapshotOf
  <2>4. QED
    BY <2>1, <2>3 DEF NoLevels
<1>4. QED
  BY <1>2, <1>3

LEMMA FeedSubscribe ==
  ASSUME TypesInv, FeedInv, cstate = "Active", UNCHANGED <<session, symbol, cstate, status>>,
         UNCHANGED <<net, shown, worker, book, down>>, Streaming',
         NEW t \in Ticks, t \notin blur'[session][symbol],
         NEW k \in Session, Subscribe(k)
  PROVE  Converging(t)'
<1>1. /\ session \in Session /\ symbol \in Symbols /\ blur \in Blurs /\ book \in [Symbols -> Books]
      /\ up \in [Session -> Seq(Request)] /\ subs \in [Symbols -> SUBSET Session] /\ PanelInv
  BY ActiveIs DEF FeedInv
<1>2. /\ io.pc = "idle" /\ up[k] # << >> /\ up' = [up EXCEPT ![k] = Tail(@)]
  BY DEF Subscribe
<1>3. PICK s \in Symbols : s = Head(up[k]).symbol
  BY <1>1, <1>2, RequestTaken DEF Request
<1> DEFINE X == {x \in Ticks : worker[s].pc # "idle" /\ worker[s].blurs /\ worker[s].entry.tick = x}
           Y == {x \in Ticks : Cardinality({p \in Behind(x) : book[s][p] # << >>}) > 1}
<1>4. /\ subs' = [subs EXCEPT ![s] = @ \cup {k}] /\ blur' = [blur EXCEPT ![k][s] = X \cup Y]
      /\ io' = [pc |-> "walk", session |-> k, symbol |-> s, left |-> Levels, entries |-> << >>]
  BY <1>3 DEF Subscribe
<1>5. CASE k = session /\ s = symbol
  <2>1. t \notin Y
    <3> HIDE DEF X, Y
    <3>1. blur'[session][symbol] = X \cup Y
      BY <1>1, <1>4, <1>5 DEF Blurs
    <3>2. QED
      BY <3>1
  <2>2. ~(Cardinality({p \in Behind(t) : book[symbol][p] # << >>}) > 1)
    BY <1>5, <2>1
  <2>3. Cardinality({p \in Behind(t) : book[symbol][p] # << >>}) \in Nat
    <3> DEFINE full == {p \in Behind(t) : book[symbol][p] # << >>}
    <3>1. IsFiniteSet(Behind(t)) /\ full \in SUBSET Behind(t)
      BY BehindIs
    <3> HIDE DEF full
    <3>2. Cardinality(full) \in Nat
      BY <3>1, FS_Subset, FS_CardinalityType
    <3>3. QED
      BY <3>2 DEF full
  <2>4. Cardinality({p \in Behind(t) : book[symbol][p] # << >>}) <= 1
    <3> DEFINE n == Cardinality({p \in Behind(t) : book[symbol][p] # << >>})
    <3>1. n \in Nat /\ ~(n > 1)
      BY <2>2, <2>3
    <3> HIDE DEF n
    <3>2. n <= 1
      BY <3>1
    <3>3. QED
      BY <3>2 DEF n
  <2>5. /\ Sole(t)
        /\ (\A p \in Levels \cap Behind(t) : book[symbol][p] = << >>)
             => handleSnapshot(NoLevels, << >>)[t] = LevelSum(book[symbol], t)
    BY <1>1, <2>4, FreshWalk
  <2>6. Walking'
    BY <1>4, <1>5 DEF Walking
  <2>7. Sole(t)' /\ Walked(t)'
    <3>1. io'.left = Levels /\ io'.entries = << >>
      BY <1>4
    <3>2. QED
      BY <2>5, <3>1 DEF Sole, Walked
  <2>8. QED
    BY <2>6, <2>7, ConvergingIs
<1>6. CASE k # session \/ s # symbol
  <2> HIDE DEF X, Y
  <2>1. Streaming /\ blur'[session][symbol] = blur[session][symbol]
    BY <1>1, <1>2, <1>3, <1>4, <1>6, OtherRequest
  <2>2. Converging(t)
    BY <2>1 DEF FeedInv
  <2>3. ~Walking /\ ~Walking'
    BY <1>2, <1>4, <1>6 DEF Walking
  <2>4. InHand(t) => InHand(t)'
    BY DEF InHand
  <2>5. QED
    BY <2>2, <2>3, <2>4, StillConverging DEF Told
<1>7. QED
  BY <1>5, <1>6

LEMMA FeedUnsubscribe ==
  ASSUME TypesInv, FeedInv, cstate = "Active", UNCHANGED <<session, symbol, cstate, status>>,
         UNCHANGED <<net, shown, worker, book, down, io>>, Streaming',
         NEW t \in Ticks, t \notin blur'[session][symbol],
         NEW k \in Session, Unsubscribe(k)
  PROVE  Converging(t)'
<1>1. /\ session \in Session /\ symbol \in Symbols /\ blur \in Blurs /\ book \in [Symbols -> Books]
      /\ up \in [Session -> Seq(Request)] /\ subs \in [Symbols -> SUBSET Session] /\ PanelInv
  BY ActiveIs DEF FeedInv
<1>2. up[k] # << >> /\ up' = [up EXCEPT ![k] = Tail(@)]
  BY DEF Unsubscribe
<1>3. PICK s \in Symbols : s = Head(up[k]).symbol
  BY <1>1, <1>2, RequestTaken DEF Request
<1>4. subs' = [subs EXCEPT ![s] = @ \ {k}] /\ blur' = [blur EXCEPT ![k][s] = {}]
  BY <1>3 DEF Unsubscribe
<1>5. k # session \/ s # symbol
  BY <1>1, <1>4 DEF Streaming
<1>6. Streaming /\ blur'[session][symbol] = blur[session][symbol]
  BY <1>1, <1>2, <1>3, <1>4, <1>5, OtherRequest
<1>7. Converging(t)
  BY <1>6 DEF FeedInv
<1>8. (InHand(t) => InHand(t)') /\ (~Walking => ~Walking')
  BY DEF InHand, Walking
<1>9. QED
  BY <1>7, <1>8, StillConverging DEF Told

LEMMA FeedWalk ==
  ASSUME TypesInv, PanelInv, Streaming,
         UNCHANGED <<session, symbol, net, shown, worker, book, down>>,
         NEW t \in Ticks, Converging(t), WalkLevel
  PROVE  Converging(t)'
<1> DEFINE m == Max(Found)
           e == [tick |-> Rounded(m), size |-> Total(book[io.symbol][m])]
           l == {p \in io.left : p < m}
<1>1. /\ book \in [Symbols -> Books] /\ io \in IoStates /\ symbol \in Symbols
  BY StreamIs
<1>2. /\ io.pc = "walk" /\ m \in Found /\ m \in Levels /\ e \in Quote /\ \A p \in Found : p <= m
      /\ io' = [pc |-> "walk", session |-> io.session, symbol |-> io.symbol, left |-> l,
                entries |-> Append(io.entries, e)]
  BY <1>1, WalkIs DEF TypesInv
<1>3. Walking <=> Walking'
  BY <1>2 DEF Walking
<1>4. InHand(t) => InHand(t)'
  BY DEF InHand
<1>5. CASE InHand(t) \/ ~Walking
  BY <1>3, <1>4, <1>5, StillConverging DEF Told
<1>6. CASE Walking /\ ~InHand(t)
  <2>1. Sole(t) /\ Walked(t) /\ io.symbol = symbol
    BY <1>6, ConvergingIs DEF Walking
  <2>2. io.entries \in Seq(Quote) /\ io.left \in SUBSET Levels
    BY <1>1, <1>2, IoIs
  <2>3. handleSnapshot(NoLevels, Append(io.entries, e)) =
          [handleSnapshot(NoLevels, io.entries) EXCEPT ![Rounded(m)] = Total(book[symbol][m])]
    <3>1. handleSnapshot(NoLevels, Append(io.entries, e)) =
            [handleSnapshot(NoLevels, io.entries) EXCEPT ![e.tick] = e.size]
      BY <1>2, <2>2, SnapshotAppend
    <3>2. e.tick = Rounded(m) /\ e.size = Total(book[symbol][m])
      BY <2>1
    <3>3. QED
      BY <3>1, <3>2
  <2>4. io'.left = l /\ io'.entries = Append(io.entries, e)
    BY <1>2
  <2>5. handleSnapshot(NoLevels, io.entries) \in [Ticks -> Nat]
    BY <2>2, SnapshotOf
  <2>6. Walked(t)'
    <3>1. SUFFICES ASSUME \A p \in l \cap Behind(t) : book[symbol][p] = << >>
                   PROVE  handleSnapshot(NoLevels, Append(io.entries, e))[t]
                            = LevelSum(book[symbol], t)
      BY <2>4 DEF Walked
    <3>2. CASE t = Rounded(m)
      <4>1. m \in Behind(t) /\ book[symbol][m] # << >>
        BY <1>2, <2>1, <3>2 DEF Behind, Found
      <4>2. \A q \in Behind(t) : q # m => book[symbol][q] = << >>
        BY <2>1, <4>1 DEF Sole
      <4>3. LevelSum(book[symbol], t) = Total(book[symbol][m])
        <5> DEFINE b == book[symbol]
        <5>1. b \in Books
          BY <1>1
        <5> HIDE DEF b, m
        <5>2. m \in Behind(t) /\ \A q \in Behind(t) : q # m => b[q] = << >>
          BY <4>1, <4>2 DEF b
        <5>3. LevelSum(b, t) = Total(b[m])
          BY <5>1, <5>2, SumOne
        <5>4. QED
          BY <5>3 DEF b
      <4>4. QED
        BY <2>3, <2>5, <3>2, <4>3
    <3>3. CASE t # Rounded(m)
      <4>1. \A p \in io.left \cap Behind(t) : book[symbol][p] = << >>
        <5>1. ASSUME NEW p \in io.left, p \in Behind(t), book[symbol][p] # << >> PROVE FALSE
          <6>1. p \in Found /\ p \in Levels
            BY <2>1, <2>2, <5>1 DEF Found
          <6>2. p <= m /\ p # m
            BY <1>2, <3>3, <5>1, <6>1 DEF Behind
          <6>3. p \in Int /\ m \in Int
            BY <1>2, <6>1, LevelIs
          <6> HIDE DEF m
          <6>4. p < m
            BY <6>2, <6>3
          <6>5. QED
            BY <3>1, <5>1, <6>4
        <5>2. QED
          BY <5>1
      <4>2. handleSnapshot(NoLevels, io.entries)[t] = LevelSum(book[symbol], t)
        BY <2>1, <4>1 DEF Walked
      <4>3. QED
        BY <2>3, <2>5, <3>3, <4>2
    <3>4. QED
      BY <3>2, <3>3
  <2>7. QED
    BY <1>3, <1>6, <2>1, <2>6, ConvergingIs DEF Sole
<1>7. QED
  BY <1>5, <1>6

LEMMA FeedSnapshot ==
  ASSUME TypesInv, PanelInv, Streaming,
         UNCHANGED <<session, symbol, net, shown, worker, book>>,
         NEW t \in Ticks, Converging(t), WriteSnapshot
  PROVE  Converging(t)'
<1> DEFINE m == [type |-> "W", symbol |-> io.symbol, entries |-> io.entries]
<1>1. /\ session \in Session /\ symbol \in Symbols /\ Open(session)
      /\ io \in IoStates /\ down \in Wire /\ down[session] \in Seq(Messages)
  BY StreamIs
<1>2. /\ io.pc = "walk" /\ io' = IdleIo /\ Write(io.session, m)
      /\ \A p \in io.left : book[io.symbol][p] = << >>
  BY DEF WriteSnapshot
<1>3. io.session \in Session /\ io.symbol \in Symbols /\ io.entries \in Seq(Quote)
  BY <1>1, <1>2, IoIs
<1>4. m \in Messages /\ m.symbol = io.symbol /\ Speaks(m, t)
      /\ Word(m, t) = handleSnapshot(NoLevels, io.entries)[t]
  BY <1>3 DEF Messages, Snapshot, Speaks, Word
<1> HIDE DEF m
<1>5. down'[session] = IF io.session = session THEN Append(down[session], m) ELSE down[session]
  <2> DEFINE k == io.session
  <2>1. k \in Session /\ Write(k, m)
    BY <1>2, <1>3
  <2> HIDE DEF k
  <2>2. down'[session] = IF k = session THEN Append(down[session], m) ELSE down[session]
    BY <1>1, <2>1, WriteIs
  <2>3. QED
    BY <2>2 DEF k
<1>6. ~Walking'
  BY <1>2 DEF Walking, IdleIo
<1>7. InHand(t) => InHand(t)'
  BY DEF InHand
<1>8. CASE InHand(t)
  BY <1>7, <1>8, StillConverging
<1>9. CASE ~InHand(t) /\ Walking
  <2>1. Sole(t) /\ Walked(t) /\ io.session = session /\ io.symbol = symbol
    BY <1>9, ConvergingIs DEF Walking
  <2>2. Word(m, t) = LevelSum(book[symbol], t)
    BY <1>2, <1>4, <2>1 DEF Walked
  <2>3. WillShow(down'[session], net', shown'.levels, symbol, t, Word(m, t))
    BY <1>1, <1>4, <1>5, <2>1, Sent
  <2>4. Sole(t)' /\ Told(t)'
    BY <2>1, <2>2, <2>3 DEF Sole, Told
  <2>5. QED
    BY <1>6, <2>4, ConvergingIs
<1>10. CASE ~InHand(t) /\ ~Walking
  <2>1. io.session # session \/ io.symbol # symbol
    BY <1>2, <1>10 DEF Walking
  <2>2. Told(t) => WillShow(down'[session], net', shown'.levels, symbol, t, LevelSum(book[symbol], t))
    <3>1. CASE io.session # session
      BY <1>5, <3>1 DEF Told
    <3>2. CASE io.session = session /\ io.symbol # symbol
      BY <1>1, <1>4, <1>5, <3>2, Sent DEF Told
    <3>3. QED
      BY <2>1, <3>1, <3>2
  <2>3. QED
    BY <1>6, <1>7, <1>10, <2>2, StillConverging
<1>11. QED
  BY <1>8, <1>9, <1>10

(* Nor does the server's io thread: the subscription precedes the walk, and  *)
(* the snapshot replaces what was shown.                                    *)
LEMMA FeedIo ==
  ASSUME TypesInv, FeedInv, IoStep, Streaming', NEW t \in Ticks \ blur'[session'][symbol']
  PROVE  Converging(t)'
<1>1. UNCHANGED <<session, symbol, net, shown, cstate, status, worker, book>>
  <2>1. UNCHANGED <<session, symbol, net, shown, cstate, status>>
    BY DEF IoStep, Subscribe, Unsubscribe, unregisterSession, WalkLevel, WriteSnapshot,
       removeSubscription, clientVars
  <2>2. QED
    BY <2>1, OthersKeepBooks
<1>2. cstate = "Active" /\ t \in Ticks /\ t \notin blur'[session][symbol] /\ PanelInv
  BY <1>1 DEF Streaming, FeedInv
<1>3. ASSUME UNCHANGED <<subs, up, blur>> PROVE Streaming /\ Converging(t)
  <2>1. Streaming
    BY <1>1, <1>3 DEF Streaming
  <2>2. QED
    BY <1>2, <1>3, <2>1 DEF FeedInv
<1>4. ASSUME NEW k \in Session, Subscribe(k) PROVE Converging(t)'
  <2>1. UNCHANGED down
    BY <1>4 DEF Subscribe
  <2>2. QED
    BY <1>1, <1>2, <1>4, <2>1, FeedSubscribe
<1>5. ASSUME NEW k \in Session, Unsubscribe(k) PROVE Converging(t)'
  <2>1. UNCHANGED <<down, io>>
    BY <1>5 DEF Unsubscribe
  <2>2. QED
    BY <1>1, <1>2, <1>5, <2>1, FeedUnsubscribe
<1>6. ASSUME NEW k \in Session, unregisterSession(k) PROVE Converging(t)'
  <2>1. /\ io.pc = "idle" /\ io' = [pc |-> "unsubscribe", session |-> k]
        /\ UNCHANGED <<subs, up, blur, down>>
    BY <1>6 DEF unregisterSession
  <2>2. ~Walking /\ ~Walking' /\ (InHand(t) => InHand(t)')
    BY <1>1, <2>1 DEF Walking, InHand
  <2>3. QED
    BY <1>1, <1>2, <1>3, <2>1, <2>2, StillConverging DEF Told
<1>7. CASE WalkLevel
  <2>1. UNCHANGED <<subs, up, blur, down>>
    BY <1>7 DEF WalkLevel
  <2>2. QED
    BY <1>1, <1>2, <1>3, <1>7, <2>1, FeedWalk
<1>8. CASE WriteSnapshot
  <2>1. UNCHANGED <<subs, up, blur>>
    BY <1>8 DEF WriteSnapshot
  <2>2. QED
    BY <1>1, <1>2, <1>3, <1>8, <2>1, FeedSnapshot
<1>9. CASE removeSubscription
  <2>1. /\ io.pc = "unsubscribe" /\ io' = IdleIo /\ UNCHANGED <<up, down>>
        /\ subs' = [s \in Symbols |-> subs[s] \ {io.session}]
        /\ blur' = [blur EXCEPT ![io.session] = [s \in Symbols |-> {}]]
    BY <1>9 DEF removeSubscription
  <2>2. session \in Session /\ symbol \in Symbols /\ blur \in Blurs
    BY <1>2, ActiveIs
  <2>3. session \in subs[symbol] /\ session # io.session
    BY <1>1, <2>1, <2>2 DEF Streaming
  <2>4. Streaming /\ blur'[session] = blur[session]
    BY <1>1, <2>1, <2>2, <2>3 DEF Streaming, Blurs
  <2>5. Converging(t)
    BY <1>2, <2>4 DEF FeedInv
  <2>6. ~Walking /\ ~Walking' /\ (InHand(t) => InHand(t)')
    BY <1>1, <2>1 DEF Walking, InHand, IdleIo
  <2>7. QED
    BY <1>1, <1>2, <2>1, <2>5, <2>6, StillConverging DEF Told
<1>10. QED
  BY <1>4, <1>5, <1>6, <1>7, <1>8, <1>9 DEF IoStep

(* The panel ends the stream whenever it changes anything of it.             *)
LEMMA FeedUi ==
  ASSUME TypesInv, FeedInv, UiStep, Streaming', NEW t \in Ticks \ blur'[session'][symbol']
  PROVE  Converging(t)'
<1>1. PanelInv /\ t \in Ticks /\ MarketTypeOK /\ SubscriptionsInv
  BY DEF FeedInv, TypesInv
<1>2. cstate' = "Active" /\ status' = "Subscribed"
  BY DEF Streaming
<1>3. ~Buttons
  BY <1>2 DEF Buttons
<1>4. ~ \E s \in Symbols : selectSymbol(s)
  BY <1>2 DEF selectSymbol
<1>5. ~SwapBook
  BY <1>1, <1>2, PanelIs DEF SwapBook, PanelSeen
<1>6. ~(PressSubscribe \/ PressUnsubscribe)
  <2>1. SUFFICES ASSUME PressSubscribe \/ PressUnsubscribe PROVE FALSE
    OBVIOUS
  <2>2. PICK type \in {"1", "2"} : sendMarketDataRequest(type, symbol)
    BY <2>1 DEF PressSubscribe, PressUnsubscribe
  <2>3. ui.pc = "market" /\ ui.seen = "Active" /\ UNCHANGED <<session, symbol>>
    BY <2>1 DEF PressSubscribe, PressUnsubscribe
  <2> DEFINE r == [type |-> type, symbol |-> symbol]
  <2>4. /\ session \in Session /\ r \in Request
        /\ up' = [up EXCEPT ![session] = Append(up[session], r)]
    BY <1>1, <2>2, <2>3, PanelAsks
  <2>5. up[session] \in Seq(Request) /\ up'[session] = Append(up[session], r) /\ r.symbol = symbol
    BY <1>1, <2>4 DEF SubscriptionsInv
  <2> HIDE DEF r
  <2>6. Len(up[session]) + 1 \in DOMAIN up'[session] /\ up'[session][Len(up[session]) + 1] = r
    <3>1. Len(up[session]) \in Nat
      BY <2>5, LenProperties
    <3>2. /\ Len(up'[session]) = Len(up[session]) + 1 /\ up'[session] \in Seq(Request)
          /\ up'[session][Len(up[session]) + 1] = r
      BY <2>4, <2>5, AppendProperties
    <3>3. DOMAIN up'[session] = 1..(Len(up[session]) + 1)
      BY <3>2, LenProperties
    <3>4. QED
      BY <3>1, <3>2, <3>3
  <2>7. QED
    BY <2>3, <2>5, <2>6 DEF Streaming
<1>7. Sync \/ NoClick
  BY <1>3, <1>4, <1>5, <1>6 DEF UiStep
<1>8. /\ UNCHANGED <<worker, book, io, net, blur, down, subs, up, session, cstate, symbol, shown>>
      /\ status = "Subscribed"
  <2>1. UNCHANGED <<worker, book, io, net, blur, down, subs, up, session, cstate, symbol, shown>>
    BY <1>7 DEF Sync, NoClick, unchangedByUi, bookVars, serverVars
  <2>2. status = "Subscribed"
    BY <1>2, <1>7 DEF Sync, NoClick
  <2>3. QED
    BY <2>1, <2>2
<1>9. Streaming
  BY <1>8 DEF Streaming
<1>10. Converging(t)
  BY <1>8, <1>9 DEF FeedInv
<1>11. (InHand(t) => InHand(t)') /\ (~Walking => ~Walking')
  BY <1>8 DEF InHand, Walking
<1>12. QED
  BY <1>1, <1>8, <1>10, <1>11, StillConverging DEF Told

(* The network thread works through what was sent.                           *)
LEMMA FeedNet ==
  ASSUME TypesInv, FeedInv, NetStep, Streaming', NEW t \in Ticks \ blur'[session'][symbol']
  PROVE  Converging(t)'
<1>1. /\ UNCHANGED <<worker, book, io, blur, subs, up, session, symbol, status>>
      /\ cstate' = "Active" /\ PanelInv /\ t \in Ticks
  <2>1. UNCHANGED <<io, blur, subs, up, session, symbol, status>>
    BY DEF NetStep, ConnectionUp, LoggedOn, LoggedOut, CheckSymbol, Apply, unchangedByNet
  <2>2. QED
    BY <2>1, OthersKeepBooks DEF Streaming, FeedInv
<1>2. ~(ConnectionUp \/ LoggedOut)
  BY <1>1 DEF ConnectionUp, LoggedOut
<1>3. ~LoggedOn
  <2>1. SUFFICES ASSUME LoggedOn PROVE FALSE
    OBVIOUS
  <2>2. cstate = "Pending"
    BY <2>1 DEF LoggedOn
  <2>3. session \in Session /\ symbol \in Symbols
    BY <2>2, MarketAssumption DEF TypesInv, SubscriptionsInv, Session
  <2>4. Silent(session)
    BY <1>1, <2>2, <2>3, PanelIs DEF Unused
  <2>5. QED
    BY <1>1, <2>3, <2>4 DEF Silent, Streaming
<1>4. cstate = "Active"
  BY <1>1, <1>2, <1>3 DEF NetStep, CheckSymbol, Apply
<1>5. Streaming
  BY <1>1, <1>4 DEF Streaming
<1>6. Converging(t)
  BY <1>1, <1>5 DEF FeedInv
<1>7. /\ session \in Session /\ down \in Wire /\ down[session] \in Seq(Messages)
      /\ shown.levels \in [Ticks -> Nat]
      /\ net \in Messages \cup {NoMessage}
      /\ shown \in [symbol : Symbols, levels : [Ticks -> Nat]]
  BY <1>1, <1>5, StreamIs, TypesAre DEF TypesInv, ClientTypes, Messages
<1>8. (InHand(t) => InHand(t)') /\ (~Walking => ~Walking')
  BY <1>1 DEF InHand, Walking
<1> DEFINE v == LevelSum(book[symbol], t)
<1>9. CASE CheckSymbol
  <2> DEFINE queue == down[session]
             s == symbol
             levels == shown.levels
  <2>1. /\ net = NoMessage /\ queue # << >> /\ down' = [down EXCEPT ![session] = Tail(@)]
        /\ net' = (IF Head(queue).symbol = s THEN Head(queue) ELSE NoMessage) /\ UNCHANGED shown
    BY <1>9 DEF CheckSymbol
  <2>2. down'[session] = Tail(queue) /\ shown'.levels = levels /\ queue \in Seq(Messages)
    BY <1>7, <2>1 DEF Wire
  <2>3. ASSUME WillShow(queue, NoMessage, levels, s, t, v)
        PROVE  WillShow(Tail(queue), net', levels, s, t, v)
    <3> HIDE DEF queue, s, levels, v
    <3>1. WillShow(Tail(queue), IF Head(queue).symbol = s THEN Head(queue) ELSE NoMessage,
                   levels, s, t, v)
      BY ONLY <2>1, <2>2, <2>3, Received
    <3>2. QED
      BY <2>1, <3>1
  <2>4. Told(t) => WillShow(down'[session], net', shown'.levels, symbol, t, v)
    BY <2>1, <2>2, <2>3 DEF Told
  <2>5. QED
    BY <1>1, <1>6, <1>8, <2>4, StillConverging
<1>10. CASE Apply
  <2> DEFINE queue == down[session]
             m == net
             s == symbol
             levels == shown.levels
             after == IF m.type = "W" THEN handleSnapshot(levels, m.entries)
                      ELSE updateLevel(levels, m.entry)
  <2>1. m # NoMessage /\ net' = NoMessage /\ UNCHANGED down /\ shown' = [shown EXCEPT !.levels = after]
    BY <1>10 DEF Apply
  <2>2. m \in Messages /\ levels \in [Ticks -> Nat]
    BY <1>7, <2>1
  <2>3. shown'.levels = after
    <3> HIDE DEF after
    <3>1. QED
      BY <1>7, <2>1
  <2>4. ASSUME WillShow(queue, m, levels, s, t, v)
        PROVE  WillShow(queue, NoMessage, after, s, t, v)
    <3> HIDE DEF queue, m, s, levels, v
    <3>1. QED
      BY ONLY <1>1, <2>2, <2>4, Applied
  <2>5. Told(t) => WillShow(down'[session], net', shown'.levels, symbol, t, v)
    <3> HIDE DEF after
    <3>1. QED
      BY <2>1, <2>3, <2>4 DEF Told
  <2>6. QED
    BY <1>1, <1>6, <1>8, <2>5, StillConverging
<1>11. QED
  BY <1>2, <1>3, <1>9, <1>10 DEF NetStep

LEMMA FeedFirst == MarketInit => FeedInv
<1> SUFFICES ASSUME MarketInit PROVE FeedInv
  OBVIOUS
<1>1. PanelInv
  BY DEF MarketInit, PanelInv, NewFrame
<1>2. WorkersInv
  BY DEF MarketInit, WorkersInv, IdleWorker
<1>3. ~Streaming
  BY DEF MarketInit, Streaming
<1>4. QED
  BY <1>1, <1>2, <1>3, TypesFirst DEF FeedInv

LEMMA FeedStep ==
  ASSUME TypesInv, FeedInv, [MarketNext]_marketVars
  PROVE  TypesInv' /\ FeedInv'
<1>1. MarketTypeOK /\ SubscriptionsInv /\ FewLevels /\ PanelInv /\ WorkersInv
  BY DEF TypesInv, FeedInv
<1>2. TypesInv' /\ FewLevels'
  BY <1>1, TypesStep DEF TypesInv
<1>3. PanelInv' /\ WorkersInv'
  BY <1>1, PanelStep, WorkersStep
<1>4. ASSUME Streaming', NEW t \in Ticks \ blur'[session'][symbol'] PROVE Converging(t)'
  <2>1. CASE UNCHANGED marketVars
    <3>1. UNCHANGED <<worker, book, io, net, blur, down, subs, up, session, cstate, symbol, shown,
                      status>>
      BY <2>1 DEF marketVars, bookVars, serverVars, clientVars
    <3>2. Streaming /\ Converging(t)
      BY <1>4, <3>1 DEF Streaming, FeedInv
    <3>3. (InHand(t) => InHand(t)') /\ (~Walking => ~Walking')
      BY <3>1 DEF InHand, Walking
    <3>4. QED
      BY <3>1, <3>2, <3>3, StillConverging DEF Told
  <2>2. QED
    BY <1>4, <2>1, FeedWorker, FeedIo, FeedUi, FeedNet DEF MarketNext
<1>5. QED
  BY <1>2, <1>3, <1>4 DEF FeedInv

(* Every level of the stream the client has asked for is on its way to the  *)
(* screen - in the worker's hands, in the io thread's walk over the book, on *)
(* the wire, or between the two halves of the callback - for any number of  *)
(* symbols, connections, orders and clicks.                                 *)
THEOREM FeedKept == MarketSpec => [](TypesInv /\ FeedInv)
<1> DEFINE Inv == TypesInv /\ FeedInv
<1>1. MarketInit => Inv
  BY TypesFirst, FeedFirst DEF TypesInv
<1>2. Inv /\ [MarketNext]_marketVars => Inv'
  BY FeedStep
<1>3. QED
  BY <1>1, <1>2, PTL DEF MarketSpec

(* With nothing under way, what will be shown is shown.                      *)
LEMMA FeedReads == TypesInv /\ FeedInv => BookConverges
<1> SUFFICES ASSUME TypesInv, FeedInv,
                    session # 0, cstate = "Active", status = "Subscribed",
                    session \in subs[symbol], shown.symbol = symbol,
                    up[session] = << >>, down[session] = << >>, net = NoMessage,
                    io.pc = "idle", worker[symbol].pc = "idle",
                    NEW t \in Ticks \ blur[session][symbol]
             PROVE  shown.levels[t] = LevelSum(book[symbol], t)
  BY DEF BookConverges
<1>1. DOMAIN up[session] = {} /\ DOMAIN down[session] = {}
  OBVIOUS
<1>2. Streaming
  BY <1>1 DEF Streaming
<1>3. ~InHand(t) /\ ~Walking
  BY DEF InHand, Walking
<1>4. Told(t)
  BY <1>2, <1>3, ConvergingIs DEF FeedInv
<1>5. About(down[session], symbol, t) = {}
  BY <1>1 DEF About
<1>6. QED
  BY <1>4, <1>5, WillShowIs, NoneSpeaks DEF Told

(* The client's screen comes to show the exchange's book: whenever its       *)
(* subscription stands and nothing is under way, every level is the sum of   *)
(* the orders behind it, except where the protocol itself lost count.  The   *)
(* subscription that precedes an unlocked walk over a book its worker keeps  *)
(* changing, updates that overtake the snapshot, symbols switched between    *)
(* the two halves of the callback and reconnects do no lasting harm.        *)
THEOREM ClientConverges == MarketSpec => []BookConverges
  BY FeedKept, FeedReads, PTL
=============================================================================
