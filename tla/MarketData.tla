----------------------------- MODULE MarketData -----------------------------
(***************************************************************************)
(* Market data from the exchange's books to the client's screen: the order  *)
(* books and the market data publisher, the subscription requests of the    *)
(* FIX sessions, and in the client application the connection panel, the    *)
(* message callback and the client's order book.  The general subscriber of *)
(* the publisher is the candle aggregator.                                  *)
(*                                                                         *)
(* Threads: one worker per symbol changes its book and publishes; the       *)
(* server's io thread handles requests and walks a book that the worker     *)
(* changes at the same time (the books have no lock), one level at a time;  *)
(* the client's network thread checks a message's symbol and then applies   *)
(* it; the client's UI thread renders frame after frame.                    *)
(*                                                                         *)
(* Only one side of the book is kept: both are handled alike.  Logon and    *)
(* the transport are modules FixServer, FixClient and FixWire; here a        *)
(* session is numbered by its connection and what is written to it arrives. *)
(***************************************************************************)
EXTENDS Candles, Sequences, SequencesExt

CONSTANTS
  Aggregating,   \* whether the application runs the exchange and its aggregator
  First,         \* the symbol the client starts with
  MaxSessions,   \* bound on the client's connections
  MaxInserts,    \* bound on the orders that enter the books
  MaxClicks      \* bound on the user's clicks

ASSUME MarketAssumption ==
  Aggregating \in BOOLEAN /\ First \in Symbols /\ MaxSessions \in Nat \ {0} /\ MaxInserts \in Nat /\ MaxClicks \in Nat

VARIABLES
  book,        \* remaining quantities at each level, oldest order first
  worker,      \* per symbol: what its worker is publishing
  subs,        \* mSubscriptions
  registered,  \* mSessions
  io,          \* what the server's io thread is doing
  up,          \* requests on their way to the server, per session
  down,        \* market data on its way to the client, per session
  session,     \* the client's newest session
  cstate,      \* its state
  ui,          \* where the UI thread is in its frame, and the state it read
  status,      \* MarketDataState::mStatus
  symbol,      \* MarketDataState::mSymbol
  shown,       \* mOrderBook: its symbol and levels
  net,         \* the message the network thread has checked
  placed, clicks,  \* counters for the bounds
  blur         \* history: levels whose updates cannot add up (see BookConverges)

bookVars   == <<book, worker, candleVars, placed>>
serverVars == <<subs, registered, io>>
clientVars == <<session, cstate, ui, status, symbol, shown, net, clicks>>
marketVars == <<bookVars, serverVars, clientVars, up, down, blur>>

Session == 1..MaxSessions

(* The converters print prices with four decimals.                          *)
Rounded(p) == (p + 5) \div 10
Ticks == {Rounded(p) : p \in Levels}

Entry    == [action : {"New", "Delete"}, tick : Ticks, size : Nat]
Quote    == [tick : Ticks, size : Nat]
Snapshot == [type : {"W"}, symbol : Symbols, entries : Seq(Quote)]
Refresh  == [type : {"X"}, symbol : Symbols, entry : Entry]
Request  == [type : {"1", "2"}, symbol : Symbols]

IdleWorker == [pc |-> "idle"]
IdleIo     == [pc |-> "idle"]
NewFrame   == [pc |-> "buttons", seen |-> "Disconnected"]
NoMessage  == [type |-> "none"]
NoLevels   == [t \in Ticks |-> 0]

WorkerStates ==
  {IdleWorker}
    \cup [pc : {"publish"}, price : Levels, blurs : BOOLEAN, entry : Entry]
    \cup [pc : {"deliver"}, blurs : BOOLEAN, entry : Entry, targets : SUBSET Session]
IoStates ==
  {IdleIo}
    \cup [pc : {"walk"}, session : Session, symbol : Symbols, left : SUBSET Levels,
          entries : Seq(Quote)]
    \cup [pc : {"unsubscribe"}, session : Session]
States == {"Disconnected", "Connecting", "Pending", "Active", "LoggingOut"}

MarketTypeOK ==
  /\ CandlesTypeOK
  /\ book \in [Symbols -> [Levels -> Seq(Nat \ {0})]]
  /\ worker \in [Symbols -> WorkerStates]
  /\ subs \in [Symbols -> SUBSET Session] /\ registered \subseteq Session
  /\ io \in IoStates
  /\ up \in [Session -> Seq(Request)]
  /\ down \in [Session -> Seq(Snapshot \cup Refresh)]
  /\ session \in 0..MaxSessions /\ cstate \in States
  /\ ui \in [pc : {"buttons", "sync", "market", "swap"}, seen : States]
  /\ status \in {"Disconnected", "Ready", "Subscribed"} /\ symbol \in Symbols
  /\ shown \in [symbol : Symbols, levels : [Ticks -> Nat]]
  /\ net \in Snapshot \cup Refresh \cup {NoMessage}
  /\ blur \in [Session -> [Symbols -> SUBSET Ticks]]

MarketInit ==
  /\ CandlesInit
  /\ book = [s \in Symbols |-> [p \in Levels |-> << >>]]
  /\ worker = [s \in Symbols |-> IdleWorker]
  /\ subs = [s \in Symbols |-> {}] /\ registered = {} /\ io = IdleIo
  /\ up = [k \in Session |-> << >>] /\ down = [k \in Session |-> << >>]
  /\ session = 0 /\ cstate = "Disconnected"
  /\ ui = NewFrame
  /\ status = "Disconnected" /\ symbol = First
  /\ shown = [symbol |-> First, levels |-> NoLevels]
  /\ net = NoMessage
  /\ placed = 0 /\ clicks = 0
  /\ blur = [k \in Session |-> [s \in Symbols |-> {}]]

Total(orders) == FoldSeq(LAMBDA q, sum : q + sum, 0, orders)

(* Several orders behind one printed price.                                 *)
Behind(t) == {p \in Levels : Rounded(p) = t}
Crowded(b, t) == MapThenSumSet(LAMBDA p : Len(b[p]), Behind(t)) > 1

(* What is written to a closed connection is lost.                          *)
Open(k) == k = session /\ cstate # "Disconnected"
Write(k, message) ==
  down' = IF Open(k) THEN [down EXCEPT ![k] = Append(@, message)] ELSE down

(* History: every subscriber's view of the symbol is blurred at tick t.     *)
Blurred(s, t) ==
  [k \in Session |-> IF k \in subs[s] THEN [blur[k] EXCEPT ![s] = @ \cup {t}] ELSE blur[k]]

-----------------------------------------------------------------------------
(* The worker of a symbol.                                                  *)

(* History: blurs says that the entry speaks for one of several orders.     *)
Publishing(s, action, p, q, blurs) ==
  /\ blur' = IF blurs THEN Blurred(s, Rounded(p)) ELSE blur
  /\ worker' = [worker EXCEPT ![s] =
    [pc |-> "publish", price |-> p, blurs |-> blurs,
     entry |-> [action |-> action, tick |-> Rounded(p), size |-> q]]]

(* insertOrder: the order joins its level, and its own size is published.   *)
Insert(s, p, q) ==
  /\ worker[s].pc = "idle" /\ placed < MaxInserts
  /\ book' = [book EXCEPT ![s][p] = Append(@, q)]
  /\ Publishing(s, "New", p, q, Crowded(book'[s], Rounded(p)))
  /\ placed' = placed + 1
  /\ UNCHANGED <<candleVars, serverVars, clientVars, up, down>>

(* cancelOrder: the order leaves its level, and the level's deletion is     *)
(* published whether or not other orders remain.                            *)
Cancel(s, p, i) ==
  /\ worker[s].pc = "idle"
  /\ book' = [book EXCEPT ![s][p] = RemoveAt(@, i)]
  /\ Publishing(s, "Delete", p, book[s][p][i], Crowded(book[s], Rounded(p)))
  /\ UNCHANGED <<candleVars, placed, serverVars, clientVars, up, down>>

(* Mutant of Filled: a filled order stays at its level.                     *)
MutFilled(orders, q) == [orders EXCEPT ![1] = @ - q]

(* q of a level's oldest order is taken; a filled order leaves.             *)
Filled(orders, q) ==
  IF q = Head(orders) THEN Tail(orders) ELSE [orders EXCEPT ![1] = @ - q]

(* The matcher fills the oldest order of a level; nothing is published.     *)
Trade(s, p) ==
  /\ worker[s].pc = "idle" /\ book[s][p] # << >>
  /\ \E q \in 1..Head(book[s][p]) : book' = [book EXCEPT ![s][p] = Filled(@, q)]
  /\ blur' = Blurred(s, Rounded(p))
  /\ UNCHANGED <<worker, candleVars, placed, serverVars, clientVars, up, down>>

(* The worker still has to call these subscribers.                          *)
Remaining(s, targets) ==
  worker' = [worker EXCEPT ![s] =
    IF targets = {} THEN IdleWorker
    ELSE [pc |-> "deliver", blurs |-> worker[s].blurs, entry |-> worker[s].entry,
          targets |-> targets]]

(* The application's general subscriber feeds the aggregator: deletions are *)
(* skipped, and the trade's time is that of the call.                       *)
GeneralSubscriber(s) ==
  IF worker[s].entry.action = "Delete" \/ ~Aggregating THEN UNCHANGED candleVars
  ELSE \E now \in Clock : onTrade(s, worker[s].price, worker[s].entry.size, now)

(* publishIncremental takes the subscribers under the lock; the general     *)
(* subscriber is called first.                                              *)
publishIncremental(s) ==
  /\ worker[s].pc = "publish"
  /\ Remaining(s, subs[s])
  /\ GeneralSubscriber(s)
  /\ UNCHANGED <<book, placed, serverVars, clientVars, up, down, blur>>

(* onMarketDataIncrementalRefresh for the next subscriber: written if the    *)
(* session is still registered.                                             *)
Deliver(s, k) ==
  /\ worker[s].pc = "deliver" /\ k \in worker[s].targets
  /\ Remaining(s, worker[s].targets \ {k})
  /\ IF k \in registered
     THEN Write(k, [type |-> "X", symbol |-> s, entry |-> worker[s].entry])
     ELSE UNCHANGED down
  /\ blur' = IF io.pc = "walk" /\ io.session = k /\ io.symbol = s
             THEN [blur EXCEPT ![k][s] = @ \cup {worker[s].entry.tick}] ELSE blur
  /\ UNCHANGED <<book, candleVars, placed, serverVars, clientVars, up>>

WorkerStep ==
  \E s \in Symbols :
    \/ \E p \in Levels, q \in Sizes : Insert(s, p, q)
    \/ \E p \in Levels : \E i \in DOMAIN book[s][p] : Cancel(s, p, i)
    \/ \E p \in Levels : Trade(s, p)
    \/ publishIncremental(s)
    \/ \E k \in Session : Deliver(s, k)

-----------------------------------------------------------------------------
(* The server's io thread.                                                  *)

(* subscribeToMarketData: the subscription is added before the book is      *)
(* read.  Blur starts again from what the coming snapshot cannot mend: an   *)
(* update the worker still has in hand, and prices that print alike.        *)
Subscribe(k) ==
  /\ io.pc = "idle" /\ k \in registered /\ up[k] # << >> /\ Head(up[k]).type = "1"
  /\ LET s == Head(up[k]).symbol IN
     /\ subs' = [subs EXCEPT ![s] = @ \cup {k}]
     /\ io' = [pc |-> "walk", session |-> k, symbol |-> s, left |-> Levels, entries |-> << >>]
     /\ blur' = [blur EXCEPT ![k][s] =
          {t \in Ticks : worker[s].pc # "idle" /\ worker[s].blurs /\ worker[s].entry.tick = t}
            \cup {t \in Ticks : Cardinality({p \in Behind(t) : book[s][p] # << >>}) > 1}]
  /\ up' = [up EXCEPT ![k] = Tail(@)]
  /\ UNCHANGED <<bookVars, registered, clientVars, down>>

Unsubscribe(k) ==
  /\ io.pc = "idle" /\ k \in registered /\ up[k] # << >> /\ Head(up[k]).type = "2"
  /\ subs' = [subs EXCEPT ![Head(up[k]).symbol] = @ \ {k}]
  /\ blur' = [blur EXCEPT ![k][Head(up[k]).symbol] = {}]
  /\ up' = [up EXCEPT ![k] = Tail(@)]
  /\ UNCHANGED <<bookVars, registered, io, clientVars, down>>

(* publishSnapshot walks the levels from the best price down, as it finds   *)
(* them.                                                                    *)
WalkLevel ==
  /\ io.pc = "walk"
  /\ LET found == {p \in io.left : book[io.symbol][p] # << >>} IN
     /\ found # {}
     /\ io' = [io EXCEPT !.left = {p \in @ : p < Max(found)},
                         !.entries = Append(@, [tick |-> Rounded(Max(found)),
                                                size |-> Total(book[io.symbol][Max(found)])])]
  /\ UNCHANGED <<bookVars, subs, registered, clientVars, up, down, blur>>

WriteSnapshot ==
  /\ io.pc = "walk"
  /\ \A p \in io.left : book[io.symbol][p] = << >>
  /\ Write(io.session, [type |-> "W", symbol |-> io.symbol, entries |-> io.entries])
  /\ io' = IdleIo
  /\ UNCHANGED <<bookVars, subs, registered, clientVars, up, blur>>

(* A session whose peer has gone is erased from the map once everything it   *)
(* sent was read, and then loses its subscriptions.                         *)
unregisterSession(k) ==
  /\ io.pc = "idle" /\ k \in registered /\ up[k] = << >>
  /\ ~Open(k)
  /\ registered' = registered \ {k}
  /\ io' = [pc |-> "unsubscribe", session |-> k]
  /\ UNCHANGED <<bookVars, subs, clientVars, up, down, blur>>

(* Mutant of removeSubscription: only one symbol's list is searched.        *)
MutRemoveSubscription ==
  /\ io.pc = "unsubscribe"
  /\ subs' = [subs EXCEPT ![First] = @ \ {io.session}]
  /\ blur' = [blur EXCEPT ![io.session] = [s \in Symbols |-> {}]]
  /\ io' = IdleIo
  /\ UNCHANGED <<bookVars, registered, clientVars, up, down>>

removeSubscription ==
  /\ io.pc = "unsubscribe"
  /\ subs' = [s \in Symbols |-> subs[s] \ {io.session}]
  /\ blur' = [blur EXCEPT ![io.session] = [s \in Symbols |-> {}]]
  /\ io' = IdleIo
  /\ UNCHANGED <<bookVars, registered, clientVars, up, down>>

IoStep ==
  \/ \E k \in Session : Subscribe(k) \/ Unsubscribe(k) \/ unregisterSession(k)
  \/ WalkLevel \/ WriteSnapshot \/ removeSubscription

-----------------------------------------------------------------------------
(* The client's UI thread: each frame renders the buttons, copies the       *)
(* session's state into the market data state, renders the market data      *)
(* section with the state it just read, and replaces the book if another    *)
(* symbol was selected.  A frame in which no button is pressed starts with  *)
(* Sync, and the last step is left out of a frame that keeps the symbol.    *)

Click == clicks < MaxClicks /\ clicks' = clicks + 1

unchangedByUi == <<bookVars, serverVars, down, net, blur>>

Buttons ==
  /\ ui.pc = "buttons" /\ ui' = [ui EXCEPT !.pc = "sync"] /\ Click
  /\ \/ (* Connect: a fresh session *)
        /\ cstate = "Disconnected" /\ session < MaxSessions
        /\ session' = session + 1 /\ cstate' = "Connecting" /\ UNCHANGED down
     \/ (* Logout *)
        /\ cstate = "Active" /\ cstate' = "LoggingOut" /\ UNCHANGED <<session, down>>
     \/ (* Disconnect: what was not read yet is lost *)
        /\ cstate # "Disconnected" /\ cstate' = "Disconnected"
        /\ down' = [down EXCEPT ![session] = << >>] /\ UNCHANGED session
  /\ UNCHANGED <<bookVars, serverVars, up, status, symbol, shown, net, blur>>

Sync ==
  /\ ui.pc \in {"buttons", "sync"} /\ ui' = [pc |-> "market", seen |-> cstate]
  /\ status' = IF cstate \in {"Disconnected", "Connecting"} THEN "Disconnected"
               ELSE IF status = "Disconnected" THEN "Ready" ELSE status
  /\ UNCHANGED <<unchangedByUi, up, session, cstate, symbol, shown, clicks>>

(* sendMessage looks at the state again: it may be lost since Sync.         *)
sendMarketDataRequest(type, s) ==
  up' = IF cstate # "Active" THEN up
        ELSE [up EXCEPT ![session] = Append(@, [type |-> type, symbol |-> s])]

selectSymbol(s) ==
  /\ ui.pc = "market" /\ s # symbol /\ ui' = [ui EXCEPT !.pc = "swap"] /\ Click
  /\ IF status = "Subscribed" /\ ui.seen = "Active"
     THEN sendMarketDataRequest("2", symbol) ELSE UNCHANGED up
  /\ symbol' = s
  /\ status' = IF status = "Subscribed" THEN "Ready" ELSE status
  /\ UNCHANGED <<unchangedByUi, session, cstate, shown>>

(* The Unsubscribe button: markSessionReady only leaves Disconnected, so    *)
(* the status stays Subscribed.                                             *)
PressUnsubscribe ==
  /\ ui.pc = "market" /\ status = "Subscribed" /\ ui' = NewFrame /\ Click
  /\ ui.seen = "Active" /\ sendMarketDataRequest("2", symbol)
  /\ UNCHANGED <<unchangedByUi, session, cstate, status, symbol, shown>>

PressSubscribe ==
  /\ ui.pc = "market" /\ status # "Subscribed" /\ ui.seen = "Active"
  /\ ui' = NewFrame /\ Click
  /\ sendMarketDataRequest("1", symbol)
  /\ status' = "Subscribed"
  /\ UNCHANGED <<unchangedByUi, session, cstate, symbol, shown>>

NoClick ==
  /\ ui.pc = "market" /\ ui' = NewFrame
  /\ UNCHANGED <<unchangedByUi, up, session, cstate, status, symbol, shown, clicks>>

SwapBook ==
  /\ ui.pc = "swap" /\ ui' = NewFrame
  /\ shown' = IF shown.symbol = symbol THEN shown ELSE [symbol |-> symbol, levels |-> NoLevels]
  /\ UNCHANGED <<unchangedByUi, up, session, cstate, status, symbol, clicks>>

UiStep ==
  \/ Buttons \/ Sync \/ PressUnsubscribe \/ PressSubscribe \/ NoClick \/ SwapBook
  \/ \E s \in Symbols : selectSymbol(s)

-----------------------------------------------------------------------------
(* The client's network thread.                                             *)

unchangedByNet == <<bookVars, subs, io, up, session, ui, status, symbol, clicks, blur>>

(* The connection is up, the session is registered at the server, and the   *)
(* client still has to log on.                                              *)
ConnectionUp ==
  /\ cstate = "Connecting" /\ cstate' = "Pending"
  /\ registered' = registered \cup {session}
  /\ UNCHANGED <<unchangedByNet, down, shown, net>>

LoggedOn ==
  /\ cstate = "Pending" /\ cstate' = "Active"
  /\ UNCHANGED <<unchangedByNet, registered, down, shown, net>>

(* The answer to the logout, the last message of the session, is read.      *)
LoggedOut ==
  /\ cstate = "LoggingOut" /\ cstate' = "Disconnected"
  /\ up[session] = << >> /\ down[session] = << >> /\ net = NoMessage
  /\ UNCHANGED <<unchangedByNet, registered, down, shown, net>>

(* The message callback, first half: a message for another symbol is        *)
(* dropped.                                                                 *)
CheckSymbol ==
  /\ session # 0 /\ net = NoMessage /\ down[session] # << >>
  /\ down' = [down EXCEPT ![session] = Tail(@)]
  /\ net' = IF Head(down[session]).symbol = symbol THEN Head(down[session]) ELSE NoMessage
  /\ UNCHANGED <<unchangedByNet, registered, cstate, shown>>

(* Mutant of handleSnapshot: the levels shown before are kept.              *)
MutHandleSnapshot(levels, entries) ==
  FoldLeft(LAMBDA l, e : [l EXCEPT ![e.tick] = e.size], levels, entries)

(* The old levels are cleared; of two entries that print alike the later    *)
(* one counts.                                                              *)
handleSnapshot(levels, entries) ==
  FoldLeft(LAMBDA l, e : [l EXCEPT ![e.tick] = e.size], NoLevels, entries)

(* What an update says of its level.                                        *)
Stated(e) == IF e.action = "Delete" THEN 0 ELSE e.size

(* Mutant of updateLevel: a deleted level keeps its quantity.                *)
MutUpdateLevel(levels, e) == [levels EXCEPT ![e.tick] = e.size]

updateLevel(levels, e) == [levels EXCEPT ![e.tick] = Stated(e)]

(* Second half: the message goes to whichever book is there now.            *)
Apply ==
  /\ net # NoMessage /\ net' = NoMessage
  /\ shown' = [shown EXCEPT !.levels =
       IF net.type = "W" THEN handleSnapshot(@, net.entries) ELSE updateLevel(@, net.entry)]
  /\ UNCHANGED <<unchangedByNet, registered, cstate, down>>

NetStep == ConnectionUp \/ LoggedOn \/ LoggedOut \/ CheckSymbol \/ Apply

-----------------------------------------------------------------------------
MarketNext == WorkerStep \/ IoStep \/ UiStep \/ NetStep
MarketSpec == MarketInit /\ [][MarketNext]_marketVars

-----------------------------------------------------------------------------
(* No stream outlives its session: only registered sessions, and the one     *)
(* being unregistered right now, are subscribed to anything.  FixServer's    *)
(* map and the publisher's lists are separate structures that only           *)
(* unregisterSession keeps together; a subscription left behind would be     *)
(* copied and looked up for every update for good.                          *)
NoOrphanSubscription ==
  \A s \in Symbols : \A k \in subs[s] :
    k \in registered \/ (io.pc = "unsubscribe" /\ io.session = k)

(* Its inductive strengthening: requests name symbols, and the io thread    *)
(* takes the subscriptions away of the session it has just erased.          *)
SubscriptionsInv ==
  /\ up \in [Session -> Seq(Request)] /\ subs \in [Symbols -> SUBSET Session]
  /\ registered \subseteq Session /\ session \in 0..MaxSessions /\ symbol \in Symbols
  /\ cstate \in {"Connecting", "Pending", "Active", "LoggingOut"} => session # 0
  /\ io.pc = "unsubscribe" => io.session \in Session
  /\ NoOrphanSubscription

(* What a book holds behind a printed price.                                *)
LevelSum(b, t) == MapThenSumSet(LAMBDA p : Total(b[p]), Behind(t))

(* When nothing is on its way the subscribed client shows the exchange's     *)
(* book - every level of it except those where the protocol itself cannot    *)
(* add up, which the history variable blur collects: since its last          *)
(* subscription a trade was made there (trades are not published), an        *)
(* update for one of several orders behind one printed price was published   *)
(* as if it were the level, or an update was written between the walk over   *)
(* the book and the snapshot.  Levels of another symbol that slip in between *)
(* CheckSymbol and Apply, and requests that cross updates, do no lasting     *)
(* harm: the subscription precedes the walk and the snapshot replaces all.   *)
BookConverges ==
  LET Quiet == /\ up[session] = << >> /\ down[session] = << >> /\ net = NoMessage
               /\ io.pc = "idle" /\ worker[symbol].pc = "idle"
  IN  session # 0 /\ cstate = "Active" /\ status = "Subscribed"
        /\ session \in subs[symbol] /\ shown.symbol = symbol /\ Quiet
      => \A t \in Ticks \ blur[session][symbol] :
           shown.levels[t] = LevelSum(book[symbol], t)

-----------------------------------------------------------------------------
(* The inductive strengthening of BookConverges.                            *)

(* A message says something about tick t, namely this.                      *)
Speaks(m, t) == m.type = "W" \/ (m.type = "X" /\ m.entry.tick = t)
Word(m, t) == IF m.type = "W" THEN handleSnapshot(NoLevels, m.entries)[t] ELSE Stated(m.entry)

(* Once the messages of queue for symbol s, after m, have been applied to    *)
(* levels, tick t shows v: the last of them that speaks of t says so.       *)
WillShow(queue, m, levels, s, t, v) ==
  LET about == {i \in DOMAIN queue : queue[i].symbol = s /\ Speaks(queue[i], t)}
  IN  \/ \E i \in about : Word(queue[i], t) = v /\ \A j \in about : j <= i
      \/ about = {} /\ v = IF Speaks(m, t) THEN Word(m, t) ELSE levels[t]

(* The symbol's worker has an update of t that the client will be sent.     *)
InHand(t) ==
  LET w == worker[symbol] IN
  /\ w.pc = "publish" \/ (w.pc = "deliver" /\ session \in w.targets)
  /\ w.entry.tick = t

(* The snapshot of the client's book is being taken.                        *)
Walking == io.pc = "walk" /\ io.session = session /\ io.symbol = symbol

(* The client gets to see what the book holds at t: by the update in hand,  *)
(* by the snapshot being taken - which has it, or the level is still to be  *)
(* walked over - or by what has been sent.                                  *)
Converging(t) ==
  /\ \A p, q \in Behind(t) :
       book[symbol][p] # << >> /\ book[symbol][q] # << >> => p = q
  /\ \/ InHand(t)
     \/ /\ Walking
        /\ (\A p \in io.left \cap Behind(t) : book[symbol][p] = << >>)
             => handleSnapshot(NoLevels, io.entries)[t] = LevelSum(book[symbol], t)
     \/ /\ ~Walking
        /\ WillShow(down[session], net, shown.levels, symbol, t, LevelSum(book[symbol], t))

(* The stream the client last asked for is running.                         *)
Streaming ==
  /\ cstate = "Active" /\ status = "Subscribed" /\ session \in subs[symbol]
  /\ \A i \in DOMAIN up[session] : up[session][i].symbol # symbol

(* What each side may rely on: a session is registered before it is used,   *)
(* none has asked for anything before it is active, and the panel's book    *)
(* follows its symbol.                                                      *)
PanelInv ==
  /\ cstate \in {"Pending", "Active", "LoggingOut"} => session \in registered
  /\ \A k \in Session :
       k > session \/ (k = session /\ cstate \in {"Connecting", "Pending"})
         => up[k] = << >> /\ \A s \in Symbols : k \notin subs[s]
  /\ ui.pc = "market" /\ ui.seen = "Active" => cstate = "Active"
  /\ ui.pc # "swap" => shown.symbol = symbol
  /\ ui.pc = "swap" => status # "Subscribed"

(* What a worker publishes is true of the level unless it blurs.            *)
WorkersInv ==
  \A s \in Symbols : worker[s].pc # "idle" =>
    IF worker[s].blurs
    THEN \A k \in subs[s] : worker[s].entry.tick \in blur[k][s]
    ELSE Stated(worker[s].entry) = LevelSum(book[s], worker[s].entry.tick)

FewLevels == \A s \in Symbols : IsFiniteSet({p \in Levels : book[s][p] # << >>})

(* The client's book is being kept in step: while the stream it last asked   *)
(* for runs, every level that is not blurred will show what the exchange     *)
(* holds there, wherever the update or the snapshot that says so is now.     *)
FeedInv ==
  /\ PanelInv /\ WorkersInv /\ FewLevels
  /\ Streaming => \A t \in Ticks \ blur[session][symbol] : Converging(t)
=============================================================================
