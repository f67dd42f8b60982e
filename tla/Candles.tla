------------------------------- MODULE Candles -------------------------------
(***************************************************************************)
(* The candle aggregator of the client application.  It keeps one active    *)
(* candle per symbol and interval, and hands the finished ones to the       *)
(* market history table.  Its input is stamped with system_clock, which may *)
(* be set back, so a stamp can lie before the active candle's bucket.       *)
(* Time is in minutes.                                                      *)
(***************************************************************************)
EXTENDS Integers, FiniteSets, FiniteSetsExt

CONSTANTS
  Symbols,   \* the instruments
  Levels,    \* prices, in units of 0.00001
  Sizes,     \* order sizes
  Clock      \* the minutes system_clock may read

ASSUME CandlesAssumption ==
  /\ Levels \subseteq Nat \ {0} /\ Sizes \subseteq Nat \ {0} /\ Clock \subseteq Nat

VARIABLES
  agg,   \* mAggregates: the active candle per symbol and interval
  rows   \* the candles table, rows still queued for it included

candleVars == <<agg, rows>>

Intervals == {1, 5}
Candle == [timestamp : Nat, open : Levels, high : Levels, low : Levels,
           close : Levels, volume : Nat]
Inactive == [timestamp |-> -1]

CandlesTypeOK ==
  /\ agg \in [Symbols \X Intervals -> Candle \cup {Inactive}]
  /\ rows \in [Symbols \X Intervals -> SUBSET Candle]

CandlesInit ==
  /\ agg = [x \in Symbols \X Intervals |-> Inactive]
  /\ rows = [x \in Symbols \X Intervals |-> {}]

bucketStart(interval, minute) == (minute \div interval) * interval

(* INSERT OR REPLACE on the key (symbol, interval, timestamp).              *)
addCandle(table, c) == {r \in table : r.timestamp # c.timestamp} \cup {c}

(* Mutant of Starts: a stamp before the active bucket starts a candle too.  *)
MutStarts(c, interval, minute) ==
  c = Inactive \/ bucketStart(interval, minute) # c.timestamp

(* Only a stamp past the active candle's bucket starts a new candle; one    *)
(* before it counts towards the active candle.                              *)
Starts(c, interval, minute) ==
  c = Inactive \/ bucketStart(interval, minute) > c.timestamp

updateAggregate(c, interval, price, qty, minute) ==
  IF Starts(c, interval, minute)
  THEN [timestamp |-> bucketStart(interval, minute), open |-> price,
        high |-> price, low |-> price, close |-> price, volume |-> qty]
  ELSE [c EXCEPT !.high = Max({@, price}), !.low = Min({@, price}),
                 !.close = price, !.volume = @ + qty]

(* Both intervals are updated under one lock; a candle that is replaced is  *)
(* saved first.                                                             *)
onTrade(s, price, qty, minute) ==
  /\ agg' = [x \in Symbols \X Intervals |->
               IF x[1] = s THEN updateAggregate(agg[x], x[2], price, qty, minute)
               ELSE agg[x]]
  /\ rows' = [x \in Symbols \X Intervals |->
               IF x[1] = s /\ agg[x] # Inactive /\ Starts(agg[x], x[2], minute)
               THEN addCandle(rows[x], agg[x]) ELSE rows[x]]

-----------------------------------------------------------------------------
(* Every candle of a symbol and interval, finished or active.               *)
AllCandles(s, interval) ==
  rows[s, interval] \cup ({agg[s, interval]} \ {Inactive})

(* The candles of the five minutes that start with c.                       *)
Within(ones, c) ==
  {o \in ones : o.timestamp >= c.timestamp /\ o.timestamp < c.timestamp + 5}

Volume(ones) == MapThenSumSet(LAMBDA o : o.volume, ones)

(* The two resolutions tell one story: every five-minute candle, saved or    *)
(* active, is exactly the combination of the one-minute candles inside it.   *)
(* updateAggregate runs once per interval with its own bucket arithmetic, so *)
(* this fails as soon as the two disagree on which candle a stamp belongs    *)
(* to, a saved row is replaced by another bucket's or volume is counted      *)
(* twice - a clock set back included.                                       *)
CandlesReconcile ==
  \A s \in Symbols : \A c \in AllCandles(s, 5) :
    LET ones   == Within(AllCandles(s, 1), c)
        At(t)  == CHOOSE o \in ones : o.timestamp = t
        stamps == {o.timestamp : o \in ones}
    IN  /\ ones # {}
        /\ Cardinality(ones) = Cardinality(stamps)
        /\ c.open = At(Min(stamps)).open /\ c.close = At(Max(stamps)).close
        /\ c.high = Max({o.high : o \in ones}) /\ c.low = Min({o.low : o \in ones})
        /\ c.volume = Volume(ones)

-----------------------------------------------------------------------------
(* The inductive strengthening.  First what it is for c to combine the       *)
(* candles of ones.                                                         *)
Combines(c, ones) ==
  /\ \A o, r \in ones : o.timestamp = r.timestamp => o = r
  /\ \E o \in ones : c.open = o.open /\ \A r \in ones : o.timestamp <= r.timestamp
  /\ \E o \in ones : c.close = o.close /\ \A r \in ones : r.timestamp <= o.timestamp
  /\ \E o \in ones : c.high = o.high
  /\ \E o \in ones : c.low = o.low
  /\ \A o \in ones : o.high <= c.high /\ c.low <= o.low
  /\ c.volume = Volume(ones)

(* The active candles start and end together: the minute's lies in the      *)
(* bucket of the five minutes', and the saved ones of either kind before it. *)
InStep(one, five, ones, fives) ==
  /\ IsFiniteSet(ones)
  /\ one = Inactive <=> five = Inactive
  /\ one = Inactive => ones = {} /\ fives = {}
  /\ one # Inactive =>
       /\ five.timestamp = bucketStart(5, one.timestamp)
       /\ \A r \in ones : r.timestamp < one.timestamp
       /\ \A r \in fives : r.timestamp + 5 <= five.timestamp
  /\ \A c \in fives \cup ({five} \ {Inactive}) :
       Combines(c, Within(ones \cup ({one} \ {Inactive}), c))

CandlesInv ==
  /\ CandlesTypeOK
  /\ \A s \in Symbols : InStep(agg[s, 1], agg[s, 5], rows[s, 1], rows[s, 5])
=============================================================================
