----------------------------- MODULE MarketTape -----------------------------
(***************************************************************************)
(* From normalized trades, quotes and bars to candles and rows: the worker *)
(* of the collector, the job that closes quiet candles and the backfill    *)
(* take turns on one event loop, each suspended in the cache between two   *)
(* writes; the writer moves rows to the database in batches.  One symbol,  *)
(* one timeframe.  A candle is the bucket it covers and what went into it. *)
(***************************************************************************)
EXTENDS Integers, Sequences, FiniteSets, SequencesExt

CONSTANTS Modes,          \* which feed: "trades", "quotes" (MT5) or "bars"
          Bucket,         \* length of the timeframe
          Grace,          \* quality.out_of_order_grace_seconds
          FutureTolerance,
          MaxJump,        \* quality.max_price_jump_pct, in price levels
          Prices,
          Remembered,     \* quality.duplicate_window
          HistoryLimit,   \* candle_history_limit
          WarmUp,         \* backfill_on_subscribe
          BufferLimit, BatchSize,
          MaxClock,       \* bound on the clock
          MaxSent,        \* bound on what the provider sends
          MaxFailures     \* bound on what goes wrong at the database

ASSUME TapeAssumption ==
  /\ Modes \subseteq {"trades", "quotes", "bars"}
  /\ {Bucket, Remembered, HistoryLimit, BufferLimit, BatchSize} \subseteq Nat \ {0}
  /\ {Grace, FutureTolerance, MaxJump, WarmUp, MaxClock, MaxSent, MaxFailures} \subseteq Nat
  /\ Bucket =< MaxClock
  /\ Prices \subseteq Nat /\ \E p \in Prices : p > 0

VARIABLES
  mode, clock, sent, failures,
  source,    \* the last trade, tick or bar of the venue
  pending,   \* TickCollector._queue
  track,     \* _SymbolTrack: [ts, price, ids]
  worker,    \* the collector's task: [at, msg, candle]
  flusher,   \* the market_flush_candles job: [at, candle]
  backfill,  \* the warm-up: [at, todo]
  building,  \* CandleAggregator._building
  series,    \* the candles in MarketStateStore
  closed,    \* CandleClosed events, in order
  accepted,  \* history: trades let through
  ticks, candles,  \* the writer's buffers
  writer,    \* [at, batch]; at also says whether it is the last flush
  kept,      \* where rows ended up: db, spill, ignored or lost
  up,
  slips      \* history: what happened that a property excuses

feedVars   == <<sent, source, pending, track, accepted>>
candleVars == <<worker, flusher, backfill, building, series, closed>>
writerVars == <<ticks, candles, writer, kept>>
tapeVars   == <<mode, clock, failures, feedVars, candleVars, writerVars, up, slips>>

BucketOf(ts) == ts - (ts % Bucket)
None       == [start |-> -1, pts |-> {}, n |-> 0, src |-> "none"]
Idle       == [at |-> "idle", msg |-> None, candle |-> None]
EndOf(c)   == c.start + Bucket

TapeInit ==
  /\ mode \in Modes /\ clock = Bucket /\ sent = 0 /\ failures = 0
  /\ source = [id |-> 0, ts |-> IF mode = "bars" THEN 0 ELSE Bucket,
               price |-> CHOOSE p \in Prices : p > 0]
  /\ pending = <<>>
  /\ track = [ts |-> -1, price |-> 0, ids |-> <<>>]
  /\ worker = Idle /\ flusher = [at |-> "idle", candle |-> None]
  /\ backfill = [at |-> IF WarmUp > 0 THEN "asked" ELSE "done", todo |-> <<>>]
  /\ building = None /\ series = <<>> /\ closed = <<>> /\ accepted = {}
  /\ ticks = <<>> /\ candles = <<>> /\ writer = [at |-> "asleep", batch |-> <<>>]
  /\ kept = [db |-> {}, spill |-> {}, ignored |-> {}, lost |-> {}]
  /\ up = TRUE /\ slips = {}

ClockTicks ==
  /\ up /\ clock < MaxClock /\ clock' = clock + 1
  /\ UNCHANGED <<mode, failures, feedVars, candleVars, writerVars, up, slips>>

-----------------------------------------------------------------------------
(* What the provider sends.                                                *)

Send(msg) ==
  /\ up /\ sent < MaxSent /\ sent' = sent + 1 /\ pending = <<>>
  /\ pending' = Append(pending, msg)
  /\ UNCHANGED <<mode, clock, failures, track, accepted, candleVars, writerVars, up, slips>>

\* A trade, possibly delayed or with a clock ahead of ours; or the last one again.
Deal(ts, price) ==
  /\ mode = "trades" /\ ts >= 0
  /\ source' = [id |-> sent + 1, ts |-> ts, price |-> price]
  /\ Send(source')

DealAgain ==
  /\ mode = "trades" /\ source.id > 0 /\ UNCHANGED source /\ Send(source)

\* MT5: the poll reads the symbol's last tick, whether it changed or not.
Quote ==
  /\ mode = "quotes" /\ source.ts < clock
  /\ source' = [source EXCEPT !.id = sent + 1, !.ts = clock]
  /\ UNCHANGED <<mode, clock, failures, sent, pending, track, accepted, candleVars, writerVars, up,
                 slips>>

Poll == mode = "quotes" /\ UNCHANGED source /\ Send(source)

\* The provider's own closed bar, once for each.
Bar ==
  /\ mode = "bars" /\ source.ts < BucketOf(clock)
  /\ source' = [source EXCEPT !.id = sent + 1, !.ts = BucketOf(clock)]
  /\ Send([source' EXCEPT !.ts = @ - Bucket])

-----------------------------------------------------------------------------
(* The validator.                                                          *)

Window(ids) == IF Len(ids) > Remembered THEN Tail(ids) ELSE ids
Apart(a, b) == IF a > b THEN a - b ELSE b - a

\* validate_trade: an identifier is remembered even if the trade is then discarded.
Duplicate(msg)  == \E i \in DOMAIN track.ids : track.ids[i] = msg.id
OutOfOrder(msg) == track.ts # -1 /\ msg.ts < track.ts - Grace
PriceGap(msg)   == track.price > 0 /\ msg.price > 0 /\ Apart(msg.price, track.price) > MaxJump
Future(msg)     == msg.ts > clock + FutureTolerance
Worthless(msg)  == msg.price <= 0

TradeRefused(msg) ==
  Worthless(msg) \/ Future(msg) \/ Duplicate(msg) \/ OutOfOrder(msg) \/ PriceGap(msg)
QuoteRefused(msg) == Worthless(msg) \/ Future(msg)
BarRefused(msg)   == Worthless(msg)   \* a bar's times are not held against the clock

Discarded(msg) ==
  \/ mode = "trades" /\ TradeRefused(msg)
  \/ mode = "quotes" /\ QuoteRefused(msg)
  \/ mode = "bars" /\ BarRefused(msg)

Tracked(msg) ==
  LET ids == IF Duplicate(msg) THEN track.ids ELSE Window(Append(track.ids, msg.id)) IN
  IF mode # "trades" THEN track
  ELSE IF Discarded(msg) THEN [track EXCEPT !.ids = ids]
  ELSE [ts |-> IF msg.ts > track.ts THEN msg.ts ELSE track.ts, price |-> msg.price, ids |-> ids]

-----------------------------------------------------------------------------
(* Candles.                                                                *)

\* update_candle: the same bar again replaces the last one.
Stored(c) ==
  IF series # <<>> /\ Last(series).start = c.start
  THEN [series EXCEPT ![Len(series)] = c]
  ELSE LET s == Append(series, c) IN IF Len(s) > HistoryLimit THEN Tail(s) ELSE s

\* deque(maxlen): the oldest row goes.
Full(buffer) == Len(buffer) = BufferLimit
Buffered(buffer, row) == Append(IF Full(buffer) THEN Tail(buffer) ELSE buffer, row)
Overflow(buffer) == IF Full(buffer) THEN {Head(buffer)} ELSE {}

\* The worker takes one object: validation, state and the writer's row, then the cache.
Take ==
  LET msg == Head(pending)
      c   == [start |-> BucketOf(msg.ts), pts |-> {msg}, n |-> 1, src |-> "bar"]
  IN
  /\ up /\ worker.at = "idle" /\ pending # <<>>
  /\ pending' = Tail(pending)
  /\ track' = Tracked(msg)
  /\ IF Discarded(msg)
     THEN UNCHANGED <<accepted, worker, series, ticks, kept, slips>>
     ELSE CASE mode = "trades" ->
            /\ accepted' = accepted \cup {msg}
            /\ ticks' = Buffered(ticks, msg)
            /\ kept' = [kept EXCEPT !.lost = @ \cup Overflow(ticks)]
            /\ worker' = [at |-> "caching", msg |-> msg, candle |-> None]
            /\ slips' = IF Full(ticks) THEN slips \cup {"overflow"} ELSE slips
            /\ UNCHANGED series
          [] mode = "quotes" ->
            /\ worker' = [at |-> "caching", msg |-> msg, candle |-> None]
            /\ accepted' = accepted \cup {msg}
            /\ UNCHANGED <<series, ticks, kept, slips>>
          [] mode = "bars" ->
            /\ worker' = [at |-> "emitting", msg |-> None, candle |-> c]
            /\ series' = Stored(c)
            /\ slips' = IF backfill.at = "done" THEN slips ELSE slips \cup {"raced"}
            /\ UNCHANGED <<accepted, ticks, kept>>
  /\ UNCHANGED <<mode, clock, failures, sent, source, flusher, backfill, building, closed, candles,
                 writer, up>>

\* _fold, back from the cache: close what the point is past, open what it needs, and
\* add it to whatever is being built.
Expired(ts) == building # None /\ ts >= EndOf(building)
Fresh(msg) == [start |-> BucketOf(msg.ts), pts |-> {}, n |-> 0, src |-> "built"]
Folded(c, msg) ==
  LET b == IF c = None \/ Expired(msg.ts) THEN Fresh(msg) ELSE c
  IN  [b EXCEPT !.pts = @ \cup {msg}, !.n = @ + 1]

\* A point that comes back after the end of its bucket, or ahead of the clock.
Untimely(msg) == BucketOf(msg.ts) # BucketOf(clock) \/ (building # None /\ building.start > msg.ts)

Fold ==
  LET msg == worker.msg IN
  /\ up /\ worker.at = "caching"
  /\ building' = Folded(building, msg)
  /\ IF Expired(msg.ts)
     THEN /\ worker' = [at |-> "emitting", msg |-> None, candle |-> building]
          /\ series' = Stored(building)
     ELSE worker' = Idle /\ UNCHANGED series
  /\ slips' = slips \cup (IF Untimely(msg) THEN {"untimely"} ELSE {})
                        \cup (IF Expired(msg.ts) /\ backfill.at # "done" THEN {"raced"} ELSE {})
  /\ UNCHANGED <<mode, clock, failures, feedVars, flusher, backfill, closed, writerVars, up>>

\* flush_stale: the job closes a candle whose time is over.
Mutant_KeptOpen == building
Emptied == None
Mutant_OnlyWithTraffic == building # None /\ clock >= EndOf(building) /\ pending # <<>>
Overdue == building # None /\ clock >= EndOf(building)
FlushStale ==
  /\ up /\ flusher.at = "idle" /\ Overdue
  /\ building' = Emptied
  /\ flusher' = [at |-> "emitting", candle |-> building]
  /\ series' = Stored(building)
  /\ slips' = IF backfill.at = "done" THEN slips ELSE slips \cup {"raced"}
  /\ UNCHANGED <<mode, clock, failures, feedVars, worker, backfill, closed, writerVars, up>>

\* _emit_closed_candle, after the cache: the row, then the event.
Emit(c) ==
  /\ candles' = Buffered(candles, c)
  /\ kept' = [kept EXCEPT !.lost = @ \cup Overflow(candles)]
  /\ slips' = IF Full(candles) THEN slips \cup {"overflow"} ELSE slips
  /\ closed' = Append(closed, c)
  /\ UNCHANGED <<mode, clock, failures, feedVars, backfill, building, series, ticks, writer, up>>

WorkerEmits  == /\ up /\ worker.at = "emitting" /\ Emit(worker.candle)
                /\ worker' = Idle /\ UNCHANGED flusher
FlusherEmits == /\ up /\ flusher.at = "emitting" /\ Emit(flusher.candle)
                /\ flusher' = [at |-> "idle", candle |-> None] /\ UNCHANGED worker

-----------------------------------------------------------------------------
(* The warm-up.                                                            *)

History(start) == [start |-> start, pts |-> {}, n |-> 0, src |-> "history"]

\* fetch_candles: the bars that are over when the request is served; MT5 reports the
\* forming one among them, and as closed.
Fetched ==
  LET last == IF mode = "quotes" THEN BucketOf(clock) ELSE BucketOf(clock) - Bucket
  IN  [i \in 1..WarmUp |-> History(last - Bucket * (WarmUp - i))]
FetchHistory ==
  /\ up /\ backfill.at = "asked"
  /\ backfill' = [at |-> "priming", todo |-> Fetched]
  /\ UNCHANGED <<mode, clock, failures, feedVars, worker, flusher, building, series, closed,
                 writerVars, up, slips>>

\* prime_candles: one bar, then the cache.  It may be past the one being built, or
\* past one the provider has closed and the worker has yet to take.
Overtaken ==
  LET start == Head(backfill.todo).start
  IN  \/ building # None /\ building.start < start
      \/ mode = "bars" /\ \E i \in DOMAIN pending : pending[i].ts < start
Prime ==
  /\ up /\ backfill.at = "priming"
  /\ series' = Stored(Head(backfill.todo))
  /\ backfill' = [at |-> IF Len(backfill.todo) = 1 THEN "done" ELSE "priming",
                  todo |-> Tail(backfill.todo)]
  /\ slips' = IF Overtaken THEN slips \cup {"raced"} ELSE slips
  /\ UNCHANGED <<mode, clock, failures, feedVars, worker, flusher, building, closed, writerVars,
                 up>>

-----------------------------------------------------------------------------
(* The writer.                                                             *)

Batch(s)     == SubSeq(s, 1, IF Len(s) < BatchSize THEN Len(s) ELSE BatchSize)
Remaining(s) == SubSeq(s, Len(Batch(s)) + 1, Len(s))

\* One flush: a batch of ticks, then one of candles; an empty buffer is skipped.
BatchOfCandles(last) ==
  IF candles = <<>>
  THEN writer' = [at |-> IF last THEN "stopped" ELSE "asleep", batch |-> <<>>] /\ UNCHANGED candles
  ELSE /\ writer' = [at |-> IF last THEN "last_candles" ELSE "candles", batch |-> Batch(candles)]
       /\ candles' = Remaining(candles)

BeginFlush ==
  /\ IF up THEN writer.at = "asleep" /\ (ticks # <<>> \/ candles # <<>>) ELSE writer.at = "last"
  /\ IF ticks = <<>> THEN BatchOfCandles(~up) /\ UNCHANGED ticks
     ELSE /\ writer' = [at |-> IF up THEN "ticks" ELSE "last_ticks", batch |-> Batch(ticks)]
          /\ ticks' = Remaining(ticks) /\ UNCHANGED candles
  /\ UNCHANGED <<mode, clock, failures, feedVars, candleVars, kept, up, slips>>

\* The rows of a batch that the table takes: a candle's first version stays.
Bars(rows) == {row \in rows : "pts" \in DOMAIN row}
First(batch, i) ==
  \A old \in Bars(kept.db) \cup Bars({batch[j] : j \in 1..i - 1}) : old.start # batch[i].start
Taken(batch) ==
  {batch[i] : i \in {j \in DOMAIN batch : batch[j] \in accepted \/ First(batch, j)}}
Inserted(batch) == [kept EXCEPT !.db = @ \cup Taken(batch),
                                !.ignored = @ \cup (Range(batch) \ Taken(batch))]
Spilled(batch) == [kept EXCEPT !.spill = @ \cup Range(batch)]

BatchIn  == writer.at \in {"ticks", "candles", "last_ticks", "last_candles"}
EndBatch ==
  LET last == writer.at \in {"last_ticks", "last_candles"} IN
  IF writer.at \in {"ticks", "last_ticks"} THEN BatchOfCandles(last)
  ELSE /\ writer' = [at |-> IF last THEN "stopped" ELSE "asleep", batch |-> <<>>]
       /\ UNCHANGED candles

Insert ==
  /\ BatchIn /\ EndBatch
  /\ kept' = Inserted(writer.batch)
  /\ UNCHANGED <<mode, clock, failures, feedVars, candleVars, ticks, up, slips>>

\* The database fails and the batch goes to a file; the disk fails too and it is gone.
InsertFails(disk) ==
  /\ BatchIn /\ EndBatch /\ failures < MaxFailures /\ failures' = failures + 1
  /\ kept' = IF disk THEN Spilled(writer.batch)
             ELSE [kept EXCEPT !.lost = @ \cup Range(writer.batch)]
  /\ slips' = IF disk THEN slips ELSE slips \cup {"disk"}
  /\ UNCHANGED <<mode, clock, feedVars, candleVars, ticks, up>>

\* Shutdown: the tasks are cancelled where they wait, an insert under way rolls back
\* or has just been committed, and one flush more is made.  The rest of the memory is
\* never read again.
Shutdown(committed) ==
  /\ up /\ up' = FALSE
  /\ pending' = <<>> /\ worker' = Idle /\ flusher' = [at |-> "idle", candle |-> None]
  /\ backfill' = [at |-> "done", todo |-> <<>>]
  /\ building' = None /\ series' = <<>> /\ track' = [ts |-> -1, price |-> 0, ids |-> <<>>]
  /\ writer' = [at |-> "last", batch |-> <<>>]
  /\ IF committed THEN BatchIn /\ kept' = Inserted(writer.batch) /\ UNCHANGED slips
     ELSE /\ kept' = [kept EXCEPT !.lost = @ \cup Range(writer.batch)]
          /\ slips' = IF BatchIn THEN slips \cup {"cancelled"} ELSE slips
  /\ UNCHANGED <<mode, clock, failures, sent, source, accepted, closed, ticks, candles>>

-----------------------------------------------------------------------------
WorkerSteps  == Take \/ Fold \/ WorkerEmits
FlusherSteps == FlushStale \/ FlusherEmits
WarmupSteps  == FetchHistory \/ Prime
WriterSteps  == BeginFlush \/ Insert

TapeNext ==
  \/ ClockTicks
  \/ \E ts \in clock - Grace - 1 .. clock + FutureTolerance + 1, price \in Prices : Deal(ts, price)
  \/ DealAgain \/ Quote \/ Poll \/ Bar
  \/ WorkerSteps \/ FlusherSteps \/ WarmupSteps \/ WriterSteps
  \/ \E disk \in BOOLEAN : InsertFails(disk)
  \/ \E committed \in BOOLEAN : Shutdown(committed)

\* The tasks run, the job's interval elapses, requests end; time passes.
TapeFairness ==
  /\ WF_tapeVars(ClockTicks) /\ WF_tapeVars(WorkerSteps) /\ WF_tapeVars(FlusherSteps)
  /\ WF_tapeVars(WarmupSteps) /\ WF_tapeVars(WriterSteps)

TapeSpec == TapeInit /\ [][TapeNext]_tapeVars /\ TapeFairness

-----------------------------------------------------------------------------
(* Properties.                                                             *)

\* Every variable has its type; buffers and windows are bounded.
TapeTypes ==
  /\ mode \in Modes /\ clock \in 0 .. MaxClock /\ sent \in 0..MaxSent /\ failures \in 0 .. MaxFailures
  /\ Len(pending) <= 1 /\ Len(track.ids) <= Remembered
  /\ worker.at \in {"idle", "caching", "emitting"} /\ flusher.at \in {"idle", "emitting"}
  /\ backfill.at \in {"asked", "priming", "done"}
  /\ Len(series) <= HistoryLimit /\ Len(ticks) <= BufferLimit /\ Len(candles) <= BufferLimit
  /\ writer.at \in {"asleep", "ticks", "candles", "last", "last_ticks", "last_candles", "stopped"}
  /\ Len(writer.batch) <= BatchSize
  /\ slips \subseteq {"untimely", "raced", "overflow", "disk", "cancelled"}

\* An accepted trade is in one candle, once: the worker and the job that closes quiet
\* candles interleave around the same one (collector.py:194-216, 411-420, candles.py:126-189).
InHand == closed \o <<building, worker.candle, flusher.candle>>
TradesInOneCandle ==
  (mode = "trades" /\ up) =>
    /\ \A t \in accepted :
         Cardinality({i \in DOMAIN InHand : t \in InHand[i].pts})
           = IF worker.at = "caching" /\ worker.msg = t THEN 0 ELSE 1
    /\ \A i \in DOMAIN InHand : InHand[i].n = Cardinality(InHand[i].pts)

\* A candle covers its own bucket and is closed once, while every point is folded in
\* while its bucket lasts.
PointsInBucket ==
  "untimely" \notin slips =>
    /\ \A i \in DOMAIN InHand : \A t \in InHand[i].pts : BucketOf(t.ts) = InHand[i].start
    /\ \A i, j \in DOMAIN closed : closed[i].start = closed[j].start => i = j

\* What strategies read is in order of time, unless a candle closed before the warm-up
\* had ended or a point came late (state.py:77-88, feed.py:147-182).
SeriesOrdered ==
  slips \cap {"untimely", "raced"} = {} =>
    \A i, j \in DOMAIN series : i < j => series[i].start < series[j].start

\* The bar in the database is the one that was shown (state.py:77-88, writer.py:139-152).
StoredAsShown ==
  slips \cap {"untimely", "raced"} = {} =>
    \A row \in Bars(kept.db) : \A i \in DOMAIN series :
      series[i].start = row.start => series[i] = row

\* Every row owed to the database is in one place: a buffer, a batch, the table, the
\* spill file, or a list of losses (writer.py:47-196).
RowsAccounted ==
  mode # "quotes" =>
    \A row \in accepted \cup Range(closed) :
      Cardinality({i \in DOMAIN ticks : ticks[i] = row})
        + Cardinality({i \in DOMAIN candles : candles[i] = row})
        + Cardinality({i \in DOMAIN writer.batch : writer.batch[i] = row})
        + Cardinality({where \in DOMAIN kept : row \in kept[where]}) = 1

\* A candle nobody trades in any more is closed and announced (jobs.py:40-43).
QuietCandleCloses ==
  \A s \in {t \in 0 .. MaxClock - Bucket : t % Bucket = 0} :
    (up /\ building.start = s) ~> (~up \/ \E i \in DOMAIN closed : closed[i].start = s)

\* The writer gets to both buffers (writer.py:121-137).
BuffersDrain == (up /\ candles # <<>>) ~> (~up \/ candles = <<>>)

\* The tape from the exchange to the table: one candle for a trade, one place for a
\* row, one order for the series, one content for a bar (collector.py:194-216, 411-420;
\* candles.py:126-189; state.py:77-88; writer.py:47-196).
TapeIsWhole ==
  /\ TapeTypes
  /\ TradesInOneCandle /\ PointsInBucket
  /\ SeriesOrdered /\ StoredAsShown /\ RowsAccounted

\* Quiet candles and waiting rows are both seen to (jobs.py:40-43, writer.py:121-137).
TapeMovesOn == QuietCandleCloses /\ BuffersDrain
=============================================================================
