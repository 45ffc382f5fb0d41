---------------------------- MODULE MarketStream ----------------------------
(***************************************************************************)
(* One provider of the market feed, from the socket to the published order *)
(* book: subscriptions in two places, a supervised connection that backs   *)
(* off and announces its subscriptions again, incremental updates through  *)
(* a bounded queue, and a snapshot over REST that races with them.  The    *)
(* exchange's book is a version number; what the engine publishes is which *)
(* versions went into it.                                                  *)
(***************************************************************************)
EXTENDS Integers, Sequences, FiniteSets, SequencesExt

CONSTANTS Symbols,      \* what may be subscribed
          Configured,   \* settings.symbols
          Prepared,     \* those routed to a provider that is not implemented yet
          BookSymbol,   \* the one whose order book is followed
          Venues,       \* the exchanges this is checked for
          MaxRetries,   \* consecutive failures before giving up, 0 for never
          QueueSize,    \* collector_queue_size
          MaxVersion,   \* bound by venue: changes of the exchange's book
          MaxFaults     \* bound by venue: everything that goes wrong or is done by hand

ASSUME StreamAssumption ==
  /\ IsFiniteSet(Symbols) /\ Configured \subseteq Symbols /\ Prepared \subseteq Configured
  /\ BookSymbol \in Configured \ Prepared
  /\ Venues \subseteq {"binance", "okx", "bybit"}
  /\ MaxRetries \in Nat /\ QueueSize \in Nat \ {0}
  /\ MaxVersion \in [Venues -> Nat \ {0}] /\ MaxFaults \in [Venues -> Nat]

VARIABLES
  venue,     \* the exchange behind the provider
  feed,      \* MarketFeed: [up, todo, subs]; todo is what _on_start has yet to subscribe
  prov,      \* BaseWSProvider: [live, subs]
  conn,      \* WSConnection: [state, task, fails, todo, size, held]
  sockets,   \* transports opened and not closed
  link,      \* the network under the current one: up, silent or down
  wire,      \* the symbols the exchange sends on it
  version,   \* changes of the exchange's book
  inbox,     \* frames of the book on their way
  queue,     \* TickCollector._queue, updates of this book only
  book,      \* OrderBookEngine: [synced, seq, upto, at, hole]
  shown,     \* what MarketStateStore holds, in the same terms
  asks,      \* reasons to fetch a snapshot: the resync event, the initial bootstrap
  fetches,   \* requests in flight, by the version they started at
  faults,
  mishaps    \* history: what happened that a property excuses

vars == <<venue, feed, prov, conn, sockets, link, wire, version, inbox, queue, book, shown,
          asks, fetches, faults, mishaps>>

Nothing == [upto |-> 0, at |-> 0, hole |-> FALSE]
NoConnection == [state |-> "disconnected", task |-> "none", fails |-> 0, todo |-> <<>>, size |-> 0,
                 held |-> FALSE]

Init ==
  /\ venue \in Venues
  /\ feed = [up |-> FALSE, todo |-> {}, subs |-> {}]
  /\ prov = [live |-> FALSE, subs |-> {}]
  /\ conn = NoConnection
  /\ sockets = 0 /\ link = "down" /\ wire = {} /\ version = 1
  /\ inbox = <<>> /\ queue = <<>>
  /\ book = [synced |-> FALSE, seq |-> 0, upto |-> 0, at |-> 0, hole |-> FALSE]
  /\ shown = Nothing
  /\ asks = {} /\ fetches = {} /\ faults = 0 /\ mishaps = {}

Bookkeeping == <<venue, version, book, shown>>
Fault(cause) == /\ faults < MaxFaults[venue] /\ faults' = faults + 1
                /\ mishaps' = mishaps \cup cause

-----------------------------------------------------------------------------
(* What the venues send.                                                   *)

Update(first, last, n) == [snap |-> FALSE, first |-> first, last |-> last, n |-> n]
Snapshot(last, n)      == [snap |-> TRUE, first |-> 0, last |-> last, n |-> n]

\* The normalizers: U and u; prevSeqId + 1 and seqId; u twice.
BinanceUpdate(n) == Update(n, n, n)
OKXUpdate(n)     == Update((n - 1) + 1, n, n)
BybitUpdate(n)   == Update(n, n, n)
StreamUpdate(n) ==
  CASE venue = "binance" -> BinanceUpdate(n)
    [] venue = "okx"     -> OKXUpdate(n)
    [] venue = "bybit"   -> BybitUpdate(n)

\* A new subscription of OKX or Bybit starts with a snapshot, one of Binance does not.
Greeting == IF venue = "binance" THEN <<>> ELSE <<Snapshot(version, version)>>

\* fetch_orderbook_snapshot: lastUpdateId, nothing, u.
BinanceSnapshot(n) == Snapshot(n, n)
OKXSnapshot(n)     == Snapshot(0, n)
BybitSnapshot(n)   == Snapshot(n, n)
RestSnapshot(n) ==
  CASE venue = "binance" -> BinanceSnapshot(n)
    [] venue = "okx"     -> OKXSnapshot(n)
    [] venue = "bybit"   -> BybitSnapshot(n)

-----------------------------------------------------------------------------
(* The feed and the provider's subscriptions.                              *)

\* _on_start subscribes the configured symbols; a later provider may suspend it.
FeedStarts ==
  /\ ~feed.up
  /\ feed' = [feed EXCEPT !.up = TRUE, !.todo = Configured]
  /\ UNCHANGED <<Bookkeeping, prov, conn, sockets, link, wire, inbox, queue, asks, fetches,
                 faults, mishaps>>

\* A provider that is only prepared raises when started: the symbol is left out.
SubscribeFails(s) ==
  /\ feed.up /\ s \in feed.todo \cap Prepared
  /\ feed' = [feed EXCEPT !.todo = @ \ {s}]
  /\ UNCHANGED <<Bookkeeping, prov, conn, sockets, link, wire, inbox, queue, asks, fetches,
                 faults, mishaps>>

Connected == conn.state = "connected"
\* send() raises unless the connection is established and the socket still works.
Sends     == Connected /\ link # "down"
\* Over a silent link the frame leaves and never arrives.
Heard     == Sends /\ link = "up"

\* subscribe: the provider is built on first use; its own record changes before the
\* frame is sent, the feed's after.
Subscribe(s) ==
  /\ feed.up /\ s \notin Prepared
  /\ IF s \in feed.todo THEN UNCHANGED <<faults, mishaps>> ELSE s \notin feed.subs /\ Fault({})
  /\ prov' = [live |-> TRUE, subs |-> prov.subs \cup {s}]
  /\ conn' = IF prov.live THEN conn ELSE [NoConnection EXCEPT !.task = "sleeping"]
  /\ LET raised == Connected /\ ~Sends IN
     /\ feed' = [feed EXCEPT !.todo = @ \ {s}, !.subs = IF raised THEN @ ELSE @ \cup {s}]
     /\ asks' = IF s = BookSymbol /\ ~raised THEN asks \cup {"bootstrap"} ELSE asks
  /\ wire' = IF Heard THEN wire \cup {s} ELSE wire
  /\ inbox' = IF Heard /\ s = BookSymbol /\ s \notin wire THEN inbox \o Greeting ELSE inbox
  /\ UNCHANGED <<Bookkeeping, sockets, link, queue, fetches>>

\* unsubscribe: both records change before the frame is sent.
Unsubscribe(s) ==
  /\ feed.up /\ s \in feed.subs /\ Fault({})
  /\ feed' = [feed EXCEPT !.subs = @ \ {s}]
  /\ prov' = [prov EXCEPT !.subs = @ \ {s}]
  /\ wire' = IF Heard THEN wire \ {s} ELSE wire
  /\ UNCHANGED <<Bookkeeping, conn, sockets, link, inbox, queue, asks, fetches>>

\* _on_stop stops the provider and with it connection, socket and REST client; the
\* feed's own subscriptions stay, those the settings do not list without a provider.
FeedStops ==
  /\ feed.up /\ feed.todo = {}
  /\ Fault(IF feed.subs \subseteq Configured THEN {} ELSE {"orphaned"})
  /\ feed' = [feed EXCEPT !.up = FALSE]
  /\ prov' = [live |-> FALSE, subs |-> {}]
  /\ conn' = [NoConnection EXCEPT !.state = "stopped"]
  /\ sockets' = IF conn.held THEN sockets - 1 ELSE sockets
  /\ link' = "down" /\ wire' = {} /\ inbox' = <<>>
  /\ asks' = asks \ {"resync"} /\ fetches' = {}
  /\ UNCHANGED <<Bookkeeping, queue>>

-----------------------------------------------------------------------------
(* WSConnection._run, one step between two suspensions.                    *)

\* A ProviderError ends an attempt: one failure more, then the limit or the backoff.
AfterFailure(c) ==
  LET ended == MaxRetries > 0 /\ c.fails + 1 >= MaxRetries
  IN  [c EXCEPT !.state = IF ended THEN "disconnected" ELSE "reconnecting",
                !.task  = IF ended THEN "ended" ELSE "sleeping",
                !.fails = @ + 1, !.todo = <<>>, !.size = 0]

GaveUp(c) == IF AfterFailure(c).task = "ended" THEN {"gave_up"} ELSE {}

\* The backoff ends and the handshake succeeds; on_connected starts to iterate over
\* the provider's subscriptions.
Mutant_OnlyFirstTime(c) == IF c.fails = 0 THEN prov.subs ELSE {}
Announced(c) == prov.subs

Connect ==
  /\ conn.task = "sleeping"
  /\ conn' = [conn EXCEPT !.state = "connected", !.task = "announcing", !.held = TRUE,
                          !.todo = SetToSeq(Announced(conn)), !.size = Cardinality(prov.subs)]
  /\ sockets' = sockets + 1
  /\ link' = "up" /\ wire' = {} /\ inbox' = <<>>
  /\ UNCHANGED <<Bookkeeping, feed, prov, queue, asks, fetches, faults, mishaps>>

ConnectFails ==
  /\ conn.task = "sleeping" /\ Fault(GaveUp(conn))
  /\ conn' = AfterFailure(conn)
  /\ UNCHANGED <<Bookkeeping, feed, prov, sockets, link, wire, inbox, queue, asks, fetches>>

\* _on_connected sends one subscription.  A dictionary that changed size in the
\* meantime raises RuntimeError, which nobody catches: the task dies connected.  A
\* socket that fails raises ProviderError before the try that closes it.
Resized == Cardinality(prov.subs) # conn.size
Announce ==
  /\ conn.task = "announcing" /\ ~Resized /\ conn.todo # <<>> /\ Sends
  /\ LET s == Head(conn.todo) IN
     /\ wire' = IF Heard THEN wire \cup {s} ELSE wire
     /\ inbox' = IF Heard /\ s = BookSymbol /\ s \notin wire THEN inbox \o Greeting ELSE inbox
  /\ conn' = [conn EXCEPT !.todo = Tail(@)]
  /\ UNCHANGED <<Bookkeeping, feed, prov, sockets, link, queue, asks, fetches, faults, mishaps>>

AnnounceFails ==
  /\ conn.task = "announcing" /\ ~Resized /\ conn.todo # <<>> /\ ~Sends
  /\ conn' = AfterFailure(conn)
  /\ wire' = {} /\ inbox' = <<>>
  /\ mishaps' = mishaps \cup {"leaked"} \cup GaveUp(conn)
  /\ UNCHANGED <<Bookkeeping, feed, prov, sockets, link, queue, asks, fetches, faults>>

AnnounceRaises ==
  /\ conn.task = "announcing" /\ Resized
  /\ conn' = [conn EXCEPT !.task = "dead"]
  /\ mishaps' = mishaps \cup {"resized"}
  /\ UNCHANGED <<Bookkeeping, feed, prov, sockets, link, wire, inbox, queue, asks, fetches, faults>>

AnnounceEnds ==
  /\ conn.task = "announcing" /\ ~Resized /\ conn.todo = <<>>
  /\ conn' = [conn EXCEPT !.task = "listening", !.fails = 0, !.size = 0]
  /\ UNCHANGED <<Bookkeeping, feed, prov, sockets, link, wire, inbox, queue, asks, fetches,
                 faults, mishaps>>

\* receive() raises on a broken socket, and the stale timeout on a silent one; the
\* failed ping of the heartbeat changes nothing.  The transport is closed.
Noticed == {"down", "silent"}
Closed == sockets - 1

Lose ==
  /\ conn.task = "listening" /\ link \in Noticed
  /\ conn' = [AfterFailure(conn) EXCEPT !.held = FALSE]
  /\ mishaps' = mishaps \cup GaveUp(conn)
  /\ sockets' = Closed
  /\ wire' = {} /\ inbox' = <<>>
  /\ UNCHANGED <<Bookkeeping, feed, prov, link, queue, asks, fetches, faults>>

\* submit(): a full queue drops the object.
Submit(msg) ==
  IF Len(queue) < QueueSize
  THEN queue' = Append(queue, msg) /\ UNCHANGED mishaps
  ELSE UNCHANGED queue /\ mishaps' = mishaps \cup {"dropped"}

Receive ==
  /\ conn.task = "listening" /\ inbox # <<>>
  /\ inbox' = Tail(inbox)
  /\ Submit(Head(inbox))
  /\ UNCHANGED <<Bookkeeping, feed, prov, conn, sockets, link, wire, asks, fetches, faults>>

\* A frame that does not parse or normalize is counted and left out.
ReceiveGarbled ==
  /\ conn.task = "listening" /\ inbox # <<>> /\ Fault({})
  /\ inbox' = Tail(inbox)
  /\ UNCHANGED <<Bookkeeping, feed, prov, conn, sockets, link, wire, queue, asks, fetches>>

-----------------------------------------------------------------------------
(* The exchange and the network.                                           *)

ExchangeUpdates ==
  /\ version < MaxVersion[venue]
  /\ version' = version + 1
  /\ inbox' = IF BookSymbol \in wire /\ link = "up" THEN Append(inbox, StreamUpdate(version + 1))
              ELSE inbox
  /\ UNCHANGED <<venue, book, shown, feed, prov, conn, sockets, link, wire, queue, asks, fetches,
                 faults, mishaps>>

LinkFails(how) ==
  /\ link = "up" /\ conn.held /\ Fault({})
  /\ link' = how
  /\ UNCHANGED <<Bookkeeping, feed, prov, conn, sockets, wire, inbox, queue, asks, fetches>>

-----------------------------------------------------------------------------
(* The collector, the book and its snapshots.                              *)

\* _has_gap: unknown sequences hide a hole.
Mutant_GapOfTwo(b, msg) == ~(msg.first = 0 \/ b.seq = 0) /\ msg.first > b.seq + 2
HasGap(b, msg) == ~(msg.first = 0 \/ b.seq = 0) /\ msg.first > b.seq + 1

\* An update already seen.
Seen(b, msg) == 0 < msg.last /\ msg.last <= b.seq

\* Writing the levels of one update: a version may be missing, or levels may be back
\* at an older version until the updates since are written again.
Written(b, msg) ==
  [synced |-> TRUE,
   seq    |-> IF msg.last = 0 THEN b.seq ELSE msg.last,
   upto   |-> IF msg.n > b.upto THEN msg.n ELSE b.upto,
   at     |-> msg.n,
   hole   |-> b.hole \/ msg.n > b.at + 1]

Loaded(msg) == [synced |-> TRUE, seq |-> msg.last, upto |-> msg.n, at |-> msg.n, hole |-> FALSE]

\* OrderBookEngine.apply: the book afterwards.
Applied(b, msg) ==
  IF msg.snap THEN Loaded(msg)
  ELSE IF ~b.synced THEN b
  ELSE IF HasGap(b, msg) THEN [b EXCEPT !.synced = FALSE]
  ELSE IF Seen(b, msg) THEN b
  ELSE Written(b, msg)

Content(b) == [upto |-> b.upto, at |-> b.at, hole |-> b.hole]

\* _process_book_delta: a book that loses its sequence asks for a snapshot, through
\* an event that a full bus loses; any other that changed is published.
Process(lost) ==
  LET msg == Head(queue)
      b   == Applied(book, msg)
      resync == book.synced /\ ~b.synced
  IN
  /\ queue # <<>>
  /\ queue' = Tail(queue)
  /\ book' = b
  /\ shown' = IF b.synced /\ b # book THEN Content(b) ELSE shown
  /\ asks' = IF resync /\ feed.up /\ ~lost THEN asks \cup {"resync"} ELSE asks
  /\ IF lost THEN resync /\ Fault({"lost"})
     ELSE /\ mishaps' = IF msg.snap /\ msg.last = 0 THEN mishaps \cup {"unstamped"} ELSE mishaps
          /\ UNCHANGED faults
  /\ UNCHANGED <<venue, version, feed, prov, conn, sockets, link, wire, inbox, fetches>>

\* _on_resync_required and the bootstrap after a subscription; without a provider or
\* a subscription nothing is fetched.
Mutant_EventOnly(why) == prov.live /\ why = "resync"
Fetchable(why) == prov.live /\ (why = "bootstrap" => BookSymbol \in feed.subs)
Fetch(why) ==
  /\ why \in asks
  /\ asks' = asks \ {why}
  /\ fetches' = IF Fetchable(why) THEN fetches \cup {version} ELSE fetches
  /\ UNCHANGED <<Bookkeeping, feed, prov, conn, sockets, link, wire, inbox, queue, faults, mishaps>>

\* The snapshot was taken at any moment of the request.
Answer(from) ==
  /\ from \in fetches
  /\ fetches' = fetches \ {from}
  /\ \E n \in from..version : Submit(RestSnapshot(n))
  /\ UNCHANGED <<Bookkeeping, feed, prov, conn, sockets, link, wire, inbox, asks, faults>>

\* A failed request is logged; nothing tries again.
FetchFails(from) ==
  /\ from \in fetches /\ Fault({"unfetched"})
  /\ fetches' = fetches \ {from}
  /\ UNCHANGED <<Bookkeeping, feed, prov, conn, sockets, link, wire, inbox, queue, asks>>

-----------------------------------------------------------------------------
FeedSteps ==
  \/ FeedStarts
  \/ \E s \in feed.todo : SubscribeFails(s) \/ Subscribe(s)
ConnectionSteps ==
  \/ Connect \/ Announce \/ AnnounceFails \/ AnnounceRaises \/ AnnounceEnds \/ Lose \/ Receive
BookSteps ==
  \/ Process(FALSE)
  \/ \E why \in asks : Fetch(why)
  \/ \E from \in fetches : Answer(from)

Next ==
  \/ FeedSteps \/ ConnectionSteps \/ BookSteps
  \/ \E s \in Symbols \ feed.todo : Subscribe(s) \/ Unsubscribe(s)
  \/ FeedStops \/ ConnectFails \/ ReceiveGarbled \/ ExchangeUpdates
  \/ \E how \in {"silent", "down"} : LinkFails(how)
  \/ Process(TRUE)
  \/ \E from \in fetches : FetchFails(from)

\* Tasks that can run do, timers fire, requests end; faults are bounded.
Fairness == WF_vars(FeedSteps) /\ WF_vars(ConnectionSteps) /\ WF_vars(BookSteps)

Spec == Init /\ [][Next]_vars /\ Fairness

-----------------------------------------------------------------------------
(* Properties.                                                             *)

\* Every variable has its type; the collector's queue is bounded.
TypeOK ==
  /\ venue \in Venues
  /\ feed.up \in BOOLEAN /\ feed.todo \subseteq Configured /\ feed.subs \subseteq Symbols
  /\ prov.live \in BOOLEAN /\ prov.subs \subseteq Symbols
  /\ conn.state \in {"disconnected", "connected", "reconnecting", "stopped"}
  /\ conn.task \in {"none", "sleeping", "announcing", "listening", "dead", "ended"}
  /\ conn.fails \in Nat /\ Range(conn.todo) \subseteq Symbols /\ conn.size \in Nat
  /\ sockets \in Nat /\ link \in {"up", "silent", "down"} /\ wire \subseteq Symbols
  /\ version \in 1..MaxVersion[venue]
  /\ Len(queue) <= QueueSize
  /\ book.synced \in BOOLEAN /\ book.seq \in 0..MaxVersion[venue]
  /\ {shown.upto, shown.at} \subseteq 0..MaxVersion[venue]
  /\ asks \subseteq {"resync", "bootstrap"} /\ fetches \subseteq 0..MaxVersion[venue]
  /\ faults \in 0..MaxFaults[venue]
  /\ mishaps \subseteq {"orphaned", "gave_up", "leaked", "resized", "dropped", "lost",
                       "unstamped", "unfetched"}

\* The published book is the exchange's at some version, whatever order snapshots and
\* updates come in and whatever is lost, until a snapshot without a sequence switches
\* the detection of holes off (orderbook_manager.py:51-96, okx.py:96-114).
BookIsWhole == "unstamped" \notin mishaps => (~shown.hole /\ shown.at = shown.upto)

\* Once a connection has announced itself the exchange sends what the feed believes
\* it is subscribed to (base.py:186-198, feed.py:108-145, 203-212).
SubscribedIsServed ==
  (conn.task = "listening" /\ link = "up" /\ mishaps \cap {"orphaned"} = {}) => feed.subs \ feed.todo \subseteq wire

\* A connection that says it is connected has a task that listens (connection.py:202-229).
ConnectedListens ==
  (Connected /\ "resized" \notin mishaps) => conn.task \in {"announcing", "listening"}

\* One socket at a time, and none when stopped, unless an announcement failed
\* (connection.py:170-183, 238-270).
OneSocket ==
  mishaps \cap {"leaked"} = {} => sockets = IF conn.held THEN 1 ELSE 0

\* A provider that is wanted ends up listening on a link that works: refused
\* connections, broken and silent links are all left behind (connection.py:202-299).
StreamRecovers ==
  (feed.up /\ prov.live)
    ~> (~feed.up \/ mishaps \cap {"gave_up", "resized"} # {}
        \/ (conn.task = "listening" /\ link = "up"))

\* A book out of sequence is rebuilt, unless the request, its answer or the event that
\* asks for it is lost: nothing asks again, the watch over the connections included
\* (feed.py:184-201, 268-283; scheduler/jobs.py:42-45).
BookRecovers ==
  (feed.up /\ BookSymbol \in feed.subs /\ ~book.synced)
    ~> (book.synced \/ ~feed.up \/ BookSymbol \notin feed.subs
        \/ mishaps \cap {"lost", "unfetched", "dropped"} # {})

\* The provider is one socket that listens and is sent what the feed asked for, across
\* drops, restarts and announcements that fail half way (base.py:186-198,
\* connection.py:170-299, feed.py:108-145).
ServedAsShown == TypeOK /\ SubscribedIsServed /\ ConnectedListens /\ OneSocket

\* Broken streams and broken books are both mended (connection.py:202-299,
\* feed.py:184-201, 268-283).
MarketRecovers == StreamRecovers /\ BookRecovers
=============================================================================
