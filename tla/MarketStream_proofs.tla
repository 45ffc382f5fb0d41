------------------------- MODULE MarketStream_proofs -------------------------
(***************************************************************************)
(* For any venue, any queue and any history of the connection: the         *)
(* published book is whole, and the provider is one socket that is sent    *)
(* what the feed asked for.  Nothing is assumed of the order messages      *)
(* arrive in: an update names the one version it carries, so a book in     *)
(* sequence is extended by exactly the next one, and everything else is    *)
(* ignored or puts the book out of sequence until a snapshot replaces it.  *)
(*                                                                         *)
(* And, in the second part, the other end of the same pipeline: for any    *)
(* strategies, symbols and bounds, what becomes of a signal (SignalFlow).  *)
(*                                                                         *)
(* And, last, what lies between the two: for any feed and any lengths of   *)
(* buffers, batches and histories, what becomes of a trade on its way to a *)
(* candle and of a candle on its way to the table (MarketTape).            *)
(***************************************************************************)
EXTENDS MarketStream, SignalFlow, MarketTape, FiniteSetTheorems, SequenceTheorems, TLAPS

\* What is on its way to the book: an update of one version, or a snapshot whose
\* sequence is its version or missing; the exchange has published that version.
Messages(newest) ==
  {msg \in [snap : BOOLEAN, first : Nat, last : Nat, n : Nat] :
     /\ msg.n <= newest
     /\ IF msg.snap THEN msg.last \in {0, msg.n}
        ELSE msg.n # 0 /\ msg.first = msg.n /\ msg.last = msg.n}

Books(newest) ==
  [synced : BOOLEAN, seq : 0..newest, upto : 0..newest, at : 0..newest, hole : BOOLEAN]
Contents(newest) == [upto : 0..newest, at : 0..newest, hole : BOOLEAN]

Traffic ==
  /\ venue \in {"binance", "okx", "bybit"}
  /\ version \in Nat \ {0} /\ fetches \subseteq 0..version
  /\ inbox \in Seq(Messages(version)) /\ queue \in Seq(Messages(version))
  /\ book \in Books(version) /\ shown \in Contents(version)

Whole(c)    == ~c.hole /\ c.at = c.upto
InSequence(b) == b.synced => (b.seq = b.at /\ b.seq # 0)

\* The invariant: in sequence means up to date, and nothing unwhole is published.
BookSound ==
  /\ Traffic
  /\ "unstamped" \notin mishaps => (Whole(book) /\ InSequence(book) /\ Whole(shown))

-----------------------------------------------------------------------------
(* What the venues send is well formed. *)

LEMMA LongerSeq ==
    ASSUME NEW S, NEW T, S \subseteq T, NEW q \in Seq(S) PROVE q \in Seq(T)
  OBVIOUS

LEMMA UpdateFormed ==
    ASSUME Traffic PROVE StreamUpdate(version + 1) \in Messages(version + 1)
  BY DEF Traffic, StreamUpdate, BinanceUpdate, OKXUpdate, BybitUpdate, Update, Messages

LEMMA SnapshotFormed ==
    ASSUME Traffic, NEW n \in 0..version PROVE RestSnapshot(n) \in Messages(version)
  BY DEF Traffic, RestSnapshot, BinanceSnapshot, OKXSnapshot, BybitSnapshot, Snapshot, Messages

LEMMA GreetingFormed ==
    ASSUME Traffic PROVE inbox \o Greeting \in Seq(Messages(version))
  <1>1. Snapshot(version, version) \in Messages(version)
    BY DEF Traffic, Snapshot, Messages
  <1>2. Greeting \in Seq(Messages(version))
    BY <1>1 DEF Greeting
  <1>. QED BY <1>2 DEF Traffic

LEMMA SubmitKeeps ==
    ASSUME Traffic, NEW msg \in Messages(version), Submit(msg)
    PROVE  queue' \in Seq(Messages(version)) /\ ("unstamped" \in mishaps' <=> "unstamped" \in mishaps)
  <1>1. queue \in Seq(Messages(version))
    BY DEF Traffic
  <1>2. Append(queue, msg) \in Seq(Messages(version))
    BY <1>1
  <1>. QED BY <1>1, <1>2 DEF Submit

-----------------------------------------------------------------------------
(* One message, whatever it is, applied to a book that is whole. *)

LEMMA AppliedWhole ==
    ASSUME NEW newest \in Nat, NEW b \in Books(newest), NEW msg \in Messages(newest)
    PROVE  /\ Applied(b, msg) \in Books(newest)
           /\ (Whole(b) /\ InSequence(b) /\ ~(msg.snap /\ msg.last = 0))
                => (Whole(Applied(b, msg)) /\ InSequence(Applied(b, msg)))
  <1>. DEFINE c == Applied(b, msg)
  <1>. USE DEF Books, Messages, Whole, InSequence
  <1>1. CASE msg.snap
    <2>1. c = Loaded(msg)
      BY <1>1 DEF Applied
    <2>. QED BY <1>1, <2>1 DEF Loaded
  <1>2. CASE ~msg.snap /\ ~b.synced
    BY <1>2 DEF Applied
  <1>3. CASE ~msg.snap /\ b.synced /\ HasGap(b, msg)
    <2>1. c = [b EXCEPT !.synced = FALSE]
      BY <1>3 DEF Applied
    <2>. QED BY <1>3, <2>1
  <1>4. CASE ~msg.snap /\ b.synced /\ ~HasGap(b, msg) /\ Seen(b, msg)
    BY <1>4 DEF Applied
  <1>5. CASE ~msg.snap /\ b.synced /\ ~HasGap(b, msg) /\ ~Seen(b, msg)
    <2>1. c = Written(b, msg)
      BY <1>5 DEF Applied
    <2>2. c \in Books(newest)
      BY <1>5, <2>1 DEF Written
    <2>3. ASSUME Whole(b), InSequence(b) PROVE Whole(c) /\ InSequence(c)
      <3>1. msg.n = b.seq + 1
        BY <1>5, <2>3 DEF HasGap, Seen
      <3>. QED BY <1>5, <2>1, <2>3, <3>1 DEF Written
    <2>. QED BY <2>2, <2>3
  <1>. QED BY <1>1, <1>2, <1>3, <1>4, <1>5

-----------------------------------------------------------------------------
LEMMA BookInit == Init => BookSound
  BY StreamAssumption DEF Init, BookSound, Traffic, Whole, InSequence, Books, Contents, Nothing

\* A step that leaves book and shown alone and keeps the traffic formed.
Untouched ==
  /\ venue' = venue /\ book' = book /\ shown' = shown
  /\ version' \in Nat /\ version <= version' /\ fetches' \subseteq 0..version'
  /\ inbox' \in Seq(Messages(version')) /\ queue' \in Seq(Messages(version'))
  /\ "unstamped" \in mishaps => "unstamped" \in mishaps'

LEMMA UntouchedSound == BookSound /\ Untouched => BookSound'
  BY DEF BookSound, Untouched, Traffic, Whole, InSequence, Books, Contents

LEMMA FeedUntouched ==
    ASSUME BookSound,
           FeedStarts \/ FeedStops
             \/ \E s \in Symbols \cup feed.todo : SubscribeFails(s) \/ Subscribe(s) \/ Unsubscribe(s)
    PROVE  Untouched
  <1>. USE DEF BookSound, Traffic, Untouched, Bookkeeping, Fault
  <1>1. CASE FeedStarts
    BY <1>1 DEF FeedStarts
  <1>2. CASE FeedStops
    BY <1>2 DEF FeedStops
  <1>3. ASSUME NEW s \in Symbols \cup feed.todo, SubscribeFails(s) PROVE Untouched
    BY <1>3 DEF SubscribeFails
  <1>4. ASSUME NEW s \in Symbols \cup feed.todo, Subscribe(s) PROVE Untouched
    <2>1. inbox' \in Seq(Messages(version))
      BY <1>4, GreetingFormed DEF Subscribe
    <2>2. mishaps \subseteq mishaps'
      BY <1>4 DEF Subscribe
    <2>3. /\ version' = version /\ fetches' = fetches /\ queue' = queue
          /\ venue' = venue /\ book' = book /\ shown' = shown
      BY <1>4 DEF Subscribe
    <2>. QED BY <2>1, <2>2, <2>3
  <1>5. ASSUME NEW s \in Symbols \cup feed.todo, Unsubscribe(s) PROVE Untouched
    BY <1>5 DEF Unsubscribe
  <1>. QED BY <1>1, <1>2, <1>3, <1>4, <1>5

LEMMA ConnectionUntouched ==
    ASSUME BookSound,
           ConnectionSteps \/ ConnectFails \/ ReceiveGarbled \/ ExchangeUpdates
             \/ \E how \in {"silent", "down"} : LinkFails(how)
    PROVE  Untouched
  <1>. USE DEF BookSound, Traffic, Untouched, Bookkeeping, Fault
  <1>1. CASE Connect
    BY <1>1 DEF Connect
  <1>2. CASE Announce
    <2>1. inbox' \in Seq(Messages(version))
      BY <1>2, GreetingFormed DEF Announce
    <2>. QED BY <1>2, <2>1 DEF Announce
  <1>3. CASE AnnounceFails \/ AnnounceRaises \/ AnnounceEnds \/ Lose \/ ConnectFails
    <2>1. CASE AnnounceFails
      BY <2>1 DEF AnnounceFails
    <2>2. CASE AnnounceRaises \/ AnnounceEnds
      BY <2>2 DEF AnnounceRaises, AnnounceEnds
    <2>3. CASE Lose
      BY <2>3 DEF Lose
    <2>4. CASE ConnectFails
      BY <2>4 DEF ConnectFails
    <2>. QED BY <1>3, <2>1, <2>2, <2>3, <2>4
  <1>4. CASE Receive
    <2>1. Head(inbox) \in Messages(version) /\ Tail(inbox) \in Seq(Messages(version))
      BY <1>4 DEF Receive
    <2>. QED BY <1>4, <2>1, SubmitKeeps DEF Receive
  <1>5. CASE ReceiveGarbled
    BY <1>5 DEF ReceiveGarbled
  <1>6. CASE ExchangeUpdates
    <2>. DEFINE later == Messages(version + 1)
    <2>1. Messages(version) \subseteq later
      BY DEF Messages
    <2>2. inbox \in Seq(later) /\ queue \in Seq(later)
      BY <2>1, LongerSeq
    <2>. DEFINE msg == StreamUpdate(version + 1)
    <2>3. msg \in later
      BY UpdateFormed
    <2>4. inbox' \in {inbox, Append(inbox, msg)} /\ queue' = queue /\ version' = version + 1
      BY <1>6 DEF ExchangeUpdates
    <2>5. Append(inbox, msg) \in Seq(later)
      <3>. HIDE DEF later, msg
      <3>. QED BY <2>2, <2>3
    <2>6. inbox' \in Seq(later) /\ queue' \in Seq(later) /\ version' = version + 1
      BY <2>2, <2>4, <2>5
    <2>. QED BY <1>6, <2>6 DEF ExchangeUpdates
  <1>7. CASE \E how \in {"silent", "down"} : LinkFails(how)
    BY <1>7 DEF LinkFails
  <1>. QED BY <1>1, <1>2, <1>3, <1>4, <1>5, <1>6, <1>7 DEF ConnectionSteps

LEMMA FetchUntouched ==
    ASSUME BookSound,
           (\E why \in asks : Fetch(why))
             \/ \E from \in fetches : Answer(from) \/ FetchFails(from)
    PROVE  Untouched
  <1>. USE DEF BookSound, Traffic, Untouched, Bookkeeping, Fault
  <1>1. CASE \E why \in asks : Fetch(why)
    BY <1>1 DEF Fetch
  <1>2. ASSUME NEW from \in fetches, Answer(from) PROVE Untouched
    <2>1. PICK n \in from..version : Submit(RestSnapshot(n))
      BY <1>2 DEF Answer
    <2>2. n \in 0..version
      OBVIOUS
    <2>3. RestSnapshot(n) \in Messages(version)
      BY <2>2, SnapshotFormed
    <2>. QED BY <1>2, <2>1, <2>3, SubmitKeeps DEF Answer
  <1>3. ASSUME NEW from \in fetches, FetchFails(from) PROVE Untouched
    BY <1>3 DEF FetchFails
  <1>. QED BY <1>1, <1>2, <1>3

LEMMA ProcessSound ==
    ASSUME BookSound, NEW lost \in BOOLEAN, Process(lost) PROVE BookSound'
  <1>. DEFINE msg == Head(queue)
              b   == Applied(book, msg)
  <1>1. msg \in Messages(version) /\ Tail(queue) \in Seq(Messages(version))
    BY DEF BookSound, Traffic, Process
  <1>2. book' = b /\ b \in Books(version) /\ queue' = Tail(queue)
    BY <1>1, AppliedWhole DEF BookSound, Traffic, Process
  <1>3. shown' \in {shown, Content(b)}
    BY DEF Process
  <1>4. Content(b) \in Contents(version) /\ (Whole(b) => Whole(Content(b)))
    BY <1>2 DEF Content, Books, Contents, Whole
  <1>5. Traffic'
    BY <1>1, <1>2, <1>3, <1>4 DEF BookSound, Traffic, Process
  <1>6. ASSUME "unstamped" \notin mishaps' PROVE Whole(book') /\ InSequence(book') /\ Whole(shown')
    <2>1. "unstamped" \notin mishaps
      BY <1>6 DEF Process, Fault
    <2>2. ~(msg.snap /\ msg.last = 0)
      <3>1. CASE ~lost
        BY <1>6, <3>1 DEF Process
      <3>2. CASE lost
        <4>1. book.synced /\ ~b.synced
          BY <3>2 DEF Process
        <4>. QED BY <1>1, <4>1 DEF Applied, Loaded
      <3>. QED BY <3>1, <3>2
    <2>3. Whole(b) /\ InSequence(b)
      BY <1>1, <2>1, <2>2, AppliedWhole DEF BookSound, Traffic
    <2>. QED BY <1>2, <1>3, <1>4, <2>1, <2>3 DEF BookSound
  <1>. QED BY <1>5, <1>6 DEF BookSound

LEMMA BookStep == BookSound /\ [Next]_vars => BookSound'
  <1> SUFFICES ASSUME BookSound, [Next]_vars PROVE BookSound'
    OBVIOUS
  <1>1. CASE FeedSteps \/ FeedStops \/ \E s \in Symbols \ feed.todo : Subscribe(s) \/ Unsubscribe(s)
    <2>1. Untouched
      BY <1>1, FeedUntouched DEF FeedSteps
    <2>. QED BY <2>1, UntouchedSound
  <1>2. CASE ConnectionSteps \/ ConnectFails \/ ReceiveGarbled \/ ExchangeUpdates
               \/ \E how \in {"silent", "down"} : LinkFails(how)
    BY <1>2, ConnectionUntouched, UntouchedSound
  <1>3. CASE BookSteps \/ Process(TRUE) \/ \E from \in fetches : FetchFails(from)
    BY <1>3, ProcessSound, FetchUntouched, UntouchedSound DEF BookSteps
  <1>4. CASE UNCHANGED vars
    BY <1>4 DEF vars, BookSound, Traffic, Whole, InSequence, Books, Contents
  <1>. QED BY <1>1, <1>2, <1>3, <1>4 DEF Next

\* Until a snapshot without a sequence arrives the published book has no hole and no
\* level of an older version, however messages are lost, delayed or interleaved
\* (orderbook_manager.py:58-96).
THEOREM BookWhole == Spec => []BookIsWhole
  <1>1. BookSound => BookIsWhole
    BY DEF BookSound, BookIsWhole, Whole
  <1>. QED BY <1>1, BookInit, BookStep, PTL DEF Spec

-----------------------------------------------------------------------------
(* The connection.  Three records of the subscriptions have to agree, and  *)
(* each is written at a moment of its own: the feed's never runs ahead of  *)
(* the provider's, and the provider's is on the wire or still to be        *)
(* announced, as long as the link works.                                   *)

Connections ==
  [state : {"disconnected", "connected", "reconnecting", "stopped"},
   task  : {"none", "sleeping", "announcing", "listening", "dead", "ended"},
   fails : Nat, todo : Seq(Symbols), size : Nat, held : BOOLEAN]

Wired ==
  /\ venue \in Venues
  /\ feed \in [up : BOOLEAN, todo : SUBSET Configured, subs : SUBSET (Symbols \ Prepared)]
  /\ prov \in [live : BOOLEAN, subs : SUBSET Symbols]
  /\ conn \in Connections
  /\ sockets \in Nat /\ link \in {"up", "silent", "down"} /\ wire \subseteq Symbols

\* The feed forgets what it asked for only when it asks again.
Wanted ==
  "orphaned" \notin mishaps =>
    IF feed.up THEN feed.subs \ feed.todo \subseteq prov.subs ELSE feed.subs \subseteq Configured

\* What the task is doing and what it holds while it does it.
TaskRuns ==
  /\ conn.task \in {"announcing", "listening"} => (conn.held /\ Connected)
  /\ Connected => conn.task \in {"announcing", "listening", "dead"}
  /\ conn.task = "listening" => conn.todo = <<>>
  /\ conn.task = "dead" => "resized" \in mishaps
  /\ (conn.task \in {"sleeping", "ended"} /\ conn.held) => "leaked" \in mishaps
  /\ ~prov.live => (conn.task = "none" /\ ~conn.held)
  /\ ~feed.up => ~prov.live

\* A subscription is on the wire or waits to be announced.
Told ==
  (conn.task \in {"announcing", "listening"} /\ link = "up")
    => prov.subs \subseteq wire \cup Range(conn.todo)

SocketsCounted ==
  /\ conn.held => sockets > 0
  /\ "leaked" \notin mishaps => sockets = IF conn.held THEN 1 ELSE 0

Served == Wired /\ Wanted /\ TaskRuns /\ Told /\ SocketsCounted

\* What the rest of the state keeps to.
Causes == {"orphaned", "gave_up", "leaked", "resized", "dropped", "lost", "unstamped", "unfetched"}
Bounded ==
  /\ version \in 1..MaxVersion[venue]
  /\ Len(queue) <= QueueSize
  /\ asks \subseteq {"resync", "bootstrap"}
  /\ faults \in 0..MaxFaults[venue]
  /\ mishaps \subseteq Causes

\* Every element of a finite set is in the sequence made of it.
LEMMA InSomeOrder ==
    ASSUME NEW S, IsFiniteSet(S)
    PROVE  SetToSeq(S) \in Seq(S) /\ Range(SetToSeq(S)) = S
  <1>. DEFINE n == Cardinality(S)
              f == SetToSeq(S)
  <1>1. n \in Nat /\ ExistsBijection(1..n, S)
    BY FS_CardinalityType
  <1>2. f \in [1..n -> S] /\ IsInjective(f)
    BY <1>1 DEF SetToSeq, ExistsBijection, Bijection, Injection
  <1>3. IsFiniteSet(1..n) /\ Cardinality(1..n) = n
    BY <1>1, FS_Interval
  <1>4. f \in Surjection(1..n, S)
    BY <1>1, <1>2, <1>3, FS_Injection DEF Injection
  <1>5. Range(f) = S
    BY <1>2, <1>4 DEF Surjection, Range
  <1>6. f \in Seq(S)
    BY <1>1, <1>2
  <1>. QED BY <1>5, <1>6

LEMMA FreshConnection ==
    /\ [NoConnection EXCEPT !.state = "stopped"] \in Connections
    /\ [NoConnection EXCEPT !.task = "sleeping"] \in Connections
  <1>1. NoConnection \in Connections
    BY DEF NoConnection, Connections
  <1>. QED BY <1>1 DEF Connections

LEMMA HeadOrTail ==
    ASSUME NEW S, NEW q \in Seq(S), q # <<>>
    PROVE  /\ Head(q) \in S /\ Tail(q) \in Seq(S)
           /\ Range(q) \subseteq {Head(q)} \cup Range(Tail(q))
  <1>1. Head(q) \in S /\ Tail(q) \in Seq(S) /\ Len(Tail(q)) = Len(q) - 1 /\ Len(q) \in Nat \ {0}
    OBVIOUS
  <1>2. ASSUME NEW i \in 1..Len(q), i # 1 PROVE i - 1 \in 1..Len(Tail(q)) /\ Tail(q)[i - 1] = q[i]
    BY <1>1, <1>2
  <1>3. q[1] = Head(q) /\ DOMAIN q = 1..Len(q) /\ DOMAIN Tail(q) = 1..Len(Tail(q))
    BY <1>1
  <1>4. ASSUME NEW i \in 1..Len(q) PROVE q[i] \in {Head(q)} \cup Range(Tail(q))
    BY <1>2, <1>3 DEF Range
  <1>5. Range(q) \subseteq {Head(q)} \cup Range(Tail(q))
    BY <1>3, <1>4 DEF Range
  <1>. QED BY <1>1, <1>5

\* A failed attempt leaves the task to sleep or to end.
LEMMA AfterFailureIs ==
    ASSUME NEW c \in Connections
    PROVE  /\ AfterFailure(c) \in Connections
           /\ AfterFailure(c).state # "connected" /\ AfterFailure(c).task \in {"sleeping", "ended"}
           /\ AfterFailure(c).held = c.held
  <1>1. PICK state \in {"disconnected", "reconnecting"}, task \in {"sleeping", "ended"} :
          AfterFailure(c) = [c EXCEPT !.state = state, !.task = task, !.fails = @ + 1, !.todo = <<>>,
                                      !.size = 0]
    BY DEF AfterFailure
  <1>2. AfterFailure(c) = [state |-> state, task |-> task, fails |-> c.fails + 1, todo |-> <<>>,
                           size |-> 0, held |-> c.held]
    BY <1>1 DEF Connections
  <1>3. <<>> \in Seq(Symbols) /\ c.fails + 1 \in Nat /\ c.held \in BOOLEAN
    BY DEF Connections
  <1>. QED BY <1>2, <1>3 DEF Connections

LEMMA ServedInit == Init => Served
  BY StreamAssumption DEF Init, Served, Wired, Wanted, TaskRuns, Told, SocketsCounted, Connections,
     NoConnection, Connected

LEMMA FeedServed ==
    ASSUME Served,
           FeedStarts \/ FeedStops
             \/ \E s \in Symbols \cup feed.todo : SubscribeFails(s) \/ Subscribe(s) \/ Unsubscribe(s)
    PROVE  Served'
  <1>. USE StreamAssumption DEF Served, Bookkeeping, Fault
  <1>1. CASE FeedStarts
    BY <1>1 DEF FeedStarts, Wired, Wanted, TaskRuns, Told, SocketsCounted, Connected
  <1>2. CASE FeedStops
    <2>0. conn' \in Connections /\ sockets' \in Nat
      <3>1. conn' = [NoConnection EXCEPT !.state = "stopped"]
        BY <1>2 DEF FeedStops
      <3>2. sockets' \in Nat
        BY <1>2 DEF FeedStops, Wired, SocketsCounted
      <3>. QED BY <3>1, <3>2, FreshConnection
    <2>1. Wired'
      BY <1>2, <2>0 DEF FeedStops, Wired
    <2>2. Wanted'
      BY <1>2 DEF FeedStops, Wanted, Wired
    <2>3. TaskRuns' /\ Told'
      BY <1>2 DEF FeedStops, TaskRuns, Told, NoConnection, Connected, Wired
    <2>4. SocketsCounted'
      BY <1>2 DEF FeedStops, SocketsCounted, NoConnection, Wired
    <2>. QED BY <2>1, <2>2, <2>3, <2>4
  <1>3. ASSUME NEW s \in Symbols \cup feed.todo, SubscribeFails(s) PROVE Served'
    BY <1>3 DEF SubscribeFails, Wired, Wanted, TaskRuns, Told, SocketsCounted, Connected
  <1>4. ASSUME NEW s \in Symbols \cup feed.todo, Subscribe(s) PROVE Served'
    <2>. DEFINE raised == Connected /\ ~Sends
    <2>0. s \in Symbols \ Prepared
      BY <1>4 DEF Subscribe, Wired
    <2>1. /\ feed.up /\ mishaps' = mishaps
          /\ prov' = [live |-> TRUE, subs |-> prov.subs \cup {s}]
          /\ feed' = [feed EXCEPT !.todo = @ \ {s}, !.subs = IF raised THEN @ ELSE @ \cup {s}]
          /\ venue' = venue /\ sockets' = sockets /\ link' = link
      BY <1>4 DEF Subscribe
    <2>2. wire' = IF Heard THEN wire \cup {s} ELSE wire
      BY <1>4 DEF Subscribe
    <2>3. conn' = IF prov.live THEN conn ELSE [NoConnection EXCEPT !.task = "sleeping"]
      BY <1>4 DEF Subscribe
    <2>4. Wired'
      <3>1. conn' \in Connections
        BY <2>3, FreshConnection DEF Wired
      <3>2. wire' \subseteq Symbols
        BY <2>0, <2>2 DEF Wired
      <3>. QED BY <2>0, <2>1, <3>1, <3>2 DEF Wired
    <2>5. Wanted'
      BY <2>1 DEF Wanted, Wired
    <2>6. CASE prov.live
      <3>1. TaskRuns' /\ SocketsCounted'
        BY <2>1, <2>3, <2>6 DEF TaskRuns, SocketsCounted, Connected, Wired
      <3>2. Told'
        BY <2>1, <2>2, <2>3, <2>6 DEF Told, TaskRuns, Heard, Sends
      <3>. QED BY <2>4, <2>5, <3>1, <3>2
    <2>7. CASE ~prov.live
      <3>1. conn' = [NoConnection EXCEPT !.task = "sleeping"] /\ ~conn.held
        BY <2>3, <2>7 DEF TaskRuns
      <3>2. TaskRuns' /\ SocketsCounted' /\ Told'
        BY <2>1, <3>1 DEF TaskRuns, SocketsCounted, Told, Connected, NoConnection, Wired
      <3>. QED BY <2>4, <2>5, <3>2
    <2>. QED BY <2>6, <2>7
  <1>5. ASSUME NEW s \in Symbols \cup feed.todo, Unsubscribe(s) PROVE Served'
    <2>1. /\ feed' = [feed EXCEPT !.subs = @ \ {s}] /\ prov' = [prov EXCEPT !.subs = @ \ {s}]
          /\ mishaps' = mishaps /\ wire' \in {wire, wire \ {s}}
          /\ UNCHANGED <<venue, conn, sockets, link>>
      BY <1>5 DEF Unsubscribe
    <2>2. Wired'
      BY <2>1 DEF Wired
    <2>3. Wanted' /\ TaskRuns' /\ Told' /\ SocketsCounted'
      BY <2>1 DEF Wired, Wanted, TaskRuns, Told, SocketsCounted, Connected
    <2>. QED BY <2>2, <2>3
  <1>. QED BY <1>1, <1>2, <1>3, <1>4, <1>5

LEMMA ConnectionServed ==
    ASSUME Served,
           Connect \/ ConnectFails \/ Announce \/ AnnounceFails \/ AnnounceRaises \/ AnnounceEnds \/ Lose
    PROVE  Served'
  <1>. USE StreamAssumption DEF Served, Bookkeeping, Fault
  <1>1. CASE Connect
    <2>. DEFINE order == SetToSeq(prov.subs)
    <2>1. order \in Seq(Symbols) /\ Range(order) = prov.subs /\ Cardinality(prov.subs) \in Nat
      <3>1. IsFiniteSet(prov.subs) /\ prov.subs \subseteq Symbols
        BY FS_Subset DEF Wired
      <3>. QED BY <3>1, InSomeOrder, LongerSeq, FS_CardinalityType
    <2>2. /\ conn' = [conn EXCEPT !.state = "connected", !.task = "announcing", !.held = TRUE,
                                  !.todo = order, !.size = Cardinality(prov.subs)]
          /\ conn.task = "sleeping" /\ sockets' = sockets + 1 /\ wire' = {} /\ link' = "up"
          /\ UNCHANGED <<venue, feed, prov, mishaps>>
      BY <1>1 DEF Connect, Announced
    <2>. HIDE DEF order
    <2>3. Wired'
      <3>1. conn' = [state |-> "connected", task |-> "announcing", fails |-> conn.fails,
                     todo |-> order, size |-> Cardinality(prov.subs), held |-> TRUE]
        BY <2>2 DEF Wired, Connections
      <3>2. conn' \in Connections
        BY <2>1, <3>1 DEF Wired, Connections
      <3>. QED BY <2>2, <3>2 DEF Wired
    <2>4. Wanted' /\ Told'
      BY <2>1, <2>2 DEF Wanted, Told, Wired, Connections
    <2>5. TaskRuns' /\ SocketsCounted'
      BY <2>2 DEF TaskRuns, SocketsCounted, Wired, Connections, Connected
    <2>. QED BY <2>3, <2>4, <2>5
  <1>2. CASE ConnectFails
    <2>1. /\ conn' = AfterFailure(conn) /\ conn.task = "sleeping" /\ mishaps \subseteq mishaps'
          /\ ("orphaned" \in mishaps' => "orphaned" \in mishaps)
          /\ ("leaked" \in mishaps' => "leaked" \in mishaps)
          /\ UNCHANGED <<venue, feed, prov, sockets, link, wire>>
      BY <1>2 DEF ConnectFails, GaveUp
    <2>2. Wired' /\ Wanted' /\ Told'
      BY <2>1, AfterFailureIs DEF Wired, Wanted, Told
    <2>3. TaskRuns' /\ SocketsCounted'
      BY <2>1, AfterFailureIs DEF Wired, TaskRuns, SocketsCounted, Connected
    <2>. QED BY <2>2, <2>3
  <1>3. CASE Announce
    <2>1. /\ conn.task = "announcing" /\ conn.todo # <<>>
          /\ conn' = [conn EXCEPT !.todo = Tail(@)]
          /\ wire' = IF Heard THEN wire \cup {Head(conn.todo)} ELSE wire
          /\ UNCHANGED <<venue, feed, prov, sockets, link, mishaps>>
      BY <1>3 DEF Announce
    <2>2. /\ conn.todo \in Seq(Symbols) /\ Tail(conn.todo) \in Seq(Symbols) /\ Head(conn.todo) \in Symbols
          /\ Range(conn.todo) \subseteq {Head(conn.todo)} \cup Range(Tail(conn.todo))
      BY <2>1, HeadOrTail DEF Wired, Connections
    <2>3. Wired'
      BY <2>1, <2>2 DEF Wired, Connections
    <2>4. Wanted' /\ TaskRuns' /\ SocketsCounted'
      BY <2>1 DEF Wired, Connections, Wanted, TaskRuns, SocketsCounted, Connected
    <2>5. conn'.todo = Tail(conn.todo) /\ conn'.task = conn.task
      BY <2>1 DEF Wired, Connections
    <2>6. Told'
      BY <2>1, <2>2, <2>5 DEF Told, TaskRuns, Heard, Sends
    <2>. QED BY <2>3, <2>4, <2>6
  <1>4. CASE AnnounceFails
    <2>1. /\ conn' = AfterFailure(conn) /\ wire' = {} /\ "leaked" \in mishaps'
          /\ mishaps \subseteq mishaps' /\ ("orphaned" \in mishaps' => "orphaned" \in mishaps)
          /\ conn.task = "announcing"
          /\ UNCHANGED <<venue, feed, prov, sockets, link>>
      BY <1>4 DEF AnnounceFails, GaveUp
    <2>2. Wired' /\ Wanted' /\ Told'
      BY <2>1, AfterFailureIs DEF Wired, Wanted, Told
    <2>3. TaskRuns' /\ SocketsCounted'
      BY <2>1, AfterFailureIs DEF Wired, TaskRuns, SocketsCounted, Connected
    <2>. QED BY <2>2, <2>3
  <1>5. CASE AnnounceRaises
    <2>1. /\ conn' = [conn EXCEPT !.task = "dead"] /\ conn.task = "announcing"
          /\ mishaps' = mishaps \cup {"resized"}
          /\ UNCHANGED <<venue, feed, prov, sockets, link, wire>>
      BY <1>5 DEF AnnounceRaises
    <2>2. Wired' /\ Wanted' /\ Told'
      BY <2>1 DEF Wired, Connections, Wanted, Told
    <2>3. TaskRuns' /\ SocketsCounted'
      BY <2>1 DEF Wired, Connections, TaskRuns, SocketsCounted, Connected
    <2>. QED BY <2>2, <2>3
  <1>6. CASE AnnounceEnds
    <2>1. /\ conn' = [conn EXCEPT !.task = "listening", !.fails = 0, !.size = 0]
          /\ conn.task = "announcing" /\ conn.todo = <<>>
          /\ UNCHANGED <<venue, feed, prov, sockets, link, wire, mishaps>>
      BY <1>6 DEF AnnounceEnds
    <2>2. Wired' /\ Wanted' /\ Told'
      BY <2>1 DEF Wired, Connections, Wanted, Told
    <2>3. TaskRuns' /\ SocketsCounted'
      BY <2>1 DEF Wired, Connections, TaskRuns, SocketsCounted, Connected
    <2>. QED BY <2>2, <2>3
  <1>7. CASE Lose
    <2>1. /\ conn' = [AfterFailure(conn) EXCEPT !.held = FALSE] /\ conn.task = "listening"
          /\ mishaps \subseteq mishaps'
          /\ ("orphaned" \in mishaps' => "orphaned" \in mishaps)
          /\ ("leaked" \in mishaps' => "leaked" \in mishaps)
          /\ sockets' = sockets - 1 /\ wire' = {}
          /\ UNCHANGED <<venue, feed, prov, link>>
      BY <1>7 DEF Lose, GaveUp, Closed
    <2>. DEFINE c == AfterFailure(conn)
    <2>2. c \in Connections /\ c.state # "connected" /\ c.task \in {"sleeping", "ended"}
      BY AfterFailureIs DEF Wired
    <2>. HIDE DEF c
    <2>3. /\ conn' \in Connections /\ ~conn'.held /\ conn'.state # "connected"
          /\ conn'.task \in {"sleeping", "ended"}
      <3>1. conn' = [state |-> c.state, task |-> c.task, fails |-> c.fails, todo |-> c.todo,
                     size |-> c.size, held |-> FALSE]
        BY <2>1, <2>2 DEF c, Connections
      <3>. QED BY <2>2, <3>1 DEF Connections
    <2>4. conn.held /\ sockets > 0 /\ prov.live
      BY <2>1 DEF TaskRuns, SocketsCounted
    <2>5. Wired' /\ Wanted' /\ Told'
      BY <2>1, <2>3, <2>4 DEF Wired, Wanted, Told
    <2>6. TaskRuns' /\ SocketsCounted'
      BY <2>1, <2>3, <2>4 DEF Wired, TaskRuns, SocketsCounted, Connected
    <2>. QED BY <2>5, <2>6
  <1>. QED BY <1>1, <1>2, <1>3, <1>4, <1>5, <1>6, <1>7

\* Everything else leaves the connection alone, but for a link that fails.
LEMMA RestServed ==
    ASSUME Served,
           \/ Receive \/ ReceiveGarbled \/ ExchangeUpdates \/ \E lost \in BOOLEAN : Process(lost)
           \/ \E how \in {"silent", "down"} : LinkFails(how)
           \/ \E why \in asks : Fetch(why)
           \/ \E from \in fetches : Answer(from) \/ FetchFails(from)
           \/ UNCHANGED vars
    PROVE  Served'
  <1>1. /\ link' = link \/ link' \in {"silent", "down"}
        /\ UNCHANGED <<venue, feed, prov, conn, sockets, wire>>
        /\ "orphaned" \in mishaps' <=> "orphaned" \in mishaps
        /\ "leaked" \in mishaps' <=> "leaked" \in mishaps
        /\ "resized" \in mishaps' <=> "resized" \in mishaps
    <2>. USE DEF Bookkeeping, Fault, Submit
    <2>1. CASE Receive \/ ReceiveGarbled \/ ExchangeUpdates
      BY <2>1 DEF Receive, ReceiveGarbled, ExchangeUpdates
    <2>2. ASSUME NEW lost \in BOOLEAN, Process(lost) PROVE <1>1
      BY <2>2 DEF Process
    <2>3. CASE (\E how \in {"silent", "down"} : LinkFails(how)) \/ \E why \in asks : Fetch(why)
      BY <2>3 DEF LinkFails, Fetch
    <2>4. CASE \E from \in fetches : Answer(from) \/ FetchFails(from)
      BY <2>4 DEF Answer, FetchFails
    <2>5. CASE UNCHANGED vars
      BY <2>5 DEF vars
    <2>. QED BY <2>1, <2>2, <2>3, <2>4, <2>5
  <1>. QED BY <1>1 DEF Served, Wired, Wanted, TaskRuns, Told, SocketsCounted, Connected

LEMMA ServedStep == Served /\ [Next]_vars => Served'
  <1> SUFFICES ASSUME Served, [Next]_vars PROVE Served'
    OBVIOUS
  <1>1. CASE FeedSteps \/ FeedStops \/ \E s \in Symbols \ feed.todo : Subscribe(s) \/ Unsubscribe(s)
    BY <1>1, FeedServed DEF FeedSteps
  <1>2. CASE ConnectionSteps \/ ConnectFails
    BY <1>2, ConnectionServed, RestServed DEF ConnectionSteps
  <1>3. CASE ReceiveGarbled \/ ExchangeUpdates \/ \E how \in {"silent", "down"} : LinkFails(how)
    BY <1>3, RestServed
  <1>4. CASE BookSteps \/ Process(TRUE) \/ \E from \in fetches : FetchFails(from)
    BY <1>4, RestServed DEF BookSteps
  <1>5. CASE UNCHANGED vars
    BY <1>5, RestServed
  <1>. QED BY <1>1, <1>2, <1>3, <1>4, <1>5 DEF Next

-----------------------------------------------------------------------------
(* The limits of the queue and of the model, and the history. *)

LEMMA BoundedInit == Init => Bounded
  BY StreamAssumption DEF Init, Bounded

\* A full queue drops what arrives, so it never grows past its size.
LEMMA SubmitBounded ==
    ASSUME Bounded, NEW S, NEW msg \in S, queue \in Seq(S), Submit(msg)
    PROVE  Len(queue') <= QueueSize /\ mishaps' \subseteq Causes
  <1>1. CASE Len(queue) < QueueSize
    <2>1. Len(Append(queue, msg)) = Len(queue) + 1 /\ Len(queue) \in Nat
      OBVIOUS
    <2>. QED BY <1>1, <2>1, StreamAssumption DEF Bounded, Submit
  <1>2. CASE ~(Len(queue) < QueueSize)
    BY <1>2 DEF Bounded, Submit, Causes
  <1>. QED BY <1>1, <1>2

LEMMA BoundedStep == Bounded /\ BookSound /\ Served /\ [Next]_vars => Bounded'
  <1> SUFFICES ASSUME Bounded, BookSound, Served, [Next]_vars PROVE Bounded'
    OBVIOUS
  <1>. USE DEF Bookkeeping, Fault
  <1>0. /\ MaxVersion[venue] \in Nat /\ MaxFaults[venue] \in Nat /\ faults \in 0..MaxFaults[venue]
        /\ queue \in Seq(Messages(version)) /\ mishaps \subseteq Causes
        /\ inbox \in Seq(Messages(version))
    BY StreamAssumption DEF Served, Wired, Bounded, BookSound, Traffic
  <1>1. CASE FeedSteps \/ FeedStops \/ \E s \in Symbols \ feed.todo : Subscribe(s) \/ Unsubscribe(s)
    <2>1. /\ UNCHANGED <<venue, version, queue>>
          /\ asks' \subseteq asks \cup {"bootstrap"}
          /\ faults' = faults \/ (faults < MaxFaults[venue] /\ faults' = faults + 1)
          /\ mishaps' \subseteq mishaps \cup {"orphaned"}
      <3>1. CASE FeedStarts \/ FeedStops
        BY <3>1 DEF FeedStarts, FeedStops
      <3>2. ASSUME NEW s, SubscribeFails(s) \/ Subscribe(s) \/ Unsubscribe(s) PROVE <2>1
        BY <3>2 DEF SubscribeFails, Subscribe, Unsubscribe
      <3>. QED BY <1>1, <3>1, <3>2 DEF FeedSteps
    <2>. QED BY <1>0, <2>1 DEF Bounded, Causes
  <1>2. CASE Connect \/ Announce \/ AnnounceFails \/ AnnounceRaises \/ AnnounceEnds \/ Lose
               \/ ConnectFails \/ \E how \in {"silent", "down"} : LinkFails(how)
    <2>1. /\ UNCHANGED <<venue, version, queue, asks>>
          /\ faults' = faults \/ (faults < MaxFaults[venue] /\ faults' = faults + 1)
          /\ mishaps' \subseteq mishaps \cup {"gave_up", "leaked", "resized"}
      <3>1. CASE Connect \/ Announce \/ AnnounceEnds \/ AnnounceRaises
        BY <3>1 DEF Connect, Announce, AnnounceEnds, AnnounceRaises
      <3>2. CASE AnnounceFails \/ Lose \/ ConnectFails
        BY <3>2 DEF AnnounceFails, Lose, ConnectFails, GaveUp
      <3>3. CASE \E how \in {"silent", "down"} : LinkFails(how)
        BY <3>3 DEF LinkFails
      <3>. QED BY <1>2, <3>1, <3>2, <3>3
    <2>. QED BY <1>0, <2>1 DEF Bounded, Causes
  <1>3. CASE Receive
    <2>1. Head(inbox) \in Messages(version)
      BY <1>0, <1>3 DEF Receive
    <2>. QED BY <1>0, <1>3, <2>1, SubmitBounded DEF Receive, Bounded
  <1>4. CASE ReceiveGarbled \/ ExchangeUpdates
    <2>1. CASE ReceiveGarbled
      BY <1>0, <2>1 DEF ReceiveGarbled, Bounded
    <2>2. CASE ExchangeUpdates
      BY <1>0, <2>2 DEF ExchangeUpdates, Bounded
    <2>. QED BY <1>4, <2>1, <2>2
  <1>5. ASSUME NEW lost \in BOOLEAN, Process(lost) PROVE Bounded'
    <2>1. Len(queue') = Len(queue) - 1
      BY <1>0, <1>5 DEF Process
    <2>2. /\ UNCHANGED <<venue, version>> /\ asks' \subseteq asks \cup {"resync"}
          /\ faults' = faults \/ (faults < MaxFaults[venue] /\ faults' = faults + 1)
          /\ mishaps' \subseteq mishaps \cup {"lost", "unstamped"}
      BY <1>5 DEF Process
    <2>. QED BY <1>0, <2>1, <2>2, StreamAssumption DEF Bounded, Causes
  <1>6. CASE \E why \in asks : Fetch(why)
    BY <1>6 DEF Fetch, Bounded
  <1>7. ASSUME NEW from \in fetches, Answer(from) PROVE Bounded'
    <2>1. PICK n \in from..version : Submit(RestSnapshot(n))
      BY <1>7 DEF Answer
    <2>2. RestSnapshot(n) \in Messages(version)
      <3>1. n \in 0..version
        BY DEF BookSound, Traffic
      <3>. QED BY <3>1, SnapshotFormed DEF BookSound
    <2>. QED BY <1>0, <1>7, <2>1, <2>2, SubmitBounded DEF Answer, Bounded
  <1>8. CASE \E from \in fetches : FetchFails(from)
    BY <1>0, <1>8 DEF FetchFails, Bounded, Causes
  <1>9. CASE UNCHANGED vars
    BY <1>9 DEF vars, Bounded
  <1>. QED
    BY <1>1, <1>2, <1>3, <1>4, <1>5, <1>6, <1>7, <1>8, <1>9 DEF Next, ConnectionSteps, BookSteps

\* The invariants together are the property of the run.
LEMMA ServedIsShown == BookSound /\ Served /\ Bounded => ServedAsShown
  <1> SUFFICES ASSUME BookSound, Served, Bounded PROVE ServedAsShown
    OBVIOUS
  <1>1. TypeOK
    <2>1. version \in Nat /\ version <= MaxVersion[venue] /\ MaxVersion[venue] \in Nat
      BY StreamAssumption DEF Served, Wired, Bounded
    <2>2. /\ book.synced \in BOOLEAN /\ book.seq \in 0..MaxVersion[venue]
          /\ {shown.upto, shown.at} \subseteq 0..MaxVersion[venue] /\ fetches \subseteq 0..MaxVersion[venue]
      BY <2>1 DEF BookSound, Traffic, Books, Contents
    <2>3. Range(conn.todo) \subseteq Symbols
      BY DEF Served, Wired, Connections, Range
    <2>4. feed.subs \subseteq Symbols /\ feed.todo \subseteq Configured
      BY DEF Served, Wired
    <2>5. /\ conn.state \in {"disconnected", "connected", "reconnecting", "stopped"}
          /\ conn.task \in {"none", "sleeping", "announcing", "listening", "dead", "ended"}
          /\ conn.fails \in Nat /\ conn.size \in Nat
      BY DEF Served, Wired, Connections
    <2>. QED BY <2>1, <2>2, <2>3, <2>4, <2>5 DEF TypeOK, Served, Wired, Bounded, Causes
  <1>2. SubscribedIsServed
    <2> SUFFICES ASSUME conn.task = "listening", link = "up", "orphaned" \notin mishaps
                 PROVE  feed.subs \ feed.todo \subseteq wire
      BY DEF SubscribedIsServed
    <2>1. feed.up /\ conn.todo = <<>>
      BY DEF Served, TaskRuns
    <2>2. Range(<<>>) = {}
      BY DEF Range
    <2>3. prov.subs \subseteq wire
      BY <2>1, <2>2 DEF Served, Told
    <2>. QED BY <2>1, <2>3 DEF Served, Wanted
  <1>3. ConnectedListens /\ OneSocket
    BY DEF ConnectedListens, OneSocket, Served, TaskRuns, SocketsCounted
  <1>. QED BY <1>1, <1>2, <1>3 DEF ServedAsShown

\* Across drops, restarts, refused connections and announcements that fail half way,
\* the provider is one socket that listens and is sent what the feed asked for
\* (base.py:186-198, connection.py:170-299, feed.py:108-145).
THEOREM StreamServes == Spec => []ServedAsShown
  <1>1. Init => BookSound /\ Served /\ Bounded
    BY BookInit, ServedInit, BoundedInit
  <1>2. (BookSound /\ Served /\ Bounded) /\ [Next]_vars => (BookSound /\ Served /\ Bounded)'
    BY BookStep, ServedStep, BoundedStep
  <1>. QED BY <1>1, <1>2, ServedIsShown, PTL DEF Spec

-----------------------------------------------------------------------------
(* From a signal to a decision.                                              *)

Issue   == [strategy : Strategies, symbol : Instruments, direction : Directions, dies : Int]
Ruling  == [symbol : Instruments, at : Int, accepted : BOOLEAN, direction : Directions,
            weighs : SUBSET Nat]
Inquiry == [inst : Nat, via : {"event", "timer"}, symbol : Instruments,
            todo : SUBSET Instruments, at : {"spawned", "thinking", "judging"},
            weighs : SUBSET Nat, since : Int]

WiringShapes ==
  /\ running \in BOOLEAN
  /\ instances \in Seq(Strategies) /\ Len(instances) =< MaxInstances
  /\ base \in 0 .. Len(instances)
  /\ loaded \subseteq 1 .. Len(instances) /\ timers \subseteq loaded

RunShapes ==
  /\ IsFiniteSet(runs) /\ Cardinality(runs) =< MaxRuns
  /\ \A r \in runs : /\ r \in Inquiry /\ r.inst \in 1 .. Len(instances)
                     /\ r.weighs \subseteq 1 .. Len(signals)

LedgerShapes ==
  /\ now \in 0 .. MaxTime
  /\ signals \in Seq(Issue) /\ active \subseteq 1 .. Len(signals)
  /\ history \in Seq(Seq(Statuses)) /\ Len(history) = Len(signals)
  /\ decisions \in Seq(Ruling)
  /\ \A k \in 1 .. Len(decisions) : decisions[k].weighs \subseteq 1 .. Len(signals)
  /\ quoted \subseteq Instruments /\ lapses \subseteq {"suspended", "cancelled"}

(* A decision that is never suspended consumes what asked for it before      *)
(* anything else runs: nothing is ever seen alive.                           *)
Prompt ==
  "suspended" \notin lapses => active = {} /\ \A r \in runs : r.at # "judging"

FlowShapes == WiringShapes /\ RunShapes /\ LedgerShapes
FlowInv ==
  /\ FlowShapes /\ Prompt
  /\ SignalsAccounted /\ DecidedOnce /\ OneVoice /\ CorrelatedApart /\ JobsMatchStrategies

LEMMA FlowConstants ==
  /\ MaxInstances \in Nat /\ MaxRuns \in Nat /\ MaxTime \in Nat /\ MaxSignals \in Nat /\ TTL \in Nat
  /\ Instruments # {} /\ SymbolsOf \in [Strategies -> SUBSET Instruments]
  /\ Discoverable \in Seq(Strategies) /\ Desk.window \in Int /\ Desk.recent \in Nat
  BY FlowAssumption

LEMMA ShapesAreTypes == FlowShapes => FlowTypes
  <1> SUFFICES ASSUME FlowShapes PROVE FlowTypes
    OBVIOUS
  <1>0. WiringShapes /\ RunShapes /\ LedgerShapes
    BY DEF FlowShapes
  <1>1. DOMAIN instances = 1 .. Len(instances) /\ Ids = 1 .. Len(signals) /\ DOMAIN history = Ids
    BY <1>0 DEF WiringShapes, LedgerShapes, Ids
  <1>2. \A i \in Ids : ToSet(history[i]) \subseteq Statuses
    <2> SUFFICES ASSUME NEW i \in Ids PROVE ToSet(history[i]) \subseteq Statuses
      OBVIOUS
    <2>1. history[i] \in Seq(Statuses)
      BY <1>0, <1>1 DEF LedgerShapes
    <2>. QED BY <2>1 DEF ToSet
  <1>3. \A d \in ToSet(decisions) : d.weighs \subseteq Ids
    <2>1. \A k \in 1 .. Len(decisions) : decisions[k].weighs \subseteq Ids
      BY <1>0, <1>1 DEF LedgerShapes
    <2>2. decisions \in Seq(Ruling)
      BY <1>0 DEF LedgerShapes
    <2>. QED BY <2>1, <2>2 DEF ToSet
  <1>. QED BY <1>0, <1>1, <1>2, <1>3 DEF FlowTypes, WiringShapes, RunShapes, LedgerShapes

LEMMA FlowBegins == FlowInit => FlowInv
  <1> SUFFICES ASSUME FlowInit PROVE FlowInv
    OBVIOUS
  <1> USE DEF FlowInit
  <1>1. WiringShapes
    <2>1. instances \in Seq(Strategies) /\ Len(instances) = 0
      OBVIOUS
    <2>2. running \in BOOLEAN /\ base = 0 /\ loaded = {} /\ timers = {}
      OBVIOUS
    <2>3. Len(instances) =< MaxInstances
      BY <2>1, FlowConstants
    <2> HIDE DEF FlowInit
    <2>. QED BY <2>1, <2>2, <2>3 DEF WiringShapes
  <1>2. RunShapes
    BY FS_EmptySet, FlowConstants DEF RunShapes
  <1>3. LedgerShapes
    BY FlowConstants DEF LedgerShapes
  <1>4. Prompt /\ SignalsAccounted /\ DecidedOnce /\ OneVoice /\ CorrelatedApart
    BY DEF Prompt, SignalsAccounted, Ids, DecidedOnce, OneVoice, CorrelatedApart
  <1>5. JobsMatchStrategies
    BY DEF JobsMatchStrategies
  <1>. QED BY <1>1, <1>2, <1>3, <1>4, <1>5 DEF FlowInv, FlowShapes

-----------------------------------------------------------------------------
(* Runs.                                                                     *)

LEMMA RunMade ==
  ASSUME NEW i \in Nat, NEW via \in {"event", "timer"}, NEW todo \in SUBSET Instruments, todo # {}
  PROVE  Run(i, via, todo) \in Inquiry /\ Run(i, via, todo).inst = i
         /\ Run(i, via, todo).weighs = {} /\ Run(i, via, todo).at = "spawned"
  <1>1. PICK s \in todo : s = CHOOSE x \in todo : TRUE
    OBVIOUS
  <1>2. Run(i, via, todo) = [inst |-> i, via |-> via, symbol |-> s, todo |-> todo \ {s},
                             at |-> "spawned", weighs |-> {}, since |-> 0]
    BY <1>1 DEF Run
  <1>. QED BY <1>1, <1>2 DEF Inquiry

(* What is left of an evaluation: nothing, or one that begins again.         *)
LEMMA RestIsOne ==
  ASSUME NEW r \in Inquiry
  PROVE  Rest(r) = {} \/ \E e \in Inquiry : /\ Rest(r) = {e} /\ e.inst = r.inst
                                            /\ e.weighs = {} /\ e.at = "spawned"
  <1>1. r.inst \in Nat /\ r.via \in {"event", "timer"} /\ r.todo \in SUBSET Instruments
    BY DEF Inquiry
  <1>2. CASE r.todo = {}
    BY <1>2 DEF Rest
  <1>3. CASE r.todo # {}
    <2>1. Rest(r) = {Run(r.inst, r.via, r.todo)}
      BY <1>3 DEF Rest
    <2>. QED BY <1>1, <1>3, <2>1, RunMade
  <1>. QED BY <1>2, <1>3

(* One evaluation gives way to at most one.                                  *)
LEMMA OneForOne ==
  ASSUME RunShapes, NEW r \in runs, NEW more,
         more = {} \/ \E e \in Inquiry : more = {e} /\ e.inst \in 1 .. Len(instances')
                                         /\ e.weighs \subseteq 1 .. Len(signals'),
         runs' = (runs \ {r}) \union more,
         Len(instances) \in Nat, Len(signals) \in Nat, Len(instances') \in Nat, Len(signals') \in Nat,
         Len(instances) =< Len(instances'), Len(signals) =< Len(signals')
  PROVE  RunShapes'
  <1>0. IsFiniteSet(runs) /\ Cardinality(runs) =< MaxRuns /\ MaxRuns \in Nat /\ Cardinality(runs) \in Nat
    BY FS_CardinalityType, FlowAssumption DEF RunShapes
  <1>1. IsFiniteSet(runs \ {r}) /\ Cardinality(runs \ {r}) = Cardinality(runs) - 1
    BY <1>0, FS_RemoveElement
  <1>2. \A q \in runs : /\ q \in Inquiry /\ q.inst \in 1 .. Len(instances')
                        /\ q.weighs \subseteq 1 .. Len(signals')
    BY DEF RunShapes
  <1>3. CASE more = {}
    <2>1. runs' = runs \ {r}
      BY <1>3
    <2>2. IsFiniteSet(runs') /\ Cardinality(runs') = Cardinality(runs) - 1
      BY <1>1, <2>1
    <2>3. Cardinality(runs') =< MaxRuns
      BY <1>0, <2>2
    <2>. QED BY <1>2, <2>1, <2>2, <2>3 DEF RunShapes
  <1>4. CASE more # {}
    <2>1. PICK e \in Inquiry : /\ more = {e} /\ e.inst \in 1 .. Len(instances')
                               /\ e.weighs \subseteq 1 .. Len(signals')
      BY <1>4
    <2>2. runs' = (runs \ {r}) \union {e}
      BY <2>1
    <2>3. IsFiniteSet(runs') /\ Cardinality(runs') =< MaxRuns
      <3>1. /\ IsFiniteSet((runs \ {r}) \union {e})
            /\ Cardinality((runs \ {r}) \union {e}) \in {Cardinality(runs \ {r}), Cardinality(runs \ {r}) + 1}
        BY <1>1, FS_AddElement
      <3>2. Cardinality(runs') \in {Cardinality(runs) - 1, Cardinality(runs) - 1 + 1}
        BY <1>1, <2>2, <3>1
      <3>3. IsFiniteSet(runs')
        BY <2>2, <3>1
      <3>4. Cardinality(runs') =< MaxRuns
        BY <1>0, <3>2
      <3>. QED BY <3>3, <3>4
    <2>. QED BY <1>2, <2>1, <2>2, <2>3 DEF RunShapes
  <1>. QED BY <1>3, <1>4

-----------------------------------------------------------------------------
(* Steps that leave signals and decisions alone.                             *)

LEMMA LedgerStays ==
  ASSUME FlowInv, UNCHANGED <<ledger, quoted>>, now' \in 0 .. MaxTime,
         lapses' \in {lapses, lapses \union {"cancelled"}}
  PROVE  /\ LedgerShapes'
         /\ SignalsAccounted' /\ DecidedOnce' /\ OneVoice' /\ CorrelatedApart'
  <1>1. UNCHANGED <<signals, active, history, decisions, quoted>>
    BY DEF ledger
  <1>2. "suspended" \in lapses' <=> "suspended" \in lapses
    OBVIOUS
  <1>3. LedgerShapes /\ SignalsAccounted /\ DecidedOnce /\ OneVoice /\ CorrelatedApart
    BY DEF FlowInv, FlowShapes
  <1>4. LedgerShapes'
    BY <1>1, <1>3 DEF LedgerShapes
  <1>5. SignalsAccounted'
    BY <1>1, <1>3 DEF SignalsAccounted, Ids
  <1>6. DecidedOnce'
    BY <1>1, <1>2, <1>3 DEF DecidedOnce
  <1>7. OneVoice'
    BY <1>1, <1>2, <1>3 DEF OneVoice
  <1>8. CorrelatedApart'
    BY <1>1, <1>2, <1>3 DEF CorrelatedApart
  <1>. QED BY <1>4, <1>5, <1>6, <1>7, <1>8

LEMMA WiringStays ==
  ASSUME FlowInv, UNCHANGED wiring
  PROVE  WiringShapes' /\ JobsMatchStrategies'
  <1>1. UNCHANGED <<running, instances, base, loaded, timers>>
    BY DEF wiring
  <1>2. WiringShapes /\ JobsMatchStrategies
    BY DEF FlowInv, FlowShapes
  <1>. QED BY <1>1, <1>2 DEF WiringShapes, JobsMatchStrategies, Timed, Name

-----------------------------------------------------------------------------
(* The strategy engine's steps.                                              *)

LEMMA StartKeeps == FlowInv /\ Start => FlowInv'
  <1> SUFFICES ASSUME FlowInv, Start PROVE FlowInv'
    OBVIOUS
  <1>0. WiringShapes /\ RunShapes /\ LedgerShapes /\ Prompt
    BY DEF FlowInv, FlowShapes
  <1>1. PICK found \in Found :
          LET more == [k \in DOMAIN found |-> Discoverable[found[k]]]
              ids  == Len(instances) + 1 .. Len(instances) + Len(more)
          IN  /\ Len(instances) + Len(more) =< MaxInstances
              /\ instances' = instances \o more
              /\ base' = Len(instances)
              /\ loaded' = ids \union {i \in loaded :
                                \A k \in DOMAIN more : more[k] # Name(i)}
              /\ timers' = {i \in ids : Cadence[instances'[i]] = "timer"}
    BY DEF Start
  <1>2. PICK more : more = [k \in DOMAIN found |-> Discoverable[found[k]]]
    OBVIOUS
  <1>3. PICK n \in Nat : found \in [1 .. n -> DOMAIN Discoverable]
    <2>1. Len(Discoverable) \in Nat
      BY FlowConstants
    <2>2. \E n \in 0 .. Len(Discoverable) : found \in [1 .. n -> DOMAIN Discoverable]
      BY DEF Found
    <2>. QED BY <2>1, <2>2
  <1>4. more \in Seq(Strategies) /\ Len(more) = n
    <2>1. \A k \in 1 .. n : Discoverable[found[k]] \in Strategies
      BY <1>3, FlowConstants
    <2>2. more \in [1 .. n -> Strategies]
      BY <1>2, <1>3, <2>1
    <2>. QED BY <2>2
  <1>5. PICK m \in Nat : m = Len(instances)
    BY <1>0 DEF WiringShapes
  <1>6. /\ m + n =< MaxInstances /\ instances' = instances \o more /\ base' = m
        /\ loaded' = (m + 1 .. m + n) \union
                     {i \in loaded : \A k \in DOMAIN more : more[k] # Name(i)}
        /\ timers' = {i \in m + 1 .. m + n : Cadence[instances'[i]] = "timer"}
    BY <1>1, <1>2, <1>4, <1>5
  <1>7. instances \in Seq(Strategies) /\ loaded \subseteq 1 .. m
    BY <1>0, <1>5 DEF WiringShapes
  <1>8. instances' \in Seq(Strategies) /\ Len(instances') = m + n
    <2>1. PICK old \in Seq(Strategies) : old = instances
      BY <1>7
    <2>2. old \o more \in Seq(Strategies) /\ Len(old \o more) = Len(old) + Len(more)
      BY <1>4
    <2>. QED BY <1>4, <1>5, <1>6, <2>1, <2>2
  <1>9. /\ running' = TRUE
        /\ UNCHANGED <<now, runs, ledger, quoted, lapses>>
    BY DEF Start
  <1>10. loaded' \subseteq 1 .. m + n
    <2>1. \A i \in 1 .. m : i \in 1 .. m + n
      OBVIOUS
    <2>2. \A i \in m + 1 .. m + n : i \in 1 .. m + n
      OBVIOUS
    <2>. QED BY <1>6, <1>7, <2>1, <2>2
  <1>11. WiringShapes'
    <2>1. base' \in 0 .. Len(instances')
      BY <1>6, <1>8
    <2>2. timers' \subseteq loaded'
      BY <1>6
    <2>. QED BY <1>6, <1>8, <1>9, <1>10, <2>1, <2>2 DEF WiringShapes
  <1>12. JobsMatchStrategies'
    <2>1. \A i \in loaded' : i > base' <=> i \in m + 1 .. m + n
      <3>1. \A i \in 1 .. m : ~(i > m) /\ i \notin m + 1 .. m + n
        OBVIOUS
      <3>2. \A i \in m + 1 .. m + n : i > m
        OBVIOUS
      <3>. QED BY <1>6, <1>7, <3>1, <3>2
    <2>2. \A i \in m + 1 .. m + n : i \in loaded'
      BY <1>6
    <2>. QED BY <1>6, <1>9, <2>1, <2>2 DEF JobsMatchStrategies, Timed, Name
  <1>13. RunShapes'
    <2>1. signals' = signals /\ runs' = runs
      BY <1>9 DEF ledger
    <2>2. \A i \in 1 .. m : i \in 1 .. m + n
      OBVIOUS
    <2>. QED BY <1>0, <1>5, <1>8, <2>1, <2>2 DEF RunShapes
  <1>14. Prompt'
    BY <1>0, <1>9 DEF Prompt, ledger
  <1>15. now' \in 0 .. MaxTime
    BY <1>0, <1>9 DEF LedgerShapes
  <1>. QED BY <1>9, <1>11, <1>12, <1>13, <1>14, <1>15, LedgerStays DEF FlowInv, FlowShapes

LEMMA StopKeeps == FlowInv /\ Stop => FlowInv'
  <1> SUFFICES ASSUME FlowInv, Stop PROVE FlowInv'
    OBVIOUS
  <1>0. WiringShapes /\ RunShapes /\ LedgerShapes /\ Prompt
    BY DEF FlowInv, FlowShapes
  <1>1. /\ running' = FALSE /\ timers' = {} /\ runs' = {}
        /\ lapses' \in {lapses, lapses \union {"cancelled"}}
        /\ UNCHANGED <<now, instances, base, loaded, ledger, quoted>>
    BY DEF Stop, Cut
  <1>2. WiringShapes'
    BY <1>0, <1>1 DEF WiringShapes
  <1>3. RunShapes'
    BY <1>1, FS_EmptySet, FlowAssumption DEF RunShapes
  <1>4. Prompt'
    <2>1. active' = active /\ ("suspended" \in lapses' <=> "suspended" \in lapses)
      BY <1>1 DEF ledger
    <2>. QED BY <1>0, <1>1, <2>1 DEF Prompt
  <1>5. JobsMatchStrategies'
    BY <1>1 DEF JobsMatchStrategies
  <1>6. now' \in 0 .. MaxTime
    BY <1>0, <1>1 DEF LedgerShapes
  <1>. QED BY <1>1, <1>2, <1>3, <1>4, <1>5, <1>6, LedgerStays DEF FlowInv, FlowShapes

LEMMA LoadKeeps == ASSUME FlowInv, NEW s \in Strategies, Load(s) PROVE FlowInv'
  <1>0. WiringShapes /\ RunShapes /\ LedgerShapes /\ Prompt /\ JobsMatchStrategies
    BY DEF FlowInv, FlowShapes
  <1>1. PICK m \in Nat : m = Len(instances)
    BY <1>0 DEF WiringShapes
  <1>2. /\ running /\ m < MaxInstances /\ instances' = Append(instances, s)
        /\ loaded' = loaded \union {m + 1}
        /\ timers' = timers \union (IF Cadence[s] = "timer" THEN {m + 1} ELSE {})
        /\ UNCHANGED <<now, running, base, runs, ledger, quoted, lapses>>
    BY <1>1 DEF Load
  <1>3. /\ instances \in Seq(Strategies) /\ loaded \subseteq 1 .. m /\ timers \subseteq loaded
        /\ base \in 0 .. m /\ running \in BOOLEAN /\ MaxInstances \in Nat
    BY <1>0, <1>1, FlowAssumption DEF WiringShapes
  <1>4. /\ instances' \in Seq(Strategies) /\ Len(instances') = m + 1
        /\ instances'[m + 1] = s /\ \A i \in 1 .. m : instances'[i] = instances[i]
    BY <1>1, <1>2, <1>3
  <1>5. \A i \in 1 .. m : i \in 1 .. m + 1 /\ i # m + 1
    OBVIOUS
  <1>6. WiringShapes'
    <2>1. loaded' \subseteq 1 .. m + 1 /\ timers' \subseteq loaded'
      BY <1>2, <1>3, <1>5
    <2>2. base' \in 0 .. m + 1 /\ m + 1 =< MaxInstances
      BY <1>2, <1>3
    <2>. QED BY <1>2, <1>3, <1>4, <2>1, <2>2 DEF WiringShapes
  <1>7. JobsMatchStrategies'
    <2>1. timers = {i \in loaded : Cadence[instances[i]] = "timer" /\ i > base}
      BY <1>0, <1>2 DEF JobsMatchStrategies, Timed, Name
    <2>2. m + 1 > base /\ base' = base
      BY <1>2, <1>3
    <2>3. timers' = {i \in loaded' : Cadence[instances'[i]] = "timer" /\ i > base'}
      <3> SUFFICES ASSUME NEW i
                   PROVE  i \in timers' <=> i \in loaded' /\ Cadence[instances'[i]] = "timer" /\ i > base'
        BY <1>2, <1>3
      <3>1. CASE i = m + 1
        BY <1>2, <1>3, <1>4, <1>5, <2>2, <3>1
      <3>2. CASE i # m + 1
        BY <1>2, <1>3, <1>4, <2>1, <2>2, <3>2
      <3>. QED BY <3>1, <3>2
    <2>. QED BY <1>2, <2>3 DEF JobsMatchStrategies, Timed, Name
  <1>8. RunShapes'
    <2>1. signals' = signals /\ runs' = runs
      BY <1>2 DEF ledger
    <2>. QED BY <1>0, <1>1, <1>4, <1>5, <2>1 DEF RunShapes
  <1>9. Prompt'
    BY <1>0, <1>2 DEF Prompt, ledger
  <1>10. now' \in 0 .. MaxTime
    BY <1>0, <1>2 DEF LedgerShapes
  <1>. QED BY <1>2, <1>6, <1>7, <1>8, <1>9, <1>10, LedgerStays DEF FlowInv, FlowShapes

LEMMA UnloadKeeps == ASSUME FlowInv, NEW i \in loaded, Unload(i) PROVE FlowInv'
  <1>0. WiringShapes /\ RunShapes /\ LedgerShapes /\ Prompt /\ JobsMatchStrategies
    BY DEF FlowInv, FlowShapes
  <1>1. /\ running /\ loaded' = loaded \ {i} /\ timers' = timers \ {i}
        /\ runs' \subseteq runs /\ lapses' \in {lapses, lapses \union {"cancelled"}}
        /\ UNCHANGED <<now, running, instances, base, ledger, quoted>>
    BY DEF Unload, JobsWithout, Cut
  <1>2. WiringShapes'
    BY <1>0, <1>1 DEF WiringShapes
  <1>3. JobsMatchStrategies'
    <2>1. timers = {k \in loaded : Timed(k) /\ k > base}
      BY <1>0, <1>1 DEF JobsMatchStrategies
    <2>2. \A k : Timed(k)' <=> Timed(k)
      BY <1>1 DEF Timed, Name
    <2>. QED BY <1>1, <2>1, <2>2 DEF JobsMatchStrategies
  <1>4. RunShapes'
    <2>1. /\ IsFiniteSet(runs') /\ Cardinality(runs') =< Cardinality(runs)
          /\ Cardinality(runs') \in Nat /\ Cardinality(runs) \in Nat
      BY <1>0, <1>1, FS_Subset, FS_CardinalityType DEF RunShapes
    <2>2. Cardinality(runs) =< MaxRuns /\ MaxRuns \in Nat
      BY <1>0, FlowAssumption DEF RunShapes
    <2>3. Cardinality(runs') =< MaxRuns
      BY <2>1, <2>2
    <2>4. signals' = signals
      BY <1>1 DEF ledger
    <2>. QED BY <1>0, <1>1, <2>1, <2>3, <2>4 DEF RunShapes
  <1>5. Prompt'
    <2>1. active' = active /\ ("suspended" \in lapses' <=> "suspended" \in lapses)
      BY <1>1 DEF ledger
    <2>. QED BY <1>0, <1>1, <2>1 DEF Prompt
  <1>6. now' \in 0 .. MaxTime
    BY <1>0, <1>1 DEF LedgerShapes
  <1>. QED BY <1>1, <1>2, <1>3, <1>4, <1>5, <1>6, LedgerStays DEF FlowInv, FlowShapes

-----------------------------------------------------------------------------
(* Evaluations that begin and pass.                                          *)

LEMMA RunsMove ==
  ASSUME FlowInv, RunShapes', UNCHANGED <<now, wiring, ledger, quoted, lapses>>,
         \A q \in runs' : q \in runs \/ q.at # "judging"
  PROVE  FlowInv'
  <1>0. WiringShapes /\ LedgerShapes /\ Prompt
    BY DEF FlowInv, FlowShapes
  <1>1. Prompt'
    BY <1>0 DEF Prompt, ledger
  <1>2. now' \in 0 .. MaxTime
    BY <1>0 DEF LedgerShapes
  <1>. QED BY <1>1, <1>2, LedgerStays, WiringStays DEF FlowInv, FlowShapes

LEMMA WatchedSome == ASSUME WiringShapes, NEW i \in loaded
                     PROVE  Watched(i) \in SUBSET Instruments /\ Watched(i) # {}
  <1>1. instances[i] \in Strategies
    BY DEF WiringShapes
  <1>. QED BY <1>1, FlowAssumption DEF Watched, Name

LEMMA EventKeeps ==
  ASSUME FlowInv, NEW kind, NEW symbol \in Instruments, Event(kind, symbol)
  PROVE  FlowInv'
  <1>0. WiringShapes /\ RunShapes /\ LedgerShapes
    BY DEF FlowInv, FlowShapes
  <1> DEFINE Who == {i \in loaded : Cadence[Name(i)] = kind /\ symbol \in Watched(i)}
             More == {Run(i, "event", {symbol}) : i \in Who}
  <1>1. /\ runs' = runs \union More /\ Cardinality(runs') =< MaxRuns
        /\ UNCHANGED <<now, wiring, ledger, quoted, lapses>>
    BY DEF Event
  <1>2. /\ Who \subseteq 1 .. Len(instances) /\ Len(instances) \in Nat
        /\ instances' = instances /\ signals' = signals
    <2>1. loaded \subseteq 1 .. Len(instances) /\ Len(instances) \in Nat
      BY <1>0 DEF WiringShapes
    <2>2. instances' = instances /\ signals' = signals
      BY <1>1 DEF wiring, ledger
    <2>. QED BY <2>1, <2>2
  <1>3. IsFiniteSet(Who)
    <2>1. IsFiniteSet(1 .. Len(instances))
      BY <1>2, FS_Interval
    <2>. QED BY <1>2, <2>1, FS_Subset
  <1>4. \A q \in More : /\ q \in Inquiry /\ q.inst \in 1 .. Len(instances)
                        /\ q.weighs = {} /\ q.at = "spawned"
    <2> SUFFICES ASSUME NEW i \in Who
                 PROVE  LET q == Run(i, "event", {symbol})
                        IN  /\ q \in Inquiry /\ q.inst \in 1 .. Len(instances)
                            /\ q.weighs = {} /\ q.at = "spawned"
      OBVIOUS
    <2>1. i \in Nat /\ i \in 1 .. Len(instances) /\ {symbol} \in SUBSET Instruments /\ {symbol} # {}
      BY <1>2
    <2>. QED BY <2>1, RunMade
  <1>5. IsFiniteSet(More)
    <2> DEFINE f == [i \in Who |-> Run(i, "event", {symbol})]
    <2>1. f \in Surjection(Who, More)
      BY DEF Surjection
    <2> HIDE DEF Who, More, f
    <2>. QED BY <1>3, <2>1, FS_Surjection
  <1> HIDE DEF More
  <1>6. IsFiniteSet(runs')
    BY <1>0, <1>1, <1>5, FS_Union DEF RunShapes
  <1>7. RunShapes'
    BY <1>0, <1>1, <1>2, <1>4, <1>6 DEF RunShapes
  <1>. QED BY <1>1, <1>4, <1>7, RunsMove

LEMMA TimerKeeps == ASSUME FlowInv, NEW i \in loaded, Timer(i) PROVE FlowInv'
  <1>0. WiringShapes /\ RunShapes /\ LedgerShapes
    BY DEF FlowInv, FlowShapes
  <1>1. /\ Cardinality(runs) < MaxRuns /\ runs' = runs \union {Run(i, "timer", Watched(i))}
        /\ UNCHANGED <<now, wiring, ledger, quoted, lapses>>
    BY DEF Timer
  <1>2. /\ i \in Nat /\ i \in 1 .. Len(instances)
        /\ instances' = instances /\ signals' = signals
    BY <1>0, <1>1 DEF WiringShapes, wiring, ledger
  <1>3. PICK e \in Inquiry : /\ e = Run(i, "timer", Watched(i)) /\ e.inst = i
                             /\ e.weighs = {} /\ e.at = "spawned"
    BY <1>0, <1>2, RunMade, WatchedSome
  <1>4. runs' = runs \union {e}
    BY <1>1, <1>3
  <1>5. IsFiniteSet(runs') /\ Cardinality(runs') =< MaxRuns
    <2>1. /\ IsFiniteSet(runs) /\ Cardinality(runs) \in Nat /\ MaxRuns \in Nat
      BY <1>0, FS_CardinalityType, FlowAssumption DEF RunShapes
    <2>2. /\ IsFiniteSet(runs \union {e})
          /\ Cardinality(runs \union {e}) \in {Cardinality(runs), Cardinality(runs) + 1}
      BY <2>1, FS_AddElement
    <2>. QED BY <1>1, <1>4, <2>1, <2>2
  <1>6. RunShapes'
    BY <1>0, <1>2, <1>3, <1>4, <1>5 DEF RunShapes
  <1>. QED BY <1>1, <1>3, <1>4, <1>6, RunsMove

LEMMA BeginOrPassKeeps ==
  ASSUME FlowInv, NEW r \in runs, Begin(r) \/ Pass(r)
  PROVE  FlowInv'
  <1>0. WiringShapes /\ RunShapes /\ LedgerShapes
    BY DEF FlowInv, FlowShapes
  <1>1. r \in Inquiry /\ r.inst \in 1 .. Len(instances) /\ r.weighs \subseteq 1 .. Len(signals)
    BY <1>0 DEF RunShapes
  <1>2. PICK more \in {Rest(r), {[r EXCEPT !.at = "thinking"]}} : runs' = (runs \ {r}) \union more
    BY DEF Begin, Pass
  <1>3. UNCHANGED <<now, wiring, ledger, quoted, lapses>>
    BY DEF Begin, Pass
  <1>4. /\ instances' = instances /\ signals' = signals
        /\ Len(instances) \in Nat /\ Len(signals) \in Nat
    BY <1>0, <1>3 DEF wiring, ledger, WiringShapes, LedgerShapes
  <1>5. more = {} \/ \E e \in Inquiry : /\ more = {e} /\ e.inst = r.inst
                                        /\ e.weighs \subseteq r.weighs /\ e.at # "judging"
    <2>1. CASE more = Rest(r)
      BY <1>1, <2>1, RestIsOne
    <2>2. CASE more = {[r EXCEPT !.at = "thinking"]}
      <3>1. PICK e : e = [r EXCEPT !.at = "thinking"]
        OBVIOUS
      <3>2. e \in Inquiry /\ e.inst = r.inst /\ e.weighs = r.weighs /\ e.at = "thinking"
        BY <1>1, <3>1 DEF Inquiry
      <3>. QED BY <2>2, <3>1, <3>2
    <2>. QED BY <1>2, <2>1, <2>2
  <1>6. RunShapes'
    <2>1. more = {} \/ \E e \in Inquiry : /\ more = {e} /\ e.inst \in 1 .. Len(instances')
                                          /\ e.weighs \subseteq 1 .. Len(signals')
      BY <1>1, <1>4, <1>5
    <2>2. /\ Len(instances') \in Nat /\ Len(signals') \in Nat
          /\ Len(instances) =< Len(instances') /\ Len(signals) =< Len(signals')
      BY <1>4
    <2>3. PICK left : left = more
      OBVIOUS
    <2>. QED BY <1>0, <1>2, <1>4, <2>1, <2>2, OneForOne
  <1>7. \A q \in runs' : q \in runs \/ q.at # "judging"
    BY <1>2, <1>5
  <1>. QED BY <1>3, <1>6, <1>7, RunsMove

-----------------------------------------------------------------------------
(* Verdicts.                                                                 *)

LEMMA MajorityTakesASide == ASSUME NEW voices PROVE MajorityVoting(voices).direction \in Directions
  BY DEF MajorityVoting, Unanimous, Nobody, Directions

LEMMA RecordedIs ==
  ASSUME NEW h \in Seq(Seq(Statuses)), NEW ids, NEW status \in Statuses
  PROVE  LET g == Recorded(h, ids, status)
         IN  /\ g \in Seq(Seq(Statuses)) /\ Len(g) = Len(h)
             /\ \A i \in 1 .. Len(h) : /\ i \in ids => g[i] = Append(h[i], status)
                                       /\ i \notin ids => g[i] = h[i]
  <1>1. \A i \in 1 .. Len(h) : h[i] \in Seq(Statuses) /\ Append(h[i], status) \in Seq(Statuses)
    OBVIOUS
  <1>2. Recorded(h, ids, status) \in [1 .. Len(h) -> Seq(Statuses)]
    BY <1>1 DEF Recorded
  <1>3. Len(h) \in Nat
    OBVIOUS
  <1>. QED BY <1>2, <1>3 DEF Recorded

(* Live signals are those of which nothing is recorded.                      *)
Accounted(h, live) == \A i \in 1 .. Len(h) : Len(h[i]) = IF i \in live THEN 0 ELSE 1

LEMMA RecordingAccounts ==
  ASSUME NEW h \in Seq(Seq(Statuses)), NEW live, NEW ids \in SUBSET live, NEW status \in Statuses,
         Accounted(h, live)
  PROVE  Accounted(Recorded(h, ids, status), live \ ids)
  <1> DEFINE g == Recorded(h, ids, status)
  <1>1. /\ Len(g) = Len(h)
        /\ \A i \in 1 .. Len(h) : /\ i \in ids => g[i] = Append(h[i], status)
                                  /\ i \notin ids => g[i] = h[i]
    BY RecordedIs
  <1>2. \A i \in 1 .. Len(h) : h[i] \in Seq(Statuses) /\ Len(Append(h[i], status)) = Len(h[i]) + 1
    OBVIOUS
  <1> HIDE DEF g
  <1>3. ASSUME NEW i \in 1 .. Len(h) PROVE Len(g[i]) = IF i \in live \ ids THEN 0 ELSE 1
    <2>1. CASE i \in ids
      <3>1. i \in live /\ Len(h[i]) = 0
        BY <2>1 DEF Accounted
      <3>2. g[i] = Append(h[i], status)
        BY <1>1, <2>1
      <3>3. Len(g[i]) = 1
        BY <1>2, <3>1, <3>2
      <3>. QED BY <2>1, <3>3
    <2>2. CASE i \notin ids
      BY <1>1, <2>2 DEF Accounted
    <2>. QED BY <2>1, <2>2
  <1>4. Accounted(g, live \ ids)
    BY <1>1, <1>3 DEF Accounted
  <1>. QED BY <1>4 DEF g

(* What a call of decide() comes to: one ruling on record, and the signals   *)
(* of its symbol leave with that ruling.                                     *)
Ruled(symbol, weighs, since, set, issued, recorded) ==
  \E ruling \in Ruling :
    /\ decisions' = Append(decisions, ruling)
    /\ ruling.symbol = symbol /\ ruling.at = since /\ ruling.weighs = weighs
    /\ ruling.accepted => ~Correlated(symbol, now, decisions, Desk)
    /\ active' = set \ Of(symbol, set, issued)
    /\ history' = Recorded(recorded, Of(symbol, set, issued),
                           IF ruling.accepted THEN "ACCEPTED" ELSE "REJECTED")

LEMMA DecideGives ==
  ASSUME NEW symbol \in Instruments, NEW weighs \in SUBSET Nat, NEW since \in Int, NEW set,
         NEW issued, NEW recorded, Decide(symbol, weighs, since, set, issued, recorded)
  PROVE  Ruled(symbol, weighs, since, set, issued, recorded)
  <1>1. PICK voices : \E fit \in BOOLEAN :
          LET consensus == MajorityVoting(voices)
              taken == /\ consensus.direction # "NEUTRAL"
                       /\ Len(SetToSeq(weighs)) >= MinSignals
                       /\ fit /\ ~Vetoed(symbol, since)
          IN  /\ decisions' = Append(decisions,
                    [symbol |-> symbol, at |-> since, accepted |-> taken,
                     direction |-> consensus.direction, weighs |-> weighs])
              /\ active' = set \ Consumed(symbol, weighs, set, issued)
              /\ history' = Recorded(recorded, Consumed(symbol, weighs, set, issued),
                                     IF taken THEN "ACCEPTED" ELSE "REJECTED")
    BY DEF Decide
  <1>2. PICK d \in Directions : d = MajorityVoting(voices).direction
    BY MajorityTakesASide
  <1>3. PICK taken \in BOOLEAN :
              /\ taken => ~Vetoed(symbol, since)
              /\ decisions' = Append(decisions,
                    [symbol |-> symbol, at |-> since, accepted |-> taken,
                     direction |-> d, weighs |-> weighs])
              /\ active' = set \ Consumed(symbol, weighs, set, issued)
              /\ history' = Recorded(recorded, Consumed(symbol, weighs, set, issued),
                                     IF taken THEN "ACCEPTED" ELSE "REJECTED")
    BY <1>1, <1>2
  <1>4. PICK ruling : ruling = [symbol |-> symbol, at |-> since, accepted |-> taken,
                                direction |-> d, weighs |-> weighs]
    OBVIOUS
  <1>5. /\ ruling \in Ruling /\ ruling.symbol = symbol /\ ruling.at = since
        /\ ruling.weighs = weighs /\ ruling.accepted = taken
    BY <1>4 DEF Ruling
  <1>6. decisions' = Append(decisions, ruling)
    BY <1>3, <1>4
  <1>. QED BY <1>3, <1>5, <1>6 DEF Vetoed, Consumed, Ruled

(* The filter sees the last decisions, as many as it is given.               *)
LEMMA FilterSees ==
  ASSUME decisions \in Seq(Ruling), NEW symbol, NEW at \in Int,
         ~Correlated(symbol, at, decisions, Desk),
         NEW j \in 1 .. Len(decisions), Len(decisions) + 1 - j =< Desk.recent,
         decisions[j].accepted, decisions[j].symbol # symbol,
         decisions[j].symbol \in GroupOf(symbol, Desk.groups)
  PROVE  at - decisions[j].at > Desk.window
  <1> DEFINE n == Len(decisions)
             from == Greatest({1, n - Desk.recent + 1})
  <1>1. n \in Nat /\ Desk.recent \in Nat /\ Desk.window \in Int /\ decisions[j].at \in Int
    <2>1. decisions[j] \in Ruling
      OBVIOUS
    <2>2. n \in Nat
      OBVIOUS
    <2>. QED BY <2>1, <2>2, FlowConstants DEF Ruling
  <1>2. from \in Nat /\ 1 =< from /\ from =< j /\ from \in {1, n - Desk.recent + 1}
    <2>1. \E x \in {1, n - Desk.recent + 1} : \A y \in {1, n - Desk.recent + 1} : x >= y
      BY <1>1
    <2>2. /\ from \in {1, n - Desk.recent + 1}
          /\ \A y \in {1, n - Desk.recent + 1} : from >= y
      BY <2>1 DEF Greatest, Max
    <2>. QED BY <1>1, <2>2
  <1> HIDE DEF from
  <1>3. PICK recent : recent = Recent(decisions, Desk.recent)
    OBVIOUS
  <1>4. recent = SubSeq(decisions, from, n)
    BY <1>3 DEF Recent, from
  <1>5. j - from + 1 \in 1 .. n - from + 1
    BY <1>1, <1>2
  <1>6. j - from + 1 \in DOMAIN recent /\ recent[j - from + 1] = decisions[j]
    <2>1. /\ from \in 1 .. n /\ n - from + 1 \in Nat
      BY <1>1, <1>2
    <2>2. recent = [i \in 1 .. n - from + 1 |-> decisions[i + from - 1]]
      BY <1>1, <1>4, <2>1
    <2>3. (j - from + 1) + from - 1 = j
      BY <1>1, <1>2
    <2>. QED BY <1>5, <2>2, <2>3
  <1>7. decisions[j] \in ToSet(recent)
    BY <1>6 DEF ToSet
  <1>8. ~(at - decisions[j].at =< Desk.window)
    BY <1>3, <1>7 DEF Correlated
  <1>. QED BY <1>1, <1>8

-----------------------------------------------------------------------------
(* Signals that are refused, admitted, judged and looked at.                 *)

LEMMA SignalAdded ==
  ASSUME signals \in Seq(Issue), NEW issue \in Issue, signals' = Append(signals, issue)
  PROVE  LET n == Len(signals)
         IN  /\ n \in Nat /\ signals' \in Seq(Issue) /\ Len(signals') = n + 1
             /\ signals'[n + 1] = issue /\ \A i \in 1 .. n : signals'[i] = signals[i]
             /\ 1 .. n \subseteq 1 .. n + 1 /\ n + 1 \notin 1 .. n
  OBVIOUS

LEMMA DecisionAdded ==
  ASSUME decisions \in Seq(Ruling), NEW ruling \in Ruling, decisions' = Append(decisions, ruling)
  PROVE  LET n == Len(decisions)
         IN  /\ n \in Nat /\ decisions' \in Seq(Ruling) /\ Len(decisions') = n + 1
             /\ DOMAIN decisions = 1 .. n /\ DOMAIN decisions' = 1 .. n + 1
             /\ decisions'[n + 1] = ruling /\ \A k \in 1 .. n : decisions'[k] = decisions[k]
             /\ \A k \in 1 .. n + 1 : k \in 1 .. n \/ k = n + 1
  OBVIOUS

LEMMA RefusedKeeps == ASSUME FlowInv, NEW r \in runs, Refused(r) PROVE FlowInv'
  <1>0. /\ WiringShapes /\ RunShapes /\ LedgerShapes /\ Prompt
        /\ SignalsAccounted /\ DecidedOnce /\ OneVoice /\ CorrelatedApart
    BY DEF FlowInv, FlowShapes
  <1> DEFINE n == Len(signals)
  <1>1. /\ r \in Inquiry /\ r.inst \in 1 .. Len(instances) /\ r.symbol \in Instruments
        /\ instances \in Seq(Strategies) /\ now \in Int
    BY <1>0, FlowConstants DEF RunShapes, WiringShapes, LedgerShapes, Inquiry
  <1>2. PICK issue : issue = [strategy |-> Name(r.inst), symbol |-> r.symbol,
                              direction |-> "NEUTRAL", dies |-> now]
    OBVIOUS
  <1>3. issue \in Issue
    <2>1. Name(r.inst) \in Strategies
      BY <1>1 DEF Name
    <2>. QED BY <1>1, <1>2, <2>1 DEF Issue, Directions
  <1>4. /\ signals' = Append(signals, issue) /\ history' = Append(history, <<"REJECTED">>)
        /\ runs' = (runs \ {r}) \union Rest(r)
        /\ UNCHANGED <<now, wiring, active, decisions, quoted, lapses>>
    BY <1>2 DEF Refused
  <1>5. /\ n \in Nat /\ signals' \in Seq(Issue) /\ Len(signals') = n + 1
        /\ \A i \in 1 .. n : signals'[i] = signals[i]
        /\ 1 .. n \subseteq 1 .. n + 1 /\ n + 1 \notin 1 .. n
    BY <1>0, <1>3, <1>4, SignalAdded DEF LedgerShapes
  <1>6. /\ history \in Seq(Seq(Statuses)) /\ Len(history) = n
        /\ history' \in Seq(Seq(Statuses)) /\ Len(history') = n + 1
        /\ history'[n + 1] = <<"REJECTED">> /\ \A i \in 1 .. n : history'[i] = history[i]
    <2>1. history \in Seq(Seq(Statuses)) /\ Len(history) = n
      BY <1>0 DEF LedgerShapes
    <2>2. <<"REJECTED">> \in Seq(Statuses)
      BY DEF Statuses
    <2>. QED BY <1>4, <2>1, <2>2
  <1>7. /\ decisions' = decisions /\ DOMAIN decisions = 1 .. Len(decisions)
        /\ \A k \in 1 .. Len(decisions) : decisions[k].weighs \subseteq 1 .. n
    BY <1>0, <1>4 DEF LedgerShapes
  <1>8. LedgerShapes'
    BY <1>0, <1>4, <1>5, <1>6, <1>7 DEF LedgerShapes
  <1>9. SignalsAccounted'
    <2>1. active' = active /\ active \subseteq 1 .. n /\ DOMAIN signals = 1 .. n
      BY <1>0, <1>4 DEF LedgerShapes
    <2>2. DOMAIN signals' = 1 .. n + 1
      BY <1>5
    <2>3. \A i \in 1 .. n : Len(history[i]) = IF i \in active THEN 0 ELSE 1
      BY <1>0, <2>1 DEF SignalsAccounted, Ids
    <2>4. Len(<<"REJECTED">>) = 1
      OBVIOUS
    <2>5. \A i \in 1 .. n + 1 : i \in 1 .. n \/ i = n + 1
      BY <1>5
    <2>6. \A i \in 1 .. n + 1 : Len(history'[i]) = IF i \in active THEN 0 ELSE 1
      BY <1>5, <1>6, <2>1, <2>3, <2>4, <2>5
    <2>. QED BY <2>1, <2>2, <2>6 DEF SignalsAccounted, Ids
  <1>10. DecidedOnce' /\ OneVoice' /\ CorrelatedApart'
    <2>1. DecidedOnce'
      BY <1>0, <1>4, <1>5, <1>6, <1>7 DEF DecidedOnce
    <2>2. OneVoice'
      BY <1>0, <1>4 DEF OneVoice
    <2>3. CorrelatedApart'
      BY <1>0, <1>4 DEF CorrelatedApart
    <2>. QED BY <2>1, <2>2, <2>3
  <1>11. PICK more : /\ more = Rest(r)
                     /\ more = {} \/ \E e \in Inquiry : /\ more = {e} /\ e.inst = r.inst
                                                        /\ e.weighs = {} /\ e.at = "spawned"
    BY <1>1, RestIsOne
  <1>12. RunShapes'
    <2>1. instances' = instances /\ Len(instances) \in Nat
      BY <1>1, <1>4 DEF wiring
    <2>2. /\ Len(instances') \in Nat /\ Len(signals') \in Nat
          /\ Len(instances) =< Len(instances') /\ Len(signals) =< Len(signals')
      BY <1>5, <2>1
    <2>3. more = {} \/ \E e \in Inquiry : /\ more = {e} /\ e.inst \in 1 .. Len(instances')
                                          /\ e.weighs \subseteq 1 .. Len(signals')
      BY <1>1, <1>11, <2>1
    <2>. QED BY <1>0, <1>4, <1>5, <1>11, <2>1, <2>2, <2>3, OneForOne
  <1>13. Prompt'
    BY <1>0, <1>4, <1>11 DEF Prompt
  <1>. QED BY <1>4, <1>8, <1>9, <1>10, <1>12, <1>13, WiringStays DEF FlowInv, FlowShapes

(* A signal that is decided on the spot: alone, while it lives, and after    *)
(* the filter has seen the decisions before it.                              *)
LEMMA PromptDecision ==
  ASSUME FlowInv, "suspended" \notin lapses, lapses' = lapses,
         NEW issue \in Issue, signals' = Append(signals, issue), now < issue.dies,
         NEW ruling \in Ruling, decisions' = Append(decisions, ruling),
         ruling.weighs = {Len(signals) + 1}, ruling.at = now,
         ruling.accepted => ~Correlated(ruling.symbol, now, decisions, Desk),
         \A i \in 1 .. Len(signals) : history'[i] = history[i],
         history'[Len(signals) + 1] = <<IF ruling.accepted THEN "ACCEPTED" ELSE "REJECTED">>
  PROVE  DecidedOnce' /\ OneVoice' /\ CorrelatedApart'
  <1> DEFINE n == Len(signals)
             m == Len(decisions)
  <1>0. LedgerShapes /\ DecidedOnce /\ OneVoice /\ CorrelatedApart
    BY DEF FlowInv, FlowShapes
  <1>1. /\ n \in Nat /\ signals'[n + 1] = issue /\ \A i \in 1 .. n : signals'[i] = signals[i]
        /\ n + 1 \notin 1 .. n
    BY <1>0, SignalAdded DEF LedgerShapes
  <1>2. /\ m \in Nat /\ decisions' \in Seq(Ruling) /\ DOMAIN decisions' = 1 .. m + 1
        /\ DOMAIN decisions = 1 .. m
        /\ decisions'[m + 1] = ruling /\ \A k \in 1 .. m : decisions'[k] = decisions[k]
        /\ \A k \in 1 .. m + 1 : k \in 1 .. m \/ k = m + 1
        /\ \A k \in 1 .. m : decisions[k].weighs \subseteq 1 .. n
    BY <1>0, DecisionAdded DEF LedgerShapes
  <1>3. DecidedOnce'
    <2>1. ASSUME NEW j \in 1 .. m + 1, NEW k \in 1 .. m + 1, j # k
          PROVE  decisions'[j].weighs \intersect decisions'[k].weighs = {}
      <3>1. CASE j \in 1 .. m /\ k \in 1 .. m
        BY <1>0, <1>2, <2>1, <3>1 DEF DecidedOnce
      <3>2. CASE j = m + 1 \/ k = m + 1
        BY <1>1, <1>2, <2>1, <3>2
      <3>. QED BY <1>2, <3>1, <3>2
    <2>2. ASSUME NEW j \in 1 .. m + 1, NEW i \in decisions'[j].weighs
          PROVE  /\ decisions'[j].at < signals'[i].dies
                 /\ history'[i] = <<IF decisions'[j].accepted THEN "ACCEPTED" ELSE "REJECTED">>
      <3>1. CASE j \in 1 .. m
        <4>1. i \in decisions[j].weighs /\ i \in 1 .. n
          BY <1>2, <2>2, <3>1
        <4>2. /\ decisions[j].at < signals[i].dies
              /\ history[i] = <<IF decisions[j].accepted THEN "ACCEPTED" ELSE "REJECTED">>
          BY <1>0, <1>2, <3>1, <4>1 DEF DecidedOnce
        <4>. QED BY <1>1, <1>2, <3>1, <4>1, <4>2
      <3>2. CASE j = m + 1
        BY <1>1, <1>2, <2>2, <3>2
      <3>. QED BY <1>2, <3>1, <3>2
    <2>. QED BY <1>2, <2>1, <2>2 DEF DecidedOnce
  <1>4. OneVoice'
    <2>1. Cardinality(ruling.weighs) = 1
      BY FS_Singleton
    <2>2. \A k \in 1 .. m + 1 : Cardinality(decisions'[k].weighs) = 1
      BY <1>0, <1>2, <2>1 DEF OneVoice
    <2>. QED BY <1>2, <2>2 DEF OneVoice
  <1>5. CorrelatedApart'
    <2> SUFFICES ASSUME NEW j \in 1 .. m + 1, NEW k \in 1 .. m + 1, j < k, k - j =< Desk.recent,
                        decisions'[j].accepted, decisions'[k].accepted,
                        decisions'[j].symbol # decisions'[k].symbol,
                        decisions'[j].symbol \in GroupOf(decisions'[k].symbol, Desk.groups)
                 PROVE  decisions'[k].at - decisions'[j].at > Desk.window
      BY <1>2 DEF CorrelatedApart
    <2>1. j \in 1 .. m
      BY <1>2
    <2>2. CASE k \in 1 .. m
      BY <1>0, <1>2, <2>1, <2>2 DEF CorrelatedApart
    <2>3. CASE k = m + 1
      <3>1. now \in Int /\ decisions \in Seq(Ruling)
        BY <1>0, FlowConstants DEF LedgerShapes
      <3>2. /\ ~Correlated(ruling.symbol, now, decisions, Desk)
            /\ Len(decisions) + 1 - j =< Desk.recent
            /\ decisions[j].accepted /\ decisions[j].symbol # ruling.symbol
            /\ decisions[j].symbol \in GroupOf(ruling.symbol, Desk.groups)
        BY <1>2, <2>1, <2>3
      <3>3. now - decisions[j].at > Desk.window
        BY <2>1, <3>1, <3>2, FilterSees
      <3>. QED BY <1>2, <2>1, <2>3, <3>3
    <2>. QED BY <1>2, <2>2, <2>3
  <1>. QED BY <1>3, <1>4, <1>5

LEMMA AdmittedKeeps == ASSUME FlowInv, NEW r \in runs, Admitted(r) PROVE FlowInv'
  <1>0. /\ WiringShapes /\ RunShapes /\ LedgerShapes /\ Prompt /\ SignalsAccounted
    BY DEF FlowInv, FlowShapes
  <1>1. /\ r \in Inquiry /\ r.inst \in 1 .. Len(instances) /\ r.symbol \in Instruments
        /\ instances \in Seq(Strategies) /\ now \in Int /\ Len(instances) \in Nat
    BY <1>0, FlowConstants DEF RunShapes, WiringShapes, LedgerShapes, Inquiry
  <1>2. PICK n \in Nat : n = Len(signals)
    BY <1>0 DEF LedgerShapes
  <1>3. PICK d \in Directions : \E dies \in now + 1 .. now + TTL + 1 :
       LET id     == Len(signals) + 1
           issued == Append(signals, [strategy |-> Name(r.inst), symbol |-> r.symbol,
                                      direction |-> d, dies |-> dies])
           dead   == Dead(active)
           twin   == {i \in active \ dead : /\ signals[i].symbol = r.symbol
                                            /\ signals[i].strategy = Name(r.inst)
                                            /\ signals[i].direction = d}
           live   == (active \ (dead \union twin)) \union {id}
           known  == Append(Recorded(Recorded(history, dead, "EXPIRED"), twin, "SUPERSEDED"), << >>)
       IN  /\ signals' = issued
           /\ IF r.symbol \in quoted
              THEN /\ Decide(r.symbol, Of(r.symbol, live, issued), now, live, issued, known)
                   /\ runs' = (runs \ {r}) \union Rest(r)
                   /\ UNCHANGED lapses
              ELSE /\ active' = live /\ history' = known
                   /\ runs' = (runs \ {r}) \union
                              {[r EXCEPT !.at = "judging", !.since = now,
                                         !.weighs = Of(r.symbol, live, issued)]}
                   /\ lapses' = lapses \union {"suspended"}
                   /\ UNCHANGED decisions
    BY DEF Admitted
  <1>4. PICK dies \in now + 1 .. now + TTL + 1 :
       LET issued == Append(signals, [strategy |-> Name(r.inst), symbol |-> r.symbol,
                                      direction |-> d, dies |-> dies])
           dead   == Dead(active)
           twin   == {i \in active \ dead : /\ signals[i].symbol = r.symbol
                                            /\ signals[i].strategy = Name(r.inst)
                                            /\ signals[i].direction = d}
           live   == (active \ (dead \union twin)) \union {n + 1}
           known  == Append(Recorded(Recorded(history, dead, "EXPIRED"), twin, "SUPERSEDED"), << >>)
       IN  /\ signals' = issued
           /\ IF r.symbol \in quoted
              THEN /\ Decide(r.symbol, Of(r.symbol, live, issued), now, live, issued, known)
                   /\ runs' = (runs \ {r}) \union Rest(r)
                   /\ UNCHANGED lapses
              ELSE /\ active' = live /\ history' = known
                   /\ runs' = (runs \ {r}) \union
                              {[r EXCEPT !.at = "judging", !.since = now,
                                         !.weighs = Of(r.symbol, live, issued)]}
                   /\ lapses' = lapses \union {"suspended"}
                   /\ UNCHANGED decisions
    BY <1>2, <1>3
  <1>5. PICK issue : issue = [strategy |-> Name(r.inst), symbol |-> r.symbol,
                              direction |-> d, dies |-> dies]
    OBVIOUS
  <1>6. issue \in Issue /\ issue.symbol = r.symbol /\ now < issue.dies
    <2>1. Name(r.inst) \in Strategies
      BY <1>1 DEF Name
    <2>2. dies \in Int /\ now < dies
      BY <1>1, FlowConstants
    <2>. QED BY <1>1, <1>5, <2>1, <2>2 DEF Issue
  <1>7. PICK issued : issued = Append(signals, issue)
    OBVIOUS
  <1>8. PICK dead \in SUBSET active : dead = Dead(active)
    BY DEF Dead
  <1>9. PICK twin \in SUBSET (active \ dead) :
              twin = {i \in active \ dead : /\ signals[i].symbol = r.symbol
                                            /\ signals[i].strategy = Name(r.inst)
                                            /\ signals[i].direction = d}
    OBVIOUS
  <1>10. PICK live : live = (active \ (dead \union twin)) \union {n + 1}
    OBVIOUS
  <1>11. PICK known : known = Append(Recorded(Recorded(history, dead, "EXPIRED"), twin, "SUPERSEDED"), << >>)
    OBVIOUS
  <1>12. PICK weighs : weighs = Of(r.symbol, live, issued)
    OBVIOUS
  <1>13. /\ signals' = issued
         /\ r.symbol \in quoted =>
              /\ Decide(r.symbol, weighs, now, live, issued, known)
              /\ runs' = (runs \ {r}) \union Rest(r) /\ lapses' = lapses
         /\ r.symbol \notin quoted =>
              /\ active' = live /\ history' = known
              /\ runs' = (runs \ {r}) \union
                         {[r EXCEPT !.at = "judging", !.since = now, !.weighs = weighs]}
              /\ lapses' = lapses \union {"suspended"} /\ decisions' = decisions
         /\ UNCHANGED <<now, wiring, quoted>>
    BY <1>4, <1>5, <1>7, <1>8, <1>9, <1>10, <1>11, <1>12 DEF Admitted
  <1>14. /\ signals' \in Seq(Issue) /\ Len(signals') = n + 1 /\ DOMAIN signals' = 1 .. n + 1
         /\ signals'[n + 1] = issue /\ \A i \in 1 .. n : signals'[i] = signals[i]
         /\ 1 .. n \subseteq 1 .. n + 1 /\ n + 1 \notin 1 .. n
         /\ \A i \in 1 .. n + 1 : i \in 1 .. n \/ i = n + 1
    <2>1. signals \in Seq(Issue) /\ signals' = Append(signals, issue)
      BY <1>0, <1>7, <1>13 DEF LedgerShapes
    <2>. QED BY <1>2, <1>6, <2>1, SignalAdded
  <1>15. active \subseteq 1 .. n /\ live \subseteq 1 .. n + 1
    <2>1. active \subseteq 1 .. n /\ n + 1 \in 1 .. n + 1
      BY <1>0, <1>2 DEF LedgerShapes
    <2>. QED BY <1>10, <1>14, <2>1
  <1>16. weighs \subseteq live /\ weighs \subseteq 1 .. n + 1 /\ weighs \in SUBSET Nat
         /\ weighs = Of(r.symbol, live, issued)
    <2>1. weighs \subseteq live
      BY <1>12 DEF Of
    <2>2. 1 .. n + 1 \subseteq Nat
      OBVIOUS
    <2>. QED BY <1>12, <1>15, <2>1, <2>2
  <1>17. /\ known \in Seq(Seq(Statuses)) /\ Len(known) = n + 1 /\ Accounted(known, live)
         /\ known[n + 1] = << >>
         /\ active = {} => \A i \in 1 .. n : known[i] = history[i]
    <2>1. history \in Seq(Seq(Statuses)) /\ Len(history) = n /\ Accounted(history, active)
      BY <1>0, <1>2 DEF LedgerShapes, SignalsAccounted, Accounted, Ids
    <2>2. {"EXPIRED", "SUPERSEDED"} \subseteq Statuses
      BY DEF Statuses
    <2>3. PICK one : one = Recorded(history, dead, "EXPIRED")
      OBVIOUS
    <2>4. /\ one \in Seq(Seq(Statuses)) /\ Len(one) = n /\ Accounted(one, active \ dead)
          /\ \A i \in 1 .. n : i \notin dead => one[i] = history[i]
      <3>1. "EXPIRED" \in Statuses
        BY <2>2
      <3>2. Accounted(Recorded(history, dead, "EXPIRED"), active \ dead)
        BY <2>1, <3>1, RecordingAccounts
      <3>3. /\ Recorded(history, dead, "EXPIRED") \in Seq(Seq(Statuses))
            /\ Len(Recorded(history, dead, "EXPIRED")) = n
            /\ \A i \in 1 .. n : i \notin dead => Recorded(history, dead, "EXPIRED")[i] = history[i]
        BY <2>1, <3>1, RecordedIs
      <3>. QED BY <2>3, <3>2, <3>3
    <2>5. PICK two : two = Recorded(one, twin, "SUPERSEDED")
      OBVIOUS
    <2>6. /\ two \in Seq(Seq(Statuses)) /\ Len(two) = n /\ Accounted(two, (active \ dead) \ twin)
          /\ \A i \in 1 .. n : i \notin twin => two[i] = one[i]
      <3>1. twin \in SUBSET (active \ dead) /\ "SUPERSEDED" \in Statuses
        BY <2>2
      <3>2. Accounted(Recorded(one, twin, "SUPERSEDED"), (active \ dead) \ twin)
        BY <2>4, <3>1, RecordingAccounts
      <3>3. /\ Recorded(one, twin, "SUPERSEDED") \in Seq(Seq(Statuses))
            /\ Len(Recorded(one, twin, "SUPERSEDED")) = n
            /\ \A i \in 1 .. n : i \notin twin => Recorded(one, twin, "SUPERSEDED")[i] = one[i]
        <4>1. one \in Seq(Seq(Statuses)) /\ Len(one) = n
          BY <2>4
        <4>. QED BY <3>1, <4>1, RecordedIs
      <3>. QED BY <2>5, <3>2, <3>3
    <2>7. known = Append(two, << >>)
      BY <1>11, <2>3, <2>5
    <2>8. /\ known \in Seq(Seq(Statuses)) /\ Len(known) = n + 1 /\ known[n + 1] = << >>
          /\ \A i \in 1 .. n : known[i] = two[i]
      <3>1. << >> \in Seq(Statuses)
        OBVIOUS
      <3>. QED BY <2>6, <2>7, <3>1
    <2>9. Accounted(known, live)
      <3>1. \A i \in 1 .. n : i \in live <=> i \in (active \ dead) \ twin
        BY <1>10, <1>14
      <3>2. n + 1 \in live /\ Len(<< >>) = 0
        BY <1>10
      <3>3. ASSUME NEW i \in 1 .. n + 1 PROVE Len(known[i]) = IF i \in live THEN 0 ELSE 1
        <4>1. CASE i \in 1 .. n
          BY <2>6, <2>8, <3>1, <4>1 DEF Accounted
        <4>2. CASE i = n + 1
          BY <2>8, <3>2, <4>2
        <4>. QED BY <1>14, <4>1, <4>2
      <3>. QED BY <2>8, <3>3 DEF Accounted
    <2>10. ASSUME active = {} PROVE \A i \in 1 .. n : known[i] = history[i]
      <3>1. dead = {} /\ twin = {}
        BY <2>10
      <3>. QED BY <2>4, <2>6, <2>8, <3>1
    <2>. QED BY <2>8, <2>9, <2>10
  <1>18. \A k \in 1 .. Len(decisions) : decisions[k].weighs \subseteq 1 .. n + 1
    BY <1>0, <1>2, <1>14 DEF LedgerShapes
  <1>19. /\ instances' = instances /\ Len(instances') \in Nat /\ Len(signals') \in Nat
         /\ Len(signals) \in Nat
         /\ Len(instances) =< Len(instances') /\ Len(signals) =< Len(signals')
    BY <1>1, <1>2, <1>13, <1>14 DEF wiring
  <1>20. CASE r.symbol \in quoted
    <2>1. PICK ruling \in Ruling :
           /\ decisions' = Append(decisions, ruling)
           /\ ruling.symbol = r.symbol /\ ruling.at = now /\ ruling.weighs = weighs
           /\ ruling.accepted => ~Correlated(r.symbol, now, decisions, Desk)
           /\ active' = live \ Of(r.symbol, live, issued)
           /\ history' = Recorded(known, Of(r.symbol, live, issued),
                                  IF ruling.accepted THEN "ACCEPTED" ELSE "REJECTED")
      <3>1. Decide(r.symbol, weighs, now, live, issued, known)
        BY <1>13, <1>20
      <3>2. r.symbol \in Instruments /\ weighs \in SUBSET Nat /\ now \in Int
        BY <1>1, <1>16
      <3>3. Ruled(r.symbol, weighs, now, live, issued, known)
        BY <3>1, <3>2, DecideGives
      <3>. QED BY <3>3 DEF Ruled
    <2>2. PICK status \in Statuses : status = IF ruling.accepted THEN "ACCEPTED" ELSE "REJECTED"
      BY DEF Statuses
    <2>3. active' = live \ weighs /\ history' = Recorded(known, weighs, status)
      BY <1>16, <2>1, <2>2
    <2>4. /\ history' \in Seq(Seq(Statuses)) /\ Len(history') = n + 1
          /\ \A i \in 1 .. n + 1 : /\ i \in weighs => history'[i] = Append(known[i], status)
                                   /\ i \notin weighs => history'[i] = known[i]
          /\ Accounted(history', active')
      <3>1. weighs \in SUBSET live /\ known \in Seq(Seq(Statuses)) /\ Accounted(known, live)
        BY <1>16, <1>17
      <3>2. Accounted(Recorded(known, weighs, status), live \ weighs)
        BY <3>1, RecordingAccounts
      <3>3. LET g == Recorded(known, weighs, status)
            IN  /\ g \in Seq(Seq(Statuses)) /\ Len(g) = Len(known)
                /\ \A i \in 1 .. Len(known) : /\ i \in weighs => g[i] = Append(known[i], status)
                                              /\ i \notin weighs => g[i] = known[i]
        BY <3>1, RecordedIs
      <3>. QED BY <1>17, <2>3, <3>2, <3>3
    <2>5. LedgerShapes'
      <3>1. decisions \in Seq(Ruling)
        BY <1>0 DEF LedgerShapes
      <3>2. /\ decisions' \in Seq(Ruling) /\ Len(decisions') = Len(decisions) + 1
            /\ decisions'[Len(decisions) + 1] = ruling
            /\ \A k \in 1 .. Len(decisions) : decisions'[k] = decisions[k]
            /\ \A k \in 1 .. Len(decisions) + 1 : k \in 1 .. Len(decisions) \/ k = Len(decisions) + 1
        BY <2>1, <3>1, DecisionAdded
      <3>3. \A k \in 1 .. Len(decisions') : decisions'[k].weighs \subseteq 1 .. n + 1
        BY <1>16, <1>18, <2>1, <3>2
      <3>. QED BY <1>0, <1>13, <1>14, <1>15, <1>20, <2>3, <2>4, <3>2, <3>3 DEF LedgerShapes
    <2>6. SignalsAccounted'
      BY <1>14, <2>4 DEF SignalsAccounted, Ids, Accounted
    <2>7. PICK more : /\ more = Rest(r)
                      /\ more = {} \/ \E e \in Inquiry : /\ more = {e} /\ e.inst = r.inst
                                                         /\ e.weighs = {} /\ e.at = "spawned"
      BY <1>1, RestIsOne
    <2>8. runs' = (runs \ {r}) \union more
      BY <1>13, <1>20, <2>7
    <2>9. RunShapes'
      <3>1. more = {} \/ \E e \in Inquiry : /\ more = {e} /\ e.inst \in 1 .. Len(instances')
                                            /\ e.weighs \subseteq 1 .. Len(signals')
        BY <1>1, <1>19, <2>7
      <3>. QED BY <1>0, <1>1, <1>19, <2>8, <3>1, OneForOne
    <2>10. ASSUME "suspended" \notin lapses
           PROVE  active' = {} /\ DecidedOnce' /\ OneVoice' /\ CorrelatedApart'
      <3>1. active = {} /\ live = {n + 1}
        BY <1>0, <1>10, <2>10 DEF Prompt
      <3>2. weighs = {n + 1}
        <4>1. issued[n + 1].symbol = r.symbol
          BY <1>6, <1>13, <1>14
        <4>. QED BY <1>16, <3>1, <4>1 DEF Of
      <3>3. /\ \A i \in 1 .. n : history'[i] = history[i]
            /\ history'[n + 1] = <<status>>
        <4>1. n + 1 \in 1 .. n + 1 /\ Append(<< >>, status) = <<status>>
          BY <1>2
        <4>. QED BY <1>14, <1>17, <2>4, <3>1, <3>2, <4>1
      <3>4. signals' = Append(signals, issue) /\ lapses' = lapses
        BY <1>7, <1>13, <1>20
      <3>5. DecidedOnce' /\ OneVoice' /\ CorrelatedApart'
        BY <1>2, <1>6, <2>1, <2>2, <2>10, <3>2, <3>3, <3>4, PromptDecision
      <3>. QED BY <2>3, <3>1, <3>2, <3>5
    <2>11. lapses' = lapses
      BY <1>13, <1>20
    <2>12. DecidedOnce' /\ OneVoice' /\ CorrelatedApart'
      <3>1. CASE "suspended" \in lapses
        BY <2>11, <3>1 DEF DecidedOnce, OneVoice, CorrelatedApart
      <3>. QED BY <2>10, <3>1
    <2>13. Prompt'
      <3>1. \A q \in runs' : q \in runs \/ q.at # "judging"
        BY <2>7, <2>8
      <3>. QED BY <1>0, <2>10, <2>11, <3>1 DEF Prompt
    <2>14. WiringShapes' /\ JobsMatchStrategies'
      BY <1>13, WiringStays
    <2>. QED BY <2>5, <2>6, <2>9, <2>12, <2>13, <2>14 DEF FlowInv, FlowShapes
  <1>21. CASE r.symbol \notin quoted
    <2>1. PICK e : e = [r EXCEPT !.at = "judging", !.since = now, !.weighs = weighs]
      OBVIOUS
    <2>2. e = [inst |-> r.inst, via |-> r.via, symbol |-> r.symbol, todo |-> r.todo,
               at |-> "judging", weighs |-> weighs, since |-> now]
      BY <1>1, <2>1 DEF Inquiry
    <2>3. e \in Inquiry /\ e.inst = r.inst /\ e.weighs = weighs
      BY <1>1, <1>16, <2>2 DEF Inquiry
    <2>4. /\ active' = live /\ history' = known /\ runs' = (runs \ {r}) \union {e}
          /\ lapses' = lapses \union {"suspended"} /\ decisions' = decisions
      BY <1>13, <1>21, <2>1
    <2>5. RunShapes'
      <3>1. \E f \in Inquiry : /\ {e} = {f} /\ f.inst \in 1 .. Len(instances')
                               /\ f.weighs \subseteq 1 .. Len(signals')
        BY <1>1, <1>14, <1>16, <1>19, <2>3
      <3>2. PICK more : more = {e}
        OBVIOUS
      <3>. QED BY <1>0, <1>1, <1>19, <2>4, <3>1, <3>2, OneForOne
    <2>6. LedgerShapes'
      BY <1>0, <1>13, <1>14, <1>15, <1>17, <1>18, <2>4 DEF LedgerShapes
    <2>7. SignalsAccounted'
      BY <1>14, <1>17, <2>4 DEF SignalsAccounted, Ids, Accounted
    <2>8. Prompt' /\ DecidedOnce' /\ OneVoice' /\ CorrelatedApart'
      BY <2>4 DEF Prompt, DecidedOnce, OneVoice, CorrelatedApart
    <2>9. WiringShapes' /\ JobsMatchStrategies'
      BY <1>13, WiringStays
    <2>. QED BY <2>5, <2>6, <2>7, <2>8, <2>9 DEF FlowInv, FlowShapes
  <1>. QED BY <1>20, <1>21

LEMMA JudgeKeeps == ASSUME FlowInv, NEW r \in runs, Judge(r) PROVE FlowInv'
  <1>0. WiringShapes /\ RunShapes /\ LedgerShapes /\ Prompt /\ SignalsAccounted
    BY DEF FlowInv, FlowShapes
  <1>1. /\ r \in Inquiry /\ r.inst \in 1 .. Len(instances) /\ r.symbol \in Instruments
        /\ r.weighs \in SUBSET Nat /\ r.weighs \subseteq 1 .. Len(signals) /\ r.since \in Int
        /\ Len(instances) \in Nat /\ Len(signals) \in Nat /\ decisions \in Seq(Ruling)
    BY <1>0 DEF RunShapes, WiringShapes, LedgerShapes, Inquiry
  <1>2. /\ r.at = "judging" /\ Decide(r.symbol, r.weighs, r.since, active, signals, history)
        /\ runs' = (runs \ {r}) \union Rest(r)
        /\ UNCHANGED <<now, wiring, signals, quoted, lapses>>
    BY DEF Judge
  <1>3. "suspended" \in lapses /\ lapses' = lapses
    BY <1>0, <1>2 DEF Prompt
  <1>4. PICK ruling \in Ruling :
           /\ decisions' = Append(decisions, ruling)
           /\ ruling.symbol = r.symbol /\ ruling.at = r.since /\ ruling.weighs = r.weighs
           /\ ruling.accepted => ~Correlated(r.symbol, now, decisions, Desk)
           /\ active' = active \ Of(r.symbol, active, signals)
           /\ history' = Recorded(history, Of(r.symbol, active, signals),
                                  IF ruling.accepted THEN "ACCEPTED" ELSE "REJECTED")
    <2>1. Ruled(r.symbol, r.weighs, r.since, active, signals, history)
      BY <1>1, <1>2, DecideGives
    <2>. QED BY <2>1 DEF Ruled
  <1>5. PICK status \in Statuses : status = IF ruling.accepted THEN "ACCEPTED" ELSE "REJECTED"
    BY DEF Statuses
  <1>6. PICK ids \in SUBSET active : ids = Of(r.symbol, active, signals)
    BY DEF Of
  <1>7. active' = active \ ids /\ history' = Recorded(history, ids, status)
    BY <1>4, <1>5, <1>6
  <1>8. history \in Seq(Seq(Statuses)) /\ Len(history) = Len(signals) /\ Accounted(history, active)
    <2>1. history \in Seq(Seq(Statuses)) /\ Len(history) = Len(signals)
      BY <1>0 DEF LedgerShapes
    <2>2. DOMAIN signals = 1 .. Len(history)
      BY <1>0, <1>1, <2>1 DEF LedgerShapes
    <2>. QED BY <1>0, <2>1, <2>2 DEF SignalsAccounted, Accounted, Ids
  <1>9. history' \in Seq(Seq(Statuses)) /\ Len(history') = Len(signals) /\ Accounted(history', active')
    <2>1. Accounted(Recorded(history, ids, status), active \ ids)
      BY <1>8, RecordingAccounts
    <2>2. /\ Recorded(history, ids, status) \in Seq(Seq(Statuses))
          /\ Len(Recorded(history, ids, status)) = Len(history)
      BY <1>8, RecordedIs
    <2>. QED BY <1>7, <1>8, <2>1, <2>2
  <1>10. LedgerShapes'
    <2>1. /\ decisions' \in Seq(Ruling) /\ Len(decisions') = Len(decisions) + 1
          /\ decisions'[Len(decisions) + 1] = ruling
          /\ \A k \in 1 .. Len(decisions) : decisions'[k] = decisions[k]
          /\ \A k \in 1 .. Len(decisions) + 1 : k \in 1 .. Len(decisions) \/ k = Len(decisions) + 1
      BY <1>1, <1>4, DecisionAdded
    <2>2. \A k \in 1 .. Len(decisions') : decisions'[k].weighs \subseteq 1 .. Len(signals)
      BY <1>0, <1>1, <1>4, <2>1 DEF LedgerShapes
    <2>. QED BY <1>0, <1>2, <1>3, <1>7, <1>9, <2>1, <2>2 DEF LedgerShapes
  <1>11. SignalsAccounted'
    <2>1. DOMAIN signals' = 1 .. Len(signals) /\ Len(history') = Len(signals)
      BY <1>0, <1>2, <1>9 DEF LedgerShapes
    <2>. QED BY <1>9, <2>1 DEF SignalsAccounted, Ids, Accounted
  <1>12. PICK more : /\ more = Rest(r)
                     /\ more = {} \/ \E e \in Inquiry : /\ more = {e} /\ e.inst = r.inst
                                                        /\ e.weighs = {} /\ e.at = "spawned"
    BY <1>1, RestIsOne
  <1>13. RunShapes'
    <2>1. /\ instances' = instances /\ signals' = signals
          /\ Len(instances') \in Nat /\ Len(signals') \in Nat
          /\ Len(instances) =< Len(instances') /\ Len(signals) =< Len(signals')
      BY <1>1, <1>2 DEF wiring
    <2>2. more = {} \/ \E e \in Inquiry : /\ more = {e} /\ e.inst \in 1 .. Len(instances')
                                          /\ e.weighs \subseteq 1 .. Len(signals')
      BY <1>1, <1>12, <2>1
    <2>3. runs' = (runs \ {r}) \union more
      BY <1>2, <1>12
    <2>. QED BY <1>0, <1>1, <2>1, <2>2, <2>3, OneForOne
  <1>14. Prompt' /\ DecidedOnce' /\ OneVoice' /\ CorrelatedApart'
    BY <1>3 DEF Prompt, DecidedOnce, OneVoice, CorrelatedApart
  <1>. QED BY <1>2, <1>10, <1>11, <1>13, <1>14, WiringStays DEF FlowInv, FlowShapes

LEMMA InspectKeeps == FlowInv /\ Inspect => FlowInv'
  <1> SUFFICES ASSUME FlowInv, Inspect PROVE FlowInv'
    OBVIOUS
  <1>0. WiringShapes /\ RunShapes /\ LedgerShapes /\ Prompt /\ SignalsAccounted
    BY DEF FlowInv, FlowShapes
  <1>1. PICK ids \in SUBSET active : ids = Dead(active)
    BY DEF Dead
  <1>2. /\ ids # {} /\ active' = active \ ids /\ history' = Recorded(history, ids, "EXPIRED")
        /\ UNCHANGED <<now, wiring, runs, signals, decisions, quoted, lapses>>
    BY <1>1 DEF Inspect
  <1>3. "suspended" \in lapses /\ lapses' = lapses
    BY <1>0, <1>2 DEF Prompt
  <1>4. history \in Seq(Seq(Statuses)) /\ Len(history) = Len(signals) /\ Accounted(history, active)
    <2>1. history \in Seq(Seq(Statuses)) /\ Len(history) = Len(signals)
      BY <1>0 DEF LedgerShapes
    <2>2. Ids = 1 .. Len(history)
      BY <2>1 DEF Ids
    <2>. QED BY <1>0, <2>1, <2>2 DEF SignalsAccounted, Accounted
  <1>5. history' \in Seq(Seq(Statuses)) /\ Len(history') = Len(signals) /\ Accounted(history', active')
    <2>0. "EXPIRED" \in Statuses
      BY DEF Statuses
    <2>1. Accounted(Recorded(history, ids, "EXPIRED"), active \ ids)
      BY <1>4, <2>0, RecordingAccounts
    <2>2. /\ Recorded(history, ids, "EXPIRED") \in Seq(Seq(Statuses))
          /\ Len(Recorded(history, ids, "EXPIRED")) = Len(history)
      BY <1>4, <2>0, RecordedIs
    <2>. QED BY <1>2, <1>4, <2>1, <2>2
  <1>6. LedgerShapes'
    BY <1>0, <1>2, <1>3, <1>5 DEF LedgerShapes
  <1>7. SignalsAccounted'
    <2>1. DOMAIN signals' = 1 .. Len(signals) /\ Len(history') = Len(signals)
      BY <1>0, <1>2, <1>5 DEF LedgerShapes
    <2>. QED BY <1>5, <2>1 DEF SignalsAccounted, Ids, Accounted
  <1>8. RunShapes'
    <2>1. instances' = instances
      BY <1>2 DEF wiring
    <2>. QED BY <1>0, <1>2, <2>1 DEF RunShapes
  <1>9. Prompt' /\ DecidedOnce' /\ OneVoice' /\ CorrelatedApart'
    BY <1>3 DEF Prompt, DecidedOnce, OneVoice, CorrelatedApart
  <1>. QED BY <1>2, <1>6, <1>7, <1>8, <1>9, WiringStays DEF FlowInv, FlowShapes

LEMMA FlowTickKeeps == FlowInv /\ (Tick \/ UNCHANGED flowVars) => FlowInv'
  <1> SUFFICES ASSUME FlowInv, Tick \/ UNCHANGED flowVars PROVE FlowInv'
    OBVIOUS
  <1>0. WiringShapes /\ RunShapes /\ LedgerShapes /\ Prompt
    BY DEF FlowInv, FlowShapes
  <1>1. UNCHANGED <<wiring, runs, ledger, quoted, lapses>> /\ now' \in 0 .. MaxTime
    BY <1>0, FlowConstants DEF Tick, flowVars, LedgerShapes
  <1>2. RunShapes'
    BY <1>0, <1>1 DEF RunShapes, wiring, ledger
  <1>3. Prompt'
    BY <1>0, <1>1 DEF Prompt, ledger
  <1>. QED BY <1>1, <1>2, <1>3, LedgerStays, WiringStays DEF FlowInv, FlowShapes

LEMMA FlowInductive == FlowInv /\ [FlowNext]_flowVars => FlowInv'
  <1> SUFFICES ASSUME FlowInv, [FlowNext]_flowVars PROVE FlowInv'
    OBVIOUS
  <1>1. CASE Start \/ Stop \/ Inspect \/ Tick \/ UNCHANGED flowVars
    BY <1>1, StartKeeps, StopKeeps, InspectKeeps, FlowTickKeeps
  <1>2. CASE \E s \in Strategies : Load(s)
    BY <1>2, LoadKeeps
  <1>3. CASE \E i \in loaded : Unload(i) \/ Timer(i)
    BY <1>3, UnloadKeeps, TimerKeeps
  <1>4. CASE \E kind \in {"tick", "candle"}, symbol \in Instruments : Event(kind, symbol)
    BY <1>4, EventKeeps
  <1>5. CASE \E r \in runs : RunStep(r)
    BY <1>5, BeginOrPassKeeps, RefusedKeeps, AdmittedKeeps, JudgeKeeps DEF RunStep
  <1>. QED BY <1>1, <1>2, <1>3, <1>4, <1>5 DEF FlowNext

(* From a strategy to a decision (signal_engine/engine.py:53-200,            *)
(* decision_engine/engine.py:69-197): every signal is recorded once, and     *)
(* until a decision is suspended each is weighed alone, while it lives, and  *)
(* correlated symbols are kept apart; jobs are those of what is loaded.      *)
THEOREM SignalsAreDecided == FlowSpec => []DecisionsHold
  <1>1. FlowInv => DecisionsHold
    BY ShapesAreTypes DEF FlowInv, DecisionsHold
  <1>. QED BY <1>1, FlowBegins, FlowInductive, PTL DEF FlowSpec

-----------------------------------------------------------------------------
(* From a trade to a row: the shapes of what is held on the way.             *)

Msg    == [id : Nat, ts : Nat, price : Nat]
Candle == [start : Int, pts : SUBSET Msg, n : Nat,
           src : {"none", "built", "bar", "history"}]
Rows   == Msg \union Candle

FeedShapes ==
  /\ mode \in Modes /\ mode \in {"trades", "quotes", "bars"}
  /\ clock \in 0 .. MaxClock /\ sent \in 0 .. MaxSent /\ failures \in 0 .. MaxFailures
  /\ source \in Msg /\ pending \in Seq(Msg) /\ Len(pending) =< 1
  /\ track \in [ts : Int, price : Nat, ids : Seq(Nat)] /\ Len(track.ids) =< Remembered
  /\ accepted \in SUBSET Msg /\ up \in BOOLEAN
  /\ slips \subseteq {"untimely", "raced", "overflow", "disk", "cancelled"}

CandleShapes ==
  /\ worker \in [at : {"idle", "caching", "emitting"}, msg : Rows, candle : Candle]
  /\ flusher \in [at : {"idle", "emitting"}, candle : Candle]
  /\ worker.at = "caching" => worker.msg \in Msg
  /\ (worker.at # "emitting" => worker.candle = None) /\ (worker.at = "emitting" => worker.candle # None)
  /\ (flusher.at # "emitting" => flusher.candle = None) /\ (flusher.at = "emitting" => flusher.candle # None)
  /\ backfill \in [at : {"asked", "priming", "done"}, todo : Seq(Candle)]
  /\ (backfill.at = "asked" => WarmUp > 0) /\ (backfill.at = "priming" => backfill.todo # << >>)
  /\ building \in Candle /\ closed \in Seq(Candle)
  /\ series \in Seq(Candle) /\ Len(series) =< HistoryLimit
  /\ ~up => worker = Idle /\ flusher.at = "idle" /\ backfill.at = "done"

WriterShapes ==
  /\ ticks \in Seq(Msg) /\ candles \in Seq(Candle)
  /\ Len(ticks) =< BufferLimit /\ Len(candles) =< BufferLimit
  /\ writer \in [at : {"asleep", "ticks", "candles", "last", "last_ticks", "last_candles", "stopped"},
                 batch : Seq(Rows)]
  /\ Len(writer.batch) =< BatchSize /\ (~BatchIn => writer.batch = << >>)
  /\ kept \in [db : SUBSET Rows, spill : SUBSET Rows, ignored : SUBSET Rows, lost : SUBSET Rows]

TapeShapes == FeedShapes /\ CandleShapes /\ WriterShapes

-----------------------------------------------------------------------------
(* Buckets of time.                                                          *)

LEMMA TapeConstants ==
  /\ Bucket \in Nat \ {0} /\ Remembered \in Nat \ {0} /\ HistoryLimit \in Nat \ {0}
  /\ BufferLimit \in Nat \ {0} /\ BatchSize \in Nat \ {0}
  /\ Grace \in Nat /\ FutureTolerance \in Nat /\ MaxJump \in Nat /\ WarmUp \in Nat
  /\ MaxClock \in Nat /\ MaxSent \in Nat /\ MaxFailures \in Nat /\ Bucket =< MaxClock
  /\ Prices \subseteq Nat /\ \E p \in Prices : p > 0
  BY TapeAssumption

(* The bucket of a moment begins at a multiple of its length, not later than *)
(* the moment and less than a length before it; nothing else does.           *)
Multiple(s) == \E k \in Nat : s = Bucket * k

LEMMA BucketBounds ==
  ASSUME NEW t \in Nat
  PROVE  BucketOf(t) \in Nat /\ BucketOf(t) =< t /\ t < BucketOf(t) + Bucket /\ Multiple(BucketOf(t))
  <1>1. Bucket \in Nat /\ Bucket > 0
    BY TapeConstants
  <1>2. /\ t % Bucket \in Nat /\ t % Bucket < Bucket /\ t \div Bucket \in Nat
        /\ t = Bucket * (t \div Bucket) + (t % Bucket)
    BY <1>1
  <1>3. PICK q \in Nat : q = t \div Bucket
    BY <1>2
  <1>4. BucketOf(t) = Bucket * q
    BY <1>1, <1>2, <1>3 DEF BucketOf
  <1>5. Bucket * q \in Nat
    BY <1>1, <1>3
  <1>. QED BY <1>1, <1>2, <1>3, <1>4, <1>5 DEF Multiple

LEMMA MultiplesApart ==
  ASSUME NEW a, NEW b, Multiple(a), Multiple(b), a < b
  PROVE  a \in Nat /\ b \in Nat /\ a + Bucket =< b /\ Multiple(b - Bucket)
  <1>1. Bucket \in Nat /\ Bucket > 0
    BY TapeConstants
  <1>2. PICK j \in Nat : a = Bucket * j
    BY DEF Multiple
  <1>3. PICK k \in Nat : b = Bucket * k
    BY DEF Multiple
  <1>4. Bucket * j \in Nat /\ Bucket * k \in Nat
    BY <1>1
  <1>5. j + 1 =< k
    <2>1. ASSUME k =< j PROVE FALSE
      <3>1. Bucket * k =< Bucket * j
        BY <1>1, <2>1
      <3>. QED BY <1>2, <1>3, <1>4, <3>1
    <2>. QED BY <2>1
  <1>6. Bucket * (j + 1) =< Bucket * k /\ Bucket * (j + 1) = Bucket * j + Bucket
    BY <1>1, <1>5
  <1>7. k - 1 \in Nat /\ Bucket * (k - 1) = Bucket * k - Bucket
    BY <1>1, <1>5
  <1>8. Multiple(b - Bucket)
    BY <1>3, <1>7 DEF Multiple
  <1>. QED BY <1>1, <1>2, <1>3, <1>4, <1>6, <1>8

LEMMA BucketIs ==
  ASSUME NEW t \in Nat, NEW s, Multiple(s), s =< t, t < s + Bucket
  PROVE  BucketOf(t) = s
  <1>1. Bucket \in Nat /\ s \in Nat
    BY TapeConstants DEF Multiple
  <1>2. PICK b \in Nat : b = BucketOf(t) /\ Multiple(b) /\ b =< t /\ t < b + Bucket
    BY BucketBounds
  <1>3. ~(s < b)
    BY <1>1, <1>2, MultiplesApart
  <1>4. ~(b < s)
    BY <1>1, <1>2, MultiplesApart
  <1>. QED BY <1>1, <1>2, <1>3, <1>4

(* Time never takes a bucket back.                                           *)
LEMMA BucketsGrow ==
  ASSUME NEW t \in Nat, NEW s, Multiple(s), s =< t
  PROVE  s =< BucketOf(t)
  <1>1. Bucket \in Nat /\ s \in Nat
    BY TapeConstants DEF Multiple
  <1>2. PICK b \in Nat : b = BucketOf(t) /\ Multiple(b) /\ b =< t /\ t < b + Bucket
    BY BucketBounds
  <1>3. ~(b < s)
    BY <1>1, <1>2, MultiplesApart
  <1>. QED BY <1>1, <1>2, <1>3
-----------------------------------------------------------------------------
(* Buffers and batches.                                                      *)

LEMMA TailIs ==
  ASSUME NEW S, NEW s \in Seq(S), s # << >>
  PROVE  /\ Len(s) \in Nat /\ Len(s) >= 1 /\ Head(s) \in S /\ Head(s) = s[1]
         /\ Tail(s) \in Seq(S) /\ Len(Tail(s)) = Len(s) - 1
         /\ \A i \in 1 .. Len(s) - 1 : Tail(s)[i] = s[i + 1]
  <1>1. Len(s) \in Nat /\ Len(s) >= 1
    OBVIOUS
  <1>2. Tail(s) \in Seq(S) /\ Len(Tail(s)) = Len(s) - 1 /\ Head(s) = s[1]
    BY <1>1
  <1>3. \A i \in 1 .. Len(s) - 1 : Tail(s)[i] = s[i + 1]
    BY <1>1
  <1>. QED BY <1>1, <1>2, <1>3

LEMMA AppendIs ==
  ASSUME NEW S, NEW s \in Seq(S), NEW x \in S
  PROVE  /\ Append(s, x) \in Seq(S) /\ Len(s) \in Nat /\ Len(Append(s, x)) = Len(s) + 1
         /\ \A i \in 1 .. Len(s) : Append(s, x)[i] = s[i]
         /\ Append(s, x)[Len(s) + 1] = x
  OBVIOUS

(* A buffer takes a row; at its limit the oldest goes.                       *)
LEMMA BufferedIs ==
  ASSUME NEW S, NEW s \in Seq(S), NEW x \in S, Len(s) =< BufferLimit
  PROVE  Buffered(s, x) \in Seq(S) /\ Len(Buffered(s, x)) =< BufferLimit
  <1>1. BufferLimit \in Nat /\ BufferLimit >= 1
    BY TapeConstants
  <1>2. CASE Full(s)
    <2>1. s # << >>
      BY <1>1, <1>2 DEF Full
    <2>2. PICK t \in Seq(S) : t = Tail(s) /\ Len(t) = Len(s) - 1
      BY <2>1, TailIs
    <2>3. Buffered(s, x) = Append(t, x)
      BY <1>2, <2>2 DEF Buffered
    <2>. QED BY <1>1, <1>2, <2>2, <2>3, AppendIs DEF Full
  <1>3. CASE ~Full(s)
    <2>1. Buffered(s, x) = Append(s, x)
      BY <1>3 DEF Buffered
    <2>. QED BY <1>1, <1>3, <2>1, AppendIs DEF Full
  <1>. QED BY <1>2, <1>3

LEMMA StoredIs ==
  ASSUME NEW c \in Candle, series \in Seq(Candle), Len(series) =< HistoryLimit
  PROVE  Stored(c) \in Seq(Candle) /\ Len(Stored(c)) =< HistoryLimit
  <1>1. HistoryLimit \in Nat /\ HistoryLimit >= 1
    BY TapeConstants
  <1>2. CASE series # << >> /\ Last(series).start = c.start
    <2>1. Stored(c) = [series EXCEPT ![Len(series)] = c]
      BY <1>2 DEF Stored
    <2>. QED BY <1>2, <2>1
  <1>3. CASE ~(series # << >> /\ Last(series).start = c.start)
    <2>1. PICK s : s = Append(series, c)
      OBVIOUS
    <2>2. s \in Seq(Candle) /\ Len(s) = Len(series) + 1 /\ s # << >> /\ Len(series) \in Nat
      BY <2>1, AppendIs
    <2>3. Stored(c) = IF Len(s) > HistoryLimit THEN Tail(s) ELSE s
      BY <1>3, <2>1 DEF Stored
    <2>4. Tail(s) \in Seq(Candle) /\ Len(Tail(s)) = Len(s) - 1
      BY <2>2, TailIs
    <2>. QED BY <1>1, <2>2, <2>3, <2>4
  <1>. QED BY <1>2, <1>3

(* A batch is the oldest rows of a buffer, and leaves the others.            *)
LEMMA BatchIs ==
  ASSUME NEW S, NEW s \in Seq(S)
  PROVE  \E k \in 0 .. Len(s) :
           /\ k =< BatchSize
           /\ Batch(s) \in Seq(S) /\ Len(Batch(s)) = k
           /\ \A i \in 1 .. k : Batch(s)[i] = s[i]
           /\ Remaining(s) \in Seq(S) /\ Len(Remaining(s)) = Len(s) - k
           /\ \A i \in 1 .. Len(s) - k : Remaining(s)[i] = s[i + k]
  <1>1. BatchSize \in Nat /\ Len(s) \in Nat
    BY TapeConstants
  <1>2. PICK k \in 0 .. Len(s) : k = (IF Len(s) < BatchSize THEN Len(s) ELSE BatchSize)
    BY <1>1
  <1>3. k =< BatchSize /\ k \in Nat /\ k + 1 \in Nat
    BY <1>1, <1>2
  <1>4. Batch(s) = SubSeq(s, 1, k)
    BY <1>2 DEF Batch
  <1>5. SubSeq(s, 1, k) \in Seq(S) /\ Len(SubSeq(s, 1, k)) = k
    BY <1>1, <1>3
  <1>6. \A i \in 1 .. k : SubSeq(s, 1, k)[i] = s[i]
    BY <1>1, <1>3
  <1>7. Remaining(s) = SubSeq(s, k + 1, Len(s))
    BY <1>4, <1>5 DEF Remaining
  <1>8. SubSeq(s, k + 1, Len(s)) \in Seq(S) /\ Len(SubSeq(s, k + 1, Len(s))) = Len(s) - k
    BY <1>1, <1>3
  <1>9. \A i \in 1 .. Len(s) - k : SubSeq(s, k + 1, Len(s))[i] = s[i + k]
    BY <1>1, <1>3
  <1>10. Batch(s) \in Seq(S) /\ Len(Batch(s)) = k /\ \A i \in 1 .. k : Batch(s)[i] = s[i]
    BY <1>4, <1>5, <1>6
  <1>11. /\ Remaining(s) \in Seq(S) /\ Len(Remaining(s)) = Len(s) - k
         /\ \A i \in 1 .. Len(s) - k : Remaining(s)[i] = s[i + k]
    BY <1>7, <1>8, <1>9
  <1>. QED BY <1>3, <1>10, <1>11

-----------------------------------------------------------------------------
(* Every step keeps the shapes.                                              *)

LEMMA RowKinds ==
  /\ None \in Candle /\ None.pts = {} /\ None.n = 0
  /\ \A m \in Msg : m \notin Candle
  /\ \A m \in Msg : "pts" \notin DOMAIN m
  /\ \A c \in Candle : "pts" \in DOMAIN c
  <1>1. None \in Candle /\ None.pts = {} /\ None.n = 0
    BY DEF None, Candle
  <1>2. \A m \in Msg : "pts" \notin DOMAIN m
    BY DEF Msg
  <1>3. \A c \in Candle : "pts" \in DOMAIN c
    BY DEF Candle
  <1>. QED BY <1>1, <1>2, <1>3

LEMMA ShapesBegin == TapeInit => TapeShapes
  <1> SUFFICES ASSUME TapeInit PROVE TapeShapes
    OBVIOUS
  <1>1. PICK price \in Prices : price = CHOOSE p \in Prices : p > 0
    BY TapeConstants
  <1>2. source = [id |-> 0, ts |-> IF mode = "bars" THEN 0 ELSE Bucket, price |-> price]
    BY <1>1 DEF TapeInit
  <1>3. source \in Msg
    BY <1>2, TapeConstants DEF Msg
  <1>4. << >> \in Seq(Msg) /\ << >> \in Seq(Candle) /\ << >> \in Seq(Nat) /\ << >> \in Seq(Rows)
    OBVIOUS
  <1>5. FeedShapes
    <2>1. mode \in {"trades", "quotes", "bars"}
      BY TapeAssumption DEF TapeInit
    <2>2. track \in [ts : Int, price : Nat, ids : Seq(Nat)] /\ Len(track.ids) =< Remembered
      BY <1>4, TapeConstants DEF TapeInit
    <2>3. clock \in 0 .. MaxClock /\ sent \in 0 .. MaxSent /\ failures \in 0 .. MaxFailures
      BY TapeConstants DEF TapeInit
    <2>4. accepted \in SUBSET Msg /\ up \in BOOLEAN /\ slips = {} /\ mode \in Modes /\ pending = << >>
      BY DEF TapeInit
    <2>. QED BY <1>3, <1>4, <2>1, <2>2, <2>3, <2>4 DEF FeedShapes
  <1>6. CandleShapes
    <2>1. worker \in [at : {"idle", "caching", "emitting"}, msg : Rows, candle : Candle]
      BY RowKinds DEF TapeInit, Idle, Rows
    <2>2. flusher \in [at : {"idle", "emitting"}, candle : Candle]
      BY RowKinds DEF TapeInit
    <2>3. backfill \in [at : {"asked", "priming", "done"}, todo : Seq(Candle)]
      BY <1>4 DEF TapeInit
    <2>4. building \in Candle /\ closed \in Seq(Candle) /\ series \in Seq(Candle)
      BY <1>4, RowKinds DEF TapeInit
    <2>. QED BY <2>1, <2>2, <2>3, <2>4, TapeConstants DEF TapeInit, Idle, CandleShapes
  <1>7. WriterShapes
    <2>1. writer = [at |-> "asleep", batch |-> << >>] /\ ticks = << >> /\ candles = << >>
      BY DEF TapeInit
    <2>2. kept = [db |-> {}, spill |-> {}, ignored |-> {}, lost |-> {}]
      BY DEF TapeInit
    <2>. QED BY <1>4, <2>1, <2>2, TapeConstants DEF WriterShapes, BatchIn
  <1>. QED BY <1>5, <1>6, <1>7 DEF TapeShapes

LEMMA ClockKeepsShapes == TapeShapes /\ ClockTicks => TapeShapes'
  <1> SUFFICES ASSUME TapeShapes, ClockTicks PROVE TapeShapes'
    OBVIOUS
  <1>1. FeedShapes'
    BY TapeConstants DEF TapeShapes, FeedShapes, ClockTicks, feedVars
  <1>2. CandleShapes' /\ WriterShapes'
    BY DEF TapeShapes, CandleShapes, WriterShapes, ClockTicks, candleVars, writerVars, BatchIn
  <1>. QED BY <1>1, <1>2 DEF TapeShapes

LEMMA SendKeepsShapes ==
  ASSUME TapeShapes, NEW msg \in Msg, Send(msg), source' \in Msg
  PROVE  TapeShapes'
  <1>1. pending \in Seq(Msg) /\ pending = << >> /\ pending' = Append(pending, msg)
    BY DEF TapeShapes, FeedShapes, Send
  <1>2. pending' \in Seq(Msg) /\ Len(pending') = 1
    BY <1>1
  <1>3. FeedShapes'
    BY <1>2, TapeConstants DEF TapeShapes, FeedShapes, Send
  <1>4. CandleShapes' /\ WriterShapes'
    BY DEF TapeShapes, CandleShapes, WriterShapes, Send, candleVars, writerVars, BatchIn
  <1>. QED BY <1>3, <1>4 DEF TapeShapes

-----------------------------------------------------------------------------
(* What the venue sends next, in each mode.                                  *)
LEMMA SourceMoves ==
  ASSUME TapeShapes
  PROVE  /\ \A ts \in clock - Grace - 1 .. clock + FutureTolerance + 1, price \in Prices :
              Deal(ts, price) => /\ source' = [id |-> sent + 1, ts |-> ts, price |-> price]
                                 /\ source' \in Msg /\ Send(source') /\ mode = "trades"
         /\ DealAgain => source' = source /\ Send(source) /\ source.id > 0 /\ mode = "trades"
         /\ Poll => source' = source /\ Send(source) /\ mode = "quotes"
         /\ Quote => /\ mode = "quotes" /\ source' \in Msg
                     /\ source' = [id |-> sent + 1, ts |-> clock, price |-> source.price]
         /\ Bar => /\ mode = "bars" /\ source' \in Msg /\ source.ts < BucketOf(clock)
                   /\ source' = [id |-> sent + 1, ts |-> BucketOf(clock), price |-> source.price]
                   /\ \E m \in Msg : Send(m) /\ m.ts = BucketOf(clock) - Bucket /\ m.ts \in Nat
  <1>1. /\ source \in Msg /\ source = [id |-> source.id, ts |-> source.ts, price |-> source.price]
        /\ clock \in Nat /\ sent \in Nat /\ source.id \in Nat /\ source.ts \in Nat /\ source.price \in Nat
    BY TapeConstants DEF TapeShapes, FeedShapes, Msg
  <1>2. ASSUME NEW ts \in clock - Grace - 1 .. clock + FutureTolerance + 1, NEW price \in Prices,
               Deal(ts, price)
        PROVE  /\ source' = [id |-> sent + 1, ts |-> ts, price |-> price]
               /\ source' \in Msg /\ Send(source') /\ mode = "trades"
    <2>1. /\ source' = [id |-> sent + 1, ts |-> ts, price |-> price] /\ Send(source') /\ mode = "trades"
          /\ ts >= 0
      BY <1>2 DEF Deal
    <2>2. ts \in Nat /\ price \in Nat /\ sent + 1 \in Nat
      BY <1>1, <2>1, TapeConstants
    <2>3. source' \in Msg
      BY <2>1, <2>2 DEF Msg
    <2>. QED BY <2>1, <2>3
  <1>3. DealAgain => source' = source /\ Send(source) /\ source.id > 0 /\ mode = "trades"
    BY DEF DealAgain
  <1>4. Poll => source' = source /\ Send(source) /\ mode = "quotes"
    BY DEF Poll
  <1>5. ASSUME Quote
        PROVE  /\ mode = "quotes" /\ source' \in Msg
               /\ source' = [id |-> sent + 1, ts |-> clock, price |-> source.price]
    <2>1. source' = [source EXCEPT !.id = sent + 1, !.ts = clock] /\ mode = "quotes"
      BY <1>5 DEF Quote
    <2>2. source' = [id |-> sent + 1, ts |-> clock, price |-> source.price]
      BY <1>1, <2>1
    <2>3. source' \in Msg
      BY <1>1, <2>2 DEF Msg
    <2>. QED BY <2>1, <2>2, <2>3
  <1>6. ASSUME Bar
        PROVE  /\ mode = "bars" /\ source' \in Msg /\ source.ts < BucketOf(clock)
               /\ source' = [id |-> sent + 1, ts |-> BucketOf(clock), price |-> source.price]
               /\ \E m \in Msg : Send(m) /\ m.ts = BucketOf(clock) - Bucket /\ m.ts \in Nat
    <2>1. PICK b \in Nat : b = BucketOf(clock) /\ Multiple(b)
      BY <1>1, BucketBounds
    <2>2. /\ source' = [source EXCEPT !.id = sent + 1, !.ts = b] /\ mode = "bars" /\ source.ts < b
          /\ Send([source' EXCEPT !.ts = @ - Bucket])
      BY <1>6, <2>1 DEF Bar
    <2>3. source' = [id |-> sent + 1, ts |-> b, price |-> source.price]
      BY <1>1, <2>2
    <2>4. [source' EXCEPT !.ts = @ - Bucket] = [id |-> sent + 1, ts |-> b - Bucket, price |-> source.price]
      BY <2>3
    <2>5. Multiple(0)
      <3>1. 0 = Bucket * 0
        BY TapeConstants
      <3>. QED BY <3>1 DEF Multiple
    <2>6. b - Bucket \in Nat
      <3>1. 0 < b
        BY <1>1, <2>1, <2>2
      <3>2. 0 + Bucket =< b
        BY <2>1, <2>5, <3>1, MultiplesApart
      <3>. QED BY <2>1, <3>2, TapeConstants
    <2>7. PICK m : m = [id |-> sent + 1, ts |-> b - Bucket, price |-> source.price]
      OBVIOUS
    <2>8. m \in Msg /\ m.ts = b - Bucket /\ Send(m)
      BY <1>1, <2>2, <2>4, <2>6, <2>7 DEF Msg
    <2>9. source' \in Msg
      BY <1>1, <2>1, <2>3 DEF Msg
    <2>. QED BY <2>1, <2>2, <2>3, <2>6, <2>8, <2>9
  <1>. QED BY <1>2, <1>3, <1>4, <1>5, <1>6

LEMMA QuoteKeepsShapes == TapeShapes /\ Quote => TapeShapes'
  <1> SUFFICES ASSUME TapeShapes, Quote PROVE TapeShapes'
    OBVIOUS
  <1>1. source' \in Msg
    BY SourceMoves
  <1>2. FeedShapes'
    BY <1>1 DEF TapeShapes, FeedShapes, Quote
  <1>3. CandleShapes' /\ WriterShapes'
    BY DEF TapeShapes, CandleShapes, WriterShapes, Quote, candleVars, writerVars, BatchIn
  <1>. QED BY <1>2, <1>3 DEF TapeShapes

-----------------------------------------------------------------------------
(* What the worker does with what it takes.                                  *)

LEMMA TrackedIs ==
  ASSUME FeedShapes, NEW msg \in Msg
  PROVE  /\ Tracked(msg) \in [ts : Int, price : Nat, ids : Seq(Nat)]
         /\ Len(Tracked(msg).ids) =< Remembered
  <1>1. /\ track \in [ts : Int, price : Nat, ids : Seq(Nat)] /\ Len(track.ids) =< Remembered
        /\ track = [ts |-> track.ts, price |-> track.price, ids |-> track.ids]
        /\ msg.id \in Nat /\ msg.ts \in Nat /\ msg.price \in Nat /\ Remembered \in Nat
    BY TapeConstants DEF FeedShapes, Msg
  <1>2. PICK more : more = Append(track.ids, msg.id)
    OBVIOUS
  <1>3. more \in Seq(Nat) /\ Len(more) = Len(track.ids) + 1 /\ more # << >> /\ Len(track.ids) \in Nat
    BY <1>1, <1>2
  <1>4. Tail(more) \in Seq(Nat) /\ Len(Tail(more)) = Len(more) - 1
    BY <1>3, TailIs
  <1>5. Window(more) \in Seq(Nat) /\ Len(Window(more)) =< Remembered
    BY <1>1, <1>3, <1>4 DEF Window
  <1>6. PICK ids \in Seq(Nat) : /\ ids = (IF Duplicate(msg) THEN track.ids ELSE Window(more))
                                /\ Len(ids) =< Remembered
    BY <1>1, <1>5
  <1>7. CASE mode # "trades"
    BY <1>1, <1>7 DEF Tracked
  <1>8. CASE mode = "trades" /\ Discarded(msg)
    <2>1. Tracked(msg) = [ts |-> track.ts, price |-> track.price, ids |-> ids]
      BY <1>1, <1>2, <1>6, <1>8 DEF Tracked
    <2>. QED BY <1>1, <1>6, <2>1
  <1>9. CASE mode = "trades" /\ ~Discarded(msg)
    <2>1. PICK ts \in Int : ts = (IF msg.ts > track.ts THEN msg.ts ELSE track.ts)
      BY <1>1
    <2>2. Tracked(msg) = [ts |-> ts, price |-> msg.price, ids |-> ids]
      BY <1>2, <1>6, <1>9, <2>1 DEF Tracked
    <2>. QED BY <1>1, <1>6, <2>1, <2>2
  <1>. QED BY <1>7, <1>8, <1>9

(* What a step of the worker does, in each mode.                             *)
LEMMA TakeDoes ==
  ASSUME TapeShapes, Take
  PROVE  \E msg \in Msg :
    /\ Len(pending) = 1 /\ msg = pending[1] /\ pending' = << >> /\ track' = Tracked(msg)
    /\ up /\ worker.at = "idle" /\ worker.candle = None /\ backfill' = backfill /\ building' = building
    /\ flusher' = flusher /\ closed' = closed /\ candles' = candles /\ writer' = writer
    /\ source' = source /\ up' = up /\ mode' = mode /\ clock' = clock
    /\ sent' = sent /\ failures' = failures
    /\ \/ /\ Discarded(msg) \* nothing else
          /\ UNCHANGED <<accepted, worker, series, ticks, kept, slips>>
       \/ /\ ~Discarded(msg) /\ mode = "trades"
          /\ accepted' = accepted \union {msg} /\ ticks' = Buffered(ticks, msg)
          /\ kept' = [kept EXCEPT !.lost = @ \union Overflow(ticks)]
          /\ worker' = [at |-> "caching", msg |-> msg, candle |-> None]
          /\ slips' = IF Full(ticks) THEN slips \union {"overflow"} ELSE slips
          /\ series' = series
       \/ /\ ~Discarded(msg) /\ mode = "quotes"
          /\ accepted' = accepted \union {msg}
          /\ worker' = [at |-> "caching", msg |-> msg, candle |-> None]
          /\ UNCHANGED <<series, ticks, kept, slips>>
       \/ /\ ~Discarded(msg) /\ mode = "bars"
          /\ \E c \in Candle :
               /\ c = [start |-> BucketOf(msg.ts), pts |-> {msg}, n |-> 1, src |-> "bar"]
               /\ c # None /\ worker' = [at |-> "emitting", msg |-> None, candle |-> c]
               /\ series' = Stored(c)
          /\ slips' = IF backfill.at = "done" THEN slips ELSE slips \union {"raced"}
          /\ UNCHANGED <<accepted, ticks, kept>>
  <1>1. pending \in Seq(Msg) /\ Len(pending) =< 1 /\ pending # << >>
    BY DEF TapeShapes, FeedShapes, Take
  <1>2. PICK msg \in Msg : /\ msg = Head(pending) /\ msg = pending[1] /\ Len(pending) = 1
                           /\ Tail(pending) = << >>
    <2>1. /\ Len(pending) >= 1 /\ Len(pending) \in Nat /\ Head(pending) \in Msg
          /\ Head(pending) = pending[1] /\ Tail(pending) \in Seq(Msg)
          /\ Len(Tail(pending)) = Len(pending) - 1
      BY <1>1, TailIs
    <2>2. Len(pending) = 1
      BY <1>1, <2>1
    <2>3. Tail(pending) = << >>
      <3>1. Len(Tail(pending)) = 0
        BY <2>1, <2>2
      <3>. QED BY <2>1, <3>1, EmptySeq
    <2>. QED BY <2>1, <2>2, <2>3
  <1>3. PICK c : c = [start |-> BucketOf(msg.ts), pts |-> {msg}, n |-> 1, src |-> "bar"]
    OBVIOUS
  <1>4. c \in Candle /\ c # None
    <2>1. msg.ts \in Nat
      BY DEF Msg
    <2>2. BucketOf(msg.ts) \in Nat
      BY <2>1, BucketBounds
    <2>3. c \in Candle
      BY <1>3, <2>2 DEF Candle
    <2>4. c.n = 1
      BY <1>3
    <2>. QED BY <2>3, <2>4, RowKinds
  <1>5. worker.at = "idle" /\ worker.candle = None /\ mode \in {"trades", "quotes", "bars"}
    BY DEF TapeShapes, CandleShapes, FeedShapes, Take
  <1>7. /\ pending' = << >> /\ track' = Tracked(msg) /\ up /\ UNCHANGED <<backfill, building, flusher, closed>>
        /\ UNCHANGED <<candles, writer, source, up, mode, clock, sent, failures>>
    BY <1>2 DEF Take
  <1>8. CASE Discarded(msg)
    <2>1. UNCHANGED <<accepted, worker, series, ticks, kept, slips>>
      BY <1>2, <1>8 DEF Take
    <2>. QED BY <1>2, <1>5, <1>7, <1>8, <2>1
  <1>9. CASE ~Discarded(msg) /\ mode = "trades"
    <2>1. /\ accepted' = accepted \union {msg} /\ ticks' = Buffered(ticks, msg)
          /\ kept' = [kept EXCEPT !.lost = @ \union Overflow(ticks)]
          /\ worker' = [at |-> "caching", msg |-> msg, candle |-> None]
          /\ slips' = IF Full(ticks) THEN slips \union {"overflow"} ELSE slips
          /\ series' = series
      BY <1>2, <1>9 DEF Take
    <2>. QED BY <1>2, <1>5, <1>7, <1>9, <2>1
  <1>10. CASE ~Discarded(msg) /\ mode = "quotes"
    <2>1. /\ accepted' = accepted \union {msg}
          /\ worker' = [at |-> "caching", msg |-> msg, candle |-> None]
          /\ UNCHANGED <<series, ticks, kept, slips>>
      BY <1>2, <1>10 DEF Take
    <2>. QED BY <1>2, <1>5, <1>7, <1>10, <2>1
  <1>11. CASE ~Discarded(msg) /\ mode = "bars"
    <2>1. /\ worker' = [at |-> "emitting", msg |-> None, candle |-> c]
          /\ series' = Stored(c)
          /\ slips' = IF backfill.at = "done" THEN slips ELSE slips \union {"raced"}
          /\ UNCHANGED <<accepted, ticks, kept>>
      BY <1>2, <1>3, <1>11 DEF Take
    <2>. QED BY <1>2, <1>3, <1>4, <1>5, <1>7, <1>11, <2>1
  <1>. QED BY <1>5, <1>8, <1>9, <1>10, <1>11
Opening(msg) == [start |-> BucketOf(msg.ts), pts |-> {msg}, n |-> 1, src |-> "built"]

LEMMA OpeningIs == ASSUME NEW msg \in Msg
                   PROVE  Opening(msg) \in Candle /\ Opening(msg) # None /\ BucketOf(msg.ts) \in Nat
  <1>1. msg.ts \in Nat
    BY DEF Msg
  <1>2. BucketOf(msg.ts) \in Nat
    BY <1>1, BucketBounds
  <1>3. Opening(msg) \in Candle /\ Opening(msg).n = 1
    BY <1>2 DEF Opening, Candle
  <1>. QED BY <1>2, <1>3, RowKinds

LEMMA FoldDoes ==
  ASSUME TapeShapes, Fold
  PROVE  \E msg \in Msg :
    /\ msg = worker.msg /\ up /\ worker.at = "caching" /\ worker.candle = None
    /\ UNCHANGED <<mode, clock, failures, feedVars, flusher, backfill, closed, writerVars, up>>
    /\ \/ /\ Expired(msg.ts) /\ building # None /\ msg.ts >= building.start + Bucket
          /\ worker' = [at |-> "emitting", msg |-> None, candle |-> building]
          /\ series' = Stored(building) /\ building' = Opening(msg)
       \/ /\ ~Expired(msg.ts) /\ building = None
          /\ worker' = Idle /\ series' = series /\ building' = Opening(msg)
       \/ /\ ~Expired(msg.ts) /\ building # None /\ msg.ts < building.start + Bucket
          /\ worker' = Idle /\ series' = series
          /\ building' = [start |-> building.start, pts |-> building.pts \union {msg},
                          n |-> building.n + 1, src |-> building.src]
    /\ slips' = slips \union (IF Untimely(msg) THEN {"untimely"} ELSE {})
                      \union (IF Expired(msg.ts) /\ backfill.at # "done" THEN {"raced"} ELSE {})
  <1>1. worker.at = "caching" /\ worker.msg \in Msg /\ worker.candle = None /\ building \in Candle
    BY DEF TapeShapes, CandleShapes, Fold
  <1>2. PICK msg \in Msg : msg = worker.msg
    BY <1>1
  <1>3. /\ up /\ building' = Folded(building, msg)
        /\ UNCHANGED <<mode, clock, failures, feedVars, flusher, backfill, closed, writerVars, up>>
        /\ slips' = slips \union (IF Untimely(msg) THEN {"untimely"} ELSE {})
                          \union (IF Expired(msg.ts) /\ backfill.at # "done" THEN {"raced"} ELSE {})
    BY <1>2 DEF Fold
  <1>4. msg.ts \in Nat /\ building.start \in Int /\ building.n \in Nat /\ Bucket \in Nat
    BY <1>1, TapeConstants DEF Msg, Candle
  <1>5. CASE building = None \/ Expired(msg.ts)
    <2>1. building' = [Fresh(msg) EXCEPT !.pts = @ \union {msg}, !.n = @ + 1]
      BY <1>3, <1>5 DEF Folded
    <2>2. building' = Opening(msg)
      <3>1. Fresh(msg) \in Candle
        BY OpeningIs DEF Fresh, Candle
      <3>2. PICK f \in Candle : f = Fresh(msg)
        BY <3>1
      <3>3. f.start = BucketOf(msg.ts) /\ f.pts = {} /\ f.n = 0 /\ f.src = "built"
        BY <3>2 DEF Fresh
      <3>4. f = [start |-> f.start, pts |-> f.pts, n |-> f.n, src |-> f.src]
        BY DEF Candle
      <3>5. building' = [start |-> f.start, pts |-> f.pts \union {msg}, n |-> f.n + 1, src |-> f.src]
        BY <2>1, <3>2, <3>4
      <3>6. f.pts \union {msg} = {msg} /\ f.n + 1 = 1
        BY <3>3
      <3>. QED BY <3>3, <3>5, <3>6 DEF Opening
    <2>3. CASE Expired(msg.ts)
      <3>1. /\ worker' = [at |-> "emitting", msg |-> None, candle |-> building]
            /\ series' = Stored(building)
        BY <1>2, <2>3 DEF Fold
      <3>2. building # None /\ msg.ts >= building.start + Bucket
        BY <2>3 DEF Expired, EndOf
      <3>. QED BY <1>1, <1>2, <1>3, <2>2, <2>3, <3>1, <3>2
    <2>4. CASE ~Expired(msg.ts)
      <3>1. worker' = Idle /\ series' = series
        BY <1>2, <2>4 DEF Fold
      <3>. QED BY <1>1, <1>2, <1>3, <1>5, <2>2, <2>4, <3>1
    <2>. QED BY <2>3, <2>4
  <1>6. CASE building # None /\ ~Expired(msg.ts)
    <2>1. building' = [building EXCEPT !.pts = @ \union {msg}, !.n = @ + 1]
      BY <1>3, <1>6 DEF Folded
    <2>2. building = [start |-> building.start, pts |-> building.pts, n |-> building.n, src |-> building.src]
      BY <1>1 DEF Candle
    <2>3. building' = [start |-> building.start, pts |-> building.pts \union {msg},
                       n |-> building.n + 1, src |-> building.src]
      BY <2>1, <2>2
    <2>4. worker' = Idle /\ series' = series
      BY <1>2, <1>6 DEF Fold
    <2>5. msg.ts < building.start + Bucket
      BY <1>4, <1>6 DEF Expired, EndOf
    <2>. QED BY <1>1, <1>2, <1>3, <1>6, <2>3, <2>4, <2>5
  <1>. QED BY <1>5, <1>6

LEMMA FoldKeepsShapes == TapeShapes /\ Fold => TapeShapes'
  <1> SUFFICES ASSUME TapeShapes, Fold PROVE TapeShapes'
    OBVIOUS
  <1>1. PICK msg \in Msg :
    /\ msg = worker.msg /\ up /\ worker.at = "caching" /\ worker.candle = None
    /\ UNCHANGED <<mode, clock, failures, feedVars, flusher, backfill, closed, writerVars, up>>
    /\ \/ /\ Expired(msg.ts) /\ building # None /\ msg.ts >= building.start + Bucket
          /\ worker' = [at |-> "emitting", msg |-> None, candle |-> building]
          /\ series' = Stored(building) /\ building' = Opening(msg)
       \/ /\ ~Expired(msg.ts) /\ building = None
          /\ worker' = Idle /\ series' = series /\ building' = Opening(msg)
       \/ /\ ~Expired(msg.ts) /\ building # None /\ msg.ts < building.start + Bucket
          /\ worker' = Idle /\ series' = series
          /\ building' = [start |-> building.start, pts |-> building.pts \union {msg},
                          n |-> building.n + 1, src |-> building.src]
    /\ slips' = slips \union (IF Untimely(msg) THEN {"untimely"} ELSE {})
                      \union (IF Expired(msg.ts) /\ backfill.at # "done" THEN {"raced"} ELSE {})
    BY FoldDoes
  <1>2. FeedShapes'
    BY <1>1 DEF TapeShapes, FeedShapes, feedVars
  <1>3. WriterShapes'
    BY <1>1 DEF TapeShapes, WriterShapes, writerVars, BatchIn
  <1>4. building' \in Candle
    <2>1. building \in Candle
      BY DEF TapeShapes, CandleShapes
    <2>2. [start |-> building.start, pts |-> building.pts \union {msg},
           n |-> building.n + 1, src |-> building.src] \in Candle
      BY <2>1 DEF Candle
    <2>. QED BY <1>1, <2>2, OpeningIs
  <1>5. series' \in Seq(Candle) /\ Len(series') =< HistoryLimit
    BY <1>1, StoredIs DEF TapeShapes, CandleShapes
  <1>6. /\ worker' \in [at : {"idle", "caching", "emitting"}, msg : Rows, candle : Candle]
        /\ worker'.at # "caching" /\ (worker'.at = "emitting" => worker'.candle # None)
        /\ (worker'.at # "emitting" => worker'.candle = None)
    <2>1. CASE worker' = Idle
      BY <2>1, RowKinds DEF Idle, Rows
    <2>2. CASE worker' = [at |-> "emitting", msg |-> None, candle |-> building] /\ building # None
      <3>1. building \in Candle
        BY DEF TapeShapes, CandleShapes
      <3>. QED BY <2>2, <3>1, RowKinds DEF Rows
    <2>. QED BY <1>1, <2>1, <2>2
  <1>7. CandleShapes'
    BY <1>1, <1>4, <1>5, <1>6 DEF TapeShapes, CandleShapes
  <1>. QED BY <1>2, <1>3, <1>7 DEF TapeShapes

LEMMA FlushKeepsShapes == TapeShapes /\ FlushStale => TapeShapes'
  <1> SUFFICES ASSUME TapeShapes, FlushStale PROVE TapeShapes'
    OBVIOUS
  <1>1. building \in Candle /\ building # None /\ None \in Candle
    BY RowKinds DEF TapeShapes, CandleShapes, FlushStale, Overdue
  <1>2. /\ building' = None /\ flusher' = [at |-> "emitting", candle |-> building]
        /\ series' = Stored(building) /\ up
        /\ slips' = IF backfill.at = "done" THEN slips ELSE slips \union {"raced"}
        /\ UNCHANGED <<mode, clock, failures, feedVars, worker, backfill, closed, writerVars, up>>
    BY DEF FlushStale, Emptied
  <1>3. FeedShapes'
    BY <1>2 DEF TapeShapes, FeedShapes, feedVars
  <1>4. WriterShapes'
    BY <1>2 DEF TapeShapes, WriterShapes, writerVars, BatchIn
  <1>5. series' \in Seq(Candle) /\ Len(series') =< HistoryLimit
    BY <1>1, <1>2, StoredIs DEF TapeShapes, CandleShapes
  <1>6. flusher' \in [at : {"idle", "emitting"}, candle : Candle] /\ flusher'.at = "emitting" /\ flusher'.candle # None
    BY <1>1, <1>2
  <1>7. CandleShapes'
    BY <1>1, <1>2, <1>5, <1>6 DEF TapeShapes, CandleShapes
  <1>. QED BY <1>3, <1>4, <1>7 DEF TapeShapes

(* What an announcement does: the row is buffered, then the event.           *)
LEMMA EmitKeepsShapes ==
  ASSUME TapeShapes, NEW c \in Candle, Emit(c), up,
         \/ worker' = Idle /\ flusher' = flusher
         \/ flusher' = [at |-> "idle", candle |-> None] /\ worker' = worker
  PROVE  TapeShapes'
  <1>1. candles' \in Seq(Candle) /\ Len(candles') =< BufferLimit
    BY BufferedIs DEF TapeShapes, WriterShapes, Emit
  <1>2. closed' \in Seq(Candle)
    BY DEF TapeShapes, CandleShapes, Emit
  <1>3. kept' \in [db : SUBSET Rows, spill : SUBSET Rows, ignored : SUBSET Rows, lost : SUBSET Rows]
    <2>1. Overflow(candles) \subseteq Rows
      <3>1. CASE Full(candles)
        <4>1. candles \in Seq(Candle) /\ candles # << >>
          BY <3>1, TapeConstants DEF TapeShapes, WriterShapes, Full
        <4>2. Head(candles) \in Candle
          BY <4>1, TailIs
        <4>. QED BY <3>1, <4>2 DEF Overflow, Rows
      <3>2. CASE ~Full(candles)
        BY <3>2 DEF Overflow
      <3>. QED BY <3>1, <3>2
    <2>2. kept' = [kept EXCEPT !.lost = @ \union Overflow(candles)]
      BY DEF Emit
    <2>. QED BY <2>1, <2>2 DEF TapeShapes, WriterShapes
  <1>4. FeedShapes'
    BY DEF TapeShapes, FeedShapes, Emit, feedVars
  <1>5. WriterShapes'
    BY <1>1, <1>3 DEF TapeShapes, WriterShapes, Emit, BatchIn
  <1>6. CandleShapes'
    <2>1. UNCHANGED <<backfill, building, series, up>>
      BY DEF Emit
    <2>2. CASE worker' = Idle /\ flusher' = flusher
      <3>1. Idle \in [at : {"idle", "caching", "emitting"}, msg : Rows, candle : Candle]
        BY RowKinds DEF Idle, Rows
      <3>2. Idle.at = "idle" /\ Idle.candle = None
        BY DEF Idle
      <3>. QED BY <1>2, <2>1, <2>2, <3>1, <3>2 DEF TapeShapes, CandleShapes
    <2>3. CASE flusher' = [at |-> "idle", candle |-> None] /\ worker' = worker
      <3>1. flusher' \in [at : {"idle", "emitting"}, candle : Candle] /\ flusher'.at = "idle" /\ flusher'.candle = None
        BY <2>3, RowKinds
      <3>. QED BY <1>2, <2>1, <2>3, <3>1 DEF TapeShapes, CandleShapes
    <2>. QED BY <2>2, <2>3
  <1>. QED BY <1>4, <1>5, <1>6 DEF TapeShapes

LEMMA OverflowIs ==
  ASSUME NEW S, NEW s \in Seq(S)
  PROVE  Overflow(s) \subseteq S /\ (~Full(s) => Overflow(s) = {})
         /\ (Full(s) => s # << >> /\ Overflow(s) = {s[1]})
  <1>1. CASE Full(s)
    <2>1. s # << >>
      BY <1>1, TapeConstants DEF Full
    <2>. QED BY <1>1, <2>1, TailIs DEF Overflow
  <1>2. CASE ~Full(s)
    BY <1>2 DEF Overflow
  <1>. QED BY <1>1, <1>2

LEMMA TakeKeepsShapes == TapeShapes /\ Take => TapeShapes'
  <1> SUFFICES ASSUME TapeShapes, Take PROVE TapeShapes'
    OBVIOUS
  <1>1. PICK msg \in Msg :
    /\ Len(pending) = 1 /\ msg = pending[1] /\ pending' = << >> /\ track' = Tracked(msg)
    /\ up /\ worker.at = "idle" /\ worker.candle = None /\ backfill' = backfill /\ building' = building
    /\ flusher' = flusher /\ closed' = closed /\ candles' = candles /\ writer' = writer
    /\ source' = source /\ up' = up /\ mode' = mode /\ clock' = clock
    /\ sent' = sent /\ failures' = failures
    /\ \/ /\ Discarded(msg) \* nothing else
          /\ UNCHANGED <<accepted, worker, series, ticks, kept, slips>>
       \/ /\ ~Discarded(msg) /\ mode = "trades"
          /\ accepted' = accepted \union {msg} /\ ticks' = Buffered(ticks, msg)
          /\ kept' = [kept EXCEPT !.lost = @ \union Overflow(ticks)]
          /\ worker' = [at |-> "caching", msg |-> msg, candle |-> None]
          /\ slips' = IF Full(ticks) THEN slips \union {"overflow"} ELSE slips
          /\ series' = series
       \/ /\ ~Discarded(msg) /\ mode = "quotes"
          /\ accepted' = accepted \union {msg}
          /\ worker' = [at |-> "caching", msg |-> msg, candle |-> None]
          /\ UNCHANGED <<series, ticks, kept, slips>>
       \/ /\ ~Discarded(msg) /\ mode = "bars"
          /\ \E c \in Candle :
               /\ c = [start |-> BucketOf(msg.ts), pts |-> {msg}, n |-> 1, src |-> "bar"]
               /\ c # None /\ worker' = [at |-> "emitting", msg |-> None, candle |-> c]
               /\ series' = Stored(c)
          /\ slips' = IF backfill.at = "done" THEN slips ELSE slips \union {"raced"}
          /\ UNCHANGED <<accepted, ticks, kept>>
    BY TakeDoes
  <1>2. FeedShapes /\ CandleShapes /\ WriterShapes
    BY DEF TapeShapes
  <1>3. FeedShapes'
    <2>1. /\ Tracked(msg) \in [ts : Int, price : Nat, ids : Seq(Nat)]
          /\ Len(Tracked(msg).ids) =< Remembered
      BY <1>2, TrackedIs
    <2>2. << >> \in Seq(Msg) /\ Len(<< >>) = 0
      OBVIOUS
    <2>3. accepted' \in SUBSET Msg
      BY <1>1, <1>2 DEF FeedShapes
    <2>4. slips' \subseteq {"untimely", "raced", "overflow", "disk", "cancelled"}
      BY <1>1, <1>2 DEF FeedShapes
    <2>. QED BY <1>1, <1>2, <2>1, <2>2, <2>3, <2>4 DEF FeedShapes
  <1>4. series' \in Seq(Candle) /\ Len(series') =< HistoryLimit
    BY <1>1, <1>2, StoredIs DEF CandleShapes
  <1>5. /\ worker' \in [at : {"idle", "caching", "emitting"}, msg : Rows, candle : Candle]
        /\ (worker'.at = "caching" => worker'.msg \in Msg)
        /\ (worker'.at = "emitting" => worker'.candle # None)
        /\ (worker'.at # "emitting" => worker'.candle = None)
    BY <1>1, <1>2, RowKinds DEF CandleShapes, Rows
  <1>6. CandleShapes'
    BY <1>1, <1>2, <1>4, <1>5 DEF CandleShapes
  <1>7. ticks' \in Seq(Msg) /\ Len(ticks') =< BufferLimit
    BY <1>1, <1>2, BufferedIs DEF WriterShapes
  <1>8. kept' \in [db : SUBSET Rows, spill : SUBSET Rows, ignored : SUBSET Rows, lost : SUBSET Rows]
    <2>1. Overflow(ticks) \subseteq Rows
      BY <1>2, OverflowIs DEF WriterShapes, Rows
    <2>2. kept' = kept \/ kept' = [kept EXCEPT !.lost = @ \union Overflow(ticks)]
      BY <1>1
    <2>. QED BY <1>2, <2>1, <2>2 DEF WriterShapes
  <1>9. WriterShapes'
    BY <1>1, <1>2, <1>7, <1>8 DEF WriterShapes, BatchIn
  <1>. QED BY <1>3, <1>6, <1>9 DEF TapeShapes

-----------------------------------------------------------------------------
(* The warm-up.                                                              *)
LEMMA FetchedIs ==
  ASSUME TapeShapes
  PROVE  \E last \in Int :
           /\ last = (IF mode = "quotes" THEN BucketOf(clock) ELSE BucketOf(clock) - Bucket)
           /\ Fetched \in Seq(Candle) /\ Len(Fetched) = WarmUp
           /\ \A i \in 1 .. WarmUp : /\ Fetched[i].start = last - Bucket * (WarmUp - i)
                                     /\ Fetched[i].start \in Int
  <1>1. Bucket \in Nat /\ WarmUp \in Nat /\ clock \in Nat
    BY TapeConstants DEF TapeShapes, FeedShapes
  <1>2. BucketOf(clock) \in Nat
    BY <1>1, BucketBounds
  <1>3. PICK last \in Int : last = (IF mode = "quotes" THEN BucketOf(clock) ELSE BucketOf(clock) - Bucket)
    BY <1>1, <1>2
  <1>4. Fetched = [i \in 1 .. WarmUp |-> History(last - Bucket * (WarmUp - i))]
    BY <1>3 DEF Fetched
  <1>5. ASSUME NEW i \in 1 .. WarmUp
        PROVE  /\ History(last - Bucket * (WarmUp - i)) \in Candle
               /\ History(last - Bucket * (WarmUp - i)).start = last - Bucket * (WarmUp - i)
               /\ last - Bucket * (WarmUp - i) \in Int
    <2>1. PICK s \in Int : s = last - Bucket * (WarmUp - i)
      BY <1>1
    <2>2. History(s) \in Candle /\ History(s).start = s
      BY DEF History, Candle
    <2>. QED BY <2>1, <2>2
  <1>6. Fetched \in [1 .. WarmUp -> Candle]
    BY <1>4, <1>5
  <1>7. Fetched \in Seq(Candle) /\ Len(Fetched) = WarmUp
    BY <1>1, <1>6
  <1>8. \A i \in 1 .. WarmUp : /\ Fetched[i].start = last - Bucket * (WarmUp - i)
                               /\ Fetched[i].start \in Int
    BY <1>4, <1>5
  <1>. QED BY <1>3, <1>7, <1>8

LEMMA FetchKeepsShapes == TapeShapes /\ FetchHistory => TapeShapes'
  <1> SUFFICES ASSUME TapeShapes, FetchHistory PROVE TapeShapes'
    OBVIOUS
  <1>1. backfill.at = "asked" /\ backfill' = [at |-> "priming", todo |-> Fetched] /\ up
        /\ UNCHANGED <<mode, clock, failures, feedVars, worker, flusher, building, series, closed,
                       writerVars, up, slips>>
    BY DEF FetchHistory
  <1>2. Fetched \in Seq(Candle) /\ Fetched # << >>
    <2>1. Fetched \in Seq(Candle) /\ Len(Fetched) = WarmUp
      BY FetchedIs
    <2>2. WarmUp > 0
      BY <1>1 DEF TapeShapes, CandleShapes
    <2>. QED BY <2>1, <2>2
  <1>3. FeedShapes'
    BY <1>1 DEF TapeShapes, FeedShapes, feedVars
  <1>4. WriterShapes'
    BY <1>1 DEF TapeShapes, WriterShapes, writerVars, BatchIn
  <1>5. CandleShapes'
    BY <1>1, <1>2 DEF TapeShapes, CandleShapes
  <1>. QED BY <1>3, <1>4, <1>5 DEF TapeShapes

LEMMA PrimeDoes ==
  ASSUME TapeShapes, Prime
  PROVE  \E head \in Candle : \E rest \in Seq(Candle) :
    /\ up /\ backfill.at = "priming" /\ backfill.todo \in Seq(Candle) /\ Len(backfill.todo) \in Nat
    /\ Len(backfill.todo) >= 1 /\ head = backfill.todo[1] /\ head = Head(backfill.todo)
    /\ series' = Stored(head)
    /\ backfill' = [at |-> IF Len(backfill.todo) = 1 THEN "done" ELSE "priming", todo |-> rest]
    /\ Len(rest) = Len(backfill.todo) - 1
    /\ \A i \in 1 .. Len(backfill.todo) - 1 : rest[i] = backfill.todo[i + 1]
    /\ slips' = IF Overtaken THEN slips \union {"raced"} ELSE slips
    /\ UNCHANGED <<mode, clock, failures, feedVars, worker, flusher, building, closed, writerVars, up>>
  <1>1. backfill.todo \in Seq(Candle) /\ backfill.todo # << >> /\ backfill.at = "priming"
    BY DEF TapeShapes, CandleShapes, Prime
  <1>2. PICK todo \in Seq(Candle) : todo = backfill.todo
    BY <1>1
  <1>3. /\ Len(todo) \in Nat /\ Len(todo) >= 1 /\ Head(todo) \in Candle /\ Head(todo) = todo[1]
        /\ Tail(todo) \in Seq(Candle) /\ Len(Tail(todo)) = Len(todo) - 1
        /\ \A i \in 1 .. Len(todo) - 1 : Tail(todo)[i] = todo[i + 1]
    BY <1>1, <1>2, TailIs
  <1>4. /\ up /\ series' = Stored(Head(todo))
        /\ backfill' = [at |-> IF Len(todo) = 1 THEN "done" ELSE "priming", todo |-> Tail(todo)]
        /\ slips' = IF Overtaken THEN slips \union {"raced"} ELSE slips
        /\ UNCHANGED <<mode, clock, failures, feedVars, worker, flusher, building, closed, writerVars, up>>
    BY <1>2 DEF Prime
  <1>. QED BY <1>1, <1>2, <1>3, <1>4

LEMMA PrimeKeepsShapes == TapeShapes /\ Prime => TapeShapes'
  <1> SUFFICES ASSUME TapeShapes, Prime PROVE TapeShapes'
    OBVIOUS
  <1>1. PICK head \in Candle : \E rest \in Seq(Candle) :
    /\ up /\ backfill.at = "priming" /\ Len(backfill.todo) \in Nat /\ Len(backfill.todo) >= 1
    /\ series' = Stored(head)
    /\ backfill' = [at |-> IF Len(backfill.todo) = 1 THEN "done" ELSE "priming", todo |-> rest]
    /\ Len(rest) = Len(backfill.todo) - 1
    /\ slips' = IF Overtaken THEN slips \union {"raced"} ELSE slips
    /\ UNCHANGED <<mode, clock, failures, feedVars, worker, flusher, building, closed, writerVars, up>>
    BY PrimeDoes
  <1>2. PICK rest \in Seq(Candle) :
    /\ backfill' = [at |-> IF Len(backfill.todo) = 1 THEN "done" ELSE "priming", todo |-> rest]
    /\ Len(rest) = Len(backfill.todo) - 1
    BY <1>1
  <1>3. FeedShapes'
    BY <1>1 DEF TapeShapes, FeedShapes, feedVars
  <1>4. WriterShapes'
    BY <1>1 DEF TapeShapes, WriterShapes, writerVars, BatchIn
  <1>5. series' \in Seq(Candle) /\ Len(series') =< HistoryLimit
    BY <1>1, StoredIs DEF TapeShapes, CandleShapes
  <1>6. /\ backfill' \in [at : {"asked", "priming", "done"}, todo : Seq(Candle)]
        /\ backfill'.at # "asked" /\ (backfill'.at = "priming" => backfill'.todo # << >>)
    <2>1. CASE Len(backfill.todo) = 1
      BY <1>2, <2>1
    <2>2. CASE Len(backfill.todo) # 1
      <3>1. Len(rest) # 0
        BY <1>1, <1>2, <2>2
      <3>2. rest # << >>
        BY <3>1
      <3>. QED BY <1>2, <2>2, <3>2
    <2>. QED BY <2>1, <2>2
  <1>7. CandleShapes'
    BY <1>1, <1>5, <1>6 DEF TapeShapes, CandleShapes
  <1>. QED BY <1>3, <1>4, <1>7 DEF TapeShapes

-----------------------------------------------------------------------------
(* The writer's steps: what is in hand goes to its place, and the next batch *)
(* is taken.                                                                 *)
Between == {"stopped", "asleep"}

LEMMA NextBatch ==
  ASSUME WriterShapes,
         \/ /\ candles = << >> /\ candles' = candles
            /\ \E at \in Between : writer' = [at |-> at, batch |-> << >>]
         \/ /\ candles # << >> /\ candles' = Remaining(candles)
            /\ \E at \in {"candles", "last_candles"} : writer' = [at |-> at, batch |-> Batch(candles)]
  PROVE  \E at \in {"stopped", "asleep", "candles", "last_candles"} :
           /\ writer' = [at |-> at, batch |-> Batch(candles)] /\ candles' = Remaining(candles)
           /\ at \in Between => Batch(candles) = << >>
  <1>1. candles \in Seq(Candle)
    BY DEF WriterShapes
  <1>2. CASE candles = << >>
    <2>1. PICK k \in 0 .. Len(candles) : /\ Batch(candles) \in Seq(Candle) /\ Len(Batch(candles)) = k
                                         /\ Remaining(candles) \in Seq(Candle)
                                         /\ Len(Remaining(candles)) = Len(candles) - k
      BY <1>1, BatchIs
    <2>2. Len(Batch(candles)) = 0 /\ Len(Remaining(candles)) = 0
      BY <1>2, <2>1
    <2>3. Batch(candles) = << >> /\ Remaining(candles) = << >>
      BY <2>1, <2>2, EmptySeq
    <2>4. PICK at \in Between : writer' = [at |-> at, batch |-> << >>]
      BY <1>2
    <2>5. candles' = << >>
      BY <1>2
    <2>. QED BY <2>3, <2>4, <2>5 DEF Between
  <1>3. CASE candles # << >>
    <2>1. PICK at \in {"candles", "last_candles"} : writer' = [at |-> at, batch |-> Batch(candles)]
      BY <1>3
    <2>2. candles' = Remaining(candles)
      BY <1>3
    <2>. QED BY <2>1, <2>2 DEF Between
  <1>. QED BY <1>2, <1>3

LEMMA EndBatchDoes ==
  ASSUME WriterShapes, EndBatch, BatchIn
  PROVE  \E at \in {"stopped", "asleep", "candles", "last_candles"}, next \in {Batch(candles), << >>} :
           /\ writer' = [at |-> at, batch |-> next]
           /\ \/ next = Batch(candles) /\ candles' = Remaining(candles)
              \/ next = << >> /\ candles' = candles
           /\ at \in Between => next = << >>
  <1>1. CASE writer.at \in {"ticks", "last_ticks"}
    <2>1. \/ /\ candles = << >> /\ candles' = candles
             /\ \E at \in Between : writer' = [at |-> at, batch |-> << >>]
          \/ /\ candles # << >> /\ candles' = Remaining(candles)
             /\ \E at \in {"candles", "last_candles"} : writer' = [at |-> at, batch |-> Batch(candles)]
      BY <1>1 DEF EndBatch, BatchOfCandles, Between
    <2>. QED BY <2>1, NextBatch
  <1>2. CASE writer.at \notin {"ticks", "last_ticks"}
    <2>1. PICK at \in {"stopped", "asleep"} : writer' = [at |-> at, batch |-> << >>] /\ candles' = candles
      BY <1>2 DEF EndBatch
    <2>. QED BY <2>1
  <1>. QED BY <1>1, <1>2

LEMMA BatchShape ==
  ASSUME NEW S, S \subseteq Rows, NEW s \in Seq(S), Len(s) =< BufferLimit
  PROVE  /\ Batch(s) \in Seq(S) /\ Batch(s) \in Seq(Rows) /\ Len(Batch(s)) =< BatchSize
         /\ Remaining(s) \in Seq(S) /\ Len(Remaining(s)) =< BufferLimit
  <1>1. PICK k \in 0 .. Len(s) :
           /\ k =< BatchSize
           /\ Batch(s) \in Seq(S) /\ Len(Batch(s)) = k
           /\ Remaining(s) \in Seq(S) /\ Len(Remaining(s)) = Len(s) - k
    BY BatchIs
  <1>2. Batch(s) \in Seq(Rows)
    BY <1>1
  <1>3. Len(Remaining(s)) =< BufferLimit
    BY <1>1, TapeConstants
  <1>. QED BY <1>1, <1>2, <1>3

LEMMA WriterShapesKept ==
  ASSUME WriterShapes, NEW at \in {"stopped", "asleep", "candles", "last_candles"},
         NEW next \in {Batch(candles), << >>}, writer' = [at |-> at, batch |-> next],
         \/ next = Batch(candles) /\ candles' = Remaining(candles)
         \/ next = << >> /\ candles' = candles,
         at \in Between => next = << >>,
         ticks' = ticks,
         kept' \in [db : SUBSET Rows, spill : SUBSET Rows, ignored : SUBSET Rows, lost : SUBSET Rows]
  PROVE  WriterShapes'
  <1>1. Candle \subseteq Rows /\ candles \in Seq(Candle) /\ Len(candles) =< BufferLimit
    BY DEF Rows, WriterShapes
  <1>2. /\ Batch(candles) \in Seq(Rows) /\ Len(Batch(candles)) =< BatchSize
        /\ Remaining(candles) \in Seq(Candle) /\ Len(Remaining(candles)) =< BufferLimit
    BY <1>1, BatchShape
  <1>3. << >> \in Seq(Rows) /\ Len(<< >>) = 0 /\ BatchSize \in Nat
    BY TapeConstants
  <1>4. next \in Seq(Rows) /\ Len(next) =< BatchSize
    <2>1. CASE next = << >>
      BY <1>3, <2>1
    <2>2. CASE next = Batch(candles)
      BY <1>2, <2>2
    <2>. QED BY <2>1, <2>2
  <1>5. candles' \in Seq(Candle) /\ Len(candles') =< BufferLimit
    BY <1>1, <1>2
  <1>6. ~BatchIn' => writer'.batch = << >>
    BY DEF BatchIn, Between
  <1>7. /\ writer' \in [at : {"asleep", "ticks", "candles", "last", "last_ticks", "last_candles", "stopped"},
                        batch : Seq(Rows)]
        /\ writer'.batch = next
    BY <1>4
  <1>. QED BY <1>4, <1>5, <1>6, <1>7 DEF WriterShapes

LEMMA BeginFlushDoes ==
  ASSUME WriterShapes, BeginFlush
  PROVE  /\ ~BatchIn /\ writer.batch = << >>
         /\ UNCHANGED <<mode, clock, failures, feedVars, candleVars, kept, up, slips>>
         /\ \/ /\ ticks # << >> /\ ticks' = Remaining(ticks) /\ candles' = candles
               /\ \E at \in {"ticks", "last_ticks"} : writer' = [at |-> at, batch |-> Batch(ticks)]
            \/ /\ ticks = << >> /\ ticks' = ticks
               /\ \E at \in {"stopped", "asleep", "candles", "last_candles"} :
                    /\ writer' = [at |-> at, batch |-> Batch(candles)] /\ candles' = Remaining(candles)
                    /\ at \in Between => Batch(candles) = << >>
  <1>1. writer.at \in {"asleep", "last"}
    BY DEF BeginFlush
  <1>2. ~BatchIn /\ writer.batch = << >>
    BY <1>1 DEF BatchIn, WriterShapes
  <1>3. CASE ticks # << >>
    <2>1. ticks' = Remaining(ticks) /\ candles' = candles
      BY <1>3 DEF BeginFlush
    <2>2. \E at \in {"ticks", "last_ticks"} : writer' = [at |-> at, batch |-> Batch(ticks)]
      BY <1>3 DEF BeginFlush
    <2>. QED BY <1>2, <1>3, <2>1, <2>2 DEF BeginFlush
  <1>4. CASE ticks = << >>
    <2>1. /\ \/ /\ candles = << >> /\ candles' = candles
                /\ \E at \in Between : writer' = [at |-> at, batch |-> << >>]
             \/ /\ candles # << >> /\ candles' = Remaining(candles)
                /\ \E at \in {"candles", "last_candles"} : writer' = [at |-> at, batch |-> Batch(candles)]
          /\ ticks' = ticks
      BY <1>4 DEF BeginFlush, BatchOfCandles, Between
    <2>2. \E at \in {"stopped", "asleep", "candles", "last_candles"} :
                    /\ writer' = [at |-> at, batch |-> Batch(candles)] /\ candles' = Remaining(candles)
                    /\ at \in Between => Batch(candles) = << >>
      BY <2>1, NextBatch
    <2>. QED BY <1>2, <1>4, <2>1, <2>2 DEF BeginFlush
  <1>. QED BY <1>3, <1>4

LEMMA BeginFlushKeepsShapes == TapeShapes /\ BeginFlush => TapeShapes'
  <1> SUFFICES ASSUME TapeShapes, BeginFlush PROVE TapeShapes'
    OBVIOUS
  <1>1. /\ UNCHANGED <<mode, clock, failures, feedVars, candleVars, kept, up, slips>>
        /\ \/ /\ ticks # << >> /\ ticks' = Remaining(ticks) /\ candles' = candles
              /\ \E at \in {"ticks", "last_ticks"} : writer' = [at |-> at, batch |-> Batch(ticks)]
           \/ /\ ticks = << >> /\ ticks' = ticks
              /\ \E at \in {"stopped", "asleep", "candles", "last_candles"} :
                   /\ writer' = [at |-> at, batch |-> Batch(candles)] /\ candles' = Remaining(candles)
                   /\ at \in Between => Batch(candles) = << >>
    BY BeginFlushDoes DEF TapeShapes
  <1>2. WriterShapes
    BY DEF TapeShapes
  <1>3. FeedShapes' /\ CandleShapes'
    BY <1>1 DEF TapeShapes, FeedShapes, CandleShapes, feedVars, candleVars
  <1>4. CASE ticks # << >> /\ ticks' = Remaining(ticks) /\ candles' = candles
             /\ \E at \in {"ticks", "last_ticks"} : writer' = [at |-> at, batch |-> Batch(ticks)]
    <2>1. Msg \subseteq Rows /\ ticks \in Seq(Msg) /\ Len(ticks) =< BufferLimit
      BY <1>2 DEF Rows, WriterShapes
    <2>2. /\ Batch(ticks) \in Seq(Rows) /\ Len(Batch(ticks)) =< BatchSize
          /\ Remaining(ticks) \in Seq(Msg) /\ Len(Remaining(ticks)) =< BufferLimit
      BY <2>1, BatchShape
    <2>3. PICK at \in {"ticks", "last_ticks"} : writer' = [at |-> at, batch |-> Batch(ticks)]
      BY <1>4
    <2>4. /\ writer' \in [at : {"asleep", "ticks", "candles", "last", "last_ticks", "last_candles", "stopped"},
                          batch : Seq(Rows)]
          /\ Len(writer'.batch) =< BatchSize /\ BatchIn'
      BY <2>2, <2>3 DEF BatchIn
    <2>5. kept' = kept
      BY <1>1
    <2>6. candles' \in Seq(Candle) /\ Len(candles') =< BufferLimit
      BY <1>2, <1>4 DEF WriterShapes
    <2>7. ticks' \in Seq(Msg) /\ Len(ticks') =< BufferLimit
      BY <1>4, <2>2
    <2>8. WriterShapes'
      BY <1>2, <2>4, <2>5, <2>6, <2>7 DEF WriterShapes
    <2>. QED BY <1>3, <2>8 DEF TapeShapes
  <1>5. CASE /\ ticks = << >> /\ ticks' = ticks
             /\ \E at \in {"stopped", "asleep", "candles", "last_candles"} :
                   /\ writer' = [at |-> at, batch |-> Batch(candles)] /\ candles' = Remaining(candles)
                   /\ at \in Between => Batch(candles) = << >>
    <2>1. PICK at \in {"stopped", "asleep", "candles", "last_candles"} :
                   /\ writer' = [at |-> at, batch |-> Batch(candles)] /\ candles' = Remaining(candles)
                   /\ at \in Between => Batch(candles) = << >>
      BY <1>5
    <2>2. kept' \in [db : SUBSET Rows, spill : SUBSET Rows, ignored : SUBSET Rows, lost : SUBSET Rows]
      BY <1>1, <1>2 DEF WriterShapes
    <2>3. ticks' = ticks
      BY <1>5
    <2>4. WriterShapes'
      BY <1>2, <2>1, <2>2, <2>3, WriterShapesKept
    <2>. QED BY <1>3, <2>4 DEF TapeShapes
  <1>. QED BY <1>1, <1>4, <1>5

(* Where the rows of a batch go.                                             *)
LEMMA TakenIs ==
  ASSUME NEW batch \in Seq(Rows)
  PROVE  Taken(batch) \subseteq Range(batch) /\ Range(batch) \subseteq Rows
  BY DEF Taken, Range

LEMMA InsertedIs ==
  ASSUME WriterShapes
  PROVE  /\ Inserted(writer.batch) = [db |-> kept.db \union Taken(writer.batch), spill |-> kept.spill,
              ignored |-> kept.ignored \union (Range(writer.batch) \ Taken(writer.batch)),
              lost |-> kept.lost]
         /\ Inserted(writer.batch)
              \in [db : SUBSET Rows, spill : SUBSET Rows, ignored : SUBSET Rows, lost : SUBSET Rows]
  <1>1. PICK k \in [db : SUBSET Rows, spill : SUBSET Rows, ignored : SUBSET Rows, lost : SUBSET Rows] :
          k = kept
    BY DEF WriterShapes
  <1>2. k = [db |-> k.db, spill |-> k.spill, ignored |-> k.ignored, lost |-> k.lost]
    OBVIOUS
  <1>3. Inserted(writer.batch) = [db |-> k.db \union Taken(writer.batch), spill |-> k.spill,
              ignored |-> k.ignored \union (Range(writer.batch) \ Taken(writer.batch)),
              lost |-> k.lost]
    <2>1. PICK old \in SUBSET Rows : old = Taken(writer.batch)
      BY TakenIs DEF WriterShapes
    <2>2. PICK rest \in SUBSET Rows : rest = Range(writer.batch) \ Taken(writer.batch)
      BY TakenIs DEF WriterShapes
    <2>3. Inserted(writer.batch) = [k EXCEPT !.db = @ \union old, !.ignored = @ \union rest]
      BY <1>1, <2>1, <2>2 DEF Inserted
    <2>4. [k EXCEPT !.db = @ \union old, !.ignored = @ \union rest]
            = [db |-> k.db \union old, spill |-> k.spill, ignored |-> k.ignored \union rest,
               lost |-> k.lost]
      <3>1. PICK x \in [db : SUBSET Rows, spill : SUBSET Rows, ignored : SUBSET Rows, lost : SUBSET Rows] :
              x = [k EXCEPT !.db = @ \union old, !.ignored = @ \union rest]
        OBVIOUS
      <3>2. /\ x.db = k.db \union old /\ x.spill = k.spill /\ x.ignored = k.ignored \union rest
            /\ x.lost = k.lost /\ x = [db |-> x.db, spill |-> x.spill, ignored |-> x.ignored, lost |-> x.lost]
        BY <3>1
      <3>. QED BY <3>1, <3>2
    <2>. QED BY <2>1, <2>2, <2>3, <2>4
  <1>4. Taken(writer.batch) \subseteq Rows /\ Range(writer.batch) \subseteq Rows
    BY TakenIs DEF WriterShapes
  <1>. QED BY <1>1, <1>3, <1>4

LEMMA InsertKeepsShapes == TapeShapes /\ Insert => TapeShapes'
  <1> SUFFICES ASSUME TapeShapes, Insert PROVE TapeShapes'
    OBVIOUS
  <1>1. /\ BatchIn /\ EndBatch /\ kept' = Inserted(writer.batch) /\ WriterShapes
        /\ UNCHANGED <<mode, clock, failures, feedVars, candleVars, ticks, up, slips>>
    BY DEF Insert, TapeShapes
  <1>2. FeedShapes' /\ CandleShapes'
    BY <1>1 DEF TapeShapes, FeedShapes, CandleShapes, feedVars, candleVars
  <1>3. PICK at \in {"stopped", "asleep", "candles", "last_candles"}, next \in {Batch(candles), << >>} :
           /\ writer' = [at |-> at, batch |-> next]
           /\ \/ next = Batch(candles) /\ candles' = Remaining(candles)
              \/ next = << >> /\ candles' = candles
           /\ at \in Between => next = << >>
    BY <1>1, EndBatchDoes
  <1>4. kept' \in [db : SUBSET Rows, spill : SUBSET Rows, ignored : SUBSET Rows, lost : SUBSET Rows]
    BY <1>1, InsertedIs
  <1>5. ticks' = ticks
    BY <1>1
  <1>6. WriterShapes'
    BY <1>1, <1>3, <1>4, <1>5, WriterShapesKept
  <1>. QED BY <1>2, <1>6 DEF TapeShapes

LEMMA FailureKeepsShapes ==
  ASSUME TapeShapes, NEW disk \in BOOLEAN, InsertFails(disk)
  PROVE  TapeShapes'
  <1>1. /\ BatchIn /\ EndBatch /\ WriterShapes /\ failures < MaxFailures /\ failures' = failures + 1
        /\ UNCHANGED <<mode, clock, feedVars, candleVars, ticks, up>>
        /\ slips' = IF disk THEN slips ELSE slips \union {"disk"}
    BY DEF InsertFails, TapeShapes
  <1>2. FeedShapes'
    <2>1. failures + 1 \in 0 .. MaxFailures
      BY <1>1, TapeConstants DEF TapeShapes, FeedShapes
    <2>2. slips' \subseteq {"untimely", "raced", "overflow", "disk", "cancelled"}
      BY <1>1 DEF TapeShapes, FeedShapes
    <2>. QED BY <1>1, <2>1, <2>2 DEF TapeShapes, FeedShapes, feedVars
  <1>3. CandleShapes'
    BY <1>1 DEF TapeShapes, CandleShapes, candleVars
  <1>4. PICK at \in {"stopped", "asleep", "candles", "last_candles"}, next \in {Batch(candles), << >>} :
           /\ writer' = [at |-> at, batch |-> next]
           /\ \/ next = Batch(candles) /\ candles' = Remaining(candles)
              \/ next = << >> /\ candles' = candles
           /\ at \in Between => next = << >>
    BY <1>1, EndBatchDoes
  <1>5. kept' \in [db : SUBSET Rows, spill : SUBSET Rows, ignored : SUBSET Rows, lost : SUBSET Rows]
    <2>1. Range(writer.batch) \subseteq Rows
      BY <1>1, TakenIs DEF WriterShapes
    <2>2. \/ kept' = [kept EXCEPT !.spill = @ \union Range(writer.batch)]
          \/ kept' = [kept EXCEPT !.lost = @ \union Range(writer.batch)]
      BY DEF InsertFails, Spilled
    <2>. QED BY <1>1, <2>1, <2>2 DEF WriterShapes
  <1>6. ticks' = ticks
    BY <1>1
  <1>7. WriterShapes'
    BY <1>1, <1>4, <1>5, <1>6, WriterShapesKept
  <1>. QED BY <1>2, <1>3, <1>7 DEF TapeShapes

LEMMA ShutdownKeepsShapes ==
  ASSUME TapeShapes, NEW committed \in BOOLEAN, Shutdown(committed)
  PROVE  TapeShapes'
  <1>1. << >> \in Seq(Msg) /\ << >> \in Seq(Candle) /\ << >> \in Seq(Nat) /\ << >> \in Seq(Rows)
    OBVIOUS
  <1>2. /\ up' = FALSE /\ pending' = << >> /\ worker' = Idle
        /\ flusher' = [at |-> "idle", candle |-> None] /\ backfill' = [at |-> "done", todo |-> << >>]
        /\ building' = None /\ series' = << >> /\ track' = [ts |-> -1, price |-> 0, ids |-> << >>]
        /\ writer' = [at |-> "last", batch |-> << >>]
        /\ UNCHANGED <<mode, clock, failures, sent, source, accepted, closed, ticks, candles>>
    BY DEF Shutdown
  <1>3. slips' = slips \/ slips' = slips \union {"cancelled"}
    BY DEF Shutdown
  <1>4. FeedShapes'
    <2>1. track' \in [ts : Int, price : Nat, ids : Seq(Nat)] /\ Len(track'.ids) =< Remembered
      BY <1>1, <1>2, TapeConstants
    <2>2. pending' \in Seq(Msg) /\ Len(pending') =< 1
      BY <1>1, <1>2
    <2>. QED BY <1>2, <1>3, <2>1, <2>2 DEF TapeShapes, FeedShapes
  <1>5. CandleShapes'
    <2>1. worker' \in [at : {"idle", "caching", "emitting"}, msg : Rows, candle : Candle]
      BY <1>2, RowKinds DEF Idle, Rows
    <2>2. flusher' \in [at : {"idle", "emitting"}, candle : Candle]
      BY <1>2, RowKinds
    <2>3. backfill' \in [at : {"asked", "priming", "done"}, todo : Seq(Candle)]
      BY <1>1, <1>2
    <2>4. worker'.at = "idle" /\ worker'.candle = None
      BY <1>2 DEF Idle
    <2>5. series' \in Seq(Candle) /\ Len(series') =< HistoryLimit
      BY <1>1, <1>2, TapeConstants
    <2>. QED BY <1>2, <2>1, <2>2, <2>3, <2>4, <2>5, RowKinds DEF TapeShapes, CandleShapes
  <1>6. kept' \in [db : SUBSET Rows, spill : SUBSET Rows, ignored : SUBSET Rows, lost : SUBSET Rows]
    <2>1. WriterShapes
      BY DEF TapeShapes
    <2>2. Range(writer.batch) \subseteq Rows
      BY <2>1, TakenIs DEF WriterShapes
    <2>3. kept' = Inserted(writer.batch) \/ kept' = [kept EXCEPT !.lost = @ \union Range(writer.batch)]
      BY DEF Shutdown
    <2>4. CASE kept' = Inserted(writer.batch)
      BY <2>1, <2>4, InsertedIs
    <2>5. CASE kept' = [kept EXCEPT !.lost = @ \union Range(writer.batch)]
      BY <2>1, <2>2, <2>5 DEF WriterShapes
    <2>. QED BY <2>3, <2>4, <2>5
  <1>7. WriterShapes'
    BY <1>1, <1>2, <1>6, TapeConstants DEF TapeShapes, WriterShapes, BatchIn
  <1>. QED BY <1>4, <1>5, <1>7 DEF TapeShapes

LEMMA StepKeepsShapes == TapeShapes /\ [TapeNext]_tapeVars => TapeShapes'
  <1> SUFFICES ASSUME TapeShapes, [TapeNext]_tapeVars PROVE TapeShapes'
    OBVIOUS
  <1>1. CASE UNCHANGED tapeVars
    BY <1>1 DEF TapeShapes, FeedShapes, CandleShapes, WriterShapes, BatchIn, tapeVars, feedVars,
                candleVars, writerVars
  <1>2. ASSUME NEW ts \in clock - Grace - 1 .. clock + FutureTolerance + 1, NEW price \in Prices,
               Deal(ts, price)
        PROVE  TapeShapes'
    <2>1. source' \in Msg /\ Send(source')
      BY <1>2, SourceMoves
    <2>. QED BY <2>1, SendKeepsShapes
  <1>3. CASE DealAgain \/ Poll
    <2>1. source' \in Msg /\ source \in Msg /\ Send(source)
      BY <1>3, SourceMoves DEF TapeShapes, FeedShapes
    <2>. QED BY <2>1, SendKeepsShapes
  <1>4. CASE Bar
    <2>1. PICK m \in Msg : Send(m) /\ source' \in Msg
      BY <1>4, SourceMoves
    <2>. QED BY <2>1, SendKeepsShapes
  <1>5. CASE WorkerEmits \/ FlusherEmits
    <2>1. worker.candle \in Candle /\ flusher.candle \in Candle
      BY DEF TapeShapes, CandleShapes
    <2>2. CASE WorkerEmits
      <3>1. Emit(worker.candle) /\ up /\ worker' = Idle /\ flusher' = flusher
        BY <2>2 DEF WorkerEmits
      <3>. QED BY <2>1, <3>1, EmitKeepsShapes
    <2>3. CASE FlusherEmits
      <3>1. /\ Emit(flusher.candle) /\ up /\ flusher' = [at |-> "idle", candle |-> None]
            /\ worker' = worker
        BY <2>3 DEF FlusherEmits
      <3>. QED BY <2>1, <3>1, EmitKeepsShapes
    <2>. QED BY <1>5, <2>2, <2>3
  <1>. QED BY <1>1, <1>2, <1>3, <1>4, <1>5, ClockKeepsShapes, QuoteKeepsShapes, TakeKeepsShapes,
              FoldKeepsShapes, FlushKeepsShapes, FetchKeepsShapes, PrimeKeepsShapes,
              BeginFlushKeepsShapes, InsertKeepsShapes, FailureKeepsShapes, ShutdownKeepsShapes
           DEF TapeNext, WorkerSteps, FlusherSteps, WarmupSteps, WriterSteps

LEMMA TapeTypesFollow == TapeShapes => TapeTypes
  BY DEF TapeShapes, FeedShapes, CandleShapes, WriterShapes, TapeTypes-----------------------------------------------------------------------------

-----------------------------------------------------------------------------
(* A trade is told from the others by its number, and the validator's window *)
(* is never too short for the one that may come again.                       *)
Known(id) == \E i \in DOMAIN track.ids : track.ids[i] = id

Named ==
  mode = "trades" /\ up =>
    /\ source.id =< sent
    /\ \A a \in accepted : a.id =< source.id
    /\ \A i \in DOMAIN track.ids : track.ids[i] =< source.id
    /\ pending # << >> => pending[1] = source
    /\ \/ Known(source.id) /\ track.ids[Len(track.ids)] = source.id
       \/ /\ \A a \in accepted : a.id < source.id
          /\ \A i \in DOMAIN track.ids : track.ids[i] < source.id
          /\ pending # << >> \/ source.id = 0

LEMMA TrackedIds ==
  ASSUME TapeShapes, NEW msg \in Msg, mode = "trades"
  PROVE  /\ Duplicate(msg) => Tracked(msg).ids = track.ids
         /\ ~Duplicate(msg) =>
              /\ \A i \in DOMAIN Tracked(msg).ids :
                   Tracked(msg).ids[i] = msg.id \/ Known(Tracked(msg).ids[i])
              /\ Tracked(msg).ids[Len(Tracked(msg).ids)] = msg.id
              /\ Len(Tracked(msg).ids) \in DOMAIN Tracked(msg).ids
  <1>1. /\ track \in [ts : Int, price : Nat, ids : Seq(Nat)] /\ Len(track.ids) \in Nat
        /\ track = [ts |-> track.ts, price |-> track.price, ids |-> track.ids]
        /\ msg.id \in Nat /\ Remembered \in Nat /\ Remembered >= 1
    BY TapeConstants DEF TapeShapes, FeedShapes, Msg
  <1>2. PICK more : more = Append(track.ids, msg.id)
    OBVIOUS
  <1>3. Tracked(msg).ids = IF Duplicate(msg) THEN track.ids ELSE Window(more)
    <2>1. PICK ids : ids = (IF Duplicate(msg) THEN track.ids ELSE Window(more))
      OBVIOUS
    <2>2. CASE Discarded(msg)
      <3>1. Tracked(msg) = [ts |-> track.ts, price |-> track.price, ids |-> ids]
        BY <1>1, <1>2, <2>1, <2>2 DEF Tracked
      <3>. QED BY <2>1, <3>1
    <2>3. CASE ~Discarded(msg)
      <3>1. Tracked(msg) = [ts |-> IF msg.ts > track.ts THEN msg.ts ELSE track.ts,
                            price |-> msg.price, ids |-> ids]
        BY <1>2, <2>1, <2>3 DEF Tracked
      <3>. QED BY <2>1, <3>1
    <2>. QED BY <2>2, <2>3
  <1>4. /\ more \in Seq(Nat) /\ Len(more) = Len(track.ids) + 1 /\ more # << >>
        /\ \A i \in 1 .. Len(track.ids) : more[i] = track.ids[i]
        /\ more[Len(track.ids) + 1] = msg.id
    BY <1>1, <1>2, AppendIs
  <1>5. PICK win \in Seq(Nat) : win = Window(more)
    <2>1. Tail(more) \in Seq(Nat)
      BY <1>4, TailIs
    <2>. QED BY <1>4, <2>1 DEF Window
  <1>6. ASSUME NEW i \in DOMAIN more PROVE more[i] = msg.id \/ Known(more[i])
    <2>1. i \in 1 .. Len(track.ids) \/ i = Len(track.ids) + 1
      BY <1>1, <1>4
    <2>2. CASE i \in 1 .. Len(track.ids)
      <3>1. i \in DOMAIN track.ids /\ track.ids[i] = more[i]
        BY <1>1, <1>4, <2>2
      <3>. QED BY <3>1 DEF Known
    <2>. QED BY <1>4, <2>1, <2>2
  <1>7. /\ \A i \in DOMAIN win : win[i] = msg.id \/ Known(win[i])
        /\ win[Len(win)] = msg.id /\ Len(win) \in DOMAIN win
    <2>1. CASE Len(more) > Remembered
      <3>1. /\ win = Tail(more) /\ Len(win) = Len(more) - 1
            /\ \A i \in 1 .. Len(more) - 1 : win[i] = more[i + 1]
        BY <1>4, <1>5, <2>1, TailIs DEF Window
      <3>2. Len(more) >= 2 /\ win \in Seq(Nat)
        BY <1>1, <1>4, <1>5, <2>1, <3>1
      <3>3. Len(win) >= 1 /\ Len(win) \in 1 .. Len(more) - 1 /\ DOMAIN win = 1 .. Len(more) - 1
        BY <3>1, <3>2
      <3>4. win[Len(win)] = msg.id
        BY <1>1, <1>4, <3>1, <3>3
      <3>5. ASSUME NEW i \in DOMAIN win PROVE win[i] = msg.id \/ Known(win[i])
        <4>1. win[i] = more[i + 1] /\ i + 1 \in 1 .. Len(more)
          <5>1. i \in 1 .. Len(more) - 1
            BY <3>3, <3>5
          <5>2. PICK long \in Nat : long = Len(more)
            BY <1>4
          <5>3. i + 1 \in 1 .. long
            BY <5>1, <5>2
          <5>. QED BY <3>1, <5>1, <5>2, <5>3
        <4>. QED BY <1>4, <1>6, <4>1
      <3>. QED BY <3>3, <3>4, <3>5
    <2>2. CASE ~(Len(more) > Remembered)
      BY <1>1, <1>4, <1>5, <1>6, <2>2 DEF Window
    <2>. QED BY <2>1, <2>2
  <1>. QED BY <1>3, <1>5, <1>7

(* What is let through is new.                                               *)
LEMMA TakenIsNew ==
  ASSUME TapeShapes, Named, Take, NEW msg, msg = pending[1], mode = "trades", ~Discarded(msg)
  PROVE  msg \notin accepted
  <1>1. /\ up /\ pending # << >> /\ ~Duplicate(msg)
        /\ track.ids \in Seq(Nat) /\ Len(track.ids) \in Nat /\ source.id \in Nat
    BY DEF Take, Discarded, TradeRefused, TapeShapes, FeedShapes, Msg
  <1>2. msg = source
    BY <1>1 DEF Named
  <1>3. \A a \in accepted : a.id < source.id
    BY <1>1, <1>2 DEF Named, Known, Duplicate
  <1>. QED BY <1>1, <1>2, <1>3

LEMMA NamedStep == TapeShapes /\ Named /\ [TapeNext]_tapeVars => Named'
  <1> SUFFICES ASSUME TapeShapes, Named, [TapeNext]_tapeVars PROVE Named'
    OBVIOUS
  <1> SUFFICES ASSUME mode' = "trades" /\ up'
               PROVE  /\ source'.id =< sent'
                      /\ \A a \in accepted' : a.id =< source'.id
                      /\ \A i \in DOMAIN track'.ids : track'.ids[i] =< source'.id
                      /\ pending' # << >> => pending'[1] = source'
                      /\ \/ Known(source.id)' /\ track'.ids[Len(track'.ids)] = source'.id
                         \/ /\ \A a \in accepted' : a.id < source'.id
                            /\ \A i \in DOMAIN track'.ids : track'.ids[i] < source'.id
                            /\ pending' # << >> \/ source'.id = 0
    BY DEF Named
  <1>0. /\ source \in Msg /\ source.id \in Nat /\ sent \in Nat /\ pending \in Seq(Msg)
        /\ track.ids \in Seq(Nat) /\ Len(track.ids) \in Nat /\ accepted \subseteq Msg
        /\ DOMAIN track.ids = 1 .. Len(track.ids)
    BY TapeConstants DEF TapeShapes, FeedShapes, Msg
  <1>1. CASE UNCHANGED <<mode, up, source, sent, accepted, track, pending>>
    BY <1>1 DEF Named, Known
  <1>2. ASSUME NEW ts \in clock - Grace - 1 .. clock + FutureTolerance + 1, NEW price \in Prices,
               Deal(ts, price)
        PROVE  Named'
    <2>1. /\ source' = [id |-> sent + 1, ts |-> ts, price |-> price] /\ mode = "trades"
          /\ source' \in Msg /\ Send(source')
      BY <1>2, SourceMoves
    <2>2. /\ pending' = Append(pending, source') /\ pending = << >> /\ sent' = sent + 1
          /\ up /\ UNCHANGED <<track, accepted>>
      BY <2>1 DEF Send
    <2>3. source'.id = sent + 1 /\ pending' # << >> /\ pending'[1] = source'
      BY <1>0, <2>1, <2>2, AppendIs
    <2>4. /\ source.id =< sent /\ \A a \in accepted : a.id =< source.id
          /\ \A i \in DOMAIN track.ids : track.ids[i] =< source.id
      BY <2>1, <2>2 DEF Named
    <2>5. \A a \in accepted' : a.id < source'.id /\ a.id =< source'.id
      <3>1. \A a \in accepted : a.id \in Nat
        BY <1>0 DEF Msg
      <3>. QED BY <1>0, <2>2, <2>3, <2>4, <3>1
    <2>6. \A i \in DOMAIN track'.ids : track'.ids[i] < source'.id /\ track'.ids[i] =< source'.id
      <3>1. \A i \in DOMAIN track.ids : track.ids[i] \in Nat
        BY <1>0
      <3>2. track'.ids = track.ids /\ source.id =< sent
        BY <2>2, <2>4
      <3>3. \A i \in DOMAIN track.ids : track.ids[i] < sent + 1 /\ track.ids[i] =< sent + 1
        BY <1>0, <2>4, <3>1, <3>2
      <3>. QED BY <2>3, <3>2, <3>3
    <2>. QED BY <1>0, <2>2, <2>3, <2>5, <2>6 DEF Named
  <1>3. CASE DealAgain
    <2>1. source' = source /\ Send(source) /\ source.id > 0 /\ mode = "trades"
      BY <1>3, SourceMoves
    <2>2. /\ pending' = Append(pending, source) /\ pending = << >> /\ sent' = sent + 1
          /\ up /\ UNCHANGED <<track, accepted>>
      BY <2>1 DEF Send
    <2>3. pending' # << >> /\ pending'[1] = source'
      BY <1>0, <2>1, <2>2, AppendIs
    <2>4. source'.id =< sent' /\ (Known(source.id)' <=> Known(source.id))
      BY <1>0, <2>1, <2>2 DEF Named, Known
    <2>. QED BY <2>1, <2>2, <2>3, <2>4 DEF Named
  <1>4. CASE Take
    <2>1. PICK msg \in Msg :
            /\ msg = pending[1] /\ pending' = << >> /\ track' = Tracked(msg) /\ up
            /\ source' = source /\ mode' = mode /\ sent' = sent /\ Len(pending) = 1
            /\ accepted' = accepted \/ (~Discarded(msg) /\ accepted' = accepted \union {msg})
      BY <1>4, TakeDoes
    <2>2. mode = "trades" /\ msg = source
      BY <2>1 DEF Named
    <2>3. /\ source.id =< sent /\ \A a \in accepted : a.id =< source.id
          /\ \A i \in DOMAIN track.ids : track.ids[i] =< source.id
      BY <2>1, <2>2 DEF Named
    <2>4. \A a \in accepted' : a.id =< source.id
      BY <1>0, <2>1, <2>2, <2>3
    <2>5. CASE Duplicate(msg)
      <3>1. track'.ids = track.ids
        BY <2>1, <2>2, <2>5, TrackedIds
      <3>2. Known(source.id) /\ track.ids[Len(track.ids)] = source.id
        BY <1>0, <2>1, <2>2, <2>5 DEF Named, Known, Duplicate
      <3>. QED BY <2>1, <2>3, <2>4, <3>1, <3>2 DEF Known
    <2>6. CASE ~Duplicate(msg)
      <3>1. /\ \A i \in DOMAIN track'.ids : track'.ids[i] = msg.id \/ Known(track'.ids[i])
            /\ track'.ids[Len(track'.ids)] = msg.id /\ Len(track'.ids) \in DOMAIN track'.ids
        BY <2>1, <2>2, <2>6, TrackedIds
      <3>2. Known(source.id)' /\ track'.ids[Len(track'.ids)] = source'.id
        BY <2>1, <2>2, <3>1 DEF Known
      <3>3. \A i \in DOMAIN track'.ids : track'.ids[i] =< source'.id
        BY <1>0, <2>1, <2>2, <2>3, <3>1 DEF Known
      <3>. QED BY <2>1, <2>3, <2>4, <3>2, <3>3
    <2>. QED BY <2>5, <2>6
  <1>5. CASE Quote \/ Poll \/ Bar
    BY <1>5 DEF Quote, Poll, Bar, Send
  <1>6. ASSUME NEW committed \in BOOLEAN, Shutdown(committed) PROVE FALSE
    BY <1>6 DEF Shutdown
  <1>7. CASE ClockTicks \/ Fold \/ FlushStale \/ WorkerEmits \/ FlusherEmits \/ FetchHistory
             \/ Prime \/ BeginFlush \/ Insert \/ (\E disk \in BOOLEAN : InsertFails(disk))
    <2>1. UNCHANGED <<mode, up, source, sent, accepted, track, pending>>
      BY <1>7 DEF ClockTicks, Fold, FlushStale, WorkerEmits, FlusherEmits, Emit, FetchHistory, Prime,
                  BeginFlush, Insert, InsertFails, feedVars
    <2>. QED BY <1>1, <2>1
  <1>8. CASE UNCHANGED tapeVars
    <2>1. UNCHANGED <<mode, up, source, sent, accepted, track, pending>>
      BY <1>8 DEF tapeVars, feedVars
    <2>. QED BY <1>1, <2>1
  <1>9. CASE \E ts \in clock - Grace - 1 .. clock + FutureTolerance + 1, price \in Prices : Deal(ts, price)
    BY <1>2, <1>9 DEF Named
  <1>. QED BY <1>3, <1>4, <1>5, <1>6, <1>7, <1>8, <1>9
           DEF TapeNext, WorkerSteps, FlusherSteps, WarmupSteps, WriterSteps-----------------------------------------------------------------------------

-----------------------------------------------------------------------------
(* A trade let through is in the worker's hand, or in one candle: the one    *)
(* being built, one on its way to be announced, or one announced.            *)
Cached == IF worker.at = "caching" THEN {worker.msg} ELSE {}
Shown  == UNION {closed[i].pts : i \in DOMAIN closed}
Tallied(c) == IsFiniteSet(c.pts) /\ c.n = Cardinality(c.pts) /\ (c # None => c.pts # {})

HandsApart ==
  mode = "trades" /\ up =>
    /\ accepted = Cached \union building.pts \union worker.candle.pts
                         \union flusher.candle.pts \union Shown
    /\ Cached \cap building.pts = {} /\ Cached \cap worker.candle.pts = {}
    /\ Cached \cap flusher.candle.pts = {} /\ Cached \cap Shown = {}
    /\ building.pts \cap worker.candle.pts = {} /\ building.pts \cap flusher.candle.pts = {}
    /\ building.pts \cap Shown = {} /\ worker.candle.pts \cap flusher.candle.pts = {}
    /\ worker.candle.pts \cap Shown = {} /\ flusher.candle.pts \cap Shown = {}
    /\ Tallied(building) /\ Tallied(worker.candle) /\ Tallied(flusher.candle)
    /\ \A i \in DOMAIN closed : Tallied(closed[i]) /\ closed[i].pts # {}
    /\ \A i, j \in DOMAIN closed : i # j => closed[i].pts \cap closed[j].pts = {}

LEMMA NoneTallied == Tallied(None) /\ None.pts = {}
  <1>1. None.pts = {} /\ None.n = 0
    BY RowKinds
  <1>. QED BY <1>1, FS_EmptySet DEF Tallied

LEMMA ShownGrows ==
  ASSUME closed \in Seq(Candle), NEW c \in Candle, closed' = Append(closed, c)
  PROVE  /\ Shown' = Shown \union c.pts
         /\ DOMAIN closed = 1 .. Len(closed) /\ Len(closed) \in Nat
         /\ DOMAIN closed' = 1 .. Len(closed) + 1
         /\ \A i \in DOMAIN closed : closed'[i] = closed[i] /\ closed[i].pts \subseteq Shown
         /\ closed'[Len(closed) + 1] = c
  <1>1. /\ DOMAIN closed = 1 .. Len(closed) /\ Len(closed) \in Nat
        /\ DOMAIN closed' = 1 .. Len(closed) + 1
        /\ \A i \in DOMAIN closed : closed'[i] = closed[i]
        /\ closed'[Len(closed) + 1] = c
    BY AppendIs
  <1>2. \A i \in DOMAIN closed' : i \in DOMAIN closed \/ i = Len(closed) + 1
    BY <1>1
  <1>3. \A i \in DOMAIN closed : i \in DOMAIN closed'
    BY <1>1
  <1>4. Len(closed) + 1 \in DOMAIN closed'
    BY <1>1
  <1>5. Shown' = Shown \union c.pts
    <2>1. \A t : t \in Shown' <=> \E i \in DOMAIN closed' : t \in closed'[i].pts
      BY Zenon DEF Shown
    <2>2. \A t : t \in Shown <=> \E i \in DOMAIN closed : t \in closed[i].pts
      BY Zenon DEF Shown
    <2>3. ASSUME NEW t \in Shown' PROVE t \in Shown \union c.pts
      BY <1>1, <1>2, <2>1, <2>2
    <2>4. ASSUME NEW t \in Shown \union c.pts PROVE t \in Shown'
      BY <1>1, <1>3, <1>4, <2>1, <2>2
    <2>. QED BY <2>3, <2>4
  <1>6. \A i \in DOMAIN closed : closed[i].pts \subseteq Shown
    BY DEF Shown
  <1>. QED BY <1>1, <1>5, <1>6

LEMMA EmitKeepsApart ==
  ASSUME TapeShapes, HandsApart, NEW c \in Candle, Emit(c), c # None,
         \/ worker.at = "emitting" /\ c = worker.candle /\ worker' = Idle /\ flusher' = flusher
         \/ /\ flusher.at = "emitting" /\ c = flusher.candle /\ worker' = worker
            /\ flusher' = [at |-> "idle", candle |-> None]
  PROVE  HandsApart'
  <1> SUFFICES ASSUME mode' = "trades", up' PROVE HandsApart'
    BY DEF HandsApart
  <1>1. /\ UNCHANGED <<mode, up, accepted, building>> /\ closed' = Append(closed, c)
        /\ closed \in Seq(Candle)
    BY DEF Emit, feedVars, TapeShapes, CandleShapes
  <1>2. /\ Shown' = Shown \union c.pts
        /\ DOMAIN closed = 1 .. Len(closed) /\ Len(closed) \in Nat
        /\ DOMAIN closed' = 1 .. Len(closed) + 1
        /\ \A i \in DOMAIN closed : closed'[i] = closed[i] /\ closed[i].pts \subseteq Shown
        /\ closed'[Len(closed) + 1] = c
    BY <1>1, ShownGrows
  <1>3. /\ accepted = Cached \union building.pts \union worker.candle.pts
                             \union flusher.candle.pts \union Shown
        /\ Cached \cap building.pts = {} /\ Cached \cap worker.candle.pts = {}
        /\ Cached \cap flusher.candle.pts = {} /\ Cached \cap Shown = {}
        /\ building.pts \cap worker.candle.pts = {} /\ building.pts \cap flusher.candle.pts = {}
        /\ building.pts \cap Shown = {} /\ worker.candle.pts \cap flusher.candle.pts = {}
        /\ worker.candle.pts \cap Shown = {} /\ flusher.candle.pts \cap Shown = {}
    BY <1>1 DEF HandsApart
  <1>4. /\ Tallied(building) /\ Tallied(worker.candle) /\ Tallied(flusher.candle)
        /\ \A i \in DOMAIN closed : Tallied(closed[i]) /\ closed[i].pts # {}
        /\ \A i, j \in DOMAIN closed : i # j => closed[i].pts \cap closed[j].pts = {}
    BY <1>1 DEF HandsApart
  <1>5. c.pts \cap Shown = {} /\ Tallied(c) /\ c.pts # {}
    BY <1>3, <1>4 DEF Tallied
  <1>6. /\ \A i \in DOMAIN closed' : Tallied(closed'[i]) /\ closed'[i].pts # {}
        /\ \A i, j \in DOMAIN closed' : i # j => closed'[i].pts \cap closed'[j].pts = {}
    <2>1. \A i \in DOMAIN closed' : i \in DOMAIN closed \/ i = Len(closed) + 1
      BY <1>2
    <2>2. \A i \in DOMAIN closed' : Tallied(closed'[i]) /\ closed'[i].pts # {}
      BY <1>2, <1>4, <1>5, <2>1
    <2>3. ASSUME NEW i \in DOMAIN closed', NEW j \in DOMAIN closed', i # j
          PROVE  closed'[i].pts \cap closed'[j].pts = {}
      <3>1. CASE i \in DOMAIN closed /\ j \in DOMAIN closed
        BY <1>2, <1>4, <2>3, <3>1
      <3>2. CASE i \in DOMAIN closed /\ j = Len(closed) + 1
        BY <1>2, <1>5, <3>2
      <3>3. CASE i = Len(closed) + 1 /\ j \in DOMAIN closed
        BY <1>2, <1>5, <3>3
      <3>. QED BY <2>1, <2>3, <3>1, <3>2, <3>3
    <2>. QED BY <2>2, <2>3
  <1>7. CASE worker.at = "emitting" /\ c = worker.candle /\ worker' = Idle /\ flusher' = flusher
    <2>1. Cached = {} /\ Cached' = {} /\ worker'.candle = None /\ None.pts = {}
      BY <1>7, RowKinds DEF Cached, Idle
    <2>2. flusher'.candle = flusher.candle /\ building' = building
      BY <1>1, <1>7
    <2>3. /\ accepted' = Cached' \union building'.pts \union worker'.candle.pts
                             \union flusher'.candle.pts \union Shown'
          /\ Cached' \cap building'.pts = {} /\ Cached' \cap worker'.candle.pts = {}
          /\ Cached' \cap flusher'.candle.pts = {} /\ Cached' \cap Shown' = {}
          /\ building'.pts \cap worker'.candle.pts = {} /\ building'.pts \cap flusher'.candle.pts = {}
          /\ building'.pts \cap Shown' = {} /\ worker'.candle.pts \cap flusher'.candle.pts = {}
          /\ worker'.candle.pts \cap Shown' = {} /\ flusher'.candle.pts \cap Shown' = {}
      BY <1>1, <1>2, <1>3, <1>7, <2>1, <2>2
    <2>4. Tallied(building') /\ Tallied(worker'.candle) /\ Tallied(flusher'.candle)
      BY <1>4, <2>1, <2>2, NoneTallied
    <2>. QED BY <1>6, <2>3, <2>4 DEF HandsApart, Tallied
  <1>8. CASE /\ flusher.at = "emitting" /\ c = flusher.candle /\ worker' = worker
             /\ flusher' = [at |-> "idle", candle |-> None]
    <2>1. Cached' = Cached /\ flusher'.candle = None /\ None.pts = {}
      BY <1>8, RowKinds DEF Cached
    <2>2. worker'.candle = worker.candle /\ building' = building
      BY <1>1, <1>8
    <2>3. /\ accepted' = Cached' \union building'.pts \union worker'.candle.pts
                             \union flusher'.candle.pts \union Shown'
          /\ Cached' \cap building'.pts = {} /\ Cached' \cap worker'.candle.pts = {}
          /\ Cached' \cap flusher'.candle.pts = {} /\ Cached' \cap Shown' = {}
          /\ building'.pts \cap worker'.candle.pts = {} /\ building'.pts \cap flusher'.candle.pts = {}
          /\ building'.pts \cap Shown' = {} /\ worker'.candle.pts \cap flusher'.candle.pts = {}
          /\ worker'.candle.pts \cap Shown' = {} /\ flusher'.candle.pts \cap Shown' = {}
      BY <1>1, <1>2, <1>3, <1>8, <2>1, <2>2
    <2>4. Tallied(building') /\ Tallied(worker'.candle) /\ Tallied(flusher'.candle)
      BY <1>4, <2>1, <2>2, NoneTallied
    <2>. QED BY <1>6, <2>3, <2>4 DEF HandsApart, Tallied
  <1>. QED BY <1>7, <1>8

LEMMA TalliedGrows ==
  ASSUME NEW msg \in Msg
  PROVE  /\ Tallied(Opening(msg)) /\ Opening(msg).pts = {msg}
         /\ \A c \in Candle : Tallied(c) /\ msg \notin c.pts =>
              Tallied([start |-> c.start, pts |-> c.pts \union {msg}, n |-> c.n + 1, src |-> c.src])
  <1>1. Opening(msg).pts = {msg} /\ Opening(msg).n = 1
    BY DEF Opening
  <1>2. Tallied(Opening(msg))
    BY <1>1, FS_Singleton DEF Tallied
  <1>3. ASSUME NEW c \in Candle, Tallied(c), msg \notin c.pts
        PROVE  Tallied([start |-> c.start, pts |-> c.pts \union {msg}, n |-> c.n + 1, src |-> c.src])
    <2>1. IsFiniteSet(c.pts) /\ c.n = Cardinality(c.pts)
      BY <1>3 DEF Tallied
    <2>2. IsFiniteSet(c.pts \union {msg}) /\ Cardinality(c.pts \union {msg}) = Cardinality(c.pts) + 1
      BY <1>3, <2>1, FS_AddElement
    <2>3. c.pts \union {msg} # {}
      OBVIOUS
    <2>4. PICK d : d = [start |-> c.start, pts |-> c.pts \union {msg}, n |-> c.n + 1, src |-> c.src]
      OBVIOUS
    <2>5. d.pts = c.pts \union {msg} /\ d.n = c.n + 1
      BY <2>4
    <2>. QED BY <2>1, <2>2, <2>3, <2>4, <2>5 DEF Tallied
  <1>. QED BY <1>1, <1>2, <1>3

LEMMA FoldKeepsApart == TapeShapes /\ HandsApart /\ Fold => HandsApart'
  <1> SUFFICES ASSUME TapeShapes, HandsApart, Fold, mode' = "trades", up' PROVE HandsApart'
    BY DEF HandsApart
  <1>1. PICK msg \in Msg :
    /\ msg = worker.msg /\ up /\ worker.at = "caching" /\ worker.candle = None
    /\ UNCHANGED <<mode, clock, failures, feedVars, flusher, backfill, closed, writerVars, up>>
    /\ \/ /\ Expired(msg.ts) /\ building # None /\ msg.ts >= building.start + Bucket
          /\ worker' = [at |-> "emitting", msg |-> None, candle |-> building]
          /\ series' = Stored(building) /\ building' = Opening(msg)
       \/ /\ ~Expired(msg.ts) /\ building = None
          /\ worker' = Idle /\ series' = series /\ building' = Opening(msg)
       \/ /\ ~Expired(msg.ts) /\ building # None /\ msg.ts < building.start + Bucket
          /\ worker' = Idle /\ series' = series
          /\ building' = [start |-> building.start, pts |-> building.pts \union {msg},
                          n |-> building.n + 1, src |-> building.src]
    BY FoldDoes
  <1>2. /\ mode = "trades" /\ closed' = closed /\ flusher' = flusher /\ accepted' = accepted
        /\ Shown' = Shown /\ building \in Candle
    BY <1>1 DEF feedVars, Shown, TapeShapes, CandleShapes
  <1>3. /\ accepted = Cached \union building.pts \union worker.candle.pts
                             \union flusher.candle.pts \union Shown
        /\ Cached \cap building.pts = {} /\ Cached \cap worker.candle.pts = {}
        /\ Cached \cap flusher.candle.pts = {} /\ Cached \cap Shown = {}
        /\ building.pts \cap worker.candle.pts = {} /\ building.pts \cap flusher.candle.pts = {}
        /\ building.pts \cap Shown = {} /\ worker.candle.pts \cap flusher.candle.pts = {}
        /\ worker.candle.pts \cap Shown = {} /\ flusher.candle.pts \cap Shown = {}
    BY <1>1, <1>2 DEF HandsApart
  <1>4. /\ Tallied(building) /\ Tallied(worker.candle) /\ Tallied(flusher.candle)
        /\ \A i \in DOMAIN closed : Tallied(closed[i]) /\ closed[i].pts # {}
        /\ \A i, j \in DOMAIN closed : i # j => closed[i].pts \cap closed[j].pts = {}
    BY <1>1, <1>2 DEF HandsApart
  <1>5. Cached = {msg} /\ worker.candle.pts = {} /\ None.pts = {} /\ Cached' = {}
    BY <1>1, RowKinds DEF Cached, Idle
  <1>6. msg \notin building.pts
    BY <1>3, <1>5
  <1>7. /\ worker'.candle.pts \union building'.pts = building.pts \union {msg}
        /\ worker'.candle.pts \cap building'.pts = {}
        /\ Tallied(building') /\ Tallied(worker'.candle)
    <2>1. CASE worker' = [at |-> "emitting", msg |-> None, candle |-> building] /\ building' = Opening(msg)
      <3>1. worker'.candle = building /\ building'.pts = {msg} /\ Tallied(building')
        BY <2>1, TalliedGrows
      <3>. QED BY <1>4, <1>6, <3>1 DEF Tallied
    <2>2. CASE building = None /\ worker' = Idle /\ building' = Opening(msg)
      <3>1. worker'.candle = None /\ building'.pts = {msg} /\ Tallied(building')
        BY <2>2, TalliedGrows DEF Idle
      <3>. QED BY <1>5, <2>2, <3>1, NoneTallied DEF Tallied
    <2>3. CASE /\ worker' = Idle
               /\ building' = [start |-> building.start, pts |-> building.pts \union {msg},
                               n |-> building.n + 1, src |-> building.src]
      <3>1. worker'.candle = None /\ building'.pts = building.pts \union {msg}
        BY <2>3 DEF Idle
      <3>2. Tallied([start |-> building.start, pts |-> building.pts \union {msg},
                               n |-> building.n + 1, src |-> building.src])
        BY <1>2, <1>4, <1>6, TalliedGrows
      <3>3. Tallied(building')
        BY <2>3, <3>2 DEF Tallied
      <3>. QED BY <1>5, <3>1, <3>3, NoneTallied DEF Tallied
    <2>. QED BY <1>1, <2>1, <2>2, <2>3
  <1>8. /\ accepted' = Cached' \union building'.pts \union worker'.candle.pts
                             \union flusher'.candle.pts \union Shown'
        /\ Cached' \cap building'.pts = {} /\ Cached' \cap worker'.candle.pts = {}
        /\ Cached' \cap flusher'.candle.pts = {} /\ Cached' \cap Shown' = {}
        /\ building'.pts \cap worker'.candle.pts = {} /\ building'.pts \cap flusher'.candle.pts = {}
        /\ building'.pts \cap Shown' = {} /\ worker'.candle.pts \cap flusher'.candle.pts = {}
        /\ worker'.candle.pts \cap Shown' = {} /\ flusher'.candle.pts \cap Shown' = {}
    BY <1>2, <1>3, <1>5, <1>7
  <1>. QED BY <1>2, <1>4, <1>7, <1>8 DEF HandsApart, Tallied

LEMMA FlushKeepsApart == TapeShapes /\ HandsApart /\ FlushStale => HandsApart'
  <1> SUFFICES ASSUME TapeShapes, HandsApart, FlushStale, mode' = "trades", up' PROVE HandsApart'
    BY DEF HandsApart
  <1>1. /\ mode = "trades" /\ up /\ flusher.candle = None
        /\ building' = None /\ flusher' = [at |-> "emitting", candle |-> building]
        /\ closed' = closed /\ worker' = worker /\ accepted' = accepted /\ Shown' = Shown
    BY DEF FlushStale, Emptied, feedVars, Shown, TapeShapes, CandleShapes
  <1>2. flusher'.candle = building /\ None.pts = {} /\ Cached' = Cached
    BY <1>1, RowKinds DEF Cached
  <1>. QED BY <1>1, <1>2, NoneTallied DEF HandsApart, Tallied

LEMMA TakeKeepsApart == TapeShapes /\ Named /\ HandsApart /\ Take => HandsApart'
  <1> SUFFICES ASSUME TapeShapes, Named, HandsApart, Take, mode' = "trades", up' PROVE HandsApart'
    BY DEF HandsApart
  <1>1. PICK msg \in Msg :
    /\ msg = pending[1] /\ mode' = mode /\ building' = building /\ flusher' = flusher
    /\ closed' = closed /\ up' = up /\ worker.at = "idle" /\ worker.candle = None
    /\ \/ accepted' = accepted /\ worker' = worker
       \/ /\ ~Discarded(msg) /\ accepted' = accepted \union {msg}
          /\ worker' = [at |-> "caching", msg |-> msg, candle |-> None]
    <2>1. mode = "trades"
      BY DEF Take
    <2>. QED BY <2>1, TakeDoes
  <1>2. /\ mode = "trades" /\ up /\ Shown' = Shown
    BY <1>1 DEF Shown
  <1>3. CASE accepted' = accepted /\ worker' = worker
    <2>1. Cached' = Cached
      BY <1>3 DEF Cached
    <2>. QED BY <1>1, <1>2, <1>3, <2>1 DEF HandsApart, Tallied
  <1>4. CASE /\ ~Discarded(msg) /\ accepted' = accepted \union {msg}
             /\ worker' = [at |-> "caching", msg |-> msg, candle |-> None]
    <2>1. msg \notin accepted
      BY <1>1, <1>2, <1>4, TakenIsNew
    <2>2. Cached = {} /\ Cached' = {msg} /\ worker'.candle = None
      BY <1>1, <1>4 DEF Cached
    <2>. QED BY <1>1, <1>2, <1>4, <2>1, <2>2 DEF HandsApart, Tallied
  <1>. QED BY <1>1, <1>3, <1>4

LEMMA HandsStep == TapeShapes /\ Named /\ HandsApart /\ [TapeNext]_tapeVars => HandsApart'
  <1> SUFFICES ASSUME TapeShapes, Named, HandsApart, [TapeNext]_tapeVars PROVE HandsApart'
    OBVIOUS
  <1>1. CASE UNCHANGED <<mode, up, accepted, worker, flusher, building, closed>>
    BY <1>1 DEF HandsApart, Cached, Shown, Tallied
  <1>2. CASE WorkerEmits
    <2>1. /\ Emit(worker.candle) /\ worker.at = "emitting" /\ worker' = Idle /\ flusher' = flusher
          /\ worker.candle \in Candle /\ worker.candle # None
      BY <1>2 DEF WorkerEmits, TapeShapes, CandleShapes
    <2>. QED BY <2>1, EmitKeepsApart
  <1>3. CASE FlusherEmits
    <2>1. /\ Emit(flusher.candle) /\ flusher.at = "emitting" /\ worker' = worker
          /\ flusher' = [at |-> "idle", candle |-> None]
          /\ flusher.candle \in Candle /\ flusher.candle # None
      BY <1>3 DEF FlusherEmits, TapeShapes, CandleShapes
    <2>. QED BY <2>1, EmitKeepsApart
  <1>4. ASSUME NEW committed \in BOOLEAN, Shutdown(committed) PROVE HandsApart'
    BY <1>4 DEF Shutdown, HandsApart
  <1>5. CASE ClockTicks \/ DealAgain \/ Quote \/ Poll \/ Bar \/ FetchHistory \/ Prime \/ BeginFlush
             \/ Insert \/ (\E disk \in BOOLEAN : InsertFails(disk)) \/ UNCHANGED tapeVars
             \/ \E ts \in clock - Grace - 1 .. clock + FutureTolerance + 1, price \in Prices : Deal(ts, price)
    <2>1. UNCHANGED <<mode, up, accepted, worker, flusher, building, closed>>
      BY <1>5 DEF ClockTicks, Deal, DealAgain, Quote, Poll, Bar, Send, FetchHistory, Prime,
                  BeginFlush, Insert, InsertFails, feedVars, candleVars, tapeVars
    <2>. QED BY <1>1, <2>1
  <1>. QED BY <1>2, <1>3, <1>4, <1>5, FoldKeepsApart, FlushKeepsApart, TakeKeepsApart
           DEF TapeNext, WorkerSteps, FlusherSteps, WarmupSteps, WriterSteps

LEMMA InHandIs ==
  ASSUME TapeShapes
  PROVE  /\ DOMAIN InHand = 1 .. Len(closed) + 3 /\ Len(closed) \in Nat
         /\ DOMAIN closed = 1 .. Len(closed)
         /\ \A i \in 1 .. Len(closed) : InHand[i] = closed[i]
         /\ InHand[Len(closed) + 1] = building /\ InHand[Len(closed) + 2] = worker.candle
         /\ InHand[Len(closed) + 3] = flusher.candle
  <1>1. closed \in Seq(Candle) /\ building \in Candle /\ worker.candle \in Candle /\ flusher.candle \in Candle
    BY DEF TapeShapes, CandleShapes
  <1>2. PICK tail \in Seq(Candle) : tail = <<building, worker.candle, flusher.candle>>
    <2>1. PICK b \in Candle, w \in Candle, f \in Candle :
            b = building /\ w = worker.candle /\ f = flusher.candle
      BY <1>1
    <2>2. <<b, w, f>> \in Seq(Candle)
      OBVIOUS
    <2>. QED BY <2>1, <2>2
  <1>3. Len(tail) = 3 /\ tail[1] = building /\ tail[2] = worker.candle /\ tail[3] = flusher.candle
    BY <1>2
  <1>4. InHand = closed \o tail /\ Len(closed) \in Nat
    BY <1>1, <1>2 DEF InHand
  <1>5. /\ DOMAIN InHand = 1 .. Len(closed) + 3
        /\ \A i \in 1 .. Len(closed) + 3 : InHand[i] = IF i =< Len(closed) THEN closed[i] ELSE tail[i - Len(closed)]
    BY <1>1, <1>2, <1>3, <1>4, ConcatProperties
  <1>. QED BY <1>1, <1>3, <1>4, <1>5

LEMMA HandsAreOne == TapeShapes /\ HandsApart => TradesInOneCandle
  <1> SUFFICES ASSUME TapeShapes, HandsApart, mode = "trades", up
               PROVE  /\ \A t \in accepted :
                          Cardinality({i \in DOMAIN InHand : t \in InHand[i].pts})
                            = IF worker.at = "caching" /\ worker.msg = t THEN 0 ELSE 1
                      /\ \A i \in DOMAIN InHand : InHand[i].n = Cardinality(InHand[i].pts)
    BY DEF TradesInOneCandle
  <1>1. /\ DOMAIN InHand = 1 .. Len(closed) + 3 /\ Len(closed) \in Nat
        /\ DOMAIN closed = 1 .. Len(closed)
        /\ \A i \in 1 .. Len(closed) : InHand[i] = closed[i]
        /\ InHand[Len(closed) + 1] = building /\ InHand[Len(closed) + 2] = worker.candle
        /\ InHand[Len(closed) + 3] = flusher.candle
    BY InHandIs
  <1>2. \A i \in DOMAIN InHand : \/ i \in DOMAIN closed \/ i = Len(closed) + 1
                                 \/ i = Len(closed) + 2 \/ i = Len(closed) + 3
    BY <1>1
  <1>3. /\ accepted = Cached \union building.pts \union worker.candle.pts
                             \union flusher.candle.pts \union Shown
        /\ Cached \cap building.pts = {} /\ Cached \cap worker.candle.pts = {}
        /\ Cached \cap flusher.candle.pts = {} /\ Cached \cap Shown = {}
        /\ building.pts \cap worker.candle.pts = {} /\ building.pts \cap flusher.candle.pts = {}
        /\ building.pts \cap Shown = {} /\ worker.candle.pts \cap flusher.candle.pts = {}
        /\ worker.candle.pts \cap Shown = {} /\ flusher.candle.pts \cap Shown = {}
    BY DEF HandsApart
  <1>4. /\ Tallied(building) /\ Tallied(worker.candle) /\ Tallied(flusher.candle)
        /\ \A i \in DOMAIN closed : Tallied(closed[i])
        /\ \A i, j \in DOMAIN closed : i # j => closed[i].pts \cap closed[j].pts = {}
    BY DEF HandsApart
  <1>5. \A i \in DOMAIN InHand : InHand[i].n = Cardinality(InHand[i].pts)
    BY <1>1, <1>2, <1>4 DEF Tallied
  <1>6. \A i \in DOMAIN closed : closed[i].pts \subseteq Shown
    BY DEF Shown
  <1>7. \A i \in DOMAIN InHand : InHand[i].pts \cap Cached = {}
    BY <1>1, <1>2, <1>3, <1>6
  <1>8. ASSUME NEW i \in DOMAIN InHand, NEW j \in DOMAIN InHand, i # j
        PROVE  InHand[i].pts \cap InHand[j].pts = {}
    <2>1. CASE i \in DOMAIN closed /\ j \in DOMAIN closed
      BY <1>1, <1>4, <1>8, <2>1
    <2>2. CASE i \in DOMAIN closed /\ j \notin DOMAIN closed
      BY <1>1, <1>2, <1>3, <1>6, <2>2
    <2>3. CASE i \notin DOMAIN closed /\ j \in DOMAIN closed
      BY <1>1, <1>2, <1>3, <1>6, <2>3
    <2>4. CASE i \notin DOMAIN closed /\ j \notin DOMAIN closed
      BY <1>1, <1>2, <1>3, <1>8, <2>4
    <2>. QED BY <2>1, <2>2, <2>3, <2>4
  <1>9. ASSUME NEW t \in accepted
        PROVE  Cardinality({i \in DOMAIN InHand : t \in InHand[i].pts})
                 = IF worker.at = "caching" /\ worker.msg = t THEN 0 ELSE 1
    <2>1. CASE t \in Cached
      <3>1. {i \in DOMAIN InHand : t \in InHand[i].pts} = {}
        BY <1>7, <2>1
      <3>2. worker.at = "caching" /\ worker.msg = t
        BY <2>1 DEF Cached
      <3>. QED BY <3>1, <3>2, FS_EmptySet
    <2>2. CASE t \notin Cached
      <3>1. ~(worker.at = "caching" /\ worker.msg = t)
        BY <2>2 DEF Cached
      <3>2. PICK i \in DOMAIN InHand : t \in InHand[i].pts
        <4>1. t \in building.pts \/ t \in worker.candle.pts \/ t \in flusher.candle.pts \/ t \in Shown
          BY <1>3, <2>2
        <4>2. CASE t \in Shown
          <5>1. PICK k \in DOMAIN closed : t \in closed[k].pts
            BY <4>2 DEF Shown
          <5>. QED BY <1>1, <5>1
        <4>3. /\ Len(closed) + 1 \in DOMAIN InHand /\ Len(closed) + 2 \in DOMAIN InHand
              /\ Len(closed) + 3 \in DOMAIN InHand
          BY <1>1
        <4>. QED BY <1>1, <4>1, <4>2, <4>3
      <3>3. {j \in DOMAIN InHand : t \in InHand[j].pts} = {i}
        BY <1>8, <3>2
      <3>. QED BY <3>1, <3>3, FS_Singleton
    <2>. QED BY <2>1, <2>2
  <1>. QED BY <1>5, <1>9-----------------------------------------------------------------------------

-----------------------------------------------------------------------------
(* A provider of bars sends each once, in order, and nothing is built here.  *)
BarFeed ==
  mode = "bars" =>
    /\ Multiple(source.ts) /\ source.ts =< BucketOf(clock)
    /\ pending # << >> => pending[1].ts = source.ts - Bucket /\ Multiple(pending[1].ts)
    /\ building = None /\ flusher.at = "idle" /\ flusher.candle = None /\ worker.at # "caching"
    /\ accepted = {} /\ ticks = << >> /\ "untimely" \notin slips

LEMMA ZeroMultiple == Multiple(0)
  <1>1. 0 = Bucket * 0
    BY TapeConstants
  <1>. QED BY <1>1 DEF Multiple

LEMMA NowIs ==
  ASSUME TapeShapes
  PROVE  /\ clock \in Nat /\ BucketOf(clock) \in Nat /\ BucketOf(clock) =< clock
         /\ clock < BucketOf(clock) + Bucket /\ Multiple(BucketOf(clock))
         /\ Bucket \in Nat /\ Bucket >= 1
  <1>1. clock \in Nat /\ Bucket \in Nat /\ Bucket >= 1
    BY TapeConstants DEF TapeShapes, FeedShapes
  <1>. QED BY <1>1, BucketBounds

LEMMA BarFeedStep == TapeShapes /\ BarFeed /\ [TapeNext]_tapeVars => BarFeed'
  <1> SUFFICES ASSUME TapeShapes, BarFeed, [TapeNext]_tapeVars, mode' = "bars" PROVE BarFeed'
    BY DEF BarFeed
  <1>1. mode = "bars"
    BY DEF TapeNext, ClockTicks, Deal, DealAgain, Quote, Poll, Bar, Send, WorkerSteps, Take, Fold,
           WorkerEmits, FlusherSteps, FlushStale, FlusherEmits, Emit, WarmupSteps, FetchHistory, Prime,
           WriterSteps, BeginFlush, Insert, InsertFails, Shutdown, tapeVars
  <1>2. /\ Multiple(source.ts) /\ source.ts =< BucketOf(clock)
        /\ pending # << >> => pending[1].ts = source.ts - Bucket /\ Multiple(pending[1].ts)
        /\ building = None /\ flusher.at = "idle" /\ flusher.candle = None /\ worker.at # "caching"
        /\ accepted = {} /\ ticks = << >> /\ "untimely" \notin slips
    BY <1>1 DEF BarFeed
  <1>3. CASE UNCHANGED <<source, clock, pending, building, flusher, worker, accepted, ticks, slips>>
    BY <1>2, <1>3 DEF BarFeed
  <1>4. CASE ClockTicks
    <2>1. /\ clock' = clock + 1
          /\ UNCHANGED <<source, pending, building, flusher, worker, accepted, ticks, slips>>
      BY <1>4 DEF ClockTicks, feedVars, candleVars, writerVars
    <2>2. source.ts =< clock'
      BY <1>2, <2>1, NowIs, ZeroMultiple, TapeConstants DEF Multiple
    <2>3. source.ts =< BucketOf(clock')
      BY <1>2, <2>1, <2>2, NowIs, BucketsGrow
    <2>4. BucketOf(clock)' = BucketOf(clock')
      BY DEF BucketOf
    <2>. QED BY <1>2, <2>1, <2>3, <2>4 DEF BarFeed
  <1>5. CASE Bar
    <2>1. /\ source'.ts = BucketOf(clock) /\ source.ts < BucketOf(clock)
          /\ \E m \in Msg : Send(m) /\ m.ts = BucketOf(clock) - Bucket /\ m.ts \in Nat
      BY <1>5, SourceMoves
    <2>2. PICK m \in Msg : Send(m) /\ m.ts = BucketOf(clock) - Bucket
      BY <2>1
    <2>3. /\ pending' = Append(pending, m) /\ pending = << >>
          /\ UNCHANGED <<clock, building, flusher, worker, accepted, ticks, slips>>
      BY <2>2 DEF Send, candleVars, writerVars
    <2>4. pending'[1] = m
      BY <2>3, AppendIs DEF TapeShapes, FeedShapes
    <2>5. Multiple(BucketOf(clock) - Bucket)
      BY <1>2, <2>1, NowIs, MultiplesApart
    <2>6. BucketOf(clock)' = BucketOf(clock)
      BY <2>3 DEF BucketOf
    <2>. QED BY <1>2, <2>1, <2>2, <2>3, <2>4, <2>5, <2>6, NowIs DEF BarFeed
  <1>6. CASE Take
    <2>1. PICK msg \in Msg :
            /\ pending' = << >> /\ source' = source /\ clock' = clock /\ building' = building
            /\ flusher' = flusher /\ worker.at = "idle"
            /\ \/ UNCHANGED <<accepted, worker, ticks, slips>>
               \/ /\ \E c \in Candle : worker' = [at |-> "emitting", msg |-> None, candle |-> c]
                  /\ slips' = IF backfill.at = "done" THEN slips ELSE slips \union {"raced"}
                  /\ UNCHANGED <<accepted, ticks>>
      BY <1>1, <1>6, TakeDoes
    <2>2. worker'.at # "caching" /\ "untimely" \notin slips' /\ accepted' = {} /\ ticks' = << >>
      BY <1>2, <2>1
    <2>. QED BY <1>2, <2>1, <2>2 DEF BarFeed, BucketOf
  <1>7. CASE Fold \/ FlushStale \/ FlusherEmits
    BY <1>2, <1>7 DEF Fold, FlushStale, Overdue, FlusherEmits
  <1>8. CASE WorkerEmits
    <2>1. /\ UNCHANGED <<source, clock, pending, building, flusher, accepted, ticks>> /\ worker'.at = "idle"
          /\ slips' = IF Full(candles) THEN slips \union {"overflow"} ELSE slips
      BY <1>8 DEF WorkerEmits, Emit, Idle, feedVars
    <2>. QED BY <1>2, <2>1 DEF BarFeed, BucketOf
  <1>9. CASE Prime
    <2>1. /\ UNCHANGED <<source, clock, pending, building, flusher, worker, accepted, ticks>>
          /\ slips' = IF Overtaken THEN slips \union {"raced"} ELSE slips
      BY <1>9 DEF Prime, feedVars, writerVars
    <2>. QED BY <1>2, <2>1 DEF BarFeed, BucketOf
  <1>10. CASE BeginFlush
    <2>1. UNCHANGED <<source, clock, pending, building, flusher, worker, accepted, slips>> /\ ticks' = ticks
      BY <1>2, <1>10, BeginFlushDoes DEF TapeShapes, feedVars, candleVars
    <2>. QED BY <1>3, <2>1
  <1>11. ASSUME NEW disk \in BOOLEAN, InsertFails(disk) PROVE BarFeed'
    <2>1. /\ UNCHANGED <<source, clock, pending, building, flusher, worker, accepted, ticks>>
          /\ slips' = IF disk THEN slips ELSE slips \union {"disk"}
      BY <1>11 DEF InsertFails, feedVars, candleVars
    <2>. QED BY <1>2, <2>1 DEF BarFeed, BucketOf
  <1>12. ASSUME NEW committed \in BOOLEAN, Shutdown(committed) PROVE BarFeed'
    <2>1. /\ UNCHANGED <<source, clock, accepted, ticks>> /\ pending' = << >> /\ building' = None
          /\ flusher' = [at |-> "idle", candle |-> None] /\ worker'.at = "idle"
          /\ slips' = slips \/ slips' = slips \union {"cancelled"}
      BY <1>12 DEF Shutdown, Idle
    <2>. QED BY <1>2, <2>1 DEF BarFeed, BucketOf
  <1>13. CASE DealAgain \/ Quote \/ Poll
             \/ \E ts \in clock - Grace - 1 .. clock + FutureTolerance + 1, price \in Prices : Deal(ts, price)
    BY <1>1, <1>13 DEF DealAgain, Quote, Poll, Deal
  <1>14. CASE FetchHistory \/ Insert \/ UNCHANGED tapeVars
    <2>1. UNCHANGED <<source, clock, pending, building, flusher, worker, accepted, ticks, slips>>
      BY <1>14 DEF FetchHistory, Insert, feedVars, candleVars, writerVars, tapeVars
    <2>. QED BY <1>3, <2>1
  <1>. QED BY <1>4, <1>5, <1>6, <1>7, <1>8, <1>9, <1>10, <1>11, <1>12, <1>13, <1>14
           DEF TapeNext, WorkerSteps, FlusherSteps, WarmupSteps, WriterSteps-----------------------------------------------------------------------------

-----------------------------------------------------------------------------
(* While points come in their time, every candle that has left the worker's  *)
(* and the job's hands lies before the horizon: the candle being built, or   *)
(* the next one that could be.                                               *)
Horizon == IF building # None THEN building.start
           ELSE IF mode = "bars" THEN source.ts - Bucket + (IF pending = << >> THEN 1 ELSE 0)
           ELSE BucketOf(clock)
InBucket(c) == \A t \in c.pts : BucketOf(t.ts) = c.start

InTime ==
  "untimely" \notin slips =>
    /\ InBucket(building) /\ InBucket(worker.candle) /\ InBucket(flusher.candle)
    /\ building # None => Multiple(building.start) /\ building.start =< BucketOf(clock)
    /\ worker.candle # None => worker.candle.start < Horizon
    /\ flusher.candle # None => flusher.candle.start < Horizon
    /\ worker.candle # None /\ flusher.candle # None => worker.candle.start # flusher.candle.start
    /\ \A i \in DOMAIN closed :
         /\ InBucket(closed[i]) /\ closed[i].start < Horizon
         /\ worker.candle # None => closed[i].start # worker.candle.start
         /\ flusher.candle # None => closed[i].start # flusher.candle.start
    /\ \A i, j \in DOMAIN closed : closed[i].start = closed[j].start => i = j

LEMMA StartsAre ==
  ASSUME TapeShapes
  PROVE  /\ building.start \in Int /\ worker.candle.start \in Int /\ flusher.candle.start \in Int
         /\ \A i \in DOMAIN closed : closed[i] \in Candle /\ closed[i].start \in Int
         /\ Horizon \in Int /\ source.ts \in Nat
  <1>1. /\ building \in Candle /\ worker.candle \in Candle /\ flusher.candle \in Candle
        /\ closed \in Seq(Candle) /\ source.ts \in Nat
    BY DEF TapeShapes, FeedShapes, CandleShapes, Msg
  <1>2. \A c \in Candle : c.start \in Int
    BY DEF Candle
  <1>3. \A i \in DOMAIN closed : closed[i] \in Candle
    BY <1>1
  <1>4. Horizon \in Int
    BY <1>1, <1>2, NowIs DEF Horizon
  <1>. QED BY <1>1, <1>2, <1>3, <1>4

LEMMA InTimeFramed ==
  ASSUME TapeShapes, InTime, slips \subseteq slips',
         worker'.candle = worker.candle, flusher'.candle = flusher.candle, closed' = closed,
         building' = building, Horizon =< Horizon', Horizon' \in Int,
         building # None => building.start =< BucketOf(clock)' \/ BucketOf(clock) =< BucketOf(clock)',
         BucketOf(clock)' \in Nat
  PROVE  InTime'
  <1> SUFFICES ASSUME "untimely" \notin slips' PROVE InTime'
    BY DEF InTime
  <1>1. /\ InBucket(building) /\ InBucket(worker.candle) /\ InBucket(flusher.candle)
        /\ building # None => Multiple(building.start) /\ building.start =< BucketOf(clock)
        /\ worker.candle # None => worker.candle.start < Horizon
        /\ flusher.candle # None => flusher.candle.start < Horizon
        /\ worker.candle # None /\ flusher.candle # None => worker.candle.start # flusher.candle.start
        /\ \A i \in DOMAIN closed :
             /\ InBucket(closed[i]) /\ closed[i].start < Horizon
             /\ worker.candle # None => closed[i].start # worker.candle.start
             /\ flusher.candle # None => closed[i].start # flusher.candle.start
        /\ \A i, j \in DOMAIN closed : closed[i].start = closed[j].start => i = j
    BY DEF InTime
  <1>2. /\ worker.candle # None => worker.candle.start < Horizon'
        /\ flusher.candle # None => flusher.candle.start < Horizon'
        /\ \A i \in DOMAIN closed : closed[i].start < Horizon'
    BY <1>1, StartsAre
  <1>3. building # None => building.start =< BucketOf(clock)'
    BY <1>1, StartsAre, NowIs
  <1>. QED BY <1>1, <1>2, <1>3 DEF InTime, InBucket, BucketOf, Multiple

LEMMA EmitKeepsTime ==
  ASSUME TapeShapes, InTime, NEW c \in Candle, Emit(c), c # None,
         \/ c = worker.candle /\ worker' = Idle /\ flusher' = flusher
         \/ c = flusher.candle /\ worker' = worker /\ flusher' = [at |-> "idle", candle |-> None],
         source' = source, pending' = pending
  PROVE  InTime'
  <1> SUFFICES ASSUME "untimely" \notin slips' PROVE InTime'
    BY DEF InTime
  <1>1. /\ UNCHANGED <<mode, clock, building>> /\ closed' = Append(closed, c) /\ closed \in Seq(Candle)
        /\ slips \subseteq slips'
    BY DEF Emit, TapeShapes, CandleShapes
  <1>2. /\ DOMAIN closed = 1 .. Len(closed) /\ Len(closed) \in Nat
        /\ DOMAIN closed' = 1 .. Len(closed) + 1
        /\ \A i \in DOMAIN closed : closed'[i] = closed[i]
        /\ closed'[Len(closed) + 1] = c
    BY <1>1, ShownGrows
  <1>3. \A i \in DOMAIN closed' : i \in DOMAIN closed \/ i = Len(closed) + 1
    BY <1>2
  <1>4. /\ InBucket(building) /\ InBucket(worker.candle) /\ InBucket(flusher.candle)
        /\ building # None => Multiple(building.start) /\ building.start =< BucketOf(clock)
        /\ worker.candle # None => worker.candle.start < Horizon
        /\ flusher.candle # None => flusher.candle.start < Horizon
        /\ worker.candle # None /\ flusher.candle # None => worker.candle.start # flusher.candle.start
        /\ \A i \in DOMAIN closed :
             /\ InBucket(closed[i]) /\ closed[i].start < Horizon
             /\ worker.candle # None => closed[i].start # worker.candle.start
             /\ flusher.candle # None => closed[i].start # flusher.candle.start
        /\ \A i, j \in DOMAIN closed : closed[i].start = closed[j].start => i = j
    BY <1>1 DEF InTime
  <1>5. Horizon' = Horizon /\ BucketOf(clock)' = BucketOf(clock)
    BY <1>1 DEF Horizon, BucketOf
  <1>6. InBucket(None) /\ None.pts = {}
    BY RowKinds DEF InBucket
  <1>7. /\ InBucket(c) /\ c.start < Horizon /\ \A i \in DOMAIN closed : closed[i].start # c.start
    BY <1>4
  <1>8. \A i \in DOMAIN closed' : InBucket(closed'[i]) /\ closed'[i].start < Horizon
    BY <1>2, <1>3, <1>4, <1>7
  <1>9. ASSUME NEW i \in DOMAIN closed', NEW j \in DOMAIN closed', closed'[i].start = closed'[j].start
        PROVE  i = j
    BY <1>2, <1>3, <1>4, <1>7, <1>9
  <1>10. CASE c = worker.candle /\ worker' = Idle /\ flusher' = flusher
    <2>1. worker'.candle = None
      BY <1>10 DEF Idle
    <2>2. \A i \in DOMAIN closed' : flusher.candle # None => closed'[i].start # flusher.candle.start
      BY <1>2, <1>3, <1>4, <1>10
    <2>. QED BY <1>1, <1>4, <1>5, <1>6, <1>8, <1>9, <1>10, <2>1, <2>2 DEF InTime, InBucket, BucketOf, Multiple
  <1>11. CASE c = flusher.candle /\ worker' = worker /\ flusher' = [at |-> "idle", candle |-> None]
    <2>1. flusher'.candle = None
      BY <1>11
    <2>2. \A i \in DOMAIN closed' : worker.candle # None => closed'[i].start # worker.candle.start
      BY <1>2, <1>3, <1>4, <1>11
    <2>. QED BY <1>1, <1>4, <1>5, <1>6, <1>8, <1>9, <1>11, <2>1, <2>2 DEF InTime, InBucket, BucketOf, Multiple
  <1>. QED BY <1>10, <1>11

LEMMA FoldKeepsTime == TapeShapes /\ BarFeed /\ InTime /\ Fold => InTime'
  <1> SUFFICES ASSUME TapeShapes, BarFeed, InTime, Fold, "untimely" \notin slips' PROVE InTime'
    BY DEF InTime
  <1>1. PICK msg \in Msg :
    /\ msg = worker.msg /\ up /\ worker.at = "caching" /\ worker.candle = None
    /\ UNCHANGED <<mode, clock, failures, feedVars, flusher, backfill, closed, writerVars, up>>
    /\ \/ /\ Expired(msg.ts) /\ building # None /\ msg.ts >= building.start + Bucket
          /\ worker' = [at |-> "emitting", msg |-> None, candle |-> building]
          /\ series' = Stored(building) /\ building' = Opening(msg)
       \/ /\ ~Expired(msg.ts) /\ building = None
          /\ worker' = Idle /\ series' = series /\ building' = Opening(msg)
       \/ /\ ~Expired(msg.ts) /\ building # None /\ msg.ts < building.start + Bucket
          /\ worker' = Idle /\ series' = series
          /\ building' = [start |-> building.start, pts |-> building.pts \union {msg},
                          n |-> building.n + 1, src |-> building.src]
    /\ slips' = slips \union (IF Untimely(msg) THEN {"untimely"} ELSE {})
                      \union (IF Expired(msg.ts) /\ backfill.at # "done" THEN {"raced"} ELSE {})
    BY FoldDoes
  <1>2. /\ mode # "bars" /\ ~Untimely(msg) /\ "untimely" \notin slips
        /\ UNCHANGED <<mode, clock, flusher, closed>>
    BY <1>1 DEF BarFeed
  <1>3. /\ BucketOf(msg.ts) = BucketOf(clock) /\ (building # None => building.start =< msg.ts)
        /\ msg.ts \in Nat /\ BucketOf(msg.ts) =< msg.ts /\ msg.ts < BucketOf(msg.ts) + Bucket
    <2>1. msg.ts \in Nat
      BY DEF Msg
    <2>. QED BY <1>2, <2>1, BucketBounds, StartsAre DEF Untimely
  <1>4. /\ InBucket(building) /\ InBucket(flusher.candle)
        /\ building # None => Multiple(building.start) /\ building.start =< BucketOf(clock)
        /\ flusher.candle # None => flusher.candle.start < Horizon
        /\ \A i \in DOMAIN closed :
             /\ InBucket(closed[i]) /\ closed[i].start < Horizon
             /\ flusher.candle # None => closed[i].start # flusher.candle.start
        /\ \A i, j \in DOMAIN closed : closed[i].start = closed[j].start => i = j
    BY <1>2 DEF InTime
  <1>5. /\ BucketOf(clock)' = BucketOf(clock) /\ Multiple(BucketOf(clock)) /\ BucketOf(clock) \in Nat
        /\ Bucket \in Nat
    BY <1>2, NowIs DEF BucketOf
  <1>6. Opening(msg).start = BucketOf(clock) /\ InBucket(Opening(msg)) /\ Opening(msg) # None
    <2>1. Opening(msg).start = BucketOf(msg.ts) /\ Opening(msg).pts = {msg}
      BY DEF Opening
    <2>. QED BY <1>3, <2>1, OpeningIs DEF InBucket
  <1>7. InBucket(None) /\ None.pts = {} /\ Idle.candle = None
    BY RowKinds DEF InBucket, Idle
  <1>8. CASE /\ building # None /\ msg.ts >= building.start + Bucket
             /\ worker' = [at |-> "emitting", msg |-> None, candle |-> building]
             /\ building' = Opening(msg)
    <2>1. Horizon = building.start /\ Horizon' = BucketOf(clock) /\ building.start < BucketOf(clock)
      BY <1>2, <1>3, <1>5, <1>6, <1>8, StartsAre DEF Horizon
    <2>2. worker'.candle = building
      BY <1>8
    <2>3. /\ flusher.candle # None => flusher.candle.start < BucketOf(clock) /\ building.start # flusher.candle.start
          /\ \A i \in DOMAIN closed : closed[i].start < BucketOf(clock) /\ closed[i].start # building.start
      BY <1>4, <1>5, <2>1, StartsAre
    <2>4. /\ building'.start = BucketOf(clock) /\ InBucket(building)' /\ InBucket(worker.candle)'
          /\ InBucket(flusher.candle)' /\ \A i \in DOMAIN closed : InBucket(closed[i])'
      BY <1>2, <1>4, <1>6, <1>8, <2>2 DEF InBucket, BucketOf
    <2>5. Multiple(building.start)' /\ building'.start =< BucketOf(clock)'
      BY <1>5, <2>4 DEF Multiple
    <2>. QED BY <1>2, <1>4, <2>1, <2>2, <2>3, <2>4, <2>5 DEF InTime
  <1>9. CASE building = None /\ worker' = Idle /\ building' = Opening(msg)
    <2>1. Horizon = BucketOf(clock) /\ Horizon' = BucketOf(clock)
      BY <1>2, <1>5, <1>6, <1>9 DEF Horizon
    <2>2. worker'.candle = None /\ building'.start = BucketOf(clock)
      BY <1>6, <1>7, <1>9
    <2>3. /\ InBucket(building)' /\ InBucket(worker.candle)' /\ InBucket(flusher.candle)'
          /\ \A i \in DOMAIN closed : InBucket(closed[i])'
      BY <1>2, <1>4, <1>6, <1>7, <1>9, <2>2 DEF InBucket, BucketOf
    <2>4. Multiple(building.start)' /\ building'.start =< BucketOf(clock)'
      BY <1>5, <2>2 DEF Multiple
    <2>. QED BY <1>2, <1>4, <2>1, <2>2, <2>3, <2>4 DEF InTime
  <1>10. CASE /\ building # None /\ msg.ts < building.start + Bucket /\ worker' = Idle
              /\ building' = [start |-> building.start, pts |-> building.pts \union {msg},
                              n |-> building.n + 1, src |-> building.src]
    <2>1. BucketOf(msg.ts) = building.start
      BY <1>3, <1>4, <1>10, BucketIs
    <2>2. building'.start = building.start /\ building'.pts = building.pts \union {msg}
      BY <1>10
    <2>3. InBucket(building')
      BY <1>4, <2>1, <2>2 DEF InBucket
    <2>4. building' # None
      BY <2>2, RowKinds
    <2>5. Horizon = building.start /\ Horizon' = building.start
      BY <1>10, <2>2, <2>4 DEF Horizon
    <2>. QED BY <1>2, <1>4, <1>5, <1>7, <1>10, <2>2, <2>3, <2>4, <2>5 DEF InTime, InBucket, Multiple, BucketOf
  <1>. QED BY <1>1, <1>8, <1>9, <1>10

LEMMA FlushKeepsTime == TapeShapes /\ BarFeed /\ InTime /\ FlushStale => InTime'
  <1> SUFFICES ASSUME TapeShapes, BarFeed, InTime, FlushStale, "untimely" \notin slips' PROVE InTime'
    BY DEF InTime
  <1>1. /\ building # None /\ clock >= building.start + Bucket /\ flusher.candle = None
        /\ building' = None /\ flusher' = [at |-> "emitting", candle |-> building]
        /\ UNCHANGED <<mode, clock, worker, closed, source, pending>> /\ slips \subseteq slips'
    BY DEF FlushStale, Emptied, Overdue, EndOf, feedVars, TapeShapes, CandleShapes
  <1>2. mode # "bars" /\ "untimely" \notin slips /\ flusher'.candle = building
    BY <1>1 DEF BarFeed
  <1>3. /\ InBucket(building) /\ InBucket(worker.candle)
        /\ Multiple(building.start) /\ building.start =< BucketOf(clock)
        /\ worker.candle # None => worker.candle.start < Horizon
        /\ \A i \in DOMAIN closed :
             /\ InBucket(closed[i]) /\ closed[i].start < Horizon
             /\ worker.candle # None => closed[i].start # worker.candle.start
        /\ \A i, j \in DOMAIN closed : closed[i].start = closed[j].start => i = j
    BY <1>1, <1>2 DEF InTime
  <1>4. Horizon = building.start /\ Horizon' = BucketOf(clock) /\ building.start < BucketOf(clock)
    <2>1. building.start < BucketOf(clock)
      BY <1>1, NowIs, StartsAre
    <2>. QED BY <1>1, <1>2, <2>1 DEF Horizon, BucketOf
  <1>5. /\ worker.candle # None => worker.candle.start < BucketOf(clock) /\ building.start # worker.candle.start
        /\ \A i \in DOMAIN closed : closed[i].start < BucketOf(clock) /\ closed[i].start # building.start
    BY <1>3, <1>4, NowIs, StartsAre
  <1>6. /\ InBucket(building)' /\ InBucket(worker.candle)' /\ InBucket(flusher.candle)'
        /\ \A i \in DOMAIN closed : InBucket(closed[i])'
    BY <1>1, <1>2, <1>3, RowKinds DEF InBucket, BucketOf
  <1>. QED BY <1>1, <1>2, <1>3, <1>4, <1>5, <1>6 DEF InTime

LEMMA TakeKeepsTime == TapeShapes /\ BarFeed /\ InTime /\ Take => InTime'
  <1> SUFFICES ASSUME TapeShapes, BarFeed, InTime, Take, "untimely" \notin slips' PROVE InTime'
    BY DEF InTime
  <1>1. PICK msg \in Msg :
    /\ Len(pending) = 1 /\ msg = pending[1] /\ pending' = << >>
    /\ worker.candle = None /\ UNCHANGED <<building, flusher, closed, source, mode, clock>>
    /\ slips \subseteq slips'
    /\ \/ worker'.candle = None
       \/ /\ mode = "bars"
          /\ \E c \in Candle :
               /\ c = [start |-> BucketOf(msg.ts), pts |-> {msg}, n |-> 1, src |-> "bar"]
               /\ c # None /\ worker' = [at |-> "emitting", msg |-> None, candle |-> c]
    <2>1. PICK msg \in Msg :
      /\ Len(pending) = 1 /\ msg = pending[1] /\ pending' = << >>
      /\ worker.candle = None /\ UNCHANGED <<building, flusher, closed, source, mode, clock>>
      /\ \/ UNCHANGED <<worker, slips>>
         \/ /\ worker' = [at |-> "caching", msg |-> msg, candle |-> None]
            /\ slips' = IF Full(ticks) THEN slips \union {"overflow"} ELSE slips
         \/ /\ worker' = [at |-> "caching", msg |-> msg, candle |-> None] /\ slips' = slips
         \/ /\ mode = "bars"
            /\ \E c \in Candle :
                 /\ c = [start |-> BucketOf(msg.ts), pts |-> {msg}, n |-> 1, src |-> "bar"]
                 /\ c # None /\ worker' = [at |-> "emitting", msg |-> None, candle |-> c]
            /\ slips' = IF backfill.at = "done" THEN slips ELSE slips \union {"raced"}
      BY TakeDoes
    <2>. QED BY <2>1
  <1>2. "untimely" \notin slips /\ BucketOf(clock)' = BucketOf(clock) /\ pending # << >>
    BY <1>1 DEF BucketOf
  <1>3. Horizon' \in Int /\ Horizon =< Horizon' /\ BucketOf(clock)' \in Nat
    <2>1. CASE building = None /\ mode = "bars"
      <3>1. Horizon = source.ts - Bucket + 0 /\ Horizon' = source.ts - Bucket + 1
        BY <1>1, <1>2, <2>1 DEF Horizon
      <3>. QED BY <1>2, <3>1, NowIs, StartsAre
    <2>2. CASE building # None \/ mode # "bars"
      <3>1. Horizon' = Horizon
        BY <1>1, <1>2, <2>2 DEF Horizon
      <3>. QED BY <1>2, <3>1, NowIs, StartsAre
    <2>. QED BY <2>1, <2>2
  <1>4. CASE worker'.candle = None
    BY <1>1, <1>2, <1>3, <1>4, NowIs, InTimeFramed
  <1>5. CASE /\ mode = "bars"
             /\ \E c \in Candle :
                  /\ c = [start |-> BucketOf(msg.ts), pts |-> {msg}, n |-> 1, src |-> "bar"]
                  /\ c # None /\ worker' = [at |-> "emitting", msg |-> None, candle |-> c]
    <2>1. PICK c \in Candle :
                  /\ c = [start |-> BucketOf(msg.ts), pts |-> {msg}, n |-> 1, src |-> "bar"]
                  /\ c # None /\ worker' = [at |-> "emitting", msg |-> None, candle |-> c]
      BY <1>5
    <2>2. /\ building = None /\ flusher.candle = None /\ msg.ts = source.ts - Bucket /\ Multiple(msg.ts)
      BY <1>1, <1>2, <1>5 DEF BarFeed
    <2>3. msg.ts \in Nat /\ Bucket \in Nat /\ Bucket >= 1
      BY NowIs DEF Msg
    <2>4. BucketOf(msg.ts) = msg.ts
      BY <2>2, <2>3, BucketIs
    <2>5. c.start = msg.ts /\ c.pts = {msg} /\ worker'.candle = c
      BY <2>1, <2>4
    <2>6. Horizon = msg.ts /\ Horizon' = msg.ts + 1
      BY <1>1, <1>2, <1>5, <2>2, <2>3, StartsAre DEF Horizon
    <2>7. /\ \A i \in DOMAIN closed : InBucket(closed[i]) /\ closed[i].start < Horizon
          /\ \A i, j \in DOMAIN closed : closed[i].start = closed[j].start => i = j
      BY <1>2 DEF InTime
    <2>8. \A i \in DOMAIN closed : closed[i].start < Horizon' /\ closed[i].start # c.start
      BY <2>3, <2>5, <2>6, <2>7, StartsAre
    <2>9. /\ InBucket(building)' /\ InBucket(worker.candle)' /\ InBucket(flusher.candle)'
          /\ \A i \in DOMAIN closed : InBucket(closed[i])'
      BY <1>1, <2>2, <2>4, <2>5, <2>7, RowKinds DEF InBucket, BucketOf
    <2>10. c.start < Horizon'
      BY <2>3, <2>5, <2>6
    <2>. QED BY <1>1, <2>2, <2>5, <2>7, <2>8, <2>9, <2>10 DEF InTime
  <1>. QED BY <1>1, <1>4, <1>5

LEMMA ShutdownKeepsTime ==
  ASSUME TapeShapes, BarFeed, InTime, NEW committed \in BOOLEAN, Shutdown(committed)
  PROVE  InTime'
  <1> SUFFICES ASSUME "untimely" \notin slips' PROVE InTime'
    BY DEF InTime
  <1>1. /\ pending' = << >> /\ worker'.candle = None /\ flusher'.candle = None /\ building' = None
        /\ UNCHANGED <<mode, clock, source, closed>> /\ slips \subseteq slips'
    BY DEF Shutdown, Idle
  <1>2. /\ "untimely" \notin slips
        /\ building # None => Multiple(building.start) /\ building.start =< BucketOf(clock)
        /\ \A i \in DOMAIN closed : InBucket(closed[i]) /\ closed[i].start < Horizon
        /\ \A i, j \in DOMAIN closed : closed[i].start = closed[j].start => i = j
    BY <1>1 DEF InTime
  <1>3. Horizon =< Horizon' /\ Horizon' \in Int
    <2>1. Horizon' = IF mode = "bars" THEN source.ts - Bucket + 1 ELSE BucketOf(clock)
      BY <1>1 DEF Horizon, BucketOf
    <2>2. building # None => mode # "bars"
      BY DEF BarFeed
    <2>. QED BY <1>2, <2>1, <2>2, NowIs, StartsAre DEF Horizon
  <1>4. \A i \in DOMAIN closed : closed[i].start < Horizon'
    BY <1>2, <1>3, StartsAre
  <1>5. InBucket(None) /\ \A i \in DOMAIN closed : InBucket(closed[i])'
    BY <1>1, <1>2, RowKinds DEF InBucket, BucketOf
  <1>. QED BY <1>1, <1>2, <1>4, <1>5, RowKinds DEF InTime, InBucket

LEMMA TimeStep == TapeShapes /\ BarFeed /\ InTime /\ [TapeNext]_tapeVars => InTime'
  <1> SUFFICES ASSUME TapeShapes, BarFeed, InTime, [TapeNext]_tapeVars PROVE InTime'
    OBVIOUS
  <1>1. ASSUME worker' = worker, flusher' = flusher, closed' = closed, building' = building,
               slips \subseteq slips', mode' = mode, clock' = clock,
               mode = "bars" => source' = source /\ pending' = pending
        PROVE  InTime'
    <2>1. Horizon' = Horizon /\ BucketOf(clock)' = BucketOf(clock)
      BY <1>1 DEF Horizon, BucketOf
    <2>. QED BY <1>1, <2>1, StartsAre, NowIs, InTimeFramed
  <1>2. CASE ClockTicks
    <2>1. /\ clock' = clock + 1 /\ UNCHANGED <<mode, source, pending, worker, flusher, closed, building, slips>>
      BY <1>2 DEF ClockTicks, feedVars, candleVars
    <2>2. BucketOf(clock)' = BucketOf(clock') /\ clock' \in Nat
      BY <2>1, NowIs DEF BucketOf
    <2>3. BucketOf(clock') \in Nat /\ BucketOf(clock) =< BucketOf(clock')
      BY <2>1, <2>2, NowIs, BucketBounds, BucketsGrow
    <2>4. Horizon =< Horizon' /\ Horizon' \in Int
      BY <2>1, <2>2, <2>3, StartsAre, NowIs DEF Horizon
    <2>. QED BY <2>1, <2>2, <2>3, <2>4, StartsAre, NowIs, InTimeFramed
  <1>3. CASE Bar
    <2>1. /\ source'.ts = BucketOf(clock) /\ source.ts < BucketOf(clock) /\ mode = "bars"
          /\ \E m \in Msg : Send(m)
      BY <1>3, SourceMoves
    <2>2. /\ pending = << >> /\ pending' # << >>
          /\ UNCHANGED <<mode, clock, worker, flusher, closed, building, slips>>
      BY <2>1, AppendIs DEF Send, candleVars, TapeShapes, FeedShapes
    <2>3. building = None /\ source.ts + Bucket =< BucketOf(clock)
      BY <2>1, NowIs, MultiplesApart DEF BarFeed
    <2>4. Horizon = source.ts - Bucket + 1 /\ Horizon' = BucketOf(clock) - Bucket + 0
      BY <2>1, <2>2, <2>3 DEF Horizon
    <2>5. BucketOf(clock)' = BucketOf(clock)
      BY <2>2 DEF BucketOf
    <2>6. Horizon =< Horizon' /\ Horizon' \in Int
      BY <2>3, <2>4, NowIs, StartsAre
    <2>. QED BY <2>2, <2>3, <2>5, <2>6, NowIs, InTimeFramed
  <1>4. CASE WorkerEmits \/ FlusherEmits
    <2>1. /\ worker.candle \in Candle /\ (worker.at = "emitting" => worker.candle # None)
          /\ flusher.candle \in Candle /\ (flusher.at = "emitting" => flusher.candle # None)
      BY DEF TapeShapes, CandleShapes
    <2>2. CASE WorkerEmits
      <3>1. Emit(worker.candle) /\ worker' = Idle /\ flusher' = flusher /\ worker.at = "emitting"
        BY <2>2 DEF WorkerEmits
      <3>2. source' = source /\ pending' = pending
        BY <3>1 DEF Emit, feedVars
      <3>. QED BY <2>1, <3>1, <3>2, EmitKeepsTime
    <2>3. CASE FlusherEmits
      <3>1. /\ Emit(flusher.candle) /\ flusher' = [at |-> "idle", candle |-> None] /\ worker' = worker
            /\ flusher.at = "emitting"
        BY <2>3 DEF FlusherEmits
      <3>2. source' = source /\ pending' = pending
        BY <3>1 DEF Emit, feedVars
      <3>. QED BY <2>1, <3>1, <3>2, EmitKeepsTime
    <2>. QED BY <1>4, <2>2, <2>3
  <1>5. CASE DealAgain \/ Quote \/ Poll
             \/ \E ts \in clock - Grace - 1 .. clock + FutureTolerance + 1, price \in Prices : Deal(ts, price)
    <2>1. mode # "bars" /\ UNCHANGED <<mode, clock, worker, flusher, closed, building, slips>>
      BY <1>5 DEF DealAgain, Quote, Poll, Deal, Send, candleVars
    <2>. QED BY <1>1, <2>1
  <1>6. CASE FetchHistory \/ Prime \/ BeginFlush \/ Insert \/ (\E disk \in BOOLEAN : InsertFails(disk))
             \/ UNCHANGED tapeVars
    <2>1. /\ UNCHANGED <<mode, clock, worker, flusher, closed, building, source, pending>>
          /\ slips \subseteq slips'
      BY <1>6 DEF FetchHistory, Prime, BeginFlush, Insert, InsertFails, feedVars, candleVars, tapeVars
    <2>. QED BY <1>1, <2>1
  <1>. QED BY <1>2, <1>3, <1>4, <1>5, <1>6, FoldKeepsTime, FlushKeepsTime, TakeKeepsTime, ShutdownKeepsTime
           DEF TapeNext, WorkerSteps, FlusherSteps, WarmupSteps, WriterSteps

LEMMA TimeIsKept == TapeShapes /\ InTime => PointsInBucket
  <1> SUFFICES ASSUME TapeShapes, InTime, "untimely" \notin slips
               PROVE  /\ \A i \in DOMAIN InHand : \A t \in InHand[i].pts : BucketOf(t.ts) = InHand[i].start
                      /\ \A i, j \in DOMAIN closed : closed[i].start = closed[j].start => i = j
    BY DEF PointsInBucket
  <1>1. /\ InBucket(building) /\ InBucket(worker.candle) /\ InBucket(flusher.candle)
        /\ \A i \in DOMAIN closed : InBucket(closed[i])
        /\ \A i, j \in DOMAIN closed : closed[i].start = closed[j].start => i = j
    BY DEF InTime
  <1>2. /\ DOMAIN InHand = 1 .. Len(closed) + 3 /\ Len(closed) \in Nat
        /\ DOMAIN closed = 1 .. Len(closed)
        /\ \A i \in 1 .. Len(closed) : InHand[i] = closed[i]
        /\ InHand[Len(closed) + 1] = building /\ InHand[Len(closed) + 2] = worker.candle
        /\ InHand[Len(closed) + 3] = flusher.candle
    BY InHandIs
  <1>3. \A i \in DOMAIN InHand : \/ i \in DOMAIN closed \/ i = Len(closed) + 1
                                 \/ i = Len(closed) + 2 \/ i = Len(closed) + 3
    BY <1>2
  <1>4. \A i \in DOMAIN InHand : InBucket(InHand[i])
    BY <1>1, <1>2, <1>3
  <1>. QED BY <1>1, <1>4 DEF InBucket-----------------------------------------------------------------------------

-----------------------------------------------------------------------------
(* What strategies are shown is in order up to an edge, and a candle that    *)
(* has left the hands that built it is shown as it is.                       *)
Ascending(s) == \A i, j \in DOMAIN s : i < j => s[i].start < s[j].start
Gone(g) == \/ worker.candle # None /\ g = worker.candle
           \/ flusher.candle # None /\ g = flusher.candle
           \/ \E i \in DOMAIN closed : g = closed[i]
Edge == IF building # None THEN building.start
        ELSE IF mode = "bars" THEN IF pending # << >> THEN pending[1].ts ELSE BucketOf(clock) - Bucket
        ELSE BucketOf(clock)
Newest == IF mode = "quotes" THEN BucketOf(clock) ELSE BucketOf(clock) - Bucket

InOrder ==
  slips \cap {"untimely", "raced"} = {} =>
    /\ Ascending(series) /\ \A i \in DOMAIN series : series[i].start =< Edge
    /\ backfill.at # "done" => closed = << >> /\ worker.candle = None /\ flusher.candle = None
    /\ backfill.at = "asked" => series = << >>
    /\ backfill.at = "priming" =>
         /\ Ascending(backfill.todo)
         /\ \A j \in DOMAIN backfill.todo :
              /\ backfill.todo[j].start =< Newest
              /\ \A i \in DOMAIN series : series[i].start < backfill.todo[j].start
    /\ \A g \in Candle : Gone(g) =>
         \A i \in DOMAIN series : series[i].start = g.start => series[i] = g

LEMMA StoredShows ==
  ASSUME TapeShapes, NEW c \in Candle, Ascending(series), \A i \in DOMAIN series : series[i].start =< c.start,
         NEW s, s = Stored(c)
  PROVE  /\ s \in Seq(Candle) /\ Ascending(s)
         /\ \A i \in DOMAIN s : /\ s[i].start =< c.start
                                /\ \/ s[i] = c
                                   \/ s[i].start # c.start /\ \E j \in DOMAIN series : s[i] = series[j]
  <1>0. /\ series \in Seq(Candle) /\ Len(series) =< HistoryLimit /\ Len(series) \in Nat
        /\ DOMAIN series = 1 .. Len(series)
        /\ HistoryLimit \in Nat /\ HistoryLimit >= 1 /\ c.start \in Int
        /\ \A i \in DOMAIN series : series[i].start \in Int
    <2>1. series \in Seq(Candle) /\ Len(series) =< HistoryLimit
      BY DEF TapeShapes, CandleShapes
    <2>2. \A d \in Candle : d.start \in Int
      BY DEF Candle
    <2>. QED BY <2>1, <2>2, TapeConstants
  <1>1. s \in Seq(Candle)
    BY StoredIs DEF TapeShapes, CandleShapes
  <1>2. CASE series # << >> /\ Last(series).start = c.start
    <2>1. s = [series EXCEPT ![Len(series)] = c]
      BY <1>2 DEF Stored
    <2>2. Len(series) >= 1 /\ Last(series) = series[Len(series)]
      BY <1>0, <1>2 DEF Last
    <2>3. /\ DOMAIN s = DOMAIN series /\ s[Len(series)] = c
          /\ \A i \in DOMAIN series : i # Len(series) => s[i] = series[i]
      BY <1>0, <2>1, <2>2
    <2>4. \A i \in DOMAIN series : i # Len(series) => series[i].start < c.start
      <3>1. ASSUME NEW i \in DOMAIN series, i # Len(series) PROVE series[i].start < c.start
        <4>1. i < Len(series) /\ Len(series) \in DOMAIN series
          BY <1>0, <2>2, <3>1
        <4>2. series[i].start < series[Len(series)].start
          BY <4>1 DEF Ascending
        <4>. QED BY <1>2, <2>2, <4>2
      <3>. QED BY <3>1
    <2>5. ASSUME NEW i \in DOMAIN s, NEW j \in DOMAIN s, i < j PROVE s[i].start < s[j].start
      <3>1. i \in DOMAIN series /\ j \in DOMAIN series /\ i # Len(series)
        BY <1>0, <2>3, <2>5
      <3>2. CASE j = Len(series)
        BY <2>3, <2>4, <3>1, <3>2
      <3>3. CASE j # Len(series)
        BY <2>3, <2>5, <3>1, <3>3 DEF Ascending
      <3>. QED BY <3>2, <3>3
    <2>6. ASSUME NEW i \in DOMAIN s
          PROVE  /\ s[i].start =< c.start
                 /\ \/ s[i] = c
                    \/ s[i].start # c.start /\ \E j \in DOMAIN series : s[i] = series[j]
      <3>1. CASE i = Len(series)
        BY <1>0, <2>3, <3>1
      <3>2. CASE i # Len(series)
        BY <1>0, <2>3, <2>4, <2>6, <3>2
      <3>. QED BY <3>1, <3>2
    <2>. QED BY <1>1, <2>5, <2>6 DEF Ascending
  <1>3. CASE ~(series # << >> /\ Last(series).start = c.start)
    <2>1. PICK more : more = Append(series, c)
      OBVIOUS
    <2>2. /\ more \in Seq(Candle) /\ Len(more) = Len(series) + 1 /\ more # << >>
          /\ \A i \in 1 .. Len(series) : more[i] = series[i]
          /\ more[Len(series) + 1] = c
      BY <1>0, <2>1, AppendIs
    <2>3. \A i \in DOMAIN series : series[i].start < c.start
      <3>1. ASSUME NEW i \in DOMAIN series PROVE series[i].start < c.start
        <4>1. /\ series # << >> /\ Len(series) \in DOMAIN series /\ Last(series) = series[Len(series)]
              /\ i =< Len(series)
          BY <1>0 DEF Last
        <4>2. series[Len(series)].start < c.start
          BY <1>0, <1>3, <4>1
        <4>3. i = Len(series) \/ series[i].start < series[Len(series)].start
          BY <1>0, <4>1 DEF Ascending
        <4>. QED BY <1>0, <4>1, <4>2, <4>3
      <3>. QED BY <3>1
    <2>4. ASSUME NEW i \in DOMAIN more
          PROVE  \/ i = Len(series) + 1 /\ more[i] = c
                 \/ i \in DOMAIN series /\ more[i] = series[i]
      BY <1>0, <2>2
    <2>5. ASSUME NEW i \in DOMAIN more, NEW j \in DOMAIN more, i < j
          PROVE  more[i].start < more[j].start
      <3>1. i \in DOMAIN series /\ more[i] = series[i]
        BY <1>0, <2>2, <2>5
      <3>2. CASE j \in DOMAIN series
        BY <2>4, <2>5, <3>1, <3>2, <1>0, <2>2 DEF Ascending
      <3>3. CASE j = Len(series) + 1
        BY <2>2, <2>3, <3>1, <3>3
      <3>. QED BY <2>4, <3>2, <3>3
    <2>6. s = IF Len(more) > HistoryLimit THEN Tail(more) ELSE more
      BY <1>3, <2>1 DEF Stored
    <2>7. CASE s = more
      BY <1>0, <1>1, <2>3, <2>4, <2>5, <2>7 DEF Ascending
    <2>8. CASE s = Tail(more)
      <3>1. /\ Len(s) = Len(more) - 1 /\ \A i \in 1 .. Len(more) - 1 : s[i] = more[i + 1]
        BY <2>2, <2>8, TailIs
      <3>2. \A i \in DOMAIN s : i + 1 \in DOMAIN more /\ s[i] = more[i + 1] /\ i \in Nat
        BY <1>0, <1>1, <2>2, <3>1
      <3>3. ASSUME NEW i \in DOMAIN s, NEW j \in DOMAIN s, i < j PROVE s[i].start < s[j].start
        BY <2>5, <3>2, <3>3
      <3>4. ASSUME NEW i \in DOMAIN s
            PROVE  /\ s[i].start =< c.start
                   /\ \/ s[i] = c
                      \/ s[i].start # c.start /\ \E j \in DOMAIN series : s[i] = series[j]
        <4>1. s[i] = c \/ \E j \in DOMAIN series : s[i] = series[j]
          BY <2>4, <3>2
        <4>. QED BY <1>0, <2>3, <4>1
      <3>. QED BY <1>1, <3>3, <3>4 DEF Ascending
    <2>. QED BY <2>6, <2>7, <2>8
  <1>. QED BY <1>2, <1>3

LEMMA GoneBefore ==
  ASSUME InTime, "untimely" \notin slips, NEW g, Gone(g)
  PROVE  g.start < Horizon
  BY DEF InTime, Gone

LEMMA EdgesAre ==
  ASSUME TapeShapes
  PROVE  /\ Edge \in Int /\ Newest \in Int /\ Newest =< BucketOf(clock)
         /\ series \in Seq(Candle) /\ backfill.todo \in Seq(Candle)
         /\ \A i \in DOMAIN series : series[i] \in Candle /\ series[i].start \in Int
         /\ \A i \in DOMAIN backfill.todo : backfill.todo[i].start \in Int
  <1>1. /\ series \in Seq(Candle) /\ backfill.todo \in Seq(Candle) /\ building.start \in Int
        /\ pending \in Seq(Msg)
    BY StartsAre DEF TapeShapes, CandleShapes, FeedShapes
  <1>2. \A c \in Candle : c.start \in Int
    BY DEF Candle
  <1>3. pending # << >> => pending[1].ts \in Int
    <2>1. ASSUME pending # << >> PROVE pending[1].ts \in Int
      <3>1. pending[1] \in Msg
        BY <1>1, <2>1, TailIs
      <3>. QED BY <3>1 DEF Msg
    <2>. QED BY <2>1
  <1>4. Edge \in Int /\ Newest \in Int /\ Newest =< BucketOf(clock)
    BY <1>1, <1>3, NowIs DEF Edge, Newest
  <1>. QED BY <1>1, <1>2, <1>4

LEMMA OrderFramed ==
  ASSUME TapeShapes, InOrder, slips \subseteq slips', series' = series, backfill' = backfill,
         \A g \in Candle : Gone(g)' => Gone(g),
         slips' \cap {"untimely", "raced"} = {} =>
           /\ \/ backfill.at = "done"
              \/ closed' = closed /\ worker'.candle = worker.candle /\ flusher'.candle = flusher.candle
           /\ Edge =< Edge' /\ Newest =< Newest',
         Edge' \in Int, Newest' \in Int
  PROVE  InOrder'
  <1> SUFFICES ASSUME slips' \cap {"untimely", "raced"} = {} PROVE InOrder'
    BY DEF InOrder
  <1>1. /\ Ascending(series) /\ \A i \in DOMAIN series : series[i].start =< Edge
        /\ backfill.at # "done" => closed = << >> /\ worker.candle = None /\ flusher.candle = None
        /\ backfill.at = "asked" => series = << >>
        /\ backfill.at = "priming" =>
             /\ Ascending(backfill.todo)
             /\ \A j \in DOMAIN backfill.todo :
                  /\ backfill.todo[j].start =< Newest
                  /\ \A i \in DOMAIN series : series[i].start < backfill.todo[j].start
        /\ \A g \in Candle : Gone(g) =>
             \A i \in DOMAIN series : series[i].start = g.start => series[i] = g
    BY DEF InOrder
  <1>2. \A i \in DOMAIN series : series[i].start =< Edge'
    BY <1>1, EdgesAre
  <1>3. \A j \in DOMAIN backfill.todo : backfill.at = "priming" => backfill.todo[j].start =< Newest'
    BY <1>1, EdgesAre
  <1>4. Ascending(series)' /\ (backfill.at = "priming" => Ascending(backfill.todo)')
    BY <1>1 DEF Ascending
  <1>5. backfill'.at # "done" => closed' = << >> /\ worker'.candle = None /\ flusher'.candle = None
    BY <1>1
  <1>6. \A g \in Candle : Gone(g)' =>
             \A i \in DOMAIN series' : series'[i].start = g.start => series'[i] = g
    BY <1>1
  <1>. QED BY <1>1, <1>2, <1>3, <1>4, <1>5, <1>6 DEF InOrder

LEMMA StoreKeepsOrder ==
  ASSUME TapeShapes, InTime, InOrder, slips \cap {"untimely", "raced"} = {}, NEW c \in Candle,
         series' = Stored(c), \A i \in DOMAIN series : series[i].start =< c.start,
         c.start =< Edge', Edge' \in Int, backfill.at = "done", backfill' = backfill,
         \A g \in Candle : Gone(g)' => Gone(g) \/ g = c, Horizon =< c.start
  PROVE  InOrder'
  <1>1. /\ Ascending(series)
        /\ \A g \in Candle : Gone(g) =>
             \A i \in DOMAIN series : series[i].start = g.start => series[i] = g
    BY DEF InOrder
  <1>2. PICK s : s = Stored(c)
    OBVIOUS
  <1>3. /\ s \in Seq(Candle) /\ Ascending(s)
        /\ \A i \in DOMAIN s : /\ s[i].start =< c.start
                               /\ \/ s[i] = c
                                  \/ s[i].start # c.start /\ \E j \in DOMAIN series : s[i] = series[j]
    BY <1>1, <1>2, StoredShows
  <1>4. c.start \in Int /\ \A i \in DOMAIN s : s[i].start \in Int
    <2>1. \A d \in Candle : d.start \in Int
      BY DEF Candle
    <2>. QED BY <1>3, <2>1
  <1>5. Ascending(series)' /\ \A i \in DOMAIN series' : series'[i].start =< Edge'
    <2>1. \A i \in DOMAIN s : s[i].start =< Edge'
      BY <1>3, <1>4
    <2>. QED BY <1>2, <1>3, <2>1 DEF Ascending
  <1>6. \A g \in Candle : Gone(g)' =>
             \A i \in DOMAIN series' : series'[i].start = g.start => series'[i] = g
    <2>1. ASSUME NEW g \in Candle, Gone(g)', NEW i \in DOMAIN s, s[i].start = g.start
          PROVE  s[i] = g
      <3>1. CASE g = c
        BY <1>3, <2>1, <3>1
      <3>2. CASE Gone(g)
        <4>1. g.start < c.start
          <5>1. g.start < Horizon /\ g.start \in Int
            BY <3>2, GoneBefore DEF Candle
          <5>. QED BY <1>4, <5>1, StartsAre
        <4>2. s[i] # c
          BY <1>4, <2>1, <4>1
        <4>3. PICK j \in DOMAIN series : s[i] = series[j]
          BY <1>3, <4>2
        <4>. QED BY <1>1, <2>1, <3>2, <4>3
      <3>. QED BY <2>1, <3>1, <3>2
    <2>. QED BY <1>2, <2>1
  <1>. QED BY <1>5, <1>6 DEF InOrder

LEMMA PrimeKeepsOrder == TapeShapes /\ InTime /\ InOrder /\ Prime => InOrder'
  <1> SUFFICES ASSUME TapeShapes, InTime, InOrder, Prime, slips' \cap {"untimely", "raced"} = {}
               PROVE InOrder'
    BY DEF InOrder
  <1>1. PICK head \in Candle : \E rest \in Seq(Candle) :
    /\ backfill.at = "priming" /\ Len(backfill.todo) \in Nat
    /\ Len(backfill.todo) >= 1 /\ head = backfill.todo[1] /\ head = Head(backfill.todo)
    /\ series' = Stored(head) /\ backfill.todo \in Seq(Candle)
    /\ backfill' = [at |-> IF Len(backfill.todo) = 1 THEN "done" ELSE "priming", todo |-> rest]
    /\ Len(rest) = Len(backfill.todo) - 1
    /\ \A i \in 1 .. Len(backfill.todo) - 1 : rest[i] = backfill.todo[i + 1]
    /\ slips' = IF Overtaken THEN slips \union {"raced"} ELSE slips
    /\ UNCHANGED <<mode, clock, failures, feedVars, worker, flusher, building, closed, writerVars, up>>
    BY PrimeDoes
  <1>2. PICK rest \in Seq(Candle) :
    /\ backfill' = [at |-> IF Len(backfill.todo) = 1 THEN "done" ELSE "priming", todo |-> rest]
    /\ Len(rest) = Len(backfill.todo) - 1
    /\ \A i \in 1 .. Len(backfill.todo) - 1 : rest[i] = backfill.todo[i + 1]
    BY <1>1
  <1>3. ~Overtaken /\ slips \cap {"untimely", "raced"} = {} /\ 1 \in DOMAIN backfill.todo
    <2>1. ASSUME Overtaken PROVE FALSE
      <3>1. slips' = slips \union {"raced"}
        BY <1>1, <2>1
      <3>. QED BY <3>1
    <2>2. slips' = slips
      BY <1>1, <2>1
    <2>3. 1 \in DOMAIN backfill.todo
      BY <1>1
    <2>. QED BY <2>1, <2>2, <2>3
  <1>4. /\ Ascending(series) /\ Ascending(backfill.todo)
        /\ closed = << >> /\ worker.candle = None /\ flusher.candle = None
        /\ \A j \in DOMAIN backfill.todo :
             /\ backfill.todo[j].start =< Newest
             /\ \A i \in DOMAIN series : series[i].start < backfill.todo[j].start
    BY <1>1, <1>3 DEF InOrder
  <1>5. head.start \in Int /\ head.start =< Newest /\ \A i \in DOMAIN series : series[i].start =< head.start
    <2>1. head.start \in Int
      BY DEF Candle
    <2>2. head.start =< Newest /\ \A i \in DOMAIN series : series[i].start < head.start
      BY <1>1, <1>3, <1>4
    <2>. QED BY <2>1, <2>2, EdgesAre
  <1>6. PICK s : s = Stored(head)
    OBVIOUS
  <1>7. /\ s \in Seq(Candle) /\ Ascending(s)
        /\ \A i \in DOMAIN s : /\ s[i].start =< head.start
                               /\ \/ s[i] = head
                                  \/ s[i].start # head.start /\ \E j \in DOMAIN series : s[i] = series[j]
    BY <1>4, <1>5, <1>6, StoredShows
  <1>8. Edge' = Edge /\ Newest' = Newest
    <2>1. UNCHANGED <<mode, clock, pending, building>>
      BY <1>1 DEF feedVars
    <2>. QED BY <2>1 DEF Edge, Newest, BucketOf
  <1>9. head.start =< Edge
    <2>1. building # None => ~(building.start < head.start)
      BY <1>1, <1>3 DEF Overtaken
    <2>2. mode = "bars" /\ pending # << >> => ~(pending[1].ts < head.start) /\ pending[1].ts \in Int
      <3>1. ASSUME mode = "bars", pending # << >> PROVE ~(pending[1].ts < head.start) /\ pending[1].ts \in Int
        <4>1. pending \in Seq(Msg)
          BY DEF TapeShapes, FeedShapes
        <4>2. 1 \in DOMAIN pending /\ pending[1] \in Msg
          BY <3>1, <4>1, TailIs
        <4>. QED BY <1>1, <1>3, <3>1, <4>2 DEF Overtaken, Msg
      <3>. QED BY <3>1
    <2>3. /\ head.start \in Int /\ building.start \in Int /\ BucketOf(clock) \in Int /\ Bucket \in Nat
          /\ head.start =< IF mode = "quotes" THEN BucketOf(clock) ELSE BucketOf(clock) - Bucket
      BY <1>5, NowIs, StartsAre DEF Newest
    <2>4. CASE building # None
      <3>1. Edge = building.start
        BY <2>4 DEF Edge
      <3>. QED BY <2>1, <2>3, <2>4, <3>1
    <2>5. CASE building = None
      <3>1. Edge = IF mode = "bars"
                   THEN IF pending # << >> THEN pending[1].ts ELSE BucketOf(clock) - Bucket
                   ELSE BucketOf(clock)
        BY <2>5 DEF Edge
      <3>. QED BY <2>2, <2>3, <3>1
    <2>. QED BY <2>4, <2>5
  <1>10. \A i \in DOMAIN s : s[i].start \in Int /\ s[i].start =< Edge
    <2>1. \A i \in DOMAIN s : s[i].start \in Int
      <3>1. \A d \in Candle : d.start \in Int
        BY DEF Candle
      <3>. QED BY <1>7, <3>1
    <2>. QED BY <1>5, <1>7, <1>9, <2>1, EdgesAre
  <1>11. /\ Ascending(rest)
         /\ \A j \in DOMAIN rest : rest[j].start =< Newest /\ rest[j].start \in Int /\ head.start < rest[j].start
    <2>1. \A j \in DOMAIN rest : j \in Nat /\ j >= 1 /\ j + 1 \in DOMAIN backfill.todo /\ rest[j] = backfill.todo[j + 1]
      BY <1>1, <1>2
    <2>2. Ascending(rest)
      <3>1. ASSUME NEW i \in DOMAIN rest, NEW j \in DOMAIN rest, i < j PROVE rest[i].start < rest[j].start
        <4>1. i + 1 < j + 1 /\ i + 1 \in DOMAIN backfill.todo /\ j + 1 \in DOMAIN backfill.todo
          BY <2>1, <3>1
        <4>2. backfill.todo[i + 1].start < backfill.todo[j + 1].start
          BY <1>4, <4>1 DEF Ascending
        <4>. QED BY <2>1, <4>2
      <3>. QED BY <3>1 DEF Ascending
    <2>3. \A j \in DOMAIN rest : rest[j].start =< Newest /\ rest[j].start \in Int
      BY <1>4, <2>1, EdgesAre
    <2>4. ASSUME NEW j \in DOMAIN rest PROVE head.start < rest[j].start
      <3>1. 1 < j + 1
        BY <2>1
      <3>. QED BY <1>1, <1>3, <1>4, <2>1, <3>1 DEF Ascending
    <2>. QED BY <2>2, <2>3, <2>4
  <1>12. \A j \in DOMAIN rest, i \in DOMAIN s : s[i].start < rest[j].start
    BY <1>5, <1>7, <1>10, <1>11
  <1>13. \A g \in Candle : ~Gone(g)'
    <2>1. closed' = << >> /\ worker'.candle = None /\ flusher'.candle = None
      BY <1>1, <1>4
    <2>. QED BY <2>1 DEF Gone
  <1>14. backfill'.at # "asked" /\ backfill'.todo = rest
    BY <1>2
  <1>15. closed' = << >> /\ worker'.candle = None /\ flusher'.candle = None /\ series' = s
    BY <1>1, <1>4, <1>6
  <1>16. Ascending(series)' /\ Ascending(backfill.todo)'
    BY <1>7, <1>11, <1>14, <1>15 DEF Ascending
  <1>. QED BY <1>8, <1>10, <1>11, <1>12, <1>13, <1>14, <1>15, <1>16 DEF InOrder

LEMMA FetchKeepsOrder == TapeShapes /\ InOrder /\ FetchHistory => InOrder'
  <1> SUFFICES ASSUME TapeShapes, InOrder, FetchHistory, slips' \cap {"untimely", "raced"} = {}
               PROVE InOrder'
    BY DEF InOrder
  <1>1. /\ backfill.at = "asked" /\ backfill' = [at |-> "priming", todo |-> Fetched]
        /\ UNCHANGED <<mode, clock, pending, worker, flusher, building, series, closed, slips>>
    BY DEF FetchHistory, feedVars
  <1>2. /\ series = << >> /\ closed = << >> /\ worker.candle = None /\ flusher.candle = None
    BY <1>1 DEF InOrder
  <1>3. PICK last \in Int :
           /\ last = Newest /\ Fetched \in Seq(Candle) /\ Len(Fetched) = WarmUp
           /\ \A i \in 1 .. WarmUp : /\ Fetched[i].start = last - Bucket * (WarmUp - i)
                                     /\ Fetched[i].start \in Int
    BY FetchedIs DEF Newest
  <1>4. PICK todo : todo = Fetched
    OBVIOUS
  <1>5. WarmUp \in Nat /\ Bucket \in Nat /\ Bucket >= 1 /\ DOMAIN todo = 1 .. WarmUp
    BY <1>3, <1>4, TapeConstants
  <1>6. ASSUME NEW i \in DOMAIN todo, NEW j \in DOMAIN todo, i < j
        PROVE  todo[i].start < todo[j].start
    <2>1. PICK a \in Nat, b \in Nat : a = WarmUp - i /\ b = WarmUp - j /\ b + 1 =< a
      BY <1>5, <1>6
    <2>2. Bucket * b + Bucket =< Bucket * a /\ Bucket * a \in Int /\ Bucket * b \in Int
      <3>1. PICK k \in Nat : a = b + 1 + k
        <4>1. a - b - 1 \in Nat /\ a = b + 1 + (a - b - 1)
          BY <2>1
        <4>. QED BY <4>1
      <3>2. Bucket * (b + 1 + k) = Bucket * b + Bucket + Bucket * k
        BY <1>5, <2>1
      <3>3. Bucket * k \in Nat /\ Bucket * b \in Nat
        BY <1>5
      <3>. QED BY <1>5, <3>1, <3>2, <3>3
    <2>3. todo[i].start = last - Bucket * a /\ todo[j].start = last - Bucket * b
      BY <1>3, <1>4, <1>5, <2>1
    <2>4. PICK p \in Int, q \in Int : p = Bucket * a /\ q = Bucket * b
      BY <2>2
    <2>5. q + Bucket =< p /\ todo[i].start = last - p /\ todo[j].start = last - q
      BY <2>2, <2>3, <2>4
    <2>. QED BY <1>5, <2>5
  <1>7. ASSUME NEW i \in DOMAIN todo PROVE todo[i].start =< last
    <2>1. PICK a \in Nat : a = WarmUp - i
      BY <1>5
    <2>2. Bucket * a \in Nat
      BY <1>5
    <2>3. todo[i].start = last - Bucket * a
      BY <1>3, <1>4, <1>5, <2>1
    <2>. QED BY <2>2, <2>3
  <1>8. Newest' = Newest
    BY <1>1 DEF Newest, BucketOf
  <1>9. \A g \in Candle : ~Gone(g)'
    BY <1>1, <1>2 DEF Gone
  <1>10. backfill'.at = "priming" /\ backfill'.todo = todo /\ series' = << >>
    BY <1>1, <1>2, <1>4
  <1>11. Ascending(series)' /\ Ascending(backfill.todo)'
    BY <1>6, <1>10 DEF Ascending
  <1>. QED BY <1>1, <1>2, <1>3, <1>7, <1>8, <1>9, <1>10, <1>11 DEF InOrder

LEMMA FoldKeepsOrder == TapeShapes /\ BarFeed /\ InTime /\ InOrder /\ Fold => InOrder'
  <1> SUFFICES ASSUME TapeShapes, BarFeed, InTime, InOrder, Fold, slips' \cap {"untimely", "raced"} = {}
               PROVE InOrder'
    BY DEF InOrder
  <1>1. PICK msg \in Msg :
    /\ worker.at = "caching" /\ worker.candle = None
    /\ UNCHANGED <<mode, clock, failures, feedVars, flusher, backfill, closed, writerVars, up>>
    /\ \/ /\ Expired(msg.ts) /\ building # None /\ msg.ts >= building.start + Bucket
          /\ worker' = [at |-> "emitting", msg |-> None, candle |-> building]
          /\ series' = Stored(building) /\ building' = Opening(msg)
       \/ /\ ~Expired(msg.ts) /\ building = None
          /\ worker' = Idle /\ series' = series /\ building' = Opening(msg)
       \/ /\ ~Expired(msg.ts) /\ building # None /\ msg.ts < building.start + Bucket
          /\ worker' = Idle /\ series' = series
          /\ building' = [start |-> building.start, pts |-> building.pts \union {msg},
                          n |-> building.n + 1, src |-> building.src]
    /\ slips' = slips \union (IF Untimely(msg) THEN {"untimely"} ELSE {})
                      \union (IF Expired(msg.ts) /\ backfill.at # "done" THEN {"raced"} ELSE {})
    BY FoldDoes
  <1>2. /\ mode # "bars" /\ ~Untimely(msg) /\ slips \cap {"untimely", "raced"} = {}
        /\ UNCHANGED <<mode, clock, flusher, closed, backfill, pending>> /\ slips \subseteq slips'
        /\ (Expired(msg.ts) => backfill.at = "done")
    <2>1. ASSUME Untimely(msg) PROVE FALSE
      BY <1>1, <2>1
    <2>2. ASSUME Expired(msg.ts), backfill.at # "done" PROVE FALSE
      BY <1>1, <2>2
    <2>. QED BY <1>1, <2>1, <2>2 DEF BarFeed, feedVars
  <1>3. /\ BucketOf(msg.ts) = BucketOf(clock) /\ msg.ts \in Nat
        /\ BucketOf(msg.ts) =< msg.ts /\ msg.ts < BucketOf(msg.ts) + Bucket
    <2>1. msg.ts \in Nat
      BY DEF Msg
    <2>. QED BY <1>2, <2>1, BucketBounds DEF Untimely
  <1>4. Opening(msg).start = BucketOf(clock) /\ Opening(msg) # None /\ Newest' = Newest
    BY <1>2, <1>3, OpeningIs DEF Opening, Newest, BucketOf
  <1>5. CASE /\ Expired(msg.ts) /\ building # None /\ msg.ts >= building.start + Bucket
             /\ worker' = [at |-> "emitting", msg |-> None, candle |-> building]
             /\ series' = Stored(building) /\ building' = Opening(msg)
    <2>1. Edge = building.start /\ Horizon = building.start /\ Edge' = BucketOf(clock)
      BY <1>4, <1>5 DEF Edge, Horizon
    <2>2. building.start =< Edge' /\ Edge' \in Int
      BY <1>3, <1>5, <2>1, StartsAre, NowIs
    <2>3. \A i \in DOMAIN series : series[i].start =< building.start
      BY <1>2, <2>1 DEF InOrder
    <2>4. \A g \in Candle : Gone(g)' => Gone(g) \/ g = building
      BY <1>2, <1>5 DEF Gone
    <2>5. building \in Candle /\ Horizon =< building.start
      BY <2>1, StartsAre DEF TapeShapes, CandleShapes
    <2>. QED BY <1>2, <1>5, <2>2, <2>3, <2>4, <2>5, StoreKeepsOrder
  <1>6. CASE worker' = Idle /\ series' = series
    <2>1. \A g \in Candle : Gone(g)' => Gone(g)
      BY <1>1, <1>2, <1>6 DEF Gone, Idle
    <2>2. Edge' = Edge
      <3>1. CASE building = None /\ building' = Opening(msg)
        BY <1>2, <1>4, <3>1 DEF Edge, BucketOf
      <3>2. CASE building # None /\ building' = [start |-> building.start, pts |-> building.pts \union {msg},
                                                 n |-> building.n + 1, src |-> building.src]
        <4>1. building'.start = building.start /\ building'.pts # {}
          BY <3>2
        <4>2. building' # None
          BY <4>1, RowKinds
        <4>. QED BY <3>2, <4>1, <4>2 DEF Edge
      <3>3. \/ building = None /\ building' = Opening(msg)
            \/ building # None /\ building' = [start |-> building.start, pts |-> building.pts \union {msg},
                                               n |-> building.n + 1, src |-> building.src]
        <4>1. worker'.at = "idle"
          BY <1>6 DEF Idle
        <4>. QED BY <1>1, <4>1
      <3>. QED BY <3>1, <3>2, <3>3
    <2>3. worker'.candle = worker.candle /\ flusher'.candle = flusher.candle
      BY <1>1, <1>2, <1>6 DEF Idle
    <2>. QED BY <1>2, <1>4, <1>6, <2>1, <2>2, <2>3, EdgesAre, OrderFramed
  <1>. QED BY <1>1, <1>5, <1>6

LEMMA FlushKeepsOrder == TapeShapes /\ BarFeed /\ InTime /\ InOrder /\ FlushStale => InOrder'
  <1> SUFFICES ASSUME TapeShapes, BarFeed, InTime, InOrder, FlushStale,
                      slips' \cap {"untimely", "raced"} = {}
               PROVE InOrder'
    BY DEF InOrder
  <1>1. /\ building # None /\ clock >= building.start + Bucket /\ building \in Candle
        /\ building' = None /\ flusher' = [at |-> "emitting", candle |-> building]
        /\ series' = Stored(building)
        /\ UNCHANGED <<mode, clock, worker, closed, backfill>>
        /\ slips' = IF backfill.at = "done" THEN slips ELSE slips \union {"raced"}
    BY DEF FlushStale, Emptied, Overdue, EndOf, TapeShapes, CandleShapes
  <1>2. backfill.at = "done" /\ slips \cap {"untimely", "raced"} = {}
    <2>1. ASSUME backfill.at # "done" PROVE FALSE
      BY <1>1, <2>1
    <2>. QED BY <1>1, <2>1
  <1>3. mode # "bars"
    BY <1>1 DEF BarFeed
  <1>4. Edge = building.start /\ Horizon = building.start /\ Edge' = BucketOf(clock)
    BY <1>1, <1>3 DEF Edge, Horizon, BucketOf
  <1>5. building.start =< Edge' /\ Edge' \in Int /\ Horizon =< building.start
    BY <1>1, <1>4, NowIs, StartsAre
  <1>6. \A i \in DOMAIN series : series[i].start =< building.start
    BY <1>2, <1>4 DEF InOrder
  <1>7. \A g \in Candle : Gone(g)' => Gone(g) \/ g = building
    BY <1>1 DEF Gone
  <1>. QED BY <1>1, <1>2, <1>5, <1>6, <1>7, StoreKeepsOrder

LEMMA TakeKeepsOrder == TapeShapes /\ BarFeed /\ InTime /\ InOrder /\ Take => InOrder'
  <1> SUFFICES ASSUME TapeShapes, BarFeed, InTime, InOrder, Take, slips' \cap {"untimely", "raced"} = {}
               PROVE InOrder'
    BY DEF InOrder
  <1>1. PICK msg \in Msg :
    /\ Len(pending) = 1 /\ msg = pending[1] /\ pending' = << >>
    /\ worker.candle = None /\ UNCHANGED <<building, flusher, closed, source, mode, clock, backfill>>
    /\ \/ worker'.candle = None /\ series' = series /\ slips \subseteq slips'
       \/ /\ mode = "bars"
          /\ \E c \in Candle :
               /\ c = [start |-> BucketOf(msg.ts), pts |-> {msg}, n |-> 1, src |-> "bar"]
               /\ c # None /\ worker' = [at |-> "emitting", msg |-> None, candle |-> c]
               /\ series' = Stored(c)
          /\ slips' = IF backfill.at = "done" THEN slips ELSE slips \union {"raced"}
    <2>1. PICK msg \in Msg :
      /\ Len(pending) = 1 /\ msg = pending[1] /\ pending' = << >>
      /\ worker.candle = None /\ UNCHANGED <<building, flusher, closed, source, mode, clock, backfill>>
      /\ \/ UNCHANGED <<worker, series, slips>>
         \/ /\ worker' = [at |-> "caching", msg |-> msg, candle |-> None] /\ series' = series
            /\ slips' = IF Full(ticks) THEN slips \union {"overflow"} ELSE slips
         \/ /\ worker' = [at |-> "caching", msg |-> msg, candle |-> None] /\ UNCHANGED <<series, slips>>
         \/ /\ mode = "bars"
            /\ \E c \in Candle :
                 /\ c = [start |-> BucketOf(msg.ts), pts |-> {msg}, n |-> 1, src |-> "bar"]
                 /\ c # None /\ worker' = [at |-> "emitting", msg |-> None, candle |-> c]
                 /\ series' = Stored(c)
            /\ slips' = IF backfill.at = "done" THEN slips ELSE slips \union {"raced"}
      BY TakeDoes
    <2>. QED BY <2>1
  <1>2. pending # << >> /\ Newest' = Newest
    BY <1>1 DEF Newest, BucketOf
  <1>3. /\ Edge =< Edge' /\ Edge' \in Int
    <2>1. CASE building = None /\ mode = "bars"
      <3>1. Edge = pending[1].ts /\ Edge' = BucketOf(clock) - Bucket
        BY <1>1, <1>2, <2>1 DEF Edge, BucketOf
      <3>2. Edge = source.ts - Bucket /\ source.ts =< BucketOf(clock)
        BY <1>2, <2>1, <3>1 DEF BarFeed
      <3>. QED BY <3>1, <3>2, NowIs, StartsAre
    <2>2. CASE building # None \/ mode # "bars"
      <3>1. Edge' = Edge
        BY <1>1, <1>2, <2>2 DEF Edge, BucketOf
      <3>. QED BY <3>1, EdgesAre
    <2>. QED BY <2>1, <2>2
  <1>4. CASE worker'.candle = None /\ series' = series /\ slips \subseteq slips'
    <2>1. \A g \in Candle : Gone(g)' => Gone(g)
      BY <1>1, <1>4 DEF Gone
    <2>2. worker'.candle = worker.candle /\ flusher'.candle = flusher.candle /\ closed' = closed
      BY <1>1, <1>4
    <2>. QED BY <1>1, <1>2, <1>3, <1>4, <2>1, <2>2, EdgesAre, OrderFramed
  <1>5. CASE /\ mode = "bars"
             /\ \E c \in Candle :
                  /\ c = [start |-> BucketOf(msg.ts), pts |-> {msg}, n |-> 1, src |-> "bar"]
                  /\ c # None /\ worker' = [at |-> "emitting", msg |-> None, candle |-> c]
                  /\ series' = Stored(c)
             /\ slips' = IF backfill.at = "done" THEN slips ELSE slips \union {"raced"}
    <2>1. PICK c \in Candle :
                  /\ c = [start |-> BucketOf(msg.ts), pts |-> {msg}, n |-> 1, src |-> "bar"]
                  /\ c # None /\ worker' = [at |-> "emitting", msg |-> None, candle |-> c]
                  /\ series' = Stored(c)
      BY <1>5
    <2>2. backfill.at = "done" /\ slips \cap {"untimely", "raced"} = {}
      <3>1. ASSUME backfill.at # "done" PROVE FALSE
        BY <1>5, <3>1
      <3>. QED BY <1>5, <3>1
    <2>3. /\ building = None /\ msg.ts = source.ts - Bucket /\ Multiple(msg.ts)
      BY <1>1, <1>2, <1>5 DEF BarFeed
    <2>4. msg.ts \in Nat /\ Bucket \in Nat /\ Bucket >= 1
      BY NowIs DEF Msg
    <2>5. BucketOf(msg.ts) = msg.ts
      BY <2>3, <2>4, BucketIs
    <2>6. c.start = msg.ts /\ worker'.candle = c
      BY <2>1, <2>5
    <2>7. Edge = msg.ts /\ Horizon = msg.ts
      BY <1>1, <1>2, <1>5, <2>3, <2>4, StartsAre DEF Edge, Horizon
    <2>8. \A i \in DOMAIN series : series[i].start =< c.start
      BY <2>2, <2>6, <2>7 DEF InOrder
    <2>9. \A g \in Candle : Gone(g)' => Gone(g) \/ g = c
      BY <1>1, <2>6 DEF Gone
    <2>10. c.start =< Edge' /\ Horizon =< c.start /\ backfill' = backfill /\ series' = Stored(c)
      BY <1>1, <1>3, <2>1, <2>4, <2>6, <2>7
    <2>. QED BY <1>3, <2>2, <2>8, <2>9, <2>10, StoreKeepsOrder
  <1>. QED BY <1>1, <1>4, <1>5

LEMMA EmitKeepsOrder ==
  ASSUME TapeShapes, InOrder, NEW c \in Candle, Emit(c), c # None,
         \/ c = worker.candle /\ worker' = Idle /\ flusher' = flusher
         \/ c = flusher.candle /\ worker' = worker /\ flusher' = [at |-> "idle", candle |-> None]
  PROVE  InOrder'
  <1>1. /\ UNCHANGED <<mode, clock, pending, building, series, backfill>> /\ slips \subseteq slips'
        /\ closed' = Append(closed, c) /\ closed \in Seq(Candle)
    BY DEF Emit, feedVars, TapeShapes, CandleShapes
  <1>2. /\ DOMAIN closed' = 1 .. Len(closed) + 1 /\ closed'[Len(closed) + 1] = c /\ Len(closed) \in Nat
        /\ DOMAIN closed = 1 .. Len(closed) /\ \A i \in DOMAIN closed : closed'[i] = closed[i]
    BY <1>1, ShownGrows
  <1>3. \A i \in DOMAIN closed' : i \in DOMAIN closed \/ i = Len(closed) + 1
    BY <1>2
  <1>4. \A g \in Candle : Gone(g)' => Gone(g)
    <2>1. \A g : (\E i \in DOMAIN closed' : g = closed'[i]) => g = c \/ \E i \in DOMAIN closed : g = closed[i]
      BY <1>2, <1>3
    <2>2. worker'.candle = None \/ worker' = worker
      BY DEF Idle
    <2>3. flusher'.candle = None \/ flusher' = flusher
      OBVIOUS
    <2>. QED BY <2>1, <2>2, <2>3 DEF Gone
  <1>5. Edge' = Edge /\ Newest' = Newest
    BY <1>1 DEF Edge, Newest, BucketOf
  <1>6. slips' \cap {"untimely", "raced"} = {} => backfill.at = "done"
    BY <1>1 DEF InOrder
  <1>. QED BY <1>1, <1>4, <1>5, <1>6, EdgesAre, OrderFramed

LEMMA OrderStep ==
  TapeShapes /\ BarFeed /\ InTime /\ InOrder /\ [TapeNext]_tapeVars => InOrder'
  <1> SUFFICES ASSUME TapeShapes, BarFeed, InTime, InOrder, [TapeNext]_tapeVars PROVE InOrder'
    OBVIOUS
  <1>1. ASSUME worker' = worker, flusher' = flusher, closed' = closed, building' = building,
               slips \subseteq slips', mode' = mode, clock' = clock, series' = series,
               backfill' = backfill, mode = "bars" => pending' = pending
        PROVE  InOrder'
    <2>1. Edge' = Edge /\ Newest' = Newest
      BY <1>1 DEF Edge, Newest, BucketOf
    <2>2. \A g \in Candle : Gone(g)' => Gone(g)
      BY <1>1 DEF Gone
    <2>. QED BY <1>1, <2>1, <2>2, EdgesAre, OrderFramed
  <1>2. CASE ClockTicks
    <2>1. /\ clock' = clock + 1
          /\ UNCHANGED <<mode, pending, worker, flusher, closed, building, series, backfill, slips>>
      BY <1>2 DEF ClockTicks, feedVars, candleVars
    <2>2. BucketOf(clock)' = BucketOf(clock') /\ clock' \in Nat
      BY <2>1, NowIs DEF BucketOf
    <2>3. BucketOf(clock') \in Nat /\ BucketOf(clock) =< BucketOf(clock')
      BY <2>1, <2>2, NowIs, BucketBounds, BucketsGrow
    <2>4. Edge =< Edge' /\ Edge' \in Int
      <3>1. CASE building # None
        BY <2>1, <3>1, StartsAre DEF Edge
      <3>2. CASE building = None
        BY <2>1, <2>2, <2>3, <3>2, EdgesAre, NowIs DEF Edge
      <3>. QED BY <3>1, <3>2
    <2>5. Newest =< Newest' /\ Newest' \in Int
      BY <2>1, <2>2, <2>3, NowIs DEF Newest
    <2>6. \A g \in Candle : Gone(g)' => Gone(g)
      BY <2>1 DEF Gone
    <2>. QED BY <2>1, <2>4, <2>5, <2>6, OrderFramed
  <1>3. CASE Bar
    <2>1. PICK m \in Msg : Send(m) /\ m.ts = BucketOf(clock) - Bucket /\ mode = "bars"
      BY <1>3, SourceMoves
    <2>2. /\ pending = << >> /\ pending' = Append(pending, m) /\ pending \in Seq(Msg)
          /\ UNCHANGED <<mode, clock, worker, flusher, closed, building, series, backfill, slips>>
      BY <2>1 DEF Send, candleVars, TapeShapes, FeedShapes
    <2>3. pending' # << >> /\ pending'[1] = m /\ building = None
      BY <2>1, <2>2, AppendIs DEF BarFeed
    <2>4. Edge' = Edge /\ Newest' = Newest
      BY <2>1, <2>2, <2>3 DEF Edge, Newest, BucketOf
    <2>5. \A g \in Candle : Gone(g)' => Gone(g)
      BY <2>2 DEF Gone
    <2>. QED BY <2>2, <2>4, <2>5, EdgesAre, OrderFramed
  <1>4. CASE WorkerEmits \/ FlusherEmits
    <2>1. /\ worker.candle \in Candle /\ (worker.at = "emitting" => worker.candle # None)
          /\ flusher.candle \in Candle /\ (flusher.at = "emitting" => flusher.candle # None)
      BY DEF TapeShapes, CandleShapes
    <2>2. CASE WorkerEmits
      <3>1. Emit(worker.candle) /\ worker' = Idle /\ flusher' = flusher /\ worker.at = "emitting"
        BY <2>2 DEF WorkerEmits
      <3>. QED BY <2>1, <3>1, EmitKeepsOrder
    <2>3. CASE FlusherEmits
      <3>1. /\ Emit(flusher.candle) /\ flusher' = [at |-> "idle", candle |-> None] /\ worker' = worker
            /\ flusher.at = "emitting"
        BY <2>3 DEF FlusherEmits
      <3>. QED BY <2>1, <3>1, EmitKeepsOrder
    <2>. QED BY <1>4, <2>2, <2>3
  <1>5. CASE DealAgain \/ Quote \/ Poll
             \/ \E ts \in clock - Grace - 1 .. clock + FutureTolerance + 1, price \in Prices : Deal(ts, price)
    <2>1. mode # "bars" /\ UNCHANGED <<mode, clock, worker, flusher, closed, building, series, backfill, slips>>
      BY <1>5 DEF DealAgain, Quote, Poll, Deal, Send, candleVars
    <2>. QED BY <1>1, <2>1
  <1>6. CASE BeginFlush \/ Insert \/ (\E disk \in BOOLEAN : InsertFails(disk)) \/ UNCHANGED tapeVars
    <2>1. /\ UNCHANGED <<mode, clock, worker, flusher, closed, building, series, backfill, pending>>
          /\ slips \subseteq slips'
      BY <1>6 DEF BeginFlush, Insert, InsertFails, feedVars, candleVars, tapeVars
    <2>. QED BY <1>1, <2>1
  <1>7. ASSUME NEW committed \in BOOLEAN, Shutdown(committed) PROVE InOrder'
    <2>1. series' = << >> /\ backfill'.at = "done"
      BY <1>7 DEF Shutdown
    <2>2. Ascending(series)'
      BY <2>1 DEF Ascending
    <2>. QED BY <2>1, <2>2 DEF InOrder
  <1>. QED BY <1>2, <1>3, <1>4, <1>5, <1>6, <1>7, FetchKeepsOrder, PrimeKeepsOrder, FoldKeepsOrder,
              FlushKeepsOrder, TakeKeepsOrder
           DEF TapeNext, WorkerSteps, FlusherSteps, WarmupSteps, WriterSteps

-----------------------------------------------------------------------------
(* No bar reaches the writer, or the table, but one that was announced.      *)
RowsKnown ==
  /\ \A i \in DOMAIN candles : candles[i] \in Range(closed)
  /\ \A i \in DOMAIN writer.batch : writer.batch[i] \in Candle => writer.batch[i] \in Range(closed)
  /\ \A row \in kept.db : row \in Candle => row \in Range(closed)

LEMMA BatchFrom ==
  ASSUME NEW S, NEW s \in Seq(S)
  PROVE  /\ \A i \in DOMAIN Batch(s) : \E j \in DOMAIN s : Batch(s)[i] = s[j]
         /\ \A i \in DOMAIN Remaining(s) : \E j \in DOMAIN s : Remaining(s)[i] = s[j]
  <1>1. PICK k \in 0 .. Len(s) :
           /\ Batch(s) \in Seq(S) /\ Len(Batch(s)) = k
           /\ \A i \in 1 .. k : Batch(s)[i] = s[i]
           /\ Remaining(s) \in Seq(S) /\ Len(Remaining(s)) = Len(s) - k
           /\ \A i \in 1 .. Len(s) - k : Remaining(s)[i] = s[i + k]
    BY BatchIs
  <1>2. \A i \in DOMAIN Batch(s) : i \in DOMAIN s /\ Batch(s)[i] = s[i]
    BY <1>1
  <1>3. \A i \in DOMAIN Remaining(s) : i + k \in DOMAIN s /\ Remaining(s)[i] = s[i + k]
    BY <1>1
  <1>. QED BY <1>2, <1>3

LEMMA BufferedFrom ==
  ASSUME NEW S, NEW s \in Seq(S), NEW x \in S, Len(s) =< BufferLimit
  PROVE  \A i \in DOMAIN Buffered(s, x) : Buffered(s, x)[i] = x \/ \E j \in DOMAIN s : Buffered(s, x)[i] = s[j]
  <1>1. CASE Full(s)
    <2>1. s # << >>
      BY <1>1, TapeConstants DEF Full
    <2>2. PICK t \in Seq(S) : /\ t = Tail(s) /\ Len(t) = Len(s) - 1 /\ Len(s) \in Nat
                              /\ \A i \in 1 .. Len(s) - 1 : t[i] = s[i + 1]
      <3>1. /\ Tail(s) \in Seq(S) /\ Len(Tail(s)) = Len(s) - 1 /\ Len(s) \in Nat
            /\ \A i \in 1 .. Len(s) - 1 : Tail(s)[i] = s[i + 1]
        BY <2>1, TailIs
      <3>. QED BY <3>1
    <2>3. PICK b : b = Append(t, x)
      OBVIOUS
    <2>4. b \in Seq(S) /\ Len(b) = Len(t) + 1 /\ b[Len(t) + 1] = x /\ \A i \in 1 .. Len(t) : b[i] = t[i]
      BY <2>2, <2>3, AppendIs
    <2>5. \A i \in DOMAIN b : b[i] = x \/ (i + 1 \in DOMAIN s /\ b[i] = s[i + 1])
      BY <2>2, <2>4
    <2>6. Buffered(s, x) = b
      BY <1>1, <2>2, <2>3 DEF Buffered
    <2>. QED BY <2>5, <2>6
  <1>2. CASE ~Full(s)
    <2>1. PICK b : b = Append(s, x)
      OBVIOUS
    <2>2. b \in Seq(S) /\ Len(b) = Len(s) + 1 /\ b[Len(s) + 1] = x /\ \A i \in 1 .. Len(s) : b[i] = s[i]
      BY <2>1, AppendIs
    <2>3. \A i \in DOMAIN b : b[i] = x \/ (i \in DOMAIN s /\ b[i] = s[i])
      BY <2>2
    <2>4. Buffered(s, x) = b
      BY <1>2, <2>1 DEF Buffered
    <2>. QED BY <2>3, <2>4
  <1>. QED BY <1>1, <1>2

LEMMA RowsKnownStep == TapeShapes /\ RowsKnown /\ [TapeNext]_tapeVars => RowsKnown'
  <1> SUFFICES ASSUME TapeShapes, RowsKnown, [TapeNext]_tapeVars PROVE RowsKnown'
    OBVIOUS
  <1>0. /\ WriterShapes /\ ticks \in Seq(Msg) /\ candles \in Seq(Candle) /\ writer.batch \in Seq(Rows)
        /\ Len(candles) =< BufferLimit /\ Len(ticks) =< BufferLimit
    BY DEF TapeShapes, WriterShapes
  <1>1. /\ \A i \in DOMAIN candles : candles[i] \in Range(closed)
        /\ \A i \in DOMAIN writer.batch : writer.batch[i] \in Candle => writer.batch[i] \in Range(closed)
        /\ \A row \in kept.db : row \in Candle => row \in Range(closed)
    BY DEF RowsKnown
  <1>2. ASSUME closed' = closed, candles' = candles, writer'.batch = writer.batch, kept'.db = kept.db
        PROVE  RowsKnown'
    BY <1>1, <1>2 DEF RowsKnown
  <1>3. \A i \in DOMAIN Batch(candles) : Batch(candles)[i] \in Range(closed)
    BY <1>0, <1>1, BatchFrom
  <1>4. \A i \in DOMAIN Remaining(candles) : Remaining(candles)[i] \in Range(closed)
    BY <1>0, <1>1, BatchFrom
  <1>5. \A i \in DOMAIN Batch(ticks) : Batch(ticks)[i] \notin Candle
    <2>1. \A i \in DOMAIN ticks : ticks[i] \in Msg
      BY <1>0
    <2>. QED BY <1>0, <2>1, BatchFrom, RowKinds
  <1>6. \A row \in Taken(writer.batch) : row \in Candle => row \in Range(closed)
    <2>1. \A row \in Taken(writer.batch) : \E i \in DOMAIN writer.batch : row = writer.batch[i]
      BY DEF Taken
    <2>. QED BY <1>1, <2>1
  <1>7. ASSUME EndBatch, BatchIn, closed' = closed
        PROVE  /\ \A i \in DOMAIN candles' : candles'[i] \in Range(closed)'
               /\ \A i \in DOMAIN writer'.batch : writer'.batch[i] \in Range(closed)'
    <2>1. PICK at \in {"stopped", "asleep", "candles", "last_candles"}, next \in {Batch(candles), << >>} :
           /\ writer' = [at |-> at, batch |-> next]
           /\ \/ next = Batch(candles) /\ candles' = Remaining(candles)
              \/ next = << >> /\ candles' = candles
      BY <1>0, <1>7, EndBatchDoes
    <2>2. writer'.batch = next /\ Range(closed)' = Range(closed)
      BY <1>7, <2>1
    <2>. QED BY <1>1, <1>3, <1>4, <2>1, <2>2
  <1>8. CASE Insert
    <2>1. EndBatch /\ BatchIn /\ closed' = closed /\ kept' = Inserted(writer.batch)
      BY <1>8 DEF Insert, candleVars
    <2>2. kept'.db = kept.db \union Taken(writer.batch)
      BY <1>0, <2>1, InsertedIs
    <2>. QED BY <1>1, <1>6, <1>7, <2>1, <2>2 DEF RowsKnown
  <1>9. ASSUME NEW disk \in BOOLEAN, InsertFails(disk) PROVE RowsKnown'
    <2>1. EndBatch /\ BatchIn /\ closed' = closed
      BY <1>9 DEF InsertFails, candleVars
    <2>2. kept'.db = kept.db
      <3>1. \/ kept' = [kept EXCEPT !.spill = @ \union Range(writer.batch)]
            \/ kept' = [kept EXCEPT !.lost = @ \union Range(writer.batch)]
        BY <1>9 DEF InsertFails, Spilled
      <3>. QED BY <1>0, <3>1 DEF WriterShapes
    <2>. QED BY <1>1, <1>7, <2>1, <2>2 DEF RowsKnown
  <1>10. CASE BeginFlush
    <2>1. /\ UNCHANGED <<mode, clock, failures, feedVars, candleVars, kept, up, slips>>
          /\ \/ /\ ticks # << >> /\ ticks' = Remaining(ticks) /\ candles' = candles
                /\ \E at \in {"ticks", "last_ticks"} : writer' = [at |-> at, batch |-> Batch(ticks)]
             \/ /\ ticks = << >> /\ ticks' = ticks
                /\ \E at \in {"stopped", "asleep", "candles", "last_candles"} :
                     /\ writer' = [at |-> at, batch |-> Batch(candles)] /\ candles' = Remaining(candles)
      BY <1>0, <1>10, BeginFlushDoes
    <2>2. closed' = closed /\ kept' = kept
      BY <2>1 DEF candleVars
    <2>3. CASE candles' = candles /\ writer'.batch = Batch(ticks)
      BY <1>1, <1>5, <2>2, <2>3 DEF RowsKnown
    <2>4. CASE candles' = Remaining(candles) /\ writer'.batch = Batch(candles)
      BY <1>1, <1>3, <1>4, <2>2, <2>4 DEF RowsKnown
    <2>. QED BY <2>1, <2>3, <2>4
  <1>11. ASSUME NEW c \in Candle, Emit(c) PROVE RowsKnown'
    <2>1. /\ candles' = Buffered(candles, c) /\ closed' = Append(closed, c) /\ writer' = writer
          /\ closed \in Seq(Candle) /\ kept' = [kept EXCEPT !.lost = @ \union Overflow(candles)]
      BY <1>11 DEF Emit, TapeShapes, CandleShapes
    <2>2. kept'.db = kept.db
      BY <1>0, <2>1 DEF WriterShapes
    <2>3. c \in Range(closed)' /\ \A x \in Range(closed) : x \in Range(closed)'
      <3>1. /\ DOMAIN closed = 1 .. Len(closed) /\ Len(closed) \in Nat
            /\ DOMAIN closed' = 1 .. Len(closed) + 1
            /\ \A i \in DOMAIN closed : closed'[i] = closed[i]
            /\ closed'[Len(closed) + 1] = c
        BY <2>1, ShownGrows
      <3>2. \A i \in DOMAIN closed : i \in DOMAIN closed' /\ closed'[i] = closed[i]
        BY <3>1
      <3>3. Len(closed) + 1 \in DOMAIN closed'
        BY <3>1
      <3>. QED BY <3>1, <3>2, <3>3 DEF Range
    <2>4. \A i \in DOMAIN candles' : candles'[i] = c \/ \E j \in DOMAIN candles : candles'[i] = candles[j]
      BY <1>0, <2>1, BufferedFrom
    <2>. QED BY <1>1, <2>1, <2>2, <2>3, <2>4 DEF RowsKnown
  <1>12. CASE WorkerEmits \/ FlusherEmits
    <2>1. worker.candle \in Candle /\ flusher.candle \in Candle
      BY DEF TapeShapes, CandleShapes
    <2>. QED BY <1>11, <1>12, <2>1 DEF WorkerEmits, FlusherEmits
  <1>13. ASSUME NEW committed \in BOOLEAN, Shutdown(committed) PROVE RowsKnown'
    <2>1. closed' = closed /\ candles' = candles /\ writer'.batch = << >>
      BY <1>13 DEF Shutdown
    <2>2. kept'.db = kept.db \/ kept'.db = kept.db \union Taken(writer.batch)
      <3>1. kept' = Inserted(writer.batch) \/ kept' = [kept EXCEPT !.lost = @ \union Range(writer.batch)]
        BY <1>13 DEF Shutdown
      <3>2. CASE kept' = Inserted(writer.batch)
        BY <1>0, <3>2, InsertedIs
      <3>3. CASE kept' = [kept EXCEPT !.lost = @ \union Range(writer.batch)]
        BY <1>0, <3>3 DEF WriterShapes
      <3>. QED BY <3>1, <3>2, <3>3
    <2>. QED BY <1>1, <1>6, <2>1, <2>2 DEF RowsKnown
  <1>14. CASE Take
    <2>1. closed' = closed /\ candles' = candles /\ writer' = writer
      BY <1>14 DEF Take
    <2>2. kept'.db = kept.db
      <3>1. kept' = kept \/ kept' = [kept EXCEPT !.lost = @ \union Overflow(ticks)]
        BY <1>14, TakeDoes
      <3>. QED BY <1>0, <3>1 DEF WriterShapes
    <2>. QED BY <1>2, <2>1, <2>2
  <1>15. CASE ClockTicks \/ DealAgain \/ Quote \/ Poll \/ Bar \/ FetchHistory \/ Prime \/ Fold
              \/ FlushStale \/ UNCHANGED tapeVars
              \/ \E ts \in clock - Grace - 1 .. clock + FutureTolerance + 1, price \in Prices : Deal(ts, price)
    <2>1. UNCHANGED <<closed, candles, writer, kept>>
      BY <1>15 DEF ClockTicks, DealAgain, Quote, Poll, Bar, Deal, Send, FetchHistory, Prime, Fold,
                   FlushStale, candleVars, writerVars, tapeVars
    <2>. QED BY <1>2, <2>1
  <1>. QED BY <1>8, <1>9, <1>10, <1>12, <1>13, <1>14, <1>15
           DEF TapeNext, WorkerSteps, FlusherSteps, WarmupSteps, WriterSteps

LEMMA OrderIsKept == TapeShapes /\ RowsKnown /\ InOrder => SeriesOrdered /\ StoredAsShown
  <1> SUFFICES ASSUME TapeShapes, RowsKnown, InOrder, slips \cap {"untimely", "raced"} = {}
               PROVE  /\ \A i, j \in DOMAIN series : i < j => series[i].start < series[j].start
                      /\ \A row \in Bars(kept.db) : \A i \in DOMAIN series :
                           series[i].start = row.start => series[i] = row
    BY DEF SeriesOrdered, StoredAsShown
  <1>1. /\ Ascending(series)
        /\ \A g \in Candle : Gone(g) =>
             \A i \in DOMAIN series : series[i].start = g.start => series[i] = g
    BY DEF InOrder
  <1>2. ASSUME NEW row \in Bars(kept.db) PROVE row \in Candle /\ Gone(row)
    <2>1. row \in kept.db /\ row \in Rows /\ "pts" \in DOMAIN row
      BY <1>2 DEF Bars, TapeShapes, WriterShapes
    <2>2. row \in Candle
      BY <2>1, RowKinds DEF Rows
    <2>3. row \in Range(closed)
      BY <2>1, <2>2 DEF RowsKnown
    <2>. QED BY <2>2, <2>3 DEF Gone, Range
  <1>. QED BY <1>1, <1>2 DEF Ascending-----------------------------------------------------------------------------

-----------------------------------------------------------------------------
(* A row is in one place at a time.                                          *)
Spots == {"ticks", "candles", "batch", "db", "spill", "ignored", "lost"}
Housing(t, c, b, d, s, i, l) ==
  [ticks |-> t, candles |-> c, batch |-> b, db |-> d, spill |-> s, ignored |-> i, lost |-> l]
Places == Housing(Range(ticks), Range(candles), Range(writer.batch), kept.db, kept.spill, kept.ignored,
                  kept.lost)
Separate(P) == \A p, q \in Spots : p # q => P[p] \cap P[q] = {}
AllPlaces(P) == UNION {P[p] : p \in Spots}

Placed ==
  mode # "quotes" =>
    /\ IsInjective(ticks) /\ IsInjective(candles) /\ IsInjective(writer.batch)
    /\ Separate(Places) /\ AllPlaces(Places) = accepted \union Range(closed)

LEMMA HousingIs ==
  ASSUME NEW t, NEW c, NEW b, NEW d, NEW s, NEW i, NEW l, NEW P, P = Housing(t, c, b, d, s, i, l)
  PROVE  /\ P["ticks"] = t /\ P["candles"] = c /\ P["batch"] = b /\ P["db"] = d /\ P["spill"] = s
         /\ P["ignored"] = i /\ P["lost"] = l
  BY DEF Housing

(* Rows that move are still in one place, and none is new.                   *)
LEMMA MovedIs ==
  ASSUME NEW P, NEW Q, Separate(P), NEW a \in Spots, NEW b \in Spots, a # b, NEW X, X \subseteq P[a],
         Q[a] = P[a] \ X, Q[b] = P[b] \union X, \A p \in Spots \ {a, b} : Q[p] = P[p]
  PROVE  Separate(Q) /\ AllPlaces(Q) = AllPlaces(P)
  <1>1. \A p \in Spots : Q[p] \subseteq P[p] \union X
    OBVIOUS
  <1>2. \A p \in Spots : p # b => Q[p] \subseteq P[p] /\ Q[p] \cap X = {}
    BY DEF Separate
  <1>3. ASSUME NEW p \in Spots, NEW q \in Spots, p # q PROVE Q[p] \cap Q[q] = {}
    <2>1. P[p] \cap P[q] = {}
      BY <1>3 DEF Separate
    <2>2. CASE p = b
      BY <1>1, <1>2, <1>3, <2>1, <2>2
    <2>3. CASE q = b
      BY <1>1, <1>2, <1>3, <2>1, <2>3
    <2>4. CASE p # b /\ q # b
      BY <1>2, <2>1, <2>4
    <2>. QED BY <2>2, <2>3, <2>4
  <1>4. ASSUME NEW r PROVE (\E p \in Spots : r \in Q[p]) <=> (\E p \in Spots : r \in P[p])
    <2>1. ASSUME NEW p \in Spots, r \in Q[p] PROVE \E q \in Spots : r \in P[q]
      BY <1>1, <2>1
    <2>2. ASSUME NEW p \in Spots, r \in P[p] PROVE \E q \in Spots : r \in Q[q]
      <3>1. CASE p = a
        BY <2>2, <3>1
      <3>2. CASE p = b
        BY <2>2, <3>2
      <3>3. CASE p \notin {a, b}
        BY <2>2, <3>3
      <3>. QED BY <3>1, <3>2, <3>3
    <2>. QED BY <2>1, <2>2
  <1>5. AllPlaces(Q) = AllPlaces(P)
    BY <1>4 DEF AllPlaces
  <1>. QED BY <1>3, <1>5 DEF Separate

(* So are rows no place had.                                                 *)
LEMMA AddedIs ==
  ASSUME NEW P, NEW Q, Separate(P), NEW b \in Spots, NEW x, x \notin AllPlaces(P),
         Q[b] = P[b] \union {x}, \A p \in Spots \ {b} : Q[p] = P[p]
  PROVE  Separate(Q) /\ AllPlaces(Q) = AllPlaces(P) \union {x}
  <1>1. \A p \in Spots : x \notin P[p]
    BY DEF AllPlaces
  <1>2. ASSUME NEW p \in Spots, NEW q \in Spots, p # q PROVE Q[p] \cap Q[q] = {}
    <2>1. P[p] \cap P[q] = {}
      BY <1>2 DEF Separate
    <2>2. CASE p = b
      BY <1>1, <1>2, <2>1, <2>2
    <2>3. CASE q = b
      BY <1>1, <1>2, <2>1, <2>3
    <2>4. CASE p # b /\ q # b
      BY <2>1, <2>4
    <2>. QED BY <2>2, <2>3, <2>4
  <1>3. ASSUME NEW r PROVE (\E p \in Spots : r \in Q[p]) <=> ((\E p \in Spots : r \in P[p]) \/ r = x)
    OBVIOUS
  <1>4. AllPlaces(Q) = AllPlaces(P) \union {x}
    BY <1>3 DEF AllPlaces
  <1>. QED BY <1>2, <1>4 DEF Separate

LEMMA BufferedRange ==
  ASSUME NEW S, NEW s \in Seq(S), NEW x \in S, Len(s) =< BufferLimit, IsInjective(s), x \notin Range(s)
  PROVE  /\ Overflow(s) \subseteq Range(s)
         /\ Range(Buffered(s, x)) = (Range(s) \ Overflow(s)) \union {x}
         /\ IsInjective(Buffered(s, x))
  <1>0. \A i, j \in DOMAIN s : s[i] = s[j] => i = j
    BY DEF IsInjective
  <1>1. CASE Full(s)
    <2>1. s # << >>
      BY <1>1, TapeConstants DEF Full
    <2>2. /\ Tail(s) \in Seq(S) /\ Len(Tail(s)) = Len(s) - 1 /\ Len(s) \in Nat /\ Len(s) >= 1
          /\ \A i \in 1 .. Len(s) - 1 : Tail(s)[i] = s[i + 1]
      BY <2>1, TailIs
    <2>3. PICK b : b = Append(Tail(s), x)
      OBVIOUS
    <2>4. /\ b \in Seq(S) /\ Len(b) = Len(s) /\ b[Len(s)] = x
          /\ \A i \in 1 .. Len(s) - 1 : b[i] = s[i + 1]
      BY <2>2, <2>3, AppendIs
    <2>5. Overflow(s) = {s[1]} /\ Buffered(s, x) = b
      BY <1>1, <2>3, OverflowIs DEF Buffered
    <2>6. \A i \in DOMAIN s : s[i] # x
      BY DEF Range
    <2>7. DOMAIN s = 1 .. Len(s) /\ DOMAIN b = 1 .. Len(s)
      BY <2>4
    <2>8. \A i \in DOMAIN b : \/ i = Len(s) /\ b[i] = x
                              \/ i # Len(s) /\ i + 1 \in DOMAIN s /\ b[i] = s[i + 1] /\ b[i] # s[1]
      <3>1. ASSUME NEW i \in DOMAIN b, i # Len(s)
            PROVE  i + 1 \in DOMAIN s /\ b[i] = s[i + 1] /\ b[i] # s[1]
        <4>1. i + 1 \in DOMAIN s /\ b[i] = s[i + 1] /\ i + 1 # 1 /\ 1 \in DOMAIN s
          BY <2>2, <2>4, <2>7, <3>1
        <4>. QED BY <1>0, <4>1
      <3>. QED BY <2>4, <3>1
    <2>9. ASSUME NEW i \in DOMAIN b, NEW j \in DOMAIN b, b[i] = b[j] PROVE i = j
      <3>1. CASE i # Len(s) /\ j # Len(s)
        <4>1. i + 1 = j + 1
          BY <1>0, <2>8, <2>9, <3>1
        <4>. QED BY <2>7, <4>1
      <3>. QED BY <2>6, <2>8, <2>9, <3>1
    <2>10. Range(b) = (Range(s) \ {s[1]}) \union {x}
      <3>1. ASSUME NEW i \in DOMAIN b PROVE b[i] \in (Range(s) \ {s[1]}) \union {x}
        BY <2>8 DEF Range
      <3>2. x \in Range(b)
        BY <2>2, <2>4, <2>7 DEF Range
      <3>3. ASSUME NEW i \in DOMAIN s, s[i] # s[1] PROVE s[i] \in Range(b)
        <4>1. i # 1 /\ i - 1 \in DOMAIN b /\ b[i - 1] = s[i]
          BY <2>2, <2>4, <2>7, <3>3
        <4>. QED BY <4>1 DEF Range
      <3>. QED BY <3>1, <3>2, <3>3 DEF Range
    <2>11. 1 \in DOMAIN s
      BY <2>2, <2>7
    <2>12. s[1] \in Range(s)
      BY <2>11 DEF Range
    <2>13. IsInjective(b)
      BY <2>9 DEF IsInjective
    <2>. QED BY <2>5, <2>10, <2>12, <2>13
  <1>2. CASE ~Full(s)
    <2>1. PICK b : b = Append(s, x)
      OBVIOUS
    <2>2. b \in Seq(S) /\ Len(b) = Len(s) + 1 /\ b[Len(s) + 1] = x /\ Len(s) \in Nat
          /\ \A i \in 1 .. Len(s) : b[i] = s[i]
      BY <2>1, AppendIs
    <2>3. Overflow(s) = {} /\ Buffered(s, x) = b
      BY <1>2, <2>1, OverflowIs DEF Buffered
    <2>4. DOMAIN s = 1 .. Len(s) /\ DOMAIN b = 1 .. Len(s) + 1
      BY <2>2
    <2>5. \A i \in DOMAIN b : (i = Len(s) + 1 /\ b[i] = x) \/ (i \in DOMAIN s /\ b[i] = s[i])
      BY <2>2, <2>4
    <2>6. \A i \in DOMAIN s : s[i] # x /\ i \in DOMAIN b /\ b[i] = s[i]
      BY <2>2, <2>4 DEF Range
    <2>7. ASSUME NEW i \in DOMAIN b, NEW j \in DOMAIN b, b[i] = b[j] PROVE i = j
      BY <1>0, <2>5, <2>6, <2>7
    <2>8. Len(s) + 1 \in DOMAIN b
      BY <2>2, <2>4
    <2>9. Range(b) = Range(s) \union {x}
      BY <2>2, <2>5, <2>6, <2>8 DEF Range
    <2>. QED BY <2>3, <2>7, <2>9 DEF IsInjective
  <1>. QED BY <1>1, <1>2

LEMMA BatchRange ==
  ASSUME NEW S, NEW s \in Seq(S), IsInjective(s)
  PROVE  /\ Range(Batch(s)) \subseteq Range(s) /\ Range(Remaining(s)) = Range(s) \ Range(Batch(s))
         /\ IsInjective(Batch(s)) /\ IsInjective(Remaining(s))
  <1>0. \A i, j \in DOMAIN s : s[i] = s[j] => i = j
    BY DEF IsInjective
  <1>1. PICK k \in 0 .. Len(s) :
           /\ Batch(s) \in Seq(S) /\ Len(Batch(s)) = k
           /\ \A i \in 1 .. k : Batch(s)[i] = s[i]
           /\ Remaining(s) \in Seq(S) /\ Len(Remaining(s)) = Len(s) - k
           /\ \A i \in 1 .. Len(s) - k : Remaining(s)[i] = s[i + k]
    BY BatchIs
  <1>2. PICK b, r : b = Batch(s) /\ r = Remaining(s)
    OBVIOUS
  <1>3. /\ DOMAIN s = 1 .. Len(s) /\ Len(s) \in Nat /\ k \in Nat /\ k =< Len(s)
        /\ DOMAIN b = 1 .. k /\ \A i \in DOMAIN b : i \in DOMAIN s /\ b[i] = s[i]
        /\ DOMAIN r = 1 .. Len(s) - k /\ \A i \in DOMAIN r : i + k \in DOMAIN s /\ r[i] = s[i + k]
    <2>1. DOMAIN s = 1 .. Len(s) /\ Len(s) \in Nat /\ k \in Nat /\ k =< Len(s)
      BY <1>1
    <2>2. DOMAIN b = 1 .. k /\ \A i \in DOMAIN b : i \in DOMAIN s /\ b[i] = s[i]
      <3>1. DOMAIN b = 1 .. k
        BY <1>1, <1>2
      <3>. QED BY <1>1, <1>2, <2>1, <3>1
    <2>3. DOMAIN r = 1 .. Len(s) - k /\ \A i \in DOMAIN r : i + k \in DOMAIN s /\ r[i] = s[i + k]
      <3>1. DOMAIN r = 1 .. Len(s) - k
        BY <1>1, <1>2, <2>1
      <3>2. \A i \in 1 .. Len(s) - k : i + k \in 1 .. Len(s)
        BY <2>1
      <3>3. \A i \in 1 .. Len(s) - k : r[i] = s[i + k]
        BY <1>1, <1>2
      <3>. QED BY <2>1, <3>1, <3>2, <3>3
    <2>. QED BY <2>1, <2>2, <2>3
  <1>4. IsInjective(b)
    BY <1>0, <1>3 DEF IsInjective
  <1>5. ASSUME NEW i \in DOMAIN r, NEW j \in DOMAIN r, r[i] = r[j] PROVE i = j
    <2>1. i + k = j + k
      BY <1>0, <1>3, <1>5
    <2>. QED BY <1>3, <2>1
  <1>6. \A i \in DOMAIN s : i \in DOMAIN b \/ (i - k \in DOMAIN r /\ r[i - k] = s[i])
    <2>1. ASSUME NEW i \in DOMAIN s, i \notin DOMAIN b PROVE i - k \in DOMAIN r /\ r[i - k] = s[i]
      <3>1. i - k \in DOMAIN r /\ i - k + k = i
        BY <1>3, <2>1
      <3>. QED BY <1>3, <3>1
    <2>. QED BY <2>1
  <1>7. \A i \in DOMAIN r, j \in DOMAIN b : r[i] # b[j]
    <2>1. ASSUME NEW i \in DOMAIN r, NEW j \in DOMAIN b, r[i] = b[j] PROVE FALSE
      <3>1. i + k = j
        BY <1>0, <1>3, <2>1
      <3>. QED BY <1>3, <3>1
    <2>. QED BY <2>1
  <1>8. Range(b) \subseteq Range(s)
    BY <1>3 DEF Range
  <1>9. Range(r) = Range(s) \ Range(b)
    <2>1. ASSUME NEW i \in DOMAIN r PROVE r[i] \in Range(s) /\ r[i] \notin Range(b)
      BY <1>3, <1>7 DEF Range
    <2>2. ASSUME NEW i \in DOMAIN s, s[i] \notin Range(b) PROVE s[i] \in Range(r)
      <3>1. i \notin DOMAIN b
        BY <1>3, <2>2 DEF Range
      <3>. QED BY <1>6, <3>1 DEF Range
    <2>. QED BY <2>1, <2>2 DEF Range
  <1>. QED BY <1>2, <1>4, <1>5, <1>8, <1>9 DEF IsInjective

LEMMA NoRows == Range(<< >>) = {} /\ IsInjective(<< >>)
  BY DEF Range, IsInjective

(* The batch that has ended leaves the writer's hands, and the next comes in.*)
LEMMA NextHoused ==
  ASSUME candles \in Seq(Candle), IsInjective(candles), NEW next,
         \/ next = Batch(candles) /\ candles' = Remaining(candles)
         \/ next = << >> /\ candles' = candles,
         NEW P, Separate(P), P["candles"] = Range(candles), P["batch"] = {},
         NEW Q, Q["candles"] = Range(candles'), Q["batch"] = Range(next),
         \A p \in Spots \ {"candles", "batch"} : Q[p] = P[p]
  PROVE  /\ Separate(Q) /\ AllPlaces(Q) = AllPlaces(P) /\ IsInjective(candles') /\ IsInjective(next)
  <1>1. "candles" \in Spots /\ "batch" \in Spots /\ "candles" # "batch"
    BY DEF Spots
  <1>2. CASE next = Batch(candles) /\ candles' = Remaining(candles)
    <2>1. /\ Range(next) \subseteq Range(candles) /\ Range(candles') = Range(candles) \ Range(next)
          /\ IsInjective(next) /\ IsInjective(candles')
      BY <1>2, BatchRange
    <2>2. PICK X : X = Range(next)
      OBVIOUS
    <2>3. /\ X \subseteq P["candles"] /\ Q["candles"] = P["candles"] \ X /\ Q["batch"] = P["batch"] \union X
      BY <2>1, <2>2
    <2>4. Separate(Q) /\ AllPlaces(Q) = AllPlaces(P)
      BY <1>1, <2>3, MovedIs
    <2>. QED BY <2>1, <2>4
  <1>3. CASE next = << >> /\ candles' = candles
    <2>1. \A p \in Spots : Q[p] = P[p]
      BY <1>1, <1>3, NoRows
    <2>. QED BY <1>3, <2>1, NoRows DEF Separate, AllPlaces
  <1>. QED BY <1>2, <1>3

LEMMA InsertedHoused ==
  ASSUME WriterShapes, NEW P, Separate(P), P["batch"] = Range(writer.batch),
         NEW Q, Q["batch"] = {}, Q["db"] = P["db"] \union Taken(writer.batch),
         Q["ignored"] = P["ignored"] \union (Range(writer.batch) \ Taken(writer.batch)),
         \A p \in Spots \ {"batch", "db", "ignored"} : Q[p] = P[p]
  PROVE  Separate(Q) /\ AllPlaces(Q) = AllPlaces(P)
  <1>1. PICK X, Y : X = Taken(writer.batch) /\ Y = Range(writer.batch) \ Taken(writer.batch)
    OBVIOUS
  <1>2. X \subseteq P["batch"] /\ Y = P["batch"] \ X
    BY <1>1, TakenIs DEF WriterShapes
  <1>3. PICK R : R = [p \in Spots |-> IF p = "batch" THEN Y ELSE IF p = "db" THEN P["db"] \union X ELSE P[p]]
    OBVIOUS
  <1>4. "batch" \in Spots /\ "db" \in Spots /\ "ignored" \in Spots
    BY DEF Spots
  <1>5. /\ R["batch"] = P["batch"] \ X /\ R["db"] = P["db"] \union X
        /\ \A p \in Spots \ {"batch", "db"} : R[p] = P[p]
    BY <1>2, <1>3, <1>4
  <1>6. Separate(R) /\ AllPlaces(R) = AllPlaces(P)
    BY <1>2, <1>4, <1>5, MovedIs
  <1>7. R["batch"] = Y /\ R["ignored"] = P["ignored"]
    BY <1>3, <1>4
  <1>8. Y \subseteq R["batch"] /\ Q["batch"] = R["batch"] \ Y /\ Q["ignored"] = R["ignored"] \union Y
    BY <1>1, <1>7
  <1>9. \A p \in Spots \ {"batch", "ignored"} : Q[p] = R[p]
    <2>1. Q["db"] = R["db"]
      BY <1>1, <1>5
    <2>. QED BY <1>5, <2>1
  <1>10. Separate(Q) /\ AllPlaces(Q) = AllPlaces(R)
    BY <1>4, <1>6, <1>8, <1>9, MovedIs
  <1>. QED BY <1>6, <1>10

LEMMA SpilledHoused ==
  ASSUME NEW P, Separate(P), NEW to \in {"spill", "lost"}, NEW Q, Q["batch"] = {},
         Q[to] = P[to] \union P["batch"], \A p \in Spots \ {"batch", to} : Q[p] = P[p]
  PROVE  Separate(Q) /\ AllPlaces(Q) = AllPlaces(P)
  <1>1. "batch" \in Spots /\ to \in Spots /\ to # "batch"
    BY DEF Spots
  <1>2. PICK X : X = P["batch"]
    OBVIOUS
  <1>3. X \subseteq P["batch"] /\ Q["batch"] = P["batch"] \ X /\ Q[to] = P[to] \union X
    BY <1>2
  <1>. QED BY <1>1, <1>3, MovedIs

LEMMA PlacesAre ==
  /\ Places["ticks"] = Range(ticks) /\ Places["candles"] = Range(candles)
  /\ Places["batch"] = Range(writer.batch) /\ Places["db"] = kept.db /\ Places["spill"] = kept.spill
  /\ Places["ignored"] = kept.ignored /\ Places["lost"] = kept.lost
  BY HousingIs DEF Places

LEMMA InsertKeepsPlaced == TapeShapes /\ Placed /\ Insert => Placed'
  <1> SUFFICES ASSUME TapeShapes, Placed, Insert, mode' # "quotes" PROVE Placed'
    BY DEF Placed
  <1>1. /\ WriterShapes /\ BatchIn /\ EndBatch /\ kept' = Inserted(writer.batch)
        /\ mode' = mode /\ accepted' = accepted /\ closed' = closed /\ ticks' = ticks
    BY DEF Insert, TapeShapes, feedVars, candleVars
  <1>2. /\ IsInjective(ticks) /\ IsInjective(candles) /\ IsInjective(writer.batch)
        /\ Separate(Places) /\ AllPlaces(Places) = accepted \union Range(closed)
    BY <1>1 DEF Placed
  <1>3. PICK at \in {"stopped", "asleep", "candles", "last_candles"}, next \in {Batch(candles), << >>} :
           /\ writer' = [at |-> at, batch |-> next]
           /\ \/ next = Batch(candles) /\ candles' = Remaining(candles)
              \/ next = << >> /\ candles' = candles
    BY <1>1, EndBatchDoes
  <1>4. PICK P : P = Places
    OBVIOUS
  <1>5. PICK R : R = Housing(Range(ticks), Range(candles), {}, kept.db \union Taken(writer.batch), kept.spill,
                             kept.ignored \union (Range(writer.batch) \ Taken(writer.batch)), kept.lost)
    OBVIOUS
  <1>6. PICK Q : Q = Housing(Range(ticks), Range(candles'), Range(next), kept'.db, kept'.spill, kept'.ignored,
                             kept'.lost)
    OBVIOUS
  <1>7. /\ kept'.db = kept.db \union Taken(writer.batch) /\ kept'.spill = kept.spill
        /\ kept'.ignored = kept.ignored \union (Range(writer.batch) \ Taken(writer.batch))
        /\ kept'.lost = kept.lost
    BY <1>1, InsertedIs
  <1>8. Separate(R) /\ AllPlaces(R) = AllPlaces(P)
    <2>1. /\ R["batch"] = {} /\ R["db"] = P["db"] \union Taken(writer.batch)
          /\ R["ignored"] = P["ignored"] \union (Range(writer.batch) \ Taken(writer.batch))
          /\ R["ticks"] = P["ticks"] /\ R["candles"] = P["candles"] /\ R["spill"] = P["spill"]
          /\ R["lost"] = P["lost"] /\ P["batch"] = Range(writer.batch)
      BY <1>4, <1>5, HousingIs, PlacesAre
    <2>2. \A p \in Spots \ {"batch", "db", "ignored"} : R[p] = P[p]
      BY <2>1 DEF Spots
    <2>. QED BY <1>1, <1>2, <1>4, <2>1, <2>2, InsertedHoused
  <1>9. Separate(Q) /\ AllPlaces(Q) = AllPlaces(R) /\ IsInjective(candles') /\ IsInjective(next)
    <2>1. /\ R["candles"] = Range(candles) /\ R["batch"] = {}
          /\ Q["candles"] = Range(candles') /\ Q["batch"] = Range(next)
          /\ Q["ticks"] = R["ticks"] /\ Q["db"] = R["db"] /\ Q["spill"] = R["spill"]
          /\ Q["ignored"] = R["ignored"] /\ Q["lost"] = R["lost"]
      BY <1>5, <1>6, <1>7, HousingIs
    <2>2. \A p \in Spots \ {"candles", "batch"} : Q[p] = R[p]
      BY <2>1 DEF Spots
    <2>3. candles \in Seq(Candle)
      BY <1>1 DEF WriterShapes
    <2>. QED BY <1>2, <1>3, <1>8, <2>1, <2>2, <2>3, NextHoused
  <1>10. Places' = Q /\ writer'.batch = next
    BY <1>1, <1>3, <1>6 DEF Places
  <1>. QED BY <1>1, <1>2, <1>4, <1>8, <1>9, <1>10 DEF Placed

LEMMA FailureKeepsPlaced ==
  ASSUME TapeShapes, Placed, NEW disk \in BOOLEAN, InsertFails(disk)
  PROVE  Placed'
  <1> SUFFICES ASSUME mode' # "quotes" PROVE Placed'
    BY DEF Placed
  <1>1. /\ WriterShapes /\ BatchIn /\ EndBatch
        /\ mode' = mode /\ accepted' = accepted /\ closed' = closed /\ ticks' = ticks
    BY DEF InsertFails, TapeShapes, feedVars, candleVars
  <1>2. /\ IsInjective(ticks) /\ IsInjective(candles) /\ IsInjective(writer.batch)
        /\ Separate(Places) /\ AllPlaces(Places) = accepted \union Range(closed)
    BY <1>1 DEF Placed
  <1>3. PICK at \in {"stopped", "asleep", "candles", "last_candles"}, next \in {Batch(candles), << >>} :
           /\ writer' = [at |-> at, batch |-> next]
           /\ \/ next = Batch(candles) /\ candles' = Remaining(candles)
              \/ next = << >> /\ candles' = candles
    BY <1>1, EndBatchDoes
  <1>4. PICK P : P = Places
    OBVIOUS
  <1>5. PICK R : R = Housing(Range(ticks), Range(candles), {}, kept'.db, kept'.spill, kept'.ignored, kept'.lost)
    OBVIOUS
  <1>6. PICK Q : Q = Housing(Range(ticks), Range(candles'), Range(next), kept'.db, kept'.spill, kept'.ignored,
                             kept'.lost)
    OBVIOUS
  <1>7. /\ kept'.db = kept.db /\ kept'.ignored = kept.ignored
        /\ \/ kept'.spill = kept.spill \union Range(writer.batch) /\ kept'.lost = kept.lost
           \/ kept'.lost = kept.lost \union Range(writer.batch) /\ kept'.spill = kept.spill
    <2>1. \/ kept' = [kept EXCEPT !.spill = @ \union Range(writer.batch)]
          \/ kept' = [kept EXCEPT !.lost = @ \union Range(writer.batch)]
      BY DEF InsertFails, Spilled
    <2>. QED BY <1>1, <2>1 DEF WriterShapes
  <1>8. Separate(R) /\ AllPlaces(R) = AllPlaces(P)
    <2>1. /\ R["batch"] = {} /\ R["db"] = P["db"] /\ R["ignored"] = P["ignored"]
          /\ R["ticks"] = P["ticks"] /\ R["candles"] = P["candles"]
          /\ \/ R["spill"] = P["spill"] \union P["batch"] /\ R["lost"] = P["lost"]
             \/ R["lost"] = P["lost"] \union P["batch"] /\ R["spill"] = P["spill"]
      BY <1>4, <1>5, <1>7, HousingIs, PlacesAre
    <2>2. CASE R["spill"] = P["spill"] \union P["batch"] /\ R["lost"] = P["lost"]
      <3>1. \A p \in Spots \ {"batch", "spill"} : R[p] = P[p]
        BY <2>1, <2>2 DEF Spots
      <3>. QED BY <1>2, <1>4, <2>1, <2>2, <3>1, SpilledHoused
    <2>3. CASE R["lost"] = P["lost"] \union P["batch"] /\ R["spill"] = P["spill"]
      <3>1. \A p \in Spots \ {"batch", "lost"} : R[p] = P[p]
        BY <2>1, <2>3 DEF Spots
      <3>. QED BY <1>2, <1>4, <2>1, <2>3, <3>1, SpilledHoused
    <2>. QED BY <2>1, <2>2, <2>3
  <1>9. Separate(Q) /\ AllPlaces(Q) = AllPlaces(R) /\ IsInjective(candles') /\ IsInjective(next)
    <2>1. /\ R["candles"] = Range(candles) /\ R["batch"] = {}
          /\ Q["candles"] = Range(candles') /\ Q["batch"] = Range(next)
          /\ Q["ticks"] = R["ticks"] /\ Q["db"] = R["db"] /\ Q["spill"] = R["spill"]
          /\ Q["ignored"] = R["ignored"] /\ Q["lost"] = R["lost"]
      BY <1>5, <1>6, HousingIs
    <2>2. \A p \in Spots \ {"candles", "batch"} : Q[p] = R[p]
      BY <2>1 DEF Spots
    <2>3. candles \in Seq(Candle)
      BY <1>1 DEF WriterShapes
    <2>. QED BY <1>2, <1>3, <1>8, <2>1, <2>2, <2>3, NextHoused
  <1>10. Places' = Q /\ writer'.batch = next
    BY <1>1, <1>3, <1>6 DEF Places
  <1>. QED BY <1>1, <1>2, <1>4, <1>8, <1>9, <1>10 DEF Placed

LEMMA BeginKeepsPlaced == TapeShapes /\ Placed /\ BeginFlush => Placed'
  <1> SUFFICES ASSUME TapeShapes, Placed, BeginFlush, mode' # "quotes" PROVE Placed'
    BY DEF Placed
  <1>1. /\ writer.batch = << >> /\ WriterShapes
        /\ UNCHANGED <<mode, clock, failures, feedVars, candleVars, kept, up, slips>>
        /\ \/ /\ ticks # << >> /\ ticks' = Remaining(ticks) /\ candles' = candles
              /\ \E at \in {"ticks", "last_ticks"} : writer' = [at |-> at, batch |-> Batch(ticks)]
           \/ /\ ticks = << >> /\ ticks' = ticks
              /\ \E at \in {"stopped", "asleep", "candles", "last_candles"} :
                   /\ writer' = [at |-> at, batch |-> Batch(candles)] /\ candles' = Remaining(candles)
                   /\ at \in Between => Batch(candles) = << >>
    BY BeginFlushDoes DEF TapeShapes
  <1>2. /\ mode' = mode /\ accepted' = accepted /\ closed' = closed /\ kept' = kept
        /\ ticks \in Seq(Msg) /\ candles \in Seq(Candle)
    BY <1>1 DEF feedVars, candleVars, WriterShapes
  <1>3. /\ IsInjective(ticks) /\ IsInjective(candles) /\ IsInjective(writer.batch)
        /\ Separate(Places) /\ AllPlaces(Places) = accepted \union Range(closed)
    BY <1>2 DEF Placed
  <1>4. PICK P : P = Places
    OBVIOUS
  <1>5. Separate(P) /\ P["batch"] = {} /\ P["ticks"] = Range(ticks) /\ P["candles"] = Range(candles)
    BY <1>1, <1>3, <1>4, PlacesAre, NoRows
  <1>6. PICK Q : Q = Housing(Range(ticks'), Range(candles'), Range(writer'.batch), kept'.db, kept'.spill,
                             kept'.ignored, kept'.lost)
    OBVIOUS
  <1>7. /\ Q["db"] = P["db"] /\ Q["spill"] = P["spill"] /\ Q["ignored"] = P["ignored"] /\ Q["lost"] = P["lost"]
        /\ Q["ticks"] = Range(ticks') /\ Q["candles"] = Range(candles') /\ Q["batch"] = Range(writer'.batch)
    BY <1>2, <1>4, <1>6, HousingIs, PlacesAre
  <1>8. Places' = Q
    BY <1>6 DEF Places
  <1>9. CASE ticks' = Remaining(ticks) /\ candles' = candles /\ writer'.batch = Batch(ticks)
    <2>1. /\ Range(Batch(ticks)) \subseteq Range(ticks)
          /\ Range(Remaining(ticks)) = Range(ticks) \ Range(Batch(ticks))
          /\ IsInjective(Batch(ticks)) /\ IsInjective(Remaining(ticks))
      BY <1>2, <1>3, BatchRange
    <2>2. PICK X : X = Range(Batch(ticks))
      OBVIOUS
    <2>3. /\ X \subseteq P["ticks"] /\ Q["ticks"] = P["ticks"] \ X /\ Q["batch"] = P["batch"] \union X
      BY <1>5, <1>7, <1>9, <2>1, <2>2
    <2>4. "ticks" \in Spots /\ "batch" \in Spots /\ \A p \in Spots \ {"ticks", "batch"} : Q[p] = P[p]
      BY <1>5, <1>7, <1>9 DEF Spots
    <2>5. Separate(Q) /\ AllPlaces(Q) = AllPlaces(P)
      BY <1>5, <2>3, <2>4, MovedIs
    <2>. QED BY <1>2, <1>3, <1>4, <1>8, <1>9, <2>1, <2>5 DEF Placed
  <1>10. CASE ticks' = ticks /\ candles' = Remaining(candles) /\ writer'.batch = Batch(candles)
    <2>1. PICK next : next = Batch(candles)
      OBVIOUS
    <2>2. \A p \in Spots \ {"candles", "batch"} : Q[p] = P[p]
      BY <1>5, <1>7, <1>10 DEF Spots
    <2>3. Q["candles"] = Range(candles') /\ Q["batch"] = Range(next)
      BY <1>7, <1>10, <2>1
    <2>4. Separate(Q) /\ AllPlaces(Q) = AllPlaces(P) /\ IsInjective(candles') /\ IsInjective(next)
      BY <1>2, <1>3, <1>5, <1>10, <2>1, <2>2, <2>3, NextHoused
    <2>. QED BY <1>2, <1>3, <1>4, <1>8, <1>10, <2>1, <2>4 DEF Placed
  <1>. QED BY <1>1, <1>9, <1>10

LEMMA ShutdownKeepsPlaced ==
  ASSUME TapeShapes, Placed, NEW committed \in BOOLEAN, Shutdown(committed)
  PROVE  Placed'
  <1> SUFFICES ASSUME mode' # "quotes" PROVE Placed'
    BY DEF Placed
  <1>1. /\ WriterShapes /\ mode' = mode /\ accepted' = accepted /\ closed' = closed /\ ticks' = ticks
        /\ candles' = candles /\ writer'.batch = << >>
        /\ kept' = Inserted(writer.batch) \/ kept' = [kept EXCEPT !.lost = @ \union Range(writer.batch)]
    BY DEF Shutdown, TapeShapes
  <1>2. /\ IsInjective(ticks) /\ IsInjective(candles) /\ IsInjective(writer.batch)
        /\ Separate(Places) /\ AllPlaces(Places) = accepted \union Range(closed)
    BY <1>1 DEF Placed
  <1>3. PICK P : P = Places
    OBVIOUS
  <1>4. PICK Q : Q = Housing(Range(ticks), Range(candles), {}, kept'.db, kept'.spill, kept'.ignored, kept'.lost)
    OBVIOUS
  <1>5. Places' = Q
    BY <1>1, <1>4, NoRows DEF Places
  <1>6. /\ Q["ticks"] = P["ticks"] /\ Q["candles"] = P["candles"] /\ Q["batch"] = {}
        /\ Q["db"] = kept'.db /\ Q["spill"] = kept'.spill /\ Q["ignored"] = kept'.ignored
        /\ Q["lost"] = kept'.lost /\ P["batch"] = Range(writer.batch)
        /\ P["db"] = kept.db /\ P["spill"] = kept.spill /\ P["ignored"] = kept.ignored /\ P["lost"] = kept.lost
    BY <1>3, <1>4, HousingIs, PlacesAre
  <1>7. Separate(Q) /\ AllPlaces(Q) = AllPlaces(P)
    <2>1. CASE kept' = Inserted(writer.batch)
      <3>1. /\ kept'.db = kept.db \union Taken(writer.batch) /\ kept'.spill = kept.spill
            /\ kept'.ignored = kept.ignored \union (Range(writer.batch) \ Taken(writer.batch))
            /\ kept'.lost = kept.lost
        BY <1>1, <2>1, InsertedIs
      <3>2. \A p \in Spots \ {"batch", "db", "ignored"} : Q[p] = P[p]
        BY <1>6, <3>1 DEF Spots
      <3>3. /\ Q["db"] = P["db"] \union Taken(writer.batch)
            /\ Q["ignored"] = P["ignored"] \union (Range(writer.batch) \ Taken(writer.batch))
        BY <1>6, <3>1
      <3>. QED BY <1>1, <1>2, <1>3, <1>6, <3>2, <3>3, InsertedHoused
    <2>2. CASE kept' = [kept EXCEPT !.lost = @ \union Range(writer.batch)]
      <3>1. /\ kept'.db = kept.db /\ kept'.spill = kept.spill /\ kept'.ignored = kept.ignored
            /\ kept'.lost = kept.lost \union Range(writer.batch)
        BY <1>1, <2>2 DEF WriterShapes
      <3>2. \A p \in Spots \ {"batch", "lost"} : Q[p] = P[p]
        BY <1>6, <3>1 DEF Spots
      <3>3. Q["lost"] = P["lost"] \union P["batch"]
        BY <1>6, <3>1
      <3>. QED BY <1>2, <1>3, <1>6, <3>2, <3>3, SpilledHoused
    <2>. QED BY <1>1, <2>1, <2>2
  <1>. QED BY <1>1, <1>2, <1>3, <1>5, <1>7, NoRows DEF Placed

(* A row no place had enters a buffer, and at the limit the oldest is lost.  *)
LEMMA EntersHoused ==
  ASSUME NEW spot \in {"ticks", "candles"}, NEW S, NEW s \in Seq(S), NEW x \in S, Len(s) =< BufferLimit,
         IsInjective(s), NEW P, Separate(P), P[spot] = Range(s), x \notin AllPlaces(P),
         NEW Q, Q[spot] = Range(Buffered(s, x)), Q["lost"] = P["lost"] \union Overflow(s),
         \A p \in Spots \ {spot, "lost"} : Q[p] = P[p]
  PROVE  Separate(Q) /\ AllPlaces(Q) = AllPlaces(P) \union {x} /\ IsInjective(Buffered(s, x))
  <1>1. spot \in Spots /\ "lost" \in Spots /\ spot # "lost"
    BY DEF Spots
  <1>2. x \notin Range(s)
    BY <1>1 DEF AllPlaces
  <1>3. /\ Overflow(s) \subseteq Range(s) /\ IsInjective(Buffered(s, x))
        /\ Range(Buffered(s, x)) = (Range(s) \ Overflow(s)) \union {x}
    BY <1>2, BufferedRange
  <1>4. PICK X : X = Overflow(s)
    OBVIOUS
  <1>5. PICK R : R = [p \in Spots |-> IF p = spot THEN P[spot] \ X
                                      ELSE IF p = "lost" THEN P["lost"] \union X ELSE P[p]]
    OBVIOUS
  <1>6. /\ X \subseteq P[spot] /\ R[spot] = P[spot] \ X /\ R["lost"] = P["lost"] \union X
        /\ \A p \in Spots \ {spot, "lost"} : R[p] = P[p]
    BY <1>1, <1>3, <1>4, <1>5
  <1>7. Separate(R) /\ AllPlaces(R) = AllPlaces(P)
    BY <1>1, <1>6, MovedIs
  <1>8. Q[spot] = R[spot] \union {x} /\ x \notin AllPlaces(R)
    BY <1>3, <1>4, <1>6, <1>7
  <1>9. \A p \in Spots \ {spot} : Q[p] = R[p]
    <2>1. Q["lost"] = R["lost"]
      BY <1>4, <1>6
    <2>. QED BY <1>6, <2>1
  <1>10. Separate(Q) /\ AllPlaces(Q) = AllPlaces(R) \union {x}
    BY <1>1, <1>7, <1>8, <1>9, AddedIs
  <1>. QED BY <1>3, <1>7, <1>10

LEMMA TakeKeepsPlaced == TapeShapes /\ Named /\ Placed /\ Take => Placed'
  <1> SUFFICES ASSUME TapeShapes, Named, Placed, Take, mode' # "quotes" PROVE Placed'
    BY DEF Placed
  <1>0. WriterShapes /\ ticks \in Seq(Msg) /\ Len(ticks) =< BufferLimit /\ closed \in Seq(Candle)
    BY DEF TapeShapes, WriterShapes, CandleShapes
  <1>1. PICK msg \in Msg :
    /\ msg = pending[1] /\ closed' = closed /\ candles' = candles /\ writer' = writer /\ mode' = mode
    /\ \/ UNCHANGED <<accepted, ticks, kept>>
       \/ /\ ~Discarded(msg) /\ mode = "trades"
          /\ accepted' = accepted \union {msg} /\ ticks' = Buffered(ticks, msg)
          /\ kept' = [kept EXCEPT !.lost = @ \union Overflow(ticks)]
    <2>1. mode # "quotes"
      BY DEF Take
    <2>. QED BY <2>1, TakeDoes
  <1>2. /\ IsInjective(ticks) /\ IsInjective(candles) /\ IsInjective(writer.batch)
        /\ Separate(Places) /\ AllPlaces(Places) = accepted \union Range(closed)
    BY <1>1 DEF Placed
  <1>3. CASE UNCHANGED <<accepted, ticks, kept>>
    <2>1. Places' = Places
      BY <1>1, <1>3 DEF Places
    <2>. QED BY <1>1, <1>2, <1>3, <2>1 DEF Placed
  <1>4. CASE /\ ~Discarded(msg) /\ mode = "trades"
             /\ accepted' = accepted \union {msg} /\ ticks' = Buffered(ticks, msg)
             /\ kept' = [kept EXCEPT !.lost = @ \union Overflow(ticks)]
    <2>1. msg \notin accepted /\ msg \notin Range(closed)
      <3>1. msg \notin accepted
        BY <1>1, <1>4, TakenIsNew
      <3>2. \A x \in Range(closed) : x \in Candle
        BY <1>0 DEF Range
      <3>. QED BY <3>1, <3>2, RowKinds
    <2>2. PICK P, Q : P = Places /\ Q = Places'
      OBVIOUS
    <2>3. /\ kept'.db = kept.db /\ kept'.spill = kept.spill /\ kept'.ignored = kept.ignored
          /\ kept'.lost = kept.lost \union Overflow(ticks)
      BY <1>0, <1>4 DEF WriterShapes
    <2>4. /\ Q["ticks"] = Range(ticks') /\ Q["candles"] = Range(candles') /\ Q["batch"] = Range(writer'.batch)
          /\ Q["db"] = kept'.db /\ Q["spill"] = kept'.spill /\ Q["ignored"] = kept'.ignored
          /\ Q["lost"] = kept'.lost
      BY <2>2, HousingIs DEF Places
    <2>5. /\ P["ticks"] = Range(ticks) /\ P["candles"] = Range(candles) /\ P["batch"] = Range(writer.batch)
          /\ P["db"] = kept.db /\ P["spill"] = kept.spill /\ P["ignored"] = kept.ignored
          /\ P["lost"] = kept.lost
      BY <2>2, PlacesAre
    <2>6. \A p \in Spots \ {"ticks", "lost"} : Q[p] = P[p]
      BY <1>1, <2>3, <2>4, <2>5 DEF Spots
    <2>7. Q["ticks"] = Range(Buffered(ticks, msg)) /\ Q["lost"] = P["lost"] \union Overflow(ticks)
      BY <1>4, <2>3, <2>4, <2>5
    <2>8. Separate(P) /\ msg \notin AllPlaces(P)
      BY <1>2, <2>1, <2>2
    <2>9. Separate(Q) /\ AllPlaces(Q) = AllPlaces(P) \union {msg} /\ IsInjective(Buffered(ticks, msg))
      BY <1>0, <1>2, <2>5, <2>6, <2>7, <2>8, EntersHoused
    <2>. QED BY <1>1, <1>2, <1>4, <2>2, <2>9 DEF Placed
  <1>. QED BY <1>1, <1>3, <1>4

LEMMA EmittedIsNew ==
  ASSUME TapeShapes, HandsApart, BarFeed, InTime, up, mode # "quotes", NEW c \in Candle,
         \/ worker.at = "emitting" /\ c = worker.candle
         \/ flusher.at = "emitting" /\ c = flusher.candle
  PROVE  c \notin Range(closed) /\ c \notin accepted
  <1>1. c # None /\ accepted \subseteq Msg
    BY DEF TapeShapes, CandleShapes, FeedShapes
  <1>2. c \notin accepted
    BY <1>1, RowKinds
  <1>3. ASSUME NEW i \in DOMAIN closed, c = closed[i] PROVE FALSE
    <2>1. CASE mode = "trades"
      <3>1. c.pts # {} /\ c.pts \cap Shown = {}
        BY <1>1, <2>1 DEF HandsApart, Tallied
      <3>2. closed[i].pts \subseteq Shown
        BY DEF Shown
      <3>. QED BY <1>3, <3>1, <3>2
    <2>2. CASE mode = "bars"
      <3>1. "untimely" \notin slips
        BY <2>2 DEF BarFeed
      <3>2. closed[i].start # c.start
        BY <1>1, <3>1 DEF InTime
      <3>. QED BY <1>3, <3>2
    <2>. QED BY <2>1, <2>2 DEF TapeShapes, FeedShapes
  <1>. QED BY <1>2, <1>3 DEF Range

LEMMA EmitKeepsPlaced ==
  ASSUME TapeShapes, HandsApart, BarFeed, InTime, Placed, up, NEW c \in Candle, Emit(c),
         \/ worker.at = "emitting" /\ c = worker.candle
         \/ flusher.at = "emitting" /\ c = flusher.candle
  PROVE  Placed'
  <1> SUFFICES ASSUME mode' # "quotes" PROVE Placed'
    BY DEF Placed
  <1>0. /\ WriterShapes /\ candles \in Seq(Candle) /\ Len(candles) =< BufferLimit /\ closed \in Seq(Candle)
    BY DEF TapeShapes, WriterShapes, CandleShapes
  <1>1. /\ mode' = mode /\ accepted' = accepted /\ closed' = Append(closed, c) /\ ticks' = ticks
        /\ writer' = writer /\ candles' = Buffered(candles, c)
        /\ kept' = [kept EXCEPT !.lost = @ \union Overflow(candles)]
    BY DEF Emit, feedVars
  <1>2. /\ IsInjective(ticks) /\ IsInjective(candles) /\ IsInjective(writer.batch)
        /\ Separate(Places) /\ AllPlaces(Places) = accepted \union Range(closed)
    BY <1>1 DEF Placed
  <1>3. c \notin Range(closed) /\ c \notin accepted
    BY <1>1, EmittedIsNew
  <1>4. Range(closed') = Range(closed) \union {c}
    <2>1. /\ DOMAIN closed = 1 .. Len(closed) /\ Len(closed) \in Nat
          /\ DOMAIN closed' = 1 .. Len(closed) + 1
          /\ \A i \in DOMAIN closed : closed'[i] = closed[i]
          /\ closed'[Len(closed) + 1] = c
      BY <1>0, <1>1, ShownGrows
    <2>2. \A i \in DOMAIN closed' : i \in DOMAIN closed \/ i = Len(closed) + 1
      BY <2>1
    <2>3. Len(closed) + 1 \in DOMAIN closed' /\ \A i \in DOMAIN closed : i \in DOMAIN closed'
      BY <2>1
    <2>. QED BY <2>1, <2>2, <2>3 DEF Range
  <1>5. PICK P, Q : P = Places /\ Q = Places'
    OBVIOUS
  <1>6. /\ kept'.db = kept.db /\ kept'.spill = kept.spill /\ kept'.ignored = kept.ignored
        /\ kept'.lost = kept.lost \union Overflow(candles)
    BY <1>0, <1>1 DEF WriterShapes
  <1>7. /\ Q["ticks"] = Range(ticks') /\ Q["candles"] = Range(candles') /\ Q["batch"] = Range(writer'.batch)
        /\ Q["db"] = kept'.db /\ Q["spill"] = kept'.spill /\ Q["ignored"] = kept'.ignored
        /\ Q["lost"] = kept'.lost
    BY <1>5, HousingIs DEF Places
  <1>8. /\ P["ticks"] = Range(ticks) /\ P["candles"] = Range(candles) /\ P["batch"] = Range(writer.batch)
        /\ P["db"] = kept.db /\ P["spill"] = kept.spill /\ P["ignored"] = kept.ignored
        /\ P["lost"] = kept.lost
    BY <1>5, PlacesAre
  <1>9. \A p \in Spots \ {"candles", "lost"} : Q[p] = P[p]
    BY <1>1, <1>6, <1>7, <1>8 DEF Spots
  <1>10. Q["candles"] = Range(Buffered(candles, c)) /\ Q["lost"] = P["lost"] \union Overflow(candles)
    BY <1>1, <1>6, <1>7, <1>8
  <1>11. Separate(P) /\ c \notin AllPlaces(P)
    BY <1>2, <1>3, <1>5
  <1>12. Separate(Q) /\ AllPlaces(Q) = AllPlaces(P) \union {c} /\ IsInjective(Buffered(candles, c))
    BY <1>0, <1>2, <1>8, <1>9, <1>10, <1>11, EntersHoused
  <1>. QED BY <1>1, <1>2, <1>4, <1>5, <1>12 DEF Placed

LEMMA PlacedStep ==
  TapeShapes /\ Named /\ HandsApart /\ BarFeed /\ InTime /\ Placed /\ [TapeNext]_tapeVars => Placed'
  <1> SUFFICES ASSUME TapeShapes, Named, HandsApart, BarFeed, InTime, Placed, [TapeNext]_tapeVars
               PROVE Placed'
    OBVIOUS
  <1>1. CASE UNCHANGED <<mode, accepted, closed, ticks, candles, writer, kept>>
    BY <1>1 DEF Placed, Places
  <1>2. CASE WorkerEmits \/ FlusherEmits
    <2>1. worker.candle \in Candle /\ flusher.candle \in Candle
      BY DEF TapeShapes, CandleShapes
    <2>. QED BY <1>2, <2>1, EmitKeepsPlaced DEF WorkerEmits, FlusherEmits
  <1>3. CASE ClockTicks \/ DealAgain \/ Quote \/ Poll \/ Bar \/ FetchHistory \/ Prime \/ Fold
             \/ FlushStale \/ UNCHANGED tapeVars
             \/ \E ts \in clock - Grace - 1 .. clock + FutureTolerance + 1, price \in Prices : Deal(ts, price)
    <2>1. UNCHANGED <<mode, accepted, closed, ticks, candles, writer, kept>>
      BY <1>3 DEF ClockTicks, DealAgain, Quote, Poll, Bar, Deal, Send, FetchHistory, Prime, Fold,
                  FlushStale, feedVars, candleVars, writerVars, tapeVars
    <2>. QED BY <1>1, <2>1
  <1>. QED BY <1>2, <1>3, TakeKeepsPlaced, BeginKeepsPlaced, InsertKeepsPlaced, FailureKeepsPlaced,
              ShutdownKeepsPlaced
           DEF TapeNext, WorkerSteps, FlusherSteps, WarmupSteps, WriterSteps

LEMMA OnceIn ==
  ASSUME NEW s, IsInjective(s), NEW x
  PROVE  Cardinality({i \in DOMAIN s : s[i] = x}) = IF x \in Range(s) THEN 1 ELSE 0
  <1>1. CASE x \in Range(s)
    <2>1. PICK i \in DOMAIN s : s[i] = x
      BY <1>1 DEF Range
    <2>2. {j \in DOMAIN s : s[j] = x} = {i}
      BY <2>1 DEF IsInjective
    <2>. QED BY <1>1, <2>2, FS_Singleton
  <1>2. CASE x \notin Range(s)
    <2>1. {j \in DOMAIN s : s[j] = x} = {}
      BY <1>2 DEF Range
    <2>. QED BY <1>2, <2>1, FS_EmptySet
  <1>. QED BY <1>1, <1>2

LEMMA PlacedIsAccounted == TapeShapes /\ Placed => RowsAccounted
  <1> SUFFICES ASSUME TapeShapes, Placed, mode # "quotes", NEW row \in accepted \union Range(closed)
               PROVE  Cardinality({i \in DOMAIN ticks : ticks[i] = row})
                        + Cardinality({i \in DOMAIN candles : candles[i] = row})
                        + Cardinality({i \in DOMAIN writer.batch : writer.batch[i] = row})
                        + Cardinality({where \in DOMAIN kept : row \in kept[where]}) = 1
    BY DEF RowsAccounted
  <1>1. /\ IsInjective(ticks) /\ IsInjective(candles) /\ IsInjective(writer.batch)
        /\ Separate(Places) /\ AllPlaces(Places) = accepted \union Range(closed)
    BY DEF Placed
  <1>2. /\ Cardinality({i \in DOMAIN ticks : ticks[i] = row}) = IF row \in Range(ticks) THEN 1 ELSE 0
        /\ Cardinality({i \in DOMAIN candles : candles[i] = row}) = IF row \in Range(candles) THEN 1 ELSE 0
        /\ Cardinality({i \in DOMAIN writer.batch : writer.batch[i] = row})
             = IF row \in Range(writer.batch) THEN 1 ELSE 0
    BY <1>1, OnceIn
  <1>3. PICK P : P = Places
    OBVIOUS
  <1>4. PICK spot \in Spots : row \in P[spot]
    BY <1>1, <1>3 DEF AllPlaces
  <1>5. \A p \in Spots : row \in P[p] => p = spot
    BY <1>1, <1>3, <1>4 DEF Separate
  <1>6. /\ P["ticks"] = Range(ticks) /\ P["candles"] = Range(candles) /\ P["batch"] = Range(writer.batch)
        /\ P["db"] = kept["db"] /\ P["spill"] = kept["spill"] /\ P["ignored"] = kept["ignored"]
        /\ P["lost"] = kept["lost"]
    BY <1>3, PlacesAre
  <1>7. DOMAIN kept = {"db", "spill", "ignored", "lost"}
    BY DEF TapeShapes, WriterShapes
  <1>8. PICK K : K = {where \in DOMAIN kept : row \in kept[where]}
    OBVIOUS
  <1>9. CASE spot \in {"ticks", "candles", "batch"}
    <2>1. K = {}
      BY <1>5, <1>6, <1>7, <1>8, <1>9 DEF Spots
    <2>2. Cardinality(K) = 0
      BY <2>1, FS_EmptySet
    <2>3. /\ (row \in Range(ticks)) <=> spot = "ticks"
          /\ (row \in Range(candles)) <=> spot = "candles"
          /\ (row \in Range(writer.batch)) <=> spot = "batch"
      BY <1>4, <1>5, <1>6 DEF Spots
    <2>. QED BY <1>2, <1>8, <1>9, <2>2, <2>3
  <1>10. CASE spot \notin {"ticks", "candles", "batch"}
    <2>1. K = {spot}
      BY <1>4, <1>5, <1>6, <1>7, <1>8, <1>10 DEF Spots
    <2>2. Cardinality(K) = 1
      BY <2>1, FS_Singleton
    <2>3. row \notin Range(ticks) /\ row \notin Range(candles) /\ row \notin Range(writer.batch)
      BY <1>4, <1>5, <1>6, <1>10 DEF Spots
    <2>. QED BY <1>2, <1>8, <2>2, <2>3
  <1>. QED BY <1>9, <1>10

-----------------------------------------------------------------------------
(* The invariant, and the theorem.                                           *)

\* Trades are numbered apart (Named), so what a set of candles holds can be counted
\* (HandsApart) and rows can be told apart (Placed); candles that left the hands
\* lie before a horizon (InTime), which keeps the series, and what the table took
\* of it, in order (InOrder, RowsKnown).
Taped ==
  /\ TapeShapes /\ Named /\ HandsApart /\ BarFeed /\ InTime
  /\ RowsKnown /\ InOrder /\ Placed

LEMMA TapedBegins == TapeInit => Taped
  <1> SUFFICES ASSUME TapeInit PROVE Taped
    OBVIOUS
  <1>1. TapeShapes
    BY ShapesBegin
  <1>2. /\ clock = Bucket /\ sent = 0 /\ source.id = 0 /\ pending = << >> /\ track.ids = << >>
        /\ source.ts = (IF mode = "bars" THEN 0 ELSE Bucket)
        /\ worker = Idle /\ flusher = [at |-> "idle", candle |-> None] /\ building = None
        /\ series = << >> /\ closed = << >> /\ accepted = {} /\ ticks = << >> /\ candles = << >>
        /\ writer.batch = << >> /\ kept = [db |-> {}, spill |-> {}, ignored |-> {}, lost |-> {}]
        /\ slips = {} /\ backfill.at # "priming"
    BY DEF TapeInit
  <1>3. worker.at = "idle" /\ worker.candle = None /\ flusher.candle = None /\ None.pts = {}
    BY <1>2, RowKinds DEF Idle
  <1>4. Named
    BY <1>2 DEF Named
  <1>5. Shown = {} /\ Cached = {}
    BY <1>2, <1>3 DEF Shown, Cached
  <1>6. HandsApart
    BY <1>2, <1>3, <1>5, NoneTallied DEF HandsApart
  <1>7. BarFeed
    BY <1>1, <1>2, <1>3, NowIs, ZeroMultiple DEF BarFeed
  <1>8. InTime
    BY <1>2, <1>3 DEF InTime, InBucket
  <1>9. RowsKnown
    BY <1>2 DEF RowsKnown
  <1>10. InOrder
    <2>1. Ascending(series) /\ \A g \in Candle : ~Gone(g)
      BY <1>2, <1>3 DEF Ascending, Gone
    <2>. QED BY <1>2, <1>3, <2>1 DEF InOrder
  <1>11. Placed
    <2>1. PICK P : P = Places
      OBVIOUS
    <2>2. P["ticks"] = {} /\ P["candles"] = {} /\ P["batch"] = {} /\ P["db"] = {} /\ P["spill"] = {}
          /\ P["ignored"] = {} /\ P["lost"] = {}
      BY <1>2, <2>1, PlacesAre, NoRows
    <2>3. \A p \in Spots : P[p] = {}
      BY <2>2 DEF Spots
    <2>4. Separate(P) /\ AllPlaces(P) = {}
      BY <2>3 DEF Separate, AllPlaces
    <2>. QED BY <1>2, <2>1, <2>4, NoRows DEF Placed
  <1>. QED BY <1>1, <1>4, <1>6, <1>7, <1>8, <1>9, <1>10, <1>11 DEF Taped

LEMMA TapedStays == Taped /\ [TapeNext]_tapeVars => Taped'
  BY StepKeepsShapes, NamedStep, HandsStep, BarFeedStep, TimeStep, RowsKnownStep, OrderStep, PlacedStep
     DEF Taped

(* The tape is whole, for any feed and any lengths: every trade let through  *)
(* is in one candle, every row in one place, what is shown is in order and   *)
(* what is stored is what was shown (collector.py:194-216, 411-420;          *)
(* candles.py:126-189; state.py:77-88; writer.py:47-196).                    *)
THEOREM TapeStaysWhole == TapeSpec => []TapeIsWhole
  <1>1. Taped => TapeIsWhole
    BY TapeTypesFollow, HandsAreOne, TimeIsKept, OrderIsKept, PlacedIsAccounted DEF Taped, TapeIsWhole
  <1>. QED BY <1>1, TapedBegins, TapedStays, PTL DEF TapeSpec
=============================================================================
