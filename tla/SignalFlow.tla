----------------------------- MODULE SignalFlow -----------------------------
(***************************************************************************)
(* From a tick to a decision: strategies run as tasks of one event loop,   *)
(* each under its own lock; a signal enters the registry and the symbol is *)
(* decided at once; what leaves the registry is recorded.                  *)
(*                                                                         *)
(* A strategy may be suspended while it analyses.  A decision is suspended *)
(* only while the market context asks the cache for a price, that is while *)
(* no quote of the symbol has arrived yet.                                 *)
(***************************************************************************)
EXTENDS Deliberation

CONSTANTS Instruments,
          Strategies,
          SymbolsOf,       \* what a strategy analyses; none means everything
          Cadence,         \* "tick", "candle" or "timer"
          Discoverable,    \* the strategies in the plugin directories, in order
          Desk,            \* groups, window and recent: the correlation filter
          Silent,          \* symbols whose feed may give candles and no quote
          MinSignals,      \* consensus.min_signals
          TTL,             \* signal_ttl_seconds
          MaxSignals, MaxInstances, MaxRuns, MaxTime   \* bounds

ASSUME FlowAssumption ==
  /\ Instruments # {} /\ SymbolsOf \in [Strategies -> SUBSET Instruments]
  /\ Cadence \in [Strategies -> {"tick", "candle", "timer"}]
  /\ Discoverable \in Seq(Strategies)
  /\ {MinSignals, TTL, MaxSignals, MaxInstances, MaxRuns, MaxTime} \subseteq Nat
  /\ Desk.window \in Int /\ Desk.recent \in Nat

VARIABLES
  now,
  running,    \* the strategy engine
  instances,  \* the strategy of every _LoadedStrategy made so far
  base,       \* those up to here were made before the last start
  loaded,     \* StrategyEngine._strategies
  timers,     \* instances with a job in the scheduler
  runs,       \* evaluations under way: tasks and timer jobs
  signals,    \* every signal issued: [strategy, symbol, direction, dies]
  active,     \* SignalEngine._active
  history,    \* what was recorded of each signal, in order
  decisions,  \* SignalHistoryStore._decisions
  quoted,     \* symbols with a price in MarketStateStore
  lapses     \* history: what happened that a property excuses

wiring == <<running, instances, base, loaded, timers>>
ledger == <<signals, active, history, decisions>>
flowVars   == <<now, wiring, runs, ledger, quoted, lapses>>

FlowInit ==
  /\ now = 0 /\ running = FALSE
  /\ instances = << >> /\ base = 0 /\ loaded = {} /\ timers = {}
  /\ runs = {} /\ signals = << >> /\ active = {} /\ history = << >>
  /\ decisions = << >> /\ quoted \in {Instruments, Instruments \ Silent} /\ lapses = {}

Name(i)  == instances[i]
Timed(i) == Cadence[Name(i)] = "timer"
Watched(i) == IF SymbolsOf[Name(i)] = {} THEN Instruments ELSE SymbolsOf[Name(i)]

-----------------------------------------------------------------------------
(* The strategy engine's services.                                           *)

(* Discovery registers again whatever it finds: a new instance takes the     *)
(* place of the one of that name.  Those that fail to initialize are left    *)
(* out, and whatever was loaded under their name stays.                      *)
Found == {found \in UNION {[1 .. n -> DOMAIN Discoverable] : n \in 0 .. Len(Discoverable)} :
            \A j, k \in DOMAIN found : j < k => found[j] < found[k]}

Start ==
  /\ ~running
  /\ \E found \in Found :
       LET more  == [k \in DOMAIN found |-> Discoverable[found[k]]]
           ids   == Len(instances) + 1 .. Len(instances) + Len(more)
       IN  /\ Len(instances) + Len(more) =< MaxInstances
           /\ instances' = instances \o more
           /\ base' = Len(instances)
           /\ loaded' = ids \union {i \in loaded :
                             \A k \in DOMAIN more : more[k] # Name(i)}
           /\ timers' = {i \in ids : Cadence[instances'[i]] = "timer"}
  /\ running' = TRUE
  /\ UNCHANGED <<now, runs, ledger, quoted, lapses>>

Cut(gone) == IF \E r \in gone : r.at = "judging" THEN {"cancelled"} ELSE {}

Stop ==
  /\ running
  /\ running' = FALSE /\ timers' = {} /\ runs' = {}
  /\ lapses' = lapses \union Cut(runs)
  /\ UNCHANGED <<now, instances, base, loaded, ledger, quoted>>

Load(s) ==
  /\ running /\ Len(instances) < MaxInstances
  /\ \A i \in loaded : Name(i) # s
  /\ instances' = Append(instances, s)
  /\ loaded' = loaded \union {Len(instances) + 1}
  /\ timers' = timers \union (IF Cadence[s] = "timer" THEN {Len(instances) + 1} ELSE {})
  /\ UNCHANGED <<now, running, base, runs, ledger, quoted, lapses>>

(* Removing the job cancels its task; tasks spawned by events go on.         *)
JobsWithout(i) == timers \ {i}

Unload(i) ==
  /\ running /\ i \in loaded
  /\ LET gone == {r \in runs : r.inst = i /\ r.via = "timer" /\ i \in timers}
     IN  runs' = runs \ gone /\ lapses' = lapses \union Cut(gone)
  /\ loaded' = loaded \ {i}
  /\ timers' = JobsWithout(i)
  /\ UNCHANGED <<now, running, instances, base, ledger, quoted>>

-----------------------------------------------------------------------------
(* Evaluations.  A timer job takes its symbols one after another.            *)

Run(i, via, todo) ==
  LET s == CHOOSE s \in todo : TRUE
  IN  [inst |-> i, via |-> via, symbol |-> s, todo |-> todo \ {s},
       at |-> "spawned", weighs |-> {}, since |-> 0]
Rest(r) == IF r.todo = {} THEN {} ELSE {Run(r.inst, r.via, r.todo)}
Busy(i) == \E r \in runs : r.inst = i /\ r.at \in {"thinking", "judging"}

(* A tick or a closed candle reaches every strategy of that cadence.         *)
Event(kind, symbol) ==
  /\ running
  /\ kind = "tick" => symbol \in quoted
  /\ runs' = runs \union {Run(i, "event", {symbol}) :
                i \in {i \in loaded : Cadence[Name(i)] = kind /\ symbol \in Watched(i)}}
  /\ Cardinality(runs') =< MaxRuns
  /\ UNCHANGED <<now, wiring, ledger, quoted, lapses>>

Timer(i) ==
  /\ running /\ i \in timers /\ Cardinality(runs) < MaxRuns
  /\ {r \in runs : r.inst = i /\ r.via = "timer"} = {}
  /\ runs' = runs \union {Run(i, "timer", Watched(i))}
  /\ UNCHANGED <<now, wiring, ledger, quoted, lapses>>

(* Skipped while the strategy's previous evaluation goes on.                 *)
Begin(r) ==
  /\ r.at = "spawned"
  /\ runs' = (runs \ {r}) \union
             (IF Busy(r.inst) THEN Rest(r) ELSE {[r EXCEPT !.at = "thinking"]})
  /\ UNCHANGED <<now, wiring, ledger, quoted, lapses>>

(* The strategy is disabled, sees no opportunity or raises.                  *)
Pass(r) ==
  /\ r.at \in {"spawned", "thinking"}
  /\ runs' = (runs \ {r}) \union Rest(r)
  /\ UNCHANGED <<now, wiring, ledger, quoted, lapses>>

-----------------------------------------------------------------------------
(* The registry of live signals and the verdict.                             *)

Dead(set) == {i \in set : signals[i].dies =< now}

Recorded(h, ids, status) ==
  [i \in DOMAIN h |-> IF i \in ids THEN Append(h[i], status) ELSE h[i]]

Of(symbol, set, issued) == {i \in set : issued[i].symbol = symbol}

Mutant_RecentOfSymbol(symbol, since) ==
  Correlated(symbol, now, SelectSeq(decisions, LAMBDA d : d.symbol = symbol), Desk)
(* The other filters and the thresholds are a choice: they depend on the     *)
(* market, and Deliberation says how.                                        *)
Vetoed(symbol, since) == Correlated(symbol, now, decisions, Desk)

Mutant_NothingConsumed(symbol, weighs, set, issued) == {}
Consumed(symbol, weighs, set, issued) == Of(symbol, set, issued)

Decide(symbol, weighs, since, set, issued, recorded) ==
  \E fit \in BOOLEAN :
    LET ids       == SetToSeq(weighs)
        consensus == MajorityVoting([k \in DOMAIN ids |->
                        [direction |-> issued[ids[k]].direction, score |-> 100]])
        accepted  == /\ consensus.direction # "NEUTRAL"
                     /\ Len(ids) >= MinSignals
                     /\ fit /\ ~Vetoed(symbol, since)
        consumed  == Consumed(symbol, weighs, set, issued)
    IN  /\ decisions' = Append(decisions,
              [symbol |-> symbol, at |-> since, accepted |-> accepted,
               direction |-> consensus.direction, weighs |-> weighs])
        /\ active' = set \ consumed
        /\ history' = Recorded(recorded, consumed, IF accepted THEN "ACCEPTED" ELSE "REJECTED")

(* A signal that is not coherent is recorded and goes no further.            *)
Refused(r) ==
  /\ r.at = "thinking" /\ Len(signals) < MaxSignals
  /\ signals' = Append(signals, [strategy |-> Name(r.inst), symbol |-> r.symbol,
                                 direction |-> "NEUTRAL", dies |-> now])
  /\ history' = Append(history, <<"REJECTED">>)
  /\ runs' = (runs \ {r}) \union Rest(r)
  /\ UNCHANGED <<now, wiring, active, decisions, quoted, lapses>>

(* Admission expires what is stale, takes the place of the live signal of    *)
(* that strategy and direction, and asks for a decision at once.             *)
Admitted(r) ==
  /\ r.at = "thinking" /\ Len(signals) < MaxSignals
  /\ \E d \in Directions : \E dies \in now + 1 .. now + TTL + 1 :
       LET id     == Len(signals) + 1
           issued == Append(signals, [strategy |-> Name(r.inst), symbol |-> r.symbol,
                                      direction |-> d, dies |-> dies])
           dead   == Dead(active)
           twin   == {i \in active \ dead : /\ signals[i].symbol = r.symbol
                                            /\ signals[i].strategy = Name(r.inst)
                                            /\ signals[i].direction = d}
           live   == (active \ (dead \union twin)) \union {id}
           known  == Append(Recorded(Recorded(history, dead, "EXPIRED"), twin, "SUPERSEDED"), << >>)
       IN  /\ signals' = issued
           /\ IF r.symbol \in quoted
              THEN /\ Decide(r.symbol, Of(r.symbol, live, issued), now, live, issued, known)
                   /\ runs' = (runs \ {r}) \union Rest(r)
                   /\ UNCHANGED lapses
              ELSE /\ active' = live /\ history' = known
                   /\ runs' = (runs \ {r}) \union
                              {[r EXCEPT !.at = "judging", !.since = now,
                                         !.weighs = Of(r.symbol, live, issued)]}
                   /\ lapses' = lapses \union {"suspended"}
                   /\ UNCHANGED decisions
  /\ UNCHANGED <<now, wiring, quoted>>

(* The context has been built: what was weighed may have changed since.      *)
Judge(r) ==
  /\ r.at = "judging"
  /\ Decide(r.symbol, r.weighs, r.since, active, signals, history)
  /\ runs' = (runs \ {r}) \union Rest(r)
  /\ UNCHANGED <<now, wiring, signals, quoted, lapses>>

(* Looking at the live signals expires them (the filters' page does).        *)
Inspect ==
  /\ Dead(active) # {}
  /\ active' = active \ Dead(active)
  /\ history' = Recorded(history, Dead(active), "EXPIRED")
  /\ UNCHANGED <<now, wiring, runs, signals, decisions, quoted, lapses>>

Tick ==
  /\ now < MaxTime
  /\ now' = now + 1
  /\ UNCHANGED <<wiring, runs, ledger, quoted, lapses>>

RunStep(r) == Begin(r) \/ Pass(r) \/ Refused(r) \/ Admitted(r) \/ Judge(r)

FlowNext ==
  \/ Start \/ Stop \/ Inspect \/ Tick
  \/ \E s \in Strategies : Load(s)
  \/ \E i \in loaded : Unload(i) \/ Timer(i)
  \/ \E kind \in {"tick", "candle"}, symbol \in Instruments : Event(kind, symbol)
  \/ \E r \in runs : RunStep(r)

(* A cache that is asked for a price answers or times out.                   *)
FlowFairness == WF_flowVars(\E r \in runs : Judge(r))
FlowSpec == FlowInit /\ [][FlowNext]_flowVars /\ FlowFairness

-----------------------------------------------------------------------------
(* Properties.                                                               *)

Statuses == {"ACCEPTED", "REJECTED", "EXPIRED", "SUPERSEDED"}
Ids == DOMAIN signals

(* Types, and no job in the scheduler for what is not loaded.                *)
FlowTypes ==
  /\ now \in 0 .. MaxTime /\ running \in BOOLEAN
  /\ Len(instances) =< MaxInstances /\ base \in 0 .. Len(instances)
  /\ loaded \subseteq DOMAIN instances /\ timers \subseteq loaded
  /\ Cardinality(runs) =< MaxRuns
  /\ \A r \in runs : r.inst \in DOMAIN instances /\ r.weighs \subseteq Ids
  /\ active \subseteq Ids /\ DOMAIN history = Ids
  /\ \A i \in Ids : ToSet(history[i]) \subseteq Statuses
  /\ \A d \in ToSet(decisions) : d.weighs \subseteq Ids
  /\ quoted \subseteq Instruments /\ lapses \subseteq {"suspended", "cancelled"}

(* A signal is live or it has been recorded, and it is recorded once: across *)
(* replacement, expiry, decisions suspended half way and tasks cancelled     *)
(* (signal_engine/engine.py:53-200, and 25: "nada se pierde").               *)
SignalsAccounted ==
  \A i \in Ids : Len(history[i]) = IF i \in active THEN 0 ELSE 1

(* While decisions are not suspended, a signal is weighed by one decision,   *)
(* and while it lives (decision_engine/engine.py:69-197).                    *)
DecidedOnce ==
  "suspended" \notin lapses =>
    \A j, k \in DOMAIN decisions :
      /\ j # k => decisions[j].weighs \intersect decisions[k].weighs = {}
      /\ \A i \in decisions[j].weighs :
            /\ decisions[j].at < signals[i].dies
            /\ history[i] = <<IF decisions[j].accepted THEN "ACCEPTED" ELSE "REJECTED">>

(* While they are not, every decision weighs the one signal that asked for   *)
(* it: two strategies never meet in a consensus, whatever the thresholds     *)
(* (strategy_engine/engine.py:361-362 with decision_engine/engine.py:195).   *)
OneVoice ==
  "suspended" \notin lapses =>
    \A k \in DOMAIN decisions : Cardinality(decisions[k].weighs) = 1

(* Correlated symbols are not both acted on inside the window, unless so     *)
(* many other decisions came between that the filter no longer sees the      *)
(* first (filters/filters.py:145-191, bootstrap.py:419).                     *)
CorrelatedApart ==
  "suspended" \notin lapses =>
    \A j, k \in DOMAIN decisions :
      /\ j < k /\ k - j =< Desk.recent
      /\ decisions[j].accepted /\ decisions[k].accepted
      /\ decisions[j].symbol # decisions[k].symbol
      /\ decisions[j].symbol \in GroupOf(decisions[k].symbol, Desk.groups)
      => decisions[k].at - decisions[j].at > Desk.window

(* While the engine runs, what has a job is exactly what is loaded, is timed *)
(* and was registered since the last start: not what was unloaded, not an    *)
(* instance that another took the place of (strategy_engine/engine.py:       *)
(* 106-184).                                                                 *)
JobsMatchStrategies ==
  timers = IF running THEN {i \in loaded : Timed(i) /\ i > base} ELSE {}

(* A live signal is resolved sooner or later, unless the task that was to    *)
(* decide it is cancelled: nothing else looks at it                          *)
(* (strategy_engine/engine.py:113-125, signal_engine/engine.py:132-140).     *)
NothingLingers ==
  \A i \in 1 .. MaxSignals :
    i \in active ~> i \notin active \/ "cancelled" \in lapses

(* From a strategy to a decision: a signal is resolved once, by one decision *)
(* that weighs it alone while it lives, correlated symbols are kept apart    *)
(* and the jobs are those of the strategies loaded (signal_engine/engine.py: *)
(* 53-200, decision_engine/engine.py:69-197, filters/filters.py:145-191,     *)
(* strategy_engine/engine.py:106-184, 361-362).                              *)
DecisionsHold ==
  /\ FlowTypes
  /\ SignalsAccounted /\ DecidedOnce /\ OneVoice
  /\ CorrelatedApart /\ JobsMatchStrategies
=============================================================================
