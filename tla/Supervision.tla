---------------------------- MODULE Supervision ----------------------------
(***************************************************************************)
(* The process of the engine: which services the settings wire, the order  *)
(* in which QuantEngine starts and stops them, the lifecycle every Service *)
(* goes through, the watchdog that restarts silent ones, the heartbeat job *)
(* of the scheduler it relies on, and the health monitor that reads its    *)
(* statuses.  A start or stop hook may suspend, so the engine, the         *)
(* watchdog and time interleave while a service is starting or stopping.   *)
(***************************************************************************)
EXTENDS Integers, Sequences, FiniteSets, SequencesExt

CONSTANTS Wirings,       \* the sets of optional subsystems the settings enable
          Silence,       \* ticks of silence tolerated before a component is frozen
          MaxRestarts,   \* restart budget of each component
          MaxUpsets      \* bound by wiring: slow or failing hooks, dead tasks, stalls

Optional == {"market", "quant", "execution", "production", "ml", "research"}

\* The services whose healthcheck looks at the task behind them.
Deep == {"event_bus", "collector", "market_feed", "api"}

ASSUME SupervisionAssumption ==
  /\ Wirings \subseteq SUBSET Optional
  /\ Silence \in Nat \ {0} /\ MaxRestarts \in Nat /\ MaxUpsets \in [Wirings -> Nat]

\* build_container: the quant core and the execution engine need the market.
Registered(w) ==
  {s \in w : s \in {"quant", "execution"} => "market" \in w}

\* The services each builder of the container wires, in the order they start.
\* Recovery comes before the engine whose books it restores, the guards after it.
CoreServices      == <<"event_bus", "cache", "notifications", "scheduler", "watchdog", "health_monitor">>
MarketServices    == <<"market_writer", "collector", "market_feed">>
QuantServices     == <<"history_writer", "performance_tracker", "strategy_engine">>
RecoveryServices  == <<"recovery">>
ExecutionServices == <<"execution_notifier", "execution_engine">>
GuardServices     == <<"safe_mode", "kill_switch">>
LearningServices  == <<"ml_notifier">>
ResearchServices  == <<"research_notifier">>

\* QuantEngine.__init__: the order of the services.
ServiceOrder(w) ==
  LET If(s, names) == IF s \in Registered(w) THEN names ELSE <<>>
  IN  CoreServices \o If("market", MarketServices) \o If("quant", QuantServices)
      \o If("production", RecoveryServices) \o If("execution", ExecutionServices)
      \o If("production", GuardServices) \o If("ml", LearningServices)
      \o If("research", ResearchServices) \o <<"api">>

\* The jobs of production; the optional managers of the facade are all built.
OperationalJobs ==
  {"production_hourly_report", "production_daily_report", "scheduled_backup", "notion_sync",
   "improvement_analysis", "maintenance_cleanup", "failover_heartbeat"}

\* register_market_jobs.
MarketJobs ==
  {"market_flush_candles", "market_connection_watch", "market_clock_drift", "market_metrics_snapshot"}

\* The periodic jobs QuantEngine registers, by the subsystem that brings them.
\* The timers a strategy asks for on its own (strategy_engine) are left out.
Jobs(w) ==
  LET If(s, names) == IF s \in Registered(w) THEN names ELSE {}
  IN  {"watchdog_heartbeats", "hourly_health_report"}
      \cup If("market", MarketJobs)
      \cup If("execution", {"hourly_execution_report", "daily_execution_report"})
      \cup If("ml", {"ml_nightly_training", "ml_drift_check", "ml_meta_evaluation"})
      \cup If("research", {"research_cycle"})
      \cup If("production", OperationalJobs \cup {"safe_mode_watch", "kill_switch_schedule",
                                                  "state_snapshot", "live_gate_evaluation"})

States == {"created", "starting", "running", "stopping", "stopped", "failed"}

VARIABLES
  wiring,     \* the subsystems enabled, chosen once
  state,      \* Service._state of each wired service
  working,    \* FALSE once the background task behind a service's healthcheck died
  engine,     \* [pc, at]: the start or stop sequence and the service it has reached
  dog,        \* [pc, at, late]: the watchdog task, the component it restarts, its scan
  status,     \* watchdog: ComponentStatus of each registered component
  restarts,   \* watchdog: restart_count
  age,        \* ticks since last_heartbeat, Silence + 1 standing for every later one
  monitor,    \* [last, shown]: HealthMonitor._last_status, what the bus was last told
  live,       \* AsyncScheduler: the jobs that have a task
  upsets,     \* how many faults were injected
  causes      \* history: what happened that a property excuses

processVars == <<wiring, state, working, engine, dog, status, restarts, age, monitor, live, upsets, causes>>

Order      == ServiceOrder(wiring)
Services   == Range(Order)
Supervised == Services \ {"watchdog"}
Asleep     == [pc |-> "asleep", at |-> "none", late |-> {}]
Off        == [pc |-> "off", at |-> "none", late |-> {}]

ProcessInit ==
  /\ wiring \in Wirings
  /\ state = [s \in Services |-> "created"]
  /\ working = [s \in Services |-> TRUE]
  /\ engine = [pc |-> "starting", at |-> 1]
  /\ dog = Off
  /\ status = [s \in Supervised |-> "unregistered"]
  /\ restarts = [s \in Supervised |-> 0]
  /\ age = [s \in Supervised |-> 0]
  /\ monitor = [last |-> "healthy", shown |-> "healthy"]
  /\ live = {}
  /\ upsets = 0
  /\ causes = {}

-----------------------------------------------------------------------------
(* Service.start and Service.stop, seen by whoever calls them.             *)

Mutant_OnlyRunningStops == {"running"}
Stoppable == {"running", "failed"}

\* The watchdog knows its components and the scheduler its jobs.
InCharge == status["event_bus"] # "unregistered"

\* start(): a running service is left alone, any other enters its hook.
BeginStart(s) == /\ state[s] # "running"
                 /\ state' = [state EXCEPT ![s] = "starting"]

\* The hook returns, or raises and leaves the service failed; `up` tells whether
\* the task it launched survives.  The scheduler's gives every job a task again.

EndStart(s, ok, up) ==
  /\ state' = [state EXCEPT ![s] = IF ok THEN "running" ELSE "failed"]
  /\ working' = [working EXCEPT ![s] = up]
  /\ live' = IF s = "scheduler" /\ ok /\ InCharge THEN Jobs(wiring) ELSE live
  /\ upsets' = upsets + (IF ok THEN 0 ELSE 1) /\ upsets' <= MaxUpsets[wiring]
  /\ causes' = IF ok THEN causes ELSE causes \cup {s}

\* stop(): only a running or failed service enters its hook, which never raises.
BeginStop(s) == /\ state[s] \in Stoppable
                /\ state' = [state EXCEPT ![s] = "stopping"]
                /\ live' = IF s = "scheduler" THEN {} ELSE live

EndStop(s) == state' = [state EXCEPT ![s] = "stopped"]

-----------------------------------------------------------------------------
(* QuantEngine.start: every service in order, then registration.           *)

EngineBeginsStart ==
  /\ engine.pc = "starting" /\ engine.at <= Len(Order)
  /\ BeginStart(Order[engine.at])
  /\ engine' = [engine EXCEPT !.pc = "in_start"]
  /\ UNCHANGED <<wiring, working, dog, status, restarts, age, monitor, live, upsets, causes>>

\* A hook that raises aborts start(): __main__ has not entered its try yet, so
\* the process ends without stopping what it had started.
EngineEndsStart(ok) ==
  LET s == Order[engine.at] IN
  /\ engine.pc = "in_start"
  /\ EndStart(s, ok, ok)
  /\ engine' = IF ok THEN [pc |-> "starting", at |-> engine.at + 1]
                     ELSE [engine EXCEPT !.pc = "aborted"]
  /\ dog' = IF ok /\ s = "watchdog" THEN Asleep ELSE dog
  /\ UNCHANGED <<wiring, status, restarts, age, monitor>>

\* _register_watchdog_components and the jobs, in one step with no suspension.
EngineRegisters ==
  /\ engine.pc = "starting" /\ engine.at > Len(Order)
  /\ engine' = [engine EXCEPT !.pc = "up"]
  /\ status' = [s \in Supervised |-> "ok"]
  /\ age' = [s \in Supervised |-> 0]
  /\ live' = Jobs(wiring)
  /\ UNCHANGED <<wiring, state, working, dog, restarts, monitor, upsets, causes>>

\* request_stop, then stop(): the services in reverse order.
EngineStopRequested ==
  /\ engine.pc = "up"
  /\ engine' = [pc |-> "stopping", at |-> Len(Order)]
  /\ UNCHANGED <<wiring, state, working, dog, status, restarts, age, monitor, live, upsets, causes>>

Restarting == dog.pc \in {"in_stop", "in_start"}

\* One service: skipped unless it is stoppable.  Stopping while the watchdog is
\* inside a restart is recorded: the two sequences cross.
EngineBeginsStop ==
  LET s == Order[engine.at] IN
  /\ engine.pc = "stopping" /\ engine.at > 0
  /\ \/ /\ BeginStop(s)
        /\ engine' = [engine EXCEPT !.pc = "in_stop"]
     \/ /\ state[s] \notin Stoppable /\ UNCHANGED <<state, live>>
        /\ engine' = [engine EXCEPT !.at = @ - 1]
  /\ causes' = causes \cup (IF Restarting THEN {"crossed"} ELSE {})
  /\ UNCHANGED <<wiring, working, dog, status, restarts, age, monitor, upsets>>

\* The watchdog's hook cancels its task and waits for it to end.
EngineEndsStop ==
  LET s == Order[engine.at] IN
  /\ engine.pc = "in_stop"
  /\ s = "watchdog" => dog.pc = "off"
  /\ EndStop(s)
  /\ engine' = [pc |-> "stopping", at |-> engine.at - 1]
  /\ UNCHANGED <<wiring, working, dog, status, restarts, age, monitor, live, upsets, causes>>

EngineDown ==
  /\ engine.pc = "stopping" /\ engine.at = 0
  /\ engine' = [engine EXCEPT !.pc = "down"]
  /\ UNCHANGED <<wiring, state, working, dog, status, restarts, age, monitor, live, upsets, causes>>

Alive == engine.pc \notin {"down", "aborted"}

-----------------------------------------------------------------------------
(* The watchdog and the heartbeat job.                                     *)

\* healthcheck(): running, and for the services that look deeper, the task alive.
Healthy(s) == state[s] = "running" /\ working[s]

\* heartbeat(): a frozen component that answers again is ok; no other status moves.
AfterHeartbeat(st) == IF st = "frozen" THEN "ok" ELSE st

\* The healthy components whose heartbeat would change something.
Unheard == {s \in Supervised : Healthy(s) /\ (age[s] > 0 \/ status[s] = "frozen")}

\* heartbeat_job, one pass over the services.
HeartbeatJob ==
  /\ Alive /\ "watchdog_heartbeats" \in live
  /\ Unheard # {}
  /\ status' = [s \in Supervised |-> IF Healthy(s) THEN AfterHeartbeat(status[s]) ELSE status[s]]
  /\ age' = [s \in Supervised |-> IF Healthy(s) THEN 0 ELSE age[s]]
  /\ dog' = [dog EXCEPT !.late = {s \in @ : ~Healthy(s)}]
  /\ UNCHANGED <<wiring, state, working, engine, restarts, monitor, live, upsets, causes>>

\* The check loop wakes up: `now` is read once, so who is late is settled here,
\* except that a heartbeat during the pass still rescues a component.
Mutant_FrozenOnce   == {s \in Supervised : age[s] > Silence /\ status[s] = "ok"}
Overdue == {s \in Supervised : age[s] > Silence /\ status[s] \in {"ok", "frozen"}}

Scan ==
  /\ Alive /\ dog.pc = "asleep" /\ Overdue # {}
  /\ dog' = [pc |-> "scanning", at |-> dog.at, late |-> Overdue]
  /\ UNCHANGED <<wiring, state, working, engine, status, restarts, age, monitor, live, upsets, causes>>

NextLate == Order[CHOOSE i \in DOMAIN Order :
                    Order[i] \in dog.late /\ \A j \in 1..(i - 1) : Order[j] \notin dog.late]

BudgetLeft(s) == restarts[s] < MaxRestarts

\* _try_restart: the budget, then _Restarter: stop() and start().
Visit ==
  LET s == NextLate IN
  /\ Alive /\ dog.pc = "scanning" /\ dog.late # {}
  /\ \/ /\ ~BudgetLeft(s)
        /\ status' = [status EXCEPT ![s] = "exhausted"]
        /\ dog' = [dog EXCEPT !.late = @ \ {s}]
        /\ UNCHANGED <<state, restarts, live>>
     \/ /\ BudgetLeft(s)
        /\ status' = [status EXCEPT ![s] = "restarting"]
        /\ restarts' = [restarts EXCEPT ![s] = @ + 1]
        /\ \/ /\ BeginStop(s)
              /\ dog' = [pc |-> "in_stop", at |-> s, late |-> dog.late \ {s}]
           \/ /\ state[s] \notin Stoppable /\ BeginStart(s) /\ UNCHANGED live
              /\ dog' = [pc |-> "in_start", at |-> s, late |-> dog.late \ {s}]
  /\ causes' = causes \cup (IF engine.pc # "up" THEN {"crossed"} ELSE {})
  /\ UNCHANGED <<wiring, working, engine, age, monitor, upsets>>

ScanEnds ==
  /\ dog.pc = "scanning" /\ dog.late = {}
  /\ dog' = Asleep
  /\ UNCHANGED <<wiring, state, working, engine, status, restarts, age, monitor, live, upsets, causes>>

\* stop() returns: start() follows at once, its hook may suspend again.
RestartBetween ==
  /\ Alive /\ dog.pc = "in_stop"
  /\ state' = [state EXCEPT ![dog.at] = "starting"]
  /\ dog' = [dog EXCEPT !.pc = "in_start"]
  /\ UNCHANGED <<wiring, working, engine, status, restarts, age, monitor, live, upsets, causes>>

\* The API's stop hook leaves uvicorn's should_exit set, so the server launched
\* again may leave at once: the service runs and its healthcheck fails.
RestartEnds(ok) ==
  LET s == dog.at IN
  /\ Alive /\ dog.pc = "in_start"
  /\ \E up \in IF ok /\ s = "api" THEN BOOLEAN ELSE {ok} : EndStart(s, ok, up)
  /\ status' = [status EXCEPT ![s] = IF ok THEN "ok" ELSE "frozen"]
  /\ age' = [age EXCEPT ![s] = IF ok THEN 0 ELSE @]
  /\ dog' = [pc |-> "scanning", at |-> "none", late |-> dog.late]
  /\ UNCHANGED <<wiring, engine, restarts, monitor>>

\* Its own stop hook cancels the task.  Inside a start hook the cancellation
\* leaves the component starting; inside a stop hook it may be taken for the
\* cancellation of the component's own task and vanish, the watchdog going on.
Cancelled(lost) ==
  /\ Alive /\ engine.pc = "in_stop" /\ Order[engine.at] = "watchdog"
  /\ dog.pc # "off" /\ "lost_cancel" \notin causes
  /\ lost => dog.pc = "in_stop"
  /\ dog' = IF lost THEN dog ELSE Off
  /\ causes' = causes \cup (IF lost THEN {"lost_cancel"} ELSE {})
  /\ UNCHANGED <<wiring, state, working, engine, status, restarts, age, monitor, live, upsets>>

-----------------------------------------------------------------------------
(* Time, faults and the health monitor.                                    *)

\* The heartbeat job runs several times a tick, so a healthy component is fresh.
\* A hook that outlasts a tick is a fault.
TimePasses ==
  /\ Alive /\ InCharge
  /\ "watchdog_heartbeats" \in live => Unheard = {}
  /\ {s \in Supervised : age[s] <= Silence} # {}
  /\ age' = [s \in Supervised |-> IF age[s] > Silence THEN age[s] ELSE age[s] + 1]
  /\ upsets' = upsets + (IF engine.pc = "up" /\ ~Restarting THEN 0 ELSE 1)
  /\ upsets' <= MaxUpsets[wiring]
  /\ UNCHANGED <<wiring, state, working, engine, dog, status, restarts, monitor, live, causes>>

\* A synchronous call holds the event loop past the timeout: everyone is silent,
\* and the scan may run before the heartbeat job.
Stall ==
  /\ Alive /\ InCharge /\ upsets < MaxUpsets[wiring]
  /\ age' = [s \in Supervised |-> Silence + 1]
  /\ upsets' = upsets + 1
  /\ causes' = causes \cup {"stalled"}
  /\ UNCHANGED <<wiring, state, working, engine, dog, status, restarts, monitor, live>>

\* The bus worker, the collector's drain loop or uvicorn ends, or the feed loses
\* a provider; the feed alone may come back on its own.
TaskDies(s) ==
  /\ engine.pc = "up" /\ Healthy(s) /\ upsets < MaxUpsets[wiring]
  /\ working' = [working EXCEPT ![s] = FALSE]
  /\ upsets' = upsets + 1
  /\ causes' = causes \cup {s}
  /\ UNCHANGED <<wiring, state, engine, dog, status, restarts, age, monitor, live>>

FeedReconnects ==
  /\ Alive /\ "market_feed" \in Services /\ state["market_feed"] = "running"
  /\ ~working["market_feed"]
  /\ working' = [working EXCEPT !["market_feed"] = TRUE]
  /\ UNCHANGED <<wiring, state, engine, dog, status, restarts, age, monitor, live, upsets, causes>>

\* _evaluate: only a frozen component makes the system unhealthy; whether it is
\* healthy or degraded then hangs on the machine's load, and is not told apart.
Evaluation == IF \E s \in Supervised : status[s] = "frozen" THEN "unhealthy" ELSE "healthy"

\* The transition is recorded only once the bus has taken it.
Reported(now, sent) == IF sent THEN [last |-> now, shown |-> now] ELSE monitor

Sample ==
  /\ Alive /\ state["health_monitor"] = "running"
  /\ Evaluation # monitor.last
  /\ monitor' = Reported(Evaluation, state["event_bus"] = "running")
  /\ UNCHANGED <<wiring, state, working, engine, dog, status, restarts, age, live, upsets, causes>>

-----------------------------------------------------------------------------
DogSteps ==
  \/ Scan \/ Visit \/ ScanEnds \/ RestartBetween
  \/ \E ok \in BOOLEAN : RestartEnds(ok)
  \/ \E lost \in BOOLEAN : Cancelled(lost)

EngineSteps ==
  \/ EngineBeginsStart \/ EngineRegisters \/ EngineBeginsStop \/ EngineEndsStop \/ EngineDown
  \/ \E ok \in BOOLEAN : EngineEndsStart(ok)

ProcessNext ==
  \/ EngineSteps \/ DogSteps
  \/ EngineStopRequested
  \/ HeartbeatJob \/ TimePasses \/ Stall \/ Sample \/ FeedReconnects
  \/ \E s \in Deep \cap Services : TaskDies(s)

\* The steps that wait for a hook: nothing bounds how long it takes.
EngineHookEnds == EngineEndsStop \/ \E ok \in BOOLEAN : EngineEndsStart(ok)
DogHookEnds    == RestartBetween \/ \E ok \in BOOLEAN : RestartEnds(ok)

\* Timers fire and the event loop runs every task that is ready.  No hook has to
\* return: start() and stop() await it without a timeout.
ProcessFairness ==
  /\ WF_processVars(EngineBeginsStart \/ EngineRegisters \/ EngineBeginsStop \/ EngineDown)
  /\ WF_processVars(Scan \/ Visit \/ ScanEnds \/ \E lost \in BOOLEAN : Cancelled(lost))
  /\ WF_processVars(HeartbeatJob) /\ WF_processVars(TimePasses)

ProcessSpec == ProcessInit /\ [][ProcessNext]_processVars /\ ProcessFairness

-----------------------------------------------------------------------------
(* Properties.                                                             *)

\* Every variable has its type.
ProcessTypes ==
  /\ wiring \in Wirings
  /\ state \in [Services -> States] /\ working \in [Services -> BOOLEAN]
  /\ engine.pc \in {"starting", "in_start", "aborted", "up", "stopping", "in_stop", "down"}
  /\ engine.at \in 0..(Len(Order) + 1)
  /\ dog.pc \in {"off", "asleep", "scanning", "in_stop", "in_start"}
  /\ dog.at \in Supervised \cup {"none"} /\ dog.late \subseteq Supervised
  /\ status \in [Supervised -> {"unregistered", "ok", "frozen", "restarting", "exhausted"}]
  /\ restarts \in [Supervised -> 0..MaxRestarts]
  /\ age \in [Supervised -> 0..(Silence + 1)]
  /\ monitor \in [last : {"healthy", "unhealthy"}, shown : {"healthy", "unhealthy"}]
  /\ live \subseteq Jobs(wiring)
  /\ upsets \in 0..MaxUpsets[wiring]
  /\ causes \subseteq Supervised \cup {"crossed", "stalled", "lost_cancel", "watchdog"}

\* What a service needs running around it, from the comments of
\* QuantEngine.__init__ (engine.py:49-116) and the hooks that use it.
Needs(s) ==
  CASE s = "execution_engine" -> {"event_bus", "scheduler", "collector", "recovery", "execution_notifier"}
    [] s = "kill_switch"      -> {"event_bus", "execution_engine"}
    [] s = "strategy_engine"  -> {"event_bus", "scheduler", "history_writer", "performance_tracker"}
    [] s = "market_feed"      -> {"event_bus", "collector"}
    [] s = "collector"        -> {"event_bus", "market_writer"}
    [] s = "api"              -> Services \ {"api"}
    [] OTHER                  -> {}

\* At boot and at shutdown no service runs without what it needs: the books are
\* restored before the engine manages them, and the bus outlives its users.
\* Only a watchdog restart, a failed hook or a dead task breaks it
\* (engine.py:49-116, 123-151, 477-496).
NeedsAreUp ==
  (causes = {} /\ ~Restarting) =>
    \A s \in Services : state[s] = "running" =>
      \A d \in Needs(s) \cap Services : state[d] = "running"

\* Shutdown leaves nothing running, unless the watchdog was restarting something
\* while the engine was stopping it (engine.py:477-496, lifecycle.py:76-88).
ShutdownIsComplete ==
  (engine.pc = "down" /\ "crossed" \notin causes) => \A s \in Services : state[s] = "stopped"

\* A component is restarted only if its own hook or task failed, if the scheduler
\* that carries the heartbeats did, if the loop stalled past the timeout, or
\* during a shutdown (watchdog.py:109-121, 164-181; engine.py:153-175).
RestartsAreEarned ==
  \A s \in Supervised : restarts[s] > 0 => causes \cap {s, "scheduler", "stalled", "crossed"} # {}

\* After any restart of the scheduler every job has its task again
\* (scheduler.py:132-162).
JobsSurviveRestart == (engine.pc = "up" /\ state["scheduler"] = "running") => live = Jobs(wiring)

\* What the monitor believes it announced is what the bus was last told, so the
\* announced transitions form a chain (health.py:166-186).
HealthChain == monitor.last = monitor.shown

\* A silent component is noticed: it answers again or is given up on, as long as
\* the engine is up and no hook the watchdog calls hangs for ever, for then the
\* one task that scans waits with it (watchdog.py:155-211, lifecycle.py:66, 84).
SilentIsHandled ==
  WF_processVars(DogHookEnds) =>
    \A s \in {"event_bus", "scheduler", "api"} :
      (engine.pc = "up" /\ s \in Services /\ ~Healthy(s))
        ~> (s \in Services => engine.pc # "up" \/ Healthy(s) \/ status[s] = "exhausted")

\* A shutdown ends if every hook the engine itself awaits returns, whatever those
\* of a restart under way do, unless the watchdog's cancellation was swallowed by
\* the hook it was waiting for (watchdog.py:228-233, engine.py:477-496,
\* lifecycle.py:66, 84).
ShutdownEnds ==
  WF_processVars(EngineHookEnds) =>
    (engine.pc = "stopping" ~> (engine.pc = "down" \/ "lost_cancel" \in causes))

\* The promises of the process's keeper, state by state: services run with what they
\* need, restarts have a cause, jobs come back, transitions are told in order and a
\* shutdown leaves nothing behind (engine.py:123-175, 477-496; lifecycle.py:57-101;
\* watchdog.py:109-211; health.py:166-186; scheduler.py:132-162).
ServicesHold ==
  /\ ProcessTypes
  /\ NeedsAreUp /\ ShutdownIsComplete
  /\ RestartsAreEarned /\ JobsSurviveRestart /\ HealthChain

\* Silence is answered and shutdowns end, where no hook hangs
\* (watchdog.py:155-233, engine.py:477-496).
SupervisionSettles == SilentIsHandled /\ ShutdownEnds
=============================================================================
