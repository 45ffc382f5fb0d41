------------------------------ MODULE BackOffice ------------------------------
(* The services beside the trading loop, each a module of its own.  They     *)
(* share no state - what one of them tells another is an input of the other - *)
(* so a behaviour visits one desk only.                                      *)
EXTENDS LiveGuards, SyncQueue, Backups, RuntimeConfig, ModelRegistry, Replay,
        Laboratory, Candidates, Experiments, EventBus, Sizing, Orders,
        MetaGovernance, VirtualTrades, FeatureCache, HistoryWriter

VARIABLE desk

vars == <<desk, guardVars, queueVars, backupVars, configVars, labVars,
          replayVars, studyVars, researchVars, experimentVars, busVars,
          sizingVars, orderVars, metaVars, trackerVars, featureVars,
          historyVars>>

Desks == {"guards", "queue", "backups", "config", "models", "replays",
          "studies", "research", "experiments", "bus", "sizing", "orders",
          "meta", "tracker", "features", "history"}

(* A desk that is not visited has one initial state only.                    *)
Init ==
    /\ desk \in Desks
    /\ GuardInit /\ QueueInit /\ BackupInit /\ ConfigInit
    /\ LabInit /\ ReplayInit /\ ResearchInit /\ ExperimentsInit
    /\ BusInit /\ OrdersInit /\ MetaInit /\ TrackerInit /\ FeaturesInit /\ HistoryInit
    /\ desk # "guards" => <<config, world>> = CHOOSE start \in Configs \X Worlds : TRUE
    /\ desk # "queue" => reachable
    /\ IF desk = "studies" THEN StudyInit
       ELSE study = [of |-> "replay"] /\ player = [cursor |-> -1, state |-> "paused", total |-> 0]
    /\ IF desk = "sizing" THEN SizingInit
       ELSE /\ account = CHOOSE a \in Accounts : TRUE
            /\ quote = CHOOSE q \in Quotes : TRUE
            /\ held = 0

GuardsDesk ==
    /\ desk = "guards" /\ GuardNext
    /\ UNCHANGED <<desk, queueVars, backupVars, configVars, labVars,
                   replayVars, studyVars, researchVars, experimentVars,
                   busVars, sizingVars, orderVars, metaVars, trackerVars,
                   featureVars, historyVars>>

QueueDesk ==
    /\ desk = "queue" /\ QueueNext
    /\ UNCHANGED <<desk, guardVars, backupVars, configVars, labVars,
                   replayVars, studyVars, researchVars, experimentVars,
                   busVars, sizingVars, orderVars, metaVars, trackerVars,
                   featureVars, historyVars>>

BackupsDesk ==
    /\ desk = "backups" /\ BackupNext
    /\ UNCHANGED <<desk, guardVars, queueVars, configVars, labVars, replayVars,
                   studyVars, researchVars, experimentVars, busVars,
                   sizingVars, orderVars, metaVars, trackerVars, featureVars,
                   historyVars>>

ConfigDesk ==
    /\ desk = "config" /\ ConfigNext
    /\ UNCHANGED <<desk, guardVars, queueVars, backupVars, labVars, replayVars,
                   studyVars, researchVars, experimentVars, busVars,
                   sizingVars, orderVars, metaVars, trackerVars, featureVars,
                   historyVars>>

ModelsDesk ==
    /\ desk = "models" /\ LabNext
    /\ UNCHANGED <<desk, guardVars, queueVars, backupVars, configVars,
                   replayVars, studyVars, researchVars, experimentVars,
                   busVars, sizingVars, orderVars, metaVars, trackerVars,
                   featureVars, historyVars>>

ReplaysDesk ==
    /\ desk = "replays" /\ ReplayNext
    /\ UNCHANGED <<desk, guardVars, queueVars, backupVars, configVars, labVars,
                   studyVars, researchVars, experimentVars, busVars,
                   sizingVars, orderVars, metaVars, trackerVars, featureVars,
                   historyVars>>

StudiesDesk ==
    /\ desk = "studies" /\ StudyNext
    /\ UNCHANGED <<desk, guardVars, queueVars, backupVars, configVars, labVars,
                   replayVars, researchVars, experimentVars, busVars,
                   sizingVars, orderVars, metaVars, trackerVars, featureVars,
                   historyVars>>

ResearchDesk ==
    /\ desk = "research" /\ ResearchNext
    /\ UNCHANGED <<desk, guardVars, queueVars, backupVars, configVars, labVars,
                   replayVars, studyVars, experimentVars, busVars, sizingVars,
                   orderVars, metaVars, trackerVars, featureVars, historyVars>>

ExperimentsDesk ==
    /\ desk = "experiments" /\ ExperimentsNext
    /\ UNCHANGED <<desk, guardVars, queueVars, backupVars, configVars, labVars,
                   replayVars, studyVars, researchVars, busVars, sizingVars,
                   orderVars, metaVars, trackerVars, featureVars, historyVars>>

BusDesk ==
    /\ desk = "bus" /\ BusNext
    /\ UNCHANGED <<desk, guardVars, queueVars, backupVars, configVars, labVars,
                   replayVars, studyVars, researchVars, experimentVars,
                   sizingVars, orderVars, metaVars, trackerVars, featureVars,
                   historyVars>>

SizingDesk ==
    /\ desk = "sizing" /\ Enter
    /\ UNCHANGED <<desk, guardVars, queueVars, backupVars, configVars, labVars,
                   replayVars, studyVars, researchVars, experimentVars,
                   busVars, orderVars, metaVars, trackerVars, featureVars,
                   historyVars>>

OrdersDesk ==
    /\ desk = "orders" /\ OrdersNext
    /\ UNCHANGED <<desk, guardVars, queueVars, backupVars, configVars, labVars,
                   replayVars, studyVars, researchVars, experimentVars,
                   busVars, sizingVars, metaVars, trackerVars, featureVars,
                   historyVars>>

MetaDesk ==
    /\ desk = "meta" /\ MetaNext
    /\ UNCHANGED <<desk, guardVars, queueVars, backupVars, configVars, labVars,
                   replayVars, studyVars, researchVars, experimentVars,
                   busVars, sizingVars, orderVars, trackerVars, featureVars,
                   historyVars>>

TrackerDesk ==
    /\ desk = "tracker" /\ TrackerNext
    /\ UNCHANGED <<desk, guardVars, queueVars, backupVars, configVars, labVars,
                   replayVars, studyVars, researchVars, experimentVars,
                   busVars, sizingVars, orderVars, metaVars, featureVars,
                   historyVars>>

FeaturesDesk ==
    /\ desk = "features" /\ FeaturesNext
    /\ UNCHANGED <<desk, guardVars, queueVars, backupVars, configVars, labVars,
                   replayVars, studyVars, researchVars, experimentVars,
                   busVars, sizingVars, orderVars, metaVars, trackerVars,
                   historyVars>>

HistoryDesk ==
    /\ desk = "history" /\ HistoryNext
    /\ UNCHANGED <<desk, guardVars, queueVars, backupVars, configVars, labVars,
                   replayVars, studyVars, researchVars, experimentVars,
                   busVars, sizingVars, orderVars, metaVars, trackerVars,
                   featureVars>>

Next ==
    \/ GuardsDesk \/ QueueDesk \/ BackupsDesk \/ ConfigDesk \/ ModelsDesk \/ ReplaysDesk
    \/ StudiesDesk \/ ResearchDesk \/ ExperimentsDesk \/ BusDesk \/ SizingDesk \/ OrdersDesk
    \/ MetaDesk \/ TrackerDesk \/ FeaturesDesk \/ HistoryDesk

Spec == Init /\ [][Next]_vars /\ QueueFairness

-----------------------------------------------------------------------------
(* Properties, by what they are about; every part is stated in its desk's    *)
(* module.                                                                   *)

(* Real money moves only on a fresh report that approved everything it was   *)
(* asked, under an approval of that very report, neither expired nor revoked *)
(* (production/live/gate.py, approval.py, safe_mode/controller.py).          *)
LiveIsGuarded ==
    /\ desk \in Desks /\ GuardTypeOK
    /\ FailsClosed /\ ApprovalBinds /\ RevocationIsFinal /\ LiveLapses

(* Files written beside running clients: no entry of the queue is lost that  *)
(* nothing explains, none arrives twice, a rotation spares the newest        *)
(* backup, what the dashboard shows is in force, and a stop leaves the       *)
(* history on disk (documentation/backends, production/backup/service.py,    *)
(* dashboard/api/config_store.py, engine/state_manager/writer.py).           *)
FilesAgree ==
    /\ QueueTypeOK /\ BackupTypeOK /\ ConfigTypeOK
    /\ EntriesKept /\ DuplicatesExplained /\ NewestStays /\ ShownIsInForce
    /\ HistoryTypeOK /\ StopWritesAll /\ WrittenOnceInOrder

(* One model is active, it was the better when it was promoted, rolling back *)
(* changes it, and it still advises after a restart (ml/registry, ml/api.py).*)
BestModelAdvises ==
    /\ LabTypeOK
    /\ OneActiveModel /\ PromotedOnMerit /\ RollbackChanges /\ AdvisesAfterRestart

(* A backtest sees the past, all of it and nothing else, leaves the clock as *)
(* it found it, and is judged by its losses, its doubts and its folds        *)
(* (backtesting/*, utils/time.py).                                           *)
ReplaysAreHonest ==
    /\ ReplayTypeOK
    /\ ClockComesBack /\ SeesExactlyThePast /\ PartsCoverTheSeries
    /\ OutOfSample /\ StableNeverLoses /\ FallsAreSeen
    /\ OneDoubtIsNotEnough /\ RefusalIsExplained
    /\ LastRowWins /\ CursorAgrees

(* A candidate is promoted on its paper trials, and the next process knows   *)
(* what this one filed (research/production_candidate, research/api.py).     *)
ResearchRemembers ==
    /\ ResearchTypeOK /\ ExperimentsTypeOK
    /\ PromotedIsEarned /\ CandidatesAreKnown /\ RestartRemembers

(* Every handler sees every event it asked for, in order, until a stop gives *)
(* up, and the count the stop waits for is true (core/events/bus.py); no     *)
(* feature is told of a market older than its time to live                   *)
(* (engine/feature_store/store.py:119-137).                                  *)
NewsIsTimely ==
    /\ BusTypeOK
    /\ JoinIsTrue /\ InOrder /\ NobodyMisses /\ StopLeavesNothing
    /\ FeaturesTypeOK /\ ToldOfTheMarket

(* Sizes stay within the risk they were computed from, positions open inside *)
(* their bracket, and an order's fills, siblings and counters agree          *)
(* (execution/sizing/engine.py, execution_engine/engine.py:846-1000,         *)
(* order_manager/manager.py).                                                *)
OrdersAddUp ==
    /\ SizingTypeOK /\ OrdersTypeOK
    /\ RiskWithinBudget /\ RefusedOnlyWhenItDoesNotFit
    /\ OpensInsideItsBracket /\ ExposureAddsUp
    /\ CountersAddUp /\ OneSiblingFills /\ FilledIsWhole

(* A strategy is disabled for failures in a row and weighs least while it    *)
(* is; every signal followed ends once and is counted once                   *)
(* (ml/meta/manager.py, engine/evaluation/tracker.py).                       *)
VerdictsAddUp ==
    /\ MetaTypeOK /\ TrackerTypeOK
    /\ DisabledOnARow /\ DisabledWeighsLeast /\ LedgerAddsUp

(* What one step may not do: leave Safe Mode early, restore what was not     *)
(* verified, end a backup above the retention, restart without the           *)
(* overrides, lose a conclusion, weigh the better less, win with a stop that *)
(* was hit, or compute a feature that is still fresh                         *)
(* (safe_mode/controller.py:79-118, backup/service.py:140-275,               *)
(* config_store.py:190-240, experiment_manager/manager.py:60-160,            *)
(* meta/manager.py:85-140, tracker.py:190-260, feature_store/store.py:119).  *)
StepsAreEarned ==
    /\ RecoveryIsSustained /\ ErrorsHoldSafeMode
    /\ RestoresTheVerified /\ RetentionIsReached
    /\ RestartKeepsOverrides /\ ConclusionsKept
    /\ BetterIsNotLighter /\ WinsWereNotStopped
    /\ ComputedOnce
===============================================================================
