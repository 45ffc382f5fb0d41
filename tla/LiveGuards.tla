----------------------------- MODULE LiveGuards -----------------------------
(* What stands between the engine and real money: the Live Gate and its      *)
(* report, the operator's approval and its file, the resolution of the mode, *)
(* Safe Mode and the daily cut-off of the kill switch (production/live,      *)
(* production/safe_mode, production/kill_switch, production/api.py).         *)
(*                                                                           *)
(* An optional reading is a set of at most one value: {} is "not measured".  *)
EXTENDS Integers, FiniteSets

CONSTANTS
    Configs,       \* settings a process may start with, the gate's criteria among them
    Worlds,        \* what can be observed of the system, measured or not
    Thresholds,    \* SafeModeSettings
    MaxAge,        \* max_report_age_seconds
    Ttl,           \* approval_ttl_hours
    CutOff,        \* kill_switch.scheduled_utc
    Hours,         \* bound: the clock
    MaxGrants      \* bound: approvals

ASSUME GuardAssumption ==
    /\ MaxAge \in Nat /\ Ttl \in Nat \ {0} /\ Hours \in Nat /\ MaxGrants \in Nat
    /\ Thresholds.cycles \in Nat \ {0}   \* max(1, recovery_cycles)

VARIABLES
    hour,          \* the clock
    config,        \* settings of the running process
    world,         \* what an observation would find now
    killed,        \* KillSwitchController.active
    safe,          \* SafeModeController: active, healthy streak
    errors,        \* error records kept by RecentErrorsBuffer
    report,        \* LiveGate.last_report, a set of at most one
    approval,      \* ApprovalStore: the approval in memory, at most one
    approvalFile,  \* and the one its file would load
    grants,        \* history: every approval granted
    revoked,       \* history: the approval was revoked and none granted since
    refusing,      \* history: since when an evaluation would refuse, at most one
    calm           \* history: evaluations without a breach while Safe Mode lasted

guardVars == <<hour, config, world, killed, safe, errors, report, approval, approvalFile,
               grants, revoked, refusing, calm>>

(* health.py hands over the last ten errors of the process, however old.     *)
ErrorsShown == 10

-----------------------------------------------------------------------------
(* The criteria (gate.py): an unknown reading fails.                         *)

(* What is not measured is not known; these readings may be missing.         *)
Unmeasured == {}
Optional == {"profitFactor", "sharpe", "drawdown", "coverage"}

AtLeast(reading, minimum) == \E r \in reading : r >= minimum
AtMost(reading, maximum) == \E r \in reading : r <= maximum
RequiredFlag(reading) == TRUE \in reading

SettingChecks == [allow_live |-> config.allowLive,
                  mode_requested |-> config.mode = "live",
                  environment |-> config.environment = "production",
                  kill_switch |-> ~killed,
                  safe_mode |-> ~safe.active]

TrackRecordChecks == [paper_trades |-> world.trades >= config.minTrades,
                      paper_days |-> world.days >= config.minDays,
                      profit_factor |-> AtLeast(world.profitFactor, config.minProfitFactor),
                      sharpe |-> AtLeast(world.sharpe, config.minSharpe),
                      max_drawdown_pct |-> AtMost(world.drawdown, config.maxDrawdown)]

QualityChecks == [test_coverage_pct |-> AtLeast(world.coverage, config.minCoverage),
                  no_critical_errors |-> world.criticalErrors <= config.maxCriticalErrors]

(* Criteria a setting may drop: validation, machine learning, infrastructure. *)
FlagChecks == [f \in config.required |->
                 IF f = "no_critical_drift" THEN FALSE \in world.flags[f]
                                            ELSE RequiredFlag(world.flags[f])]

CoreChecks == UNION {{<<name, checks[name]>> : name \in DOMAIN checks} :
                       checks \in {SettingChecks, TrackRecordChecks, QualityChecks, FlagChecks}}

(* The identity of an evaluation: the criteria and every outcome.            *)
ReportHash == [criteria |-> config, checks |-> CoreChecks]

ValidFor(a, hash) == a.hash = hash /\ hour < a.at + Ttl

PassesNow == /\ config.needsApproval => \E a \in approval : ValidFor(a, ReportHash)
             /\ \A check \in CoreChecks : check[2]

NotEvaluated == {}

(* An evaluation; the approval is checked last, against all the rest.        *)
Evaluated == [approved |-> PassesNow, hash |-> ReportHash, at |-> hour, seen |-> world]

-----------------------------------------------------------------------------
(* ModeResolver: the last report counts, for a while.                        *)

Counts(r) == r.approved /\ hour - r.at <= MaxAge

Live == /\ config.allowLive
        /\ config.mode = "live"
        /\ config.environment = "production"
        /\ \E r \in report : Counts(r)

-----------------------------------------------------------------------------
(* Safe Mode.  The observation of the scheduled job leaves the answer of the *)
(* API, the broker's failures and the drift unmeasured.                      *)

OffDuty == [active |-> FALSE, streak |-> 0]

Breached(apiOk) ==
    \/ FALSE \in apiOk
    \/ \E ms \in world.latency : ms > Thresholds.latency
    \/ \E pct \in world.drawdown : pct >= Thresholds.drawdown
    \/ \E pct \in world.load : pct >= Thresholds.load
    \/ Thresholds.errors > 0 /\ errors >= Thresholds.errors
    \/ world.riskBreach

Mutant_StreakKept(breach) ==
    IF breach THEN [active |-> TRUE, streak |-> safe.streak]
    ELSE IF ~safe.active THEN safe
    ELSE [active |-> safe.streak + 1 < Thresholds.cycles, streak |-> safe.streak + 1]

SafeAfter(breach) ==
    IF breach THEN [active |-> TRUE, streak |-> 0]
    ELSE IF ~safe.active THEN safe
    ELSE [active |-> safe.streak + 1 < Thresholds.cycles, streak |-> safe.streak + 1]

Observed(apiOk) ==
    /\ safe' = IF Thresholds.enabled THEN SafeAfter(Breached(apiOk)) ELSE safe
    /\ calm' = IF Breached(apiOk) \/ ~safe.active THEN 0 ELSE calm + 1

-----------------------------------------------------------------------------
(* Steps. *)

GuardInit ==
    /\ hour = 0 /\ config \in Configs /\ world \in Worlds
    /\ killed = FALSE /\ safe = OffDuty /\ errors = 0
    /\ report = NotEvaluated /\ approval = {} /\ approvalFile = {}
    /\ grants = {} /\ revoked = FALSE
    /\ refusing = IF PassesNow THEN {} ELSE {0}
    /\ calm = 0

HourPasses == /\ hour < Hours
              /\ hour' = hour + 1
              /\ UNCHANGED <<config, world, killed, safe, errors, report, approval,
                             approvalFile, grants, revoked, calm>>

WorldChanges == /\ world' \in Worlds \ {world}
                /\ UNCHANGED <<hour, config, killed, safe, errors, report, approval,
                               approvalFile, grants, revoked, calm>>

(* Ten records are kept for the health report, and never forgotten.          *)
ErrorsLogged == /\ errors # ErrorsShown
                /\ errors' = ErrorsShown
                /\ UNCHANGED <<hour, config, world, killed, safe, report, approval,
                               approvalFile, grants, revoked, calm>>

(* The job every five minutes, the dashboard, every attempt to enable.       *)
EvaluateGate == /\ report' = {Evaluated}
                /\ UNCHANGED <<hour, config, world, killed, safe, errors, approval,
                               approvalFile, grants, revoked, calm>>

Approval == [hash |-> ReportHash, at |-> hour]

(* The file is written, left as it was, or truncated.                        *)
Persisted(a) == {{a}, approvalFile, {}}

(* The gate is evaluated, the approval granted for that very report, and the *)
(* gate evaluated again.                                                     *)
ApproveLive ==
    /\ Cardinality(grants) < MaxGrants
    /\ approval' = {Approval}
    /\ approvalFile' \in Persisted(Approval)
    /\ grants' = grants \cup {Approval}
    /\ report' = {[Evaluated EXCEPT !.approved = \A check \in CoreChecks : check[2]]}
    /\ revoked' = FALSE
    /\ UNCHANGED <<hour, config, world, killed, safe, errors, calm>>

(* Revoking drops the approval and removes its file, which may fail.         *)
Mutant_OnlyOnDisk == UNCHANGED approval
ApprovalDropped == approval' = {}
DisableLive ==
    /\ ApprovalDropped
    /\ approvalFile' \in {{}, approvalFile}
    /\ revoked' = TRUE
    /\ UNCHANGED <<hour, config, world, killed, safe, errors, report, grants, calm>>

WatchSafeMode == /\ Observed(Unmeasured)
                 /\ UNCHANGED <<hour, config, world, killed, errors, report, approval,
                                approvalFile, grants, revoked>>

ForceSafeMode == /\ Observed({FALSE})
                 /\ UNCHANGED <<hour, config, world, killed, errors, report, approval,
                                approvalFile, grants, revoked>>

EngageKill == /\ ~killed /\ killed' = TRUE
              /\ UNCHANGED <<hour, config, world, safe, errors, report, approval,
                             approvalFile, grants, revoked, calm>>

(* The minute's job engages only within the configured minute.               *)
CheckScheduled == hour \in CutOff /\ EngageKill

ReleaseKill == /\ killed /\ killed' = FALSE
               /\ UNCHANGED <<hour, config, world, safe, errors, report, approval,
                              approvalFile, grants, revoked, calm>>

(* A restart: settings are read again, the approval loaded, the kill switch  *)
(* restored, and nothing else remembered.                                    *)
RestartGuards ==
    /\ config' \in Configs
    /\ approval' = approvalFile
    /\ safe' = OffDuty /\ errors' = 0 /\ report' = NotEvaluated
    /\ calm' = 0
    /\ UNCHANGED <<hour, world, killed, approvalFile, grants, revoked>>

GuardStep == \/ HourPasses \/ WorldChanges \/ ErrorsLogged \/ EvaluateGate \/ ApproveLive
             \/ DisableLive \/ WatchSafeMode \/ ForceSafeMode
             \/ EngageKill \/ CheckScheduled \/ ReleaseKill \/ RestartGuards

GuardNext == /\ GuardStep
             /\ refusing' = IF PassesNow' THEN {} ELSE IF refusing # {} THEN refusing ELSE {hour'}

GuardSpec == GuardInit /\ [][GuardNext]_guardVars

-----------------------------------------------------------------------------
(* Properties. *)

GuardTypeOK ==
    /\ hour \in 0..Hours /\ config \in Configs /\ world \in Worlds
    /\ killed \in BOOLEAN /\ revoked \in BOOLEAN
    /\ safe.active \in BOOLEAN /\ safe.streak \in 0..Thresholds.cycles
    /\ errors \in {0, ErrorsShown}
    /\ Cardinality(report) <= 1 /\ Cardinality(approval) <= 1
    /\ approval \subseteq grants /\ approvalFile \subseteq grants
    /\ \A r \in report : r.approved \in BOOLEAN /\ r.at \in 0..hour /\ r.seen \in Worlds
    /\ Cardinality(grants) <= MaxGrants
    /\ calm \in 0..Thresholds.cycles

(* Live trading does not outlive its reasons: whatever withdraws one - the   *)
(* kill switch, Safe Mode, a reading, new settings, an expired or revoked    *)
(* approval - live is over once the last report is too old, whether or not   *)
(* the gate is evaluated again (mode.py:46-92, gate.py:162-200).             *)
LiveLapses == Live => \A since \in refusing : hour - since <= MaxAge

(* A report that approves was approved by an operator for these very         *)
(* criteria and outcomes, not longer ago than an approval lasts              *)
(* (approval.py:58-70, gate.py:176-190).                                     *)
ApprovalBinds ==
    \A r \in report : r.approved /\ r.hash.criteria.needsApproval =>
        \E g \in grants : g.hash = r.hash /\ g.at <= r.at /\ r.at < g.at + Ttl

(* After a revocation no evaluation approves, before or after a restart,     *)
(* until the operator grants another approval, unless the file of the old    *)
(* one could not be removed (approval.py:173-180, gate.py:176-190).          *)
RevocationIsFinal == revoked /\ approvalFile = {} /\ config.needsApproval => ~PassesNow

(* Nothing that was not measured has passed (gate.py:331-367).               *)
FailsClosed ==
    \A r \in report : r.approved =>
        /\ \A reading \in Optional : r.seen[reading] # Unmeasured
        /\ \A f \in r.hash.criteria.required : r.seen.flags[f] # Unmeasured

(* Safe Mode is left only by a restart or after as many evaluations without  *)
(* a breach, in a row, as the setting asks for, forced ones and re-entries   *)
(* in between notwithstanding (controller.py:93-113).                        *)
RecoveryIsSustained ==
    [][safe.active /\ ~safe'.active => calm' >= Thresholds.cycles \/ RestartGuards]_guardVars

(* Errors are never forgotten: once the process has logged as many as the    *)
(* threshold, only a restart leaves Safe Mode, whatever the window of        *)
(* seconds in the settings says (health.py:133, logging/recent.py:20-45).    *)
ErrorsHoldSafeMode ==
    [][safe.active /\ Thresholds.errors > 0 /\ errors >= Thresholds.errors
         => safe'.active \/ RestartGuards]_guardVars
=============================================================================
