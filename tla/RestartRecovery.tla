--------------------------- MODULE RestartRecovery ---------------------------
(***************************************************************************)
(* What survives a restart of the paper engine.  Three files outlive the   *)
(* process: the state snapshot (app/production/recovery), the kill switch  *)
(* file (app/production/kill_switch) and the trade journal                 *)
(* (app/execution/journal).  They are written at different moments: the    *)
(* journal at every close, the kill switch file by the controller only,    *)
(* the snapshot by a periodic job and by the last act of a clean stop.     *)
(*                                                                         *)
(* A boot is one step: from RecoveryService.start to                       *)
(* KillSwitchController.start nothing suspends, and the periodic jobs are  *)
(* registered only after every service has started.  A stop is not: the    *)
(* services stop in reverse order, the API first, and trading and the      *)
(* scheduled jobs go on until their own turn comes.                        *)
(*                                                                         *)
(* Reads and writes of the three files may fail with the process up: the   *)
(* code logs the OSError and goes on.  A refused write of the kill switch  *)
(* leaves the old file or a truncated one, one of the snapshot leaves the  *)
(* old one, one of the journal may leave half a line, and the next record  *)
(* is then glued to it and as illegible as the first.                      *)
(*                                                                         *)
(* Abstracted: prices and fees (a close has one of Results), the drawdown  *)
(* (RiskManager.update_equity may find the limit breached at any moment),  *)
(* the limits on exposure and number of positions (module ExecutionEngine) *)
(* and the day: every trade of a behaviour falls in one trading day.       *)
(***************************************************************************)
EXTENDS Integers, Sequences, FiniteSets, Functions

CONSTANTS
    Results,                \* net results a closed trade may have
    InitialBalance,         \* ExecutionSettings.initial_balance
    MaxConsecutiveLosses,   \* hard limits of ExecutionRiskSettings
    DailyLoss,
    MaxTrades,              \* bound: positions ever opened
    MaxJournal              \* bound: records of the journal, on disk and in memory

ASSUME RecoveryAssumption ==
    /\ Results \subseteq Int
    /\ InitialBalance \in Int
    /\ MaxConsecutiveLosses \in Nat \ {0}
    /\ {DailyLoss, MaxTrades, MaxJournal} \subseteq Nat

VARIABLES
    phase,      \* "up", "stopping" (controller stopped), "draining" (engine stopped), "down"
    opened,     \* position identifiers handed out
    open,       \* PositionManager: identifiers of the open positions
    balance,    \* PortfolioManager._balance
    streak,     \* RiskManager._consecutive_losses
    ledger,     \* RiskManager._ledger: the results of this process, summed
    trades,     \* TradeJournal._trades: the records in memory
    kill,       \* RiskManager._kill_switch
    switch,     \* KillSwitchController._switch.active
    journal,    \* the JSONL file: its legible lines
    frayed,     \* ... ends in half a line, without its newline
    file,       \* the kill switch file
    snapshot,   \* the snapshot file; before the first capture, a fresh state
    engaged,    \* history: the strongest engagement nobody has released
    captured,   \* history: the positions some snapshot has held
    unwritten,  \* history: the closed trades whose line was lost
    mishaps     \* history: what else has gone wrong so far, see Mishaps

memory == <<opened, open, balance, streak, ledger, trades, kill, switch>>
disk == <<journal, frayed, file, snapshot>>
history == <<engaged, captured, unwritten, mishaps>>
vars == <<phase, memory, disk, history>>

Mishaps == {"crash",       \* the process died
            "switch",      \* the kill switch file was torn by a crash, refused a
                           \* write or a read, and no engagement or release has
                           \* been written since
            "uncaptured",  \* the snapshot refused a write
            "outage",      \* a boot found the snapshot older than
                           \* RecoverySettings.max_age_hours, or could not read it
            "unlisted"}    \* a boot could not read the journal

Record == [id : Nat, pnl : Int]
Snapshot == [open : SUBSET Nat, balance : Int, streak : Nat, kill : BOOLEAN]

TypeOK ==
    /\ phase \in {"up", "stopping", "draining", "down"}
    /\ opened \in Nat
    /\ open \in SUBSET Nat
    /\ balance \in Int
    /\ streak \in Nat
    /\ ledger \in Int
    /\ kill \in BOOLEAN
    /\ switch \in BOOLEAN
    /\ {trades, journal} \subseteq Seq(Record)
    /\ frayed \in BOOLEAN
    /\ file \in {"active", "inactive", "torn"}
    /\ snapshot \in Snapshot
    /\ engaged \in {"no", "risk", "controller"}
    /\ captured \in SUBSET Nat
    /\ unwritten \in SUBSET Nat
    /\ mishaps \in SUBSET Mishaps

(* What the constructors of the managers give, and what a boot without a *)
(* usable snapshot starts from.                                          *)
Fresh == [open |-> {}, balance |-> InitialBalance, streak |-> 0, kill |-> FALSE]

Init ==
    /\ phase = "up"
    /\ opened = 0 /\ open = {} /\ balance = InitialBalance
    /\ streak = 0 /\ ledger = 0
    /\ trades = <<>>
    /\ kill = FALSE /\ switch = FALSE
    /\ journal = <<>> /\ frayed = FALSE
    /\ file = "inactive"
    /\ snapshot = Fresh
    /\ engaged = "no"
    /\ captured = {}
    /\ unwritten = {}
    /\ mishaps = {}

Trading == phase \in {"up", "stopping"}
Running == phase # "down"

-----------------------------------------------------------------------------
(* The execution engine. *)

MayOpen == /\ ~kill
           /\ streak < MaxConsecutiveLosses
           /\ ledger > -DailyLoss

(* Identifiers are unique across processes. *)
Open ==
    /\ Trading
    /\ MayOpen
    /\ opened < MaxTrades
    /\ opened' = opened + 1
    /\ open' = open \cup {opened'}
    /\ UNCHANGED <<phase, balance, streak, ledger, trades, kill, switch, disk, history>>

StreakAfter(pnl) == IF pnl < 0 THEN streak + 1 ELSE IF pnl > 0 THEN 0 ELSE streak

(* TradeJournal.record, on disk: a line of its own, or glued to half a line; *)
(* or the disk refuses all of it, or what is left of it.                     *)
WriteLine(trade) ==
    /\ ~frayed
    /\ journal' = Append(journal, trade)
    /\ UNCHANGED <<frayed, unwritten>>

LoseLine(trade) ==
    /\ frayed' \in BOOLEAN
    /\ unwritten' = unwritten \cup {trade.id}
    /\ UNCHANGED journal

Close(id, pnl) ==
    LET trade == [id |-> id, pnl |-> pnl] IN
    /\ Trading
    /\ id \in open
    /\ {Len(trades), Len(journal)} \subseteq 0..(MaxJournal - 1)
    /\ open' = open \ {id}
    /\ balance' = balance + pnl
    /\ ledger' = ledger + pnl
    /\ streak' = StreakAfter(pnl)
    /\ trades' = Append(trades, trade)
    /\ WriteLine(trade) \/ LoseLine(trade)
    /\ UNCHANGED <<phase, opened, kill, switch, file, snapshot, engaged, captured, mishaps>>

(* RiskManager engages itself: no controller, no file. *)
DrawdownKill ==
    /\ Trading
    /\ kill' = TRUE
    /\ engaged' = IF engaged = "no" THEN "risk" ELSE engaged
    /\ UNCHANGED <<phase, opened, open, balance, streak, ledger, trades, switch, disk,
                   captured, unwritten, mishaps>>

-----------------------------------------------------------------------------
(* The kill switch controller: an operator, or the daily cut-off job. *)

Written(active) == file' = IF active THEN "active" ELSE "inactive"

\* Refused before the file is truncated, or after.
Refused ==
    /\ file' \in {file, "torn"}
    /\ mishaps' = mishaps \cup {"switch"}

(* A write that goes through makes good what befell the file before. *)
Persist(active) == (Written(active) /\ mishaps' = mishaps \ {"switch"}) \/ Refused

Engage ==
    /\ Running
    /\ ~switch
    /\ switch' = TRUE
    /\ kill' = TRUE
    /\ Persist(TRUE)
    /\ engaged' = "controller"
    /\ UNCHANGED <<phase, opened, open, balance, streak, ledger, trades, journal, frayed,
                   snapshot, captured, unwritten>>

Release ==
    /\ phase = "up"
    /\ switch' = FALSE
    /\ kill' = FALSE
    /\ Persist(FALSE)
    /\ engaged' = "no"
    /\ UNCHANGED <<phase, opened, open, balance, streak, ledger, trades, journal, frayed,
                   snapshot, captured, unwritten>>

-----------------------------------------------------------------------------
(* The recovery service. *)

Mutant_CapturedWithoutKill ==
    [open |-> open, balance |-> balance, streak |-> streak, kill |-> switch]
Mutant_CapturedBeforeStreak ==
    [open |-> open, balance |-> balance, streak |-> 0, kill |-> kill]
Captured ==
    [open |-> open, balance |-> balance, streak |-> streak, kill |-> kill]

(* StateSnapshotStore.save: a temporary file, then a replacement.  Refused,   *)
(* it leaves the previous snapshot.                                          *)
Save ==
    \/ /\ snapshot' = Captured
       /\ captured' = captured \cup open
       /\ UNCHANGED mishaps
    \/ /\ mishaps' = mishaps \cup {"uncaptured"}
       /\ UNCHANGED <<snapshot, captured>>

(* The periodic job: registered last, cancelled with the scheduler. *)
Capture ==
    /\ Running
    /\ Save
    /\ UNCHANGED <<phase, memory, journal, frayed, file, engaged, unwritten>>

(* A clean stop: the controller persists, the engine stops trading, the *)
(* recovery service captures once more.                                 *)
StopController ==
    /\ phase = "up"
    /\ phase' = "stopping"
    /\ (Written(switch) /\ UNCHANGED mishaps) \/ Refused
    /\ UNCHANGED <<memory, journal, frayed, snapshot, engaged, captured, unwritten>>

StopRecovery ==
    /\ phase = "stopping"
    /\ phase' = "draining"
    /\ Save
    /\ UNCHANGED <<memory, journal, frayed, file, engaged, unwritten>>

\* The memory of the process goes with it.
Die ==
    /\ phase' = "down"
    /\ open' = {} /\ balance' = InitialBalance /\ streak' = 0 /\ ledger' = 0
    /\ trades' = <<>>
    /\ kill' = FALSE /\ switch' = FALSE
    /\ UNCHANGED <<opened, journal, frayed, snapshot, engaged, captured, unwritten>>

Exit ==
    /\ phase = "draining"
    /\ Die
    /\ UNCHANGED <<file, mishaps>>

(* A crash leaves the three files as they are, or finds the kill switch file *)
(* truncated and not yet rewritten: by an engagement, a release or a stop.   *)
Crash ==
    /\ Running
    /\ Die
    /\ mishaps' = mishaps \cup {"crash"}
    /\ UNCHANGED file

CrashPersisting ==
    /\ phase = "up" \/ (Running /\ ~switch)
    /\ Die
    /\ file' = "torn"
    /\ mishaps' = mishaps \cup {"crash", "switch"}

(* RecoveryService._apply_state, manager by manager.  The ledger of the Risk  *)
(* Manager is in no file; the streak never comes back negative.              *)
RestorePositions(state) == open' = state.open
RestorePortfolio(state) == balance' = state.balance
RestoreRisk(state)      == streak' = IF state.streak > 0 THEN state.streak ELSE 0

\* The switch of the snapshot, then KillSwitchController._on_start on top.
ApplyState(state, persisted) ==
    /\ RestorePositions(state) /\ RestorePortfolio(state) /\ RestoreRisk(state)
    /\ kill' = (state.kill \/ persisted)

(* A file that is too old or cannot be read counts as one that is not there. *)
Boot(unread) ==
    LET state     == IF "outage" \in unread THEN Fresh ELSE snapshot
        persisted == file = "active" /\ "switch" \notin unread
        lines     == IF "unlisted" \in unread THEN <<>> ELSE journal IN
    /\ phase = "down"
    /\ phase' = "up"
    /\ ApplyState(state, persisted)
    /\ ledger' = 0
    /\ trades' = lines
    /\ switch' = persisted
    /\ mishaps' = mishaps \cup unread
    /\ UNCHANGED <<opened, disk, engaged, captured, unwritten>>

Next ==
    \/ Open
    \/ \E id \in open, pnl \in Results : Close(id, pnl)
    \/ DrawdownKill
    \/ Engage \/ Release
    \/ Capture
    \/ StopController \/ StopRecovery \/ Exit
    \/ Crash \/ CrashPersisting
    \/ \E unread \in SUBSET {"outage", "switch", "unlisted"} : Boot(unread)

Spec == Init /\ [][Next]_vars

-----------------------------------------------------------------------------
(* Properties *)

Journalled == {journal[k].id : k \in DOMAIN journal}
JournalTotal == SumFunctionOnSet([k \in DOMAIN journal |-> journal[k].pnl], DOMAIN journal)

(* The losing streak the journal shows: losses since the last win. *)
JournalStreak ==
    Cardinality({k \in DOMAIN journal :
        /\ journal[k].pnl < 0
        /\ \A j \in k..Len(journal) : journal[j].pnl <= 0})

(* Any number of stops and starts leaves the books those of one              *)
(* uninterrupted session: the balance and the streak are the ones the        *)
(* journal shows, on disk and in memory alike, and every position ever       *)
(* opened is open or journalled once, whatever trading happened while the    *)
(* services were stopping.  Excused are crashes and every write and read     *)
(* that fails, of the kill switch file excepted                              *)
(* (production/recovery/service.py:84-108, 181-212, snapshot.py:258-266,     *)
(* execution/journal/journal.py:44-49).                                      *)
BooksSurviveRestart ==
    mishaps \subseteq {"switch"} /\ unwritten = {} /\ Running =>
        /\ trades = journal
        /\ balance = InitialBalance + JournalTotal
        /\ streak = JournalStreak
        /\ Len(journal) = Cardinality(Journalled)
        /\ open \cap Journalled = {}
        /\ open \cup Journalled = 1..opened

(* The switch is engaged after a restart exactly when somebody engaged it,   *)
(* the Risk Manager on its own included, and nobody released it, although    *)
(* the two engagements are kept in different files, as long as nothing       *)
(* crashes and both files are written and read; what becomes of the journal  *)
(* does not matter                                                           *)
(* (kill_switch/controller.py:119-135, recovery/service.py:207-211).         *)
KillSurvivesRestart ==
    mishaps \subseteq {"unlisted"} /\ Running => (kill <=> engaged # "no")

(* An engagement that went through the controller is in force in every       *)
(* process until somebody releases it: crashes, refused or discarded         *)
(* snapshots and snapshots older than the engagement included.  It is lost   *)
(* only through its own file: torn by a crash half way through its           *)
(* rewriting, or a write or read of it that the disk refuses and the code    *)
(* swallows; and the next engagement or release that is written makes that   *)
(* good (kill_switch/controller.py:119-131, 274-283).                        *)
EngagementSurvives ==
    "switch" \notin mishaps /\ Running /\ engaged = "controller" => kill /\ switch

(* A crash loses at most what happened since the last capture: a position    *)
(* a snapshot has held is open or in the journal in every later process,     *)
(* though the two files are written at different moments and either may      *)
(* refuse a write.  Lost are only positions of a snapshot that was too old   *)
(* or could not be read, and the trades whose own line the disk refused or   *)
(* that were glued to half a line                                            *)
(* (recovery/service.py:84-108, journal/journal.py:36-49).                   *)
CapturedNeverLost ==
    "outage" \notin mishaps /\ Running =>
        captured \subseteq open \cup Journalled \cup unwritten

(* What is on disk is in force in the next process: the engagements of the   *)
(* kill switch, kept in two files, and the positions a snapshot has held,    *)
(* whatever crashes in between (recovery/service.py:84-108, 181-212,         *)
(* kill_switch/controller.py:119-135, 274-283).                              *)
SavedIsKept ==
    TypeOK /\ KillSurvivesRestart /\ EngagementSurvives /\ CapturedNeverLost
=============================================================================
