----------------------- MODULE RestartRecovery_proofs -----------------------
(***************************************************************************)
(* What outlives a moment: the books over any number of trades, stops,     *)
(* crashes and boots (RestartRecovery), and the stop of one position over  *)
(* all the visits of its life (PositionLifecycle).                         *)
(***************************************************************************)
EXTENDS RestartRecovery, PositionLifecycle, FiniteSetTheorems, Sums, TLAPS

-----------------------------------------------------------------------------
(* Type correctness. *)

LEMMA FreshTyped == Fresh \in Snapshot
  <1>1. InitialBalance \in Int /\ 0 \in Nat /\ {} \in SUBSET Nat /\ FALSE \in BOOLEAN
    BY RecoveryAssumption
  <1>. QED BY <1>1 DEF Fresh, Snapshot

LEMMA CapturedTyped == TypeOK => Captured \in Snapshot
  <1> SUFFICES ASSUME TypeOK PROVE Captured \in Snapshot
    OBVIOUS
  <1>1. open \in SUBSET Nat /\ balance \in Int /\ streak \in Nat /\ kill \in BOOLEAN
    BY DEF TypeOK
  <1>. QED BY <1>1 DEF Captured, Snapshot

LEMMA TypeInit == Init => TypeOK
  <1> SUFFICES ASSUME Init PROVE TypeOK
    OBVIOUS
  <1>1. snapshot \in Snapshot
    BY FreshTyped DEF Init
  <1>2. {trades, journal} \subseteq Seq(Record)
    BY DEF Init
  <1>3. balance \in Int
    BY RecoveryAssumption DEF Init
  <1>4. /\ opened \in Nat /\ open \in SUBSET Nat /\ captured \in SUBSET Nat
        /\ unwritten \in SUBSET Nat /\ streak \in Nat /\ ledger \in Int
    BY DEF Init
  <1>5. /\ kill \in BOOLEAN /\ switch \in BOOLEAN /\ frayed \in BOOLEAN
        /\ mishaps \in SUBSET Mishaps
    BY Zenon DEF Init
  <1>6. /\ phase \in {"up", "stopping", "draining", "down"}
        /\ file \in {"active", "inactive", "torn"}
        /\ engaged \in {"no", "risk", "controller"}
    BY DEF Init
  <1>. QED BY <1>1, <1>2, <1>3, <1>4, <1>5, <1>6 DEF TypeOK

(* A closed trade is written, or it is one of the unwritten. *)
LEMMA CloseRecords ==
    ASSUME TypeOK, NEW id \in open, NEW pnl \in Results, Close(id, pnl)
    PROVE  /\ [id |-> id, pnl |-> pnl] \in Record
           /\ trades' = Append(trades, [id |-> id, pnl |-> pnl])
           /\ \/ /\ ~frayed /\ journal' = Append(journal, [id |-> id, pnl |-> pnl])
                 /\ UNCHANGED <<frayed, unwritten>>
              \/ /\ frayed' \in BOOLEAN /\ journal' = journal
                 /\ unwritten' = unwritten \cup {id}
  <1> DEFINE trade == [id |-> id, pnl |-> pnl]
  <1>1. trade \in Record /\ trade.id = id
    BY RecoveryAssumption DEF TypeOK, Record
  <1>2. trades' = Append(trades, trade) /\ (WriteLine(trade) \/ LoseLine(trade))
    BY Zenon DEF Close
  <1>. QED BY <1>1, <1>2 DEF WriteLine, LoseLine

LEMMA TypeStep == TypeOK /\ [Next]_vars => TypeOK'
  <1> SUFFICES ASSUME TypeOK, [Next]_vars PROVE TypeOK'
    OBVIOUS
  <1> USE DEF TypeOK, Mishaps
  <1>1. CASE Open
    BY <1>1 DEF Open, disk, history
  <1>2. ASSUME NEW id \in open, NEW pnl \in Results, Close(id, pnl) PROVE TypeOK'
    <2>1. pnl \in Int /\ id \in Nat
      BY RecoveryAssumption
    <2>2. /\ trades' \in Seq(Record) /\ journal' \in Seq(Record)
          /\ frayed' \in BOOLEAN /\ unwritten' \in SUBSET Nat
      <3> DEFINE trade == [id |-> id, pnl |-> pnl]
      <3>1. trades \in Seq(Record) /\ journal \in Seq(Record) /\ unwritten \in SUBSET Nat
        OBVIOUS
      <3>2. trade \in Record /\ trades' = Append(trades, trade)
        BY <1>2, CloseRecords
      <3>3. \/ journal' = Append(journal, trade) /\ UNCHANGED <<frayed, unwritten>>
            \/ frayed' \in BOOLEAN /\ journal' = journal /\ unwritten' = unwritten \cup {id}
        BY <1>2, CloseRecords
      <3>4. frayed' \in BOOLEAN /\ unwritten' \in SUBSET Nat
        BY <2>1, <3>1, <3>3
      <3> HIDE DEF trade, TypeOK
      <3>5. trades' \in Seq(Record) /\ journal' \in Seq(Record)
        BY <3>1, <3>2, <3>3
      <3>. QED BY <3>4, <3>5
    <2>. QED BY <1>2, <2>1, <2>2 DEF Close, StreakAfter, history
  <1>3. CASE DrawdownKill
    BY <1>3 DEF DrawdownKill, disk
  <1>4. CASE Engage \/ Release
    BY <1>4 DEF Engage, Release, Persist, Written, Refused
  <1>5. CASE Capture \/ StopController \/ StopRecovery
    <2>1. snapshot' \in Snapshot /\ captured' \in SUBSET Nat /\ mishaps' \in SUBSET Mishaps
      BY <1>5, CapturedTyped DEF Capture, StopController, StopRecovery, Save, Refused
    <2>2. file' \in {"active", "inactive", "torn"}
      BY <1>5 DEF Capture, StopController, StopRecovery, Written, Refused
    <2>. QED BY <1>5, <2>1, <2>2 DEF Capture, StopController, StopRecovery, memory, history
  <1>6. CASE Exit \/ Crash \/ CrashPersisting
    <2>1. Die /\ balance' = InitialBalance /\ InitialBalance \in Int
      BY <1>6, RecoveryAssumption DEF Exit, Crash, CrashPersisting, Die
    <2>2. file' \in {"active", "inactive", "torn"} /\ mishaps' \in SUBSET Mishaps
      BY <1>6 DEF Exit, Crash, CrashPersisting
    <2>3. /\ trades' = <<>> /\ open' = {} /\ kill' = FALSE /\ switch' = FALSE
          /\ streak' = 0 /\ ledger' = 0 /\ phase' = "down"
          /\ UNCHANGED <<opened, journal, frayed, snapshot, engaged, captured, unwritten>>
      BY <2>1 DEF Die
    <2>4. /\ trades' \in Seq(Record) /\ journal' \in Seq(Record)
      BY <2>3
    <2>a. kill' \in BOOLEAN /\ switch' \in BOOLEAN /\ frayed' \in BOOLEAN
      BY Zenon, <2>3
    <2>5. /\ opened' \in Nat /\ open' \in SUBSET Nat /\ balance' \in Int
          /\ streak' \in Nat /\ ledger' \in Int
      BY <2>1, <2>3
    <2>6. /\ snapshot' \in Snapshot /\ captured' \in SUBSET Nat /\ unwritten' \in SUBSET Nat
          /\ engaged' \in {"no", "risk", "controller"}
          /\ phase' \in {"up", "stopping", "draining", "down"}
      BY <2>3
    <2>. QED BY <2>2, <2>4, <2>5, <2>6, <2>a
  <1>7. ASSUME NEW unread \in SUBSET {"outage", "switch", "unlisted"}, Boot(unread) PROVE TypeOK'
    <2>a. PICK state \in Snapshot : ApplyState(state, file = "active" /\ "switch" \notin unread)
      <3>1. Fresh \in Snapshot /\ snapshot \in Snapshot
        BY FreshTyped
      <3>. QED BY <1>7, <3>1 DEF Boot
    <2>b. trades' \in Seq(Record)
      BY <1>7 DEF Boot
    <2>c. switch' \in BOOLEAN
      BY <1>7 DEF Boot
    <2>1. /\ state \in Snapshot /\ RestorePositions(state) /\ RestorePortfolio(state)
          /\ RestoreRisk(state)
      BY <2>a DEF ApplyState
    <2>2. /\ state.open \in SUBSET Nat /\ state.balance \in Int
          /\ state.streak \in Nat
      BY <2>1 DEF Snapshot
    <2>3. kill' \in BOOLEAN
      BY <2>a DEF ApplyState
    <2>4. /\ UNCHANGED <<opened, journal, frayed, file, snapshot, engaged, captured, unwritten>>
          /\ phase' = "up" /\ ledger' = 0 /\ mishaps' = mishaps \cup unread
      BY <1>7 DEF Boot, disk
    <2>. QED BY <2>b, <2>c, <2>1, <2>2, <2>3, <2>4
         DEF RestorePositions, RestorePortfolio, RestoreRisk
  <1>8. CASE UNCHANGED vars
    BY <1>8 DEF vars, memory, disk, history
  <1>. QED BY <1>1, <1>2, <1>3, <1>4, <1>5, <1>6, <1>7, <1>8 DEF Next

(* Every state is well formed: the streak, the books and the three files     *)
(* keep their types through any interleaving of stops, crashes, refused      *)
(* writes and boots (production/recovery/service.py:181-212).                *)
THEOREM TypeCorrect == Spec => []TypeOK
  BY TypeInit, TypeStep, PTL DEF Spec

(* What a boot finds, file by file. *)
LEMMA BootFinds ==
    ASSUME NEW unread, Boot(unread)
    PROVE  /\ phase = "down" /\ phase' = "up"
           /\ UNCHANGED <<opened, journal, frayed, file, snapshot, engaged, captured, unwritten>>
           /\ mishaps' = mishaps \cup unread
           /\ switch' <=> file = "active" /\ "switch" \notin unread
           /\ "outage" \notin unread =>
                  /\ open' = snapshot.open /\ balance' = snapshot.balance
                  /\ streak' = IF snapshot.streak > 0 THEN snapshot.streak ELSE 0
                  /\ kill' <=> snapshot.kill \/ switch'
           /\ switch' => kill'
           /\ "unlisted" \notin unread => trades' = journal
  BY DEF Boot, Fresh, ApplyState, RestorePositions, RestorePortfolio, RestoreRisk, disk

-----------------------------------------------------------------------------
(* An engagement that went through the controller. *)

(* The file follows the controller, and the Risk Manager both. *)
Enforced ==
    "switch" \notin mishaps =>
        /\ file # "torn"
        /\ engaged = "controller" => file = "active"
        /\ Running => (switch <=> file = "active")
        /\ Running /\ engaged = "controller" => kill

LEMMA EnforcedStep == TypeOK /\ Enforced /\ [Next]_vars => Enforced'
  <1> SUFFICES ASSUME TypeOK, Enforced, [Next]_vars PROVE Enforced'
    OBVIOUS
  <1> USE DEF Enforced, TypeOK, Running
  <1>1. CASE Open
    BY <1>1 DEF Open, disk, history
  <1>2. ASSUME NEW id \in open, NEW pnl \in Results, Close(id, pnl) PROVE Enforced'
    BY <1>2 DEF Close
  <1>3. CASE DrawdownKill
    BY <1>3 DEF DrawdownKill, disk
  <1>4. CASE Engage \/ Release
    BY <1>4 DEF Engage, Release, Persist, Written, Refused
  <1>5. CASE Capture \/ StopController \/ StopRecovery
    BY <1>5 DEF Capture, StopController, StopRecovery, Save, Written, Refused, memory
  <1>6. CASE Exit \/ Crash \/ CrashPersisting
    BY <1>6 DEF Exit, Crash, CrashPersisting, Die
  <1>7. ASSUME NEW unread \in SUBSET {"outage", "switch", "unlisted"}, Boot(unread) PROVE Enforced'
    BY <1>7, BootFinds
  <1>8. CASE UNCHANGED vars
    BY <1>8 DEF vars, memory, disk, history
  <1>. QED BY <1>1, <1>2, <1>3, <1>4, <1>5, <1>6, <1>7, <1>8 DEF Next

(* As long as nothing befalls the kill switch file that is not written over  *)
(* since, an engagement that went through the controller is in force in      *)
(* every later process until it is released, whatever crashes, whatever the  *)
(* disk does to the other files and whatever becomes of the snapshot         *)
(* (kill_switch/controller.py:119-131, 274-283).                             *)
THEOREM EngagementHolds == Spec => []EngagementSurvives
  <1>1. Init => Enforced
    BY DEF Init, Enforced, Running
  <1>2. Enforced => EngagementSurvives
    BY DEF Enforced, EngagementSurvives
  <1>. QED BY TypeCorrect, EnforcedStep, <1>1, <1>2, PTL DEF Spec

-----------------------------------------------------------------------------
(* Every engagement, the Risk Manager's own included. *)

(* In a process the two switches agree with the engagement; once the final   *)
(* capture is taken, so do the two files together.                           *)
Remembered ==
    mishaps \subseteq {"unlisted"} =>
        /\ Running => /\ kill <=> engaged # "no"
                      /\ switch <=> file = "active"
                      /\ switch => kill
        /\ phase \in {"draining", "down"} =>
               ((snapshot.kill \/ file = "active") <=> engaged # "no")

LEMMA RememberedStep == TypeOK /\ Remembered /\ [Next]_vars => Remembered'
  <1> SUFFICES ASSUME TypeOK, Remembered, [Next]_vars PROVE Remembered'
    OBVIOUS
  <1> USE DEF Remembered, TypeOK, Running, Trading
  <1>1. CASE Open
    BY <1>1 DEF Open, disk, history
  <1>2. ASSUME NEW id \in open, NEW pnl \in Results, Close(id, pnl) PROVE Remembered'
    BY <1>2 DEF Close
  <1>3. CASE DrawdownKill
    BY <1>3 DEF DrawdownKill, disk
  <1>4. CASE Engage \/ Release
    BY <1>4 DEF Engage, Release, Persist, Written, Refused
  <1>5. CASE Capture \/ StopController \/ StopRecovery
    <2>1. CASE StopController
      <3>1. /\ UNCHANGED <<kill, switch, engaged>> /\ phase = "up" /\ phase' = "stopping"
            /\ (Written(switch) /\ UNCHANGED mishaps) \/ Refused
        BY <2>1 DEF StopController, memory
      <3>2. CASE Written(switch) /\ UNCHANGED mishaps
        <4>1. file' = IF switch THEN "active" ELSE "inactive"
          BY <3>2 DEF Written
        <4>. QED BY <3>1, <3>2, <4>1
      <3>3. CASE Refused
        <4>1. "switch" \in mishaps'
          BY <3>3 DEF Refused
        <4>. QED BY <4>1
      <3>. QED BY <3>1, <3>2, <3>3
    <2>2. CASE Capture \/ StopRecovery
      <3>1. /\ UNCHANGED <<kill, switch, file, engaged>> /\ phase # "down" /\ phase' # "down"
            /\ Save
        BY <2>2 DEF Capture, StopRecovery, memory
      <3>2. CASE snapshot' = Captured /\ UNCHANGED mishaps
        <4>1. snapshot'.kill = kill
          BY <3>2 DEF Captured
        <4>. QED BY <3>1, <3>2, <4>1
      <3>3. CASE mishaps' = mishaps \cup {"uncaptured"}
        BY <3>3
      <3>. QED BY <3>1, <3>2, <3>3 DEF Save
    <2>. QED BY <1>5, <2>1, <2>2
  <1>6. CASE Exit \/ Crash \/ CrashPersisting
    <2>1. CASE Exit
      <3>1. /\ phase = "draining" /\ phase' = "down" /\ UNCHANGED <<snapshot, file, engaged, mishaps>>
        BY <2>1 DEF Exit, Die
      <3>. QED BY <3>1
    <2>2. CASE Crash \/ CrashPersisting
      <3>1. "crash" \in mishaps'
        BY <2>2 DEF Crash, CrashPersisting
      <3>. QED BY <3>1
    <2>. QED BY <1>6, <2>1, <2>2
  <1>7. ASSUME NEW unread \in SUBSET {"outage", "switch", "unlisted"}, Boot(unread)
        PROVE  Remembered'
    <2>1. /\ phase = "down" /\ phase' = "up" /\ UNCHANGED <<file, snapshot, engaged>>
          /\ mishaps' = mishaps \cup unread
          /\ switch' <=> file = "active" /\ "switch" \notin unread
          /\ "outage" \notin unread => (kill' <=> snapshot.kill \/ switch')
          /\ switch' => kill'
      BY <1>7, BootFinds
    <2>2. CASE mishaps' \subseteq {"unlisted"}
      <3>1. "outage" \notin unread /\ "switch" \notin unread /\ mishaps \subseteq {"unlisted"}
        BY <2>1, <2>2
      <3>2. /\ switch' <=> file' = "active"
            /\ kill' <=> engaged' # "no"
        BY <2>1, <3>1
      <3>. QED BY <2>1, <3>2
    <2>. QED BY <2>2
  <1>8. CASE UNCHANGED vars
    BY <1>8 DEF vars, memory, disk, history
  <1>. QED BY <1>1, <1>2, <1>3, <1>4, <1>5, <1>6, <1>7, <1>8 DEF Next

(* Without crashes, discarded snapshots or refused writes the kill switch is *)
(* engaged in a process exactly when somebody engaged it and nobody released *)
(* it, also for engagements taken while the services stop                    *)
(* (recovery/service.py:75-78, 207-211).                                     *)
THEOREM KillRemembered == Spec => []KillSurvivesRestart
  <1>1. Init => Remembered
    BY DEF Init, Remembered, Running, Fresh
  <1>2. Remembered => KillSurvivesRestart
    BY DEF Remembered, KillSurvivesRestart
  <1>. QED BY TypeCorrect, RememberedStep, <1>1, <1>2, PTL DEF Spec

-----------------------------------------------------------------------------
(* A crash loses at most what happened since the last capture. *)

(* What some snapshot has held is in the last one, in the journal, or among  *)
(* the trades whose line was lost.                                           *)
Kept ==
    /\ "outage" \notin mishaps => captured \subseteq snapshot.open \cup Journalled \cup unwritten
    /\ CapturedNeverLost

LEMMA AppendJournals ==
    ASSUME TypeOK, NEW trade \in Record, journal' = Append(journal, trade)
    PROVE  Journalled' = Journalled \cup {trade.id}
  <1>1. journal \in Seq(Record)
    BY DEF TypeOK
  <1>2. /\ DOMAIN journal = 1..Len(journal) /\ Len(journal) \in Nat
        /\ DOMAIN journal' = 1..(Len(journal) + 1)
        /\ \A k \in DOMAIN journal : journal'[k] = journal[k]
        /\ journal'[Len(journal) + 1] = trade
    BY <1>1
  <1>3. ASSUME NEW x \in Journalled' PROVE x \in Journalled \cup {trade.id}
    BY <1>2, <1>3 DEF Journalled
  <1>4. ASSUME NEW x \in Journalled \cup {trade.id} PROVE x \in Journalled'
    <2>1. CASE x \in Journalled
      BY <1>2, <2>1 DEF Journalled
    <2>2. CASE x = trade.id
      <3>1. Len(journal) + 1 \in DOMAIN journal' /\ journal'[Len(journal) + 1].id = trade.id
        BY <1>2
      <3>. QED BY <2>2, <3>1 DEF Journalled
    <2>. QED BY <1>4, <2>1, <2>2
  <1>. QED BY <1>3, <1>4

LEMMA CloseTells ==
    ASSUME TypeOK, NEW id \in open, NEW pnl \in Results, Close(id, pnl)
    PROVE  Journalled' \cup unwritten' = Journalled \cup unwritten \cup {id}
  <1> DEFINE trade == [id |-> id, pnl |-> pnl]
  <1>1. trade \in Record /\ trade.id = id
    BY RecoveryAssumption DEF TypeOK, Record
  <1> HIDE DEF trade
  <1>2. CASE journal' = Append(journal, trade) /\ unwritten' = unwritten
    BY <1>1, <1>2, AppendJournals
  <1>3. CASE journal' = journal /\ unwritten' = unwritten \cup {id}
    BY <1>3 DEF Journalled
  <1>. QED BY <1>2, <1>3, CloseRecords DEF trade

LEMMA KeptStep == TypeOK /\ Kept /\ [Next]_vars => Kept'
  <1> SUFFICES ASSUME TypeOK, Kept, [Next]_vars PROVE Kept'
    OBVIOUS
  <1> USE DEF Kept, CapturedNeverLost, Running, Trading
  <1>1. CASE Open
    BY <1>1 DEF Open, Journalled, disk, history
  <1>2. ASSUME NEW id \in open, NEW pnl \in Results, Close(id, pnl) PROVE Kept'
    <2>1. Journalled' \cup unwritten' = Journalled \cup unwritten \cup {id}
      BY <1>2, CloseTells
    <2>2. UNCHANGED <<phase, snapshot, captured, mishaps>> /\ open' = open \ {id} /\ phase # "down"
      BY <1>2 DEF Close
    <2>. QED BY <2>1, <2>2
  <1>3. CASE DrawdownKill
    BY <1>3 DEF DrawdownKill, Journalled, disk
  <1>4. CASE Engage \/ Release
    BY <1>4 DEF Engage, Release, Persist, Refused, Journalled
  <1>5. CASE Capture \/ StopController \/ StopRecovery
    BY <1>5 DEF Capture, StopController, StopRecovery, Captured, Save, Refused, Journalled, memory
  <1>6. CASE Exit \/ Crash \/ CrashPersisting
    BY <1>6 DEF Exit, Crash, CrashPersisting, Die, Journalled
  <1>7. ASSUME NEW unread \in SUBSET {"outage", "switch", "unlisted"}, Boot(unread) PROVE Kept'
    <2>1. Journalled' = Journalled
      BY <1>7, BootFinds DEF Journalled
    <2>. QED BY <1>7, <2>1, BootFinds
  <1>8. CASE UNCHANGED vars
    BY <1>8 DEF vars, Journalled, memory, disk, history
  <1>. QED BY <1>1, <1>2, <1>3, <1>4, <1>5, <1>6, <1>7, <1>8 DEF Next

(* Wherever the process dies and whatever the disk refuses, a position that  *)
(* some snapshot has held is open or journalled in every later process that  *)
(* does not discard its snapshot, or its own line was lost                   *)
(* (recovery/snapshot.py:232-290, journal.py:36-49).                         *)
THEOREM NothingCapturedIsLost == Spec => []CapturedNeverLost
  <1>1. Init => Kept
    BY DEF Init, Kept, CapturedNeverLost
  <1>2. Kept => CapturedNeverLost
    BY DEF Kept
  <1>. QED BY TypeCorrect, KeptStep, <1>1, <1>2, PTL DEF Spec

(* All that the restart run checks of what is on disk: both engagements and  *)
(* the positions of any snapshot come back, each until the failure of its    *)
(* own file that excuses it (recovery/service.py:84-108, 181-212,            *)
(* kill_switch/controller.py:119-135, 274-283).                              *)
THEOREM NothingSavedIsLost == Spec => []SavedIsKept
  BY TypeCorrect, KillRemembered, EngagementHolds, NothingCapturedIsLost, PTL DEF SavedIsKept

-----------------------------------------------------------------------------
(* Without mishaps the books are those of one session. *)

(* What a process, or the snapshot the next one starts from, must hold to    *)
(* agree with the journal.                                                   *)
Square(ids, cash, losing) ==
    /\ cash = InitialBalance + JournalTotal
    /\ losing = JournalStreak
    /\ ids \cap Journalled = {}
    /\ ids \cup Journalled = 1..opened

(* The process agrees with the journal while it runs, the snapshot from the  *)
(* last capture of a clean stop, after which nothing trades, to the boot.    *)
Whole == mishaps \subseteq {"switch"} /\ unwritten = {}

Squared ==
    Whole =>
        /\ ~frayed
        /\ Len(journal) = Cardinality(Journalled)
        /\ Running => trades = journal /\ Square(open, balance, streak)
        /\ phase \in {"draining", "down"} =>
               Square(snapshot.open, snapshot.balance, snapshot.streak)

LEMMA JournalIsFinite ==
    ASSUME TypeOK
    PROVE  /\ journal \in Seq(Record) /\ Len(journal) \in Nat /\ DOMAIN journal = 1..Len(journal)
           /\ IsFiniteSet(DOMAIN journal) /\ IsFiniteSet(Journalled) /\ Cardinality(Journalled) \in Nat
           /\ JournalTotal \in Int
  <1>1. journal \in Seq(Record)
    BY DEF TypeOK
  <1>2. Len(journal) \in Nat /\ DOMAIN journal = 1..Len(journal)
    BY <1>1
  <1>3. IsFiniteSet(DOMAIN journal)
    BY <1>2, FS_Interval
  <1>4. IsFiniteSet(Journalled)
    <2> DEFINE f == [k \in DOMAIN journal |-> journal[k].id]
    <2>1. f \in Surjection(DOMAIN journal, Journalled)
      BY DEF Surjection, Journalled
    <2>. QED BY <1>3, <2>1, FS_Surjection
  <1>5. JournalTotal \in Int
    <2>1. \A k \in DOMAIN journal : journal[k] \in Record
      BY <1>1
    <2>2. IntsOn(PnlsOf(journal), DOMAIN journal)
      BY <2>1 DEF IntsOn, PnlsOf, Record
    <2>3. SumFunctionOnSet(PnlsOf(journal), DOMAIN journal) \in Int
      BY <1>3, <2>2, SumIsInt
    <2>. QED BY <2>3 DEF JournalTotal, PnlsOf
  <1>. QED BY <1>1, <1>2, <1>3, <1>4, <1>5, FS_CardinalityType

(* A close writes the balance, the streak and the journal of one trade.      *)
LEMMA CloseSquares ==
    ASSUME TypeOK, Squared, Whole, Running, NEW id \in open, NEW pnl \in Results, Close(id, pnl),
           journal' = Append(journal, [id |-> id, pnl |-> pnl])
    PROVE  Square(open, balance, streak)' /\ Len(journal') = Cardinality(Journalled')
  <1> DEFINE trade == [id |-> id, pnl |-> pnl]
  <1>1. pnl \in Int /\ id \in Nat /\ trade \in Record /\ \A t \in Record : t.pnl \in Int
    BY RecoveryAssumption DEF TypeOK, Record
  <1>2. /\ journal' = Append(journal, trade) /\ open' = open \ {id} /\ opened' = opened
        /\ balance' = balance + pnl /\ streak' = StreakAfter(pnl)
    BY DEF Close
  <1>3. trade.pnl = pnl /\ trade.id = id
    OBVIOUS
  <1> HIDE DEF trade
  <1>4. /\ Len(journal) = Cardinality(Journalled) /\ Square(open, balance, streak)
    BY DEF Squared
  <1>5. /\ JournalTotal \in Int /\ journal \in Seq(Record) /\ IsFiniteSet(Journalled)
        /\ Len(journal) \in Nat /\ balance \in Int /\ InitialBalance \in Int
    BY JournalIsFinite, RecoveryAssumption DEF TypeOK
  <1>6. JournalTotal' = JournalTotal + pnl
    <2>1. SumsTo(PnlsOf(journal), DOMAIN journal, JournalTotal)
      BY DEF SumsTo, PnlsOf, JournalTotal
    <2>2. SumsTo(PnlsOf(journal'), DOMAIN journal', JournalTotal + trade.pnl)
      BY <1>1, <1>2, <1>5, <2>1, TotalOfOneMore
    <2>. QED BY <1>3, <2>2 DEF SumsTo, PnlsOf, JournalTotal
  <1>7. streak' = JournalStreak'
    <2>1. JournalStreak = Cardinality(LosingStreak(journal))
          /\ JournalStreak' = Cardinality(LosingStreak(journal'))
      BY DEF JournalStreak, LosingStreak
    <2>2. streak = Cardinality(LosingStreak(journal))
      BY <1>4, <2>1 DEF Square
    <2>3. Cardinality(LosingStreak(journal'))
            = IF pnl < 0 THEN streak + 1 ELSE IF pnl > 0 THEN 0 ELSE streak
      BY <1>1, <1>2, <1>3, <1>5, <2>2, StreakOfOneMore
    <2>. QED BY <1>2, <2>1, <2>3 DEF StreakAfter
  <1>8. Journalled' = Journalled \cup {id} /\ id \notin Journalled
    BY <1>1, <1>2, <1>3, <1>4, AppendJournals DEF Square
  <1>9. open' \cap Journalled' = {} /\ open' \cup Journalled' = 1..opened'
    BY <1>2, <1>4, <1>8 DEF Square
  <1>10. Len(journal') = Cardinality(Journalled')
    <2>1. Len(journal') = Len(journal) + 1
      BY <1>1, <1>2, <1>5
    <2>2. Cardinality(Journalled') = Cardinality(Journalled) + 1
      BY <1>5, <1>8, FS_AddElement
    <2>. QED BY <1>4, <2>1, <2>2
  <1>11. balance' = InitialBalance + JournalTotal'
    <2>1. balance = InitialBalance + JournalTotal
      BY <1>4 DEF Square
    <2>. QED BY <1>1, <1>2, <1>5, <1>6, <2>1
  <1>. QED BY <1>7, <1>9, <1>10, <1>11 DEF Square

LEMMA SquaredStep == TypeOK /\ Squared /\ [Next]_vars => Squared'
  <1> SUFFICES ASSUME TypeOK, Squared, [Next]_vars PROVE Squared'
    OBVIOUS
  <1> USE DEF Running, Trading, Whole
  <1>0. ASSUME UNCHANGED <<journal, opened>>, NEW ids, NEW cash, NEW losing, Square(ids, cash, losing)
        PROVE  Square(ids, cash, losing)'
    BY <1>0 DEF Square, JournalTotal, JournalStreak, Journalled
  <1>a. ASSUME UNCHANGED journal PROVE (Len(journal) = Cardinality(Journalled))' <=> Len(journal) = Cardinality(Journalled)
    BY <1>a DEF Journalled
  <1>1. CASE Open
    <2>1. /\ UNCHANGED <<phase, balance, streak, trades, journal, frayed, snapshot, unwritten, mishaps>>
          /\ phase \in {"up", "stopping"} /\ opened' = opened + 1 /\ open' = open \cup {opened'}
      BY <1>1 DEF Open, disk, history
    <2>2. ASSUME Whole, Square(open, balance, streak) PROVE Square(open, balance, streak)'
      <3>1. opened \in Nat /\ 1..opened' = (1..opened) \cup {opened'} /\ opened' \notin 1..opened
        BY <2>1 DEF TypeOK
      <3>2. open' \cap Journalled = {} /\ open' \cup Journalled = 1..opened'
        BY <2>1, <2>2, <3>1 DEF Square
      <3>3. Journalled' = Journalled /\ JournalTotal' = JournalTotal /\ JournalStreak' = JournalStreak
        BY <2>1 DEF Journalled, JournalTotal, JournalStreak
      <3>. QED BY <2>1, <2>2, <3>2, <3>3 DEF Square
    <2>. QED BY <1>a, <2>1, <2>2 DEF Squared
  <1>2. ASSUME NEW id \in open, NEW pnl \in Results, Close(id, pnl) PROVE Squared'
    <2>1. UNCHANGED <<phase, snapshot, mishaps>> /\ phase \in {"up", "stopping"}
      BY <1>2 DEF Close
    <2>2. CASE id \in unwritten'
      BY <2>2 DEF Squared
    <2>3. CASE id \notin unwritten'
      <3>1. /\ journal' = Append(journal, [id |-> id, pnl |-> pnl]) /\ UNCHANGED <<frayed, unwritten>>
            /\ trades' = Append(trades, [id |-> id, pnl |-> pnl])
        BY <1>2, <2>3, CloseRecords
      <3>. QED BY <1>2, <2>1, <3>1, CloseSquares DEF Squared
    <2>. QED BY <2>2, <2>3
  <1>3. CASE DrawdownKill \/ Engage \/ Release \/ UNCHANGED vars
    <2>1. UNCHANGED <<phase, opened, open, balance, streak, trades, journal, frayed, snapshot, unwritten>>
      BY <1>3 DEF DrawdownKill, Engage, Release, vars, memory, disk, history
    <2>2. mishaps' \subseteq {"switch"} => mishaps \subseteq {"switch"}
      BY <1>3 DEF DrawdownKill, Engage, Release, Persist, Refused, vars, history
    <2>. QED BY <1>0, <1>a, <2>1, <2>2 DEF Squared
  <1>4. CASE Capture \/ StopRecovery
    <2>1. /\ UNCHANGED <<opened, open, balance, streak, trades, journal, frayed, unwritten>>
          /\ phase # "down" /\ phase' # "down" /\ Save
      BY <1>4 DEF Capture, StopRecovery, memory
    <2>2. CASE snapshot' = Captured /\ UNCHANGED mishaps
      <3>1. snapshot'.open = open /\ snapshot'.balance = balance /\ snapshot'.streak = streak
        BY <2>2 DEF Captured
      <3>. QED BY <1>0, <1>a, <2>1, <2>2, <3>1 DEF Squared
    <2>3. CASE mishaps' = mishaps \cup {"uncaptured"}
      BY <2>3 DEF Squared
    <2>. QED BY <2>1, <2>2, <2>3 DEF Save
  <1>5. CASE StopController
    <2>1. /\ UNCHANGED <<opened, open, balance, streak, trades, journal, frayed, snapshot, unwritten>>
          /\ phase = "up" /\ phase' = "stopping"
      BY <1>5 DEF StopController, memory, history
    <2>2. mishaps' \subseteq {"switch"} => mishaps \subseteq {"switch"}
      BY <1>5 DEF StopController, Refused
    <2>. QED BY <1>0, <1>a, <2>1, <2>2 DEF Squared
  <1>6. CASE Exit
    <2>1. /\ UNCHANGED <<opened, journal, frayed, snapshot, unwritten, mishaps>>
          /\ phase = "draining" /\ phase' = "down"
      BY <1>6 DEF Exit, Die
    <2>. QED BY <1>0, <1>a, <2>1 DEF Squared
  <1>7. ASSUME NEW unread \in SUBSET {"outage", "switch", "unlisted"}, Boot(unread) PROVE Squared'
    <2>0. snapshot.streak \in Nat
      BY DEF TypeOK, Snapshot
    <2>1. CASE unread \subseteq {"switch"}
      <3>1. /\ UNCHANGED <<opened, journal, frayed, snapshot, unwritten>> /\ phase = "down" /\ phase' = "up"
            /\ open' = snapshot.open /\ balance' = snapshot.balance /\ streak' = snapshot.streak
            /\ trades' = journal /\ mishaps' = mishaps \cup unread
        BY <1>7, <2>0, <2>1, BootFinds
      <3>. QED BY <1>0, <1>a, <2>1, <3>1 DEF Squared
    <2>2. CASE ~(unread \subseteq {"switch"})
      BY <1>7, <2>2, BootFinds DEF Squared
    <2>. QED BY <2>1, <2>2
  <1>8. CASE Crash \/ CrashPersisting
    <2>1. "crash" \in mishaps'
      BY <1>8 DEF Crash, CrashPersisting
    <2>. QED BY <2>1 DEF Squared
  <1>. QED BY <1>1, <1>2, <1>3, <1>4, <1>5, <1>6, <1>7, <1>8 DEF Next

(* Any number of clean stops and starts leaves the books of one long         *)
(* session: whatever trades while the services stop in turn is either in the *)
(* last capture or cannot happen any more                                    *)
(* (production/recovery/service.py:84-108, 181-212).                         *)
THEOREM BooksSurvive == Spec => []BooksSurviveRestart
  <1>1. Init => Squared
    <2> SUFFICES ASSUME Init PROVE Squared
      OBVIOUS
    <2>1. /\ journal = <<>> /\ trades = <<>> /\ ~frayed
          /\ open = {} /\ opened = 0 /\ balance = InitialBalance /\ streak = 0 /\ phase = "up"
      BY DEF Init
    <2>2. Journalled = {} /\ DOMAIN journal = {} /\ Len(journal) = 0
      BY <2>1 DEF Journalled
    <2>3. JournalTotal = 0
      BY <2>2, SumOfNothing DEF JournalTotal
    <2>4. JournalStreak = 0
      <3>1. LosingStreak(journal) = {}
        BY <2>2 DEF LosingStreak
      <3>2. JournalStreak = Cardinality(LosingStreak(journal))
        BY DEF JournalStreak, LosingStreak
      <3>. QED BY <3>1, <3>2, FS_EmptySet
    <2>5. Cardinality(Journalled) = 0
      BY <2>2, FS_EmptySet
    <2>6. balance = InitialBalance + JournalTotal
      BY <2>1, <2>3, RecoveryAssumption
    <2>7. open \cup Journalled = 1..opened
      BY <2>1, <2>2
    <2>. QED BY <2>1, <2>2, <2>4, <2>5, <2>6, <2>7 DEF Squared, Square
  <1>2. Squared => BooksSurviveRestart
    BY DEF Squared, Square, Whole, BooksSurviveRestart
  <1>. QED BY TypeCorrect, SquaredStep, <1>1, <1>2, PTL DEF Spec

-----------------------------------------------------------------------------
(* The life of one position, for every bracket, ladder of marks, trailing    *)
(* distance and setting.                                                     *)
(*                                                                           *)
(* StopDiscipline is what the settings' default order buys: as long as       *)
(* break-even has not been applied the stop is the initial one, or a         *)
(* trailing that started before it; after it, the stop is at the entry or    *)
(* beyond.  RegimeInv is the change of regime: the streak the position       *)
(* carries is the length of its run of adverse readings.                     *)

(* A trailed stop of a position whose break-even may not come later has     *)
(* been through break-even, and an untouched stop is the initial one.       *)
Disciplined(p) ==
    /\ p.breakEven => p.stop # NoLevel /\ AtLeast(p, p.stop, Entry)
    /\ ~p.breakEven /\ ~p.trailing => p.stop = p.initial
    /\ BreakEvenR > 0 /\ BreakEvenR <= TrailingR /\ p.trailing => p.breakEven
StopDiscipline == Handless => Disciplined(pos)

(* TrailingProtectsProfit and StopNeverLoosens, of a position and its update. *)
Protected(p) == p.trailing => (p.best - Entry) * p.side >= TrailingR * RiskPerUnit(p)
Tightened(p, q) ==
    BreakEvenR <= TrailingR /\ Bracketed(p) /\ p.stop # NoLevel
        => q.stop # NoLevel /\ AtLeast(p, q.stop, p.stop)

IInv == PositionTypeOK /\ StopDiscipline /\ TrailingProtectsProfit /\ OpenInsideBracket

LEMMA Constants ==
    /\ Entry \in Int /\ Marks \subseteq Int
    /\ InitialStops \subseteq Levels /\ Targets \subseteq Levels /\ ManualStops \subseteq Int
    /\ NoLevel \notin Int
    /\ \A d \in Distances : d # NoAtr => d \in Nat \ {0}
    /\ BreakEvenR \in Nat /\ TrailingR \in Nat /\ MaxAge \in Nat
  BY LifecycleAssumption DEF Levels

(* The three stages of a visit, for any position. *)
SameTrade(p, q) ==
    /\ q \in Position
    /\ q.side = p.side /\ q.initial = p.initial /\ q.target = p.target
    /\ q.status = p.status /\ q.adverse = p.adverse

LEMMA MarkStage ==
    ASSUME NEW p \in Position, NEW mark \in Int
    PROVE  LET q == UpdateMark(p, mark)
           IN  /\ SameTrade(p, q)
               /\ q.mark = mark /\ q.stop = p.stop
               /\ q.breakEven = p.breakEven /\ q.trailing = p.trailing
               /\ AtLeast(p, q.best, p.best) /\ AtLeast(p, q.best, mark)
  <1>1. p.side \in {1, -1} /\ p.best \in Int
    BY DEF Position, Sides
  <1> DEFINE best == IF Beyond(p, mark, p.best) THEN mark ELSE p.best
             q == UpdateMark(p, mark)
  <1>2. best \in Int /\ AtLeast(p, best, p.best) /\ AtLeast(p, best, mark)
    BY <1>1 DEF Beyond, AtLeast
  <1>3. q = [p EXCEPT !.mark = mark, !.best = best]
    BY DEF UpdateMark
  <1> HIDE DEF best, q
  <1>4. SameTrade(p, q) /\ q.best = best /\ q.mark = mark
    BY <1>2, <1>3 DEF SameTrade, Position
  <1>5. q.stop = p.stop /\ q.breakEven = p.breakEven /\ q.trailing = p.trailing
    BY <1>3 DEF Position
  <1>. QED BY <1>2, <1>4, <1>5 DEF q

LEMMA BreakEvenStage ==
    ASSUME NEW p \in Position
    PROVE  LET q == ApplyBreakEven(p)
           IN  /\ SameTrade(p, q)
               /\ q.mark = p.mark /\ q.best = p.best /\ q.trailing = p.trailing
               /\ q.breakEven = (p.breakEven \/ BreakEvenDue(p))
               /\ q.stop = IF BreakEvenDue(p) THEN Entry ELSE p.stop
  <1>1. CASE BreakEvenDue(p)
    <2>1. ApplyBreakEven(p) = [p EXCEPT !.stop = Entry, !.breakEven = TRUE]
      BY <1>1 DEF ApplyBreakEven
    <2>2. Entry \in Levels
      BY Constants DEF Levels
    <2>. QED BY <1>1, <2>1, <2>2 DEF SameTrade, Position
  <1>2. CASE ~BreakEvenDue(p)
    <2>1. ApplyBreakEven(p) = p
      BY <1>2 DEF ApplyBreakEven
    <2>. QED BY <1>2, <2>1 DEF SameTrade, Position
  <1>. QED BY <1>1, <1>2

LEMMA TrailingStage ==
    ASSUME NEW p \in Position, NEW d \in Distances
    PROVE  LET q == ApplyTrailing(p, d)
           IN  /\ SameTrade(p, q)
               /\ q.mark = p.mark /\ q.best = p.best /\ q.breakEven = p.breakEven
               /\ q.trailing = (p.trailing \/ TrailingDue(p, d))
               /\ q.stop = IF TrailingDue(p, d) THEN Candidate(p, d) ELSE p.stop
               /\ TrailingDue(p, d) => q.stop \in Int
  <1>1. CASE TrailingDue(p, d)
    <2>1. ApplyTrailing(p, d) = [p EXCEPT !.stop = Candidate(p, d), !.trailing = TRUE]
      BY <1>1 DEF ApplyTrailing
    <2>2. Candidate(p, d) \in Int
      <3>1. d \in Int /\ p.side \in {1, -1} /\ p.best \in Int
        BY <1>1, Constants DEF TrailingDue, Position, Sides
      <3>. QED BY <3>1 DEF Candidate
    <2>3. Candidate(p, d) \in Levels
      BY <2>2 DEF Levels
    <2>. HIDE DEF Candidate
    <2>. QED BY <1>1, <2>1, <2>2, <2>3 DEF SameTrade, Position
  <1>2. CASE ~TrailingDue(p, d)
    <2>1. ApplyTrailing(p, d) = p
      BY <1>2 DEF ApplyTrailing
    <2>. QED BY <1>2, <2>1 DEF SameTrade, Position
  <1>. QED BY <1>1, <1>2

LEMMA RiskType == ASSUME NEW p \in Position PROVE RiskPerUnit(p) \in Nat
  BY Constants DEF RiskPerUnit, Position, Levels

(* A visit keeps the discipline, the protection of the trailing stop, and     *)
(* never loosens the stop.                                                    *)
LEMMA VisitStage ==
    ASSUME NEW p \in Position, NEW mark \in Marks, NEW d \in Distances, Protected(p)
    PROVE  LET q == Manage(UpdateMark(p, mark), d)
           IN  /\ SameTrade(p, q)
               /\ Protected(q)
               /\ Disciplined(p) => Disciplined(q) /\ Tightened(p, q)
  <1> DEFINE m == UpdateMark(p, mark)
             b == ApplyBreakEven(m)
             q == ApplyTrailing(b, d)
  <1>1. /\ SameTrade(p, m) /\ m.mark = mark /\ m.stop = p.stop /\ mark \in Int
        /\ m.breakEven = p.breakEven /\ m.trailing = p.trailing
        /\ AtLeast(p, m.best, p.best) /\ AtLeast(p, m.best, mark)
    BY MarkStage, Constants
  <1> HIDE DEF m
  <1>2. m \in Position
    BY <1>1 DEF SameTrade
  <1>3. /\ SameTrade(m, b) /\ b.mark = m.mark /\ b.best = m.best /\ b.trailing = m.trailing
        /\ b.breakEven = (m.breakEven \/ BreakEvenDue(m))
        /\ b.stop = IF BreakEvenDue(m) THEN Entry ELSE m.stop
    BY <1>2, BreakEvenStage
  <1> HIDE DEF b
  <1>4. b \in Position
    BY <1>3 DEF SameTrade
  <1>5. /\ SameTrade(b, q) /\ q.mark = b.mark /\ q.best = b.best /\ q.breakEven = b.breakEven
        /\ q.trailing = (b.trailing \/ TrailingDue(b, d))
        /\ q.stop = IF TrailingDue(b, d) THEN Candidate(b, d) ELSE b.stop
        /\ TrailingDue(b, d) => q.stop \in Int
    BY <1>4, TrailingStage
  <1> HIDE DEF q
  <1>6. SameTrade(p, q)
    BY <1>1, <1>3, <1>5 DEF SameTrade
  <1>7. /\ p.side \in {1, -1} /\ p.best \in Int /\ q.best \in Int /\ b.best = q.best
        /\ q.side = p.side /\ b.side = p.side /\ m.side = p.side /\ Entry \in Int
        /\ RiskPerUnit(p) = RiskPerUnit(m) /\ RiskPerUnit(b) = RiskPerUnit(m)
        /\ RiskPerUnit(q) = RiskPerUnit(m)
    BY <1>1, <1>3, <1>5, <1>6, Constants DEF SameTrade, Position, Sides, RiskPerUnit
  <1>8. RiskPerUnit(m) \in Nat /\ TrailingR \in Nat /\ BreakEvenR \in Nat
    BY <1>2, RiskType, Constants
  <1> DEFINE risk == RiskPerUnit(m)
  <1>9. TrailingR * risk \in Int /\ BreakEvenR * risk \in Int
        /\ (BreakEvenR <= TrailingR => BreakEvenR * risk <= TrailingR * risk)
    BY <1>8
  <1>10. b.mark = mark /\ m.mark = mark
    BY <1>1, <1>3
  <1> HIDE DEF risk
  <1>11. Protected(q)
    <2>1. CASE p.trailing
      <3>1. (p.best - Entry) * p.side >= TrailingR * risk
        BY <1>7, <2>1 DEF Protected, risk
      <3>2. (q.best - Entry) * p.side >= (p.best - Entry) * p.side
        BY <1>1, <1>3, <1>5, <1>7 DEF AtLeast
      <3>3. (q.best - Entry) * p.side \in Int /\ (p.best - Entry) * p.side \in Int
        BY <1>7
      <3>. QED BY <1>7, <1>9, <3>1, <3>2, <3>3 DEF Protected, risk
    <2>2. CASE TrailingDue(b, d)
      <3>1. (mark - Entry) * p.side >= TrailingR * risk
        BY <1>7, <1>10, <2>2 DEF TrailingDue, Reached, risk
      <3>2. (q.best - Entry) * p.side >= (mark - Entry) * p.side
        BY <1>1, <1>3, <1>5, <1>7 DEF AtLeast
      <3>3. (q.best - Entry) * p.side \in Int /\ (mark - Entry) * p.side \in Int
        BY <1>1, <1>7
      <3>. QED BY <1>7, <1>9, <3>1, <3>2, <3>3 DEF Protected, risk
    <2>3. CASE ~p.trailing /\ ~TrailingDue(b, d)
      BY <1>1, <1>3, <1>5, <2>3 DEF Protected
    <2>. QED BY <2>1, <2>2, <2>3
  <1>12. ASSUME Disciplined(p) PROVE Disciplined(q) /\ Tightened(p, q)
    <2>1. TrailingDue(b, d) => b.stop = NoLevel \/ p.side * q.stop > p.side * b.stop
      BY <1>5, <1>7 DEF TrailingDue, Beyond
    <2>2. b.breakEven => b.stop # NoLevel /\ AtLeast(p, b.stop, Entry) /\ b.stop \in Int
      <3>1. CASE BreakEvenDue(m)
        BY <1>3, <1>7, <3>1, Constants DEF AtLeast
      <3>2. CASE ~BreakEvenDue(m)
        <4>1. b.breakEven => b.stop # NoLevel /\ AtLeast(p, b.stop, Entry)
          BY <1>1, <1>3, <1>12, <3>2 DEF Disciplined
        <4>2. b.stop \in Levels
          BY <1>4 DEF Position
        <4>. QED BY <4>1, <4>2 DEF Levels
      <3>. QED BY <3>1, <3>2
    <2>3. q.breakEven => q.stop # NoLevel /\ AtLeast(q, q.stop, Entry)
      <3>1. CASE TrailingDue(b, d)
        <4>1. q.stop \in Int /\ q.stop # NoLevel
          BY <1>5, <3>1, Constants
        <4>. QED BY <1>5, <1>7, <2>1, <2>2, <3>1, <4>1 DEF AtLeast
      <3>2. CASE ~TrailingDue(b, d)
        BY <1>5, <1>7, <2>2, <3>2 DEF AtLeast
      <3>. QED BY <3>1, <3>2
    <2>4. ~q.breakEven /\ ~q.trailing => q.stop = q.initial
      BY <1>1, <1>3, <1>5, <1>12 DEF Disciplined, SameTrade
    <2>5. BreakEvenR > 0 /\ BreakEvenR <= TrailingR /\ q.trailing => q.breakEven
      <3> SUFFICES ASSUME BreakEvenR > 0, BreakEvenR <= TrailingR, q.trailing, ~m.breakEven
                   PROVE  BreakEvenDue(m)
        BY <1>3, <1>5
      <3>1. TrailingDue(b, d)
        BY <1>1, <1>3, <1>5, <1>12 DEF Disciplined
      <3>2. RiskPerUnit(m) > 0 /\ (mark - Entry) * p.side >= TrailingR * risk
        BY <1>7, <1>10, <3>1 DEF TrailingDue, Reached, risk
      <3>3. (mark - Entry) * p.side \in Int
        BY <1>1, <1>7
      <3>4. (m.mark - Entry) * m.side >= BreakEvenR * RiskPerUnit(m)
        BY <1>7, <1>9, <1>10, <3>2, <3>3 DEF risk
      <3>. QED BY <3>2, <3>4 DEF BreakEvenDue, Reached
    <2>6. Tightened(p, q)
      <3> SUFFICES ASSUME BreakEvenR <= TrailingR, Bracketed(p), p.stop # NoLevel
                   PROVE  q.stop # NoLevel /\ AtLeast(p, q.stop, p.stop)
        BY DEF Tightened
      <3>1. p.stop \in Int
        BY DEF Position, Levels
      <3>2. b.stop \in Int /\ AtLeast(p, b.stop, p.stop)
        <4>1. CASE BreakEvenDue(m)
          <5>1. ~p.trailing
            BY <1>1, <1>12, <4>1 DEF BreakEvenDue, Disciplined
          <5>2. p.stop = p.initial
            BY <1>1, <1>12, <4>1, <5>1 DEF BreakEvenDue, Disciplined
          <5>. QED BY <1>3, <1>7, <3>1, <4>1, <5>2 DEF Bracketed, Beyond, AtLeast
        <4>2. CASE ~BreakEvenDue(m)
          BY <1>1, <1>3, <1>7, <3>1, <4>2 DEF AtLeast
        <4>. QED BY <4>1, <4>2
      <3>3. CASE TrailingDue(b, d)
        BY <1>5, <1>7, <2>1, <3>1, <3>2, <3>3, Constants DEF AtLeast
      <3>4. CASE ~TrailingDue(b, d)
        BY <1>5, <3>2, <3>4, Constants
      <3>. QED BY <3>3, <3>4
    <2>. QED BY <2>3, <2>4, <2>5, <2>6 DEF Disciplined
  <1>. QED BY <1>6, <1>11, <1>12 DEF Manage, q, b, m

(* What a visit leaves in pos: the managed position, with its regime streak  *)
(* and its status.                                                           *)
LEMMA VisitOutcome ==
    ASSUME IInv, Visit
    PROVE  /\ PositionTypeOK'
           /\ Protected(pos')
           /\ Disciplined(pos) => Disciplined(pos') /\ Tightened(pos, pos')
           /\ Bracketed(pos') => Bracketed(pos)
           /\ UNCHANGED byHand
           /\ pos'.status = "open" => ~StopHit(pos') /\ ~TargetHit(pos')
  <1>1. PICK mark \in Marks, d \in Distances :
          \/ TimedExit(mark, d)
          \/ PlainVisit(mark, d)
          \/ \E reading \in Readings : RegimeVisit(mark, d, reading)
    BY DEF Visit
  <1> DEFINE q == Manage(UpdateMark(pos, mark), d)
  <1>2. pos \in Position /\ Protected(pos)
    BY DEF IInv, PositionTypeOK, TrailingProtectsProfit, Protected
  <1>3. /\ SameTrade(pos, q) /\ Protected(q)
        /\ Disciplined(pos) => Disciplined(q) /\ Tightened(pos, q)
    BY <1>2, VisitStage
  <1> HIDE DEF q
  <1>4. q \in Position
    BY <1>3 DEF SameTrade
  <1>5. /\ StopReason(q) \in Reasons /\ CheckExit(q) \in {"open"} \cup Reasons
        /\ CheckExit(q) = "open" => ~StopHit(q) /\ ~TargetHit(q)
    <2>1. StopReason(q) \in Reasons /\ StopReason(q) # "open"
      BY DEF StopReason, Reasons
    <2>. QED BY <2>1 DEF CheckExit, Reasons
  <1>6. \E n \in Nat, status \in {"open"} \cup Reasons :
          /\ pos' = [q EXCEPT !.adverse = n, !.status = status]
          /\ status = "open" => ~StopHit(q) /\ ~TargetHit(q)
    <2>1. CASE TimedExit(mark, d)
      <3>1. pos' = [q EXCEPT !.status = "time_exit"]
        BY <2>1 DEF TimedExit, q
      <3>2. pos' = [q EXCEPT !.adverse = q.adverse, !.status = "time_exit"]
        BY <1>4, <3>1 DEF Position
      <3>3. q.adverse \in Nat /\ "time_exit" \in Reasons /\ "time_exit" # "open"
        BY <1>4 DEF Position, Reasons
      <3>. QED BY <3>2, <3>3
    <2>2. CASE PlainVisit(mark, d)
      <3>1. pos' = [q EXCEPT !.status = CheckExit(q)]
        BY <2>2 DEF PlainVisit, q
      <3>2. pos' = [q EXCEPT !.adverse = q.adverse, !.status = CheckExit(q)]
        BY <1>4, <3>1 DEF Position
      <3>. QED BY <1>4, <1>5, <3>2 DEF Position
    <2>3. CASE \E reading \in Readings : RegimeVisit(mark, d, reading)
      <3>1. PICK reading \in Readings : RegimeVisit(mark, d, reading)
        BY <2>3
      <3> DEFINE status == IF Confirmed(q, reading) THEN "regime_change" ELSE CheckExit(q)
      <3>2. pos' = [q EXCEPT !.adverse = AdverseStreak(q, reading), !.status = status]
        BY <3>1 DEF RegimeVisit, q
      <3>3. AdverseStreak(q, reading) \in Nat
        BY <1>4 DEF AdverseStreak, Position
      <3>4. status \in {"open"} \cup Reasons /\ (status = "open" => CheckExit(q) = "open")
        BY <1>5 DEF Reasons
      <3>. HIDE DEF status
      <3>. QED BY <1>5, <3>2, <3>3, <3>4
    <2>. QED BY <1>1, <2>1, <2>2, <2>3
  <1>7. /\ pos' \in Position
        /\ pos'.side = q.side /\ pos'.initial = q.initial /\ pos'.target = q.target
        /\ pos'.stop = q.stop /\ pos'.mark = q.mark /\ pos'.best = q.best
        /\ pos'.breakEven = q.breakEven /\ pos'.trailing = q.trailing
        /\ pos'.status = "open" => ~StopHit(q) /\ ~TargetHit(q)
    BY <1>4, <1>6 DEF Position
  <1>8. readings' \in Seq(Readings) /\ age' \in 0..MaxAge
    <2>1. readings \in Seq(Readings) /\ age \in 0..MaxAge
      BY DEF IInv, PositionTypeOK
    <2>2. UNCHANGED age /\ (UNCHANGED readings \/ \E r \in Readings : readings' = Append(readings, r))
      BY <1>1 DEF TimedExit, PlainVisit, RegimeVisit
    <2>. QED BY <2>1, <2>2
  <1>14. UNCHANGED byHand
    BY <1>1 DEF TimedExit, PlainVisit, RegimeVisit
  <1>9. PositionTypeOK'
    BY <1>7, <1>8, <1>14 DEF IInv, PositionTypeOK
  <1>10. Protected(pos')
    BY <1>3, <1>7 DEF Protected, RiskPerUnit
  <1>11. Disciplined(pos) => Disciplined(pos') /\ Tightened(pos, pos')
    BY <1>3, <1>7 DEF Disciplined, Tightened, AtLeast
  <1>12. Bracketed(pos') => Bracketed(pos)
    BY <1>3, <1>7 DEF Bracketed, Beyond, SameTrade
  <1>13. pos'.status = "open" => ~StopHit(pos') /\ ~TargetHit(pos')
    BY <1>7 DEF StopHit, TargetHit, AtLeast
  <1>. QED BY <1>9, <1>10, <1>11, <1>12, <1>13, <1>14

LEMMA InitInv == PositionInit => IInv
  <1> SUFFICES ASSUME PositionInit PROVE IInv
    OBVIOUS
  <1>1. PICK side \in Sides, stop \in InitialStops, target \in Targets, known \in BOOLEAN :
          pos = [side |-> side, initial |-> stop, stop |-> stop, target |-> target,
                 mark |-> Entry, best |-> Entry, breakEven |-> FALSE, trailing |-> FALSE,
                 regimeKnown |-> known, adverse |-> 0, status |-> "open"]
    BY DEF PositionInit
  <1>2. stop \in Levels /\ target \in Levels /\ Entry \in Int
    BY Constants
  <1>3. PositionTypeOK
    <2>1. pos \in Position
      BY <1>1, <1>2 DEF Position
    <2>2. age \in 0..MaxAge /\ readings \in Seq(Readings)
      BY Constants DEF PositionInit
    <2>3. byHand \in BOOLEAN
      BY DEF PositionInit
    <2>. QED BY <2>1, <2>2, <2>3 DEF PositionTypeOK
  <1>4. StopDiscipline /\ TrailingProtectsProfit
    BY <1>1 DEF StopDiscipline, Disciplined, TrailingProtectsProfit
  <1>5. OpenInsideBracket
    <2>1. side \in {1, -1}
      BY DEF Sides
    <2>. QED BY <1>1, <1>2, <2>1, Constants DEF OpenInsideBracket, Bracketed, Beyond, StopHit,
                TargetHit, AtLeast, Levels
  <1>. QED BY <1>3, <1>4, <1>5 DEF IInv

(* The steps other than visits. *)
LEMMA OtherSteps ==
    ASSUME IInv,
           \/ Tick
           \/ Flatten
           \/ \E stop \in ManualStops : ModifyStop(stop)
           \/ MoveBreakEven
           \/ UNCHANGED positionVars
    PROVE  /\ IInv'
           /\ Handless' => Handless /\ pos'.stop = pos.stop
  <1>1. pos \in Position /\ age \in 0..MaxAge /\ readings \in Seq(Readings)
    BY DEF IInv, PositionTypeOK
  <1>2. /\ pos' \in Position
        /\ pos'.side = pos.side /\ pos'.initial = pos.initial /\ pos'.target = pos.target
        /\ pos'.mark = pos.mark /\ pos'.best = pos.best /\ pos'.trailing = pos.trailing
        /\ pos'.status = "open" => pos.status = "open"
    <2>1. CASE Tick \/ UNCHANGED positionVars
      BY <1>1, <2>1 DEF Tick, positionVars
    <2>2. CASE Flatten
      BY <1>1, <2>2 DEF Flatten, Position, Reasons, IsOpen
    <2>3. CASE \E stop \in ManualStops : ModifyStop(stop)
      BY <1>1, <2>3, Constants DEF ModifyStop, Position, Levels, IsOpen
    <2>4. CASE MoveBreakEven
      BY <1>1, <2>4, Constants DEF MoveBreakEven, Position, Levels, IsOpen
    <2>. QED BY <2>1, <2>2, <2>3, <2>4
  <1>3. Handless' => Handless /\ pos'.stop = pos.stop /\ pos'.breakEven = pos.breakEven
    BY <1>1 DEF Handless, Tick, Flatten, ModifyStop, MoveBreakEven, positionVars, Position
  <1>4. age' \in 0..MaxAge /\ readings' \in Seq(Readings) /\ byHand' \in BOOLEAN
    <2>1. age' \in 0..MaxAge /\ readings' \in Seq(Readings)
      BY <1>1, Constants DEF Tick, Flatten, ModifyStop, MoveBreakEven, positionVars
    <2>2. byHand' = byHand \/ byHand' = TRUE
      BY DEF Tick, Flatten, ModifyStop, MoveBreakEven, positionVars
    <2>. QED BY <2>1, <2>2 DEF IInv, PositionTypeOK
  <1>5. PositionTypeOK' /\ TrailingProtectsProfit'
    BY <1>2, <1>4 DEF PositionTypeOK, IInv, TrailingProtectsProfit, RiskPerUnit
  <1>6. StopDiscipline'
    BY <1>2, <1>3 DEF IInv, StopDiscipline, Disciplined, AtLeast, Handless
  <1>7. OpenInsideBracket'
    BY <1>2, <1>3 DEF IInv, OpenInsideBracket, Bracketed, Beyond, IsOpen, StopHit, TargetHit,
        AtLeast, Handless
  <1>. QED BY <1>3, <1>5, <1>6, <1>7 DEF IInv

LEMMA Induction ==
    ASSUME IInv, [PositionNext]_positionVars
    PROVE  IInv' /\ (Handless' => Tightened(pos, pos'))
  <1>1. CASE Visit
    <2>1. TrailingProtectsProfit' /\ PositionTypeOK'
      BY <1>1, VisitOutcome DEF Protected, TrailingProtectsProfit
    <2>2. StopDiscipline' /\ (Handless' => Tightened(pos, pos'))
      BY <1>1, VisitOutcome DEF IInv, StopDiscipline, Handless
    <2>3. OpenInsideBracket'
      BY <1>1, VisitOutcome DEF OpenInsideBracket, IsOpen, Handless
    <2>. QED BY <2>1, <2>2, <2>3 DEF IInv
  <1>2. CASE ~Visit
    <2>1. IInv' /\ (Handless' => pos'.stop = pos.stop)
      BY <1>2, OtherSteps DEF PositionNext
    <2>2. pos.side \in {1, -1} /\ pos.stop \in Levels
      BY DEF IInv, PositionTypeOK, Position, Sides
    <2>. QED BY <2>1, <2>2 DEF Tightened, AtLeast, Levels
  <1>. QED BY <1>1, <1>2

LEMMA Invariance == PositionSpec => []IInv
  <1>1. IInv /\ [PositionNext]_positionVars => IInv'
    BY Induction
  <1>. QED BY InitInv, <1>1, PTL DEF PositionSpec

(* Every position is well typed at every step of its life. *)
THEOREM PositionTyped == PositionSpec => []PositionTypeOK
  BY Invariance, PTL DEF IInv

(* Whatever the settings, a position the pass leaves open is inside its bracket. *)
THEOREM InsideBracket == PositionSpec => []OpenInsideBracket
  BY Invariance, PTL DEF IInv

(* A trailed stop means the price was once trailing_activate_r in favour. *)
THEOREM TrailingEarned == PositionSpec => []TrailingProtectsProfit
  BY Invariance, PTL DEF IInv

(* Break-even is never given back, with any ATR and any order of settings. *)
THEOREM BreakEvenKept == PositionSpec => []BreakEvenLocks
  <1>1. IInv => BreakEvenLocks
    BY DEF IInv, StopDiscipline, Disciplined, BreakEvenLocks
  <1>. QED BY <1>1, Invariance, PTL

(* With break-even no later than trailing, only the operator loosens the stop. *)
THEOREM Ratchet == PositionSpec => StopNeverLoosens
  <1>1. ASSUME IInv, [PositionNext]_positionVars
        PROVE  ~byHand' /\ BreakEvenR <= TrailingR /\ Bracketed(pos) /\ pos.stop # NoLevel
                 => pos'.stop # NoLevel /\ AtLeast(pos, pos'.stop, pos.stop)
    BY <1>1, Induction DEF Tightened, Handless
  <1>. QED BY <1>1, Invariance, PTL DEF PositionSpec, StopNeverLoosens

(* All that the managed run checks of the stop of an open position: inside   *)
(* its bracket, never back at a loss, trailed only on a profit               *)
(* (position_manager/manager.py:234-297, execution_engine/engine.py:487-498).*)
THEOREM StopIsKept == PositionSpec => []StopProtects
  BY PositionTyped, InsideBracket, BreakEvenKept, TrailingEarned, PTL DEF StopProtects
(* ------------------------- The change of regime ------------------------- *)

(* AdverseRun of any sequence of readings. *)
RunOf(rs) == {k \in DOMAIN rs : rs[k] = "adverse" /\ \A j \in k..Len(rs) : rs[j] # "favourable"}

(* An adverse reading lengthens the run, a favourable one ends it and an      *)
(* unknown one leaves it as it is.                                            *)
LEMMA RunGrows ==
    ASSUME NEW rs \in Seq(Readings), NEW r \in Readings
    PROVE  LET longer == Append(rs, r)
           IN  /\ IsFiniteSet(RunOf(rs)) /\ Len(rs) + 1 \notin RunOf(rs)
               /\ Len(longer) = Len(rs) + 1
               /\ r = "adverse" => RunOf(longer) = RunOf(rs) \cup {Len(rs) + 1}
               /\ r = "favourable" => RunOf(longer) = {}
               /\ r = "unknown" => RunOf(longer) = RunOf(rs)
  <1> DEFINE longer == Append(rs, r)
             n == Len(rs)
  <1>1. /\ n \in Nat /\ DOMAIN rs = 1..n
        /\ Len(longer) = n + 1 /\ DOMAIN longer = 1..(n + 1)
        /\ longer[n + 1] = r
        /\ \A k \in 1..n : longer[k] = rs[k]
    OBVIOUS
  <1> HIDE DEF longer, n
  <1>2. RunOf(rs) \subseteq 1..n
    BY <1>1 DEF RunOf
  <1>3. IsFiniteSet(RunOf(rs))
    <2>1. IsFiniteSet(1..n)
      BY <1>1, FS_Interval
    <2>. QED BY <1>2, <2>1, FS_Subset
  <1>4. n + 1 \notin RunOf(rs)
    BY <1>1, <1>2
  <1>5. \A k \in 1..n : k \in RunOf(longer) <=> k \in RunOf(rs) /\ r # "favourable"
    <2> SUFFICES ASSUME NEW k \in 1..n
                 PROVE  k \in RunOf(longer) <=> k \in RunOf(rs) /\ r # "favourable"
      OBVIOUS
    <2>1. k..(n + 1) = (k..n) \cup {n + 1}
      BY <1>1
    <2>2. (\A j \in k..(n + 1) : longer[j] # "favourable")
            <=> (\A j \in k..n : rs[j] # "favourable") /\ r # "favourable"
      <3>1. \A j \in k..n : j \in 1..n
        BY <1>1
      <3>. QED BY <1>1, <2>1, <3>1
    <2>. QED BY <1>1, <2>2 DEF RunOf, n
  <1>6. n + 1 \in RunOf(longer) <=> r = "adverse"
    <2>1. (n + 1)..(n + 1) = {n + 1}
      BY <1>1
    <2>. QED BY <1>1, <2>1 DEF RunOf
  <1>7. RunOf(longer) \subseteq (1..n) \cup {n + 1}
    BY <1>1 DEF RunOf
  <1>8. /\ r = "adverse" => RunOf(longer) = RunOf(rs) \cup {n + 1}
        /\ r = "favourable" => RunOf(longer) = {}
        /\ r = "unknown" => RunOf(longer) = RunOf(rs)
    BY <1>2, <1>5, <1>6, <1>7
  <1>. QED BY <1>1, <1>3, <1>4, <1>8 DEF longer, n

(* The streak counts the run, and an exit for the regime was confirmed. *)
Streak == pos.adverse = Cardinality(AdverseRun)
RegimeInv == Streak /\ RegimeExitConfirmed

LEMMA RegimeInit == PositionInit => RegimeInv
  <1> SUFFICES ASSUME PositionInit PROVE RegimeInv
    OBVIOUS
  <1>1. pos.adverse = 0 /\ pos.status = "open"
    BY DEF PositionInit
  <1>2. AdverseRun = {}
    BY DEF PositionInit, AdverseRun
  <1>3. Cardinality({}) = 0
    BY FS_EmptySet
  <1>. QED BY <1>1, <1>2, <1>3 DEF RegimeInv, Streak, RegimeExitConfirmed

LEMMA RegimeStep == ASSUME IInv, RegimeInv, [PositionNext]_positionVars PROVE RegimeInv'
  <1>0. /\ pos \in Position /\ readings \in Seq(Readings) /\ Streak /\ RegimeExitConfirmed
        /\ pos.adverse \in Nat
    BY DEF IInv, PositionTypeOK, RegimeInv, Position
  <1>1. ASSUME UNCHANGED readings, pos'.adverse = pos.adverse,
               pos'.status = "regime_change" => pos.status = "regime_change" /\ UNCHANGED age
        PROVE  RegimeInv'
    <2>1. AdverseRun' = AdverseRun
      BY <1>1 DEF AdverseRun
    <2>. QED BY <1>0, <1>1, <2>1 DEF RegimeInv, Streak, RegimeExitConfirmed
  <1>2. CASE Visit
    <2>1. PICK mark \in Marks, d \in Distances :
            \/ TimedExit(mark, d)
            \/ PlainVisit(mark, d)
            \/ \E reading \in Readings : RegimeVisit(mark, d, reading)
      BY <1>2 DEF Visit
    <2> DEFINE q == Manage(UpdateMark(pos, mark), d)
    <2>2. q \in Position /\ q.status = pos.status /\ q.adverse = pos.adverse
      <3>1. SameTrade(pos, q)
        BY VisitStage DEF IInv, PositionTypeOK, TrailingProtectsProfit, Protected
      <3>. QED BY <3>1 DEF SameTrade
    <2> HIDE DEF q
    <2>3. CheckExit(q) # "regime_change"
      BY DEF CheckExit, StopReason
    <2>4. CASE TimedExit(mark, d)
      <3>1. pos' = [q EXCEPT !.status = "time_exit"] /\ UNCHANGED readings
        BY <2>4 DEF TimedExit, q
      <3>2. pos'.adverse = pos.adverse /\ pos'.status = "time_exit"
        BY <2>2, <3>1 DEF Position
      <3>. QED BY <1>1, <3>1, <3>2
    <2>5. CASE PlainVisit(mark, d)
      <3>1. pos' = [q EXCEPT !.status = CheckExit(q)] /\ UNCHANGED readings
        BY <2>5 DEF PlainVisit, q
      <3>2. pos'.adverse = pos.adverse /\ pos'.status = CheckExit(q)
        BY <2>2, <3>1 DEF Position
      <3>. QED BY <1>1, <2>3, <3>1, <3>2
    <2>6. CASE \E reading \in Readings : RegimeVisit(mark, d, reading)
      <3>1. PICK reading \in Readings : RegimeVisit(mark, d, reading)
        BY <2>6
      <3> DEFINE length == AdverseStreak(q, reading)
                 status == IF Confirmed(q, reading) THEN "regime_change" ELSE CheckExit(q)
      <3>2. /\ pos' = [q EXCEPT !.adverse = length, !.status = status]
            /\ readings' = Append(readings, reading) /\ UNCHANGED age /\ age >= MinRegimeAge
        <4>1. RegimeRead(pos)
          BY <3>1 DEF RegimeVisit
        <4>. QED BY <3>1, <4>1 DEF RegimeVisit, RegimeRead, q
      <3>3. status = "regime_change" => reading = "adverse" /\ length >= Confirmations
        BY <2>3 DEF Confirmed
      <3>4. length = CASE reading = "adverse" -> pos.adverse + 1
                       [] reading = "favourable" -> 0
                       [] OTHER -> pos.adverse
        BY <2>2 DEF AdverseStreak
      <3> HIDE DEF length, status
      <3>5. pos'.adverse = length /\ pos'.status = status
        BY <2>2, <3>2 DEF Position
      <3> DEFINE run == RunOf(readings)
                 longer == Append(readings, reading)
      <3>6. AdverseRun = run /\ AdverseRun' = RunOf(longer) /\ readings' = longer
        BY <3>2 DEF AdverseRun, RunOf
      <3>7. /\ IsFiniteSet(run) /\ Len(readings) + 1 \notin run
            /\ Len(longer) = Len(readings) + 1
            /\ reading = "adverse" => RunOf(longer) = run \cup {Len(readings) + 1}
            /\ reading = "favourable" => RunOf(longer) = {}
            /\ reading = "unknown" => RunOf(longer) = run
        BY <1>0, RunGrows
      <3> HIDE DEF run, longer
      <3>8. Cardinality(run) = pos.adverse
        BY <1>0, <3>6 DEF Streak
      <3>9. Cardinality(RunOf(longer)) = length
        <4>1. CASE reading = "adverse"
          <5>1. Cardinality(run \cup {Len(readings) + 1}) = Cardinality(run) + 1
            BY <3>7, FS_AddElement
          <5>. QED BY <3>4, <3>7, <3>8, <4>1, <5>1
        <4>2. CASE reading = "favourable"
          <5>1. Cardinality({}) = 0
            BY FS_EmptySet
          <5>. QED BY <3>4, <3>7, <4>2, <5>1
        <4>3. CASE reading = "unknown"
          BY <3>4, <3>7, <3>8, <4>3
        <4>. QED BY <4>1, <4>2, <4>3 DEF Readings
      <3>10. Streak'
        BY <3>5, <3>6, <3>9 DEF Streak
      <3>11. RegimeExitConfirmed'
        <4> SUFFICES ASSUME status = "regime_change"
                     PROVE  /\ age >= MinRegimeAge
                            /\ Len(longer) \in RunOf(longer)
                            /\ Cardinality(RunOf(longer)) >= Confirmations
          BY <3>2, <3>5, <3>6 DEF RegimeExitConfirmed
        <4>. QED BY <3>2, <3>3, <3>7, <3>9
      <3>. QED BY <3>10, <3>11 DEF RegimeInv
    <2>. QED BY <2>1, <2>4, <2>5, <2>6
  <1>3. CASE ~Visit
    <2>1. CASE Tick
      BY <1>1, <2>1 DEF Tick, IsOpen
    <2>2. CASE Flatten
      <3>1. pos' = [pos EXCEPT !.status = "kill_switch"] /\ UNCHANGED readings
        BY <2>2 DEF Flatten
      <3>2. pos'.adverse = pos.adverse /\ pos'.status = "kill_switch"
        BY <1>0, <3>1 DEF Position
      <3>. QED BY <1>1, <3>1, <3>2
    <2>3. CASE \/ \E stop \in ManualStops : ModifyStop(stop)
               \/ MoveBreakEven
               \/ UNCHANGED positionVars
      <3>1. UNCHANGED <<age, readings>>
        BY <2>3 DEF ModifyStop, MoveBreakEven, positionVars
      <3>2. pos'.adverse = pos.adverse /\ pos'.status = pos.status
        BY <1>0, <2>3 DEF ModifyStop, MoveBreakEven, positionVars, Position
      <3>. QED BY <1>1, <3>1, <3>2
    <2>. QED BY <1>3, <2>1, <2>2, <2>3 DEF PositionNext
  <1>. QED BY <1>2, <1>3

(* A position is only exited for a change of regime after it has been held    *)
(* long enough, on an adverse reading, and after as many adverse readings as  *)
(* the settings ask for with no favourable one between them                   *)
(* (execution_engine/engine.py:690-738).                                      *)
THEOREM RegimeExitsConfirmed == PositionSpec => []RegimeExitConfirmed
  <1>1. IInv /\ RegimeInv /\ [PositionNext]_positionVars => RegimeInv'
    BY RegimeStep
  <1>2. RegimeInv => RegimeExitConfirmed
    BY DEF RegimeInv
  <1>. QED BY RegimeInit, Invariance, <1>1, <1>2, PTL DEF PositionSpec
=============================================================================
