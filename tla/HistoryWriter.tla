---------------------------- MODULE HistoryWriter ----------------------------
(* What the engine keeps of its signals and decisions                        *)
(* (engine/state_manager/writer.py), with `persist` on: rows wait in bounded *)
(* buffers, a task writes a batch of each from time to time, a batch the     *)
(* database refuses is spilled to a file, and a stop writes one batch more.  *)
EXTENDS Integers, SequencesExt

CONSTANTS
    MemoryLimit,   \* settings.memory_limit
    BatchSize,     \* settings.batch_size
    RowLimit       \* bound: rows of each kind, a function

Labels == {"signals", "decisions"}

ASSUME HistoryAssumption == /\ MemoryLimit \in Nat \ {0} /\ BatchSize \in Nat \ {0}
                            /\ \A l \in Labels : RowLimit[l] \in Nat

VARIABLES
    buffers,       \* _signals, _decisions: rows, numbered as they were added
    inHand,        \* the batch that is being written, at most one
    stored,        \* the tables: <<label, row>>
    spilled,       \* the spill files
    writer,        \* the service: "running", "stopping" or "stopped"
    added,         \* history: rows of each kind added so far
    atStop,        \* history: what had been added when it was last stopped
    spoiled        \* history: what a row can be lost by, or written twice

historyVars == <<buffers, inHand, stored, spilled, writer, added, atStop, spoiled>>

RowsOf(batch) == {<<batch.label, batch.rows[i]>> : i \in DOMAIN batch.rows}

-----------------------------------------------------------------------------
(* Steps. *)

HistoryInit ==
    /\ buffers = [l \in Labels |-> <<>>]
    /\ inHand = {}
    /\ stored = {} /\ spilled = {}
    /\ writer = "running"
    /\ added = [l \in Labels |-> 0] /\ atStop = added
    /\ spoiled = {}

(* A full buffer drops its oldest row without a word.  Nothing here asks     *)
(* whether the service runs.                                                 *)
AddRow(l) ==
    /\ added[l] < RowLimit[l]
    /\ added' = [added EXCEPT ![l] = @ + 1]
    /\ LET full == Len(buffers[l]) = MemoryLimit
           kept == IF full THEN Tail(buffers[l]) ELSE buffers[l]
       IN /\ buffers' = [buffers EXCEPT ![l] = Append(kept, added[l] + 1)]
          /\ spoiled' = IF full THEN spoiled \cup {"overflow"} ELSE spoiled
    /\ UNCHANGED <<inHand, stored, spilled, writer, atStop>>

(* The next batch of the kinds a flush has still to visit, signals first; a  *)
(* kind without rows is skipped.  A flush without batches is over.           *)
TakeNext(by, labels) ==
    LET due   == {l \in labels : buffers[l] # <<>>}
        label == IF "signals" \in due THEN "signals" ELSE "decisions"
        size  == IF Len(buffers[label]) < BatchSize THEN Len(buffers[label]) ELSE BatchSize
    IN IF due = {}
       THEN /\ inHand' = {}
            /\ writer' = IF by = "stop" THEN "stopped" ELSE "running"
            /\ UNCHANGED buffers
       ELSE /\ inHand' = {[by |-> by, label |-> label,
                           rows |-> SubSeq(buffers[label], 1, size)]}
            /\ writer' = IF by = "stop" THEN "stopping" ELSE "running"
            /\ buffers' = [buffers EXCEPT ![label] = SubSeq(@, size + 1, Len(@))]

Left(batch) == IF batch.label = "signals" THEN {"decisions"} ELSE {}

Tick ==
    /\ writer = "running" /\ inHand = {}
    /\ \E l \in Labels : buffers[l] # <<>>
    /\ TakeNext("loop", Labels)
    /\ UNCHANGED <<stored, spilled, added, atStop, spoiled>>

FlushCommits ==
    \E batch \in inHand :
        /\ stored' = stored \cup RowsOf(batch)
        /\ TakeNext(batch.by, Left(batch))
        /\ UNCHANGED <<spilled, added, atStop, spoiled>>

(* The database fails: before it commits, or after, its answer lost.  The    *)
(* batch goes to the file, or with a disk that fails nowhere.                *)
FlushFails(unsure, disk) ==
    \E batch \in inHand :
        /\ stored' = IF unsure THEN stored \cup RowsOf(batch) ELSE stored
        /\ spilled' = IF disk THEN spilled \cup RowsOf(batch) ELSE spilled
        /\ spoiled' = spoiled \cup {mishap \in {"unsure", "disk"} :
                          \/ mishap = "unsure" /\ unsure
                          \/ mishap = "disk" /\ ~disk}
        /\ TakeNext(batch.by, Left(batch))
        /\ UNCHANGED <<added, atStop>>

(* The task is cancelled where it stands - a batch it was writing is in the  *)
(* table or nowhere - and one more flush begins.                             *)
StopWriter ==
    /\ writer = "running"
    /\ \E done \in SUBSET inHand : stored' = stored \cup UNION {RowsOf(b) : b \in done}
    /\ atStop' = added
    /\ spoiled' = spoiled \cup {mishap \in {"cut", "backlog"} :
                      \/ mishap = "cut" /\ inHand # {}
                      \/ mishap = "backlog" /\ \E l \in Labels : Len(buffers[l]) > BatchSize}
    /\ TakeNext("stop", Labels)
    /\ UNCHANGED <<spilled, added>>

(* The watchdog's restart: what waits is still there.                        *)
StartWriter ==
    /\ writer = "stopped"
    /\ writer' = "running"
    /\ UNCHANGED <<buffers, inHand, stored, spilled, added, atStop, spoiled>>

HistoryNext ==
    \/ Tick \/ FlushCommits \/ StopWriter \/ StartWriter
    \/ \E l \in Labels : AddRow(l)
    \/ \E unsure, disk \in BOOLEAN : FlushFails(unsure, disk)

HistorySpec == HistoryInit /\ [][HistoryNext]_historyVars

-----------------------------------------------------------------------------
(* Properties. *)

HistoryTypeOK ==
    /\ \A l \in Labels : Len(buffers[l]) <= MemoryLimit /\ added[l] \in 0..RowLimit[l]
    /\ \A batch \in inHand : Len(batch.rows) \in 1..BatchSize /\ batch.label \in Labels
    /\ writer \in {"running", "stopping", "stopped"}
    /\ writer = "stopped" => inHand = {}

(* A stop leaves on disk every row that had been added when it was asked     *)
(* for, unless a buffer overflowed, a stop cut a batch short or found more   *)
(* than one, or the disk failed too (writer.py:87-93, 114-146).              *)
StopWritesAll ==
    (writer = "stopped" /\ spoiled \subseteq {"unsure"}) =>
        \A l \in Labels : \A row \in 1..atStop[l] : <<l, row>> \in stored \cup spilled

(* A row is in the table or in the file, in both only if the database        *)
(* committed and could not say so, and rows leave in the order they came:    *)
(* none is kept back behind a newer one (writer.py:117-133).                 *)
WrittenOnceInOrder ==
    /\ "unsure" \notin spoiled => stored \cap spilled = {}
    /\ \A written \in stored \cup spilled :
         \A i \in DOMAIN buffers[written[1]] : written[2] < buffers[written[1]][i]
=============================================================================
