------------------------------ MODULE SyncQueue ------------------------------
(* The project's log on its way to Notion: entries recorded in a local file  *)
(* and sent, queued on disk when Notion does not answer, and sent again by   *)
(* flush (documentation/backends.py, documentation/service.py).              *)
(*                                                                           *)
(* A line of the queue is the set of the entries written on it; it is whole  *)
(* unless its writing was cut, and then the next append goes on the same     *)
(* line.                                                                     *)
EXTENDS Integers, Sequences, FiniteSets

CONSTANTS
    MaxEntries,    \* bound: entries recorded
    MaxCrashes     \* bound: crashes

ASSUME LogAssumption == MaxEntries \in Nat /\ MaxCrashes \in Nat

Entries == 1..MaxEntries

VARIABLES
    recorded,      \* entries recorded so far
    local,         \* those in the Markdown file
    inFlight,      \* those whose record() is still sending
    queue,         \* lines of the queue's file
    flushing,      \* the flush in progress, at most one: the lock
    pages,         \* pages Notion has created for each entry
    reachable,     \* Notion answers, neither busy nor refusing the integration
    unfit,         \* entries Notion rejects for what they are
    garbled,       \* a line of the queue was cut inside a character
    crashes,
    excused,       \* history: entries lost in a way the code does not guard against
    ambiguous      \* history: entries sent, whose sending left no trace

queueVars == <<recorded, local, inFlight, queue, flushing, pages, reachable, unfit, garbled,
               crashes, excused, ambiguous>>

Whole(line) == line.whole
On(lines) == UNION {lines[i].entries : i \in DOMAIN lines}

-----------------------------------------------------------------------------
(* One delivery, all its attempts: while Notion answers it makes one page,   *)
(* or two when the reply to an attempt was lost, and none of an entry it     *)
(* rejects; otherwise it fails, possibly after making a page nobody heard of.*)

(* Pages are counted up to two.                                             *)
MorePages(e) == [pages EXCEPT ![e] = IF @ < 2 THEN @ + 1 ELSE @]

EntrySent(e) ==
    /\ reachable /\ e \notin unfit
    /\ \/ /\ pages' = MorePages(e)
          /\ UNCHANGED ambiguous
       \/ /\ pages' = [pages EXCEPT ![e] = 2]
          /\ ambiguous' = ambiguous \cup {e}

EntryFailed(e) ==
    \/ /\ reachable => e \in unfit
       /\ UNCHANGED <<pages, ambiguous>>
    \/ /\ ~reachable /\ e \notin unfit
       /\ pages' = MorePages(e)
       /\ ambiguous' = ambiguous \cup {e}

(* Append in JSON lines.                                                     *)
Enqueued(e) ==
    IF queue # <<>> /\ ~Whole(queue[Len(queue)])
    THEN [queue EXCEPT ![Len(queue)].entries = @ \cup {e}]
    ELSE Append(queue, [entries |-> {e}, whole |-> TRUE])

(* An append cut by a crash or a full disk.                                  *)
CutShort(e) ==
    IF queue # <<>> /\ ~Whole(queue[Len(queue)]) THEN Enqueued(e)
    ELSE Append(queue, [entries |-> {e}, whole |-> FALSE])

(* What a failed rewrite with these lines leaves in the truncated file: the  *)
(* first of them, the last perhaps cut.                                      *)
Torn(lines) ==
    {[i \in 1..n |-> [entries |-> lines[i].entries, whole |-> Whole(lines[i]) /\ (i < n \/ full)]]
        : n \in 0..Len(lines), full \in BOOLEAN}

(* A cut inside a character leaves a file that no longer decodes.            *)
PerhapsGarbled(lines) == {FALSE, \E i \in DOMAIN lines : ~Whole(lines[i])}

-----------------------------------------------------------------------------
(* Steps. *)

(* A backend of Notion that has sent nothing yet, its lock free.             *)
NotionIdle == inFlight = {} /\ queue = <<>> /\ flushing = {}

QueueInit ==
    /\ recorded = 0 /\ local = {} /\ NotionIdle
    /\ pages = [e \in Entries |-> 0]
    /\ reachable \in BOOLEAN /\ unfit = {} /\ garbled = FALSE
    /\ crashes = 0 /\ excused = {} /\ ambiguous = {}

(* The Markdown file is appended to, or the append fails.                    *)
InMarkdown(e) == {local, local \cup {e}}

(* Every backend in turn; the failure of one does not stop the next.         *)
RecordEntry ==
    /\ recorded < MaxEntries
    /\ recorded' = recorded + 1
    /\ local' \in InMarkdown(recorded')
    /\ inFlight' = inFlight \cup {recorded'}
    /\ unfit' \in {unfit, unfit \cup {recorded'}}
    /\ UNCHANGED <<queue, flushing, pages, reachable, garbled, crashes, excused, ambiguous>>

EntryDelivered(e) ==
    /\ e \in inFlight
    /\ EntrySent(e)
    /\ inFlight' = inFlight \ {e}
    /\ UNCHANGED <<recorded, local, queue, flushing, reachable, unfit, garbled, crashes, excused>>

(* Queued on disk, which may fail as well; no lock is taken.                 *)
EntryQueued(e) ==
    /\ e \in inFlight
    /\ EntryFailed(e)
    /\ inFlight' = inFlight \ {e}
    /\ \/ /\ queue' = Enqueued(e)
          /\ excused' = IF \E i \in DOMAIN queue' : Whole(queue'[i]) /\ e \in queue'[i].entries
                        THEN excused ELSE excused \cup {e}
          /\ UNCHANGED garbled
       \/ /\ queue' = queue /\ excused' = excused \cup {e}
          /\ UNCHANGED garbled
       \/ /\ queue' = CutShort(e) /\ excused' = excused \cup {e}
          /\ garbled' \in {garbled, TRUE}
    /\ UNCHANGED <<recorded, local, flushing, reachable, unfit, crashes>>

(* Reading a file that does not decode raises, and flush with it.            *)
BeginFlush ==
    /\ flushing = {} /\ queue # <<>> /\ ~garbled
    /\ flushing' = {[lines |-> queue, left |-> queue, failing |-> <<>>]}
    /\ UNCHANGED <<recorded, local, inFlight, queue, pages, reachable, unfit, garbled, crashes,
                   excused, ambiguous>>

(* A line that cannot be read is dropped and does not stop the others.       *)
Mutant_CorruptBlocks(f) == f
LineDropped(f) == [f EXCEPT !.left = Tail(@)]

SkipCorrupt ==
    \E f \in flushing :
        /\ f.left # <<>> /\ ~Whole(Head(f.left))
        /\ flushing' = {LineDropped(f)}
        /\ UNCHANGED <<recorded, local, inFlight, queue, pages, reachable, unfit, garbled,
                       crashes, excused, ambiguous>>

Mutant_FailuresForgotten(f) == [f EXCEPT !.left = Tail(@)]
LineKept(f) == [lines |-> f.lines, left |-> Tail(f.left),
                failing |-> Append(f.failing, Head(f.left))]

Resend ==
    \E f \in flushing :
        /\ f.left # <<>> /\ Whole(Head(f.left))
        /\ \E e \in Head(f.left).entries :
              \/ EntrySent(e) /\ flushing' = {LineDropped(f)}
              \/ EntryFailed(e) /\ flushing' = {LineKept(f)}
        /\ UNCHANGED <<recorded, local, inFlight, queue, reachable, unfit, garbled, crashes,
                       excused>>

(* What this flush has sent and the file still holds.                        *)
SentUnwritten(f) == On(f.lines) \ (On(f.left) \cup On(f.failing))

(* The file becomes what still failed: lines appended since it was read are  *)
(* overwritten with it.                                                      *)
Rewritten(f) == f.failing
Overwritten(f) == On(queue) \ On(f.lines)
Legible(lines) == {e \in On(lines) : \E i \in DOMAIN lines : Whole(lines[i]) /\ e \in lines[i].entries}

(* The write may fail before the file is opened, or after it was truncated;  *)
(* either is logged and no more.                                             *)
EndFlush ==
    \E f \in flushing :
        /\ f.left = <<>>
        /\ flushing' = {}
        /\ \/ /\ queue' = Rewritten(f)
              /\ excused' = excused \cup Overwritten(f)
              /\ UNCHANGED <<garbled, ambiguous>>
           \/ /\ UNCHANGED <<queue, excused, garbled>>
              /\ ambiguous' = ambiguous \cup SentUnwritten(f)
           \/ /\ f.failing # <<>>
              /\ queue' \in Torn(f.failing)
              /\ excused' = excused \cup Overwritten(f) \cup (On(f.failing) \ Legible(queue'))
              /\ garbled' \in PerhapsGarbled(queue')
              /\ UNCHANGED ambiguous
        /\ UNCHANGED <<recorded, local, inFlight, pages, reachable, unfit, crashes>>

(* A crash forgets what was in memory; it may cut an append, or a rewrite    *)
(* after the file was truncated.                                             *)
RecorderCrash ==
    /\ crashes < MaxCrashes
    /\ crashes' = crashes + 1
    /\ inFlight' = {} /\ flushing' = {}
    /\ ambiguous' = ambiguous \cup UNION {SentUnwritten(f) : f \in flushing}
    /\ \/ /\ UNCHANGED <<queue, garbled>>
          /\ excused' = excused \cup inFlight
       \/ \E e \in inFlight :
            /\ queue' = CutShort(e)
            /\ excused' = excused \cup inFlight
            /\ garbled' \in {garbled, TRUE}
       \/ /\ \E f \in flushing : f.left = <<>>
          /\ queue' = <<>>
          /\ excused' = excused \cup inFlight \cup On(queue)
          /\ UNCHANGED garbled
    /\ UNCHANGED <<recorded, local, pages, reachable, unfit>>

NotionChanges ==
    /\ reachable' = ~reachable
    /\ UNCHANGED <<recorded, local, inFlight, queue, flushing, pages, unfit, garbled, crashes,
                   excused, ambiguous>>

FlushStep == BeginFlush \/ SkipCorrupt \/ Resend \/ EndFlush

QueueNext ==
    \/ RecordEntry \/ FlushStep \/ RecorderCrash \/ NotionChanges
    \/ \E e \in Entries : EntryDelivered(e) \/ EntryQueued(e)

QueueSpec == QueueInit /\ [][QueueNext]_queueVars

(* The job of the scheduler flushes again and again, and a request ends.     *)
QueueFairness == WF_queueVars(FlushStep)

-----------------------------------------------------------------------------
(* Properties. *)

QueueTypeOK ==
    /\ recorded \in 0..MaxEntries
    /\ local \cup inFlight \cup On(queue) \cup excused \cup ambiguous \cup unfit
         \subseteq 1..recorded
    /\ garbled \in BOOLEAN
    /\ Cardinality(flushing) <= 1
    /\ pages \in [Entries -> 0..2] /\ crashes \in 0..MaxCrashes
    /\ \A i \in DOMAIN queue : Whole(queue[i]) => Cardinality(queue[i].entries) = 1

(* An entry is not lost: it is being sent, in the queue, or has a page,      *)
(* unless it was appended while a flush was between its reading and its      *)
(* rewriting of the file, was in memory when the process crashed, shares a   *)
(* line that was cut, or the disk refused its line or tore the rewriting     *)
(* (backends.py:144-256).                                                    *)
EntriesKept ==
    \A e \in 1..recorded :
        \/ e \in inFlight \cup On(queue) \cup excused
        \/ pages[e] > 0

(* A second page for an entry means its sending left no trace: a reply lost, *)
(* or a crash or a failed write between the sending and the rewriting        *)
(* (backends.py:156-187, 249-255).                                           *)
DuplicatesExplained == \A e \in Entries : pages[e] > 1 => e \in ambiguous

(* Once Notion answers for good, again and again all that is queued has been *)
(* delivered, whatever else the file holds, but for the entries it rejects,  *)
(* which stay for ever; a line cut inside a character, though, stops every   *)
(* flush (backends.py:180-183, 217-256).                                     *)
QueueDrains ==
    <>[](reachable /\ ~garbled) =>
        []<>(\A e \in On(queue) \ unfit : pages[e] > 0 \/ e \in excused)
=============================================================================
