------------------------------- MODULE Backups -------------------------------
(* The backup service: archives of the state with their manifests, made in   *)
(* worker threads, verified, rotated and restored (production/backup).       *)
(*                                                                           *)
(* A backup is named after the second it starts in.  Its contents are the    *)
(* generation of each source when it was read; two writers of one archive    *)
(* spoil it.                                                                 *)
EXTENDS Integers, Sequences, FiniteSets

CONSTANTS
    Sources,       \* BackupSettings.sources
    Beside,        \* those in the parent of the backup directory, where restore extracts
    Workers,       \* threads creating backups: the scheduled job, the dashboard
    Retention,     \* BackupSettings.retention
    Seconds,       \* bound: the clock
    Generations    \* bound: changes of the live state

(* rotate() takes a retention below one for one.                             *)
ASSUME BackupAssumption == /\ Beside \subseteq Sources /\ Retention \in Nat \ {0}
                           /\ Seconds \in Nat \ {0} /\ Generations \in Nat

VARIABLES
    second,
    disk,          \* live generation of each source
    archives,      \* second -> archive: contents, or spoilt, or cut short
    manifests,     \* second -> the contents whose hash was recorded
    listed,        \* the manifests, newest first
    maker,         \* worker -> what it is doing
    restoring,     \* the restore that has verified its archive, at most one
    opened,        \* history: the second the last backup started in
    shared,        \* history: two backups were made in one second
    stuck          \* history: backups the disk refused to remove

backupVars == <<second, disk, archives, manifests, listed, maker, restoring, opened, shared, stuck>>

Making(step, id, sum, doomed) == [step |-> step, id |-> id, sum |-> sum, doomed |-> doomed]
Idle == Making("idle", 0, {}, {})
Contents == [Sources -> 0..Generations]
Extended(f, x, y) == [z \in DOMAIN f \cup {x} |-> IF z = x THEN y ELSE f[z]]
Without(f, xs) == [z \in DOMAIN f \ xs |-> f[z]]

(* The manifests but this one, in their order.                               *)
Others(id) ==
    IF \E i \in DOMAIN listed : listed[i] = id
    THEN LET at == CHOOSE i \in DOMAIN listed : listed[i] = id
         IN  [i \in 1..Len(listed) - 1 |-> IF i < at THEN listed[i] ELSE listed[i + 1]]
    ELSE listed

(* A manifest: the identity of its archive and the hash recorded for it.     *)
Recorded(id, sum) == Extended(manifests, id, sum)
Readable(id) == id \in DOMAIN manifests
NewestFirst(id) == <<id>> \o Others(id)

(* The hash of a file stands for its bytes.                                  *)
Digest(id) == archives[id]
Verified(id) == id \in DOMAIN archives /\ manifests[id] = Digest(id)

(* The manifests beyond the first so many, newest first.                     *)
After(n) == {listed[i] : i \in {j \in DOMAIN listed : j > n}}
Expired == After(Retention)

-----------------------------------------------------------------------------

BackupInit ==
    /\ second = 1
    /\ disk = [s \in Sources |-> 0]
    /\ archives = <<>> /\ manifests = <<>> /\ listed = <<>>
    /\ maker = [w \in Workers |-> Idle]
    /\ restoring = {} /\ opened = 0 /\ shared = FALSE /\ stuck = {}

StateChanges ==
    /\ \E s \in Sources : /\ disk[s] < Generations
                          /\ disk' = [disk EXCEPT ![s] = @ + 1]
    /\ UNCHANGED <<second, archives, manifests, listed, maker, restoring, opened, shared, stuck>>

SecondPasses ==
    /\ second < Seconds
    /\ second' = second + 1
    /\ UNCHANGED <<disk, archives, manifests, listed, maker, restoring, opened, shared, stuck>>

(* Opening truncates whatever had the name.  Idle threads are alike: one of  *)
(* them starts.  Bound: no backup starts after two have shared a second.     *)
OpenArchive(w) ==
    /\ ~shared
    /\ \E v \in Workers : maker[v].step = "idle"
    /\ w = CHOOSE v \in Workers : maker[v].step = "idle"
    /\ maker' = [maker EXCEPT ![w] = Making("adding", second, {}, {})]
    /\ opened' = second
    /\ shared' = (shared \/ opened = second)
    /\ archives' = Extended(archives, second, [whole |-> FALSE, files |-> <<>>])
    /\ UNCHANGED <<second, disk, manifests, listed, restoring, stuck>>

Writers(id) == {w \in Workers : maker[w].step = "adding" /\ maker[w].id = id}

AddSources(w) ==
    /\ maker[w].step = "adding"
    /\ maker' = [maker EXCEPT ![w] = Making("hashing", @.id, {}, {})]
    /\ LET id == maker[w].id
       IN  archives' = IF id \in DOMAIN archives
                       THEN Extended(archives, id,
                              [whole |-> Writers(id) = {w} /\ archives[id].files = <<>>,
                               files |-> disk])
                       ELSE archives
    /\ UNCHANGED <<second, disk, manifests, listed, restoring, opened, shared, stuck>>

Hash(w) ==
    /\ maker[w].step = "hashing"
    /\ maker[w].id \in DOMAIN archives
    /\ maker' = [maker EXCEPT ![w] = Making("recording", @.id, {Digest(@.id)}, {})]
    /\ UNCHANGED <<second, disk, archives, manifests, listed, restoring, opened, shared, stuck>>

(* The archive was rotated away in between: the thread fails.                *)
HashFails(w) ==
    /\ maker[w].step = "hashing"
    /\ maker[w].id \notin DOMAIN archives
    /\ maker' = [maker EXCEPT ![w] = Idle]
    /\ UNCHANGED <<second, disk, archives, manifests, listed, restoring, opened, shared, stuck>>

(* A failed verification is logged and changes nothing.                      *)
WriteManifest(w) ==
    /\ maker[w].step = "recording"
    /\ maker' = [maker EXCEPT ![w] = Making("listing", 0, {}, {})]
    /\ \E sum \in maker[w].sum :
         manifests' = Recorded(maker[w].id, sum)
    /\ listed' = NewestFirst(maker[w].id)
    /\ UNCHANGED <<second, disk, archives, restoring, opened, shared, stuck>>

ListExpired(w) ==
    /\ maker[w].step = "listing"
    /\ maker' = [maker EXCEPT ![w] = Making("rotating", 0, {}, Expired)]
    /\ UNCHANGED <<second, disk, archives, manifests, listed, restoring, opened, shared, stuck>>

(* The archive and then its manifest; the disk may refuse either, which is   *)
(* logged, and the next one has its turn.                                    *)
RemoveExpired(w) ==
    /\ maker[w].step = "rotating"
    /\ \E id \in maker[w].doomed :
         /\ maker' = [maker EXCEPT ![w] = Making("rotating", 0, {}, @.doomed \ {id})]
         /\ \/ /\ archives' = Without(archives, {id})
               /\ manifests' = Without(manifests, {id})
               /\ listed' = Others(id)
               /\ UNCHANGED stuck
            \/ /\ archives' \in {archives, Without(archives, {id})}
               /\ UNCHANGED <<manifests, listed>>
               /\ stuck' = stuck \cup {id}
    /\ UNCHANGED <<second, disk, restoring, opened, shared>>

BackupDone(w) ==
    /\ maker[w].step = "rotating" /\ maker[w].doomed = {}
    /\ maker' = [maker EXCEPT ![w] = Idle]
    /\ UNCHANGED <<second, disk, archives, manifests, listed, restoring, opened, shared, stuck>>

(* A restore checks the hash and extracts afterwards.                        *)
Accepted(id) == Verified(id)

BeginRestore ==
    /\ restoring = {}
    /\ \E id \in {known \in 1..second : Readable(known)} :
         /\ Accepted(id)
         /\ restoring' = {[id |-> id, sum |-> manifests[id]]}
    /\ UNCHANGED <<second, disk, archives, manifests, listed, maker, opened, shared, stuck>>

(* Members are extracted by the name of their source into one directory:     *)
(* only a source that lives there is brought back.                           *)
Extracted(files) == [s \in Sources |-> IF s \in Beside THEN files[s] ELSE disk[s]]

Extractable(id) == id \in DOMAIN archives /\ archives[id].whole

Extract ==
    \E r \in restoring :
        /\ restoring' = {}
        /\ disk' = IF Extractable(r.id) THEN Extracted(archives[r.id].files) ELSE disk
        /\ UNCHANGED <<second, archives, manifests, listed, maker, opened, shared, stuck>>

(* A crash leaves on disk what was there: half an archive, an archive        *)
(* without its manifest, a manifest whose archive was just removed.          *)
BackupCrash ==
    /\ \E w \in Workers : maker[w] # Idle
    /\ \E removed \in SUBSET UNION {maker[w].doomed : w \in Workers} :
         /\ Cardinality(removed) <= 1
         /\ archives' = Without(archives, removed)
    /\ maker' = [w \in Workers |-> Idle]
    /\ restoring' = {}
    /\ UNCHANGED <<second, disk, manifests, listed, opened, shared, stuck>>

BackupNext ==
    \/ StateChanges \/ SecondPasses \/ BeginRestore \/ Extract \/ BackupCrash
    \/ \E w \in Workers : \/ OpenArchive(w) \/ AddSources(w) \/ Hash(w) \/ HashFails(w)
                          \/ WriteManifest(w) \/ ListExpired(w) \/ RemoveExpired(w) \/ BackupDone(w)

BackupSpec == BackupInit /\ [][BackupNext]_backupVars

-----------------------------------------------------------------------------
(* Properties. *)

BackupTypeOK ==
    /\ second \in 1..Seconds /\ opened \in 0..second
    /\ disk \in Contents
    /\ {listed[i] : i \in DOMAIN listed} = DOMAIN manifests
    /\ Len(listed) = Cardinality(DOMAIN manifests)
    /\ DOMAIN archives \subseteq 1..second /\ DOMAIN manifests \subseteq 1..second
    /\ \A id \in DOMAIN archives : archives[id].files \in Contents \cup {<<>>}
    /\ Cardinality(restoring) <= 1
    /\ \A w \in Workers : maker[w].doomed \subseteq 1..second
    /\ stuck \subseteq 1..second

(* What a restore writes over the live state is what its manifest vouched    *)
(* for when it was verified, whole, and for the sources that live where it   *)
(* extracts that is what they are again; a rotation or another backup in     *)
(* between cannot change it, unless two backups shared a second              *)
(* (backup/service.py:206-250).                                              *)
RestoresTheVerified ==
    [][\A r \in restoring : Extract /\ ~shared /\ Extractable(r.id) =>
         /\ r.sum = Digest(r.id) /\ r.sum.whole
         /\ \A s \in Beside : disk'[s] = r.sum.files[s]]_backupVars

(* Rotation never removes the newest backup, nor more than those beyond the  *)
(* retention, whichever threads rotate at once and whatever the disk         *)
(* refuses: once there is a manifest there is one, and the newest of them    *)
(* can be restored, unless two backups shared a second                       *)
(* (backup/service.py:240-258).                                              *)
NewestStays ==
    ~shared /\ DOMAIN manifests # {} =>
        Verified(Head(listed))

(* A backup that ends while no other is made leaves no more manifests than   *)
(* the retention, those a crash left behind included, but for the ones the   *)
(* disk refused to remove (backup/service.py:240-258).                       *)
RetentionIsReached ==
    [][\A w \in Workers :
         BackupDone(w) /\ (\A v \in Workers \ {w} : maker[v].step = "idle")
             => Cardinality(DOMAIN manifests \ stuck) <= Retention]_backupVars
=============================================================================
