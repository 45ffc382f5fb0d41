------------------------------ MODULE Experiments ------------------------------
(* The experiments of the research laboratory (app/research:                  *)
(* experiment_manager/manager.py): a log of JSON lines, one for every version *)
(* of an experiment, of which the last one counts.                            *)
EXTENDS Integers

CONSTANTS
    Conclusions,   \* texts to close with, "" for none
    Keys,          \* of a payload
    MaxExperiments \* bound: experiments created

ASSUME ExperimentsAssumption == "" \in Conclusions /\ MaxExperiments \in Nat

VARIABLES
    given,         \* ids given out
    shop,          \* "up", "down", or "barred": the laboratory cannot be built
    experiments,   \* ExperimentManager._records, by id
    versions,      \* what the log says of each
    tornLine,      \* the log ends in half a line
    missed         \* history: an append failed and the process went on

experimentVars == <<given, shop, experiments, versions, tornLine, missed>>

-----------------------------------------------------------------------------
(* Steps. *)

ExperimentsInit ==
    /\ given = 0 /\ shop = "up" /\ experiments = <<>> /\ versions = <<>>
    /\ tornLine = FALSE /\ missed = FALSE

(* Memory first, then the line of that version, which may fail to be written. *)
Saved(table, n, version) == [m \in DOMAIN table \cup {n} |-> IF m = n THEN version ELSE table[m]]

File(n, version) ==
    /\ shop = "up"
    /\ experiments' = Saved(experiments, n, version)
    /\ \/ versions' = Saved(versions, n, version) /\ UNCHANGED missed
       \/ missed' = TRUE /\ UNCHANGED versions
    /\ UNCHANGED <<shop, tornLine>>

Open(keys) == [status |-> "open", note |-> "", payload |-> keys]

CreateExperiment(keys) ==
    /\ given < MaxExperiments
    /\ given' = given + 1
    /\ File(given', Open(keys))

Merged(old, new) == old \cup new
UpdatePayload(n, keys) ==
    /\ File(n, [experiments[n] EXCEPT !.payload = Merged(@, keys)])
    /\ UNCHANGED given

(* An empty conclusion leaves the one there was; no transition is refused.    *)
NoteKept(n, note) == IF note = "" THEN experiments[n].note ELSE note
Transition(n, status, note) ==
    /\ File(n, [experiments[n] EXCEPT !.status = status, !.note = NoteKept(n, note)])
    /\ UNCHANGED given

CrashShop ==
    /\ shop = "up"
    /\ shop' = "down"
    /\ tornLine' \in BOOLEAN
    /\ UNCHANGED <<given, experiments, versions, missed>>

(* Every line is parsed with no try: half a line stops the construction.      *)
Read == versions

RestartShop ==
    /\ shop = "down"
    /\ IF tornLine THEN shop' = "barred" /\ UNCHANGED experiments
       ELSE shop' = "up" /\ experiments' = Read
    /\ UNCHANGED <<given, versions, tornLine, missed>>

ExperimentsNext ==
    \/ \E keys \in SUBSET Keys : CreateExperiment(keys)
    \/ \E n \in DOMAIN experiments :
          \/ \E keys \in SUBSET Keys : UpdatePayload(n, keys)
          \/ \E status \in {"closed", "archived"}, note \in Conclusions : Transition(n, status, note)
    \/ CrashShop \/ RestartShop

ExperimentsSpec == ExperimentsInit /\ [][ExperimentsNext]_experimentVars

-----------------------------------------------------------------------------
(* Properties. *)

ExperimentsTypeOK ==
    /\ shop \in {"up", "down", "barred"} /\ tornLine \in BOOLEAN /\ missed \in BOOLEAN
    /\ given \in 0..MaxExperiments
    /\ \A n \in DOMAIN experiments :
         /\ experiments[n].status \in {"open", "closed", "archived"}
         /\ experiments[n].note \in Conclusions /\ experiments[n].payload \subseteq Keys

(* Whatever happens to an experiment - data merged, closed, archived, closed  *)
(* again, a restart - its conclusion and what it had learnt are still there,  *)
(* unless a line could not be written (manager.py:75-137).                    *)
ConclusionsKept ==
    [][~missed' =>
         \A n \in DOMAIN experiments :
             /\ experiments[n].note # "" => experiments'[n].note # ""
             /\ experiments[n].payload \subseteq experiments'[n].payload]_experimentVars
================================================================================
