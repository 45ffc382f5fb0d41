---------------------------- MODULE ModelRegistry ----------------------------
(* The models that advise: trained every night from the journal, admitted by *)
(* the validation gate, registered, activated and rolled back, and found     *)
(* again after a restart (app/ml: api, registry, training, drift).           *)
(*                                                                           *)
(* A night's training does not suspend: it is one step, or one that a crash  *)
(* cuts after any of its writes.  Metrics are small numbers.                 *)
EXTENDS Integers, Sequences, FiniteSets

CONSTANTS
    Kinds,         \* model types AutoML tries, the voting ensemble included
    Serialisable,  \* those that are written to disk
    Aucs,          \* values of a holdout's AUC
    Cvs,           \* values of a cross-validation's AUC
    MinTraining,   \* MLTrainingSettings.min_samples
    Gate,          \* MLValidationSettings: samples, auc, cv, improvement
    AutoActivate,  \* MLSettings.auto_activate, as it may be set
    AucDrop,       \* MLDriftSettings.performance_drop
    StackLimit,    \* activations that can be undone
    MaxTrades,     \* bound: trades in the journal
    MaxModels      \* bound: models trained

VARIABLES
    journalled,    \* trades the next training can use
    registry,      \* records by id, the active id (at most one), what a rollback returns to
    records,       \* records.json: what it would load
    models,        \* ids whose model object is in memory
    modelFiles,    \* ids whose model can be read back from disk
    trained,       \* ids given out
    confidence,    \* the factor of InferenceService: "full" or "reduced"
    byHand,        \* history: models activated otherwise than by training
    spoilt         \* history: models whose file could not be written

ASSUME LabAssumption ==
    /\ StackLimit \in Nat /\ MaxTrades \in Nat /\ MaxModels \in Nat

labVars == <<journalled, registry, records, models, modelFiles, trained, confidence,
             byHand, spoilt>>

NoModels == [cards |-> <<>>, active |-> {}, stack |-> <<>>]

-----------------------------------------------------------------------------
(* AutoML: the candidates that could be trained, best cross-validation first. *)

Attempts == SUBSET Kinds

(* Measured on the holdout and on the folds before it; whether the holdout's *)
(* accuracy reaches its minimum is all that matters of it.                   *)
Measures == [auc : Aucs, cv : Cvs, accurate : BOOLEAN]

Boards == UNION {[tried -> Measures] : tried \in Attempts}

Winners(board) ==
    {[kind |-> k, auc |-> board[k].auc, cv |-> board[k].cv, accurate |-> board[k].accurate] :
        k \in {best \in DOMAIN board : \A other \in DOMAIN board :
                 board[other].cv <= board[best].cv}}

(* What a night may bring; nothing, when no candidate could be trained.      *)
Results == UNION {Winners(board) : board \in Boards}

(* The validation gate: holdout, cross-validation and accuracy each have     *)
(* their minimum, and the holdout must beat that of the active model.         *)
EvaluateModel(result) ==
    /\ journalled >= Gate.samples
    /\ result.auc >= Gate.auc
    /\ result.cv >= Gate.cv
    /\ result.accurate
    /\ \A id \in registry.active : result.auc >= registry.cards[id].auc + Gate.improvement

-----------------------------------------------------------------------------
(* The registry's operations. *)

VersionOf(r, kind) == 1 + Cardinality({id \in DOMAIN r.cards : r.cards[id].kind = kind})

Record(r, result) ==
    [kind |-> result.kind, version |-> VersionOf(r, result.kind),
     auc |-> result.auc, cv |-> result.cv, state |-> "evaluated"]

Registered(r, id, result) ==
    [r EXCEPT !.cards = [x \in DOMAIN @ \cup {id} |->
        IF x = id THEN Record(r, result) ELSE @[x]]]

Marked(r, id, state) == [r EXCEPT !.cards[id].state = state]

Archived(r) == [r EXCEPT !.cards = [id \in DOMAIN @ |->
                   IF id \in r.active THEN [@[id] EXCEPT !.state = "archived"] ELSE @[id]]]

(* The last so many; activating the active model pushes nothing.             *)
Pushed(stack, previous, id) ==
    LET longer == IF previous = <<id>> THEN stack ELSE stack \o previous
    IN  SubSeq(longer, 1 + (IF Len(longer) > StackLimit THEN 1 ELSE 0), Len(longer))

ActiveSeq(r) == IF r.active = {} THEN <<>> ELSE <<CHOOSE id \in r.active : TRUE>>

Advising(r, id, stack) ==
    [cards |-> Marked(Archived(r), id, "active").cards, active |-> {id}, stack |-> stack]

Activated(r, id) == Advising(r, id, Pushed(r.stack, ActiveSeq(r), id))

RolledBack(r) == Advising(r, r.stack[Len(r.stack)], SubSeq(r.stack, 1, Len(r.stack) - 1))

(* What the file would load after a write: the registry, the one before if   *)
(* the write failed, or nothing if it failed half way.                       *)
Written(r) == {r, records, NoModels}

(* Every write also tries the files of the models that have none yet.        *)
ModelsWritten(ids, r) ==
    \E written \in SUBSET {id \in ids \ modelFiles : r.cards[id].kind \in Serialisable} :
        /\ modelFiles' = modelFiles \cup written
        /\ spoilt' = spoilt \cup (ids \ modelFiles')

Mutant_LastOnly(r) ==
    {id \in modelFiles' \cap DOMAIN r.cards : \A other \in modelFiles' : other <= id}
Rehydrated(r) == modelFiles' \cap DOMAIN r.cards

-----------------------------------------------------------------------------
(* Steps. *)

LabInit ==
    /\ journalled = 0 /\ registry = NoModels /\ records = NoModels
    /\ models = {} /\ modelFiles = {} /\ trained = 0
    /\ confidence = "full" /\ byHand = {} /\ spoilt = {}

(* Every trade of the journal is one sample.                                 *)
Samples == journalled

TradeJournalled ==
    /\ journalled < MaxTrades
    /\ journalled' = journalled + 1
    /\ UNCHANGED <<registry, records, models, modelFiles, trained, confidence, byHand, spoilt>>

(* The registry after each of the night's writes.                            *)
Nights(result, id, activate) ==
    LET filed == Registered(registry, id, result)
    IN  IF EvaluateModel(result)
        THEN LET approved == Marked(filed, id, "approved")
             IN  IF activate THEN <<filed, approved, Activated(approved, id)>>
                 ELSE <<filed, approved>>
        ELSE <<filed, Marked(filed, id, "rejected")>>

NightlyTraining ==
    /\ Samples >= MinTraining
    /\ trained < MaxModels
    /\ \E result \in Results, activate \in AutoActivate :
         LET night == Nights(result, trained + 1, activate)
         IN  registry' = night[Len(night)]
    /\ trained' = trained + 1
    /\ models' = models \cup {trained'}
    /\ records' \in Written(registry')
    /\ ModelsWritten(models', registry')
    /\ UNCHANGED <<journalled, confidence, byHand>>

(* The facade's activate_model takes any record, whatever its state.         *)
ActivateModel ==
    /\ \E id \in DOMAIN registry.cards :
         /\ registry' = Activated(registry, id)
         /\ byHand' = byHand \cup {id}
    /\ models' = models
    /\ records' \in Written(registry')
    /\ ModelsWritten(models', registry')
    /\ UNCHANGED <<journalled, trained, confidence>>

RollbackModel ==
    /\ registry.stack # <<>>
    /\ registry' = RolledBack(registry)
    /\ models' = models
    /\ records' \in Written(registry')
    /\ ModelsWritten(models', registry')
    /\ UNCHANGED <<journalled, trained, confidence, byHand>>

(* Signals: features and win rate have moved, once there are trades to tell; *)
(* the AUC seen live is that far below the one of the active record.         *)
DriftSignals(moved, live) ==
    {kind \in {"feature", "concept"} : kind \in moved /\ journalled >= MinTraining}
    \cup {"model" : id \in {a \in registry.active : \E auc \in live :
                              registry.cards[a].auc - auc >= AucDrop}}

(* The factor the inference answers with.                                    *)
Factor(drift) == IF drift = {} THEN "full" ELSE "reduced"

RunDriftCheck ==
    /\ confidence' \in {Factor(DriftSignals(moved, live)) :
                           moved \in SUBSET {"feature", "concept"},
                           live \in {{}} \cup {{auc} : auc \in Aucs}}
    /\ UNCHANGED <<journalled, registry, records, models, modelFiles, trained, byHand, spoilt>>

(* A process that starts loads what the files hold.                          *)
Loaded == /\ registry' = records'
          /\ models' = Rehydrated(records')
          /\ confidence' = "full"

RestartLab ==
    /\ UNCHANGED <<journalled, records, modelFiles, trained, byHand, spoilt>>
    /\ Loaded

(* A crash between two writes of the night.                                  *)
TrainingCut ==
    /\ Samples >= MinTraining
    /\ trained < MaxModels
    /\ trained' = trained + 1
    /\ \E result \in Results, activate \in AutoActivate :
         LET night == Nights(result, trained', activate)
         IN  \E n \in DOMAIN night :
               /\ records' \in {night[n], NoModels}
               /\ ModelsWritten(models \cup {trained'}, night[n])
    /\ Loaded
    /\ UNCHANGED <<journalled, byHand>>

LabNext == \/ TradeJournalled \/ NightlyTraining \/ ActivateModel \/ RollbackModel
           \/ RunDriftCheck \/ RestartLab \/ TrainingCut

LabSpec == LabInit /\ [][LabNext]_labVars

-----------------------------------------------------------------------------
(* Properties. *)

LabTypeOK ==
    /\ journalled \in 0..MaxTrades /\ trained \in 0..MaxModels
    /\ \A r \in {registry, records} :
         /\ DOMAIN r.cards \subseteq 1..trained
         /\ r.active \subseteq DOMAIN r.cards /\ Cardinality(r.active) <= 1
         /\ Len(r.stack) <= StackLimit
    /\ models \subseteq DOMAIN registry.cards
    /\ modelFiles \subseteq 1..trained /\ confidence \in {"full", "reduced"}

(* One record at most is active, and it is the one the registry names, after *)
(* any sequence of trainings, activations, rollbacks and restarts            *)
(* (registry.py:103-139).                                                    *)
OneActiveModel ==
    {id \in DOMAIN registry.cards : registry.cards[id].state = "active"} = registry.active

Chain == registry.stack \o ActiveSeq(registry)

(* A rollback always changes the model that advises, however often a model   *)
(* was activated again (registry.py:103-139).                                *)
RollbackChanges == \A i \in 1..Len(Chain) - 1 : Chain[i] # Chain[i + 1]

(* No training, ever, has replaced a model by one that is inferior on the    *)
(* holdout or fails the cross-validation: along everything a rollback can    *)
(* return to, a model that was not activated by hand passed both minima and  *)
(* beats the one it replaced (api.py:171-212, 316-385).                      *)
PromotedOnMerit ==
    \A i \in DOMAIN Chain : Chain[i] \notin byHand =>
        LET card == registry.cards[Chain[i]]
        IN  /\ card.auc >= Gate.auc /\ card.cv >= Gate.cv
            /\ i > 1 => card.auc >= registry.cards[Chain[i - 1]].auc + Gate.improvement

(* The active model can answer, also after a restart, unless its kind is not *)
(* written to disk or its file could not be (registry.py:239-312).           *)
AdvisesAfterRestart ==
    \A id \in registry.active :
        id \in models \/ registry.cards[id].kind \notin Serialisable \/ id \in spoilt
=============================================================================
