------------------------------ MODULE Candidates ------------------------------
(* The life of a strategy the research laboratory found (app/research: api,   *)
(* production_candidate, validation_pipeline, paper_validation,               *)
(* knowledge_base).  Candidates and knowledge are logs of JSON lines, replayed *)
(* at the start, in which the last line of an id wins; paper trials are in    *)
(* memory only.                                                               *)
(*                                                                            *)
(* A genome is the number of its creation.                                    *)
EXTENDS Integers

CONSTANTS
    Required,      \* stages the pipeline requires beside the backtest
    BatchSizes,    \* GeneratorSettings.batch_size
    MinDays,       \* PaperValidationSettings.min_days
    MaxGenomes,    \* bound: genomes made
    MaxDays        \* bound: days that pass

ASSUME ResearchAssumption ==
    /\ BatchSizes \subseteq Nat \ {0}
    /\ MinDays \in Nat /\ MaxGenomes \in Nat /\ MaxDays \in Nat

VARIABLES
    labState,      \* "up", "down", or "barred": the laboratory cannot be built
    day,
    made,          \* genomes made so far
    book,          \* CandidateStore: what memory holds of each candidate
    bookLog,       \* what the log says of each
    known,         \* KnowledgeBase: genomes whose evaluation is remembered
    knownLog,
    trials,        \* PaperValidationTracker: the day each trial began
    halfLine,      \* a log ends in half a line
    unwritten      \* history: an append failed and the process went on

researchVars == <<labState, day, made, book, bookLog, known, knownLog, trials,
                  halfLine, unwritten>>

-----------------------------------------------------------------------------
(* Judgements. *)

Stages == {"backtest"} \cup Required

(* Every stage is judged; a candidate is one that failed none.                *)
Passed(failed) == failed \cap Stages = {}

NewCard == [status |-> "candidate", paper |-> "none", promotion |-> "none"]

Matured(g, fit) == fit /\ day - trials[g] >= MinDays

Mutant_KeepsTheStatus(card, matured) ==
    [card EXCEPT !.paper = IF matured THEN "matured" ELSE "immature",
                 !.status = IF @ = "promoted" THEN @ ELSE "paper"]
WithPaper(card, matured) ==
    [card EXCEPT !.paper = IF matured THEN "matured" ELSE "immature", !.status = "paper"]

(* Drift, the comparison with the strategy in force and the operator's word   *)
(* come with the request.                                                     *)
Earned(card, steady, better, approved) ==
    card.paper = "matured" /\ steady /\ better /\ approved

WithPromotion(card, earned) ==
    [card EXCEPT !.promotion = IF earned THEN "approved" ELSE "refused",
                 !.status = IF earned THEN "promoted" ELSE "rejected"]

-----------------------------------------------------------------------------
(* Appending: memory first, then the line, which may fail to be written (once *)
(* in a behaviour: a bound).                                                  *)

WithCard(cards, g, card) == [x \in DOMAIN cards \cup {g} |-> IF x = g THEN card ELSE cards[x]]

FileCandidate(g, card) ==
    /\ book' = WithCard(book, g, card)
    /\ \/ bookLog' = WithCard(bookLog, g, card) /\ UNCHANGED unwritten
       \/ ~unwritten /\ unwritten' = TRUE /\ UNCHANGED bookLog

WithNew(cards, genomes) == [g \in DOMAIN cards \cup genomes |-> IF g \in genomes THEN NewCard ELSE cards[g]]

-----------------------------------------------------------------------------
(* Steps. *)

ResearchInit ==
    /\ labState = "up" /\ day = 0 /\ made = 0
    /\ book = <<>> /\ bookLog = <<>> /\ known = {} /\ knownLog = {} /\ trials = <<>>
    /\ halfLine = FALSE /\ unwritten = FALSE

DayPasses ==
    /\ day < MaxDays
    /\ day' = day + 1
    /\ UNCHANGED <<labState, made, book, bookLog, known, knownLog, trials, halfLine, unwritten>>

(* What was learnt of a batch joins memory and the log.                       *)
RecordKnowledge(batch) ==
    /\ known' = known \cup batch
    /\ knownLog' = knownLog \cup batch

Fitting == {n \in BatchSizes : made + n <= MaxGenomes}
Batch(n) == (made + 1)..(made + n)

(* The lines of a cycle go genome by genome: what was learnt of it and then,  *)
(* if it passed, the candidate.  A cut leaves both of the genomes before      *)
(* `at', and of `at' nothing or only what was learnt.                         *)
Done(at, n) == {g \in Batch(n) : g < at}
LinesWritten(n, passed, at, learnt) ==
    /\ knownLog' = knownLog \cup Done(at, n) \cup (IF learnt THEN {at} ELSE {})
    /\ bookLog' = WithNew(bookLog, Done(at, n) \cap passed)

(* Judged in the cluster, then recorded without a pause; a judgement that     *)
(* raises leaves nothing of the batch.                                        *)
RunGenerationCycle ==
    /\ labState = "up"
    /\ \E n \in Fitting :
         /\ made' = made + n
         /\ \/ UNCHANGED <<book, bookLog, known, knownLog>>
            \/ \E failures \in [Batch(n) -> SUBSET Stages] :
                 LET passed == {g \in Batch(n) : Passed(failures[g])}
                 IN  /\ RecordKnowledge(Batch(n))
                     /\ book' = WithNew(book, passed)
                     /\ bookLog' = WithNew(bookLog, passed)
    /\ UNCHANGED <<labState, day, trials, halfLine, unwritten>>

(* A crash after some of the lines, the next one perhaps begun.               *)
CycleCut ==
    /\ labState = "up"
    /\ \E n \in Fitting : \E passed \in SUBSET Batch(n), at \in Batch(n), learnt \in BOOLEAN :
         /\ made' = made + n
         /\ LinesWritten(n, passed, at, learnt)
    /\ halfLine' \in BOOLEAN
    /\ labState' = "down"
    /\ UNCHANGED <<day, book, known, trials, unwritten>>

(* start_paper asks nothing of the genome, and starts over a running trial.   *)
StartPaper(g) ==
    /\ labState = "up"
    /\ trials' = [x \in DOMAIN trials \cup {g} |-> IF x = g THEN day ELSE trials[x]]
    /\ UNCHANGED <<labState, day, made, book, bookLog, known, knownLog, halfLine, unwritten>>

UpdatePaper(g) ==
    /\ labState = "up"
    /\ g \in DOMAIN trials
    /\ \E fit \in BOOLEAN :
         IF g \in DOMAIN book
         THEN FileCandidate(g, WithPaper(book[g], Matured(g, fit)))
         ELSE UNCHANGED <<book, bookLog, unwritten>>
    /\ UNCHANGED <<labState, day, made, known, knownLog, trials, halfLine>>

PromoteStrategy(g) ==
    /\ labState = "up"
    /\ g \in DOMAIN book
    /\ \E earned \in {Earned(book[g], steady, better, approved) :
                         steady \in BOOLEAN, better \in BOOLEAN, approved \in BOOLEAN} :
         FileCandidate(g, WithPromotion(book[g], earned))
    /\ UNCHANGED <<labState, day, made, known, knownLog, trials, halfLine>>

RejectStrategy(g) ==
    /\ labState = "up"
    /\ g \in DOMAIN book
    /\ FileCandidate(g, [book[g] EXCEPT !.status = "rejected"])
    /\ UNCHANGED <<labState, day, made, known, knownLog, trials, halfLine>>

(* A crash, perhaps with a line begun.                                        *)
LabCrash ==
    /\ labState = "up"
    /\ labState' = "down"
    /\ halfLine' \in BOOLEAN
    /\ UNCHANGED <<day, made, book, bookLog, known, knownLog, trials, unwritten>>

KnowledgeLoaded == known' = knownLog

(* Every line is parsed with no try: half a line stops the construction.      *)
LabRestart ==
    /\ labState = "down"
    /\ IF halfLine
       THEN labState' = "barred" /\ UNCHANGED <<book, known, trials>>
       ELSE /\ labState' = "up"
            /\ book' = bookLog /\ KnowledgeLoaded
            /\ trials' = <<>>
    /\ UNCHANGED <<day, made, bookLog, knownLog, halfLine, unwritten>>

ResearchNext ==
    \/ DayPasses \/ RunGenerationCycle \/ CycleCut
    \/ \E g \in 1..made : \/ StartPaper(g) \/ UpdatePaper(g)
                          \/ PromoteStrategy(g) \/ RejectStrategy(g)
    \/ LabCrash \/ LabRestart

ResearchSpec == ResearchInit /\ [][ResearchNext]_researchVars

-----------------------------------------------------------------------------
(* Properties. *)

Cards == [status : {"candidate", "paper", "promoted", "rejected"},
          paper : {"none", "immature", "matured"}, promotion : {"none", "approved", "refused"}]

ResearchTypeOK ==
    /\ labState \in {"up", "down", "barred"} /\ day \in 0..MaxDays /\ made \in 0..MaxGenomes
    /\ \A cards \in {book, bookLog} :
         DOMAIN cards \subseteq 1..made /\ \A g \in DOMAIN cards : cards[g] \in Cards
    /\ known \cup knownLog \subseteq 1..made /\ DOMAIN trials \subseteq 1..made
    /\ halfLine \in BOOLEAN /\ unwritten \in BOOLEAN

(* Whatever was updated, rejected, promoted again or restarted since, what is *)
(* filed as promoted has a mature paper trial and an approved decision on     *)
(* record (candidate.py:77-119, promotion.py:57-104).                         *)
PromotedIsEarned ==
    \A cards \in {book, bookLog} : \A g \in DOMAIN cards :
        cards[g].status = "promoted" => cards[g].paper = "matured" /\ cards[g].promotion = "approved"

(* No candidate is on file without what was learnt of it, at whichever line a *)
(* crash cut the cycle (api.py:593-598, kb.py:80-99).                         *)
CandidatesAreKnown == DOMAIN bookLog \subseteq knownLog

(* What memory says, a restart would say again, unless a line could not be    *)
(* written (candidate.py:61-119, kb.py:40-99).                                *)
RestartRemembers ==
    labState = "up" /\ ~unwritten =>
        book = bookLog /\ known = knownLog

===============================================================================
