---------------------------- MODULE RuntimeConfig ----------------------------
(* Settings changed from the dashboard while the engine runs: overrides kept *)
(* in memory and in a file, written onto the live settings, and reapplied at *)
(* the next start (dashboard/api/config_store.py, engine/bootstrap.py).      *)
EXTENDS Integers, Sequences, FiniteSets

CONSTANTS
    Hot,           \* whitelisted paths read at every evaluation (_LIVE_PREFIXES)
    Cold,          \* whitelisted paths copied when a subsystem is built
    Foreign,       \* paths that are not whitelisted
    Strategies,
    Values,        \* values of a setting; the default is one of them
    Default,
    Junk           \* a value that the type of the setting cannot take

ASSUME ConfigAssumption == Default \in Values

Paths == Hot \cup Cold

VARIABLES
    settings,      \* the live settings object
    built,         \* what the subsystems copied when they were built
    overrides,     \* the store, in memory
    intents,       \* its second table, strategy by strategy
    saved,         \* what its file would load: both tables
    started,       \* history: nothing has been set since the start
    unsaved        \* history: the memory has had something the file has not

configVars == <<settings, built, overrides, intents, saved, started, unsaved>>

None == [x \in {} |-> x]
Over(base, over) == [p \in DOMAIN base |-> IF p \in DOMAIN over THEN over[p] ELSE base[p]]
With(table, p, v) == [q \in DOMAIN table \cup {p} |-> IF q = p THEN v ELSE table[q]]
Defaults == [p \in Paths |-> Default]

(* What the engine goes by.                                                  *)
IsLive(p) == p \in Hot
InForce(p) == IF IsLive(p) THEN settings[p] ELSE built[p]

(* The entries of a patch before the first one that is refused: a path that  *)
(* is not whitelisted, or a value that cannot be coerced.                    *)
Refused(entry) == entry[1] \notin Paths \/ entry[2] = Junk
Prefix(patch) ==
    LET upTo == {n \in 0..Len(patch) : \A i \in 1..n : ~Refused(patch[i])}
    IN  SubSeq(patch, 1, CHOOSE n \in upTo : \A m \in upTo : m <= n)

Applied(patch) ==
    [p \in {patch[i][1] : i \in DOMAIN patch} |->
        patch[CHOOSE i \in DOMAIN patch :
                /\ patch[i][1] = p
                /\ \A j \in DOMAIN patch : patch[j][1] = p => j <= i][2]]

-----------------------------------------------------------------------------

(* The file after a save: written, left as it was, or lost half way.         *)
Persist == /\ saved' \in {[overrides |-> overrides', intents |-> intents'],
                          saved, [overrides |-> None, intents |-> None]}
           /\ unsaved' = (saved' # [overrides |-> overrides', intents |-> intents'])

Patches == LET Entries == (Paths \cup Foreign) \X (Values \cup {Junk})
           IN  {<<e>> : e \in Entries} \cup {<<e, f>> : e, f \in Entries}

ConfigInit ==
    /\ settings = Defaults /\ built = Defaults
    /\ overrides = None /\ intents = None
    /\ saved = [overrides |-> None, intents |-> None]
    /\ started = TRUE /\ unsaved = FALSE

(* Entry by entry onto the settings and the store; the refusal of one leaves *)
(* those before it in place and skips the save.                              *)
Reached(taken) == Over(settings, taken)

PatchConfig ==
    \E patch \in Patches :
        LET taken == Applied(Prefix(patch))
        IN  /\ settings' = Reached(taken)
            /\ overrides' = [p \in DOMAIN overrides \cup DOMAIN taken |->
                               IF p \in DOMAIN taken THEN taken[p] ELSE overrides[p]]
            /\ started' = FALSE
            /\ UNCHANGED <<built, intents>>
            /\ IF Prefix(patch) = patch THEN Persist
               ELSE UNCHANGED saved /\ unsaved' = (unsaved \/ overrides' # overrides)

(* The intents of a strategy are merged and both tables saved.               *)
SetStrategy ==
    \E name \in Strategies, enabled \in BOOLEAN :
        /\ intents' = With(intents, name, enabled)
        /\ started' = FALSE
        /\ UNCHANGED <<settings, built, overrides>>
        /\ Persist

(* A start: the settings are read, the overrides loaded and reapplied, and   *)
(* only then is anything built.                                              *)
Reapplied == Over(Defaults, saved.overrides)

RestartConfig ==
    /\ overrides' = saved.overrides
    /\ intents' = saved.intents
    /\ settings' = Over(Defaults, saved.overrides)
    /\ built' = Reapplied
    /\ started' = TRUE /\ unsaved' = FALSE
    /\ UNCHANGED saved

ConfigNext == PatchConfig \/ SetStrategy \/ RestartConfig
ConfigSpec == ConfigInit /\ [][ConfigNext]_configVars

-----------------------------------------------------------------------------
(* Properties. *)

ConfigTypeOK ==
    /\ settings \in [Paths -> Values] /\ built \in [Paths -> Values]
    /\ DOMAIN overrides \subseteq Paths /\ DOMAIN saved.overrides \subseteq Paths
    /\ DOMAIN intents \subseteq Strategies /\ DOMAIN saved.intents \subseteq Strategies

(* What the dashboard shows as overridden is what a hot path goes by, also   *)
(* after a patch that was refused half way                                   *)
(* (config_store.py:189-240).                                                *)
ShownIsInForce == \A p \in Hot \cap DOMAIN overrides : InForce(p) = overrides[p]

(* A restart changes nothing the operator has set: every override that was   *)
(* saved is in force from the start, those that only take effect when a      *)
(* subsystem is built included, and the intents are kept                     *)
(* (config_store.py:158-176, 242-251, bootstrap.py:184-193).                 *)
RestartKeepsOverrides ==
    [][RestartConfig /\ ~unsaved =>
         /\ \A p \in Paths : settings'[p] = settings[p] /\ built'[p] = settings[p]
         /\ overrides' = overrides /\ intents' = intents]_configVars
=============================================================================
