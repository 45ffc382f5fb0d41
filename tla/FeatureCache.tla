---------------------------- MODULE FeatureCache ----------------------------
(* The Feature Store (engine/feature_store/store.py): what strategies are    *)
(* told of the market, computed once and kept for a while.  Every caller is  *)
(* a task of its own.                                                        *)
(*                                                                           *)
(* While this process has heard of the symbol a feature is computed without  *)
(* a pause.  Until then its last price comes from the cache outside the      *)
(* process (market/services/market_data.py:68-76), which suspends the caller *)
(* before it is read and after, and which outlives a restart.  The features  *)
(* drawn from the VWAP bands read them out of the store itself.              *)
EXTENDS Integers

CONSTANTS
    Callers,       \* tasks that ask
    Features,      \* a feature of a symbol with its parameters: a key
    Bands,         \* the key of the VWAP bands
    Drawn,         \* the keys read from them: vwap_session, vwap_slope, vwap_distance_pct
    KeptFor,       \* how long a value is kept
    OutsideFor,    \* how long the cache outside keeps its own
    MaxInstant     \* bound: the clock

ASSUME KeptForAssumption == KeptFor \in Nat \ {0} /\ OutsideFor \in Nat \ {0}
ASSUME DrawnAssumption == Bands \in Features /\ Drawn \subseteq Features \ {Bands}
ASSUME MaxInstantAssumption == MaxInstant \in Nat

VARIABLES
    instant,       \* time.monotonic()
    heard,         \* this process has a trade or a ticker of the symbol
    outside,       \* when the last price in the cache outside was written, if ever
    cache,         \* _cache: the entry of each key, at most one
    asking,        \* what each caller is computing, at most one
    computed       \* history: when each key was last found missing, or Crossed

featureVars == <<instant, heard, outside, cache, asking, computed>>

(* A key that was computed twice at once, dropped, or that failed.           *)
Crossed == -KeptFor - 1

(* An entry bears the moment it was asked for, not that of its value; told   *)
(* is the instant of the market it tells of, if any, and lent says that the  *)
(* price came from outside.                                                  *)
Entry(stamp, told, lent) == [stamp |-> stamp, told |-> told, lent |-> lent]

Computing(k) == {c \in Callers : \E ask \in asking[c] : k \in ask.keys}

IsFresh(entry) == instant - entry.stamp < KeptFor
Served(k) == {entry \in cache[k] : IsFresh(entry)}

(* A feature drawn from the bands looks them up, and they are computed with  *)
(* it when they are missing as well.                                         *)
Missing(k) == IF k \in Drawn /\ Served(Bands) = {} THEN {k, Bands} ELSE {k}

Found(j) == IF Computing(j) = {} /\ computed[j] # Crossed THEN instant ELSE Crossed

Filled(keys, entry) == [k \in Features |-> IF k \in keys THEN {entry} ELSE cache[k]]

-----------------------------------------------------------------------------
(* Steps. *)

FeaturesInit ==
    /\ instant = 0 /\ heard = FALSE /\ outside = {}
    /\ cache = [k \in Features |-> {}]
    /\ asking = [c \in Callers |-> {}]
    /\ computed = [k \in Features |-> -KeptFor]

InstantPasses ==
    /\ instant < MaxInstant
    /\ instant' = instant + 1
    /\ UNCHANGED <<heard, outside, cache, asking, computed>>

(* A trade or a ticker reaches this process, or another one that shares the  *)
(* cache, which may be out of order.                                         *)
MarketSpeaks ==
    /\ heard' \in {heard, TRUE}
    /\ outside' \in {outside, {instant}}
    /\ UNCHANGED <<instant, cache, asking, computed>>

(* An entry that is still fresh is the answer and nothing changes; otherwise *)
(* the caller notes the moment and computes, whoever else may be computing.  *)
Missed(c, k) ==
    /\ asking[c] = {} /\ Served(k) = {}
    /\ computed' = [j \in Features |-> IF j \in Missing(k) THEN Found(j) ELSE computed[j]]
    /\ UNCHANGED <<instant, heard, outside>>

(* Without a pause: from the market this process knows, or None where it     *)
(* does not suffice.                                                         *)
Compute(c, k) ==
    /\ Missed(c, k)
    /\ k \in Drawn => Served(Bands) = {}
    /\ \E told \in {{}, {instant}} :
         /\ heard \/ told = {}
         /\ cache' = Filled(Missing(k), Entry(instant, told, FALSE))
    /\ UNCHANGED asking

(* Drawn from the bands in the store, as old as they are.                    *)
Draw(c, k) ==
    /\ Missed(c, k)
    /\ k \in Drawn
    /\ \E bands \in Served(Bands) : cache' = Filled({k}, Entry(instant, bands.told, bands.lent))
    /\ UNCHANGED asking

Ask(c, k) ==
    /\ Missed(c, k)
    /\ ~heard
    /\ k \in Drawn => Served(Bands) = {}
    /\ asking' = [asking EXCEPT ![c] = {[keys |-> Missing(k), stamp |-> instant, read |-> {}]}]
    /\ UNCHANGED cache

(* What the cache outside holds when the request reaches it: None once it    *)
(* has expired or while the cache is out of order.                           *)
Unexpired == {at \in outside : instant - at < OutsideFor}

ReadMarket(c) ==
    /\ \E ask \in asking[c] : \E told \in {{}, Unexpired} :
         /\ ask.read = {}
         /\ asking' = [asking EXCEPT ![c] = {[ask EXCEPT !.read = {told}]}]
    /\ UNCHANGED <<instant, heard, outside, cache, computed>>

Keep(c) ==
    /\ \E ask \in asking[c] : \E told \in ask.read :
         cache' = Filled(ask.keys, Entry(ask.stamp, told, TRUE))
    /\ asking' = [asking EXCEPT ![c] = {}]
    /\ UNCHANGED <<instant, heard, outside, computed>>

(* A computation that raises leaves the cache as it was.                     *)
Raise(c) ==
    /\ \E ask \in asking[c] :
         computed' = [k \in Features |-> IF k \in ask.keys THEN Crossed ELSE computed[k]]
    /\ asking' = [asking EXCEPT ![c] = {}]
    /\ UNCHANGED <<instant, heard, outside, cache>>

(* All the keys of a symbol (the next bar of a replay).                      *)
Invalidate ==
    /\ cache' = [k \in Features |-> {}]
    /\ computed' = [k \in Features |-> Crossed]
    /\ UNCHANGED <<instant, heard, outside, asking>>

(* The next process knows what is outside only.                              *)
Restart ==
    /\ heard' = FALSE
    /\ cache' = [k \in Features |-> {}]
    /\ asking' = [c \in Callers |-> {}]
    /\ computed' = [k \in Features |-> Crossed]
    /\ UNCHANGED <<instant, outside>>

FeaturesNext ==
    \/ InstantPasses \/ MarketSpeaks \/ Invalidate \/ Restart
    \/ \E c \in Callers : \/ ReadMarket(c) \/ Keep(c) \/ Raise(c)
                          \/ \E k \in Features : Compute(c, k) \/ Draw(c, k) \/ Ask(c, k)

FeaturesSpec == FeaturesInit /\ [][FeaturesNext]_featureVars

-----------------------------------------------------------------------------
(* Properties. *)

FeaturesTypeOK ==
    /\ instant \in 0..MaxInstant /\ heard \in BOOLEAN /\ outside \subseteq 0..instant
    /\ \A k \in Features : \A e \in cache[k] : e.stamp \in 0..instant /\ e.told \subseteq 0..instant
    /\ \A c \in Callers : \A ask \in asking[c] : ask.keys \subseteq Features /\ ask.stamp \in 0..instant

(* How long a value may be on its way through the store.                     *)
Within(k) == IF k \in Drawn THEN 2 * KeptFor ELSE KeptFor

(* An answer out of the store tells of a market no older than its time to    *)
(* live, however long its computation was suspended; twice as old when it is *)
(* drawn from the bands, and older by the life of the cache outside when     *)
(* that one lent the price (store.py:119-137, 272-308,                       *)
(* market_data.py:68-76).                                                    *)
ToldOfTheMarket ==
    \A k \in Features : \A entry \in Served(k) : \A at \in entry.told :
        instant - at < Within(k) + (IF entry.lent THEN OutsideFor ELSE 0)

(* Within its time to live a feature is computed once, and what is told of   *)
(* it later is never older than what was told before, by this process or out *)
(* of the cache outside, unless two callers missed it at once, a computation *)
(* raised or the store was emptied (store.py:3-8, 119-137).                  *)
ComputedOnce ==
    [][\A k \in Features : computed'[k] # Crossed /\ computed'[Bands] # Crossed =>
         /\ computed'[k] # computed[k] => computed'[k] - computed[k] >= KeptFor
         /\ \A old \in cache[k], new \in cache'[k] :
              \A before \in old.told, after \in new.told : after >= before]_featureVars
=============================================================================
