------------------------------- MODULE EventBus -------------------------------
(* The bus the parts of the engine talk through (app/core/events/bus.py): a   *)
(* bounded queue, one worker that hands an event to all its handlers at once  *)
(* and waits for the slowest, and a stop that waits for the queue, but not    *)
(* for ever.                                                                  *)
(*                                                                            *)
(* An event is the number of its publication.                                 *)
EXTENDS Integers, Sequences, FiniteSets

CONSTANTS
    Handlers,
    EventKinds,    \* event classes
    Wants,         \* the kinds each handler subscribes to
    MaxQueue,      \* EventBus(max_queue_size)
    MaxEvents      \* bound: events published

ASSUME QueueAssumption == MaxQueue \in Nat \ {0}

VARIABLES
    busState,      \* Service._state; "drained": join() has returned
    subscribed,    \* handlers in _subscribers
    waiting,       \* _queue
    unfinished,    \* Queue._unfinished_tasks, what join() waits for
    current,       \* the event the worker dispatches, or 0
    busy,          \* handlers that have not ended with it
    failed,        \* a handler raised on it
    kindOf,        \* kinds of the events published
    addressed,     \* history: the handlers each event was handed to
    seen,          \* history: the events each handler ended with
    overran        \* history: a stop gave up waiting

busVars == <<busState, subscribed, waiting, unfinished, current, busy, failed, kindOf,
             addressed, seen, overran>>

-----------------------------------------------------------------------------
(* Steps. *)

BusInit ==
    /\ busState = "created" /\ subscribed = {}
    /\ waiting = <<>> /\ unfinished = 0 /\ current = 0 /\ busy = {} /\ failed = FALSE
    /\ kindOf = <<>> /\ addressed = <<>>
    /\ seen = [h \in Handlers |-> <<>>]
    /\ overran = FALSE

Subscribe(h) ==
    /\ h \notin subscribed
    /\ subscribed' = subscribed \cup {h}
    /\ UNCHANGED <<busState, waiting, unfinished, current, busy, failed, kindOf, addressed,
                   seen, overran>>

Unsubscribe(h) ==
    /\ h \in subscribed
    /\ subscribed' = subscribed \ {h}
    /\ UNCHANGED <<busState, waiting, unfinished, current, busy, failed, kindOf, addressed,
                   seen, overran>>

(* A stopped bus is started again by the watchdog, with the queue it had.     *)
StartBus ==
    /\ busState \in {"created", "stopped"}
    /\ busState' = "running"
    /\ UNCHANGED <<subscribed, waiting, unfinished, current, busy, failed, kindOf, addressed,
                   seen, overran>>

(* Otherwise the publisher gets an EventBusError.                             *)
Accepts == busState = "running" /\ Len(waiting) < MaxQueue

Publish(kind) ==
    /\ Accepts
    /\ Len(kindOf) < MaxEvents
    /\ kindOf' = Append(kindOf, kind)
    /\ addressed' = Append(addressed, {})
    /\ waiting' = Append(waiting, Len(kindOf'))
    /\ unfinished' = unfinished + 1
    /\ UNCHANGED <<busState, subscribed, current, busy, failed, seen, overran>>

WorkerRuns == busState \in {"running", "stopping", "drained"}

(* The handlers of an event are those of the moment it is dispatched.         *)
Takes(i) ==
    /\ WorkerRuns /\ current = 0
    /\ current' = waiting[i]
    /\ waiting' = SubSeq(waiting, 1, i - 1) \o SubSeq(waiting, i + 1, Len(waiting))
    /\ busy' = {h \in subscribed : kindOf[waiting[i]] \in Wants[h]}
    /\ addressed' = [addressed EXCEPT ![waiting[i]] = busy']

NextTaken == waiting # <<>> /\ Takes(1)

TakeEvent ==
    /\ NextTaken
    /\ UNCHANGED <<busState, subscribed, unfinished, failed, kindOf, seen, overran>>

(* Handlers run side by side; one that raises is a dead letter, no more.      *)
LeftAfter(h) == busy \ {h}

HandlerEnds(h) ==
    /\ h \in busy
    /\ busy' = busy \ {h}
    /\ seen' = [seen EXCEPT ![h] = Append(@, current)]
    /\ UNCHANGED <<busState, subscribed, waiting, unfinished, current, failed, kindOf,
                   addressed, overran>>

HandlerRaises(h) ==
    /\ h \in busy
    /\ busy' = LeftAfter(h)
    /\ seen' = [seen EXCEPT ![h] = Append(@, current)]
    /\ failed' = TRUE
    /\ UNCHANGED <<busState, subscribed, waiting, unfinished, current, kindOf, addressed, overran>>

Mutant_NotAfterAnError == IF failed THEN 0 ELSE 1
TaskDone == 1

EventDone ==
    /\ WorkerRuns /\ current # 0 /\ busy = {}
    /\ unfinished' = unfinished - TaskDone
    /\ current' = 0 /\ failed' = FALSE
    /\ UNCHANGED <<busState, subscribed, waiting, busy, kindOf, addressed, seen, overran>>

(* stop(): no more is accepted; join() returns when all is done, ...          *)
BeginStop ==
    /\ busState = "running"
    /\ busState' = "stopping"
    /\ UNCHANGED <<subscribed, waiting, unfinished, current, busy, failed, kindOf, addressed,
                   seen, overran>>

Joined ==
    /\ busState = "stopping" /\ unfinished = 0
    /\ busState' = "drained"
    /\ UNCHANGED <<subscribed, waiting, unfinished, current, busy, failed, kindOf, addressed,
                   seen, overran>>

(* ... or five seconds are over; then the worker goes, with what it had in    *)
(* hand.                                                                      *)
JoinTimesOut ==
    /\ busState = "stopping" /\ unfinished > 0
    /\ busState' = "drained"
    /\ overran' = TRUE
    /\ UNCHANGED <<subscribed, waiting, unfinished, current, busy, failed, kindOf, addressed, seen>>

CancelWorker ==
    /\ busState = "drained"
    /\ busState' = "stopped"
    /\ busy' = {} /\ current' = 0 /\ failed' = FALSE
    /\ unfinished' = unfinished - (IF current # 0 THEN 1 ELSE 0)
    /\ UNCHANGED <<subscribed, waiting, kindOf, addressed, seen, overran>>

BusNext ==
    \/ \E h \in Handlers : Subscribe(h) \/ Unsubscribe(h) \/ HandlerEnds(h) \/ HandlerRaises(h)
    \/ \E kind \in EventKinds : Publish(kind)
    \/ StartBus \/ TakeEvent \/ EventDone
    \/ BeginStop \/ Joined \/ JoinTimesOut \/ CancelWorker

BusSpec == BusInit /\ [][BusNext]_busVars

-----------------------------------------------------------------------------
(* Properties. *)

BusTypeOK ==
    /\ busState \in {"created", "running", "stopping", "drained", "stopped"}
    /\ subscribed \subseteq Handlers /\ busy \subseteq Handlers
    /\ Len(waiting) <= MaxQueue /\ current \in 0..Len(kindOf)
    /\ unfinished \in 0..MaxQueue + 1
    /\ failed \in BOOLEAN /\ overran \in BOOLEAN

Holds(s, x) == \E i \in DOMAIN s : s[i] = x

(* What join() waits for is what is in the queue or in hand, whatever raised  *)
(* or was cancelled, and across restarts: the next stop can end               *)
(* (bus.py:160-180).                                                          *)
JoinIsTrue == unfinished = Len(waiting) + (IF current # 0 THEN 1 ELSE 0)

(* A handler sees each event once at most and in the order of publication,    *)
(* also across a stop and a restart (bus.py:173-190).                         *)
InOrder == \A h \in Handlers : \A i \in 1..Len(seen[h]) - 1 : seen[h][i] < seen[h][i + 1]

(* Unless a stop gave up waiting, an event that was accepted and is not       *)
(* waiting has been, or is being, through every handler it was handed to,     *)
(* whichever of them raised (bus.py:173-226).                                 *)
NobodyMisses ==
    ~overran =>
        \A e \in DOMAIN kindOf : ~Holds(waiting, e) =>
            \A h \in addressed[e] : Holds(seen[h], e) \/ (e = current /\ h \in busy)

(* A stop that did not give up leaves no event behind for the process that    *)
(* starts next (bus.py:140-171).                                              *)
StopLeavesNothing == busState = "stopped" /\ ~overran => waiting = <<>>
===============================================================================
