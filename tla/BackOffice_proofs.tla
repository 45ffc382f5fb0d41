-------------------------- MODULE BackOffice_proofs --------------------------
(***************************************************************************)
(* The services beside the trading loop keep what they promise for every   *)
(* value of their constants.  Each desk has an inductive invariant of its  *)
(* own; a step of BackOffice is a step of one desk and leaves the others'  *)
(* variables alone (lemma Visits), so the desks' lemmas add up.  The desks *)
(* Replay, Laboratory and FeatureCache are in Laboratory_proofs.           *)
(***************************************************************************)
EXTENDS BackOffice, Laboratory_proofs, Sums, FiniteSetTheorems, SequenceTheorems, TLAPS

-----------------------------------------------------------------------------
(* The event bus: events are numbered in the order of publication, the       *)
(* queue is increasing, and everything a handler has seen is older than      *)
(* everything that waits.                                                    *)

Rising(s) == \A i, j \in DOMAIN s : i < j => s[i] < s[j]

(* e has been handed over already: it is in hand or older.                   *)
Before(s, e) == \A i \in DOMAIN s : s[i] < e

BusShapes ==
    /\ busState \in {"created", "running", "stopping", "drained", "stopped"}
    /\ subscribed \subseteq Handlers /\ busy \subseteq Handlers
    /\ failed \in BOOLEAN /\ overran \in BOOLEAN
    /\ kindOf \in Seq(EventKinds)
    /\ addressed \in Seq(SUBSET Handlers) /\ Len(addressed) = Len(kindOf)
    /\ waiting \in Seq(1..Len(kindOf)) /\ Len(waiting) <= MaxQueue
    /\ seen \in [Handlers -> Seq(1..Len(kindOf))]
    /\ current \in 0..Len(kindOf)
    /\ current = 0 => busy = {}

BusOrder ==
    /\ Rising(waiting)
    /\ \A i \in DOMAIN waiting : current < waiting[i]
    /\ \A h \in Handlers :
         /\ Rising(seen[h])
         /\ \A i \in DOMAIN waiting : Before(seen[h], waiting[i])
         /\ current # 0 => Before(seen[h], current + 1)
         /\ h \in busy => Before(seen[h], current)

Settled == busState \in {"drained", "stopped"} /\ ~overran => unfinished = 0

BusInv == BusShapes /\ JoinIsTrue /\ BusOrder /\ NobodyMisses /\ Settled

(* Taking the head off a queue.                                              *)
LEMMA QueueTail ==
    ASSUME NEW S, NEW q \in Seq(S), q # << >>
    PROVE  LET t == SubSeq(q, 1, 0) \o SubSeq(q, 2, Len(q))
           IN  /\ t \in Seq(S) /\ Len(t) = Len(q) - 1 /\ q[1] \in S /\ Len(q) >= 1
               /\ \A i \in DOMAIN t : t[i] = q[i + 1]
               /\ DOMAIN t = 1..(Len(q) - 1) /\ DOMAIN q = 1..Len(q)
               /\ Len(q) \in Nat
  <1> DEFINE t == SubSeq(q, 1, 0) \o SubSeq(q, 2, Len(q))
  <1>1. Len(q) \in Nat /\ Len(q) >= 1 /\ DOMAIN q = 1..Len(q) /\ q[1] \in S
    OBVIOUS
  <1>2. SubSeq(q, 1, 0) = << >>
    OBVIOUS
  <1>3. /\ SubSeq(q, 2, Len(q)) \in Seq(S) /\ Len(SubSeq(q, 2, Len(q))) = Len(q) - 1
        /\ \A i \in 1..(Len(q) - 1) : SubSeq(q, 2, Len(q))[i] = q[i + 1]
    BY <1>1
  <1>4. t = SubSeq(q, 2, Len(q))
    BY <1>2, <1>3
  <1>. QED BY <1>1, <1>3, <1>4

LEMMA PublishKeeps ==
    ASSUME BusInv, NEW kind \in EventKinds, Publish(kind)
    PROVE  BusInv'
  <1> DEFINE n == Len(kindOf)
  <1>0. BusShapes /\ JoinIsTrue /\ BusOrder /\ NobodyMisses /\ Settled
    BY DEF BusInv
  <1>1. /\ n \in Nat /\ kindOf' \in Seq(EventKinds) /\ Len(kindOf') = n + 1
        /\ DOMAIN kindOf = 1..n /\ DOMAIN kindOf' = 1..(n + 1)
        /\ addressed' \in Seq(SUBSET Handlers) /\ Len(addressed') = n + 1
        /\ \A e \in 1..n : addressed'[e] = addressed[e]
        /\ addressed'[n + 1] = {}
    BY <1>0 DEF Publish, BusShapes
  <1>2. waiting \in Seq(1..(n + 1)) /\ \A h \in Handlers : seen[h] \in Seq(1..(n + 1))
    BY <1>0, <1>1 DEF BusShapes
  <1>3. /\ waiting' = Append(waiting, n + 1) /\ waiting' \in Seq(1..(n + 1))
        /\ Len(waiting') = Len(waiting) + 1 /\ Len(waiting) \in Nat
        /\ DOMAIN waiting = 1..Len(waiting) /\ DOMAIN waiting' = 1..(Len(waiting) + 1)
        /\ \A i \in DOMAIN waiting : waiting'[i] = waiting[i] /\ waiting[i] \in 1..n
        /\ waiting'[Len(waiting) + 1] = n + 1
        /\ Len(waiting) < MaxQueue
    BY <1>0, <1>1, <1>2, QueueAssumption DEF Publish, Accepts, BusShapes
  <1>4. UNCHANGED <<busState, subscribed, current, busy, failed, seen, overran>>
        /\ unfinished' = unfinished + 1 /\ busState = "running"
    BY DEF Publish, Accepts
  <1>5. BusShapes'
    BY <1>0, <1>1, <1>2, <1>3, <1>4, QueueAssumption DEF BusShapes
  <1>6. JoinIsTrue'
    <2>1. current' = current /\ unfinished' = unfinished + 1
      BY <1>4
    <2>2. CASE current = 0
      BY <1>0, <1>3, <2>1, <2>2 DEF JoinIsTrue
    <2>3. CASE current # 0
      BY <1>0, <1>3, <2>1, <2>3 DEF JoinIsTrue
    <2>. QED BY <2>2, <2>3
  <1>7. \A h \in Handlers : \A i \in DOMAIN seen[h] : seen[h][i] \in 1..n
    BY <1>0 DEF BusShapes
  <1>8. BusOrder'
    <2> USE <1>0 DEF BusOrder, Rising, Before
    <2>0. current \in 0..n
      BY DEF BusShapes
    <2>1. Rising(waiting')
      BY <1>1, <1>3
    <2>2. \A i \in DOMAIN waiting' : current < waiting'[i]
      BY <1>1, <1>3, <2>0
    <2>3. \A h \in Handlers : \A i \in DOMAIN waiting' : Before(seen[h], waiting'[i])
      BY <1>1, <1>3, <1>7
    <2>. QED BY <1>4, <2>1, <2>2, <2>3
  <1>9. NobodyMisses'
    <2> SUFFICES ASSUME ~overran, NEW e \in 1..(n + 1), ~Holds(waiting', e),
                        NEW h \in addressed'[e]
                 PROVE  Holds(seen[h], e) \/ (e = current /\ h \in busy)
      BY <1>1, <1>4 DEF NobodyMisses
    <2>1. e \in 1..n /\ h \in addressed[e]
      BY <1>1
    <2>2. ~Holds(waiting, e)
      BY <1>3 DEF Holds
    <2>. QED BY <1>0, <2>1, <2>2, <1>1 DEF NobodyMisses
  <1>. QED BY <1>4, <1>5, <1>6, <1>8, <1>9 DEF Settled, BusInv

LEMMA TakeKeeps ==
    ASSUME BusInv, TakeEvent
    PROVE  BusInv'
  <1> DEFINE n == Len(kindOf)
             e0 == waiting[1]
  <1>0. BusShapes /\ JoinIsTrue /\ BusOrder /\ NobodyMisses /\ Settled
    BY DEF BusInv
  <1>1. /\ waiting # << >> /\ current = 0
        /\ waiting' = SubSeq(waiting, 1, 0) \o SubSeq(waiting, 2, Len(waiting))
        /\ current' = e0 /\ busy' = {h \in subscribed : kindOf[e0] \in Wants[h]}
        /\ addressed' = [addressed EXCEPT ![e0] = busy']
        /\ UNCHANGED <<busState, subscribed, unfinished, failed, kindOf, seen, overran>>
        /\ WorkerRuns
    BY DEF TakeEvent, NextTaken, Takes
  <1>2. /\ n \in Nat /\ waiting \in Seq(1..n) /\ DOMAIN addressed = 1..n
        /\ addressed \in Seq(SUBSET Handlers) /\ DOMAIN kindOf = 1..n
    BY <1>0 DEF BusShapes
  <1>3. /\ waiting' \in Seq(1..n) /\ Len(waiting') = Len(waiting) - 1 /\ e0 \in 1..n
        /\ DOMAIN waiting' = 1..(Len(waiting) - 1) /\ DOMAIN waiting = 1..Len(waiting)
        /\ \A i \in DOMAIN waiting' : waiting'[i] = waiting[i + 1]
        /\ Len(waiting) \in Nat /\ Len(waiting) >= 1
    BY <1>1, <1>2, QueueTail
  <1>4. /\ addressed' \in Seq(SUBSET Handlers) /\ Len(addressed') = n
        /\ \A e \in 1..n : addressed'[e] = IF e = e0 THEN busy' ELSE addressed[e]
    <2>1. busy' \subseteq Handlers
      BY <1>0, <1>1 DEF BusShapes
    <2>. QED BY <1>0, <1>1, <1>2, <1>3, <2>1 DEF BusShapes
  <1> HIDE DEF e0
  <1>5. BusShapes'
    <2>1. busy' \subseteq Handlers
      BY <1>0, <1>1 DEF BusShapes
    <2>2. Len(waiting') <= MaxQueue
      BY <1>0, <1>3, QueueAssumption DEF BusShapes
    <2>. QED BY <1>0, <1>1, <1>2, <1>3, <1>4, <2>1, <2>2 DEF BusShapes
  <1>6. JoinIsTrue'
    <2>1. unfinished = Len(waiting)
      BY <1>0, <1>1, <1>3 DEF JoinIsTrue
    <2>2. current' # 0 /\ unfinished' = unfinished
      BY <1>1, <1>3
    <2>. QED BY <1>3, <2>1, <2>2 DEF JoinIsTrue
  <1>7. \A i \in DOMAIN waiting' : e0 < waiting'[i]
    <2>1. Rising(waiting)
      BY <1>0 DEF BusOrder
    <2>2. ASSUME NEW i \in DOMAIN waiting' PROVE e0 < waiting'[i]
      <3>1. 1 \in DOMAIN waiting /\ i + 1 \in DOMAIN waiting /\ 1 < i + 1
        BY <1>3, <2>2
      <3>2. waiting[1] < waiting[i + 1]
        BY <2>1, <3>1 DEF Rising
      <3>. QED BY <1>3, <2>2, <3>2 DEF e0
    <2>. QED BY <2>2
  <1>8. BusOrder'
    <2> USE <1>0, <1>1, <1>3, <1>7 DEF BusOrder, Before
    <2>1. Rising(waiting')
      BY DEF Rising
    <2>2. \A h \in Handlers : Before(seen[h], e0)
      BY DEF e0
    <2>3. \A h \in Handlers : \A i \in DOMAIN waiting' : Before(seen[h], waiting'[i])
      OBVIOUS
    <2>4. \A h \in Handlers : \A i \in DOMAIN seen[h] : seen[h][i] \in Nat
      BY DEF BusShapes
    <2>5. \A h \in Handlers : Before(seen[h], e0 + 1)
      BY <2>2, <2>4
    <2>. QED BY <1>7, <2>1, <2>2, <2>3, <2>5
  <1>9. NobodyMisses'
    <2> SUFFICES ASSUME ~overran, NEW e \in 1..n, ~Holds(waiting', e), NEW h \in addressed'[e]
                 PROVE  Holds(seen[h], e) \/ (e = e0 /\ h \in busy')
      BY <1>1, <1>2 DEF NobodyMisses
    <2>1. CASE e = e0
      BY <2>1, <1>4
    <2>2. CASE e # e0
      <3>1. ~Holds(waiting, e)
        <4>1. SUFFICES ASSUME NEW i \in DOMAIN waiting, waiting[i] = e PROVE FALSE
          BY DEF Holds
        <4>2. i # 1
          BY <2>2, <4>1 DEF e0
        <4>3. i - 1 \in DOMAIN waiting' /\ waiting'[i - 1] = e
          BY <4>1, <4>2, <1>3
        <4>. QED BY <4>3 DEF Holds
      <3>. QED BY <2>2, <3>1, <1>0, <1>1, <1>2, <1>4 DEF NobodyMisses
    <2>. QED BY <2>1, <2>2
  <1>10. Settled'
    BY <1>0, <1>1, <1>3 DEF Settled, JoinIsTrue
  <1>. QED BY <1>5, <1>6, <1>8, <1>9, <1>10 DEF BusInv

(* A handler ends with the event in hand, whether it raised or not.          *)
Ends(h) ==
    /\ h \in busy
    /\ busy' = busy \ {h}
    /\ seen' = [seen EXCEPT ![h] = Append(@, current)]
    /\ failed' \in BOOLEAN
    /\ UNCHANGED <<busState, subscribed, waiting, unfinished, current, kindOf, addressed, overran>>

LEMMA EndsKeeps ==
    ASSUME BusInv, NEW h \in Handlers, Ends(h)
    PROVE  BusInv'
  <1> DEFINE n == Len(kindOf)
             m == Len(seen[h])
  <1>0. BusShapes /\ JoinIsTrue /\ BusOrder /\ NobodyMisses /\ Settled
    BY DEF BusInv
  <1>1. /\ n \in Nat /\ current \in 1..n /\ seen[h] \in Seq(1..n) /\ m \in Nat
        /\ DOMAIN seen[h] = 1..m /\ \A i \in 1..m : seen[h][i] \in 1..n
    BY <1>0 DEF BusShapes, Ends
  <1>2. /\ busy' = busy \ {h} /\ failed' \in BOOLEAN
        /\ UNCHANGED <<busState, subscribed, waiting, unfinished, current, kindOf, addressed, overran>>
        /\ \A g \in Handlers \ {h} : seen'[g] = seen[g]
        /\ seen'[h] = Append(seen[h], current)
        /\ seen' \in [Handlers -> Seq(1..n)]
    BY <1>0, <1>1 DEF BusShapes, Ends
  <1>3. /\ DOMAIN seen'[h] = 1..(m + 1) /\ seen'[h][m + 1] = current
        /\ \A i \in 1..m : seen'[h][i] = seen[h][i]
    BY <1>1, <1>2
  <1>4. BusShapes'
    BY <1>0, <1>1, <1>2 DEF BusShapes
  <1>5. JoinIsTrue' /\ Settled'
    BY <1>0, <1>2 DEF JoinIsTrue, Settled
  <1>6. BusOrder'
    <2> USE <1>0, <1>1, <1>2, <1>3 DEF BusOrder, Before
    <2>1. Before(seen[h], current)
      BY DEF Ends
    <2>2. Rising(seen'[h])
      <3>1. Rising(seen[h])
        OBVIOUS
      <3> SUFFICES ASSUME NEW i \in 1..(m + 1), NEW j \in 1..(m + 1), i < j
                   PROVE  seen'[h][i] < seen'[h][j]
        BY DEF Rising
      <3>2. i \in 1..m
        BY <1>1
      <3>3. CASE j = m + 1
        BY <2>1, <3>2, <3>3
      <3>4. CASE j # m + 1
        <4>0. m \in Nat
          BY <1>1
        <4>1. j \in 1..m
          BY ONLY <3>4, <4>0
        <4>. QED BY <3>1, <3>2, <4>1 DEF Rising
      <3>. QED BY <3>3, <3>4
    <2>3. \A g \in Handlers : Rising(seen'[g])
      BY <2>2
    <2>4. \A i \in DOMAIN waiting : Before(seen'[h], waiting[i])
      <3>1. \A i \in DOMAIN waiting : current < waiting[i] /\ Before(seen[h], waiting[i])
        OBVIOUS
      <3>. QED BY ONLY <1>1, <1>3, <3>1 DEF Before
    <2>5. Before(seen'[h], current + 1)
      BY <2>1
    <2>. QED BY <2>3, <2>4, <2>5
  <1>7. NobodyMisses'
    <2> SUFFICES ASSUME ~overran, NEW e \in DOMAIN kindOf, ~Holds(waiting, e),
                        NEW g \in addressed[e]
                 PROVE  Holds(seen'[g], e) \/ (e = current /\ g \in busy')
      BY <1>2 DEF NobodyMisses
    <2>1. g \in Handlers
      BY <1>0, <1>1 DEF BusShapes
    <2>2. Holds(seen[g], e) \/ (e = current /\ g \in busy)
      BY <1>0 DEF NobodyMisses
    <2>3. CASE g = h
      <3>1. CASE e = current
        <4>1. m + 1 \in DOMAIN seen'[h]
          BY <1>1, <1>3
        <4>. QED BY <2>3, <3>1, <4>1, <1>3 DEF Holds
      <3>2. CASE e # current
        <4>1. PICK i \in 1..m : seen[h][i] = e
          BY <1>1, <2>2, <2>3, <3>2 DEF Holds
        <4>2. i \in DOMAIN seen'[h]
          BY <1>1, <1>3
        <4>. QED BY <2>3, <4>1, <4>2, <1>3 DEF Holds
      <3>. QED BY <3>1, <3>2
    <2>4. CASE g # h
      BY <2>1, <2>2, <2>4, <1>2
    <2>. QED BY <2>3, <2>4
  <1>. QED BY <1>4, <1>5, <1>6, <1>7 DEF BusInv

(* The worker lets go of the event in hand: it is through, or the worker is  *)
(* cancelled.                                                                *)
LEMMA LetGoKeeps ==
    ASSUME BusInv, EventDone \/ CancelWorker
    PROVE  BusInv'
  <1>0. BusShapes /\ JoinIsTrue /\ BusOrder /\ NobodyMisses /\ Settled
    BY DEF BusInv
  <1>1. /\ UNCHANGED <<subscribed, waiting, kindOf, addressed, seen, overran>>
        /\ busy' = {} /\ current' = 0 /\ failed' = FALSE
        /\ unfinished' = unfinished - (IF current # 0 THEN 1 ELSE 0)
    BY DEF EventDone, CancelWorker, TaskDone
  <1>2. \/ EventDone /\ busState' = busState
        \/ busState = "drained" /\ busState' = "stopped"
    BY DEF EventDone, CancelWorker
  <1>3. Len(waiting) \in Nat /\ Len(kindOf) \in Nat /\ unfinished' = Len(waiting)
    <2>1. CASE current = 0
      BY <2>1, <1>0, <1>1 DEF BusShapes, JoinIsTrue
    <2>2. CASE current # 0
      BY <2>2, <1>0, <1>1 DEF BusShapes, JoinIsTrue
    <2>. QED BY <2>1, <2>2
  <1>4. BusShapes'
    <2>1. busState' \in {"created", "running", "stopping", "drained", "stopped"}
      BY <1>0, <1>2 DEF BusShapes
    <2>2. current' \in 0..Len(kindOf)
      BY <1>1, <1>3
    <2>3. /\ subscribed \subseteq Handlers /\ overran \in BOOLEAN /\ kindOf \in Seq(EventKinds)
          /\ addressed \in Seq(SUBSET Handlers) /\ Len(addressed) = Len(kindOf)
          /\ waiting \in Seq(1..Len(kindOf)) /\ Len(waiting) <= MaxQueue
          /\ seen \in [Handlers -> Seq(1..Len(kindOf))]
      BY <1>0 DEF BusShapes
    <2>. QED BY ONLY <1>1, <2>1, <2>2, <2>3 DEF BusShapes
  <1>5. JoinIsTrue'
    BY <1>1, <1>3 DEF JoinIsTrue
  <1>6. Settled'
    BY <1>0, <1>1, <1>2, <1>3 DEF Settled, JoinIsTrue, EventDone, WorkerRuns
  <1>7. BusOrder'
    <2>1. \A i \in DOMAIN waiting : 0 < waiting[i]
      BY <1>0, <1>3 DEF BusShapes
    <2>. QED BY <1>0, <1>1, <2>1 DEF BusOrder
  <1>8. NobodyMisses'
    <2>1. overran \/ busy = {}
      BY <1>0, <1>2, <1>3 DEF EventDone, Settled, JoinIsTrue, BusShapes
    <2>. QED BY <1>0, <1>1, <2>1 DEF NobodyMisses
  <1>. QED BY <1>4, <1>5, <1>6, <1>7, <1>8 DEF BusInv

(* Nothing but the state of the service, the subscriptions and the excuse.   *)
LEMMA AroundTheQueue ==
    ASSUME BusInv, UNCHANGED <<waiting, unfinished, current, busy, failed, kindOf, addressed, seen>>,
           busState' \in {"created", "running", "stopping", "drained", "stopped"},
           subscribed' \subseteq Handlers, overran' \in BOOLEAN, overran => overran', Settled'
    PROVE  BusInv'
  <1>0. BusShapes /\ JoinIsTrue /\ BusOrder /\ NobodyMisses /\ Settled
    BY DEF BusInv
  <1>1. BusShapes'
    BY <1>0 DEF BusShapes
  <1>2. JoinIsTrue' /\ BusOrder'
    BY <1>0 DEF JoinIsTrue, BusOrder
  <1>3. NobodyMisses'
    BY <1>0 DEF NobodyMisses
  <1>. QED BY <1>1, <1>2, <1>3 DEF BusInv

LEMMA BusSteps ==
    ASSUME BusInv, BusNext \/ UNCHANGED busVars
    PROVE  BusInv'
  <1>0. Settled /\ subscribed \subseteq Handlers /\ overran \in BOOLEAN
        /\ busState \in {"created", "running", "stopping", "drained", "stopped"}
    BY DEF BusInv, BusShapes
  <1>1. ASSUME NEW h \in Handlers, Subscribe(h) \/ Unsubscribe(h) PROVE BusInv'
    <2>1. subscribed' \subseteq Handlers
      BY <1>0, <1>1 DEF Subscribe, Unsubscribe
    <2>2. UNCHANGED <<busState, waiting, unfinished, current, busy, failed, kindOf, addressed,
                      seen, overran>>
      BY <1>1 DEF Subscribe, Unsubscribe
    <2>3. Settled'
      BY <1>0, <2>2 DEF Settled
    <2>. QED BY <1>0, <2>1, <2>2, <2>3, AroundTheQueue
  <1>2. ASSUME NEW h \in Handlers, HandlerEnds(h) \/ HandlerRaises(h) PROVE BusInv'
    <2>1. Ends(h)
      BY <1>2 DEF HandlerEnds, HandlerRaises, Ends, LeftAfter, BusInv, BusShapes
    <2>. QED BY <2>1, EndsKeeps
  <1>3. ASSUME NEW kind \in EventKinds, Publish(kind) PROVE BusInv'
    BY <1>3, PublishKeeps
  <1>4. CASE StartBus \/ BeginStop \/ Joined \/ JoinTimesOut \/ UNCHANGED busVars
    <2>1. UNCHANGED <<subscribed, waiting, unfinished, current, busy, failed, kindOf, addressed, seen>>
      BY <1>4 DEF StartBus, BeginStop, Joined, JoinTimesOut, busVars
    <2>2. /\ busState' \in {"created", "running", "stopping", "drained", "stopped"}
          /\ overran' \in BOOLEAN /\ (overran => overran')
      BY <1>0, <1>4 DEF StartBus, BeginStop, Joined, JoinTimesOut, busVars
    <2>3. Settled'
      BY <1>0, <1>4 DEF StartBus, BeginStop, Joined, JoinTimesOut, busVars, Settled
    <2>. QED BY <1>0, <2>1, <2>2, <2>3, AroundTheQueue
  <1>5. CASE TakeEvent
    BY <1>5, TakeKeeps
  <1>6. CASE EventDone \/ CancelWorker
    BY <1>6, LetGoKeeps
  <1>. QED BY <1>1, <1>2, <1>3, <1>4, <1>5, <1>6 DEF BusNext

LEMMA BusStarts ==
    ASSUME BusInit
    PROVE  BusInv
  <1>1. Len(<< >>) = 0 /\ DOMAIN << >> = {} /\ \A S : << >> \in Seq(S)
    OBVIOUS
  <1>2. BusShapes
    <2>1. /\ busState = "created" /\ subscribed = {} /\ waiting = << >> /\ current = 0
          /\ busy = {} /\ failed = FALSE /\ kindOf = << >> /\ addressed = << >> /\ overran = FALSE
      BY DEF BusInit
    <2>2. seen \in [Handlers -> Seq(1..Len(kindOf))]
      BY <1>1 DEF BusInit
    <2>3. Len(waiting) <= MaxQueue /\ current \in 0..Len(kindOf)
      BY <1>1, <2>1, QueueAssumption
    <2>. QED BY <1>1, <2>1, <2>2, <2>3 DEF BusShapes
  <1>. QED
    BY <1>1, <1>2 DEF BusInit, BusInv, JoinIsTrue, BusOrder, Rising, Before, NobodyMisses, Settled

(* The unfinished are at most a full queue and the event in hand.            *)
LEMMA BusPromises ==
    ASSUME BusInv
    PROVE  BusTypeOK /\ JoinIsTrue /\ InOrder /\ NobodyMisses /\ StopLeavesNothing
  <1>0. BusShapes /\ JoinIsTrue /\ BusOrder /\ NobodyMisses /\ Settled
    BY DEF BusInv
  <1>1. Len(waiting) \in 0..MaxQueue
    BY <1>0, QueueAssumption DEF BusShapes
  <1>2. unfinished \in 0..MaxQueue + 1
    <2>1. CASE current = 0
      BY <2>1, <1>0, <1>1, QueueAssumption DEF JoinIsTrue
    <2>2. CASE current # 0
      BY <2>2, <1>0, <1>1, QueueAssumption DEF JoinIsTrue
    <2>. QED BY <2>1, <2>2
  <1>3. BusTypeOK
    BY <1>0, <1>1, <1>2, QueueAssumption DEF BusTypeOK, BusShapes
  <1>4. InOrder
    <2> SUFFICES ASSUME NEW h \in Handlers, NEW i \in 1..Len(seen[h]) - 1
                 PROVE  seen[h][i] < seen[h][i + 1]
      BY DEF InOrder
    <2>1. DOMAIN seen[h] = 1..Len(seen[h]) /\ Len(seen[h]) \in Nat
      BY <1>0 DEF BusShapes
    <2>2. i \in DOMAIN seen[h] /\ i + 1 \in DOMAIN seen[h] /\ i < i + 1
      BY <2>1
    <2>. QED BY <1>0, <2>2 DEF BusOrder, Rising
  <1>5. StopLeavesNothing
    <2> SUFFICES ASSUME busState = "stopped", ~overran PROVE waiting = << >>
      BY DEF StopLeavesNothing
    <2>1. unfinished = 0
      BY <1>0 DEF Settled
    <2>2. Len(waiting) = 0
      <3>1. CASE current = 0
        BY <2>1, <3>1, <1>0, <1>1 DEF JoinIsTrue
      <3>2. CASE current # 0
        BY <2>1, <3>2, <1>0, <1>1, QueueAssumption DEF JoinIsTrue
      <3>. QED BY <3>1, <3>2
    <2>. QED BY <1>0, <2>2 DEF BusShapes
  <1>. QED BY <1>0, <1>3, <1>4, <1>5

-----------------------------------------------------------------------------
(* The guards of live trading: approvals come from the operator, a report    *)
(* that approves is at least as old as whatever would refuse since, and what *)
(* was revoked survives on disk at most.                                     *)

GuardShapes ==
    /\ hour \in 0..Hours /\ config \in Configs /\ world \in Worlds
    /\ killed \in BOOLEAN /\ revoked \in BOOLEAN /\ errors \in {0, ErrorsShown}
    /\ AtMostOne(report) /\ AtMostOne(approval)
    /\ approval \subseteq grants /\ approvalFile \subseteq grants
    /\ AtMostOne(approvalFile)
    /\ \A g \in grants : g.at \in 0..hour
    /\ \A r \in report : r.approved \in BOOLEAN /\ r.at \in 0..hour /\ r.seen \in Worlds
    /\ IsFiniteSet(grants) /\ Cardinality(grants) <= MaxGrants

(* The evaluations since the last breach are counted twice.                  *)
Recovering ==
    /\ safe.active \in BOOLEAN /\ safe.streak \in 0..Thresholds.cycles
    /\ calm \in 0..Thresholds.cycles
    /\ safe.active => /\ Thresholds.enabled
                      /\ calm = safe.streak /\ safe.streak < Thresholds.cycles

(* Once a report has approved, what refuses came after it.                   *)
ReasonsAreNewer ==
    /\ refusing \subseteq 0..hour
    /\ \A r \in report : r.approved => \A since \in refusing : since >= r.at

RevokedInMemory == revoked => approval \subseteq approvalFile

GuardInv ==
    /\ GuardShapes /\ Recovering /\ ReasonsAreNewer /\ RevokedInMemory
    /\ ApprovalBinds /\ FailsClosed

AllPass == \A check \in CoreChecks : check[2]

(* What it takes to pass every criterion.                                    *)
LEMMA PassingIsMeasured ==
    ASSUME AllPass
    PROVE  /\ \A reading \in Optional : world[reading] # Unmeasured
           /\ \A f \in config.required : world.flags[f] # Unmeasured
  <1>1. ASSUME NEW checks \in {SettingChecks, TrackRecordChecks, QualityChecks, FlagChecks},
               NEW name \in DOMAIN checks
        PROVE  checks[name]
    <2>1. <<name, checks[name]>> \in CoreChecks
      BY DEF CoreChecks
    <2>. QED BY <2>1 DEF AllPass
  <1>2. /\ TrackRecordChecks["profit_factor"] /\ TrackRecordChecks["sharpe"]
        /\ TrackRecordChecks["max_drawdown_pct"]
    <2>1. {"profit_factor", "sharpe", "max_drawdown_pct"} \subseteq DOMAIN TrackRecordChecks
      BY DEF TrackRecordChecks
    <2>. QED BY <1>1, <2>1
  <1>3. QualityChecks["test_coverage_pct"]
    <2>1. "test_coverage_pct" \in DOMAIN QualityChecks
      BY DEF QualityChecks
    <2>. QED BY <1>1, <2>1
  <1>4. \A f \in config.required : FlagChecks[f]
    <2>1. DOMAIN FlagChecks = config.required
      BY DEF FlagChecks
    <2>. QED BY <1>1, <2>1
  <1>5. \A reading \in Optional : world[reading] # Unmeasured
    BY <1>2, <1>3 DEF TrackRecordChecks, QualityChecks, AtLeast, AtMost, Optional, Unmeasured
  <1>6. \A f \in config.required : world.flags[f] # Unmeasured
    BY <1>4 DEF FlagChecks, RequiredFlag, Unmeasured
  <1>. QED BY <1>5, <1>6

LEMMA GuardsStart ==
    ASSUME GuardInit
    PROVE  GuardInv
  <1>1. GuardShapes
    <2>1. IsFiniteSet({}) /\ Cardinality({}) = 0 /\ 0 <= MaxGrants /\ 0 \in 0..Hours
      BY FS_EmptySet, GuardAssumption
    <2>2. /\ hour = 0 /\ config \in Configs /\ world \in Worlds /\ killed = FALSE /\ revoked = FALSE
          /\ errors = 0 /\ report = {} /\ approval = {} /\ approvalFile = {} /\ grants = {}
      BY DEF GuardInit, NotEvaluated
    <2>. QED BY <2>1, <2>2 DEF GuardShapes, AtMostOne
  <1>2. Recovering
    BY GuardAssumption DEF GuardInit, Recovering, OffDuty
  <1>3. ReasonsAreNewer /\ ApprovalBinds /\ FailsClosed
    BY GuardAssumption
    DEF GuardInit, ReasonsAreNewer, ApprovalBinds, FailsClosed, NotEvaluated
  <1>. QED BY <1>1, <1>2, <1>3 DEF GuardInv, RevokedInMemory, GuardInit

(* The answer to a report does not change while what it is made of stands.   *)
LEMMA SameAnswer ==
    ASSUME UNCHANGED <<hour, config, world, killed, safe>>
    PROVE  AllPass' = AllPass /\ ReportHash' = ReportHash
  BY DEF AllPass, CoreChecks, ReportHash, SettingChecks, TrackRecordChecks, QualityChecks,
         FlagChecks, AtLeast, AtMost, RequiredFlag

LEMMA EvaluateKeeps ==
    ASSUME GuardInv, GuardNext, EvaluateGate
    PROVE  GuardInv'
  <1>0. /\ GuardShapes /\ Recovering /\ ReasonsAreNewer /\ RevokedInMemory
        /\ ApprovalBinds /\ FailsClosed
    BY DEF GuardInv
  <1>1. /\ report' = {Evaluated}
        /\ UNCHANGED <<hour, config, world, killed, safe, errors, approval,
                       approvalFile, grants, revoked, calm>>
    BY DEF EvaluateGate
  <1>2. /\ Evaluated.approved = PassesNow /\ Evaluated.hash = ReportHash
        /\ Evaluated.at = hour /\ Evaluated.seen = world
    BY DEF Evaluated
  <1>3. PassesNow \in BOOLEAN /\ (PassesNow => AllPass)
    BY DEF PassesNow, AllPass
  <1>4. PassesNow' = PassesNow
    <2>1. AllPass' = AllPass /\ ReportHash' = ReportHash
      BY <1>1, SameAnswer
    <2>2. \A a : ValidFor(a, ReportHash)' = ValidFor(a, ReportHash)
      BY <1>1, <2>1 DEF ValidFor
    <2>. QED BY <1>1, <2>1, <2>2 DEF PassesNow, AllPass
  <1>5. refusing' \subseteq 0..hour /\ (PassesNow => refusing' = {})
    <2>1. /\ refusing' \in {{}, refusing, {hour'}}
          /\ (PassesNow' => refusing' = {})
      BY DEF GuardNext
    <2>2. refusing \subseteq 0..hour /\ hour \in 0..hour
      BY <1>0, GuardAssumption DEF ReasonsAreNewer, GuardShapes
    <2>. QED BY <1>1, <1>4, <2>1, <2>2
  <1>6. GuardShapes' /\ Recovering' /\ RevokedInMemory'
    BY <1>0, <1>1, <1>2, <1>3, GuardAssumption
    DEF GuardShapes, Recovering, RevokedInMemory, AtMostOne
  <1>7. ReasonsAreNewer'
    BY <1>1, <1>2, <1>5 DEF ReasonsAreNewer
  <1>8. ApprovalBinds'
    <2> SUFFICES ASSUME PassesNow, ReportHash.criteria.needsApproval
                 PROVE  \E g \in grants : g.hash = ReportHash /\ g.at <= hour /\ hour < g.at + Ttl
      BY <1>1, <1>2 DEF ApprovalBinds
    <2>1. PICK a \in approval : ValidFor(a, ReportHash)
      BY DEF PassesNow, ReportHash
    <2>. QED BY <1>0, <2>1, GuardAssumption DEF GuardShapes, ValidFor
  <1>9. FailsClosed'
    BY <1>1, <1>2, <1>3, PassingIsMeasured DEF FailsClosed, ReportHash
  <1>. QED BY <1>6, <1>7, <1>8, <1>9 DEF GuardInv

LEMMA ApproveKeeps ==
    ASSUME GuardInv, GuardNext, ApproveLive
    PROVE  GuardInv'
  <1>0. /\ GuardShapes /\ Recovering /\ ReasonsAreNewer /\ RevokedInMemory
        /\ ApprovalBinds /\ FailsClosed
    BY DEF GuardInv
  <1> DEFINE r == [Evaluated EXCEPT !.approved = AllPass]
  <1>1. /\ report' = {r} /\ approval' = {Approval} /\ grants' = grants \cup {Approval}
        /\ approvalFile' \in {{Approval}, approvalFile, {}} /\ revoked' = FALSE
        /\ Cardinality(grants) < MaxGrants
        /\ UNCHANGED <<hour, config, world, killed, safe, errors, calm>>
    BY DEF ApproveLive, Persisted, AllPass
  <1>2. r.approved = AllPass /\ r.hash = ReportHash /\ r.at = hour /\ r.seen = world
    BY DEF Evaluated
  <1> HIDE DEF r
  <1>3. Approval.hash = ReportHash /\ Approval.at = hour
    BY DEF Approval
  <1>4. AllPass \in BOOLEAN /\ hour \in 0..Hours /\ hour < hour + Ttl
    BY <1>0, GuardAssumption DEF AllPass, GuardShapes
  <1>5. AllPass => PassesNow'
    <2> SUFFICES ASSUME AllPass PROVE PassesNow'
      OBVIOUS
    <2>1. AllPass' /\ ReportHash' = ReportHash
      BY <1>1, SameAnswer
    <2>2. ValidFor(Approval, ReportHash)'
      <3>1. Approval' = Approval
        BY <1>1, <2>1 DEF Approval
      <3>. QED BY <1>1, <1>3, <1>4, <2>1, <3>1 DEF ValidFor
    <2>3. Approval' \in approval'
      BY <1>1, <2>1 DEF Approval
    <2>. QED BY <2>1, <2>2, <2>3 DEF PassesNow, AllPass
  <1>6. refusing' \subseteq 0..hour /\ (AllPass => refusing' = {})
    <2>1. /\ refusing' \in {{}, refusing, {hour'}}
          /\ (PassesNow' => refusing' = {})
      BY DEF GuardNext
    <2>2. refusing \subseteq 0..hour /\ hour \in 0..hour
      BY <1>0, GuardAssumption DEF ReasonsAreNewer, GuardShapes
    <2>. QED BY <1>1, <1>5, <2>1, <2>2
  <1>7. IsFiniteSet(grants') /\ Cardinality(grants') <= MaxGrants
    <2>1. IsFiniteSet(grants) /\ Cardinality(grants) \in Nat
      BY <1>0, FS_CardinalityType DEF GuardShapes
    <2>2. /\ IsFiniteSet(grants \cup {Approval})
          /\ Cardinality(grants \cup {Approval}) \in {Cardinality(grants), Cardinality(grants) + 1}
      BY <2>1, FS_AddElement
    <2>. QED BY <1>1, <2>1, <2>2, GuardAssumption
  <1>8. GuardShapes'
    <2>1. AtMostOne(report') /\ AtMostOne(approval') /\ AtMostOne(approvalFile')
      BY <1>0, <1>1 DEF AtMostOne, GuardShapes
    <2>2. \A g \in grants' : g.at \in 0..hour
      BY <1>0, <1>1, <1>3, GuardAssumption DEF GuardShapes
    <2>3. \A x \in report' : x.approved \in BOOLEAN /\ x.at \in 0..hour /\ x.seen \in Worlds
      BY <1>0, <1>1, <1>2, <1>4, GuardAssumption DEF GuardShapes
    <2>. QED BY <1>0, <1>1, <1>7, <2>1, <2>2, <2>3 DEF GuardShapes
  <1>9. Recovering' /\ RevokedInMemory' /\ ReasonsAreNewer'
    BY <1>0, <1>1, <1>2, <1>6 DEF Recovering, RevokedInMemory, ReasonsAreNewer
  <1>10. ApprovalBinds'
    BY <1>1, <1>2, <1>3, <1>4 DEF ApprovalBinds
  <1>11. FailsClosed'
    BY <1>1, <1>2, PassingIsMeasured DEF FailsClosed, ReportHash
  <1>. QED BY <1>8, <1>9, <1>10, <1>11 DEF GuardInv

(* The last report stands, or is forgotten.                                  *)
LEMMA ReportStands ==
    ASSUME GuardInv, GuardNext, report' \in {report, {}}, UNCHANGED grants,
           hour' \in {hour, hour + 1}, hour' <= Hours,
           config' \in Configs, world' \in Worlds, killed' \in BOOLEAN, revoked' \in BOOLEAN,
           errors' \in {0, ErrorsShown}, Recovering', RevokedInMemory',
           approval' \in {approval, approvalFile, {}}, approvalFile' \in {approvalFile, {}}
    PROVE  GuardInv'
  <1>0. /\ GuardShapes /\ Recovering /\ ReasonsAreNewer /\ RevokedInMemory
        /\ ApprovalBinds /\ FailsClosed
    BY DEF GuardInv
  <1>1. hour \in 0..hour' /\ hour' \in 0..Hours /\ 0..hour \subseteq 0..hour' /\ hour' \in 0..hour'
    BY <1>0, GuardAssumption DEF GuardShapes
  <1>2. GuardShapes'
    <2>1. AtMostOne(report') /\ AtMostOne(approval') /\ AtMostOne(approvalFile')
      BY <1>0 DEF AtMostOne, GuardShapes
    <2>2. /\ \A g \in grants : g.at \in 0..hour'
          /\ \A r \in report : r.approved \in BOOLEAN /\ r.at \in 0..hour' /\ r.seen \in Worlds
      BY <1>0, <1>1 DEF GuardShapes
    <2>3. approval' \subseteq grants /\ approvalFile' \subseteq grants
      BY <1>0 DEF GuardShapes
    <2>. QED BY <1>0, <1>1, <2>1, <2>2, <2>3 DEF GuardShapes
  <1>3. ReasonsAreNewer'
    <2>1. refusing' \in {{}, refusing, {hour'}}
      BY DEF GuardNext
    <2>2. \A r \in report : r.at <= hour'
      BY <1>0, <1>1, GuardAssumption DEF GuardShapes
    <2>. QED BY <1>0, <1>1, <2>1, <2>2 DEF ReasonsAreNewer
  <1>4. ApprovalBinds' /\ FailsClosed'
    BY <1>0 DEF ApprovalBinds, FailsClosed
  <1>. QED BY <1>2, <1>3, <1>4 DEF GuardInv

LEMMA ObservedKeeps ==
    ASSUME GuardInv, NEW apiOk, Observed(apiOk)
    PROVE  /\ Recovering'
           /\ safe.active /\ ~safe'.active => calm' >= Thresholds.cycles
  <1> DEFINE b == Breached(apiOk)
  <1>0. Recovering
    BY DEF GuardInv
  <1>1. /\ safe' = safe \/ safe' = SafeAfter(b)
        /\ calm' = IF b \/ ~safe.active THEN 0 ELSE calm + 1
        /\ ~Thresholds.enabled => safe' = safe
        /\ Thresholds.enabled => safe' = SafeAfter(b)
    BY DEF Observed
  <1> HIDE DEF b
  <1>2. Recovering /\ Recovering' /\ (safe.active /\ ~safe'.active => calm' >= Thresholds.cycles)
    <2>1. CASE b
      <3>1. calm' = 0
        BY <2>1, <1>1
      <3>2. CASE safe' = safe /\ ~Thresholds.enabled
        BY <3>1, <3>2, <1>0, GuardAssumption DEF Recovering
      <3>3. CASE safe' = [active |-> TRUE, streak |-> 0] /\ Thresholds.enabled
        BY <3>1, <3>3, <1>0, GuardAssumption DEF Recovering
      <3>. QED BY <2>1, <3>2, <3>3, <1>1 DEF SafeAfter
    <2>2. CASE ~b /\ ~safe.active
      BY <2>2, <1>0, <1>1, GuardAssumption DEF Recovering, SafeAfter
    <2>3. CASE ~b /\ safe.active
      <3>1. /\ Thresholds.enabled /\ calm' = calm + 1
            /\ safe' = [active |-> safe.streak + 1 < Thresholds.cycles, streak |-> safe.streak + 1]
        BY <2>3, <1>0, <1>1 DEF Recovering, SafeAfter
      <3>2. safe'.streak = safe.streak + 1
        BY <3>1
      <3>3. safe'.active \in BOOLEAN /\ (safe'.active <=> safe.streak + 1 < Thresholds.cycles)
        <4> DEFINE more == safe.streak + 1 < Thresholds.cycles
        <4>1. safe' = [active |-> more, streak |-> safe.streak + 1] /\ more \in BOOLEAN
          BY <3>1
        <4> HIDE DEF more
        <4>2. safe'.active = more
          BY <4>1
        <4>3. safe'.active \in BOOLEAN /\ (safe'.active <=> more)
          BY <4>1, <4>2, Zenon
        <4>. QED BY <4>3 DEF more
      <3>4. safe.streak + 1 \in 0..Thresholds.cycles /\ calm = safe.streak
        BY <2>3, <1>0, GuardAssumption DEF Recovering
      <3>5. ~safe'.active => safe.streak + 1 >= Thresholds.cycles
        BY <3>3, <3>4, GuardAssumption
      <3>. QED BY <1>0, <3>1, <3>2, <3>3, <3>4, <3>5 DEF Recovering
    <2>. QED BY <2>1, <2>2, <2>3
  <1>. QED BY <1>2

LEMMA GuardSteps ==
    ASSUME GuardInv, GuardNext \/ UNCHANGED guardVars
    PROVE  GuardInv'
  <1>0. /\ GuardShapes /\ Recovering /\ ReasonsAreNewer /\ RevokedInMemory
        /\ ApprovalBinds /\ FailsClosed
    BY DEF GuardInv
  <1>1. CASE GuardNext /\ (HourPasses \/ WorldChanges \/ ErrorsLogged \/ EngageKill
                             \/ CheckScheduled \/ ReleaseKill)
    <2>0. hour \in 0..Hours /\ Hours \in Nat
      BY <1>0, GuardAssumption DEF GuardShapes
    <2>1. /\ UNCHANGED <<config, safe, report, approval, approvalFile, grants, revoked, calm>>
          /\ hour' \in {hour, hour + 1} /\ hour' <= Hours
          /\ world' \in Worlds /\ killed' \in BOOLEAN /\ errors' \in {0, ErrorsShown}
      <3>1. CASE HourPasses
        BY <1>0, <2>0, <3>1 DEF GuardShapes, HourPasses
      <3>2. CASE WorldChanges \/ ErrorsLogged
        BY <1>0, <2>0, <3>2 DEF GuardShapes, WorldChanges, ErrorsLogged
      <3>3. CASE EngageKill \/ CheckScheduled \/ ReleaseKill
        <4>1. killed' \in BOOLEAN
          BY <3>3 DEF EngageKill, CheckScheduled, ReleaseKill
        <4>2. UNCHANGED <<hour, config, world, safe, errors, report, approval, approvalFile,
                          grants, revoked, calm>>
          BY <3>3 DEF EngageKill, CheckScheduled, ReleaseKill
        <4>. QED BY <1>0, <2>0, <4>1, <4>2 DEF GuardShapes
      <3>. QED BY <1>1, <3>1, <3>2, <3>3
    <2>2. Recovering' /\ RevokedInMemory' /\ config' \in Configs /\ revoked' \in BOOLEAN
      BY <1>0, <2>1 DEF Recovering, RevokedInMemory, GuardShapes
    <2>. QED BY <1>1, <2>1, <2>2, ReportStands
  <1>2. CASE GuardNext /\ (WatchSafeMode \/ ForceSafeMode)
    <2>1. /\ UNCHANGED <<hour, config, world, killed, errors, report, approval, approvalFile,
                         grants, revoked>>
          /\ Recovering'
      BY <1>2, ObservedKeeps DEF WatchSafeMode, ForceSafeMode
    <2>2. /\ RevokedInMemory' /\ config' \in Configs /\ world' \in Worlds /\ killed' \in BOOLEAN
          /\ revoked' \in BOOLEAN /\ errors' \in {0, ErrorsShown} /\ hour' <= Hours
      BY <1>0, <2>1, GuardAssumption DEF RevokedInMemory, GuardShapes
    <2>. QED BY <1>2, <2>1, <2>2, ReportStands
  <1>3. CASE GuardNext /\ DisableLive
    <2>1. /\ UNCHANGED <<hour, config, world, killed, safe, errors, report, grants, calm>>
          /\ approval' = {} /\ approvalFile' \in {approvalFile, {}} /\ revoked' = TRUE
      BY <1>3 DEF DisableLive, ApprovalDropped
    <2>2. /\ Recovering' /\ RevokedInMemory' /\ config' \in Configs /\ world' \in Worlds
          /\ killed' \in BOOLEAN /\ errors' \in {0, ErrorsShown} /\ hour' <= Hours
      BY <1>0, <2>1, GuardAssumption DEF Recovering, RevokedInMemory, GuardShapes
    <2>. QED BY <1>3, <2>1, <2>2, ReportStands
  <1>4. CASE GuardNext /\ RestartGuards
    <2>1. /\ UNCHANGED <<hour, world, killed, approvalFile, grants, revoked>>
          /\ config' \in Configs /\ approval' = approvalFile /\ report' = {}
          /\ errors' = 0 /\ safe' = OffDuty /\ calm' = 0
      BY <1>4 DEF RestartGuards, NotEvaluated
    <2>2. /\ Recovering' /\ RevokedInMemory' /\ world' \in Worlds /\ hour' <= Hours
          /\ killed' \in BOOLEAN /\ revoked' \in BOOLEAN
      BY <1>0, <2>1, GuardAssumption DEF Recovering, RevokedInMemory, GuardShapes, OffDuty
    <2>. QED BY <1>4, <2>1, <2>2, ReportStands
  <1>5. CASE UNCHANGED guardVars
    BY <1>0, <1>5
    DEF guardVars, GuardInv, GuardShapes, Recovering, ReasonsAreNewer, RevokedInMemory,
        ApprovalBinds, FailsClosed
  <1>. QED
    BY <1>1, <1>2, <1>3, <1>4, <1>5, EvaluateKeeps, ApproveKeeps DEF GuardNext, GuardStep

LEMMA GuardPromises ==
    ASSUME GuardInv
    PROVE  GuardTypeOK /\ FailsClosed /\ ApprovalBinds /\ RevocationIsFinal /\ LiveLapses
  <1>0. /\ GuardShapes /\ Recovering /\ ReasonsAreNewer /\ RevokedInMemory
        /\ ApprovalBinds /\ FailsClosed
    BY DEF GuardInv
  <1>1. Cardinality(report) <= 1 /\ Cardinality(approval) <= 1
    <2>1. \A S : AtMostOne(S) => Cardinality(S) <= 1
      BY FS_EmptySet, FS_Singleton DEF AtMostOne
    <2>. QED BY <1>0, <2>1 DEF GuardShapes
  <1>2. GuardTypeOK
    BY <1>0, <1>1 DEF GuardTypeOK, GuardShapes, Recovering
  <1>3. RevocationIsFinal
    BY <1>0 DEF RevocationIsFinal, RevokedInMemory, PassesNow
  <1>4. LiveLapses
    BY <1>0, GuardAssumption DEF LiveLapses, Live, Counts, ReasonsAreNewer, GuardShapes
  <1>. QED BY <1>0, <1>2, <1>3, <1>4

(* What one step may not do to Safe Mode.                                    *)
LEMMA SafeModeIsEarned ==
    ASSUME GuardInv, GuardNext \/ UNCHANGED guardVars
    PROVE  /\ safe.active /\ ~safe'.active => calm' >= Thresholds.cycles \/ RestartGuards
           /\ safe.active /\ Thresholds.errors > 0 /\ errors >= Thresholds.errors
                => safe'.active \/ RestartGuards
  <1>1. CASE WatchSafeMode \/ ForceSafeMode
    <2>1. PICK apiOk \in {Unmeasured, {FALSE}} : Observed(apiOk)
      BY <1>1 DEF WatchSafeMode, ForceSafeMode
    <2>2. Thresholds.errors > 0 /\ errors >= Thresholds.errors => Breached(apiOk)
      BY DEF Breached
    <2>3. Breached(apiOk) => safe' = safe \/ safe' = [active |-> TRUE, streak |-> 0]
      BY <2>1 DEF Observed, SafeAfter
    <2>. QED BY <2>1, <2>2, <2>3, ObservedKeeps
  <1>2. CASE safe' = safe \/ RestartGuards
    BY <1>2
  <1>. QED
    BY <1>1, <1>2
    DEF GuardNext, GuardStep, guardVars, HourPasses, WorldChanges, ErrorsLogged, EvaluateGate,
        ApproveLive, DisableLive, EngageKill, CheckScheduled, ReleaseKill

-----------------------------------------------------------------------------
(* The research laboratory: what is filed of a candidate was earned, and is  *)
(* about a genome whose evaluation is on file too.                           *)

WellEarned(card) ==
    card \in Cards /\ (card.status = "promoted" => card.paper = "matured" /\ card.promotion = "approved")
Filed(cards, n, log) ==
    /\ DOMAIN cards \subseteq 1..n /\ DOMAIN cards \subseteq log
    /\ \A g \in DOMAIN cards : WellEarned(cards[g])

ResearchInv ==
    /\ labState \in {"up", "down", "barred"} /\ day \in 0..MaxDays /\ made \in 0..MaxGenomes
    /\ Filed(book, made, knownLog) /\ Filed(bookLog, made, knownLog)
    /\ known \subseteq 1..made /\ knownLog \subseteq 1..made /\ DOMAIN trials \subseteq 1..made
    /\ halfLine \in BOOLEAN /\ unwritten \in BOOLEAN
    /\ RestartRemembers

LEMMA CardFiled ==
    ASSUME NEW cards, NEW n, NEW log, Filed(cards, n, log), NEW g \in DOMAIN cards, NEW card,
           WellEarned(card)
    PROVE  Filed(WithCard(cards, g, card), n, log)
  BY DEF Filed, WithCard

LEMMA BatchFiled ==
    ASSUME NEW cards, NEW n \in Nat, NEW m \in Nat, n <= m, NEW log, NEW longer,
           log \subseteq longer, Filed(cards, n, log),
           NEW genomes, genomes \subseteq 1..m, genomes \subseteq longer
    PROVE  Filed(WithNew(cards, genomes), m, longer) /\ Filed(cards, m, longer)
  <1>1. WellEarned(NewCard)
    BY DEF WellEarned, NewCard, Cards
  <1>2. 1..n \subseteq 1..m
    OBVIOUS
  <1>. QED BY <1>1, <1>2 DEF Filed, WithNew

LEMMA NothingFiled == DOMAIN <<>> = {}
  OBVIOUS

LEMMA ResearchStarts == ResearchInit => ResearchInv
  <1> SUFFICES ASSUME ResearchInit PROVE ResearchInv
    OBVIOUS
  <1>1. DOMAIN book = {} /\ DOMAIN bookLog = {} /\ DOMAIN trials = {}
    BY NothingFiled DEF ResearchInit
  <1>2. Filed(book, made, knownLog) /\ Filed(bookLog, made, knownLog)
    BY <1>1 DEF Filed
  <1>3. 0 \in 0..MaxDays /\ 0 \in 0..MaxGenomes
    BY ResearchAssumption
  <1>. QED BY <1>1, <1>2, <1>3 DEF ResearchInit, ResearchInv, RestartRemembers

(* A cycle gains whole genomes: the ones of its batch, or the first of them. *)
LEMMA BatchFits ==
    ASSUME ResearchInv, NEW n \in Fitting
    PROVE  /\ made \in Nat /\ made + n \in Nat /\ made <= made + n /\ made + n \in 0..MaxGenomes
           /\ Batch(n) \subseteq 1..(made + n) /\ 1..made \subseteq 1..(made + n)
  <1>1. made \in Nat /\ n \in Nat /\ made + n <= MaxGenomes /\ MaxGenomes \in Nat
    BY ResearchAssumption DEF ResearchInv, Fitting
  <1>. QED BY <1>1 DEF Batch

LEMMA CycleKeeps ==
    ASSUME ResearchInv, RunGenerationCycle
    PROVE  ResearchInv'
  <1>1. PICK n \in Fitting :
          /\ made' = made + n
          /\ \/ UNCHANGED <<book, bookLog, known, knownLog>>
             \/ \E shortfalls \in [Batch(n) -> SUBSET Stages] :
                  LET passed == {g \in Batch(n) : Passed(shortfalls[g])}
                  IN  /\ RecordKnowledge(Batch(n))
                      /\ book' = WithNew(book, passed)
                      /\ bookLog' = WithNew(bookLog, passed)
    BY DEF RunGenerationCycle
  <1>2. /\ labState = "up" /\ UNCHANGED <<labState, day, trials, halfLine, unwritten>>
    BY DEF RunGenerationCycle
  <1>3. /\ made \in Nat /\ made' \in Nat /\ made <= made' /\ made' \in 0..MaxGenomes
        /\ Batch(n) \subseteq 1..made' /\ 1..made \subseteq 1..made'
    BY <1>1, BatchFits
  <1>4. /\ Filed(book, made, knownLog) /\ Filed(bookLog, made, knownLog)
        /\ known \subseteq 1..made /\ knownLog \subseteq 1..made /\ DOMAIN trials \subseteq 1..made
        /\ day \in 0..MaxDays /\ halfLine \in BOOLEAN /\ unwritten \in BOOLEAN
        /\ (~unwritten => book = bookLog /\ known = knownLog)
    BY <1>2 DEF ResearchInv, RestartRemembers
  <1>5. CASE UNCHANGED <<book, bookLog, known, knownLog>>
    <2>1. Filed(book', made', knownLog') /\ Filed(bookLog', made', knownLog')
      <3>1. {} \subseteq 1..made' /\ {} \subseteq knownLog
        OBVIOUS
      <3>. QED BY <1>3, <1>4, <1>5, <3>1, BatchFiled
    <2>. QED BY <1>2, <1>3, <1>4, <1>5, <2>1 DEF ResearchInv, RestartRemembers
  <1>6. ASSUME NEW shortfalls \in [Batch(n) -> SUBSET Stages],
               RecordKnowledge(Batch(n)),
               book' = WithNew(book, {g \in Batch(n) : Passed(shortfalls[g])}),
               bookLog' = WithNew(bookLog, {g \in Batch(n) : Passed(shortfalls[g])})
        PROVE  ResearchInv'
    <2> DEFINE passed == {g \in Batch(n) : Passed(shortfalls[g])}
    <2>1. passed \subseteq Batch(n) /\ book' = WithNew(book, passed) /\ bookLog' = WithNew(bookLog, passed)
      BY <1>6
    <2>2. known' = known \cup Batch(n) /\ knownLog' = knownLog \cup Batch(n)
      BY <1>6 DEF RecordKnowledge
    <2> HIDE DEF passed
    <2>3. passed \subseteq 1..made' /\ passed \subseteq knownLog' /\ knownLog \subseteq knownLog'
      BY <1>3, <2>1, <2>2
    <2>4. Filed(book', made', knownLog') /\ Filed(bookLog', made', knownLog')
      BY <1>3, <1>4, <2>1, <2>3, BatchFiled
    <2>. QED BY <1>2, <1>3, <1>4, <2>1, <2>2, <2>4 DEF ResearchInv, RestartRemembers
  <1>. QED BY <1>1, <1>5, <1>6

LEMMA CutKeeps ==
    ASSUME ResearchInv, CycleCut
    PROVE  ResearchInv'
  <1>1. PICK n \in Fitting : \E passed \in SUBSET Batch(n), at \in Batch(n), learnt \in BOOLEAN :
          made' = made + n /\ LinesWritten(n, passed, at, learnt)
    BY DEF CycleCut
  <1>2. PICK passed \in SUBSET Batch(n), at \in Batch(n), learnt \in BOOLEAN :
          made' = made + n /\ LinesWritten(n, passed, at, learnt)
    BY <1>1
  <1>3. /\ made \in Nat /\ made' \in Nat /\ made <= made' /\ made' \in 0..MaxGenomes
        /\ Batch(n) \subseteq 1..made' /\ 1..made \subseteq 1..made'
    BY <1>2, BatchFits
  <1>4. /\ Filed(book, made, knownLog) /\ Filed(bookLog, made, knownLog)
        /\ known \subseteq 1..made /\ knownLog \subseteq 1..made /\ DOMAIN trials \subseteq 1..made
        /\ day \in 0..MaxDays /\ unwritten \in BOOLEAN
        /\ labState' = "down" /\ halfLine' \in BOOLEAN /\ UNCHANGED <<day, book, known, trials, unwritten>>
    BY DEF ResearchInv, CycleCut
  <1> DEFINE learned == Done(at, n) \cup (IF learnt THEN {at} ELSE {})
             gained == Done(at, n) \cap passed
  <1>5. /\ knownLog' = knownLog \cup learned /\ bookLog' = WithNew(bookLog, gained)
        /\ learned \subseteq Batch(n) /\ gained \subseteq Batch(n) /\ gained \subseteq learned
    BY <1>2 DEF LinesWritten, Done
  <1> HIDE DEF learned, gained
  <1>6. gained \subseteq 1..made' /\ gained \subseteq knownLog' /\ knownLog \subseteq knownLog'
    BY <1>3, <1>5
  <1>7. Filed(book', made', knownLog') /\ Filed(bookLog', made', knownLog')
    BY <1>3, <1>4, <1>5, <1>6, BatchFiled
  <1>. QED BY <1>3, <1>4, <1>5, <1>7 DEF ResearchInv, RestartRemembers

(* A card that is filed again, in memory and perhaps in the log.             *)
LEMMA FilingKeeps ==
    ASSUME ResearchInv, labState = "up", NEW g \in DOMAIN book, NEW card, WellEarned(card),
           FileCandidate(g, card),
           UNCHANGED <<labState, day, made, known, knownLog, trials, halfLine>>
    PROVE  ResearchInv'
  <1>1. /\ Filed(book, made, knownLog) /\ Filed(bookLog, made, knownLog)
        /\ unwritten \in BOOLEAN
        /\ (~unwritten => book = bookLog /\ known = knownLog)
    BY DEF ResearchInv, RestartRemembers
  <1>2. Filed(book', made, knownLog)
    BY <1>1, CardFiled DEF FileCandidate
  <1>3. CASE bookLog' = WithCard(bookLog, g, card) /\ UNCHANGED unwritten
    <2>1. g \in 1..made /\ g \in knownLog
      BY <1>1 DEF Filed
    <2>2. Filed(bookLog', made, knownLog)
      BY <1>1, <1>3, <2>1 DEF Filed, WithCard
    <2>. QED BY <1>1, <1>2, <1>3, <2>2 DEF ResearchInv, RestartRemembers, FileCandidate
  <1>4. CASE unwritten' = TRUE /\ UNCHANGED bookLog
    BY <1>1, <1>2, <1>4 DEF ResearchInv, RestartRemembers
  <1>. QED BY <1>3, <1>4 DEF FileCandidate

(* A promotion was earned, and a paper update or a rejection promotes nothing.*)
LEMMA JudgedWell ==
    ASSUME NEW card \in Cards, NEW yes \in BOOLEAN
    PROVE  /\ WellEarned(WithPaper(card, yes))
           /\ WellEarned([card EXCEPT !.status = "rejected"])
           /\ \A steady, better, approved \in BOOLEAN :
                WellEarned(WithPromotion(card, Earned(card, steady, better, approved)))
  <1>1. /\ WellEarned(WithPaper(card, yes))
        /\ WellEarned([card EXCEPT !.status = "rejected"])
    BY DEF WellEarned, WithPaper, Cards
  <1>2. card.paper = "matured" => WellEarned(WithPromotion(card, TRUE))
    BY DEF WellEarned, WithPromotion, Cards
  <1>3. WellEarned(WithPromotion(card, FALSE))
    BY DEF WellEarned, WithPromotion, Cards
  <1>4. ASSUME NEW steady \in BOOLEAN, NEW better \in BOOLEAN, NEW approved \in BOOLEAN
        PROVE  WellEarned(WithPromotion(card, Earned(card, steady, better, approved)))
    <2>1. CASE Earned(card, steady, better, approved)
      <3>1. card.paper = "matured" /\ Earned(card, steady, better, approved) = TRUE
        BY <2>1 DEF Earned
      <3>. QED BY <1>2, <3>1
    <2>2. CASE ~Earned(card, steady, better, approved)
      <3>1. Earned(card, steady, better, approved) = FALSE
        BY <2>2 DEF Earned
      <3>. QED BY <1>3, <3>1
    <2>. QED BY <2>1, <2>2
  <1>. QED BY <1>1, <1>4

LEMMA ResearchSteps ==
    ASSUME ResearchInv, ResearchNext \/ UNCHANGED researchVars
    PROVE  ResearchInv'
  <1>0. /\ labState \in {"up", "down", "barred"} /\ day \in 0..MaxDays /\ made \in 0..MaxGenomes
        /\ Filed(book, made, knownLog) /\ Filed(bookLog, made, knownLog)
        /\ known \subseteq 1..made /\ knownLog \subseteq 1..made /\ DOMAIN trials \subseteq 1..made
        /\ halfLine \in BOOLEAN /\ unwritten \in BOOLEAN /\ RestartRemembers
        /\ MaxDays \in Nat
    BY ResearchAssumption DEF ResearchInv
  <1>1. CASE DayPasses
    BY <1>0, <1>1 DEF DayPasses, ResearchInv, RestartRemembers
  <1>2. ASSUME NEW g \in 1..made, StartPaper(g) PROVE ResearchInv'
    BY <1>0, <1>2 DEF StartPaper, ResearchInv, RestartRemembers
  <1>3. ASSUME NEW g \in 1..made, UpdatePaper(g) PROVE ResearchInv'
    <2>1. CASE g \in DOMAIN book
      <3>1. PICK fit \in BOOLEAN : FileCandidate(g, WithPaper(book[g], Matured(g, fit)))
        BY <1>3, <2>1 DEF UpdatePaper
      <3>2. Matured(g, fit) \in BOOLEAN /\ book[g] \in Cards
        BY <1>0, <2>1 DEF Matured, Filed, WellEarned
      <3>3. WellEarned(WithPaper(book[g], Matured(g, fit)))
        BY <3>2, JudgedWell
      <3>. QED BY <1>3, <2>1, <3>1, <3>3, FilingKeeps DEF UpdatePaper
    <2>2. CASE g \notin DOMAIN book
      BY <1>0, <1>3, <2>2 DEF UpdatePaper, ResearchInv, RestartRemembers
    <2>. QED BY <2>1, <2>2
  <1>4. ASSUME NEW g \in 1..made, PromoteStrategy(g) PROVE ResearchInv'
    <2>1. g \in DOMAIN book /\ book[g] \in Cards
      BY <1>0, <1>4 DEF PromoteStrategy, Filed, WellEarned
    <2>2. PICK steady \in BOOLEAN, better \in BOOLEAN, approved \in BOOLEAN :
            FileCandidate(g, WithPromotion(book[g], Earned(book[g], steady, better, approved)))
      BY <1>4 DEF PromoteStrategy
    <2>3. WellEarned(WithPromotion(book[g], Earned(book[g], steady, better, approved)))
      BY <2>1, JudgedWell
    <2>. QED BY <1>4, <2>1, <2>2, <2>3, FilingKeeps DEF PromoteStrategy
  <1>5. ASSUME NEW g \in 1..made, RejectStrategy(g) PROVE ResearchInv'
    <2>1. g \in DOMAIN book /\ book[g] \in Cards
      BY <1>0, <1>5 DEF RejectStrategy, Filed, WellEarned
    <2>2. WellEarned([book[g] EXCEPT !.status = "rejected"])
      BY <2>1, JudgedWell
    <2>. QED BY <1>5, <2>1, <2>2, FilingKeeps DEF RejectStrategy
  <1>6. CASE LabCrash \/ UNCHANGED researchVars
    BY <1>0, <1>6 DEF LabCrash, researchVars, ResearchInv, RestartRemembers
  <1>7. CASE LabRestart
    <2>1. CASE halfLine
      BY <1>0, <1>7, <2>1 DEF LabRestart, ResearchInv, RestartRemembers
    <2>2. CASE ~halfLine
      BY <1>0, <1>7, <2>2, NothingFiled
      DEF LabRestart, KnowledgeLoaded, ResearchInv, RestartRemembers
    <2>. QED BY <2>1, <2>2
  <1>. QED
    BY <1>1, <1>2, <1>3, <1>4, <1>5, <1>6, <1>7, CycleKeeps, CutKeeps DEF ResearchNext

LEMMA ResearchPromises ==
    ASSUME ResearchInv
    PROVE  ResearchTypeOK /\ PromotedIsEarned /\ CandidatesAreKnown /\ RestartRemembers
  BY DEF ResearchInv, ResearchTypeOK, PromotedIsEarned, CandidatesAreKnown, Filed, WellEarned

-----------------------------------------------------------------------------
(* The experiments: every version of memory and of the log is well formed,   *)
(* and while no line was missed memory is the log.                           *)

Experiment == [status : {"open", "closed", "archived"}, note : Conclusions, payload : SUBSET Keys]
Versions(table) == \A n \in DOMAIN table : table[n] \in Experiment
ExperimentInv ==
    /\ shop \in {"up", "down", "barred"} /\ tornLine \in BOOLEAN /\ missed \in BOOLEAN
    /\ given \in 0..MaxExperiments
    /\ Versions(experiments) /\ Versions(versions)
    /\ DOMAIN experiments \subseteq 1..given /\ DOMAIN versions \subseteq 1..given
    /\ ~missed => experiments = versions

LEMMA ExperimentsStart == ExperimentsInit => ExperimentInv
  <1> SUFFICES ASSUME ExperimentsInit PROVE ExperimentInv
    OBVIOUS
  <1>1. DOMAIN experiments = {} /\ DOMAIN versions = {} /\ experiments = versions
    BY NothingFiled DEF ExperimentsInit
  <1>2. Versions(experiments) /\ Versions(versions)
    BY <1>1 DEF Versions
  <1>3. 0 \in 0..MaxExperiments
    <2>1. MaxExperiments \in Nat
      BY ExperimentsAssumption
    <2>. QED BY <2>1
  <1>. QED BY <1>1, <1>2, <1>3 DEF ExperimentsInit, ExperimentInv

LEMMA VersionSaved ==
    ASSUME ExperimentInv, NEW n, NEW version \in Experiment, File(n, version),
           given' \in 0..MaxExperiments, n \in 1..given', 1..given \subseteq 1..given'
    PROVE  ExperimentInv'
  <1>0. /\ shop \in {"up", "down", "barred"} /\ tornLine \in BOOLEAN /\ missed \in BOOLEAN
        /\ Versions(experiments) /\ Versions(versions) /\ (~missed => experiments = versions)
        /\ DOMAIN experiments \subseteq 1..given' /\ DOMAIN versions \subseteq 1..given'
        /\ UNCHANGED <<shop, tornLine>> /\ experiments' = Saved(experiments, n, version)
    BY DEF ExperimentInv, File
  <1>1. /\ Versions(Saved(experiments, n, version)) /\ Versions(Saved(versions, n, version))
        /\ DOMAIN Saved(experiments, n, version) \subseteq 1..given'
        /\ DOMAIN Saved(versions, n, version) \subseteq 1..given'
    BY <1>0 DEF Versions, Saved
  <1>2. CASE versions' = Saved(versions, n, version) /\ UNCHANGED missed
    BY <1>0, <1>1, <1>2 DEF ExperimentInv
  <1>3. CASE missed' = TRUE /\ UNCHANGED versions
    BY <1>0, <1>1, <1>3 DEF ExperimentInv
  <1>. QED BY <1>2, <1>3 DEF File

LEMMA ExperimentSteps ==
    ASSUME ExperimentInv, ExperimentsNext \/ UNCHANGED experimentVars
    PROVE  ExperimentInv'
  <1>0. /\ shop \in {"up", "down", "barred"} /\ tornLine \in BOOLEAN /\ missed \in BOOLEAN
        /\ given \in 0..MaxExperiments /\ MaxExperiments \in Nat
        /\ Versions(experiments) /\ Versions(versions) /\ (~missed => experiments = versions)
        /\ "" \in Conclusions
        /\ DOMAIN experiments \subseteq 1..given /\ DOMAIN versions \subseteq 1..given
    BY ExperimentsAssumption DEF ExperimentInv
  <1>1. ASSUME NEW keys \in SUBSET Keys, CreateExperiment(keys) PROVE ExperimentInv'
    <2>1. /\ given' \in 0..MaxExperiments /\ File(given', Open(keys))
          /\ given' \in 1..given' /\ 1..given \subseteq 1..given'
      <3>1. given' = given + 1 /\ given < MaxExperiments /\ given \in 0..MaxExperiments
            /\ MaxExperiments \in Nat
        BY <1>0, <1>1 DEF CreateExperiment
      <3>2. /\ given' \in 0..MaxExperiments
            /\ given' \in 1..given' /\ 1..given \subseteq 1..given'
        BY <3>1
      <3>. QED BY <1>1, <3>2 DEF CreateExperiment
    <2>2. Open(keys) \in Experiment
      BY <1>0 DEF Open, Experiment
    <2>. QED BY <2>1, <2>2, VersionSaved
  <1>2. ASSUME NEW n \in DOMAIN experiments, NEW keys \in SUBSET Keys, UpdatePayload(n, keys)
        PROVE  ExperimentInv'
    <2>1. [experiments[n] EXCEPT !.payload = Merged(@, keys)] \in Experiment
      BY <1>0 DEF Versions, Experiment, Merged
    <2>. QED BY <1>0, <1>2, <2>1, VersionSaved DEF UpdatePayload
  <1>3. ASSUME NEW n \in DOMAIN experiments, NEW status \in {"closed", "archived"},
               NEW note \in Conclusions, Transition(n, status, note)
        PROVE  ExperimentInv'
    <2>1. NoteKept(n, note) \in Conclusions
      BY <1>0 DEF NoteKept, Versions, Experiment
    <2>2. [experiments[n] EXCEPT !.status = status, !.note = NoteKept(n, note)] \in Experiment
      BY <1>0, <2>1 DEF Versions, Experiment
    <2>. QED BY <1>0, <1>3, <2>2, VersionSaved DEF Transition
  <1>4. CASE CrashShop \/ RestartShop \/ UNCHANGED experimentVars
    BY <1>0, <1>4 DEF CrashShop, RestartShop, Read, experimentVars, ExperimentInv
  <1>. QED BY <1>1, <1>2, <1>3, <1>4 DEF ExperimentsNext

LEMMA ExperimentPromises == ExperimentInv => ExperimentsTypeOK
  BY DEF ExperimentInv, ExperimentsTypeOK, Versions, Experiment

(* Nothing an experiment had learnt is lost by one step.                     *)
LEMMA NothingForgotten ==
    ASSUME ExperimentInv, ExperimentsNext \/ UNCHANGED experimentVars, ~missed'
    PROVE  \A n \in DOMAIN experiments :
             /\ experiments[n].note # "" => experiments'[n].note # ""
             /\ experiments[n].payload \subseteq experiments'[n].payload
  <1> SUFFICES ASSUME NEW n \in DOMAIN experiments
               PROVE  /\ experiments[n].note # "" => experiments'[n].note # ""
                      /\ experiments[n].payload \subseteq experiments'[n].payload
    OBVIOUS
  <1>0. /\ experiments[n] \in Experiment /\ (~missed => experiments = versions)
        /\ n \in 1..given /\ given \in Nat
    <2>1. DOMAIN experiments \subseteq 1..given /\ given \in 0..MaxExperiments /\ MaxExperiments \in Nat
          /\ Versions(experiments) /\ (~missed => experiments = versions)
      BY ExperimentsAssumption DEF ExperimentInv
    <2>. QED BY <2>1 DEF Versions
  <1>1. CASE UNCHANGED experiments
    BY <1>1
  <1>2. CASE RestartShop
    BY <1>0, <1>2 DEF RestartShop, Read
  <1>3. ASSUME NEW m, NEW version, experiments' = Saved(experiments, m, version),
               m # n \/ ((experiments[n].note # "" => version.note # "")
                         /\ experiments[n].payload \subseteq version.payload)
        PROVE  /\ experiments[n].note # "" => experiments'[n].note # ""
               /\ experiments[n].payload \subseteq experiments'[n].payload
    BY <1>3 DEF Saved
  <1>4. CASE \E keys \in SUBSET Keys : CreateExperiment(keys)
    <2>1. PICK keys \in SUBSET Keys : CreateExperiment(keys)
      BY <1>4
    <2>2. experiments' = Saved(experiments, given + 1, Open(keys)) /\ given + 1 # n
      BY <1>0, <2>1 DEF CreateExperiment, File
    <2>. QED BY <1>3, <2>2
  <1>5. ASSUME NEW m \in DOMAIN experiments, NEW keys \in SUBSET Keys, UpdatePayload(m, keys)
        PROVE  /\ experiments[n].note # "" => experiments'[n].note # ""
               /\ experiments[n].payload \subseteq experiments'[n].payload
    <2> DEFINE version == [experiments[m] EXCEPT !.payload = Merged(@, keys)]
    <2>1. experiments' = Saved(experiments, m, version)
      BY <1>5 DEF UpdatePayload, File
    <2>2. m # n \/ (version.note = experiments[n].note
                    /\ experiments[n].payload \subseteq version.payload)
      BY <1>0 DEF Experiment, Merged
    <2> HIDE DEF version
    <2>. QED BY <1>3, <2>1, <2>2
  <1>6. ASSUME NEW m \in DOMAIN experiments, NEW status \in {"closed", "archived"},
               NEW note \in Conclusions, Transition(m, status, note)
        PROVE  /\ experiments[n].note # "" => experiments'[n].note # ""
               /\ experiments[n].payload \subseteq experiments'[n].payload
    <2> DEFINE version == [experiments[m] EXCEPT !.status = status, !.note = NoteKept(m, note)]
    <2>1. experiments' = Saved(experiments, m, version)
      BY <1>6 DEF Transition, File
    <2>2. m # n \/ (version.note = NoteKept(n, note) /\ version.payload = experiments[n].payload)
      BY <1>0 DEF Experiment
    <2>3. experiments[n].note # "" => NoteKept(n, note) # ""
      BY DEF NoteKept
    <2> HIDE DEF version
    <2>. QED BY <1>3, <2>1, <2>2, <2>3
  <1>7. CASE CrashShop \/ UNCHANGED experimentVars
    BY <1>1, <1>7 DEF CrashShop, experimentVars
  <1>. QED
    BY <1>2, <1>4, <1>5, <1>6, <1>7 DEF ExperimentsNext

-----------------------------------------------------------------------------
(* The orders: a group is active exactly until one of its orders is filled,  *)
(* and then nothing of it goes on.                                           *)

Order == [asked : Quantities, done : Nat, status : Statuses]
Tally == [filled : Nat, rejected : Nat, cancelled : Nat]

OrderShapes == orders \in Seq(Order) /\ counted \in Tally /\ DOMAIN oco = Groups
Consistent(order) == order.done <= order.asked /\ (order.status = "filled") = (order.done = order.asked)
AllConsistent == \A n \in Orders : Consistent(orders[n])

FilledOf(S) == {n \in S : orders[n].status = "filled"}
GroupStands(g) ==
    oco[g] # <<>> =>
        /\ oco[g] = [members |-> oco[g].members, active |-> oco[g].active]
        /\ oco[g].members \subseteq Orders
        /\ oco[g].active \in BOOLEAN
        /\ oco[g].active => FilledOf(oco[g].members) = {}
        /\ ~oco[g].active => /\ oco[g].members \cap Active = {}
                             /\ \A m, n \in FilledOf(oco[g].members) : m = n
AllStand == \A g \in Groups : GroupStands(g)

OrderInv == OrderShapes /\ AllConsistent /\ CountersAddUp /\ AllStand

LEMMA OrderTypes ==
    ASSUME OrderShapes
    PROVE  /\ Orders = 1..Len(orders) /\ Len(orders) \in Nat
           /\ \A n \in Orders : /\ orders[n] \in Order
                                /\ orders[n].asked \in Nat \ {0} /\ orders[n].asked \in Quantities
                                /\ orders[n].done \in Nat
                                /\ orders[n].status \in Statuses
           /\ IsFiniteSet(Active) /\ Cardinality(Active) \in Nat
           /\ IsFiniteSet(Orders)
  <1>1. orders \in Seq(Order)
    BY DEF OrderShapes
  <1>2. Orders = 1..Len(orders) /\ Len(orders) \in Nat
    BY <1>1 DEF Orders
  <1>3. \A n \in Orders : orders[n] \in Order
    BY <1>1, <1>2
  <1>4. \A n \in Orders : /\ orders[n].asked \in Nat \ {0} /\ orders[n].asked \in Quantities
                          /\ orders[n].done \in Nat /\ orders[n].status \in Statuses
    BY <1>3, OrdersAssumption DEF Order
  <1>5. IsFiniteSet(Orders)
    BY <1>2, FS_Interval
  <1>6. IsFiniteSet(Active) /\ Cardinality(Active) \in Nat
    BY <1>5, FS_Subset, FS_CardinalityType DEF Active
  <1>. QED BY <1>2, <1>3, <1>4, <1>5, <1>6

LEMMA OrdersStart == OrdersInit => OrderInv
  <1> SUFFICES ASSUME OrdersInit PROVE OrderInv
    OBVIOUS
  <1>1. /\ orders = <<>> /\ counted = [filled |-> 0, rejected |-> 0, cancelled |-> 0]
        /\ oco = [g \in Groups |-> <<>>]
    BY DEF OrdersInit
  <1>2. OrderShapes
    BY <1>1 DEF OrderShapes, Tally
  <1>3. Orders = {} /\ Len(orders) = 0
    BY <1>1, NothingFiled DEF Orders
  <1>4. Active = {}
    BY <1>3 DEF Active
  <1>5. CountersAddUp
    <2>1. Cardinality({}) = 0
      BY FS_EmptySet
    <2>. QED BY <1>1, <1>3, <1>4, <2>1 DEF CountersAddUp
  <1>6. AllConsistent
    BY <1>3 DEF AllConsistent
  <1>7. AllStand
    BY <1>1 DEF AllStand, GroupStands
  <1>. QED BY <1>2, <1>5, <1>6, <1>7 DEF OrderInv

(* An order is created beside the others.                                    *)
LEMMA CreateKeeps ==
    ASSUME OrderInv, NEW quantity \in Quantities, CreateOrder(quantity)
    PROVE  OrderInv'
  <1>0. /\ OrderShapes /\ AllConsistent /\ CountersAddUp /\ AllStand
        /\ orders \in Seq(Order) /\ counted \in Tally /\ DOMAIN oco = Groups
    BY DEF OrderInv, OrderShapes
  <1>1. /\ orders' = Append(orders, Requested(quantity)) /\ UNCHANGED <<counted, oco>>
    BY DEF CreateOrder
  <1>2. /\ Orders = 1..Len(orders) /\ Len(orders) \in Nat
        /\ IsFiniteSet(Active) /\ Cardinality(Active) \in Nat
    BY <1>0, OrderTypes
  <1>3. Requested(quantity) \in Order /\ Consistent(Requested(quantity))
        /\ Requested(quantity).status = "pending"
    BY OrdersAssumption DEF Requested, Order, Statuses, Consistent
  <1> DEFINE new == Len(orders) + 1
  <1>4. /\ orders' \in Seq(Order) /\ Len(orders') = new /\ Orders' = Orders \cup {new}
        /\ \A n \in Orders : orders'[n] = orders[n]
        /\ orders'[new] = Requested(quantity) /\ new \notin Orders
    <2>1. /\ orders' \in Seq(Order) /\ Len(orders') = new
          /\ \A n \in 1..Len(orders) : orders'[n] = orders[n]
          /\ orders'[new] = Requested(quantity)
      BY <1>0, <1>1, <1>3
    <2>2. Orders' = 1..new
      BY <2>1 DEF Orders
    <2>. QED BY <1>2, <2>1, <2>2
  <1> HIDE DEF new
  <1>5. Active' = Active \cup {new} /\ new \notin Active
    BY <1>3, <1>4 DEF Active, IsTerminal
  <1>6. CountersAddUp'
    <2>1. Cardinality(Active \cup {new}) = Cardinality(Active) + 1
      BY <1>2, <1>5, FS_AddElement
    <2>2. counted.filled \in Nat /\ counted.rejected \in Nat /\ counted.cancelled \in Nat
      BY <1>0 DEF Tally
    <2>3. Len(orders') = Len(orders) + 1 /\ Cardinality(Active') = Cardinality(Active) + 1
      BY <1>4, <1>5, <2>1 DEF new
    <2>4. Len(orders) = counted.filled + counted.rejected + counted.cancelled + Cardinality(Active)
      BY <1>0 DEF CountersAddUp
    <2>5. counted' = counted
      BY <1>1
    <2>6. Len(orders') = counted'.filled + counted'.rejected + counted'.cancelled + Cardinality(Active')
      <3>1. Len(orders) \in Nat /\ Cardinality(Active) \in Nat
        BY <1>2
      <3>. QED BY <2>2, <2>3, <2>4, <2>5, <3>1, SMTT(30)
    <2>. QED BY <2>6 DEF CountersAddUp
  <1>7. OrderShapes' /\ AllConsistent'
    <2>1. OrderShapes'
      BY <1>0, <1>1, <1>4 DEF OrderShapes
    <2>2. AllConsistent'
      BY <1>0, <1>3, <1>4 DEF AllConsistent
    <2>. QED BY <2>1, <2>2
  <1>8. AllStand'
    <2> SUFFICES ASSUME NEW g \in Groups PROVE GroupStands(g)'
      BY DEF AllStand
    <2>1. GroupStands(g) /\ oco' = oco
      BY <1>0, <1>1 DEF AllStand
    <2>2. ASSUME oco[g] # <<>> PROVE /\ FilledOf(oco[g].members)' = FilledOf(oco[g].members)
                                     /\ oco[g].members \cap Active' = oco[g].members \cap Active
                                     /\ oco[g].members \subseteq Orders'
      <3>1. oco[g].members \subseteq Orders
        BY <2>1, <2>2 DEF GroupStands
      <3>. QED BY <1>4, <1>5, <2>1, <3>1 DEF FilledOf
    <2>. QED BY <2>1, <2>2 DEF GroupStands
  <1>. QED BY <1>6, <1>7, <1>8 DEF OrderInv

(* Counting anew: the orders of `gone' are no longer active.                 *)
LEMMA FewerActive ==
    ASSUME OrderShapes, NEW gone \in SUBSET Active, Active' = Active \ gone
    PROVE  /\ IsFiniteSet(gone) /\ Cardinality(gone) \in Nat
           /\ Cardinality(Active') = Cardinality(Active) - Cardinality(gone)
  <1>1. IsFiniteSet(Active)
    BY OrderTypes
  <1>2. Active \cap gone = gone
    OBVIOUS
  <1>3. IsFiniteSet(gone) /\ Cardinality(gone) \in Nat
    BY <1>1, FS_Subset, FS_CardinalityType
  <1>4. Cardinality(Active \ gone) = Cardinality(Active) - Cardinality(Active \cap gone)
    BY <1>1, FS_Difference
  <1>. QED BY <1>2, <1>3, <1>4

(* An order that ends unfilled: a group of it is still a group.              *)
EndedAs(n, status) ==
    /\ orders' = [orders EXCEPT ![n].status = status]
    /\ UNCHANGED oco

LEMMA EndKeeps ==
    ASSUME OrderInv, NEW n \in Active, NEW status \in {"rejected", "cancelled"}, EndedAs(n, status),
           \/ status = "rejected" /\ counted' = [counted EXCEPT !.rejected = @ + 1]
           \/ status = "cancelled" /\ counted' = [counted EXCEPT !.cancelled = @ + 1]
    PROVE  OrderInv'
  <1>0. /\ OrderShapes /\ AllConsistent /\ CountersAddUp /\ AllStand
        /\ orders \in Seq(Order) /\ counted \in Tally /\ DOMAIN oco = Groups
    BY DEF OrderInv, OrderShapes
  <1>1. /\ Orders = 1..Len(orders) /\ Len(orders) \in Nat /\ n \in Orders
        /\ ~IsTerminal(orders[n].status)
        /\ \A m \in Orders : orders[m] \in Order
        /\ Cardinality(Active) \in Nat
    BY <1>0, OrderTypes DEF Active
  <1> DEFINE ended == [orders[n] EXCEPT !.status = status]
  <1>2. ended \in Order /\ ended.status = status /\ ended.asked = orders[n].asked
        /\ ended.done = orders[n].done
    BY <1>1 DEF Order, Statuses
  <1>3. orders' = [orders EXCEPT ![n] = ended]
    BY DEF EndedAs
  <1> HIDE DEF ended
  <1>4. /\ orders' \in Seq(Order) /\ Len(orders') = Len(orders) /\ Orders' = Orders
        /\ \A m \in Orders : orders'[m] = IF m = n THEN ended ELSE orders[m]
    BY <1>0, <1>1, <1>2, <1>3 DEF Orders
  <1>5. IsTerminal(status) /\ status # "filled"
    BY DEF IsTerminal
  <1>6. Active' = Active \ {n}
    BY <1>1, <1>2, <1>4, <1>5 DEF Active
  <1>7. CountersAddUp' /\ counted' \in Tally
    <2>1. Cardinality(Active') = Cardinality(Active) - 1
      <3>1. Cardinality({n}) = 1
        BY FS_Singleton
      <3>. QED BY <1>0, <1>6, <3>1, FewerActive
    <2>2. /\ counted.filled \in Nat /\ counted.rejected \in Nat /\ counted.cancelled \in Nat
          /\ Len(orders) = counted.filled + counted.rejected + counted.cancelled + Cardinality(Active)
      BY <1>0 DEF Tally, CountersAddUp
    <2>3. /\ counted' \in Tally /\ counted'.filled = counted.filled
          /\ \/ counted'.rejected = counted.rejected + 1 /\ counted'.cancelled = counted.cancelled
             \/ counted'.rejected = counted.rejected /\ counted'.cancelled = counted.cancelled + 1
      BY <1>0 DEF Tally
    <2>4. Len(orders) = counted'.filled + counted'.rejected + counted'.cancelled + Cardinality(Active')
      BY <1>1, <2>1, <2>2, <2>3, SMTT(30)
    <2>. QED BY <1>4, <2>3, <2>4 DEF CountersAddUp
  <1>8. AllConsistent'
    <2>1. Consistent(orders[n])
      BY <1>0, <1>1 DEF AllConsistent
    <2>2. Consistent(ended)
      BY <1>1, <1>2, <1>5, <2>1 DEF Consistent, IsTerminal
    <2>. QED BY <1>0, <1>4, <2>2 DEF AllConsistent
  <1>9. AllStand'
    <2> SUFFICES ASSUME NEW g \in Groups, oco[g] # <<>> PROVE GroupStands(g)'
      BY DEF AllStand, GroupStands, EndedAs
    <2>1. GroupStands(g) /\ oco' = oco /\ oco[g].members \subseteq Orders
      BY <1>0 DEF AllStand, GroupStands, EndedAs
    <2>2. FilledOf(oco[g].members)' = FilledOf(oco[g].members)
      BY <1>1, <1>2, <1>4, <1>5, <2>1 DEF FilledOf, IsTerminal
    <2>. QED BY <1>4, <1>6, <2>1, <2>2 DEF GroupStands
  <1>10. OrderShapes'
    BY <1>0, <1>4, <1>7 DEF OrderShapes, EndedAs
  <1>. QED BY <1>7, <1>8, <1>9, <1>10 DEF OrderInv

(* A group of orders none of which has been filled.                          *)
LEMMA GroupKeeps ==
    ASSUME OrderInv, NEW g \in Groups, NEW members \in SUBSET Orders, CreateOco(g, members)
    PROVE  OrderInv'
  <1>0. /\ OrderShapes /\ AllConsistent /\ CountersAddUp /\ AllStand
        /\ counted \in Tally /\ DOMAIN oco = Groups
    BY DEF OrderInv, OrderShapes
  <1>1. /\ oco' = [oco EXCEPT ![g] = OcoGroup(members)] /\ UNCHANGED <<orders, counted>>
        /\ \A n \in members : orders[n].status = "pending"
    BY DEF CreateOco
  <1>2. OrderShapes' /\ AllConsistent' /\ CountersAddUp' /\ Orders' = Orders /\ Active' = Active
    BY <1>0, <1>1 DEF OrderShapes, AllConsistent, CountersAddUp, Orders, Active
  <1>3. ASSUME NEW h \in Groups PROVE GroupStands(h)'
    <2>1. CASE h = g
      <3>1. oco'[h] = OcoGroup(members)
        BY <1>0, <1>1, <2>1
      <3>2. /\ oco'[h].members = members /\ oco'[h].active = TRUE
            /\ oco'[h] = [members |-> oco'[h].members, active |-> oco'[h].active]
        BY <3>1 DEF OcoGroup
      <3>3. FilledOf(members)' = {}
        BY <1>1 DEF FilledOf
      <3>. QED BY <1>2, <3>2, <3>3 DEF GroupStands
    <2>2. CASE h # g
      <3>1. oco'[h] = oco[h] /\ GroupStands(h)
        BY <1>0, <1>1, <2>2 DEF AllStand
      <3>. QED BY <1>1, <1>2, <3>1 DEF GroupStands, FilledOf
    <2>. QED BY <2>1, <2>2
  <1>. QED BY <1>2, <1>3 DEF OrderInv, AllStand

(* A fill, the last one or not: a last fill leaves every group of the order  *)
(* with that one order filled and nothing else going on.                     *)
LEMMA FillOf ==
    ASSUME NEW order \in Order, Consistent(order), order.status # "filled",
           NEW quantity \in 1..order.asked - order.done
    PROVE  LET filled == WithFill(order, quantity)
           IN  /\ filled \in Order /\ Consistent(filled)
               /\ filled.status \in {"partial", "filled"}
  <1>1. /\ order.asked \in Nat \ {0} /\ order.asked \in Quantities /\ order.done \in Nat
        /\ order.done + quantity \in Nat /\ order.done + quantity <= order.asked
        /\ quantity \in Nat \ {0}
    <2>1. order.asked \in Nat \ {0} /\ order.asked \in Quantities /\ order.done \in Nat
      BY OrdersAssumption DEF Order
    <2>. QED BY <2>1
  <1> DEFINE done == order.done + quantity
             status == IF done >= order.asked THEN "filled" ELSE "partial"
             filled == WithFill(order, quantity)
  <1>2. filled = [order EXCEPT !.done = done, !.status = status]
    BY DEF WithFill
  <1>3. status \in {"partial", "filled"} /\ (status = "filled") = (done = order.asked)
        /\ done \in Nat /\ done <= order.asked
    BY <1>1
  <1> HIDE DEF status, done, filled
  <1>4. /\ filled \in Order /\ filled.done = done /\ filled.status = status
        /\ filled.asked = order.asked
    BY <1>1, <1>2, <1>3 DEF Order, Statuses
  <1>. QED BY <1>3, <1>4 DEF Consistent, filled

LEMMA FillKeeps ==
    ASSUME OrderInv, NEW n \in Orders, NEW quantity \in 1..orders[n].asked - orders[n].done,
           ApplyFill(n, quantity)
    PROVE  OrderInv'
  <1>0. /\ OrderShapes /\ AllConsistent /\ CountersAddUp /\ AllStand
        /\ orders \in Seq(Order) /\ counted \in Tally /\ DOMAIN oco = Groups
    BY DEF OrderInv, OrderShapes
  <1>1. /\ Orders = 1..Len(orders) /\ Len(orders) \in Nat /\ n \in Orders
        /\ \A m \in Orders : orders[m] \in Order
        /\ Cardinality(Active) \in Nat
    BY <1>0, OrderTypes
  <1> DEFINE order == WithFill(orders[n], quantity)
             full == order.status = "filled"
             gone == IF full THEN Cancellable(Siblings(n)) ELSE {}
  <1>2. /\ n \in Active
        /\ orders' = [m \in Orders |->
                            CASE m = n -> order
                              [] m \in gone -> [orders[m] EXCEPT !.status = "cancelled"]
                              [] OTHER -> orders[m]]
        /\ counted' = [counted EXCEPT !.filled = @ + (IF full THEN 1 ELSE 0),
                                      !.cancelled = @ + Cardinality(gone)]
        /\ oco' = IF ~full THEN oco
                  ELSE [g \in Groups |-> IF g \in Hit(n) THEN [oco[g] EXCEPT !.active = FALSE]
                                         ELSE oco[g]]
    BY DEF ApplyFill
  <1>3. ~IsTerminal(orders[n].status)
    BY <1>2 DEF Active
  <1>4. /\ order \in Order /\ Consistent(order) /\ order.status \in {"partial", "filled"}
    BY <1>0, <1>1, <1>3, FillOf DEF AllConsistent, IsTerminal
  <1>5. gone \subseteq Active /\ n \notin gone /\ (full => gone = (Siblings(n) \cap Active))
        /\ (~full => gone = {})
    <2>1. n \notin Siblings(n)
      BY DEF Siblings
    <2>. QED BY <2>1 DEF Cancellable
  <1>6. Active \subseteq Orders
    BY DEF Active
  <1> HIDE DEF order, gone
  <1> DEFINE ended(m) == [orders[m] EXCEPT !.status = "cancelled"]
  <1>7. \A m \in gone : /\ ended(m) \in Order /\ ended(m).status = "cancelled" /\ Consistent(ended(m))
                        /\ orders[m].status # "filled"
    <2> SUFFICES ASSUME NEW m \in gone
                 PROVE  /\ ended(m) \in Order /\ ended(m).status = "cancelled" /\ Consistent(ended(m))
                        /\ orders[m].status # "filled"
      OBVIOUS
    <2>1. orders[m] \in Order /\ Consistent(orders[m]) /\ orders[m].status # "filled"
      BY <1>0, <1>1, <1>5, <1>6 DEF AllConsistent, Active, IsTerminal
    <2>2. /\ ended(m) \in Order /\ ended(m).status = "cancelled"
          /\ ended(m).asked = orders[m].asked /\ ended(m).done = orders[m].done
      BY <2>1 DEF Order, Statuses
    <2>. QED BY <2>1, <2>2 DEF Consistent
  <1>8. \A m \in Orders : /\ m = n => orders'[m] = order
                          /\ m \in gone => orders'[m] = ended(m)
                          /\ m # n /\ m \notin gone => orders'[m] = orders[m]
    BY <1>2, <1>5
  <1> HIDE DEF ended
  <1>9. /\ orders' \in Seq(Order) /\ Len(orders') = Len(orders) /\ Orders' = Orders
    <2>1. \A m \in Orders : orders'[m] \in Order
      BY <1>1, <1>4, <1>7, <1>8
    <2>2. DOMAIN orders' = 1..Len(orders)
      BY <1>1, <1>2
    <2>3. orders' \in [1..Len(orders) -> Order]
      BY <1>1, <1>2, <2>1, <2>2
    <2>4. orders' \in Seq(Order) /\ Len(orders') = Len(orders)
      BY <1>1, <2>3
    <2>. QED BY <1>1, <2>2, <2>4 DEF Orders
  <1>10. AllConsistent'
    BY <1>0, <1>4, <1>7, <1>8, <1>9 DEF AllConsistent
  <1>11. /\ full => Active' = Active \ (gone \cup {n})
         /\ ~full => Active' = Active
    <2>1. order.status # "filled" => order.status = "partial"
      BY <1>4
    <2>2. \A m \in Orders : m \in Active' <=> ~IsTerminal(orders'[m].status)
      BY <1>9 DEF Active
    <2>3. \A m \in Orders : m \in Active <=> ~IsTerminal(orders[m].status)
      BY DEF Active
    <2>4. IsTerminal(order.status) <=> full
      BY <2>1 DEF IsTerminal
    <2>5. \A m \in Orders : /\ m = n => (m \in Active' <=> ~full)
                            /\ m \in gone => m \notin Active'
                            /\ m # n /\ m \notin gone => (m \in Active' <=> m \in Active)
      <3>1. \A m \in gone : IsTerminal(ended(m).status)
        BY <1>7 DEF IsTerminal
      <3>. QED BY <1>5, <1>6, <1>8, <2>2, <2>3, <2>4, <3>1
    <2>6. Active' \subseteq Orders
      BY <1>9 DEF Active
    <2>. QED BY <1>2, <1>5, <1>6, <2>5, <2>6
  <1>12. counted' \in Tally /\ CountersAddUp'
    <2>1. /\ counted.filled \in Nat /\ counted.rejected \in Nat /\ counted.cancelled \in Nat
          /\ Len(orders) = counted.filled + counted.rejected + counted.cancelled + Cardinality(Active)
      BY <1>0 DEF Tally, CountersAddUp
    <2>2. CASE full
      <3>1. Cardinality(Active') = Cardinality(Active) - Cardinality(gone \cup {n})
        BY <1>0, <1>2, <1>5, <1>11, <2>2, FewerActive
      <3>2. IsFiniteSet(gone) /\ Cardinality(gone) \in Nat
        BY <1>0, <1>5, OrderTypes, FS_Subset, FS_CardinalityType
      <3>3. Cardinality(gone \cup {n}) = Cardinality(gone) + 1
        BY <1>5, <3>2, FS_AddElement
      <3>4. /\ counted' \in Tally /\ counted'.filled = counted.filled + 1
            /\ counted'.rejected = counted.rejected
            /\ counted'.cancelled = counted.cancelled + Cardinality(gone)
        <4>1. counted' = [counted EXCEPT !.filled = counted.filled + 1,
                                         !.cancelled = counted.cancelled + Cardinality(gone)]
          BY <1>2, <2>2
        <4>2. counted.filled + 1 \in Nat /\ counted.cancelled + Cardinality(gone) \in Nat
          <5>1. counted.filled \in Nat /\ counted.cancelled \in Nat
            BY <2>1
          <5>. QED BY <3>2, <5>1
        <4>. QED BY <1>0, <4>1, <4>2 DEF Tally
      <3>5. Len(orders) = counted'.filled + counted'.rejected + counted'.cancelled + Cardinality(Active')
        BY <1>1, <2>1, <3>1, <3>2, <3>3, <3>4, SMTT(30)
      <3>. QED BY <1>9, <3>4, <3>5 DEF CountersAddUp
    <2>3. CASE ~full
      <3>1. Cardinality(gone) = 0 /\ Active' = Active
        BY <1>5, <1>11, <2>3, FS_EmptySet
      <3>2. /\ counted' \in Tally /\ counted'.filled = counted.filled
            /\ counted'.rejected = counted.rejected /\ counted'.cancelled = counted.cancelled
        <4>1. counted' = [counted EXCEPT !.filled = counted.filled + 0,
                                         !.cancelled = counted.cancelled + 0]
          BY <1>2, <2>3, <3>1
        <4>2. counted.filled + 0 = counted.filled /\ counted.cancelled + 0 = counted.cancelled
          BY <2>1
        <4>. QED BY <1>0, <4>1, <4>2 DEF Tally
      <3>. QED BY <1>9, <2>1, <3>1, <3>2 DEF CountersAddUp
    <2>. QED BY <2>2, <2>3
  <1>13. OrderShapes'
    <2>1. DOMAIN oco' = Groups
      BY <1>0, <1>2
    <2>. QED BY <1>9, <1>12, <2>1 DEF OrderShapes
  <1>14. AllStand'
    <2> SUFFICES ASSUME NEW g \in Groups, oco'[g] # <<>> PROVE GroupStands(g)'
      BY DEF AllStand, GroupStands
    <2>1. GroupStands(g)
      BY <1>0 DEF AllStand
    <2>2. CASE ~full
      <3>1. oco' = oco /\ oco[g] # <<>> /\ oco[g].members \subseteq Orders
        BY <1>2, <2>1, <2>2 DEF GroupStands
      <3>2. FilledOf(oco[g].members)' = FilledOf(oco[g].members)
        <4>1. order.status # "filled" /\ orders[n].status # "filled" /\ gone = {}
          BY <1>3, <1>5, <2>2 DEF IsTerminal
        <4>. QED BY <1>8, <3>1, <4>1 DEF FilledOf
      <3>. QED BY <1>9, <1>11, <2>1, <2>2, <3>1, <3>2 DEF GroupStands
    <2>3. CASE full /\ g \in Hit(n)
      <3>1. /\ oco[g] # <<>> /\ oco[g].active /\ n \in oco[g].members
            /\ oco[g].members \subseteq Orders /\ FilledOf(oco[g].members) = {}
        BY <2>1, <2>3 DEF Hit, GroupStands
      <3>2. oco'[g] = [oco[g] EXCEPT !.active = FALSE]
        BY <1>2, <2>3
      <3>3. /\ oco'[g].members = oco[g].members
            /\ oco'[g].active = FALSE
        /\ oco'[g] = [members |-> oco'[g].members, active |-> oco'[g].active]
      <4>1. oco[g] = [members |-> oco[g].members, active |-> oco[g].active]
        BY <2>1, <3>1 DEF GroupStands
      <4>2. oco'[g] = [[members |-> oco[g].members, active |-> oco[g].active] EXCEPT !.active = FALSE]
        BY <3>2, <4>1
      <4>. QED BY <4>2
      <3>4. oco[g].members \ {n} \subseteq Siblings(n)
        <4>1. oco[g].members \in {oco[h].members : h \in Hit(n)}
          BY <2>3
        <4>. QED BY <4>1 DEF Siblings
      <3>5. oco[g].members \cap Active' = {}
        BY <1>5, <1>11, <2>3, <3>4
      <3>6. FilledOf(oco[g].members)' = {n}
        <4>1. \A m \in oco[g].members : orders'[m].status = "filled" <=> m = n
          BY <1>7, <1>8, <2>3, <3>1 DEF FilledOf
        <4>. QED BY <3>1, <3>3, <4>1 DEF FilledOf
      <3>. QED BY <1>9, <3>1, <3>3, <3>5, <3>6 DEF GroupStands
    <2>4. CASE full /\ g \notin Hit(n)
      <3>1. oco'[g] = oco[g] /\ oco[g] # <<>>
        BY <1>2, <2>4
      <3>2. oco[g].members \subseteq Orders /\ oco[g].active \in BOOLEAN
        BY <2>1, <3>1 DEF GroupStands
      <3>3. n \notin oco[g].members
        BY <1>2, <2>1, <2>4, <3>1 DEF GroupStands, Hit
      <3>4. FilledOf(oco[g].members)' = FilledOf(oco[g].members)
        <4>1. \A m \in oco[g].members : orders'[m].status = "filled" <=> orders[m].status = "filled"
          BY <1>7, <1>8, <3>2, <3>3
        <4>. QED BY <3>1, <4>1 DEF FilledOf
      <3>5. Active' \subseteq Active
        BY <1>11, <2>4
      <3>. QED BY <1>9, <2>1, <3>1, <3>2, <3>4, <3>5 DEF GroupStands
    <2>. QED BY <2>2, <2>3, <2>4
  <1>. QED BY <1>10, <1>12, <1>13, <1>14 DEF OrderInv

LEMMA OrderSteps ==
    ASSUME OrderInv, OrdersNext \/ UNCHANGED orderVars
    PROVE  OrderInv'
  <1>1. ASSUME NEW n \in Orders, RejectOrder(n) PROVE OrderInv'
    <2>1. n \in Active /\ EndedAs(n, "rejected") /\ counted' = [counted EXCEPT !.rejected = @ + 1]
      BY <1>1 DEF RejectOrder, Active, IsTerminal, EndedAs
    <2>. QED BY <2>1, EndKeeps
  <1>2. ASSUME NEW n \in Orders, CancelOrder(n) PROVE OrderInv'
    <2>1. n \in Active /\ EndedAs(n, "cancelled") /\ counted' = [counted EXCEPT !.cancelled = @ + 1]
      BY <1>2 DEF CancelOrder, Cancellable, EndedAs
    <2>. QED BY <2>1, EndKeeps
  <1>3. CASE UNCHANGED orderVars
    <2>1. UNCHANGED <<orders, counted, oco>>
      BY <1>3 DEF orderVars
    <2>. QED BY <2>1 DEF OrderInv, OrderShapes, AllConsistent, CountersAddUp, AllStand, GroupStands, FilledOf,
               Orders, Active
  <1>. QED BY <1>1, <1>2, <1>3, CreateKeeps, FillKeeps, GroupKeeps DEF OrdersNext

LEMMA OrderPromises ==
    ASSUME OrderInv
    PROVE  OrdersTypeOK /\ CountersAddUp /\ OneSiblingFills /\ FilledIsWhole
  <1>0. /\ OrderShapes /\ AllConsistent /\ CountersAddUp /\ AllStand /\ counted \in Tally
    BY DEF OrderInv, OrderShapes
  <1>1. /\ Len(orders) \in Nat /\ Cardinality(Active) \in Nat /\ IsFiniteSet(Orders)
        /\ \A n \in Orders : /\ orders[n].asked \in Nat /\ orders[n].asked \in Quantities
                             /\ orders[n].done \in Nat /\ orders[n].status \in Statuses
    BY <1>0, OrderTypes
  <1>2. OrdersTypeOK
    <2>1. \A n \in Orders : orders[n].done \in 0..orders[n].asked
      BY <1>0, <1>1 DEF AllConsistent, Consistent
    <2>2. \A kind \in DOMAIN counted : counted[kind] \in 0..Len(orders)
      <3>1. DOMAIN counted = {"filled", "rejected", "cancelled"}
        BY <1>0 DEF Tally
      <3>2. /\ counted["filled"] \in Nat /\ counted["rejected"] \in Nat /\ counted["cancelled"] \in Nat
            /\ Len(orders) = counted["filled"] + counted["rejected"] + counted["cancelled"]
                               + Cardinality(Active)
        BY <1>0 DEF Tally, CountersAddUp
      <3>. QED BY <1>1, <3>1, <3>2
    <2>3. \A g \in Groups : oco[g] # <<>> => oco[g].members \subseteq Orders
      BY <1>0 DEF AllStand, GroupStands
    <2>. QED BY <1>1, <2>1, <2>2, <2>3 DEF OrdersTypeOK
  <1>3. OneSiblingFills
    <2> SUFFICES ASSUME NEW g \in Groups, oco[g] # <<>>
                 PROVE  /\ Cardinality(FilledOf(oco[g].members)) <= 1
                        /\ FilledOf(oco[g].members) # {} => oco[g].members \cap Active = {}
      BY DEF OneSiblingFills, FilledOf
    <2>1. /\ \A m, n \in FilledOf(oco[g].members) : m = n
          /\ FilledOf(oco[g].members) # {} => oco[g].members \cap Active = {}
      BY <1>0 DEF AllStand, GroupStands
    <2>2. CASE FilledOf(oco[g].members) = {}
      <3>1. Cardinality({}) = 0
        BY FS_EmptySet
      <3>. QED BY <2>2, <3>1
    <2>3. CASE FilledOf(oco[g].members) # {}
      <3>1. PICK m : FilledOf(oco[g].members) = {m}
        BY <2>1, <2>3
      <3>2. Cardinality({m}) = 1
        BY FS_Singleton
      <3>. QED BY <2>1, <3>1, <3>2
    <2>. QED BY <2>2, <2>3
  <1>4. FilledIsWhole
    BY <1>0 DEF AllConsistent, Consistent, FilledIsWhole
  <1>. QED BY <1>0, <1>2, <1>3, <1>4

-----------------------------------------------------------------------------
(* Sizing: every amount is a fraction, and a chain of fractions, each no     *)
(* more than the next, leads from the lots that are sent to the budget.      *)

Fraction(x) == x[1] \in Nat /\ x[2] \in Nat \ {0} /\ x = <<x[1], x[2]>>

LEMMA Chained ==
    ASSUME NEW a \in Nat, NEW b \in Nat \ {0}, NEW c \in Nat, NEW d \in Nat \ {0},
           NEW e \in Nat, NEW f \in Nat \ {0}, a * d <= c * b, c * f <= e * d
    PROVE  a * f <= e * b
  <1>1. (a * d) * f <= (c * b) * f
    OBVIOUS
  <1>2. (c * f) * b <= (e * d) * b
    OBVIOUS
  <1>3. (a * f) * d <= (e * b) * d
    BY <1>1, <1>2
  <1>4. a * f \in Nat /\ e * b \in Nat
    OBVIOUS
  <1> DEFINE x == a * f
             y == e * b
  <1> HIDE DEF x, y
  <1>5. x \in Nat /\ y \in Nat /\ x * d <= y * d
    BY <1>3, <1>4 DEF x, y
  <1>6. x <= y
    BY <1>5
  <1>. QED BY <1>6 DEF x, y

LEMMA NoMoreChained ==
    ASSUME NEW x, Fraction(x), NEW y, Fraction(y), NEW z, Fraction(z), NoMore(x, y), NoMore(y, z)
    PROVE  NoMore(x, z)
  <1>1. /\ x[1] \in Nat /\ x[2] \in Nat \ {0} /\ y[1] \in Nat /\ y[2] \in Nat \ {0}
        /\ z[1] \in Nat /\ z[2] \in Nat \ {0}
        /\ x[1] * y[2] <= y[1] * x[2] /\ y[1] * z[2] <= z[1] * y[2]
    BY DEF Fraction, NoMore
  <1> DEFINE a == x[1]
             b == x[2]
             c == y[1]
             d == y[2]
             e == z[1]
             f == z[2]
  <1>2. /\ a \in Nat /\ b \in Nat \ {0} /\ c \in Nat /\ d \in Nat \ {0} /\ e \in Nat
        /\ f \in Nat \ {0} /\ a * d <= c * b /\ c * f <= e * d
    BY <1>1
  <1>3. NoMore(x, z) <=> a * f <= e * b
    BY DEF NoMore
  <1> HIDE DEF a, b, c, d, e, f
  <1>4. a * f <= e * b
    BY <1>2, Chained
  <1>. QED BY <1>3, <1>4

LEMMA LesserIsNoMore ==
    ASSUME NEW x, Fraction(x), NEW y, Fraction(y)
    PROVE  /\ Lesser(x, y) \in {x, y} /\ Fraction(Lesser(x, y))
           /\ NoMore(Lesser(x, y), x) /\ NoMore(Lesser(x, y), y)
  <1>1. x[1] \in Nat /\ x[2] \in Nat \ {0} /\ y[1] \in Nat /\ y[2] \in Nat \ {0}
    BY DEF Fraction
  <1>2. x[1] * y[2] \in Nat /\ y[1] * x[2] \in Nat /\ x[1] * x[2] \in Nat /\ y[1] * y[2] \in Nat
    BY <1>1
  <1>3. NoMore(x, x) /\ NoMore(y, y) /\ (NoMore(x, y) \/ NoMore(y, x))
    BY <1>2 DEF NoMore
  <1>. QED BY <1>3 DEF Lesser

LEMMA LargestOfTwo ==
    ASSUME NEW a \in Int, NEW b \in Int
    PROVE  Largest({a, b}) \in {a, b} /\ Largest({a, b}) >= a /\ Largest({a, b}) >= b
  <1>1. \E x \in {a, b} : \A y \in {a, b} : y <= x
    OBVIOUS
  <1>. QED BY <1>1 DEF Largest

LEMMA SizingTypes ==
    ASSUME NEW a \in Accounts, NEW q \in Quotes
    PROVE  /\ a.equity \in Nat
           /\ a.contract \in Contracts /\ a.contract.size \in Nat \ {0}
           /\ a.contract.least \in Nat /\ a.contract.step \in Nat /\ a.contract.most \in Nat
           /\ q.atr \in Nat /\ q.spread \in Nat /\ q.confidence \in 0..4
           /\ q.record # <<>> => q.record[1] \in 0..10 /\ q.record[2] \in Nat \ {0}
           /\ Against(q) \in {1, -1}
  <1>1. a.equity \in Equities /\ a.contract \in Contracts
    BY DEF Accounts
  <1>2. q.atr \in Atrs /\ q.spread \in Spreads /\ q.confidence \in Confidences /\ q.record \in Records
    BY DEF Quotes
  <1>3. a.equity \in Nat /\ a.contract.size \in Nat \ {0} /\ a.contract.least \in Nat
        /\ a.contract.step \in Nat /\ a.contract.most \in Nat
    BY <1>1, SizingAssumption
  <1>4. q.atr \in Nat /\ q.spread \in Nat /\ q.confidence \in 0..4
        /\ (q.record # <<>> => q.record[1] \in 0..10 /\ q.record[2] \in Nat \ {0})
    BY <1>2, SizingAssumption
  <1>. QED BY <1>1, <1>3, <1>4 DEF Against

LEMMA StopIsFarEnough ==
    ASSUME NEW a \in Accounts, NEW q \in Quotes
    PROVE  StopDistance(q) \in Nat /\ StopDistance(q) >= 3 /\ StopDistance(q) >= 8 * q.spread
  <1>1. q.atr \in Nat /\ q.spread \in Nat
    BY SizingTypes
  <1> DEFINE floor == Largest({3, 8 * q.spread})
             wide == IF q.atr > 0 THEN (3 * q.atr) \div 2 ELSE Price \div 200
  <1>2. floor \in Nat /\ floor >= 3 /\ floor >= 8 * q.spread
    <2>1. 8 * q.spread \in Int /\ 3 \in Int /\ 8 * q.spread \in Nat
      BY <1>1
    <2>2. /\ Largest({3, 8 * q.spread}) \in {3, 8 * q.spread}
          /\ Largest({3, 8 * q.spread}) >= 3 /\ Largest({3, 8 * q.spread}) >= 8 * q.spread
      BY <2>1, LargestOfTwo
    <2>. QED BY <2>1, <2>2
  <1>3. wide \in Nat
    BY <1>1 DEF Price
  <1>4. StopDistance(q) = Largest({floor, wide})
    BY DEF StopDistance
  <1> HIDE DEF floor, wide
  <1>5. Largest({floor, wide}) \in {floor, wide} /\ Largest({floor, wide}) >= floor
    <2>1. floor \in Int /\ wide \in Int
      BY <1>2, <1>3
    <2>. QED BY <2>1, LargestOfTwo
  <1>6. 8 * q.spread \in Nat
    BY <1>1
  <1>. QED BY <1>2, <1>3, <1>4, <1>5, <1>6

(* What the method wants is a fraction and, where it looks at the risk, loses *)
(* no more than half a per cent of the equity at the stop.                    *)
LEMMA WantedIsSound ==
    ASSUME NEW a \in Accounts, NEW q \in Quotes
    PROVE  /\ Fraction(Wanted(a, q))
           /\ a.method \in RiskMethods =>
                Wanted(a, q)[1] * StopDistance(q) <= (a.equity \div 200) * Wanted(a, q)[2]
  <1>1. /\ a.equity \in Nat /\ q.confidence \in 0..4
        /\ (q.record # <<>> => q.record[1] \in 0..10 /\ q.record[2] \in Nat \ {0})
    BY SizingTypes
  <1> DEFINE sd == StopDistance(q)
             half == a.equity \div 200
  <1>2. sd \in Nat \ {0}
    BY StopIsFarEnough
  <1>3. half \in Nat /\ a.equity \div 50 \in Nat
    BY <1>1
  <1> HIDE DEF sd, half
  <1>4. ASSUME NEW quarters \in 1..4
        PROVE  /\ Fraction(RiskBased(a, q, quarters))
               /\ RiskBased(a, q, quarters)[1] * sd <= half * RiskBased(a, q, quarters)[2]
    <2>1. RiskBased(a, q, quarters) = <<half * quarters, 4 * sd>>
      BY DEF RiskBased, sd, half
    <2>2. half * quarters \in Nat /\ 4 * sd \in Nat \ {0}
      BY <1>2, <1>3
    <2>3. (half * quarters) * sd <= half * (4 * sd)
      <3>1. half * sd \in Nat /\ (half * quarters) * sd = quarters * (half * sd)
            /\ half * (4 * sd) = 4 * (half * sd)
        BY <1>2, <1>3
      <3>. QED BY <3>1
    <2>. QED BY <2>1, <2>2, <2>3 DEF Fraction
  <1>5. ASSUME q.record # <<>>
        PROVE  /\ Fraction(Kelly(a, q))
               /\ Kelly(a, q)[1] * sd <= half * Kelly(a, q)[2]
    <2> DEFINE w == q.record[1]
               r == q.record[2]
               edge == Largest({0, w * r - 10 * (10 - w)})
               part == a.equity \div (40 * r)
               wanted == -Largest({-part * edge, -half})
    <2>1. w \in 0..10 /\ r \in Nat \ {0}
      BY <1>1, <1>5
    <2>2. edge \in Nat
      <3> DEFINE balance == w * r - 10 * (10 - w)
      <3>1. balance \in Int /\ 0 \in Int
        BY <2>1
      <3> HIDE DEF balance
      <3>2. Largest({0, balance}) \in {0, balance} /\ Largest({0, balance}) >= 0
        BY <3>1, LargestOfTwo
      <3>3. Largest({0, balance}) \in Nat
        BY <3>1, <3>2
      <3>. QED BY <3>3 DEF balance
    <2>3. part \in Nat
      <3> DEFINE d == 40 * r
      <3>1. d \in Nat \ {0}
        BY <2>1
      <3> HIDE DEF d
      <3>2. a.equity \div d \in Nat
        BY <1>1, <3>1
      <3>. QED BY <3>2 DEF d
    <2>4. Kelly(a, q) = <<wanted, sd>>
      BY DEF Kelly, sd, half
    <2> HIDE DEF edge, part
    <2>5. wanted \in Nat /\ wanted <= half
      <3>1. -part * edge \in Int /\ -part * edge <= 0 /\ -half \in Int /\ -half <= 0
        BY <1>3, <2>2, <2>3
      <3>2. /\ Largest({-part * edge, -half}) \in {-part * edge, -half}
            /\ Largest({-part * edge, -half}) >= -half
        BY <3>1, LargestOfTwo
      <3>. QED BY <1>3, <3>1, <3>2
    <2> HIDE DEF wanted
    <2>6. wanted * sd <= half * sd
      BY <1>2, <1>3, <2>5
    <2>. QED BY <1>2, <2>4, <2>5, <2>6 DEF Fraction
  <1>6. Largest({1, q.confidence}) \in 1..4
    <2>1. q.confidence \in Int /\ 1 \in Int
      BY <1>1
    <2>2. Largest({1, q.confidence}) \in {1, q.confidence} /\ Largest({1, q.confidence}) >= 1
      BY <2>1, LargestOfTwo
    <2>. QED BY <1>1, <2>2
  <1>7. CASE a.method = "fixed_amount" \/ a.method = "percent"
    <2>1. Wanted(a, q) \in {<<4000, Price>>, <<a.equity \div 50, Price>>}
      BY <1>7 DEF Wanted
    <2>2. Fraction(<<4000, Price>>) /\ Fraction(<<a.equity \div 50, Price>>)
      BY <1>3 DEF Fraction, Price
    <2>. QED BY <1>7, <2>1, <2>2 DEF RiskMethods
  <1>8. CASE a.method # "fixed_amount" /\ a.method # "percent"
    <2>1. \/ Wanted(a, q) = RiskBased(a, q, Largest({1, q.confidence}))
          \/ q.record # <<>> /\ Wanted(a, q) = Kelly(a, q)
          \/ Wanted(a, q) = RiskBased(a, q, 4)
      BY <1>8 DEF Wanted
    <2>2. 4 \in 1..4
      OBVIOUS
    <2>. QED BY <1>4, <1>5, <1>6, <2>1, <2>2 DEF sd, half
  <1>. QED BY <1>7, <1>8

(* The units are no more than the method wants and than the cap allows.      *)
LEMMA UnitsAreCapped ==
    ASSUME NEW a \in Accounts, NEW q \in Quotes
    PROVE  /\ Fraction(Units(a, q))
           /\ NoMore(Units(a, q), Wanted(a, q))
           /\ NoMore(Units(a, q), <<a.equity \div 5, Price>>)
  <1>1. Fraction(<<a.equity \div 5, Price>>)
    <2>1. a.equity \in Nat
      BY SizingTypes
    <2>. QED BY <2>1 DEF Fraction, Price
  <1>. QED BY <1>1, WantedIsSound, LesserIsNoMore DEF Units

LEMMA CappedIsNoMore ==
    ASSUME NEW c \in Contracts, NEW lots, Fraction(lots)
    PROVE  /\ Fraction(Capped(c, lots)) /\ NoMore(Capped(c, lots), lots)
           /\ Capped(c, lots) = lots \/ (c.most # 0 /\ Capped(c, lots) = <<c.most, 100>>)
  <1>1. NoMore(lots, lots)
    <2>1. lots[1] \in Nat /\ lots[2] \in Nat
      BY DEF Fraction
    <2>2. lots[1] * lots[2] \in Nat
      BY <2>1
    <2>. QED BY <2>2 DEF NoMore
  <1>2. CASE c.most = 0
    <2>1. Capped(c, lots) = lots
      BY <1>2 DEF Capped
    <2>. QED BY <1>1, <2>1
  <1>3. CASE c.most # 0
    <2>1. c.most \in Nat
      BY SizingAssumption
    <2>2. Fraction(<<c.most, 100>>)
      BY <2>1 DEF Fraction
    <2>3. Capped(c, lots) = Lesser(lots, <<c.most, 100>>)
      BY <1>3 DEF Capped
    <2>4. /\ Lesser(lots, <<c.most, 100>>) \in {lots, <<c.most, 100>>}
          /\ Fraction(Lesser(lots, <<c.most, 100>>)) /\ NoMore(Lesser(lots, <<c.most, 100>>), lots)
      BY <2>2, LesserIsNoMore
    <2>. QED BY <1>3, <2>3, <2>4
  <1>. QED BY <1>2, <1>3

(* A number of lots reaches the least lot, when the least lot is no more than *)
(* the lots and than the contract's most.                                     *)
Reaches(c, lots) == NoMore(<<LeastLot(c), 100>>, lots)

LEMMA LeastLotType ==
    ASSUME NEW c \in Contracts
    PROVE  /\ LeastLot(c) \in Nat /\ LeastLot(c) >= c.least
           /\ c.step = 0 => LeastLot(c) = c.least
           /\ c.step # 0 => \E j \in Nat \ {0} : LeastLot(c) = c.step * j
  <1>1. c.step \in Nat /\ c.least \in Nat
    BY SizingAssumption
  <1>2. CASE c.step = 0
    BY <1>1, <1>2 DEF LeastLot
  <1>3. CASE c.step # 0
    <2> DEFINE s == c.step
               k == (c.least + s - 1) \div s
               up == s * k
    <2>1. s \in Nat \ {0} /\ c.least \in Nat
      BY <1>1, <1>3
    <2> HIDE DEF s
    <2>2. k \in Nat /\ up \in Nat /\ up >= c.least
      <3> DEFINE n == c.least + s - 1
      <3>1. n \in Nat
        BY <2>1
      <3> HIDE DEF n
      <3>2. (n \div s) \in Nat /\ n < s * ((n \div s) + 1)
        BY <2>1, <3>1
      <3>3. s * ((n \div s) + 1) = s * (n \div s) + s
        BY <2>1, <3>2
      <3>4. s * (n \div s) \in Nat
        BY <2>1, <3>2
      <3>. QED BY <2>1, <3>2, <3>3, <3>4 DEF n
    <2>3. LeastLot(c) = Largest({s, up})
      BY <1>3 DEF LeastLot, s
    <2>4. s = s * 1
      BY <2>1
    <2>5. up = s * k
      OBVIOUS
    <2> HIDE DEF up, k
    <2>6. /\ Largest({s, up}) \in {s, up} /\ Largest({s, up}) >= s /\ Largest({s, up}) >= up
      <3>1. s \in Int /\ up \in Int
        BY <2>1, <2>2
      <3>. QED BY <3>1, LargestOfTwo
    <2>7. \E j \in Nat \ {0} : Largest({s, up}) = s * j
      <3>1. CASE Largest({s, up}) = s
        <4>1. 1 \in Nat \ {0}
          OBVIOUS
        <4>. QED BY <2>4, <3>1, <4>1
      <3>2. CASE Largest({s, up}) = up
        <4>1. k # 0
          <5>1. k = 0 => up = 0
            BY <2>1, <2>5
          <5>. QED BY <2>1, <2>6, <3>2, <5>1
        <4>. QED BY <2>2, <2>5, <3>2, <4>1
      <3>. QED BY <2>6, <3>1, <3>2
    <2>8. Largest({s, up}) \in Nat /\ Largest({s, up}) >= c.least
      BY <2>1, <2>2, <2>6
    <2>. QED BY <1>3, <2>3, <2>7, <2>8 DEF s
  <1>. QED BY <1>2, <1>3

(* Rounding down to the step never gives more, and never less than a least   *)
(* lot that fits.                                                            *)
LEMMA QuantizeIsNoMore ==
    ASSUME NEW c \in Contracts, NEW lots, Fraction(lots)
    PROVE  /\ Fraction(Quantize(c, lots)) /\ NoMore(Quantize(c, lots), lots)
           /\ Reaches(c, Capped(c, lots)) => Reaches(c, Quantize(c, lots))
           /\ c.step = 0 => Quantize(c, lots) = Capped(c, lots)
  <1> DEFINE m == Capped(c, lots)
             r == Quantize(c, lots)
  <1>1. Fraction(m) /\ NoMore(m, lots)
    BY CappedIsNoMore
  <1>2. CASE c.step = 0
    BY <1>1, <1>2 DEF Quantize
  <1>3. CASE c.step # 0
    <2> DEFINE s == c.step
               n == 100 * m[1]
               d == m[2] * s
               k == n \div d
    <2>1. /\ s \in Nat \ {0} /\ m[1] \in Nat /\ m[2] \in Nat \ {0}
      BY <1>1, <1>3, SizingAssumption DEF Fraction
    <2>2. r = <<s * k, 100>>
      BY <1>3 DEF Quantize
    <2>3. n \in Nat /\ d \in Nat \ {0}
      BY <2>1
    <2>4. n = 100 * m[1] /\ d = m[2] * s
      OBVIOUS
    <2> HIDE DEF s, m, r, n, d
    <2>5. k \in Nat /\ d * k <= n
      BY <2>3
    <2>6. \A l \in Nat : d * l <= n => l <= k
      BY <2>3
    <2> HIDE DEF k
    <2>7. (s * k) * m[2] <= m[1] * 100 /\ s * k \in Nat
      BY <2>1, <2>4, <2>5
    <2>8. Fraction(r) /\ NoMore(r, m)
      BY <2>2, <2>7 DEF Fraction, NoMore
    <2>9. NoMore(r, lots)
      BY <1>1, <2>8, NoMoreChained
    <2>10. ASSUME Reaches(c, m) PROVE Reaches(c, r)
      <3>1. PICK j \in Nat \ {0} : LeastLot(c) = s * j
        BY <1>3, LeastLotType DEF s
      <3>2. (s * j) * m[2] <= m[1] * 100
        BY <2>10, <3>1 DEF Reaches, NoMore
      <3>3. d * j <= n
        BY <2>1, <2>4, <3>2
      <3>4. j <= k
        BY <2>6, <3>3
      <3>5. s * j <= s * k /\ s * j \in Nat
        BY <2>1, <2>5, <3>4
      <3>6. (s * j) * 100 <= (s * k) * 100
        BY <2>7, <3>5
      <3>. QED BY <2>2, <3>1, <3>6 DEF Reaches, NoMore
    <2>. QED BY <1>3, <2>8, <2>9, <2>10 DEF m, r
  <1>. QED BY <1>2, <1>3

(* What is sent is, in units, no more than the units that were computed; and *)
(* nothing is sent only when the least lot is too much.                      *)
LEMMA CalculateIsNoMore ==
    ASSUME NEW a \in Accounts, NEW q \in Quotes
    PROVE  LET lots == Calculate(a, q)
               c == a.contract
           IN  /\ Fraction(lots) /\ Fraction(UnitsOf(c, lots))
               /\ NoMore(UnitsOf(c, lots), Units(a, q))
               /\ lots[1] = 0 => \/ Units(a, q)[1] = 0
                                 \/ ~NoMore(<<LeastLot(c) * c.size, 100>>, Units(a, q))
                                 \/ c.most # 0 /\ c.most < LeastLot(c)
  <1> DEFINE c == a.contract
             u == Units(a, q)[1]
             v == Units(a, q)[2]
             whole == <<u, v * c.size>>
             r == Quantize(c, whole)
             m == Capped(c, whole)
             lots == Calculate(a, q)
             L == LeastLot(c)
  <1>1. /\ c \in Contracts /\ c.size \in Nat \ {0} /\ c.least \in Nat /\ c.step \in Nat
        /\ c.most \in Nat /\ u \in Nat /\ v \in Nat \ {0}
    BY SizingTypes, UnitsAreCapped DEF Fraction
  <1>2. lots = IF Fits(c, r) THEN r ELSE <<0, 1>>
    BY DEF Calculate
  <1>3. L \in Nat /\ L >= c.least /\ (c.step = 0 => L = c.least)
        /\ (c.step # 0 => \E j \in Nat \ {0} : L = c.step * j)
    BY <1>1, LeastLotType
  <1> HIDE DEF u, v, c, L
  <1>4. v * c.size \in Nat \ {0} /\ Fraction(whole)
    <2>1. v * c.size \in Nat \ {0}
      BY <1>1
    <2>. QED BY <1>1, <2>1 DEF Fraction
  <1>5. /\ Fraction(r) /\ NoMore(r, whole) /\ (Reaches(c, m) => Reaches(c, r))
        /\ (c.step = 0 => r = m)
    BY <1>1, <1>4, QuantizeIsNoMore
  <1>6. m = whole \/ (c.most # 0 /\ m = <<c.most, 100>>)
    BY <1>1, <1>4, CappedIsNoMore
  <1> HIDE DEF r, m, lots
  <1>7. Fraction(lots) /\ NoMore(lots, whole)
    <2>1. Fraction(<<0, 1>>) /\ NoMore(<<0, 1>>, whole)
      BY <1>1, <1>4 DEF Fraction, NoMore
    <2>. QED BY <1>2, <1>5, <2>1
  <1>8. /\ Fraction(UnitsOf(c, lots)) /\ NoMore(UnitsOf(c, lots), Units(a, q))
    <2> DEFINE x == lots[1]
               y == lots[2]
    <2>1. x \in Nat /\ y \in Nat \ {0} /\ x * (v * c.size) <= u * y
      BY <1>7 DEF Fraction, NoMore
    <2>2. UnitsOf(c, lots) = <<x * c.size, y>>
      BY DEF UnitsOf
    <2>3. NoMore(<<x * c.size, y>>, Units(a, q)) <=> (x * c.size) * v <= u * y
      BY DEF NoMore, u, v
    <2> HIDE DEF x, y
    <2>4. x * c.size \in Nat /\ (x * c.size) * v = x * (v * c.size)
      BY <1>1, <2>1
    <2>. QED BY <2>1, <2>2, <2>3, <2>4 DEF Fraction
  <1>9. ASSUME lots[1] = 0, u # 0, NoMore(<<L * c.size, 100>>, Units(a, q)),
               c.most = 0 \/ c.most >= L
        PROVE  FALSE
    <2>1. (L * c.size) * v <= u * 100
      BY <1>9 DEF NoMore, u, v
    <2>2. L * (v * c.size) <= u * 100
      BY <1>1, <1>3, <2>1
    <2>3. NoMore(<<L, 100>>, whole)
      BY <2>2 DEF NoMore
    <2>4. Reaches(c, m)
      <3>1. CASE m = whole
        BY <2>3, <3>1 DEF Reaches, L
      <3>2. CASE c.most # 0 /\ m = <<c.most, 100>>
        <4>1. L * 100 <= c.most * 100
          BY <1>1, <1>3, <1>9, <3>2
        <4>. QED BY <3>2, <4>1 DEF Reaches, NoMore, L
      <3>. QED BY <1>6, <3>1, <3>2
    <2>5. L * r[2] <= r[1] * 100 /\ r[1] \in Nat /\ r[2] \in Nat \ {0}
      BY <1>5, <2>4 DEF Reaches, NoMore, Fraction, L
    <2>6. Fits(c, r)
      <3>1. c.least * r[2] <= L * r[2]
        BY <1>1, <1>3, <2>5
      <3>2. c.least * r[2] \in Nat /\ L * r[2] \in Nat
        BY <1>1, <1>3, <2>5
      <3>. QED BY <2>5, <3>1, <3>2 DEF Fits
    <2>7. r[1] = 0
      BY <1>2, <1>9, <2>6
    <2>8. CASE c.step = 0
      <3>1. r = m /\ (m = whole \/ (c.most # 0 /\ m = <<c.most, 100>>))
        BY <1>5, <1>6, <2>8
      <3>. QED BY <1>9, <2>7, <3>1
    <2>9. CASE c.step # 0
      <3>1. PICK j \in Nat \ {0} : L = c.step * j
        BY <1>3, <2>9
      <3>2. L \in Nat \ {0}
        BY <1>1, <2>9, <3>1
      <3>3. L * r[2] > 0
        BY <2>5, <3>2
      <3>4. r[1] * 100 = 0
        BY <2>7
      <3>5. L * r[2] \in Nat
        BY <2>5, <3>2
      <3>. QED BY <2>5, <3>3, <3>4, <3>5
    <2>. QED BY <2>8, <2>9
  <1>10. lots[1] = 0 => \/ u = 0 \/ ~NoMore(<<L * c.size, 100>>, Units(a, q))
                        \/ c.most # 0 /\ c.most < L
    BY <1>1, <1>3, <1>9
  <1>. QED BY <1>7, <1>8, <1>10 DEF lots, c, u, L

(* The two limits of a size.                                                 *)
LEMMA SizesStayInBudget ==
    ASSUME account \in Accounts, quote \in Quotes
    PROVE  RiskWithinBudget /\ RefusedOnlyWhenItDoesNotFit
  <1> DEFINE c == account.contract
             lots == Calculate(account, quote)
             sent == UnitsOf(c, lots)
             x == sent[1]
             y == sent[2]
             fifth == account.equity \div 5
             half == account.equity \div 200
             sd == StopDistance(quote)
             wanted == Wanted(account, quote)
  <1>1. /\ Fraction(sent) /\ NoMore(sent, Units(account, quote))
        /\ lots[1] = 0 => \/ Units(account, quote)[1] = 0
                          \/ ~NoMore(<<LeastLot(c) * c.size, 100>>, Units(account, quote))
                          \/ c.most # 0 /\ c.most < LeastLot(c)
    BY CalculateIsNoMore
  <1>2. /\ Fraction(Units(account, quote)) /\ NoMore(Units(account, quote), wanted)
        /\ NoMore(Units(account, quote), <<fifth, Price>>)
    BY UnitsAreCapped
  <1>3. /\ Fraction(wanted)
        /\ account.method \in RiskMethods => wanted[1] * sd <= half * wanted[2]
    BY WantedIsSound
  <1>4. fifth \in Nat /\ half \in Nat /\ sd \in Nat
    <2>1. account.equity \in Nat
      BY SizingTypes
    <2>. QED BY <2>1, StopIsFarEnough
  <1>5. RefusedOnlyWhenItDoesNotFit
    BY <1>1 DEF RefusedOnlyWhenItDoesNotFit
  <1> HIDE DEF sent, fifth, half, sd, wanted
  <1>6. x \in Nat /\ y \in Nat \ {0}
    BY <1>1 DEF Fraction
  <1>7. x * Price <= fifth * y
    <2>1. Fraction(<<fifth, Price>>)
      BY <1>4 DEF Fraction, Price
    <2>2. NoMore(sent, <<fifth, Price>>)
      BY <1>1, <1>2, <2>1, NoMoreChained
    <2>. QED BY <2>2 DEF NoMore
  <1>8. ASSUME account.method \in RiskMethods PROVE x * sd <= half * y
    <2>1. NoMore(sent, wanted)
      BY <1>1, <1>2, <1>3, NoMoreChained
    <2> DEFINE p == wanted[1]
               r == wanted[2]
    <2>2. p \in Nat /\ r \in Nat \ {0} /\ x * r <= p * y /\ p * sd <= half * r
      BY <1>3, <1>8, <2>1 DEF Fraction, NoMore
    <2> HIDE DEF p, r, x, y
    <2>3. (x * r) * sd <= (p * y) * sd
      BY <1>4, <1>6, <2>2
    <2>4. (p * sd) * y <= (half * r) * y
      BY <1>4, <1>6, <2>2
    <2>5. (x * sd) * r <= (half * y) * r
      BY <1>4, <1>6, <2>2, <2>3, <2>4
    <2> DEFINE s == x * sd
               t == half * y
    <2>6. s \in Nat /\ t \in Nat /\ s * r <= t * r
      BY <1>4, <1>6, <2>5
    <2> HIDE DEF s, t
    <2>7. s <= t
      BY <2>2, <2>6
    <2>. QED BY <2>7 DEF s, t
  <1>9. RiskWithinBudget
    <2>1. /\ NoMore(<<x * Price, y>>, <<fifth, 1>>)
          /\ account.method \in RiskMethods => NoMore(<<x * sd, y>>, <<half, 1>>)
      <3>1. x * Price \in Nat /\ x * sd \in Nat
        BY <1>4, <1>6 DEF Price
      <3>. QED BY <1>7, <1>8, <3>1 DEF NoMore
    <2>. QED BY <2>1 DEF RiskWithinBudget, sent, fifth, half, sd
  <1>. QED BY <1>5, <1>9

(* The bracket is as wide as eight spreads, so neither the mark nor a fill   *)
(* that cost less is beyond it.                                              *)
LEMMA BracketHolds ==
    ASSUME account \in Accounts, quote \in Quotes
    PROVE  OpensInsideItsBracket
  <1> DEFINE sd == StopDistance(quote)
             s == Against(quote)
             b == quote.spread
  <1>1. s \in {1, -1} /\ b \in Nat /\ sd \in Nat /\ sd >= 3 /\ sd >= 8 * b
    BY SizingTypes, StopIsFarEnough
  <1> HIDE DEF sd, s, b
  <1> DEFINE stop == 2000 - s * sd
             target2 == 2 * 2000 + s * 3 * sd
             Spares(p) == (p - stop) * s > 0 /\ (target2 - 2 * p) * s > 0
  <1>2. b > 0 => Spares(2000 - s * b)
    <2>1. CASE s = 1
      BY <1>1, <2>1
    <2>2. CASE s = -1
      BY <1>1, <2>2
    <2>. QED BY <1>1, <2>1, <2>2
  <1>3. \A cost \in 0..8 * b - 1 : Spares(2000 + s * cost)
    <2> SUFFICES ASSUME NEW cost \in 0..8 * b - 1 PROVE Spares(2000 + s * cost)
      OBVIOUS
    <2>1. cost \in Nat /\ cost < sd
      BY <1>1
    <2>2. CASE s = 1
      BY <1>1, <2>1, <2>2
    <2>3. CASE s = -1
      BY <1>1, <2>1, <2>3
    <2>. QED BY <1>1, <2>2, <2>3
  <1>4. Stops(quote).stop = stop /\ Stops(quote).target2 = target2
    BY DEF Stops, Price, s, sd
  <1>5. MarkAfter(quote) = 2000 - s * b /\ \A cost : FillPrice(quote, cost) = 2000 + s * cost
    BY DEF MarkAfter, FillPrice, Price, s, b
  <1> HIDE DEF stop, target2
  <1>. QED BY <1>2, <1>3, <1>4, <1>5 DEF OpensInsideItsBracket, s, b

(* One entry more stays within the exposure limit.                           *)
SizingInv == account \in Accounts /\ quote \in Quotes /\ held \in 0..MaxHeld /\ ExposureAddsUp

LEMMA ExposureType ==
    ASSUME account \in Accounts
    PROVE  account.equity \in Nat /\ (account.equity \div 100) * ExposurePct \in Nat
  <1>1. account.equity \in Equities
    BY DEF Accounts
  <1>2. account.equity \in Nat /\ ExposurePct \in Nat
    BY <1>1, SizingAssumption
  <1>. QED BY <1>2

LEMMA SizingStarts ==
    ASSUME account \in Accounts, quote \in Quotes, held = 0
    PROVE  SizingInv
  <1>1. Fraction(Calculate(account, quote))
    BY CalculateIsNoMore
  <1> DEFINE x == Calculate(account, quote)[1]
             y == Calculate(account, quote)[2]
             limit == (account.equity \div 100) * ExposurePct
  <1>2. x \in Nat /\ y \in Nat /\ limit \in Nat
    BY <1>1, ExposureType DEF Fraction
  <1>3. ExposureAddsUp <=> (account.contract.size = 1 => NoMore(<<held * x * Price, y>>, <<limit, 1>>))
    BY DEF ExposureAddsUp
  <1> HIDE DEF x, y, limit
  <1>4. (held * x * Price) * 1 <= limit * y
    BY <1>2 DEF Price
  <1>5. NoMore(<<held * x * Price, y>>, <<limit, 1>>)
    BY <1>4 DEF NoMore
  <1>. QED BY <1>3, <1>5, SizingAssumption DEF SizingInv

LEMMA SizingSteps ==
    ASSUME SizingInv, Enter \/ UNCHANGED sizingVars
    PROVE  SizingInv'
  <1>1. /\ account \in Accounts /\ quote \in Quotes /\ held \in 0..MaxHeld /\ ExposureAddsUp
        /\ UNCHANGED <<account, quote>>
    BY DEF SizingInv, Enter, sizingVars
  <1>2. CASE UNCHANGED held
    BY <1>1, <1>2 DEF SizingInv, ExposureAddsUp
  <1>3. CASE Enter
    <2> DEFINE lots == Calculate(account, quote)
               x == lots[1]
               y == lots[2]
               size == account.contract.size
               limit == (account.equity \div 100) * ExposurePct
    <2>1. held < MaxHeld /\ held' = held + 1 /\ ExposureAllows(account, lots) /\ MaxHeld \in Nat
      BY <1>3, SizingAssumption DEF Enter
    <2>2. Fraction(lots)
      BY <1>1, CalculateIsNoMore
    <2>3. ExposureAllows(account, lots) <=> NoMore(<<held * x * Price + x * size * Price, y>>, <<limit, 1>>)
      BY DEF ExposureAllows, Exposure, UnitsOf
    <2>4. ExposureAddsUp' <=> (size = 1 => NoMore(<<held' * x * Price, y>>, <<limit, 1>>))
      BY <1>1 DEF ExposureAddsUp
    <2> HIDE DEF lots, size, limit
    <2>5. x \in Nat
      BY <2>2 DEF Fraction
    <2> HIDE DEF x, y
    <2>6. size = 1 => held * x * Price + x * size * Price = held' * x * Price
      BY <1>1, <2>1, <2>5 DEF Price
    <2>7. ExposureAddsUp'
      BY <2>1, <2>3, <2>4, <2>6
    <2>8. held' \in 0..MaxHeld
      BY <1>1, <2>1
    <2>. QED BY <1>1, <2>7, <2>8 DEF SizingInv
  <1>. QED BY <1>2, <1>3 DEF sizingVars

LEMMA SizingPromises ==
    ASSUME SizingInv
    PROVE  /\ SizingTypeOK /\ RiskWithinBudget /\ RefusedOnlyWhenItDoesNotFit
           /\ OpensInsideItsBracket /\ ExposureAddsUp
  BY SizesStayInBudget, BracketHolds DEF SizingInv, SizingTypeOK

-----------------------------------------------------------------------------
(* ModelRegistry: the registry in memory and the one the file would load are *)
(* built alike, so that a rollback or a restart returns to what was earned.  *)

HasFields(card) ==
    /\ card = [kind |-> card.kind, version |-> card.version, auc |-> card.auc,
               cv |-> card.cv, state |-> card.state]

RegistryShape(r, last) ==
    /\ r = [cards |-> r.cards, active |-> r.active, stack |-> r.stack]
    /\ DOMAIN r.cards \subseteq 1..last /\ r.cards = [id \in DOMAIN r.cards |-> r.cards[id]]
    /\ \A id \in DOMAIN r.cards : HasFields(r.cards[id])
    /\ r.active \subseteq DOMAIN r.cards /\ AtMostOne(r.active)
    /\ r.stack \in Seq(DOMAIN r.cards) /\ Len(r.stack) <= StackLimit

MarksAgree(r) == \A id \in DOMAIN r.cards : r.cards[id].state = "active" <=> id \in r.active

Admitted(cards, hand, id) == id \in hand \/ (cards[id].auc >= Gate.auc /\ cards[id].cv >= Gate.cv)
Follows(cards, hand, a, b) ==
    a # b /\ (b \in hand \/ cards[b].auc >= cards[a].auc + Gate.improvement)

(* What a rollback can return to, oldest first, and the active model.        *)
Merited(cards, hand, stack, top) ==
    /\ \A i \in 1..Len(stack) : Admitted(cards, hand, stack[i])
    /\ \A i \in 1..Len(stack), j \in 1..Len(stack) :
           j = i + 1 => Follows(cards, hand, stack[i], stack[j])
    /\ \A id \in top : /\ Admitted(cards, hand, id)
                       /\ Len(stack) > 0 => Follows(cards, hand, stack[Len(stack)], id)
    /\ top = {} => Len(stack) = 0

RegistryStands(r, last, hand) ==
    RegistryShape(r, last) /\ MarksAgree(r) /\ Merited(r.cards, hand, r.stack, r.active)

Answers(cards, have, lost) ==
    \A id \in DOMAIN cards : id \in have \/ cards[id].kind \notin Serialisable \/ id \in lost

LabShapes == /\ journalled \in 0..MaxTrades /\ trained \in 0..MaxModels
             /\ confidence \in {"full", "reduced"}
             /\ models \subseteq DOMAIN registry.cards /\ modelFiles \subseteq 1..trained

LabInv ==
    /\ LabShapes
    /\ RegistryStands(registry, trained, byHand) /\ RegistryStands(records, trained, byHand)
    /\ Answers(registry.cards, models, spoilt) /\ Answers(records.cards, modelFiles, spoilt)

(* Only the state of a record ever changes.                                  *)
Carried(old, new) ==
    \A id \in DOMAIN old :
        id \in DOMAIN new /\ new[id].kind = old[id].kind
        /\ new[id].auc = old[id].auc /\ new[id].cv = old[id].cv

LEMMA MeritedCarried ==
    ASSUME NEW old, NEW new, NEW hand, NEW more, NEW stack \in Seq(DOMAIN old),
           NEW top \in SUBSET DOMAIN old,
           Carried(old, new), hand \subseteq more, Merited(old, hand, stack, top)
    PROVE  Merited(new, more, stack, top)
  <1>1. \A i \in 1..Len(stack) : stack[i] \in DOMAIN old
    OBVIOUS
  <1>2. \A id \in DOMAIN old : Admitted(old, hand, id) => Admitted(new, more, id)
    BY DEF Admitted, Carried
  <1>3. \A a, b \in DOMAIN old : Follows(old, hand, a, b) => Follows(new, more, a, b)
    BY DEF Follows, Carried
  <1>4. Len(stack) > 0 => stack[Len(stack)] \in DOMAIN old
    OBVIOUS
  <1>5. \A i \in 1..Len(stack) : Admitted(new, more, stack[i])
    BY <1>1, <1>2 DEF Merited
  <1>6. \A i \in 1..Len(stack), j \in 1..Len(stack) :
            j = i + 1 => Follows(new, more, stack[i], stack[j])
    <2> SUFFICES ASSUME NEW i \in 1..Len(stack), NEW j \in 1..Len(stack), j = i + 1
                 PROVE  Follows(new, more, stack[i], stack[j])
      OBVIOUS
    <2>1. Follows(old, hand, stack[i], stack[j])
      BY DEF Merited
    <2>. QED BY <1>1, <1>3, <2>1
  <1>7. \A id \in top : /\ Admitted(new, more, id)
                        /\ Len(stack) > 0 => Follows(new, more, stack[Len(stack)], id)
    BY <1>2, <1>3, <1>4 DEF Merited
  <1>8. top = {} => Len(stack) = 0
    BY DEF Merited
  <1>. QED BY <1>5, <1>6, <1>7, <1>8 DEF Merited

LEMMA CardsSet ==
    ASSUME NEW r, NEW last, RegistryShape(r, last), NEW cards
    PROVE  [r EXCEPT !.cards = cards] = [cards |-> cards, active |-> r.active, stack |-> r.stack]
  <1>1. r = [cards |-> r.cards, active |-> r.active, stack |-> r.stack]
    BY DEF RegistryShape
  <1>. QED BY <1>1

LEMMA MarkedIs ==
    ASSUME NEW r, NEW last \in Nat, RegistryShape(r, last), NEW id \in DOMAIN r.cards, NEW state
    PROVE  LET m == Marked(r, id, state)
           IN  /\ RegistryShape(m, last) /\ Carried(r.cards, m.cards)
               /\ DOMAIN m.cards = DOMAIN r.cards /\ m.active = r.active /\ m.stack = r.stack
               /\ m.cards[id].state = state
               /\ \A x \in DOMAIN r.cards : x # id => m.cards[x].state = r.cards[x].state
  <1> DEFINE card == [kind |-> r.cards[id].kind, version |-> r.cards[id].version,
                      auc |-> r.cards[id].auc, cv |-> r.cards[id].cv, state |-> state]
             cards == [x \in DOMAIN r.cards |-> IF x = id THEN card ELSE r.cards[x]]
             m == [cards |-> cards, active |-> r.active, stack |-> r.stack]
  <1>1. HasFields(r.cards[id])
    BY DEF RegistryShape
  <1>2. [r.cards[id] EXCEPT !.state = state] = card
    BY <1>1 DEF HasFields
  <1>3. [r.cards EXCEPT ![id] = card] = cards
    OBVIOUS
  <1>4. Marked(r, id, state) = [r EXCEPT !.cards = cards]
    BY <1>2, <1>3 DEF Marked
  <1>5. [r EXCEPT !.cards = cards] = m
    BY CardsSet
  <1>6. HasFields(card)
    BY DEF HasFields
  <1>7. \A x \in DOMAIN cards : HasFields(cards[x])
    BY <1>6 DEF RegistryShape
  <1>8. Carried(r.cards, cards) /\ DOMAIN cards = DOMAIN r.cards /\ cards[id].state = state
    BY DEF Carried
  <1>9. \A x \in DOMAIN r.cards : x # id => cards[x].state = r.cards[x].state
    OBVIOUS
  <1>10. RegistryShape(m, last)
    BY <1>7, <1>8 DEF RegistryShape
  <1>. QED BY <1>4, <1>5, <1>8, <1>9, <1>10

LEMMA ArchivedIs ==
    ASSUME NEW r, NEW last \in Nat, RegistryShape(r, last), MarksAgree(r)
    PROVE  LET a == Archived(r)
           IN  /\ RegistryShape(a, last) /\ Carried(r.cards, a.cards)
               /\ DOMAIN a.cards = DOMAIN r.cards /\ a.active = r.active /\ a.stack = r.stack
               /\ \A id \in DOMAIN r.cards : a.cards[id].state # "active"
  <1> DEFINE Old(id) == [kind |-> r.cards[id].kind, version |-> r.cards[id].version,
                         auc |-> r.cards[id].auc, cv |-> r.cards[id].cv, state |-> "archived"]
             cards == [id \in DOMAIN r.cards |-> IF id \in r.active THEN Old(id) ELSE r.cards[id]]
             a == [cards |-> cards, active |-> r.active, stack |-> r.stack]
  <1>1. \A id \in DOMAIN r.cards : HasFields(r.cards[id])
    BY DEF RegistryShape
  <1>2. \A id \in DOMAIN r.cards : [r.cards[id] EXCEPT !.state = "archived"] = Old(id)
    <2> SUFFICES ASSUME NEW id \in DOMAIN r.cards
                 PROVE  [r.cards[id] EXCEPT !.state = "archived"] = Old(id)
      OBVIOUS
    <2>1. HasFields(r.cards[id])
      BY <1>1
    <2>. QED BY <2>1 DEF HasFields
  <1>3. [id \in DOMAIN r.cards |-> IF id \in r.active THEN [r.cards[id] EXCEPT !.state = "archived"]
                                   ELSE r.cards[id]] = cards
    BY <1>2
  <1>4. Archived(r) = [r EXCEPT !.cards = cards]
    BY <1>3 DEF Archived
  <1>5. [r EXCEPT !.cards = cards] = a
    BY CardsSet
  <1>6. \A id : HasFields(Old(id)) /\ Old(id).state # "active"
    BY DEF HasFields
  <1>7. \A id \in DOMAIN cards : HasFields(cards[id]) /\ cards[id].state # "active"
    BY <1>1, <1>6 DEF MarksAgree
  <1>8. Carried(r.cards, cards) /\ DOMAIN cards = DOMAIN r.cards
    BY DEF Carried
  <1>9. RegistryShape(a, last)
    BY <1>7, <1>8 DEF RegistryShape
  <1>. QED BY <1>4, <1>5, <1>7, <1>8, <1>9

LEMMA CarriedOn ==
    ASSUME NEW a, NEW b, NEW c, Carried(a, b), Carried(b, c)
    PROVE  Carried(a, c)
  BY DEF Carried

(* The mark moves to one record; what a rollback returns to is given.        *)
LEMMA MarkMoves ==
    ASSUME NEW r, NEW last \in Nat, RegistryShape(r, last), MarksAgree(r),
           NEW id \in DOMAIN r.cards, NEW stack \in Seq(DOMAIN r.cards), Len(stack) <= StackLimit
    PROVE  LET m == Advising(r, id, stack)
           IN  /\ RegistryShape(m, last) /\ MarksAgree(m) /\ Carried(r.cards, m.cards)
               /\ DOMAIN m.cards = DOMAIN r.cards /\ m.active = {id} /\ m.stack = stack
  <1> DEFINE a == Archived(r)
             b == Marked(a, id, "active")
             m == [cards |-> b.cards, active |-> {id}, stack |-> stack]
  <1>1. /\ RegistryShape(a, last) /\ Carried(r.cards, a.cards) /\ DOMAIN a.cards = DOMAIN r.cards
        /\ \A x \in DOMAIN r.cards : a.cards[x].state # "active"
    BY ArchivedIs
  <1> HIDE DEF a
  <1>2. /\ RegistryShape(b, last) /\ Carried(a.cards, b.cards) /\ DOMAIN b.cards = DOMAIN r.cards
        /\ b.cards[id].state = "active"
        /\ \A x \in DOMAIN r.cards : x # id => b.cards[x].state = a.cards[x].state
    BY <1>1, MarkedIs
  <1> HIDE DEF b
  <1>3. Advising(r, id, stack) = m
    BY DEF Advising, a, b
  <1>4. AtMostOne({id})
    BY DEF AtMostOne
  <1>5. RegistryShape(m, last)
    BY <1>2, <1>4 DEF RegistryShape
  <1>6. MarksAgree(m)
    BY <1>1, <1>2 DEF MarksAgree
  <1>7. Carried(r.cards, m.cards)
    BY <1>1, <1>2, CarriedOn
  <1>. QED BY <1>2, <1>3, <1>5, <1>6, <1>7

LEMMA ActiveIs ==
    ASSUME NEW r, AtMostOne(r.active)
    PROVE  /\ r.active = {} => ActiveSeq(r) = <<>>
           /\ \A id \in r.active : r.active = {id} /\ ActiveSeq(r) = <<id>>
  <1>1. CASE r.active = {}
    BY <1>1 DEF ActiveSeq
  <1>2. CASE r.active # {}
    <2>1. PICK id \in r.active : r.active = {id}
      BY <1>2 DEF AtMostOne
    <2>2. (CHOOSE x \in r.active : TRUE) = id
      BY <2>1
    <2>. QED BY <2>1, <2>2 DEF ActiveSeq
  <1>. QED BY <1>1, <1>2

LEMMA Trimmed ==
    ASSUME NEW S, NEW s \in Seq(S), NEW from \in {1, 2}, Len(s) > 0
    PROVE  LET p == SubSeq(s, from, Len(s))
           IN  /\ p \in Seq(S) /\ Len(p) = Len(s) + 1 - from
               /\ \A i \in 1..Len(p) : p[i] = s[i + from - 1]
  <1> DEFINE n == Len(s)
             p == SubSeq(s, from, n)
  <1>1. n \in Nat /\ n > 0 /\ from \in Int /\ n \in Int /\ \A i \in from..n : s[i] \in S
    OBVIOUS
  <1> HIDE DEF n
  <1>2. /\ p \in Seq(S) /\ Len(p) = (IF from <= n THEN n - from + 1 ELSE 0)
        /\ \A i \in 1..n - from + 1 : p[i] = s[from + i - 1]
    BY <1>1, SubSeqProperties
  <1> HIDE DEF p
  <1>3. Len(p) = n + 1 - from
    BY <1>1, <1>2
  <1>4. ASSUME NEW i \in 1..Len(p) PROVE p[i] = s[i + from - 1]
    <2>1. i \in 1..n - from + 1 /\ from + i - 1 = i + from - 1
      BY <1>1, <1>3
    <2>. QED BY <1>2, <2>1
  <1>. QED BY <1>2, <1>3, <1>4 DEF n, p

(* Activating a record keeps what was earned, when the record is activated   *)
(* by hand or was found better than the active one.                          *)
LEMMA ActivationKeeps ==
    ASSUME NEW r, NEW last \in Nat, NEW hand, RegistryStands(r, last, hand),
           NEW id \in DOMAIN r.cards, Admitted(r.cards, hand, id),
           \A a \in r.active : a = id \/ Follows(r.cards, hand, a, id)
    PROVE  LET m == Activated(r, id)
           IN  /\ RegistryStands(m, last, hand) /\ Carried(r.cards, m.cards)
               /\ DOMAIN m.cards = DOMAIN r.cards
  <1>0. /\ RegistryShape(r, last) /\ MarksAgree(r) /\ Merited(r.cards, hand, r.stack, r.active)
        /\ r.stack \in Seq(DOMAIN r.cards) /\ Len(r.stack) <= StackLimit /\ StackLimit \in Nat
        /\ r.active \subseteq DOMAIN r.cards /\ AtMostOne(r.active)
    BY LabAssumption DEF RegistryStands, RegistryShape
  <1> DEFINE pushed == Pushed(r.stack, ActiveSeq(r), id)
  <1>1. /\ pushed \in Seq(DOMAIN r.cards) /\ Len(pushed) <= StackLimit
        /\ Merited(r.cards, hand, pushed, {id})
    <2>1. CASE r.active = {}
      <3>1. ActiveSeq(r) = <<>> /\ Len(r.stack) = 0
        BY <1>0, <2>1, ActiveIs DEF Merited
      <3>2. r.stack = <<>>
        BY <1>0, <3>1
      <3>3. pushed = <<>>
        BY <1>0, <3>1, <3>2 DEF Pushed
      <3>. QED BY <1>0, <3>3 DEF Merited
    <2>2. CASE id \in r.active
      <3>1. ActiveSeq(r) = <<id>> /\ r.active = {id}
        BY <1>0, <2>2, ActiveIs
      <3> DEFINE n == Len(r.stack)
      <3>4. n \in Nat /\ n <= StackLimit
        BY <1>0
      <3>5. 1 + (IF n > StackLimit THEN 1 ELSE 0) = 1
        BY <1>0, <3>4
      <3>6. pushed = SubSeq(r.stack, 1 + (IF n > StackLimit THEN 1 ELSE 0), n)
        BY <3>1 DEF Pushed
      <3>2. pushed = SubSeq(r.stack, 1, Len(r.stack))
        BY <3>5, <3>6
      <3>3. pushed = r.stack
        BY <1>0, <3>2
      <3>. QED BY <1>0, <3>1, <3>3
    <2>3. CASE r.active # {} /\ id \notin r.active
      <3>1. PICK a \in r.active : r.active = {a} /\ ActiveSeq(r) = <<a>>
        BY <1>0, <2>3, ActiveIs
      <3>2. a \in DOMAIN r.cards /\ a # id /\ Follows(r.cards, hand, a, id)
        BY <1>0, <2>3, <3>1
      <3>3. <<a>> # <<id>>
        BY <3>2
      <3> DEFINE longer == Append(r.stack, a)
                 n == Len(r.stack)
                 from == 1 + (IF Len(longer) > StackLimit THEN 1 ELSE 0)
      <3>4. r.stack \o <<a>> = longer
        BY <1>0, <3>2
      <3>5. pushed = SubSeq(longer, from, Len(longer))
        BY <3>1, <3>3, <3>4 DEF Pushed
      <3>6. /\ n \in Nat /\ Len(longer) = n + 1 /\ longer \in Seq(DOMAIN r.cards)
            /\ longer[n + 1] = a /\ \A i \in 1..n : longer[i] = r.stack[i]
        <4> DEFINE s == r.stack
                   ids == DOMAIN r.cards
        <4>1. s \in Seq(ids) /\ a \in ids
          BY <1>0, <3>2
        <4> HIDE DEF s, ids
        <4>2. /\ Len(s) \in Nat /\ Append(s, a) \in Seq(ids) /\ Len(Append(s, a)) = Len(s) + 1
              /\ \A i \in 1..Len(s) : Append(s, a)[i] = s[i]
              /\ Append(s, a)[Len(s) + 1] = a
          BY <4>1, AppendProperties
        <4>. QED BY <4>2 DEF s, ids
      <3>7. \A i \in 1..n + 1 : Admitted(r.cards, hand, longer[i])
        <4> SUFFICES ASSUME NEW i \in 1..n + 1 PROVE Admitted(r.cards, hand, longer[i])
          OBVIOUS
        <4>1. CASE i = n + 1
          BY <1>0, <3>1, <3>6, <4>1 DEF Merited
        <4>2. CASE i # n + 1
          <5>1. i \in 1..n
            BY <3>6, <4>2
          <5>. QED BY <1>0, <3>6, <5>1 DEF Merited
        <4>. QED BY <4>1, <4>2
      <3>8. \A i \in 1..n + 1, j \in 1..n + 1 :
                j = i + 1 => Follows(r.cards, hand, longer[i], longer[j])
        <4> SUFFICES ASSUME NEW i \in 1..n + 1, NEW j \in 1..n + 1, j = i + 1
                     PROVE  Follows(r.cards, hand, longer[i], longer[j])
          OBVIOUS
        <4>1. CASE j = n + 1
          <5>1. i = n /\ n > 0 /\ longer[i] = r.stack[n] /\ longer[j] = a
            BY <3>6, <4>1
          <5>2. Follows(r.cards, hand, r.stack[n], a)
            BY <1>0, <3>1, <5>1 DEF Merited
          <5>. QED BY <5>1, <5>2
        <4>2. CASE j # n + 1
          <5>1. i \in 1..n /\ j \in 1..n
            BY <3>6, <4>2
          <5>. QED BY <1>0, <3>6, <5>1 DEF Merited
        <4>. QED BY <4>1, <4>2
      <3> HIDE DEF longer, n
      <3>9. from \in {1, 2} /\ (from = 1 => n + 1 <= StackLimit)
        BY <1>0, <3>6
      <3> HIDE DEF from
      <3>10. /\ pushed \in Seq(DOMAIN r.cards) /\ Len(pushed) = n + 2 - from
             /\ \A i \in 1..Len(pushed) : pushed[i] = longer[i + from - 1]
        <4>1. pushed = SubSeq(longer, from, Len(longer)) /\ Len(longer) > 0
          BY <3>5, <3>6
        <4>2. longer \in Seq(DOMAIN r.cards)
          BY <3>6
        <4>3. /\ pushed \in Seq(DOMAIN r.cards) /\ Len(pushed) = Len(longer) + 1 - from
              /\ \A i \in 1..Len(pushed) : pushed[i] = longer[i + from - 1]
          <5> DEFINE ids == DOMAIN r.cards
          <5>1. from \in {1, 2} /\ Len(longer) > 0 /\ longer \in Seq(ids)
            BY <3>9, <4>1, <4>2
          <5> HIDE DEF ids
          <5> DEFINE p == SubSeq(longer, from, Len(longer))
          <5>2. /\ p \in Seq(ids) /\ Len(p) = Len(longer) + 1 - from
                /\ \A i \in 1..Len(p) : p[i] = longer[i + from - 1]
            BY <5>1, Trimmed, Zenon
          <5> HIDE DEF p
          <5>3. pushed = p
            BY <4>1 DEF p
          <5>. QED BY <5>2, <5>3 DEF ids
        <4>. QED BY <3>6, <3>9, <4>3
      <3> HIDE DEF pushed
      <3>11. Len(pushed) <= StackLimit
        BY <1>0, <3>6, <3>9, <3>10 DEF n
      <3>12. \A i \in 1..Len(pushed) : Admitted(r.cards, hand, pushed[i])
        <4> SUFFICES ASSUME NEW i \in 1..Len(pushed) PROVE Admitted(r.cards, hand, pushed[i])
          OBVIOUS
        <4> DEFINE k == i + from - 1
        <4>1. n \in Nat /\ Len(pushed) = n + 2 - from /\ from \in {1, 2}
          BY <3>6, <3>9, <3>10
        <4>2. k \in 1..n + 1
          BY <4>1
        <4>3. pushed[i] = longer[k]
          BY <3>10
        <4>. QED BY <3>7, <4>2, <4>3
      <3>13. \A i \in 1..Len(pushed), j \in 1..Len(pushed) :
                 j = i + 1 => Follows(r.cards, hand, pushed[i], pushed[j])
        <4> SUFFICES ASSUME NEW i \in 1..Len(pushed), NEW j \in 1..Len(pushed), j = i + 1
                     PROVE  Follows(r.cards, hand, pushed[i], pushed[j])
          OBVIOUS
        <4> DEFINE k == i + from - 1
        <4>1. k \in 1..n + 1 /\ k + 1 \in 1..n + 1 /\ j + from - 1 = k + 1
          BY <3>6, <3>9, <3>10
        <4>2. pushed[i] = longer[k] /\ pushed[j] = longer[k + 1]
          BY <3>10, <4>1
        <4>. QED BY <3>8, <4>1, <4>2
      <3>14. Len(pushed) > 0 => pushed[Len(pushed)] = a
        BY <3>6, <3>9, <3>10
      <3>. QED BY <3>2, <3>10, <3>11, <3>12, <3>13, <3>14 DEF Merited
    <2>. QED BY <2>1, <2>2, <2>3
  <1> HIDE DEF pushed
  <1> DEFINE m == Advising(r, id, pushed)
  <1>2. /\ RegistryShape(m, last) /\ MarksAgree(m) /\ Carried(r.cards, m.cards)
        /\ DOMAIN m.cards = DOMAIN r.cards /\ m.active = {id} /\ m.stack = pushed
    <2>1. RegistryShape(r, last) /\ MarksAgree(r) /\ pushed \in Seq(DOMAIN r.cards)
          /\ Len(pushed) <= StackLimit
      BY <1>0, <1>1
    <2>. QED BY <2>1, MarkMoves
  <1>3. Activated(r, id) = m
    BY DEF Activated, pushed
  <1> HIDE DEF m
  <1>4. Merited(m.cards, hand, m.stack, m.active)
    BY <1>1, <1>2, MeritedCarried
  <1>. QED BY <1>2, <1>3, <1>4 DEF RegistryStands

(* A rollback returns to the last of what it can return to.                  *)
LEMMA RollbackKeeps ==
    ASSUME NEW r, NEW last \in Nat, NEW hand, RegistryStands(r, last, hand), r.stack # <<>>
    PROVE  LET m == RolledBack(r)
           IN  /\ RegistryStands(m, last, hand) /\ Carried(r.cards, m.cards)
               /\ DOMAIN m.cards = DOMAIN r.cards
  <1> DEFINE s == r.stack
             ids == DOMAIN r.cards
             n == Len(s)
             id == s[n]
             front == SubSeq(s, 1, n - 1)
             m == Advising(r, id, front)
  <1>0. /\ RegistryShape(r, last) /\ MarksAgree(r) /\ Merited(r.cards, hand, s, r.active)
        /\ s \in Seq(ids) /\ n <= StackLimit /\ StackLimit \in Nat
    BY LabAssumption DEF RegistryStands, RegistryShape
  <1>1. n \in Nat /\ n > 0 /\ id \in ids /\ \A i \in 1..n : s[i] \in ids
    BY <1>0
  <1>2. front \in Seq(ids) /\ Len(front) = n - 1 /\ \A i \in 1..n - 1 : front[i] = s[i]
    <2> HIDE DEF s, ids, n
    <2>1. n - 1 \in Int /\ 1 \in Int /\ \A i \in 1..n - 1 : s[i] \in ids
      BY <1>1
    <2>2. /\ front \in Seq(ids) /\ Len(front) = (IF 1 <= n - 1 THEN n - 1 - 1 + 1 ELSE 0)
          /\ \A i \in 1..n - 1 - 1 + 1 : front[i] = s[1 + i - 1]
      BY <2>1, SubSeqProperties
    <2> HIDE DEF front
    <2>3. Len(front) = n - 1
      BY <1>1, <2>2
    <2>4. ASSUME NEW i \in 1..n - 1 PROVE front[i] = s[i]
      <3>1. i \in 1..n - 1 - 1 + 1 /\ 1 + i - 1 = i
        BY <1>1
      <3>. QED BY <2>2, <3>1
    <2>. QED BY <2>2, <2>3, <2>4
  <1>3. Merited(r.cards, hand, front, {id})
    <2>1. \A i \in 1..n : Admitted(r.cards, hand, s[i])
      BY <1>0 DEF Merited
    <2>2. \A i \in 1..n, j \in 1..n : j = i + 1 => Follows(r.cards, hand, s[i], s[j])
      BY <1>0 DEF Merited
    <2> HIDE DEF s, ids, n, front
    <2>3. \A i \in 1..Len(front) : Admitted(r.cards, hand, front[i])
      BY <1>1, <1>2, <2>1
    <2>4. \A i \in 1..Len(front), j \in 1..Len(front) :
              j = i + 1 => Follows(r.cards, hand, front[i], front[j])
      BY <1>1, <1>2, <2>2
    <2>5. Admitted(r.cards, hand, id)
      BY <1>1, <2>1
    <2>6. Len(front) > 0 => Follows(r.cards, hand, front[Len(front)], id)
      <3> SUFFICES ASSUME Len(front) > 0 PROVE Follows(r.cards, hand, front[Len(front)], id)
        OBVIOUS
      <3>1. n - 1 \in 1..n /\ n \in 1..n /\ n = (n - 1) + 1 /\ n - 1 \in 1..n - 1
        BY <1>1, <1>2
      <3>2. front[Len(front)] = s[n - 1]
        BY <1>2, <3>1
      <3>3. Follows(r.cards, hand, s[n - 1], s[n])
        BY <2>2, <3>1
      <3>. QED BY <3>2, <3>3
    <2>. QED BY <2>3, <2>4, <2>5, <2>6 DEF Merited
  <1>4. RolledBack(r) = m
    BY DEF RolledBack
  <1>5. Len(front) <= StackLimit
    BY <1>0, <1>1, <1>2
  <1> HIDE DEF s, n, front, id
  <1>6. /\ RegistryShape(m, last) /\ MarksAgree(m) /\ Carried(r.cards, m.cards)
        /\ DOMAIN m.cards = DOMAIN r.cards /\ m.active = {id} /\ m.stack = front
    BY <1>0, <1>1, <1>2, <1>5, MarkMoves
  <1> HIDE DEF m
  <1>7. Merited(m.cards, hand, m.stack, m.active)
    BY <1>1, <1>2, <1>3, <1>6, MeritedCarried
  <1>. QED BY <1>4, <1>6, <1>7 DEF RegistryStands

(* A record more, neither active nor one a rollback returns to.              *)
LEMMA RegistrationKeeps ==
    ASSUME trained \in Nat, RegistryStands(registry, trained, byHand), NEW result,
           NEW id, id = trained + 1
    PROVE  LET r == registry
               m == Registered(r, id, result)
           IN  /\ RegistryStands(m, id, byHand) /\ Carried(r.cards, m.cards)
               /\ DOMAIN m.cards = DOMAIN r.cards \cup {id} /\ id \notin DOMAIN r.cards
               /\ m.active = r.active
               /\ m.cards[id].auc = result.auc /\ m.cards[id].cv = result.cv
               /\ m.cards[id].state = "evaluated"
  <1> DEFINE r == registry
             last == trained
             hand == byHand
             ids == DOMAIN r.cards
             card == Record(r, result)
             cards == [x \in ids \cup {id} |-> IF x = id THEN card ELSE r.cards[x]]
             m == [cards |-> cards, active |-> r.active, stack |-> r.stack]
  <1>0. /\ RegistryShape(r, last) /\ MarksAgree(r)
        /\ Merited(r.cards, hand, r.stack, r.active)
        /\ ids \subseteq 1..last /\ \A x \in ids : HasFields(r.cards[x])
        /\ r.active \subseteq ids /\ r.stack \in Seq(ids) /\ Len(r.stack) <= StackLimit
        /\ AtMostOne(r.active)
    BY DEF RegistryStands, RegistryShape
  <1>1. id \notin ids /\ ids \cup {id} \subseteq 1..id
    BY <1>0
  <1>2. HasFields(card) /\ card.auc = result.auc /\ card.cv = result.cv /\ card.state = "evaluated"
    BY DEF Record, HasFields
  <1>3. Registered(r, id, result) = [r EXCEPT !.cards = cards]
    BY DEF Registered
  <1>4. [r EXCEPT !.cards = cards] = m
    BY <1>0, CardsSet
  <1> HIDE DEF card
  <1>5. Carried(r.cards, cards) /\ DOMAIN cards = ids \cup {id} /\ cards[id] = card
    BY <1>1 DEF Carried
  <1>6. \A x \in DOMAIN cards : HasFields(cards[x])
    BY <1>0, <1>2
  <1>7. r.stack \in Seq(DOMAIN cards)
    <2>1. Seq(ids) \subseteq Seq(ids \cup {id})
      BY SeqMonotonic
    <2>. QED BY <1>0, <1>5, <2>1
  <1>8. RegistryShape(m, id)
    <2>1. cards = [x \in DOMAIN cards |-> cards[x]]
      OBVIOUS
    <2>. QED BY <1>0, <1>1, <1>5, <1>6, <1>7, <2>1 DEF RegistryShape
  <1>9. MarksAgree(m)
    <2>1. id \notin r.active
      BY <1>0, <1>1
    <2>2. \A x \in ids : cards[x] = r.cards[x]
      BY <1>1
    <2>. QED BY <1>0, <1>2, <1>5, <2>1, <2>2 DEF MarksAgree
  <1>10. Merited(cards, hand, r.stack, r.active)
    BY <1>0, <1>5, MeritedCarried
  <1>. QED BY <1>1, <1>2, <1>3, <1>4, <1>5, <1>8, <1>9, <1>10 DEF RegistryStands

(* A judgement on a record that is not active.                               *)
LEMMA JudgementKeeps ==
    ASSUME NEW r, NEW last \in Nat, NEW hand, RegistryStands(r, last, hand),
           NEW id \in DOMAIN r.cards, id \notin r.active, NEW state, state # "active"
    PROVE  LET m == Marked(r, id, state)
           IN  /\ RegistryStands(m, last, hand) /\ Carried(r.cards, m.cards)
               /\ DOMAIN m.cards = DOMAIN r.cards /\ m.active = r.active
  <1> DEFINE m == Marked(r, id, state)
  <1>0. /\ RegistryShape(r, last) /\ MarksAgree(r)
        /\ Merited(r.cards, hand, r.stack, r.active)
        /\ r.active \in SUBSET DOMAIN r.cards /\ r.stack \in Seq(DOMAIN r.cards)
    BY DEF RegistryStands, RegistryShape
  <1>1. /\ RegistryShape(m, last) /\ Carried(r.cards, m.cards)
        /\ DOMAIN m.cards = DOMAIN r.cards /\ m.active = r.active /\ m.stack = r.stack
        /\ m.cards[id].state = state
        /\ \A x \in DOMAIN r.cards : x # id => m.cards[x].state = r.cards[x].state
    BY <1>0, MarkedIs
  <1> HIDE DEF m
  <1>2. MarksAgree(m)
    BY <1>0, <1>1 DEF MarksAgree
  <1>3. Merited(m.cards, hand, m.stack, m.active)
    BY <1>0, <1>1, MeritedCarried
  <1>. QED BY <1>1, <1>2, <1>3 DEF RegistryStands, m

LEMMA StandsLater ==
    ASSUME NEW r, NEW last \in Nat, NEW later \in Nat, last <= later, NEW hand, NEW more,
           hand \subseteq more, RegistryStands(r, last, hand)
    PROVE  RegistryStands(r, later, more)
  <1>0. /\ RegistryShape(r, last) /\ MarksAgree(r)
        /\ Merited(r.cards, hand, r.stack, r.active)
        /\ r.active \in SUBSET DOMAIN r.cards /\ r.stack \in Seq(DOMAIN r.cards)
    BY DEF RegistryStands, RegistryShape
  <1>1. 1..last \subseteq 1..later
    OBVIOUS
  <1>2. RegistryShape(r, later)
    BY <1>0, <1>1 DEF RegistryShape
  <1>3. Carried(r.cards, r.cards)
    BY DEF Carried
  <1>4. Merited(r.cards, more, r.stack, r.active)
    BY <1>0, <1>3, MeritedCarried
  <1>. QED BY <1>0, <1>2, <1>4 DEF RegistryStands

LEMMA NoModelsStand ==
    ASSUME NEW last \in Nat, NEW hand
    PROVE  /\ RegistryStands(NoModels, last, hand) /\ DOMAIN NoModels.cards = {}
           /\ \A have, lost : Answers(NoModels.cards, have, lost)
  <1>1. /\ NoModels = [cards |-> <<>>, active |-> {}, stack |-> <<>>]
        /\ NoModels.cards = <<>> /\ NoModels.active = {} /\ NoModels.stack = <<>>
    BY DEF NoModels
  <1>2. NoModels.cards = [id \in DOMAIN NoModels.cards |-> NoModels.cards[id]]
    BY <1>1, NothingFiled
  <1>3. Len(<<>>) = 0 /\ <<>> \in Seq({}) /\ StackLimit \in Nat
    BY LabAssumption, EmptySeq
  <1>4. RegistryShape(NoModels, last)
    BY <1>1, <1>2, <1>3, NothingFiled DEF RegistryShape, AtMostOne
  <1>5. MarksAgree(NoModels)
    BY <1>1, NothingFiled DEF MarksAgree
  <1>6. Merited(NoModels.cards, hand, NoModels.stack, NoModels.active)
    BY <1>1, <1>3 DEF Merited
  <1>. QED BY <1>1, <1>4, <1>5, <1>6, NothingFiled DEF RegistryStands, Answers

(* Whatever of the night is written, the registry it leaves stands.          *)
LEMMA NightKeeps ==
    ASSUME trained \in Nat, RegistryStands(registry, trained, byHand), NEW result, NEW activate,
           NEW n \in DOMAIN Nights(result, trained + 1, activate)
    PROVE  LET r == Nights(result, trained + 1, activate)[n]
           IN  /\ RegistryStands(r, trained + 1, byHand) /\ Carried(registry.cards, r.cards)
               /\ DOMAIN r.cards = DOMAIN registry.cards \cup {trained + 1}
  <1> DEFINE id == trained + 1
             Sound(r) == /\ RegistryStands(r, id, byHand) /\ Carried(registry.cards, r.cards)
                        /\ DOMAIN r.cards = DOMAIN registry.cards \cup {id}
             filed == Registered(registry, id, result)
  <1>1. /\ Sound(filed) /\ id \notin DOMAIN registry.cards /\ filed.active = registry.active
        /\ filed.cards[id].auc = result.auc /\ filed.cards[id].cv = result.cv
    BY RegistrationKeeps
  <1>2. id \in Nat /\ registry.active \subseteq DOMAIN registry.cards
    BY DEF RegistryStands, RegistryShape
  <1> HIDE DEF filed
  <1>3. \A state : state # "active" =>
            /\ Sound(Marked(filed, id, state)) /\ Marked(filed, id, state).active = registry.active
            /\ Carried(filed.cards, Marked(filed, id, state).cards)
    <2> SUFFICES ASSUME NEW state, state # "active"
                 PROVE  /\ Sound(Marked(filed, id, state))
                        /\ Marked(filed, id, state).active = registry.active
                        /\ Carried(filed.cards, Marked(filed, id, state).cards)
      OBVIOUS
    <2> DEFINE m == Marked(filed, id, state)
    <2>1. id \in DOMAIN filed.cards /\ id \notin filed.active
      BY <1>1, <1>2
    <2>2. /\ RegistryStands(m, id, byHand) /\ Carried(filed.cards, m.cards)
          /\ DOMAIN m.cards = DOMAIN filed.cards /\ m.active = filed.active
      BY <1>1, <1>2, <2>1, JudgementKeeps
    <2> HIDE DEF m
    <2>3. Carried(registry.cards, m.cards)
      BY <1>1, <2>2, CarriedOn
    <2>. QED BY <1>1, <2>2, <2>3 DEF m
  <1> DEFINE approved == Marked(filed, id, "approved")
             rejected == Marked(filed, id, "rejected")
  <1>4. Sound(rejected)
    BY <1>3
  <1>5. /\ Sound(approved) /\ approved.active = registry.active
        /\ Carried(filed.cards, approved.cards)
    BY <1>3
  <1> HIDE DEF approved, rejected
  <1>6. CASE EvaluateModel(result)
    <2> DEFINE m == Activated(approved, id)
    <2>1. id \in DOMAIN approved.cards /\ Admitted(approved.cards, byHand, id)
      BY <1>1, <1>5, <1>6 DEF EvaluateModel, Admitted, Carried
    <2>2. \A a \in approved.active : a = id \/ Follows(approved.cards, byHand, a, id)
      <3> SUFFICES ASSUME NEW a \in approved.active PROVE Follows(approved.cards, byHand, a, id)
        OBVIOUS
      <3>1. a \in DOMAIN registry.cards /\ a \in registry.active /\ a # id
        BY <1>1, <1>2, <1>5
      <3>2. approved.cards[a].auc = registry.cards[a].auc
        BY <1>5, <3>1 DEF Carried
      <3>3. approved.cards[id].auc = result.auc
        BY <1>1, <1>5 DEF Carried
      <3>. QED BY <1>6, <3>1, <3>2, <3>3 DEF Follows, EvaluateModel
    <2>3. /\ RegistryStands(m, id, byHand) /\ Carried(approved.cards, m.cards)
          /\ DOMAIN m.cards = DOMAIN approved.cards
      BY <1>2, <1>5, <2>1, <2>2, ActivationKeeps
    <2> HIDE DEF m
    <2>4. Carried(registry.cards, m.cards)
      BY <1>5, <2>3, CarriedOn
    <2>5. Sound(m)
      BY <1>5, <2>3, <2>4
    <2> HIDE DEF Sound
    <2>6. CASE activate
      <3>1. Nights(result, id, activate) = <<filed, approved, m>>
        BY <1>6, <2>6 DEF Nights, filed, approved, m
      <3>2. n \in 1..3
        BY <3>1
      <3>3. n = 1 \/ n = 2 \/ n = 3
        BY <3>2
      <3>4. Sound(Nights(result, id, activate)[n])
        BY <1>1, <1>5, <2>5, <3>1, <3>3
      <3>. QED BY <3>4 DEF Sound
    <2>7. CASE ~activate
      <3>1. Nights(result, id, activate) = <<filed, approved>>
        BY <1>6, <2>7 DEF Nights, filed, approved
      <3>2. n \in 1..2
        BY <3>1
      <3>3. n = 1 \/ n = 2
        BY <3>2
      <3>4. Sound(Nights(result, id, activate)[n])
        BY <1>1, <1>5, <3>1, <3>3
      <3>. QED BY <3>4 DEF Sound
    <2>. QED BY <2>6, <2>7
  <1>7. CASE ~EvaluateModel(result)
    <2> HIDE DEF Sound
    <2>1. Nights(result, id, activate) = <<filed, rejected>>
      BY <1>7 DEF Nights, filed, rejected
    <2>2. n \in 1..2
      BY <2>1
    <2>3. n = 1 \/ n = 2
      BY <2>2
    <2>4. Sound(Nights(result, id, activate)[n])
      BY <1>1, <1>4, <2>1, <2>3
    <2>. QED BY <2>4 DEF Sound
  <1>. QED BY <1>6, <1>7

(* A write leaves no model that is neither on disk nor known to be missing.  *)
LEMMA WriteKeeps ==
    ASSUME NEW ids, NEW r, ModelsWritten(ids, r), NEW cards, Answers(cards, ids, spoilt)
    PROVE  /\ modelFiles \subseteq modelFiles' /\ modelFiles' \subseteq modelFiles \cup ids
           /\ spoilt \subseteq spoilt' /\ Answers(cards, modelFiles', spoilt')
           /\ Answers(cards, ids, spoilt')
  BY DEF ModelsWritten, Answers

LEMMA AnswersCarried ==
    ASSUME NEW old, NEW new, NEW have, NEW lost, NEW ids, Carried(old, new),
           Answers(old, have, lost), DOMAIN new = DOMAIN old \cup ids, ids \subseteq have
    PROVE  Answers(new, have, lost)
  BY DEF Answers, Carried

LEMMA LabStarts == LabInit => LabInv
  <1> SUFFICES ASSUME LabInit PROVE LabInv
    OBVIOUS
  <1>1. /\ journalled = 0 /\ registry = NoModels /\ records = NoModels /\ models = {}
        /\ modelFiles = {} /\ trained = 0 /\ confidence = "full"
    BY DEF LabInit
  <1>2. trained \in Nat /\ LabShapes
    BY <1>1, LabAssumption DEF LabShapes
  <1>. QED BY <1>1, <1>2, NoModelsStand DEF LabInv

(* A write by the running process of a registry that stands.                 *)
LEMMA RunningWrite ==
    ASSUME LabInv, trained' \in 0..MaxModels, trained <= trained', byHand \subseteq byHand',
           journalled' = journalled, confidence' = confidence,
           RegistryStands(registry', trained', byHand'), Carried(registry.cards, registry'.cards),
           NEW new, DOMAIN registry'.cards = DOMAIN registry.cards \cup new,
           models' = models \cup new,
           records' \in Written(registry'), ModelsWritten(models', registry')
    PROVE  LabInv'
  <1> DEFINE cards == registry.cards
             cards2 == registry'.cards
             file == records.cards
  <1>0. /\ LabShapes /\ Answers(cards, models, spoilt) /\ Answers(file, modelFiles, spoilt)
        /\ RegistryStands(records, trained, byHand)
        /\ trained \in Nat /\ trained' \in Nat
        /\ models \subseteq DOMAIN cards /\ modelFiles \subseteq 1..trained
    BY LabAssumption DEF LabInv, LabShapes
  <1>1. Answers(cards2, models', spoilt)
    <2>1. Answers(cards, models', spoilt)
      BY <1>0 DEF Answers
    <2> HIDE DEF cards, cards2
    <2>. QED BY <2>1, AnswersCarried DEF cards, cards2
  <1> HIDE DEF cards2, cards, file
  <1>2. /\ modelFiles \subseteq modelFiles' /\ modelFiles' \subseteq modelFiles \cup models'
        /\ spoilt \subseteq spoilt' /\ Answers(cards2, modelFiles', spoilt')
        /\ Answers(cards2, models', spoilt')
    BY <1>1, WriteKeeps
  <1>3. Answers(file, modelFiles', spoilt')
    BY <1>0, <1>2 DEF Answers
  <1>4. RegistryStands(records, trained', byHand')
    BY <1>0, StandsLater
  <1>5. RegistryStands(records', trained', byHand') /\ Answers(records'.cards, modelFiles', spoilt')
    BY <1>0, <1>2, <1>3, <1>4, NoModelsStand DEF Written, cards2, file
  <1>6. models' \subseteq DOMAIN registry'.cards /\ DOMAIN registry'.cards \subseteq 1..trained'
    BY <1>0 DEF RegistryStands, RegistryShape, cards
  <1>7. modelFiles' \subseteq 1..trained'
    BY <1>0, <1>2, <1>6
  <1>8. LabShapes'
    BY <1>0, <1>6, <1>7 DEF LabShapes
  <1>. QED BY <1>2, <1>5, <1>8 DEF LabInv, cards2

(* The process that starts stands on what the files hold.                    *)
LEMMA LoadedStands ==
    ASSUME Loaded, journalled' \in 0..MaxTrades, trained' \in 0..MaxModels,
           RegistryStands(records', trained', byHand'), modelFiles' \subseteq 1..trained',
           Answers(records'.cards, modelFiles', spoilt')
    PROVE  LabInv'
  <1>1. registry' = records' /\ models' = modelFiles' \cap DOMAIN records'.cards
        /\ confidence' = "full"
    BY DEF Loaded, Rehydrated
  <1>2. Answers(registry'.cards, models', spoilt')
    BY <1>1 DEF Answers
  <1>. QED BY <1>1, <1>2 DEF LabInv, LabShapes

LEMMA LabSteps == LabInv /\ (LabNext \/ UNCHANGED labVars) => LabInv'
  <1> SUFFICES ASSUME LabInv, LabNext \/ UNCHANGED labVars PROVE LabInv'
    OBVIOUS
  <1>0. /\ LabShapes /\ trained \in Nat
        /\ RegistryStands(registry, trained, byHand) /\ RegistryStands(records, trained, byHand)
        /\ Answers(registry.cards, models, spoilt) /\ Answers(records.cards, modelFiles, spoilt)
    BY LabAssumption DEF LabInv, LabShapes
  <1>1. CASE TradeJournalled
    <2>1. /\ journalled < MaxTrades /\ journalled' = journalled + 1
          /\ UNCHANGED <<registry, records, models, modelFiles, trained, confidence, byHand, spoilt>>
      BY <1>1 DEF TradeJournalled
    <2>2. LabShapes'
      BY <1>0, <2>1, LabAssumption DEF LabShapes
    <2>. QED BY <1>0, <2>1, <2>2 DEF LabInv
  <1>2. CASE NightlyTraining
    <2>1. PICK result \in Results, activate \in AutoActivate :
              LET night == Nights(result, trained + 1, activate) IN registry' = night[Len(night)]
      BY <1>2 DEF NightlyTraining
    <2> DEFINE night == Nights(result, trained + 1, activate)
    <2>2. Len(night) \in DOMAIN night
      BY DEF Nights
    <2>3. /\ RegistryStands(registry', trained + 1, byHand)
          /\ Carried(registry.cards, registry'.cards)
          /\ DOMAIN registry'.cards = DOMAIN registry.cards \cup {trained + 1}
      <3> DEFINE n == Len(night)
      <3>1. n \in DOMAIN night /\ registry' = night[n]
        BY <2>1, <2>2
      <3> HIDE DEF n
      <3>. QED BY <1>0, <3>1, NightKeeps
    <2>4. /\ trained < MaxModels /\ trained' = trained + 1 /\ models' = models \cup {trained'}
          /\ records' \in Written(registry') /\ ModelsWritten(models', registry')
          /\ UNCHANGED <<journalled, confidence, byHand>>
      BY <1>2 DEF NightlyTraining
    <2>5. trained' \in 0..MaxModels /\ trained <= trained'
      BY <1>0, <2>4, LabAssumption
    <2>. QED BY <2>3, <2>4, <2>5, RunningWrite
  <1>3. CASE ActivateModel
    <2>1. PICK id \in DOMAIN registry.cards :
              registry' = Activated(registry, id) /\ byHand' = byHand \cup {id}
      BY <1>3 DEF ActivateModel
    <2>2. /\ models' = models /\ records' \in Written(registry')
          /\ ModelsWritten(models', registry') /\ UNCHANGED <<journalled, trained, confidence>>
      BY <1>3 DEF ActivateModel
    <2>3. RegistryStands(registry, trained, byHand')
      BY <1>0, <2>1, StandsLater
    <2>4. Admitted(registry.cards, byHand', id)
          /\ \A a \in registry.active : a = id \/ Follows(registry.cards, byHand', a, id)
      BY <2>1 DEF Admitted, Follows
    <2>5. /\ RegistryStands(registry', trained, byHand')
          /\ Carried(registry.cards, registry'.cards)
          /\ DOMAIN registry'.cards = DOMAIN registry.cards \cup {}
      BY <1>0, <2>1, <2>3, <2>4, ActivationKeeps
    <2>6. models' = models \cup {} /\ trained' \in 0..MaxModels /\ trained <= trained'
      BY <1>0, <2>2 DEF LabShapes
    <2>. QED BY <2>1, <2>2, <2>5, <2>6, RunningWrite
  <1>4. CASE RollbackModel
    <2>1. /\ registry.stack # <<>> /\ registry' = RolledBack(registry) /\ models' = models
          /\ records' \in Written(registry') /\ ModelsWritten(models', registry')
          /\ UNCHANGED <<journalled, trained, confidence, byHand>>
      BY <1>4 DEF RollbackModel
    <2>2. /\ RegistryStands(registry', trained, byHand)
          /\ Carried(registry.cards, registry'.cards)
          /\ DOMAIN registry'.cards = DOMAIN registry.cards \cup {}
      BY <1>0, <2>1, RollbackKeeps
    <2>3. models' = models \cup {} /\ trained' \in 0..MaxModels /\ trained <= trained'
      BY <1>0, <2>1 DEF LabShapes
    <2>. QED BY <2>1, <2>2, <2>3, RunningWrite
  <1>5. CASE RunDriftCheck
    <2>1. UNCHANGED <<journalled, registry, records, models, modelFiles, trained, byHand, spoilt>>
      BY <1>5 DEF RunDriftCheck
    <2>2. confidence' \in {"full", "reduced"}
      BY <1>5 DEF RunDriftCheck, Factor
    <2>. QED BY <1>0, <2>1, <2>2 DEF LabInv, LabShapes
  <1>6. CASE RestartLab
    <2>1. Loaded /\ UNCHANGED <<journalled, records, modelFiles, trained, byHand, spoilt>>
      BY <1>6 DEF RestartLab
    <2>. QED BY <1>0, <2>1, LoadedStands DEF LabShapes
  <1>7. CASE TrainingCut
    <2>1. PICK result \in Results, activate \in AutoActivate :
              LET night == Nights(result, trained', activate)
              IN  \E n \in DOMAIN night :
                    /\ records' \in {night[n], NoModels}
                    /\ ModelsWritten(models \cup {trained'}, night[n])
      BY <1>7 DEF TrainingCut
    <2>2. Loaded /\ trained < MaxModels /\ trained' = trained + 1 /\ UNCHANGED <<journalled, byHand>>
      BY <1>7 DEF TrainingCut
    <2> DEFINE night == Nights(result, trained + 1, activate)
    <2>3. PICK n \in DOMAIN night : /\ records' \in {night[n], NoModels}
                                    /\ ModelsWritten(models \cup {trained'}, night[n])
      BY <2>1, <2>2
    <2> DEFINE r == night[n]
               ids == models \cup {trained'}
    <2>4. /\ RegistryStands(r, trained + 1, byHand) /\ Carried(registry.cards, r.cards)
          /\ DOMAIN r.cards = DOMAIN registry.cards \cup {trained + 1}
      BY <1>0, NightKeeps
    <2> HIDE DEF r, night
    <2>5. Answers(r.cards, ids, spoilt)
      <3>1. Answers(registry.cards, ids, spoilt)
        BY <1>0 DEF Answers
      <3>2. DOMAIN r.cards = DOMAIN registry.cards \cup {trained'} /\ {trained'} \subseteq ids
        BY <2>2, <2>4
      <3>3. \A id \in DOMAIN registry.cards : r.cards[id].kind = registry.cards[id].kind
        BY <2>4 DEF Carried
      <3>. QED BY <3>1, <3>2, <3>3 DEF Answers
    <2>6. ModelsWritten(ids, r)
      BY <2>3 DEF r
    <2> HIDE DEF ids
    <2>7. modelFiles' \subseteq modelFiles \cup ids /\ Answers(r.cards, modelFiles', spoilt')
      BY <2>5, <2>6, WriteKeeps
    <2>8. modelFiles' \subseteq 1..trained'
      <3>1. /\ modelFiles \subseteq 1..trained /\ models \subseteq DOMAIN registry.cards
            /\ DOMAIN registry.cards \subseteq 1..trained
        BY <1>0 DEF LabShapes, RegistryStands, RegistryShape
      <3>. QED BY <1>0, <2>2, <2>7, <3>1 DEF ids
    <2>9. trained' \in 0..MaxModels /\ trained' \in Nat /\ journalled' \in 0..MaxTrades
      BY <1>0, <2>2, LabAssumption DEF LabShapes
    <2>10. /\ RegistryStands(records', trained', byHand')
           /\ Answers(records'.cards, modelFiles', spoilt')
      BY <2>2, <2>3, <2>4, <2>7, <2>9, NoModelsStand DEF r
    <2>. QED BY <2>2, <2>8, <2>9, <2>10, LoadedStands
  <1>8. CASE UNCHANGED labVars
    BY <1>0, <1>8 DEF LabInv, LabShapes, labVars
  <1>. QED BY <1>1, <1>2, <1>3, <1>4, <1>5, <1>6, <1>7, <1>8 DEF LabNext

LEMMA LabPromises ==
    LabInv => /\ LabTypeOK /\ OneActiveModel /\ PromotedOnMerit /\ RollbackChanges
              /\ AdvisesAfterRestart
  <1> SUFFICES ASSUME LabInv
               PROVE  /\ LabTypeOK /\ OneActiveModel /\ PromotedOnMerit /\ RollbackChanges
                      /\ AdvisesAfterRestart
    OBVIOUS
  <1>0. /\ LabShapes /\ RegistryStands(registry, trained, byHand)
        /\ RegistryStands(records, trained, byHand)
        /\ Answers(registry.cards, models, spoilt)
    BY DEF LabInv
  <1>1. LabTypeOK
    <2>1. \A r \in {registry, records} :
              /\ DOMAIN r.cards \subseteq 1..trained /\ r.active \subseteq DOMAIN r.cards
              /\ AtMostOne(r.active) /\ Len(r.stack) <= StackLimit
      BY <1>0 DEF RegistryStands, RegistryShape
    <2>2. \A r \in {registry, records} : Cardinality(r.active) <= 1
      <3> SUFFICES ASSUME NEW r \in {registry, records} PROVE Cardinality(r.active) <= 1
        OBVIOUS
      <3>1. CASE r.active = {}
        <4>1. Cardinality({}) = 0
          BY FS_EmptySet
        <4>. QED BY <3>1, <4>1
      <3>2. CASE r.active # {}
        <4>1. PICK id \in r.active : r.active = {id}
          BY <2>1, <3>2 DEF AtMostOne
        <4>2. Cardinality({id}) = 1
          BY FS_Singleton
        <4>. QED BY <4>1, <4>2
      <3>. QED BY <3>1, <3>2
    <2>. QED BY <1>0, <2>1, <2>2 DEF LabTypeOK, LabShapes
  <1>2. OneActiveModel
    BY <1>0 DEF OneActiveModel, RegistryStands, RegistryShape, MarksAgree
  <1>3. AdvisesAfterRestart
    BY <1>0 DEF AdvisesAfterRestart, Answers, RegistryStands, RegistryShape
  <1> DEFINE s == registry.stack
             ids == DOMAIN registry.cards
             n == Len(s)
  <1>4. /\ s \in Seq(ids) /\ registry.active \subseteq ids /\ AtMostOne(registry.active)
        /\ Merited(registry.cards, byHand, s, registry.active)
    BY <1>0 DEF RegistryStands, RegistryShape
  <1>5. CASE registry.active = {}
    <2>1. n = 0
      BY <1>4, <1>5 DEF Merited
    <2>2. s = <<>>
      BY <1>4, <2>1
    <2>3. Chain = <<>>
      <3>1. ActiveSeq(registry) = <<>>
        BY <1>4, <1>5, ActiveIs
      <3>2. Chain = <<>> \o <<>>
        BY <2>2, <3>1 DEF Chain
      <3>. QED BY <3>2
    <2>. QED BY <1>1, <1>2, <1>3, <2>3 DEF PromotedOnMerit, RollbackChanges
  <1>6. CASE registry.active # {}
    <2>1. PICK a \in registry.active : registry.active = {a} /\ ActiveSeq(registry) = <<a>>
      BY <1>4, <1>6, ActiveIs
    <2>2. /\ \A i \in 1..n : Admitted(registry.cards, byHand, s[i])
          /\ \A i \in 1..n, j \in 1..n : j = i + 1 => Follows(registry.cards, byHand, s[i], s[j])
          /\ Admitted(registry.cards, byHand, a)
          /\ n > 0 => Follows(registry.cards, byHand, s[n], a)
      BY <1>4, <2>1 DEF Merited
    <2>3. s \in Seq(ids) /\ a \in ids /\ n \in Nat /\ n = Len(s)
      BY <1>4, <2>1
    <2>4. Chain = s \o <<a>>
      BY <2>1 DEF Chain
    <2> HIDE DEF s, ids, n
    <2>5. Chain = Append(s, a)
      BY <2>3, <2>4, AppendIsConcat
    <2>6. /\ Chain \in Seq(ids) /\ Len(Chain) = n + 1 /\ Chain[n + 1] = a
          /\ \A i \in 1..n : Chain[i] = s[i]
      BY <2>3, <2>5, AppendProperties
    <2>7. DOMAIN Chain = 1..n + 1
      BY <2>6
    <2> HIDE DEF Chain
    <2>8. \A i \in 1..n + 1 : Admitted(registry.cards, byHand, Chain[i])
      <3> SUFFICES ASSUME NEW i \in 1..n + 1 PROVE Admitted(registry.cards, byHand, Chain[i])
        OBVIOUS
      <3>1. CASE i = n + 1
        BY <2>2, <2>6, <3>1
      <3>2. CASE i # n + 1
        <4>1. i \in 1..n
          BY <2>3, <3>2
        <4>. QED BY <2>2, <2>6, <4>1
      <3>. QED BY <3>1, <3>2
    <2>9. \A i \in 1..n + 1, j \in 1..n + 1 :
              j = i + 1 => Follows(registry.cards, byHand, Chain[i], Chain[j])
      <3> SUFFICES ASSUME NEW i \in 1..n + 1, NEW j \in 1..n + 1, j = i + 1
                   PROVE  Follows(registry.cards, byHand, Chain[i], Chain[j])
        OBVIOUS
      <3>1. i \in 1..n /\ Chain[i] = s[i]
        BY <2>3, <2>6
      <3>2. CASE j = n + 1
        <4>1. i = n /\ n > 0 /\ Chain[j] = a
          BY <2>3, <2>6, <3>1, <3>2
        <4>. QED BY <2>2, <3>1, <4>1
      <3>3. CASE j # n + 1
        <4>1. j \in 1..n /\ Chain[j] = s[j]
          <5>1. j \in 1..n
            BY <2>3, <3>3
          <5>. QED BY <2>6, <5>1
        <4>. QED BY <2>2, <3>1, <4>1
      <3>. QED BY <3>2, <3>3
    <2>10. RollbackChanges
      <3> SUFFICES ASSUME NEW i \in 1..Len(Chain) - 1 PROVE Chain[i] # Chain[i + 1]
        BY DEF RollbackChanges
      <3>1. i \in 1..n + 1 /\ i + 1 \in 1..n + 1
        BY <2>3, <2>6
      <3>2. Follows(registry.cards, byHand, Chain[i], Chain[i + 1])
        BY <2>9, <3>1
      <3>. QED BY <3>2 DEF Follows
    <2>11. PromotedOnMerit
      <3> SUFFICES ASSUME NEW i \in DOMAIN Chain, Chain[i] \notin byHand
                   PROVE  LET card == registry.cards[Chain[i]]
                          IN  /\ card.auc >= Gate.auc /\ card.cv >= Gate.cv
                              /\ i > 1 => card.auc >= registry.cards[Chain[i - 1]].auc
                                                      + Gate.improvement
        BY DEF PromotedOnMerit
      <3>1. i \in 1..n + 1
        BY <2>7
      <3>2. Admitted(registry.cards, byHand, Chain[i])
        BY <2>8, <3>1
      <3>3. i > 1 => Follows(registry.cards, byHand, Chain[i - 1], Chain[i])
        <4> SUFFICES ASSUME i > 1 PROVE Follows(registry.cards, byHand, Chain[i - 1], Chain[i])
          OBVIOUS
        <4>1. i - 1 \in 1..n + 1 /\ i = (i - 1) + 1
          BY <2>3, <3>1
        <4>. QED BY <2>9, <3>1, <4>1
      <3>. QED BY <3>2, <3>3 DEF Admitted, Follows
    <2>. QED BY <1>1, <1>2, <1>3, <2>10, <2>11
  <1>. QED BY <1>5, <1>6

-----------------------------------------------------------------------------
(* RuntimeConfig: the settings are the defaults under the overrides, and the *)
(* file holds both tables unless a write has been missed.                    *)

Table(over) == DOMAIN over \subseteq Paths /\ \A p \in DOMAIN over : over[p] \in Values

ConfigInv ==
    /\ settings = Over(Defaults, overrides) /\ built \in [Paths -> Values]
    /\ Table(overrides) /\ Table(saved.overrides)
    /\ DOMAIN intents \subseteq Strategies /\ DOMAIN saved.intents \subseteq Strategies
    /\ unsaved \in BOOLEAN
    /\ ~unsaved => saved.overrides = overrides /\ saved.intents = intents

LEMMA NoneIs == DOMAIN None = {} /\ Table(None) /\ Over(Defaults, None) = Defaults
  BY DEF None, Table, Over, Defaults

LEMMA OverType ==
    ASSUME NEW over, Table(over)
    PROVE  Over(Defaults, over) \in [Paths -> Values]
  BY ConfigAssumption DEF Over, Defaults, Table

LEMMA ConfigStarts == ConfigInit => ConfigInv
  <1> SUFFICES ASSUME ConfigInit PROVE ConfigInv
    OBVIOUS
  <1>1. /\ settings = Defaults /\ built = Defaults /\ overrides = None /\ intents = None
        /\ saved = [overrides |-> None, intents |-> None] /\ unsaved = FALSE
    BY DEF ConfigInit
  <1>2. saved.overrides = None /\ saved.intents = None
    BY <1>1
  <1>3. Defaults \in [Paths -> Values]
    BY ConfigAssumption DEF Defaults
  <1>. QED BY <1>1, <1>2, <1>3, NoneIs DEF ConfigInv

(* What a patch puts in force are values of whitelisted settings.            *)
LEMMA TakenIsATable ==
    ASSUME NEW patch \in Patches
    PROVE  Table(Applied(Prefix(patch)))
  <1> DEFINE Pair == (Paths \cup Foreign) \X (Values \cup {Junk})
             upTo == {n \in 0..Len(patch) : \A i \in 1..n : ~Refused(patch[i])}
             last == CHOOSE n \in upTo : \A m \in upTo : m <= n
  <1>1. /\ patch \in Seq(Pair) /\ Len(patch) \in {1, 2}
        /\ \A i \in 1..Len(patch) : patch[i] \in Pair
    <2>1. CASE \E e \in Pair : patch = <<e>>
      BY <2>1
    <2>2. CASE \E e, f \in Pair : patch = <<e, f>>
      BY <2>2
    <2>. QED BY <2>1, <2>2 DEF Patches
  <1>2. last \in upTo
    <2>1. 0 \in upTo /\ upTo \subseteq {0, 1, 2}
      BY <1>1
    <2> HIDE DEF upTo
    <2>2. \E n \in upTo : \A m \in upTo : m <= n
      <3>1. CASE 2 \in upTo
        BY <2>1, <3>1
      <3>2. CASE 2 \notin upTo /\ 1 \in upTo
        BY <2>1, <3>2
      <3>3. CASE 2 \notin upTo /\ 1 \notin upTo
        BY <2>1, <3>3
      <3>. QED BY <3>1, <3>2, <3>3
    <2>. QED BY <2>2
  <1>3. last \in 0..Len(patch) /\ \A i \in 1..last : ~Refused(patch[i])
    BY <1>2
  <1>4. Prefix(patch) = SubSeq(patch, 1, last)
    BY DEF Prefix
  <1> HIDE DEF upTo, last
  <1> DEFINE taken == Prefix(patch)
  <1>5. /\ DOMAIN taken \subseteq {1, 2}
        /\ \A i \in DOMAIN taken : /\ taken[i] \in Pair /\ ~Refused(taken[i])
    <2>1. \A i \in 1..last : patch[i] \in Pair
      BY <1>1, <1>3
    <2>2. 1 \in Int /\ last \in Int
      BY <1>1, <1>3
    <2>3. /\ SubSeq(patch, 1, last) \in Seq(Pair)
          /\ Len(SubSeq(patch, 1, last)) = IF 1 <= last THEN last - 1 + 1 ELSE 0
          /\ \A i \in 1..last - 1 + 1 : SubSeq(patch, 1, last)[i] = patch[1 + i - 1]
      BY <2>1, <2>2, SubSeqProperties
    <2>4. DOMAIN taken = 1..last
      <3>1. Len(taken) = last
        BY <1>1, <1>3, <1>4, <2>3
      <3>. QED BY <1>4, <2>3, <3>1
    <2>5. ASSUME NEW i \in DOMAIN taken PROVE taken[i] = patch[i]
      <3>1. i \in 1..last - 1 + 1 /\ 1 + i - 1 = i
        BY <2>2, <2>4
      <3>. QED BY <1>4, <2>3, <3>1
    <2>. QED BY <1>1, <1>3, <2>1, <2>4, <2>5
  <1> HIDE DEF taken
  <1> DEFINE At(p) == {i \in DOMAIN taken : taken[i][1] = p}
             Latest(p) == CHOOSE i \in DOMAIN taken :
                           /\ taken[i][1] = p
                           /\ \A j \in DOMAIN taken : taken[j][1] = p => j <= i
  <1>6. \A p : At(p) # {} => Latest(p) \in At(p)
    <2> SUFFICES ASSUME NEW p, At(p) # {} PROVE Latest(p) \in At(p)
      OBVIOUS
    <2>1. \E i \in At(p) : \A j \in At(p) : j <= i
      <3>1. At(p) \subseteq {1, 2}
        BY <1>5
      <3> HIDE DEF At
      <3>2. CASE 2 \in At(p)
        BY <3>1, <3>2
      <3>3. CASE 2 \notin At(p)
        BY <3>1, <3>3
      <3>. QED BY <3>2, <3>3
    <2>2. \E i \in DOMAIN taken : /\ taken[i][1] = p
                                  /\ \A j \in DOMAIN taken : taken[j][1] = p => j <= i
      BY <2>1
    <2>. QED BY <2>2
  <1>7. \A p \in {taken[i][1] : i \in DOMAIN taken} : At(p) # {}
    OBVIOUS
  <1>8. /\ DOMAIN Applied(taken) = {taken[i][1] : i \in DOMAIN taken}
        /\ \A p \in DOMAIN Applied(taken) : Applied(taken)[p] = taken[Latest(p)][2]
    BY DEF Applied
  <1>9. \A i \in DOMAIN taken : taken[i][1] \in Paths /\ taken[i][2] \in Values
    BY <1>5 DEF Refused
  <1> HIDE DEF Latest
  <1>10. \A p \in DOMAIN Applied(taken) : Latest(p) \in DOMAIN taken
    BY <1>6, <1>7, <1>8
  <1>. QED BY <1>8, <1>9, <1>10 DEF Table, taken

LEMMA PersistKeeps ==
    ASSUME Persist, Table(overrides'), Table(saved.overrides), DOMAIN intents' \subseteq Strategies,
           DOMAIN saved.intents \subseteq Strategies
    PROVE  /\ Table(saved'.overrides) /\ DOMAIN saved'.intents \subseteq Strategies
           /\ unsaved' \in BOOLEAN
           /\ ~unsaved' => saved'.overrides = overrides' /\ saved'.intents = intents'
  <1> DEFINE whole == [overrides |-> overrides', intents |-> intents']
             lost == [overrides |-> None, intents |-> None]
  <1>1. saved' \in {whole, saved, lost} /\ unsaved' = (saved' # whole)
    BY DEF Persist
  <1>2. whole.overrides = overrides' /\ whole.intents = intents'
    OBVIOUS
  <1>3. lost.overrides = None /\ lost.intents = None
    OBVIOUS
  <1> HIDE DEF whole, lost
  <1>. QED BY <1>1, <1>2, <1>3, NoneIs

LEMMA ConfigSteps == ConfigInv /\ (ConfigNext \/ UNCHANGED configVars) => ConfigInv'
  <1> SUFFICES ASSUME ConfigInv, ConfigNext \/ UNCHANGED configVars PROVE ConfigInv'
    OBVIOUS
  <1>0. /\ settings = Over(Defaults, overrides) /\ built \in [Paths -> Values]
        /\ Table(overrides) /\ Table(saved.overrides)
        /\ DOMAIN intents \subseteq Strategies /\ DOMAIN saved.intents \subseteq Strategies
        /\ unsaved \in BOOLEAN
        /\ ~unsaved => saved.overrides = overrides /\ saved.intents = intents
    BY DEF ConfigInv
  <1>1. CASE PatchConfig
    <2>1. PICK patch \in Patches :
            LET taken == Applied(Prefix(patch))
            IN  /\ settings' = Reached(taken)
                /\ overrides' = [p \in DOMAIN overrides \cup DOMAIN taken |->
                                   IF p \in DOMAIN taken THEN taken[p] ELSE overrides[p]]
                /\ UNCHANGED <<built, intents>>
                /\ IF Prefix(patch) = patch THEN Persist
                   ELSE UNCHANGED saved /\ unsaved' = (unsaved \/ overrides' # overrides)
      BY <1>1 DEF PatchConfig
    <2> DEFINE taken == Applied(Prefix(patch))
    <2>2. Table(taken)
      BY TakenIsATable
    <2> HIDE DEF taken
    <2>3. /\ settings' = Over(settings, taken)
          /\ overrides' = [p \in DOMAIN overrides \cup DOMAIN taken |->
                             IF p \in DOMAIN taken THEN taken[p] ELSE overrides[p]]
      BY <2>1 DEF Reached, taken
    <2>4. Table(overrides')
      BY <1>0, <2>2, <2>3 DEF Table
    <2>5. settings' = Over(Defaults, overrides')
      <3>1. /\ DOMAIN settings = Paths
            /\ \A p \in Paths : settings[p] = IF p \in DOMAIN overrides THEN overrides[p] ELSE Default
        BY <1>0 DEF Over, Defaults
      <3>2. \A p \in Paths : settings'[p] = IF p \in DOMAIN overrides' THEN overrides'[p] ELSE Default
        BY <2>3, <3>1 DEF Over
      <3>3. settings' = [p \in Paths |-> settings'[p]]
        BY <2>3, <3>1 DEF Over
      <3>4. Over(Defaults, overrides') =
              [p \in Paths |-> IF p \in DOMAIN overrides' THEN overrides'[p] ELSE Default]
        BY DEF Over, Defaults
      <3>. QED BY <3>2, <3>3, <3>4
    <2>6. CASE Prefix(patch) = patch
      BY <1>0, <2>1, <2>4, <2>5, <2>6, PersistKeeps DEF ConfigInv
    <2>7. CASE Prefix(patch) # patch
      <3>1. UNCHANGED <<saved, built, intents>> /\ unsaved' = (unsaved \/ overrides' # overrides)
        BY <2>1, <2>7
      <3>2. unsaved' \in BOOLEAN
            /\ (~unsaved' => saved'.overrides = overrides' /\ saved'.intents = intents')
        BY <1>0, <3>1
      <3>. QED BY <1>0, <2>4, <2>5, <3>1, <3>2 DEF ConfigInv
    <2>. QED BY <2>6, <2>7
  <1>2. CASE SetStrategy
    <2>1. PICK name \in Strategies, enabled \in BOOLEAN :
            /\ intents' = With(intents, name, enabled)
            /\ UNCHANGED <<settings, built, overrides>> /\ Persist
      BY <1>2 DEF SetStrategy
    <2>2. DOMAIN intents' \subseteq Strategies
      BY <1>0, <2>1 DEF With
    <2>3. Table(overrides')
      BY <1>0, <2>1 DEF Table
    <2>. QED BY <1>0, <2>1, <2>2, <2>3, PersistKeeps DEF ConfigInv
  <1>3. CASE RestartConfig
    <2>1. /\ overrides' = saved.overrides /\ intents' = saved.intents
          /\ settings' = Over(Defaults, saved.overrides) /\ built' = Over(Defaults, saved.overrides)
          /\ unsaved' = FALSE /\ UNCHANGED saved
      BY <1>3 DEF RestartConfig, Reapplied
    <2>2. built' \in [Paths -> Values]
      BY <1>0, <2>1, OverType
    <2>. QED BY <1>0, <2>1, <2>2 DEF ConfigInv
  <1>4. CASE UNCHANGED configVars
    BY <1>0, <1>4 DEF ConfigInv, configVars, Table
  <1>. QED BY <1>1, <1>2, <1>3, <1>4 DEF ConfigNext

LEMMA ConfigPromises == ConfigInv => ConfigTypeOK /\ ShownIsInForce
  <1> SUFFICES ASSUME ConfigInv PROVE ConfigTypeOK /\ ShownIsInForce
    OBVIOUS
  <1>1. settings \in [Paths -> Values]
    BY OverType DEF ConfigInv
  <1>2. \A p \in Hot \cap DOMAIN overrides : settings[p] = overrides[p]
    BY DEF ConfigInv, Over, Defaults, Paths
  <1>. QED BY <1>1, <1>2 DEF ConfigInv, ConfigTypeOK, ShownIsInForce, InForce, IsLive, Table

(* A restart changes nothing that was saved.                                 *)
LEMMA SettingsReturn ==
    ConfigInv /\ RestartConfig /\ ~unsaved =>
        /\ \A p \in Paths : settings'[p] = settings[p] /\ built'[p] = settings[p]
        /\ overrides' = overrides /\ intents' = intents
  BY DEF ConfigInv, RestartConfig, Reapplied

-----------------------------------------------------------------------------
(* SyncQueue: an entry is on one line at most, an entry on a line cut by a   *)
(* crash is given up, and one that was sent and is still on the file is one  *)
(* that the flush in progress knows of.                                      *)

Line == [entries : SUBSET Entries, whole : BOOLEAN]

LineHolds(line, n, lost) ==
    /\ line.entries \subseteq 1..n
    /\ line.whole => \E e : line.entries = {e}
    /\ ~line.whole => line.entries \subseteq lost

LinesHold(lines, n, lost) ==
    /\ lines \in Seq(Line)
    /\ \A i \in DOMAIN lines : LineHolds(lines[i], n, lost)
    /\ \A i, j \in DOMAIN lines : i # j => lines[i].entries \cap lines[j].entries = {}

Untold(e) == pages[e] > 0 => e \in ambiguous

FlushHolds(f) ==
    /\ f \in [lines : Seq(Line), left : Seq(Line), failing : Seq(Line)]
    /\ LinesHold(f.left, recorded, excused) /\ LinesHold(f.failing, recorded, excused)
    /\ On(f.left) \cap On(f.failing) = {} /\ On(f.left) \cup On(f.failing) \subseteq On(f.lines)
    /\ On(f.lines) \subseteq 1..recorded /\ inFlight \cap On(f.lines) = {}
    /\ \A e \in On(f.lines) :
           e \in On(f.left) \cup On(f.failing) \cup excused \/ pages[e] > 0
    /\ \A e \in On(f.left) \cup On(f.failing) : Untold(e)

QueueShapes ==
    /\ recorded \in 0..MaxEntries /\ crashes \in 0..MaxCrashes
    /\ pages \in [Entries -> 0..2]
    /\ inFlight \subseteq 1..recorded /\ local \subseteq 1..recorded
    /\ excused \subseteq 1..recorded /\ ambiguous \subseteq 1..recorded
    /\ AtMostOne(flushing)

Traced ==
    \A e \in On(queue) : Untold(e) \/ \E f \in flushing : e \in SentUnwritten(f)

LogInv ==
    /\ QueueShapes
    /\ LinesHold(queue, recorded, excused) /\ inFlight \cap On(queue) = {}
    /\ \A f \in flushing : FlushHolds(f)
    /\ \A e \in Entries : e > recorded => pages[e] = 0
    /\ \A e \in inFlight : Untold(e)
    /\ Traced /\ EntriesKept /\ DuplicatesExplained

(* The marks: entries that Notion rejects, a file that does not decode.       *)
MarksHold == unfit \subseteq 1..recorded /\ garbled \in BOOLEAN

QueueInv == LogInv /\ MarksHold

LEMMA NoLines ==
    /\ On(<<>>) = {}
    /\ \A n, lost : LinesHold(<<>>, n, lost)
  <1>1. <<>> \in Seq(Line)
    BY EmptySeq
  <1>. QED BY <1>1, NothingFiled DEF On, LinesHold

LEMMA OneLineMore ==
    ASSUME NEW lines \in Seq(Line), NEW line \in Line
    PROVE  /\ On(Append(lines, line)) = On(lines) \cup line.entries
           /\ \A n, lost : /\ LinesHold(lines, n, lost) /\ LineHolds(line, n, lost)
                           /\ line.entries \cap On(lines) = {}
                           => LinesHold(Append(lines, line), n, lost)
  <1> DEFINE k == Len(lines)
             more == Append(lines, line)
  <1>1. /\ more \in Seq(Line) /\ k \in Nat /\ DOMAIN lines = 1..k /\ DOMAIN more = 1..k + 1
        /\ more[k + 1] = line /\ \A i \in 1..k : more[i] = lines[i]
    <2>1. more \in Seq(Line) /\ Len(more) = k + 1 /\ k \in Nat
      BY AppendProperties
    <2>2. more[k + 1] = line /\ \A i \in 1..k : more[i] = lines[i]
      BY AppendProperties
    <2>. QED BY <2>1, <2>2
  <1> HIDE DEF k, more
  <1>2. \A i \in 1..k + 1 : i \in 1..k \/ i = k + 1
    BY <1>1
  <1>3. 1..k \subseteq 1..k + 1 /\ k + 1 \in 1..k + 1 /\ k + 1 \notin 1..k
    BY <1>1
  <1>4. On(more) = On(lines) \cup line.entries
    BY <1>1, <1>2, <1>3 DEF On
  <1>5. ASSUME NEW n, NEW lost, LinesHold(lines, n, lost), LineHolds(line, n, lost),
               line.entries \cap On(lines) = {}
        PROVE  LinesHold(more, n, lost)
    <2>1. \A i \in DOMAIN more : LineHolds(more[i], n, lost)
      BY <1>1, <1>2, <1>5 DEF LinesHold
    <2>2. \A i \in 1..k : line.entries \cap lines[i].entries = {}
      BY <1>1, <1>5 DEF On
    <2>3. \A i, j \in DOMAIN more : i # j => more[i].entries \cap more[j].entries = {}
      BY <1>1, <1>2, <1>5, <2>2 DEF LinesHold
    <2>. QED BY <1>1, <2>1, <2>3 DEF LinesHold
  <1>. QED BY <1>4, <1>5 DEF more

LEMMA OneLineLess ==
    ASSUME NEW lines, NEW n, NEW lost, LinesHold(lines, n, lost), lines # <<>>
    PROVE  /\ Head(lines) \in Line /\ LineHolds(Head(lines), n, lost)
           /\ LinesHold(Tail(lines), n, lost)
           /\ On(Tail(lines)) = On(lines) \ Head(lines).entries
           /\ Head(lines).entries \subseteq On(lines)
  <1> DEFINE k == Len(lines)
             rest == Tail(lines)
  <1>0. lines \in Seq(Line)
    BY DEF LinesHold
  <1>1. /\ k \in Nat /\ k > 0 /\ DOMAIN lines = 1..k /\ DOMAIN rest = 1..k - 1
        /\ Head(lines) = lines[1] /\ rest \in Seq(Line)
    BY <1>0
  <1>2. \A i \in 1..k - 1 : rest[i] = lines[i + 1]
    BY <1>0
  <1> HIDE DEF k, rest
  <1>3. 1 \in 1..k /\ \A i \in 1..k - 1 : i + 1 \in 1..k /\ i + 1 # 1
    BY <1>1
  <1>4. \A i \in 1..k : i # 1 => i - 1 \in 1..k - 1 /\ (i - 1) + 1 = i
    BY <1>1
  <1>5. \A i, j \in 1..k : i # j => lines[i].entries \cap lines[j].entries = {}
    BY <1>1 DEF LinesHold
  <1>6. \A i \in 1..k : LineHolds(lines[i], n, lost) /\ lines[i] \in Line
    BY <1>0, <1>1 DEF LinesHold
  <1>7. On(rest) = On(lines) \ lines[1].entries
    <2>1. ASSUME NEW e \in On(rest) PROVE e \in On(lines) \ lines[1].entries
      <3>1. PICK i \in 1..k - 1 : e \in rest[i].entries
        BY <1>1 DEF On
      <3>2. i + 1 \in 1..k /\ e \in lines[i + 1].entries /\ i + 1 # 1
        BY <1>2, <1>3, <3>1
      <3>. QED BY <1>1, <1>3, <1>5, <3>2 DEF On
    <2>2. ASSUME NEW e \in On(lines), e \notin lines[1].entries PROVE e \in On(rest)
      <3>1. PICK i \in 1..k : e \in lines[i].entries
        BY <1>1 DEF On
      <3>2. i # 1
        BY <2>2, <3>1
      <3> DEFINE j == i - 1
      <3>3. j \in 1..k - 1 /\ j + 1 = i
        BY <1>4, <3>2
      <3> HIDE DEF j
      <3>4. e \in rest[j].entries
        BY <1>2, <3>1, <3>3
      <3>. QED BY <1>1, <3>3, <3>4 DEF On
    <2>. QED BY <2>1, <2>2
  <1>8. LinesHold(rest, n, lost)
    <2>1. \A i \in 1..k - 1 : LineHolds(rest[i], n, lost)
      BY <1>2, <1>3, <1>6
    <2>2. \A i, j \in 1..k - 1 : i # j => rest[i].entries \cap rest[j].entries = {}
      <3> SUFFICES ASSUME NEW i \in 1..k - 1, NEW j \in 1..k - 1, i # j
                   PROVE  rest[i].entries \cap rest[j].entries = {}
        OBVIOUS
      <3>1. i + 1 # j + 1 /\ i + 1 \in 1..k /\ j + 1 \in 1..k
        BY <1>1, <1>3
      <3>. QED BY <1>2, <1>5, <3>1
    <2>. QED BY <1>1, <2>1, <2>2 DEF LinesHold
  <1>. QED BY <1>1, <1>3, <1>6, <1>7, <1>8 DEF On, rest

LEMMA LinesWiden ==
    ASSUME NEW lines, NEW n \in Nat, NEW m \in Nat, n <= m, NEW lost, NEW more,
           lost \subseteq more, LinesHold(lines, n, lost)
    PROVE  LinesHold(lines, m, more)
  <1>1. 1..n \subseteq 1..m
    OBVIOUS
  <1>. QED BY <1>1 DEF LinesHold, LineHolds

(* An entry goes on a line of its own, or is given up on one that was cut.   *)
LEMMA EnqueuedHolds ==
    ASSUME NEW n \in Nat, n <= MaxEntries, NEW lost, LinesHold(queue, n, lost),
           NEW e \in 1..n, e \notin On(queue)
    PROVE  LET more == Enqueued(e)
           IN  /\ On(more) = On(queue) \cup {e}
               /\ LinesHold(more, n, IF \E i \in DOMAIN more : Whole(more[i]) /\ e \in more[i].entries
                                     THEN lost ELSE lost \cup {e})
  <1> DEFINE k == Len(queue)
             more == Enqueued(e)
  <1>0. /\ queue \in Seq(Line) /\ k \in Nat /\ DOMAIN queue = 1..k
        /\ \A i \in 1..k : queue[i] \in Line /\ LineHolds(queue[i], n, lost)
        /\ \A i, j \in 1..k : i # j => queue[i].entries \cap queue[j].entries = {}
    BY DEF LinesHold
  <1>1. e \in Entries /\ 1..n \subseteq Entries
    BY LogAssumption DEF Entries
  <1>2. CASE queue # <<>> /\ ~Whole(queue[Len(queue)])
    <2> DEFINE line == [entries |-> queue[k].entries \cup {e}, whole |-> FALSE]
    <2>1. k \in 1..k /\ queue[k].whole = FALSE
      BY <1>0, <1>2 DEF Whole, Line
    <2>2. queue[k] = [entries |-> queue[k].entries, whole |-> FALSE]
      BY <1>0, <2>1 DEF Line
    <2>3. more = [queue EXCEPT ![k].entries = queue[k].entries \cup {e}]
      BY <1>2 DEF Enqueued
    <2>4. more = [queue EXCEPT ![k] = [queue[k] EXCEPT !.entries = queue[k].entries \cup {e}]]
      BY <2>3
    <2>5. [queue[k] EXCEPT !.entries = queue[k].entries \cup {e}] = line
      <3> DEFINE old == queue[k]
                 new == queue[k].entries \cup {e}
      <3>1. old = [entries |-> old.entries, whole |-> old.whole] /\ old.whole = FALSE
        BY <1>0, <2>1 DEF Line
      <3> HIDE DEF old, new
      <3>2. [old EXCEPT !.entries = new] = [entries |-> new, whole |-> old.whole]
        BY <3>1
      <3>. QED BY <3>1, <3>2 DEF old, new
    <2>6. more = [queue EXCEPT ![k] = line]
      BY <2>4, <2>5
    <2>7. line \in Line
      BY <1>0, <1>1, <2>1 DEF Line
    <2>8. LineHolds(line, n, lost \cup {e})
      BY <1>0, <2>1 DEF LineHolds
    <2>9. line.entries = queue[k].entries \cup {e} /\ line.whole = FALSE
      OBVIOUS
    <2> HIDE DEF line, k, more
    <2>10. more \in Seq(Line)
      <3>1. k \in 1..Len(queue)
        BY <2>1 DEF k
      <3>. QED BY <1>0, <2>6, <2>7, <3>1, ExceptSeq
    <2>11. DOMAIN more = 1..k /\ more[k] = line /\ \A i \in 1..k : i # k => more[i] = queue[i]
      BY <1>0, <2>1, <2>6
    <2>12. \A i \in 1..k : e \notin queue[i].entries
      BY <1>0 DEF On
    <2>13. ~\E i \in DOMAIN more : Whole(more[i]) /\ e \in more[i].entries
      BY <2>9, <2>11, <2>12 DEF Whole
    <2>14. On(more) = On(queue) \cup {e}
      BY <1>0, <2>1, <2>9, <2>11 DEF On
    <2>15. \A i \in DOMAIN more : LineHolds(more[i], n, lost \cup {e})
      <3>1. \A i \in 1..k : LineHolds(queue[i], n, lost \cup {e})
        BY <1>0 DEF LineHolds
      <3>. QED BY <2>8, <2>11, <3>1
    <2>16. \A i, j \in DOMAIN more : i # j => more[i].entries \cap more[j].entries = {}
      BY <1>0, <2>1, <2>9, <2>11, <2>12
    <2>. QED BY <2>10, <2>13, <2>14, <2>15, <2>16 DEF LinesHold, more
  <1>3. CASE ~(queue # <<>> /\ ~Whole(queue[Len(queue)]))
    <2> DEFINE line == [entries |-> {e}, whole |-> TRUE]
    <2>1. line \in Line /\ LineHolds(line, n, lost) /\ line.entries = {e} /\ line.whole
      BY <1>1 DEF Line, LineHolds
    <2>2. more = Append(queue, line)
      BY <1>3 DEF Enqueued
    <2> HIDE DEF line
    <2>3. line.entries \cap On(queue) = {}
      BY <2>1
    <2>4. On(more) = On(queue) \cup {e} /\ LinesHold(more, n, lost)
      BY <1>0, <2>1, <2>2, <2>3, OneLineMore
    <2>5. k + 1 \in DOMAIN more /\ more[k + 1] = line
      <3>1. Len(Append(queue, line)) = k + 1 /\ Append(queue, line)[k + 1] = line
            /\ Append(queue, line) \in Seq(Line)
        BY <1>0, <2>1, AppendProperties
      <3>. QED BY <1>0, <2>2, <3>1
    <2> HIDE DEF more, k
    <2>6. \E i \in DOMAIN more : Whole(more[i]) /\ e \in more[i].entries
      BY <2>1, <2>5 DEF Whole
    <2>. QED BY <2>4, <2>6 DEF more
  <1>. QED BY <1>2, <1>3

LEMMA CutShortHolds ==
    ASSUME NEW n \in Nat, n <= MaxEntries, NEW lost, LinesHold(queue, n, lost),
           NEW e \in 1..n, e \notin On(queue), e \in lost
    PROVE  On(CutShort(e)) = On(queue) \cup {e} /\ LinesHold(CutShort(e), n, lost)
  <1>1. CASE queue # <<>> /\ ~Whole(queue[Len(queue)])
    <2>1. PICK more : more = Enqueued(e)
      OBVIOUS
    <2>2. CutShort(e) = more
      BY <1>1, <2>1 DEF CutShort
    <2> DEFINE pardoned == IF \E i \in DOMAIN more : Whole(more[i]) /\ e \in more[i].entries
                        THEN lost ELSE lost \cup {e}
    <2>3. On(more) = On(queue) \cup {e} /\ LinesHold(more, n, pardoned)
      BY <2>1, EnqueuedHolds
    <2>4. pardoned = lost
      OBVIOUS
    <2>. QED BY <2>2, <2>3, <2>4
  <1>2. CASE ~(queue # <<>> /\ ~Whole(queue[Len(queue)]))
    <2>1. PICK line : line = [entries |-> {e}, whole |-> FALSE]
      OBVIOUS
    <2>2. e \in Entries
      BY LogAssumption DEF Entries
    <2>3. line \in Line /\ LineHolds(line, n, lost) /\ line.entries = {e}
      BY <2>1, <2>2 DEF Line, LineHolds
    <2>4. CutShort(e) = Append(queue, line)
      BY <1>2, <2>1 DEF CutShort
    <2>5. queue \in Seq(Line) /\ line.entries \cap On(queue) = {}
      BY <2>3 DEF LinesHold
    <2>. QED BY <2>3, <2>4, <2>5, OneLineMore
  <1>. QED BY <1>1, <1>2

(* Whoever is not on a whole line of a torn file is given up.                *)
LEMMA TornHolds ==
    ASSUME NEW n \in Nat, NEW lost, NEW lines, LinesHold(lines, n, lost), NEW torn \in Torn(lines)
    PROVE  /\ On(torn) \subseteq On(lines)
           /\ LinesHold(torn, n, lost \cup (On(lines) \ Legible(torn)))
  <1> DEFINE k == Len(lines)
             pardoned == lost \cup (On(lines) \ Legible(torn))
  <1>0. /\ lines \in Seq(Line) /\ k \in Nat /\ DOMAIN lines = 1..k
        /\ \A i \in 1..k : lines[i] \in Line /\ LineHolds(lines[i], n, lost)
        /\ \A i, j \in 1..k : i # j => lines[i].entries \cap lines[j].entries = {}
    BY DEF LinesHold
  <1>1. PICK m \in 0..k, full \in BOOLEAN :
          torn = [i \in 1..m |-> [entries |-> lines[i].entries,
                                  whole |-> Whole(lines[i]) /\ (i < m \/ full)]]
    BY DEF Torn
  <1>2. m \in Nat /\ 1..m \subseteq 1..k /\ DOMAIN torn = 1..m
    BY <1>0, <1>1
  <1>3. \A i \in 1..m : /\ torn[i] \in Line /\ torn[i].entries = lines[i].entries
                        /\ torn[i].whole => lines[i].whole
    BY <1>0, <1>1, <1>2 DEF Line, Whole
  <1>4. torn \in Seq(Line)
    <2>1. torn \in [1..m -> Line]
      BY <1>1, <1>2, <1>3
    <2>. QED BY <1>2, <2>1
  <1> HIDE DEF k
  <1>5. On(torn) \subseteq On(lines)
    BY <1>0, <1>2, <1>3 DEF On
  <1>6. \A i, j \in DOMAIN torn : i # j => torn[i].entries \cap torn[j].entries = {}
    BY <1>0, <1>2, <1>3
  <1>7. \A i \in DOMAIN torn : LineHolds(torn[i], n, pardoned)
    <2> SUFFICES ASSUME NEW i \in 1..m PROVE LineHolds(torn[i], n, pardoned)
      BY <1>2
    <2>1. /\ torn[i].entries = lines[i].entries /\ LineHolds(lines[i], n, lost) /\ i \in 1..k
          /\ torn[i].whole => lines[i].whole
      BY <1>0, <1>2, <1>3
    <2>2. ~torn[i].whole => torn[i].entries \subseteq pardoned
      <3> SUFFICES ASSUME ~torn[i].whole, NEW e \in torn[i].entries, e \in Legible(torn)
                   PROVE  FALSE
        BY <1>0, <2>1 DEF On
      <3>1. PICK j \in 1..m : torn[j].whole /\ e \in torn[j].entries
        BY <1>2 DEF Legible, Whole
      <3>2. i = j
        BY <1>2, <1>6, <3>1
      <3>. QED BY <3>1, <3>2
    <2>. QED BY <2>1, <2>2 DEF LineHolds
  <1>. QED BY <1>4, <1>5, <1>6, <1>7 DEF LinesHold

LEMMA LogStarts == QueueInit => LogInv
  <1> SUFFICES ASSUME QueueInit PROVE LogInv
    OBVIOUS
  <1>1. /\ recorded = 0 /\ local = {} /\ inFlight = {} /\ queue = <<>> /\ flushing = {}
        /\ pages = [e \in Entries |-> 0] /\ crashes = 0 /\ excused = {} /\ ambiguous = {}
    BY DEF QueueInit, NotionIdle
  <1>2. QueueShapes
    BY <1>1, LogAssumption DEF QueueShapes, AtMostOne
  <1>3. \A e \in Entries : pages[e] = 0
    BY <1>1
  <1>4. 1..recorded = {}
    BY <1>1
  <1>. QED BY <1>1, <1>2, <1>3, <1>4, NoLines
       DEF LogInv, Traced, EntriesKept, DuplicatesExplained

(* What sending an entry does to its pages.                                  *)
LEMMA PagesAfter ==
    ASSUME pages \in [Entries -> 0..2], NEW e \in Entries, pages' = MorePages(e)
    PROVE  /\ pages' \in [Entries -> 0..2] /\ pages'[e] > 0
           /\ pages'[e] > 1 => pages[e] > 0
           /\ \A x \in Entries : x # e => pages'[x] = pages[x]
  BY DEF MorePages

LEMMA Failing ==
    ASSUME QueueShapes, DuplicatesExplained, NEW e \in 1..recorded, EntryFailed(e)
    PROVE  /\ pages' \in [Entries -> 0..2] /\ ambiguous \subseteq ambiguous'
           /\ ambiguous' \subseteq 1..recorded
           /\ \A x \in Entries : pages[x] > 0 => pages'[x] > 0
           /\ \A x \in Entries : x # e => pages'[x] = pages[x]
           /\ Untold(e) => Untold(e)'
           /\ DuplicatesExplained'
  <1>0. e \in Entries /\ pages \in [Entries -> 0..2] /\ ambiguous \subseteq 1..recorded
    BY LogAssumption DEF QueueShapes, Entries
  <1>1. CASE UNCHANGED <<pages, ambiguous>>
    BY <1>0, <1>1 DEF Untold, DuplicatesExplained
  <1>2. CASE pages' = MorePages(e) /\ ambiguous' = ambiguous \cup {e}
    <2>1. /\ pages' \in [Entries -> 0..2] /\ pages'[e] > 0
          /\ \A x \in Entries : x # e => pages'[x] = pages[x]
      BY <1>0, <1>2, PagesAfter
    <2>. QED BY <1>0, <1>2, <2>1 DEF Untold, DuplicatesExplained
  <1>. QED BY <1>1, <1>2 DEF EntryFailed

LEMMA Sending ==
    ASSUME QueueShapes, DuplicatesExplained, NEW e \in 1..recorded, Untold(e), EntrySent(e)
    PROVE  /\ pages' \in [Entries -> 0..2] /\ ambiguous \subseteq ambiguous'
           /\ ambiguous' \subseteq 1..recorded
           /\ pages'[e] > 0 /\ \A x \in Entries : x # e => pages'[x] = pages[x]
           /\ DuplicatesExplained'
  <1>0. e \in Entries /\ pages \in [Entries -> 0..2] /\ ambiguous \subseteq 1..recorded
    BY LogAssumption DEF QueueShapes, Entries
  <1>1. CASE pages' = MorePages(e) /\ UNCHANGED ambiguous
    <2>1. /\ pages' \in [Entries -> 0..2] /\ pages'[e] > 0
          /\ pages'[e] > 1 => pages[e] > 0
          /\ \A x \in Entries : x # e => pages'[x] = pages[x]
      BY <1>0, <1>1, PagesAfter
    <2>. QED BY <1>0, <1>1, <2>1 DEF Untold, DuplicatesExplained
  <1>2. CASE pages' = [pages EXCEPT ![e] = 2] /\ ambiguous' = ambiguous \cup {e}
    <2>1. /\ pages' \in [Entries -> 0..2] /\ pages'[e] > 0
          /\ \A x \in Entries : x # e => pages'[x] = pages[x]
      BY <1>0, <1>2
    <2>. QED BY <1>0, <1>2, <2>1 DEF DuplicatesExplained
  <1>. QED BY <1>1, <1>2 DEF EntrySent

LEMMA OnBounded ==
    ASSUME NEW lines, NEW n, NEW lost, LinesHold(lines, n, lost)
    PROVE  On(lines) \subseteq 1..n
  BY DEF LinesHold, LineHolds, On

(* A flush that is not itself at work is left as it was.                     *)
LEMMA FlushStays ==
    ASSUME NEW f, FlushHolds(f), recorded \in Nat, recorded' \in Nat, recorded <= recorded',
           excused \subseteq excused', inFlight' \cap On(f.lines) = {},
           \A x \in On(f.lines) : pages[x] > 0 => pages'[x] > 0,
           \A x \in On(f.left) \cup On(f.failing) : Untold(x) => Untold(x)'
    PROVE  FlushHolds(f)'
  <1>0. /\ f \in [lines : Seq(Line), left : Seq(Line), failing : Seq(Line)]
        /\ LinesHold(f.left, recorded, excused) /\ LinesHold(f.failing, recorded, excused)
        /\ On(f.left) \cap On(f.failing) = {} /\ On(f.left) \cup On(f.failing) \subseteq On(f.lines)
        /\ On(f.lines) \subseteq 1..recorded
        /\ \A e \in On(f.lines) :
               e \in On(f.left) \cup On(f.failing) \cup excused \/ pages[e] > 0
        /\ \A e \in On(f.left) \cup On(f.failing) : Untold(e)
    BY DEF FlushHolds
  <1>1. LinesHold(f.left, recorded', excused') /\ LinesHold(f.failing, recorded', excused')
    BY <1>0, LinesWiden
  <1>2. 1..recorded \subseteq 1..recorded'
    OBVIOUS
  <1>3. On(f.lines) \subseteq 1..recorded'
    BY <1>0, <1>2
  <1>4. \A e \in On(f.lines) :
            e \in On(f.left) \cup On(f.failing) \cup excused' \/ pages'[e] > 0
    BY <1>0
  <1>5. \A e \in On(f.left) \cup On(f.failing) : Untold(e)'
    BY <1>0
  <1>. QED BY <1>0, <1>1, <1>3, <1>4, <1>5 DEF FlushHolds

QueueFacts ==
    /\ QueueShapes /\ recorded \in Nat /\ 1..recorded \subseteq Entries
    /\ LinesHold(queue, recorded, excused) /\ inFlight \cap On(queue) = {}
    /\ On(queue) \subseteq 1..recorded
    /\ \A f \in flushing : FlushHolds(f)
    /\ \A f \in flushing : inFlight \cap On(f.lines) = {}
    /\ \A f \in flushing : On(f.left) \cup On(f.failing) \subseteq On(f.lines)
    /\ \A f \in flushing : On(f.lines) \subseteq 1..recorded
    /\ \A e \in Entries : e > recorded => pages[e] = 0
    /\ \A e \in inFlight : Untold(e)
    /\ Traced /\ EntriesKept /\ DuplicatesExplained
    /\ pages \in [Entries -> 0..2] /\ inFlight \subseteq 1..recorded
    /\ excused \subseteq 1..recorded /\ ambiguous \subseteq 1..recorded

LEMMA QueueTells == LogInv => QueueFacts
  <1> SUFFICES ASSUME LogInv PROVE QueueFacts
    OBVIOUS
  <1>1. recorded \in Nat /\ 1..recorded \subseteq Entries
    BY LogAssumption DEF LogInv, QueueShapes, Entries
  <1>2. On(queue) \subseteq 1..recorded
    BY OnBounded DEF LogInv
  <1>3. \A f \in flushing : /\ inFlight \cap On(f.lines) = {}
                            /\ On(f.left) \cup On(f.failing) \subseteq On(f.lines)
                            /\ On(f.lines) \subseteq 1..recorded
    BY DEF LogInv, FlushHolds
  <1>. QED BY <1>1, <1>2, <1>3 DEF LogInv, QueueFacts, QueueShapes

LEMMA RecordKeeps == LogInv /\ RecordEntry => LogInv'
  <1> SUFFICES ASSUME LogInv, RecordEntry PROVE LogInv'
    OBVIOUS
  <1>0. QueueFacts
    BY QueueTells
  <1>1. /\ recorded < MaxEntries /\ recorded' = recorded + 1
        /\ local' \in {local, local \cup {recorded'}} /\ inFlight' = inFlight \cup {recorded'}
        /\ UNCHANGED <<queue, flushing, pages, reachable, crashes, excused, ambiguous>>
    BY DEF RecordEntry, InMarkdown
  <1> DEFINE new == recorded'
  <1>2. /\ new \in 0..MaxEntries /\ new \in Nat /\ new = recorded + 1 /\ new \in Entries
        /\ new \notin 1..recorded /\ 1..recorded' = 1..recorded \cup {new}
        /\ recorded \in Nat /\ recorded <= recorded' /\ recorded' \in Nat
    BY <1>0, <1>1, LogAssumption DEF QueueFacts, Entries
  <1>3. pages[new] = 0
    BY <1>0, <1>2 DEF QueueFacts
  <1> HIDE DEF new
  <1>4. QueueShapes'
    <2>1. /\ crashes \in 0..MaxCrashes /\ pages \in [Entries -> 0..2]
          /\ inFlight \subseteq 1..recorded /\ local \subseteq 1..recorded
          /\ excused \subseteq 1..recorded /\ ambiguous \subseteq 1..recorded
          /\ AtMostOne(flushing)
      BY <1>0 DEF QueueFacts, QueueShapes
    <2>2. /\ inFlight' \subseteq 1..recorded' /\ local' \subseteq 1..recorded'
          /\ excused' \subseteq 1..recorded' /\ ambiguous' \subseteq 1..recorded'
      BY <1>1, <1>2, <2>1 DEF new
    <2>. QED BY <1>1, <1>2, <2>1, <2>2 DEF QueueShapes, new
  <1>5. LinesHold(queue', recorded', excused') /\ inFlight' \cap On(queue') = {}
    <2>1. LinesHold(queue, recorded', excused)
      BY <1>0, <1>2, LinesWiden DEF QueueFacts
    <2>2. new \notin On(queue) /\ inFlight \cap On(queue) = {}
      BY <1>0, <1>2 DEF QueueFacts
    <2>. QED BY <1>1, <2>1, <2>2 DEF new
  <1>6. \A f \in flushing' : FlushHolds(f)'
    <2> SUFFICES ASSUME NEW f \in flushing PROVE FlushHolds(f)'
      BY <1>1
    <2>1. FlushHolds(f) /\ inFlight \cap On(f.lines) = {} /\ On(f.lines) \subseteq 1..recorded
      BY <1>0 DEF QueueFacts
    <2>2. inFlight' \cap On(f.lines) = {}
      BY <1>1, <1>2, <2>1 DEF new
    <2>3. \A x : Untold(x) => Untold(x)'
      BY <1>1 DEF Untold
    <2>4. excused \subseteq excused' /\ pages' = pages
      BY <1>1
    <2>. QED BY <1>2, <2>1, <2>2, <2>3, <2>4, FlushStays
  <1>7. \A e \in Entries : e > recorded' => pages'[e] = 0
    <2>1. \A e \in Entries : e > recorded' => e > recorded
      BY <1>2 DEF Entries, new
    <2>. QED BY <1>0, <1>1, <2>1 DEF QueueFacts
  <1>8. (\A e \in inFlight : Untold(e))'
    <2>1. \A e \in inFlight' : e \in inFlight \/ pages[e] = 0
      BY <1>1, <1>3 DEF new
    <2>2. pages' = pages /\ ambiguous' = ambiguous
      BY <1>1
    <2>3. \A e \in inFlight : pages[e] > 0 => e \in ambiguous
      BY <1>0 DEF QueueFacts, Untold
    <2>4. \A e \in inFlight' : pages[e] > 0 => e \in ambiguous
      BY <2>1, <2>3
    <2>. QED BY <2>2, <2>4 DEF Untold
  <1>9. Traced' /\ DuplicatesExplained'
    BY <1>0, <1>1 DEF QueueFacts, Traced, DuplicatesExplained, Untold
  <1>10. EntriesKept'
    BY <1>0, <1>1, <1>2 DEF QueueFacts, EntriesKept, new
  <1>. QED BY <1>4, <1>5, <1>6, <1>7, <1>8, <1>9, <1>10 DEF LogInv

(* An entry leaves the memory for a page, or for the queue.                  *)
LEMMA DeliveryKeeps ==
    ASSUME LogInv, NEW e \in Entries, EntryDelivered(e)
    PROVE  LogInv'
  <1>0. QueueFacts
    BY QueueTells
  <1>1. /\ e \in inFlight /\ EntrySent(e) /\ inFlight' = inFlight \ {e}
        /\ UNCHANGED <<recorded, local, queue, flushing, crashes, excused>>
    BY DEF EntryDelivered
  <1>3. Untold(e) /\ e \in 1..recorded /\ e \notin On(queue)
        /\ \A f \in flushing : e \notin On(f.lines)
    BY <1>0, <1>1 DEF QueueFacts
  <1>2. /\ pages' \in [Entries -> 0..2] /\ ambiguous \subseteq ambiguous'
        /\ ambiguous' \subseteq 1..recorded
        /\ pages'[e] > 0 /\ \A x \in Entries : x # e => pages'[x] = pages[x]
        /\ DuplicatesExplained'
    BY <1>0, <1>1, <1>3, Sending DEF QueueFacts
  <1>4. \A x \in Entries : x # e => (Untold(x) => Untold(x)')
    BY <1>1, <1>2 DEF Untold
  <1>5. QueueShapes'
    BY <1>0, <1>1, <1>2 DEF QueueFacts, QueueShapes
  <1>6. LinesHold(queue', recorded', excused') /\ inFlight' \cap On(queue') = {}
    BY <1>0, <1>1 DEF QueueFacts
  <1>7. \A f \in flushing' : FlushHolds(f)'
    <2> SUFFICES ASSUME NEW f \in flushing PROVE FlushHolds(f)'
      BY <1>1
    <2>1. /\ FlushHolds(f) /\ inFlight \cap On(f.lines) = {} /\ On(f.lines) \subseteq Entries
          /\ On(f.left) \cup On(f.failing) \subseteq On(f.lines) /\ e \notin On(f.lines)
          /\ recorded \in Nat
      BY <1>0, <1>3 DEF QueueFacts
    <2>2. inFlight' \cap On(f.lines) = {} /\ recorded' = recorded /\ excused \subseteq excused'
      BY <1>1, <2>1
    <2>3. \A x \in On(f.lines) : x \in Entries /\ x # e
      BY <2>1
    <2>4. \A x \in On(f.lines) : pages[x] > 0 => pages'[x] > 0
      BY <1>2, <2>3
    <2>5. \A x \in On(f.left) \cup On(f.failing) : Untold(x) => Untold(x)'
      BY <1>4, <2>1, <2>3
    <2>6. recorded' \in Nat /\ recorded <= recorded'
      BY <2>1, <2>2
    <2>. QED BY <2>1, <2>2, <2>4, <2>5, <2>6, FlushStays
  <1>8. \A x \in Entries : x > recorded' => pages'[x] = 0
    <2>1. ~(e > recorded)
      BY <1>0, <1>3 DEF QueueFacts
    <2>. QED BY <1>0, <1>1, <1>2, <2>1 DEF QueueFacts
  <1>9. (\A x \in inFlight : Untold(x))'
    <2> SUFFICES ASSUME NEW x \in inFlight, x # e PROVE Untold(x)'
      BY <1>1
    <2>. QED BY <1>0, <1>4 DEF QueueFacts
  <1>10. Traced'
    <2> SUFFICES ASSUME NEW x \in On(queue)
                 PROVE  Untold(x)' \/ \E f \in flushing : x \in SentUnwritten(f)
      BY <1>1 DEF Traced
    <2>1. x \in Entries /\ x # e
      BY <1>0, <1>3 DEF QueueFacts
    <2>. QED BY <1>0, <1>4, <2>1 DEF QueueFacts, Traced
  <1>12. EntriesKept'
    <2>1. \A x \in 1..recorded : x \in Entries
      BY <1>0 DEF QueueFacts
    <2>. QED BY <1>0, <1>1, <1>2, <2>1 DEF QueueFacts, EntriesKept
  <1>. QED BY <1>2, <1>5, <1>6, <1>7, <1>8, <1>9, <1>10, <1>12 DEF LogInv

LEMMA QueuedKeeps ==
    ASSUME LogInv, NEW e \in Entries, EntryQueued(e)
    PROVE  LogInv'
  <1>0. QueueFacts
    BY QueueTells
  <1>1. /\ e \in inFlight /\ EntryFailed(e) /\ inFlight' = inFlight \ {e}
        /\ \/ /\ queue' = Enqueued(e)
              /\ excused' = IF \E i \in DOMAIN queue' : Whole(queue'[i]) /\ e \in queue'[i].entries
                            THEN excused ELSE excused \cup {e}
           \/ queue' = queue /\ excused' = excused \cup {e}
           \/ queue' = CutShort(e) /\ excused' = excused \cup {e}
        /\ UNCHANGED <<recorded, local, flushing, crashes>>
    BY DEF EntryQueued
  <1>2. Untold(e) /\ e \in 1..recorded /\ e \notin On(queue)
        /\ \A f \in flushing : e \notin On(f.lines)
    BY <1>0, <1>1 DEF QueueFacts
  <1>3. /\ pages' \in [Entries -> 0..2] /\ ambiguous \subseteq ambiguous'
        /\ ambiguous' \subseteq 1..recorded
        /\ \A x \in Entries : pages[x] > 0 => pages'[x] > 0
        /\ \A x \in Entries : x # e => pages'[x] = pages[x]
        /\ Untold(e) => Untold(e)'
        /\ DuplicatesExplained'
    BY <1>0, <1>1, <1>2, Failing DEF QueueFacts
  <1>4. \A x \in Entries : Untold(x) => Untold(x)'
    BY <1>3 DEF Untold
  <1>5. /\ excused \subseteq excused' /\ excused' \subseteq excused \cup {e}
        /\ On(queue') \subseteq On(queue) \cup {e} /\ On(queue) \subseteq On(queue')
        /\ LinesHold(queue', recorded', excused')
        /\ e \in On(queue') \cup excused'
    <2>0. /\ recorded \in Nat /\ recorded <= MaxEntries /\ LinesHold(queue, recorded, excused)
          /\ recorded' = recorded
      BY <1>0, <1>1, LogAssumption DEF QueueFacts, QueueShapes
    <2>1. CASE /\ queue' = Enqueued(e)
               /\ excused' = IF \E i \in DOMAIN queue' : Whole(queue'[i]) /\ e \in queue'[i].entries
                             THEN excused ELSE excused \cup {e}
      <3>1. /\ On(queue') = On(queue) \cup {e}
            /\ LinesHold(queue', recorded,
                   IF \E i \in DOMAIN queue' : Whole(queue'[i]) /\ e \in queue'[i].entries
                   THEN excused ELSE excused \cup {e})
        BY <1>2, <2>0, <2>1, EnqueuedHolds
      <3>. QED BY <2>0, <2>1, <3>1
    <2>2. CASE queue' = queue /\ excused' = excused \cup {e}
      <3>1. LinesHold(queue, recorded, excused \cup {e})
        BY <2>0, LinesWiden
      <3>. QED BY <2>0, <2>2, <3>1
    <2>3. CASE queue' = CutShort(e) /\ excused' = excused \cup {e}
      <3>1. LinesHold(queue, recorded, excused') /\ e \in excused'
        BY <2>0, <2>3, LinesWiden
      <3>2. On(queue') = On(queue) \cup {e} /\ LinesHold(queue', recorded, excused')
        BY <1>2, <2>0, <2>3, <3>1, CutShortHolds
      <3>. QED BY <2>0, <2>3, <3>2
    <2>. QED BY <1>1, <2>1, <2>2, <2>3
  <1>6. QueueShapes'
    BY <1>0, <1>1, <1>2, <1>3, <1>5 DEF QueueFacts, QueueShapes
  <1>7. inFlight' \cap On(queue') = {}
    BY <1>0, <1>1, <1>5 DEF QueueFacts
  <1>8. \A f \in flushing' : FlushHolds(f)'
    <2> SUFFICES ASSUME NEW f \in flushing PROVE FlushHolds(f)'
      BY <1>1
    <2>1. /\ FlushHolds(f) /\ inFlight \cap On(f.lines) = {} /\ On(f.lines) \subseteq Entries
          /\ On(f.left) \cup On(f.failing) \subseteq On(f.lines)
          /\ recorded \in Nat
      BY <1>0 DEF QueueFacts
    <2>2. inFlight' \cap On(f.lines) = {} /\ recorded' = recorded /\ excused \subseteq excused'
      BY <1>1, <1>5, <2>1
    <2>3. \A x \in On(f.lines) : pages[x] > 0 => pages'[x] > 0
      BY <1>3, <2>1
    <2>4. \A x \in On(f.left) \cup On(f.failing) : Untold(x) => Untold(x)'
      BY <1>4, <2>1
    <2>5. recorded' \in Nat /\ recorded <= recorded'
      BY <2>1, <2>2
    <2>. QED BY <2>1, <2>2, <2>3, <2>4, <2>5, FlushStays
  <1>9. \A x \in Entries : x > recorded' => pages'[x] = 0
    <2>1. ~(e > recorded)
      BY <1>0, <1>2 DEF QueueFacts
    <2>. QED BY <1>0, <1>1, <1>3, <2>1 DEF QueueFacts
  <1>10. (\A x \in inFlight : Untold(x))'
    <2> SUFFICES ASSUME NEW x \in inFlight PROVE Untold(x)'
      BY <1>1
    <2>. QED BY <1>0, <1>4 DEF QueueFacts
  <1>11. Traced'
    <2> SUFFICES ASSUME NEW x \in On(queue')
                 PROVE  Untold(x)' \/ \E f \in flushing : x \in SentUnwritten(f)
      BY <1>1 DEF Traced
    <2>1. CASE x = e
      BY <1>2, <1>3, <2>1
    <2>2. CASE x # e
      <3>1. x \in On(queue) /\ x \in Entries
        BY <1>0, <1>5, <2>2 DEF QueueFacts
      <3>. QED BY <1>0, <1>4, <3>1 DEF QueueFacts, Traced
    <2>. QED BY <2>1, <2>2
  <1>12. EntriesKept'
    <2>1. \A x \in 1..recorded : x \in Entries
      BY <1>0 DEF QueueFacts
    <2>. QED BY <1>0, <1>1, <1>3, <1>5, <2>1 DEF QueueFacts, EntriesKept
  <1>. QED BY <1>3, <1>5, <1>6, <1>7, <1>8, <1>9, <1>10, <1>11, <1>12 DEF LogInv

(* A flush starts on what the file holds.                                    *)
LEMMA BeginKeeps == LogInv /\ BeginFlush => LogInv'
  <1> SUFFICES ASSUME LogInv, BeginFlush PROVE LogInv'
    OBVIOUS
  <1>0. QueueFacts
    BY QueueTells
  <1>f. PICK f : f = [lines |-> queue, left |-> queue, failing |-> <<>>]
    OBVIOUS
  <1>1. /\ flushing = {} /\ flushing' = {f}
        /\ UNCHANGED <<recorded, local, inFlight, queue, pages, crashes, excused, ambiguous>>
    BY <1>f DEF BeginFlush
  <1>2. f.lines = queue /\ f.left = queue /\ f.failing = <<>>
        /\ (queue \in Seq(Line) => f \in [lines : Seq(Line), left : Seq(Line), failing : Seq(Line)])
    BY <1>f, EmptySeq
  <1>3. \A e \in On(queue) : Untold(e)
    BY <1>0, <1>1 DEF QueueFacts, Traced
  <1>4. queue \in Seq(Line)
    BY <1>0 DEF QueueFacts, LinesHold
  <1>5. FlushHolds(f)'
    <2>1. LinesHold(queue, recorded, excused) /\ LinesHold(<<>>, recorded, excused) /\ On(<<>>) = {}
          /\ On(queue) \subseteq 1..recorded /\ inFlight \cap On(queue) = {}
      BY <1>0, NoLines DEF QueueFacts
    <2>2. FlushHolds(f)
      BY <1>2, <1>3, <1>4, <2>1 DEF FlushHolds
    <2>. QED BY <1>1, <2>2 DEF FlushHolds, Untold
  <1>6. QueueShapes'
    BY <1>0, <1>1 DEF QueueFacts, QueueShapes, AtMostOne
  <1>7. Traced'
    BY <1>1, <1>3 DEF Traced, Untold
  <1>8. \A g \in flushing' : FlushHolds(g)'
    BY <1>1, <1>5
  <1>9. (LinesHold(queue, recorded, excused) /\ inFlight \cap On(queue) = {})'
    BY <1>0, <1>1 DEF QueueFacts
  <1>10. (\A e \in Entries : e > recorded => pages[e] = 0)' /\ (\A e \in inFlight : Untold(e))'
    BY <1>0, <1>1 DEF QueueFacts, Untold
  <1>11. EntriesKept' /\ DuplicatesExplained'
    BY <1>0, <1>1 DEF QueueFacts, EntriesKept, DuplicatesExplained
  <1>. QED BY <1>6, <1>7, <1>8, <1>9, <1>10, <1>11 DEF LogInv

(* What a flush has decided of a line: dropped, or kept for the next.        *)
LEMMA LineDecided ==
    ASSUME LogInv, NEW f \in flushing, f.left # <<>>
    PROVE  /\ flushing = {f} /\ FlushHolds(f)
           /\ LineDropped(f) = [lines |-> f.lines, left |-> Tail(f.left), failing |-> f.failing]
           /\ LineKept(f) = [lines |-> f.lines, left |-> Tail(f.left),
                             failing |-> Append(f.failing, Head(f.left))]
           /\ LinesHold(Tail(f.left), recorded, excused)
           /\ LineHolds(Head(f.left), recorded, excused) /\ Head(f.left) \in Line
           /\ On(Tail(f.left)) = On(f.left) \ Head(f.left).entries
           /\ Head(f.left).entries \subseteq On(f.left)
  <1>1. flushing = {f} /\ FlushHolds(f)
    BY DEF LogInv, QueueShapes, AtMostOne
  <1>2. /\ f = [lines |-> f.lines, left |-> f.left, failing |-> f.failing]
        /\ LinesHold(f.left, recorded, excused)
    BY <1>1 DEF FlushHolds
  <1>3. LineDropped(f) = [lines |-> f.lines, left |-> Tail(f.left), failing |-> f.failing]
    <2> DEFINE rest == Tail(f.left)
    <2> HIDE DEF rest
    <2>1. [f EXCEPT !.left = rest] = [lines |-> f.lines, left |-> rest, failing |-> f.failing]
      BY <1>2
    <2>. QED BY <2>1 DEF LineDropped, rest
  <1>4. LineKept(f) = [lines |-> f.lines, left |-> Tail(f.left),
                       failing |-> Append(f.failing, Head(f.left))]
    BY DEF LineKept
  <1>. QED BY <1>1, <1>2, <1>3, <1>4, OneLineLess

LEMMA SkipKeeps == LogInv /\ SkipCorrupt => LogInv'
  <1> SUFFICES ASSUME LogInv, SkipCorrupt PROVE LogInv'
    OBVIOUS
  <1>0. QueueFacts
    BY QueueTells
  <1>1. PICK f \in flushing :
          /\ f.left # <<>> /\ ~Whole(Head(f.left)) /\ flushing' = {LineDropped(f)}
          /\ UNCHANGED <<recorded, local, inFlight, queue, pages, crashes, excused, ambiguous>>
    BY DEF SkipCorrupt
  <1>2. /\ flushing = {f} /\ FlushHolds(f)
        /\ LineDropped(f) = [lines |-> f.lines, left |-> Tail(f.left), failing |-> f.failing]
        /\ LinesHold(Tail(f.left), recorded, excused)
        /\ LineHolds(Head(f.left), recorded, excused)
        /\ On(Tail(f.left)) = On(f.left) \ Head(f.left).entries
    BY <1>1, LineDecided
  <1>3. PICK g : g = LineDropped(f)
    OBVIOUS
  <1>4. g.lines = f.lines /\ g.left = Tail(f.left) /\ g.failing = f.failing
        /\ g = [lines |-> g.lines, left |-> g.left, failing |-> g.failing]
    BY <1>2, <1>3
  <1>5. Head(f.left).entries \subseteq excused
    BY <1>1, <1>2 DEF LineHolds, Whole
  <1>6. FlushHolds(g)
    <2>1. g.left \in Seq(Line)
      BY <1>2, <1>4 DEF LinesHold
    <2>. QED BY <1>2, <1>4, <1>5, <2>1 DEF FlushHolds
  <1>7. SentUnwritten(f) \subseteq SentUnwritten(g)
    BY <1>2, <1>4 DEF SentUnwritten
  <1>8. QueueShapes'
    BY <1>0, <1>1 DEF QueueFacts, QueueShapes, AtMostOne
  <1>9. \A h \in flushing' : FlushHolds(h)'
    <2>1. FlushHolds(g)'
      BY <1>1, <1>6 DEF FlushHolds, Untold
    <2>. QED BY <1>1, <1>3, <2>1
  <1>10. Traced'
    BY <1>0, <1>1, <1>2, <1>3, <1>7 DEF QueueFacts, Traced, Untold
  <1>. QED BY <1>0, <1>1, <1>8, <1>9, <1>10
       DEF QueueFacts, LogInv, Untold, EntriesKept, DuplicatesExplained

(* The entry of a line of its own is sent, or its line kept.                 *)
LEMMA ResendKeeps == LogInv /\ Resend => LogInv'
  <1> SUFFICES ASSUME LogInv, Resend PROVE LogInv'
    OBVIOUS
  <1>0. QueueFacts
    BY QueueTells
  <1>1. PICK f \in flushing :
          /\ f.left # <<>> /\ Whole(Head(f.left))
          /\ \E e \in Head(f.left).entries :
                \/ EntrySent(e) /\ flushing' = {LineDropped(f)}
                \/ EntryFailed(e) /\ flushing' = {LineKept(f)}
          /\ UNCHANGED <<recorded, local, inFlight, queue, reachable, crashes, excused>>
    BY DEF Resend
  <1>2. PICK e \in Head(f.left).entries :
            \/ EntrySent(e) /\ flushing' = {LineDropped(f)}
            \/ EntryFailed(e) /\ flushing' = {LineKept(f)}
    BY <1>1
  <1>3. /\ flushing = {f} /\ FlushHolds(f)
        /\ LineDropped(f) = [lines |-> f.lines, left |-> Tail(f.left), failing |-> f.failing]
        /\ LineKept(f) = [lines |-> f.lines, left |-> Tail(f.left),
                          failing |-> Append(f.failing, Head(f.left))]
        /\ LinesHold(Tail(f.left), recorded, excused)
        /\ LineHolds(Head(f.left), recorded, excused) /\ Head(f.left) \in Line
        /\ On(Tail(f.left)) = On(f.left) \ Head(f.left).entries
        /\ Head(f.left).entries \subseteq On(f.left)
    BY <1>1, LineDecided
  <1>4. Head(f.left).entries = {e}
    BY <1>1, <1>2, <1>3 DEF LineHolds, Whole
  <1>5. /\ f \in [lines : Seq(Line), left : Seq(Line), failing : Seq(Line)]
        /\ LinesHold(f.failing, recorded, excused)
        /\ On(f.left) \cap On(f.failing) = {} /\ On(f.left) \cup On(f.failing) \subseteq On(f.lines)
        /\ On(f.lines) \subseteq 1..recorded /\ inFlight \cap On(f.lines) = {}
        /\ \A x \in On(f.lines) :
               x \in On(f.left) \cup On(f.failing) \cup excused \/ pages[x] > 0
        /\ \A x \in On(f.left) \cup On(f.failing) : Untold(x)
    BY <1>3 DEF FlushHolds
  <1>6. /\ e \in On(f.left) /\ e \in 1..recorded /\ e \in Entries /\ Untold(e)
        /\ e \in On(f.lines) /\ e \notin inFlight /\ e \notin On(f.failing)
        /\ On(f.lines) \subseteq Entries
    BY <1>0, <1>3, <1>4, <1>5 DEF QueueFacts
  <1> DEFINE Told == /\ pages' \in [Entries -> 0..2] /\ ambiguous \subseteq ambiguous'
                     /\ ambiguous' \subseteq 1..recorded
                     /\ \A x \in Entries : pages[x] > 0 => pages'[x] > 0
                     /\ \A x \in Entries : x # e => pages'[x] = pages[x]
                     /\ DuplicatesExplained'
  <1>7. PICK g : flushing' = {g} /\ g.lines = f.lines /\ Told /\ FlushHolds(g)'
                 /\ SentUnwritten(f) \subseteq SentUnwritten(g)
                 /\ (Untold(e)' \/ e \in SentUnwritten(g))
    <2>1. CASE EntrySent(e) /\ flushing' = {LineDropped(f)}
      <3>2. /\ pages' \in [Entries -> 0..2] /\ ambiguous \subseteq ambiguous'
            /\ ambiguous' \subseteq 1..recorded
            /\ pages'[e] > 0 /\ \A x \in Entries : x # e => pages'[x] = pages[x]
            /\ DuplicatesExplained'
        BY <1>0, <1>6, <2>1, Sending DEF QueueFacts
      <3>3. Told
        BY <3>2
      <3>4. PICK g : g = LineDropped(f)
        OBVIOUS
      <3>5. g.lines = f.lines /\ g.left = Tail(f.left) /\ g.failing = f.failing
            /\ g = [lines |-> g.lines, left |-> g.left, failing |-> g.failing]
        BY <1>3, <3>4
      <3>6. FlushHolds(g)'
        <4>1. g.left \in Seq(Line) /\ g \in [lines : Seq(Line), left : Seq(Line), failing : Seq(Line)]
          BY <1>3, <1>5, <3>5 DEF LinesHold
        <4>2. On(g.left) = On(f.left) \ {e}
          BY <1>3, <1>4, <3>5
        <4>3. \A x \in On(g.lines) :
                  x \in On(g.left) \cup On(g.failing) \cup excused' \/ pages'[x] > 0
          BY <1>1, <1>5, <1>6, <3>2, <3>3, <3>5, <4>2
        <4>4. \A x \in On(g.left) \cup On(g.failing) : Untold(x)'
          <5> SUFFICES ASSUME NEW x \in On(g.left) \cup On(g.failing) PROVE Untold(x)'
            OBVIOUS
          <5>1. x # e /\ x \in Entries /\ Untold(x)
            BY <1>5, <1>6, <3>5, <4>2
          <5>. QED BY <3>2, <5>1 DEF Untold
        <4>. QED BY <1>1, <1>3, <1>5, <3>5, <4>1, <4>2, <4>3, <4>4 DEF FlushHolds
      <3>7. On(g.left) = On(f.left) \ {e}
        BY <1>3, <1>4, <3>5
      <3>8. SentUnwritten(f) \subseteq SentUnwritten(g) /\ e \in SentUnwritten(g)
        BY <1>6, <3>5, <3>7 DEF SentUnwritten
      <3>. QED BY <2>1, <3>3, <3>4, <3>5, <3>6, <3>8
    <2>2. CASE EntryFailed(e) /\ flushing' = {LineKept(f)}
      <3>1. Told /\ (Untold(e) => Untold(e)')
        BY <1>0, <1>6, <2>2, Failing DEF QueueFacts
      <3>2. PICK g : g = LineKept(f)
        OBVIOUS
      <3>3. g.lines = f.lines /\ g.left = Tail(f.left) /\ g.failing = Append(f.failing, Head(f.left))
            /\ g = [lines |-> g.lines, left |-> g.left, failing |-> g.failing]
        BY <1>3, <3>2
      <3>4. On(g.left) = On(f.left) \ {e}
        BY <1>3, <1>4, <3>3
      <3>5. On(g.failing) = On(f.failing) \cup {e} /\ LinesHold(g.failing, recorded, excused)
        <4>1. f.failing \in Seq(Line) /\ Head(f.left) \in Line
              /\ Head(f.left).entries \cap On(f.failing) = {}
          BY <1>3, <1>4, <1>5, <1>6
        <4>. QED BY <1>3, <1>4, <1>5, <3>3, <4>1, OneLineMore
      <3>6. FlushHolds(g)'
        <4>1. g.left \in Seq(Line) /\ g.failing \in Seq(Line)
              /\ g \in [lines : Seq(Line), left : Seq(Line), failing : Seq(Line)]
          BY <1>3, <1>5, <3>3, <3>5 DEF LinesHold
        <4>2. \A x \in On(g.lines) :
                  x \in On(g.left) \cup On(g.failing) \cup excused' \/ pages'[x] > 0
          BY <1>1, <1>5, <1>6, <3>1, <3>3, <3>4, <3>5
        <4>3. \A x \in On(g.left) \cup On(g.failing) : Untold(x)'
          <5> SUFFICES ASSUME NEW x \in On(g.left) \cup On(g.failing) PROVE Untold(x)'
            OBVIOUS
          <5>1. CASE x = e
            BY <1>6, <3>1, <5>1
          <5>2. CASE x # e
            <6>1. x \in Entries /\ Untold(x)
              BY <1>5, <1>6, <3>4, <3>5, <5>2
            <6>. QED BY <3>1, <5>2, <6>1 DEF Untold
          <5>. QED BY <5>1, <5>2
        <4>. QED BY <1>1, <1>3, <1>5, <1>6, <3>3, <3>4, <3>5, <4>1, <4>2, <4>3 DEF FlushHolds
      <3>7. SentUnwritten(f) \subseteq SentUnwritten(g)
        BY <1>6, <3>3, <3>4, <3>5 DEF SentUnwritten
      <3>. QED BY <1>6, <2>2, <3>1, <3>2, <3>3, <3>6, <3>7
    <2>. QED BY <1>2, <2>1, <2>2
  <1>8. QueueShapes'
    BY <1>0, <1>1, <1>7 DEF QueueFacts, QueueShapes, AtMostOne
  <1>9. \A x \in Entries : x # e => (Untold(x) => Untold(x)')
    BY <1>7 DEF Untold
  <1>10. Traced'
    <2> SUFFICES ASSUME NEW x \in On(queue) PROVE Untold(x)' \/ x \in SentUnwritten(g)
      BY <1>1, <1>7 DEF Traced
    <2>1. x \in Entries /\ (Untold(x) \/ x \in SentUnwritten(f))
      BY <1>0, <1>3 DEF QueueFacts, Traced
    <2>. QED BY <1>7, <1>9, <2>1
  <1>11. EntriesKept'
    <2>1. \A x \in 1..recorded : x \in Entries
      BY <1>0 DEF QueueFacts
    <2>. QED BY <1>0, <1>1, <1>7, <2>1 DEF QueueFacts, EntriesKept
  <1>12. \A x \in Entries : x > recorded' => pages'[x] = 0
    <2>1. ~(e > recorded)
      BY <1>0, <1>6 DEF QueueFacts
    <2>. QED BY <1>0, <1>1, <1>7, <2>1 DEF QueueFacts
  <1>13. (\A x \in inFlight : Untold(x))'
    <2> SUFFICES ASSUME NEW x \in inFlight PROVE Untold(x)'
      BY <1>1
    <2>1. x \in Entries /\ x # e /\ Untold(x)
      BY <1>0, <1>6 DEF QueueFacts
    <2>. QED BY <1>9, <2>1
  <1>14. (LinesHold(queue, recorded, excused) /\ inFlight \cap On(queue) = {})'
    BY <1>0, <1>1 DEF QueueFacts
  <1>. QED BY <1>7, <1>8, <1>10, <1>11, <1>12, <1>13, <1>14 DEF LogInv

(* The file becomes what failed: whoever is gone from it was sent or given   *)
(* up.                                                                       *)
LEMMA EndFlushKeeps == LogInv /\ EndFlush => LogInv'
  <1> SUFFICES ASSUME LogInv, EndFlush PROVE LogInv'
    OBVIOUS
  <1>0. QueueFacts
    BY QueueTells
  <1>1. PICK f \in flushing :
          /\ f.left = <<>> /\ flushing' = {}
          /\ \/ /\ queue' = f.failing
                /\ excused' = excused \cup (On(queue) \ On(f.lines))
                /\ UNCHANGED ambiguous
             \/ /\ UNCHANGED <<queue, excused>>
                /\ ambiguous' = ambiguous \cup SentUnwritten(f)
             \/ /\ queue' \in Torn(f.failing)
                /\ excused' = excused \cup (On(queue) \ On(f.lines))
                                      \cup (On(f.failing) \ Legible(queue'))
                /\ UNCHANGED ambiguous
          /\ UNCHANGED <<recorded, local, inFlight, pages, crashes>>
    BY DEF EndFlush, Rewritten, Overwritten
  <1>2. flushing = {f} /\ FlushHolds(f)
    BY DEF LogInv, QueueShapes, AtMostOne
  <1>3. /\ LinesHold(f.failing, recorded, excused) /\ On(f.failing) \subseteq On(f.lines)
        /\ On(f.lines) \subseteq 1..recorded /\ inFlight \cap On(f.lines) = {}
        /\ \A e \in On(f.lines) : e \in On(f.failing) \cup excused \/ pages[e] > 0
        /\ \A e \in On(f.failing) : Untold(e)
    BY <1>1, <1>2, NoLines DEF FlushHolds
  <1>4. \A e : Untold(e) => (pages'[e] > 0 => e \in ambiguous')
    BY <1>1 DEF Untold
  <1>5. ASSUME /\ queue' = f.failing /\ excused' = excused \cup (On(queue) \ On(f.lines))
               /\ UNCHANGED ambiguous
        PROVE  LogInv'
    <2>1. excused \subseteq excused' /\ excused' \subseteq 1..recorded
      BY <1>0, <1>5 DEF QueueFacts
    <2>2. QueueShapes'
      BY <1>0, <1>1, <1>5, <2>1 DEF QueueFacts, QueueShapes, AtMostOne
    <2>3. (LinesHold(queue, recorded, excused) /\ inFlight \cap On(queue) = {})'
      <3>1. LinesHold(f.failing, recorded, excused')
        <4>1. recorded \in Nat /\ recorded <= recorded
          BY <1>0 DEF QueueFacts
        <4>. QED BY <1>3, <2>1, <4>1, LinesWiden
      <3>. QED BY <1>1, <1>3, <1>5, <3>1
    <2>4. Traced'
      BY <1>1, <1>3, <1>5 DEF Traced, Untold
    <2>5. EntriesKept'
      <3> SUFFICES ASSUME NEW e \in 1..recorded
                   PROVE  e \in inFlight \cup On(f.failing) \cup excused' \/ pages[e] > 0
        BY <1>1, <1>5 DEF EntriesKept
      <3>1. CASE e \in On(queue) \ On(f.lines)
        BY <1>5, <3>1
      <3>2. CASE e \in On(f.lines)
        BY <1>3, <2>1, <3>2
      <3>3. CASE e \notin On(queue)
        BY <1>0, <2>1, <3>3 DEF QueueFacts, EntriesKept
      <3>. QED BY <3>1, <3>2, <3>3
    <2>. QED BY <1>0, <1>1, <1>5, <2>2, <2>3, <2>4, <2>5
         DEF QueueFacts, LogInv, Untold, DuplicatesExplained
  <1>6. ASSUME UNCHANGED <<queue, excused>>, ambiguous' = ambiguous \cup SentUnwritten(f)
        PROVE  LogInv'
    <2>1. ambiguous' \subseteq 1..recorded /\ ambiguous \subseteq ambiguous'
      BY <1>0, <1>3, <1>6 DEF QueueFacts, SentUnwritten
    <2>2. QueueShapes'
      BY <1>0, <1>1, <1>6, <2>1 DEF QueueFacts, QueueShapes, AtMostOne
    <2>3. Traced'
      BY <1>0, <1>1, <1>2, <1>6, <2>1 DEF QueueFacts, Traced, Untold
    <2>. QED BY <1>0, <1>1, <1>6, <2>1, <2>2, <2>3
         DEF QueueFacts, LogInv, Untold, DuplicatesExplained, EntriesKept
  <1>7. ASSUME /\ queue' \in Torn(f.failing)
               /\ excused' = excused \cup (On(queue) \ On(f.lines))
                                     \cup (On(f.failing) \ Legible(queue'))
               /\ UNCHANGED ambiguous
        PROVE  LogInv'
    <2>0. recorded \in Nat /\ recorded <= recorded
      BY <1>0 DEF QueueFacts
    <2>1. excused \subseteq excused' /\ excused' \subseteq 1..recorded
      BY <1>0, <1>3, <1>7 DEF QueueFacts
    <2>2. QueueShapes'
      BY <1>0, <1>1, <1>7, <2>1 DEF QueueFacts, QueueShapes, AtMostOne
    <2>3. /\ On(queue') \subseteq On(f.failing)
          /\ LinesHold(queue', recorded, excused \cup (On(f.failing) \ Legible(queue')))
      BY <1>3, <1>7, <2>0, TornHolds
    <2>4. (LinesHold(queue, recorded, excused) /\ inFlight \cap On(queue) = {})'
      <3>1. excused \cup (On(f.failing) \ Legible(queue')) \subseteq excused'
        BY <1>7
      <3>2. LinesHold(queue', recorded, excused')
        BY <2>0, <2>3, <3>1, LinesWiden
      <3>. QED BY <1>1, <1>3, <2>3, <3>2
    <2>5. Traced'
      BY <1>1, <1>3, <1>7, <2>3 DEF Traced, Untold
    <2>6. EntriesKept'
      <3> SUFFICES ASSUME NEW e \in 1..recorded
                   PROVE  e \in inFlight \cup On(queue') \cup excused' \/ pages[e] > 0
        BY <1>1 DEF EntriesKept
      <3>1. CASE e \in On(queue) \ On(f.lines)
        BY <1>7, <3>1
      <3>2. CASE e \in On(f.failing)
        <4>1. Legible(queue') \subseteq On(queue')
          BY DEF Legible
        <4>. QED BY <1>7, <3>2, <4>1
      <3>3. CASE e \in On(f.lines) \ On(f.failing)
        BY <1>3, <2>1, <3>3
      <3>4. CASE e \notin On(queue)
        BY <1>0, <2>1, <3>4 DEF QueueFacts, EntriesKept
      <3>. QED BY <3>1, <3>2, <3>3, <3>4
    <2>. QED BY <1>0, <1>1, <1>7, <2>2, <2>4, <2>5, <2>6
         DEF QueueFacts, LogInv, Untold, DuplicatesExplained
  <1>. QED BY <1>1, <1>5, <1>6, <1>7

(* A crash gives up what was in memory, and an append it cuts.               *)
LEMMA CrashKeeps == LogInv /\ RecorderCrash => LogInv'
  <1> SUFFICES ASSUME LogInv, RecorderCrash PROVE LogInv'
    OBVIOUS
  <1>0. QueueFacts
    BY QueueTells
  <1>1. /\ crashes < MaxCrashes /\ crashes' = crashes + 1 /\ inFlight' = {} /\ flushing' = {}
        /\ ambiguous' = ambiguous \cup UNION {SentUnwritten(f) : f \in flushing}
        /\ \/ /\ UNCHANGED queue
              /\ excused' = excused \cup inFlight
           \/ \E e \in inFlight : queue' = CutShort(e) /\ excused' = excused \cup inFlight
           \/ /\ queue' = <<>>
              /\ excused' = excused \cup inFlight \cup On(queue)
        /\ UNCHANGED <<recorded, local, pages>>
    BY DEF RecorderCrash
  <1>2. ambiguous \subseteq ambiguous' /\ ambiguous' \subseteq 1..recorded
    BY <1>0, <1>1 DEF QueueFacts, SentUnwritten
  <1>3. \A e \in On(queue) : pages[e] > 0 => e \in ambiguous'
    BY <1>0, <1>1 DEF QueueFacts, Traced, Untold
  <1>4. \A e \in inFlight : pages[e] > 0 => e \in ambiguous'
    BY <1>0, <1>2 DEF QueueFacts, Untold
  <1>5. recorded \in Nat /\ recorded <= MaxEntries /\ recorded <= recorded
        /\ LinesHold(queue, recorded, excused)
    BY <1>0, LogAssumption DEF QueueFacts, QueueShapes
  <1>6. /\ excused \cup inFlight \subseteq excused' /\ excused' \subseteq 1..recorded
        /\ LinesHold(queue', recorded, excused')
        /\ On(queue') \subseteq On(queue) \cup inFlight
        /\ On(queue) \subseteq On(queue') \cup excused'
    <2>1. CASE UNCHANGED queue /\ excused' = excused \cup inFlight
      <3>1. excused \subseteq excused' /\ excused' \subseteq 1..recorded
        BY <1>0, <2>1 DEF QueueFacts
      <3>2. LinesHold(queue, recorded, excused')
        BY <1>5, <3>1, LinesWiden
      <3>. QED BY <2>1, <3>1, <3>2
    <2>2. CASE \E e \in inFlight : queue' = CutShort(e) /\ excused' = excused \cup inFlight
      <3>1. PICK e \in inFlight : queue' = CutShort(e) /\ excused' = excused \cup inFlight
        BY <2>2
      <3>2. excused \subseteq excused' /\ excused' \subseteq 1..recorded /\ e \in excused'
            /\ e \in 1..recorded /\ e \notin On(queue)
        BY <1>0, <3>1 DEF QueueFacts
      <3>3. LinesHold(queue, recorded, excused')
        BY <1>5, <3>2, LinesWiden
      <3>4. On(queue') = On(queue) \cup {e} /\ LinesHold(queue', recorded, excused')
        BY <1>5, <3>1, <3>2, <3>3, CutShortHolds
      <3>. QED BY <3>1, <3>2, <3>4
    <2>3. CASE queue' = <<>> /\ excused' = excused \cup inFlight \cup On(queue)
      <3>1. excused' \subseteq 1..recorded
        BY <1>0, <2>3 DEF QueueFacts
      <3>. QED BY <2>3, <3>1, NoLines
    <2>. QED BY <1>1, <2>1, <2>2, <2>3
  <1>7. QueueShapes'
    <2>1. crashes' \in 0..MaxCrashes
      BY <1>0, <1>1, LogAssumption DEF QueueFacts, QueueShapes
    <2>. QED BY <1>0, <1>1, <1>2, <1>6, <2>1 DEF QueueFacts, QueueShapes, AtMostOne
  <1>8. Traced'
    BY <1>1, <1>3, <1>4, <1>6 DEF Traced, Untold
  <1>9. EntriesKept'
    BY <1>0, <1>1, <1>6 DEF QueueFacts, EntriesKept
  <1>10. DuplicatesExplained'
    BY <1>0, <1>1, <1>2 DEF QueueFacts, DuplicatesExplained
  <1>11. (LinesHold(queue, recorded, excused) /\ inFlight \cap On(queue) = {})'
    BY <1>1, <1>6
  <1>12. (\A e \in Entries : e > recorded => pages[e] = 0)' /\ (\A e \in inFlight : Untold(e))'
    BY <1>0, <1>1 DEF QueueFacts
  <1>13. \A f \in flushing' : FlushHolds(f)'
    BY <1>1
  <1>. QED BY <1>7, <1>8, <1>9, <1>10, <1>11, <1>12, <1>13 DEF LogInv

LEMMA LogSteps == LogInv /\ (QueueNext \/ UNCHANGED queueVars) => LogInv'
  <1> SUFFICES ASSUME LogInv, QueueNext \/ UNCHANGED queueVars PROVE LogInv'
    OBVIOUS
  <1>1. ASSUME UNCHANGED <<recorded, local, inFlight, queue, flushing, pages, crashes, excused,
                           ambiguous>>
        PROVE  LogInv'
    <2>0. QueueFacts
      BY QueueTells
    <2>1. QueueShapes' /\ Traced' /\ EntriesKept' /\ DuplicatesExplained'
      BY <1>1, <2>0 DEF QueueFacts, QueueShapes, Traced, Untold, EntriesKept, DuplicatesExplained
    <2>2. \A f \in flushing' : FlushHolds(f)'
      BY <1>1, <2>0 DEF QueueFacts, FlushHolds, Untold
    <2>3. (\A e \in Entries : e > recorded => pages[e] = 0)' /\ (\A e \in inFlight : Untold(e))'
      BY <1>1, <2>0 DEF QueueFacts, Untold
    <2>4. (LinesHold(queue, recorded, excused) /\ inFlight \cap On(queue) = {})'
      BY <1>1, <2>0 DEF QueueFacts
    <2>. QED BY <2>1, <2>2, <2>3, <2>4 DEF LogInv
  <1>2. CASE NotionChanges
    BY <1>1, <1>2 DEF NotionChanges
  <1>3. CASE UNCHANGED queueVars
    BY <1>1, <1>3 DEF queueVars
  <1>4. CASE \E e \in Entries : EntryDelivered(e) \/ EntryQueued(e)
    BY <1>4, DeliveryKeeps, QueuedKeeps
  <1>. QED BY <1>2, <1>3, <1>4, RecordKeeps, BeginKeeps, SkipKeeps, ResendKeeps, EndFlushKeeps,
              CrashKeeps
       DEF QueueNext, FlushStep

LEMMA MarksKeep ==
    ASSUME MarksHold, recorded \in Nat, QueueNext \/ UNCHANGED queueVars
    PROVE  MarksHold'
  <1>1. unfit \subseteq 1..recorded /\ 1..recorded \subseteq 1..recorded + 1
        /\ recorded + 1 \in 1..recorded + 1
    BY DEF MarksHold
  <1>2. garbled \in BOOLEAN
    BY DEF MarksHold
  <1>3. CASE RecordEntry
    <2>1. unfit' \subseteq unfit \cup {recorded'} /\ recorded' = recorded + 1 /\ garbled' = garbled
      BY <1>3 DEF RecordEntry
    <2>2. unfit' \subseteq 1..recorded'
      BY <1>1, <2>1
    <2>. QED BY <1>2, <2>1, <2>2 DEF MarksHold
  <1>4. ASSUME recorded' = recorded, unfit' = unfit,
               garbled' = garbled \/ garbled' \in BOOLEAN
        PROVE  MarksHold'
    <2>1. unfit' \subseteq 1..recorded'
      BY <1>1, <1>4
    <2>2. garbled' \in BOOLEAN
      BY <1>2, <1>4
    <2>. QED BY <2>1, <2>2 DEF MarksHold
  <1>5. CASE EndFlush
    <2>1. recorded' = recorded /\ unfit' = unfit
      BY <1>5 DEF EndFlush
    <2>2. garbled' = garbled \/ garbled' \in PerhapsGarbled(queue')
      BY <1>5 DEF EndFlush
    <2>3. \A lines : PerhapsGarbled(lines) \subseteq BOOLEAN
      BY Zenon DEF PerhapsGarbled
    <2>. QED BY <1>4, <2>1, <2>2, <2>3
  <1>6. CASE RecorderCrash
    <2>1. recorded' = recorded /\ unfit' = unfit
      BY <1>6 DEF RecorderCrash
    <2>2. garbled' = garbled \/ garbled' = TRUE
      BY <1>6 DEF RecorderCrash
    <2>. QED BY <1>4, <2>1, <2>2
  <1>7. ASSUME NEW e \in Entries, EntryQueued(e) PROVE MarksHold'
    <2>1. recorded' = recorded /\ unfit' = unfit
      BY <1>7 DEF EntryQueued
    <2>2. garbled' = garbled \/ garbled' = TRUE
      BY <1>7 DEF EntryQueued
    <2>. QED BY <1>4, <2>1, <2>2
  <1>8. ASSUME NEW e \in Entries, EntryDelivered(e) PROVE MarksHold'
    BY <1>4, <1>8 DEF EntryDelivered
  <1>9. CASE NotionChanges
    BY <1>4, <1>9 DEF NotionChanges
  <1>10. CASE BeginFlush
    BY <1>4, <1>10 DEF BeginFlush
  <1>11. CASE SkipCorrupt
    BY <1>4, <1>11 DEF SkipCorrupt
  <1>12. CASE Resend
    BY <1>4, <1>12 DEF Resend
  <1>13. CASE UNCHANGED queueVars
    BY <1>4, <1>13 DEF queueVars
  <1>. QED BY <1>3, <1>5, <1>6, <1>7, <1>8, <1>9, <1>10, <1>11, <1>12, <1>13
       DEF QueueNext, FlushStep

LEMMA QueueStarts == QueueInit => QueueInv
  <1> SUFFICES ASSUME QueueInit PROVE MarksHold
    BY LogStarts DEF QueueInv
  <1>1. unfit = {} /\ garbled = FALSE
    BY DEF QueueInit
  <1>. QED BY <1>1 DEF MarksHold

LEMMA QueueSteps == QueueInv /\ (QueueNext \/ UNCHANGED queueVars) => QueueInv'
  <1> SUFFICES ASSUME QueueInv, QueueNext \/ UNCHANGED queueVars PROVE QueueInv'
    OBVIOUS
  <1>1. LogInv /\ MarksHold /\ recorded \in Nat
    BY QueueTells DEF QueueInv, QueueFacts
  <1>. QED BY <1>1, LogSteps, MarksKeep DEF QueueInv

LEMMA QueuePromises == QueueInv => QueueTypeOK /\ EntriesKept /\ DuplicatesExplained
  <1> SUFFICES ASSUME QueueInv PROVE QueueTypeOK
    BY DEF QueueInv, LogInv
  <1>0. QueueFacts
    BY QueueTells DEF QueueInv
  <1>1. Cardinality(flushing) <= 1
    <2>1. CASE flushing = {}
      BY <2>1, FS_EmptySet
    <2>2. CASE flushing # {}
      <3>1. PICK f : flushing = {f}
        BY <1>0, <2>2 DEF QueueFacts, QueueShapes, AtMostOne
      <3>2. Cardinality({f}) = 1
        BY FS_Singleton
      <3>. QED BY <3>1, <3>2
    <2>. QED BY <2>1, <2>2
  <1>2. \A i \in DOMAIN queue : Whole(queue[i]) => Cardinality(queue[i].entries) = 1
    <2> SUFFICES ASSUME NEW i \in DOMAIN queue, Whole(queue[i])
                 PROVE  Cardinality(queue[i].entries) = 1
      OBVIOUS
    <2>1. PICK e : queue[i].entries = {e}
      BY <1>0 DEF QueueFacts, LinesHold, LineHolds, Whole
    <2>2. Cardinality({e}) = 1
      BY FS_Singleton
    <2>. QED BY <2>1, <2>2
  <1>3. local \cup inFlight \cup On(queue) \cup excused \cup ambiguous \cup unfit \subseteq 1..recorded
    BY <1>0 DEF QueueInv, MarksHold, QueueFacts, QueueShapes
  <1>4. garbled \in BOOLEAN
    BY Zenon DEF QueueInv, MarksHold
  <1>5. recorded \in 0..MaxEntries /\ pages \in [Entries -> 0..2] /\ crashes \in 0..MaxCrashes
    BY <1>0 DEF QueueFacts, QueueShapes
  <1>. QED BY <1>1, <1>2, <1>3, <1>4, <1>5 DEF QueueTypeOK

-----------------------------------------------------------------------------
(* HistoryWriter: a buffer holds the newest rows in a row, and what has left *)
(* it is older than what has not.                                            *)

Gone(l) == added[l] - Len(buffers[l])

BufferShapes ==
    /\ buffers \in [Labels -> Seq(Nat)] /\ added \in [Labels -> Nat]
    /\ \A l \in Labels : /\ added[l] <= RowLimit[l] /\ Len(buffers[l]) <= MemoryLimit
                         /\ Len(buffers[l]) <= added[l]
                         /\ \A i \in 1..Len(buffers[l]) : buffers[l][i] = Gone(l) + i

Base(batch) == batch.rows[1] - 1

BatchHolds(batch) ==
    /\ batch \in [by : {"loop", "stop"}, label : Labels, rows : Seq(Nat)]
    /\ Len(batch.rows) \in 1..BatchSize /\ Base(batch) \in Nat
    /\ \A i \in 1..Len(batch.rows) : batch.rows[i] = Base(batch) + i
    /\ Base(batch) + Len(batch.rows) <= Gone(batch.label)

HandShapes ==
    /\ AtMostOne(inHand) /\ \A batch \in inHand : BatchHolds(batch)
    /\ writer \in {"running", "stopping", "stopped"}
    /\ writer = "stopped" => inHand = {}
    /\ \A batch \in inHand : batch.by = "stop" <=> writer = "stopping"
    /\ writer = "stopping" => inHand # {}

WrittenBefore ==
    \A w \in stored \cup spilled :
        /\ w \in Labels \X Nat /\ w[2] <= Gone(w[1])
        /\ \A batch \in inHand : batch.label = w[1] => w[2] <= Base(batch)

WrittenOnce == "unsure" \notin spoiled => stored \cap spilled = {}

RowsKept(l) ==
    \A row \in 1..Gone(l) :
        <<l, row>> \in stored \cup spilled
        \/ \E batch \in inHand : batch.label = l /\ row > Base(batch)

NothingLost ==
    spoiled \cap {"overflow", "disk", "cut"} = {} => \A l \in Labels : RowsKept(l)

(* Without an overflow nothing lies between the batch in hand and what waits.*)
NothingBetween ==
    "overflow" \notin spoiled =>
        \A batch \in inHand : Base(batch) + Len(batch.rows) = Gone(batch.label)

StopReaches ==
    /\ atStop \in [Labels -> Nat] /\ \A l \in Labels : atStop[l] <= added[l]
    /\ writer # "running" /\ spoiled \cap {"overflow", "backlog"} = {} =>
         \A l \in Labels :
             atStop[l] <= Gone(l) + (IF \E batch \in inHand : l \in Left(batch) THEN BatchSize ELSE 0)

HistoryInv ==
    /\ BufferShapes /\ HandShapes /\ WrittenBefore /\ WrittenOnce
    /\ NothingLost /\ NothingBetween /\ StopReaches

LEMMA CutInTwo ==
    ASSUME NEW s \in Seq(Nat), NEW n \in Nat, n <= Len(s)
    PROVE  LET front == SubSeq(s, 1, n)
               rest  == SubSeq(s, n + 1, Len(s))
           IN  /\ front \in Seq(Nat) /\ Len(front) = n /\ \A i \in 1..n : front[i] = s[i]
               /\ rest \in Seq(Nat) /\ Len(rest) = Len(s) - n
               /\ \A i \in 1..Len(s) - n : rest[i] = s[n + i]
  <1> DEFINE m == Len(s)
             k == n + 1
             front == SubSeq(s, 1, n)
             rest == SubSeq(s, k, m)
  <1>1. /\ m \in Nat /\ m \in Int /\ k \in Int /\ k = n + 1 /\ n \in Int /\ 1 \in Int
        /\ n \in Nat /\ n <= m
        /\ (\A i \in 1..n : s[i] \in Nat) /\ (\A i \in k..m : s[i] \in Nat)
    OBVIOUS
  <1> HIDE DEF m, k
  <1>2. /\ front \in Seq(Nat) /\ Len(front) = (IF 1 <= n THEN n - 1 + 1 ELSE 0)
        /\ \A i \in 1..n - 1 + 1 : front[i] = s[1 + i - 1]
    BY <1>1, SubSeqProperties
  <1>3. /\ rest \in Seq(Nat) /\ Len(rest) = (IF k <= m THEN m - k + 1 ELSE 0)
        /\ \A i \in 1..m - k + 1 : rest[i] = s[k + i - 1]
    BY <1>1, SubSeqProperties
  <1> HIDE DEF front, rest
  <1>4. Len(front) = n /\ Len(rest) = m - n
    BY <1>1, <1>2, <1>3
  <1>5. ASSUME NEW i \in 1..n PROVE front[i] = s[i]
    <2>1. i \in 1..n - 1 + 1 /\ 1 + i - 1 = i
      BY <1>1
    <2>. QED BY <1>2, <2>1
  <1>6. ASSUME NEW i \in 1..m - n PROVE rest[i] = s[n + i]
    <2>1. i \in 1..m - k + 1 /\ k + i - 1 = n + i
      BY <1>1
    <2>. QED BY <1>3, <2>1
  <1>7. k = n + 1 /\ m = Len(s)
    BY DEF k, m
  <1>. QED BY <1>2, <1>3, <1>4, <1>5, <1>6, <1>7 DEF front, rest

LEMMA HistoryStarts == HistoryInit => HistoryInv
  <1> SUFFICES ASSUME HistoryInit PROVE HistoryInv
    OBVIOUS
  <1>1. /\ buffers = [l \in Labels |-> <<>>] /\ inHand = {} /\ stored = {} /\ spilled = {}
        /\ writer = "running" /\ added = [l \in Labels |-> 0] /\ atStop = added /\ spoiled = {}
    BY DEF HistoryInit
  <1>2. \A l \in Labels : /\ buffers[l] = <<>> /\ added[l] = 0 /\ Len(buffers[l]) = 0
                          /\ Gone(l) = 0 /\ RowLimit[l] \in Nat
    BY <1>1, HistoryAssumption DEF Gone
  <1>3. buffers \in [Labels -> Seq(Nat)] /\ added \in [Labels -> Nat]
    BY <1>1
  <1>4. BufferShapes
    BY <1>2, <1>3, HistoryAssumption DEF BufferShapes
  <1>5. NothingLost /\ NothingBetween
    BY <1>1, <1>2 DEF NothingLost, RowsKept, NothingBetween
  <1>6. StopReaches
    BY <1>1, <1>2, <1>3 DEF StopReaches
  <1>. QED BY <1>1, <1>4, <1>5, <1>6 DEF HistoryInv, HandShapes, AtMostOne, WrittenBefore, WrittenOnce

LEMMA BufferTells ==
    BufferShapes =>
        /\ \A l \in Labels : /\ buffers[l] \in Seq(Nat) /\ Len(buffers[l]) \in Nat
                             /\ added[l] \in Nat /\ Gone(l) \in Nat
                             /\ added[l] <= RowLimit[l] /\ Len(buffers[l]) <= MemoryLimit
                             /\ Len(buffers[l]) <= added[l] /\ Gone(l) + Len(buffers[l]) = added[l]
        /\ \A l \in Labels : \A i \in 1..Len(buffers[l]) : buffers[l][i] = Gone(l) + i
  <1> SUFFICES ASSUME BufferShapes, NEW l \in Labels
               PROVE  /\ buffers[l] \in Seq(Nat) /\ Len(buffers[l]) \in Nat
                      /\ added[l] \in Nat /\ Gone(l) \in Nat
                      /\ added[l] <= RowLimit[l] /\ Len(buffers[l]) <= MemoryLimit
                      /\ Len(buffers[l]) <= added[l] /\ Gone(l) + Len(buffers[l]) = added[l]
                      /\ \A i \in 1..Len(buffers[l]) : buffers[l][i] = Gone(l) + i
    OBVIOUS
  <1>1. /\ buffers[l] \in Seq(Nat) /\ added[l] \in Nat
        /\ added[l] <= RowLimit[l] /\ Len(buffers[l]) <= MemoryLimit /\ Len(buffers[l]) <= added[l]
        /\ \A i \in 1..Len(buffers[l]) : buffers[l][i] = Gone(l) + i
    BY DEF BufferShapes
  <1>2. Len(buffers[l]) \in Nat
    BY <1>1
  <1>3. Gone(l) = added[l] - Len(buffers[l])
    BY DEF Gone
  <1>4. Gone(l) \in Nat /\ Gone(l) + Len(buffers[l]) = added[l]
    BY <1>1, <1>2, <1>3
  <1>. QED BY <1>1, <1>2, <1>4

(* A flush goes on with the next batch, or is over.                          *)
LEMMA TakeKeepsRows ==
    ASSUME BufferShapes, NEW by \in {"loop", "stop"}, NEW labels \in {Labels, {"decisions"}, {}},
           TakeNext(by, labels), added' = added,
           \A w \in stored' \cup spilled' : w \in Labels \X Nat /\ w[2] <= Gone(w[1]),
           WrittenOnce',
           spoiled' \cap {"overflow", "disk", "cut"} = {} =>
               \A l \in Labels : \A row \in 1..Gone(l) : <<l, row>> \in stored' \cup spilled',
           atStop' \in [Labels -> Nat], \A l \in Labels : atStop'[l] <= added[l],
           by = "stop" /\ spoiled' \cap {"overflow", "backlog"} = {} =>
               \A l \in Labels : atStop'[l] <= Gone(l) + (IF l \in labels THEN BatchSize ELSE 0)
    PROVE  HistoryInv'
  <1>0. /\ \A l \in Labels : /\ buffers[l] \in Seq(Nat) /\ Len(buffers[l]) \in Nat
                             /\ added[l] \in Nat /\ Gone(l) \in Nat
                             /\ added[l] <= RowLimit[l] /\ Len(buffers[l]) <= MemoryLimit
                             /\ Len(buffers[l]) <= added[l] /\ Gone(l) + Len(buffers[l]) = added[l]
        /\ \A l \in Labels : \A i \in 1..Len(buffers[l]) : buffers[l][i] = Gone(l) + i
        /\ MemoryLimit \in Nat /\ BatchSize \in Nat /\ BatchSize > 0
    BY BufferTells, HistoryAssumption
  <1>00. PICK due : due = {l \in labels : buffers[l] # <<>>}
    OBVIOUS
  <1>1. CASE due = {}
    <2>1. /\ inHand' = {} /\ writer' = (IF by = "stop" THEN "stopped" ELSE "running")
          /\ buffers' = buffers
      BY <1>00, <1>1 DEF TakeNext
    <2>2. \A l \in Labels : Gone(l)' = Gone(l)
      BY <2>1 DEF Gone
    <2>3. \A l \in labels : Gone(l) = added[l]
      <3> SUFFICES ASSUME NEW l \in labels PROVE Gone(l) = added[l]
        OBVIOUS
      <3>1. buffers[l] = <<>> /\ l \in Labels
        BY <1>00, <1>1 DEF Labels
      <3>2. Len(buffers[l]) = 0
        BY <3>1
      <3>. QED BY <1>0, <3>1, <3>2
    <2>4. BufferShapes'
      BY <1>0, <2>1, <2>2 DEF BufferShapes
    <2>5. HandShapes'
      BY <2>1 DEF HandShapes, AtMostOne
    <2>6. WrittenBefore'
      BY <2>1, <2>2 DEF WrittenBefore
    <2>7. NothingLost'
      <3>1. ASSUME spoiled' \cap {"overflow", "disk", "cut"} = {}, NEW l \in Labels
            PROVE  RowsKept(l)'
        <4>1. PICK top : top = Gone(l)
          OBVIOUS
        <4>2. \A row \in 1..top : <<l, row>> \in stored' \cup spilled'
          BY <3>1, <4>1
        <4>3. Gone(l)' = top
          BY <2>2, <4>1
        <4>. QED BY <4>2, <4>3 DEF RowsKept
      <3>. QED BY <3>1 DEF NothingLost
    <2>8. StopReaches'
      <3>1. ASSUME writer' # "running", spoiled' \cap {"overflow", "backlog"} = {},
                   NEW l \in Labels
            PROVE  atStop'[l] <= Gone(l)
        <4>1. by = "stop"
          BY <2>1, <3>1
        <4>. QED BY <1>0, <2>3, <3>1, <4>1
      <3>2. \A l \in Labels : Gone(l) + 0 = Gone(l)
        BY <1>0
      <3>. QED BY <2>1, <2>2, <3>1, <3>2 DEF StopReaches
    <2>9. NothingBetween'
      BY <2>1 DEF NothingBetween
    <2>. QED BY <2>4, <2>5, <2>6, <2>7, <2>8, <2>9 DEF HistoryInv
  <1>2. CASE due # {}
    <2>00. PICK label : label = IF "signals" \in due THEN "signals" ELSE "decisions"
      OBVIOUS
    <2>01. PICK size : size = IF Len(buffers[label]) < BatchSize
                              THEN Len(buffers[label]) ELSE BatchSize
      OBVIOUS
    <2>02. PICK rows : rows = SubSeq(buffers[label], 1, size)
      OBVIOUS
    <2>03. PICK rest : rest = SubSeq(buffers[label], size + 1, Len(buffers[label]))
      OBVIOUS
    <2>1. PICK batch : batch = [by |-> by, label |-> label, rows |-> rows]
      OBVIOUS
    <2>2. /\ inHand' = {batch} /\ writer' = (IF by = "stop" THEN "stopping" ELSE "running")
          /\ buffers' = [buffers EXCEPT ![label] = rest]
      BY <1>00, <1>2, <2>00, <2>01, <2>02, <2>03, <2>1 DEF TakeNext
    <2>3. buffers[label] # <<>> /\ label \in labels /\ label \in Labels
      BY <1>00, <1>2, <2>00 DEF Labels
    <2>30. /\ buffers[label] \in Seq(Nat) /\ Len(buffers[label]) \in Nat
           /\ added[label] \in Nat /\ Gone(label) \in Nat
           /\ added[label] <= RowLimit[label] /\ Len(buffers[label]) <= MemoryLimit
           /\ Len(buffers[label]) <= added[label] /\ Gone(label) + Len(buffers[label]) = added[label]
           /\ \A i \in 1..Len(buffers[label]) : buffers[label][i] = Gone(label) + i
           /\ MemoryLimit \in Nat /\ BatchSize \in Nat /\ BatchSize > 0
      BY <1>0, <2>3
    <2>4. /\ size \in Nat /\ size > 0 /\ size <= BatchSize /\ size <= Len(buffers[label])
          /\ (size = BatchSize \/ size = Len(buffers[label]))
      <3>1. Len(buffers[label]) > 0
        BY <2>3, <2>30
      <3>. QED BY <2>01, <2>30, <3>1
    <2>5. "signals" \in labels => labels = Labels
      BY DEF Labels
    <2>6. label = "decisions" /\ "signals" \in labels => buffers["signals"] = <<>>
      BY <1>00, <2>00
    <2>7. Left(batch) = IF label = "signals" THEN {"decisions"} ELSE {}
      BY <2>1 DEF Left
    <2>8. /\ rows \in Seq(Nat) /\ Len(rows) = size /\ \A i \in 1..size : rows[i] = buffers[label][i]
          /\ rest \in Seq(Nat) /\ Len(rest) = Len(buffers[label]) - size
          /\ \A i \in 1..Len(buffers[label]) - size : rest[i] = buffers[label][size + i]
      BY <2>02, <2>03, <2>30, <2>4, CutInTwo
    <2>9. /\ batch.by = by /\ batch.label = label /\ batch.rows = rows
          /\ batch \in [by : {"loop", "stop"}, label : Labels, rows : Seq(Nat)]
      BY <2>1, <2>3, <2>8
    <2>10. /\ DOMAIN buffers = Labels /\ buffers'[label] = rest
           /\ \A l \in Labels : l # label => buffers'[l] = buffers[l]
           /\ buffers' \in [Labels -> Seq(Nat)]
      BY <2>2, <2>3, <2>8 DEF BufferShapes
    <2>11. /\ Gone(label)' = Gone(label) + size
           /\ \A l \in Labels : l # label => Gone(l)' = Gone(l)
      <3>1. Gone(label)' = added[label] - Len(rest)
        BY <2>10 DEF Gone
      <3>2. Gone(label) = added[label] - Len(buffers[label])
        BY DEF Gone
      <3>3. \A l \in Labels : l # label => Gone(l)' = Gone(l)
        BY <2>10 DEF Gone
      <3>. QED BY <2>30, <2>4, <2>8, <3>1, <3>2, <3>3
    <2>12. BufferShapes'
      <3>1. ASSUME NEW l \in Labels
            PROVE  /\ added[l] <= RowLimit[l] /\ Len(buffers'[l]) <= MemoryLimit
                   /\ Len(buffers'[l]) <= added[l]
                   /\ \A i \in 1..Len(buffers'[l]) : buffers'[l][i] = Gone(l)' + i
        <4>1. CASE l = label
          <5>1. Len(rest) <= MemoryLimit /\ Len(rest) <= added[label]
            <6>1. Len(rest) = Len(buffers[label]) - size
              BY <2>8
            <6>2. Len(buffers[label]) <= MemoryLimit /\ Len(buffers[label]) <= added[label]
              BY <2>30
            <6>3. Len(buffers[label]) \in Nat /\ MemoryLimit \in Nat /\ added[label] \in Nat
              BY <2>30
            <6>4. size \in Nat
              BY <2>4
            <6>. QED BY <6>1, <6>2, <6>3, <6>4
          <5>2. ASSUME NEW i \in 1..Len(rest) PROVE rest[i] = Gone(label) + size + i
            <6>1. i \in 1..Len(buffers[label]) - size /\ size + i \in 1..Len(buffers[label])
              BY <2>30, <2>4, <2>8
            <6>2. rest[i] = Gone(label) + (size + i)
              BY <2>30, <2>8, <6>1
            <6>. QED BY <2>30, <2>4, <6>2, <6>1
          <5>. QED BY <2>30, <2>10, <2>11, <4>1, <5>1, <5>2
        <4>2. CASE l # label
          BY <1>0, <2>10, <2>11, <4>2
        <4>. QED BY <4>1, <4>2
      <3>2. added' \in [Labels -> Nat]
        BY DEF BufferShapes
      <3>. QED BY <2>10, <3>1, <3>2 DEF BufferShapes
    <2>13. Base(batch) = Gone(label) /\ Base(batch) \in Nat
      <3>1. 1 \in 1..size /\ 1 \in 1..Len(buffers[label])
        BY <2>30, <2>4
      <3>2. batch.rows[1] = Gone(label) + 1
        BY <2>30, <2>8, <2>9, <3>1
      <3>. QED BY <2>30, <3>2 DEF Base
    <2>14. BatchHolds(batch)'
      <3>1. Len(batch.rows) \in 1..BatchSize
        BY <2>4, <2>8, <2>9
      <3>2. \A i \in 1..Len(batch.rows) : batch.rows[i] = Base(batch) + i
        <4>1. \A i \in 1..size : i \in 1..Len(buffers[label])
          BY <2>30, <2>4
        <4>. QED BY <2>30, <2>8, <2>9, <2>13, <4>1
      <3>3. Base(batch) + Len(batch.rows) <= Gone(batch.label)'
        BY <2>30, <2>4, <2>8, <2>9, <2>11, <2>13
      <3>. QED BY <2>9, <2>13, <3>1, <3>2, <3>3 DEF BatchHolds, Base
    <2>15. HandShapes'
      BY <2>2, <2>9, <2>14 DEF HandShapes, AtMostOne
    <2>16. WrittenBefore'
      <3> SUFFICES ASSUME NEW w \in stored' \cup spilled'
                   PROVE  /\ w \in Labels \X Nat /\ w[2] <= Gone(w[1])'
                          /\ batch.label = w[1] => w[2] <= Base(batch)
        BY <2>2 DEF WrittenBefore, Base
      <3>1. w \in Labels \X Nat /\ w[2] <= Gone(w[1]) /\ w[1] \in Labels /\ w[2] \in Nat
        OBVIOUS
      <3>2. CASE w[1] = label
        BY <2>30, <2>4, <2>9, <2>11, <2>13, <3>1, <3>2
      <3>3. CASE w[1] # label
        BY <2>9, <2>11, <3>1, <3>3
      <3>. QED BY <3>2, <3>3
    <2>17. NothingLost'
      <3>1. ASSUME spoiled' \cap {"overflow", "disk", "cut"} = {}, NEW l \in Labels
            PROVE  RowsKept(l)'
        <4>1. PICK top : top = Gone(l)'
          OBVIOUS
        <4>2. \A row \in 1..Gone(l) : <<l, row>> \in stored' \cup spilled'
          BY <3>1
        <4>3. ASSUME NEW row \in 1..top
              PROVE  <<l, row>> \in stored' \cup spilled' \/ (batch.label = l /\ row > Base(batch))
          <5>1. CASE l = label
            <6>1. row \in 1..Gone(label) \/ row > Gone(label)
              BY <2>30, <2>4, <2>11, <4>1, <5>1
            <6>. QED BY <2>9, <2>13, <4>2, <5>1, <6>1
          <5>2. CASE l # label
            BY <2>11, <4>1, <4>2, <5>2
          <5>. QED BY <5>1, <5>2
        <4>4. batch \in inHand' /\ Base(batch)' = Base(batch)
          BY <2>2 DEF Base
        <4>. QED BY <4>1, <4>3, <4>4 DEF RowsKept, Base
      <3>. QED BY <3>1 DEF NothingLost
    <2>18. StopReaches'
      <3>1. ASSUME writer' # "running", spoiled' \cap {"overflow", "backlog"} = {},
                   NEW l \in Labels
            PROVE  atStop'[l] <= Gone(l)' + (IF l \in Left(batch) THEN BatchSize ELSE 0)
        <4>1. by = "stop"
          BY <2>2, <3>1
        <4>2. atStop'[l] <= Gone(l) + (IF l \in labels THEN BatchSize ELSE 0)
          BY <3>1, <4>1
        <4>3. atStop'[l] \in Nat /\ Gone(l) \in Nat /\ added[l] \in Nat /\ atStop'[l] <= added[l]
          BY <1>0
        <4>4. CASE l = label
          <5>1. l \notin Left(batch) /\ l \in labels
            BY <2>3, <2>7, <4>4
          <5>2. size = BatchSize \/ Gone(label) + size = added[label]
            BY <2>30, <2>4
          <5>. QED BY <2>30, <2>4, <2>11, <4>2, <4>3, <4>4, <5>1, <5>2
        <4>5. CASE l # label
          <5>1. Gone(l)' = Gone(l)
            BY <2>11, <4>5
          <5>2. CASE label = "signals"
            <6>1. l \in Left(batch) /\ l \in labels
              BY <2>3, <2>5, <2>7, <4>5, <5>2 DEF Labels
            <6>. QED BY <4>2, <5>1, <6>1
          <5>3. CASE label # "signals"
            <6>1. l = "signals" /\ label = "decisions" /\ l \notin Left(batch)
              BY <1>0, <2>00, <2>7, <4>5, <5>3 DEF Labels
            <6>2. CASE l \in labels
              <7>1. buffers[l] = <<>>
                BY <2>6, <6>1, <6>2
              <7>2. Len(buffers[l]) = 0
                BY <7>1
              <7>. QED BY <1>0, <4>3, <5>1, <6>1, <7>2
            <6>3. CASE l \notin labels
              BY <4>2, <5>1, <6>1, <6>3
            <6>. QED BY <6>2, <6>3
          <5>. QED BY <5>2, <5>3
        <4>. QED BY <4>4, <4>5
      <3>2. \A l : (\E b \in inHand' : l \in Left(b)) <=> l \in Left(batch)
        BY <2>2
      <3>. QED BY <3>1, <3>2 DEF StopReaches
    <2>19. NothingBetween'
      <3>1. Base(batch) + Len(batch.rows) = Gone(batch.label)'
        BY <2>8, <2>9, <2>11, <2>13
      <3>. QED BY <2>2, <3>1 DEF NothingBetween, Base
    <2>. QED BY <2>12, <2>15, <2>16, <2>17, <2>18, <2>19 DEF HistoryInv
  <1>. QED BY <1>1, <1>2

(* The batch in hand is neither in the table nor in a file yet, and without  *)
(* an overflow it is all there is between them and the buffer.               *)
LEMMA BatchIsNew ==
    ASSUME BufferShapes, HandShapes, WrittenBefore, NothingBetween, NEW batch \in inHand
    PROVE  /\ \A w \in RowsOf(batch) : /\ w \in Labels \X Nat /\ w[2] <= Gone(w[1])
                                       /\ w \notin stored \cup spilled
           /\ "overflow" \notin spoiled =>
                \A row \in 1..Gone(batch.label) :
                    row > Base(batch) => <<batch.label, row>> \in RowsOf(batch)
  <1>1. /\ batch \in [by : {"loop", "stop"}, label : Labels, rows : Seq(Nat)]
        /\ Len(batch.rows) \in 1..BatchSize /\ Base(batch) \in Nat
        /\ \A i \in 1..Len(batch.rows) : batch.rows[i] = Base(batch) + i
        /\ Base(batch) + Len(batch.rows) <= Gone(batch.label)
    BY DEF HandShapes, BatchHolds
  <1>2. /\ batch.label \in Labels /\ DOMAIN batch.rows = 1..Len(batch.rows)
        /\ Len(batch.rows) \in Nat /\ Gone(batch.label) \in Nat
    BY <1>1, BufferTells
  <1>3. ASSUME NEW w \in RowsOf(batch)
        PROVE  /\ w \in Labels \X Nat /\ w[2] <= Gone(w[1])
               /\ w \notin stored \cup spilled
    <2>1. PICK i \in 1..Len(batch.rows) : w = <<batch.label, batch.rows[i]>>
      BY <1>2 DEF RowsOf
    <2>2. batch.rows[i] = Base(batch) + i
      BY <1>1
    <2>3. w = <<batch.label, Base(batch) + i>> /\ w[1] = batch.label /\ w[2] = Base(batch) + i
      BY <2>1, <2>2
    <2>4. i \in Nat /\ i > 0 /\ i <= Len(batch.rows) /\ Base(batch) + i \in Nat
          /\ Base(batch) + i <= Gone(batch.label)
      BY <1>1, <1>2
    <2>5. w \notin stored \cup spilled
      <3>1. w \in stored \cup spilled => w[2] <= Base(batch)
        BY <2>3 DEF WrittenBefore
      <3>. QED BY <1>1, <2>3, <2>4, <3>1
    <2>. QED BY <1>2, <2>3, <2>4, <2>5
  <1>4. ASSUME "overflow" \notin spoiled, NEW row \in Nat, row <= Gone(batch.label),
               row > Base(batch)
        PROVE  <<batch.label, row>> \in RowsOf(batch)
    <2>1. Base(batch) + Len(batch.rows) = Gone(batch.label)
      BY <1>4 DEF NothingBetween
    <2>2. PICK i \in Int : i = row - Base(batch)
      BY <1>1
    <2>3. i \in 1..Len(batch.rows) /\ row = Base(batch) + i
      BY <1>1, <1>2, <1>4, <2>1, <2>2
    <2>4. batch.rows[i] = row
      BY <1>1, <2>3
    <2>. QED BY <1>2, <2>3, <2>4 DEF RowsOf
  <1>5. "overflow" \notin spoiled =>
          \A row \in 1..Gone(batch.label) :
              row > Base(batch) => <<batch.label, row>> \in RowsOf(batch)
    <2>1. PICK top : top = Gone(batch.label)
      OBVIOUS
    <2>. QED BY <1>2, <1>4, <2>1
  <1>. QED BY <1>3, <1>5

LEMMA TickKeeps == HistoryInv /\ Tick => HistoryInv'
  <1> SUFFICES ASSUME HistoryInv, Tick PROVE HistoryInv'
    OBVIOUS
  <1>0. /\ BufferShapes /\ HandShapes /\ WrittenBefore /\ WrittenOnce
        /\ NothingLost /\ NothingBetween /\ StopReaches
    BY DEF HistoryInv
  <1>1. /\ inHand = {} /\ TakeNext("loop", Labels)
        /\ UNCHANGED <<stored, spilled, added, atStop, spoiled>>
    BY DEF Tick
  <1>2. \A w \in stored' \cup spilled' : w \in Labels \X Nat /\ w[2] <= Gone(w[1])
    BY <1>0, <1>1 DEF WrittenBefore
  <1>3. WrittenOnce'
    BY <1>0, <1>1 DEF WrittenOnce
  <1>4. ASSUME spoiled' \cap {"overflow", "disk", "cut"} = {}, NEW l \in Labels
        PROVE  \A row \in 1..Gone(l) : <<l, row>> \in stored' \cup spilled'
    BY <1>0, <1>1, <1>4 DEF NothingLost, RowsKept
  <1>5. atStop' \in [Labels -> Nat] /\ \A l \in Labels : atStop'[l] <= added[l]
    BY <1>0, <1>1 DEF StopReaches
  <1>. QED BY <1>0, <1>1, <1>2, <1>3, <1>4, <1>5, TakeKeepsRows

(* What is common to a flush that commits and to one that fails.             *)
LEMMA FlushKeepsRows ==
    ASSUME HistoryInv, NEW batch \in inHand, TakeNext(batch.by, Left(batch)),
           UNCHANGED <<added, atStop>>, spoiled \subseteq spoiled',
           stored' \in {stored, stored \cup RowsOf(batch)},
           spilled' \in {spilled, spilled \cup RowsOf(batch)},
           "unsure" \notin spoiled' => stored' = stored \/ spilled' = spilled,
           "disk" \notin spoiled' => RowsOf(batch) \subseteq stored' \cup spilled'
    PROVE  HistoryInv'
  <1>0. /\ BufferShapes /\ HandShapes /\ WrittenBefore /\ WrittenOnce
        /\ NothingLost /\ NothingBetween /\ StopReaches
    BY DEF HistoryInv
  <1>1. /\ inHand = {batch} /\ batch.by \in {"loop", "stop"} /\ batch.label \in Labels
        /\ batch.by = "stop" <=> writer = "stopping"
    BY <1>0 DEF HandShapes, BatchHolds, AtMostOne
  <1>2. Left(batch) \in {Labels, {"decisions"}, {}}
    BY DEF Left
  <1>3. /\ \A w \in RowsOf(batch) : /\ w \in Labels \X Nat /\ w[2] <= Gone(w[1])
                                    /\ w \notin stored \cup spilled
        /\ "overflow" \notin spoiled =>
                \A row \in 1..Gone(batch.label) :
                    row > Base(batch) => <<batch.label, row>> \in RowsOf(batch)
    BY <1>0, BatchIsNew
  <1>4. \A w \in stored' \cup spilled' : w \in Labels \X Nat /\ w[2] <= Gone(w[1])
    BY <1>0, <1>3 DEF WrittenBefore
  <1>5. WrittenOnce'
    BY <1>0, <1>3 DEF WrittenOnce
  <1>6. ASSUME spoiled' \cap {"overflow", "disk", "cut"} = {}, NEW l \in Labels
        PROVE  \A row \in 1..Gone(l) : <<l, row>> \in stored' \cup spilled'
    <2>1. spoiled \cap {"overflow", "disk", "cut"} = {} /\ "overflow" \notin spoiled
          /\ "disk" \notin spoiled'
      BY <1>6
    <2>2. \A row \in 1..Gone(l) : \/ <<l, row>> \in stored \cup spilled
                                  \/ batch.label = l /\ row > Base(batch)
      BY <1>0, <1>1, <2>1 DEF NothingLost, RowsKept
    <2>3. stored \cup spilled \cup RowsOf(batch) \subseteq stored' \cup spilled'
      BY <2>1
    <2>. QED BY <1>3, <2>1, <2>2, <2>3
  <1>7. atStop' \in [Labels -> Nat] /\ \A l \in Labels : atStop'[l] <= added[l]
    BY <1>0 DEF StopReaches
  <1>8. ASSUME batch.by = "stop", spoiled' \cap {"overflow", "backlog"} = {}, NEW l \in Labels
        PROVE  atStop'[l] <= Gone(l) + (IF l \in Left(batch) THEN BatchSize ELSE 0)
    <2>1. writer = "stopping" /\ spoiled \cap {"overflow", "backlog"} = {}
      BY <1>1, <1>8
    <2>2. (\E b \in inHand : l \in Left(b)) <=> l \in Left(batch)
      BY <1>1
    <2>. QED BY <1>0, <2>1, <2>2 DEF StopReaches
  <1>. QED BY <1>0, <1>1, <1>2, <1>4, <1>5, <1>6, <1>7, <1>8, TakeKeepsRows

LEMMA CommitKeeps == HistoryInv /\ FlushCommits => HistoryInv'
  <1> SUFFICES ASSUME HistoryInv, FlushCommits PROVE HistoryInv'
    OBVIOUS
  <1>1. PICK batch \in inHand : /\ stored' = stored \cup RowsOf(batch)
                                /\ TakeNext(batch.by, Left(batch))
                                /\ UNCHANGED <<spilled, added, atStop, spoiled>>
    BY DEF FlushCommits
  <1>. QED BY <1>1, FlushKeepsRows

LEMMA FailureKeeps ==
    ASSUME HistoryInv, NEW unsure \in BOOLEAN, NEW spills \in BOOLEAN, FlushFails(unsure, spills)
    PROVE  HistoryInv'
  <1>1. PICK batch \in inHand :
            /\ stored' = IF unsure THEN stored \cup RowsOf(batch) ELSE stored
            /\ spilled' = IF spills THEN spilled \cup RowsOf(batch) ELSE spilled
            /\ spoiled' = spoiled \cup {mishap \in {"unsure", "disk"} :
                              \/ mishap = "unsure" /\ unsure
                              \/ mishap = "disk" /\ ~spills}
            /\ TakeNext(batch.by, Left(batch))
            /\ UNCHANGED <<added, atStop>>
    BY DEF FlushFails
  <1>2. /\ spoiled \subseteq spoiled'
        /\ "unsure" \notin spoiled' => ~unsure
        /\ "disk" \notin spoiled' => spills
    BY <1>1
  <1>. QED BY <1>1, <1>2, FlushKeepsRows

LEMMA StopKeepsRows == HistoryInv /\ StopWriter => HistoryInv'
  <1> SUFFICES ASSUME HistoryInv, StopWriter PROVE HistoryInv'
    OBVIOUS
  <1>0. /\ BufferShapes /\ HandShapes /\ WrittenBefore /\ WrittenOnce
        /\ NothingLost /\ NothingBetween /\ StopReaches
    BY DEF HistoryInv
  <1>1. PICK done \in SUBSET inHand : stored' = stored \cup UNION {RowsOf(b) : b \in done}
    BY DEF StopWriter
  <1>2. /\ atStop' = added /\ TakeNext("stop", Labels) /\ UNCHANGED <<spilled, added>>
        /\ spoiled' = spoiled \cup {mishap \in {"cut", "backlog"} :
                      \/ mishap = "cut" /\ inHand # {}
                      \/ mishap = "backlog" /\ \E l \in Labels : Len(buffers[l]) > BatchSize}
    BY DEF StopWriter
  <1>3. \A b \in inHand : \A w \in RowsOf(b) : /\ w \in Labels \X Nat /\ w[2] <= Gone(w[1])
                                               /\ w \notin stored \cup spilled
    BY <1>0, BatchIsNew
  <1>4. \A w \in stored' \cup spilled' : w \in Labels \X Nat /\ w[2] <= Gone(w[1])
    BY <1>0, <1>1, <1>2, <1>3 DEF WrittenBefore
  <1>5. WrittenOnce'
    BY <1>0, <1>1, <1>2, <1>3 DEF WrittenOnce
  <1>6. ASSUME spoiled' \cap {"overflow", "disk", "cut"} = {}, NEW l \in Labels
        PROVE  \A row \in 1..Gone(l) : <<l, row>> \in stored' \cup spilled'
    <2>1. spoiled \cap {"overflow", "disk", "cut"} = {} /\ inHand = {}
      BY <1>2, <1>6
    <2>. QED BY <1>0, <1>1, <1>2, <2>1 DEF NothingLost, RowsKept
  <1>7. atStop' \in [Labels -> Nat] /\ \A l \in Labels : atStop'[l] <= added[l]
    BY <1>0, <1>2 DEF BufferShapes
  <1>8. ASSUME spoiled' \cap {"overflow", "backlog"} = {}, NEW l \in Labels
        PROVE  atStop'[l] <= Gone(l) + (IF l \in Labels THEN BatchSize ELSE 0)
    <2>1. ~(Len(buffers[l]) > BatchSize) /\ atStop'[l] = added[l]
      BY <1>2, <1>8
    <2>2. Len(buffers[l]) \in Nat /\ Gone(l) \in Nat /\ Gone(l) + Len(buffers[l]) = added[l]
      BY <1>0, BufferTells
    <2>. QED BY <2>1, <2>2, HistoryAssumption
  <1>. QED BY <1>0, <1>2, <1>4, <1>5, <1>6, <1>7, <1>8, TakeKeepsRows

LEMMA TailOfRow ==
    ASSUME NEW s \in Seq(Nat), s # <<>>
    PROVE  /\ Tail(s) \in Seq(Nat) /\ Len(Tail(s)) = Len(s) - 1
           /\ \A i \in 1..Len(s) - 1 : Tail(s)[i] = s[i + 1]
  BY HeadTailProperties

LEMMA AddKeeps == ASSUME HistoryInv, NEW l \in Labels, AddRow(l) PROVE HistoryInv'
  <1>0. /\ BufferShapes /\ HandShapes /\ WrittenBefore /\ WrittenOnce
        /\ NothingLost /\ NothingBetween /\ StopReaches
    BY DEF HistoryInv
  <1>1. /\ \A m \in Labels : /\ buffers[m] \in Seq(Nat) /\ Len(buffers[m]) \in Nat
                             /\ added[m] \in Nat /\ Gone(m) \in Nat
                             /\ added[m] <= RowLimit[m] /\ Len(buffers[m]) <= MemoryLimit
                             /\ Len(buffers[m]) <= added[m] /\ Gone(m) + Len(buffers[m]) = added[m]
        /\ \A m \in Labels : \A i \in 1..Len(buffers[m]) : buffers[m][i] = Gone(m) + i
    BY <1>0, BufferTells
  <1>2. PICK full \in BOOLEAN : full <=> Len(buffers[l]) = MemoryLimit
    OBVIOUS
  <1>3. PICK kept : kept = IF full THEN Tail(buffers[l]) ELSE buffers[l]
    OBVIOUS
  <1>4. PICK new : new = Append(kept, added[l] + 1)
    OBVIOUS
  <1>5. /\ added[l] < RowLimit[l] /\ added' = [added EXCEPT ![l] = @ + 1]
        /\ buffers' = [buffers EXCEPT ![l] = new]
        /\ spoiled' = IF full THEN spoiled \cup {"overflow"} ELSE spoiled
        /\ UNCHANGED <<inHand, stored, spilled, writer, atStop>>
    BY <1>2, <1>3, <1>4 DEF AddRow
  <1>6. PICK base : base = Gone(l) + (IF full THEN 1 ELSE 0)
    OBVIOUS
  <1>7. /\ MemoryLimit \in Nat /\ MemoryLimit > 0 /\ RowLimit[l] \in Nat
        /\ base \in Nat /\ base >= Gone(l)
    BY <1>1, <1>6, HistoryAssumption
  <1>8. /\ kept \in Seq(Nat) /\ Len(kept) < MemoryLimit /\ base + Len(kept) = added[l]
        /\ \A i \in 1..Len(kept) : kept[i] = base + i
    <2>1. CASE full
      <3>1. Len(buffers[l]) = MemoryLimit /\ buffers[l] # <<>>
        BY <1>2, <1>7, <2>1, EmptySeq
      <3>2. /\ kept \in Seq(Nat) /\ Len(kept) = Len(buffers[l]) - 1
            /\ \A i \in 1..Len(buffers[l]) - 1 : kept[i] = buffers[l][i + 1]
        BY <1>1, <1>3, <2>1, <3>1, TailOfRow
      <3>3. base = Gone(l) + 1
        BY <1>6, <2>1
      <3>4. ASSUME NEW i \in 1..Len(kept) PROVE kept[i] = base + i
        <4>1. i \in 1..Len(buffers[l]) - 1 /\ i + 1 \in 1..Len(buffers[l])
          <5>1. i \in 1..Len(buffers[l]) - 1 /\ Len(buffers[l]) \in Nat
            BY <1>1, <3>2
          <5>. QED BY <5>1
        <4>2. buffers[l][i + 1] = Gone(l) + (i + 1)
          BY <1>1, <4>1
        <4>. QED BY <1>1, <3>2, <3>3, <4>1, <4>2
      <3>5. Len(buffers[l]) \in Nat /\ Gone(l) \in Nat /\ Gone(l) + Len(buffers[l]) = added[l]
        BY <1>1
      <3>6. Len(kept) < MemoryLimit /\ base + Len(kept) = added[l]
        BY <1>7, <3>1, <3>2, <3>3, <3>5
      <3>. QED BY <3>2, <3>4, <3>6
    <2>2. CASE ~full
      <3>1. kept = buffers[l] /\ base = Gone(l) /\ Len(buffers[l]) # MemoryLimit
        BY <1>1, <1>2, <1>3, <1>6, <2>2
      <3>. QED BY <1>1, <1>7, <3>1
    <2>. QED BY <2>1, <2>2
  <1>9. /\ new \in Seq(Nat) /\ Len(new) = Len(kept) + 1
        /\ \A i \in 1..Len(kept) : new[i] = kept[i]
        /\ new[Len(kept) + 1] = added[l] + 1
    <2>1. added[l] + 1 \in Nat
      BY <1>1
    <2>. QED BY <1>4, <1>8, <2>1, AppendProperties
  <1>10. /\ added' \in [Labels -> Nat] /\ added'[l] = added[l] + 1
         /\ \A m \in Labels : m # l => added'[m] = added[m]
    BY <1>0, <1>1, <1>5 DEF BufferShapes
  <1>11. /\ buffers' \in [Labels -> Seq(Nat)] /\ buffers'[l] = new
         /\ \A m \in Labels : m # l => buffers'[m] = buffers[m]
    BY <1>0, <1>5, <1>9 DEF BufferShapes
  <1>12. /\ Gone(l)' = base /\ \A m \in Labels : m # l => Gone(m)' = Gone(m)
    <2>1. Gone(l)' = added'[l] - Len(buffers'[l])
      BY DEF Gone
    <2>2. Len(kept) \in Nat
      BY <1>8
    <2>3. Gone(l)' = base
      BY <1>1, <1>7, <1>8, <1>9, <1>10, <1>11, <2>1, <2>2
    <2>4. \A m \in Labels : m # l => Gone(m)' = Gone(m)
      BY <1>10, <1>11 DEF Gone
    <2>. QED BY <2>3, <2>4
  <1>13. \A m \in Labels : Gone(m)' \in Nat /\ Gone(m) <= Gone(m)'
    BY <1>1, <1>7, <1>12
  <1>14. BufferShapes'
    <2>1. ASSUME NEW m \in Labels
          PROVE  /\ added'[m] <= RowLimit[m] /\ Len(buffers'[m]) <= MemoryLimit
                 /\ Len(buffers'[m]) <= added'[m]
                 /\ \A i \in 1..Len(buffers'[m]) : buffers'[m][i] = Gone(m)' + i
      <3>1. CASE m = l
        <4>1. Len(kept) \in Nat
          BY <1>8
        <4>2. /\ added[l] + 1 <= RowLimit[l] /\ Len(new) <= MemoryLimit /\ Len(new) <= added[l] + 1
          <5>1. added[l] \in Nat /\ RowLimit[l] \in Nat /\ MemoryLimit \in Nat /\ base \in Nat
            BY <1>1, <1>7
          <5>2. added[l] < RowLimit[l] /\ Len(new) = Len(kept) + 1
            BY <1>5, <1>9
          <5>3. Len(kept) < MemoryLimit /\ base + Len(kept) = added[l]
            BY <1>8
          <5>. QED BY <4>1, <5>1, <5>2, <5>3
        <4>3. ASSUME NEW i \in 1..Len(new) PROVE new[i] = base + i
          <5>1. i \in 1..Len(kept) \/ i = Len(kept) + 1
            BY <1>9, <4>1
          <5>2. CASE i \in 1..Len(kept)
            BY <1>8, <1>9, <5>2
          <5>3. CASE i = Len(kept) + 1
            BY <1>1, <1>7, <1>8, <1>9, <4>1, <5>3
          <5>. QED BY <5>1, <5>2, <5>3
        <4>. QED BY <1>10, <1>11, <1>12, <3>1, <4>2, <4>3
      <3>2. CASE m # l
        <4>1. /\ added'[m] = added[m] /\ buffers'[m] = buffers[m] /\ Gone(m)' = Gone(m)
          BY <1>10, <1>11, <1>12, <3>2
        <4>2. /\ added[m] <= RowLimit[m] /\ Len(buffers[m]) <= MemoryLimit
              /\ Len(buffers[m]) <= added[m]
              /\ \A i \in 1..Len(buffers[m]) : buffers[m][i] = Gone(m) + i
          BY <1>1
        <4>. QED BY <4>1, <4>2
      <3>. QED BY <3>1, <3>2
    <2>. QED BY <1>10, <1>11, <2>1 DEF BufferShapes
  <1>15. HandShapes'
    <2>1. ASSUME NEW batch \in inHand PROVE BatchHolds(batch)'
      <3>1. /\ batch \in [by : {"loop", "stop"}, label : Labels, rows : Seq(Nat)]
            /\ Len(batch.rows) \in 1..BatchSize /\ Base(batch) \in Nat
            /\ \A i \in 1..Len(batch.rows) : batch.rows[i] = Base(batch) + i
            /\ Base(batch) + Len(batch.rows) <= Gone(batch.label)
        BY <1>0 DEF HandShapes, BatchHolds
      <3>2. batch.label \in Labels /\ Len(batch.rows) \in Nat
        BY <3>1
      <3>3. Base(batch) + Len(batch.rows) <= Gone(batch.label)'
        BY <1>1, <1>13, <3>1, <3>2
      <3>. QED BY <3>1, <3>3 DEF BatchHolds, Base
    <2>. QED BY <1>0, <1>5, <2>1 DEF HandShapes, AtMostOne
  <1>16. WrittenBefore'
    <2> SUFFICES ASSUME NEW w \in stored \cup spilled
                 PROVE  /\ w \in Labels \X Nat /\ w[2] <= Gone(w[1])'
                        /\ \A batch \in inHand : batch.label = w[1] => w[2] <= Base(batch)
      BY <1>5 DEF WrittenBefore, Base
    <2>1. /\ w \in Labels \X Nat /\ w[2] <= Gone(w[1]) /\ w[1] \in Labels /\ w[2] \in Nat
          /\ \A batch \in inHand : batch.label = w[1] => w[2] <= Base(batch)
      BY <1>0 DEF WrittenBefore
    <2>. QED BY <1>1, <1>13, <2>1
  <1>17. WrittenOnce'
    BY <1>0, <1>5 DEF WrittenOnce
  <1>18. ASSUME "overflow" \notin spoiled'
         PROVE  "overflow" \notin spoiled /\ spoiled' = spoiled
                /\ \A m \in Labels : Gone(m)' = Gone(m)
    <2>1. ~full
      BY <1>5, <1>18
    <2>2. base = Gone(l)
      BY <1>1, <1>6, <2>1
    <2>. QED BY <1>5, <1>12, <1>18, <2>1, <2>2
  <1>19. NothingLost'
    <2>1. ASSUME spoiled' \cap {"overflow", "disk", "cut"} = {}, NEW m \in Labels
          PROVE  RowsKept(m)'
      <3>1. "overflow" \notin spoiled'
        BY <2>1
      <3>2. spoiled' = spoiled /\ Gone(m)' = Gone(m)
        BY <1>18, <3>1
      <3>3. RowsKept(m)
        BY <1>0, <2>1, <3>2 DEF NothingLost
      <3>. QED BY <1>5, <3>2, <3>3 DEF RowsKept, Base
    <2>. QED BY <2>1 DEF NothingLost
  <1>20. NothingBetween'
    <2> SUFFICES ASSUME "overflow" \notin spoiled', NEW batch \in inHand
                 PROVE  Base(batch) + Len(batch.rows) = Gone(batch.label)'
      BY <1>5 DEF NothingBetween, Base
    <2>1. batch.label \in Labels
      BY <1>0 DEF HandShapes, BatchHolds
    <2>. QED BY <1>0, <1>18, <2>1 DEF NothingBetween
  <1>21. StopReaches'
    <2>1. ASSUME NEW m \in Labels PROVE atStop[m] <= added'[m]
      <3>1. atStop[m] \in Nat /\ atStop[m] <= added[m]
        BY <1>0 DEF StopReaches
      <3>2. added[m] \in Nat /\ added[l] \in Nat
        BY <1>1
      <3>3. added'[m] = added[m] \/ (m = l /\ added'[m] = added[l] + 1)
        BY <1>10
      <3>. QED BY <3>1, <3>2, <3>3
    <2>2. ASSUME writer # "running", spoiled' \cap {"overflow", "backlog"} = {}, NEW m \in Labels
          PROVE  atStop[m] <= Gone(m)' + (IF \E batch \in inHand : m \in Left(batch)
                                          THEN BatchSize ELSE 0)
      <3>1. "overflow" \notin spoiled'
        BY <2>2
      <3>2. spoiled' = spoiled /\ Gone(m)' = Gone(m)
        BY <1>18, <3>1
      <3>. QED BY <1>0, <2>2, <3>2 DEF StopReaches
    <2>3. atStop \in [Labels -> Nat]
      BY <1>0 DEF StopReaches
    <2>. QED BY <1>5, <2>1, <2>2, <2>3 DEF StopReaches
  <1>. QED BY <1>14, <1>15, <1>16, <1>17, <1>19, <1>20, <1>21 DEF HistoryInv

LEMMA HistorySteps == HistoryInv /\ (HistoryNext \/ UNCHANGED historyVars) => HistoryInv'
  <1> SUFFICES ASSUME HistoryInv, HistoryNext \/ UNCHANGED historyVars PROVE HistoryInv'
    OBVIOUS
  <1>0. /\ BufferShapes /\ HandShapes /\ WrittenBefore /\ WrittenOnce
        /\ NothingLost /\ NothingBetween /\ StopReaches
    BY DEF HistoryInv
  <1>1. ASSUME UNCHANGED <<buffers, inHand, stored, spilled, added, atStop, spoiled>>,
               writer' = writer \/ (writer = "stopped" /\ writer' = "running")
        PROVE  HistoryInv'
    <2>1. \A l \in Labels : Gone(l)' = Gone(l)
      BY <1>1 DEF Gone
    <2>2. BufferShapes'
      BY <1>0, <1>1, <2>1 DEF BufferShapes
    <2>3. HandShapes'
      <3>1. ASSUME NEW batch \in inHand PROVE BatchHolds(batch)'
        BY <1>0, <1>1, <2>1 DEF HandShapes, BatchHolds, Base
      <3>. QED BY <1>0, <1>1, <3>1 DEF HandShapes, AtMostOne
    <2>4. WrittenBefore'
      BY <1>0, <1>1, <2>1 DEF WrittenBefore, Base
    <2>5. WrittenOnce'
      BY <1>0, <1>1 DEF WrittenOnce
    <2>6. NothingLost'
      <3>1. ASSUME NEW l \in Labels, RowsKept(l) PROVE RowsKept(l)'
        BY <1>1, <2>1, <3>1 DEF RowsKept, Base
      <3>. QED BY <1>0, <1>1, <3>1 DEF NothingLost
    <2>7. NothingBetween'
      <3>1. \A batch \in inHand : batch.label \in Labels
        BY <1>0 DEF HandShapes, BatchHolds
      <3>. QED BY <1>0, <1>1, <2>1, <3>1 DEF NothingBetween, Base
    <2>8. StopReaches'
      BY <1>0, <1>1, <2>1 DEF StopReaches
    <2>. QED BY <2>2, <2>3, <2>4, <2>5, <2>6, <2>7, <2>8 DEF HistoryInv
  <1>2. CASE StartWriter
    BY <1>1, <1>2 DEF StartWriter
  <1>3. CASE UNCHANGED historyVars
    BY <1>1, <1>3 DEF historyVars
  <1>4. CASE \E l \in Labels : AddRow(l)
    BY <1>4, AddKeeps
  <1>5. CASE \E unsure, spills \in BOOLEAN : FlushFails(unsure, spills)
    BY <1>5, FailureKeeps
  <1>. QED BY <1>2, <1>3, <1>4, <1>5, TickKeeps, CommitKeeps, StopKeepsRows DEF HistoryNext

LEMMA HistoryPromises == HistoryInv => HistoryTypeOK /\ StopWritesAll /\ WrittenOnceInOrder
  <1> SUFFICES ASSUME HistoryInv PROVE HistoryTypeOK /\ StopWritesAll /\ WrittenOnceInOrder
    OBVIOUS
  <1>0. /\ BufferShapes /\ HandShapes /\ WrittenBefore /\ WrittenOnce
        /\ NothingLost /\ StopReaches
    BY DEF HistoryInv
  <1>1. /\ \A m \in Labels : /\ buffers[m] \in Seq(Nat) /\ Len(buffers[m]) \in Nat
                             /\ added[m] \in Nat /\ Gone(m) \in Nat
                             /\ added[m] <= RowLimit[m] /\ Len(buffers[m]) <= MemoryLimit
                             /\ Len(buffers[m]) <= added[m] /\ Gone(m) + Len(buffers[m]) = added[m]
        /\ \A m \in Labels : \A i \in 1..Len(buffers[m]) : buffers[m][i] = Gone(m) + i
    BY <1>0, BufferTells
  <1>2. HistoryTypeOK
    <2>1. \A batch \in inHand : Len(batch.rows) \in 1..BatchSize /\ batch.label \in Labels
      BY <1>0 DEF HandShapes, BatchHolds
    <2>2. \A l \in Labels : Len(buffers[l]) <= MemoryLimit /\ added[l] \in 0..RowLimit[l]
      BY <1>1, HistoryAssumption
    <2>. QED BY <1>0, <2>1, <2>2 DEF HistoryTypeOK, HandShapes
  <1>3. StopWritesAll
    <2> SUFFICES ASSUME writer = "stopped", spoiled \subseteq {"unsure"}, NEW l \in Labels
                 PROVE  \A row \in 1..atStop[l] : <<l, row>> \in stored \cup spilled
      BY Zenon DEF StopWritesAll
    <2>1. inHand = {} /\ spoiled \cap {"overflow", "disk", "cut"} = {}
          /\ spoiled \cap {"overflow", "backlog"} = {} /\ writer # "running"
      BY <1>0 DEF HandShapes
    <2>2. atStop[l] \in Nat /\ atStop[l] <= Gone(l) + 0
      BY <1>0, <2>1 DEF StopReaches
    <2>3. RowsKept(l)
      BY <1>0, <2>1 DEF NothingLost
    <2>4. \A row \in 1..Gone(l) : <<l, row>> \in stored \cup spilled
      BY <2>1, <2>3 DEF RowsKept
    <2>. QED BY <1>1, <2>2, <2>4
  <1>4. WrittenOnceInOrder
    <2>1. ASSUME NEW w \in stored \cup spilled
          PROVE  \A i \in DOMAIN buffers[w[1]] : w[2] < buffers[w[1]][i]
      <3>1. w[1] \in Labels /\ w[2] \in Nat /\ w[2] <= Gone(w[1])
        BY <1>0 DEF WrittenBefore
      <3>2. DOMAIN buffers[w[1]] = 1..Len(buffers[w[1]])
        BY <1>1, <3>1
      <3>3. \A i \in 1..Len(buffers[w[1]]) : buffers[w[1]][i] = Gone(w[1]) + i
        BY <1>1, <3>1
      <3>4. Gone(w[1]) \in Nat /\ Len(buffers[w[1]]) \in Nat
        BY <1>1, <3>1
      <3>. QED BY <3>1, <3>2, <3>3, <3>4
    <2>. QED BY <1>0, <2>1 DEF WrittenOnce, WrittenOnceInOrder
  <1>. QED BY <1>2, <1>3, <1>4

-----------------------------------------------------------------------------
(* Backups: the list is the manifests, each once; a backup that is made is   *)
(* nobody's else; the newest is doomed by nobody; and what one thread does   *)
(* not rotate away another does.                                             *)

Archive == [whole : BOOLEAN, files : Contents \cup {<<>>}]
Makings == [step : {"idle", "adding", "hashing", "recording", "listing", "rotating"},
            id : 0..Seconds, sum : SUBSET Archive, doomed : SUBSET (1..Seconds)]

ArchiveShapes ==
    /\ second \in 1..Seconds /\ opened \in 0..second /\ disk \in Contents
    /\ DOMAIN archives \subseteq 1..opened /\ DOMAIN manifests \subseteq 1..opened
    /\ \A id \in DOMAIN archives : /\ archives[id] \in Archive
                                   /\ archives[id].whole => archives[id].files \in Contents
    /\ AtMostOne(restoring) /\ \A r \in restoring : r.id \in 1..opened
    /\ stuck \subseteq 1..opened

Busy(w) == maker[w].step \in {"adding", "hashing", "recording"}

MakerShapes ==
    /\ maker \in [Workers -> Makings]
    /\ \A w \in Workers : /\ Busy(w) => maker[w].id \in 1..opened
                          /\ maker[w].doomed \subseteq 1..opened

(* A list that names the known, each once.                                   *)
Lists(list, ids) ==
    /\ list \in Seq(Nat) /\ IsFiniteSet(ids) /\ Len(list) = Cardinality(ids)
    /\ \A i, j \in 1..Len(list) : list[i] = list[j] => i = j
    /\ \A i \in 1..Len(list) : list[i] \in ids
    /\ \A id \in ids : \E i \in 1..Len(list) : list[i] = id

(* The length of such a list, and its head.                                  *)
LEMMA ListRead ==
    ASSUME NEW list, NEW ids, Lists(list, ids)
    PROVE  Len(list) \in Nat /\ (list # <<>> => 1 \in 1..Len(list) /\ list[1] \in ids)
  <1>1. list \in Seq(Nat) /\ \A i \in 1..Len(list) : list[i] \in ids
    BY DEF Lists
  <1>2. Len(list) \in Nat /\ (list # <<>> => 1 \in 1..Len(list))
    BY <1>1, EmptySeq
  <1>. QED BY <1>1, <1>2

(* What a worker makes is its own.                                           *)
Owns(w) ==
    /\ maker[w].id \in DOMAIN archives /\ maker[w].id \notin DOMAIN manifests
    /\ maker[w].step = "recording" => maker[w].sum = {archives[maker[w].id]}
    /\ \A v \in Workers : /\ v # w /\ Busy(v) => maker[v].id # maker[w].id
                          /\ maker[w].id \notin maker[v].doomed
    /\ \A r \in restoring : r.id # maker[w].id

NewestIsSound ==
    listed # <<>> =>
        /\ listed[1] \in DOMAIN archives /\ archives[listed[1]] = manifests[listed[1]]
        /\ \A w \in Workers : listed[1] \notin maker[w].doomed

RestoresSound ==
    \A r \in restoring : r.id \in DOMAIN archives => archives[r.id] = r.sum

Unshared == ~shared => /\ \A w \in Workers : Busy(w) => Owns(w)
                       /\ NewestIsSound /\ RestoresSound

(* Whoever rotates last finds everything beyond the retention in a list, but *)
(* for what the disk refused to remove.                                      *)
RotatedByOne(id) ==
    \E w \in Workers : id \in stuck \/ (maker[w].step = "rotating" /\ id \in maker[w].doomed)
AllRotated ==
    (\E w \in Workers : maker[w].step = "rotating") /\ (\A w \in Workers : maker[w].step # "listing")
        => \A i \in 1..Len(listed) : i > Retention => RotatedByOne(listed[i])

BackupInv ==
    ArchiveShapes /\ MakerShapes /\ Lists(listed, DOMAIN manifests) /\ Unshared /\ AllRotated

LEMMA BackupsStart == BackupInit => BackupInv
  <1> SUFFICES ASSUME BackupInit PROVE BackupInv
    OBVIOUS
  <1>1. /\ second = 1 /\ disk = [s \in Sources |-> 0]
        /\ archives = <<>> /\ manifests = <<>> /\ listed = <<>>
        /\ maker = [w \in Workers |-> Idle]
        /\ restoring = {} /\ opened = 0 /\ stuck = {}
    BY DEF BackupInit
  <1>2. DOMAIN archives = {} /\ DOMAIN manifests = {}
    BY <1>1, NothingFiled
  <1>3. disk \in Contents
    BY <1>1, BackupAssumption DEF Contents
  <1>4. ArchiveShapes
    BY <1>1, <1>2, <1>3, BackupAssumption DEF ArchiveShapes, AtMostOne
  <1>5. \A w \in Workers : /\ maker[w] = Idle /\ maker[w].step = "idle" /\ maker[w].doomed = {}
                           /\ Idle \in Makings
    BY <1>1, BackupAssumption DEF Idle, Making, Makings
  <1>6. MakerShapes
    BY <1>1, <1>5 DEF MakerShapes, Busy
  <1>7. Lists(listed, DOMAIN manifests)
    BY <1>1, <1>2, FS_EmptySet, EmptySeq DEF Lists
  <1>8. Unshared
    BY <1>1, <1>5 DEF Unshared, Busy, NewestIsSound, RestoresSound
  <1>9. AllRotated
    BY <1>5 DEF AllRotated
  <1>. QED BY <1>4, <1>6, <1>7, <1>8, <1>9 DEF BackupInv

LEMMA OthersList ==
    ASSUME Lists(listed, DOMAIN manifests), NEW id \in Nat
    PROVE  /\ Lists(Others(id), DOMAIN manifests \ {id})
           /\ \A j \in 1..Len(Others(id)) : /\ Others(id)[j] # id
                  /\ \E k \in 1..Len(listed) : k >= j /\ listed[k] = Others(id)[j]
           /\ (listed # <<>> /\ listed[1] # id) => Others(id) # <<>> /\ Others(id)[1] = listed[1]
           /\ id \notin DOMAIN manifests => Others(id) = listed
  <1>0. /\ listed \in Seq(Nat) /\ IsFiniteSet(DOMAIN manifests)
        /\ Len(listed) = Cardinality(DOMAIN manifests)
        /\ \A i, j \in 1..Len(listed) : listed[i] = listed[j] => i = j
        /\ \A i \in 1..Len(listed) : listed[i] \in DOMAIN manifests
        /\ \A other \in DOMAIN manifests : \E i \in 1..Len(listed) : listed[i] = other
    BY DEF Lists
  <1>1. DOMAIN listed = 1..Len(listed) /\ Len(listed) \in Nat
    BY <1>0
  <1>2. CASE id \notin DOMAIN manifests
    <2>1. Others(id) = listed
      BY <1>0, <1>1, <1>2 DEF Others
    <2>2. DOMAIN manifests \ {id} = DOMAIN manifests
      BY <1>2
    <2>3. \A j \in 1..Len(listed) : listed[j] # id /\ j >= j
      BY <1>0, <1>1, <1>2
    <2>. QED BY <2>1, <2>2, <2>3
  <1>3. CASE id \in DOMAIN manifests
    <2>1. PICK at \in 1..Len(listed) : at = CHOOSE i \in DOMAIN listed : listed[i] = id
      BY <1>0, <1>1, <1>3
    <2>2. listed[at] = id
      BY <1>0, <1>1, <1>3, <2>1
    <2>3. PICK n \in Nat : n = Len(listed) - 1
      <3>1. Len(listed) > 0
        BY <1>1, <2>1
      <3>2. Len(listed) - 1 \in Nat
        BY <1>1, <3>1
      <3>. QED BY <3>2
    <2>4. PICK rest : rest = [i \in 1..n |-> IF i < at THEN listed[i] ELSE listed[i + 1]]
      OBVIOUS
    <2>5. Others(id) = rest
      BY <1>0, <1>1, <1>3, <2>1, <2>3, <2>4 DEF Others
    <2>6. \A i \in 1..n : /\ i \in 1..Len(listed) /\ i + 1 \in 1..Len(listed)
                          /\ rest[i] = IF i < at THEN listed[i] ELSE listed[i + 1]
      BY <1>1, <2>3, <2>4
    <2>7. PICK place : place = [i \in 1..n |-> IF i < at THEN i ELSE i + 1]
      OBVIOUS
    <2>8. \A i \in 1..n : /\ place[i] \in 1..Len(listed) /\ place[i] >= i /\ place[i] # at
                          /\ rest[i] = listed[place[i]]
      <3> SUFFICES ASSUME NEW i \in 1..n
                   PROVE  /\ place[i] \in 1..Len(listed) /\ place[i] >= i /\ place[i] # at
                          /\ rest[i] = listed[place[i]]
        OBVIOUS
      <3>1. /\ i \in 1..Len(listed) /\ i + 1 \in 1..Len(listed) /\ i \in Nat /\ at \in Nat
            /\ rest[i] = IF i < at THEN listed[i] ELSE listed[i + 1]
        BY <1>1, <2>1, <2>6
      <3>2. place[i] = IF i < at THEN i ELSE i + 1
        BY <2>7
      <3>3. CASE i < at
        BY <3>1, <3>2, <3>3
      <3>4. CASE ~(i < at)
        BY <3>1, <3>2, <3>4
      <3>. QED BY <3>3, <3>4
    <2>9. \A i, j \in 1..n : place[i] = place[j] => i = j
      BY <2>1, <2>3, <2>7
    <2>10. rest \in Seq(Nat) /\ Len(rest) = n
      <3>1. \A i \in 1..n : rest[i] \in Nat
        BY <1>0, <2>8
      <3>2. rest \in [1..n -> Nat]
        BY <2>4, <3>1
      <3>. QED BY <3>2
    <2>11. \A i \in 1..n : rest[i] # id /\ rest[i] \in DOMAIN manifests
      <3> SUFFICES ASSUME NEW i \in 1..n PROVE rest[i] # id /\ rest[i] \in DOMAIN manifests
        OBVIOUS
      <3>1. place[i] \in 1..Len(listed) /\ place[i] # at /\ rest[i] = listed[place[i]]
        BY <2>8
      <3>2. listed[place[i]] # listed[at] /\ listed[place[i]] \in DOMAIN manifests
        BY <1>0, <2>1, <3>1
      <3>. QED BY <2>2, <3>1, <3>2
    <2>12. IsFiniteSet(DOMAIN manifests \ {id}) /\ Cardinality(DOMAIN manifests \ {id}) = n
      <3>1. /\ IsFiniteSet(DOMAIN manifests \ {id})
            /\ Cardinality(DOMAIN manifests \ {id}) = Cardinality(DOMAIN manifests) - 1
        BY <1>0, <1>3, FS_RemoveElement
      <3>. QED BY <1>0, <2>3, <3>1
    <2>13. ASSUME NEW other \in DOMAIN manifests \ {id} PROVE \E i \in 1..n : rest[i] = other
      <3>1. PICK k \in 1..Len(listed) : listed[k] = other
        BY <1>0
      <3>2. k # at
        BY <2>2, <3>1
      <3>3. CASE k < at
        <4>1. k \in 1..n /\ rest[k] = listed[k]
          BY <1>1, <2>1, <2>3, <2>4, <3>3
        <4>. QED BY <3>1, <4>1
      <3>4. CASE k > at
        <4>1. PICK j \in 1..n : j = k - 1 /\ ~(j < at) /\ j + 1 = k
          <5>1. k - 1 \in 1..n /\ ~(k - 1 < at) /\ (k - 1) + 1 = k
            BY <1>1, <2>1, <2>3, <3>1, <3>4
          <5>. QED BY <5>1
        <4>2. rest[j] = listed[k]
          BY <2>4, <4>1
        <4>. QED BY <3>1, <4>2
      <3>. QED BY <1>1, <2>1, <3>2, <3>3, <3>4
    <2>14. Lists(rest, DOMAIN manifests \ {id})
      <3>1. \A i, j \in 1..n : rest[i] = rest[j] => i = j
        <4> SUFFICES ASSUME NEW i \in 1..n, NEW j \in 1..n, rest[i] = rest[j] PROVE i = j
          OBVIOUS
        <4>1. /\ place[i] \in 1..Len(listed) /\ rest[i] = listed[place[i]]
              /\ place[j] \in 1..Len(listed) /\ rest[j] = listed[place[j]]
          BY <2>8
        <4>2. place[i] = place[j]
          BY <1>0, <4>1
        <4>. QED BY <2>9, <4>2
      <3>. QED BY <2>10, <2>11, <2>12, <2>13, <3>1 DEF Lists
    <2>15. ASSUME listed # <<>>, listed[1] # id PROVE rest # <<>> /\ rest[1] = listed[1]
      <3>1. at > 1 /\ 1 \in 1..n /\ 1 < at
        BY <1>1, <2>1, <2>2, <2>3, <2>15
      <3>2. rest[1] = listed[1]
        BY <2>4, <3>1
      <3>3. rest # <<>>
        BY <2>10, <3>1
      <3>. QED BY <3>2, <3>3
    <2>. QED BY <1>3, <2>5, <2>8, <2>10, <2>11, <2>14, <2>15
  <1>. QED BY <1>2, <1>3

LEMMA NewestList ==
    ASSUME NEW list, NEW ids, Lists(list, ids), NEW id \in Nat, id \notin ids
    PROVE  /\ Lists(<<id>> \o list, ids \cup {id})
           /\ (<<id>> \o list)[1] = id
  <1>0. /\ list \in Seq(Nat) /\ IsFiniteSet(ids) /\ Len(list) = Cardinality(ids)
        /\ \A i, j \in 1..Len(list) : list[i] = list[j] => i = j
        /\ \A i \in 1..Len(list) : list[i] \in ids
        /\ \A other \in ids : \E i \in 1..Len(list) : list[i] = other
    BY DEF Lists
  <1>1. PICK one \in Seq(Nat) : one = <<id>> /\ Len(one) = 1 /\ one[1] = id
    <2>1. <<id>> \in Seq(Nat) /\ Len(<<id>>) = 1 /\ <<id>>[1] = id
      OBVIOUS
    <2>. QED BY <2>1
  <1>2. PICK new : new = one \o list
    OBVIOUS
  <1>3. PICK n \in Nat : n = Len(list)
    BY <1>0
  <1>4. /\ new \in Seq(Nat) /\ Len(new) = 1 + n
        /\ \A i \in 1..1 + n : new[i] = IF i <= 1 THEN one[i] ELSE list[i - 1]
    BY <1>0, <1>1, <1>2, <1>3, ConcatProperties
  <1>5. new[1] = id /\ \A i \in 1..n : new[i + 1] = list[i]
    BY <1>1, <1>3, <1>4
  <1>6. ASSUME NEW i \in 1..1 + n, i # 1 PROVE \E k \in 1..n : i = k + 1 /\ new[i] = list[k]
    <2>1. PICK k \in 1..n : i = k + 1
      BY <1>3, <1>6
    <2>. QED BY <1>5, <2>1
  <1>7. ASSUME NEW i \in 1..1 + n, NEW j \in 1..1 + n, new[i] = new[j] PROVE i = j
    <2>1. CASE i = 1
      <3>1. CASE j # 1
        <4>1. PICK k \in 1..n : j = k + 1 /\ new[j] = list[k]
          BY <1>6, <3>1
        <4>. QED BY <1>0, <1>3, <1>5, <1>7, <2>1, <4>1
      <3>. QED BY <2>1, <3>1
    <2>2. CASE i # 1
      <3>1. PICK k \in 1..n : i = k + 1 /\ new[i] = list[k]
        BY <1>6, <2>2
      <3>2. CASE j = 1
        BY <1>0, <1>3, <1>5, <1>7, <3>1, <3>2
      <3>3. CASE j # 1
        <4>1. PICK m \in 1..n : j = m + 1 /\ new[j] = list[m]
          BY <1>6, <3>3
        <4>2. k = m
          BY <1>0, <1>3, <1>7, <3>1, <4>1
        <4>. QED BY <3>1, <4>1, <4>2
      <3>. QED BY <3>2, <3>3
    <2>. QED BY <2>1, <2>2
  <1>8. \A i \in 1..1 + n : new[i] \in ids \cup {id}
    BY <1>0, <1>3, <1>5, <1>6
  <1>9. ASSUME NEW other \in ids \cup {id} PROVE \E i \in 1..1 + n : new[i] = other
    <2>1. CASE other = id
      BY <1>3, <1>5, <2>1
    <2>2. CASE other \in ids
      <3>1. PICK k \in 1..n : list[k] = other
        BY <1>0, <1>3, <2>2
      <3>2. k + 1 \in 1..1 + n
        BY <1>3
      <3>. QED BY <1>5, <3>1, <3>2
    <2>. QED BY <2>1, <2>2
  <1>10. IsFiniteSet(ids \cup {id}) /\ Cardinality(ids \cup {id}) = 1 + n
    <2>1. IsFiniteSet(ids \cup {id}) /\ Cardinality(ids \cup {id}) = Cardinality(ids) + 1
      BY <1>0, FS_AddElement
    <2>. QED BY <1>0, <1>3, <2>1
  <1>11. Lists(new, ids \cup {id})
    BY <1>4, <1>7, <1>8, <1>9, <1>10 DEF Lists
  <1>. QED BY <1>1, <1>2, <1>5, <1>11

LEMMA MakerMoves ==
    ASSUME MakerShapes, NEW w \in Workers, NEW new \in Makings, maker' = [maker EXCEPT ![w] = new]
    PROVE  /\ maker' \in [Workers -> Makings] /\ maker'[w] = new
           /\ \A v \in Workers : v # w => maker'[v] = maker[v]
  BY DEF MakerShapes

LEMMA MakingIs ==
    ASSUME NEW step \in {"idle", "adding", "hashing", "recording", "listing", "rotating"},
           NEW id \in 0..Seconds, NEW sum \in SUBSET Archive, NEW doomed \in SUBSET (1..Seconds)
    PROVE  /\ Making(step, id, sum, doomed) \in Makings
           /\ Making(step, id, sum, doomed).step = step /\ Making(step, id, sum, doomed).id = id
           /\ Making(step, id, sum, doomed).sum = sum /\ Making(step, id, sum, doomed).doomed = doomed
  BY DEF Making, Makings

(* Nothing moves but the clock, the live state and the restore.              *)
LEMMA QuietKeeps ==
    ASSUME BackupInv, UNCHANGED <<archives, manifests, listed, maker, opened, shared, stuck>>,
           second' \in 1..Seconds, second' >= second, disk' \in Contents, AtMostOne(restoring'),
           \A r \in restoring' : \/ r \in restoring
                                 \/ /\ r.id \in DOMAIN manifests /\ r.id \in DOMAIN archives
                                    /\ archives[r.id] = r.sum
    PROVE  BackupInv'
  <1>0. ArchiveShapes /\ MakerShapes /\ Lists(listed, DOMAIN manifests) /\ Unshared /\ AllRotated
    BY DEF BackupInv
  <1>1. ArchiveShapes'
    <2>1. opened \in 0..second'
      BY <1>0 DEF ArchiveShapes
    <2>. QED BY <1>0, <2>1 DEF ArchiveShapes
  <1>2. MakerShapes'
    BY <1>0 DEF MakerShapes, Busy
  <1>3. Lists(listed, DOMAIN manifests)'
    BY <1>0 DEF Lists
  <1>4. Unshared'
    <2>1. ASSUME ~shared, NEW w \in Workers, Busy(w) PROVE Owns(w)'
      <3>1. Owns(w)
        BY <1>0, <2>1 DEF Unshared
      <3>2. maker[w].id \notin DOMAIN manifests
        BY <3>1 DEF Owns
      <3>. QED BY <3>1, <3>2 DEF Owns, Busy
    <2>2. ASSUME ~shared PROVE NewestIsSound'
      BY <1>0, <2>2 DEF Unshared, NewestIsSound
    <2>3. ASSUME ~shared PROVE RestoresSound'
      BY <1>0, <2>3 DEF Unshared, RestoresSound
    <2>. QED BY <2>1, <2>2, <2>3 DEF Unshared, Busy
  <1>5. AllRotated'
    BY <1>0 DEF AllRotated, RotatedByOne
  <1>. QED BY <1>1, <1>2, <1>3, <1>4, <1>5 DEF BackupInv

(* One worker goes on and no file changes.                                   *)
LEMMA WorkerKeeps ==
    ASSUME BackupInv, UNCHANGED <<second, disk, archives, manifests, listed, restoring, opened, shared, stuck>>,
           NEW w \in Workers, NEW new \in Makings, maker' = [maker EXCEPT ![w] = new],
           new.step \in {"adding", "hashing", "recording"} =>
               /\ Busy(w) /\ new.id = maker[w].id
               /\ new.step = "recording" => new.sum = {archives[new.id]},
           \A id \in new.doomed : \E i \in 1..Len(listed) : i > 1 /\ id = listed[i],
           \/ new.step = "listing"
           \/ /\ new.step = "rotating"
              /\ \A i \in 1..Len(listed) : i > Retention => listed[i] \in new.doomed
           \/ /\ new.step \notin {"listing", "rotating"} /\ maker[w].step # "listing"
              /\ maker[w].step = "rotating" => maker[w].doomed = {}
    PROVE  BackupInv'
  <1>0. ArchiveShapes /\ MakerShapes /\ Lists(listed, DOMAIN manifests) /\ Unshared /\ AllRotated
    BY DEF BackupInv
  <1>1. /\ maker' \in [Workers -> Makings] /\ maker'[w] = new
        /\ \A v \in Workers : v # w => maker'[v] = maker[v]
    BY <1>0, MakerMoves
  <1>2. /\ \A id \in new.doomed : id \in DOMAIN manifests
        /\ listed # <<>> => listed[1] \notin new.doomed
    BY <1>0 DEF Lists
  <1>3. ArchiveShapes'
    BY <1>0 DEF ArchiveShapes
  <1>4. MakerShapes'
    <2>1. ASSUME NEW v \in Workers
          PROVE  /\ Busy(v)' => maker'[v].id \in 1..opened
                 /\ maker'[v].doomed \subseteq 1..opened
      <3>1. CASE v = w
        BY <1>0, <1>1, <1>2, <3>1 DEF MakerShapes, ArchiveShapes, Busy
      <3>2. CASE v # w
        BY <1>0, <1>1, <3>2 DEF MakerShapes, Busy
      <3>. QED BY <3>1, <3>2
    <2>. QED BY <1>1, <2>1 DEF MakerShapes
  <1>5. Lists(listed, DOMAIN manifests)'
    BY <1>0 DEF Lists
  <1>6. Unshared'
    <2> SUFFICES ASSUME ~shared
                 PROVE  /\ \A v \in Workers : Busy(v)' => Owns(v)'
                        /\ NewestIsSound' /\ RestoresSound'
      BY DEF Unshared
    <2>0. (\A v \in Workers : Busy(v) => Owns(v)) /\ NewestIsSound /\ RestoresSound
      BY <1>0 DEF Unshared
    <2>1. \A v \in Workers : Busy(v)' => Busy(v) /\ maker'[v].id = maker[v].id
      BY <1>1 DEF Busy
    <2>2. ASSUME NEW v \in Workers, Busy(v)' PROVE Owns(v)'
      <3>0. Busy(v) /\ maker'[v].id = maker[v].id
        BY <2>1, <2>2
      <3>1. /\ maker[v].id \in DOMAIN archives /\ maker[v].id \notin DOMAIN manifests
            /\ maker[v].step = "recording" => maker[v].sum = {archives[maker[v].id]}
            /\ \A u \in Workers : /\ u # v /\ Busy(u) => maker[u].id # maker[v].id
                                  /\ maker[v].id \notin maker[u].doomed
            /\ \A r \in restoring : r.id # maker[v].id
        BY <2>0, <3>0 DEF Owns
      <3>2. maker'[v].step = "recording" => maker'[v].sum = {archives[maker[v].id]}
        BY <1>1, <3>0, <3>1, <2>2 DEF Busy
      <3>3. \A u \in Workers : /\ u # v /\ Busy(u)' => maker'[u].id # maker[v].id
                               /\ maker[v].id \notin maker'[u].doomed
        BY <1>1, <1>2, <2>1, <3>1
      <3>. QED BY <3>0, <3>1, <3>2, <3>3 DEF Owns
    <2>3. NewestIsSound'
      BY <1>1, <1>2, <2>0 DEF NewestIsSound
    <2>4. RestoresSound'
      BY <2>0 DEF RestoresSound
    <2>. QED BY <2>2, <2>3, <2>4
  <1>7. AllRotated'
    <2> SUFFICES ASSUME \E v \in Workers : maker'[v].step = "rotating",
                        \A v \in Workers : maker'[v].step # "listing",
                        NEW i \in 1..Len(listed), i > Retention
                 PROVE  \E v \in Workers :
                            listed[i] \in stuck
                              \/ (maker'[v].step = "rotating" /\ listed[i] \in maker'[v].doomed)
      BY DEF AllRotated, RotatedByOne
    <2>1. new.step # "listing"
      BY <1>1
    <2>2. CASE new.step = "rotating"
      BY <1>1, <2>1, <2>2
    <2>3. CASE new.step # "rotating"
      <3>1. maker[w].step # "listing" /\ (maker[w].step = "rotating" => maker[w].doomed = {})
        BY <2>1, <2>3
      <3>2. (\E v \in Workers : maker[v].step = "rotating") /\ \A v \in Workers : maker[v].step # "listing"
        BY <1>1, <2>3, <3>1
      <3>3. PICK v \in Workers :
                listed[i] \in stuck
                  \/ (maker[v].step = "rotating" /\ listed[i] \in maker[v].doomed)
        BY <1>0, <3>2 DEF AllRotated, RotatedByOne
      <3>4. listed[i] \in stuck \/ v # w
        BY <3>1, <3>3
      <3>. QED BY <1>1, <3>3, <3>4
    <2>. QED BY <2>2, <2>3
  <1>. QED BY <1>3, <1>4, <1>5, <1>6, <1>7 DEF BackupInv

LEMMA OpenKeeps == ASSUME BackupInv, NEW w \in Workers, OpenArchive(w) PROVE BackupInv'
  <1>0. ArchiveShapes /\ MakerShapes /\ Lists(listed, DOMAIN manifests) /\ Unshared /\ AllRotated
    BY DEF BackupInv
  <1>1. PICK new : new = Making("adding", second, {}, {})
    OBVIOUS
  <1>2. PICK fresh : fresh = [whole |-> FALSE, files |-> <<>>]
    OBVIOUS
  <1>3. /\ ~shared /\ maker[w].step = "idle"
        /\ maker' = [maker EXCEPT ![w] = new] /\ opened' = second
        /\ shared' = (shared \/ opened = second)
        /\ archives' = Extended(archives, second, fresh)
        /\ UNCHANGED <<second, disk, manifests, listed, restoring, stuck>>
    BY <1>1, <1>2 DEF OpenArchive
  <1>4. /\ second \in 1..Seconds /\ second \in Nat /\ opened \in Nat /\ opened <= second
        /\ second \in 0..Seconds
    BY <1>0, BackupAssumption DEF ArchiveShapes
  <1>5. new \in Makings /\ new.step = "adding" /\ new.id = second /\ new.doomed = {}
    BY <1>1, <1>4, MakingIs
  <1>6. /\ maker' \in [Workers -> Makings] /\ maker'[w] = new
        /\ \A v \in Workers : v # w => maker'[v] = maker[v]
    BY <1>0, <1>3, <1>5, MakerMoves
  <1>7. /\ DOMAIN archives' = DOMAIN archives \cup {second} /\ archives'[second] = fresh
        /\ \A id \in DOMAIN archives : id # second => archives'[id] = archives[id]
    BY <1>3 DEF Extended
  <1>8. \A id : id \in 1..opened => id \in 1..second
    BY <1>4
  <1>9. ArchiveShapes'
    <2>1. fresh \in Archive /\ ~fresh.whole
      BY <1>2 DEF Archive
    <2>2. \A id \in DOMAIN archives' : /\ archives'[id] \in Archive
                                       /\ archives'[id].whole => archives'[id].files \in Contents
      BY <1>0, <1>7, <2>1 DEF ArchiveShapes
    <2>3. DOMAIN archives' \subseteq 1..second /\ DOMAIN manifests \subseteq 1..second
          /\ \A r \in restoring : r.id \in 1..second
      BY <1>0, <1>4, <1>7, <1>8 DEF ArchiveShapes
    <2>4. second \in 0..second
      BY <1>4
    <2>. QED BY <1>0, <1>3, <2>2, <2>3, <2>4 DEF ArchiveShapes
  <1>10. MakerShapes'
    <2>1. ASSUME NEW v \in Workers
          PROVE  /\ Busy(v)' => maker'[v].id \in 1..second
                 /\ maker'[v].doomed \subseteq 1..second
      <3>1. CASE v = w
        BY <1>4, <1>5, <1>6, <3>1
      <3>2. CASE v # w
        BY <1>0, <1>6, <1>8, <3>2 DEF MakerShapes, Busy
      <3>. QED BY <3>1, <3>2
    <2>. QED BY <1>3, <1>6, <2>1 DEF MakerShapes
  <1>11. Lists(listed, DOMAIN manifests)'
    BY <1>0, <1>3 DEF Lists
  <1>12. Unshared'
    <2> SUFFICES ASSUME opened # second
                 PROVE  /\ \A v \in Workers : Busy(v)' => Owns(v)'
                        /\ NewestIsSound' /\ RestoresSound'
      BY <1>3 DEF Unshared
    <2>0. (\A v \in Workers : Busy(v) => Owns(v)) /\ NewestIsSound /\ RestoresSound
      BY <1>0, <1>3 DEF Unshared
    <2>1. second \notin 1..opened
      BY <1>4
    <2>2. /\ second \notin DOMAIN archives /\ second \notin DOMAIN manifests
          /\ \A r \in restoring : r.id # second
          /\ \A v \in Workers : second \notin maker[v].doomed /\ (Busy(v) => maker[v].id # second)
      BY <1>0, <2>1 DEF ArchiveShapes, MakerShapes
    <2>3. ASSUME NEW v \in Workers, Busy(v)' PROVE Owns(v)'
      <3>1. CASE v = w
        <4>1. \A u \in Workers : u # v /\ Busy(u)' => maker'[u].id # second
          BY <1>6, <2>2, <3>1 DEF Busy
        <4>2. \A u \in Workers : second \notin maker'[u].doomed
          BY <1>5, <1>6, <2>2
        <4>3. maker'[v].id = second /\ maker'[v].step = "adding"
          BY <1>5, <1>6, <3>1
        <4>4. second \in DOMAIN archives' /\ second \notin DOMAIN manifests'
              /\ \A r \in restoring' : r.id # second
          BY <1>3, <1>7, <2>2
        <4>. QED BY <4>1, <4>2, <4>3, <4>4 DEF Owns
      <3>2. CASE v # w
        <4>0. Busy(v) /\ maker'[v] = maker[v]
          BY <1>6, <2>3, <3>2 DEF Busy
        <4>1. /\ maker[v].id \in DOMAIN archives /\ maker[v].id \notin DOMAIN manifests
              /\ maker[v].step = "recording" => maker[v].sum = {archives[maker[v].id]}
              /\ \A u \in Workers : /\ u # v /\ Busy(u) => maker[u].id # maker[v].id
                                    /\ maker[v].id \notin maker[u].doomed
              /\ \A r \in restoring : r.id # maker[v].id
          BY <2>0, <4>0 DEF Owns
        <4>2. maker[v].id # second
          BY <2>2, <4>0
        <4>3. maker[v].id \in DOMAIN archives' /\ archives'[maker[v].id] = archives[maker[v].id]
          BY <1>7, <4>1, <4>2
        <4>4. \A u \in Workers : /\ u # v /\ Busy(u)' => maker'[u].id # maker[v].id
                                 /\ maker[v].id \notin maker'[u].doomed
          <5>1. ASSUME NEW u \in Workers PROVE /\ u # v /\ Busy(u)' => maker'[u].id # maker[v].id
                                               /\ maker[v].id \notin maker'[u].doomed
            <6>1. CASE u = w
              BY <1>5, <1>6, <4>2, <6>1
            <6>2. CASE u # w
              BY <1>6, <4>1, <6>2 DEF Busy
            <6>. QED BY <6>1, <6>2
          <5>. QED BY <5>1
        <4>. QED BY <1>3, <4>0, <4>1, <4>3, <4>4 DEF Owns
      <3>. QED BY <3>1, <3>2
    <2>4. NewestIsSound'
      <3> SUFFICES ASSUME listed # <<>>
                   PROVE  /\ listed[1] \in DOMAIN archives' /\ archives'[listed[1]] = manifests[listed[1]]
                          /\ \A v \in Workers : listed[1] \notin maker'[v].doomed
        BY <1>3 DEF NewestIsSound
      <3>1. /\ listed[1] \in DOMAIN archives /\ archives[listed[1]] = manifests[listed[1]]
            /\ \A v \in Workers : listed[1] \notin maker[v].doomed
        BY <2>0 DEF NewestIsSound
      <3>. QED BY <1>5, <1>6, <1>7, <2>2, <3>1
    <2>5. RestoresSound'
      BY <1>3, <1>7, <2>0, <2>2 DEF RestoresSound
    <2>. QED BY <2>3, <2>4, <2>5
  <1>13. AllRotated'
    <2>1. \A v \in Workers : /\ maker'[v].step = "rotating" <=> maker[v].step = "rotating"
                             /\ maker'[v].step = "listing" <=> maker[v].step = "listing"
                             /\ maker[v].step = "rotating" => maker'[v].doomed = maker[v].doomed
      BY <1>3, <1>5, <1>6
    <2>. QED BY <1>0, <1>3, <2>1 DEF AllRotated, RotatedByOne
  <1>. QED BY <1>9, <1>10, <1>11, <1>12, <1>13 DEF BackupInv

(* A worker alone with its archive fills it.                                 *)
LEMMA ArchiveKeeps == ASSUME BackupInv, NEW w \in Workers, AddSources(w) PROVE BackupInv'
  <1>0. ArchiveShapes /\ MakerShapes /\ Lists(listed, DOMAIN manifests) /\ Unshared /\ AllRotated
    BY DEF BackupInv
  <1>1. PICK id : id = maker[w].id
    OBVIOUS
  <1>2. PICK new : new = Making("hashing", id, {}, {})
    OBVIOUS
  <1>3. PICK alone \in BOOLEAN : alone <=> (Writers(id) = {w} /\ archives[id].files = <<>>)
    OBVIOUS
  <1>4. PICK filled : filled = [whole |-> alone, files |-> disk]
    OBVIOUS
  <1>5. /\ maker[w].step = "adding" /\ maker' = [maker EXCEPT ![w] = new]
        /\ archives' = IF id \in DOMAIN archives THEN Extended(archives, id, filled) ELSE archives
        /\ UNCHANGED <<second, disk, manifests, listed, restoring, opened, shared, stuck>>
    <2>1. (Writers(id) = {w} /\ archives[id].files = <<>>) = alone
      BY <1>3
    <2>. QED BY <1>1, <1>2, <1>4, <2>1 DEF AddSources
  <1>6. Busy(w) /\ id \in 1..opened /\ id \in 0..Seconds
    BY <1>0, <1>1, <1>5 DEF Busy, MakerShapes, Makings
  <1>7. new \in Makings /\ new.step = "hashing" /\ new.id = id /\ new.doomed = {}
    BY <1>2, <1>6, MakingIs
  <1>8. /\ maker' \in [Workers -> Makings] /\ maker'[w] = new
        /\ \A v \in Workers : v # w => maker'[v] = maker[v]
    BY <1>0, <1>5, <1>7, MakerMoves
  <1>9. /\ DOMAIN archives' = DOMAIN archives
        /\ id \in DOMAIN archives => archives'[id] = filled
        /\ \A other \in DOMAIN archives : other # id => archives'[other] = archives[other]
    BY <1>5 DEF Extended
  <1>10. ArchiveShapes'
    <2>1. filled \in Archive /\ filled.files \in Contents
      BY <1>0, <1>4 DEF Archive, ArchiveShapes
    <2>2. \A other \in DOMAIN archives' : /\ archives'[other] \in Archive
                                          /\ archives'[other].whole => archives'[other].files \in Contents
      BY <1>0, <1>9, <2>1 DEF ArchiveShapes
    <2>. QED BY <1>0, <1>5, <1>9, <2>2 DEF ArchiveShapes
  <1>11. MakerShapes'
    <2>1. ASSUME NEW v \in Workers
          PROVE  /\ Busy(v)' => maker'[v].id \in 1..opened
                 /\ maker'[v].doomed \subseteq 1..opened
      <3>1. CASE v = w
        BY <1>6, <1>7, <1>8, <3>1
      <3>2. CASE v # w
        BY <1>0, <1>8, <3>2 DEF MakerShapes, Busy
      <3>. QED BY <3>1, <3>2
    <2>. QED BY <1>5, <1>8, <2>1 DEF MakerShapes
  <1>12. Lists(listed, DOMAIN manifests)'
    BY <1>0, <1>5 DEF Lists
  <1>13. Unshared'
    <2> SUFFICES ASSUME ~shared
                 PROVE  /\ \A v \in Workers : Busy(v)' => Owns(v)'
                        /\ NewestIsSound' /\ RestoresSound'
      BY <1>5 DEF Unshared
    <2>0. (\A v \in Workers : Busy(v) => Owns(v)) /\ NewestIsSound /\ RestoresSound
      BY <1>0 DEF Unshared
    <2>1. /\ id \in DOMAIN archives /\ id \notin DOMAIN manifests
          /\ \A v \in Workers : v # w /\ Busy(v) => maker[v].id # id
          /\ \A r \in restoring : r.id # id
      BY <1>1, <1>6, <2>0 DEF Owns
    <2>2. \A v \in Workers : Busy(v)' => /\ Busy(v) /\ maker'[v].id = maker[v].id
                                         /\ (v # w => maker'[v] = maker[v])
      BY <1>1, <1>6, <1>7, <1>8 DEF Busy
    <2>3. \A v \in Workers : maker'[v].doomed \subseteq maker[v].doomed
      BY <1>7, <1>8
    <2>4. ASSUME NEW v \in Workers, Busy(v)' PROVE Owns(v)'
      <3>0. Busy(v) /\ maker'[v].id = maker[v].id
        BY <2>2, <2>4
      <3>1. /\ maker[v].id \in DOMAIN archives /\ maker[v].id \notin DOMAIN manifests
            /\ maker[v].step = "recording" => maker[v].sum = {archives[maker[v].id]}
            /\ \A u \in Workers : /\ u # v /\ Busy(u) => maker[u].id # maker[v].id
                                  /\ maker[v].id \notin maker[u].doomed
            /\ \A r \in restoring : r.id # maker[v].id
        BY <2>0, <3>0 DEF Owns
      <3>2. maker'[v].step = "recording" => maker'[v].sum = {archives'[maker[v].id]}
        <4>1. CASE v = w
          BY <1>7, <1>8, <4>1
        <4>2. CASE v # w
          <5>1. maker[v].id # id /\ archives'[maker[v].id] = archives[maker[v].id]
            BY <1>9, <2>1, <3>0, <3>1, <4>2
          <5>. QED BY <1>8, <3>1, <4>2, <5>1
        <4>. QED BY <4>1, <4>2
      <3>3. \A u \in Workers : /\ u # v /\ Busy(u)' => maker'[u].id # maker[v].id
                               /\ maker[v].id \notin maker'[u].doomed
        BY <2>2, <2>3, <3>1
      <3>. QED BY <1>5, <1>9, <3>0, <3>1, <3>2, <3>3 DEF Owns
    <2>5. NewestIsSound'
      <3> SUFFICES ASSUME listed # <<>>
                   PROVE  /\ listed[1] \in DOMAIN archives' /\ archives'[listed[1]] = manifests[listed[1]]
                          /\ \A v \in Workers : listed[1] \notin maker'[v].doomed
        BY <1>5 DEF NewestIsSound
      <3>1. /\ listed[1] \in DOMAIN archives /\ archives[listed[1]] = manifests[listed[1]]
            /\ \A v \in Workers : listed[1] \notin maker[v].doomed
        BY <2>0 DEF NewestIsSound
      <3>2. listed[1] \in DOMAIN manifests
        BY <1>0, EmptySeq DEF Lists
      <3>. QED BY <1>9, <2>1, <2>3, <3>1, <3>2
    <2>6. RestoresSound'
      BY <1>5, <1>9, <2>0, <2>1 DEF RestoresSound
    <2>. QED BY <2>4, <2>5, <2>6
  <1>14. AllRotated'
    <2>1. \A v \in Workers : /\ maker'[v].step = "rotating" <=> maker[v].step = "rotating"
                             /\ maker'[v].step = "listing" <=> maker[v].step = "listing"
                             /\ maker[v].step = "rotating" => maker'[v].doomed = maker[v].doomed
      BY <1>5, <1>7, <1>8
    <2>. QED BY <1>0, <1>5, <2>1 DEF AllRotated, RotatedByOne
  <1>. QED BY <1>10, <1>11, <1>12, <1>13, <1>14 DEF BackupInv

LEMMA ManifestKeeps == ASSUME BackupInv, NEW w \in Workers, WriteManifest(w) PROVE BackupInv'
  <1>0. ArchiveShapes /\ MakerShapes /\ Lists(listed, DOMAIN manifests) /\ Unshared /\ AllRotated
    BY DEF BackupInv
  <1>1. PICK id : id = maker[w].id
    OBVIOUS
  <1>2. PICK new : new = Making("listing", 0, {}, {})
    OBVIOUS
  <1>3. PICK sum \in maker[w].sum : manifests' = Extended(manifests, id, sum)
    BY <1>1 DEF WriteManifest, Recorded
  <1>4. /\ maker[w].step = "recording" /\ maker' = [maker EXCEPT ![w] = new]
        /\ listed' = <<id>> \o Others(id)
        /\ UNCHANGED <<second, disk, archives, restoring, opened, shared, stuck>>
    BY <1>1, <1>2 DEF WriteManifest, NewestFirst
  <1>6. Busy(w) /\ id \in 1..opened /\ id \in Nat
    BY <1>0, <1>1, <1>4 DEF Busy, MakerShapes, Makings
  <1>7. new \in Makings /\ new.step = "listing" /\ new.doomed = {}
    <2>1. 0 \in 0..Seconds
      BY BackupAssumption
    <2>. QED BY <1>2, <2>1, MakingIs
  <1>8. /\ maker' \in [Workers -> Makings] /\ maker'[w] = new
        /\ \A v \in Workers : v # w => maker'[v] = maker[v]
    BY <1>0, <1>4, <1>7, MakerMoves
  <1>9. /\ DOMAIN manifests' = DOMAIN manifests \cup {id} /\ manifests'[id] = sum
        /\ \A other \in DOMAIN manifests : other # id => manifests'[other] = manifests[other]
    BY <1>3 DEF Extended
  <1>10. ArchiveShapes'
    BY <1>0, <1>4, <1>6, <1>9 DEF ArchiveShapes
  <1>11. MakerShapes'
    <2>1. ASSUME NEW v \in Workers
          PROVE  /\ Busy(v)' => maker'[v].id \in 1..opened
                 /\ maker'[v].doomed \subseteq 1..opened
      <3>1. CASE v = w
        BY <1>7, <1>8, <3>1 DEF Busy
      <3>2. CASE v # w
        BY <1>0, <1>8, <3>2 DEF MakerShapes, Busy
      <3>. QED BY <3>1, <3>2
    <2>. QED BY <1>4, <1>8, <2>1 DEF MakerShapes
  <1>12. Lists(listed', DOMAIN manifests') /\ listed'[1] = id
    <2>1. Lists(Others(id), DOMAIN manifests \ {id})
      BY <1>0, <1>6, OthersList
    <2>2. PICK rest : rest = Others(id)
      OBVIOUS
    <2>3. PICK ids : ids = DOMAIN manifests \ {id}
      OBVIOUS
    <2>4. Lists(<<id>> \o rest, ids \cup {id}) /\ (<<id>> \o rest)[1] = id
      <3>1. Lists(rest, ids) /\ id \notin ids
        BY <2>1, <2>2, <2>3
      <3>. QED BY <1>6, <3>1, NewestList
    <2>5. ids \cup {id} = DOMAIN manifests' /\ <<id>> \o rest = listed'
      BY <1>4, <1>9, <2>2, <2>3
    <2>. QED BY <2>4, <2>5
  <1>13. Unshared'
    <2> SUFFICES ASSUME ~shared
                 PROVE  /\ \A v \in Workers : Busy(v)' => Owns(v)'
                        /\ NewestIsSound' /\ RestoresSound'
      BY <1>4 DEF Unshared
    <2>0. (\A v \in Workers : Busy(v) => Owns(v)) /\ NewestIsSound /\ RestoresSound
      BY <1>0 DEF Unshared
    <2>1. /\ id \in DOMAIN archives /\ maker[w].sum = {archives[id]}
          /\ \A v \in Workers : /\ v # w /\ Busy(v) => maker[v].id # id
                                /\ id \notin maker[v].doomed
      BY <1>1, <1>4, <1>6, <2>0 DEF Owns
    <2>2. \A v \in Workers : Busy(v)' => Busy(v) /\ v # w /\ maker'[v] = maker[v]
      BY <1>7, <1>8 DEF Busy
    <2>3. \A v \in Workers : maker'[v].doomed \subseteq maker[v].doomed
      BY <1>7, <1>8
    <2>4. ASSUME NEW v \in Workers, Busy(v)' PROVE Owns(v)'
      <3>0. Busy(v) /\ v # w /\ maker'[v] = maker[v]
        BY <2>2, <2>4
      <3>1. /\ maker[v].id \in DOMAIN archives /\ maker[v].id \notin DOMAIN manifests
            /\ maker[v].step = "recording" => maker[v].sum = {archives[maker[v].id]}
            /\ \A u \in Workers : /\ u # v /\ Busy(u) => maker[u].id # maker[v].id
                                  /\ maker[v].id \notin maker[u].doomed
            /\ \A r \in restoring : r.id # maker[v].id
        BY <2>0, <3>0 DEF Owns
      <3>2. maker[v].id \notin DOMAIN manifests'
        BY <1>9, <2>1, <3>0, <3>1
      <3>3. \A u \in Workers : /\ u # v /\ Busy(u)' => maker'[u].id # maker[v].id
                               /\ maker[v].id \notin maker'[u].doomed
        BY <2>2, <2>3, <3>1
      <3>. QED BY <1>4, <3>0, <3>1, <3>2, <3>3 DEF Owns
    <2>5. NewestIsSound'
      BY <1>4, <1>9, <1>12, <2>1, <2>3 DEF NewestIsSound
    <2>6. RestoresSound'
      BY <1>4, <2>0 DEF RestoresSound
    <2>. QED BY <2>4, <2>5, <2>6
  <1>14. AllRotated'
    BY <1>7, <1>8 DEF AllRotated
  <1>. QED BY <1>10, <1>11, <1>12, <1>13, <1>14 DEF BackupInv

LEMMA RemovalKeeps ==
    ASSUME BackupInv, NEW w \in Workers, maker[w].step = "rotating", NEW id \in maker[w].doomed,
           archives' = Without(archives, {id}), manifests' = Without(manifests, {id}),
           listed' = Others(id),
           maker' = [maker EXCEPT ![w] = Making("rotating", 0, {}, maker[w].doomed \ {id})],
           UNCHANGED <<second, disk, restoring, opened, shared, stuck>>
    PROVE  BackupInv'
  <1>0. ArchiveShapes /\ MakerShapes /\ Lists(listed, DOMAIN manifests) /\ Unshared /\ AllRotated
    BY DEF BackupInv
  <1>1. /\ archives' = Without(archives, {id}) /\ manifests' = Without(manifests, {id})
        /\ listed' = Others(id)
    OBVIOUS
  <1>2. PICK new : new = Making("rotating", 0, {}, maker[w].doomed \ {id})
    OBVIOUS
  <1>4. /\ maker[w].step = "rotating" /\ maker' = [maker EXCEPT ![w] = new]
        /\ UNCHANGED <<second, disk, restoring, opened, shared, stuck>>
    BY <1>2
  <1>6. id \in Nat /\ maker[w].doomed \ {id} \in SUBSET (1..Seconds)
    BY <1>0 DEF MakerShapes, Makings
  <1>7. new \in Makings /\ new.step = "rotating" /\ new.doomed = maker[w].doomed \ {id}
    <2>1. 0 \in 0..Seconds
      BY BackupAssumption
    <2>. QED BY <1>2, <1>6, <2>1, MakingIs
  <1>8. /\ maker' \in [Workers -> Makings] /\ maker'[w] = new
        /\ \A v \in Workers : v # w => maker'[v] = maker[v]
    BY <1>0, <1>4, <1>7, MakerMoves
  <1>9. /\ DOMAIN archives' = DOMAIN archives \ {id} /\ DOMAIN manifests' = DOMAIN manifests \ {id}
        /\ \A other \in DOMAIN archives : other # id => archives'[other] = archives[other]
        /\ \A other \in DOMAIN manifests : other # id => manifests'[other] = manifests[other]
    BY <1>1 DEF Without
  <1>10. ArchiveShapes'
    BY <1>0, <1>4, <1>9 DEF ArchiveShapes
  <1>11. MakerShapes'
    <2>1. ASSUME NEW v \in Workers
          PROVE  /\ Busy(v)' => maker'[v].id \in 1..opened
                 /\ maker'[v].doomed \subseteq 1..opened
      <3>1. CASE v = w
        BY <1>0, <1>7, <1>8, <3>1 DEF Busy, MakerShapes
      <3>2. CASE v # w
        BY <1>0, <1>8, <3>2 DEF MakerShapes, Busy
      <3>. QED BY <3>1, <3>2
    <2>. QED BY <1>4, <1>8, <2>1 DEF MakerShapes
  <1>12. /\ Lists(listed', DOMAIN manifests')
         /\ \A j \in 1..Len(listed') : /\ listed'[j] # id
                /\ \E k \in 1..Len(listed) : k >= j /\ listed[k] = listed'[j]
         /\ (listed # <<>> /\ listed[1] # id) => listed' # <<>> /\ listed'[1] = listed[1]
         /\ id \notin DOMAIN manifests => listed' = listed
    <2>1. PICK rest : rest = Others(id)
      OBVIOUS
    <2>2. /\ Lists(rest, DOMAIN manifests \ {id})
          /\ \A j \in 1..Len(rest) : /\ rest[j] # id
                /\ \E k \in 1..Len(listed) : k >= j /\ listed[k] = rest[j]
          /\ (listed # <<>> /\ listed[1] # id) => rest # <<>> /\ rest[1] = listed[1]
          /\ id \notin DOMAIN manifests => rest = listed
      BY <1>0, <1>6, <2>1, OthersList
    <2>3. listed' = rest /\ DOMAIN manifests' = DOMAIN manifests \ {id}
      BY <1>1, <1>9, <2>1
    <2>. QED BY <2>2, <2>3
  <1>13. Unshared'
    <2> SUFFICES ASSUME ~shared
                 PROVE  /\ \A v \in Workers : Busy(v)' => Owns(v)'
                        /\ NewestIsSound' /\ RestoresSound'
      BY <1>4 DEF Unshared
    <2>0. (\A v \in Workers : Busy(v) => Owns(v)) /\ NewestIsSound /\ RestoresSound
      BY <1>0 DEF Unshared
    <2>2. \A v \in Workers : Busy(v)' => Busy(v) /\ v # w /\ maker'[v] = maker[v]
      BY <1>7, <1>8 DEF Busy
    <2>3. \A v \in Workers : maker'[v].doomed \subseteq maker[v].doomed
      BY <1>7, <1>8
    <2>4. ASSUME NEW v \in Workers, Busy(v)' PROVE Owns(v)'
      <3>0. Busy(v) /\ v # w /\ maker'[v] = maker[v]
        BY <2>2, <2>4
      <3>1. /\ maker[v].id \in DOMAIN archives /\ maker[v].id \notin DOMAIN manifests
            /\ maker[v].step = "recording" => maker[v].sum = {archives[maker[v].id]}
            /\ \A u \in Workers : /\ u # v /\ Busy(u) => maker[u].id # maker[v].id
                                  /\ maker[v].id \notin maker[u].doomed
            /\ \A r \in restoring : r.id # maker[v].id
        BY <2>0, <3>0 DEF Owns
      <3>2. maker[v].id # id
        BY <1>1, <3>1
      <3>3. \A u \in Workers : /\ u # v /\ Busy(u)' => maker'[u].id # maker[v].id
                               /\ maker[v].id \notin maker'[u].doomed
        BY <2>2, <2>3, <3>1
      <3>4. /\ maker[v].id \in DOMAIN archives' /\ maker[v].id \notin DOMAIN manifests'
            /\ archives'[maker[v].id] = archives[maker[v].id]
        BY <1>9, <3>1, <3>2
      <3>. QED BY <1>4, <3>0, <3>1, <3>3, <3>4 DEF Owns
    <2>5. NewestIsSound'
      <3> SUFFICES ASSUME listed' # <<>>
                   PROVE  /\ listed'[1] \in DOMAIN archives' /\ archives'[listed'[1]] = manifests'[listed'[1]]
                          /\ \A v \in Workers : listed'[1] \notin maker'[v].doomed
        BY DEF NewestIsSound
      <3>1. listed # <<>>
        <4>1. 1 \in 1..Len(listed')
          BY <1>12, ListRead
        <4>2. \E k \in 1..Len(listed) : TRUE
          BY <1>12, <4>1
        <4>. QED BY <4>2
      <3>2. /\ listed[1] \in DOMAIN archives /\ archives[listed[1]] = manifests[listed[1]]
            /\ \A v \in Workers : listed[1] \notin maker[v].doomed
        BY <2>0, <3>1 DEF NewestIsSound
      <3>3. listed[1] # id
        BY <1>1, <3>2
      <3>4. listed'[1] = listed[1]
        BY <1>12, <3>1, <3>3
      <3>5. listed'[1] \in DOMAIN manifests'
        BY <1>12, ListRead
      <3>. QED BY <1>9, <2>3, <3>2, <3>3, <3>4, <3>5
    <2>6. RestoresSound'
      BY <1>4, <1>9, <2>0 DEF RestoresSound
    <2>. QED BY <2>4, <2>5, <2>6
  <1>14. AllRotated'
    <2> SUFFICES ASSUME \A v \in Workers : maker'[v].step # "listing",
                        NEW j \in 1..Len(listed'), j > Retention
                 PROVE  \E v \in Workers :
                            listed'[j] \in stuck'
                              \/ (maker'[v].step = "rotating" /\ listed'[j] \in maker'[v].doomed)
      BY DEF AllRotated, RotatedByOne
    <2>1. PICK k \in 1..Len(listed) : k >= j /\ listed[k] = listed'[j] /\ listed'[j] # id
      BY <1>12
    <2>2. k > Retention
      <3>1. Len(listed) \in Nat /\ Len(listed') \in Nat
        BY <1>0, <1>12, ListRead
      <3>. QED BY <2>1, <3>1, BackupAssumption
    <2>3. \A v \in Workers : maker[v].step # "listing"
      BY <1>4, <1>8
    <2>4. PICK v \in Workers :
              listed[k] \in stuck \/ (maker[v].step = "rotating" /\ listed[k] \in maker[v].doomed)
      BY <1>0, <1>4, <2>2, <2>3 DEF AllRotated, RotatedByOne
    <2>. QED BY <1>4, <1>7, <1>8, <2>1, <2>4
  <1>. QED BY <1>10, <1>11, <1>12, <1>13, <1>14 DEF BackupInv

(* The disk refuses: what is no longer doomed is stuck.                      *)
LEMMA RefusalKeeps ==
    ASSUME BackupInv, NEW w \in Workers, maker[w].step = "rotating", NEW id \in maker[w].doomed,
           archives' \in {archives, Without(archives, {id})}, stuck' = stuck \cup {id},
           maker' = [maker EXCEPT ![w] = Making("rotating", 0, {}, maker[w].doomed \ {id})],
           UNCHANGED <<second, disk, manifests, listed, restoring, opened, shared>>
    PROVE  BackupInv'
  <1>0. ArchiveShapes /\ MakerShapes /\ Lists(listed, DOMAIN manifests) /\ Unshared /\ AllRotated
    BY DEF BackupInv
  <1>2. PICK new : new = Making("rotating", 0, {}, maker[w].doomed \ {id})
    OBVIOUS
  <1>3. maker' = [maker EXCEPT ![w] = new]
    BY <1>2
  <1>6. maker[w].doomed \ {id} \in SUBSET (1..Seconds) /\ id \in 1..opened
    BY <1>0 DEF MakerShapes, Makings
  <1>7. new \in Makings /\ new.step = "rotating" /\ new.doomed = maker[w].doomed \ {id}
    <2>1. 0 \in 0..Seconds
      BY BackupAssumption
    <2>. QED BY <1>2, <1>6, <2>1, MakingIs
  <1>8. /\ maker' \in [Workers -> Makings] /\ maker'[w] = new
        /\ \A v \in Workers : v # w => maker'[v] = maker[v]
    BY <1>0, <1>3, <1>7, MakerMoves
  <1>9. /\ \A other \in DOMAIN archives' : /\ other \in DOMAIN archives
                                          /\ archives'[other] = archives[other]
        /\ \A other \in DOMAIN archives : other # id => other \in DOMAIN archives'
    BY DEF Without
  <1>10. ArchiveShapes'
    BY <1>0, <1>6, <1>9 DEF ArchiveShapes
  <1>11. MakerShapes'
    <2>1. ASSUME NEW v \in Workers
          PROVE  /\ Busy(v)' => maker'[v].id \in 1..opened
                 /\ maker'[v].doomed \subseteq 1..opened
      <3>1. CASE v = w
        BY <1>0, <1>7, <1>8, <3>1 DEF Busy, MakerShapes
      <3>2. CASE v # w
        BY <1>0, <1>8, <3>2 DEF MakerShapes, Busy
      <3>. QED BY <3>1, <3>2
    <2>. QED BY <1>8, <2>1 DEF MakerShapes
  <1>12. Lists(listed, DOMAIN manifests)'
    BY <1>0 DEF Lists
  <1>13. Unshared'
    <2> SUFFICES ASSUME ~shared
                 PROVE  /\ \A v \in Workers : Busy(v)' => Owns(v)'
                        /\ NewestIsSound' /\ RestoresSound'
      BY DEF Unshared
    <2>0. (\A v \in Workers : Busy(v) => Owns(v)) /\ NewestIsSound /\ RestoresSound
      BY <1>0 DEF Unshared
    <2>2. \A v \in Workers : Busy(v)' => Busy(v) /\ v # w /\ maker'[v] = maker[v]
      BY <1>7, <1>8 DEF Busy
    <2>3. \A v \in Workers : maker'[v].doomed \subseteq maker[v].doomed
      BY <1>7, <1>8
    <2>4. ASSUME NEW v \in Workers, Busy(v)' PROVE Owns(v)'
      <3>0. Busy(v) /\ v # w /\ maker'[v] = maker[v]
        BY <2>2, <2>4
      <3>1. /\ maker[v].id \in DOMAIN archives /\ maker[v].id \notin DOMAIN manifests
            /\ maker[v].step = "recording" => maker[v].sum = {archives[maker[v].id]}
            /\ \A u \in Workers : /\ u # v /\ Busy(u) => maker[u].id # maker[v].id
                                  /\ maker[v].id \notin maker[u].doomed
            /\ \A r \in restoring : r.id # maker[v].id
        BY <2>0, <3>0 DEF Owns
      <3>2. maker[v].id \in DOMAIN archives' /\ archives'[maker[v].id] = archives[maker[v].id]
        BY <1>9, <3>1
      <3>3. \A u \in Workers : /\ u # v /\ Busy(u)' => maker'[u].id # maker[v].id
                               /\ maker[v].id \notin maker'[u].doomed
        BY <2>2, <2>3, <3>1
      <3>. QED BY <3>0, <3>1, <3>2, <3>3 DEF Owns
    <2>5. NewestIsSound'
      <3> SUFFICES ASSUME listed # <<>>
                   PROVE  /\ listed[1] \in DOMAIN archives' /\ archives'[listed[1]] = manifests[listed[1]]
                          /\ \A v \in Workers : listed[1] \notin maker'[v].doomed
        BY DEF NewestIsSound
      <3>1. /\ listed[1] \in DOMAIN archives /\ archives[listed[1]] = manifests[listed[1]]
            /\ \A v \in Workers : listed[1] \notin maker[v].doomed
        BY <2>0 DEF NewestIsSound
      <3>. QED BY <1>9, <2>3, <3>1
    <2>6. RestoresSound'
      BY <1>9, <2>0 DEF RestoresSound
    <2>. QED BY <2>4, <2>5, <2>6
  <1>14. AllRotated'
    <2> SUFFICES ASSUME \A v \in Workers : maker'[v].step # "listing",
                        NEW j \in 1..Len(listed), j > Retention
                 PROVE  \E v \in Workers :
                            listed[j] \in stuck'
                              \/ (maker'[v].step = "rotating" /\ listed[j] \in maker'[v].doomed)
      BY DEF AllRotated, RotatedByOne
    <2>1. \A v \in Workers : maker[v].step # "listing"
      BY <1>8
    <2>2. PICK v \in Workers :
              listed[j] \in stuck \/ (maker[v].step = "rotating" /\ listed[j] \in maker[v].doomed)
      BY <1>0, <2>1 DEF AllRotated, RotatedByOne
    <2>. QED BY <1>7, <1>8, <2>2
  <1>. QED BY <1>10, <1>11, <1>12, <1>13, <1>14 DEF BackupInv

LEMMA RotationKeeps == ASSUME BackupInv, NEW w \in Workers, RemoveExpired(w) PROVE BackupInv'
  <1>1. /\ maker[w].step = "rotating"
        /\ UNCHANGED <<second, disk, restoring, opened, shared>>
    BY DEF RemoveExpired
  <1>2. PICK id \in maker[w].doomed :
            /\ maker' = [maker EXCEPT ![w] = Making("rotating", 0, {}, maker[w].doomed \ {id})]
            /\ \/ /\ archives' = Without(archives, {id}) /\ manifests' = Without(manifests, {id})
                  /\ listed' = Others(id) /\ UNCHANGED stuck
               \/ /\ archives' \in {archives, Without(archives, {id})}
                  /\ UNCHANGED <<manifests, listed>> /\ stuck' = stuck \cup {id}
    BY DEF RemoveExpired
  <1>3. CASE /\ archives' = Without(archives, {id}) /\ manifests' = Without(manifests, {id})
             /\ listed' = Others(id) /\ UNCHANGED stuck
    BY <1>1, <1>2, <1>3, RemovalKeeps
  <1>4. CASE /\ archives' \in {archives, Without(archives, {id})}
             /\ UNCHANGED <<manifests, listed>> /\ stuck' = stuck \cup {id}
    BY <1>1, <1>2, <1>4, RefusalKeeps
  <1>. QED BY <1>2, <1>3, <1>4

LEMMA BackupCrashKeeps == BackupInv /\ BackupCrash => BackupInv'
  <1> SUFFICES ASSUME BackupInv, BackupCrash PROVE BackupInv'
    OBVIOUS
  <1>0. ArchiveShapes /\ MakerShapes /\ Lists(listed, DOMAIN manifests) /\ Unshared /\ AllRotated
    BY DEF BackupInv
  <1>1. PICK removed \in SUBSET UNION {maker[w].doomed : w \in Workers} :
            archives' = Without(archives, removed)
    BY DEF BackupCrash
  <1>2. /\ maker' = [w \in Workers |-> Idle] /\ restoring' = {}
        /\ UNCHANGED <<second, disk, manifests, listed, opened, shared, stuck>>
    BY DEF BackupCrash
  <1>3. /\ DOMAIN archives' = DOMAIN archives \ removed
        /\ \A id \in DOMAIN archives : id \notin removed => archives'[id] = archives[id]
    BY <1>1 DEF Without
  <1>4. ArchiveShapes'
    BY <1>0, <1>2, <1>3 DEF ArchiveShapes, AtMostOne
  <1>5. \A w \in Workers : /\ maker'[w] = Idle /\ Idle.step = "idle" /\ Idle.doomed = {}
                           /\ Idle \in Makings
    <2>1. 0 \in 0..Seconds
      BY BackupAssumption
    <2>. QED BY <1>2, <2>1, MakingIs DEF Idle
  <1>6. MakerShapes'
    BY <1>2, <1>5 DEF MakerShapes, Busy
  <1>7. Lists(listed, DOMAIN manifests)'
    BY <1>0, <1>2 DEF Lists
  <1>8. Unshared'
    <2>1. ASSUME ~shared PROVE NewestIsSound'
      <3> SUFFICES ASSUME listed # <<>>
                   PROVE  listed[1] \in DOMAIN archives' /\ archives'[listed[1]] = manifests[listed[1]]
        BY <1>2, <1>5 DEF NewestIsSound
      <3>1. /\ listed[1] \in DOMAIN archives /\ archives[listed[1]] = manifests[listed[1]]
            /\ \A w \in Workers : listed[1] \notin maker[w].doomed
        BY <1>0, <2>1 DEF Unshared, NewestIsSound
      <3>2. listed[1] \notin removed
        BY <1>1, <3>1
      <3>. QED BY <1>3, <3>1, <3>2
    <2>. QED BY <1>2, <1>5, <2>1 DEF Unshared, Busy, RestoresSound
  <1>9. AllRotated'
    BY <1>5 DEF AllRotated
  <1>. QED BY <1>4, <1>6, <1>7, <1>8, <1>9 DEF BackupInv

LEMMA BackupSteps == BackupInv /\ (BackupNext \/ UNCHANGED backupVars) => BackupInv'
  <1> SUFFICES ASSUME BackupInv, BackupNext \/ UNCHANGED backupVars PROVE BackupInv'
    OBVIOUS
  <1>0. ArchiveShapes /\ MakerShapes /\ Lists(listed, DOMAIN manifests) /\ Unshared /\ AllRotated
    BY DEF BackupInv
  <1>00. /\ second \in 1..Seconds /\ second \in Nat /\ disk \in Contents /\ AtMostOne(restoring)
         /\ Seconds \in Nat /\ Retention \in Nat /\ Retention >= 1
    BY <1>0, BackupAssumption DEF ArchiveShapes
  <1>1. CASE StateChanges
    <2>1. disk' \in Contents
      <3>1. PICK s \in Sources : disk[s] < Generations /\ disk' = [disk EXCEPT ![s] = @ + 1]
        BY <1>1 DEF StateChanges
      <3>2. disk[s] + 1 \in 0..Generations
        BY <1>00, <3>1, BackupAssumption DEF Contents
      <3>. QED BY <1>00, <3>1, <3>2 DEF Contents
    <2>. QED BY <1>00, <1>1, <2>1, QuietKeeps DEF StateChanges
  <1>2. CASE SecondPasses
    <2>1. second' \in 1..Seconds /\ second' >= second
      BY <1>00, <1>2 DEF SecondPasses
    <2>. QED BY <1>00, <1>2, <2>1, QuietKeeps DEF SecondPasses
  <1>3. CASE BeginRestore
    <2>1. PICK id \in 1..second : /\ id \in DOMAIN manifests /\ Verified(id)
                                  /\ restoring' = {[id |-> id, sum |-> manifests[id]]}
      BY <1>3 DEF BeginRestore, Readable, Accepted
    <2>2. PICK r : r = [id |-> id, sum |-> manifests[id]]
      OBVIOUS
    <2>3. r.id = id /\ r.sum = manifests[id] /\ restoring' = {r}
      BY <2>1, <2>2
    <2>4. id \in DOMAIN archives /\ archives[id] = manifests[id]
      BY <2>1 DEF Verified, Digest
    <2>5. /\ AtMostOne(restoring')
          /\ \A q \in restoring' : /\ q.id \in DOMAIN manifests /\ q.id \in DOMAIN archives
                                   /\ archives[q.id] = q.sum
      BY <2>1, <2>3, <2>4 DEF AtMostOne
    <2>6. UNCHANGED <<second, disk, archives, manifests, listed, maker, opened, shared, stuck>>
      BY <1>3 DEF BeginRestore
    <2>7. second' \in 1..Seconds /\ second' >= second /\ disk' \in Contents
      BY <1>00, <2>6
    <2>. QED BY <2>5, <2>6, <2>7, QuietKeeps
  <1>4. CASE Extract
    <2>1. PICK r \in restoring :
              disk' = IF Extractable(r.id) THEN Extracted(archives[r.id].files) ELSE disk
      BY <1>4 DEF Extract
    <2>2. restoring' = {} /\ UNCHANGED <<second, archives, manifests, listed, maker, opened, shared, stuck>>
      BY <1>4 DEF Extract
    <2>3. disk' \in Contents
      <3>1. CASE Extractable(r.id)
        <4>1. archives[r.id].files \in Contents
          BY <1>0, <3>1 DEF Extractable, ArchiveShapes
        <4>. QED BY <1>00, <2>1, <3>1, <4>1 DEF Extracted, Contents
      <3>. QED BY <1>00, <2>1, <3>1
    <2>. QED BY <1>00, <2>2, <2>3, QuietKeeps DEF AtMostOne
  <1>5. ASSUME NEW w \in Workers, Hash(w) PROVE BackupInv'
    <2>0. /\ maker[w].step = "hashing" /\ maker[w].id \in DOMAIN archives
          /\ maker' = [maker EXCEPT ![w] =
                           Making("recording", maker[w].id, {archives[maker[w].id]}, {})]
          /\ UNCHANGED <<second, disk, archives, manifests, listed, restoring, opened, shared, stuck>>
      BY <1>5 DEF Hash, Digest
    <2>1. PICK new : new = Making("recording", maker[w].id, {archives[maker[w].id]}, {})
      OBVIOUS
    <2>2. /\ new \in Makings /\ new.step = "recording" /\ new.id = maker[w].id
          /\ new.sum = {archives[maker[w].id]} /\ new.doomed = {}
      <3>1. maker[w].id \in 0..Seconds /\ {archives[maker[w].id]} \in SUBSET Archive
        BY <1>0, <2>0 DEF MakerShapes, Makings, ArchiveShapes
      <3>. QED BY <2>1, <3>1, MakingIs
    <2>3. Busy(w)
      BY <2>0 DEF Busy
    <2>. QED BY <2>0, <2>1, <2>2, <2>3, WorkerKeeps
  <1>6. Idle \in Makings /\ Idle.step = "idle" /\ Idle.doomed = {}
    <2>1. 0 \in 0..Seconds
      BY <1>00
    <2>. QED BY <2>1, MakingIs DEF Idle
  <1>7. ASSUME NEW w \in Workers, HashFails(w) \/ BackupDone(w) PROVE BackupInv'
    <2>1. /\ maker[w].step = "hashing" \/ (maker[w].step = "rotating" /\ maker[w].doomed = {})
          /\ maker' = [maker EXCEPT ![w] = Idle]
          /\ UNCHANGED <<second, disk, archives, manifests, listed, restoring, opened, shared, stuck>>
      BY <1>7 DEF HashFails, BackupDone
    <2>. QED BY <1>6, <2>1, WorkerKeeps
  <1>8. ASSUME NEW w \in Workers, ListExpired(w) PROVE BackupInv'
    <2>1. PICK new : new = Making("rotating", 0, {}, Expired)
      OBVIOUS
    <2>2. /\ maker' = [maker EXCEPT ![w] = new]
          /\ UNCHANGED <<second, disk, archives, manifests, listed, restoring, opened, shared, stuck>>
      BY <1>8, <2>1 DEF ListExpired
    <2>3. Expired = {listed[i] : i \in {j \in 1..Len(listed) : j > Retention}}
      BY <1>0 DEF Expired, After, Lists
    <2>4. Expired \in SUBSET (1..Seconds)
      <3>1. \A id \in DOMAIN manifests : id \in 1..Seconds
        BY <1>0, <1>00 DEF ArchiveShapes
      <3>2. \A i \in 1..Len(listed) : listed[i] \in DOMAIN manifests
        BY <1>0 DEF Lists
      <3>. QED BY <2>3, <3>1, <3>2
    <2>5. new \in Makings /\ new.step = "rotating" /\ new.doomed = Expired
      <3>1. 0 \in 0..Seconds
        BY <1>00
      <3>. QED BY <2>1, <2>4, <3>1, MakingIs
    <2>6. \A id \in new.doomed : \E i \in 1..Len(listed) : i > 1 /\ id = listed[i]
      <3>1. Len(listed) \in Nat
        BY <1>0 DEF Lists
      <3>. QED BY <1>00, <2>3, <2>5, <3>1
    <2>7. \A i \in 1..Len(listed) : i > Retention => listed[i] \in new.doomed
      BY <2>3, <2>5
    <2>. QED BY <2>2, <2>5, <2>6, <2>7, WorkerKeeps
  <1>9. CASE UNCHANGED backupVars
    <2>1. second' >= second
      BY <1>00, <1>9 DEF backupVars
    <2>. QED BY <1>00, <1>9, <2>1, QuietKeeps DEF backupVars
  <1>10. ASSUME NEW w \in Workers, OpenArchive(w) \/ AddSources(w) \/ WriteManifest(w) \/ RemoveExpired(w)
         PROVE  BackupInv'
    BY <1>10, OpenKeeps, ArchiveKeeps, ManifestKeeps, RotationKeeps
  <1>. QED BY <1>1, <1>2, <1>3, <1>4, <1>5, <1>7, <1>8, <1>9, <1>10, BackupCrashKeeps DEF BackupNext

LEMMA BackupPromises == BackupInv => BackupTypeOK /\ NewestStays
  <1> SUFFICES ASSUME BackupInv PROVE BackupTypeOK /\ NewestStays
    OBVIOUS
  <1>0. ArchiveShapes /\ MakerShapes /\ Lists(listed, DOMAIN manifests) /\ Unshared
    BY DEF BackupInv
  <1>1. /\ listed \in Seq(Nat) /\ Len(listed) = Cardinality(DOMAIN manifests)
        /\ \A i \in 1..Len(listed) : listed[i] \in DOMAIN manifests
        /\ \A id \in DOMAIN manifests : \E i \in 1..Len(listed) : listed[i] = id
        /\ DOMAIN listed = 1..Len(listed)
    BY <1>0 DEF Lists
  <1>2. BackupTypeOK
    <2>1. \A id : id \in 1..opened => id \in 1..second
      BY <1>0 DEF ArchiveShapes
    <2>2. \A id \in DOMAIN archives : archives[id].files \in Contents \cup {<<>>}
      BY <1>0 DEF ArchiveShapes, Archive
    <2>3. Cardinality(restoring) <= 1
      <3>1. CASE restoring = {}
        BY <3>1, FS_EmptySet
      <3>2. CASE restoring # {}
        <4>1. PICK r : restoring = {r}
          BY <1>0, <3>2 DEF ArchiveShapes, AtMostOne
        <4>2. Cardinality({r}) = 1
          BY FS_Singleton
        <4>. QED BY <4>1, <4>2
      <3>. QED BY <3>1, <3>2
    <2>4. {listed[i] : i \in DOMAIN listed} = DOMAIN manifests
      BY <1>1
    <2>5. DOMAIN archives \subseteq 1..second /\ DOMAIN manifests \subseteq 1..second
          /\ \A w \in Workers : maker[w].doomed \subseteq 1..second
          /\ stuck \subseteq 1..second
      BY <1>0, <2>1 DEF ArchiveShapes, MakerShapes
    <2>. QED BY <1>0, <1>1, <2>2, <2>3, <2>4, <2>5 DEF BackupTypeOK, ArchiveShapes
  <1>3. NewestStays
    <2> SUFFICES ASSUME ~shared, DOMAIN manifests # {} PROVE Verified(Head(listed))
      BY DEF NewestStays
    <2>1. listed # <<>>
      BY <1>1
    <2>2. Head(listed) = listed[1]
      BY <1>1, <2>1
    <2>. QED BY <1>0, <2>1, <2>2 DEF Unshared, NewestIsSound, Verified, Digest
  <1>. QED BY <1>2, <1>3

(* The step of RestoresTheVerified.                                          *)
LEMMA RestoresAreVerified ==
    ASSUME BackupInv, NEW r \in restoring, Extract, ~shared, Extractable(r.id)
    PROVE  /\ r.sum = Digest(r.id) /\ r.sum.whole
           /\ \A s \in Beside : disk'[s] = r.sum.files[s]
  <1>1. r.id \in DOMAIN archives /\ archives[r.id].whole
    BY DEF Extractable
  <1>2. archives[r.id] = r.sum
    BY <1>1 DEF BackupInv, Unshared, RestoresSound
  <1>3. restoring = {r}
    BY DEF BackupInv, ArchiveShapes, AtMostOne
  <1>4. disk' = Extracted(archives[r.id].files)
    BY <1>3 DEF Extract
  <1>. QED BY <1>1, <1>2, <1>4, BackupAssumption DEF Digest, Extracted

(* The step of RetentionIsReached.                                           *)
LEMMA RetentionReached ==
    ASSUME BackupInv, NEW w \in Workers, BackupDone(w), \A v \in Workers \ {w} : maker[v].step = "idle"
    PROVE  Cardinality(DOMAIN manifests \ stuck) <= Retention
  <1> DEFINE kept == DOMAIN manifests \ stuck
             first == {listed[i] : i \in 1..Retention}
             place == [i \in 1..Retention |-> listed[i]]
  <1>0. Retention \in Nat
    BY BackupAssumption
  <1>1. maker[w].step = "rotating" /\ maker[w].doomed = {}
    BY DEF BackupDone
  <1>2. \A v \in Workers : maker[v].step # "listing"
    BY <1>1
  <1>3. \A v \in Workers : maker[v].step = "rotating" => v = w
    BY <1>1
  <1>4. \A i \in 1..Len(listed) : i > Retention => listed[i] \in stuck
    BY <1>1, <1>2, <1>3 DEF BackupInv, AllRotated, RotatedByOne
  <1>5. Len(listed) \in Nat /\ \A id \in DOMAIN manifests : \E i \in 1..Len(listed) : listed[i] = id
    BY DEF BackupInv, Lists
  <1>6. kept \in SUBSET first
    <2> SUFFICES ASSUME NEW id \in kept PROVE id \in first
      OBVIOUS
    <2>1. PICK i \in 1..Len(listed) : listed[i] = id
      BY <1>5
    <2>2. i \in 1..Retention
      BY <1>0, <1>4, <1>5, <2>1
    <2>. QED BY <2>1, <2>2
  <1>7. IsFiniteSet(1..Retention) /\ Cardinality(1..Retention) = Retention
    <2>1. /\ IsFiniteSet(1..Retention)
          /\ Cardinality(1..Retention) = IF 1 > Retention THEN 0 ELSE Retention - 1 + 1
      BY <1>0, FS_Interval
    <2>. QED BY <1>0, <2>1
  <1>8. place \in Surjection(1..Retention, first)
    BY DEF Surjection
  <1>9. IsFiniteSet(first) /\ Cardinality(first) <= Retention
    BY <1>7, <1>8, FS_Surjection
  <1> HIDE DEF kept, first, place
  <1>10. Cardinality(first) \in Nat /\ Cardinality(kept) <= Cardinality(first)
         /\ Cardinality(kept) \in Nat
    BY <1>6, <1>9, FS_Subset, FS_CardinalityType
  <1>11. Cardinality(kept) <= Retention
    BY <1>0, <1>9, <1>10
  <1>. QED BY <1>11 DEF kept

-----------------------------------------------------------------------------
(* The virtual trades: whatever was opened is open or has ended once, and a  *)
(* trade still open whose touch has left the window is known to have been    *)
(* passed by.                                                                *)

TrackerShapes ==
    /\ candles \in Seq(SUBSET Levels)
    /\ measurable \in Seq(BOOLEAN) /\ Len(measurable) <= MaxSignals
    /\ seenIds \in Seq(Nat) /\ Len(seenIds) <= SeenLimit
    /\ DOMAIN virtual \subseteq 1..Len(measurable)
    /\ \A id \in DOMAIN virtual : virtual[id] \in 0..Len(candles)
    /\ tally \in [signals : Nat, tracked : Nat, wins : Nat, losses : Nat, timeouts : Nat]
    /\ passedBy \subseteq 1..Len(measurable)
    /\ again \in BOOLEAN

OpenOrEnded == tally.wins + tally.losses + tally.timeouts + Cardinality(DOMAIN virtual)

LedgerStands ==
    /\ tally.signals = Len(measurable) + (IF again THEN 1 ELSE 0)
    /\ tally.tracked <= tally.signals
    /\ OpenOrEnded <= tally.tracked
    /\ ~again => OpenOrEnded = tally.tracked

PassedByIsKnown ==
    \A id \in DOMAIN virtual : \A i \in 1..Len(candles) :
        i >= virtual[id] /\ i <= Len(candles) - Window /\ candles[i] # {} => id \in passedBy

TrackerInv == TrackerShapes /\ LedgerStands /\ PassedByIsKnown

LEMMA TrackerStarts == TrackerInit => TrackerInv
  <1> SUFFICES ASSUME TrackerInit PROVE TrackerInv
    OBVIOUS
  <1>1. /\ candles = <<>> /\ measurable = <<>> /\ seenIds = <<>> /\ virtual = <<>>
        /\ tally = NoTally /\ passedBy = {} /\ again = FALSE
    BY DEF TrackerInit
  <1>2. DOMAIN virtual = {}
    BY <1>1, NothingFiled
  <1>3. TrackerShapes
    <2>1. /\ candles \in Seq(SUBSET Levels) /\ measurable \in Seq(BOOLEAN) /\ seenIds \in Seq(Nat)
          /\ Len(measurable) = 0 /\ Len(seenIds) = 0
      BY <1>1
    <2>2. tally \in [signals : Nat, tracked : Nat, wins : Nat, losses : Nat, timeouts : Nat]
      BY <1>1 DEF NoTally
    <2>3. \A id \in DOMAIN virtual : virtual[id] \in 0..Len(candles)
      BY <1>2
    <2>4. /\ Len(measurable) <= MaxSignals /\ Len(seenIds) <= SeenLimit
          /\ DOMAIN virtual \subseteq 1..Len(measurable)
      BY <1>2, <2>1, TrackerAssumption
    <2>5. passedBy \subseteq 1..Len(measurable) /\ again \in BOOLEAN
      BY <1>1
    <2>. QED BY <2>1, <2>2, <2>3, <2>4, <2>5 DEF TrackerShapes
  <1>4. LedgerStands
    BY <1>1, <1>2, FS_EmptySet DEF LedgerStands, OpenOrEnded, NoTally
  <1>5. PassedByIsKnown
    BY <1>2 DEF PassedByIsKnown
  <1>. QED BY <1>3, <1>4, <1>5 DEF TrackerInv

LEMMA LongerCandles ==
    ASSUME TrackerShapes, candles' \in Seq(SUBSET Levels), Len(candles') >= Len(candles),
           passedBy' \subseteq passedBy \cup DOMAIN virtual,
           UNCHANGED <<measurable, seenIds, virtual, tally, again>>
    PROVE  TrackerShapes'
  <1>1. Len(candles) \in Nat /\ Len(candles') \in Nat
    BY DEF TrackerShapes
  <1>2. \A id \in DOMAIN virtual' : virtual'[id] \in 0..Len(candles')
    BY <1>1 DEF TrackerShapes
  <1>3. passedBy' \subseteq 1..Len(measurable')
    BY DEF TrackerShapes
  <1>. QED BY <1>2, <1>3 DEF TrackerShapes

LEMMA FollowedAreFinite ==
    ASSUME TrackerShapes
    PROVE  IsFiniteSet(DOMAIN virtual) /\ IsFiniteSet(passedBy)
  <1>1. IsFiniteSet(1..Len(measurable))
    <2>1. Len(measurable) \in Int
      BY DEF TrackerShapes
    <2>. QED BY <2>1, FS_Interval
  <1>2. DOMAIN virtual \in SUBSET (1..Len(measurable)) /\ passedBy \in SUBSET (1..Len(measurable))
    BY DEF TrackerShapes
  <1>. QED BY <1>1, <1>2, FS_Subset

LEMMA CandleKeeps ==
    ASSUME TrackerInv, NEW touched \in SUBSET Levels, NewCandle(touched)
    PROVE  TrackerInv'
  <1>0. TrackerShapes /\ LedgerStands /\ PassedByIsKnown
    BY DEF TrackerInv
  <1>1. /\ candles' = Append(candles, touched)
        /\ passedBy' = passedBy \cup {id \in DOMAIN virtual :
                          /\ Len(candles') - Window >= 1 /\ Len(candles') - Window >= virtual[id]
                          /\ candles[Len(candles') - Window] # {}}
        /\ UNCHANGED <<measurable, seenIds, virtual, tally, again>>
    BY DEF NewCandle
  <1>2. candles \in Seq(SUBSET Levels) /\ Len(candles) \in Nat
    BY <1>0 DEF TrackerShapes
  <1>3. /\ candles' \in Seq(SUBSET Levels) /\ Len(candles') = Len(candles) + 1
        /\ \A i \in 1..Len(candles) : candles'[i] = candles[i]
    BY <1>1, <1>2, AppendProperties
  <1>4. TrackerShapes'
    BY <1>0, <1>1, <1>2, <1>3, LongerCandles
  <1>5. LedgerStands'
    BY <1>0, <1>1 DEF LedgerStands, OpenOrEnded
  <1>6. PassedByIsKnown'
    <2> SUFFICES ASSUME NEW id \in DOMAIN virtual, NEW i \in 1..Len(candles'), i >= virtual[id],
                        i <= Len(candles') - Window, candles'[i] # {}
                 PROVE  id \in passedBy'
      BY <1>1 DEF PassedByIsKnown
    <2>1. Window \in Nat /\ Window >= 1
      BY TrackerAssumption
    <2>2. i \in 1..Len(candles) /\ candles[i] # {}
      BY <1>2, <1>3, <2>1
    <2>3. CASE i <= Len(candles) - Window
      BY <1>0, <1>1, <2>2, <2>3 DEF PassedByIsKnown
    <2>4. CASE i = Len(candles') - Window
      BY <1>1, <2>2, <2>4
    <2>. QED BY <1>2, <1>3, <2>1, <2>2, <2>3, <2>4
  <1>. QED BY <1>4, <1>5, <1>6 DEF TrackerInv

LEMMA WideningKeeps ==
    ASSUME TrackerInv, NEW level \in Levels, CandleWidens(level)
    PROVE  TrackerInv'
  <1>0. TrackerShapes /\ LedgerStands /\ PassedByIsKnown
    BY DEF TrackerInv
  <1>1. /\ candles' = [candles EXCEPT ![Len(candles)] = @ \cup {level}]
        /\ candles # <<>>
        /\ UNCHANGED <<measurable, seenIds, virtual, tally, passedBy, again>>
    BY DEF CandleWidens
  <1>2. candles \in Seq(SUBSET Levels) /\ Len(candles) \in Nat /\ Len(candles) > 0
    BY <1>0, <1>1 DEF TrackerShapes
  <1>3. /\ candles' \in Seq(SUBSET Levels) /\ Len(candles') = Len(candles)
        /\ \A i \in 1..Len(candles) : i # Len(candles) => candles'[i] = candles[i]
    BY <1>1, <1>2
  <1>4. TrackerShapes'
    <2>1. Len(candles') >= Len(candles)
      BY <1>2, <1>3
    <2>3. passedBy' \subseteq passedBy \cup DOMAIN virtual
      BY <1>1
    <2>2. UNCHANGED <<measurable, seenIds, virtual, tally, again>>
      BY <1>1
    <2>. QED BY <1>0, <1>3, <2>1, <2>2, <2>3, LongerCandles
  <1>5. LedgerStands'
    BY <1>0, <1>1 DEF LedgerStands, OpenOrEnded
  <1>6. PassedByIsKnown'
    <2> SUFFICES ASSUME NEW id \in DOMAIN virtual', NEW i \in 1..Len(candles'),
                        i >= virtual'[id], i <= Len(candles') - Window, candles'[i] # {}
                 PROVE  id \in passedBy'
      BY DEF PassedByIsKnown
    <2>1. Window \in Nat /\ Window >= 1
      BY TrackerAssumption
    <2>2. candles'[i] = candles[i] /\ i \in 1..Len(candles) /\ i <= Len(candles) - Window
      BY <1>2, <1>3, <2>1
    <2>3. id \in DOMAIN virtual /\ i >= virtual[id]
      BY <1>1
    <2>4. id \in passedBy
      BY <1>0, <2>2, <2>3 DEF PassedByIsKnown
    <2>. QED BY <1>1, <2>4
  <1>. QED BY <1>4, <1>5, <1>6 DEF TrackerInv

(* What is remembered after one more. *)
LEMMA SeenOnceMore ==
    ASSUME seenIds \in Seq(Nat), Len(seenIds) <= SeenLimit, NEW id \in Nat
    PROVE  Remembered(seenIds, id) \in Seq(Nat) /\ Len(Remembered(seenIds, id)) <= SeenLimit
  <1>1. PICK longer : longer = Append(seenIds, id)
    OBVIOUS
  <1>2. longer \in Seq(Nat) /\ Len(longer) = Len(seenIds) + 1 /\ Len(seenIds) \in Nat
    BY <1>1, AppendProperties
  <1>3. PICK from \in {1, 2} : from = 1 + (IF Len(longer) > SeenLimit THEN 1 ELSE 0)
    OBVIOUS
  <1>4. PICK p : p = SubSeq(longer, from, Len(longer))
    OBVIOUS
  <1>5. p \in Seq(Nat) /\ Len(p) = Len(longer) + 1 - from
    BY <1>2, <1>4, Trimmed
  <1>6. Remembered(seenIds, id) = p
    BY <1>1, <1>3, <1>4 DEF Remembered
  <1>7. Len(p) <= SeenLimit
    BY <1>2, <1>3, <1>5, TrackerAssumption
  <1>. QED BY <1>5, <1>6, <1>7

(* A signal followed or not: one more of the ledger, on paper or not at all. *)
LEMMA TrackKeeps ==
    ASSUME TrackerInv, NEW id \in 1..Len(measurable'), NEW m \in BOOLEAN, Track(id, m),
           measurable' \in Seq(BOOLEAN), Len(measurable') <= MaxSignals,
           Len(measurable') + (IF again' THEN 1 ELSE 0)
               = Len(measurable) + (IF again THEN 1 ELSE 0) + 1,
           Len(measurable) <= Len(measurable'), again' \in BOOLEAN, again => again',
           again' \/ id \notin DOMAIN virtual,
           UNCHANGED <<candles, passedBy>>
    PROVE  TrackerInv'
  <1>0. TrackerShapes /\ LedgerStands /\ PassedByIsKnown
    BY DEF TrackerInv
  <1>1. /\ seenIds' = Remembered(seenIds, id)
        /\ tally' = [signals |-> tally.signals + 1,
                     tracked |-> tally.tracked + (IF m THEN 1 ELSE 0),
                     wins |-> tally.wins, losses |-> tally.losses, timeouts |-> tally.timeouts]
        /\ virtual' = IF m THEN WithTrade(id) ELSE virtual
    BY DEF Track
  <1>2. /\ DOMAIN virtual' = DOMAIN virtual \cup (IF m THEN {id} ELSE {})
        /\ \A x \in DOMAIN virtual' : \/ x \in DOMAIN virtual /\ virtual'[x] = virtual[x]
                                      \/ virtual'[x] = Len(candles)
    BY <1>1 DEF WithTrade
  <1>3. seenIds' \in Seq(Nat) /\ Len(seenIds') <= SeenLimit
    BY <1>0, <1>1, SeenOnceMore DEF TrackerShapes
  <1>4. Len(candles) \in Nat /\ Len(measurable) \in Nat /\ Len(measurable') \in Nat
    BY <1>0 DEF TrackerShapes
  <1>5. TrackerShapes'
    <2>1. DOMAIN virtual' \subseteq 1..Len(measurable')
      BY <1>0, <1>2, <1>4 DEF TrackerShapes
    <2>2. \A x \in DOMAIN virtual' : virtual'[x] \in 0..Len(candles')
      BY <1>0, <1>2, <1>4 DEF TrackerShapes
    <2>3. tally' \in [signals : Nat, tracked : Nat, wins : Nat, losses : Nat, timeouts : Nat]
      <3>1. /\ tally.signals \in Nat /\ tally.tracked \in Nat /\ tally.wins \in Nat
            /\ tally.losses \in Nat /\ tally.timeouts \in Nat
        BY <1>0 DEF TrackerShapes
      <3>2. tally.signals + 1 \in Nat /\ tally.tracked + (IF m THEN 1 ELSE 0) \in Nat
        BY <3>1
      <3>. QED BY <1>1, <3>1, <3>2
    <2>4. passedBy' \subseteq 1..Len(measurable')
      BY <1>0, <1>4 DEF TrackerShapes
    <2>. QED BY <1>0, <1>3, <2>1, <2>2, <2>3, <2>4 DEF TrackerShapes
  <1>6. LedgerStands'
    <2>1. PICK signals \in Nat, tracked \in Nat, ended \in Nat :
             /\ signals = tally.signals /\ tracked = tally.tracked
             /\ ended = tally.wins + tally.losses + tally.timeouts
      BY <1>0 DEF TrackerShapes
    <2>2. /\ tally'.signals = signals + 1 /\ tally'.tracked = tracked + (IF m THEN 1 ELSE 0)
          /\ tally'.wins + tally'.losses + tally'.timeouts = ended
      BY <1>1, <2>1
    <2>3. IsFiniteSet(DOMAIN virtual)
      BY <1>0, <1>4, FollowedAreFinite
    <2>4. PICK open \in Nat : open = Cardinality(DOMAIN virtual)
      BY <2>3, FS_CardinalityType
    <2>5. PICK more \in {0, 1} : /\ Cardinality(DOMAIN virtual') = open + more
                                 /\ ~m => more = 0
                                 /\ m /\ id \notin DOMAIN virtual => more = 1
      <3>1. CASE ~m
        BY <1>2, <2>4, <3>1
      <3>2. CASE m
        <4>1. DOMAIN virtual' = DOMAIN virtual \cup {id}
          BY <1>2, <3>2
        <4>2. Cardinality(DOMAIN virtual') = IF id \in DOMAIN virtual THEN open ELSE open + 1
          BY <2>3, <2>4, <4>1, FS_AddElement
        <4>3. CASE id \in DOMAIN virtual
          BY <2>4, <3>2, <4>2, <4>3
        <4>4. CASE id \notin DOMAIN virtual
          BY <2>4, <3>2, <4>2, <4>4
        <4>. QED BY <4>3, <4>4
      <3>. QED BY <3>1, <3>2
    <2>6. OpenOrEnded = ended + open /\ OpenOrEnded' = ended + open + more
      BY <2>1, <2>2, <2>4, <2>5 DEF OpenOrEnded
    <2>7. /\ signals = Len(measurable) + (IF again THEN 1 ELSE 0)
          /\ tracked <= signals /\ ended + open <= tracked
          /\ ~again => ended + open = tracked
      BY <1>0, <2>1, <2>6 DEF LedgerStands
    <2>8. signals + 1 = Len(measurable') + (IF again' THEN 1 ELSE 0)
      BY <2>7
    <2>9. more <= (IF m THEN 1 ELSE 0) /\ (~again' => more = (IF m THEN 1 ELSE 0))
      BY <2>5
    <2>10. tracked + (IF m THEN 1 ELSE 0) <= signals + 1
      BY <2>7
    <2>11. ended + open + more <= tracked + (IF m THEN 1 ELSE 0)
      BY <2>7, <2>9
    <2>12. ~again' => ended + open + more = tracked + (IF m THEN 1 ELSE 0)
      BY <2>7, <2>9
    <2>. QED BY <2>2, <2>6, <2>8, <2>10, <2>11, <2>12 DEF LedgerStands
  <1>7. PassedByIsKnown'
    <2> SUFFICES ASSUME NEW x \in DOMAIN virtual', NEW i \in 1..Len(candles), i >= virtual'[x],
                        i <= Len(candles) - Window, candles[i] # {}
                 PROVE  x \in passedBy
      BY DEF PassedByIsKnown
    <2>1. virtual'[x] # Len(candles)
      BY <1>4, TrackerAssumption
    <2>. QED BY <1>0, <1>2, <2>1 DEF PassedByIsKnown
  <1>. QED BY <1>5, <1>6, <1>7 DEF TrackerInv

LEMMA SignalKeeps ==
    ASSUME TrackerInv, NEW m \in BOOLEAN, OnSignalRecord(m)
    PROVE  TrackerInv'
  <1>0. TrackerShapes
    BY DEF TrackerInv
  <1>1. /\ measurable \in Seq(BOOLEAN) /\ Len(measurable) < MaxSignals /\ Len(measurable) \in Nat
        /\ measurable' = Append(measurable, m) /\ again' = again /\ again \in BOOLEAN
        /\ Track(Len(measurable'), m) /\ UNCHANGED <<candles, passedBy>>
    BY <1>0 DEF OnSignalRecord, TrackerShapes
  <1>2. measurable' \in Seq(BOOLEAN) /\ Len(measurable') = Len(measurable) + 1
    BY <1>1, AppendProperties
  <1>3. PICK id : id = Len(measurable')
    OBVIOUS
  <1>4. id \in 1..Len(measurable') /\ id \notin DOMAIN virtual /\ Track(id, m)
    BY <1>0, <1>1, <1>2, <1>3 DEF TrackerShapes
  <1>. QED BY <1>1, <1>2, <1>4, TrackKeeps, TrackerAssumption

LEMMA RepetitionKeeps ==
    ASSUME TrackerInv, NEW id \in DOMAIN measurable, ~again, OnRecordAgain(id)
    PROVE  TrackerInv'
  <1>0. TrackerShapes
    BY DEF TrackerInv
  <1>1. /\ measurable \in Seq(BOOLEAN) /\ Len(measurable) <= MaxSignals /\ Len(measurable) \in Nat
        /\ id \in 1..Len(measurable) /\ measurable[id] \in BOOLEAN
    BY <1>0 DEF TrackerShapes
  <1>2. /\ Track(id, measurable[id]) /\ again' = TRUE
        /\ UNCHANGED <<candles, measurable, passedBy>>
    BY DEF OnRecordAgain
  <1>. QED BY <1>1, <1>2, TrackKeeps, TrackerAssumption

(* The sum of four groups is what was open. *)
LEMMA TwoWays ==
    ASSUME NEW A, NEW B, IsFiniteSet(A), IsFiniteSet(B), A \cap B = {}
    PROVE  /\ IsFiniteSet(A \cup B)
           /\ Cardinality(A \cup B) = Cardinality(A) + Cardinality(B)
  <1>1. Cardinality(A \cap B) = 0
    BY FS_EmptySet
  <1>2. /\ IsFiniteSet(A \cup B)
        /\ Cardinality(A \cup B) = Cardinality(A) + Cardinality(B) - Cardinality(A \cap B)
    BY FS_Union
  <1>3. Cardinality(A) \in Nat /\ Cardinality(B) \in Nat
    BY FS_CardinalityType
  <1>. QED BY <1>1, <1>2, <1>3

LEMMA FourWays ==
    ASSUME NEW S, IsFiniteSet(S), NEW A, NEW B, NEW C, NEW D, S = A \cup B \cup C \cup D,
           A \cap B = {}, A \cap C = {}, A \cap D = {}, B \cap C = {}, B \cap D = {}, C \cap D = {}
    PROVE  /\ Cardinality(A) \in Nat /\ Cardinality(B) \in Nat
           /\ Cardinality(C) \in Nat /\ Cardinality(D) \in Nat
           /\ Cardinality(S) = Cardinality(A) + Cardinality(B) + Cardinality(C) + Cardinality(D)
  <1>1. /\ A \in SUBSET S /\ B \in SUBSET S /\ C \in SUBSET S /\ D \in SUBSET S
        /\ IsFiniteSet(A) /\ IsFiniteSet(B) /\ IsFiniteSet(C) /\ IsFiniteSet(D)
    BY FS_Subset
  <1>2. /\ Cardinality(A) \in Nat /\ Cardinality(B) \in Nat
        /\ Cardinality(C) \in Nat /\ Cardinality(D) \in Nat /\ Cardinality({}) = 0
    BY <1>1, FS_CardinalityType, FS_EmptySet
  <1>3. IsFiniteSet(A \cup B) /\ Cardinality(A \cup B) = Cardinality(A) + Cardinality(B)
    BY <1>1, TwoWays
  <1>4. /\ IsFiniteSet((A \cup B) \cup C)
        /\ Cardinality((A \cup B) \cup C) = Cardinality(A \cup B) + Cardinality(C)
    <2>1. (A \cup B) \cap C = {}
      OBVIOUS
    <2>. QED BY <1>1, <1>3, <2>1, TwoWays
  <1>5. Cardinality(S) = Cardinality((A \cup B) \cup C) + Cardinality(D)
    <2>1. ((A \cup B) \cup C) \cap D = {} /\ S = ((A \cup B) \cup C) \cup D
      OBVIOUS
    <2>. QED BY <1>1, <1>4, <2>1, TwoWays
  <1>. QED BY <1>2, <1>3, <1>4, <1>5

(* The trades that were open ended one way, or stay open. *)
LEMMA EveryoneEnds ==
    ASSUME TrackerShapes
    PROVE  /\ Cardinality(Ended("wins")) \in Nat /\ Cardinality(Ended("losses")) \in Nat
           /\ Cardinality(Ended("timeouts")) \in Nat /\ Cardinality(StillOpen) \in Nat
           /\ Cardinality(DOMAIN virtual) =
                  Cardinality(Ended("wins")) + Cardinality(Ended("losses"))
                  + Cardinality(Ended("timeouts")) + Cardinality(StillOpen)
  <1>1. \A id : Ending(id) \in {"wins", "losses", "timeouts", "open"}
    BY DEF Ending, Decided
  <1>2. DOMAIN virtual = Ended("wins") \cup Ended("losses") \cup Ended("timeouts") \cup StillOpen
    BY <1>1 DEF Ended, StillOpen
  <1>3. /\ Ended("wins") \cap Ended("losses") = {} /\ Ended("wins") \cap Ended("timeouts") = {}
        /\ Ended("wins") \cap StillOpen = {} /\ Ended("losses") \cap Ended("timeouts") = {}
        /\ Ended("losses") \cap StillOpen = {} /\ Ended("timeouts") \cap StillOpen = {}
    BY DEF Ended, StillOpen
  <1>4. PICK S, w, l, t, o : /\ S = DOMAIN virtual /\ w = Ended("wins") /\ l = Ended("losses")
                             /\ t = Ended("timeouts") /\ o = StillOpen
    OBVIOUS
  <1>5. IsFiniteSet(S) /\ S = w \cup l \cup t \cup o
    BY <1>2, <1>4, FollowedAreFinite
  <1>6. /\ w \cap l = {} /\ w \cap t = {} /\ w \cap o = {}
        /\ l \cap t = {} /\ l \cap o = {} /\ t \cap o = {}
    BY <1>3, <1>4
  <1>7. /\ Cardinality(w) \in Nat /\ Cardinality(l) \in Nat
        /\ Cardinality(t) \in Nat /\ Cardinality(o) \in Nat
        /\ Cardinality(S) = Cardinality(w) + Cardinality(l) + Cardinality(t) + Cardinality(o)
    BY <1>5, <1>6, FourWays, SMTT(60)
  <1>. QED BY <1>4, <1>7

LEMMA EvaluationKeeps == TrackerInv /\ EvaluateOpen => TrackerInv'
  <1> SUFFICES ASSUME TrackerInv, EvaluateOpen PROVE TrackerInv'
    OBVIOUS
  <1>0. TrackerShapes /\ LedgerStands /\ PassedByIsKnown
    BY DEF TrackerInv
  <1>1. PICK wins \in Nat, losses \in Nat, timeouts \in Nat, open \in Nat :
           /\ wins = Cardinality(Ended("wins")) /\ losses = Cardinality(Ended("losses"))
           /\ timeouts = Cardinality(Ended("timeouts")) /\ open = Cardinality(StillOpen)
           /\ Cardinality(DOMAIN virtual) = wins + losses + timeouts + open
    BY <1>0, EveryoneEnds
  <1>2. /\ virtual' = [id \in StillOpen |-> virtual[id]]
        /\ tally' = [signals |-> tally.signals, tracked |-> tally.tracked,
                     wins |-> tally.wins + wins, losses |-> tally.losses + losses,
                     timeouts |-> tally.timeouts + timeouts]
        /\ UNCHANGED <<candles, measurable, seenIds, passedBy, again>>
    BY <1>1 DEF EvaluateOpen
  <1>3. /\ DOMAIN virtual' = StillOpen /\ StillOpen \subseteq DOMAIN virtual
        /\ \A id \in StillOpen : virtual'[id] = virtual[id]
    BY <1>2 DEF StillOpen
  <1>4. tally \in [signals : Nat, tracked : Nat, wins : Nat, losses : Nat, timeouts : Nat]
    BY <1>0 DEF TrackerShapes
  <1>5. TrackerShapes'
    <2>1. tally' \in [signals : Nat, tracked : Nat, wins : Nat, losses : Nat, timeouts : Nat]
      BY <1>2, <1>4
    <2>2. DOMAIN virtual' \subseteq 1..Len(measurable')
      BY <1>0, <1>2, <1>3 DEF TrackerShapes
    <2>3. \A id \in DOMAIN virtual' : virtual'[id] \in 0..Len(candles')
      BY <1>0, <1>2, <1>3 DEF TrackerShapes
    <2>. QED BY <1>0, <1>2, <2>1, <2>2, <2>3 DEF TrackerShapes
  <1>6. LedgerStands'
    <2>1. PICK w \in Nat, l \in Nat, t \in Nat : /\ w = tally.wins /\ l = tally.losses
                                                 /\ t = tally.timeouts
      BY <1>4
    <2>2. /\ tally'.wins = w + wins /\ tally'.losses = l + losses
          /\ tally'.timeouts = t + timeouts
          /\ tally'.signals = tally.signals /\ tally'.tracked = tally.tracked
      BY <1>2, <2>1
    <2>3. OpenOrEnded' = OpenOrEnded
      <3>1. OpenOrEnded = w + l + t + (wins + losses + timeouts + open)
        BY <1>1, <2>1 DEF OpenOrEnded
      <3>2. OpenOrEnded' = (w + wins) + (l + losses) + (t + timeouts) + open
        BY <1>1, <1>3, <2>2 DEF OpenOrEnded
      <3>. QED BY <3>1, <3>2
    <2>. QED BY <1>0, <1>2, <2>2, <2>3 DEF LedgerStands
  <1>7. PassedByIsKnown'
    BY <1>0, <1>2, <1>3 DEF PassedByIsKnown
  <1>. QED BY <1>5, <1>6, <1>7 DEF TrackerInv

LEMMA TrackerSteps == TrackerInv /\ (TrackerNext \/ UNCHANGED trackerVars) => TrackerInv'
  <1> SUFFICES ASSUME TrackerInv, TrackerNext \/ UNCHANGED trackerVars PROVE TrackerInv'
    OBVIOUS
  <1>1. CASE \E touched \in SUBSET Levels : NewCandle(touched)
    BY <1>1, CandleKeeps
  <1>2. CASE \E level \in Levels : CandleWidens(level)
    BY <1>2, WideningKeeps
  <1>3. CASE \E m \in BOOLEAN : OnSignalRecord(m)
    BY <1>3, SignalKeeps
  <1>4. CASE \E id \in DOMAIN measurable : ~again /\ OnRecordAgain(id)
    BY <1>4, RepetitionKeeps
  <1>5. CASE EvaluateOpen
    BY <1>5, EvaluationKeeps
  <1>6. CASE UNCHANGED trackerVars
    <2>1. TrackerShapes'
      BY <1>6 DEF TrackerInv, TrackerShapes, trackerVars
    <2>2. LedgerStands'
      BY <1>6 DEF TrackerInv, LedgerStands, OpenOrEnded, trackerVars
    <2>3. PassedByIsKnown'
      BY <1>6 DEF TrackerInv, PassedByIsKnown, trackerVars
    <2>. QED BY <2>1, <2>2, <2>3 DEF TrackerInv
  <1>. QED BY <1>1, <1>2, <1>3, <1>4, <1>5, <1>6 DEF TrackerNext

LEMMA TrackerPromises == TrackerInv => TrackerTypeOK /\ LedgerAddsUp
  <1> SUFFICES ASSUME TrackerInv PROVE TrackerTypeOK /\ LedgerAddsUp
    OBVIOUS
  <1>0. TrackerShapes /\ LedgerStands
    BY DEF TrackerInv
  <1>1. Cardinality(DOMAIN virtual) \in Nat
    BY <1>0, FollowedAreFinite, FS_CardinalityType
  <1>2. PICK signals \in Nat, tracked \in Nat, w \in Nat, l \in Nat, t \in Nat :
           tally = [signals |-> signals, tracked |-> tracked, wins |-> w, losses |-> l, timeouts |-> t]
    BY <1>0 DEF TrackerShapes
  <1>3. PICK n \in Nat : n = Len(measurable) /\ n <= MaxSignals
    BY <1>0 DEF TrackerShapes
  <1>4. /\ signals = n + (IF again THEN 1 ELSE 0) /\ tracked <= signals
        /\ w + l + t + Cardinality(DOMAIN virtual) <= tracked
        /\ ~again => w + l + t + Cardinality(DOMAIN virtual) = tracked
    BY <1>0, <1>2, <1>3 DEF LedgerStands, OpenOrEnded
  <1>5. LedgerAddsUp
    BY <1>2, <1>4 DEF LedgerAddsUp
  <1>6. \A counter \in DOMAIN tally : tally[counter] \in 0..MaxSignals + 1
    <2>1. MaxSignals \in Nat
      BY TrackerAssumption
    <2>2. /\ signals \in 0..MaxSignals + 1 /\ tracked \in 0..MaxSignals + 1
          /\ w \in 0..MaxSignals + 1 /\ l \in 0..MaxSignals + 1 /\ t \in 0..MaxSignals + 1
      BY <1>1, <1>3, <1>4, <2>1
    <2>. QED BY <1>2, <2>2
  <1>7. TrackerTypeOK
    <2>1. \A i \in DOMAIN candles : candles[i] \subseteq Levels
      BY <1>0 DEF TrackerShapes
    <2>2. Len(seenIds) <= SeenLimit /\ DOMAIN virtual \subseteq DOMAIN measurable
      BY <1>0 DEF TrackerShapes
    <2>. QED BY <1>6, <2>1, <2>2 DEF TrackerTypeOK
  <1>. QED BY <1>5, <1>7

LEMMA LeastOne ==
    ASSUME NEW S \in SUBSET Nat, S # {}
    PROVE  Minimum(S) \in S /\ \A y \in S : Minimum(S) <= y
  <1>1. \E x \in S : \A y \in S : x <= y
    BY LeastIn
  <1>. QED BY <1>1 DEF Minimum

(* A trade that wins had not been stopped, or was passed by. *)
LEMMA WinnersWereNotStopped ==
    ASSUME TrackerInv, NEW id \in Ended("wins"), Stopped(id)
    PROVE  id \in passedBy
  <1>0. TrackerShapes /\ PassedByIsKnown
    BY DEF TrackerInv
  <1>1. id \in DOMAIN virtual /\ Ending(id) = "wins"
    BY DEF Ended
  <1>2. PICK m : m = Minimum(Touching(id))
    OBVIOUS
  <1>3. Touching(id) # {} /\ "stop" \notin candles[m]
    BY <1>1, <1>2 DEF Ending, Decided
  <1>4. Len(candles) \in Nat /\ DOMAIN candles = 1..Len(candles) /\ virtual[id] \in Nat
    BY <1>0, <1>1 DEF TrackerShapes
  <1>5. Touching(id) \in SUBSET Nat
    BY <1>4 DEF Touching, Visible
  <1>6. m \in Touching(id) /\ \A y \in Touching(id) : m <= y
    BY <1>2, <1>3, <1>5, LeastOne
  <1>7. PICK i \in Since(id) : "stop" \in candles[i] /\ \A j \in Since(id) : j < i => candles[j] = {}
    BY DEF Stopped
  <1>8. m \in Since(id) /\ candles[m] # {} /\ m \in Nat /\ i \in Nat
    BY <1>4, <1>6, <1>7 DEF Touching, Visible, Since
  <1>9. i \in 1..Len(candles) /\ i >= virtual[id] /\ candles[i] # {}
    BY <1>4, <1>7 DEF Since
  <1>10. i # m /\ ~(m < i)
    BY <1>3, <1>7, <1>8
  <1>11. i \notin Touching(id)
    BY <1>6, <1>8, <1>10
  <1>12. i <= Len(candles) - Window
    BY <1>4, <1>9, <1>11, TrackerAssumption DEF Touching, Visible
  <1>. QED BY <1>0, <1>1, <1>9, <1>12 DEF PassedByIsKnown

(* The step of WinsWereNotStopped.                                           *)
LEMMA WinsAreSound ==
    ASSUME TrackerInv, EvaluateOpen
    PROVE  tally'.wins - tally.wins <=
               Cardinality({id \in DOMAIN virtual \ DOMAIN virtual' : ~Stopped(id)})
               + Cardinality(passedBy)
  <1>0. TrackerShapes
    BY DEF TrackerInv
  <1> DEFINE sound == {id \in DOMAIN virtual \ DOMAIN virtual' : ~Stopped(id)}
  <1>1. IsFiniteSet(DOMAIN virtual) /\ IsFiniteSet(passedBy)
    BY <1>0, FollowedAreFinite
  <1>2. sound \in SUBSET DOMAIN virtual
    OBVIOUS
  <1>3. IsFiniteSet(sound)
    BY <1>1, <1>2, FS_Subset
  <1>4. Ended("wins") \subseteq sound \cup passedBy
    <2> SUFFICES ASSUME NEW id \in Ended("wins"), id \notin passedBy PROVE id \in sound
      OBVIOUS
    <2>1. ~Stopped(id)
      BY WinnersWereNotStopped
    <2>2. DOMAIN virtual' = StillOpen
      BY DEF EvaluateOpen
    <2>3. id \in DOMAIN virtual /\ id \notin DOMAIN virtual'
      BY <2>2 DEF Ended, StillOpen
    <2>. QED BY <2>1, <2>3
  <1> HIDE DEF sound
  <1>5. /\ IsFiniteSet(sound \cup passedBy)
        /\ Cardinality(sound \cup passedBy) =
              Cardinality(sound) + Cardinality(passedBy) - Cardinality(sound \cap passedBy)
    BY <1>1, <1>3, FS_Union
  <1>6. IsFiniteSet(sound \cap passedBy)
    BY <1>3, FS_Intersection
  <1>7. /\ Cardinality(sound) \in Nat /\ Cardinality(passedBy) \in Nat
        /\ Cardinality(sound \cap passedBy) \in Nat
    BY <1>1, <1>3, <1>6, FS_CardinalityType
  <1>8. Cardinality(Ended("wins")) <= Cardinality(sound \cup passedBy)
    <2>1. Ended("wins") \in SUBSET (sound \cup passedBy)
      BY <1>4
    <2>. QED BY <1>5, <2>1, FS_Subset
  <1>9. Cardinality(Ended("wins")) \in Nat
    BY <1>0, EveryoneEnds
  <1>10. tally'.wins = tally.wins + Cardinality(Ended("wins")) /\ tally.wins \in Nat
    BY <1>0 DEF EvaluateOpen, TrackerShapes
  <1>11. Cardinality(Ended("wins")) <= Cardinality(sound) + Cardinality(passedBy)
    BY <1>5, <1>7, <1>8, <1>9
  <1>12. tally'.wins - tally.wins <= Cardinality(sound) + Cardinality(passedBy)
    BY <1>7, <1>9, <1>10, <1>11
  <1>. QED BY <1>12 DEF sound

-----------------------------------------------------------------------------
(* The verdicts on the strategies: the failures counted are the bad verdicts *)
(* at the end of the list, and a strategy is disabled by their number alone. *)

MetaShapes ==
    /\ record \in [Labelled -> Seq(Outcomes)]
    /\ weight \in [Labelled -> {0} \cup MinWeight..MaxWeight]
    /\ active \in [Labelled -> BOOLEAN]
    /\ failures \in [Labelled -> Nat]
    /\ verdicts \in [Labelled -> Seq(BOOLEAN)]

(* The last n verdicts are bad, and the one before them is not. *)
EndsIn(list, n) ==
    /\ n <= Len(list)
    /\ \A i \in Len(list) - n + 1..Len(list) : list[i]
    /\ n < Len(list) => ~list[Len(list) - n]

Governed ==
    \A s \in Labelled :
        /\ EndsIn(verdicts[s], failures[s])
        /\ active[s] = (failures[s] < DisableAfter)
        /\ ~active[s] => weight[s] = MinWeight

MetaInv == MetaShapes /\ Governed

LEMMA ClampIsInt ==
    ASSUME NEW x \in Int, NEW low \in Int, NEW high \in Int, low <= high
    PROVE  Clamp(x, low, high) \in Int /\ Clamp(x, low, high) \in low..high
  BY DEF Clamp

LEMMA AmountIsInt ==
    ASSUME NEW trades \in Seq(Outcomes), NEW S \in SUBSET DOMAIN trades
    PROVE  SumFunctionOnSet(trades, S) \in Int
  <1>1. Len(trades) \in Nat /\ DOMAIN trades = 1..Len(trades)
    OBVIOUS
  <1>2. IsFiniteSet(S)
    <2>1. IsFiniteSet(1..Len(trades))
      BY <1>1, FS_Interval
    <2>. QED BY <1>1, <2>1, FS_Subset
  <1>3. IntsOn(trades, S)
    <2>1. \A x \in S : trades[x] \in Outcomes
      BY <1>1
    <2>. QED BY <2>1, MetaAssumption DEF IntsOn
  <1>. QED BY <1>2, <1>3, SumIsInt

LEMMA FactorIsInt ==
    ASSUME NEW trades \in Seq(Outcomes)
    PROVE  ProfitFactor(trades) \in Int
  <1>1. PICK won \in Int : won = SumFunctionOnSet(trades, Won(trades))
    <2>1. Won(trades) \in SUBSET DOMAIN trades
      BY DEF Won
    <2>. QED BY <2>1, AmountIsInt
  <1>2. PICK lost \in Int : lost = -SumFunctionOnSet(trades, Lost(trades))
    <2>1. Lost(trades) \in SUBSET DOMAIN trades
      BY DEF Lost
    <2>2. SumFunctionOnSet(trades, Lost(trades)) \in Int
      BY <2>1, AmountIsInt
    <2>. QED BY <2>2
  <1>3. lost > 0 => (1000 * won) \div lost \in Int
    OBVIOUS
  <1>4. ProfitFactor(trades) =
            IF lost > 0 THEN (1000 * won) \div lost ELSE IF won > 0 THEN 1000 ELSE 0
    BY <1>1, <1>2 DEF ProfitFactor
  <1>. QED BY <1>3, <1>4

LEMMA ExpectancyIsInt ==
    ASSUME NEW trades \in Seq(Outcomes)
    PROVE  Expectancy(trades) \in Int
  <1>1. CASE trades = <<>>
    BY <1>1 DEF Expectancy
  <1>2. CASE trades # <<>>
    <2>1. PICK n \in Nat : n = Len(trades) /\ n > 0
      BY <1>2
    <2>2. PICK sum \in Int : sum = SumFunctionOnSet(trades, DOMAIN trades)
      BY AmountIsInt
    <2>3. (1000 * sum) \div n \in Int
      BY <2>1
    <2>. QED BY <1>2, <2>1, <2>2, <2>3 DEF Expectancy
  <1>. QED BY <1>1, <1>2

LEMMA WinRateIsInt ==
    ASSUME NEW trades \in Seq(Outcomes), trades # <<>>
    PROVE  WinRate(trades) \in Int
  <1>1. PICK n \in Nat : n = Len(trades) /\ n > 0
    OBVIOUS
  <1>2. IsFiniteSet(1..n) /\ Won(trades) \in SUBSET (1..n)
    <2>1. DOMAIN trades = 1..n
      BY <1>1
    <2>2. Won(trades) \in SUBSET (1..n)
      BY <2>1 DEF Won
    <2>. QED BY <1>1, <2>2, FS_Interval
  <1>3. PICK k \in Nat : k = Cardinality(Won(trades))
    BY <1>2, FS_Subset, FS_CardinalityType
  <1>4. (1000 * k) \div n \in Int
    BY <1>1
  <1>. QED BY <1>1, <1>3, <1>4 DEF WinRate

LEMMA RecentIsTyped ==
    ASSUME NEW trades \in Seq(Outcomes), trades # <<>>
    PROVE  Recent(trades) \in Seq(Outcomes)
  <1>1. PICK n \in Nat : n = Len(trades)
    OBVIOUS
  <1>2. PICK kept \in 0..n : kept = Least(Lookback, n)
    BY MetaAssumption DEF Least
  <1>3. PICK from \in 1..n + 1 : from = n - kept + 1
    OBVIOUS
  <1>4. \A i \in from..n : trades[i] \in Outcomes
    BY <1>1, <1>3
  <1>5. SubSeq(trades, from, n) \in Seq(Outcomes)
    BY <1>4, SubSeqProperties
  <1>. QED BY <1>1, <1>2, <1>3, <1>5 DEF Recent

LEMMA ScoreIsInt ==
    ASSUME NEW trades \in Seq(Outcomes), trades # <<>>
    PROVE  Score(trades) \in Int
  <1>1. PICK recent \in Seq(Outcomes) : recent = Recent(trades)
    BY RecentIsTyped
  <1>2. PICK a \in Int, b \in Int, c \in Int, d \in Int, r \in Int :
           /\ a = Expectancy(recent) /\ b = Expectancy(trades)
           /\ c = ProfitFactor(recent) /\ d = ProfitFactor(trades) /\ r = WinRate(trades)
    BY ExpectancyIsInt, FactorIsInt, WinRateIsInt
  <1>3. PICK e \in Int, f \in Int : e = Blend(a, b) /\ f = Blend(c, d)
    BY DEF Blend
  <1>4. PICK x \in Int, y \in Int : x = Clamp(e, -1000, 1000) /\ y = Clamp(f - 1000, -1000, 1500)
    BY DEF Clamp
  <1>5. PICK raw \in Int : raw = 50000 + 30 * x + 12 * y + 16 * (r - 500)
    OBVIOUS
  <1>6. Score(trades) = Clamp(raw, 0, 100000)
    BY <1>1, <1>2, <1>3, <1>4, <1>5 DEF Score
  <1>7. Clamp(raw, 0, 100000) \in Int
    BY DEF Clamp
  <1>. QED BY <1>6, <1>7

LEMMA TargetIsInt ==
    ASSUME NEW trades \in Seq(Outcomes), trades # <<>>
    PROVE  TargetWeight(trades) \in Int
  <1>1. PICK score \in Int : score = Score(trades)
    BY ScoreIsInt
  <1>. QED BY <1>1 DEF TargetWeight, MinWeight, MaxWeight

LEMMA SmoothedIsInRange ==
    ASSUME MetaShapes, NEW s \in Labelled, record[s] # <<>>
    PROVE  Previous(s) \in Int /\ Smoothed(s) \in MinWeight..MaxWeight
  <1>1. weight[s] \in {0} \cup MinWeight..MaxWeight /\ record[s] \in Seq(Outcomes)
    BY DEF MetaShapes
  <1>2. PICK p \in Int : p = Previous(s)
    <2>1. MinWeight \in Int /\ MaxWeight \in Int
      BY DEF MinWeight, MaxWeight
    <2>2. weight[s] \in Int
      BY <1>1, <2>1
    <2>. QED BY <2>2 DEF Previous
  <1>3. PICK t \in Int : t = TargetWeight(record[s])
    BY <1>1, TargetIsInt
  <1>4. PICK x \in Int : x = p + (t - p) \div 2
    OBVIOUS
  <1>5. Smoothed(s) = Clamp(x, MinWeight, MaxWeight)
    BY <1>2, <1>3, <1>4 DEF Smoothed
  <1>6. MinWeight \in Int /\ MaxWeight \in Int /\ MinWeight <= MaxWeight
    BY DEF MinWeight, MaxWeight
  <1>. QED BY <1>2, <1>5, <1>6, ClampIsInt

LEMMA NothingJudged ==
    ASSUME NEW f, f = [s \in Labelled |-> <<>>]
    PROVE  f \in [Labelled -> Seq(BOOLEAN)] /\ \A s \in Labelled : EndsIn(f[s], 0)
  <1>1. <<>> \in Seq(BOOLEAN) /\ Len(<<>>) = 0
    OBVIOUS
  <1>2. EndsIn(<<>>, 0)
    BY <1>1 DEF EndsIn
  <1>. QED BY <1>1, <1>2

LEMMA FreshStart ==
    ASSUME record' \in [Labelled -> Seq(Outcomes)] ,
           weight' = [s \in Labelled |-> 0], active' = [s \in Labelled |-> TRUE],
           failures' = [s \in Labelled |-> 0], verdicts' = [s \in Labelled |-> <<>>]
    PROVE  MetaInv'
  <1>1. verdicts' \in [Labelled -> Seq(BOOLEAN)] /\ \A s \in Labelled : EndsIn(verdicts'[s], 0)
    BY NothingJudged
  <1>2. MetaShapes'
    BY <1>1 DEF MetaShapes
  <1>3. \A s \in Labelled : EndsIn(verdicts'[s], failures'[s])
    BY <1>1
  <1>4. Governed'
    <2>1. \A s \in Labelled : active'[s] = TRUE /\ failures'[s] = 0 /\ (0 < DisableAfter) = TRUE
      BY MetaAssumption
    <2>. QED BY <1>3, <2>1 DEF Governed
  <1>. QED BY <1>2, <1>4 DEF MetaInv

LEMMA MetaStarts == MetaInit => MetaInv
  <1> SUFFICES ASSUME MetaInit PROVE MetaInv
    OBVIOUS
  <1>1. /\ record = [s \in Labelled |-> <<>>] /\ weight = [s \in Labelled |-> 0]
        /\ active = [s \in Labelled |-> TRUE] /\ failures = [s \in Labelled |-> 0]
        /\ verdicts = [s \in Labelled |-> <<>>]
    BY DEF MetaInit
  <1>2. verdicts \in [Labelled -> Seq(BOOLEAN)] /\ \A s \in Labelled : EndsIn(verdicts[s], 0)
    BY <1>1, NothingJudged
  <1>3. record \in [Labelled -> Seq(Outcomes)]
    BY <1>1
  <1>4. MetaShapes
    BY <1>1, <1>2, <1>3 DEF MetaShapes
  <1>5. \A s \in Labelled : EndsIn(verdicts[s], failures[s])
    BY <1>1, <1>2
  <1>6. Governed
    <2>1. \A s \in Labelled : active[s] = TRUE /\ failures[s] = 0 /\ (0 < DisableAfter) = TRUE
      BY <1>1, MetaAssumption
    <2>. QED BY <1>5, <2>1 DEF Governed
  <1>. QED BY <1>4, <1>6 DEF MetaInv

LEMMA LabelledKeeps ==
    ASSUME MetaInv, NEW s \in Labelled, NEW r \in Outcomes, TradeLabelled(s, r)
    PROVE  MetaInv'
  <1>0. MetaShapes /\ Governed
    BY DEF MetaInv
  <1>1. /\ record' = [record EXCEPT ![s] = Append(@, r)]
        /\ UNCHANGED <<weight, active, failures, verdicts>>
    BY DEF TradeLabelled
  <1>2. record' \in [Labelled -> Seq(Outcomes)]
    BY <1>0, <1>1 DEF MetaShapes
  <1>3. MetaShapes'
    BY <1>0, <1>1, <1>2 DEF MetaShapes
  <1>4. Governed'
    BY <1>0, <1>1 DEF Governed
  <1>. QED BY <1>3, <1>4 DEF MetaInv

(* One verdict more: the run grows by it, or starts again. *)
LEMMA OneVerdictMore ==
    ASSUME NEW list \in Seq(BOOLEAN), NEW n \in Nat, EndsIn(list, n), NEW bad \in BOOLEAN
    PROVE  /\ Append(list, bad) \in Seq(BOOLEAN)
           /\ EndsIn(Append(list, bad), IF bad THEN n + 1 ELSE 0)
  <1>1. PICK longer : longer = Append(list, bad)
    OBVIOUS
  <1>2. PICK k \in Nat : k = Len(list)
    OBVIOUS
  <1>3. /\ longer \in Seq(BOOLEAN) /\ Len(longer) = k + 1 /\ longer[k + 1] = bad
        /\ \A i \in 1..k : longer[i] = list[i]
    BY <1>1, <1>2, AppendProperties
  <1>4. /\ n <= k /\ \A i \in k - n + 1..k : list[i]
        /\ n < k => ~list[k - n]
    BY <1>2 DEF EndsIn
  <1>5. CASE bad
    <2>1. \A i \in k - n + 1..k + 1 : longer[i]
      <3> TAKE i \in k - n + 1..k + 1
      <3>1. CASE i = k + 1
        BY <1>3, <1>5, <3>1
      <3>2. CASE i # k + 1
        <4>1. i \in 1..k /\ i \in k - n + 1..k
          BY <1>4, <3>2
        <4>. QED BY <1>3, <1>4, <4>1
      <3>. QED BY <3>1, <3>2
    <2>2. n < k => ~longer[k - n]
      BY <1>3, <1>4
    <2>3. EndsIn(longer, n + 1)
      BY <1>3, <1>4, <2>1, <2>2 DEF EndsIn
    <2>. QED BY <1>1, <1>3, <1>5, <2>3
  <1>6. CASE ~bad
    <2>1. EndsIn(longer, 0)
      BY <1>3, <1>6 DEF EndsIn
    <2>. QED BY <1>1, <1>3, <1>6, <2>1
  <1>. QED BY <1>5, <1>6

LEMMA EvaluationGoverns == MetaInv /\ RunMetaEvaluation => MetaInv'
  <1> SUFFICES ASSUME MetaInv, RunMetaEvaluation PROVE MetaInv'
    OBVIOUS
  <1>0. MetaShapes /\ Governed
    BY DEF MetaInv
  <1>1. /\ failures' = [s \in Labelled |-> IF record[s] # <<>> THEN FailuresAfter(s) ELSE failures[s]]
        /\ active' = [s \in Labelled |->
                         IF record[s] # <<>> THEN failures'[s] < DisableAfter ELSE active[s]]
        /\ weight' = [s \in Labelled |-> IF record[s] = <<>> THEN weight[s]
                                         ELSE IF active'[s] THEN Smoothed(s) ELSE DisabledWeight(s)]
        /\ verdicts' = [s \in Labelled |->
                           IF record[s] # <<>> THEN Append(verdicts[s], IsDegraded(record[s]))
                           ELSE verdicts[s]]
        /\ record' = record
    BY DEF RunMetaEvaluation
  <1>2. ASSUME NEW s \in Labelled, record[s] # <<>>
        PROVE  /\ verdicts'[s] \in Seq(BOOLEAN) /\ failures'[s] \in Nat
               /\ EndsIn(verdicts'[s], failures'[s])
    <2>1. PICK bad \in BOOLEAN : bad <=> IsDegraded(record[s])
      OBVIOUS
    <2>2. IsDegraded(record[s]) \in BOOLEAN
      BY DEF IsDegraded
    <2>3. verdicts'[s] = Append(verdicts[s], bad)
      BY <1>1, <1>2, <2>1, <2>2
    <2>4. failures'[s] = IF bad THEN failures[s] + 1 ELSE 0
      BY <1>1, <1>2, <2>1 DEF FailuresAfter
    <2>5. verdicts[s] \in Seq(BOOLEAN) /\ failures[s] \in Nat /\ EndsIn(verdicts[s], failures[s])
      BY <1>0 DEF MetaShapes, Governed
    <2>. QED BY <2>3, <2>4, <2>5, OneVerdictMore
  <1>3. ASSUME NEW s \in Labelled, record[s] = <<>>
        PROVE  /\ verdicts'[s] = verdicts[s] /\ failures'[s] = failures[s]
               /\ active'[s] = active[s] /\ weight'[s] = weight[s]
    BY <1>1, <1>3
  <1>4. ASSUME NEW s \in Labelled
        PROVE  /\ verdicts'[s] \in Seq(BOOLEAN) /\ failures'[s] \in Nat
               /\ EndsIn(verdicts'[s], failures'[s])
    <2>1. CASE record[s] # <<>>
      BY <1>2, <2>1
    <2>2. CASE record[s] = <<>>
      BY <1>0, <1>3, <2>2 DEF MetaShapes, Governed
    <2>. QED BY <2>1, <2>2
  <1>5. ASSUME NEW s \in Labelled
        PROVE  /\ active'[s] \in BOOLEAN /\ active'[s] = (failures'[s] < DisableAfter)
               /\ weight'[s] \in {0} \cup MinWeight..MaxWeight
               /\ ~active'[s] => weight'[s] = MinWeight
    <2>1. CASE record[s] # <<>>
      <3>1. active'[s] = (failures'[s] < DisableAfter)
        BY <1>1, <2>1
      <3>2. weight'[s] = IF active'[s] THEN Smoothed(s) ELSE MinWeight
        BY <1>1, <2>1 DEF DisabledWeight
      <3>3. Smoothed(s) \in MinWeight..MaxWeight
        BY <1>0, <2>1, SmoothedIsInRange
      <3>4. MinWeight \in MinWeight..MaxWeight
        BY DEF MinWeight, MaxWeight
      <3>. QED BY <3>1, <3>2, <3>3, <3>4
    <2>2. CASE record[s] = <<>>
      BY <1>0, <1>3, <2>2 DEF MetaShapes, Governed
    <2>. QED BY <2>1, <2>2
  <1>6. MetaShapes'
    <2>1. verdicts' \in [Labelled -> Seq(BOOLEAN)] /\ failures' \in [Labelled -> Nat]
      BY <1>1, <1>4
    <2>2. active' \in [Labelled -> BOOLEAN]
      BY <1>1, <1>5
    <2>3. weight' \in [Labelled -> {0} \cup MinWeight..MaxWeight]
      BY <1>1, <1>5
    <2>. QED BY <1>0, <1>1, <2>1, <2>2, <2>3 DEF MetaShapes
  <1>7. Governed'
    BY <1>4, <1>5 DEF Governed
  <1>. QED BY <1>6, <1>7 DEF MetaInv

LEMMA MetaSteps == MetaInv /\ (MetaNext \/ UNCHANGED metaVars) => MetaInv'
  <1> SUFFICES ASSUME MetaInv, MetaNext \/ UNCHANGED metaVars PROVE MetaInv'
    OBVIOUS
  <1>1. CASE \E s \in Labelled, r \in Outcomes : TradeLabelled(s, r)
    BY <1>1, LabelledKeeps
  <1>2. CASE RunMetaEvaluation
    BY <1>2, EvaluationGoverns
  <1>3. CASE RestartMeta
    <2>1. record' \in [Labelled -> Seq(Outcomes)]
      BY <1>3 DEF RestartMeta, MetaInv, MetaShapes
    <2>2. /\ weight' = [s \in Labelled |-> 0] /\ active' = [s \in Labelled |-> TRUE]
          /\ failures' = [s \in Labelled |-> 0] /\ verdicts' = [s \in Labelled |-> <<>>]
      BY <1>3 DEF RestartMeta
    <2>. QED BY <2>1, <2>2, FreshStart
  <1>4. CASE UNCHANGED metaVars
    BY <1>4 DEF metaVars, MetaInv, MetaShapes, Governed
  <1>. QED BY <1>1, <1>2, <1>3, <1>4 DEF MetaNext

LEMMA MetaPromises == MetaInv => MetaTypeOK /\ DisabledOnARow /\ DisabledWeighsLeast
  <1> SUFFICES ASSUME MetaInv PROVE MetaTypeOK /\ DisabledOnARow /\ DisabledWeighsLeast
    OBVIOUS
  <1>0. MetaShapes /\ Governed
    BY DEF MetaInv
  <1>1. ASSUME NEW s \in Labelled
        PROVE  /\ weight[s] \in {0} \cup MinWeight..MaxWeight
               /\ active[s] \in BOOLEAN /\ failures[s] \in 0..Len(verdicts[s])
               /\ \A i \in DOMAIN record[s] : record[s][i] \in Outcomes
    <2>1. /\ weight[s] \in {0} \cup MinWeight..MaxWeight /\ active[s] \in BOOLEAN
          /\ failures[s] \in Nat /\ verdicts[s] \in Seq(BOOLEAN) /\ record[s] \in Seq(Outcomes)
      BY <1>0 DEF MetaShapes
    <2>2. failures[s] <= Len(verdicts[s])
      BY <1>0 DEF Governed, EndsIn
    <2>. QED BY <2>1, <2>2
  <1>2. MetaTypeOK
    BY <1>1 DEF MetaTypeOK
  <1>3. ASSUME NEW s \in Labelled
        PROVE  active[s] = ~(/\ Len(verdicts[s]) >= DisableAfter
                             /\ \A i \in Len(verdicts[s]) - DisableAfter + 1..Len(verdicts[s]) :
                                    verdicts[s][i])
    <2>1. PICK k \in Nat, n \in Nat : k = failures[s] /\ n = Len(verdicts[s])
      BY <1>0 DEF MetaShapes
    <2>2. /\ k <= n /\ \A i \in n - k + 1..n : verdicts[s][i]
          /\ k < n => ~verdicts[s][n - k]
      BY <1>0, <2>1 DEF Governed, EndsIn
    <2>3. active[s] = (k < DisableAfter) /\ DisableAfter \in Nat /\ DisableAfter >= 1
      BY <1>0, <2>1, MetaAssumption DEF Governed
    <2>4. CASE k < DisableAfter
      <3>1. ~(n >= DisableAfter /\ \A i \in n - DisableAfter + 1..n : verdicts[s][i])
        <4> SUFFICES ASSUME n >= DisableAfter, \A i \in n - DisableAfter + 1..n : verdicts[s][i]
                     PROVE FALSE
          OBVIOUS
        <4>1. n - k \in n - DisableAfter + 1..n /\ k < n
          BY <2>3, <2>4
        <4>. QED BY <2>2, <4>1
      <3>. QED BY <2>1, <2>3, <2>4, <3>1
    <2>5. CASE k >= DisableAfter
      <3>1. n >= DisableAfter /\ \A i \in n - DisableAfter + 1..n : verdicts[s][i]
        BY <2>2, <2>3, <2>5
      <3>. QED BY <2>1, <2>3, <2>5, <3>1
    <2>. QED BY <2>3, <2>4, <2>5
  <1>4. DisabledOnARow
    BY <1>3 DEF DisabledOnARow
  <1>5. DisabledWeighsLeast
    BY <1>0 DEF DisabledWeighsLeast, Governed
  <1>. QED BY <1>2, <1>4, <1>5

(* More of a target and more to start from do not come out less. *)
LEMMA HalfWayIsMonotone ==
    ASSUME NEW p \in Int, NEW q \in Int, NEW t \in Int, NEW u \in Int, p >= q, t >= u
    PROVE  Clamp(p + (t - p) \div 2, MinWeight, MaxWeight)
               >= Clamp(q + (u - q) \div 2, MinWeight, MaxWeight)
  <1>1. PICK x \in Int, y \in Int : x = p + (t - p) \div 2 /\ y = q + (u - q) \div 2
    OBVIOUS
  <1>2. x >= y
    BY <1>1
  <1>3. Clamp(x, MinWeight, MaxWeight) >= Clamp(y, MinWeight, MaxWeight)
    BY <1>2 DEF Clamp, MinWeight, MaxWeight
  <1>. QED BY <1>1, <1>3

LEMMA TargetIsMonotone ==
    ASSUME NEW trades \in Seq(Outcomes), trades # <<>>, NEW others \in Seq(Outcomes), others # <<>>,
           Score(trades) >= Score(others)
    PROVE  TargetWeight(trades) >= TargetWeight(others)
  <1>1. PICK a \in Int, b \in Int : a = Score(trades) /\ b = Score(others) /\ a >= b
    BY ScoreIsInt
  <1>2. PICK c \in Int, d \in Int : c = a \div 100 /\ d = b \div 100
    OBVIOUS
  <1>3. c >= d
    BY <1>1, <1>2
  <1>4. (1900 * c) \div 1000 >= (1900 * d) \div 1000
    BY <1>3
  <1>5. TargetWeight(trades) = 100 + (1900 * c) \div 1000 /\ TargetWeight(others) = 100 + (1900 * d) \div 1000
    BY <1>1, <1>2 DEF TargetWeight, MinWeight, MaxWeight
  <1>. QED BY <1>4, <1>5

(* The step of BetterIsNotLighter.                                           *)
LEMMA BetterWeighsNoLess ==
    ASSUME MetaInv, MetaNext \/ UNCHANGED metaVars, NEW s \in Labelled, NEW t \in Labelled,
           Len(verdicts'[s]) > Len(verdicts[s]), active'[s],
           Len(verdicts'[t]) > Len(verdicts[t]), active'[t],
           Score(record[s]) >= Score(record[t]), Previous(s) >= Previous(t)
    PROVE  weight'[s] >= weight'[t]
  <1>0. MetaShapes
    BY DEF MetaInv
  <1>1. RunMetaEvaluation
    <2>1. verdicts[s] \in Seq(BOOLEAN) /\ Len(verdicts[s]) \in Nat
      BY <1>0 DEF MetaShapes
    <2>2. verdicts' # verdicts
      BY <2>1
    <2>3. CASE RestartMeta
      <3>1. verdicts'[s] = <<>>
        BY <2>3 DEF RestartMeta
      <3>. QED BY <2>1, <3>1
    <2>. QED BY <2>2, <2>3 DEF MetaNext, TradeLabelled, metaVars
  <1>2. \A x \in Labelled : record[x] = <<>> => verdicts'[x] = verdicts[x]
    BY <1>1 DEF RunMetaEvaluation
  <1>3. record[s] # <<>> /\ record[t] # <<>>
    <2>1. Len(verdicts[s]) \in Nat /\ Len(verdicts[t]) \in Nat
      BY <1>0 DEF MetaShapes
    <2>. QED BY <1>2, <2>1
  <1>4. weight'[s] = Smoothed(s) /\ weight'[t] = Smoothed(t)
    BY <1>1, <1>3 DEF RunMetaEvaluation
  <1>5. record[s] \in Seq(Outcomes) /\ record[t] \in Seq(Outcomes)
    BY <1>0 DEF MetaShapes
  <1>6. PICK p \in Int, q \in Int, a \in Int, b \in Int :
           /\ p = Previous(s) /\ q = Previous(t)
           /\ a = TargetWeight(record[s]) /\ b = TargetWeight(record[t])
    BY <1>0, <1>3, <1>5, SmoothedIsInRange, TargetIsInt
  <1>7. p >= q /\ a >= b
    BY <1>3, <1>5, <1>6, TargetIsMonotone
  <1>8. Clamp(p + (a - p) \div 2, MinWeight, MaxWeight) >= Clamp(q + (b - q) \div 2, MinWeight, MaxWeight)
    BY <1>7, HalfWayIsMonotone
  <1>. QED BY <1>4, <1>6, <1>8 DEF Smoothed

-----------------------------------------------------------------------------
(* The desks together.                                                       *)

LEMMA Visits ==
    ASSUME [Next]_vars
    PROVE  /\ GuardNext \/ UNCHANGED guardVars
           /\ QueueNext \/ UNCHANGED queueVars
           /\ BackupNext \/ UNCHANGED backupVars
           /\ ConfigNext \/ UNCHANGED configVars
           /\ LabNext \/ UNCHANGED labVars
           /\ ReplayNext \/ UNCHANGED replayVars
           /\ StudyNext \/ UNCHANGED studyVars
           /\ ResearchNext \/ UNCHANGED researchVars
           /\ ExperimentsNext \/ UNCHANGED experimentVars
           /\ BusNext \/ UNCHANGED busVars
           /\ Enter \/ UNCHANGED sizingVars
           /\ OrdersNext \/ UNCHANGED orderVars
           /\ MetaNext \/ UNCHANGED metaVars
           /\ TrackerNext \/ UNCHANGED trackerVars
           /\ FeaturesNext \/ UNCHANGED featureVars
           /\ HistoryNext \/ UNCHANGED historyVars
           /\ UNCHANGED desk
  BY DEF Next, vars, GuardsDesk, QueueDesk, BackupsDesk, ConfigDesk, ModelsDesk, ReplaysDesk,
         StudiesDesk, ResearchDesk, ExperimentsDesk, BusDesk, SizingDesk, OrdersDesk, MetaDesk,
         TrackerDesk, FeaturesDesk, HistoryDesk

(* Every handler sees every event it asked for, in order, until a stop gives *)
(* up, and the count the stop waits for is true; no feature is told of a     *)
(* market older than its time to live: for any number of handlers, kinds of  *)
(* events, callers and features, any length of the queue and any time to     *)
(* live (core/events/bus.py:140-226, feature_store/store.py:119-137).        *)
THEOREM NewsArrivesInTime == Spec => []NewsIsTimely
  <1> DEFINE Inv == BusInv /\ FeatureInv
  <1>1. Init => Inv
    BY BusStarts, FeaturesStart DEF Init
  <1>2. Inv /\ [Next]_vars => Inv'
    BY Visits, BusSteps, FeatureSteps
  <1>3. Inv => NewsIsTimely
    BY BusPromises, FeaturePromises DEF NewsIsTimely
  <1>. QED BY <1>1, <1>2, <1>3, PTL DEF Spec

(* Real money moves only on a fresh report that approved everything it was   *)
(* asked, nothing of it unmeasured, under an approval of that very report    *)
(* neither expired nor revoked, and is over when the report is too old,      *)
(* whatever the settings, the readings, the failures of the file and the     *)
(* restarts (production/live/gate.py, approval.py, safe_mode/controller.py). *)
THEOREM GuardsHold == Spec => []LiveIsGuarded
  <1> DEFINE Inv == GuardInv /\ desk \in Desks
  <1>1. Init => Inv
    BY GuardsStart DEF Init
  <1>2. Inv /\ [Next]_vars => Inv'
    BY Visits, GuardSteps
  <1>3. Inv => LiveIsGuarded
    BY GuardPromises DEF LiveIsGuarded
  <1>. QED BY <1>1, <1>2, <1>3, PTL DEF Spec

(* What is filed as promoted was earned, no candidate is on file without     *)
(* what was learnt of its genome, and the next process knows what this one   *)
(* filed unless a line could not be written, at whichever line a crash cuts  *)
(* a cycle, for any stages, batches and trials (candidate.py:61-119,         *)
(* promotion.py:57-104, kb.py:40-99, api.py:577-617).                        *)
THEOREM ResearchIsEarned == Spec => []ResearchRemembers
  <1> DEFINE Inv == ResearchInv /\ ExperimentInv
  <1>1. Init => Inv
    BY ResearchStarts, ExperimentsStart DEF Init
  <1>2. Inv /\ [Next]_vars => Inv'
    BY Visits, ResearchSteps, ExperimentSteps
  <1>3. Inv => ResearchRemembers
    BY ResearchPromises, ExperimentPromises DEF ResearchRemembers
  <1>. QED BY <1>1, <1>2, <1>3, PTL DEF Spec

(* Sizes stay within the risk and the cap they were computed from, positions *)
(* open inside their bracket, entries together stay within the exposure, and *)
(* an order's fills, siblings and counters agree, for any equity, contract,  *)
(* market and history, any orders and any groups of them                     *)
(* (sizing/engine.py:59-188, instrument.py:68-84,                            *)
(* execution_engine/engine.py:386-402, 907-958, order_manager/manager.py).   *)
THEOREM OrdersAndSizesHold == Spec => []OrdersAddUp
  <1> DEFINE Inv == OrderInv /\ SizingInv
  <1>1. Init => SizingInv
    <2> SUFFICES ASSUME Init PROVE SizingInv
      OBVIOUS
    <2>1. account \in Accounts /\ quote \in Quotes /\ held = 0
      BY SizingAssumption DEF Init, SizingInit
    <2>. QED BY <2>1, SizingStarts
  <1>2. Init => Inv
    BY <1>1, OrdersStart DEF Init
  <1>3. Inv /\ [Next]_vars => Inv'
    BY Visits, OrderSteps, SizingSteps
  <1>4. Inv => OrdersAddUp
    BY OrderPromises, SizingPromises DEF OrdersAddUp
  <1>. QED BY <1>2, <1>3, <1>4, PTL DEF Spec

(* One model at most is active and it is the one the registry names; along   *)
(* everything a rollback can return to, whoever was not activated by hand    *)
(* passed the gate and beats the one it replaced; a rollback changes the     *)
(* model; and the active model still answers after a restart, whatever fails *)
(* to be written and wherever a crash cuts a night: for any kinds of models, *)
(* measures, gate and depth of the stack (ml/api.py:171-212,                 *)
(* registry/registry.py:103-312).                                            *)
THEOREM ModelsAreEarned == Spec => []BestModelAdvises
  <1>1. Init => LabInv
    BY LabStarts DEF Init
  <1>2. LabInv /\ [Next]_vars => LabInv'
    BY Visits, LabSteps
  <1>3. LabInv => BestModelAdvises
    BY LabPromises DEF BestModelAdvises
  <1>. QED BY <1>1, <1>2, <1>3, PTL DEF Spec

(* Every line of the queue holds one entry or is cut, none is lost without   *)
(* its reason and none is on a page twice without one; the newest backup can *)
(* be restored; what the dashboard shows is in force; and a stop of the      *)
(* history's writer leaves every row on disk, in order and once: for any     *)
(* number of entries, workers, settings and rows, and at any crash           *)
(* (notion/queue.py, backup/service.py, runtime_config.py, writer.py).       *)
THEOREM FilesHold == Spec => []FilesAgree
  <1> DEFINE Inv == QueueInv /\ BackupInv /\ ConfigInv /\ HistoryInv
  <1>1. Init => Inv
    BY QueueStarts, BackupsStart, ConfigStarts, HistoryStarts DEF Init
  <1>2. Inv /\ [Next]_vars => Inv'
    BY Visits, QueueSteps, BackupSteps, ConfigSteps, HistorySteps
  <1>3. Inv => FilesAgree
    BY QueuePromises, BackupPromises, ConfigPromises, HistoryPromises DEF FilesAgree
  <1>. QED BY <1>1, <1>2, <1>3, PTL DEF Spec

(* A strategy is disabled exactly for failures in a row and weighs least     *)
(* while it is; every signal followed on paper is open or has ended once:    *)
(* for any journals, outcomes and candles, any lookback and window           *)
(* (ml/meta/manager.py:68-142, evaluation/tracker.py:148-278).               *)
THEOREM VerdictsHold == Spec => []VerdictsAddUp
  <1> DEFINE Inv == MetaInv /\ TrackerInv
  <1>1. Init => Inv
    BY MetaStarts, TrackerStarts DEF Init
  <1>2. Inv /\ [Next]_vars => Inv'
    BY Visits, MetaSteps, TrackerSteps
  <1>3. Inv => VerdictsAddUp
    BY MetaPromises, TrackerPromises DEF VerdictsAddUp
  <1>. QED BY <1>1, <1>2, <1>3, PTL DEF Spec

(* A replay sees exactly the past of its own segment, the segments cover the *)
(* series and do not overlap, and the clock comes back unless two replays    *)
(* were on it at once; a fold is tested on what it was not trained on, a     *)
(* stable walk forward did not lose, a simulated path shows its losses, one  *)
(* doubt condemns nobody, a refusal has its reason, a dataset keeps the last *)
(* row of each start in order, and the player knows its end: for any series, *)
(* windows, folds, results, rows and parts (backtesting/*, utils/time.py).   *)
THEOREM ReplaysHold == Spec => []ReplaysAreHonest
  <1> DEFINE Inv == ReplayInv /\ StudyInv
  <1>1. Init => Inv
    <2>1. Init => StudyInv
      BY StudiesStart DEF Init
    <2>. QED BY <2>1, ReplaysStart DEF Init
  <1>2. Inv /\ [Next]_vars => Inv'
    BY Visits, ReplaySteps, StudySteps
  <1>3. Inv => ReplaysAreHonest
    BY ReplayPromises, StudyPromises DEF ReplaysAreHonest
  <1>. QED BY <1>1, <1>2, <1>3, PTL DEF Spec

(* What one step may not do.  The invariants of the desks are gathered once; *)
(* each of the steps is one desk's.                                          *)
StepInv ==
    /\ GuardInv /\ BackupInv /\ ConfigInv /\ ExperimentInv /\ MetaInv /\ TrackerInv
    /\ FeatureInv

LEMMA StepInvHolds == Spec => []StepInv
  <1>1. Init => StepInv
    BY GuardsStart, BackupsStart, ConfigStarts, ExperimentsStart, MetaStarts, TrackerStarts,
       FeaturesStart DEF Init, StepInv
  <1>2. StepInv /\ [Next]_vars => StepInv'
    BY Visits, GuardSteps, BackupSteps, ConfigSteps, ExperimentSteps, MetaSteps, TrackerSteps,
       FeatureSteps DEF StepInv
  <1>. QED BY <1>1, <1>2, PTL DEF Spec

LEMMA GuardStepsEarned == Spec => RecoveryIsSustained /\ ErrorsHoldSafeMode
  <1>1. ASSUME StepInv, [Next]_vars
        PROVE  /\ safe.active /\ ~safe'.active => calm' >= Thresholds.cycles \/ RestartGuards
               /\ safe.active /\ Thresholds.errors > 0 /\ errors >= Thresholds.errors
                    => safe'.active \/ RestartGuards
    BY <1>1, Visits, SafeModeIsEarned DEF StepInv
  <1>. QED BY <1>1, StepInvHolds, PTL DEF Spec, RecoveryIsSustained, ErrorsHoldSafeMode

LEMMA BackupStepsEarned == Spec => RestoresTheVerified /\ RetentionIsReached
  <1>1. ASSUME StepInv
        PROVE  \A r \in restoring : Extract /\ ~shared /\ Extractable(r.id) =>
                 /\ r.sum = Digest(r.id) /\ r.sum.whole
                 /\ \A s \in Beside : disk'[s] = r.sum.files[s]
    BY <1>1, RestoresAreVerified DEF StepInv
  <1>2. ASSUME StepInv
        PROVE  \A w \in Workers :
                 BackupDone(w) /\ (\A v \in Workers \ {w} : maker[v].step = "idle")
                     => Cardinality(DOMAIN manifests \ stuck) <= Retention
    BY <1>2, RetentionReached DEF StepInv
  <1>. QED BY <1>1, <1>2, StepInvHolds, PTL DEF Spec, RestoresTheVerified, RetentionIsReached

LEMMA ConfigStepsEarned == Spec => RestartKeepsOverrides
  <1>1. ASSUME StepInv
        PROVE  RestartConfig /\ ~unsaved =>
                 /\ \A p \in Paths : settings'[p] = settings[p] /\ built'[p] = settings[p]
                 /\ overrides' = overrides /\ intents' = intents
    BY <1>1, SettingsReturn DEF StepInv
  <1>. QED BY <1>1, StepInvHolds, PTL DEF Spec, RestartKeepsOverrides

LEMMA ExperimentStepsEarned == Spec => ConclusionsKept
  <1>1. ASSUME StepInv, [Next]_vars
        PROVE  ~missed' =>
                 \A n \in DOMAIN experiments :
                     /\ experiments[n].note # "" => experiments'[n].note # ""
                     /\ experiments[n].payload \subseteq experiments'[n].payload
    <2>1. ExperimentInv /\ (ExperimentsNext \/ UNCHANGED experimentVars)
      BY <1>1, Visits DEF StepInv
    <2>2. ASSUME ~missed'
          PROVE  \A n \in DOMAIN experiments :
                     /\ experiments[n].note # "" => experiments'[n].note # ""
                     /\ experiments[n].payload \subseteq experiments'[n].payload
      BY <2>1, <2>2, NothingForgotten, Zenon
    <2>. QED BY <2>2, Zenon
  <1>. QED BY <1>1, StepInvHolds, PTL DEF Spec, ConclusionsKept

LEMMA MetaStepsEarned == Spec => BetterIsNotLighter
  <1>1. ASSUME StepInv, [Next]_vars
        PROVE  \A s, t \in Labelled :
                 LET Judged(u) == Len(verdicts'[u]) > Len(verdicts[u]) /\ active'[u]
                 IN  ( /\ Judged(s) /\ Judged(t)
                       /\ Score(record[s]) >= Score(record[t]) /\ Previous(s) >= Previous(t) )
                     => weight'[s] >= weight'[t]
    BY <1>1, Visits, BetterWeighsNoLess DEF StepInv
  <1>. QED BY <1>1, StepInvHolds, PTL DEF Spec, BetterIsNotLighter

LEMMA TrackerStepsEarned == Spec => WinsWereNotStopped
  <1>1. ASSUME StepInv
        PROVE  EvaluateOpen =>
                 tally'.wins - tally.wins <=
                     Cardinality({id \in DOMAIN virtual \ DOMAIN virtual' : ~Stopped(id)})
                     + Cardinality(passedBy)
    BY <1>1, WinsAreSound DEF StepInv
  <1>. QED BY <1>1, StepInvHolds, PTL DEF Spec, WinsWereNotStopped

LEMMA FeatureStepsEarned == Spec => ComputedOnce
  <1>1. ASSUME StepInv, [Next]_vars
        PROVE  \A k \in Features : computed'[k] # Crossed /\ computed'[Bands] # Crossed =>
                 /\ computed'[k] # computed[k] => computed'[k] - computed[k] >= KeptFor
                 /\ \A old \in cache[k], new \in cache'[k] :
                       \A before \in old.told, after \in new.told : after >= before
    BY <1>1, Visits, FeaturesComputedOnce DEF StepInv
  <1>. QED BY <1>1, StepInvHolds, PTL DEF Spec, ComputedOnce

(* No step leaves Safe Mode early, restores what was not verified, ends a    *)
(* backup above the retention, restarts without the overrides, loses a       *)
(* conclusion, weighs the better strategy less, wins with a stop that was    *)
(* hit, or computes a feature that is still fresh                            *)
(* (safe_mode/controller.py:79-118, backup/service.py:140-275,               *)
(* config_store.py:190-240, experiment_manager/manager.py:60-160,            *)
(* meta/manager.py:85-140, tracker.py:190-260, feature_store/store.py:119).  *)
THEOREM StepsHold == Spec => StepsAreEarned
  BY GuardStepsEarned, BackupStepsEarned, ConfigStepsEarned, ExperimentStepsEarned,
     MetaStepsEarned, TrackerStepsEarned, FeatureStepsEarned DEF StepsAreEarned
==============================================================================
