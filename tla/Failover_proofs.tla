--------------------------- MODULE Failover_proofs ---------------------------
(***************************************************************************)
(* Theorems of Failover, for any set of nodes, lifetime and renewal        *)
(* period, and of Supervision, for any wiring, timeout, restart budget and *)
(* number of upsets: what a node does about its twin and about itself.     *)
(*                                                                         *)
(* Failover.  At most one primary rests on three facts about the node      *)
(* whose lease is in the file: a running node is never late, so its lease  *)
(* is as young as its last heartbeat; a heartbeat under way is the only    *)
(* one; and it got past its decision only because nobody else was primary. *)
(*                                                                         *)
(* Supervision.  The services of a wiring come by rank, so the position of *)
(* the engine in their order says what state each must be in (Kept): the   *)
(* ones behind it have started, or have stopped.  That a restart is earned *)
(* rests on the components nothing happened to: their heartbeat is carried *)
(* by a scheduler nothing happened to, so they never grow silent.          *)
(***************************************************************************)
EXTENDS Failover, Supervision, Sums, FiniteSetTheorems, TLAPS

LEMMA OlderTyped ==
    ASSUME NEW t \in 0..(TTL + 1) PROVE Older(t) \in 0..(TTL + 1)
  BY FailoverAssumption DEF Older

LEMMA LeaseTyped ==
    ASSUME TypeOK
    PROVE  /\ Readable <=> lease \in Leases
           /\ Readable => lease.holder \in Nodes /\ lease.age \in 0..(TTL + 1)
  BY FailoverAssumption DEF TypeOK, Readable, Leases

-----------------------------------------------------------------------------
(* Type correctness. *)

LEMMA TypeInit == Init => TypeOK
  BY FailoverAssumption DEF Init, TypeOK

LEMMA TypeStep == TypeOK /\ [Next]_vars => TypeOK'
  <1> SUFFICES ASSUME TypeOK, [Next]_vars PROVE TypeOK'
    OBVIOUS
  <1> USE DEF TypeOK, Mishaps
  <1>0. 0 \in 0..(TTL + 1) /\ Renew \in 0..(TTL + 1)
    BY FailoverAssumption
  <1>1. ASSUME NEW n \in Nodes, Heartbeat(n) \/ HeartbeatBlind(n) PROVE TypeOK'
    <2>0. PICK yields \in {Yields(n), FALSE} : Begin(n, yields)
      BY <1>1 DEF Heartbeat, HeartbeatBlind
    <2>1. since' \in [Nodes -> 0..(TTL + 1)]
      BY <1>0, <2>0 DEF Begin
    <2>2. mishaps' \in SUBSET Mishaps /\ dual' \in 0..(TTL + 1)
      BY <1>0, <1>1 DEF Heartbeat, HeartbeatBlind, Encountered
    <2>3. primary' \in [Nodes -> BOOLEAN] /\ pc' \in [Nodes -> {"idle", "writing", "truncated"}]
      BY <2>0 DEF Begin, Demote
    <2>. QED BY <2>0, <2>1, <2>2, <2>3 DEF Begin
  <1>2. ASSUME NEW n \in Nodes, Truncate(n) PROVE TypeOK'
    BY <1>2 DEF Truncate
  <1>3. ASSUME NEW n \in Nodes, WriteLease(n) PROVE TypeOK'
    <2>1. lease' \in Leases
      BY <1>3 DEF WriteLease, Signed, Leases
    <2>. QED BY <1>3, <2>1 DEF WriteLease
  <1>4. ASSUME NEW n \in Nodes, FailToWrite(n) PROVE TypeOK'
    BY <1>4 DEF FailToWrite, Demote
  <1>5. ASSUME NEW n \in Nodes, Crash(n) \/ Restart(n) PROVE TypeOK'
    <2>1. CASE Crash(n)
      BY <2>1 DEF Crash
    <2>2. CASE Restart(n)
      BY <1>0, <2>2 DEF Restart
    <2>. QED BY <1>5, <2>1, <2>2
  <1>6. CASE Tick
    <2>1. lease' \in Leases \cup {NoLease, Torn}
      <3>1. CASE Readable
        <4>1. lease' = [lease EXCEPT !.age = Older(lease.age)]
          BY <1>6, <3>1 DEF Tick
        <4>2. Older(lease.age) \in 0..(TTL + 1)
          BY <3>1, LeaseTyped, OlderTyped
        <4>. QED BY <3>1, <4>1, <4>2, LeaseTyped DEF Leases
      <3>2. CASE ~Readable
        BY <1>6, <3>2 DEF Tick
      <3>. QED BY <3>1, <3>2
    <2>2. since' \in [Nodes -> 0..(TTL + 1)]
      BY <1>6, OlderTyped DEF Tick
    <2>3. dual' \in 0..(TTL + 1)
      BY <1>6, OlderTyped, FailoverAssumption DEF Tick
    <2>. QED BY <1>6, <2>1, <2>2, <2>3 DEF Tick
  <1>7. CASE UNCHANGED vars
    BY <1>7 DEF vars
  <1>. QED BY <1>1, <1>2, <1>3, <1>4, <1>5, <1>6, <1>7 DEF Next, HeartbeatStep

(* The file, when it holds a lease, names a node and an age it can have:     *)
(* a lease is never dated ahead of the heartbeat that wrote it               *)
(* (failover/coordinator.py:79-88).                                          *)
THEOREM TypeCorrect == Spec => []TypeOK
  BY TypeInit, TypeStep, PTL DEF Spec

-----------------------------------------------------------------------------
(* At most one primary. *)

(* Running nodes are never late. *)
Punctual == \A n \in Nodes : up[n] => since[n] <= Renew

(* One heartbeat at a time, by a running node, with no other primary. *)
Exclusive ==
    \A n \in Nodes : pc[n] # "idle" =>
        /\ up[n]
        /\ \A m \in Nodes \ {n} : pc[m] = "idle" /\ ~primary[m]

(* A primary's lease is in the file, no older than its last heartbeat, or *)
(* is being rewritten by the primary itself.                              *)
Backed ==
    \A n \in Nodes : primary[n] =>
        /\ up[n]
        /\ pc[n] = "idle" => Readable /\ lease.holder = n /\ lease.age <= since[n]

(* No heartbeat has overlapped another or failed to read a lease, and no *)
(* running node has stalled.                                             *)
Calm == {"race", "stall", "read"} \cap mishaps = {}

IInv == TypeOK /\ (Calm => Punctual /\ Exclusive /\ Backed)

(* What has gone wrong is not forgotten, so a step that ends in calm is one *)
(* in which no heartbeat overlapped or failed to read and no node stalled.  *)
LEMMA CalmStep ==
    ASSUME [Next]_vars, Calm'
    PROVE  /\ Calm
           /\ \A n \in Nodes : ~HeartbeatBlind(n) /\ (Heartbeat(n) => Alone(n))
           /\ Tick => \A n \in Nodes : Prompt(n)
  <1>1. ASSUME NEW n \in Nodes, Heartbeat(n) PROVE Calm /\ Alone(n)
    BY <1>1 DEF Heartbeat, Encountered, Calm
  <1>a. ASSUME NEW n \in Nodes, HeartbeatBlind(n) PROVE FALSE
    BY <1>a DEF HeartbeatBlind, Calm
  <1>2. ASSUME Tick PROVE Calm /\ \A n \in Nodes : Prompt(n)
    BY <1>2 DEF Tick, Calm
  <1>3. ASSUME NEW n \in Nodes, Truncate(n) \/ WriteLease(n) \/ FailToWrite(n) PROVE Calm
    BY <1>3 DEF Truncate, WriteLease, FailToWrite, Calm
  <1>4. ASSUME NEW n \in Nodes, Crash(n) \/ Restart(n) PROVE Calm
    BY <1>4 DEF Crash, Restart, Calm
  <1>5. ASSUME UNCHANGED vars PROVE Calm
    BY <1>5 DEF vars, Calm
  <1>. QED BY <1>1, <1>a, <1>2, <1>3, <1>4, <1>5 DEF Next, HeartbeatStep

LEMMA PrimaryStep == IInv /\ [Next]_vars => IInv'
  <1> SUFFICES ASSUME IInv, [Next]_vars PROVE Calm' => Punctual' /\ Exclusive' /\ Backed'
    BY TypeStep DEF IInv
  <1> HAVE Calm'
  <1>0. TypeOK /\ Punctual /\ Exclusive /\ Backed /\ Renew \in Nat /\ TTL \in Nat /\ Renew <= TTL
    BY CalmStep, FailoverAssumption DEF IInv
  <1> USE <1>0
  <1>1. ASSUME NEW n \in Nodes, Heartbeat(n) PROVE Punctual' /\ Exclusive' /\ Backed'
    <2>1. /\ up[n] /\ pc[n] = "idle" /\ up' = up /\ lease' = lease
          /\ \A m \in Nodes \ {n} : pc[m] = "idle" /\ pc'[m] = "idle" /\ since'[m] = since[m]
                                    /\ primary'[m] = primary[m]
          /\ since'[n] = 0
      BY <1>1, CalmStep DEF Heartbeat, Begin, Alone, Demote, TypeOK
    <2>2. Punctual'
      BY <2>1 DEF Punctual
    <2>3. CASE Yields(n)
      <3>1. pc' = pc /\ primary'[n] = FALSE
        BY <1>1, <2>3 DEF Heartbeat, Begin, Demote, TypeOK
      <3>. QED BY <2>1, <2>2, <3>1 DEF Exclusive, Backed, Readable
    <2>4. CASE ~Yields(n)
      <3>1. pc'[n] = "writing" /\ primary' = primary
        BY <1>1, <2>4 DEF Heartbeat, Begin, TypeOK
      <3>2. ASSUME NEW m \in Nodes \ {n}, primary[m] PROVE FALSE
        <4>1. Readable /\ lease.holder = m /\ lease.age <= since[m] /\ up[m]
          BY <2>1, <3>2 DEF Backed
        <4>2. since[m] <= Renew /\ since[m] \in Nat /\ lease.age \in Nat
          BY <4>1, LeaseTyped DEF Punctual, TypeOK
        <4>. QED BY <2>4, <4>1, <4>2 DEF Yields, Fresh
      <3>3. Exclusive'
        BY <2>1, <3>1, <3>2 DEF Exclusive
      <3>4. Backed'
        BY <2>1, <3>1, <3>2 DEF Backed
      <3>. QED BY <2>2, <3>3, <3>4
    <2>. QED BY <2>3, <2>4
  <1>2. ASSUME NEW n \in Nodes, Truncate(n) PROVE Punctual' /\ Exclusive' /\ Backed'
    <2>1. /\ pc[n] = "writing" /\ pc'[n] = "truncated"
          /\ \A m \in Nodes \ {n} : pc'[m] = pc[m]
          /\ up' = up /\ primary' = primary /\ since' = since
      BY <1>2 DEF Truncate, TypeOK
    <2>2. \A m \in Nodes \ {n} : pc[m] = "idle" /\ ~primary[m]
      BY <2>1 DEF Exclusive
    <2>. QED BY <2>1, <2>2 DEF Punctual, Exclusive, Backed
  <1>3. ASSUME NEW n \in Nodes, WriteLease(n) PROVE Punctual' /\ Exclusive' /\ Backed'
    <2>1. /\ pc[n] # "idle" /\ pc'[n] = "idle" /\ primary'[n]
          /\ \A m \in Nodes \ {n} : pc'[m] = pc[m] /\ primary'[m] = primary[m]
          /\ up' = up /\ since' = since
          /\ lease' = [holder |-> n, age |-> since[n]]
      BY <1>3 DEF WriteLease, Signed, TypeOK
    <2>2. up[n] /\ \A m \in Nodes \ {n} : pc[m] = "idle" /\ ~primary[m]
      BY <2>1 DEF Exclusive
    <2>3. lease' \in Leases /\ since[n] \in 0..(TTL + 1)
      BY <2>1 DEF Leases, TypeOK
    <2>4. Readable' /\ lease'.holder = n /\ lease'.age <= since'[n]
      BY <2>1, <2>3, FailoverAssumption DEF Readable, Leases
    <2>. QED BY <2>1, <2>2, <2>4 DEF Punctual, Exclusive, Backed
  <1>4. ASSUME NEW n \in Nodes, FailToWrite(n) PROVE Punctual' /\ Exclusive' /\ Backed'
    <2>1. /\ pc[n] # "idle" /\ pc'[n] = "idle" /\ ~primary'[n]
          /\ \A m \in Nodes \ {n} : pc'[m] = pc[m] /\ primary'[m] = primary[m]
          /\ up' = up /\ since' = since
      BY <1>4 DEF FailToWrite, Demote, TypeOK
    <2>2. \A m \in Nodes \ {n} : pc[m] = "idle" /\ ~primary[m]
      BY <2>1 DEF Exclusive
    <2>. QED BY <2>1, <2>2 DEF Punctual, Exclusive, Backed
  <1>5. ASSUME NEW n \in Nodes, Crash(n) PROVE Punctual' /\ Exclusive' /\ Backed'
    <2>1. /\ ~up'[n] /\ ~primary'[n] /\ pc'[n] = "idle"
          /\ \A m \in Nodes \ {n} : up'[m] = up[m] /\ pc'[m] = pc[m] /\ primary'[m] = primary[m]
          /\ lease' = lease /\ since' = since
      BY <1>5 DEF Crash, TypeOK
    <2>. QED BY <2>1 DEF Punctual, Exclusive, Backed, Readable
  <1>6. ASSUME NEW n \in Nodes, Restart(n) PROVE Punctual' /\ Exclusive' /\ Backed'
    <2>1. /\ ~up[n] /\ up'[n] /\ since'[n] = Renew
          /\ \A m \in Nodes \ {n} : up'[m] = up[m] /\ since'[m] = since[m]
          /\ lease' = lease /\ primary' = primary /\ pc' = pc
      BY <1>6 DEF Restart, TypeOK
    <2>2. ~primary[n] /\ pc[n] = "idle"
      BY <2>1 DEF Backed, Exclusive, TypeOK
    <2>. QED BY <2>1, <2>2 DEF Punctual, Exclusive, Backed, Readable
  <1>7. CASE Tick
    <2>1. /\ \A n \in Nodes : pc[n] = "idle" /\ (up[n] => since[n] < Renew)
          /\ up' = up /\ primary' = primary /\ pc' = pc
          /\ \A n \in Nodes : since'[n] = Older(since[n])
      BY <1>7, CalmStep DEF Tick, Prompt
    <2>2. ASSUME NEW n \in Nodes, up[n] PROVE since'[n] = since[n] + 1 /\ since'[n] <= Renew
      BY <2>1, <2>2 DEF Older, TypeOK
    <2>3. ASSUME NEW n \in Nodes, primary[n]
          PROVE  Readable' /\ lease'.holder = n /\ lease'.age <= since'[n]
      <3>1. Readable /\ lease.holder = n /\ lease.age <= since[n] /\ up[n]
        BY <2>1, <2>3 DEF Backed
      <3>2. lease' = [lease EXCEPT !.age = Older(lease.age)] /\ lease \in Leases
        BY <1>7, <3>1, LeaseTyped DEF Tick
      <3>3. lease.age \in 0..(TTL + 1) /\ since[n] < Renew /\ since[n] \in 0..(TTL + 1)
        BY <2>1, <3>1, LeaseTyped DEF TypeOK
      <3>4. Older(lease.age) = lease.age + 1 /\ Older(lease.age) \in 0..(TTL + 1)
        BY <3>1, <3>3 DEF Older
      <3>5. lease' \in Leases /\ lease'.holder = n /\ lease'.age = lease.age + 1
        BY <3>1, <3>2, <3>4 DEF Leases
      <3>6. Readable'
        BY <3>5, FailoverAssumption DEF Readable, Leases
      <3>. QED BY <2>2, <3>1, <3>3, <3>5, <3>6
    <2>. QED BY <2>1, <2>2, <2>3 DEF Punctual, Exclusive, Backed
  <1>8. CASE UNCHANGED vars
    BY <1>8 DEF vars, Punctual, Exclusive, Backed, Readable
  <1>. QED BY CalmStep, <1>1, <1>2, <1>3, <1>4, <1>5, <1>6, <1>7, <1>8 DEF Next, HeartbeatStep

(* While heartbeats have not overlapped, none has failed to read a lease     *)
(* that was there and no running node has stalled, no two nodes are primary, for every lifetime and every renewal period up to it,   *)
(* also while a node dies half way through a write or fails to write         *)
(* (failover/coordinator.py:67-94, 138-147).                                 *)
THEOREM OnePrimary == Spec => []AtMostOnePrimary
  <1>1. Init => IInv
    BY TypeInit, FailoverAssumption DEF Init, IInv, Punctual, Exclusive, Backed
  <1>2. IInv => AtMostOnePrimary
    BY DEF IInv, Calm, Exclusive, Backed, AtMostOnePrimary, Primaries
  <1>. QED BY PrimaryStep, <1>1, <1>2, PTL DEF Spec

-----------------------------------------------------------------------------
(* Two primaries, but not for long.  A primary that lost its lease did so to *)
(* one it raced with or that could not read it, so the lease in the file is  *)
(* as young as its heartbeat; only the holder of a lease that young passes a *)
(* heartbeat that can read it, until the loser makes its own and yields.     *)

(* No running node has stalled. *)
Sound == "stall" \notin mishaps

(* A heartbeat takes no time. *)
Instant == \A n \in Nodes : pc[n] # "idle" => up[n] /\ since[n] = 0

(* The lease in the file is as young as every primary's heartbeat, or it is *)
(* being rewritten.                                                         *)
YoungLease ==
    \A n \in Nodes : primary[n] =>
        /\ up[n]
        /\ pc[n] = "idle" => lease = Torn \/ (Readable /\ lease.age <= since[n])

(* A primary that is not the holder of the lease. *)
Deposed(n) == primary[n] /\ pc[n] = "idle" /\ ~(Readable /\ lease.holder = n)

(* Two primaries are no older than the last heartbeat of one that is deposed, *)
(* and meanwhile one node at most gets past its decision.                     *)
Outlived == \A n \in Nodes : Deposed(n) => dual <= since[n]

OneWriter ==
    dual > 0 => \E h \in Nodes :
        /\ \A n \in Nodes \ {h} : pc[n] = "idle"
        /\ lease = Torn \/ (Fresh /\ lease.holder = h)

DualInv ==
    /\ TypeOK
    /\ Sound => Punctual /\ Instant /\ YoungLease /\ Outlived /\ OneWriter /\ dual <= Renew

LEMMA SoundStep ==
    ASSUME [Next]_vars, Sound'
    PROVE  /\ Sound
           /\ Tick => \A n \in Nodes : Prompt(n)
  <1>1. ASSUME NEW n \in Nodes, Heartbeat(n) \/ HeartbeatBlind(n) PROVE Sound
    BY <1>1 DEF Heartbeat, HeartbeatBlind, Encountered, Sound
  <1>2. ASSUME Tick PROVE Sound /\ \A n \in Nodes : Prompt(n)
    BY <1>2 DEF Tick, Sound
  <1>3. ASSUME NEW n \in Nodes, Truncate(n) \/ WriteLease(n) \/ FailToWrite(n) PROVE Sound
    BY <1>3 DEF Truncate, WriteLease, FailToWrite, Sound
  <1>4. ASSUME NEW n \in Nodes, Crash(n) \/ Restart(n) PROVE Sound
    BY <1>4 DEF Crash, Restart, Sound
  <1>5. ASSUME UNCHANGED vars PROVE Sound
    BY <1>5 DEF vars, Sound
  <1>. QED BY <1>1, <1>2, <1>3, <1>4, <1>5 DEF Next, HeartbeatStep

(* More than one primary are at least two. *)
LEMMA TwoPrimaries ==
    ASSUME Cardinality(Primaries) > 1
    PROVE  \E m, n \in Nodes : m # n /\ primary[m] /\ primary[n]
  <1>1. SUFFICES ASSUME \A m, n \in Primaries : m = n PROVE FALSE
    BY DEF Primaries
  <1>2. Primaries = {} \/ \E n : Primaries = {n}
    BY <1>1
  <1>3. Cardinality(Primaries) \in {0, 1}
    <2>1. CASE Primaries = {}
      BY <2>1, FS_EmptySet
    <2>2. CASE \E n : Primaries = {n}
      BY <2>2, FS_Singleton
    <2>. QED BY <1>2, <2>1, <2>2
  <1>. QED BY <1>3

LEMMA DualStep == DualInv /\ [Next]_vars => DualInv'
  <1> SUFFICES ASSUME DualInv, [Next]_vars, Sound'
               PROVE  Punctual' /\ Instant' /\ YoungLease' /\ Outlived' /\ OneWriter' /\ dual' <= Renew
    BY TypeStep DEF DualInv
  <1>0. /\ TypeOK /\ Punctual /\ Instant /\ YoungLease /\ Outlived /\ OneWriter /\ dual <= Renew
        /\ Renew \in Nat /\ TTL \in Nat /\ Renew <= TTL /\ dual \in Nat
    BY SoundStep, FailoverAssumption DEF DualInv, TypeOK
  <1> USE <1>0
  <1>1. ASSUME NEW n \in Nodes, Heartbeat(n) \/ HeartbeatBlind(n)
        PROVE  Punctual' /\ Instant' /\ YoungLease' /\ Outlived' /\ OneWriter' /\ dual' <= Renew
    <2>0. PICK yields \in {Yields(n), FALSE} :
            Begin(n, yields) /\ (dual' = 0 \/ (dual' = dual /\ lease # Torn /\ yields = Yields(n)))
      BY <1>1 DEF Heartbeat, HeartbeatBlind
    <2>1. /\ up[n] /\ pc[n] = "idle" /\ up' = up /\ lease' = lease
          /\ \A m \in Nodes \ {n} : pc'[m] = pc[m] /\ since'[m] = since[m] /\ primary'[m] = primary[m]
          /\ since'[n] = 0
      BY <2>0 DEF Begin, Demote, TypeOK
    <2>2. \/ yields /\ pc'[n] = "idle" /\ ~primary'[n]
          \/ ~yields /\ pc'[n] = "writing" /\ primary' = primary
      BY <2>0, <2>1 DEF Begin, Demote, TypeOK
    <2>3. Punctual' /\ Instant'
      BY <2>1, <2>2 DEF Punctual, Instant
    <2>4. YoungLease'
      BY <2>1, <2>2 DEF YoungLease, Readable
    <2>5. CASE dual' = 0
      <3>1. \A m \in Nodes : since'[m] >= 0
        BY <2>1 DEF TypeOK
      <3>2. Outlived' /\ OneWriter'
        BY <2>5, <3>1 DEF Outlived, OneWriter
      <3>. QED BY <2>3, <2>4, <2>5, <3>2
    <2>6. CASE dual' = dual /\ lease # Torn /\ yields = Yields(n)
      <3>1. Outlived'
        BY <2>1, <2>2, <2>6 DEF Outlived, Deposed, Readable
      <3>2. OneWriter'
        <4> SUFFICES ASSUME dual > 0 PROVE OneWriter'
          BY <2>6 DEF OneWriter
        <4>1. PICK h \in Nodes : /\ \A m \in Nodes \ {h} : pc[m] = "idle"
                                /\ (lease = Torn \/ (Fresh /\ lease.holder = h))
          BY DEF OneWriter
        <4>2. Fresh' /\ lease'.holder = h
          BY <2>1, <2>6, <4>1 DEF Fresh, Readable
        <4>3. n = h \/ yields
          BY <2>6, <4>1 DEF Yields
        <4>4. \A m \in Nodes \ {h} : pc'[m] = "idle"
          BY <2>1, <2>2, <4>1, <4>3
        <4>. QED BY <4>2, <4>4 DEF OneWriter
      <3>. QED BY <2>3, <2>4, <2>6, <3>1, <3>2
    <2>. QED BY <2>0, <2>5, <2>6
  <1>2. ASSUME NEW n \in Nodes, Truncate(n)
        PROVE  Punctual' /\ Instant' /\ YoungLease' /\ Outlived' /\ OneWriter' /\ dual' <= Renew
    <2>1. /\ pc[n] = "writing" /\ pc'[n] = "truncated" /\ lease' = Torn
          /\ \A m \in Nodes \ {n} : pc'[m] = pc[m]
          /\ up' = up /\ primary' = primary /\ since' = since /\ dual' = dual
      BY <1>2 DEF Truncate, TypeOK
    <2>2. Punctual' /\ Instant' /\ YoungLease'
      BY <2>1 DEF Punctual, Instant, YoungLease
    <2>3. OneWriter'
      BY <2>1 DEF OneWriter
    <2>4. Outlived'
      <3> SUFFICES ASSUME NEW m \in Nodes, primary[m], pc'[m] = "idle"
                   PROVE  dual <= since[m]
        BY <2>1 DEF Outlived, Deposed
      <3>1. m # n /\ pc[m] = "idle" /\ since[m] \in Nat
        BY <2>1 DEF TypeOK
      <3>2. CASE dual = 0
        BY <3>1, <3>2
      <3>3. CASE dual > 0
        <4>1. lease = Torn \/ (Readable /\ lease.holder = n)
          BY <2>1, <3>3 DEF OneWriter, Fresh
        <4>2. Deposed(m)
          BY <3>1, <4>1 DEF Deposed, Readable
        <4>. QED BY <4>2 DEF Outlived
      <3>. QED BY <3>2, <3>3
    <2>. QED BY <2>1, <2>2, <2>3, <2>4
  <1>3. ASSUME NEW n \in Nodes, WriteLease(n)
        PROVE  Punctual' /\ Instant' /\ YoungLease' /\ Outlived' /\ OneWriter' /\ dual' <= Renew
    <2>1. /\ pc[n] = "truncated" /\ pc'[n] = "idle" /\ primary'[n] /\ up[n] /\ since[n] = 0
          /\ \A m \in Nodes \ {n} : pc'[m] = pc[m] /\ primary'[m] = primary[m]
          /\ up' = up /\ since' = since /\ dual' = dual
          /\ lease' = [holder |-> n, age |-> 0]
      BY <1>3 DEF WriteLease, Signed, TypeOK, Instant
    <2>2. Readable' /\ lease'.holder = n /\ lease'.age = 0
      <3>1. lease' \in Leases
        BY <2>1 DEF Leases
      <3>. QED BY <2>1, <3>1, FailoverAssumption DEF Readable, Leases
    <2>3. Punctual' /\ Instant'
      BY <2>1 DEF Punctual, Instant
    <2>4. YoungLease'
      BY <2>1, <2>2 DEF YoungLease, TypeOK
    <2>5. OneWriter'
      <3>1. Fresh'
        BY <2>2 DEF Fresh
      <3>. QED BY <2>1, <2>2, <3>1 DEF OneWriter
    <2>6. Outlived'
      <3> SUFFICES ASSUME NEW m \in Nodes, m # n, primary[m], pc[m] = "idle"
                   PROVE  dual <= since[m]
        BY <2>1, <2>2 DEF Outlived, Deposed
      <3>1. since[m] \in Nat
        BY DEF TypeOK
      <3>2. CASE dual = 0
        BY <3>1, <3>2
      <3>3. CASE dual > 0
        <4>1. lease = Torn \/ (Readable /\ lease.holder = n)
          BY <2>1, <3>3 DEF OneWriter, Fresh
        <4>2. Deposed(m)
          BY <4>1 DEF Deposed, Readable
        <4>. QED BY <4>2 DEF Outlived
      <3>. QED BY <3>2, <3>3
    <2>. QED BY <2>1, <2>3, <2>4, <2>5, <2>6
  <1>4. ASSUME NEW n \in Nodes, FailToWrite(n) \/ Crash(n)
        PROVE  Punctual' /\ Instant' /\ YoungLease' /\ Outlived' /\ OneWriter' /\ dual' <= Renew
    <2>1. /\ pc'[n] = "idle" /\ ~primary'[n] /\ (up'[n] => up[n])
          /\ \A m \in Nodes \ {n} : pc'[m] = pc[m] /\ primary'[m] = primary[m] /\ up'[m] = up[m]
          /\ lease' = lease /\ since' = since /\ dual' = dual
      BY <1>4 DEF FailToWrite, Crash, Demote, TypeOK
    <2>2. Punctual' /\ Instant' /\ YoungLease'
      BY <2>1 DEF Punctual, Instant, YoungLease, Readable
    <2>3. Outlived' /\ OneWriter'
      BY <2>1 DEF Outlived, Deposed, OneWriter, Fresh, Readable
    <2>. QED BY <2>1, <2>2, <2>3
  <1>5. ASSUME NEW n \in Nodes, Restart(n)
        PROVE  Punctual' /\ Instant' /\ YoungLease' /\ Outlived' /\ OneWriter' /\ dual' <= Renew
    <2>1. /\ ~up[n] /\ up'[n] /\ since'[n] = Renew
          /\ \A m \in Nodes \ {n} : up'[m] = up[m] /\ since'[m] = since[m]
          /\ lease' = lease /\ primary' = primary /\ pc' = pc /\ dual' = dual
      BY <1>5 DEF Restart, TypeOK
    <2>2. ~primary[n] /\ pc[n] = "idle"
      BY <2>1 DEF YoungLease, Instant, TypeOK
    <2>3. Punctual' /\ Instant' /\ YoungLease'
      BY <2>1, <2>2 DEF Punctual, Instant, YoungLease, Readable
    <2>4. Outlived' /\ OneWriter'
      BY <2>1, <2>2 DEF Outlived, Deposed, OneWriter, Fresh, Readable
    <2>. QED BY <2>1, <2>3, <2>4
  <1>6. CASE Tick
    <2>1. /\ \A n \in Nodes : pc[n] = "idle" /\ (up[n] => since[n] < Renew)
          /\ up' = up /\ primary' = primary /\ pc' = pc
          /\ \A n \in Nodes : since'[n] = Older(since[n])
      BY <1>6, SoundStep DEF Tick, Prompt
    <2>2. ASSUME NEW n \in Nodes, up[n] PROVE since'[n] = since[n] + 1 /\ since'[n] <= Renew
      BY <2>1, <2>2 DEF Older, TypeOK
    <2>3. Punctual' /\ Instant'
      BY <2>1, <2>2 DEF Punctual, Instant
    <2>4. ASSUME NEW n \in Nodes, primary[n]
          PROVE  \/ lease = Torn /\ lease' = Torn
                 \/ /\ Readable /\ Readable' /\ lease'.holder = lease.holder
                    /\ lease'.age <= since'[n] /\ Fresh'
      <3>1. CASE lease = Torn
        BY <1>6, <3>1 DEF Tick, Readable
      <3>2. CASE lease # Torn
        <4>1. Readable /\ lease.age <= since[n] /\ up[n]
          BY <2>1, <2>4, <3>2 DEF YoungLease
        <4>2. lease' = [lease EXCEPT !.age = Older(lease.age)] /\ lease \in Leases
          BY <1>6, <4>1, LeaseTyped DEF Tick
        <4>3. lease.age \in 0..(TTL + 1) /\ since[n] < Renew /\ since[n] \in 0..(TTL + 1)
          BY <2>1, <4>1, LeaseTyped DEF TypeOK
        <4>4. Older(lease.age) = lease.age + 1 /\ Older(lease.age) \in 0..(TTL + 1)
          BY <4>1, <4>3 DEF Older
        <4>5. lease' \in Leases /\ lease'.holder = lease.holder /\ lease'.age = lease.age + 1
          BY <4>2, <4>4 DEF Leases
        <4>6. Readable'
          BY <4>5, FailoverAssumption DEF Readable, Leases
        <4>7. lease'.age <= since'[n] /\ lease'.age <= TTL
          BY <2>2, <4>1, <4>3, <4>5
        <4>. QED BY <4>1, <4>5, <4>6, <4>7 DEF Fresh
      <3>. QED BY <3>1, <3>2
    <2>5. YoungLease'
      BY <2>1, <2>4 DEF YoungLease
    <2>6. dual' = IF Cardinality(Primaries) > 1 THEN Older(dual) ELSE 0
      BY <1>6 DEF Tick
    <2>7. CASE Cardinality(Primaries) > 1
      <3>1. Older(dual) = dual + 1
        BY DEF Older
      <3>2. PICK m \in Nodes, n \in Nodes : m # n /\ primary[m] /\ primary[n]
        BY <2>7, TwoPrimaries
      <3>3. PICK p \in Nodes : Deposed(p)
        BY <2>1, <3>2 DEF Deposed
      <3>4. dual' <= Renew
        <4>1. up[p] /\ since[p] < Renew /\ dual <= since[p] /\ since[p] \in Nat
          BY <2>1, <3>3 DEF Deposed, Outlived, YoungLease, TypeOK
        <4>. QED BY <2>6, <2>7, <3>1, <4>1
      <3>5. Outlived'
        <4> SUFFICES ASSUME NEW q \in Nodes, Deposed(q)' PROVE dual' <= since'[q]
          BY DEF Outlived
        <4>1. primary[q] /\ pc[q] = "idle" /\ up[q]
          BY <2>1 DEF Deposed, YoungLease
        <4>2. Deposed(q)
          BY <2>4, <4>1 DEF Deposed, Readable
        <4>3. dual <= since[q] /\ since'[q] = since[q] + 1 /\ since[q] \in Nat
          BY <2>2, <4>1, <4>2 DEF Outlived, TypeOK
        <4>. QED BY <2>6, <2>7, <3>1, <4>3
      <3>6. OneWriter'
        <4>1. PICK h \in Nodes : lease' = Torn \/ (Fresh' /\ lease'.holder = h)
          <5>1. CASE lease' = Torn
            BY <5>1, <3>2
          <5>2. CASE lease' # Torn
            BY <5>2, <2>4, <3>2, LeaseTyped
          <5>. QED BY <5>1, <5>2
        <4>. QED BY <2>1, <4>1 DEF OneWriter
      <3>. QED BY <2>3, <2>5, <3>4, <3>5, <3>6
    <2>8. CASE ~(Cardinality(Primaries) > 1)
      <3>1. dual' = 0
        BY <2>6, <2>8
      <3>2. \A n \in Nodes : since'[n] \in 0..(TTL + 1)
        BY <2>1, OlderTyped DEF TypeOK
      <3>3. Outlived' /\ OneWriter' /\ dual' <= Renew
        BY <3>1, <3>2 DEF Outlived, OneWriter
      <3>. QED BY <2>3, <2>5, <3>3
    <2>. QED BY <2>7, <2>8
  <1>7. CASE UNCHANGED vars
    BY <1>7 DEF vars, Punctual, Instant, YoungLease, Outlived, OneWriter, Deposed, Fresh, Readable
  <1>. QED BY <1>1, <1>2, <1>3, <1>4, <1>5, <1>6, <1>7 DEF Next, HeartbeatStep

(* When heartbeats race for an expired lease, or take a good one they cannot *)
(* read, several nodes may win it; never for longer than one renewal period  *)
(* after the last that found no legible lease, for any number of nodes,      *)
(* whoever crashes, restarts or fails to write, unless a node is suspended   *)
(* (failover/coordinator.py:67-94, 126-147).                                 *)
THEOREM RacesAreShort == Spec => []LeasesHold
  <1>1. Init => DualInv
    <2> SUFFICES ASSUME Init PROVE DualInv
      OBVIOUS
    <2>1. dual = 0 /\ \A n \in Nodes : ~primary[n] /\ pc[n] = "idle" /\ since[n] = Renew
      BY DEF Init
    <2>. QED
      BY <2>1, TypeInit, FailoverAssumption
      DEF DualInv, Punctual, Instant, YoungLease, Outlived, Deposed, OneWriter
  <1>2. DualInv => LeasesHold
    BY DEF DualInv, Sound, LeasesHold, DualIsShort
  <1>. QED BY DualStep, <1>1, <1>2, PTL DEF Spec

-----------------------------------------------------------------------------
(* The order of the services: whatever the wiring, the names that are in it  *)
(* come by rank, so each is there once.                                      *)

Names == {"event_bus", "cache", "notifications", "scheduler", "watchdog", "health_monitor",
          "market_writer", "collector", "market_feed", "history_writer", "performance_tracker",
          "strategy_engine", "recovery", "execution_notifier", "execution_engine", "safe_mode",
          "kill_switch", "ml_notifier", "research_notifier", "api"}

Rank(s) ==
  CASE s = "event_bus"           -> 1  [] s = "cache"              -> 2
    [] s = "notifications"       -> 3  [] s = "scheduler"          -> 4
    [] s = "watchdog"            -> 5  [] s = "health_monitor"     -> 6
    [] s = "market_writer"       -> 7  [] s = "collector"          -> 8
    [] s = "market_feed"         -> 9  [] s = "history_writer"     -> 10
    [] s = "performance_tracker" -> 11 [] s = "strategy_engine"    -> 12
    [] s = "recovery"            -> 13 [] s = "execution_notifier" -> 14
    [] s = "execution_engine"    -> 15 [] s = "safe_mode"          -> 16
    [] s = "kill_switch"         -> 17 [] s = "ml_notifier"        -> 18
    [] s = "research_notifier"   -> 19 [] s = "api"                -> 20

LEMMA RankIs ==
  /\ Rank("event_bus") = 1 /\ Rank("cache") = 2 /\ Rank("notifications") = 3 /\ Rank("scheduler") = 4
  /\ Rank("watchdog") = 5 /\ Rank("health_monitor") = 6 /\ Rank("market_writer") = 7
  /\ Rank("collector") = 8 /\ Rank("market_feed") = 9 /\ Rank("history_writer") = 10
  /\ Rank("performance_tracker") = 11 /\ Rank("strategy_engine") = 12 /\ Rank("recovery") = 13
  /\ Rank("execution_notifier") = 14 /\ Rank("execution_engine") = 15 /\ Rank("safe_mode") = 16
  /\ Rank("kill_switch") = 17 /\ Rank("ml_notifier") = 18 /\ Rank("research_notifier") = 19
  /\ Rank("api") = 20
  BY DEF Rank

LEMMA RankType == \A s \in Names : Rank(s) \in 1 .. 20 /\ Rank(s) \in Int
  BY RankIs DEF Names

\* A stretch of the order: its names by rank, above one bound and up to another.
Stretch(seq, low, high) ==
  /\ seq \in Seq(Names)
  /\ \A i \in 1 .. Len(seq) : low < Rank(seq[i]) /\ Rank(seq[i]) =< high
  /\ \A i, j \in 1 .. Len(seq) : i < j => Rank(seq[i]) < Rank(seq[j])

LEMMA Joined ==
  ASSUME NEW p, NEW q, NEW low \in Int, NEW mid \in Int, NEW high \in Int,
         Stretch(p, low, mid), Stretch(q, mid, high), low =< mid, mid =< high
  PROVE  Stretch(p \o q, low, high)
  <1>1. p \in Seq(Names) /\ q \in Seq(Names) /\ p \o q \in Seq(Names) /\ Len(p \o q) = Len(p) + Len(q)
        /\ Len(p) \in Nat /\ Len(q) \in Nat
    BY DEF Stretch
  <1>2. ASSUME NEW i \in 1 .. Len(p \o q)
        PROVE  \/ i =< Len(p) /\ i \in 1 .. Len(p) /\ (p \o q)[i] = p[i]
               \/ i > Len(p) /\ i - Len(p) \in 1 .. Len(q) /\ (p \o q)[i] = q[i - Len(p)]
    BY <1>1
  <1>3. ASSUME NEW i \in 1 .. Len(p) PROVE Rank(p[i]) \in Int /\ low < Rank(p[i]) /\ Rank(p[i]) =< mid
    <2>1. p[i] \in Names
      BY <1>1
    <2>2. Rank(p[i]) \in Int
      BY <2>1, RankType
    <2>3. low < Rank(p[i]) /\ Rank(p[i]) =< mid
      BY DEF Stretch
    <2>. QED BY <2>2, <2>3
  <1>4. ASSUME NEW i \in 1 .. Len(q) PROVE Rank(q[i]) \in Int /\ mid < Rank(q[i]) /\ Rank(q[i]) =< high
    <2>1. q[i] \in Names
      BY <1>1
    <2>2. Rank(q[i]) \in Int
      BY <2>1, RankType
    <2>3. mid < Rank(q[i]) /\ Rank(q[i]) =< high
      BY DEF Stretch
    <2>. QED BY <2>2, <2>3
  <1>5. ASSUME NEW i \in 1 .. Len(p \o q)
        PROVE  low < Rank((p \o q)[i]) /\ Rank((p \o q)[i]) =< high
    <2>1. CASE i \in 1 .. Len(p) /\ (p \o q)[i] = p[i]
      BY <1>3, <2>1
    <2>2. CASE i - Len(p) \in 1 .. Len(q) /\ (p \o q)[i] = q[i - Len(p)]
      BY <1>4, <2>2
    <2>. QED BY <1>2, <2>1, <2>2
  <1>6. ASSUME NEW i \in 1 .. Len(p \o q), NEW j \in 1 .. Len(p \o q), i < j
        PROVE  Rank((p \o q)[i]) < Rank((p \o q)[j])
    <2>1. CASE i > Len(p)
      <3>1. i - Len(p) \in 1 .. Len(q) /\ (p \o q)[i] = q[i - Len(p)]
            /\ j - Len(p) \in 1 .. Len(q) /\ (p \o q)[j] = q[j - Len(p)]
        BY <1>1, <1>2, <1>6, <2>1
      <3>2. i - Len(p) < j - Len(p)
        BY <1>1, <1>6
      <3>. QED BY <3>1, <3>2 DEF Stretch
    <2>2. CASE j =< Len(p)
      <3>1. i \in 1 .. Len(p) /\ (p \o q)[i] = p[i] /\ j \in 1 .. Len(p) /\ (p \o q)[j] = p[j]
        BY <1>1, <1>2, <1>6, <2>2
      <3>. QED BY <1>6, <3>1 DEF Stretch
    <2>3. CASE i =< Len(p) /\ j > Len(p)
      <3>1. i \in 1 .. Len(p) /\ (p \o q)[i] = p[i]
            /\ j - Len(p) \in 1 .. Len(q) /\ (p \o q)[j] = q[j - Len(p)]
        BY <1>1, <1>2, <2>3
      <3>2. Rank(p[i]) \in Int /\ Rank(p[i]) =< mid
        BY <1>3, <3>1
      <3>3. Rank(q[j - Len(p)]) \in Int /\ mid < Rank(q[j - Len(p)])
        BY <1>4, <3>1
      <3>. QED BY <3>1, <3>2, <3>3
    <2>. QED BY <1>1, <2>1, <2>2, <2>3
  <1>. QED BY <1>1, <1>5, <1>6 DEF Stretch

LEMMA NoStretch == ASSUME NEW low \in Int, NEW high \in Int PROVE Stretch(<< >>, low, high)
  <1>1. << >> \in Seq(Names) /\ Len(<< >>) = 0
    OBVIOUS
  <1>. QED BY <1>1 DEF Stretch

LEMMA Stretches ==
  /\ Stretch(CoreServices, 0, 6) /\ Stretch(MarketServices, 6, 9) /\ Stretch(QuantServices, 9, 12)
  /\ Stretch(RecoveryServices, 12, 13) /\ Stretch(ExecutionServices, 13, 15)
  /\ Stretch(GuardServices, 15, 17) /\ Stretch(LearningServices, 17, 18)
  /\ Stretch(ResearchServices, 18, 19) /\ Stretch(<<"api">>, 19, 20)
  <1>1. Stretch(CoreServices, 0, 6)
    BY RankIs DEF Stretch, Names, CoreServices
  <1>2. Stretch(MarketServices, 6, 9)
    BY RankIs DEF Stretch, Names, MarketServices
  <1>3. Stretch(QuantServices, 9, 12)
    BY RankIs DEF Stretch, Names, QuantServices
  <1>4. Stretch(RecoveryServices, 12, 13)
    BY RankIs DEF Stretch, Names, RecoveryServices
  <1>5. Stretch(ExecutionServices, 13, 15)
    BY RankIs DEF Stretch, Names, ExecutionServices
  <1>6. Stretch(GuardServices, 15, 17)
    BY RankIs DEF Stretch, Names, GuardServices
  <1>7. Stretch(LearningServices, 17, 18)
    BY RankIs DEF Stretch, Names, LearningServices
  <1>8. Stretch(ResearchServices, 18, 19)
    BY RankIs DEF Stretch, Names, ResearchServices
  <1>9. Stretch(<<"api">>, 19, 20)
    BY RankIs DEF Stretch, Names
  <1>. QED BY <1>1, <1>2, <1>3, <1>4, <1>5, <1>6, <1>7, <1>8, <1>9

LEMMA OrderIsRanked == Stretch(Order, 0, 20)
  <1> DEFINE If(s, names) == IF s \in Registered(wiring) THEN names ELSE << >>
             market == CoreServices \o If("market", MarketServices)
             quant == market \o If("quant", QuantServices)
             saved == quant \o If("production", RecoveryServices)
             trading == saved \o If("execution", ExecutionServices)
             guarded == trading \o If("production", GuardServices)
             learned == guarded \o If("ml", LearningServices)
             lab == learned \o If("research", ResearchServices)
  <1>1. Order = lab \o <<"api">>
    BY DEF Order, ServiceOrder
  <1>2. ASSUME NEW s, NEW names, NEW low \in Int, NEW high \in Int, Stretch(names, low, high)
        PROVE  Stretch(If(s, names), low, high)
    BY <1>2, NoStretch
  <1>3. Stretch(market, 0, 9)
    <2>1. Stretch(If("market", MarketServices), 6, 9)
      BY <1>2, Stretches
    <2> HIDE DEF If
    <2>. QED BY Stretches, <2>1, Joined
  <1>4. Stretch(quant, 0, 12)
    <2>1. Stretch(If("quant", QuantServices), 9, 12)
      BY <1>2, Stretches
    <2> HIDE DEF If, market
    <2>. QED BY <1>3, <2>1, Joined
  <1>5. Stretch(saved, 0, 13)
    <2>1. Stretch(If("production", RecoveryServices), 12, 13)
      BY <1>2, Stretches
    <2> HIDE DEF If, quant
    <2>. QED BY <1>4, <2>1, Joined
  <1>6. Stretch(trading, 0, 15)
    <2>1. Stretch(If("execution", ExecutionServices), 13, 15)
      BY <1>2, Stretches
    <2> HIDE DEF If, saved
    <2>. QED BY <1>5, <2>1, Joined
  <1>7. Stretch(guarded, 0, 17)
    <2>1. Stretch(If("production", GuardServices), 15, 17)
      BY <1>2, Stretches
    <2> HIDE DEF If, trading
    <2>. QED BY <1>6, <2>1, Joined
  <1>8. Stretch(learned, 0, 18)
    <2>1. Stretch(If("ml", LearningServices), 17, 18)
      BY <1>2, Stretches
    <2> HIDE DEF If, guarded
    <2>. QED BY <1>7, <2>1, Joined
  <1>9. Stretch(lab, 0, 19)
    <2>1. Stretch(If("research", ResearchServices), 18, 19)
      BY <1>2, Stretches
    <2> HIDE DEF If, learned
    <2>. QED BY <1>8, <2>1, Joined
  <1> HIDE DEF lab
  <1>. QED BY <1>1, <1>9, Stretches, Joined

\* The first services are wired whatever the settings.
Opens(seq) == seq \in Seq(Names) /\ Len(seq) >= 4 /\ seq[1] = "event_bus" /\ seq[4] = "scheduler"

LEMMA StillOpens ==
  ASSUME NEW p, NEW q \in Seq(Names), Opens(p) PROVE Opens(p \o q)
  <1>1. p \in Seq(Names) /\ Len(p) >= 4 /\ p[1] = "event_bus" /\ p[4] = "scheduler"
    BY DEF Opens
  <1>2. p \o q \in Seq(Names) /\ Len(p \o q) = Len(p) + Len(q) /\ Len(p) \in Nat /\ Len(q) \in Nat
    BY <1>1
  <1>3. (p \o q)[1] = p[1] /\ (p \o q)[4] = p[4]
    BY <1>1, <1>2
  <1>. QED BY <1>1, <1>2, <1>3 DEF Opens

LEMMA OrderOpens == Opens(Order)
  <1> DEFINE If(s, names) == IF s \in Registered(wiring) THEN names ELSE << >>
             market == CoreServices \o If("market", MarketServices)
             quant == market \o If("quant", QuantServices)
             saved == quant \o If("production", RecoveryServices)
             trading == saved \o If("execution", ExecutionServices)
             guarded == trading \o If("production", GuardServices)
             learned == guarded \o If("ml", LearningServices)
             lab == learned \o If("research", ResearchServices)
  <1>1. Order = lab \o <<"api">>
    BY DEF Order, ServiceOrder
  <1>2. ASSUME NEW s, NEW names \in Seq(Names), NEW p, Opens(p) PROVE Opens(p \o If(s, names))
    <2>1. If(s, names) \in Seq(Names)
      OBVIOUS
    <2> HIDE DEF If
    <2>. QED BY <1>2, <2>1, StillOpens
  <1>3. Opens(CoreServices)
    BY DEF Opens, Names, CoreServices
  <1>4. /\ MarketServices \in Seq(Names) /\ QuantServices \in Seq(Names)
        /\ RecoveryServices \in Seq(Names) /\ ExecutionServices \in Seq(Names)
        /\ GuardServices \in Seq(Names) /\ LearningServices \in Seq(Names)
        /\ ResearchServices \in Seq(Names) /\ <<"api">> \in Seq(Names)
    BY Stretches DEF Stretch
  <1> HIDE DEF If
  <1>5. Opens(market)
    BY <1>2, <1>3, <1>4
  <1>6. Opens(quant)
    <2> HIDE DEF market
    <2>. QED BY <1>2, <1>4, <1>5
  <1>7. Opens(saved)
    <2> HIDE DEF quant
    <2>. QED BY <1>2, <1>4, <1>6
  <1>8. Opens(trading)
    <2> HIDE DEF saved
    <2>. QED BY <1>2, <1>4, <1>7
  <1>9. Opens(guarded)
    <2> HIDE DEF trading
    <2>. QED BY <1>2, <1>4, <1>8
  <1>10. Opens(learned)
    <2> HIDE DEF guarded
    <2>. QED BY <1>2, <1>4, <1>9
  <1>11. Opens(lab)
    <2> HIDE DEF learned
    <2>. QED BY <1>2, <1>4, <1>10
  <1> HIDE DEF lab
  <1>. QED BY <1>1, <1>4, <1>11, StillOpens

LEMMA OrderIs ==
  /\ Order \in Seq(Names) /\ Len(Order) \in Nat /\ Len(Order) >= 4 /\ DOMAIN Order = 1 .. Len(Order)
  /\ \A i, j \in DOMAIN Order : i < j => Rank(Order[i]) < Rank(Order[j])
  /\ \A i, j \in DOMAIN Order : Order[i] = Order[j] => i = j
  /\ \A i \in DOMAIN Order : Order[i] \in Services
  /\ \A s \in Services : \E i \in DOMAIN Order : Order[i] = s
  /\ Services \subseteq Names
  /\ "event_bus" \in Supervised /\ "scheduler" \in Supervised
  <1>1. Order \in Seq(Names) /\ Len(Order) \in Nat /\ Len(Order) >= 4 /\ DOMAIN Order = 1 .. Len(Order)
        /\ Order[1] = "event_bus" /\ Order[4] = "scheduler"
    BY OrderOpens DEF Opens
  <1>2. \A i, j \in DOMAIN Order : i < j => Rank(Order[i]) < Rank(Order[j])
    BY <1>1, OrderIsRanked DEF Stretch
  <1>3. ASSUME NEW i \in DOMAIN Order, NEW j \in DOMAIN Order, Order[i] = Order[j] PROVE i = j
    <2>1. Order[i] \in Names /\ Rank(Order[i]) \in 1 .. 20
      BY <1>1, RankType
    <2>2. ~(i < j) /\ ~(j < i)
      BY <1>2, <1>3, <2>1
    <2>. QED BY <1>1, <2>2
  <1>4. \A i \in DOMAIN Order : Order[i] \in Services
    BY DEF Services, Range
  <1>5. \A s \in Services : \E i \in DOMAIN Order : Order[i] = s
    BY DEF Services, Range
  <1>6. Services \subseteq Names
    BY <1>1, <1>5
  <1>7. "event_bus" \in Supervised /\ "scheduler" \in Supervised
    BY <1>1, <1>4 DEF Supervised
  <1>. QED BY <1>1, <1>2, <1>3, <1>4, <1>5, <1>6, <1>7

-----------------------------------------------------------------------------
(* Every step keeps the shapes.                                              *)

Shaped ==
  /\ wiring \in Wirings
  /\ state \in [Services -> States] /\ working \in [Services -> BOOLEAN]
  /\ engine \in [pc : {"starting", "in_start", "aborted", "up", "stopping", "in_stop", "down"}, at : Nat]
  /\ engine.pc \in {"starting", "up"} => engine.at \in 1 .. Len(Order) + 1
  /\ engine.pc \in {"in_start", "in_stop", "aborted"} => engine.at \in DOMAIN Order
  /\ engine.pc \in {"stopping", "down"} => engine.at =< Len(Order)
  /\ dog \in [pc : {"off", "asleep", "scanning", "in_stop", "in_start"},
              at : Supervised \union {"none"}, late : SUBSET Supervised]
  /\ Restarting => dog.at \in Supervised
  /\ status \in [Supervised -> {"unregistered", "ok", "frozen", "restarting", "exhausted"}]
  /\ restarts \in [Supervised -> 0 .. MaxRestarts]
  /\ age \in [Supervised -> 0 .. (Silence + 1)]
  /\ monitor \in [last : {"healthy", "unhealthy"}, shown : {"healthy", "unhealthy"}]
  /\ live \subseteq Jobs(wiring)
  /\ upsets \in 0 .. MaxUpsets[wiring]
  /\ causes \subseteq Supervised \union {"crossed", "stalled", "lost_cancel", "watchdog"}

LEMMA Constants ==
  /\ Silence \in Nat \ {0} /\ MaxRestarts \in Nat
  /\ \A w \in Wirings : MaxUpsets[w] \in Nat
  BY SupervisionAssumption

LEMMA SameOrder ==
  ASSUME wiring' = wiring
  PROVE  Order' = Order /\ Services' = Services /\ Supervised' = Supervised /\ Jobs(wiring)' = Jobs(wiring)
  BY DEF Order, Services, Supervised

\* The component the scan turns to next is the first late one.
LEMMA NextIsLate ==
  ASSUME Shaped, dog.late # {} PROVE NextLate \in dog.late
  <1>1. PICK s \in dog.late : s \in Services
    BY DEF Shaped, Supervised
  <1> DEFINE marks == {i \in 1 .. Len(Order) : Order[i] \in dog.late}
  <1>2. marks # {} /\ marks \subseteq Nat
    BY <1>1, OrderIs
  <1>3. PICK i \in marks : \A j \in marks : i =< j
    BY <1>2, LeastIn
  <1>4. i \in DOMAIN Order /\ Order[i] \in dog.late /\ \A j \in 1 .. (i - 1) : Order[j] \notin dog.late
    <2>1. i \in DOMAIN Order /\ Order[i] \in dog.late /\ i \in 1 .. Len(Order) /\ Len(Order) \in Nat
      BY OrderIs
    <2>2. ASSUME NEW j \in 1 .. (i - 1), Order[j] \in dog.late PROVE FALSE
      <3>1. j \in 1 .. Len(Order) /\ j < i
        BY <2>1
      <3>2. j \in marks
        BY <2>2, <3>1
      <3>. QED BY <1>2, <1>3, <3>1, <3>2
    <2>. QED BY <2>1, <2>2
  <1>. QED BY <1>4 DEF NextLate

\* What the hooks of a service do.
LEMMA StartShapes ==
  ASSUME Shaped, wiring' = wiring, NEW s \in Supervised \union {"watchdog"}, s \in Services,
         NEW ok \in BOOLEAN, NEW lives \in BOOLEAN, EndStart(s, ok, lives)
  PROVE  /\ state' \in [Services -> States] /\ working' \in [Services -> BOOLEAN]
         /\ live' \subseteq Jobs(wiring) /\ upsets' \in 0 .. MaxUpsets[wiring]
         /\ causes' \subseteq Supervised \union {"crossed", "stalled", "lost_cancel", "watchdog"}
         /\ \A t \in Services : t # s => state'[t] = state[t] /\ working'[t] = working[t]
         /\ state'[s] = (IF ok THEN "running" ELSE "failed") /\ working'[s] = lives
         /\ causes \subseteq causes' /\ (~ok => s \in causes')
  <1>1. state' \in [Services -> States] /\ working' \in [Services -> BOOLEAN]
    BY DEF EndStart, Shaped, States
  <1>2. live' \subseteq Jobs(wiring)
    BY DEF EndStart, Shaped
  <1>3. upsets' \in 0 .. MaxUpsets[wiring]
    <2>1. MaxUpsets[wiring] \in Nat /\ upsets \in Nat
      BY Constants DEF Shaped
    <2>. QED BY <2>1 DEF EndStart
  <1>4. causes' \subseteq Supervised \union {"crossed", "stalled", "lost_cancel", "watchdog"}
    BY DEF EndStart, Shaped
  <1>5. \A t \in Services : t # s => state'[t] = state[t] /\ working'[t] = working[t]
    BY DEF EndStart, Shaped
  <1>6. state'[s] = (IF ok THEN "running" ELSE "failed") /\ working'[s] = lives
    BY DEF EndStart, Shaped
  <1>7. causes \subseteq causes' /\ (~ok => s \in causes')
    BY DEF EndStart
  <1>. QED BY <1>1, <1>2, <1>3, <1>4, <1>5, <1>6, <1>7

LEMMA EngineIs ==
  ASSUME Shaped
  PROVE  \A p \in {"starting", "in_start", "aborted", "up", "stopping", "in_stop", "down"} :
           /\ [engine EXCEPT !.pc = p] = [pc |-> p, at |-> engine.at]
           /\ [engine EXCEPT !.at = @ - 1] = [pc |-> engine.pc, at |-> engine.at - 1]
  BY DEF Shaped

LEMMA DogIs ==
  ASSUME Shaped
  PROVE  /\ \A p \in {"in_stop", "in_start"} :
              [dog EXCEPT !.pc = p] = [pc |-> p, at |-> dog.at, late |-> dog.late]
         /\ \A set : [dog EXCEPT !.late = set] = [pc |-> dog.pc, at |-> dog.at, late |-> set]
  BY DEF Shaped

LEMMA ShapedBegins == ProcessInit => Shaped
  <1> SUFFICES ASSUME ProcessInit PROVE Shaped
    OBVIOUS
  <1>1. Len(Order) \in Nat /\ MaxUpsets[wiring] \in Nat /\ Silence \in Nat /\ MaxRestarts \in Nat
    BY OrderIs, Constants DEF ProcessInit
  <1>2. ~Restarting
    BY DEF ProcessInit, Off, Restarting
  <1>. QED BY <1>1, <1>2 DEF ProcessInit, Shaped, States, Off

LEMMA EngineKeepsShapes == Shaped /\ EngineSteps => Shaped'
  <1> SUFFICES ASSUME Shaped, EngineSteps PROVE Shaped'
    OBVIOUS
  <1>0. /\ wiring' = wiring
        /\ Order' = Order /\ Services' = Services /\ Supervised' = Supervised
        /\ Jobs(wiring)' = Jobs(wiring)
    <2>1. wiring' = wiring
      BY DEF EngineSteps, EngineBeginsStart, EngineRegisters, EngineBeginsStop, EngineEndsStop, EngineDown,
             EngineEndsStart
    <2>. QED BY <2>1, SameOrder
  <1>1. /\ Len(Order) \in Nat /\ DOMAIN Order = 1 .. Len(Order)
        /\ \A i \in DOMAIN Order : Order[i] \in Services
    BY OrderIs
  <1>2. CASE EngineBeginsStart
    <2>1. /\ engine.at \in DOMAIN Order /\ engine' = [pc |-> "in_start", at |-> engine.at]
          /\ state' \in [Services -> States] /\ Restarting' = Restarting
      BY <1>1, <1>2, EngineIs DEF EngineBeginsStart, Shaped, BeginStart, States, Restarting
    <2>. QED BY <1>0, <1>1, <1>2, <2>1 DEF EngineBeginsStart, Shaped
  <1>3. CASE \E ok \in BOOLEAN : EngineEndsStart(ok)
    <2>1. PICK ok \in BOOLEAN : EngineEndsStart(ok)
      BY <1>3
    <2>2. PICK s : s = Order[engine.at]
      OBVIOUS
    <2>3. engine.at \in DOMAIN Order /\ s \in Services /\ s \in Supervised \union {"watchdog"}
      BY <1>1, <2>1, <2>2 DEF EngineEndsStart, Shaped, Supervised
    <2>4. EndStart(s, ok, ok)
      BY <2>1, <2>2 DEF EngineEndsStart
    <2>5. /\ state' \in [Services -> States] /\ working' \in [Services -> BOOLEAN]
          /\ live' \subseteq Jobs(wiring) /\ upsets' \in 0 .. MaxUpsets[wiring]
          /\ causes' \subseteq Supervised \union {"crossed", "stalled", "lost_cancel", "watchdog"}
      BY <1>0, <2>3, <2>4, StartShapes
    <2>6. /\ engine' = (IF ok THEN [pc |-> "starting", at |-> engine.at + 1]
                        ELSE [pc |-> "aborted", at |-> engine.at])
          /\ engine.at + 1 \in 1 .. Len(Order) + 1 /\ engine.at \in Nat
      BY <1>1, <2>1, <2>3, EngineIs DEF EngineEndsStart
    <2>7. dog' = Asleep \/ dog' = dog
      BY <2>1 DEF EngineEndsStart
    <2>8. UNCHANGED <<wiring, status, restarts, age, monitor>>
      BY <2>1 DEF EngineEndsStart
    <2>9. /\ dog' \in [pc : {"off", "asleep", "scanning", "in_stop", "in_start"},
                       at : Supervised \union {"none"}, late : SUBSET Supervised]
          /\ Restarting' => dog'.at \in Supervised
      BY <2>7 DEF Asleep, Restarting, Shaped
    <2>10. /\ engine' \in [pc : {"starting", "in_start", "aborted", "up", "stopping", "in_stop", "down"},
                           at : Nat]
           /\ engine'.pc \in {"starting", "up"} => engine'.at \in 1 .. Len(Order) + 1
           /\ engine'.pc \in {"in_start", "in_stop", "aborted"} => engine'.at \in DOMAIN Order
           /\ engine'.pc \in {"stopping", "down"} => engine'.at =< Len(Order)
      BY <1>1, <2>3, <2>6
    <2>. QED BY <1>0, <2>5, <2>8, <2>9, <2>10 DEF Shaped
  <1>4. CASE EngineRegisters
    <2>1. engine' = [pc |-> "up", at |-> engine.at] /\ Restarting' = Restarting
      BY <1>4, EngineIs DEF EngineRegisters, Restarting
    <2>2. 0 \in 0 .. (Silence + 1)
      BY Constants
    <2>. QED BY <1>0, <1>1, <1>4, <2>1, <2>2 DEF EngineRegisters, Shaped
  <1>5. CASE EngineBeginsStop
    <2>1. engine.at \in DOMAIN Order /\ engine.at - 1 \in Nat /\ engine.at - 1 =< Len(Order)
      BY <1>1, <1>5 DEF EngineBeginsStop, Shaped
    <2>2. /\ \/ engine' = [pc |-> "in_stop", at |-> engine.at]
             \/ engine' = [pc |-> "stopping", at |-> engine.at - 1]
          /\ state' \in [Services -> States] /\ live' \subseteq Jobs(wiring) /\ Restarting' = Restarting
          /\ causes' \subseteq Supervised \union {"crossed", "stalled", "lost_cancel", "watchdog"}
      BY <1>5, EngineIs DEF EngineBeginsStop, BeginStop, States, Restarting, Shaped
    <2>3. UNCHANGED <<wiring, working, dog, status, restarts, age, monitor, upsets>>
      BY <1>5 DEF EngineBeginsStop
    <2>. QED BY <1>0, <1>1, <2>1, <2>2, <2>3 DEF Shaped
  <1>6. CASE EngineEndsStop
    <2>1. /\ engine.at \in DOMAIN Order /\ engine.at - 1 \in Nat /\ engine.at - 1 =< Len(Order)
          /\ engine' = [pc |-> "stopping", at |-> engine.at - 1] /\ Restarting' = Restarting
          /\ state' \in [Services -> States]
      BY <1>1, <1>6 DEF EngineEndsStop, EndStop, States, Restarting, Shaped
    <2>2. UNCHANGED <<wiring, working, dog, status, restarts, age, monitor, live, upsets, causes>>
      BY <1>6 DEF EngineEndsStop
    <2>. QED BY <1>0, <1>1, <2>1, <2>2 DEF Shaped
  <1>7. CASE EngineDown
    <2>1. engine' = [pc |-> "down", at |-> engine.at] /\ engine.at = 0 /\ Restarting' = Restarting
      BY <1>7, EngineIs DEF EngineDown, Restarting
    <2>. QED BY <1>0, <1>1, <1>7, <2>1 DEF EngineDown, Shaped
  <1>. QED BY <1>2, <1>3, <1>4, <1>5, <1>6, <1>7 DEF EngineSteps

LEMMA DogKeepsShapes == Shaped /\ DogSteps => Shaped'
  <1> SUFFICES ASSUME Shaped, DogSteps PROVE Shaped'
    OBVIOUS
  <1>0. /\ wiring' = wiring
        /\ Order' = Order /\ Services' = Services /\ Supervised' = Supervised
        /\ Jobs(wiring)' = Jobs(wiring)
    <2>1. wiring' = wiring
      BY DEF DogSteps, Scan, Visit, ScanEnds, RestartBetween, RestartEnds, Cancelled
    <2>. QED BY <2>1, SameOrder
  <1>1. Supervised \subseteq Services
    BY DEF Supervised
  <1>2. CASE Scan
    BY <1>0, <1>2 DEF Scan, Shaped, Overdue, Restarting
  <1>3. CASE Visit
    <2>1. PICK s \in Supervised : s = NextLate
      BY <1>3, NextIsLate DEF Visit, Shaped
    <2>2. /\ \/ /\ status' = [status EXCEPT ![s] = "exhausted"]
                /\ UNCHANGED <<state, restarts, live>>
             \/ /\ restarts[s] < MaxRestarts /\ status' = [status EXCEPT ![s] = "restarting"]
                /\ restarts' = [restarts EXCEPT ![s] = @ + 1]
                /\ BeginStop(s) \/ (BeginStart(s) /\ UNCHANGED live)
      BY <1>3, <2>1 DEF Visit, BudgetLeft
    <2>3. /\ status' \in [Supervised -> {"unregistered", "ok", "frozen", "restarting", "exhausted"}]
          /\ restarts' \in [Supervised -> 0 .. MaxRestarts]
          /\ state' \in [Services -> States] /\ live' \subseteq Jobs(wiring)
      <3>1. CASE UNCHANGED <<state, restarts, live>> /\ status' = [status EXCEPT ![s] = "exhausted"]
        BY <3>1 DEF Shaped
      <3>2. CASE /\ restarts[s] < MaxRestarts /\ status' = [status EXCEPT ![s] = "restarting"]
                 /\ restarts' = [restarts EXCEPT ![s] = @ + 1]
                 /\ BeginStop(s) \/ (BeginStart(s) /\ UNCHANGED live)
        <4>1. restarts[s] + 1 \in 0 .. MaxRestarts
          BY <3>2, Constants DEF Shaped
        <4>2. ASSUME BeginStop(s)
              PROVE  state' \in [Services -> States] /\ live' \subseteq Jobs(wiring)
          BY <1>1, <4>2 DEF BeginStop, States, Shaped
        <4>3. ASSUME BeginStart(s), UNCHANGED live
              PROVE  state' \in [Services -> States] /\ live' \subseteq Jobs(wiring)
          BY <1>1, <4>3 DEF BeginStart, States, Shaped
        <4>4. state' \in [Services -> States] /\ live' \subseteq Jobs(wiring)
          BY <3>2, <4>2, <4>3
        <4>. QED BY <3>2, <4>1, <4>4 DEF Shaped
      <3>. QED BY <2>2, <3>1, <3>2
    <2>4. \/ dog' = [pc |-> dog.pc, at |-> dog.at, late |-> dog.late \ {s}] /\ dog.pc = "scanning"
          \/ dog' = [pc |-> "in_stop", at |-> s, late |-> dog.late \ {s}]
          \/ dog' = [pc |-> "in_start", at |-> s, late |-> dog.late \ {s}]
      BY <1>3, <2>1, DogIs DEF Visit
    <2>5. /\ causes' \subseteq Supervised \union {"crossed", "stalled", "lost_cancel", "watchdog"}
          /\ UNCHANGED <<wiring, working, engine, age, monitor, upsets>>
      BY <1>3 DEF Visit, Shaped
    <2>6. /\ dog' \in [pc : {"off", "asleep", "scanning", "in_stop", "in_start"},
                       at : Supervised \union {"none"}, late : SUBSET Supervised]
          /\ Restarting' => dog'.at \in Supervised
      BY <2>4 DEF Restarting, Shaped
    <2>. QED BY <1>0, <2>3, <2>5, <2>6 DEF Shaped
  <1>4. CASE ScanEnds
    BY <1>0, <1>4 DEF ScanEnds, Shaped, Asleep, Restarting
  <1>5. CASE RestartBetween
    <2>1. dog' = [pc |-> "in_start", at |-> dog.at, late |-> dog.late] /\ dog.at \in Supervised
      BY <1>5, DogIs DEF RestartBetween, Shaped, Restarting
    <2>2. state' \in [Services -> States]
      BY <1>5 DEF RestartBetween, States, Shaped
    <2>. QED BY <1>0, <1>5, <2>1, <2>2 DEF RestartBetween, Shaped
  <1>6. CASE \E ok \in BOOLEAN : RestartEnds(ok)
    <2>1. PICK ok \in BOOLEAN : RestartEnds(ok)
      BY <1>6
    <2>2. PICK s \in Supervised : s = dog.at /\ s \in Services
      BY <1>1, <2>1 DEF RestartEnds, Shaped, Restarting
    <2>3. PICK lives \in BOOLEAN : EndStart(s, ok, lives)
      BY <2>1, <2>2 DEF RestartEnds
    <2>4. /\ state' \in [Services -> States] /\ working' \in [Services -> BOOLEAN]
          /\ live' \subseteq Jobs(wiring) /\ upsets' \in 0 .. MaxUpsets[wiring]
          /\ causes' \subseteq Supervised \union {"crossed", "stalled", "lost_cancel", "watchdog"}
      BY <1>0, <2>2, <2>3, StartShapes
    <2>5. /\ status' \in [Supervised -> {"unregistered", "ok", "frozen", "restarting", "exhausted"}]
          /\ age' \in [Supervised -> 0 .. (Silence + 1)]
      BY <2>1, <2>2, Constants DEF RestartEnds, Shaped
    <2>6. /\ dog' = [pc |-> "scanning", at |-> "none", late |-> dog.late]
          /\ UNCHANGED <<wiring, engine, restarts, monitor>>
      BY <2>1 DEF RestartEnds
    <2>. QED BY <1>0, <2>4, <2>5, <2>6 DEF Shaped, Restarting
  <1>7. CASE \E lost \in BOOLEAN : Cancelled(lost)
    <2>1. dog' = dog \/ dog' = Off
      BY <1>7 DEF Cancelled
    <2>2. causes' \subseteq Supervised \union {"crossed", "stalled", "lost_cancel", "watchdog"}
      BY <1>7 DEF Cancelled, Shaped
    <2>3. UNCHANGED <<wiring, state, working, engine, status, restarts, age, monitor, live, upsets>>
      BY <1>7 DEF Cancelled
    <2>. QED BY <1>0, <2>1, <2>2, <2>3 DEF Shaped, Restarting, Off
  <1>. QED BY <1>2, <1>3, <1>4, <1>5, <1>6, <1>7 DEF DogSteps

LEMMA TimeKeepsShapes ==
  ASSUME Shaped,
         \/ EngineStopRequested \/ HeartbeatJob \/ TimePasses \/ Stall \/ Sample \/ FeedReconnects
         \/ \E s \in Deep \cap Services : TaskDies(s)
  PROVE  Shaped'
  <1>0. /\ wiring' = wiring
        /\ Order' = Order /\ Services' = Services /\ Supervised' = Supervised
        /\ Jobs(wiring)' = Jobs(wiring)
    <2>1. wiring' = wiring
      BY DEF EngineStopRequested, HeartbeatJob, TimePasses, Stall, Sample, FeedReconnects, TaskDies
    <2>. QED BY <2>1, SameOrder
  <1>1. /\ Len(Order) \in Nat /\ DOMAIN Order = 1 .. Len(Order) /\ MaxUpsets[wiring] \in Nat
        /\ upsets \in Nat /\ Silence \in Nat \ {0}
    BY OrderIs, Constants DEF Shaped
  <1>2. CASE EngineStopRequested
    BY <1>0, <1>1, <1>2 DEF EngineStopRequested, Shaped, Restarting
  <1>3. CASE HeartbeatJob
    <2>1. /\ dog' = [pc |-> dog.pc, at |-> dog.at, late |-> {s \in dog.late : ~Healthy(s)}]
          /\ status' = [s \in Supervised |-> IF Healthy(s) THEN AfterHeartbeat(status[s]) ELSE status[s]]
          /\ age' = [s \in Supervised |-> IF Healthy(s) THEN 0 ELSE age[s]]
          /\ UNCHANGED <<wiring, state, working, engine, restarts, monitor, live, upsets, causes>>
      BY <1>3, DogIs DEF HeartbeatJob
    <2>2. 0 \in 0 .. (Silence + 1)
      BY <1>1
    <2>3. /\ status' \in [Supervised -> {"unregistered", "ok", "frozen", "restarting", "exhausted"}]
          /\ age' \in [Supervised -> 0 .. (Silence + 1)]
      BY <2>1, <2>2 DEF AfterHeartbeat, Shaped
    <2>4. /\ dog' \in [pc : {"off", "asleep", "scanning", "in_stop", "in_start"},
                       at : Supervised \union {"none"}, late : SUBSET Supervised]
          /\ Restarting' => dog'.at \in Supervised
      BY <2>1 DEF Restarting, Shaped
    <2>. QED BY <1>0, <2>1, <2>3, <2>4 DEF Shaped
  <1>4. CASE TimePasses
    <2>1. age' \in [Supervised -> 0 .. (Silence + 1)]
      <3>1. \A s \in Supervised : age[s] \in 0 .. (Silence + 1)
        BY DEF Shaped
      <3>2. \A n \in 0 .. (Silence + 1) : (IF n > Silence THEN n ELSE n + 1) \in 0 .. (Silence + 1)
        BY <1>1
      <3>3. age' = [s \in Supervised |-> IF age[s] > Silence THEN age[s] ELSE age[s] + 1]
        BY <1>4 DEF TimePasses
      <3>. QED BY <3>1, <3>2, <3>3
    <2>2. upsets' \in 0 .. MaxUpsets[wiring]
      BY <1>1, <1>4 DEF TimePasses
    <2>3. UNCHANGED <<wiring, state, working, engine, dog, status, restarts, monitor, live, causes>>
      BY <1>4 DEF TimePasses
    <2>. QED BY <1>0, <2>1, <2>2, <2>3 DEF Shaped, Restarting
  <1>5. CASE Stall
    <2>1. age' \in [Supervised -> 0 .. (Silence + 1)] /\ upsets' \in 0 .. MaxUpsets[wiring]
      BY <1>1, <1>5 DEF Stall
    <2>2. causes' \subseteq Supervised \union {"crossed", "stalled", "lost_cancel", "watchdog"}
      BY <1>5 DEF Stall, Shaped
    <2>3. UNCHANGED <<wiring, state, working, engine, dog, status, restarts, monitor, live>>
      BY <1>5 DEF Stall
    <2>. QED BY <1>0, <2>1, <2>2, <2>3 DEF Shaped, Restarting
  <1>6. CASE Sample
    BY <1>0, <1>6 DEF Sample, Reported, Evaluation, Shaped, Restarting
  <1>7. CASE FeedReconnects
    BY <1>0, <1>7 DEF FeedReconnects, Shaped, Restarting
  <1>8. CASE \E s \in Deep \cap Services : TaskDies(s)
    <2>1. PICK s \in Deep \cap Services : TaskDies(s)
      BY <1>8
    <2>2. s \in Supervised
      BY DEF Deep, Supervised
    <2>3. upsets' \in 0 .. MaxUpsets[wiring] /\ working' \in [Services -> BOOLEAN]
      BY <1>1, <2>1 DEF TaskDies, Shaped
    <2>4. causes' \subseteq Supervised \union {"crossed", "stalled", "lost_cancel", "watchdog"}
      BY <2>1, <2>2 DEF TaskDies, Shaped
    <2>5. UNCHANGED <<wiring, state, engine, dog, status, restarts, age, monitor, live>>
      BY <2>1 DEF TaskDies
    <2>. QED BY <1>0, <2>3, <2>4, <2>5 DEF Shaped, Restarting
  <1>. QED BY <1>2, <1>3, <1>4, <1>5, <1>6, <1>7, <1>8

LEMMA StepKeepsShaped == Shaped /\ [ProcessNext]_processVars => Shaped'
  <1> SUFFICES ASSUME Shaped, [ProcessNext]_processVars PROVE Shaped'
    OBVIOUS
  <1>1. CASE UNCHANGED processVars
    <2>1. Order' = Order /\ Services' = Services /\ Supervised' = Supervised
      BY <1>1, SameOrder DEF processVars
    <2>. QED BY <1>1, <2>1 DEF processVars, Shaped, Restarting
  <1>2. CASE ProcessNext
    BY <1>2, EngineKeepsShapes, DogKeepsShapes, TimeKeepsShapes DEF ProcessNext
  <1>. QED BY <1>1, <1>2

LEMMA ShapedIsTyped == Shaped => ProcessTypes
  <1> SUFFICES ASSUME Shaped PROVE ProcessTypes
    OBVIOUS
  <1>1. engine.at \in 0 .. (Len(Order) + 1)
    <2>1. engine.at \in Nat /\ Len(Order) \in Nat /\ DOMAIN Order = 1 .. Len(Order)
      BY OrderIs DEF Shaped
    <2>2. engine.pc \in {"starting", "in_start", "aborted", "up", "stopping", "in_stop", "down"}
      BY DEF Shaped
    <2>. QED BY <2>1, <2>2 DEF Shaped
  <1>. QED BY <1>1 DEF Shaped, ProcessTypes

-----------------------------------------------------------------------------
(* What each phase of the engine knows of its services.                      *)

Booting == engine.pc \in {"starting", "in_start", "aborted"}
Ending  == engine.pc \in {"stopping", "in_stop", "down"}

\* Before anything is registered the watchdog has nothing to look at, and the
\* start sequence has left behind it only services that run.
BootIsPlain ==
  Booting =>
    /\ dog.pc \in {"off", "asleep"} /\ dog.late = {}
    /\ \A s \in Supervised : restarts[s] = 0 /\ status[s] = "unregistered"
    /\ \A s \in Services : working[s] \/ engine.pc = "aborted"
    /\ engine.pc = "aborted" => causes # {}

BootIsInOrder ==
  Booting =>
    \A i \in DOMAIN Order :
      /\ i < engine.at => state[Order[i]] = "running"
      /\ i = engine.at => /\ engine.pc = "starting" => state[Order[i]] = "created"
                          /\ engine.pc = "in_start" => state[Order[i]] = "starting"
      /\ i > engine.at => state[Order[i]] = "created"

\* The watchdog is in charge from the registration on.
Charged == ~Booting => \A s \in Supervised : status[s] # "unregistered"

\* A service is up or has failed, unless the watchdog is restarting it.
Steady(s) ==
  \/ state[s] \in {"running", "failed"}
  \/ Restarting /\ dog.at = s

UpIsSteady == engine.pc = "up" => \A s \in Services : Steady(s)

\* Unless a restart crossed the shutdown, what is behind has stopped and what is
\* ahead is still up.
StopIsInOrder ==
  (Ending /\ "crossed" \notin causes) =>
    /\ \A i \in DOMAIN Order :
         /\ i > engine.at => state[Order[i]] = "stopped"
         /\ i = engine.at => /\ engine.pc = "in_stop" => state[Order[i]] = "stopping"
                             /\ engine.pc = "stopping" => Steady(Order[i])
         /\ i < engine.at => Steady(Order[i])
    /\ Restarting => engine.pc = "stopping" /\ engine.at = Len(Order)

DownIsDone == engine.pc = "down" => engine.at = 0

\* A failure has a cause of its own name.
FailuresAreKnown == \A s \in Services : state[s] = "failed" => s \in causes

\* The component a restart is inside has been counted.
RestartIsCounted == Restarting => restarts[dog.at] > 0

Blameless(s) == causes \cap {s, "scheduler", "stalled", "crossed"} = {}

\* A component nothing happened to answers every heartbeat.
BlamelessAnswers ==
  \A s \in Supervised : Blameless(s) =>
    /\ restarts[s] = 0
    /\ engine.pc = "up" => /\ state[s] = "running" /\ working[s]
                           /\ age[s] =< Silence /\ s \notin dog.late

Kept ==
  /\ Shaped
  /\ BootIsPlain /\ BootIsInOrder /\ Charged /\ UpIsSteady /\ StopIsInOrder /\ DownIsDone
  /\ FailuresAreKnown /\ RestartIsCounted /\ BlamelessAnswers
  /\ JobsSurviveRestart /\ HealthChain

LEMMA Frame ==
  ASSUME Shaped, [ProcessNext]_processVars
  PROVE  /\ wiring' = wiring /\ Order' = Order /\ Services' = Services /\ Supervised' = Supervised
         /\ Jobs(wiring)' = Jobs(wiring) /\ causes \subseteq causes'
  <1>1. wiring' = wiring
    BY DEF ProcessNext, EngineSteps, DogSteps, EngineBeginsStart, EngineRegisters, EngineBeginsStop,
           EngineEndsStop, EngineDown, EngineEndsStart, Scan, Visit, ScanEnds, RestartBetween,
           RestartEnds, Cancelled, EngineStopRequested, HeartbeatJob, TimePasses, Stall, Sample,
           FeedReconnects, TaskDies, processVars
  <1>2. causes \subseteq causes'
    BY DEF ProcessNext, EngineSteps, DogSteps, EngineBeginsStart, EngineRegisters, EngineBeginsStop,
           EngineEndsStop, EngineDown, EngineEndsStart, Scan, Visit, ScanEnds, RestartBetween,
           RestartEnds, Cancelled, EngineStopRequested, HeartbeatJob, TimePasses, Stall, Sample,
           FeedReconnects, TaskDies, processVars, EndStart
  <1>. QED BY <1>1, <1>2, SameOrder

\* The position of the engine in the order, whatever it is doing.
LEMMA Positions ==
  ASSUME Shaped
  PROVE  /\ engine.at \in Nat /\ Len(Order) \in Nat /\ DOMAIN Order = 1 .. Len(Order)
         /\ \A i \in DOMAIN Order : i \in Nat /\ Order[i] \in Services
         /\ \A i, j \in DOMAIN Order : Order[i] = Order[j] => i = j
         /\ Supervised \subseteq Services
  BY OrderIs DEF Shaped, Supervised

-----------------------------------------------------------------------------
(* The start sequence.                                                       *)

\* Besides the engine, nothing that matters moves before the registration.
LEMMA BootIsQuiet ==
  ASSUME Kept, Booting, ProcessNext, ~EngineSteps
  PROVE  /\ UNCHANGED <<state, working, restarts, engine, causes>>
         /\ dog'.pc = dog.pc /\ dog'.late = {}
         /\ \A s \in Supervised : status'[s] = "unregistered"
  <1>0. /\ Shaped /\ Charged /\ dog.pc \in {"off", "asleep"} /\ dog.late = {}
        /\ \A s \in Supervised : restarts[s] = 0 /\ status[s] = "unregistered"
        /\ \A s \in Services : working[s] \/ engine.pc = "aborted"
        /\ engine.pc \in {"starting", "in_start", "aborted"}
    BY DEF Kept, BootIsPlain, Booting
  <1>1. ~InCharge
    BY <1>0, OrderIs DEF InCharge
  <1>2. CASE HeartbeatJob
    <2>1. dog' = [pc |-> dog.pc, at |-> dog.at, late |-> {s \in dog.late : ~Healthy(s)}]
      BY <1>0, <1>2, DogIs DEF HeartbeatJob
    <2>2. ASSUME NEW s \in Supervised PROVE status'[s] = "unregistered"
      BY <1>0, <1>2 DEF HeartbeatJob, AfterHeartbeat
    <2>. QED BY <1>0, <1>2, <2>1, <2>2 DEF HeartbeatJob
  <1>3. CASE Sample
    BY <1>0, <1>3 DEF Sample
  <1>4. ~Scan
    BY <1>0 DEF Scan, Overdue
  <1>5. ~Visit /\ ~ScanEnds /\ ~RestartBetween /\ ~(\E ok \in BOOLEAN : RestartEnds(ok))
    BY <1>0 DEF Visit, ScanEnds, RestartBetween, RestartEnds
  <1>6. /\ ~(\E lost \in BOOLEAN : Cancelled(lost)) /\ ~EngineStopRequested
        /\ ~TimePasses /\ ~Stall /\ ~(\E s \in Deep \cap Services : TaskDies(s))
    BY <1>0, <1>1 DEF Cancelled, EngineStopRequested, TimePasses, Stall, TaskDies
  <1>7. ~FeedReconnects
    BY <1>0 DEF FeedReconnects, Alive
  <1>. QED BY <1>2, <1>3, <1>4, <1>5, <1>6, <1>7 DEF ProcessNext, DogSteps

LEMMA BootKept ==
  ASSUME Kept, ProcessNext, Shaped'
  PROVE  BootIsPlain' /\ BootIsInOrder'
  <1> SUFFICES ASSUME Booting' PROVE BootIsPlain' /\ BootIsInOrder'
    BY DEF BootIsPlain, BootIsInOrder
  <1>0. /\ Shaped /\ Order' = Order /\ Services' = Services /\ Supervised' = Supervised
        /\ BootIsPlain /\ BootIsInOrder
    BY Frame DEF Kept
  <1>1. CASE EngineBeginsStart
    <2>1. /\ engine.pc = "starting" /\ engine.at \in DOMAIN Order /\ Order[engine.at] \in Services
          /\ engine' = [pc |-> "in_start", at |-> engine.at]
          /\ state' = [state EXCEPT ![Order[engine.at]] = "starting"] /\ state \in [Services -> States]
          /\ UNCHANGED <<wiring, working, dog, status, restarts, age, monitor, live, upsets, causes>>
      BY <1>0, <1>1, EngineIs, Positions DEF EngineBeginsStart, BeginStart, Shaped
    <2>2. Booting
      BY <2>1 DEF Booting
    <2>3. BootIsPlain'
      BY <1>0, <2>1, <2>2 DEF BootIsPlain
    <2>4. ASSUME NEW i \in DOMAIN Order
          PROVE  /\ i < engine.at => state'[Order[i]] = "running"
                 /\ i = engine.at => state'[Order[i]] = "starting"
                 /\ i > engine.at => state'[Order[i]] = "created"
      <3>1. i # engine.at => Order[i] # Order[engine.at]
        BY <1>0, <2>1, Positions
      <3>2. i \in Nat /\ Order[i] \in Services /\ engine.at \in Nat
        BY <1>0, Positions
      <3>. QED BY <1>0, <2>1, <2>2, <3>1, <3>2 DEF BootIsInOrder
    <2>. QED BY <1>0, <2>1, <2>3, <2>4 DEF BootIsInOrder
  <1>2. CASE \E ok \in BOOLEAN : EngineEndsStart(ok)
    <2>1. PICK ok \in BOOLEAN : EngineEndsStart(ok)
      BY <1>2
    <2>2. PICK s \in Services : s = Order[engine.at] /\ engine.at \in DOMAIN Order
      BY <1>0, <2>1, Positions DEF EngineEndsStart, Shaped
    <2>3. s \in Supervised \union {"watchdog"} /\ EndStart(s, ok, ok) /\ wiring' = wiring
      BY <2>1, <2>2 DEF EngineEndsStart, Supervised
    <2>4. /\ \A t \in Services : t # s => state'[t] = state[t] /\ working'[t] = working[t]
          /\ state'[s] = (IF ok THEN "running" ELSE "failed") /\ working'[s] = ok
          /\ ~ok => s \in causes'
      BY <1>0, <2>3, StartShapes
    <2>5. /\ engine.pc = "in_start" /\ (dog' = Asleep \/ dog' = dog)
          /\ engine' = (IF ok THEN [pc |-> "starting", at |-> engine.at + 1]
                        ELSE [pc |-> "aborted", at |-> engine.at])
          /\ UNCHANGED <<wiring, status, restarts, age, monitor>>
      BY <1>0, <2>1, EngineIs DEF EngineEndsStart
    <2>6. Booting
      BY <2>5 DEF Booting
    <2>7. BootIsPlain'
      <3>1. dog'.pc \in {"off", "asleep"} /\ dog'.late = {}
        BY <1>0, <2>5, <2>6 DEF BootIsPlain, Asleep
      <3>2. \A t \in Services : working'[t] \/ engine'.pc = "aborted"
        BY <1>0, <2>4, <2>5, <2>6 DEF BootIsPlain
      <3>3. \A t \in Supervised : restarts'[t] = 0 /\ status'[t] = "unregistered"
        BY <1>0, <2>5, <2>6 DEF BootIsPlain
      <3>4. engine'.pc = "aborted" => causes' # {}
        BY <2>4, <2>5
      <3>. QED BY <1>0, <3>1, <3>2, <3>3, <3>4 DEF BootIsPlain
    <2>8. ASSUME NEW i \in DOMAIN Order
          PROVE  /\ i < engine.at => state'[Order[i]] = "running"
                 /\ i = engine.at => state'[Order[i]] = (IF ok THEN "running" ELSE "failed")
                 /\ i > engine.at => state'[Order[i]] = "created"
      <3>1. i # engine.at => Order[i] # s
        BY <1>0, <2>2, Positions
      <3>2. i \in Nat /\ Order[i] \in Services /\ engine.at \in Nat
        BY <1>0, Positions
      <3>. QED BY <1>0, <2>2, <2>4, <2>6, <3>1, <3>2 DEF BootIsInOrder
    <2>9. ASSUME NEW i \in DOMAIN Order
          PROVE  /\ i < engine'.at => state'[Order[i]] = "running"
                 /\ i = engine'.at => /\ engine'.pc = "starting" => state'[Order[i]] = "created"
                                      /\ engine'.pc = "in_start" => state'[Order[i]] = "starting"
                 /\ i > engine'.at => state'[Order[i]] = "created"
      <3>1. i \in Nat /\ engine.at \in Nat
        BY <1>0, Positions
      <3>2. CASE ok
        BY <2>5, <2>8, <3>1, <3>2
      <3>3. CASE ~ok
        BY <2>5, <2>8, <3>1, <3>3
      <3>. QED BY <3>2, <3>3
    <2>. QED BY <1>0, <2>7, <2>9 DEF BootIsInOrder
  <1>3. CASE ~EngineSteps /\ Booting
    <2>1. /\ UNCHANGED <<state, working, restarts, engine, causes>>
          /\ dog'.pc = dog.pc /\ dog'.late = {}
          /\ \A s \in Supervised : status'[s] = "unregistered"
      BY <1>3, BootIsQuiet
    <2>. QED BY <1>0, <1>3, <2>1 DEF BootIsPlain, BootIsInOrder
  <1>4. ASSUME ~EngineSteps, ~Booting PROVE FALSE
    <2>1. engine' = engine \/ engine'.pc = "stopping"
      BY <1>4 DEF ProcessNext, DogSteps, Scan, Visit, ScanEnds, RestartBetween, RestartEnds, Cancelled,
             EngineStopRequested, HeartbeatJob, TimePasses, Stall, Sample, FeedReconnects, TaskDies
    <2>. QED BY <1>4, <2>1 DEF Booting
  <1>5. ASSUME EngineRegisters \/ EngineBeginsStop \/ EngineEndsStop \/ EngineDown PROVE FALSE
    <2>1. engine'.pc \in {"up", "stopping", "in_stop", "down"}
      BY <1>0, <1>5, EngineIs DEF EngineRegisters, EngineBeginsStop, EngineEndsStop, EngineDown
    <2>. QED BY <2>1 DEF Booting
  <1>. QED BY <1>1, <1>2, <1>3, <1>4, <1>5 DEF ProcessNext, EngineSteps

-----------------------------------------------------------------------------
(* The states the services are in.                                           *)

\* What a step of the watchdog or of the engine can do to the states.
Moved(s, value) ==
  /\ state'[s] = value
  /\ \A t \in Services : t # s => state'[t] = state[t]

LEMMA VisitMoves ==
  ASSUME Shaped, Visit
  PROVE  /\ UNCHANGED <<wiring, working, engine, age, monitor, upsets>>
         /\ dog.pc = "scanning" /\ (engine.pc # "up" => "crossed" \in causes')
         /\ \E s \in dog.late :
              /\ s \in Supervised /\ s \in Services
              /\ \A t \in Supervised : t # s => status'[t] = status[t] /\ restarts'[t] = restarts[t]
              /\ status'[s] \in {"exhausted", "restarting"}
              /\ dog'.late = dog.late \ {s}
              /\ \/ dog'.pc = "scanning" /\ UNCHANGED <<state, restarts, live>>
                 \/ dog'.pc = "in_stop" /\ dog'.at = s /\ restarts'[s] > 0 /\ Moved(s, "stopping")
                    /\ live' = IF s = "scheduler" THEN {} ELSE live
                 \/ dog'.pc = "in_start" /\ dog'.at = s /\ restarts'[s] > 0 /\ Moved(s, "starting")
                    /\ UNCHANGED live
  <1>1. PICK s \in dog.late : s = NextLate /\ s \in Supervised /\ s \in Services
    BY NextIsLate DEF Visit, Shaped, Supervised
  <1>2. /\ UNCHANGED <<wiring, working, engine, age, monitor, upsets>>
        /\ dog.pc = "scanning" /\ (engine.pc # "up" => "crossed" \in causes')
    BY DEF Visit
  <1>3. state \in [Services -> States] /\ restarts[s] \in Nat
        /\ restarts \in [Supervised -> 0 .. MaxRestarts]
        /\ status \in [Supervised -> {"unregistered", "ok", "frozen", "restarting", "exhausted"}]
    BY <1>1, Constants DEF Shaped
  <1>4. CASE /\ status' = [status EXCEPT ![s] = "exhausted"]
             /\ dog' = [dog EXCEPT !.late = @ \ {s}]
             /\ UNCHANGED <<state, restarts, live>>
    <2>1. dog' = [pc |-> dog.pc, at |-> dog.at, late |-> dog.late \ {s}]
      BY <1>4, DogIs
    <2>. QED BY <1>1, <1>2, <1>3, <1>4, <2>1
  <1>5. CASE /\ status' = [status EXCEPT ![s] = "restarting"]
             /\ restarts' = [restarts EXCEPT ![s] = @ + 1]
             /\ \/ /\ BeginStop(s)
                   /\ dog' = [pc |-> "in_stop", at |-> s, late |-> dog.late \ {s}]
                \/ /\ state[s] \notin Stoppable /\ BeginStart(s) /\ UNCHANGED live
                   /\ dog' = [pc |-> "in_start", at |-> s, late |-> dog.late \ {s}]
    <2>1. restarts'[s] = restarts[s] + 1 /\ restarts'[s] > 0
      BY <1>1, <1>3, <1>5
    <2>2. CASE /\ BeginStop(s)
               /\ dog' = [pc |-> "in_stop", at |-> s, late |-> dog.late \ {s}]
      <3>1. Moved(s, "stopping") /\ live' = (IF s = "scheduler" THEN {} ELSE live)
        BY <1>1, <1>3, <2>2 DEF BeginStop, Moved
      <3>. QED BY <1>1, <1>2, <1>3, <1>5, <2>1, <2>2, <3>1
    <2>3. CASE /\ BeginStart(s) /\ UNCHANGED live
               /\ dog' = [pc |-> "in_start", at |-> s, late |-> dog.late \ {s}]
      <3>1. Moved(s, "starting")
        BY <1>1, <1>3, <2>3 DEF BeginStart, Moved
      <3>. QED BY <1>1, <1>2, <1>3, <1>5, <2>1, <2>3, <3>1
    <2>. QED BY <1>5, <2>2, <2>3
  <1>. QED BY <1>1, <1>4, <1>5 DEF Visit

LEMMA RestartMoves ==
  ASSUME Shaped, NEW ok \in BOOLEAN, RestartEnds(ok)
  PROVE  /\ UNCHANGED <<wiring, engine, restarts, monitor>> /\ Restarting
         /\ dog.at \in Supervised /\ dog.at \in Services
         /\ dog' = [pc |-> "scanning", at |-> "none", late |-> dog.late]
         /\ Moved(dog.at, IF ok THEN "running" ELSE "failed") /\ (~ok => dog.at \in causes')
         /\ \A t \in Services : t # dog.at => working'[t] = working[t]
         /\ \A t \in Supervised : t # dog.at => status'[t] = status[t] /\ age'[t] = age[t]
         /\ status'[dog.at] \in {"ok", "frozen"}
         /\ live' = IF dog.at = "scheduler" /\ ok /\ InCharge THEN Jobs(wiring) ELSE live
  <1>1. dog.pc = "in_start" /\ Restarting /\ UNCHANGED <<wiring, engine, restarts, monitor>>
        /\ dog' = [pc |-> "scanning", at |-> "none", late |-> dog.late]
    BY DEF RestartEnds, Restarting
  <1>2. dog.at \in Supervised /\ dog.at \in Services /\ dog.at \in Supervised \union {"watchdog"}
    BY <1>1 DEF Shaped, Supervised
  <1>3. PICK lives \in BOOLEAN : EndStart(dog.at, ok, lives)
    BY DEF RestartEnds
  <1>4. /\ \A t \in Services : t # dog.at => state'[t] = state[t] /\ working'[t] = working[t]
        /\ state'[dog.at] = (IF ok THEN "running" ELSE "failed")
        /\ ~ok => dog.at \in causes'
    BY <1>1, <1>2, <1>3, StartShapes
  <1>5. live' = IF dog.at = "scheduler" /\ ok /\ InCharge THEN Jobs(wiring) ELSE live
    BY <1>3 DEF EndStart
  <1>6. /\ \A t \in Supervised : t # dog.at => status'[t] = status[t] /\ age'[t] = age[t]
        /\ status'[dog.at] \in {"ok", "frozen"}
    BY <1>2 DEF RestartEnds, Shaped
  <1>. QED BY <1>1, <1>2, <1>4, <1>5, <1>6 DEF Moved

LEMMA BetweenMoves ==
  ASSUME Shaped, RestartBetween
  PROVE  /\ Restarting /\ Restarting' /\ dog.at \in Supervised /\ dog.at \in Services
         /\ dog'.at = dog.at /\ dog'.late = dog.late /\ Moved(dog.at, "starting")
         /\ UNCHANGED <<wiring, working, engine, status, restarts, age, monitor, live, upsets, causes>>
  <1>1. dog' = [pc |-> "in_start", at |-> dog.at, late |-> dog.late] /\ Restarting
        /\ dog.at \in Supervised /\ dog.at \in Services
    BY DogIs DEF RestartBetween, Shaped, Restarting, Supervised
  <1>2. Moved(dog.at, "starting")
    BY <1>1 DEF RestartBetween, Moved, Shaped
  <1>. QED BY <1>1, <1>2 DEF RestartBetween, Restarting

\* Every other step of the watchdog, of time, of the heartbeats and of the monitor
\* leaves the states, the counts and the engine alone.
LEMMA OthersLeaveStates ==
  ASSUME Shaped,
         \/ Scan \/ ScanEnds \/ \E lost \in BOOLEAN : Cancelled(lost)
         \/ HeartbeatJob \/ TimePasses \/ Stall \/ Sample \/ FeedReconnects
         \/ \E s \in Deep \cap Services : TaskDies(s)
  PROVE  /\ UNCHANGED <<wiring, state, engine, restarts, live>>
         /\ Restarting' => Restarting /\ dog'.at = dog.at
         /\ Restarting => Restarting' \/ (engine.pc = "in_stop")
         /\ \A s \in Supervised : status[s] # "unregistered" => status'[s] # "unregistered"
  <1>1. CASE Scan
    BY <1>1 DEF Scan, Restarting
  <1>2. CASE ScanEnds
    BY <1>2 DEF ScanEnds, Restarting, Asleep
  <1>3. CASE \E lost \in BOOLEAN : Cancelled(lost)
    BY <1>3 DEF Cancelled, Restarting, Off
  <1>4. CASE HeartbeatJob
    <2>1. dog' = [pc |-> dog.pc, at |-> dog.at, late |-> {s \in dog.late : ~Healthy(s)}]
      BY <1>4, DogIs DEF HeartbeatJob
    <2>. QED BY <1>4, <2>1 DEF HeartbeatJob, Restarting, AfterHeartbeat
  <1>5. CASE TimePasses
    BY <1>5 DEF TimePasses, Restarting
  <1>6. CASE Stall
    BY <1>6 DEF Stall, Restarting
  <1>7. CASE Sample
    BY <1>7 DEF Sample, Restarting
  <1>8. CASE FeedReconnects
    BY <1>8 DEF FeedReconnects, Restarting
  <1>9. CASE \E s \in Deep \cap Services : TaskDies(s)
    BY <1>9 DEF TaskDies, Restarting
  <1>. QED BY <1>1, <1>2, <1>3, <1>4, <1>5, <1>6, <1>7, <1>8, <1>9

\* The steps, grouped by what they touch.
LEMMA StepKinds ==
  ProcessNext => \/ EngineSteps \/ EngineStopRequested
                 \/ Visit \/ RestartBetween \/ \E ok \in BOOLEAN : RestartEnds(ok)
                 \/ \/ Scan \/ ScanEnds \/ \E lost \in BOOLEAN : Cancelled(lost)
                    \/ HeartbeatJob \/ TimePasses \/ Stall \/ Sample \/ FeedReconnects
                    \/ \E s \in Deep \cap Services : TaskDies(s)
  BY DEF ProcessNext, DogSteps

LEMMA ChargedKept ==
  ASSUME Kept, ProcessNext, Shaped' PROVE Charged'
  <1> SUFFICES ASSUME ~Booting', NEW s \in Supervised PROVE status'[s] # "unregistered"
    BY Frame DEF Charged, Kept
  <1>0. Shaped /\ Charged /\ Services' = Services /\ Supervised' = Supervised
    BY Frame DEF Kept
  <1>1. CASE EngineSteps
    <2>1. CASE EngineRegisters
      BY <2>1 DEF EngineRegisters
    <2>2. CASE EngineBeginsStop \/ EngineEndsStop \/ EngineDown
      <3>1. ~Booting /\ status' = status
        BY <2>2 DEF EngineBeginsStop, EngineEndsStop, EngineDown, Booting
      <3>. QED BY <1>0, <3>1 DEF Charged
    <2>3. ASSUME EngineBeginsStart \/ \E ok \in BOOLEAN : EngineEndsStart(ok) PROVE FALSE
      <3>1. engine'.pc \in {"starting", "in_start", "aborted"}
        BY <1>0, <2>3, EngineIs DEF EngineBeginsStart, EngineEndsStart
      <3>. QED BY <3>1 DEF Booting
    <2>. QED BY <1>1, <2>1, <2>2, <2>3 DEF EngineSteps
  <1>2. CASE EngineStopRequested
    <2>1. ~Booting /\ status' = status
      BY <1>2 DEF EngineStopRequested, Booting
    <2>. QED BY <1>0, <2>1 DEF Charged
  <1>3. CASE engine' = engine /\ \A t \in Supervised : status[t] # "unregistered" => status'[t] # "unregistered"
    BY <1>0, <1>3 DEF Charged, Booting
  <1>4. ASSUME Visit \/ RestartBetween \/ \E ok \in BOOLEAN : RestartEnds(ok)
        PROVE  engine' = engine /\ \A t \in Supervised : status[t] # "unregistered" => status'[t] # "unregistered"
    <2>1. CASE Visit
      BY <1>0, <2>1, VisitMoves
    <2>2. CASE RestartBetween
      BY <1>0, <2>2, BetweenMoves
    <2>3. CASE \E ok \in BOOLEAN : RestartEnds(ok)
      BY <1>0, <2>3, RestartMoves
    <2>. QED BY <1>4, <2>1, <2>2, <2>3
  <1>. QED BY <1>0, <1>1, <1>2, <1>3, <1>4, OthersLeaveStates, StepKinds


\* Outside the engine's own steps a steady service stays steady.
LEMMA SteadyStays ==
  ASSUME Shaped, NEW t \in Services, Steady(t), engine.pc # "in_stop",
         \/ Visit \/ RestartBetween \/ \E ok \in BOOLEAN : RestartEnds(ok)
         \/ \/ Scan \/ ScanEnds \/ \E lost \in BOOLEAN : Cancelled(lost)
            \/ HeartbeatJob \/ TimePasses \/ Stall \/ Sample \/ FeedReconnects
            \/ \E s \in Deep \cap Services : TaskDies(s)
  PROVE  Steady(t)'
  <1>1. CASE Visit
    <2>1. state[t] \in {"running", "failed"} /\ dog.pc = "scanning"
      BY <1>1, VisitMoves DEF Steady, Restarting
    <2>2. PICK s \in dog.late :
            \/ dog'.pc = "scanning" /\ UNCHANGED <<state, restarts, live>>
            \/ dog'.pc = "in_stop" /\ dog'.at = s /\ Moved(s, "stopping")
            \/ dog'.pc = "in_start" /\ dog'.at = s /\ Moved(s, "starting")
      BY <1>1, VisitMoves
    <2>. QED BY <2>1, <2>2 DEF Steady, Restarting, Moved
  <1>2. CASE RestartBetween
    <2>1. Restarting' /\ dog'.at = dog.at /\ Moved(dog.at, "starting")
      BY <1>2, BetweenMoves
    <2>. QED BY <2>1 DEF Steady, Moved
  <1>3. CASE \E ok \in BOOLEAN : RestartEnds(ok)
    <2>1. PICK ok \in BOOLEAN : Moved(dog.at, IF ok THEN "running" ELSE "failed")
      BY <1>3, RestartMoves
    <2>. QED BY <2>1 DEF Steady, Moved
  <1>4. CASE /\ state' = state /\ (Restarting => Restarting' \/ engine.pc = "in_stop")
             /\ (Restarting' => dog'.at = dog.at)
    BY <1>4 DEF Steady
  <1>. QED BY <1>1, <1>2, <1>3, <1>4, OthersLeaveStates

LEMMA UpKept ==
  ASSUME Kept, ProcessNext, Shaped' PROVE UpIsSteady'
  <1> SUFFICES ASSUME engine'.pc = "up", NEW t \in Services PROVE Steady(t)'
    BY Frame DEF UpIsSteady, Kept
  <1>0. Shaped /\ UpIsSteady /\ BootIsInOrder
    BY DEF Kept
  <1>1. CASE EngineSteps
    <2>1. EngineRegisters
      <3>1. ASSUME EngineBeginsStart \/ EngineBeginsStop \/ EngineEndsStop \/ EngineDown
                   \/ \E ok \in BOOLEAN : EngineEndsStart(ok)
            PROVE  engine'.pc \in {"starting", "in_start", "aborted", "stopping", "in_stop", "down"}
        BY <1>0, <3>1, EngineIs DEF EngineBeginsStart, EngineBeginsStop, EngineEndsStop, EngineDown,
                                    EngineEndsStart
      <3>. QED BY <1>1, <3>1 DEF EngineSteps
    <2>2. PICK i \in DOMAIN Order : Order[i] = t
      BY OrderIs
    <2>3. i < engine.at /\ Booting /\ state' = state
      BY <1>0, <2>1, Positions DEF EngineRegisters, Booting
    <2>. QED BY <1>0, <2>2, <2>3 DEF BootIsInOrder, Steady
  <1>2. CASE EngineStopRequested
    BY <1>2 DEF EngineStopRequested
  <1>3. CASE /\ engine' = engine
             /\ \/ Visit \/ RestartBetween \/ \E ok \in BOOLEAN : RestartEnds(ok)
                \/ \/ Scan \/ ScanEnds \/ \E lost \in BOOLEAN : Cancelled(lost)
                   \/ HeartbeatJob \/ TimePasses \/ Stall \/ Sample \/ FeedReconnects
                   \/ \E s \in Deep \cap Services : TaskDies(s)
    <2>1. engine.pc = "up" /\ Steady(t)
      BY <1>0, <1>3 DEF UpIsSteady
    <2>. QED BY <1>0, <1>3, <2>1, SteadyStays
  <1>4. EngineSteps \/ EngineStopRequested \/ engine' = engine
    BY <1>0, StepKinds, VisitMoves, BetweenMoves, RestartMoves, OthersLeaveStates
  <1>. QED BY <1>1, <1>2, <1>3, <1>4, StepKinds

LEMMA StopKept ==
  ASSUME Kept, ProcessNext, Shaped' PROVE StopIsInOrder' /\ DownIsDone'
  <1>0. /\ Shaped /\ UpIsSteady /\ StopIsInOrder /\ DownIsDone
        /\ Order' = Order /\ Services' = Services /\ causes \subseteq causes'
    BY Frame DEF Kept
  <1>1. DownIsDone'
    <2>1. CASE EngineSteps
      BY <1>0, <2>1, EngineIs DEF EngineSteps, EngineBeginsStart, EngineRegisters, EngineBeginsStop,
             EngineEndsStop, EngineDown, EngineEndsStart, DownIsDone
    <2>2. CASE EngineStopRequested
      BY <2>2 DEF EngineStopRequested, DownIsDone
    <2>3. CASE engine' = engine
      BY <1>0, <2>3 DEF DownIsDone
    <2>. QED BY <1>0, <2>1, <2>2, <2>3, StepKinds, VisitMoves, BetweenMoves, RestartMoves, OthersLeaveStates
  <1>2. ASSUME Ending', "crossed" \notin causes', NEW i \in DOMAIN Order
        PROVE  /\ i > engine'.at => state'[Order[i]] = "stopped"
               /\ i = engine'.at => /\ engine'.pc = "in_stop" => state'[Order[i]] = "stopping"
                                    /\ engine'.pc = "stopping" => Steady(Order[i])'
               /\ i < engine'.at => Steady(Order[i])'
               /\ Restarting' => engine'.pc = "stopping" /\ engine'.at = Len(Order)
    <2>0. /\ i \in Nat /\ Order[i] \in Services /\ engine.at \in Nat /\ Len(Order) \in Nat
          /\ i =< Len(Order) /\ Len(Order) >= 4 /\ "crossed" \notin causes
      BY <1>0, <1>2, Positions, OrderIs
    <2>1. CASE EngineStopRequested
      <3>1. /\ engine.pc = "up" /\ engine' = [pc |-> "stopping", at |-> Len(Order)]
            /\ state' = state /\ dog' = dog
        BY <2>1 DEF EngineStopRequested
      <3>2. Steady(Order[i])
        BY <1>0, <2>0, <3>1 DEF UpIsSteady
      <3>3. Steady(Order[i])'
        BY <1>0, <3>1, <3>2 DEF Steady, Restarting
      <3>. QED BY <2>0, <3>1, <3>3
    <2>2. CASE EngineBeginsStop
      <3>1. /\ ~Restarting /\ dog' = dog /\ engine.pc = "stopping" /\ engine.at \in DOMAIN Order
        BY <1>0, <1>2, <2>2, Positions DEF EngineBeginsStop, Shaped
      <3>2. Ending /\ Steady(Order[engine.at])
        BY <1>0, <2>0, <3>1 DEF Ending, StopIsInOrder
      <3>3. state[Order[engine.at]] \in Stoppable
        BY <3>1, <3>2 DEF Steady, Stoppable
      <3>4. /\ state' = [state EXCEPT ![Order[engine.at]] = "stopping"] /\ state \in [Services -> States]
            /\ engine' = [pc |-> "in_stop", at |-> engine.at]
        BY <1>0, <2>2, <3>3, EngineIs DEF EngineBeginsStop, BeginStop, Shaped
      <3>5. i # engine.at => Order[i] # Order[engine.at]
        BY <1>0, <3>1, Positions
      <3>6. /\ i > engine.at => state[Order[i]] = "stopped"
            /\ i < engine.at => Steady(Order[i])
        BY <1>0, <2>0, <3>2 DEF StopIsInOrder
      <3>7. i < engine.at => Steady(Order[i])'
        BY <1>0, <2>0, <3>1, <3>4, <3>5, <3>6 DEF Steady, Restarting
      <3>8. ~Restarting'
        BY <3>1 DEF Restarting
      <3>. QED BY <2>0, <3>1, <3>4, <3>5, <3>6, <3>7, <3>8
    <2>3. CASE EngineEndsStop
      <3>1. /\ engine.pc = "in_stop" /\ engine.at \in DOMAIN Order /\ dog' = dog
            /\ state' = [state EXCEPT ![Order[engine.at]] = "stopped"] /\ state \in [Services -> States]
            /\ engine' = [pc |-> "stopping", at |-> engine.at - 1]
        BY <1>0, <2>3 DEF EngineEndsStop, EndStop, Shaped
      <3>2. Ending
        BY <3>1 DEF Ending
      <3>3. i # engine.at => Order[i] # Order[engine.at]
        BY <1>0, <3>1, Positions
      <3>4. /\ i > engine.at => state[Order[i]] = "stopped"
            /\ i < engine.at => Steady(Order[i])
            /\ ~Restarting
        BY <1>0, <2>0, <3>1, <3>2 DEF StopIsInOrder
      <3>5. i < engine.at => Steady(Order[i])'
        BY <1>0, <2>0, <3>1, <3>3, <3>4 DEF Steady, Restarting
      <3>6. ~Restarting'
        BY <3>1, <3>4 DEF Restarting
      <3>. QED BY <2>0, <3>1, <3>3, <3>4, <3>5, <3>6
    <2>4. CASE EngineDown
      <3>1. /\ engine.pc = "stopping" /\ engine.at = 0 /\ engine' = [pc |-> "down", at |-> 0]
            /\ state' = state /\ dog' = dog
        BY <1>0, <2>4, EngineIs DEF EngineDown
      <3>2. Ending
        BY <3>1 DEF Ending
      <3>3. i > engine.at => state[Order[i]] = "stopped"
        BY <1>0, <2>0, <3>2 DEF StopIsInOrder
      <3>4. Restarting => engine.at = Len(Order)
        BY <1>0, <2>0, <3>2 DEF StopIsInOrder
      <3>. QED BY <2>0, <3>1, <3>3, <3>4 DEF Restarting
    <2>5. ASSUME EngineBeginsStart \/ EngineRegisters \/ \E ok \in BOOLEAN : EngineEndsStart(ok) PROVE FALSE
      <3>1. engine'.pc \in {"starting", "in_start", "aborted", "up"}
        BY <1>0, <2>5, EngineIs DEF EngineBeginsStart, EngineRegisters, EngineEndsStart
      <3>. QED BY <1>2, <3>1 DEF Ending
    <2>6. CASE engine' = engine
      <3>1. /\ Ending
            /\ i > engine.at => state[Order[i]] = "stopped"
            /\ i = engine.at => /\ engine.pc = "in_stop" => state[Order[i]] = "stopping"
                                /\ engine.pc = "stopping" => Steady(Order[i])
            /\ i < engine.at => Steady(Order[i])
            /\ Restarting => engine.pc = "stopping" /\ engine.at = Len(Order)
        BY <1>0, <1>2, <2>0, <2>6 DEF Ending, StopIsInOrder
      <3>2. ~Visit
        BY <1>0, <1>2, <3>1, VisitMoves DEF Ending
      <3>3. CASE RestartBetween \/ \E ok \in BOOLEAN : RestartEnds(ok)
        <4>1. engine.pc = "stopping" /\ engine.at = Len(Order)
          BY <1>0, <3>1, <3>3, BetweenMoves, RestartMoves
        <4>2. Steady(Order[i]) => Steady(Order[i])'
          BY <1>0, <2>0, <3>3, <4>1, SteadyStays
        <4>. QED BY <1>0, <2>0, <2>6, <3>1, <4>1, <4>2
      <3>4. CASE \/ Scan \/ ScanEnds \/ \E lost \in BOOLEAN : Cancelled(lost)
                 \/ HeartbeatJob \/ TimePasses \/ Stall \/ Sample \/ FeedReconnects
                 \/ \E s \in Deep \cap Services : TaskDies(s)
        <4>1. state' = state /\ (Restarting' => Restarting)
          BY <1>0, <3>4, OthersLeaveStates
        <4>2. Steady(Order[i]) => Steady(Order[i])'
          <5>1. CASE engine.pc = "in_stop"
            BY <1>0, <3>1, <4>1, <5>1 DEF Steady
          <5>2. CASE engine.pc # "in_stop"
            BY <1>0, <2>0, <3>4, <5>2, SteadyStays
          <5>. QED BY <5>1, <5>2
        <4>. QED BY <2>6, <3>1, <4>1, <4>2
      <3>5. CASE EngineSteps \/ EngineStopRequested
        BY <2>1, <2>2, <2>3, <2>4, <2>5, <3>5 DEF EngineSteps
      <3>. QED BY <3>2, <3>3, <3>4, <3>5, StepKinds
    <2>7. engine' = engine \/ EngineSteps \/ EngineStopRequested
      BY <1>0, StepKinds, VisitMoves, BetweenMoves, RestartMoves, OthersLeaveStates
    <2>. QED BY <2>1, <2>2, <2>3, <2>4, <2>5, <2>6, <2>7 DEF EngineSteps
  <1>3. 1 \in DOMAIN Order
    BY OrderIs
  <1>. QED BY <1>0, <1>1, <1>2, <1>3 DEF StopIsInOrder


-----------------------------------------------------------------------------
(* Failures, restarts and jobs.                                              *)

\* What the engine's own steps can do to a service.
LEMMA EngineMoves ==
  ASSUME Shaped, EngineSteps
  PROVE  /\ UNCHANGED <<wiring, restarts, monitor>>
         /\ dog' = dog \/ dog' = Asleep
         /\ \A t \in Services : state'[t] = "failed" => state[t] = "failed" \/ t \in causes'
  <1>0. /\ state \in [Services -> States]
        /\ engine.pc \in {"in_start", "in_stop"} => engine.at \in DOMAIN Order
        /\ engine.at \in DOMAIN Order => Order[engine.at] \in Services
    BY Positions DEF Shaped
  <1>1. CASE EngineBeginsStart
    BY <1>0, <1>1 DEF EngineBeginsStart, BeginStart
  <1>2. CASE \E ok \in BOOLEAN : EngineEndsStart(ok)
    <2>1. PICK ok \in BOOLEAN : EngineEndsStart(ok)
      BY <1>2
    <2>2. /\ engine.pc = "in_start" /\ UNCHANGED <<wiring, restarts, monitor>>
          /\ dog' = Asleep \/ dog' = dog
          /\ EndStart(Order[engine.at], ok, ok)
      BY <2>1 DEF EngineEndsStart
    <2>3. /\ Booting /\ engine.at \in DOMAIN Order /\ Order[engine.at] \in Services
          /\ Order[engine.at] \in Supervised \union {"watchdog"}
      BY <1>0, <2>2 DEF Booting, Supervised
    <2>4. /\ \A t \in Services : t # Order[engine.at] => state'[t] = state[t]
          /\ state'[Order[engine.at]] = (IF ok THEN "running" ELSE "failed")
          /\ ~ok => Order[engine.at] \in causes'
      BY <2>2, <2>3, StartShapes
    <2>5. \A t \in Services : state'[t] = "failed" => state[t] = "failed" \/ t \in causes'
      BY <2>4
    <2>. QED BY <2>2, <2>5
  <1>3. CASE EngineRegisters
    BY <1>3 DEF EngineRegisters
  <1>4. CASE EngineBeginsStop
    <2>1. /\ UNCHANGED <<wiring, dog, restarts, monitor>>
          /\ state' = state \/ state' = [state EXCEPT ![Order[engine.at]] = "stopping"]
      BY <1>4 DEF EngineBeginsStop, BeginStop
    <2>2. \A t \in Services : state'[t] = "failed" => state[t] = "failed"
      BY <1>0, <2>1
    <2>. QED BY <2>1, <2>2
  <1>5. CASE EngineEndsStop
    <2>1. /\ UNCHANGED <<wiring, dog, restarts, monitor>>
          /\ state' = [state EXCEPT ![Order[engine.at]] = "stopped"]
      BY <1>5 DEF EngineEndsStop, EndStop
    <2>2. \A t \in Services : state'[t] = "failed" => state[t] = "failed"
      BY <1>0, <2>1
    <2>. QED BY <2>1, <2>2
  <1>6. CASE EngineDown
    BY <1>6 DEF EngineDown
  <1>. QED BY <1>1, <1>2, <1>3, <1>4, <1>5, <1>6 DEF EngineSteps

LEMMA FailuresKept ==
  ASSUME Kept, ProcessNext, Shaped' PROVE FailuresAreKnown' /\ RestartIsCounted' /\ HealthChain'
  <1>0. /\ Shaped /\ FailuresAreKnown /\ RestartIsCounted /\ HealthChain /\ BootIsPlain
        /\ Services' = Services /\ causes \subseteq causes'
    BY Frame DEF Kept
  <1>1. CASE EngineSteps
    <2>1. /\ \A t \in Services : state'[t] = "failed" => state[t] = "failed" \/ t \in causes'
          /\ restarts' = restarts /\ monitor' = monitor
          /\ Restarting' => Restarting /\ dog'.at = dog.at
      BY <1>0, <1>1, EngineMoves DEF Asleep, Restarting
    <2>. QED BY <1>0, <2>1 DEF FailuresAreKnown, RestartIsCounted, HealthChain
  <1>2. CASE EngineStopRequested
    BY <1>0, <1>2 DEF EngineStopRequested, FailuresAreKnown, RestartIsCounted, HealthChain, Restarting
  <1>3. CASE Visit
    <2>1. PICK s \in dog.late :
            /\ s \in Supervised /\ s \in Services
            /\ \/ dog'.pc = "scanning" /\ UNCHANGED <<state, restarts, live>>
               \/ dog'.pc = "in_stop" /\ dog'.at = s /\ restarts'[s] > 0 /\ Moved(s, "stopping")
               \/ dog'.pc = "in_start" /\ dog'.at = s /\ restarts'[s] > 0 /\ Moved(s, "starting")
      BY <1>0, <1>3, VisitMoves
    <2>2. \A t \in Services : state'[t] = "failed" => state[t] = "failed"
      BY <2>1 DEF Moved
    <2>3. Restarting' => restarts'[dog'.at] > 0
      BY <2>1 DEF Restarting
    <2>4. monitor' = monitor
      BY <1>0, <1>3, VisitMoves
    <2>. QED BY <1>0, <2>2, <2>3, <2>4 DEF FailuresAreKnown, RestartIsCounted, HealthChain
  <1>4. CASE RestartBetween
    <2>1. /\ Restarting /\ dog'.at = dog.at /\ Moved(dog.at, "starting")
          /\ restarts' = restarts /\ monitor' = monitor
      BY <1>0, <1>4, BetweenMoves
    <2>2. \A t \in Services : state'[t] = "failed" => state[t] = "failed"
      BY <2>1 DEF Moved
    <2>. QED BY <1>0, <2>1, <2>2 DEF FailuresAreKnown, RestartIsCounted, HealthChain
  <1>5. CASE \E ok \in BOOLEAN : RestartEnds(ok)
    <2>1. PICK ok \in BOOLEAN : RestartEnds(ok)
      BY <1>5
    <2>2. /\ Moved(dog.at, IF ok THEN "running" ELSE "failed") /\ (~ok => dog.at \in causes')
          /\ dog'.pc = "scanning" /\ monitor' = monitor
      BY <1>0, <2>1, RestartMoves
    <2>3. \A t \in Services : state'[t] = "failed" => state[t] = "failed" \/ t \in causes'
      BY <2>2 DEF Moved
    <2>. QED BY <1>0, <2>2, <2>3 DEF FailuresAreKnown, RestartIsCounted, HealthChain, Restarting
  <1>6. CASE \/ Scan \/ ScanEnds \/ \E lost \in BOOLEAN : Cancelled(lost)
             \/ HeartbeatJob \/ TimePasses \/ Stall \/ Sample \/ FeedReconnects
             \/ \E s \in Deep \cap Services : TaskDies(s)
    <2>1. /\ state' = state /\ restarts' = restarts
          /\ Restarting' => Restarting /\ dog'.at = dog.at
      BY <1>0, <1>6, OthersLeaveStates
    <2>2. HealthChain'
      <3>1. monitor' = monitor \/ monitor'.last = monitor'.shown
        BY <1>6 DEF Scan, ScanEnds, Cancelled, HeartbeatJob, TimePasses, Stall, Sample, Reported,
                    FeedReconnects, TaskDies
      <3>. QED BY <1>0, <3>1 DEF HealthChain
    <2>. QED BY <1>0, <2>1, <2>2 DEF FailuresAreKnown, RestartIsCounted
  <1>. QED BY <1>1, <1>2, <1>3, <1>4, <1>5, <1>6, StepKinds

LEMMA JobsKept ==
  ASSUME Kept, ProcessNext, Shaped' PROVE JobsSurviveRestart'
  <1> SUFFICES ASSUME engine'.pc = "up", state'["scheduler"] = "running" PROVE live' = Jobs(wiring)
    BY Frame DEF JobsSurviveRestart, Kept
  <1>0. /\ Shaped /\ JobsSurviveRestart /\ Charged
        /\ "scheduler" \in Supervised /\ "event_bus" \in Supervised /\ "scheduler" \in Services
    BY OrderIs DEF Kept, Supervised
  <1>1. CASE EngineSteps
    <2>1. ASSUME EngineBeginsStart \/ EngineBeginsStop \/ EngineEndsStop \/ EngineDown
                 \/ \E ok \in BOOLEAN : EngineEndsStart(ok)
          PROVE  engine'.pc \in {"starting", "in_start", "aborted", "stopping", "in_stop", "down"}
      BY <1>0, <2>1, EngineIs DEF EngineBeginsStart, EngineBeginsStop, EngineEndsStop, EngineDown,
                                  EngineEndsStart
    <2>2. EngineRegisters
      BY <1>1, <2>1 DEF EngineSteps
    <2>. QED BY <2>2 DEF EngineRegisters
  <1>2. CASE EngineStopRequested
    BY <1>2 DEF EngineStopRequested
  <1>3. CASE Visit
    <2>1. PICK s \in dog.late :
            \/ dog'.pc = "scanning" /\ UNCHANGED <<state, restarts, live>>
            \/ Moved(s, "stopping") /\ live' = IF s = "scheduler" THEN {} ELSE live
            \/ Moved(s, "starting") /\ UNCHANGED live
      BY <1>0, <1>3, VisitMoves
    <2>2. state["scheduler"] = "running" /\ live' = live
      BY <1>0, <2>1 DEF Moved
    <2>3. engine' = engine
      BY <1>0, <1>3, VisitMoves
    <2>. QED BY <1>0, <2>2, <2>3 DEF JobsSurviveRestart
  <1>4. CASE RestartBetween
    <2>1. Moved(dog.at, "starting") /\ live' = live /\ engine' = engine
      BY <1>0, <1>4, BetweenMoves
    <2>2. state["scheduler"] = "running"
      BY <1>0, <2>1 DEF Moved
    <2>. QED BY <1>0, <2>1, <2>2 DEF JobsSurviveRestart
  <1>5. CASE \E ok \in BOOLEAN : RestartEnds(ok)
    <2>1. PICK ok \in BOOLEAN : RestartEnds(ok)
      BY <1>5
    <2>2. /\ Moved(dog.at, IF ok THEN "running" ELSE "failed") /\ engine' = engine
          /\ live' = IF dog.at = "scheduler" /\ ok /\ InCharge THEN Jobs(wiring) ELSE live
      BY <1>0, <2>1, RestartMoves
    <2>3. InCharge
      BY <1>0, <2>2 DEF Charged, Booting, InCharge
    <2>4. CASE dog.at = "scheduler"
      BY <2>2, <2>3, <2>4 DEF Moved
    <2>5. CASE dog.at # "scheduler"
      <3>1. state["scheduler"] = "running"
        BY <1>0, <2>2, <2>5 DEF Moved
      <3>. QED BY <1>0, <2>2, <2>5, <3>1 DEF JobsSurviveRestart
    <2>. QED BY <2>4, <2>5
  <1>6. CASE UNCHANGED <<wiring, state, engine, restarts, live>>
    BY <1>0, <1>6 DEF JobsSurviveRestart
  <1>. QED BY <1>0, <1>1, <1>2, <1>3, <1>4, <1>5, <1>6, StepKinds, OthersLeaveStates

LEMMA BlamelessKept ==
  ASSUME Kept, ProcessNext, Shaped' PROVE BlamelessAnswers'
  <1> SUFFICES ASSUME NEW t \in Supervised, Blameless(t)'
               PROVE  /\ restarts'[t] = 0
                      /\ engine'.pc = "up" => /\ state'[t] = "running" /\ working'[t]
                                              /\ age'[t] =< Silence /\ t \notin dog'.late
    BY Frame DEF BlamelessAnswers, Kept
  <1>0. /\ Shaped /\ BlamelessAnswers /\ causes \subseteq causes' /\ Services' = Services
        /\ RestartIsCounted /\ BootIsPlain /\ BootIsInOrder /\ JobsSurviveRestart
        /\ t \in Services /\ Silence \in Nat \ {0}
    BY Frame, Constants DEF Kept, Supervised
  <1>1. /\ Blameless(t) /\ restarts[t] = 0
        /\ engine.pc = "up" => /\ state[t] = "running" /\ working[t]
                               /\ age[t] =< Silence /\ t \notin dog.late
    <2>1. Blameless(t)
      BY <1>0 DEF Blameless
    <2>. QED BY <1>0, <2>1 DEF BlamelessAnswers
  <1>2. t \notin causes' /\ "stalled" \notin causes' /\ "crossed" \notin causes' /\ "scheduler" \notin causes
    BY <1>1 DEF Blameless
  <1>3. Restarting => dog.at # t
    BY <1>0, <1>1 DEF RestartIsCounted
  <1>4. CASE EngineSteps
    <2>1. restarts' = restarts
      BY <1>0, <1>4, EngineMoves
    <2>2. ASSUME engine'.pc = "up"
          PROVE  state'[t] = "running" /\ working'[t] /\ age'[t] =< Silence /\ t \notin dog'.late
      <3>1. EngineRegisters
        <4>1. ASSUME EngineBeginsStart \/ EngineBeginsStop \/ EngineEndsStop \/ EngineDown
                     \/ \E ok \in BOOLEAN : EngineEndsStart(ok)
              PROVE  engine'.pc \in {"starting", "in_start", "aborted", "stopping", "in_stop", "down"}
          BY <1>0, <4>1, EngineIs DEF EngineBeginsStart, EngineBeginsStop, EngineEndsStop, EngineDown,
                                      EngineEndsStart
        <4>. QED BY <1>4, <2>2, <4>1 DEF EngineSteps
      <3>2. PICK i \in DOMAIN Order : Order[i] = t
        BY <1>0, OrderIs
      <3>3. /\ i < engine.at /\ engine.pc = "starting" /\ Booting /\ UNCHANGED <<state, working, dog>>
            /\ age' = [s \in Supervised |-> 0]
        BY <1>0, <3>1, Positions DEF EngineRegisters, Booting
      <3>4. state[t] = "running"
        BY <3>2, <3>3, <1>0 DEF BootIsInOrder
      <3>5. working[t] /\ dog.late = {}
        BY <1>0, <3>3 DEF BootIsPlain
      <3>. QED BY <1>0, <3>3, <3>4, <3>5
    <2>. QED BY <1>1, <2>1, <2>2
  <1>5. CASE EngineStopRequested
    BY <1>1, <1>5 DEF EngineStopRequested
  <1>6. CASE Visit
    <2>1. engine' = engine /\ working' = working /\ age' = age /\ engine.pc = "up"
      BY <1>0, <1>2, <1>6, VisitMoves
    <2>2. PICK s \in dog.late :
            /\ s \in Supervised /\ s \in Services
            /\ \A r \in Supervised : r # s => restarts'[r] = restarts[r]
            /\ dog'.late = dog.late \ {s}
            /\ state' = state \/ Moved(s, "stopping") \/ Moved(s, "starting")
      BY <1>0, <1>6, VisitMoves
    <2>3. s # t
      BY <1>1, <2>1
    <2>4. state'[t] = state[t]
      BY <1>0, <2>2, <2>3 DEF Moved
    <2>. QED BY <1>1, <2>1, <2>2, <2>3, <2>4
  <1>7. CASE RestartBetween
    <2>1. /\ Restarting /\ Moved(dog.at, "starting") /\ dog'.late = dog.late
          /\ UNCHANGED <<working, engine, restarts, age>>
      BY <1>0, <1>7, BetweenMoves
    <2>2. state'[t] = state[t]
      BY <1>0, <1>3, <2>1 DEF Moved
    <2>. QED BY <1>1, <2>1, <2>2
  <1>8. CASE \E ok \in BOOLEAN : RestartEnds(ok)
    <2>1. PICK ok \in BOOLEAN : RestartEnds(ok)
      BY <1>8
    <2>2. /\ UNCHANGED <<engine, restarts>> /\ Restarting /\ dog'.late = dog.late
          /\ Moved(dog.at, IF ok THEN "running" ELSE "failed")
          /\ \A r \in Services : r # dog.at => working'[r] = working[r]
          /\ \A r \in Supervised : r # dog.at => age'[r] = age[r]
      BY <1>0, <2>1, RestartMoves
    <2>3. state'[t] = state[t] /\ working'[t] = working[t] /\ age'[t] = age[t]
      BY <1>0, <1>3, <2>2 DEF Moved
    <2>. QED BY <1>1, <2>2, <2>3
  <1>9. CASE Scan
    <2>1. UNCHANGED <<state, working, engine, restarts, age>> /\ dog'.late = Overdue
      BY <1>9 DEF Scan
    <2>2. age[t] \in Nat
      BY <1>0 DEF Shaped
    <2>3. engine.pc = "up" => t \notin Overdue
      BY <1>0, <1>1, <2>2 DEF Overdue
    <2>. QED BY <1>1, <2>1, <2>3
  <1>10. CASE ScanEnds \/ \E lost \in BOOLEAN : Cancelled(lost)
    <2>1. UNCHANGED <<state, working, engine, restarts, age>> /\ (dog' = dog \/ dog'.late = {})
      BY <1>10 DEF ScanEnds, Cancelled, Asleep, Off
    <2>. QED BY <1>1, <2>1
  <1>11. CASE HeartbeatJob
    <2>1. /\ UNCHANGED <<state, working, engine, restarts>>
          /\ age' = [s \in Supervised |-> IF Healthy(s) THEN 0 ELSE age[s]]
          /\ dog' = [pc |-> dog.pc, at |-> dog.at, late |-> {s \in dog.late : ~Healthy(s)}]
      BY <1>0, <1>11, DogIs DEF HeartbeatJob
    <2>2. age'[t] = 0 \/ age'[t] = age[t]
      BY <2>1
    <2>3. dog'.late \subseteq dog.late
      BY <2>1
    <2>. QED BY <1>0, <1>1, <2>1, <2>2, <2>3
  <1>12. CASE TimePasses
    <2>1. /\ UNCHANGED <<state, working, engine, dog, restarts>>
          /\ age'[t] = IF age[t] > Silence THEN age[t] ELSE age[t] + 1
          /\ "watchdog_heartbeats" \in live => Unheard = {}
      BY <1>12 DEF TimePasses
    <2>2. ASSUME engine.pc = "up" PROVE age'[t] =< Silence
      <3>1. Blameless("scheduler") /\ "scheduler" \in Supervised
        BY <1>1, OrderIs DEF Blameless
      <3>2. state["scheduler"] = "running"
        BY <1>0, <2>2, <3>1 DEF BlamelessAnswers
      <3>3. "watchdog_heartbeats" \in live
        <4>1. live = Jobs(wiring)
          BY <1>0, <2>2, <3>2 DEF JobsSurviveRestart
        <4>. QED BY <4>1 DEF Jobs
      <3>4. t \notin Unheard /\ Healthy(t)
        BY <1>1, <2>1, <2>2, <3>3 DEF Healthy
      <3>5. ~(age[t] > 0) /\ age[t] \in Nat
        BY <1>0, <3>4 DEF Unheard, Shaped
      <3>. QED BY <1>0, <2>1, <3>5
    <2>. QED BY <1>1, <2>1, <2>2
  <1>13. ~Stall
    BY <1>2 DEF Stall
  <1>14. CASE Sample
    BY <1>1, <1>14 DEF Sample
  <1>15. CASE FeedReconnects
    <2>1. /\ UNCHANGED <<state, engine, dog, restarts, age>>
          /\ working' = [working EXCEPT !["market_feed"] = TRUE] /\ working \in [Services -> BOOLEAN]
      BY <1>0, <1>15 DEF FeedReconnects, Shaped
    <2>2. working[t] => working'[t]
      BY <1>0, <2>1
    <2>. QED BY <1>1, <2>1, <2>2
  <1>16. CASE \E s \in Deep \cap Services : TaskDies(s)
    <2>1. PICK s \in Deep \cap Services : TaskDies(s)
      BY <1>16
    <2>2. /\ UNCHANGED <<state, engine, dog, restarts, age>> /\ s \in causes'
          /\ working' = [working EXCEPT ![s] = FALSE] /\ working \in [Services -> BOOLEAN]
      BY <1>0, <2>1 DEF TaskDies, Shaped
    <2>3. working'[t] = working[t]
      BY <1>0, <1>2, <2>2
    <2>. QED BY <1>1, <2>2, <2>3
  <1>. QED BY <1>4, <1>5, <1>6, <1>7, <1>8, <1>9, <1>10, <1>11, <1>12, <1>13, <1>14, <1>15, <1>16, StepKinds


-----------------------------------------------------------------------------
(* The promises of the process's keeper.                                     *)

LEMMA KeptBegins == ProcessInit => Kept
  <1> SUFFICES ASSUME ProcessInit PROVE Kept
    OBVIOUS
  <1>1. Shaped
    BY ShapedBegins
  <1>2. engine = [pc |-> "starting", at |-> 1] /\ dog = Off /\ causes = {}
        /\ state = [s \in Services |-> "created"] /\ working = [s \in Services |-> TRUE]
        /\ status = [s \in Supervised |-> "unregistered"] /\ restarts = [s \in Supervised |-> 0]
        /\ monitor = [last |-> "healthy", shown |-> "healthy"]
    BY DEF ProcessInit
  <1>3. BootIsPlain
    BY <1>2 DEF BootIsPlain, Off
  <1>4. BootIsInOrder
    <2>1. \A i \in DOMAIN Order : i \in Nat /\ i >= 1 /\ state[Order[i]] = "created"
      BY <1>2, OrderIs
    <2>. QED BY <1>2, <2>1 DEF BootIsInOrder
  <1>5. Charged /\ UpIsSteady /\ StopIsInOrder /\ DownIsDone /\ JobsSurviveRestart
    BY <1>2 DEF Charged, Booting, UpIsSteady, StopIsInOrder, Ending, DownIsDone, JobsSurviveRestart
  <1>6. FailuresAreKnown /\ RestartIsCounted /\ HealthChain
    BY <1>2 DEF FailuresAreKnown, RestartIsCounted, Restarting, Off, HealthChain
  <1>7. BlamelessAnswers
    BY <1>2 DEF BlamelessAnswers
  <1>. QED BY <1>1, <1>3, <1>4, <1>5, <1>6, <1>7 DEF Kept

LEMMA StepKeepsKept == Kept /\ [ProcessNext]_processVars => Kept'
  <1> SUFFICES ASSUME Kept, [ProcessNext]_processVars PROVE Kept'
    OBVIOUS
  <1>0. Shaped /\ Shaped'
    BY StepKeepsShaped DEF Kept
  <1>1. CASE ProcessNext
    BY <1>0, <1>1, BootKept, ChargedKept, UpKept, StopKept, FailuresKept, JobsKept, BlamelessKept DEF Kept
  <1>2. CASE UNCHANGED processVars
    <2>1. Order' = Order /\ Services' = Services /\ Supervised' = Supervised /\ Jobs(wiring)' = Jobs(wiring)
      BY <1>2, SameOrder DEF processVars
    <2>2. /\ BootIsPlain' /\ BootIsInOrder' /\ Charged' /\ DownIsDone' /\ FailuresAreKnown'
          /\ JobsSurviveRestart' /\ HealthChain'
      BY <1>2, <2>1 DEF processVars, Kept, BootIsPlain, BootIsInOrder, Charged, Booting, DownIsDone,
                        FailuresAreKnown, JobsSurviveRestart, HealthChain
    <2>3. UpIsSteady' /\ RestartIsCounted'
      BY <1>2, <2>1 DEF processVars, Kept, UpIsSteady, Steady, Restarting, RestartIsCounted
    <2>4. StopIsInOrder'
      BY <1>2, <2>1 DEF processVars, Kept, StopIsInOrder, Ending, Steady, Restarting
    <2>5. BlamelessAnswers'
      BY <1>2, <2>1 DEF processVars, Kept, BlamelessAnswers, Blameless
    <2>. QED BY <1>0, <2>2, <2>3, <2>4, <2>5 DEF Kept
  <1>. QED BY <1>1, <1>2

\* What a service needs comes before it in the order.
LEMMA NeedsComeFirst ==
  ASSUME NEW i \in DOMAIN Order, NEW j \in DOMAIN Order, Order[j] \in Needs(Order[i])
  PROVE  j < i
  <1>1. /\ Order[i] \in Names /\ Order[j] \in Names /\ i \in Nat /\ j \in Nat
        /\ Order[i] \in Services /\ Order[j] \in Services
    BY OrderIs
  <1>2. Rank(Order[i]) \in 1 .. 20 /\ Rank(Order[j]) \in 1 .. 20
    BY <1>1, RankType
  <1>3. Rank(Order[j]) < Rank(Order[i])
    <2>1. CASE Order[i] = "execution_engine"
      BY <2>1, RankIs DEF Needs
    <2>2. CASE Order[i] = "kill_switch"
      BY <2>2, RankIs DEF Needs
    <2>3. CASE Order[i] = "strategy_engine"
      BY <2>3, RankIs DEF Needs
    <2>4. CASE Order[i] = "market_feed"
      BY <2>4, RankIs DEF Needs
    <2>5. CASE Order[i] = "collector"
      BY <2>5, RankIs DEF Needs
    <2>6. CASE Order[i] = "api"
      <3>1. Order[j] \in Names \ {"api"}
        BY <1>1, <2>6 DEF Needs
      <3>2. \A s \in Names \ {"api"} : Rank(s) < 20
        BY RankIs DEF Names
      <3>. QED BY <2>6, <3>1, <3>2, RankIs
    <2>7. CASE Order[i] \notin {"execution_engine", "kill_switch", "strategy_engine", "market_feed",
                                "collector", "api"}
      BY <2>7 DEF Needs
    <2>. QED BY <2>1, <2>2, <2>3, <2>4, <2>5, <2>6, <2>7
  <1>4. ~(i < j) /\ i # j
    <2>1. i < j => Rank(Order[i]) < Rank(Order[j])
      BY OrderIs
    <2>. QED BY <1>2, <1>3, <2>1
  <1>. QED BY <1>1, <1>4

LEMMA KeptNeeds == Kept => NeedsAreUp
  <1> SUFFICES ASSUME Kept, causes = {}, ~Restarting,
                      NEW s \in Services, state[s] = "running", NEW d \in Needs(s) \cap Services
               PROVE  state[d] = "running"
    BY DEF NeedsAreUp
  <1>1. PICK i \in DOMAIN Order : Order[i] = s
    BY OrderIs
  <1>2. PICK j \in DOMAIN Order : Order[j] = d
    BY OrderIs
  <1>3. j < i /\ i \in Nat /\ j \in Nat /\ engine.at \in Nat
    BY <1>1, <1>2, NeedsComeFirst, Positions DEF Kept
  <1>4. \A t \in Services : Steady(t) => state[t] = "running"
    BY DEF Kept, FailuresAreKnown, Steady
  <1>5. engine.pc \in {"starting", "in_start", "aborted", "up", "stopping", "in_stop", "down"}
    BY DEF Kept, Shaped
  <1>6. CASE Booting
    <2>1. engine.pc \in {"starting", "in_start"}
      BY <1>6 DEF Kept, BootIsPlain, Booting
    <2>2. ~(i > engine.at) /\ i # engine.at
      BY <1>1, <1>6, <2>1 DEF Kept, BootIsInOrder
    <2>3. j < engine.at
      BY <1>3, <2>2
    <2>. QED BY <1>2, <1>6, <2>3 DEF Kept, BootIsInOrder
  <1>7. CASE engine.pc = "up"
    BY <1>4, <1>7 DEF Kept, UpIsSteady
  <1>8. CASE Ending
    <2>1. /\ i > engine.at => state[s] = "stopped"
          /\ j < engine.at => Steady(d)
      BY <1>1, <1>2, <1>8 DEF Kept, StopIsInOrder
    <2>2. ~(i > engine.at)
      BY <2>1
    <2>3. j < engine.at
      BY <1>3, <2>2
    <2>. QED BY <1>4, <2>1, <2>3
  <1>. QED BY <1>5, <1>6, <1>7, <1>8 DEF Booting, Ending

LEMMA KeptStops == Kept => ShutdownIsComplete
  <1> SUFFICES ASSUME Kept, engine.pc = "down", "crossed" \notin causes, NEW s \in Services
               PROVE  state[s] = "stopped"
    BY DEF ShutdownIsComplete
  <1>1. PICK i \in DOMAIN Order : Order[i] = s
    BY OrderIs
  <1>2. engine.at = 0 /\ i > 0
    BY OrderIs DEF Kept, DownIsDone
  <1>. QED BY <1>1, <1>2 DEF Kept, StopIsInOrder, Ending

LEMMA KeptRestarts == Kept => RestartsAreEarned
  BY DEF Kept, BlamelessAnswers, Blameless, RestartsAreEarned

\* Whatever the settings, the timeout, the budget and the number of upsets: no
\* service runs without what it needs, restarts are earned, every job survives a
\* restart of the scheduler, the monitor's transitions chain and a shutdown leaves
\* nothing running (engine.py:49-175, 477-496; watchdog.py:109-233;
\* lifecycle.py:57-101; scheduler.py:132-162; health.py:166-186).
THEOREM ServicesAreKept == ProcessSpec => []ServicesHold
  <1>1. ProcessInit => Kept
    BY KeptBegins
  <1>2. Kept /\ [ProcessNext]_processVars => Kept'
    BY StepKeepsKept
  <1>3. Kept => ServicesHold
    BY ShapedIsTyped, KeptNeeds, KeptStops, KeptRestarts DEF ServicesHold, Kept
  <1>. QED BY <1>1, <1>2, <1>3, PTL DEF ProcessSpec
=============================================================================
