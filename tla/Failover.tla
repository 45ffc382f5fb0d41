------------------------------- MODULE Failover -------------------------------
(***************************************************************************)
(* Leader election by a lease file (app/production/failover).  Several     *)
(* nodes share one file; the scheduler of each calls heartbeat() when it   *)
(* starts and then periodically.  A heartbeat reads the file, decides, and *)
(* may write it back: three steps that no lock holds together.             *)
(*                                                                         *)
(* Time is relative: the age of the lease and the time since each node's   *)
(* last heartbeat grow together, and both stop growing one unit past the   *)
(* lease's lifetime, after which they are equally old.  The clocks of the  *)
(* nodes agree.  Everything may go wrong at any moment, and `mishaps'      *)
(* remembers what has, so that every property says what it withstands.     *)
(*                                                                         *)
(* release() is not modelled: nothing calls it, a stopping node leaves its *)
(* lease behind, and so a stop and a crash are the same step.              *)
(***************************************************************************)
EXTENDS Integers, FiniteSets

CONSTANTS
    Nodes,      \* processes configured with the same lease_path
    TTL,        \* FailoverSettings.lease_ttl_seconds
    Renew,      \* FailoverSettings.renew_interval_seconds
    NoLease,    \* the file does not exist
    Torn        \* the file is empty: truncated and not yet rewritten

ASSUME FailoverAssumption ==
    /\ NoLease \notin [holder : Nodes, age : 0..(TTL + 1)]
    /\ Torn \notin [holder : Nodes, age : 0..(TTL + 1)]
    /\ NoLease # Torn
    /\ TTL \in Nat /\ Renew \in Nat /\ Renew <= TTL

VARIABLES
    lease,      \* the file: NoLease, Torn or [holder, age]
    up,         \* whether the node's process runs
    primary,    \* FailoverCoordinator._is_primary
    pc,         \* where the node's heartbeat is
    since,      \* time since the node's last heartbeat began
    dual,       \* history: how long there has been more than one primary, since
                \* the last heartbeat that could not read the lease
    mishaps     \* history: what has gone wrong so far, see Mishaps

vars == <<lease, up, primary, pc, since, dual, mishaps>>

Mishaps == {"race",     \* two heartbeats overlapped
            "read",     \* a heartbeat failed to read a lease that was there
            "write",    \* the file failed to open or to write
            "stall"}    \* a node was suspended while its heartbeat was due

Leases == [holder : Nodes, age : 0..(TTL + 1)]

TypeOK ==
    /\ lease \in Leases \cup {NoLease, Torn}
    /\ up \in [Nodes -> BOOLEAN]
    /\ primary \in [Nodes -> BOOLEAN]
    /\ pc \in [Nodes -> {"idle", "writing", "truncated"}]
    /\ since \in [Nodes -> 0..(TTL + 1)]
    /\ dual \in 0..(TTL + 1)
    /\ mishaps \in SUBSET Mishaps

Readable == lease \notin {NoLease, Torn}
Primaries == {n \in Nodes : primary[n]}

(* Every process starts as a standby, its first heartbeat due. *)
Init ==
    /\ lease = NoLease
    /\ up = [n \in Nodes |-> TRUE]
    /\ primary = [n \in Nodes |-> FALSE]
    /\ pc = [n \in Nodes |-> "idle"]
    /\ since = [n \in Nodes |-> Renew]
    /\ dual = 0
    /\ mishaps = {}

-----------------------------------------------------------------------------
(* A heartbeat. *)

Mutant_FreshUntilTheDot == Readable /\ lease.age < TTL
Fresh == Readable /\ lease.age <= TTL

(* Held by another node, and fresh: the one case in which the node yields. *)
Mutant_YieldsToTorn(n) == lease = Torn \/ (Fresh /\ lease.holder # n)
Yields(n) == Fresh /\ lease.holder # n

Mutant_StaysPrimary(n) == UNCHANGED primary
Demote(n) == primary' = [primary EXCEPT ![n] = FALSE]

Alone(n) == \A m \in Nodes \ {n} : pc[m] = "idle"
Encountered(n) == IF Alone(n) THEN {} ELSE {"race"}

(* Reading and deciding: a lease that cannot be read is taken as expired. *)
Begin(n, yields) ==
    /\ up[n] /\ pc[n] = "idle"
    /\ since' = [since EXCEPT ![n] = 0]
    /\ \/ /\ ~yields
          /\ pc' = [pc EXCEPT ![n] = "writing"]
          /\ UNCHANGED primary
       \/ /\ yields
          /\ Demote(n)
          /\ UNCHANGED pc
    /\ UNCHANGED <<lease, up>>

Heartbeat(n) ==
    /\ Begin(n, Yields(n))
    /\ dual' = IF lease = Torn THEN 0 ELSE dual
    /\ mishaps' = mishaps \cup Encountered(n)

(* An OSError on a lease that is there, fresh or not: read as none at all. *)
HeartbeatBlind(n) ==
    /\ Readable
    /\ Begin(n, FALSE)
    /\ dual' = 0
    /\ mishaps' = mishaps \cup Encountered(n) \cup {"read"}

(* write_text truncates the file, then writes it. *)
Truncate(n) ==
    /\ pc[n] = "writing"
    /\ lease' = Torn
    /\ pc' = [pc EXCEPT ![n] = "truncated"]
    /\ UNCHANGED <<up, primary, since, dual, mishaps>>

(* The lease is dated at the moment the heartbeat began. *)
Signed(n) == [holder |-> n, age |-> since[n]]

WriteLease(n) ==
    /\ pc[n] = "truncated"
    /\ lease' = Signed(n)
    /\ primary' = [primary EXCEPT ![n] = TRUE]
    /\ pc' = [pc EXCEPT ![n] = "idle"]
    /\ UNCHANGED <<up, since, dual, mishaps>>

(* The file does not open, or the disk is full: never a primary. *)
FailToWrite(n) ==
    /\ pc[n] # "idle"
    /\ Demote(n)
    /\ pc' = [pc EXCEPT ![n] = "idle"]
    /\ mishaps' = mishaps \cup {"write"}
    /\ UNCHANGED <<lease, up, since, dual>>

-----------------------------------------------------------------------------
(* The processes and the clock. *)

Crash(n) ==
    /\ up[n]
    /\ up' = [up EXCEPT ![n] = FALSE]
    /\ primary' = [primary EXCEPT ![n] = FALSE]
    /\ pc' = [pc EXCEPT ![n] = "idle"]
    /\ UNCHANGED <<lease, since, dual, mishaps>>

Restart(n) ==
    /\ ~up[n]
    /\ up' = [up EXCEPT ![n] = TRUE]
    /\ since' = [since EXCEPT ![n] = Renew]
    /\ UNCHANGED <<lease, primary, pc, dual, mishaps>>

Older(t) == IF t <= TTL THEN t + 1 ELSE t

(* Time waits for the heartbeats that are due, or somebody has stalled. *)
Prompt(n) == pc[n] = "idle" /\ (up[n] => since[n] < Renew)

Tick ==
    /\ mishaps' = IF \A n \in Nodes : Prompt(n) THEN mishaps ELSE mishaps \cup {"stall"}
    /\ lease' = IF Readable THEN [lease EXCEPT !.age = Older(@)] ELSE lease
    /\ since' = [n \in Nodes |-> Older(since[n])]
    /\ dual' = IF Cardinality(Primaries) > 1 THEN Older(dual) ELSE 0
    /\ UNCHANGED <<up, primary, pc>>

HeartbeatStep(n) ==
    Heartbeat(n) \/ HeartbeatBlind(n) \/ Truncate(n) \/ WriteLease(n) \/ FailToWrite(n)

Next ==
    \/ \E n \in Nodes : HeartbeatStep(n)
    \/ \E n \in Nodes : Crash(n) \/ Restart(n)
    \/ Tick

(* A running node's scheduler keeps calling heartbeat, and the clock runs. *)
Fairness == WF_vars(Tick) /\ \A n \in Nodes : WF_vars(HeartbeatStep(n))

Spec == Init /\ [][Next]_vars
FairSpec == Spec /\ Fairness

-----------------------------------------------------------------------------
(* Properties *)

(* "Dos primarios operando a la vez es el peor resultado posible"            *)
(* (failover/coordinator.py:10): as long as heartbeats neither overlapped,   *)
(* nor came late, nor failed to read a lease that was there, whoever         *)
(* crashes, restarts, leaves the file empty or fails to write it, no two     *)
(* nodes believe they hold the lease, a node that takes over and the one it  *)
(* takes over from included.                                                 *)
AtMostOnePrimary ==
    {"race", "stall", "read"} \cap mishaps = {} => \A m, n \in Primaries : m = n

(* When heartbeats race for an expired lease, or one of them takes a good    *)
(* lease because it cannot read it, two nodes may both be primary, and the   *)
(* loser's next heartbeat puts it right: never longer than one renewal       *)
(* period after the last heartbeat that found no legible lease, if nobody is *)
(* suspended (coordinator.py:80-91, 126-136).                                *)
DualIsShort == "stall" \notin mishaps => dual <= Renew

(* A step in which something goes wrong. *)
Trouble ==
    \/ Tick /\ ~(\A n \in Nodes : Prompt(n))
    \/ \E n \in Nodes : FailToWrite(n) \/ HeartbeatBlind(n) \/ (Heartbeat(n) /\ ~Alone(n))

(* Once processes stop dying and restarting, and nothing else goes wrong,    *)
(* leadership settles on one node for good, whatever came before and         *)
(* whatever the dead ones left in the file: a lease nobody renews, one the   *)
(* returned node wrote in an earlier life, or an empty file                  *)
(* (coordinator.py:82-91, 126-136).                                          *)
LeadershipSettles ==
    \A S \in (SUBSET Nodes) \ {{}} :
        <>[]({n \in Nodes : up[n]} = S) /\ <>[][~Trouble]_vars
            => <>[](\E n \in S : Primaries = {n})

(* Two primaries at a time are an accident of some node's, and a short one.  *)
LeasesHold == TypeOK /\ DualIsShort
=============================================================================
