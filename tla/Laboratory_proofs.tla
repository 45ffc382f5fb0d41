------------------------- MODULE Laboratory_proofs --------------------------
(***************************************************************************)
(* Three of the desks, for every value of their constants: a replay of     *)
(* history (Replay), the study of its trades (Laboratory): walk-forward    *)
(* folds, simulated equity, stability and the replay player, and what the  *)
(* strategies are told of the market (FeatureCache).                       *)
(* BackOffice_proofs composes them with the other desks.                   *)
(***************************************************************************)
EXTENDS Replay, Laboratory, FeatureCache, Sums, FiniteSetTheorems, SequenceTheorems, TLAPS

-----------------------------------------------------------------------------
(* Replays: a segment is a run of bars after its offset; a source holds the  *)
(* bars it was fed since its reset; and unless two replays overlapped, the   *)
(* one on the clock has put the wall clock away.                             *)

(* What a replay that has begun knows of its segment.                        *)
Segmented(n) == n = 0 \/ (n \in 1..Parts /\ Worthwhile(n))

Upto(r, last) == {b \in Int : Offset(r) < b /\ b <= last}

Feeding(r) ==
    /\ pc[r] \in {"enter", "install"} => bar[r] = 0 /\ fed[r] = 0 /\ market[r] = {}
    /\ pc[r] = "bar" =>
         \/ bar[r] = 0 /\ fed[r] = 0 /\ market[r] = {}
         \/ /\ bar[r] \in Offset(r) + 1..LastBar(r) - 1
            /\ fed[r] = bar[r] - Offset(r) /\ market[r] = Upto(r, bar[r])
    /\ pc[r] = "decide" =>
         /\ bar[r] \in Offset(r) + 1..LastBar(r)
         /\ fed[r] = bar[r] - 1 - Offset(r) /\ market[r] = Upto(r, bar[r] - 1)
    /\ pc[r] = "leave" => bar[r] = LastBar(r) /\ market[r] = Upto(r, bar[r])

ClockInTurn ==
    ~overlapped =>
        /\ \A r, s \in OnTheClock : r = s
        /\ \A r \in OnTheClock : savedClock[r] = Wall
        /\ \A r \in Inside : clock = r
        /\ Inside = {} => clock = Wall

ReplayInv ==
    /\ ReplayTypeOK
    /\ ClockInTurn
    /\ \A r \in Replays : Segmented(segment[r]) /\ Feeding(r)

LEMMA PartSize ==
    ASSUME NEW k \in Nat \ {0}, Parts = k
    PROVE  /\ Bars \div Parts \in Nat /\ k * (Bars \div Parts) <= Bars
           /\ Bars >= Parts => Bars \div Parts >= 1
  <1>0. Bars \in Nat /\ k \in Nat /\ k > 0
    BY PartsAssumption
  <1>1. /\ Bars % k \in Nat /\ Bars % k < k /\ Bars \div k \in Nat
        /\ Bars = k * (Bars \div k) + (Bars % k)
    BY <1>0
  <1> DEFINE size == Bars \div k
  <1>2. size \in Nat /\ k * size <= Bars /\ Bars < k * size + k
    BY <1>0, <1>1
  <1> HIDE DEF size
  <1>3. ASSUME Bars >= k PROVE size >= 1
    <2>1. CASE size = 0
      BY <1>0, <1>2, <1>3, <2>1
    <2>. QED BY <1>2, <2>1
  <1>. QED BY <1>2, <1>3 DEF size

(* A segment of one bar or more, and where it begins and ends.               *)
LEMMA SegmentIs ==
    ASSUME NEW n \in 0..Parts, Segmented(n)
    PROVE  LET off == IF n = 0 THEN 0 ELSE (n - 1) * (Bars \div Parts)
               len == Cardinality(SegmentBars(n))
           IN  /\ off \in 0..Bars /\ len \in Nat /\ off + len <= Bars
               /\ SegmentBars(n) = {b \in Int : off < b /\ b <= off + len}
  <1> DEFINE size == Bars \div Parts
             off == IF n = 0 THEN 0 ELSE (n - 1) * size
             last == IF n = 0 \/ n = Parts THEN Bars ELSE n * size
  <1>1. Bars \in Nat /\ Parts \in Nat \ {0}
    BY PartsAssumption
  <1>2. size \in Nat /\ Parts * size <= Bars
    BY <1>1, PartSize
  <1> HIDE DEF size
  <1>3. off \in Nat /\ last \in Nat /\ off <= last /\ last <= Bars
    <2>1. CASE n = 0
      BY <1>1, <2>1
    <2>2. CASE n # 0
      <3>1. n \in Nat /\ n >= 1 /\ n <= Parts
        BY <1>1, <2>2
      <3>2. /\ n * size \in Nat /\ (n - 1) * size \in Nat /\ n * size = (n - 1) * size + size
            /\ Parts * size = n * size + (Parts - n) * size /\ (Parts - n) * size \in Nat
        BY <1>1, <1>2, <3>1
      <3>3. off = (n - 1) * size
        BY <2>2
      <3> HIDE DEF off
      <3>4. off \in Nat /\ off <= n * size /\ n * size <= Bars
        BY <1>1, <1>2, <3>2, <3>3
      <3>5. CASE n = Parts
        BY <1>1, <3>2, <3>4, <3>5
      <3>6. CASE n # Parts
        BY <1>1, <3>2, <3>4, <2>2, <3>6
      <3>. QED BY <3>5, <3>6
    <2>. QED BY <2>1, <2>2
  <1>4. SegmentBars(n) = off + 1..last
    <2>1. CASE n = 0
      BY <2>1 DEF SegmentBars
    <2>2. CASE n # 0
      BY <2>2 DEF SegmentBars, size
    <2>. QED BY <2>1, <2>2
  <1> HIDE DEF off, last
  <1>5. Cardinality(off + 1..last) = last - off
    <2>1. Cardinality(off + 1..last) = IF off + 1 > last THEN 0 ELSE last - (off + 1) + 1
      BY <1>3, FS_Interval
    <2>. QED BY <1>3, <2>1
  <1>6. SegmentBars(n) = {b \in Int : off < b /\ b <= last}
    BY <1>3, <1>4
  <1>7. Cardinality(SegmentBars(n)) = last - off
    BY <1>4, <1>5
  <1>8. /\ off \in 0..Bars /\ last - off \in Nat /\ off + (last - off) <= Bars /\ off + (last - off) = last
    BY <1>1, <1>3
  <1>. QED BY <1>6, <1>7, <1>8 DEF off, size

LEMMA ReplayOffset ==
    ASSUME NEW r \in Replays, segment[r] \in 0..Parts, Segmented(segment[r])
    PROVE  /\ Offset(r) \in 0..Bars /\ LastBar(r) \in 0..Bars /\ Offset(r) <= LastBar(r)
           /\ SegmentBars(segment[r]) = Upto(r, LastBar(r))
  <1> DEFINE n == segment[r]
             off == IF n = 0 THEN 0 ELSE (n - 1) * (Bars \div Parts)
             len == Cardinality(SegmentBars(n))
  <1>1. /\ off \in 0..Bars /\ len \in Nat /\ off + len <= Bars
        /\ SegmentBars(n) = {b \in Int : off < b /\ b <= off + len}
    BY SegmentIs
  <1>2. Offset(r) = off /\ LastBar(r) = off + len
    BY DEF Offset, LastBar
  <1> HIDE DEF off, len
  <1>3. Bars \in Nat
    BY PartsAssumption
  <1>. QED BY <1>1, <1>2, <1>3 DEF Upto

LEMMA FollowingIs ==
    ASSUME NEW n \in 0..Parts, Following(n) # {}
    PROVE  (CHOOSE m \in Following(n) : TRUE) \in 1..Parts
           /\ Segmented(CHOOSE m \in Following(n) : TRUE)
  <1> DEFINE m == CHOOSE x \in Following(n) : TRUE
  <1>1. m \in Following(n)
    OBVIOUS
  <1> HIDE DEF m
  <1>2. m \in (n + 1)..Parts /\ Worthwhile(m)
    BY <1>1 DEF Following
  <1>3. m \in 1..Parts
    BY <1>2, PartsAssumption
  <1>. QED BY <1>2, <1>3 DEF m, Segmented
LEMMA ReplaysStart == ReplayInit => ReplayInv
  <1> SUFFICES ASSUME ReplayInit PROVE ReplayInv
    OBVIOUS
  <1>1. /\ clock = Wall /\ savedClock = [r \in Replays |-> Wall] /\ pc = [r \in Replays |-> "idle"]
        /\ segment = [r \in Replays |-> 0] /\ bar = [r \in Replays |-> 0] /\ overlapped = FALSE
        /\ fed = [r \in Replays |-> 0] /\ market = [r \in Replays |-> {}]
    BY DEF ReplayInit, Unfed
  <1>2. 0 \in 0..Bars /\ 0 \in 0..Parts
    BY PartsAssumption
  <1>3. ReplayTypeOK
    BY <1>1, <1>2 DEF ReplayTypeOK
  <1>4. OnTheClock = {} /\ Inside = {}
    BY <1>1 DEF OnTheClock, Inside
  <1>5. ClockInTurn
    BY <1>1, <1>4 DEF ClockInTurn
  <1>6. \A r \in Replays : Segmented(segment[r]) /\ Feeding(r)
    BY <1>1 DEF Segmented, Feeding
  <1>. QED BY <1>3, <1>5, <1>6 DEF ReplayInv

(* A replay that does not move keeps what it was fed.                        *)
LEMMA ReplayStays ==
    ASSUME NEW s \in Replays, Segmented(segment[s]), Feeding(s),
           pc'[s] = pc[s], segment'[s] = segment[s], bar'[s] = bar[s],
           fed'[s] = fed[s], market'[s] = market[s]
    PROVE  Segmented(segment[s])' /\ Feeding(s)'
  BY DEF Segmented, Feeding, Offset, LastBar, Upto

Places == {"idle", "enter", "install", "bar", "decide", "leave", "fail", "done"}

LEMMA ClockKept ==
    ASSUME ReplayTypeOK, ClockInTurn, NEW r \in Replays,
           Begin(r) \/ PlayBar(r) \/ Decide(r) \/ DecideRaises(r)
    PROVE  ClockInTurn'
  <1>1. UNCHANGED <<clock, savedClock, overlapped>> /\ pc \in [Replays -> Places]
    BY DEF ReplayTypeOK, Places, Begin, PlayBar, Decide, DecideRaises
  <1>2. \E where \in {"enter", "decide", "leave", "bar", "fail"} :
          /\ pc' = [pc EXCEPT ![r] = where]
          /\ where = "enter" <=> pc[r] = "idle"
          /\ pc[r] \in {"idle", "bar", "decide"}
    BY DEF Begin, PlayBar, Decide, DecideRaises, To
  <1>3. OnTheClock' = OnTheClock /\ Inside' = Inside
    BY <1>1, <1>2 DEF OnTheClock, Inside
  <1>. QED BY <1>1, <1>3 DEF ClockInTurn

LEMMA ClockTurns ==
    ASSUME ReplayTypeOK, ClockInTurn, NEW r \in Replays,
           SaveClock(r) \/ InstallClock(r) \/ LeaveClock(r) \/ LeaveFailed(r)
    PROVE  ClockInTurn'
  <1>0. /\ pc \in [Replays -> Places] /\ savedClock \in [Replays -> Replays \cup {Wall}]
        /\ overlapped \in BOOLEAN /\ overlapped' \in BOOLEAN
    BY DEF ReplayTypeOK, Places, OnTheClock, SaveClock, InstallClock, LeaveClock, LeaveFailed
  <1> SUFFICES ASSUME ~overlapped'
               PROVE  /\ \A s, t \in OnTheClock' : s = t
                      /\ \A s \in OnTheClock' : savedClock'[s] = Wall
                      /\ \A s \in Inside' : clock' = s
                      /\ Inside' = {} => clock' = Wall
    BY DEF ClockInTurn
  <1>1. ~overlapped
    BY DEF SaveClock, InstallClock, LeaveClock, LeaveFailed
  <1>2. /\ \A s, t \in OnTheClock : s = t
        /\ \A s \in OnTheClock : savedClock[s] = Wall
        /\ \A s \in Inside : clock = s
        /\ Inside = {} => clock = Wall
    BY <1>1 DEF ClockInTurn
  <1>3. CASE SaveClock(r)
    <2>1. /\ OnTheClock = {} /\ pc' = [pc EXCEPT ![r] = "install"] /\ clock' = clock
          /\ savedClock' = [savedClock EXCEPT ![r] = clock]
      BY <1>3 DEF SaveClock, To
    <2>2. Inside = {}
      BY <2>1 DEF Inside, OnTheClock
    <2>3. OnTheClock' = {r} /\ Inside' = {}
      BY <1>0, <2>1, <2>2 DEF Inside, OnTheClock
    <2>4. savedClock'[r] = Wall /\ clock' = Wall
      BY <1>0, <1>2, <2>1, <2>2
    <2>. QED BY <2>3, <2>4
  <1>4. CASE InstallClock(r)
    <2>1. /\ pc[r] = "install" /\ pc' = [pc EXCEPT ![r] = "bar"] /\ clock' = r /\ savedClock' = savedClock
      BY <1>4 DEF InstallClock, To, SetClock
    <2>2. r \in OnTheClock
      BY <2>1 DEF OnTheClock
    <2>3. OnTheClock' = OnTheClock /\ Inside' = Inside \cup {r} /\ Inside \subseteq OnTheClock
      BY <1>0, <2>1 DEF Inside, OnTheClock
    <2>4. Inside' = {r}
      BY <1>2, <2>2, <2>3
    <2>. QED BY <1>2, <2>1, <2>3, <2>4
  <1>5. CASE LeaveClock(r) \/ LeaveFailed(r)
    <2>1. /\ r \in OnTheClock /\ clock' = savedClock[r]
          /\ \E where \in {"done", "idle"} : pc' = [pc EXCEPT ![r] = where]
      BY <1>5 DEF LeaveClock, LeaveFailed, To, Restored, OnTheClock
    <2>2. OnTheClock' = {}
      BY <1>0, <1>2, <2>1 DEF OnTheClock
    <2>3. Inside' = {}
      BY <2>2 DEF Inside, OnTheClock
    <2>. QED BY <1>2, <2>1, <2>2, <2>3
  <1>. QED BY <1>3, <1>4, <1>5
LEMMA ReplayMoves ==
    ASSUME ReplayInv, NEW r \in Replays,
           \/ Begin(r) \/ SaveClock(r) \/ InstallClock(r) \/ PlayBar(r)
           \/ Decide(r) \/ DecideRaises(r) \/ LeaveClock(r) \/ LeaveFailed(r)
    PROVE  ReplayInv'
  <1>0. /\ ReplayTypeOK /\ ClockInTurn /\ \A s \in Replays : Segmented(segment[s]) /\ Feeding(s)
        /\ clock \in Replays \cup {Wall} /\ savedClock \in [Replays -> Replays \cup {Wall}]
        /\ pc \in [Replays -> Places] /\ segment \in [Replays -> 0..Parts]
        /\ bar \in [Replays -> 0..Bars] /\ fed \in [Replays -> 0..Bars]
        /\ market \in [Replays -> SUBSET (1..Bars)] /\ overlapped \in BOOLEAN
    BY DEF ReplayInv, ReplayTypeOK, Places
  <1>1. ClockInTurn'
    BY <1>0, ClockKept, ClockTurns
  <1>2. Bars \in Nat /\ Parts \in Nat
    BY PartsAssumption
  <1>3. /\ Offset(r) \in 0..Bars /\ LastBar(r) \in 0..Bars /\ Offset(r) <= LastBar(r)
        /\ Segmented(segment[r]) /\ Feeding(r) /\ segment[r] \in 0..Parts
    BY <1>0, ReplayOffset
  <1> SUFFICES /\ ReplayTypeOK'
               /\ \A s \in Replays : Segmented(segment[s])' /\ Feeding(s)'
    BY <1>1 DEF ReplayInv
  (* It is enough to look at the replay that moves. *)
  <1>4. ASSUME \A s \in Replays \ {r} : /\ pc'[s] = pc[s] /\ segment'[s] = segment[s] /\ bar'[s] = bar[s]
                                        /\ fed'[s] = fed[s] /\ market'[s] = market[s],
               Segmented(segment[r])' /\ Feeding(r)'
        PROVE  \A s \in Replays : Segmented(segment[s])' /\ Feeding(s)'
    BY <1>0, <1>4, ReplayStays
  <1>5. CASE Begin(r)
    <2>1. /\ pc' = [pc EXCEPT ![r] = "enter"] /\ bar' = [bar EXCEPT ![r] = 0]
          /\ fed' = [fed EXCEPT ![r] = 0] /\ market' = [market EXCEPT ![r] = {}]
          /\ UNCHANGED <<clock, savedClock, segment, overlapped>>
      BY <1>5 DEF Begin, To, Reset
    <2>2. ReplayTypeOK'
      BY <1>0, <1>2, <2>1 DEF ReplayTypeOK, Places
    <2>3. Segmented(segment[r])' /\ Feeding(r)'
      BY <1>0, <1>3, <2>1 DEF Segmented, Feeding
    <2>. QED BY <1>0, <1>4, <2>1, <2>2, <2>3
  <1>6. CASE SaveClock(r) \/ InstallClock(r)
    <2>1. /\ \E where \in {"install", "bar"} : pc' = [pc EXCEPT ![r] = where]
          /\ pc[r] \in {"enter", "install"}
          /\ UNCHANGED <<segment, bar, fed, market>>
      BY <1>6 DEF SaveClock, InstallClock, To
    <2>2. /\ savedClock' \in [Replays -> Replays \cup {Wall}] /\ clock' \in Replays \cup {Wall}
          /\ overlapped' \in BOOLEAN
      BY <1>0, <1>6 DEF SaveClock, InstallClock, SetClock
    <2>3. ReplayTypeOK'
      BY <1>0, <2>1, <2>2 DEF ReplayTypeOK, Places
    <2>4. Segmented(segment[r])' /\ Feeding(r)'
      BY <1>0, <1>3, <2>1 DEF Segmented, Feeding
    <2>. QED BY <1>0, <1>4, <2>1, <2>3, <2>4
  <1>7. CASE PlayBar(r)
    <2> DEFINE next == IF bar[r] = 0 THEN Offset(r) + 1 ELSE bar[r] + 1
    <2>1. /\ pc[r] = "bar" /\ next <= LastBar(r) /\ bar' = [bar EXCEPT ![r] = next]
          /\ pc' = [pc EXCEPT ![r] = "decide"]
          /\ UNCHANGED <<clock, savedClock, segment, fed, market, overlapped>>
      BY <1>7 DEF PlayBar, To
    <2>2. bar[r] \in 0..Bars
      BY <1>0
    <2>3. /\ next \in Offset(r) + 1..LastBar(r) /\ next \in 0..Bars
          /\ fed[r] = next - 1 - Offset(r) /\ market[r] = Upto(r, next - 1)
      <3>1. CASE bar[r] = 0
        <4>1. fed[r] = 0 /\ market[r] = {}
          BY <1>2, <1>3, <2>1, <3>1 DEF Feeding
        <4>2. Upto(r, Offset(r)) = {}
          BY <1>2, <1>3 DEF Upto
        <4>. QED BY <1>2, <1>3, <2>1, <3>1, <4>1, <4>2
      <3>2. CASE bar[r] # 0
        <4>1. /\ bar[r] \in Offset(r) + 1..LastBar(r) - 1
              /\ fed[r] = bar[r] - Offset(r) /\ market[r] = Upto(r, bar[r])
          BY <1>3, <2>1, <3>2 DEF Feeding
        <4>. QED BY <1>2, <1>3, <2>1, <2>2, <3>2, <4>1
      <3>. QED BY <3>1, <3>2
    <2> HIDE DEF next
    <2>4. ReplayTypeOK'
      BY <1>0, <2>1, <2>3 DEF ReplayTypeOK, Places
    <2>5. /\ Offset(r)' = Offset(r) /\ LastBar(r)' = LastBar(r)
          /\ Upto(r, bar[r] - 1)' = Upto(r, next - 1) /\ bar'[r] = next
      BY <1>0, <2>1 DEF Offset, LastBar, Upto
    <2>6. Segmented(segment[r])' /\ Feeding(r)'
      BY <1>0, <1>3, <2>1, <2>3, <2>5 DEF Segmented, Feeding
    <2>. QED BY <1>0, <1>4, <2>1, <2>4, <2>6
  <1>8. CASE Decide(r) \/ DecideRaises(r)
    <2> DEFINE more == (Offset(r) + fed[r] + 1)..bar[r]
    <2>1. /\ pc[r] = "decide" /\ market' = [market EXCEPT ![r] = @ \cup more]
          /\ fed' = [fed EXCEPT ![r] = bar[r] - Offset(r)]
          /\ \E where \in {"leave", "bar", "fail"} :
               /\ pc' = [pc EXCEPT ![r] = where]
               /\ where = "leave" => bar[r] = LastBar(r)
               /\ where = "bar" => bar[r] # LastBar(r)
          /\ UNCHANGED <<clock, savedClock, segment, bar, overlapped>>
      BY <1>8 DEF Decide, DecideRaises, To, FeedUpTo, PushCandles
    <2>2. /\ bar[r] \in Offset(r) + 1..LastBar(r)
          /\ fed[r] = bar[r] - 1 - Offset(r) /\ market[r] = Upto(r, bar[r] - 1)
      BY <1>3, <2>1 DEF Feeding
    <2>a. PICK o \in 0..Bars, last \in 0..Bars, b \in Int :
            o = Offset(r) /\ last = LastBar(r) /\ b = bar[r] /\ b \in o + 1..last
      BY <1>2, <1>3, <2>2
    <2>b. /\ o \in Nat /\ last \in Nat /\ o < b /\ b <= last /\ last <= Bars
          /\ o + (b - 1 - o) + 1 = b /\ b..b = {b}
      BY <1>2, <2>a
    <2>c. more = {b}
      BY <2>2, <2>a, <2>b
    <2>d. b - o \in 0..Bars /\ b \in 1..Bars /\ (b # last => b \in o + 1..last - 1)
      BY <1>2, <2>b
    <2>3. more = {bar[r]} /\ bar[r] - Offset(r) \in 0..Bars /\ bar[r] \in 1..Bars
      BY <2>a, <2>c, <2>d
    <2> HIDE DEF more
    <2>4. market[r] \cup more = Upto(r, bar[r])
      BY <1>2, <1>3, <2>2, <2>3 DEF Upto
    <2>5. market'[r] = Upto(r, bar[r]) /\ fed'[r] = bar[r] - Offset(r) /\ market[r] \cup more \subseteq 1..Bars
      BY <1>0, <2>1, <2>3, <2>4
    <2>6. ReplayTypeOK'
      <3>1. market' \in [Replays -> SUBSET (1..Bars)]
        BY <1>0, <2>1, <2>5
      <3>2. fed' \in [Replays -> 0..Bars] /\ pc' \in [Replays -> Places]
        BY <1>0, <2>1, <2>3 DEF Places
      <3>. QED BY <1>0, <2>1, <3>1, <3>2 DEF ReplayTypeOK, Places
    <2>7. /\ Offset(r)' = Offset(r) /\ LastBar(r)' = LastBar(r)
          /\ Upto(r, bar[r])' = Upto(r, bar[r]) /\ bar'[r] = bar[r]
      BY <1>0, <2>1 DEF Offset, LastBar, Upto
    <2>8. bar[r] # LastBar(r) => bar[r] \in Offset(r) + 1..LastBar(r) - 1
      BY <2>a, <2>d
    <2>9. Segmented(segment[r])' /\ Feeding(r)'
      BY <1>0, <1>3, <2>1, <2>5, <2>7, <2>8 DEF Segmented, Feeding
    <2>. QED BY <1>0, <1>4, <2>1, <2>6, <2>9
  <1>9. CASE LeaveClock(r) \/ LeaveFailed(r)
    <2>1. /\ clock' = savedClock[r] /\ UNCHANGED <<savedClock, bar, fed, market, overlapped>>
          /\ \E where \in {"done", "idle"} : pc' = [pc EXCEPT ![r] = where]
      BY <1>9 DEF LeaveClock, LeaveFailed, To, Restored
    <2>2. \/ UNCHANGED segment
          \/ /\ Following(segment[r]) # {}
             /\ segment' = [segment EXCEPT ![r] = CHOOSE m \in Following(segment[r]) : TRUE]
      BY <1>0, <1>9 DEF LeaveClock, LeaveFailed
    <2>3. /\ segment' \in [Replays -> 0..Parts] /\ Segmented(segment'[r])
          /\ \A s \in Replays \ {r} : segment'[s] = segment[s]
      <3>1. CASE UNCHANGED segment
        BY <1>0, <1>3, <3>1
      <3>2. CASE ~UNCHANGED segment
        <4> DEFINE m == CHOOSE m \in Following(segment[r]) : TRUE
        <4>1. m \in 1..Parts /\ Segmented(m)
          BY <1>3, <2>2, <3>2, FollowingIs
        <4>2. segment' = [segment EXCEPT ![r] = m]
          BY <2>2, <3>2
        <4> HIDE DEF m
        <4>3. m \in 0..Parts
          BY <1>2, <4>1
        <4>. QED BY <1>0, <4>1, <4>2, <4>3
      <3>. QED BY <3>1, <3>2
    <2>4. ReplayTypeOK'
      BY <1>0, <2>1, <2>3 DEF ReplayTypeOK, Places
    <2>5. Segmented(segment[r])' /\ Feeding(r)'
      BY <1>0, <2>1, <2>3 DEF Segmented, Feeding, Worthwhile, SegmentBars
    <2>. QED BY <1>0, <1>4, <2>1, <2>3, <2>4, <2>5
  <1>. QED BY <1>5, <1>6, <1>7, <1>8, <1>9

LEMMA ReplaySteps == ReplayInv /\ (ReplayNext \/ UNCHANGED replayVars) => ReplayInv'
  <1> SUFFICES ASSUME ReplayInv, ReplayNext \/ UNCHANGED replayVars PROVE ReplayInv'
    OBVIOUS
  <1>1. CASE ReplayNext
    BY <1>1, ReplayMoves DEF ReplayNext
  <1>2. CASE UNCHANGED replayVars
    BY <1>2 DEF replayVars, ReplayInv, ReplayTypeOK, ClockInTurn, OnTheClock, Inside, Segmented,
       Feeding, Upto, Offset, LastBar
  <1>. QED BY <1>1, <1>2

(* Every bar is in one part: the part its size says, or the last one.        *)
LEMMA OnePartEach ==
    ASSUME NEW b \in 1..Bars
    PROVE  Cardinality({n \in 1..Parts : b \in SegmentBars(n)}) = 1
  <1> DEFINE size == Bars \div Parts
             found == {n \in 1..Parts : b \in SegmentBars(n)}
  <1>1. Bars \in Nat /\ Parts \in Nat \ {0} /\ b \in Nat /\ b >= 1 /\ b <= Bars
    BY PartsAssumption
  <1>2. size \in Nat
    BY <1>1, PartSize
  <1>3. \A n \in 1..Parts :
          b \in SegmentBars(n) <=> (n - 1) * size < b /\ (n = Parts \/ b <= n * size)
    <2> SUFFICES ASSUME NEW n \in 1..Parts
                 PROVE  b \in SegmentBars(n) <=> (n - 1) * size < b /\ (n = Parts \/ b <= n * size)
      OBVIOUS
    <2>1. SegmentBars(n) = ((n - 1) * size + 1)..(IF n = Parts THEN Bars ELSE n * size)
      BY <1>1 DEF SegmentBars
    <2> HIDE DEF size
    <2>2. (n - 1) * size \in Int /\ n * size \in Int
      BY <1>2, <1>1
    <2>. QED BY <1>1, <2>1, <2>2
  <1> HIDE DEF size
  <1>4. \A m, n \in Nat : m <= n => m * size <= n * size
    <2> SUFFICES ASSUME NEW m \in Nat, NEW n \in Nat, m <= n PROVE m * size <= n * size
      OBVIOUS
    <2>1. n * size = m * size + (n - m) * size /\ (n - m) * size \in Nat /\ m * size \in Nat
      BY <1>2
    <2>. QED BY <2>1
  <1>5. \E n \in 1..Parts : b \in SegmentBars(n)
    <2> DEFINE Above == {n \in 1..Parts : n = Parts \/ b <= n * size}
    <2>1. Above \in SUBSET Nat /\ Above # {}
      BY <1>1
    <2>2. PICK n \in Above : \A m \in Above : n <= m
      BY <2>1, LeastIn
    <2>3. (n - 1) * size < b
      <3>1. CASE n = 1
        BY <1>1, <1>2, <3>1
      <3>2. CASE n # 1
        <4>1. n - 1 \in 1..Parts /\ n - 1 \notin Above /\ n - 1 \in Nat
          BY <1>1, <2>2, <3>2
        <4>2. ~(b <= (n - 1) * size) /\ (n - 1) * size \in Int
          BY <1>2, <4>1
        <4>. QED BY <1>1, <4>2
      <3>. QED BY <3>1, <3>2
    <2>. QED BY <1>3, <2>2, <2>3
  <1>6. \A m, n \in found : ~(m < n)
    <2> SUFFICES ASSUME NEW m \in found, NEW n \in found, m < n PROVE FALSE
      OBVIOUS
    <2>1. m \in Nat /\ n \in Nat /\ m <= n - 1 /\ n - 1 \in Nat /\ m # Parts
      BY <1>1
    <2>2. b <= m * size /\ (n - 1) * size < b
      BY <1>3, <2>1
    <2>3. m * size <= (n - 1) * size /\ m * size \in Nat /\ (n - 1) * size \in Nat
      BY <1>2, <1>4, <2>1
    <2>. QED BY <1>1, <2>2, <2>3
  <1>7. \A m, n \in found : m = n
    <2>1. \A n \in found : n \in Nat
      BY <1>1
    <2>. QED BY <1>6, <2>1
  <1>8. PICK n : n \in found
    BY <1>5
  <1>9. found = {n}
    BY <1>7, <1>8
  <1>. QED BY <1>9, FS_Singleton

LEMMA ReplayPromises ==
    ReplayInv => ReplayTypeOK /\ ClockComesBack /\ SeesExactlyThePast /\ PartsCoverTheSeries
  <1> SUFFICES ASSUME ReplayInv
               PROVE  ReplayTypeOK /\ ClockComesBack /\ SeesExactlyThePast /\ PartsCoverTheSeries
    OBVIOUS
  <1>1. ReplayTypeOK /\ ClockComesBack
    BY DEF ReplayInv, ClockInTurn, ClockComesBack
  <1>2. SeesExactlyThePast
    <2> SUFFICES ASSUME NEW r \in Replays, pc[r] \in {"bar", "leave"}
                 PROVE  market[r] = {b \in SegmentBars(segment[r]) : b <= bar[r]}
      BY DEF SeesExactlyThePast
    <2>1. /\ Segmented(segment[r]) /\ Feeding(r) /\ segment[r] \in 0..Parts /\ bar[r] \in 0..Bars
      BY DEF ReplayInv, ReplayTypeOK
    <2>2. /\ Offset(r) \in 0..Bars /\ LastBar(r) \in 0..Bars /\ Offset(r) <= LastBar(r)
          /\ SegmentBars(segment[r]) = Upto(r, LastBar(r))
      BY <2>1, ReplayOffset
    <2>3. Bars \in Nat
      BY PartsAssumption
    <2>4. CASE bar[r] = 0 /\ market[r] = {}
      BY <2>2, <2>3, <2>4 DEF Upto
    <2>5. CASE ~(bar[r] = 0 /\ market[r] = {})
      <3>1. bar[r] <= LastBar(r) /\ market[r] = Upto(r, bar[r])
        BY <2>1, <2>2, <2>3, <2>5 DEF Feeding
      <3>. QED BY <2>1, <2>2, <2>3, <3>1 DEF Upto
    <2>. QED BY <2>4, <2>5
  <1>3. PartsCoverTheSeries
    BY OnePartEach DEF PartsCoverTheSeries
  <1>. QED BY <1>1, <1>2, <1>3

-----------------------------------------------------------------------------
(* Walk forward: the folds are the first so many numbers, and the next one   *)
(* would run past the end.                                                   *)

LEMMA WindowShapes ==
    ASSUME NEW w \in Windows
    PROVE  /\ w.total \in Nat /\ {w.train, w.test, w.step} \subseteq Nat \ {0}
  BY StudyAssumption DEF Windows

(* How often a step fits in.                                                 *)
LEMMA StepsThatFit ==
    ASSUME NEW room \in Nat, NEW step \in Nat, step > 0
    PROVE  \E q \in Nat : /\ q <= room /\ room < (q + 1) * step
                          /\ \A n \in Nat : n * step \in Nat /\ (n * step <= room <=> n <= q)
  <1>1. /\ room % step \in Nat /\ room % step < step /\ room \div step \in Nat
        /\ room = step * (room \div step) + (room % step)
    OBVIOUS
  <1>2. PICK q \in Nat : room % step \in Nat /\ room % step < step /\ room = step * q + (room % step)
    BY <1>1
  <1>3. q * step \in Nat /\ q * step <= room /\ room < q * step + step
    BY <1>2
  <1>4. (q + 1) * step = q * step + step
    OBVIOUS
  <1>5. q <= q * step
    <2>1. q * step = q + q * (step - 1) /\ q * (step - 1) \in Nat
      OBVIOUS
    <2>. QED BY <2>1
  <1>6. \A n \in Nat : n * step \in Nat /\ (n * step <= room <=> n <= q)
    <2> TAKE n \in Nat
    <2>1. n * step \in Nat
      OBVIOUS
    <2>2. CASE n <= q
      <3>1. q * step = n * step + (q - n) * step /\ (q - n) * step \in Nat
        BY <2>2
      <3>. QED BY <1>3, <2>1, <2>2, <3>1
    <2>3. CASE ~(n <= q)
      <3>1. n - q - 1 \in Nat
        BY <2>3
      <3>2. n * step = q * step + step + (n - q - 1) * step /\ (n - q - 1) * step \in Nat
        BY <3>1
      <3>. QED BY <1>3, <2>1, <2>3, <3>2
    <2>. QED BY <2>2, <2>3
  <1>7. q <= room /\ room < (q + 1) * step
    BY <1>3, <1>4, <1>5
  <1>. QED BY <1>6, <1>7

LEMMA NoFoldMissing ==
    ASSUME NEW w \in Windows
    PROVE  w.train + Cardinality(Folds(w)) * w.step + w.test > w.total
  <1>1. PICK total \in Nat, train \in Nat, test \in Nat, step \in Nat :
           total = w.total /\ train = w.train /\ test = w.test /\ step = w.step /\ step > 0
    BY WindowShapes
  <1>2. Folds(w) = {n \in 0..total : train + n * step + test <= total}
    BY <1>1 DEF Folds
  <1>a. step > 0
    BY <1>1
  <1>b. ASSUME NEW c \in Nat, Cardinality(Folds(w)) = c, train + c * step + test > total
        PROVE  w.train + Cardinality(Folds(w)) * w.step + w.test > w.total
    BY <1>1, <1>b
  <1>3. \A n \in Nat : n * step \in Nat
    OBVIOUS
  <1>4. CASE train + test > total
    <2>1. Folds(w) = {}
      <3>1. ASSUME NEW n \in 0..total PROVE ~(train + n * step + test <= total)
        <4>1. n * step \in Nat
          BY <1>3, <3>1
        <4>. QED BY <1>4, <4>1
      <3>. QED BY <1>2, <3>1
    <2>2. Cardinality(Folds(w)) = 0
      BY <2>1, FS_EmptySet
    <2>. QED BY <1>4, <1>b, <2>2
  <1>5. CASE train + test <= total
    <2>1. PICK room \in Nat : room = total - train - test
      BY <1>5
    <2>2. PICK q \in Nat : /\ q <= room /\ room < (q + 1) * step
                           /\ \A n \in Nat : n * step \in Nat /\ (n * step <= room <=> n <= q)
      BY <1>a, StepsThatFit
    <2>3. \A n \in Nat : train + n * step + test <= total <=> n <= q
      <3> TAKE n \in Nat
      <3>1. PICK here \in Nat : here = n * step /\ (here <= room <=> n <= q)
        BY <2>2
      <3>2. train + here + test <= total <=> n <= q
        BY <2>1, <3>1
      <3>. QED BY <3>1, <3>2
    <2>4. q <= total
      BY <2>1, <2>2
    <2>5. Folds(w) = 0..q
      BY <1>2, <2>3, <2>4
    <2>6. Cardinality(0..q) = q + 1
      <3>1. Cardinality(0..q) = IF 0 > q THEN 0 ELSE q - 0 + 1
        BY FS_Interval
      <3>. QED BY <3>1
    <2>7. PICK reached \in Nat : reached = (q + 1) * step /\ room < reached
      BY <2>2
    <2>8. train + (q + 1) * step + test > total
      BY <2>1, <2>7
    <2>. QED BY <1>b, <2>5, <2>6, <2>8
  <1>. QED BY <1>4, <1>5

LEMMA TestedOutOfSample ==
    ASSUME NEW w \in Windows, NEW n \in Folds(w)
    PROVE  /\ \A t \in TrainWindow(w, n), x \in TestWindow(w, n) : t < x
           /\ TestWindow(w, n) \subseteq 0..w.total - 1
           /\ \A m \in 0..n : TrainWindow(w, m) \cap TestWindow(w, n) = {}
  <1>1. PICK total \in Nat, train \in Nat, test \in Nat, step \in Nat :
           /\ total = w.total /\ train = w.train /\ test = w.test /\ step = w.step
           /\ train > 0 /\ test > 0
    BY WindowShapes
  <1>2. n \in Nat /\ train + n * step + test <= total
    BY <1>1 DEF Folds
  <1>3. PICK at \in Nat : at = train + n * step
    BY <1>1, <1>2
  <1>4. TestWindow(w, n) = at..at + test - 1 /\ at + test <= total
    BY <1>1, <1>2, <1>3 DEF TestWindow
  <1>5. \A m \in 0..n : \A t \in TrainWindow(w, m) : t < at /\ t \in Int
    <2> SUFFICES ASSUME NEW m \in 0..n, NEW t \in TrainWindow(w, m) PROVE t < at /\ t \in Int
      OBVIOUS
    <2>1. PICK here \in Nat : here = m * step /\ here <= n * step
      <3>1. n * step = m * step + (n - m) * step /\ (n - m) * step \in Nat /\ m * step \in Nat
        BY <1>1, <1>2
      <3>. QED BY <3>1
    <2>2. PICK from \in Nat : TrainWindow(w, m) = from..(train + here - 1)
      <3>1. TrainWindow(w, m) = (IF w.scheme = "rolling" THEN here ELSE 0)..(train + here - 1)
        BY <1>1, <2>1 DEF TrainWindow
      <3>. QED BY <2>1, <3>1
    <2>3. PICK reach \in Nat : reach = n * step
      BY <1>1, <1>2
    <2>4. here <= reach /\ at = train + reach /\ t \in from..(train + here - 1)
      BY <1>3, <2>1, <2>2, <2>3
    <2>. QED BY <2>4
  <1>6. n \in 0..n
    BY <1>2
  <1>7. \A x \in TestWindow(w, n) : x \in Int /\ at <= x /\ x <= total - 1
    BY <1>1, <1>3, <1>4
  <1>8. \A t \in TrainWindow(w, n), x \in TestWindow(w, n) : t < x
    BY <1>3, <1>5, <1>6, <1>7
  <1>9. TestWindow(w, n) \subseteq 0..w.total - 1
    BY <1>1, <1>3, <1>7
  <1>10. \A m \in 0..n : TrainWindow(w, m) \cap TestWindow(w, n) = {}
    <2> SUFFICES ASSUME NEW m \in 0..n, NEW t \in TrainWindow(w, m), t \in TestWindow(w, n) PROVE FALSE
      OBVIOUS
    <2>1. t < at /\ t \in Int /\ at <= t
      BY <1>5, <1>7
    <2>. QED BY <1>3, <2>1
  <1>. QED BY <1>8, <1>9, <1>10

-----------------------------------------------------------------------------
(* A walk forward that counts as stable did not lose.                        *)

(* The arithmetic: the losses are few, so their squares weigh too much *)
(* for a negative total to be steady.                                        *)
LEMMA FewLosses ==
    ASSUME NEW n \in Nat, NEW losses \in Nat, NEW sum \in Int, NEW low \in Int,
           NEW squares \in Nat, NEW lowSquares \in Nat,
           sum < 0, low <= sum, 5 * losses <= 2 * n, lowSquares <= squares,
           low * low <= losses * lowSquares, n * squares <= 2 * (sum * sum)
    PROVE  FALSE
  <1> DEFINE ss == sum * sum
             ll == low * low
             lq == losses * lowSquares
             nl == n * lowSquares
             nq == n * squares
  <1>1. ss \in Int /\ ll \in Int /\ lq \in Int /\ nl \in Int /\ nq \in Int
    OBVIOUS
  <1>2. ss >= 1
    <2>1. sum * sum = (0 - sum) * (0 - sum) /\ 0 - sum \in Nat /\ 0 - sum >= 1
      OBVIOUS
    <2>2. PICK m \in Nat : m = 0 - sum
      BY <2>1
    <2>3. m * m = m + m * (m - 1) /\ m * (m - 1) \in Nat
      BY <2>1, <2>2
    <2>. QED BY <2>1, <2>2, <2>3
  <1>3. ss <= ll
    <2>1. PICK d \in Nat, m \in Nat : m = 0 - sum /\ d = sum - low
      OBVIOUS
    <2>2. low * low = (m + d) * (m + d) /\ sum * sum = m * m
      BY <2>1
    <2>3. (m + d) * (m + d) = m * m + m * d + m * d + d * d /\ m * d \in Nat /\ d * d \in Nat /\ m * m \in Nat
      OBVIOUS
    <2>. QED BY <2>2, <2>3
  <1>4. 5 * lq <= 2 * nl
    <2>1. PICK e \in Nat : 2 * n = 5 * losses + e
      <3>1. 2 * n - 5 * losses \in Nat /\ 2 * n = 5 * losses + (2 * n - 5 * losses)
        OBVIOUS
      <3>. QED BY <3>1
    <2>2. (2 * n) * lowSquares = (5 * losses) * lowSquares + e * lowSquares /\ e * lowSquares \in Nat
      BY <2>1
    <2>3. (2 * n) * lowSquares = 2 * nl /\ (5 * losses) * lowSquares = 5 * lq
      OBVIOUS
    <2>. QED BY <1>1, <2>2, <2>3
  <1>5. nl <= nq
    <2>1. PICK e \in Nat : squares = lowSquares + e
      <3>1. squares - lowSquares \in Nat /\ squares = lowSquares + (squares - lowSquares)
        OBVIOUS
      <3>. QED BY <3>1
    <2>2. n * squares = n * lowSquares + n * e /\ n * e \in Nat
      BY <2>1
    <2>. QED BY <1>1, <2>2
  <1>6. ll <= lq /\ nq <= 2 * ss
    OBVIOUS
  <1> HIDE DEF ss, ll, lq, nl, nq
  <1>. QED BY <1>1, <1>2, <1>3, <1>4, <1>5, <1>6

LEMMA StableSum ==
    ASSUME NEW m \in Nat, NEW x \in [1..m -> Int], IsStable(x)
    PROVE  AddUp(x) >= 0
  <1> DEFINE S == 1..m
             low == [i \in S |-> IF x[i] > 0 THEN 0 ELSE x[i]]
             lowSq == Squares(low, S)
             sq == Squares(x, S)
             won == {i \in S : x[i] > 0}
  <1>1. /\ x \in Seq(Int) /\ Len(x) = m /\ DOMAIN x = S
        /\ IsFiniteSet(S) /\ Cardinality(S) = m
    <2>1. IsFiniteSet(1..m) /\ Cardinality(1..m) = IF 1 > m THEN 0 ELSE m - 1 + 1
      BY FS_Interval
    <2>. QED BY <2>1
  <1>2. /\ IntsOn(x, S) /\ IntsOn(low, S) /\ IntsOn(lowSq, S) /\ IntsOn(sq, S)
        /\ AtMostOn(low, x, S)
    <2>1. \A i \in S : x[i] \in Int /\ x[i] * x[i] \in Int
      OBVIOUS
    <2>2. \A i \in S : low[i] \in Int /\ low[i] * low[i] \in Int /\ low[i] <= x[i]
      BY <2>1
    <2> HIDE DEF low, S
    <2>. QED BY <2>1, <2>2 DEF IntsOn, Squares, AtMostOn
  <1>3. AtMostOn(lowSq, sq, S)
    <2> SUFFICES ASSUME NEW i \in S PROVE lowSq[i] <= sq[i]
      BY DEF AtMostOn
    <2>1. lowSq[i] = low[i] * low[i] /\ sq[i] = x[i] * x[i]
      BY DEF Squares
    <2>2. PICK a \in Int : a = x[i]
      OBVIOUS
    <2>3. low[i] = IF a > 0 THEN 0 ELSE a
      BY <2>2
    <2>4. a * a >= 0 /\ a * a \in Int /\ 0 * 0 = 0
      OBVIOUS
    <2>. QED BY <2>1, <2>2, <2>3, <2>4
  <1>4. PICK sum \in Int, squares \in Nat : /\ sum = SumFunctionOnSet(x, S)
                                            /\ squares = SumFunctionOnSet(sq, S)
    <2> HIDE DEF S, sq
    <2>. QED BY <1>1, <1>2, SquareOfTheSum DEF sq
  <1>5. PICK least \in Int, lowSquares \in Nat, losses \in Nat :
           /\ least = SumFunctionOnSet(low, S) /\ lowSquares = SumFunctionOnSet(lowSq, S)
           /\ losses = Cardinality(NonZero(low, S)) /\ least * least <= losses * lowSquares
    <2> HIDE DEF S, low, lowSq
    <2>. QED BY <1>1, <1>2, SquareOfTheSum DEF lowSq
  <1>6. least <= sum /\ lowSquares <= squares
    <2> HIDE DEF S, low, lowSq, sq
    <2>. QED BY <1>1, <1>2, <1>3, <1>4, <1>5, SumIsMonotone
  <1>7. Cardinality(won) \in Nat /\ Cardinality(won) <= m /\ losses <= m - Cardinality(won)
    <2>1. won \subseteq S /\ NonZero(low, S) \subseteq S \ won
      BY DEF NonZero
    <2> HIDE DEF S, won, low
    <2>2. IsFiniteSet(won) /\ IsFiniteSet(S \ won) /\ S \cap won = won
      BY <1>1, <2>1, FS_Subset
    <2>3. Cardinality(S \ won) = m - Cardinality(won)
      <3>1. IsFiniteSet(S)
        BY <1>1
      <3>2. Cardinality(S \ won) = Cardinality(S) - Cardinality(S \cap won)
        BY <3>1, FS_Difference
      <3>. QED BY <1>1, <2>2, <3>2
    <2>4. Cardinality(NonZero(low, S)) <= Cardinality(S \ won) /\ Cardinality(won) <= Cardinality(S)
      BY <1>1, <2>1, <2>2, FS_Subset
    <2>. QED BY <1>1, <1>5, <2>2, <2>3, <2>4, FS_CardinalityType
  <1>8. 5 * Cardinality(won) >= 3 * m /\ Steady(x) /\ m # 0
    BY <1>1 DEF IsStable
  <1>9. 5 * losses <= 2 * m
    BY <1>7, <1>8
  <1>10. AddUp(x) = sum
    BY <1>1, <1>4 DEF AddUp
  <1>11. AddUp([i \in DOMAIN x |-> x[i] * x[i]]) = squares
    <2>1. [i \in DOMAIN x |-> x[i] * x[i]] = sq
      BY <1>1 DEF Squares
    <2>2. DOMAIN sq = S
      BY DEF Squares
    <2>. QED BY <1>4, <2>1, <2>2 DEF AddUp
  <1>12. m < 2 \/ sum = 0 \/ m * squares <= 2 * sum * sum
    BY <1>1, <1>8, <1>10, <1>11 DEF Steady
  <1> SUFFICES ASSUME sum < 0 PROVE FALSE
    BY <1>10
  <1>13. CASE m < 2
    <2>1. losses = 0
      BY <1>8, <1>9, <1>13
    <2>2. least * least <= 0 /\ least < 0
      BY <1>5, <1>6, <2>1
    <2>. QED BY <2>2
  <1>14. CASE m * squares <= 2 * sum * sum
    <2>1. 2 * sum * sum = 2 * (sum * sum)
      OBVIOUS
    <2>. QED BY <1>5, <1>6, <1>9, <1>14, <2>1, FewLosses
  <1>. QED BY <1>12, <1>13, <1>14

-----------------------------------------------------------------------------
(* The greatest of a set of numbers, and of two.                             *)

LEMMA GreatestIn ==
    ASSUME NEW n \in Nat, NEW S \in SUBSET (1..n), S # {}
    PROVE  Max(S) \in S /\ Max(S) \in 1..n /\ \A y \in S : y <= Max(S)
  <1> DEFINE T == {n - y : y \in S}
  <1>1. T \in SUBSET Nat /\ T # {}
    <2>1. \A y \in S : n - y \in Nat
      OBVIOUS
    <2>2. PICK y \in S : TRUE
      OBVIOUS
    <2>3. n - y \in T
      OBVIOUS
    <2>. QED BY <2>1, <2>3
  <1> HIDE DEF T
  <1>2. PICK t \in T : \A u \in T : t <= u
    BY <1>1, LeastIn
  <1>3. PICK x \in S : t = n - x
    BY <1>2 DEF T
  <1>4. \A y \in S : n - y \in T
    BY DEF T
  <1>5. \A y \in S : y <= x
    BY <1>2, <1>3, <1>4
  <1>6. \E g \in S : \A y \in S : g >= y
    BY <1>5
  <1>7. Max(S) \in S /\ \A y \in S : Max(S) >= y
    BY <1>6 DEF Max
  <1>. QED BY <1>7

LEMMA OfTwo ==
    ASSUME NEW a \in Int, NEW b \in Int
    PROVE  /\ Max({a, b}) = IF a >= b THEN a ELSE b
           /\ Min({a, b}) = IF a <= b THEN a ELSE b
  <1>1. Max({a, b}) = IF a >= b THEN a ELSE b
    <2> DEFINE m == IF a >= b THEN a ELSE b
    <2>1. m \in {a, b} /\ \A y \in {a, b} : m >= y
      OBVIOUS
    <2>2. Max({a, b}) \in {a, b} /\ \A y \in {a, b} : Max({a, b}) >= y
      <3> HIDE DEF m
      <3>. QED BY <2>1 DEF Max
    <2>. QED BY <2>2
  <1>2. Min({a, b}) = IF a <= b THEN a ELSE b
    <2> DEFINE m == IF a <= b THEN a ELSE b
    <2>1. m \in {a, b} /\ \A y \in {a, b} : m <= y
      OBVIOUS
    <2>2. Min({a, b}) \in {a, b} /\ \A y \in {a, b} : Min({a, b}) <= y
      <3> HIDE DEF m
      <3>. QED BY <2>1 DEF Min
    <2>. QED BY <2>2
  <1>. QED BY <1>1, <1>2

LEMMA TwoOf ==
    ASSUME NEW S, IsFiniteSet(S), NEW x \in S, NEW y \in S, x # y
    PROVE  Cardinality(S) >= 2
  <1>1. {x, y} \subseteq S
    OBVIOUS
  <1>2. Cardinality({x}) = 1 /\ IsFiniteSet({x})
    BY FS_Singleton
  <1>3. {x, y} = {x} \cup {y} /\ y \notin {x}
    OBVIOUS
  <1>4. IsFiniteSet({x, y}) /\ Cardinality({x, y}) = 2
    <2>1. Cardinality({x} \cup {y}) = Cardinality({x}) + 1 /\ IsFiniteSet({x} \cup {y})
      BY <1>2, <1>3, FS_AddElement
    <2>. QED BY <1>2, <1>3, <2>1
  <1>5. Cardinality({x, y}) <= Cardinality(S)
    BY <1>1, FS_Subset
  <1>. QED BY <1>4, <1>5, FS_CardinalityType

-----------------------------------------------------------------------------
(* The path of a simulation, by its prefixes.  The library folds over sets   *)
(* of places, the last one first.                                            *)

Start == [equity |-> Capital, peak |-> Capital, worst |-> <<0, Capital>>, ruined |-> FALSE]
PathStep(pnls, g, s) ==
    IF s = {} THEN Start ELSE AfterTrade(g[s \ {Max(s)}], pnls[Max(s)])
PathOf(pnls, S) == CHOOSE g : g = [s \in SUBSET S |-> PathStep(pnls, g, s)]
Pathed(pnls, S, n) == \E g : g = [s \in Small(S, n) |-> PathStep(pnls, g, s)]

LEMMA SimulationIsPath ==
    ASSUME NEW pnls
    PROVE  SimulatePath(pnls) = PathOf(pnls, DOMAIN pnls)[DOMAIN pnls]
  BY Zenon DEF SimulatePath, FoldLeft, MapThenFoldSet, PathOf, PathStep, Start

LEMMA WithoutTheLast ==
    ASSUME NEW k \in Nat, NEW n \in Nat, NEW s \in Small(1..k, n + 1), s # {}
    PROVE  s \ {Max(s)} \in Small(1..k, n)
  <1>1. IsFiniteSet(1..k) /\ s \in SUBSET (1..k)
    BY FS_Interval DEF Small
  <1>2. IsFiniteSet(s) /\ Cardinality(s) \in Nat /\ Cardinality(s) <= n + 1
    BY <1>1, FS_Subset, FS_CardinalityType DEF Small
  <1>3. Max(s) \in s
    BY <1>1, GreatestIn
  <1>4. Cardinality(s \ {Max(s)}) = Cardinality(s) - 1
    BY <1>2, <1>3, FS_RemoveElement
  <1>5. Cardinality(s \ {Max(s)}) <= n
    BY <1>2, <1>4
  <1>6. s \ {Max(s)} \in SUBSET (1..k)
    BY <1>1
  <1>. QED BY <1>5, <1>6 DEF Small

LEMMA PathGrows ==
    ASSUME NEW k \in Nat, NEW pnls, NEW n \in Nat, Pathed(pnls, 1..k, n)
    PROVE  Pathed(pnls, 1..k, n + 1)
  <1> DEFINE S == 1..k
  <1>a. IsFiniteSet(S)
    BY FS_Interval
  <1>2. \A s \in Small(S, n + 1) : s # {} => s \ {Max(s)} \in Small(S, n)
    BY WithoutTheLast
  <1>1. PICK g : g = [s \in Small(S, n) |-> PathStep(pnls, g, s)]
    BY DEF Pathed
  <1> HIDE DEF S
  <1> DEFINE h == [s \in Small(S, n + 1) |-> PathStep(pnls, g, s)]
  <1>3. \A s \in Small(S, n) : s \in Small(S, n + 1)
    <2>1. \A s \in SUBSET S : Cardinality(s) \in Nat
      BY <1>a, FS_Subset, FS_CardinalityType
    <2>. QED BY <2>1 DEF Small
  <1>4. \A s \in Small(S, n) : h[s] = g[s]
    BY <1>1, <1>3
  <1>5. \A s \in Small(S, n + 1) : PathStep(pnls, h, s) = PathStep(pnls, g, s)
    <2> TAKE s \in Small(S, n + 1)
    <2>1. s # {} => h[s \ {Max(s)}] = g[s \ {Max(s)}]
      BY <1>2, <1>4
    <2> HIDE DEF h
    <2>. QED BY <2>1 DEF PathStep
  <1>6. h = [s \in Small(S, n + 1) |-> PathStep(pnls, h, s)]
    BY <1>5, Zenon
  <1> HIDE DEF h
  <1>. QED BY <1>6 DEF Pathed, S

LEMMA PathEquation ==
    ASSUME NEW k \in Nat, NEW pnls
    PROVE  \A s \in SUBSET (1..k) : PathOf(pnls, 1..k)[s] = PathStep(pnls, PathOf(pnls, 1..k), s)
  <1> DEFINE S == 1..k
             T == {n \in Nat : Pathed(pnls, S, n)}
  <1>a. IsFiniteSet(S)
    BY FS_Interval
  <1>2. \A n \in Nat : n \in T => n + 1 \in T
    BY PathGrows
  <1> HIDE DEF S
  <1>1. Pathed(pnls, S, 0)
    <2> DEFINE z == [s \in Small(S, 0) |-> Start]
    <2>1. \A s \in Small(S, 0) : s = {}
      <3> TAKE s \in Small(S, 0)
      <3>1. IsFiniteSet(s) /\ Cardinality(s) \in Nat /\ Cardinality(s) <= 0
        BY <1>a, FS_Subset, FS_CardinalityType DEF Small
      <3>. QED BY <3>1, FS_EmptySet
    <2>2. \A s \in Small(S, 0) : PathStep(pnls, z, s) = Start
      BY <2>1 DEF PathStep
    <2>3. z = [s \in Small(S, 0) |-> PathStep(pnls, z, s)]
      BY <2>2, Zenon
    <2> HIDE DEF z
    <2>. QED BY <2>3 DEF Pathed
  <1>3. Nat \subseteq T
    <2> HIDE DEF T
    <2>1. 0 \in T
      BY <1>1 DEF T
    <2>. QED BY <1>2, <2>1, CountedUp
  <1>4. Pathed(pnls, S, Cardinality(S))
    BY <1>3, <1>a, FS_CardinalityType
  <1>6. Small(S, Cardinality(S)) = SUBSET S
    BY <1>a, FS_Subset DEF Small
  <1>7. \E g : g = [s \in SUBSET S |-> PathStep(pnls, g, s)]
    BY <1>4, <1>6 DEF Pathed
  <1> DEFINE G == PathOf(pnls, S)
  <1>8. G = [s \in SUBSET S |-> PathStep(pnls, G, s)]
    BY <1>7, Zenon DEF PathOf
  <1> HIDE DEF G
  <1>9. \A s \in SUBSET S : G[s] = PathStep(pnls, G, s)
    BY <1>8
  <1>. QED BY <1>9 DEF G, S

(* As deep a fall as one that is as deep as a third.                         *)
LEMMA FallsCarry ==
    ASSUME NEW d \in Int, NEW e \in Nat, NEW f \in Int, NEW p \in Nat, p > 0,
           NEW g \in Int, NEW c \in Nat, d * p >= f * e, f * c >= g * p
    PROVE  d * c >= g * e
  <1> DEFINE dp == d * p
             fe == f * e
             fc == f * c
             gp == g * p
             dc == d * c
             ge == g * e
  <1>1. /\ dp \in Int /\ fe \in Int /\ fc \in Int /\ gp \in Int /\ dc \in Int /\ ge \in Int
        /\ dp >= fe /\ fc >= gp
    OBVIOUS
  <1>2. dc * p = dp * c /\ fe * c = fc * e /\ gp * e = ge * p
    OBVIOUS
  <1> HIDE DEF dp, fe, fc, gp, dc, ge
  <1>3. dp * c >= fe * c
    <2>1. (dp - fe) * c \in Nat /\ dp * c = fe * c + (dp - fe) * c /\ fe * c \in Int
      BY <1>1
    <2>. QED BY <2>1
  <1>4. fc * e >= gp * e
    <2>1. (fc - gp) * e \in Nat /\ fc * e = gp * e + (fc - gp) * e /\ gp * e \in Int
      BY <1>1
    <2>. QED BY <2>1
  <1>5. dc * p >= ge * p
    <2>1. dc * p \in Int /\ ge * p \in Int /\ fe * c \in Int
      BY <1>1
    <2>. QED BY <1>2, <1>3, <1>4, <2>1
  <1>6. dc >= ge
    <2> SUFFICES ASSUME ~(dc >= ge) PROVE FALSE
      OBVIOUS
    <2>1. PICK q \in Nat : ge = dc + q + 1
      <3>1. ge - dc - 1 \in Nat /\ ge = dc + (ge - dc - 1) + 1
        BY <1>1
      <3>. QED BY <3>1
    <2>2. ge * p = dc * p + q * p + p /\ q * p \in Nat /\ dc * p \in Int
      BY <1>1, <2>1
    <2>. QED BY <1>5, <2>2
  <1>. QED BY <1>6 DEF dc, ge

(* The arithmetic of one trade: the fall kept is as deep as either.          *)
DeepEnough(e, p, a, b) == a * p >= (p - e) * b
Ruinous(a, b) == 100 * a >= RuinPct * b

OnPath(at) ==
    \E e \in Int, p \in Nat, a \in Nat, b \in Nat, r \in BOOLEAN :
        /\ at = [equity |-> e, peak |-> p, worst |-> <<a, b>>, ruined |-> r]
        /\ p >= Capital /\ p >= e /\ b > 0
        /\ DeepEnough(e, p, a, b)
        /\ r => Ruinous(a, b)

LEMMA StartOnPath == OnPath(Start)
  <1>1. Capital \in Nat /\ Capital > 0 /\ Capital \in Int
    BY StudyAssumption
  <1>2. DeepEnough(Capital, Capital, 0, Capital)
    <2>1. 0 * Capital = 0 /\ (Capital - Capital) * Capital = 0
      BY <1>1
    <2>. QED BY <2>1 DEF DeepEnough
  <1>3. /\ Start = [equity |-> Capital, peak |-> Capital, worst |-> <<0, Capital>>, ruined |-> FALSE]
        /\ Capital >= Capital /\ FALSE \in BOOLEAN /\ 0 \in Nat /\ (FALSE => Ruinous(0, Capital))
    BY <1>1 DEF Start
  <1>. QED BY <1>1, <1>2, <1>3 DEF OnPath

LEMMA RuinIsDeep ==
    ASSUME NEW e \in Int, NEW p \in Nat, p >= Capital, 100 * e <= Capital * (100 - RuinPct)
    PROVE  (p - e) * 100 >= RuinPct * p
  <1>1. PICK c \in Nat, keep \in Nat : c = Capital /\ keep = 100 - RuinPct /\ RuinPct = 100 - keep
    BY StudyAssumption
  <1>2. 100 * e <= c * keep /\ p >= c
    BY <1>1
  <1>3. p * keep = c * keep + (p - c) * keep /\ (p - c) * keep \in Nat /\ c * keep \in Nat
    BY <1>2
  <1>4. 100 * e <= p * keep /\ p * keep \in Nat
    BY <1>2, <1>3
  <1>5. (100 - keep) * p = 100 * p - p * keep
    OBVIOUS
  <1>6. (p - e) * 100 >= (100 - keep) * p
    BY <1>4, <1>5
  <1>. QED BY <1>1, <1>6

LEMMA TradeStaysOnPath ==
    ASSUME NEW at, OnPath(at), NEW pnl \in Int
    PROVE  OnPath(AfterTrade(at, pnl))
  <1>1. PICK e0 \in Int, p0 \in Nat, a \in Nat, b \in Nat, r \in BOOLEAN :
           /\ at = [equity |-> e0, peak |-> p0, worst |-> <<a, b>>, ruined |-> r]
           /\ p0 >= Capital /\ p0 >= e0 /\ b > 0
           /\ r => Ruinous(a, b)
    BY DEF OnPath
  <1>a. Capital \in Nat /\ Capital > 0 /\ RuinPct \in Nat
    BY StudyAssumption
  <1>2. PICK e \in Int : e = e0 + pnl
    OBVIOUS
  <1>3. PICK p \in Nat : p = Max({p0, e}) /\ p >= p0 /\ p >= e
    <2>1. Max({p0, e}) = IF p0 >= e THEN p0 ELSE e
      BY OfTwo
    <2>. QED BY <2>1
  <1>b. p >= Capital /\ p > 0
    BY <1>1, <1>3, <1>a
  <1>4. PICK f \in Nat : f = p - e
    BY <1>3
  <1>5. PICK d \in Nat, g \in Nat : /\ <<d, g>> = Deeper(<<f, p>>, <<a, b>>) /\ g > 0
                                    /\ d * p >= f * g /\ d * b >= a * g
    <2>1. CASE f * b > a * p
      <3>1. Deeper(<<f, p>>, <<a, b>>) = <<f, p>>
        BY <2>1 DEF Deeper
      <3>2. f * p >= f * p /\ f * b >= a * p
        BY <2>1
      <3>. QED BY <1>b, <3>1, <3>2
    <2>2. CASE ~(f * b > a * p)
      <3>1. Deeper(<<f, p>>, <<a, b>>) = <<a, b>>
        BY <2>2 DEF Deeper
      <3>2. a * p >= f * b /\ a * b >= a * b
        BY <2>2
      <3>. QED BY <1>1, <3>1, <3>2
    <2>. QED BY <2>1, <2>2
  <1>6. DeepEnough(e, p, d, g)
    BY <1>4, <1>5 DEF DeepEnough
  <1>7. PICK ruined \in BOOLEAN : ruined = (r \/ 100 * e <= Capital * (100 - RuinPct))
    OBVIOUS
  <1>8. ruined => Ruinous(d, g)
    <2>1. CASE r
      <3>1. a * 100 >= RuinPct * b
        BY <1>1, <1>a, <2>1 DEF Ruinous
      <3>2. d * 100 >= RuinPct * g
        BY <1>1, <1>5, <1>a, <3>1, FallsCarry
      <3>. QED BY <1>a, <3>2 DEF Ruinous
    <2>2. CASE 100 * e <= Capital * (100 - RuinPct)
      <3>1. f * 100 >= RuinPct * p
        BY <1>4, <1>b, <2>2, RuinIsDeep
      <3>2. d * 100 >= RuinPct * g
        BY <1>5, <1>b, <1>a, <3>1, FallsCarry
      <3>. QED BY <1>a, <3>2 DEF Ruinous
    <2>. QED BY <1>7, <2>1, <2>2
  <1>9. AfterTrade(at, pnl) = [equity |-> e, peak |-> p, worst |-> <<d, g>>, ruined |-> ruined]
    <2>1. at.equity = e0 /\ at.peak = p0 /\ at.worst = <<a, b>> /\ at.ruined = r
      BY <1>1
    <2>. QED BY <1>2, <1>3, <1>4, <1>5, <1>7, <2>1 DEF AfterTrade
  <1>. QED BY <1>3, <1>5, <1>6, <1>8, <1>9, <1>b DEF OnPath

LEMMA EndsOnPath ==
    ASSUME NEW n \in Nat, NEW pnls \in [1..n -> Int]
    PROVE  OnPath(SimulatePath(pnls))
  <1> DEFINE G == PathOf(pnls, 1..n)
             T == {k \in Nat : k <= n => OnPath(G[1..k])}
  <1>1. \A s \in SUBSET (1..n) : G[s] = PathStep(pnls, G, s)
    BY PathEquation
  <1> HIDE DEF G
  <1>2. 0 \in T
    <2>1. 1..0 = {} /\ {} \in SUBSET (1..n)
      OBVIOUS
    <2>2. G[{}] = Start
      BY <1>1, <2>1 DEF PathStep
    <2>. QED BY <2>1, <2>2, StartOnPath
  <1>3. \A k \in Nat : k \in T => k + 1 \in T
    <2> SUFFICES ASSUME NEW k \in Nat, k \in T, k + 1 <= n PROVE OnPath(G[1..(k + 1)])
      OBVIOUS
    <2> DEFINE s == 1..(k + 1)
    <2>1. s \in SUBSET (1..n) /\ s \in SUBSET (1..(k + 1)) /\ s # {} /\ k + 1 \in s /\ k + 1 \in Nat
      OBVIOUS
    <2>2. Max(s) = k + 1
      <3>1. Max(s) \in 1..(k + 1) /\ k + 1 <= Max(s)
        BY <2>1, GreatestIn
      <3>. QED BY <3>1
    <2>3. s \ {k + 1} = 1..k
      OBVIOUS
    <2>4. G[s] = AfterTrade(G[1..k], pnls[k + 1])
      <3> HIDE DEF s
      <3>. QED BY <1>1, <2>1, <2>2, <2>3 DEF PathStep
    <2>5. OnPath(G[1..k]) /\ pnls[k + 1] \in Int
      OBVIOUS
    <2> HIDE DEF s, T
    <2>6. OnPath(G[s])
      BY <2>4, <2>5, TradeStaysOnPath
    <2>. QED BY <2>6 DEF s
  <1>4. n \in T
    <2> HIDE DEF T
    <2>1. Nat \subseteq T
      BY <1>2, <1>3, CountedUp
    <2>. QED BY <2>1
  <1>5. DOMAIN pnls = 1..n
    OBVIOUS
  <1>. QED BY <1>4, <1>5, SimulationIsPath DEF G

LEMMA FallsShow ==
    ASSUME NEW at, OnPath(at)
    PROVE  /\ at.ruined => 100 * at.worst[1] >= RuinPct * at.worst[2]
           /\ at.equity >= 0 => at.worst[1] * Capital >= (Capital - at.equity) * at.worst[2]
  <1>1. PICK e \in Int, p \in Nat, a \in Nat, b \in Nat, r \in BOOLEAN :
           /\ at = [equity |-> e, peak |-> p, worst |-> <<a, b>>, ruined |-> r]
           /\ p >= Capital /\ p >= e /\ b > 0
           /\ DeepEnough(e, p, a, b)
           /\ r => Ruinous(a, b)
    BY DEF OnPath
  <1>2. at.equity = e /\ at.worst[1] = a /\ at.worst[2] = b /\ at.ruined = r
    BY <1>1
  <1>3. at.ruined => 100 * at.worst[1] >= RuinPct * at.worst[2]
    BY <1>1, <1>2 DEF Ruinous
  <1>4. ASSUME e >= 0 PROVE a * Capital >= (Capital - e) * b
    <2>1. PICK c \in Nat : c = Capital /\ c > 0
      BY StudyAssumption
    <2>2. a * p >= (p - e) * b /\ p >= c /\ p > 0
      BY <1>1, <2>1 DEF DeepEnough
    <2>3. (p - e) * c >= (c - e) * p
      <3>1. e * p = e * c + e * (p - c) /\ e * (p - c) \in Nat /\ e * c \in Nat
        BY <1>4, <2>2
      <3>2. (p - e) * c = p * c - e * c /\ (c - e) * p = p * c - e * p /\ p * c \in Nat
        OBVIOUS
      <3>. QED BY <3>1, <3>2
    <2>4. PICK fall \in Int, loss \in Int : fall = p - e /\ loss = c - e
      OBVIOUS
    <2>5. a * c >= loss * b
      BY <2>2, <2>3, <2>4, FallsCarry
    <2>. QED BY <2>1, <2>4, <2>5
  <1>. QED BY <1>2, <1>3, <1>4

-----------------------------------------------------------------------------
(* Overfitting and qualification: finite cases.                              *)

LEMMA DoubtsAdd ==
    ASSUME NEW o \in Optimisations, IsOverfit(o), o.ratio # "lost"
    PROVE  Cardinality(Doubts(o)) >= 2
  <1> DEFINE D == Doubts(o)
  <1>1. /\ o.outlier \in BOOLEAN /\ o.many \in BOOLEAN /\ o.edges \in 0..5
        /\ o.ratio \in {"kept", "halved"}
    BY DEF Optimisations
  <1>2. /\ "outlier" \in D <=> o.outlier
        /\ "degraded" \in D <=> o.ratio = "halved"
        /\ "many" \in D <=> o.many
        /\ "edges" \in D <=> o.edges > 0
        /\ D \subseteq {"outlier", "degraded", "many", "edges"}
    BY DEF Doubts
  <1> HIDE DEF D
  <1>3. IsFiniteSet(D)
    <2>1. IsFiniteSet({"outlier", "degraded", "many", "edges"})
      <3>1. IsFiniteSet({"outlier"})
        BY FS_Singleton
      <3>2. IsFiniteSet({"outlier"} \cup {"degraded"})
        BY <3>1, FS_AddElement
      <3>3. IsFiniteSet({"outlier"} \cup {"degraded"} \cup {"many"})
        BY <3>2, FS_AddElement
      <3>4. IsFiniteSet({"outlier"} \cup {"degraded"} \cup {"many"} \cup {"edges"})
        BY <3>3, FS_AddElement
      <3>5. {"outlier"} \cup {"degraded"} \cup {"many"} \cup {"edges"}
              = {"outlier", "degraded", "many", "edges"}
        OBVIOUS
      <3>. QED BY <3>4, <3>5
    <2>. QED BY <1>2, <2>1, FS_Subset
  <1>4. PICK x \in 0..3, y \in 0..3, z \in 0..1 :
           /\ x = (IF o.outlier THEN 3 ELSE 0) /\ y = Degraded(o)
           /\ z = (IF o.many THEN 1 ELSE 0)
           /\ y = IF o.ratio = "halved" THEN 3 ELSE 0
    <2>1. Degraded(o) = IF o.ratio = "halved" THEN 3 ELSE 0
      BY <1>1 DEF Degraded
    <2>. QED BY <2>1
  <1>5. PICK v \in 0..3 : v = AtTheEdges(o) /\ (v > 0 => o.edges > 0)
    <2>1. PICK k \in Int : k = o.edges /\ k \in 0..5
      BY <1>1
    <2>2. Min({3, k}) = IF 3 <= k THEN 3 ELSE k
      <3>1. 3 \in Int
        OBVIOUS
      <3> HIDE <2>1
      <3>. QED BY <3>1, OfTwo, ZenonT(30)
    <2>. QED BY <2>1, <2>2 DEF AtTheEdges
  <1>6. x + y + z + v >= 5
    <2>1. PICK t \in Int : t = x + y + z + v
      OBVIOUS
    <2>2. Risk(o) = Min({10, t})
      BY <1>4, <1>5, <2>1 DEF Risk
    <2>3. Min({10, t}) = IF 10 <= t THEN 10 ELSE t
      BY OfTwo
    <2>4. Risk(o) >= 5
      BY DEF IsOverfit
    <2>. QED BY <2>1, <2>2, <2>3, <2>4
  <1>7. \E d \in D, c \in D : d # c
    <2>1. x > 0 => "outlier" \in D
      BY <1>2, <1>4
    <2>2. y > 0 => "degraded" \in D
      BY <1>2, <1>4
    <2>3. z > 0 => "many" \in D
      BY <1>2, <1>4
    <2>4. v > 0 => "edges" \in D
      BY <1>2, <1>5
    <2>5. \/ x > 0 /\ (y > 0 \/ z > 0 \/ v > 0)
          \/ y > 0 /\ (z > 0 \/ v > 0)
          \/ z > 0 /\ v > 0
      BY <1>6
    <2>. QED BY <2>1, <2>2, <2>3, <2>4, <2>5
  <1>8. Cardinality(D) >= 2
    BY <1>3, <1>7, TwoOf
  <1>. QED BY <1>8 DEF D

LEMMA ReasonsExplain ==
    ASSUME NEW q \in Candidacies
    PROVE  Qualify(q).approved <=> Qualify(q).reasons = {}
  <1> DEFINE refused == {m \in Minimums : m \in q.below}
             deep == {r \in {"monte_carlo"} : q.needs.monteCarlo /\ q.deep}
             beaten == {r \in {"benchmark"} : q.needs.benchmark /\ q.beaten # {"hold", "random"}}
             weak == {r \in {"robustness"} : ~q.robust}
             walked == {r \in {"walk_forward"} : q.needs.walkForward /\ q.walked # "stable"}
  <1>1. Qualify(q).reasons = refused \cup deep \cup beaten \cup weak \cup walked
    BY DEF Qualify
  <1>2. Qualify(q).approved <=> /\ q.below = {}
                                /\ q.needs.monteCarlo => ~q.deep
                                /\ q.needs.benchmark => q.beaten = {"hold", "random"}
                                /\ q.robust
                                /\ q.needs.walkForward => q.walked = "stable"
    BY DEF Qualify
  <1>3. q.below \subseteq Minimums
    BY DEF Candidacies
  <1>4. refused = {} <=> q.below = {}
    BY <1>3
  <1>5. deep = {} <=> (q.needs.monteCarlo => ~q.deep)
    <2>1. deep = {} <=> "monte_carlo" \notin deep
      OBVIOUS
    <2>. QED BY <2>1
  <1>6. beaten = {} <=> (q.needs.benchmark => q.beaten = {"hold", "random"})
    <2>1. beaten = {} <=> "benchmark" \notin beaten
      OBVIOUS
    <2>. QED BY <2>1
  <1>7. weak = {} <=> q.robust
    <2>1. weak = {} <=> "robustness" \notin weak
      OBVIOUS
    <2>. QED BY <2>1
  <1>8. walked = {} <=> (q.needs.walkForward => q.walked = "stable")
    <2>1. walked = {} <=> "walk_forward" \notin walked
      OBVIOUS
    <2>. QED BY <2>1
  <1> HIDE DEF refused, deep, beaten, weak, walked
  <1>9. refused \cup deep \cup beaten \cup weak \cup walked = {}
          <=> refused = {} /\ deep = {} /\ beaten = {} /\ weak = {} /\ walked = {}
    OBVIOUS
  <1>. QED BY <1>1, <1>2, <1>4, <1>5, <1>6, <1>7, <1>8, <1>9

-----------------------------------------------------------------------------
(* Datasets: the n-th of a finite set of times.                              *)

Earlier(T, t) == {u \in T : u < t}

LEMMA EarlierGrows ==
    ASSUME NEW T \in SUBSET Int, IsFiniteSet(T), NEW s \in T, NEW t \in T
    PROVE  /\ Cardinality(Earlier(T, t)) \in Nat /\ Cardinality(Earlier(T, t)) < Cardinality(T)
           /\ Cardinality(T) \in Nat
           /\ s < t => Cardinality(Earlier(T, s)) < Cardinality(Earlier(T, t))
  <1>1. /\ IsFiniteSet(Earlier(T, t)) /\ IsFiniteSet(Earlier(T, s))
        /\ Earlier(T, t) \subseteq T /\ t \notin Earlier(T, t)
    BY FS_Subset DEF Earlier
  <1>2. /\ Cardinality(Earlier(T, t)) \in Nat /\ Cardinality(Earlier(T, s)) \in Nat
        /\ Cardinality(T) \in Nat
    BY <1>1, FS_CardinalityType
  <1>3. Cardinality(Earlier(T, t)) < Cardinality(T)
    <2>1. Cardinality(Earlier(T, t)) <= Cardinality(T)
      BY <1>1, FS_Subset
    <2>2. Cardinality(T) = Cardinality(Earlier(T, t)) => T = Earlier(T, t)
      BY <1>1, FS_Subset
    <2>. QED BY <1>1, <1>2, <2>1, <2>2
  <1>4. ASSUME s < t PROVE Cardinality(Earlier(T, s)) < Cardinality(Earlier(T, t))
    <2>1. Earlier(T, s) \in SUBSET Earlier(T, t) /\ s \in Earlier(T, t) /\ s \notin Earlier(T, s)
      <3>1. \A u \in T : u \in Int
        OBVIOUS
      <3>2. \A u \in T : u < s => u < t
        BY <1>4, <3>1
      <3>3. ~(s < s)
        BY <3>1
      <3>. QED BY <1>4, <3>2, <3>3 DEF Earlier
    <2>2. Cardinality(Earlier(T, s)) <= Cardinality(Earlier(T, t))
      BY <1>1, <2>1, FS_Subset
    <2>3. Cardinality(Earlier(T, t)) = Cardinality(Earlier(T, s)) => Earlier(T, t) = Earlier(T, s)
      BY <1>1, <2>1, FS_Subset
    <2>. QED BY <1>2, <2>1, <2>2, <2>3
  <1>. QED BY <1>2, <1>3, <1>4

LEMMA RankedOnce ==
    ASSUME NEW T \in SUBSET Int, IsFiniteSet(T), NEW s \in T, NEW t \in T,
           Cardinality(Earlier(T, s)) = Cardinality(Earlier(T, t))
    PROVE  s = t
  <1>1. Cardinality(Earlier(T, s)) \in Nat /\ Cardinality(Earlier(T, t)) \in Nat
    BY EarlierGrows
  <1>2. ~(s < t) /\ ~(t < s)
    BY <1>1, EarlierGrows
  <1>3. s \in Int /\ t \in Int
    OBVIOUS
  <1>. QED BY <1>2, <1>3

LEMMA EveryPlaceTaken ==
    ASSUME NEW T \in SUBSET Int, IsFiniteSet(T), NEW n \in 1..Cardinality(T)
    PROVE  \E t \in T : Cardinality(Earlier(T, t)) = n - 1
  <1> DEFINE c == Cardinality(T)
             f == [t \in T |-> Cardinality(Earlier(T, t)) + 1]
  <1>1. c \in Nat /\ IsFiniteSet(1..c) /\ Cardinality(1..c) = c
    <2>1. c \in Nat
      BY FS_CardinalityType
    <2>2. IsFiniteSet(1..c) /\ Cardinality(1..c) = IF 1 > c THEN 0 ELSE c - 1 + 1
      BY <2>1, FS_Interval
    <2>. QED BY <2>1, <2>2
  <1>2. \A t \in T : Cardinality(Earlier(T, t)) \in Nat /\ Cardinality(Earlier(T, t)) < c
    BY EarlierGrows
  <1> HIDE DEF c
  <1>3. f \in [T -> 1..c]
    BY <1>1, <1>2
  <1>4. \A s, t \in T : f[s] = f[t] => s = t
    <2> TAKE s, t \in T
    <2> HAVE f[s] = f[t]
    <2>1. Cardinality(Earlier(T, s)) = Cardinality(Earlier(T, t))
      BY <1>2
    <2>. QED BY <2>1, RankedOnce
  <1>5. \A t \in T : f[t] = Cardinality(Earlier(T, t)) + 1
    OBVIOUS
  <1> HIDE DEF f
  <1>6. f \in Injection(T, 1..c)
    BY <1>3, <1>4 DEF Injection, IsInjective
  <1>7. f \in Surjection(T, 1..c)
    BY <1>1, <1>6, FS_Injection DEF c
  <1>8. PICK t \in T : f[t] = n
    BY <1>7 DEF Surjection, c
  <1>9. Cardinality(Earlier(T, t)) = n - 1
    BY <1>2, <1>5, <1>8
  <1>. QED BY <1>9

LEMMA NthIs ==
    ASSUME NEW T \in SUBSET Int, IsFiniteSet(T), NEW n \in 1..Cardinality(T)
    PROVE  Nth(T, n) \in T /\ Cardinality(Earlier(T, Nth(T, n))) = n - 1
  <1>1. \E t \in T : Cardinality({u \in T : u < t}) = n - 1
    BY EveryPlaceTaken DEF Earlier
  <1>. QED BY <1>1 DEF Nth, Earlier

LEMMA NthInOrder ==
    ASSUME NEW T \in SUBSET Int, IsFiniteSet(T), NEW n \in 1..Cardinality(T) - 1
    PROVE  Nth(T, n) < Nth(T, n + 1)
  <1>1. Cardinality(T) \in Nat
    BY FS_CardinalityType
  <1>2. n \in 1..Cardinality(T) /\ n + 1 \in 1..Cardinality(T) /\ n \in Nat
    BY <1>1
  <1>3. PICK s \in T : s = Nth(T, n) /\ Cardinality(Earlier(T, s)) = n - 1
    BY <1>2, NthIs
  <1>4. PICK t \in T : t = Nth(T, n + 1) /\ Cardinality(Earlier(T, t)) = n
    <2>1. PICK k \in 1..Cardinality(T) : k = n + 1
      BY <1>2
    <2>2. Nth(T, k) \in T /\ Cardinality(Earlier(T, Nth(T, k))) = k - 1
      BY NthIs
    <2>3. k - 1 = n
      BY <1>2, <2>1
    <2>. QED BY <2>1, <2>2, <2>3
  <1>5. ~(t < s) /\ s # t
    <2>1. t < s => Cardinality(Earlier(T, t)) < Cardinality(Earlier(T, s))
      BY EarlierGrows
    <2>. QED BY <1>2, <1>3, <1>4, <2>1
  <1>6. s \in Int /\ t \in Int
    OBVIOUS
  <1>. QED BY <1>3, <1>4, <1>5, <1>6

LEMMA RowIsKept ==
    ASSUME NEW m \in Nat, NEW rows, DOMAIN rows = 1..m, NEW time \in Starts(rows)
    PROVE  LET k == RowKept(rows, time)
           IN  /\ k \in 1..m /\ rows[k].start = time
               /\ \A j \in 1..m : rows[j].start = time => j <= k
  <1> DEFINE S == {i \in 1..m : rows[i].start = time}
  <1>1. S \in SUBSET (1..m) /\ S # {}
    BY DEF Starts
  <1>2. Max(S) \in S /\ \A y \in S : y <= Max(S)
    <2> HIDE DEF S
    <2>. QED BY <1>1, GreatestIn
  <1>3. \E i \in DOMAIN rows :
           rows[i].start = time /\ \A j \in DOMAIN rows : rows[j].start = time => j <= i
    BY <1>2
  <1>4. LET k == RowKept(rows, time)
        IN  k \in DOMAIN rows /\ rows[k].start = time
              /\ \A j \in DOMAIN rows : rows[j].start = time => j <= k
    BY <1>3, Zenon DEF RowKept
  <1>. QED BY <1>4

LEMMA LastRowKept ==
    ASSUME NEW m \in Nat, NEW rows \in [1..m -> [start : Times, close : Closes]]
    PROVE  LET loaded == FromRows(rows)
           IN  /\ \A n \in 1..Len(loaded) - 1 : loaded[n].start < loaded[n + 1].start
               /\ \A i \in DOMAIN rows :
                    (\A j \in DOMAIN rows : j > i => rows[j].start # rows[i].start)
                        => \E n \in DOMAIN loaded : loaded[n] = rows[i]
  <1> DEFINE T == Starts(rows)
             c == Cardinality(T)
             loaded == FromRows(rows)
  <1>1. DOMAIN rows = 1..m /\ \A i \in 1..m : rows[i].start \in T /\ rows[i].start \in Int
    BY StudyAssumption DEF Starts
  <1>2. T \in SUBSET Int
    BY <1>1 DEF Starts
  <1>3. IsFiniteSet(T)
    <2> DEFINE f == [i \in 1..m |-> rows[i].start]
    <2>1. IsFiniteSet(1..m)
      BY FS_Interval
    <2>2. f \in Surjection(1..m, T)
      <3>1. f \in [1..m -> T] /\ \A t \in T : \E i \in 1..m : f[i] = t
        BY <1>1 DEF Starts
      <3> HIDE DEF f, T
      <3>. QED BY <3>1 DEF Surjection
    <2>. QED BY <2>1, <2>2, FS_Surjection
  <1>4. c \in Nat
    BY <1>3, FS_CardinalityType
  <1>5. loaded = [n \in 1..c |-> rows[RowKept(rows, Nth(T, n))]]
    BY DEF FromRows
  <1>6. DOMAIN loaded = 1..c /\ Len(loaded) = c
    <2> HIDE DEF T, c, loaded
    <2>1. loaded = [n \in 1..c |-> loaded[n]]
      BY <1>5
    <2>. QED BY <1>4, <2>1
  <1>7. \A n \in 1..c : loaded[n] = rows[RowKept(rows, Nth(T, n))]
    BY <1>5
  <1> HIDE DEF c, loaded
  <1>8. \A n \in 1..c : Nth(T, n) \in T /\ Cardinality(Earlier(T, Nth(T, n))) = n - 1
    <2> HIDE DEF T
    <2>. QED BY <1>2, <1>3, NthIs DEF c
  <1>9. \A n \in 1..c : loaded[n].start = Nth(T, n)
    BY <1>1, <1>7, <1>8, RowIsKept
  <1>10. \A n \in 1..Len(loaded) - 1 : loaded[n].start < loaded[n + 1].start
    <2> SUFFICES ASSUME NEW n \in 1..c - 1 PROVE loaded[n].start < loaded[n + 1].start
      BY <1>6
    <2>1. n \in 1..c /\ n + 1 \in 1..c
      BY <1>4
    <2>2. Nth(T, n) < Nth(T, n + 1)
      <3> HIDE DEF T
      <3>. QED BY <1>2, <1>3, NthInOrder DEF c
    <2>. QED BY <1>9, <2>1, <2>2
  <1>11. ASSUME NEW i \in 1..m, \A j \in 1..m : j > i => rows[j].start # rows[i].start
         PROVE  \E n \in 1..c : loaded[n] = rows[i]
    <2>1. PICK t \in T : t = rows[i].start
      BY <1>1
    <2>2. PICK n \in 1..c : Cardinality(Earlier(T, t)) = n - 1
      <3>1. Cardinality(Earlier(T, t)) \in Nat /\ Cardinality(Earlier(T, t)) < Cardinality(T)
        BY <1>2, <1>3, EarlierGrows
      <3>2. Cardinality(Earlier(T, t)) + 1 \in 1..c /\ Cardinality(Earlier(T, t)) = (Cardinality(Earlier(T, t)) + 1) - 1
        BY <1>4, <3>1 DEF c
      <3>. QED BY <3>2
    <2>3. Nth(T, n) = t
      BY <1>2, <1>3, <1>8, <2>2, RankedOnce
    <2>4. RowKept(rows, t) = i
      <3>1. PICK k \in 1..m : /\ k = RowKept(rows, t) /\ rows[k].start = t
                              /\ \A j \in 1..m : rows[j].start = t => j <= k
        BY <1>1, RowIsKept
      <3>2. ~(k > i) /\ i <= k
        BY <1>11, <2>1, <3>1
      <3>. QED BY <3>1, <3>2
    <2>. QED BY <1>7, <2>3, <2>4
  <1>. QED BY <1>1, <1>6, <1>10, <1>11 DEF loaded

-----------------------------------------------------------------------------
(* The replay's cursor, and the laboratory as a whole.                       *)

(* A cursor c in a series of n loaded, and what the player's state says.    *)
Placed(p) ==
    \E c \in Int, n \in Nat, s \in {"paused", "playing", "finished"} :
        /\ p = [cursor |-> c, state |-> s, total |-> n]
        /\ -1 <= c /\ (c = -1 \/ c < n)
        /\ s = "playing" => c + 1 < n
        /\ s = "finished" => c + 1 >= n

StudyInv ==
    /\ study \in Windows \cup Walks \cup PnlPaths \cup Optimisations \cup Candidacies \cup Datasets
                 \cup {[of |-> "replay"]}
    /\ Placed(player)

LEMMA PlacedAt ==
    ASSUME NEW c \in Int, NEW n \in Nat, NEW s \in {"paused", "playing", "finished"},
           NEW p, p = [cursor |-> c, state |-> s, total |-> n],
           -1 <= c, c = -1 \/ c < n, s = "playing" => c + 1 < n, s = "finished" => c + 1 >= n
    PROVE  Placed(p)
  BY DEF Placed

LEMMA FreshPlayer ==
    ASSUME NEW n \in Nat
    PROVE  Placed(Player(n))
  <1>1. Player(n) = [cursor |-> -1, state |-> "paused", total |-> n] /\ -1 \in Int
    BY DEF Player
  <1>. QED BY <1>1, PlacedAt

LEMMA StudiesStart ==
    ASSUME \/ StudyInit
           \/ /\ study = [of |-> "replay"]
              /\ player = [cursor |-> -1, state |-> "paused", total |-> 0]
    PROVE  StudyInv
  <1>1. Placed(player)
    <2>1. \E n \in Nat : player = Player(n)
      BY StudyAssumption DEF StudyInit, Player
    <2>. QED BY <2>1, FreshPlayer
  <1>2. study \in Windows \cup Walks \cup PnlPaths \cup Optimisations \cup Candidacies \cup Datasets
                  \cup {[of |-> "replay"]}
    BY DEF StudyInit
  <1>. QED BY <1>1, <1>2 DEF StudyInv

LEMMA CursorMoves ==
    ASSUME Placed(player), Play \/ Pause \/ StepForward \/ StepBack \/ Seek \/ Rewind
    PROVE  Placed(player')
  <1>1. PICK c \in Int, n \in Nat, s \in {"paused", "playing", "finished"} :
           /\ player = [cursor |-> c, state |-> s, total |-> n]
           /\ -1 <= c /\ (c = -1 \/ c < n)
           /\ s = "playing" => c + 1 < n
           /\ s = "finished" => c + 1 >= n
    BY DEF Placed
  <1>2. AtEnd(player) <=> c + 1 >= n
    BY <1>1 DEF AtEnd
  <1>3. -1 \in Int /\ -1 <= -1
    OBVIOUS
  <1>4. CASE Play
    <2>1. CASE AtEnd(player)
      BY <1>4, <2>1 DEF Play
    <2>2. CASE ~AtEnd(player)
      <3>1. player' = [cursor |-> c, state |-> "playing", total |-> n]
        BY <1>1, <1>4, <2>2 DEF Play
      <3>. QED BY <1>1, <1>2, <2>2, <3>1, PlacedAt
    <2>. QED BY <2>1, <2>2
  <1>5. CASE Pause
    <2>1. player' = player \/ player' = [cursor |-> c, state |-> "paused", total |-> n]
      BY <1>1, <1>5 DEF Pause
    <2>. QED BY <1>1, <2>1, PlacedAt
  <1>6. CASE StepForward
    <2>1. CASE AtEnd(player)
      <3>1. player' = [cursor |-> c, state |-> "finished", total |-> n]
        BY <1>1, <1>6, <2>1 DEF StepForward
      <3>. QED BY <1>1, <1>2, <2>1, <3>1, PlacedAt
    <2>2. CASE ~AtEnd(player)
      <3>1. PICK d \in Int : d = c + 1 /\ -1 <= d /\ d < n
        BY <1>1, <1>2, <2>2
      <3> DEFINE moved == [cursor |-> d, state |-> s, total |-> n]
      <3>2. player' = [moved EXCEPT !.state = Arrived(moved)]
        <4>1. [player EXCEPT !.cursor = @ + 1] = moved
          BY <1>1, <3>1
        <4>. QED BY <1>6, <2>2, <4>1 DEF StepForward
      <3>3. Arrived(moved) = IF d + 1 >= n THEN "finished" ELSE s
        BY DEF Arrived, AtEnd
      <3>4. PICK t \in {"paused", "playing", "finished"} : t = Arrived(moved)
        BY <3>3
      <3>5. player' = [cursor |-> d, state |-> t, total |-> n]
        BY <3>2, <3>4
      <3>6. (t = "playing" => d + 1 < n) /\ (t = "finished" => d + 1 >= n)
        BY <1>1, <1>2, <2>2, <3>3, <3>4
      <3>. QED BY <3>1, <3>5, <3>6, PlacedAt
    <2>. QED BY <2>1, <2>2
  <1>7. CASE StepBack
    <2>1. PICK d \in Int : d = IF c <= 0 THEN -1 ELSE c - 1
      BY <1>3
    <2>2. player' = [cursor |-> d, state |-> "paused", total |-> n]
      BY <1>1, <1>7, <2>1 DEF StepBack
    <2>3. -1 <= d /\ (d = -1 \/ d < n)
      BY <1>1, <2>1
    <2>. QED BY <2>2, <2>3, PlacedAt
  <1>8. CASE Seek
    <2>1. player.total = n
      BY <1>1
    <2>2. CASE n = 0
      <3>1. player' = player
        BY <1>8, <2>1, <2>2 DEF Seek
      <3>. QED BY <3>1
    <2>3. CASE n # 0
      <3>1. PICK to \in Int :
              LET moved == [cursor |-> Max({0, Min({to, n - 1})}), state |-> "paused", total |-> n]
              IN  player' = [moved EXCEPT !.state = Arrived(moved)]
        <4>1. \A k \in -1..n : k \in Int
          OBVIOUS
        <4>. QED BY <1>8, <2>1, <2>3, <4>1 DEF Seek
      <3>2. PICK k \in Int : k = n - 1 /\ k >= 0
        BY <2>3
      <3>3. PICK low \in Int : low = Min({to, k}) /\ low <= k
        <4>1. Min({to, k}) = IF to <= k THEN to ELSE k
          BY OfTwo
        <4>. QED BY <4>1
      <3>4. PICK d \in Int : d = Max({0, low}) /\ 0 <= d /\ d <= k
        <4>1. 0 \in Int
          OBVIOUS
        <4>2. Max({0, low}) = IF 0 >= low THEN 0 ELSE low
          BY <4>1, OfTwo, ZenonT(30)
        <4>. QED BY <3>2, <3>3, <4>2
      <3> DEFINE moved == [cursor |-> d, state |-> "paused", total |-> n]
      <3>5. [cursor |-> Max({0, Min({to, n - 1})}), state |-> "paused", total |-> n] = moved
        BY <3>2, <3>3, <3>4
      <3>6. player' = [moved EXCEPT !.state = Arrived(moved)]
        BY <3>1, <3>5
      <3>7. Arrived(moved) = IF d + 1 >= n THEN "finished" ELSE "paused"
        BY DEF Arrived, AtEnd
      <3>8. PICK t \in {"paused", "playing", "finished"} : t = Arrived(moved)
        BY <3>7
      <3>9. player' = [cursor |-> d, state |-> t, total |-> n]
        BY <3>6, <3>8
      <3>10. /\ (t = "playing" => d + 1 < n) /\ (t = "finished" => d + 1 >= n)
             /\ -1 <= d /\ d < n
        BY <3>2, <3>4, <3>7, <3>8
      <3>. QED BY <3>9, <3>10, PlacedAt
    <2>. QED BY <2>2, <2>3
  <1>9. CASE Rewind
    <2>1. player' = [cursor |-> -1, state |-> "paused", total |-> n]
      BY <1>1, <1>9 DEF Rewind
    <2>. QED BY <1>3, <2>1, PlacedAt
  <1>. QED BY <1>4, <1>5, <1>6, <1>7, <1>8, <1>9

LEMMA StudySteps == StudyInv /\ (StudyNext \/ UNCHANGED studyVars) => StudyInv'
  <1> SUFFICES ASSUME StudyInv, StudyNext \/ UNCHANGED studyVars PROVE StudyInv'
    OBVIOUS
  <1>1. Placed(player)'
    <2>1. Placed(player')
      BY CursorMoves DEF StudyInv, StudyNext, studyVars
    <2>. QED BY <2>1 DEF Placed
  <1>2. study' = study
    BY DEF StudyNext, studyVars
  <1>. QED BY <1>1, <1>2 DEF StudyInv, Windows, Walks, PnlPaths, Optimisations, Candidacies, Datasets

LEMMA StudyPromises ==
    StudyInv => /\ OutOfSample /\ StableNeverLoses /\ FallsAreSeen
                /\ OneDoubtIsNotEnough /\ RefusalIsExplained
                /\ LastRowWins /\ CursorAgrees
  <1> SUFFICES ASSUME StudyInv
               PROVE  /\ OutOfSample /\ StableNeverLoses /\ FallsAreSeen
                      /\ OneDoubtIsNotEnough /\ RefusalIsExplained
                      /\ LastRowWins /\ CursorAgrees
    OBVIOUS
  <1>1. /\ study.of = "windows" => study \in Windows
        /\ study.of = "folds" => study \in Walks
        /\ study.of = "path" => study \in PnlPaths
        /\ study.of = "optimisation" => study \in Optimisations
        /\ study.of = "candidate" => study \in Candidacies
        /\ study.of = "rows" => study \in Datasets
    <2>1. /\ \A w \in Windows : w.of = "windows"
          /\ \A w \in Walks : w.of = "folds"
          /\ \A w \in PnlPaths : w.of = "path"
          /\ \A w \in Optimisations : w.of = "optimisation"
          /\ \A w \in Candidacies : w.of = "candidate"
          /\ \A w \in Datasets : w.of = "rows"
          /\ [of |-> "replay"].of = "replay"
      BY DEF Windows, Walks, PnlPaths, Optimisations, Candidacies, Datasets
    <2>. QED BY <2>1 DEF StudyInv
  <1>2. OutOfSample
    <2> SUFFICES ASSUME study \in Windows
                 PROVE  /\ \A n \in Folds(study) :
                             /\ \A t \in TrainWindow(study, n), x \in TestWindow(study, n) : t < x
                             /\ TestWindow(study, n) \subseteq 0..study.total - 1
                             /\ \A m \in 0..n : TrainWindow(study, m) \cap TestWindow(study, n) = {}
                        /\ study.train + Cardinality(Folds(study)) * study.step + study.test
                             > study.total
      BY <1>1 DEF OutOfSample
    <2>. QED BY TestedOutOfSample, NoFoldMissing
  <1>3. StableNeverLoses
    <2> SUFFICES ASSUME study \in Walks, IsStable(study.returns) PROVE AddUp(study.returns) >= 0
      BY <1>1 DEF StableNeverLoses
    <2>1. PICK m \in Nat : study.returns \in [1..m -> Int]
      <3>1. study.returns \in SeqOf(Returns, MaxFolds)
        BY DEF Walks
      <3>2. PICK m \in 0..MaxFolds : study.returns \in [1..m -> Returns]
        BY <3>1 DEF SeqOf
      <3>3. Returns \subseteq Int /\ m \in Nat
        BY StudyAssumption
      <3>4. study.returns \in [1..m -> Int]
        BY <3>2, <3>3
      <3>. QED BY <3>3, <3>4
    <2>. QED BY <2>1, StableSum
  <1>4. FallsAreSeen
    <2> SUFFICES ASSUME study \in PnlPaths
                 PROVE  LET end == SimulatePath(study.pnls)
                            Shows(loss) == end.worst[1] * Capital >= loss * end.worst[2]
                        IN  /\ end.ruined => 100 * end.worst[1] >= RuinPct * end.worst[2]
                            /\ end.equity >= 0 => Shows(Capital - end.equity)
      BY <1>1 DEF FallsAreSeen
    <2>1. PICK n \in Nat : study.pnls \in [1..n -> Int]
      <3>1. study.pnls \in SeqOf(Pnls, MaxPath)
        BY DEF PnlPaths
      <3>2. PICK n \in 0..MaxPath : study.pnls \in [1..n -> Pnls]
        BY <3>1 DEF SeqOf
      <3>3. Pnls \subseteq Int /\ n \in Nat
        BY StudyAssumption
      <3>4. study.pnls \in [1..n -> Int]
        BY <3>2, <3>3
      <3>. QED BY <3>3, <3>4
    <2>2. OnPath(SimulatePath(study.pnls))
      BY <2>1, EndsOnPath
    <2>. QED BY <2>2, FallsShow
  <1>5. OneDoubtIsNotEnough
    BY <1>1, DoubtsAdd DEF OneDoubtIsNotEnough
  <1>6. RefusalIsExplained
    BY <1>1, ReasonsExplain DEF RefusalIsExplained
  <1>7. LastRowWins
    <2> SUFFICES ASSUME study \in Datasets
                 PROVE  LET loaded == FromRows(study.rows)
                        IN  /\ \A n \in 1..Len(loaded) - 1 : loaded[n].start < loaded[n + 1].start
                            /\ \A i \in DOMAIN study.rows :
                                 (\A j \in DOMAIN study.rows :
                                      j > i => study.rows[j].start # study.rows[i].start)
                                     => \E n \in DOMAIN loaded : loaded[n] = study.rows[i]
      BY <1>1 DEF LastRowWins
    <2>1. PICK m \in Nat : study.rows \in [1..m -> [start : Times, close : Closes]]
      <3>1. study.rows \in SeqOf([start : Times, close : Closes], MaxRows)
        BY DEF Datasets
      <3>2. PICK m \in 0..MaxRows : study.rows \in [1..m -> [start : Times, close : Closes]]
        BY <3>1 DEF SeqOf
      <3>. QED BY <3>2, StudyAssumption
    <2>. QED BY <2>1, LastRowKept
  <1>8. CursorAgrees
    <2>1. PICK c \in Int, n \in Nat, s \in {"paused", "playing", "finished"} :
             /\ player = [cursor |-> c, state |-> s, total |-> n]
             /\ -1 <= c /\ (c = -1 \/ c < n)
             /\ s = "playing" => c + 1 < n
             /\ s = "finished" => c + 1 >= n
      BY DEF StudyInv, Placed
    <2>2. player.cursor = c /\ player.state = s /\ player.total = n
      BY <2>1
    <2>3. AtEnd(player) <=> c + 1 >= n
      BY <2>2 DEF AtEnd
    <2>4. c \in -1..n
      BY <2>1
    <2>. QED BY <2>1, <2>2, <2>3, <2>4 DEF CursorAgrees
  <1>. QED BY <1>2, <1>3, <1>4, <1>5, <1>6, <1>7, <1>8

-----------------------------------------------------------------------------
AtMostOne(S) == S = {} \/ \E x \in S : S = {x}

(* The feature store: a value is not older than its way through the store    *)
(* allows, and a key nobody disturbed is computed by one caller at most,     *)
(* since it was last found missing.                                          *)

FeatureShapes ==
    /\ instant \in 0..MaxInstant /\ heard \in BOOLEAN
    /\ outside \in SUBSET (0..instant) /\ AtMostOne(outside)
    /\ cache \in [Features -> SUBSET [stamp : 0..instant, told : SUBSET (0..instant), lent : BOOLEAN]]
    /\ asking \in [Callers -> SUBSET [keys : SUBSET Features, stamp : 0..instant,
                                      read : SUBSET SUBSET (0..instant)]]
    /\ computed \in [Features -> Int]
    /\ \A k \in Features : \A d, e \in cache[k] : d = e /\ \A x, y \in e.told : x = y
    /\ \A c \in Callers : \A a \in asking[c] : \A told \in a.read : \A x, y \in told : x = y

Lag(k, lent) == (IF k \in Drawn THEN KeptFor ELSE 0) + (IF lent THEN OutsideFor ELSE 0)

InTime ==
    /\ \A k \in Features : \A e \in cache[k] : \A at \in e.told : e.stamp - at <= Lag(k, e.lent)
    /\ \A c \in Callers : \A a \in asking[c] : \A told \in a.read : \A at \in told :
          a.stamp - at < OutsideFor

OneAtATime ==
    /\ \A c \in Callers : \A a, b \in asking[c] : a = b
    /\ \A c, d \in Callers : \A a \in asking[c], b \in asking[d] : \A k \in a.keys \cap b.keys :
          computed[k] # Crossed => c = d
    /\ \A c \in Callers : \A a \in asking[c] : a.keys \cap Drawn # {} => Bands \in a.keys

Stale(k) == \A e \in cache[k] : instant - e.stamp >= KeptFor

Accounted ==
    \A k \in Features : computed[k] # Crossed =>
        /\ \A c \in Callers : \A a \in asking[c] : k \in a.keys => a.stamp = computed[k] /\ Stale(k)
        /\ \/ computed[k] = -KeptFor
           \/ \E c \in Callers : \E a \in asking[c] : k \in a.keys
           \/ \E e \in cache[k] : e.stamp = computed[k]

(* What is told is no newer than what the cache outside holds, or than what  *)
(* a computation has read of it.                                             *)
Past(told) == \A at \in told : \E now \in outside : at <= now
NoLater(told, later) == \A at \in told, now \in later : at <= now
Sways(k) == IF k = Bands THEN {k} \cup Drawn ELSE {k}

Ordered ==
    /\ ~heard => \A k \in Features : \A e \in cache[k] : Past(e.told)
    /\ \A c \in Callers : \A a \in asking[c] : \A told \in a.read : Past(told)
    /\ \A c \in Callers : \A a \in asking[c] : \A k \in a.keys : computed[k] # Crossed =>
          \A j \in Sways(k) : \A e \in cache[j] :
             Past(e.told) /\ \A told \in a.read : NoLater(e.told, told)
    /\ computed[Bands] # Crossed =>
          \A j \in Drawn : \A e \in cache[j], b \in cache[Bands] : NoLater(e.told, b.told)

FeatureInv == FeatureShapes /\ InTime /\ OneAtATime /\ Accounted /\ Ordered

LEMMA FeaturesStart ==
    ASSUME FeaturesInit
    PROVE  FeatureInv
  <1> USE KeptForAssumption, MaxInstantAssumption, DrawnAssumption DEF FeaturesInit
  <1>1. FeatureShapes
    <2>1. instant \in 0..MaxInstant /\ outside \in SUBSET (0..instant) /\ AtMostOne(outside)
      BY DEF AtMostOne
    <2>2. heard \in BOOLEAN
      OBVIOUS
    <2>. QED BY <2>1, <2>2 DEF FeatureShapes
  <1>2. InTime /\ OneAtATime
    BY DEF InTime, OneAtATime
  <1>3. Accounted
    BY DEF Accounted
  <1>4. Ordered
    BY DEF Ordered
  <1>. QED BY <1>1, <1>2, <1>3, <1>4 DEF FeatureInv

(* What a missing key does to the histories.                                 *)
LEMMA MissedTells ==
    ASSUME FeatureInv, NEW c \in Callers, NEW k \in Features, Missed(c, k)
    PROVE  /\ Missing(k) \subseteq Features /\ k \in Missing(k)
           /\ asking[c] = {} /\ \A j \in Missing(k) : Stale(j)
           /\ instant' = instant /\ heard' = heard /\ outside' = outside
           /\ computed' \in [Features -> Int]
           /\ \A j \in Features : \/ computed'[j] = computed[j]
                                  \/ computed'[j] = Crossed
                                  \/ j \in Missing(k) /\ computed'[j] = instant /\ Stale(j)
           /\ \A j \in Features : computed'[j] # Crossed => computed[j] # Crossed
           /\ \A j \in Missing(k) : computed'[j] # Crossed =>
                 /\ computed'[j] = instant
                 /\ \A d \in Callers : \A a \in asking[d] : j \notin a.keys
  <1>0. FeatureShapes /\ asking[c] = {} /\ Served(k) = {}
    BY DEF FeatureInv, Missed
  <1>1. Missing(k) \subseteq Features /\ k \in Missing(k)
    BY DrawnAssumption DEF Missing
  <1>2. \A j \in Missing(k) : Served(j) = {}
    BY <1>0 DEF Missing
  <1>3. \A j \in Missing(k) : Stale(j)
    <2> SUFFICES ASSUME NEW j \in Missing(k), NEW e \in cache[j] PROVE instant - e.stamp >= KeptFor
      BY DEF Stale
    <2>1. e.stamp \in Int /\ instant \in Int /\ KeptFor \in Int
      BY <1>0, <1>1, KeptForAssumption, MaxInstantAssumption DEF FeatureShapes
    <2>. QED BY <1>2, <2>1 DEF Served, IsFresh
  <1>4. /\ computed' = [j \in Features |-> IF j \in Missing(k) THEN Found(j) ELSE computed[j]]
        /\ instant' = instant /\ heard' = heard /\ outside' = outside
    BY DEF Missed
  <1>5. \A j \in Features : computed'[j] = IF j \in Missing(k) THEN Found(j) ELSE computed[j]
    BY <1>4
  <1>6. instant \in Int /\ Crossed \in Int /\ computed \in [Features -> Int]
    BY <1>0, KeptForAssumption, MaxInstantAssumption DEF FeatureShapes, Crossed
  <1>7. computed' \in [Features -> Int]
    <2>1. \A j \in Features : computed'[j] \in Int
      BY <1>5, <1>6 DEF Found
    <2>. QED BY <1>4, <2>1
  <1>8. \A j \in Features : Computing(j) = {} => \A d \in Callers : \A a \in asking[d] : j \notin a.keys
    BY DEF Computing
  <1>. QED BY <1>0, <1>1, <1>3, <1>4, <1>5, <1>7, <1>8 DEF Found


(* A value computed without a pause, or drawn from the bands.                *)
LEMMA FillingKeeps ==
    ASSUME FeatureInv, NEW c \in Callers, NEW k \in Features, Compute(c, k) \/ Draw(c, k)
    PROVE  FeatureInv' /\ \A j \in Features : computed'[j] # Crossed /\ computed'[Bands] # Crossed =>
                             \A old \in cache[j], new \in cache'[j] : NoLater(old.told, new.told)
  <1>0. FeatureShapes /\ InTime /\ OneAtATime /\ Accounted /\ Ordered
    BY DEF FeatureInv
  <1>1. Missed(c, k) /\ asking' = asking
    BY DEF Compute, Draw
  <1>2. /\ Missing(k) \subseteq Features /\ k \in Missing(k)
        /\ asking[c] = {} /\ \A j \in Missing(k) : Stale(j)
        /\ instant' = instant /\ heard' = heard /\ outside' = outside
        /\ computed' \in [Features -> Int]
        /\ \A j \in Features : \/ computed'[j] = computed[j]
                               \/ computed'[j] = Crossed
                               \/ j \in Missing(k) /\ computed'[j] = instant /\ Stale(j)
        /\ \A j \in Features : computed'[j] # Crossed => computed[j] # Crossed
        /\ \A j \in Missing(k) : computed'[j] # Crossed =>
              /\ computed'[j] = instant
              /\ \A d \in Callers : \A a \in asking[d] : j \notin a.keys
    BY <1>1, MissedTells
  <1> DEFINE Entries0 == [stamp : 0..instant, told : SUBSET (0..instant), lent : BOOLEAN]
  <1>3. \E keys \in SUBSET Missing(k), e \in Entries0 :
          /\ cache' = Filled(keys, e) /\ e.stamp = instant
          /\ \/ keys = Missing(k) /\ (k \in Drawn => Bands \in keys)
                /\ e.told \in {{}, {instant}} /\ (heard \/ e.told = {})
             \/ keys = {k} /\ Missing(k) = {k} /\ k \in Drawn
                /\ \E b \in cache[Bands] : /\ instant - b.stamp < KeptFor
                                           /\ e.told = b.told /\ (b.lent => e.lent)
    <2>1. CASE Compute(c, k)
      <3>1. PICK told \in {{}, {instant}} :
               (heard \/ told = {}) /\ cache' = Filled(Missing(k), Entry(instant, told, FALSE))
        BY <2>1 DEF Compute
      <3> DEFINE e == Entry(instant, told, FALSE)
      <3>2. e \in Entries0 /\ e.stamp = instant /\ e.told = told
        BY <1>0, MaxInstantAssumption DEF FeatureShapes, Entry
      <3>3. k \in Drawn => Bands \in Missing(k)
        BY <2>1 DEF Compute, Missing
      <3> HIDE DEF e, Entries0
      <3>. QED BY <3>1, <3>2, <3>3 DEF e
    <2>2. CASE Draw(c, k)
      <3>1. PICK b \in Served(Bands) : cache' = Filled({k}, Entry(instant, b.told, b.lent))
        BY <2>2 DEF Draw
      <3> DEFINE e == Entry(instant, b.told, b.lent)
      <3>2. k \in Drawn /\ Missing(k) = {k}
        BY <2>2, <3>1 DEF Draw, Missing
      <3>3. b \in cache[Bands] /\ instant - b.stamp < KeptFor
        BY <3>1 DEF Served, IsFresh
      <3>4. b \in Entries0 /\ instant \in 0..instant
        BY <1>0, <3>3, DrawnAssumption, MaxInstantAssumption DEF FeatureShapes
      <3>5. e \in Entries0
        BY <3>4 DEF Entry
      <3>6. e.stamp = instant /\ e.told = b.told /\ (b.lent => e.lent)
        BY DEF Entry
      <3> HIDE DEF e, Entries0
      <3>. QED BY <3>1, <3>2, <3>3, <3>5, <3>6 DEF e
    <2>. QED BY <2>1, <2>2
  <1>4. PICK keys \in SUBSET Missing(k), e \in Entries0 :
          /\ cache' = Filled(keys, e) /\ e.stamp = instant
          /\ \/ keys = Missing(k) /\ (k \in Drawn => Bands \in keys)
                /\ e.told \in {{}, {instant}} /\ (heard \/ e.told = {})
             \/ keys = {k} /\ Missing(k) = {k} /\ k \in Drawn
                /\ \E b \in cache[Bands] : /\ instant - b.stamp < KeptFor
                                           /\ e.told = b.told /\ (b.lent => e.lent)
    BY <1>3
  <1>5. /\ e \in [stamp : 0..instant, told : SUBSET (0..instant), lent : BOOLEAN]
        /\ e.told \subseteq 0..instant
    OBVIOUS
  <1> HIDE DEF Entries0
  <1>6. \A j \in Features : cache'[j] = IF j \in keys THEN {e} ELSE cache[j]
    BY <1>4 DEF Filled
  <1>7. FeatureShapes'
    <2>1. cache' \in [Features -> SUBSET [stamp : 0..instant, told : SUBSET (0..instant), lent : BOOLEAN]]
      <3>1. \A j \in Features :
               cache'[j] \in SUBSET [stamp : 0..instant, told : SUBSET (0..instant), lent : BOOLEAN]
        BY <1>0, <1>5, <1>6 DEF FeatureShapes
      <3>. QED BY <1>4, <3>1 DEF Filled
    <2>2. \A x, y \in e.told : x = y
      BY <1>0, <1>4, DrawnAssumption DEF FeatureShapes
    <2>3. \A j \in Features : \A x, y \in cache'[j] : x = y /\ \A at, now \in y.told : at = now
      BY <1>0, <1>4, <1>6, <2>2 DEF FeatureShapes
    <2>. QED BY <1>0, <1>1, <1>2, <2>1, <2>3 DEF FeatureShapes
  <1>8. \A j \in keys : \A at \in e.told : instant - at <= Lag(j, e.lent)
    <2> SUFFICES ASSUME NEW j \in keys, NEW at \in e.told PROVE instant - at <= Lag(j, e.lent)
      OBVIOUS
    <2>0. instant \in Int /\ at \in 0..instant /\ KeptFor \in Nat /\ OutsideFor \in Nat
      BY <1>0, <1>5, KeptForAssumption, MaxInstantAssumption DEF FeatureShapes
    <2>1. CASE at = instant
      BY <2>0, <2>1 DEF Lag
    <2>2. CASE at # instant
      <3>1. PICK b \in cache[Bands] : /\ instant - b.stamp < KeptFor /\ e.told = b.told /\ (b.lent => e.lent)
                                      /\ j \in Drawn
        BY <1>4, <2>2
      <3>2. b.stamp - at <= Lag(Bands, b.lent) /\ b.stamp \in Int
        BY <1>0, <3>1, DrawnAssumption DEF InTime, FeatureShapes
      <3>. QED BY <2>0, <3>1, <3>2, DrawnAssumption DEF Lag
    <2>. QED BY <2>1, <2>2
  <1>9. InTime'
    <2>1. ASSUME NEW j \in Features, NEW x \in cache'[j], NEW at \in x.told
          PROVE  x.stamp - at <= Lag(j, x.lent)
      <3>1. CASE j \in keys
        BY <1>4, <1>6, <1>8, <2>1, <3>1
      <3>2. CASE j \notin keys
        BY <1>0, <1>6, <2>1, <3>2 DEF InTime
      <3>. QED BY <3>1, <3>2
    <2>. QED BY <1>0, <1>1, <2>1 DEF InTime
  <1>10. OneAtATime'
    BY <1>0, <1>1, <1>2, DrawnAssumption DEF OneAtATime, FeatureShapes
  <1>11. Accounted'
    <2> SUFFICES ASSUME NEW j \in Features, computed'[j] # Crossed
                 PROVE  /\ \A d \in Callers : \A a \in asking[d] : j \in a.keys =>
                              a.stamp = computed'[j] /\ \A x \in cache'[j] : instant - x.stamp >= KeptFor
                        /\ \/ computed'[j] = -KeptFor
                           \/ \E d \in Callers : \E a \in asking[d] : j \in a.keys
                           \/ \E x \in cache'[j] : x.stamp = computed'[j]
      BY <1>1, <1>2 DEF Accounted, Stale
    <2>1. CASE j \in Missing(k)
      BY <1>2, <1>4, <1>6, <2>1
    <2>2. CASE j \notin Missing(k)
      BY <1>0, <1>2, <1>6, <2>2 DEF Accounted, Stale
    <2>. QED BY <2>1, <2>2
  <1>12. Past(e.told) \/ heard
    BY <1>0, <1>4, DrawnAssumption DEF Ordered, Past
  <1>13. ASSUME NEW j \in keys, computed'[Bands] # Crossed, computed'[j] # Crossed \/ j \in Drawn,
                NEW old \in cache[j]
         PROVE  NoLater(old.told, e.told)
    <2>1. \A at \in old.told : at \in 0..instant
      BY <1>0, <1>2 DEF FeatureShapes
    <2>2. CASE keys = Missing(k) /\ e.told \in {{}, {instant}}
      BY <2>1, <2>2, MaxInstantAssumption, <1>0 DEF NoLater, FeatureShapes
    <2>3. CASE keys = {k} /\ k \in Drawn /\ \E b \in cache[Bands] : e.told = b.told
      BY <1>0, <1>2, <1>13, <2>3, DrawnAssumption DEF Ordered
    <2>. QED BY <1>4, <2>2, <2>3
  <1>14. ASSUME NEW j \in Features, computed'[j] # Crossed, computed'[Bands] # Crossed,
                NEW old \in cache[j], NEW new \in cache'[j]
         PROVE  NoLater(old.told, new.told)
    <2>1. CASE j \in keys
      BY <1>4, <1>6, <1>13, <1>14, <2>1
    <2>2. CASE j \notin keys
      <3>1. old = new /\ \A at, now \in old.told : at = now /\ at \in Int
        BY <1>0, <1>6, <2>2 DEF FeatureShapes
      <3>. QED BY <3>1 DEF NoLater
    <2>. QED BY <2>1, <2>2
  <1>15. Ordered'
    <2>1. ~heard => \A j \in Features : \A x \in cache'[j] : Past(x.told)
      BY <1>0, <1>4, <1>6, <1>12 DEF Ordered
    <2>2. ASSUME NEW d \in Callers, NEW a \in asking[d], NEW i \in a.keys, computed'[i] # Crossed,
                 NEW j \in Sways(i)
          PROVE  j \notin keys
      <3>1. i \in Features /\ i \notin Missing(k)
        BY <1>0, <1>2, <2>2 DEF FeatureShapes
      <3>2. CASE j = i
        BY <3>1, <3>2
      <3>3. CASE i = Bands /\ j \in Drawn /\ j \in keys
        <4>1. j = k
          BY <1>4, <3>1, <3>3, DrawnAssumption DEF Missing
        <4>2. PICK b \in cache[Bands] : instant - b.stamp < KeptFor
          BY <1>4, <3>1, <3>3, <4>1
        <4>3. Stale(Bands)
          BY <1>0, <1>2, <2>2, <3>3, DrawnAssumption DEF Accounted
        <4>4. b.stamp \in Int /\ instant \in Int /\ KeptFor \in Int
          BY <1>0, KeptForAssumption, MaxInstantAssumption, DrawnAssumption DEF FeatureShapes
        <4>. QED BY <4>2, <4>3, <4>4 DEF Stale
      <3>. QED BY <2>2, <3>2, <3>3 DEF Sways
    <2>3. \A i \in Features : Sways(i) \subseteq Features
      BY DrawnAssumption DEF Sways
    <2>4. \A d \in Callers : \A a \in asking[d] : a.keys \subseteq Features
      BY <1>0 DEF FeatureShapes
    <2>5. ASSUME NEW d \in Callers, NEW a \in asking[d], NEW i \in a.keys, computed'[i] # Crossed,
                 NEW j \in Sways(i), NEW x \in cache'[j]
          PROVE  Past(x.told) /\ \A read \in a.read : NoLater(x.told, read)
      <3>1. i \in Features /\ j \in Features /\ j \notin keys
        BY <2>2, <2>3, <2>4, <2>5
      <3>2. x \in cache[j] /\ computed[i] # Crossed
        BY <1>2, <1>6, <2>5, <3>1
      <3>. QED BY <1>0, <2>5, <3>2 DEF Ordered
    <2>6. ASSUME computed'[Bands] # Crossed, NEW j \in Drawn, NEW x \in cache'[j], NEW b \in cache'[Bands]
          PROVE  NoLater(x.told, b.told)
      <3>0. /\ j \in Features /\ Bands \in Features /\ j # Bands /\ computed[Bands] # Crossed
            /\ \A at, now \in e.told : at = now /\ at \in Int
        BY <1>0, <1>2, <1>4, <2>6, DrawnAssumption, MaxInstantAssumption DEF FeatureShapes
      <3>1. CASE Bands \in keys
        <4>1. b.told = e.told /\ e.told \in {{}, {instant}}
          BY <1>4, <1>6, <3>0, <3>1, <2>6, DrawnAssumption
        <4>2. \A at \in x.told : at \in 0..instant
          BY <1>2, <1>7, <2>6, <3>0 DEF FeatureShapes
        <4>. QED BY <1>0, <4>1, <4>2, MaxInstantAssumption DEF NoLater, FeatureShapes
      <3>2. CASE Bands \notin keys /\ j \in keys
        <4>1. b \in cache[Bands] /\ x.told = e.told
          BY <1>4, <1>6, <2>6, <3>0, <3>2
        <4>2. PICK y \in cache[Bands] : e.told = y.told
          BY <1>2, <1>4, <2>6, <3>0, <3>2, DrawnAssumption DEF Missing
        <4>3. y = b
          BY <1>0, <3>0, <4>1, <4>2 DEF FeatureShapes
        <4>. QED BY <3>0, <4>1, <4>2, <4>3 DEF NoLater
      <3>3. CASE Bands \notin keys /\ j \notin keys
        BY <1>0, <1>6, <2>6, <3>0, <3>3 DEF Ordered
      <3>. QED BY <3>1, <3>2, <3>3
    <2>. QED BY <1>0, <1>1, <1>2, <2>1, <2>5, <2>6 DEF Ordered, Past
  <1>. QED BY <1>7, <1>9, <1>10, <1>11, <1>14, <1>15 DEF FeatureInv

LEMMA AskKeeps ==
    ASSUME FeatureInv, NEW c \in Callers, NEW k \in Features, Ask(c, k)
    PROVE  FeatureInv'
  <1>0. FeatureShapes /\ InTime /\ OneAtATime /\ Accounted /\ Ordered
    BY DEF FeatureInv
  <1>1. /\ Missing(k) \subseteq Features /\ k \in Missing(k)
        /\ asking[c] = {} /\ \A j \in Missing(k) : Stale(j)
        /\ instant' = instant /\ heard' = heard /\ outside' = outside
        /\ computed' \in [Features -> Int]
        /\ \A j \in Features : \/ computed'[j] = computed[j]
                               \/ computed'[j] = Crossed
                               \/ j \in Missing(k) /\ computed'[j] = instant /\ Stale(j)
        /\ \A j \in Features : computed'[j] # Crossed => computed[j] # Crossed
        /\ \A j \in Missing(k) : computed'[j] # Crossed =>
              /\ computed'[j] = instant
              /\ \A d \in Callers : \A a \in asking[d] : j \notin a.keys
    BY MissedTells DEF Ask
  <1> DEFINE new == [keys |-> Missing(k), stamp |-> instant, read |-> {}]
  <1>2. cache' = cache /\ ~heard /\ asking' = [asking EXCEPT ![c] = {new}]
    BY DEF Ask
  <1>3. /\ new.keys = Missing(k) /\ new.stamp = instant /\ new.read = {}
        /\ new \in [keys : SUBSET Features, stamp : 0..instant, read : SUBSET SUBSET (0..instant)]
    BY <1>0, <1>1, MaxInstantAssumption DEF FeatureShapes
  <1>4. Missing(k) \cap Drawn # {} => Bands \in Missing(k)
    BY DrawnAssumption DEF Ask, Missing
  <1> HIDE DEF new
  <1>5. asking'[c] = {new} /\ \A d \in Callers \ {c} : asking'[d] = asking[d]
    BY <1>0, <1>2 DEF FeatureShapes
  <1>6. FeatureShapes'
    <2>1. asking' \in [Callers -> SUBSET [keys : SUBSET Features, stamp : 0..instant,
                                          read : SUBSET SUBSET (0..instant)]]
      BY <1>0, <1>2, <1>3 DEF FeatureShapes
    <2>2. \A d \in Callers : \A a \in asking'[d] : \A told \in a.read : \A x, y \in told : x = y
      BY <1>0, <1>3, <1>5 DEF FeatureShapes
    <2>. QED BY <1>0, <1>1, <1>2, <2>1, <2>2 DEF FeatureShapes
  <1>7. \A d \in Callers : \A a \in asking'[d] : (d = c /\ a = new) \/ (d # c /\ a \in asking[d])
    BY <1>5
  <1>8. InTime'
    <2>1. ASSUME NEW d \in Callers, NEW a \in asking'[d], NEW told \in a.read, NEW at \in told
          PROVE  a.stamp - at < OutsideFor
      BY <1>0, <1>3, <1>7, <2>1 DEF InTime
    <2>. QED BY <1>0, <1>2, <2>1 DEF InTime
  <1>9. OneAtATime'
    <2>1. ASSUME NEW d \in Callers, NEW i \in Callers, NEW a \in asking'[d], NEW b \in asking'[i],
                 NEW j \in a.keys \cap b.keys, computed'[j] # Crossed
          PROVE  d = i
      <3>1. j \in Features
        BY <1>6, <2>1 DEF FeatureShapes
      <3>. QED BY <1>0, <1>1, <1>3, <1>7, <2>1, <3>1 DEF OneAtATime
    <2>2. \A d \in Callers : \A a, b \in asking'[d] : a = b
      BY <1>0, <1>5 DEF OneAtATime
    <2>3. \A d \in Callers : \A a \in asking'[d] : a.keys \cap Drawn # {} => Bands \in a.keys
      BY <1>0, <1>3, <1>4, <1>7 DEF OneAtATime
    <2>. QED BY <2>1, <2>2, <2>3 DEF OneAtATime
  <1>10. Accounted'
    <2> SUFFICES ASSUME NEW j \in Features, computed'[j] # Crossed
                 PROVE  /\ \A d \in Callers : \A a \in asking'[d] : j \in a.keys =>
                              a.stamp = computed'[j] /\ Stale(j)
                        /\ \/ computed'[j] = -KeptFor
                           \/ \E d \in Callers : \E a \in asking'[d] : j \in a.keys
                           \/ \E x \in cache[j] : x.stamp = computed'[j]
      BY <1>1, <1>2 DEF Accounted, Stale
    <2>1. CASE j \in Missing(k)
      <3>1. new \in asking'[c] /\ j \in new.keys
        BY <1>3, <1>5, <2>1
      <3>. QED BY <1>1, <1>3, <1>7, <2>1, <3>1
    <2>2. CASE j \notin Missing(k)
      <3>1. computed'[j] = computed[j] /\ \A d \in Callers : asking[d] \subseteq asking'[d]
        BY <1>1, <1>5, <2>2
      <3>2. \A d \in Callers : \A a \in asking'[d] : j \in a.keys => a \in asking[d]
        BY <1>3, <1>7, <2>2
      <3>. QED BY <1>0, <3>1, <3>2 DEF Accounted
    <2>. QED BY <2>1, <2>2
  <1>11. Ordered'
    <2>0. \A j \in Features : \A x \in cache[j] : Past(x.told)
      BY <1>0, <1>2 DEF Ordered
    <2>1. ASSUME NEW d \in Callers, NEW a \in asking'[d], NEW i \in a.keys, computed'[i] # Crossed,
                 NEW j \in Sways(i), NEW x \in cache[j]
          PROVE  Past(x.told) /\ \A read \in a.read : NoLater(x.told, read)
      <3>1. i \in Features /\ j \in Features /\ computed[i] # Crossed
        BY <1>1, <1>6, <2>1, DrawnAssumption DEF FeatureShapes, Sways
      <3>2. CASE a = new
        BY <1>3, <2>0, <2>1, <3>1, <3>2
      <3>3. CASE a \in asking[d]
        BY <1>0, <2>1, <3>1, <3>3 DEF Ordered
      <3>. QED BY <1>7, <2>1, <3>2, <3>3
    <2>2. \A d \in Callers : \A a \in asking'[d] : \A told \in a.read : Past(told)
      BY <1>0, <1>3, <1>7 DEF Ordered
    <2>3. computed'[Bands] # Crossed => computed[Bands] # Crossed
      BY <1>1, DrawnAssumption
    <2>. QED BY <1>0, <1>1, <1>2, <2>1, <2>2, <2>3 DEF Ordered, Past
  <1>. QED BY <1>6, <1>8, <1>9, <1>10, <1>11 DEF FeatureInv

LEMMA ReadKeeps ==
    ASSUME FeatureInv, NEW c \in Callers, ReadMarket(c)
    PROVE  FeatureInv'
  <1>0. FeatureShapes /\ InTime /\ OneAtATime /\ Accounted /\ Ordered
    BY DEF FeatureInv
  <1>1. PICK ask \in asking[c], told \in {{}, Unexpired} :
             asking' = [asking EXCEPT ![c] = {[ask EXCEPT !.read = {told}]}]
    BY DEF ReadMarket
  <1> DEFINE new == [ask EXCEPT !.read = {told}]
  <1>2. /\ instant' = instant /\ heard' = heard /\ outside' = outside
        /\ cache' = cache /\ computed' = computed
    BY DEF ReadMarket
  <1>3. told \subseteq outside /\ \A at \in told : at \in 0..instant /\ instant - at < OutsideFor
    BY <1>0, <1>1 DEF Unexpired, FeatureShapes
  <1>4. ask \in [keys : SUBSET Features, stamp : 0..instant, read : SUBSET SUBSET (0..instant)]
    BY <1>0, <1>1 DEF FeatureShapes
  <1>5. /\ new.keys = ask.keys /\ new.stamp = ask.stamp /\ new.read = {told}
        /\ new \in [keys : SUBSET Features, stamp : 0..instant, read : SUBSET SUBSET (0..instant)]
    BY <1>3, <1>4
  <1>6. asking'[c] = {new} /\ \A d \in Callers \ {c} : asking'[d] = asking[d]
    BY <1>0, <1>1 DEF FeatureShapes
  <1> HIDE DEF new
  <1>7. \A d \in Callers : \A a \in asking'[d] : (d = c /\ a = new) \/ (d # c /\ a \in asking[d])
    BY <1>6
  <1>8. \A d \in Callers : \A a \in asking'[d] : \E b \in asking[d] : a.keys = b.keys /\ a.stamp = b.stamp
    BY <1>1, <1>5, <1>7
  <1>9. FeatureShapes'
    <2>1. asking' \in [Callers -> SUBSET [keys : SUBSET Features, stamp : 0..instant,
                                          read : SUBSET SUBSET (0..instant)]]
      BY <1>0, <1>1, <1>5 DEF FeatureShapes, new
    <2>2. \A x, y \in told : x = y
      BY <1>0, <1>3 DEF FeatureShapes, AtMostOne
    <2>3. \A d \in Callers : \A a \in asking'[d] : \A t \in a.read : \A x, y \in t : x = y
      BY <1>0, <1>5, <1>7, <2>2 DEF FeatureShapes
    <2>. QED BY <1>0, <1>2, <2>1, <2>3 DEF FeatureShapes
  <1>10. InTime'
    <2>1. ASSUME NEW d \in Callers, NEW a \in asking'[d], NEW t \in a.read, NEW at \in t
          PROVE  a.stamp - at < OutsideFor
      <3>1. CASE a = new
        <4>1. at \in told /\ ask.stamp \in 0..instant /\ OutsideFor \in Int /\ instant \in Int
          BY <1>0, <1>4, <1>5, <2>1, <3>1, KeptForAssumption, MaxInstantAssumption DEF FeatureShapes
        <4>. QED BY <1>3, <1>5, <3>1, <4>1
      <3>2. CASE a \in asking[d]
        BY <1>0, <2>1, <3>2 DEF InTime
      <3>. QED BY <1>7, <2>1, <3>1, <3>2
    <2>. QED BY <1>0, <1>2, <2>1 DEF InTime
  <1>11. OneAtATime'
    <2>1. ASSUME NEW d \in Callers, NEW i \in Callers, NEW a \in asking'[d], NEW b \in asking'[i],
                 NEW j \in a.keys \cap b.keys, computed[j] # Crossed
          PROVE  d = i
      BY <1>0, <1>8, <2>1 DEF OneAtATime
    <2>2. \A d \in Callers : \A a, b \in asking'[d] : a = b
      BY <1>0, <1>6 DEF OneAtATime
    <2>3. \A d \in Callers : \A a \in asking'[d] : a.keys \cap Drawn # {} => Bands \in a.keys
      BY <1>0, <1>8 DEF OneAtATime
    <2>. QED BY <1>2, <2>1, <2>2, <2>3 DEF OneAtATime
  <1>12. Accounted'
    <2>1. \A k \in Features : (\E d \in Callers : \E a \in asking[d] : k \in a.keys)
                                => \E d \in Callers : \E a \in asking'[d] : k \in a.keys
      <3> SUFFICES ASSUME NEW k \in Features, NEW d \in Callers, NEW a \in asking[d], k \in a.keys
                   PROVE  \E i \in Callers : \E b \in asking'[i] : k \in b.keys
        OBVIOUS
      <3>1. CASE d = c
        <4>1. a = ask /\ new \in asking'[c] /\ k \in new.keys
          BY <1>0, <1>1, <1>5, <1>6, <3>1 DEF OneAtATime
        <4>. QED BY <4>1
      <3>2. CASE d # c
        BY <1>6, <3>2
      <3>. QED BY <3>1, <3>2
    <2>2. ASSUME NEW k \in Features, computed[k] # Crossed, NEW d \in Callers, NEW a \in asking'[d], k \in a.keys
          PROVE  a.stamp = computed[k] /\ Stale(k)
      BY <1>0, <1>8, <2>2 DEF Accounted
    <2>. QED BY <1>0, <1>2, <2>1, <2>2 DEF Accounted, Stale
  <1>13. Ordered'
    <2>1. \A d \in Callers : \A a \in asking'[d] : \A t \in a.read : Past(t)
      <3>1. Past(told)
        BY <1>3 DEF Past
      <3>. QED BY <1>0, <1>5, <1>7, <3>1 DEF Ordered
    <2>2. ASSUME NEW d \in Callers, NEW a \in asking'[d], NEW k \in a.keys, computed[k] # Crossed,
                 NEW j \in Sways(k), NEW e \in cache[j]
          PROVE  Past(e.told) /\ \A t \in a.read : NoLater(e.told, t)
      <3>1. CASE a = new /\ d = c
        <4>1. Past(e.told)
          BY <1>0, <1>1, <1>5, <2>2, <3>1 DEF Ordered
        <4>2. NoLater(e.told, told)
          BY <1>0, <1>3, <4>1 DEF Past, NoLater, FeatureShapes, AtMostOne
        <4>. QED BY <1>5, <3>1, <4>1, <4>2
      <3>2. CASE a \in asking[d]
        BY <1>0, <2>2, <3>2 DEF Ordered
      <3>. QED BY <1>7, <2>2, <3>1, <3>2
    <2>. QED BY <1>0, <1>2, <2>1, <2>2 DEF Ordered, Past
  <1>. QED BY <1>9, <1>10, <1>11, <1>12, <1>13 DEF FeatureInv

LEMMA KeepKeeps ==
    ASSUME FeatureInv, NEW c \in Callers, Keep(c)
    PROVE  FeatureInv' /\ \A j \in Features : computed'[j] # Crossed =>
                             \A old \in cache[j], new \in cache'[j] : NoLater(old.told, new.told)
  <1>0. FeatureShapes /\ InTime /\ OneAtATime /\ Accounted /\ Ordered
    BY DEF FeatureInv
  <1>1. PICK ask \in asking[c] :
          \E told \in ask.read : cache' = Filled(ask.keys, Entry(ask.stamp, told, TRUE))
    BY DEF Keep
  <1>2. PICK told \in ask.read : cache' = Filled(ask.keys, Entry(ask.stamp, told, TRUE))
    BY <1>1
  <1> DEFINE e == Entry(ask.stamp, told, TRUE)
  <1>3. /\ instant' = instant /\ heard' = heard /\ outside' = outside
        /\ computed' = computed /\ asking' = [asking EXCEPT ![c] = {}]
    BY DEF Keep
  <1>4. /\ ask \in [keys : SUBSET Features, stamp : 0..instant, read : SUBSET SUBSET (0..instant)]
        /\ told \subseteq 0..instant /\ \A x, y \in told : x = y
    BY <1>0, <1>2 DEF FeatureShapes
  <1>5. /\ e.stamp = ask.stamp /\ e.told = told /\ e.lent
        /\ e \in [stamp : 0..instant, told : SUBSET (0..instant), lent : BOOLEAN]
    BY <1>4 DEF Entry
  <1>6. \A j \in Features : cache'[j] = IF j \in ask.keys THEN {e} ELSE cache[j]
    BY <1>2 DEF Filled
  <1> HIDE DEF e
  <1>7. asking'[c] = {} /\ \A d \in Callers \ {c} : asking'[d] = asking[d]
    BY <1>0, <1>3 DEF FeatureShapes
  <1>8. \A d \in Callers : \A a \in asking'[d] : d # c /\ a \in asking[d]
    BY <1>7
  <1>9. FeatureShapes'
    <2>1. cache' \in [Features -> SUBSET [stamp : 0..instant, told : SUBSET (0..instant), lent : BOOLEAN]]
      <3>1. \A j \in Features :
               cache'[j] \in SUBSET [stamp : 0..instant, told : SUBSET (0..instant), lent : BOOLEAN]
        BY <1>0, <1>5, <1>6 DEF FeatureShapes
      <3>. QED BY <1>2, <3>1 DEF Filled
    <2>2. \A j \in Features : \A x, y \in cache'[j] : x = y /\ \A at, now \in y.told : at = now
      BY <1>0, <1>4, <1>5, <1>6 DEF FeatureShapes
    <2>. QED BY <1>0, <1>3, <1>8, <2>1, <2>2 DEF FeatureShapes
  <1>10. InTime'
    <2>1. ASSUME NEW j \in Features, NEW x \in cache'[j], NEW at \in x.told
          PROVE  x.stamp - at <= Lag(j, x.lent)
      <3>1. CASE j \in ask.keys
        <4>1. x = e /\ at \in told
          BY <1>5, <1>6, <2>1, <3>1
        <4>2. ask.stamp - at < OutsideFor
          BY <1>0, <1>1, <1>2, <4>1 DEF InTime
        <4>3. at \in Int /\ ask.stamp \in Int
          BY <1>4, <4>1
        <4>. QED BY <1>5, <4>1, <4>2, <4>3, KeptForAssumption DEF Lag
      <3>2. CASE j \notin ask.keys
        BY <1>0, <1>6, <2>1, <3>2 DEF InTime
      <3>. QED BY <3>1, <3>2
    <2>. QED BY <1>0, <1>8, <2>1 DEF InTime
  <1>11. OneAtATime'
    BY <1>0, <1>3, <1>8 DEF OneAtATime
  <1>12. \A d \in Callers : \A a \in asking'[d] : \A k \in a.keys : computed[k] # Crossed => k \notin ask.keys
    BY <1>0, <1>1, <1>8 DEF OneAtATime
  <1>13. Accounted'
    <2> SUFFICES ASSUME NEW j \in Features, computed[j] # Crossed
                 PROVE  /\ \A d \in Callers : \A a \in asking'[d] : j \in a.keys =>
                              a.stamp = computed[j] /\ \A x \in cache'[j] : instant - x.stamp >= KeptFor
                        /\ \/ computed[j] = -KeptFor
                           \/ \E d \in Callers : \E a \in asking'[d] : j \in a.keys
                           \/ \E x \in cache'[j] : x.stamp = computed[j]
      BY <1>3 DEF Accounted, Stale
    <2>1. CASE j \in ask.keys
      BY <1>0, <1>1, <1>5, <1>6, <1>12, <2>1 DEF Accounted
    <2>2. CASE j \notin ask.keys
      <3>1. \A d \in Callers : \A a \in asking[d] : j \in a.keys => a \in asking'[d]
        BY <1>0, <1>1, <1>7, <2>2 DEF OneAtATime
      <3>. QED BY <1>0, <1>6, <1>8, <2>2, <3>1 DEF Accounted, Stale
    <2>. QED BY <2>1, <2>2
  <1>14. ASSUME NEW j \in Features, computed[j] # Crossed,
                NEW old \in cache[j], NEW new \in cache'[j]
         PROVE  NoLater(old.told, new.told)
    <2>1. CASE j \in ask.keys
      BY <1>0, <1>1, <1>2, <1>5, <1>6, <1>14, <2>1 DEF Ordered, Sways
    <2>2. CASE j \notin ask.keys
      <3>1. old = new /\ \A at, now \in old.told : at = now /\ at \in Int
        BY <1>0, <1>6, <1>14, <2>2 DEF FeatureShapes
      <3>. QED BY <3>1 DEF NoLater
    <2>. QED BY <2>1, <2>2
  <1>15. Ordered'
    <2>1. ~heard => \A j \in Features : \A x \in cache'[j] : Past(x.told)
      BY <1>0, <1>1, <1>2, <1>5, <1>6 DEF Ordered
    <2>2. ASSUME NEW d \in Callers, NEW a \in asking'[d], NEW k \in a.keys, computed[k] # Crossed,
                 NEW j \in Sways(k), NEW x \in cache'[j]
          PROVE  Past(x.told) /\ \A t \in a.read : NoLater(x.told, t)
      <3>1. a \in asking[d] /\ k \in Features /\ j \in Features /\ k \notin ask.keys
        BY <1>0, <1>8, <1>12, <2>2, DrawnAssumption DEF FeatureShapes, Sways
      <3>2. j \notin ask.keys
        BY <1>0, <1>1, <2>2, <3>1 DEF OneAtATime, Sways
      <3>. QED BY <1>0, <1>6, <2>2, <3>1, <3>2 DEF Ordered
    <2>3. ASSUME computed[Bands] # Crossed, NEW j \in Drawn, NEW x \in cache'[j], NEW b \in cache'[Bands]
          PROVE  NoLater(x.told, b.told)
      <3>0. j \in Features /\ Bands \in Features /\ j \in Sways(Bands)
        BY DrawnAssumption DEF Sways
      <3>1. CASE Bands \in ask.keys /\ j \in ask.keys
        <4>1. b.told = told /\ x.told = told
          BY <1>5, <1>6, <2>3, <3>0, <3>1
        <4>. QED BY <1>4, <4>1 DEF NoLater
      <3>2. CASE Bands \in ask.keys /\ j \notin ask.keys
        BY <1>0, <1>1, <1>2, <1>5, <1>6, <2>3, <3>0, <3>2 DEF Ordered
      <3>3. CASE Bands \notin ask.keys
        <4>1. j \notin ask.keys
          BY <1>0, <1>1, <3>3 DEF OneAtATime
        <4>. QED BY <1>0, <1>6, <2>3, <3>0, <3>3, <4>1 DEF Ordered
      <3>. QED BY <3>1, <3>2, <3>3
    <2>. QED BY <1>0, <1>3, <1>8, <2>1, <2>2, <2>3 DEF Ordered, Past
  <1>. QED BY <1>3, <1>9, <1>10, <1>11, <1>13, <1>14, <1>15 DEF FeatureInv

(* The keys a caller gives up, or all of them, are crossed.                  *)
LEMMA ForgettingKeeps ==
    ASSUME FeatureInv, (\E c \in Callers : Raise(c)) \/ Invalidate \/ Restart
    PROVE  FeatureInv' /\ \A j \in Features : computed'[j] # Crossed =>
                             computed'[j] = computed[j] /\ cache'[j] = cache[j]
  <1>0. FeatureShapes /\ InTime /\ OneAtATime /\ Accounted /\ Ordered
    BY DEF FeatureInv
  <1>a. Crossed \in Int
    BY KeptForAssumption DEF Crossed
  <1>1. CASE Invalidate \/ Restart
    <2>1. /\ cache' = [k \in Features |-> {}] /\ computed' = [k \in Features |-> Crossed]
          /\ instant' = instant /\ outside' = outside /\ heard' \in {heard, FALSE}
          /\ asking' \in {asking, [c \in Callers |-> {}]}
      BY <1>1 DEF Invalidate, Restart
    <2>2. heard' \in BOOLEAN
      BY <1>0, <2>1 DEF FeatureShapes
    <2>3. \A c \in Callers : asking'[c] \subseteq asking[c]
      BY <2>1
    <2>4. FeatureShapes'
      <3>1. asking' \in [Callers -> SUBSET [keys : SUBSET Features, stamp : 0..instant,
                                            read : SUBSET SUBSET (0..instant)]]
        BY <1>0, <2>1 DEF FeatureShapes
      <3>. QED BY <1>0, <1>a, <2>1, <2>2, <2>3, <3>1 DEF FeatureShapes
    <2>5. InTime' /\ OneAtATime' /\ Accounted'
      BY <1>0, <2>1, <2>3, DrawnAssumption DEF InTime, OneAtATime, Accounted, FeatureShapes
    <2>6. Ordered'
      BY <1>0, <2>1, <2>3, <2>4, DrawnAssumption DEF Ordered, Past, FeatureShapes
    <2>. QED BY <2>1, <2>4, <2>5, <2>6 DEF FeatureInv
  <1>2. ASSUME NEW c \in Callers, Raise(c)
        PROVE  FeatureInv' /\ \A j \in Features : computed'[j] # Crossed =>
                             computed'[j] = computed[j] /\ cache'[j] = cache[j]
    <2>1. PICK ask \in asking[c] :
              computed' = [k \in Features |-> IF k \in ask.keys THEN Crossed ELSE computed[k]]
      BY <1>2 DEF Raise
    <2>2. /\ asking' = [asking EXCEPT ![c] = {}] /\ cache' = cache
          /\ instant' = instant /\ heard' = heard /\ outside' = outside
      BY <1>2 DEF Raise
    <2>3. asking'[c] = {} /\ \A d \in Callers \ {c} : asking'[d] = asking[d]
      BY <1>0, <2>2 DEF FeatureShapes
    <2>4. \A d \in Callers : \A a \in asking'[d] : d # c /\ a \in asking[d] /\ a.keys \subseteq Features
      BY <1>0, <2>3 DEF FeatureShapes
    <2>5. \A j \in Features : computed'[j] = Crossed \/ (j \notin ask.keys /\ computed'[j] = computed[j])
      BY <2>1
    <2>6. FeatureShapes'
      BY <1>0, <1>a, <2>1, <2>2, <2>4 DEF FeatureShapes
    <2>7. InTime' /\ OneAtATime'
      BY <1>0, <2>2, <2>4, <2>5 DEF InTime, OneAtATime
    <2>8. Accounted'
      <3>1. \A j \in Features \ ask.keys : \A d \in Callers : \A a \in asking[d] : j \in a.keys => a \in asking'[d]
        BY <1>0, <2>1, <2>3 DEF OneAtATime
      <3>. QED BY <1>0, <2>2, <2>4, <2>5, <3>1 DEF Accounted, Stale
    <2>9. Ordered'
      BY <1>0, <2>2, <2>4, <2>5, DrawnAssumption DEF Ordered, Past
    <2>. QED BY <2>2, <2>5, <2>6, <2>7, <2>8, <2>9 DEF FeatureInv
  <1>. QED BY <1>1, <1>2

LEMMA WaitingKeeps ==
    ASSUME FeatureInv, InstantPasses \/ MarketSpeaks \/ UNCHANGED featureVars
    PROVE  FeatureInv'
  <1>0. FeatureShapes /\ InTime /\ OneAtATime /\ Accounted /\ Ordered
    BY DEF FeatureInv
  <1>1. /\ cache' = cache /\ asking' = asking /\ computed' = computed
        /\ instant' \in 0..MaxInstant /\ instant' >= instant /\ 0..instant \subseteq 0..instant'
    <2>1. /\ cache' = cache /\ asking' = asking /\ computed' = computed
          /\ instant' = instant \/ (instant < MaxInstant /\ instant' = instant + 1)
      BY DEF InstantPasses, MarketSpeaks, featureVars
    <2>2. instant \in 0..MaxInstant
      BY <1>0 DEF FeatureShapes
    <2>. QED BY <2>1, <2>2, MaxInstantAssumption
  <1>2. heard' \in BOOLEAN /\ (heard => heard')
    BY Zenon, <1>0 DEF InstantPasses, MarketSpeaks, featureVars, FeatureShapes
  <1>3. outside' = outside \/ outside' = {instant}
    BY DEF InstantPasses, MarketSpeaks, featureVars
  <1>4. FeatureShapes'
    <2>1. /\ [stamp : 0..instant, told : SUBSET (0..instant), lent : BOOLEAN]
                \subseteq [stamp : 0..instant', told : SUBSET (0..instant'), lent : BOOLEAN]
          /\ [keys : SUBSET Features, stamp : 0..instant, read : SUBSET SUBSET (0..instant)]
                \subseteq [keys : SUBSET Features, stamp : 0..instant', read : SUBSET SUBSET (0..instant')]
      BY <1>1
    <2>2. instant \in 0..instant' /\ outside \subseteq 0..instant /\ AtMostOne(outside)
      BY <1>0, <1>1, MaxInstantAssumption DEF FeatureShapes
    <2>3. outside' \in SUBSET (0..instant')
      BY <1>1, <1>3, <2>2
    <2>4. AtMostOne(outside')
      BY <1>3, <2>2 DEF AtMostOne
    <2>. QED BY <1>0, <1>1, <1>2, <2>1, <2>3, <2>4 DEF FeatureShapes
  <1>5. \A told \in SUBSET (0..instant) : Past(told) => Past(told)'
    BY <1>0, <1>3, MaxInstantAssumption DEF Past, FeatureShapes
  <1>6. \A k \in Features : Stale(k) => Stale(k)'
    <2> SUFFICES ASSUME NEW k \in Features, NEW e \in cache[k], instant - e.stamp >= KeptFor
                 PROVE  instant' - e.stamp >= KeptFor
      BY <1>1 DEF Stale
    <2>1. e.stamp \in Int /\ instant \in Int /\ instant' \in Int /\ KeptFor \in Int
      BY <1>0, <1>1, KeptForAssumption, MaxInstantAssumption DEF FeatureShapes
    <2>. QED BY <1>1, <2>1
  <1>7. InTime' /\ OneAtATime'
    BY <1>0, <1>1 DEF InTime, OneAtATime
  <1>8. Accounted'
    BY <1>0, <1>1, <1>6 DEF Accounted
  <1>9. Ordered'
    <2>1. /\ \A k \in Features : \A e \in cache[k] : e.told \in SUBSET (0..instant)
          /\ \A c \in Callers : \A a \in asking[c] : \A told \in a.read : told \in SUBSET (0..instant)
          /\ \A c \in Callers : \A a \in asking[c] : a.keys \subseteq Features
          /\ \A k \in Features : Sways(k) \subseteq Features
      BY <1>0, DrawnAssumption DEF FeatureShapes, Sways
    <2>. QED BY <1>0, <1>1, <1>2, <1>5, <2>1 DEF Ordered
  <1>. QED BY <1>4, <1>7, <1>8, <1>9 DEF FeatureInv

LEMMA FeatureSteps ==
    ASSUME FeatureInv, FeaturesNext \/ UNCHANGED featureVars
    PROVE  FeatureInv'
  BY FillingKeeps, AskKeeps, ReadKeeps, KeepKeeps, ForgettingKeeps, WaitingKeeps DEF FeaturesNext

LEMMA FeaturePromises ==
    ASSUME FeatureInv
    PROVE  FeaturesTypeOK /\ ToldOfTheMarket
  <1>0. FeatureShapes /\ InTime
    BY DEF FeatureInv
  <1>1. FeaturesTypeOK
    BY <1>0, MaxInstantAssumption DEF FeatureShapes, FeaturesTypeOK
  <1>2. ASSUME NEW k \in Features, NEW e \in Served(k), NEW at \in e.told
        PROVE  instant - at < Within(k) + (IF e.lent THEN OutsideFor ELSE 0)
    <2>1. e \in cache[k] /\ instant - e.stamp < KeptFor
      BY <1>2 DEF Served, IsFresh
    <2>2. e.stamp - at <= Lag(k, e.lent)
      BY <1>0, <1>2, <2>1 DEF InTime
    <2>3. /\ e.stamp \in Int /\ at \in Int /\ instant \in Int
          /\ KeptFor \in Int /\ OutsideFor \in Int
      BY <1>0, <1>2, <2>1, KeptForAssumption, MaxInstantAssumption DEF FeatureShapes
    <2>. QED BY <2>1, <2>2, <2>3 DEF Within, Lag
  <1>. QED BY <1>1, <1>2 DEF ToldOfTheMarket

(* The step of ComputedOnce.                                                 *)
LEMMA FeaturesComputedOnce ==
    ASSUME FeatureInv, FeaturesNext \/ UNCHANGED featureVars, NEW k \in Features,
           computed'[k] # Crossed, computed'[Bands] # Crossed
    PROVE  /\ computed'[k] # computed[k] => computed'[k] - computed[k] >= KeptFor
           /\ \A old \in cache[k], new \in cache'[k] :
                 \A before \in old.told, after \in new.told : after >= before
  <1>0. FeatureShapes /\ Accounted
    BY DEF FeatureInv
  <1>00. /\ instant \in Nat /\ KeptFor \in Nat /\ computed[k] \in Int
         /\ \A e \in cache[k] : e.stamp \in Int
         /\ \A e \in cache[k] : \A at \in e.told : at \in Int
    BY <1>0, MaxInstantAssumption, KeptForAssumption DEF FeatureShapes
  <1>01. \A old, new \in cache[k] : NoLater(old.told, new.told)
    BY <1>0, <1>00 DEF NoLater, FeatureShapes
  <1>1. ASSUME NEW c \in Callers, NEW j \in Features, Missed(c, j)
        PROVE  computed'[k] # computed[k] => computed'[k] - computed[k] >= KeptFor
    <2>1. \/ computed'[k] = computed[k]
          \/ /\ computed'[k] = instant /\ Stale(k) /\ computed[k] # Crossed
             /\ \A d \in Callers : \A a \in asking[d] : k \notin a.keys
      BY <1>1, MissedTells
    <2>2. CASE /\ computed'[k] = instant /\ Stale(k) /\ computed[k] # Crossed
               /\ \A d \in Callers : \A a \in asking[d] : k \notin a.keys
      <3>1. computed[k] = -KeptFor \/ \E e \in cache[k] : e.stamp = computed[k]
        BY <1>0, <2>2 DEF Accounted
      <3>. QED BY <1>00, <2>2, <3>1 DEF Stale
    <2>. QED BY <2>1, <2>2
  <1>2. ASSUME NEW c \in Callers, NEW j \in Features, Compute(c, j) \/ Draw(c, j) \/ Ask(c, j)
        PROVE  computed'[k] # computed[k] => computed'[k] - computed[k] >= KeptFor
    BY <1>1, <1>2 DEF Compute, Draw, Ask
  <1>3. (\E c \in Callers : Keep(c) \/ ReadMarket(c)) \/ InstantPasses \/ MarketSpeaks \/ UNCHANGED featureVars
          => computed' = computed
    BY DEF Keep, ReadMarket, InstantPasses, MarketSpeaks, featureVars
  <1>4. (\E c \in Callers : ReadMarket(c) \/ \E j \in Features : Ask(c, j))
          \/ InstantPasses \/ MarketSpeaks \/ UNCHANGED featureVars => cache' = cache
    BY DEF ReadMarket, Ask, InstantPasses, MarketSpeaks, featureVars
  <1>5. \A old \in cache[k], new \in cache'[k] : NoLater(old.told, new.told)
    BY <1>01, <1>4, FillingKeeps, KeepKeeps, ForgettingKeeps DEF FeaturesNext
  <1>6. computed'[k] # computed[k] => computed'[k] - computed[k] >= KeptFor
    BY <1>2, <1>3, ForgettingKeeps DEF FeaturesNext
  <1>7. \A new \in cache'[k] : \A at \in new.told : at \in Int
    BY FeatureSteps DEF FeatureInv, FeatureShapes
  <1>. QED BY <1>00, <1>5, <1>6, <1>7 DEF NoLater
=============================================================================
