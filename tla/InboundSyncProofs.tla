-------------------------- MODULE InboundSyncProofs --------------------------
(***************************************************************************)
(* What the inbound synchronisation guarantees for any number of records,  *)
(* collections, date ranges, changes and faults: no change made in Tally   *)
(* is lost between two passes, and a pass that is skipped would have       *)
(* brought nothing.                                                        *)
(***************************************************************************)
EXTENDS InboundSync, FiniteSetTheorems, WellFoundedInduction, TLAPS

-----------------------------------------------------------------------------
(* The invariant *)

\* A pass that has not come to its end.
Moving == InPass /\ pc # "settle"

\* What is exported and waiting is for records of the collection.
Held(r) == Coll[r] \in DOMAIN out /\ r \in DOMAIN out[Coll[r]]

\* AlterIDs only grow, and the portal's never run ahead of Tally's.
Numbers ==
  /\ \A r \in Records : server[r] <= tally[r] /\ tally[r] <= counters[SideOf(r)]
  /\ \A r \in Records : Held(r) => /\ out[Coll[r]][r] \in Nat
                                   /\ server[r] <= out[Coll[r]][r] /\ out[Coll[r]][r] <= tally[r]
  /\ pass.minM <= counters["masters"] /\ pass.minV <= counters["vouchers"]
  /\ seen # None => \A s \in Sides : seen[s] <= counters[s]
  /\ pass.probe # None => \A s \in Sides : pass.probe[s] <= counters[s]

\* What the agent holds in each phase of a pass.
Phases ==
  /\ pc # "export" => todo = {}
  /\ pc \notin {"export", "push", "rangePush"} => DOMAIN out = {}
  /\ todo \cap DOMAIN out = {}
  /\ pc \in {"off", "idle"} => trouble = {}
  /\ pc \in {"export", "push"} => "range" \notin trouble
  /\ pc \in {"plan", "range", "rangePush"} => pass.ranged /\ trouble = {}
  /\ pc \in {"range", "rangePush"} => cursor # None /\ cursor.planned
  /\ pc = "rangePush" => /\ DOMAIN out = {VouchersColl} /\ DOMAIN out[VouchersColl] \subseteq InRange
                         /\ MoreRanges
  /\ Moving /\ pass.ranged => rangesWork /\ (cursor = None => ~pass.inc)
  /\ pass.ranged \/ pass.whole => pass.probe = None
  /\ pass.whole => ~pass.ranged
  /\ ~rangesWork => cursor = None

\* A change that is not one of those known to escape.
Loose(r) == Behind(r) /\ Coll[r] \notin Unfiltered /\ gap[r] = {}

\* The cursor still comes to r.
OnCursor(r) == r \in Vouchers /\ cursor # None /\ (~cursor.planned \/ RangeOf[r] >= cursor.next)

\* The pass still exports r's collection, from below r.
ToCome(r) == Coll[r] \in todo /\ tally[r] > MinAlter(Coll[r])

\* It has exported r as r is.
InHand(r) == Held(r) /\ out[Coll[r]][r] = tally[r]

\* The pass leaves a retry point.
Failed == trouble \cap {"export", "push"} # {}

\* A retry point left by this pass would bring r back, or r is marked when it fails.
High(r) == tally[r] > CycleMin
Marked(r) == r \in Vouchers /\ pass.whole /\ pass.inc

\* Between passes every change is owed.
NotLost == ~InPass => \A r \in Records : Loose(r) => Owed(r)

\* During one, every change is still to come, in hand, or lost to a failure that it can
\* be brought back from.
PassKeeps ==
  Moving => \A r \in Records : Loose(r) =>
              /\ High(r) \/ OnCursor(r) \/ Marked(r)
              /\ ToCome(r) \/ InHand(r) \/ RangePending(r) \/ Failed

\* At its end, the cursor or the watermark brings it, or the retry point will.
SettleKeeps ==
  pc = "settle" => \A r \in Records : Loose(r) =>
    OnCursor(r) \/ tally[r] > Watermarks[SideOf(r)] \/ (Failed /\ (High(r) \/ Marked(r)))

\* What the counters seen stood for is in the portal.
SeenKept ==
  seen # None => \A r \in Records : Loose(r) =>
    tally[r] > seen[SideOf(r)] \/ (Moving /\ InHand(r)) \/ trouble # {}
ProbeKept ==
  pc = "settle" /\ trouble = {} /\ pass.probe # None =>
    \A r \in Records : Loose(r) => tally[r] > pass.probe[SideOf(r)]

Keeps == NotLost /\ PassKeeps /\ SettleKeeps /\ SeenKept /\ ProbeKept
IInv == TypeOK /\ Numbers /\ Phases /\ Keeps
-----------------------------------------------------------------------------
(* Maxima and watermarks *)

\* A set of naturals has a least element (what FiniteSetsExt's Min chooses).
LEMMA MinFacts ==
  ASSUME NEW S \in SUBSET Nat, S # {}
  PROVE  Min(S) \in S /\ \A y \in S : Min(S) <= y
<1> DEFINE R == {ss \in Nat \X Nat : ss[1] < ss[2]}
<1>1. IsWellFoundedOn(R, Nat)
  BY NatLessThanWellFounded DEF OpToRel
<1>2. PICK x \in S : \A y \in S : ~(<<y, x>> \in R)
  <2> HIDE DEF R
  <2> QED BY <1>1, WFMin
<1>3. ASSUME NEW y \in S PROVE x <= y
  <2>1. ~(<<y, x>> \in Nat \X Nat /\ <<y, x>>[1] < <<y, x>>[2])
    BY <1>2
  <2>2. QED BY <2>1
<1>4. QED BY <1>3 DEF Min

\* A bounded set of naturals has a greatest element, and Max chooses it.
LEMMA MaxFacts ==
  ASSUME NEW N \in Nat, NEW S \in SUBSET (0 .. N), S # {}
  PROVE  Max(S) \in S /\ \A y \in S : Max(S) >= y
<1> DEFINE T == {N - y : y \in S}
<1>1. T \in SUBSET Nat
  BY \A y \in S : N - y \in Nat
<1>2. T # {}
  BY S # {}
<1> HIDE DEF T
<1>3. Min(T) \in T /\ \A z \in T : Min(T) <= z
  BY <1>1, <1>2, MinFacts
<1>4. PICK x \in S : Min(T) = N - x
  BY <1>3 DEF T
<1>5. \A y \in S : N - x <= N - y
  BY <1>3, <1>4 DEF T
<1>6. \A y \in S : x >= y
  BY <1>5
<1>7. QED BY <1>6 DEF Max

\* The highest AlterID over some records.
LEMMA HighestFacts ==
  ASSUME NEW f \in [Records -> 0 .. MaxAlter], NEW S \in SUBSET Records
  PROVE  /\ Highest(f, S) \in 0 .. MaxAlter
         /\ \A r \in S : f[r] <= Highest(f, S)
         /\ Highest(f, S) = 0 \/ \E r \in S : Highest(f, S) = f[r]
<1> DEFINE T == {0} \cup {f[r] : r \in S}
<1>1. T \in SUBSET (0 .. MaxAlter) /\ T # {}
  BY ShapeAssumption
<1>2. MaxAlter \in Nat
  BY ShapeAssumption
<1>3. Max(T) \in T /\ \A y \in T : Max(T) >= y
  <2> HIDE DEF T
  <2> QED BY <1>1, <1>2, MaxFacts
<1>4. QED BY <1>1, <1>3 DEF Highest

\* The portal's answer to "what is your highest AlterID".
LEMMA WatermarkFacts ==
  ASSUME TypeOK
  PROVE  /\ Watermarks \in [Sides -> 0 .. MaxAlter]
         /\ \A r \in Records : SideOf(r) \in Sides /\ server[r] <= Watermarks[SideOf(r)]
         /\ \A s \in Sides : Watermarks[s] = 0
                              \/ \E r \in Records : SideOf(r) = s /\ Watermarks[s] = server[r]
<1>1. server \in [Records -> 0 .. MaxAlter] /\ MasterRecords \in SUBSET Records
         /\ Vouchers \in SUBSET Records
  BY DEF TypeOK, MasterRecords, Vouchers
<1>2. /\ Highest(server, MasterRecords) \in 0 .. MaxAlter
      /\ \A r \in MasterRecords : server[r] <= Highest(server, MasterRecords)
      /\ Highest(server, MasterRecords) = 0
           \/ \E r \in MasterRecords : Highest(server, MasterRecords) = server[r]
  BY <1>1, HighestFacts
<1>3. /\ Highest(server, Vouchers) \in 0 .. MaxAlter
      /\ \A r \in Vouchers : server[r] <= Highest(server, Vouchers)
      /\ Highest(server, Vouchers) = 0
           \/ \E r \in Vouchers : Highest(server, Vouchers) = server[r]
  BY <1>1, HighestFacts
<1>4. /\ Watermarks["masters"] = Highest(server, MasterRecords)
      /\ Watermarks["vouchers"] = Highest(server, Vouchers)
      /\ DOMAIN Watermarks = Sides
      /\ Watermarks \in [Sides -> 0 .. MaxAlter]
  BY <1>2, <1>3 DEF Watermarks, Sides
<1>5. \A r \in Records : IF r \in Vouchers THEN SideOf(r) = "vouchers"
                         ELSE SideOf(r) = "masters" /\ r \in MasterRecords
  BY DEF SideOf, MasterRecords
<1>6. \A r \in Records : SideOf(r) \in Sides /\ server[r] <= Watermarks[SideOf(r)]
  BY <1>2, <1>3, <1>4, <1>5 DEF Sides
<1>7. \A r \in MasterRecords : r \in Records /\ r \notin Vouchers
  BY DEF MasterRecords
<1>8. \A s \in Sides : Watermarks[s] = 0
                              \/ \E r \in Records : SideOf(r) = s /\ Watermarks[s] = server[r]
  <2>1. CASE Watermarks["masters"] = 0
    BY <2>1, <1>1, <1>3, <1>4, <1>5 DEF Sides
  <2>2. CASE \E r \in MasterRecords : Watermarks["masters"] = server[r]
    BY <2>2, <1>1, <1>3, <1>4, <1>5, <1>7 DEF Sides
  <2>3. QED BY <2>1, <2>2, <1>2, <1>4
<1>9. QED BY <1>4, <1>6, <1>8

\* No watermark is ahead of Tally's counter.
LEMMA WatermarkBelow ==
  ASSUME TypeOK, Numbers
  PROVE  \A s \in Sides : Watermarks[s] <= counters[s]
<1>1. \A s \in Sides : Watermarks[s] \in Nat /\ counters[s] \in Nat
  BY WatermarkFacts, ShapeAssumption DEF TypeOK
<1>2. \A r \in Records : server[r] <= counters[SideOf(r)]
  <2>1. \A r \in Records : server[r] \in Nat /\ tally[r] \in Nat /\ counters[SideOf(r)] \in Nat
    BY WatermarkFacts, <1>1 DEF TypeOK
  <2>2. QED BY <2>1 DEF Numbers
<1>3. QED BY <1>1, <1>2, WatermarkFacts

-----------------------------------------------------------------------------
(* The first state *)

\* When the agent is installed the portal holds nothing, so every change is above the watermarks.
LEMMA Initially == Init => IInv
<1> SUFFICES ASSUME Init PROVE IInv
  OBVIOUS
<1>1. Max({Cardinality(MasterRecords), Cardinality(Vouchers)}) \in 0 .. MaxAlter
  <2>1. IsFiniteSet(Vouchers) /\ IsFiniteSet(MasterRecords)
    BY ShapeAssumption, FS_Subset DEF Vouchers, MasterRecords
  <2>2. Cardinality(MasterRecords) \in Nat /\ Cardinality(Vouchers) \in Nat
    BY <2>1, FS_CardinalityType
  <2> DEFINE T == {Cardinality(MasterRecords), Cardinality(Vouchers)}
  <2>3. T \in SUBSET (0 .. MaxAlter) /\ T # {} /\ MaxAlter \in Nat
    BY <2>2, ShapeAssumption
  <2>4. Max(T) \in T
    <3> HIDE DEF T
    <3> QED BY <2>3, MaxFacts
  <2>5. QED BY <2>3, <2>4
<1>2. tally \in [Records -> 0 .. MaxAlter] /\ \A r \in Records : tally[r] > 0
  BY <1>1, ShapeAssumption DEF Init
<1>3. \A s \in Sides : /\ counters[s] \in 0 .. MaxAlter
                       /\ \A r \in Records : SideOf(r) = s => tally[r] <= counters[s]
  <2> SUFFICES ASSUME NEW s \in Sides
               PROVE  /\ counters[s] \in 0 .. MaxAlter
                      /\ \A r \in Records : SideOf(r) = s => tally[r] <= counters[s]
    OBVIOUS
  <2> DEFINE S == {r \in Records : SideOf(r) = s}
  <2>1. S \in SUBSET Records /\ counters[s] = Highest(tally, S)
    BY DEF Init
  <2>2. QED BY <2>1, <1>2, HighestFacts
<1>4. server = [r \in Records |-> 0] /\ counters \in [Sides -> 0 .. MaxAlter]
  BY <1>3 DEF Init
<1>5. TypeOK
  BY <1>2, <1>4, ShapeAssumption DEF Init, TypeOK, NoPass, Nothing, Leaks
<1>6. Numbers
  <2>1. \A r \in Records : SideOf(r) \in Sides
    BY DEF SideOf, Sides
  <2>2. \A r \in Records : server[r] <= tally[r] /\ tally[r] <= counters[SideOf(r)]
    BY <2>1, <1>2, <1>3, <1>4
  <2>3. 0 <= counters["masters"] /\ 0 <= counters["vouchers"]
    BY <1>3, ShapeAssumption DEF Sides
  <2>4. QED BY <2>2, <2>3 DEF Numbers, Init, Held, Nothing, NoPass
<1>7. Phases
  BY DEF Phases, Init, Nothing, NoPass, Moving, InPass
<1>8. \A r \in Records : Owed(r)
  <2>1. \A s \in Sides : Watermarks[s] = 0
    BY <1>4, <1>5, WatermarkFacts
  <2>2. \A r \in Records : SideOf(r) \in Sides
    BY DEF SideOf, Sides
  <2>3. QED BY <2>1, <2>2, <1>2 DEF Owed, NextMin, Init
<1>9. Keeps
  BY <1>8 DEF Keeps, NotLost, PassKeeps, SettleKeeps, SeenKept, ProbeKept, Init, Moving, InPass
<1>10. QED BY <1>5, <1>6, <1>7, <1>9 DEF IInv

-----------------------------------------------------------------------------
(* A pass begins *)

\* What every pass begins with: its minima are those that what is owed is above.
LEMMA Begins ==
  ASSUME IInv, ~InPass, NEW wanted \in BOOLEAN, NEW force \in BOOLEAN, NEW wm,
         wm = Watermarks \/ wm = Zero,
         NEW answered \in BOOLEAN, NEW due \in BOOLEAN,
         ~wanted => ~answered, faults' \in 0 .. MaxFaults,
         BeginPass(wanted, force, wm, answered, due)
  PROVE  IInv'
<1>1. TypeOK /\ Numbers /\ Phases /\ NotLost /\ SeenKept
  BY DEF IInv, Keeps
<1> DEFINE inc == wanted /\ ~force /\ ~(rangesWork /\ floor = 0)
           kept == IF force THEN None ELSE cursor
           minOf(s) == IF ~inc THEN 0 ELSE IF floor = None THEN wm[s] ELSE Lesser(floor, wm[s])
           probe == IF inc /\ floor = None /\ kept = None /\ answered THEN counters ELSE None
           sides == IF probe # None /\ seen # None /\ ~due
                    THEN {s \in Sides : probe[s] # seen[s]} ELSE Sides
<1>2. /\ pass' = [inc |-> inc, force |-> force, whole |-> FALSE,
                  ranged |-> rangesWork /\ (~inc \/ kept # None),
                  minM |-> minOf("masters"), minV |-> minOf("vouchers"),
                  probe |-> probe, sides |-> sides]
      /\ todo' = PassCollections(pass')
      /\ cursor' = kept /\ pc' = "export" /\ out' = Nothing /\ trouble' = {}
      /\ gap' = IF pass'.ranged /\ ~inc
                THEN Mark({r \in DoneRanges(kept) : Behind(r)}, "skipped") ELSE gap
      /\ UNCHANGED <<tally, counters, server, floor, seen, rangesWork>>
  BY DEF BeginPass
<1>3. \A s \in Sides : /\ minOf(s) \in 0 .. MaxAlter /\ minOf(s) <= counters[s]
                       /\ minOf(s) <= NextMin(s)
  <2> SUFFICES ASSUME NEW s \in Sides
               PROVE  /\ minOf(s) \in 0 .. MaxAlter /\ minOf(s) <= counters[s]
                      /\ minOf(s) <= NextMin(s)
    OBVIOUS
  <2>1. Watermarks[s] \in 0 .. MaxAlter /\ Watermarks[s] <= counters[s] /\ counters[s] \in Nat
    BY <1>1, WatermarkFacts, WatermarkBelow, ShapeAssumption DEF TypeOK
  <2>2. wm[s] \in 0 .. MaxAlter /\ wm[s] <= Watermarks[s]
    BY <2>1, ShapeAssumption DEF Zero
  <2>3. floor # None => floor \in 0 .. MaxAlter
    BY <1>1 DEF TypeOK
  <2>4. QED BY <2>1, <2>2, <2>3, ShapeAssumption DEF NextMin, Lesser
<1>4. probe \in [Sides -> 0 .. MaxAlter] \cup {None} /\ sides \in SUBSET Sides
  BY <1>1 DEF TypeOK
<1>5. PassCollections(pass') \subseteq Collections
  BY DEF PassCollections
<1>6. kept \in [planned : BOOLEAN, next : 1 .. Ranges + 1, force : BOOLEAN] \cup {None}
  BY <1>1 DEF TypeOK
<1>7. gap' \in [Records -> SUBSET Leaks] /\ \A r \in Records : gap'[r] = {} => gap[r] = {}
  <2>1. gap \in [Records -> SUBSET Leaks]
    BY <1>1 DEF TypeOK
  <2>2. QED BY <2>1, <1>2 DEF Mark, Leaks
<1>8. minOf("masters") \in 0 .. MaxAlter /\ minOf("vouchers") \in 0 .. MaxAlter
  BY <1>3 DEF Sides
<1>9. TypeOK'
  <2> HIDE DEF inc, kept, minOf, probe, sides
  <2>1. inc \in BOOLEAN /\ (rangesWork /\ (~inc \/ kept # None)) \in BOOLEAN
    BY <1>1 DEF TypeOK, inc
  <2>2. pass' \in [inc : BOOLEAN, force : BOOLEAN, ranged : BOOLEAN, whole : BOOLEAN,
               minM : 0 .. MaxAlter, minV : 0 .. MaxAlter,
               probe : [Sides -> 0 .. MaxAlter] \cup {None}, sides : SUBSET Sides]
    BY <1>2, <1>4, <1>8, <2>1
  <2>3. QED BY <1>1, <1>2, <1>5, <1>6, <1>7, <2>2 DEF TypeOK, Nothing
<1>10. Numbers'
  <2>1. \A s \in Sides : probe # None => probe[s] <= counters[s]
    BY <1>1, ShapeAssumption DEF TypeOK
  <2>2. minOf("masters") <= counters["masters"] /\ minOf("vouchers") <= counters["vouchers"]
    BY <1>3 DEF Sides
  <2> HIDE DEF inc, kept, minOf, probe, sides
  <2>3. pass'.minM = minOf("masters") /\ pass'.minV = minOf("vouchers") /\ pass'.probe = probe
    BY <1>2
  <2>4. QED BY <1>1, <1>2, <2>1, <2>2, <2>3 DEF Numbers, Held, Nothing, SideOf
<1>11. pass'.ranged => rangesWork /\ probe = None /\ (kept = None => ~inc)
  BY <1>2
<1>12. Phases'
  <2>1. ~rangesWork => kept = None
    BY <1>1 DEF Phases
  <2>2. /\ pass'.inc = inc /\ pass'.probe = probe /\ pass'.whole = FALSE
    BY <1>2
  <2> HIDE DEF inc, kept, minOf, probe, sides
  <2>3. QED BY <1>2, <1>11, <2>1, <2>2 DEF Phases, Nothing, Moving, InPass
<1>13. ASSUME NEW r \in Records, Loose(r)'
       PROVE  /\ Loose(r) /\ Owed(r)
              /\ High(r)' \/ OnCursor(r)'
              /\ ToCome(r)' \/ RangePending(r)'
  <2>1. Loose(r) /\ tally' = tally /\ server' = server
    BY <1>2, <1>7, <1>13 DEF Loose, Behind
  <2>2. Owed(r)
    BY <1>1, <2>1 DEF NotLost
  <2>3. tally[r] \in Nat /\ server[r] \in Nat /\ server[r] < tally[r]
    BY <1>1, <2>1, ShapeAssumption DEF TypeOK, Numbers, Loose, Behind
  <2>4. SideOf(r) \in Sides /\ Coll[r] \in Collections /\ (r \in Vouchers <=> Coll[r] = VouchersColl)
        /\ (r \in Vouchers => SideOf(r) = "vouchers") /\ (r \notin Vouchers => SideOf(r) = "masters")
    BY ShapeAssumption DEF SideOf, Sides, Vouchers
  <2>5. SideOf(r) \in sides
    <3> SUFFICES ASSUME probe # None, seen # None, probe[SideOf(r)] = seen[SideOf(r)] PROVE FALSE
      BY <2>4
    <3>1. probe = counters
      OBVIOUS
    <3>2. tally[r] > seen[SideOf(r)]
      BY <1>1, <2>1 DEF SeenKept, Phases, Moving, InPass
    <3>3. tally[r] <= counters[SideOf(r)] /\ counters[SideOf(r)] \in Nat
      BY <1>1, <2>4, ShapeAssumption DEF Numbers, TypeOK
    <3>4. QED BY <3>1, <3>2, <3>3, <2>3
  <2>6. NextMin(SideOf(r)) \in Nat
    BY <1>1, <2>4, WatermarkFacts, ShapeAssumption DEF NextMin, Lesser, TypeOK
  <2>7. tally[r] > minOf(SideOf(r)) \/ (~force /\ OnCursor(r) /\ inc)
    <3>1. CASE tally[r] > NextMin(SideOf(r))
      BY <3>1, <1>3, <2>3, <2>4, <2>6, ShapeAssumption
    <3>2. CASE OnCursor(r)
      <4>1. ~inc => minOf(SideOf(r)) = 0
        OBVIOUS
      <4>2. QED BY <3>2, <4>1, <2>3
    <3>3. QED BY <3>1, <3>2, <2>2 DEF Owed, OnCursor
  <2>8. /\ pass'.inc = inc /\ pass'.whole = FALSE /\ pass'.sides = sides
        /\ pass'.minM = minOf("masters") /\ pass'.minV = minOf("vouchers")
        /\ pass'.ranged = (rangesWork /\ (~inc \/ kept # None))
    BY <1>2
  <2>9. tally[r] > minOf(SideOf(r)) => High(r)'
    <3> HIDE DEF minOf
    <3>1. CycleMin' = IF inc THEN Lesser(minOf("masters"), minOf("vouchers")) ELSE 0
      <4> HIDE DEF inc
      <4> QED BY <2>8 DEF CycleMin
    <3>2. minOf("masters") \in Nat /\ minOf("vouchers") \in Nat
      BY <1>8, ShapeAssumption
    <3>3. QED BY <3>1, <3>2, <2>1, <2>3, <2>4 DEF High, Lesser, Sides
  <2>10. ~force /\ OnCursor(r) /\ inc => OnCursor(r)' /\ RangePending(r)'
    <3>1. cursor # None => rangesWork
      BY <1>1 DEF Phases
    <3>2. QED BY <3>1, <1>2, <2>8 DEF OnCursor, RangePending
  <2>11. tally[r] > minOf(SideOf(r)) => ToCome(r)' \/ RangePending(r)'
    <3> SUFFICES ASSUME tally[r] > minOf(SideOf(r)) PROVE ToCome(r)' \/ RangePending(r)'
      OBVIOUS
    <3>1. Coll[r] \notin Unfiltered
      BY <2>1 DEF Loose
    <3>2. CASE r \notin Vouchers
      <4>1. Coll[r] \in todo'
        BY <3>1, <3>2, <2>4, <2>5, <2>8, <1>2 DEF PassCollections
      <4>2. MinAlter(Coll[r])' = minOf("masters")
        BY <3>1, <3>2, <2>4, <2>8 DEF MinAlter
      <4>3. QED BY <4>1, <4>2, <3>2, <2>1, <2>4 DEF ToCome
    <3>3. CASE r \in Vouchers /\ (inc \/ ~pass'.ranged)
      <4>1. Coll[r] \in todo'
        BY <3>3, <2>4, <2>5, <2>8, <1>2 DEF PassCollections
      <4>2. MinAlter(Coll[r])' = minOf("vouchers")
        BY <3>1, <3>3, <2>4, <2>8 DEF MinAlter
      <4>3. QED BY <4>1, <4>2, <3>3, <2>1, <2>4 DEF ToCome
    <3>4. CASE r \in Vouchers /\ ~inc /\ pass'.ranged
      <4>1. gap' = Mark({q \in DoneRanges(kept) : Behind(q)}, "skipped")
        BY <3>4, <1>2
      <4>2. r \notin DoneRanges(kept)
        BY <4>1, <2>1, <1>13 DEF Loose, Mark
      <4>3. kept # None => RangeOf[r] >= kept.next
        BY <4>2, <3>4, <1>6, ShapeAssumption DEF DoneRanges
      <4> HIDE DEF kept
      <4>4. QED BY <4>3, <3>4, <1>2 DEF RangePending
    <3>5. QED BY <3>2, <3>3, <3>4
  <2>12. QED BY <2>1, <2>2, <2>7, <2>9, <2>10, <2>11
<1>14. Keeps'
  <2>1. Moving' /\ pc' # "settle"
    BY <1>2 DEF Moving, InPass
  <2>2. PassKeeps'
    BY <1>13 DEF PassKeeps
  <2>3. SeenKept'
    <3> SUFFICES ASSUME seen # None, NEW r \in Records, Loose(r)' PROVE tally[r] > seen[SideOf(r)]
      BY <1>2 DEF SeenKept, SideOf
    <3>1. Loose(r)
      BY <1>13
    <3>2. QED BY <3>1, <1>1 DEF SeenKept, Phases, Moving, InPass
  <2>4. QED BY <2>1, <2>2, <2>3 DEF Keeps, NotLost, SettleKeeps, ProbeKept, Moving
<1>15. QED BY <1>9, <1>10, <1>12, <1>14 DEF IInv

-----------------------------------------------------------------------------
(* Exports *)

\* The collection that comes next.
LEMMA NextOfTodo ==
  ASSUME TypeOK, todo # {}
  PROVE  NextExport \in todo
<1>1. todo \in SUBSET Nat
  BY ShapeAssumption DEF TypeOK, Collections
<1>2. QED BY <1>1, MinFacts DEF NextExport

\* Steps that export nothing, send nothing and leave the two sides alone: of what is kept
\* only the place in the pass may change.
LEMMA SameNumbers ==
  ASSUME TypeOK, Numbers, UNCHANGED <<tally, counters, server, seen, out>>,
         pass' = pass \/ pass' = [pass EXCEPT !.ranged = FALSE, !.whole = TRUE]
  PROVE  Numbers' /\ pass'.minM = pass.minM /\ pass'.minV = pass.minV /\ pass'.probe = pass.probe
                  /\ pass'.inc = pass.inc
<1>1. pass'.minM = pass.minM /\ pass'.minV = pass.minV /\ pass'.probe = pass.probe
      /\ pass'.inc = pass.inc
  BY DEF TypeOK
<1>2. QED BY <1>1 DEF Numbers, Held, SideOf

\* A collection exported: what was to come is in hand, as Tally has it.
LEMMA ExportKeeps == ASSUME IInv, Export PROVE IInv'
<1>1. TypeOK /\ Numbers /\ Phases /\ PassKeeps /\ SeenKept
  BY DEF IInv, Keeps
<1> DEFINE c == NextExport
           f == ExportOf(c)
<1>2. /\ pc = "export" /\ pc' = "export" /\ c \in todo /\ c \notin DOMAIN out /\ c \in Collections
      /\ UNCHANGED <<tally, counters, server, floor, cursor, seen, rangesWork, pass, trouble, faults>>
      /\ todo' = todo \ {c}
      /\ gap' = Clear(DOMAIN f)
      /\ out' = IF DOMAIN f = {} THEN out
                ELSE [d \in DOMAIN out \cup {c} |-> IF d = c THEN f ELSE out[d]]
  BY <1>1, NextOfTodo DEF Export, NoFault, Phases, TypeOK
<1>3. /\ DOMAIN f = {r \in Records : Coll[r] = c /\ tally[r] > MinAlter(c)}
      /\ \A r \in DOMAIN f : f[r] = tally[r]
  BY DEF ExportOf
<1> HIDE DEF c, f
<1>4. \A r \in Records : /\ Held(r)' <=> Held(r) \/ r \in DOMAIN f
                         /\ Held(r) => out'[Coll[r]][r] = out[Coll[r]][r]
                         /\ r \in DOMAIN f => ~Held(r) /\ out'[Coll[r]][r] = tally[r]
  BY <1>2, <1>3 DEF Held
<1>5. TypeOK'
  <2>1. gap' \in [Records -> SUBSET Leaks]
    BY <1>1, <1>2 DEF TypeOK, Clear
  <2>2. DOMAIN out' \subseteq Collections
        /\ \A d \in DOMAIN out' : DOMAIN out'[d] \subseteq {r \in Records : Coll[r] = d}
    BY <1>1, <1>2, <1>3 DEF TypeOK
  <2>3. QED BY <1>1, <1>2, <2>1, <2>2 DEF TypeOK
<1>6. Numbers'
  <2>1. \A r \in Records : tally[r] \in Nat
    BY <1>1, ShapeAssumption DEF TypeOK
  <2>2. \A r \in Records : Held(r)' => /\ out'[Coll[r]][r] \in Nat /\ server[r] <= out'[Coll[r]][r]
                                      /\ out'[Coll[r]][r] <= tally[r]
    BY <1>1, <1>4, <2>1 DEF Numbers
  <2>3. QED BY <1>1, <1>2, <2>2 DEF Numbers, SideOf
<1>7. Phases'
  BY <1>1, <1>2 DEF Phases, Moving, InPass
<1>8. ASSUME NEW r \in Records, Loose(r)'
      PROVE  /\ High(r)' \/ OnCursor(r)' \/ Marked(r)'
             /\ ToCome(r)' \/ InHand(r)' \/ RangePending(r)' \/ Failed'
             /\ Loose(r) \/ InHand(r)'
             /\ InHand(r) => InHand(r)'
  <2>1. (High(r)' <=> High(r)) /\ (OnCursor(r)' <=> OnCursor(r)) /\ (Marked(r)' <=> Marked(r))
        /\ (Failed' <=> Failed) /\ (RangePending(r)' <=> RangePending(r))
    BY <1>2 DEF High, OnCursor, Marked, Failed, RangePending, CycleMin, InRange
  <2>2. Coll[r] \notin Unfiltered /\ (r \in DOMAIN f \/ Loose(r))
    BY <1>2, <1>8 DEF Loose, Behind, Clear
  <2>3. r \in DOMAIN f => InHand(r)'
    BY <1>2, <1>4 DEF InHand
  <2>4. InHand(r) => InHand(r)'
    BY <1>2, <1>4 DEF InHand
  <2>5. CASE r \in DOMAIN f
    <3>1. Coll[r] = c /\ tally[r] > MinAlter(c) /\ tally[r] \in Nat
      BY <2>5, <1>1, <1>3, ShapeAssumption DEF TypeOK
    <3>2. (c = VouchersColl <=> r \in Vouchers)
      BY <3>1 DEF Vouchers
    <3>3. pass.minM \in Nat /\ pass.minV \in Nat
      BY <1>1, ShapeAssumption DEF TypeOK
    <3>4. MinAlter(c) = IF c # VouchersColl THEN pass.minM ELSE IF pass.whole THEN 0 ELSE pass.minV
      BY <2>2, <3>1 DEF MinAlter
    <3>5. High(r) \/ Marked(r)
      BY <3>1, <3>2, <3>3, <3>4 DEF High, Marked, CycleMin, Lesser
    <3>6. QED BY <3>5, <2>1, <2>2, <2>3, <2>4, <2>5
  <2>6. CASE r \notin DOMAIN f
    <3>1. Loose(r)
      BY <2>2, <2>6
    <3>2. ToCome(r) => ToCome(r)'
      BY <2>6, <1>2, <1>3 DEF ToCome, MinAlter
    <3>3. Moving
      BY <1>2 DEF Moving, InPass
    <3>4. QED BY <3>1, <3>2, <3>3, <2>1, <2>4, <1>1 DEF PassKeeps
  <2>7. QED BY <2>5, <2>6
<1>9. Keeps'
  <2>1. PassKeeps'
    BY <1>8 DEF PassKeeps
  <2>2. SeenKept'
    <3>1. Moving' /\ Moving
      BY <1>2 DEF Moving, InPass
    <3>2. QED BY <3>1, <1>1, <1>2, <1>8 DEF SeenKept, SideOf
  <2>3. QED BY <1>2, <2>1, <2>2 DEF Keeps, NotLost, SettleKeeps, ProbeKept, InPass
<1>10. QED BY <1>5, <1>6, <1>7, <1>9 DEF IInv

\* A collection not exported: what was to come is lost to a failure.
LEMMA ExportFailsKeeps == ASSUME IInv, ExportFails PROVE IInv'
<1>1. TypeOK /\ Numbers /\ Phases /\ PassKeeps
  BY DEF IInv, Keeps
<1>2. /\ pc = "export" /\ pc' = "export" /\ faults' \in 0 .. MaxFaults
      /\ UNCHANGED <<tally, counters, server, floor, cursor, seen, rangesWork, pass, out, gap>>
      /\ todo' \subseteq todo /\ trouble' = trouble \cup {"export"}
  BY <1>1, ShapeAssumption DEF ExportFails, Fault, TypeOK
<1>3. TypeOK'
  BY <1>1, <1>2 DEF TypeOK
<1>4. Numbers'
  BY <1>1, <1>2, SameNumbers
<1>5. Phases'
  BY <1>1, <1>2 DEF Phases, Moving, InPass
<1>6. Keeps'
  <2>1. \A r \in Records : Loose(r)' => Loose(r) /\ Failed' /\ (High(r)' <=> High(r))
                             /\ (OnCursor(r)' <=> OnCursor(r)) /\ (Marked(r)' <=> Marked(r))
    BY <1>2 DEF Loose, Behind, Failed, High, OnCursor, Marked, CycleMin
  <2>2. PassKeeps'
    BY <2>1, <1>1, <1>2 DEF PassKeeps, Moving, InPass
  <2>3. QED BY <2>2, <1>2 DEF Keeps, NotLost, SettleKeeps, SeenKept, ProbeKept, InPass
<1>7. QED BY <1>3, <1>4, <1>5, <1>6 DEF IInv

\* After the last collection nothing is to come.
LEMMA ExportsDoneKeeps == ASSUME IInv, ExportsDone PROVE IInv'
<1>1. TypeOK /\ Numbers /\ Phases /\ PassKeeps /\ SeenKept
  BY DEF IInv, Keeps
<1>2. /\ pc = "export" /\ pc' = "push" /\ todo = {}
      /\ UNCHANGED <<tally, counters, server, floor, cursor, seen, rangesWork, pass, todo, out,
                     trouble, gap, faults>>
  BY DEF ExportsDone, NoFault
<1>3. TypeOK'
  BY <1>1, <1>2 DEF TypeOK
<1>4. Numbers'
  BY <1>1, <1>2, SameNumbers
<1>5. Phases'
  BY <1>1, <1>2 DEF Phases, Moving, InPass
<1>6. Keeps'
  <2>1. \A r \in Records : /\ (Loose(r)' <=> Loose(r)) /\ (Failed' <=> Failed) /\ (High(r)' <=> High(r))
                           /\ (OnCursor(r)' <=> OnCursor(r)) /\ (Marked(r)' <=> Marked(r))
                           /\ (InHand(r)' <=> InHand(r)) /\ (RangePending(r)' <=> RangePending(r))
                           /\ ~ToCome(r)
    BY <1>2 DEF Loose, Behind, Failed, High, OnCursor, Marked, CycleMin, InHand, Held, RangePending, ToCome
  <2>2. Moving /\ Moving'
    BY <1>2 DEF Moving, InPass
  <2>3. PassKeeps'
    BY <2>1, <2>2, <1>1 DEF PassKeeps
  <2>4. SeenKept'
    BY <2>1, <2>2, <1>1, <1>2 DEF SeenKept, SideOf
  <2>5. QED BY <2>3, <2>4, <1>2 DEF Keeps, NotLost, SettleKeeps, ProbeKept, InPass
<1>7. QED BY <1>3, <1>4, <1>5, <1>6 DEF IInv

-----------------------------------------------------------------------------
(* Uploads *)

\* What the portal keeps of an upload is between what it had and what Tally has; what is
\* kept of a record that was exported as it is brings the record up to date.
LEMMA Imports ==
  ASSUME TypeOK, Numbers, UNCHANGED tally,
         NEW c \in DOMAIN out, NEW taken \in SUBSET DOMAIN out[c], NEW force \in BOOLEAN,
         Import(out[c], taken, force)
  PROVE  /\ server' \in [Records -> 0 .. MaxAlter]
         /\ \A r \in Records : server'[r] <= tally[r]
         /\ \A r \in Records : Held(r) /\ Coll[r] # c => server'[r] = server[r]
         /\ \A r \in Records : Behind(r)' => Behind(r)
         /\ \A r \in taken : InHand(r) => ~Behind(r)'
<1>1. server' = [r \in Records |-> IF r \in taken /\ (force \/ out[c][r] > server[r])
                                   THEN out[c][r] ELSE server[r]]
  BY DEF Import
<1>2. \A r \in taken : r \in Records /\ Coll[r] = c /\ Held(r)
  BY DEF TypeOK, Held
<1>3. \A r \in taken : /\ out[c][r] \in 0 .. MaxAlter
                       /\ server[r] <= out[c][r] /\ out[c][r] <= tally[r]
  <2>1. \A r \in Records : tally[r] \in 0 .. MaxAlter
    BY DEF TypeOK
  <2>2. \A r \in taken : out[c][r] \in Nat /\ server[r] <= out[c][r] /\ out[c][r] <= tally[r]
    BY <1>2 DEF Numbers
  <2>3. QED BY <1>2, <2>1, <2>2, ShapeAssumption
<1>4. server \in [Records -> 0 .. MaxAlter] /\ tally \in [Records -> 0 .. MaxAlter]
      /\ \A r \in Records : server[r] <= tally[r]
  BY DEF TypeOK, Numbers
<1>5. server' \in [Records -> 0 .. MaxAlter] /\ \A r \in Records : server'[r] <= tally[r]
  BY <1>1, <1>3, <1>4
<1>6. \A r \in Records : Held(r) /\ Coll[r] # c => server'[r] = server[r]
  BY <1>1, <1>2
<1>7. \A r \in Records : Behind(r)' => Behind(r)
  BY <1>1, <1>3, <1>4, ShapeAssumption DEF Behind
<1>8. \A r \in taken : InHand(r) => ~Behind(r)'
  <2> SUFFICES ASSUME NEW r \in taken, InHand(r) PROVE ~Behind(r)'
    OBVIOUS
  <2>1. out[c][r] = tally[r] /\ r \in Records
    BY <1>2 DEF InHand
  <2>2. server'[r] = IF force \/ out[c][r] > server[r] THEN out[c][r] ELSE server[r]
    BY <1>1, <2>1
  <2>3. QED BY <2>1, <2>2, <1>3, <1>4, ShapeAssumption DEF Behind
<1>9. QED BY <1>5, <1>6, <1>7, <1>8

\* A record in hand that the portal does not have after an upload was not taken, and marked.
LEMMA Rejects ==
  ASSUME TypeOK, Numbers, NEW c \in DOMAIN out, NEW taken \in SUBSET DOMAIN out[c],
         gap' = Mark(Rejected(out[c], taken), "rejected")
  PROVE  /\ gap' \in [Records -> SUBSET Leaks]
         /\ \A r \in Records : gap'[r] = {} => gap[r] = {}
         /\ \A r \in DOMAIN out[c] \ taken : Behind(r) /\ InHand(r) => gap'[r] # {}
<1>1. gap \in [Records -> SUBSET Leaks]
  BY DEF TypeOK
<1>2. /\ gap' \in [Records -> SUBSET Leaks]
      /\ \A r \in Records : gap'[r] = {} => gap[r] = {}
      /\ \A r \in Records : r \in Rejected(out[c], taken) => gap'[r] # {}
  BY <1>1 DEF Mark, Leaks
<1>3. \A r \in DOMAIN out[c] : r \in Records /\ Coll[r] = c
  BY DEF TypeOK
<1>4. ASSUME NEW r \in DOMAIN out[c] \ taken, Behind(r), InHand(r) PROVE gap'[r] # {}
  <2>1. r \in Records /\ Coll[r] = c /\ out[c][r] = tally[r] /\ server[r] # tally[r]
    BY <1>3, <1>4 DEF InHand, Behind
  <2>2. server[r] \in Nat /\ tally[r] \in Nat /\ server[r] <= tally[r]
    BY <2>1, ShapeAssumption DEF TypeOK, Numbers
  <2>3. r \in Rejected(out[c], taken)
    BY <2>1, <2>2 DEF Rejected
  <2>4. QED BY <2>1, <2>3, <1>2
<1>5. QED BY <1>2, <1>4

\* The collection that is uploaded next.
LEMMA NextOfOut ==
  ASSUME TypeOK, DOMAIN out # {}
  PROVE  NextPush \in DOMAIN out
<1>1. DOMAIN out \in SUBSET Nat
  BY ShapeAssumption DEF TypeOK, Collections
<1>2. QED BY <1>1, MinFacts DEF NextPush

\* An upload of the next collection, of which the portal keeps what it keeps.
LEMMA Pushes ==
  ASSUME IInv, pc = "push", pc' = pc, DOMAIN out # {},
         NEW taken \in SUBSET DOMAIN out[NextPush],
         Import(out[NextPush], taken, pass.force),
         out' = Without(NextPush),
         UNCHANGED <<tally, counters, floor, cursor, seen, rangesWork, pass, todo>>,
         \/ taken = DOMAIN out[NextPush] /\ trouble' = trouble /\ gap' = gap
         \/ trouble' = trouble \cup {"push"} /\ gap' = gap
         \/ trouble' = trouble /\ gap' = Mark(Rejected(out[NextPush], taken), "rejected"),
         faults' \in 0 .. MaxFaults
  PROVE  IInv'
<1>1. TypeOK /\ Numbers /\ Phases /\ PassKeeps /\ SeenKept
  BY DEF IInv, Keeps
<1> DEFINE c == NextPush
<1>2. c \in DOMAIN out /\ out' = [d \in DOMAIN out \ {c} |-> out[d]]
  BY <1>1, NextOfOut DEF Without
<1>3. pass.force \in BOOLEAN
  BY <1>1 DEF TypeOK
<1>4. /\ server' \in [Records -> 0 .. MaxAlter]
      /\ \A r \in Records : server'[r] <= tally[r]
      /\ \A r \in Records : Held(r) /\ Coll[r] # c => server'[r] = server[r]
      /\ \A r \in Records : Behind(r)' => Behind(r)
      /\ \A r \in taken : InHand(r) => ~Behind(r)'
  BY <1>1, <1>2, <1>3, Imports
<1>12. /\ gap' \in [Records -> SUBSET Leaks]
       /\ \A r \in Records : gap'[r] = {} => gap[r] = {}
       /\ \/ "push" \in trouble'
          \/ \A r \in DOMAIN out[c] \ taken : Behind(r) /\ InHand(r) => gap'[r] # {}
  <2>1. CASE taken = DOMAIN out[c] /\ gap' = gap
    BY <2>1, <1>1 DEF TypeOK
  <2>2. CASE trouble' = trouble \cup {"push"} /\ gap' = gap
    BY <2>2, <1>1 DEF TypeOK
  <2>3. CASE trouble' = trouble /\ gap' = Mark(Rejected(out[c], taken), "rejected")
    BY <2>3, <1>1, <1>2, Rejects
  <2>4. QED BY <2>1, <2>2, <2>3
<1> HIDE DEF c
<1>5. \A r \in Records : /\ Held(r)' <=> Held(r) /\ Coll[r] # c
                         /\ Held(r)' => out'[Coll[r]][r] = out[Coll[r]][r]
  BY <1>2 DEF Held
<1>6. TypeOK'
  <2>1. DOMAIN out \subseteq Collections
        /\ \A d \in DOMAIN out : DOMAIN out[d] \subseteq {r \in Records : Coll[r] = d}
    BY <1>1 DEF TypeOK
  <2>2. DOMAIN out' \subseteq Collections
        /\ \A d \in DOMAIN out' : DOMAIN out'[d] \subseteq {r \in Records : Coll[r] = d}
    BY <2>1, <1>2
  <2>3. /\ tally' = tally /\ counters' = counters /\ floor' = floor /\ cursor' = cursor
        /\ seen' = seen /\ rangesWork' = rangesWork /\ pc' = pc /\ pass' = pass
        /\ todo' = todo /\ trouble' \subseteq trouble \cup {"push"}
    OBVIOUS
  <2>4. /\ server' \in [Records -> 0 .. MaxAlter] /\ faults' \in 0 .. MaxFaults
        /\ gap' \in [Records -> SUBSET Leaks]
    BY <1>4, <1>12
  <2>5. QED BY <1>1, <2>2, <2>3, <2>4 DEF TypeOK
<1>7. Numbers'
  <2>1. \A r \in Records : Held(r)' => /\ out'[Coll[r]][r] \in Nat /\ server'[r] <= out'[Coll[r]][r]
                                      /\ out'[Coll[r]][r] <= tally[r]
    BY <1>1, <1>4, <1>5 DEF Numbers
  <2>2. QED BY <1>1, <1>4, <2>1 DEF Numbers, SideOf
<1>8. Phases'
  BY <1>1, <1>2 DEF Phases, Moving, InPass
<1>9. ASSUME NEW r \in Records, Loose(r)'
      PROVE  /\ High(r)' \/ OnCursor(r)' \/ Marked(r)'
             /\ ToCome(r)' \/ InHand(r)' \/ RangePending(r)' \/ Failed'
             /\ Loose(r) /\ (InHand(r) => InHand(r)' \/ trouble' # {})
  <2>1. Loose(r)
    BY <1>4, <1>9, <1>12 DEF Loose
  <2>2. (High(r)' <=> High(r)) /\ (OnCursor(r)' <=> OnCursor(r)) /\ (Marked(r)' <=> Marked(r))
        /\ (Failed => Failed') /\ (RangePending(r)' <=> RangePending(r)) /\ (ToCome(r)' <=> ToCome(r))
    BY DEF High, OnCursor, Marked, Failed, RangePending, CycleMin, InRange, ToCome, MinAlter
  <2>3. InHand(r) => InHand(r)' \/ Failed'
    <3>1. CASE Coll[r] # c
      BY <3>1, <1>5 DEF InHand
    <3>2. CASE Coll[r] = c /\ InHand(r)
      <4>1. r \in DOMAIN out[c]
        BY <3>2 DEF InHand, Held
      <4>2. r \notin taken
        BY <1>4, <1>9, <3>2 DEF Loose
      <4>3. "push" \in trouble'
        BY <4>1, <4>2, <3>2, <2>1, <1>9, <1>12 DEF Loose
      <4>4. QED BY <4>3 DEF Failed
    <3>3. QED BY <3>1, <3>2
  <2>4. Moving
    BY DEF Moving, InPass
  <2>5. Failed' => trouble' # {}
    BY DEF Failed
  <2>6. QED BY <2>1, <2>2, <2>3, <2>4, <2>5, <1>1 DEF PassKeeps
<1>10. Keeps'
  <2>1. PassKeeps'
    BY <1>9 DEF PassKeeps
  <2>2. SeenKept'
    <3>1. Moving' /\ Moving /\ (trouble # {} => trouble' # {})
      BY DEF Moving, InPass
    <3>2. QED BY <3>1, <1>1, <1>9 DEF SeenKept, SideOf
  <2>3. QED BY <2>1, <2>2 DEF Keeps, NotLost, SettleKeeps, ProbeKept, InPass
<1>11. QED BY <1>6, <1>7, <1>8, <1>10 DEF IInv

\* A collection uploaded: the portal has what was in hand.
LEMMA PushKeeps == ASSUME IInv, Push PROVE IInv'
<1>1. faults' \in 0 .. MaxFaults
  BY ShapeAssumption DEF Push, Arrives, NoFault, Fault, IInv, TypeOK
<1>2. PICK taken \in SUBSET DOMAIN out[NextPush] :
        /\ Import(out[NextPush], taken, pass.force)
        /\ \/ taken = DOMAIN out[NextPush] /\ gap' = gap
           \/ gap' = Mark(Rejected(out[NextPush], taken), "rejected")
  BY DEF Push, Arrives
<1>3. QED BY <1>1, <1>2, Pushes DEF Push

\* An upload that failed, or whose answer was lost: what is still in doubt is above the retry point.
LEMMA PushFailsKeeps == ASSUME IInv, PushFails PROVE IInv'
<1>1. faults' \in 0 .. MaxFaults
  BY ShapeAssumption DEF PushFails, Fault, IInv, TypeOK
<1>2. QED BY <1>1, Pushes DEF PushFails

\* From a step that leaves nothing in hand in doubt: it has failed, and the pass ends.
LEMMA PushRefusedKeeps == ASSUME IInv, PushRefused PROVE IInv'
<1>1. TypeOK /\ Numbers /\ Phases /\ PassKeeps
  BY DEF IInv, Keeps
<1>2. /\ pc = "push" /\ pc' = "push" /\ faults' \in 0 .. MaxFaults
      /\ UNCHANGED <<tally, counters, server, floor, cursor, seen, rangesWork, pass, todo, gap>>
      /\ DOMAIN out' = {} /\ trouble' = trouble \cup {"push"}
  BY <1>1, ShapeAssumption DEF PushRefused, Fault, TypeOK, Nothing
<1>3. TypeOK'
  BY <1>1, <1>2 DEF TypeOK
<1>4. Numbers'
  BY <1>1, <1>2 DEF Numbers, Held, SideOf
<1>5. Phases'
  BY <1>1, <1>2 DEF Phases, Moving, InPass
<1>6. Keeps'
  <2>1. \A r \in Records : Loose(r)' => Loose(r) /\ Failed' /\ (High(r)' <=> High(r))
                             /\ (OnCursor(r)' <=> OnCursor(r)) /\ (Marked(r)' <=> Marked(r))
    BY <1>2 DEF Loose, Behind, Failed, High, OnCursor, Marked, CycleMin
  <2>2. PassKeeps'
    BY <2>1, <1>1, <1>2 DEF PassKeeps, Moving, InPass
  <2>3. QED BY <2>2, <1>2 DEF Keeps, NotLost, SettleKeeps, SeenKept, ProbeKept, InPass
<1>7. QED BY <1>3, <1>4, <1>5, <1>6 DEF IInv

\* After the last upload: on to the date ranges, or to the end of the pass.
LEMMA PushesDoneKeeps == ASSUME IInv, PushesDone PROVE IInv'
<1>1. TypeOK /\ Numbers /\ Phases /\ PassKeeps /\ SeenKept
  BY DEF IInv, Keeps
<1>2. /\ pc = "push" /\ pc' = (IF pass.ranged /\ trouble = {} THEN "plan" ELSE "settle")
      /\ DOMAIN out = {} /\ todo = {} /\ "range" \notin trouble
      /\ UNCHANGED <<tally, counters, server, floor, cursor, seen, rangesWork, pass, todo, out,
                     trouble, gap, faults>>
  BY <1>1 DEF PushesDone, NoFault, Phases
<1>3. TypeOK'
  BY <1>1, <1>2 DEF TypeOK
<1>4. Numbers'
  BY <1>1, <1>2, SameNumbers
<1>5. Phases'
  BY <1>1, <1>2 DEF Phases, Moving, InPass
<1>6. Failed <=> trouble # {}
  <2>1. \A x \in trouble : x \in {"export", "push"}
    BY <1>1, <1>2 DEF TypeOK
  <2>2. QED BY <2>1 DEF Failed
<1>7. \A r \in Records : /\ (Loose(r)' <=> Loose(r)) /\ (Failed' <=> Failed) /\ (High(r)' <=> High(r))
                         /\ (OnCursor(r)' <=> OnCursor(r)) /\ (Marked(r)' <=> Marked(r))
                         /\ ~InHand(r) /\ ~ToCome(r)
                         /\ (RangePending(r) => pass.ranged)
                         /\ (pc' = "plan" => (RangePending(r)' <=> RangePending(r)))
  BY <1>2 DEF Loose, Behind, Failed, High, OnCursor, Marked, CycleMin, InHand, Held, RangePending, ToCome
<1>8. \A r \in Records : Loose(r) => /\ High(r) \/ OnCursor(r) \/ Marked(r)
                                     /\ RangePending(r) \/ Failed
  BY <1>1, <1>2, <1>7 DEF PassKeeps, Moving, InPass
<1>9. PassKeeps'
  BY <1>2, <1>6, <1>7, <1>8 DEF PassKeeps, Moving
<1>10. SettleKeeps'
  BY <1>2, <1>6, <1>7, <1>8 DEF SettleKeeps
<1>11. SeenKept'
  BY <1>1, <1>2, <1>7 DEF SeenKept, SideOf
<1>12. ProbeKept'
  BY <1>2, <1>6, <1>7, <1>8 DEF ProbeKept
<1>13. NotLost'
  BY <1>2 DEF NotLost, InPass
<1>14. QED BY <1>3, <1>4, <1>5, <1>9, <1>10, <1>11, <1>12, <1>13 DEF IInv, Keeps
-----------------------------------------------------------------------------
(* The date ranges of a full sync *)

\* Before a plan is made and between two ranges, what has not arrived is in a range to come.
LEMMA Planning ==
  ASSUME IInv, pc \in {"plan", "range"}
  PROVE  /\ TypeOK /\ Numbers /\ Phases
         /\ todo = {} /\ DOMAIN out = {} /\ trouble = {} /\ Moving
         /\ pass.ranged /\ ~pass.whole /\ pass.probe = None /\ rangesWork
         /\ \A r \in Records : Loose(r) =>
              /\ r \in Vouchers /\ RangePending(r) /\ (High(r) \/ OnCursor(r))
              /\ seen # None => tally[r] > seen[SideOf(r)]
<1>1. TypeOK /\ Numbers /\ Phases /\ PassKeeps /\ SeenKept
  BY DEF IInv, Keeps
<1>2. Moving
  BY DEF Moving, InPass
<1>3. todo = {} /\ DOMAIN out = {} /\ trouble = {} /\ pass.ranged /\ rangesWork
  BY <1>1, <1>2 DEF Phases
<1>4. ~pass.whole /\ pass.probe = None
  BY <1>1, <1>3 DEF Phases
<1>5. \A r \in Records : ~ToCome(r) /\ ~InHand(r) /\ ~Failed /\ ~Marked(r)
  BY <1>3, <1>4 DEF ToCome, InHand, Held, Failed, Marked
<1>6. \A r \in Records : Loose(r) => RangePending(r) /\ (High(r) \/ OnCursor(r))
  BY <1>1, <1>2, <1>5 DEF PassKeeps
<1>7. \A r \in Records : Loose(r) => (seen # None => tally[r] > seen[SideOf(r)])
  BY <1>1, <1>3, <1>5 DEF SeenKept
<1>8. \A r \in Records : RangePending(r) => r \in Vouchers
  BY DEF RangePending
<1>9. QED BY <1>1, <1>2, <1>3, <1>4, <1>6, <1>7, <1>8

\* A step of the planning that goes on with the ranges and leaves every range to come on
\* the cursor.
LEMMA Replans ==
  ASSUME IInv, pc \in {"plan", "range"}, pc' \in {"plan", "range"},
         UNCHANGED <<tally, counters, server, floor, seen, rangesWork, pass, todo, out, trouble, gap>>,
         faults' \in 0 .. MaxFaults,
         cursor' \in [planned : BOOLEAN, next : 1 .. Ranges + 1, force : BOOLEAN],
         pc' = "range" => cursor'.planned,
         \A r \in Vouchers : RangePending(r) => OnCursor(r)'
  PROVE  IInv'
<1>1. /\ TypeOK /\ Numbers /\ Phases
      /\ todo = {} /\ DOMAIN out = {} /\ trouble = {} /\ Moving
      /\ pass.ranged /\ ~pass.whole /\ pass.probe = None /\ rangesWork
      /\ \A r \in Records : Loose(r) =>
           /\ r \in Vouchers /\ RangePending(r) /\ (High(r) \/ OnCursor(r))
           /\ seen # None => tally[r] > seen[SideOf(r)]
  BY Planning
<1>2. cursor' # None
  BY ShapeAssumption
<1>3. TypeOK'
  BY <1>1 DEF TypeOK
<1>4. Numbers'
  BY <1>1, SameNumbers
<1>5. Phases'
  BY <1>1, <1>2 DEF Phases, Moving, InPass
<1>6. \A r \in Records : Loose(r)' => Loose(r) /\ OnCursor(r)'
  BY <1>1 DEF Loose, Behind
<1>7. \A r \in Records : OnCursor(r)' => RangePending(r)'
  BY <1>1 DEF OnCursor, RangePending
<1>8. PassKeeps'
  BY <1>6, <1>7 DEF PassKeeps
<1>9. SeenKept'
  BY <1>1, <1>6 DEF SeenKept, SideOf
<1>10. NotLost' /\ SettleKeeps' /\ ProbeKept'
  BY DEF NotLost, SettleKeeps, ProbeKept, InPass
<1>11. QED BY <1>3, <1>4, <1>5, <1>8, <1>9, <1>10 DEF IInv, Keeps

\* The pass gives up on the ranges; the cursor stays where it is.
LEMMA GivesUp ==
  ASSUME IInv, pc \in {"plan", "range"}, cursor # None, pc' = "settle",
         trouble' = trouble \cup {"range"}, Fault,
         UNCHANGED <<tally, counters, server, floor, cursor, seen, rangesWork, pass, todo, out, gap>>
  PROVE  IInv'
<1>1. /\ TypeOK /\ Numbers /\ Phases
      /\ todo = {} /\ DOMAIN out = {} /\ trouble = {} /\ Moving
      /\ pass.ranged /\ ~pass.whole /\ pass.probe = None /\ rangesWork
      /\ \A r \in Records : Loose(r) =>
           /\ r \in Vouchers /\ RangePending(r) /\ (High(r) \/ OnCursor(r))
           /\ seen # None => tally[r] > seen[SideOf(r)]
  BY Planning
<1>2. TypeOK'
  BY <1>1, ShapeAssumption DEF TypeOK, Fault
<1>3. Numbers'
  BY <1>1, SameNumbers
<1>4. Phases'
  BY <1>1 DEF Phases, Moving, InPass
<1>5. \A r \in Records : Loose(r)' => OnCursor(r)'
  <2>1. \A r \in Records : Loose(r)' => Loose(r)
    BY DEF Loose, Behind
  <2>2. \A r \in Records : RangePending(r) => OnCursor(r)'
    BY DEF RangePending, OnCursor
  <2>3. QED BY <2>1, <2>2, <1>1
<1>6. SettleKeeps'
  BY <1>5 DEF SettleKeeps
<1>7. SeenKept' /\ ProbeKept' /\ NotLost' /\ PassKeeps'
  BY DEF SeenKept, ProbeKept, NotLost, PassKeeps, Moving, InPass
<1>8. QED BY <1>2, <1>3, <1>4, <1>6, <1>7 DEF IInv, Keeps

\* The cursor goes, and every voucher is exported at once.
LEMMA OneGo ==
  ASSUME IInv, pc \in {"plan", "range"}, InOneGo, rangesWork' \in BOOLEAN, faults' \in 0 .. MaxFaults,
         UNCHANGED <<tally, counters, server, floor, seen, out, trouble, gap>>
  PROVE  IInv'
<1>1. /\ TypeOK /\ Numbers /\ Phases
      /\ todo = {} /\ DOMAIN out = {} /\ trouble = {} /\ Moving
      /\ pass.ranged /\ ~pass.whole /\ pass.probe = None /\ rangesWork
      /\ \A r \in Records : Loose(r) =>
           /\ r \in Vouchers /\ RangePending(r) /\ (High(r) \/ OnCursor(r))
           /\ seen # None => tally[r] > seen[SideOf(r)]
  BY Planning
<1>2. /\ cursor' = None /\ pc' = "export" /\ todo' = {VouchersColl}
      /\ pass' = [pass EXCEPT !.ranged = FALSE, !.whole = TRUE]
  BY DEF InOneGo
<1>3. Numbers' /\ pass'.minM = pass.minM /\ pass'.minV = pass.minV /\ pass'.probe = pass.probe
              /\ pass'.inc = pass.inc
  BY <1>1, <1>2, SameNumbers
<1>4. ~pass'.ranged /\ pass'.whole
  BY <1>1, <1>2 DEF TypeOK
<1>5. TypeOK'
  <2>1. VouchersColl \in Collections
    BY ShapeAssumption DEF VouchersColl, Collections
  <2>2. pass' \in [inc : BOOLEAN, force : BOOLEAN, ranged : BOOLEAN, whole : BOOLEAN,
               minM : 0 .. MaxAlter, minV : 0 .. MaxAlter,
               probe : [Sides -> 0 .. MaxAlter] \cup {None}, sides : SUBSET Sides]
    BY <1>1, <1>2 DEF TypeOK
  <2>3. QED BY <1>1, <1>2, <2>1, <2>2 DEF TypeOK
<1>6. Phases'
  BY <1>1, <1>2, <1>3, <1>4 DEF Phases, Moving, InPass
<1>7. ASSUME NEW r \in Records, Loose(r)'
      PROVE  Loose(r) /\ ToCome(r)' /\ (High(r)' \/ Marked(r)')
  <2>1. Loose(r) /\ r \in Vouchers
    BY <1>1, <1>7 DEF Loose, Behind
  <2>2. tally[r] > 0
    BY <2>1, <1>1, ShapeAssumption DEF Loose, Behind, Numbers, TypeOK
  <2>3. Coll[r] = VouchersColl /\ Coll[r] \notin Unfiltered
    BY <2>1 DEF Loose, Vouchers
  <2>4. MinAlter(Coll[r])' = 0
    BY <2>3, <1>4 DEF MinAlter
  <2>5. pass.inc => Marked(r)'
    BY <2>1, <1>3, <1>4 DEF Marked
  <2>6. ~pass.inc => High(r)'
    BY <2>2, <1>3 DEF High, CycleMin
  <2>7. QED BY <2>1, <2>2, <2>3, <2>4, <2>5, <2>6, <1>2 DEF ToCome
<1>8. PassKeeps'
  BY <1>7 DEF PassKeeps
<1>9. SeenKept'
  BY <1>1, <1>7 DEF SeenKept, SideOf
<1>10. NotLost' /\ SettleKeeps' /\ ProbeKept'
  BY <1>2 DEF NotLost, SettleKeeps, ProbeKept, InPass
<1>11. QED BY <1>3, <1>5, <1>6, <1>8, <1>9, <1>10 DEF IInv, Keeps

\* The full sync is written down as owed: the cursor stands for every voucher.
LEMMA OwePlanKeeps == ASSUME IInv, OwePlan PROVE IInv'
<1>1. TypeOK
  BY DEF IInv
<1>2. pass.force \in BOOLEAN /\ 1 \in 1 .. Ranges + 1
  BY <1>1, ShapeAssumption DEF TypeOK
<1>3. /\ cursor' \in [planned : BOOLEAN, next : 1 .. Ranges + 1, force : BOOLEAN]
      /\ ~cursor'.planned /\ pc = "plan" /\ pc' = "plan" /\ faults' \in 0 .. MaxFaults
  BY <1>1, <1>2 DEF OwePlan, NoFault, TypeOK
<1>4. cursor' # None
  BY <1>3, ShapeAssumption
<1>5. \A r \in Vouchers : OnCursor(r)'
  BY <1>3, <1>4 DEF OnCursor
<1>6. QED BY <1>3, <1>5, Replans DEF OwePlan

\* The ranges left of an earlier plan.
LEMMA CarryOnKeeps == ASSUME IInv, CarryOn PROVE IInv'
<1>1. TypeOK
  BY DEF IInv
<1>2. /\ cursor' \in [planned : BOOLEAN, next : 1 .. Ranges + 1, force : BOOLEAN]
      /\ cursor'.planned /\ pc = "plan" /\ pc' = "range" /\ faults' \in 0 .. MaxFaults
      /\ cursor' = cursor /\ cursor # None
  BY <1>1 DEF CarryOn, NoFault, TypeOK
<1>3. \A r \in Vouchers : RangePending(r) => OnCursor(r)'
  BY <1>2 DEF OnCursor, RangePending
<1>4. QED BY <1>2, <1>3, Replans DEF CarryOn

\* A new plan begins at the first range, and so comes to every voucher.
LEMMA PlanRangesKeeps == ASSUME IInv, PlanRanges PROVE IInv'
<1>1. TypeOK
  BY DEF IInv
<1>2. cursor # None /\ cursor.force \in BOOLEAN /\ 1 \in 1 .. Ranges + 1 /\ faults' \in 0 .. MaxFaults
  BY <1>1, ShapeAssumption DEF PlanRanges, Replanned, Fault, NoFault, TypeOK
<1>3. /\ cursor' \in [planned : BOOLEAN, next : 1 .. Ranges + 1, force : BOOLEAN]
      /\ cursor'.planned /\ pc = "plan" /\ pc' = "range" /\ cursor'.next = 1
  BY <1>1, <1>2 DEF PlanRanges
<1>4. cursor' # None
  BY <1>3, ShapeAssumption
<1>5. \A r \in Vouchers : RangeOf[r] >= 1
  BY ShapeAssumption DEF Vouchers
<1>6. \A r \in Vouchers : OnCursor(r)'
  BY <1>3, <1>4, <1>5 DEF OnCursor
<1>7. QED BY <1>2, <1>3, <1>6, Replans DEF PlanRanges

\* Tally did not list its vouchers.
LEMMA PlanUnansweredKeeps == ASSUME IInv, PlanUnanswered PROVE IInv'
BY GivesUp DEF PlanUnanswered

\* Too few vouchers for ranges.
LEMMA FewVouchersKeeps == ASSUME IInv, FewVouchers PROVE IInv'
<1>1. rangesWork' \in BOOLEAN /\ faults' \in 0 .. MaxFaults
  BY ShapeAssumption DEF FewVouchers, Replanned, Fault, NoFault, IInv, TypeOK
<1>2. QED BY <1>1, OneGo DEF FewVouchers

\* A Tally that does not honour date ranges.
LEMMA RangesUnsupportedKeeps == ASSUME IInv, RangesUnsupported PROVE IInv'
<1>1. pc = "range" /\ InOneGo /\ rangesWork' = FALSE /\ Fault
  BY DEF RangesUnsupported
<1>2. faults' \in 0 .. MaxFaults
  BY <1>1, ShapeAssumption DEF Fault, IInv, TypeOK
<1>3. QED BY <1>1, <1>2, OneGo DEF RangesUnsupported

\* The export of a range fails.
LEMMA ExportRangeFailsKeeps == ASSUME IInv, ExportRangeFails PROVE IInv'
<1>1. cursor # None
  BY DEF IInv, Phases, ExportRangeFails
<1>2. QED BY <1>1, GivesUp DEF ExportRangeFails

\* A range exported: its vouchers are in hand, those of later ranges still pending.
LEMMA ExportRangeKeeps == ASSUME IInv, ExportRange PROVE IInv'
<1>1. /\ TypeOK /\ Numbers /\ Phases
      /\ todo = {} /\ DOMAIN out = {} /\ trouble = {} /\ Moving
      /\ pass.ranged /\ ~pass.whole /\ pass.probe = None /\ rangesWork
      /\ \A r \in Records : Loose(r) =>
           /\ r \in Vouchers /\ RangePending(r) /\ (High(r) \/ OnCursor(r))
           /\ seen # None => tally[r] > seen[SideOf(r)]
  BY Planning DEF ExportRange
<1>2. /\ pc = "range" /\ pc' = "rangePush" /\ MoreRanges
      /\ out' = [c \in {VouchersColl} |-> [r \in InRange |-> tally[r]]]
      /\ gap' = Clear(InRange)
      /\ UNCHANGED <<tally, counters, server, floor, cursor, seen, rangesWork, pass, todo, trouble, faults>>
  BY DEF ExportRange, NoFault
<1>3. cursor # None /\ cursor.planned /\ cursor.next \in 1 .. Ranges + 1
  BY <1>1, <1>2 DEF Phases, TypeOK
<1>4. \A r \in InRange : r \in Vouchers /\ r \in Records /\ Coll[r] = VouchersColl
                         /\ RangeOf[r] = cursor.next
  BY DEF InRange, Vouchers
<1>5. \A r \in Records : /\ Held(r)' <=> r \in InRange
                         /\ r \in InRange => out'[Coll[r]][r] = tally[r]
  BY <1>2, <1>4 DEF Held
<1>6. TypeOK'
  <2>1. gap' \in [Records -> SUBSET Leaks]
    BY <1>1, <1>2 DEF TypeOK, Clear
  <2>2. VouchersColl \in Collections
    BY ShapeAssumption DEF VouchersColl, Collections
  <2>3. DOMAIN out' \subseteq Collections
        /\ \A d \in DOMAIN out' : DOMAIN out'[d] \subseteq {r \in Records : Coll[r] = d}
    BY <1>2, <1>4, <2>2
  <2>4. QED BY <1>1, <1>2, <2>1, <2>3 DEF TypeOK
<1>7. Numbers'
  <2>1. \A r \in Records : tally[r] \in Nat
    BY <1>1, ShapeAssumption DEF TypeOK
  <2>2. \A r \in Records : Held(r)' => /\ out'[Coll[r]][r] \in Nat /\ server[r] <= out'[Coll[r]][r]
                                      /\ out'[Coll[r]][r] <= tally[r]
    BY <1>1, <1>5, <2>1 DEF Numbers
  <2>3. QED BY <1>1, <1>2, <2>2 DEF Numbers, SideOf
<1>8. Phases'
  <2>1. InRange' = InRange /\ MoreRanges'
    BY <1>2 DEF InRange, MoreRanges
  <2>2. DOMAIN out' = {VouchersColl} /\ DOMAIN out'[VouchersColl] = InRange
    BY <1>2
  <2>3. QED BY <1>1, <1>2, <1>3, <2>1, <2>2 DEF Phases, Moving, InPass
<1>9. ASSUME NEW r \in Records, Loose(r)'
      PROVE  /\ OnCursor(r)'
             /\ InHand(r)' \/ (RangePending(r)' /\ Loose(r))
  <2>1. CASE r \in InRange
    BY <2>1, <1>2, <1>3, <1>4, <1>5 DEF OnCursor, InHand
  <2>2. CASE r \notin InRange
    <3>1. Loose(r)
      BY <2>2, <1>2, <1>9 DEF Loose, Behind, Clear
    <3>2. RangeOf[r] >= cursor.next /\ r \in Vouchers
      BY <3>1, <1>1, <1>2, <1>3 DEF RangePending
    <3>3. RangeOf[r] # cursor.next /\ RangeOf[r] \in Nat /\ cursor.next \in Nat
      BY <2>2, <3>2, <1>3, ShapeAssumption DEF InRange
    <3>4. QED BY <3>1, <3>2, <3>3, <1>1, <1>2, <1>3 DEF RangePending, OnCursor
  <2>3. QED BY <2>1, <2>2
<1>10. PassKeeps'
  BY <1>9 DEF PassKeeps
<1>11. SeenKept'
  <2>1. Moving'
    BY <1>2 DEF Moving, InPass
  <2>2. QED BY <2>1, <1>1, <1>2, <1>9 DEF SeenKept, SideOf
<1>12. NotLost' /\ SettleKeeps' /\ ProbeKept'
  BY <1>2 DEF NotLost, SettleKeeps, ProbeKept, InPass
<1>13. QED BY <1>6, <1>7, <1>8, <1>10, <1>11, <1>12 DEF IInv, Keeps

\* The upload of a range, of which the portal keeps what it keeps.
LEMMA RangePushes ==
  ASSUME IInv, pc = "rangePush",
         NEW taken \in SUBSET DOMAIN out[VouchersColl],
         Import(out[VouchersColl], taken, cursor.force),
         out' = Nothing, faults' \in 0 .. MaxFaults,
         UNCHANGED <<tally, counters, floor, seen, rangesWork, pass, todo>>,
         \/ /\ \/ taken = DOMAIN out[VouchersColl] /\ gap' = gap
               \/ gap' = Mark(Rejected(out[VouchersColl], taken), "rejected")
            /\ trouble' = trouble
            /\ cursor' = [cursor EXCEPT !.next = @ + 1] /\ pc' \in {"range", "settle"}
         \/ trouble' = trouble \cup {"range"} /\ cursor' = cursor /\ pc' = "settle" /\ gap' = gap
  PROVE  IInv'
<1>1. TypeOK /\ Numbers /\ Phases /\ PassKeeps /\ SeenKept
  BY DEF IInv, Keeps
<1>2. /\ cursor # None /\ cursor.planned /\ cursor.next \in 1 .. Ranges + 1 /\ cursor.force \in BOOLEAN
      /\ todo = {} /\ trouble = {} /\ pass.ranged /\ ~pass.whole /\ pass.probe = None
      /\ DOMAIN out = {VouchersColl} /\ DOMAIN out[VouchersColl] \subseteq InRange
      /\ cursor.next <= Ranges /\ rangesWork
  BY <1>1 DEF Phases, TypeOK, Moving, InPass, MoreRanges
<1>3. /\ server' \in [Records -> 0 .. MaxAlter]
      /\ \A r \in Records : server'[r] <= tally[r]
      /\ \A r \in Records : Behind(r)' => Behind(r)
      /\ \A r \in taken : InHand(r) => ~Behind(r)'
  BY <1>1, <1>2, Imports
<1>4. DOMAIN out' = {}
  BY DEF Nothing
<1>5. /\ cursor' \in [planned : BOOLEAN, next : 1 .. Ranges + 1, force : BOOLEAN]
      /\ cursor' # None /\ cursor'.planned
      /\ cursor'.next = IF trouble' = {} THEN cursor.next + 1 ELSE cursor.next
  <2>1. cursor \in [planned : BOOLEAN, next : 1 .. Ranges + 1, force : BOOLEAN]
    BY <1>1, <1>2 DEF TypeOK
  <2>2. cursor' \in [planned : BOOLEAN, next : 1 .. Ranges + 1, force : BOOLEAN]
        /\ cursor'.planned
        /\ cursor'.next = IF trouble' = {} THEN cursor.next + 1 ELSE cursor.next
    <3>1. cursor.next + 1 \in 1 .. Ranges + 1
      BY <1>2, ShapeAssumption
    <3>2. QED BY <2>1, <3>1, <1>2
  <2>3. QED BY <2>2, ShapeAssumption
<1>6. pc' \in {"range", "settle"} /\ (trouble' = {} \/ trouble' = {"range"})
      /\ (trouble' # {} => pc' = "settle")
  BY <1>2
<1>15. /\ gap' \in [Records -> SUBSET Leaks]
       /\ \A r \in Records : gap'[r] = {} => gap[r] = {}
       /\ \/ trouble' # {}
          \/ \A r \in DOMAIN out[VouchersColl] \ taken : Behind(r) /\ InHand(r) => gap'[r] # {}
  <2>1. CASE gap' = gap /\ (taken = DOMAIN out[VouchersColl] \/ trouble' # {})
    BY <2>1, <1>1 DEF TypeOK
  <2>2. CASE gap' = Mark(Rejected(out[VouchersColl], taken), "rejected")
    BY <2>2, <1>1, <1>2, Rejects
  <2>3. QED BY <2>1, <2>2
<1>7. TypeOK'
  BY <1>1, <1>3, <1>4, <1>5, <1>6, <1>15 DEF TypeOK
<1>8. Numbers'
  BY <1>1, <1>3, <1>4 DEF Numbers, Held, SideOf
<1>9. Phases'
  BY <1>1, <1>2, <1>4, <1>5, <1>6 DEF Phases, Moving, InPass
<1>10. ASSUME NEW r \in Records, Loose(r)'
       PROVE  /\ OnCursor(r)'
              /\ (trouble' = {} /\ seen # None) => tally[r] > seen[SideOf(r)]
  <2>1. Loose(r)
    BY <1>3, <1>10, <1>15 DEF Loose
  <2>2. RangePending(r) \/ InHand(r)
    <3>1. ~ToCome(r) /\ ~Failed /\ Moving
      BY <1>2 DEF ToCome, Failed, Moving, InPass
    <3>2. QED BY <3>1, <2>1, <1>1 DEF PassKeeps
  <2>3. RangeOf[r] \in Nat /\ cursor.next \in Nat
    BY <1>2, ShapeAssumption
  <2>4. RangePending(r) => r \in Vouchers /\ RangeOf[r] > cursor.next
    BY DEF RangePending
  <2>5. InHand(r) => r \in Vouchers /\ RangeOf[r] = cursor.next /\ trouble' # {}
    <3>1. SUFFICES ASSUME InHand(r) PROVE r \in Vouchers /\ RangeOf[r] = cursor.next /\ trouble' # {}
      OBVIOUS
    <3>2. r \in DOMAIN out[VouchersColl]
      BY <3>1, <1>2 DEF InHand, Held
    <3>3. r \notin taken
      BY <3>1, <1>3, <1>10 DEF Loose
    <3>4. trouble' # {}
      BY <3>1, <3>2, <3>3, <2>1, <1>10, <1>15 DEF Loose
    <3>5. QED BY <3>2, <3>4, <1>2 DEF InRange
  <2>6. OnCursor(r)'
    BY <2>2, <2>3, <2>4, <2>5, <1>5 DEF OnCursor
  <2>7. (trouble' = {} /\ seen # None) => tally[r] > seen[SideOf(r)]
    BY <2>1, <2>5, <1>1, <1>2 DEF SeenKept
  <2>8. QED BY <2>6, <2>7
<1>11. PassKeeps'
  <2>1. \A r \in Records : OnCursor(r)' /\ pc' = "range" => RangePending(r)'
    BY <1>2, <1>5 DEF OnCursor, RangePending
  <2>2. QED BY <2>1, <1>6, <1>10 DEF PassKeeps, Moving
<1>12. SettleKeeps' /\ SeenKept'
  BY <1>10 DEF SettleKeeps, SeenKept, SideOf
<1>13. NotLost' /\ ProbeKept'
  BY <1>2, <1>6 DEF NotLost, ProbeKept, InPass
<1>14. QED BY <1>7, <1>8, <1>9, <1>11, <1>12, <1>13 DEF IInv, Keeps

\* A range uploaded, and the cursor past it.
LEMMA PushRangeKeeps == ASSUME IInv, PushRange PROVE IInv'
<1>1. faults' \in 0 .. MaxFaults
  BY ShapeAssumption DEF PushRange, Arrives, NoFault, Fault, IInv, TypeOK
<1>2. pc' \in {"range", "settle"}
  BY DEF PushRange
<1>3. PICK taken \in SUBSET DOMAIN out[VouchersColl] :
        /\ Import(out[VouchersColl], taken, cursor.force)
        /\ \/ taken = DOMAIN out[VouchersColl] /\ gap' = gap
           \/ gap' = Mark(Rejected(out[VouchersColl], taken), "rejected")
  BY DEF PushRange, Arrives
<1>4. QED BY <1>1, <1>2, <1>3, RangePushes DEF PushRange

\* The upload of a range fails: the cursor stays on it.
LEMMA PushRangeFailsKeeps == ASSUME IInv, PushRangeFails PROVE IInv'
<1>1. faults' \in 0 .. MaxFaults
  BY ShapeAssumption DEF PushRangeFails, Fault, IInv, TypeOK
<1>2. QED BY <1>1, RangePushes DEF PushRangeFails

\* No range is left, so no voucher is pending.
LEMMA RangesDoneKeeps == ASSUME IInv, RangesDone PROVE IInv'
<1>1. /\ TypeOK /\ Numbers /\ Phases
      /\ todo = {} /\ DOMAIN out = {} /\ trouble = {} /\ Moving
      /\ pass.ranged /\ ~pass.whole /\ pass.probe = None /\ rangesWork
      /\ \A r \in Records : Loose(r) =>
           /\ r \in Vouchers /\ RangePending(r) /\ (High(r) \/ OnCursor(r))
           /\ seen # None => tally[r] > seen[SideOf(r)]
  BY Planning DEF RangesDone
<1>2. /\ pc = "range" /\ pc' = "settle" /\ ~MoreRanges /\ cursor' = None
      /\ UNCHANGED <<tally, counters, server, floor, seen, rangesWork, pass, todo, out, trouble, gap, faults>>
  BY DEF RangesDone, NoFault
<1>3. TypeOK'
  BY <1>1, <1>2 DEF TypeOK
<1>4. Numbers'
  BY <1>1, <1>2, SameNumbers
<1>5. Phases'
  BY <1>1, <1>2 DEF Phases, Moving, InPass
<1>6. \A r \in Records : ~Loose(r)'
  <2> SUFFICES ASSUME NEW r \in Records, Loose(r)' PROVE FALSE
    OBVIOUS
  <2>1. RangePending(r)
    BY <1>1, <1>2 DEF Loose, Behind
  <2>2. cursor # None /\ cursor.planned /\ cursor.next \in 1 .. Ranges + 1
    BY <1>1, <1>2 DEF Phases, TypeOK
  <2>3. QED BY <2>1, <2>2, <1>2, ShapeAssumption DEF RangePending, MoreRanges
<1>7. QED BY <1>2, <1>3, <1>4, <1>5, <1>6 DEF IInv, Keeps, NotLost, PassKeeps, SettleKeeps, SeenKept, ProbeKept
-----------------------------------------------------------------------------
(* The start and the end of a pass *)

\* The daemon starts with a full pass.
LEMMA StartUpKeeps == ASSUME IInv, StartUp PROVE IInv'
<1>1. ~InPass /\ faults' \in 0 .. MaxFaults
  BY DEF StartUp, NoFault, InPass, IInv, TypeOK
<1>2. BeginPass(FALSE, FALSE, Zero, FALSE, FALSE)
  BY DEF StartUp
<1>3. QED BY <1>1, <1>2, Begins

\* The daemon starts without one: nothing changes but the phase.
LEMMA StartWithoutTallyKeeps == ASSUME IInv, StartWithoutTally PROVE IInv'
<1>1. TypeOK /\ Numbers /\ Phases /\ NotLost /\ SeenKept
  BY DEF IInv, Keeps
<1>2. /\ pc = "off" /\ pc' = "idle"
      /\ UNCHANGED <<tally, counters, server, floor, cursor, seen, rangesWork, pass, todo, out,
                     trouble, gap, faults>>
  BY DEF StartWithoutTally, NoFault
<1>3. TypeOK'
  BY <1>1, <1>2 DEF TypeOK
<1>4. Numbers'
  BY <1>1, <1>2, SameNumbers
<1>5. Phases'
  BY <1>1, <1>2 DEF Phases, Moving, InPass
<1>6. \A r \in Records : (Loose(r)' <=> Loose(r)) /\ (Owed(r)' <=> Owed(r))
  BY <1>2 DEF Loose, Behind, Owed, NextMin, Watermarks
<1>7. NotLost'
  BY <1>1, <1>2, <1>6 DEF NotLost, InPass
<1>8. SeenKept'
  BY <1>1, <1>2, <1>6 DEF SeenKept, SideOf, Moving, InPass
<1>9. PassKeeps' /\ SettleKeeps' /\ ProbeKept'
  BY <1>2 DEF PassKeeps, SettleKeeps, ProbeKept, Moving, InPass
<1>10. QED BY <1>3, <1>4, <1>5, <1>7, <1>8, <1>9 DEF IInv, Keeps

\* The periodic pass, the portal's watermarks known or not.
LEMMA IncrementalPassKeeps == ASSUME IInv, IncrementalPass PROVE IInv'
<1>1. ~InPass
  BY DEF IncrementalPass, InPass
<1>2. PICK answered \in BOOLEAN, due \in BOOLEAN :
        \/ BeginPass(TRUE, FALSE, Watermarks, answered, due) /\ NoFault
        \/ BeginPass(TRUE, FALSE, Zero, answered, due) /\ Fault
  BY DEF IncrementalPass
<1>3. faults' \in 0 .. MaxFaults
  <2>1. NoFault \/ Fault
    BY <1>2
  <2>2. QED BY <2>1, ShapeAssumption DEF NoFault, Fault, IInv, TypeOK
<1>4. QED BY <1>1, <1>2, <1>3, Begins

\* A full re-sync somebody asked for.
LEMMA ForcedPassKeeps == ASSUME IInv, ForcedPass PROVE IInv'
<1>1. ~InPass /\ Fault /\ BeginPass(FALSE, TRUE, Zero, FALSE, FALSE)
  BY DEF ForcedPass, InPass
<1>2. faults' \in 0 .. MaxFaults
  BY <1>1, ShapeAssumption DEF Fault, IInv, TypeOK
<1>3. QED BY <1>1, <1>2, Begins

\* The end of a pass: a loose change is on the cursor, above the watermark or above the new retry point.
LEMMA SettleKeepsAll == ASSUME IInv, Settle PROVE IInv'
<1>1. TypeOK /\ Numbers /\ Phases /\ SettleKeeps /\ SeenKept /\ ProbeKept
  BY DEF IInv, Keeps
<1>2. /\ pc = "settle" /\ pc' = "idle" /\ floor' = NextFloor /\ seen' = NextSeen
      /\ pass' = NoPass /\ trouble' = {}
      /\ gap' = IF pass.whole /\ pass.inc /\ trouble # {}
                THEN Mark({r \in Vouchers : Behind(r) /\ tally[r] <= CycleMin}, "dropped") ELSE gap
      /\ UNCHANGED <<tally, counters, server, cursor, rangesWork, todo, out, faults>>
  BY DEF Settle, NoFault
<1>3. CycleMin \in 0 .. MaxAlter
  BY <1>1, ShapeAssumption DEF CycleMin, Lesser, TypeOK
<1>4. /\ NextFloor \in (0 .. MaxAlter) \cup {None}
      /\ ~Failed => NextFloor = None
      /\ Failed => NextFloor # None /\ NextFloor <= CycleMin
  BY <1>1, <1>3, ShapeAssumption DEF NextFloor, Failed, Lesser, TypeOK
<1>5. /\ seen' \in [Sides -> 0 .. MaxAlter] \cup {None}
      /\ seen' # None => /\ trouble = {}
                         /\ seen' = seen \/ (pass.probe # None /\ seen' = pass.probe)
  BY <1>1, <1>2 DEF NextSeen, TypeOK
<1>6. TypeOK'
  <2>1. gap' \in [Records -> SUBSET Leaks]
    BY <1>1, <1>2 DEF TypeOK, Mark, Leaks
  <2>2. NoPass \in [inc : BOOLEAN, force : BOOLEAN, ranged : BOOLEAN, whole : BOOLEAN,
               minM : 0 .. MaxAlter, minV : 0 .. MaxAlter,
               probe : [Sides -> 0 .. MaxAlter] \cup {None}, sides : SUBSET Sides]
    BY ShapeAssumption DEF NoPass
  <2>3. QED BY <1>1, <1>2, <1>4, <1>5, <2>1, <2>2 DEF TypeOK
<1>7. Numbers'
  <2>1. 0 <= counters["masters"] /\ 0 <= counters["vouchers"]
    BY <1>1, ShapeAssumption DEF TypeOK, Sides
  <2>2. seen' # None => \A s \in Sides : seen'[s] <= counters[s]
    BY <1>1, <1>5 DEF Numbers
  <2>3. QED BY <1>1, <1>2, <2>1, <2>2 DEF Numbers, Held, SideOf, NoPass
<1>8. Phases'
  BY <1>1, <1>2 DEF Phases, Moving, InPass, NoPass
<1>9. \A r \in Records : Loose(r)' => Loose(r) /\ (Marked(r) /\ Failed => High(r))
  <2> SUFFICES ASSUME NEW r \in Records, Loose(r)'
               PROVE  Loose(r) /\ (Marked(r) /\ Failed => High(r))
    OBVIOUS
  <2>1. Behind(r) /\ Coll[r] \notin Unfiltered /\ tally[r] \in 0 .. MaxAlter
    BY <1>1, <1>2 DEF Loose, Behind, TypeOK
  <2>2. CASE pass.whole /\ pass.inc /\ trouble # {}
    <3>1. gap' = Mark({q \in Vouchers : Behind(q) /\ tally[q] <= CycleMin}, "dropped")
      BY <2>2, <1>2
    <3>2. gap[r] = {} /\ ~(r \in Vouchers /\ tally[r] <= CycleMin)
      BY <2>1, <3>1 DEF Loose, Mark
    <3>3. r \in Vouchers => tally[r] > CycleMin
      BY <2>1, <3>2, <1>3, ShapeAssumption
    <3>4. QED BY <2>1, <3>2, <3>3 DEF Loose, High, Marked
  <2>3. CASE ~(pass.whole /\ pass.inc /\ trouble # {})
    BY <2>1, <2>3, <1>2 DEF Loose, Marked, Failed
  <2>4. QED BY <2>2, <2>3
<1>10. NotLost'
  <2> SUFFICES ASSUME NEW r \in Records, Loose(r)' PROVE Owed(r)'
    BY DEF NotLost
  <2>1. OnCursor(r) \/ tally[r] > Watermarks[SideOf(r)] \/ (Failed /\ High(r))
    BY <1>1, <1>2, <1>9 DEF SettleKeeps
  <2>2. Watermarks' = Watermarks /\ SideOf(r)' = SideOf(r)
    BY <1>2 DEF Watermarks, SideOf
  <2>3. SideOf(r) \in Sides /\ Watermarks[SideOf(r)] \in 0 .. MaxAlter /\ tally[r] \in 0 .. MaxAlter
    BY <1>1, WatermarkFacts DEF TypeOK
  <2>4. NextMin(SideOf(r))' = IF NextFloor = None THEN Watermarks[SideOf(r)]
                              ELSE Lesser(NextFloor, Watermarks[SideOf(r)])
    BY <1>2, <2>2 DEF NextMin
  <2>5. CASE OnCursor(r)
    BY <2>5, <1>2 DEF OnCursor, Owed
  <2>6. CASE tally[r] > Watermarks[SideOf(r)]
    <3>1. tally[r] > NextMin(SideOf(r))'
      BY <2>3, <2>4, <2>6, <1>4, ShapeAssumption DEF Lesser
    <3>2. QED BY <3>1, <2>2, <1>2 DEF Owed
  <2>7. CASE Failed /\ High(r)
    <3>1. tally[r] > NextMin(SideOf(r))'
      BY <2>3, <2>4, <2>7, <1>3, <1>4, ShapeAssumption DEF Lesser, High
    <3>2. QED BY <3>1, <2>2, <1>2 DEF Owed
  <2>8. QED BY <2>1, <2>5, <2>6, <2>7
<1>11. SeenKept'
  <2> SUFFICES ASSUME seen' # None, NEW r \in Records, Loose(r)' PROVE tally[r] > seen'[SideOf(r)]
    BY <1>2 DEF SeenKept, SideOf
  <2>1. Loose(r) /\ trouble = {} /\ ~Moving
    BY <1>2, <1>5, <1>9 DEF Moving
  <2>2. CASE seen' = seen
    BY <2>1, <2>2, <1>1 DEF SeenKept
  <2>3. CASE pass.probe # None /\ seen' = pass.probe
    BY <2>1, <2>3, <1>1, <1>2 DEF ProbeKept
  <2>4. QED BY <2>2, <2>3, <1>5
<1>12. PassKeeps' /\ SettleKeeps' /\ ProbeKept'
  BY <1>2 DEF PassKeeps, SettleKeeps, ProbeKept, Moving, InPass
<1>13. QED BY <1>6, <1>7, <1>8, <1>10, <1>11, <1>12 DEF IInv, Keeps

-----------------------------------------------------------------------------
(* A pass is cut off *)

\* What the pass had not brought is marked, or above every number the agent will compare
\* it with; outside a pass nothing is lost.
LEMMA Interrupts ==
  ASSUME IInv, Interrupt, pc' \in {"off", "idle"}, seen' \in {seen, None},
         rangesWork' \in {rangesWork, TRUE}, faults' \in 0 .. MaxFaults
  PROVE  IInv'
<1>1. TypeOK /\ Numbers /\ Phases /\ NotLost /\ SeenKept
  BY DEF IInv, Keeps
<1>2. /\ gap' = IF InPass THEN Mark({r \in Records : Behind(r) /\ Hidden(r)}, "interrupted")
               ELSE gap
      /\ pass' = NoPass /\ todo' = {} /\ DOMAIN out' = {} /\ trouble' = {}
      /\ UNCHANGED <<tally, counters, server, floor, cursor>>
  BY DEF Interrupt, Nothing
<1>3. TypeOK'
  <2>1. gap' \in [Records -> SUBSET Leaks]
    BY <1>1, <1>2 DEF TypeOK, Mark, Leaks
  <2>2. NoPass \in [inc : BOOLEAN, force : BOOLEAN, ranged : BOOLEAN, whole : BOOLEAN,
               minM : 0 .. MaxAlter, minV : 0 .. MaxAlter,
               probe : [Sides -> 0 .. MaxAlter] \cup {None}, sides : SUBSET Sides]
    BY ShapeAssumption DEF NoPass
  <2>3. rangesWork' \in BOOLEAN
    BY <1>1 DEF TypeOK
  <2>4. QED BY <1>1, <1>2, <2>1, <2>2, <2>3 DEF TypeOK
<1>4. Numbers'
  <2>1. 0 <= counters["masters"] /\ 0 <= counters["vouchers"]
    BY <1>1, ShapeAssumption DEF TypeOK, Sides
  <2>2. QED BY <1>1, <1>2, <2>1 DEF Numbers, Held, SideOf, NoPass
<1>5. Phases'
  BY <1>1, <1>2 DEF Phases, Moving, InPass, NoPass
<1>6. \A r \in Records : Loose(r)' => Loose(r) /\ (InPass => ~Hidden(r))
  <2> SUFFICES ASSUME NEW r \in Records, Loose(r)' PROVE Loose(r) /\ (InPass => ~Hidden(r))
    OBVIOUS
  <2>1. Behind(r) /\ Coll[r] \notin Unfiltered
    BY <1>2 DEF Loose, Behind
  <2>2. CASE InPass
    <3>1. gap' = Mark({q \in Records : Behind(q) /\ Hidden(q)}, "interrupted")
      BY <2>2, <1>2
    <3>2. gap[r] = {} /\ ~Hidden(r)
      BY <2>1, <3>1 DEF Loose, Mark
    <3>3. QED BY <2>1, <3>2 DEF Loose
  <2>3. QED BY <2>1, <2>2, <1>2 DEF Loose
<1>7. \A r \in Records : /\ Owed(r)' <=> Owed(r)
                         /\ InPass /\ ~Hidden(r) => Owed(r)
                         /\ InPass /\ ~Hidden(r) /\ seen # None => tally[r] > seen[SideOf(r)]
  <2> SUFFICES ASSUME NEW r \in Records
               PROVE  /\ Owed(r)' <=> Owed(r)
                      /\ ~Hidden(r) => Owed(r)
                      /\ ~Hidden(r) /\ seen # None => tally[r] > seen[SideOf(r)]
    OBVIOUS
  <2>1. Owed(r)' <=> Owed(r)
    BY <1>2 DEF Owed, NextMin, Watermarks, SideOf
  <2>2. /\ SideOf(r) \in Sides /\ Watermarks[SideOf(r)] \in 0 .. MaxAlter
        /\ tally[r] \in 0 .. MaxAlter /\ floor \in (0 .. MaxAlter) \cup {None}
    BY <1>1, WatermarkFacts DEF TypeOK
  <2>3. ~Hidden(r) => tally[r] > NextMin(SideOf(r))
    BY <2>2, ShapeAssumption DEF Hidden, NextMin, Lesser
  <2>4. seen # None => seen[SideOf(r)] \in 0 .. MaxAlter
    BY <2>2, <1>1 DEF TypeOK
  <2>5. ~Hidden(r) /\ seen # None => tally[r] > seen[SideOf(r)]
    BY <2>2, <2>4, ShapeAssumption DEF Hidden
  <2>6. QED BY <2>1, <2>3, <2>5 DEF Owed
<1>8. NotLost'
  BY <1>1, <1>6, <1>7 DEF NotLost
<1>9. SeenKept'
  <2> SUFFICES ASSUME seen' # None, NEW r \in Records, Loose(r)'
               PROVE  tally[r] > seen'[SideOf(r)]
    BY <1>2 DEF SeenKept, SideOf
  <2>1. seen' = seen /\ Loose(r)
    BY <1>6
  <2>2. CASE InPass
    BY <2>1, <2>2, <1>6, <1>7
  <2>3. CASE ~InPass
    BY <2>1, <2>3, <1>1 DEF SeenKept, Phases, Moving, InPass
  <2>4. QED BY <2>2, <2>3
<1>10. PassKeeps' /\ SettleKeeps' /\ ProbeKept'
  BY DEF PassKeeps, SettleKeeps, ProbeKept, Moving, InPass
<1>11. QED BY <1>3, <1>4, <1>5, <1>8, <1>9, <1>10 DEF IInv, Keeps

\* A pass that raises.
LEMMA PassRaisesKeeps == ASSUME IInv, PassRaises PROVE IInv'
<1>1. faults' \in 0 .. MaxFaults
  BY ShapeAssumption DEF PassRaises, Fault, IInv, TypeOK
<1>2. QED BY <1>1, Interrupts DEF PassRaises

\* The agent's process ends, in a pass or between two.
LEMMA CrashKeeps == ASSUME IInv, Crash PROVE IInv'
<1>1. faults' \in 0 .. MaxFaults
  BY ShapeAssumption DEF Crash, Fault, IInv, TypeOK
<1>2. QED BY <1>1, Interrupts DEF Crash

-----------------------------------------------------------------------------
(* Changes in Tally *)

\* Tally numbers the change of r above everything it has numbered on that side.
LEMMA Alters ==
  ASSUME TypeOK, Numbers, NEW r \in Records, Alter(r)
  PROVE  /\ tally' \in [Records -> 0 .. MaxAlter] /\ counters' \in [Sides -> 0 .. MaxAlter]
         /\ tally'[r] = counters[SideOf(r)] + 1
         /\ \A s \in Records \ {r} : tally'[s] = tally[s]
         /\ \A s \in Records : tally[s] <= tally'[s] /\ tally'[s] <= counters'[SideOf(s)]
         /\ \A s \in Sides : counters[s] <= counters'[s]
<1>1. /\ NextAlter(r) <= MaxAlter /\ NextAlter(r) = counters[SideOf(r)] + 1
      /\ tally' = [tally EXCEPT ![r] = NextAlter(r)]
      /\ counters' = [counters EXCEPT ![SideOf(r)] = NextAlter(r)]
  BY DEF Alter, NextAlter
<1>2. \A s \in Records : SideOf(s) \in Sides
  BY DEF SideOf, Sides
<1>3. /\ tally \in [Records -> 0 .. MaxAlter] /\ counters \in [Sides -> 0 .. MaxAlter]
      /\ \A s \in Records : tally[s] <= counters[SideOf(s)]
  BY DEF TypeOK, Numbers
<1>4. NextAlter(r) \in 0 .. MaxAlter
  BY <1>1, <1>2, <1>3, ShapeAssumption
<1>5. /\ tally' \in [Records -> 0 .. MaxAlter] /\ counters' \in [Sides -> 0 .. MaxAlter]
      /\ tally'[r] = counters[SideOf(r)] + 1
      /\ \A s \in Records \ {r} : tally'[s] = tally[s]
  BY <1>1, <1>3, <1>4
<1>6. \A s \in Sides : counters[s] <= counters'[s]
  BY <1>1, <1>2, <1>3, ShapeAssumption
<1>7. \A s \in Records : tally[s] <= tally'[s] /\ tally'[s] <= counters'[SideOf(s)]
  <2> SUFFICES ASSUME NEW s \in Records
               PROVE  tally[s] <= tally'[s] /\ tally'[s] <= counters'[SideOf(s)]
    OBVIOUS
  <2>1. CASE s = r
    BY <2>1, <1>1, <1>2, <1>3, ShapeAssumption
  <2>2. CASE s # r
    <3>1. tally'[s] = tally[s] /\ tally[s] <= counters[SideOf(s)]
          /\ counters[SideOf(s)] <= counters'[SideOf(s)]
      BY <2>2, <1>2, <1>3, <1>5, <1>6
    <3>2. QED BY <3>1, <1>2, <1>3, <1>5, ShapeAssumption
  <2>3. QED BY <2>1, <2>2
<1>8. QED BY <1>5, <1>6, <1>7

\* A user's change gets a number above all the agent has in mind; behind the pass it is marked.
LEMMA EditKeeps == ASSUME IInv, NEW r \in Records, Edit(r) PROVE IInv'
<1>1. TypeOK /\ Numbers /\ Phases /\ NotLost /\ PassKeeps /\ SettleKeeps /\ SeenKept /\ ProbeKept
  BY DEF IInv, Keeps
<1>2. /\ gap' = [gap EXCEPT ![r] = IF Passed(r) THEN {"edited"} ELSE {}]
      /\ UNCHANGED <<server, floor, cursor, seen, rangesWork, pc, pass, todo, out, trouble, faults>>
  BY DEF Edit, agentVars
<1>3. /\ tally' \in [Records -> 0 .. MaxAlter] /\ counters' \in [Sides -> 0 .. MaxAlter]
      /\ tally'[r] = counters[SideOf(r)] + 1
      /\ \A s \in Records \ {r} : tally'[s] = tally[s]
      /\ \A s \in Records : tally[s] <= tally'[s] /\ tally'[s] <= counters'[SideOf(s)]
      /\ \A s \in Sides : counters[s] <= counters'[s]
  BY <1>1, Alters DEF Edit
<1>4. \A s \in Records : SideOf(s) \in Sides /\ SideOf(s)' = SideOf(s) /\ tally[s] \in 0 .. MaxAlter
                         /\ server[s] \in 0 .. MaxAlter
  BY <1>1 DEF SideOf, Sides, TypeOK
<1>5. \A s \in Sides : counters[s] \in 0 .. MaxAlter /\ counters'[s] \in 0 .. MaxAlter
  BY <1>1, <1>3 DEF TypeOK
<1>6. TypeOK' /\ \A s \in Records : s # r => gap'[s] = gap[s]
  <2>1. gap \in [Records -> SUBSET Leaks]
    BY <1>1 DEF TypeOK
  <2>3. gap' \in [Records -> SUBSET Leaks] /\ \A s \in Records : s # r => gap'[s] = gap[s]
    BY <2>1, <1>2 DEF Leaks
  <2>4. /\ floor' = floor /\ cursor' = cursor /\ server' = server /\ seen' = seen /\ pc' = pc
        /\ rangesWork' = rangesWork /\ pass' = pass /\ todo' = todo /\ out' = out
        /\ trouble' = trouble /\ faults' = faults
    BY <1>2
  <2>5. tally' \in [Records -> 0 .. MaxAlter] /\ counters' \in [Sides -> 0 .. MaxAlter]
    BY <1>3
  <2>6. QED BY <1>1, <2>3, <2>4, <2>5 DEF TypeOK
<1>7. Numbers'
  <2>1. \A s \in Records : server[s] <= tally'[s]
    <3> SUFFICES ASSUME NEW s \in Records PROVE server[s] <= tally'[s]
      OBVIOUS
    <3>1. server[s] <= tally[s] /\ tally[s] <= tally'[s] /\ tally'[s] \in 0 .. MaxAlter
      BY <1>1, <1>3 DEF Numbers
    <3>2. QED BY <3>1, <1>4, ShapeAssumption
  <2>2. \A s \in Records : Held(s) => /\ out[Coll[s]][s] \in Nat /\ server[s] <= out[Coll[s]][s]
                                      /\ out[Coll[s]][s] <= tally'[s]
    <3> SUFFICES ASSUME NEW s \in Records, Held(s)
                 PROVE  /\ out[Coll[s]][s] \in Nat /\ server[s] <= out[Coll[s]][s]
                        /\ out[Coll[s]][s] <= tally'[s]
      OBVIOUS
    <3>1. /\ out[Coll[s]][s] \in Nat /\ server[s] <= out[Coll[s]][s] /\ out[Coll[s]][s] <= tally[s]
      BY <1>1 DEF Numbers
    <3>2. tally[s] <= tally'[s] /\ tally'[s] \in 0 .. MaxAlter
      BY <1>3
    <3>3. QED BY <3>1, <3>2, <1>4, ShapeAssumption
  <2>3. pass.minM <= counters'["masters"] /\ pass.minV <= counters'["vouchers"]
    <3>1. pass.minM \in Nat /\ pass.minV \in Nat /\ "masters" \in Sides /\ "vouchers" \in Sides
      BY <1>1, ShapeAssumption DEF TypeOK, Sides
    <3>2. pass.minM <= counters["masters"] /\ pass.minV <= counters["vouchers"]
      BY <1>1 DEF Numbers
    <3>3. QED BY <3>1, <3>2, <1>3, <1>5, ShapeAssumption
  <2>4. seen # None => \A s \in Sides : seen[s] <= counters'[s]
    <3> SUFFICES ASSUME seen # None, NEW s \in Sides PROVE seen[s] <= counters'[s]
      OBVIOUS
    <3>1. seen[s] \in 0 .. MaxAlter /\ seen[s] <= counters[s]
      BY <1>1 DEF TypeOK, Numbers
    <3>2. QED BY <3>1, <1>3, <1>5, ShapeAssumption
  <2>5. pass.probe # None => \A s \in Sides : pass.probe[s] <= counters'[s]
    <3> SUFFICES ASSUME pass.probe # None, NEW s \in Sides PROVE pass.probe[s] <= counters'[s]
      OBVIOUS
    <3>1. pass.probe \in [Sides -> 0 .. MaxAlter] \cup {None}
      BY <1>1 DEF TypeOK
    <3>2. pass.probe[s] \in 0 .. MaxAlter /\ pass.probe[s] <= counters[s]
      BY <3>1, <1>1 DEF Numbers
    <3>3. QED BY <3>2, <1>3, <1>5, ShapeAssumption
  <2>6. QED BY <1>2, <1>3, <1>4, <2>1, <2>2, <2>3, <2>4, <2>5 DEF Numbers, Held
<1>8. Phases'
  BY <1>1, <1>2 DEF Phases, Moving, InPass, InRange, MoreRanges
<1>9. /\ Watermarks' = Watermarks /\ (Failed' <=> Failed) /\ (Moving' <=> Moving) /\ (InPass' <=> InPass)
      /\ CycleMin' = CycleMin /\ \A s : NextMin(s)' = NextMin(s)
  BY <1>2 DEF Watermarks, Failed, Moving, InPass, CycleMin, NextMin
<1>10. \A s \in Records : /\ OnCursor(s)' <=> OnCursor(s)
                          /\ RangePending(s)' <=> RangePending(s)
                          /\ Marked(s)' <=> Marked(s)
  BY <1>2 DEF OnCursor, RangePending, Marked
<1>11. ASSUME NEW s \in Records, s # r
       PROVE  /\ Loose(s)' => Loose(s)
              /\ High(s)' <=> High(s)
              /\ ToCome(s)' <=> ToCome(s)
              /\ InHand(s)' <=> InHand(s)
              /\ Owed(s)' <=> Owed(s)
  <2>1. tally'[s] = tally[s] /\ gap'[s] = gap[s]
    BY <1>3, <1>6, <1>11
  <2>2. MinAlter(Coll[s])' = MinAlter(Coll[s])
    BY <1>2 DEF MinAlter
  <2>3. QED BY <2>1, <2>2, <1>2, <1>4, <1>9 DEF Loose, Behind, High, ToCome, InHand, Held, Owed
<1>12. /\ seen # None => tally'[r] > seen[SideOf(r)]
       /\ pass.probe # None => tally'[r] > pass.probe[SideOf(r)]
       /\ tally'[r] > Watermarks[SideOf(r)] /\ tally'[r] > NextMin(SideOf(r))
  <2>1. counters[SideOf(r)] \in 0 .. MaxAlter /\ tally'[r] \in Nat
    BY <1>3, <1>4, <1>5, ShapeAssumption
  <2>2. seen # None => seen[SideOf(r)] \in 0 .. MaxAlter /\ seen[SideOf(r)] <= counters[SideOf(r)]
    BY <1>1, <1>4 DEF TypeOK, Numbers
  <2>3. pass.probe # None => pass.probe[SideOf(r)] \in 0 .. MaxAlter
                             /\ pass.probe[SideOf(r)] <= counters[SideOf(r)]
    <3>1. pass.probe \in [Sides -> 0 .. MaxAlter] \cup {None}
      BY <1>1 DEF TypeOK
    <3>2. QED BY <3>1, <1>1, <1>4 DEF Numbers
  <2>4. Watermarks[SideOf(r)] \in 0 .. MaxAlter /\ Watermarks[SideOf(r)] <= counters[SideOf(r)]
    BY <1>1, <1>4, WatermarkFacts, WatermarkBelow
  <2>5. floor \in (0 .. MaxAlter) \cup {None}
    BY <1>1 DEF TypeOK
  <2>6. QED BY <2>1, <2>2, <2>3, <2>4, <2>5, <1>3, ShapeAssumption DEF NextMin, Lesser
<1>13. Moving /\ Loose(r)' => High(r)' /\ (ToCome(r)' \/ RangePending(r)')
  <2> SUFFICES ASSUME Moving, Loose(r)' PROVE High(r)' /\ (ToCome(r)' \/ RangePending(r)')
    OBVIOUS
  <2>1. ~Passed(r)
    BY <1>1, <1>2 DEF Loose, TypeOK
  <2>2. Coll[r] \in todo \/ RangePending(r)
    BY <2>1 DEF Passed, Moving
  <2>3. /\ pass.minM \in 0 .. MaxAlter /\ pass.minV \in 0 .. MaxAlter
        /\ pass.minM <= counters["masters"] /\ pass.minV <= counters["vouchers"]
    BY <1>1 DEF TypeOK, Numbers
  <2>4. tally'[r] > IF r \in Vouchers THEN pass.minV ELSE pass.minM
    BY <2>3, <1>3, <1>4, <1>5, ShapeAssumption DEF SideOf
  <2>5. tally'[r] > CycleMin /\ tally'[r] > 0
    <3>1. tally'[r] \in Nat
      BY <1>3, ShapeAssumption
    <3>2. QED BY <3>1, <2>3, <2>4, ShapeAssumption DEF CycleMin, Lesser
  <2>6. Coll[r] = VouchersColl <=> r \in Vouchers
    BY DEF Vouchers
  <2>7. tally'[r] > MinAlter(Coll[r])
    BY <2>4, <2>5, <2>6 DEF MinAlter
  <2>8. MinAlter(Coll[r])' = MinAlter(Coll[r])
    BY <1>2 DEF MinAlter
  <2>9. QED BY <2>2, <2>5, <2>7, <2>8, <1>2, <1>9, <1>10 DEF High, ToCome
<1>14. NotLost'
  <2> SUFFICES ASSUME ~InPass, NEW s \in Records, Loose(s)' PROVE Owed(s)'
    BY <1>9 DEF NotLost
  <2>1. CASE s = r
    BY <2>1, <1>4, <1>9, <1>12 DEF Owed
  <2>2. CASE s # r
    BY <2>2, <1>1, <1>11 DEF NotLost
  <2>3. QED BY <2>1, <2>2
<1>15. PassKeeps'
  <2> SUFFICES ASSUME Moving, NEW s \in Records, Loose(s)'
               PROVE  /\ High(s)' \/ OnCursor(s)' \/ Marked(s)'
                      /\ ToCome(s)' \/ InHand(s)' \/ RangePending(s)' \/ Failed'
    BY <1>9 DEF PassKeeps
  <2>1. CASE s = r
    BY <2>1, <1>13
  <2>2. CASE s # r
    BY <2>2, <1>1, <1>9, <1>10, <1>11 DEF PassKeeps
  <2>3. QED BY <2>1, <2>2
<1>16. SettleKeeps'
  <2> SUFFICES ASSUME pc = "settle", NEW s \in Records, Loose(s)'
               PROVE  \/ OnCursor(s)' \/ tally'[s] > Watermarks[SideOf(s)]
                      \/ (Failed' /\ (High(s)' \/ Marked(s)'))
    BY <1>2, <1>4, <1>9 DEF SettleKeeps
  <2>1. CASE s = r
    BY <2>1, <1>12
  <2>2. CASE s # r
    BY <2>2, <1>1, <1>3, <1>9, <1>10, <1>11 DEF SettleKeeps
  <2>3. QED BY <2>1, <2>2
<1>17. SeenKept'
  <2> SUFFICES ASSUME seen # None, NEW s \in Records, Loose(s)'
               PROVE  tally'[s] > seen[SideOf(s)] \/ (Moving' /\ InHand(s)') \/ trouble # {}
    BY <1>2, <1>4 DEF SeenKept
  <2>1. CASE s = r
    BY <2>1, <1>12
  <2>2. CASE s # r
    BY <2>2, <1>1, <1>3, <1>9, <1>11 DEF SeenKept
  <2>3. QED BY <2>1, <2>2
<1>18. ProbeKept'
  <2> SUFFICES ASSUME pc = "settle", trouble = {}, pass.probe # None, NEW s \in Records, Loose(s)'
               PROVE  tally'[s] > pass.probe[SideOf(s)]
    BY <1>2, <1>4 DEF ProbeKept
  <2>1. CASE s = r
    BY <2>1, <1>12
  <2>2. CASE s # r
    BY <2>2, <1>1, <1>3, <1>11 DEF ProbeKept
  <2>3. QED BY <2>1, <2>2
<1>19. QED BY <1>6, <1>7, <1>8, <1>14, <1>15, <1>16, <1>17, <1>18 DEF IInv, Keeps

\* A write-back brings its own voucher up to date, and marks those it overtakes.
LEMMA WriteBackKeeps == ASSUME IInv, NEW r \in Records, WriteBack(r) PROVE IInv'
<1>1. TypeOK /\ Numbers /\ Phases /\ NotLost /\ SeenKept
  BY DEF IInv, Keeps
<1>2. /\ pc = "idle" /\ r \in Vouchers /\ NextAlter(r) <= MaxAlter
      /\ server' = [server EXCEPT ![r] = NextAlter(r)]
      /\ tally' = [tally EXCEPT ![r] = NextAlter(r)]
      /\ gap' = Mark({s \in Vouchers : Behind(s)}, "overtaken")
      /\ UNCHANGED <<floor, cursor, seen, rangesWork, pc, pass, todo, out, trouble, faults>>
  BY DEF WriteBack, Alter, agentVars
<1>3. /\ tally' \in [Records -> 0 .. MaxAlter] /\ counters' \in [Sides -> 0 .. MaxAlter]
      /\ \A s \in Records \ {r} : tally'[s] = tally[s]
      /\ \A s \in Records : tally[s] <= tally'[s] /\ tally'[s] <= counters'[SideOf(s)]
      /\ \A s \in Sides : counters[s] <= counters'[s]
  BY <1>1, Alters DEF WriteBack
<1>4. /\ tally \in [Records -> 0 .. MaxAlter] /\ server \in [Records -> 0 .. MaxAlter]
      /\ gap \in [Records -> SUBSET Leaks] /\ counters \in [Sides -> 0 .. MaxAlter]
  BY <1>1 DEF TypeOK
<1>5. /\ server' \in [Records -> 0 .. MaxAlter] /\ server'[r] = tally'[r]
      /\ \A s \in Records \ {r} : server'[s] = server[s]
  <2>1. NextAlter(r) = tally'[r] /\ tally'[r] \in 0 .. MaxAlter
    BY <1>2, <1>3, <1>4
  <2>2. QED BY <2>1, <1>2, <1>4
<1>6. TypeOK'
  <2>1. gap' \in [Records -> SUBSET Leaks]
    BY <1>2, <1>4 DEF Mark, Leaks
  <2>2. /\ floor' = floor /\ cursor' = cursor /\ seen' = seen /\ pc' = pc
        /\ rangesWork' = rangesWork /\ pass' = pass /\ todo' = todo /\ out' = out
        /\ trouble' = trouble /\ faults' = faults
    BY <1>2
  <2>3. QED BY <1>1, <1>3, <1>5, <2>1, <2>2 DEF TypeOK
<1>7. \A s \in Sides : counters[s] \in 0 .. MaxAlter /\ counters'[s] \in 0 .. MaxAlter
  BY <1>3, <1>4
<1>8. Numbers'
  <2>1. \A s \in Records : server'[s] <= tally'[s]
    BY <1>1, <1>3, <1>4, <1>5, ShapeAssumption DEF Numbers
  <2>2. DOMAIN out = {}
    BY <1>1, <1>2 DEF Phases
  <2>3. pass.minM <= counters'["masters"] /\ pass.minV <= counters'["vouchers"]
    <3>1. pass.minM \in Nat /\ pass.minV \in Nat /\ "masters" \in Sides /\ "vouchers" \in Sides
      BY <1>1, ShapeAssumption DEF TypeOK, Sides
    <3>2. pass.minM <= counters["masters"] /\ pass.minV <= counters["vouchers"]
      BY <1>1 DEF Numbers
    <3>3. QED BY <3>1, <3>2, <1>3, <1>7, ShapeAssumption
  <2>4. seen # None => \A s \in Sides : seen[s] <= counters'[s]
    <3> SUFFICES ASSUME seen # None, NEW s \in Sides PROVE seen[s] <= counters'[s]
      OBVIOUS
    <3>1. seen[s] \in 0 .. MaxAlter /\ seen[s] <= counters[s]
      BY <1>1 DEF TypeOK, Numbers
    <3>2. QED BY <3>1, <1>3, <1>7, ShapeAssumption
  <2>5. pass.probe # None => \A s \in Sides : pass.probe[s] <= counters'[s]
    <3> SUFFICES ASSUME pass.probe # None, NEW s \in Sides PROVE pass.probe[s] <= counters'[s]
      OBVIOUS
    <3>1. pass.probe \in [Sides -> 0 .. MaxAlter] \cup {None}
      BY <1>1 DEF TypeOK
    <3>2. pass.probe[s] \in 0 .. MaxAlter /\ pass.probe[s] <= counters[s]
      BY <3>1, <1>1 DEF Numbers
    <3>3. QED BY <3>2, <1>3, <1>7, ShapeAssumption
  <2>6. \A s \in Records : SideOf(s)' = SideOf(s)
    BY DEF SideOf
  <2>7. QED BY <1>2, <1>3, <2>1, <2>2, <2>3, <2>4, <2>5, <2>6 DEF Numbers, Held
<1>9. Phases'
  BY <1>1, <1>2 DEF Phases, Moving, InPass, InRange, MoreRanges
<1>10. ASSUME NEW s \in Records, Loose(s)'
       PROVE  Loose(s) /\ s \notin Vouchers /\ tally'[s] = tally[s]
  <2>1. s # r
    BY <1>5, <1>10 DEF Loose, Behind
  <2>2. Behind(s) /\ tally'[s] = tally[s]
    BY <2>1, <1>3, <1>5, <1>10 DEF Loose, Behind
  <2>3. s \notin Vouchers
    BY <2>2, <1>2, <1>10 DEF Loose, Mark
  <2>4. gap'[s] = gap[s]
    BY <2>3, <1>2, <1>4 DEF Mark
  <2>5. QED BY <2>2, <2>3, <2>4, <1>10 DEF Loose
<1>11. Watermarks'["masters"] = Watermarks["masters"]
  <2>1. {server'[s] : s \in MasterRecords} = {server[s] : s \in MasterRecords}
    BY <1>2, <1>5 DEF MasterRecords
  <2>2. QED BY <2>1 DEF Watermarks, Highest
<1>12. NotLost'
  <2> SUFFICES ASSUME NEW s \in Records, Loose(s)' PROVE Owed(s)'
    BY DEF NotLost
  <2>1. Loose(s) /\ s \notin Vouchers /\ tally'[s] = tally[s]
    BY <1>10
  <2>2. Owed(s)
    BY <2>1, <1>1, <1>2 DEF NotLost, InPass
  <2>3. SideOf(s) = "masters" /\ SideOf(s)' = "masters"
    BY <2>1 DEF SideOf
  <2>4. tally[s] > NextMin("masters")
    BY <2>1, <2>2, <2>3 DEF Owed
  <2>5. NextMin("masters")' = NextMin("masters")
    BY <1>2, <1>11 DEF NextMin
  <2>6. QED BY <2>1, <2>3, <2>4, <2>5 DEF Owed
<1>13. SeenKept'
  <2> SUFFICES ASSUME seen # None, NEW s \in Records, Loose(s)' PROVE tally'[s] > seen[SideOf(s)]
    BY <1>2 DEF SeenKept, SideOf
  <2>1. Loose(s) /\ tally'[s] = tally[s]
    BY <1>10
  <2>2. QED BY <2>1, <1>1, <1>2 DEF SeenKept, Phases, Moving, InPass
<1>14. PassKeeps' /\ SettleKeeps' /\ ProbeKept'
  BY <1>2 DEF PassKeeps, SettleKeeps, ProbeKept, Moving, InPass
<1>15. QED BY <1>6, <1>8, <1>9, <1>12, <1>13, <1>14 DEF IInv, Keeps

-----------------------------------------------------------------------------
(* The theorems *)

\* Every step of the agent, of Tally's users and of what goes wrong preserves the invariant.
LEMMA Steps == IInv /\ [Next]_vars => IInv'
<1> SUFFICES ASSUME IInv, [Next]_vars PROVE IInv'
  OBVIOUS
<1>1. CASE AgentStep
  BY <1>1, StartUpKeeps, StartWithoutTallyKeeps, IncrementalPassKeeps, ExportKeeps, ExportFailsKeeps,
     ExportsDoneKeeps, PushKeeps, PushFailsKeeps, PushRefusedKeeps, PushesDoneKeeps, OwePlanKeeps,
     CarryOnKeeps, PlanRangesKeeps, PlanUnansweredKeeps, FewVouchersKeeps, ExportRangeKeeps,
     ExportRangeFailsKeeps, RangesUnsupportedKeeps, PushRangeKeeps, PushRangeFailsKeeps,
     RangesDoneKeeps, SettleKeepsAll DEF AgentStep
<1>2. CASE ForcedPass
  BY <1>2, ForcedPassKeeps
<1>3. CASE PassRaises
  BY <1>3, PassRaisesKeeps
<1>4. CASE Crash
  BY <1>4, CrashKeeps
<1>5. CASE \E r \in Records : Edit(r) \/ WriteBack(r)
  BY <1>5, EditKeeps, WriteBackKeeps
<1>6. CASE UNCHANGED vars
  <2>1. /\ UNCHANGED <<tally, counters, server, floor, cursor, seen, rangesWork, pc>>
        /\ UNCHANGED <<pass, todo, out, trouble, gap, faults>>
    BY <1>6 DEF vars, agentVars
  <2>2. TypeOK' /\ Numbers' /\ Phases'
    <3>1. TypeOK /\ Numbers /\ Phases
      BY DEF IInv
    <3>2. TypeOK'
      BY <2>1, <3>1 DEF TypeOK
    <3>3. Numbers'
      BY <2>1, <3>1 DEF Numbers, Held, SideOf
    <3>4. Phases'
      BY <2>1, <3>1 DEF Phases, Moving, InPass, InRange, MoreRanges
    <3>5. QED BY <3>2, <3>3, <3>4
  <2>3. \A r \in Records : /\ Loose(r)' <=> Loose(r)
                           /\ Owed(r)' <=> Owed(r)
                           /\ OnCursor(r)' <=> OnCursor(r)
                           /\ ToCome(r)' <=> ToCome(r)
                           /\ InHand(r)' <=> InHand(r)
                           /\ RangePending(r)' <=> RangePending(r)
                           /\ High(r)' <=> High(r)
                           /\ Marked(r)' <=> Marked(r)
    BY <2>1 DEF Loose, Behind, Owed, NextMin, Watermarks, OnCursor, ToCome, MinAlter, InHand, Held,
                RangePending, High, CycleMin, Marked
  <2>4. (Failed' <=> Failed) /\ (Moving' <=> Moving) /\ (InPass' <=> InPass) /\ Watermarks' = Watermarks
        /\ \A r \in Records : SideOf(r)' = SideOf(r)
    BY <2>1 DEF Failed, Moving, InPass, Watermarks, SideOf
  <2>5. NotLost' /\ PassKeeps' /\ SettleKeeps' /\ SeenKept' /\ ProbeKept'
    <3>1. NotLost /\ PassKeeps /\ SettleKeeps /\ SeenKept /\ ProbeKept
      BY DEF IInv, Keeps
    <3>2. NotLost'
      BY <2>3, <2>4, <3>1 DEF NotLost
    <3>3. PassKeeps'
      BY <2>3, <2>4, <3>1 DEF PassKeeps
    <3>4. SettleKeeps'
      BY <2>1, <2>3, <2>4, <3>1 DEF SettleKeeps
    <3>5. SeenKept'
      BY <2>1, <2>3, <2>4, <3>1 DEF SeenKept
    <3>6. ProbeKept'
      BY <2>1, <2>3, <2>4, <3>1 DEF ProbeKept
    <3>7. QED BY <3>2, <3>3, <3>4, <3>5, <3>6
  <2>6. QED BY <2>2, <2>5 DEF IInv, Keeps
<1>7. QED BY <1>1, <1>2, <1>3, <1>4, <1>5, <1>6 DEF Next

\* The invariant holds in every state the agent, the portal and Tally can reach.
THEOREM Invariance == Spec => []IInv
<1>1. Init => IInv
  BY Initially
<1>2. IInv /\ [Next]_vars => IInv'
  BY Steps
<1>3. QED BY <1>1, <1>2, PTL DEF Spec

\* Every variable keeps its type: the counters, the portal's numbers, the retry point, the
\* cursor of a full sync and what a pass holds (agent.py, _sync_inbound_company).
THEOREM TypeCorrect == Spec => []TypeOK
<1>1. IInv => TypeOK
  BY DEF IInv
<1>2. QED BY <1>1, Invariance, PTL

\* A change made in Tally is never lost: between two passes of the agent, a record the portal
\* is behind on is one the retry point, the watermark or the cursor still brings, the known
\* exceptions apart (agent.py, _update_inbound_retry_floor and _sync_vouchers_in_ranges).
THEOREM NoLostChangeCorrect == Spec => []NoLostChange
<1>1. IInv => NoLostChange
  BY DEF IInv, Keeps, NotLost, NoLostChange, Loose, InPass
<1>2. QED BY <1>1, Invariance, PTL

\* The change counters let the agent skip a pass only when the pass would have brought nothing
\* (agent.py, _note_probe and the probe of _sync_inbound_company).
THEOREM ProbeHidesNothingCorrect == Spec => []ProbeHidesNothing
<1>1. IInv => ProbeHidesNothing
  <2> SUFFICES ASSUME IInv, pc = "idle", seen # None, NEW r \in Records, Loose(r)
               PROVE  seen[SideOf(r)] # counters[SideOf(r)]
    BY DEF ProbeHidesNothing, Loose
  <2>1. TypeOK /\ Numbers /\ SeenKept /\ Phases
    BY DEF IInv, Keeps
  <2>2. tally[r] > seen[SideOf(r)]
    BY <2>1 DEF SeenKept, Phases, Moving, InPass
  <2>3. tally[r] <= counters[SideOf(r)]
    BY <2>1 DEF Numbers
  <2>4. SideOf(r) \in Sides
    BY DEF SideOf, Sides
  <2>5. tally[r] \in 0 .. MaxAlter /\ counters[SideOf(r)] \in 0 .. MaxAlter
        /\ seen[SideOf(r)] \in 0 .. MaxAlter
    BY <2>1, <2>4 DEF TypeOK
  <2>6. QED BY <2>2, <2>3, <2>5, ShapeAssumption
<1>2. QED BY <1>1, Invariance, PTL
=============================================================================
