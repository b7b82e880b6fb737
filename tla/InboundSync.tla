----------------------------- MODULE InboundSync -----------------------------
(***************************************************************************)
(* How a company's changes travel from TallyPrime to the portal: the       *)
(* inbound half of the Desktop Sync Agent                                  *)
(* (src/desktop-sync-agent/agent.py), the exports it asks Tally for        *)
(* (tally_client.py) and what the portal keeps of them                     *)
(* (src/backend/app/routers/sync.py, tally_xml_importer.py).               *)
(*                                                                         *)
(* Tally gives every change the next number of a counter (ALTERID), one    *)
(* counter for masters and one for vouchers.  A pass of the agent asks     *)
(* Tally, one collection after the other, for what is above the highest    *)
(* number the portal holds, uploads each collection, and remembers a retry *)
(* point when something failed.  Tally's users go on working meanwhile.    *)
(*                                                                         *)
(* Kept by the agent on disk: floor, cursor.  In memory: seen, rangesWork  *)
(* and everything about the pass under way.  `gap` is a history variable:  *)
(* why a record's last change may be out of reach of the next pass.        *)
(* Versions are compared by their AlterIDs, as the code does: a record     *)
(* whose import raised after its AlterID was set counts as held.           *)
(***************************************************************************)
EXTENDS Integers, FiniteSets, FiniteSetsExt

CONSTANTS
  Records,      \* the objects of one Tally company
  Masters,      \* the number of master collections; Masters + 1 is Vouchers
  Coll,         \* Coll[r]: the collection r is exported in
  Unfiltered,   \* collections Tally exports without an ALTERID filter
  Apart,        \* collections the portal imports record by record: a record whose
                \* import raises is left out, and the upload's answer is still "ok"
  Ranges,       \* the number of date ranges a full sync's vouchers are cut in
  RangeOf,      \* RangeOf[r]: the range voucher r is dated in
  MaxAlter,     \* bound: the highest value of either change counter
  MaxFaults,    \* bound: exports, uploads, answers that fail, restarts
  None

Collections == 1 .. Masters + 1
VouchersColl == Masters + 1
Vouchers == {r \in Records : Coll[r] = VouchersColl}
MasterRecords == Records \ Vouchers
Sides == {"masters", "vouchers"}

ASSUME ShapeAssumption ==
  /\ Masters \in Nat /\ Ranges \in Nat \ {0}
  /\ IsFiniteSet(Records)
  /\ Coll \in [Records -> Collections]
  /\ RangeOf \in [Records -> 1 .. Ranges]
  /\ Unfiltered \subseteq 1 .. Masters /\ Apart \subseteq Collections
  /\ MaxAlter \in Nat /\ MaxFaults \in Nat
  /\ Cardinality(MasterRecords) <= MaxAlter /\ Cardinality(Vouchers) <= MaxAlter
  /\ None \notin Nat \cup [Sides -> 0 .. MaxAlter]
                     \cup [planned : BOOLEAN, next : 1 .. Ranges + 1, force : BOOLEAN]

VARIABLES
  tally,      \* tally[r]: the ALTERID of r in Tally
  counters,   \* ALTMSTID and ALTVCHID, the company's change counters in Tally
  server,     \* server[r]: the tally_alter_id of the portal's copy, 0 if none
  floor,      \* inbound_retry_floors[company], on disk
  cursor,     \* full_sync_cursors[company], on disk
  seen,       \* _probe_seen[company]
  rangesWork, \* _voucher_ranges_work is not False
  pc,         \* "off" | "idle" | "export" | "push" | "plan" | "range" |
              \* "rangePush" | "settle"
  pass,       \* what was decided when the pass began
  todo,       \* the collections the pass still has to export
  out,        \* exported and not yet uploaded: collection -> (record -> ALTERID)
  trouble,    \* what went wrong in this pass: "export", "push", "range"
  gap,        \* history, see above
  faults      \* how many of MaxFaults have happened

agentVars == <<floor, cursor, seen, rangesWork, pc, pass, todo, out, trouble>>
vars == <<tally, counters, server, agentVars, gap, faults>>

SideOf(r) == IF r \in Vouchers THEN "vouchers" ELSE "masters"
Leaks == {"edited", "interrupted", "dropped", "skipped", "overtaken", "rejected"}
NoPass == [inc |-> FALSE, force |-> FALSE, ranged |-> FALSE, whole |-> FALSE,
           minM |-> 0, minV |-> 0, probe |-> None, sides |-> {}]
Nothing == [c \in {} |-> None]

Highest(f, S) == Max({0} \cup {f[r] : r \in S})
Lesser(a, b) == IF a < b THEN a ELSE b

\* GET /sync/last-alter-id: the highest AlterID over all the master tables,
\* and over the vouchers
Watermarks == [masters |-> Highest(server, MasterRecords),
               vouchers |-> Highest(server, Vouchers)]

TypeOK ==
  /\ tally \in [Records -> 0 .. MaxAlter]
  /\ counters \in [Sides -> 0 .. MaxAlter]
  /\ server \in [Records -> 0 .. MaxAlter]
  /\ floor \in (0 .. MaxAlter) \cup {None}
  /\ cursor \in [planned : BOOLEAN, next : 1 .. Ranges + 1, force : BOOLEAN] \cup {None}
  /\ seen \in [Sides -> 0 .. MaxAlter] \cup {None}
  /\ rangesWork \in BOOLEAN
  /\ pc \in {"off", "idle", "export", "push", "plan", "range", "rangePush", "settle"}
  /\ pass \in [inc : BOOLEAN, force : BOOLEAN, ranged : BOOLEAN, whole : BOOLEAN,
               minM : 0 .. MaxAlter, minV : 0 .. MaxAlter,
               probe : [Sides -> 0 .. MaxAlter] \cup {None}, sides : SUBSET Sides]
  /\ todo \subseteq Collections
  /\ DOMAIN out \subseteq Collections
  /\ \A c \in DOMAIN out : DOMAIN out[c] \subseteq {r \in Records : Coll[r] = c}
  /\ trouble \subseteq {"export", "push", "range"}
  /\ gap \in [Records -> SUBSET Leaks]
  /\ faults \in 0 .. MaxFaults

\* The agent is installed beside a Tally company that has a history.
Init ==
  /\ tally \in [Records -> 1 .. Max({Cardinality(MasterRecords), Cardinality(Vouchers)})]
  /\ \A r, s \in Records : r # s /\ SideOf(r) = SideOf(s) => tally[r] # tally[s]
  /\ counters = [s \in Sides |-> Highest(tally, {r \in Records : SideOf(r) = s})]
  /\ server = [r \in Records |-> 0]
  /\ floor = None /\ cursor = None /\ seen = None /\ rangesWork = TRUE
  /\ pc = "off" /\ pass = NoPass /\ todo = {} /\ out = Nothing /\ trouble = {}
  /\ gap = [r \in Records |-> {}]
  /\ faults = 0

-----------------------------------------------------------------------------
Behind(r) == server[r] # tally[r]

\* One of the bounded number of things that go wrong.
Fault == faults < MaxFaults /\ faults' = faults + 1
NoFault == UNCHANGED faults

\* Vouchers of ranges the plan c is past.
DoneRanges(c) == IF c = None THEN {} ELSE {r \in Vouchers : RangeOf[r] < c.next}

Mark(S, why) == [r \in Records |-> IF r \in S THEN gap[r] \cup {why} ELSE gap[r]]
Clear(S) == [r \in Records |-> IF r \in S THEN {} ELSE gap[r]]

\* The portal keeps a record of an upload unless it holds the same or a later
\* version; a forced upload always overwrites.
Import(f, taken, force) ==
  server' = [r \in Records |->
               IF r \in taken /\ (force \/ f[r] > server[r]) THEN f[r] ELSE server[r]]

\* Of the records of f not taken: what the portal should have taken.
Rejected(f, taken) == {r \in DOMAIN f \ taken : server[r] < f[r] /\ f[r] = tally[r]}

\* An upload of f, all of collection c that was exported, is answered "ok".  A
\* record the portal could not import is named in the answer, reported and not
\* asked for again (_push_collections; a range does not even look).
Arrives(c, f, force) ==
  \/ /\ Import(f, DOMAIN f, force)
     /\ UNCHANGED gap
     /\ NoFault
  \/ /\ c \in Apart
     /\ \E taken \in SUBSET DOMAIN f \ {DOMAIN f} :
          /\ Import(f, taken, force)
          /\ gap' = Mark(Rejected(f, taken), "rejected")
     /\ Fault

\* What a pass exports by collection, decided by the probe (sides), by the
\* missing ALTERID filter and by vouchers that come in date ranges instead.
PassCollections(p) ==
  {c \in Collections :
     IF c = VouchersColl
     THEN IF p.inc THEN "vouchers" \in p.sides ELSE ~p.ranged
     ELSE "masters" \in p.sides /\ (p.minM > 0 => c \notin Unfiltered)}

\* The first half of _sync_inbound_company.  wm is what the portal answered,
\* (0, 0) when it did not; a probe is asked only when nothing is owed, and may
\* go unanswered; due: the safety pass is due.
BeginPass(wanted, force, wm, answered, due) ==
  LET inc    == wanted /\ ~force /\ ~(rangesWork /\ floor = 0)
      kept   == IF force THEN None ELSE cursor
      minOf(s) == IF ~inc THEN 0
                  ELSE IF floor = None THEN wm[s] ELSE Lesser(floor, wm[s])
      probe  == IF inc /\ floor = None /\ kept = None /\ answered
                THEN counters ELSE None
      sides  == IF probe # None /\ seen # None /\ ~due
                THEN {s \in Sides : probe[s] # seen[s]} ELSE Sides
      p      == [inc |-> inc, force |-> force, whole |-> FALSE,
                 ranged |-> rangesWork /\ (~inc \/ kept # None),
                 minM |-> minOf("masters"), minV |-> minOf("vouchers"),
                 probe |-> probe, sides |-> sides]
  IN /\ sides # {}      \* otherwise the pass ends here and changes nothing
     /\ pass' = p
     /\ todo' = PassCollections(p)
     /\ cursor' = kept
     /\ pc' = "export"
     /\ out' = Nothing /\ trouble' = {}
     \* a full pass goes on with the ranges left and asks for no other voucher
     /\ gap' = IF p.ranged /\ ~inc
               THEN Mark({r \in DoneRanges(kept) : Behind(r)}, "skipped") ELSE gap
     /\ UNCHANGED <<tally, counters, server, floor, seen, rangesWork>>

Zero == [s \in Sides |-> 0]

\* The daemon starts: its first pass is a full one.
StartUp ==
  /\ pc = "off"
  /\ BeginPass(FALSE, FALSE, Zero, FALSE, FALSE)
  /\ NoFault

\* The daemon starts while Tally is closed or not reachable, or the agent is
\* paused or signed out: no first pass.
StartWithoutTally ==
  /\ pc = "off"
  /\ pc' = "idle"
  /\ UNCHANGED <<tally, counters, server, floor, cursor, seen, rangesWork, pass, todo, out,
                 trouble, gap>>
  /\ NoFault

\* The periodic pass of the daemon loop.
IncrementalPass ==
  /\ pc = "idle"
  /\ \E answered, due \in BOOLEAN :
       \/ BeginPass(TRUE, FALSE, Watermarks, answered, due) /\ NoFault
       \/ BeginPass(TRUE, FALSE, Zero, answered, due) /\ Fault

\* "Full re-sync" was pressed.
ForcedPass ==
  /\ pc = "idle"
  /\ BeginPass(FALSE, TRUE, Zero, FALSE, FALSE)
  /\ Fault

-----------------------------------------------------------------------------
\* export_full_collections: one collection after the other.
MinAlter(c) ==
  IF c \in Unfiltered THEN 0
  ELSE IF c # VouchersColl THEN pass.minM
  ELSE IF pass.whole THEN 0 ELSE pass.minV

ExportOf(c) == [r \in {r \in Records : Coll[r] = c /\ tally[r] > MinAlter(c)} |-> tally[r]]

NextExport == Min(todo)

Export ==
  /\ pc = "export" /\ todo # {}
  /\ LET f == ExportOf(NextExport)
     IN /\ out' = IF DOMAIN f = {} THEN out
                  ELSE [c \in DOMAIN out \cup {NextExport} |->
                          IF c = NextExport THEN f ELSE out[c]]
        /\ gap' = Clear(DOMAIN f)
  /\ todo' = todo \ {NextExport}
  /\ UNCHANGED <<tally, counters, server, floor, cursor, seen, rangesWork, pc, pass, trouble>>
  /\ NoFault

ExportFails ==
  /\ pc = "export" /\ todo # {}
  /\ todo' = todo \ {NextExport}
  /\ trouble' = trouble \cup {"export"}
  /\ UNCHANGED <<tally, counters, server, floor, cursor, seen, rangesWork, pc, pass, out, gap>>
  /\ Fault

ExportsDone ==
  /\ pc = "export" /\ todo = {}
  /\ pc' = "push"
  /\ UNCHANGED <<tally, counters, server, floor, cursor, seen, rangesWork, pass, todo, out,
                 trouble, gap>>
  /\ NoFault

\* _push_collections.
NextPush == Min(DOMAIN out)
Without(c) == [d \in DOMAIN out \ {c} |-> out[d]]

Push ==
  /\ pc = "push" /\ DOMAIN out # {}
  /\ Arrives(NextPush, out[NextPush], pass.force)
  /\ out' = Without(NextPush)
  /\ UNCHANGED <<tally, counters, floor, cursor, seen, rangesWork, pc, pass, todo, trouble>>

\* The upload failed, or its answer was lost: the portal kept some of it, all
\* of it or nothing.  The pass goes on with the next collection.
PushFails ==
  /\ pc = "push" /\ DOMAIN out # {}
  /\ \E taken \in SUBSET DOMAIN out[NextPush] :
       Import(out[NextPush], taken, pass.force)
  /\ out' = Without(NextPush)
  /\ trouble' = trouble \cup {"push"}
  /\ UNCHANGED <<tally, counters, floor, cursor, seen, rangesWork, pc, pass, todo, gap>>
  /\ Fault

\* The server is busy with an earlier import, or the subscription expired:
\* the rest is not sent.
PushRefused ==
  /\ pc = "push" /\ DOMAIN out # {}
  /\ out' = Nothing
  /\ trouble' = trouble \cup {"push"}
  /\ UNCHANGED <<tally, counters, server, floor, cursor, seen, rangesWork, pc, pass, todo, gap>>
  /\ Fault

PushesDone ==
  /\ pc = "push" /\ DOMAIN out = {}
  /\ pc' = IF pass.ranged /\ trouble = {} THEN "plan" ELSE "settle"
  /\ UNCHANGED <<tally, counters, server, floor, cursor, seen, rangesWork, pass, todo, out,
                 trouble, gap>>
  /\ NoFault

-----------------------------------------------------------------------------
\* _sync_vouchers_in_ranges, its start: the full sync is written down as owed
\* before anything is asked of Tally.
OwePlan ==
  /\ pc = "plan" /\ cursor = None
  /\ cursor' = [planned |-> FALSE, next |-> 1, force |-> pass.force]
  /\ UNCHANGED <<tally, counters, server, floor, seen, rangesWork, pc, pass, todo, out,
                 trouble, gap>>
  /\ NoFault

\* A plan is made when there is none, or the one there is is too old.
Replanned == cursor # None /\ IF cursor.planned THEN Fault ELSE NoFault

CarryOn ==
  /\ pc = "plan" /\ cursor # None /\ cursor.planned
  /\ pc' = "range"
  /\ UNCHANGED <<tally, counters, server, floor, cursor, seen, rangesWork, pass, todo, out,
                 trouble, gap>>
  /\ NoFault

PlanRanges ==
  /\ pc = "plan" /\ Replanned
  /\ cursor' = [planned |-> TRUE, next |-> 1, force |-> cursor.force]
  /\ pc' = "range"
  /\ UNCHANGED <<tally, counters, server, floor, seen, rangesWork, pass, todo, out, trouble, gap>>

\* Tally did not list its vouchers: the full sync stays owed.
PlanUnanswered ==
  /\ pc = "plan" /\ cursor # None
  /\ trouble' = trouble \cup {"range"}
  /\ pc' = "settle"
  /\ UNCHANGED <<tally, counters, server, floor, cursor, seen, rangesWork, pass, todo, out, gap>>
  /\ Fault

\* The vouchers are exported in one go instead; the cursor goes first.
InOneGo ==
  /\ cursor' = None
  /\ pass' = [pass EXCEPT !.ranged = FALSE, !.whole = TRUE]
  /\ todo' = {VouchersColl}
  /\ pc' = "export"

FewVouchers ==
  /\ pc = "plan" /\ Replanned
  /\ InOneGo
  /\ UNCHANGED <<tally, counters, server, floor, seen, rangesWork, out, trouble, gap>>

\* The vouchers of the next range.
InRange == {r \in Vouchers : RangeOf[r] = cursor.next}

\* Mutant: the loop over the ranges has no end.
AlwaysMoreRanges == TRUE

MoreRanges == cursor.next <= Ranges

ExportRange ==
  /\ pc = "range" /\ MoreRanges
  /\ out' = [c \in {VouchersColl} |-> [r \in InRange |-> tally[r]]]
  /\ gap' = Clear(InRange)
  /\ pc' = "rangePush"
  /\ UNCHANGED <<tally, counters, server, floor, cursor, seen, rangesWork, pass, todo, trouble>>
  /\ NoFault

ExportRangeFails ==
  /\ pc = "range" /\ MoreRanges
  /\ trouble' = trouble \cup {"range"}
  /\ pc' = "settle"
  /\ UNCHANGED <<tally, counters, server, floor, cursor, seen, rangesWork, pass, todo, out, gap>>
  /\ Fault

\* This Tally does not honour a date range.
RangesUnsupported ==
  /\ pc = "range" /\ MoreRanges
  /\ rangesWork' = FALSE
  /\ InOneGo
  /\ UNCHANGED <<tally, counters, server, floor, seen, out, trouble, gap>>
  /\ Fault

\* The position is saved after each range; a slice ends at its deadline.
PushRange ==
  /\ pc = "rangePush"
  /\ Arrives(VouchersColl, out[VouchersColl], cursor.force)
  /\ out' = Nothing
  /\ cursor' = [cursor EXCEPT !.next = @ + 1]
  /\ pc' \in IF cursor.next < Ranges THEN {"range", "settle"} ELSE {"range"}
  /\ UNCHANGED <<tally, counters, floor, seen, rangesWork, pass, todo, trouble>>

\* The last range is behind us: the full sync is done.
RangesDone ==
  /\ pc = "range" /\ ~MoreRanges
  /\ cursor' = None
  /\ pc' = "settle"
  /\ UNCHANGED <<tally, counters, server, floor, seen, rangesWork, pass, todo, out, trouble, gap>>
  /\ NoFault

PushRangeFails ==
  /\ pc = "rangePush"
  /\ \E taken \in SUBSET DOMAIN out[VouchersColl] :
       Import(out[VouchersColl], taken, cursor.force)
  /\ out' = Nothing
  /\ trouble' = trouble \cup {"range"}
  /\ pc' = "settle"
  /\ UNCHANGED <<tally, counters, floor, cursor, seen, rangesWork, pass, todo, gap>>
  /\ Fault

-----------------------------------------------------------------------------
\* The end of the pass: _update_inbound_retry_floor and _note_probe.
CycleMin == IF pass.inc THEN Lesser(pass.minM, pass.minV) ELSE 0

\* Mutant: a failed pass leaves no retry point.
NoFloor == None

NextFloor ==
  IF trouble \cap {"export", "push"} = {} THEN None
  ELSE IF floor = None THEN CycleMin ELSE Lesser(floor, CycleMin)

\* Mutant: the counters are read at the end of the pass.
SeenAtTheEnd ==
  IF trouble # {} THEN None
  ELSE IF pass.probe # None THEN counters
  ELSE IF pass.inc THEN None ELSE seen

NextSeen ==
  IF trouble # {} THEN None
  ELSE IF pass.probe # None THEN pass.probe
  ELSE IF pass.inc THEN None ELSE seen

Settle ==
  /\ pc = "settle"
  /\ floor' = NextFloor
  /\ seen' = NextSeen
  /\ pc' = "idle"
  /\ pass' = NoPass /\ trouble' = {}
  \* the cursor went, what it stood for did not arrive, and the retry point is above it
  /\ gap' = IF pass.whole /\ pass.inc /\ trouble # {}
            THEN Mark({r \in Vouchers : Behind(r) /\ tally[r] <= CycleMin}, "dropped") ELSE gap
  /\ UNCHANGED <<tally, counters, server, cursor, rangesWork, todo, out>>
  /\ NoFault

InPass == pc \notin {"off", "idle"}

\* No watermark and no change counter shows that r has changed.
Hidden(r) == \/ tally[r] <= Watermarks[SideOf(r)]
             \/ seen # None /\ tally[r] <= seen[SideOf(r)]

\* The pass ends where it stands; nothing is written down about it.
Interrupt ==
  /\ gap' = IF InPass THEN Mark({r \in Records : Behind(r) /\ Hidden(r)}, "interrupted")
            ELSE gap
  /\ pass' = NoPass /\ todo' = {} /\ out' = Nothing /\ trouble' = {}
  /\ UNCHANGED <<tally, counters, server, floor, cursor>>

\* An exception in the pass: the loop logs it and goes on.
PassRaises ==
  /\ InPass
  /\ Interrupt
  /\ pc' = "idle"
  /\ UNCHANGED <<seen, rangesWork>>
  /\ Fault

\* The agent's process ends (a power cut, a restart of the PC).
Crash ==
  /\ pc # "off"
  /\ Interrupt
  /\ pc' = "off"
  /\ seen' = None /\ rangesWork' = TRUE
  /\ Fault

-----------------------------------------------------------------------------
NextAlter(r) == counters[SideOf(r)] + 1

\* Tally gives the change of r the next number of its side's counter.
Alter(r) ==
  /\ NextAlter(r) <= MaxAlter
  /\ tally' = [tally EXCEPT ![r] = NextAlter(r)]
  /\ counters' = [counters EXCEPT ![SideOf(r)] = NextAlter(r)]

\* A later range of this pass still brings r.
RangePending(r) ==
  /\ r \in Vouchers /\ pass.ranged
  /\ \/ pc \in {"export", "push", "plan", "range"}
        /\ (cursor # None /\ cursor.planned => RangeOf[r] >= cursor.next)
     \/ pc = "rangePush" /\ RangeOf[r] > cursor.next

\* The pass has been past r already, and goes on.
Passed(r) ==
  /\ InPass /\ pc # "settle"
  /\ Coll[r] \notin todo /\ ~RangePending(r)

\* A user of Tally changes r: a new last change, whatever became of the one before.
Edit(r) ==
  /\ Alter(r)
  /\ gap' = [gap EXCEPT ![r] = IF Passed(r) THEN {"edited"} ELSE {}]
  /\ UNCHANGED <<server, agentVars, faults>>

\* A bank reconciliation is written back to voucher r: the agent changes r in
\* Tally, and the portal takes over the AlterID Tally gave that change.
WriteBack(r) ==
  /\ pc = "idle" /\ r \in Vouchers /\ ~Behind(r)
  /\ Alter(r)
  /\ server' = [server EXCEPT ![r] = NextAlter(r)]
  /\ gap' = Mark({s \in Vouchers : Behind(s)}, "overtaken")
  /\ UNCHANGED <<agentVars, faults>>

AgentStep ==
  \/ StartUp \/ StartWithoutTally \/ IncrementalPass
  \/ Export \/ ExportFails \/ ExportsDone
  \/ Push \/ PushFails \/ PushRefused \/ PushesDone
  \/ OwePlan \/ CarryOn \/ PlanRanges \/ PlanUnanswered \/ FewVouchers
  \/ ExportRange \/ ExportRangeFails \/ RangesUnsupported
  \/ PushRange \/ PushRangeFails \/ RangesDone \/ Settle

Next ==
  \/ AgentStep \/ ForcedPass \/ PassRaises \/ Crash
  \/ \E r \in Records : Edit(r) \/ WriteBack(r)

Spec == Init /\ [][Next]_vars

\* The daemon's loop never stops: it takes its next step, starts again after
\* a crash, and begins a pass whenever none is under way (its safety pass
\* included).  Nobody has to press a button or to change anything.
FairSpec == Spec /\ WF_vars(AgentStep)

-----------------------------------------------------------------------------
\* What the next incremental pass will ask Tally for (line 1012-1013).
NextMin(s) == IF floor = None THEN Watermarks[s] ELSE Lesser(floor, Watermarks[s])

\* The next pass, or the next slices of the full sync under way, bring r.
Owed(r) ==
  \/ tally[r] > NextMin(SideOf(r))
  \/ r \in Vouchers /\ cursor # None /\ (~cursor.planned \/ RangeOf[r] >= cursor.next)

\* A change made in Tally is never lost: between two passes, a record the
\* portal is behind on is one the agent is still going to ask Tally for,
\* unless one of six known things happened to its last change: the change was
\* made after the same pass had been past it; its pass was cut off when a
\* higher number had been stored or seen; a full sync's position was dropped
\* and the retry point is above the change; a full pass went on past its range;
\* a written-back voucher overtook it; or the portal rejected it inside an
\* upload it answered "ok" (agent.py 1257-1262, tally_xml_importer.py 3151).
NoLostChange ==
  pc = "idle" =>
    \A r \in Records :
      Behind(r) /\ Coll[r] \notin Unfiltered => Owed(r) \/ gap[r] # {}

\* When Tally's change counters stand where the agent last saw them and
\* nothing is owed, the pass that is then skipped would have brought nothing
\* (lines 1022-1040), the six exceptions of NoLostChange apart: a pass with
\* rejected records is a clean one, and its counters are remembered.
ProbeHidesNothing ==
  pc = "idle" /\ floor = None /\ cursor = None /\ seen # None =>
    \A r \in Records :
      Behind(r) /\ Coll[r] \notin Unfiltered /\ gap[r] = {} =>
        seen[SideOf(r)] # counters[SideOf(r)]

\* Once the faults are over and Tally's users rest, the portal holds every
\* record as it is in Tally, the exceptions of NoLostChange apart.
EventuallyCaughtUp ==
  \A r \in Records :
    <>[](Behind(r) => gap[r] # {} \/ Coll[r] \in Unfiltered)

\* "a change made during them is then seen next cycle" (_note_probe).
ChangeDuringPassIsSeen ==
  pc = "idle" =>
    \A r \in Records :
      Behind(r) /\ Coll[r] \notin Unfiltered /\ gap[r] = {"edited"} => Owed(r)
=============================================================================
