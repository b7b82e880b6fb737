------------------------ MODULE OutboundQueueProofs -------------------------
(***************************************************************************)
(* What the outbound queue guarantees for any number of vouchers, changes  *)
(* and faults: Tally holds a voucher once, and nothing is lost on the way. *)
(***************************************************************************)
EXTENDS OutboundQueue, SequenceTheorems, FiniteSetTheorems, TLAPS

\* Whether place m is v's: it was sent as v, or v was made from it.
At(m, v) == tally[m].of = v \/ m = v
Of(v) == {m \in MasterIds : At(m, v)}
TasksOf(v) == {t \in agent.batch : t.v = v}
Pulled == DOMAIN agent.pulled

\* Whether there is or was a voucher v.
Lived(v) == vch[v] # None \/ audit[v] # None

\* Rows of v that are still to be sent, or have been sent without success.
Unsent(v) == {row \in Pending(v) : row.id \notin agent.sent}

-----------------------------------------------------------------------------
(* Where things are *)

\* What the agent holds it holds only in the phase it is for.
Phases ==
  /\ agent.batch # {} => agent.pc = "send"
  /\ agent.sent # {} => agent.pc \in {"send", "ack"}
  /\ agent.idents # {} => agent.pc \in {"send", "ack", "report"}
  /\ Pulled # {} => agent.pc = "import"

\* Tally has a voucher users made at one place, gone or not.
OnePlace ==
  \A m, n \in MasterIds : tally[m].of \in Vouchers /\ tally[m].of = tally[n].of => m = n

\* Only an orphaned voucher is written to a place of its own.
Offspring == \A m \in MasterIds : tally[m].of \in Made => Orphaned(tally[m].of)

\* Of a voucher that was never made there is nothing.
Begun ==
  \A v \in Ids : ~Lived(v) =>
    /\ TasksOf(v) = {} /\ Pending(v) = {} /\ deleting[v] = None
    /\ \A i \in agent.idents : i.v # v
    /\ \A m \in MasterIds : tally[m].of # v

\* Deletes are of deleted vouchers, and come alone.
Deletes ==
  /\ \A row \in queue : row.action = "Delete" => vch[row.v] = None
  /\ \A t \in agent.batch : t.send = "Delete" =>
        vch[t.v] = None /\ \A u \in TasksOf(t.v) : u.send = "Delete"

\* What is gone in Tally was deleted in the portal, and who sent it does not write again.
GoneForGood ==
  \A m \in MasterIds : tally[m].gone =>
     /\ ~tally[m].news
     /\ tally[m].of \in Vouchers =>
          vch[tally[m].of] = None /\ \A t \in TasksOf(tally[m].of) : t.send # "Write"

\* A master id names the voucher it was given for.
Named(ident, v) == ident.master # 0 => At(ident.master, v)
Addresses ==
  /\ \A v \in Ids : /\ vch[v] # None => Named(vch[v], v)
                    /\ deleting[v] # None => Named(deleting[v], v)
  /\ \A row \in queue : Named(row, row.v)
  /\ \A t \in agent.batch : Named(t, t.v)
  /\ \A i \in agent.idents : Named(i, i.v)

\* A task is what its row says; what is written can be found again.
Tasks ==
  \A t \in agent.batch :
    /\ \A row \in queue : row.id = t.row =>
         /\ row.v = t.v /\ row.action = t.queued
         /\ t.send = "Delete" => row.master = t.master /\ row.remote = t.remote
    /\ t.send = IF t.queued \in {"Create", "Alter"} THEN "Write" ELSE t.queued
    /\ t.send = "Write" => t.text \in Texts /\ (t.master # 0 \/ t.remote)
    /\ vch[t.v] # None => /\ t.master = vch[t.v].master
                          /\ vch[t.v].master # 0 \/ vch[t.v].remote

\* A voucher that Tally has can be named by the portal.
Reachable ==
  \A m \in MasterIds : LET v == tally[m].of IN
    vch[v] # None => vch[v].master # 0 \/ vch[v].remote

\* Until it is pulled, its place is news.
NewsFirst ==
  \A m \in MasterIds : LET v == tally[m].of IN
    vch[v] # None /\ vch[v].master = 0 => tally[m].news \/ m \in Pulled

\* What was pulled is there, and is what Tally says, or there is news again.
PulledIsTrue ==
  \A m \in Pulled :
    /\ ~tally[m].gone
    /\ agent.pulled[m].of = tally[m].of
    /\ ~tally[m].news => /\ agent.pulled[m].text = tally[m].text
                         /\ agent.pulled[m].cancelled = tally[m].cancelled
-----------------------------------------------------------------------------
(* Who made a place and who was made from it *)

\* A deleted voucher is no more, and its GUID was its own.
AuditTrue ==
  \A v \in Ids : audit[v] # None => vch[v] = None /\ (audit[v] # 0 => At(audit[v], v))

\* A voucher was made from a place whose sender is gone, or has moved on from it.
MadeFrom ==
  \A w \in Made : Lived(w) =>
    /\ w \in MasterIds
    /\ LET x == tally[w].of IN
       /\ vch[x] # None => /\ x \in Made /\ vch[x].master # w
                           /\ deleting[x] # None => deleting[x].master # w
       /\ \A t \in TasksOf(x) : t.send = "Delete" \/ (x \in Made /\ t.master \notin {0, w})
       /\ \A i \in agent.idents : i.v # x \/ i.master # w

\* It has its master id from the start.
MadeAddressed ==
  \A w \in Made :
    /\ audit[w] # 0
    /\ vch[w] # None => vch[w].master # 0
    /\ deleting[w] # None => deleting[w].master # 0
    /\ \A row \in Pending(w) : row.action = "Delete" => row.master # 0
    /\ \A t \in TasksOf(w) : t.master # 0

\* A delete in progress has read the master id, or one whose place is gone.
Stale ==
  \A v \in Ids :
    vch[v] # None /\ deleting[v] # None /\ deleting[v].master \notin {0, vch[v].master}
      => tally[deleting[v].master].gone

\* An identity that changes the master id is that of a place the voucher was written to
\* because its last one was gone.
Moves ==
  \A i \in agent.idents : vch[i.v] # None /\ i.master # vch[i.v].master =>
    /\ tally[i.master].of = i.v
    /\ vch[i.v].master = 0 \/ tally[vch[i.v].master].gone
-----------------------------------------------------------------------------
(* What is still owed *)

Same(v, m) ==
  /\ tally[m].cancelled = MarkedCancelled(v)
  /\ ~tally[m].cancelled => tally[m].text = vch[v].text

\* A voucher on which the two sides differ waits to be sent or to be pulled.
ChangesOwed ==
  \A v \in Ids : vch[v] # None /\ ~Orphaned(v) =>
    \/ Unsent(v) # {}
    \/ \E m \in Copies(v) : tally[m].news \/ m \in Pulled \/ Same(v, m)

Cancels(v) == {row \in Pending(v) : row.action = "Cancel"}

\* A cancelled voucher is cancelled in Tally and nothing under way revives it, or its
\* cancel waits.
CancelOwed ==
  \A v \in Ids : vch[v] # None /\ vch[v].status = "cancelled" /\ ~Orphaned(v) =>
    \/ \E row \in Cancels(v) : row.id \notin agent.sent
    \/ /\ \E m \in Copies(v) : tally[m].cancelled
       /\ \A t \in TasksOf(v) : t.cancelled

\* While the cancel of a cancelled voucher is under way, all that is sent says so.
CancelTold ==
  \A v \in Ids : vch[v] # None /\ vch[v].status = "cancelled" =>
    \A row \in Cancels(v), t \in agent.batch : t.row = row.id => \A u \in TasksOf(v) : u.cancelled

\* The delete of what Tally has, or is about to be given, waits.
DeleteOwed ==
  \A v \in Ids :
    audit[v] # None /\ v \notin raced /\ ~Orphaned(v)
    /\ (Copies(v) # {} \/ \E t \in TasksOf(v) : t.send = "Write")
      => \E row \in Unsent(v) : row.action = "Delete" /\ (row.master # 0 \/ row.remote)

Places == Phases /\ OnePlace /\ Begun /\ Deletes /\ GoneForGood /\ Addresses /\ Tasks
          /\ Reachable /\ NewsFirst /\ PulledIsTrue
Lives == AuditTrue /\ MadeFrom /\ MadeAddressed /\ Offspring /\ Stale /\ Moves
Owing == ChangesOwed /\ CancelOwed /\ CancelTold /\ DeleteOwed
IInv == TypeOK /\ DeletedStaysDeleted /\ Places /\ Lives /\ Owing
-----------------------------------------------------------------------------
(* Facts about the records *)

\* What TypeOK says, item by item.
LEMMA TypeFacts ==
  ASSUME TypeOK
  PROVE  /\ Len(tally) \in Nat /\ rows \in Nat
         /\ \A m \in MasterIds : tally[m] \in TallyVoucher
         /\ \A v \in Ids : vch[v] # None => vch[v] \in PortalVoucher
         /\ \A v \in Ids : deleting[v] # None => deleting[v] \in Identifiers
         /\ agent.batch \subseteq AgentTask
         /\ agent.sent \subseteq 1 .. rows
         /\ agent.idents \subseteq [v : Ids, master : MasterIds]
         /\ Pulled \subseteq MasterIds
         /\ \A m \in Pulled : agent.pulled[m] \in TallyVoucher
<1>1. Len(tally) \in Nat /\ \A m \in MasterIds : tally[m] \in TallyVoucher
  BY LenProperties, ElementOfSeq DEF TypeOK, MasterIds
<1>2. PICK S \in SUBSET MasterIds : agent.pulled \in [S -> TallyVoucher]
  BY DEF TypeOK
<1>3. Pulled \subseteq MasterIds /\ \A m \in Pulled : agent.pulled[m] \in TallyVoucher
  BY <1>2 DEF Pulled
<1>4. QED BY <1>1, <1>3 DEF TypeOK

\* As Tally gets vouchers and the portal gets rows, what had a type keeps it.
LEMMA Wider ==
  ASSUME TypeOK, Len(tally') \in Nat, Len(tally) <= Len(tally'), rows' \in Nat, rows <= rows'
  PROVE  /\ PortalVoucher \subseteq PortalVoucher' /\ Identifiers \subseteq Identifiers'
         /\ QueueRow \subseteq QueueRow' /\ AgentTask \subseteq AgentTask'
         /\ TallyVoucher' = TallyVoucher /\ MasterIds \subseteq MasterIds'
         /\ 0 .. Len(tally) \subseteq 0 .. Len(tally')
<1>1. Len(tally) \in Nat /\ rows \in Nat
  BY TypeFacts
<1>2. 0 .. Len(tally) \subseteq 0 .. Len(tally') /\ 1 .. rows \subseteq 1 .. rows'
      /\ MasterIds \subseteq MasterIds'
  BY <1>1 DEF MasterIds
<1>3. QED BY <1>2 DEF PortalVoucher, Identifiers, QueueRow, AgentTask, TallyVoucher

\* The identifiers of a voucher are identifiers; None is no record.
LEMMA NoneIsNoRecord ==
  ASSUME TypeOK
  PROVE  None \notin PortalVoucher /\ None \notin Identifiers
<1>1. 0 .. Len(tally) \subseteq Nat
  BY TypeFacts
<1>2. QED BY <1>1, BoundsAssumption DEF PortalVoucher, Identifiers

\* The identifiers taken from a voucher are the voucher's own.
LEMMA IdentType ==
  ASSUME TypeOK, NEW v \in Ids, vch[v] # None
  PROVE  Ident(v) \in Identifiers /\ Ident(v).master = vch[v].master
         /\ Ident(v).remote = vch[v].remote /\ Ident(v) # None
<1>1. vch[v] \in PortalVoucher
  BY TypeFacts
<1>2. QED BY <1>1, NoneIsNoRecord DEF Ident, Identifiers, PortalVoucher
-----------------------------------------------------------------------------
(* Changes made in the portal *)

\* The new row is there, under a number nobody has; the others stay but for those it closes.
LEMMA QueueFacts ==
  ASSUME IInv, NEW v \in Ids, NEW action \in Actions, NEW ident \in Identifiers,
         Queue(v, action, ident), UNCHANGED <<tally, agent>>
  PROVE  /\ rows' = rows + 1 /\ rows' \in Nat /\ rows <= rows'
         /\ NewRow(v, action, ident) \in queue'
         /\ NewRow(v, action, ident) \notin queue
         /\ \A row \in queue' : \/ row = NewRow(v, action, ident)
                                \/ row \in queue /\ ~(row.v = v /\ row.action \in Supersedes(action))
         /\ \A row \in queue : row.v # v \/ row.action \notin Supersedes(action) => row \in queue'
         /\ queue' \subseteq QueueRow'
         /\ \A r, s \in queue' : r.id = s.id => r = s
         /\ rows + 1 \notin agent.sent
         /\ \A t \in agent.batch : t.row # rows + 1
         /\ NewRow(v, action, ident).id = rows + 1 /\ NewRow(v, action, ident).v = v
         /\ NewRow(v, action, ident).action = action
         /\ NewRow(v, action, ident).master = ident.master
         /\ NewRow(v, action, ident).remote = ident.remote
<1> DEFINE new == NewRow(v, action, ident)
<1>1. TypeOK /\ rows \in Nat /\ rows' = rows + 1
  BY TypeFacts DEF IInv, Queue
<1>2. /\ new.id = rows + 1 /\ new.v = v /\ new.action = action
      /\ new.master = ident.master /\ new.remote = ident.remote
  BY DEF NewRow
<1>3. QueueRow \subseteq QueueRow' /\ Identifiers' = Identifiers
  BY <1>1, Wider, TypeFacts DEF Identifiers
<1>4. new \in QueueRow'
  BY <1>1, <1>3 DEF NewRow, QueueRow, Identifiers
<1>5. queue' = {row \in queue : ~(row.v = v /\ row.action \in Supersedes(action))} \cup {new}
  BY DEF Queue, NewRow
<1>6. \A row \in queue : row \in QueueRow /\ row.id \in 1 .. rows
  BY <1>1 DEF TypeOK, QueueRow
<1>7. (\A t \in agent.batch : t.row \in 1 .. rows) /\ agent.sent \subseteq 1 .. rows
  BY <1>1, TypeFacts DEF AgentTask
<1> HIDE DEF new
<1>8. \A r, s \in queue' : r.id = s.id => r = s
  BY <1>1, <1>2, <1>5, <1>6 DEF TypeOK
<1>9. new \notin queue /\ rows + 1 \notin 1 .. rows
  BY <1>1, <1>2, <1>6
<1>10. queue' \subseteq QueueRow'
  BY <1>3, <1>4, <1>5, <1>6
<1>11. (\A t \in agent.batch : t.row # rows + 1) /\ rows + 1 \notin agent.sent
  BY <1>7, <1>9
<1>12. /\ new \in queue'
       /\ \A row \in queue' : row = new \/ (row \in queue /\ ~(row.v = v /\ row.action \in Supersedes(action)))
       /\ \A row \in queue : row.v # v \/ row.action \notin Supersedes(action) => row \in queue'
  BY <1>5
<1>13. QED BY <1>1, <1>2, <1>8, <1>9, <1>10, <1>11, <1>12 DEF new

\* The types, when only the portal's side changes.
LEMMA PortalTypes ==
  ASSUME IInv, UNCHANGED <<tally, agent, tallyEdits, faults>>, rows' \in Nat, rows <= rows',
         vch' \in [Ids -> PortalVoucher \cup {None}],
         audit' \in [Ids -> {None} \cup 0 .. Len(tally)],
         queue' \subseteq QueueRow', \A r, s \in queue' : r.id = s.id => r = s,
         deleting' \in [Ids -> Identifiers \cup {None}], changes' \in 0 .. MaxChanges
  PROVE  TypeOK'
<1>1. TypeOK
  BY DEF IInv
<1>2. PortalVoucher' = PortalVoucher /\ Identifiers' = Identifiers /\ TallyVoucher' = TallyVoucher
      /\ MasterIds' = MasterIds
  BY DEF PortalVoucher, Identifiers, TallyVoucher, MasterIds
<1>3. AgentTask \subseteq AgentTask' /\ 1 .. rows \subseteq 1 .. rows'
  BY <1>1, Wider, TypeFacts
<1>4. agent' \in [pc : {"idle", "send", "ack", "report", "pull", "import"}, batch : SUBSET AgentTask',
                  sent : SUBSET (1 .. rows'), idents : SUBSET [v : Ids, master : MasterIds'],
                  pulled : UNION {[S -> TallyVoucher'] : S \in SUBSET MasterIds'}]
  <2>1. agent \in [pc : {"idle", "send", "ack", "report", "pull", "import"}, batch : SUBSET AgentTask',
                  sent : SUBSET (1 .. rows'), idents : SUBSET [v : Ids, master : MasterIds],
                  pulled : UNION {[S -> TallyVoucher] : S \in SUBSET MasterIds}]
    BY <1>1, <1>3 DEF TypeOK
  <2>2. agent' = agent
    OBVIOUS
  <2>3. QED BY <2>1, <2>2, <1>2
<1>5. QED BY <1>1, <1>2, <1>4 DEF TypeOK

\* A change of what a voucher says makes and moves none.
LEMMA PortalLives ==
  ASSUME IInv, UNCHANGED <<tally, agent, audit, deleting>>,
         \A u \in Ids : /\ vch'[u] = None <=> vch[u] = None
                        /\ vch[u] # None => vch'[u].master = vch[u].master,
         \A row \in queue' : row \in queue \/ row.action # "Delete"
  PROVE  Lives' /\ DeletedStaysDeleted'
<1>1. /\ TypeOK /\ MasterIds' = MasterIds
      /\ \A m \in MasterIds : tally[m].of \in Ids
      /\ \A i \in agent.idents : i.v \in Ids
      /\ \A u \in Ids : /\ TasksOf(u)' = TasksOf(u) /\ (Lived(u)' <=> Lived(u))
                        /\ \A row \in Pending(u)' : row \in Pending(u) \/ row.action # "Delete"
      /\ Made \subseteq Ids
  BY TypeFacts DEF IInv, MasterIds, TallyVoucher, TasksOf, Lived, Pending, Ids
<1>2. DeletedStaysDeleted' /\ AuditTrue' /\ Offspring'
  BY <1>1 DEF IInv, Lives, DeletedStaysDeleted, AuditTrue, At, Offspring, Orphaned
<1>3. MadeFrom'
  BY <1>1 DEF IInv, Lives, MadeFrom
<1>4. MadeAddressed'
  BY <1>1 DEF IInv, Lives, MadeAddressed
<1>5. Stale' /\ Moves'
  BY <1>1 DEF IInv, Lives, Stale, Moves
<1>6. QED BY <1>2, <1>3, <1>4, <1>5 DEF Lives

\* A voucher of the portal changes, under the same identifiers, and is queued for it.
LEMMA UpdateKeeps ==
  ASSUME IInv, NEW v \in Ids, vch[v] # None, NEW w \in PortalVoucher,
         w.master = vch[v].master, w.remote = vch[v].remote,
         vch' = [vch EXCEPT ![v] = w], NEW action \in {"Alter", "Cancel"}, Queue(v, action, NoIdent),
         w.status = "cancelled" => vch[v].status = "cancelled" \/ action = "Cancel",
         changes' \in 0 .. MaxChanges,
         UNCHANGED <<audit, deleting, tally, agent, tallyEdits, faults, raced>>
  PROVE  IInv'
<1> DEFINE new == NewRow(v, action, NoIdent)
<1>1. TypeOK /\ w # None /\ NoIdent \in Identifiers /\ NoIdent.master = 0 /\ action \in Actions
  BY NoneIsNoRecord, TypeFacts DEF IInv, NoIdent, Identifiers, Actions
<1>2. /\ rows' \in Nat /\ rows <= rows' /\ new \in queue' /\ new.id \notin agent.sent /\ new.v = v
      /\ new.action = action /\ new.master = 0 /\ \A t \in agent.batch : t.row # new.id
      /\ \A row \in queue' : \/ row = new
                             \/ row \in queue /\ ~(row.v = v /\ row.action = action)
      /\ \A row \in queue : row.v # v => row \in queue'
      /\ \A row \in queue : row.action # action => row \in queue'
      /\ queue' \subseteq QueueRow' /\ \A r, s \in queue' : r.id = s.id => r = s
  <2>1. Supersedes(action) = {action} /\ action # "Delete"
    BY DEF Supersedes
  <2>2. UNCHANGED <<tally, agent>>
    OBVIOUS
  <2>3. QED BY <1>1, <2>1, <2>2, QueueFacts
<1> HIDE DEF new
<1>3. /\ vch' \in [Ids -> PortalVoucher \cup {None}] /\ vch'[v] = w
      /\ \A u \in Ids \ {v} : vch'[u] = vch[u]
      /\ \A u \in Ids : vch'[u] = None <=> vch[u] = None
  BY <1>1 DEF TypeOK
<1>4. TypeOK'
  BY <1>1, <1>2, <1>3, PortalTypes DEF TypeOK
<1>6. /\ MasterIds' = MasterIds /\ Pulled' = Pulled /\ tally' = tally /\ agent' = agent
      /\ \A u \in Ids : /\ TasksOf(u)' = TasksOf(u) /\ Copies(u)' = Copies(u)
                        /\ (Orphaned(u)' <=> Orphaned(u)) /\ (Lived(u)' <=> Lived(u))
                        /\ vch[u] # None => /\ vch'[u].master = vch[u].master
                                            /\ vch'[u].remote = vch[u].remote
  BY <1>3 DEF MasterIds, Pulled, Lived, TasksOf, Copies, Orphaned
<1>5. DeletedStaysDeleted' /\ Lives'
  BY <1>2, <1>3, <1>6, PortalLives
<1>7. \A u \in Ids \ {v} : Pending(u)' = Pending(u) /\ Unsent(u)' = Unsent(u) /\ Cancels(u)' = Cancels(u)
  BY <1>2 DEF Pending, Unsent, Cancels
<1>8. new \in Unsent(v)' /\ (action = "Cancel" => new \in Cancels(v)')
  BY <1>2 DEF Unsent, Pending, Cancels
<1>9. /\ \A t \in agent.batch : t.v \in Ids
      /\ \A m \in MasterIds : tally[m].of \in Ids
      /\ \A row \in queue : row.v \in Ids
  BY <1>1, TypeFacts DEF AgentTask, TallyVoucher, TypeOK, QueueRow
<1>10. Phases' /\ OnePlace' /\ PulledIsTrue'
  BY <1>6 DEF IInv, Places, Phases, OnePlace, PulledIsTrue
<1>11. Begun' /\ Deletes' /\ GoneForGood'
  <2>1. Begun'
    <3>1. Lived(v)
      BY DEF Lived
    <3>2. QED BY <3>1, <1>3, <1>6, <1>7 DEF IInv, Places, Begun
  <2>2. Deletes'
    BY <1>2, <1>3, <1>6, <1>9 DEF IInv, Places, Deletes
  <2>3. GoneForGood'
    BY <1>3, <1>6, <1>9 DEF IInv, Places, GoneForGood
  <2>4. QED BY <2>1, <2>2, <2>3
<1>12. Addresses' /\ Tasks' /\ Reachable' /\ NewsFirst'
  <2>1. Addresses'
    BY <1>2, <1>3, <1>6 DEF IInv, Places, Addresses, Named, At
  <2>2. Tasks'
    BY <1>2, <1>3, <1>6, <1>9 DEF IInv, Places, Tasks
  <2>3. Reachable' /\ NewsFirst'
    BY <1>3, <1>6, <1>9 DEF IInv, Places, Reachable, NewsFirst
  <2>4. QED BY <2>1, <2>2, <2>3
<1>13. ChangesOwed'
  BY <1>3, <1>6, <1>7, <1>8 DEF IInv, Owing, ChangesOwed, Same, MarkedCancelled
<1>14. CancelOwed'
  <2> SUFFICES ASSUME NEW u \in Ids, vch'[u] # None, vch'[u].status = "cancelled", ~Orphaned(u)
               PROVE  \/ \E row \in Cancels(u)' : row.id \notin agent.sent
                      \/ (\E m \in Copies(u) : tally[m].cancelled) /\ \A t \in TasksOf(u) : t.cancelled
    BY <1>6 DEF CancelOwed
  <2>1. CASE u # v
    BY <2>1, <1>3, <1>7 DEF IInv, Owing, CancelOwed
  <2>2. CASE u = v /\ action = "Cancel"
    BY <2>2, <1>2, <1>8
  <2>3. CASE u = v /\ action # "Cancel"
    <3>1. Cancels(v) \subseteq Cancels(v)'
      BY <2>3, <1>2 DEF Cancels, Pending
    <3>2. QED BY <2>3, <3>1, <1>3 DEF IInv, Owing, CancelOwed
  <2>4. QED BY <2>1, <2>2, <2>3
<1>15. CancelTold'
  <2> SUFFICES ASSUME NEW u \in Ids, vch'[u] # None, vch'[u].status = "cancelled",
                      NEW row \in Cancels(u)', NEW t \in agent.batch, t.row = row.id
               PROVE  \A o \in TasksOf(u) : o.cancelled
    BY <1>6 DEF CancelTold
  <2>1. CASE u # v
    BY <2>1, <1>3, <1>7 DEF IInv, Owing, CancelTold
  <2>2. CASE u = v
    <3>1. row # new /\ row \in queue /\ row.v = v /\ row.action = "Cancel" /\ action # "Cancel"
      BY <2>2, <1>2 DEF Cancels, Pending
    <3>2. row \in Cancels(v)
      BY <3>1 DEF Cancels, Pending
    <3>3. QED BY <2>2, <3>1, <3>2, <1>3 DEF IInv, Owing, CancelTold
  <2>3. QED BY <2>1, <2>2
<1>16. DeleteOwed'
  <2>1. audit[v] = None
    BY DEF IInv, Lives, AuditTrue
  <2>2. QED BY <2>1, <1>6, <1>7 DEF IInv, Owing, DeleteOwed
<1>17. QED
  BY <1>4, <1>5, <1>10, <1>11, <1>12, <1>13, <1>14, <1>15, <1>16 DEF IInv, Places, Owing

\* A new voucher waits on the queue, and nothing of it exists elsewhere.
LEMMA CreateKeeps ==
  ASSUME IInv, NEW v \in Ids, Create(v)
  PROVE  IInv'
<1> DEFINE new == NewRow(v, "Create", NoIdent)
<1>1. TypeOK /\ NoIdent \in Identifiers /\ NoIdent.master = 0 /\ vch[v] = None /\ audit[v] = None
      /\ v \in Vouchers /\ ~Lived(v) /\ v \notin Made /\ Made \subseteq Ids
  BY TypeFacts, BoundsAssumption DEF IInv, Create, NoIdent, Identifiers, Lived, Made, Ids
<1>2. PICK t \in Texts : vch' = [vch EXCEPT ![v] = [text |-> t, status |-> "confirmed",
                                   cancelled |-> FALSE, remote |-> FALSE, master |-> 0]]
  BY DEF Create
<1> DEFINE w == [text |-> t, status |-> "confirmed", cancelled |-> FALSE, remote |-> FALSE, master |-> 0]
<1>3. w \in PortalVoucher /\ w # None /\ w.master = 0 /\ w.status = "confirmed"
  <2>1. w \in PortalVoucher
    BY <1>1, TypeFacts DEF PortalVoucher
  <2>2. QED BY <1>1, <2>1, NoneIsNoRecord
<1> HIDE DEF w
<1>4. /\ vch' \in [Ids -> PortalVoucher \cup {None}] /\ vch'[v] = w
      /\ \A u \in Ids \ {v} : vch'[u] = vch[u]
  BY <1>1, <1>2, <1>3 DEF TypeOK, w
<1>5. /\ rows' \in Nat /\ rows <= rows' /\ new \in queue' /\ new.id \notin agent.sent /\ new.v = v
      /\ new.action = "Create" /\ new.master = 0 /\ \A o \in agent.batch : o.row # new.id
      /\ \A row \in queue' : row = new \/ row \in queue
      /\ \A row \in queue : row.v # v => row \in queue'
      /\ queue' \subseteq QueueRow' /\ \A r, s \in queue' : r.id = s.id => r = s
  <2>1. "Create" \in Actions /\ Queue(v, "Create", NoIdent) /\ UNCHANGED <<tally, agent>>
    BY DEF Create, Actions
  <2>2. QED BY <1>1, <2>1, QueueFacts
<1> HIDE DEF new
<1>6. UNCHANGED <<audit, deleting, tally, agent, changes, tallyEdits, faults, raced>>
  BY DEF Create
<1>7. TypeOK'
  BY <1>1, <1>4, <1>5, <1>6, PortalTypes DEF TypeOK
<1>8. /\ MasterIds' = MasterIds /\ Pulled' = Pulled /\ tally' = tally /\ agent' = agent
      /\ \A u \in Ids : /\ TasksOf(u)' = TasksOf(u) /\ Copies(u)' = Copies(u)
                        /\ (Orphaned(u)' <=> Orphaned(u))
      /\ \A u \in Ids \ {v} : (Lived(u)' <=> Lived(u))
  BY <1>4, <1>6 DEF MasterIds, Pulled, Lived, TasksOf, Copies, Orphaned
<1>9. \A u \in Ids \ {v} : Pending(u)' = Pending(u) /\ Unsent(u)' = Unsent(u) /\ Cancels(u)' = Cancels(u)
  BY <1>5, <1>6 DEF Pending, Unsent, Cancels
<1>10. /\ \A o \in agent.batch : o.v \in Ids \ {v}
       /\ \A m \in MasterIds : tally[m].of \in Ids \ {v}
       /\ \A row \in queue : row.v \in Ids \ {v}
  <2>1. (\A m \in MasterIds : tally[m].of # v) /\ TasksOf(v) = {} /\ Pending(v) = {}
    BY <1>1 DEF IInv, Places, Begun
  <2>2. /\ \A o \in agent.batch : o.v \in Ids
        /\ \A m \in MasterIds : tally[m].of \in Ids
        /\ \A row \in queue : row.v \in Ids
    BY <1>1, TypeFacts DEF AgentTask, TallyVoucher, TypeOK, QueueRow
  <2>3. QED BY <2>1, <2>2 DEF TasksOf, Pending
<1>11. DeletedStaysDeleted' /\ Lives'
  <2>1. DeletedStaysDeleted'
    BY <1>1, <1>3, <1>4, <1>6 DEF IInv, DeletedStaysDeleted
  <2>2. AuditTrue' /\ Offspring'
    BY <1>1, <1>4, <1>6, <1>8, <1>10 DEF IInv, Lives, AuditTrue, At, Offspring
  <2>3. MadeFrom'
    BY <1>1, <1>4, <1>6, <1>8, <1>10 DEF IInv, Lives, MadeFrom
  <2>4. MadeAddressed'
    <3>1. \A o \in Made : /\ Pending(o)' = Pending(o) /\ vch'[o] = vch[o]
                          /\ deleting'[o] = deleting[o] /\ audit'[o] = audit[o]
      BY <1>1, <1>4, <1>6, <1>9
    <3>2. QED BY <3>1, <1>1, <1>8 DEF IInv, Lives, MadeAddressed
  <2>5. Stale' /\ Moves'
    <3>1. deleting[v] = None /\ \A i \in agent.idents : i.v \in Ids \ {v}
      BY <1>1, TypeFacts DEF IInv, Places, Begun
    <3>2. Stale'
      BY <3>1, <1>4, <1>6 DEF IInv, Lives, Stale
    <3>3. Moves'
      BY <3>1, <1>4, <1>6 DEF IInv, Lives, Moves
    <3>4. QED BY <3>2, <3>3
  <2>6. QED BY <2>1, <2>2, <2>3, <2>4, <2>5 DEF Lives
<1>12. Phases' /\ OnePlace' /\ PulledIsTrue'
  BY <1>8 DEF IInv, Places, Phases, OnePlace, PulledIsTrue
<1>13. Begun' /\ Deletes' /\ GoneForGood'
  <2>1. Begun'
    <3>1. Lived(v)'
      BY <1>3, <1>4 DEF Lived
    <3>2. QED BY <3>1, <1>6, <1>8, <1>9 DEF IInv, Places, Begun
  <2>2. Deletes'
    BY <1>4, <1>5, <1>8, <1>10 DEF IInv, Places, Deletes
  <2>3. GoneForGood'
    BY <1>4, <1>8, <1>10 DEF IInv, Places, GoneForGood
  <2>4. QED BY <2>1, <2>2, <2>3
<1>14. Addresses' /\ Tasks' /\ Reachable' /\ NewsFirst'
  <2>1. Addresses'
    BY <1>3, <1>4, <1>5, <1>6, <1>8 DEF IInv, Places, Addresses, Named, At
  <2>2. Tasks'
    BY <1>4, <1>5, <1>8, <1>10 DEF IInv, Places, Tasks
  <2>3. Reachable' /\ NewsFirst'
    BY <1>4, <1>8, <1>10 DEF IInv, Places, Reachable, NewsFirst
  <2>4. QED BY <2>1, <2>2, <2>3
<1>15. ChangesOwed'
  <2>1. new \in Unsent(v)'
    BY <1>5, <1>6 DEF Unsent, Pending
  <2>2. QED BY <2>1, <1>4, <1>8, <1>9 DEF IInv, Owing, ChangesOwed, Same, MarkedCancelled
<1>16. CancelOwed' /\ CancelTold'
  BY <1>3, <1>4, <1>8, <1>9 DEF IInv, Owing, CancelOwed, CancelTold
<1>17. DeleteOwed'
  BY <1>1, <1>6, <1>8, <1>9 DEF IInv, Owing, DeleteOwed
<1>18. QED
  BY <1>7, <1>11, <1>12, <1>13, <1>14, <1>15, <1>16, <1>17 DEF IInv, Places, Owing

\* What a cancelled voucher says may change unsent: it is nobody's concern.
LEMMA CancelledEditKeeps ==
  ASSUME IInv, NEW v \in Ids, vch[v] # None, vch[v].status = "cancelled", NEW t \in Texts,
         vch' = [vch EXCEPT ![v].text = t], changes' \in 0 .. MaxChanges,
         UNCHANGED <<audit, queue, rows, deleting, tally, agent, tallyEdits, faults, raced>>
  PROVE  IInv'
<1>1. TypeOK /\ vch[v] \in PortalVoucher
  BY TypeFacts DEF IInv
<1>2. /\ vch' \in [Ids -> PortalVoucher \cup {None}]
      /\ vch'[v] \in PortalVoucher /\ vch'[v].master = vch[v].master /\ vch'[v].remote = vch[v].remote
      /\ vch'[v].status = "cancelled"
      /\ \A u \in Ids \ {v} : vch'[u] = vch[u]
  BY <1>1 DEF TypeOK, PortalVoucher
<1>3. \A u \in Ids : /\ vch'[u] = None <=> vch[u] = None
                     /\ vch[u] # None => /\ vch'[u].master = vch[u].master
                                         /\ vch'[u].remote = vch[u].remote
                                         /\ vch'[u].status = vch[u].status
  BY <1>1, <1>2, NoneIsNoRecord
<1>4. TypeOK'
  <2>1. queue' \subseteq QueueRow' /\ deleting' \in [Ids -> Identifiers \cup {None}] /\ rows' \in Nat
    BY <1>1 DEF TypeOK, QueueRow
  <2>2. QED BY <1>1, <1>2, <2>1, PortalTypes DEF TypeOK
<1>5. /\ MasterIds' = MasterIds /\ Pulled' = Pulled /\ tally' = tally /\ agent' = agent
      /\ \A u \in Ids : /\ (Lived(u)' <=> Lived(u)) /\ TasksOf(u)' = TasksOf(u) /\ Copies(u)' = Copies(u)
                        /\ (Orphaned(u)' <=> Orphaned(u))
                        /\ Pending(u)' = Pending(u) /\ Unsent(u)' = Unsent(u) /\ Cancels(u)' = Cancels(u)
  BY <1>3 DEF MasterIds, Pulled, Lived, Orphaned, TasksOf, Copies, Pending, Unsent, Cancels
<1>6. /\ \A o \in agent.batch : o.v \in Ids
      /\ \A m \in MasterIds : tally[m].of \in Ids
      /\ \A row \in queue : row.v \in Ids
  BY <1>1, TypeFacts DEF AgentTask, TallyVoucher, TypeOK, QueueRow
<1>7. DeletedStaysDeleted' /\ Lives' /\ Phases' /\ OnePlace' /\ PulledIsTrue' /\ Begun'
  <2>1. DeletedStaysDeleted' /\ Lives'
    BY <1>3, PortalLives
  <2>2. Phases' /\ OnePlace' /\ PulledIsTrue'
    BY <1>5 DEF IInv, Places, Phases, OnePlace, PulledIsTrue
  <2>3. Begun'
    BY <1>5 DEF IInv, Places, Begun
  <2>4. QED BY <2>1, <2>2, <2>3
<1>8. Deletes' /\ GoneForGood'
  BY <1>3, <1>5, <1>6 DEF IInv, Places, Deletes, GoneForGood
<1>9. Addresses' /\ Tasks'
  BY <1>3, <1>5, <1>6 DEF IInv, Places, Addresses, Named, At, Tasks
<1>10. Reachable' /\ NewsFirst'
  BY <1>3, <1>5, <1>6 DEF IInv, Places, Reachable, NewsFirst
<1>11. ChangesOwed'
  <2>1. ASSUME NEW u \in Ids, NEW m \in MasterIds, Same(u, m), vch[u] # None,
               u = v => tally[m].cancelled
        PROVE  Same(u, m)'
    <3>1. CASE u # v
      BY <2>1, <3>1, <1>2, <1>5 DEF Same, MarkedCancelled
    <3>2. CASE u = v
      BY <2>1, <3>2, <1>2, <1>5 DEF Same, MarkedCancelled
    <3>3. QED BY <3>1, <3>2
  <2>2. \A m \in MasterIds : Same(v, m) => tally[m].cancelled
    BY DEF Same, MarkedCancelled
  <2>3. \A u \in Ids : Copies(u) \subseteq MasterIds
    BY DEF Copies
  <2>4. QED BY <2>1, <2>2, <2>3, <1>3, <1>5 DEF IInv, Owing, ChangesOwed
<1>12. CancelOwed' /\ CancelTold' /\ DeleteOwed'
  BY <1>3, <1>5 DEF IInv, Owing, CancelOwed, CancelTold, DeleteOwed
<1>13. QED
  BY <1>4, <1>7, <1>8, <1>9, <1>10, <1>11, <1>12 DEF IInv, Places, Owing

\* Reading the identifiers changes nothing else.
LEMMA DeleteReadsKeeps ==
  ASSUME IInv, NEW v \in Ids, DeleteReads(v)
  PROVE  IInv'
<1>1. TypeOK /\ vch[v] # None /\ Ident(v) \in Identifiers /\ Ident(v).master = vch[v].master
  BY IdentType DEF IInv, DeleteReads
<1>2. /\ deleting' \in [Ids -> Identifiers \cup {None}] /\ deleting'[v] = Ident(v)
      /\ \A u \in Ids \ {v} : deleting'[u] = deleting[u]
  BY <1>1 DEF DeleteReads, TypeOK
<1>3. UNCHANGED <<vch, audit, queue, rows, tally, agent, tallyEdits, faults, history>>
      /\ changes' \in 0 .. MaxChanges
  BY <1>1, BoundsAssumption DEF DeleteReads, Change, TypeOK
<1>4. TypeOK'
  <2>1. queue' \subseteq QueueRow' /\ rows' \in Nat /\ rows <= rows'
    BY <1>1, <1>3 DEF TypeOK, QueueRow
  <2>2. QED BY <1>1, <1>2, <1>3, <2>1, PortalTypes DEF TypeOK
<1>5. /\ MasterIds' = MasterIds /\ Pulled' = Pulled /\ tally' = tally /\ agent' = agent
      /\ \A u \in Ids : /\ (Lived(u)' <=> Lived(u)) /\ TasksOf(u)' = TasksOf(u) /\ Copies(u)' = Copies(u)
                        /\ (Orphaned(u)' <=> Orphaned(u))
                        /\ Pending(u)' = Pending(u) /\ Unsent(u)' = Unsent(u) /\ Cancels(u)' = Cancels(u)
  BY <1>3 DEF MasterIds, Pulled, Lived, Orphaned, TasksOf, Copies, Pending, Unsent, Cancels
<1>6. DeletedStaysDeleted' /\ Phases' /\ OnePlace' /\ PulledIsTrue' /\ Begun' /\ Deletes' /\ GoneForGood'
  <2>1. /\ vch' = vch /\ audit' = audit /\ queue' = queue
        /\ \A t \in agent.batch : t.v \in Ids
        /\ \A m \in MasterIds : tally[m].of \in Ids
    BY <1>1, <1>3, TypeFacts DEF AgentTask, TallyVoucher
  <2>2. DeletedStaysDeleted' /\ Phases' /\ OnePlace' /\ PulledIsTrue'
    BY <2>1, <1>5 DEF IInv, Places, DeletedStaysDeleted, Phases, OnePlace, PulledIsTrue
  <2>3. Begun'
    BY <2>1, <1>1, <1>2, <1>5 DEF IInv, Places, Begun, Lived
  <2>4. Deletes'
    BY <2>1, <1>5 DEF IInv, Places, Deletes
  <2>5. GoneForGood'
    BY <2>1, <1>5 DEF IInv, Places, GoneForGood
  <2>6. QED BY <2>2, <2>3, <2>4, <2>5
<1>7. Addresses'
  BY <1>1, <1>2, <1>3, <1>5 DEF IInv, Places, Addresses, Named, At
<1>8. Tasks' /\ Reachable' /\ NewsFirst'
  BY <1>3, <1>5 DEF IInv, Places, Tasks, Reachable, NewsFirst
<1>9. Owing'
  BY <1>3, <1>5 DEF IInv, Owing, ChangesOwed, Same, MarkedCancelled, CancelOwed, CancelTold, DeleteOwed,
                    history
<1>10. Lives'
  <2>1. /\ vch' = vch /\ audit' = audit /\ Made \subseteq Ids
        /\ \A m \in MasterIds : tally[m].of \in Ids
        /\ \A u \in Ids : deleting'[u] # None =>
             \/ deleting[u] # None /\ deleting'[u] = deleting[u]
             \/ vch[u] # None /\ deleting'[u].master = vch[u].master
    BY <1>1, <1>2, <1>3, TypeFacts DEF TallyVoucher, Ids
  <2>2. AuditTrue' /\ Moves'
    BY <2>1, <1>5 DEF IInv, Lives, AuditTrue, At, Moves
  <2>3. Offspring'
    BY <2>1, <1>5 DEF IInv, Lives, Offspring
  <2>4. MadeFrom'
    BY <2>1, <1>5 DEF IInv, Lives, MadeFrom
  <2>5. MadeAddressed'
    BY <2>1, <1>5 DEF IInv, Lives, MadeAddressed
  <2>6. Stale'
    BY <2>1, <1>5 DEF IInv, Lives, Stale
  <2>7. QED BY <2>2, <2>3, <2>4, <2>5, <2>6 DEF Lives
<1>11. QED
  BY <1>4, <1>6, <1>7, <1>8, <1>9, <1>10 DEF IInv, Places

\* A delete under the voucher's identifiers names what Tally has of it, and what it is
\* about to be given.
LEMMA DeleteCommitsKeeps ==
  ASSUME IInv, NEW v \in Ids, DeleteCommits(v)
  PROVE  IInv'
<1> DEFINE new == NewRow(v, "Delete", deleting[v])
<1>1. TypeOK /\ vch[v] # None /\ deleting[v] # None /\ deleting[v] \in Identifiers
  BY TypeFacts DEF IInv, DeleteCommits
<1>2. UNCHANGED <<tally, agent, changes, tallyEdits, faults>>
      /\ Queue(v, "Delete", deleting[v])
  BY DEF DeleteCommits
<1>3. /\ rows' \in Nat /\ rows <= rows' /\ new \in queue' /\ new.id \notin agent.sent /\ new.v = v
      /\ new.action = "Delete" /\ new.master = deleting[v].master /\ new.remote = deleting[v].remote
      /\ \A t \in agent.batch : t.row # new.id
      /\ \A row \in queue' : \/ row = new
                             \/ row \in queue /\ (row.v = v => row.action = "Cancel")
      /\ \A row \in queue : row.v # v => row \in queue'
      /\ queue' \subseteq QueueRow' /\ \A r, s \in queue' : r.id = s.id => r = s
  <2>1. "Delete" \in Actions
    BY DEF Actions
  <2>2. UNCHANGED <<tally, agent>> /\ Supersedes("Delete") = {"Delete", "Create", "Alter"}
    BY <1>2 DEF Supersedes
  <2>3. \A row \in queue : row.action \in Actions
    BY <1>1 DEF TypeOK, QueueRow
  <2>4. QED BY <1>1, <1>2, <2>1, <2>2, <2>3, QueueFacts DEF Actions
<1> HIDE DEF new
<1>4. /\ vch' \in [Ids -> PortalVoucher \cup {None}] /\ vch'[v] = None
      /\ \A u \in Ids \ {v} : vch'[u] = vch[u]
  BY <1>1 DEF DeleteCommits, TypeOK
<1>5. /\ audit' \in [Ids -> {None} \cup 0 .. Len(tally)] /\ audit'[v] = deleting[v].master
      /\ audit'[v] # None
      /\ \A u \in Ids \ {v} : audit'[u] = audit[u]
      /\ deleting' \in [Ids -> Identifiers \cup {None}] /\ deleting'[v] = None
      /\ \A u \in Ids \ {v} : deleting'[u] = deleting[u]
  <2>1. deleting[v].master \in 0 .. Len(tally) /\ 0 .. Len(tally) \subseteq Nat
    BY <1>1, TypeFacts DEF Identifiers
  <2>2. QED BY <1>1, <2>1, BoundsAssumption DEF DeleteCommits, TypeOK
<1>6. TypeOK'
  BY <1>1, <1>2, <1>3, <1>4, <1>5, PortalTypes DEF TypeOK
<1>7. /\ MasterIds' = MasterIds /\ Pulled' = Pulled /\ tally' = tally /\ agent' = agent
      /\ \A u \in Ids : /\ TasksOf(u)' = TasksOf(u) /\ Copies(u)' = Copies(u)
                        /\ (Orphaned(u)' <=> Orphaned(u))
      /\ \A u \in Ids : (Lived(u)' <=> Lived(u))
  <2>1. Lived(v) /\ Lived(v)'
    BY <1>1, <1>5 DEF Lived
  <2>2. \A u \in Ids \ {v} : (Lived(u)' <=> Lived(u))
    BY <1>4, <1>5 DEF Lived
  <2>3. QED BY <2>1, <2>2, <1>2 DEF MasterIds, Pulled, TasksOf, Copies, Orphaned
<1>8. \A u \in Ids \ {v} : Pending(u)' = Pending(u) /\ Unsent(u)' = Unsent(u) /\ Cancels(u)' = Cancels(u)
  BY <1>2, <1>3 DEF Pending, Unsent, Cancels
<1>9. /\ \A t \in agent.batch : t.v \in Ids
      /\ \A m \in MasterIds : tally[m].of \in Ids
      /\ \A row \in queue : row.v \in Ids
  BY <1>1, TypeFacts DEF AgentTask, TallyVoucher, TypeOK, QueueRow
<1>10. Phases' /\ OnePlace' /\ PulledIsTrue' /\ Begun'
  <2>1. Phases' /\ OnePlace' /\ PulledIsTrue'
    BY <1>7 DEF IInv, Places, Phases, OnePlace, PulledIsTrue
  <2>2. Lived(v)
    BY <1>1 DEF Lived
  <2>3. Begun'
    BY <2>2, <1>5, <1>7, <1>8 DEF IInv, Places, Begun
  <2>4. QED BY <2>1, <2>3
<1>11. Deletes' /\ GoneForGood'
  <2>1. Deletes'
    BY <1>3, <1>4, <1>7, <1>9 DEF IInv, Places, Deletes
  <2>2. GoneForGood'
    BY <1>4, <1>7, <1>9 DEF IInv, Places, GoneForGood
  <2>3. QED BY <2>1, <2>2
<1>12. Addresses' /\ Tasks'
  <2>1. Addresses'
    BY <1>1, <1>3, <1>4, <1>5, <1>7 DEF IInv, Places, Addresses, Named, At
  <2>2. Tasks'
    BY <1>3, <1>4, <1>7, <1>9 DEF IInv, Places, Tasks
  <2>3. QED BY <2>1, <2>2
<1>13. Reachable' /\ NewsFirst'
  BY <1>4, <1>7, <1>9 DEF IInv, Places, Reachable, NewsFirst
<1>14. ChangesOwed' /\ CancelOwed' /\ CancelTold'
  <2>1. ChangesOwed'
    BY <1>4, <1>7, <1>8 DEF IInv, Owing, ChangesOwed, Same, MarkedCancelled
  <2>2. CancelOwed' /\ CancelTold'
    BY <1>4, <1>7, <1>8 DEF IInv, Owing, CancelOwed, CancelTold
  <2>3. QED BY <2>1, <2>2
<1>15. DeleteOwed'
  <2> SUFFICES ASSUME NEW u \in Ids, vch'[u] = None, u \notin raced',
                      audit'[u] # None, ~Orphaned(u),
                      Copies(u) # {} \/ \E t \in TasksOf(u) : t.send = "Write"
               PROVE  \E row \in Unsent(u)' : row.action = "Delete" /\ (row.master # 0 \/ row.remote)
    <3>1. \A u \in Ids : audit'[u] # None => vch'[u] = None
      BY <1>4, <1>5 DEF IInv, Lives, AuditTrue
    <3>2. QED BY <3>1, <1>7 DEF DeleteOwed
  <2>1. raced' \in {raced, raced \cup {v}} /\ (deleting[v] # Ident(v) => v \in raced')
    BY DEF DeleteCommits
  <2>2. CASE u # v
    BY <2>1, <2>2, <1>5, <1>8 DEF IInv, Owing, DeleteOwed
  <2>3. CASE u = v
    <3>1. deleting[v].master = vch[v].master /\ deleting[v].remote = vch[v].remote
      BY <2>1, <2>3, <1>1, IdentType
    <3>2. vch[v].master # 0 \/ vch[v].remote
      <4>1. CASE \E t \in TasksOf(v) : t.send = "Write"
        BY <4>1, <1>1 DEF IInv, Places, Tasks, TasksOf
      <4>2. CASE \E m \in MasterIds : tally[m].of = v
        BY <4>2, <1>1 DEF IInv, Places, Reachable
      <4>3. CASE v \in Copies(v)
        <5>1. v \in Made
          <6>1. v \in Nat
            BY <4>3, <1>1, TypeFacts DEF Copies, MasterIds
          <6>2. QED BY <6>1, BoundsAssumption DEF Ids
        <5>2. QED BY <5>1, <1>1 DEF IInv, Lives, MadeAddressed
      <4>4. QED BY <4>1, <4>2, <4>3, <2>3 DEF Copies
    <3>3. new \in Unsent(v)'
      BY <1>3, <1>7 DEF Unsent, Pending
    <3>4. QED BY <2>3, <3>1, <3>2, <3>3, <1>3
  <2>4. QED BY <2>2, <2>3
<1>16. /\ \A m \in MasterIds : tally[m].of \in Ids
       /\ \A i \in agent.idents : i.v \in Ids
       /\ Made \subseteq Ids
       /\ \A u \in Ids : vch'[u] # None => u # v /\ vch[u] # None /\ vch'[u] = vch[u]
       /\ \A u \in Ids : deleting'[u] # None => u # v /\ deleting[u] # None /\ deleting'[u] = deleting[u]
  BY <1>1, <1>4, <1>5, TypeFacts DEF TallyVoucher, Ids
<1>17. Lives'
  <2>1. AuditTrue'
    <3>1. Named(deleting[v], v)
      BY <1>1 DEF IInv, Places, Addresses
    <3>2. QED BY <3>1, <1>4, <1>5, <1>7 DEF IInv, Lives, AuditTrue, Named, At
  <2>2. Offspring'
    BY <1>7, <1>16 DEF IInv, Lives, Offspring
  <2>3. MadeFrom'
    BY <1>7, <1>16 DEF IInv, Lives, MadeFrom
  <2>4. MadeAddressed'
    <3>1. v \in Made => deleting[v].master # 0
      BY <1>1 DEF IInv, Lives, MadeAddressed
    <3>2. ASSUME NEW u \in Made
          PROVE  \A row \in Pending(u)' : row.action = "Delete" => row.master # 0
      BY <3>1, <3>2, <1>3 DEF IInv, Lives, MadeAddressed, Pending
    <3>3. \A u \in Made : audit'[u] # 0
      BY <3>1, <1>5, <1>16 DEF IInv, Lives, MadeAddressed
    <3>4. QED BY <3>2, <3>3, <1>7, <1>16 DEF IInv, Lives, MadeAddressed
  <2>5. Stale' /\ Moves'
    BY <1>7, <1>16 DEF IInv, Lives, Stale, Moves
  <2>6. QED BY <2>1, <2>2, <2>3, <2>4, <2>5 DEF Lives
<1>18. DeletedStaysDeleted'
  <2> SUFFICES ASSUME NEW u \in Ids, NEW y \in Ids, audit'[u] \notin {None, 0}, vch'[y] # None,
                      vch'[y].master = audit'[u]
               PROVE  FALSE
    BY DEF DeletedStaysDeleted
  <2>1. y # v /\ vch[y] # None /\ vch[y].master = audit'[u]
    BY <1>16
  <2>2. u = v
    BY <2>1, <1>5 DEF IInv, DeletedStaysDeleted
  <2> DEFINE k == deleting[v].master
  <2>3. k # 0 /\ vch[y].master = k /\ k \in MasterIds
    <3>1. k \in 0 .. Len(tally) /\ Len(tally) \in Nat
      BY <1>1, TypeFacts DEF Identifiers
    <3>2. QED BY <3>1, <2>1, <2>2, <1>5 DEF MasterIds
  <2> HIDE DEF k
  <2>4. At(k, v) /\ At(k, y)
    BY <2>1, <2>3, <1>1 DEF IInv, Places, Addresses, Named, k
  <2>5. CASE tally[k].of = v /\ k = y
    <3>1. Lived(k) /\ k \in Made
      BY <2>1, <2>3, <2>5, <1>1, TypeFacts, BoundsAssumption DEF Lived, Ids, MasterIds
    <3>2. QED BY <3>1, <2>5, <1>1 DEF IInv, Lives, MadeFrom, k
  <2>6. CASE tally[k].of = y /\ k = v
    <3>1. Lived(k) /\ k \in Made
      BY <2>1, <2>3, <2>6, <1>1, TypeFacts, BoundsAssumption DEF Lived, Ids, MasterIds
    <3>2. QED BY <3>1, <2>1, <2>3, <2>6 DEF IInv, Lives, MadeFrom
  <2>7. QED BY <2>1, <2>4, <2>5, <2>6 DEF At
<1>19. QED
  BY <1>6, <1>10, <1>11, <1>12, <1>13, <1>14, <1>15, <1>17, <1>18 DEF IInv, Places, Owing

\* Every request of the portal.
LEMMA PortalKeeps ==
  ASSUME IInv, NEW v \in Ids, Portal(v)
  PROVE  IInv'
<1>1. TypeOK /\ (vch[v] # None => vch[v] \in PortalVoucher)
  BY TypeFacts DEF IInv
<1>2. Change => changes' \in 0 .. MaxChanges
  BY <1>1, BoundsAssumption DEF Change, TypeOK
<1>3. CASE Edit(v)
  <2>1. PICK t \in Texts : vch' = [vch EXCEPT ![v].text = t]
    BY <1>3 DEF Edit
  <2>2. CASE vch[v].status = "cancelled"
    BY <2>1, <2>2, <1>2, <1>3, CancelledEditKeeps DEF Edit
  <2>3. CASE vch[v].status = "confirmed"
    <3> DEFINE w == [vch[v] EXCEPT !.text = t]
    <3>1. /\ w \in PortalVoucher /\ w.master = vch[v].master /\ w.remote = vch[v].remote
          /\ w.status = vch[v].status /\ vch' = [vch EXCEPT ![v] = w]
      BY <2>1, <1>1, <1>3 DEF Edit, PortalVoucher
    <3> HIDE DEF w
    <3>2. QED BY <3>1, <2>3, <1>2, <1>3, UpdateKeeps DEF Edit
  <2>4. QED BY <2>2, <2>3, <1>1, <1>3 DEF Edit, PortalVoucher
<1>4. CASE Cancel(v)
  <2> DEFINE w == [vch[v] EXCEPT !.status = "cancelled", !.cancelled = TRUE]
  <2>1. /\ w \in PortalVoucher /\ w.master = vch[v].master /\ w.remote = vch[v].remote
        /\ vch' = [vch EXCEPT ![v] = w]
    BY <1>1, <1>4 DEF Cancel, PortalVoucher
  <2> HIDE DEF w
  <2>2. QED BY <2>1, <1>2, <1>4, UpdateKeeps DEF Cancel, history
<1>5. CASE Confirm(v)
  <2> DEFINE w == [vch[v] EXCEPT !.status = "confirmed", !.cancelled = FALSE]
  <2>1. /\ w \in PortalVoucher /\ w.master = vch[v].master /\ w.remote = vch[v].remote
        /\ w.status = "confirmed" /\ vch' = [vch EXCEPT ![v] = w]
    BY <1>1, <1>5 DEF Confirm, PortalVoucher
  <2> HIDE DEF w
  <2>2. QED BY <2>1, <1>2, <1>5, UpdateKeeps DEF Confirm, history
<1>6. CASE Retry(v)
  <2>1. vch' = [vch EXCEPT ![v] = vch[v]]
    BY <1>1, <1>6 DEF Retry, TypeOK
  <2>2. QED BY <2>1, <1>1, <1>2, <1>6, UpdateKeeps DEF Retry, history
<1>7. QED
  BY <1>3, <1>4, <1>5, <1>6, CreateKeeps, DeleteReadsKeeps, DeleteCommitsKeeps DEF Portal
-----------------------------------------------------------------------------
(* What Tally does with a task *)

\* A voucher users made is at no place of its own number; one made by an import is.
LEMMA Kinds ==
  ASSUME IInv
  PROVE  /\ Made \subseteq Ids /\ Vouchers \subseteq Ids /\ Vouchers \cap Made = {}
         /\ Vouchers \cap MasterIds = {} /\ Ids \cap MasterIds \subseteq Made
<1>1. Made \subseteq Nat /\ MasterIds \subseteq Nat /\ MasterIds \cap Vouchers = {}
  BY TypeFacts, BoundsAssumption DEF IInv, Made, MasterIds
<1>2. QED BY <1>1, BoundsAssumption DEF Ids

\* A voucher that is not orphaned has one place: its own, or that it was sent to.
LEMMA TamePlace ==
  ASSUME IInv, NEW v \in Ids, ~Orphaned(v), NEW m \in Of(v)
  PROVE  /\ IF v \in Made THEN m = v ELSE tally[m].of = v
         /\ \A n \in Of(v) : n = m
<1>1. \A n \in Of(v) : IF v \in Made THEN n = v ELSE tally[n].of = v /\ v \in Vouchers
  BY Kinds DEF Of, At, IInv, Lives, Offspring, Ids
<1>2. \A n \in Of(v) : n \in MasterIds
  BY DEF Of
<1>3. QED BY <1>1, <1>2 DEF IInv, Places, OnePlace

\* The task is carried out at a place of its voucher's, or makes one when there is none
\* that is not gone.
Carried(task, after) ==
  \E m \in 1 .. Len(after) :
    /\ after \in Seq(TallyVoucher)
    /\ 1 .. Len(after) = MasterIds \cup {m}
    /\ \A n \in MasterIds \ {m} : after[n] = tally[n]
    /\ \/ m \in Meant(task) /\ after[m].of = tally[m].of
       \/ /\ m \notin MasterIds /\ after[m].of = task.v
          /\ Meant(task) = {} /\ task.send = "Write" /\ (Of(task.v) = {} \/ Orphaned(task.v))
    /\ IF task.send = "Delete" THEN after[m].gone /\ ~after[m].news
       ELSE ~after[m].gone /\ after[m].news /\ (task.send = "Cancel" \/ task.cancelled => after[m].cancelled)

\* Whom a task means is what Tally has of its voucher.
LEMMA MeantFacts ==
  ASSUME IInv, NEW task \in agent.batch
  PROVE  /\ \A m \in Meant(task) : m \in MasterIds /\ At(m, task.v) /\ ~tally[m].gone
         /\ \A m \in Meant(task) : task.master = m \/ (task.master = 0 /\ tally[m].of = task.v)
         /\ Meant(task) = {} /\ task.send = "Write" => Of(task.v) = {} \/ Orphaned(task.v)
         /\ Meant(task) = {} /\ task.master # 0 => tally[task.master].gone
         /\ \A m \in Meant(task) : Meant(task) = {m}
<1>1. /\ TypeOK /\ task \in AgentTask /\ task.master \in 0 .. Len(tally) /\ Len(tally) \in Nat
      /\ task.v \in Ids
  BY TypeFacts DEF IInv, AgentTask
<1>2. Named(task, task.v)
  BY DEF IInv, Places, Addresses
<1>3. \A m \in Meant(task) : /\ m \in MasterIds /\ ~tally[m].gone
                             /\ task.master = m \/ (task.master = 0 /\ tally[m].of = task.v)
  BY <1>1 DEF Meant, Among, MasterIds
<1>4. \A m \in Meant(task) : At(m, task.v)
  <2>1. \A m \in MasterIds : m # 0
    BY DEF MasterIds
  <2>2. QED BY <2>1, <1>2, <1>3 DEF Named, At
<1>5. Meant(task) = {} /\ task.master # 0 => tally[task.master].gone
  BY <1>1 DEF Meant, Among
<1>6. ASSUME task.send = "Write", NEW m \in Of(task.v), ~Orphaned(task.v)
      PROVE  m \in Meant(task)
  <2>1. m \in MasterIds /\ (IF task.v \in Made THEN m = task.v ELSE tally[m].of = task.v)
        /\ \A n \in Of(task.v) : n = m
    BY <1>1, <1>6, TamePlace DEF Of
  <2>2. ~tally[m].gone
    BY <2>1, <1>1, <1>6 DEF IInv, Places, GoneForGood, TasksOf, Orphaned, Ids
  <2>3. task.master # 0 => task.master = m
    BY <2>1, <1>1, <1>2 DEF Named, Of, MasterIds
  <2>4. task.master = 0 => task.remote /\ tally[m].of = task.v
    BY <2>1, <1>6 DEF IInv, Places, Tasks, Lives, MadeAddressed, TasksOf
  <2>5. QED BY <2>1, <2>2, <2>3, <2>4 DEF Meant, Among, MasterIds
<1>7. \A m, n \in Meant(task) : m = n
  <2>1. task.master = 0 => task.v \in Vouchers
    BY <1>1 DEF IInv, Lives, MadeAddressed, TasksOf, Ids
  <2>2. \A m \in MasterIds : m # 0
    BY DEF MasterIds
  <2>3. QED BY <2>1, <2>2, <1>3 DEF IInv, Places, OnePlace
<1>8. QED BY <1>3, <1>4, <1>5, <1>6, <1>7

\* What an accepted task makes of Tally is what Carried says.
LEMMA AppliedFacts ==
  ASSUME IInv, NEW task \in agent.batch, Accepts(task), NEW after \in Applied(task)
  PROVE  Carried(task, after)
<1>1. /\ TypeOK /\ Len(tally) \in Nat /\ tally \in Seq(TallyVoucher) /\ task \in AgentTask
      /\ \A m \in MasterIds : tally[m] \in TallyVoucher
  BY TypeFacts DEF IInv, TypeOK
<1>2. task.send = "Write" => task.text \in Texts
  BY DEF IInv, Places, Tasks
<1>3. CASE Meant(task) = {}
  <2>1. task.send = "Write" /\ (Of(task.v) = {} \/ Orphaned(task.v))
    BY <1>3, MeantFacts DEF Accepts
  <2> DEFINE e == [of |-> task.v, text |-> task.text, cancelled |-> task.cancelled,
                   gone |-> FALSE, news |-> TRUE]
  <2>2. after = Append(tally, e)
    BY <1>3 DEF Applied
  <2>3. e \in TallyVoucher
    BY <2>1, <1>1, <1>2 DEF TallyVoucher, AgentTask
  <2>4. e.of = task.v /\ e.gone = FALSE /\ e.news = TRUE /\ e.cancelled = task.cancelled
    OBVIOUS
  <2> HIDE DEF e
  <2>5. /\ after \in Seq(TallyVoucher) /\ Len(after) = Len(tally) + 1
        /\ after[Len(tally) + 1] = e /\ \A n \in 1 .. Len(tally) : after[n] = tally[n]
    BY <2>2, <2>3, <1>1, AppendProperties
  <2>6. /\ 1 .. Len(after) = MasterIds \cup {Len(tally) + 1} /\ Len(tally) + 1 \in 1 .. Len(after)
        /\ Len(tally) + 1 \notin MasterIds
    BY <2>5, <1>1 DEF MasterIds
  <2>7. QED BY <1>3, <2>1, <2>4, <2>5, <2>6 DEF Carried, MasterIds
<1>4. CASE Meant(task) # {}
  <2> DEFINE m == CHOOSE n \in Meant(task) : TRUE
  <2>1. m \in MasterIds /\ m \in Meant(task) /\ ~tally[m].gone
    BY <1>4, MeantFacts
  <2> HIDE DEF m
  <2>2. PICK e \in TallyVoucher :
          /\ after = [tally EXCEPT ![m] = e] /\ e.of = tally[m].of
          /\ IF task.send = "Delete" THEN e.gone /\ ~e.news
             ELSE ~e.gone /\ e.news /\ (task.send = "Cancel" \/ task.cancelled => e.cancelled)
    <3>1. CASE task.send = "Write"
      <4>1. PICK c \in IF task.cancelled THEN {TRUE} ELSE {FALSE, tally[m].cancelled} :
              after = [tally EXCEPT ![m].text = task.text, ![m].cancelled = c, ![m].news = TRUE]
        BY <3>1, <1>4 DEF Applied, m
      <4> DEFINE e == [tally[m] EXCEPT !.text = task.text, !.cancelled = c, !.news = TRUE]
      <4>2. c \in BOOLEAN /\ (task.cancelled => c)
        BY <4>1, <2>1, <1>1 DEF TallyVoucher
      <4>3. e \in TallyVoucher /\ e.of = tally[m].of /\ ~e.gone /\ e.news /\ e.cancelled = c
        BY <4>2, <3>1, <2>1, <1>1, <1>2 DEF TallyVoucher
      <4>4. after = [tally EXCEPT ![m] = e]
        BY <4>1
      <4> HIDE DEF e
      <4>5. QED BY <4>2, <4>3, <4>4, <3>1
    <3>2. CASE task.send = "Cancel"
      <4>1. after = [tally EXCEPT ![m].cancelled = TRUE, ![m].news = TRUE]
        BY <3>2, <1>4 DEF Applied, m
      <4> DEFINE e == [tally[m] EXCEPT !.cancelled = TRUE, !.news = TRUE]
      <4>2. e \in TallyVoucher /\ e.of = tally[m].of /\ ~e.gone /\ e.news /\ e.cancelled
        BY <2>1, <1>1 DEF TallyVoucher
      <4>3. after = [tally EXCEPT ![m] = e]
        BY <4>1
      <4> HIDE DEF e
      <4>4. QED BY <4>2, <4>3, <3>2
    <3>3. CASE task.send = "Delete"
      <4>1. after = [tally EXCEPT ![m].gone = TRUE, ![m].news = FALSE]
        BY <3>3, <1>4 DEF Applied, m
      <4> DEFINE e == [tally[m] EXCEPT !.gone = TRUE, !.news = FALSE]
      <4>2. e \in TallyVoucher /\ e.of = tally[m].of /\ e.gone /\ ~e.news
        BY <2>1, <1>1 DEF TallyVoucher
      <4>3. after = [tally EXCEPT ![m] = e]
        BY <4>1
      <4> HIDE DEF e
      <4>4. QED BY <4>2, <4>3, <3>3
    <3>4. QED BY <3>1, <3>2, <3>3, <1>1 DEF AgentTask
  <2>3. /\ after \in Seq(TallyVoucher) /\ Len(after) = Len(tally)
        /\ \A n \in 1 .. Len(tally) : after[n] = IF n = m THEN e ELSE tally[n]
    BY <2>1, <2>2, <1>1, ExceptSeq DEF MasterIds
  <2>4. 1 .. Len(after) = MasterIds \cup {m} /\ after[m] = e /\ m \in 1 .. Len(after)
    BY <2>1, <2>3 DEF MasterIds
  <2>5. QED BY <2>1, <2>2, <2>3, <2>4 DEF Carried, MasterIds
<1>5. QED BY <1>3, <1>4

\* What Tally has after a task was carried out.
LEMMA CarriedFacts ==
  ASSUME IInv, NEW task \in agent.batch, Carried(task, tally')
  PROVE  \E m \in MasterIds' :
           /\ tally' \in Seq(TallyVoucher) /\ Len(tally') \in Nat /\ Len(tally) <= Len(tally')
           /\ MasterIds' = MasterIds \cup {m}
           /\ \A n \in MasterIds \ {m} : tally'[n] = tally[n]
           /\ \A n \in MasterIds : tally'[n].of = tally[n].of /\ (tally[n].gone => tally'[n].gone)
           /\ \/ m \in MasterIds /\ m \in Meant(task)
              \/ /\ m \notin MasterIds /\ tally'[m].of = task.v /\ Meant(task) = {}
                 /\ task.send = "Write" /\ (Of(task.v) = {} \/ Orphaned(task.v))
           /\ IF task.send = "Delete" THEN tally'[m].gone /\ ~tally'[m].news
              ELSE /\ ~tally'[m].gone /\ tally'[m].news
                   /\ task.send = "Cancel" \/ task.cancelled => tally'[m].cancelled
<1>1. TypeOK /\ Len(tally) \in Nat
  BY TypeFacts DEF IInv
<1>2. PICK m \in MasterIds' :
    /\ tally' \in Seq(TallyVoucher)
    /\ MasterIds' = MasterIds \cup {m}
    /\ \A n \in MasterIds \ {m} : tally'[n] = tally[n]
    /\ \/ m \in Meant(task) /\ tally'[m].of = tally[m].of
       \/ /\ m \notin MasterIds /\ tally'[m].of = task.v
          /\ Meant(task) = {} /\ task.send = "Write" /\ (Of(task.v) = {} \/ Orphaned(task.v))
    /\ IF task.send = "Delete" THEN tally'[m].gone /\ ~tally'[m].news
       ELSE ~tally'[m].gone /\ tally'[m].news /\ (task.send = "Cancel" \/ task.cancelled => tally'[m].cancelled)
  BY DEF Carried, MasterIds
<1>3. Len(tally') \in Nat
  BY <1>2, LenProperties
<1>4. Len(tally) <= Len(tally')
  <2>1. Len(tally) = 0 \/ Len(tally) \in 1 .. Len(tally)
    BY <1>1
  <2>2. QED BY <2>1, <1>1, <1>2, <1>3 DEF MasterIds
<1>5. m \in Meant(task) => m \in MasterIds /\ ~tally[m].gone
  BY MeantFacts
<1>6. \A n \in MasterIds : tally'[n].of = tally[n].of /\ (tally[n].gone => tally'[n].gone)
  BY <1>2, <1>5
<1>7. QED BY <1>2, <1>3, <1>4, <1>5, <1>6

\* Places stay, and with them who is gone.
LEMMA StaysOrphaned ==
  ASSUME MasterIds \subseteq MasterIds', \A n \in MasterIds : tally[n].gone => tally'[n].gone
  PROVE  \A u \in Ids : Orphaned(u) => Orphaned(u)'
BY DEF Orphaned

\* What Tally has of the task's own voucher afterwards.
LEMMA CarriedOwn ==
  ASSUME IInv, NEW task \in agent.batch, Carried(task, tally'), ~Orphaned(task.v)'
  PROVE  \E m \in MasterIds' :
           /\ \/ m \in MasterIds /\ Copies(task.v) = {m}
              \/ Copies(task.v) = {} /\ task.send = "Write"
           /\ IF task.send = "Delete" THEN Copies(task.v)' = {}
              ELSE /\ Copies(task.v)' = {m} /\ tally'[m].news
                   /\ task.send = "Cancel" \/ task.cancelled => tally'[m].cancelled
<1>1. task.v \in Ids
  BY TypeFacts DEF IInv, AgentTask
<1>2. PICK m \in MasterIds' :
           /\ MasterIds' = MasterIds \cup {m}
           /\ \A n \in MasterIds \ {m} : tally'[n] = tally[n]
           /\ \A n \in MasterIds : tally'[n].of = tally[n].of /\ (tally[n].gone => tally'[n].gone)
           /\ \/ m \in MasterIds /\ m \in Meant(task)
              \/ /\ m \notin MasterIds /\ tally'[m].of = task.v /\ Meant(task) = {}
                 /\ task.send = "Write" /\ (Of(task.v) = {} \/ Orphaned(task.v))
           /\ IF task.send = "Delete" THEN tally'[m].gone /\ ~tally'[m].news
              ELSE /\ ~tally'[m].gone /\ tally'[m].news
                   /\ task.send = "Cancel" \/ task.cancelled => tally'[m].cancelled
  BY CarriedFacts
<1>3. ~Orphaned(task.v)
  BY <1>1, <1>2, StaysOrphaned
<1>4. CASE m \in MasterIds /\ m \in Meant(task)
  <2>1. m \in Of(task.v) /\ ~tally[m].gone /\ At(m, task.v)
    BY <1>4, MeantFacts DEF Of
  <2>2. Of(task.v) = {m}
    BY <2>1, <1>1, <1>3, TamePlace
  <2>3. Copies(task.v) = {m}
    BY <2>1, <2>2 DEF Copies, Of, At
  <2>4. MasterIds' = MasterIds /\ Of(task.v)' = {m}
    BY <2>2, <1>2, <1>4 DEF Of, At
  <2>5. Copies(task.v)' = {n \in {m} : ~tally'[n].gone}
    BY <2>4 DEF Copies, Of, At
  <2>6. QED BY <2>3, <2>5, <1>2, <1>4
<1>5. CASE m \notin MasterIds
  <2>1. Of(task.v) = {} /\ task.send = "Write" /\ tally'[m].of = task.v
    BY <1>2, <1>3, <1>5
  <2>2. Copies(task.v) = {}
    BY <2>1 DEF Copies, Of, At
  <2>3. Copies(task.v)' = {m}
    BY <2>1, <1>2, <1>5 DEF Copies, Of, At
  <2>4. QED BY <2>1, <2>2, <2>3, <1>2
<1>6. QED BY <1>2, <1>4, <1>5

\* Another voucher keeps what Tally has of it, unless Tally's is its own no longer.
LEMMA CarriedOthers ==
  ASSUME IInv, NEW task \in agent.batch, Carried(task, tally'), NEW u \in Ids, u # task.v,
         ~Orphaned(u)', Lived(u)
  PROVE  \/ Copies(u)' = Copies(u) /\ \A m \in Copies(u) : tally'[m] = tally[m]
         \/ vch[u] = None /\ Copies(u)' \subseteq Copies(u)
<1>1. task.v \in Ids /\ task \in TasksOf(task.v) /\ Lived(task.v)
  BY TypeFacts DEF IInv, AgentTask, TasksOf, Places, Begun
<1>2. PICK m \in MasterIds' :
           /\ MasterIds' = MasterIds \cup {m}
           /\ \A n \in MasterIds \ {m} : tally'[n] = tally[n]
           /\ \A n \in MasterIds : tally'[n].of = tally[n].of /\ (tally[n].gone => tally'[n].gone)
           /\ \/ m \in MasterIds /\ m \in Meant(task)
              \/ m \notin MasterIds /\ tally'[m].of = task.v
           /\ task.send = "Delete" => tally'[m].gone
  BY CarriedFacts
<1>3. ~Orphaned(u) /\ (u \in Made => u \in MasterIds)
  BY <1>2, StaysOrphaned DEF IInv, Lives, MadeFrom
<1>4. CASE m \notin MasterIds
  <2>1. m # u /\ tally'[m].of # u
    <3>1. m \in Nat
      BY TypeFacts, CarriedFacts DEF IInv, MasterIds
    <3>2. QED BY <3>1, <1>2, <1>3, <1>4, BoundsAssumption DEF Ids
  <2>2. QED BY <2>1, <1>2, <1>4 DEF Copies
<1>5. CASE m \in MasterIds /\ m \in Meant(task) /\ ~At(m, u)
  BY <1>2, <1>5 DEF Copies, At
<1>6. CASE m \in MasterIds /\ m \in Meant(task) /\ At(m, u)
  <2>1. At(m, task.v) /\ ~tally[m].gone /\ (task.master = m \/ (task.master = 0 /\ tally[m].of = task.v))
    BY <1>6, MeantFacts
  <2>2. CASE m = u /\ tally[m].of = task.v
    <3>1. m \in Made
      BY <2>2, <1>6, Kinds
    <3>2. task.send = "Delete"
      BY <3>1, <2>1, <2>2, <1>1 DEF IInv, Lives, MadeFrom, MasterIds
    <3>3. QED BY <3>1, <3>2, <2>2, <1>2 DEF Orphaned
  <2>3. CASE m = task.v /\ tally[m].of = u
    <3>1. m \in Made
      BY <2>3, <1>1, <1>6, Kinds
    <3>2. vch[u] # None => u \in Made
      BY <3>1, <2>3, <1>1 DEF IInv, Lives, MadeFrom
    <3>3. vch[u] = None
      BY <3>2, <2>3, <1>3, <1>6 DEF IInv, Lives, Offspring
    <3>4. Copies(u)' \subseteq Copies(u)
      BY <2>1, <1>2, <1>6 DEF Copies
    <3>5. QED BY <3>3, <3>4
  <2>4. QED BY <2>1, <2>2, <2>3, <1>6 DEF At
<1>7. QED BY <1>2, <1>4, <1>5, <1>6

\* A task is over: carried out or not, acknowledged only when it was carried out, or its
\* voucher is in Tally already, or it is a delete of what Tally says is not there.
Over(task, acked, idents) ==
  /\ Onward(task, acked, idents)
  /\ tally' = tally \/ Carried(task, tally')
  /\ acked => \/ Carried(task, tally')
              \/ tally' = tally /\ LookedUp(task) /\ Meant(task) # {}
              \/ tally' = tally /\ task.send = "Delete" /\ task.master = 0 /\ Meant(task) = {}
  /\ \A i \in idents : /\ i \in [v : Ids, master : MasterIds'] /\ i.v = task.v /\ task.send # "Delete"
                       /\ \/ i.master \in Meant(task)
                          \/ Meant(task) = {} /\ i.master \notin MasterIds /\ tally'[i.master].of = task.v

\* A task is over: it leaves the batch, and its row and identifiers are noted.
LEMMA OverFacts ==
  ASSUME IInv, agent.pc = "send", NEW task \in agent.batch, NEW acked \in BOOLEAN, NEW idents,
         Over(task, acked, idents)
  PROVE  /\ agent'.batch = agent.batch \ {task} /\ agent'.pc \in {"send", "ack"}
         /\ agent'.batch # {} => agent'.pc = "send"
         /\ agent'.sent = IF acked THEN agent.sent \cup {task.row} ELSE agent.sent
         /\ agent'.idents \subseteq agent.idents \cup idents
         /\ Pulled = {} /\ Pulled' = {} /\ agent'.pulled = agent.pulled
         /\ Len(tally') \in Nat /\ Len(tally) <= Len(tally') /\ tally' \in Seq(TallyVoucher)
         /\ MasterIds \subseteq MasterIds'
         /\ \A n \in MasterIds : tally'[n].of = tally[n].of /\ (tally[n].gone => tally'[n].gone)
         /\ agent' = [pc |-> agent'.pc, batch |-> agent'.batch, sent |-> agent'.sent,
                      idents |-> agent'.idents, pulled |-> agent'.pulled]
<1>1. TypeOK /\ tally \in Seq(TallyVoucher) /\ Len(tally) \in Nat
  BY TypeFacts DEF IInv, TypeOK
<1>2. PICK p : agent \in [pc : {"idle", "send", "ack", "report", "pull", "import"}, batch : SUBSET AgentTask,
                sent : SUBSET (1 .. rows), idents : SUBSET [v : Ids, master : MasterIds],
                pulled : p]
  BY <1>1 DEF TypeOK
<1>3. /\ agent'.batch = agent.batch \ {task} /\ agent'.pc \in {"send", "ack"}
      /\ agent'.batch # {} => agent'.pc = "send"
      /\ agent'.sent = IF acked THEN agent.sent \cup {task.row} ELSE agent.sent
      /\ agent'.idents = {i \in agent.idents : \A j \in idents : i.v # j.v} \cup idents
      /\ agent'.pulled = agent.pulled
      /\ agent' = [pc |-> agent'.pc, batch |-> agent'.batch, sent |-> agent'.sent,
                      idents |-> agent'.idents, pulled |-> agent'.pulled]
  BY <1>2 DEF Over, Onward
<1>4. Pulled = {}
  BY DEF IInv, Places, Phases
<1>5. /\ Len(tally') \in Nat /\ Len(tally) <= Len(tally') /\ tally' \in Seq(TallyVoucher)
      /\ MasterIds \subseteq MasterIds'
      /\ \A n \in MasterIds : tally'[n].of = tally[n].of /\ (tally[n].gone => tally'[n].gone)
  <2>1. CASE tally' = tally
    BY <2>1, <1>1 DEF MasterIds
  <2>2. CASE Carried(task, tally')
    BY <2>2, CarriedFacts
  <2>3. QED BY <2>1, <2>2 DEF Over
<1>6. QED BY <1>3, <1>4, <1>5 DEF Pulled

\* Whatever becomes of a task, the two sides stay bound to each other.
LEMMA OverPlaces ==
  ASSUME IInv, agent.pc = "send", NEW task \in agent.batch, NEW acked \in BOOLEAN, NEW idents,
         Over(task, acked, idents), UNCHANGED <<portalVars, changes, tallyEdits>>,
         faults' \in 0 .. MaxFaults
  PROVE  TypeOK' /\ DeletedStaysDeleted' /\ Places' /\ Lives'
<1>1. /\ TypeOK /\ task \in AgentTask /\ task.v \in Ids /\ task.row \in 1 .. rows
      /\ Len(tally) \in Nat /\ rows \in Nat /\ task \in TasksOf(task.v)
  BY TypeFacts DEF IInv, AgentTask, TasksOf
<1>2. UNCHANGED <<vch, audit, queue, rows, deleting>>
  BY DEF portalVars
<1>3. /\ agent'.batch = agent.batch \ {task} /\ agent'.idents \subseteq agent.idents \cup idents
      /\ agent'.sent = IF acked THEN agent.sent \cup {task.row} ELSE agent.sent
      /\ agent'.pulled = agent.pulled
      /\ Len(tally') \in Nat /\ Len(tally) <= Len(tally') /\ tally' \in Seq(TallyVoucher)
      /\ MasterIds \subseteq MasterIds'
      /\ Pulled = {} /\ Pulled' = {}
      /\ \A n \in MasterIds : tally'[n].of = tally[n].of /\ (tally[n].gone => tally'[n].gone)
  <2>1. agent'.batch = agent.batch \ {task}
    BY OverFacts
  <2>8. \A i \in agent'.idents : i \in agent.idents \/ i \in idents
    <3>1. agent'.idents = {i \in agent.idents : \A j \in idents : i.v # j.v} \cup idents
      BY <1>1 DEF Over, Onward, TypeOK
    <3>2. QED BY <3>1
  <2>2. agent'.sent = IF acked THEN agent.sent \cup {task.row} ELSE agent.sent
    BY OverFacts
  <2>3. Pulled = {} /\ Pulled' = {} /\ agent'.pulled = agent.pulled
    BY OverFacts
  <2>4. Len(tally') \in Nat /\ Len(tally) <= Len(tally') /\ tally' \in Seq(TallyVoucher)
    BY OverFacts
  <2>5. MasterIds \subseteq MasterIds'
    BY OverFacts
  <2>6. \A n \in MasterIds : tally'[n].of = tally[n].of /\ (tally[n].gone => tally'[n].gone)
    BY OverFacts
  <2>7. QED BY <2>1, <2>2, <2>3, <2>4, <2>5, <2>6, <2>8
<1>4. TypeOK'
  <2>1. /\ PortalVoucher \subseteq PortalVoucher' /\ Identifiers \subseteq Identifiers'
        /\ QueueRow \subseteq QueueRow' /\ AgentTask \subseteq AgentTask'
        /\ TallyVoucher' = TallyVoucher /\ MasterIds \subseteq MasterIds'
        /\ 0 .. Len(tally) \subseteq 0 .. Len(tally')
    BY <1>3, <1>1, <1>2, Wider
  <2>2. agent'.batch \subseteq AgentTask' /\ agent'.sent \subseteq 1 .. rows'
    BY <2>1, <1>3, <1>1, <1>2, TypeFacts
  <2>3. agent'.idents \subseteq [v : Ids, master : MasterIds']
    <3>1. agent.idents \subseteq [v : Ids, master : MasterIds]
      BY <1>1, TypeFacts
    <3>2. \A i \in idents : i \in [v : Ids, master : MasterIds']
      BY DEF Over
    <3>3. QED BY <3>1, <3>2, <2>1, <1>3
  <2>4. agent'.pulled \in UNION {[S -> TallyVoucher'] : S \in SUBSET MasterIds'}
    <3>1. PICK S \in SUBSET MasterIds : agent.pulled \in [S -> TallyVoucher]
      BY <1>1 DEF TypeOK
    <3>2. S \in SUBSET MasterIds' /\ agent'.pulled \in [S -> TallyVoucher']
      BY <3>1, <2>1, <1>3
    <3>3. QED BY <3>2
  <2>5. agent' \in [pc : {"idle", "send", "ack", "report", "pull", "import"}, batch : SUBSET AgentTask',
                  sent : SUBSET (1 .. rows'), idents : SUBSET [v : Ids, master : MasterIds'],
                  pulled : UNION {[S -> TallyVoucher'] : S \in SUBSET MasterIds'}]
    <3>1. agent'.pc \in {"idle", "send", "ack", "report", "pull", "import"}
      BY OverFacts
    <3>2. agent' = [pc |-> agent'.pc, batch |-> agent'.batch, sent |-> agent'.sent,
                      idents |-> agent'.idents, pulled |-> agent'.pulled]
      BY OverFacts
    <3>3. QED BY <2>2, <2>3, <2>4, <3>1, <3>2
  <2>6. /\ vch' \in [Ids -> PortalVoucher' \cup {None}]
        /\ deleting' \in [Ids -> Identifiers' \cup {None}]
        /\ audit' \in [Ids -> {None} \cup 0 .. Len(tally')]
        /\ queue' \subseteq QueueRow' /\ tally' \in Seq(TallyVoucher')
    BY <2>1, <1>3, <1>1, <1>2 DEF TypeOK
  <2>7. QED BY <2>5, <2>6, <1>1, <1>2 DEF TypeOK
<1>5. DeletedStaysDeleted'
  BY <1>2 DEF IInv, DeletedStaysDeleted
<1>6. /\ agent'.batch = agent.batch \ {task} /\ agent'.idents \subseteq agent.idents \cup idents
      /\ \A u \in Ids : /\ TasksOf(u)' = TasksOf(u) \ {task} /\ Pending(u)' = Pending(u)
                        /\ Lived(u)' <=> Lived(u)
      /\ Pulled = {} /\ Pulled' = {} /\ MasterIds \subseteq MasterIds'
      /\ \A n \in MasterIds : tally'[n].of = tally[n].of /\ (tally[n].gone => tally'[n].gone)
      /\ \A n \in MasterIds, u \in Ids : At(n, u)' <=> At(n, u)
  <2>1. queue' = queue /\ vch' = vch /\ audit' = audit
    BY <1>2
  <2>3. \A u \in Ids : /\ TasksOf(u)' = TasksOf(u) \ {task} /\ Pending(u)' = Pending(u)
                       /\ Lived(u)' <=> Lived(u)
    BY <2>1, <1>3 DEF TasksOf, Pending, Lived
  <2>4. \A n \in MasterIds, u \in Ids : At(n, u)' <=> At(n, u)
    BY <1>3 DEF At
  <2>5. QED BY <1>3, <2>3, <2>4
<1>7. Phases' /\ PulledIsTrue'
  BY <1>6, OverFacts DEF IInv, Places, Phases, PulledIsTrue
<1>8. Deletes' /\ Tasks'
  <2>1. queue' = queue /\ vch' = vch /\ \A t \in agent.batch : t.v \in Ids
    BY <1>1, <1>2, TypeFacts DEF AgentTask
  <2>2. Deletes'
    BY <2>1, <1>6 DEF IInv, Places, Deletes
  <2>3. Tasks'
    BY <2>1, <1>6 DEF IInv, Places, Tasks
  <2>4. QED BY <2>2, <2>3
\* What is said of a voucher under way is known of it.
<1>9. \A i \in idents : /\ i.v = task.v /\ task.send # "Delete" /\ i.master \in MasterIds' /\ At(i.master, i.v)'
                        /\ \/ i.master \in Meant(task)
                           \/ Meant(task) = {} /\ i.master \notin MasterIds /\ tally'[i.master].of = task.v
  <2> SUFFICES ASSUME NEW i \in idents
               PROVE  /\ i.v = task.v /\ task.send # "Delete" /\ i.master \in MasterIds' /\ At(i.master, i.v)'
                      /\ \/ i.master \in Meant(task)
                         \/ Meant(task) = {} /\ i.master \notin MasterIds /\ tally'[i.master].of = task.v
    OBVIOUS
  <2>1. /\ i \in [v : Ids, master : MasterIds'] /\ i.v = task.v /\ task.send # "Delete"
        /\ \/ i.master \in Meant(task)
           \/ Meant(task) = {} /\ i.master \notin MasterIds /\ tally'[i.master].of = task.v
    BY DEF Over
  <2>2. At(i.master, i.v)'
    BY <2>1, <1>1, <1>6, MeantFacts DEF At
  <2>3. QED BY <2>1, <2>2
<1>10. Addresses'
  <2>1. /\ \A v \in Ids : /\ vch[v] # None => vch[v].master \in 0 .. Len(tally)
                          /\ deleting[v] # None => deleting[v].master \in 0 .. Len(tally)
        /\ \A row \in queue : row.master \in 0 .. Len(tally) /\ row.v \in Ids
        /\ \A t \in agent.batch : t.master \in 0 .. Len(tally) /\ t.v \in Ids
        /\ \A i \in agent.idents : i.master \in MasterIds /\ i.v \in Ids
        /\ \A n \in 0 .. Len(tally) : n # 0 => n \in MasterIds
        /\ 0 \notin MasterIds
    BY <1>1, TypeFacts DEF PortalVoucher, Identifiers, QueueRow, AgentTask, TypeOK, MasterIds
  <2>2. vch' = vch /\ deleting' = deleting /\ queue' = queue
    BY <1>2
  <2>3. /\ \A v \in Ids : /\ vch[v] # None => Named(vch[v], v)
                          /\ deleting[v] # None => Named(deleting[v], v)
        /\ \A row \in queue : Named(row, row.v)
        /\ \A t \in agent.batch : Named(t, t.v)
        /\ \A i \in agent.idents : Named(i, i.v)
    BY DEF IInv, Places, Addresses
  <2>4. \A i \in agent.idents : i.master # 0 => At(i.master, i.v)'
    BY <2>1, <2>3, <1>6 DEF Named
  <2>5. \A v \in Ids, n \in MasterIds :
           (vch[v] # None /\ vch[v].master = n) \/ (deleting[v] # None /\ deleting[v].master = n)
             => At(n, v)'
    BY <2>1, <2>3, <1>6 DEF Named, At
  <2>6. /\ \A row \in queue : row.master # 0 => At(row.master, row.v)'
        /\ \A t \in agent.batch : t.master # 0 => At(t.master, t.v)'
    BY <2>1, <2>3, <1>6 DEF Named
  <2>7. QED BY <2>1, <2>2, <2>4, <2>5, <2>6, <1>6, <1>9 DEF Addresses, Named, At
<1>11. /\ vch' = vch /\ audit' = audit /\ deleting' = deleting
       /\ \A m \in MasterIds : tally[m].of \in Ids
       /\ Lived(task.v)
  BY <1>1, <1>2, TypeFacts DEF TallyVoucher, IInv, Places, Begun
<1>12. ASSUME \A m \in MasterIds' \ MasterIds : tally'[m].of = task.v
       PROVE  Begun'
  BY <1>6, <1>9, <1>11, <1>12 DEF IInv, Places, Begun
<1>13. OnePlace' /\ Begun' /\ GoneForGood' /\ Reachable' /\ NewsFirst' /\ Offspring'
  <2>1. CASE tally' = tally
    <3>1. MasterIds' = MasterIds
      BY <2>1 DEF MasterIds
    <3>2. OnePlace' /\ Reachable' /\ NewsFirst'
      BY <2>1, <3>1, <1>6, <1>11 DEF IInv, Places, OnePlace, Reachable, NewsFirst
    <3>3. Offspring'
      BY <2>1, <3>1 DEF IInv, Lives, Offspring, Orphaned
    <3>4. GoneForGood'
      BY <2>1, <3>1, <1>6, <1>11 DEF IInv, Places, GoneForGood
    <3>5. QED BY <1>12, <3>1, <3>2, <3>3, <3>4
  <2>2. CASE Carried(task, tally')
    <3>1. PICK m \in MasterIds' :
           /\ MasterIds' = MasterIds \cup {m}
           /\ \A n \in MasterIds \ {m} : tally'[n] = tally[n]
           /\ \A n \in MasterIds : tally'[n].of = tally[n].of /\ (tally[n].gone => tally'[n].gone)
           /\ \/ m \in MasterIds /\ m \in Meant(task)
              \/ /\ m \notin MasterIds /\ tally'[m].of = task.v
                 /\ task.send = "Write" /\ (Of(task.v) = {} \/ Orphaned(task.v))
           /\ IF task.send = "Delete" THEN tally'[m].gone /\ ~tally'[m].news
              ELSE ~tally'[m].gone /\ tally'[m].news
      BY <2>2, CarriedFacts
    <3>2. OnePlace'
      <4>1. task.v \in Vouchers => ~Orphaned(task.v)
        BY Kinds DEF Orphaned
      <4>2. QED BY <3>1, <4>1 DEF IInv, Places, OnePlace, Of, At
    <3>3. Begun'
      BY <3>1, <1>12
    <3>4. ASSUME task.send = "Delete"
          PROVE  /\ m \in MasterIds
                 /\ vch[tally[m].of] # None => tally[m].of \in Made
                 /\ tally[m].of \in Vouchers =>
                      /\ vch[tally[m].of] = None
                      /\ \A t \in agent.batch : t.v = tally[m].of => t.send # "Write"
      <4>1. m \in MasterIds /\ At(m, task.v)
        BY <3>1, <3>4, MeantFacts
      <4>2. vch[task.v] = None /\ \A t \in TasksOf(task.v) : t.send = "Delete"
        BY <3>4 DEF IInv, Places, Deletes
      <4>3. m = task.v => m \in Made /\ Lived(m)
        BY <4>1, <1>1, <1>11, Kinds
      <4>4. m = task.v /\ vch[tally[m].of] # None => tally[m].of \in Made
        BY <4>3 DEF IInv, Lives, MadeFrom
      <4>5. m = task.v /\ tally[m].of \in Vouchers => \A t \in TasksOf(tally[m].of) : t.send # "Write"
        BY <4>3, Kinds DEF IInv, Lives, MadeFrom
      <4>6. QED BY <4>1, <4>2, <4>4, <4>5, Kinds DEF At, TasksOf
    <3>5. GoneForGood'
      <4> SUFFICES ASSUME NEW n \in MasterIds', tally'[n].gone
                   PROVE  /\ ~tally'[n].news
                          /\ tally'[n].of \in Vouchers =>
                               /\ vch[tally'[n].of] = None
                               /\ \A t \in agent.batch : t.v = tally'[n].of => t.send # "Write"
        BY <1>6, <1>11 DEF GoneForGood, TasksOf
      <4>1. CASE n = m
        BY <4>1, <3>1, <3>4, <1>6, Kinds
      <4>2. CASE n # m
        BY <4>2, <3>1 DEF IInv, Places, GoneForGood, TasksOf
      <4>3. QED BY <4>1, <4>2
    <3>6. Reachable'
      BY <3>1, <1>1, <1>11 DEF IInv, Places, Reachable, Tasks
    <3>7. NewsFirst'
      <4> SUFFICES ASSUME NEW n \in MasterIds', vch[tally'[n].of] # None, vch[tally'[n].of].master = 0
                   PROVE  tally'[n].news
        BY <1>6, <1>11 DEF NewsFirst
      <4>1. CASE n = m
        BY <4>1, <3>1, <3>4 DEF IInv, Lives, MadeAddressed
      <4>2. CASE n # m
        BY <4>2, <3>1, <1>6 DEF IInv, Places, NewsFirst
      <4>3. QED BY <4>1, <4>2
    <3>8. Offspring'
      <4>1. \A u \in Made : Orphaned(u) => Orphaned(u)'
        BY <3>1, <1>6, StaysOrphaned, Kinds
      <4>2. m \notin MasterIds /\ task.v \in Made => Orphaned(task.v)
        <5>1. task.v \in Made => task.v \in MasterIds
          BY <1>11 DEF IInv, Lives, MadeFrom
        <5>2. QED BY <5>1, <3>1 DEF Of, At
      <4>3. QED BY <3>1, <4>1, <4>2 DEF IInv, Lives, Offspring
    <3>9. QED BY <3>2, <3>3, <3>5, <3>6, <3>7, <3>8
  <2>3. QED BY <2>1, <2>2 DEF Over
<1>14. AuditTrue' /\ MadeFrom' /\ MadeAddressed' /\ Stale' /\ Moves'
  <2>1. AuditTrue'
    <3>1. \A u \in Ids : audit[u] \notin {None, 0} => audit[u] \in MasterIds
      BY <1>1 DEF TypeOK, MasterIds
    <3>2. QED BY <3>1, <1>6, <1>11 DEF IInv, Lives, AuditTrue
  <2>2. MadeFrom'
    <3> SUFFICES ASSUME NEW w \in Made, Lived(w)
                 PROVE  /\ w \in MasterIds'
                        /\ LET x == tally'[w].of IN
                           /\ vch[x] # None => /\ x \in Made /\ vch[x].master # w
                                               /\ deleting[x] # None => deleting[x].master # w
                           /\ \A t \in agent.batch : t.v = x =>
                                t.send = "Delete" \/ (x \in Made /\ t.master \notin {0, w})
                           /\ \A i \in agent'.idents : i.v # x \/ i.master # w
      BY <1>6, <1>11, Kinds DEF MadeFrom, TasksOf
    <3> DEFINE x == tally[w].of
    <3>1. /\ w \in MasterIds /\ tally'[w].of = x /\ x \in Ids
          /\ vch[x] # None => /\ x \in Made /\ vch[x].master # w
                              /\ deleting[x] # None => deleting[x].master # w
          /\ \A t \in TasksOf(x) : t.send = "Delete" \/ (x \in Made /\ t.master \notin {0, w})
          /\ \A i \in agent.idents : i.v # x \/ i.master # w
      BY <1>6, <1>11 DEF IInv, Lives, MadeFrom
    <3> HIDE DEF x
    <3>2. \A i \in idents : i.v # x \/ i.master # w
      BY <3>1, <1>1, <1>9, MeantFacts DEF TasksOf
    <3>3. QED BY <3>1, <3>2, <1>6 DEF TasksOf
  <2>3. MadeAddressed'
    BY <1>6, <1>11, Kinds DEF IInv, Lives, MadeAddressed
  <2>4. Stale'
    <3>1. \A u \in Ids : deleting[u] # None => deleting[u].master = 0 \/ deleting[u].master \in MasterIds
      BY <1>1, TypeFacts DEF Identifiers, MasterIds
    <3>2. QED BY <3>1, <1>6, <1>11 DEF IInv, Lives, Stale
  <2>5. Moves'
    <3> SUFFICES ASSUME NEW i \in agent'.idents, vch[i.v] # None, i.master # vch[i.v].master
                 PROVE  /\ tally'[i.master].of = i.v
                        /\ vch[i.v].master = 0 \/ tally'[vch[i.v].master].gone
      BY <1>11 DEF Moves
    <3>1. i.v \in Ids /\ (vch[i.v].master = 0 \/ vch[i.v].master \in MasterIds)
      BY <1>1, <1>6, <1>9, TypeFacts DEF PortalVoucher, MasterIds
    <3>2. CASE i \in agent.idents
      <4>1. i.master \in MasterIds
        BY <3>2, <1>1, TypeFacts
      <4>2. QED BY <3>1, <3>2, <4>1, <1>6 DEF IInv, Lives, Moves
    <3>3. CASE i \in idents
      <4>1. i.v = task.v /\ task.master = vch[task.v].master
        BY <3>3, <1>9 DEF IInv, Places, Tasks
      <4>2. CASE i.master \in Meant(task)
        BY <4>1, <4>2, <1>6, MeantFacts
      <4>3. CASE Meant(task) = {} /\ tally'[i.master].of = task.v
        BY <4>1, <4>3, <3>1, <1>6, MeantFacts
      <4>4. QED BY <3>3, <4>2, <4>3, <1>9
    <3>4. QED BY <3>2, <3>3, <1>6
  <2>6. QED BY <2>1, <2>2, <2>3, <2>4, <2>5
<1>15. QED BY <1>4, <1>5, <1>7, <1>8, <1>10, <1>13, <1>14 DEF Places, Lives

\* What was owed and is not done stays owed.
LEMMA OverOwes ==
  ASSUME IInv, agent.pc = "send", NEW task \in agent.batch, NEW acked \in BOOLEAN, NEW idents,
         Over(task, acked, idents), UNCHANGED <<portalVars, history>>
  PROVE  Owing'
<1>1. TypeOK /\ task \in AgentTask /\ task.v \in Ids /\ MasterIds \subseteq Nat \ {0}
  BY TypeFacts DEF IInv, AgentTask, MasterIds
<1>2. vch' = vch /\ audit' = audit /\ queue' = queue /\ raced' = raced
  BY DEF portalVars, history
<1>3. /\ agent'.batch = agent.batch \ {task}
      /\ agent'.sent = IF acked THEN agent.sent \cup {task.row} ELSE agent.sent
      /\ Pulled = {} /\ Pulled' = {} /\ MasterIds \subseteq MasterIds'
      /\ \A n \in MasterIds : tally[n].gone => tally'[n].gone
  <2>1. agent'.batch = agent.batch \ {task}
    BY OverFacts
  <2>2. agent'.sent = IF acked THEN agent.sent \cup {task.row} ELSE agent.sent
    BY OverFacts
  <2>3. Pulled = {} /\ Pulled' = {}
    BY OverFacts
  <2>4. MasterIds \subseteq MasterIds' /\ \A n \in MasterIds : tally[n].gone => tally'[n].gone
    BY OverFacts
  <2>5. QED BY <2>1, <2>2, <2>3, <2>4
<1>4. /\ \A u \in Ids : TasksOf(u)' = TasksOf(u) \ {task} /\ Pending(u)' = Pending(u) /\ Cancels(u)' = Cancels(u)
      /\ \A u \in Ids : MarkedCancelled(u)' = MarkedCancelled(u)
  BY <1>2, <1>3 DEF TasksOf, Pending, Cancels, MarkedCancelled
\* The rows that are not sent are fewer by the task's own.
<1>5. \A row \in queue : row.id = task.row => row.v = task.v /\ row.action = task.queued
  BY DEF IInv, Places, Tasks
<1>6. \A u \in Ids : \A row \in Unsent(u) : row \in Unsent(u)' \/ (acked /\ row.id = task.row /\ row \in queue)
  BY <1>3, <1>4 DEF Unsent, Pending
<1>7. \A u \in Ids \ {task.v} : Unsent(u) \subseteq Unsent(u)'
  BY <1>5, <1>6 DEF Unsent, Pending
<1>8. /\ task.send = IF task.queued \in {"Create", "Alter"} THEN "Write" ELSE task.queued
      /\ vch[task.v] # None => task.master = vch[task.v].master
      /\ task.send = "Delete" => vch[task.v] = None /\ \A u \in TasksOf(task.v) : u.send = "Delete"
      /\ task \in TasksOf(task.v)
  BY DEF IInv, Places, Tasks, Deletes, TasksOf
\* Who is orphaned stays so; what Tally has of other vouchers is as it was, or less.
<1>9. \A u \in Ids : ~Orphaned(u)' => ~Orphaned(u)
  BY <1>3, StaysOrphaned
<1>10. \A u \in Ids \ {task.v} : Lived(u) /\ ~Orphaned(u)' =>
         \/ Copies(u)' = Copies(u) /\ \A m \in Copies(u) : tally'[m] = tally[m]
         \/ vch[u] = None /\ Copies(u)' \subseteq Copies(u)
  <2>1. CASE tally' = tally
    BY <2>1 DEF Copies, MasterIds
  <2>2. CASE Carried(task, tally')
    BY <2>2, CarriedOthers
  <2>3. QED BY <2>1, <2>2 DEF Over
\* What it has of this one is what it was sent, or as it was.
<1>11. ~Orphaned(task.v)' =>
         \/ tally' = tally /\ Copies(task.v)' = Copies(task.v)
         \/ \E m \in MasterIds' :
              /\ (m \in MasterIds /\ Copies(task.v) = {m}) \/ (Copies(task.v) = {} /\ task.send = "Write")
              /\ IF task.send = "Delete" THEN Copies(task.v)' = {}
                 ELSE /\ Copies(task.v)' = {m} /\ tally'[m].news
                      /\ task.send = "Cancel" \/ task.cancelled => tally'[m].cancelled
  <2>1. CASE tally' = tally
    BY <2>1 DEF Copies, MasterIds
  <2>2. CASE Carried(task, tally')
    BY <2>2, CarriedOwn
  <2>3. QED BY <2>1, <2>2 DEF Over
<1>12. acked => \/ Carried(task, tally')
                \/ /\ tally' = tally /\ task.queued = "Create" /\ task.master = 0 /\ task.send = "Write"
                   /\ Meant(task) # {}
                \/ tally' = tally /\ task.send = "Delete" /\ task.master = 0 /\ Meant(task) = {}
  BY <1>8 DEF Over, LookedUp
<1>13. ChangesOwed'
  <2> SUFFICES ASSUME NEW u \in Ids, vch[u] # None, ~Orphaned(u)', Unsent(u)' = {}
               PROVE  \E m \in Copies(u)' : tally'[m].news \/ m \in Pulled' \/ Same(u, m)'
    BY <1>2 DEF ChangesOwed
  <2>0. Lived(u) /\ ~Orphaned(u)
    BY <1>9 DEF Lived
  <2>1. CASE Unsent(u) = {} /\ (u # task.v \/ tally' = tally)
    <3>1. PICK m \in Copies(u) : tally[m].news \/ m \in Pulled \/ Same(u, m)
      BY <2>0, <2>1 DEF IInv, Owing, ChangesOwed
    <3>2. m \in Copies(u)' /\ tally'[m] = tally[m]
      <4>1. CASE tally' = tally
        BY <4>1, <3>1 DEF Copies, MasterIds
      <4>2. CASE u # task.v
        BY <4>2, <2>0, <1>10, <3>1
      <4>3. QED BY <4>1, <4>2, <2>1
    <3>3. QED BY <3>1, <3>2, <1>2, <1>3, <1>4 DEF Same
  <2>2. CASE u = task.v /\ Carried(task, tally')
    BY <2>2, <1>8, CarriedOwn
  <2>3. CASE u = task.v /\ Unsent(u) # {} /\ ~Carried(task, tally')
    <3>1. tally' = tally /\ task.master = 0 /\ Meant(task) # {}
      BY <2>3, <1>6, <1>8, <1>12
    <3>2. PICK m \in MasterIds : tally[m].of = task.v /\ ~tally[m].gone
      BY <3>1, <1>1, MeantFacts
    <3>3. tally[m].news
      BY <3>1, <3>2, <2>3, <1>3, <1>8 DEF IInv, Places, NewsFirst
    <3>4. m \in Copies(u)'
      BY <3>1, <3>2, <2>3 DEF Copies, MasterIds
    <3>5. QED BY <3>1, <3>3, <3>4
  <2>4. CASE u # task.v /\ Unsent(u) # {}
    BY <2>4, <1>7
  <2>5. QED BY <2>1, <2>2, <2>3, <2>4 DEF Over
<1>14. CancelOwed'
  <2> SUFFICES ASSUME NEW u \in Ids, vch[u] # None, vch[u].status = "cancelled", ~Orphaned(u)',
                      \A row \in Cancels(u) : row.id \in agent'.sent
               PROVE  /\ \E m \in Copies(u)' : tally'[m].cancelled
                      /\ \A t \in TasksOf(u)' : t.cancelled
    BY <1>2, <1>4 DEF CancelOwed
  <2>0. Lived(u) /\ ~Orphaned(u)
    BY <1>9 DEF Lived
  <2>1. \/ \E row \in Cancels(u) : row.id \notin agent.sent
        \/ /\ \E m \in Copies(u) : tally[m].cancelled
           /\ \A t \in TasksOf(u) : t.cancelled
    BY <2>0 DEF IInv, Owing, CancelOwed
  <2>2. CASE \E row \in Cancels(u) : row.id \notin agent.sent
    <3>1. PICK row \in Cancels(u) : row.id \notin agent.sent
      BY <2>2
    <3>2. acked /\ row.id = task.row /\ row \in queue /\ row.v = u /\ row.action = "Cancel"
      BY <3>1, <1>3 DEF Cancels, Pending
    <3>3. u = task.v /\ task.queued = "Cancel" /\ task.send = "Cancel"
      BY <3>2, <1>5, <1>8
    <3>4. Carried(task, tally')
      BY <3>2, <3>3, <1>12
    <3>5. \E m \in Copies(u)' : tally'[m].cancelled
      BY <3>3, <3>4, CarriedOwn
    <3>6. \A t \in TasksOf(u) : t.cancelled
      BY <3>1, <3>2 DEF IInv, Owing, CancelTold
    <3>7. QED BY <3>5, <3>6, <1>4
  <2>3. CASE (\E m \in Copies(u) : tally[m].cancelled) /\ \A t \in TasksOf(u) : t.cancelled
    <3>1. CASE u # task.v
      BY <2>0, <2>3, <3>1, <1>4, <1>10
    <3>2. CASE u = task.v
      <4>1. task.cancelled /\ task.send # "Delete"
        BY <2>3, <3>2, <1>8
      <4>2. \E m \in Copies(u)' : tally'[m].cancelled
        BY <4>1, <2>3, <3>2, <1>11
      <4>3. QED BY <4>2, <2>3, <1>4
    <3>3. QED BY <3>1, <3>2
  <2>4. QED BY <2>1, <2>2, <2>3
<1>15. CancelTold'
  BY <1>2, <1>3, <1>4 DEF IInv, Owing, CancelTold
<1>16. DeleteOwed'
  <2> SUFFICES ASSUME NEW u \in Ids, audit[u] # None, u \notin raced, ~Orphaned(u)',
                      Copies(u)' # {} \/ \E t \in TasksOf(u)' : t.send = "Write"
               PROVE  \E row \in Unsent(u)' : row.action = "Delete" /\ (row.master # 0 \/ row.remote)
    BY <1>2 DEF DeleteOwed
  <2>0. Lived(u) /\ ~Orphaned(u) /\ vch[u] = None
    BY <1>9 DEF Lived, IInv, Lives, AuditTrue
  <2>1. \/ Copies(u) # {} \/ \E t \in TasksOf(u) : t.send = "Write"
    <3>1. CASE u # task.v
      BY <3>1, <2>0, <1>4, <1>10
    <3>2. CASE u = task.v
      BY <3>2, <1>4, <1>8, <1>11
    <3>3. QED BY <3>1, <3>2
  <2>2. PICK row \in Unsent(u) : row.action = "Delete" /\ (row.master # 0 \/ row.remote)
    BY <2>0, <2>1 DEF IInv, Owing, DeleteOwed
  <2>3. CASE row \in Unsent(u)'
    BY <2>2, <2>3
  <2>4. CASE acked /\ row.id = task.row /\ row \in queue
    <3>1. u = task.v /\ task.send = "Delete" /\ task.queued = "Delete"
      BY <2>2, <2>4, <1>5, <1>8 DEF Unsent, Pending
    <3>2. CASE Carried(task, tally')
      <4>1. Copies(u)' = {}
        BY <3>1, <3>2, CarriedOwn
      <4>2. \A t \in TasksOf(u)' : t.send # "Write"
        BY <3>1, <1>4, <1>8
      <4>3. QED BY <4>1, <4>2
    \* What is not there was to be found by its REMOTEID.
    <3>3. CASE tally' = tally /\ task.master = 0 /\ Meant(task) = {}
      <4>1. row.master = task.master /\ row.remote = task.remote
        BY <3>1, <2>4 DEF IInv, Places, Tasks
      <4>2. task.remote /\ u \in Vouchers
        BY <4>1, <3>1, <3>3, <2>2, <1>1, <1>8 DEF IInv, Lives, MadeAddressed, Ids
      <4>3. Copies(u) = {}
        <5>1. u \notin MasterIds
          BY <4>2, Kinds
        <5>2. \A m \in MasterIds : tally[m].of = u => tally[m].gone
          BY <4>2, <3>1, <3>3 DEF Meant, Among, MasterIds
        <5>3. QED BY <5>1, <5>2 DEF Copies
      <4>4. Copies(u)' = {}
        BY <4>3, <3>3 DEF Copies, MasterIds
      <4>5. \A t \in TasksOf(u)' : t.send # "Write"
        BY <3>1, <1>4, <1>8
      <4>6. QED BY <4>4, <4>5
    <3>4. QED BY <3>1, <3>2, <3>3, <2>4, <1>12
  <2>5. QED BY <2>3, <2>4, <2>2, <1>6
<1>17. QED BY <1>13, <1>14, <1>15, <1>16 DEF Owing

\* The agent sends, is refused, or gets no answer.
LEMMA SendKeeps ==
  ASSUME IInv, Send \/ SendRefused \/ SendUnanswered
  PROVE  IInv'
<1>1. TypeOK /\ agent.pc = "send" /\ First \subseteq agent.batch /\ Len(tally) \in Nat
  BY TypeFacts DEF IInv, Send, SendRefused, SendUnanswered, First
<1>2. UNCHANGED <<portalVars, changes, tallyEdits, history>> /\ faults' \in 0 .. MaxFaults
  <2>1. UNCHANGED <<portalVars, changes, tallyEdits, history>>
    BY DEF Send, SendRefused, SendUnanswered
  <2>2. faults' = faults \/ (faults < MaxFaults /\ faults' = faults + 1)
    BY DEF Send, SendRefused, SendUnanswered, Fault
  <2>3. faults \in 0 .. MaxFaults /\ MaxFaults \in Nat
    BY <1>1, BoundsAssumption DEF TypeOK
  <2>4. QED BY <2>1, <2>2, <2>3
<1>3. CASE Send
  <2>1. PICK task \in agent.batch :
          \/ /\ Accepts(task) /\ tally' \in Applied(task)
             /\ Onward(task, TRUE, IF task.send # "Delete" THEN Identity(task) ELSE {})
          \/ /\ ~Accepts(task) /\ tally' = tally
             /\ \E acked \in AlreadyDone(task) : Onward(task, acked, {})
    BY <1>1, <1>3 DEF Send
  <2>2. CASE Accepts(task) /\ Onward(task, TRUE, IF task.send # "Delete" THEN Identity(task) ELSE {})
                /\ tally' \in Applied(task)
    <3> DEFINE idents == IF task.send # "Delete" THEN Identity(task) ELSE {}
    <3>1. Carried(task, tally')
      BY <2>2, AppliedFacts
    <3>2. PICK m \in MasterIds' :
            /\ MasterIds' = MasterIds \cup {m} /\ Len(tally') \in Nat
            /\ \/ m \in MasterIds /\ m \in Meant(task)
               \/ m \notin MasterIds /\ tally'[m].of = task.v /\ Meant(task) = {}
      BY <3>1, CarriedFacts
    <3>3. ASSUME NEW i \in idents
          PROVE  /\ i \in [v : Ids, master : MasterIds'] /\ i.v = task.v /\ task.send # "Delete"
                 /\ \/ i.master \in Meant(task)
                    \/ Meant(task) = {} /\ i.master \notin MasterIds /\ tally'[i.master].of = task.v
      <4>1. task.send # "Delete" /\ i \in Identity(task) /\ task.v \in Ids
        BY <3>3, <1>1, TypeFacts DEF AgentTask
      <4>2. PICK n : /\ i = [v |-> task.v, master |-> n]
                     /\ n \in IF Meant(task) = {} THEN {Len(tally) + 1} ELSE Meant(task)
        BY <4>1 DEF Identity
      <4>3. CASE Meant(task) # {}
        BY <4>1, <4>2, <4>3, <3>2, MeantFacts
      <4>4. CASE Meant(task) = {}
        <5>1. n = Len(tally) + 1 /\ m \notin MasterIds /\ tally'[m].of = task.v
          BY <4>2, <4>4, <3>2
        <5>2. Len(tally') > Len(tally)
          BY <5>1, <3>2, <1>1 DEF MasterIds
        <5>3. n \in MasterIds' /\ n \notin MasterIds
          BY <5>1, <5>2, <3>2, <1>1 DEF MasterIds
        <5>4. n = m
          BY <5>3, <3>2
        <5>5. QED BY <4>1, <4>2, <4>4, <5>1, <5>3, <5>4
      <4>5. QED BY <4>3, <4>4
    <3> HIDE DEF idents
    <3>4. Over(task, TRUE, idents)
      BY <2>2, <3>1, <3>3 DEF Over, idents
    <3>5. QED BY <1>1, <1>2, <3>4, OverPlaces, OverOwes DEF IInv
  <2>3. CASE ~Accepts(task) /\ tally' = tally /\ \E acked \in AlreadyDone(task) : Onward(task, acked, {})
    <3>1. PICK acked \in BOOLEAN : /\ Onward(task, acked, {})
                                   /\ acked => task.send = "Delete" /\ task.master = 0
      BY <2>3 DEF AlreadyDone
    <3>2. Over(task, acked, {})
      BY <2>3, <3>1 DEF Over, Accepts
    <3>3. QED BY <1>1, <1>2, <3>2, OverPlaces, OverOwes DEF IInv
  <2>4. QED BY <2>1, <2>2, <2>3
<1>4. CASE SendRefused
  <2>1. PICK task \in agent.batch : Over(task, FALSE, {})
    BY <1>1, <1>4 DEF SendRefused, Over
  <2>2. QED BY <1>1, <1>2, <2>1, OverPlaces, OverOwes DEF IInv
<1>5. CASE SendUnanswered
  <2>1. PICK task \in agent.batch, acked \in BOOLEAN :
          /\ tally' \in {tally} \cup IF Accepts(task) THEN Applied(task) ELSE {}
          /\ Onward(task, acked, {})
          /\ acked => LookedUp(task) /\ Among(tally', task) # {}
    BY <1>1, <1>5 DEF SendUnanswered
  <2>2. tally' = tally \/ Carried(task, tally')
    BY <2>1, AppliedFacts
  <2>3. Over(task, acked, {})
    BY <2>1, <2>2 DEF Over, Meant
  <2>4. QED BY <1>1, <1>2, <2>1, <2>3, OverPlaces, OverOwes DEF IInv
<1>6. QED BY <1>3, <1>4, <1>5
-----------------------------------------------------------------------------
(* The rest of the agent's round, and the users of Tally *)

AgentState ==
  [pc : {"idle", "send", "ack", "report", "pull", "import"}, batch : SUBSET AgentTask,
   sent : SUBSET (1 .. rows), idents : SUBSET [v : Ids, master : MasterIds],
   pulled : UNION {[S -> TallyVoucher] : S \in SUBSET MasterIds}]

\* An agent at rest has nothing in hand.
LEMMA RestFacts ==
  ASSUME NEW p \in {"idle", "send", "ack", "report", "pull", "import"}
  PROVE  /\ AtRest(p) \in AgentState /\ AtRest(p).pc = p /\ AtRest(p).batch = {}
         /\ AtRest(p).sent = {} /\ AtRest(p).idents = {} /\ DOMAIN AtRest(p).pulled = {}
<1>1. Nothing \in [{} -> TallyVoucher] /\ DOMAIN Nothing = {}
  BY DEF Nothing
<1>2. {} \in SUBSET MasterIds
  OBVIOUS
<1>3. Nothing \in UNION {[S -> TallyVoucher] : S \in SUBSET MasterIds}
  BY <1>1, <1>2
<1>4. QED BY <1>1, <1>3 DEF AtRest, AgentState

\* What an agent does not do at the moment it has nothing in hand for.
LEMMA HandsFree ==
  ASSUME IInv
  PROVE  /\ agent.pc # "send" => agent.batch = {} /\ \A v \in Ids : TasksOf(v) = {}
         /\ agent.pc \notin {"send", "ack"} => agent.sent = {}
         /\ agent.pc \notin {"send", "ack", "report"} => agent.idents = {}
         /\ agent.pc # "import" => Pulled = {}
BY DEF IInv, Places, Phases, TasksOf

\* Tally marks what it has as news or as known: everything else of it stays.
LEMMA MarksFacts ==
  ASSUME TypeOK, NEW marks \in [MasterIds -> BOOLEAN],
         tally' = [m \in MasterIds |-> [tally[m] EXCEPT !.news = marks[m]]]
  PROVE  /\ tally' \in Seq(TallyVoucher) /\ Len(tally') = Len(tally) /\ MasterIds' = MasterIds
         /\ \A m \in MasterIds : /\ tally'[m].of = tally[m].of /\ tally'[m].gone = tally[m].gone
                                 /\ tally'[m].text = tally[m].text /\ tally'[m].news = marks[m]
                                 /\ tally'[m].cancelled = tally[m].cancelled
         /\ \A v \in Ids : Copies(v)' = Copies(v) /\ (Orphaned(v)' <=> Orphaned(v))
<1>1. Len(tally) \in Nat /\ \A m \in MasterIds : tally[m] \in TallyVoucher
  BY TypeFacts
<1>2. tally' \in [1 .. Len(tally) -> TallyVoucher]
  BY <1>1 DEF MasterIds, TallyVoucher
<1>3. tally' \in Seq(TallyVoucher) /\ Len(tally') = Len(tally)
  BY <1>1, <1>2, SeqDef, LenProperties
<1>4. MasterIds' = MasterIds
  BY <1>3 DEF MasterIds
<1>5. \A m \in MasterIds : /\ tally'[m].of = tally[m].of /\ tally'[m].gone = tally[m].gone
                           /\ tally'[m].text = tally[m].text /\ tally'[m].news = marks[m]
                           /\ tally'[m].cancelled = tally[m].cancelled
  BY <1>1 DEF TallyVoucher
<1>6. ASSUME NEW v \in Ids PROVE Copies(v)' = Copies(v)
  BY <1>4, <1>5 DEF Copies
<1>7. ASSUME NEW v \in Ids PROVE Orphaned(v)' <=> Orphaned(v)
  BY <1>4, <1>5 DEF Orphaned
<1>8. QED BY <1>3, <1>4, <1>5, <1>6, <1>7

\* The types, when the portal's vouchers, the rows that wait and the agent change.
LEMMA AgentTypes ==
  ASSUME TypeOK, tally' \in Seq(TallyVoucher), Len(tally') = Len(tally), agent' \in AgentState,
         vch' \in [Ids -> PortalVoucher \cup {None}], queue' \subseteq queue,
         UNCHANGED <<audit, rows, deleting, changes>>,
         tallyEdits' \in 0 .. MaxTallyEdits, faults' \in 0 .. MaxFaults
  PROVE  TypeOK'
<1>1. /\ MasterIds' = MasterIds /\ PortalVoucher' = PortalVoucher /\ Identifiers' = Identifiers
      /\ QueueRow' = QueueRow /\ TallyVoucher' = TallyVoucher /\ AgentTask' = AgentTask
  BY DEF MasterIds, PortalVoucher, Identifiers, QueueRow, TallyVoucher, AgentTask
<1>2. agent' \in AgentState'
  BY <1>1 DEF AgentState
<1>3. QED BY <1>1, <1>2 DEF TypeOK, AgentState

\* A step that leaves the agent nothing to send: what is still to be said of it is where
\* the news is and whether what differs is owed.  A voucher may get the address of a place of
\* its own; one may be made that never was, from a place the portal does not know.
LEMMA RoundKeeps ==
  ASSUME IInv, agent'.batch = {}, agent'.idents \subseteq agent.idents, MasterIds' = MasterIds,
         \A m \in MasterIds : /\ tally'[m].of = tally[m].of /\ tally'[m].gone = tally[m].gone
                              /\ tally'[m].cancelled = tally[m].cancelled
                              /\ tally[m].gone => ~tally'[m].news,
         UNCHANGED <<audit, deleting, raced>>, queue' \subseteq queue,
         \A u \in Ids : Unsent(u) \subseteq Unsent(u)',
         \A u \in Ids : vch[u] = None /\ vch'[u] # None =>
           /\ u \in Made \cap MasterIds /\ ~Lived(u)
           /\ vch'[u].status = "confirmed" /\ vch'[u].master = u,
         \A u \in Ids : vch[u] # None =>
           /\ vch'[u] # None /\ vch'[u].status = vch[u].status /\ Named(vch'[u], u)
           /\ vch'[u].master \in 0 .. Len(tally)
           /\ vch[u].remote => vch'[u].remote
           /\ vch'[u].master = vch[u].master \/ vch'[u].master # 0
  PROVE  /\ OnePlace' /\ Begun' /\ Deletes' /\ GoneForGood' /\ Addresses'
         /\ Tasks' /\ Reachable' /\ CancelOwed' /\ CancelTold' /\ DeleteOwed'
         /\ AuditTrue' /\ MadeAddressed' /\ Offspring'
<1>1. /\ TypeOK /\ Len(tally) \in Nat /\ audit' = audit /\ deleting' = deleting /\ raced' = raced
      /\ \A row \in queue : row.v \in Ids
      /\ \A m \in MasterIds : tally[m].of \in Ids
      /\ \A i \in agent.idents : i.v \in Ids /\ i.master \in MasterIds
      /\ \A n \in 0 .. Len(tally) : n # 0 => n \in MasterIds
      /\ 0 \notin MasterIds
  BY TypeFacts DEF IInv, TypeOK, QueueRow, TallyVoucher, MasterIds
<1>2. \A u \in Ids : /\ Copies(u)' = Copies(u) /\ TasksOf(u)' = {} /\ Pending(u)' \subseteq Pending(u)
                     /\ Orphaned(u)' <=> Orphaned(u)
                     /\ Lived(u) => Lived(u)'
  BY <1>1 DEF Copies, TasksOf, Pending, Orphaned, Lived
<1>3. OnePlace' /\ Offspring' /\ AuditTrue'
  <2>1. OnePlace'
    BY DEF IInv, Places, OnePlace
  <2>2. Offspring'
    BY <1>1, <1>2 DEF IInv, Lives, Offspring
  <2>3. \A u \in Ids : audit[u] \notin {None, 0} => audit[u] \in MasterIds
    BY <1>1 DEF TypeOK
  <2>4. AuditTrue'
    BY <2>3, <1>1 DEF IInv, Lives, AuditTrue, At, Lived
  <2>5. QED BY <2>1, <2>2, <2>4
<1>4. Begun'
  BY <1>1, <1>2 DEF IInv, Places, Begun
<1>5. Deletes' /\ Tasks' /\ CancelTold'
  <2>1. \A row \in queue : row \in Pending(row.v)
    BY DEF Pending
  <2>2. \A row \in queue : Lived(row.v)
    BY <2>1, <1>1 DEF IInv, Places, Begun
  <2>3. QED BY <2>2, <1>1 DEF IInv, Places, Deletes, Tasks, CancelTold
<1>6. GoneForGood' /\ Reachable'
  <2>1. GoneForGood'
    BY <1>1, <1>2, Kinds DEF IInv, Places, GoneForGood
  <2>2. Reachable'
    BY <1>1 DEF IInv, Places, Reachable
  <2>3. QED BY <2>1, <2>2
<1>7. Addresses'
  <2>1. /\ \A u \in Ids : deleting[u] # None => deleting[u].master \in 0 .. Len(tally)
        /\ \A row \in queue : row.master \in 0 .. Len(tally)
    BY <1>1, TypeFacts DEF Identifiers, QueueRow, TypeOK
  <2>2. /\ \A u \in Ids : deleting[u] # None => Named(deleting[u], u)
        /\ \A row \in queue : Named(row, row.v)
        /\ \A i \in agent.idents : Named(i, i.v)
    BY DEF IInv, Places, Addresses
  <2>3. /\ \A u \in Ids : deleting[u] # None => Named(deleting[u], u)'
        /\ \A row \in queue : Named(row, row.v)'
        /\ \A i \in agent.idents : Named(i, i.v)'
    BY <2>1, <2>2, <1>1 DEF Named, At
  <2>4. \A u \in Ids : vch'[u] # None => Named(vch[u], u)'
    BY <1>1 DEF Named, At
  <2>5. QED BY <2>3, <2>4, <1>1, <1>2 DEF Addresses
<1>8. \A u \in Ids : \A row \in Unsent(u) : row \in Pending(u)' /\ row.id \notin agent'.sent
  BY DEF Unsent
<1>9. CancelOwed'
  BY <1>2, <1>8 DEF IInv, Owing, CancelOwed, Cancels, Unsent, Copies
<1>10. DeleteOwed'
  BY <1>1, <1>2 DEF IInv, Owing, DeleteOwed
<1>11. MadeAddressed'
  BY <1>1, <1>2, Kinds DEF IInv, Lives, MadeAddressed
<1>12. QED BY <1>3, <1>4, <1>5, <1>6, <1>7, <1>9, <1>10, <1>11

\* The same of a step that leaves every voucher its master id.
LEMMA RoundLives ==
  ASSUME IInv, agent'.batch = {}, agent'.idents \subseteq agent.idents, MasterIds' = MasterIds,
         \A m \in MasterIds : tally'[m].of = tally[m].of /\ tally'[m].gone = tally[m].gone,
         UNCHANGED <<vch, audit, deleting>>
  PROVE  DeletedStaysDeleted' /\ MadeFrom' /\ Stale' /\ Moves'
<1>1. /\ TypeOK /\ vch' = vch /\ audit' = audit /\ deleting' = deleting
      /\ \A m \in MasterIds : tally[m].of \in Ids
      /\ \A i \in agent.idents : i.v \in Ids /\ i.master \in MasterIds
      /\ \A u \in Ids : /\ vch[u] # None => vch[u].master = 0 \/ vch[u].master \in MasterIds
                        /\ deleting[u] # None => deleting[u].master = 0 \/ deleting[u].master \in MasterIds
  BY TypeFacts DEF IInv, TallyVoucher, PortalVoucher, Identifiers, MasterIds
<1>2. \A u \in Ids : TasksOf(u)' = {} /\ (Lived(u)' <=> Lived(u))
  BY <1>1 DEF TasksOf, Lived
<1>3. DeletedStaysDeleted'
  BY <1>1 DEF IInv, DeletedStaysDeleted
<1>4. MadeFrom'
  BY <1>1, <1>2, Kinds DEF IInv, Lives, MadeFrom
<1>5. Stale' /\ Moves'
  BY <1>1 DEF IInv, Lives, Stale, Moves
<1>6. QED BY <1>3, <1>4, <1>5

\* Rows are removed only when they are acknowledged, and lost answers only keep them.
LEMMA AcknowledgeKeeps ==
  ASSUME IInv, Acknowledge
  PROVE  IInv'
<1>1. /\ TypeOK /\ agent.pc = "ack" /\ agent.batch = {} /\ Pulled = {}
      /\ tally' = tally /\ vch' = vch
      /\ UNCHANGED <<audit, rows, deleting, changes, tallyEdits, raced>>
  BY HandsFree DEF IInv, Acknowledge, history
<1>2. queue' \subseteq queue /\ \A row \in queue : row.id \notin agent.sent => row \in queue'
  BY DEF Acknowledge
<1>3. faults' \in 0 .. MaxFaults
  BY <1>1, BoundsAssumption DEF Acknowledge, Fault, NoFault, TypeOK
<1>4. agent \in AgentState
  BY <1>1 DEF TypeOK, AgentState
<1>5. agent' = [agent EXCEPT !.pc = "report", !.sent = {}]
  BY DEF Acknowledge
<1>6. /\ agent' \in AgentState /\ agent'.pc = "report" /\ agent'.batch = {} /\ agent'.sent = {}
      /\ agent'.idents = agent.idents /\ agent'.pulled = agent.pulled
  BY <1>1, <1>4, <1>5 DEF AgentState
<1>7. TypeOK'
  BY <1>1, <1>2, <1>3, <1>6, AgentTypes DEF TypeOK
<1>8. /\ MasterIds' = MasterIds /\ Pulled' = {}
      /\ \A u \in Ids : Copies(u)' = Copies(u) /\ (Orphaned(u)' <=> Orphaned(u))
  BY <1>1, <1>6 DEF MasterIds, Pulled, Copies, Orphaned
<1>9. \A u \in Ids : Unsent(u) \subseteq Unsent(u)'
  BY <1>2, <1>6 DEF Unsent, Pending
<1>10. /\ OnePlace' /\ Begun' /\ Deletes' /\ GoneForGood' /\ Addresses'
       /\ Tasks' /\ Reachable' /\ CancelOwed' /\ CancelTold' /\ DeleteOwed'
       /\ AuditTrue' /\ MadeAddressed' /\ Offspring'
  <2>1. \A m \in MasterIds : tally[m].gone => ~tally[m].news
    BY DEF IInv, Places, GoneForGood
  <2>2. \A u \in Ids : vch[u] # None => Named(vch[u], u) /\ vch[u].master \in 0 .. Len(tally)
    BY <1>1, TypeFacts DEF IInv, Places, Addresses, PortalVoucher
  <2>3. QED BY <2>1, <2>2, <1>1, <1>2, <1>6, <1>8, <1>9, RoundKeeps
<1>11. Phases' /\ NewsFirst' /\ PulledIsTrue'
  BY <1>1, <1>6, <1>8 DEF IInv, Places, Phases, NewsFirst, PulledIsTrue
<1>12. ChangesOwed'
  BY <1>1, <1>8, <1>9 DEF IInv, Owing, ChangesOwed, Same, MarkedCancelled
<1>13. DeletedStaysDeleted' /\ MadeFrom' /\ Stale' /\ Moves'
  BY <1>1, <1>6, <1>8, RoundLives
<1>14. QED BY <1>7, <1>10, <1>11, <1>12, <1>13 DEF IInv, Places, Lives, Owing

\* The identities give vouchers their addresses.
LEMMA ReportKeeps ==
  ASSUME IInv, Report
  PROVE  IInv'
<1>1. /\ TypeOK /\ agent.pc = "report" /\ agent.batch = {} /\ agent.sent = {} /\ Pulled = {}
      /\ tally' = tally /\ queue' = queue /\ agent' = AtRest("pull")
      /\ UNCHANGED <<audit, rows, deleting, changes, tallyEdits, raced>>
  BY HandsFree DEF IInv, Report, history
<1>2. faults' \in 0 .. MaxFaults
  BY <1>1, BoundsAssumption DEF Report, Fault, NoFault, TypeOK
<1>3. \A u \in Ids :
        \/ vch'[u] = vch[u]
        \/ /\ vch[u] # None
           /\ \E i \in agent.idents : i.v = u /\ vch'[u] = [vch[u] EXCEPT !.master = i.master]
  <2> SUFFICES ASSUME NEW u \in Ids, vch'[u] # vch[u]
               PROVE  /\ vch[u] # None
                      /\ \E i \in agent.idents : i.v = u /\ vch'[u] = [vch[u] EXCEPT !.master = i.master]
    OBVIOUS
  <2>1. /\ vch[u] # None /\ \E i \in agent.idents : i.v = u
        /\ vch'[u] = [vch[u] EXCEPT !.master = (CHOOSE i \in agent.idents : i.v = u).master]
    BY DEF Report
  <2>2. PICK i \in agent.idents : /\ i = CHOOSE j \in agent.idents : j.v = u
                                  /\ i.v = u
    BY <2>1
  <2>3. QED BY <2>1, <2>2
<1>4. \A u \in Ids : vch[u] # None =>
         /\ vch'[u] \in PortalVoucher /\ vch'[u] # None /\ vch'[u].status = vch[u].status
         /\ vch'[u].text = vch[u].text /\ vch'[u].cancelled = vch[u].cancelled
         /\ vch'[u].remote = vch[u].remote /\ Named(vch'[u], u) /\ vch'[u].master \in 0 .. Len(tally)
         /\ vch'[u].master = vch[u].master \/ vch'[u].master # 0
  <2> SUFFICES ASSUME NEW u \in Ids, vch[u] # None
               PROVE  /\ vch'[u] \in PortalVoucher /\ vch'[u] # None /\ vch'[u].status = vch[u].status
                      /\ vch'[u].text = vch[u].text /\ vch'[u].cancelled = vch[u].cancelled
                      /\ vch'[u].remote = vch[u].remote /\ Named(vch'[u], u) /\ vch'[u].master \in 0 .. Len(tally)
                      /\ vch'[u].master = vch[u].master \/ vch'[u].master # 0
    OBVIOUS
  <2>1. vch[u] \in PortalVoucher /\ Named(vch[u], u) /\ None \notin PortalVoucher
    BY <1>1, TypeFacts, NoneIsNoRecord DEF IInv, Places, Addresses
  <2>2. CASE vch'[u] = vch[u]
    BY <2>1, <2>2 DEF PortalVoucher
  <2>3. CASE \E i \in agent.idents : i.v = u /\ vch'[u] = [vch[u] EXCEPT !.master = i.master]
    <3>1. PICK i \in agent.idents : i.v = u /\ vch'[u] = [vch[u] EXCEPT !.master = i.master]
      BY <2>3
    <3>2. i.master \in 0 .. Len(tally) /\ i.master # 0
      BY <1>1, TypeFacts DEF MasterIds
    <3>3. Named(i, u)
      BY <3>1 DEF IInv, Places, Addresses
    <3>4. QED BY <2>1, <3>1, <3>2, <3>3 DEF PortalVoucher, Named
  <2>4. QED BY <2>2, <2>3, <1>3
<1>5. vch' \in [Ids -> PortalVoucher \cup {None}] /\ \A u \in Ids : vch'[u] = None <=> vch[u] = None
  <2>1. \A u \in Ids : vch[u] = None => vch'[u] = None
    BY <1>3
  <2>2. \E f : vch' = [u \in Ids |-> f[u]]
    <3>1. CASE vch' = vch
      <4>1. vch' = [u \in Ids |-> vch[u]]
        BY <3>1, <1>1 DEF TypeOK
      <4>2. QED BY <4>1
    <3>2. CASE vch' # vch
      <4>1. vch' = [u \in Ids |-> vch'[u]]
        BY <3>2 DEF Report
      <4>2. QED BY <4>1
    <3>3. QED BY <3>1, <3>2
  <2>3. QED BY <2>1, <2>2, <1>4
<1>6. /\ agent' \in AgentState /\ agent'.pc = "pull" /\ agent'.batch = {} /\ agent'.sent = {}
      /\ agent'.idents = {} /\ DOMAIN agent'.pulled = {}
  BY <1>1, RestFacts
<1>7. TypeOK'
  BY <1>1, <1>2, <1>5, <1>6, AgentTypes DEF TypeOK
<1>8. /\ MasterIds' = MasterIds /\ Pulled' = {}
      /\ \A u \in Ids : /\ Copies(u)' = Copies(u) /\ (Orphaned(u)' <=> Orphaned(u))
                        /\ Unsent(u) \subseteq Unsent(u)'
                        /\ Lived(u)' <=> Lived(u)
  BY <1>1, <1>5, <1>6 DEF MasterIds, Pulled, Copies, Orphaned, Unsent, Pending, Lived
<1>9. /\ OnePlace' /\ Begun' /\ Deletes' /\ GoneForGood' /\ Addresses'
      /\ Tasks' /\ Reachable' /\ CancelOwed' /\ CancelTold' /\ DeleteOwed'
      /\ AuditTrue' /\ MadeAddressed' /\ Offspring'
  <2>1. \A m \in MasterIds : tally[m].gone => ~tally[m].news
    BY DEF IInv, Places, GoneForGood
  <2>2. QED BY <2>1, <1>1, <1>4, <1>5, <1>6, <1>8, RoundKeeps
<1>10. Phases' /\ PulledIsTrue'
  BY <1>6, <1>8 DEF Phases, PulledIsTrue
<1>11. NewsFirst'
  <2>1. \A m \in MasterIds : tally[m].of \in Ids
    BY <1>1, TypeFacts DEF TallyVoucher
  <2>2. QED BY <2>1, <1>1, <1>4, <1>5, <1>8 DEF IInv, Places, NewsFirst
<1>12. ChangesOwed'
  BY <1>1, <1>4, <1>5, <1>8 DEF IInv, Owing, ChangesOwed, Same, MarkedCancelled
<1>13. Stale' /\ Moves'
  <2> SUFFICES ASSUME NEW u \in Ids, vch[u] # None, deleting[u] # None,
                      deleting[u].master # 0, deleting[u].master # vch'[u].master
               PROVE  tally[deleting[u].master].gone
    BY <1>1, <1>5, <1>6 DEF Stale, Moves
  <2>1. CASE vch'[u] = vch[u]
    BY <2>1 DEF IInv, Lives, Stale
  <2>2. CASE vch'[u] # vch[u]
    <3>1. PICK i \in agent.idents : i.v = u /\ vch'[u] = [vch[u] EXCEPT !.master = i.master]
      BY <2>2, <1>3
    <3>2. vch[u] \in PortalVoucher
      BY <1>1, TypeFacts
    <3>3. i.master # vch[u].master
      BY <2>2, <3>1, <3>2 DEF PortalVoucher
    <3>4. vch[u].master = 0 \/ tally[vch[u].master].gone
      BY <3>1, <3>3 DEF IInv, Lives, Moves
    <3>5. deleting[u].master = vch[u].master \/ tally[deleting[u].master].gone
      BY DEF IInv, Lives, Stale
    <3>6. QED BY <3>4, <3>5
  <2>3. QED BY <2>1, <2>2
<1>14. MadeFrom'
  <2> SUFFICES ASSUME NEW w \in Made, Lived(w), NEW x, x = tally[w].of
               PROVE  /\ w \in MasterIds
                      /\ vch[x] # None => /\ x \in Made /\ vch'[x].master # w
                                          /\ deleting[x] # None => deleting[x].master # w
    <3>1. \A w \in Made : Lived(w) => w \in MasterIds /\ tally[w].of \in Ids
      BY <1>1, TypeFacts DEF IInv, Lives, MadeFrom, TallyVoucher
    <3>2. \A u : TasksOf(u)' = {}
      BY <1>6 DEF TasksOf
    <3>3. \A w \in Made : Lived(w)' <=> Lived(w)
      BY <1>8, Kinds
    <3>4. QED BY <3>1, <3>2, <3>3, <1>1, <1>5, <1>6, <1>8 DEF MadeFrom
  <2>1. w \in MasterIds /\ x \in Ids
    BY <1>1, TypeFacts DEF IInv, Lives, MadeFrom, TallyVoucher
  <2>2. ASSUME vch[x] # None
        PROVE  /\ x \in Made /\ vch'[x].master # w
               /\ deleting[x] # None => deleting[x].master # w
    <3>1. /\ x \in Made /\ vch[x].master # w /\ (deleting[x] # None => deleting[x].master # w)
          /\ \A i \in agent.idents : i.v # x \/ i.master # w
      BY <2>2 DEF IInv, Lives, MadeFrom
    <3>2. vch[x] \in PortalVoucher
      BY <2>1, <2>2, <1>1, TypeFacts
    <3>3. \A i \in agent.idents : i.v = x => [vch[x] EXCEPT !.master = i.master].master # w
      BY <3>1, <3>2 DEF PortalVoucher
    <3>4. vch'[x].master # w
      <4>1. CASE vch'[x] = vch[x]
        BY <4>1, <3>1
      <4>2. CASE vch'[x] # vch[x]
        <5>1. PICK i \in agent.idents : i.v = x /\ vch'[x] = [vch[x] EXCEPT !.master = i.master]
          BY <4>2, <2>1, <1>3
        <5>2. QED BY <5>1, <3>3
      <4>3. QED BY <4>1, <4>2
    <3>5. QED BY <3>1, <3>4
  <2>3. QED BY <2>1, <2>2
<1>15. DeletedStaysDeleted'
  <2> SUFFICES ASSUME NEW v \in Ids, NEW u \in Ids, audit[v] \notin {None, 0}, vch[u] # None,
                      vch'[u].master = audit[v]
               PROVE  FALSE
    BY <1>1, <1>5 DEF DeletedStaysDeleted
  <2>1. vch[u].master # audit[v] /\ vch[v] = None /\ At(audit[v], v)
    BY DEF IInv, DeletedStaysDeleted, Lives, AuditTrue
  <2>2. PICK i \in agent.idents : i.v = u /\ vch'[u] = [vch[u] EXCEPT !.master = i.master]
    BY <2>1, <1>3
  <2>3. i.master = audit[v] /\ i.master \in MasterIds
    BY <2>2, <1>1, TypeFacts DEF PortalVoucher
  <2>4. tally[i.master].of = u
    BY <2>1, <2>2, <2>3 DEF IInv, Lives, Moves
  <2>5. i.master = v
    BY <2>1, <2>3, <2>4 DEF At
  <2>6. v \in Made /\ Lived(v)
    BY <2>3, <2>5, Kinds DEF Lived
  <2>7. QED BY <2>2, <2>4, <2>5, <2>6 DEF IInv, Lives, MadeFrom
<1>16. QED BY <1>7, <1>9, <1>10, <1>11, <1>12, <1>13, <1>14, <1>15 DEF IInv, Places, Lives, Owing

\* What is news is in hand once it is pulled.
LEMMA PullKeeps ==
  ASSUME IInv, Pull \/ NoPull
  PROVE  IInv'
<1>1. /\ TypeOK /\ agent.pc = "pull" /\ agent.batch = {} /\ agent.sent = {} /\ agent.idents = {} /\ Pulled = {}
      /\ UNCHANGED <<vch, audit, queue, rows, deleting, changes, tallyEdits, faults, raced>>
  BY HandsFree DEF IInv, Pull, NoPull, portalVars, history
<1>2. \A m \in MasterIds : tally[m].gone => ~tally[m].news
  BY DEF IInv, Places, GoneForGood
<1>3. \A u \in Ids : vch[u] # None => Named(vch[u], u) /\ vch[u].master \in 0 .. Len(tally)
  BY <1>1, TypeFacts DEF IInv, Places, Addresses, PortalVoucher
<1>4. CASE Pull
  <2>1. /\ agent' = [AtRest("import") EXCEPT !.pulled = [m \in News |-> tally[m]]]
        /\ tally' = [m \in MasterIds |-> [tally[m] EXCEPT !.news = FALSE]]
    BY <1>4 DEF Pull
  <2> DEFINE marks == [m \in MasterIds |-> FALSE]
  <2>2. marks \in [MasterIds -> BOOLEAN] /\ tally' = [m \in MasterIds |-> [tally[m] EXCEPT !.news = marks[m]]]
    BY <2>1
  <2>3. \A m \in MasterIds : marks[m] = FALSE
    OBVIOUS
  <2> HIDE DEF marks
  <2>4. /\ tally' \in Seq(TallyVoucher) /\ Len(tally') = Len(tally) /\ MasterIds' = MasterIds
        /\ \A m \in MasterIds : /\ tally'[m].of = tally[m].of /\ tally'[m].gone = tally[m].gone
                                /\ tally'[m].text = tally[m].text /\ tally'[m].news = FALSE
                                /\ tally'[m].cancelled = tally[m].cancelled
        /\ \A v \in Ids : Copies(v)' = Copies(v) /\ (Orphaned(v)' <=> Orphaned(v))
    BY <2>2, <2>3, <1>1, MarksFacts
  <2>5. AtRest("import") \in AgentState /\ AtRest("import").pc = "import" /\ AtRest("import").batch = {}
        /\ AtRest("import").sent = {} /\ AtRest("import").idents = {}
    BY RestFacts
  <2>6. News \in SUBSET MasterIds /\ [m \in News |-> tally[m]] \in [News -> TallyVoucher]
    BY <1>1, TypeFacts DEF News
  <2>7. [m \in News |-> tally[m]] \in UNION {[S -> TallyVoucher] : S \in SUBSET MasterIds}
    BY <2>6
  <2>8. /\ agent' \in AgentState /\ agent'.pc = "import" /\ agent'.batch = {} /\ agent'.sent = {}
        /\ agent'.idents = {} /\ agent'.pulled = [m \in News |-> tally[m]]
    BY <2>1, <2>5, <2>7 DEF AgentState
  <2>9. Pulled' = News /\ \A m \in News : agent'.pulled[m] = tally[m]
    BY <2>8 DEF Pulled
  <2>10. TypeOK'
    BY <1>1, <2>4, <2>8, AgentTypes DEF TypeOK
  <2>11. \A u \in Ids : Unsent(u) \subseteq Unsent(u)'
    BY <1>1, <2>8 DEF Unsent, Pending
  <2>12. /\ OnePlace' /\ Begun' /\ Deletes' /\ GoneForGood' /\ Addresses'
         /\ Tasks' /\ Reachable' /\ CancelOwed' /\ CancelTold' /\ DeleteOwed'
         /\ AuditTrue' /\ MadeAddressed' /\ Offspring'
    BY <1>1, <1>2, <1>3, <2>4, <2>8, <2>11, RoundKeeps
  <2>13. Phases' /\ PulledIsTrue'
    <3>1. Phases'
      BY <2>8, <2>9 DEF Phases
    <3>2. \A m \in News : m \in MasterIds /\ tally[m].news
      BY DEF News
    <3>3. PulledIsTrue'
      BY <3>2, <1>2, <2>4, <2>9 DEF PulledIsTrue
    <3>4. QED BY <3>1, <3>3
  <2>14. NewsFirst'
    BY <1>1, <2>4, <2>9 DEF IInv, Places, NewsFirst, News
  <2>15. ChangesOwed'
    <3> SUFFICES ASSUME NEW u \in Ids, vch[u] # None, ~Orphaned(u), Unsent(u) = {}
                 PROVE  \E m \in Copies(u)' : tally'[m].news \/ m \in Pulled' \/ Same(u, m)'
      BY <1>1, <2>4, <2>11 DEF ChangesOwed
    <3>1. PICK m \in Copies(u) : tally[m].news \/ Same(u, m)
      BY <1>1 DEF IInv, Owing, ChangesOwed
    <3>2. m \in MasterIds
      BY <3>1 DEF Copies
    <3>3. Same(u, m) => Same(u, m)'
      BY <3>2, <1>1, <2>4 DEF Same, MarkedCancelled
    <3>4. tally[m].news => m \in Pulled'
      BY <3>2, <2>9 DEF News
    <3>5. QED BY <3>1, <3>3, <3>4, <2>4
  <2>16. DeletedStaysDeleted' /\ MadeFrom' /\ Stale' /\ Moves'
    BY <1>1, <2>4, <2>8, RoundLives
  <2>17. QED BY <2>10, <2>12, <2>13, <2>14, <2>15, <2>16 DEF IInv, Places, Lives, Owing
<1>5. CASE NoPull
  <2>1. agent' = AtRest("idle") /\ tally' = tally
    BY <1>5 DEF NoPull
  <2>2. /\ agent' \in AgentState /\ agent'.pc = "idle" /\ agent'.batch = {} /\ agent'.sent = {}
        /\ agent'.idents = {} /\ DOMAIN agent'.pulled = {}
    BY <2>1, RestFacts
  <2>3. TypeOK'
    BY <1>1, <2>1, <2>2, AgentTypes DEF TypeOK
  <2>4. /\ MasterIds' = MasterIds /\ Pulled' = {}
        /\ \A u \in Ids : /\ Copies(u)' = Copies(u) /\ (Orphaned(u)' <=> Orphaned(u))
                          /\ Unsent(u) \subseteq Unsent(u)'
    BY <1>1, <2>1, <2>2 DEF MasterIds, Pulled, Copies, Orphaned, Unsent, Pending
  <2>5. /\ OnePlace' /\ Begun' /\ Deletes' /\ GoneForGood' /\ Addresses'
        /\ Tasks' /\ Reachable' /\ CancelOwed' /\ CancelTold' /\ DeleteOwed'
        /\ AuditTrue' /\ MadeAddressed' /\ Offspring'
    BY <1>1, <1>2, <1>3, <2>1, <2>2, <2>4, RoundKeeps
  <2>6. Phases' /\ NewsFirst' /\ PulledIsTrue'
    BY <1>1, <2>1, <2>2, <2>4 DEF IInv, Places, Phases, NewsFirst, PulledIsTrue
  <2>7. ChangesOwed'
    BY <1>1, <2>1, <2>4 DEF IInv, Owing, ChangesOwed, Same, MarkedCancelled
  <2>8. DeletedStaysDeleted' /\ MadeFrom' /\ Stale' /\ Moves'
    BY <1>1, <2>1, <2>2, <2>4, RoundLives
  <2>9. QED BY <2>3, <2>5, <2>6, <2>7, <2>8 DEF IInv, Places, Lives, Owing
<1>6. QED BY <1>4, <1>5

\* An agent that stops forgets; what it had pulled becomes news again.
LEMMA StopsKeeps ==
  ASSUME IInv, Stops
  PROVE  IInv'
<1>1. /\ TypeOK /\ agent' = AtRest("idle")
      /\ UNCHANGED <<vch, audit, queue, rows, deleting, changes, tallyEdits, raced>>
  BY DEF IInv, Stops, portalVars, history
<1>2. faults' \in 0 .. MaxFaults
  BY <1>1, BoundsAssumption DEF Stops, Fault, TypeOK
<1> DEFINE marks == [m \in MasterIds |-> tally[m].news \/ (m \in Pulled /\ ~tally[m].gone)]
<1>3. tally' = [m \in MasterIds |-> [tally[m] EXCEPT !.news = marks[m]]]
  BY DEF Stops, Pulled
<1>4. marks \in [MasterIds -> BOOLEAN]
  BY <1>1, TypeFacts DEF TallyVoucher
<1>5. \A m \in MasterIds : marks[m] <=> (tally[m].news \/ (m \in Pulled /\ ~tally[m].gone))
  OBVIOUS
<1> HIDE DEF marks
<1>6. /\ tally' \in Seq(TallyVoucher) /\ Len(tally') = Len(tally) /\ MasterIds' = MasterIds
      /\ \A m \in MasterIds : /\ tally'[m].of = tally[m].of /\ tally'[m].gone = tally[m].gone
                              /\ tally'[m].text = tally[m].text /\ tally'[m].news = marks[m]
                              /\ tally'[m].cancelled = tally[m].cancelled
      /\ \A v \in Ids : Copies(v)' = Copies(v) /\ (Orphaned(v)' <=> Orphaned(v))
  BY <1>1, <1>3, <1>4, MarksFacts
<1>7. /\ agent' \in AgentState /\ agent'.pc = "idle" /\ agent'.batch = {} /\ agent'.sent = {}
      /\ agent'.idents = {} /\ DOMAIN agent'.pulled = {}
  BY <1>1, RestFacts
<1>8. TypeOK'
  BY <1>1, <1>2, <1>6, <1>7, AgentTypes DEF TypeOK
<1>9. Pulled' = {} /\ \A u \in Ids : Unsent(u) \subseteq Unsent(u)'
  BY <1>1, <1>7 DEF Pulled, Unsent, Pending
<1>10. \A m \in MasterIds : tally[m].gone =>
         /\ ~tally[m].news /\ ~tally'[m].news
         /\ tally[m].of \in Vouchers => vch[tally[m].of] = None
  BY <1>5, <1>6 DEF IInv, Places, GoneForGood
<1>11. /\ OnePlace' /\ Begun' /\ Deletes' /\ GoneForGood' /\ Addresses'
       /\ Tasks' /\ Reachable' /\ CancelOwed' /\ CancelTold' /\ DeleteOwed'
       /\ AuditTrue' /\ MadeAddressed' /\ Offspring'
  <2>1. \A u \in Ids : vch[u] # None => Named(vch[u], u) /\ vch[u].master \in 0 .. Len(tally)
    BY <1>1, TypeFacts DEF IInv, Places, Addresses, PortalVoucher
  <2>2. QED BY <2>1, <1>1, <1>6, <1>7, <1>9, <1>10, RoundKeeps
<1>12. Phases' /\ PulledIsTrue'
  BY <1>7, <1>9 DEF Phases, PulledIsTrue
<1>13. NewsFirst'
  <2> SUFFICES ASSUME NEW m \in MasterIds, vch[tally[m].of] # None, vch[tally[m].of].master = 0
               PROVE  tally'[m].news
    BY <1>1, <1>6 DEF NewsFirst
  <2>1. tally[m].of \in Vouchers
    BY <1>1, TypeFacts DEF IInv, Lives, MadeAddressed, TallyVoucher, Ids
  <2>2. ~tally[m].gone /\ (tally[m].news \/ m \in Pulled)
    BY <2>1, <1>10 DEF IInv, Places, NewsFirst
  <2>3. QED BY <2>2, <1>5, <1>6
<1>14. ChangesOwed'
  <2> SUFFICES ASSUME NEW u \in Ids, vch[u] # None, ~Orphaned(u), Unsent(u) = {}
               PROVE  \E m \in Copies(u)' : tally'[m].news \/ m \in Pulled' \/ Same(u, m)'
    BY <1>1, <1>6, <1>9 DEF ChangesOwed
  <2>1. PICK m \in Copies(u) : tally[m].news \/ m \in Pulled \/ Same(u, m)
    BY DEF IInv, Owing, ChangesOwed
  <2>2. m \in MasterIds /\ ~tally[m].gone
    BY <2>1 DEF Copies
  <2>3. Same(u, m) => Same(u, m)'
    BY <2>2, <1>1, <1>6 DEF Same, MarkedCancelled
  <2>4. QED BY <2>1, <2>2, <2>3, <1>5, <1>6
<1>15. DeletedStaysDeleted' /\ MadeFrom' /\ Stale' /\ Moves'
  BY <1>1, <1>6, <1>7, RoundLives
<1>16. QED BY <1>8, <1>11, <1>12, <1>13, <1>14, <1>15 DEF IInv, Places, Lives, Owing

\* A user of Tally only makes news.
LEMMA TallyEditKeeps ==
  ASSUME IInv, NEW m \in MasterIds, TallyEdit(m)
  PROVE  IInv'
<1>1. /\ TypeOK /\ ~tally[m].gone /\ agent' = agent
      /\ UNCHANGED <<vch, audit, queue, rows, deleting, changes, faults, raced>>
  BY DEF IInv, TallyEdit, portalVars, history
<1>2. tallyEdits' \in 0 .. MaxTallyEdits
  BY <1>1, BoundsAssumption DEF TallyEdit, TypeOK
<1>3. Len(tally) \in Nat /\ tally \in Seq(TallyVoucher) /\ m \in 1 .. Len(tally) /\ tally[m] \in TallyVoucher
  BY <1>1, TypeFacts DEF TypeOK, MasterIds
<1>4. PICK e \in TallyVoucher : /\ tally' = [tally EXCEPT ![m] = e]
                                /\ e.of = tally[m].of /\ ~e.gone /\ e.news
                                /\ tally[m].cancelled => e.cancelled
  <2>1. CASE \E t \in Texts : tally' = [tally EXCEPT ![m].text = t, ![m].news = TRUE]
    <3>1. PICK t \in Texts : tally' = [tally EXCEPT ![m].text = t, ![m].news = TRUE]
      BY <2>1
    <3> DEFINE e == [tally[m] EXCEPT !.text = t, !.news = TRUE]
    <3>2. /\ e \in TallyVoucher /\ e.of = tally[m].of /\ ~e.gone /\ e.news
          /\ e.cancelled = tally[m].cancelled
      BY <1>1, <1>3 DEF TallyVoucher
    <3>3. tally' = [tally EXCEPT ![m] = e]
      BY <3>1
    <3>4. QED BY <3>2, <3>3
  <2>2. CASE tally' = [tally EXCEPT ![m].cancelled = TRUE, ![m].news = TRUE]
    <3> DEFINE e == [tally[m] EXCEPT !.cancelled = TRUE, !.news = TRUE]
    <3>1. e \in TallyVoucher /\ e.of = tally[m].of /\ ~e.gone /\ e.news /\ e.cancelled
      BY <1>1, <1>3 DEF TallyVoucher
    <3>2. tally' = [tally EXCEPT ![m] = e]
      BY <2>2
    <3>3. QED BY <3>1, <3>2
  <2>3. QED BY <2>1, <2>2 DEF TallyEdit
<1>5. /\ tally' \in Seq(TallyVoucher) /\ Len(tally') = Len(tally) /\ MasterIds' = MasterIds
      /\ \A n \in MasterIds : tally'[n] = IF n = m THEN e ELSE tally[n]
  BY <1>3, <1>4, ExceptSeq DEF MasterIds
<1>6. agent' \in AgentState
  BY <1>1 DEF TypeOK, AgentState
<1>7. TypeOK'
  BY <1>1, <1>2, <1>5, <1>6, AgentTypes DEF TypeOK
<1>8. /\ Pulled' = Pulled
      /\ \A n \in MasterIds : /\ tally'[n].of = tally[n].of /\ tally'[n].gone = tally[n].gone
                              /\ tally[n].cancelled => tally'[n].cancelled
      /\ \A n \in MasterIds : tally'[n].news \/ tally'[n] = tally[n]
  <2>1. tally[m].gone = FALSE /\ e.gone = FALSE
    BY <1>1, <1>3, <1>4 DEF TallyVoucher
  <2>2. \A n \in MasterIds : /\ tally'[n].of = tally[n].of /\ tally'[n].gone = tally[n].gone
                             /\ tally[n].cancelled => tally'[n].cancelled
    BY <2>1, <1>4, <1>5
  <2>3. \A n \in MasterIds : tally'[n].news \/ tally'[n] = tally[n]
    BY <1>4, <1>5
  <2>4. Pulled' = Pulled
    BY <1>1 DEF Pulled
  <2>5. QED BY <2>2, <2>3, <2>4
<1>9. \A u \in Ids : /\ Copies(u)' = Copies(u) /\ TasksOf(u)' = TasksOf(u)
                     /\ Pending(u)' = Pending(u) /\ Unsent(u)' = Unsent(u) /\ Cancels(u)' = Cancels(u)
                     /\ Orphaned(u)' <=> Orphaned(u)
                     /\ Lived(u)' <=> Lived(u)
  BY <1>1, <1>5, <1>8 DEF Copies, TasksOf, Pending, Unsent, Cancels, Orphaned, Lived
<1>10. /\ vch' = vch /\ audit' = audit /\ queue' = queue /\ deleting' = deleting /\ raced' = raced
       /\ \A t \in agent.batch : t.v \in Ids
       /\ \A n \in MasterIds : tally[n].of \in Ids
       /\ \A i \in agent.idents : i.v \in Ids /\ i.master \in MasterIds
       /\ 0 \notin MasterIds
  BY <1>1, TypeFacts DEF AgentTask, TallyVoucher, MasterIds
<1>11. DeletedStaysDeleted' /\ Phases' /\ OnePlace' /\ Begun' /\ Deletes' /\ Tasks' /\ Reachable'
  <2>1. DeletedStaysDeleted' /\ Phases' /\ OnePlace' /\ Reachable'
    BY <1>1, <1>5, <1>8, <1>10 DEF IInv, Places, DeletedStaysDeleted, Phases, OnePlace, Reachable
  <2>2. Begun'
    BY <1>1, <1>5, <1>8, <1>9, <1>10 DEF IInv, Places, Begun
  <2>3. Deletes' /\ Tasks'
    BY <1>1, <1>9, <1>10 DEF IInv, Places, Deletes, Tasks
  <2>4. QED BY <2>1, <2>2, <2>3
<1>12. GoneForGood'
  BY <1>1, <1>5, <1>8, <1>9, <1>10 DEF IInv, Places, GoneForGood
<1>13. Addresses'
  <2>1. /\ \A v \in Ids : /\ vch[v] # None => vch[v].master \in 0 .. Len(tally)
                          /\ deleting[v] # None => deleting[v].master \in 0 .. Len(tally)
        /\ \A row \in queue : row.master \in 0 .. Len(tally)
        /\ \A t \in agent.batch : t.master \in 0 .. Len(tally)
        /\ \A i \in agent.idents : i.master \in 0 .. Len(tally)
    BY <1>1, TypeFacts DEF PortalVoucher, Identifiers, QueueRow, AgentTask, TypeOK, MasterIds
  <2>2. \A n \in 0 .. Len(tally) : n # 0 => \A v : At(n, v)' <=> At(n, v)
    BY <1>3, <1>8 DEF MasterIds, At
  <2>3. /\ \A v \in Ids : /\ vch[v] # None => Named(vch[v], v)'
                          /\ deleting[v] # None => Named(deleting[v], v)'
        /\ \A row \in queue : Named(row, row.v)'
        /\ \A t \in agent.batch : Named(t, t.v)'
        /\ \A i \in agent.idents : Named(i, i.v)'
    BY <2>1, <2>2, <1>10 DEF IInv, Places, Addresses, Named
  <2>4. QED BY <2>3, <1>1, <1>10 DEF Addresses
<1>14. NewsFirst' /\ PulledIsTrue'
  <2>1. NewsFirst'
    BY <1>5, <1>8, <1>10 DEF IInv, Places, NewsFirst
  <2>2. Pulled \subseteq MasterIds
    BY <1>1, TypeFacts
  <2>3. PulledIsTrue'
    BY <2>2, <1>1, <1>8 DEF IInv, Places, PulledIsTrue
  <2>4. QED BY <2>1, <2>3
<1>15. ChangesOwed'
  <2> SUFFICES ASSUME NEW u \in Ids, vch[u] # None, ~Orphaned(u), Unsent(u) = {}
               PROVE  \E n \in Copies(u) : tally'[n].news \/ n \in Pulled \/ Same(u, n)'
    BY <1>8, <1>9, <1>10 DEF ChangesOwed
  <2>1. PICK n \in Copies(u) : tally[n].news \/ n \in Pulled \/ Same(u, n)
    BY DEF IInv, Owing, ChangesOwed
  <2>2. n \in MasterIds
    BY <2>1 DEF Copies
  <2>3. CASE tally'[n].news
    BY <2>1, <2>3
  <2>4. CASE tally'[n] = tally[n]
    BY <2>1, <2>4, <1>10 DEF Same, MarkedCancelled
  <2>5. QED BY <2>2, <2>3, <2>4, <1>8
<1>16. CancelOwed' /\ CancelTold' /\ DeleteOwed'
  <2>1. CancelOwed'
    BY <1>1, <1>8, <1>9, <1>10 DEF IInv, Owing, CancelOwed, Copies
  <2>2. CancelTold' /\ DeleteOwed'
    BY <1>1, <1>9, <1>10 DEF IInv, Owing, CancelTold, DeleteOwed
  <2>3. QED BY <2>1, <2>2
<1>17. Lives'
  <2>1. AuditTrue' /\ Offspring'
    <3>1. \A u \in Ids : audit[u] \notin {None, 0} => audit[u] \in MasterIds
      BY <1>1, <1>3 DEF TypeOK, MasterIds
    <3>2. AuditTrue'
      BY <3>1, <1>8, <1>10 DEF IInv, Lives, AuditTrue, At
    <3>3. Offspring'
      BY <1>5, <1>8, <1>9, <1>10, Kinds DEF IInv, Lives, Offspring
    <3>4. QED BY <3>2, <3>3
  <2>2. MadeFrom'
    BY <1>1, <1>5, <1>8, <1>9, <1>10, Kinds DEF IInv, Lives, MadeFrom
  <2>3. MadeAddressed'
    BY <1>9, <1>10, Kinds DEF IInv, Lives, MadeAddressed
  <2>4. \A u \in Ids : /\ vch[u] # None => vch[u].master = 0 \/ vch[u].master \in MasterIds
                       /\ deleting[u] # None => deleting[u].master = 0 \/ deleting[u].master \in MasterIds
    BY <1>1, <1>3, TypeFacts DEF PortalVoucher, Identifiers, MasterIds
  <2>5. Stale' /\ Moves'
    BY <2>4, <1>1, <1>5, <1>8, <1>10 DEF IInv, Lives, Stale, Moves
  <2>6. QED BY <2>1, <2>2, <2>3, <2>5 DEF Lives
<1>18. QED
  BY <1>7, <1>11, <1>12, <1>13, <1>14, <1>15, <1>16, <1>17 DEF IInv, Places, Owing

\* What an import makes anew never was, and its place is nobody's that a user made.
LEMMA NewFacts ==
  ASSUME IInv, NEW w \in New
  PROVE  /\ w \in Made /\ w \in Ids /\ w \in Pulled /\ w \in MasterIds
         /\ ~Lived(w) /\ w \notin DeletedGuids
         /\ \A u \in Ids : ~Bears(u, w)
<1>1. /\ w \in Made /\ w \in Pulled /\ w \notin DeletedGuids /\ \A u \in Ids : ~Bears(u, w)
  BY DEF New, Pulled
<1>2. TypeOK /\ w \in MasterIds /\ w \in Ids /\ ~tally[w].gone
  BY <1>1, TypeFacts, Kinds DEF IInv, Places, PulledIsTrue
<1>3. ASSUME NEW m \in MasterIds, At(m, w)
      PROVE  m = w
  BY <1>1, <1>2, <1>3 DEF At, IInv, Lives, Offspring, Orphaned
<1>4. vch[w] = None
  <2> SUFFICES ASSUME vch[w] # None
               PROVE  FALSE
    OBVIOUS
  <2>1. vch[w].master # 0 /\ vch[w].master \in MasterIds /\ At(vch[w].master, w)
    BY <1>1, <1>2, TypeFacts DEF IInv, Lives, MadeAddressed, Places, Addresses, Named, PortalVoucher, MasterIds
  <2>2. vch[w].master = w
    BY <2>1, <1>3
  <2>3. QED BY <2>1, <2>2, <1>1, <1>2 DEF Bears
<1>5. audit[w] = None
  <2> SUFFICES ASSUME audit[w] # None
               PROVE  FALSE
    OBVIOUS
  <2>1. audit[w] # 0 /\ audit[w] \in MasterIds /\ At(audit[w], w)
    BY <1>1, <1>2, TypeFacts DEF IInv, Lives, MadeAddressed, AuditTrue, TypeOK, MasterIds
  <2>2. QED BY <2>1, <1>1, <1>2, <1>3 DEF DeletedGuids
<1>6. QED BY <1>1, <1>2, <1>4, <1>5 DEF Lived

\* An import writes over what is not waiting to be sent only what Tally says, and makes anew
\* only what never was.
LEMMA ImportKeeps ==
  ASSUME IInv, Import
  PROVE  IInv'
<1>1. /\ TypeOK /\ agent.pc = "import" /\ agent.batch = {} /\ agent.sent = {} /\ agent.idents = {}
      /\ tally' = tally /\ queue' = queue /\ audit' = audit /\ deleting' = deleting
      /\ agent' = AtRest("idle")
      /\ UNCHANGED <<rows, changes, tallyEdits, faults, raced>>
  BY HandsFree DEF IInv, Import, history
<1>2. /\ vch' = [v \in Ids |-> Imported(v)]
      /\ \A m \in MasterIds : m # 0 /\ m \in 0 .. Len(tally) /\ tally[m].of \in Ids
  BY <1>1, TypeFacts DEF Import, MasterIds, TallyVoucher
<1>3. \A m \in Pulled : /\ m \in MasterIds /\ ~tally[m].gone
                        /\ agent.pulled[m].of = tally[m].of
                        /\ agent.pulled[m] \in TallyVoucher
  BY <1>1, TypeFacts DEF IInv, Places, PulledIsTrue
<1>4. \A u \in Ids : vch[u] # None => /\ vch[u] \in PortalVoucher /\ Named(vch[u], u)
                                      /\ vch[u].master = 0 \/ vch[u].master \in MasterIds
  BY <1>1, TypeFacts DEF IInv, Places, Addresses, PortalVoucher, MasterIds
<1>5. \A u \in Ids, m \in Pulled : Bears(u, m) <=>
        vch[u] # None /\ IF vch[u].master # 0 THEN vch[u].master = m
                         ELSE vch[u].remote /\ tally[m].of = u
  BY <1>3 DEF Bears
<1>6. \A u \in Ids, m \in Pulled : Bears(u, m) => m \in Of(u)
  BY <1>2, <1>3, <1>4, <1>5 DEF Of, Named, At
\* A voucher is untouched, or is as it was pulled, or is new.
<1>7. \A u \in Ids :
        \/ vch'[u] = vch[u] /\ \A m \in Pulled : ~Bears(u, m)
        \/ vch[u] # None /\ \E m \in Pulled : Bears(u, m) /\ vch'[u] = Overwritten(u, m)
        \/ u \in New /\ vch[u] = None /\ vch'[u] = NewVoucher(u)
  <2> SUFFICES ASSUME NEW u \in Ids
               PROVE  \/ vch'[u] = vch[u] /\ \A m \in Pulled : ~Bears(u, m)
                      \/ vch[u] # None /\ \E m \in Pulled : Bears(u, m) /\ vch'[u] = Overwritten(u, m)
                      \/ u \in New /\ vch[u] = None /\ vch'[u] = NewVoucher(u)
    OBVIOUS
  <2>1. vch'[u] = Imported(u) /\ PulledOf(u) = {m \in Pulled : Bears(u, m)}
    BY <1>2 DEF PulledOf, Pulled
  <2>2. CASE PulledOf(u) # {}
    <3>1. PICK m \in PulledOf(u) : m = CHOOSE n \in PulledOf(u) : TRUE
      BY <2>2
    <3>2. vch'[u] = Overwritten(u, m) /\ m \in Pulled /\ Bears(u, m)
      BY <2>1, <2>2, <3>1 DEF Imported
    <3>3. QED BY <3>2 DEF Bears
  <2>3. CASE PulledOf(u) = {} /\ u \in New
    BY <2>1, <2>3, NewFacts DEF Imported, Lived
  <2>4. CASE PulledOf(u) = {} /\ u \notin New
    BY <2>1, <2>4 DEF Imported
  <2>5. QED BY <2>2, <2>3, <2>4
<1>8. \A u \in Ids, m \in Pulled : vch[u] # None /\ Bears(u, m) =>
        LET w == Overwritten(u, m) IN
        /\ w \in PortalVoucher /\ w.status = vch[u].status /\ w.remote = vch[u].remote
        /\ w.master = m /\ Named(w, u) /\ (vch[u].master # 0 => w.master = vch[u].master)
        /\ w.text = agent.pulled[m].text /\ w.cancelled = agent.pulled[m].cancelled
  <2> SUFFICES ASSUME NEW u \in Ids, NEW m \in Pulled, vch[u] # None, Bears(u, m),
                      NEW w, w = Overwritten(u, m)
               PROVE  /\ w \in PortalVoucher /\ w.status = vch[u].status /\ w.remote = vch[u].remote
                      /\ w.master = m /\ Named(w, u) /\ (vch[u].master # 0 => w.master = vch[u].master)
                      /\ w.text = agent.pulled[m].text /\ w.cancelled = agent.pulled[m].cancelled
    OBVIOUS
  <2>1. vch[u] \in PortalVoucher /\ agent.pulled[m] \in TallyVoucher /\ m \in 0 .. Len(tally)
    BY <1>2, <1>3, <1>4
  <2>2. /\ w \in PortalVoucher /\ w.status = vch[u].status /\ w.remote = vch[u].remote
        /\ w.master = m /\ w.text = agent.pulled[m].text /\ w.cancelled = agent.pulled[m].cancelled
    BY <2>1 DEF Overwritten, PortalVoucher, TallyVoucher
  <2>3. Named(w, u)
    BY <2>2, <1>6 DEF Named, Of
  <2>4. vch[u].master # 0 => w.master = vch[u].master
    BY <2>2, <1>5
  <2>5. QED BY <2>2, <2>3, <2>4
<1>9. \A w \in New :
        /\ NewVoucher(w) \in PortalVoucher /\ NewVoucher(w).master = w
        /\ NewVoucher(w).status = "confirmed" /\ NewVoucher(w).text = agent.pulled[w].text
        /\ NewVoucher(w).cancelled = agent.pulled[w].cancelled
  BY <1>2, <1>3, NewFacts DEF NewVoucher, PortalVoucher, TallyVoucher
<1>10. None \notin PortalVoucher
  BY <1>1, NoneIsNoRecord
<1>11. \A u \in Ids : vch[u] = None /\ vch'[u] # None =>
         /\ u \in New /\ u \in Made \cap MasterIds /\ ~Lived(u) /\ vch'[u] = NewVoucher(u)
         /\ vch'[u].status = "confirmed" /\ vch'[u].master = u
  BY <1>7, <1>9, NewFacts
<1>12. \A u \in Ids : vch[u] # None =>
         /\ vch'[u] # None /\ vch'[u].status = vch[u].status /\ Named(vch'[u], u)
         /\ vch'[u].master \in 0 .. Len(tally)
         /\ vch[u].remote => vch'[u].remote
         /\ vch'[u].master = vch[u].master \/ (vch[u].master = 0 /\ vch'[u].master # 0)
  <2> SUFFICES ASSUME NEW u \in Ids, vch[u] # None
               PROVE  /\ vch'[u] # None /\ vch'[u].status = vch[u].status /\ Named(vch'[u], u)
                      /\ vch'[u].master \in 0 .. Len(tally)
                      /\ vch[u].remote => vch'[u].remote
                      /\ vch'[u].master = vch[u].master \/ (vch[u].master = 0 /\ vch'[u].master # 0)
    OBVIOUS
  <2>1. CASE vch'[u] = vch[u]
    BY <2>1, <1>4 DEF PortalVoucher
  <2>2. CASE \E m \in Pulled : Bears(u, m) /\ vch'[u] = Overwritten(u, m)
    BY <2>2, <1>2, <1>3, <1>8, <1>10
  <2>3. QED BY <2>1, <2>2, <1>7
<1>13. vch' \in [Ids -> PortalVoucher \cup {None}]
  BY <1>2, <1>4, <1>7, <1>8, <1>9
<1>14. /\ agent' \in AgentState /\ agent'.pc = "idle" /\ agent'.batch = {} /\ agent'.sent = {}
       /\ agent'.idents = {} /\ DOMAIN agent'.pulled = {}
  BY <1>1, RestFacts
<1>15. TypeOK'
  BY <1>1, <1>13, <1>14, AgentTypes DEF TypeOK
<1>16. /\ MasterIds' = MasterIds /\ Pulled' = {}
       /\ \A u \in Ids : /\ Copies(u)' = Copies(u) /\ Unsent(u)' = Unsent(u)
                         /\ Orphaned(u)' <=> Orphaned(u)
  BY <1>1, <1>14 DEF MasterIds, Pulled, Copies, Unsent, Pending, Orphaned
<1>17. /\ OnePlace' /\ Begun' /\ Deletes' /\ GoneForGood' /\ Addresses'
       /\ Tasks' /\ Reachable' /\ CancelOwed' /\ CancelTold' /\ DeleteOwed'
       /\ AuditTrue' /\ MadeAddressed' /\ Offspring'
  <2>1. \A m \in MasterIds : tally[m].gone => ~tally[m].news
    BY DEF IInv, Places, GoneForGood
  <2>2. \A u \in Ids : vch[u] # None =>
          /\ vch'[u] # None /\ vch'[u].status = vch[u].status /\ Named(vch'[u], u)
          /\ vch'[u].master \in 0 .. Len(tally)
          /\ vch[u].remote => vch'[u].remote
          /\ vch'[u].master = vch[u].master \/ vch'[u].master # 0
    BY <1>12
  <2>3. QED BY <2>1, <2>2, <1>1, <1>11, <1>14, <1>16, RoundKeeps
<1>18. Phases' /\ PulledIsTrue' /\ Moves'
  BY <1>14, <1>16 DEF Phases, PulledIsTrue, Moves
<1>19. DeletedStaysDeleted'
  <2> SUFFICES ASSUME NEW v \in Ids, NEW u \in Ids, audit[v] \notin {None, 0}, vch'[u] # None,
                      vch'[u].master = audit[v]
               PROVE  FALSE
    BY <1>1 DEF DeletedStaysDeleted
  <2>1. audit[v] \in DeletedGuids /\ vch[v] = None /\ At(audit[v], v) /\ Lived(v)
    BY DEF IInv, Lives, AuditTrue, DeletedGuids, Lived
  <2>2. vch[u] # None
    BY <2>1, <1>11, NewFacts
  <2>3. vch[u].master = 0
    BY <2>2, <1>12 DEF IInv, DeletedStaysDeleted
  <2>4. PICK m \in Pulled : Bears(u, m) /\ vch'[u] = Overwritten(u, m)
    BY <2>2, <2>3, <1>7
  <2>5. m = audit[v] /\ tally[m].of = u /\ m \in MasterIds
    BY <2>2, <2>3, <2>4, <1>3, <1>5, <1>8
  <2>6. m = v /\ v \in Made
    BY <2>1, <2>2, <2>5, Kinds DEF At
  <2>7. u \in Made
    BY <2>1, <2>2, <2>5, <2>6 DEF IInv, Lives, MadeFrom
  <2>8. QED BY <2>2, <2>3, <2>7 DEF IInv, Lives, MadeAddressed
\* Who sent the place of a voucher, made now or before, is gone or has moved on.
<1>20. MadeFrom'
  <2> SUFFICES ASSUME NEW w \in Made, Lived(w) \/ w \in New, NEW x, x = tally[w].of
               PROVE  /\ w \in MasterIds
                      /\ vch'[x] # None => /\ x \in Made /\ vch'[x].master # w
                                           /\ deleting[x] # None => deleting[x].master # w
    <3>1. \A u \in Made : Lived(u)' => Lived(u) \/ u \in New
      BY <1>1, <1>11, Kinds DEF Lived
    <3>2. \A u : TasksOf(u)' = {}
      BY <1>14 DEF TasksOf
    <3>3. QED BY <3>1, <3>2, <1>1, <1>14, <1>16 DEF MadeFrom
  <2>1. w \in MasterIds /\ x \in Ids
    BY <1>2, NewFacts DEF IInv, Lives, MadeFrom
  <2> SUFFICES ASSUME vch'[x] # None
               PROVE  /\ x \in Made /\ vch'[x].master # w
                      /\ deleting[x] # None => deleting[x].master # w
    BY <2>1
  <2>2. vch[x] # None
    BY <2>1, <1>11 DEF IInv, Places, Begun
  <2>3. /\ x \in Made /\ vch[x].master # w
        /\ deleting[x] # None => deleting[x].master # w
    <3>1. CASE Lived(w)
      BY <3>1, <2>2 DEF IInv, Lives, MadeFrom
    <3>2. CASE w \in New
      <4>1. w \in Pulled /\ ~Bears(x, w) /\ ~tally[w].gone
        BY <3>2, <2>1, <1>3, NewFacts
      <4>2. vch[x].master # 0 /\ vch[x].master # w
        BY <4>1, <2>1, <2>2, <1>5 DEF IInv, Places, Reachable
      <4>3. x \in Made
        <5>1. vch[x].master \in MasterIds /\ At(vch[x].master, x)
          BY <4>2, <2>1, <2>2, <1>4 DEF Named
        <5>2. x \in Vouchers => tally[vch[x].master].of = x
          BY <5>1, Kinds DEF At
        <5>3. x \notin Vouchers
          BY <5>1, <5>2, <4>2, <2>1 DEF IInv, Places, OnePlace
        <5>4. QED BY <5>3, <2>1 DEF Ids
      <4>4. deleting[x] # None => deleting[x].master # w
        BY <4>1, <4>2, <2>1, <2>2, <1>2 DEF IInv, Lives, Stale
      <4>5. QED BY <4>2, <4>3, <4>4
    <3>3. QED BY <3>1, <3>2
  <2>4. vch[x].master # 0
    BY <2>2, <2>3 DEF IInv, Lives, MadeAddressed
  <2>5. vch'[x].master # w
    BY <2>1, <2>2, <2>3, <2>4, <1>12
  <2>6. QED BY <2>3, <2>5
<1>21. Stale'
  <2> SUFFICES ASSUME NEW u \in Ids, vch'[u] # None, deleting[u] # None,
                      deleting[u].master \notin {0, vch'[u].master}
               PROVE  tally[deleting[u].master].gone
    BY <1>1 DEF Stale
  <2>1. vch[u] # None
    BY <1>11 DEF IInv, Places, Begun
  <2>2. QED BY <2>1, <1>12 DEF IInv, Lives, Stale
\* A voucher whose place was pulled has been given what was pulled.
<1>22. ASSUME NEW u \in Ids, vch[u] # None, NEW m \in Pulled, At(m, u), ~Orphaned(u)
       PROVE  Bears(u, m) /\ vch'[u] = Overwritten(u, m)
  <2>1. m \in Of(u) /\ \A n \in Of(u) : n = m
    BY <1>3, <1>22, TamePlace DEF Of
  <2>2. Bears(u, m)
    <3>1. CASE vch[u].master # 0
      <4>1. vch[u].master \in Of(u)
        BY <3>1, <1>4, <1>22 DEF Named, Of
      <4>2. QED BY <4>1, <2>1, <3>1, <1>5, <1>22
    <3>2. CASE vch[u].master = 0
      <4>1. u \in Vouchers
        BY <3>2, <1>22 DEF Ids, IInv, Lives, MadeAddressed
      <4>2. tally[m].of = u /\ m \in MasterIds
        BY <4>1, <2>1, <1>22, TamePlace, Kinds DEF Of
      <4>3. vch[u].remote
        BY <4>2, <3>2, <1>22 DEF IInv, Places, Reachable
      <4>4. QED BY <4>2, <4>3, <3>2, <1>5, <1>22
    <3>3. QED BY <3>1, <3>2
  <2>3. \A n \in Pulled : Bears(u, n) => n = m
    BY <2>1, <1>6
  <2>4. QED BY <2>2, <2>3, <1>7, <1>22
<1>23. NewsFirst'
  <2> SUFFICES ASSUME NEW m \in MasterIds, vch'[tally[m].of] # None, vch'[tally[m].of].master = 0
               PROVE  tally[m].news
    BY <1>1, <1>16 DEF NewsFirst
  <2> DEFINE u == tally[m].of
  <2>1. u \in Ids /\ vch[u] # None /\ vch[u].master = 0
    BY <1>2, <1>11, <1>12
  <2>2. ~Orphaned(u) /\ At(m, u)
    BY <2>1, Kinds DEF Orphaned, At, IInv, Lives, MadeAddressed
  <2>3. CASE m \in Pulled
    <3>1. Bears(u, m) /\ vch'[u] = Overwritten(u, m)
      BY <2>1, <2>2, <2>3, <1>22
    <3>2. vch'[u].master = m
      BY <3>1, <2>1, <2>3, <1>8
    <3>3. QED BY <3>2, <1>2
  <2>4. CASE m \notin Pulled
    BY <2>1, <2>4 DEF IInv, Places, NewsFirst
  <2>5. QED BY <2>3, <2>4
<1>24. ASSUME NEW u \in Ids, NEW m \in Pulled, At(m, u), ~tally[m].news, vch'[u] # None,
              vch'[u].text = agent.pulled[m].text, vch'[u].cancelled = agent.pulled[m].cancelled,
              vch'[u].status = "cancelled" => tally[m].cancelled
       PROVE  Same(u, m)'
  <2>1. agent.pulled[m].text = tally[m].text /\ agent.pulled[m].cancelled = tally[m].cancelled
    BY <1>24 DEF IInv, Places, PulledIsTrue
  <2>2. MarkedCancelled(u)' <=> tally[m].cancelled
    BY <2>1, <1>24 DEF MarkedCancelled
  <2>3. tally[m] \in TallyVoucher /\ vch'[u] \in PortalVoucher
    BY <1>1, <1>3, <1>13, <1>24, TypeFacts
  <2>4. QED BY <2>1, <2>2, <2>3, <1>1, <1>24 DEF Same, MarkedCancelled, TallyVoucher, PortalVoucher
<1>25. ChangesOwed'
  <2> SUFFICES ASSUME NEW u \in Ids, vch'[u] # None, ~Orphaned(u), Unsent(u) = {}
               PROVE  \E m \in Copies(u) : tally[m].news \/ Same(u, m)'
    BY <1>1, <1>16 DEF ChangesOwed
  <2>1. CASE vch[u] = None
    <3>1. u \in New /\ vch'[u] = NewVoucher(u) /\ vch'[u].status = "confirmed"
      BY <2>1, <1>11
    <3>2. u \in Pulled /\ u \in Copies(u) /\ At(u, u)
      BY <3>1, <1>3, NewFacts DEF Copies, At
    <3>3. tally[u].news \/ Same(u, u)'
      BY <3>1, <3>2, <1>9, <1>24
    <3>4. QED BY <3>2, <3>3
  <2>2. CASE vch[u] # None
    <3>1. PICK m \in Copies(u) : tally[m].news \/ m \in Pulled \/ Same(u, m)
      BY <2>2 DEF IInv, Owing, ChangesOwed
    <3>2. m \in Of(u) /\ m \in MasterIds /\ At(m, u) /\ \A n \in Of(u) : n = m
      BY <3>1, TamePlace DEF Copies, Of, At
    <3>3. CASE tally[m].news
      BY <3>1, <3>3
    <3>4. CASE m \notin Pulled /\ Same(u, m)
      <4>1. \A n \in Pulled : ~Bears(u, n)
        BY <3>2, <3>4, <1>6
      <4>2. vch'[u] = vch[u]
        BY <4>1, <2>2, <1>7
      <4>3. QED BY <3>1, <3>4, <4>2, <1>1 DEF Same, MarkedCancelled
    <3>5. CASE m \in Pulled /\ ~tally[m].news
      <4>1. Bears(u, m) /\ vch'[u] = Overwritten(u, m)
        BY <2>2, <3>2, <3>5, <1>22
      <4>2. /\ vch'[u].status = vch[u].status /\ vch'[u].text = agent.pulled[m].text
            /\ vch'[u].cancelled = agent.pulled[m].cancelled
        BY <4>1, <2>2, <3>5, <1>8
      <4>3. vch[u].status = "cancelled" => tally[m].cancelled
        <5> SUFFICES ASSUME vch[u].status = "cancelled"
                     PROVE  tally[m].cancelled
          OBVIOUS
        <5>1. \E n \in Copies(u) : tally[n].cancelled
          BY <2>2 DEF IInv, Owing, CancelOwed, Cancels, Unsent
        <5>2. QED BY <5>1, <3>2 DEF Copies, Of, At
      <4>4. QED BY <3>1, <3>2, <3>5, <4>2, <4>3, <1>24
    <3>6. QED BY <3>1, <3>3, <3>4, <3>5
  <2>3. QED BY <2>1, <2>2
<1>26. QED
  BY <1>15, <1>17, <1>18, <1>19, <1>20, <1>21, <1>23, <1>25 DEF IInv, Places, Lives, Owing

\* Nothing has happened yet.
LEMMA InitEstablishes ==
  ASSUME Init
  PROVE  IInv
<1>1. /\ Len(tally) = 0 /\ MasterIds = {} /\ tally \in Seq(TallyVoucher)
  BY EmptySeq DEF Init, MasterIds
<1>2. /\ agent \in AgentState /\ agent.pc = "idle" /\ agent.batch = {}
      /\ agent.sent = {} /\ agent.idents = {} /\ DOMAIN agent.pulled = {}
  BY RestFacts DEF Init
<1>3. TypeOK
  BY <1>1, <1>2, BoundsAssumption DEF Init, TypeOK, AgentState
<1>4. DeletedStaysDeleted /\ Places
  BY <1>1, <1>2 DEF Init, DeletedStaysDeleted, Places, Phases, OnePlace, Begun, Deletes, GoneForGood,
     Lived, Addresses, Tasks, Reachable, NewsFirst, PulledIsTrue, TasksOf, Pending, Pulled
<1>5. Lives
  BY <1>1, <1>2, BoundsAssumption DEF Init, Lives, AuditTrue, MadeFrom, MadeAddressed, Offspring, Stale, Moves,
     Lived, TasksOf, Pending, Made, Ids
<1>6. Owing
  BY <1>1, <1>2 DEF Init, Owing, ChangesOwed, CancelOwed, CancelTold, DeleteOwed, Copies, TasksOf
<1>7. QED BY <1>3, <1>4, <1>5, <1>6 DEF IInv

\* What is fetched for a row.
LEMMA TaskFacts ==
  ASSUME IInv, NEW row \in queue, Deliverable(row)
  PROVE  LET t == Task(row) IN
         /\ t \in AgentTask /\ t.row = row.id /\ t.v = row.v /\ t.queued = row.action
         /\ t.send = IF row.action \in {"Create", "Alter"} THEN "Write" ELSE row.action
         /\ Named(t, t.v)
         /\ t.send = "Delete" => row.action = "Delete"
         /\ vch[row.v] = None => row.action = "Delete" /\ t.master = row.master /\ t.remote = row.remote
         /\ vch[row.v] # None => /\ t.text \in Texts /\ t.master = vch[row.v].master
                                 /\ t.master # 0 \/ t.remote
                                 /\ t.remote = Addressed(row.v).remote
                                 /\ vch[row.v].status = "cancelled" => t.cancelled
<1> DEFINE t == Task(row)
<1>1. /\ TypeOK /\ row \in QueueRow /\ Len(tally) \in Nat
      /\ vch[row.v] # None => vch[row.v] \in PortalVoucher
  BY TypeFacts DEF IInv, TypeOK, QueueRow
<1>2. vch[row.v] # None =>
        /\ Addressed(row.v).remote \in BOOLEAN
        /\ vch[row.v].master # 0 \/ Addressed(row.v).remote
        /\ vch[row.v].text \in Texts /\ vch[row.v].master \in 0 .. Len(tally)
        /\ MarkedCancelled(row.v) \in BOOLEAN
        /\ vch[row.v].status = "cancelled" => MarkedCancelled(row.v)
  BY <1>1 DEF Addressed, PortalVoucher, MarkedCancelled
<1>3. /\ t.row = row.id /\ t.v = row.v /\ t.queued = row.action
      /\ t.send = IF row.action \in {"Create", "Alter"} THEN "Write" ELSE row.action
      /\ t.master = IF vch[row.v] # None THEN vch[row.v].master ELSE row.master
      /\ t.remote = IF vch[row.v] # None THEN Addressed(row.v).remote ELSE row.remote
      /\ t.text = IF vch[row.v] # None THEN vch[row.v].text ELSE None
      /\ t.cancelled = (vch[row.v] # None /\ MarkedCancelled(row.v))
      /\ t = [row |-> t.row, v |-> t.v, queued |-> t.queued, send |-> t.send, master |-> t.master,
              remote |-> t.remote, text |-> t.text, cancelled |-> t.cancelled]
  BY DEF Task
<1> HIDE DEF t
<1>4. /\ row.id \in 1 .. rows /\ row.v \in Ids /\ row.action \in Actions
      /\ row.master \in 0 .. Len(tally) /\ row.remote \in BOOLEAN
  BY <1>1 DEF QueueRow
<1>5. t \in AgentTask
  <2>1. t.send \in {"Write", "Cancel", "Delete"}
    BY <1>3, <1>4 DEF Actions
  <2>2. t.cancelled \in BOOLEAN /\ t.text \in Texts \cup {None} /\ t.remote \in BOOLEAN
        /\ t.master \in 0 .. Len(tally)
    BY <1>2, <1>3, <1>4
  <2>3. QED BY <2>1, <2>2, <1>3, <1>4 DEF AgentTask
<1>6. Named(t, t.v)
  BY <1>3, <1>4 DEF IInv, Places, Addresses, Named
<1>7. /\ t.send = "Delete" => row.action = "Delete"
      /\ vch[row.v] = None => row.action = "Delete" /\ t.master = row.master /\ t.remote = row.remote
  BY <1>3 DEF Deliverable
<1>8. QED BY <1>2, <1>3, <1>5, <1>6, <1>7 DEF t

\* The rows are retired or handed out; what is handed out says what the portal says.
LEMMA FetchKeeps ==
  ASSUME IInv, Fetch
  PROVE  IInv'
<1>1. /\ TypeOK /\ agent.pc = "idle" /\ agent.batch = {} /\ agent.sent = {} /\ agent.idents = {}
      /\ Pulled = {} /\ tally' = tally /\ audit' = audit /\ deleting' = deleting /\ raced' = raced
      /\ UNCHANGED <<rows, changes, tallyEdits>>
      /\ queue' = {row \in queue : Deliverable(row)}
      /\ Len(tally) \in Nat
  BY HandsFree, TypeFacts DEF IInv, Fetch, history
<1>2. faults' \in 0 .. MaxFaults
  BY <1>1, BoundsAssumption DEF Fetch, Fault, NoFault, TypeOK
<1>3. /\ agent' \in AgentState /\ agent'.sent = {} /\ agent'.idents = {} /\ DOMAIN agent'.pulled = {}
      /\ agent'.batch \subseteq {Task(row) : row \in queue'}
      /\ agent'.batch # {} => agent'.pc = "send"
  <2>1. {Task(row) : row \in queue'} \in SUBSET AgentTask
    BY <1>1, TaskFacts
  <2>2. CASE agent' = AtRest("pull")
    BY <2>2, RestFacts
  <2>3. CASE agent' = [AtRest("send") EXCEPT !.batch = {Task(row) : row \in queue'}]
    <3>1. /\ AtRest("send") \in AgentState /\ AtRest("send").pc = "send" /\ AtRest("send").sent = {}
          /\ AtRest("send").idents = {} /\ DOMAIN AtRest("send").pulled = {}
      BY RestFacts
    <3>2. QED BY <2>1, <2>3, <3>1 DEF AgentState
  <2>4. QED BY <2>2, <2>3 DEF Fetch
<1>4. \A u \in Ids :
        /\ vch'[u] = None <=> vch[u] = None
        /\ vch[u] # None => /\ vch'[u] \in PortalVoucher
                            /\ vch'[u].status = vch[u].status /\ vch'[u].text = vch[u].text
                            /\ vch'[u].cancelled = vch[u].cancelled /\ vch'[u].master = vch[u].master
                            /\ vch[u].remote => vch'[u].remote
                            /\ Pending(u) # {} => vch'[u].remote = Addressed(u).remote
  <2>1. \A u \in Ids : vch'[u] = IF vch[u] # None /\ Pending(u) # {} THEN Addressed(u) ELSE vch[u]
    BY DEF Fetch
  <2>2. None \notin PortalVoucher /\ \A u \in Ids : vch[u] # None => vch[u] \in PortalVoucher
    BY <1>1, TypeFacts, NoneIsNoRecord
  <2>3. \A u \in Ids : vch[u] # None =>
           /\ Addressed(u) \in PortalVoucher /\ Addressed(u).status = vch[u].status
           /\ Addressed(u).text = vch[u].text /\ Addressed(u).cancelled = vch[u].cancelled
           /\ Addressed(u).master = vch[u].master /\ (vch[u].remote => Addressed(u).remote)
    BY <2>2 DEF Addressed, PortalVoucher
  <2>4. QED BY <2>1, <2>2, <2>3
<1>5. vch' \in [Ids -> PortalVoucher \cup {None}]
  BY <1>4 DEF Fetch
<1>6. TypeOK'
  BY <1>1, <1>2, <1>3, <1>5, AgentTypes DEF TypeOK
<1>7. /\ MasterIds' = MasterIds /\ Pulled' = {}
      /\ \A u \in Ids : /\ Copies(u)' = Copies(u) /\ Pending(u)' \subseteq Pending(u)
                        /\ Orphaned(u)' <=> Orphaned(u)
                        /\ Lived(u)' <=> Lived(u)
      /\ \A m \in MasterIds : tally[m].of \in Ids
      /\ \A row \in queue : row.v \in Ids
  BY <1>1, <1>3, <1>4, TypeFacts
  DEF MasterIds, Pulled, Copies, Pending, Orphaned, Lived, TallyVoucher, TypeOK, QueueRow
<1>8. \A u \in Ids : vch[u] # None =>
         Pending(u)' = Pending(u) /\ Unsent(u)' = Unsent(u) /\ Cancels(u)' = Cancels(u)
  BY <1>1, <1>3 DEF Pending, Unsent, Cancels, Deliverable
\* Every task has its row, and says of it what TaskFacts says.
<1>9. ASSUME NEW t \in agent'.batch
      PROVE  \E row \in queue' :
               /\ row \in queue /\ t.row = row.id /\ t.v = row.v /\ t.queued = row.action
               /\ t.send = IF row.action \in {"Create", "Alter"} THEN "Write" ELSE row.action
               /\ Named(t, t.v) /\ t.v \in Ids /\ t.master \in 0 .. Len(tally)
               /\ vch[t.v] = None => /\ row.action = "Delete" /\ t.master = row.master
                                     /\ t.remote = row.remote
               /\ vch[t.v] # None => /\ t.text \in Texts /\ t.master = vch'[t.v].master
                                     /\ t.master # 0 \/ t.remote
                                     /\ vch'[t.v].master # 0 \/ vch'[t.v].remote
                                     /\ vch[t.v].status = "cancelled" => t.cancelled
  <2>1. PICK row \in queue' : t = Task(row)
    BY <1>3
  <2>2. row \in queue /\ Deliverable(row) /\ row.v \in Ids /\ row \in Pending(row.v)
    BY <2>1, <1>1, <1>7 DEF Pending
  <2>3. /\ t \in AgentTask /\ t.row = row.id /\ t.v = row.v /\ t.queued = row.action
        /\ t.send = IF row.action \in {"Create", "Alter"} THEN "Write" ELSE row.action
        /\ Named(t, t.v)
        /\ vch[row.v] = None => row.action = "Delete" /\ t.master = row.master /\ t.remote = row.remote
        /\ vch[row.v] # None => /\ t.text \in Texts /\ t.master = vch[row.v].master
                                /\ t.master # 0 \/ t.remote
                                /\ t.remote = Addressed(row.v).remote
                                /\ vch[row.v].status = "cancelled" => t.cancelled
    BY <2>1, <2>2, TaskFacts
  <2>4. t.master \in 0 .. Len(tally)
    BY <2>3 DEF AgentTask
  <2>5. QED BY <2>1, <2>2, <2>3, <2>4, <1>4
<1>10. DeletedStaysDeleted' /\ Phases' /\ OnePlace' /\ PulledIsTrue'
  BY <1>1, <1>3, <1>4, <1>7 DEF IInv, Places, DeletedStaysDeleted, Phases, OnePlace, PulledIsTrue
<1>11. Begun'
  <2> SUFFICES ASSUME NEW u \in Ids, ~Lived(u)
               PROVE  /\ TasksOf(u)' = {} /\ Pending(u)' = {} /\ deleting[u] = None
                      /\ \A m \in MasterIds : tally[m].of # u
    BY <1>1, <1>3, <1>7 DEF Begun
  <2>1. Pending(u) = {} /\ deleting[u] = None /\ \A m \in MasterIds : tally[m].of # u
    BY DEF IInv, Places, Begun
  <2>2. TasksOf(u)' = {}
    BY <2>1, <1>9 DEF TasksOf, Pending
  <2>3. QED BY <2>1, <2>2, <1>7
<1>12. Deletes'
  <2>1. \A row \in queue' : row.action = "Delete" => vch'[row.v] = None
    BY <1>1, <1>4, <1>7 DEF IInv, Places, Deletes
  <2>2. ASSUME NEW t \in agent'.batch, t.send = "Delete"
        PROVE  vch'[t.v] = None /\ \A u \in TasksOf(t.v)' : u.send = "Delete"
    <3>1. PICK row \in queue' : row \in queue /\ row.v = t.v /\ row.action = "Delete"
      BY <2>2, <1>9
    <3>2. vch[t.v] = None /\ t.v \in Ids /\ vch'[t.v] = None
      BY <3>1, <2>1, <1>4, <1>7
    <3>3. \A u \in TasksOf(t.v)' : u \in agent'.batch /\ u.v = t.v
      BY DEF TasksOf
    <3>4. QED BY <3>2, <3>3, <1>9
  <2>3. QED BY <2>1, <2>2 DEF Deletes
<1>13. GoneForGood'
  <2> SUFFICES ASSUME NEW m \in MasterIds, tally[m].gone
               PROVE  /\ ~tally[m].news
                      /\ tally[m].of \in Vouchers =>
                           /\ vch'[tally[m].of] = None
                           /\ \A t \in agent'.batch : t.v = tally[m].of => t.send # "Write"
    BY <1>1, <1>7 DEF GoneForGood, TasksOf
  <2>1. ~tally[m].news /\ (tally[m].of \in Vouchers => vch[tally[m].of] = None)
    BY DEF IInv, Places, GoneForGood
  <2>2. QED BY <2>1, <1>4, <1>7, <1>9
<1>14. Addresses'
  <2>1. \A u \in Ids : vch[u] # None => Named(vch[u], u)
    BY DEF IInv, Places, Addresses
  <2>2. \A u \in Ids : vch'[u] # None => Named(vch[u], u)'
    BY <2>1, <1>1, <1>4 DEF Named, At
  <2>3. \A t \in agent'.batch : Named(t, t.v)'
    BY <1>1, <1>9 DEF Named, At
  <2>4. /\ \A u \in Ids : deleting[u] # None => Named(deleting[u], u)'
        /\ \A row \in queue' : Named(row, row.v)'
    BY <1>1 DEF IInv, Places, Addresses, Named, At
  <2>5. QED BY <2>2, <2>3, <2>4, <1>1, <1>3 DEF Addresses
<1>15. Tasks'
  <2> SUFFICES ASSUME NEW t \in agent'.batch
               PROVE  /\ \A row \in queue' : row.id = t.row =>
                           /\ row.v = t.v /\ row.action = t.queued
                           /\ t.send = "Delete" => row.master = t.master /\ row.remote = t.remote
                      /\ t.send = IF t.queued \in {"Create", "Alter"} THEN "Write" ELSE t.queued
                      /\ t.send = "Write" => t.text \in Texts /\ (t.master # 0 \/ t.remote)
                      /\ vch'[t.v] # None => /\ t.master = vch'[t.v].master
                                             /\ vch'[t.v].master # 0 \/ vch'[t.v].remote
    BY DEF Tasks
  <2>1. PICK row \in queue' :
               /\ row \in queue /\ t.row = row.id /\ t.v = row.v /\ t.queued = row.action
               /\ t.send = IF row.action \in {"Create", "Alter"} THEN "Write" ELSE row.action
               /\ t.v \in Ids
               /\ vch[t.v] = None => /\ row.action = "Delete" /\ t.master = row.master
                                     /\ t.remote = row.remote
               /\ vch[t.v] # None => /\ t.text \in Texts /\ t.master = vch'[t.v].master
                                     /\ t.master # 0 \/ t.remote
                                     /\ vch'[t.v].master # 0 \/ vch'[t.v].remote
    BY <1>9
  <2>2. \A r \in queue' : r.id = t.row => r = row
    BY <2>1, <1>1 DEF TypeOK
  <2>3. t.send = "Delete" => row.master = t.master /\ row.remote = t.remote
    BY <2>1 DEF IInv, Places, Deletes
  <2>4. QED BY <2>1, <2>2, <2>3, <1>4
<1>16. Reachable' /\ NewsFirst'
  BY <1>1, <1>4, <1>7 DEF IInv, Places, Reachable, NewsFirst
<1>17. ChangesOwed'
  <2>1. \A u \in Ids : \A m : vch[u] # None /\ Same(u, m) => Same(u, m)'
    BY <1>1, <1>4 DEF Same, MarkedCancelled
  <2>2. QED BY <2>1, <1>1, <1>4, <1>7, <1>8 DEF IInv, Owing, ChangesOwed
<1>18. \A u \in Ids : vch[u] # None /\ vch[u].status = "cancelled" => \A t \in TasksOf(u)' : t.cancelled
  BY <1>9 DEF TasksOf
<1>19. CancelOwed' /\ CancelTold'
  <2>1. CancelOwed'
    BY <1>1, <1>3, <1>4, <1>7, <1>8, <1>18 DEF IInv, Owing, CancelOwed
  <2>2. CancelTold'
    BY <1>4, <1>18 DEF CancelTold
  <2>3. QED BY <2>1, <2>2
<1>20. DeleteOwed'
  <2> SUFFICES ASSUME NEW u \in Ids, audit[u] # None, u \notin raced, ~Orphaned(u),
                      Copies(u) # {} \/ \E t \in TasksOf(u)' : t.send = "Write"
               PROVE  \E row \in Unsent(u)' : row.action = "Delete" /\ (row.master # 0 \/ row.remote)
    BY <1>1, <1>7 DEF DeleteOwed
  <2>1. ASSUME NEW t \in TasksOf(u)'
        PROVE  t.send # "Write"
    BY <1>9 DEF TasksOf, IInv, Lives, AuditTrue
  <2>2. PICK row \in Unsent(u) : row.action = "Delete" /\ (row.master # 0 \/ row.remote)
    BY <2>1 DEF IInv, Owing, DeleteOwed
  <2>3. row \in Unsent(u)'
    BY <2>2, <1>1, <1>3 DEF Unsent, Pending, Deliverable
  <2>4. QED BY <2>2, <2>3
<1>21. AuditTrue' /\ Offspring'
  BY <1>1, <1>4, <1>7 DEF IInv, Lives, AuditTrue, At, Offspring
<1>22. MadeFrom'
  <2>1. ASSUME NEW w \in Made, Lived(w), NEW x, x = tally[w].of, NEW t \in agent'.batch, t.v = x
        PROVE  t.send = "Delete" \/ (x \in Made /\ t.master \notin {0, w})
    <3>1. CASE vch[x] = None
      BY <2>1, <3>1, <1>9
    <3>2. CASE vch[x] # None
      <4>1. x \in Made /\ vch[x].master # w /\ vch[x].master # 0
        BY <2>1, <3>2 DEF IInv, Lives, MadeFrom, MadeAddressed
      <4>2. t.master = vch[x].master
        BY <2>1, <3>2, <1>4, <1>9
      <4>3. QED BY <4>1, <4>2
    <3>3. QED BY <3>1, <3>2
  <2>2. \A w \in Made : Lived(w) => w \in MasterIds /\ tally[w].of \in Ids
    BY <1>7 DEF IInv, Lives, MadeFrom
  <2>3. ASSUME NEW w \in Made, Lived(w), NEW x, x = tally[w].of
        PROVE  vch'[x] # None => /\ x \in Made /\ vch'[x].master # w
                                 /\ deleting'[x] # None => deleting'[x].master # w
    BY <2>2, <2>3, <1>1, <1>4 DEF IInv, Lives, MadeFrom
  <2>4. QED BY <2>1, <2>2, <2>3, <1>1, <1>3, <1>7, Kinds DEF MadeFrom, TasksOf
<1>23. MadeAddressed'
  <2>1. ASSUME NEW w \in Made, NEW t \in TasksOf(w)'
        PROVE  t.master # 0
    <3>1. t \in agent'.batch /\ t.v = w /\ w \in Ids
      BY <2>1, Kinds DEF TasksOf
    <3>2. PICK row \in queue :
            /\ row.v = w
            /\ vch[w] = None => row.action = "Delete" /\ t.master = row.master
            /\ vch[w] # None => t.master = vch'[w].master
      BY <3>1, <1>9
    <3>3. row \in Pending(w)
      BY <3>2 DEF Pending
    <3>4. QED BY <3>1, <3>2, <3>3, <1>4 DEF IInv, Lives, MadeAddressed
  <2>2. QED BY <2>1, <1>1, <1>4, <1>7, Kinds DEF IInv, Lives, MadeAddressed
<1>24. Stale' /\ Moves'
  BY <1>1, <1>3, <1>4 DEF IInv, Lives, Stale, Moves
<1>25. QED
  BY <1>6, <1>10, <1>11, <1>12, <1>13, <1>14, <1>15, <1>16, <1>17, <1>19, <1>20, <1>21, <1>22, <1>23, <1>24
  DEF IInv, Places, Lives, Owing

\* Every step keeps the invariant.
LEMMA NextKeeps ==
  ASSUME IInv, [Next]_vars
  PROVE  IInv'
<1>1. CASE \E v \in Ids : Portal(v)
  BY <1>1, PortalKeeps
<1>2. CASE \E m \in MasterIds : TallyEdit(m)
  BY <1>2, TallyEditKeeps
<1>3. CASE Agent
  BY <1>3, FetchKeeps, SendKeeps, AcknowledgeKeeps, ReportKeeps, PullKeeps, ImportKeeps, StopsKeeps DEF Agent
<1>4. CASE UNCHANGED vars
  <2>1. UNCHANGED <<vch, audit, queue, rows, deleting, tally, agent, changes, tallyEdits, faults, raced>>
    BY <1>4 DEF vars, portalVars, history
  <2>2. TypeOK'
    BY <2>1 DEF IInv, TypeOK, PortalVoucher, Identifiers, QueueRow, TallyVoucher, AgentTask, MasterIds
  <2>3. DeletedStaysDeleted' /\ Places'
    BY <2>1 DEF IInv, DeletedStaysDeleted, Places, Phases, OnePlace, Begun, Deletes, GoneForGood, Addresses,
       Lived, Named, At, Tasks, Reachable, NewsFirst, PulledIsTrue, TasksOf, Pending, Pulled, MasterIds
  <2>4. Lives'
    BY <2>1 DEF IInv, Lives, AuditTrue, MadeFrom, MadeAddressed, Offspring, Stale, Moves,
       Lived, At, TasksOf, Pending, Orphaned, MasterIds
  <2>5. Owing'
    BY <2>1 DEF IInv, Owing, ChangesOwed, CancelOwed, CancelTold, DeleteOwed, Same, MarkedCancelled,
       Copies, Orphaned, TasksOf, Pending, Unsent, Cancels, Pulled, MasterIds
  <2>6. QED BY <2>2, <2>3, <2>4, <2>5 DEF IInv
<1>5. QED BY <1>1, <1>2, <1>3, <1>4 DEF Next

-----------------------------------------------------------------------------
(* What follows *)

\* The invariant holds of every behaviour.
THEOREM Invariance == Spec => []IInv
<1>1. Init => IInv
  BY InitEstablishes
<1>2. IInv /\ [Next]_vars => IInv'
  BY NextKeeps
<1>3. QED BY <1>1, <1>2, PTL DEF Spec

\* Everything is of its kind: the batch, the identities and what was pulled name vouchers and
\* rows there are.
THEOREM TypeCorrect == Spec => []TypeOK
<1>1. IInv => TypeOK
  BY DEF IInv
<1>2. QED BY <1>1, Invariance, PTL

\* Once the portal knew the GUID of what it deleted, nothing that is pulled or reported later
\* gives the portal a voucher under that GUID again.
THEOREM DeletedStaysDeletedCorrect == Spec => []DeletedStaysDeleted
<1>1. IInv => DeletedStaysDeleted
  BY DEF IInv
<1>2. QED BY <1>1, Invariance, PTL

\* Rows sent again after lost answers, lost acknowledgements and crashes make no second copy,
\* but of a voucher that was orphaned.
THEOREM OneCopyCorrect == Spec => []OneCopy
<1>1. IInv => OneCopy
  <2> SUFFICES ASSUME IInv, NEW v \in Ids, ~Orphaned(v)
               PROVE  Cardinality(Copies(v)) <= 1
    BY DEF OneCopy
  <2>1. \A m, n \in Copies(v) : m = n
    <3>1. Copies(v) \subseteq Of(v)
      BY DEF Copies, Of, At
    <3>2. QED BY <3>1, TamePlace
  <2>2. CASE Copies(v) = {}
    BY <2>2, FS_EmptySet
  <2>3. CASE Copies(v) # {}
    <3>1. PICK m : Copies(v) = {m}
      BY <2>1, <2>3
    <3>2. Cardinality({m}) = 1
      BY FS_Singleton
    <3>3. QED BY <3>1, <3>2
  <2>4. QED BY <2>2, <2>3
<1>2. QED BY <1>1, Invariance, PTL

\* When no row waits, the agent is idle and Tally has no news, both sides say the same of what
\* was not orphaned.
THEOREM SettledAgreeCorrect == Spec => []SettledAgree
<1>1. IInv => SettledAgree
  <2> SUFFICES ASSUME IInv, Settled, NEW v \in Ids, ~Orphaned(v)
               PROVE  Agree(v)
    BY DEF SettledAgree
  <2>1. /\ Unsent(v) = {} /\ Pulled = {} /\ agent.batch = {}
        /\ \A m \in MasterIds : ~tally[m].news
    BY HandsFree DEF Settled, Unsent, Pending, News
  <2>2. CASE vch[v] = None
    BY <2>1, <2>2 DEF IInv, Owing, DeleteOwed, Agree
  <2>3. CASE vch[v] # None
    <3>1. PICK m \in Copies(v) : Same(v, m)
      BY <2>1, <2>3 DEF IInv, Owing, ChangesOwed, Copies
    <3>2. QED BY <3>1, <2>3 DEF Agree, Same
  <2>4. QED BY <2>2, <2>3
<1>2. QED BY <1>1, Invariance, PTL
=============================================================================
