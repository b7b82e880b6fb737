---------------------------- MODULE OutboundQueue ----------------------------
(***************************************************************************)
(* How a voucher's changes travel from the portal to TallyPrime by the     *)
(* Desktop Sync Agent: the rows of sync_queue (routers/vouchers.py,        *)
(* models/portal_core.py), the queue's endpoints (routers/sync.py), the    *)
(* outbound half of the agent (agent.py), and the import that brings the   *)
(* vouchers back (tally_xml_importer.py).  TALLY_URL is not set: nothing   *)
(* is pushed directly and every row waits for the agent.                   *)
(*                                                                         *)
(* A request of the portal is one transaction; only a delete, which reads  *)
(* the voucher's identifiers long before it commits, is two steps.  A      *)
(* voucher's contents are its `text`; a Tally voucher is named by its      *)
(* master id, its place in `tally`, which stands for its GUID too.  Users  *)
(* make Vouchers; one that an import makes bears the number of the place   *)
(* it was made from.  wrote and raced are history.                         *)
(***************************************************************************)
EXTENDS Naturals, Sequences, FiniteSets

CONSTANTS
  Vouchers,       \* vouchers users of the portal may make
  Texts,          \* what a voucher may say
  MaxMade,        \* bound: places of Tally an import may make a voucher of
  MaxChanges,     \* bound: changes made in the portal
  MaxTallyEdits,  \* bound: changes made by users of Tally
  MaxFaults,      \* bound: calls that fail, answers that are lost, crashes
  None

ASSUME BoundsAssumption ==
  /\ Vouchers \cap Nat = {} /\ None \notin Nat
  /\ MaxMade \in Nat
  /\ MaxChanges \in Nat /\ MaxTallyEdits \in Nat /\ MaxFaults \in Nat
  /\ None \notin Texts
  /\ None \notin [master : Nat, remote : BOOLEAN]
  /\ None \notin [text : Texts, status : {"confirmed", "cancelled"}, cancelled : BOOLEAN,
                remote : BOOLEAN, master : Nat]

VARIABLES
  vch,        \* the portal's vouchers, None while there is none
  audit,      \* deleted vouchers: the GUID kept of one, 0 if it had none
  queue,      \* the rows of sync_queue that are not processed
  rows,       \* the last sync_id
  deleting,   \* the identifiers a delete has read and not yet committed
  tally,      \* Tally's vouchers, by master id
  agent,      \* the agent: where it is and what it holds
  changes, tallyEdits, faults,   \* how much of the bounds is used
  wrote,      \* the text a user of the portal last gave the voucher
  raced       \* vouchers deleted under identifiers that had changed

portalVars == <<vch, audit, queue, rows, deleting>>
history == <<wrote, raced>>
vars == <<portalVars, tally, agent, changes, tallyEdits, faults, history>>

Made == 1 .. MaxMade
Ids == Vouchers \cup Made

Actions == {"Create", "Alter", "Cancel", "Delete"}
MasterIds == 1 .. Len(tally)
NoIdent == [master |-> 0, remote |-> FALSE]

Nothing == [m \in {} |-> None]

\* An agent with nothing in hand.
AtRest(pc) == [pc |-> pc, batch |-> {}, sent |-> {}, idents |-> {}, pulled |-> Nothing]

Pending(v) == {row \in queue : row.v = v}

PortalVoucher == [text : Texts, status : {"confirmed", "cancelled"}, cancelled : BOOLEAN,
                  remote : BOOLEAN, master : 0 .. Len(tally)]
Identifiers == [master : 0 .. Len(tally), remote : BOOLEAN]
QueueRow == [id : 1 .. rows, v : Ids, action : Actions,
             master : 0 .. Len(tally), remote : BOOLEAN]
TallyVoucher == [of : Ids, text : Texts, cancelled : BOOLEAN, gone : BOOLEAN, news : BOOLEAN]
AgentTask == [row : 1 .. rows, v : Ids, queued : Actions, send : {"Write", "Cancel", "Delete"},
              master : 0 .. Len(tally), remote : BOOLEAN, text : Texts \cup {None}, cancelled : BOOLEAN]

TypeOK ==
  /\ vch \in [Ids -> PortalVoucher \cup {None}]
  /\ audit \in [Ids -> {None} \cup 0 .. Len(tally)]
  /\ rows \in Nat
  /\ queue \subseteq QueueRow
  /\ \A r, s \in queue : r.id = s.id => r = s
  /\ deleting \in [Ids -> Identifiers \cup {None}]
  /\ tally \in Seq(TallyVoucher)
  /\ agent \in [pc : {"idle", "send", "ack", "report", "pull", "import"}, batch : SUBSET AgentTask,
                sent : SUBSET (1 .. rows), idents : SUBSET [v : Ids, master : MasterIds],
                pulled : UNION {[S -> TallyVoucher] : S \in SUBSET MasterIds}]
  /\ changes \in 0 .. MaxChanges /\ tallyEdits \in 0 .. MaxTallyEdits /\ faults \in 0 .. MaxFaults

Init ==
  /\ vch = [v \in Ids |-> None]
  /\ audit = [v \in Ids |-> None]
  /\ queue = {} /\ rows = 0
  /\ deleting = [v \in Ids |-> None]
  /\ tally = <<>>
  /\ agent = AtRest("idle")
  /\ changes = 0 /\ tallyEdits = 0 /\ faults = 0
  /\ wrote = [v \in Vouchers |-> None]
  /\ raced = {}

-----------------------------------------------------------------------------
(* The portal.                                                             *)

\* Mutant: a new row closes whatever is pending for the voucher.
SupersedesAll(action) == Actions

\* _close_redundant_sync_rows: the actions a new row makes redundant.
Supersedes(action) == IF action = "Delete" THEN {"Delete", "Create", "Alter"} ELSE {action}

\* The row after the last.
NewRow(v, action, ident) ==
  [id |-> rows + 1, v |-> v, action |-> action, master |-> ident.master, remote |-> ident.remote]

\* queue_sync_event and the hook behind it.
Queue(v, action, ident) ==
  /\ rows' = rows + 1
  /\ queue' = {row \in queue : ~(row.v = v /\ row.action \in Supersedes(action))}
                \cup {NewRow(v, action, ident)}

Change == changes < MaxChanges /\ changes' = changes + 1

\* create_voucher of a confirmed voucher
Create(v) ==
  /\ v \in Vouchers /\ vch[v] = None /\ audit[v] = None
  /\ \E t \in Texts :
       /\ vch' = [vch EXCEPT ![v] = [text |-> t, status |-> "confirmed", cancelled |-> FALSE,
                                     remote |-> FALSE, master |-> 0]]
       /\ wrote' = [u \in Vouchers |-> IF u = v THEN t ELSE wrote[u]]
  /\ Queue(v, "Create", NoIdent)
  /\ UNCHANGED <<audit, deleting, tally, agent, changes, tallyEdits, faults, raced>>

\* update_voucher: only a confirmed voucher is pushed
Edit(v) ==
  /\ vch[v] # None /\ Change
  /\ \E t \in Texts \ {vch[v].text} :
       /\ vch' = [vch EXCEPT ![v].text = t]
       /\ wrote' = [u \in Vouchers |-> IF u = v THEN t ELSE wrote[u]]
  /\ IF vch[v].status = "confirmed" THEN Queue(v, "Alter", NoIdent) ELSE UNCHANGED <<queue, rows>>
  /\ UNCHANGED <<audit, deleting, tally, agent, tallyEdits, faults, raced>>

\* cancel_voucher
Cancel(v) ==
  /\ vch[v] # None /\ vch[v].status # "cancelled" /\ Change
  /\ vch' = [vch EXCEPT ![v].status = "cancelled", ![v].cancelled = TRUE]
  /\ Queue(v, "Cancel", NoIdent)
  /\ UNCHANGED <<audit, deleting, tally, agent, tallyEdits, faults, history>>

\* update_voucher_status, back to confirmed
Confirm(v) ==
  /\ vch[v] # None /\ vch[v].status = "cancelled" /\ Change
  /\ vch' = [vch EXCEPT ![v].status = "confirmed", ![v].cancelled = FALSE]
  /\ Queue(v, "Alter", NoIdent)
  /\ UNCHANGED <<audit, deleting, tally, agent, tallyEdits, faults, history>>

MarkedCancelled(v) == vch[v].cancelled \/ vch[v].status = "cancelled"

\* retry_voucher_sync: a fresh row, unless one waits
Retry(v) ==
  /\ vch[v] # None /\ Change
  /\ \A row \in Pending(v) : row.action = "Delete"
  /\ Queue(v, IF MarkedCancelled(v) THEN "Cancel" ELSE "Alter", NoIdent)
  /\ UNCHANGED <<vch, audit, deleting, tally, agent, tallyEdits, faults, history>>

Ident(v) == [master |-> vch[v].master, remote |-> vch[v].remote]

\* delete_voucher: the identifiers are read ...
DeleteReads(v) ==
  /\ vch[v] # None /\ deleting[v] = None /\ Change
  /\ deleting' = [deleting EXCEPT ![v] = Ident(v)]
  /\ UNCHANGED <<vch, audit, queue, rows, tally, agent, tallyEdits, faults, history>>

\* ... and go on the queue row and, in part, into DeletedRecordAudit when
\* the delete commits.  What had changed of them meanwhile is lost.
DeleteCommits(v) ==
  /\ vch[v] # None /\ deleting[v] # None
  /\ vch' = [vch EXCEPT ![v] = None]
  /\ audit' = [audit EXCEPT ![v] = deleting[v].master]
  /\ Queue(v, "Delete", deleting[v])
  /\ deleting' = [deleting EXCEPT ![v] = None]
  /\ raced' = IF deleting[v] # Ident(v) THEN raced \cup {v} ELSE raced
  /\ UNCHANGED <<tally, agent, changes, tallyEdits, faults, wrote>>

Portal(v) == \/ Create(v) \/ Edit(v) \/ Cancel(v) \/ Confirm(v) \/ Retry(v)
             \/ DeleteReads(v) \/ DeleteCommits(v)

-----------------------------------------------------------------------------
(* GET /sync/outbound-queue.                                               *)

\* Mutant: the REMOTEID goes into the payload and is not kept.
AddressedUnsaved(v) == vch[v]

\* The voucher with the REMOTEID it is given when it has no address yet.
Addressed(v) == IF vch[v].master = 0 THEN [vch[v] EXCEPT !.remote = TRUE] ELSE vch[v]

\* What is sent for a row.  Create and Alter say what the voucher says now;
\* Cancel and Delete only whom they mean.
Task(row) ==
  LET there == vch[row.v] # None IN
  [row |-> row.id, v |-> row.v, queued |-> row.action,
   send |-> IF row.action \in {"Create", "Alter"} THEN "Write" ELSE row.action,
   master |-> IF there THEN vch[row.v].master ELSE row.master,
   remote |-> IF there THEN Addressed(row.v).remote ELSE row.remote,
   text |-> IF there THEN vch[row.v].text ELSE None,
   cancelled |-> there /\ MarkedCancelled(row.v)]

\* Mutant: a delete needs the master id.
DeliverableByMaster(row) == vch[row.v] # None \/ (row.action = "Delete" /\ row.master # 0)

\* A row of a voucher that is gone is retired, but for a delete that can
\* still say whom it means.
Deliverable(row) ==
  vch[row.v] # None \/ (row.action = "Delete" /\ (row.master # 0 \/ row.remote))

Fault == faults < MaxFaults /\ faults' = faults + 1
NoFault == UNCHANGED faults

\* The answer may be lost; what was retired and allocated stays so.
Fetch ==
  /\ agent.pc = "idle"
  /\ queue' = {row \in queue : Deliverable(row)}
  /\ vch' = [v \in Ids |-> IF vch[v] # None /\ Pending(v) # {} THEN Addressed(v) ELSE vch[v]]
  /\ \/ NoFault /\ agent' = IF queue' = {} THEN AtRest("pull")
                            ELSE [AtRest("send") EXCEPT !.batch = {Task(row) : row \in queue'}]
     \/ Fault /\ agent' = AtRest("pull")
  /\ UNCHANGED <<audit, rows, deleting, tally, changes, tallyEdits, history>>

-----------------------------------------------------------------------------
(* Tally, as far as imports go (P-03 to P-06 of Tally_API_Audit_Log.md).   *)

\* Whom a task means: by master id, else by the REMOTEID of the voucher.
Among(held, task) ==
  {m \in 1 .. Len(held) : /\ ~held[m].gone
                          /\ IF task.master # 0 THEN m = task.master
                             ELSE task.remote /\ held[m].of = task.v}
Meant(task) == Among(tally, task)

\* What is not there can be neither cancelled nor deleted, but it is written.
Accepts(task) == task.send = "Write" \/ Meant(task) # {}

\* Whether a cancelled voucher that is written over stays cancelled, unless
\* the payload says that it is cancelled, is left open.
Applied(task) ==
  IF Meant(task) = {}
  THEN {Append(tally, [of |-> task.v, text |-> task.text, cancelled |-> task.cancelled,
                       gone |-> FALSE, news |-> TRUE])}
  ELSE LET m == CHOOSE m \in Meant(task) : TRUE IN
       CASE task.send = "Write" ->
              {[tally EXCEPT ![m].text = task.text, ![m].cancelled = c, ![m].news = TRUE] :
                 c \in IF task.cancelled THEN {TRUE} ELSE {FALSE, tally[m].cancelled}}
         [] task.send = "Cancel" -> {[tally EXCEPT ![m].cancelled = TRUE, ![m].news = TRUE]}
         [] task.send = "Delete" -> {[tally EXCEPT ![m].gone = TRUE, ![m].news = FALSE]}

\* A user of Tally changes or cancels a voucher.
TallyEdit(m) ==
  /\ ~tally[m].gone /\ tallyEdits < MaxTallyEdits /\ tallyEdits' = tallyEdits + 1
  /\ \/ \E t \in Texts \ {tally[m].text} : tally' = [tally EXCEPT ![m].text = t, ![m].news = TRUE]
     \/ tally' = [tally EXCEPT ![m].cancelled = TRUE, ![m].news = TRUE]
  /\ UNCHANGED <<portalVars, agent, changes, faults, history>>

-----------------------------------------------------------------------------
(* The agent: _sync_outbound_company, then the inbound half.               *)

\* The queue is read by created_at, which counts whole seconds: what the portal
\* did within one comes in any order, and here any rows may be of one second.
First == agent.batch

\* One task is done with, its row to be acknowledged or not; of the identities
\* of one voucher the last is what the portal will keep.
Onward(task, acked, idents) ==
  agent' = [agent EXCEPT !.batch = @ \ {task},
                         !.pc = IF agent.batch = {task} THEN "ack" ELSE "send",
                         !.sent = IF acked THEN @ \cup {task.row} ELSE @,
                         !.idents = {i \in @ : \A j \in idents : i.v # j.v} \cup idents]

\* Where Tally put a voucher that was written or cancelled (LASTVCHID).
Identity(task) == {[v |-> task.v, master |-> m] :
                     m \in IF Meant(task) = {} THEN {Len(tally) + 1} ELSE Meant(task)}

\* Whether the row of a task with no one to carry it out on is acknowledged:
\* a delete answered "does not exist" is; "Cannot be deleted!", the answer under
\* a master id, and a cancel of nothing are no success.
AlreadyDone(task) == IF task.send = "Delete" /\ task.master = 0 THEN BOOLEAN ELSE {FALSE}

\* Tally carries the task out, or answers that there is nothing to cancel or
\* delete.
Send ==
  /\ agent.pc = "send"
  /\ \E task \in First :
     \/ /\ Accepts(task)
        /\ tally' \in Applied(task)
        /\ Onward(task, TRUE, IF task.send # "Delete" THEN Identity(task) ELSE {})
     \/ /\ ~Accepts(task)
        /\ \E acked \in AlreadyDone(task) : Onward(task, acked, {})
        /\ UNCHANGED tally
  /\ UNCHANGED <<portalVars, changes, tallyEdits, faults, history>>

\* Tally refuses the task for reasons of its own.
SendRefused ==
  /\ agent.pc = "send" /\ Fault
  /\ \E task \in First : Onward(task, FALSE, {})
  /\ UNCHANGED <<portalVars, tally, changes, tallyEdits, history>>

\* After a network failure a queued Create is looked up by its REMOTEID.
LookedUp(task) == task.queued = "Create" /\ task.master = 0

\* No answer: the task was carried out or not, and the lookup may fail too.
SendUnanswered ==
  /\ agent.pc = "send" /\ Fault
  /\ \E task \in First :
     /\ tally' \in {tally} \cup IF Accepts(task) THEN Applied(task) ELSE {}
     /\ \/ Onward(task, FALSE, {})
        \/ LookedUp(task) /\ Among(tally', task) # {} /\ Onward(task, TRUE, {})
  /\ UNCHANGED <<portalVars, changes, tallyEdits, history>>

\* acknowledge_queue, by sync_id
Acknowledge ==
  /\ agent.pc = "ack"
  /\ \/ NoFault /\ queue' = {row \in queue : row.id \notin agent.sent}
     \/ Fault /\ agent.sent # {} /\ UNCHANGED queue
  /\ agent' = [agent EXCEPT !.pc = "report", !.sent = {}]
  /\ UNCHANGED <<vch, audit, rows, deleting, tally, changes, tallyEdits, history>>

\* report_voucher_identities; a voucher deleted meanwhile is passed over
Report ==
  /\ agent.pc = "report"
  /\ \/ /\ NoFault
        /\ vch' = [v \in Ids |->
             IF vch[v] # None /\ \E i \in agent.idents : i.v = v
             THEN [vch[v] EXCEPT !.master = (CHOOSE i \in agent.idents : i.v = v).master]
             ELSE vch[v]]
     \/ Fault /\ agent.idents # {} /\ UNCHANGED vch
  /\ agent' = AtRest("pull")
  /\ UNCHANGED <<audit, queue, rows, deleting, tally, changes, tallyEdits, history>>

\* The inbound pass exports what Tally changed since the last one ...
News == {m \in MasterIds : tally[m].news}

Pull ==
  /\ agent.pc = "pull" /\ News # {}
  /\ agent' = [AtRest("import") EXCEPT !.pulled = [m \in News |-> tally[m]]]
  /\ tally' = [m \in MasterIds |-> [tally[m] EXCEPT !.news = FALSE]]
  /\ UNCHANGED <<portalVars, changes, tallyEdits, faults, history>>

\* Nothing to pull, or the interval has not passed.
NoPull ==
  /\ agent.pc = "pull"
  /\ agent' = AtRest("idle")
  /\ UNCHANGED <<portalVars, tally, changes, tallyEdits, faults, history>>

\* Whether v is the portal's voucher for m: by the GUID, or while it has none
\* by the REMOTEID Tally hands back.
Bears(v, m) ==
  vch[v] # None /\ IF vch[v].master # 0 THEN vch[v].master = m
                   ELSE vch[v].remote /\ agent.pulled[m].of = v

PulledOf(v) == {m \in DOMAIN agent.pulled : Bears(v, m)}

\* The zombie guard: the GUIDs of deleted vouchers.
DeletedGuids == {audit[v] : v \in Ids} \ {None, 0}

\* Mutant: the zombie guard is missing.
NewThoughDeleted == {m \in DOMAIN agent.pulled \cap Made : \A v \in Ids : ~Bears(v, m)}

\* What is nobody's becomes a new voucher: also one deleted before the portal
\* had its GUID, which the guard does not know.
New == {m \in DOMAIN agent.pulled \cap Made : m \notin DeletedGuids /\ \A v \in Ids : ~Bears(v, m)}

NewVoucher(m) ==
  [text |-> agent.pulled[m].text, status |-> "confirmed", cancelled |-> agent.pulled[m].cancelled,
   remote |-> FALSE, master |-> m]

\* What an import makes of v, given what it has of it; the status stays.
Overwritten(v, m) ==
  [vch[v] EXCEPT !.text = agent.pulled[m].text, !.cancelled = agent.pulled[m].cancelled,
                 !.master = m]

Imported(v) ==
  IF PulledOf(v) # {} THEN Overwritten(v, CHOOSE m \in PulledOf(v) : TRUE)
  ELSE IF v \in New THEN NewVoucher(v) ELSE vch[v]

\* ... and the portal writes it over its vouchers; the queue is not looked at.
Import ==
  /\ agent.pc = "import"
  /\ vch' = [v \in Ids |-> Imported(v)]
  /\ agent' = AtRest("idle")
  /\ UNCHANGED <<audit, queue, rows, deleting, tally, changes, tallyEdits, faults, history>>

\* The agent stops or a pass raises: what it held in memory is gone, and what
\* it pulled and did not import is pulled again.
Stops ==
  /\ agent.pc # "idle" /\ Fault
  /\ agent' = AtRest("idle")
  /\ tally' = [m \in MasterIds |->
                 [tally[m] EXCEPT !.news = @ \/ (m \in DOMAIN agent.pulled /\ ~tally[m].gone)]]
  /\ UNCHANGED <<portalVars, changes, tallyEdits, history>>

Agent == \/ Fetch \/ Send \/ SendRefused \/ SendUnanswered \/ Acknowledge \/ Report
         \/ Pull \/ NoPull \/ Import \/ Stops

Next ==
  \/ \E v \in Ids : Portal(v)
  \/ \E m \in MasterIds : TallyEdit(m)
  \/ Agent

Spec == Init /\ [][Next]_vars

\* The daemon loop goes round and pulls whenever the interval has passed; a
\* request that has begun ends.  No user has to do anything.
Fairness ==
  /\ WF_vars(Agent) /\ SF_vars(Pull)
  /\ \A v \in Ids : WF_vars(DeleteCommits(v))

FairSpec == Spec /\ Fairness

-----------------------------------------------------------------------------
\* What Tally has of v: the voucher it was sent as, the one it was made from.
Copies(v) == {m \in MasterIds : ~tally[m].gone /\ (tally[m].of = v \/ m = v)}

\* A voucher made again by an import after its deletion, whose copy in Tally
\* the delete then removed.
Orphaned(v) == v \in Made \cap MasterIds /\ tally[v].gone

\* The two sides say the same of v: a cancelled voucher's text is nobody's
\* concern; a delete that was committed under outdated identifiers is known
\* to miss what Tally holds.
Agree(v) ==
  IF vch[v] = None
  THEN audit[v] # None => Copies(v) = {} \/ v \in raced
  ELSE \E m \in Copies(v) :
         /\ tally[m].cancelled = MarkedCancelled(v)
         /\ ~tally[m].cancelled => tally[m].text = vch[v].text

\* No push, import or delete is under way or owed.
Settled ==
  /\ queue = {} /\ agent.pc = "idle" /\ News = {}
  /\ \A v \in Ids : deleting[v] = None

\* Whenever nothing is owed, portal and Tally agree on what users made and on
\* what imports made again: no change is lost on the way, whatever failed in
\* between.  Excepted is what was orphaned: the portal keeps it, Tally has not.
SettledAgree == Settled => \A v \in Ids : Agree(v) \/ Orphaned(v)

\* Once the portal knew the GUID of what it deleted, no import and no late
\* report gives it a voucher under that GUID again (the guard of import_tally_xml),
\* although Tally has it until the delete is sent and may have been read before
\* that.  One deleted before its GUID was known is not protected.
DeletedStaysDeleted ==
  \A v, w \in Ids : audit[v] \notin {None, 0} /\ vch[w] # None => vch[w].master # audit[v]

\* However often a voucher is sent, Tally holds it once: an orphaned one alone,
\* written under a master id that is gone, is made anew by each write (P-04).
OneCopy == \A v \in Ids : Cardinality(Copies(v)) <= 1 \/ Orphaned(v)

\* The two sides come to agree and stay so, and nothing is left on the queue
\* but the delete of a voucher Tally no longer has ("Cannot be deleted!", P-06)
\* and what was queued for an orphaned one.
EventuallyAgree ==
  <>[](/\ \A v \in Ids : Agree(v) \/ Orphaned(v)
       /\ \A row \in queue : Orphaned(row.v) \/ (row.action = "Delete" /\ Copies(row.v) = {}))

\* "when Tally cannot be reached the change is kept and stays queued"
\* (vouchers.py, _push_voucher_change): what waits to be sent is what the
\* user wrote.
ChangeIsKept ==
  \A v \in Vouchers :
    vch[v] # None /\ (\E row \in Pending(v) : row.action \in {"Create", "Alter"})
    => vch[v].text = wrote[v]
=============================================================================
