---------------------------- MODULE InboundUpload ----------------------------
(***************************************************************************)
(* One company's uploads on the server: POST /sync/inbound                 *)
(* (src/backend/app/routers/sync.py), its durable receipts                 *)
(* (services/inbound_receipts.py) and the guard that lets one import of a  *)
(* company run at a time (core/sync_guard.py).                             *)
(*                                                                         *)
(* Several backend processes share one MySQL database.  A receipt row and  *)
(* the named lock live in the database; the set of companies being         *)
(* imported and sync_lock live in one process and go with it.  An action   *)
(* is what a request does between two awaits, or one statement of the      *)
(* database.  ManualImports are the imports of the Sync page, which take   *)
(* sync_lock only.                                                         *)
(***************************************************************************)
EXTENDS Naturals, FiniteSets

CONSTANTS Uploads,        \* requests to POST /sync/inbound for the company
          ManualImports,  \* requests of the Sync page that import
          Processes,      \* backend processes on the database
          Proc,           \* Proc[r]: the process that serves request r
          Keys,           \* Idempotency-Keys
          Key,            \* Key[u]: the key of upload u, None without one
          Sha,            \* Sha[u]: payload_hash(body, force)
          Forced,         \* the uploads that are forced
          None

Requests == Uploads \cup ManualImports

ASSUME RequestsAssumption ==
  /\ Uploads \cap ManualImports = {}
  /\ Proc \in [Requests -> Processes]
  /\ IsFiniteSet(Keys)
  /\ None \notin Requests \cup Keys /\ None \notin Nat
  /\ None \notin {"success", "error", "exception", "result", "failed", "replay", "mismatch", "busy"}
  /\ Key \in [Uploads -> Keys \cup {None}]
  /\ Forced \subseteq Uploads
  \* payload_hash is taken over the force flag as well
  /\ \A u, v \in Uploads : Sha[u] = Sha[v] => (u \in Forced <=> v \in Forced)

VARIABLES
  receipt,    \* the receipt rows, by key; None where there is none
  nextId,     \* the next receipt_id
  importing,  \* sync_guard._importing of each process: is the company in it?
  dbLock,     \* the connection (of which request) that holds GET_LOCK
  syncLock,   \* sync_lock of each process
  pc,         \* where a request is
  snap,       \* the row begin() read
  taken,      \* receipt_id and attempts of the receipt a request runs for
  result,     \* how the request's import ended
  answer,     \* what an upload was told
  imported,   \* (key, payload) imported to the end (history)
  cutOff,     \* requests whose lock connection died (history)
  failing     \* requests whose GET_LOCK, finish or release failed

dbVars == <<receipt, nextId, dbLock>>
processVars == <<importing, syncLock>>
vars == <<dbVars, processVars, pc, snap, taken, result, answer,
          imported, cutOff, failing>>

\* begin: "new", "again", "decide"; the guard: "guard", "lock"; "wait" for sync_lock;
\* "import"; "finish" the receipt; "unlock", "leave" the guard; "release" the
\* receipt of an import that never started.
Stages == {"new", "again", "decide", "guard", "lock", "wait", "import", "finish",
           "unlock", "leave", "release", "answered", "dead"}

Answers == {None, "result", "failed", "replay", "mismatch", "busy"}

NoReceipt == [id |-> None, attempts |-> 0]

Row(id, sha) == [id |-> id, sha |-> sha, state |-> "PROCESSING", attempts |-> 1,
                 past |-> FALSE, ancient |-> FALSE]

TypeOK ==
  /\ \A k \in Keys : receipt[k] # None =>
        /\ receipt[k].id \in 1 .. nextId - 1
        /\ receipt[k].sha \in {Sha[u] : u \in Uploads}
        /\ receipt[k].state \in {"PROCESSING", "DONE", "FAILED"}
        /\ receipt[k].attempts \in Nat \ {0}
  /\ nextId \in Nat \ {0}
  /\ importing \in [Processes -> BOOLEAN]
  /\ dbLock \in Uploads \cup {None}
  /\ syncLock \in [Processes -> Requests \cup {None}]
  /\ pc \in [Requests -> Stages]
  /\ answer \in [Requests -> Answers]
  /\ cutOff \subseteq Uploads
  /\ failing \subseteq Uploads

\* A receipt that an earlier try, long answered, left behind.
Leftover(id, sha) == [Row(id, sha) EXCEPT !.state = "FAILED"]

Init ==
  /\ nextId = Cardinality(Keys) + 1
  /\ receipt \in [Keys -> {None} \cup {Leftover(id, Sha[u]) : id \in 1 .. nextId - 1, u \in Uploads}]
  /\ \A k, l \in Keys : k # l /\ receipt[k] # None /\ receipt[l] # None
                          => receipt[k].id # receipt[l].id
  /\ importing = [p \in Processes |-> FALSE]
  /\ dbLock = None
  /\ syncLock = [p \in Processes |-> None]
  /\ pc = [r \in Requests |-> IF r \in Uploads THEN "new" ELSE "wait"]
  /\ snap = [u \in Uploads |-> None]
  /\ taken = [u \in Uploads |-> NoReceipt]
  /\ result = [r \in Requests |-> None]
  /\ answer = [r \in Requests |-> None]
  /\ imported = {}
  /\ cutOff = {}
  /\ failing = {}

-----------------------------------------------------------------------------
Go(r, stage) == pc' = [pc EXCEPT ![r] = stage]

Tell(u, what) ==
  /\ Go(u, "answered")
  /\ answer' = [answer EXCEPT ![u] = what]

\* begin() returned: the row it read is gone.
Forget(u) == snap' = [snap EXCEPT ![u] = None]

\* No receipt is kept for an upload without a key.
StartUnkeyed(u) ==
  /\ pc[u] = "new" /\ Key[u] = None
  /\ Go(u, "guard")
  /\ UNCHANGED <<dbVars, processVars, snap, taken, result, answer,
                 imported, cutOff, failing>>

\* begin(): read the receipt of the key.
ReadReceipt(u) ==
  /\ pc[u] \in {"new", "again"} /\ Key[u] # None
  /\ Go(u, "decide")
  /\ snap' = [snap EXCEPT ![u] = receipt[Key[u]]]
  /\ UNCHANGED <<dbVars, processVars, taken, result, answer, imported, cutOff, failing>>

\* _purge_old: the company's receipts past RETENTION go.
Purged(rows) ==
  [k \in Keys |-> IF rows[k] # None /\ rows[k].ancient THEN None ELSE rows[k]]

\* A new receipt, and the purge, a statement of its own that may fail.
InsertReceipt(u) ==
  /\ pc[u] = "decide" /\ snap[u] = None /\ receipt[Key[u]] = None
  /\ LET rows == [receipt EXCEPT ![Key[u]] = Row(nextId, Sha[u])]
     IN receipt' \in {rows, Purged(rows)}
  /\ nextId' = nextId + 1
  /\ taken' = [taken EXCEPT ![u] = [id |-> nextId, attempts |-> 1]]
  /\ Go(u, "guard")
  /\ Forget(u)
  /\ UNCHANGED <<dbLock, processVars, result, answer, imported, cutOff, failing>>

\* Another request inserted the row first (IntegrityError): read it.  That a
\* second insert conflicts as well (BUSY after two passes) would take a purge
\* of the row in between, which RETENTION rules out.
InsertConflicts(u) ==
  /\ pc[u] = "decide" /\ snap[u] = None /\ receipt[Key[u]] # None
  /\ Go(u, "again")
  /\ UNCHANGED <<dbVars, processVars, snap, taken, result, answer,
                 imported, cutOff, failing>>

\* Mutants: the payload is not compared; a receipt that FAILED is replayed.
NeverMismatched(u) == FALSE
ReplayableUnlessRunning(u) ==
  snap[u].state # "PROCESSING" /\ u \notin Forced /\ ~snap[u].past

Mismatched(u) == snap[u].sha # Sha[u]
Replayable(u) == snap[u].state = "DONE" /\ u \notin Forced /\ ~snap[u].past
BeingImported(u) == snap[u].state = "PROCESSING" /\ ~snap[u].past

\* The receipt answers for the import.
AnswerFromReceipt(u) ==
  /\ pc[u] = "decide" /\ snap[u] # None
  /\ \/ Mismatched(u) /\ Tell(u, "mismatch")
     \/ ~Mismatched(u) /\ Replayable(u) /\ Tell(u, "replay")
     \/ ~Mismatched(u) /\ BeingImported(u) /\ Tell(u, "busy")
  /\ Forget(u)
  /\ UNCHANGED <<dbVars, processVars, taken, result, imported, cutOff, failing>>

\* Mutant: attempts is not part of the condition.
UnchangedState(u) ==
  LET now == receipt[Key[u]] IN
  now # None /\ now.id = snap[u].id /\ now.state = snap[u].state

\* The row is still as it was read.
Unchanged(u) ==
  LET now == receipt[Key[u]] IN
  /\ now # None /\ now.id = snap[u].id
  /\ now.state = snap[u].state /\ now.attempts = snap[u].attempts

\* Import again: take the receipt over with one conditional UPDATE.
MayTakeOver(u) ==
  /\ pc[u] = "decide" /\ snap[u] # None
  /\ ~Mismatched(u) /\ ~Replayable(u) /\ ~BeingImported(u)

TakeOver(u) ==
  /\ MayTakeOver(u) /\ Unchanged(u)
  /\ receipt' = [receipt EXCEPT ![Key[u]].state = "PROCESSING",
                                ![Key[u]].attempts = snap[u].attempts + 1,
                                ![Key[u]].past = FALSE]
  /\ taken' = [taken EXCEPT ![u] = [id |-> snap[u].id, attempts |-> snap[u].attempts + 1]]
  /\ Go(u, "guard")
  /\ Forget(u)
  /\ UNCHANGED <<nextId, dbLock, processVars, result, answer,
                 imported, cutOff, failing>>

TakeOverFails(u) ==
  /\ MayTakeOver(u) /\ ~Unchanged(u)
  /\ Tell(u, "busy")
  /\ Forget(u)
  /\ UNCHANGED <<dbVars, processVars, taken, result, imported, cutOff, failing>>

-----------------------------------------------------------------------------
\* company_sync_guard: this process first, ...
EnterGuard(u) ==
  /\ pc[u] = "guard" /\ ~importing[Proc[u]]
  /\ importing' = [importing EXCEPT ![Proc[u]] = TRUE]
  /\ Go(u, "lock")
  /\ UNCHANGED <<dbVars, syncLock, snap, taken, result, answer, imported, cutOff, failing>>

GuardBusy(u) ==
  /\ pc[u] = "guard" /\ importing[Proc[u]]
  /\ Go(u, "release")
  /\ UNCHANGED <<dbVars, processVars, snap, taken, result, answer,
                 imported, cutOff, failing>>

\* Mutant: the answer of GET_LOCK is not looked at.
GetLockAnyway(u) ==
  /\ pc[u] = "lock"
  /\ dbLock' = u
  /\ Go(u, "wait")
  /\ UNCHANGED <<receipt, nextId, processVars, snap, taken, result, answer,
                 imported, cutOff, failing>>

\* ... then the named lock of the database, without waiting for it.
GetLock(u) ==
  /\ pc[u] = "lock" /\ dbLock = None
  /\ dbLock' = u
  /\ Go(u, "wait")
  /\ UNCHANGED <<receipt, nextId, processVars, snap, taken, result, answer,
                 imported, cutOff, failing>>

\* No connection for GET_LOCK, or it failed: no SyncBusy, so nobody releases
\* the receipt; the answer is 500.
GetLockRaises(u) ==
  /\ pc[u] = "lock"
  /\ importing' = [importing EXCEPT ![Proc[u]] = FALSE]
  /\ Tell(u, "failed")
  /\ failing' = failing \cup {u}
  /\ UNCHANGED <<dbVars, syncLock, snap, taken, result, imported, cutOff>>

LockBusy(u) ==
  /\ pc[u] = "lock" /\ dbLock # None
  /\ importing' = [importing EXCEPT ![Proc[u]] = FALSE]
  /\ Go(u, "release")
  /\ UNCHANGED <<dbVars, syncLock, snap, taken, result, answer, imported, cutOff, failing>>

\* Mutant: sync_lock is not waited for.
AcquireAnyway(r) ==
  /\ pc[r] = "wait"
  /\ syncLock' = [syncLock EXCEPT ![Proc[r]] = r]
  /\ Go(r, "import")
  /\ UNCHANGED <<dbVars, importing, snap, taken, result, answer, imported, cutOff, failing>>

\* async with sync_lock
Acquire(r) ==
  /\ pc[r] = "wait" /\ syncLock[Proc[r]] = None
  /\ syncLock' = [syncLock EXCEPT ![Proc[r]] = r]
  /\ Go(r, "import")
  /\ UNCHANGED <<dbVars, importing, snap, taken, result, answer, imported, cutOff, failing>>

\* import_tally_xml returned (with success or an error) or raised.
ImportEnds(r) ==
  /\ pc[r] = "import"
  /\ \E how \in {"success", "error", "exception"} :
       /\ result' = [result EXCEPT ![r] = how]
       /\ imported' = IF how = "success" /\ r \in Uploads
                      THEN imported \cup {<<Key[r], Sha[r]>>} ELSE imported
  /\ Go(r, IF r \in Uploads /\ Key[r] # None THEN "finish" ELSE "unlock")
  /\ UNCHANGED <<dbVars, processVars, snap, taken, answer, cutOff, failing>>

\* The receipt with the id of u, if it is still there.
Owns(u, k) == receipt[k] # None /\ receipt[k].id = taken[u].id

\* The import is answered for as a success: it was one, and so was writing it.
Succeeded(u) == result[u] = "success" /\ u \notin failing

\* receipts.finish
FinishReceipt(u) ==
  /\ pc[u] = "finish"
  /\ receipt' = IF Owns(u, Key[u])
                THEN [receipt EXCEPT
                       ![Key[u]].state = IF Succeeded(u) THEN "DONE" ELSE "FAILED",
                       ![Key[u]].past = FALSE]
                ELSE receipt
  /\ Go(u, "unlock")
  /\ UNCHANGED <<nextId, dbLock, processVars, snap, taken, result, answer,
                 imported, cutOff, failing>>

\* finish failed: the handler of the import's exceptions writes FAILED instead;
\* when that fails as well, or was what failed, the request ends without.
FinishFails(u) ==
  /\ pc[u] = "finish"
  /\ failing' = failing \cup {u}
  /\ Go(u, IF result[u] = "exception" \/ u \in failing THEN "unlock" ELSE "finish")
  /\ UNCHANGED <<dbVars, processVars, snap, taken, result, answer, imported, cutOff>>

\* Mutant: an exception passes by the release of sync_lock.
SyncUnlockUnlessRaised(r) ==
  /\ pc[r] = "unlock"
  /\ syncLock' = IF result[r] = "exception" THEN syncLock
                 ELSE [syncLock EXCEPT ![Proc[r]] = None]
  /\ Go(r, IF r \in Uploads THEN "leave" ELSE "answered")
  /\ UNCHANGED <<dbVars, importing, snap, taken, result, answer, imported, cutOff, failing>>

\* Leaving `async with`: sync_lock first, then the guard.
SyncUnlock(r) ==
  /\ pc[r] = "unlock"
  /\ syncLock' = [syncLock EXCEPT ![Proc[r]] = None]
  /\ Go(r, IF r \in Uploads THEN "leave" ELSE "answered")
  /\ UNCHANGED <<dbVars, importing, snap, taken, result, answer, imported, cutOff, failing>>

LeaveGuard(u) ==
  /\ pc[u] = "leave"
  /\ dbLock' = IF dbLock = u THEN None ELSE dbLock
  /\ importing' = [importing EXCEPT ![Proc[u]] = FALSE]
  /\ Tell(u, IF result[u] = "exception" \/ u \in failing THEN "failed" ELSE "result")
  /\ UNCHANGED <<receipt, nextId, syncLock, snap, taken, result, imported, cutOff, failing>>

\* Mutant: the refused upload leaves its receipt as it is.
ReleaseNothing(u) ==
  /\ pc[u] = "release"
  /\ Tell(u, "busy")
  /\ UNCHANGED <<dbVars, processVars, snap, taken, result, imported, cutOff, failing>>

\* receipts.release, when the guard refused; then HTTP 409.
ReleaseReceipt(u) ==
  /\ pc[u] = "release"
  /\ receipt' = IF Key[u] # None /\ Owns(u, Key[u]) /\ receipt[Key[u]].state = "PROCESSING"
                THEN [receipt EXCEPT ![Key[u]].state = "FAILED", ![Key[u]].past = FALSE]
                ELSE receipt
  /\ Tell(u, "busy")
  /\ UNCHANGED <<nextId, dbLock, processVars, snap, taken, result, imported, cutOff, failing>>

\* A release that fails is logged and passed over.
ReleaseFails(u) ==
  /\ pc[u] = "release" /\ Key[u] # None
  /\ Tell(u, "busy")
  /\ failing' = failing \cup {u}
  /\ UNCHANGED <<dbVars, processVars, snap, taken, result, imported, cutOff>>

-----------------------------------------------------------------------------
\* STALE_PROCESSING since an import began, REPLAY_WINDOW since one was done.
WindowPasses(k) ==
  /\ receipt[k] # None /\ ~receipt[k].past
  /\ receipt' = [receipt EXCEPT ![k].past = TRUE]
  /\ UNCHANGED <<nextId, dbLock, processVars, pc, snap, taken, result, answer,
                 imported, cutOff, failing>>

\* RETENTION since the receipt was created.
RetentionPasses(k) ==
  /\ receipt[k] # None /\ receipt[k].past /\ ~receipt[k].ancient
  /\ receipt' = [receipt EXCEPT ![k].ancient = TRUE]
  /\ UNCHANGED <<nextId, dbLock, processVars, pc, snap, taken, result, answer,
                 imported, cutOff, failing>>

Ended(r) == pc[r] \in {"answered", "dead"}
On(p) == {r \in Requests : Proc[r] = p}

\* A backend process dies and comes back; MySQL frees its lock.
ProcessDies(p) ==
  /\ \E r \in On(p) : ~Ended(r) /\ pc[r] # "new"
  /\ pc' = [r \in Requests |->
              IF r \in On(p) /\ ~Ended(r) /\ pc[r] # "new" THEN "dead" ELSE pc[r]]
  /\ importing' = [importing EXCEPT ![p] = FALSE]
  /\ syncLock' = [syncLock EXCEPT ![p] = None]
  /\ dbLock' = IF dbLock # None /\ dbLock \in On(p) THEN None ELSE dbLock
  /\ snap' = [u \in Uploads |-> IF pc'[u] = "dead" THEN None ELSE snap[u]]
  /\ UNCHANGED <<receipt, nextId, taken, result, answer, imported, cutOff, failing>>

\* The connection that holds the lock dies under the import.
LockConnectionDies ==
  /\ dbLock # None
  /\ cutOff' = cutOff \cup {dbLock}
  /\ dbLock' = None
  /\ UNCHANGED <<receipt, nextId, processVars, pc, snap, taken, result, answer,
                 imported, failing>>

Begin(u) ==
  \/ StartUnkeyed(u) \/ ReadReceipt(u) \/ InsertReceipt(u)
  \/ InsertConflicts(u) \/ AnswerFromReceipt(u) \/ TakeOver(u) \/ TakeOverFails(u)

Guard(u) ==
  EnterGuard(u) \/ GuardBusy(u) \/ GetLock(u) \/ LockBusy(u) \/ GetLockRaises(u)

Finish(u) ==
  \/ FinishReceipt(u) \/ FinishFails(u) \/ LeaveGuard(u)
  \/ ReleaseReceipt(u) \/ ReleaseFails(u)

Next ==
  \/ \E u \in Uploads : Begin(u) \/ Guard(u) \/ Finish(u)
  \/ \E r \in Requests : Acquire(r) \/ ImportEnds(r) \/ SyncUnlock(r)
  \/ \E k \in Keys : WindowPasses(k) \/ RetentionPasses(k)
  \/ \E p \in Processes : ProcessDies(p)
  \/ LockConnectionDies

Spec == Init /\ [][Next]_vars

\* A request that was begun is carried on.  A request takes sync_lock once, so
\* one that waits for it is overtaken by each other request once at most:
\* asyncio.Lock's order of service is not needed.
Fairness ==
  /\ \A u \in Uploads : WF_vars(pc[u] # "new" /\ Begin(u))
                        /\ WF_vars(Guard(u)) /\ WF_vars(Finish(u))
  /\ \A r \in Requests : WF_vars(Acquire(r)) /\ WF_vars(ImportEnds(r))
                         /\ WF_vars(SyncUnlock(r))

FairSpec == Spec /\ Fairness

-----------------------------------------------------------------------------
InsideImport(r) == pc[r] \in {"import", "finish"}

\* Two imports of the company overlap, over all the processes of the database,
\* only when MySQL lost the connection that held the lock of one of them, or
\* when one is an import of the Sync page, which takes no guard, on another
\* process than the other's.
OneImportPerCompany ==
  \A r, s \in Requests :
    InsideImport(r) /\ InsideImport(s) /\ r # s =>
      \/ r \in cutOff \/ s \in cutOff
      \/ {r, s} \cap ManualImports # {} /\ Proc[r] # Proc[s]

\* One import at a time in a process, those of the Sync page included.
OneImportPerProcess ==
  \A r, s \in Requests :
    InsideImport(r) /\ InsideImport(s) /\ Proc[r] = Proc[s] => r = s

\* An upload answered from a receipt was imported to the end: a replayed
\* answer never stands for an import that failed or was cut off.
ReplayMeansImported ==
  \A u \in Uploads : answer[u] = "replay" => <<Key[u], Sha[u]>> \in imported

\* No two requests run for the same attempt of the same receipt.
OneRunPerAttempt ==
  \A u, v \in Uploads :
    u # v /\ taken[u] # NoReceipt => taken[u] # taken[v]

\* A receipt left PROCESSING belongs to a request that is still at work, to
\* one that died with its process, or to one whose GET_LOCK, finish or release
\* failed in the database: no other ending of a request, whoever took which
\* lock and took the receipt over from whom, leaves the key blocked until it
\* goes stale.
ProcessingHasOwner ==
  \A k \in Keys :
    receipt[k] # None /\ receipt[k].state = "PROCESSING" =>
      \E u \in Uploads :
        /\ Key[u] = k /\ taken[u] = [id |-> receipt[k].id, attempts |-> receipt[k].attempts]
        /\ pc[u] # "answered" \/ u \in failing

\* Every request that was begun comes to an end: nobody waits for a lock for
\* ever, although the guard is held while waiting for sync_lock.
RequestsEnd == \A r \in Requests : pc[r] \notin {"new", "answered", "dead"} ~> Ended(r)

\* The promise made to the agent, and what it is in this module.
phase == [u \in Uploads |->
  IF pc[u] = "import" THEN "running"
  ELSE IF result[u] = "success" THEN "done"
  ELSE IF result[u] # None THEN "failed"
  ELSE IF pc[u] = "dead" THEN "gone"
  ELSE IF answer[u] = "replay" THEN "replayed"
  ELSE IF answer[u] \in {"busy", "mismatch", "failed"} THEN "refused"
  ELSE "asked"]

Promise == INSTANCE UploadService
             WITH phase <- phase, kept <- imported, orphaned <- cutOff

\* The receipts and the locks keep that promise.
KeepsPromise == Promise!Service
=============================================================================
