------------------------- MODULE InboundUploadProofs -------------------------
(***************************************************************************)
(* What the upload endpoint guarantees for any number of requests, keys    *)
(* and backend processes.  The invariant has three parts: who holds which  *)
(* lock (LockIsHeld, SyncLockIsHeld), how receipts are numbered, taken     *)
(* over and given up (FreshIds to EndedLetsGo), and what a receipt that is *)
(* DONE stands for (SamePayload, DoneIsImported).                          *)
(***************************************************************************)
EXTENDS InboundUpload, FiniteSetTheorems, TLAPS

Outcomes == {"success", "error", "exception"}
Rows == [id : Nat, sha : {Sha[u] : u \in Uploads},
         state : {"PROCESSING", "DONE", "FAILED"},
         attempts : Nat \ {0}, past : BOOLEAN, ancient : BOOLEAN]

Shape ==
  /\ receipt \in [Keys -> Rows \cup {None}]
  /\ snap \in [Uploads -> Rows \cup {None}]
  /\ taken \in [Uploads -> [id : Nat \cup {None}, attempts : Nat]]
  /\ result \in [Requests -> Outcomes \cup {None}]

\* From GET_LOCK on, an upload holds the named lock or has lost it.
LockIsHeld ==
  \A u \in Uploads :
    pc[u] \in {"wait", "import", "finish", "unlock", "leave"} => dbLock = u \/ u \in cutOff

\* Whoever imports holds the sync_lock of its process.
SyncLockIsHeld ==
  \A r \in Requests :
    pc[r] \in {"import", "finish", "unlock"} => syncLock[Proc[r]] = r

\* What is known of an upload at each stage.
StagesAgree ==
  \A u \in Uploads :
    /\ pc[u] \in {"new", "again", "decide"} => taken[u] = NoReceipt
    /\ pc[u] \in {"again", "decide", "finish"} => Key[u] \in Keys
    /\ Key[u] = None => taken[u] = NoReceipt
    /\ pc[u] \in {"new", "again", "decide", "guard", "lock", "wait", "import", "release"}
         => result[u] = None /\ answer[u] = None
    /\ pc[u] \in {"finish", "unlock", "leave"} => result[u] # None /\ answer[u] = None

\* Ids are never used twice.
FreshIds ==
  /\ \A k, l \in Keys :
       k # l /\ receipt[k] # None /\ receipt[l] # None => receipt[k].id # receipt[l].id
  /\ \A u \in Uploads :
       /\ taken[u] # NoReceipt => taken[u].id \in 1 .. nextId - 1
       /\ snap[u] # None => snap[u].id \in 1 .. nextId - 1

\* A receipt counts every attempt made under it.
AttemptsCount ==
  \A u \in Uploads : \A k \in Keys :
    receipt[k] # None /\ taken[u].id = receipt[k].id
      => taken[u].attempts <= receipt[k].attempts

\* A request past a finish() or release() that did not fail has let its attempt go.
EndedLetsGo ==
  \A u \in Uploads : \A k \in Keys :
    /\ pc[u] \in {"unlock", "leave", "answered"} /\ u \notin failing /\ Key[u] = k
    /\ receipt[k] # None /\ receipt[k].state = "PROCESSING"
    => taken[u] # [id |-> receipt[k].id, attempts |-> receipt[k].attempts]

\* A receipt taken is one of the same payload; a row read keeps its payload.
SamePayload ==
  \A u \in Uploads : \A k \in Keys :
    Key[u] = k /\ receipt[k] # None =>
      /\ taken[u].id = receipt[k].id => receipt[k].sha = Sha[u]
      /\ snap[u] # None /\ snap[u].id = receipt[k].id => receipt[k].sha = snap[u].sha

\* DONE means imported, in the row, in what was read of it, and in the
\* request that is about to write it.
DoneIsImported ==
  /\ \A k \in Keys :
       receipt[k] # None /\ receipt[k].state = "DONE" => <<k, receipt[k].sha>> \in imported
  /\ \A u \in Uploads :
       /\ snap[u] # None /\ snap[u].state = "DONE" => <<Key[u], snap[u].sha>> \in imported
       /\ result[u] = "success" => <<Key[u], Sha[u]>> \in imported

LockInv == LockIsHeld /\ SyncLockIsHeld
ReceiptInv == /\ FreshIds /\ OneRunPerAttempt /\ AttemptsCount
              /\ ProcessingHasOwner /\ EndedLetsGo
ImportInv == SamePayload /\ DoneIsImported /\ ReplayMeansImported

IInv == TypeOK /\ Shape /\ StagesAgree /\ LockInv /\ ReceiptInv /\ ImportInv
-----------------------------------------------------------------------------
(* What the actions do to the rows.                                        *)

\* A step writes state and attempts of the row of k, and leaves the rest.
Rewrites(k, state, attempts) ==
  /\ receipt' \in [Keys -> Rows \cup {None}]
  /\ receipt[k] # None /\ receipt[k] \in Rows /\ receipt'[k] \in Rows
  /\ receipt'[k].id = receipt[k].id /\ receipt'[k].sha = receipt[k].sha
  /\ receipt'[k].state = state /\ receipt'[k].attempts = attempts
  /\ \A l \in Keys \ {k} : receipt'[l] = receipt[l]

\* A step makes a row for k and may drop rows.
Inserts(k, id, sha) ==
  /\ receipt' \in [Keys -> Rows \cup {None}]
  /\ receipt'[k] # None =>
       /\ receipt'[k].id = id /\ receipt'[k].sha = sha
       /\ receipt'[k].state = "PROCESSING" /\ receipt'[k].attempts = 1
  /\ \A l \in Keys \ {k} : receipt'[l] \in {receipt[l], None}

\* A receipt that is there is a row.
LEMMA RowThere == ASSUME Shape, NEW k \in Keys, receipt[k] # None
                  PROVE  receipt[k] \in Rows
  BY DEF Shape

\* finish(), release(): the state is written, attempts stay.
LEMMA WriteState ==
  ASSUME Shape, NEW k \in Keys, receipt[k] # None, receipt[k] \in Rows,
         NEW s \in {"PROCESSING", "DONE", "FAILED"},
         receipt' = [receipt EXCEPT ![k].state = s, ![k].past = FALSE]
  PROVE  Rewrites(k, s, receipt[k].attempts)
<1> DEFINE row == [receipt[k] EXCEPT !.state = s, !.past = FALSE]
<1>1. row \in Rows
  BY DEF Rows
<1>2. /\ row.id = receipt[k].id /\ row.sha = receipt[k].sha
      /\ row.state = s /\ row.attempts = receipt[k].attempts
  BY DEF Rows
<1>3. receipt' = [receipt EXCEPT ![k] = row]
  BY DEF Shape
<1> HIDE DEF row
<1> QED
  BY <1>1, <1>2, <1>3 DEF Rewrites, Shape

\* begin() takes a row over: the state and the attempts are written.
LEMMA WriteAttempt ==
  ASSUME Shape, NEW k \in Keys, receipt[k] # None, receipt[k] \in Rows, NEW n \in Nat \ {0},
         receipt' = [receipt EXCEPT ![k].state = "PROCESSING", ![k].attempts = n,
                                    ![k].past = FALSE]
  PROVE  Rewrites(k, "PROCESSING", n)
<1> DEFINE row == [receipt[k] EXCEPT !.state = "PROCESSING", !.attempts = n, !.past = FALSE]
<1>1. row \in Rows
  BY DEF Rows
<1>2. /\ row.id = receipt[k].id /\ row.sha = receipt[k].sha
      /\ row.state = "PROCESSING" /\ row.attempts = n
  BY DEF Rows
<1>3. receipt' = [receipt EXCEPT ![k] = row]
  BY DEF Shape
<1> HIDE DEF row
<1> QED
  BY <1>1, <1>2, <1>3, ZenonT(40) DEF Rewrites, Shape

\* Time passes over a row.
LEMMA TimePasses ==
  ASSUME Shape, NEW k \in Keys, WindowPasses(k) \/ RetentionPasses(k)
  PROVE  Rewrites(k, receipt[k].state, receipt[k].attempts)
<1>1. receipt[k] # None /\ receipt[k] \in Rows
  BY RowThere DEF WindowPasses, RetentionPasses
<1>2. PICK row \in {[receipt[k] EXCEPT !.past = TRUE], [receipt[k] EXCEPT !.ancient = TRUE]} :
        receipt' = [receipt EXCEPT ![k] = row]
  BY DEF WindowPasses, RetentionPasses, Shape
<1>3. /\ row \in Rows
      /\ row.id = receipt[k].id /\ row.sha = receipt[k].sha
      /\ row.state = receipt[k].state /\ row.attempts = receipt[k].attempts
  BY <1>1 DEF Rows
<1> QED
  BY <1>1, <1>2, <1>3 DEF Rewrites, Shape

\* finish() writes the outcome of an owned receipt, release() gives one up.
LEMMA Finishes ==
  ASSUME Shape, NEW u \in Uploads, Key[u] \in Keys, FinishReceipt(u)
  PROVE  IF Owns(u, Key[u])
         THEN Rewrites(Key[u], IF Succeeded(u) THEN "DONE" ELSE "FAILED",
                       receipt[Key[u]].attempts)
         ELSE receipt' = receipt
  BY RowThere, WriteState DEF FinishReceipt, Owns

\* release() gives up a receipt that is still PROCESSING under the id it took.
LEMMA Releases ==
  ASSUME Shape, RequestsAssumption, NEW u \in Uploads, ReleaseReceipt(u)
  PROVE  IF Key[u] # None /\ Owns(u, Key[u]) /\ receipt[Key[u]].state = "PROCESSING"
         THEN Rewrites(Key[u], "FAILED", receipt[Key[u]].attempts)
         ELSE receipt' = receipt
<1>1. CASE Key[u] # None /\ Owns(u, Key[u]) /\ receipt[Key[u]].state = "PROCESSING"
  BY <1>1, RowThere, WriteState DEF ReleaseReceipt, Owns, RequestsAssumption
<1> QED
  BY <1>1 DEF ReleaseReceipt

\* The conditional UPDATE of begin().
LEMMA TakesOver ==
  ASSUME Shape, NEW u \in Uploads, Key[u] \in Keys, TakeOver(u)
  PROVE  /\ Rewrites(Key[u], "PROCESSING", receipt[Key[u]].attempts + 1)
         /\ snap[u] # None /\ receipt[Key[u]] # None
         /\ snap[u].id = receipt[Key[u]].id /\ snap[u].sha = Sha[u]
         /\ taken' = [taken EXCEPT ![u] = [id |-> receipt[Key[u]].id,
                                           attempts |-> receipt[Key[u]].attempts + 1]]
<1>1. /\ receipt[Key[u]] \in Rows
      /\ snap[u] # None /\ receipt[Key[u]] # None
      /\ snap[u].id = receipt[Key[u]].id /\ snap[u].attempts = receipt[Key[u]].attempts
  BY RowThere DEF TakeOver, MayTakeOver, Unchanged
<1>2. receipt[Key[u]].attempts + 1 \in Nat \ {0}
  BY <1>1 DEF Rows
<1>3. Rewrites(Key[u], "PROCESSING", receipt[Key[u]].attempts + 1)
  BY <1>1, <1>2, WriteAttempt DEF TakeOver
<1> QED
  BY <1>1, <1>3 DEF TakeOver, MayTakeOver, Mismatched

\* The INSERT of begin(), and the purge behind it.
LEMMA InsertsRow ==
  ASSUME TypeOK, Shape, NEW u \in Uploads, Key[u] \in Keys, InsertReceipt(u)
  PROVE  Inserts(Key[u], nextId, Sha[u])
<1> DEFINE rows == [receipt EXCEPT ![Key[u]] = Row(nextId, Sha[u])]
<1>1. Row(nextId, Sha[u]) \in Rows
  BY DEF Row, Rows, TypeOK
<1>2. /\ rows \in [Keys -> Rows \cup {None}]
      /\ rows[Key[u]] = Row(nextId, Sha[u])
      /\ \A l \in Keys \ {Key[u]} : rows[l] = receipt[l]
  BY <1>1 DEF Shape
<1>3. receipt' \in {rows, Purged(rows)}
  BY DEF InsertReceipt
<1> HIDE DEF rows
<1>4. \A l \in Keys : Purged(rows)[l] \in {rows[l], None}
  BY DEF Purged
<1>5. Purged(rows) \in [Keys -> Rows \cup {None}]
  BY <1>2 DEF Purged
<1> QED
  BY <1>1, <1>2, <1>3, <1>4, <1>5 DEF Inserts, Row

\* Only these steps write rows, and only the first two take a receipt.
Writes(u) == InsertReceipt(u) \/ TakeOver(u) \/ FinishReceipt(u) \/ ReleaseReceipt(u)
Ages(k) == WindowPasses(k) \/ RetentionPasses(k)

\* All other steps leave rows, ids and takings alone.
LEMMA Quiet ==
  ASSUME [Next]_vars, \A u \in Uploads : ~Writes(u), \A k \in Keys : ~Ages(k)
  PROVE  receipt' = receipt /\ nextId' = nextId /\ taken' = taken
<1> USE DEF dbVars
<1>1. ASSUME NEW u \in Uploads, Begin(u) PROVE receipt' = receipt /\ nextId' = nextId /\ taken' = taken
  BY <1>1 DEF Begin, StartUnkeyed, ReadReceipt, InsertConflicts, AnswerFromReceipt,
              TakeOverFails, Writes
<1>2. ASSUME NEW u \in Uploads, Guard(u) PROVE receipt' = receipt /\ nextId' = nextId /\ taken' = taken
  BY <1>2 DEF Guard, EnterGuard, GuardBusy, GetLock, LockBusy, GetLockRaises
<1>3. ASSUME NEW u \in Uploads, Finish(u) PROVE receipt' = receipt /\ nextId' = nextId /\ taken' = taken
  BY <1>3 DEF Finish, FinishFails, LeaveGuard, ReleaseFails, Writes
<1>4. ASSUME NEW r \in Requests, Acquire(r) \/ ImportEnds(r) \/ SyncUnlock(r)
      PROVE  receipt' = receipt /\ nextId' = nextId /\ taken' = taken
  BY <1>4 DEF Acquire, ImportEnds, SyncUnlock
<1>5. ASSUME NEW p \in Processes, ProcessDies(p)
      PROVE  receipt' = receipt /\ nextId' = nextId /\ taken' = taken
  BY <1>5 DEF ProcessDies
<1>6. LockConnectionDies \/ UNCHANGED vars => receipt' = receipt /\ nextId' = nextId /\ taken' = taken
  BY DEF LockConnectionDies, vars
<1> QED
  BY <1>1, <1>2, <1>3, <1>4, <1>5, <1>6 DEF Next, Ages

\* What a request has read of a row it read in this step, or before.
LEMMA SnapStep ==
  ASSUME Shape, StagesAgree, [Next]_vars, NEW u \in Uploads, snap'[u] # None
  PROVE  \/ snap'[u] = snap[u]
         \/ /\ Key[u] \in Keys /\ snap'[u] = receipt[Key[u]]
            /\ receipt' = receipt /\ nextId' = nextId /\ taken' = taken
<1> USE RequestsAssumption DEF dbVars, Forget
<1>1. ASSUME NEW v \in Uploads, ReadReceipt(v)
      PROVE  \/ snap'[u] = snap[u]
             \/ /\ Key[u] \in Keys /\ snap'[u] = receipt[Key[u]]
                /\ receipt' = receipt /\ nextId' = nextId /\ taken' = taken
  BY <1>1 DEF ReadReceipt, Shape
<1>2. ASSUME NEW v \in Uploads, Begin(v), ~ReadReceipt(v) PROVE snap'[u] = snap[u]
  BY <1>2 DEF Begin, StartUnkeyed, InsertReceipt, InsertConflicts,
     AnswerFromReceipt, TakeOver, MayTakeOver, TakeOverFails, Shape
<1>3. ASSUME NEW v \in Uploads, Guard(v) \/ Finish(v) PROVE snap' = snap
  BY <1>3 DEF Guard, EnterGuard, GuardBusy, GetLock, LockBusy, GetLockRaises,
              Finish, FinishReceipt, FinishFails, LeaveGuard, ReleaseReceipt, ReleaseFails
<1>4. ASSUME NEW r \in Requests, Acquire(r) \/ ImportEnds(r) \/ SyncUnlock(r) PROVE snap' = snap
  BY <1>4 DEF Acquire, ImportEnds, SyncUnlock
<1>5. ASSUME NEW k \in Keys, Ages(k) PROVE snap' = snap
  BY <1>5 DEF WindowPasses, RetentionPasses, Ages
<1>6. ASSUME NEW p \in Processes, ProcessDies(p) PROVE snap'[u] = snap[u]
  BY <1>6 DEF ProcessDies
<1>7. LockConnectionDies \/ UNCHANGED vars => snap' = snap
  BY DEF LockConnectionDies, vars
<1> QED
  BY <1>1, <1>2, <1>3, <1>4, <1>5, <1>6, <1>7 DEF Next, Ages
-----------------------------------------------------------------------------
(* Types and stages.                                                       *)

\* The types of all but the rows.
Others ==
  /\ nextId \in Nat \ {0}
  /\ snap \in [Uploads -> Rows \cup {None}]
  /\ taken \in [Uploads -> [id : Nat \cup {None}, attempts : Nat]]
  /\ result \in [Requests -> Outcomes \cup {None}]
  /\ importing \in [Processes -> BOOLEAN]
  /\ dbLock \in Uploads \cup {None}
  /\ syncLock \in [Processes -> Requests \cup {None}]
  /\ pc \in [Requests -> Stages]
  /\ answer \in [Requests -> Answers]
  /\ cutOff \subseteq Uploads /\ failing \subseteq Uploads

RowTypes ==
  /\ receipt \in [Keys -> Rows \cup {None}]
  /\ \A k \in Keys : receipt[k] # None => receipt[k].id \in 1 .. nextId - 1

\* The two type invariants together are the types of the rows and of the rest.
LEMMA TypesAre == TypeOK /\ Shape <=> Others /\ RowTypes
  BY DEF TypeOK, Shape, Others, RowTypes, Rows

\* No step gives a variable other than the rows a wrong value.
LEMMA OthersKept ==
  ASSUME Others, RowTypes, [Next]_vars
  PROVE  Others'
<1> USE RequestsAssumption
<1> USE DEF Requests, Go, Tell, Forget, dbVars, processVars
<1>1. ASSUME NEW u \in Uploads, Begin(u) PROVE Others'
  <2>1. CASE StartUnkeyed(u)
    BY <2>1 DEF StartUnkeyed, Others, Stages
  <2>2. CASE ReadReceipt(u)
    BY <2>2 DEF ReadReceipt, Others, Stages, RowTypes
  <2>3. CASE InsertReceipt(u)
    BY <2>3 DEF InsertReceipt, Others, Stages
  <2>4. CASE InsertConflicts(u)
    BY <2>4 DEF InsertConflicts, Others, Stages
  <2>5. CASE AnswerFromReceipt(u)
    <3>1. PICK what \in {"mismatch", "replay", "busy"} :
            pc' = [pc EXCEPT ![u] = "answered"] /\ answer' = [answer EXCEPT ![u] = what]
      BY <2>5 DEF AnswerFromReceipt
    <3> QED
      BY <2>5, <3>1 DEF AnswerFromReceipt, Others, Stages, Answers
  <2>6. CASE TakeOver(u)
    <3>1. snap[u] \in Rows
      BY <2>6 DEF TakeOver, MayTakeOver, Others
    <3>2. [id |-> snap[u].id, attempts |-> snap[u].attempts + 1]
            \in [id : Nat \cup {None}, attempts : Nat]
      BY <3>1 DEF Rows
    <3> QED
      BY <2>6, <3>2 DEF TakeOver, MayTakeOver, Others, Stages
  <2>7. CASE TakeOverFails(u)
    BY <2>7 DEF TakeOverFails, MayTakeOver, Others, Stages, Answers
  <2> QED
    BY <1>1, <2>1, <2>2, <2>3, <2>4, <2>5, <2>6, <2>7 DEF Begin
<1>2. ASSUME NEW u \in Uploads, Guard(u) PROVE Others'
  <2>1. CASE EnterGuard(u)
    BY <2>1 DEF EnterGuard, Others, Stages
  <2>4. CASE GuardBusy(u)
    BY <2>4 DEF GuardBusy, Others, Stages
  <2>2. CASE GetLock(u)
    BY <2>2 DEF GetLock, Others, Stages
  <2>3. CASE LockBusy(u)
    BY <2>3 DEF LockBusy, Others, Stages
  <2>5. CASE GetLockRaises(u)
    BY <2>5, ZenonT(40) DEF GetLockRaises, Others, Stages, Answers
  <2> QED
    BY <1>2, <2>1, <2>2, <2>3, <2>4, <2>5 DEF Guard
<1>3. ASSUME NEW u \in Uploads, Finish(u) PROVE Others'
  <2>1. CASE FinishReceipt(u)
    BY <2>1 DEF FinishReceipt, Others, Stages
  <2>2. CASE FinishFails(u)
    BY <2>2 DEF FinishFails, Others, Stages
  <2>3. CASE LeaveGuard(u)
    BY <2>3, ZenonT(40) DEF LeaveGuard, Others, Stages, Answers
  <2>4. CASE ReleaseReceipt(u)
    BY <2>4, ZenonT(40) DEF ReleaseReceipt, Others, Stages, Answers
  <2>5. CASE ReleaseFails(u)
    BY <2>5, ZenonT(40) DEF ReleaseFails, Others, Stages, Answers
  <2> QED
    BY <1>3, <2>1, <2>2, <2>3, <2>4, <2>5 DEF Finish
<1>4. ASSUME NEW r \in Requests, Acquire(r) PROVE Others'
  BY <1>4 DEF Acquire, Others, Stages
<1>5. ASSUME NEW r \in Requests, ImportEnds(r) PROVE Others'
  BY <1>5 DEF ImportEnds, Others, Stages, Outcomes
<1>6. ASSUME NEW r \in Requests, SyncUnlock(r) PROVE Others'
  BY <1>6 DEF SyncUnlock, Others, Stages
<1>7. ASSUME NEW k \in Keys, WindowPasses(k) \/ RetentionPasses(k) PROVE Others'
  BY <1>7 DEF WindowPasses, RetentionPasses, Others
<1>8. ASSUME NEW p \in Processes, ProcessDies(p) PROVE Others'
  BY <1>8 DEF ProcessDies, Others, Stages
<1>9. CASE LockConnectionDies
  BY <1>9 DEF LockConnectionDies, Others
<1>10. CASE UNCHANGED vars
  BY <1>10 DEF vars, Others
<1> QED
  BY <1>1, <1>2, <1>3, <1>4, <1>5, <1>6, <1>7, <1>8, <1>9, <1>10 DEF Next

\* Every step leaves the rows, rewrites one, or inserts one with a new id.
LEMMA RowsStep ==
  ASSUME TypeOK, Shape, StagesAgree, [Next]_vars
  PROVE  \/ receipt' = receipt /\ nextId' = nextId
         \/ nextId' = nextId /\ \E k \in Keys : \E s, n : Rewrites(k, s, n)
         \/ nextId' = nextId + 1 /\ \E k \in Keys : \E sha : Inserts(k, nextId, sha)
<1> USE RequestsAssumption
<1> USE DEF dbVars
<1>1. ASSUME NEW u \in Uploads, InsertReceipt(u)
      PROVE  nextId' = nextId + 1 /\ \E k \in Keys : \E sha : Inserts(k, nextId, sha)
  BY <1>1, InsertsRow DEF StagesAgree, InsertReceipt
<1>2. ASSUME NEW u \in Uploads, TakeOver(u)
      PROVE  nextId' = nextId /\ \E k \in Keys : \E s, n : Rewrites(k, s, n)
  BY <1>2, TakesOver DEF StagesAgree, TakeOver, MayTakeOver
<1>3. ASSUME NEW u \in Uploads, FinishReceipt(u)
      PROVE  /\ nextId' = nextId
             /\ receipt' = receipt \/ \E k \in Keys : \E s, n : Rewrites(k, s, n)
  BY <1>3, Finishes DEF StagesAgree, FinishReceipt
<1>4. ASSUME NEW u \in Uploads, ReleaseReceipt(u)
      PROVE  /\ nextId' = nextId
             /\ receipt' = receipt \/ \E k \in Keys : \E s, n : Rewrites(k, s, n)
  <2>1. Key[u] # None => Key[u] \in Keys
    BY DEF RequestsAssumption
  <2> QED
    BY <1>4, <2>1, Releases DEF ReleaseReceipt
<1>5. ASSUME NEW k \in Keys, Ages(k)
      PROVE  nextId' = nextId /\ \E s, n : Rewrites(k, s, n)
  BY <1>5, TimePasses DEF WindowPasses, RetentionPasses, Ages
<1> QED
  BY <1>1, <1>2, <1>3, <1>4, <1>5, Quiet DEF Writes

\* No step breaks the types.
LEMMA TypesKept ==
  ASSUME TypeOK, Shape, StagesAgree, [Next]_vars
  PROVE  TypeOK' /\ Shape'
<1>1. Others /\ RowTypes
  BY TypesAre
<1>2. Others'
  BY <1>1, OthersKept
<1>3. RowTypes'
  <2>1. CASE receipt' = receipt /\ nextId' = nextId
    BY <1>1, <2>1 DEF RowTypes
  <2>2. ASSUME nextId' = nextId, NEW k \in Keys, NEW s, NEW n, Rewrites(k, s, n)
        PROVE  RowTypes'
    <3>1. receipt[k].id \in 1 .. nextId - 1
      BY <1>1, <2>2 DEF RowTypes, Rewrites
    <3> QED
      BY <1>1, <2>2, <3>1 DEF RowTypes, Rewrites
  <2>3. ASSUME nextId' = nextId + 1, NEW k \in Keys, NEW sha, Inserts(k, nextId, sha)
        PROVE  RowTypes'
    BY <1>1, <2>3 DEF RowTypes, Inserts, Others
  <2> QED
    BY <2>1, <2>2, <2>3, RowsStep
<1> QED
  BY <1>2, <1>3 DEF TypeOK, Shape, Others, RowTypes, Rows

\* What is known of an upload at its stage stays true.
LEMMA StagesKept ==
  ASSUME TypeOK, Shape, StagesAgree, [Next]_vars
  PROVE  StagesAgree'
<1> USE RequestsAssumption
<1> USE DEF Requests, Go, Tell, dbVars, processVars
<1>1. ASSUME NEW u \in Uploads, Begin(u) PROVE StagesAgree'
  <2>1. CASE StartUnkeyed(u)
    BY <2>1 DEF StartUnkeyed, StagesAgree, TypeOK
  <2>2. CASE ReadReceipt(u)
    BY <2>2 DEF ReadReceipt, StagesAgree, TypeOK
  <2>3. CASE InsertReceipt(u)
    BY <2>3 DEF InsertReceipt, StagesAgree, TypeOK, Shape
  <2>4. CASE InsertConflicts(u)
    BY <2>4 DEF InsertConflicts, StagesAgree, TypeOK
  <2>5. CASE AnswerFromReceipt(u)
    BY <2>5 DEF AnswerFromReceipt, StagesAgree, TypeOK
  <2>6. CASE TakeOver(u)
    BY <2>6 DEF TakeOver, MayTakeOver, StagesAgree, TypeOK, Shape
  <2>7. CASE TakeOverFails(u)
    BY <2>7 DEF TakeOverFails, MayTakeOver, StagesAgree, TypeOK
  <2> QED
    BY <1>1, <2>1, <2>2, <2>3, <2>4, <2>5, <2>6, <2>7 DEF Begin
<1>2. ASSUME NEW u \in Uploads, Guard(u) PROVE StagesAgree'
  <2>1. CASE EnterGuard(u)
    BY <2>1 DEF EnterGuard, StagesAgree, TypeOK
  <2>2. CASE GuardBusy(u)
    BY <2>2 DEF GuardBusy, StagesAgree, TypeOK
  <2>3. CASE GetLock(u)
    BY <2>3 DEF GetLock, StagesAgree, TypeOK
  <2>4. CASE LockBusy(u)
    BY <2>4 DEF LockBusy, StagesAgree, TypeOK
  <2>5. CASE GetLockRaises(u)
    BY <2>5 DEF GetLockRaises, StagesAgree, TypeOK
  <2> QED
    BY <1>2, <2>1, <2>2, <2>3, <2>4, <2>5 DEF Guard
<1>3. ASSUME NEW u \in Uploads, Finish(u) PROVE StagesAgree'
  <2>1. CASE FinishReceipt(u)
    BY <2>1 DEF FinishReceipt, StagesAgree, TypeOK
  <2>2. CASE LeaveGuard(u)
    BY <2>2 DEF LeaveGuard, StagesAgree, TypeOK
  <2>3. CASE ReleaseReceipt(u)
    BY <2>3 DEF ReleaseReceipt, StagesAgree, TypeOK
  <2>4. CASE FinishFails(u)
    BY <2>4 DEF FinishFails, StagesAgree, TypeOK
  <2>5. CASE ReleaseFails(u)
    BY <2>5 DEF ReleaseFails, StagesAgree, TypeOK
  <2> QED
    BY <1>3, <2>1, <2>2, <2>3, <2>4, <2>5 DEF Finish
<1>4. ASSUME NEW r \in Requests, Acquire(r) PROVE StagesAgree'
  BY <1>4 DEF Acquire, StagesAgree, TypeOK
<1>5. ASSUME NEW r \in Requests, ImportEnds(r) PROVE StagesAgree'
  <2> SUFFICES ASSUME NEW u \in Uploads PROVE StagesAgree!(u)'
    BY DEF StagesAgree
  <2>1. CASE u = r
    BY <1>5, <2>1 DEF ImportEnds, StagesAgree, TypeOK, Shape
  <2>2. CASE u # r
    BY <1>5, <2>2 DEF ImportEnds, StagesAgree, TypeOK, Shape
  <2> QED
    BY <2>1, <2>2
<1>6. ASSUME NEW r \in Requests, SyncUnlock(r) PROVE StagesAgree'
  BY <1>6 DEF SyncUnlock, StagesAgree, TypeOK
<1>7. ASSUME NEW k \in Keys, WindowPasses(k) \/ RetentionPasses(k) PROVE StagesAgree'
  BY <1>7 DEF WindowPasses, RetentionPasses, StagesAgree
<1>8. ASSUME NEW p \in Processes, ProcessDies(p) PROVE StagesAgree'
  BY <1>8 DEF ProcessDies, StagesAgree
<1>9. CASE LockConnectionDies
  BY <1>9 DEF LockConnectionDies, StagesAgree
<1>10. CASE UNCHANGED vars
  BY <1>10 DEF vars, StagesAgree
<1> QED
  BY <1>1, <1>2, <1>3, <1>4, <1>5, <1>6, <1>7, <1>8, <1>9, <1>10 DEF Next

-----------------------------------------------------------------------------
(* Locks.                                                                  *)

\* The named lock is given up only by leaving, dying or losing it.
LEMMA LockKept ==
  ASSUME TypeOK, LockIsHeld, [Next]_vars
  PROVE  LockIsHeld'
<1> USE RequestsAssumption
<1> USE DEF Requests, Go, Tell, dbVars, processVars
<1>1. ASSUME NEW u \in Uploads, Begin(u) PROVE LockIsHeld'
  BY <1>1 DEF Begin, StartUnkeyed, ReadReceipt, InsertReceipt, InsertConflicts,
              AnswerFromReceipt, TakeOver, MayTakeOver, TakeOverFails, LockIsHeld, TypeOK
<1>2. ASSUME NEW u \in Uploads, Guard(u) PROVE LockIsHeld'
  BY <1>2 DEF Guard, EnterGuard, GuardBusy, GetLock, LockBusy, GetLockRaises, LockIsHeld, TypeOK
<1>3. ASSUME NEW u \in Uploads, Finish(u) PROVE LockIsHeld'
  BY <1>3 DEF Finish, FinishReceipt, FinishFails, LeaveGuard, ReleaseReceipt, ReleaseFails, LockIsHeld, TypeOK
<1>4. ASSUME NEW r \in Requests, Acquire(r) \/ ImportEnds(r) \/ SyncUnlock(r)
      PROVE  LockIsHeld'
  BY <1>4 DEF Acquire, ImportEnds, SyncUnlock, LockIsHeld, TypeOK
<1>5. ASSUME NEW k \in Keys, WindowPasses(k) \/ RetentionPasses(k) PROVE LockIsHeld'
  BY <1>5 DEF WindowPasses, RetentionPasses, LockIsHeld
<1>6. ASSUME NEW p \in Processes, ProcessDies(p) PROVE LockIsHeld'
  BY <1>6 DEF ProcessDies, On, Ended, LockIsHeld, TypeOK
<1>7. CASE LockConnectionDies
  BY <1>7 DEF LockConnectionDies, LockIsHeld
<1>8. CASE UNCHANGED vars
  BY <1>8 DEF vars, LockIsHeld
<1> QED
  BY <1>1, <1>2, <1>3, <1>4, <1>5, <1>6, <1>7, <1>8 DEF Next

\* sync_lock is given up only by its holder or with the process.
LEMMA SyncLockKept ==
  ASSUME TypeOK, SyncLockIsHeld, [Next]_vars
  PROVE  SyncLockIsHeld'
<1> USE RequestsAssumption
<1> USE DEF Requests, Go, Tell, dbVars, processVars
<1>1. ASSUME NEW u \in Uploads, Begin(u) PROVE SyncLockIsHeld'
  BY <1>1 DEF Begin, StartUnkeyed, ReadReceipt, InsertReceipt, InsertConflicts,
              AnswerFromReceipt, TakeOver, MayTakeOver, TakeOverFails, SyncLockIsHeld, TypeOK
<1>2. ASSUME NEW u \in Uploads, Guard(u) PROVE SyncLockIsHeld'
  BY <1>2 DEF Guard, EnterGuard, GuardBusy, GetLock, LockBusy, GetLockRaises, SyncLockIsHeld, TypeOK
<1>3. ASSUME NEW u \in Uploads, Finish(u) PROVE SyncLockIsHeld'
  BY <1>3 DEF Finish, FinishReceipt, FinishFails, LeaveGuard, ReleaseReceipt, ReleaseFails, SyncLockIsHeld, TypeOK
<1>4. ASSUME NEW r \in Requests, Acquire(r) PROVE SyncLockIsHeld'
  BY <1>4 DEF Acquire, SyncLockIsHeld, TypeOK
<1>5. ASSUME NEW r \in Requests, ImportEnds(r) PROVE SyncLockIsHeld'
  BY <1>5 DEF ImportEnds, SyncLockIsHeld, TypeOK
<1>6. ASSUME NEW r \in Requests, SyncUnlock(r) PROVE SyncLockIsHeld'
  BY <1>6 DEF SyncUnlock, SyncLockIsHeld, TypeOK
<1>7. ASSUME NEW k \in Keys, WindowPasses(k) \/ RetentionPasses(k) PROVE SyncLockIsHeld'
  BY <1>7 DEF WindowPasses, RetentionPasses, SyncLockIsHeld
<1>8. ASSUME NEW p \in Processes, ProcessDies(p) PROVE SyncLockIsHeld'
  BY <1>8 DEF ProcessDies, On, Ended, SyncLockIsHeld, TypeOK
<1>9. CASE LockConnectionDies
  BY <1>9 DEF LockConnectionDies, SyncLockIsHeld
<1>10. CASE UNCHANGED vars
  BY <1>10 DEF vars, SyncLockIsHeld
<1> QED
  BY <1>1, <1>2, <1>3, <1>4, <1>5, <1>6, <1>7, <1>8, <1>9, <1>10 DEF Next

-----------------------------------------------------------------------------
(* Receipts.                                                               *)

\* A row once taken is written by its owner and by time, its attempts stay.
StatesOnly ==
  /\ taken' = taken
  /\ \/ receipt' = receipt
     \/ \E k \in Keys : \E s \in {receipt[k].state, "DONE", "FAILED"} :
          Rewrites(k, s, receipt[k].attempts)

\* finish() and release() write a state and nothing else.
LEMMA OwnerWrites ==
  ASSUME Shape, StagesAgree, NEW u \in Uploads, FinishReceipt(u) \/ ReleaseReceipt(u)
  PROVE  StatesOnly
<1>1. FinishReceipt(u) => Key[u] \in Keys
  BY DEF FinishReceipt, StagesAgree
<1>2. Key[u] # None => Key[u] \in Keys
  BY RequestsAssumption DEF RequestsAssumption
<1> QED
  BY <1>1, <1>2, RequestsAssumption, Finishes, Releases
     DEF StatesOnly, FinishReceipt, ReleaseReceipt

\* Time passing writes neither attempts nor a new state.
LEMMA TimeWrites ==
  ASSUME Shape, NEW k \in Keys, Ages(k) PROVE StatesOnly
  BY TimePasses DEF StatesOnly, Ages, WindowPasses, RetentionPasses

\* Ids are never used twice.
LEMMA IdsKept ==
  ASSUME TypeOK, Shape, StagesAgree, FreshIds, [Next]_vars
  PROVE  FreshIds'
<1> USE RequestsAssumption
<1> USE DEF dbVars
<1>1. \A k, l \in Keys :
        k # l /\ receipt'[k] # None /\ receipt'[l] # None => receipt'[k].id # receipt'[l].id
  <2>1. \A k, l \in Keys :
          k # l /\ receipt[k] # None /\ receipt[l] # None => receipt[k].id # receipt[l].id
    BY DEF FreshIds
  <2>2. CASE receipt' = receipt
    BY <2>1, <2>2
  <2>3. ASSUME NEW j \in Keys, NEW s, NEW n, Rewrites(j, s, n)
        PROVE  <1>1
    BY <2>1, <2>3 DEF Rewrites
  <2>4. ASSUME NEW j \in Keys, NEW sha, Inserts(j, nextId, sha)
        PROVE  <1>1
    <3>1. \A k \in Keys : receipt[k] # None => receipt[k].id # nextId
      BY DEF TypeOK
    <3> QED
      BY <2>1, <2>4, <3>1 DEF Inserts
  <2> QED
    BY <2>2, <2>3, <2>4, RowsStep
<1>2. nextId' \in Nat /\ nextId \in Nat /\ nextId <= nextId'
  BY RowsStep DEF TypeOK
<1>3. ASSUME NEW u \in Uploads, snap'[u] # None PROVE snap'[u].id \in 1 .. nextId' - 1
  <2>1. snap'[u].id \in 1 .. nextId - 1
    BY <1>3, SnapStep DEF FreshIds, TypeOK
  <2> QED
    BY <1>2, <2>1
<1>4. ASSUME NEW u \in Uploads, taken'[u] # NoReceipt PROVE taken'[u].id \in 1 .. nextId' - 1
  <2>1. CASE taken'[u] = taken[u]
    BY <1>2, <1>4, <2>1 DEF FreshIds
  <2>2. CASE \E v \in Uploads : InsertReceipt(v)
    BY <1>2, <1>4, <2>1, <2>2 DEF InsertReceipt, Shape, TypeOK
  <2>3. ASSUME NEW v \in Uploads, TakeOver(v), taken'[u] # taken[u] PROVE taken'[u].id \in 1 .. nextId' - 1
    <3>1. /\ receipt[Key[v]] # None /\ Key[v] \in Keys
          /\ taken' = [taken EXCEPT ![v] = [id |-> receipt[Key[v]].id,
                                            attempts |-> receipt[Key[v]].attempts + 1]]
      BY <2>3, TakesOver DEF TakeOver, MayTakeOver, StagesAgree
    <3>2. taken'[u].id = receipt[Key[v]].id
      BY <2>3, <3>1 DEF Shape
    <3> QED
      BY <1>2, <3>1, <3>2 DEF TypeOK
  <2>4. CASE \E v \in Uploads : FinishReceipt(v) \/ ReleaseReceipt(v)
    BY <2>1, <2>4 DEF FinishReceipt, ReleaseReceipt
  <2>5. CASE \E k \in Keys : Ages(k)
    BY <2>1, <2>5 DEF Ages, WindowPasses, RetentionPasses
  <2> QED
    BY <2>1, <2>2, <2>3, <2>4, <2>5, Quiet DEF Writes
<1> QED
  BY <1>1, <1>3, <1>4 DEF FreshIds

\* Attempts are counted, and taken once.
LEMMA AttemptsKept ==
  ASSUME TypeOK, Shape, StagesAgree, FreshIds, OneRunPerAttempt, AttemptsCount, [Next]_vars
  PROVE  OneRunPerAttempt' /\ AttemptsCount'
<1> USE RequestsAssumption
<1>1. \A u \in Uploads : \A k \in Keys :
        receipt[k] # None /\ taken[u].id = receipt[k].id => taken[u].attempts <= receipt[k].attempts
  BY DEF AttemptsCount
<1>2. \A u \in Uploads : taken[u].id \in 1 .. nextId - 1 \/ taken[u].id = None
  BY DEF FreshIds, NoReceipt
<1>3. /\ nextId \in Nat
      /\ \A k \in Keys : receipt[k] # None => receipt[k].id \in 1 .. nextId - 1 /\ receipt[k] \in Rows
  BY RowThere DEF TypeOK
<1>4. ASSUME NEW u \in Uploads, InsertReceipt(u) PROVE OneRunPerAttempt' /\ AttemptsCount'
  <2>1. Key[u] \in Keys /\ Inserts(Key[u], nextId, Sha[u])
    BY <1>4, InsertsRow DEF InsertReceipt, StagesAgree
  <2>2. /\ taken'[u].id = nextId /\ taken'[u].attempts = 1
        /\ \A v \in Uploads \ {u} : taken'[v] = taken[v]
    BY <1>4 DEF InsertReceipt, Shape
  <2>3. OneRunPerAttempt'
    BY <1>2, <1>3, <2>2 DEF OneRunPerAttempt
  <2>4. AttemptsCount'
    BY <1>1, <1>2, <1>3, <2>1, <2>2 DEF AttemptsCount, Inserts
  <2> QED
    BY <2>3, <2>4
<1>5. ASSUME NEW u \in Uploads, TakeOver(u) PROVE OneRunPerAttempt' /\ AttemptsCount'
  <2> DEFINE row == receipt[Key[u]]
  <2>1. /\ Key[u] \in Keys /\ row # None
        /\ Rewrites(Key[u], "PROCESSING", row.attempts + 1)
        /\ taken' = [taken EXCEPT ![u] = [id |-> row.id, attempts |-> row.attempts + 1]]
    BY <1>5, TakesOver DEF TakeOver, MayTakeOver, StagesAgree
  <2>2. /\ taken'[u].id = row.id /\ taken'[u].attempts = row.attempts + 1
        /\ \A v \in Uploads \ {u} : taken'[v] = taken[v]
    BY <2>1 DEF Shape
  <2>3. row.attempts \in Nat /\ \A v \in Uploads : taken[v].attempts \in Nat
    BY <1>3, <2>1 DEF Shape, Rows
  <2>4. ASSUME NEW v \in Uploads \ {u} PROVE taken'[v] # taken'[u]
    BY <1>1, <2>1, <2>2, <2>3
  <2>5. OneRunPerAttempt'
    BY <2>2, <2>4 DEF OneRunPerAttempt
  <2>6. AttemptsCount'
    <3> SUFFICES ASSUME NEW v \in Uploads, NEW k \in Keys,
                        receipt'[k] # None, taken'[v].id = receipt'[k].id
                 PROVE  taken'[v].attempts <= receipt'[k].attempts
      BY DEF AttemptsCount
    <3>1. CASE k = Key[u]
      BY <1>1, <2>1, <2>2, <2>3, <3>1 DEF Rewrites
    <3>2. CASE k # Key[u]
      <4>1. receipt'[k] = receipt[k]
        BY <2>1, <3>2 DEF Rewrites
      <4>2. v # u
        BY <2>1, <2>2, <3>2, <4>1 DEF FreshIds
      <4> QED
        BY <1>1, <2>2, <4>1, <4>2
    <3> QED
      BY <3>1, <3>2
  <2> QED
    BY <2>5, <2>6
<1>6. ASSUME StatesOnly
      PROVE  OneRunPerAttempt' /\ AttemptsCount'
  <2>1. OneRunPerAttempt'
    BY <1>6 DEF StatesOnly, OneRunPerAttempt
  <2>2. AttemptsCount'
    BY <1>1, <1>6 DEF StatesOnly, AttemptsCount, Rewrites
  <2> QED
    BY <2>1, <2>2
<1> QED
  BY <1>4, <1>5, <1>6, OwnerWrites, TimeWrites, Quiet DEF Writes, StatesOnly

\* A request that comes to the end of its work has no receipt, or it writes
\* the one it took, or has failed to.
LEMMA EndsAfterWriting ==
  ASSUME TypeOK, StagesAgree, [Next]_vars, NEW u \in Uploads, Key[u] \in Keys,
         pc'[u] \in {"unlock", "leave", "answered"}
  PROVE  \/ pc[u] \in {"unlock", "leave", "answered"}
         \/ taken[u] = NoReceipt /\ taken' = taken
         \/ FinishReceipt(u) \/ ReleaseReceipt(u)
         \/ u \in failing'
<1> USE RequestsAssumption DEF Requests, Go, Tell, dbVars, TypeOK
<1> DEFINE Goal == \/ pc[u] \in {"unlock", "leave", "answered"}
                   \/ taken[u] = NoReceipt /\ taken' = taken
                   \/ FinishReceipt(u) \/ ReleaseReceipt(u)
                   \/ u \in failing'
<1>1. ASSUME NEW v \in Uploads, Begin(v) PROVE Goal
  BY <1>1 DEF Begin, StartUnkeyed, ReadReceipt, InsertReceipt, InsertConflicts,
     AnswerFromReceipt, TakeOver, MayTakeOver, TakeOverFails, StagesAgree
<1>2. ASSUME NEW v \in Uploads, Guard(v) PROVE Goal
  BY <1>2 DEF Guard, EnterGuard, GuardBusy, GetLock, LockBusy, GetLockRaises
<1>3. ASSUME NEW v \in Uploads, Finish(v) PROVE Goal
  <2>1. CASE u = v
    BY <1>3, <2>1 DEF Finish, FinishFails, LeaveGuard, ReleaseFails
  <2>2. CASE u # v
    BY <1>3, <2>2 DEF Finish, FinishReceipt, FinishFails, LeaveGuard, ReleaseReceipt, ReleaseFails
  <2> QED
    BY <2>1, <2>2
<1>4. ASSUME NEW r \in Requests, Acquire(r) \/ ImportEnds(r) \/ SyncUnlock(r) PROVE Goal
  BY <1>4 DEF Acquire, ImportEnds, SyncUnlock
<1>5. ASSUME NEW k \in Keys, WindowPasses(k) \/ RetentionPasses(k) PROVE Goal
  BY <1>5 DEF WindowPasses, RetentionPasses
<1>6. ASSUME NEW p \in Processes, ProcessDies(p) PROVE Goal
  BY <1>6 DEF ProcessDies
<1>7. CASE LockConnectionDies \/ UNCHANGED vars
  BY <1>7 DEF LockConnectionDies, vars
<1> QED
  BY <1>1, <1>2, <1>3, <1>4, <1>5, <1>6, <1>7 DEF Next

\* Whose statement failed is remembered.
LEMMA FailingGrows == ASSUME [Next]_vars PROVE failing \subseteq failing'
<1>1. ASSUME NEW u \in Uploads, Begin(u) PROVE failing' = failing
  BY <1>1 DEF Begin, StartUnkeyed, ReadReceipt, InsertReceipt, InsertConflicts,
              AnswerFromReceipt, TakeOver, TakeOverFails
<1>2. ASSUME NEW u \in Uploads, Guard(u) \/ Finish(u) PROVE failing \subseteq failing'
  BY <1>2 DEF Guard, EnterGuard, GuardBusy, GetLock, LockBusy, GetLockRaises,
              Finish, FinishReceipt, FinishFails, LeaveGuard, ReleaseReceipt, ReleaseFails
<1>3. ASSUME NEW r \in Requests, Acquire(r) \/ ImportEnds(r) \/ SyncUnlock(r) PROVE failing' = failing
  BY <1>3 DEF Acquire, ImportEnds, SyncUnlock
<1>4. ASSUME NEW k \in Keys, WindowPasses(k) \/ RetentionPasses(k) PROVE failing' = failing
  BY <1>4 DEF WindowPasses, RetentionPasses
<1>5. ASSUME NEW p \in Processes, ProcessDies(p) PROVE failing' = failing
  BY <1>5 DEF ProcessDies
<1>6. LockConnectionDies \/ UNCHANGED vars => failing' = failing
  BY DEF LockConnectionDies, vars
<1> QED
  BY <1>1, <1>2, <1>3, <1>4, <1>5, <1>6 DEF Next

\* A request that is done has let its attempt go.
LEMMA LetsGoKept ==
  ASSUME TypeOK, Shape, StagesAgree, FreshIds, AttemptsCount, EndedLetsGo, [Next]_vars
  PROVE  EndedLetsGo'
<1> SUFFICES ASSUME NEW u \in Uploads, NEW k \in Keys, Key[u] = k,
                    pc'[u] \in {"unlock", "leave", "answered"}, u \notin failing',
                    receipt'[k] # None, receipt'[k].state = "PROCESSING",
                    taken'[u].id = receipt'[k].id,
                    taken'[u].attempts = receipt'[k].attempts
             PROVE  FALSE
  BY DEF EndedLetsGo
<1>1. \A l \in Keys : receipt[l] # None => receipt[l].id \in 1 .. nextId - 1 /\ receipt[l] \in Rows
  BY RowThere DEF TypeOK
<1>2. nextId \in Nat /\ None \notin Nat
  BY RequestsAssumption DEF TypeOK, RequestsAssumption
<1>3. taken[u].id \in 1 .. nextId - 1 \/ taken[u].id = None
  BY DEF FreshIds, NoReceipt
<1>4. receipt[k] # None /\ pc[u] \in {"unlock", "leave", "answered"}
        => receipt[k].state # "PROCESSING" \/ taken[u].id # receipt[k].id
             \/ taken[u].attempts # receipt[k].attempts
  BY FailingGrows DEF EndedLetsGo, Shape
<1>5. \/ pc[u] \in {"unlock", "leave", "answered"}
      \/ taken[u].id = None /\ taken' = taken
      \/ FinishReceipt(u) \/ ReleaseReceipt(u)
  BY EndsAfterWriting DEF NoReceipt
<1>6. CASE FinishReceipt(u)
  <2>1. taken' = taken
    BY <1>6 DEF FinishReceipt
  <2>2. CASE Owns(u, k)
    BY <1>6, <2>2, Finishes DEF Rewrites
  <2>3. CASE ~Owns(u, k)
    BY <1>6, <2>1, <2>3, Finishes DEF Owns
  <2> QED
    BY <2>2, <2>3
<1>7. CASE ReleaseReceipt(u)
  <2>1. Key[u] # None
    BY RequestsAssumption DEF RequestsAssumption
  <2> QED
    BY <1>7, <2>1, RequestsAssumption, Releases DEF ReleaseReceipt, Owns, Rewrites
<1>8. ASSUME NEW v \in Uploads, InsertReceipt(v), ~FinishReceipt(u), ~ReleaseReceipt(u) PROVE FALSE
  <2>1. Key[v] \in Keys /\ Inserts(Key[v], nextId, Sha[v])
    BY <1>8, InsertsRow DEF InsertReceipt, StagesAgree
  <2>2. pc'[u] = "guard" \/ v # u
    BY <1>8 DEF InsertReceipt, Go, TypeOK, Requests
  <2>3. taken'[u] = taken[u]
    BY <1>8, <2>2 DEF InsertReceipt, Shape
  <2>4. CASE k = Key[v]
    BY <1>2, <1>3, <2>1, <2>3, <2>4 DEF Inserts
  <2>5. CASE k # Key[v]
    BY <1>1, <1>2, <1>4, <1>5, <1>8, <2>1, <2>3, <2>5 DEF Inserts
  <2> QED
    BY <2>4, <2>5
<1>9. ASSUME NEW v \in Uploads, TakeOver(v), ~FinishReceipt(u), ~ReleaseReceipt(u) PROVE FALSE
  <2> DEFINE row == receipt[Key[v]]
  <2>1. /\ Key[v] \in Keys /\ row # None
        /\ Rewrites(Key[v], "PROCESSING", row.attempts + 1)
    BY <1>9, TakesOver DEF TakeOver, MayTakeOver, StagesAgree
  <2>2. pc'[u] = "guard" \/ v # u
    BY <1>9 DEF TakeOver, Go, TypeOK, Requests
  <2>3. taken'[u] = taken[u]
    BY <1>9, <2>2 DEF TakeOver, Shape
  <2>4. CASE k = Key[v]
    <3>1. row.attempts \in Nat /\ taken[u].attempts \in Nat
      BY <1>1, <2>1 DEF Rows, Shape
    <3>2. taken[u].attempts <= row.attempts
      BY <2>1, <2>3, <2>4 DEF AttemptsCount, Rewrites
    <3> QED
      BY <2>1, <2>3, <2>4, <3>1, <3>2 DEF Rewrites
  <2>5. CASE k # Key[v]
    BY <1>1, <1>2, <1>4, <1>5, <1>9, <2>1, <2>3, <2>5 DEF Rewrites
  <2> QED
    BY <2>4, <2>5
<1>10. ASSUME StatesOnly, ~FinishReceipt(u), ~ReleaseReceipt(u) PROVE FALSE
  BY <1>1, <1>2, <1>4, <1>5, <1>10 DEF StatesOnly, Rewrites
<1> QED
  BY <1>6, <1>7, <1>8, <1>9, <1>10, OwnerWrites, TimeWrites, Quiet DEF Writes, StatesOnly

\* A receipt that is PROCESSING has an owner at work.
LEMMA OwnerKept ==
  ASSUME TypeOK, Shape, StagesAgree, ProcessingHasOwner, EndedLetsGo', [Next]_vars
  PROVE  ProcessingHasOwner'
<1> SUFFICES ASSUME NEW k \in Keys, receipt'[k] # None, receipt'[k].state = "PROCESSING"
             PROVE  \E u \in Uploads :
                      /\ Key[u] = k
                      /\ taken'[u] = [id |-> receipt'[k].id, attempts |-> receipt'[k].attempts]
                      /\ pc'[u] # "answered" \/ u \in failing'
  BY DEF ProcessingHasOwner
<1>1. ASSUME NEW u \in Uploads, Key[u] = k,
             taken'[u] = [id |-> receipt'[k].id, attempts |-> receipt'[k].attempts]
      PROVE  pc'[u] # "answered" \/ u \in failing'
  BY <1>1 DEF EndedLetsGo
<1> SUFFICES \E u \in Uploads :
               /\ Key[u] = k
               /\ taken'[u] = [id |-> receipt'[k].id, attempts |-> receipt'[k].attempts]
  BY <1>1
<1>2. ASSUME receipt[k] # None, receipt[k].state = "PROCESSING"
      PROVE  \E u \in Uploads :
               /\ Key[u] = k
               /\ taken[u] = [id |-> receipt[k].id, attempts |-> receipt[k].attempts]
  BY <1>2 DEF ProcessingHasOwner
<1>3. ASSUME NEW v \in Uploads, InsertReceipt(v)
      PROVE  \E u \in Uploads :
               /\ Key[u] = k
               /\ taken'[u] = [id |-> receipt'[k].id, attempts |-> receipt'[k].attempts]
  <2>1. Key[v] \in Keys /\ Inserts(Key[v], nextId, Sha[v])
    BY <1>3, InsertsRow DEF InsertReceipt, StagesAgree
  <2>2. taken' = [taken EXCEPT ![v] = [id |-> nextId, attempts |-> 1]]
    BY <1>3 DEF InsertReceipt
  <2>3. CASE k = Key[v]
    BY <2>1, <2>2, <2>3 DEF Inserts, Shape
  <2>4. CASE k # Key[v]
    BY <1>2, <2>1, <2>2, <2>4 DEF Inserts, Shape
  <2> QED
    BY <2>3, <2>4
<1>4. ASSUME NEW v \in Uploads, TakeOver(v)
      PROVE  \E u \in Uploads :
               /\ Key[u] = k
               /\ taken'[u] = [id |-> receipt'[k].id, attempts |-> receipt'[k].attempts]
  <2>1. /\ Key[v] \in Keys
        /\ Rewrites(Key[v], "PROCESSING", receipt[Key[v]].attempts + 1)
        /\ taken' = [taken EXCEPT ![v] = [id |-> receipt[Key[v]].id,
                                          attempts |-> receipt[Key[v]].attempts + 1]]
    BY <1>4, TakesOver DEF TakeOver, MayTakeOver, StagesAgree
  <2>3. CASE k = Key[v]
    BY <2>1, <2>3 DEF Rewrites, Shape
  <2>4. CASE k # Key[v]
    BY <1>2, <2>1, <2>4 DEF Rewrites, Shape
  <2> QED
    BY <2>3, <2>4
<1>5. ASSUME StatesOnly
      PROVE  \E u \in Uploads :
               /\ Key[u] = k
               /\ taken'[u] = [id |-> receipt'[k].id, attempts |-> receipt'[k].attempts]
  BY <1>2, <1>5 DEF StatesOnly, Rewrites
<1> QED
  BY <1>3, <1>4, <1>5, OwnerWrites, TimeWrites, Quiet DEF Writes, StatesOnly

-----------------------------------------------------------------------------
(* What a receipt stands for.                                              *)

\* A receipt is taken for its own payload only.
LEMMA SamePayloadKept ==
  ASSUME TypeOK, Shape, StagesAgree, FreshIds, SamePayload, [Next]_vars
  PROVE  SamePayload'
<1> USE RequestsAssumption
<1>1. \A l \in Keys : receipt[l] # None => receipt[l].id \in 1 .. nextId - 1
  BY DEF TypeOK
<1>2. nextId \in Nat /\ None \notin Nat
  BY RequestsAssumption DEF TypeOK, RequestsAssumption
<1>3. \A u \in Uploads : taken[u].id \in 1 .. nextId - 1 \/ taken[u].id = None
  BY DEF FreshIds, NoReceipt
<1>4. ASSUME NEW u \in Uploads, NEW k \in Keys, Key[u] = k, receipt'[k] # None,
             snap'[u] # None, snap'[u].id = receipt'[k].id
      PROVE  receipt'[k].sha = snap'[u].sha
  <2>1. CASE snap'[u] = snap[u]
    <3>1. snap[u].id \in 1 .. nextId - 1
      BY <1>4, <2>1 DEF FreshIds
    <3>2. receipt[k] # None /\ snap[u].id = receipt[k].id => receipt[k].sha = snap[u].sha
      BY <1>4, <2>1 DEF SamePayload
    <3>3. CASE receipt' = receipt
      BY <1>4, <2>1, <3>2, <3>3
    <3>4. ASSUME NEW j \in Keys, NEW s, NEW n, Rewrites(j, s, n)
          PROVE  receipt'[k].sha = snap'[u].sha
      BY <1>4, <2>1, <3>2, <3>4 DEF Rewrites
    <3>5. ASSUME NEW j \in Keys, NEW sha, Inserts(j, nextId, sha)
          PROVE  receipt'[k].sha = snap'[u].sha
      BY <1>2, <1>4, <2>1, <3>1, <3>2, <3>5 DEF Inserts
    <3> QED
      BY <3>3, <3>4, <3>5, RowsStep
  <2>2. CASE snap'[u] = receipt[Key[u]] /\ receipt' = receipt
    BY <1>4, <2>2
  <2> QED
    BY <1>4, <2>1, <2>2, SnapStep
<1>5. ASSUME NEW u \in Uploads, NEW k \in Keys, Key[u] = k, receipt'[k] # None,
             taken'[u].id = receipt'[k].id
      PROVE  receipt'[k].sha = Sha[u]
  <2>1. receipt[k] # None /\ taken[u].id = receipt[k].id => receipt[k].sha = Sha[u]
    BY <1>5 DEF SamePayload
  <2>2. ASSUME NEW v \in Uploads, InsertReceipt(v) PROVE receipt'[k].sha = Sha[u]
    <3>1. /\ Key[v] \in Keys /\ Inserts(Key[v], nextId, Sha[v])
          /\ taken' = [taken EXCEPT ![v] = [id |-> nextId, attempts |-> 1]]
      BY <2>2, InsertsRow DEF InsertReceipt, StagesAgree
    <3>2. CASE u = v
      BY <1>5, <3>1, <3>2 DEF Inserts
    <3>3. CASE u # v
      BY <1>2, <1>3, <1>5, <2>1, <3>1, <3>3 DEF Inserts, Shape
    <3> QED
      BY <3>2, <3>3
  <2>3. ASSUME NEW v \in Uploads, TakeOver(v) PROVE receipt'[k].sha = Sha[u]
    <3>1. /\ Key[v] \in Keys /\ receipt[Key[v]] # None
          /\ Rewrites(Key[v], "PROCESSING", receipt[Key[v]].attempts + 1)
          /\ snap[v] # None /\ snap[v].id = receipt[Key[v]].id /\ snap[v].sha = Sha[v]
          /\ taken' = [taken EXCEPT ![v] = [id |-> receipt[Key[v]].id,
                                            attempts |-> receipt[Key[v]].attempts + 1]]
      BY <2>3, TakesOver DEF TakeOver, MayTakeOver, StagesAgree
    <3>2. receipt[Key[v]].sha = Sha[v]
      BY <3>1 DEF SamePayload
    <3>3. CASE u = v
      BY <1>5, <3>1, <3>2, <3>3 DEF Rewrites
    <3>4. CASE u # v
      BY <1>5, <2>1, <3>1, <3>4 DEF Rewrites, Shape
    <3> QED
      BY <3>3, <3>4
  <2>4. ASSUME StatesOnly PROVE receipt'[k].sha = Sha[u]
    BY <1>5, <2>1, <2>4 DEF StatesOnly, Rewrites
  <2> QED
    BY <2>2, <2>3, <2>4, OwnerWrites, TimeWrites, Quiet DEF Writes, StatesOnly
<1> QED
  BY <1>4, <1>5 DEF SamePayload

\* What was imported stays imported; who succeeded was imported.
LEMMA ImportsStep ==
  ASSUME TypeOK, Shape, DoneIsImported, [Next]_vars
  PROVE  /\ imported \subseteq imported'
         /\ \A u \in Uploads : result'[u] = "success" => <<Key[u], Sha[u]>> \in imported'
<1> DEFINE Goal == /\ imported \subseteq imported'
                   /\ \A u \in Uploads : result'[u] = "success" => <<Key[u], Sha[u]>> \in imported'
<1>1. \A u \in Uploads : result[u] = "success" => <<Key[u], Sha[u]>> \in imported
  BY DEF DoneIsImported
<1>2. ASSUME NEW u \in Uploads, Begin(u) PROVE imported' = imported /\ result' = result
  BY <1>2 DEF Begin, StartUnkeyed, ReadReceipt, InsertReceipt, InsertConflicts,
              AnswerFromReceipt, TakeOver, TakeOverFails
<1>3. ASSUME NEW u \in Uploads, Guard(u) PROVE imported' = imported /\ result' = result
  BY <1>3 DEF Guard, EnterGuard, GuardBusy, GetLock, LockBusy, GetLockRaises
<1>4. ASSUME NEW u \in Uploads, Finish(u) PROVE imported' = imported /\ result' = result
  BY <1>4 DEF Finish, FinishReceipt, FinishFails, LeaveGuard, ReleaseReceipt, ReleaseFails
<1>5. ASSUME NEW r \in Requests, Acquire(r) \/ SyncUnlock(r) PROVE imported' = imported /\ result' = result
  BY <1>5 DEF Acquire, SyncUnlock
<1>6. ASSUME NEW r \in Requests, ImportEnds(r) PROVE Goal
  BY <1>1, <1>6 DEF ImportEnds, Shape, Requests
<1>7. ASSUME NEW k \in Keys, WindowPasses(k) \/ RetentionPasses(k)
      PROVE  imported' = imported /\ result' = result
  BY <1>7 DEF WindowPasses, RetentionPasses
<1>8. ASSUME NEW p \in Processes, ProcessDies(p) PROVE imported' = imported /\ result' = result
  BY <1>8 DEF ProcessDies
<1>9. LockConnectionDies \/ UNCHANGED vars => imported' = imported /\ result' = result
  BY DEF LockConnectionDies, vars
<1> QED
  BY <1>1, <1>2, <1>3, <1>4, <1>5, <1>6, <1>7, <1>8, <1>9 DEF Next

\* A receipt becomes DONE only for an import that succeeded.
LEMMA DoneKept ==
  ASSUME TypeOK, Shape, StagesAgree, SamePayload, DoneIsImported, [Next]_vars
  PROVE  DoneIsImported'
<1> USE RequestsAssumption
<1>1. \A k \in Keys : receipt[k] # None /\ receipt[k].state = "DONE" => <<k, receipt[k].sha>> \in imported
  BY DEF DoneIsImported
<1>2. /\ imported \subseteq imported'
      /\ \A u \in Uploads : result'[u] = "success" => <<Key[u], Sha[u]>> \in imported'
  BY ImportsStep
<1>3. ASSUME NEW u \in Uploads, snap'[u] # None, snap'[u].state = "DONE"
      PROVE  <<Key[u], snap'[u].sha>> \in imported'
  BY <1>1, <1>2, <1>3, SnapStep DEF DoneIsImported
<1>4. ASSUME NEW k \in Keys, receipt'[k] # None, receipt'[k].state = "DONE"
      PROVE  <<k, receipt'[k].sha>> \in imported'
  <2>1. ASSUME NEW u \in Uploads, InsertReceipt(u) PROVE <<k, receipt'[k].sha>> \in imported'
    <3>1. Key[u] \in Keys /\ Inserts(Key[u], nextId, Sha[u])
      BY <2>1, InsertsRow DEF InsertReceipt, StagesAgree
    <3> QED
      BY <1>1, <1>2, <1>4, <3>1 DEF Inserts
  <2>2. ASSUME NEW u \in Uploads, TakeOver(u) PROVE <<k, receipt'[k].sha>> \in imported'
    <3>1. Key[u] \in Keys /\ Rewrites(Key[u], "PROCESSING", receipt[Key[u]].attempts + 1)
      BY <2>2, TakesOver DEF TakeOver, MayTakeOver, StagesAgree
    <3> QED
      BY <1>1, <1>2, <1>4, <3>1 DEF Rewrites
  <2>3. ASSUME NEW u \in Uploads, FinishReceipt(u) PROVE <<k, receipt'[k].sha>> \in imported'
    <3>1. Key[u] \in Keys
      BY <2>3 DEF FinishReceipt, StagesAgree
    <3>2. CASE k = Key[u] /\ Owns(u, k)
      <4>1. Rewrites(k, IF Succeeded(u) THEN "DONE" ELSE "FAILED", receipt[k].attempts)
        BY <2>3, <3>1, <3>2, Finishes
      <4>2. receipt'[k].sha = Sha[u]
        BY <3>2, <4>1 DEF Owns, SamePayload, Rewrites
      <4>3. result[u] = "success"
        BY <1>4, <4>1 DEF Rewrites, Succeeded
      <4>4. <<Key[u], Sha[u]>> \in imported
        BY <4>3 DEF DoneIsImported
      <4> QED
        BY <1>2, <3>2, <4>2, <4>4
    <3>3. CASE ~(k = Key[u] /\ Owns(u, k))
      BY <1>1, <1>2, <1>4, <2>3, <3>1, <3>3, Finishes DEF Rewrites
    <3> QED
      BY <3>2, <3>3
  <2>4. ASSUME NEW u \in Uploads, ReleaseReceipt(u) PROVE <<k, receipt'[k].sha>> \in imported'
    BY <1>1, <1>2, <1>4, <2>4, Releases DEF Rewrites
  <2>5. ASSUME NEW j \in Keys, Ages(j) PROVE <<k, receipt'[k].sha>> \in imported'
    BY <1>1, <1>2, <1>4, <2>5, TimePasses DEF Rewrites, Ages
  <2>6. CASE receipt' = receipt
    BY <1>1, <1>2, <1>4, <2>6
  <2> QED
    BY <2>1, <2>2, <2>3, <2>4, <2>5, <2>6, Quiet DEF Writes
<1> QED
  BY <1>2, <1>3, <1>4 DEF DoneIsImported

\* A replayed answer stands for an import that succeeded.
LEMMA ReplayKept ==
  ASSUME TypeOK, Shape, DoneIsImported, ReplayMeansImported, [Next]_vars
  PROVE  ReplayMeansImported'
<1> USE DEF Requests, Go, Tell, dbVars, processVars
<1> DEFINE Kept == \A u \in Uploads : answer'[u] = "replay" => answer[u] = "replay"
<1>1. imported \subseteq imported'
  BY ImportsStep
<1>2. Kept => ReplayMeansImported'
  BY <1>1 DEF ReplayMeansImported
<1>3. ASSUME NEW u \in Uploads, AnswerFromReceipt(u) PROVE ReplayMeansImported'
  <2>1. answer'[u] = "replay" => snap[u] # None /\ snap[u].state = "DONE" /\ snap[u].sha = Sha[u]
    BY <1>3 DEF AnswerFromReceipt, Replayable, Mismatched, TypeOK
  <2>2. answer'[u] = "replay" => <<Key[u], Sha[u]>> \in imported
    BY <2>1 DEF DoneIsImported
  <2>3. \A v \in Uploads \ {u} : answer'[v] = answer[v]
    BY <1>3 DEF AnswerFromReceipt, TypeOK
  <2> QED
    BY <1>1, <2>2, <2>3 DEF ReplayMeansImported
<1>4. ASSUME NEW u \in Uploads, Begin(u), ~AnswerFromReceipt(u) PROVE Kept
  BY <1>4 DEF Begin, StartUnkeyed, ReadReceipt, InsertReceipt, InsertConflicts,
              TakeOver, TakeOverFails, TypeOK
<1>5. ASSUME NEW u \in Uploads, Guard(u) PROVE Kept
  BY <1>5, RequestsAssumption DEF Guard, EnterGuard, GuardBusy, GetLock, LockBusy, GetLockRaises, TypeOK
<1>6. ASSUME NEW u \in Uploads, Finish(u) PROVE Kept
  BY <1>6 DEF Finish, FinishReceipt, FinishFails, LeaveGuard, ReleaseReceipt, ReleaseFails, TypeOK
<1>7. ASSUME NEW r \in Requests, Acquire(r) \/ ImportEnds(r) \/ SyncUnlock(r) PROVE Kept
  BY <1>7 DEF Acquire, ImportEnds, SyncUnlock
<1>8. ASSUME NEW k \in Keys, WindowPasses(k) \/ RetentionPasses(k) PROVE Kept
  BY <1>8 DEF WindowPasses, RetentionPasses
<1>9. ASSUME NEW p \in Processes, ProcessDies(p) PROVE Kept
  BY <1>9 DEF ProcessDies
<1>10. LockConnectionDies \/ UNCHANGED vars => Kept
  BY DEF LockConnectionDies, vars
<1> QED
  BY <1>2, <1>3, <1>4, <1>5, <1>6, <1>7, <1>8, <1>9, <1>10 DEF Next
-----------------------------------------------------------------------------
(* The invariant.                                                          *)

\* With nothing but receipts of earlier, failed tries the invariant holds.
LEMMA InitEstablishes == ASSUME Init PROVE IInv
<1> USE RequestsAssumption DEF Requests
<1>1. Cardinality(Keys) \in Nat /\ nextId \in Nat \ {0}
  BY FS_CardinalityType DEF Init
<1>2. ASSUME NEW k \in Keys, receipt[k] # None
      PROVE  /\ receipt[k] \in Rows
             /\ receipt[k].id \in 1 .. nextId - 1
             /\ receipt[k].state = "FAILED"
  <2>1. PICK id \in 1 .. nextId - 1, u \in Uploads : receipt[k] = Leftover(id, Sha[u])
    BY <1>2 DEF Init
  <2> DEFINE row == Row(id, Sha[u])
  <2>2. row \in Rows /\ row.id = id
    BY <1>1 DEF Row, Rows
  <2>3. receipt[k] = [row EXCEPT !.state = "FAILED"]
    BY <2>1 DEF Leftover
  <2> HIDE DEF row
  <2> QED
    BY <2>2, <2>3 DEF Rows
<1>3. TypeOK
  BY <1>1, <1>2 DEF Init, TypeOK, Rows, Stages, Answers
<1>4. Shape
  <2>1. receipt \in [Keys -> Rows \cup {None}]
    BY <1>2 DEF Init
  <2> QED
    BY <2>1 DEF Init, Shape, NoReceipt
<1>5. StagesAgree
  BY DEF Init, StagesAgree
<1>6. LockInv
  BY DEF Init, LockInv, LockIsHeld, SyncLockIsHeld
<1>7. ReceiptInv
  <2>1. \A u \in Uploads : taken[u] = NoReceipt /\ taken[u].id = None /\ snap[u] = None
                           /\ pc[u] = "new"
    BY DEF Init, NoReceipt
  <2>2. None \notin Nat
    BY DEF RequestsAssumption
  <2>3. FreshIds
    BY <2>1 DEF Init, FreshIds
  <2>4. OneRunPerAttempt /\ AttemptsCount
    BY <1>1, <1>2, <2>1, <2>2 DEF OneRunPerAttempt, AttemptsCount
  <2>5. ProcessingHasOwner /\ EndedLetsGo
    BY <1>2, <2>1 DEF ProcessingHasOwner, EndedLetsGo
  <2> QED
    BY <2>3, <2>4, <2>5 DEF ReceiptInv
<1>8. ImportInv
  <2>1. None \notin Nat
    BY DEF RequestsAssumption
  <2>2. \A u \in Uploads : taken[u].id = None /\ snap[u] = None /\ result[u] = None
                           /\ answer[u] = None
    BY DEF Init, NoReceipt
  <2>3. SamePayload
    BY <1>1, <1>2, <2>1, <2>2 DEF SamePayload
  <2>4. DoneIsImported /\ ReplayMeansImported
    BY <1>2, <2>2, RequestsAssumption DEF DoneIsImported, ReplayMeansImported, RequestsAssumption
  <2> QED
    BY <2>3, <2>4 DEF ImportInv
<1> QED
  BY <1>3, <1>4, <1>5, <1>6, <1>7, <1>8 DEF IInv

\* Every step keeps the invariant: the lemmas above, together.
LEMMA StepKeeps == ASSUME IInv, [Next]_vars PROVE IInv'
<1> USE DEF IInv, LockInv, ReceiptInv, ImportInv
<1>1. TypeOK' /\ Shape' /\ StagesAgree'
  BY TypesKept, StagesKept
<1>2. LockInv'
  BY LockKept, SyncLockKept
<1>3. ReceiptInv'
  BY IdsKept, AttemptsKept, LetsGoKept, OwnerKept
<1>4. ImportInv'
  BY SamePayloadKept, DoneKept, ReplayKept
<1> QED
  BY <1>1, <1>2, <1>3, <1>4

\* The inductive invariant of the upload endpoint, for any requests, keys and processes.
THEOREM Invariance == Spec => []IInv
<1>1. Init => IInv
  BY InitEstablishes
<1>2. IInv /\ [Next]_vars => IInv'
  BY StepKeeps
<1> QED
  BY <1>1, <1>2, PTL DEF Spec

\* Every variable keeps its type, receipts their ids and counted attempts.
THEOREM TypeCorrect == Spec => []TypeOK
<1>1. IInv => TypeOK
  BY DEF IInv
<1> QED
  BY <1>1, Invariance, PTL

\* company_sync_guard and sync_lock together: two imports of a company overlap
\* past a lost lock connection, or when one is the Sync page's, on another
\* process.
THEOREM OneImport == Spec => []OneImportPerCompany
<1>1. ASSUME IInv, NEW r \in Requests, NEW s \in Requests,
             InsideImport(r), InsideImport(s), r # s
      PROVE  \/ r \in cutOff \/ s \in cutOff
             \/ {r, s} \cap ManualImports # {} /\ Proc[r] # Proc[s]
  <2>1. CASE r \in Uploads /\ s \in Uploads
    BY <1>1, <2>1 DEF IInv, LockInv, LockIsHeld, InsideImport
  <2>2. CASE r \in ManualImports \/ s \in ManualImports
    <3>1. Proc[r] # Proc[s]
      BY <1>1 DEF IInv, LockInv, SyncLockIsHeld, InsideImport
    <3> QED
      BY <2>2, <3>1
  <2> QED
    BY <2>1, <2>2 DEF Requests
<1>2. IInv => OneImportPerCompany
  BY <1>1 DEF OneImportPerCompany
<1> QED
  BY <1>2, Invariance, PTL

\* sync_lock: one import at a time in a backend process.
THEOREM ProcessImportsOnce == Spec => []OneImportPerProcess
<1>1. IInv => OneImportPerProcess
  BY DEF IInv, LockInv, SyncLockIsHeld, OneImportPerProcess, InsideImport
<1> QED
  BY <1>1, Invariance, PTL

\* The conditional UPDATE of begin(): however many tries race for a receipt,
\* one of them runs for each attempt.
THEOREM AttemptsRunOnce == Spec => []OneRunPerAttempt
<1>1. IInv => OneRunPerAttempt
  BY DEF IInv, ReceiptInv
<1> QED
  BY <1>1, Invariance, PTL

\* finish() and release(): a receipt is left PROCESSING only by a request
\* still at work, dead with its process, or failed by the database.
THEOREM NothingLeftProcessing == Spec => []ProcessingHasOwner
<1>1. IInv => ProcessingHasOwner
  BY DEF IInv, ReceiptInv
<1> QED
  BY <1>1, Invariance, PTL

\* A replayed answer stands for an import of the same payload under the same
\* key that succeeded.
THEOREM ReplaysAreImports == Spec => []ReplayMeansImported
<1>1. IInv => ReplayMeansImported
  BY DEF IInv, ImportInv
<1> QED
  BY <1>1, Invariance, PTL
-----------------------------------------------------------------------------
(* The promise.                                                            *)

\* Before its import an upload is asked for, during it it is running.
LEMMA PhaseAtStage ==
  ASSUME StagesAgree, NEW u \in Uploads
  PROVE  /\ pc[u] \in {"new", "again", "decide", "guard", "lock", "wait", "release"}
              => phase[u] = "asked"
         /\ phase[u] = "running" <=> pc[u] = "import"
  BY RequestsAssumption DEF RequestsAssumption, StagesAgree, phase

\* One upload moves in the promise when only it moves here.
LEMMA PhaseMoves ==
  ASSUME NEW u \in Uploads, NEW to, phase'[u] = to,
         \A v \in Uploads \ {u} :
           pc'[v] = pc[v] /\ result'[v] = result[v] /\ answer'[v] = answer[v]
  PROVE  phase' = [phase EXCEPT ![u] = to]
<1>1. \A v \in Uploads \ {u} : phase'[v] = phase[v]
  BY DEF phase
<1>2. phase = [v \in Uploads |-> phase[v]] /\ phase' = [v \in Uploads |-> phase'[v]]
  BY DEF phase
<1> QED
  BY <1>1, <1>2

\* Nothing moves in the promise while no upload starts, ends or dies.
LEMMA PhaseStays ==
  ASSUME \A v \in Uploads :
           /\ result'[v] = result[v] /\ answer'[v] = answer[v]
           /\ \/ pc'[v] = pc[v]
              \/ result[v] # None /\ pc[v] # "import" /\ pc'[v] # "import"
              \/ pc[v] \notin {"import", "dead"} /\ pc'[v] \notin {"import", "dead"}
  PROVE  phase' = phase
  BY DEF phase

\* Every step is a step of the service or changes nothing it speaks of.
LEMMA PromiseStep ==
  ASSUME IInv, [Next]_vars
  PROVE  [Promise!ServiceNext]_Promise!serviceVars
<1> USE RequestsAssumption
<1> USE DEF Requests, Go, Tell, dbVars, processVars
<1> DEFINE Stutters == UNCHANGED <<phase, imported, cutOff>>
<1>1. TypeOK /\ Shape /\ StagesAgree /\ LockIsHeld /\ DoneIsImported
  BY DEF IInv, LockInv, ImportInv
<1>2. Stutters => UNCHANGED Promise!serviceVars
  BY DEF Promise!serviceVars
<1>3. ASSUME NEW u \in Uploads, Begin(u) PROVE Promise!ServiceNext \/ Stutters
  <2>1. CASE StartUnkeyed(u)
    BY <1>1, <2>1, PhaseStays DEF StartUnkeyed, TypeOK
  <2>2. CASE ReadReceipt(u)
    BY <1>1, <2>2, PhaseStays DEF ReadReceipt, TypeOK
  <2>3. CASE InsertReceipt(u)
    BY <1>1, <2>3, PhaseStays DEF InsertReceipt, TypeOK
  <2>4. CASE InsertConflicts(u)
    BY <1>1, <2>4, PhaseStays DEF InsertConflicts, TypeOK
  <2>5. CASE TakeOver(u)
    BY <1>1, <2>5, PhaseStays DEF TakeOver, MayTakeOver, TypeOK
  <2>6. CASE AnswerFromReceipt(u)
    <3>1. phase[u] = "asked" /\ Key[u] # None
      BY <1>1, <2>6, PhaseAtStage DEF AnswerFromReceipt, StagesAgree, RequestsAssumption
    <3>2. result[u] = None /\ pc'[u] = "answered" /\ result' = result /\ imported' = imported
          /\ cutOff' = cutOff
      BY <1>1, <2>6 DEF AnswerFromReceipt, StagesAgree, TypeOK
    <3>3. \A v \in Uploads \ {u} :
            pc'[v] = pc[v] /\ result'[v] = result[v] /\ answer'[v] = answer[v]
      BY <1>1, <2>6 DEF AnswerFromReceipt, TypeOK
    <3>4. CASE answer'[u] = "replay"
      <4>1. snap[u] # None /\ snap[u].state = "DONE" /\ snap[u].sha = Sha[u]
        BY <1>1, <2>6, <3>4 DEF AnswerFromReceipt, Replayable, Mismatched, TypeOK
      <4>2. <<Key[u], Sha[u]>> \in imported
        BY <1>1, <4>1 DEF DoneIsImported
      <4>3. phase'[u] = "replayed"
        BY <3>2, <3>4 DEF phase
      <4>4. phase' = [phase EXCEPT ![u] = "replayed"]
        BY <3>3, <4>3, PhaseMoves
      <4> QED
        BY <3>1, <3>2, <4>2, <4>4 DEF Promise!ServiceNext, Promise!Replay, Promise!Move
    <3>5. CASE answer'[u] # "replay"
      <4>1. answer'[u] \in {"mismatch", "busy"}
        BY <1>1, <2>6, <3>5 DEF AnswerFromReceipt, TypeOK
      <4>2. phase'[u] = "refused"
        BY <3>2, <4>1 DEF phase
      <4>3. phase' = [phase EXCEPT ![u] = "refused"]
        BY <3>3, <4>2, PhaseMoves
      <4> QED
        BY <3>1, <3>2, <4>3 DEF Promise!ServiceNext, Promise!Refuse, Promise!Move
    <3> QED
      BY <3>4, <3>5
  <2>7. CASE TakeOverFails(u)
    <3>1. phase[u] = "asked"
      BY <1>1, <2>7, PhaseAtStage DEF TakeOverFails, MayTakeOver
    <3>2. /\ phase'[u] = "refused" /\ imported' = imported /\ cutOff' = cutOff
          /\ \A v \in Uploads \ {u} :
               pc'[v] = pc[v] /\ result'[v] = result[v] /\ answer'[v] = answer[v]
      BY <1>1, <2>7 DEF TakeOverFails, MayTakeOver, StagesAgree, TypeOK, phase
    <3>3. phase' = [phase EXCEPT ![u] = "refused"]
      BY <3>2, PhaseMoves
    <3> QED
      BY <3>1, <3>2, <3>3 DEF Promise!ServiceNext, Promise!Refuse, Promise!Move
  <2> QED
    BY <1>3, <2>1, <2>2, <2>3, <2>4, <2>5, <2>6, <2>7 DEF Begin
<1>4. ASSUME NEW u \in Uploads, Guard(u) PROVE Promise!ServiceNext \/ Stutters
  <2>1. CASE GetLockRaises(u)
    <3>1. phase[u] = "asked"
      BY <1>1, <2>1, PhaseAtStage DEF GetLockRaises
    <3>2. /\ phase'[u] = "refused" /\ imported' = imported /\ cutOff' = cutOff
          /\ \A v \in Uploads \ {u} :
               pc'[v] = pc[v] /\ result'[v] = result[v] /\ answer'[v] = answer[v]
      BY <1>1, <2>1 DEF GetLockRaises, StagesAgree, TypeOK, phase
    <3>3. phase' = [phase EXCEPT ![u] = "refused"]
      BY <3>2, PhaseMoves
    <3> QED
      BY <3>1, <3>2, <3>3 DEF Promise!ServiceNext, Promise!Refuse, Promise!Move
  <2>2. CASE EnterGuard(u) \/ GuardBusy(u) \/ GetLock(u) \/ LockBusy(u)
    BY <1>1, <2>2, PhaseStays DEF EnterGuard, GuardBusy, GetLock, LockBusy, TypeOK
  <2> QED
    BY <1>4, <2>1, <2>2 DEF Guard
<1>5. ASSUME NEW u \in Uploads, Finish(u) PROVE Promise!ServiceNext \/ Stutters
  <2>1. CASE FinishReceipt(u)
    BY <1>1, <2>1, PhaseStays DEF FinishReceipt, TypeOK
  <2>2. CASE LeaveGuard(u)
    <3>1. phase'[u] = phase[u]
      BY <1>1, <2>2 DEF LeaveGuard, StagesAgree, TypeOK, phase
    <3>2. phase' = [phase EXCEPT ![u] = phase[u]]
      BY <1>1, <2>2, <3>1, PhaseMoves DEF LeaveGuard, TypeOK
    <3> QED
      BY <2>2, <3>2 DEF LeaveGuard, phase
  <2>4. CASE FinishFails(u)
    BY <1>1, <2>4, PhaseStays DEF FinishFails, StagesAgree, TypeOK
  <2>3. CASE ReleaseReceipt(u) \/ ReleaseFails(u)
    <3>1. phase[u] = "asked"
      BY <1>1, <2>3, PhaseAtStage DEF ReleaseReceipt, ReleaseFails
    <3>2. /\ phase'[u] = "refused" /\ imported' = imported /\ cutOff' = cutOff
          /\ \A v \in Uploads \ {u} :
               pc'[v] = pc[v] /\ result'[v] = result[v] /\ answer'[v] = answer[v]
      BY <1>1, <2>3 DEF ReleaseReceipt, ReleaseFails, StagesAgree, TypeOK, phase
    <3>3. phase' = [phase EXCEPT ![u] = "refused"]
      BY <3>2, PhaseMoves
    <3> QED
      BY <3>1, <3>2, <3>3 DEF Promise!ServiceNext, Promise!Refuse, Promise!Move
  <2> QED
    BY <1>5, <2>1, <2>2, <2>3, <2>4 DEF Finish
<1>6. ASSUME NEW r \in Requests, Acquire(r) PROVE Promise!ServiceNext \/ Stutters
  <2>1. CASE r \in Uploads
    <3>1. /\ phase[r] = "asked" /\ pc[r] = "wait"
          /\ imported' = imported /\ cutOff' = cutOff
      BY <1>1, <1>6, <2>1, PhaseAtStage DEF Acquire
    <3>2. phase' = [phase EXCEPT ![r] = "running"]
      <4>1. phase'[r] = "running"
        BY <1>1, <1>6, <2>1 DEF Acquire, TypeOK, phase
      <4> QED
        BY <1>1, <1>6, <2>1, <4>1, PhaseMoves DEF Acquire, TypeOK
    <3>3. ASSUME NEW v \in Uploads, phase[v] = "running" PROVE v \in cutOff \/ r \in cutOff
      BY <1>1, <2>1, <3>1, <3>3, PhaseAtStage DEF LockIsHeld
    <3> QED
      BY <2>1, <3>1, <3>2, <3>3 DEF Promise!ServiceNext, Promise!Run, Promise!Move
  <2>2. CASE r \notin Uploads
    BY <1>1, <1>6, <2>2, PhaseStays DEF Acquire, TypeOK
  <2> QED
    BY <2>1, <2>2
<1>7. ASSUME NEW r \in Requests, ImportEnds(r) PROVE Promise!ServiceNext \/ Stutters
  <2>1. CASE r \in Uploads
    <3>1. phase[r] = "running" /\ cutOff' = cutOff
      BY <1>1, <1>7, <2>1, PhaseAtStage DEF ImportEnds
    <3>2. PICK how \in Outcomes :
            /\ result'[r] = how
            /\ imported' = IF how = "success" THEN imported \cup {<<Key[r], Sha[r]>>} ELSE imported
      BY <1>1, <1>7, <2>1 DEF ImportEnds, Shape, Outcomes
    <3>3. phase'[r] = IF how = "success" THEN "done" ELSE "failed"
      BY <1>1, <1>7, <2>1, <3>2 DEF ImportEnds, TypeOK, phase, Outcomes, RequestsAssumption
    <3>4. \A v \in Uploads \ {r} :
            pc'[v] = pc[v] /\ result'[v] = result[v] /\ answer'[v] = answer[v]
      BY <1>1, <1>7 DEF ImportEnds, TypeOK, Shape
    <3>5. phase' = [phase EXCEPT ![r] = IF how = "success" THEN "done" ELSE "failed"]
      BY <2>1, <3>3, <3>4, PhaseMoves
    <3> QED
      BY <2>1, <3>1, <3>2, <3>5
         DEF Promise!ServiceNext, Promise!Succeed, Promise!Fail, Promise!Move
  <2>2. CASE r \notin Uploads
    <3>1. \A v \in Uploads : pc'[v] = pc[v] /\ result'[v] = result[v] /\ answer'[v] = answer[v]
      BY <1>1, <1>7, <2>2 DEF ImportEnds, TypeOK, Shape
    <3> QED
      BY <1>7, <2>2, <3>1, PhaseStays DEF ImportEnds
  <2> QED
    BY <2>1, <2>2
<1>8. ASSUME NEW r \in Requests, SyncUnlock(r) PROVE Stutters
  BY <1>1, <1>8, PhaseStays DEF SyncUnlock, TypeOK
<1>9. ASSUME NEW k \in Keys, WindowPasses(k) \/ RetentionPasses(k) PROVE Stutters
  BY <1>9, PhaseStays DEF WindowPasses, RetentionPasses
<1>10. ASSUME NEW p \in Processes, ProcessDies(p) PROVE Promise!ServiceNext
  <2> DEFINE S == {u \in Uploads : pc[u] # "dead" /\ pc'[u] = "dead" /\ result[u] = None}
  <2>1. /\ result' = result /\ answer' = answer /\ imported' = imported /\ cutOff' = cutOff
        /\ \A u \in Uploads : pc'[u] = pc[u] \/ (pc'[u] = "dead" /\ ~Ended(u))
    <3>1. pc' = [r \in Requests |->
                   IF r \in On(p) /\ ~Ended(r) /\ pc[r] # "new" THEN "dead" ELSE pc[r]]
      BY <1>10 DEF ProcessDies
    <3>2. \A u \in Uploads : pc'[u] = pc[u] \/ (pc'[u] = "dead" /\ ~Ended(u))
      BY <3>1 DEF Ended
    <3> QED
      BY <1>10, <3>2 DEF ProcessDies
  <2>2. \A u \in S : phase[u] \in {"asked", "running"} /\ phase'[u] = "gone"
    BY <1>1, <2>1 DEF Ended, StagesAgree, TypeOK, Stages, phase
  <2>3. \A u \in Uploads \ S : phase'[u] = phase[u]
    BY <1>1, <2>1 DEF Ended, StagesAgree, TypeOK, phase
  <2>4. phase' = [u \in Uploads |-> IF u \in S THEN "gone" ELSE phase[u]]
    <3>1. phase' = [u \in Uploads |-> phase'[u]]
      BY DEF phase
    <3> HIDE DEF S
    <3> QED
      BY <2>2, <2>3, <3>1
  <2> QED
    BY <2>1, <2>2, <2>4 DEF Promise!ServiceNext, Promise!Die
<1>11. CASE LockConnectionDies
  <2>1. Promise!LoseLock(dbLock)
    BY <1>11, PhaseStays DEF LockConnectionDies, Promise!LoseLock
  <2> QED
    BY <1>1, <1>11, <2>1 DEF LockConnectionDies, TypeOK, Promise!ServiceNext
<1>12. CASE UNCHANGED vars
  BY <1>2, <1>12, PhaseStays DEF vars
<1> QED
  BY <1>2, <1>3, <1>4, <1>5, <1>6, <1>7, <1>8, <1>9, <1>10, <1>11, <1>12 DEF Next

\* The receipts and the locks implement the service they promise: the locks
\* give Run its guard, the receipts give Replay its own.
THEOREM PromiseKept == Spec => KeepsPromise
<1>1. Init => Promise!ServiceInit
  BY RequestsAssumption DEF Init, Promise!ServiceInit, phase, Requests, RequestsAssumption
<1>2. IInv /\ [Next]_vars => [Promise!ServiceNext]_Promise!serviceVars
  BY PromiseStep
<1> QED
  BY <1>1, <1>2, Invariance, PTL DEF Spec, KeepsPromise, Promise!Service
=============================================================================
