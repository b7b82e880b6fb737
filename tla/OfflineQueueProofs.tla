------------------------- MODULE OfflineQueueProofs -------------------------
(***************************************************************************)
(* What the offline queue guarantees for any number of items, pages and    *)
(* loops.  The invariant is one conjunct per fact: what a loop has in      *)
(* hand, whose request is on its way, what an answer stands for, and the   *)
(* one that carries the theorem on duplicates: of an item that no two      *)
(* loops had at once, and none of whose senders was left without an        *)
(* answer, there is one request or one record, never both to come.         *)
(***************************************************************************)
EXTENDS OfflineQueue, FiniteSetTheorems, TLAPS

\* A loop has an item in hand just while it is sending it, and then it is no
\* longer among what is left of its snapshot.
InHand ==
  \A r \in Runs :
    /\ run[r].item \in Items <=> run[r].phase \in {"marked", "sent"}
    /\ run[r].item \notin run[r].todo

\* A loop waits for the request of the item it has in hand; nobody waits for two.
OneRequest ==
  /\ \A q \in net : q.from \in Runs => run[q.from].phase = "sent" /\ run[q.from].item = q.item
  /\ \A q, o \in net : q.from = o.from /\ q.from # "nobody" => q = o

\* "ok" is said of a record.
OkIsTaken == \A q \in net : q.answer = "ok" => Taken(q.item) # {}

Requests(i) == {q \in net : q.item = i}

\* Nobody has the item in hand or in a snapshot.
Free(i) == \A r \in Runs : ~Has(r, i)

\* An item that one sender at a time has had, and each has heard of:
Plain(i) ==
  \* one loop has it at most,
  /\ \A r, o \in Runs : Has(r, i) /\ Has(o, i) => r = o
  \* its one request is of that loop, or of its form,
  /\ \A q \in Requests(i) : q.from \in Runs \/ (q.from \in Pages /\ status[i] = "none" /\ Free(i))
  /\ \A q, o \in Requests(i) : q = o
  \* and comes before the record, but for an answer that tells of it;
  /\ \A q \in Requests(i) : q.answer # "ok" => Taken(i) = {}
  /\ Taken(i) # {} => \/ \E q \in Requests(i) : q.answer = "ok"
                      \/ status[i] \in {"synced", "none"} /\ Free(i)
  /\ \A x, y \in Taken(i) : x = y
  \* before it is entered it is nowhere.
  /\ entered[i] = NoBook => status[i] = "none" /\ Free(i) /\ Taken(i) = {} /\ Requests(i) = {}

OncePlain == \A i \in Items : i \in doubtful \/ Plain(i)

\* What a page's list offers was entered.
Listed == \A p \in Pages : \A i \in list[p] : i \in doubtful \/ entered[i] # NoBook

IInv ==
  /\ TypeOK
  /\ InHand
  /\ OneRequest
  /\ OkIsTaken
  /\ SyncedIsTaken
  /\ ClearedIsTaken
  /\ SyncingIsHeld
  /\ OncePlain
-----------------------------------------------------------------------------
(* Facts about requests and loops *)

\* No loop has taken an item up, which the bound allows.
LEMMA NoTries == 0 \in 0 .. MaxTries
<1>1. MaxTries \in Nat
  BY OfflineAssumption
<1>2. QED BY <1>1

\* What goes on without its sender is a request that had no answer.
LEMMA OrphanFacts ==
  ASSUME NEW Q \in SUBSET Request, NEW o \in Orphans(Q)
  PROVE  /\ o \in Request /\ o.from = "nobody" /\ o.answer = "none"
         /\ \E q \in Q : o.item = q.item
  BY DEF Orphans, Request

\* A request that leaves has a key, and no answer yet.
LEMMA SendFacts ==
  ASSUME TypeOK, NEW p \in Pages, NEW s \in Senders, NEW i \in Items, NEW body \in Bodies,
         Send(p, s, i, body)
  PROVE  /\ recent' \in [Pages -> [Bodies -> Keys \cup {NoKey}]]
         /\ \E k \in Keys : net' = net \cup {[from |-> s, item |-> i, book |-> at[p], key |-> k,
                                             answer |-> "none"]}
<1>1. FreshKey(i) \in Keys
  BY DEF Send, FreshKey
<1>2. KeyOf(p, i, body) \in Keys
  BY <1>1 DEF KeyOf, TypeOK
<1>3. QED BY <1>2 DEF Send, TypeOK

\* A loop that goes on lets go of its item and keeps its snapshot.
LEMMA GoOnFacts ==
  ASSUME TypeOK, NEW r \in Runs, GoOn(r)
  PROVE  /\ run' \in [Runs -> Loop]
         /\ \A o \in Runs \ {r} : run'[o] = run[o]
         /\ run'[r].item = NoItem /\ run'[r].todo = run[r].todo /\ run'[r].phase \in {"next", "idle"}
  BY ZenonT(40) DEF GoOn, TypeOK, Loop

\* A loop takes an item of its snapshot in hand.
LEMMA MarkFacts ==
  ASSUME TypeOK, NEW r \in Runs, NEW i \in Items, MarkNext(r, i)
  PROVE  /\ run' \in [Runs -> Loop]
         /\ \A o \in Runs \ {r} : run'[o] = run[o]
         /\ run'[r].item = i /\ run'[r].todo = run[r].todo \ {i} /\ run'[r].phase = "marked"
  BY DEF MarkNext, TypeOK, Loop

\* Who has the item in hand sends it.
LEMMA SendItemFacts ==
  ASSUME TypeOK, NEW r \in Runs, SendItem(r)
  PROVE  /\ run' \in [Runs -> Loop]
         /\ \A o \in Runs \ {r} : run'[o] = run[o]
         /\ run'[r].item = run[r].item /\ run'[r].todo = run[r].todo /\ run'[r].phase = "sent"
  BY DEF SendItem, TypeOK, Loop

\* An item stays plain when nothing happens to it but that a loop lets go of it.
LEMMA PlainSame ==
  ASSUME NEW i \in Items, Plain(i),
         Requests(i)' = Requests(i), Taken(i)' = Taken(i),
         status'[i] = status[i], entered'[i] = entered[i],
         \A r \in Runs : Has(r, i)' => Has(r, i)
  PROVE  Plain(i)'
  BY DEF Plain, Free

\* Of a plain item that waits, or was left "syncing", there is neither a request nor a
\* record.
LEMMA PlainWaiting ==
  ASSUME OneRequest, NEW i \in Items, Plain(i), Free(i),
         status[i] \in {"pending", "failed", "syncing"}
  PROVE  Requests(i) = {} /\ Taken(i) = {}
<1>1. Requests(i) = {}
  BY DEF OneRequest, Plain, Requests, Free, Has
<1>2. QED BY <1>1 DEF Plain

\* Nor of a plain item that a loop is about to send.
LEMMA PlainHeld ==
  ASSUME OneRequest, NEW i \in Items, Plain(i), NEW r \in Runs, Has(r, i), run[r].phase # "sent"
  PROVE  Requests(i) = {} /\ Taken(i) = {} /\ entered[i] # NoBook
<1>1. ~Free(i)
  BY DEF Free
<1>2. \A q \in Requests(i) : q.from \in Runs /\ Has(q.from, i) /\ run[q.from].phase = "sent"
  BY <1>1 DEF Plain, OneRequest, Requests, Has
<1>3. Requests(i) = {}
  BY <1>2 DEF Plain
<1>4. QED BY <1>1, <1>3 DEF Plain

\* An item that is not in the store is left alone; its status is no news to others.
LEMMA SetStatusFacts ==
  ASSUME TypeOK, NEW i \in Items, NEW s \in {"pending", "syncing", "failed", "synced"},
         status' = SetStatus(i, s)
  PROVE  /\ status' \in [Items -> {"none", "pending", "syncing", "failed", "synced"}]
         /\ \A j \in Items \ {i} : status'[j] = status[j]
         /\ IF status[i] = "none" THEN status'[i] = "none" ELSE status'[i] = s
  BY DEF SetStatus, TypeOK

\* Where nothing changes but what the invariant does not look at.
LEMMA Elsewhere ==
  ASSUME IInv, UNCHANGED <<run, net, status, taken, entered, doubtful, cut>>
  PROVE  /\ InHand' /\ OneRequest' /\ OkIsTaken' /\ SyncedIsTaken' /\ SyncingIsHeld' /\ OncePlain'
         /\ clearing' = clearing => ClearedIsTaken'
<1>1. InHand' /\ OneRequest' /\ SyncingIsHeld'
  BY DEF IInv, InHand, OneRequest, SyncingIsHeld
<1>2. \A i \in Items : Taken(i)' = Taken(i)
  BY DEF Taken
<1>3. OkIsTaken' /\ SyncedIsTaken'
  BY DEF IInv, OkIsTaken, SyncedIsTaken, Taken
<1>4. clearing' = clearing => ClearedIsTaken'
  BY DEF IInv, ClearedIsTaken, Taken
<1>5. OncePlain'
  <2>1. \A i \in Items : Requests(i)' = Requests(i)
    BY DEF Requests
  <2>2. \A i \in Items : \A r \in Runs : Has(r, i)' => Has(r, i)
    BY DEF Has
  <2>3. QED BY <1>2, <2>1, <2>2, PlainSame DEF IInv, OncePlain
<1>6. QED BY <1>1, <1>3, <1>4, <1>5
\* Where loops at most let go of items, and nothing else changes.
LEMMA RunsLetGo ==
  ASSUME IInv, UNCHANGED <<net, status, taken, entered, doubtful, clearing>>,
         \A r \in Runs : run'[r].item = run[r].item /\ run'[r].todo = run[r].todo
  PROVE  OkIsTaken' /\ SyncedIsTaken' /\ ClearedIsTaken' /\ OncePlain'
<1>1. OkIsTaken' /\ SyncedIsTaken' /\ ClearedIsTaken'
  BY DEF IInv, OkIsTaken, SyncedIsTaken, ClearedIsTaken, Taken
<1>2. \A i \in Items : Requests(i)' = Requests(i) /\ Taken(i)' = Taken(i)
  BY DEF Requests, Taken
<1>3. \A i \in Items : \A r \in Runs : Has(r, i)' => Has(r, i)
  BY DEF Has
<1>4. QED BY <1>1, <1>2, <1>3, PlainSame DEF IInv, OncePlain

\* Where items at most leave the store, and nothing else changes.
LEMMA RemovedPreserves ==
  ASSUME IInv, UNCHANGED <<run, net, taken, entered, doubtful, cut>>,
         \A i \in Items : status'[i] = status[i] \/ status'[i] = "none"
  PROVE  InHand' /\ OneRequest' /\ OkIsTaken' /\ SyncedIsTaken' /\ SyncingIsHeld' /\ OncePlain'
<1>1. InHand' /\ OneRequest' /\ SyncingIsHeld'
  BY DEF IInv, InHand, OneRequest, SyncingIsHeld
<1>2. OkIsTaken' /\ SyncedIsTaken'
  BY DEF IInv, OkIsTaken, SyncedIsTaken, Taken
<1>3. \A i \in Items : Requests(i)' = Requests(i) /\ Taken(i)' = Taken(i)
  BY DEF Requests, Taken
<1>4. \A i \in Items : (\A r \in Runs : Has(r, i)' = Has(r, i)) /\ Free(i)' = Free(i)
  BY DEF Has, Free
<1>5. ASSUME NEW i \in Items, Plain(i) PROVE Plain(i)'
  BY <1>3, <1>4, <1>5 DEF Plain
<1>6. QED BY <1>1, <1>2, <1>5 DEF IInv, OncePlain
-----------------------------------------------------------------------------
(* Every step keeps the invariant *)

\* Nothing has been entered.
LEMMA InitEstablishes == Init => IInv /\ Listed
<1> SUFFICES ASSUME Init PROVE IInv /\ Listed
  OBVIOUS
<1> USE OfflineAssumption DEF Init
<1>1. TypeOK
  <2>1. run \in [Runs -> Loop] /\ net \subseteq Request /\ recent \in [Pages -> [Bodies -> Keys \cup {NoKey}]]
    BY DEF Loop, NoItem
  <2>2. tries \in [Items -> 0 .. MaxTries]
    BY NoTries
  <2>3. status \in [Items -> {"none", "pending", "syncing", "failed", "synced"}]
    OBVIOUS
  <2>4. QED BY <2>1, <2>2, <2>3 DEF TypeOK
<1>2. InHand /\ OneRequest /\ OkIsTaken
  BY DEF InHand, OneRequest, OkIsTaken, NoItem
<1>3. SyncedIsTaken /\ ClearedIsTaken /\ SyncingIsHeld
  BY DEF SyncedIsTaken, ClearedIsTaken, SyncingIsHeld
<1>4. OncePlain
  BY DEF OncePlain, Plain, Free, Has, Taken, Requests, NoItem
<1>5. Listed
  BY DEF Listed
<1>6. QED BY <1>1, <1>2, <1>3, <1>4, <1>5 DEF IInv

\* The connection goes.
LEMMA GoOfflinePreserves ==
  ASSUME IInv, GoOffline
  PROVE  IInv'
<1>1. TypeOK'
  BY DEF IInv, GoOffline, TypeOK
<1>2. QED BY <1>1, Elsewhere DEF IInv, GoOffline

\* A page forgets a key.
LEMMA WindowPassesPreserves ==
  ASSUME IInv, NEW p \in Pages, NEW b \in Bodies, WindowPasses(p, b)
  PROVE  IInv'
<1>1. TypeOK'
  BY DEF IInv, WindowPasses, TypeOK
<1>2. QED BY <1>1, Elsewhere DEF IInv, WindowPasses

\* What is read as synced is on the server.
LEMMA ClearReadsPreserves ==
  ASSUME IInv, NEW p \in Pages, ClearReads(p)
  PROVE  IInv'
<1>1. TypeOK'
  BY DEF IInv, ClearReads, TypeOK
<1>2. ClearedIsTaken'
  BY DEF IInv, ClearReads, ClearedIsTaken, SyncedIsTaken, Taken, TypeOK
<1>3. QED BY <1>1, <1>2, Elsewhere DEF IInv, ClearReads

\* A page reads the store again.
LEMMA LoadQueuePreserves ==
  ASSUME IInv, NEW p \in Pages, LoadQueue(p)
  PROVE  IInv'
<1>1. TypeOK'
  BY DEF IInv, LoadQueue, TypeOK, Waiting
<1>2. QED BY <1>1, Elsewhere DEF IInv, LoadQueue

\* The flags of the page's loops are not its flag any more.
LEMMA ReopenPreserves ==
  ASSUME IInv, NEW p \in Pages, Reopen(p)
  PROVE  IInv'
<1>1. /\ run' \in [Runs -> Loop]
      /\ \A r \in Runs : run'[r].phase = run[r].phase /\ run'[r].item = run[r].item /\ run'[r].todo = run[r].todo
  <2>1. \A r \in Runs : run[r] \in Loop
    BY DEF IInv, TypeOK
  <2>2. ASSUME NEW l \in Loop
        PROVE  LET m == [l EXCEPT !.flag = FALSE] IN
               m \in Loop /\ m.phase = l.phase /\ m.item = l.item /\ m.todo = l.todo
    BY DEF Loop
  <2>3. QED BY <2>1, <2>2 DEF Reopen
<1>2. TypeOK'
  BY <1>1 DEF IInv, Reopen, TypeOK
<1>3. UNCHANGED <<net, status, taken, entered, doubtful, cut, clearing>>
  BY DEF Reopen
<1>4. InHand' /\ OneRequest' /\ SyncingIsHeld'
  <2>1. InHand'
    BY <1>1 DEF IInv, InHand
  <2>2. OneRequest'
    BY <1>1, <1>3 DEF IInv, OneRequest
  <2>3. SyncingIsHeld'
    BY <1>1, <1>3 DEF IInv, SyncingIsHeld
  <2>4. QED BY <2>1, <2>2, <2>3
<1>5. QED BY <1>1, <1>2, <1>3, <1>4, RunsLetGo DEF IInv

\* A loop that has nothing left ends.
LEMMA FinishPreserves ==
  ASSUME IInv, NEW r \in Runs, Finish(r)
  PROVE  IInv'
<1>1. /\ run' \in [Runs -> Loop]
      /\ \A o \in Runs \ {r} : run'[o] = run[o]
      /\ run'[r].phase = "idle" /\ run'[r].item = run[r].item /\ run'[r].todo = run[r].todo
      /\ run[r].phase = "next"
  <2>1. run \in [Runs -> Loop]
    BY DEF IInv, TypeOK
  <2>2. /\ run[r].phase = "next"
        /\ run' = [run EXCEPT ![r].phase = "idle", ![r].all = FALSE, ![r].flag = FALSE]
    BY DEF Finish
  <2>3. DOMAIN run' = Runs /\ \A o \in Runs \ {r} : run'[o] = run[o]
    BY <2>1, <2>2
  <2>4. /\ run'[r] \in Loop /\ run'[r].phase = "idle"
        /\ run'[r].item = run[r].item /\ run'[r].todo = run[r].todo
    BY <2>1, <2>2 DEF Loop
  <2>5. run' \in [Runs -> Loop]
    BY <2>1, <2>2, <2>3, <2>4
  <2>6. QED BY <2>2, <2>3, <2>4, <2>5
<1>2. TypeOK'
  <2>1. busy' \in [Pages -> BOOLEAN]
    BY DEF IInv, TypeOK, Finish, Loop
  <2>2. QED BY <1>1, <2>1 DEF IInv, Finish, TypeOK
<1>3. UNCHANGED <<net, status, taken, entered, doubtful, cut, clearing>>
  BY DEF Finish
<1>4. InHand' /\ OneRequest' /\ SyncingIsHeld'
  <2>1. InHand'
    BY <1>1 DEF IInv, InHand
  <2>2. OneRequest'
    BY <1>1, <1>3 DEF IInv, OneRequest
  <2>3. SyncingIsHeld'
    BY <1>1, <1>3 DEF IInv, SyncingIsHeld
  <2>4. QED BY <2>1, <2>2, <2>3
<1>5. \A o \in Runs : run'[o].item = run[o].item /\ run'[o].todo = run[o].todo
  BY <1>1
<1>6. QED BY <1>2, <1>3, <1>4, <1>5, RunsLetGo DEF IInv

\* What is deleted was on the server.
LEMMA ClearDeletesPreserves ==
  ASSUME IInv, NEW p \in Pages, ClearDeletes(p)
  PROVE  IInv'
<1>1. TypeOK'
  BY DEF IInv, ClearDeletes, TypeOK
<1>2. UNCHANGED <<run, net, taken, entered, doubtful, cut>>
  BY DEF ClearDeletes
<1>3. ClearedIsTaken'
  BY DEF IInv, ClearDeletes, ClearedIsTaken, Taken, TypeOK
<1>4. \A i \in Items : status'[i] = status[i] \/ (status'[i] = "none" /\ Taken(i) # {})
  BY DEF IInv, ClearDeletes, ClearedIsTaken, TypeOK
<1>5. QED BY <1>1, <1>2, <1>3, <1>4, RemovedPreserves DEF IInv

\* Who discards an item that waits or is being sent takes it from nobody.
LEMMA DiscardPreserves ==
  ASSUME IInv, NEW i \in Items, Discard(i)
  PROVE  IInv'
<1>1. TypeOK'
  BY DEF IInv, Discard, TypeOK
<1>2. UNCHANGED <<run, net, taken, entered, doubtful, cut, clearing>>
  BY DEF Discard
<1>3. ClearedIsTaken'
  BY <1>2 DEF IInv, ClearedIsTaken, Taken
<1>4. \A j \in Items : status'[j] = status[j] \/ status'[j] = "none"
  BY DEF IInv, Discard, TypeOK
<1>5. QED BY <1>1, <1>2, <1>3, <1>4, RemovedPreserves DEF IInv

\* A request without a sender never arrives: its item is not a plain one.
LEMMA VanishPreserves ==
  ASSUME IInv, NEW q \in net, Vanish(q)
  PROVE  IInv'
<1>1. net' = net \ {q} /\ q.from = "nobody"
      /\ UNCHANGED <<run, status, taken, entered, doubtful, cut, clearing>>
  BY DEF Vanish
<1>2. TypeOK'
  BY DEF IInv, Vanish, TypeOK
<1>3. InHand' /\ OneRequest' /\ OkIsTaken'
  BY <1>1 DEF IInv, InHand, OneRequest, OkIsTaken, Taken
<1>4. SyncedIsTaken' /\ ClearedIsTaken' /\ SyncingIsHeld'
  BY <1>1 DEF IInv, SyncedIsTaken, ClearedIsTaken, SyncingIsHeld, Taken
<1>5. OncePlain'
  <2>1. SUFFICES ASSUME NEW j \in Items, Plain(j) PROVE Plain(j)'
    BY <1>1 DEF IInv, OncePlain
  <2>2. q.item # j
    BY <1>1, <2>1, OfflineAssumption DEF Plain, Requests
  <2>3. Requests(j)' = Requests(j)
    BY <1>1, <2>2 DEF Requests
  <2>4. Taken(j)' = Taken(j) /\ \A r \in Runs : Has(r, j)' => Has(r, j)
    BY <1>1 DEF Taken, Has
  <2>5. QED BY <1>1, <2>1, <2>3, <2>4, PlainSame
<1>6. QED BY <1>2, <1>3, <1>4, <1>5 DEF IInv

\* A form that has its answer is done, and no loop has its item.
LEMMA FormAnsweredPreserves ==
  ASSUME IInv, NEW p \in Pages, NEW q \in Mine(p), FormAnswered(p, q)
  PROVE  IInv'
<1>1. q \in net /\ q.from = p /\ net' = net \ {q}
      /\ UNCHANGED <<run, status, taken, entered, doubtful, cut, clearing>>
  BY DEF FormAnswered, Mine
<1>2. TypeOK'
  BY DEF IInv, FormAnswered, TypeOK
<1>3. InHand' /\ OneRequest' /\ OkIsTaken'
  BY <1>1 DEF IInv, InHand, OneRequest, OkIsTaken, Taken
<1>4. SyncedIsTaken' /\ ClearedIsTaken' /\ SyncingIsHeld'
  BY <1>1 DEF IInv, SyncedIsTaken, ClearedIsTaken, SyncingIsHeld, Taken
<1>5. OncePlain'
  <2>1. SUFFICES ASSUME NEW j \in Items, Plain(j) PROVE Plain(j)'
    BY <1>1 DEF IInv, OncePlain
  <2>2. Taken(j)' = Taken(j) /\ (\A r \in Runs : Has(r, j)' <=> Has(r, j)) /\ (Free(j)' <=> Free(j))
    BY <1>1 DEF Taken, Has, Free
  <2>3. CASE q.item # j
    <3>1. Requests(j)' = Requests(j)
      BY <1>1, <2>3 DEF Requests
    <3>2. QED BY <1>1, <2>1, <2>2, <3>1, PlainSame
  <2>4. CASE q.item = j
    <3>1. q \in Requests(j) /\ q.from \notin Runs
      BY <1>1, <2>4, OfflineAssumption DEF Requests
    <3>2. status[j] = "none" /\ Free(j) /\ entered[j] # NoBook
      BY <2>1, <3>1 DEF Plain
    <3>3. Requests(j)' = {}
      BY <1>1, <2>1, <3>1 DEF Plain, Requests
    <3>4. QED BY <1>1, <2>1, <2>2, <3>2, <3>3 DEF Plain
  <2>5. QED BY <2>3, <2>4
<1>6. QED BY <1>2, <1>3, <1>4, <1>5 DEF IInv

\* The form's item may have arrived: from now on it is one whose sender heard nothing.
LEMMA FormFailsPreserves ==
  ASSUME IInv, NEW p \in Pages, NEW q \in Mine(p), FormFails(p, q)
  PROVE  IInv'
<1>1. /\ q \in net /\ q \in Request /\ q.from = p /\ q.item \in Items
      /\ net' = (net \ {q}) \cup Orphans({q})
      /\ status' = [status EXCEPT ![q.item] = "pending"]
      /\ doubtful' = doubtful \cup {q.item}
      /\ UNCHANGED <<run, taken, entered, cut, clearing>>
  BY DEF FormFails, Mine, IInv, TypeOK, Request
<1>2. \A o \in Orphans({q}) : o \in Request /\ o.from = "nobody" /\ o.answer = "none" /\ o.item = q.item
  BY <1>1, OrphanFacts
<1>3. TypeOK'
  <2>1. net' \subseteq Request
    BY <1>1, <1>2 DEF IInv, TypeOK
  <2>2. status' \in [Items -> {"none", "pending", "syncing", "failed", "synced"}]
    BY <1>1 DEF IInv, TypeOK
  <2>3. doubtful' \subseteq Items
    BY <1>1 DEF IInv, TypeOK
  <2>4. QED BY <1>1, <2>1, <2>2, <2>3 DEF IInv, TypeOK, FormFails
<1>4. \A i \in Items : Taken(i)' = Taken(i) /\ (i # q.item => status'[i] = status[i])
  BY <1>1 DEF Taken, IInv, TypeOK
<1>5. status'[q.item] = "pending"
  BY <1>1 DEF IInv, TypeOK
<1>6. \A o \in net' : o \in net \/ (o.from = "nobody" /\ o.answer = "none")
  BY <1>1, <1>2
<1>7. InHand' /\ OneRequest' /\ OkIsTaken'
  <2>1. InHand' /\ OneRequest'
    BY <1>1, <1>6, OfflineAssumption DEF IInv, InHand, OneRequest
  <2>2. OkIsTaken'
    BY <1>1, <1>6 DEF IInv, OkIsTaken, Taken
  <2>3. QED BY <2>1, <2>2
<1>8. SyncedIsTaken' /\ ClearedIsTaken' /\ SyncingIsHeld'
  <2>1. SyncedIsTaken'
    BY <1>4, <1>5 DEF IInv, SyncedIsTaken
  <2>2. ClearedIsTaken'
    BY <1>1 DEF IInv, ClearedIsTaken, Taken
  <2>3. SyncingIsHeld'
    BY <1>1, <1>4, <1>5 DEF IInv, SyncingIsHeld
  <2>4. QED BY <2>1, <2>2, <2>3
<1>9. OncePlain'
  <2>1. SUFFICES ASSUME NEW j \in Items, Plain(j), j # q.item PROVE Plain(j)'
    BY <1>1 DEF IInv, OncePlain
  <2>2. Requests(j)' = Requests(j)
    BY <1>1, <1>2, <2>1 DEF Requests
  <2>3. \A r \in Runs : Has(r, j)' => Has(r, j)
    BY <1>1 DEF Has
  <2>4. QED BY <1>1, <1>4, <2>1, <2>2, <2>3, PlainSame
<1>10. QED BY <1>3, <1>7, <1>8, <1>9 DEF IInv

\* The server answers: with the record it has or makes, or with none.
LEMMA ServePreserves ==
  ASSUME IInv, NEW q \in net, Serve(q)
  PROVE  IInv'
<1> DEFINE ok == [q EXCEPT !.answer = "ok"]
           no == [q EXCEPT !.answer = "refused"]
           rec == [item |-> q.item, book |-> q.book, key |-> q.key]
<1>1. /\ q \in Request /\ q.item \in Items /\ q.answer = "none"
      /\ UNCHANGED <<run, status, entered, doubtful, cut, clearing>>
  BY DEF Serve, IInv, TypeOK, Request
<1>2. /\ ok \in Request /\ ok.item = q.item /\ ok.from = q.from /\ ok.answer = "ok"
      /\ no \in Request /\ no.item = q.item /\ no.from = q.from /\ no.answer = "refused"
      /\ rec \in [item : Items, book : Books, key : Keys] /\ rec.item = q.item
  BY <1>1 DEF Request
<1>3. \/ /\ taken' = taken \/ taken' = taken \cup {rec}
         /\ Taken(q.item)' # {} /\ (Taken(q.item) = {} => Taken(q.item)' = {rec})
         /\ net' = (net \ {q}) \cup (IF q.from = "nobody" THEN {} ELSE {ok})
      \/ /\ taken' = taken
         /\ net' = (net \ {q}) \cup (IF q.from = "nobody" THEN {} ELSE {no})
  BY <1>2 DEF Serve, Taken
<1> HIDE DEF ok, no, rec
<1>4. \A o \in net' : \/ o \in net /\ o # q
                      \/ /\ o \in {ok, no} /\ q.from # "nobody"
                         /\ o.answer = "ok" => Taken(q.item)' # {}
  BY <1>2, <1>3
<1>5. \A i \in Items : Taken(i) \subseteq Taken(i)' /\ (i # q.item => Taken(i)' = Taken(i))
  BY <1>2, <1>3 DEF Taken
<1>6. TypeOK'
  <2>1. net' \subseteq Request
    BY <1>2, <1>4 DEF IInv, TypeOK
  <2>2. taken' \subseteq [item : Items, book : Books, key : Keys]
    BY <1>2, <1>3 DEF IInv, TypeOK
  <2>3. QED BY <1>1, <2>1, <2>2 DEF IInv, TypeOK, Serve
<1>7. InHand' /\ OneRequest'
  <2>1. InHand'
    BY <1>1 DEF IInv, InHand
  <2>2. \A o \in net' : o.from \in Runs => run'[o.from].phase = "sent" /\ run'[o.from].item = o.item
    <3>1. \A o \in net' : \E x \in net : x.from = o.from /\ x.item = o.item
      BY <1>2, <1>4
    <3>2. QED BY <1>1, <3>1 DEF IInv, OneRequest
  <2>3. \A o \in net : o.from = q.from /\ q.from # "nobody" => o = q
    BY DEF IInv, OneRequest
  <2>4. \A x, y \in net' : x.from = y.from /\ x.from # "nobody" => x = y
    <3>1. PICK new \in {ok, no} : \A o \in net' : o \in net \ {q} \/ (o = new /\ q.from # "nobody")
      BY <1>3
    <3>2. new.from = q.from
      BY <1>2
    <3>3. QED BY <2>3, <3>1, <3>2 DEF IInv, OneRequest
  <2>5. QED BY <2>1, <2>2, <2>4 DEF OneRequest
<1>8. OkIsTaken'
  <2>1. \A o \in net : o.item \in Items
    BY DEF IInv, TypeOK, Request
  <2>2. SUFFICES ASSUME NEW o \in net', o.answer = "ok" PROVE Taken(o.item)' # {}
    BY DEF OkIsTaken
  <2>3. QED BY <1>2, <1>4, <1>5, <2>1, <2>2 DEF IInv, OkIsTaken
<1>9. SyncedIsTaken' /\ ClearedIsTaken' /\ SyncingIsHeld'
  <2>1. SyncedIsTaken'
    BY <1>1, <1>5 DEF IInv, SyncedIsTaken
  <2>2. ClearedIsTaken'
    BY <1>1, <1>5 DEF IInv, ClearedIsTaken, TypeOK
  <2>3. SyncingIsHeld'
    BY <1>1 DEF IInv, SyncingIsHeld
  <2>4. QED BY <2>1, <2>2, <2>3
<1>10. OncePlain'
  <2>1. SUFFICES ASSUME NEW j \in Items, Plain(j) PROVE Plain(j)'
    BY <1>1 DEF IInv, OncePlain
  <2>2. (\A r \in Runs : Has(r, j)' <=> Has(r, j)) /\ (Free(j)' <=> Free(j))
    BY <1>1 DEF Has, Free
  <2>3. CASE q.item # j
    <3>1. Requests(j)' = Requests(j)
      BY <1>2, <1>3, <2>3 DEF Requests
    <3>2. QED BY <1>1, <1>5, <2>1, <2>2, <2>3, <3>1, PlainSame
  <2>4. CASE q.item = j
    <3>1. q \in Requests(j) /\ (\A o \in Requests(j) : o = q) /\ Taken(j) = {} /\ entered[j] # NoBook
      BY <1>1, <2>1, <2>4 DEF Plain, Requests
    <3>2. q.from # "nobody"
      BY <2>1, <3>1, OfflineAssumption DEF Plain
    <3>3. \/ Requests(j)' = {ok} /\ Taken(j)' = {rec}
          \/ Requests(j)' = {no} /\ Taken(j)' = {}
      <4>1. \A o \in net : o.item = j => o = q
        BY <3>1 DEF Requests
      <4>2. CASE net' = (net \ {q}) \cup {ok} /\ Taken(j)' = {rec}
        BY <1>2, <2>4, <4>1, <4>2 DEF Requests
      <4>3. CASE net' = (net \ {q}) \cup {no} /\ taken' = taken
        BY <1>2, <2>4, <3>1, <4>1, <4>3 DEF Requests, Taken
      <4>4. QED BY <1>3, <2>4, <3>1, <3>2, <4>2, <4>3
    <3>4. q.from \in Runs \/ (q.from \in Pages /\ status[j] = "none" /\ Free(j))
      BY <2>1, <3>1 DEF Plain
    <3>5. QED BY <1>1, <1>2, <2>1, <2>2, <3>1, <3>3, <3>4 DEF Plain
  <2>5. QED BY <2>3, <2>4
<1>11. QED BY <1>6, <1>7, <1>8, <1>9, <1>10 DEF IInv

\* A form is sent, or kept; before, nothing was known of its item.
LEMMA SubmitPreserves ==
  ASSUME IInv, NEW p \in Pages, NEW i \in Items, Submit(p, i)
  PROVE  IInv'
<1>1. /\ Mine(p) = {} /\ entered[i] = NoBook
      /\ entered' = [entered EXCEPT ![i] = at[p]]
      /\ UNCHANGED <<run, taken, doubtful, cut, clearing>>
  BY DEF Submit
<1>2. /\ \A j \in Items : Taken(j)' = Taken(j) /\ (j # i => entered'[j] = entered[j])
      /\ entered'[i] # NoBook
      /\ \A j \in Items : (\A r \in Runs : Has(r, j)' <=> Has(r, j)) /\ (Free(j)' <=> Free(j))
  <2>1. at[p] \in Books /\ entered'[i] = at[p]
    BY <1>1 DEF IInv, TypeOK
  <2>2. QED BY <1>1, <2>1, OfflineAssumption DEF Taken, Has, Free, IInv, TypeOK
<1>3. <<i, "form">> \in Bodies /\ p \in Senders
  BY DEF Bodies, Senders
<1>4. CASE online
  <2>1. status' = status /\ Send(p, p, i, <<i, "form">>)
    BY <1>4 DEF Submit
  <2>2. PICK k \in Keys : net' = net \cup {[from |-> p, item |-> i, book |-> at[p], key |-> k,
                                          answer |-> "none"]}
    BY <1>3, <2>1, SendFacts DEF IInv
  <2> DEFINE new == [from |-> p, item |-> i, book |-> at[p], key |-> k, answer |-> "none"]
  <2>3. new \in Request /\ new.from = p /\ new.item = i /\ new.answer = "none" /\ net' = net \cup {new}
    BY <1>3, <2>2 DEF Request, IInv, TypeOK
  <2> HIDE DEF new
  <2>4. TypeOK'
    <3>1. recent' \in [Pages -> [Bodies -> Keys \cup {NoKey}]]
      BY <1>3, <2>1, SendFacts DEF IInv
    <3>2. net' \subseteq Request
      BY <2>3 DEF IInv, TypeOK
    <3>3. QED BY <1>1, <2>1, <3>1, <3>2 DEF IInv, TypeOK, Submit
  <2>5. InHand' /\ OneRequest' /\ OkIsTaken'
    <3>1. InHand'
      BY <1>1 DEF IInv, InHand
    <3>2. OneRequest'
      <4>1. \A o \in net : o.from # p
        BY <1>1 DEF Mine
      <4>2. QED BY <1>1, <2>3, <4>1, OfflineAssumption DEF IInv, OneRequest
    <3>3. OkIsTaken'
      BY <1>1, <2>3 DEF IInv, OkIsTaken, Taken
    <3>4. QED BY <3>1, <3>2, <3>3
  <2>6. SyncedIsTaken' /\ ClearedIsTaken' /\ SyncingIsHeld'
    BY <1>1, <2>1 DEF IInv, SyncedIsTaken, ClearedIsTaken, SyncingIsHeld, Taken
  <2>7. OncePlain'
    <3>1. SUFFICES ASSUME NEW j \in Items, Plain(j) PROVE Plain(j)'
      BY <1>1 DEF IInv, OncePlain
    <3>2. CASE j # i
      <4>1. Requests(j)' = Requests(j)
        BY <2>3, <3>2 DEF Requests
      <4>2. QED BY <1>2, <2>1, <3>1, <3>2, <4>1, PlainSame
    <3>3. CASE j = i
      <4>1. status[i] = "none" /\ Free(i) /\ Taken(i) = {} /\ Requests(i) = {}
        BY <1>1, <3>1, <3>3 DEF Plain
      <4>2. Requests(i)' = {new}
        BY <2>3, <4>1 DEF Requests
      <4>3. QED BY <1>2, <2>1, <2>3, <3>1, <3>3, <4>1, <4>2 DEF Plain
    <3>4. QED BY <3>2, <3>3
  <2>8. QED BY <2>4, <2>5, <2>6, <2>7 DEF IInv
<1>5. CASE ~online
  <2>1. status' = [status EXCEPT ![i] = "pending"] /\ net' = net /\ recent' = recent
    BY <1>5 DEF Submit
  <2>2. \A j \in Items : j # i => status'[j] = status[j]
    BY <2>1 DEF IInv, TypeOK
  <2>3. status'[i] = "pending"
    BY <2>1 DEF IInv, TypeOK
  <2>4. TypeOK'
    BY <1>1, <2>1 DEF IInv, TypeOK, Submit
  <2>5. InHand' /\ OneRequest' /\ OkIsTaken'
    BY <1>1, <2>1 DEF IInv, InHand, OneRequest, OkIsTaken, Taken
  <2>6. SyncedIsTaken' /\ ClearedIsTaken' /\ SyncingIsHeld'
    BY <1>1, <2>2, <2>3 DEF IInv, SyncedIsTaken, ClearedIsTaken, SyncingIsHeld, Taken
  <2>7. OncePlain'
    <3>1. SUFFICES ASSUME NEW j \in Items, Plain(j) PROVE Plain(j)'
      BY <1>1 DEF IInv, OncePlain
    <3>2. Requests(j)' = Requests(j)
      BY <2>1 DEF Requests
    <3>3. CASE j # i
      BY <1>2, <2>2, <3>1, <3>2, <3>3, PlainSame
    <3>4. CASE j = i
      <4>1. Free(i) /\ Taken(i) = {} /\ Requests(i) = {}
        BY <1>1, <3>1, <3>4 DEF Plain
      <4>2. QED BY <1>2, <3>1, <3>2, <3>4, <4>1 DEF Plain
    <3>5. QED BY <3>3, <3>4
  <2>8. QED BY <2>4, <2>5, <2>6, <2>7 DEF IInv
<1>6. QED BY <1>4, <1>5

\* The user sends one item: if nobody else has it, and it is neither synced nor gone, it
\* was never sent.
LEMMA SyncOnePreserves ==
  ASSUME IInv, Listed, NEW r \in Runs, NEW i \in Items, SyncOne(r, i)
  PROVE  IInv'
<1>1. /\ run[r].phase = "idle" /\ i \in list[PageOf[r]] /\ PageOf[r] \in Pages
      /\ status' = SetStatus(i, "syncing")
      /\ UNCHANGED <<net, taken, entered, cut, clearing>>
  BY OfflineAssumption DEF SyncOne, Idle
<1>2. /\ run' \in [Runs -> Loop]
      /\ \A o \in Runs \ {r} : run'[o] = run[o]
      /\ run'[r].item = i /\ run'[r].todo = {} /\ run'[r].phase = "marked"
  BY DEF SyncOne, IInv, TypeOK, Loop
<1>3. /\ status' \in [Items -> {"none", "pending", "syncing", "failed", "synced"}]
      /\ \A j \in Items \ {i} : status'[j] = status[j]
      /\ status'[i] \in {"none", "syncing"}
  BY <1>1, SetStatusFacts DEF IInv
<1>4. TypeOK'
  <2>1. tries' \in [Items -> 0 .. MaxTries]
    <3>1. MaxTries \in Nat /\ tries[i] \in 0 .. MaxTries /\ tries[i] < MaxTries
      BY OfflineAssumption DEF SyncOne, IInv, TypeOK
    <3>2. tries[i] + 1 \in 0 .. MaxTries
      BY <3>1
    <3>3. QED BY <3>2 DEF SyncOne, IInv, TypeOK
  <2>2. doubtful' \subseteq Items
    BY DEF SyncOne, IInv, TypeOK
  <2>3. QED BY <1>2, <1>3, <2>1, <2>2 DEF SyncOne, IInv, TypeOK
<1>5. InHand' /\ OneRequest' /\ OkIsTaken'
  <2>1. InHand'
    BY <1>2 DEF IInv, InHand
  <2>2. OneRequest'
    BY <1>1, <1>2 DEF IInv, OneRequest
  <2>3. OkIsTaken'
    BY <1>1 DEF IInv, OkIsTaken, Taken
  <2>4. QED BY <2>1, <2>2, <2>3
<1>6. SyncedIsTaken' /\ ClearedIsTaken' /\ SyncingIsHeld'
  <2>1. SyncedIsTaken' /\ ClearedIsTaken'
    BY <1>1, <1>3 DEF IInv, SyncedIsTaken, ClearedIsTaken, Taken
  <2>2. run[r].item \notin Items
    BY <1>1 DEF IInv, InHand
  <2>3. SyncingIsHeld'
    BY <1>1, <1>2, <1>3, <2>2 DEF IInv, SyncingIsHeld
  <2>4. QED BY <2>1, <2>3
<1>7. OncePlain'
  <2>1. SUFFICES ASSUME NEW j \in Items, Plain(j), j \notin doubtful' PROVE Plain(j)'
    BY <1>1 DEF SyncOne, IInv, OncePlain
  <2>2. Requests(j)' = Requests(j) /\ Taken(j)' = Taken(j)
    BY <1>1 DEF Requests, Taken
  <2>3. CASE j # i
    <3>1. \A o \in Runs : Has(o, j)' => Has(o, j)
      BY <1>2, <2>3 DEF Has
    <3>2. QED BY <1>1, <1>3, <2>1, <2>2, <2>3, <3>1, PlainSame
  <2>4. CASE j = i
    <3>1. Free(i) /\ status[i] \in {"pending", "failed", "syncing"} /\ i \notin doubtful
      BY <2>1, <2>4 DEF SyncOne, Free, IInv, TypeOK
    <3>2. Requests(i) = {} /\ Taken(i) = {}
      BY <1>1, <2>1, <2>4, <3>1, PlainWaiting DEF IInv
    <3>3. \A o \in Runs : Has(o, i)' => o = r
      BY <1>2, <3>1 DEF Has, Free
    <3>4. entered[i] # NoBook
      BY <1>1, <3>1 DEF Listed
    <3>5. QED BY <1>1, <2>2, <2>4, <3>2, <3>3, <3>4 DEF Plain
  <2>5. QED BY <2>3, <2>4
<1>8. QED BY <1>4, <1>5, <1>6, <1>7 DEF IInv

\* The loop turns to an item that it alone has had since it took its snapshot.
LEMMA MarkNextPreserves ==
  ASSUME IInv, NEW r \in Runs, NEW i \in Items, MarkNext(r, i)
  PROVE  IInv'
<1>1. /\ run[r].phase = "next" /\ i \in run[r].todo
      /\ status' = SetStatus(i, "syncing")
      /\ UNCHANGED <<net, taken, entered, doubtful, cut, clearing>>
  BY DEF MarkNext
<1>2. /\ run' \in [Runs -> Loop]
      /\ \A o \in Runs \ {r} : run'[o] = run[o]
      /\ run'[r].item = i /\ run'[r].todo = run[r].todo \ {i} /\ run'[r].phase = "marked"
  BY MarkFacts DEF IInv
<1>3. /\ status' \in [Items -> {"none", "pending", "syncing", "failed", "synced"}]
      /\ \A j \in Items \ {i} : status'[j] = status[j]
      /\ status'[i] \in {"none", "syncing"}
  BY <1>1, SetStatusFacts DEF IInv
<1>4. TypeOK'
  BY <1>2, <1>3 DEF MarkNext, IInv, TypeOK
<1>5. InHand' /\ OneRequest' /\ OkIsTaken'
  <2>1. InHand'
    BY <1>2 DEF IInv, InHand
  <2>2. OneRequest'
    BY <1>1, <1>2 DEF IInv, OneRequest
  <2>3. OkIsTaken'
    BY <1>1 DEF IInv, OkIsTaken, Taken
  <2>4. QED BY <2>1, <2>2, <2>3
<1>6. SyncedIsTaken' /\ ClearedIsTaken' /\ SyncingIsHeld'
  <2>1. SyncedIsTaken' /\ ClearedIsTaken'
    BY <1>1, <1>3 DEF IInv, SyncedIsTaken, ClearedIsTaken, Taken
  <2>2. run[r].item \notin Items
    BY <1>1 DEF IInv, InHand
  <2>3. SyncingIsHeld'
    BY <1>1, <1>2, <1>3, <2>2 DEF IInv, SyncingIsHeld
  <2>4. QED BY <2>1, <2>3
<1>7. OncePlain'
  <2>1. SUFFICES ASSUME NEW j \in Items, Plain(j) PROVE Plain(j)'
    BY <1>1 DEF IInv, OncePlain
  <2>2. Requests(j)' = Requests(j) /\ Taken(j)' = Taken(j)
    BY <1>1 DEF Requests, Taken
  <2>3. \A o \in Runs : Has(o, j)' => Has(o, j)
    BY <1>1, <1>2 DEF Has
  <2>4. CASE j # i
    BY <1>1, <1>3, <2>1, <2>2, <2>3, <2>4, PlainSame
  <2>5. CASE j = i
    <3>1. Has(r, i) /\ Requests(i) = {} /\ Taken(i) = {} /\ entered[i] # NoBook
      BY <1>1, <2>1, <2>5, PlainHeld DEF Has, IInv
    <3>2. QED BY <1>1, <2>1, <2>2, <2>3, <2>5, <3>1 DEF Plain
  <2>6. QED BY <2>4, <2>5
<1>8. QED BY <1>4, <1>5, <1>6, <1>7 DEF IInv

\* It sends what was never sent.
LEMMA SendItemPreserves ==
  ASSUME IInv, NEW r \in Runs, SendItem(r)
  PROVE  IInv'
<1> DEFINE i == run[r].item
<1>1. /\ run[r].phase = "marked" /\ i \in Items
      /\ Send(PageOf[r], r, i, QueueBody(i))
      /\ UNCHANGED <<status, taken, entered, doubtful, cut, clearing>>
  BY DEF SendItem, IInv, InHand
<1>2. /\ run' \in [Runs -> Loop]
      /\ \A o \in Runs \ {r} : run'[o] = run[o]
      /\ run'[r].item = run[r].item /\ run'[r].todo = run[r].todo /\ run'[r].phase = "sent"
  BY SendItemFacts DEF IInv
<1>3. PageOf[r] \in Pages /\ r \in Senders /\ QueueBody(i) \in Bodies
  BY <1>1, OfflineAssumption DEF Senders, QueueBody, Bodies
<1>4. /\ recent' \in [Pages -> [Bodies -> Keys \cup {NoKey}]]
      /\ \E k \in Keys : net' = net \cup {[from |-> r, item |-> i, book |-> at[PageOf[r]], key |-> k,
                                          answer |-> "none"]}
  BY <1>1, <1>3, SendFacts DEF IInv
<1>5. PICK k \in Keys : net' = net \cup {[from |-> r, item |-> i, book |-> at[PageOf[r]], key |-> k,
                                          answer |-> "none"]}
  BY <1>4
<1> DEFINE new == [from |-> r, item |-> i, book |-> at[PageOf[r]], key |-> k, answer |-> "none"]
<1>6. new \in Request /\ new.from = r /\ new.item = i /\ new.answer = "none" /\ net' = net \cup {new}
  BY <1>1, <1>3, <1>5 DEF Request, IInv, TypeOK
<1> HIDE DEF new
<1>7. TypeOK'
  <2>1. net' \subseteq Request
    BY <1>6 DEF IInv, TypeOK
  <2>2. QED BY <1>1, <1>2, <1>4, <2>1 DEF SendItem, IInv, TypeOK
<1>8. InHand' /\ OneRequest' /\ OkIsTaken'
  <2>1. InHand'
    BY <1>1, <1>2 DEF IInv, InHand
  <2>2. OneRequest'
    <3>1. \A o \in net : o.from # r
      BY <1>1 DEF IInv, OneRequest
    <3>2. QED BY <1>2, <1>6, <3>1 DEF IInv, OneRequest
  <2>3. OkIsTaken'
    BY <1>1, <1>6 DEF IInv, OkIsTaken, Taken
  <2>4. QED BY <2>1, <2>2, <2>3
<1>9. SyncedIsTaken' /\ ClearedIsTaken' /\ SyncingIsHeld'
  <2>1. SyncedIsTaken' /\ ClearedIsTaken'
    BY <1>1 DEF IInv, SyncedIsTaken, ClearedIsTaken, Taken
  <2>2. SyncingIsHeld'
    BY <1>1, <1>2 DEF IInv, SyncingIsHeld
  <2>3. QED BY <2>1, <2>2
<1>10. OncePlain'
  <2>1. SUFFICES ASSUME NEW j \in Items, Plain(j) PROVE Plain(j)'
    BY <1>1 DEF IInv, OncePlain
  <2>2. Taken(j)' = Taken(j) /\ \A o \in Runs : Has(o, j)' <=> Has(o, j)
    BY <1>1, <1>2 DEF Taken, Has
  <2>3. CASE j # i
    <3>1. Requests(j)' = Requests(j)
      BY <1>6, <2>3 DEF Requests
    <3>2. QED BY <1>1, <2>1, <2>2, <3>1, PlainSame
  <2>4. CASE j = i
    <3>1. Has(r, j) /\ Requests(j) = {} /\ Taken(j) = {} /\ entered[j] # NoBook
      BY <1>1, <2>1, <2>4, PlainHeld DEF Has, IInv
    <3>2. Requests(j)' = {new}
      BY <1>6, <2>4, <3>1 DEF Requests
    <3>3. QED BY <1>1, <1>6, <2>1, <2>2, <3>1, <3>2 DEF Plain
  <2>5. QED BY <2>3, <2>4
<1>11. QED BY <1>7, <1>8, <1>9, <1>10 DEF IInv

\* The loop hears what became of the item and lets go of it.
LEMMA ItemAnsweredPreserves ==
  ASSUME IInv, NEW r \in Runs, NEW q \in Mine(r), ItemAnswered(r, q)
  PROVE  IInv'
<1>1. /\ q \in net /\ q \in Request /\ q.from = r /\ q.item \in Items
      /\ q.answer \in {"ok", "refused"}
      /\ net' = net \ {q}
      /\ status' = SetStatus(q.item, Outcome(q.answer))
      /\ GoOn(r)
      /\ UNCHANGED <<taken, entered, doubtful, cut, clearing>>
  BY DEF ItemAnswered, Mine, IInv, TypeOK, Request
<1>2. /\ run' \in [Runs -> Loop]
      /\ \A o \in Runs \ {r} : run'[o] = run[o]
      /\ run'[r].item = NoItem /\ run'[r].todo = run[r].todo /\ run'[r].phase \in {"next", "idle"}
  BY <1>1, GoOnFacts DEF IInv
<1>3. run[r].item = q.item /\ q.item \notin run[r].todo /\ NoItem \notin Items
  BY <1>1, OfflineAssumption DEF IInv, OneRequest, InHand, NoItem
<1>4. Outcome(q.answer) \in {"synced", "failed"} /\ (Outcome(q.answer) = "synced" <=> q.answer = "ok")
  BY DEF Outcome
<1>5. /\ status' \in [Items -> {"none", "pending", "syncing", "failed", "synced"}]
      /\ \A j \in Items \ {q.item} : status'[j] = status[j]
      /\ status'[q.item] \in {"none", Outcome(q.answer)}
  BY <1>1, <1>4, SetStatusFacts DEF IInv
<1>6. TypeOK'
  BY <1>1, <1>2, <1>5 DEF ItemAnswered, IInv, TypeOK
<1>7. InHand' /\ OneRequest' /\ OkIsTaken'
  <2>1. InHand'
    <3>1. run[r].todo \subseteq Items
      BY DEF IInv, TypeOK, Loop
    <3>2. QED BY <1>2, <1>3, <3>1 DEF IInv, InHand
  <2>2. OneRequest'
    <3>1. \A o \in net' : o \in net /\ o.from # r
      BY <1>1, OfflineAssumption DEF IInv, OneRequest
    <3>2. \A o \in net' : o.from \in Runs => run'[o.from] = run[o.from]
      BY <1>2, <3>1
    <3>3. QED BY <3>1, <3>2 DEF IInv, OneRequest
  <2>3. OkIsTaken'
    BY <1>1 DEF IInv, OkIsTaken, Taken
  <2>4. QED BY <2>1, <2>2, <2>3
<1>8. SyncedIsTaken' /\ ClearedIsTaken' /\ SyncingIsHeld'
  <2>1. Outcome(q.answer) = "synced" => Taken(q.item) # {}
    BY <1>1, <1>4 DEF IInv, OkIsTaken
  <2>2. \A j \in Items : Taken(j)' = Taken(j)
    BY <1>1 DEF Taken
  <2>3. SyncedIsTaken' /\ ClearedIsTaken'
    <3>1. SyncedIsTaken'
      BY <1>5, <2>1, <2>2 DEF IInv, SyncedIsTaken
    <3>2. ClearedIsTaken'
      BY <1>1 DEF IInv, ClearedIsTaken, Taken
    <3>3. QED BY <3>1, <3>2
  <2>4. SyncingIsHeld'
    BY <1>1, <1>2, <1>3, <1>4, <1>5 DEF IInv, SyncingIsHeld
  <2>5. QED BY <2>3, <2>4
<1>9. OncePlain'
  <2>1. SUFFICES ASSUME NEW j \in Items, Plain(j) PROVE Plain(j)'
    BY <1>1 DEF IInv, OncePlain
  <2>2. Taken(j)' = Taken(j) /\ \A o \in Runs : Has(o, j)' => Has(o, j)
    BY <1>1, <1>2, <1>3 DEF Taken, Has
  <2>3. CASE j # q.item
    <3>1. Requests(j)' = Requests(j)
      BY <1>1, <2>3 DEF Requests
    <3>2. QED BY <1>1, <1>5, <2>1, <2>2, <2>3, <3>1, PlainSame
  <2>4. CASE j = q.item
    <3>1. q \in Requests(j) /\ Has(r, j) /\ ~Has(r, j)'
      BY <1>1, <1>2, <1>3, <2>4 DEF Requests, Has
    <3>2. Free(j)'
      BY <2>1, <2>2, <3>1 DEF Plain, Free
    <3>3. Requests(j)' = {}
      BY <1>1, <2>1, <3>1 DEF Plain, Requests
    <3>4. entered[j] # NoBook
      BY <2>1, <3>1 DEF Plain
    <3>5. Taken(j) # {} => status'[j] \in {"synced", "none"}
      <4>1. Taken(j) # {} => q.answer = "ok"
        BY <2>1, <3>1 DEF Plain
      <4>2. QED BY <1>4, <1>5, <2>4, <4>1
    <3>6. QED BY <1>1, <2>1, <2>2, <3>2, <3>3, <3>4, <3>5 DEF Plain
  <2>5. QED BY <2>3, <2>4
<1>10. QED BY <1>6, <1>7, <1>8, <1>9 DEF IInv

\* Or hears nothing: the item is one to be sent again, with what that may do.
LEMMA ItemFailsPreserves ==
  ASSUME IInv, NEW r \in Runs, NEW q \in Mine(r), ItemFails(r, q)
  PROVE  IInv'
<1>1. /\ q \in net /\ q \in Request /\ q.from = r /\ q.item \in Items
      /\ net' = (net \ {q}) \cup Orphans({q})
      /\ status' = SetStatus(q.item, "failed")
      /\ doubtful' = doubtful \cup {q.item}
      /\ GoOn(r)
      /\ UNCHANGED <<taken, entered, cut, clearing>>
  BY DEF ItemFails, Mine, IInv, TypeOK, Request
<1>2. /\ run' \in [Runs -> Loop]
      /\ \A o \in Runs \ {r} : run'[o] = run[o]
      /\ run'[r].item = NoItem /\ run'[r].todo = run[r].todo /\ run'[r].phase \in {"next", "idle"}
  BY <1>1, GoOnFacts DEF IInv
<1>3. run[r].item = q.item /\ run[r].todo \subseteq Items /\ NoItem \notin Items
  BY <1>1, OfflineAssumption DEF IInv, OneRequest, TypeOK, Loop, NoItem
<1>4. /\ status' \in [Items -> {"none", "pending", "syncing", "failed", "synced"}]
      /\ \A j \in Items \ {q.item} : status'[j] = status[j]
      /\ status'[q.item] \in {"none", "failed"}
  BY <1>1, SetStatusFacts DEF IInv
<1>5. \A o \in Orphans({q}) : o \in Request /\ o.from = "nobody" /\ o.answer = "none" /\ o.item = q.item
  BY <1>1, OrphanFacts
<1>6. \A o \in net' : \/ o \in net /\ o # q
                      \/ o \in Request /\ o.from = "nobody" /\ o.answer = "none"
  BY <1>1, <1>5
<1>7. TypeOK'
  <2>1. net' \subseteq Request
    BY <1>6 DEF IInv, TypeOK
  <2>2. doubtful' \subseteq Items
    BY <1>1 DEF IInv, TypeOK
  <2>3. QED BY <1>1, <1>2, <1>4, <2>1, <2>2 DEF ItemFails, IInv, TypeOK
<1>8. InHand' /\ OneRequest' /\ OkIsTaken'
  <2>1. InHand'
    BY <1>2, <1>3 DEF IInv, InHand
  <2>2. OneRequest'
    <3>1. \A o \in net' : (o \in net /\ o.from # r) \/ o.from = "nobody"
      BY <1>1, <1>6, OfflineAssumption DEF IInv, OneRequest
    <3>2. \A o \in net' : o.from \in Runs => o \in net /\ run'[o.from] = run[o.from]
      BY <1>2, <3>1, OfflineAssumption
    <3>3. QED BY <3>1, <3>2 DEF IInv, OneRequest
  <2>3. OkIsTaken'
    BY <1>1, <1>6 DEF IInv, OkIsTaken, Taken
  <2>4. QED BY <2>1, <2>2, <2>3
<1>9. SyncedIsTaken' /\ ClearedIsTaken' /\ SyncingIsHeld'
  <2>1. SyncedIsTaken' /\ ClearedIsTaken'
    BY <1>1, <1>4 DEF IInv, SyncedIsTaken, ClearedIsTaken, Taken
  <2>2. SyncingIsHeld'
    BY <1>1, <1>2, <1>3, <1>4 DEF IInv, SyncingIsHeld
  <2>3. QED BY <2>1, <2>2
<1>10. OncePlain'
  <2>1. SUFFICES ASSUME NEW j \in Items, Plain(j), j # q.item PROVE Plain(j)'
    BY <1>1 DEF IInv, OncePlain
  <2>2. Requests(j)' = Requests(j)
    BY <1>1, <1>5, <2>1 DEF Requests
  <2>3. Taken(j)' = Taken(j) /\ \A o \in Runs : Has(o, j)' => Has(o, j)
    BY <1>1, <1>2, <1>3 DEF Taken, Has
  <2>4. QED BY <1>1, <1>4, <2>1, <2>2, <2>3, PlainSame
<1>11. QED BY <1>7, <1>8, <1>9, <1>10 DEF IInv

\* What was on its way when the page went is what its senders heard nothing of.
LEMMA ReloadPreserves ==
  ASSUME IInv, NEW p \in Pages, NEW b \in Books, Reload(p, b)
  PROVE  IInv'
<1> DEFINE mine == {q \in net : q.from \in HeldBy(p) \cup {p}}
<1>1. /\ net' = (net \ mine) \cup Orphans(mine)
      /\ cut' = cut \cup {i \in Items : \E r \in HeldBy(p) : run[r].item = i}
      /\ doubtful' = doubtful \cup {q.item : q \in mine}
      /\ clearing' = [clearing EXCEPT ![p] = {}]
      /\ UNCHANGED <<status, taken, entered>>
  BY DEF Reload
<1>2. /\ run' \in [Runs -> Loop]
      /\ \A r \in Runs : \/ PageOf[r] # p /\ run'[r] = run[r]
                         \/ r \in HeldBy(p) /\ run'[r].phase = "idle" /\ run'[r].item = NoItem /\ run'[r].todo = {}
  BY DEF Reload, HeldBy, IInv, TypeOK, Loop
<1>3. NoItem \notin Items
  BY OfflineAssumption DEF NoItem
<1>4. mine \in SUBSET Request /\ \A q \in net : q.item \in Items
  BY DEF IInv, TypeOK, Request
<1>5. \A o \in Orphans(mine) : /\ o \in Request /\ o.from = "nobody" /\ o.answer = "none"
                               /\ \E q \in mine : o.item = q.item
  BY <1>4, OrphanFacts
<1>6. \A o \in net' : \/ o \in net /\ o.from \notin HeldBy(p) \cup {p}
                      \/ o \in Request /\ o.from = "nobody" /\ o.answer = "none"
  BY <1>1, <1>5
<1>7. TypeOK'
  <2>1. net' \subseteq Request
    BY <1>6 DEF IInv, TypeOK
  <2>2. doubtful' \subseteq Items /\ cut' \subseteq Items
    BY <1>1, <1>4 DEF IInv, TypeOK
  <2>3. recent' \in [Pages -> [Bodies -> Keys \cup {NoKey}]]
    BY DEF Reload, IInv, TypeOK
  <2>4. at' \in [Pages -> Books] /\ busy' \in [Pages -> BOOLEAN] /\ clearing' \in [Pages -> SUBSET Items]
    BY DEF Reload, IInv, TypeOK
  <2>5. QED BY <1>2, <2>1, <2>2, <2>3, <2>4 DEF Reload, IInv, TypeOK
<1>8. InHand' /\ OneRequest' /\ OkIsTaken'
  <2>1. InHand'
    BY <1>2, <1>3 DEF IInv, InHand
  <2>2. OneRequest'
    <3>1. \A o \in net' : o \in net \/ o.from = "nobody"
      BY <1>6
    <3>2. \A o \in net' : o.from \in Runs => o \in net /\ run'[o.from] = run[o.from]
      BY <1>2, <1>6, OfflineAssumption DEF HeldBy
    <3>3. QED BY <3>1, <3>2 DEF IInv, OneRequest
  <2>3. OkIsTaken'
    BY <1>1, <1>6 DEF IInv, OkIsTaken, Taken
  <2>4. QED BY <2>1, <2>2, <2>3
<1>9. SyncedIsTaken' /\ ClearedIsTaken' /\ SyncingIsHeld'
  <2>1. SyncedIsTaken'
    BY <1>1 DEF IInv, SyncedIsTaken, Taken
  <2>2. ClearedIsTaken'
    BY <1>1 DEF IInv, ClearedIsTaken, Taken, TypeOK
  <2>3. SyncingIsHeld'
    BY <1>1, <1>2 DEF IInv, SyncingIsHeld
  <2>4. QED BY <2>1, <2>2, <2>3
<1>10. OncePlain'
  <2>1. SUFFICES ASSUME NEW j \in Items, Plain(j), j \notin doubtful' PROVE Plain(j)'
    BY <1>1 DEF IInv, OncePlain
  <2>2. \A q \in mine : q.item # j
    BY <1>1, <2>1
  <2>3. Requests(j)' = Requests(j)
    BY <1>1, <1>5, <2>2 DEF Requests
  <2>4. Taken(j)' = Taken(j) /\ \A r \in Runs : Has(r, j)' => Has(r, j)
    BY <1>1, <1>2, <1>3 DEF Taken, Has
  <2>5. QED BY <1>1, <2>1, <2>3, <2>4, PlainSame
<1>11. QED BY <1>7, <1>8, <1>9, <1>10 DEF IInv

\* Loops that start take what nobody has, or share it.
LEMMA TakePreserves ==
  ASSUME IInv, NEW S \in SUBSET Runs, \A r \in S : Idle(r), Take(S),
         UNCHANGED <<entered, status, at, clearing, recent, net, taken, cut, list>>,
         online' \in BOOLEAN
  PROVE  IInv'
<1>1. /\ run' \in [Runs -> Loop]
      /\ \A r \in Runs : IF r \in S
                         THEN run'[r].phase = "next" /\ run'[r].item = NoItem /\ run'[r].todo = Waiting
                         ELSE run'[r] = run[r]
  BY DEF Take, IInv, TypeOK, Loop, Waiting
<1>2. \A r \in S : run[r].phase = "idle"
  BY DEF Idle
<1>3. NoItem \notin Items
  BY OfflineAssumption DEF NoItem
<1>4. IsFiniteSet(S) /\ Cardinality(S) \in Nat
  BY OfflineAssumption, FS_Subset, FS_CardinalityType
<1>5. TypeOK'
  <2>1. tries' \in [Items -> 0 .. MaxTries]
    <3>1. \A i \in Waiting : tries[i] + Cardinality(S) \in 0 .. MaxTries
      <4>1. MaxTries \in Nat /\ \A i \in Waiting : tries[i] \in 0 .. MaxTries
        BY OfflineAssumption DEF IInv, TypeOK, Waiting
      <4>2. \A i \in Waiting : tries[i] + Cardinality(S) <= MaxTries
        BY DEF Take
      <4>3. QED BY <1>4, <4>1, <4>2
    <3>2. tries' = [i \in Items |-> IF i \in Waiting THEN tries[i] + Cardinality(S) ELSE tries[i]]
      BY DEF Take
    <3>3. \A i \in Items : tries[i] \in 0 .. MaxTries
      BY DEF IInv, TypeOK
    <3>4. QED BY <3>1, <3>2, <3>3
  <2>2. doubtful' \subseteq Items /\ busy' \in [Pages -> BOOLEAN]
    BY DEF Take, IInv, TypeOK, Waiting
  <2>3. QED BY <1>1, <2>1, <2>2 DEF IInv, TypeOK
<1>6. InHand' /\ OneRequest' /\ OkIsTaken'
  <2>1. InHand'
    BY <1>1, <1>3 DEF IInv, InHand, Waiting
  <2>2. OneRequest'
    BY <1>1, <1>2 DEF IInv, OneRequest
  <2>3. OkIsTaken'
    BY DEF IInv, OkIsTaken, Taken
  <2>4. QED BY <2>1, <2>2, <2>3
<1>7. SyncedIsTaken' /\ ClearedIsTaken' /\ SyncingIsHeld'
  <2>1. SyncedIsTaken' /\ ClearedIsTaken'
    BY DEF IInv, SyncedIsTaken, ClearedIsTaken, Taken
  <2>2. \A r \in S : run[r].item \notin Items
    BY <1>2 DEF IInv, InHand
  <2>3. SyncingIsHeld'
    BY <1>1, <2>2 DEF IInv, SyncingIsHeld
  <2>4. QED BY <2>1, <2>3
<1>8. OncePlain'
  <2>1. SUFFICES ASSUME NEW j \in Items, Plain(j), j \notin doubtful' PROVE Plain(j)'
    BY DEF Take, IInv, OncePlain
  <2>2. Requests(j)' = Requests(j) /\ Taken(j)' = Taken(j)
    BY DEF Requests, Taken
  <2>3. CASE j \notin Waiting
    <3>1. \A r \in Runs : Has(r, j)' => Has(r, j)
      BY <1>1, <1>3, <2>3 DEF Has
    <3>2. QED BY <2>1, <2>2, <3>1, PlainSame
  <2>4. CASE j \in Waiting
    <3>1. Free(j) /\ ~(Cardinality(S) > 1)
      BY <2>1, <2>4 DEF Take, Free
    <3>2. \A r, o \in S : r = o
      <4>1. SUFFICES ASSUME NEW r \in S, NEW o \in S, r # o PROVE FALSE
        OBVIOUS
      <4>2. {r, o} \subseteq S /\ Cardinality({r, o}) = 2
        <5>1. IsFiniteSet({r}) /\ Cardinality({r}) = 1 /\ o \notin {r}
          BY <4>1, FS_Singleton
        <5>2. Cardinality({r} \cup {o}) = Cardinality({r}) + 1
          BY <5>1, FS_AddElement
        <5>3. {r} \cup {o} = {r, o} /\ {r, o} \subseteq S
          OBVIOUS
        <5>4. QED BY <5>1, <5>2, <5>3
      <4>3. 2 <= Cardinality(S)
        BY <1>4, <4>2, FS_Subset
      <4>4. QED BY <1>4, <3>1, <4>3
    <3>3. status[j] \in {"pending", "failed"}
      BY <2>4 DEF Waiting
    <3>4. Requests(j) = {} /\ Taken(j) = {} /\ entered[j] # NoBook
      BY <2>1, <3>1, <3>3, PlainWaiting DEF IInv, Plain
    <3>5. \A r \in Runs : Has(r, j)' => r \in S
      BY <1>1, <3>1 DEF Has, Free
    <3>6. QED BY <2>2, <3>2, <3>4, <3>5 DEF Plain
  <2>5. QED BY <2>3, <2>4
<1>9. QED BY <1>5, <1>6, <1>7, <1>8 DEF IInv

\* The connection comes back.
LEMMA GoOnlinePreserves == IInv /\ GoOnline => IInv'
<1> SUFFICES ASSUME IInv, GoOnline PROVE IInv'
  OBVIOUS
<1>1. PICK S \in SUBSET {r \in Runs : Idle(r)} :
        IF Waiting = {} THEN UNCHANGED <<run, busy, tries, doubtful>> ELSE Take(S)
  BY DEF GoOnline
<1>2. CASE Waiting = {}
  <2>1. TypeOK'
    BY <1>1, <1>2 DEF IInv, GoOnline, TypeOK
  <2>2. QED BY <1>1, <1>2, <2>1, Elsewhere DEF IInv, GoOnline
<1>3. CASE Waiting # {}
  <2>1. S \in SUBSET Runs /\ (\A r \in S : Idle(r)) /\ Take(S)
    BY <1>1, <1>3
  <2>2. online' \in BOOLEAN /\ UNCHANGED <<entered, status, at, clearing, recent, net, taken, cut, list>>
    BY DEF GoOnline
  <2>3. QED BY <2>1, <2>2, TakePreserves
<1>4. QED BY <1>2, <1>3

\* The user sends all.
LEMMA SyncAllPreserves ==
  ASSUME IInv, NEW r \in Runs, SyncAll(r)
  PROVE  IInv'
<1>1. {r} \in SUBSET Runs /\ (\A o \in {r} : Idle(o)) /\ Take({r})
  BY DEF SyncAll
<1>2. online' \in BOOLEAN /\ UNCHANGED <<entered, status, at, clearing, recent, net, taken, cut, list>>
  BY DEF SyncAll, IInv, TypeOK
<1>3. QED BY <1>1, <1>2, TakePreserves

\* What a loop does by itself.
LEMMA RunStepPreserves ==
  ASSUME IInv, NEW r \in Runs, RunStep(r)
  PROVE  IInv'
  BY MarkNextPreserves, SendItemPreserves, ItemAnsweredPreserves, ItemFailsPreserves, FinishPreserves
     DEF RunStep

\* A list offers what its page read or less, and what was entered remains so.
LEMMA ListedStays == IInv /\ Listed /\ [Next]_vars => Listed'
<1> SUFFICES ASSUME IInv, Listed, [Next]_vars, NEW p \in Pages, NEW i \in list'[p]
             PROVE  i \in doubtful' \/ entered'[i] # NoBook
  BY DEF Listed
<1>1. list \in [Pages -> SUBSET Items] /\ entered \in [Items -> Books \cup {NoBook}]
      /\ at \in [Pages -> Books]
  BY DEF IInv, TypeOK
<1>2. CASE UNCHANGED vars
  BY <1>2 DEF vars, Listed
<1>3. ASSUME NEW o \in Pages,
             \/ \E j \in Items : Submit(o, j)
             \/ \E q \in Mine(o) : FormAnswered(o, q) \/ FormFails(o, q)
             \/ \E b \in Bodies : WindowPasses(o, b)
             \/ ClearReads(o) \/ ClearDeletes(o)
      PROVE  i \in doubtful' \/ entered'[i] # NoBook
  <2>1. list' = list /\ doubtful \subseteq doubtful'
    BY <1>3 DEF Submit, FormAnswered, FormFails, WindowPasses, ClearReads, ClearDeletes
  <2>2. entered[i] # NoBook => entered'[i] # NoBook
    <3>1. CASE \E j \in Items : Submit(o, j)
      BY <1>1, <3>1 DEF Submit
    <3>2. CASE ~\E j \in Items : Submit(o, j)
      BY <1>3, <3>2 DEF FormAnswered, FormFails, WindowPasses, ClearReads, ClearDeletes
    <3>3. QED BY <3>1, <3>2
  <2>3. QED BY <2>1, <2>2 DEF Listed
<1>4. ASSUME NEW o \in Pages, (\E b \in Books : Reload(o, b)) \/ Reopen(o) \/ LoadQueue(o)
      PROVE  i \in doubtful' \/ entered'[i] # NoBook
  <2>1. doubtful \subseteq doubtful' /\ entered' = entered
    BY <1>4 DEF Reload, Reopen, LoadQueue
  <2>2. i \in list[p] \/ (i \in Waiting /\ LoadQueue(o))
    BY <1>1, <1>4 DEF Reload, Reopen, LoadQueue
  <2>3. CASE i \in list[p]
    BY <2>1, <2>3 DEF Listed
  <2>4. CASE i \in Waiting
    BY <2>1, <2>4 DEF IInv, OncePlain, Plain, Waiting
  <2>5. QED BY <2>2, <2>3, <2>4
<1>5. ASSUME NEW r \in Runs, SyncAll(r) \/ (\E j \in Items : SyncOne(r, j)) \/ RunStep(r)
      PROVE  i \in doubtful' \/ entered'[i] # NoBook
  <2>1. list' = list /\ doubtful \subseteq doubtful' /\ entered' = entered
    BY <1>5 DEF SyncAll, Take, SyncOne, RunStep, MarkNext, SendItem, ItemAnswered, ItemFails, Finish
  <2>2. QED BY <2>1 DEF Listed
<1>6. CASE GoOnline \/ GoOffline \/ (\E q \in net : Serve(q) \/ Vanish(q)) \/ \E j \in Items : Discard(j)
  <2>1. list' = list /\ doubtful \subseteq doubtful' /\ entered' = entered
    BY <1>6 DEF GoOnline, Take, GoOffline, Serve, Vanish, Discard
  <2>2. QED BY <2>1 DEF Listed
<1>7. QED BY <1>2, <1>3, <1>4, <1>5, <1>6 DEF Next

\* Every step of the pages, their loops and the server preserves the invariant.
LEMMA StepPreserves == IInv /\ Listed /\ [Next]_vars => IInv'
<1> SUFFICES ASSUME IInv, Listed, [Next]_vars PROVE IInv'
  OBVIOUS
<1>1. CASE UNCHANGED vars
  <2>1. TypeOK'
    BY <1>1 DEF IInv, TypeOK, vars
  <2>2. QED BY <1>1, <2>1, Elsewhere DEF IInv, vars
<1>2. ASSUME NEW p \in Pages,
             \/ \E i \in Items : Submit(p, i)
             \/ \E q \in Mine(p) : FormAnswered(p, q) \/ FormFails(p, q)
             \/ \E b \in Bodies : WindowPasses(p, b)
             \/ \E b \in Books : Reload(p, b)
             \/ ClearReads(p) \/ ClearDeletes(p) \/ Reopen(p) \/ LoadQueue(p)
      PROVE  IInv'
  BY <1>2, SubmitPreserves, FormAnsweredPreserves, FormFailsPreserves, WindowPassesPreserves,
     ReloadPreserves, ClearReadsPreserves, ClearDeletesPreserves, ReopenPreserves,
     LoadQueuePreserves
<1>3. ASSUME NEW r \in Runs, SyncAll(r) \/ (\E i \in Items : SyncOne(r, i)) \/ RunStep(r)
      PROVE  IInv'
  BY <1>3, SyncAllPreserves, SyncOnePreserves, RunStepPreserves
<1>4. ASSUME NEW q \in net, Serve(q) \/ Vanish(q)
      PROVE  IInv'
  BY <1>4, ServePreserves, VanishPreserves
<1>5. QED BY <1>1, <1>2, <1>3, <1>4, GoOnlinePreserves, GoOfflinePreserves, DiscardPreserves DEF Next

\* The invariant holds in every state.
LEMMA Invariance == Spec => []IInv
<1>1. QED BY InitEstablishes, StepPreserves, ListedStays, PTL DEF Spec
-----------------------------------------------------------------------------
(* The theorems *)

\* Every variable keeps its type: the store's five statuses, one place per loop.
THEOREM TypeCorrect == Spec => []TypeOK
<1>1. IInv => TypeOK
  BY DEF IInv
<1>2. QED BY <1>1, Invariance, PTL

\* What the store calls synced is on the server (syncSingleItem).
THEOREM SyncedIsTakenCorrect == Spec => []SyncedIsTaken
<1>1. IInv => SyncedIsTaken
  BY DEF IInv
<1>2. QED BY <1>1, Invariance, PTL

\* "Clear completed" deletes only what the server has (clearSyncedItems).
THEOREM ClearedIsTakenCorrect == Spec => []ClearedIsTaken
<1>1. IInv => ClearedIsTaken
  BY DEF IInv
<1>2. QED BY <1>1, Invariance, PTL

\* No item stays "syncing" but in a loop's hand or behind a page that was closed.
THEOREM SyncingIsHeldCorrect == Spec => []SyncingIsHeld
<1>1. IInv => SyncingIsHeld
  BY DEF IInv
<1>2. QED BY <1>1, Invariance, PTL

\* An item recorded twice is one that two loops had at once, one of whose senders heard no
\* answer, or one sent from a list that still offered it (syncSingleItem, the forms' catch,
\* the Sync page's button).
THEOREM TwiceIsExplainedCorrect == Spec => []TwiceIsExplained
<1>1. ASSUME IInv PROVE TwiceIsExplained
  <2>1. SUFFICES ASSUME NEW i \in Items, Plain(i) PROVE ~(Cardinality(Taken(i)) > 1)
    BY <1>1 DEF TwiceIsExplained, IInv, OncePlain
  <2>2. CASE Taken(i) = {}
    BY <2>2, FS_EmptySet
  <2>3. CASE Taken(i) # {}
    <3>1. PICK x : x \in Taken(i)
      BY <2>3
    <3>2. Taken(i) = {x}
      BY <2>1, <3>1 DEF Plain
    <3>3. Cardinality(Taken(i)) = 1
      BY <3>2, FS_Singleton
    <3>4. QED BY <3>3
  <2>4. QED BY <2>2, <2>3
<1>2. QED BY <1>1, Invariance, PTL

\* An item that has left the store, and that no form is sending, does not come back:
\* an outcome finds no item to write to, and a form is submitted once.
LEMMA GoneStays ==
  ASSUME IInv, NEW i \in Items, Gone(i), [Next]_vars
  PROVE  Gone(i)'
<1>1. entered[i] # NoBook /\ status[i] = "none" /\ \A q \in net : q.from \in Pages => q.item # i
  BY DEF Gone, Mine
<1>2. SUFFICES /\ entered'[i] = entered[i] /\ status'[i] = "none"
               /\ \A o \in net' : o.from \in Pages => o.item # i
  BY <1>1 DEF Gone, Mine
<1>3. /\ net \subseteq Request /\ entered \in [Items -> Books \cup {NoBook}]
      /\ status \in [Items -> {"none", "pending", "syncing", "failed", "synced"}]
  BY DEF IInv, TypeOK
<1>4. \A j \in Items : \A s \in {"syncing", "failed", "synced"} : SetStatus(j, s)[i] = "none"
  BY <1>1, <1>3 DEF SetStatus
<1>5. \A Q \in SUBSET net : \A o \in Orphans(Q) : o.from \notin Pages
  <2>1. ASSUME NEW Q \in SUBSET net, NEW o \in Orphans(Q) PROVE o.from = "nobody"
    BY <1>3, OrphanFacts
  <2>2. "nobody" \notin Pages
    BY OfflineAssumption
  <2>3. QED BY <2>1, <2>2
<1>6. ASSUME UNCHANGED <<entered, net>>, status'[i] = "none"
      PROVE  /\ entered'[i] = entered[i] /\ status'[i] = "none"
             /\ \A o \in net' : o.from \in Pages => o.item # i
  BY <1>1, <1>6
<1>7. CASE \/ UNCHANGED vars \/ GoOnline \/ GoOffline
           \/ \E p \in Pages : (\E b \in Bodies : WindowPasses(p, b)) \/ ClearReads(p) \/ Reopen(p) \/ LoadQueue(p)
           \/ \E r \in Runs : SyncAll(r) \/ Finish(r)
  <2>1. UNCHANGED <<entered, net, status>>
    BY <1>7 DEF vars, GoOnline, GoOffline, WindowPasses, ClearReads, Reopen, LoadQueue, SyncAll, Finish
  <2>2. QED BY <1>1, <1>6, <2>1
<1>8. CASE \/ \E p \in Pages : ClearDeletes(p)
           \/ \E j \in Items : Discard(j)
           \/ \E r \in Runs, j \in Items : SyncOne(r, j) \/ MarkNext(r, j)
  <2>1. CASE \E p \in Pages : ClearDeletes(p)
    BY <1>1, <1>6, <2>1 DEF ClearDeletes
  <2>2. CASE \E j \in Items : Discard(j)
    BY <1>1, <1>3, <1>6, <2>2 DEF Discard
  <2>3. CASE \E r \in Runs, j \in Items : SyncOne(r, j) \/ MarkNext(r, j)
    <3>1. PICK r \in Runs, j \in Items : SyncOne(r, j) \/ MarkNext(r, j)
      BY <2>3
    <3>2. status' = SetStatus(j, "syncing") /\ UNCHANGED <<entered, net>>
      BY <3>1 DEF SyncOne, MarkNext
    <3>3. status'[i] = "none"
      BY <1>4, <3>2
    <3>4. QED BY <1>6, <3>2, <3>3
  <2>4. QED BY <1>8, <2>1, <2>2, <2>3
<1>9. ASSUME NEW p \in Pages, NEW j \in Items, Submit(p, j)
      PROVE  /\ entered'[i] = entered[i] /\ status'[i] = "none"
             /\ \A o \in net' : o.from \in Pages => o.item # i
  <2>1. j # i
    BY <1>1, <1>9 DEF Submit
  <2>2. entered'[i] = entered[i] /\ status'[i] = "none"
    BY <1>1, <1>3, <1>9, <2>1 DEF Submit
  <2>3. CASE online
    <3>1. <<j, "form">> \in Bodies /\ p \in Senders /\ Send(p, p, j, <<j, "form">>)
      BY <1>9, <2>3 DEF Bodies, Senders, Submit
    <3>2. PICK k \in Keys : net' = net \cup {[from |-> p, item |-> j, book |-> at[p], key |-> k,
                                            answer |-> "none"]}
      BY <3>1, SendFacts DEF IInv
    <3>3. QED BY <1>1, <2>1, <2>2, <3>2
  <2>4. CASE ~online
    BY <1>1, <1>9, <2>2, <2>4 DEF Submit
  <2>5. QED BY <2>3, <2>4
<1>10. ASSUME NEW p \in Pages, NEW q \in Mine(p), FormAnswered(p, q) \/ FormFails(p, q)
       PROVE  /\ entered'[i] = entered[i] /\ status'[i] = "none"
              /\ \A o \in net' : o.from \in Pages => o.item # i
  <2>1. q \in net /\ q.item # i /\ {q} \in SUBSET net
    BY <1>1, <1>10 DEF Mine
  <2>2. entered' = entered /\ status'[i] = "none"
    BY <1>1, <1>3, <1>10, <2>1 DEF FormAnswered, FormFails
  <2>3. \A o \in net' : o \in net \/ o.from \notin Pages
    BY <1>5, <1>10, <2>1 DEF FormAnswered, FormFails
  <2>4. QED BY <1>1, <2>2, <2>3
<1>11. ASSUME NEW p \in Pages, NEW b \in Books, Reload(p, b)
       PROVE  /\ entered'[i] = entered[i] /\ status'[i] = "none"
              /\ \A o \in net' : o.from \in Pages => o.item # i
  <2>1. \A o \in net' : o \in net \/ o.from \notin Pages
    BY <1>5, <1>11 DEF Reload
  <2>2. QED BY <1>1, <1>11, <2>1 DEF Reload
<1>12. ASSUME NEW r \in Runs, SendItem(r)
       PROVE  /\ entered'[i] = entered[i] /\ status'[i] = "none"
              /\ \A o \in net' : o.from \in Pages => o.item # i
  <2>1. /\ PageOf[r] \in Pages /\ r \in Senders /\ run[r].item \in Items
        /\ QueueBody(run[r].item) \in Bodies
        /\ Send(PageOf[r], r, run[r].item, QueueBody(run[r].item))
    BY <1>12, OfflineAssumption DEF SendItem, IInv, InHand, Senders, QueueBody, Bodies
  <2>2. PICK k \in Keys : net' = net \cup {[from |-> r, item |-> run[r].item, book |-> at[PageOf[r]],
                                          key |-> k, answer |-> "none"]}
    BY <2>1, SendFacts DEF IInv
  <2>3. UNCHANGED <<entered, status>> /\ r \notin Pages
    BY <1>12, OfflineAssumption DEF SendItem
  <2>4. \A o \in net' : o \in net \/ o.from = r
    BY <2>2
  <2>5. QED BY <1>1, <2>3, <2>4
<1>13. ASSUME NEW r \in Runs, NEW q \in Mine(r), ItemAnswered(r, q) \/ ItemFails(r, q)
       PROVE  /\ entered'[i] = entered[i] /\ status'[i] = "none"
              /\ \A o \in net' : o.from \in Pages => o.item # i
  <2>1. q \in net /\ q.item \in Items /\ {q} \in SUBSET net
    BY <1>3 DEF Mine, Request
  <2>2. entered' = entered /\ status'[i] = "none"
    <3>1. PICK s \in {"synced", "failed"} : status' = SetStatus(q.item, s)
      BY <1>13 DEF ItemAnswered, ItemFails, Outcome
    <3>2. status'[i] = "none"
      BY <1>4, <2>1, <3>1
    <3>3. QED BY <1>13, <3>2 DEF ItemAnswered, ItemFails
  <2>3. \A o \in net' : o \in net \/ o.from \notin Pages
    BY <1>5, <1>13, <2>1 DEF ItemAnswered, ItemFails
  <2>4. QED BY <1>1, <2>2, <2>3
<1>14. ASSUME NEW q \in net, Serve(q) \/ Vanish(q)
       PROVE  /\ entered'[i] = entered[i] /\ status'[i] = "none"
              /\ \A o \in net' : o.from \in Pages => o.item # i
  <2>1. \A a \in {"ok", "refused"} : [q EXCEPT !.answer = a].from = q.from /\ [q EXCEPT !.answer = a].item = q.item
    BY <1>3 DEF Request
  <2>2. \A o \in net' : o \in net \/ (o.from = q.from /\ o.item = q.item)
    BY <1>14, <2>1 DEF Serve, Vanish
  <2>3. QED BY <1>1, <1>14, <2>2 DEF Serve, Vanish
<1>15. QED BY <1>7, <1>8, <1>9, <1>10, <1>11, <1>12, <1>13, <1>14 DEF Next, RunStep

\* A removed item is not brought back by the loop that was sending it (updateItemStatus
\* leaves alone what is not in the store).
THEOREM RemovedStaysRemovedCorrect == Spec => RemovedStaysRemoved
<1>1. IInv /\ [Next]_vars => [\A i \in Items : Gone(i) => Gone(i)']_vars
  BY GoneStays
<1>2. QED BY <1>1, Invariance, PTL DEF Spec, RemovedStaysRemoved
=============================================================================
