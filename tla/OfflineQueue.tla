---------------------------- MODULE OfflineQueue ----------------------------
(***************************************************************************)
(* The web client's offline queue: what a salesperson enters (check-in,    *)
(* order, payment, expense) is sent at once, or kept in the browser's      *)
(* IndexedDB and sent later by the pages that are open.                    *)
(*                                                                         *)
(* The store is shared by every page of the browser; the sending loops,    *)
(* the keys of recent writes and the company a page works in belong to one *)
(* page and die with it.  A request may be lost, may be carried out with   *)
(* its answer lost, or may be carried out after its sender gave up.        *)
(*                                                                         *)
(* The server carries out one idempotency key once (module Idempotency;    *)
(* overlapping identical requests, which it also joins, are left apart     *)
(* here: that only makes fewer records).  It reads X-Client-Id nowhere,    *)
(* and none of the four endpoints answers 409, so that answer is left out. *)
(***************************************************************************)
EXTENDS Naturals, FiniteSets

CONSTANTS
    Items,      \* what is entered: one form filled in once
    Verbatim,   \* those queued with the very body the form sends (orders; photos are recompressed)
    Pages,      \* pages of the browser
    Runs,       \* room for loops running at the same time
    PageOf,     \* the page a loop runs in
    Books,      \* companies a page can work in
    NoBook,
    Keys,       \* idempotency keys (random strings)
    NoKey,
    MaxTries    \* bound: loops that take up one item

ASSUME OfflineAssumption ==
    /\ Verbatim \subseteq Items
    /\ "no item" \notin Items
    /\ IsFiniteSet(Runs)
    /\ PageOf \in [Runs -> Pages]
    /\ NoBook \notin Books
    /\ Runs \cap Pages = {}
    /\ "nobody" \notin Runs \cup Pages
    /\ NoKey \notin Keys
    /\ MaxTries \in Nat

VARIABLES
    online,     \* navigator.onLine
    entered,    \* the company each item was entered in
    status,     \* the store: "none" when the item is not in it
    at,         \* the company of each page (activeCompanyId)
    run,        \* the loops: where each is, its item, and what is left of its snapshot
    busy,       \* syncingAll, the Sync page's flag
    list,       \* the items the Sync page has a "Sync Now" button for (React's queue)
    clearing,   \* what "clear completed" has read and is about to delete
    recent,     \* the idempotency key remembered for a body; NoKey for none (recentWrites)
    net,        \* requests on their way and answers on their way back
    taken,      \* the server's records
    tries,      \* loops that took up each item
    doubtful,   \* history: items two loops had at the same time, whose sender heard no
                \* answer, or sent from a list that did not know they were done with
    cut         \* history: items whose page was closed while it was sending them

vars == <<online, entered, status, at, run, busy, clearing, recent, net, taken, tries,
          doubtful, cut, list>>

Senders == Runs \cup Pages
NoItem == "no item"
Bodies == Items \X {"form", "queue"}
Loop == [phase : {"idle", "next", "marked", "sent"}, item : Items \cup {NoItem},
         todo : SUBSET Items, all : BOOLEAN, flag : BOOLEAN]
Request == [from : Senders \cup {"nobody"}, item : Items, book : Books, key : Keys,
            answer : {"none", "ok", "refused"}]

\* The body an item is sent with from the queue.
QueueBody(i) == IF i \in Verbatim THEN <<i, "form">> ELSE <<i, "queue">>

\* Mutant: the item is put without looking whether it is there.
SetStatusAnyway(i, s) == [status EXCEPT ![i] = s]

\* updateItemStatus: an item that has been removed is left alone.
SetStatus(i, s) == IF status[i] = "none" THEN status ELSE [status EXCEPT ![i] = s]

\* Mutant: everything is sent that is not being sent.
WaitingAll == {i \in Items : status[i] \notin {"none", "syncing"}}

Waiting == {i \in Items : status[i] \in {"pending", "failed"}}
Idle(r) == run[r].phase = "idle"
Has(r, i) == i \in run[r].todo \/ run[r].item = i
HeldBy(p) == {r \in Runs : PageOf[r] = p}
Mine(s) == {q \in net : q.from = s}
Taken(i) == {r \in taken : r.item = i}

Init ==
    /\ online \in BOOLEAN
    /\ entered = [i \in Items |-> NoBook]
    /\ status = [i \in Items |-> "none"]
    /\ at \in [Pages -> Books]
    /\ run = [r \in Runs |-> [phase |-> "idle", item |-> NoItem, todo |-> {}, all |-> FALSE, flag |-> FALSE]]
    /\ busy = [p \in Pages |-> FALSE]
    /\ clearing = [p \in Pages |-> {}]
    /\ recent = [p \in Pages |-> [b \in Bodies |-> NoKey]]
    /\ net = {}
    /\ taken = {}
    /\ tries = [i \in Items |-> 0]
    /\ list = [p \in Pages |-> {}]
    /\ doubtful = {} /\ cut = {}

-----------------------------------------------------------------------------
(* Sending, and the server *)

\* A random key: one that no page remembers, no request carries and no record has.
UsedKeys(i) == {recent[p][b] : p \in Pages, b \in {i} \X {"form", "queue"}}
                 \cup {q.key : q \in {o \in net : o.item = i}} \cup {r.key : r \in Taken(i)}
FreshKey(i) == CHOOSE k \in Keys : k \notin UsedKeys(i)

\* withIdempotencyKey: the key of the same body sent moments ago, or a new one.
KeyOf(p, i, body) == IF recent[p][body] # NoKey THEN recent[p][body] ELSE FreshKey(i)

\* The fetch wrapper adds the key and the company of the page.
Send(p, s, i, body) ==
    /\ Keys \ UsedKeys(i) # {}    \* bound: keys in use at once
    /\ recent' = [recent EXCEPT ![p][body] = KeyOf(p, i, body)]
    /\ net' = net \cup {[from |-> s, item |-> i, book |-> at[p], key |-> KeyOf(p, i, body),
                         answer |-> "none"]}

\* SAME_WRITE_WINDOW_MS after a key was made, the page forgets it.
WindowPasses(p, b) ==
    /\ recent[p][b] # NoKey
    /\ recent' = [recent EXCEPT ![p][b] = NoKey]
    /\ UNCHANGED <<online, entered, status, at, run, busy, clearing, net, taken, tries, doubtful, cut, list>>

\* The server carries a request out once per key; the answer of a request nobody
\* waits for goes nowhere.
Serve(q) ==
    LET known == \E r \in Taken(q.item) : r.key = q.key
        back(a) == IF q.from = "nobody" THEN {} ELSE {[q EXCEPT !.answer = a]} IN
    /\ q.answer = "none"
    /\ \/ /\ taken' = IF known THEN taken
                      ELSE taken \cup {[item |-> q.item, book |-> q.book, key |-> q.key]}
          /\ net' = (net \ {q}) \cup back("ok")
       \/ /\ ~known
          /\ net' = (net \ {q}) \cup back("refused")
          /\ UNCHANGED taken
    /\ UNCHANGED <<online, entered, status, at, run, busy, clearing, recent, tries, doubtful, cut, list>>

\* A request nobody waits for never reaches the server.
Vanish(q) ==
    /\ q.from = "nobody"
    /\ net' = net \ {q}
    /\ UNCHANGED <<online, entered, status, at, run, busy, clearing, recent, taken, tries,
                   doubtful, cut, list>>

\* A request without an answer goes on without its sender.
Orphans(Q) == {[q EXCEPT !.from = "nobody"] : q \in {o \in Q : o.answer = "none"}}

-----------------------------------------------------------------------------
(* The forms: check-in, order, payment, expense *)

\* Submitting a form: to the server, or to the store when the device is offline.
Submit(p, i) ==
    /\ Mine(p) = {}
    /\ entered[i] = NoBook
    /\ entered' = [entered EXCEPT ![i] = at[p]]
    /\ IF online
       THEN Send(p, p, i, <<i, "form">>) /\ UNCHANGED status
       ELSE status' = [status EXCEPT ![i] = "pending"] /\ UNCHANGED <<recent, net>>
    /\ UNCHANGED <<online, at, run, busy, clearing, taken, tries, doubtful, cut, list>>

\* The server answered: the form is done, or shows what was refused.
FormAnswered(p, q) ==
    /\ q.answer # "none"
    /\ net' = net \ {q}
    /\ UNCHANGED <<online, entered, status, at, run, busy, clearing, recent, taken, tries,
                   doubtful, cut, list>>

\* "Failed to fetch": the form's item goes to the store, whether or not it arrived.
FormFails(p, q) ==
    /\ status' = [status EXCEPT ![q.item] = "pending"]
    /\ net' = (net \ {q}) \cup Orphans({q})
    /\ doubtful' = doubtful \cup {q.item}
    /\ UNCHANGED <<online, entered, at, run, busy, clearing, recent, taken, tries, cut, list>>

-----------------------------------------------------------------------------
(* The loops: auto-sync, "Sync all" and "Sync" on one item *)

\* Loops starting together take the same snapshot of what waits.
Take(S) ==
    /\ \A i \in Waiting : tries[i] + Cardinality(S) <= MaxTries
    /\ run' = [r \in Runs |->
                 IF r \in S THEN [phase |-> "next", item |-> NoItem, todo |-> Waiting,
                               all |-> TRUE, flag |-> TRUE]
                 ELSE run[r]]
    /\ busy' = [p \in Pages |-> busy[p] \/ \E r \in S : PageOf[r] = p]
    /\ tries' = [i \in Items |-> IF i \in Waiting THEN tries[i] + Cardinality(S) ELSE tries[i]]
    /\ doubtful' = doubtful \cup {i \in Waiting : Cardinality(S) > 1 \/ \E r \in Runs : Has(r, i)}

\* The connection comes back: each page that listens for it starts a loop, and
\* does not look whether one is running.
GoOnline ==
    /\ ~online
    /\ online' = TRUE
    /\ \E S \in SUBSET {r \in Runs : Idle(r)} :
         /\ \A r, o \in S : PageOf[r] = PageOf[o] => r = o
         /\ IF Waiting = {} THEN UNCHANGED <<run, busy, tries, doubtful>> ELSE Take(S)
    /\ UNCHANGED <<entered, status, at, clearing, recent, net, taken, cut, list>>

GoOffline ==
    /\ online
    /\ online' = FALSE
    /\ UNCHANGED <<entered, status, at, run, busy, clearing, recent, net, taken, tries, doubtful, cut, list>>

\* The "Sync all" button, which is off while the page's flag is up.
SyncAll(r) ==
    /\ Idle(r)
    /\ online
    /\ ~busy[PageOf[r]]
    /\ Waiting # {}
    /\ Take({r})
    /\ UNCHANGED <<online, entered, status, at, clearing, recent, net, taken, cut, list>>

\* The Sync page reads the store again: on opening, and some time after each change
\* made in this page (no other page's changes are announced to it).
LoadQueue(p) ==
    /\ list[p] # Waiting
    /\ list' = [list EXCEPT ![p] = Waiting]
    /\ UNCHANGED <<online, entered, status, at, run, busy, clearing, recent, net, taken, tries,
                   doubtful, cut>>

\* "Sync Now" on an item, as the page's own list has it: off while that says "syncing".
SyncOne(r, i) ==
    /\ Idle(r)
    /\ online
    /\ i \in list[PageOf[r]]
    /\ tries[i] < MaxTries
    /\ status' = SetStatus(i, "syncing")
    /\ run' = [run EXCEPT ![r] = [phase |-> "marked", item |-> i, todo |-> {}, all |-> FALSE, flag |-> FALSE]]
    /\ tries' = [tries EXCEPT ![i] = @ + 1]
    /\ doubtful' = IF status[i] \in {"synced", "none"} \/ \E o \in Runs : Has(o, i)
                   THEN doubtful \cup {i} ELSE doubtful
    /\ UNCHANGED <<online, entered, at, busy, clearing, recent, net, taken, cut, list>>

\* The loop goes on to another item of its snapshot, whatever became of it since.
MarkNext(r, i) ==
    /\ run[r].phase = "next"
    /\ i \in run[r].todo
    /\ status' = SetStatus(i, "syncing")
    /\ run' = [run EXCEPT ![r].phase = "marked", ![r].item = i, ![r].todo = @ \ {i}]
    /\ UNCHANGED <<online, entered, at, busy, clearing, recent, net, taken, tries, doubtful, cut, list>>

\* The request leaves.
SendItem(r) ==
    /\ run[r].phase = "marked"
    /\ run' = [run EXCEPT ![r].phase = "sent"]
    /\ Send(PageOf[r], r, run[r].item, QueueBody(run[r].item))
    /\ UNCHANGED <<online, entered, status, at, busy, clearing, taken, tries, doubtful,
                   cut, list>>

\* Mutant: nothing tells the loop that the item is done.
GoOnNot(r) == run' = [run EXCEPT ![r].item = NoItem]

\* After an item, a loop takes the next one and a single sync is over.
GoOn(r) == run' = [run EXCEPT ![r].phase = IF run[r].all THEN "next" ELSE "idle",
                              ![r].item = NoItem]

\* Mutant: an answer is an answer (the status is not looked at).
OutcomeAny(answer) == "synced"

Outcome(answer) == IF answer = "ok" THEN "synced" ELSE "failed"

ItemAnswered(r, q) ==
    /\ q.answer # "none"
    /\ status' = SetStatus(q.item, Outcome(q.answer))
    /\ net' = net \ {q}
    /\ GoOn(r)
    /\ UNCHANGED <<online, entered, at, busy, clearing, recent, taken, tries, doubtful,
                   cut, list>>

\* Mutant: the exception passes, and the status stays as it was.
ItemThrows(r, q) ==
    /\ net' = (net \ {q}) \cup Orphans({q})
    /\ doubtful' = doubtful \cup {q.item}
    /\ GoOn(r)
    /\ UNCHANGED <<online, entered, status, at, busy, clearing, recent, taken, tries, cut, list>>

\* The fetch throws: the request was lost, or its answer was.
ItemFails(r, q) ==
    /\ status' = SetStatus(q.item, "failed")
    /\ net' = (net \ {q}) \cup Orphans({q})
    /\ doubtful' = doubtful \cup {q.item}
    /\ GoOn(r)
    /\ UNCHANGED <<online, entered, at, busy, clearing, recent, taken, tries, cut, list>>

\* The end of a loop lowers the flag it raised, also when another loop still runs there.
Finish(r) ==
    /\ run[r].phase = "next"
    /\ run[r].todo = {}
    /\ run' = [run EXCEPT ![r].phase = "idle", ![r].all = FALSE, ![r].flag = FALSE]
    /\ busy' = [busy EXCEPT ![PageOf[r]] = @ /\ ~run[r].flag]
    /\ UNCHANGED <<online, entered, status, at, clearing, recent, net, taken, tries, doubtful, cut, list>>

-----------------------------------------------------------------------------
(* The user: discarding, clearing, and leaving the page *)

Discard(i) ==
    /\ status[i] # "none"
    /\ status' = [status EXCEPT ![i] = "none"]
    /\ UNCHANGED <<online, entered, at, run, busy, clearing, recent, net, taken, tries, doubtful, cut, list>>

\* Mutant: what has been tried counts as completed.
ClearReadsTried(p) ==
    /\ clearing[p] = {}
    /\ clearing' = [clearing EXCEPT ![p] = {i \in Items : status[i] \in {"synced", "failed"}}]
    /\ UNCHANGED <<online, entered, status, at, run, busy, recent, net, taken, tries, doubtful, cut, list>>

\* "Clear completed" reads what is synced, then deletes it in a second transaction.
ClearReads(p) ==
    /\ clearing[p] = {}
    /\ clearing' = [clearing EXCEPT ![p] = {i \in Items : status[i] = "synced"}]
    /\ UNCHANGED <<online, entered, status, at, run, busy, recent, net, taken, tries, doubtful, cut, list>>

ClearDeletes(p) ==
    /\ clearing[p] # {}
    /\ status' = [i \in Items |-> IF i \in clearing[p] THEN "none" ELSE status[i]]
    /\ clearing' = [clearing EXCEPT ![p] = {}]
    /\ UNCHANGED <<online, entered, at, run, busy, recent, net, taken, tries, doubtful,
                   cut, list>>

\* The Sync page is left for another screen of the app and opened again: its flag
\* is a new one, its list is read anew, and the loops it started run on.
Reopen(p) ==
    /\ busy[p]
    /\ busy' = [busy EXCEPT ![p] = FALSE]
    /\ list' = [list EXCEPT ![p] = {}]
    /\ run' = [r \in Runs |-> IF PageOf[r] = p THEN [run[r] EXCEPT !.flag = FALSE] ELSE run[r]]
    /\ UNCHANGED <<online, entered, status, at, clearing, recent, net, taken, tries, doubtful, cut>>

\* The page is closed, reloaded, or reloads itself in another company: its loops and
\* its form end where they are, its keys are forgotten, its requests go on alone.
Reload(p, b) ==
    LET mine == {q \in net : q.from \in HeldBy(p) \cup {p}} IN
    /\ at' = [at EXCEPT ![p] = b]
    /\ cut' = cut \cup {i \in Items : \E r \in HeldBy(p) : run[r].item = i}
    /\ doubtful' = doubtful \cup {q.item : q \in mine}
    /\ net' = (net \ mine) \cup Orphans(mine)
    /\ run' = [r \in Runs |->
                 IF PageOf[r] # p THEN run[r]
                 ELSE [phase |-> "idle", item |-> NoItem, todo |-> {}, all |-> FALSE, flag |-> FALSE]]
    /\ busy' = [busy EXCEPT ![p] = FALSE]
    /\ clearing' = [clearing EXCEPT ![p] = {}]
    /\ recent' = [recent EXCEPT ![p] = [c \in Bodies |-> NoKey]]
    /\ list' = [list EXCEPT ![p] = {}]
    /\ UNCHANGED <<online, entered, status, taken, tries>>

-----------------------------------------------------------------------------
RunStep(r) ==
    \/ \E i \in Items : MarkNext(r, i)
    \/ SendItem(r)
    \/ \E q \in Mine(r) : ItemAnswered(r, q) \/ ItemFails(r, q)
    \/ Finish(r)

Next ==
    \/ GoOnline \/ GoOffline
    \/ \E p \in Pages : \/ \E i \in Items : Submit(p, i)
                        \/ \E q \in Mine(p) : FormAnswered(p, q) \/ FormFails(p, q)
                        \/ \E b \in Bodies : WindowPasses(p, b)
                        \/ \E b \in Books : Reload(p, b)
                        \/ ClearReads(p) \/ ClearDeletes(p) \/ Reopen(p) \/ LoadQueue(p)
    \/ \E r \in Runs : \/ SyncAll(r)
                       \/ \E i \in Items : SyncOne(r, i)
                       \/ RunStep(r)
    \/ \E q \in net : Serve(q) \/ Vanish(q)
    \/ \E i \in Items : Discard(i)

Spec == Init /\ [][Next]_vars

\* The browser runs the code of an open page on, and a fetch ends, in an answer or
\* an error.  Nothing is asked of the user, of the server or of the connection.
FairSpec == Spec /\ \A r \in Runs : WF_vars(RunStep(r))

-----------------------------------------------------------------------------
(* Properties *)

TypeOK ==
    /\ online \in BOOLEAN
    /\ entered \in [Items -> Books \cup {NoBook}]
    /\ status \in [Items -> {"none", "pending", "syncing", "failed", "synced"}]
    /\ at \in [Pages -> Books]
    /\ run \in [Runs -> Loop]
    /\ busy \in [Pages -> BOOLEAN]
    /\ clearing \in [Pages -> SUBSET Items]
    /\ recent \in [Pages -> [Bodies -> Keys \cup {NoKey}]]
    /\ net \subseteq Request
    /\ taken \subseteq [item : Items, book : Books, key : Keys]
    /\ tries \in [Items -> 0 .. MaxTries]
    /\ list \in [Pages -> SUBSET Items]
    /\ doubtful \subseteq Items /\ cut \subseteq Items

\* What the store calls synced is on the server, however many loops sent it, in
\* whatever order their answers came (syncSingleItem).
SyncedIsTaken == \A i \in Items : status[i] = "synced" => Taken(i) # {}

\* "Clear completed" deletes only what the server has, also when another loop has
\* made the item something else between its two transactions (clearSyncedItems).
ClearedIsTaken == \A p \in Pages : \A i \in clearing[p] : Taken(i) # {}

\* An item is left "syncing", which no loop retries and no count shows, only while
\* a loop is sending it, or after its page was closed in the middle.
SyncingIsHeld ==
    \A i \in Items : status[i] = "syncing" => \/ \E r \in Runs : run[r].item = i
                                             \/ i \in cut

\* What keeps an item from being recorded twice is not X-Client-Id but that its
\* sender heard an answer, that no two loops had it at once, and that no "Sync Now" was
\* pressed in a list that still offered what was synced or gone: with all three, one record.
TwiceIsExplained ==
    \A i \in Items : Cardinality(Taken(i)) > 1 => i \in doubtful

\* Entered, not in the store and not being sent by its form.
Gone(i) == /\ entered[i] # NoBook
           /\ status[i] = "none"
           /\ \A p \in Pages : \A q \in Mine(p) : q.item # i

\* A removed item is not brought back by the outcome of the loop that was sending it.
RemovedStaysRemoved ==
    [][\A i \in Items : Gone(i) => Gone(i)']_vars

\* A loop ends, and its buttons come back, whatever becomes of what it sends: refused,
\* lost, discarded meanwhile or sent by another loop.
LoopEnds == \A r \in Runs : run[r].phase # "idle" ~> run[r].phase = "idle"

\* "safe retry, duplicate prevention" (offline-storage.ts:4).
RecordedOnce == \A i \in Items : Cardinality(Taken(i)) <= 1
=============================================================================
