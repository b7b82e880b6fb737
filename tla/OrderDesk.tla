------------------------------ MODULE OrderDesk ------------------------------
(***************************************************************************)
(* Dispatching a shop's order: the desk (app/temporders/page.tsx), the     *)
(* edit form (app/temporders/edit/[id]/page.tsx), and the order on the     *)
(* server, whose handlers read the order, decide, and write back only what *)
(* they changed of what they read.                                         *)
(*                                                                         *)
(* One order is followed.  Of an item only whether it is sent is kept: the *)
(* desk always sends a whole quantity.                                     *)
(***************************************************************************)
EXTENDS Naturals, FiniteSets

CONSTANTS
    Items,      \* the items of the order
    Absent,
    MaxCalls,   \* bound: requests on their way at once
    MaxClicks,  \* bound: requests the desk makes
    MaxEdits    \* bound: edits, each of which makes the items anew

VARIABLES
    order,     \* on the server; calm: no two handlers have yet overlapped
    desk,      \* the page: the order in its list, in its dialog, and what is being updated
    calls      \* requests, from the click to the answer

deskVars == <<order, desk, calls>>

View == [status |-> order.status, gen |-> order.gen, sent |-> order.sent]

DeskInit ==
    /\ order = [status |-> "pending", gen |-> 0, sent |-> {}, calm |-> TRUE]
    /\ desk = [list |-> View, dialog |-> Absent, item |-> Absent, all |-> FALSE, clicks |-> 0]
    /\ calls = {}

-----------------------------------------------------------------------------
(* The server *)

Derived(sent) == IF sent = Items THEN "done" ELSE IF sent # {} THEN "partial" ELSE "pending"

Sent(c) ==
    CASE c.kind = "mark" -> c.seen.sent \cup c.items
      [] c.kind = "undo" -> c.seen.sent \ c.items
      [] c.kind = "done" -> Items
      [] c.kind \in {"cancelled", "edit"} -> c.seen.sent

\* Mutant: an item's dispatch leaves the status to "Mark Done".
StatusKept(c) == IF c.kind \in {"done", "cancelled"} THEN c.kind ELSE c.seen.status
Status(c) ==
    CASE c.kind \in {"mark", "undo"} -> Derived(Sent(c))
      [] c.kind \in {"done", "cancelled"} -> c.kind
      [] c.kind = "edit" -> c.seen.status

\* Half an hour after it was made, an order is its owner's no more.
\* Mutant: the age of the order alone decides.
EditableYoung(who) == BOOLEAN
Editable(who) == IF who = "manager" THEN {TRUE} ELSE {order.status = "pending", FALSE}

\* Mutant: only a single item of a cancelled order is refused.
RefusesSingly(c) ==
    \/ c.kind \in {"mark", "undo"} /\ ~c.batch /\ (order.status = "cancelled" \/ c.gen # order.gen)

\* Nothing is dispatched of a cancelled order; an item must be there, but in a batch.
Refuses(c) ==
    \/ c.kind \in {"mark", "undo"} /\ order.status = "cancelled"
    \/ c.kind \in {"mark", "undo"} /\ ~c.batch /\ c.gen # order.gen

Becomes(c, d) == calls' = (calls \ {c}) \cup {d}

\* The handler reads the order.  Items a batch no longer finds are left out.
Read(c) ==
    /\ c.stage = "sent"
    /\ \E editable \in (IF c.kind = "edit" THEN Editable(c.who) ELSE {TRUE}) :
       IF Refuses(c) \/ ~editable
       THEN Becomes(c, [c EXCEPT !.stage = "failed"]) /\ UNCHANGED order
       ELSE /\ Becomes(c, [c EXCEPT !.stage = "read", !.seen = View,
                                    !.items = IF c.gen = order.gen THEN @ ELSE {}])
            /\ order' = [order EXCEPT !.calm = @ /\ \A d \in calls : d.stage # "read"]
    /\ UNCHANGED desk

Touches(c) == (IF c.kind = "undo" THEN c.items \cap c.seen.sent
               ELSE IF c.kind = "mark" THEN c.items
               ELSE IF c.kind = "done" THEN Items ELSE {}) # {}

\* It writes the items and the status it changed; items made anew meanwhile fail it.
Commit(c) ==
    /\ c.stage = "read" /\ c.kind # "edit"
    /\ IF Touches(c) /\ c.seen.gen # order.gen
       THEN Becomes(c, [c EXCEPT !.stage = "failed", !.items = {}, !.seen = Absent]) /\ UNCHANGED order
       ELSE /\ order' = [order EXCEPT
                !.sent = (@ \ (c.seen.sent \ Sent(c))) \cup (Sent(c) \ c.seen.sent),
                !.status = IF Status(c) # c.seen.status THEN Status(c) ELSE @]
            /\ Becomes(c, [c EXCEPT !.stage = "answered", !.items = {},
                !.seen = [status |-> Status(c), gen |-> c.seen.gen, sent |-> Sent(c)]])
    /\ UNCHANGED desk

\* edit_order: the items are deleted and made anew, none of them sent; the status stays.
CommitEdit(c) ==
    /\ c.stage = "read" /\ c.kind = "edit"
    /\ order' = [order EXCEPT !.gen = @ + 1, !.sent = {}]
    /\ Becomes(c, [c EXCEPT !.stage = "answered"])
    /\ UNCHANGED desk

-----------------------------------------------------------------------------
(* The desk *)

Open(v) == v.status \in {"pending", "partial"}

\* A request: what the dialog shows when it is made is what its answer replaces.
Ask(kind, items, batch, gen) ==
    /\ Cardinality(calls) < MaxCalls /\ desk.clicks < MaxClicks
    /\ calls' = calls \cup {[kind |-> kind, items |-> items, batch |-> batch, gen |-> gen,
                             who |-> "manager", stage |-> "sent", heard |-> TRUE,
                             dialog |-> desk.dialog # Absent, seen |-> Absent]}

Expand == desk' = [desk EXCEPT !.dialog = desk.list] /\ UNCHANGED <<order, calls>>
Close ==
    /\ desk.dialog # Absent
    /\ desk' = [desk EXCEPT !.dialog = Absent]
    /\ UNCHANGED <<order, calls>>

\* handleStatusChange, from the list or from the dialog, which only completes.
ChangeStatus(next) ==
    /\ \/ Open(desk.list)
       \/ desk.dialog # Absent /\ next = "done" /\ Open(desk.dialog)
    /\ Ask(next, {}, FALSE, 0)
    /\ desk' = [desk EXCEPT !.clicks = @ + 1]
    /\ UNCHANGED order

\* handleToggleItemDispatch: only the button of the item last clicked is disabled.
Toggle(i) ==
    /\ desk.dialog # Absent /\ desk.dialog.status # "cancelled" /\ desk.item # i
    /\ Ask(IF i \in desk.dialog.sent THEN "undo" ELSE "mark", {i}, FALSE, desk.dialog.gen)
    /\ desk' = [desk EXCEPT !.item = i, !.clicks = @ + 1]
    /\ UNCHANGED order

\* handleMarkAllRemainingItems
MarkAll ==
    /\ desk.dialog # Absent /\ desk.dialog.status # "cancelled" /\ desk.dialog.sent # Items /\ ~desk.all
    /\ Ask("mark", Items \ desk.dialog.sent, TRUE, desk.dialog.gen)
    /\ desk' = [desk EXCEPT !.all = TRUE, !.clicks = @ + 1]
    /\ UNCHANGED order

Idle(c, d) ==
    IF c.kind \notin {"mark", "undo"} THEN d
    ELSE IF c.batch THEN [d EXCEPT !.all = FALSE] ELSE [d EXCEPT !.item = Absent]

\* The answer takes the order's place in the list, and in the dialog when one was open at
\* the click: it opens again if it has been closed since.
Answered(c) ==
    /\ c.stage = "answered" /\ c.kind # "edit"
    /\ calls' = calls \ {c}
    /\ desk' = IF ~c.heard THEN desk
               ELSE Idle(c, [desk EXCEPT !.list = c.seen, !.dialog = IF c.dialog THEN c.seen ELSE @])
    /\ UNCHANGED order

Failed(c) ==
    /\ c.stage = "failed" /\ c.kind # "edit"
    /\ calls' = calls \ {c}
    /\ desk' = IF c.heard THEN Idle(c, desk) ELSE desk
    /\ UNCHANGED order

\* The connection is lost: the page fails, the request may still be served.
Lost(c) ==
    /\ c.kind # "edit" /\ c.heard /\ c.stage \in {"sent", "read"}
    /\ Becomes(c, [c EXCEPT !.heard = FALSE, !.dialog = FALSE])
    /\ desk' = Idle(c, desk)
    /\ UNCHANGED order

\* The page is opened again: fetchData.
Reload ==
    /\ desk' = [desk EXCEPT !.list = View, !.dialog = Absent, !.item = Absent, !.all = FALSE]
    /\ \A c \in calls : c.kind = "edit" \/ ~c.heard
    /\ UNCHANGED <<order, calls>>

-----------------------------------------------------------------------------
(* The edit form *)

\* handleSubmitOrder: it goes whatever has become of the order since the form was loaded,
\* which for its owner was while it could be edited, as at first it could.
SubmitEdit(who) ==
    /\ order.gen < MaxEdits /\ \A c \in calls : c.kind # "edit"
    /\ Cardinality(calls) < MaxCalls
    /\ calls' = calls \cup {[kind |-> "edit", items |-> {}, batch |-> FALSE, gen |-> 0, who |-> who,
                             stage |-> "sent", heard |-> TRUE, dialog |-> FALSE, seen |-> Absent]}
    /\ UNCHANGED <<order, desk>>

\* Back to the list when it is taken; an alert when it is not.
EditAnswered(c) ==
    /\ c.kind = "edit" /\ c.stage \in {"answered", "failed"}
    /\ calls' = calls \ {c}
    /\ UNCHANGED <<order, desk>>

-----------------------------------------------------------------------------
DeskNext ==
    \/ Expand \/ Close \/ MarkAll \/ Reload
    \/ \E next \in {"done", "cancelled"} : ChangeStatus(next)
    \/ \E i \in Items : Toggle(i)
    \/ \E who \in {"owner", "manager"} : SubmitEdit(who)
    \/ \E c \in calls : Read(c) \/ Commit(c) \/ CommitEdit(c) \/ Answered(c) \/ Failed(c) \/ Lost(c)
                        \/ EditAnswered(c)

-----------------------------------------------------------------------------
(* Properties *)

DeskTypeOK ==
    LET Views == [status : {"pending", "partial", "done", "cancelled"}, gen : 0..MaxEdits, sent : SUBSET Items]
    IN  /\ View \in Views /\ order.calm \in BOOLEAN
        /\ desk \in [list : Views, dialog : Views \cup {Absent}, item : Items \cup {Absent}, all : BOOLEAN,
                 clicks : 0..MaxClicks]
            /\ \A c \in calls : c.seen \in Views \cup {Absent} /\ c.items \subseteq Items

\* As long as no two requests overlap on the server, an order that is not cancelled has the
\* status its items give it (recalculate_order_dispatch_state), through dispatches, undone
\* ones, batches from a stale dialog and completions; an edit is the exception.
StatusAddsUp ==
    order.calm /\ order.gen = 0 /\ order.status # "cancelled" => order.status = Derived(order.sent)

\* "If all items are sent (sent_qty >= qty), status becomes 'done'" (routers/orders.py:120).
AllSentIsDone == order.sent = Items /\ order.status # "cancelled" => order.status = "done"

\* As long as no two handlers overlap on the server, nothing more is sent of a cancelled
\* order, from however old a dialog, unless the whole of it is completed from an old list.
CancelledStays ==
    [][ order.calm' /\ order.status = "cancelled"
        => \/ order'.status = "cancelled" /\ order'.sent \subseteq order.sent
           \/ order'.status = "done" /\ order'.sent = Items ]_deskVars

\* As long as no two handlers overlap on the server, the salesperson's own edit, from a form
\* opened before, replaces no item that has been dispatched.  (A dispatch committed between
\* edit_order's check of 'pending' and its delete of the items is lost.)
OwnEditLosesNothing ==
    [][ \A c \in calls : c.who = "owner" /\ c.stage = "read" /\ order.calm /\ order'.gen # order.gen
            => order.sent = {} ]_deskVars
=============================================================================
