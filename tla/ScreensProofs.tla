---------------------------- MODULE ScreensProofs ---------------------------
(***************************************************************************)
(* What the order desk, the voucher form and the tracking of a field       *)
(* worker guarantee, as MCScreens instantiates them, for any items,        *)
(* requests and edits of an order, any number of changes and amounts in a  *)
(* voucher, and any number of starts and shifts.  Each page has an         *)
(* inductive invariant of its own; with the checkout's (CheckoutProofs)    *)
(* they give the types of the whole.                                       *)
(***************************************************************************)
EXTENDS CheckoutProofs, WellFoundedInduction

-----------------------------------------------------------------------------
(* OrderDesk: the invariant *)

Statuses == {"pending", "partial", "done", "cancelled"}
Views == [status : Statuses, gen : 0..MaxEdits, sent : SUBSET Items]
ServedOrders == [status : Statuses, gen : 0..MaxEdits, sent : SUBSET Items, calm : BOOLEAN]
Desks == [list : Views, dialog : Views \cup {Absent}, item : Items \cup {Absent}, all : BOOLEAN,
          clicks : 0..MaxClicks]
Calls == [kind : {"mark", "undo", "done", "cancelled", "edit"}, items : SUBSET Items, batch : BOOLEAN,
          gen : 0..MaxEdits, who : {"owner", "manager"}, stage : {"sent", "read", "answered", "failed"},
          heard : BOOLEAN, dialog : BOOLEAN, seen : Views \cup {Absent}]

\* A request that has been read or answered has seen the order.
DeskTypes ==
  /\ order \in ServedOrders /\ desk \in Desks /\ calls \subseteq Calls
  /\ \A c \in calls : c.stage \in {"read", "answered"} => c.seen \in Views

\* One edit at a time is on its way, and it has its place among the bounded number; the
\* owner sends nothing else.
OneEdit ==
  /\ \A c, d \in calls : c.kind = "edit" /\ d.kind = "edit" => c = d
  /\ \A c \in calls : c.kind = "edit" /\ c.stage \in {"sent", "read"} => order.gen < MaxEdits
  /\ \A c \in calls : c.who = "owner" => c.kind = "edit"

\* A handler past its checks has seen an order that passed them.
PassedChecks ==
  \A c \in calls : c.stage = "read" =>
     /\ c.kind \in {"mark", "undo"} => c.seen.status # "cancelled"
     /\ c.who = "owner" => c.seen.status = "pending"

\* As long as no two handlers have overlapped, the one that has read the order is alone, and
\* what it has seen is the order.
ReadsAlone ==
  order.calm => /\ \A c, d \in calls : c.stage = "read" /\ d.stage = "read" => c = d
                /\ \A c \in calls : c.stage = "read" => c.seen = D!View

\* So far, of a pending order nothing has been sent, edited or not.
PendingUnsent == order.calm /\ order.status = "pending" => order.sent = {}

DeskIInv == DeskTypes /\ OneEdit /\ PassedChecks /\ ReadsAlone /\ PendingUnsent /\ StatusAddsUp

-----------------------------------------------------------------------------
(* OrderDesk: facts *)

\* The invariant says more than the page's type invariant.
LEMMA DeskIInvImplies == ASSUME DeskIInv PROVE D!DeskTypeOK
  BY DEF DeskIInv, DeskTypes, D!DeskTypeOK, D!View, ServedOrders, Desks, Views, Calls, Statuses

\* What the page sees of the order is a view of it.
LEMMA ViewType == ASSUME DeskIInv PROVE D!View \in Views
  BY DEF DeskIInv, DeskTypes, D!View, ServedOrders, Views

\* Requests that end, and changes of the page alone, change nothing the invariant is about.
LEMMA FewerPreserves ==
  ASSUME DeskIInv, calls' \subseteq calls, UNCHANGED order, desk' \in Desks
  PROVE  DeskIInv'
<1>1. DeskTypes' /\ OneEdit' /\ PassedChecks'
  BY DEF DeskIInv, DeskTypes, OneEdit, PassedChecks
<1>2. ReadsAlone' /\ PendingUnsent' /\ StatusAddsUp'
  BY DEF DeskIInv, ReadsAlone, PendingUnsent, StatusAddsUp, D!StatusAddsUp, D!View
<1>3. QED BY <1>1, <1>2 DEF DeskIInv

\* A request on its way has read nothing; an edit needs its place.
LEMMA AskedPreserves ==
  ASSUME DeskIInv, NEW new \in Calls, calls' = calls \cup {new}, new.stage = "sent",
         new.kind = "edit" => order.gen < MaxEdits /\ \A c \in calls : c.kind # "edit",
         new.who = "owner" => new.kind = "edit",
         UNCHANGED order, desk' \in Desks
  PROVE  DeskIInv'
<1>1. DeskTypes'
  BY DEF DeskIInv, DeskTypes
<1>2. OneEdit'
  BY DEF DeskIInv, OneEdit
<1>3. PassedChecks' /\ ReadsAlone' /\ PendingUnsent' /\ StatusAddsUp'
  BY DEF DeskIInv, PassedChecks, ReadsAlone, PendingUnsent, StatusAddsUp, D!StatusAddsUp, D!View
<1>4. QED BY <1>1, <1>2, <1>3 DEF DeskIInv

\* A request takes its next stage: what has to hold of it for the invariant to be kept,
\* when the order stays what it is.
LEMMA MovedPreserves ==
  ASSUME DeskIInv, NEW c \in calls, NEW d \in Calls, D!Becomes(c, d),
         d.kind = c.kind, d.who = c.who, UNCHANGED order, desk' \in Desks,
         d.stage \in {"sent", "read", "failed"},
         d.stage \in {"sent", "read"} => d.stage = c.stage /\ d.seen = c.seen
  PROVE  DeskIInv'
<1>1. calls' = (calls \ {c}) \cup {d}
  BY DEF D!Becomes
<1>2. DeskTypes' /\ OneEdit' /\ PassedChecks'
  BY <1>1 DEF DeskIInv, DeskTypes, OneEdit, PassedChecks
<1>3. ReadsAlone' /\ PendingUnsent' /\ StatusAddsUp'
  BY <1>1 DEF DeskIInv, ReadsAlone, PendingUnsent, StatusAddsUp, D!StatusAddsUp, D!View
<1>4. QED BY <1>2, <1>3 DEF DeskIInv

\* What a handler makes of the items and the status it has seen.
LEMMA CommittedFacts ==
  ASSUME NEW c \in Calls, c.seen \in Views, c.kind # "edit"
  PROVE  /\ D!Sent(c) \in SUBSET Items /\ D!Status(c) \in Statuses
         /\ c.kind \in {"mark", "undo"} => D!Status(c) = D!Derived(D!Sent(c))
         /\ c.kind = "done" => D!Sent(c) = Items /\ D!Status(c) = "done"
         /\ c.kind = "cancelled" => D!Sent(c) = c.seen.sent /\ D!Status(c) = "cancelled"
<1>1. c.kind \in {"mark", "undo", "done", "cancelled"} /\ c.items \in SUBSET Items /\ c.seen.sent \in SUBSET Items
  BY DEF Calls, Views
<1>2. D!Sent(c) \in SUBSET Items /\ (c.kind = "done" => D!Sent(c) = Items)
      /\ (c.kind = "cancelled" => D!Sent(c) = c.seen.sent)
  BY <1>1 DEF D!Sent
<1>3. D!Derived(D!Sent(c)) \in Statuses
  BY DEF D!Derived, Statuses
<1>4. QED BY <1>1, <1>2, <1>3 DEF D!Status, Statuses

-----------------------------------------------------------------------------
(* OrderDesk: every step keeps the invariant *)

\* A new order is pending and whole.
LEMMA DeskInitEstablishes == D!DeskInit => DeskIInv
<1> SUFFICES ASSUME D!DeskInit PROVE DeskIInv
  OBVIOUS
<1>1. order \in ServedOrders /\ order.status = "pending" /\ order.sent = {} /\ calls = {}
  BY DeskAssumption DEF D!DeskInit, ServedOrders, Statuses
<1>2. desk \in Desks
  BY <1>1, DeskAssumption DEF D!DeskInit, Desks, Views, D!View, ServedOrders
<1>3. order.status = D!Derived(order.sent)
  BY <1>1, DeskAssumption DEF D!Derived
<1>4. QED
  BY <1>1, <1>2, <1>3 DEF DeskIInv, DeskTypes, OneEdit, PassedChecks, ReadsAlone, PendingUnsent,
                          StatusAddsUp, D!StatusAddsUp

\* A handler reads the order: it is refused, or sees the order as it is.
LEMMA ReadPreserves ==
  ASSUME DeskIInv, NEW c \in calls, D!Read(c) PROVE DeskIInv'
<1>1. /\ c \in Calls /\ c.stage = "sent" /\ UNCHANGED desk /\ desk \in Desks /\ order \in ServedOrders
      /\ c.items \in SUBSET Items
  BY DEF DeskIInv, DeskTypes, D!Read, Calls
<1>2. CASE D!Becomes(c, [c EXCEPT !.stage = "failed"]) /\ UNCHANGED order
  <2> DEFINE d == [c EXCEPT !.stage = "failed"]
  <2>1. d \in Calls /\ d.kind = c.kind /\ d.who = c.who /\ d.stage = "failed"
    BY <1>1 DEF Calls
  <2> HIDE DEF d
  <2>2. QED BY <1>1, <1>2, <2>1, MovedPreserves DEF d
<1>3. CASE ~D!Refuses(c) /\ (c.kind = "edit" => TRUE \in D!Editable(c.who))
           /\ D!Becomes(c, [c EXCEPT !.stage = "read", !.seen = D!View,
                                     !.items = IF c.gen = order.gen THEN @ ELSE {}])
           /\ order' = [order EXCEPT !.calm = @ /\ \A e \in calls : e.stage # "read"]
  <2> DEFINE d == [c EXCEPT !.stage = "read", !.seen = D!View,
                            !.items = IF c.gen = order.gen THEN @ ELSE {}]
             alone == \A e \in calls : e.stage # "read"
  <2>1. D!View \in Views
    BY ViewType
  <2>2. /\ d \in Calls /\ d.kind = c.kind /\ d.who = c.who /\ d.stage = "read" /\ d.seen = D!View
    BY <1>1, <2>1 DEF Calls
  <2>3. calls' = (calls \ {c}) \cup {d}
    BY <1>3 DEF D!Becomes
  <2> HIDE DEF d
  <2>4. /\ order' \in ServedOrders /\ order'.status = order.status /\ order'.gen = order.gen
        /\ order'.sent = order.sent /\ order'.calm = (order.calm /\ alone)
    BY <1>1, <1>3 DEF ServedOrders
  <2>5. D!View' = D!View
    BY <2>4 DEF D!View
  <2> HIDE DEF alone
  <2>6. DeskTypes'
    BY <1>1, <2>1, <2>2, <2>3, <2>4 DEF DeskIInv, DeskTypes
  <2>7. OneEdit'
    BY <1>1, <2>2, <2>3, <2>4 DEF DeskIInv, OneEdit
  <2>8. PassedChecks'
    <3>1. c.kind \in {"mark", "undo"} => d.seen.status # "cancelled"
      BY <1>3, <2>2 DEF D!Refuses, D!View
    <3>2. c.who = "owner" => d.seen.status = "pending"
      <4>1. c.who = "owner" => TRUE \in D!Editable("owner")
        BY <1>3 DEF DeskIInv, OneEdit
      <4>2. D!Editable("owner") = {order.status = "pending", FALSE}
        BY DEF D!Editable
      <4>3. c.who = "owner" => TRUE \in {order.status = "pending", FALSE}
        BY <4>1, <4>2, Zenon
      <4>4. c.who = "owner" => order.status = "pending"
        BY <4>3, Zenon
      <4>5. d.seen.status = order.status
        BY <2>2 DEF D!View
      <4>6. QED BY <4>4, <4>5
    <3>3. QED BY <2>2, <2>3, <3>1, <3>2 DEF DeskIInv, PassedChecks
  <2>9. ReadsAlone'
    BY <2>2, <2>3, <2>4, <2>5 DEF ReadsAlone, alone
  <2>10. PendingUnsent' /\ StatusAddsUp'
    BY <2>4 DEF DeskIInv, PendingUnsent, StatusAddsUp, D!StatusAddsUp
  <2>11. QED BY <2>6, <2>7, <2>8, <2>9, <2>10 DEF DeskIInv
<1>4. QED BY <1>2, <1>3 DEF D!Read

\* What a handler that has not overlapped leaves of the order: what it has decided.
LEMMA CommitSets ==
  ASSUME DeskIInv, NEW c \in calls, D!Commit(c), order' # order
  PROVE  /\ c.stage = "read" /\ c.kind # "edit" /\ c.seen \in Views /\ UNCHANGED desk
         /\ order' \in ServedOrders /\ order'.gen = order.gen /\ order'.calm = order.calm
         /\ calls' = (calls \ {c}) \cup
               {[c EXCEPT !.stage = "answered", !.items = {},
                          !.seen = [status |-> D!Status(c), gen |-> c.seen.gen, sent |-> D!Sent(c)]]}
         /\ order.calm => /\ c.seen = D!View
                          /\ order'.sent = D!Sent(c) /\ order'.status = D!Status(c)
<1>1. c \in Calls /\ c.stage = "read" /\ c.kind # "edit" /\ c.seen \in Views /\ order \in ServedOrders
      /\ UNCHANGED desk
  BY DEF DeskIInv, DeskTypes, D!Commit
<1>2. D!Sent(c) \in SUBSET Items /\ D!Status(c) \in Statuses
  BY <1>1, CommittedFacts
<1>3. /\ order' = [order EXCEPT
                !.sent = (@ \ (c.seen.sent \ D!Sent(c))) \cup (D!Sent(c) \ c.seen.sent),
                !.status = IF D!Status(c) # c.seen.status THEN D!Status(c) ELSE @]
      /\ calls' = (calls \ {c}) \cup
            {[c EXCEPT !.stage = "answered", !.items = {},
                       !.seen = [status |-> D!Status(c), gen |-> c.seen.gen, sent |-> D!Sent(c)]]}
  BY DEF D!Commit, D!Becomes
<1> DEFINE S == D!Sent(c)
           St == D!Status(c)
<1> HIDE DEF S, St
<1>4. /\ order'.sent = (order.sent \ (c.seen.sent \ S)) \cup (S \ c.seen.sent)
      /\ order'.status = (IF St # c.seen.status THEN St ELSE order.status)
      /\ order'.gen = order.gen /\ order'.calm = order.calm
      /\ order' \in ServedOrders
  BY <1>1, <1>2, <1>3 DEF ServedOrders, S, St
<1>5. order.calm => c.seen = D!View
  BY <1>1 DEF DeskIInv, ReadsAlone
<1>6. c.seen = D!View => order'.sent = S /\ order'.status = St
  BY <1>4 DEF D!View
<1>7. QED BY <1>1, <1>3, <1>4, <1>5, <1>6 DEF S, St

\* A handler writes what it has decided, or finds the items made anew.
LEMMA CommitPreserves ==
  ASSUME DeskIInv, NEW c \in calls, D!Commit(c) PROVE DeskIInv'
<1>1. /\ c \in Calls /\ c.stage = "read" /\ c.kind # "edit" /\ c.seen \in Views
      /\ UNCHANGED desk /\ desk \in Desks
  BY DEF DeskIInv, DeskTypes, D!Commit
<1>2. D!Sent(c) \in SUBSET Items /\ D!Status(c) \in Statuses
  BY <1>1, CommittedFacts
<1> DEFINE f == [c EXCEPT !.stage = "failed", !.items = {}, !.seen = Absent]
           d == [c EXCEPT !.stage = "answered", !.items = {},
                          !.seen = [status |-> D!Status(c), gen |-> c.seen.gen, sent |-> D!Sent(c)]]
<1>3. /\ f \in Calls /\ f.kind = c.kind /\ f.who = c.who /\ f.stage = "failed"
  BY <1>1 DEF Calls
<1>4. /\ d \in Calls /\ d.kind = c.kind /\ d.who = c.who /\ d.stage = "answered" /\ d.seen \in Views
  BY <1>1, <1>2 DEF Calls, Views
<1>5. \/ D!Becomes(c, f) /\ UNCHANGED order
      \/ D!Becomes(c, d)
  BY DEF D!Commit
<1>6. order' # order => D!Becomes(c, d)
  BY <1>5
<1>7. order' = order \/ order' # order
  OBVIOUS
<1> HIDE DEF f, d
<1>8. CASE D!Becomes(c, f) /\ UNCHANGED order
  BY <1>1, <1>3, <1>8, MovedPreserves
<1>9. CASE D!Becomes(c, d)
  <2>1. calls' = (calls \ {c}) \cup {d}
    BY <1>9 DEF D!Becomes
  <2>2. /\ order' \in ServedOrders /\ order'.gen = order.gen /\ order'.calm = order.calm
        /\ order.calm => \/ order' = order
                         \/ c.seen = D!View /\ order'.sent = D!Sent(c) /\ order'.status = D!Status(c)
    <3>1. CASE order' = order
      BY <3>1 DEF DeskIInv, DeskTypes
    <3>2. CASE order' # order
      BY <3>2, CommitSets
    <3>3. QED BY <3>1, <3>2
  <2>3. DeskTypes'
    BY <1>1, <1>4, <2>1, <2>2 DEF DeskIInv, DeskTypes
  <2>4. OneEdit'
    BY <1>1, <1>4, <2>1, <2>2 DEF DeskIInv, OneEdit
  <2>5. PassedChecks'
    BY <1>4, <2>1 DEF DeskIInv, PassedChecks
  <2>6. order.calm => \A e \in calls' : e.stage # "read"
    BY <1>1, <1>4, <2>1 DEF DeskIInv, ReadsAlone
  <2>7. ReadsAlone'
    BY <2>2, <2>6 DEF ReadsAlone
  <2>8. PendingUnsent' /\ StatusAddsUp'
    <3>1. CASE ~order.calm
      BY <2>2, <3>1 DEF PendingUnsent, StatusAddsUp, D!StatusAddsUp
    <3>2. CASE order' = order
      BY <3>2 DEF DeskIInv, PendingUnsent, StatusAddsUp, D!StatusAddsUp
    <3>3. CASE order'.sent = D!Sent(c) /\ order'.status = D!Status(c)
      <4>1. CASE c.kind \in {"mark", "undo"}
        BY <1>1, <3>3, <4>1, CommittedFacts
           DEF PendingUnsent, StatusAddsUp, D!StatusAddsUp, D!Derived
      <4>2. CASE c.kind = "done"
        BY <1>1, <3>3, <4>2, CommittedFacts
           DEF PendingUnsent, StatusAddsUp, D!StatusAddsUp, D!Derived
      <4>3. CASE c.kind = "cancelled"
        BY <1>1, <3>3, <4>3, CommittedFacts DEF PendingUnsent, StatusAddsUp, D!StatusAddsUp
      <4>4. QED BY <1>1, <4>1, <4>2, <4>3 DEF Calls
    <3>4. QED BY <2>2, <3>1, <3>2, <3>3
  <2>9. QED BY <2>3, <2>4, <2>5, <2>7, <2>8 DEF DeskIInv
<1>10. QED BY <1>5, <1>8, <1>9

\* An edit makes the items anew: none of them is sent, and the status stays.
LEMMA CommitEditPreserves ==
  ASSUME DeskIInv, NEW c \in calls, D!CommitEdit(c) PROVE DeskIInv'
<1>1. /\ c \in Calls /\ c.stage = "read" /\ c.kind = "edit" /\ c.seen \in Views
      /\ UNCHANGED desk /\ desk \in Desks /\ order \in ServedOrders /\ order.gen < MaxEdits
      /\ order' = [order EXCEPT !.gen = @ + 1, !.sent = {}]
  BY DEF DeskIInv, DeskTypes, OneEdit, D!CommitEdit
<1> DEFINE d == [c EXCEPT !.stage = "answered"]
<1>2. /\ d \in Calls /\ d.kind = "edit" /\ d.who = c.who /\ d.stage = "answered" /\ d.seen \in Views
  BY <1>1 DEF Calls
<1>3. calls' = (calls \ {c}) \cup {d}
  BY DEF D!CommitEdit, D!Becomes
<1> HIDE DEF d
<1>4. order.gen \in Nat /\ order.gen + 1 \in 0..MaxEdits
  BY <1>1, DeskAssumption DEF ServedOrders
<1>5. /\ order' \in ServedOrders /\ order'.status = order.status /\ order'.gen = order.gen + 1
      /\ order'.sent = {} /\ order'.calm = order.calm
  BY <1>1, <1>4 DEF ServedOrders
<1>6. DeskTypes'
  BY <1>1, <1>2, <1>3, <1>5 DEF DeskIInv, DeskTypes
<1>7. OneEdit'
  BY <1>1, <1>2, <1>3 DEF DeskIInv, OneEdit
<1>8. PassedChecks'
  BY <1>2, <1>3 DEF DeskIInv, PassedChecks
<1>9. order.calm => \A e \in calls' : e.stage # "read"
  BY <1>1, <1>2, <1>3 DEF DeskIInv, ReadsAlone
<1>10. ReadsAlone' /\ PendingUnsent' /\ StatusAddsUp'
  BY <1>4, <1>5, <1>9 DEF ReadsAlone, PendingUnsent, StatusAddsUp, D!StatusAddsUp
<1>11. QED BY <1>6, <1>7, <1>8, <1>10 DEF DeskIInv

\* What the page does on its own, and the answers it hears.
LEMMA DeskAlonePreserves ==
  ASSUME DeskIInv,
         \/ D!Expand \/ D!Close \/ D!Reload
         \/ \E c \in calls : D!Answered(c) \/ D!Failed(c) \/ D!EditAnswered(c)
  PROVE  DeskIInv'
<1>1. order \in ServedOrders /\ desk \in Desks /\ D!View \in Views
  BY ViewType DEF DeskIInv, DeskTypes
<1>2. UNCHANGED order /\ calls' \subseteq calls
  BY DEF D!Expand, D!Close, D!Reload, D!Answered, D!Failed, D!EditAnswered
<1>3. desk' \in Desks
  <2>1. CASE D!Expand \/ D!Close \/ D!Reload
    BY <1>1, <2>1 DEF D!Expand, D!Close, D!Reload, Desks
  <2>2. ASSUME NEW c \in calls, D!Answered(c) PROVE desk' \in Desks
    <3>1. c.seen \in Views
      BY <2>2 DEF DeskIInv, DeskTypes, D!Answered
    <3> DEFINE e == [desk EXCEPT !.list = c.seen, !.dialog = IF c.dialog THEN c.seen ELSE @]
    <3>2. e \in Desks
      BY <1>1, <3>1 DEF Desks
    <3>3. desk' = desk \/ desk' = D!Idle(c, e)
      BY <2>2 DEF D!Answered
    <3> HIDE DEF e
    <3>4. D!Idle(c, e) \in Desks
      BY <3>2 DEF D!Idle, Desks
    <3>5. QED BY <1>1, <3>3, <3>4
  <2>3. ASSUME NEW c \in calls, D!Failed(c) PROVE desk' \in Desks
    BY <1>1, <2>3 DEF D!Failed, D!Idle, Desks
  <2>4. ASSUME NEW c \in calls, D!EditAnswered(c) PROVE desk' \in Desks
    BY <1>1, <2>4 DEF D!EditAnswered
  <2>5. QED BY <2>1, <2>2, <2>3, <2>4
<1>4. QED BY <1>2, <1>3, FewerPreserves

\* A request of the page: what it sends, and what it counts.
LEMMA AskPreserves ==
  ASSUME DeskIInv, NEW kind \in {"mark", "undo", "done", "cancelled"}, NEW items \in SUBSET Items,
         NEW batch \in BOOLEAN, NEW gen \in 0..MaxEdits, D!Ask(kind, items, batch, gen),
         NEW item \in Items \cup {Absent}, NEW all \in BOOLEAN,
         desk' = [desk EXCEPT !.item = item, !.all = all, !.clicks = @ + 1],
         UNCHANGED order
  PROVE  DeskIInv'
<1> DEFINE new == [kind |-> kind, items |-> items, batch |-> batch, gen |-> gen, who |-> "manager",
                   stage |-> "sent", heard |-> TRUE, dialog |-> desk.dialog # Absent, seen |-> Absent]
<1>1. new \in Calls /\ new.kind = kind /\ new.who = "manager" /\ new.stage = "sent"
  BY DEF Calls
<1>2. calls' = calls \cup {new} /\ desk.clicks < MaxClicks
  BY DEF D!Ask
<1> HIDE DEF new
<1>3. desk \in Desks /\ desk.clicks + 1 \in 0..MaxClicks
  BY <1>2, DeskAssumption DEF DeskIInv, DeskTypes, Desks
<1>4. desk' \in Desks
  BY <1>3 DEF Desks
<1>5. QED BY <1>1, <1>2, <1>4, AskedPreserves

\* The clicks of the desk.
LEMMA ClickPreserves ==
  ASSUME DeskIInv,
         \/ D!MarkAll
         \/ \E next \in {"done", "cancelled"} : D!ChangeStatus(next)
         \/ \E i \in Items : D!Toggle(i)
  PROVE  DeskIInv'
<1>1. /\ desk \in Desks /\ desk.item \in Items \cup {Absent} /\ desk.all \in BOOLEAN
      /\ 0 \in 0..MaxEdits
      /\ desk.dialog # Absent => desk.dialog.gen \in 0..MaxEdits
  BY DeskAssumption DEF DeskIInv, DeskTypes, Desks, Views
<1>2. \A item, all : [desk EXCEPT !.item = item, !.all = all, !.clicks = @ + 1]
          = [[[desk EXCEPT !.item = item] EXCEPT !.all = all] EXCEPT !.clicks = desk.clicks + 1]
  BY <1>1 DEF Desks
<1>3. CASE D!MarkAll
  <2>1. desk' = [desk EXCEPT !.item = desk.item, !.all = TRUE, !.clicks = @ + 1]
    BY <1>1, <1>3 DEF D!MarkAll, Desks
  <2>2. D!Ask("mark", Items \ desk.dialog.sent, TRUE, desk.dialog.gen) /\ desk.dialog # Absent
        /\ UNCHANGED order
    BY <1>3 DEF D!MarkAll
  <2>3. QED BY <1>1, <2>1, <2>2, AskPreserves
<1>4. ASSUME NEW next \in {"done", "cancelled"}, D!ChangeStatus(next) PROVE DeskIInv'
  <2>1. desk' = [desk EXCEPT !.item = desk.item, !.all = desk.all, !.clicks = @ + 1]
    BY <1>1, <1>4 DEF D!ChangeStatus, Desks
  <2>2. D!Ask(next, {}, FALSE, 0) /\ UNCHANGED order
    BY <1>4 DEF D!ChangeStatus
  <2>3. QED BY <1>1, <2>1, <2>2, AskPreserves
<1>5. ASSUME NEW i \in Items, D!Toggle(i) PROVE DeskIInv'
  <2>1. desk' = [desk EXCEPT !.item = i, !.all = desk.all, !.clicks = @ + 1]
    BY <1>1, <1>5 DEF D!Toggle, Desks
  <2> DEFINE kind == IF i \in desk.dialog.sent THEN "undo" ELSE "mark"
  <2>2. D!Ask(kind, {i}, FALSE, desk.dialog.gen) /\ UNCHANGED order /\ desk.dialog # Absent
    BY <1>5 DEF D!Toggle
  <2>3. kind \in {"mark", "undo", "done", "cancelled"}
    OBVIOUS
  <2> HIDE DEF kind
  <2>4. QED BY <1>1, <2>1, <2>2, <2>3, AskPreserves
<1>6. QED BY <1>3, <1>4, <1>5

\* The edit form sends its edit; a connection is lost.
LEMMA SentPreserves ==
  ASSUME DeskIInv,
         \/ \E who \in {"owner", "manager"} : D!SubmitEdit(who)
         \/ \E c \in calls : D!Lost(c)
  PROVE  DeskIInv'
<1>1. desk \in Desks /\ calls \subseteq Calls
  BY DEF DeskIInv, DeskTypes
<1>2. ASSUME NEW who \in {"owner", "manager"}, D!SubmitEdit(who) PROVE DeskIInv'
  <2> DEFINE new == [kind |-> "edit", items |-> {}, batch |-> FALSE, gen |-> 0, who |-> who,
                     stage |-> "sent", heard |-> TRUE, dialog |-> FALSE, seen |-> Absent]
  <2>1. new \in Calls /\ new.kind = "edit" /\ new.stage = "sent"
    BY DeskAssumption DEF Calls
  <2>2. /\ calls' = calls \cup {new} /\ UNCHANGED <<order, desk>> /\ order.gen < MaxEdits
        /\ \A c \in calls : c.kind # "edit"
    BY <1>2 DEF D!SubmitEdit
  <2> HIDE DEF new
  <2>3. QED BY <1>1, <2>1, <2>2, AskedPreserves
<1>3. ASSUME NEW c \in calls, D!Lost(c) PROVE DeskIInv'
  <2> DEFINE d == [c EXCEPT !.heard = FALSE, !.dialog = FALSE]
  <2>1. d \in Calls /\ d.kind = c.kind /\ d.who = c.who /\ d.stage = c.stage /\ d.seen = c.seen
    BY <1>1 DEF Calls
  <2>2. D!Becomes(c, d) /\ c.stage \in {"sent", "read"} /\ UNCHANGED order
    BY <1>3 DEF D!Lost
  <2> HIDE DEF d
  <2>3. desk' \in Desks
    BY <1>1, <1>3 DEF D!Lost, D!Idle, Desks
  <2>4. QED BY <2>1, <2>2, <2>3, MovedPreserves
<1>4. QED BY <1>2, <1>3

\* Every step of the page, and of another page, keeps the invariant.
LEMMA DeskStepPreserves == DeskIInv /\ [Next]_vars => DeskIInv'
<1> SUFFICES ASSUME DeskIInv, [Next]_vars PROVE DeskIInv'
  OBVIOUS
<1>1. CASE D!DeskNext
  BY <1>1, ReadPreserves, CommitPreserves, CommitEditPreserves, DeskAlonePreserves, ClickPreserves,
     SentPreserves DEF D!DeskNext
<1>2. CASE UNCHANGED ordering
  BY <1>2, FewerPreserves DEF ordering, DeskIInv, DeskTypes
<1>3. QED BY <1>1, <1>2 DEF Next, vars

\* The inductive invariant of the order desk: as long as no two handlers overlap, the one at
\* work has seen the order as it is.
THEOREM DeskInvariance == Spec => []DeskIInv
<1>1. Init => DeskIInv
  BY DeskInitEstablishes DEF Init
<1>2. QED BY <1>1, DeskStepPreserves, PTL DEF Spec

\* As long as no two requests overlap on the server, an order that is not cancelled has the
\* status its items give it, an edited one excepted.
THEOREM StatusAddsUpCorrect == Spec => []StatusAddsUp
<1>1. DeskIInv => StatusAddsUp
  BY DEF DeskIInv
<1>2. QED BY <1>1, DeskInvariance, PTL

\* What changes an order on the server: a handler that reads it, commits, or makes it anew.
LEMMA OrderChanges ==
  ASSUME [Next]_vars, order' # order
  PROVE  \E c \in calls : D!Read(c) \/ D!Commit(c) \/ D!CommitEdit(c)
  BY DEF Next, vars, ordering, D!DeskNext, D!Expand, D!Close, D!MarkAll, D!Reload, D!ChangeStatus,
         D!Toggle, D!SubmitEdit, D!Answered, D!Failed, D!Lost, D!EditAnswered

\* Reading an order changes nothing of it but what the model remembers.
LEMMA ReadKeeps ==
  ASSUME DeskIInv, NEW c \in calls, D!Read(c)
  PROVE  order'.status = order.status /\ order'.sent = order.sent /\ order'.gen = order.gen
  BY DEF DeskIInv, DeskTypes, ServedOrders, D!Read

\* As long as no two handlers overlap on the server, nothing more is sent of a cancelled order,
\* from however old a dialog, unless the whole of it is completed from an old list.
THEOREM CancelledStaysCorrect == Spec => CancelledStays
<1>1. DeskIInv /\ [Next]_vars
        => [order.calm' /\ order.status = "cancelled"
              => \/ order'.status = "cancelled" /\ order'.sent \subseteq order.sent
                 \/ order'.status = "done" /\ order'.sent = Items]_D!deskVars
  <2> SUFFICES ASSUME DeskIInv, [Next]_vars, order'.calm, order.status = "cancelled", order' # order
               PROVE  \/ order'.status = "cancelled" /\ order'.sent \subseteq order.sent
                      \/ order'.status = "done" /\ order'.sent = Items
    OBVIOUS
  <2>1. PICK c \in calls : D!Read(c) \/ D!Commit(c) \/ D!CommitEdit(c)
    BY OrderChanges
  <2>2. CASE D!Read(c)
    BY <2>2, ReadKeeps
  <2>3. CASE D!Commit(c)
    <3>1. /\ c.seen = D!View /\ c.stage = "read" /\ c.kind # "edit" /\ c.seen \in Views
          /\ order'.sent = D!Sent(c) /\ order'.status = D!Status(c)
      BY <2>3, CommitSets
    <3>2. c \in Calls /\ c.kind \notin {"mark", "undo"} /\ c.seen.sent = order.sent
      BY <3>1 DEF DeskIInv, DeskTypes, PassedChecks, D!View
    <3>3. c.kind \in {"done", "cancelled"}
      BY <3>1, <3>2 DEF Calls
    <3>4. QED BY <3>1, <3>2, <3>3, CommittedFacts
  <2>4. CASE D!CommitEdit(c)
    BY <2>4 DEF DeskIInv, DeskTypes, ServedOrders, D!CommitEdit
  <2>5. QED BY <2>1, <2>2, <2>3, <2>4
<1>2. QED
  BY <1>1, DeskInvariance, PTL DEF Spec, CancelledStays, D!CancelledStays

\* As long as no two handlers overlap on the server, the salesperson's own edit, from a form
\* opened before, replaces no item that has been dispatched.
THEOREM OwnEditLosesNothingCorrect == Spec => OwnEditLosesNothing
<1>1. DeskIInv /\ [Next]_vars
        => [\A c \in calls : c.who = "owner" /\ c.stage = "read" /\ order.calm /\ order'.gen # order.gen
               => order.sent = {}]_D!deskVars
  <2> SUFFICES ASSUME DeskIInv, NEW c \in calls, c.who = "owner", c.stage = "read", order.calm
               PROVE  order.sent = {}
    OBVIOUS
  <2>1. c.seen.status = "pending" /\ c.seen = D!View
    BY DEF DeskIInv, PassedChecks, ReadsAlone
  <2>2. order.status = "pending"
    BY <2>1 DEF D!View
  <2>3. QED BY <2>2 DEF DeskIInv, PendingUnsent
<1>2. QED
  BY <1>1, DeskInvariance, PTL DEF Spec, OwnEditLosesNothing, D!OwnEditLosesNothing

-----------------------------------------------------------------------------
(* VoucherForm: the invariant *)

RowType == [id : 1..MaxTyped + 2, type : {"Debit", "Credit"}, named : BOOLEAN, amount : Nat]
LineType == [id : Nat, item : BOOLEAN]
Entries == [of : V!Vouchers, is : Seq(RowType)]
Contents == [rows : Entries, next : Nat, lines : Seq(LineType), nextLine : Nat, linesOf : V!Vouchers,
             party : {"none", "own", "chosen"}, kind : {"accounting", "invoice"}]
Forms == [open : BOOLEAN, edit : V!Vouchers, is : Contents, mixed : BOOLEAN, typed : 0..MaxTyped]
Quicks == [kind : {"ledger", "item", "items"}, target : Nat, late : BOOLEAN, rows : Entries]

\* What goes to the server is of the voucher it is for, unless an answer asked for before came
\* into the form.
GoodSaves ==
  {p \in [to : V!Vouchers, of : V!Vouchers, mixed : BOOLEAN, answered : BOOLEAN] :
      p.mixed \/ p.of = p.to}

FormTypes ==
  /\ list \in [fetching : BOOLEAN, saving : BOOLEAN]
  /\ form \in Forms /\ quick \subseteq Quicks /\ saves \subseteq GoodSaves

Distinct(rows) == \A i, j \in DOMAIN rows : rows[i].id = rows[j].id => i = j
Below(rows, next) == \A i \in DOMAIN rows : rows[i].id < next

\* Ids are given out in order: none of those in the form, or remembered by a small dialog of
\* this opening, is still to come.
IdsInOrder ==
  /\ form.is.next \in 3..form.typed + 3
  /\ ~form.mixed => /\ Distinct(form.is.rows.is) /\ Below(form.is.rows.is, form.is.next)
                    /\ \A q \in quick : ~q.late => Distinct(q.rows.is) /\ Below(q.rows.is, form.is.next)

\* What the open form shows, and what its small dialogs remember, is of the voucher it is for;
\* the stock items were asked for because that is V.
OwnContent ==
  form.open /\ ~form.mixed =>
     /\ form.is.rows.of = form.edit /\ form.is.linesOf = form.edit
     /\ \A q \in quick : ~q.late /\ q.kind = "ledger" /\ q.target > 0 => q.rows.of = form.edit
     /\ \A q \in quick : ~q.late /\ q.kind = "items" => form.edit = "V"

\* A small dialog that outlives the form is late.
ClosedIsLate == ~form.open => \A q \in quick : q.late

FormIInv == FormTypes /\ IdsInOrder /\ OwnContent /\ ClosedIsLate

-----------------------------------------------------------------------------
(* Facts about numbers and sequences *)

\* Numbers have a least one.
LEMMA LeastNumber ==
  ASSUME NEW N \in SUBSET Nat, N # {} PROVE \E n \in N : \A m \in N : n <= m
<1> DEFINE R == OpToRel(<, Nat)
<1>1. IsWellFoundedOn(R, Nat)
  BY NatLessThanWellFounded, Zenon
<1>2. \A m, n \in Nat : m < n => <<m, n>> \in R
  BY DEF OpToRel
<1> HIDE DEF R
<1>3. \E n \in N : \A m \in N : ~(<<m, n>> \in R)
  BY <1>1, WFMin
<1>4. PICK n \in N : \A m \in N : ~(<<m, n>> \in R)
  BY <1>3
<1>5. \A m \in N : ~(m < n)
  BY <1>2, <1>4
<1>6. n \in Nat /\ \A m \in N : n <= m
  BY <1>5
<1>7. QED BY <1>6

\* Induction, as a fact about sets of numbers.
LEMMA SetInduction ==
  ASSUME NEW N \in SUBSET Nat, 0 \in N, \A n \in N : n + 1 \in N
  PROVE  N = Nat
<1> SUFFICES ASSUME Nat \ N # {} PROVE FALSE
  OBVIOUS
<1>1. PICK n \in Nat \ N : \A m \in Nat \ N : n <= m
  BY LeastNumber
<1>2. n # 0 /\ n - 1 \in Nat /\ ~(n <= n - 1)
  BY <1>1
<1>3. n - 1 \in N
  BY <1>1, <1>2
<1>4. (n - 1) + 1 \in N
  BY <1>3
<1>5. QED BY <1>1, <1>4

\* The greatest id of some lines, and 0, is a number.
LEMMA GreatestId ==
  ASSUME NEW lines \in Seq(LineType) PROVE V!Max({lines[i].id : i \in DOMAIN lines} \cup {0}) \in Nat
<1> DEFINE Ids(k) == {lines[i].id : i \in 1..k} \cup {0}
           N == {k \in Nat : k <= Len(lines) => \E x \in Ids(k) : \A y \in Ids(k) : x >= y}
<1>1. \A i \in 1..Len(lines) : lines[i].id \in Nat
  <2>1. \A i \in 1..Len(lines) : lines[i] \in LineType
    OBVIOUS
  <2>2. QED BY <2>1 DEF LineType
<1>2. 0 \in N
  OBVIOUS
<1>3. ASSUME NEW k \in N PROVE k + 1 \in N
  <2> SUFFICES ASSUME k + 1 <= Len(lines) PROVE \E x \in Ids(k + 1) : \A y \in Ids(k + 1) : x >= y
    OBVIOUS
  <2>1. PICK x \in Ids(k) : \A y \in Ids(k) : x >= y
    OBVIOUS
  <2>2. Ids(k + 1) = Ids(k) \cup {lines[k + 1].id} /\ k + 1 \in 1..Len(lines)
    OBVIOUS
  <2>3. Ids(k) \subseteq Nat /\ lines[k + 1].id \in Nat
    BY <1>1, <2>2
  <2> HIDE DEF Ids
  <2>4. QED BY <2>1, <2>2, <2>3
<1> HIDE DEF N
<1>4. Len(lines) \in N
  <2>1. N \subseteq Nat
    BY DEF N
  <2>2. N = Nat
    BY <1>2, <1>3, <2>1, SetInduction
  <2>3. QED BY <2>2
<1>5. {lines[i].id : i \in DOMAIN lines} \cup {0} = Ids(Len(lines)) /\ Ids(Len(lines)) \subseteq Nat
  BY <1>1
<1>6. \E x \in Ids(Len(lines)) : \A y \in Ids(Len(lines)) : x >= y
  <2>1. Len(lines) \in Nat /\ Len(lines) <= Len(lines)
    OBVIOUS
  <2>2. QED BY <1>4, <2>1 DEF N
<1> HIDE DEF Ids
<1>7. V!Max(Ids(Len(lines))) \in Ids(Len(lines))
  BY <1>6 DEF V!Max
<1>8. QED BY <1>5, <1>7

\* The entries kept so far, as Without defines them by recursion on how many it has looked at.
KeptBody(f, rows, id, n) ==
  IF n = 0 THEN <<>> ELSE IF rows[n].id = id THEN f[n - 1] ELSE Append(f[n - 1], rows[n])
Kept(rows, id) == CHOOSE f : f = [n \in 0..Len(rows) |-> KeptBody(f, rows, id, n)]

\* What Without returns are the entries kept at the end.
LEMMA WithoutIsKept ==
  ASSUME NEW rows, NEW id PROVE V!Without(rows, id) = Kept(rows, id)[Len(rows)]
  BY DEF V!Without, Kept, KeptBody

\* The recursion defines a function.
LEMMA KeptExists ==
  ASSUME NEW S, NEW rows \in Seq(S), NEW id
  PROVE  /\ Kept(rows, id) \in [0..Len(rows) -> Seq(S)]
         /\ \A n \in 0..Len(rows) : Kept(rows, id)[n] = KeptBody(Kept(rows, id), rows, id, n)
<1> DEFINE Steps(f, m) == f \in [0..m -> Seq(S)] /\ \A n \in 0..m : f[n] = KeptBody(f, rows, id, n)
           N == {m \in Nat : m <= Len(rows) => \E f : Steps(f, m)}
<1>1. Len(rows) \in Nat
  OBVIOUS
<1>2. 0 \in N
  <2> DEFINE f == [n \in 0..0 |-> <<>>]
  <2>1. f \in [0..0 -> Seq(S)] /\ \A n \in 0..0 : f[n] = <<>> /\ n = 0
    OBVIOUS
  <2> HIDE DEF f
  <2>2. Steps(f, 0)
    BY <2>1 DEF KeptBody
  <2>3. QED BY <2>2
<1> HIDE DEF Steps
<1>3. ASSUME NEW m \in N PROVE m + 1 \in N
  <2> SUFFICES ASSUME m + 1 <= Len(rows) PROVE \E g : Steps(g, m + 1)
    OBVIOUS
  <2> USE DEF Steps
  <2>1. m \in Nat /\ m <= Len(rows) /\ m + 1 \in 1..Len(rows) /\ rows[m + 1] \in S
    BY <1>1
  <2>2. PICK f : Steps(f, m)
    BY <2>1
  <2> DEFINE g == [n \in 0..m + 1 |-> IF n = m + 1
                                     THEN IF rows[n].id = id THEN f[m] ELSE Append(f[m], rows[n])
                                     ELSE f[n]]
  <2>3. f[m] \in Seq(S) /\ Append(f[m], rows[m + 1]) \in Seq(S)
    BY <2>1, <2>2
  <2>4. /\ g \in [0..m + 1 -> Seq(S)] /\ \A n \in 0..m : g[n] = f[n]
        /\ g[m + 1] = IF rows[m + 1].id = id THEN f[m] ELSE Append(f[m], rows[m + 1])
    BY <2>1, <2>2, <2>3
  <2> HIDE DEF g
  <2>5. ASSUME NEW n \in 0..m + 1 PROVE g[n] = KeptBody(g, rows, id, n)
    <3>1. CASE n \in 0..m
      <4>1. n = 0 \/ n - 1 \in 0..m
        BY <2>1, <3>1
      <4>2. g[n] = KeptBody(f, rows, id, n)
        BY <2>2, <2>4, <3>1
      <4>3. QED BY <2>4, <4>1, <4>2 DEF KeptBody
    <3>2. CASE n = m + 1
      <4>1. n # 0 /\ n - 1 = m /\ g[m] = f[m]
        BY <2>1, <2>4, <3>2
      <4>2. QED BY <2>4, <3>2, <4>1 DEF KeptBody
    <3>3. QED BY <2>1, <3>1, <3>2
  <2>6. QED BY <2>4, <2>5
<1> HIDE DEF N
<1>4. Len(rows) \in N
  <2>1. N \subseteq Nat
    BY DEF N
  <2>2. N = Nat
    BY <1>2, <1>3, <2>1, SetInduction
  <2>3. QED BY <1>1, <2>2
<1>5. PICK f : Steps(f, Len(rows))
  BY <1>1, <1>4 DEF N
<1>6. f = [n \in 0..Len(rows) |-> KeptBody(f, rows, id, n)]
  BY <1>5 DEF Steps
<1> DEFINE Is(h) == h = [n \in 0..Len(rows) |-> KeptBody(h, rows, id, n)]
<1>7. Is(Kept(rows, id))
  BY <1>6 DEF Kept
<1> DEFINE K == Kept(rows, id)
<1>8. K = [n \in 0..Len(rows) |-> KeptBody(K, rows, id, n)]
  BY <1>7
<1> HIDE DEF K
<1>9. \A n \in 0..Len(rows) : K[n] = KeptBody(K, rows, id, n)
  BY <1>8
<1> DEFINE U == {n \in Nat : n <= Len(rows) => K[n] \in Seq(S)}
<1>10. 0 \in U
  <2>1. KeptBody(K, rows, id, 0) = <<>> /\ 0 \in 0..Len(rows)
    BY <1>1 DEF KeptBody
  <2>2. K[0] = <<>>
    BY <1>9, <2>1
  <2>3. K[0] \in Seq(S)
    BY <2>2
  <2>4. QED BY <2>3
<1>11. ASSUME NEW m \in U PROVE m + 1 \in U
  <2> SUFFICES ASSUME m + 1 <= Len(rows) PROVE K[m + 1] \in Seq(S)
    OBVIOUS
  <2>1. /\ m \in Nat /\ m <= Len(rows) /\ m + 1 \in 0..Len(rows) /\ m + 1 # 0 /\ (m + 1) - 1 = m
        /\ m + 1 \in 1..Len(rows)
    BY <1>1
  <2>2. K[m] \in Seq(S) /\ rows[m + 1] \in S
    BY <2>1
  <2>3. K[m + 1] = KeptBody(K, rows, id, m + 1)
    BY <1>9, <2>1
  <2>4. K[m + 1] = IF rows[m + 1].id = id THEN K[m] ELSE Append(K[m], rows[m + 1])
    BY <2>1, <2>3 DEF KeptBody
  <2>5. QED BY <2>2, <2>4
<1> HIDE DEF U
<1>12. \A n \in 0..Len(rows) : K[n] \in Seq(S)
  <2>1. U \subseteq Nat
    BY DEF U
  <2>2. U = Nat
    BY <1>10, <1>11, <2>1, SetInduction
  <2>3. QED BY <1>1, <2>2 DEF U
<1>13. K \in [0..Len(rows) -> Seq(S)]
  BY <1>8, <1>12
<1>14. QED BY <1>9, <1>13 DEF K

\* What is left are those that had not the id, and they alone; distinct ids stay distinct.
LEMMA WithoutFacts ==
  ASSUME NEW S, NEW rows \in Seq(S), NEW id, NEW kept, kept = V!Without(rows, id)
  PROVE  /\ kept \in Seq(S)
         /\ \A i \in 1..Len(kept) : \E j \in 1..Len(rows) : kept[i] = rows[j] /\ rows[j].id # id
         /\ \A j \in 1..Len(rows) : rows[j].id # id => \E i \in 1..Len(kept) : kept[i] = rows[j]
         /\ Distinct(rows) => Distinct(kept)
<1> DEFINE K == Kept(rows, id)
           From(n) == \A i \in 1..Len(K[n]) : \E j \in 1..n : K[n][i] = rows[j] /\ rows[j].id # id
           All(n) == \A j \in 1..n : rows[j].id # id => \E i \in 1..Len(K[n]) : K[n][i] = rows[j]
           Apart(n) == \A i, j \in 1..Len(K[n]) : K[n][i].id = K[n][j].id => i = j
           N == {n \in Nat : n <= Len(rows) => From(n) /\ All(n) /\ (Distinct(rows) => Apart(n))}
<1>1. /\ Len(rows) \in Nat /\ DOMAIN rows = 1..Len(rows)
      /\ K \in [0..Len(rows) -> Seq(S)] /\ \A n \in 0..Len(rows) : K[n] = KeptBody(K, rows, id, n)
  BY KeptExists
<1> HIDE DEF K
<1>2. 0 \in N
  <2>1. K[0] = <<>> /\ Len(K[0]) = 0
    BY <1>1 DEF KeptBody
  <2>2. From(0) /\ All(0) /\ Apart(0)
    BY <2>1
  <2>3. QED BY <2>2
<1>3. ASSUME NEW m \in N PROVE m + 1 \in N
  <2> SUFFICES ASSUME m + 1 <= Len(rows)
               PROVE  From(m + 1) /\ All(m + 1) /\ (Distinct(rows) => Apart(m + 1))
    OBVIOUS
  <2> HIDE DEF From, All, Apart
  <2>1. m \in Nat /\ (m <= Len(rows) => From(m) /\ All(m) /\ (Distinct(rows) => Apart(m)))
    OBVIOUS
  <2> HIDE DEF N
  <2>2. /\ m <= Len(rows) /\ m \in 0..Len(rows) /\ m + 1 \in 0..Len(rows) /\ m + 1 # 0
        /\ (m + 1) - 1 = m /\ m + 1 \in 1..Len(rows)
    BY <1>1, <2>1
  <2>3. K[m + 1] = IF rows[m + 1].id = id THEN K[m] ELSE Append(K[m], rows[m + 1])
    BY <1>1, <2>2 DEF KeptBody
  <2>4. K[m] \in Seq(S) /\ rows[m + 1] \in S /\ Len(K[m]) \in Nat
    BY <1>1, <2>2
  <2> USE DEF From, All, Apart
  <2>5. CASE rows[m + 1].id = id /\ K[m + 1] = K[m]
    <3>1. (\A j \in 1..m : j \in 1..m + 1) /\ \A j \in 1..m + 1 : j \in 1..m \/ j = m + 1
      BY <2>1, <2>2
    <3>2. QED BY <2>1, <2>2, <2>5, <3>1
  <2>6. CASE rows[m + 1].id # id /\ K[m + 1] = Append(K[m], rows[m + 1])
    <3> DEFINE s == K[m]
               t == K[m + 1]
    <3>1. /\ Len(t) = Len(s) + 1 /\ t[Len(s) + 1] = rows[m + 1]
          /\ \A i \in 1..Len(s) : t[i] = s[i]
      BY <2>4, <2>6
    <3>2. \A i \in 1..Len(t) : i \in 1..Len(s) \/ i = Len(s) + 1
      BY <2>4, <3>1
    <3>3. /\ \A i \in 1..Len(s) : \E j \in 1..m : t[i] = rows[j] /\ rows[j].id # id
          /\ \A j \in 1..m : rows[j].id # id => \E i \in 1..Len(s) : t[i] = rows[j]
      <4>1. /\ \A i \in 1..Len(s) : \E j \in 1..m : s[i] = rows[j] /\ rows[j].id # id
            /\ \A j \in 1..m : rows[j].id # id => \E i \in 1..Len(s) : s[i] = rows[j]
        BY <2>1, <2>2
      <4> HIDE DEF From, All, Apart, s, t
      <4>2. QED BY <3>1, <4>1
    <3>4. /\ \A j \in 1..m : j \in 1..m + 1 /\ j \in 1..Len(rows) /\ j # m + 1
          /\ m + 1 \in 1..m + 1 /\ \A j \in 1..m + 1 : j \in 1..m \/ j = m + 1
      <4>1. m \in Nat /\ m + 1 <= Len(rows) /\ Len(rows) \in Nat
        BY <1>1, <2>1
      <4> HIDE DEF From, All, Apart
      <4>2. QED BY <4>1
    <3>5. Len(s) + 1 \in 1..Len(t) /\ \A i \in 1..Len(s) : i \in 1..Len(t)
      BY <2>4, <3>1
    <3> HIDE DEF s, t
    <3>6. \A i \in 1..Len(t) : \E j \in 1..m + 1 : t[i] = rows[j] /\ rows[j].id # id
      <4> SUFFICES ASSUME NEW i \in 1..Len(t)
                   PROVE  \E j \in 1..m + 1 : t[i] = rows[j] /\ rows[j].id # id
        OBVIOUS
      <4>1. CASE i \in 1..Len(s)
        BY <3>3, <3>4, <4>1
      <4>2. CASE i = Len(s) + 1
        <5>1. t[i] = rows[m + 1] /\ rows[m + 1].id # id
          BY <2>6, <3>1, <4>2
        <5>2. QED BY <3>4, <5>1
      <4>3. QED BY <3>2, <4>1, <4>2
    <3>7. \A j \in 1..m + 1 : rows[j].id # id => \E i \in 1..Len(t) : t[i] = rows[j]
      BY <3>1, <3>3, <3>4, <3>5
    <3>8. ASSUME Distinct(rows) PROVE \A i, j \in 1..Len(t) : t[i].id = t[j].id => i = j
      <4>1. \A i \in 1..Len(s) : t[i].id # rows[m + 1].id
        <5>1. \A j \in 1..m : rows[j].id # rows[m + 1].id
          BY <1>1, <2>2, <3>4, <3>8 DEF Distinct
        <5>2. QED BY <3>3, <5>1
      <4>2. \A i, j \in 1..Len(s) : t[i].id = t[j].id => i = j
        BY <2>1, <2>2, <3>1, <3>8 DEF s
      <4>3. QED BY <3>1, <3>2, <4>1, <4>2
    <3>9. QED BY <3>6, <3>7, <3>8 DEF t
  <2>7. QED BY <2>3, <2>5, <2>6
<1> HIDE DEF N, From, All, Apart
<1>4. From(Len(rows)) /\ All(Len(rows)) /\ (Distinct(rows) => Apart(Len(rows)))
  <2>1. N \subseteq Nat
    BY DEF N
  <2>2. N = Nat
    BY <1>2, <1>3, <2>1, SetInduction
  <2>3. QED BY <1>1, <2>2 DEF N
<1>5. kept = K[Len(rows)] /\ kept \in Seq(S) /\ DOMAIN kept = 1..Len(kept)
  BY <1>1, WithoutIsKept DEF K
<1>6. /\ \A i \in 1..Len(kept) : \E j \in 1..Len(rows) : kept[i] = rows[j] /\ rows[j].id # id
      /\ \A j \in 1..Len(rows) : rows[j].id # id => \E i \in 1..Len(kept) : kept[i] = rows[j]
  BY <1>4, <1>5 DEF From, All
<1>7. Distinct(rows) => Distinct(kept)
  BY <1>4, <1>5 DEF Distinct, Apart
<1>8. QED BY <1>5, <1>6, <1>7

\* Entries that are changed one by one keep their ids.
LEMMA ChangedFacts ==
  ASSUME NEW rows \in Seq(RowType), NEW new, new = [i \in DOMAIN rows |-> new[i]],
         \A i \in DOMAIN rows : new[i] \in RowType /\ new[i].id = rows[i].id
  PROVE  /\ new \in Seq(RowType)
         /\ Distinct(rows) => Distinct(new)
         /\ \A next : Below(rows, next) => Below(new, next)
<1>1. DOMAIN rows = 1..Len(rows) /\ Len(rows) \in Nat
  OBVIOUS
<1>2. DOMAIN new = DOMAIN rows
  OBVIOUS
<1>3. new \in Seq(RowType)
  BY <1>1, <1>2
<1>4. QED BY <1>2, <1>3 DEF Distinct, Below

\* So do lines, whose ids are any number.
LEMMA ChangedLines ==
  ASSUME NEW lines \in Seq(LineType), NEW new, new = [i \in DOMAIN lines |-> new[i]],
         \A i \in DOMAIN lines : new[i] \in LineType
  PROVE  new \in Seq(LineType)
<1>1. DOMAIN lines = 1..Len(lines) /\ Len(lines) \in Nat
  OBVIOUS
<1>2. QED BY <1>1

\* The content with other entries.
LEMMA WithRowsFacts ==
  ASSUME form.is \in Contents, NEW new \in Seq(RowType), NEW content, content = V!WithRows(new)
  PROVE  /\ content \in Contents /\ content.rows = [of |-> form.is.rows.of, is |-> new]
         /\ content.next = form.is.next /\ content.linesOf = form.is.linesOf
         /\ content.nextLine = form.is.nextLine
<1>1. form.is.rows \in Entries
  BY DEF Contents
<1>2. content = [form.is EXCEPT !.rows = [form.is.rows EXCEPT !.is = new]]
  BY DEF V!WithRows, V!Is
<1>3. [form.is.rows EXCEPT !.is = new] = [of |-> form.is.rows.of, is |-> new]
  BY <1>1 DEF Entries
<1>4. [of |-> form.is.rows.of, is |-> new] \in Entries
  BY <1>1 DEF Entries
<1>5. QED BY <1>2, <1>3, <1>4 DEF Contents

\* What the form is filled with when it opens.
LEMMA FillingFacts ==
  /\ V!Blank \in Contents /\ V!Loaded \in Contents
  /\ V!Blank.next = 3 /\ V!Loaded.next = 3
  /\ V!Blank.rows.of = "new" /\ V!Blank.linesOf = "new" /\ V!Loaded.rows.of = "V" /\ V!Loaded.linesOf = "V"
  /\ Distinct(V!Blank.rows.is) /\ Below(V!Blank.rows.is, 3)
  /\ Distinct(V!Loaded.rows.is) /\ Below(V!Loaded.rows.is, 3)
<1> DEFINE blankRows == <<V!Row(1, "Debit"), V!Row(2, "Credit")>>
           loadedRows == <<V!Filled(V!Row(1, "Debit")), V!Filled(V!Row(2, "Credit"))>>
<1>1. 1 \in 1..MaxTyped + 2 /\ 2 \in 1..MaxTyped + 2
  BY FormAssumption
<1>2. /\ V!Row(1, "Debit") \in RowType /\ V!Row(2, "Credit") \in RowType
      /\ V!Row(1, "Debit").id = 1 /\ V!Row(2, "Credit").id = 2
  BY <1>1 DEF V!Row, RowType
<1>3. /\ V!Filled(V!Row(1, "Debit")) \in RowType /\ V!Filled(V!Row(2, "Credit")) \in RowType
      /\ V!Filled(V!Row(1, "Debit")).id = 1 /\ V!Filled(V!Row(2, "Credit")).id = 2
  BY <1>2 DEF V!Filled, RowType
<1>4. ASSUME NEW x \in RowType, NEW y \in RowType, x.id = 1, y.id = 2
      PROVE  <<x, y>> \in Seq(RowType) /\ Distinct(<<x, y>>) /\ Below(<<x, y>>, 3)
  <2> DEFINE s == <<x, y>>
  <2>1. s \in Seq(RowType) /\ DOMAIN s = {1, 2} /\ s[1] = x /\ s[2] = y
    OBVIOUS
  <2> HIDE DEF s
  <2>2. Distinct(s) /\ Below(s, 3)
    BY <1>4, <2>1 DEF Distinct, Below
  <2>3. QED BY <2>1, <2>2 DEF s
<1>5. blankRows \in Seq(RowType) /\ Distinct(blankRows) /\ Below(blankRows, 3)
  BY <1>2, <1>4
<1>6. loadedRows \in Seq(RowType) /\ Distinct(loadedRows) /\ Below(loadedRows, 3)
  BY <1>3, <1>4
<1>7. <<[id |-> 1, item |-> FALSE]>> \in Seq(LineType) /\ <<[id |-> 1, item |-> TRUE]>> \in Seq(LineType)
  BY DEF LineType
<1>8. V!Blank = [rows |-> [of |-> "new", is |-> blankRows], next |-> 3,
                 lines |-> <<[id |-> 1, item |-> FALSE]>>, nextLine |-> 2, linesOf |-> "new",
                 party |-> "none", kind |-> "invoice"]
  BY DEF V!Blank
<1>9. V!Loaded = [V!Blank EXCEPT !.rows = [of |-> "V", is |-> loadedRows],
                        !.lines = <<[id |-> 1, item |-> TRUE]>>, !.linesOf = "V", !.party = "own",
                        !.kind = "accounting"]
  BY DEF V!Loaded
<1> HIDE DEF blankRows, loadedRows
<1>10. V!Loaded = [rows |-> [of |-> "V", is |-> loadedRows], next |-> 3,
                 lines |-> <<[id |-> 1, item |-> TRUE]>>, nextLine |-> 2, linesOf |-> "V",
                 party |-> "own", kind |-> "accounting"]
  BY <1>8, <1>9
<1>11. V!Blank \in Contents /\ V!Loaded \in Contents
  BY <1>5, <1>6, <1>7, <1>8, <1>10 DEF Contents, Entries, V!Vouchers
<1>12. QED BY <1>5, <1>6, <1>8, <1>10, <1>11

-----------------------------------------------------------------------------
(* VoucherForm: every step keeps the invariant *)

\* The form is closed, and nothing has been typed.
LEMMA FormInitEstablishes == V!FormInit => FormIInv
<1> SUFFICES ASSUME V!FormInit PROVE FormIInv
  OBVIOUS
<1>1. form = [open |-> FALSE, edit |-> "new", is |-> V!Blank, mixed |-> FALSE, typed |-> 0]
      /\ list = [fetching |-> FALSE, saving |-> FALSE] /\ quick = {} /\ saves = {}
  BY DEF V!FormInit
<1>2. form \in Forms
  BY <1>1, FillingFacts, FormAssumption DEF Forms, V!Vouchers
<1>3. FormTypes
  BY <1>1, <1>2 DEF FormTypes
<1>4. IdsInOrder /\ OwnContent /\ ClosedIsLate
  BY <1>1, FillingFacts DEF IdsInOrder, OwnContent, ClosedIsLate
<1>5. QED BY <1>3, <1>4 DEF FormIInv

\* Steps that leave the form and what it may still hear of.
LEMMA BesidePreserves ==
  ASSUME FormIInv, UNCHANGED form, quick' \subseteq quick,
         list' \in [fetching : BOOLEAN, saving : BOOLEAN], saves' \subseteq GoodSaves
  PROVE  FormIInv'
<1>1. FormTypes'
  BY DEF FormIInv, FormTypes
<1>2. IdsInOrder' /\ OwnContent' /\ ClosedIsLate'
  BY DEF FormIInv, IdsInOrder, OwnContent, ClosedIsLate
<1>3. QED BY <1>1, <1>2 DEF FormIInv

\* A change made in the form: what has to hold of the new content.
LEMMA TypedPreserves ==
  ASSUME FormIInv, NEW content \in Contents, V!Types(content),
         content.next \in {form.is.next, form.is.next + 1},
         ~form.mixed => Distinct(content.rows.is) /\ Below(content.rows.is, content.next),
         content.rows.of = form.is.rows.of, content.linesOf = form.is.linesOf
  PROVE  FormIInv'
<1>1. /\ form \in Forms /\ form.open /\ form.typed < MaxTyped /\ UNCHANGED <<list, quick, saves>>
      /\ form' = [form EXCEPT !.is = content, !.typed = @ + 1]
  BY DEF V!Types, FormIInv, FormTypes
<1>2. form.typed \in Nat /\ form.typed + 1 \in 0..MaxTyped /\ form.is.next \in 3..form.typed + 3
  BY <1>1, FormAssumption DEF Forms, FormIInv, IdsInOrder
<1>3. /\ form' \in Forms /\ form'.open = form.open /\ form'.edit = form.edit /\ form'.mixed = form.mixed
      /\ form'.is = content /\ form'.typed = form.typed + 1
  BY <1>1, <1>2 DEF Forms
<1>4. FormTypes'
  BY <1>1, <1>3 DEF FormIInv, FormTypes
<1>5. content.next \in 3..(form.typed + 1) + 3 /\ form.is.next <= content.next
  BY <1>2
<1>6. ASSUME ~form.mixed, NEW q \in quick, ~q.late
      PROVE  Distinct(q.rows.is) /\ Below(q.rows.is, content.next)
  <2>1. Distinct(q.rows.is) /\ Below(q.rows.is, form.is.next) /\ q.rows.is \in Seq(RowType)
    BY <1>6 DEF FormIInv, FormTypes, IdsInOrder, Quicks, Entries
  <2>2. \A i \in DOMAIN q.rows.is : q.rows.is[i].id \in Nat
    <3>1. \A i \in DOMAIN q.rows.is : q.rows.is[i] \in RowType
      BY <2>1
    <3>2. QED BY <3>1, FormAssumption DEF RowType
  <2>3. QED BY <1>2, <1>5, <2>1, <2>2 DEF Below
<1>7. IdsInOrder'
  BY <1>1, <1>3, <1>5, <1>6 DEF IdsInOrder
<1>8. OwnContent' /\ ClosedIsLate'
  BY <1>1, <1>3 DEF FormIInv, OwnContent, ClosedIsLate
<1>9. QED BY <1>4, <1>7, <1>8 DEF FormIInv

\* A change of the entries that gives out no id.
LEMMA RowsTypedPreserves ==
  ASSUME FormIInv, NEW new \in Seq(RowType), V!Types(V!WithRows(new)),
         Distinct(form.is.rows.is) => Distinct(new),
         Below(form.is.rows.is, form.is.next) => Below(new, form.is.next)
  PROVE  FormIInv'
<1> DEFINE content == V!WithRows(new)
<1>1. form.is \in Contents
  BY DEF FormIInv, FormTypes, Forms
<1>2. /\ content \in Contents /\ content.rows = [of |-> form.is.rows.of, is |-> new]
      /\ content.next = form.is.next /\ content.linesOf = form.is.linesOf
  BY <1>1, WithRowsFacts
<1> HIDE DEF content
<1>3. ~form.mixed => Distinct(content.rows.is) /\ Below(content.rows.is, content.next)
  BY <1>2 DEF FormIInv, IdsInOrder
<1>4. V!Types(content)
  BY DEF content
<1>5. QED BY <1>2, <1>3, <1>4, TypedPreserves

\* A change that leaves the entries.
LEMMA OtherTypedPreserves ==
  ASSUME FormIInv, NEW content \in Contents, V!Types(content), content.rows = form.is.rows,
         content.next = form.is.next, content.linesOf = form.is.linesOf
  PROVE  FormIInv'
<1>1. ~form.mixed => Distinct(content.rows.is) /\ Below(content.rows.is, content.next)
  BY DEF FormIInv, IdsInOrder
<1>2. QED BY <1>1, TypedPreserves

\* The entries' fields are changed: a type, a ledger, an amount, or all of an entry.
LEMMA RowChangePreserves ==
  ASSUME FormIInv, NEW id \in Nat,
         \/ V!SetType(id) \/ V!SetLedger(id) \/ V!RemoveEntry(id)
         \/ \E amount \in 0..MaxAmount : V!SetAmount(id, amount)
  PROVE  FormIInv'
<1> DEFINE rows == form.is.rows.is
<1>1. rows \in Seq(RowType) /\ V!Rows = rows
  BY DEF FormIInv, FormTypes, Forms, Contents, Entries, V!Rows, V!Is
<1> HIDE DEF rows
<1>2. \A i \in DOMAIN rows : rows[i] \in RowType
  BY <1>1
<1>3. ASSUME NEW new, V!Types(V!WithRows(new)), new = [i \in DOMAIN rows |-> new[i]],
             \A i \in DOMAIN rows : new[i] \in RowType /\ new[i].id = rows[i].id
      PROVE  FormIInv'
  <2>1. new \in Seq(RowType) /\ (Distinct(rows) => Distinct(new))
        /\ (Below(rows, form.is.next) => Below(new, form.is.next))
    BY <1>1, <1>3, ChangedFacts
  <2>2. QED BY <1>3, <2>1, RowsTypedPreserves DEF rows
<1>4. CASE V!SetType(id)
  <2> DEFINE F(row) == [row EXCEPT !.type = V!Opposite(@)]
             new == [i \in DOMAIN rows |-> IF rows[i].id = id THEN F(rows[i]) ELSE rows[i]]
  <2>1. \A row \in RowType : F(row) \in RowType /\ F(row).id = row.id
    BY DEF RowType, V!Opposite
  <2>2. V!Types(V!WithRows(new))
    BY <1>1, <1>4 DEF V!SetType, V!Change
  <2> HIDE DEF F
  <2>3. \A i \in DOMAIN rows : new[i] \in RowType /\ new[i].id = rows[i].id
    BY <1>2, <2>1
  <2>4. new = [i \in DOMAIN rows |-> new[i]]
    OBVIOUS
  <2> HIDE DEF new
  <2>5. QED BY <1>3, <2>2, <2>3, <2>4
<1>5. CASE V!SetLedger(id)
  <2> DEFINE F(row) == [row EXCEPT !.named = TRUE]
             new == [i \in DOMAIN rows |-> IF rows[i].id = id THEN F(rows[i]) ELSE rows[i]]
  <2>1. \A row \in RowType : F(row) \in RowType /\ F(row).id = row.id
    BY DEF RowType
  <2>2. V!Types(V!WithRows(new))
    BY <1>1, <1>5 DEF V!SetLedger, V!Change
  <2> HIDE DEF F
  <2>3. \A i \in DOMAIN rows : new[i] \in RowType /\ new[i].id = rows[i].id
    BY <1>2, <2>1
  <2>4. new = [i \in DOMAIN rows |-> new[i]]
    OBVIOUS
  <2> HIDE DEF new
  <2>5. QED BY <1>3, <2>2, <2>3, <2>4
<1>6. CASE V!RemoveEntry(id)
  <2> DEFINE F(row) == [row EXCEPT !.named = FALSE, !.amount = 0]
             new == [i \in DOMAIN rows |-> IF rows[i].id = id THEN F(rows[i]) ELSE rows[i]]
             kept == V!Without(rows, id)
  <2>1. \A row \in RowType : F(row) \in RowType /\ F(row).id = row.id
    BY DEF RowType
  <2>2. \/ V!Types(V!WithRows(new))
        \/ V!Types(V!WithRows(kept))
    BY <1>1, <1>6 DEF V!RemoveEntry, V!Change
  <2> HIDE DEF F
  <2>3. \A i \in DOMAIN rows : new[i] \in RowType /\ new[i].id = rows[i].id
    BY <1>2, <2>1
  <2>4. new = [i \in DOMAIN rows |-> new[i]]
    OBVIOUS
  <2>5. /\ kept \in Seq(RowType) /\ (Distinct(rows) => Distinct(kept))
        /\ \A i \in 1..Len(kept) : \E j \in 1..Len(rows) : kept[i] = rows[j]
    BY <1>1, WithoutFacts
  <2> HIDE DEF new, kept
  <2>6. Below(rows, form.is.next) => Below(kept, form.is.next)
    <3>1. DOMAIN kept = 1..Len(kept) /\ DOMAIN rows = 1..Len(rows)
      BY <1>1, <2>5
    <3>2. QED BY <2>5, <3>1 DEF Below
  <2>7. CASE V!Types(V!WithRows(new))
    BY <1>3, <2>3, <2>4, <2>7
  <2>8. CASE V!Types(V!WithRows(kept))
    BY <2>5, <2>6, <2>8, RowsTypedPreserves DEF rows
  <2>9. QED BY <2>2, <2>7, <2>8
<1>7. ASSUME NEW amount \in 0..MaxAmount, V!SetAmount(id, amount) PROVE FormIInv'
  <2> DEFINE changed == V!Change(id, LAMBDA row : [row EXCEPT !.amount = amount])
             type == V!Rows[CHOOSE i \in DOMAIN V!Rows : V!Rows[i].id = id].type
             empty == {i \in DOMAIN changed : changed[i].type = V!Opposite(type) /\ changed[i].amount = 0}
             first == CHOOSE i \in empty : \A j \in empty : i <= j
             more == [changed EXCEPT ![first].amount = amount]
  <2>1. \A row \in RowType : /\ [row EXCEPT !.amount = amount] \in RowType
                             /\ [row EXCEPT !.amount = amount].id = row.id
    BY FormAssumption DEF RowType
  <2>2. V!Types(V!WithRows(changed)) \/ V!Types(V!WithRows(more))
    BY <1>7 DEF V!SetAmount
  <2>3. changed = [i \in DOMAIN rows |-> IF rows[i].id = id THEN [rows[i] EXCEPT !.amount = amount] ELSE rows[i]]
    BY <1>1 DEF V!Change
  <2> HIDE DEF first, changed
  <2>4. \A i \in DOMAIN rows : changed[i] \in RowType /\ changed[i].id = rows[i].id
    BY <1>2, <2>1, <2>3
  <2>5. changed = [i \in DOMAIN rows |-> changed[i]]
    BY <2>3
  <2>6. more = [i \in DOMAIN rows |-> IF i = first THEN [changed[i] EXCEPT !.amount = amount] ELSE changed[i]]
    BY <2>5
  <2> HIDE DEF more
  <2>7. \A i \in DOMAIN rows : more[i] \in RowType /\ more[i].id = rows[i].id
    BY <2>1, <2>4, <2>6
  <2>8. more = [i \in DOMAIN rows |-> more[i]]
    BY <2>6
  <2>9. CASE V!Types(V!WithRows(changed))
    BY <1>3, <2>4, <2>5, <2>9
  <2>10. CASE V!Types(V!WithRows(more))
    BY <1>3, <2>7, <2>8, <2>10
  <2>11. QED BY <2>2, <2>9, <2>10
<1>8. QED BY <1>4, <1>5, <1>6, <1>7

\* An entry is added, with the next id and for what is missing.
LEMMA AddEntryPreserves == ASSUME FormIInv, V!AddEntry PROVE FormIInv'
<1> DEFINE rows == form.is.rows.is
           row == [V!Row(form.is.next, V!Opposite(V!Last(rows).type)) EXCEPT !.amount = V!Gap(rows)]
           new == Append(rows, row)
           with == V!WithRows(new)
           content == [with EXCEPT !.next = @ + 1]
<1>1. /\ form \in Forms /\ form.is \in Contents /\ rows \in Seq(RowType) /\ V!Rows = rows
      /\ form.is.next \in 3..form.typed + 3
  BY DEF FormIInv, FormTypes, IdsInOrder, Forms, Contents, Entries, V!Rows, V!Is
<1>2. V!Gap(rows) \in 0..MaxAmount /\ V!Types(content)
  BY <1>1 DEF V!AddEntry, V!NextId, V!Is
<1> HIDE DEF rows
<1>3. form.typed < MaxTyped /\ form.typed \in Nat
  BY <1>1, <1>2, FormAssumption DEF V!Types, Forms
<1>4. row \in RowType /\ row.id = form.is.next
  <2>1. form.is.next \in 1..MaxTyped + 2 /\ V!Gap(rows) \in Nat
    BY <1>1, <1>2, <1>3, FormAssumption
  <2>2. V!Opposite(V!Last(rows).type) \in {"Debit", "Credit"}
    BY DEF V!Opposite
  <2>3. QED BY <2>1, <2>2 DEF V!Row, RowType
<1> HIDE DEF row
<1>5. /\ new \in Seq(RowType) /\ DOMAIN rows = 1..Len(rows) /\ Len(rows) \in Nat
      /\ DOMAIN new = 1..Len(rows) + 1 /\ new[Len(rows) + 1] = row
      /\ \A i \in DOMAIN rows : new[i] = rows[i]
  BY <1>1, <1>4
<1> HIDE DEF new
<1>6. /\ with \in Contents /\ with.rows = [of |-> form.is.rows.of, is |-> new]
      /\ with.next = form.is.next /\ with.linesOf = form.is.linesOf
  BY <1>1, <1>5, WithRowsFacts
<1> HIDE DEF with
<1>7. form.is.next + 1 \in Nat /\ form.is.next \in Nat
  BY <1>1, <1>3
<1>8. /\ content \in Contents /\ content.rows = [of |-> form.is.rows.of, is |-> new]
      /\ content.next = form.is.next + 1 /\ content.linesOf = form.is.linesOf
  BY <1>6, <1>7 DEF Contents
<1> HIDE DEF content
<1>9. \A i \in DOMAIN rows : rows[i].id \in Nat
  <2>1. \A i \in DOMAIN rows : rows[i] \in RowType
    BY <1>1
  <2>2. QED BY <2>1, FormAssumption DEF RowType
<1>10. ASSUME ~form.mixed PROVE Distinct(new) /\ Below(new, form.is.next + 1)
  <2>1. Distinct(rows) /\ Below(rows, form.is.next)
    BY <1>10 DEF FormIInv, IdsInOrder, rows
  <2>2. \A i \in DOMAIN rows : new[i].id # form.is.next
    BY <1>5, <1>7, <1>9, <2>1 DEF Below
  <2>3. \A i \in DOMAIN new : i \in DOMAIN rows \/ i = Len(rows) + 1
    BY <1>5
  <2>4. Distinct(new)
    BY <1>4, <1>5, <2>1, <2>2, <2>3 DEF Distinct
  <2>5. Below(new, form.is.next + 1)
    BY <1>4, <1>5, <1>7, <1>9, <2>1, <2>3 DEF Below
  <2>6. QED BY <2>4, <2>5
<1>11. QED BY <1>2, <1>8, <1>10, TypedPreserves

\* Other lines.
LEMMA LinesTypedPreserves ==
  ASSUME FormIInv, NEW new \in Seq(LineType), V!Types([form.is EXCEPT !.lines = new])
  PROVE  FormIInv'
<1> DEFINE content == [form.is EXCEPT !.lines = new]
<1>1. /\ content \in Contents /\ content.rows = form.is.rows
      /\ content.next = form.is.next /\ content.linesOf = form.is.linesOf
  BY DEF FormIInv, FormTypes, Forms, Contents
<1>2. V!Types(content)
  OBVIOUS
<1> HIDE DEF content
<1>3. QED BY <1>1, <1>2, OtherTypedPreserves

\* The lines with an item for one of them.
LEMMA WithItemFacts ==
  ASSUME FormIInv, NEW id PROVE V!WithItem(id) \in Seq(LineType)
<1>1. form.is.lines \in Seq(LineType) /\ V!Lines = form.is.lines
  BY DEF FormIInv, FormTypes, Forms, Contents, V!Lines, V!Is
<1> DEFINE lines == form.is.lines
           new == [i \in DOMAIN lines |-> IF lines[i].id = id THEN [lines[i] EXCEPT !.item = TRUE] ELSE lines[i]]
<1>2. V!WithItem(id) = new
  BY <1>1 DEF V!WithItem
<1> HIDE DEF lines
<1>3. \A i \in DOMAIN lines : lines[i] \in LineType
  BY <1>1 DEF lines
<1>4. \A line \in LineType : [line EXCEPT !.item = TRUE] \in LineType
  BY DEF LineType
<1>5. \A i \in DOMAIN lines : new[i] \in LineType
  BY <1>3, <1>4
<1>6. new = [i \in DOMAIN lines |-> new[i]]
  OBVIOUS
<1> HIDE DEF new
<1>7. QED BY <1>1, <1>2, <1>5, <1>6, ChangedLines DEF lines

\* The changes that leave the entries: the kind of voucher, the party, and the lines.
LEMMA InvoicePreserves ==
  ASSUME FormIInv,
         \/ V!SelectType \/ V!SetParty \/ V!AddLine
         \/ \E id \in Nat : V!SetItem(id) \/ V!RemoveLine(id)
  PROVE  FormIInv'
<1>1. /\ form.is \in Contents /\ form.is.lines \in Seq(LineType) /\ V!Is = form.is
      /\ form.is.nextLine \in Nat
  BY DEF FormIInv, FormTypes, Forms, Contents, V!Is
<1>2. CASE V!SelectType
  <2> DEFINE content == [form.is EXCEPT !.kind = IF @ = "invoice" THEN "accounting" ELSE "invoice"]
  <2>1. /\ content \in Contents /\ content.rows = form.is.rows
        /\ content.next = form.is.next /\ content.linesOf = form.is.linesOf
    BY <1>1 DEF Contents
  <2>2. V!Types(content)
    BY <1>1, <1>2 DEF V!SelectType
  <2> HIDE DEF content
  <2>3. QED BY <2>1, <2>2, OtherTypedPreserves
<1>3. CASE V!SetParty
  <2> DEFINE content == [form.is EXCEPT !.party = "chosen"]
  <2>1. /\ content \in Contents /\ content.rows = form.is.rows
        /\ content.next = form.is.next /\ content.linesOf = form.is.linesOf
    BY <1>1 DEF Contents
  <2>2. V!Types(content)
    BY <1>1, <1>3 DEF V!SetParty
  <2> HIDE DEF content
  <2>3. QED BY <2>1, <2>2, OtherTypedPreserves
<1>4. CASE V!AddLine
  <2> DEFINE more == Append(form.is.lines, [id |-> form.is.nextLine, item |-> FALSE])
             content == [form.is EXCEPT !.lines = more, !.nextLine = @ + 1]
  <2>1. [id |-> form.is.nextLine, item |-> FALSE] \in LineType
    BY <1>1 DEF LineType
  <2>2. more \in Seq(LineType) /\ form.is.nextLine + 1 \in Nat
    BY <1>1, <2>1
  <2>3. V!Types(content)
    BY <1>1, <1>4 DEF V!AddLine
  <2> HIDE DEF more
  <2>4. /\ content \in Contents /\ content.rows = form.is.rows
        /\ content.next = form.is.next /\ content.linesOf = form.is.linesOf
    BY <1>1, <2>2 DEF Contents
  <2> HIDE DEF content
  <2>5. QED BY <2>3, <2>4, OtherTypedPreserves
<1>5. ASSUME NEW id \in Nat, V!SetItem(id) PROVE FormIInv'
  <2>1. V!Types([form.is EXCEPT !.lines = V!WithItem(id)])
    BY <1>1, <1>5 DEF V!SetItem
  <2>2. QED BY <2>1, WithItemFacts, LinesTypedPreserves
<1>6. ASSUME NEW id \in Nat, V!RemoveLine(id) PROVE FormIInv'
  <2>1. V!Types([form.is EXCEPT !.lines = V!Without(form.is.lines, id)])
    BY <1>1, <1>6 DEF V!RemoveLine
  <2>2. V!Without(form.is.lines, id) \in Seq(LineType)
    BY <1>1, WithoutFacts
  <2>3. QED BY <2>1, <2>2, LinesTypedPreserves
<1>7. QED BY <1>2, <1>3, <1>4, <1>5, <1>6

\* The small dialog asks: what it remembers are the entries as they are.
LEMMA AskQuickPreserves ==
  ASSUME FormIInv, NEW kind \in {"ledger", "item"}, NEW target \in Nat, V!AskQuick(kind, target)
  PROVE  FormIInv'
<1> DEFINE entries == IF kind = "ledger" /\ target > 0 THEN form.is.rows ELSE V!Blank.rows
           new == [kind |-> kind, target |-> target, late |-> FALSE, rows |-> entries]
<1>1. /\ form \in Forms /\ form.is \in Contents /\ form.is.rows \in Entries /\ form.open
      /\ form.typed < MaxTyped /\ form.typed \in Nat /\ form.is.next \in 3..form.typed + 3
  BY FormAssumption DEF FormIInv, FormTypes, IdsInOrder, Forms, Contents, V!AskQuick
<1>2. /\ quick' = quick \cup {new} /\ form' = [form EXCEPT !.typed = @ + 1]
      /\ UNCHANGED <<list, saves>>
  BY DEF V!AskQuick, V!Is
<1>3. /\ entries \in Entries
      /\ entries = form.is.rows \/ entries = V!Blank.rows
      /\ kind = "ledger" /\ target > 0 => entries = form.is.rows
  <2>1. V!Blank.rows \in Entries
    BY FillingFacts DEF Contents
  <2>2. QED BY <1>1, <2>1
<1> HIDE DEF entries
<1>4. new \in Quicks /\ new.kind = kind /\ new.target = target /\ ~new.late /\ new.rows = entries
  BY <1>3 DEF Quicks
<1> HIDE DEF new
<1>5. form.typed + 1 \in 0..MaxTyped
  BY <1>1, FormAssumption
<1>6. /\ form' \in Forms /\ form'.open = form.open /\ form'.edit = form.edit /\ form'.mixed = form.mixed
      /\ form'.is = form.is /\ form'.typed = form.typed + 1
  BY <1>1, <1>2, <1>5 DEF Forms
<1>7. FormTypes'
  BY <1>2, <1>4, <1>6 DEF FormIInv, FormTypes
<1>8. ~form.mixed => Distinct(entries.is) /\ Below(entries.is, form.is.next)
  <2>1. Distinct(V!Blank.rows.is) /\ Below(V!Blank.rows.is, form.is.next)
    <3>1. V!Blank.rows.is \in Seq(RowType)
      BY FillingFacts DEF Contents, Entries
    <3>2. \A i \in DOMAIN V!Blank.rows.is : V!Blank.rows.is[i] \in RowType
      BY <3>1
    <3>3. \A i \in DOMAIN V!Blank.rows.is : V!Blank.rows.is[i].id \in Nat
      BY <3>2, FormAssumption DEF RowType
    <3>4. QED BY <1>1, <3>3, FillingFacts DEF Below
  <2>2. QED BY <1>3, <2>1 DEF FormIInv, IdsInOrder
<1>9. form'.is.next \in 3..form'.typed + 3
  BY <1>1, <1>6
<1>10. IdsInOrder'
  BY <1>2, <1>4, <1>6, <1>8, <1>9 DEF FormIInv, IdsInOrder
<1>11. OwnContent' /\ ClosedIsLate'
  BY <1>1, <1>2, <1>3, <1>4, <1>6 DEF FormIInv, OwnContent, ClosedIsLate
<1>12. QED BY <1>7, <1>10, <1>11 DEF FormIInv

\* A new ledger comes into the form, with the entries it was asked among.
LEMMA LedgerArrivesPreserves ==
  ASSUME FormIInv, NEW q \in quick, V!LedgerArrives(q) PROVE FormIInv'
<1>1. /\ form \in Forms /\ form.is \in Contents /\ q \in Quicks /\ q.kind = "ledger" /\ V!Is = form.is
      /\ quick' = quick \ {q} /\ UNCHANGED <<list, saves>>
      /\ q.rows \in Entries /\ q.rows.is \in Seq(RowType) /\ q.late \in BOOLEAN /\ q.target \in Nat
  BY DEF FormIInv, FormTypes, Forms, Contents, Quicks, Entries, V!LedgerArrives, V!Is
<1> DEFINE named == [i \in DOMAIN q.rows.is |-> IF q.rows.is[i].id = q.target
                                               THEN [q.rows.is[i] EXCEPT !.named = TRUE] ELSE q.rows.is[i]]
           back == [q.rows EXCEPT !.is = named]
           chosen == IF q.target = 0 THEN [form.is EXCEPT !.party = "chosen"]
                     ELSE [form.is EXCEPT !.rows = back]
           content == V!PartyAgain(chosen)
<1>2. form' = [form EXCEPT !.mixed = @ \/ q.late, !.is = content]
  BY DEF V!LedgerArrives
<1>3. /\ named \in Seq(RowType) /\ (Distinct(q.rows.is) => Distinct(named))
      /\ \A next : Below(q.rows.is, next) => Below(named, next)
  <2>1. \A i \in DOMAIN q.rows.is : q.rows.is[i] \in RowType
    BY <1>1
  <2>2. \A row \in RowType : [row EXCEPT !.named = TRUE] \in RowType /\ [row EXCEPT !.named = TRUE].id = row.id
    BY DEF RowType
  <2>3. \A i \in DOMAIN q.rows.is : named[i] \in RowType /\ named[i].id = q.rows.is[i].id
    BY <2>1, <2>2
  <2>4. named = [i \in DOMAIN q.rows.is |-> named[i]]
    OBVIOUS
  <2> HIDE DEF named
  <2>5. QED BY <1>1, <2>3, <2>4, ChangedFacts
<1> HIDE DEF named
<1>4. back \in Entries /\ back = [of |-> q.rows.of, is |-> named]
  BY <1>1, <1>3 DEF Entries
<1> HIDE DEF back
<1>5. /\ chosen \in Contents /\ chosen.next = form.is.next /\ chosen.linesOf = form.is.linesOf
      /\ chosen.rows = IF q.target = 0 THEN form.is.rows ELSE back
  BY <1>1, <1>4 DEF Contents
<1> HIDE DEF chosen
<1>6. /\ content \in Contents /\ content.next = form.is.next /\ content.linesOf = form.is.linesOf
      /\ content.rows = IF q.target = 0 THEN form.is.rows ELSE back
  BY <1>5 DEF Contents, V!PartyAgain
<1> HIDE DEF content
<1>7. /\ form' \in Forms /\ form'.open = form.open /\ form'.edit = form.edit
      /\ form'.mixed = (form.mixed \/ q.late) /\ form'.is = content /\ form'.typed = form.typed
  BY <1>1, <1>2, <1>6 DEF Forms
<1>8. FormTypes'
  BY <1>1, <1>7 DEF FormIInv, FormTypes
<1>9. IdsInOrder'
  <2>1. form'.is.next \in 3..form'.typed + 3
    BY <1>6, <1>7 DEF FormIInv, IdsInOrder
  <2>2. ASSUME ~form'.mixed
        PROVE  /\ Distinct(form'.is.rows.is) /\ Below(form'.is.rows.is, form'.is.next)
               /\ \A p \in quick' : ~p.late => Distinct(p.rows.is) /\ Below(p.rows.is, form'.is.next)
    <3>1. ~form.mixed /\ ~q.late
      BY <1>7, <2>2
    <3>2. Distinct(q.rows.is) /\ Below(q.rows.is, form.is.next)
      BY <3>1 DEF FormIInv, IdsInOrder
    <3>3. QED BY <1>1, <1>3, <1>4, <1>6, <1>7, <3>1, <3>2 DEF FormIInv, IdsInOrder
  <2>3. QED BY <2>1, <2>2 DEF IdsInOrder
<1>10. OwnContent'
  <2>1. ASSUME form'.open, ~form'.mixed
        PROVE  /\ form'.is.rows.of = form'.edit /\ form'.is.linesOf = form'.edit
               /\ \A p \in quick' : ~p.late /\ p.kind = "ledger" /\ p.target > 0 => p.rows.of = form'.edit
               /\ \A p \in quick' : ~p.late /\ p.kind = "items" => form'.edit = "V"
    <3>1. form.open /\ ~form.mixed /\ ~q.late
      BY <1>7, <2>1
    <3>2. q.target = 0 \/ q.target > 0
      BY <1>1
    <3>3. QED BY <1>1, <1>4, <1>6, <1>7, <3>1, <3>2 DEF FormIInv, OwnContent
  <2>2. QED BY <2>1 DEF OwnContent
<1>11. ClosedIsLate'
  BY <1>1, <1>7 DEF FormIInv, ClosedIsLate
<1>12. QED BY <1>8, <1>9, <1>10, <1>11 DEF FormIInv

\* A new item comes into the lines.
LEMMA ItemArrivesPreserves ==
  ASSUME FormIInv, NEW q \in quick, V!ItemArrives(q) PROVE FormIInv'
<1>1. /\ form \in Forms /\ form.is \in Contents /\ V!Lines = form.is.lines
      /\ form.is.lines \in Seq(LineType) /\ quick' = quick \ {q} /\ UNCHANGED <<list, saves>>
  BY DEF FormIInv, FormTypes, Forms, Contents, V!ItemArrives, V!Lines, V!Is
<1> DEFINE ids == {V!Lines[i].id : i \in DOMAIN V!Lines}
           empty == {i \in DOMAIN V!Lines : ~V!Lines[i].item}
           first == CHOOSE i \in empty : \A j \in empty : i <= j
           filled == [V!Lines EXCEPT ![first].item = TRUE]
           longer == Append(V!Lines, [id |-> 1 + V!Max(ids \cup {0}), item |-> TRUE])
           new == CASE q.target \in ids -> V!WithItem(q.target)
                    [] q.target \notin ids /\ empty # {} -> filled
                    [] q.target \notin ids /\ empty = {} -> longer
<1>2. form' = [form EXCEPT !.is.lines = new]
  BY DEF V!ItemArrives
<1>3. filled \in Seq(LineType)
  <2> DEFINE lines == form.is.lines
  <2>1. filled = [i \in DOMAIN lines |-> IF i = first THEN [lines[i] EXCEPT !.item = TRUE] ELSE lines[i]]
    <3> HIDE DEF first
    <3>1. QED BY <1>1
  <2> HIDE DEF filled, first
  <2>2. \A i \in DOMAIN lines : lines[i] \in LineType
    BY <1>1
  <2>3. \A line \in LineType : [line EXCEPT !.item = TRUE] \in LineType
    BY DEF LineType
  <2> HIDE DEF lines
  <2>4. \A i \in DOMAIN lines : filled[i] \in LineType
    BY <2>1, <2>2, <2>3
  <2>5. filled = [i \in DOMAIN lines |-> filled[i]]
    BY <2>1
  <2>6. lines \in Seq(LineType)
    BY <1>1 DEF lines
  <2>7. QED BY <2>4, <2>5, <2>6, ChangedLines
<1>4. longer \in Seq(LineType)
  <2> DEFINE greatest == V!Max(ids \cup {0})
  <2>1. greatest \in Nat
    BY <1>1, GreatestId
  <2> HIDE DEF greatest
  <2>2. [id |-> 1 + greatest, item |-> TRUE] \in LineType
    BY <2>1 DEF LineType
  <2>3. Append(form.is.lines, [id |-> 1 + greatest, item |-> TRUE]) \in Seq(LineType)
    BY <1>1, <2>2
  <2>4. QED BY <1>1, <2>3 DEF greatest
<1>5. new = V!WithItem(q.target) \/ new = filled \/ new = longer
  <2> HIDE DEF filled, longer, ids, empty
  <2>1. QED OBVIOUS
<1>6. new \in Seq(LineType)
  <2> HIDE DEF filled, longer, new
  <2>1. QED BY <1>3, <1>4, <1>5, WithItemFacts
<1> HIDE DEF new, ids, empty, first, filled, longer
<1> DEFINE content == [form.is EXCEPT !.lines = new]
<1>7. form' = [form EXCEPT !.is = content]
  BY <1>2
<1>8. /\ content \in Contents /\ content.next = form.is.next /\ content.linesOf = form.is.linesOf
      /\ content.rows = form.is.rows
  BY <1>1, <1>6 DEF Contents
<1> HIDE DEF content
<1>9. /\ form' \in Forms /\ form'.open = form.open /\ form'.edit = form.edit
      /\ form'.mixed = form.mixed /\ form'.is = content /\ form'.typed = form.typed
  BY <1>1, <1>7, <1>8 DEF Forms
<1>10. FormTypes'
  BY <1>1, <1>9 DEF FormIInv, FormTypes
<1>11. IdsInOrder' /\ OwnContent' /\ ClosedIsLate'
  BY <1>1, <1>8, <1>9 DEF FormIInv, IdsInOrder, OwnContent, ClosedIsLate
<1>12. QED BY <1>10, <1>11 DEF FormIInv

\* The stock items asked for when V was opened: V's item may come into the first line.
LEMMA ItemsArrivePreserves ==
  ASSUME FormIInv, NEW q \in quick, V!ItemsArrive(q) PROVE FormIInv'
<1>1. /\ form \in Forms /\ form.is \in Contents /\ V!Lines = form.is.lines
      /\ form.is.lines \in Seq(LineType) /\ quick' = quick \ {q} /\ UNCHANGED <<list, saves>>
      /\ q \in Quicks /\ q.kind = "items" /\ q.late \in BOOLEAN /\ saves \subseteq GoodSaves
      /\ list \in [fetching : BOOLEAN, saving : BOOLEAN]
  BY DEF FormIInv, FormTypes, Forms, Contents, Quicks, V!ItemsArrive, V!Lines, V!Is
<1> DEFINE lines == form.is.lines
           new == [lines EXCEPT ![1].item = TRUE]
           content == [form.is EXCEPT !.lines = new, !.linesOf = "V"]
<1>2. CASE form' = form
  BY <1>1, <1>2, BesidePreserves
<1>3. CASE lines # <<>> /\ form' = [form EXCEPT !.is.lines[1].item = TRUE, !.is.linesOf = "V", !.mixed = @ \/ q.late]
  <2>1. form' = [form EXCEPT !.is = content, !.mixed = @ \/ q.late]
    BY <1>1, <1>3 DEF Forms, Contents
  <2>2. new \in Seq(LineType)
    <3>1. new = [i \in DOMAIN lines |-> IF i = 1 THEN [lines[i] EXCEPT !.item = TRUE] ELSE lines[i]]
      BY <1>1
    <3>2. lines \in Seq(LineType) /\ \A i \in DOMAIN lines : lines[i] \in LineType
      BY <1>1
    <3>3. \A line \in LineType : [line EXCEPT !.item = TRUE] \in LineType
      BY DEF LineType
    <3> HIDE DEF new, lines
    <3>4. \A i \in DOMAIN lines : new[i] \in LineType
      BY <3>1, <3>2, <3>3
    <3>5. new = [i \in DOMAIN lines |-> new[i]]
      BY <3>1
    <3>6. QED BY <3>2, <3>4, <3>5, ChangedLines
  <2> HIDE DEF new
  <2>3. /\ content \in Contents /\ content.next = form.is.next /\ content.linesOf = "V"
        /\ content.rows = form.is.rows
    BY <1>1, <2>2 DEF Contents, V!Vouchers
  <2> HIDE DEF content
  <2>4. /\ form' \in Forms /\ form'.open = form.open /\ form'.edit = form.edit
        /\ form'.mixed = (form.mixed \/ q.late) /\ form'.is = content /\ form'.typed = form.typed
    BY <1>1, <2>1, <2>3 DEF Forms
  <2>5. FormTypes'
    BY <1>1, <2>4 DEF FormIInv, FormTypes
  <2>6. IdsInOrder' /\ ClosedIsLate'
    BY <1>1, <2>3, <2>4 DEF FormIInv, IdsInOrder, ClosedIsLate
  <2>7. OwnContent'
    BY <1>1, <2>3, <2>4 DEF FormIInv, OwnContent
  <2>8. QED BY <2>5, <2>6, <2>7 DEF FormIInv
<1>4. QED BY <1>1, <1>2, <1>3 DEF V!ItemsArrive

\* The form opens, filled anew; or V's answer comes into a form that is open already.
LEMMA OpenPreserves == ASSUME FormIInv, V!Create \/ V!EditArrives PROVE FormIInv'
<1>1. /\ form \in Forms /\ form.is \in Contents /\ list \in [fetching : BOOLEAN, saving : BOOLEAN]
      /\ form.typed \in Nat /\ UNCHANGED saves /\ V!Is = form.is
      /\ list' \in [fetching : BOOLEAN, saving : BOOLEAN]
  <2>1. form \in Forms /\ form.is \in Contents /\ form.typed \in Nat /\ V!Is = form.is
    BY FormAssumption DEF FormIInv, FormTypes, Forms, V!Is
  <2>2. list \in [fetching : BOOLEAN, saving : BOOLEAN]
    BY DEF FormIInv, FormTypes
  <2>3. UNCHANGED saves /\ (list' = list \/ list' = [list EXCEPT !.fetching = FALSE])
    BY DEF V!Create, V!EditArrives
  <2>4. QED BY <2>1, <2>2, <2>3
<1>2. ASSUME NEW of \in V!Vouchers, NEW content \in Contents, ~form.open,
             form' = [form EXCEPT !.open = TRUE, !.edit = of, !.is = content, !.mixed = FALSE],
             content.next = 3, content.rows.of = of, content.linesOf = of,
             Distinct(content.rows.is), Below(content.rows.is, 3),
             quick' = quick \/ (quick' = quick \cup {V!AskedItems} /\ of = "V")
      PROVE  FormIInv'
  <2>1. /\ form' \in Forms /\ form'.open /\ form'.edit = of /\ ~form'.mixed /\ form'.is = content
        /\ form'.typed = form.typed
    BY <1>1, <1>2 DEF Forms
  <2>2. \A q \in quick' : q.late \/ (q = V!AskedItems /\ of = "V")
    BY <1>2 DEF FormIInv, ClosedIsLate
  <2>3. V!AskedItems \in Quicks /\ V!AskedItems.kind = "items" /\ V!AskedItems.rows = V!Blank.rows
    BY FillingFacts DEF V!AskedItems, Quicks, Contents
  <2>4. FormTypes'
    BY <1>1, <1>2, <2>1, <2>3 DEF FormIInv, FormTypes
  <2>5. IdsInOrder'
    BY <1>1, <1>2, <2>1, <2>2, <2>3, FillingFacts DEF IdsInOrder
  <2>6. OwnContent' /\ ClosedIsLate'
    BY <1>1, <1>2, <2>1, <2>2, <2>3 DEF OwnContent, ClosedIsLate
  <2>7. QED BY <2>4, <2>5, <2>6 DEF FormIInv
<1>3. CASE V!Create
  <2>1. /\ ~form.open /\ quick' = quick
        /\ form' = [form EXCEPT !.open = TRUE, !.edit = "new", !.is = V!Blank, !.mixed = FALSE]
    BY <1>3 DEF V!Create, V!FilledWith
  <2>2. "new" \in V!Vouchers
    BY DEF V!Vouchers
  <2>3. QED BY <1>2, <2>1, <2>2, FillingFacts
<1>4. CASE V!EditArrives /\ ~form.open
  <2>1. /\ form' = [form EXCEPT !.open = TRUE, !.edit = "V", !.is = V!Loaded, !.mixed = FALSE]
        /\ quick' = quick \cup {V!AskedItems}
    BY <1>1, <1>4 DEF V!EditArrives, V!FilledWith, Forms
  <2>2. "V" \in V!Vouchers
    BY DEF V!Vouchers
  <2>3. QED BY <1>2, <1>4, <2>1, <2>2, FillingFacts
<1>5. CASE V!EditArrives /\ form.open
  <2> DEFINE content == [form.is EXCEPT !.party = "own"]
  <2>1. /\ form' = [form EXCEPT !.open = TRUE, !.edit = "V", !.is = content, !.mixed = TRUE]
        /\ quick' = quick
    BY <1>1, <1>5 DEF V!EditArrives, Forms
  <2>2. /\ content \in Contents /\ content.next = form.is.next
    BY <1>1 DEF Contents
  <2> HIDE DEF content
  <2>3. /\ form' \in Forms /\ form'.open /\ form'.mixed /\ form'.is = content /\ form'.typed = form.typed
    BY <1>1, <2>1, <2>2 DEF Forms, V!Vouchers
  <2>4. FormTypes'
    BY <1>1, <2>1, <2>3 DEF FormIInv, FormTypes
  <2>5. IdsInOrder' /\ OwnContent' /\ ClosedIsLate'
    BY <2>1, <2>2, <2>3 DEF FormIInv, IdsInOrder, OwnContent, ClosedIsLate
  <2>6. QED BY <2>4, <2>5 DEF FormIInv
<1>6. QED BY <1>3, <1>4, <1>5

\* The form closes: what its small dialogs ask for is late from now on.
LEMMA ClosePreserves ==
  ASSUME FormIInv, form' = [form EXCEPT !.open = FALSE, !.edit = "new"], quick' = V!Late,
         list' \in [fetching : BOOLEAN, saving : BOOLEAN], saves' \subseteq GoodSaves
  PROVE  FormIInv'
<1>1. form \in Forms /\ quick \subseteq Quicks
  BY DEF FormIInv, FormTypes
<1>2. /\ form' \in Forms /\ ~form'.open /\ form'.mixed = form.mixed /\ form'.is = form.is
      /\ form'.typed = form.typed
  BY <1>1 DEF Forms, V!Vouchers
<1>3. quick' = {[q EXCEPT !.late = TRUE] : q \in quick}
  BY DEF V!Late
<1>4. \A q \in Quicks : [q EXCEPT !.late = TRUE] \in Quicks /\ [q EXCEPT !.late = TRUE].late
  BY DEF Quicks
<1>5. quick' \subseteq Quicks /\ \A q \in quick' : q.late
  BY <1>1, <1>3, <1>4
<1>6. FormTypes'
  BY <1>2, <1>5 DEF FormTypes
<1>7. IdsInOrder'
  BY <1>2, <1>5 DEF FormIInv, IdsInOrder
<1>8. OwnContent' /\ ClosedIsLate'
  BY <1>2, <1>5 DEF OwnContent, ClosedIsLate
<1>9. QED BY <1>6, <1>7, <1>8 DEF FormIInv

\* What may be saved is of the voucher it is for.
LEMMA PayloadIsGood == ASSUME FormIInv, form.open PROVE V!Payload \in GoodSaves
<1>1. /\ form \in Forms /\ form.is \in Contents /\ V!Is = form.is
      /\ form.edit \in V!Vouchers /\ form.is.rows.of \in V!Vouchers /\ form.is.linesOf \in V!Vouchers
      /\ form.mixed \in BOOLEAN
  BY DEF FormIInv, FormTypes, Forms, Contents, Entries, V!Is
<1>2. ~form.mixed => form.is.rows.of = form.edit /\ form.is.linesOf = form.edit
  BY DEF FormIInv, OwnContent
<1>3. QED BY <1>1, <1>2 DEF V!Payload, GoodSaves

\* What the list does, what fails, and what is sent and answered.
LEMMA ListPreserves ==
  ASSUME FormIInv,
         \/ V!AskEdit \/ V!EditFails \/ V!Leave \/ V!Save
         \/ \E q \in quick : V!QuickFails(q)
         \/ \E p \in saves : V!Saved(p) \/ V!SaveEnds(p)
  PROVE  FormIInv'
<1>1. list \in [fetching : BOOLEAN, saving : BOOLEAN] /\ saves \subseteq GoodSaves
  BY DEF FormIInv, FormTypes
<1>2. CASE V!AskEdit \/ V!EditFails
  <2>1. list' \in [fetching : BOOLEAN, saving : BOOLEAN] /\ UNCHANGED <<form, quick, saves>>
    BY <1>1, <1>2 DEF V!AskEdit, V!EditFails
  <2>2. QED BY <1>1, <2>1, BesidePreserves
<1>3. CASE V!Leave
  BY <1>1, <1>3, ClosePreserves DEF V!Leave
<1>4. CASE V!Save
  <2>1. V!Payload \in GoodSaves
    BY <1>4, PayloadIsGood DEF V!Save
  <2>2. /\ saves' = saves \cup {V!Payload} /\ list' = [list EXCEPT !.saving = TRUE]
        /\ UNCHANGED <<form, quick>>
    BY <1>4 DEF V!Save
  <2>3. saves' \subseteq GoodSaves /\ list' \in [fetching : BOOLEAN, saving : BOOLEAN]
    BY <1>1, <2>1, <2>2
  <2>4. QED BY <2>2, <2>3, BesidePreserves
<1>5. ASSUME NEW q \in quick, V!QuickFails(q) PROVE FormIInv'
  BY <1>1, <1>5, BesidePreserves DEF V!QuickFails
<1>6. ASSUME NEW p \in saves, V!Saved(p) PROVE FormIInv'
  <2>1. p \in GoodSaves
    BY <1>1
  <2>2. [p EXCEPT !.answered = TRUE] \in GoodSaves
    BY <2>1 DEF GoodSaves
  <2>3. saves' \subseteq GoodSaves /\ list' \in [fetching : BOOLEAN, saving : BOOLEAN]
    BY <1>1, <1>6, <2>2 DEF V!Saved
  <2>4. QED BY <1>6, <2>3, ClosePreserves DEF V!Saved
<1>7. ASSUME NEW p \in saves, V!SaveEnds(p) PROVE FormIInv'
  <2>1. saves' \subseteq GoodSaves /\ list' \in [fetching : BOOLEAN, saving : BOOLEAN]
    BY <1>1, <1>7 DEF V!SaveEnds
  <2>2. QED BY <1>7, <2>1, BesidePreserves DEF V!SaveEnds
<1>8. QED BY <1>2, <1>3, <1>4, <1>5, <1>6, <1>7

\* What is changed in the open form: the ids it is asked with are numbers.
LEMMA ChangePreserves ==
  ASSUME FormIInv,
         \/ V!AddEntry
         \/ \E i \in DOMAIN V!Rows : \/ V!SetType(V!Rows[i].id) \/ V!SetLedger(V!Rows[i].id)
                                     \/ V!RemoveEntry(V!Rows[i].id) \/ V!AskQuick("ledger", V!Rows[i].id)
                                     \/ \E amount \in 0..MaxAmount : V!SetAmount(V!Rows[i].id, amount)
         \/ V!SetParty \/ V!AddLine \/ V!AskQuick("ledger", 0) \/ V!AskQuick("item", 0)
         \/ \E i \in DOMAIN V!Lines : \/ V!SetItem(V!Lines[i].id) \/ V!RemoveLine(V!Lines[i].id)
                                      \/ V!AskQuick("item", V!Lines[i].id)
  PROVE  FormIInv'
<1>1. V!Rows \in Seq(RowType) /\ V!Lines \in Seq(LineType)
  BY DEF FormIInv, FormTypes, Forms, Contents, Entries, V!Rows, V!Lines, V!Is
<1>2. (\A i \in DOMAIN V!Rows : V!Rows[i].id \in Nat) /\ \A i \in DOMAIN V!Lines : V!Lines[i].id \in Nat
  <2>1. (\A i \in DOMAIN V!Rows : V!Rows[i] \in RowType) /\ \A i \in DOMAIN V!Lines : V!Lines[i] \in LineType
    BY <1>1
  <2>2. \A row \in RowType : row.id \in Nat
    BY FormAssumption DEF RowType
  <2>3. \A line \in LineType : line.id \in Nat
    BY DEF LineType
  <2>4. QED BY <2>1, <2>2, <2>3
<1>3. ASSUME NEW i \in DOMAIN V!Rows,
             \/ V!SetType(V!Rows[i].id) \/ V!SetLedger(V!Rows[i].id)
             \/ V!RemoveEntry(V!Rows[i].id) \/ V!AskQuick("ledger", V!Rows[i].id)
             \/ \E amount \in 0..MaxAmount : V!SetAmount(V!Rows[i].id, amount)
      PROVE  FormIInv'
  <2> DEFINE id == V!Rows[i].id
  <2>1. id \in Nat
    BY <1>2
  <2>2. \/ V!SetType(id) \/ V!SetLedger(id) \/ V!RemoveEntry(id)
        \/ \E amount \in 0..MaxAmount : V!SetAmount(id, amount)
        \/ V!AskQuick("ledger", id)
    BY <1>3
  <2> HIDE DEF id
  <2>3. QED BY <2>1, <2>2, RowChangePreserves, AskQuickPreserves
<1>4. ASSUME NEW i \in DOMAIN V!Lines,
             V!SetItem(V!Lines[i].id) \/ V!RemoveLine(V!Lines[i].id) \/ V!AskQuick("item", V!Lines[i].id)
      PROVE  FormIInv'
  <2> DEFINE id == V!Lines[i].id
  <2>1. id \in Nat /\ (V!SetItem(id) \/ V!RemoveLine(id) \/ V!AskQuick("item", id))
    BY <1>2, <1>4
  <2> HIDE DEF id
  <2>2. QED BY <2>1, InvoicePreserves, AskQuickPreserves
<1>5. CASE V!AskQuick("ledger", 0) \/ V!AskQuick("item", 0)
  BY <1>5, AskQuickPreserves
<1>6. QED BY <1>3, <1>4, <1>5, AddEntryPreserves, InvoicePreserves

\* Every step of the page, and of another page, keeps the invariant.
LEMMA FormStepPreserves == FormIInv /\ [Next]_vars => FormIInv'
<1> SUFFICES ASSUME FormIInv, [Next]_vars PROVE FormIInv'
  OBVIOUS
<1>1. CASE V!FormNext
  BY <1>1, OpenPreserves, ListPreserves, ChangePreserves, InvoicePreserves, LedgerArrivesPreserves,
     ItemArrivesPreserves, ItemsArrivePreserves DEF V!FormNext
<1>2. CASE UNCHANGED voucher
  BY <1>2, BesidePreserves DEF voucher, FormIInv, FormTypes
<1>3. QED BY <1>1, <1>2 DEF Next, vars

\* The inductive invariant of the voucher form: as long as no late answer has come into it,
\* the ids in the form are distinct, and what it shows is of the voucher it is for.
THEOREM FormInvariance == Spec => []FormIInv
<1>1. Init => FormIInv
  BY FormInitEstablishes DEF Init
<1>2. QED BY <1>1, FormStepPreserves, PTL DEF Spec

\* The invariant says more than the page's type invariant and its property.
LEMMA FormIInvImplies == ASSUME FormIInv PROVE V!FormTypeOK /\ SavedOnItsOwn
<1>1. V!FormTypeOK
  <2>1. form \in Forms /\ form.is \in Contents /\ form.is.rows \in Entries /\ V!Is = form.is /\ V!Rows = form.is.rows.is
        /\ V!Lines = form.is.lines
    BY DEF FormIInv, FormTypes, Forms, Contents, V!Is, V!Rows, V!Lines
  <2>2. /\ list \in [fetching : BOOLEAN, saving : BOOLEAN]
        /\ form.open \in BOOLEAN /\ form.edit \in V!Vouchers
        /\ form.is.rows.of \in V!Vouchers /\ form.is.linesOf \in V!Vouchers /\ form.typed \in 0..MaxTyped
        /\ form.is.kind \in {"accounting", "invoice"} /\ form.is.party \in {"none", "own", "chosen"}
        /\ form.mixed \in BOOLEAN
    BY <2>1 DEF FormIInv, FormTypes, Forms, Contents, Entries
  <2>3. ~form.mixed => \A i, j \in DOMAIN V!Rows : V!Rows[i].id = V!Rows[j].id => i = j
    BY <2>1 DEF FormIInv, IdsInOrder, Distinct
  <2>4. V!Rows \in Seq(RowType) /\ V!Lines \in Seq(LineType)
    BY <2>1 DEF Contents, Entries
  <2>5. QED BY <2>1, <2>2, <2>3, <2>4 DEF V!FormTypeOK, RowType, LineType
<1>2. \A p \in saves : p \in GoodSaves
  BY DEF FormIInv, FormTypes
<1>3. \A p \in GoodSaves : p.mixed \/ p.of = p.to
  BY DEF GoodSaves
<1>4. QED BY <1>1, <1>2, <1>3 DEF SavedOnItsOwn, V!SavedOnItsOwn

\* What is saved as an alteration is of the voucher altered, and a new voucher is not, unless
\* an answer - the voucher's, a new ledger's, or that of the stock items asked for with the
\* voucher - asked for before the form opened has come into it.
THEOREM SavedOnItsOwnCorrect == Spec => []SavedOnItsOwn
<1>1. QED BY FormInvariance, FormIInvImplies, PTL

-----------------------------------------------------------------------------
(* Tracking: the invariant *)

Phones == [running : BOOLEAN, token : Sessions \cup {Nobody}, flag : BOOLEAN, granted : BOOLEAN]
Runs == [token : Sessions, stage : T!Stages, open : BOOLEAN]
Watches == [on : SUBSET Sessions, current : Sessions \cup {Nobody}, told : Sessions \cup {Nobody},
            removing : Sessions \cup {Nobody}, slip : BOOLEAN]
Pings == [token : Sessions, mine : BOOLEAN, over : BOOLEAN]
Services == [on : BOOLEAN, active : BOOLEAN, token : Sessions \cup {Nobody}, pings : SUBSET Pings,
             ended : BOOLEAN, late : BOOLEAN, overtaken : BOOLEAN]
Shifts == [live : SUBSET Sessions, used : SUBSET Sessions, shift : SUBSET T!Workers, shifts : 0..MaxShifts]

TrackingTypes ==
  /\ phone \in Phones /\ starts \subseteq Runs /\ watch \in Watches /\ service \in Services
  /\ shifts \in Shifts /\ shifts.live \subseteq shifts.used

\* The service, running or marked to be brought back, has somebody's token: it was started.
ServiceKept ==
  /\ service.on \/ service.active => service.token \in Sessions
  /\ StopLasts /\ FollowsSignedIn

\* While no additions overlapped and no removal failed: where one is being added no other is
\* known or being added, and the one being removed is the one known.
WatchKept ==
  ~watch.slip =>
     /\ watch.on \subseteq {watch.current} /\ watch.removing \in {Nobody, watch.current}
     /\ \A r \in starts : r.stage = "add" => watch.current = Nobody
     /\ \A r, o \in starts : r.stage = "add" /\ o.stage = "add" => r = o

TrackingIInv == TrackingTypes /\ ServiceKept /\ WatchKept

-----------------------------------------------------------------------------
(* Tracking: every step keeps the invariant *)

\* Nothing is running yet.
LEMMA TrackingInitEstablishes == T!TrackingInit => TrackingIInv
<1> SUFFICES ASSUME T!TrackingInit PROVE TrackingIInv
  OBVIOUS
<1> USE DEF T!TrackingInit
<1>1. TrackingTypes
  BY TrackingAssumption DEF TrackingTypes, Phones, Runs, Watches, Services, Shifts, T!NoWatch
<1>2. ServiceKept
  BY DEF ServiceKept, StopLasts, FollowsSignedIn, T!StopLasts, T!FollowsSignedIn
<1>3. WatchKept
  BY DEF WatchKept, T!NoWatch
<1>4. QED BY <1>1, <1>2, <1>3 DEF TrackingIInv

\* A ping of an earlier run is a ping.
LEMMA OrphanedType == ASSUME NEW pings \in SUBSET Pings PROVE T!Orphaned(pings) \in SUBSET Pings
<1>1. \A p \in Pings : [p EXCEPT !.mine = FALSE] \in Pings
  BY DEF Pings
<1>2. QED BY <1>1 DEF T!Orphaned

\* A stop, or nothing, is done to the service; whoever is signed in may leave after a stop.
LEMMA StopPreserves ==
  ASSUME TrackingIInv, service' = T!Stopped \/ (UNCHANGED service /\ phone'.token = phone.token)
  PROVE  service' \in Services /\ ServiceKept'
<1>1. service \in Services /\ ServiceKept
  BY DEF TrackingIInv, TrackingTypes
<1> USE DEF ServiceKept, StopLasts, FollowsSignedIn, T!StopLasts, T!FollowsSignedIn
<1>2. CASE service' = T!Stopped
  <2>1. T!Orphaned(service.pings) \in SUBSET Pings
    BY <1>1, OrphanedType DEF Services
  <2>2. /\ service' \in Services /\ ~service'.on /\ ~service'.active /\ service'.ended
    BY <1>1, <1>2, <2>1 DEF T!Stopped, Services
  <2>3. QED BY <2>2
<1>3. CASE UNCHANGED service /\ phone'.token = phone.token
  BY <1>1, <1>3
<1>4. QED BY <1>2, <1>3

\* The service is started, for the session signed in or overtaken.
LEMMA StartPreserves ==
  ASSUME TrackingIInv, NEW s \in Sessions, NEW on \in BOOLEAN, T!Started(s, on), phone'.token = phone.token
  PROVE  service' \in Services /\ ServiceKept'
<1> DEFINE left == IF on THEN service.pings ELSE T!Orphaned(service.pings)
           overtaken == s # phone.token
<1>1. left \in SUBSET Pings
  BY OrphanedType DEF TrackingIInv, TrackingTypes, Services
<1>2. service' = [on |-> on, active |-> TRUE, token |-> s, pings |-> left,
                  ended |-> FALSE, late |-> FALSE, overtaken |-> overtaken]
  BY DEF T!Started
<1> HIDE DEF left
<1>3. overtaken \in BOOLEAN /\ (s = phone'.token \/ overtaken)
  OBVIOUS
<1> HIDE DEF overtaken
<1>4. service' \in Services
  BY <1>1, <1>2, <1>3 DEF Services
<1>5. ServiceKept'
  BY <1>2, <1>3 DEF ServiceKept, StopLasts, FollowsSignedIn, T!StopLasts, T!FollowsSignedIn
<1>6. QED BY <1>4, <1>5

\* The watchers are left, and none begins to be added.
LEMMA WatchLeft ==
  ASSUME TrackingIInv, UNCHANGED watch, \A r \in starts' : r.stage = "add" => r \in starts
  PROVE  watch' \in Watches /\ WatchKept'
  BY DEF TrackingIInv, TrackingTypes, WatchKept

\* A run of the effect starts by asking.
LEMMA RunType ==
  ASSUME NEW s \in Sessions PROVE T!Run(s) \subseteq Runs /\ \A r \in T!Run(s) : r.stage # "add"
  BY DEF T!Run, Runs, T!Stages

\* The steps of the app and its session.
LEMMA SessionPreserves ==
  ASSUME TrackingIInv,
         \/ T!SignOut \/ T!Swipe \/ T!Killed \/ T!Launch \/ T!Grant
         \/ \E s \in Sessions : T!SignIn(s) \/ T!EndSession(s)
  PROVE  TrackingIInv'
<1>1. /\ phone \in Phones /\ starts \subseteq Runs /\ watch \in Watches /\ service \in Services
      /\ shifts \in Shifts /\ shifts.live \subseteq shifts.used /\ ServiceKept
  BY DEF TrackingIInv, TrackingTypes
<1>2. CASE T!SignOut
  <2>1. phone' \in Phones /\ starts' \subseteq Runs
    BY <1>1, <1>2 DEF T!SignOut, Phones
  <2>2. shifts' \in Shifts /\ shifts'.live \subseteq shifts'.used
    BY <1>1, <1>2 DEF T!SignOut, Shifts
  <2>3. service' \in Services /\ ServiceKept'
    BY <1>2, StopPreserves DEF T!SignOut
  <2>4. watch' \in Watches /\ WatchKept'
    BY <1>2, WatchLeft DEF T!SignOut
  <2>5. QED BY <2>1, <2>2, <2>3, <2>4 DEF TrackingIInv, TrackingTypes
<1>3. ASSUME T!PageGone, shifts' = shifts, service' \in Services, ServiceKept' PROVE TrackingIInv'
  <2>1. phone' \in Phones /\ starts' \subseteq Runs
    BY <1>1, <1>3 DEF T!PageGone, Phones
  <2>2. watch' \in Watches /\ WatchKept'
    BY <1>3 DEF T!PageGone, T!NoWatch, Watches, WatchKept
  <2>3. QED BY <1>1, <1>3, <2>1, <2>2 DEF TrackingIInv, TrackingTypes
<1>4. CASE T!Swipe
  <2>1. phone'.token = phone.token
    BY <1>1, <1>4 DEF T!Swipe, T!PageGone, Phones
  <2>2. QED BY <1>3, <1>4, <2>1, StopPreserves DEF T!Swipe
<1>5. CASE T!Killed
  <2>1. phone'.token = phone.token /\ service' = [service EXCEPT !.on = FALSE, !.pings = {}]
    BY <1>1, <1>5 DEF T!Killed, T!PageGone, Phones
  <2>2. /\ service' \in Services /\ ~service'.on /\ service'.active = service.active
        /\ service'.token = service.token /\ service'.ended = service.ended
        /\ service'.late = service.late /\ service'.overtaken = service.overtaken
    BY <1>1, <2>1 DEF Services
  <2>3. ServiceKept'
    BY <1>1, <2>1, <2>2 DEF ServiceKept, StopLasts, FollowsSignedIn, T!StopLasts, T!FollowsSignedIn
  <2>4. QED BY <1>3, <1>5, <2>2, <2>3 DEF T!Killed
<1>6. CASE T!Launch
  <2>1. phone.token \in Sessions \cup {Nobody}
    BY <1>1 DEF Phones
  <2>2. starts' \subseteq Runs /\ \A r \in starts' : r.stage # "add"
    BY <1>6, <2>1, RunType DEF T!Launch
  <2>3. phone' \in Phones /\ phone'.token = phone.token
    BY <1>1, <1>6 DEF T!Launch, Phones
  <2>4. QED
    BY <1>1, <1>6, <2>2, <2>3, StopPreserves, WatchLeft DEF T!Launch, TrackingIInv, TrackingTypes
<1>7. CASE T!Grant
  <2>1. phone' \in Phones /\ phone'.token = phone.token
    BY <1>1, <1>7 DEF T!Grant, Phones
  <2>2. QED BY <1>1, <1>7, <2>1, StopPreserves, WatchLeft DEF T!Grant, TrackingIInv, TrackingTypes
<1>8. ASSUME NEW s \in Sessions, T!SignIn(s) PROVE TrackingIInv'
  <2>1. starts' \subseteq Runs /\ \A r \in starts' : r.stage = "add" => r \in starts
    BY <1>1, <1>8, RunType DEF T!SignIn
  <2>2. phone' \in Phones /\ phone.token = Nobody
    BY <1>1, <1>8 DEF T!SignIn, Phones
  <2>3. shifts' \in Shifts /\ shifts'.live \subseteq shifts'.used
    BY <1>1, <1>8 DEF T!SignIn, Shifts
  <2>4. service' = service
    BY <1>8 DEF T!SignIn
  <2>5. service' \in Services /\ ServiceKept'
    BY <1>1, <2>2, <2>4, TrackingAssumption
    DEF ServiceKept, StopLasts, FollowsSignedIn, T!StopLasts, T!FollowsSignedIn, Sessions
  <2>6. watch' \in Watches /\ WatchKept'
    BY <1>8, <2>1, WatchLeft DEF T!SignIn
  <2>7. QED BY <2>1, <2>2, <2>3, <2>5, <2>6 DEF TrackingIInv, TrackingTypes
<1>9. ASSUME NEW s \in Sessions, T!EndSession(s) PROVE TrackingIInv'
  <2>1. shifts' \in Shifts /\ shifts'.live \subseteq shifts'.used
    BY <1>1, <1>9 DEF T!EndSession, Shifts
  <2>2. QED BY <1>1, <1>9, <2>1, StopPreserves, WatchLeft DEF T!EndSession, TrackingIInv, TrackingTypes
<1>10. QED BY <1>2, <1>4, <1>5, <1>6, <1>7, <1>8, <1>9

\* The steps of a shift: opened and closed, here or elsewhere.
LEMMA ShiftPreserves ==
  ASSUME TrackingIInv, (\E in \in BOOLEAN : T!Punch(in)) \/ \E p \in T!Workers : T!PunchElsewhere(p)
  PROVE  TrackingIInv'
<1>1. /\ phone \in Phones /\ starts \subseteq Runs /\ shifts \in Shifts
      /\ shifts.live \subseteq shifts.used
  BY DEF TrackingIInv, TrackingTypes
<1>2. \A s \in Sessions : Owner[s] \in T!Workers
  BY DEF T!Workers
<1>3. ASSUME NEW p \in T!Workers,
             \/ shifts' = [shifts EXCEPT !.shift = @ \ {p}]
             \/ shifts.shifts < MaxShifts /\ shifts' = [shifts EXCEPT !.shift = @ \cup {p}, !.shifts = @ + 1]
      PROVE  shifts' \in Shifts /\ shifts'.live \subseteq shifts'.used
  <2>1. shifts.shift \ {p} \in SUBSET T!Workers /\ shifts.shift \cup {p} \in SUBSET T!Workers
    BY <1>1 DEF Shifts
  <2>2. shifts.shifts < MaxShifts => shifts.shifts + 1 \in 0..MaxShifts
    BY <1>1, TrackingAssumption DEF Shifts
  <2>3. CASE shifts' = [shifts EXCEPT !.shift = @ \ {p}]
    BY <1>1, <2>1, <2>3 DEF Shifts
  <2>4. CASE shifts.shifts < MaxShifts /\ shifts' = [shifts EXCEPT !.shift = @ \cup {p}, !.shifts = @ + 1]
    BY <1>1, <2>1, <2>2, <2>4 DEF Shifts
  <2>5. QED BY <1>3, <2>3, <2>4
<1>4. ASSUME NEW in \in BOOLEAN, T!Punch(in) PROVE TrackingIInv'
  <2> DEFINE run == [token |-> phone.token, open |-> in, stage |-> IF in THEN "in" ELSE "out"]
  <2>1. phone.token \in Sessions /\ starts' = starts \cup {run} /\ UNCHANGED <<phone, watch, service>>
    BY <1>1, <1>4 DEF T!Punch, Shifts
  <2>2. run \in Runs /\ run.stage # "add"
    BY <2>1 DEF Runs, T!Stages
  <2> HIDE DEF run
  <2>3. \/ shifts' = [shifts EXCEPT !.shift = @ \ {Owner[phone.token]}]
        \/ shifts.shifts < MaxShifts
             /\ shifts' = [shifts EXCEPT !.shift = @ \cup {Owner[phone.token]}, !.shifts = @ + 1]
    BY <1>4 DEF T!Punch
  <2>4. shifts' \in Shifts /\ shifts'.live \subseteq shifts'.used
    BY <1>2, <1>3, <2>1, <2>3
  <2>5. starts' \subseteq Runs /\ \A r \in starts' : r.stage = "add" => r \in starts
    BY <1>1, <2>1, <2>2
  <2>6. QED BY <1>1, <2>1, <2>4, <2>5, StopPreserves, WatchLeft DEF TrackingIInv, TrackingTypes
<1>5. ASSUME NEW p \in T!Workers, T!PunchElsewhere(p) PROVE TrackingIInv'
  <2>1. /\ UNCHANGED <<phone, starts, watch, service>>
        /\ shifts' \in Shifts /\ shifts'.live \subseteq shifts'.used
    BY <1>3, <1>5 DEF T!PunchElsewhere
  <2>2. QED BY <1>1, <2>1, StopPreserves, WatchLeft DEF TrackingIInv, TrackingTypes
<1>6. QED BY <1>4, <1>5

\* The service's pings, their answers, and Android bringing it back.
LEMMA ServicePreserves ==
  ASSUME TrackingIInv,
         \/ T!ServicePing \/ T!Resumed
         \/ \E p \in service.pings : T!PingAnswered(p) \/ T!PingHeard(p)
  PROVE  TrackingIInv'
<1>1. service \in Services /\ ServiceKept
  BY DEF TrackingIInv, TrackingTypes
<1>2. ASSUME service' \in Services, ServiceKept', UNCHANGED <<phone, starts, watch, shifts>>
      PROVE  TrackingIInv'
  BY <1>2, WatchLeft DEF TrackingIInv, TrackingTypes
<1>3. ASSUME NEW left \in SUBSET Pings, UNCHANGED phone, service' = [service EXCEPT !.pings = left]
      PROVE  service' \in Services /\ ServiceKept'
  <2>1. /\ service' \in Services /\ service'.on = service.on /\ service'.active = service.active
        /\ service'.token = service.token /\ service'.ended = service.ended
        /\ service'.late = service.late /\ service'.overtaken = service.overtaken
    BY <1>1, <1>3 DEF Services
  <2>2. QED
    BY <1>1, <1>3, <2>1 DEF ServiceKept, StopLasts, FollowsSignedIn, T!StopLasts, T!FollowsSignedIn
<1>4. CASE T!ServicePing
  <2> DEFINE ping == [token |-> service.token, mine |-> TRUE, over |-> FALSE]
             left == service.pings \cup {ping}
  <2>1. service.token \in Sessions
    BY <1>1, <1>4 DEF T!ServicePing, ServiceKept
  <2>2. ping \in Pings /\ service.pings \in SUBSET Pings
    BY <1>1, <2>1 DEF Services, Pings
  <2>3. service' = [service EXCEPT !.pings = left] /\ UNCHANGED <<phone, starts, watch, shifts>>
    BY <1>4 DEF T!ServicePing
  <2> HIDE DEF ping
  <2>4. left \in SUBSET Pings
    BY <2>2
  <2> HIDE DEF left
  <2>5. QED BY <1>2, <1>3, <2>3, <2>4
<1>5. CASE T!Resumed
  <2> DEFINE left == IF service.active THEN service.pings ELSE T!Orphaned(service.pings)
  <2>1. left \in SUBSET Pings
    BY <1>1, OrphanedType DEF Services
  <2>2. /\ service' = [service EXCEPT !.on = service.active, !.pings = left]
        /\ service.on # service.active /\ UNCHANGED <<phone, starts, watch, shifts>>
    BY <1>5 DEF T!Resumed
  <2> HIDE DEF left
  <2>3. /\ service' \in Services /\ service'.on = service.active /\ service'.active = service.active
        /\ service'.token = service.token /\ service'.ended = service.ended
        /\ service'.late = service.late /\ service'.overtaken = service.overtaken
    BY <1>1, <2>1, <2>2 DEF Services
  <2>4. ServiceKept'
    BY <1>1, <2>2, <2>3 DEF ServiceKept, StopLasts, FollowsSignedIn, T!StopLasts, T!FollowsSignedIn
  <2>5. QED BY <1>2, <2>2, <2>3, <2>4
<1>6. ASSUME NEW p \in service.pings, T!PingAnswered(p) PROVE TrackingIInv'
  <2> DEFINE over == [p EXCEPT !.over = TRUE]
             fewer == service.pings \ {p}
             left == fewer \cup {over}
  <2>1. over \in Pings /\ fewer \in SUBSET Pings
    BY <1>1 DEF Services, Pings
  <2>2. left \in SUBSET Pings
    BY <2>1
  <2>3. /\ service' = [service EXCEPT !.pings = fewer] \/ service' = [service EXCEPT !.pings = left]
        /\ UNCHANGED <<phone, starts, watch, shifts>>
    BY <1>6 DEF T!PingAnswered
  <2> HIDE DEF left, fewer
  <2>4. QED BY <1>2, <1>3, <2>1, <2>2, <2>3
<1>7. ASSUME NEW p \in service.pings, T!PingHeard(p) PROVE TrackingIInv'
  <2> DEFINE left == service.pings \ {p}
             gone == T!Orphaned(left)
  <2>1. left \in SUBSET Pings /\ gone \in SUBSET Pings
    BY <1>1, OrphanedType DEF Services
  <2>2. /\ \/ service' = [T!Stopped EXCEPT !.pings = gone]
           \/ service' = [service EXCEPT !.active = FALSE, !.pings = left, !.late = TRUE]
        /\ UNCHANGED <<phone, starts, watch, shifts>>
    BY <1>7 DEF T!PingHeard
  <2> HIDE DEF left, gone
  <2>3. CASE service' = [T!Stopped EXCEPT !.pings = gone]
    <3>1. T!Orphaned(service.pings) \in SUBSET Pings
      BY <1>1, OrphanedType DEF Services
    <3>2. T!Stopped \in Services /\ ~T!Stopped.on /\ ~T!Stopped.active /\ T!Stopped.ended
      BY <1>1, <3>1 DEF T!Stopped, Services
    <3>3. service' \in Services /\ ~service'.on /\ ~service'.active /\ service'.ended
      BY <2>1, <2>3, <3>2 DEF Services
    <3>4. ServiceKept'
      BY <3>3 DEF ServiceKept, StopLasts, FollowsSignedIn, T!StopLasts, T!FollowsSignedIn
    <3>5. QED BY <1>2, <2>2, <3>3, <3>4
  <2>4. CASE service' = [service EXCEPT !.active = FALSE, !.pings = left, !.late = TRUE]
    <3>1. /\ service' \in Services /\ service'.on = service.on /\ ~service'.active
          /\ service'.token = service.token /\ service'.ended = service.ended
          /\ service'.late /\ service'.overtaken = service.overtaken
      BY <1>1, <2>1, <2>4 DEF Services
    <3>2. ServiceKept'
      BY <1>1, <2>2, <3>1 DEF ServiceKept, StopLasts, FollowsSignedIn, T!StopLasts, T!FollowsSignedIn
    <3>3. QED BY <1>2, <2>2, <3>1, <3>2
  <2>5. QED BY <2>2, <2>3, <2>4
<1>8. QED BY <1>4, <1>5, <1>6, <1>7

\* A watcher's ping, its answer, and the removal that follows, which may fail.
LEMMA WatcherPreserves ==
  ASSUME TrackingIInv, T!WatcherHears \/ T!Removed \/ \E s \in Sessions : T!WatcherPing(s)
  PROVE  TrackingIInv'
<1>1. phone \in Phones /\ watch \in Watches /\ WatchKept
  BY DEF TrackingIInv, TrackingTypes
<1>2. ASSUME watch' \in Watches, WatchKept', UNCHANGED <<starts, service, shifts>>,
             phone' \in Phones, phone'.token = phone.token
      PROVE  TrackingIInv'
  BY <1>2, StopPreserves DEF TrackingIInv, TrackingTypes
<1>3. ASSUME NEW s \in Sessions, T!WatcherPing(s) PROVE TrackingIInv'
  <2>1. watch' = [watch EXCEPT !.told = s] /\ UNCHANGED <<phone, starts, service, shifts>>
    BY <1>3 DEF T!WatcherPing
  <2>2. /\ watch' \in Watches /\ watch'.on = watch.on /\ watch'.current = watch.current
        /\ watch'.removing = watch.removing /\ watch'.slip = watch.slip
    BY <1>1, <2>1 DEF Watches
  <2>3. WatchKept'
    BY <1>1, <2>1, <2>2 DEF WatchKept
  <2>4. QED BY <1>1, <1>2, <2>1, <2>2, <2>3
<1>4. CASE T!WatcherHears
  <2>1. /\ watch' = [watch EXCEPT !.told = Nobody, !.removing = watch.current]
        /\ phone' = [phone EXCEPT !.flag = FALSE] /\ UNCHANGED <<starts, service, shifts>>
    BY <1>4 DEF T!WatcherHears
  <2>2. /\ watch' \in Watches /\ watch'.on = watch.on /\ watch'.current = watch.current
        /\ watch'.removing = watch.current /\ watch'.slip = watch.slip
    BY <1>1, <2>1 DEF Watches
  <2>3. WatchKept'
    BY <1>1, <2>1, <2>2 DEF WatchKept
  <2>4. phone' \in Phones /\ phone'.token = phone.token
    BY <1>1, <2>1 DEF Phones
  <2>5. QED BY <1>2, <2>1, <2>2, <2>3, <2>4
<1>5. CASE T!Removed
  <2>1. PICK failed \in BOOLEAN :
            watch' = [on |-> IF failed THEN watch.on ELSE watch.on \ {watch.removing},
                      current |-> Nobody, told |-> Nobody, removing |-> Nobody,
                      slip |-> watch.slip \/ failed]
    BY <1>5 DEF T!Removed
  <2>2. watch.removing # Nobody /\ UNCHANGED <<phone, starts, service, shifts>>
    BY <1>5 DEF T!Removed
  <2> DEFINE left == IF failed THEN watch.on ELSE watch.on \ {watch.removing}
             slip == watch.slip \/ failed
  <2>3. left \in SUBSET Sessions /\ slip \in BOOLEAN
    BY <1>1 DEF Watches
  <2>4. ~slip => ~watch.slip /\ left = watch.on \ {watch.removing}
    OBVIOUS
  <2>5. watch' = [on |-> left, current |-> Nobody, told |-> Nobody, removing |-> Nobody, slip |-> slip]
    BY <2>1
  <2> HIDE DEF left, slip
  <2>6. /\ watch' \in Watches /\ watch'.on = left /\ watch'.current = Nobody
        /\ watch'.removing = Nobody /\ watch'.slip = slip
    BY <2>3, <2>5 DEF Watches
  <2>7. WatchKept'
    BY <1>1, <2>2, <2>4, <2>6 DEF WatchKept
  <2>8. QED BY <1>1, <1>2, <2>2, <2>6, <2>7
<1>6. QED BY <1>3, <1>4, <1>5

\* The steps of the effect that starts the tracking, and of a punch's answer.
LEMMA RunPreserves ==
  ASSUME TrackingIInv, NEW r \in starts,
         T!Asked(r) \/ T!Told(r) \/ T!Offline(r) \/ T!StartService(r) \/ T!StartWatch(r)
           \/ T!Added(r) \/ T!Fails(r) \/ T!PunchedIn(r) \/ T!PunchedOut(r)
  PROVE  TrackingIInv'
<1>1. /\ phone \in Phones /\ starts \subseteq Runs /\ watch \in Watches /\ service \in Services
      /\ shifts \in Shifts /\ r \in Runs /\ r.token \in Sessions /\ r.open \in BOOLEAN /\ WatchKept
  BY DEF TrackingIInv, TrackingTypes, Runs
<1>2. \A stage \in T!Stages : [r EXCEPT !.stage = stage] \in Runs /\ [r EXCEPT !.stage = stage].stage = stage
  BY <1>1 DEF Runs
<1>3. UNCHANGED shifts
  BY DEF T!Asked, T!Told, T!Offline, T!StartService, T!StartWatch, T!Added, T!Fails, T!PunchedIn, T!PunchedOut
<1>4. phone' \in Phones /\ phone'.token = phone.token
  <2>1. \E flag \in BOOLEAN : phone' \in {phone, [phone EXCEPT !.flag = flag], [phone EXCEPT !.granted = TRUE]}
    BY <1>1 DEF T!Asked, T!Told, T!Offline, T!StartService, T!StartWatch, T!Added, T!Fails, T!PunchedIn,
       T!PunchedOut
  <2>2. QED BY <1>1, <2>1 DEF Phones
<1>5. service' \in Services /\ ServiceKept'
  <2>1. \/ service' = T!Stopped \/ UNCHANGED service
        \/ \E on \in BOOLEAN : T!Started(r.token, on)
    <3>1. service.on \in BOOLEAN
      BY <1>1 DEF Services
    <3>2. QED
      BY <3>1 DEF T!Asked, T!Told, T!Offline, T!StartService, T!StartWatch, T!Added, T!Fails, T!PunchedIn,
         T!PunchedOut
  <2>2. QED BY <1>1, <1>4, <2>1, StopPreserves, StartPreserves
<1>6. CASE \/ T!Asked(r) \/ T!Told(r) \/ T!Offline(r) \/ T!StartService(r) \/ T!Fails(r)
           \/ T!PunchedIn(r) \/ T!PunchedOut(r)
  <2>1. UNCHANGED watch
    BY <1>6 DEF T!Asked, T!Told, T!Offline, T!StartService, T!Fails, T!PunchedIn, T!PunchedOut
  <2> DEFINE told == [r EXCEPT !.stage = "told", !.open = T!OnShift(r.token)]
  <2>2. told \in Runs /\ told.stage = "told"
    <3>1. T!OnShift(r.token) \in BOOLEAN
      BY DEF T!OnShift
    <3> HIDE DEF T!OnShift
    <3>2. QED BY <1>1, <3>1 DEF Runs, T!Stages
  <2>3. \/ starts' = starts \ {r} \/ starts' = (starts \ {r}) \cup {told}
        \/ \E stage \in {"start", "watch"} : starts' = (starts \ {r}) \cup {[r EXCEPT !.stage = stage]}
    <3> HIDE DEF told
    <3>1. CASE T!Asked(r)
      BY <3>1 DEF T!Asked, told
    <3>2. CASE ~T!Asked(r)
      BY <1>6, <3>2 DEF T!Told, T!Offline, T!StartService, T!Fails, T!PunchedIn, T!PunchedOut, T!Moves, T!Done
    <3>3. QED BY <3>1, <3>2
  <2> HIDE DEF told
  <2>4. {"start", "watch"} \subseteq T!Stages
    BY DEF T!Stages
  <2>5. starts' \subseteq Runs /\ \A o \in starts' : o.stage = "add" => o \in starts
    BY <1>1, <1>2, <2>2, <2>3, <2>4
  <2>6. watch' \in Watches /\ WatchKept'
    BY <2>1, <2>5, WatchLeft
  <2>7. QED BY <1>3, <1>4, <1>5, <2>5, <2>6 DEF TrackingIInv, TrackingTypes
<1>7. CASE T!StartWatch(r)
  <2>1. CASE T!AlreadyWatching
    <3>1. starts' = starts \ {r} /\ UNCHANGED watch
      BY <1>7, <2>1 DEF T!StartWatch, T!Done
    <3>2. watch' \in Watches /\ WatchKept'
      BY <3>1, WatchLeft
    <3>3. QED BY <1>1, <1>3, <1>4, <1>5, <3>1, <3>2 DEF TrackingIInv, TrackingTypes
  <2>2. CASE ~T!AlreadyWatching
    <3> DEFINE add == [r EXCEPT !.stage = "add"]
               slip == watch.slip \/ \E o \in starts : o.stage = "add"
    <3>1. starts' = (starts \ {r}) \cup {add} /\ watch' = [watch EXCEPT !.slip = slip]
      BY <1>7, <2>2 DEF T!StartWatch, T!Moves
    <3>2. slip \in BOOLEAN /\ (~slip => ~watch.slip /\ \A o \in starts : o.stage # "add")
      BY <1>1 DEF Watches
    <3>3. add \in Runs /\ add.stage = "add"
      BY <1>2 DEF T!Stages
    <3> HIDE DEF add, slip
    <3>4. /\ watch' \in Watches /\ watch'.on = watch.on /\ watch'.current = watch.current
          /\ watch'.removing = watch.removing /\ watch'.slip = slip
      BY <1>1, <3>1, <3>2 DEF Watches
    <3>5. watch.current = Nobody
      BY <2>2 DEF T!AlreadyWatching
    <3>6. \A o \in starts' : o.stage = "add" => o = add \/ o \in starts
      BY <3>1
    <3>7. WatchKept'
      BY <1>1, <3>2, <3>3, <3>4, <3>5, <3>6 DEF WatchKept
    <3>8. QED BY <1>1, <1>3, <1>4, <1>5, <3>1, <3>3, <3>4, <3>7 DEF TrackingIInv, TrackingTypes
  <2>3. QED BY <2>1, <2>2
<1>8. CASE T!Added(r)
  <2>1. /\ starts' = starts \ {r} /\ r.stage = "add"
        /\ watch' = [watch EXCEPT !.on = @ \cup {r.token}, !.current = r.token]
    BY <1>8 DEF T!Added, T!Done
  <2> DEFINE more == watch.on \cup {r.token}
  <2>2. more \in SUBSET Sessions
    BY <1>1 DEF Watches
  <2>3. /\ watch' \in Watches /\ watch'.on = more /\ watch'.current = r.token
        /\ watch'.removing = watch.removing /\ watch'.slip = watch.slip
    <3> HIDE DEF more
    <3>1. watch' = [watch EXCEPT !.on = more, !.current = r.token]
      BY <2>1 DEF more
    <3>2. QED BY <1>1, <2>2, <3>1 DEF Watches
  <2>4. ASSUME ~watch.slip
        PROVE  watch.on = {} /\ watch.removing = Nobody /\ \A o \in starts' : o.stage # "add"
    <3>1. watch.current = Nobody /\ watch.on \subseteq {watch.current}
      BY <1>1, <2>1, <2>4 DEF WatchKept
    <3>2. watch.on \subseteq Sessions /\ Nobody \notin Sessions
      BY <1>1, TrackingAssumption DEF Watches, Sessions
    <3>3. QED BY <1>1, <2>1, <2>4, <3>1, <3>2 DEF WatchKept
  <2>5. WatchKept'
    BY <2>3, <2>4 DEF WatchKept
  <2>6. QED BY <1>1, <1>3, <1>4, <1>5, <2>1, <2>3, <2>5 DEF TrackingIInv, TrackingTypes
<1>9. QED BY <1>6, <1>7, <1>8

\* Every step of the page, and of another page, keeps the invariant.
LEMMA TrackingStepPreserves == TrackingIInv /\ [Next]_vars => TrackingIInv'
<1> SUFFICES ASSUME TrackingIInv, [Next]_vars PROVE TrackingIInv'
  OBVIOUS
<1>1. CASE T!TrackingNext
  BY <1>1, SessionPreserves, ShiftPreserves, ServicePreserves, WatcherPreserves, RunPreserves
  DEF T!TrackingNext
<1>2. CASE UNCHANGED tracking
  BY <1>2, StopPreserves, WatchLeft DEF tracking, TrackingIInv, TrackingTypes
<1>3. QED BY <1>1, <1>2 DEF Next, vars

\* The inductive invariant of the tracking: the service that is not off has somebody's token,
\* and where a watcher is being added, none runs, as long as the plugin obeys.
THEOREM TrackingInvariance == Spec => []TrackingIInv
<1>1. Init => TrackingIInv
  BY TrackingInitEstablishes DEF Init
<1>2. QED BY <1>1, TrackingStepPreserves, PTL DEF Spec

\* The invariant says more than the page's type invariant and its three properties.
LEMMA TrackingIInvImplies ==
  ASSUME TrackingIInv PROVE T!TrackingTypeOK /\ StopLasts /\ FollowsSignedIn /\ WatchersKnown
<1>1. T!TrackingTypeOK
  BY DEF TrackingIInv, TrackingTypes, T!TrackingTypeOK, Phones, Runs, Watches, Services, Pings, Shifts
<1>2. StopLasts /\ FollowsSignedIn
  BY DEF TrackingIInv, ServiceKept
<1>3. WatchersKnown
  BY DEF TrackingIInv, WatchKept, WatchersKnown, T!WatchersKnown
<1>4. QED BY <1>1, <1>2, <1>3

\* A service that was stopped stays off until the page starts it again - through reboots,
\* Android's restarts and answers still on their way - and one that runs is marked to be
\* brought back, unless an answer to an earlier run unmarked it.
THEOREM StopLastsCorrect == Spec => []StopLasts
<1>1. QED BY TrackingInvariance, TrackingIInvImplies, PTL

\* The service follows, now and after a reboot, nobody but who is signed in on the phone,
\* unless its start was on its way when they signed out.
THEOREM FollowsSignedInCorrect == Spec => []FollowsSignedIn
<1>1. QED BY TrackingInvariance, TrackingIInvImplies, PTL

\* The app knows of every watcher that runs, unless two additions overlapped or a removal
\* failed.
THEOREM WatchersKnownCorrect == Spec => []WatchersKnown
<1>1. QED BY TrackingInvariance, TrackingIInvImplies, PTL

-----------------------------------------------------------------------------
(* The whole *)

\* Every page keeps to its types, whichever of them is open.
THEOREM TypeCorrect == Spec => []TypeOK
<1>1. CheckoutIInv /\ DeskIInv /\ FormIInv /\ TrackingIInv => TypeOK
  BY CheckoutIInvImplies, DeskIInvImplies, FormIInvImplies, TrackingIInvImplies DEF TypeOK
<1>2. QED
  BY <1>1, CheckoutInvariance, DeskInvariance, FormInvariance, TrackingInvariance, PTL
=============================================================================
