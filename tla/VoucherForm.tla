----------------------------- MODULE VoucherForm -----------------------------
(***************************************************************************)
(* Entering and altering a voucher in the web client: the list             *)
(* (app/vouchers/page.tsx) and the form (components/VoucherFormModal.tsx)  *)
(* it opens, with the small dialog that creates a ledger or a stock item   *)
(* from within it.                                                         *)
(*                                                                         *)
(* The form stays mounted while it is closed and loads what it shows only  *)
(* when it opens; the list, the form and the small dialog each wait for    *)
(* their own answers.  One voucher V is altered, or a new one entered, as  *)
(* an accounting voucher or as an invoice; the stock journal, attendance   *)
(* and payroll views are left out, and so are the banking, cost centre and *)
(* dispatch fields, which are only carried along.                          *)
(***************************************************************************)
EXTENDS Naturals, Sequences, FiniteSets, SequencesExt

CONSTANTS
    MaxTyped,     \* bound: changes made, and small dialogs asked for, altogether
    MaxAmount     \* bound: the amount of an accounting entry

VARIABLES
    list,     \* the list: the fetch of V on its way, a save on its way (isSaving)
    form,     \* VoucherFormModal; mixed: an answer asked for before it opened has changed it
    quick,    \* what the small dialog is creating, with the entries it was asked among, and the
              \* stock items asked for when V was opened; late: the form has been closed since
    saves     \* saves on their way; answered: the list is being fetched again

formVars == <<list, form, quick, saves>>

Vouchers == {"new", "V"}

Row(id, type) == [id |-> id, type |-> type, named |-> FALSE, amount |-> 0]
Filled(row) == [row EXCEPT !.named = TRUE, !.amount = 1]

\* What the form is filled with when it opens: V's own content, or two empty entries and an
\* empty line.  Of is whose content the entries and the lines are.
Blank == [rows |-> [of |-> "new", is |-> <<Row(1, "Debit"), Row(2, "Credit")>>], next |-> 3,
          lines |-> <<[id |-> 1, item |-> FALSE]>>, nextLine |-> 2, linesOf |-> "new",
          party |-> "none", kind |-> "invoice"]
Loaded == [Blank EXCEPT !.rows = [of |-> "V", is |-> <<Filled(Row(1, "Debit")), Filled(Row(2, "Credit"))>>],
                        !.lines = <<[id |-> 1, item |-> TRUE]>>, !.linesOf = "V", !.party = "own",
                        !.kind = "accounting"]

FormInit ==
    /\ list = [fetching |-> FALSE, saving |-> FALSE]
    /\ form = [open |-> FALSE, edit |-> "new", is |-> Blank, mixed |-> FALSE, typed |-> 0]
    /\ quick = {}
    /\ saves = {}

Is == form.is
Types(content) ==
    /\ form.open /\ form.typed < MaxTyped
    /\ form' = [form EXCEPT !.is = content, !.typed = @ + 1]
    /\ UNCHANGED <<list, quick, saves>>

-----------------------------------------------------------------------------
(* Opening and closing *)

\* Mutant: what was entered before stays.
FilledNot(content) == Is
FilledWith(content) == content

Create ==
    /\ ~form.open
    /\ form' = [form EXCEPT !.open = TRUE, !.edit = "new", !.is = FilledWith(Blank), !.mixed = FALSE]
    /\ UNCHANGED <<list, quick, saves>>

\* handleOpenEdit asks for V; nothing is disabled meanwhile.
AskEdit ==
    /\ ~form.open /\ ~list.fetching
    /\ list' = [list EXCEPT !.fetching = TRUE]
    /\ UNCHANGED <<form, quick, saves>>

\* Opening V asks for the stock items too; of several late answers one is looked at.
AskedItems == [kind |-> "items", target |-> 0, late |-> FALSE, rows |-> Blank.rows]

\* Its answer opens the form, filled with V.  A form that is open already keeps what it
\* shows, but for the party, and becomes the alteration of V.
EditArrives ==
    /\ list.fetching
    /\ list' = [list EXCEPT !.fetching = FALSE]
    /\ form' = [form EXCEPT !.open = TRUE, !.edit = "V",
                             !.is = IF form.open THEN [Is EXCEPT !.party = "own"] ELSE FilledWith(Loaded),
                             !.mixed = form.open]
    /\ quick' = IF form.open THEN quick ELSE quick \cup {AskedItems}
    /\ UNCHANGED saves

EditFails ==
    /\ list.fetching
    /\ list' = [list EXCEPT !.fetching = FALSE]
    /\ UNCHANGED <<form, quick, saves>>

Late == {[q EXCEPT !.late = TRUE] : q \in quick}

\* Cancel, the cross, the backdrop, or Escape, which also works under the small dialog and
\* while a save is on its way.
Leave ==
    /\ form.open
    /\ form' = [form EXCEPT !.open = FALSE, !.edit = "new"]
    /\ quick' = Late
    /\ UNCHANGED <<list, saves>>

SelectType == Types([Is EXCEPT !.kind = IF @ = "invoice" THEN "accounting" ELSE "invoice"])

-----------------------------------------------------------------------------
(* Accounting entries *)

Rows == Is.rows.is
WithRows(rows) == [Is EXCEPT !.rows.is = rows]
Change(id, Op(_)) == [i \in DOMAIN Rows |-> IF Rows[i].id = id THEN Op(Rows[i]) ELSE Rows[i]]

Total(rows, type) == FoldLeft(LAMBDA sum, row : sum + row.amount, 0,
                              SelectSeq(rows, LAMBDA row : row.type = type))
Debits(rows) == Total(rows, "Debit")
Credits(rows) == Total(rows, "Credit")
Opposite(type) == IF type = "Debit" THEN "Credit" ELSE "Debit"
Gap(rows) == IF Debits(rows) >= Credits(rows) THEN Debits(rows) - Credits(rows)
             ELSE Credits(rows) - Debits(rows)

SetType(id) == Types(WithRows(Change(id, LAMBDA row : [row EXCEPT !.type = Opposite(@)])))
SetLedger(id) == Types(WithRows(Change(id, LAMBDA row : [row EXCEPT !.named = TRUE])))

\* handleAmountChange: the first empty entry of the other side gets the amount too.
SetAmount(id, amount) ==
    LET changed == Change(id, LAMBDA row : [row EXCEPT !.amount = amount])
        type == Rows[CHOOSE i \in DOMAIN Rows : Rows[i].id = id].type
        empty == {i \in DOMAIN changed : changed[i].type = Opposite(type) /\ changed[i].amount = 0}
        first == CHOOSE i \in empty : \A j \in empty : i <= j
    IN  Types(WithRows(IF amount > 0 /\ empty # {} THEN [changed EXCEPT ![first].amount = amount]
                       ELSE changed))

\* Mutant: the entries are counted.
NextIdCounted == Len(Rows) + 1
NextId == Is.next

\* addEntry: the other side of the last entry, for what is missing.
AddEntry ==
    /\ Gap(Rows) \in 0..MaxAmount
    /\ Types([WithRows(Append(Rows, [Row(NextId, Opposite(Last(Rows).type)) EXCEPT !.amount = Gap(Rows)]))
                EXCEPT !.next = @ + 1])

\* Those that have not the id, in their order.
Without(rows, id) ==
    LET kept[n \in 0..Len(rows)] ==
            IF n = 0 THEN <<>>
            ELSE IF rows[n].id = id THEN kept[n - 1] ELSE Append(kept[n - 1], rows[n])
    IN  kept[Len(rows)]

\* removeEntry: the last two are emptied instead.
RemoveEntry(id) ==
    Types(WithRows(IF Len(Rows) <= 2
                   THEN Change(id, LAMBDA row : [row EXCEPT !.named = FALSE, !.amount = 0])
                   ELSE Without(Rows, id)))

-----------------------------------------------------------------------------
(* Invoice lines *)

Lines == Is.lines
WithItem(id) == [i \in DOMAIN Lines |-> IF Lines[i].id = id THEN [Lines[i] EXCEPT !.item = TRUE] ELSE Lines[i]]

SetParty == Types([Is EXCEPT !.party = "chosen"])
SetItem(id) == Types([Is EXCEPT !.lines = WithItem(id)])
AddLine == Types([Is EXCEPT !.lines = Append(@, [id |-> Is.nextLine, item |-> FALSE]), !.nextLine = @ + 1])
RemoveLine(id) == Types([Is EXCEPT !.lines = Without(@, id)])

-----------------------------------------------------------------------------
(* The small dialog *)

\* handleSaveQuickLedger and handleSaveQuickItem: one of each at a time; a ledger is to go
\* where the entries are as they are now.
AskQuick(kind, target) ==
    /\ form.open /\ form.typed < MaxTyped
    /\ \A q \in quick : q.kind # kind
    /\ form' = [form EXCEPT !.typed = @ + 1]
    /\ quick' = quick \cup {[kind |-> kind, target |-> target, late |-> FALSE,
                             rows |-> IF kind = "ledger" /\ target > 0 THEN Is.rows ELSE Blank.rows]}
    /\ UNCHANGED <<list, saves>>

\* The list of ledgers has grown: the party of the voucher being altered is set again.
PartyAgain(content) == IF form.edit = "V" THEN [content EXCEPT !.party = "own"] ELSE content

LedgerArrives(q) ==
    /\ q.kind = "ledger"
    /\ quick' = quick \ {q}
    /\ form' = [form EXCEPT !.mixed = @ \/ q.late, !.is = PartyAgain(
            IF q.target = 0 THEN [@ EXCEPT !.party = "chosen"]
            ELSE [@ EXCEPT !.rows = [q.rows EXCEPT !.is =
                    [i \in DOMAIN @ |-> IF @[i].id = q.target THEN [@[i] EXCEPT !.named = TRUE] ELSE @[i]]]])]
    /\ UNCHANGED <<list, saves>>

\* The line it was asked for; or the first without an item; or a new one, after the last.
ItemArrives(q) ==
    LET ids == {Lines[i].id : i \in DOMAIN Lines}
        empty == {i \in DOMAIN Lines : ~Lines[i].item}
        first == CHOOSE i \in empty : \A j \in empty : i <= j
    IN  /\ q.kind = "item"
        /\ quick' = quick \ {q}
        /\ form' = [form EXCEPT !.is.lines =
                CASE q.target \in ids -> WithItem(q.target)
                  [] q.target \notin ids /\ empty # {} -> [Lines EXCEPT ![first].item = TRUE]
                  [] q.target \notin ids /\ empty = {} ->
                        Append(Lines, [id |-> 1 + Max(ids \cup {0}), item |-> TRUE])]
        /\ UNCHANGED <<list, saves>>

\* The stock items asked for when V was opened: V's item goes into the first line, where that
\* has none, whatever the form has become.
ItemsArrive(q) ==
    /\ q.kind = "items"
    /\ quick' = quick \ {q}
    /\ form' = IF Lines # <<>> /\ ~Lines[1].item
               THEN [form EXCEPT !.is.lines[1].item = TRUE, !.is.linesOf = "V", !.mixed = @ \/ q.late]
               ELSE form
    /\ UNCHANGED <<list, saves>>

QuickFails(q) == quick' = quick \ {q} /\ UNCHANGED <<list, form, saves>>

-----------------------------------------------------------------------------
(* Saving *)

Valid(rows) == SelectSeq(rows, LAMBDA row : row.named \/ row.amount > 0)

\* handleSave: every entry filled in has a ledger and an amount, and they balance.
Accepts(rows) ==
    /\ rows # <<>>
    /\ \A i \in DOMAIN rows : rows[i].named /\ rows[i].amount > 0
    /\ Gap(rows) = 0

Payload == [to |-> form.edit, of |-> IF Is.kind = "accounting" THEN Is.rows.of ELSE Is.linesOf,
            mixed |-> form.mixed, answered |-> FALSE]

CanSave ==
    \/ Is.kind = "accounting" /\ Accepts(Valid(Rows))
    \/ Is.kind = "invoice" /\ Is.party # "none" /\ \E i \in DOMAIN Lines : Lines[i].item

\* The button is disabled while a save is on its way.
Save ==
    /\ form.open /\ ~list.saving
    /\ CanSave
    /\ saves' = saves \cup {Payload}
    /\ list' = [list EXCEPT !.saving = TRUE]
    /\ UNCHANGED <<form, quick>>

\* Whatever form is open by then is closed, and the list fetched again.
Saved(p) ==
    /\ ~p.answered
    /\ saves' = (saves \ {p}) \cup {[p EXCEPT !.answered = TRUE]}
    /\ form' = [form EXCEPT !.open = FALSE, !.edit = "new"]
    /\ quick' = Late
    /\ UNCHANGED list

\* The save has failed, or the list has been fetched.
SaveEnds(p) ==
    /\ saves' = saves \ {p}
    /\ list' = [list EXCEPT !.saving = FALSE]
    /\ UNCHANGED <<form, quick>>

-----------------------------------------------------------------------------
FormNext ==
    \/ Create \/ AskEdit \/ EditArrives \/ EditFails \/ Leave \/ SelectType \/ Save
    \/ /\ Is.kind = "accounting"
       /\ \/ AddEntry
          \/ \E i \in DOMAIN Rows : \/ SetType(Rows[i].id) \/ SetLedger(Rows[i].id) \/ RemoveEntry(Rows[i].id)
                                    \/ AskQuick("ledger", Rows[i].id)
                                    \/ \E amount \in 0..MaxAmount : SetAmount(Rows[i].id, amount)
    \/ /\ Is.kind = "invoice"
       /\ \/ SetParty \/ AddLine \/ AskQuick("ledger", 0) \/ AskQuick("item", 0)
          \/ \E i \in DOMAIN Lines : \/ SetItem(Lines[i].id) \/ RemoveLine(Lines[i].id)
                                     \/ AskQuick("item", Lines[i].id)
    \/ \E q \in quick : LedgerArrives(q) \/ ItemArrives(q) \/ ItemsArrive(q) \/ QuickFails(q)
    \/ \E p \in saves : Saved(p) \/ SaveEnds(p)

-----------------------------------------------------------------------------
(* Properties *)

\* The entries' ids, by which they are changed and removed, are distinct, although
\* entries are removed and a ledger's answer brings older entries back.
FormTypeOK ==
    /\ list \in [fetching : BOOLEAN, saving : BOOLEAN]
    /\ form.open \in BOOLEAN /\ form.edit \in Vouchers
    /\ Is.rows.of \in Vouchers /\ Is.linesOf \in Vouchers /\ form.typed \in 0..MaxTyped
    /\ Is.kind \in {"accounting", "invoice"} /\ Is.party \in {"none", "own", "chosen"}
    /\ form.mixed \in BOOLEAN
    /\ ~form.mixed => \A i, j \in DOMAIN Rows : Rows[i].id = Rows[j].id => i = j
    /\ Rows \in Seq([id : 1..MaxTyped + 2, type : {"Debit", "Credit"}, named : BOOLEAN, amount : Nat])
    /\ Lines \in Seq([id : Nat, item : BOOLEAN])

\* What is saved as an alteration of V is V's content as it was altered, and a new voucher is
\* not: unless an answer (V's, a new ledger's, or the items') asked for before came into the
\* open form.
SavedOnItsOwn == \A p \in saves : p.mixed \/ p.of = p.to
=============================================================================
