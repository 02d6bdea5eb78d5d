----------------------------- MODULE Directory -----------------------------
(***************************************************************************)
(* What a customer owes, row by row and day by day, and the pages that     *)
(* read it: customers/selectors.py, and the lists of debts of              *)
(* analytics/selectors.py, employees/selectors.py and                      *)
(* remittance/selectors.py.  Each page counts for itself: from the         *)
(* counters of the customer, from the rows, or from last_credit_at.        *)
(*                                                                         *)
(* A service of customers/services.py is one step here; the statements of  *)
(* its transaction are the matter of CreditLedger and Containers.  But the *)
(* customer was found in an earlier step of the request, and a deletion    *)
(* checks in one step and writes in another.  The rows are of one          *)
(* container each; a payment is of units, of money, or of both.            *)
(***************************************************************************)
EXTENDS Integers, FiniteSets, Functions

CONSTANTS
  Request,    \* requests of customers/views.py in progress
  Customer,
  Line,       \* ids of CreditLine
  Loan,       \* ids of BorrowedContainer
  Payment,    \* ids of CreditPayment
  Price,      \* unit prices, 0 for a product given away
  Amount,     \* amounts a form may carry, 0 when left empty
  LastDay,    \* bound: days are 0..LastDay
  RemitDay,   \* bound: the days remittances are made for
  Threshold,  \* overdue_threshold_days, at its default (the ranking knows no other)
  None

Day == 0..LastDay
LineRow == [who : Customer, day : Day, fresh : BOOLEAN, price : Price, left : 0..1]
LoanRow == [who : Customer, day : Day, fresh : BOOLEAN, out : 0..1]
PaymentRow == [line : Line, units : 0..1, money : Nat, day : Day, fresh : BOOLEAN,
               link : Day \cup {None}]

ASSUME DirectoryAssumption ==
  /\ \A S \in {Customer, Line, Loan, Payment} : IsFiniteSet(S)
  /\ Price \subseteq Nat /\ Amount \subseteq Nat
  /\ LastDay \in Nat /\ RemitDay \subseteq Day /\ Threshold \in Nat
  /\ None \notin Day \cup LineRow \cup LoanRow \cup PaymentRow

VARIABLES
  state,     \* state[c]: "deleted" when deleted_at is set, "none" without a row
  debt,      \* debt[c]: debt_balance
  borrowed,  \* borrowed[c]: the three borrowed counters together
  last,      \* last[c]: the day of last_credit_at
  line, loan, pay,   \* the rows, None for an id without a row
  req,       \* req[k]: a request in progress, and the customer it found
  today,     \* timezone.localdate()
  final      \* the days whose remittance is finalized

vars == <<state, debt, borrowed, last, line, loan, pay, req, today, final>>

\* last_credit_at of a customer who was never given credit
Never == -1

Init ==
  /\ state = [c \in Customer |-> "none"]
  /\ debt = [c \in Customer |-> 0] /\ borrowed = [c \in Customer |-> 0]
  /\ last = [c \in Customer |-> Never]
  /\ line = [l \in Line |-> None] /\ loan = [b \in Loan |-> None]
  /\ pay = [p \in Payment |-> None]
  /\ req \in [Request -> [pc : {"idle"}, who : Customer]]
  /\ today = 0 /\ final = {}

Lines == {l \in Line : line[l] # None}
Loans == {b \in Loan : loan[b] # None}
Payments == {p \in Payment : pay[p] # None}
LinesOf(c) == {l \in Lines : line[l].who = c}
LoansOf(c) == {b \in Loans : loan[b].who = c}
PaymentsOf(l) == {p \in Payments : pay[p].line = l}
Collected(l) == SumFunctionOnSet([p \in PaymentsOf(l) |-> pay[p].money], PaymentsOf(l))

-----------------------------------------------------------------------------
(***************************************************************************)
(* Requests: the customer is found, then the ledger is written.            *)
(***************************************************************************)
Goto(k, pc, c) == req' = [req EXCEPT ![k] = [pc |-> pc, who |-> c]]
KeepLedger == UNCHANGED <<debt, borrowed, last, line, loan, pay, today, final>>

\* Mutant: the filter on deleted_at is dropped.
FindDeleted(k, c) ==
  /\ req[k].pc = "idle" /\ state[c] # "none"
  /\ Goto(k, "act", c) /\ UNCHANGED state /\ KeepLedger
\* _resolve_customer and get_customer_by_display_id, for a customer chosen from a
\* page that may be older than the deletion
Find(k, c) ==
  /\ req[k].pc = "idle" /\ state[c] = "active"
  /\ Goto(k, "act", c) /\ UNCHANGED state /\ KeepLedger

\* _resolve_or_create_customer, committed before the record is made
Create(k, c) ==
  /\ req[k].pc = "idle" /\ state[c] = "none"
  /\ state' = [state EXCEPT ![c] = "active"]
  /\ Goto(k, "act", c) /\ KeepLedger

\* delete_customer and the signal look at the counters, ...
MayLeave(k, c) ==
  /\ req[k].pc = "idle" /\ state[c] = "active"
  /\ debt[c] = 0 /\ borrowed[c] = 0
  /\ Goto(k, "leave", c) /\ UNCHANGED state /\ KeepLedger

\* ... and the row is saved
Leave(k) ==
  /\ req[k].pc = "leave"
  /\ state' = [state EXCEPT ![req[k].who] = "deleted"]
  /\ Goto(k, "idle", req[k].who) /\ KeepLedger

\* a failed check, or a database error
Fail(k) ==
  /\ req[k].pc # "idle"
  /\ Goto(k, "idle", req[k].who) /\ UNCHANGED state /\ KeepLedger

\* The counters change with F() expressions, and the CHECK constraints keep them
\* from going below zero.  (Credit limits are CreditLedger's matter.)
Count(k, c, owed, lent) ==
  /\ req[k].pc = "act" /\ req[k].who = c
  /\ debt[c] + owed >= 0 /\ borrowed[c] + lent >= 0
  /\ debt' = [debt EXCEPT ![c] = @ + owed]
  /\ borrowed' = [borrowed EXCEPT ![c] = @ + lent]
  /\ Goto(k, "idle", c) /\ UNCHANGED <<state, today, final>>

\* Mutant: last_credit_at is left for the edits to set.
CreditedNever(c, d) == last[c]
\* Greatest(F("last_credit_at"), tx_dt), where NULL is passed over
Credited(c, d) == IF d > last[c] THEN d ELSE last[c]

\* record_customer_debt; a day in the future is refused
RecordDebt(k, c, l, d, price) ==
  /\ line[l] = None /\ d <= today
  /\ Count(k, c, price, 0)
  /\ line' = [line EXCEPT ![l] = [who |-> c, day |-> d, fresh |-> TRUE,
                                  price |-> price, left |-> 1]]
  /\ last' = [last EXCEPT ![c] = Credited(c, d)]
  /\ UNCHANGED <<loan, pay>>

\* record_customer_borrowed
Lend(k, c, b, d) ==
  /\ loan[b] = None /\ d <= today
  /\ Count(k, c, 0, 1)
  /\ loan' = [loan EXCEPT ![b] = [who |-> c, day |-> d, fresh |-> TRUE, out |-> 1]]
  /\ UNCHANGED <<last, line, pay>>

\* record_customer_collection, a payment: units without an amount are priced by
\* the server, money may come without units or fall short of their price
Pay(k, c, p, l, units, amount, d) ==
  LET money == IF amount = 0 THEN units * line[l].price ELSE amount
  IN /\ pay[p] = None /\ d <= today
     /\ l \in LinesOf(c) /\ units <= line[l].left /\ units + amount > 0
     /\ Count(k, c, -money, 0)
     /\ pay' = [pay EXCEPT ![p] = [line |-> l, units |-> units, money |-> money,
                                   day |-> d, fresh |-> TRUE, link |-> None]]
     /\ line' = [line EXCEPT ![l].left = @ - units]
     /\ UNCHANGED <<last, loan>>

\* record_customer_collection, a return
Return(k, c, b) ==
  /\ b \in LoansOf(c) /\ loan[b].out = 1
  /\ Count(k, c, 0, -1)
  /\ loan' = [loan EXCEPT ![b].out = 0]
  /\ UNCHANGED <<last, line, pay>>

-----------------------------------------------------------------------------
(***************************************************************************)
(* The history page.                                                       *)
(***************************************************************************)
\* Mutant: the remittance that counted the payment is forgotten.
PaymentLockDayAsPaid(p) == pay[p].day
\* _record_lock_date of a payment
PaymentLockDay(p) == IF pay[p].link # None THEN pay[p].link ELSE pay[p].day

\* _verify_ledger_edit, after the PIN
MayEdit(admin, fresh, day) == admin \/ (fresh /\ day \notin final)

\* edit_credit_line; unlike a new row, an edited one may have a day in the future
EditLine(k, c, l, d, price, admin) ==
  /\ l \in LinesOf(c) /\ price > 0
  /\ MayEdit(admin, line[l].fresh, line[l].day)
  /\ Count(k, c, price - line[l].price, 0)
  /\ line' = [line EXCEPT ![l].day = d, ![l].price = price]
  /\ UNCHANGED <<last, loan, pay>>

\* edit_borrowed_container
EditLoan(k, c, b, d, out, admin) ==
  /\ b \in LoansOf(c)
  /\ MayEdit(admin, loan[b].fresh, loan[b].day)
  /\ Count(k, c, 0, out - loan[b].out)
  /\ loan' = [loan EXCEPT ![b].day = d, ![b].out = out]
  /\ UNCHANGED <<last, line, pay>>

\* edit_credit_payment; the payment stays with the remittance that counted it
EditPayment(k, c, p, d, units, money, admin) ==
  LET l == pay[p].line
      left == line[l].left + pay[p].units - units
  IN /\ p \in Payments /\ l \in LinesOf(c) /\ money > 0
     /\ MayEdit(admin, pay[p].fresh, PaymentLockDay(p))
     /\ left \in 0..1
     /\ Count(k, c, pay[p].money - money, 0)
     /\ pay' = [pay EXCEPT ![p].day = d, ![p].units = units, ![p].money = money]
     /\ line' = [line EXCEPT ![l].left = left]
     /\ UNCHANGED <<last, loan>>

\* Mutant: the debt that the payment had lowered is not restored.
DeletePaymentOnly(k, c, p) ==
  LET l == pay[p].line
  IN /\ p \in Payments /\ l \in LinesOf(c) /\ pay[p].link = None
     /\ Count(k, c, 0, 0)
     /\ pay' = [pay EXCEPT ![p] = None]
     /\ line' = [line EXCEPT ![l].left = @ + pay[p].units]
     /\ UNCHANGED <<last, loan>>
\* delete_credit_payment, by an administrator
DeletePayment(k, c, p) ==
  LET l == pay[p].line
  IN /\ p \in Payments /\ l \in LinesOf(c) /\ pay[p].link = None
     /\ Count(k, c, pay[p].money, 0)
     /\ pay' = [pay EXCEPT ![p] = None]
     /\ line' = [line EXCEPT ![l].left = @ + pay[p].units]
     /\ UNCHANGED <<last, loan>>

\* delete_credit_line, with the payments of the line
DeleteLine(k, c, l) ==
  /\ l \in LinesOf(c)
  /\ \A p \in PaymentsOf(l) : pay[p].link = None
  /\ Count(k, c, Collected(l) - line[l].price, 0)
  /\ line' = [line EXCEPT ![l] = None]
  /\ pay' = [p \in Payment |-> IF p \in PaymentsOf(l) THEN None ELSE pay[p]]
  /\ UNCHANGED <<last, loan>>

\* delete_borrowed_container
DeleteLoan(k, c, b) ==
  /\ b \in LoansOf(c)
  /\ Count(k, c, 0, -loan[b].out)
  /\ loan' = [loan EXCEPT ![b] = None]
  /\ UNCHANGED <<last, line, pay>>

-----------------------------------------------------------------------------
\* the payments of P get the link n
Linked(P, n) == pay' = [p \in Payment |-> IF p \in P THEN [pay[p] EXCEPT !.link = n] ELSE pay[p]]
KeepRows == UNCHANGED <<state, debt, borrowed, last, line, loan, req>>

\* a remittance of the day counts its payments; it is a draft or finalized
Remit(d, days) ==
  /\ d <= today /\ d \notin final
  /\ Linked({p \in Payments : pay[p].day = d /\ pay[p].link = None}, d)
  /\ final' = days
  /\ KeepRows /\ UNCHANGED today

\* a draft is deleted
ClearDraft(d) ==
  /\ d \notin final /\ \E p \in Payments : pay[p].link = d
  /\ Linked({p \in Payments : pay[p].link = d}, None)
  /\ KeepRows /\ UNCHANGED <<today, final>>

\* midnight; the 24 hours of what was recorded so far run out during the day
Aged(r) == IF r = None THEN None ELSE [r EXCEPT !.fresh = FALSE]
NextDay ==
  /\ today < LastDay /\ today' = today + 1
  /\ line' = [l \in Line |-> Aged(line[l])]
  /\ loan' = [b \in Loan |-> Aged(loan[b])]
  /\ pay' = [p \in Payment |-> Aged(pay[p])]
  /\ UNCHANGED <<state, debt, borrowed, last, req, final>>

Record(k, c) ==
  \E d \in Day :
    \/ \E l \in Line, price \in Price : RecordDebt(k, c, l, d, price)
    \/ \E b \in Loan : Lend(k, c, b, d)
    \/ \E p \in Payment, l \in Line, units \in 0..1, amount \in Amount :
         Pay(k, c, p, l, units, amount, d)

Correct(k, c) ==
  \E d \in Day, admin \in BOOLEAN :
    \/ \E l \in Line, price \in Price : EditLine(k, c, l, d, price, admin)
    \/ \E b \in Loan, out \in 0..1 : EditLoan(k, c, b, d, out, admin)
    \/ \E p \in Payment, units \in 0..1, money \in Amount :
         EditPayment(k, c, p, d, units, money, admin)

Remove(k, c) ==
  \/ \E p \in Payment : DeletePayment(k, c, p)
  \/ \E l \in Line : DeleteLine(k, c, l)
  \/ \E b \in Loan : DeleteLoan(k, c, b)

RequestStep(k, c) ==
  \/ Find(k, c) \/ Create(k, c) \/ MayLeave(k, c)
  \/ Record(k, c) \/ Correct(k, c) \/ Remove(k, c)
  \/ \E b \in Loan : Return(k, c, b)

Next ==
  \/ \E k \in Request : Leave(k) \/ Fail(k) \/ \E c \in Customer : RequestStep(k, c)
  \/ \E d \in RemitDay : Remit(d, final) \/ Remit(d, final \cup {d}) \/ ClearDraft(d)
  \/ NextDay

Spec == Init /\ [][Next]_vars

-----------------------------------------------------------------------------
(***************************************************************************)
(* The pages.                                                              *)
(***************************************************************************)
Alive(c) == state[c] = "active"
HasDebt(c) == debt[c] > 0
HasBorrowed(c) == borrowed[c] > 0

\* get_customer_table_context, counted on its chips by _customer_filters
TableRows(filter) ==
  {c \in Customer : Alive(c) /\ CASE filter = "has_debt" -> HasDebt(c)
                                   [] filter = "has_borrowed" -> HasBorrowed(c)}

\* get_customer_detail_context: the button, and the warning
CanDelete(c) == borrowed[c] = 0 /\ ~HasDebt(c)
DaysSince(c) == IF last[c] = Never THEN 9999 ELSE today - last[c]
OverdueInDetail(c) == HasDebt(c) /\ DaysSince(c) > Threshold

\* _customer_stats: last_credit_at, a midnight, is before this time of a day
\* Threshold days ago; a customer never credited is not counted
OverdueOnCard(c) == HasDebt(c) /\ last[c] # Never /\ last[c] <= today - Threshold

\* get_top_payers subtracts a UTC date: midnight here is the day before there
OverdueInRanking(c) == HasDebt(c) /\ last[c] # Never /\ today - (last[c] - 1) > Threshold
PaidBy(c) == {p \in Payments : pay[p].line \in LinesOf(c)}
OnTime(p) == pay[p].day - line[pay[p].line].day <= Threshold
\* _calculate_payer_tier: bronze or better, or standard
Reliable(c) ==
  /\ Alive(c) /\ PaidBy(c) # {} /\ ~OverdueInRanking(c)
  /\ 2 * Cardinality({p \in PaidBy(c) : OnTime(p)}) >= Cardinality(PaidBy(c))

\* get_customer_collect_context; the lines are also those of the dashboard and of
\* a driver, which do not ask whether the customer is deleted
OpenLines(c) == {l \in LinesOf(c) : line[l].left > 0}
OpenLoans(c) == {b \in LoansOf(c) : loan[b].out > 0}
Balance(L) == SumFunctionOnSet([l \in L |-> line[l].left * line[l].price], L)
Outstanding(c) == SumFunctionOnSet([b \in OpenLoans(c) |-> loan[b].out], OpenLoans(c))

\* The debt of all customers: on the summary, the dashboard, and in the trends of
\* the remittance history, which do not ask whether the customer is deleted.
DebtOf(C) == SumFunctionOnSet(debt, C)
OutstandingOnSummary == DebtOf({c \in Customer : Alive(c) /\ HasDebt(c)})
OutstandingOnDashboard == DebtOf({c \in Customer : Alive(c)})
OutstandingInTrends == DebtOf({c \in Customer : HasDebt(c)})

\* _history_entry_editable, _history_entry_deletable
PageLockDay(p) == IF pay[p].link # None THEN pay[p].link ELSE pay[p].day
PageEdits(admin, fresh, day) == IF admin THEN TRUE ELSE fresh /\ ~(day \in final)
PageDeletesLine(l) == ~\E p \in Payments : pay[p].line = l /\ pay[p].link # None

-----------------------------------------------------------------------------
\* The borrowed counters are what the open loans add up to.
LoansAgree == \A c \in Customer : borrowed[c] = Outstanding(c)

\* a customer whose payments all carry the price of their units, as the collect
\* page fills them in
Square(c) ==
  \A p \in PaidBy(c) : pay[p].money = pay[p].units * line[pay[p].line].price

\* The debt of such a customer is what its open lines add up to; when all are
\* such, so is the debt of the trends, which exceeds that of the summary and of the
\* dashboard by the debt of deleted customers.
DebtsAgree ==
  /\ \A c \in Customer : Square(c) => debt[c] = Balance(OpenLines(c))
  /\ (\A c \in Customer : Square(c)) =>
       OutstandingInTrends = Balance(UNION {OpenLines(c) : c \in Customer})
  /\ OutstandingOnDashboard = OutstandingOnSummary
  /\ OutstandingInTrends - OutstandingOnSummary = DebtOf({c \in Customer : state[c] = "deleted"})

\* What the counters of a customer say is what the rows say.  For containers,
\* always: whoever is under the chip of the borrowers has something to bring back.
\* For money, as long as each payment carries the price of its units: then the
\* debt is what the collect page and the list on the dashboard add up to, and who
\* may be deleted has nothing of a price left to collect.
ListsAgree ==
  /\ LoansAgree /\ DebtsAgree
  /\ \A c \in Customer : Alive(c) =>
       /\ CanDelete(c) <=> c \notin TableRows("has_debt") \cup TableRows("has_borrowed")
       /\ CanDelete(c) => /\ OpenLoans(c) = {}
                          /\ Square(c) => \A l \in OpenLines(c) : line[l].price = 0

\* The three pages that call a debtor overdue count the days differently, and
\* are never more than a day apart: who is overdue in the detail is on the card,
\* who is on the card is no reliable payer, and is overdue in the detail on the
\* next day unless something changes.
OverdueWithinADay ==
  [][/\ \A c \in Customer :
          /\ OverdueInDetail(c) => OverdueOnCard(c)
          /\ OverdueOnCard(c) => ~Reliable(c)
     /\ today' # today => \A c \in Customer : OverdueOnCard(c) => OverdueInDetail(c)']_vars

\* The history page offers an edit or a deletion exactly when the service, which
\* decides for itself, would accept it in the same state.
HistoryOffersWhatIsAccepted ==
  /\ \A p \in Payments, admin \in BOOLEAN :
       PageEdits(admin, pay[p].fresh, PageLockDay(p))
         = MayEdit(admin, pay[p].fresh, PaymentLockDay(p))
  /\ \A l \in Lines, admin \in BOOLEAN :
       /\ PageEdits(admin, line[l].fresh, line[l].day) = MayEdit(admin, line[l].fresh, line[l].day)
       /\ PageDeletesLine(l) = \A p \in PaymentsOf(l) : pay[p].link = None

\* Once a customer is deleted and the requests that had found it before are
\* over, its ledger is at rest: no page, however old, adds to what it owes, takes
\* from it, or brings it back.
Rests(c) == state[c] = "deleted" /\ \A k \in Request : req[k].who = c => req[k].pc # "act"
DeletedRest ==
  [][\A c \in Customer : Rests(c) =>
       /\ Rests(c)' /\ debt'[c] = debt[c] /\ borrowed'[c] = borrowed[c]
       /\ LinesOf(c)' = LinesOf(c) /\ LoansOf(c)' = LoansOf(c) /\ PaidBy(c)' = PaidBy(c)]_vars

DirectoryTypeOK ==
  /\ state \in [Customer -> {"none", "active", "deleted"}]
  /\ debt \in [Customer -> Nat] /\ borrowed \in [Customer -> Nat]
  /\ last \in [Customer -> Day \cup {Never}]
  /\ line \in [Line -> LineRow \cup {None}] /\ loan \in [Loan -> LoanRow \cup {None}]
  /\ pay \in [Payment -> PaymentRow \cup {None}]
  /\ req \in [Request -> [pc : {"idle", "act", "leave"}, who : Customer]]
  /\ today \in Day /\ final \subseteq RemitDay
=============================================================================
