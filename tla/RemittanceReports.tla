------------------------- MODULE RemittanceReports -------------------------
(***************************************************************************)
(* What the history and detail pages make of the stored remittance and of  *)
(* the credit of its date: the last third of                               *)
(* src/server/apps/remittance/selectors.py.                                *)
(***************************************************************************)
EXTENDS RemittanceForm

\* Mutant: the other sales are forgotten.
HistoryRowWithOther(s) ==
  [drivers    |-> s.totals.net + s.totals.commission + s.totals.salary,
   containers |-> SumOver(s.rows, LAMBDA r : SumOver(r.lines, LAMBDA l : l.sold)),
   gross      |-> SumOver(s.rows, LAMBDA r : r.commission),
   net        |-> s.totals.net]

\* _remittance_row: the cash handed in is not stored, it is worked out.
HistoryRow(s) ==
  [drivers    |-> s.totals.net - s.totals.other + s.totals.commission + s.totals.salary,
   containers |-> SumOver(s.rows, LAMBDA r : SumOver(r.lines, LAMBDA l : l.sold)),
   gross      |-> SumOver(s.rows, LAMBDA r : r.commission),
   net        |-> s.totals.net]

\* The cards of get_remittance_detail.  An entry goes to the driver or staff
\* member in whose care it was, when the remittance has a row for them.
Shown == Recorded(Entry)
Cared(u) == OwnedBy(Shown, u)
RowOwners == DOMAIN saved.rows \cup DOMAIN saved.staff
Carers == {CareOf[e] : e \in Shown}

RiderCards == {[of |-> d, shows |-> Cared(d)] : d \in DOMAIN saved.rows}
StaffCards == {[of |-> m, shows |-> Cared(m)] : m \in DOMAIN saved.staff}
StationCards == {[of |-> None, shows |-> Cared(u)] : u \in Carers \cap {None}}
\* Mutant: someone without a row is not shown.
NoOffDutyCards == {}

OffDutyCards ==
  {[of |-> u, shows |-> Cared(u)] : u \in Carers \ (RowOwners \cup {None})}

Cards == RiderCards \cup StaffCards \cup StationCards \cup OffDutyCards

\* expenses_breakdown
ExpensesBreakdown(s) ==
  [rider |-> SumOver(s.rows, LAMBDA r : r.expense),
   staff |-> SumOver(s.staff, LAMBDA m : m.expense),
   grand |-> s.totals.expenses]

Larger(m, n) == IF m > n THEN m ELSE n

\* The detail's totals of credit count what came after the save.
EffectiveRepayments(s) == Larger(s.totals.repayments, Value(Recorded(Payment)))
EffectiveCredits(s) == Larger(s.totals.credits, Value(Recorded(Credit)))

\* get_remittance_summary_for_date: the panel of the Add Remittance page counts
\* the payments linked, and all credit of the date.
Panel(s) ==
  [repaid |-> [d \in DOMAIN s.rows |-> [p \in DOMAIN s.rows[d].lines |->
                 UnitsOn(OwnedBy(Linked(Payment), d), p)]],
   paid   |-> [m \in DOMAIN s.staff |-> s.staff[m].salary - s.staff[m].deduction],
   totals |-> [s.totals EXCEPT !.credits = Larger(@, Value(Recorded(Credit)))]]

\* The trends of the history page: the units each driver sold, working or not.
Trend(s) ==
  [d \in Driver |-> IF d \in DOMAIN s.rows
                      THEN SumOver(s.rows[d].lines, LAMBDA l : l.sold) ELSE 0]

-----------------------------------------------------------------------------
\* Every payment and credit line of the date is on one card of the detail page
\* and on no other, whoever had it in their care and whether they still work:
\* a driver, staff, the station, or someone without a row that day.
DetailCoversLedger ==
  Exists => \A e \in Shown : \E c \in Cards :
               \A b \in Cards : e \in b.shows <=> b = c

\* The pages agree about one stored remittance.  The history row recovers from
\* four columns the cash the drivers handed in, shows no more commission than
\* they earned gross, and counts the containers of the trends.  The panel and the
\* detail show the same credit, and no unit the panel calls repaid is one that the
\* repayments of the detail leave out.  The expenses broken down by driver and staff are all there
\* are.  The detail page shows the stored totals of credit as long as nothing was
\* recorded after the save: what a remittance has linked stays what it counted.
ReportsAgree ==
  Exists =>
    /\ HistoryRow(saved).drivers = SumOver(saved.rows, LAMBDA r : Given(r.remitted))
    /\ LET b == ExpensesBreakdown(saved) IN b.rider + b.staff = b.grand
    /\ HistoryRow(saved).gross >= saved.totals.commission
    /\ HistoryRow(saved).containers = SumOver(Trend(saved), LAMBDA n : n)
    /\ Panel(saved).totals.credits = EffectiveCredits(saved)
    /\ \A d \in DOMAIN saved.rows : \A p \in DOMAIN saved.rows[d].lines :
         Panel(saved).repaid[d][p] <= UnitsOn(Cared(d) \cap Payment, p)
    /\ SumOver(saved.staff, LAMBDA m : m.deduction)
         = saved.totals.salary - SumOver(Panel(saved).paid, LAMBDA n : n)
    /\ Recorded(Payment) = Linked(Payment) =>
         EffectiveRepayments(saved) = saved.totals.repayments
    /\ Recorded(Credit) = Linked(Credit) =>
         EffectiveCredits(saved) = saved.totals.credits
=============================================================================
