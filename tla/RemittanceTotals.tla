-------------------------- MODULE RemittanceTotals --------------------------
(***************************************************************************)
(* The money of one day: what _build_remittance of                         *)
(* src/server/apps/remittance/services.py computes from the posted form,   *)
(* the product prices, the commission rates and the repayments it read.    *)
(* Amounts are integers.  A list of expenses or deductions is its sum: an  *)
(* entry only enters sums, and one that is negative refuses the request.   *)
(***************************************************************************)
EXTENDS Integers, FiniteSets, Functions

CONSTANTS
  Driver,   \* users with the role Driver
  Member,   \* users with the role Staff
  Product,
  None      \* an amount left empty, and the care_of of a storefront sale

\* Python's max(Decimal("0.00"), n)
AtLeastZero(n) == IF n > 0 THEN n ELSE 0

Given(n) == IF n = None THEN 0 ELSE n

\* units a rider has to hand money in for
Paid(l) == AtLeastZero(l.sold - l.credited + l.repaid)

\* One RemittanceRiderProductLine, from a line of the form.
ProductLine(l, price, rate) ==
  [sold |-> l.sold, credited |-> l.credited, price |-> price, rate |-> rate,
   payable |-> Paid(l) * price, credit |-> l.credited * price,
   commission |-> Paid(l) * rate]

\* The lines kept: an empty line is skipped, one with any activity is not.
ProductLines(lines, price, rate) ==
  [p \in {q \in DOMAIN lines : Paid(lines[q]) > 0 \/ lines[q].credited > 0} |->
     ProductLine(lines[p], price[p], rate[p])]

Sum(S, Of(_)) == SumFunctionOnSet([x \in S |-> Of(x)], S)
SumOver(f, Value(_)) == Sum(DOMAIN f, LAMBDA x : Value(f[x]))

\* A RemittanceRider with what hangs on it, for a rider in the form.
RiderRow(r, price, rate) ==
  LET kept == ProductLines(r.lines, price, rate)
  IN  [lines |-> kept,
       payable    |-> SumOver(kept, LAMBDA l : l.payable),
       commission |-> IF r.override = None THEN SumOver(kept, LAMBDA l : l.commission)
                                           ELSE r.override,
       override |-> r.override, remitted |-> r.remitted,
       expense |-> r.expense, deduction |-> r.deduction]

\* The row of an active driver who is not in the form and has repayments.
LightRow(commission) ==
  [lines |-> << >>, payable |-> 0, commission |-> commission,
   override |-> None, remitted |-> None, expense |-> 0, deduction |-> 0]

\* Mutant: a driver who paid for something out of the cash is short of it.
ShortfallIgnoresExpense(row) == AtLeastZero(row.payable - Given(row.remitted))

\* Cash that did not come in is taken from the commission, then the deductions.
Shortfall(row) == AtLeastZero(row.payable - row.expense - Given(row.remitted))

NetCommission(row) ==
  AtLeastZero(row.commission - Shortfall(row) - row.deduction)

\* A RemittanceStaff: its salary is what the day is charged with, its net pay
\* what is left of it.
StaffRow(s, daily) ==
  LET salary == IF s.override = None THEN daily ELSE s.override
  IN  [salary |-> salary, override |-> s.override, deduction |-> s.deduction,
       expense |-> s.expense, net |-> salary - s.deduction]

\* The columns of the Remittance.  repaid is the sum of the payments linked,
\* onCredit that of the credit lines of the date.
Totals(rows, staff, general, other, repaid, onCredit) ==
  LET gross      == SumOver(rows, LAMBDA r : SumOver(r.lines, LAMBDA l : l.sold * l.price))
      credited   == SumOver(rows, LAMBDA r : SumOver(r.lines, LAMBDA l : l.credit))
      remitted   == SumOver(rows, LAMBDA r : Given(r.remitted))
      commission == SumOver(rows, NetCommission)
      salary     == SumOver(staff, LAMBDA s : s.salary)
      net        == remitted + other - commission - salary
  IN  [sales      |-> gross + other,
       credits    |-> IF credited > onCredit THEN credited ELSE onCredit,
       commission |-> commission,
       salary     |-> salary,
       expenses   |-> SumOver(rows, LAMBDA r : r.expense)
                        + SumOver(staff, LAMBDA s : s.expense) + general,
       other      |-> other,
       repayments |-> repaid,
       net        |-> net,
       titheBase  |-> AtLeastZero(net)]
=============================================================================
