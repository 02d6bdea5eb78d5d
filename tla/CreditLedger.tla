---------------------------- MODULE CreditLedger ----------------------------
(***************************************************************************)
(* The money a customer owes: src/server/apps/customers/services.py, the   *)
(* credit lines, the payments collected on them, and the debt_balance and  *)
(* credit_limit of the customer, changed by concurrent requests.           *)
(*                                                                         *)
(* line, pay, debt and limit are the COMMITTED rows.  A transaction is an  *)
(* entry of tx: the rows it has locked, and what it computed from what it  *)
(* read.  It writes when it commits, holding every lock it will ever take, *)
(* so nobody sees a write before.  A transaction the code refuses leaves   *)
(* nothing but its locks, and those only until it ends.                    *)
(*                                                                         *)
(* Rows of credit_line and credit_payment come and go: an id without a row *)
(* that no transaction refers to may be used for the next one.             *)
(***************************************************************************)
EXTENDS Integers, FiniteSets, Functions

CONSTANTS
  Clerk,      \* requests of customers/views.py in progress
  Customer,
  Line,       \* ids of CreditLine
  Owner,      \* the customer of a line
  MaxSlot,    \* bound: payments a line has at a time
  MaxQty,     \* bound: containers on a line
  Price,      \* unit prices, 0 for a product given away
  Amount,     \* amounts a form may carry, 0 when left empty
  Limit,      \* credit limits, 0 for none
  NoTarget

Slot == 1..MaxSlot
Payment == Line \X Slot     \* ids of CreditPayment: <<the line it pays, slot>>

ASSUME LedgerAssumption ==
  /\ IsFiniteSet(Clerk) /\ IsFiniteSet(Line)
  /\ Owner \in [Line -> Customer]
  /\ MaxSlot \in Nat /\ MaxQty \in Nat
  /\ Price \subseteq Nat /\ Amount \subseteq Nat /\ Limit \subseteq Nat
  /\ NoTarget \notin Line \cup Payment
  /\ Line \cap Payment = {}

VARIABLES
  line,    \* line[l]: a CreditLine
  pay,     \* pay[p]: a CreditPayment
  debt,    \* debt[c]: Customer.debt_balance
  limit,   \* limit[c]: Customer.credit_limit
  tx       \* tx[k]: the transaction of clerk k

vars == <<line, pay, debt, limit, tx>>

NoLine == [qty |-> 0, left |-> 0, price |-> 0]
NoPay == [qty |-> 0, amount |-> 0, linked |-> FALSE]

\* What a request asks of a line: containers, a unit price or an amount, and
\* the containers of the line it counts as paid.
Nothing == [qty |-> 0, money |-> 0, units |-> 0]
Ask == [qty : 0..MaxQty, money : Nat, units : -MaxQty..MaxQty]

Only(l, n) == [m \in {l} |-> n]

NoTx == [op |-> "none", pc |-> "idle", target |-> NoTarget,
         ask |-> [l \in Line |-> Nothing], delta |-> 0, has |-> {}]

Tx == [op     : {"none", "debt", "collect", "editLine", "editPay", "deleteLine", "deletePay"},
       pc     : {"idle", "lines", "payments", "line", "customer", "commit"},
       target : Line \cup Payment \cup {NoTarget},
       ask    : [Line -> Ask],
       delta  : Int,                                  \* change of debt_balance
       has    : SUBSET (Line \cup Payment \cup Customer)]   \* row locks

\* A stored payment has paid for something: containers, money, or both.  The
\* containers of a product that costs nothing carry no money.
Paid == {r \in [qty : 0..MaxQty, amount : Nat, linked : BOOLEAN] : r.qty + r.amount > 0}

\* The rows of the ledger and what the requests in progress carry have their
\* types, and no edit leaves a payment that has paid for nothing.
TypeOK ==
  /\ line \in [Line -> [qty : 0..MaxQty, left : Int, price : Price \cup {0}]]
  /\ pay \in [Payment -> {NoPay} \cup Paid]
  /\ debt \in [Customer -> Int]
  /\ limit \in [Customer -> Limit]
  /\ tx \in [Clerk -> Tx]

Init ==
  /\ line = [l \in Line |-> NoLine]
  /\ pay = [p \in Payment |-> NoPay]
  /\ debt = [c \in Customer |-> 0]
  /\ limit \in [Customer -> Limit]
  /\ tx = [k \in Clerk |-> NoTx]

-----------------------------------------------------------------------------
Live(l) == line[l].qty > 0
Exists(p) == pay[p].qty + pay[p].amount > 0
PaymentsOf(l) == {p \in Payment : p[1] = l /\ Exists(p)}
Total(l) == line[l].qty * line[l].price
Collected(l) == SumFunctionOnSet([p \in Payment |-> pay[p].amount], PaymentsOf(l))

Free(x, k) == \A j \in Clerk \ {k} : x \notin tx[j].has

Asked(k) == {l \in Line : tx[k].ask[l] # Nothing}
\* the lines a transaction refers to
LinesOf(k) ==
  Asked(k) \cup {l \in Line : tx[k].target = l \/ tx[k].target \in {l} \X Slot}
CustomerOf(k) == CHOOSE c \in Customer : \E l \in LinesOf(k) : c = Owner[l]

Unused(l) == ~Live(l) /\ \A k \in Clerk : l \notin LinesOf(k)
Idle(k) == tx[k].pc = "idle"

\* Mutant: a refused transaction is left open.
EndKeepsLocks(k) == tx' = [tx EXCEPT ![k] = [NoTx EXCEPT !.has = tx[k].has]]
End(k) == tx' = [tx EXCEPT ![k] = NoTx]
Refuse(k) == End(k) /\ UNCHANGED <<line, pay, debt, limit>>
Proceed(k, t) == tx' = [tx EXCEPT ![k] = t] /\ UNCHANGED <<line, pay, debt, limit>>

Begin(op, pc, target, ask, delta, has) ==
  [op |-> op, pc |-> pc, target |-> target, delta |-> delta, has |-> has,
   ask |-> [l \in Line |-> IF l \in DOMAIN ask THEN ask[l] ELSE Nothing]]

-----------------------------------------------------------------------------
(***************************************************************************)
(* The first step of each request: what it reads, and the first lock of    *)
(* those that take one.  A request refused here has no effect.             *)
(***************************************************************************)
\* record_customer_debt
RequestDebt(k, l, q, price) ==
  /\ Idle(k) /\ Unused(l)
  /\ Proceed(k, Begin("debt", "customer", l,
                      Only(l, [qty |-> q, money |-> price, units |-> 0]), q * price, {}))

\* units submitted without an amount are priced by the server
MoneyFor(l, q, a) == IF a = 0 THEN q * line[l].price ELSE a

\* bound: the payments in progress fit in the slots of the line
HasRoom(l) ==
  Cardinality(PaymentsOf(l))
    + Cardinality({j \in Clerk : tx[j].op = "collect" /\ l \in Asked(j)}) < MaxSlot

CollectedNow(ask, L) == SumFunctionOnSet([l \in L |-> ask[l].money], L)

\* record_customer_collection validates against rows it has not locked
RequestCollection(k, c, L, qty, amount) ==
  LET ask == [l \in L |-> [qty |-> qty[l], money |-> MoneyFor(l, qty[l], amount[l]),
                           units |-> qty[l]]]
  IN /\ Idle(k)
     /\ \A l \in L : /\ Owner[l] = c /\ Live(l)
                     /\ qty[l] =< line[l].left
                     /\ qty[l] + amount[l] > 0
                     /\ HasRoom(l)
     /\ Proceed(k, Begin("collect", "lines", NoTarget, ask,
                         -CollectedNow(ask, L), {}))

\* edit_credit_line: what is already paid is read with the lock
RequestEditLine(k, l, q, price) ==
  LET paid == line[l].qty - line[l].left
  IN /\ Idle(k) /\ Live(l) /\ Free(l, k)
     /\ price > 0 /\ q >= paid
     /\ Proceed(k, Begin("editLine", "customer", l,
                         Only(l, [qty |-> q, money |-> price, units |-> paid]),
                         q * price - Total(l), {l}))

\* Mutant: the payment is read without select_for_update.
RequestEditPaymentNoLock(k, p, q, a) ==
  /\ Idle(k) /\ Exists(p) /\ Free(p, k)
  /\ a > 0
  /\ Proceed(k, Begin("editPay", "line", p,
                      Only(p[1], [qty |-> q, money |-> a, units |-> q - pay[p].qty]),
                      pay[p].amount - a, {}))

\* Mutant: the amount of an edit is not validated.
RequestEditPaymentAnyAmount(k, p, q, a) ==
  /\ Idle(k) /\ Exists(p) /\ Free(p, k)
  /\ Proceed(k, Begin("editPay", "line", p,
                      Only(p[1], [qty |-> q, money |-> a, units |-> q - pay[p].qty]),
                      pay[p].amount - a, {p}))

\* edit_credit_payment
RequestEditPayment(k, p, q, a) ==
  /\ Idle(k) /\ Exists(p) /\ Free(p, k)
  /\ a > 0
  /\ Proceed(k, Begin("editPay", "line", p,
                      Only(p[1], [qty |-> q, money |-> a, units |-> q - pay[p].qty]),
                      pay[p].amount - a, {p}))

\* delete_credit_payment
RequestDeletePayment(k, p) ==
  /\ Idle(k) /\ Exists(p) /\ Free(p, k)
  /\ ~pay[p].linked
  /\ Proceed(k, Begin("deletePay", "line", p,
                      Only(p[1], [qty |-> 0, money |-> 0, units |-> -pay[p].qty]),
                      pay[p].amount, {p}))

\* delete_credit_line
RequestDeleteLine(k, l) ==
  /\ Idle(k) /\ Live(l) /\ Free(l, k)
  /\ Proceed(k, Begin("deleteLine", "payments", l, <<>>, 0, {l}))

-----------------------------------------------------------------------------
(***************************************************************************)
(* The locks taken after that.                                             *)
(***************************************************************************)
\* the lines of a collection, one row after the other
LockAsked(k) ==
  /\ tx[k].pc = "lines"
  /\ \E l \in Asked(k) \ tx[k].has :
       Free(l, k) /\ Proceed(k, [tx[k] EXCEPT !.has = @ \cup {l}])

StillPayable(k) == \A l \in Asked(k) : Live(l) /\ tx[k].ask[l].qty =< line[l].left

\* Mutant: the lines are locked, but not looked at again.
RecheckNothing(k) ==
  /\ tx[k].pc = "lines" /\ Asked(k) \subseteq tx[k].has
  /\ Proceed(k, [tx[k] EXCEPT !.pc = "customer"])

\* the second validation of a collection, on the locked lines
Recheck(k) ==
  /\ tx[k].pc = "lines" /\ Asked(k) \subseteq tx[k].has
  /\ IF StillPayable(k) THEN Proceed(k, [tx[k] EXCEPT !.pc = "customer"])
                        ELSE Refuse(k)

\* the line of a payment that is edited or deleted
LockLine(k) ==
  LET l == tx[k].target[1]
      left == line[l].left - tx[k].ask[l].units
  IN /\ tx[k].pc = "line" /\ Free(l, k)
     /\ IF tx[k].op = "editPay" /\ left \notin 0..line[l].qty
        THEN Refuse(k)
        ELSE Proceed(k, [tx[k] EXCEPT !.pc = "customer", !.has = @ \cup {l}])

\* the payments of a line that is deleted, one row after the other
LockPayment(k) ==
  /\ tx[k].pc = "payments"
  /\ \E p \in PaymentsOf(tx[k].target) \ tx[k].has :
       Free(p, k) /\ Proceed(k, [tx[k] EXCEPT !.has = @ \cup {p}])

ReadPayments(k) ==
  LET l == tx[k].target
  IN IF \E p \in PaymentsOf(l) : pay[p].linked
     THEN Refuse(k)
     ELSE Proceed(k, [tx[k] EXCEPT !.pc = "customer", !.delta = Collected(l) - Total(l)])

\* Mutant: the payments are read without select_for_update.
PaymentsReadNoLock(k) == tx[k].pc = "payments" /\ ReadPayments(k)
PaymentsLocked(k) ==
  /\ tx[k].pc = "payments"
  /\ PaymentsOf(tx[k].target) \subseteq tx[k].has
  /\ ReadPayments(k)

WithinLimit(k) ==
  LET c == CustomerOf(k)
  IN limit[c] > 0 => debt[c] + tx[k].delta =< limit[c]

\* The check on the locked customer.  A collection has none of its own: its
\* UPDATE waits for the row like the others, and the CHECK constraint of
\* debt_balance ends the transaction.
Affordable(k) ==
  /\ debt[CustomerOf(k)] + tx[k].delta >= 0
  /\ tx[k].op \in {"debt", "editLine"} => WithinLimit(k)

\* Mutant: the customer is read without select_for_update.
LockCustomerNoLock(k) ==
  /\ tx[k].pc = "customer"
  /\ IF Affordable(k) THEN Proceed(k, [tx[k] EXCEPT !.pc = "commit"]) ELSE Refuse(k)

LockCustomer(k) ==
  /\ tx[k].pc = "customer" /\ Free(CustomerOf(k), k)
  /\ IF Affordable(k)
     THEN Proceed(k, [tx[k] EXCEPT !.pc = "commit", !.has = @ \cup {CustomerOf(k)}])
     ELSE Refuse(k)

-----------------------------------------------------------------------------
(***************************************************************************)
(* The end of a transaction.                                               *)
(***************************************************************************)
LineAfter(k, l) ==
  LET t == tx[k]
      n == t.ask[l]
  IN CASE t.target = l /\ t.op = "deleteLine" -> NoLine
       [] t.target = l /\ t.op # "deleteLine" -> [qty |-> n.qty, left |-> n.qty - n.units, price |-> n.money]
       [] OTHER -> [line[l] EXCEPT !.left = @ - n.units]

FreeSlot(l) == CHOOSE s \in Slot : ~Exists(<<l, s>>) /\ \A r \in 1..(s - 1) : Exists(<<l, r>>)

PayAfter(k, p) ==
  LET t == tx[k]
      n == t.ask[p[1]]
  IN CASE t.op = "collect" /\ p[1] \in Asked(k) /\ p[2] = FreeSlot(p[1]) ->
            [qty |-> n.qty, amount |-> n.money, linked |-> FALSE]
       [] t.op = "editPay" /\ t.target = p ->
            [pay[p] EXCEPT !.qty = n.qty, !.amount = n.money]
       [] t.op = "deletePay" /\ t.target = p -> NoPay
       [] t.op = "deleteLine" /\ t.target = p[1] -> NoPay
       [] OTHER -> pay[p]

Commit(k) ==
  /\ tx[k].pc = "commit"
  /\ line' = [l \in Line |-> LineAfter(k, l)]
  /\ pay' = [p \in Payment |-> PayAfter(k, p)]
  /\ debt' = [debt EXCEPT ![CustomerOf(k)] = @ + tx[k].delta]
  /\ End(k)
  /\ UNCHANGED limit

\* a database error or a killed worker
Abort(k) == ~Idle(k) /\ Refuse(k)

\* Transactions each of which waits for rows the others hold; PostgreSQL ends
\* one of them.
Needs(k) ==
  CASE tx[k].pc = "lines"    -> Asked(k) \ tx[k].has
    [] tx[k].pc = "payments" -> PaymentsOf(tx[k].target) \ tx[k].has
    [] tx[k].pc = "line"     -> {tx[k].target[1]}
    [] tx[k].pc = "customer" -> {CustomerOf(k)}
    [] OTHER -> {}

Deadlocked(S) ==
  \A k \in S : Needs(k) # {} /\ \A x \in Needs(k) : \E j \in S \ {k} : x \in tx[j].has

Victim(k) == (\E S \in SUBSET Clerk : k \in S /\ Deadlocked(S)) /\ Refuse(k)

-----------------------------------------------------------------------------
\* update_customer and bulk_update_credit_limit: one UPDATE
SetLimit(c, n) ==
  /\ \A k \in Clerk : c \notin tx[k].has
  /\ limit' = [limit EXCEPT ![c] = n]
  /\ UNCHANGED <<line, pay, debt, tx>>

\* a remittance links a payment, or a draft that is replaced unlinks it
Remit(p) ==
  /\ Exists(p)
  /\ \A k \in Clerk : p \notin tx[k].has
  /\ pay' = [pay EXCEPT ![p].linked = ~@]
  /\ UNCHANGED <<line, debt, limit, tx>>

Step(k) ==
  \/ LockAsked(k) \/ Recheck(k) \/ LockLine(k) \/ LockPayment(k)
  \/ PaymentsLocked(k) \/ LockCustomer(k) \/ Commit(k)

Next ==
  \/ \E k \in Clerk :
       \/ \E l \in Line, q \in 1..MaxQty, price \in Price :
            RequestDebt(k, l, q, price) \/ RequestEditLine(k, l, q, price)
       \/ \E c \in Customer, L \in (SUBSET Line) \ {{}} :
            \E qty \in [L -> 0..MaxQty], amount \in [L -> Amount] :
              RequestCollection(k, c, L, qty, amount)
       \/ \E p \in Payment :
            \/ \E q \in 0..MaxQty, a \in Amount : RequestEditPayment(k, p, q, a)
            \/ RequestDeletePayment(k, p)
       \/ \E l \in Line : RequestDeleteLine(k, l)
       \/ Step(k) \/ Abort(k) \/ Victim(k)
  \/ \E c \in Customer, n \in Limit : SetLimit(c, n)
  \/ \E p \in Payment : Remit(p)

Spec == Init /\ [][Next]_vars

\* PostgreSQL hands a lock to its waiters in turn, and breaks deadlocks
FairSpec ==
  /\ Spec
  /\ \A k \in Clerk : SF_vars(Step(k)) /\ WF_vars(Victim(k))

-----------------------------------------------------------------------------
(***************************************************************************)
(* Properties.                                                             *)
(***************************************************************************)
\* The denormalized debt_balance, updated with F() expressions, is what the
\* credit lines and the payments amount to, and never negative, whatever
\* recordings, collections, edits and deletions run at once.
DebtIsLedgerSum ==
  \A c \in Customer :
    /\ debt[c] = SumFunctionOnSet([l \in Line |-> Total(l) - Collected(l)],
                                  {l \in Line : Owner[l] = c})
    /\ debt[c] >= 0

\* The containers left to pay on a line are those credited less those of its
\* payments, so no container is paid twice, and a deleted line has no payment.
UnitsAddUp ==
  \A l \in Line :
    /\ line[l].left = line[l].qty
         - SumFunctionOnSet([p \in Payment |-> pay[p].qty], PaymentsOf(l))
    /\ line[l].left >= 0
    /\ ~Live(l) => PaymentsOf(l) = {}

\* A recorded or edited credit line leaves the customer within the limit that
\* holds when it commits, although the limit and the debt change meanwhile.
LimitRespected ==
  [][\A k \in Clerk : tx[k].op \in {"debt", "editLine"} /\ line' # line /\ tx'[k].pc = "idle" =>
       LET c == CustomerOf(k) IN limit[c] = 0 \/ debt'[c] =< limit[c]]_vars

\* A payment that a remittance has linked is not deleted, not even with its
\* credit line, although it may be linked while the deletion is in progress.
RemittedPaymentsStay ==
  [][\A p \in Payment : pay[p].linked => pay'[p] # NoPay]_vars

\* Every request on the ledger is answered, also when it waits in a circle:
\* an edited payment locks the payment before the line, a deleted line the
\* other way round.
LedgerRequestsEnd == \A k \in Clerk : tx[k].pc # "idle" ~> tx[k].pc = "idle"
=============================================================================
