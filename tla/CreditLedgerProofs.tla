------------------------- MODULE CreditLedgerProofs -------------------------
(***************************************************************************)
(* The credit ledger, for any number of clerks, customers, lines and       *)
(* payments.  In the first part, what concerns one row: a recorded or      *)
(* edited line leaves its customer within the limit, and a payment a       *)
(* remittance has linked is not deleted.  In the second, what concerns     *)
(* sums of rows: the debt of a customer is what the credit lines and their *)
(* payments amount to, and the containers of a line add up.                *)
(***************************************************************************)
EXTENDS CreditLedger, Sums, TLAPS

USE LedgerAssumption

\* a payment that has paid for something
Stored == {r \in [qty : Nat, amount : Nat, linked : BOOLEAN] : r.qty + r.amount > 0}

USE DEF Stored

(***************************************************************************)
(* The inductive invariant.                                                *)
(***************************************************************************)
RowsOK ==
  /\ line \in [Line -> [qty : Nat, left : Int, price : Nat]]
  /\ pay \in [Payment -> {NoPay} \cup Stored]
  /\ debt = [c \in Customer |-> debt[c]]
  /\ limit \in [Customer -> Nat]
  /\ tx = [k \in Clerk |-> tx[k]]

\* a transaction is the record of its fields
Fields(t) == t = [op |-> t.op, pc |-> t.pc, target |-> t.target, ask |-> t.ask,
                  delta |-> t.delta, has |-> t.has]

\* what a transaction asks for
AskOK(t) ==
  /\ Fields(t)
  /\ t.ask \in [Line -> [qty : Nat, money : Nat, units : Int]]
  /\ t.op \in {"none", "debt", "collect", "editLine", "editPay", "deleteLine", "deletePay"}
  /\ t.pc = "idle" <=> t.op = "none"
  /\ t.pc = "lines" => t.op = "collect"
  /\ t.pc = "line" => t.op \in {"editPay", "deletePay"}
  /\ t.pc = "payments" => t.op = "deleteLine"
  /\ t.op \in {"debt", "editLine"} => t.target \in Line
  /\ t.op = "deleteLine" => t.target \in Line
  /\ t.op \in {"editPay", "deletePay"} => t.target \in Payment
  /\ t.op = "editPay" => t.ask[t.target[1]].money > 0
  /\ t.op = "collect" => /\ t.target = NoTarget
                         /\ \A l \in Line : t.ask[l] # Nothing => t.ask[l].qty + t.ask[l].money > 0

\* the customer whose row a transaction locks
Payer(ask, target) ==
  CHOOSE c \in Customer :
    \E l \in {l \in Line : ask[l] # Nothing}
               \cup {l \in Line : target = l \/ target \in {l} \X Slot} : c = Owner[l]

Named(t) ==
  t.pc # "idle" =>
    \E l \in Line : t.ask[l] # Nothing \/ t.target = l \/ t.target \in {l} \X Slot

Ready(t) == t.pc \in {"customer", "commit"}

\* what it has read of the rows it has locked, and still holds of them
HeldOK(t) ==
  /\ t.op = "collect" /\ Ready(t) => \A l \in Line : t.ask[l] # Nothing => l \in t.has
  /\ t.op \in {"editPay", "deletePay"} => t.target \in t.has
  /\ t.op \in {"editPay", "deletePay"} /\ Ready(t) => t.target[1] \in t.has
  /\ t.op = "deletePay" => ~pay[t.target].linked
  /\ t.op = "deleteLine" => t.target \in t.has
  /\ t.op = "deleteLine" /\ Ready(t) =>
       \A p \in Payment : p[1] = t.target => ~pay[p].linked /\ (Exists(p) => p \in t.has)
  /\ t.pc = "commit" =>
       LET c == Payer(t.ask, t.target)
       IN  /\ c \in t.has
           /\ t.op \in {"debt", "editLine"} /\ limit[c] > 0 => debt[c] + t.delta =< limit[c]

LocksExclude == \A j, k \in Clerk : tx[j].has \cap tx[k].has # {} => j = k

IInv ==
  /\ RowsOK
  /\ \A k \in Clerk : AskOK(tx[k]) /\ Named(tx[k]) /\ HeldOK(tx[k])
  /\ LocksExclude

LEMMA CustomerIsPayer ==
  ASSUME NEW k \in Clerk
  PROVE  CustomerOf(k) = Payer(tx[k].ask, tx[k].target)
BY DEF CustomerOf, Payer, LinesOf, Asked

LEMMA PayerIsCustomer ==
  ASSUME NEW t, Named(t), t.pc # "idle"
  PROVE  Payer(t.ask, t.target) \in Customer
<1>1. PICK l \in Line : t.ask[l] # Nothing \/ t.target = l \/ t.target \in {l} \X Slot
  BY DEF Named
<1>2. l \in {m \in Line : t.ask[m] # Nothing} \cup {m \in Line : t.target = m \/ t.target \in {m} \X Slot}
  BY <1>1
<1>3. Owner[l] \in Customer
  OBVIOUS
<1> QED
  BY <1>2, <1>3 DEF Payer

LEMMA NoTxOK == AskOK(NoTx) /\ Named(NoTx) /\ HeldOK(NoTx) /\ NoTx.has = {}
<1>1. AskOK(NoTx)
  BY DEF AskOK, NoTx, Nothing, Fields
<1> QED
  BY <1>1 DEF Named, HeldOK, Ready, NoTx

\* A step that changes the transaction of k and no row.
LEMMA TxStep ==
  ASSUME IInv, NEW k \in Clerk, NEW t, Proceed(k, t),
         AskOK(t), Named(t), HeldOK(t),
         \A x \in t.has : x \in tx[k].has \/ Free(x, k)
  PROVE  IInv'
<1>1. tx'[k] = t /\ \A j \in Clerk \ {k} : tx'[j] = tx[j]
  BY DEF Proceed, IInv, RowsOK
<1>2. UNCHANGED <<line, pay, debt, limit>> /\ tx' = [j \in Clerk |-> tx'[j]]
  BY DEF Proceed, IInv, RowsOK
<1>3. RowsOK'
  BY <1>2 DEF IInv, RowsOK, Live
<1>4. \A j \in Clerk : (AskOK(tx[j]) /\ Named(tx[j]))'
  BY <1>1 DEF IInv, AskOK, Named
<1>5. \A j \in Clerk : HeldOK(tx[j])'
  BY <1>1, <1>2 DEF IInv, HeldOK, Exists, Ready
<1>6. LocksExclude'
  BY <1>1 DEF IInv, LocksExclude, Free
<1> QED
  BY <1>3, <1>4, <1>5, <1>6 DEF IInv

LEMMA RefuseStep ==
  ASSUME IInv, NEW k \in Clerk, Refuse(k)
  PROVE  IInv'
BY NoTxOK, TxStep DEF Refuse, End, Proceed

-----------------------------------------------------------------------------
(* The requests. *)

LEMMA BeginIs ==
  ASSUME NEW op, NEW pc, NEW target, NEW ask, NEW delta, NEW has
  PROVE  LET t == Begin(op, pc, target, ask, delta, has)
         IN  /\ Fields(t)
             /\ t.op = op /\ t.pc = pc /\ t.target = target /\ t.has = has
             /\ t.ask = [l \in Line |-> IF l \in DOMAIN ask THEN ask[l] ELSE Nothing]
BY DEF Begin, Fields

\* A request that asks something of one line.
LEMMA AskOne ==
  ASSUME NEW op, NEW pc, NEW target, NEW l \in Line, NEW r, NEW delta, NEW has
  PROVE  LET t == Begin(op, pc, target, Only(l, r), delta, has)
         IN  t.ask[l] = r /\ t.ask = [m \in Line |-> IF m = l THEN r ELSE Nothing]
BY BeginIs DEF Only

AskRow == [qty : Nat, money : Nat, units : Int]

\* What a request that has just begun must satisfy.
LEMMA OneAsked ==
  ASSUME IInv, NEW k \in Clerk, NEW t, Proceed(k, t),
         NEW l \in Line, NEW r \in AskRow, NEW op, NEW pc, NEW target, NEW delta, NEW has,
         t = Begin(op, pc, target, Only(l, r), delta, has),
         op \in {"debt", "editLine", "editPay", "deletePay"},
         pc = IF op \in {"debt", "editLine"} THEN "customer" ELSE "line",
         op \in {"debt", "editLine"} => target = l,
         op \in {"editPay", "deletePay"} => target \in Payment /\ target[1] = l,
         op = "editPay" => r.money > 0,
         op \in {"editPay", "deletePay"} => target \in has,
         op = "deletePay" => ~pay[target].linked,
         \A x \in has : Free(x, k)
  PROVE  IInv'
<1>1. /\ Fields(t)
      /\ t.op = op /\ t.pc = pc /\ t.target = target /\ t.has = has
  BY DEF Begin, Fields
<1>2. t.ask[l] = r /\ t.ask = [m \in Line |-> IF m = l THEN r ELSE Nothing]
  BY AskOne
<1>3. Nothing \in AskRow
  BY DEF Nothing, AskRow
<1>4. t.ask \in [Line -> AskRow]
  BY <1>2, <1>3
<1>5. AskOK(t)
  BY <1>1, <1>2, <1>4 DEF AskOK, AskRow
<1>6. Named(t)
  <2>1. op \in {"editPay", "deletePay"} => target \in {l} \X Slot
    BY DEF Payment
  <2> QED
    BY <1>1, <2>1 DEF Named
<1>7. HeldOK(t)
  BY <1>1 DEF HeldOK, Ready
<1> QED
  BY <1>1, <1>5, <1>6, <1>7, TxStep

LEMMA PayTypes ==
  ASSUME IInv, NEW p \in Payment
  PROVE  /\ p[1] \in Line /\ pay[p].qty \in Nat /\ pay[p].amount \in Nat /\ pay[p].linked \in BOOLEAN
         /\ ~Exists(p) => pay[p] = NoPay
<1>1. p[1] \in Line
  BY DEF Payment
<1>2. pay[p] \in {NoPay} \cup Stored
  BY DEF IInv, RowsOK
<1>3. CASE pay[p] = NoPay
  BY <1>1, <1>3 DEF NoPay
<1>4. CASE pay[p] \in Stored
  BY <1>1, <1>4 DEF Exists
<1> QED
  BY <1>2, <1>3, <1>4

LEMMA RequestStep ==
  ASSUME IInv, NEW k \in Clerk,
         \/ \E l \in Line, q \in 1..MaxQty, price \in Price :
              RequestDebt(k, l, q, price) \/ RequestEditLine(k, l, q, price)
         \/ \E p \in Payment :
              \/ \E q \in 0..MaxQty, a \in Amount : RequestEditPayment(k, p, q, a)
              \/ RequestDeletePayment(k, p)
  PROVE  IInv'
<1>1. ASSUME NEW l \in Line, NEW q \in 1..MaxQty, NEW price \in Price, RequestDebt(k, l, q, price)
      PROVE  IInv'
  <2> DEFINE r == [qty |-> q, money |-> price, units |-> 0]
             t == Begin("debt", "customer", l, Only(l, r), q * price, {})
  <2>1. r \in AskRow /\ Proceed(k, t)
    BY <1>1 DEF AskRow, RequestDebt
  <2> HIDE DEF r
  <2>2. t = Begin("debt", "customer", l, Only(l, r), q * price, {})
    OBVIOUS
  <2> HIDE DEF t
  <2> QED
    BY <2>1, <2>2, OneAsked
<1>2. ASSUME NEW l \in Line, NEW q \in 1..MaxQty, NEW price \in Price, RequestEditLine(k, l, q, price)
      PROVE  IInv'
  <2> DEFINE paid == line[l].qty - line[l].left
             r == [qty |-> q, money |-> price, units |-> paid]
             t == Begin("editLine", "customer", l, Only(l, r), q * price - Total(l), {l})
  <2>1. paid \in Int
    BY DEF IInv, RowsOK
  <2>2. r \in AskRow
    BY <2>1 DEF AskRow
  <2>3. Proceed(k, t) /\ Free(l, k)
    BY <1>2 DEF RequestEditLine
  <2> HIDE DEF r
  <2>4. t = Begin("editLine", "customer", l, Only(l, r), q * price - Total(l), {l})
    OBVIOUS
  <2> HIDE DEF t
  <2> QED
    BY <2>2, <2>3, <2>4, OneAsked
<1>3. ASSUME NEW p \in Payment, NEW q \in 0..MaxQty, NEW a \in Amount,
             RequestEditPayment(k, p, q, a)
      PROVE  IInv'
  <2> DEFINE r == [qty |-> q, money |-> a, units |-> q - pay[p].qty]
             t == Begin("editPay", "line", p, Only(p[1], r), pay[p].amount - a, {p})
  <2>1. r \in AskRow /\ r.money > 0 /\ p[1] \in Line
    BY <1>3, PayTypes DEF AskRow, RequestEditPayment
  <2>3. Proceed(k, t) /\ Free(p, k)
    BY <1>3 DEF RequestEditPayment
  <2> HIDE DEF r
  <2>4. t = Begin("editPay", "line", p, Only(p[1], r), pay[p].amount - a, {p})
    OBVIOUS
  <2> HIDE DEF t
  <2> QED
    BY <2>1, <2>3, <2>4, OneAsked
<1>4. ASSUME NEW p \in Payment, RequestDeletePayment(k, p)
      PROVE  IInv'
  <2> DEFINE r == [qty |-> 0, money |-> 0, units |-> -pay[p].qty]
             t == Begin("deletePay", "line", p, Only(p[1], r), pay[p].amount, {p})
  <2>1. r \in AskRow /\ p[1] \in Line
    BY PayTypes DEF AskRow
  <2>3. Proceed(k, t) /\ Free(p, k) /\ ~pay[p].linked
    BY <1>4 DEF RequestDeletePayment
  <2> HIDE DEF r
  <2>4. t = Begin("deletePay", "line", p, Only(p[1], r), pay[p].amount, {p})
    OBVIOUS
  <2> HIDE DEF t
  <2> QED
    BY <2>1, <2>3, <2>4, OneAsked
<1> QED
  BY <1>1, <1>2, <1>3, <1>4

LEMMA CollectionStep ==
  ASSUME IInv, NEW k \in Clerk, NEW c \in Customer, NEW L \in (SUBSET Line) \ {{}},
         NEW qty \in [L -> 0..MaxQty], NEW amount \in [L -> Amount],
         RequestCollection(k, c, L, qty, amount)
  PROVE  IInv'
<1> DEFINE ask == [l \in L |-> [qty |-> qty[l], money |-> MoneyFor(l, qty[l], amount[l]),
                                units |-> qty[l]]]
           t == Begin("collect", "lines", NoTarget, ask, -CollectedNow(ask, L), {})
<1>1. Proceed(k, t)
  BY DEF RequestCollection
<1>2. /\ Fields(t)
      /\ t.op = "collect" /\ t.pc = "lines" /\ t.target = NoTarget /\ t.has = {}
      /\ t.ask = [l \in Line |-> IF l \in L THEN ask[l] ELSE Nothing]
  BY BeginIs
<1>3. ASSUME NEW l \in L
      PROVE  ask[l] \in AskRow /\ ask[l].qty + ask[l].money > 0
  <2>1. /\ qty[l] \in Nat /\ amount[l] \in Nat /\ qty[l] + amount[l] > 0
        /\ line[l].price \in Nat
    BY DEF RequestCollection, IInv, RowsOK
  <2>2. /\ MoneyFor(l, qty[l], amount[l]) \in Nat
        /\ qty[l] + MoneyFor(l, qty[l], amount[l]) > 0
    <3>1. CASE amount[l] = 0
      <4>1. qty[l] > 0
        BY <2>1, <3>1
      <4>2. qty[l] * line[l].price \in Nat
        BY <2>1
      <4> QED
        BY <2>1, <3>1, <4>1, <4>2 DEF MoneyFor
    <3>2. CASE amount[l] # 0
      BY <2>1, <3>2 DEF MoneyFor
    <3> QED
      BY <3>1, <3>2
  <2> QED
    BY <2>1, <2>2 DEF AskRow
<1> HIDE DEF ask, t
<1>4. Nothing \in AskRow
  BY DEF Nothing, AskRow
<1>5. t.ask \in [Line -> AskRow]
  BY <1>2, <1>3, <1>4
<1>6. \A l \in Line : t.ask[l] # Nothing => t.ask[l].qty + t.ask[l].money > 0
  BY <1>2, <1>3
<1>7. AskOK(t)
  BY <1>2, <1>5, <1>6 DEF AskOK, AskRow
<1>8. Named(t)
  <2>1. PICK l \in L : TRUE
    OBVIOUS
  <2>2. t.ask[l] # Nothing
    BY <1>2, <1>3, <2>1 DEF Nothing
  <2> QED
    BY <2>1, <2>2 DEF Named
<1>9. HeldOK(t)
  BY <1>2 DEF HeldOK, Ready
<1> QED
  BY <1>1, <1>2, <1>7, <1>8, <1>9, TxStep

LEMMA DeleteLineStep ==
  ASSUME IInv, NEW k \in Clerk, NEW l \in Line, RequestDeleteLine(k, l)
  PROVE  IInv'
<1> DEFINE t == Begin("deleteLine", "payments", l, <<>>, 0, {l})
<1>1. Proceed(k, t) /\ Free(l, k)
  BY DEF RequestDeleteLine
<1>2. /\ Fields(t)
      /\ t.op = "deleteLine" /\ t.pc = "payments" /\ t.target = l /\ t.has = {l}
      /\ t.ask = [m \in Line |-> Nothing]
  <2>1. DOMAIN <<>> = {}
    OBVIOUS
  <2> QED
    BY <2>1 DEF Begin, Fields
<1> HIDE DEF t
<1>3. t.ask \in [Line -> AskRow]
  BY <1>2 DEF Nothing, AskRow
<1>4. AskOK(t) /\ Named(t)
  BY <1>2, <1>3 DEF AskOK, Named, AskRow
<1>5. HeldOK(t)
  BY <1>2 DEF HeldOK, Ready
<1> QED
  BY <1>1, <1>2, <1>4, <1>5, TxStep

-----------------------------------------------------------------------------
(* The locks. *)

LEMMA PcHas ==
  ASSUME NEW u, Fields(u), NEW pc, NEW has, NEW t, t = [u EXCEPT !.pc = pc, !.has = has]
  PROVE  Fields(t)
BY DEF Fields

LEMMA FieldsPcHas ==
  ASSUME NEW u, Fields(u), NEW pc, NEW has
  PROVE  Fields([u EXCEPT !.pc = pc, !.has = has])
BY PcHas

LEMMA Has ==
  ASSUME NEW u, Fields(u), NEW has, NEW t, t = [u EXCEPT !.has = has]
  PROVE  Fields(t)
BY DEF Fields

LEMMA FieldsHas ==
  ASSUME NEW u, Fields(u), NEW has
  PROVE  Fields([u EXCEPT !.has = has])
BY Has

LEMMA PcDelta ==
  ASSUME NEW u, Fields(u), NEW pc, NEW delta, NEW t, t = [u EXCEPT !.pc = pc, !.delta = delta]
  PROVE  Fields(t)
BY DEF Fields

LEMMA FieldsPcDelta ==
  ASSUME NEW u, Fields(u), NEW pc, NEW delta
  PROVE  Fields([u EXCEPT !.pc = pc, !.delta = delta])
BY PcDelta

LEMMA LockStep ==
  ASSUME IInv, NEW k \in Clerk,
         LockAsked(k) \/ Recheck(k) \/ LockLine(k) \/ LockPayment(k)
  PROVE  IInv'
<1>0. AskOK(tx[k]) /\ Named(tx[k]) /\ HeldOK(tx[k])
  BY DEF IInv
<1>1. CASE LockAsked(k)
  <2>1. PICK l \in Line :
          tx[k].pc = "lines" /\ Free(l, k) /\ Proceed(k, [tx[k] EXCEPT !.has = @ \cup {l}])
    BY <1>1 DEF LockAsked, Asked
  <2> DEFINE t == [tx[k] EXCEPT !.has = @ \cup {l}]
  <2>4. /\ Fields(t)
        /\ t.op = tx[k].op /\ t.pc = tx[k].pc /\ t.target = tx[k].target
        /\ t.ask = tx[k].ask /\ t.has = tx[k].has \cup {l}
    <3>0. Fields(tx[k])
      BY <1>0 DEF AskOK
    <3>1. /\ t.op = tx[k].op /\ t.pc = tx[k].pc /\ t.target = tx[k].target
          /\ t.ask = tx[k].ask /\ t.has = tx[k].has \cup {l}
      BY <3>0 DEF Fields
    <3>2. Fields(t)
      BY <3>0, FieldsHas, FieldsPcHas, FieldsPcDelta
    <3> QED
      BY <3>1, <3>2
  <2>5. Proceed(k, t) /\ Free(l, k)
    BY <2>1
  <2> HIDE DEF t
  <2>2. AskOK(t) /\ Named(t)
    BY <1>0, <2>4 DEF AskOK, Named
  <2>3. HeldOK(t)
    BY <1>0, <2>1, <2>4 DEF AskOK, HeldOK, Ready
  <2> QED
    BY <2>2, <2>3, <2>4, <2>5, TxStep
<1>2. CASE Recheck(k)
  <2> DEFINE t == [tx[k] EXCEPT !.pc = "customer"]
  <2>1. tx[k].pc = "lines" /\ Asked(k) \subseteq tx[k].has /\ tx[k].op = "collect"
    BY <1>0, <1>2 DEF Recheck, AskOK
  <2>2. AskOK(t) /\ Named(t)
    BY <1>0, <2>1 DEF AskOK, Named, Fields
  <2>3. HeldOK(t) /\ t.has = tx[k].has
    BY <1>0, <2>1 DEF AskOK, HeldOK, Ready, Asked, Fields
  <2>4. Proceed(k, t) \/ Refuse(k)
    BY <1>2 DEF Recheck
  <2> QED
    BY <2>2, <2>3, <2>4, TxStep, RefuseStep
<1>3. CASE LockLine(k)
  <2> DEFINE l == tx[k].target[1]
             t == [tx[k] EXCEPT !.pc = "customer", !.has = @ \cup {l}]
  <2>1. tx[k].pc = "line" /\ Free(l, k) /\ tx[k].op \in {"editPay", "deletePay"}
    BY <1>0, <1>3 DEF LockLine, AskOK
  <2>5. /\ Fields(t)
        /\ t.op = tx[k].op /\ t.pc = "customer" /\ t.target = tx[k].target
        /\ t.ask = tx[k].ask /\ t.has = tx[k].has \cup {l}
    <3>0. Fields(tx[k])
      BY <1>0 DEF AskOK
    <3>1. /\ t.op = tx[k].op /\ t.pc = "customer" /\ t.target = tx[k].target
          /\ t.ask = tx[k].ask /\ t.has = tx[k].has \cup {l}
      BY <3>0 DEF Fields
    <3>2. Fields(t)
      BY <3>0, FieldsHas, FieldsPcHas, FieldsPcDelta
    <3> QED
      BY <3>1, <3>2
  <2>4. Proceed(k, t) \/ Refuse(k)
    BY <1>3 DEF LockLine
  <2> HIDE DEF t
  <2>2. AskOK(t) /\ Named(t)
    BY <1>0, <2>1, <2>5 DEF AskOK, Named
  <2>3. HeldOK(t)
    BY <1>0, <2>1, <2>5 DEF AskOK, HeldOK, Ready
  <2> QED
    BY <2>1, <2>2, <2>3, <2>4, <2>5, TxStep, RefuseStep
<1>4. CASE LockPayment(k)
  <2>1. PICK p \in Payment :
          tx[k].pc = "payments" /\ Free(p, k) /\ Proceed(k, [tx[k] EXCEPT !.has = @ \cup {p}])
    BY <1>4 DEF LockPayment, PaymentsOf
  <2> DEFINE t == [tx[k] EXCEPT !.has = @ \cup {p}]
  <2>4. /\ Fields(t)
        /\ t.op = tx[k].op /\ t.pc = tx[k].pc /\ t.target = tx[k].target
        /\ t.ask = tx[k].ask /\ t.has = tx[k].has \cup {p}
    <3>0. Fields(tx[k])
      BY <1>0 DEF AskOK
    <3>1. /\ t.op = tx[k].op /\ t.pc = tx[k].pc /\ t.target = tx[k].target
          /\ t.ask = tx[k].ask /\ t.has = tx[k].has \cup {p}
      BY <3>0 DEF Fields
    <3>2. Fields(t)
      BY <3>0, FieldsHas, FieldsPcHas, FieldsPcDelta
    <3> QED
      BY <3>1, <3>2
  <2>5. Proceed(k, t) /\ Free(p, k)
    BY <2>1
  <2> HIDE DEF t
  <2>2. AskOK(t) /\ Named(t)
    BY <1>0, <2>4 DEF AskOK, Named
  <2>3. HeldOK(t)
    BY <1>0, <2>1, <2>4 DEF AskOK, HeldOK, Ready
  <2> QED
    BY <2>2, <2>3, <2>4, <2>5, TxStep
<1> QED
  BY <1>1, <1>2, <1>3, <1>4

LEMMA PaymentsLockedStep ==
  ASSUME IInv, NEW k \in Clerk, PaymentsLocked(k)
  PROVE  IInv'
<1> DEFINE l == tx[k].target
           d == Collected(l) - Total(l)
           t == [tx[k] EXCEPT !.pc = "customer", !.delta = d]
<1>0. AskOK(tx[k]) /\ Named(tx[k]) /\ HeldOK(tx[k])
  BY DEF IInv
<1>1. tx[k].pc = "payments" /\ PaymentsOf(l) \subseteq tx[k].has /\ tx[k].op = "deleteLine"
  BY <1>0 DEF PaymentsLocked, AskOK
<1>2. Refuse(k) \/ (Proceed(k, t) /\ \A p \in PaymentsOf(l) : ~pay[p].linked)
  BY DEF PaymentsLocked, ReadPayments
<1>3. CASE Proceed(k, t) /\ \A p \in PaymentsOf(l) : ~pay[p].linked
  <2>4. /\ Fields(t)
        /\ t.op = tx[k].op /\ t.pc = "customer" /\ t.target = tx[k].target
        /\ t.ask = tx[k].ask /\ t.has = tx[k].has
    <3>0. Fields(tx[k])
      BY <1>0 DEF AskOK
    <3>1. /\ t.op = tx[k].op /\ t.pc = "customer" /\ t.target = tx[k].target
          /\ t.ask = tx[k].ask /\ t.has = tx[k].has
      BY <3>0 DEF Fields
    <3>2. Fields(t)
      BY <3>0, FieldsHas, FieldsPcHas, FieldsPcDelta
    <3> QED
      BY <3>1, <3>2
  <2>5. Proceed(k, t)
    BY <1>3
  <2> HIDE DEF t
  <2>1. AskOK(t) /\ Named(t)
    BY <1>0, <1>1, <2>4 DEF AskOK, Named
  <2>2. \A p \in Payment : p[1] = l => ~pay[p].linked /\ (Exists(p) => p \in tx[k].has)
    BY <1>1, <1>3, PayTypes DEF PaymentsOf, NoPay
  <2>3. HeldOK(t)
    BY <1>0, <1>1, <2>2, <2>4 DEF AskOK, HeldOK, Ready
  <2> QED
    BY <2>1, <2>3, <2>4, <2>5, TxStep
<1> QED
  BY <1>2, <1>3, RefuseStep

LEMMA LockCustomerStep ==
  ASSUME IInv, NEW k \in Clerk, LockCustomer(k)
  PROVE  IInv'
<1> DEFINE c == CustomerOf(k)
           t == [tx[k] EXCEPT !.pc = "commit", !.has = @ \cup {c}]
<1>0. AskOK(tx[k]) /\ Named(tx[k]) /\ HeldOK(tx[k])
  BY DEF IInv
<1>1. tx[k].pc = "customer" /\ Free(c, k)
  BY DEF LockCustomer
<1>2. Refuse(k) \/ (Proceed(k, t) /\ Affordable(k))
  BY DEF LockCustomer
<1>3. CASE Proceed(k, t) /\ Affordable(k)
  <2>2. /\ Fields(t)
        /\ t.op = tx[k].op /\ t.pc = "commit" /\ t.target = tx[k].target
        /\ t.ask = tx[k].ask /\ t.delta = tx[k].delta /\ t.has = tx[k].has \cup {c}
    <3>0. Fields(tx[k])
      BY <1>0 DEF AskOK
    <3>1. /\ t.op = tx[k].op /\ t.pc = "commit" /\ t.target = tx[k].target
          /\ t.ask = tx[k].ask /\ t.delta = tx[k].delta /\ t.has = tx[k].has \cup {c}
      BY <3>0 DEF Fields
    <3>2. Fields(t)
      BY <3>0, FieldsHas, FieldsPcHas, FieldsPcDelta
    <3> QED
      BY <3>1, <3>2
  <2> HIDE DEF t, c
  <2>1. AskOK(t) /\ Named(t)
    BY <1>0, <1>1, <2>2 DEF AskOK, Named
  <2>3. c = Payer(t.ask, t.target)
    BY <2>2, CustomerIsPayer DEF c
  <2>4. t.op \in {"debt", "editLine"} /\ limit[c] > 0 => debt[c] + t.delta =< limit[c]
    BY <1>3, <2>2 DEF Affordable, WithinLimit, c
  <2>5. HeldOK(t)
    BY <1>0, <1>1, <2>2, <2>3, <2>4 DEF HeldOK, Ready
  <2> QED
    BY <1>1, <1>3, <2>1, <2>2, <2>5, TxStep
<1> QED
  BY <1>2, <1>3, RefuseStep

-----------------------------------------------------------------------------
(* The commit, and the steps that are not a clerk's. *)

\* What a commit does to a payment: it links none, it creates one only under
\* the lock of its line, and it removes none that is linked.
LEMMA CommitPays ==
  ASSUME IInv, NEW k \in Clerk, Commit(k), NEW p \in Payment
  PROVE  /\ pay'[p] \in {NoPay} \cup Stored
         /\ pay'[p].linked => pay[p].linked
         /\ pay[p].linked => pay'[p] # NoPay
         /\ Exists(p)' /\ ~Exists(p) => p[1] \in tx[k].has
<1> DEFINE t == tx[k]
           n == t.ask[p[1]]
<1>0. AskOK(t) /\ HeldOK(t) /\ t.pc = "commit" /\ pay'[p] = PayAfter(k, p)
  BY DEF IInv, Commit
<1>1. /\ p[1] \in Line /\ pay[p].qty \in Nat /\ pay[p].amount \in Nat /\ pay[p].linked \in BOOLEAN
      /\ ~Exists(p) => pay[p] = NoPay
      /\ pay[p] \in {NoPay} \cup Stored
  BY PayTypes DEF IInv, RowsOK
<1>2. n.qty \in Nat /\ n.money \in Nat
  BY <1>0, <1>1 DEF AskOK
<1>3. CASE t.op = "collect" /\ p[1] \in Asked(k) /\ p[2] = FreeSlot(p[1])
  <2>1. n.qty + n.money > 0 /\ p[1] \in t.has
    BY <1>0, <1>1, <1>3 DEF AskOK, HeldOK, Ready, Asked
  <2>2. pay'[p] = [qty |-> n.qty, amount |-> n.money, linked |-> FALSE]
    BY <1>0, <1>3 DEF PayAfter
  <2> QED
    BY <1>2, <2>1, <2>2 DEF NoPay
<1>4. CASE t.op = "editPay" /\ t.target = p
  <2>1. n.money > 0
    BY <1>0, <1>4 DEF AskOK
  <2>2. pay'[p] = [pay[p] EXCEPT !.qty = n.qty, !.amount = n.money]
    BY <1>0, <1>4 DEF PayAfter
  <2>3. \/ pay[p] = [qty |-> 0, amount |-> 0, linked |-> FALSE]
        \/ pay[p] \in Stored
    BY <1>1 DEF NoPay
  <2>4. pay'[p] = [qty |-> n.qty, amount |-> n.money, linked |-> pay[p].linked]
    BY <2>2, <2>3
  <2>5. p[1] \in t.has
    BY <1>0, <1>4 DEF HeldOK, Ready
  <2> QED
    BY <1>1, <1>2, <2>1, <2>4, <2>5 DEF NoPay
<1>5. CASE t.op = "deletePay" /\ t.target = p
  <2>1. pay'[p] = NoPay /\ ~pay[p].linked
    BY <1>0, <1>5 DEF PayAfter, HeldOK
  <2> QED
    BY <2>1 DEF NoPay, Exists
<1>6. CASE t.op = "deleteLine" /\ t.target = p[1]
  <2>1. pay'[p] = NoPay /\ ~pay[p].linked
    BY <1>0, <1>6 DEF PayAfter, HeldOK, Ready
  <2> QED
    BY <2>1 DEF NoPay, Exists
<1>7. CASE /\ ~(t.op = "collect" /\ p[1] \in Asked(k) /\ p[2] = FreeSlot(p[1]))
           /\ ~(t.op = "editPay" /\ t.target = p)
           /\ ~(t.op = "deletePay" /\ t.target = p)
           /\ ~(t.op = "deleteLine" /\ t.target = p[1])
  <2>1. pay'[p] = pay[p]
    BY <1>0, <1>7 DEF PayAfter
  <2> QED
    BY <1>1, <2>1 DEF NoPay, Exists
<1> QED
  BY <1>3, <1>4, <1>5, <1>6, <1>7

\* A commit leaves lines of the right type.
LEMMA CommitLines ==
  ASSUME IInv, NEW k \in Clerk, Commit(k), NEW l \in Line
  PROVE  line'[l] \in [qty : Nat, left : Int, price : Nat]
<1> DEFINE t == tx[k]
           n == t.ask[l]
<1>0. AskOK(t) /\ t.pc = "commit" /\ line'[l] = LineAfter(k, l)
  BY DEF IInv, Commit
<1>1. n.qty \in Nat /\ n.money \in Nat /\ n.units \in Int
  BY <1>0 DEF AskOK
<1>2. line[l] \in [qty : Nat, left : Int, price : Nat]
  BY DEF IInv, RowsOK
<1>3. CASE t.target = l /\ t.op = "deleteLine"
  <2>1. line'[l] = NoLine
    BY <1>0, <1>3 DEF LineAfter
  <2> QED
    BY <2>1 DEF NoLine
<1>4. CASE t.target = l /\ t.op # "deleteLine"
  <2>2. line'[l] = [qty |-> n.qty, left |-> n.qty - n.units, price |-> n.money]
    BY <1>0, <1>4 DEF LineAfter
  <2> QED
    BY <1>1, <2>2
<1>5. CASE t.target # l
  <2>1. line'[l] = [line[l] EXCEPT !.left = line[l].left - n.units]
    BY <1>0, <1>5 DEF LineAfter
  <2> QED
    BY <1>1, <1>2, <2>1
<1> QED
  BY <1>3, <1>4, <1>5

LEMMA CommitStep ==
  ASSUME IInv, NEW k \in Clerk, Commit(k)
  PROVE  IInv'
<1> DEFINE c == Payer(tx[k].ask, tx[k].target)
<1>0. /\ tx'[k] = NoTx /\ \A j \in Clerk \ {k} : tx'[j] = tx[j]
      /\ tx' = [j \in Clerk |-> tx'[j]]
      /\ AskOK(tx[k]) /\ HeldOK(tx[k]) /\ tx[k].pc = "commit"
  BY DEF IInv, RowsOK, Commit, End
<1>1. /\ c \in tx[k].has
      /\ debt' = [debt EXCEPT ![c] = debt[c] + tx[k].delta] /\ limit' = limit
  BY <1>0, CustomerIsPayer DEF HeldOK, Commit
<1>2. RowsOK'
  <2>1. line' \in [Line -> [qty : Nat, left : Int, price : Nat]]
    BY CommitLines DEF Commit
  <2>2. pay' \in [Payment -> {NoPay} \cup Stored]
    BY CommitPays DEF Commit
  <2>3. debt' = [d \in Customer |-> debt'[d]]
    BY <1>1 DEF IInv, RowsOK
  <2> QED
    BY <1>0, <1>1, <2>1, <2>2, <2>3, CommitLines DEF IInv, RowsOK
<1>3. ASSUME NEW j \in Clerk
      PROVE  (AskOK(tx[j]) /\ Named(tx[j]) /\ HeldOK(tx[j]))'
  <2>1. CASE j = k
    <3>1. (AskOK(NoTx) /\ Named(NoTx) /\ HeldOK(NoTx))'
      BY NoTxOK DEF AskOK, Named, HeldOK, Ready, NoTx
    <3> QED
      BY <1>0, <2>1, <3>1
  <2>2. CASE j # k
    <3> DEFINE t == tx[j]
    <3>1. t' = t /\ AskOK(t) /\ Named(t) /\ HeldOK(t)
      BY <1>0, <2>2 DEF IInv
    <3>2. tx[k].has \cap t.has = {}
      BY <2>2 DEF IInv, LocksExclude
    <3>3. t.op = "deletePay" => ~pay'[t.target].linked
      BY <3>1, CommitPays DEF HeldOK, AskOK
    <3>4. t.op = "deleteLine" /\ Ready(t) =>
            \A p \in Payment : p[1] = t.target => ~pay'[p].linked /\ (Exists(p)' => p \in t.has)
      BY <3>1, <3>2, CommitPays DEF HeldOK
    <3>5. t.pc = "commit" =>
            LET d == Payer(t.ask, t.target)
            IN  /\ d \in t.has
                /\ t.op \in {"debt", "editLine"} /\ limit'[d] > 0 => debt'[d] + t.delta =< limit'[d]
      <4> SUFFICES ASSUME t.pc = "commit"
                   PROVE  LET d == Payer(t.ask, t.target)
                          IN  /\ d \in t.has
                              /\ t.op \in {"debt", "editLine"} /\ limit'[d] > 0
                                   => debt'[d] + t.delta =< limit'[d]
        OBVIOUS
      <4> DEFINE d == Payer(t.ask, t.target)
      <4>1. d \in Customer
        BY <3>1, PayerIsCustomer
      <4>2. d \in t.has /\ d # c
        BY <1>1, <3>1, <3>2 DEF HeldOK
      <4>3. debt'[d] = debt[d]
        BY <1>1, <4>1, <4>2 DEF IInv, RowsOK
      <4> QED
        BY <1>1, <3>1, <4>2, <4>3 DEF HeldOK
    <3>6. (AskOK(tx[j]) /\ Named(tx[j]))'
      BY <3>1 DEF AskOK, Named
    <3>7. HeldOK(tx[j])'
      BY <3>1, <3>3, <3>4, <3>5 DEF HeldOK, Ready
    <3> QED
      BY <3>6, <3>7
  <2> QED
    BY <2>1, <2>2
<1>4. LocksExclude'
  BY <1>0, NoTxOK DEF IInv, LocksExclude
<1> QED
  BY <1>2, <1>3, <1>4 DEF IInv

LEMMA LimitStep ==
  ASSUME IInv, NEW c \in Customer, NEW n \in Limit, SetLimit(c, n)
  PROVE  IInv'
<1>1. /\ \A k \in Clerk : c \notin tx[k].has
      /\ limit' = [limit EXCEPT ![c] = n] /\ UNCHANGED <<line, pay, debt, tx>>
  BY DEF SetLimit
<1>2. RowsOK'
  BY <1>1 DEF IInv, RowsOK, Live
<1>3. ASSUME NEW k \in Clerk
      PROVE  (AskOK(tx[k]) /\ Named(tx[k]) /\ HeldOK(tx[k]))'
  <2> DEFINE t == tx[k]
  <2>1. t' = t /\ AskOK(t) /\ Named(t) /\ HeldOK(t)
    BY <1>1 DEF IInv
  <2>2. t.pc = "commit" => Payer(t.ask, t.target) # c
    BY <1>1, <2>1 DEF HeldOK
  <2>3. t.pc = "commit" => limit'[Payer(t.ask, t.target)] = limit[Payer(t.ask, t.target)]
    BY <1>1, <2>1, <2>2, PayerIsCustomer DEF IInv, RowsOK
  <2>4. (AskOK(tx[k]) /\ Named(tx[k]))'
    BY <2>1 DEF AskOK, Named
  <2>5. HeldOK(tx[k])'
    BY <1>1, <2>1, <2>3 DEF HeldOK, Ready, Exists
  <2> QED
    BY <2>4, <2>5
<1>4. LocksExclude'
  BY <1>1 DEF IInv, LocksExclude
<1> QED
  BY <1>2, <1>3, <1>4 DEF IInv

LEMMA RemitStep ==
  ASSUME IInv, NEW q \in Payment, Remit(q)
  PROVE  /\ IInv'
         /\ \A p \in Payment : pay[p].linked => pay'[p] # NoPay
<1>1. /\ Exists(q) /\ \A k \in Clerk : q \notin tx[k].has
      /\ pay' = [pay EXCEPT ![q].linked = ~@] /\ UNCHANGED <<line, debt, limit, tx>>
  BY DEF Remit
<1>2. pay[q] \in Stored
  BY <1>1 DEF IInv, RowsOK, Exists, NoPay
<1>3. /\ pay'[q] = [qty |-> pay[q].qty, amount |-> pay[q].amount, linked |-> ~pay[q].linked]
      /\ \A p \in Payment \ {q} : pay'[p] = pay[p]
      /\ pay' = [p \in Payment |-> pay'[p]]
  BY <1>1, <1>2 DEF IInv, RowsOK
<1>4. pay' \in [Payment -> {NoPay} \cup Stored]
  <2>1. pay'[q] \in Stored
    BY <1>2, <1>3
  <2>2. \A p \in Payment \ {q} :
          pay'[p] \in {NoPay} \cup Stored
    BY <1>3 DEF IInv, RowsOK
  <2> QED
    BY <1>3, <2>1, <2>2
<1>5. RowsOK'
  BY <1>1, <1>4 DEF IInv, RowsOK, Live
<1>6. \A p \in Payment : Exists(p)' <=> Exists(p)
  BY <1>3 DEF Exists
<1>7. ASSUME NEW k \in Clerk
      PROVE  (AskOK(tx[k]) /\ Named(tx[k]) /\ HeldOK(tx[k]))'
  <2> DEFINE t == tx[k]
  <2>1. t' = t /\ AskOK(t) /\ Named(t) /\ HeldOK(t) /\ q \notin t.has
    BY <1>1 DEF IInv
  <2>2. t.op = "deletePay" => ~pay'[t.target].linked
    BY <1>3, <2>1 DEF HeldOK, AskOK
  <2>3. t.op = "deleteLine" /\ Ready(t) =>
          \A p \in Payment : p[1] = t.target => ~pay'[p].linked /\ (Exists(p)' => p \in t.has)
    BY <1>1, <1>3, <1>6, <2>1 DEF HeldOK
  <2>4. (AskOK(tx[k]) /\ Named(tx[k]))'
    BY <2>1 DEF AskOK, Named
  <2>5. HeldOK(tx[k])'
    BY <1>1, <2>1, <2>2, <2>3 DEF HeldOK, Ready
  <2> QED
    BY <2>4, <2>5
<1>8. LocksExclude'
  BY <1>1 DEF IInv, LocksExclude
<1>9. \A p \in Payment : pay[p].linked => pay'[p] # NoPay
  BY <1>2, <1>3 DEF NoPay
<1> QED
  BY <1>5, <1>7, <1>8, <1>9 DEF IInv

-----------------------------------------------------------------------------
LEMMA Inductive == Spec => []IInv
<1>1. Init => IInv
  <2> SUFFICES ASSUME Init PROVE IInv
    OBVIOUS
  <2>1. RowsOK
    <3>1. /\ line \in [Line -> [qty : Nat, left : Int, price : Nat]]
          /\ \A l \in Line : ~Live(l)
      BY DEF Init, Live, NoLine
    <3>2. pay \in [Payment -> {NoPay} \cup Stored]
      BY DEF Init
    <3>3. debt = [c \in Customer |-> debt[c]] /\ tx = [k \in Clerk |-> tx[k]]
      BY DEF Init
    <3>4. limit \in [Customer -> Nat]
      BY DEF Init
    <3> QED
      BY <3>1, <3>2, <3>3, <3>4 DEF RowsOK
  <2>2. \A k \in Clerk : tx[k] = NoTx
    BY DEF Init
  <2> QED
    BY <2>1, <2>2, NoTxOK DEF IInv, LocksExclude
<1>2. IInv /\ [Next]_vars => IInv'
  <2> SUFFICES ASSUME IInv, [Next]_vars PROVE IInv'
    OBVIOUS
  <2>1. ASSUME NEW k \in Clerk, Step(k) PROVE IInv'
    BY <2>1, LockStep, PaymentsLockedStep, LockCustomerStep, CommitStep DEF Step
  <2>2. ASSUME NEW k \in Clerk, Abort(k) \/ Victim(k) PROVE IInv'
    BY <2>2, RefuseStep DEF Abort, Victim
  <2>3. CASE UNCHANGED vars
    BY <2>3 DEF vars, IInv, RowsOK, Live, AskOK, Named, HeldOK, Ready, Exists, LocksExclude
  <2>4. ASSUME NEW k \in Clerk,
               \/ \E l \in Line, q \in 1..MaxQty, price \in Price :
                    RequestDebt(k, l, q, price) \/ RequestEditLine(k, l, q, price)
               \/ \E c \in Customer, L \in (SUBSET Line) \ {{}} :
                    \E qty \in [L -> 0..MaxQty], amount \in [L -> Amount] :
                      RequestCollection(k, c, L, qty, amount)
               \/ \E p \in Payment :
                    \/ \E q \in 0..MaxQty, a \in Amount : RequestEditPayment(k, p, q, a)
                    \/ RequestDeletePayment(k, p)
               \/ \E l \in Line : RequestDeleteLine(k, l)
        PROVE  IInv'
    BY <2>4, RequestStep, CollectionStep, DeleteLineStep
  <2> QED
    BY <2>1, <2>2, <2>3, <2>4, LimitStep, RemitStep DEF Next
<1> QED
  BY <1>1, <1>2, PTL DEF Spec

\* What changes the lines is a commit of one clerk; a request changes none.
LEMMA OnlyCommits ==
  ASSUME [Next]_vars
  PROVE  \/ UNCHANGED <<line, pay>>
         \/ \E k \in Clerk : Commit(k)
         \/ line' = line /\ \E p \in Payment : Remit(p)
<1>2. ASSUME NEW k \in Clerk, Step(k) PROVE Commit(k) \/ UNCHANGED <<line, pay>>
  <2>1. CASE LockAsked(k)
    BY <2>1 DEF LockAsked, Proceed
  <2>2. CASE Recheck(k)
    BY <2>2 DEF Recheck, Refuse, Proceed
  <2>3. CASE LockLine(k)
    BY <2>3 DEF LockLine, Refuse, Proceed
  <2>4. CASE LockPayment(k)
    BY <2>4 DEF LockPayment, Proceed
  <2>5. CASE PaymentsLocked(k)
    BY <2>5 DEF PaymentsLocked, ReadPayments, Refuse, Proceed
  <2>6. CASE LockCustomer(k)
    BY <2>6 DEF LockCustomer, Refuse, Proceed
  <2> QED
    BY <1>2, <2>1, <2>2, <2>3, <2>4, <2>5, <2>6 DEF Step
<1>3. ASSUME NEW k \in Clerk, Abort(k) \/ Victim(k) PROVE UNCHANGED <<line, pay>>
  BY <1>3 DEF Abort, Victim, Refuse
<1>4. ASSUME NEW k \in Clerk, NEW l \in Line, NEW q \in 1..MaxQty, NEW price \in Price,
             RequestDebt(k, l, q, price) \/ RequestEditLine(k, l, q, price)
      PROVE  UNCHANGED <<line, pay>>
  BY <1>4 DEF RequestDebt, RequestEditLine, Proceed
<1>5. ASSUME NEW k \in Clerk, NEW c \in Customer, NEW L \in (SUBSET Line) \ {{}},
             NEW qty \in [L -> 0..MaxQty], NEW amount \in [L -> Amount],
             RequestCollection(k, c, L, qty, amount)
      PROVE  UNCHANGED <<line, pay>>
  BY <1>5 DEF RequestCollection, Proceed
<1>6. ASSUME NEW k \in Clerk, NEW p \in Payment,
             \/ \E q \in 0..MaxQty, a \in Amount : RequestEditPayment(k, p, q, a)
             \/ RequestDeletePayment(k, p)
      PROVE  UNCHANGED <<line, pay>>
  BY <1>6 DEF RequestEditPayment, RequestDeletePayment, Proceed
<1>7. ASSUME NEW k \in Clerk, NEW l \in Line, RequestDeleteLine(k, l)
      PROVE  UNCHANGED <<line, pay>>
  BY <1>7 DEF RequestDeleteLine, Proceed
<1>8. ASSUME NEW c \in Customer, NEW n \in Limit, SetLimit(c, n) PROVE UNCHANGED <<line, pay>>
  BY <1>8 DEF SetLimit
<1>9. ASSUME NEW p \in Payment, Remit(p) PROVE line' = line
  BY <1>9 DEF Remit
<1> QED
  BY <1>2, <1>3, <1>4, <1>5, <1>6, <1>7, <1>8, <1>9 DEF Next, vars

\* A credit line that is recorded or edited (record_customer_debt,
\* edit_credit_line) leaves the customer within the limit of that moment.
THEOREM WithinTheLimit == Spec => LimitRespected
<1>1. ASSUME IInv, [Next]_vars, NEW k \in Clerk, tx[k].op \in {"debt", "editLine"},
             line' # line, tx'[k].pc = "idle"
      PROVE  limit[CustomerOf(k)] = 0 \/ debt'[CustomerOf(k)] =< limit[CustomerOf(k)]
  <2>1. PICK j \in Clerk : Commit(j)
    BY <1>1, OnlyCommits
  <2>2. j = k
    <3>1. \A i \in Clerk \ {j} : tx'[i] = tx[i]
      BY <1>1, <2>1 DEF Commit, End, IInv, RowsOK
    <3>2. tx[k].pc # "idle"
      BY <1>1 DEF IInv, AskOK
    <3> QED
      BY <1>1, <3>1, <3>2
  <2> DEFINE c == CustomerOf(k)
  <2>3. c = Payer(tx[k].ask, tx[k].target) /\ HeldOK(tx[k]) /\ tx[k].pc = "commit"
    BY <1>1, <2>1, <2>2, CustomerIsPayer DEF IInv, Commit
  <2>4. c \in Customer
    BY <1>1, <2>3, PayerIsCustomer DEF IInv
  <2>5. debt'[c] = debt[c] + tx[k].delta /\ limit[c] \in Nat
    BY <1>1, <2>1, <2>2, <2>4 DEF Commit, IInv, RowsOK
  <2> QED
    BY <1>1, <2>3, <2>5 DEF HeldOK
<1>2. IInv /\ [Next]_vars =>
        [\A k \in Clerk : tx[k].op \in {"debt", "editLine"} /\ line' # line /\ tx'[k].pc = "idle" =>
           LET c == CustomerOf(k) IN limit[c] = 0 \/ debt'[c] =< limit[c]]_vars
  BY <1>1
<1> QED
  BY <1>2, Inductive, PTL DEF Spec, LimitRespected

\* A payment that a remittance has linked is not deleted (delete_credit_payment,
\* delete_credit_line), whatever requests run at once.
THEOREM RemittedForever == Spec => RemittedPaymentsStay
<1>1. ASSUME IInv, [Next]_vars, NEW p \in Payment, pay[p].linked
      PROVE  pay'[p] # NoPay
  <2>1. CASE UNCHANGED <<line, pay>>
    BY <1>1, <2>1 DEF NoPay
  <2>2. ASSUME NEW k \in Clerk, Commit(k) PROVE pay'[p] # NoPay
    BY <1>1, <2>2, CommitPays
  <2>3. ASSUME NEW q \in Payment, Remit(q) PROVE pay'[p] # NoPay
    BY <1>1, <2>3, RemitStep
  <2> QED
    BY <1>1, <2>1, <2>2, <2>3, OnlyCommits
<1>2. IInv /\ [Next]_vars => [\A p \in Payment : pay[p].linked => pay'[p] # NoPay]_vars
  BY <1>1
<1> QED
  BY <1>2, Inductive, PTL DEF Spec, RemittedPaymentsStay

-----------------------------------------------------------------------------
(***************************************************************************)
(* The ledger.                                                             *)
(***************************************************************************)
\* the lines a transaction refers to
Refers(t) ==
  {l \in Line : t.ask[l] # Nothing} \cup {l \in Line : t.target = l \/ t.target \in {l} \X Slot}

\* the line whose worth a transaction other than a collection changes
TheLine(t) == IF t.op \in {"editPay", "deletePay"} THEN t.target[1] ELSE t.target

AsksOnly(t, l) == \A m \in Line \ {l} : t.ask[m] = Nothing

SizesOK ==
  /\ \A l \in Line : line[l].qty \in 0..MaxQty /\ line[l].price \in Price \cup {0}
  /\ \A p \in Payment : pay[p].qty \in 0..MaxQty
  /\ debt \in [Customer -> Int]
  /\ limit \in [Customer -> Limit]

TxSizesOK(t) ==
  /\ t.pc \in {"idle", "lines", "payments", "line", "customer", "commit"}
  /\ t.target \in Line \cup Payment \cup {NoTarget}
  /\ t.ask \in [Line -> Ask]
  /\ t.delta \in Int
  /\ t.has \in SUBSET (Line \cup Payment \cup Customer)
  /\ t.op \in {"debt", "editLine"} => t.ask[t.target].money \in Price

\* What a transaction will do follows from what it has read, and what it has
\* read is still so.
NewLineRead(t) ==
  t.op = "debt" =>
    LET n == t.ask[t.target]
    IN  /\ AsksOnly(t, t.target)
        /\ ~Live(t.target)
        /\ n.qty > 0 /\ n.units = 0
        /\ t.delta = n.qty * n.money

LineRead(t) ==
  t.op = "editLine" =>
    LET l == t.target
        n == t.ask[l]
    IN  /\ AsksOnly(t, l)
        /\ l \in t.has /\ Live(l)
        /\ n.qty > 0
        /\ n.units = line[l].qty - line[l].left /\ n.qty >= n.units
        /\ t.delta = n.qty * n.money - Total(l)

PaymentRead(t) ==
  t.op \in {"editPay", "deletePay"} =>
    LET p == t.target
        n == t.ask[p[1]]
    IN  /\ AsksOnly(t, p[1])
        /\ Exists(p)
        /\ n.units = n.qty - pay[p].qty
        /\ t.delta = pay[p].amount - n.money
        /\ t.op = "deletePay" => n.qty = 0 /\ n.money = 0
        /\ Ready(t) => line[p[1]].left - n.units >= 0

DeletionRead(t) ==
  t.op = "deleteLine" =>
    /\ \A m \in Line : t.ask[m] = Nothing
    /\ Live(t.target)
    /\ Ready(t) => t.delta = Collected(t.target) - Total(t.target)

CollectionRead(t) ==
  t.op = "collect" =>
    /\ t.delta = -SumFunctionOnSet([l \in Line |-> t.ask[l].money], Line)
    /\ \A l \in Line : t.ask[l].units = t.ask[l].qty
    /\ \A l, m \in Line : t.ask[l] # Nothing /\ t.ask[m] # Nothing => Owner[l] = Owner[m]
    /\ Ready(t) => \A l \in Line : t.ask[l] # Nothing => Live(l) /\ t.ask[l].qty =< line[l].left

DebtRead(t) ==
  t.pc = "commit" => debt[Payer(t.ask, t.target)] + t.delta >= 0

ReadOK(t) ==
  /\ NewLineRead(t) /\ LineRead(t) /\ PaymentRead(t) /\ DeletionRead(t)
  /\ CollectionRead(t) /\ DebtRead(t)

\* nobody else refers to the line a transaction is about to record
Reserved ==
  \A j, k \in Clerk : tx[k].op = "debt" /\ j # k => tx[k].target \notin Refers(tx[j])

Collecting(l) == {j \in Clerk : tx[j].op = "collect" /\ l \in Asked(j)}

\* every collection in progress has a slot left
Room ==
  \A l \in Line : Cardinality(PaymentsOf(l)) + Cardinality(Collecting(l)) =< MaxSlot

LInv ==
  /\ SizesOK
  /\ \A k \in Clerk : TxSizesOK(tx[k]) /\ ReadOK(tx[k])
  /\ Reserved /\ Room
  /\ UnitsAddUp
  /\ DebtIsLedgerSum

-----------------------------------------------------------------------------
(* Sums over the payments of a line. *)

PayRow == {NoPay} \cup Stored

\* the ids of the payments a line may have
Slots(l) == {p \in Payment : p[1] = l}

\* what its payments add up to, for the payments P
AmountSum(P, l) ==
  SumFunctionOnSet([p \in Payment |-> P[p].amount], {p \in Payment : p[1] = l /\ P[p].qty + P[p].amount > 0})
QtySum(P, l) ==
  SumFunctionOnSet([p \in Payment |-> P[p].qty], {p \in Payment : p[1] = l /\ P[p].qty + P[p].amount > 0})

LEMMA SlotsFinite ==
  ASSUME NEW l \in Line
  PROVE  IsFiniteSet(Slots(l)) /\ Cardinality(Slots(l)) = MaxSlot
<1>1. IsFiniteSet(Slot) /\ Cardinality(Slot) = MaxSlot
  BY FS_Interval DEF Slot
<1>2. IsFiniteSet({l}) /\ Cardinality({l}) = 1
  BY FS_Singleton
<1>3. Slots(l) = {l} \X Slot
  BY DEF Slots, Payment
<1>4. IsFiniteSet({l} \X Slot) /\ Cardinality({l} \X Slot) = 1 * MaxSlot
  BY <1>1, <1>2, FS_Product
<1> QED
  BY <1>3, <1>4

LEMMA PayRowOf ==
  ASSUME NEW r \in PayRow
  PROVE  /\ r.qty \in Nat /\ r.amount \in Nat
         /\ ~(r.qty + r.amount > 0) => r.amount = 0 /\ r.qty = 0
BY DEF PayRow, NoPay

\* A payment without a row counts for nothing.
LEMMA RowSums ==
  ASSUME NEW P \in [Payment -> PayRow], NEW l \in Line
  PROVE  /\ AmountSum(P, l) = SumFunctionOnSet([p \in Payment |-> P[p].amount], Slots(l))
         /\ QtySum(P, l) = SumFunctionOnSet([p \in Payment |-> P[p].qty], Slots(l))
         /\ AmountSum(P, l) \in Nat /\ QtySum(P, l) \in Nat
<1> DEFINE E == {p \in Payment : p[1] = l /\ P[p].qty + P[p].amount > 0}
           f == [p \in Payment |-> P[p].amount]
           g == [p \in Payment |-> P[p].qty]
<1>1. \A p \in Payment :
        /\ P[p].qty \in Nat /\ P[p].amount \in Nat
        /\ ~(P[p].qty + P[p].amount > 0) => P[p].amount = 0 /\ P[p].qty = 0
  BY PayRowOf
<1>2. E \in SUBSET Slots(l) /\ IsFiniteSet(Slots(l)) /\ Slots(l) \subseteq Payment
  BY SlotsFinite DEF Slots
<1>3. \A p \in Slots(l) : f[p] \in Nat /\ g[p] \in Nat /\ (p \notin E => f[p] = 0 /\ g[p] = 0)
  BY <1>1, <1>2 DEF Slots
<1>4. /\ AmountSum(P, l) = SumFunctionOnSet(f, E)
      /\ QtySum(P, l) = SumFunctionOnSet(g, E)
  BY DEF AmountSum, QtySum
<1> HIDE DEF E, f, g
<1>5. /\ SumFunctionOnSet(f, Slots(l)) = SumFunctionOnSet(f, E)
      /\ SumFunctionOnSet(g, Slots(l)) = SumFunctionOnSet(g, E)
  BY <1>2, <1>3, SumOfPart
<1>6. SumFunctionOnSet(f, Slots(l)) \in Nat /\ SumFunctionOnSet(g, Slots(l)) \in Nat
  BY <1>2, <1>3, SumNat
<1>7. /\ AmountSum(P, l) = SumFunctionOnSet(f, Slots(l))
      /\ QtySum(P, l) = SumFunctionOnSet(g, Slots(l))
  BY <1>4, <1>5
<1>8. AmountSum(P, l) \in Nat /\ QtySum(P, l) \in Nat
  BY <1>6, <1>7
<1> QED
  BY <1>7, <1>8 DEF f, g

\* The payments of a line stay as they are.
LEMMA RowsSame ==
  ASSUME NEW P \in [Payment -> PayRow], NEW Q \in [Payment -> PayRow], NEW l \in Line,
         \A p \in Slots(l) : P[p].amount = Q[p].amount /\ P[p].qty = Q[p].qty
  PROVE  AmountSum(P, l) = AmountSum(Q, l) /\ QtySum(P, l) = QtySum(Q, l)
<1>1. IsFiniteSet(Slots(l)) /\ Slots(l) \subseteq Payment
  BY SlotsFinite DEF Slots
<1>2. SumFunctionOnSet([p \in Payment |-> P[p].amount], Slots(l))
        = SumFunctionOnSet([p \in Payment |-> Q[p].amount], Slots(l))
  BY <1>1, SumSame
<1>3. SumFunctionOnSet([p \in Payment |-> P[p].qty], Slots(l))
        = SumFunctionOnSet([p \in Payment |-> Q[p].qty], Slots(l))
  BY <1>1, SumSame
<1> QED
  BY <1>2, <1>3, RowSums

\* One payment of the line changes.
LEMMA RowChanges ==
  ASSUME NEW P \in [Payment -> PayRow], NEW Q \in [Payment -> PayRow], NEW l \in Line,
         NEW e \in Slots(l),
         \A p \in Slots(l) \ {e} : P[p].amount = Q[p].amount /\ P[p].qty = Q[p].qty
  PROVE  /\ AmountSum(Q, l) = AmountSum(P, l) + (Q[e].amount - P[e].amount)
         /\ QtySum(Q, l) = QtySum(P, l) + (Q[e].qty - P[e].qty)
<1> DEFINE fP == [p \in Payment |-> P[p].amount]
           fQ == [p \in Payment |-> Q[p].amount]
           gP == [p \in Payment |-> P[p].qty]
           gQ == [p \in Payment |-> Q[p].qty]
<1>1. IsFiniteSet(Slots(l)) /\ Slots(l) \subseteq Payment
  BY SlotsFinite DEF Slots
<1>2. \A p \in Slots(l) : fP[p] \in Int /\ fQ[p] \in Int /\ gP[p] \in Int /\ gQ[p] \in Int
  BY <1>1, PayRowOf
<1>3. \A p \in Slots(l) \ {e} : fP[p] = fQ[p] /\ gP[p] = gQ[p]
  BY <1>1
<1>4. /\ fP[e] = P[e].amount /\ fQ[e] = Q[e].amount
      /\ gP[e] = P[e].qty /\ gQ[e] = Q[e].qty
  BY <1>1
<1>5. /\ AmountSum(P, l) = SumFunctionOnSet(fP, Slots(l))
      /\ AmountSum(Q, l) = SumFunctionOnSet(fQ, Slots(l))
      /\ QtySum(P, l) = SumFunctionOnSet(gP, Slots(l))
      /\ QtySum(Q, l) = SumFunctionOnSet(gQ, Slots(l))
  BY RowSums
<1> HIDE DEF fP, fQ, gP, gQ
<1>6. /\ SumFunctionOnSet(fQ, Slots(l)) = SumFunctionOnSet(fP, Slots(l)) + (fQ[e] - fP[e])
      /\ SumFunctionOnSet(gQ, Slots(l)) = SumFunctionOnSet(gP, Slots(l)) + (gQ[e] - gP[e])
  BY <1>1, <1>2, <1>3, SumChange
<1> QED
  BY <1>4, <1>5, <1>6

\* No payment is left.
LEMMA RowsGone ==
  ASSUME NEW P \in [Payment -> PayRow], NEW l \in Line, \A p \in Slots(l) : ~(P[p].qty + P[p].amount > 0)
  PROVE  AmountSum(P, l) = 0 /\ QtySum(P, l) = 0
<1>1. {p \in Payment : p[1] = l /\ P[p].qty + P[p].amount > 0} = {}
  BY DEF Slots
<1> QED
  BY <1>1, SumEmpty DEF AmountSum, QtySum

LEMMA SumsOfLine ==
  ASSUME NEW l \in Line
  PROVE  /\ Collected(l) = AmountSum(pay, l)
         /\ Collected(l)' = AmountSum(pay', l)
         /\ SumFunctionOnSet([p \in Payment |-> pay[p].qty], PaymentsOf(l)) = QtySum(pay, l)
         /\ SumFunctionOnSet([p \in Payment |-> pay[p].qty], PaymentsOf(l))' = QtySum(pay', l)
BY DEF Collected, PaymentsOf, Exists, AmountSum, QtySum
-----------------------------------------------------------------------------
(* Steps that change no row. *)

LEMMA RefersIs ==
  ASSUME NEW k \in Clerk
  PROVE  LinesOf(k) = Refers(tx[k])
BY DEF LinesOf, Refers, Asked

\* What each transaction knows stays true when only one transaction changes.
LEMMA TxRows ==
  ASSUME IInv, LInv, NEW k \in Clerk, NEW t, Proceed(k, t), TxSizesOK(t), ReadOK(t)
  PROVE  /\ SizesOK' /\ UnitsAddUp' /\ DebtIsLedgerSum'
         /\ \A j \in Clerk : (TxSizesOK(tx[j]) /\ ReadOK(tx[j]))'
<1>1. tx'[k] = t /\ \A j \in Clerk \ {k} : tx'[j] = tx[j]
  BY DEF Proceed, IInv, RowsOK
<1>2. line' = line /\ pay' = pay /\ debt' = debt /\ limit' = limit
  BY DEF Proceed
<1>3. SizesOK'
  BY <1>2 DEF LInv, SizesOK
<1>4. \A l \in Line : /\ Live(l)' = Live(l) /\ Total(l)' = Total(l)
                      /\ Collected(l)' = Collected(l) /\ PaymentsOf(l)' = PaymentsOf(l)
  BY <1>2 DEF Live, Total, Collected, PaymentsOf, Exists
<1>5. UnitsAddUp'
  BY <1>2, <1>4 DEF LInv, UnitsAddUp
<1>6. DebtIsLedgerSum'
  <2>1. [l \in Line |-> Total(l) - Collected(l)]' = [l \in Line |-> Total(l) - Collected(l)]
    BY <1>4
  <2> QED
    BY <1>2, <2>1 DEF LInv, DebtIsLedgerSum
<1>7. ASSUME NEW j \in Clerk
      PROVE  (TxSizesOK(tx[j]) /\ ReadOK(tx[j]))'
  <2> DEFINE u == tx'[j]
  <2>1. TxSizesOK(u) /\ ReadOK(u)
    BY <1>1 DEF LInv
  <2>2. TxSizesOK(tx[j])'
    BY <2>1 DEF TxSizesOK
  <2>3. (NewLineRead(tx[j]) /\ LineRead(tx[j]))'
    BY <2>1, <1>2 DEF ReadOK, NewLineRead, LineRead, Live, Total, AsksOnly
  <2>4. (PaymentRead(tx[j]) /\ DeletionRead(tx[j]))'
    BY <2>1, <1>2 DEF ReadOK, PaymentRead, DeletionRead, Live, Total, Exists, AsksOnly, Ready,
      Collected, PaymentsOf
  <2>5. (CollectionRead(tx[j]) /\ DebtRead(tx[j]))'
    BY <2>1, <1>2 DEF ReadOK, CollectionRead, DebtRead, Live, Ready
  <2> QED
    BY <2>2, <2>3, <2>4, <2>5 DEF ReadOK
<1> QED
  BY <1>3, <1>5, <1>6, <1>7

LEMMA CollectingFinite ==
  ASSUME NEW l \in Line
  PROVE  /\ IsFiniteSet(Collecting(l)) /\ Cardinality(Collecting(l)) \in Nat
         /\ IsFiniteSet(PaymentsOf(l)) /\ Cardinality(PaymentsOf(l)) \in Nat
<1>1. Collecting(l) \subseteq Clerk
  BY DEF Collecting
<1>2. PaymentsOf(l) \subseteq Slots(l) /\ IsFiniteSet(Slots(l))
  BY SlotsFinite DEF PaymentsOf, Slots
<1> QED
  BY <1>1, <1>2, FS_Subset, FS_CardinalityType

\* A transaction that goes on, or ends.
LEMMA TxGoesOn ==
  ASSUME IInv, LInv, NEW k \in Clerk, NEW t, Proceed(k, t), TxSizesOK(t), ReadOK(t),
         Refers(t) \subseteq Refers(tx[k]),
         t.op = "debt" => tx[k].op = "debt" /\ t.target = tx[k].target,
         t.op = "collect" => tx[k].op = "collect" /\ t.ask = tx[k].ask
  PROVE  LInv'
<1>1. tx'[k] = t /\ \A j \in Clerk \ {k} : tx'[j] = tx[j]
  BY DEF Proceed, IInv, RowsOK
<1>2. Reserved'
  <2>1. \A j \in Clerk : Refers(tx'[j]) \subseteq Refers(tx[j])
    BY <1>1
  <2>2. \A j \in Clerk : tx'[j].op = "debt" => tx[j].op = "debt" /\ tx'[j].target = tx[j].target
    BY <1>1
  <2>3. \A i, j \in Clerk : tx'[j].op = "debt" /\ i # j => tx'[j].target \notin Refers(tx'[i])
    BY <2>1, <2>2 DEF LInv, Reserved
  <2> QED
    BY <2>3 DEF Reserved, Refers
<1>3. Room'
  <2> SUFFICES ASSUME NEW l \in Line
               PROVE  (Cardinality(PaymentsOf(l)) + Cardinality(Collecting(l)) =< MaxSlot)'
    BY DEF Room
  <2>1. PaymentsOf(l)' = PaymentsOf(l)
    BY DEF Proceed, PaymentsOf, Exists
  <2>2. Collecting(l)' \subseteq Collecting(l)
    BY <1>1 DEF Collecting, Asked
  <2>3. /\ Cardinality(Collecting(l)') \in Nat
        /\ Cardinality(Collecting(l)') =< Cardinality(Collecting(l))
    BY <2>2, CollectingFinite, FS_Subset, FS_CardinalityType
  <2> QED
    BY <2>1, <2>3, CollectingFinite DEF LInv, Room
<1> QED
  BY <1>2, <1>3, TxRows DEF LInv

\* A transaction that begins, on lines that are there.
LEMMA TxBegins ==
  ASSUME IInv, LInv, NEW k \in Clerk, NEW t, Proceed(k, t), TxSizesOK(t), ReadOK(t),
         \A l \in Refers(t) : Live(l), t.op # "debt", t.op # "collect"
  PROVE  LInv'
<1>1. tx'[k] = t /\ \A j \in Clerk \ {k} : tx'[j] = tx[j]
  BY DEF Proceed, IInv, RowsOK
<1>2. Reserved'
  <2>1. ASSUME NEW i \in Clerk, NEW j \in Clerk, tx'[j].op = "debt", i # j
        PROVE  tx'[j].target \notin Refers(tx'[i])
    <3>1. j # k /\ tx'[j] = tx[j]
      BY <1>1, <2>1
    <3>2. ~Live(tx[j].target)
      BY <2>1, <3>1 DEF LInv, ReadOK, NewLineRead
    <3>3. CASE i = k
      BY <1>1, <3>1, <3>2, <3>3
    <3>4. CASE i # k
      BY <1>1, <2>1, <3>1, <3>4 DEF LInv, Reserved
    <3> QED
      BY <3>3, <3>4
  <2> QED
    BY <2>1 DEF Reserved, Refers
<1>3. Room'
  <2> SUFFICES ASSUME NEW l \in Line
               PROVE  (Cardinality(PaymentsOf(l)) + Cardinality(Collecting(l)) =< MaxSlot)'
    BY DEF Room
  <2>1. PaymentsOf(l)' = PaymentsOf(l)
    BY DEF Proceed, PaymentsOf, Exists
  <2>2. Collecting(l)' \subseteq Collecting(l)
    BY <1>1 DEF Collecting, Asked
  <2>3. /\ Cardinality(Collecting(l)') \in Nat
        /\ Cardinality(Collecting(l)') =< Cardinality(Collecting(l))
    BY <2>2, CollectingFinite, FS_Subset, FS_CardinalityType
  <2> QED
    BY <2>1, <2>3, CollectingFinite DEF LInv, Room
<1> QED
  BY <1>2, <1>3, TxRows DEF LInv
-----------------------------------------------------------------------------
(* The requests. *)

LEMMA NothingIsAsk == Nothing \in Ask
BY DEF Nothing, Ask

LEMMA NoTxKnows == TxSizesOK(NoTx) /\ ReadOK(NoTx) /\ Refers(NoTx) = {}
<1>1. TxSizesOK(NoTx)
  BY NothingIsAsk DEF TxSizesOK, NoTx
<1>2. ReadOK(NoTx)
  BY DEF ReadOK, NewLineRead, LineRead, PaymentRead, DeletionRead, CollectionRead, DebtRead, NoTx
<1>3. Refers(NoTx) = {}
  BY DEF Refers, NoTx, Payment
<1> QED
  BY <1>1, <1>2, <1>3

LEMMA RefuseKeeps ==
  ASSUME IInv, LInv, NEW k \in Clerk, Refuse(k)
  PROVE  LInv'
<1>1. Proceed(k, NoTx)
  BY DEF Refuse, End, Proceed
<1>2. NoTx.op = "none"
  BY DEF NoTx
<1> QED
  BY <1>1, <1>2, NoTxKnows, TxGoesOn

\* A request about one line.
LEMMA OneLine ==
  ASSUME NEW t, NEW l \in Line, NEW r \in Ask,
         t.ask = [m \in Line |-> IF m = l THEN r ELSE Nothing],
         t.pc \in {"line", "customer"}, t.target = l \/ t.target \in Slots(l),
         t.has \subseteq Line \cup Payment,
         t.delta \in Int,
         t.op \in {"debt", "editLine"} => t.target = l /\ r.money \in Price
  PROVE  t.ask[l] = r /\ AsksOnly(t, l) /\ TxSizesOK(t) /\ Refers(t) = {l}
<1>1. t.ask[l] = r /\ AsksOnly(t, l)
  BY DEF AsksOnly
<1>2. t.ask \in [Line -> Ask]
  BY NothingIsAsk
<1>3. TxSizesOK(t)
  BY <1>1, <1>2 DEF TxSizesOK, Slots
<1>4. Refers(t) = {l}
  <2>1. \A m \in Line : t.target = m \/ t.target \in {m} \X Slot <=> m = l
    BY DEF Slots, Payment
  <2>2. Refers(t) \subseteq {l}
    BY <1>1, <2>1 DEF Refers, AsksOnly
  <2>3. l \in Refers(t)
    BY <2>1 DEF Refers
  <2> QED
    BY <2>2, <2>3
<1> QED
  BY <1>1, <1>3, <1>4

LEMMA LineRow ==
  ASSUME IInv, LInv, NEW l \in Line
  PROVE  /\ line[l].qty \in Nat /\ line[l].qty \in 0..MaxQty
         /\ line[l].left \in Int /\ line[l].price \in Nat
         /\ line[l].left >= 0 /\ line[l].left =< line[l].qty
         /\ Total(l) \in Int /\ Collected(l) \in Nat
         /\ line[l].left = line[l].qty - QtySum(pay, l)
         /\ QtySum(pay, l) \in Nat
<1>1. /\ line[l].qty \in Nat /\ line[l].left \in Int /\ line[l].price \in Nat
  BY DEF IInv, RowsOK
<1>2. line[l].qty \in 0..MaxQty
  BY DEF LInv, SizesOK
<1>3. pay \in [Payment -> PayRow]
  BY DEF IInv, RowsOK, PayRow
<1>4. AmountSum(pay, l) \in Nat /\ QtySum(pay, l) \in Nat
  BY <1>3, RowSums
<1>5. /\ Collected(l) = AmountSum(pay, l)
      /\ SumFunctionOnSet([p \in Payment |-> pay[p].qty], PaymentsOf(l)) = QtySum(pay, l)
  BY SumsOfLine
<1>6. line[l].left = line[l].qty - QtySum(pay, l) /\ line[l].left >= 0
  BY <1>5 DEF LInv, UnitsAddUp
<1>7. Total(l) \in Int
  BY <1>1 DEF Total
<1> QED
  BY <1>1, <1>2, <1>4, <1>5, <1>6, <1>7

LEMMA PaymentRow ==
  ASSUME IInv, LInv, NEW p \in Payment
  PROVE  /\ p[1] \in Line /\ p \in Slots(p[1])
         /\ pay[p].qty \in 0..MaxQty /\ pay[p].amount \in Nat
         /\ Exists(p) => Live(p[1])
<1>1. p[1] \in Line /\ p \in Slots(p[1])
  BY DEF Slots, Payment
<1>2. pay[p].qty \in 0..MaxQty /\ pay[p].amount \in Nat
  BY PayTypes DEF LInv, SizesOK
<1>3. Exists(p) => Live(p[1])
  BY <1>1 DEF LInv, UnitsAddUp, PaymentsOf
<1> QED
  BY <1>1, <1>2, <1>3

LEMMA RequestDebtKeeps ==
  ASSUME IInv, LInv, NEW k \in Clerk, NEW l \in Line, NEW q \in 1..MaxQty, NEW price \in Price,
         RequestDebt(k, l, q, price)
  PROVE  LInv'
<1> DEFINE r == [qty |-> q, money |-> price, units |-> 0]
           t == Begin("debt", "customer", l, Only(l, r), q * price, {})
<1>1. Proceed(k, t) /\ Unused(l)
  BY DEF RequestDebt
<1>2. r \in Ask /\ r.money \in Price /\ q * price \in Int /\ r.qty = q /\ r.units = 0 /\ r.money = price
  BY DEF Ask
<1>3. t = Begin("debt", "customer", l, Only(l, r), q * price, {})
  OBVIOUS
<1> HIDE DEF r, t
<1>4. /\ t.op = "debt" /\ t.pc = "customer" /\ t.target = l /\ t.delta = q * price /\ t.has = {}
      /\ t.ask = [m \in Line |-> IF m = l THEN r ELSE Nothing]
  BY <1>3, AskOne DEF Begin
<1>11. t.ask[l] = r /\ AsksOnly(t, l) /\ TxSizesOK(t) /\ Refers(t) = {l}
  BY <1>2, <1>4, OneLine
<1>5. NewLineRead(t)
  BY <1>1, <1>2, <1>4, <1>11 DEF NewLineRead, Unused
<1>6. ReadOK(t)
  BY <1>4, <1>5 DEF ReadOK, LineRead, PaymentRead, DeletionRead, CollectionRead, DebtRead
<1>7. tx'[k] = t /\ \A j \in Clerk \ {k} : tx'[j] = tx[j]
  BY <1>1 DEF Proceed, IInv, RowsOK
<1>8. \A j \in Clerk : l \notin Refers(tx[j])
  BY <1>1, RefersIs DEF Unused
<1>9. Reserved'
  <2>1. ASSUME NEW i \in Clerk, NEW j \in Clerk, tx'[j].op = "debt", i # j
        PROVE  tx'[j].target \notin Refers(tx'[i])
    <3>1. CASE j = k
      BY <1>4, <1>11, <1>7, <1>8, <2>1, <3>1
    <3>2. CASE j # k /\ i # k
      BY <1>7, <2>1, <3>2 DEF LInv, Reserved
    <3>3. CASE j # k /\ i = k
      <4>1. tx[j].op = "debt" /\ tx[j].target \in Line
        BY <1>7, <2>1, <3>3 DEF IInv, AskOK
      <4>2. tx[j].target \in Refers(tx[j])
        BY <4>1 DEF Refers
      <4> QED
        BY <1>4, <1>11, <1>7, <1>8, <3>3, <4>2
    <3> QED
      BY <3>1, <3>2, <3>3
  <2> QED
    BY <2>1 DEF Reserved, Refers
<1>10. Room'
  <2> SUFFICES ASSUME NEW m \in Line
               PROVE  (Cardinality(PaymentsOf(m)) + Cardinality(Collecting(m)) =< MaxSlot)'
    BY DEF Room
  <2>1. PaymentsOf(m)' = PaymentsOf(m)
    BY <1>1 DEF Proceed, PaymentsOf, Exists
  <2>2. Collecting(m)' \subseteq Collecting(m)
    BY <1>4, <1>7 DEF Collecting, Asked
  <2>3. /\ Cardinality(Collecting(m)') \in Nat
        /\ Cardinality(Collecting(m)') =< Cardinality(Collecting(m))
    BY <2>2, CollectingFinite, FS_Subset, FS_CardinalityType
  <2> QED
    BY <2>1, <2>3, CollectingFinite DEF LInv, Room
<1> QED
  BY <1>1, <1>4, <1>11, <1>6, <1>9, <1>10, TxRows DEF LInv

LEMMA RequestEditLineKeeps ==
  ASSUME IInv, LInv, NEW k \in Clerk, NEW l \in Line, NEW q \in 1..MaxQty, NEW price \in Price,
         RequestEditLine(k, l, q, price)
  PROVE  LInv'
<1> DEFINE paid == line[l].qty - line[l].left
           r == [qty |-> q, money |-> price, units |-> paid]
           d == q * price - Total(l)
           t == Begin("editLine", "customer", l, Only(l, r), d, {l})
<1>1. Proceed(k, t) /\ Live(l) /\ q >= paid
  BY DEF RequestEditLine
<1>2. /\ r \in Ask /\ r.money \in Price /\ d \in Int
      /\ r.qty = q /\ r.units = paid /\ r.money = price
  <2>1. paid \in -MaxQty..MaxQty
    BY LineRow
  <2>2. q * price \in Int /\ Total(l) \in Int
    BY LineRow
  <2> QED
    BY <2>1, <2>2 DEF Ask
<1>3. t = Begin("editLine", "customer", l, Only(l, r), d, {l})
  OBVIOUS
<1> HIDE DEF r, t, d
<1>4. /\ t.op = "editLine" /\ t.pc = "customer" /\ t.target = l /\ t.delta = d /\ t.has = {l}
      /\ t.ask = [m \in Line |-> IF m = l THEN r ELSE Nothing]
  BY <1>3, AskOne DEF Begin
<1>7. t.ask[l] = r /\ AsksOnly(t, l) /\ TxSizesOK(t) /\ Refers(t) = {l}
  BY <1>2, <1>4, OneLine
<1>5. LineRead(t)
  BY <1>1, <1>2, <1>4, <1>7 DEF LineRead, d
<1>6. ReadOK(t)
  BY <1>4, <1>5 DEF ReadOK, NewLineRead, PaymentRead, DeletionRead, CollectionRead, DebtRead
<1> QED
  BY <1>1, <1>4, <1>6, <1>7, TxBegins

LEMMA RequestPaymentKeeps ==
  ASSUME IInv, LInv, NEW k \in Clerk, NEW p \in Payment,
         \/ \E q \in 0..MaxQty, a \in Amount : RequestEditPayment(k, p, q, a)
         \/ RequestDeletePayment(k, p)
  PROVE  LInv'
<1>1. PICK q \in 0..MaxQty, a \in Amount \cup {0}, op \in {"editPay", "deletePay"} :
        /\ Proceed(k, Begin(op, "line", p,
                            Only(p[1], [qty |-> q, money |-> a, units |-> q - pay[p].qty]),
                            pay[p].amount - a, {p}))
        /\ Exists(p)
        /\ op = "deletePay" => q = 0 /\ a = 0
  <2>1. CASE \E q \in 0..MaxQty, a \in Amount : RequestEditPayment(k, p, q, a)
    BY <2>1 DEF RequestEditPayment
  <2>2. CASE RequestDeletePayment(k, p)
    <3>1. 0 - pay[p].qty = -pay[p].qty /\ pay[p].amount - 0 = pay[p].amount /\ 0 \in 0..MaxQty
      BY PaymentRow
    <3> QED
      BY <2>2, <3>1 DEF RequestDeletePayment
  <2> QED
    BY <2>1, <2>2
<1> DEFINE r == [qty |-> q, money |-> a, units |-> q - pay[p].qty]
           d == pay[p].amount - a
           l == p[1]
           t == Begin(op, "line", p, Only(l, r), d, {p})
<1>2. /\ r \in Ask /\ d \in Int
      /\ r.qty = q /\ r.units = q - pay[p].qty /\ r.money = a
      /\ l \in Line /\ p \in Slots(l) /\ Live(l)
  BY <1>1, PaymentRow DEF Ask
<1>3. t = Begin(op, "line", p, Only(l, r), d, {p}) /\ Proceed(k, t)
  BY <1>1
<1> HIDE DEF r, t, d, l
<1>4. /\ t.op = op /\ t.pc = "line" /\ t.target = p /\ t.delta = d /\ t.has = {p}
      /\ t.ask = [m \in Line |-> IF m = l THEN r ELSE Nothing]
  BY <1>2, <1>3, AskOne DEF Begin
<1>7. t.ask[l] = r /\ AsksOnly(t, l) /\ TxSizesOK(t) /\ Refers(t) = {l}
  BY <1>2, <1>4, OneLine
<1>5. PaymentRead(t)
  BY <1>1, <1>2, <1>4, <1>7 DEF PaymentRead, Ready, d, l
<1>6. ReadOK(t)
  BY <1>4, <1>5 DEF ReadOK, NewLineRead, LineRead, DeletionRead, CollectionRead, DebtRead
<1> QED
  BY <1>2, <1>3, <1>4, <1>6, <1>7, TxBegins

LEMMA RequestDeleteLineKeeps ==
  ASSUME IInv, LInv, NEW k \in Clerk, NEW l \in Line, RequestDeleteLine(k, l)
  PROVE  LInv'
<1> DEFINE t == Begin("deleteLine", "payments", l, <<>>, 0, {l})
<1>1. Proceed(k, t) /\ Live(l)
  BY DEF RequestDeleteLine
<1>2. /\ t.op = "deleteLine" /\ t.pc = "payments" /\ t.target = l /\ t.has = {l} /\ t.delta = 0
      /\ t.ask = [m \in Line |-> Nothing]
  <2>1. DOMAIN <<>> = {}
    OBVIOUS
  <2> QED
    BY <2>1 DEF Begin
<1> HIDE DEF t
<1>3. TxSizesOK(t)
  BY <1>2, NothingIsAsk DEF TxSizesOK
<1>4. ReadOK(t)
  BY <1>1, <1>2 DEF ReadOK, NewLineRead, LineRead, PaymentRead, DeletionRead, CollectionRead,
    DebtRead, Ready
<1>5. Refers(t) \subseteq {l}
  BY <1>2 DEF Refers, Payment
<1> QED
  BY <1>1, <1>2, <1>3, <1>4, <1>5, TxBegins

LEMMA RequestCollectionKeeps ==
  ASSUME IInv, LInv, NEW k \in Clerk, NEW c \in Customer, NEW L \in (SUBSET Line) \ {{}},
         NEW qty \in [L -> 0..MaxQty], NEW amount \in [L -> Amount],
         RequestCollection(k, c, L, qty, amount)
  PROVE  LInv'
<1> DEFINE ask == [l \in L |-> [qty |-> qty[l], money |-> MoneyFor(l, qty[l], amount[l]),
                                units |-> qty[l]]]
           t == Begin("collect", "lines", NoTarget, ask, -CollectedNow(ask, L), {})
<1>1. Proceed(k, t) /\ Idle(k) /\ \A l \in L : Owner[l] = c /\ HasRoom(l)
  BY DEF RequestCollection
<1>2. /\ t.op = "collect" /\ t.pc = "lines" /\ t.target = NoTarget /\ t.has = {}
      /\ t.delta = -CollectedNow(ask, L)
      /\ t.ask = [l \in Line |-> IF l \in L THEN ask[l] ELSE Nothing]
  BY DEF Begin
<1>3. ASSUME NEW l \in L
      PROVE  ask[l] \in Ask /\ ask[l].units = ask[l].qty
  <2>1. qty[l] \in 0..MaxQty /\ amount[l] \in Nat /\ line[l].price \in Nat
    BY LineRow
  <2>2. qty[l] \in Nat /\ qty[l] * line[l].price \in Nat
    BY <2>1
  <2>3. MoneyFor(l, qty[l], amount[l]) \in Nat
    BY <2>1, <2>2 DEF MoneyFor
  <2>4. qty[l] \in -MaxQty..MaxQty
    BY <2>1
  <2> QED
    BY <2>1, <2>3, <2>4 DEF Ask
<1> HIDE DEF ask, t
<1>4. t.ask \in [Line -> Ask]
  BY <1>2, <1>3, NothingIsAsk
<1>5. /\ \A l \in Line : t.ask[l] # Nothing => l \in L
      /\ \A l \in Line : t.ask[l].units = t.ask[l].qty /\ t.ask[l].money \in Int
      /\ \A l \in L : t.ask[l] = ask[l]
      /\ \A l \in Line \ L : t.ask[l].money = 0
  <2>1. ASSUME NEW l \in L PROVE t.ask[l].units = t.ask[l].qty /\ t.ask[l].money \in Int /\ t.ask[l] = ask[l]
    BY <1>2, <1>3 DEF Ask
  <2>2. ASSUME NEW l \in Line \ L PROVE t.ask[l] = [qty |-> 0, money |-> 0, units |-> 0]
    BY <1>2 DEF Nothing
  <2>3. \A l \in Line : t.ask[l] # Nothing => l \in L
    BY <2>2 DEF Nothing
  <2>4. \A l \in Line \ L : t.ask[l].units = t.ask[l].qty /\ t.ask[l].money \in Int /\ t.ask[l].money = 0
    BY <2>2
  <2> QED
    BY <2>1, <2>3, <2>4
<1>6. t.delta = -SumFunctionOnSet([l \in Line |-> t.ask[l].money], Line) /\ t.delta \in Int
  <2> DEFINE f == [l \in L |-> ask[l].money]
             g == [l \in Line |-> t.ask[l].money]
  <2>1. IsFiniteSet(L) /\ IsFiniteSet(Line) /\ L \in SUBSET Line
    BY FS_Subset
  <2>2. \A l \in L : f[l] = g[l]
    BY <1>5
  <2>3. (\A l \in Line : g[l] \in Int) /\ \A l \in Line \ L : g[l] = 0
    BY <1>5
  <2>4. CollectedNow(ask, L) = SumFunctionOnSet(f, L)
    BY DEF CollectedNow
  <2> HIDE DEF f, g
  <2>5. SumFunctionOnSet(f, L) = SumFunctionOnSet(g, L)
    BY <2>1, <2>2, SumSame
  <2>6. SumFunctionOnSet(g, Line) = SumFunctionOnSet(g, L)
    BY <2>1, <2>3, SumOfPart
  <2>7. SumFunctionOnSet(g, Line) \in Int
    BY <2>1, <2>3, SumType
  <2>8. t.delta = -SumFunctionOnSet(g, Line) /\ t.delta \in Int
    BY <1>2, <2>4, <2>5, <2>6, <2>7
  <2> QED
    BY <2>8 DEF g
<1>7. TxSizesOK(t)
  BY <1>2, <1>4, <1>6 DEF TxSizesOK
<1>8. ReadOK(t)
  <2>1. CollectionRead(t)
    BY <1>1, <1>2, <1>5, <1>6 DEF CollectionRead, Ready
  <2> QED
    BY <1>2, <2>1 DEF ReadOK, NewLineRead, LineRead, PaymentRead, DeletionRead, DebtRead
<1>9. tx'[k] = t /\ \A j \in Clerk \ {k} : tx'[j] = tx[j]
  BY <1>1 DEF Proceed, IInv, RowsOK
<1>10. \A l \in Refers(t) : l \in L /\ Live(l)
  BY <1>2, <1>5 DEF Refers, Payment, RequestCollection
<1>11. Reserved'
  <2>1. ASSUME NEW i \in Clerk, NEW j \in Clerk, tx'[j].op = "debt", i # j
        PROVE  tx'[j].target \notin Refers(tx'[i])
    <3>1. j # k /\ tx'[j] = tx[j]
      BY <1>2, <1>9, <2>1
    <3>2. ~Live(tx[j].target)
      BY <2>1, <3>1 DEF LInv, ReadOK, NewLineRead
    <3>3. CASE i = k
      BY <1>9, <1>10, <3>1, <3>2, <3>3
    <3>4. CASE i # k
      BY <1>9, <2>1, <3>1, <3>4 DEF LInv, Reserved
    <3> QED
      BY <3>3, <3>4
  <2> QED
    BY <2>1 DEF Reserved, Refers
<1>12. Room'
  <2> SUFFICES ASSUME NEW m \in Line
               PROVE  (Cardinality(PaymentsOf(m)) + Cardinality(Collecting(m)) =< MaxSlot)'
    BY DEF Room
  <2>1. PaymentsOf(m)' = PaymentsOf(m)
    BY <1>1 DEF Proceed, PaymentsOf, Exists
  <2>2. CASE m \in L
    <3>1. Cardinality(PaymentsOf(m)) + Cardinality(Collecting(m)) < MaxSlot
      BY <1>1, <2>2 DEF HasRoom, Collecting
    <3>2. k \notin Collecting(m)
      BY <1>1 DEF Collecting, Idle, IInv, AskOK
    <3>3. Collecting(m)' \subseteq Collecting(m) \cup {k}
      BY <1>9 DEF Collecting, Asked
    <3>4. /\ IsFiniteSet(Collecting(m) \cup {k})
          /\ Cardinality(Collecting(m) \cup {k}) = Cardinality(Collecting(m)) + 1
      BY <3>2, CollectingFinite, FS_AddElement
    <3>5. /\ Cardinality(Collecting(m)') \in Nat
          /\ Cardinality(Collecting(m)') =< Cardinality(Collecting(m)) + 1
      BY <3>3, <3>4, FS_Subset, FS_CardinalityType
    <3> QED
      BY <2>1, <3>1, <3>5, CollectingFinite
  <2>3. CASE m \notin L
    <3>1. Collecting(m)' \subseteq Collecting(m)
      BY <1>5, <1>9, <2>3 DEF Collecting, Asked
    <3>2. /\ Cardinality(Collecting(m)') \in Nat
          /\ Cardinality(Collecting(m)') =< Cardinality(Collecting(m))
      BY <3>1, CollectingFinite, FS_Subset, FS_CardinalityType
    <3> QED
      BY <2>1, <3>2, CollectingFinite DEF LInv, Room
  <2> QED
    BY <2>2, <2>3
<1> QED
  BY <1>1, <1>7, <1>8, <1>11, <1>12, TxRows DEF LInv

-----------------------------------------------------------------------------
(* The locks. *)

\* A transaction that only takes a lock, or goes on to its next step.
LEMMA LocksMore ==
  ASSUME IInv, LInv, NEW k \in Clerk, NEW t, Proceed(k, t),
         t.op = tx[k].op, t.target = tx[k].target, t.ask = tx[k].ask,
         t.pc \in {"lines", "payments", "line", "customer", "commit"},
         t.has \in SUBSET (Line \cup Payment \cup Customer), tx[k].has \subseteq t.has,
         t.delta \in Int, t.op # "deleteLine" => t.delta = tx[k].delta,
         PaymentRead(t), DeletionRead(t), CollectionRead(t), DebtRead(t)
  PROVE  LInv'
<1>1. TxSizesOK(tx[k]) /\ ReadOK(tx[k])
  BY DEF LInv
<1>2. TxSizesOK(t)
  BY <1>1 DEF TxSizesOK
<1>3. NewLineRead(t) /\ LineRead(t)
  BY <1>1 DEF ReadOK, NewLineRead, LineRead, AsksOnly
<1>4. ReadOK(t)
  BY <1>3 DEF ReadOK
<1>5. Refers(t) = Refers(tx[k])
  BY DEF Refers
<1> QED
  BY <1>2, <1>4, <1>5, TxGoesOn

LEMMA LockKeeps ==
  ASSUME IInv, LInv, NEW k \in Clerk,
         LockAsked(k) \/ Recheck(k) \/ LockLine(k) \/ LockPayment(k)
  PROVE  LInv'
<1>0. /\ AskOK(tx[k]) /\ HeldOK(tx[k]) /\ Fields(tx[k])
      /\ TxSizesOK(tx[k]) /\ ReadOK(tx[k])
  BY DEF IInv, LInv, AskOK
<1>1. CASE LockAsked(k)
  <2>1. PICK l \in Line :
          tx[k].pc = "lines" /\ Proceed(k, [tx[k] EXCEPT !.has = @ \cup {l}])
    BY <1>1 DEF LockAsked, Asked
  <2> DEFINE t == [tx[k] EXCEPT !.has = @ \cup {l}]
  <2>2. /\ t.op = tx[k].op /\ t.pc = tx[k].pc /\ t.target = tx[k].target
        /\ t.ask = tx[k].ask /\ t.delta = tx[k].delta /\ t.has = tx[k].has \cup {l}
    BY <1>0 DEF Fields
  <2>3. Proceed(k, t)
    BY <2>1
  <2> HIDE DEF t
  <2>4. t.has \in SUBSET (Line \cup Payment \cup Customer) /\ t.delta \in Int
    BY <1>0, <2>2 DEF TxSizesOK
  <2>5. PaymentRead(t) /\ DeletionRead(t) /\ CollectionRead(t) /\ DebtRead(t)
    BY <1>0, <2>1, <2>2 DEF ReadOK, PaymentRead, DeletionRead, CollectionRead, DebtRead, Ready, AsksOnly
  <2> QED
    BY <2>1, <2>2, <2>3, <2>4, <2>5, LocksMore
<1>2. CASE Recheck(k)
  <2> DEFINE t == [tx[k] EXCEPT !.pc = "customer"]
  <2>1. tx[k].pc = "lines" /\ tx[k].op = "collect"
    BY <1>0, <1>2 DEF Recheck, AskOK
  <2>2. /\ t.op = tx[k].op /\ t.pc = "customer" /\ t.target = tx[k].target
        /\ t.ask = tx[k].ask /\ t.delta = tx[k].delta /\ t.has = tx[k].has
    BY <1>0 DEF Fields
  <2>3. (Proceed(k, t) /\ StillPayable(k)) \/ Refuse(k)
    BY <1>2 DEF Recheck
  <2> HIDE DEF t
  <2>4. t.has \in SUBSET (Line \cup Payment \cup Customer) /\ t.delta \in Int
    BY <1>0, <2>2 DEF TxSizesOK
  <2>5. CASE Proceed(k, t) /\ StillPayable(k)
    <3>1. PaymentRead(t) /\ DeletionRead(t) /\ DebtRead(t)
      BY <2>1, <2>2 DEF PaymentRead, DeletionRead, DebtRead
    <3>2. CollectionRead(t)
      BY <1>0, <2>2, <2>5 DEF ReadOK, CollectionRead, StillPayable, Asked
    <3> QED
      BY <2>2, <2>4, <2>5, <3>1, <3>2, LocksMore
  <2> QED
    BY <2>3, <2>5, RefuseKeeps
<1>3. CASE LockLine(k)
  <2> DEFINE l == tx[k].target[1]
             t == [tx[k] EXCEPT !.pc = "customer", !.has = @ \cup {l}]
  <2>1. tx[k].pc = "line" /\ tx[k].op \in {"editPay", "deletePay"} /\ tx[k].target \in Payment
    BY <1>0, <1>3 DEF LockLine, AskOK
  <2>2. /\ t.op = tx[k].op /\ t.pc = "customer" /\ t.target = tx[k].target
        /\ t.ask = tx[k].ask /\ t.delta = tx[k].delta /\ t.has = tx[k].has \cup {l}
    BY <1>0 DEF Fields
  <2>3. \/ /\ Proceed(k, t)
           /\ tx[k].op = "editPay" => line[l].left - tx[k].ask[l].units \in 0..line[l].qty
        \/ Refuse(k)
    BY <1>3 DEF LockLine
  <2>4. l \in Line /\ tx[k].ask[l].units \in Int /\ line[l].left \in Int /\ line[l].qty \in Nat
    BY <1>0, <2>1, PaymentRow, LineRow DEF AskOK
  <2> HIDE DEF t
  <2>5. t.has \in SUBSET (Line \cup Payment \cup Customer) /\ t.delta \in Int
    BY <1>0, <2>2, <2>4 DEF TxSizesOK
  <2>6. CASE /\ Proceed(k, t)
             /\ tx[k].op = "editPay" => line[l].left - tx[k].ask[l].units \in 0..line[l].qty
    <3>1. DeletionRead(t) /\ CollectionRead(t) /\ DebtRead(t)
      BY <2>1, <2>2 DEF CollectionRead, DeletionRead, DebtRead
    <3>2. line[l].left - tx[k].ask[l].units >= 0
      <4>1. CASE tx[k].op = "editPay"
        BY <2>4, <2>6, <4>1
      <4>2. CASE tx[k].op = "deletePay"
        <5>1. tx[k].ask[l].units = 0 - pay[tx[k].target].qty
          BY <1>0, <4>2 DEF ReadOK, PaymentRead
        <5>2. pay[tx[k].target].qty \in Nat /\ line[l].left >= 0
          BY <2>1, <2>4, PaymentRow, LineRow
        <5> QED
          BY <2>4, <5>1, <5>2
      <4> QED
        BY <2>1, <4>1, <4>2
    <3>3. PaymentRead(t)
      BY <1>0, <2>2, <3>2 DEF ReadOK, PaymentRead, AsksOnly
    <3> QED
      BY <2>1, <2>2, <2>5, <2>6, <3>1, <3>3, LocksMore
  <2> QED
    BY <2>3, <2>6, RefuseKeeps
<1>4. CASE LockPayment(k)
  <2>1. PICK p \in Payment :
          tx[k].pc = "payments" /\ Proceed(k, [tx[k] EXCEPT !.has = @ \cup {p}])
    BY <1>4 DEF LockPayment, PaymentsOf
  <2> DEFINE t == [tx[k] EXCEPT !.has = @ \cup {p}]
  <2>2. /\ t.op = tx[k].op /\ t.pc = tx[k].pc /\ t.target = tx[k].target
        /\ t.ask = tx[k].ask /\ t.delta = tx[k].delta /\ t.has = tx[k].has \cup {p}
    BY <1>0 DEF Fields
  <2>3. Proceed(k, t)
    BY <2>1
  <2> HIDE DEF t
  <2>4. t.has \in SUBSET (Line \cup Payment \cup Customer) /\ t.delta \in Int
    BY <1>0, <2>2 DEF TxSizesOK
  <2>5. PaymentRead(t) /\ DeletionRead(t) /\ CollectionRead(t) /\ DebtRead(t)
    BY <1>0, <2>1, <2>2 DEF ReadOK, PaymentRead, DeletionRead, CollectionRead, DebtRead, Ready, AsksOnly
  <2> QED
    BY <2>1, <2>2, <2>3, <2>4, <2>5, LocksMore
<1> QED
  BY <1>1, <1>2, <1>3, <1>4

LEMMA PaymentsLockedKeeps ==
  ASSUME IInv, LInv, NEW k \in Clerk, PaymentsLocked(k)
  PROVE  LInv'
<1> DEFINE l == tx[k].target
           d == Collected(l) - Total(l)
           t == [tx[k] EXCEPT !.pc = "customer", !.delta = d]
<1>0. /\ AskOK(tx[k]) /\ Fields(tx[k]) /\ TxSizesOK(tx[k]) /\ ReadOK(tx[k])
  BY DEF IInv, LInv, AskOK
<1>1. tx[k].op = "deleteLine" /\ l \in Line
  BY <1>0 DEF PaymentsLocked, AskOK
<1>2. Refuse(k) \/ Proceed(k, t)
  BY DEF PaymentsLocked, ReadPayments
<1>3. /\ t.op = tx[k].op /\ t.pc = "customer" /\ t.target = tx[k].target
      /\ t.ask = tx[k].ask /\ t.has = tx[k].has /\ t.delta = d
  BY <1>0 DEF Fields
<1>4. d \in Int
  BY <1>1, LineRow
<1> HIDE DEF t
<1>5. PaymentRead(t) /\ DeletionRead(t) /\ CollectionRead(t) /\ DebtRead(t)
  BY <1>0, <1>1, <1>3 DEF ReadOK, PaymentRead, DeletionRead, CollectionRead, DebtRead
<1>6. t.has \in SUBSET (Line \cup Payment \cup Customer)
  BY <1>0, <1>3 DEF TxSizesOK
<1> HIDE DEF d
<1>7. CASE Proceed(k, t)
  BY <1>1, <1>3, <1>4, <1>5, <1>6, <1>7, LocksMore
<1> QED
  BY <1>2, <1>7, RefuseKeeps

LEMMA LockCustomerKeeps ==
  ASSUME IInv, LInv, NEW k \in Clerk, LockCustomer(k)
  PROVE  LInv'
<1> DEFINE c == CustomerOf(k)
           t == [tx[k] EXCEPT !.pc = "commit", !.has = @ \cup {c}]
<1>0. /\ AskOK(tx[k]) /\ Named(tx[k]) /\ Fields(tx[k]) /\ TxSizesOK(tx[k]) /\ ReadOK(tx[k])
  BY DEF IInv, LInv, AskOK
<1>1. tx[k].pc = "customer"
  BY DEF LockCustomer
<1>2. Refuse(k) \/ (Proceed(k, t) /\ Affordable(k))
  BY DEF LockCustomer
<1>3. /\ t.op = tx[k].op /\ t.pc = "commit" /\ t.target = tx[k].target
      /\ t.ask = tx[k].ask /\ t.delta = tx[k].delta /\ t.has = tx[k].has \cup {c}
  BY <1>0 DEF Fields
<1>4. c = Payer(tx[k].ask, tx[k].target) /\ c \in Customer
  BY <1>0, <1>1, CustomerIsPayer, PayerIsCustomer
<1> HIDE DEF t, c
<1>5. t.has \in SUBSET (Line \cup Payment \cup Customer) /\ t.delta \in Int
  BY <1>0, <1>3, <1>4 DEF TxSizesOK
<1>6. CASE Proceed(k, t) /\ Affordable(k)
  <2>1. PaymentRead(t) /\ DeletionRead(t) /\ CollectionRead(t)
    BY <1>0, <1>1, <1>3 DEF ReadOK, PaymentRead, DeletionRead, CollectionRead, Ready, AsksOnly
  <2>2. DebtRead(t)
    BY <1>3, <1>4, <1>6 DEF DebtRead, Affordable, c
  <2> QED
    BY <1>3, <1>5, <1>6, <2>1, <2>2, LocksMore
<1> QED
  BY <1>2, <1>6, RefuseKeeps
-----------------------------------------------------------------------------
(* The commit. *)

\* A collection has a slot for its payment.
LEMMA SlotIsFree ==
  ASSUME IInv, LInv, NEW k \in Clerk, tx[k].op = "collect", NEW l \in Line, tx[k].ask[l] # Nothing
  PROVE  FreeSlot(l) \in Slot /\ ~Exists(<<l, FreeSlot(l)>>) /\ <<l, FreeSlot(l)>> \in Slots(l)
<1>1. k \in Collecting(l)
  BY DEF Collecting, Asked
<1>2. Cardinality(Collecting(l)) # 0
  BY <1>1, CollectingFinite, FS_EmptySet
<1>3. Cardinality(PaymentsOf(l)) < MaxSlot
  BY <1>2, CollectingFinite DEF LInv, Room
<1>4. \E s \in Slot : ~Exists(<<l, s>>)
  <2>1. SUFFICES ASSUME \A s \in Slot : Exists(<<l, s>>) PROVE FALSE
    OBVIOUS
  <2>2. Slots(l) \subseteq PaymentsOf(l)
    BY <2>1 DEF Slots, PaymentsOf, Payment
  <2>3. Cardinality(Slots(l)) =< Cardinality(PaymentsOf(l))
    BY <2>2, CollectingFinite, FS_Subset
  <2> QED
    BY <1>3, <2>3, SlotsFinite, CollectingFinite
<1> DEFINE N == {s \in Slot : ~Exists(<<l, s>>)}
<1>5. N \subseteq Nat /\ N # {}
  BY <1>4 DEF Slot
<1>6. PICK s \in N : \A r \in N : ~(r < s)
  <2> HIDE DEF N
  <2> QED
    BY <1>5, LeastNat
<1>7. s \in Slot /\ ~Exists(<<l, s>>) /\ \A r \in 1..(s - 1) : Exists(<<l, r>>)
  BY <1>6 DEF Slot
<1>8. FreeSlot(l) \in Slot /\ ~Exists(<<l, FreeSlot(l)>>)
  BY <1>7 DEF FreeSlot
<1> QED
  BY <1>8 DEF Slots, Payment

\* What a commit leaves alone: it writes the rows it has locked, a line nobody
\* else knows of, and payments that were not there.
LEMMA CommitTouches ==
  ASSUME IInv, LInv, NEW k \in Clerk, Commit(k)
  PROVE  /\ \A l \in Line : line'[l] # line[l] =>
              l \in Refers(tx[k]) /\ (l \in tx[k].has \/ (tx[k].op = "debt" /\ l = tx[k].target))
         /\ \A p \in Payment : pay'[p] # pay[p] =>
              p[1] \in tx[k].has /\ (p \in tx[k].has \/ ~Exists(p))
<1> DEFINE t == tx[k]
<1>0. AskOK(t) /\ HeldOK(t) /\ ReadOK(t) /\ TxSizesOK(t) /\ t.pc = "commit" /\ Ready(t)
  BY DEF IInv, LInv, Commit, Ready
<1>1. ASSUME NEW l \in Line, line'[l] # line[l]
      PROVE  l \in Refers(t) /\ (l \in t.has \/ (t.op = "debt" /\ l = t.target))
  <2>1. line'[l] = LineAfter(k, l) /\ line[l] \in [qty : Nat, left : Int, price : Nat]
    BY DEF Commit, IInv, RowsOK
  <2>2. CASE t.target = l
    <3>1. t.op \in {"debt", "editLine", "deleteLine"}
      BY <1>0, <2>2 DEF AskOK
    <3> QED
      BY <1>0, <2>2, <3>1 DEF HeldOK, ReadOK, LineRead, Refers
  <2>3. CASE t.target # l
    <3>1. line'[l] = [line[l] EXCEPT !.left = line[l].left - t.ask[l].units]
      BY <2>1, <2>3 DEF LineAfter
    <3>2. t.ask[l] # Nothing
      <4>1. SUFFICES ASSUME t.ask[l] = Nothing PROVE FALSE
        OBVIOUS
      <4>2. line'[l] = [line[l] EXCEPT !.left = line[l].left - 0]
        BY <3>1, <4>1 DEF Nothing
      <4> QED
        BY <1>1, <2>1, <4>2
    <3>3. CASE t.op = "collect"
      BY <1>0, <3>2, <3>3 DEF HeldOK, Refers
    <3>4. CASE t.op \in {"editPay", "deletePay"}
      <4>1. t.target[1] = l
        BY <1>0, <3>2, <3>4 DEF ReadOK, PaymentRead, AsksOnly
      <4> QED
        BY <1>0, <3>2, <3>4, <4>1 DEF HeldOK, Refers
    <3>5. CASE t.op \in {"debt", "editLine", "deleteLine", "none"}
      <4>1. t.op # "none"
        BY <1>0 DEF AskOK
      <4> QED
        BY <1>0, <2>3, <3>2, <3>5, <4>1 DEF ReadOK, NewLineRead, LineRead, DeletionRead, AsksOnly
    <3> QED
      BY <1>0, <3>3, <3>4, <3>5 DEF AskOK
  <2> QED
    BY <2>2, <2>3
<1>2. ASSUME NEW p \in Payment, pay'[p] # pay[p]
      PROVE  p[1] \in t.has /\ (p \in t.has \/ ~Exists(p))
  <2>1. pay'[p] = PayAfter(k, p) /\ p[1] \in Line /\ p = <<p[1], p[2]>>
    BY PaymentRow DEF Commit, Payment
  <2>2. CASE t.op = "collect" /\ p[1] \in Asked(k) /\ p[2] = FreeSlot(p[1])
    <3>1. t.ask[p[1]] # Nothing
      BY <2>2 DEF Asked
    <3> QED
      BY <1>0, <2>1, <2>2, <3>1, SlotIsFree DEF HeldOK
  <2>3. CASE t.op \in {"editPay", "deletePay"} /\ t.target = p
    BY <1>0, <2>3 DEF HeldOK
  <2>4. CASE t.op = "deleteLine" /\ t.target = p[1]
    BY <1>0, <2>4 DEF HeldOK
  <2> QED
    BY <1>2, <2>1, <2>2, <2>3, <2>4 DEF PayAfter
<1> QED
  BY <1>1, <1>2

\* What the payments of a line add up to after a commit.
LEMMA CommitSums ==
  ASSUME IInv, LInv, NEW k \in Clerk, Commit(k), NEW l \in Line
  PROVE  LET t == tx[k]
             n == t.ask[l]
             of == t.op \in {"editPay", "deletePay"} /\ t.target[1] = l
         IN  /\ t.op = "collect" =>
                  /\ AmountSum(pay', l) = AmountSum(pay, l) + n.money
                  /\ QtySum(pay', l) = QtySum(pay, l) + n.qty
             /\ of =>
                  /\ AmountSum(pay', l) = AmountSum(pay, l) + (n.money - pay[t.target].amount)
                  /\ QtySum(pay', l) = QtySum(pay, l) + (n.qty - pay[t.target].qty)
             /\ t.op = "deleteLine" /\ t.target = l =>
                  AmountSum(pay', l) = 0 /\ QtySum(pay', l) = 0
             /\ t.op # "collect" /\ ~of /\ ~(t.op = "deleteLine" /\ t.target = l) =>
                  AmountSum(pay', l) = AmountSum(pay, l) /\ QtySum(pay', l) = QtySum(pay, l)
<1> DEFINE t == tx[k]
           n == t.ask[l]
<1>0. AskOK(t) /\ HeldOK(t) /\ ReadOK(t) /\ TxSizesOK(t) /\ t.pc = "commit" /\ Ready(t)
  BY DEF IInv, LInv, Commit, Ready
<1>1. pay \in [Payment -> PayRow] /\ pay' \in [Payment -> PayRow]
  BY CommitStep DEF IInv, RowsOK, PayRow
<1>2. \A p \in Slots(l) : p \in Payment /\ p[1] = l /\ pay'[p] = PayAfter(k, p)
  BY DEF Commit, Slots
<1>3. n.qty \in Nat /\ n.money \in Nat /\ AmountSum(pay, l) \in Nat /\ QtySum(pay, l) \in Nat
  BY <1>0, <1>1, RowSums DEF AskOK
<1>4. CASE t.op = "collect" /\ n # Nothing
  <2> DEFINE e == <<l, FreeSlot(l)>>
  <2>1. e \in Slots(l) /\ ~Exists(e)
    BY <1>4, SlotIsFree
  <2>2. pay'[e] = [qty |-> n.qty, amount |-> n.money, linked |-> FALSE]
    <3>1. e[1] = l /\ e[2] = FreeSlot(l) /\ l \in Asked(k)
      BY <1>4 DEF Asked
    <3> HIDE DEF e
    <3> QED
      BY <1>2, <1>4, <2>1, <3>1 DEF PayAfter
  <2>3. pay[e].amount = 0 /\ pay[e].qty = 0
    BY <1>1, <2>1, PayRowOf DEF Exists, Slots
  <2>4. \A p \in Slots(l) \ {e} : pay'[p] = pay[p]
    <3>1. ASSUME NEW p \in Slots(l) \ {e} PROVE p[2] # FreeSlot(l)
      BY DEF Slots, Payment
    <3> QED
      BY <1>2, <1>4, <3>1 DEF PayAfter
  <2> HIDE DEF e
  <2>5. /\ AmountSum(pay', l) = AmountSum(pay, l) + (pay'[e].amount - pay[e].amount)
        /\ QtySum(pay', l) = QtySum(pay, l) + (pay'[e].qty - pay[e].qty)
    BY <1>1, <2>1, <2>4, RowChanges
  <2>6. AmountSum(pay', l) = AmountSum(pay, l) + n.money /\ QtySum(pay', l) = QtySum(pay, l) + n.qty
    BY <1>3, <2>2, <2>3, <2>5
  <2> QED
    BY <1>4, <2>6
<1>5. CASE t.op = "collect" /\ n = Nothing
  <2>1. \A p \in Slots(l) : pay'[p] = pay[p]
    BY <1>2, <1>5 DEF PayAfter, Asked
  <2>2. AmountSum(pay', l) = AmountSum(pay, l) /\ QtySum(pay', l) = QtySum(pay, l)
    BY <1>1, <2>1, RowsSame
  <2>3. n.qty = 0 /\ n.money = 0
    BY <1>5 DEF Nothing
  <2> QED
    BY <1>3, <1>5, <2>2, <2>3
<1>6. CASE t.op \in {"editPay", "deletePay"} /\ t.target[1] = l
  <2> DEFINE e == t.target
  <2>1. e \in Slots(l) /\ e \in Payment /\ Exists(e)
    BY <1>0, <1>6 DEF AskOK, Slots, ReadOK, PaymentRead
  <2>2. pay'[e].qty = n.qty /\ pay'[e].amount = n.money
    <3>1. CASE t.op = "editPay"
      <4>1. pay'[e] = [pay[e] EXCEPT !.qty = n.qty, !.amount = n.money]
        BY <1>2, <1>6, <2>1, <3>1 DEF PayAfter
      <4>2. pay[e] \in Stored
        BY <1>1, <2>1 DEF PayRow, Exists, NoPay
      <4> QED
        BY <4>1, <4>2
    <3>2. CASE t.op = "deletePay"
      <4>1. pay'[e] = NoPay
        BY <1>2, <1>6, <2>1, <3>2 DEF PayAfter
      <4>2. n.qty = 0 /\ n.money = 0
        BY <1>0, <1>6, <3>2 DEF ReadOK, PaymentRead
      <4> QED
        BY <4>1, <4>2 DEF NoPay
    <3> QED
      BY <1>6, <3>1, <3>2
  <2>3. \A p \in Slots(l) \ {e} : pay'[p] = pay[p]
    BY <1>2, <1>6 DEF PayAfter
  <2> HIDE DEF e
  <2>4. /\ AmountSum(pay', l) = AmountSum(pay, l) + (pay'[e].amount - pay[e].amount)
        /\ QtySum(pay', l) = QtySum(pay, l) + (pay'[e].qty - pay[e].qty)
    BY <1>1, <2>1, <2>3, RowChanges
  <2>5. /\ AmountSum(pay', l) = AmountSum(pay, l) + (n.money - pay[t.target].amount)
        /\ QtySum(pay', l) = QtySum(pay, l) + (n.qty - pay[t.target].qty)
    BY <2>2, <2>4 DEF e
  <2> QED
    BY <1>6, <2>5
<1>7. CASE t.op = "deleteLine" /\ t.target = l
  <2>1. \A p \in Slots(l) : pay'[p] = NoPay
    BY <1>2, <1>7 DEF PayAfter
  <2>2. AmountSum(pay', l) = 0 /\ QtySum(pay', l) = 0
    BY <1>1, <2>1, RowsGone DEF NoPay
  <2> QED
    BY <1>7, <2>2
<1>8. CASE /\ t.op # "collect" /\ ~(t.op \in {"editPay", "deletePay"} /\ t.target[1] = l)
           /\ ~(t.op = "deleteLine" /\ t.target = l)
  <2>1. \A p \in Slots(l) : pay'[p] = pay[p]
    BY <1>2, <1>8 DEF PayAfter
  <2>2. AmountSum(pay', l) = AmountSum(pay, l) /\ QtySum(pay', l) = QtySum(pay, l)
    BY <1>1, <2>1, RowsSame
  <2> QED
    BY <1>8, <2>2
<1> QED
  BY <1>4, <1>5, <1>6, <1>7, <1>8

\* what a commit adds to the worth of a line
Gain(t, l) ==
  IF t.op = "collect" THEN -t.ask[l].money ELSE IF l = TheLine(t) THEN t.delta ELSE 0

\* Each line is right again after a commit.
LEMMA CommitLine ==
  ASSUME IInv, LInv, NEW k \in Clerk, Commit(k), NEW l \in Line
  PROVE  LET t == tx[k]
         IN  /\ line'[l].left = line'[l].qty - QtySum(pay', l)
             /\ line'[l].left >= 0
             /\ line'[l].qty \in 0..MaxQty /\ line'[l].price \in Price \cup {0}
             /\ line'[l].qty = 0 => \A p \in Slots(l) : ~(pay'[p].qty + pay'[p].amount > 0)
             /\ line'[l].qty * line'[l].price - AmountSum(pay', l)
                  = (Total(l) - Collected(l)) + Gain(t, l)
             /\ Gain(t, l) \in Int
<1> DEFINE t == tx[k]
           n == t.ask[l]
           of == t.op \in {"editPay", "deletePay"} /\ t.target[1] = l
<1>0. AskOK(t) /\ HeldOK(t) /\ ReadOK(t) /\ TxSizesOK(t) /\ t.pc = "commit" /\ Ready(t)
  BY DEF IInv, LInv, Commit, Ready
<1>1. /\ line'[l] = LineAfter(k, l) /\ line[l] \in [qty : Nat, left : Int, price : Nat]
      /\ line[l].price \in Price \cup {0}
  BY DEF Commit, IInv, RowsOK, LInv, SizesOK
<1>2. /\ line[l].qty \in Nat /\ line[l].qty \in 0..MaxQty
      /\ line[l].left \in Int /\ line[l].price \in Nat
      /\ line[l].left >= 0 /\ line[l].left =< line[l].qty
      /\ Total(l) \in Int /\ Collected(l) \in Nat
      /\ line[l].left = line[l].qty - QtySum(pay, l)
      /\ QtySum(pay, l) \in Nat
      /\ Collected(l) = AmountSum(pay, l) /\ Total(l) = line[l].qty * line[l].price
  BY LineRow, SumsOfLine DEF Total
<1>3. /\ n.qty \in 0..MaxQty /\ n.money \in Nat /\ n.units \in Int /\ t.delta \in Int
      /\ n.qty * n.money \in Nat
  BY <1>0 DEF AskOK, TxSizesOK, Ask
<1>4. ~Live(l) => \A p \in Slots(l) : ~(pay[p].qty + pay[p].amount > 0)
  BY DEF LInv, UnitsAddUp, PaymentsOf, Slots, Exists
<1>5. ~Live(l) => AmountSum(pay, l) = 0 /\ QtySum(pay, l) = 0
  <2>1. pay \in [Payment -> PayRow]
    BY DEF IInv, RowsOK, PayRow
  <2> QED
    BY <1>4, <2>1, RowsGone
<1>6. \A p \in Slots(l) : pay'[p] # pay[p] => l \in t.has
  BY CommitTouches DEF Slots
<1>7. CASE t.op = "debt" /\ t.target = l
  <2>1. line'[l] = [qty |-> n.qty, left |-> n.qty - n.units, price |-> n.money]
    BY <1>1, <1>7 DEF LineAfter
  <2>2. ~Live(l) /\ n.qty > 0 /\ n.units = 0 /\ t.delta = n.qty * n.money /\ n.money \in Price
    BY <1>0, <1>7 DEF ReadOK, NewLineRead, TxSizesOK
  <2>3. AmountSum(pay', l) = 0 /\ QtySum(pay', l) = 0 /\ Collected(l) = 0
    BY <1>2, <1>5, <1>7, <2>2, CommitSums
  <2>4. Total(l) = 0
    <3>1. line[l].qty = 0
      BY <1>2, <2>2 DEF Live
    <3> QED
      BY <1>2, <3>1
  <2>5. Gain(t, l) = t.delta
    BY <1>7 DEF Gain, TheLine
  <2> QED
    BY <1>3, <2>1, <2>2, <2>3, <2>4, <2>5
<1>8. CASE t.op = "editLine" /\ t.target = l
  <2>1. line'[l] = [qty |-> n.qty, left |-> n.qty - n.units, price |-> n.money]
    BY <1>1, <1>8 DEF LineAfter
  <2>2. /\ n.qty > 0 /\ n.units = line[l].qty - line[l].left /\ n.qty >= n.units
        /\ t.delta = n.qty * n.money - Total(l) /\ n.money \in Price
    BY <1>0, <1>8 DEF ReadOK, LineRead, TxSizesOK
  <2>3. AmountSum(pay', l) = Collected(l) /\ QtySum(pay', l) = QtySum(pay, l)
    BY <1>2, <1>8, CommitSums
  <2>4. Gain(t, l) = t.delta
    BY <1>8 DEF Gain, TheLine
  <2> QED
    BY <1>2, <1>3, <2>1, <2>2, <2>3, <2>4
<1>9. CASE t.op = "deleteLine" /\ t.target = l
  <2>1. line'[l] = NoLine
    BY <1>1, <1>9 DEF LineAfter
  <2>2. AmountSum(pay', l) = 0 /\ QtySum(pay', l) = 0
    BY <1>9, CommitSums
  <2>3. \A p \in Slots(l) : ~(pay'[p].qty + pay'[p].amount > 0)
    BY <1>9 DEF Commit, PayAfter, NoPay, Slots
  <2>4. Gain(t, l) = t.delta /\ t.delta = Collected(l) - Total(l)
    BY <1>0, <1>9 DEF Gain, TheLine, ReadOK, DeletionRead
  <2>5. line'[l].qty = 0 /\ line'[l].left = 0 /\ line'[l].price = 0
    BY <2>1 DEF NoLine
  <2>6. line'[l].qty * line'[l].price = 0
    BY <2>5
  <2> QED
    BY <1>2, <1>3, <2>2, <2>3, <2>4, <2>5, <2>6
<1>10. CASE t.target # l
  <2>1. line'[l] = [line[l] EXCEPT !.left = line[l].left - n.units]
    BY <1>1, <1>10 DEF LineAfter
  <2>2. /\ line'[l].qty = line[l].qty /\ line'[l].price = line[l].price
        /\ line'[l].left = line[l].left - n.units
    BY <1>1, <2>1
  <2>3. CASE t.op = "collect"
    <3>1. n.units = n.qty
      BY <1>0, <2>3 DEF ReadOK, CollectionRead
    <3>2. n # Nothing => Live(l) /\ n.qty =< line[l].left
      BY <1>0, <2>3 DEF ReadOK, CollectionRead
    <3>3. n = Nothing => n.qty = 0 /\ n.units = 0 /\ n.money = 0
      BY DEF Nothing
    <3>4. /\ AmountSum(pay', l) = Collected(l) + n.money
          /\ QtySum(pay', l) = QtySum(pay, l) + n.qty
      BY <1>2, <2>3, CommitSums
    <3>5. Gain(t, l) = -n.money
      BY <2>3 DEF Gain
    <3>6. line'[l].qty = 0 => \A p \in Slots(l) : ~(pay'[p].qty + pay'[p].amount > 0)
      <4>1. ASSUME line'[l].qty = 0, NEW p \in Slots(l) PROVE pay'[p] = pay[p]
        <5>1. n = Nothing
          BY <2>2, <3>2, <4>1 DEF Live
        <5> QED
          BY <2>3, <5>1 DEF Commit, PayAfter, Asked, Slots
      <4> QED
        BY <1>2, <1>4, <2>2, <4>1 DEF Live
    <3>7. line'[l].left >= 0
      BY <1>2, <1>3, <2>2, <3>1, <3>2, <3>3
    <3> QED
      BY <1>1, <1>2, <1>3, <2>2, <3>1, <3>4, <3>5, <3>6, <3>7
  <2>4. CASE of
    <3>1. /\ n.units = n.qty - pay[t.target].qty /\ t.delta = pay[t.target].amount - n.money
          /\ line[l].left - n.units >= 0 /\ t.target \in Payment /\ Exists(t.target)
      BY <1>0, <2>4 DEF ReadOK, PaymentRead, AskOK
    <3>2. pay[t.target].qty \in Nat /\ pay[t.target].amount \in Nat /\ Live(l)
      BY <2>4, <3>1, PaymentRow
    <3>3. /\ AmountSum(pay', l) = Collected(l) + (n.money - pay[t.target].amount)
          /\ QtySum(pay', l) = QtySum(pay, l) + (n.qty - pay[t.target].qty)
      BY <1>2, <2>4, CommitSums
    <3>4. Gain(t, l) = t.delta
      BY <2>4 DEF Gain, TheLine
    <3>5. line'[l].qty > 0
      BY <2>2, <3>2 DEF Live
    <3> QED
      BY <1>1, <1>2, <1>3, <2>2, <3>1, <3>2, <3>3, <3>4, <3>5
  <2>5. CASE t.op # "collect" /\ ~of
    <3>1. n = Nothing
      <4>1. t.op \in {"editPay", "deletePay"} => n = Nothing
        BY <1>0, <2>5 DEF ReadOK, PaymentRead, AsksOnly
      <4>2. t.op \in {"debt", "editLine", "deleteLine"} => n = Nothing
        BY <1>0, <1>10 DEF ReadOK, NewLineRead, LineRead, DeletionRead, AsksOnly
      <4> QED
        BY <1>0, <2>5, <4>1, <4>2 DEF AskOK
    <3>2. n.units = 0
      BY <3>1 DEF Nothing
    <3>3. AmountSum(pay', l) = Collected(l) /\ QtySum(pay', l) = QtySum(pay, l)
      BY <1>2, <1>10, <2>5, CommitSums
    <3>4. Gain(t, l) = 0
      <4>1. l # TheLine(t)
        BY <1>10, <2>5 DEF TheLine
      <4> QED
        BY <2>5, <4>1 DEF Gain
    <3>5. \A p \in Slots(l) : pay'[p] = pay[p]
      BY <1>10, <2>5 DEF Commit, PayAfter, Slots
    <3>6. line'[l].qty = 0 => \A p \in Slots(l) : ~(pay'[p].qty + pay'[p].amount > 0)
      BY <1>2, <1>4, <2>2, <3>5 DEF Live
    <3> QED
      BY <1>1, <1>2, <1>3, <2>2, <3>2, <3>3, <3>4, <3>6
  <2> QED
    BY <2>3, <2>4, <2>5
<1>11. t.target = l => t.op \in {"debt", "editLine", "deleteLine"}
  BY <1>0 DEF AskOK
<1> QED
  BY <1>7, <1>8, <1>9, <1>10, <1>11

\* The customer a transaction pays for owns each line it refers to.
LEMMA PayerOwns ==
  ASSUME IInv, LInv, NEW k \in Clerk, tx[k].pc # "idle", NEW l \in Refers(tx[k])
  PROVE  Owner[l] = Payer(tx[k].ask, tx[k].target)
<1> DEFINE t == tx[k]
<1>0. AskOK(t) /\ ReadOK(t)
  BY DEF IInv, LInv
<1>1. \A m \in Refers(t) : Owner[m] = Owner[l]
  <2>1. CASE t.op = "collect"
    <3>1. \A m \in Refers(t) : t.ask[m] # Nothing
      BY <1>0, <2>1 DEF AskOK, Refers, Payment
    <3> QED
      BY <1>0, <2>1, <3>1 DEF ReadOK, CollectionRead, Refers
  <2>2. CASE t.op \in {"editPay", "deletePay"}
    <3>1. \A m \in Refers(t) : m = t.target[1]
      BY <1>0, <2>2 DEF AskOK, Refers, Payment, ReadOK, PaymentRead, AsksOnly
    <3> QED
      BY <3>1
  <2>3. CASE t.op \in {"debt", "editLine", "deleteLine"}
    <3>1. \A m \in Refers(t) : m = t.target
      BY <1>0, <2>3 DEF AskOK, Refers, Payment, ReadOK, NewLineRead, LineRead, DeletionRead, AsksOnly
    <3> QED
      BY <3>1
  <2> QED
    BY <1>0, <2>1, <2>2, <2>3 DEF AskOK
<1>2. Payer(t.ask, t.target) = CHOOSE c \in Customer : \E m \in Refers(t) : c = Owner[m]
  BY DEF Payer, Refers
<1>3. Owner[l] \in Customer
  BY DEF Refers
<1> QED
  BY <1>1, <1>2, <1>3

\* What a transaction adds to the lines of a customer is what it adds to the debt.
LEMMA GainIsDelta ==
  ASSUME IInv, LInv, NEW k \in Clerk, Commit(k), NEW c \in Customer
  PROVE  SumFunctionOnSet([l \in Line |-> Gain(tx[k], l)], {l \in Line : Owner[l] = c})
           = IF c = Payer(tx[k].ask, tx[k].target) THEN tx[k].delta ELSE 0
<1> DEFINE t == tx[k]
           g == [l \in Line |-> Gain(t, l)]
           O == {l \in Line : Owner[l] = c}
           payer == Payer(t.ask, t.target)
<1>0. AskOK(t) /\ ReadOK(t) /\ TxSizesOK(t) /\ t.pc = "commit"
  BY DEF IInv, LInv, Commit
<1>1. O \in SUBSET Line /\ IsFiniteSet(O) /\ \A l \in Line : g[l] \in Int
  BY FS_Subset, CommitLine
<1>2. \A l \in Refers(t) : Owner[l] = payer
  BY <1>0, PayerOwns
<1>3. ASSUME NEW l \in Line, l \notin Refers(t) PROVE g[l] = 0
  <2>1. CASE t.op = "collect"
    BY <1>3, <2>1 DEF Gain, Refers, Nothing
  <2>2. CASE t.op # "collect"
    <3>1. TheLine(t) \in Refers(t)
      BY <1>0, <2>2 DEF AskOK, TheLine, Refers, Payment
    <3> QED
      BY <1>3, <2>2, <3>1 DEF Gain
  <2> QED
    BY <2>1, <2>2
<1>4. Refers(t) \subseteq Line
  BY DEF Refers
<1>5. CASE c # payer
  <2>1. \A l \in O : g[l] = 0
    BY <1>2, <1>3, <1>5
  <2> HIDE DEF g, O
  <2>2. SumFunctionOnSet(g, O) = 0
    BY <1>1, <2>1, SumZero
  <2> QED
    BY <1>5, <2>2 DEF g, O
<1>6. CASE c = payer
  <2>1. Refers(t) \in SUBSET O
    BY <1>2, <1>4, <1>6
  <2>2. CASE t.op = "collect"
    <3> DEFINE m == [l \in Line |-> t.ask[l].money]
    <3>1. \A l \in Line : m[l] \in Int /\ g[l] = -m[l]
      BY <1>0, <2>2 DEF AskOK, Gain
    <3>2. t.delta = -SumFunctionOnSet(m, Line)
      BY <1>0, <2>2 DEF ReadOK, CollectionRead
    <3>3. \A l \in Line \ O : g[l] = 0
      BY <1>3, <2>1
    <3> HIDE DEF g, O, m
    <3>4. SumFunctionOnSet(g, Line) = -SumFunctionOnSet(m, Line)
      BY <3>1, SumMinus
    <3>5. SumFunctionOnSet(g, Line) = SumFunctionOnSet(g, O)
      BY <1>1, <3>3, SumOfPart
    <3>6. SumFunctionOnSet(g, O) = t.delta
      BY <3>2, <3>4, <3>5
    <3> QED
      BY <1>6, <3>6 DEF g, O
  <2>3. CASE t.op # "collect"
    <3> DEFINE e == TheLine(t)
    <3>1. e \in Refers(t)
      BY <1>0, <2>3 DEF AskOK, TheLine, Refers, Payment
    <3>2. e \in Line /\ e \in O
      BY <1>4, <2>1, <3>1
    <3>3. g[e] = t.delta /\ g[e] \in Int /\ \A l \in Line : l # e => g[l] = 0
      BY <1>1, <2>3, <3>2 DEF Gain
    <3> HIDE DEF g, O, e
    <3>4. {e} \in SUBSET O /\ \A l \in O \ {e} : g[l] = 0
      BY <1>1, <3>2, <3>3
    <3>5. SumFunctionOnSet(g, O) = SumFunctionOnSet(g, {e})
      BY <1>1, <3>4, SumOfPart
    <3>6. SumFunctionOnSet(g, {e}) = g[e]
      BY <3>3, SumOne
    <3>7. SumFunctionOnSet(g, O) = t.delta
      BY <3>3, <3>5, <3>6
    <3> QED
      BY <1>6, <3>7 DEF g, O
  <2> QED
    BY <2>2, <2>3
<1> QED
  BY <1>5, <1>6

LEMMA CommitDebt ==
  ASSUME IInv, LInv, NEW k \in Clerk, Commit(k)
  PROVE  DebtIsLedgerSum' /\ debt' \in [Customer -> Int]
<1> DEFINE t == tx[k]
           payer == Payer(t.ask, t.target)
           w == [l \in Line |-> Total(l) - Collected(l)]
           g == [l \in Line |-> Gain(t, l)]
           h == [l \in Line |-> line'[l].qty * line'[l].price - AmountSum(pay', l)]
<1>0. AskOK(t) /\ Named(t) /\ HeldOK(t) /\ ReadOK(t) /\ TxSizesOK(t) /\ t.pc = "commit"
  BY DEF IInv, LInv, Commit
<1>1. payer \in Customer
  BY <1>0, PayerIsCustomer
<1>2. debt \in [Customer -> Int] /\ t.delta \in Int
  BY <1>0 DEF LInv, SizesOK, TxSizesOK
<1>3. debt' = [debt EXCEPT ![payer] = debt[payer] + t.delta]
  BY CustomerIsPayer DEF Commit
<1>4. debt' \in [Customer -> Int]
  BY <1>1, <1>2, <1>3
<1>5. w' = h
  BY SumsOfLine DEF Total
<1>6. \A l \in Line : w[l] \in Int /\ g[l] \in Int /\ h[l] = w[l] + g[l]
  BY CommitLine, LineRow
<1>7. ASSUME NEW c \in Customer
      PROVE  /\ debt'[c] = SumFunctionOnSet(h, {l \in Line : Owner[l] = c})
             /\ debt'[c] >= 0
  <2> DEFINE O == {l \in Line : Owner[l] = c}
  <2>1. O \subseteq Line /\ IsFiniteSet(O)
    BY FS_Subset
  <2>2. debt[c] = SumFunctionOnSet(w, O) /\ debt[c] >= 0 /\ debt[c] \in Int
    BY <1>2 DEF LInv, DebtIsLedgerSum
  <2>3. SumFunctionOnSet(g, O) = IF c = payer THEN t.delta ELSE 0
    BY GainIsDelta
  <2> HIDE DEF O, w, g, h
  <2>4. SumFunctionOnSet(h, O) = SumFunctionOnSet(w, O) + SumFunctionOnSet(g, O)
    BY <1>6, <2>1, SumPlus
  <2>5. debt'[c] = SumFunctionOnSet(h, O)
    BY <1>1, <1>2, <1>3, <2>2, <2>3, <2>4
  <2>6. debt'[c] >= 0
    <3>1. debt[payer] + t.delta >= 0
      BY <1>0 DEF ReadOK, DebtRead
    <3> QED
      BY <1>1, <1>2, <1>3, <2>2, <3>1
  <2> QED
    BY <2>5, <2>6 DEF O
<1>8. DebtIsLedgerSum'
  <2> HIDE DEF h
  <2> QED
    BY <1>5, <1>7 DEF DebtIsLedgerSum
<1> QED
  BY <1>4, <1>8

LEMMA CommitUnits ==
  ASSUME IInv, LInv, NEW k \in Clerk, Commit(k)
  PROVE  UnitsAddUp'
<1> SUFFICES ASSUME NEW l \in Line
             PROVE  (/\ line[l].left = line[l].qty
                          - SumFunctionOnSet([p \in Payment |-> pay[p].qty], PaymentsOf(l))
                     /\ line[l].left >= 0
                     /\ ~Live(l) => PaymentsOf(l) = {})'
  BY DEF UnitsAddUp
<1>1. /\ line'[l].left = line'[l].qty - QtySum(pay', l)
      /\ line'[l].left >= 0 /\ line'[l].qty \in Nat
      /\ line'[l].qty = 0 => \A p \in Slots(l) : ~(pay'[p].qty + pay'[p].amount > 0)
  BY CommitLine
<1>2. ~(line'[l].qty > 0) => PaymentsOf(l)' = {}
  BY <1>1 DEF PaymentsOf, Exists, Slots
<1> QED
  BY <1>1, <1>2, SumsOfLine DEF Live

LEMMA CommitRoom ==
  ASSUME IInv, LInv, NEW k \in Clerk, Commit(k)
  PROVE  Room'
<1> SUFFICES ASSUME NEW l \in Line
             PROVE  (Cardinality(PaymentsOf(l)) + Cardinality(Collecting(l)) =< MaxSlot)'
  BY DEF Room
<1> DEFINE t == tx[k]
<1>0. /\ AskOK(t) /\ HeldOK(t) /\ ReadOK(t) /\ t.pc = "commit"
      /\ tx'[k] = NoTx /\ \A j \in Clerk \ {k} : tx'[j] = tx[j]
  BY DEF IInv, LInv, Commit, End, RowsOK
<1>1. Collecting(l)' = Collecting(l) \ {k}
  BY <1>0 DEF Collecting, Asked, NoTx
<1>2. PaymentsOf(l)' \subseteq Slots(l) /\ IsFiniteSet(PaymentsOf(l)') /\ Cardinality(PaymentsOf(l)') \in Nat
  <2>1. PaymentsOf(l)' \subseteq Slots(l)
    BY DEF PaymentsOf, Slots
  <2> QED
    BY <2>1, SlotsFinite, FS_Subset, FS_CardinalityType
<1>3. Cardinality(PaymentsOf(l)) + Cardinality(Collecting(l)) =< MaxSlot
  BY DEF LInv, Room
<1>4. CASE k \in Collecting(l)
  <2> DEFINE e == <<l, FreeSlot(l)>>
  <2>1. t.op = "collect" /\ t.ask[l] # Nothing
    BY <1>4 DEF Collecting, Asked
  <2>2. e \in Slots(l) /\ ~Exists(e)
    BY <2>1, SlotIsFree
  <2>3. PaymentsOf(l)' \subseteq PaymentsOf(l) \cup {e}
    <3>1. ASSUME NEW p \in Slots(l), p # e PROVE pay'[p] = pay[p]
      <4>1. p[2] # FreeSlot(l)
        BY <3>1 DEF Slots, Payment
      <4> QED
        BY <2>1, <4>1 DEF Commit, PayAfter, Slots
    <3> QED
      BY <3>1 DEF PaymentsOf, Exists, Slots
  <2>4. e \notin PaymentsOf(l)
    BY <2>2 DEF PaymentsOf
  <2> HIDE DEF e
  <2>5. /\ IsFiniteSet(PaymentsOf(l) \cup {e})
        /\ Cardinality(PaymentsOf(l) \cup {e}) = Cardinality(PaymentsOf(l)) + 1
    BY <2>4, CollectingFinite, FS_AddElement
  <2>6. Cardinality(PaymentsOf(l)') =< Cardinality(PaymentsOf(l)) + 1
    BY <2>3, <2>5, FS_Subset
  <2>7. Cardinality(Collecting(l)') = Cardinality(Collecting(l)) - 1
    BY <1>1, <1>4, CollectingFinite, FS_RemoveElement
  <2> QED
    BY <1>2, <1>3, <2>6, <2>7, CollectingFinite
<1>5. CASE k \notin Collecting(l)
  <2>1. Collecting(l)' = Collecting(l)
    BY <1>1, <1>5
  <2>2. PaymentsOf(l)' \subseteq PaymentsOf(l)
    <3>1. ASSUME NEW p \in Slots(l), ~Exists(p) PROVE ~(pay'[p].qty + pay'[p].amount > 0)
      <4>1. p \in Payment /\ p[1] = l
        BY DEF Slots
      <4>2. ~(t.op = "collect" /\ p[1] \in Asked(k) /\ p[2] = FreeSlot(p[1]))
        BY <1>5, <4>1 DEF Collecting
      <4>3. ~(t.op \in {"editPay", "deletePay"} /\ t.target = p)
        BY <1>0, <3>1 DEF ReadOK, PaymentRead
      <4>4. pay'[p] = NoPay \/ pay'[p] = pay[p]
        BY <4>1, <4>2, <4>3 DEF Commit, PayAfter
      <4> QED
        BY <3>1, <4>4 DEF Exists, NoPay
    <3> QED
      BY <3>1 DEF PaymentsOf, Slots, Exists
  <2>3. Cardinality(PaymentsOf(l)') =< Cardinality(PaymentsOf(l))
    BY <2>2, CollectingFinite, FS_Subset
  <2> QED
    BY <1>2, <1>3, <2>1, <2>3, CollectingFinite
<1> QED
  BY <1>4, <1>5

\* What the others have read is not what a commit writes.
LEMMA CommitReads ==
  ASSUME IInv, LInv, NEW k \in Clerk, Commit(k), NEW j \in Clerk, j # k
  PROVE  (TxSizesOK(tx[j]) /\ ReadOK(tx[j]))'
<1> DEFINE t == tx[j]
<1>0. /\ AskOK(t) /\ Named(t) /\ HeldOK(t) /\ ReadOK(t) /\ TxSizesOK(t) /\ t' = t
      /\ tx[k].has \cap t.has = {} /\ tx[k].pc = "commit"
  BY DEF IInv, LInv, Commit, End, RowsOK, LocksExclude
<1>1. \A l \in Line : l \in t.has => line'[l] = line[l] \/ (tx[k].op = "debt" /\ l = tx[k].target)
  BY <1>0, CommitTouches
<1>2. \A l \in Line : l \in t.has /\ l \in Refers(t) => line'[l] = line[l]
  BY <1>1 DEF LInv, Reserved
<1>3. \A p \in Payment : p[1] \in t.has \/ (p \in t.has /\ Exists(p)) => pay'[p] = pay[p]
  BY <1>0, CommitTouches
<1>4. TxSizesOK(tx[j])'
  BY <1>0 DEF TxSizesOK
<1>5. NewLineRead(tx[j])'
  <2>1. CASE t.op = "debt"
    <3>1. t.target \notin Refers(tx[k]) /\ t.target \in Line
      BY <1>0, <2>1 DEF LInv, Reserved, AskOK
    <3>2. line'[t.target] = line[t.target]
      BY <3>1, CommitTouches
    <3> QED
      BY <1>0, <3>2 DEF ReadOK, NewLineRead, Live, AsksOnly
  <2> QED
    BY <1>0, <2>1 DEF NewLineRead
<1>6. LineRead(tx[j])'
  <2>1. CASE t.op = "editLine"
    <3>1. t.target \in Line /\ t.target \in t.has /\ t.target \in Refers(t)
      BY <1>0, <2>1 DEF AskOK, ReadOK, LineRead, Refers
    <3>2. line'[t.target] = line[t.target]
      BY <1>2, <3>1
    <3> QED
      BY <1>0, <3>2 DEF ReadOK, LineRead, Live, Total, AsksOnly
  <2> QED
    BY <1>0, <2>1 DEF LineRead
<1>7. PaymentRead(tx[j])'
  <2>1. CASE t.op \in {"editPay", "deletePay"}
    <3>1. t.target \in Payment /\ t.target \in t.has /\ Exists(t.target) /\ t.target[1] \in Line
      BY <1>0, <2>1, PaymentRow DEF AskOK, HeldOK, ReadOK, PaymentRead
    <3>2. pay'[t.target] = pay[t.target]
      BY <1>3, <3>1
    <3>3. t.target[1] \in Refers(t)
      BY <3>1 DEF Refers, Payment
    <3>4. Ready(t) => line'[t.target[1]] = line[t.target[1]]
      BY <1>0, <1>2, <2>1, <3>1, <3>3 DEF HeldOK
    <3> QED
      BY <1>0, <3>2, <3>4 DEF ReadOK, PaymentRead, Exists, AsksOnly, Ready
  <2> QED
    BY <1>0, <2>1 DEF PaymentRead
<1>8. DeletionRead(tx[j])'
  <2>1. CASE t.op = "deleteLine"
    <3>1. t.target \in Line /\ t.target \in t.has /\ t.target \in Refers(t)
      BY <1>0, <2>1 DEF AskOK, HeldOK, Refers
    <3>2. line'[t.target] = line[t.target]
      BY <1>2, <3>1
    <3>3. \A p \in Slots(t.target) : pay'[p] = pay[p]
      BY <1>3, <3>1 DEF Slots
    <3>4. Collected(t.target)' = Collected(t.target)
      <4>1. pay \in [Payment -> PayRow] /\ pay' \in [Payment -> PayRow]
        BY CommitStep DEF IInv, RowsOK, PayRow
      <4>2. AmountSum(pay', t.target) = AmountSum(pay, t.target)
        BY <3>1, <3>3, <4>1, RowsSame
      <4>3. \A l \in Line : Collected(l) = AmountSum(pay, l) /\ Collected(l)' = AmountSum(pay', l)
        BY SumsOfLine
      <4>4. Collected(t.target)' = AmountSum(pay', t.target)
        BY <1>0 DEF Collected, PaymentsOf, Exists, AmountSum
      <4> QED
        BY <3>1, <4>2, <4>3, <4>4
    <3>5. Total(t.target)' = Total(t.target) /\ Live(t.target)' = Live(t.target)
      BY <1>0, <3>2 DEF Total, Live
    <3> QED
      BY <1>0, <3>4, <3>5 DEF ReadOK, DeletionRead, Ready
  <2> QED
    BY <1>0, <2>1 DEF DeletionRead
<1>9. CollectionRead(tx[j])'
  <2>1. CASE t.op = "collect"
    <3>1. ASSUME Ready(t), NEW l \in Line, t.ask[l] # Nothing
          PROVE  line'[l] = line[l]
      <4>1. l \in t.has /\ l \in Refers(t)
        BY <1>0, <2>1, <3>1 DEF HeldOK, Refers
      <4> QED
        BY <1>2, <4>1
    <3> QED
      BY <1>0, <3>1 DEF ReadOK, CollectionRead, Live, Ready
  <2> QED
    BY <1>0, <2>1 DEF CollectionRead
<1>10. DebtRead(tx[j])'
  <2>1. CASE t.pc = "commit"
    <3> DEFINE c == Payer(t.ask, t.target)
               d == Payer(tx[k].ask, tx[k].target)
    <3>1. c \in Customer /\ c \in t.has
      BY <1>0, <2>1, PayerIsCustomer DEF HeldOK
    <3>2. d \in tx[k].has
      BY <1>0 DEF IInv, HeldOK
    <3>3. debt' = [debt EXCEPT ![d] = debt[d] + tx[k].delta]
      BY CustomerIsPayer DEF Commit
    <3>4. debt'[c] = debt[c]
      BY <1>0, <3>1, <3>2, <3>3 DEF LInv, SizesOK
    <3> QED
      BY <1>0, <3>4 DEF ReadOK, DebtRead
  <2> QED
    BY <1>0, <2>1 DEF DebtRead
<1> QED
  BY <1>4, <1>5, <1>6, <1>7, <1>8, <1>9, <1>10 DEF ReadOK

\* A payment of a commit has as many containers as some request asked for.
LEMMA CommitQty ==
  ASSUME IInv, LInv, NEW k \in Clerk, Commit(k), NEW p \in Payment
  PROVE  pay'[p].qty \in 0..MaxQty
<1>1. /\ pay[p].qty \in 0..MaxQty /\ tx[k].ask[p[1]].qty \in 0..MaxQty
      /\ pay'[p] = PayAfter(k, p) /\ 0 \in 0..MaxQty
  BY PaymentRow DEF LInv, SizesOK, TxSizesOK, Ask, Commit
<1>2. pay[p] \in {NoPay} \cup Stored
  BY DEF IInv, RowsOK
<1>3. [pay[p] EXCEPT !.qty = tx[k].ask[p[1]].qty, !.amount = tx[k].ask[p[1]].money].qty
        = tx[k].ask[p[1]].qty
  BY <1>2 DEF NoPay
<1> QED
  BY <1>1, <1>3 DEF PayAfter, NoPay

LEMMA CommitKeeps ==
  ASSUME IInv, LInv, NEW k \in Clerk, Commit(k)
  PROVE  LInv'
<1>0. tx'[k] = NoTx /\ \A j \in Clerk \ {k} : tx'[j] = tx[j]
  BY DEF IInv, Commit, End, RowsOK
<1>1. SizesOK'
  <2>1. \A l \in Line : line'[l].qty \in 0..MaxQty /\ line'[l].price \in Price \cup {0}
    BY CommitLine
  <2>2. limit' \in [Customer -> Limit]
    BY DEF Commit, LInv, SizesOK
  <2> QED
    BY <2>1, <2>2, CommitQty, CommitDebt DEF SizesOK
<1>2. (TxSizesOK(tx[k]) /\ ReadOK(tx[k]))'
  <2>1. TxSizesOK(tx[k])'
    BY <1>0, NoTxKnows DEF TxSizesOK
  <2>2. ReadOK(tx[k])'
    BY <1>0 DEF ReadOK, NewLineRead, LineRead, PaymentRead, DeletionRead, CollectionRead, DebtRead, NoTx
  <2> QED
    BY <2>1, <2>2
<1>3. Reserved'
  <2>1. Refers(NoTx) = {} /\ NoTx.op # "debt"
    BY NoTxKnows DEF NoTx
  <2>2. ASSUME NEW i \in Clerk, NEW j \in Clerk, tx'[j].op = "debt", i # j
        PROVE  tx'[j].target \notin Refers(tx'[i])
    <3>1. j # k
      BY <1>0, <2>1, <2>2
    <3>2. CASE i = k
      BY <1>0, <2>1, <3>2
    <3>3. CASE i # k
      BY <1>0, <2>2, <3>1, <3>3 DEF LInv, Reserved
    <3> QED
      BY <3>2, <3>3
  <2> QED
    BY <2>2 DEF Reserved, Refers
<1> QED
  BY <1>1, <1>2, <1>3, CommitReads, CommitRoom, CommitUnits, CommitDebt DEF LInv

-----------------------------------------------------------------------------
(* The steps that are not a clerk's. *)

\* Nothing here depends on a limit, nor on whether a remittance has linked a payment.
LEMMA SameAmounts ==
  ASSUME IInv, LInv, line' = line, debt' = debt, tx' = tx, limit' \in [Customer -> Limit],
         \A p \in Payment : pay'[p].qty = pay[p].qty /\ pay'[p].amount = pay[p].amount
  PROVE  LInv'
<1>1. line' = line /\ debt' = debt /\ tx' = tx
  OBVIOUS
<1>3. \A p \in Payment : pay'[p].qty = pay[p].qty /\ pay'[p].amount = pay[p].amount
  OBVIOUS
<1>4. \A l \in Line : /\ PaymentsOf(l)' = PaymentsOf(l)
                      /\ Live(l)' = Live(l) /\ Total(l)' = Total(l) /\ Collected(l)' = Collected(l)
  <2>1. [p \in Payment |-> pay[p].amount]' = [p \in Payment |-> pay[p].amount]
    BY <1>3
  <2>2. \A l \in Line : PaymentsOf(l)' = PaymentsOf(l)
    BY <1>3 DEF PaymentsOf, Exists
  <2> QED
    BY <1>1, <2>1, <2>2 DEF Live, Total, Collected
<1>5. SizesOK'
  BY <1>1, <1>3 DEF LInv, SizesOK
<1>6. ASSUME NEW k \in Clerk
      PROVE  (TxSizesOK(tx[k]) /\ ReadOK(tx[k]))'
  <2> DEFINE t == tx[k]
  <2>1. t' = t /\ TxSizesOK(t) /\ ReadOK(t) /\ AskOK(t)
    BY <1>1 DEF LInv, IInv
  <2>2. (TxSizesOK(tx[k]) /\ NewLineRead(tx[k]) /\ LineRead(tx[k]))'
    BY <1>1, <2>1 DEF TxSizesOK, ReadOK, NewLineRead, LineRead, Live, Total, AsksOnly
  <2>3. PaymentRead(tx[k])'
    BY <1>1, <1>3, <2>1 DEF ReadOK, AskOK, PaymentRead, Exists, AsksOnly, Ready
  <2>4. DeletionRead(tx[k])'
    <3>1. CASE t.op = "deleteLine"
      <4>1. t.target \in Line
        BY <2>1, <3>1 DEF AskOK
      <4>2. /\ Live(tx[k].target)' = Live(t.target) /\ Total(tx[k].target)' = Total(t.target)
            /\ Collected(tx[k].target)' = Collected(t.target)
        <5>1. \A l \in Line : (line'[l].qty > 0) = Live(l) /\ line'[l].qty * line'[l].price = Total(l)
          BY <1>1 DEF Live, Total
        <5>2. \A l \in Line : SumFunctionOnSet([p \in Payment |-> pay'[p].amount],
                                {p \in Payment : p[1] = l /\ pay'[p].qty + pay'[p].amount > 0}) = Collected(l)
          BY <1>4 DEF Collected, PaymentsOf, Exists
        <5> QED
          BY <1>1, <4>1, <5>1, <5>2 DEF Live, Total, Collected, PaymentsOf, Exists
      <4> QED
        BY <2>1, <4>2 DEF ReadOK, DeletionRead, Ready
    <3> QED
      BY <2>1, <3>1 DEF DeletionRead
  <2>5. (CollectionRead(tx[k]) /\ DebtRead(tx[k]))'
    BY <1>1, <2>1 DEF ReadOK, CollectionRead, DebtRead, Live, Ready
  <2> QED
    BY <2>2, <2>3, <2>4, <2>5 DEF ReadOK
<1>7. Reserved' /\ Room'
  BY <1>1, <1>4 DEF LInv, Reserved, Refers, Room, Collecting, Asked
<1>8. UnitsAddUp'
  <2>1. [p \in Payment |-> pay[p].qty]' = [p \in Payment |-> pay[p].qty]
    BY <1>3
  <2> QED
    BY <1>1, <1>4, <2>1 DEF LInv, UnitsAddUp
<1>9. DebtIsLedgerSum'
  <2>1. [l \in Line |-> Total(l) - Collected(l)]' = [l \in Line |-> Total(l) - Collected(l)]
    BY <1>4
  <2> QED
    BY <1>1, <2>1 DEF LInv, DebtIsLedgerSum
<1> QED
  BY <1>5, <1>6, <1>7, <1>8, <1>9 DEF LInv

LEMMA LimitKeeps ==
  ASSUME IInv, LInv, NEW c \in Customer, NEW n \in Limit, SetLimit(c, n)
  PROVE  LInv'
<1>1. limit' \in [Customer -> Limit] /\ UNCHANGED <<line, pay, debt, tx>>
  BY DEF SetLimit, LInv, SizesOK
<1> QED
  BY <1>1, SameAmounts

LEMMA RemitKeeps ==
  ASSUME IInv, LInv, NEW q \in Payment, Remit(q)
  PROVE  LInv'
<1>1. /\ pay' = [pay EXCEPT ![q].linked = ~@] /\ UNCHANGED <<line, debt, limit, tx>> /\ Exists(q)
  BY DEF Remit
<1>2. pay[q] \in Stored
  BY <1>1 DEF IInv, RowsOK, Exists, NoPay
<1>3. \A p \in Payment : pay'[p].qty = pay[p].qty /\ pay'[p].amount = pay[p].amount
  BY <1>1, <1>2 DEF IInv, RowsOK
<1>4. limit' \in [Customer -> Limit]
  BY <1>1 DEF LInv, SizesOK
<1> QED
  BY <1>1, <1>3, <1>4, SameAmounts

LEMMA StutterKeeps ==
  ASSUME IInv, LInv, UNCHANGED vars
  PROVE  LInv'
<1>1. UNCHANGED <<line, pay, debt, limit, tx>> /\ limit' \in [Customer -> Limit]
  BY DEF vars, LInv, SizesOK
<1> QED
  BY <1>1, SameAmounts

-----------------------------------------------------------------------------
(* The ledger opens empty. *)

LEMMA OpensEmpty ==
  ASSUME Init
  PROVE  LInv
<1>1. /\ \A l \in Line : line[l] = NoLine
      /\ \A p \in Payment : pay[p] = NoPay
      /\ \A k \in Clerk : tx[k] = NoTx
      /\ debt = [c \in Customer |-> 0] /\ limit \in [Customer -> Limit]
  BY DEF Init
<1>2. pay \in [Payment -> PayRow] /\ \A p \in Payment : pay[p].qty = 0 /\ ~(pay[p].qty + pay[p].amount > 0)
  BY DEF Init, NoPay, PayRow
<1>3. ASSUME NEW l \in Line
      PROVE  /\ ~Live(l) /\ Total(l) = 0 /\ line[l].left = 0 /\ line[l].qty = 0 /\ line[l].price = 0
             /\ PaymentsOf(l) = {} /\ Collecting(l) = {}
             /\ AmountSum(pay, l) = 0 /\ QtySum(pay, l) = 0
  <2>1. AmountSum(pay, l) = 0 /\ QtySum(pay, l) = 0
    BY <1>2, RowsGone DEF Slots
  <2>2. ~Live(l) /\ Total(l) = 0 /\ line[l].left = 0 /\ line[l].qty = 0 /\ line[l].price = 0
    BY <1>1 DEF Live, Total, NoLine
  <2>3. PaymentsOf(l) = {}
    BY <1>2 DEF PaymentsOf, Exists
  <2>4. Collecting(l) = {}
    BY <1>1 DEF Collecting, NoTx
  <2> QED
    BY <2>1, <2>2, <2>3, <2>4
<1>4. SizesOK
  BY <1>1, <1>2, <1>3 DEF SizesOK
<1>5. (\A k \in Clerk : TxSizesOK(tx[k]) /\ ReadOK(tx[k])) /\ Reserved
  BY <1>1, NoTxKnows DEF Reserved, NoTx
<1>6. Room
  <2> USE DEF Room
  <2> TAKE l \in Line
  <2>1. Cardinality(PaymentsOf(l)) = 0 /\ Cardinality(Collecting(l)) = 0
    BY <1>3, FS_EmptySet
  <2> QED
    BY <2>1
<1>7. UnitsAddUp
  <2> USE DEF UnitsAddUp
  <2> TAKE l \in Line
  <2>1. SumFunctionOnSet([p \in Payment |-> pay[p].qty], PaymentsOf(l)) = 0
    BY <1>3, SumsOfLine
  <2> QED
    BY <1>3, <2>1
<1>8. DebtIsLedgerSum
  <2> DEFINE w == [l \in Line |-> Total(l) - Collected(l)]
  <2>1. ASSUME NEW l \in Line PROVE w[l] = 0
    <3>1. Total(l) = 0 /\ Collected(l) = 0
      BY <1>3, SumsOfLine
    <3> QED
      BY <3>1
  <2>2. ASSUME NEW c \in Customer
        PROVE  SumFunctionOnSet(w, {l \in Line : Owner[l] = c}) = 0 /\ debt[c] = 0
    <3> DEFINE O == {l \in Line : Owner[l] = c}
    <3>1. O \subseteq Line /\ IsFiniteSet(O)
      BY FS_Subset
    <3> HIDE DEF O, w
    <3>2. SumFunctionOnSet(w, O) = 0
      BY <2>1, <3>1, SumZero
    <3> QED
      BY <1>1, <3>2 DEF O
  <2> QED
    BY <2>2 DEF DebtIsLedgerSum
<1> QED
  BY <1>4, <1>5, <1>6, <1>7, <1>8 DEF LInv

LEMMA LedgerInductive == Spec => [](IInv /\ LInv)
<1>1. IInv /\ LInv /\ [Next]_vars => LInv'
  <2> SUFFICES ASSUME IInv, LInv, [Next]_vars PROVE LInv'
    OBVIOUS
  <2>1. ASSUME NEW k \in Clerk, Step(k) PROVE LInv'
    BY <2>1, LockKeeps, PaymentsLockedKeeps, LockCustomerKeeps, CommitKeeps DEF Step
  <2>2. ASSUME NEW k \in Clerk, Abort(k) \/ Victim(k) PROVE LInv'
    BY <2>2, RefuseKeeps DEF Abort, Victim
  <2>3. CASE UNCHANGED vars
    BY <2>3, StutterKeeps
  <2>4. ASSUME NEW k \in Clerk, NEW l \in Line, NEW q \in 1..MaxQty, NEW price \in Price,
               RequestDebt(k, l, q, price) \/ RequestEditLine(k, l, q, price)
        PROVE  LInv'
    BY <2>4, RequestDebtKeeps, RequestEditLineKeeps
  <2>5. ASSUME NEW k \in Clerk, NEW c \in Customer, NEW L \in (SUBSET Line) \ {{}},
               NEW qty \in [L -> 0..MaxQty], NEW amount \in [L -> Amount],
               RequestCollection(k, c, L, qty, amount)
        PROVE  LInv'
    BY <2>5, RequestCollectionKeeps
  <2>6. ASSUME NEW k \in Clerk, NEW p \in Payment,
               \/ \E q \in 0..MaxQty, a \in Amount : RequestEditPayment(k, p, q, a)
               \/ RequestDeletePayment(k, p)
        PROVE  LInv'
    BY <2>6, RequestPaymentKeeps
  <2>7. ASSUME NEW k \in Clerk, NEW l \in Line, RequestDeleteLine(k, l) PROVE LInv'
    BY <2>7, RequestDeleteLineKeeps
  <2> QED
    BY <2>1, <2>2, <2>3, <2>4, <2>5, <2>6, <2>7, LimitKeeps, RemitKeeps DEF Next
<1> QED
  BY <1>1, OpensEmpty, Inductive, PTL DEF Spec

\* debt_balance, which every request changes by a difference it computed before
\* it held the customer, is the sum of the customer's credit lines less their
\* payments, and never negative, for any number of requests at once.
THEOREM DebtIsTheSum == Spec => []DebtIsLedgerSum
<1>1. LInv => DebtIsLedgerSum
  BY DEF LInv
<1> QED
  BY <1>1, LedgerInductive, PTL

\* What is left to pay on a credit line is what was credited less what its
\* payments paid, and never negative: no container is paid twice.
THEOREM UnitsAddUpAlways == Spec => []UnitsAddUp
<1>1. LInv => UnitsAddUp
  BY DEF LInv
<1> QED
  BY <1>1, LedgerInductive, PTL

\* The rows and the transactions keep their types: a credit line keeps a price
\* of the catalogue or zero, and no collection and no edit leaves a payment that
\* paid neither containers nor money.
THEOREM LedgerTypes == Spec => []TypeOK
<1> SUFFICES ASSUME IInv, LInv PROVE TypeOK
  BY LedgerInductive, PTL
<1>1. line \in [Line -> [qty : 0..MaxQty, left : Int, price : Price \cup {0}]]
  <2>1. \A l \in Line : line[l] \in [qty : 0..MaxQty, left : Int, price : Price \cup {0}]
    <3> TAKE l \in Line
    <3>1. line[l] \in [qty : Nat, left : Int, price : Nat]
      BY DEF IInv, RowsOK
    <3>2. line[l].qty \in 0..MaxQty /\ line[l].price \in Price \cup {0}
      BY DEF LInv, SizesOK
    <3> QED
      BY <3>1, <3>2
  <2> QED
    BY <2>1 DEF IInv, RowsOK
<1>2. pay \in [Payment -> {NoPay} \cup Paid]
  <2>1. \A p \in Payment :
          pay[p] \in {NoPay} \cup Paid
    <3> TAKE p \in Payment
    <3>1. pay[p] = NoPay \/ pay[p] \in Stored
      BY DEF IInv, RowsOK
    <3>2. pay[p].qty \in 0..MaxQty
      BY DEF LInv, SizesOK
    <3> QED
      BY <3>1, <3>2 DEF Paid
  <2> QED
    BY <2>1 DEF IInv, RowsOK
<1>3. debt \in [Customer -> Int] /\ limit \in [Customer -> Limit]
  BY DEF LInv, SizesOK
<1>4. tx \in [Clerk -> Tx]
  <2>1. \A k \in Clerk : tx[k] \in Tx
    <3> TAKE k \in Clerk
    <3>1. AskOK(tx[k]) /\ TxSizesOK(tx[k])
      BY DEF IInv, LInv
    <3> QED
      BY <3>1 DEF AskOK, TxSizesOK, Fields, Tx
  <2> QED
    BY <2>1 DEF IInv, RowsOK
<1> QED
  BY <1>1, <1>2, <1>3, <1>4 DEF TypeOK
=============================================================================
