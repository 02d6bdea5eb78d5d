-------------------------- MODULE DirectoryProofs ---------------------------
(***************************************************************************)
(* The ledger of the customers and its pages (Directory), for any number   *)
(* of customers, requests, rows and days.  The counters of a customer are  *)
(* sums over its rows in every state, also between the requests that have  *)
(* checked and those that write; with it the pages agree on what is owed,  *)
(* and on who is overdue up to a day.                                      *)
(***************************************************************************)
EXTENDS Directory, Sums, TLAPS

LEMMA Finite ==
  /\ IsFiniteSet(Customer) /\ IsFiniteSet(Line) /\ IsFiniteSet(Loan) /\ IsFiniteSet(Payment)
  /\ None \notin LineRow /\ None \notin LoanRow /\ None \notin PaymentRow /\ None \notin Day
BY DirectoryAssumption

LEMMA Numbers ==
  /\ \A x \in Price : x \in Nat
  /\ \A x \in Amount : x \in Nat
  /\ LastDay \in Nat /\ RemitDay \subseteq Day /\ Threshold \in Nat
  /\ \A d \in Day : d \in Nat /\ d # Never
  /\ 0 \in Day
BY DirectoryAssumption DEF Day, Never

-----------------------------------------------------------------------------
(***************************************************************************)
(* The invariant: what the rows amount to, and to whom they belong.        *)
(***************************************************************************)
\* the money and the units of each payment of a line
MoneyOn(P, l) == [p \in Payment |-> IF P[p] # None /\ P[p].line = l THEN P[p].money ELSE 0]
UnitsOn(P, l) == [p \in Payment |-> IF P[p] # None /\ P[p].line = l THEN P[p].units ELSE 0]
PaidMoney(P, l) == SumFunctionOnSet(MoneyOn(P, l), Payment)
PaidUnits(P, l) == SumFunctionOnSet(UnitsOn(P, l), Payment)

\* what a line adds to the debt of its customer, and what a customer owes in all
Rest(L, P, l) == IF L[l] = None THEN 0 ELSE L[l].price - PaidMoney(P, l)
Owes(L, P, c) ==
  [l \in Line |-> IF L[l] # None /\ L[l].who = c THEN L[l].price - PaidMoney(P, l) ELSE 0]
Owed(L, P, c) == SumFunctionOnSet(Owes(L, P, c), Line)

\* what a loan adds to the counters, and what a customer has borrowed in all
Out(B, b) == IF B[b] = None THEN 0 ELSE B[b].out
Holds(B, c) == [b \in Loan |-> IF B[b] # None /\ B[b].who = c THEN B[b].out ELSE 0]
Held(B, c) == SumFunctionOnSet(Holds(B, c), Loan)

\* a payment has a line, and whoever has a line was given credit on some day
OwnersOK ==
  /\ \A p \in Payments : line[pay[p].line] # None
  /\ \A l \in Lines : last[line[l].who] # Never
  /\ \A c \in Customer : debt[c] > 0 => last[c] # Never
  /\ \A c \in Customer : state[c] = "none" => debt[c] = 0
  /\ \A k \in Request : req[k].pc # "idle" => state[req[k].who] # "none"

SumsOK ==
  /\ \A l \in Lines : line[l].left = 1 - PaidUnits(pay, l)
  /\ \A c \in Customer : debt[c] = Owed(line, pay, c) /\ borrowed[c] = Held(loan, c)

IInv == DirectoryTypeOK /\ OwnersOK /\ SumsOK

LineRows == [Line -> LineRow \cup {None}]
LoanRows == [Loan -> LoanRow \cup {None}]
PaymentRows == [Payment -> PaymentRow \cup {None}]

LEMMA RowsAre ==
  ASSUME DirectoryTypeOK
  PROVE  /\ \A l \in Lines : l \in Line /\ line[l] \in LineRow
         /\ \A b \in Loans : b \in Loan /\ loan[b] \in LoanRow
         /\ \A p \in Payments : p \in Payment /\ pay[p] \in PaymentRow
BY DEF DirectoryTypeOK, Lines, Loans, Payments

-----------------------------------------------------------------------------
(* The sums over the payments of a line. *)

LEMMA PaidTypes ==
  ASSUME NEW P \in PaymentRows, NEW l
  PROVE  /\ \A p \in Payment : MoneyOn(P, l)[p] \in Nat /\ UnitsOn(P, l)[p] \in Nat
         /\ PaidMoney(P, l) \in Nat /\ PaidUnits(P, l) \in Nat
<1>1. ASSUME NEW p \in Payment PROVE MoneyOn(P, l)[p] \in Nat /\ UnitsOn(P, l)[p] \in Nat
  <2>1. P[p] # None => P[p] \in PaymentRow
    BY DEF PaymentRows
  <2>2. P[p] # None => P[p].money \in Nat /\ P[p].units \in Nat
    BY <2>1 DEF PaymentRow
  <2> QED
    BY <2>2 DEF MoneyOn, UnitsOn
<1>2. PaidMoney(P, l) \in Nat /\ PaidUnits(P, l) \in Nat
  BY <1>1, Finite, SumNat DEF PaidMoney, PaidUnits
<1> QED
  BY <1>1, <1>2

\* One payment is written, and it is of the line l before and after.
LEMMA OnePaid ==
  ASSUME NEW P \in PaymentRows, NEW Q \in PaymentRows, NEW l, NEW p \in Payment,
         \A x \in Payment \ {p} : Q[x] = P[x],
         P[p] # None => P[p].line = l, Q[p] # None => Q[p].line = l
  PROVE  /\ PaidMoney(Q, l) = PaidMoney(P, l) + (MoneyOn(Q, l)[p] - MoneyOn(P, l)[p])
         /\ PaidUnits(Q, l) = PaidUnits(P, l) + (UnitsOn(Q, l)[p] - UnitsOn(P, l)[p])
<1>1. \A x \in Payment : /\ MoneyOn(P, l)[x] \in Int /\ MoneyOn(Q, l)[x] \in Int
                         /\ UnitsOn(P, l)[x] \in Int /\ UnitsOn(Q, l)[x] \in Int
  BY PaidTypes
<1>2. \A x \in Payment \ {p} : /\ MoneyOn(P, l)[x] = MoneyOn(Q, l)[x]
                               /\ UnitsOn(P, l)[x] = UnitsOn(Q, l)[x]
  BY DEF MoneyOn, UnitsOn
<1> QED
  BY <1>1, <1>2, Finite, SumChange DEF PaidMoney, PaidUnits

\* What is paid for a line depends on line, units and money of the payments only.
LEMMA SamePaid ==
  ASSUME NEW P \in PaymentRows, NEW Q \in PaymentRows, NEW l,
         \A p \in Payment :
           /\ P[p] # None /\ P[p].line = l <=> Q[p] # None /\ Q[p].line = l
           /\ P[p] # None /\ P[p].line = l => P[p].money = Q[p].money /\ P[p].units = Q[p].units
  PROVE  PaidMoney(Q, l) = PaidMoney(P, l) /\ PaidUnits(Q, l) = PaidUnits(P, l)
<1>1. \A p \in Payment : /\ MoneyOn(Q, l)[p] = MoneyOn(P, l)[p]
                         /\ UnitsOn(Q, l)[p] = UnitsOn(P, l)[p]
  BY DEF MoneyOn, UnitsOn
<1> QED
  BY <1>1, Finite, SumSame DEF PaidMoney, PaidUnits

\* A line without payments is paid nothing.
LEMMA NonePaid ==
  ASSUME NEW P, NEW l, \A p \in Payment : P[p] # None => P[p].line # l
  PROVE  PaidMoney(P, l) = 0 /\ PaidUnits(P, l) = 0
<1>1. \A p \in Payment : MoneyOn(P, l)[p] = 0 /\ UnitsOn(P, l)[p] = 0
  BY DEF MoneyOn, UnitsOn
<1> QED
  BY <1>1, Finite, SumZero DEF PaidMoney, PaidUnits

\* The server adds up the payments of a line to know what was collected.
LEMMA CollectedIsPaid ==
  ASSUME DirectoryTypeOK, NEW l
  PROVE  Collected(l) = PaidMoney(pay, l)
<1> DEFINE S == PaymentsOf(l)
           f == [p \in S |-> pay[p].money]
<1>1. S \in SUBSET Payment /\ IsFiniteSet(S)
  BY Finite, FS_Subset DEF PaymentsOf, Payments
<1>2. /\ \A p \in Payment : MoneyOn(pay, l)[p] \in Int
      /\ \A p \in Payment \ S : MoneyOn(pay, l)[p] = 0
      /\ \A p \in S : f[p] = MoneyOn(pay, l)[p]
  <2>1. pay \in PaymentRows
    BY DEF DirectoryTypeOK, PaymentRows
  <2> QED
    BY <2>1, PaidTypes DEF MoneyOn, PaymentsOf, Payments
<1>3. Collected(l) = SumFunctionOnSet(f, S)
  BY DEF Collected
<1> HIDE DEF S, f
<1>4. SumFunctionOnSet(f, S) = SumFunctionOnSet(MoneyOn(pay, l), S)
  BY <1>1, <1>2, SumSame
<1>5. SumFunctionOnSet(MoneyOn(pay, l), Payment) = SumFunctionOnSet(MoneyOn(pay, l), S)
  BY <1>1, <1>2, Finite, SumOfPart
<1> QED
  BY <1>3, <1>4, <1>5 DEF PaidMoney

-----------------------------------------------------------------------------
(* The sums over the rows of a customer. *)

LEMMA OwesTypes ==
  ASSUME NEW L \in LineRows, NEW P \in PaymentRows, NEW c
  PROVE  /\ \A l \in Line : Rest(L, P, l) \in Int /\ Owes(L, P, c)[l] \in Int
         /\ Owed(L, P, c) \in Int
<1>1. ASSUME NEW l \in Line PROVE Rest(L, P, l) \in Int /\ Owes(L, P, c)[l] \in Int
  <2>1. L[l] # None => L[l].price \in Nat
    BY Numbers DEF LineRows, LineRow
  <2>2. PaidMoney(P, l) \in Nat
    BY PaidTypes
  <2> QED
    BY <2>1, <2>2 DEF Rest, Owes
<1> QED
  BY <1>1, Finite, SumType DEF Owed

\* One line, of the customer c before and after, or its payments are written.
LEMMA OneLine ==
  ASSUME NEW L \in LineRows, NEW M \in LineRows, NEW P \in PaymentRows, NEW Q \in PaymentRows,
         NEW c, NEW l \in Line,
         \A m \in Line \ {l} : M[m] = L[m] /\ PaidMoney(Q, m) = PaidMoney(P, m),
         L[l] # None => L[l].who = c, M[l] # None => M[l].who = c, NEW d
  PROVE  Owed(M, Q, d) = Owed(L, P, d) + (IF d = c THEN Rest(M, Q, l) - Rest(L, P, l) ELSE 0)
<1>1. /\ \A m \in Line : Owes(L, P, d)[m] \in Int /\ Owes(M, Q, d)[m] \in Int
      /\ \A m \in Line \ {l} : Owes(L, P, d)[m] = Owes(M, Q, d)[m]
  BY OwesTypes DEF Owes
<1>2. Owed(M, Q, d) = Owed(L, P, d) + (Owes(M, Q, d)[l] - Owes(L, P, d)[l])
  BY <1>1, Finite, SumChange DEF Owed
<1>3. /\ Owes(L, P, d)[l] = IF d = c THEN Rest(L, P, l) ELSE 0
      /\ Owes(M, Q, d)[l] = IF d = c THEN Rest(M, Q, l) ELSE 0
  BY DEF Owes, Rest
<1>4. Rest(L, P, l) \in Int /\ Rest(M, Q, l) \in Int /\ Owed(L, P, d) \in Int
  BY OwesTypes
<1> QED
  BY <1>2, <1>3, <1>4

LEMMA HoldsTypes ==
  ASSUME NEW B \in LoanRows, NEW c
  PROVE  /\ \A b \in Loan : Out(B, b) \in Nat /\ Holds(B, c)[b] \in Nat
         /\ Held(B, c) \in Nat
<1>1. ASSUME NEW b \in Loan PROVE Out(B, b) \in Nat /\ Holds(B, c)[b] \in Nat
  <2>1. B[b] # None => B[b].out \in Nat
    BY DEF LoanRows, LoanRow
  <2> QED
    BY <2>1 DEF Out, Holds
<1> QED
  BY <1>1, Finite, SumNat DEF Held

\* One loan, of the customer c before and after, is written.
LEMMA OneLoan ==
  ASSUME NEW B \in LoanRows, NEW D \in LoanRows, NEW c, NEW b \in Loan,
         \A x \in Loan \ {b} : D[x] = B[x],
         B[b] # None => B[b].who = c, D[b] # None => D[b].who = c, NEW d
  PROVE  Held(D, d) = Held(B, d) + (IF d = c THEN Out(D, b) - Out(B, b) ELSE 0)
<1>1. /\ \A x \in Loan : Holds(B, d)[x] \in Int /\ Holds(D, d)[x] \in Int
      /\ \A x \in Loan \ {b} : Holds(B, d)[x] = Holds(D, d)[x]
  BY HoldsTypes DEF Holds
<1>2. Held(D, d) = Held(B, d) + (Holds(D, d)[b] - Holds(B, d)[b])
  BY <1>1, Finite, SumChange DEF Held
<1>3. /\ Holds(B, d)[b] = IF d = c THEN Out(B, b) ELSE 0
      /\ Holds(D, d)[b] = IF d = c THEN Out(D, b) ELSE 0
  BY DEF Holds, Out
<1>4. Out(B, b) \in Int /\ Out(D, b) \in Int /\ Held(B, d) \in Int
  BY HoldsTypes
<1> QED
  BY <1>2, <1>3, <1>4

-----------------------------------------------------------------------------
(* Steps in terms of the invariant. *)

\* A service that has found c writes the counters of c, and has no more to do.
LEMMA CountIs ==
  ASSUME IInv, NEW k \in Request, NEW c \in Customer, NEW owed \in Int, NEW lent \in Int,
         Count(k, c, owed, lent)
  PROVE  /\ debt' \in [Customer -> Nat] /\ borrowed' \in [Customer -> Nat]
         /\ \A d \in Customer : /\ debt'[d] = debt[d] + (IF d = c THEN owed ELSE 0)
                                /\ borrowed'[d] = borrowed[d] + (IF d = c THEN lent ELSE 0)
         /\ req' \in [Request -> [pc : {"idle", "act", "leave"}, who : Customer]]
         /\ \A j \in Request : req'[j].pc # "idle" => req'[j] = req[j]
         /\ UNCHANGED <<state, today, final>> /\ state[c] # "none"
<1>1. /\ debt \in [Customer -> Nat] /\ borrowed \in [Customer -> Nat]
      /\ req \in [Request -> [pc : {"idle", "act", "leave"}, who : Customer]]
  BY DEF IInv, DirectoryTypeOK
<1>2. /\ req[k].pc = "act" /\ req[k].who = c
      /\ debt[c] + owed >= 0 /\ borrowed[c] + lent >= 0
      /\ debt' = [debt EXCEPT ![c] = @ + owed]
      /\ borrowed' = [borrowed EXCEPT ![c] = @ + lent]
      /\ req' = [req EXCEPT ![k] = [pc |-> "idle", who |-> c]]
      /\ UNCHANGED <<state, today, final>>
  BY DEF Count, Goto
<1>3. debt[c] + owed \in Nat /\ borrowed[c] + lent \in Nat
  BY <1>1, <1>2
<1>4. debt' \in [Customer -> Nat] /\ borrowed' \in [Customer -> Nat]
  BY <1>1, <1>2, <1>3
<1>5. \A d \in Customer : /\ debt'[d] = debt[d] + (IF d = c THEN owed ELSE 0)
                          /\ borrowed'[d] = borrowed[d] + (IF d = c THEN lent ELSE 0)
  BY <1>1, <1>2
<1>6. /\ req' \in [Request -> [pc : {"idle", "act", "leave"}, who : Customer]]
      /\ \A j \in Request : req'[j].pc # "idle" => req'[j] = req[j]
  BY <1>1, <1>2
<1>7. state[c] # "none"
  BY <1>2 DEF IInv, OwnersOK
<1> QED
  BY <1>2, <1>4, <1>5, <1>6, <1>7

\* A service writes one credit line of c, or payments of it, and the debt of c
\* by what the line has become.
LEMMA LineMoves ==
  ASSUME IInv, NEW k \in Request, NEW c \in Customer, NEW l \in Line, NEW owed \in Int,
         Count(k, c, owed, 0), UNCHANGED loan,
         line' \in LineRows, \A m \in Line \ {l} : line'[m] = line[m],
         line[l] # None => line[l].who = c, line'[l] # None => line'[l].who = c,
         pay' \in PaymentRows,
         \A p \in Payment : pay'[p] # pay[p] => /\ pay[p] # None => pay[p].line = l
                                                /\ pay'[p] # None => pay'[p].line = l,
         line'[l] = None => \A p \in Payment : pay'[p] # None => pay'[p].line # l,
         last' \in [Customer -> Day \cup {Never}],
         \A d \in Customer \ {c} : last'[d] = last[d], last'[c] # Never,
         line'[l] # None => line'[l].left = 1 - PaidUnits(pay', l),
         Rest(line', pay', l) = Rest(line, pay, l) + owed
  PROVE  IInv'
<1>0. DirectoryTypeOK /\ OwnersOK /\ SumsOK
  BY DEF IInv
<1>1. /\ debt' \in [Customer -> Nat] /\ borrowed' \in [Customer -> Nat]
      /\ \A d \in Customer : /\ debt'[d] = debt[d] + (IF d = c THEN owed ELSE 0)
                             /\ borrowed'[d] = borrowed[d]
      /\ req' \in [Request -> [pc : {"idle", "act", "leave"}, who : Customer]]
      /\ \A j \in Request : req'[j].pc # "idle" => req'[j] = req[j]
      /\ UNCHANGED <<state, today, final>> /\ state[c] # "none"
  <2>1. \A d \in Customer : borrowed[d] + (IF d = c THEN 0 ELSE 0) = borrowed[d]
    BY <1>0 DEF DirectoryTypeOK
  <2> QED
    BY <2>1, CountIs
<1>2. DirectoryTypeOK'
  BY <1>0, <1>1 DEF DirectoryTypeOK, LineRows, PaymentRows
<1>3. /\ line \in LineRows /\ pay \in PaymentRows
      /\ \A d \in Customer : debt[d] \in Nat
  BY <1>0 DEF DirectoryTypeOK, LineRows, PaymentRows
<1>4. OwnersOK'
  <2>1. \A p \in Payments' : line'[pay'[p].line] # None
    <3> SUFFICES ASSUME NEW p \in Payment, pay'[p] # None PROVE line'[pay'[p].line] # None
      BY DEF Payments
    <3>1. CASE pay'[p].line = l
      BY <3>1
    <3>2. CASE pay'[p].line # l
      <4>1. pay'[p] = pay[p]
        BY <3>2
      <4>2. line[pay[p].line] # None /\ pay[p].line \in Line
        BY <4>1, <1>0, RowsAre DEF OwnersOK, Payments, PaymentRow
      <4> QED
        BY <3>2, <4>1, <4>2
    <3> QED
      BY <3>1, <3>2
  <2>2. \A m \in Lines' : last'[line'[m].who] # Never
    <3> SUFFICES ASSUME NEW m \in Line, line'[m] # None PROVE last'[line'[m].who] # Never
      BY DEF Lines
    <3>1. CASE m = l
      BY <3>1
    <3>2. CASE m # l
      <4>1. line[m] # None /\ line'[m] = line[m]
        BY <3>2
      <4>2. last[line[m].who] # Never /\ line[m].who \in Customer
        BY <4>1, <1>0, RowsAre DEF OwnersOK, Lines, LineRow
      <4> QED
        BY <4>1, <4>2
    <3> QED
      BY <3>1, <3>2
  <2>3. \A d \in Customer : debt'[d] > 0 => last'[d] # Never
    <3> TAKE d \in Customer
    <3>1. CASE d = c
      BY <3>1
    <3>2. CASE d # c
      BY <3>2, <1>0, <1>1, <1>3 DEF OwnersOK
    <3> QED
      BY <3>1, <3>2
  <2>4. \A d \in Customer : state'[d] = "none" => debt'[d] = 0
    BY <1>0, <1>1, <1>3 DEF OwnersOK
  <2>5. \A j \in Request : req'[j].pc # "idle" => state'[req'[j].who] # "none"
    BY <1>0, <1>1 DEF OwnersOK
  <2> QED
    BY <2>1, <2>2, <2>3, <2>4, <2>5 DEF OwnersOK
<1>5. \A m \in Line \ {l} : /\ PaidMoney(pay', m) = PaidMoney(pay, m)
                            /\ PaidUnits(pay', m) = PaidUnits(pay, m)
  <2> TAKE m \in Line \ {l}
  <2>1. \A p \in Payment :
          /\ pay[p] # None /\ pay[p].line = m <=> pay'[p] # None /\ pay'[p].line = m
          /\ pay[p] # None /\ pay[p].line = m =>
               pay[p].money = pay'[p].money /\ pay[p].units = pay'[p].units
    OBVIOUS
  <2> QED
    BY <2>1, <1>3, SamePaid
<1>6. \A m \in Lines' : line'[m].left = 1 - PaidUnits(pay', m)
  <2> SUFFICES ASSUME NEW m \in Line, line'[m] # None
               PROVE  line'[m].left = 1 - PaidUnits(pay', m)
    BY DEF Lines
  <2>1. CASE m = l
    BY <2>1
  <2>2. CASE m # l
    BY <2>2, <1>0, <1>5 DEF SumsOK, Lines
  <2> QED
    BY <2>1, <2>2
<1>7. \A d \in Customer : debt'[d] = Owed(line', pay', d)
  <2> TAKE d \in Customer
  <2>1. Owed(line', pay', d)
          = Owed(line, pay, d) + (IF d = c THEN Rest(line', pay', l) - Rest(line, pay, l) ELSE 0)
    BY <1>3, <1>5, OneLine
  <2>2. Rest(line, pay, l) \in Int
    BY <1>3, OwesTypes
  <2>3. debt[d] = Owed(line, pay, d)
    BY <1>0 DEF SumsOK
  <2> QED
    BY <1>1, <2>1, <2>2, <2>3
<1>8. SumsOK'
  <2>1. \A d \in Customer : borrowed'[d] = Held(loan', d)
    BY <1>0, <1>1 DEF SumsOK
  <2> QED
    BY <1>6, <1>7, <2>1 DEF SumsOK
<1> QED
  BY <1>2, <1>4, <1>8 DEF IInv

\* A service writes one loan of c, and the counters of c by what it has become.
LEMMA LoanMoves ==
  ASSUME IInv, NEW k \in Request, NEW c \in Customer, NEW b \in Loan, NEW lent \in Int,
         Count(k, c, 0, lent), UNCHANGED <<last, line, pay>>,
         loan' \in LoanRows, \A x \in Loan \ {b} : loan'[x] = loan[x],
         loan[b] # None => loan[b].who = c, loan'[b] # None => loan'[b].who = c,
         Out(loan', b) = Out(loan, b) + lent
  PROVE  IInv'
<1>0. DirectoryTypeOK /\ OwnersOK /\ SumsOK
  BY DEF IInv
<1>1. /\ debt' \in [Customer -> Nat] /\ borrowed' \in [Customer -> Nat]
      /\ \A d \in Customer : /\ debt'[d] = debt[d]
                             /\ borrowed'[d] = borrowed[d] + (IF d = c THEN lent ELSE 0)
      /\ req' \in [Request -> [pc : {"idle", "act", "leave"}, who : Customer]]
      /\ \A j \in Request : req'[j].pc # "idle" => req'[j] = req[j]
      /\ UNCHANGED <<state, today, final>> /\ state[c] # "none"
  <2>1. \A d \in Customer : debt[d] + (IF d = c THEN 0 ELSE 0) = debt[d]
    BY <1>0 DEF DirectoryTypeOK
  <2> QED
    BY <2>1, CountIs
<1>2. DirectoryTypeOK'
  BY <1>0, <1>1 DEF DirectoryTypeOK, LoanRows
<1>3. OwnersOK'
  BY <1>0, <1>1 DEF OwnersOK, Payments, Lines
<1>4. \A d \in Customer : borrowed'[d] = Held(loan', d)
  <2> TAKE d \in Customer
  <2>1. loan \in LoanRows
    BY <1>0 DEF DirectoryTypeOK, LoanRows
  <2> DEFINE D == loan'
  <2>5. /\ D \in LoanRows /\ \A x \in Loan \ {b} : D[x] = loan[x]
        /\ D[b] # None => D[b].who = c
    OBVIOUS
  <2> HIDE DEF D
  <2>2. Held(D, d) = Held(loan, d) + (IF d = c THEN Out(D, b) - Out(loan, b) ELSE 0)
    BY <2>1, <2>5, OneLoan
  <2>3. Out(loan, b) \in Int
    BY <2>1, HoldsTypes
  <2>4. borrowed[d] = Held(loan, d)
    BY <1>0 DEF SumsOK
  <2> QED
    BY <1>1, <2>2, <2>3, <2>4 DEF D
<1>5. SumsOK'
  BY <1>0, <1>1, <1>4 DEF SumsOK, Lines
<1> QED
  BY <1>2, <1>3, <1>5 DEF IInv

\* Steps that leave the ledger as it is.
LEMMA CustomerMoves ==
  ASSUME IInv, KeepLedger,
         state' \in [Customer -> {"none", "active", "deleted"}],
         req' \in [Request -> [pc : {"idle", "act", "leave"}, who : Customer]],
         \A c \in Customer : state[c] # "none" => state'[c] # "none",
         \A j \in Request : req'[j].pc # "idle" => req'[j] = req[j] \/ state'[req'[j].who] # "none"
  PROVE  IInv'
<1>0. DirectoryTypeOK /\ OwnersOK /\ SumsOK
  BY DEF IInv
<1>1. UNCHANGED <<debt, borrowed, last, line, loan, pay, today, final>>
  BY DEF KeepLedger
<1>2. DirectoryTypeOK'
  BY <1>0, <1>1 DEF DirectoryTypeOK
<1>3. OwnersOK'
  <2>1. \A j \in Request : req[j].who \in Customer
    BY <1>0 DEF DirectoryTypeOK
  <2>2. \A c \in Customer : state'[c] = "none" => state[c] = "none"
    OBVIOUS
  <2> QED
    BY <1>0, <1>1, <2>1, <2>2 DEF OwnersOK, Payments, Lines
<1>4. SumsOK'
  BY <1>0, <1>1 DEF SumsOK, Lines
<1> QED
  BY <1>2, <1>3, <1>4 DEF IInv

\* Midnight, and the links of remittances, change neither whose a row is nor what
\* it amounts to.
SameRows ==
  /\ line' \in LineRows /\ loan' \in LoanRows /\ pay' \in PaymentRows
  /\ \A l \in Line : /\ line'[l] = None <=> line[l] = None
                     /\ line[l] # None => /\ line'[l].who = line[l].who
                                          /\ line'[l].price = line[l].price
                                          /\ line'[l].left = line[l].left
  /\ \A b \in Loan : /\ loan'[b] = None <=> loan[b] = None
                     /\ loan[b] # None => loan'[b].who = loan[b].who /\ loan'[b].out = loan[b].out
  /\ \A p \in Payment : /\ pay'[p] = None <=> pay[p] = None
                        /\ pay[p] # None => /\ pay'[p].line = pay[p].line
                                            /\ pay'[p].money = pay[p].money
                                            /\ pay'[p].units = pay[p].units

LEMMA DayMoves ==
  ASSUME IInv, SameRows, UNCHANGED <<state, debt, borrowed, last, req>>,
         today' \in Day, final' \subseteq RemitDay
  PROVE  IInv'
<1>0. DirectoryTypeOK /\ OwnersOK /\ SumsOK
  BY DEF IInv
<1>1. DirectoryTypeOK'
  BY <1>0 DEF DirectoryTypeOK, SameRows, LineRows, LoanRows, PaymentRows
<1>2. OwnersOK'
  <2>1. \A p \in Payments : pay[p].line \in Line
    BY <1>0, RowsAre DEF PaymentRow
  <2> QED
    BY <1>0, <2>1 DEF OwnersOK, SameRows, Payments, Lines
<1>3. line \in LineRows /\ loan \in LoanRows /\ pay \in PaymentRows
  BY <1>0 DEF DirectoryTypeOK, LineRows, LoanRows, PaymentRows
<1>4. \A l \in Line : /\ PaidMoney(pay', l) = PaidMoney(pay, l)
                      /\ PaidUnits(pay', l) = PaidUnits(pay, l)
  <2> TAKE l \in Line
  <2>1. \A p \in Payment :
          /\ pay[p] # None /\ pay[p].line = l <=> pay'[p] # None /\ pay'[p].line = l
          /\ pay[p] # None /\ pay[p].line = l =>
               pay[p].money = pay'[p].money /\ pay[p].units = pay'[p].units
    BY DEF SameRows
  <2> QED
    BY <2>1, <1>3, SamePaid DEF SameRows
<1>5. \A c \in Customer : Owed(line', pay', c) = Owed(line, pay, c)
  <2> TAKE c \in Customer
  <2>1. \A l \in Line : Owes(line', pay', c)[l] = Owes(line, pay, c)[l]
    BY <1>4 DEF Owes, SameRows
  <2> QED
    BY <2>1, Finite, SumSame DEF Owed
<1>6. \A c \in Customer : Held(loan', c) = Held(loan, c)
  <2> TAKE c \in Customer
  <2>1. \A b \in Loan : Holds(loan', c)[b] = Holds(loan, c)[b]
    BY DEF Holds, SameRows
  <2> QED
    BY <2>1, Finite, SumSame DEF Held
<1>7. \A l \in Lines' : line'[l].left = 1 - PaidUnits(pay', l)
  BY <1>0, <1>4 DEF SumsOK, SameRows, Lines
<1>8. SumsOK'
  BY <1>0, <1>5, <1>6, <1>7 DEF SumsOK
<1> QED
  BY <1>1, <1>2, <1>8 DEF IInv

-----------------------------------------------------------------------------
(* The services that write loans. *)

\* A row takes the place of another, and the counter follows.
LEMMA LoanBecomes ==
  ASSUME IInv, NEW k \in Request, NEW c \in Customer, NEW b \in Loan,
         NEW r \in LoanRow \cup {None}, loan' = [loan EXCEPT ![b] = r], r # None => r.who = c,
         loan[b] # None => loan[b].who = c, UNCHANGED <<last, line, pay>>,
         NEW lent \in Int, Count(k, c, 0, lent),
         lent = (IF r = None THEN 0 ELSE r.out) - (IF loan[b] = None THEN 0 ELSE loan[b].out)
  PROVE  IInv'
<1>1. loan \in LoanRows
  BY DEF IInv, DirectoryTypeOK, LoanRows
<1>2. /\ loan' \in LoanRows /\ loan'[b] = r
      /\ \A x \in Loan \ {b} : loan'[x] = loan[x]
  BY <1>1 DEF LoanRows
<1>3. Out(loan, b) \in Int /\ Out(loan', b) \in Int
  BY <1>1, <1>2, HoldsTypes
<1>4. Out(loan', b) = Out(loan, b) + lent
  BY <1>2, <1>3 DEF Out
<1> QED
  BY <1>2, <1>4, LoanMoves

LEMMA LoanSteps ==
  ASSUME IInv, NEW k \in Request, NEW c \in Customer, NEW b \in Loan,
         \/ Return(k, c, b) \/ DeleteLoan(k, c, b)
         \/ \E d \in Day : \/ Lend(k, c, b, d)
                           \/ \E out \in 0..1, admin \in BOOLEAN : EditLoan(k, c, b, d, out, admin)
  PROVE  IInv'
<1>1. loan \in LoanRows /\ (b \in LoansOf(c) => loan[b] \in LoanRow /\ loan[b].who = c)
  BY RowsAre DEF IInv, DirectoryTypeOK, LoanRows, LoansOf
<1>3. ASSUME b \in LoansOf(c) PROVE loan[b] # None /\ loan[b].out \in 0..1
  BY <1>1, <1>3 DEF LoansOf, Loans, LoanRow
<1>4. CASE Return(k, c, b)
  <2> DEFINE r == [loan[b] EXCEPT !.out = 0]
  <2>1. b \in LoansOf(c) /\ loan[b].out = 1 /\ Count(k, c, 0, -1)
        /\ loan' = [loan EXCEPT ![b] = r] /\ UNCHANGED <<last, line, pay>>
    BY <1>4 DEF Return
  <2>2. r \in LoanRow /\ r.who = c /\ r.out = 0
    BY <1>1, <2>1 DEF LoanRow
  <2>3. r # None /\ -1 = r.out - loan[b].out /\ -1 \in Int
    BY <2>1, <2>2, Finite
  <2> HIDE DEF r
  <2> QED
    BY <1>1, <1>3, <2>1, <2>2, <2>3, LoanBecomes
<1>5. CASE DeleteLoan(k, c, b)
  <2>1. b \in LoansOf(c) /\ Count(k, c, 0, -loan[b].out)
        /\ loan' = [loan EXCEPT ![b] = None] /\ UNCHANGED <<last, line, pay>>
    BY <1>5 DEF DeleteLoan
  <2>2. -loan[b].out = 0 - loan[b].out /\ -loan[b].out \in Int
    BY <1>3, <2>1
  <2> QED
    BY <1>1, <1>3, <2>1, <2>2, LoanBecomes
<1>6. ASSUME NEW d \in Day, Lend(k, c, b, d) PROVE IInv'
  <2> DEFINE r == [who |-> c, day |-> d, fresh |-> TRUE, out |-> 1]
  <2>1. loan[b] = None /\ Count(k, c, 0, 1)
        /\ loan' = [loan EXCEPT ![b] = r] /\ UNCHANGED <<last, line, pay>>
    BY <1>6 DEF Lend
  <2>2. r \in LoanRow /\ r.who = c /\ r.out = 1
    BY DEF LoanRow
  <2> HIDE DEF r
  <2>3. r # None
    BY <2>2, Finite
  <2> DEFINE lent == 1
  <2>4. /\ lent = (IF r = None THEN 0 ELSE r.out) - (IF loan[b] = None THEN 0 ELSE loan[b].out)
        /\ lent \in Int /\ Count(k, c, 0, lent)
    BY <2>1, <2>2, <2>3
  <2> HIDE DEF lent
  <2> QED
    BY <2>1, <2>2, <2>4, LoanBecomes
<1>7. ASSUME NEW d \in Day, NEW out \in 0..1, NEW admin \in BOOLEAN, EditLoan(k, c, b, d, out, admin)
      PROVE  IInv'
  <2> DEFINE r == [loan[b] EXCEPT !.day = d, !.out = out]
  <2>1. b \in LoansOf(c) /\ Count(k, c, 0, out - loan[b].out)
        /\ loan' = [loan EXCEPT ![b].day = d, ![b].out = out] /\ UNCHANGED <<last, line, pay>>
    BY <1>7 DEF EditLoan
  <2>3. loan' = [loan EXCEPT ![b] = r]
    BY <1>1, <2>1 DEF LoanRows
  <2>2. r \in LoanRow /\ r.who = c /\ r.out = out
    BY <1>1, <2>1 DEF LoanRow
  <2> DEFINE lent == out - loan[b].out
  <2>4. r # None /\ lent = r.out - loan[b].out /\ lent \in Int /\ Count(k, c, 0, lent)
    BY <1>3, <2>1, <2>2, Finite
  <2> HIDE DEF r, lent
  <2> QED
    BY <1>1, <1>3, <2>1, <2>2, <2>3, <2>4, LoanBecomes
<1> QED
  BY <1>4, <1>5, <1>6, <1>7

-----------------------------------------------------------------------------
(* The services that write lines and payments. *)

LEMMA LinesOwner ==
  ASSUME IInv, NEW c \in Customer, NEW l \in Line
  PROVE  /\ line \in LineRows /\ pay \in PaymentRows
         /\ line[l] # None => /\ line[l] \in LineRow /\ line[l].price \in Nat
                              /\ line[l].left \in 0..1 /\ line[l].left = 1 - PaidUnits(pay, l)
         /\ l \in LinesOf(c) => line[l] # None /\ line[l].who = c /\ last[c] # Never
         /\ last \in [Customer -> Day \cup {Never}]
         /\ PaidMoney(pay, l) \in Nat /\ PaidUnits(pay, l) \in Nat
<1>1. line \in LineRows /\ pay \in PaymentRows /\ last \in [Customer -> Day \cup {Never}]
  BY DEF IInv, DirectoryTypeOK, LineRows, PaymentRows
<1>2. line[l] # None => line[l] \in LineRow /\ line[l].left = 1 - PaidUnits(pay, l)
  BY <1>1 DEF IInv, SumsOK, Lines, LineRows
<1>3. line[l] \in LineRow => line[l].price \in Nat /\ line[l].left \in 0..1
  BY Numbers DEF LineRow
<1>4. l \in LinesOf(c) => line[l] # None /\ line[l].who = c /\ last[c] # Never
  BY DEF IInv, OwnersOK, LinesOf, Lines
<1> QED
  BY <1>1, <1>2, <1>3, <1>4, PaidTypes

\* The row of a payment takes the place of another: money and units follow.
LEMMA PaymentMoves ==
  ASSUME IInv, NEW k \in Request, NEW c \in Customer, NEW l \in LinesOf(c), NEW p \in Payment,
         NEW r \in PaymentRow \cup {None}, pay' = [pay EXCEPT ![p] = r], r # None => r.line = l,
         pay[p] # None => pay[p].line = l, UNCHANGED <<last, loan>>,
         NEW paid \in Int,
         paid = (IF r = None THEN 0 ELSE r.money) - (IF pay[p] = None THEN 0 ELSE pay[p].money),
         Count(k, c, -paid, 0),
         NEW left \in Int, line' = [line EXCEPT ![l].left = left],
         left >= 0,
         left = line[l].left + (IF pay[p] = None THEN 0 ELSE pay[p].units)
                             - (IF r = None THEN 0 ELSE r.units)
  PROVE  IInv'
<1>1. /\ l \in Line /\ line \in LineRows /\ pay \in PaymentRows
      /\ line[l] # None /\ line[l] \in LineRow /\ line[l].price \in Nat
      /\ line[l].left = 1 - PaidUnits(pay, l) /\ line[l].left \in 0..1
      /\ line[l].who = c /\ last[c] # Never
      /\ last \in [Customer -> Day \cup {Never}]
      /\ PaidMoney(pay, l) \in Nat /\ PaidUnits(pay, l) \in Nat
  <2>1. l \in Line
    BY DEF LinesOf, Lines
  <2> QED
    BY <2>1, LinesOwner
<1>2. /\ pay' \in PaymentRows /\ pay'[p] = r
      /\ \A x \in Payment \ {p} : pay'[x] = pay[x]
  BY <1>1 DEF PaymentRows
<1>3. pay'[p] # None => pay'[p].line = l
  BY <1>2
<1>4. /\ MoneyOn(pay', l)[p] = IF r = None THEN 0 ELSE r.money
      /\ MoneyOn(pay, l)[p] = IF pay[p] = None THEN 0 ELSE pay[p].money
      /\ UnitsOn(pay', l)[p] = IF r = None THEN 0 ELSE r.units
      /\ UnitsOn(pay, l)[p] = IF pay[p] = None THEN 0 ELSE pay[p].units
  BY <1>2 DEF MoneyOn, UnitsOn
<1>5. /\ PaidMoney(pay', l) = PaidMoney(pay, l) + (MoneyOn(pay', l)[p] - MoneyOn(pay, l)[p])
      /\ PaidUnits(pay', l) = PaidUnits(pay, l) + (UnitsOn(pay', l)[p] - UnitsOn(pay, l)[p])
  <2> DEFINE Q == pay'
  <2>1. /\ Q \in PaymentRows /\ \A x \in Payment \ {p} : Q[x] = pay[x]
        /\ Q[p] # None => Q[p].line = l
    BY <1>2, <1>3
  <2> HIDE DEF Q
  <2>2. /\ PaidMoney(Q, l) = PaidMoney(pay, l) + (MoneyOn(Q, l)[p] - MoneyOn(pay, l)[p])
        /\ PaidUnits(Q, l) = PaidUnits(pay, l) + (UnitsOn(Q, l)[p] - UnitsOn(pay, l)[p])
    BY <1>1, <2>1, OnePaid
  <2> QED
    BY <2>2 DEF Q
<1>6. PaidMoney(pay', l) \in Nat /\ PaidUnits(pay', l) \in Nat
  BY <1>2, PaidTypes
<1>7. PaidMoney(pay', l) = PaidMoney(pay, l) + paid
  BY <1>4, <1>5
<1>8. left = 1 - PaidUnits(pay', l)
  <2>1. UnitsOn(pay', l)[p] \in Nat /\ UnitsOn(pay, l)[p] \in Nat
    BY <1>1, <1>2, PaidTypes
  <2> QED
    BY <1>1, <1>4, <1>5, <2>1
<1>9. left \in 0..1
  BY <1>6, <1>8
<1>10. line'[l] = [line[l] EXCEPT !.left = left]
  BY <1>1 DEF LineRows
<1>11. /\ line'[l] \in LineRow /\ line'[l].who = c /\ line'[l].price = line[l].price
       /\ line'[l].left = left
  <2> DEFINE s == line[l]
  <2>1. s \in LineRow /\ s.who = c
    BY <1>1
  <2>2. line'[l] = [s EXCEPT !.left = left]
    BY <1>10
  <2>3. line'[l].price = line[l].price <=> line'[l].price = s.price
    OBVIOUS
  <2> HIDE DEF s
  <2> DEFINE t == [s EXCEPT !.left = left]
  <2>5. t \in LineRow /\ t.who = s.who /\ t.price = s.price /\ t.left = left
    BY <1>9, <2>1 DEF LineRow
  <2>4. /\ line'[l] \in LineRow /\ line'[l].who = s.who /\ line'[l].price = s.price
        /\ line'[l].left = left
    BY <2>2, <2>5
  <2> QED
    BY <2>1, <2>3, <2>4
<1>12. line' \in LineRows /\ \A m \in Line \ {l} : line'[m] = line[m]
  BY <1>1, <1>11 DEF LineRows
<1>13. Rest(line', pay', l) = Rest(line, pay, l) + -paid
  <2>1. line'[l] # None
    BY <1>11, Finite
  <2>2. /\ Rest(line', pay', l) = line'[l].price - PaidMoney(pay', l)
        /\ Rest(line, pay, l) = line[l].price - PaidMoney(pay, l)
    BY <1>1, <2>1 DEF Rest
  <2>3. \A x, m, n \in Int : x - (m + n) = (x - m) + -n
    OBVIOUS
  <2> QED
    BY <1>1, <1>7, <1>11, <2>2, <2>3
<1>14. \A x \in Payment : pay'[x] # pay[x] => /\ pay[x] # None => pay[x].line = l
                                              /\ pay'[x] # None => pay'[x].line = l
  BY <1>2
<1>15. line'[l] # None /\ last' = last /\ UNCHANGED loan
  BY <1>11, Finite
<1>16. /\ last' \in [Customer -> Day \cup {Never}] /\ last'[c] # Never
       /\ \A d \in Customer \ {c} : last'[d] = last[d]
  BY <1>1, <1>15
<1>17. line'[l].left = 1 - PaidUnits(pay', l)
  BY <1>8, <1>11
<1> DEFINE owed == -paid
<1>18. owed \in Int /\ Count(k, c, owed, 0) /\ Rest(line', pay', l) = Rest(line, pay, l) + owed
  BY <1>13
<1> HIDE DEF owed
<1> QED
  BY <1>1, <1>2, <1>11, <1>12, <1>14, <1>15, <1>16, <1>17, <1>18, LineMoves

LEMMA PaymentSteps ==
  ASSUME IInv, NEW k \in Request, NEW c \in Customer, NEW p \in Payment,
         \/ DeletePayment(k, c, p)
         \/ \E d \in Day, units \in 0..1 :
              \/ \E l \in Line, amount \in Amount : Pay(k, c, p, l, units, amount, d)
              \/ \E money \in Amount, admin \in BOOLEAN : EditPayment(k, c, p, d, units, money, admin)
  PROVE  IInv'
<1>1. /\ pay \in PaymentRows /\ line \in LineRows
      /\ pay[p] # None => /\ pay[p] \in PaymentRow /\ pay[p].money \in Nat /\ pay[p].units \in 0..1
  BY DEF IInv, DirectoryTypeOK, PaymentRows, LineRows, PaymentRow
<1>2. \A l \in LinesOf(c) : l \in Line /\ line[l].left \in 0..1 /\ line[l].price \in Nat
  <2>1. \A l \in LinesOf(c) : l \in Line
    BY DEF LinesOf, Lines
  <2> QED
    BY <2>1, LinesOwner
<1>3. CASE DeletePayment(k, c, p)
  <2> DEFINE l == pay[p].line
             left == line[l].left + pay[p].units
  <2>1. /\ pay[p] # None /\ l \in LinesOf(c) /\ Count(k, c, pay[p].money, 0)
        /\ pay' = [pay EXCEPT ![p] = None] /\ line' = [line EXCEPT ![l].left = left]
        /\ UNCHANGED <<last, loan>>
    BY <1>3 DEF DeletePayment, Payments
  <2>2. /\ left \in Int /\ left >= 0
        /\ left = line[l].left + pay[p].units - 0
    BY <1>1, <1>2, <2>1
  <2>3. -pay[p].money \in Int /\ -(-pay[p].money) = pay[p].money /\ -pay[p].money = 0 - pay[p].money
    BY <1>1, <2>1
  <2> HIDE DEF left
  <2>4. Count(k, c, -(-pay[p].money), 0)
    BY <2>1, <2>3
  <2> QED
    BY <2>1, <2>2, <2>3, <2>4, PaymentMoves
<1>4. ASSUME NEW d \in Day, NEW units \in 0..1, NEW l \in Line, NEW amount \in Amount,
             Pay(k, c, p, l, units, amount, d)
      PROVE  IInv'
  <2> DEFINE money == IF amount = 0 THEN units * line[l].price ELSE amount
             left == line[l].left - units
             r == [line |-> l, units |-> units, money |-> money, day |-> d,
                   fresh |-> TRUE, link |-> None]
  <2>1. /\ pay[p] = None /\ l \in LinesOf(c) /\ units <= line[l].left /\ Count(k, c, -money, 0)
        /\ pay' = [pay EXCEPT ![p] = r] /\ line' = [line EXCEPT ![l].left = left]
        /\ UNCHANGED <<last, loan>>
    BY <1>4 DEF Pay
  <2>2. money \in Nat
    <3>1. line[l].price \in Nat /\ amount \in Nat
      BY <1>2, <2>1, Numbers
    <3>2. CASE units = 0
      BY <3>1, <3>2
    <3>3. CASE units = 1
      BY <3>1, <3>3
    <3> QED
      BY <3>2, <3>3
  <2>3. left \in Int /\ left >= 0 /\ left = line[l].left + 0 - units
    BY <1>2, <2>1
  <2> HIDE DEF money, left
  <2>4. r \in PaymentRow /\ r.line = l /\ r.money = money /\ r.units = units /\ r # None
    <3>1. r \in PaymentRow
      BY <2>2 DEF PaymentRow
    <3> QED
      BY <3>1, Finite
  <2> HIDE DEF r
  <2>5. money \in Int /\ money = money - 0
    BY <2>2
  <2> QED
    BY <2>1, <2>3, <2>4, <2>5, PaymentMoves
<1>5. ASSUME NEW d \in Day, NEW units \in 0..1, NEW money \in Amount, NEW admin \in BOOLEAN,
             EditPayment(k, c, p, d, units, money, admin)
      PROVE  IInv'
  <2> DEFINE l == pay[p].line
             left == line[l].left + pay[p].units - units
             r == [pay[p] EXCEPT !.day = d, !.units = units, !.money = money]
             paid == money - pay[p].money
  <2>1. /\ pay[p] # None /\ l \in LinesOf(c) /\ left \in 0..1
        /\ Count(k, c, pay[p].money - money, 0)
        /\ pay' = [pay EXCEPT ![p].day = d, ![p].units = units, ![p].money = money]
        /\ line' = [line EXCEPT ![l].left = left]
        /\ UNCHANGED <<last, loan>>
    BY <1>5 DEF EditPayment, Payments
  <2>2. pay' = [pay EXCEPT ![p] = r]
    BY <1>1, <2>1 DEF PaymentRows
  <2>3. money \in Nat
    BY Numbers
  <2>4. r \in PaymentRow /\ r.line = l /\ r.money = money /\ r.units = units
    BY <1>1, <2>1, <2>3 DEF PaymentRow
  <2>5. r # None
    BY <2>4, Finite
  <2>6. paid \in Int /\ -paid = pay[p].money - money
    BY <1>1, <2>1, <2>3
  <2>7. left \in Int /\ left >= 0
    BY <2>1
  <2> DEFINE n == line[l].left
  <2>8. left = n + pay[p].units - units
    OBVIOUS
  <2>9. Count(k, c, -paid, 0)
    BY <2>1, <2>6
  <2>10. paid = r.money - pay[p].money
    BY <2>4
  <2> HIDE DEF r, left, paid
  <2> QED
    BY <2>1, <2>2, <2>4, <2>5, <2>6, <2>7, <2>8, <2>9, <2>10, PaymentMoves
<1> QED
  BY <1>3, <1>4, <1>5

\* A new line is paid by no payment yet.
LEMMA RecordDebtStep ==
  ASSUME IInv, NEW k \in Request, NEW c \in Customer, NEW l \in Line, NEW d \in Day,
         NEW price \in Price, RecordDebt(k, c, l, d, price)
  PROVE  IInv'
<1> DEFINE r == [who |-> c, day |-> d, fresh |-> TRUE, price |-> price, left |-> 1]
<1>1. /\ line \in LineRows /\ pay \in PaymentRows /\ last \in [Customer -> Day \cup {Never}]
  BY LinesOwner
<1>2. /\ line[l] = None /\ Count(k, c, price, 0) /\ line' = [line EXCEPT ![l] = r]
      /\ last' = [last EXCEPT ![c] = Credited(c, d)] /\ UNCHANGED <<loan, pay>>
  BY DEF RecordDebt
<1>3. r \in LineRow /\ r.who = c /\ r.price = price /\ r.left = 1
  BY DEF LineRow
<1> HIDE DEF r
<1>4. r # None
  BY <1>3, Finite
<1>5. /\ line' \in LineRows /\ line'[l] = r
      /\ \A m \in Line \ {l} : line'[m] = line[m]
  BY <1>1, <1>2, <1>3 DEF LineRows
<1>6. Credited(c, d) \in Day /\ Credited(c, d) # Never
  <2>1. last[c] \in Day \cup {Never} /\ \A x \in Day : x \in Nat /\ x # Never
    BY <1>1, Numbers
  <2> QED
    BY <2>1 DEF Credited, Never
<1>7. /\ last' \in [Customer -> Day \cup {Never}] /\ last'[c] # Never
      /\ \A x \in Customer \ {c} : last'[x] = last[x]
  BY <1>1, <1>2, <1>6
<1>8. PaidMoney(pay, l) = 0 /\ PaidUnits(pay, l) = 0
  <2>1. \A p \in Payment : pay[p] # None => pay[p].line # l
    BY <1>2 DEF IInv, OwnersOK, Payments
  <2> QED
    BY <2>1, NonePaid
<1>9. line'[l].left = 1 - PaidUnits(pay', l)
  BY <1>2, <1>3, <1>5, <1>8
<1>10. price \in Int /\ Rest(line', pay', l) = Rest(line, pay, l) + price
  <2>1. price \in Nat
    BY Numbers
  <2>2. Rest(line, pay, l) = 0
    BY <1>2 DEF Rest
  <2>3. Rest(line', pay', l) = price - 0
    BY <1>2, <1>3, <1>4, <1>5, <1>8 DEF Rest
  <2> QED
    BY <2>1, <2>2, <2>3
<1>11. pay' \in PaymentRows /\ \A p \in Payment : pay'[p] = pay[p]
  BY <1>1, <1>2
<1> QED
  BY <1>2, <1>3, <1>4, <1>5, <1>7, <1>9, <1>10, <1>11, LineMoves

LEMMA EditLineStep ==
  ASSUME IInv, NEW k \in Request, NEW c \in Customer, NEW l \in Line, NEW d \in Day,
         NEW price \in Price, NEW admin \in BOOLEAN, EditLine(k, c, l, d, price, admin)
  PROVE  IInv'
<1> DEFINE s == line[l]
           r == [s EXCEPT !.day = d, !.price = price]
           owed == price - line[l].price
<1>1. /\ l \in LinesOf(c) /\ Count(k, c, owed, 0)
      /\ line' = [line EXCEPT ![l].day = d, ![l].price = price]
      /\ UNCHANGED <<last, loan, pay>>
  BY DEF EditLine
<1>2. /\ line \in LineRows /\ pay \in PaymentRows /\ last \in [Customer -> Day \cup {Never}]
      /\ line[l] # None /\ line[l] \in LineRow /\ line[l].who = c /\ last[c] # Never
      /\ line[l].price \in Nat /\ line[l].left = 1 - PaidUnits(pay, l)
      /\ PaidMoney(pay, l) \in Nat /\ price \in Nat
  BY <1>1, LinesOwner, Numbers
<1>3. r \in LineRow /\ r.who = s.who /\ r.price = price /\ r.left = s.left
  <2>1. s \in LineRow
    BY <1>2
  <2> HIDE DEF s
  <2> QED
    BY <2>1 DEF LineRow
<1>4. line' = [line EXCEPT ![l] = r]
  BY <1>1, <1>2 DEF LineRows
<1> HIDE DEF r
<1>5. /\ line' \in LineRows /\ line'[l] = r /\ r # None
      /\ \A m \in Line \ {l} : line'[m] = line[m]
  BY <1>2, <1>3, <1>4, Finite DEF LineRows
<1>6. owed \in Int /\ Rest(line', pay', l) = Rest(line, pay, l) + owed
  <2>1. /\ Rest(line', pay', l) = price - PaidMoney(pay, l)
        /\ Rest(line, pay, l) = line[l].price - PaidMoney(pay, l)
    BY <1>1, <1>2, <1>3, <1>5 DEF Rest
  <2> QED
    BY <1>2, <2>1
<1>7. line'[l].left = 1 - PaidUnits(pay', l) /\ line'[l].who = c
  BY <1>1, <1>2, <1>3, <1>5
<1> HIDE DEF owed, s
<1>8. /\ pay' \in PaymentRows /\ \A p \in Payment : pay'[p] = pay[p]
      /\ last' \in [Customer -> Day \cup {Never}] /\ last'[c] # Never
      /\ \A x \in Customer \ {c} : last'[x] = last[x]
  BY <1>1, <1>2
<1> QED
  BY <1>1, <1>2, <1>5, <1>6, <1>7, <1>8, LineMoves

\* A deleted line takes its payments along, and the rest of its price off the debt.
LEMMA DeleteLineStep ==
  ASSUME IInv, NEW k \in Request, NEW c \in Customer, NEW l \in Line, DeleteLine(k, c, l)
  PROVE  IInv'
<1> DEFINE owed == Collected(l) - line[l].price
<1>1. /\ l \in LinesOf(c) /\ Count(k, c, owed, 0)
      /\ line' = [line EXCEPT ![l] = None]
      /\ pay' = [p \in Payment |-> IF p \in PaymentsOf(l) THEN None ELSE pay[p]]
      /\ UNCHANGED <<last, loan>>
  BY DEF DeleteLine
<1>2. /\ line \in LineRows /\ pay \in PaymentRows /\ last \in [Customer -> Day \cup {Never}]
      /\ line[l] # None /\ line[l].who = c /\ last[c] # Never
      /\ line[l].price \in Nat /\ PaidMoney(pay, l) \in Nat
  BY <1>1, LinesOwner
<1>3. Collected(l) = PaidMoney(pay, l)
  BY CollectedIsPaid DEF IInv
<1>4. /\ line' \in LineRows /\ line'[l] = None
      /\ \A m \in Line \ {l} : line'[m] = line[m]
  BY <1>1, <1>2 DEF LineRows
<1>5. /\ pay' \in PaymentRows
      /\ \A p \in Payment : pay'[p] # pay[p] => pay[p].line = l /\ pay'[p] = None
      /\ \A p \in Payment : pay'[p] # None => pay'[p].line # l
  BY <1>1, <1>2 DEF PaymentRows, PaymentsOf, Payments
<1>6. owed \in Int /\ Rest(line', pay', l) = Rest(line, pay, l) + owed
  <2>1. Rest(line', pay', l) = 0 /\ Rest(line, pay, l) = line[l].price - PaidMoney(pay, l)
    BY <1>2, <1>4 DEF Rest
  <2> QED
    BY <1>2, <1>3, <2>1
<1> HIDE DEF owed
<1>7. last' \in [Customer -> Day \cup {Never}] /\ last'[c] # Never /\ \A x \in Customer : last'[x] = last[x]
  BY <1>1, <1>2
<1> QED
  BY <1>1, <1>2, <1>4, <1>5, <1>6, <1>7, LineMoves

-----------------------------------------------------------------------------
(* Requests find customers, and days pass. *)

LEMMA FindSteps ==
  ASSUME IInv, NEW k \in Request,
         \/ Leave(k) \/ Fail(k)
         \/ \E c \in Customer : Find(k, c) \/ Create(k, c) \/ MayLeave(k, c)
  PROVE  IInv'
<1>1. /\ state \in [Customer -> {"none", "active", "deleted"}]
      /\ req \in [Request -> [pc : {"idle", "act", "leave"}, who : Customer]]
      /\ req[k].who \in Customer
  BY DEF IInv, DirectoryTypeOK
<1>2. ASSUME NEW pc \in {"idle", "act", "leave"}, NEW c \in Customer, Goto(k, pc, c),
             state' \in [Customer -> {"none", "active", "deleted"}],
             \A x \in Customer : state[x] # "none" => state'[x] # "none",
             pc # "idle" => state'[c] # "none", KeepLedger
      PROVE  IInv'
  <2>1. /\ req' \in [Request -> [pc : {"idle", "act", "leave"}, who : Customer]]
        /\ req'[k] = [pc |-> pc, who |-> c] /\ \A j \in Request \ {k} : req'[j] = req[j]
    BY <1>1, <1>2 DEF Goto
  <2>2. \A j \in Request : req'[j].pc # "idle" => req'[j] = req[j] \/ state'[req'[j].who] # "none"
    BY <1>2, <2>1
  <2> QED
    BY <1>2, <2>1, <2>2, CustomerMoves
<1>3. CASE Leave(k)
  <2>1. /\ state' = [state EXCEPT ![req[k].who] = "deleted"]
        /\ Goto(k, "idle", req[k].who) /\ KeepLedger
    BY <1>3 DEF Leave
  <2> QED
    BY <1>1, <1>2, <2>1
<1>4. CASE Fail(k)
  BY <1>1, <1>2, <1>4 DEF Fail
<1>5. ASSUME NEW c \in Customer, Find(k, c) \/ MayLeave(k, c) PROVE IInv'
  BY <1>1, <1>2, <1>5 DEF Find, MayLeave
<1>6. ASSUME NEW c \in Customer, Create(k, c) PROVE IInv'
  BY <1>1, <1>2, <1>6 DEF Create
<1> QED
  BY <1>3, <1>4, <1>5, <1>6

\* A link changes, of some payments.
LEMMA LinkedSame ==
  ASSUME IInv, NEW P \in SUBSET Payments, NEW n \in Day \cup {None}, Linked(P, n),
         UNCHANGED <<line, loan>>
  PROVE  SameRows
<1>1. line \in LineRows /\ loan \in LoanRows /\ pay \in PaymentRows
  BY DEF IInv, DirectoryTypeOK, LineRows, LoanRows, PaymentRows
<1>2. ASSUME NEW p \in Payment
      PROVE  /\ pay'[p] \in PaymentRow \cup {None}
             /\ pay'[p] = None <=> pay[p] = None
             /\ pay[p] # None => /\ pay'[p].line = pay[p].line
                                 /\ pay'[p].money = pay[p].money
                                 /\ pay'[p].units = pay[p].units
  <2>1. CASE p \notin P
    BY <1>1, <2>1 DEF Linked, PaymentRows
  <2>2. CASE p \in P
    <3> DEFINE s == pay[p]
               r == [s EXCEPT !.link = n]
    <3>1. s \in PaymentRow /\ s # None
      BY <1>1, <2>2 DEF Payments, PaymentRows
    <3>2. pay'[p] = r
      BY <2>2 DEF Linked
    <3>3. r \in PaymentRow /\ r.line = s.line /\ r.money = s.money /\ r.units = s.units
      <4> HIDE DEF s
      <4> QED
        BY <3>1 DEF PaymentRow
    <3> HIDE DEF r
    <3>4. r # None
      BY <3>3, Finite
    <3> QED
      BY <3>1, <3>2, <3>3, <3>4
  <2> QED
    BY <2>1, <2>2
<1>3. pay' \in PaymentRows
  BY <1>2 DEF Linked, PaymentRows
<1> QED
  BY <1>1, <1>2, <1>3 DEF SameRows

LEMMA AgedSame ==
  ASSUME IInv, NextDay
  PROVE  SameRows /\ today' \in Day /\ today' = today + 1
<1>1. line \in LineRows /\ loan \in LoanRows /\ pay \in PaymentRows /\ today \in Day
  BY DEF IInv, DirectoryTypeOK, LineRows, LoanRows, PaymentRows
<1>2. /\ line' = [l \in Line |-> Aged(line[l])] /\ loan' = [b \in Loan |-> Aged(loan[b])]
      /\ pay' = [p \in Payment |-> Aged(pay[p])]
      /\ today < LastDay /\ today' = today + 1
  BY DEF NextDay
<1>3. Aged(None) = None
  BY DEF Aged
<1>4. ASSUME NEW s \in LineRow
      PROVE  /\ Aged(s) \in LineRow /\ Aged(s) # None
             /\ Aged(s).who = s.who /\ Aged(s).price = s.price /\ Aged(s).left = s.left
  <2> DEFINE r == [s EXCEPT !.fresh = FALSE]
  <2>1. Aged(s) = r
    BY Finite DEF Aged
  <2>2. r \in LineRow /\ r.who = s.who /\ r.price = s.price /\ r.left = s.left
    BY DEF LineRow
  <2> HIDE DEF r
  <2> QED
    BY <2>1, <2>2, Finite
<1>5. ASSUME NEW s \in LoanRow
      PROVE  Aged(s) \in LoanRow /\ Aged(s) # None /\ Aged(s).who = s.who /\ Aged(s).out = s.out
  <2> DEFINE r == [s EXCEPT !.fresh = FALSE]
  <2>1. Aged(s) = r
    BY Finite DEF Aged
  <2>2. r \in LoanRow /\ r.who = s.who /\ r.out = s.out
    BY DEF LoanRow
  <2> HIDE DEF r
  <2> QED
    BY <2>1, <2>2, Finite
<1>6. ASSUME NEW s \in PaymentRow
      PROVE  /\ Aged(s) \in PaymentRow /\ Aged(s) # None
             /\ Aged(s).line = s.line /\ Aged(s).money = s.money /\ Aged(s).units = s.units
  <2> DEFINE r == [s EXCEPT !.fresh = FALSE]
  <2>1. Aged(s) = r
    BY Finite DEF Aged
  <2>2. r \in PaymentRow /\ r.line = s.line /\ r.money = s.money /\ r.units = s.units
    BY DEF PaymentRow
  <2> HIDE DEF r
  <2> QED
    BY <2>1, <2>2, Finite
<1>7. line' \in LineRows /\ loan' \in LoanRows /\ pay' \in PaymentRows
  BY <1>1, <1>2, <1>3, <1>4, <1>5, <1>6 DEF LineRows, LoanRows, PaymentRows
<1>8. /\ \A l \in Line : line[l] # None => line[l] \in LineRow
      /\ \A b \in Loan : loan[b] # None => loan[b] \in LoanRow
      /\ \A p \in Payment : pay[p] # None => pay[p] \in PaymentRow
  BY <1>1 DEF LineRows, LoanRows, PaymentRows
<1>9. SameRows
  <2>1. \A l \in Line : /\ line'[l] = None <=> line[l] = None
                        /\ line[l] # None => /\ line'[l].who = line[l].who
                                             /\ line'[l].price = line[l].price
                                             /\ line'[l].left = line[l].left
    BY <1>2, <1>3, <1>4, <1>8
  <2>2. \A b \in Loan : /\ loan'[b] = None <=> loan[b] = None
                        /\ loan[b] # None => loan'[b].who = loan[b].who /\ loan'[b].out = loan[b].out
    BY <1>2, <1>3, <1>5, <1>8
  <2>3. \A p \in Payment : /\ pay'[p] = None <=> pay[p] = None
                           /\ pay[p] # None => /\ pay'[p].line = pay[p].line
                                               /\ pay'[p].money = pay[p].money
                                               /\ pay'[p].units = pay[p].units
    BY <1>2, <1>3, <1>6, <1>8
  <2> QED
    BY <1>7, <2>1, <2>2, <2>3 DEF SameRows
<1>10. today' \in Day
  BY <1>1, <1>2, Numbers DEF Day
<1> QED
  BY <1>2, <1>9, <1>10

LEMMA DaySteps ==
  ASSUME IInv,
         \/ NextDay
         \/ \E d \in RemitDay : Remit(d, final) \/ Remit(d, final \cup {d}) \/ ClearDraft(d)
  PROVE  IInv' /\ SameRows /\ UNCHANGED <<state, debt, borrowed, last, req>>
<1>1. today \in Day /\ final \subseteq RemitDay
  BY DEF IInv, DirectoryTypeOK
<1>2. CASE NextDay
  BY <1>1, <1>2, AgedSame, DayMoves DEF NextDay
<1>3. ASSUME NEW d \in RemitDay, NEW days, Remit(d, days), days \subseteq RemitDay
      PROVE  IInv' /\ SameRows /\ UNCHANGED <<state, debt, borrowed, last, req>>
  <2> DEFINE P == {p \in Payments : pay[p].day = d /\ pay[p].link = None}
  <2>1. Linked(P, d) /\ final' = days /\ UNCHANGED <<state, debt, borrowed, last, line, loan, req, today>>
    BY <1>3 DEF Remit, KeepRows
  <2>2. P \in SUBSET Payments /\ d \in Day
    BY Numbers
  <2> HIDE DEF P
  <2>3. SameRows
    BY <2>1, <2>2, LinkedSame
  <2> QED
    BY <1>1, <1>3, <2>1, <2>3, DayMoves
<1>4. ASSUME NEW d \in RemitDay, ClearDraft(d)
      PROVE  IInv' /\ SameRows /\ UNCHANGED <<state, debt, borrowed, last, req>>
  <2> DEFINE P == {p \in Payments : pay[p].link = d}
  <2>1. Linked(P, None) /\ UNCHANGED <<state, debt, borrowed, last, line, loan, req, today, final>>
    BY <1>4 DEF ClearDraft, KeepRows
  <2>2. P \in SUBSET Payments
    OBVIOUS
  <2> HIDE DEF P
  <2>3. SameRows
    BY <2>1, <2>2, LinkedSame
  <2> QED
    BY <1>1, <2>1, <2>3, DayMoves
<1> QED
  BY <1>1, <1>2, <1>3, <1>4

-----------------------------------------------------------------------------
LEMMA RequestSteps ==
  ASSUME IInv, NEW k \in Request, NEW c \in Customer, RequestStep(k, c)
  PROVE  IInv'
BY FindSteps, LoanSteps, PaymentSteps, RecordDebtStep, EditLineStep, DeleteLineStep
   DEF RequestStep, Record, Correct, Remove

LEMMA InitOK == Init => IInv
<1> SUFFICES ASSUME Init PROVE IInv
  OBVIOUS
<1>1. DirectoryTypeOK
  BY Numbers DEF Init, DirectoryTypeOK
<1>2. OwnersOK
  BY DEF Init, OwnersOK, Payments, Lines
<1>3. ASSUME NEW c \in Customer PROVE debt[c] = Owed(line, pay, c) /\ borrowed[c] = Held(loan, c)
  <2>1. /\ \A l \in Line : Owes(line, pay, c)[l] = 0
        /\ \A b \in Loan : Holds(loan, c)[b] = 0
        /\ debt[c] = 0 /\ borrowed[c] = 0
    BY DEF Init, Owes, Holds
  <2> QED
    BY <2>1, Finite, SumZero DEF Owed, Held
<1>4. SumsOK
  BY <1>3 DEF Init, SumsOK, Lines
<1> QED
  BY <1>1, <1>2, <1>4 DEF IInv

LEMMA StepOK ==
  ASSUME IInv, [Next]_vars
  PROVE  IInv'
<1>1. CASE UNCHANGED vars
  BY <1>1 DEF vars, IInv, DirectoryTypeOK, OwnersOK, SumsOK, Lines, Payments
<1>2. CASE Next
  BY <1>2, FindSteps, RequestSteps, DaySteps DEF Next
<1> QED
  BY <1>1, <1>2

\* The counters of a customer are sums over its rows, whatever the requests do.
LEMMA Inductive == Spec => []IInv
BY InitOK, StepOK, PTL DEF Spec

\* Types, in particular: no debt and no counter goes below zero, and a line never
\* has more units left than it was recorded with.
THEOREM DirectoryTypes == Spec => []DirectoryTypeOK
<1>1. IInv => DirectoryTypeOK
  BY DEF IInv
<1> QED
  BY <1>1, Inductive, PTL

-----------------------------------------------------------------------------
(* Whose rows a request writes. *)

\* what a step writes is of the customer c, before and after
OnlyOf(c) ==
  /\ \A l \in Line : line'[l] # line[l] => /\ line[l] # None => line[l].who = c
                                           /\ line'[l] # None => line'[l].who = c
  /\ \A b \in Loan : loan'[b] # loan[b] => /\ loan[b] # None => loan[b].who = c
                                           /\ loan'[b] # None => loan'[b].who = c
  /\ \A p \in Payment : pay'[p] # pay[p] => /\ pay[p] # None => pay[p].line \in LinesOf(c)
                                            /\ pay'[p] # None => pay'[p].line \in LinesOf(c)

LEMMA ServiceIs ==
  ASSUME IInv, NEW k \in Request, NEW c \in Customer, RequestStep(k, c)
  PROVE  \/ KeepLedger /\ (Find(k, c) \/ Create(k, c) \/ MayLeave(k, c))
         \/ OnlyOf(c) /\ \E owed, lent : Count(k, c, owed, lent)
<1>1. /\ line \in LineRows /\ loan \in LoanRows /\ pay \in PaymentRows
      /\ \A l \in LinesOf(c) : l \in Line /\ line[l] \in LineRow /\ line[l].who = c
      /\ \A b \in LoansOf(c) : b \in Loan /\ loan[b] \in LoanRow /\ loan[b].who = c
  BY RowsAre DEF IInv, DirectoryTypeOK, LineRows, LoanRows, PaymentRows, LinesOf, LoansOf
<1>2. ASSUME NEW p \in Payments PROVE p \in Payment /\ pay[p] \in PaymentRow
  BY RowsAre DEF IInv
<1>3. CASE Find(k, c) \/ Create(k, c) \/ MayLeave(k, c)
  BY <1>3 DEF Find, Create, MayLeave
<1>4. ASSUME NEW d \in Day, NEW l \in Line, NEW price \in Price, RecordDebt(k, c, l, d, price)
      PROVE  OnlyOf(c) /\ Count(k, c, price, 0)
  BY <1>1, <1>4 DEF RecordDebt, OnlyOf, LineRows
<1>5. ASSUME NEW d \in Day, NEW b \in Loan, Lend(k, c, b, d)
      PROVE  OnlyOf(c) /\ Count(k, c, 0, 1)
  BY <1>1, <1>5 DEF Lend, OnlyOf, LoanRows
\* the units left and the day of a line are written, not its customer
<1>6. ASSUME NEW l \in LinesOf(c), NEW r, line' = [line EXCEPT ![l] = r], r.who = c
      PROVE  \A m \in Line : line'[m] # line[m] => /\ line[m] # None => line[m].who = c
                                                   /\ line'[m] # None => line'[m].who = c
  BY <1>1, <1>6 DEF LineRows
<1>7. ASSUME NEW d \in Day, NEW p \in Payment, NEW l \in Line, NEW units \in 0..1,
             NEW amount \in Amount, Pay(k, c, p, l, units, amount, d)
      PROVE  OnlyOf(c) /\ \E owed : Count(k, c, owed, 0)
  <2> DEFINE money == IF amount = 0 THEN units * line[l].price ELSE amount
             left == line[l].left - units
             s == line[l]
             r == [s EXCEPT !.left = left]
             t == [line |-> l, units |-> units, money |-> money, day |-> d,
                   fresh |-> TRUE, link |-> None]
  <2>1. /\ pay[p] = None /\ l \in LinesOf(c) /\ Count(k, c, -money, 0)
        /\ pay' = [pay EXCEPT ![p] = t] /\ line' = [line EXCEPT ![l] = r] /\ loan' = loan
    BY <1>7 DEF Pay
  <2>2. t.line = l
    OBVIOUS
  <2>3. r.who = c
    <3> HIDE DEF left
    <3>1. s \in LineRow /\ s.who = c
      BY <1>1, <2>1
    <3> HIDE DEF s
    <3> QED
      BY <3>1 DEF LineRow
  <2> HIDE DEF money, r, t
  <2> QED
    BY <1>1, <1>6, <2>1, <2>2, <2>3 DEF OnlyOf, PaymentRows
<1>8. ASSUME NEW d \in Day, NEW l \in Line, NEW price \in Price, NEW admin \in BOOLEAN,
             EditLine(k, c, l, d, price, admin)
      PROVE  OnlyOf(c) /\ \E owed : Count(k, c, owed, 0)
  <2> DEFINE s == line[l]
             r == [s EXCEPT !.day = d, !.price = price]
  <2>1. /\ l \in LinesOf(c) /\ Count(k, c, price - line[l].price, 0)
        /\ line' = [line EXCEPT ![l].day = d, ![l].price = price] /\ UNCHANGED <<loan, pay>>
    BY <1>8 DEF EditLine
  <2>2. line' = [line EXCEPT ![l] = r]
    BY <1>1, <2>1 DEF LineRows
  <2>3. r.who = c
    <3>1. s \in LineRow /\ s.who = c
      BY <1>1, <2>1
    <3> HIDE DEF s
    <3> QED
      BY <3>1 DEF LineRow
  <2> HIDE DEF r
  <2> QED
    BY <1>6, <2>1, <2>2, <2>3 DEF OnlyOf
<1>9. ASSUME NEW b \in LoansOf(c), NEW r, loan' = [loan EXCEPT ![b] = r], r.who = c \/ r = None,
             UNCHANGED <<line, pay>>
      PROVE  OnlyOf(c)
  BY <1>1, <1>9 DEF LoanRows, OnlyOf
<1>10. ASSUME NEW d \in Day, NEW b \in Loan, NEW out \in 0..1, NEW admin \in BOOLEAN,
              EditLoan(k, c, b, d, out, admin)
       PROVE  OnlyOf(c) /\ \E lent : Count(k, c, 0, lent)
  <2> DEFINE s == loan[b]
             r == [s EXCEPT !.day = d, !.out = out]
  <2>1. /\ b \in LoansOf(c) /\ Count(k, c, 0, out - loan[b].out)
        /\ loan' = [loan EXCEPT ![b].day = d, ![b].out = out] /\ UNCHANGED <<line, pay>>
    BY <1>10 DEF EditLoan
  <2>2. loan' = [loan EXCEPT ![b] = r]
    BY <1>1, <2>1 DEF LoanRows
  <2>3. r.who = c
    <3>1. s \in LoanRow /\ s.who = c
      BY <1>1, <2>1
    <3> HIDE DEF s
    <3> QED
      BY <3>1 DEF LoanRow
  <2> HIDE DEF r
  <2> QED
    BY <1>9, <2>1, <2>2, <2>3
\* a payment of a line of c stays with the line, or goes
<1>11. ASSUME NEW p \in Payments, pay[p].line \in LinesOf(c), NEW left,
              line' = [line EXCEPT ![pay[p].line].left = left], loan' = loan,
              NEW r, pay' = [pay EXCEPT ![p] = r], r.line = pay[p].line \/ r = None
       PROVE  OnlyOf(c)
  <2> DEFINE l == pay[p].line
             s == line[l]
             t == [s EXCEPT !.left = left]
  <2>1. s \in LineRow /\ s.who = c /\ line' = [line EXCEPT ![l] = t]
    BY <1>1, <1>11
  <2>2. t.who = c
    <3> HIDE DEF s
    <3> QED
      BY <2>1 DEF LineRow
  <2> HIDE DEF t
  <2>3. l \in LinesOf(c)
    BY <1>11
  <2>4. \A m \in Line : line'[m] # line[m] => /\ line[m] # None => line[m].who = c
                                              /\ line'[m] # None => line'[m].who = c
    BY <1>6, <2>1, <2>2, <2>3
  <2> QED
    BY <1>1, <1>2, <1>11, <2>4 DEF OnlyOf, PaymentRows
<1>12. ASSUME NEW d \in Day, NEW p \in Payment, NEW units \in 0..1, NEW money \in Amount,
              NEW admin \in BOOLEAN, EditPayment(k, c, p, d, units, money, admin)
       PROVE  OnlyOf(c) /\ \E owed : Count(k, c, owed, 0)
  <2> DEFINE left == line[pay[p].line].left + pay[p].units - units
             s == pay[p]
             r == [s EXCEPT !.day = d, !.units = units, !.money = money]
  <2>1. /\ p \in Payments /\ pay[p].line \in LinesOf(c) /\ Count(k, c, pay[p].money - money, 0)
        /\ pay' = [pay EXCEPT ![p].day = d, ![p].units = units, ![p].money = money]
        /\ line' = [line EXCEPT ![pay[p].line].left = left] /\ loan' = loan
    BY <1>12 DEF EditPayment
  <2>2. pay' = [pay EXCEPT ![p] = r]
    BY <1>1, <2>1 DEF PaymentRows
  <2>3. r.line = pay[p].line
    <3>1. s \in PaymentRow
      BY <1>2, <2>1
    <3>2. r.line = s.line
      <4> HIDE DEF s
      <4> QED
        BY <3>1 DEF PaymentRow
    <3> QED
      BY <3>2
  <2> HIDE DEF r, left
  <2> QED
    BY <1>11, <2>1, <2>2, <2>3
<1>13. ASSUME NEW p \in Payment, DeletePayment(k, c, p)
       PROVE  OnlyOf(c) /\ \E owed : Count(k, c, owed, 0)
  <2> DEFINE left == line[pay[p].line].left + pay[p].units
  <2>1. /\ p \in Payments /\ pay[p].line \in LinesOf(c) /\ Count(k, c, pay[p].money, 0)
        /\ pay' = [pay EXCEPT ![p] = None]
        /\ line' = [line EXCEPT ![pay[p].line].left = left] /\ loan' = loan
    BY <1>13 DEF DeletePayment
  <2> HIDE DEF left
  <2> QED
    BY <1>11, <2>1
<1>14. ASSUME NEW l \in Line, DeleteLine(k, c, l)
       PROVE  OnlyOf(c) /\ \E owed : Count(k, c, owed, 0)
  <2>1. /\ l \in LinesOf(c) /\ \E owed : Count(k, c, owed, 0)
        /\ line' = [line EXCEPT ![l] = None] /\ loan' = loan
        /\ pay' = [p \in Payment |-> IF p \in PaymentsOf(l) THEN None ELSE pay[p]]
    BY <1>14 DEF DeleteLine
  <2> QED
    BY <1>1, <2>1 DEF OnlyOf, LineRows, PaymentsOf
<1>15. ASSUME NEW b \in Loan, DeleteLoan(k, c, b)
       PROVE  OnlyOf(c) /\ \E lent : Count(k, c, 0, lent)
  <2>1. /\ b \in LoansOf(c) /\ \E lent : Count(k, c, 0, lent)
        /\ loan' = [loan EXCEPT ![b] = None] /\ UNCHANGED <<line, pay>>
    BY <1>15 DEF DeleteLoan
  <2> QED
    BY <1>9, <2>1
<1>16. ASSUME NEW b \in Loan, Return(k, c, b)
       PROVE  OnlyOf(c) /\ \E lent : Count(k, c, 0, lent)
  <2> DEFINE s == loan[b]
             r == [s EXCEPT !.out = 0]
  <2>1. /\ b \in LoansOf(c) /\ \E lent : Count(k, c, 0, lent)
        /\ loan' = [loan EXCEPT ![b] = r] /\ UNCHANGED <<line, pay>>
    BY <1>16 DEF Return
  <2>2. r.who = c
    <3>1. s \in LoanRow /\ s.who = c
      BY <1>1, <2>1
    <3> HIDE DEF s
    <3> QED
      BY <3>1 DEF LoanRow
  <2> HIDE DEF r
  <2> QED
    BY <1>9, <2>1, <2>2
<1> QED
  BY <1>3, <1>4, <1>5, <1>7, <1>8, <1>10, <1>12, <1>13, <1>14, <1>15, <1>16
     DEF RequestStep, Record, Correct, Remove

\* So the rows of everybody else stay theirs.
LEMMA OthersKeep ==
  ASSUME IInv, NEW c \in Customer, NEW x \in Customer, x # c, OnlyOf(c)
  PROVE  LinesOf(x)' = LinesOf(x) /\ LoansOf(x)' = LoansOf(x) /\ PaidBy(x)' = PaidBy(x)
<1>1. LinesOf(x)' = LinesOf(x)
  BY DEF OnlyOf, LinesOf, Lines
<1>2. LoansOf(x)' = LoansOf(x)
  BY DEF OnlyOf, LoansOf, Loans
<1>3. \A l \in LinesOf(c) : l \notin LinesOf(x)
  BY DEF LinesOf
<1>4. PaidBy(x)' = PaidBy(x)
  BY <1>1, <1>3 DEF OnlyOf, PaidBy, Payments
<1> QED
  BY <1>1, <1>2, <1>4

-----------------------------------------------------------------------------
(* The pages. *)

\* The three pages that call a debtor overdue are never more than a day apart,
\* whatever the threshold and however many days, rows and requests.
THEOREM OverdueAgrees == Spec => OverdueWithinADay
<1>1. ASSUME IInv, NEW c \in Customer
      PROVE  /\ HasDebt(c) => last[c] # Never
             /\ last[c] # Never => last[c] \in Int
             /\ today \in Int
  <2>1. HasDebt(c) => last[c] # Never
    BY <1>1 DEF IInv, OwnersOK, HasDebt
  <2>2. last[c] \in Day \cup {Never} /\ today \in Day
    BY <1>1 DEF IInv, DirectoryTypeOK
  <2> QED
    BY <2>1, <2>2, Numbers
<1>2. ASSUME IInv, NEW c \in Customer
      PROVE  /\ OverdueInDetail(c) => OverdueOnCard(c)
             /\ OverdueOnCard(c) => ~Reliable(c)
  <2>0. Threshold \in Nat
    BY Numbers
  <2>1. OverdueInDetail(c) => OverdueOnCard(c)
    BY <1>1, <1>2, <2>0 DEF OverdueInDetail, OverdueOnCard, DaysSince
  <2>2. OverdueOnCard(c) => OverdueInRanking(c)
    BY <1>1, <1>2, <2>0 DEF OverdueOnCard, OverdueInRanking
  <2> QED
    BY <2>1, <2>2 DEF Reliable
<1>3. ASSUME IInv, Next, today' # today, NEW c \in Customer, OverdueOnCard(c)
      PROVE  OverdueInDetail(c)'
  <2>1. NextDay
    <3>1. ASSUME NEW k \in Request, NEW x \in Customer, RequestStep(k, x) PROVE today' = today
      BY <1>3, <3>1, ServiceIs DEF KeepLedger, Count
    <3> QED
      BY <1>3, <3>1 DEF Next, Leave, Fail, KeepLedger, Remit, ClearDraft
  <2>2. today' = today + 1 /\ last' = last /\ debt' = debt
    BY <2>1 DEF NextDay
  <2>3. HasDebt(c)'
    BY <1>3, <2>2 DEF HasDebt, OverdueOnCard
  <2>4. /\ last[c] # Never /\ last[c] \in Int /\ today \in Int /\ Threshold \in Nat
        /\ last[c] <= today - Threshold
    BY <1>1, <1>3, Numbers DEF OverdueOnCard
  <2>5. (today + 1) - last[c] > Threshold
    BY <2>4
  <2>6. DaysSince(c)' = (today + 1) - last[c]
    BY <2>2, <2>4 DEF DaysSince, Never
  <2> QED
    BY <2>3, <2>5, <2>6 DEF OverdueInDetail
<1>4. IInv /\ [Next]_vars =>
        [/\ \A c \in Customer :
              /\ OverdueInDetail(c) => OverdueOnCard(c)
              /\ OverdueOnCard(c) => ~Reliable(c)
         /\ today' # today => \A c \in Customer : OverdueOnCard(c) => OverdueInDetail(c)']_vars
  BY <1>2, <1>3
<1> QED
  BY <1>4, Inductive, PTL DEF Spec, OverdueWithinADay

\* What the history page offers a user is what the services accept, whatever has
\* been recorded, linked and finalized since: the page decides from the same row
\* and the same lock day, a payment's being that of the remittance it is linked to.
THEOREM HistoryAlwaysOffersWhatIsAccepted == Spec => []HistoryOffersWhatIsAccepted
<1>1. ASSUME NEW admin \in BOOLEAN, NEW fresh \in BOOLEAN, NEW d
      PROVE  PageEdits(admin, fresh, d) = MayEdit(admin, fresh, d)
  <2>1. CASE admin = TRUE
    BY <2>1 DEF PageEdits, MayEdit
  <2>2. CASE admin = FALSE
    BY <2>2 DEF PageEdits, MayEdit
  <2> QED
    BY <2>1, <2>2
<1>2. ASSUME IInv
      PROVE  /\ \A p \in Payments : pay[p].fresh \in BOOLEAN
             /\ \A l \in Lines : line[l].fresh \in BOOLEAN
  BY <1>2, RowsAre DEF IInv, PaymentRow, LineRow
<1>3. \A p : PageLockDay(p) = PaymentLockDay(p)
  BY DEF PageLockDay, PaymentLockDay
<1>4. \A l : PageDeletesLine(l) = \A p \in PaymentsOf(l) : pay[p].link = None
  BY DEF PageDeletesLine, PaymentsOf
<1>5. IInv => HistoryOffersWhatIsAccepted
  BY <1>1, <1>2, <1>3, <1>4 DEF HistoryOffersWhatIsAccepted
<1> QED
  BY <1>5, Inductive, PTL

\* A customer who is deleted, and whose requests are over, is left alone by every
\* request, on whatever page it began, and by the days that pass.
THEOREM DeletedAlwaysRest == Spec => DeletedRest
<1> DEFINE Stays(c) == /\ Rests(c)' /\ debt'[c] = debt[c] /\ borrowed'[c] = borrowed[c]
                       /\ LinesOf(c)' = LinesOf(c) /\ LoansOf(c)' = LoansOf(c)
                       /\ PaidBy(c)' = PaidBy(c)
<1>1. ASSUME IInv, NEW c \in Customer, Rests(c), Next PROVE Stays(c)
  <2>0. /\ state \in [Customer -> {"none", "active", "deleted"}]
        /\ req \in [Request -> [pc : {"idle", "act", "leave"}, who : Customer]]
        /\ debt \in [Customer -> Nat] /\ borrowed \in [Customer -> Nat]
        /\ \A p \in Payments : pay[p].line \in Line
    BY <1>1, RowsAre DEF IInv, DirectoryTypeOK, PaymentRow
  <2>1. ASSUME KeepLedger
        PROVE  /\ debt'[c] = debt[c] /\ borrowed'[c] = borrowed[c]
               /\ LinesOf(c)' = LinesOf(c) /\ LoansOf(c)' = LoansOf(c) /\ PaidBy(c)' = PaidBy(c)
    BY <2>1 DEF KeepLedger, LinesOf, Lines, LoansOf, Loans, PaidBy, Payments
  <2>2. ASSUME NEW k \in Request, Leave(k) \/ Fail(k) PROVE Stays(c)
    <3>1. Rests(c)'
      BY <1>1, <2>0, <2>2 DEF Rests, Leave, Fail, Goto
    <3>2. KeepLedger
      BY <2>2 DEF Leave, Fail
    <3> QED
      BY <2>1, <3>1, <3>2
  <2>3. ASSUME NEW k \in Request, NEW x \in Customer,
               Find(k, x) \/ Create(k, x) \/ MayLeave(k, x), KeepLedger
        PROVE  Stays(c)
    <3>1. Rests(c)'
      BY <1>1, <2>0, <2>3 DEF Rests, Find, Create, MayLeave, Goto
    <3> QED
      BY <2>1, <2>3, <3>1
  <2>4. ASSUME NEW k \in Request, NEW x \in Customer, OnlyOf(x), \E owed, lent : Count(k, x, owed, lent)
        PROVE  Stays(c)
    <3>1. x # c
      BY <1>1, <2>4 DEF Rests, Count
    <3>2. Rests(c)' /\ debt'[c] = debt[c] /\ borrowed'[c] = borrowed[c]
      BY <1>1, <2>0, <2>4, <3>1 DEF Rests, Count, Goto
    <3> QED
      BY <1>1, <2>4, <3>1, <3>2, OthersKeep
  <2>5. ASSUME SameRows, UNCHANGED <<state, debt, borrowed, last, req>> PROVE Stays(c)
    <3>1. Rests(c)' /\ debt'[c] = debt[c] /\ borrowed'[c] = borrowed[c]
      BY <1>1, <2>5 DEF Rests
    <3>2. LinesOf(c)' = LinesOf(c) /\ LoansOf(c)' = LoansOf(c)
      BY <2>5 DEF SameRows, LinesOf, Lines, LoansOf, Loans
    <3>3. PaidBy(c)' = PaidBy(c)
      BY <2>5, <3>2 DEF SameRows, PaidBy, Payments
    <3> QED
      BY <3>1, <3>2, <3>3
  <2> HIDE DEF Stays
  <2>6. ASSUME NEW k \in Request, NEW x \in Customer, RequestStep(k, x) PROVE Stays(c)
    BY <1>1, <2>3, <2>4, <2>6, ServiceIs
  <2> QED
    BY <1>1, <2>2, <2>5, <2>6, DaySteps DEF Next
<1>2. IInv /\ [Next]_vars =>
        [\A c \in Customer : Rests(c) =>
           /\ Rests(c)' /\ debt'[c] = debt[c] /\ borrowed'[c] = borrowed[c]
           /\ LinesOf(c)' = LinesOf(c) /\ LoansOf(c)' = LoansOf(c) /\ PaidBy(c)' = PaidBy(c)]_vars
  BY <1>1
<1> HIDE DEF Stays
<1> QED
  BY <1>2, Inductive, PTL DEF Spec, DeletedRest

-----------------------------------------------------------------------------
(* What the pages add up. *)

\* the payments of a customer carry the price of their units
LEMMA SquareIs ==
  ASSUME IInv, NEW c \in Customer, Square(c), NEW l \in LinesOf(c)
  PROVE  /\ l \in Line /\ line[l].price \in Nat /\ line[l].left \in 0..1
         /\ Owes(line, pay, c)[l] = line[l].left * line[l].price
<1>1. l \in Line /\ line[l] # None /\ line[l].who = c
  BY DEF LinesOf, Lines
<1>2. /\ pay \in PaymentRows /\ line[l].price \in Nat /\ line[l].left \in 0..1
      /\ line[l].left = 1 - PaidUnits(pay, l) /\ PaidUnits(pay, l) \in Nat
  BY <1>1, LinesOwner
<1>3. ASSUME NEW p \in Payment
      PROVE  /\ UnitsOn(pay, l)[p] \in Int
             /\ MoneyOn(pay, l)[p] = line[l].price * UnitsOn(pay, l)[p]
  <2>1. UnitsOn(pay, l)[p] \in Int
    BY <1>2, PaidTypes
  <2>2. CASE pay[p] # None /\ pay[p].line = l
    <3>1. p \in PaidBy(c) /\ pay[p].units \in 0..1
      BY <1>2, <2>2 DEF PaidBy, Payments, PaymentRows, PaymentRow
    <3>2. pay[p].money = pay[p].units * line[l].price
      BY <2>2, <3>1 DEF Square
    <3>3. pay[p].units * line[l].price = line[l].price * pay[p].units
      BY <1>2, <3>1
    <3>4. MoneyOn(pay, l)[p] = pay[p].money /\ UnitsOn(pay, l)[p] = pay[p].units
      BY <2>2 DEF MoneyOn, UnitsOn
    <3> QED
      BY <2>1, <3>2, <3>3, <3>4
  <2>3. CASE ~(pay[p] # None /\ pay[p].line = l)
    <3>1. MoneyOn(pay, l)[p] = 0 /\ UnitsOn(pay, l)[p] = 0
      BY <2>3 DEF MoneyOn, UnitsOn
    <3> QED
      BY <1>2, <3>1
  <2> QED
    BY <2>2, <2>3
<1>4. PaidMoney(pay, l) = line[l].price * PaidUnits(pay, l)
  <2>1. line[l].price \in Int
    BY <1>2
  <2> QED
    BY <1>3, <2>1, Finite, SumTimes DEF PaidMoney, PaidUnits
<1>5. Owes(line, pay, c)[l] = line[l].price - PaidMoney(pay, l)
  BY <1>1 DEF Owes
<1>6. line[l].price - line[l].price * PaidUnits(pay, l) = line[l].left * line[l].price
  <2>1. CASE PaidUnits(pay, l) = 0
    BY <1>2, <2>1
  <2>2. CASE PaidUnits(pay, l) = 1
    BY <1>2, <2>2
  <2> QED
    BY <1>2, <2>1, <2>2
<1> QED
  BY <1>1, <1>2, <1>4, <1>5, <1>6

\* what a list of lines adds up
LEMMA BalanceTypes ==
  ASSUME IInv, NEW L \in SUBSET Lines
  PROVE  /\ IsFiniteSet(L)
         /\ \A l \in L : /\ [m \in L |-> line[m].left * line[m].price][l] \in Nat
                         /\ line[l].left * line[l].price \in Nat
         /\ Balance(L) \in Nat
<1>1. L \in SUBSET Line /\ IsFiniteSet(L)
  BY Finite, FS_Subset DEF Lines
<1>2. \A l \in L : line[l].left \in 0..1 /\ line[l].price \in Nat
  BY RowsAre, Numbers DEF IInv, LineRow
<1>3. \A l \in L : line[l].left * line[l].price \in Nat
  BY <1>2
<1> DEFINE f == [m \in L |-> line[m].left * line[m].price]
<1>4. \A l \in L : f[l] \in Nat
  BY <1>3
<1>5. Balance(L) = SumFunctionOnSet(f, L)
  BY DEF Balance
<1>6. SumFunctionOnSet(f, L) \in Nat
  <2> HIDE DEF f
  <2> QED
    BY <1>1, <1>4, SumNat
<1> QED
  BY <1>1, <1>3, <1>4, <1>5, <1>6

LEMMA DebtIsBalance ==
  ASSUME IInv, NEW c \in Customer, Square(c)
  PROVE  debt[c] = Balance(OpenLines(c))
<1> DEFINE L == OpenLines(c)
           f == [m \in L |-> line[m].left * line[m].price]
           w == Owes(line, pay, c)
<1>1. L \in SUBSET Lines /\ L \in SUBSET LinesOf(c) /\ L \in SUBSET Line
  BY DEF OpenLines, LinesOf, Lines
<1>2. IsFiniteSet(L)
  BY <1>1, BalanceTypes
<1>3. \A l \in Line : w[l] \in Int
  BY OwesTypes DEF IInv, DirectoryTypeOK, LineRows, PaymentRows
<1>4. \A l \in L : f[l] = w[l]
  BY <1>1, SquareIs
<1>5. \A l \in Line \ L : w[l] = 0
  <2> SUFFICES ASSUME NEW l \in Line, l \notin L PROVE w[l] = 0
    OBVIOUS
  <2>1. CASE l \in LinesOf(c)
    <3>1. line[l].price \in Nat /\ line[l].left \in 0..1 /\ w[l] = line[l].left * line[l].price
      BY <2>1, SquareIs
    <3>2. line[l].left = 0
      BY <2>1, <3>1 DEF OpenLines
    <3> QED
      BY <3>1, <3>2
  <2>2. CASE l \notin LinesOf(c)
    BY <2>2 DEF Owes, LinesOf, Lines
  <2> QED
    BY <2>1, <2>2
<1>6. debt[c] = SumFunctionOnSet(w, Line) /\ Balance(L) = SumFunctionOnSet(f, L)
  BY DEF IInv, SumsOK, Owed, Balance
<1> HIDE DEF L, f, w
<1>7. SumFunctionOnSet(f, L) = SumFunctionOnSet(w, L)
  BY <1>2, <1>4, SumSame
<1>8. SumFunctionOnSet(w, Line) = SumFunctionOnSet(w, L)
  BY <1>1, <1>3, <1>5, Finite, SumOfPart
<1> QED
  BY <1>6, <1>7, <1>8 DEF L

LEMMA BorrowedIsOutstanding ==
  ASSUME IInv, NEW c \in Customer
  PROVE  /\ borrowed[c] = Outstanding(c)
         /\ borrowed[c] = 0 => OpenLoans(c) = {}
<1> DEFINE B == OpenLoans(c)
           f == [b \in B |-> loan[b].out]
           h == Holds(loan, c)
<1>1. B \in SUBSET Loan /\ IsFiniteSet(B)
  BY Finite, FS_Subset DEF OpenLoans, LoansOf, Loans
<1>2. \A b \in Loan : h[b] \in Nat
  BY HoldsTypes DEF IInv, DirectoryTypeOK, LoanRows
<1>3. \A b \in B : f[b] = h[b] /\ h[b] > 0
  BY DEF Holds, OpenLoans, LoansOf, Loans
<1>4. \A b \in Loan \ B : h[b] = 0
  <2> SUFFICES ASSUME NEW b \in Loan, b \notin B PROVE h[b] = 0
    OBVIOUS
  <2>1. CASE b \in LoansOf(c)
    <3>1. loan[b].out \in 0..1
      BY <2>1, RowsAre DEF LoansOf, IInv, LoanRow
    <3> QED
      BY <2>1, <3>1 DEF OpenLoans, Holds
  <2>2. CASE b \notin LoansOf(c)
    BY <2>2 DEF LoansOf, Loans, Holds
  <2> QED
    BY <2>1, <2>2
<1>5. borrowed[c] = SumFunctionOnSet(h, Loan) /\ Outstanding(c) = SumFunctionOnSet(f, B)
  BY DEF IInv, SumsOK, Held, Outstanding
<1> HIDE DEF B, f, h
<1>6. SumFunctionOnSet(f, B) = SumFunctionOnSet(h, B)
  BY <1>1, <1>3, SumSame
<1>7. SumFunctionOnSet(h, Loan) = SumFunctionOnSet(h, B)
  BY <1>1, <1>2, <1>4, Finite, SumOfPart
<1>8. ASSUME borrowed[c] = 0, NEW b \in B PROVE FALSE
  <2>1. b \in Loan /\ h[b] \in Nat /\ h[b] > 0
    BY <1>1, <1>2, <1>3
  <2>2. SumFunctionOnSet(h, {b}) = h[b]
    BY <2>1, SumOne
  <2>3. SumFunctionOnSet(h, {b}) <= SumFunctionOnSet(h, Loan)
    <3>1. {b} \in SUBSET Loan
      BY <2>1
    <3> QED
      BY <1>2, <3>1, Finite, SumPartAtMost
  <2> QED
    BY <1>5, <1>8, <2>1, <2>2, <2>3
<1> QED
  BY <1>5, <1>6, <1>7, <1>8 DEF B

\* the lines of some customers
LinesOfAll(C) == UNION {OpenLines(c) : c \in C}

\* When the debt of each customer is what its open lines add up to, so is the debt
\* of all: no line is of two customers.
LEMMA DebtIsBalanceOfAll ==
  ASSUME IInv, \A c \in Customer : Square(c)
  PROVE  DebtOf(Customer) = Balance(LinesOfAll(Customer))
<1> DEFINE C == {S \in SUBSET Customer : DebtOf(S) # Balance(LinesOfAll(S))}
<1>1. SUFFICES ASSUME C # {} PROVE FALSE
  <2>1. Customer \notin C
    BY <1>1
  <2> QED
    BY <2>1
<1>2. PICK S \in C : \A U \in C : ~(U \subseteq S /\ U # S)
  <2>1. C \subseteq SUBSET Customer
    OBVIOUS
  <2> HIDE DEF C
  <2> QED
    BY <1>1, <2>1, Finite, LeastSet
<1>3. S \in SUBSET Customer /\ IsFiniteSet(S)
  BY <1>2, Finite, FS_Subset
<1>4. S # {}
  <2>1. DebtOf({}) = 0
    BY SumEmpty DEF DebtOf
  <2>2. LinesOfAll({}) = {}
    BY DEF LinesOfAll
  <2>3. Balance({}) = 0
    BY SumEmpty DEF Balance
  <2> QED
    BY <1>2, <2>1, <2>2, <2>3
<1> DEFINE e == First(S)
           R == S \ {e}
           L == LinesOfAll(S)
           M == LinesOfAll(R)
           E == OpenLines(e)
           f == [m \in L |-> line[m].left * line[m].price]
           g == [m \in M |-> line[m].left * line[m].price]
           h == [m \in E |-> line[m].left * line[m].price]
<1>5. e \in S /\ DebtOf(S) = debt[e] + DebtOf(R)
  BY <1>3, <1>4, SumFirst DEF DebtOf
<1>6. DebtOf(R) = Balance(M)
  <2>1. R \in SUBSET Customer /\ R # S /\ R \subseteq S
    BY <1>3, <1>5
  <2> HIDE DEF R, e
  <2>2. R \notin C
    BY <1>2, <2>1
  <2> QED
    BY <2>1, <2>2
<1>7. debt[e] = Balance(E)
  BY <1>3, <1>5, DebtIsBalance
<1>8. Balance(L) = Balance(E) + Balance(M)
  <2>1. L \in SUBSET Lines /\ E \in SUBSET L /\ M = L \ E /\ M \in SUBSET Lines /\ E \in SUBSET Lines
    <3>1. \A c \in S : \A l \in OpenLines(c) : l \in Lines /\ line[l].who = c
      BY DEF OpenLines, LinesOf
    <3>2. S = R \cup {e} /\ e \in S /\ e \notin R
      BY <1>5
    <3> HIDE DEF R, e
    <3> QED
      BY <3>1, <3>2 DEF LinesOfAll
  <2>2. /\ Balance(L) = SumFunctionOnSet(f, L) /\ Balance(M) = SumFunctionOnSet(g, M)
        /\ Balance(E) = SumFunctionOnSet(h, E)
    BY DEF Balance
  <2> HIDE DEF L, M, E, R, e
  <2>3. IsFiniteSet(L) /\ IsFiniteSet(M) /\ IsFiniteSet(E) /\ \A l \in L : f[l] \in Int
    BY <2>1, BalanceTypes
  <2>4. (\A l \in E : f[l] = h[l]) /\ \A l \in M : f[l] = g[l]
    BY <2>1
  <2> HIDE DEF f, g, h
  <2>5. SumFunctionOnSet(f, L) = SumFunctionOnSet(f, E) + SumFunctionOnSet(f, L \ E)
    BY <2>1, <2>3, SumSplit
  <2>6. SumFunctionOnSet(f, E) = SumFunctionOnSet(h, E) /\ SumFunctionOnSet(f, M) = SumFunctionOnSet(g, M)
    BY <2>3, <2>4, SumSame
  <2> QED
    BY <2>1, <2>2, <2>5, <2>6
<1> HIDE DEF e, R, L, M, E
<1>9. DebtOf(S) = Balance(L)
  BY <1>5, <1>6, <1>7, <1>8
<1> QED
  BY <1>2, <1>9 DEF L

\* Debts are not negative, so those who have none may be left out of a sum.
LEMMA DebtOfPart ==
  ASSUME IInv, NEW C \in SUBSET Customer, NEW D \in SUBSET C, \A c \in C \ D : debt[c] = 0
  PROVE  DebtOf(C) = DebtOf(D)
<1>1. IsFiniteSet(C) /\ \A c \in C : debt[c] \in Int
  BY Finite, FS_Subset DEF IInv, DirectoryTypeOK
<1> QED
  BY <1>1, SumOfPart DEF DebtOf

LEMMA DebtsAlwaysAgree ==
  ASSUME IInv
  PROVE  DebtsAgree
<1>0. /\ \A c \in Customer : debt[c] \in Nat
      /\ \A c \in Customer : state[c] \in {"none", "active", "deleted"}
      /\ \A c \in Customer : state[c] = "none" => debt[c] = 0
  BY DEF IInv, DirectoryTypeOK, OwnersOK
<1>1. \A c \in Customer : Square(c) => debt[c] = Balance(OpenLines(c))
  BY DebtIsBalance
<1> DEFINE A == {c \in Customer : Alive(c)}
           I == {c \in Customer : Alive(c) /\ HasDebt(c)}
           H == {c \in Customer : HasDebt(c)}
           D == {c \in Customer : state[c] = "deleted"}
<1>2. DebtOf(Customer) = DebtOf(H)
  <2>1. H \in SUBSET Customer /\ \A c \in Customer \ H : debt[c] = 0
    BY <1>0 DEF HasDebt
  <2> HIDE DEF H
  <2> QED
    BY <2>1, DebtOfPart
<1>3. DebtOf(A) = DebtOf(I)
  <2>1. A \in SUBSET Customer /\ I \in SUBSET A /\ \A c \in A \ I : debt[c] = 0
    BY <1>0 DEF HasDebt
  <2> HIDE DEF A, I
  <2> QED
    BY <2>1, DebtOfPart
<1>4. DebtOf(Customer) = DebtOf(A) + DebtOf(D)
  <2>1. /\ A \in SUBSET Customer /\ D \in SUBSET (Customer \ A) /\ Customer \ A \in SUBSET Customer
        /\ \A c \in (Customer \ A) \ D : debt[c] = 0
    BY <1>0 DEF Alive
  <2> HIDE DEF A, D
  <2>2. DebtOf(Customer) = DebtOf(A) + DebtOf(Customer \ A)
    BY <1>0, <2>1, Finite, SumSplit DEF DebtOf
  <2>3. DebtOf(Customer \ A) = DebtOf(D)
    BY <2>1, DebtOfPart
  <2> QED
    BY <2>2, <2>3
<1>5. DebtOf(I) \in Int /\ DebtOf(D) \in Int /\ DebtOf(A) \in Int
  <2>1. I \in SUBSET Customer /\ D \in SUBSET Customer /\ A \in SUBSET Customer
    OBVIOUS
  <2> HIDE DEF I, D, A
  <2> QED
    BY <1>0, <2>1, Finite, FS_Subset, SumType DEF DebtOf
<1>6. /\ OutstandingOnSummary = DebtOf(I) /\ OutstandingOnDashboard = DebtOf(A)
      /\ OutstandingInTrends = DebtOf(H)
  BY DEF OutstandingOnSummary, OutstandingOnDashboard, OutstandingInTrends
<1>7. (\A c \in Customer : Square(c)) =>
        OutstandingInTrends = Balance(UNION {OpenLines(c) : c \in Customer})
  BY <1>2, <1>6, DebtIsBalanceOfAll DEF LinesOfAll
<1>8. OutstandingOnDashboard = OutstandingOnSummary
  BY <1>3, <1>6
<1>9. OutstandingInTrends - OutstandingOnSummary = DebtOf({c \in Customer : state[c] = "deleted"})
  <2> HIDE DEF A, I, H, D
  <2>1. DebtOf(H) - DebtOf(I) = DebtOf(D)
    BY <1>2, <1>3, <1>4, <1>5
  <2>2. OutstandingInTrends - OutstandingOnSummary = DebtOf(D)
    BY <1>6, <2>1
  <2> QED
    BY <2>2 DEF D
<1> QED
  BY <1>1, <1>7, <1>8, <1>9 DEF DebtsAgree

\* Whatever is recorded, paid, corrected and removed, by however many workers, the
\* counters of a customer say what its rows say, and the pages agree.
THEOREM ListsAlwaysAgree == Spec => []ListsAgree
<1>1. ASSUME IInv PROVE ListsAgree
  <2>0. \A c \in Customer : debt[c] \in Nat /\ borrowed[c] \in Nat
    BY <1>1 DEF IInv, DirectoryTypeOK
  <2>1. LoansAgree
    BY <1>1, BorrowedIsOutstanding DEF LoansAgree
  <2>2. DebtsAgree
    BY <1>1, DebtsAlwaysAgree
  <2>3. ASSUME NEW c \in Customer, Alive(c)
        PROVE  CanDelete(c) <=> c \notin TableRows("has_debt") \cup TableRows("has_borrowed")
    <3>1. /\ c \in TableRows("has_debt") <=> HasDebt(c)
          /\ c \in TableRows("has_borrowed") <=> HasBorrowed(c)
      BY <2>3 DEF TableRows
    <3> QED
      BY <2>0, <3>1 DEF CanDelete, HasBorrowed
  <2>4. ASSUME NEW c \in Customer, CanDelete(c)
        PROVE  /\ OpenLoans(c) = {}
               /\ Square(c) => \A l \in OpenLines(c) : line[l].price = 0
    <3>1. borrowed[c] = 0 /\ debt[c] = 0
      BY <2>0, <2>4 DEF CanDelete, HasDebt
    <3>2. OpenLoans(c) = {}
      BY <1>1, <3>1, BorrowedIsOutstanding
    <3>3. ASSUME Square(c), NEW l \in OpenLines(c) PROVE line[l].price = 0
      <4> DEFINE L == OpenLines(c)
                 f == [m \in L |-> line[m].left * line[m].price]
      <4>1. L \in SUBSET Lines /\ l \in L /\ l \in LinesOf(c) /\ line[l].left > 0
        BY <3>3 DEF OpenLines, LinesOf
      <4>2. Balance(L) = 0 /\ Balance(L) = SumFunctionOnSet(f, L)
        BY <1>1, <3>1, <3>3, DebtIsBalance DEF Balance
      <4>3. IsFiniteSet(L) /\ (\A m \in L : f[m] \in Nat) /\ f[l] = line[l].left * line[l].price
        BY <1>1, <4>1, BalanceTypes
      <4>4. line[l].price \in Nat /\ line[l].left \in 0..1
        BY <1>1, <3>3, <4>1, SquareIs
      <4> HIDE DEF f, L
      <4>5. SumFunctionOnSet(f, {l}) = f[l] /\ SumFunctionOnSet(f, {l}) <= SumFunctionOnSet(f, L)
        <5>1. {l} \in SUBSET L /\ f[l] \in Int
          BY <4>1, <4>3
        <5> QED
          BY <4>3, <5>1, SumOne, SumPartAtMost
      <4>6. line[l].left = 1
        BY <4>1, <4>4
      <4> QED
        BY <4>2, <4>3, <4>4, <4>5, <4>6
    <3> QED
      BY <3>2, <3>3
  <2> QED
    BY <2>1, <2>2, <2>3, <2>4 DEF ListsAgree
<1> QED
  BY <1>1, Inductive, PTL

=============================================================================
