-------------------------- MODULE ContainersProofs --------------------------
(***************************************************************************)
(* The containers lent, for any number of clerks, customers, loans and     *)
(* kinds of container: the counters of a customer are what the loans       *)
(* amount to.                                                              *)
(***************************************************************************)
EXTENDS Containers, Sums, TLAPS

USE ContainersAssumption

(***************************************************************************)
(* The inductive invariant.                                                *)
(***************************************************************************)
Payer(B) == CHOOSE c \in Customer : \E b \in B : c = Owner[b]

\* A transaction is about loans of one customer.
Named(t) ==
  /\ t.pc = "idle" <=> t.op = "none"
  /\ t.pc = "lock" => t.op = "return"
  /\ t.op # "none" => t.loans # {}
  /\ \A a, b \in t.loans : Owner[a] = Owner[b]
  /\ t.op \in {"lend", "edit", "delete"} => \E b \in Loan : t.loans = {b}
  /\ t.op \in {"lend", "edit"} => t.kind \in Kind /\ t.borrowed > 0

\* What it has read of the loans it has locked, or is about to insert, is
\* still so, and what it adds to the counters follows from it.
ReadOK(t) ==
  /\ t.op = "lend" => \A b \in t.loans : ~Live(b)
  /\ t.op = "return" /\ t.pc # "lock" =>
       \A b \in t.loans : b \in t.has /\ Live(b) /\ t.returned[b] =< Remaining(b)
  /\ t.op = "edit" =>
       \A b \in t.loans : /\ b \in t.has /\ Live(b) /\ t.kind = loan[b].kind
                          /\ t.returned[b] =< t.borrowed
                          /\ t.delta = (t.borrowed - t.returned[b]) - Remaining(b)
  /\ t.op = "delete" =>
       \A b \in t.loans : /\ b \in t.has /\ Live(b) /\ t.kind = loan[b].kind
                          /\ t.delta = -Remaining(b)
  /\ t.pc = "commit" => Payer(t.loans) \in t.has

LocksExclude == \A j, k \in Clerk : tx[j].has \cap tx[k].has # {} => j = k

\* nobody else refers to the loan a transaction is about to insert
Reserved ==
  \A j, k \in Clerk : tx[k].op = "lend" /\ tx[j].loans \cap tx[k].loans # {} => j = k

CInv ==
  /\ TypeOK
  /\ \A k \in Clerk : Named(tx[k]) /\ ReadOK(tx[k])
  /\ LocksExclude /\ Reserved
  /\ CountersAddUp

LEMMA OwnerIsPayer ==
  ASSUME NEW k \in Clerk
  PROVE  OwnerOf(k) = Payer(tx[k].loans)
BY DEF OwnerOf, Payer

LEMMA PayerOwns ==
  ASSUME NEW B \in SUBSET Loan, \A a, b \in B : Owner[a] = Owner[b], B # {}
  PROVE  Payer(B) \in Customer /\ \A b \in B : Owner[b] = Payer(B)
<1>1. PICK a \in B : TRUE
  OBVIOUS
<1>2. Owner[a] \in Customer /\ \A c \in Customer : (\E b \in B : c = Owner[b]) <=> c = Owner[a]
  BY <1>1
<1>3. Payer(B) = Owner[a]
  BY <1>2 DEF Payer
<1> QED
  BY <1>2, <1>3

\* What a loan that is there has, and one that is not.
LEMMA LoanRow ==
  ASSUME TypeOK, NEW b \in Loan
  PROVE  /\ loan[b] = NoLoan \/ loan[b] \in [kind : Kind, borrowed : 1..MaxQty, returned : 0..MaxQty]
         /\ Live(b) => loan[b] \in [kind : Kind, borrowed : 1..MaxQty, returned : 0..MaxQty]
         /\ ~Live(b) => loan[b] = NoLoan
         /\ loan[b].borrowed \in 0..MaxQty /\ loan[b].returned \in 0..MaxQty
         /\ Remaining(b) \in Int
BY DEF TypeOK, Live, Remaining, NoLoan

LEMMA NoTxOK == NoTx \in Tx /\ Named(NoTx) /\ ReadOK(NoTx) /\ NoTx.has = {} /\ NoTx.loans = {}
BY DEF NoTx, Tx, Named, ReadOK

-----------------------------------------------------------------------------
(* Steps that change no row. *)

LEMMA TxStep ==
  ASSUME CInv, NEW k \in Clerk, NEW t \in Tx, Proceed(k, t), Named(t), ReadOK(t),
         \A x \in t.has : x \in tx[k].has \/ Free(x, k),
         \A j \in Clerk \ {k} : t.op = "lend" \/ tx[j].op = "lend" => t.loans \cap tx[j].loans = {}
  PROVE  CInv'
<1>1. tx'[k] = t /\ (\A j \in Clerk \ {k} : tx'[j] = tx[j]) /\ loan' = loan /\ counter' = counter
  BY DEF Proceed, CInv, TypeOK
<1>2. TypeOK'
  BY <1>1 DEF Proceed, CInv, TypeOK
<1>3. \A j \in Clerk : (Named(tx[j]) /\ ReadOK(tx[j]))'
  BY <1>1 DEF CInv, Named, ReadOK, Live, Remaining
<1>4. LocksExclude'
  BY <1>1 DEF CInv, LocksExclude, Free
<1>5. Reserved'
  BY <1>1 DEF CInv, Reserved
<1>6. CountersAddUp'
  <2>1. [b \in Loan |-> Remaining(b)]' = [b \in Loan |-> Remaining(b)]
    BY <1>1 DEF Remaining
  <2>2. \A b \in Loan : Remaining(b)' = Remaining(b)
    BY <1>1 DEF Remaining
  <2> QED
    BY <1>1, <2>1, <2>2 DEF CInv, CountersAddUp
<1> QED
  BY <1>2, <1>3, <1>4, <1>5, <1>6 DEF CInv

LEMMA RefuseStep ==
  ASSUME CInv, NEW k \in Clerk, Refuse(k)
  PROVE  CInv'
<1>1. Proceed(k, NoTx)
  BY DEF Refuse, End, Proceed
<1>2. NoTx.op = "none"
  BY DEF NoTx
<1> QED
  BY <1>1, <1>2, NoTxOK, TxStep

\* A transaction that goes on with the loans and the numbers it has.
LEMMA GoesOn ==
  ASSUME CInv, NEW k \in Clerk, NEW t \in Tx, Proceed(k, t), tx[k].op # "none",
         t.op = tx[k].op, t.loans = tx[k].loans, t.kind = tx[k].kind, t.borrowed = tx[k].borrowed,
         t.pc \in {"lock", "customer", "commit"}, t.pc = "lock" => tx[k].pc = "lock",
         ReadOK(t), \A x \in t.has : x \in tx[k].has \/ Free(x, k)
  PROVE  CInv'
<1>1. Named(tx[k])
  BY DEF CInv
<1>2. Named(t)
  BY <1>1 DEF Named
<1>3. \A j \in Clerk \ {k} : t.op = "lend" \/ tx[j].op = "lend" => t.loans \cap tx[j].loans = {}
  BY DEF CInv, Reserved
<1> QED
  BY <1>2, <1>3, TxStep

-----------------------------------------------------------------------------
(* The requests. *)

\* A transaction is the record of its fields.
TxIs(t) ==
  t = [op |-> t.op, pc |-> t.pc, loans |-> t.loans, kind |-> t.kind, borrowed |-> t.borrowed,
       returned |-> t.returned, delta |-> t.delta, has |-> t.has]

LEMMA Zeros ==
  [b \in Loan |-> 0] \in [Loan -> 0..MaxQty] /\ 0 \in 0..MaxQty /\ 0 \in -MaxQty..MaxQty
OBVIOUS

\* A loan that is there is nobody's to insert.
LEMMA LiveIsKnown ==
  ASSUME CInv, NEW j \in Clerk, tx[j].op = "lend", NEW B \in SUBSET Loan, \A b \in B : Live(b)
  PROVE  B \cap tx[j].loans = {}
BY DEF CInv, ReadOK

LEMMA LendStep ==
  ASSUME CInv, NEW k \in Clerk, NEW b \in Loan, NEW f \in Kind, NEW q \in 1..MaxQty,
         RequestLend(k, b, f, q)
  PROVE  CInv'
<1>0. PICK t : t = [NoTx EXCEPT !.op = "lend", !.pc = "customer", !.loans = {b}, !.kind = f,
                                !.borrowed = q]
  OBVIOUS
<1>1. Proceed(k, t) /\ Unused(b)
  BY <1>0 DEF RequestLend
<1>2. /\ t \in Tx /\ t.op = "lend" /\ t.pc = "customer" /\ t.loans = {b}
      /\ t.kind = f /\ t.borrowed = q /\ t.has = {}
  <2>1. /\ TxIs(t) /\ t.op = "lend" /\ t.pc = "customer" /\ t.loans = {b} /\ t.has = {}
        /\ t.kind = f /\ t.borrowed = q /\ t.delta = 0 /\ t.returned = [a \in Loan |-> 0]
    BY <1>0 DEF NoTx, TxIs
  <2> QED
    BY <2>1, Zeros DEF TxIs, Tx
<1>3. Named(t)
  BY <1>2 DEF Named
<1>4. ReadOK(t)
  BY <1>1, <1>2 DEF ReadOK, Unused
<1>5. \A j \in Clerk : t.loans \cap tx[j].loans = {}
  BY <1>1, <1>2 DEF Unused
<1> QED
  BY <1>1, <1>2, <1>3, <1>4, <1>5, TxStep

LEMMA ReturnStep ==
  ASSUME CInv, NEW k \in Clerk, NEW c \in Customer, NEW qty \in [Loan -> 0..MaxQty],
         RequestReturn(k, c, qty)
  PROVE  CInv'
<1> DEFINE B == {b \in Loan : qty[b] > 0}
<1>0. PICK t : t = [NoTx EXCEPT !.op = "return", !.pc = "lock", !.loans = B, !.returned = qty]
  OBVIOUS
<1>1. Proceed(k, t) /\ B # {} /\ \A b \in B : Owner[b] = c /\ Live(b)
  BY <1>0 DEF RequestReturn
<1>2. /\ t \in Tx /\ t.op = "return" /\ t.pc = "lock" /\ t.loans = B
      /\ t.returned = qty /\ t.has = {}
  <2>1. /\ TxIs(t) /\ t.op = "return" /\ t.pc = "lock" /\ t.loans = B /\ t.has = {}
        /\ t.kind = NoKind /\ t.borrowed = 0 /\ t.delta = 0 /\ t.returned = qty
    BY <1>0 DEF NoTx, TxIs
  <2> QED
    BY <2>1, Zeros DEF TxIs, Tx
<1>3. Named(t)
  BY <1>1, <1>2 DEF Named
<1>4. ReadOK(t)
  BY <1>2 DEF ReadOK
<1>5. \A j \in Clerk : tx[j].op = "lend" => t.loans \cap tx[j].loans = {}
  BY <1>1, <1>2, LiveIsKnown
<1> QED
  BY <1>1, <1>2, <1>3, <1>4, <1>5, TxStep

\* What is read with the lock on a loan.
LEMMA LoanRead ==
  ASSUME CInv, NEW b \in Loan, Live(b)
  PROVE  Remaining(b) \in 0..MaxQty /\ loan[b].kind \in Kind
<1>1. Remaining(b) >= 0
  BY DEF CInv, CountersAddUp
<1> QED
  BY <1>1, LoanRow DEF CInv, Remaining

LEMMA EditStep ==
  ASSUME CInv, NEW k \in Clerk, NEW b \in Loan, NEW q \in 1..MaxQty, NEW r \in 0..MaxQty,
         RequestEdit(k, b, q, r)
  PROVE  CInv'
<1> DEFINE d == (q - r) - Remaining(b)
<1>0. PICK t : t = [NoTx EXCEPT !.op = "edit", !.pc = "customer", !.loans = {b},
                                !.kind = loan[b].kind, !.borrowed = q, !.returned = Only(b, r),
                                !.delta = d, !.has = {b}]
  OBVIOUS
<1>1. Proceed(k, t) /\ Live(b) /\ Free(b, k) /\ r =< q
  BY <1>0 DEF RequestEdit
<1>2. Remaining(b) \in 0..MaxQty /\ loan[b].kind \in Kind
  BY <1>1, LoanRead
<1>3. d \in -MaxQty..MaxQty
  BY <1>1, <1>2
<1>4. Only(b, r) \in [Loan -> 0..MaxQty] /\ Only(b, r)[b] = r
  BY DEF Only
<1>5. /\ t \in Tx /\ t.op = "edit" /\ t.pc = "customer" /\ t.loans = {b} /\ t.kind = loan[b].kind
      /\ t.borrowed = q /\ t.returned = Only(b, r) /\ t.delta = d /\ t.has = {b}
  <2>1. /\ TxIs(t) /\ t.op = "edit" /\ t.pc = "customer" /\ t.loans = {b} /\ t.has = {b}
        /\ t.kind = loan[b].kind /\ t.borrowed = q /\ t.delta = d /\ t.returned = Only(b, r)
    BY <1>0 DEF NoTx, TxIs
  <2> HIDE DEF d
  <2> QED
    BY <1>2, <1>3, <1>4, <2>1 DEF TxIs, Tx
<1>6. Named(t)
  BY <1>2, <1>5 DEF Named
<1>7. ReadOK(t)
  BY <1>1, <1>4, <1>5 DEF ReadOK
<1>8. \A j \in Clerk : tx[j].op = "lend" => t.loans \cap tx[j].loans = {}
  BY <1>1, <1>5, LiveIsKnown
<1> QED
  BY <1>1, <1>5, <1>6, <1>7, <1>8, TxStep

LEMMA DeleteStep ==
  ASSUME CInv, NEW k \in Clerk, NEW b \in Loan, RequestDelete(k, b)
  PROVE  CInv'
<1> DEFINE d == -Remaining(b)
<1>0. PICK t : t = [NoTx EXCEPT !.op = "delete", !.pc = "customer", !.loans = {b},
                                !.kind = loan[b].kind, !.delta = d, !.has = {b}]
  OBVIOUS
<1>1. Proceed(k, t) /\ Live(b) /\ Free(b, k)
  BY <1>0 DEF RequestDelete
<1>2. Remaining(b) \in 0..MaxQty /\ loan[b].kind \in Kind
  BY <1>1, LoanRead
<1>3. d \in -MaxQty..MaxQty
  BY <1>2
<1>4. /\ t \in Tx /\ t.op = "delete" /\ t.pc = "customer" /\ t.loans = {b}
      /\ t.kind = loan[b].kind /\ t.delta = d /\ t.has = {b}
  <2>1. /\ TxIs(t) /\ t.op = "delete" /\ t.pc = "customer" /\ t.loans = {b} /\ t.has = {b}
        /\ t.kind = loan[b].kind /\ t.borrowed = 0 /\ t.delta = d
        /\ t.returned = [a \in Loan |-> 0]
    BY <1>0 DEF NoTx, TxIs
  <2> HIDE DEF d
  <2> QED
    BY <1>2, <1>3, <2>1, Zeros DEF TxIs, Tx
<1>5. Named(t)
  BY <1>2, <1>4 DEF Named
<1>6. ReadOK(t)
  BY <1>1, <1>4 DEF ReadOK
<1>7. \A j \in Clerk : tx[j].op = "lend" => t.loans \cap tx[j].loans = {}
  BY <1>1, <1>4, LiveIsKnown
<1> QED
  BY <1>1, <1>4, <1>5, <1>6, <1>7, TxStep

-----------------------------------------------------------------------------
(* The locks. *)

\* A transaction with other locks, or at another step.
LEMMA WithHas ==
  ASSUME NEW t \in Tx, NEW h \in SUBSET (Loan \cup Customer)
  PROVE  LET u == [t EXCEPT !.has = h]
         IN  /\ u \in Tx /\ u.has = h
             /\ u.op = t.op /\ u.pc = t.pc /\ u.loans = t.loans /\ u.kind = t.kind
             /\ u.borrowed = t.borrowed /\ u.returned = t.returned /\ u.delta = t.delta
BY DEF Tx

LEMMA WithPc ==
  ASSUME NEW t \in Tx, NEW p \in {"customer", "commit"}
  PROVE  LET u == [t EXCEPT !.pc = p]
         IN  /\ u \in Tx /\ u.pc = p
             /\ u.op = t.op /\ u.has = t.has /\ u.loans = t.loans /\ u.kind = t.kind
             /\ u.borrowed = t.borrowed /\ u.returned = t.returned /\ u.delta = t.delta
BY DEF Tx

LEMMA LockLoanStep ==
  ASSUME CInv, NEW k \in Clerk, LockLoan(k)
  PROVE  CInv'
<1>1. PICK b \in tx[k].loans \ tx[k].has :
           Free(b, k) /\ Proceed(k, [tx[k] EXCEPT !.has = tx[k].has \cup {b}])
  BY DEF LockLoan
<1> DEFINE t == [tx[k] EXCEPT !.has = tx[k].has \cup {b}]
<1>2. tx[k] \in Tx /\ Named(tx[k]) /\ ReadOK(tx[k]) /\ tx[k].pc = "lock"
  BY DEF CInv, TypeOK, LockLoan
<1>3. tx[k].has \cup {b} \in SUBSET (Loan \cup Customer)
  BY <1>1, <1>2 DEF Tx
<1>4. /\ t \in Tx /\ t.has = tx[k].has \cup {b}
      /\ t.op = tx[k].op /\ t.pc = tx[k].pc /\ t.loans = tx[k].loans /\ t.kind = tx[k].kind
      /\ t.borrowed = tx[k].borrowed /\ t.returned = tx[k].returned /\ t.delta = tx[k].delta
  BY <1>2, <1>3, WithHas
<1> HIDE DEF t
<1>5. ReadOK(t)
  BY <1>2, <1>4 DEF ReadOK, Named
<1> QED
  BY <1>1, <1>2, <1>4, <1>5, GoesOn DEF t, Named

LEMMA RecheckStep ==
  ASSUME CInv, NEW k \in Clerk, Recheck(k)
  PROVE  CInv'
<1> DEFINE t == [tx[k] EXCEPT !.pc = "customer"]
<1>1. CASE Refuse(k)
  BY <1>1, RefuseStep
<1>2. CASE /\ \A b \in tx[k].loans : Live(b) /\ tx[k].returned[b] =< Remaining(b)
           /\ Proceed(k, t)
  <2>1. /\ tx[k] \in Tx /\ Named(tx[k]) /\ ReadOK(tx[k]) /\ tx[k].pc = "lock"
        /\ tx[k].loans \subseteq tx[k].has
    BY DEF CInv, TypeOK, Recheck
  <2>2. /\ t \in Tx /\ t.pc = "customer"
        /\ t.op = tx[k].op /\ t.has = tx[k].has /\ t.loans = tx[k].loans /\ t.kind = tx[k].kind
        /\ t.borrowed = tx[k].borrowed /\ t.returned = tx[k].returned /\ t.delta = tx[k].delta
    BY <2>1, WithPc
  <2> HIDE DEF t
  <2>3. ReadOK(t)
    BY <1>2, <2>1, <2>2 DEF ReadOK, Named
  <2> QED
    BY <1>2, <2>1, <2>2, <2>3, GoesOn DEF Named
<1> QED
  BY <1>1, <1>2 DEF Recheck

LEMMA LockCustomerStep ==
  ASSUME CInv, NEW k \in Clerk, LockCustomer(k)
  PROVE  CInv'
<1> DEFINE c == OwnerOf(k)
           h == tx[k].has \cup {c}
<1>0. PICK t : t = [tx[k] EXCEPT !.pc = "commit", !.has = h]
  OBVIOUS
<1>1. CASE Refuse(k)
  BY <1>1, RefuseStep
<1>2. CASE Proceed(k, t)
  <2>1. /\ tx[k] \in Tx /\ Named(tx[k]) /\ ReadOK(tx[k]) /\ tx[k].pc = "customer" /\ Free(c, k)
    BY DEF CInv, TypeOK, LockCustomer
  <2>2. c = Payer(tx[k].loans) /\ c \in Customer
    BY <2>1, OwnerIsPayer, PayerOwns DEF Tx, Named
  <2>3. h \in SUBSET (Loan \cup Customer)
    BY <2>1, <2>2 DEF Tx
  <2> HIDE DEF c, h
  <2>4. /\ t \in Tx /\ t.pc = "commit" /\ t.has = h
        /\ t.op = tx[k].op /\ t.loans = tx[k].loans /\ t.kind = tx[k].kind
        /\ t.borrowed = tx[k].borrowed /\ t.returned = tx[k].returned /\ t.delta = tx[k].delta
    BY <1>0, <2>1, <2>3 DEF Tx
  <2>5. ReadOK(t)
    BY <2>1, <2>2, <2>4 DEF ReadOK, h
  <2> QED
    BY <1>2, <2>1, <2>4, <2>5, GoesOn DEF Named, h
<1> QED
  BY <1>0, <1>1, <1>2 DEF LockCustomer

-----------------------------------------------------------------------------
(* The commit. *)

\* what the loans L of a customer have of a kind
Worth(L, c, f) ==
  [b \in Loan |-> IF Owner[b] = c /\ L[b].kind = f THEN L[b].borrowed - L[b].returned ELSE 0]

\* what a transaction adds to it
Gain(t, c, f) ==
  [b \in Loan |->
     IF b \notin t.loans \/ Owner[b] # c THEN 0
     ELSE IF t.op = "return" THEN (IF loan[b].kind = f THEN -t.returned[b] ELSE 0)
     ELSE IF f # t.kind THEN 0
     ELSE IF t.op = "lend" THEN t.borrowed ELSE t.delta]

\* The sum over the loans of one kind, as a sum over all of them.
LEMMA WorthIs ==
  ASSUME NEW L, \A b \in Loan : L[b].borrowed \in Int /\ L[b].returned \in Int,
         NEW c \in Customer, NEW f \in Kind
  PROVE  SumFunctionOnSet([b \in Loan |-> L[b].borrowed - L[b].returned],
                          {b \in Loan : Owner[b] = c /\ L[b].kind = f})
           = SumFunctionOnSet(Worth(L, c, f), Loan)
<1> DEFINE S == {b \in Loan : Owner[b] = c /\ L[b].kind = f}
           r == [b \in Loan |-> L[b].borrowed - L[b].returned]
           w == Worth(L, c, f)
<1>1. S \in SUBSET Loan /\ IsFiniteSet(S)
  BY FS_Subset
<1>2. (\A b \in S : r[b] = w[b]) /\ (\A b \in Loan \ S : w[b] = 0) /\ \A b \in Loan : w[b] \in Int
  BY DEF Worth
<1> HIDE DEF S, r, w
<1>3. SumFunctionOnSet(r, S) = SumFunctionOnSet(w, S)
  BY <1>1, <1>2, SumSame
<1>4. SumFunctionOnSet(w, Loan) = SumFunctionOnSet(w, S)
  BY <1>1, <1>2, SumOfPart
<1> QED
  BY <1>3, <1>4 DEF S, r, w

\* A loan after a commit.
LEMMA CommitRow ==
  ASSUME CInv, NEW k \in Clerk, Commit(k), NEW b \in Loan
  PROVE  /\ loan'[b] \in {NoLoan} \cup [kind : Kind, borrowed : 1..MaxQty, returned : 0..MaxQty]
         /\ loan'[b].borrowed - loan'[b].returned >= 0
         /\ b \notin tx[k].loans => loan'[b] = loan[b]
         /\ \A c \in Customer, f \in Kind :
              /\ Worth(loan, c, f)[b] \in Int /\ Gain(tx[k], c, f)[b] \in Int
              /\ Worth(loan', c, f)[b] = Worth(loan, c, f)[b] + Gain(tx[k], c, f)[b]
<1> DEFINE t == tx[k]
<1>0. /\ t \in Tx /\ Named(t) /\ ReadOK(t) /\ t.pc = "commit"
      /\ loan'[b] = LoanAfter(k, b)
      /\ Remaining(b) >= 0
  BY DEF CInv, TypeOK, CountersAddUp, Commit
<1>1. /\ t.returned[b] \in 0..MaxQty /\ t.borrowed \in 0..MaxQty /\ t.delta \in -MaxQty..MaxQty
      /\ t.op \in {"none", "lend", "return", "edit", "delete"} /\ t.op # "none"
  BY <1>0 DEF Tx, Named
<1>2. /\ loan[b] = NoLoan \/ loan[b] \in [kind : Kind, borrowed : 1..MaxQty, returned : 0..MaxQty]
      /\ Live(b) => loan[b] \in [kind : Kind, borrowed : 1..MaxQty, returned : 0..MaxQty]
      /\ ~Live(b) => loan[b] = NoLoan
      /\ loan[b].borrowed \in 0..MaxQty /\ loan[b].returned \in 0..MaxQty
  BY LoanRow DEF CInv
<1>3. CASE b \notin t.loans
  <2>1. loan'[b] = loan[b]
    BY <1>0, <1>3 DEF LoanAfter
  <2> QED
    BY <1>0, <1>2, <1>3, <2>1 DEF Worth, Gain, Remaining
<1>4. CASE b \in t.loans /\ t.op = "lend"
  <2>1. loan'[b] = [kind |-> t.kind, borrowed |-> t.borrowed, returned |-> 0]
    BY <1>0, <1>4 DEF LoanAfter
  <2>2. loan[b] = NoLoan /\ t.kind \in Kind /\ t.borrowed > 0
    BY <1>0, <1>2, <1>4 DEF ReadOK, Named
  <2> QED
    BY <1>1, <1>4, <2>1, <2>2 DEF Worth, Gain, NoLoan
<1>5. CASE b \in t.loans /\ t.op = "return"
  <2>1. Live(b) /\ t.returned[b] =< Remaining(b)
    BY <1>0, <1>5 DEF ReadOK
  <2>2. loan'[b] = [loan[b] EXCEPT !.returned = loan[b].returned + t.returned[b]]
    BY <1>0, <1>5 DEF LoanAfter
  <2>3. loan'[b] = [kind |-> loan[b].kind, borrowed |-> loan[b].borrowed,
                    returned |-> loan[b].returned + t.returned[b]]
    BY <1>2, <2>1, <2>2
  <2>4. loan[b].returned + t.returned[b] \in 0..MaxQty /\ loan[b].kind \in Kind /\ loan[b].borrowed \in 1..MaxQty
    BY <1>1, <1>2, <2>1 DEF Remaining
  <2> QED
    BY <1>1, <1>2, <1>5, <2>1, <2>3, <2>4 DEF Worth, Gain, Remaining
<1>6. CASE b \in t.loans /\ t.op = "edit"
  <2>1. /\ Live(b) /\ t.kind = loan[b].kind /\ t.returned[b] =< t.borrowed /\ t.borrowed > 0
        /\ t.delta = (t.borrowed - t.returned[b]) - Remaining(b)
    BY <1>0, <1>6 DEF ReadOK, Named
  <2>2. loan'[b] = [loan[b] EXCEPT !.borrowed = t.borrowed, !.returned = t.returned[b]]
    BY <1>0, <1>6 DEF LoanAfter
  <2>3. loan'[b] = [kind |-> loan[b].kind, borrowed |-> t.borrowed, returned |-> t.returned[b]]
    BY <1>2, <2>1, <2>2
  <2>4. t.borrowed \in 1..MaxQty /\ loan[b].kind \in Kind
    BY <1>1, <1>2, <2>1
  <2>5. /\ loan'[b] \in [kind : Kind, borrowed : 1..MaxQty, returned : 0..MaxQty]
        /\ loan'[b].kind = loan[b].kind /\ loan'[b].borrowed = t.borrowed
        /\ loan'[b].returned = t.returned[b]
    BY <1>1, <2>3, <2>4
  <2>6. \A c \in Customer, f \in Kind :
          Gain(t, c, f)[b] = IF Owner[b] = c /\ loan[b].kind = f THEN t.delta ELSE 0
    BY <1>6, <2>1 DEF Gain
  <2>7. \A c \in Customer, f \in Kind :
          /\ Worth(loan, c, f)[b] = IF Owner[b] = c /\ loan[b].kind = f THEN Remaining(b) ELSE 0
          /\ Worth(loan', c, f)[b] =
               IF Owner[b] = c /\ loan[b].kind = f THEN t.borrowed - t.returned[b] ELSE 0
    BY <2>5 DEF Worth, Remaining
  <2>8. Remaining(b) \in Int
    BY <1>2 DEF Remaining
  <2> QED
    BY <1>1, <1>6, <2>1, <2>5, <2>6, <2>7, <2>8
<1>7. CASE b \in t.loans /\ t.op = "delete"
  <2>1. Live(b) /\ t.kind = loan[b].kind /\ t.delta = -Remaining(b)
    BY <1>0, <1>7 DEF ReadOK
  <2>2. loan'[b] = NoLoan
    BY <1>0, <1>7 DEF LoanAfter
  <2> QED
    BY <1>1, <1>2, <1>7, <2>1, <2>2 DEF Worth, Gain, Remaining, NoLoan
<1> QED
  BY <1>1, <1>3, <1>4, <1>5, <1>6, <1>7

\* A commit changes no loan another transaction knows of.
LEMMA CommitTouches ==
  ASSUME CInv, NEW k \in Clerk, Commit(k), NEW j \in Clerk, j # k, NEW b \in Loan, b \in tx[j].loans,
         tx[j].op = "lend" \/ b \in tx[j].has
  PROVE  loan'[b] = loan[b]
<1>1. Named(tx[k]) /\ ReadOK(tx[k]) /\ tx[k].pc = "commit" /\ tx[k] \in Tx
  BY DEF CInv, TypeOK, Commit
<1>2. b \in tx[k].loans => tx[k].op = "lend" \/ b \in tx[k].has
  BY <1>1 DEF Named, ReadOK, Tx
<1>3. b \notin tx[k].loans
  BY <1>2 DEF CInv, LocksExclude, Reserved
<1> QED
  BY <1>3, CommitRow

\* What a commit adds to the loans is what it adds to the counters.
LEMMA GainIsAdded ==
  ASSUME CInv, NEW k \in Clerk, Commit(k), NEW c \in Customer, NEW f \in Kind
  PROVE  /\ SumFunctionOnSet(Gain(tx[k], c, f), Loan) = IF c = OwnerOf(k) THEN Added(k, f) ELSE 0
         /\ Added(k, f) \in Int
<1> DEFINE t == tx[k]
           g == Gain(t, c, f)
<1>0. t \in Tx /\ Named(t) /\ ReadOK(t) /\ t.pc = "commit" /\ t.op # "none"
  BY DEF CInv, TypeOK, Commit, Named
<1>1. t.loans \in SUBSET Loan /\ t.loans # {} /\ \A a, b \in t.loans : Owner[a] = Owner[b]
  BY <1>0 DEF Named, Tx
<1>2. OwnerOf(k) \in Customer /\ \A b \in t.loans : Owner[b] = OwnerOf(k)
  <2> HIDE DEF t
  <2>1. OwnerOf(k) = Payer(t.loans)
    BY OwnerIsPayer DEF t
  <2> QED
    BY <1>1, <2>1, PayerOwns
<1>3. \A b \in Loan : g[b] \in Int
  BY CommitRow
<1>4. t.borrowed \in Int /\ t.delta \in Int /\ \A b \in Loan : t.returned[b] \in Int
  BY <1>0 DEF Tx
<1>5. ASSUME c # OwnerOf(k) PROVE SumFunctionOnSet(g, Loan) = 0
  <2>1. \A b \in Loan : g[b] = 0
    BY <1>2, <1>5 DEF Gain
  <2> HIDE DEF g
  <2> QED
    BY <2>1, SumZero
<1>6. CASE t.op = "return"
  <2> DEFINE S == {b \in t.loans : loan[b].kind = f}
             r == t.returned
  <2>1. Added(k, f) = -SumFunctionOnSet(r, S)
    BY <1>6 DEF Added
  <2>2. S \in SUBSET Loan /\ IsFiniteSet(S) /\ \A b \in S : r[b] \in Int
    BY <1>1, <1>4, FS_Subset
  <2>3. c = OwnerOf(k) => (\A b \in S : g[b] = -r[b]) /\ \A b \in Loan \ S : g[b] = 0
    BY <1>1, <1>2, <1>6 DEF Gain
  <2> HIDE DEF S, r, g
  <2>4. Added(k, f) \in Int
    <3>1. SumFunctionOnSet(r, S) \in Int
      BY <2>2, SumType
    <3> QED
      BY <2>1, <3>1
  <2>5. CASE c = OwnerOf(k)
    <3>1. SumFunctionOnSet(g, Loan) = SumFunctionOnSet(g, S)
      BY <1>3, <2>2, <2>3, <2>5, SumOfPart
    <3>2. SumFunctionOnSet(g, S) = -SumFunctionOnSet(r, S)
      BY <2>2, <2>3, <2>5, SumMinus
    <3> QED
      BY <2>1, <2>4, <2>5, <3>1, <3>2 DEF g
  <2> QED
    BY <1>5, <2>4, <2>5 DEF g
<1>7. CASE t.op # "return"
  <2> DEFINE n == IF f = t.kind THEN (IF t.op = "lend" THEN t.borrowed ELSE t.delta) ELSE 0
  <2>0. Added(k, f) = n /\ n \in Int
    <3>1. CASE t.op = "lend"
      BY <1>4, <3>1 DEF Added
    <3>2. CASE t.op # "lend"
      BY <1>4, <1>7, <3>2 DEF Added
    <3> QED
      BY <3>1, <3>2
  <2>1. PICK e \in Loan : t.loans = {e}
    BY <1>0, <1>7 DEF Named, Tx
  <2>2. c = OwnerOf(k) => g[e] = n /\ \A b \in Loan \ {e} : g[b] = 0
    BY <1>2, <1>7, <2>1 DEF Gain
  <2> HIDE DEF g, n
  <2>3. CASE c = OwnerOf(k)
    <3>1. SumFunctionOnSet(g, Loan) = SumFunctionOnSet(g, {e})
      BY <1>3, <2>2, <2>3, SumOfPart
    <3>2. SumFunctionOnSet(g, {e}) = g[e]
      BY <1>3, SumOne
    <3> QED
      BY <2>0, <2>2, <2>3, <3>1, <3>2 DEF g
  <2> QED
    BY <1>5, <2>0, <2>3 DEF g
<1> QED
  BY <1>6, <1>7

LEMMA CommitStep ==
  ASSUME CInv, NEW k \in Clerk, Commit(k)
  PROVE  CInv'
<1> DEFINE p == OwnerOf(k)
<1>0. /\ tx' = [tx EXCEPT ![k] = NoTx] /\ tx'[k] = NoTx
      /\ \A j \in Clerk \ {k} : tx'[j] = tx[j]
      /\ loan' = [b \in Loan |-> loan'[b]]
  BY DEF CInv, TypeOK, Commit, End
<1>1. counter' = [counter EXCEPT ![p] = [f \in Kind |-> counter[p][f] + Added(k, f)]]
  BY DEF Commit
<1>2. p \in Customer
  <2>1. tx[k] \in Tx /\ Named(tx[k]) /\ tx[k].pc = "commit"
    BY DEF CInv, TypeOK, Commit
  <2> QED
    BY <2>1, OwnerIsPayer, PayerOwns DEF Named, Tx
<1>3. \A f \in Kind : Added(k, f) \in Int
  BY <1>2, GainIsAdded
<1>4. \A c \in Customer, f \in Kind :
        /\ counter[c][f] \in Int
        /\ counter'[c][f] = counter[c][f] + (IF c = p THEN Added(k, f) ELSE 0)
  BY <1>1, <1>2, <1>3 DEF CInv, TypeOK
<1>5. TypeOK'
  <2>1. loan' \in [Loan -> {NoLoan} \cup [kind : Kind, borrowed : 1..MaxQty, returned : 0..MaxQty]]
    BY <1>0, CommitRow
  <2>2. [f \in Kind |-> counter[p][f] + Added(k, f)] \in [Kind -> Int]
    BY <1>2, <1>3, <1>4
  <2>3. counter' \in [Customer -> [Kind -> Int]]
    BY <1>1, <1>2, <2>2 DEF CInv, TypeOK
  <2>4. tx' \in [Clerk -> Tx]
    BY <1>0, NoTxOK DEF CInv, TypeOK
  <2> QED
    BY <2>1, <2>3, <2>4 DEF TypeOK
<1>6. ASSUME NEW j \in Clerk
      PROVE  (Named(tx[j]) /\ ReadOK(tx[j]))'
  <2>1. CASE j = k
    BY <1>0, <2>1 DEF Named, ReadOK, NoTx
  <2>2. CASE j # k
    <3>1. tx[j] \in Tx /\ Named(tx[j]) /\ ReadOK(tx[j]) /\ tx'[j] = tx[j]
      BY <1>0, <2>2 DEF CInv, TypeOK
    <3>2. \A b \in tx[j].loans : tx[j].op = "lend" \/ b \in tx[j].has => loan'[b] = loan[b]
      BY <2>2, <3>1, CommitTouches DEF Tx
    <3>3. Named(tx[j])'
      BY <3>1 DEF Named
    <3>4. ReadOK(tx[j])'
      BY <3>1, <3>2 DEF ReadOK, Live, Remaining
    <3> QED
      BY <3>3, <3>4
  <2> QED
    BY <2>1, <2>2
<1>7. LocksExclude'
  BY <1>0, NoTxOK DEF CInv, LocksExclude
<1>8. Reserved'
  BY <1>0, NoTxOK DEF CInv, Reserved
<1>9. CountersAddUp'
  <2>1. ASSUME NEW c \in Customer, NEW f \in Kind
        PROVE  counter'[c][f] = SumFunctionOnSet([b \in Loan |-> loan'[b].borrowed - loan'[b].returned],
                                  {b \in Loan : Owner[b] = c /\ loan'[b].kind = f})
    <3> DEFINE w == Worth(loan, c, f)
               g == Gain(tx[k], c, f)
               h == Worth(loan', c, f)
    <3>1. counter[c][f] = SumFunctionOnSet(w, Loan)
      <4>1. \A b \in Loan : loan[b].borrowed \in Int /\ loan[b].returned \in Int
        BY LoanRow DEF CInv
      <4>2. SumFunctionOnSet([b \in Loan |-> loan[b].borrowed - loan[b].returned],
                             {b \in Loan : Owner[b] = c /\ loan[b].kind = f})
              = SumFunctionOnSet(w, Loan)
        BY <4>1, WorthIs
      <4> QED
        BY <4>2 DEF CInv, CountersAddUp, Remaining
    <3>2. SumFunctionOnSet([b \in Loan |-> loan'[b].borrowed - loan'[b].returned],
                           {b \in Loan : Owner[b] = c /\ loan'[b].kind = f})
            = SumFunctionOnSet(h, Loan)
      <4>1. \A b \in Loan : loan'[b].borrowed \in Int /\ loan'[b].returned \in Int
        BY CommitRow DEF NoLoan
      <4> QED
        BY <4>1, WorthIs
    <3>3. \A b \in Loan : w[b] \in Int /\ g[b] \in Int /\ h[b] = w[b] + g[b]
      BY CommitRow
    <3>4. SumFunctionOnSet(g, Loan) = IF c = p THEN Added(k, f) ELSE 0
      BY GainIsAdded
    <3> HIDE DEF w, g, h
    <3>5. SumFunctionOnSet(h, Loan) = SumFunctionOnSet(w, Loan) + SumFunctionOnSet(g, Loan)
      BY <3>3, SumPlus
    <3> QED
      BY <1>4, <3>1, <3>2, <3>4, <3>5
  <2>2. \A b \in Loan : loan'[b].borrowed - loan'[b].returned >= 0
    BY CommitRow
  <2> QED
    BY <2>1, <2>2 DEF CountersAddUp, Remaining
<1> QED
  BY <1>5, <1>6, <1>7, <1>8, <1>9 DEF CInv

LEMMA OpensEmpty ==
  ASSUME Init
  PROVE  CInv
<1>1. /\ \A b \in Loan : loan[b] = NoLoan
      /\ \A k \in Clerk : tx[k] = NoTx
      /\ \A c \in Customer, f \in Kind : counter[c][f] = 0
  BY DEF Init
<1>2. TypeOK
  BY NoTxOK DEF Init, TypeOK
<1>3. CountersAddUp
  <2>1. \A c \in Customer, f \in Kind : {b \in Loan : Owner[b] = c /\ loan[b].kind = f} = {}
    BY <1>1 DEF NoLoan
  <2>2. \A b \in Loan : Remaining(b) >= 0
    BY <1>1 DEF Remaining, NoLoan
  <2> QED
    BY <1>1, <2>1, <2>2, SumEmpty DEF CountersAddUp
<1> QED
  BY <1>1, <1>2, <1>3, NoTxOK DEF CInv, LocksExclude, Reserved, NoTx

LEMMA Inductive == Spec => []CInv
<1>1. CInv /\ [Next]_vars => CInv'
  <2> SUFFICES ASSUME CInv, [Next]_vars PROVE CInv'
    OBVIOUS
  <2>1. ASSUME NEW k \in Clerk, Step(k) PROVE CInv'
    BY <2>1, LockLoanStep, RecheckStep, LockCustomerStep, CommitStep DEF Step
  <2>2. ASSUME NEW k \in Clerk, Abort(k) \/ Victim(k) PROVE CInv'
    BY <2>2, RefuseStep DEF Abort, Victim
  <2>3. CASE UNCHANGED vars
    <3>1. [b \in Loan |-> Remaining(b)]' = [b \in Loan |-> Remaining(b)]
      BY <2>3 DEF vars, Remaining
    <3>2. CountersAddUp'
      BY <2>3, <3>1 DEF vars, CInv, CountersAddUp, Remaining
    <3> QED
      BY <2>3, <3>2 DEF vars, CInv, TypeOK, Named, ReadOK, Live, Remaining, LocksExclude, Reserved
  <2> QED
    BY <2>1, <2>2, <2>3, LendStep, ReturnStep, EditStep, DeleteStep DEF Next
<1> QED
  BY <1>1, OpensEmpty, PTL DEF Spec

\* The loans, the counters and the transactions keep their types: no loan ever
\* has more containers returned than a form can carry, although each collection
\* adds to what is there.
THEOREM ContainerTypes == Spec => []TypeOK
<1>1. CInv => TypeOK
  BY DEF CInv
<1> QED
  BY <1>1, Inductive, PTL

\* The counters of a customer, which every request changes by a difference it
\* computed before it held the customer, are what the loans have unreturned, and
\* no loan has more returned than borrowed, for any number of requests at once.
THEOREM CountersAreTheLoans == Spec => []CountersAddUp
<1>1. CInv => CountersAddUp
  BY DEF CInv
<1> QED
  BY <1>1, Inductive, PTL
=============================================================================
