----------------------------- MODULE Containers -----------------------------
(***************************************************************************)
(* Containers lent to customers: src/server/apps/customers/services.py,    *)
(* the BorrowedContainer rows and the counters borrowed_round_8gal,        *)
(* borrowed_slim_8gal and borrowed_other of the customer, changed by       *)
(* concurrent requests.                                                    *)
(*                                                                         *)
(* loan and counter are the COMMITTED rows; an entry of tx is a            *)
(* transaction in progress, with its row locks and what it computed from   *)
(* what it read, and it writes when it commits.                            *)
(***************************************************************************)
EXTENDS Integers, FiniteSets, Functions

CONSTANTS
  Clerk,     \* requests of customers/views.py in progress
  Customer,
  Loan,      \* ids of BorrowedContainer
  Owner,     \* the customer of a loan
  Kind,      \* _CONTAINER_FIELDS: the kinds of container
  MaxQty,    \* bound: containers on a loan
  NoKind

ASSUME ContainersAssumption ==
  /\ IsFiniteSet(Loan)
  /\ Owner \in [Loan -> Customer]
  /\ MaxQty \in Nat
  /\ NoKind \notin Kind

VARIABLES
  loan,     \* loan[b]: a BorrowedContainer
  counter,  \* counter[c][f]: unreturned containers of kind f, as the customer row has it
  tx        \* tx[k]: the transaction of clerk k

vars == <<loan, counter, tx>>

NoLoan == [kind |-> NoKind, borrowed |-> 0, returned |-> 0]
NoTx == [op |-> "none", pc |-> "idle", loans |-> {}, kind |-> NoKind,
         borrowed |-> 0, returned |-> [b \in Loan |-> 0], delta |-> 0, has |-> {}]

Tx == [op       : {"none", "lend", "return", "edit", "delete"},
       pc       : {"idle", "lock", "customer", "commit"},
       loans    : SUBSET Loan,
       kind     : Kind \cup {NoKind},
       borrowed : 0..MaxQty,
       returned : [Loan -> 0..MaxQty],  \* asked for each loan
       delta    : -MaxQty..MaxQty,      \* change of the counter of an edit or delete
       has      : SUBSET (Loan \cup Customer)]

TypeOK ==
  /\ loan \in [Loan -> {NoLoan} \cup
                 [kind : Kind, borrowed : 1..MaxQty, returned : 0..MaxQty]]
  /\ counter \in [Customer -> [Kind -> Int]]
  /\ tx \in [Clerk -> Tx]

Init ==
  /\ loan = [b \in Loan |-> NoLoan]
  /\ counter = [c \in Customer |-> [f \in Kind |-> 0]]
  /\ tx = [k \in Clerk |-> NoTx]

-----------------------------------------------------------------------------
Live(b) == loan[b].borrowed > 0
Remaining(b) == loan[b].borrowed - loan[b].returned   \* qty_remaining
Free(x, k) == \A j \in Clerk \ {k} : x \notin tx[j].has
Unused(b) == ~Live(b) /\ \A k \in Clerk : b \notin tx[k].loans
Idle(k) == tx[k].pc = "idle"
OwnerOf(k) == CHOOSE c \in Customer : \E b \in tx[k].loans : c = Owner[b]
Only(b, n) == [a \in Loan |-> IF a = b THEN n ELSE 0]

\* Mutant: a refused transaction is left open.
EndKeepsLocks(k) == tx' = [tx EXCEPT ![k] = [NoTx EXCEPT !.has = tx[k].has]]
End(k) == tx' = [tx EXCEPT ![k] = NoTx]
Refuse(k) == End(k) /\ UNCHANGED <<loan, counter>>
Proceed(k, t) == tx' = [tx EXCEPT ![k] = t] /\ UNCHANGED <<loan, counter>>

\* record_customer_borrowed: the row is inserted, then the counter updated,
\* which waits for the customer's row
RequestLend(k, b, f, q) ==
  /\ Idle(k) /\ Unused(b)
  /\ Proceed(k, [NoTx EXCEPT !.op = "lend", !.pc = "customer", !.loans = {b},
                             !.kind = f, !.borrowed = q])

\* the returns of record_customer_collection, validated without a lock
RequestReturn(k, c, qty) ==
  LET B == {b \in Loan : qty[b] > 0}
  IN /\ Idle(k) /\ B # {}
     /\ \A b \in B : Owner[b] = c /\ Live(b) /\ qty[b] =< Remaining(b)
     /\ Proceed(k, [NoTx EXCEPT !.op = "return", !.pc = "lock", !.loans = B,
                                !.returned = qty])

\* Mutant: the loan is read without select_for_update.
RequestEditNoLock(k, b, q, r) ==
  /\ Idle(k) /\ Live(b) /\ Free(b, k)
  /\ r =< q
  /\ Proceed(k, [NoTx EXCEPT !.op = "edit", !.pc = "customer", !.loans = {b},
                             !.kind = loan[b].kind, !.borrowed = q,
                             !.returned = Only(b, r),
                             !.delta = (q - r) - Remaining(b)])

\* edit_borrowed_container: the loan is locked and read
RequestEdit(k, b, q, r) ==
  /\ Idle(k) /\ Live(b) /\ Free(b, k)
  /\ r =< q
  /\ Proceed(k, [NoTx EXCEPT !.op = "edit", !.pc = "customer", !.loans = {b},
                             !.kind = loan[b].kind, !.borrowed = q,
                             !.returned = Only(b, r),
                             !.delta = (q - r) - Remaining(b), !.has = {b}])

\* delete_borrowed_container
RequestDelete(k, b) ==
  /\ Idle(k) /\ Live(b) /\ Free(b, k)
  /\ Proceed(k, [NoTx EXCEPT !.op = "delete", !.pc = "customer", !.loans = {b},
                             !.kind = loan[b].kind, !.delta = -Remaining(b),
                             !.has = {b}])

\* the loans of a collection, one row after the other
LockLoan(k) ==
  /\ tx[k].pc = "lock"
  /\ \E b \in tx[k].loans \ tx[k].has :
       Free(b, k) /\ Proceed(k, [tx[k] EXCEPT !.has = @ \cup {b}])

\* Mutant: the loans are locked, but not looked at again.
RecheckNothing(k) ==
  /\ tx[k].pc = "lock" /\ tx[k].loans \subseteq tx[k].has
  /\ Proceed(k, [tx[k] EXCEPT !.pc = "customer"])

\* "the outstanding balance changed during submission"
Recheck(k) ==
  /\ tx[k].pc = "lock" /\ tx[k].loans \subseteq tx[k].has
  /\ IF \A b \in tx[k].loans : Live(b) /\ tx[k].returned[b] =< Remaining(b)
     THEN Proceed(k, [tx[k] EXCEPT !.pc = "customer"])
     ELSE Refuse(k)

\* what the transaction adds to the counter of a kind
Added(k, f) ==
  LET t == tx[k]
  IN CASE t.op = "lend" -> IF f = t.kind THEN t.borrowed ELSE 0
       [] t.op = "return" -> -SumFunctionOnSet(t.returned,
                                               {b \in t.loans : loan[b].kind = f})
       [] OTHER -> IF f = t.kind THEN t.delta ELSE 0

\* The customer is locked by edits and deletes, which then check the counter,
\* and by the UPDATE of the others, under the CHECK of the counters.
LockCustomer(k) ==
  LET c == OwnerOf(k)
  IN /\ tx[k].pc = "customer" /\ Free(c, k)
     /\ IF \A f \in Kind : counter[c][f] + Added(k, f) >= 0
        THEN Proceed(k, [tx[k] EXCEPT !.pc = "commit", !.has = @ \cup {c}])
        ELSE Refuse(k)

LoanAfter(k, b) ==
  LET t == tx[k]
  IN IF b \notin t.loans THEN loan[b]
     ELSE CASE t.op = "lend" -> [kind |-> t.kind, borrowed |-> t.borrowed, returned |-> 0]
            [] t.op = "return" -> [loan[b] EXCEPT !.returned = @ + t.returned[b]]
            [] t.op = "edit" -> [loan[b] EXCEPT !.borrowed = t.borrowed, !.returned = t.returned[b]]
            [] OTHER -> NoLoan

Commit(k) ==
  /\ tx[k].pc = "commit"
  /\ loan' = [b \in Loan |-> LoanAfter(k, b)]
  /\ counter' = [counter EXCEPT ![OwnerOf(k)] = [f \in Kind |-> @[f] + Added(k, f)]]
  /\ End(k)

\* a failed check, a database error or a killed worker
Abort(k) == ~Idle(k) /\ Refuse(k)

\* requests that wait for each other, ended by PostgreSQL
Needs(k) ==
  CASE tx[k].pc = "lock" -> tx[k].loans \ tx[k].has
    [] tx[k].pc = "customer" -> {OwnerOf(k)}
    [] OTHER -> {}

Deadlocked(S) ==
  \A k \in S : Needs(k) # {} /\ \A x \in Needs(k) : \E j \in S \ {k} : x \in tx[j].has

Victim(k) == (\E S \in SUBSET Clerk : k \in S /\ Deadlocked(S)) /\ Refuse(k)

Step(k) == LockLoan(k) \/ Recheck(k) \/ LockCustomer(k) \/ Commit(k)

Next ==
  \E k \in Clerk :
    \/ \E b \in Loan, f \in Kind, q \in 1..MaxQty : RequestLend(k, b, f, q)
    \/ \E c \in Customer, qty \in [Loan -> 0..MaxQty] : RequestReturn(k, c, qty)
    \/ \E b \in Loan, q \in 1..MaxQty, r \in 0..MaxQty : RequestEdit(k, b, q, r)
    \/ \E b \in Loan : RequestDelete(k, b)
    \/ Step(k) \/ Abort(k) \/ Victim(k)

Spec == Init /\ [][Next]_vars

\* PostgreSQL hands a lock to its waiters in turn, and breaks deadlocks
FairSpec ==
  /\ Spec
  /\ \A k \in Clerk : SF_vars(Step(k)) /\ WF_vars(Victim(k))

-----------------------------------------------------------------------------
\* The counters of a customer are what the loans amount to, and no loan has
\* more containers returned than borrowed: two clerks who take back the same
\* containers at once do not count them twice.
CountersAddUp ==
  /\ \A c \in Customer, f \in Kind :
       counter[c][f] = SumFunctionOnSet([b \in Loan |-> Remaining(b)],
                         {b \in Loan : Owner[b] = c /\ loan[b].kind = f})
  /\ \A b \in Loan : Remaining(b) >= 0

\* Every request on the containers is answered, also two collections that lock
\* the same loans in different order.
ContainerRequestsEnd == \A k \in Clerk : tx[k].pc # "idle" ~> tx[k].pc = "idle"
=============================================================================
