----------------------------- MODULE SoftDelete -----------------------------
(***************************************************************************)
(* Customers come and go: inline creation, records, collections and edits  *)
(* of src/server/apps/customers/services.py, delete_customer, and the      *)
(* signal handler of signals.py that checks the database once more before  *)
(* a customer is marked deleted.  The services find the customer before    *)
(* their transaction, and look at deleted_at no more after that; a delete  *)
(* is not a transaction: its reads and its write are statements of their   *)
(* own.                                                                    *)
(*                                                                         *)
(* owes[c] stands for debt_balance and the borrowed counters together:     *)
(* delete_customer and the signal treat them alike.                        *)
(***************************************************************************)
EXTENDS Integers

CONSTANTS
  Request,   \* requests of customers/views.py in progress
  Customer,  \* customer ids
  MaxOwed    \* bound: what a customer has to pay or to bring back

VARIABLES
  state,    \* state[c]: "deleted" when deleted_at is set, "none" without a row
  owes,     \* owes[c]: what the customer owes
  req       \* req[k]: a request in progress

vars == <<state, owes, req>>

Init ==
  /\ state = [c \in Customer |-> "none"]
  /\ owes = [c \in Customer |-> 0]
  /\ req \in [Request -> [pc : {"idle"}, who : Customer]]

At(k, pc) == req[k].pc = pc
Goto(k, pc) == req' = [req EXCEPT ![k].pc = pc]
Who(k) == req[k].who

\* The customer was chosen from a page, which may be older than its deletion,
\* or a name was typed.
Begin(k, pc, c) ==
  /\ At(k, "idle")
  /\ IF pc = "create" THEN state[c] = "none" ELSE state[c] # "none"
  /\ req' = [req EXCEPT ![k] = [pc |-> pc, who |-> c]]
  /\ UNCHANGED <<state, owes>>

\* a failed check, or a database error
Fail(k) == ~At(k, "idle") /\ Goto(k, "idle") /\ UNCHANGED <<state, owes>>

\* _resolve_customer, for records, collections and the edits and deletions of
\* the history page alike
Resolve(k) ==
  /\ At(k, "resolve") /\ state[Who(k)] = "active"
  /\ Goto(k, "act") /\ UNCHANGED <<state, owes>>

\* _resolve_or_create_customer, committed before the record is made
Create(k) ==
  /\ At(k, "create") /\ state[Who(k)] = "none"
  /\ state' = [state EXCEPT ![Who(k)] = "active"]
  /\ Goto(k, "act") /\ UNCHANGED owes

\* A debt or a loan is recorded or raised, or a payment deleted.
\* record_customer_debt reads the customer again, by id alone, to lock it;
\* record_customer_borrowed does not read it again.
Record(k) ==
  /\ At(k, "act")
  /\ owes[Who(k)] < MaxOwed                                   \* bound
  /\ owes' = [owes EXCEPT ![Who(k)] = @ + 1]
  /\ Goto(k, "idle") /\ UNCHANGED state

\* something is paid or returned, or a record is lowered or deleted
Settle(k) ==
  /\ At(k, "act") /\ owes[Who(k)] > 0
  /\ owes' = [owes EXCEPT ![Who(k)] = @ - 1]
  /\ Goto(k, "idle") /\ UNCHANGED state

\* the view loads the customer, delete_customer checks what was loaded
Load(k) ==
  /\ At(k, "load") /\ state[Who(k)] = "active" /\ owes[Who(k)] = 0
  /\ Goto(k, "signal") /\ UNCHANGED <<state, owes>>

\* prevent_soft_delete_with_pending_items lets a second deletion pass
Signal(k) ==
  /\ At(k, "signal")
  /\ state[Who(k)] = "deleted" \/ owes[Who(k)] = 0
  /\ Goto(k, "save") /\ UNCHANGED <<state, owes>>

Save(k) ==
  /\ At(k, "save")
  /\ state' = [state EXCEPT ![Who(k)] = "deleted"]
  /\ Goto(k, "idle") /\ UNCHANGED owes

Next ==
  \E k \in Request :
    \/ \E pc \in {"resolve", "create", "load"}, c \in Customer : Begin(k, pc, c)
    \/ Resolve(k) \/ Create(k) \/ Record(k) \/ Settle(k)
    \/ Load(k) \/ Signal(k) \/ Save(k) \/ Fail(k)

Spec == Init /\ [][Next]_vars

-----------------------------------------------------------------------------
\* "a customer cannot be soft-deleted while they still have outstanding debt or
\* unreturned containers, regardless of how the deletion is initiated", nor
\* does a deleted one get into debt (signals.py, services.py).
DeletedOweNothing == \A c \in Customer : state[c] = "deleted" => owes[c] = 0
=============================================================================
