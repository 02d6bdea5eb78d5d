----------------------------- MODULE Remittance -----------------------------
(***************************************************************************)
(* The daily remittance of one company: src/server/apps/remittance/        *)
(* services.py, run by several gunicorn workers over one PostgreSQL        *)
(* database at READ COMMITTED, beside the ledger edits of                  *)
(* src/server/apps/customers/services.py.                                  *)
(*                                                                         *)
(* The variables status, day, counted, on and link are the COMMITTED       *)
(* database.  What a transaction has written and not committed, and the    *)
(* row locks it holds, are in its entry of tx (or of edit), so a rollback  *)
(* forgets the entry and a commit applies it.  A SELECT ... FOR UPDATE is  *)
(* two steps: the statement's snapshot (Request), and the lock, taken when *)
(* nobody else holds it and followed by PostgreSQL's re-evaluation of the  *)
(* locked row (Lock...).  An UPDATE of many rows visits them one by one in *)
(* an order nobody chose: it locks each, waiting for whoever has it, looks *)
(* at its condition again, and keeps the lock until its transaction ends.  *)
(*                                                                         *)
(* A CreditPayment or CreditLine is a record; amounts are left out:        *)
(* counted[r] is the set of payments that total_repayments_received of r   *)
(* was summed from.                                                        *)
(***************************************************************************)
EXTENDS Integers, FiniteSets

CONSTANTS
  Worker,   \* requests of remittance/views.py in progress
  Clerk,    \* requests of customers/views.py that edit or delete a record
  Date,     \* business dates
  Payment,  \* CreditPayment rows
  Line,     \* CreditLine rows
  LineOf,   \* the CreditLine a CreditPayment pays
  MoveTo,   \* bound: the dates an edit may move a record to
  MaxRow,   \* bound: Remittance ids in use at a time
  NoDate,   \* date of a record that was not created yet
  Deleted   \* date of a record that was deleted

Record == Payment \cup Line
Row == 1..MaxRow
NoRow == 0

ASSUME RowAssumption == MaxRow \in Nat
ASSUME RecordAssumption ==
  /\ Payment \cap Line = {}
  /\ LineOf \in [Payment -> Line]
ASSUME DateAssumption ==
  /\ NoDate \notin Date
  /\ Deleted \notin Date \cup {NoDate}
  /\ MoveTo \subseteq Date

VARIABLES
  status,   \* status[r]: state of Remittance id r
  day,      \* day[r]: its date
  counted,  \* counted[r]: payments summed into its total_repayments_received
  on,       \* on[x]: CreditPayment.paid_at, CreditLine.transaction_date
  link,     \* link[x]: the remittance foreign key of record x
  tx,       \* tx[w]: transaction of worker w
  edit      \* edit[k]: transaction of clerk k

db == <<status, day, counted, on, link>>
vars == <<status, day, counted, on, link, tx, edit>>

(***************************************************************************)
(* "none" is an id without a row, "open" a row inserted by a transaction   *)
(* that has not committed.  PostgreSQL never hands an id out twice; here   *)
(* an id without a row that no transaction refers to may be used again,    *)
(* which nothing can tell, and any number of requests fits in MaxRow ids.  *)
(***************************************************************************)
Status == {"none", "open", "draft", "final"}

\* delete-and-rebuild requests, as against those that only lock a row
Building == {"create", "createFinal", "save"}
Replacing == {"createFinal", "save", "clear"}
Op == Building \cup {"clear", "finalize"}

Tx == [pc     : {"idle", "lock", "unlink", "insert", "collect", "link", "lines", "commit"},
       op     : Op \cup {"none"},
       day    : Date \cup {NoDate},
       target : Row \cup {NoRow},   \* the row the statement's snapshot showed
       held   : Row \cup {NoRow},   \* the row it has locked
       fresh  : Row \cup {NoRow},   \* the row it has inserted
       todo   : SUBSET Record,      \* records its UPDATE has yet to visit
       freed  : SUBSET Record,      \* records it has unlinked, hence locked
       seen   : SUBSET Payment,     \* what _collect_repayments returned
       taken  : SUBSET Record]      \* records it has linked, hence locked

NoTx == [pc |-> "idle", op |-> "none", day |-> NoDate, target |-> NoRow,
         held |-> NoRow, fresh |-> NoRow, todo |-> {}, freed |-> {}, seen |-> {},
         taken |-> {}]

\* a clerk holds the records it has locked, and nothing between requests
Edit == [op : {"none", "edit", "delete"}, holds : SUBSET Record]
NoEdit == [op |-> "none", holds |-> {}]

TypeOK ==
  /\ status \in [Row -> Status]
  /\ day \in [Row -> Date \cup {NoDate}]
  /\ counted \in [Row -> SUBSET Payment]
  /\ on \in [Record -> Date \cup {NoDate, Deleted}]
  /\ link \in [Record -> Row \cup {NoRow}]
  /\ tx \in [Worker -> Tx]
  /\ edit \in [Clerk -> Edit]

Init ==
  /\ status = [r \in Row |-> "none"]
  /\ day = [r \in Row |-> NoDate]
  /\ counted = [r \in Row |-> {}]
  /\ on = [x \in Record |-> NoDate]
  /\ link = [x \in Record |-> NoRow]
  /\ tx = [w \in Worker |-> NoTx]
  /\ edit = [k \in Clerk |-> NoEdit]

-----------------------------------------------------------------------------
(***************************************************************************)
(* What a statement sees, and row locks.                                   *)
(***************************************************************************)
Live(r) == status[r] \in {"draft", "final"}
RowsOf(d) == {r \in Row : Live(r) /\ day[r] = d}
Finalized(d) == \E r \in RowsOf(d) : status[r] = "final"

\* Mutant: select_for_update() forgotten.
RowFreeNoLock(r, w) == TRUE
RowFree(r, w) == \A v \in Worker \ {w} : tx[v].held # r
RecordFree(x) ==
  /\ \A v \in Worker : x \notin tx[v].freed \cup tx[v].taken
  /\ \A k \in Clerk : x \notin edit[k].holds

Exists(x) == on[x] \in Date

FreeRows == {r \in Row : status[r] = "none" /\ \A v \in Worker : tx[v].target # r}

\* Mutant: a transaction left open keeps its lock.
EndKeepsLock(w) == tx' = [tx EXCEPT ![w] = [NoTx EXCEPT !.held = tx[w].held]]
End(w) == tx' = [tx EXCEPT ![w] = NoTx]

-----------------------------------------------------------------------------
(***************************************************************************)
(* A request that names a date.  Its first statement selects the rows of   *)
(* the date FOR UPDATE; clearing a date that has none returns at once.     *)
(***************************************************************************)
Request(w, op, d) ==
  /\ tx[w].pc = "idle"
  /\ \/ \E r \in RowsOf(d) :
          tx' = [tx EXCEPT ![w] = [NoTx EXCEPT !.pc = "lock", !.op = op,
                                               !.day = d, !.target = r]]
     \/ /\ RowsOf(d) = {}
        /\ op \in Building
        /\ tx' = [tx EXCEPT ![w] = [NoTx EXCEPT !.pc = "insert", !.op = op,
                                                !.day = d]]
  /\ UNCHANGED <<db, edit>>

\* finalize_remittance names an id; an admin with a valid PIN is assumed
RequestFinalize(w, r) ==
  /\ tx[w].pc = "idle"
  /\ Live(r)
  /\ tx' = [tx EXCEPT ![w] = [NoTx EXCEPT !.pc = "lock", !.op = "finalize",
                                          !.day = day[r], !.target = r]]
  /\ UNCHANGED <<db, edit>>

AtLock(w) == tx[w].pc = "lock" /\ RowFree(tx[w].target, w)

\* The row was deleted while the statement waited: it returns no row.
LockFindsNothing(w) ==
  /\ AtLock(w)
  /\ ~Live(tx[w].target)
  /\ IF tx[w].op \in Building
     THEN tx' = [tx EXCEPT ![w].pc = "insert", ![w].target = NoRow]
     ELSE End(w)
  /\ UNCHANGED <<db, edit>>

\* A finalized row, or a draft that create_remittance(finalize=False) must
\* not replace: ValidationError.
LockRefused(w) ==
  /\ AtLock(w)
  /\ \/ status[tx[w].target] = "final"
     \/ status[tx[w].target] = "draft" /\ tx[w].op = "create"
  /\ End(w)
  /\ UNCHANGED <<db, edit>>

\* the records of a draft
LinkedPayments(r) == {x \in Payment : link[x] = r}   \* Mutant: the lines stay linked.
LinkedTo(r) == {x \in Record : link[x] = r}

\* the locked row, and what is done with it
Holding(w) ==
  IF tx[w].op = "finalize"
  THEN [tx[w] EXCEPT !.held = tx[w].target, !.pc = "commit"]
  ELSE [tx[w] EXCEPT !.held = tx[w].target, !.pc = "unlink",
                     !.todo = LinkedTo(tx[w].target)]

\* Mutant: the status is not looked at again after the wait.
LockDraftUnchecked(w) ==
  /\ AtLock(w)
  /\ Live(tx[w].target)
  /\ tx[w].op # "create"
  /\ tx' = [tx EXCEPT ![w] = Holding(w)]
  /\ UNCHANGED <<db, edit>>

LockDraft(w) ==
  /\ AtLock(w)
  /\ status[tx[w].target] = "draft"
  /\ tx[w].op # "create"
  /\ tx' = [tx EXCEPT ![w] = Holding(w)]
  /\ UNCHANGED <<db, edit>>

\* the rows an UPDATE may visit next: the payments are updated by a statement
\* before that of the lines
Pending(w) ==
  IF tx[w].todo \cap Payment # {} THEN tx[w].todo \cap Payment ELSE tx[w].todo

\* _unlink_credit_payments, then _unlink_credit_lines: a row that was deleted
\* meanwhile is passed over.  (Nobody can link a record to a draft that is
\* locked, so the rows of both statements are those linked when it was.)
UnlinkRow(w, x) ==
  /\ tx[w].pc = "unlink"
  /\ x \in Pending(w) /\ RecordFree(x)
  /\ tx' = [tx EXCEPT ![w].todo = @ \ {x},
                      ![w].freed = IF link[x] = tx[w].held THEN @ \cup {x} ELSE @]
  /\ UNCHANGED <<db, edit>>

\* delete() of the draft
DeleteDraft(w) ==
  /\ tx[w].pc = "unlink" /\ tx[w].todo = {}
  /\ tx' = [tx EXCEPT ![w].pc = IF tx[w].op = "clear" THEN "commit" ELSE "insert"]
  /\ UNCHANGED <<db, edit>>

-----------------------------------------------------------------------------
(***************************************************************************)
(* _build_remittance.  The INSERT waits for a transaction that has         *)
(* inserted or deleted a row of the same date, and fails on a row it finds *)
(* committed.                                                              *)
(***************************************************************************)
Deletes(v) == tx[v].op \in Replacing /\ tx[v].held # NoRow /\ tx[v].pc # "unlink"
\* Mutant: no unique constraint, so no INSERT waits.
DateBusyNever(w) == FALSE
DateBusy(w) ==
  \E v \in Worker \ {w} :
    tx[v].day = tx[w].day /\ (tx[v].fresh # NoRow \/ Deletes(v))

InsertRow(w) ==
  /\ tx[w].pc = "insert"
  /\ ~DateBusy(w)
  /\ RowsOf(tx[w].day) \subseteq {tx[w].held}
  /\ \E r \in FreeRows :
       /\ \A q \in FreeRows : r =< q
       /\ status' = [status EXCEPT ![r] = "open"]
       /\ day' = [day EXCEPT ![r] = tx[w].day]
       /\ tx' = [tx EXCEPT ![w].fresh = r, ![w].pc = "collect"]
  /\ UNCHANGED <<counted, on, link, edit>>

\* unique_remittance_company_date: IntegrityError, the transaction is gone
InsertConflict(w) ==
  /\ tx[w].pc = "insert"
  /\ ~DateBusy(w)
  /\ ~(RowsOf(tx[w].day) \subseteq {tx[w].held})
  /\ End(w)
  /\ UNCHANGED <<db, edit>>

\* Mutant: the filter on the foreign key dropped.
UnlinkedAlways(x, w) == TRUE

\* remittance__isnull=True, as this transaction sees it
Unlinked(x, w) == link[x] = NoRow \/ x \in tx[w].freed

Collect(w) ==
  LET found == {p \in Payment : on[p] = tx[w].day /\ Unlinked(p, w)}
  IN /\ tx[w].pc = "collect"
     /\ tx' = [tx EXCEPT ![w].seen = found, ![w].todo = found, ![w].pc = "link"]
     /\ UNCHANGED <<db, edit>>

\* The payments are linked by the ids read before, whatever became of them,
\* the lines by a fresh query, looked at again when the row is locked.
Takes(w, x) == IF tx[w].pc = "link" THEN Exists(x)
                                    ELSE on[x] = tx[w].day /\ Unlinked(x, w)

LinkRow(w, x) ==
  /\ tx[w].pc \in {"link", "lines"}
  /\ x \in Pending(w) /\ (RecordFree(x) \/ x \in tx[w].freed)
  /\ tx' = [tx EXCEPT ![w].todo = @ \ {x},
                      ![w].taken = IF Takes(w, x) THEN @ \cup {x} ELSE @]
  /\ UNCHANGED <<db, edit>>

\* Mutant: the second query picks up the payments of the date again.
LinesOfDateAndPayments(w) == {x \in Record : on[x] = tx[w].day /\ Unlinked(x, w)}
LinesOfDate(w) == {l \in Line : on[l] = tx[w].day /\ Unlinked(l, w)}

\* the payments are linked: the UPDATE of the lines starts
LinkLines(w) ==
  /\ tx[w].pc = "link" /\ tx[w].todo = {}
  /\ tx' = [tx EXCEPT ![w].todo = LinesOfDate(w), ![w].pc = "lines"]
  /\ UNCHANGED <<db, edit>>

\* the totals are saved: nothing is left but to commit
Built(w) ==
  /\ tx[w].pc = "lines" /\ tx[w].todo = {}
  /\ tx' = [tx EXCEPT ![w].pc = "commit"]
  /\ UNCHANGED <<db, edit>>

-----------------------------------------------------------------------------
(***************************************************************************)
(* The end of a transaction.                                               *)
(***************************************************************************)
\* Mutant: the replaced draft is not deleted.
StatusAfterNoDelete(w, r) ==
  CASE r = tx[w].fresh -> IF tx[w].op = "createFinal" THEN "final" ELSE "draft"
    [] r = tx[w].held /\ tx[w].op = "finalize" -> "final"
    [] r = tx[w].held /\ tx[w].op = "clear" -> "none"
    [] OTHER -> status[r]

StatusAfter(w, r) ==
  CASE r = tx[w].fresh -> IF tx[w].op = "createFinal" THEN "final" ELSE "draft"
    [] r = tx[w].held  -> IF tx[w].op = "finalize" THEN "final" ELSE "none"
    [] OTHER           -> status[r]

\* Mutant: _unlink_credit_payments and _unlink_credit_lines are not called.
LinkAfterNotUnlinked(w, x) == IF x \in tx[w].taken THEN tx[w].fresh ELSE link[x]

LinkAfter(w, x) ==
  CASE x \in tx[w].taken -> tx[w].fresh
    [] x \in tx[w].freed \ tx[w].taken -> NoRow
    [] OTHER -> link[x]

Commit(w) ==
  /\ tx[w].pc = "commit"
  /\ status' = [r \in Row |-> StatusAfter(w, r)]
  /\ link' = [x \in Record |-> LinkAfter(w, x)]
  /\ counted' = [r \in Row |-> IF r = tx[w].fresh THEN tx[w].seen
                               ELSE IF StatusAfter(w, r) = "none" THEN {}
                               ELSE counted[r]]
  /\ day' = [r \in Row |-> IF StatusAfter(w, r) = "none" THEN NoDate ELSE day[r]]
  /\ End(w)
  /\ UNCHANGED <<on, edit>>

\* A ValidationError raised by _build_remittance, a database error or a killed
\* worker.
Rollback(w) ==
  /\ tx[w].pc # "idle"
  /\ status' = [r \in Row |-> IF r = tx[w].fresh THEN "none" ELSE status[r]]
  /\ day' = [r \in Row |-> IF r = tx[w].fresh THEN NoDate ELSE day[r]]
  /\ End(w)
  /\ UNCHANGED <<counted, on, link, edit>>

-----------------------------------------------------------------------------
(***************************************************************************)
(* The customers' ledger, as far as the remittance sees it.                *)
(***************************************************************************)
\* record_customer_debt and record_customer_collection
RecordEntry(x, d) ==
  /\ on[x] = NoDate
  /\ x \in Payment => Exists(LineOf[x]) /\ RecordFree(LineOf[x])
  /\ on' = [on EXCEPT ![x] = d]
  /\ UNCHANGED <<status, day, counted, link, tx, edit>>

LockDate(x) == IF x \in Payment /\ link[x] # NoRow THEN day[link[x]] ELSE on[x]

\* _resolve_..._for_edit locks the record, _verify_ledger_edit and
\* _verify_ledger_delete then read the remittances, without a lock
EditLock(k, x, op, admin) ==
  /\ edit[k] = NoEdit
  /\ Exists(x) /\ RecordFree(x)
  /\ admin \/ (op = "edit" /\ ~Finalized(LockDate(x)))
  /\ edit' = [edit EXCEPT ![k] = [op |-> op, holds |-> {x}]]
  /\ UNCHANGED <<db, tx>>

\* the record a clerk has asked for: the line, where it holds payments with it
Edits(k, x) ==
  /\ x \in edit[k].holds
  /\ x \in Payment => LineOf[x] \notin edit[k].holds

\* edit_credit_line, edit_credit_payment, which locks the line of the payment:
\* the new date is not checked
EditCommit(k, x, d) ==
  /\ edit[k].op = "edit" /\ Edits(k, x)
  /\ x \in Payment => RecordFree(LineOf[x])
  /\ on' = [on EXCEPT ![x] = d]
  /\ edit' = [edit EXCEPT ![k] = NoEdit]
  /\ UNCHANGED <<status, day, counted, link, tx>>

\* delete_credit_payment; delete_credit_line with the payments of the line
DeleteSet(x) == {x} \cup {p \in Payment : LineOf[p] = x /\ Exists(p)}
Linked(x) == \E p \in DeleteSet(x) \cap Payment : link[p] # NoRow

\* the payments of a line are locked one by one
DeleteLock(k, x, p) ==
  /\ edit[k].op = "delete" /\ Edits(k, x)
  /\ p \in DeleteSet(x) \ edit[k].holds /\ RecordFree(p)
  /\ edit' = [edit EXCEPT ![k].holds = @ \cup {p}]
  /\ UNCHANGED <<db, tx>>

AtDelete(k, x) ==
  edit[k].op = "delete" /\ Edits(k, x) /\ DeleteSet(x) \subseteq edit[k].holds

Remove(k, x) ==
  /\ on' = [y \in Record |-> IF y \in DeleteSet(x) THEN Deleted ELSE on[y]]
  /\ link' = [y \in Record |-> IF y \in DeleteSet(x) THEN NoRow ELSE link[y]]
  /\ edit' = [edit EXCEPT ![k] = NoEdit]
  /\ UNCHANGED <<status, day, counted, tx>>

\* Mutant: linked payments are deleted too.
DeleteCommitLinked(k, x) ==
  /\ AtDelete(k, x)
  /\ x \in Payment => RecordFree(LineOf[x])
  /\ Remove(k, x)

DeleteCommit(k, x) ==
  /\ AtDelete(k, x) /\ ~Linked(x)
  /\ x \in Payment => RecordFree(LineOf[x])
  /\ Remove(k, x)

\* a payment is linked to a remittance: ValidationError
DeleteRefused(k, x) ==
  /\ AtDelete(k, x) /\ Linked(x)
  /\ edit' = [edit EXCEPT ![k] = NoEdit]
  /\ UNCHANGED <<db, tx>>

\* any other ValidationError, a database error or a killed worker
EditAbort(k) ==
  /\ edit[k] # NoEdit
  /\ edit' = [edit EXCEPT ![k] = NoEdit]
  /\ UNCHANGED <<db, tx>>

-----------------------------------------------------------------------------
(***************************************************************************)
(* Deadlocks.  Transactions that wait for records the others of them have  *)
(* locked wait for ever; PostgreSQL ends one of them.  Only records can    *)
(* close a circle: who waits for a remittance has locked no record yet.    *)
(***************************************************************************)
Locked(W, K) ==
  UNION {tx[w].freed \cup tx[w].taken : w \in W} \cup UNION {edit[k].holds : k \in K}

\* the locks a clerk has yet to take
Wanted(k) ==
  {LineOf[p] : p \in {q \in Payment : Edits(k, q)}}
    \cup UNION {DeleteSet(l) \ edit[k].holds :
                 l \in {m \in Line : Edits(k, m) /\ edit[k].op = "delete"}}

Deadlocked(W, K) ==
  /\ \A w \in W : Pending(w) # {} /\ Pending(w) \subseteq Locked(W \ {w}, K)
  /\ \A k \in K : Wanted(k) # {} /\ Wanted(k) \subseteq Locked(W, K \ {k})

Victim ==
  \E W \in SUBSET Worker, K \in SUBSET Clerk :
    /\ Deadlocked(W, K)
    /\ (\E w \in W : Rollback(w)) \/ (\E k \in K : EditAbort(k))

-----------------------------------------------------------------------------
WorkerStep(w) ==
  \/ LockFindsNothing(w) \/ LockRefused(w) \/ LockDraft(w)
  \/ \E x \in Record : UnlinkRow(w, x) \/ LinkRow(w, x)
  \/ DeleteDraft(w) \/ InsertRow(w) \/ InsertConflict(w)
  \/ Collect(w) \/ LinkLines(w) \/ Built(w) \/ Commit(w)

ClerkStep(k) ==
  \E x \in Record :
    \/ \E d \in {on[x]} \cup MoveTo : EditCommit(k, x, d)
    \/ \E p \in Payment : DeleteLock(k, x, p)
    \/ DeleteCommit(k, x) \/ DeleteRefused(k, x)

Next ==
  \/ \E w \in Worker :
       \/ \E op \in Op \ {"finalize"}, d \in Date : Request(w, op, d)
       \/ \E r \in Row : RequestFinalize(w, r)
       \/ WorkerStep(w)
       \/ Rollback(w)
  \/ \E x \in Record, d \in Date : RecordEntry(x, d)
  \/ \E k \in Clerk :
       \/ \E x \in Record, op \in {"edit", "delete"}, admin \in BOOLEAN :
            EditLock(k, x, op, admin)
       \/ ClerkStep(k)
       \/ EditAbort(k)

Spec == Init /\ [][Next]_vars

(***************************************************************************)
(* A worker executes its request, and a clerk's: PostgreSQL answers their  *)
(* statements, hands a lock to its waiters in the order they came, which   *)
(* is strong fairness of the steps that wait for one, and breaks deadlocks *)
(* (a Victim's step is a Rollback or an EditAbort).  Nothing makes a user  *)
(* send a request, or a request fail otherwise.                            *)
(***************************************************************************)
FairSpec ==
  /\ Spec
  /\ \A w \in Worker : SF_vars(WorkerStep(w))
  /\ \A k \in Clerk : SF_vars(ClerkStep(k))
  /\ WF_vars(Victim)

(***************************************************************************)
(* Properties.                                                             *)
(***************************************************************************)
\* A business date has at most one remittance, whatever the order in which
\* saves, clears and finalizations of the date are answered: a waiter for a
\* deleted draft, which does not see the row that replaced it, must not add a
\* second one (create_remittance, save_remittance_draft, the unique constraint).
OneRowPerDate ==
  \A q, r \in Row : Live(q) /\ Live(r) /\ day[q] = day[r] => q = r

\* A transaction that has locked a remittance, to delete it or to finalize it,
\* still finds it a draft when it commits, so the trigger that guards finalized
\* rows never has to stop one of these services half way.
HeldRowsAreDrafts ==
  \A w \in Worker : tx[w].held # NoRow => status[tx[w].held] = "draft"

\* A record's foreign key names a remittance that exists: every path that
\* deletes a draft returns its payments and lines to the unlinked pool, also
\* while other requests link records of the same date.
LinksPointAtLiveRows ==
  \A x \in Record : link[x] # NoRow => Live(link[x])

\* A payment linked to a remittance was summed into its repayments total, so
\* linking, which excludes a payment from every later total, loses no money.
LinkedWereCounted ==
  \A p \in Payment : link[p] # NoRow => p \in counted[link[p]]

\* No payment is in the repayments totals of two remittances, even if its date
\* is edited after it was linked.
CountedOnce ==
  \A q, r \in Row : q # r => counted[q] \cap counted[r] = {}

\* A finalized remittance is never deleted, reopened or recomputed.
FinalizedForever ==
  [][\A r \in Row : status[r] = "final" =>
       status'[r] = "final" /\ day'[r] = day[r] /\ counted'[r] = counted[r]]_vars

\* A remittance takes over no payment that another remittance has linked:
\* _collect_repayments returns payments "that are not yet linked to a
\* Remittance".
PaymentsAreNotTakenOver ==
  [][\A p \in Payment : link[p] # NoRow => link'[p] \in {link[p], NoRow}
       \/ status'[link[p]] # status[link[p]]]_vars

\* Every request is answered, also when a remittance that has unlinked or linked
\* some rows of its UPDATEs waits for one that a clerk, who waits for theirs,
\* has locked.
RequestsEnd ==
  /\ \A w \in Worker : tx[w].pc # "idle" ~> tx[w].pc = "idle"
  /\ \A k \in Clerk : edit[k] # NoEdit ~> edit[k] = NoEdit

\* The day book the rows amount to, and that the services implement it.
StateOf(d) == IF RowsOf(d) = {} THEN "none"
              ELSE IF Finalized(d) THEN "final" ELSE "draft"
ClaimOf(d) == {p \in Payment : link[p] \in RowsOf(d)}

Book == INSTANCE DayBook WITH state <- [d \in Date |-> StateOf(d)],
                              claim <- [d \in Date |-> ClaimOf(d)]

\* Through all the steps of their transactions, the services show the station
\* only the steps of the day book.
ImplementsDayBook == Book!Spec

-----------------------------------------------------------------------------
(***************************************************************************)
(* Why the safety properties hold: with them, the conjuncts below form an  *)
(* inductive invariant (RemittanceProofs).                                 *)
(***************************************************************************)
\* what a transaction holds at each of its statements
Shape(t) ==
  /\ IF t.pc = "idle" THEN t = NoTx ELSE t.op \in Op
  /\ t.pc = "lock" => t.target # NoRow /\ t.held = NoRow
  /\ t.pc = "unlink" => t.held # NoRow /\ t.op \in Replacing
  /\ t.pc \in {"insert", "collect", "link", "lines"} => t.op \in Building
  /\ t.fresh # NoRow <=> \/ t.pc \in {"collect", "link", "lines"}
                         \/ t.pc = "commit" /\ t.op \in Building
  /\ t.held # NoRow => t.held = t.target /\ t.op \in Replacing \cup {"finalize"}
  /\ t.todo # {} => t.pc \in {"unlink", "link", "lines"}
  /\ t.pc = "link" => t.todo \subseteq t.seen
  /\ t.pc = "lines" => t.todo \subseteq Line
  /\ t.taken \cap Payment \subseteq t.seen
  /\ t.taken # {} => t.pc \in {"link", "lines", "commit"} /\ t.fresh # NoRow

TxShape == \A w \in Worker : Shape(tx[w])

\* the row a transaction waits for is of its date, until somebody deletes it
TargetsOfDate ==
  \A w \in Worker : tx[w].target # NoRow =>
    /\ status[tx[w].target] # "open"
    /\ Live(tx[w].target) => day[tx[w].target] = tx[w].day

LocksExclude ==
  \A v, w \in Worker : tx[v].held = tx[w].held /\ tx[w].held # NoRow => v = w

\* a row inserted by one transaction and committed by none
FreshRows ==
  /\ \A w \in Worker : tx[w].fresh # NoRow =>
       status[tx[w].fresh] = "open" /\ day[tx[w].fresh] = tx[w].day
  /\ \A v, w \in Worker : tx[v].fresh = tx[w].fresh /\ tx[w].fresh # NoRow => v = w

\* who has inserted the row of a date has deleted the one there was, and is
\* alone in changing the rows of the date
DatesExclude ==
  \A w \in Worker : tx[w].fresh # NoRow =>
    RowsOf(tx[w].day) \subseteq {tx[w].held} /\ ~DateBusy(w)

\* who is going to delete a row has unlinked every record of it, or visits it yet
FreedLinks ==
  \A w \in Worker : tx[w].op \in Replacing /\ tx[w].held # NoRow =>
    \A x \in Record : link[x] = tx[w].held =>
      x \in tx[w].freed \/ (tx[w].pc = "unlink" /\ x \in tx[w].todo)

IInv ==
  /\ TypeOK
  /\ TxShape
  /\ TargetsOfDate
  /\ LocksExclude
  /\ FreshRows
  /\ DatesExclude
  /\ FreedLinks
  /\ HeldRowsAreDrafts
  /\ OneRowPerDate
  /\ LinksPointAtLiveRows
  /\ LinkedWereCounted

=============================================================================
