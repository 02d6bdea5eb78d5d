-------------------------- MODULE RemittanceProofs --------------------------
(***************************************************************************)
(* Proofs about the remittance service, for any number of workers, clerks, *)
(* dates, payments and lines.                                              *)
(***************************************************************************)
EXTENDS Remittance, TLAPS

USE RowAssumption, RecordAssumption, DateAssumption

(***************************************************************************)
(* Type correctness.                                                       *)
(***************************************************************************)
LEMMA NoTxType == NoTx \in Tx
BY DEF NoTx, Tx, Op, Building, NoRow

LEMMA NoRowIsNoRow == NoRow \notin Row
BY DEF NoRow, Row

\* What a transaction leaves behind is typed: statuses, links, dates, counts.
LEMMA AfterTypes ==
  ASSUME TypeOK, NEW w \in Worker
  PROVE  /\ \A r \in Row : StatusAfter(w, r) \in Status
         /\ \A x \in Record : LinkAfter(w, x) \in Row \cup {NoRow}
BY DEF TypeOK, StatusAfter, LinkAfter, Status, Tx, NoRow

LEMMA InitType == Init => TypeOK
BY NoTxType DEF Init, TypeOK, Status, NoEdit, Edit

LEMMA NextType == TypeOK /\ [Next]_vars => TypeOK'
<1> SUFFICES ASSUME TypeOK, [Next]_vars
             PROVE  TypeOK'
  OBVIOUS
<1> USE NoTxType DEF TypeOK, db
<1>1. ASSUME NEW w \in Worker, NEW op \in Op \ {"finalize"}, NEW d \in Date,
             Request(w, op, d)
      PROVE  TypeOK'
  <2>1. PICK t \in Tx : tx' = [tx EXCEPT ![w] = t]
    <3>1. ASSUME NEW r \in Row
          PROVE  [NoTx EXCEPT !.pc = "lock", !.op = op, !.day = d, !.target = r] \in Tx
      BY DEF NoTx, Tx, NoRow
    <3>2. [NoTx EXCEPT !.pc = "insert", !.op = op, !.day = d] \in Tx
      BY DEF NoTx, Tx, NoRow
    <3> QED
      BY <1>1, <3>1, <3>2 DEF Request, RowsOf
  <2> QED
    BY <1>1, <2>1 DEF Request
<1>2. ASSUME NEW w \in Worker, NEW r \in Row, RequestFinalize(w, r)
      PROVE  TypeOK'
  BY <1>2 DEF RequestFinalize, NoTx, Tx, Op, Building, NoRow
<1>3. ASSUME NEW w \in Worker, LockFindsNothing(w)
      PROVE  TypeOK'
  <2>1. [tx[w] EXCEPT !.pc = "insert", !.target = NoRow] \in Tx
    BY DEF Tx, NoRow
  <2>2. UNCHANGED <<db, edit>>
    BY <1>3 DEF LockFindsNothing
  <2>3. tx' \in [Worker -> Tx]
    BY <1>3, <2>1 DEF LockFindsNothing, End
  <2> QED
    BY <2>2, <2>3
<1>4. ASSUME NEW w \in Worker, LockRefused(w)
      PROVE  TypeOK'
  BY <1>4 DEF LockRefused, End
<1>5. ASSUME NEW w \in Worker, LockDraft(w)
      PROVE  TypeOK'
  <2>1. Holding(w) \in Tx
    <3>1. tx[w] \in Tx /\ LinkedTo(tx[w].target) \in SUBSET Record
      BY DEF LinkedTo
    <3> QED
      BY <3>1 DEF Holding, Tx
  <2> QED
    BY <1>5, <2>1 DEF LockDraft
<1>t. ASSUME NEW w \in Worker, NEW t \in Tx, tx' = [tx EXCEPT ![w] = t], UNCHANGED <<db, edit>>
      PROVE  TypeOK'
  BY <1>t
<1>6. ASSUME NEW w \in Worker, NEW x \in Record, UnlinkRow(w, x)
      PROVE  TypeOK'
  <2> DEFINE t == [tx[w] EXCEPT !.todo = @ \ {x},
                                !.freed = IF link[x] = tx[w].held THEN @ \cup {x} ELSE @]
  <2>1. t \in Tx
    BY DEF Tx
  <2>2. tx' = [tx EXCEPT ![w] = t] /\ UNCHANGED <<db, edit>>
    BY <1>6 DEF UnlinkRow
  <2> QED
    BY <1>t, <2>1, <2>2
<1>a. ASSUME NEW w \in Worker, DeleteDraft(w)
      PROVE  TypeOK'
  BY <1>a DEF DeleteDraft, Tx
<1>7. ASSUME NEW w \in Worker, InsertRow(w)
      PROVE  TypeOK'
  BY <1>7 DEF InsertRow, FreeRows, Tx, Status
<1>8. ASSUME NEW w \in Worker, InsertConflict(w)
      PROVE  TypeOK'
  BY <1>8 DEF InsertConflict, End
<1>9. ASSUME NEW w \in Worker, Collect(w)
      PROVE  TypeOK'
  <2> DEFINE found == {p \in Payment : on[p] = tx[w].day /\ Unlinked(p, w)}
             t == [tx[w] EXCEPT !.seen = found, !.todo = found, !.pc = "link"]
  <2>1. t \in Tx
    <3>1. tx[w] \in Tx
      OBVIOUS
    <3>2. found \in SUBSET Payment /\ found \in SUBSET Record
      BY DEF Record
    <3> HIDE DEF found
    <3> QED
      BY <3>1, <3>2 DEF Tx
  <2>2. tx' = [tx EXCEPT ![w] = t] /\ UNCHANGED <<db, edit>>
    BY <1>9 DEF Collect
  <2> HIDE DEF t
  <2> QED
    BY <1>t, <2>1, <2>2
<1>10. ASSUME NEW w \in Worker, NEW x \in Record, LinkRow(w, x)
       PROVE  TypeOK'
  <2> DEFINE t == [tx[w] EXCEPT !.todo = @ \ {x},
                                !.taken = IF Takes(w, x) THEN @ \cup {x} ELSE @]
  <2>1. t \in Tx
    BY DEF Tx
  <2>2. tx' = [tx EXCEPT ![w] = t] /\ UNCHANGED <<db, edit>>
    BY <1>10 DEF LinkRow
  <2> QED
    BY <1>t, <2>1, <2>2
<1>b. ASSUME NEW w \in Worker, LinkLines(w)
      PROVE  TypeOK'
  <2> DEFINE t == [tx[w] EXCEPT !.todo = LinesOfDate(w), !.pc = "lines"]
  <2>1. t \in Tx
    <3>1. tx[w] \in Tx /\ LinesOfDate(w) \in SUBSET Record
      BY DEF LinesOfDate, Record
    <3> QED
      BY <3>1 DEF Tx
  <2>2. tx' = [tx EXCEPT ![w] = t] /\ UNCHANGED <<db, edit>>
    BY <1>b DEF LinkLines
  <2> HIDE DEF t
  <2> QED
    BY <1>t, <2>1, <2>2
<1>c. ASSUME NEW w \in Worker, Built(w)
      PROVE  TypeOK'
  BY <1>c DEF Built, Tx
<1>11. ASSUME NEW w \in Worker, Commit(w)
       PROVE  TypeOK'
  <2>1. counted' \in [Row -> SUBSET Payment]
    BY <1>11 DEF Commit, Tx
  <2>2. day' \in [Row -> Date \cup {NoDate}]
    BY <1>11 DEF Commit
  <2>3. status' \in [Row -> Status] /\ link' \in [Record -> Row \cup {NoRow}]
    BY <1>11, AfterTypes DEF Commit
  <2> QED
    BY <1>11, <2>1, <2>2, <2>3 DEF Commit, End
<1>12. ASSUME NEW w \in Worker, Rollback(w)
       PROVE  TypeOK'
  BY <1>12 DEF Rollback, End, Status
<1>13. ASSUME NEW x \in Record, NEW d \in Date, RecordEntry(x, d)
       PROVE  TypeOK'
  BY <1>13 DEF RecordEntry
<1>14. ASSUME NEW k \in Clerk, NEW x \in Record, NEW op \in {"edit", "delete"},
              NEW admin \in BOOLEAN, EditLock(k, x, op, admin)
       PROVE  TypeOK'
  BY <1>14 DEF EditLock, Edit
<1>15. ASSUME NEW k \in Clerk, NEW x \in Record, NEW d \in {on[x]} \cup MoveTo,
              EditCommit(k, x, d)
       PROVE  TypeOK'
  BY <1>15 DEF EditCommit, NoEdit, Edit
<1>d. ASSUME NEW k \in Clerk, NEW x \in Record, NEW p \in Payment, DeleteLock(k, x, p)
      PROVE  TypeOK'
  BY <1>d DEF DeleteLock, Edit, Record
<1>16. ASSUME NEW k \in Clerk, NEW x \in Record, DeleteCommit(k, x)
       PROVE  TypeOK'
  BY <1>16 DEF DeleteCommit, Remove, NoEdit, Edit
<1>17. ASSUME NEW k \in Clerk, EditAbort(k) \/ \E x \in Record : DeleteRefused(k, x)
       PROVE  TypeOK'
  BY <1>17 DEF EditAbort, DeleteRefused, NoEdit, Edit
<1>18. CASE UNCHANGED vars
  BY <1>18 DEF vars
<1> QED
  BY <1>1, <1>2, <1>3, <1>4, <1>5, <1>6, <1>7, <1>8, <1>9, <1>10, <1>11, <1>12,
     <1>13, <1>14, <1>15, <1>16, <1>17, <1>18, <1>a, <1>b, <1>c, <1>d
  DEF Next, WorkerStep, ClerkStep

\* Every variable keeps its type.
THEOREM TypeCorrect == Spec => []TypeOK
BY InitType, NextType, PTL DEF Spec

-----------------------------------------------------------------------------
(***************************************************************************)
(* The inductive invariant.  Most steps of a worker change nothing but its *)
(* own transaction t: TxStep says what t must satisfy for IInv to stay.    *)
(***************************************************************************)
Replaces(t) == t.op \in Replacing /\ t.held # NoRow
Deleting(t) == Replaces(t) /\ t.pc # "unlink"

LEMMA TxStep ==
  ASSUME IInv, NEW w \in Worker, NEW t \in Tx,
         tx' = [tx EXCEPT ![w] = t], UNCHANGED <<status, day, counted, link>>,
         TypeOK',
         Shape(t),
         t.target # NoRow => /\ status[t.target] # "open"
                             /\ Live(t.target) => day[t.target] = t.day,
         t.held # NoRow => status[t.held] = "draft" /\ RowFree(t.held, w),
         t.fresh = tx[w].fresh,
         t.fresh # NoRow => t.day = tx[w].day /\ t.held = tx[w].held,
         Replaces(t) => \A x \in Record : link[x] = t.held =>
                          x \in t.freed \/ (t.pc = "unlink" /\ x \in t.todo)
  PROVE  IInv'
<1> USE DEF IInv
<1>0. \A v \in Worker \ {w} : tx'[v] = tx[v]
  BY DEF TypeOK
<1>t. tx'[w] = t
  BY DEF TypeOK
<1>1. TxShape'
  BY <1>0, <1>t DEF TxShape, Shape
<1>2. TargetsOfDate'
  BY <1>0, <1>t DEF TargetsOfDate, Live
<1>3. LocksExclude'
  BY <1>0, <1>t DEF LocksExclude, RowFree
<1>4. FreshRows'
  BY <1>0, <1>t DEF FreshRows
<1>5. DatesExclude'
  <2> SUFFICES ASSUME NEW v \in Worker, tx'[v].fresh # NoRow
               PROVE  /\ (RowsOf(tx[v].day) \subseteq {tx[v].held})'
                      /\ ~DateBusy(v)'
    BY DEF DatesExclude
  <2>1. /\ tx[v].fresh # NoRow /\ tx[v].fresh = tx'[v].fresh
        /\ tx[v].day = tx'[v].day
        /\ tx[v].held = tx'[v].held
    BY <1>0, <1>t
  <2>2. RowsOf(tx[v].day) \subseteq {tx[v].held} /\ ~DateBusy(v)
    BY <2>1 DEF DatesExclude
  <2>3. (RowsOf(tx[v].day) \subseteq {tx[v].held})'
    BY <2>1, <2>2 DEF RowsOf, Live
  <2>4. ASSUME NEW u \in Worker \ {v}, tx'[u].day = tx'[v].day,
               tx'[u].fresh # NoRow \/ Deletes(u)'
        PROVE  FALSE
    <3>1. CASE u # w
      BY <1>0, <2>1, <2>2, <2>4, <3>1 DEF DateBusy, Deletes
    <3>2. CASE u = w /\ t.fresh # NoRow
      BY <1>0, <1>t, <2>1, <2>2, <2>4, <3>2 DEF DateBusy
    <3>3. CASE u = w /\ Deleting(t)
      <4>1. t.held = t.target /\ status[t.held] = "draft" /\ day[t.held] = t.day
        BY <3>3 DEF Shape, Deleting, Replaces, Live
      <4>2. t.held \in RowsOf(tx[v].day)
        BY <4>1, <3>3, <2>1, <2>4, <1>t DEF RowsOf, Live, Deleting, Replaces, Tx
      <4>3. tx[v].held # t.held
        BY <3>3, <2>4 DEF RowFree, Deleting, Replaces
      <4> QED
        BY <4>2, <4>3, <2>2
    <3> QED
      BY <3>1, <3>2, <3>3, <2>4, <1>t DEF Deletes, Deleting, Replaces
  <2> QED
    BY <2>3, <2>4 DEF DateBusy
<1>6. FreedLinks'
  BY <1>0, <1>t DEF FreedLinks, Replaces
<1>7. HeldRowsAreDrafts'
  BY <1>0, <1>t DEF HeldRowsAreDrafts
<1>8. OneRowPerDate' /\ LinksPointAtLiveRows' /\ LinkedWereCounted'
  BY DEF OneRowPerDate, LinksPointAtLiveRows, LinkedWereCounted, Live
<1> QED
  BY <1>1, <1>2, <1>3, <1>4, <1>5, <1>6, <1>7, <1>8

\* The ledger's steps only unlink records.
LEMMA LedgerStep ==
  ASSUME IInv, TypeOK', UNCHANGED <<status, day, counted, tx>>,
         \A x \in Record : link'[x] \in {link[x], NoRow}
  PROVE  IInv'
<1> USE DEF IInv
<1>1. TxShape' /\ TargetsOfDate' /\ LocksExclude' /\ FreshRows' /\ HeldRowsAreDrafts'
  BY DEF TxShape, TargetsOfDate, LocksExclude, FreshRows, HeldRowsAreDrafts, Live
<1>2. DatesExclude'
  BY DEF DatesExclude, RowsOf, Live, DateBusy, Deletes
<1>3. FreedLinks'
  BY DEF FreedLinks, TypeOK, Tx, NoRow, Row
<1>4. OneRowPerDate'
  BY DEF OneRowPerDate, Live
<1>5. LinksPointAtLiveRows' /\ LinkedWereCounted'
  BY DEF LinksPointAtLiveRows, LinkedWereCounted, Live, Record
<1> QED
  BY <1>1, <1>2, <1>3, <1>4, <1>5

\* A transaction that ends without a commit takes its own row with it.
LEMMA ForgetStep ==
  ASSUME IInv, TypeOK', NEW w \in Worker, End(w),
         status' = [r \in Row |-> IF r = tx[w].fresh THEN "none" ELSE status[r]],
         day' = [r \in Row |-> IF r = tx[w].fresh THEN NoDate ELSE day[r]],
         UNCHANGED <<counted, link>>
  PROVE  IInv'
<1> USE DEF IInv
<1>0. /\ \A v \in Worker \ {w} : tx'[v] = tx[v]
      /\ tx'[w] = NoTx
  BY DEF TypeOK, End
<1>n. Shape(NoTx) /\ NoTx.held = NoRow /\ NoTx.fresh = NoRow /\ NoTx.target = NoRow
  BY DEF Shape, NoTx
<1>f. tx[w].fresh # NoRow => status[tx[w].fresh] = "open"
  BY DEF FreshRows
<1>l. \A r \in Row : /\ status'[r] \in {"draft", "final"} <=> status[r] \in {"draft", "final"}
                     /\ Live(r) => day'[r] = day[r] /\ status'[r] = status[r]
  BY <1>f DEF Live, TypeOK, Tx, NoRow, Row
<1>1. TxShape'
  BY <1>0, <1>n DEF TxShape
<1>2. TargetsOfDate'
  <2> SUFFICES ASSUME NEW v \in Worker \ {w}, tx[v].target # NoRow
               PROVE  /\ status'[tx[v].target] # "open"
                      /\ status'[tx[v].target] \in {"draft", "final"} => day'[tx[v].target] = tx[v].day
    BY <1>0, <1>n DEF TargetsOfDate, Live
  <2>1. tx[v].target \in Row
    BY DEF TypeOK, Tx
  <2>2. status[tx[v].target] # "open" /\ (Live(tx[v].target) => day[tx[v].target] = tx[v].day)
    BY DEF TargetsOfDate
  <2> QED
    BY <2>1, <2>2, <1>l DEF Live
<1>3. LocksExclude'
  BY <1>0, <1>n DEF LocksExclude
<1>4. FreshRows'
  <2>1. \A v \in Worker \ {w} : tx[v].fresh # NoRow => tx[v].fresh # tx[w].fresh /\ tx[v].fresh \in Row
    BY DEF FreshRows, TypeOK, Tx
  <2> QED
    BY <1>0, <1>n, <2>1 DEF FreshRows
<1>5. DatesExclude'
  <2> SUFFICES ASSUME NEW v \in Worker \ {w}, tx[v].fresh # NoRow
               PROVE  /\ (RowsOf(tx[v].day) \subseteq {tx[v].held})'
                      /\ ~DateBusy(v)'
    BY <1>0, <1>n DEF DatesExclude
  <2>1. RowsOf(tx[v].day) \subseteq {tx[v].held} /\ ~DateBusy(v)
    BY DEF DatesExclude
  <2>2. (RowsOf(tx[v].day) \subseteq {tx[v].held})'
    BY <1>0, <1>l, <2>1 DEF RowsOf, Live
  <2>3. ~DateBusy(v)'
    BY <1>0, <1>n, <2>1 DEF DateBusy, Deletes
  <2> QED
    BY <2>2, <2>3
<1>6. FreedLinks'
  BY <1>0, <1>n DEF FreedLinks
<1>7. HeldRowsAreDrafts'
  <2> SUFFICES ASSUME NEW v \in Worker \ {w}, tx[v].held # NoRow
               PROVE  status'[tx[v].held] = "draft"
    BY <1>0, <1>n DEF HeldRowsAreDrafts
  <2>1. tx[v].held \in Row /\ status[tx[v].held] = "draft"
    BY DEF HeldRowsAreDrafts, TypeOK, Tx
  <2> QED
    BY <2>1, <1>l DEF Live
<1>8. OneRowPerDate'
  BY <1>l DEF OneRowPerDate, Live
<1>9. LinksPointAtLiveRows' /\ LinkedWereCounted'
  BY <1>l DEF LinksPointAtLiveRows, LinkedWereCounted, Live, TypeOK
<1> QED
  BY <1>1, <1>2, <1>3, <1>4, <1>5, <1>6, <1>7, <1>8, <1>9

\* The INSERT claims an id nobody uses and a date nobody else changes.
LEMMA InsertStep ==
  ASSUME IInv, TypeOK', NEW w \in Worker, InsertRow(w)
  PROVE  IInv'
<1> USE DEF IInv
<1>r. PICK r \in FreeRows :
        /\ status' = [status EXCEPT ![r] = "open"]
        /\ day' = [day EXCEPT ![r] = tx[w].day]
        /\ tx' = [tx EXCEPT ![w].fresh = r, ![w].pc = "collect"]
  BY DEF InsertRow
<1>u. UNCHANGED <<counted, link>> /\ tx[w].pc = "insert" /\ ~DateBusy(w)
      /\ RowsOf(tx[w].day) \subseteq {tx[w].held}
  BY DEF InsertRow
<1>g. /\ r \in Row /\ r # NoRow /\ status[r] = "none"
      /\ \A v \in Worker : tx[v].target # r
  BY DEF FreeRows, Row, NoRow
<1>0. \A v \in Worker \ {w} : tx'[v] = tx[v]
  BY <1>r DEF TypeOK
<1>t. /\ tx'[w].pc = "collect" /\ tx'[w].fresh = r
      /\ tx'[w].op = tx[w].op /\ tx'[w].day = tx[w].day /\ tx'[w].target = tx[w].target
      /\ tx'[w].held = tx[w].held /\ tx'[w].freed = tx[w].freed
      /\ tx'[w].seen = tx[w].seen /\ tx'[w].taken = tx[w].taken
      /\ tx'[w].todo = tx[w].todo
  BY <1>r DEF TypeOK, Tx
<1>s. \A q \in Row : /\ status'[q] = (IF q = r THEN "open" ELSE status[q])
                     /\ day'[q] = (IF q = r THEN tx[w].day ELSE day[q])
  BY <1>r DEF TypeOK
<1>l. \A q \in Row : /\ status'[q] \in {"draft", "final"} <=> status[q] \in {"draft", "final"}
                     /\ Live(q) => day'[q] = day[q] /\ status'[q] = status[q] /\ q # r
  BY <1>s, <1>g DEF Live
<1>h. \A v \in Worker : tx[v].held # NoRow => tx[v].held \in Row /\ tx[v].held # r
  BY <1>g DEF TxShape, Shape, TypeOK, Tx
<1>f. \A v \in Worker : tx[v].fresh # NoRow => tx[v].fresh \in Row /\ tx[v].fresh # r
  BY <1>g DEF FreshRows, TypeOK, Tx
<1>1. TxShape'
  BY <1>0, <1>t, <1>u, <1>g DEF TxShape, Shape
<1>2. TargetsOfDate'
  <2>1. ASSUME NEW v \in Worker, tx[v].target # NoRow
        PROVE  /\ status'[tx[v].target] # "open"
               /\ status'[tx[v].target] \in {"draft", "final"} => day'[tx[v].target] = tx[v].day
    <3>1. tx[v].target \in Row /\ tx[v].target # r
      BY <2>1, <1>g DEF TypeOK, Tx
    <3> QED
      BY <2>1, <3>1, <1>s, <1>l DEF TargetsOfDate, Live
  <2> QED
    BY <2>1, <1>0, <1>t DEF TargetsOfDate, Live
<1>3. LocksExclude'
  BY <1>0, <1>t DEF LocksExclude
<1>4. FreshRows'
  <2>1. \A v \in Worker : tx'[v].fresh # NoRow =>
          status'[tx'[v].fresh] = "open" /\ day'[tx'[v].fresh] = tx'[v].day
    BY <1>0, <1>t, <1>f, <1>s, <1>g DEF FreshRows
  <2>2. \A u, v \in Worker : tx'[u].fresh = tx'[v].fresh /\ tx'[v].fresh # NoRow => u = v
    BY <1>0, <1>t, <1>f DEF FreshRows
  <2> QED
    BY <2>1, <2>2 DEF FreshRows
<1>5. DatesExclude'
  <2> SUFFICES ASSUME NEW v \in Worker, tx'[v].fresh # NoRow
               PROVE  /\ (RowsOf(tx[v].day) \subseteq {tx[v].held})'
                      /\ ~DateBusy(v)'
    BY <1>0, <1>t DEF DatesExclude, RowsOf
  <2>1. RowsOf(tx[v].day) \subseteq {tx[v].held} /\ ~DateBusy(v)
    BY <1>0, <1>u DEF DatesExclude
  <2>2. (RowsOf(tx[v].day) \subseteq {tx[v].held})'
    BY <1>0, <1>t, <1>l, <2>1 DEF RowsOf, Live
  <2>3. v # w => tx[v].fresh # NoRow /\ tx[v].day # tx[w].day
    BY <1>0, <1>u DEF DateBusy
  <2>4. ~DateBusy(v)'
    BY <1>0, <1>t, <2>1, <2>3, <1>u DEF DateBusy, Deletes
  <2> QED
    BY <2>2, <2>4
<1>6. FreedLinks'
  BY <1>0, <1>t, <1>u DEF FreedLinks
<1>7. HeldRowsAreDrafts'
  BY <1>0, <1>t, <1>h, <1>s DEF HeldRowsAreDrafts
<1>8. OneRowPerDate'
  BY <1>l DEF OneRowPerDate, Live
<1>9. LinksPointAtLiveRows' /\ LinkedWereCounted'
  BY <1>l, <1>u DEF LinksPointAtLiveRows, LinkedWereCounted, Live, TypeOK
<1> QED
  BY <1>1, <1>2, <1>3, <1>4, <1>5, <1>6, <1>7, <1>8, <1>9

\* A commit shows the rows of one date: its own row replaces the one it held,
\* or the one it held is deleted or finalized.
LEMMA CommitStep ==
  ASSUME IInv, TypeOK', NEW w \in Worker, Commit(w)
  PROVE  IInv'
<1> DEFINE f == tx[w].fresh
           h == tx[w].held
<1> USE DEF IInv
<1>0. /\ \A v \in Worker \ {w} : tx'[v] = tx[v]
      /\ tx'[w] = NoTx
  BY DEF Commit, TypeOK, End
<1>n. Shape(NoTx) /\ NoTx.held = NoRow /\ NoTx.fresh = NoRow /\ NoTx.target = NoRow
  BY DEF Shape, NoTx
<1>w. /\ tx[w].pc = "commit" /\ Shape(tx[w])
      /\ f # NoRow <=> tx[w].op \in Building
  BY DEF Commit, TxShape, Shape
<1>f. f # NoRow => /\ f \in Row /\ status[f] = "open" /\ day[f] = tx[w].day
                   /\ status'[f] \in {"draft", "final"}
                   /\ day'[f] = tx[w].day /\ counted'[f] = tx[w].seen
  <2>1. f # NoRow => f \in Row /\ status[f] = "open" /\ day[f] = tx[w].day
    BY DEF FreshRows, TypeOK, Tx
  <2>h. f # NoRow => f # h
    BY <2>1 DEF HeldRowsAreDrafts
  <2>2. f # NoRow => StatusAfter(w, f) \in {"draft", "final"}
    BY <2>h DEF StatusAfter
  <2>3. f # NoRow => /\ status'[f] = StatusAfter(w, f)
                     /\ day'[f] = (IF StatusAfter(w, f) = "none" THEN NoDate ELSE day[f])
                     /\ counted'[f] = tx[w].seen
    BY <2>1 DEF Commit
  <2> QED
    BY <2>1, <2>2, <2>3
<1>h. h # NoRow => /\ h \in Row /\ status[h] = "draft" /\ day[h] = tx[w].day /\ h # f
                   /\ tx[w].op = "finalize" => /\ status'[h] = "final"
                                               /\ day'[h] = day[h] /\ counted'[h] = counted[h]
                   /\ tx[w].op # "finalize" => status'[h] = "none" /\ Deletes(w)
  <2> SUFFICES ASSUME h # NoRow
               PROVE  /\ h \in Row /\ status[h] = "draft" /\ day[h] = tx[w].day /\ h # f
                      /\ tx[w].op = "finalize" => /\ status'[h] = "final"
                                                  /\ day'[h] = day[h] /\ counted'[h] = counted[h]
                      /\ tx[w].op # "finalize" => status'[h] = "none" /\ Deletes(w)
    OBVIOUS
  <2>1. h \in Row /\ status[h] = "draft"
    BY DEF HeldRowsAreDrafts, TypeOK, Tx
  <2>2. h # f
    BY <1>f, <2>1 DEF NoRow, Row
  <2>3. day[h] = tx[w].day
    BY <1>w, <2>1 DEF TargetsOfDate, Shape, Live
  <2>4. tx[w].op = "finalize" => /\ status'[h] = "final"
                                 /\ day'[h] = day[h] /\ counted'[h] = counted[h]
    BY <2>1, <2>2 DEF Commit, StatusAfter
  <2>5. tx[w].op # "finalize" => status'[h] = "none" /\ Deletes(w)
    BY <1>w, <2>1, <2>2 DEF Commit, StatusAfter, Deletes, Shape
  <2> QED
    BY <2>1, <2>2, <2>3, <2>4, <2>5
<1>o. \A q \in Row \ {f, h} :
        /\ status'[q] = status[q]
        /\ status[q] # "none" => day'[q] = day[q] /\ counted'[q] = counted[q]
  BY DEF Commit, StatusAfter
<1>b. f # NoRow => tx[w].op # "finalize"
  BY <1>w DEF Building
<1>c. \A x \in Record :
        \/ x \in tx[w].taken /\ link'[x] = f /\ f # NoRow
        \/ link'[x] = NoRow
        \/ link'[x] = link[x] /\ x \notin tx[w].freed
  BY <1>w DEF Commit, LinkAfter, Shape
<1>1. TxShape'
  BY <1>0, <1>n DEF TxShape
<1>2. TargetsOfDate'
  <2> SUFFICES ASSUME NEW v \in Worker \ {w}, tx[v].target # NoRow
               PROVE  /\ status'[tx[v].target] # "open"
                      /\ status'[tx[v].target] \in {"draft", "final"} =>
                           day'[tx[v].target] = tx[v].day
    BY <1>0, <1>n DEF TargetsOfDate, Live
  <2> DEFINE t == tx[v].target
  <2>1. /\ t \in Row /\ status[t] # "open"
        /\ status[t] \in {"draft", "final"} => day[t] = tx[v].day
    BY DEF TargetsOfDate, Live, TypeOK, Tx
  <2>2. t # f
    BY <2>1, <1>f DEF NoRow, Row
  <2>3. CASE t = h
    BY <2>1, <2>3, <1>h DEF NoRow, Row
  <2>4. CASE t # h
    BY <2>1, <2>2, <2>4, <1>o
  <2> QED
    BY <2>3, <2>4
<1>3. LocksExclude'
  BY <1>0, <1>n DEF LocksExclude
<1>4. FreshRows'
  <2>1. ASSUME NEW v \in Worker \ {w}, tx[v].fresh # NoRow
        PROVE  status'[tx[v].fresh] = "open" /\ day'[tx[v].fresh] = tx[v].day
    <3>1. /\ tx[v].fresh \in Row /\ status[tx[v].fresh] = "open"
          /\ day[tx[v].fresh] = tx[v].day /\ tx[v].fresh # f
      BY <2>1 DEF FreshRows, TypeOK, Tx
    <3>2. tx[v].fresh # h
      BY <3>1, <2>1, <1>h
    <3> QED
      BY <3>1, <3>2, <1>o
  <2> QED
    BY <1>0, <1>n, <2>1 DEF FreshRows
<1>5. DatesExclude'
  <2> SUFFICES ASSUME NEW v \in Worker \ {w}, tx[v].fresh # NoRow
               PROVE  /\ (RowsOf(tx[v].day) \subseteq {tx[v].held})'
                      /\ ~DateBusy(v)'
    BY <1>0, <1>n DEF DatesExclude
  <2>1. RowsOf(tx[v].day) \subseteq {tx[v].held} /\ ~DateBusy(v)
    BY DEF DatesExclude
  <2>2. f # NoRow => tx[v].day # tx[w].day
    BY <2>1 DEF DateBusy
  <2>3. ASSUME NEW q \in Row, status'[q] \in {"draft", "final"}, day'[q] = tx[v].day
        PROVE  q = tx[v].held
    <3>1. q # f
      BY <2>2, <2>3, <1>f DEF NoRow, Row
    <3>2. status[q] \in {"draft", "final"} /\ day[q] = tx[v].day
      BY <3>1, <2>3, <1>h, <1>o DEF NoRow, Row
    <3> QED
      BY <3>2, <2>1 DEF RowsOf, Live
  <2>4. (RowsOf(tx[v].day) \subseteq {tx[v].held})'
    BY <2>3, <1>0 DEF RowsOf, Live
  <2>5. ~DateBusy(v)'
    BY <1>0, <1>n, <2>1 DEF DateBusy, Deletes
  <2> QED
    BY <2>4, <2>5
<1>6. FreedLinks'
  <2> SUFFICES ASSUME NEW v \in Worker \ {w}, tx[v].op \in Replacing, tx[v].held # NoRow,
                      NEW x \in Record, link'[x] = tx[v].held
               PROVE  x \in tx[v].freed \/ (tx[v].pc = "unlink" /\ x \in tx[v].todo)
    BY <1>0, <1>n DEF FreedLinks
  <2>1. tx[v].held # f
    BY <1>f DEF HeldRowsAreDrafts
  <2>2. link[x] = tx[v].held
    BY <2>1, <1>c
  <2> QED
    BY <2>2 DEF FreedLinks
<1>7. HeldRowsAreDrafts'
  <2> SUFFICES ASSUME NEW v \in Worker \ {w}, tx[v].held # NoRow
               PROVE  status'[tx[v].held] = "draft"
    BY <1>0, <1>n DEF HeldRowsAreDrafts
  <2>1. /\ tx[v].held \in Row /\ status[tx[v].held] = "draft" /\ tx[v].held # h
    BY DEF HeldRowsAreDrafts, LocksExclude, TypeOK, Tx
  <2>2. tx[v].held # f
    BY <2>1, <1>f DEF NoRow, Row
  <2> QED
    BY <2>1, <2>2, <1>o
<1>8. OneRowPerDate'
  <2>1. ASSUME NEW q \in Row, status'[q] \in {"draft", "final"}, q # f
        PROVE  /\ status[q] \in {"draft", "final"} /\ day'[q] = day[q]
               /\ f # NoRow => day[q] # tx[w].day
    <3>1. status[q] \in {"draft", "final"} /\ day'[q] = day[q]
      BY <2>1, <1>h, <1>o DEF NoRow, Row
    <3>2. f # NoRow => q # h
      BY <2>1, <1>h, <1>b DEF NoRow, Row
    <3>3. f # NoRow => RowsOf(tx[w].day) \subseteq {h}
      BY DEF DatesExclude
    <3> QED
      BY <3>1, <3>2, <3>3 DEF RowsOf, Live
  <2>2. ASSUME NEW q \in Row, NEW r \in Row, day'[q] = day'[r],
               status'[q] \in {"draft", "final"}, status'[r] \in {"draft", "final"}
        PROVE  q = r
    <3>1. CASE q # f /\ r # f
      BY <2>1, <2>2, <3>1 DEF OneRowPerDate, Live
    <3>2. CASE q = f \/ r = f
      BY <2>1, <2>2, <3>2, <1>f DEF NoRow, Row
    <3> QED
      BY <3>1, <3>2
  <2> QED
    BY <2>2 DEF OneRowPerDate, Live
<1>9. ASSUME NEW x \in Record, link'[x] # NoRow
      PROVE  /\ status'[link'[x]] \in {"draft", "final"}
             /\ x \in Payment => x \in counted'[link'[x]]
  <2>1. CASE x \in tx[w].taken /\ link'[x] = f /\ f # NoRow
    BY <2>1, <1>f, <1>w DEF Shape
  <2>2. CASE link'[x] = link[x] /\ x \notin tx[w].freed
    <3> DEFINE r == link[x]
    <3>1. r \in Row /\ status[r] \in {"draft", "final"} /\ (x \in Payment => x \in counted[r])
      BY <1>9, <2>2 DEF LinksPointAtLiveRows, LinkedWereCounted, Live, TypeOK
    <3>2. r # f
      BY <3>1, <1>f DEF NoRow, Row
    <3>3. r = h => tx[w].op = "finalize"
      BY <3>1, <2>2, <1>h, <1>w DEF FreedLinks, Deletes, NoRow, Row
    <3>4. CASE r = h
      BY <3>1, <3>3, <3>4, <2>2, <1>h DEF NoRow, Row
    <3>5. CASE r # h
      BY <3>1, <3>2, <3>5, <2>2, <1>o
    <3> QED
      BY <3>4, <3>5
  <2> QED
    BY <2>1, <2>2, <1>9, <1>c
<1>10. LinksPointAtLiveRows' /\ LinkedWereCounted'
  BY <1>9 DEF LinksPointAtLiveRows, LinkedWereCounted, Live, Record
<1> QED
  BY <1>1, <1>2, <1>3, <1>4, <1>5, <1>6, <1>7, <1>8, <1>10

LEMMA InitInv == Init => IInv
<1> SUFFICES ASSUME Init
             PROVE  IInv
  OBVIOUS
<1>1. TypeOK
  BY InitType
<1>2. \A w \in Worker : tx[w] = NoTx
  BY DEF Init
<1>n. /\ Shape(NoTx) /\ NoTx.held = NoRow /\ NoTx.fresh = NoRow
      /\ NoTx.target = NoRow
  BY DEF Shape, NoTx
<1>3. TxShape /\ TargetsOfDate /\ LocksExclude /\ FreshRows /\ DatesExclude
  BY <1>2, <1>n DEF TxShape, TargetsOfDate, LocksExclude, FreshRows, DatesExclude
<1>4. FreedLinks /\ HeldRowsAreDrafts
  BY <1>2, <1>n DEF FreedLinks, HeldRowsAreDrafts
<1>5. OneRowPerDate /\ LinksPointAtLiveRows /\ LinkedWereCounted
  BY DEF Init, OneRowPerDate, LinksPointAtLiveRows, LinkedWereCounted, Live, Record
<1> QED
  BY <1>1, <1>3, <1>4, <1>5 DEF IInv

LEMMA NextInv == IInv /\ [Next]_vars => IInv'
<1> SUFFICES ASSUME IInv, [Next]_vars
             PROVE  IInv'
  OBVIOUS
<1>0. TypeOK /\ TypeOK'
  BY NextType DEF IInv
<1>n. NoTx \in Tx /\ Shape(NoTx) /\ NoTx.held = NoRow /\ NoTx.fresh = NoRow
      /\ NoTx.target = NoRow /\ ~Replaces(NoTx)
  BY NoTxType DEF Shape, NoTx, Replaces
<1>s. \A w \in Worker : Shape(tx[w]) /\ tx[w] \in Tx
  BY <1>0 DEF IInv, TxShape, TypeOK
<1>1. ASSUME NEW w \in Worker, NEW op \in Op \ {"finalize"}, NEW d \in Date,
             Request(w, op, d)
      PROVE  IInv'
  <2>0. tx[w].fresh = NoRow
    BY <1>1, <1>s, <1>n DEF Request, Shape
  <2>1. ASSUME NEW r \in RowsOf(d),
               tx' = [tx EXCEPT ![w] = [NoTx EXCEPT !.pc = "lock", !.op = op,
                                                    !.day = d, !.target = r]]
        PROVE  IInv'
    <3> DEFINE t == [NoTx EXCEPT !.pc = "lock", !.op = op, !.day = d, !.target = r]
    <3>0. r \in Row /\ r # NoRow
      BY DEF RowsOf, Row, NoRow
    <3>a. t \in Tx
      BY <3>0 DEF NoTx, Tx, NoRow
    <3>1. t \in Tx /\ Shape(t) /\ ~Replaces(t)
      BY <3>0, <3>a DEF NoTx, Shape, Replaces
    <3>2. status[r] # "open" /\ day[r] = d
      BY DEF RowsOf, Live
    <3> QED
      BY <1>0, <1>1, <2>0, <2>1, <3>1, <3>2, TxStep DEF Request, db, NoTx
  <2>2. ASSUME op \in Building,
               tx' = [tx EXCEPT ![w] = [NoTx EXCEPT !.pc = "insert", !.op = op, !.day = d]]
        PROVE  IInv'
    <3> DEFINE t == [NoTx EXCEPT !.pc = "insert", !.op = op, !.day = d]
    <3>1. t \in Tx /\ Shape(t) /\ ~Replaces(t)
      BY <2>2 DEF NoTx, Tx, NoRow, Shape, Replaces, Row
    <3> QED
      BY <1>0, <1>1, <2>0, <2>2, <3>1, TxStep DEF Request, db, NoTx
  <2> QED
    BY <1>1, <2>1, <2>2 DEF Request
<1>2. ASSUME NEW w \in Worker, NEW r \in Row, RequestFinalize(w, r)
      PROVE  IInv'
  <2> DEFINE t == [NoTx EXCEPT !.pc = "lock", !.op = "finalize", !.day = day[r], !.target = r]
  <2>0. tx[w].fresh = NoRow
    BY <1>2, <1>s, <1>n DEF RequestFinalize, Shape
  <2>1. day[r] \in Date \cup {NoDate}
    BY <1>0 DEF TypeOK
  <2>a. t \in Tx
    BY <2>1 DEF NoTx, Tx, NoRow, Op
  <2>2. t \in Tx /\ Shape(t) /\ ~Replaces(t)
    BY <2>a DEF NoTx, Shape, Replaces, Op, Row, NoRow
  <2> QED
    BY <1>0, <1>2, <2>0, <2>2, TxStep DEF RequestFinalize, db, NoTx, Live
<1>e. ASSUME NEW w \in Worker, End(w), UNCHANGED <<status, day, counted, link>>,
             tx[w].fresh = NoRow
      PROVE  IInv'
  BY <1>0, <1>e, <1>n, TxStep DEF End
<1>3. ASSUME NEW w \in Worker, LockFindsNothing(w)
      PROVE  IInv'
  <2>0. tx[w].fresh = NoRow /\ tx[w].held = NoRow
    BY <1>3, <1>s DEF LockFindsNothing, AtLock, Shape
  <2>1. CASE tx[w].op \in Building
    <3> DEFINE t == [tx[w] EXCEPT !.pc = "insert", !.target = NoRow]
    <3>0. /\ tx[w].pc = "lock" /\ tx[w].todo = {} /\ tx[w] \in Tx /\ Shape(tx[w])
      BY <1>s, <1>3 DEF LockFindsNothing, AtLock, Shape
    <3>a. t \in Tx
      BY <3>0 DEF Tx, NoRow
    <3>b. /\ t.pc = "insert" /\ t.op = tx[w].op /\ t.target = NoRow /\ t.held = NoRow
          /\ t.fresh = NoRow /\ t.todo = {} /\ t.seen = tx[w].seen /\ t.taken = tx[w].taken
      BY <2>0, <3>0 DEF Tx
    <3>1. t \in Tx /\ Shape(t) /\ ~Replaces(t)
      BY <2>0, <2>1, <3>0, <3>a, <3>b DEF Shape, Replaces
    <3>2. tx' = [tx EXCEPT ![w] = t]
      BY <1>3, <2>1 DEF LockFindsNothing
    <3>3. t.target = NoRow /\ t.held = NoRow /\ t.fresh = NoRow
      BY <2>0, <1>s DEF Tx
    <3> HIDE DEF t
    <3> QED
      BY <1>0, <1>3, <2>0, <3>1, <3>2, <3>3, TxStep DEF LockFindsNothing, db
  <2>2. CASE tx[w].op \notin Building
    BY <1>3, <2>0, <2>2, <1>e DEF LockFindsNothing, db
  <2> QED
    BY <2>1, <2>2
<1>4. ASSUME NEW w \in Worker, LockRefused(w)
      PROVE  IInv'
  BY <1>4, <1>s, <1>e DEF LockRefused, AtLock, Shape, db
<1>5. ASSUME NEW w \in Worker, LockDraft(w)
      PROVE  IInv'
  <2> DEFINE t == Holding(w)
  <2>0. /\ tx[w].pc = "lock" /\ tx[w].op \in Op /\ tx[w].op # "create"
        /\ tx[w].fresh = NoRow /\ tx[w].target # NoRow /\ tx[w].target \in Row
        /\ tx[w].todo = {}
        /\ status[tx[w].target] = "draft" /\ RowFree(tx[w].target, w)
    BY <1>5, <1>s DEF LockDraft, AtLock, Shape, Tx
  <2>1. /\ tx[w].op = "finalize" => t.pc = "commit" /\ t.todo = {}
        /\ tx[w].op # "finalize" => /\ t.pc = "unlink" /\ t.op \in Replacing
                                   /\ t.todo = LinkedTo(tx[w].target)
        /\ t.held = tx[w].target /\ t.target = tx[w].target /\ t.op = tx[w].op
        /\ t.day = tx[w].day /\ t.fresh = NoRow /\ t.seen = tx[w].seen /\ t.taken = tx[w].taken
    BY <2>0, <1>s DEF Holding, Tx, Op, Building, Replacing
  <2>2. t \in Tx /\ tx' = [tx EXCEPT ![w] = t]
    <3>1. tx[w] \in Tx /\ LinkedTo(tx[w].target) \in SUBSET Record
      BY <1>s DEF LinkedTo
    <3> QED
      BY <1>5, <3>1 DEF LockDraft, Holding, Tx
  <2>3. Shape(t)
    BY <2>0, <2>1, <1>s DEF Shape, Building, Replacing
  <2>4. day[tx[w].target] = tx[w].day
    BY <2>0 DEF IInv, TargetsOfDate, Live
  <2>5. Replaces(t) => t.pc = "unlink" /\ \A x \in Record : link[x] = t.held => x \in t.todo
    BY <2>1 DEF Replaces, Replacing, LinkedTo
  <2> HIDE DEF t
  <2> QED
    BY <1>0, <1>5, <2>0, <2>1, <2>2, <2>3, <2>4, <2>5, TxStep DEF LockDraft, db
\* a step that leaves the locks, the row and the date of the transaction
<1>k. ASSUME NEW w \in Worker, NEW t \in Tx, tx' = [tx EXCEPT ![w] = t],
             UNCHANGED <<status, day, counted, link>>, Shape(t),
             t.op = tx[w].op, t.day = tx[w].day, t.target = tx[w].target,
             t.held = tx[w].held, t.fresh = tx[w].fresh,
             \A x \in Record :
               x \in tx[w].freed \/ (tx[w].pc = "unlink" /\ x \in tx[w].todo)
                 => \/ x \in t.freed \/ (t.pc = "unlink" /\ x \in t.todo)
                    \/ link[x] # t.held
      PROVE  IInv'
  <2>1. t.target # NoRow => /\ status[t.target] # "open"
                            /\ Live(t.target) => day[t.target] = t.day
    BY <1>k DEF IInv, TargetsOfDate
  <2>2. t.held # NoRow => status[t.held] = "draft" /\ RowFree(t.held, w)
    BY <1>k DEF IInv, HeldRowsAreDrafts, LocksExclude, RowFree
  <2>3. Replaces(t) => \A x \in Record : link[x] = t.held =>
                         x \in t.freed \/ (t.pc = "unlink" /\ x \in t.todo)
    BY <1>k DEF IInv, FreedLinks, Replaces
  <2> QED
    BY <1>0, <1>k, <2>1, <2>2, <2>3, TxStep
<1>6. ASSUME NEW w \in Worker, NEW x \in Record, UnlinkRow(w, x)
      PROVE  IInv'
  <2> DEFINE t == [tx[w] EXCEPT !.todo = @ \ {x},
                                !.freed = IF link[x] = tx[w].held THEN @ \cup {x} ELSE @]
  <2>0. /\ tx[w].pc = "unlink" /\ tx[w] \in Tx /\ Shape(tx[w])
        /\ tx' = [tx EXCEPT ![w] = t] /\ UNCHANGED db
    BY <1>6, <1>s DEF UnlinkRow
  <2>1. t \in Tx
    BY <2>0 DEF Tx
  <2>2. /\ t.pc = tx[w].pc /\ t.op = tx[w].op /\ t.day = tx[w].day /\ t.target = tx[w].target
        /\ t.held = tx[w].held /\ t.fresh = tx[w].fresh /\ t.seen = tx[w].seen
        /\ t.taken = tx[w].taken /\ t.todo = tx[w].todo \ {x}
        /\ t.freed = IF link[x] = tx[w].held THEN tx[w].freed \cup {x} ELSE tx[w].freed
    BY <2>0 DEF Tx
  <2> HIDE DEF t
  <2>3. Shape(t)
    BY <2>0, <2>2 DEF Shape
  <2> QED
    BY <1>k, <2>0, <2>1, <2>2, <2>3 DEF db
<1>a. ASSUME NEW w \in Worker, DeleteDraft(w)
      PROVE  IInv'
  <2> DEFINE t == [tx[w] EXCEPT !.pc = IF tx[w].op = "clear" THEN "commit" ELSE "insert"]
  <2>0. /\ tx[w].pc = "unlink" /\ tx[w].todo = {} /\ tx[w] \in Tx /\ Shape(tx[w])
        /\ tx' = [tx EXCEPT ![w] = t] /\ UNCHANGED db
    BY <1>a, <1>s DEF DeleteDraft
  <2>1. t \in Tx
    BY <2>0 DEF Tx
  <2>2. /\ t.pc = (IF tx[w].op = "clear" THEN "commit" ELSE "insert")
        /\ t.op = tx[w].op /\ t.day = tx[w].day /\ t.target = tx[w].target
        /\ t.held = tx[w].held /\ t.fresh = tx[w].fresh /\ t.seen = tx[w].seen
        /\ t.taken = tx[w].taken /\ t.todo = tx[w].todo /\ t.freed = tx[w].freed
    BY <2>0 DEF Tx
  <2> HIDE DEF t
  <2>3. Shape(t)
    BY <2>0, <2>2 DEF Shape, Building, Replacing
  <2> QED
    BY <1>k, <2>0, <2>1, <2>2, <2>3 DEF db
<1>7. ASSUME NEW w \in Worker, InsertRow(w)
      PROVE  IInv'
  BY <1>0, <1>7, InsertStep
<1>8. ASSUME NEW w \in Worker, InsertConflict(w)
      PROVE  IInv'
  BY <1>8, <1>s, <1>e DEF InsertConflict, Shape, db
<1>9. ASSUME NEW w \in Worker, Collect(w)
      PROVE  IInv'
  <2> DEFINE found == {p \in Payment : on[p] = tx[w].day /\ Unlinked(p, w)}
             t == [tx[w] EXCEPT !.seen = found, !.todo = found, !.pc = "link"]
  <2>0. /\ tx[w].pc = "collect" /\ tx[w] \in Tx /\ Shape(tx[w])
        /\ tx' = [tx EXCEPT ![w] = t] /\ UNCHANGED db
    BY <1>9, <1>s DEF Collect
  <2>1. found \in SUBSET Payment /\ found \in SUBSET Record
    BY DEF Record
  <2> HIDE DEF found
  <2>2. t \in Tx
    BY <2>0, <2>1 DEF Tx
  <2>3. /\ t.pc = "link" /\ t.op = tx[w].op /\ t.day = tx[w].day /\ t.target = tx[w].target
        /\ t.held = tx[w].held /\ t.fresh = tx[w].fresh /\ t.freed = tx[w].freed
        /\ t.seen = found /\ t.todo = found /\ t.taken = tx[w].taken
    BY <2>0 DEF Tx
  <2> HIDE DEF t
  <2>4. Shape(t)
    BY <2>0, <2>3 DEF Shape
  <2> QED
    BY <1>k, <2>0, <2>2, <2>3, <2>4 DEF db
<1>10. ASSUME NEW w \in Worker, NEW x \in Record, LinkRow(w, x)
       PROVE  IInv'
  <2> DEFINE t == [tx[w] EXCEPT !.todo = @ \ {x},
                                !.taken = IF Takes(w, x) THEN @ \cup {x} ELSE @]
  <2>0. /\ tx[w].pc \in {"link", "lines"} /\ tx[w] \in Tx /\ Shape(tx[w]) /\ x \in tx[w].todo
        /\ tx' = [tx EXCEPT ![w] = t] /\ UNCHANGED db
    BY <1>10, <1>s DEF LinkRow, Pending
  <2>1. t \in Tx
    BY <2>0 DEF Tx
  <2>2. /\ t.pc = tx[w].pc /\ t.op = tx[w].op /\ t.day = tx[w].day /\ t.target = tx[w].target
        /\ t.held = tx[w].held /\ t.fresh = tx[w].fresh /\ t.seen = tx[w].seen
        /\ t.freed = tx[w].freed /\ t.todo = tx[w].todo \ {x}
        /\ t.taken \subseteq tx[w].taken \cup {x}
    BY <2>0 DEF Tx
  <2>3. x \in Payment => x \in tx[w].seen
    BY <2>0 DEF Shape
  <2> HIDE DEF t
  <2>4. Shape(t)
    BY <2>0, <2>2, <2>3 DEF Shape
  <2> QED
    BY <1>k, <2>0, <2>1, <2>2, <2>4 DEF db
<1>b. ASSUME NEW w \in Worker, LinkLines(w) \/ Built(w)
      PROVE  IInv'
  <2>0. PICK L \in SUBSET Line, c \in {"lines", "commit"} :
          /\ tx' = [tx EXCEPT ![w] = [tx[w] EXCEPT !.todo = L, !.pc = c]]
          /\ tx[w].pc \in {"link", "lines"} /\ UNCHANGED db
          /\ c = "commit" => L = {}
          /\ tx[w].pc = "lines" => c = "commit"
          /\ tx[w].pc = "link" => c = "lines"
    <3>1. CASE LinkLines(w)
      BY <3>1 DEF LinkLines, LinesOfDate
    <3>2. CASE Built(w)
      <4>1. /\ tx[w].todo = {} /\ tx[w].pc = "lines" /\ UNCHANGED db
            /\ tx' = [tx EXCEPT ![w] = [tx[w] EXCEPT !.pc = "commit"]]
        BY <3>2 DEF Built
      <4>2. [tx[w] EXCEPT !.todo = {}, !.pc = "commit"] = [tx[w] EXCEPT !.pc = "commit"]
        BY <4>1, <1>s DEF Tx
      <4> QED
        BY <4>1, <4>2
    <3> QED
      BY <1>b, <3>1, <3>2
  <2> DEFINE t == [tx[w] EXCEPT !.todo = L, !.pc = c]
  <2>1. tx[w] \in Tx /\ Shape(tx[w]) /\ L \subseteq Record /\ tx' = [tx EXCEPT ![w] = t]
    BY <1>s, <2>0 DEF Record
  <2>2. t \in Tx
    BY <2>1 DEF Tx
  <2>3. /\ t.pc = c /\ t.op = tx[w].op /\ t.day = tx[w].day /\ t.target = tx[w].target
        /\ t.held = tx[w].held /\ t.fresh = tx[w].fresh /\ t.freed = tx[w].freed
        /\ t.seen = tx[w].seen /\ t.todo = L /\ t.taken = tx[w].taken
    BY <2>1 DEF Tx
  <2> HIDE DEF t
  <2>4. Shape(t)
    BY <2>0, <2>1, <2>3 DEF Shape
  <2> QED
    BY <1>k, <2>0, <2>1, <2>2, <2>3, <2>4 DEF db
<1>11. ASSUME NEW w \in Worker, Commit(w)
       PROVE  IInv'
  BY <1>0, <1>11, CommitStep
<1>12. ASSUME NEW w \in Worker, Rollback(w)
       PROVE  IInv'
  BY <1>0, <1>12, ForgetStep DEF Rollback
<1>13. ASSUME NEW x \in Record, NEW d \in Date, RecordEntry(x, d)
       PROVE  IInv'
  BY <1>0, <1>13, LedgerStep DEF RecordEntry
<1>14. ASSUME UNCHANGED <<db, tx>>
       PROVE  IInv'
  BY <1>0, <1>14, LedgerStep DEF db
<1>15. ASSUME NEW k \in Clerk, NEW x \in Record, NEW d \in {on[x]} \cup MoveTo,
              EditCommit(k, x, d)
       PROVE  IInv'
  BY <1>0, <1>15, LedgerStep DEF EditCommit
<1>16. ASSUME NEW k \in Clerk, NEW x \in Record, DeleteCommit(k, x)
       PROVE  IInv'
  BY <1>0, <1>16, LedgerStep DEF DeleteCommit, Remove
<1>17. ASSUME NEW k \in Clerk,
              \/ \E x \in Record, op \in {"edit", "delete"}, admin \in BOOLEAN :
                   EditLock(k, x, op, admin)
              \/ \E x \in Record, p \in Payment : DeleteLock(k, x, p)
              \/ \E x \in Record : DeleteRefused(k, x)
              \/ EditAbort(k)
       PROVE  IInv'
  BY <1>14, <1>17 DEF EditLock, DeleteLock, DeleteRefused, EditAbort
<1>18. CASE UNCHANGED vars
  BY <1>0, <1>18, LedgerStep DEF vars
<1> QED
  BY <1>1, <1>2, <1>3, <1>4, <1>5, <1>6, <1>7, <1>8, <1>9, <1>10, <1>11, <1>12,
     <1>13, <1>15, <1>16, <1>17, <1>18, <1>a, <1>b DEF Next, WorkerStep, ClerkStep

\* The inductive invariant holds in every reachable state.
THEOREM Inductive == Spec => []IInv
BY InitInv, NextInv, PTL DEF Spec

\* A business date has at most one remittance (create_remittance,
\* save_remittance_draft, delete_draft_remittance, finalize_remittance in any
\* number and order).
THEOREM OneRow == Spec => []OneRowPerDate
<1>1. IInv => OneRowPerDate
  BY DEF IInv
<1> QED
  BY <1>1, Inductive, PTL

\* No remittance is finalized or deleted under a transaction that locked it.
THEOREM HeldRows == Spec => []HeldRowsAreDrafts
<1>1. IInv => HeldRowsAreDrafts
  BY DEF IInv
<1> QED
  BY <1>1, Inductive, PTL

\* Deleting drafts leaves no dangling foreign key, whoever links meanwhile.
THEOREM LiveLinks == Spec => []LinksPointAtLiveRows
<1>1. IInv => LinksPointAtLiveRows
  BY DEF IInv
<1> QED
  BY <1>1, Inductive, PTL

\* A linked payment is in the total of the remittance it is linked to.
THEOREM CountedLinks == Spec => []LinkedWereCounted
<1>1. IInv => LinkedWereCounted
  BY DEF IInv
<1> QED
  BY <1>1, Inductive, PTL

-----------------------------------------------------------------------------
(***************************************************************************)
(* Finalization is for ever: only three steps write a remittance, and the  *)
(* rows they write are uncommitted, or drafts they have locked.            *)
(***************************************************************************)
Settled(r) == status'[r] = "final" /\ day'[r] = day[r] /\ counted'[r] = counted[r]

LEMMA FinalizedStep ==
  IInv /\ [Next]_vars => [\A r \in Row : status[r] = "final" => Settled(r)]_vars
<1> SUFFICES ASSUME IInv, Next, NEW r \in Row, status[r] = "final"
             PROVE  Settled(r)
  BY DEF vars
<1>0. TypeOK /\ FreshRows /\ HeldRowsAreDrafts
  BY DEF IInv
<1>u. ASSUME UNCHANGED <<status, day, counted>>
      PROVE  Settled(r)
  BY <1>u DEF Settled
<1>w. \A w \in Worker : r # tx[w].fresh /\ r # tx[w].held
  BY <1>0 DEF FreshRows, HeldRowsAreDrafts, Row, NoRow
<1>1. ASSUME NEW w \in Worker, InsertRow(w)
      PROVE  Settled(r)
  <2>1. PICK q \in FreeRows : /\ status' = [status EXCEPT ![q] = "open"]
                              /\ day' = [day EXCEPT ![q] = tx[w].day]
    BY <1>1 DEF InsertRow
  <2>2. q # r
    BY DEF FreeRows
  <2> QED
    BY <1>0, <1>1, <2>1, <2>2 DEF InsertRow, Settled, TypeOK
<1>2. ASSUME NEW w \in Worker, Rollback(w)
      PROVE  Settled(r)
  BY <1>w, <1>2 DEF Rollback, Settled
<1>3. ASSUME NEW w \in Worker, Commit(w)
      PROVE  Settled(r)
  BY <1>w, <1>3 DEF Commit, StatusAfter, Settled
<1> QED
  BY <1>u, <1>1, <1>2, <1>3
  DEF Next, WorkerStep, Request, RequestFinalize, LockFindsNothing, LockRefused,
      LockDraft, UnlinkRow, DeleteDraft, InsertConflict, Collect, LinkRow,
      LinkLines, Built, RecordEntry, ClerkStep, EditLock, EditCommit, DeleteLock,
      DeleteCommit, DeleteRefused, Remove, EditAbort, db

\* A finalized remittance is never deleted, reopened or recomputed, for any
\* number of concurrent requests.
THEOREM FinalForever == Spec => FinalizedForever
BY Inductive, FinalizedStep, PTL DEF Spec, FinalizedForever, Settled

-----------------------------------------------------------------------------
(***************************************************************************)
(* Where no edit moves a record to another date, no payment is counted by  *)
(* two remittances, and the service shows the steps of the day book, for   *)
(* any number of requests at once, beside any number of clerks who record, *)
(* edit and delete.  (A payment moved in between is taken over: the run    *)
(* remittance_takeover.)                                                   *)
(***************************************************************************)

(***************************************************************************)
(* The inductive invariant, beside IInv.                                   *)
(***************************************************************************)
\* What a transaction has unlinked, read and linked: the payments it has read
\* are counted by nobody else, and stay with the row it holds until it commits.
Own(t) ==
  /\ t.op \in Building => t.day \in Date
  /\ \A p \in t.freed \cap Payment : link[p] = t.held /\ Replaces(t)
  /\ t.seen # {} => t.pc \in {"link", "lines", "commit"} /\ t.fresh # NoRow
  /\ \A p \in t.seen : on[p] # NoDate /\ \A r \in Row \ {t.held} : p \notin counted[r]
  /\ \A p \in t.seen : p \in t.taken \/ p \in t.todo \/ on[p] = Deleted

\* A payment that was counted is still linked, unless it was deleted before it
\* was linked.
CountedAreLinked ==
  \A r \in Row : \A p \in counted[r] : link[p] = r \/ on[p] = Deleted

EditsExclude ==
  \A k \in Clerk : \A x \in edit[k].holds :
    Exists(x) /\ \A j \in Clerk \ {k} : x \notin edit[j].holds

SInv == (\A w \in Worker : Own(tx[w])) /\ CountedAreLinked /\ EditsExclude /\ CountedOnce

LEMMA OwnNothing == Own(NoTx)
BY DEF Own, NoTx, Building

\* A step of a worker that changes no record and no count.
LEMMA OwnStep ==
  ASSUME TypeOK, SInv, NEW w \in Worker, NEW t, tx' = [tx EXCEPT ![w] = t],
         UNCHANGED <<counted, on, link, edit>>, Own(t)
  PROVE  SInv'
<1>1. tx'[w] = t /\ \A v \in Worker \ {w} : tx'[v] = tx[v]
  BY DEF TypeOK
<1>2. (\A v \in Worker : Own(tx[v]))'
  BY <1>1 DEF SInv, Own, Replaces
<1> QED
  BY <1>2 DEF SInv, CountedAreLinked, EditsExclude, CountedOnce, Exists

LEMMA EndOwn ==
  ASSUME TypeOK, SInv, NEW w \in Worker, End(w), UNCHANGED <<counted, on, link, edit>>
  PROVE  SInv'
BY OwnStep, OwnNothing DEF End

\* What a transaction has before it has read anything.
LEMMA OwnEarly ==
  ASSUME IInv, SInv, NEW w \in Worker, tx[w].pc \in {"lock", "unlink", "insert", "collect"}
  PROVE  /\ tx[w].seen = {}
         /\ tx[w].pc = "lock" => tx[w].freed \cap Payment = {}
<1>1. Own(tx[w]) /\ Shape(tx[w])
  BY DEF SInv, IInv, TxShape
<1> QED
  BY <1>1 DEF Own, Replaces, Shape

LEMMA WorkerOwn ==
  ASSUME IInv, SInv, NEW w \in Worker,
         \/ \E op \in Op \ {"finalize"}, d \in Date : Request(w, op, d)
         \/ \E r \in Row : RequestFinalize(w, r)
         \/ LockFindsNothing(w) \/ LockRefused(w) \/ LockDraft(w)
         \/ \E x \in Record : UnlinkRow(w, x) \/ LinkRow(w, x)
         \/ DeleteDraft(w) \/ InsertRow(w) \/ InsertConflict(w)
         \/ Collect(w) \/ LinkLines(w) \/ Built(w) \/ Rollback(w)
  PROVE  SInv'
<1>0. TypeOK /\ tx[w] \in Tx /\ Shape(tx[w]) /\ Own(tx[w])
  BY DEF IInv, TypeOK, TxShape, SInv
<1>1. ASSUME NEW op \in Op \ {"finalize"}, NEW d \in Date, Request(w, op, d) PROVE SInv'
  <2>1. PICK t : /\ tx' = [tx EXCEPT ![w] = t]
                 /\ t.freed = {} /\ t.seen = {} /\ t.day = d
    <3>1. \A r : LET t == [NoTx EXCEPT !.pc = "lock", !.op = op, !.day = d, !.target = r]
                 IN  t.freed = {} /\ t.seen = {} /\ t.day = d
      BY DEF NoTx
    <3>2. LET t == [NoTx EXCEPT !.pc = "insert", !.op = op, !.day = d]
          IN  t.freed = {} /\ t.seen = {} /\ t.day = d
      BY DEF NoTx
    <3> QED
      BY <1>1, <3>1, <3>2 DEF Request
  <2>2. Own(t)
    BY <2>1 DEF Own
  <2>3. UNCHANGED <<counted, on, link, edit>>
    BY <1>1 DEF Request, db
  <2> QED
    BY <1>0, <2>1, <2>2, <2>3, OwnStep
<1>2. ASSUME NEW r \in Row, RequestFinalize(w, r) PROVE SInv'
  <2> DEFINE t == [NoTx EXCEPT !.pc = "lock", !.op = "finalize", !.day = day[r], !.target = r]
  <2>1. t.freed = {} /\ t.seen = {} /\ t.op \notin Building
    BY DEF NoTx, Building
  <2>2. tx' = [tx EXCEPT ![w] = t] /\ UNCHANGED <<counted, on, link, edit>>
    BY <1>2 DEF RequestFinalize, db
  <2>3. Own(t)
    BY <2>1 DEF Own
  <2> QED
    BY <1>0, <2>2, <2>3, OwnStep
<1>3. CASE LockFindsNothing(w)
  <2>1. UNCHANGED <<counted, on, link, edit>>
    BY <1>3 DEF LockFindsNothing, db
  <2>2. CASE End(w)
    BY <1>0, <2>1, <2>2, EndOwn
  <2>3. CASE tx' = [tx EXCEPT ![w].pc = "insert", ![w].target = NoRow]
    <3> DEFINE t == [tx[w] EXCEPT !.pc = "insert", !.target = NoRow]
    <3>1. tx' = [tx EXCEPT ![w] = t]
      BY <2>3
    <3>2. tx[w].pc = "lock"
      BY <1>3 DEF LockFindsNothing, AtLock
    <3>3. /\ t.pc = "insert" /\ t.freed \cap Payment = {} /\ t.seen = {}
          /\ t.op = tx[w].op /\ t.day = tx[w].day
      BY <1>0, <3>2, OwnEarly DEF Tx
    <3>4. Own(t)
      BY <1>0, <3>3 DEF Own
    <3> QED
      BY <1>0, <2>1, <3>1, <3>4, OwnStep
  <2> QED
    BY <1>3, <2>2, <2>3 DEF LockFindsNothing
<1>4. CASE LockRefused(w) \/ InsertConflict(w) \/ Rollback(w)
  <2>1. End(w) /\ UNCHANGED <<counted, on, link, edit>>
    BY <1>4 DEF LockRefused, InsertConflict, Rollback, db
  <2> QED
    BY <1>0, <2>1, EndOwn
<1>5. CASE LockDraft(w)
  <2>1. tx' = [tx EXCEPT ![w] = Holding(w)] /\ UNCHANGED <<counted, on, link, edit>>
    BY <1>5 DEF LockDraft, db
  <2>2. tx[w].pc = "lock"
    BY <1>5 DEF LockDraft, AtLock
  <2>3. /\ Holding(w).freed \cap Payment = {} /\ Holding(w).seen = {}
        /\ Holding(w).op = tx[w].op /\ Holding(w).day = tx[w].day
    BY <1>0, <2>2, OwnEarly DEF Holding, Tx
  <2>4. Own(Holding(w))
    BY <1>0, <2>3 DEF Own
  <2> QED
    BY <1>0, <2>1, <2>4, OwnStep
<1>6. ASSUME NEW x \in Record, UnlinkRow(w, x) PROVE SInv'
  <2> DEFINE t == [tx[w] EXCEPT !.todo = @ \ {x},
                                !.freed = IF link[x] = tx[w].held THEN @ \cup {x} ELSE @]
  <2>1. tx' = [tx EXCEPT ![w] = t] /\ UNCHANGED <<counted, on, link, edit>>
    BY <1>6 DEF UnlinkRow, db
  <2>2. tx[w].pc = "unlink" /\ tx[w].op \in Replacing /\ tx[w].held # NoRow
    BY <1>0, <1>6 DEF UnlinkRow, Shape
  <2>3. /\ t.freed \subseteq tx[w].freed \cup {x} /\ (x \in t.freed \ tx[w].freed => link[x] = t.held)
        /\ t.held = tx[w].held /\ t.seen = {} /\ t.op = tx[w].op /\ t.day = tx[w].day
    BY <1>0, <2>2, OwnEarly DEF Tx
  <2>4. Own(t)
    BY <1>0, <2>2, <2>3 DEF Own, Replaces
  <2> QED
    BY <1>0, <2>1, <2>4, OwnStep
<1>a. CASE DeleteDraft(w)
  <2> DEFINE t == [tx[w] EXCEPT !.pc = IF tx[w].op = "clear" THEN "commit" ELSE "insert"]
  <2>1. tx' = [tx EXCEPT ![w] = t] /\ UNCHANGED <<counted, on, link, edit>>
    BY <1>a DEF DeleteDraft, db
  <2>2. tx[w].pc = "unlink"
    BY <1>a DEF DeleteDraft
  <2>3. /\ t.freed = tx[w].freed /\ t.held = tx[w].held /\ t.seen = {} /\ t.op = tx[w].op
        /\ t.day = tx[w].day
    BY <1>0, <2>2, OwnEarly DEF Tx
  <2>4. Own(t)
    BY <1>0, <2>3 DEF Own, Replaces
  <2> QED
    BY <1>0, <2>1, <2>4, OwnStep
<1>7. CASE InsertRow(w)
  <2>1. PICK r \in Row : tx' = [tx EXCEPT ![w].fresh = r, ![w].pc = "collect"]
    BY <1>7 DEF InsertRow, FreeRows
  <2> DEFINE t == [tx[w] EXCEPT !.fresh = r, !.pc = "collect"]
  <2>2. tx' = [tx EXCEPT ![w] = t] /\ UNCHANGED <<counted, on, link, edit>>
    <3>1. UNCHANGED <<counted, on, link, edit>>
      BY <1>7 DEF InsertRow
    <3>2. tx' = [tx EXCEPT ![w] = t]
      BY <1>0, <2>1
    <3> QED
      BY <3>1, <3>2
  <2>3. tx[w].pc = "insert"
    BY <1>7 DEF InsertRow
  <2>4. /\ t.freed = tx[w].freed /\ t.held = tx[w].held /\ t.seen = {} /\ t.op = tx[w].op
        /\ t.day = tx[w].day /\ t.pc = "collect"
    BY <1>0, <2>3, OwnEarly DEF Tx
  <2>5. Own(t)
    BY <1>0, <2>3, <2>4 DEF Own, Replaces
  <2> QED
    BY <1>0, <2>2, <2>5, OwnStep
<1>8. CASE Collect(w)
  <2> DEFINE S == {p \in Payment : on[p] = tx[w].day /\ Unlinked(p, w)}
             t == [tx[w] EXCEPT !.seen = S, !.todo = S, !.pc = "link"]
  <2>1. tx' = [tx EXCEPT ![w] = t] /\ UNCHANGED <<counted, on, link, edit>>
    BY <1>8 DEF Collect, db
  <2>2. tx[w].pc = "collect" /\ tx[w].fresh # NoRow
    BY <1>0, <1>8 DEF Collect, Shape
  <2>3. /\ t.freed = tx[w].freed /\ t.held = tx[w].held /\ t.seen = S /\ t.todo = S /\ t.op = tx[w].op
        /\ t.day = tx[w].day /\ t.pc = "link" /\ t.fresh = tx[w].fresh
    BY <1>0 DEF Tx
  <2>4. ASSUME NEW p \in S
        PROVE  on[p] # NoDate /\ \A r \in Row \ {t.held} : p \notin counted[r]
    <3>1. tx[w].day \in Date
      BY <1>0, <2>2 DEF Own, Shape
    <3>2. on[p] # NoDate /\ on[p] # Deleted
      BY <3>1, <2>4, DateAssumption
    <3>3. link[p] = NoRow \/ link[p] = tx[w].held
      BY <1>0, <2>4 DEF Own, Unlinked
    <3>4. ASSUME NEW r \in Row, p \in counted[r] PROVE link[p] = r /\ r # NoRow
      BY <3>2, <3>4, NoRowIsNoRow DEF SInv, CountedAreLinked
    <3> QED
      BY <2>3, <3>2, <3>3, <3>4
  <2>5. Own(t)
    BY <1>0, <2>2, <2>3, <2>4 DEF Own, Replaces
  <2> QED
    BY <1>0, <2>1, <2>5, OwnStep
<1>9. ASSUME NEW x \in Record, LinkRow(w, x) PROVE SInv'
  <2> DEFINE t == [tx[w] EXCEPT !.todo = @ \ {x},
                                !.taken = IF Takes(w, x) THEN @ \cup {x} ELSE @]
  <2>1. tx' = [tx EXCEPT ![w] = t] /\ UNCHANGED <<counted, on, link, edit>>
    BY <1>9 DEF LinkRow, db
  <2>2. tx[w].pc \in {"link", "lines"} /\ x \in tx[w].todo
    BY <1>9 DEF LinkRow, Pending
  <2>3. /\ t.freed = tx[w].freed /\ t.held = tx[w].held /\ t.seen = tx[w].seen /\ t.op = tx[w].op
        /\ t.day = tx[w].day /\ t.pc = tx[w].pc /\ t.fresh = tx[w].fresh
        /\ t.todo = tx[w].todo \ {x} /\ tx[w].taken \subseteq t.taken
        /\ Takes(w, x) => x \in t.taken
    BY <1>0 DEF Tx
  <2>4. ASSUME x \in tx[w].seen PROVE x \in t.taken \/ on[x] = Deleted
    <3>1. x \in Payment /\ tx[w].pc = "link"
      BY <1>0, <2>2, <2>4 DEF Shape, Tx
    <3>2. on[x] \in Date \cup {NoDate, Deleted} /\ on[x] # NoDate
      BY <1>0, <2>4 DEF Own, TypeOK
    <3> QED
      BY <2>3, <3>1, <3>2 DEF Takes, Exists
  <2>5. Own(t)
    BY <1>0, <2>3, <2>4 DEF Own, Replaces
  <2> QED
    BY <1>0, <2>1, <2>5, OwnStep
<1>b. CASE LinkLines(w)
  <2> DEFINE t == [tx[w] EXCEPT !.todo = LinesOfDate(w), !.pc = "lines"]
  <2>1. tx' = [tx EXCEPT ![w] = t] /\ UNCHANGED <<counted, on, link, edit>>
    BY <1>b DEF LinkLines, db
  <2>2. tx[w].todo = {} /\ tx[w].fresh # NoRow
    BY <1>0, <1>b DEF LinkLines, Shape
  <2>3. /\ t.freed = tx[w].freed /\ t.held = tx[w].held /\ t.seen = tx[w].seen /\ t.op = tx[w].op
        /\ t.day = tx[w].day /\ t.pc = "lines" /\ t.fresh = tx[w].fresh /\ t.taken = tx[w].taken
    BY <1>0 DEF Tx
  <2>4. Own(t)
    BY <1>0, <2>2, <2>3 DEF Own, Replaces
  <2> QED
    BY <1>0, <2>1, <2>4, OwnStep
<1>c. CASE Built(w)
  <2> DEFINE t == [tx[w] EXCEPT !.pc = "commit"]
  <2>1. tx' = [tx EXCEPT ![w] = t] /\ UNCHANGED <<counted, on, link, edit>>
    BY <1>c DEF Built, db
  <2>2. tx[w].todo = {} /\ tx[w].fresh # NoRow
    BY <1>0, <1>c DEF Built, Shape
  <2>3. /\ t.freed = tx[w].freed /\ t.held = tx[w].held /\ t.seen = tx[w].seen /\ t.op = tx[w].op
        /\ t.day = tx[w].day /\ t.pc = "commit" /\ t.fresh = tx[w].fresh /\ t.taken = tx[w].taken
        /\ t.todo = tx[w].todo
    BY <1>0 DEF Tx
  <2>4. Own(t)
    BY <1>0, <2>2, <2>3 DEF Own, Replaces
  <2> QED
    BY <1>0, <2>1, <2>4, OwnStep
<1> QED
  BY <1>1, <1>2, <1>3, <1>4, <1>5, <1>6, <1>7, <1>8, <1>9, <1>a, <1>b, <1>c

\* A commit: the draft it replaces goes with its counts.
LEMMA CommitOwn ==
  ASSUME IInv, SInv, NEW w \in Worker, Commit(w), \A v \in Worker : Own(tx[v])'
  PROVE  SInv'
<1> DEFINE f == tx[w].fresh
           h == tx[w].held
<1>0. /\ tx[w] \in Tx /\ Shape(tx[w]) /\ Own(tx[w]) /\ tx[w].pc = "commit"
      /\ UNCHANGED <<on, edit>>
  BY DEF IInv, TypeOK, TxShape, SInv, Commit
<1>2. ASSUME NEW r \in Row
      PROVE  counted'[r] = IF r = f THEN tx[w].seen
                           ELSE IF StatusAfter(w, r) = "none" THEN {} ELSE counted[r]
  BY DEF Commit
\* what is read by this transaction, or unlinked by it, is counted by no other
\* row that stays
<1>3. ASSUME NEW r \in Row, r # f, NEW p \in counted'[r]
      PROVE  p \in counted[r] /\ p \notin tx[w].seen /\ (r = h => ~Replaces(tx[w]))
  <2>1. p \in counted[r] /\ StatusAfter(w, r) # "none"
    BY <1>2, <1>3
  <2>2. r = h => tx[w].op = "finalize"
    BY <2>1, <1>3 DEF StatusAfter
  <2>3. p \notin tx[w].seen
    BY <1>0, <2>1, <2>2 DEF Own, Shape, Building
  <2> QED
    BY <2>1, <2>2, <2>3 DEF Replaces, Replacing
<1>4. ASSUME NEW r \in Row, NEW p \in counted'[r]
      PROVE  link'[p] = r \/ on'[p] = Deleted
  <2>0. p \in Payment /\ p \in Record /\ link'[p] = LinkAfter(w, p)
    BY <1>0, <1>2 DEF Commit, Tx, IInv, TypeOK, Record
  <2>1. CASE r = f
    BY <1>0, <1>2, <2>0, <2>1 DEF LinkAfter, Own, Shape
  <2>2. CASE r # f
    <3>1. p \in counted[r] /\ p \notin tx[w].seen /\ (r = h => ~Replaces(tx[w]))
      BY <1>3, <2>2
    <3>2. p \notin tx[w].taken
      BY <1>0, <2>0, <3>1 DEF Shape
    <3>3. link[p] = r => p \notin tx[w].freed
      BY <1>0, <2>0, <3>1 DEF Own
    <3>4. link[p] = r \/ on[p] = Deleted
      BY <3>1 DEF SInv, CountedAreLinked
    <3> QED
      BY <1>0, <2>0, <3>2, <3>3, <3>4 DEF LinkAfter
  <2> QED
    BY <2>1, <2>2
<1>5. ASSUME NEW q \in Row, NEW r \in Row, q # r, NEW p \in counted'[q], p \in counted'[r]
      PROVE  FALSE
  <2>1. CASE q # f /\ r # f
    BY <1>3, <1>5, <2>1 DEF SInv, CountedOnce
  <2>2. CASE q = f \/ r = f
    BY <1>2, <1>3, <1>5, <2>2
  <2> QED
    BY <2>1, <2>2
<1>6. EditsExclude'
  BY <1>0 DEF SInv, EditsExclude, Exists
<1> QED
  BY <1>4, <1>5, <1>6 DEF SInv, CountedAreLinked, CountedOnce

\* The steps of the ledger: a payment in a draft is not deleted, and one that
\* is deleted stays so.
LEMMA LedgerOwn ==
  ASSUME TypeOK, SInv,
         \/ \E x \in Record, d \in Date : RecordEntry(x, d)
         \/ \E k \in Clerk :
              \/ \E x \in Record, op \in {"edit", "delete"}, admin \in BOOLEAN :
                   EditLock(k, x, op, admin)
              \/ ClerkStep(k) \/ EditAbort(k)
  PROVE  SInv'
<1> USE DateAssumption, NoRowIsNoRow
<1>0. NoEdit.holds = {}
  BY DEF NoEdit
<1>1. ASSUME NEW x \in Record, NEW d \in Date, RecordEntry(x, d) PROVE SInv'
  <2>0. /\ on[x] = NoDate /\ on' = [on EXCEPT ![x] = d] /\ UNCHANGED <<counted, link, tx, edit>>
        /\ on'[x] = d /\ \A y \in Record \ {x} : on'[y] = on[y]
    BY <1>1 DEF RecordEntry, TypeOK
  <2>1. \A w \in Worker : tx[w] \in Tx /\ Own(tx[w])
    BY DEF TypeOK, SInv
  <2>2. (\A w \in Worker : Own(tx[w]))'
    BY <2>0, <2>1 DEF Own, Replaces, Tx, Record
  <2>3. CountedAreLinked'
    BY <2>0 DEF SInv, CountedAreLinked, TypeOK, Record
  <2>4. EditsExclude'
    BY <2>0 DEF SInv, EditsExclude, Exists, TypeOK, Edit
  <2> QED
    BY <2>0, <2>2, <2>3, <2>4 DEF SInv, CountedOnce
<1>2. ASSUME NEW k \in Clerk, UNCHANGED <<db, tx>>, NEW S \in SUBSET Record,
             \A x \in S : Exists(x) /\ \A j \in Clerk \ {k} : x \notin edit[j].holds,
             NEW e \in Edit, edit' = [edit EXCEPT ![k] = e], e.holds = S
      PROVE  SInv'
  <2>1. edit'[k].holds = S /\ \A j \in Clerk \ {k} : edit'[j] = edit[j]
    BY <1>2 DEF TypeOK
  <2>2. EditsExclude'
    BY <1>2, <2>1 DEF SInv, EditsExclude, Exists, db
  <2> QED
    BY <1>2, <2>2 DEF SInv, Own, Replaces, CountedAreLinked, CountedOnce, db
<1>3. ASSUME NEW k \in Clerk, NEW x \in Record, NEW op \in {"edit", "delete"},
             NEW admin \in BOOLEAN, EditLock(k, x, op, admin)
      PROVE  SInv'
  <2> DEFINE e == [op |-> op, holds |-> {x}]
  <2>1. e \in Edit /\ e.holds = {x} /\ edit' = [edit EXCEPT ![k] = e] /\ UNCHANGED <<db, tx>>
    BY <1>3 DEF EditLock, Edit
  <2>2. Exists(x) /\ \A j \in Clerk : x \notin edit[j].holds
    BY <1>3 DEF EditLock, RecordFree
  <2>3. {x} \in SUBSET Record
    OBVIOUS
  <2>4. \A y \in {x} : Exists(y) /\ \A j \in Clerk \ {k} : y \notin edit[j].holds
    BY <2>2
  <2> HIDE DEF e
  <2> QED
    BY <1>2, <2>1, <2>3, <2>4
<1>a. ASSUME NEW k \in Clerk, NEW x \in Record, NEW p \in Payment, DeleteLock(k, x, p)
      PROVE  SInv'
  <2> DEFINE S == edit[k].holds \cup {p}
             e == [edit[k] EXCEPT !.holds = S]
  <2>1. edit[k] \in Edit /\ S \in SUBSET Record
    BY DEF TypeOK, Edit, Record
  <2>2. /\ edit' = [edit EXCEPT ![k] = e] /\ UNCHANGED <<db, tx>>
        /\ p \in DeleteSet(x) \ edit[k].holds /\ RecordFree(p) /\ x \in edit[k].holds
    BY <1>a DEF DeleteLock, Edits
  <2>3. Exists(p)
    BY <2>2 DEF DeleteSet
  <2>4. \A y \in S : Exists(y) /\ \A j \in Clerk \ {k} : y \notin edit[j].holds
    BY <2>2, <2>3 DEF SInv, EditsExclude, RecordFree
  <2> HIDE DEF S
  <2>5. e \in Edit /\ e.holds = S
    BY <2>1 DEF Edit
  <2> HIDE DEF e
  <2> QED
    BY <1>2, <2>1, <2>2, <2>4, <2>5
<1>4. ASSUME NEW k \in Clerk, EditAbort(k) \/ \E x \in Record : DeleteRefused(k, x) PROVE SInv'
  BY <1>0, <1>2, <1>4 DEF EditAbort, DeleteRefused, NoEdit, Edit
<1>5. ASSUME NEW k \in Clerk, NEW x \in Record, NEW d \in {on[x]} \cup MoveTo, EditCommit(k, x, d)
      PROVE  SInv'
  <2>0. /\ x \in edit[k].holds /\ UNCHANGED <<counted, link, tx>>
        /\ on'[x] = d /\ \A y \in Record \ {x} : on'[y] = on[y]
        /\ edit'[k] = NoEdit /\ \A j \in Clerk \ {k} : edit'[j] = edit[j]
    BY <1>5 DEF EditCommit, Edits, TypeOK
  <2>1. on[x] \in Date /\ d \in Date /\ \A j \in Clerk \ {k} : x \notin edit[j].holds
    BY <2>0 DEF SInv, EditsExclude, Exists
  <2>2. \A w \in Worker : tx[w] \in Tx /\ Own(tx[w])
    BY DEF TypeOK, SInv
  <2>3. (\A w \in Worker : Own(tx[w]))'
    BY <2>0, <2>1, <2>2 DEF Own, Replaces, Tx, Record
  <2>4. CountedAreLinked'
    BY <2>0, <2>1 DEF SInv, CountedAreLinked, TypeOK, Record
  <2>5. EditsExclude'
    BY <1>0, <2>0, <2>1 DEF SInv, EditsExclude, Exists, TypeOK, Edit
  <2> QED
    BY <2>0, <2>3, <2>4, <2>5 DEF SInv, CountedOnce
<1>6. ASSUME NEW k \in Clerk, NEW x \in Record, DeleteCommit(k, x) PROVE SInv'
  <2> DEFINE D == DeleteSet(x)
  <2>0. /\ D \subseteq edit[k].holds /\ UNCHANGED <<counted, tx>>
        /\ \A p \in D \cap Payment : link[p] = NoRow
        /\ \A y \in D : y \in Record /\ on'[y] = Deleted /\ link'[y] = NoRow
        /\ \A y \in Record \ D : on'[y] = on[y] /\ link'[y] = link[y]
        /\ edit'[k] = NoEdit /\ \A j \in Clerk \ {k} : edit'[j] = edit[j]
    BY <1>6 DEF DeleteCommit, AtDelete, Linked, Remove, TypeOK, DeleteSet, Record
  <2>1. \A p \in Payment : link'[p] = link[p]
    BY <2>0 DEF Record
  <2>2. \A w \in Worker : tx[w] \in Tx /\ Own(tx[w])
    BY DEF TypeOK, SInv
  <2>3. \A y \in Record : on'[y] = on[y] \/ on'[y] = Deleted
    BY <2>0
  <2>4. (\A w \in Worker : Own(tx[w]))'
    BY <2>0, <2>1, <2>2, <2>3 DEF Own, Replaces, Tx, Record
  <2>5. CountedAreLinked'
    BY <2>0, <2>1, <2>3 DEF SInv, CountedAreLinked, TypeOK, Record
  <2>6. ASSUME NEW j \in Clerk, NEW y \in edit'[j].holds
        PROVE  /\ on'[y] \in Date
               /\ \A i \in Clerk \ {j} : y \notin edit'[i].holds
    <3>1. j # k /\ y \in edit[j].holds
      BY <1>0, <2>0, <2>6
    <3>2. on[y] \in Date /\ \A i \in Clerk \ {j} : y \notin edit[i].holds
      BY <3>1 DEF SInv, EditsExclude, Exists
    <3>3. y \in Record \ D
      BY <2>0, <3>1, <3>2 DEF TypeOK, Edit
    <3> QED
      BY <1>0, <2>0, <3>2, <3>3
  <2> QED
    BY <2>0, <2>4, <2>5, <2>6 DEF SInv, CountedOnce, EditsExclude, Exists
<1> QED
  BY <1>1, <1>3, <1>4, <1>5, <1>6, <1>a DEF ClerkStep

LEMMA InitSInv == Init => SInv
<1> SUFFICES ASSUME Init PROVE SInv
  OBVIOUS
<1>1. \A w \in Worker : Own(tx[w])
  BY OwnNothing DEF Init
<1> QED
  BY <1>1 DEF Init, SInv, CountedAreLinked, EditsExclude, CountedOnce, NoEdit

-----------------------------------------------------------------------------
(***************************************************************************)
(* The day book.  What a date shows is decided by its live rows and by the *)
(* links of the payments, which only a commit changes.                     *)
(***************************************************************************)
\* A step that shows nothing.
LEMMA BookStutters ==
  ASSUME TypeOK,
         \A r \in Row : /\ Live(r)' = Live(r)
                        /\ Live(r) => status'[r] = status[r] /\ day'[r] = day[r],
         \A p \in Payment : link'[p] = link[p]
  PROVE  UNCHANGED Book!vars
<1>1. \A d \in Date : RowsOf(d)' = RowsOf(d)
  BY DEF RowsOf
<1>2. \A d \in Date : Finalized(d)' = Finalized(d)
  BY <1>1 DEF Finalized, RowsOf
<1>3. \A d \in Date : StateOf(d)' = StateOf(d) /\ ClaimOf(d)' = ClaimOf(d)
  BY <1>1, <1>2 DEF StateOf, ClaimOf
<1> QED
  BY <1>3 DEF Book!vars

\* What a commit of w shows: rows and links of the date of its transaction.
LEMMA CommitShows ==
  ASSUME IInv, SInv, NEW w \in Worker, Commit(w), NEW D, D = tx[w].day
  PROVE  /\ \A d \in Date \ {D} :
              StateOf(d)' = StateOf(d) /\ ClaimOf(d)' = ClaimOf(d)
         /\ tx[w].op \in Building =>
              /\ RowsOf(D)' = {tx[w].fresh}
              /\ status'[tx[w].fresh] = (IF tx[w].op = "createFinal" THEN "final" ELSE "draft")
              /\ ~Finalized(D)
              /\ \A e \in Date \ {D}, p \in Payment :
                   link'[p] = tx[w].fresh => p \notin ClaimOf(e)
         /\ tx[w].op \notin Building /\ tx[w].held # NoRow =>
              /\ RowsOf(D) = {tx[w].held} /\ ~Finalized(D)
              /\ tx[w].op = "clear" => RowsOf(D)' = {}
              /\ tx[w].op = "finalize" =>
                   /\ RowsOf(D)' = {tx[w].held} /\ status'[tx[w].held] = "final"
                   /\ \A p \in Payment : link'[p] = link[p]
<1> DEFINE f == tx[w].fresh
           h == tx[w].held
<1>0. /\ tx[w] \in Tx /\ Shape(tx[w]) /\ Own(tx[w]) /\ tx[w].pc = "commit" /\ TypeOK
  BY DEF IInv, TypeOK, TxShape, SInv, Commit
<1>a. f # NoRow <=> tx[w].op \in Building
  BY <1>0 DEF Shape
<1>f. f # NoRow => /\ f \in Row /\ f # h /\ status[f] = "open" /\ day[f] = D
                   /\ RowsOf(D) \subseteq {h}
  BY <1>0 DEF IInv, FreshRows, HeldRowsAreDrafts, DatesExclude, Tx
<1>h. h # NoRow => /\ h \in Row /\ status[h] = "draft" /\ day[h] = D
                   /\ tx[w].op \in Replacing \cup {"finalize"}
  BY <1>0 DEF IInv, HeldRowsAreDrafts, TargetsOfDate, Shape, Live, Tx
<1>s. \A r \in Row : /\ status'[r] = StatusAfter(w, r)
                     /\ day'[r] = (IF StatusAfter(w, r) = "none" THEN NoDate ELSE day[r])
  BY DEF Commit
<1>l. \A p \in Payment : link'[p] = LinkAfter(w, p)
  BY DEF Commit, Record
<1>o. \A r \in Row \ {f, h} : status'[r] = status[r] /\ (Live(r) => day'[r] = day[r])
  BY <1>s DEF StatusAfter, Live
<1>g. f # NoRow => status'[f] = (IF tx[w].op = "createFinal" THEN "final" ELSE "draft") /\ day'[f] = D
  BY <1>f, <1>s DEF StatusAfter
<1>k. h # NoRow => IF tx[w].op = "finalize" THEN status'[h] = "final" /\ day'[h] = D
                                            ELSE status'[h] = "none"
  BY <1>f, <1>h, <1>s, NoRowIsNoRow DEF StatusAfter
\* the payments whose link it changes had been unlinked, or linked to the row
\* it held
<1>p. ASSUME NEW p \in Payment
      PROVE  /\ (link[p] \in {NoRow, h} /\ link'[p] \in {NoRow, f}) \/ link'[p] = link[p]
             /\ p \in tx[w].taken => link[p] \in {NoRow, h}
             /\ p \in tx[w].freed => link[p] = h /\ Replaces(tx[w])
  <2>1. p \in tx[w].taken => link[p] \in {NoRow, h}
    <3>1. p \in tx[w].taken => p \in tx[w].seen
      BY <1>0 DEF Shape
    <3>2. link[p] \in Row \cup {NoRow} /\ (link[p] # NoRow => p \in counted[link[p]])
      BY <1>0 DEF IInv, LinkedWereCounted, TypeOK, Record
    <3> QED
      BY <1>0, <3>1, <3>2 DEF Own
  <2>2. p \in tx[w].freed => link[p] = h /\ Replaces(tx[w])
    BY <1>0 DEF Own
  <2> QED
    BY <1>l, <2>1, <2>2 DEF LinkAfter
<1>1. ASSUME NEW d \in Date \ {D}
      PROVE  StateOf(d)' = StateOf(d) /\ ClaimOf(d)' = ClaimOf(d)
  <2>1. RowsOf(d)' = RowsOf(d) /\ f \notin RowsOf(d) /\ h \notin RowsOf(d) /\ NoRow \notin RowsOf(d)
    <3>1. f \notin RowsOf(d) /\ h \notin RowsOf(d) /\ NoRow \notin RowsOf(d)
      BY <1>f, <1>h, NoRowIsNoRow DEF RowsOf
    <3>2. \A r \in Row : Live(r)' /\ day'[r] = d <=> Live(r) /\ day[r] = d
      <4> TAKE r \in Row
      <4>1. CASE r = f
        BY <4>1, <1>f, <1>g, NoRowIsNoRow
      <4>2. CASE r = h
        BY <4>2, <1>h, <1>k, NoRowIsNoRow DEF Live
      <4>3. CASE r \notin {f, h}
        BY <4>3, <1>o, <1>s DEF Live, StatusAfter
      <4> QED
        BY <4>1, <4>2, <4>3
    <3> QED
      BY <3>1, <3>2 DEF RowsOf
  <2>2. \A r \in RowsOf(d) : status'[r] = status[r]
    BY <2>1, <1>o DEF RowsOf
  <2>3. Finalized(d)' = Finalized(d)
    BY <2>1, <2>2 DEF Finalized, RowsOf
  <2>4. ClaimOf(d)' = ClaimOf(d)
    BY <2>1, <1>p DEF ClaimOf
  <2> QED
    BY <2>1, <2>3, <2>4 DEF StateOf
<1>2. ASSUME tx[w].op \in Building
      PROVE  /\ RowsOf(D)' = {f} /\ ~Finalized(D)
             /\ status'[f] = (IF tx[w].op = "createFinal" THEN "final" ELSE "draft")
             /\ \A e \in Date \ {D}, p \in Payment : link'[p] = f => p \notin ClaimOf(e)
  <2>0. f # NoRow /\ f \in Row /\ tx[w].op # "finalize"
    BY <1>2, <1>a, <1>f DEF Building
  <2>1. ~Finalized(D)
    BY <2>0, <1>f, <1>h, NoRowIsNoRow DEF Finalized, RowsOf
  <2>2. ASSUME NEW r \in Row, Live(r)', day'[r] = D PROVE r = f
    <3>1. r # h
      BY <2>0, <2>2, <1>k, NoRowIsNoRow DEF Live
    <3>2. r # f => r \in RowsOf(D)
      BY <2>2, <3>1, <1>o, <1>s DEF Live, RowsOf, StatusAfter
    <3> QED
      BY <2>0, <3>1, <3>2, <1>f
  <2>3. RowsOf(D)' = {f}
    <3>1. f \in RowsOf(D)'
      BY <2>0, <1>g DEF RowsOf, Live
    <3> QED
      BY <2>2, <3>1 DEF RowsOf
  <2>4. ASSUME NEW e \in Date \ {D}, NEW p \in Payment, link'[p] = f PROVE p \notin ClaimOf(e)
    <3>1. link[p] # f
      BY <2>0, <1>f DEF IInv, LinksPointAtLiveRows, Live, Record
    <3>2. link[p] \in {NoRow, h}
      BY <2>4, <3>1, <1>p
    <3> QED
      BY <3>2, <1>h, NoRowIsNoRow DEF ClaimOf, RowsOf
  <2> QED
    BY <2>0, <2>1, <2>3, <2>4, <1>g
<1>3. ASSUME tx[w].op \notin Building, h # NoRow
      PROVE  /\ RowsOf(D) = {h} /\ ~Finalized(D)
             /\ tx[w].op = "clear" => RowsOf(D)' = {}
             /\ tx[w].op = "finalize" =>
                  /\ RowsOf(D)' = {h} /\ status'[h] = "final"
                  /\ \A p \in Payment : link'[p] = link[p]
  <2>0. f = NoRow /\ f \notin Row /\ h \in Row
    BY <1>3, <1>a, <1>h, NoRowIsNoRow
  <2>1. RowsOf(D) = {h}
    BY <1>3, <1>h DEF IInv, OneRowPerDate, RowsOf, Live
  <2>2. ~Finalized(D)
    BY <1>3, <2>1, <1>h DEF Finalized
  <2>3. \A r \in Row \ {h} : ~(Live(r)' /\ day'[r] = D)
    BY <2>0, <2>1, <1>o, <1>s DEF RowsOf, Live, StatusAfter
  <2>4. tx[w].op = "clear" => RowsOf(D)' = {}
    BY <1>3, <2>3, <1>k DEF RowsOf, Live
  <2>5. tx[w].op = "finalize" => RowsOf(D)' = {h} /\ status'[h] = "final"
    BY <1>3, <2>0, <2>3, <1>k DEF RowsOf, Live
  <2>6. tx[w].op = "finalize" => \A p \in Payment : link'[p] = link[p]
    <3>1. tx[w].taken = {}
      BY <1>0, <2>0 DEF Shape
    <3> QED
      BY <3>1, <1>l, <1>p DEF Replaces, Replacing, Building, LinkAfter
  <2> QED
    BY <2>1, <2>2, <2>4, <2>5, <2>6
<1> QED
  BY <1>1, <1>2, <1>3

\* The commit of a transaction is one step of the day book for its date.
LEMMA CommitMaps ==
  ASSUME IInv, SInv, NEW w \in Worker, Commit(w)
  PROVE  [Book!Next]_(Book!vars)
<1> DEFINE f == tx[w].fresh
           h == tx[w].held
<1>0. tx[w] \in Tx /\ Shape(tx[w]) /\ Own(tx[w]) /\ tx[w].pc = "commit" /\ TypeOK
  BY DEF IInv, TypeOK, TxShape, SInv, Commit
<1>d. PICK D : D = tx[w].day
  OBVIOUS
<1>1. \A d \in Date \ {D} : StateOf(d)' = StateOf(d) /\ ClaimOf(d)' = ClaimOf(d)
  BY <1>d, CommitShows
<1>2. ASSUME NEW s, NEW C, StateOf(D)' = s, ClaimOf(D)' = C, D \in Date
      PROVE  /\ [d \in Date |-> StateOf(d)]' = [[d \in Date |-> StateOf(d)] EXCEPT ![D] = s]
             /\ [d \in Date |-> ClaimOf(d)]' = [[d \in Date |-> ClaimOf(d)] EXCEPT ![D] = C]
  BY <1>1, <1>2
<1>3. CASE tx[w].op \in Building
  <2>1. /\ D \in Date /\ ~Finalized(D) /\ RowsOf(D)' = {f}
        /\ status'[f] = (IF tx[w].op = "createFinal" THEN "final" ELSE "draft")
        /\ \A e \in Date \ {D}, p \in Payment : link'[p] = f => p \notin ClaimOf(e)
    BY <1>0, <1>3, <1>d, CommitShows DEF Own
  <2>2. StateOf(D)' = IF tx[w].op = "createFinal" THEN "final" ELSE "draft"
    BY <2>1 DEF StateOf, Finalized
  <2>3. PICK C : C = {p \in Payment : link'[p] = f}
    OBVIOUS
  <2>4. ClaimOf(D)' = C
    BY <2>1, <2>3 DEF ClaimOf
  <2>5. C \in SUBSET Book!Claimable(D)
    BY <2>1, <2>3 DEF Book!Claimable
  <2>6. StateOf(D) # "final"
    BY <2>1 DEF StateOf
  <2>7. Book!Draft(D) \/ Book!Close(D)
    BY <1>2, <2>1, <2>2, <2>4, <2>5, <2>6 DEF Book!Draft, Book!Close
  <2> QED
    BY <2>1, <2>7 DEF Book!Next
<1>4. CASE tx[w].op \notin Building /\ h # NoRow /\ D \in Date
  <2>1. /\ RowsOf(D) = {h} /\ ~Finalized(D)
        /\ tx[w].op = "clear" => RowsOf(D)' = {}
        /\ tx[w].op = "finalize" =>
             /\ RowsOf(D)' = {h} /\ status'[h] = "final"
             /\ \A p \in Payment : link'[p] = link[p]
    BY <1>4, <1>d, CommitShows
  <2>2. StateOf(D) = "draft"
    BY <2>1 DEF StateOf
  <2>3. CASE tx[w].op = "clear"
    <3>1. StateOf(D)' = "none" /\ ClaimOf(D)' = {}
      BY <2>1, <2>3 DEF StateOf, ClaimOf
    <3>2. Book!Clear(D)
      BY <1>2, <1>4, <2>2, <3>1 DEF Book!Clear
    <3> QED
      BY <1>4, <3>2 DEF Book!Next
  <2>4. CASE tx[w].op = "finalize"
    <3>1. StateOf(D)' = "final"
      BY <2>1, <2>4 DEF StateOf, Finalized
    <3>2. ClaimOf(D)' = ClaimOf(D)
      BY <2>1, <2>4 DEF ClaimOf
    <3>3. Book!Finalize(D)
      BY <1>1, <1>2, <1>4, <2>2, <3>1, <3>2 DEF Book!Finalize
    <3> QED
      BY <1>4, <3>3 DEF Book!Next
  <2> QED
    BY <1>0, <1>4, <2>3, <2>4 DEF Shape, Op
<1>5. CASE D \notin Date
  BY <1>1, <1>5 DEF Book!vars
<1>6. CASE tx[w].op \notin Building /\ h = NoRow
  <2>1. f = NoRow /\ tx[w].taken = {} /\ tx[w].freed \cap Payment = {}
    BY <1>0, <1>6 DEF Shape, Own, Replaces
  <2>2. \A r \in Row : StatusAfter(w, r) = status[r]
    BY <1>6, <2>1, NoRowIsNoRow DEF StatusAfter
  <2>3. \A r \in Row : /\ Live(r)' = Live(r)
                       /\ Live(r) => status'[r] = status[r] /\ day'[r] = day[r]
    BY <2>2 DEF Commit, Live
  <2>4. \A p \in Payment : link'[p] = link[p]
    BY <2>1 DEF Commit, LinkAfter, Record
  <2> QED
    BY <1>0, <2>3, <2>4, BookStutters
<1> QED
  BY <1>3, <1>4, <1>5, <1>6

\* A row that is being inserted, or is taken back, is not in the day book yet.
LEMMA FreshIsNotLive ==
  ASSUME IInv, NEW w \in Worker, InsertRow(w) \/ Rollback(w)
  PROVE  UNCHANGED Book!vars
<1>0. TypeOK /\ UNCHANGED link
  BY DEF IInv, InsertRow, Rollback
<1>1. CASE InsertRow(w)
  <2>1. PICK r \in FreeRows : /\ status' = [status EXCEPT ![r] = "open"]
                              /\ day' = [day EXCEPT ![r] = tx[w].day]
    BY <1>1 DEF InsertRow
  <2> QED
    BY <1>0, <2>1, BookStutters DEF FreeRows, Live, TypeOK
<1>2. CASE Rollback(w)
  <2>1. tx[w].fresh # NoRow => status[tx[w].fresh] = "open"
    BY DEF IInv, FreshRows
  <2> QED
    BY <1>0, <1>2, <2>1, NoRowIsNoRow, BookStutters DEF Rollback, Live
<1> QED
  BY <1>1, <1>2

\* The ledger changes the link of no payment.
LEMMA LedgerShowsNothing ==
  ASSUME TypeOK, UNCHANGED <<status, day>>, \A p \in Payment : link'[p] = link[p]
  PROVE  UNCHANGED Book!vars
BY BookStutters DEF Live

LEMMA StepMaps == IInv /\ SInv /\ [Next]_vars => [Book!Next]_(Book!vars)
<1> SUFFICES ASSUME IInv, SInv, [Next]_vars
             PROVE  [Book!Next]_(Book!vars)
  OBVIOUS
<1>0. TypeOK
  BY DEF IInv
<1>1. ASSUME UNCHANGED db PROVE UNCHANGED Book!vars
  BY <1>0, <1>1, LedgerShowsNothing DEF db
<1>2. ASSUME NEW w \in Worker, NEW op \in Op \ {"finalize"}, NEW d \in Date, Request(w, op, d)
      PROVE  UNCHANGED db
  BY <1>2 DEF Request
<1>3. ASSUME NEW w \in Worker, NEW r \in Row, RequestFinalize(w, r)
      PROVE  UNCHANGED db
  BY <1>3 DEF RequestFinalize
<1>4. ASSUME NEW w \in Worker, WorkerStep(w), ~Commit(w), ~InsertRow(w)
      PROVE  UNCHANGED db
  BY <1>4 DEF WorkerStep, LockFindsNothing, LockRefused, LockDraft, UnlinkRow, DeleteDraft,
              InsertConflict, Collect, LinkRow, LinkLines, Built, db
<1>5. ASSUME NEW x \in Record, NEW d \in Date, RecordEntry(x, d) PROVE UNCHANGED Book!vars
  BY <1>0, <1>5, LedgerShowsNothing DEF RecordEntry
<1>6. ASSUME NEW k \in Clerk, NEW x \in Record, NEW d \in {on[x]} \cup MoveTo, EditCommit(k, x, d)
      PROVE  UNCHANGED Book!vars
  BY <1>0, <1>6, LedgerShowsNothing DEF EditCommit
<1>7. ASSUME NEW k \in Clerk, NEW x \in Record, DeleteCommit(k, x) PROVE UNCHANGED Book!vars
  <2>1. \A p \in Payment : link'[p] = link[p]
    BY <1>7 DEF DeleteCommit, Remove, Linked, Record
  <2> QED
    BY <1>0, <1>7, <2>1, LedgerShowsNothing DEF DeleteCommit, Remove
<1>8. ASSUME NEW k \in Clerk,
             \/ \E x \in Record, op \in {"edit", "delete"}, admin \in BOOLEAN :
                  EditLock(k, x, op, admin)
             \/ \E x \in Record, p \in Payment : DeleteLock(k, x, p)
             \/ \E x \in Record : DeleteRefused(k, x)
             \/ EditAbort(k)
      PROVE  UNCHANGED Book!vars
  BY <1>1, <1>8 DEF EditLock, DeleteLock, DeleteRefused, EditAbort
<1>9. ASSUME UNCHANGED vars PROVE UNCHANGED db
  BY <1>9 DEF vars, db
<1> QED
  BY <1>1, <1>2, <1>3, <1>4, <1>5, <1>6, <1>7, <1>8, <1>9, CommitMaps, FreshIsNotLive
  DEF Next, ClerkStep

LEMMA InitMaps == Init => Book!Init
<1> SUFFICES ASSUME Init PROVE Book!Init
  OBVIOUS
<1>1. \A d \in Date : RowsOf(d) = {}
  BY DEF Init, RowsOf, Live
<1> QED
  BY <1>1 DEF Book!Init, StateOf, ClaimOf

-----------------------------------------------------------------------------
(***************************************************************************)
(* Any number of requests at once, where no edit moves a record to another *)
(* date.  What two transactions have read, and what they have unlinked,    *)
(* are different records: what was read is of the date of the transaction, *)
(* whose rows it alone changes; what was unlinked is locked.               *)
(***************************************************************************)
RecordsStay == MoveTo = {}

ReadOnce == \A v, w \in Worker : v # w => tx[v].seen \cap tx[w].seen = {}
ReadOfDate == \A w \in Worker : \A p \in tx[w].seen : on[p] \in {tx[w].day, Deleted}
UnlinkedOnce ==
  \A v, w \in Worker : v # w => tx[v].freed \cap (tx[w].freed \cup tx[w].taken) = {}

MInv == ReadOnce /\ ReadOfDate /\ UnlinkedOnce

\* A step of a worker that reads, unlinks and links nothing.
LEMMA ApartStep ==
  ASSUME TypeOK, MInv, NEW w \in Worker, NEW t, tx' = [tx EXCEPT ![w] = t], UNCHANGED on,
         t.seen \subseteq tx[w].seen, t.freed \subseteq tx[w].freed, t.taken \subseteq tx[w].taken,
         t.seen = {} \/ t.day = tx[w].day
  PROVE  MInv'
<1>1. tx'[w] = t /\ \A v \in Worker \ {w} : tx'[v] = tx[v]
  BY DEF TypeOK
<1>2. ReadOnce'
  BY <1>1 DEF MInv, ReadOnce
<1>3. ReadOfDate'
  BY <1>1 DEF MInv, ReadOfDate
<1>4. UnlinkedOnce'
  BY <1>1 DEF MInv, UnlinkedOnce
<1> QED
  BY <1>2, <1>3, <1>4 DEF MInv

LEMMA EndApart ==
  ASSUME TypeOK, MInv, NEW w \in Worker, End(w), UNCHANGED on
  PROVE  MInv'
<1>1. NoTx.seen = {} /\ NoTx.freed = {} /\ NoTx.taken = {}
  BY DEF NoTx
<1>2. tx' = [tx EXCEPT ![w] = NoTx]
  BY DEF End
<1> HIDE DEF NoTx
<1> QED
  BY <1>1, <1>2, ApartStep

LEMMA WorkerApart ==
  ASSUME IInv, SInv, MInv, NEW w \in Worker,
         \/ \E op \in Op \ {"finalize"}, d \in Date : Request(w, op, d)
         \/ \E r \in Row : RequestFinalize(w, r)
         \/ WorkerStep(w)
         \/ Rollback(w)
  PROVE  MInv'
<1>0. TypeOK /\ tx[w] \in Tx /\ Shape(tx[w]) /\ Own(tx[w])
  BY DEF IInv, TypeOK, TxShape, SInv
<1>1. ASSUME NEW op \in Op \ {"finalize"}, NEW d \in Date, Request(w, op, d) PROVE MInv'
  <2>1. PICK t : /\ tx' = [tx EXCEPT ![w] = t]
                 /\ t.seen = {} /\ t.freed = {} /\ t.taken = {}
    <3>1. \A r : LET t == [NoTx EXCEPT !.pc = "lock", !.op = op, !.day = d, !.target = r]
                 IN  t.seen = {} /\ t.freed = {} /\ t.taken = {}
      BY DEF NoTx
    <3>2. LET t == [NoTx EXCEPT !.pc = "insert", !.op = op, !.day = d]
          IN  t.seen = {} /\ t.freed = {} /\ t.taken = {}
      BY DEF NoTx
    <3> QED
      BY <1>1, <3>1, <3>2 DEF Request
  <2>2. UNCHANGED on
    BY <1>1 DEF Request, db
  <2> QED
    BY <1>0, <2>1, <2>2, ApartStep
<1>2. ASSUME NEW r \in Row, RequestFinalize(w, r) PROVE MInv'
  <2> DEFINE t == [NoTx EXCEPT !.pc = "lock", !.op = "finalize", !.day = day[r], !.target = r]
  <2>1. t.seen = {} /\ t.freed = {} /\ t.taken = {}
    BY DEF NoTx
  <2>2. tx' = [tx EXCEPT ![w] = t] /\ UNCHANGED on
    BY <1>2 DEF RequestFinalize, db
  <2> HIDE DEF t
  <2> QED
    BY <1>0, <2>1, <2>2, ApartStep
<1>3. CASE LockFindsNothing(w)
  <2>1. UNCHANGED on
    BY <1>3 DEF LockFindsNothing, db
  <2>2. CASE End(w)
    BY <1>0, <2>1, <2>2, EndApart
  <2>3. CASE tx' = [tx EXCEPT ![w].pc = "insert", ![w].target = NoRow]
    <3> DEFINE t == [tx[w] EXCEPT !.pc = "insert", !.target = NoRow]
    <3>1. tx' = [tx EXCEPT ![w] = t]
      BY <2>3
    <3>2. t.seen = tx[w].seen /\ t.freed = tx[w].freed /\ t.taken = tx[w].taken /\ t.day = tx[w].day
      BY <1>0 DEF Tx
    <3> HIDE DEF t
    <3> QED
      BY <1>0, <2>1, <3>1, <3>2, ApartStep
  <2> QED
    BY <1>3, <2>2, <2>3 DEF LockFindsNothing
<1>4. CASE LockRefused(w) \/ InsertConflict(w) \/ Commit(w) \/ Rollback(w)
  <2>1. End(w) /\ UNCHANGED on
    BY <1>4 DEF LockRefused, InsertConflict, Commit, Rollback, db
  <2> QED
    BY <1>0, <2>1, EndApart
<1>5. CASE LockDraft(w)
  <2>1. tx' = [tx EXCEPT ![w] = Holding(w)] /\ UNCHANGED on
    BY <1>5 DEF LockDraft, db
  <2>2. /\ Holding(w).seen = tx[w].seen /\ Holding(w).freed = tx[w].freed
        /\ Holding(w).taken = tx[w].taken /\ Holding(w).day = tx[w].day
    BY <1>0 DEF Holding, Tx
  <2> QED
    BY <1>0, <2>1, <2>2, ApartStep
\* the record is locked by nobody else
<1>6. ASSUME NEW x \in Record, UnlinkRow(w, x) PROVE MInv'
  <2> DEFINE t == [tx[w] EXCEPT !.todo = @ \ {x},
                                !.freed = IF link[x] = tx[w].held THEN @ \cup {x} ELSE @]
  <2>1. /\ tx' = [tx EXCEPT ![w] = t] /\ UNCHANGED on
        /\ \A v \in Worker : x \notin tx[v].freed \cup tx[v].taken
    BY <1>6 DEF UnlinkRow, db, RecordFree
  <2>2. t.seen = tx[w].seen /\ t.freed \subseteq tx[w].freed \cup {x} /\ t.taken = tx[w].taken
        /\ t.day = tx[w].day
    BY <1>0 DEF Tx
  <2> HIDE DEF t
  <2>4. tx'[w] = t /\ \A v \in Worker \ {w} : tx'[v] = tx[v]
    BY <1>0, <2>1 DEF TypeOK
  <2>5. UnlinkedOnce'
    BY <2>1, <2>2, <2>4 DEF MInv, UnlinkedOnce
  <2> QED
    BY <2>1, <2>2, <2>4, <2>5 DEF MInv, ReadOnce, ReadOfDate
<1>a. CASE DeleteDraft(w) \/ LinkLines(w) \/ Built(w)
  <2>1. PICK t : /\ tx' = [tx EXCEPT ![w] = t]
                 /\ t.seen = tx[w].seen /\ t.freed = tx[w].freed /\ t.taken = tx[w].taken
                 /\ t.day = tx[w].day
    <3>1. PICK c, S : tx' = [tx EXCEPT ![w] = [tx[w] EXCEPT !.todo = S, !.pc = c]]
      <4>1. \A c : [tx[w] EXCEPT !.pc = c] = [tx[w] EXCEPT !.todo = tx[w].todo, !.pc = c]
        BY <1>0 DEF Tx
      <4>2. CASE DeleteDraft(w)
        BY <4>1, <4>2 DEF DeleteDraft
      <4>3. CASE LinkLines(w)
        BY <4>3 DEF LinkLines
      <4>4. CASE Built(w)
        BY <4>1, <4>4 DEF Built
      <4> QED
        BY <1>a, <4>2, <4>3, <4>4
    <3> DEFINE t == [tx[w] EXCEPT !.todo = S, !.pc = c]
    <3>2. /\ t.seen = tx[w].seen /\ t.freed = tx[w].freed /\ t.taken = tx[w].taken
          /\ t.day = tx[w].day
      BY <1>0 DEF Tx
    <3> QED
      BY <3>1, <3>2
  <2>2. UNCHANGED on
    BY <1>a DEF DeleteDraft, LinkLines, Built, db
  <2> QED
    BY <1>0, <2>1, <2>2, ApartStep
<1>7. CASE InsertRow(w)
  <2>1. PICK r \in Row : tx' = [tx EXCEPT ![w].fresh = r, ![w].pc = "collect"]
    BY <1>7 DEF InsertRow, FreeRows
  <2> DEFINE t == [tx[w] EXCEPT !.fresh = r, !.pc = "collect"]
  <2>2. tx' = [tx EXCEPT ![w] = t]
    BY <1>0, <2>1
  <2>3. UNCHANGED on
    BY <1>7 DEF InsertRow
  <2>4. t.seen = tx[w].seen /\ t.freed = tx[w].freed /\ t.taken = tx[w].taken /\ t.day = tx[w].day
    BY <1>0 DEF Tx
  <2> HIDE DEF t
  <2> QED
    BY <1>0, <2>2, <2>3, <2>4, ApartStep
\* whoever else has read a payment of the date has inserted a row of it
<1>8. CASE Collect(w)
  <2> DEFINE S == {p \in Payment : on[p] = tx[w].day /\ Unlinked(p, w)}
             t == [tx[w] EXCEPT !.seen = S, !.todo = S, !.pc = "link"]
  <2>1. tx' = [tx EXCEPT ![w] = t] /\ UNCHANGED on
    BY <1>8 DEF Collect, db
  <2>2. tx[w].pc = "collect" /\ tx[w].fresh # NoRow /\ tx[w].day \in Date
    BY <1>0, <1>8 DEF Collect, Shape, Own
  <2>3. t.seen = S /\ t.freed = tx[w].freed /\ t.taken = tx[w].taken /\ t.day = tx[w].day
    BY <1>0 DEF Tx
  <2>4. \A p \in S : on[p] = tx[w].day
    OBVIOUS
  <2> HIDE DEF S, t
  <2>5. tx'[w] = t /\ \A v \in Worker \ {w} : tx'[v] = tx[v]
    BY <1>0, <2>1 DEF TypeOK
  <2>6. ASSUME NEW v \in Worker \ {w}, NEW p \in tx[v].seen, p \in S PROVE FALSE
    <3>1. on[p] = tx[w].day /\ on[p] # Deleted
      BY <2>2, <2>4, <2>6, DateAssumption
    <3>2. tx[v].day = tx[w].day
      BY <2>6, <3>1 DEF MInv, ReadOfDate
    <3>3. tx[v].fresh # NoRow
      BY <2>6 DEF SInv, Own
    <3> QED
      BY <2>2, <2>6, <3>2, <3>3 DEF IInv, DatesExclude, DateBusy
  <2>7. ReadOnce'
    BY <2>3, <2>5, <2>6 DEF MInv, ReadOnce
  <2>8. ReadOfDate'
    BY <2>1, <2>3, <2>4, <2>5 DEF MInv, ReadOfDate
  <2>9. UnlinkedOnce'
    BY <2>3, <2>5 DEF MInv, UnlinkedOnce
  <2> QED
    BY <2>7, <2>8, <2>9 DEF MInv
<1>9. ASSUME NEW x \in Record, LinkRow(w, x) PROVE MInv'
  <2> DEFINE t == [tx[w] EXCEPT !.todo = @ \ {x},
                                !.taken = IF Takes(w, x) THEN @ \cup {x} ELSE @]
  <2>1. /\ tx' = [tx EXCEPT ![w] = t] /\ UNCHANGED on
        /\ \/ \A v \in Worker : x \notin tx[v].freed \cup tx[v].taken
           \/ x \in tx[w].freed
    BY <1>9 DEF LinkRow, db, RecordFree
  <2>2. t.seen = tx[w].seen /\ t.freed = tx[w].freed /\ t.taken \subseteq tx[w].taken \cup {x}
        /\ t.day = tx[w].day
    BY <1>0 DEF Tx
  <2> HIDE DEF t
  <2>3. tx'[w] = t /\ \A v \in Worker \ {w} : tx'[v] = tx[v]
    BY <1>0, <2>1 DEF TypeOK
  <2>4. UnlinkedOnce'
    BY <2>1, <2>2, <2>3 DEF MInv, UnlinkedOnce
  <2> QED
    BY <2>1, <2>2, <2>3, <2>4 DEF MInv, ReadOnce, ReadOfDate
<1> QED
  BY <1>1, <1>2, <1>3, <1>4, <1>5, <1>6, <1>7, <1>8, <1>9, <1>a DEF WorkerStep

\* What the others have read and unlinked stays as it is at a commit.
LEMMA CommitApart ==
  ASSUME IInv, SInv, MInv, NEW w \in Worker, Commit(w)
  PROVE  SInv'
<1>0. /\ tx[w] \in Tx /\ Shape(tx[w]) /\ UNCHANGED on
      /\ \A v \in Worker \ {w} : tx'[v] = tx[v]
      /\ tx'[w] = NoTx
  BY DEF IInv, TypeOK, TxShape, Commit, End
<1>1. Own(tx[w])'
  BY <1>0 DEF Own, NoTx, Building
<1>2. ASSUME NEW v \in Worker \ {w} PROVE Own(tx[v])'
  <2>0. Own(tx[v]) /\ tx[v] \in Tx
    BY DEF SInv, IInv, TypeOK
  <2>1. ASSUME NEW p \in tx[v].freed \cap Payment PROVE link'[p] = link[p]
    <3>1. p \notin tx[w].freed \cup tx[w].taken
      BY <2>1 DEF MInv, UnlinkedOnce
    <3>2. link'[p] = LinkAfter(w, p)
      BY <2>1 DEF Commit, Record
    <3> QED
      BY <3>1, <3>2 DEF LinkAfter
  <2>2. ASSUME NEW p \in tx[v].seen, NEW r \in Row \ {tx[v].held} PROVE p \notin counted'[r]
    <3>1. p \notin counted[r]
      BY <2>0, <2>2 DEF Own
    <3>2. p \notin tx[w].seen
      BY <2>2 DEF MInv, ReadOnce
    <3>3. counted'[r] \in {tx[w].seen, {}, counted[r]}
      BY DEF Commit
    <3> QED
      BY <3>1, <3>2, <3>3
  <2> QED
    BY <1>0, <2>0, <2>1, <2>2 DEF Own, Replaces
<1> QED
  BY <1>1, <1>2, CommitOwn

LEMMA LedgerApart ==
  ASSUME RecordsStay, TypeOK, SInv, MInv,
         \/ \E x \in Record, d \in Date : RecordEntry(x, d)
         \/ \E k \in Clerk :
              \/ \E x \in Record, op \in {"edit", "delete"}, admin \in BOOLEAN :
                   EditLock(k, x, op, admin)
              \/ ClerkStep(k) \/ EditAbort(k)
  PROVE  MInv'
<1>1. UNCHANGED tx
  BY DEF RecordEntry, ClerkStep, EditLock, EditCommit, DeleteLock, DeleteCommit, Remove,
         DeleteRefused, EditAbort
<1>2. ASSUME NEW y \in Record, on[y] # NoDate PROVE on'[y] \in {on[y], Deleted}
  <2>1. ASSUME NEW x \in Record, NEW d \in Date, RecordEntry(x, d) PROVE on'[y] = on[y]
    BY <1>2, <2>1 DEF RecordEntry, TypeOK
  <2>2. ASSUME NEW k \in Clerk, NEW x \in Record, NEW d \in {on[x]} \cup MoveTo, EditCommit(k, x, d)
        PROVE  on'[y] = on[y]
    BY <2>2 DEF EditCommit, TypeOK, RecordsStay
  <2>3. ASSUME NEW k \in Clerk, NEW x \in Record, DeleteCommit(k, x)
        PROVE  on'[y] \in {on[y], Deleted}
    BY <2>3 DEF DeleteCommit, Remove
  <2> QED
    BY <2>1, <2>2, <2>3 DEF ClerkStep, EditLock, DeleteLock, DeleteRefused, EditAbort, db
<1>3. \A w \in Worker : \A p \in tx[w].seen : p \in Record /\ on[p] # NoDate
  BY DEF SInv, Own, TypeOK, Tx, Record
<1>4. ReadOfDate'
  BY <1>1, <1>2, <1>3 DEF MInv, ReadOfDate
<1> QED
  BY <1>1, <1>4 DEF MInv, ReadOnce, UnlinkedOnce

LEMMA NextMInv == RecordsStay /\ IInv /\ SInv /\ MInv /\ [Next]_vars => (SInv /\ MInv)'
<1> SUFFICES ASSUME RecordsStay, IInv, SInv, MInv, [Next]_vars
             PROVE  SInv' /\ MInv'
  OBVIOUS
<1>0. TypeOK
  BY DEF IInv
<1>1. ASSUME NEW w \in Worker,
             \/ \E op \in Op \ {"finalize"}, d \in Date : Request(w, op, d)
             \/ \E r \in Row : RequestFinalize(w, r)
             \/ WorkerStep(w)
             \/ Rollback(w)
      PROVE  SInv' /\ MInv'
  <2>1. SInv'
    BY <1>1, WorkerOwn, CommitApart DEF WorkerStep
  <2> QED
    BY <1>1, <2>1, WorkerApart
<1>2. CASE UNCHANGED vars
  <2>1. SInv'
    BY <1>2 DEF vars, SInv, Own, Replaces, CountedAreLinked, EditsExclude, CountedOnce, Exists
  <2>2. MInv'
    BY <1>2 DEF vars, MInv, ReadOnce, ReadOfDate, UnlinkedOnce
  <2> QED
    BY <2>1, <2>2
<1> QED
  BY <1>0, <1>1, <1>2, LedgerOwn, LedgerApart DEF Next

LEMMA InitMInv == Init => MInv
BY DEF Init, MInv, ReadOnce, ReadOfDate, UnlinkedOnce, NoTx

\* However many requests save, clear and finalize any dates at once, beside
\* clerks who record, edit and delete, no payment is counted by two
\* remittances, as long as edits leave the records on their dates.
THEOREM CountedOnceConcurrent == ASSUME RecordsStay PROVE Spec => []CountedOnce
<1>1. Init => IInv /\ SInv /\ MInv
  BY InitInv, InitSInv, InitMInv
<1>2. IInv /\ SInv /\ MInv /\ [Next]_vars => (IInv /\ SInv /\ MInv)'
  BY RecordsStay, NextInv, NextMInv
<1>3. SInv => CountedOnce
  BY DEF SInv
<1> QED
  BY <1>1, <1>2, <1>3, PTL DEF Spec

\* And the steps of their transactions, interleaved in any way, show the station
\* the steps of the day book only.
THEOREM ServesDayBookConcurrent == ASSUME RecordsStay PROVE Spec => ImplementsDayBook
<1>1. Init => IInv /\ SInv /\ MInv
  BY InitInv, InitSInv, InitMInv
<1>2. IInv /\ SInv /\ MInv /\ [Next]_vars => (IInv /\ SInv /\ MInv)'
  BY RecordsStay, NextInv, NextMInv
<1> QED
  BY <1>1, <1>2, InitMaps, StepMaps, PTL DEF Spec, ImplementsDayBook, Book!Spec
=============================================================================
