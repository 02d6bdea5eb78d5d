# Verification of hydr8

hydr8 is the back office of a water refilling station: a Django application (`src/server/apps`)
over one PostgreSQL database, served by three gunicorn workers (`src/server/entrypoint.sh:7`).
Staff record what customers owe and borrow, collect payments and containers, and once a day
enter a *remittance* (what the riders sold, were paid and handed in), which an administrator
finalizes. These modules model the parts of it that keep books, and check and prove what must
be true of the books whatever the order in which requests are answered.

What makes this code hard to test is its concurrency. The database runs at READ COMMITTED;
requests are not wrapped in a transaction (no `ATOMIC_REQUESTS`); the services open one with
`transaction.atomic` where they choose to, take row locks with `select_for_update` where they
choose to, and correct counters with `F()` expressions (`src/docs/ARCHITECTURE.md:178-181`).
Views turn a `ValidationError` into a message; any other exception, an `IntegrityError` of a
constraint included, is a 500 and a rollback.

## Inventory

`R` is `src/server/apps/remittance/services.py`, `RS` its `selectors.py`, `RV` its `views.py`;
`C` is `src/server/apps/customers/services.py`, `CS` its `selectors.py`.

| Component | State it keeps | Operations | Talks to | What is hard | What makes it correct |
|---|---|---|---|---|---|
| Remittance life cycle (`R`, `remittance/views.py`, triggers in `remittance/migrations/0005`) | `Remittance` rows (date, status, totals), one per date; the foreign keys of payments and credit lines | create 183, save draft 255, clear draft 319, finalize 879; all but the last delete and rebuild the draft (`_build_remittance` 366) | reads and links the ledger's payments and lines; is read by ledger edits | saves, clears and finalizations of one date in any order; a waiter whose row was replaced; records edited between the read and the link | one row per date; a finalized row stays; links never dangle; no payment in two totals |
| Paid flags (`R` 825, `remittance/views.py` 472) | two booleans of a finalized remittance, and what each open history page shows | mark tithes or offering as paid | pages post the flags they show | stale pages, read-check-write without a lock | a flag once set stays |
| Remittance totals (`R` 366-823) | the money columns of a remittance, rows of riders, staff, expenses, deductions | computed while the draft is built | products, commissions, ledger, the page | clamping at zero at several places; computed in the browser too | browser and server arrive at the same totals; what a shortfall costs comes off the commission |
| Credit ledger (`C` 210, 440, 889, 997, 1212, 1287, 1404) | `CreditLine`, `CreditPayment`, `Customer.debt_balance`, `credit_limit` | record, collect, edit, delete, set the limit | remittances link payments | three rows changed by differences to what was read; locks in opposite orders; validation before the lock | the debt is the sum of the ledger, never negative; the limit holds; remitted payments stay |
| Container ledger (`C` 310, 440, 1096, 1348) | `BorrowedContainer`, three counters of the customer | lend, return, edit, delete | shares collections with the credit ledger | as above | the counters are the sums of the loans; nothing is returned twice |
| Customer creation and deletion (`C` 90, 151, 373, `customers/signals.py`) | `Customer.deleted_at` | create (also inline), delete | the ledgers record on customers they found before | the check and the write are two statements | a deleted customer owes nothing |
| Customer status (`C` 654-731) | `Customer.status` | flag, blacklist, reset | nobody calls them | in-memory status | only listed transitions |
| Products and commissions (`products/services.py`) | `Product`, `DriverCommission` | create, update, (de)activate, delete, set rates | remittances snapshot prices and rates; the page shows them | change beside a page that is filled in | what a page reviewed is what a save stores; a repaid unit earns its commission once |
| Add Remittance page (`RV`, `RS` 371-900, the script of `add_remittance.html`) | the page in the browser: its rows, prices, counts, what was typed in | open, check the date, reopen a draft, fill in, review, post, clear, finalize | posts units and repayments as it shows them | a page older than the database; totals computed twice | the review equals the stored totals; a draft survives reopening |
| Reports of a remittance (`RS` 900-1911) | none of their own | history row, detail cards, summary panel, trends | stored columns and the live ledger | each adds up for itself, from columns or from the ledger | every entry on one card; the pages agree |
| User accounts (`users/services.py`, `users/views.py`, `employees/selectors.py`) | `User` rows: active, deactivated, role, password and PIN with their terms | add, edit, reset, forced and own change of password, onboard, (de)activate; directory | riders and staff of the forms, sign-in | nothing locks a row; an edit writes back the whole row | inactive means deactivated; a temporary password stays forced |
| Sign-in, PINs and the screen lock (`users/views.py`, `core/middleware.py` 126, `RV` 420) | attempt counters in the cache; two entries of the session | log in, lock, unlock, confirm with a PIN, log out | every request passes the middleware | counters read and written in two calls, with expiry; a session loaded when a request starts and written back whole when it ends | a locked session stays locked; a lockout ends by itself |
| Customer pages (`CS`, `analytics/selectors.py`, `employees/selectors.py`) | none of their own | table, chips, cards, ranking, collect and history pages, dashboard | counters and entries of the ledger | one question answered by several queries | they agree; what a page offers, the service accepts |
| Settings (`settings/services.py`) | `SystemConfig` rows | save, apply the credit limit | limit of new customers, tithe rate, threshold of overdue | values parsed from text | |
| Audit and nightly clean-up (`audit/services.py`, `core/scheduler.py`) | `LogEntry` | append, purge after 90 days | every save | | |
| Sales charts, other templates, tenancy | none of their own | read-only queries, a filter by company | | | |

`PROJECT.json` lists, under `hazards`, each line where one of these behaviours bites and the
property that watches it, and under `components` what is not modelled and why.

## Modules

| Module | Models | State and actions |
|---|---|---|
| `DayBook` | what the remittance service promises: per date nothing, a draft or a final remittance, and the payments it claims | `Draft`, `Clear`, `Finalize`, `Close` |
| `Remittance` | create, save, clear and finalize, statement by statement, beside the ledger's edits and deletions | `status, day, counted, on, link` are the committed rows; `tx[w]` is a request's transaction |
| `CreditLedger` | recording, collecting, editing and deleting of credit lines and payments | `line, pay, debt, limit` are the committed rows; `tx[k]` a transaction |
| `Containers` | lending, returning, editing and deleting of containers | `loan, counter`; `tx[k]` |
| `PaidFlags` | history pages and `update_remittance_paid_status`, its read and its save apart | `paid`, `page[u]`, `req[u]` |
| `SoftDelete` | customers created, lent to, settled and deleted | `state, owes`; `req[k]` is the next statement of a request |
| `RemittanceTotals` | the arithmetic of `_build_remittance`: product lines, rider, light and staff rows, the totals | operators, no state |
| `Catalogue` | products, prices, commission rates, who is at work | `product, price, rate, working` |
| `RemittanceForm` | the Add Remittance page of one day beside credit and changes of the catalogue; extends the two above | `entry` (the ledger of the date), `page` (the browser), `saved` (the remittance) |
| `RemittanceReports` | what the history and detail pages make of `saved` and `entry` | operators |
| `Directory` | the rows and counters of the ledger from day to day, a service a step, and the pages that read them | `state, debt, borrowed, last` of a customer; `line, loan, pay`; `req[k]`; `today, final` |
| `Accounts` | accounts, changed by overlapping requests, and the directory of employees | `row`; `req[k]`: a request and the account it read |
| `SignIn` | failed logins and PINs, the screen lock, the middleware, under overlapping requests | `active`, `session[b]`, `entry[c][u]` (the cache), `req[r]`: a request, the session it loaded and the count it read |
| `RemittanceProofs`, `CreditLedgerProofs`, `ContainersProofs`, `RemittanceFormProofs`, `DirectoryProofs`, `AccountsProofs`, `SignInProofs` | proofs about the modules they extend; `RemittanceFormProofs` also about the catalogue, totals and reports | |
| `Sums` | the laws of sums over finite sets, which four of them use | |
| `MC...` | values of the constants and symmetry sets for TLC | |

**Transactions.** A variable that stands for a table holds the committed rows only. A
transaction is a record: its program counter, the rows it has locked, and what it has computed
from what it read. It is discarded on a rollback (`Rollback`, `Abort`, `Refuse`) and applied by
`Commit` in one step. This is sound because every write of these services is made under a row
lock held to the end, so no statement of another transaction can see the row between write and
commit: it waits. A `SELECT ... FOR UPDATE` that may wait is two steps: what the statement's
snapshot showed, then the lock, after which PostgreSQL looks at the locked row again
(`LockFindsNothing`, `LockRefused`, `LockDraft`). An `UPDATE` with an `F()` expression is such
a lock, too. A statement that locks several rows takes them one by one in any order, in the
ledgers (`LockAsked`, `LockPayment`, `LockLoan`) and in the UPDATEs and deletions of a
remittance (`UnlinkRow`, `LinkRow`, `DeleteLock`), so a transaction may hold some and wait for
others. An `INSERT` under the unique constraint waits for a transaction that has inserted or
deleted a row of the same date (`DateBusy`) and fails on a committed one (`InsertConflict`).

**Requests that take no lock** (`PaidFlags`, `SoftDelete`, `Accounts`, and the search for the
customer and the deletion in `Directory`) are modelled by their statements: the read with its
check, and the write, with other requests in between. In `Accounts` the write is that of the
fields `save(update_fields=...)` names, or of the whole row read earlier for the edit form.

**Sessions.** A request of `SignIn` carries the session as it was when it began (`had`). One
that changes anything in it writes all of it back (`Save`, `SaveChange`), over whatever another
request of the same browser has written meanwhile, unless that session exists no longer
(`live`, Django's `SessionInterrupted`); a login, a logout and the last wrong PIN replace the
session (`Replace`). A check of a counter in the cache is apart from the answer, which reads a
login's counter once more (`Recount`) and sets it in a second call. A session is loaded and a
count read in one step at the beginning of a request, and a login whose password is replaced
while it runs is `Right` and then `NewPassword`.

**What is abstracted.** In `Remittance` amounts are left out: `counted[r]` is the set of
payments whose amounts `total_repayments_received` was summed from. In the ledgers money is a
small integer. `SoftDelete` adds debt and containers up in `owes`, since `delete_customer` and
the signal treat them alike. In `Directory` a line and a loan are of one container, any number
of payments belongs to a line, each of the unit, of money or of both, and a record is `fresh`
for as long as its 24 hours last. In `RemittanceTotals` amounts are integers and a list of
expenses or deductions is its sum; percentages (the tithe) are left out. A save of
`RemittanceForm` is one step, for what two saves do to each other is the subject of
`Remittance`. A day of `Accounts` is a term of 90 days; of a password it keeps whether it is
temporary. `SignIn` has what a typed password or PIN was: right or wrong. PIN, role and 24-hour
checks fail or pass before anything is changed; a request that fails there has no step, except
that `EditLock` keeps the role, for the finalized check depends on it. Identifiers are used
again once nothing refers to them, so that bounded sets of them stand for any number of rows.

**How they interact.** `Remittance` has the ledger's rows as far as a remittance sees them
(`on`, `link`, `RecordEntry`, `EditCommit`, `DeleteCommit`); `CreditLedger` has the remittance
as far as the ledger sees it (`Remit`, which links or unlinks a payment at any moment it is not
locked). A collection that both returns containers and pays lines locks loans, then lines, then
updates the customer; the two halves touch different tables and are in `Containers` and
`CreditLedger` separately. `RemittanceForm` composes the catalogue, the totals, the ledger of
the date and the page, and `RemittanceReports` reads the result. `Directory` has what
`CreditLedger`, `Containers` and `SoftDelete` do to the rows of a customer, without the
statements of their transactions but with the pages.

## Runs

All runs together take about a quarter of an hour with two TLC workers.

| Run | Bounds | Checks |
|---|---|---|
| `remittance_workers` | 3 workers, 1 date, 2 payments, 1 line | `OneRowPerDate`, `HeldRowsAreDrafts`, `FinalizedForever`; `ImplementsDayBook` (refinement) |
| `remittance_serial` | 1 worker, 1 clerk, 2 dates, 2 payments moved to the second date | `CountedOnce`, `ImplementsDayBook` |
| `remittance_edits` | 2 workers, 1 clerk, 1 date, 1 payment, fair | `LinksPointAtLiveRows`, `LinkedWereCounted`, `IInv`, `RequestsEnd` |
| `remittance_takeover` | 2 workers, 1 clerk, 2 dates | violates `PaymentsAreNotTakenOver` |
| `ledger_sums` | 2 clerks, 1 line of 1-2 containers at 0 or 2, 2 payments of what the units cost or of 1, limit 0 or 3, fair | `TypeOK`, `DebtIsLedgerSum`, `UnitsAddUp`, `LimitRespected`, `RemittedPaymentsStay`, `LedgerRequestsEnd` |
| `containers_counters` | 2 clerks, 2 loans of 1-2 containers of 2 kinds, fair | `TypeOK`, `CountersAddUp`, `ContainerRequestsEnd` |
| `paidflags_workers` | 2 users, 2 remittances | violates `PaidStaysPaid` |
| `softdelete_workers` | 2 requests, 1 customer who owes at most 2 | violates `DeletedOweNothing` |
| `form` | 2 drivers, 1 staff member, 1 product, 1 credit line, 2 payments, 2 sheets, 2 changes by others | `FormTypeOK`, `DetailCoversLedger`, `ReportsAgree`, `ReviewedIsSaved`, `RepaymentsEarnOnce`, `DraftRoundTrip` |
| `accounts_overlap` | 2 accounts, 2 requests, 2 terms | `TypeOK`, `StatusAgrees`, `TemporaryIsForced`, `DirectoryAgrees`, `DeactivatedOnPurpose` |
| `signin_locks` | 2 requests, 1 account, 1 browser, limits of 2 logins, 2 PINs, 3 screen PINs, a window of 2 ticks, at most 3 failures counted, fair | `SignInTypeOK`, `LockHolds`, `LockoutsEnd` |
| `directory_pages` | 2 requests, 1 customer, 1 line at 0 or 2, 1 loan, 1 payment of 0 to 2, 3 days, remittances of day 1, threshold 1 | `ListsAgree`, `HistoryOffersWhatIsAccepted`, `OverdueWithinADay`, `DeletedRest` |

**Why the bounds are enough.** The conflicts are between two transactions over one row; a third
worker adds the waiter that finds the row gone *and* replaced. Two dates are what taking over a
payment needs, two payments per line what a collection beside another one needs, two containers
a part payment, and a price of 0 a payment that is of units alone. A debt of at most 4 crosses
the limit of 3 by one record, by two together and by an edit. Two kinds of container tell apart
a counter of the wrong kind. One credit line is enough for the sums, since a commit treats each
line by itself; what several rows in one statement add is the order of their locks, which
`containers_counters` has with two loans, and the theorems of the ledger are about any number.
On the form two drivers keep one's shortfall, override and payments from the other's; a credit
line and a payment are in a driver's care, the second payment in nobody's; one sheet has a
shortfall, an expense, deductions and other sales, the other has neither rider money nor
expenses but a salary by hand, larger deductions than salary included; two changes are what it
takes to change the catalogue or the ledger once before the page is checked and once after. Two
overlapping requests are what an account needs to be written back stale, two terms what a
password needs to expire. The limits of the sign-in are small, and different from each other;
two requests of one browser are two readers of one counter and two writers of one session, in
every order, and what a second browser adds is a session that none of them touches, which the
proofs cover. Three days separate the day of an entry, the threshold and the day after; with a
threshold of 1 the edges are inside. A price of 2 with amounts of 1 and 2 makes a payment short
or square, an amount without units and units without an amount; one row of each kind is enough
where a page adds rows up, and the theorems of `Directory` are about any number of them and of
customers.

`CHECK_DEADLOCK FALSE` is in three runs: the changes of `form` are bounded and the day may be
finalized with everything recorded, in `accounts_overlap` nobody may be left who is able to act
(below), and in `directory_pages` the last day may find every customer deleted. Elsewhere
nothing is meant to stop.

**The day book.** `ImplementsDayBook` says that through all statements of all transactions the
committed rows show only day-book steps: a date goes from nothing to draft to final, and a
payment is claimed by one date at a time. It holds for concurrent requests of a date whose
records keep their date, and for one request at a time over two dates with records that change
theirs. Both together break it, which is the run `remittance_takeover`: payments are linked by
the identifiers read earlier in the transaction (`R:618`), so a payment moved to another date
meanwhile, and linked there, is taken from that remittance, and is in the totals of both.

**Violations.** `remittance_takeover` (above); `softdelete_workers` (a debt recorded between
the signal's check and the save leaves a deleted customer in debt, against
`customers/signals.py:3-6`); `paidflags_workers` (two administrators who each mark one flag of
a remittance at once read both, and the later save writes the other one back, `R:847` and
`R:865-867`, against the docstring at `R:841`).

**Fairness.** `FairSpec` assumes that the database answers: a statement that waits for a row
gets it if the row becomes free again and again (PostgreSQL queues the waiters), which is
strong fairness of the steps of a request or a ledger transaction (`WorkerStep`, `ClerkStep` in
`Remittance`); and that transactions that wait for each other in a circle are ended by the
deadlock detector (`Victim`, weak fairness), which rolls one of them back. No fairness makes a
user send anything, nor a request fail that is in no such circle. The cycles exist: editing a
payment locks payment, then line; deleting a line locks line, then payments; two collections
may lock the same rows in opposite order; and a remittance that has linked or unlinked some
records of its UPDATE may wait for one that a deletion of their line holds, which waits for the
others. In `SignIn` time passes for a cache entry (`Tick`, weak fairness) and a request that
has read a counter answers (`Wrong` or `Right`, one request at a time); that a request is
shorter than the minute of an entry is the guard of `Tick`. Nobody is assumed to try again, to
stop trying, or to know the password.

## Divergences met on the way

Known, and given no run of their own. Line numbers are those of `src/server/apps`.

*Between the code and its words.* `delete_credit_payment`'s docstring says the debt is reduced
by the amount (`C:1297`) where the code rightly adds it (`C:1336`). `edit_credit_payment`'s
says payments of a finalized remittance are blocked (`C:1010`), which an administrator's are
not (`C:769`). The setting `approved_container_limit`, described at
`settings/selectors.py:58-59`, is read by no service that lends (`C:348`). The collection's
comment says that no payment of units with an amount of 0 must be stored (`C:538-544`), but a
product may cost nothing (`products/services.py:106`, 185), and then one is: `TypeOK` of
`CreditLedger` says what is left of it, units or money. The lock of the idle screen is to catch
"any subsequent request" (`users/views.py:944-951`): a request of the same browser that had
loaded its session before, and changes anything in it, writes it back unlocked, which
`LockHolds` states as its exception. Likewise two wrong PINs typed into two tabs at once count
as one of the three (`users/views.py:972-982`). The change of one's own password in the
settings does not renew its term, which the docstring of `set_password` (`users/models.py`)
says a change does; `ChangedInSettings` models it.

*Pages older than the database.* `ReviewedIsSaved`, `RepaymentsEarnOnce` and `DraftRoundTrip`
are about saves of a page that is up to date (`PageIsLive`), and what happens to others is not
guarded by the code: a payment recorded after the last check of the date earns no commission;
the lines of a product deactivated since are dropped when its draft is reopened and saved; a
product deleted since is still saved from a page that shows it (`R:385-395`); the rate of the
tithe is the one the browser sent. The review pays staff what is left after deductions, the
stored remittance is charged with the whole salary, which `ReviewedIsSaved` states as it is.

*Reports.* The detail page's cash is what its drivers handed in (`RS:1714`), the history's is
worked out of stored columns; its balance leaves the expenses out (`RS:1516`). The trends of
the customers' debts do not filter deleted customers, so they exceed the summary's by what
these owe (`softdelete_workers`), which `ListsAgree` states. A change of a user's role takes
their past sales out of the trends.

*Ledger.* The units and the amount of a payment are independent (`C:519`, 543-547). A
collection whose amount is smaller than the price of its units closes the line and leaves the
debt, so that a debtor may have no open line and cannot be collected from; an amount without
units pays the debt and leaves the line open, so that a customer who owes nothing, and may be
deleted, is still on the collect page and on the dashboard. `ListsAgree` compares debt and
lines for those whose payments carry the price of their units (`Square`), as the page fills
them in. `last_credit_at` stays when the line that set it is edited or deleted. A record
refuses a date in the future, an edit accepts it; a staff edit checks the finalized day of the
old date only. A debtor is overdue after the threshold on one page and on it on another
(`OverdueWithinADay` bounds the difference), and the ranking does not read the configured
threshold.

*Accounts.* Nothing locks an account: an edit form writes back the row it read and so undoes a
deactivation or activation that committed meanwhile (`DeactivatedOnPurpose` says exactly what
may happen). The last administrator may give up the role, and two may deactivate each other:
then nobody is left to manage accounts. The counter of failed logins is read and written in two
calls and may run past its limit, or lose a failure; each failure renews its minute.
`save_system_config_view` saves the values that are right and reports those that are not.
`activate_product` does not look for an active product of the same name. The Django admin page
of accounts edits `is_active` and `deactivated_at` each for itself (`users/admin.py:67-80`): it
is not an action of `Accounts`, and used for one of them alone it would break `StatusAgrees`
and `DeactivatedOnPurpose`.

## Proofs

TLAPS proves every invariant and action property the passing runs check, and the refinement,
for every number of workers, clerks, dates, payments, lines, customers, accounts, browsers and
requests at once, from the assumptions on the constants only. The sets that are summed over or
counted (`Line`, `Loan`, `Payment`, `Customer`, `Entry`, `User`, `Driver`, `Member`, `Product`)
are assumed finite, as tables are. `Sheet \subseteq SheetType` says that what is typed into the
form is a natural number or left empty: `sanitizeAmount` of the page sees to it, and the server
refuses a negative amount. Two theorems of `Remittance` need `RecordsStay`: no edit moves a
record to another date, which is `MoveTo = {}`. Where edits do, several requests at once break
what they say (`remittance_takeover`); one request at a time is model-checked
(`remittance_serial`). No theorem assumes that requests are answered one by one.

**Sums** (`Sums`). Balances, counters and totals are sums over finite sets, and the community
operator for them is a recursive function. Its laws (`SumChange`, `SumPlus`, `SumSplit` and the
rest) are proved by looking at a smallest set for which a law fails (`LeastSet`, from `WFMin`),
which needs no induction theorem with an operator as its parameter. That the recursive function
exists at all is shown the same way, by the number of elements.

**Remittance** (`RemittanceProofs`).

* `TypeCorrect`, `OneRow`, `HeldRows`, `LiveLinks`, `CountedLinks`, `FinalForever`. The four
  invariants are not inductive alone. That an insert adds no second row (`OneRowPerDate`) needs
  that whoever has inserted an uncommitted row of a date is alone in changing the rows of the
  date (`DatesExclude`, `FreshRows`); that a lock still holds a draft when it commits needs
  that two transactions never hold the same row (`LocksExclude`) and what a transaction has at
  each statement (`TxShape`, `TargetsOfDate`); that links do not dangle needs that whoever
  deletes a row has unlinked all its records (`FreedLinks`), whose locks keep others from
  linking them back. `IInv` is the conjunction; `Inductive` proves it, by one lemma per kind of
  step (`TxStep`, `LedgerStep`, `ForgetStep`, `InsertStep`, `CommitStep`), and the rest
  follows. TLC checks the same `IInv` in `remittance_edits`.
* `CountedOnceConcurrent` and `ServesDayBookConcurrent`, where `RecordsStay`, for any number of
  workers and clerks at once, on any dates: no payment is in the totals of two remittances, and
  the committed rows show day-book steps only. `SInv` adds to `IInv` what a transaction owns:
  the payments it has read are counted by nobody else and stay with its row until it commits
  (`Own`), a counted payment stays linked unless it was deleted (`CountedAreLinked`), and two
  clerks never hold the same record (`EditsExclude`). `MInv` says why transactions do not meet:
  what two of them have read is different (`ReadOnce`), since it is of the transaction's own
  date (`ReadOfDate`), whose rows one of them alone changes; and what they unlink or link is
  different (`UnlinkedOnce`), since it is locked. Moving a record is what breaks `ReadOfDate`,
  and `remittance_takeover` shows that nothing else then keeps two remittances apart. For the
  refinement a commit is shown to be one step of the day book (`CommitMaps`) and every other
  step to show nothing (`BookStutters`).

**Ledgers.**

* `CreditLedgerProofs`, first half: `WithinTheLimit` and `RemittedForever`. Row locks exclude
  each other (`LocksExclude`), and what a transaction has read under its locks still holds when
  it commits (`HeldOK`): its customer's debt and limit, that the payment it deletes is not
  linked, and that all payments of the line it deletes are locked and not linked. For the last
  one, a payment appears only under the lock of its line (`CommitPays`).
* Second half: `DebtIsTheSum`, `UnitsAddUpAlways` and `LedgerTypes`. A debt is the sum of the
  lines less the sum of the payments, whatever transactions are open, because what each will
  add to it (`delta`) is what its rows say it must be. `LInv` states that per operation
  (`NewLineRead`, `LineRead`, `PaymentRead`, `DeletionRead`, `CollectionRead`), and a commit
  then changes sum and debt by the same amount, for all its lines together where a collection
  has several. That ids of the model's bounded sets suffice is `Reserved` and `Room`.
* `ContainersProofs`: `ContainerTypes` and `CountersAreTheLoans`, by `CInv`, which says the
  same of the loans a transaction has locked (`ReadOK`).

**The form and its reports** (`RemittanceFormProofs`). `FInv` says of a stored remittance that
its totals are those of its own rows, that `repayments` is the value of the payments now linked
to it, and that the credit it counted is at least that of the lines now linked (a linked line
may be deleted, a linked payment not). `FormTypes` follows.

* `DetailAlwaysCoversLedger`: the cards of the detail page are of different people, and there
  is one for whoever had an entry in their care, with a stored row or without one.
* `ReportsAlwaysAgree`: what each page works out is traced back to the stored totals. A
  difference of sums is the sum of the differences, and what is netted or filtered out is never
  more than what it is taken from.
* `RepaymentsAlwaysEarnOnce`: when the page is up to date the units it posts are those of the
  open payments (`LiveSave`), each of one driver; a product line that is left out had nothing
  repaid (`LeftOut`).
* `DraftAlwaysRoundTrips`: a line left out is restored as zero, a line kept as it was, and what
  was subtracted is added back (`Restored`); hence the rebuilt remittance is the same.
* `ReviewedAlwaysSaved`: the script adds all lines, the server those it keeps, and those it
  does not keep are zero (`KeptAddUp`); what is short is subtracted in two steps by one and in
  one by the other (`ShortInTwoSteps`).

**Customers, accounts, sign-in.**

* `DirectoryProofs`: `DirectoryTypes`, `OverdueAgrees`, `HistoryAlwaysOffersWhatIsAccepted`,
  `DeletedAlwaysRest` and `ListsAlwaysAgree`. The invariant adds to the types that a payment is
  of a line that exists (`OwnersOK`), that the debt is the sum of the lines' prices less what
  their payments brought, that the borrowed counter is the sum of the loans, and that the units
  of a line are those left and those paid (`SumsOK`). Each service moves one line, with its
  payments, or one loan (`LineMoves`, `LoanMoves`), and `CustomerMoves` says what that does to
  the sums. When every payment is square, the sum of a line is what is left of it at its price
  (`SquareIs`), hence the debt that of the open lines (`DebtIsBalance`), for one customer and
  for all (`DebtIsBalanceOfAll`).
* `AccountsProofs`: `TypeCorrect`, `StatusAlwaysAgrees`, `TemporaryAlwaysForced`,
  `OnlyOnPurpose`. The invariant says of a stale read what it must satisfy for its write to be
  harmless: the two columns of the row that was read agree as well, and so do password and
  flag. `DirectoryAlwaysAgrees` is about any rows: each list and each count takes an account
  the same way, whichever of the two columns its query reads.
* `SignInProofs`: `LimitsHold` and `LockedUntilPin`, for requests that overlap in any way. The
  count of PINs stays at its limit although two calls make it up, because a request counts from
  what it read, which was below (`ReadBelowLimit`). The count of failed logins is held by the
  model's bound only, see the divergences. Only somebody's session is being locked
  (`LockedBySomebody`), so a locked one stays that account's; then each request that may write
  it is looked at: one that had loaded it locked writes it back locked, unless it is an
  `Unlock`.

**Only model-checked** is liveness: `RequestsEnd`, `LedgerRequestsEnd`, `ContainerRequestsEnd`
and `LockoutsEnd`, whose fairness is about `ENABLED`, which is out of the prover's reach.

## Not modelled, and what is left

* The sales charts and rankings of drivers (`analytics/selectors.py`, `employees/selectors.py`
  beyond the directory) sum one table by a period; nothing is decided from them.
* The audit trail is written in the transaction of the change and read by nobody who decides
  anything; the nightly job deletes old rows of it.
* Tenancy: every query is filtered by one company, and the modules are about one.
* Status transitions of a customer (`C` 654-731): no request reaches them.
* Templates and scripts other than the Add Remittance page show what their selector returns.
* The Django admin site, for accounts above all (see the divergences).
* Settings are one-row updates; those that matter elsewhere are constants or actions there.

Left to do: an abstract account (owed, limit) that `CreditLedger` implements, for which the sum
is now proved; and a composition of `RemittanceForm` with the transactions of `Remittance`,
whose states are too many for TLC even with one payment, so that only a proof could show
something of it.
