--------------------------- MODULE RemittanceForm ---------------------------
(***************************************************************************)
(* The remittance of one day as the office makes it: the Add Remittance    *)
(* page that is filled in, the credit recorded and collected meanwhile,    *)
(* and the save that turns both into the stored totals.                    *)
(*                                                                         *)
(* src/server/apps/remittance/selectors.py builds the page, views.py and   *)
(* the script of add_remittance.html keep it, services.py saves it.  A     *)
(* save is one step here: what two saves do to each other is the subject   *)
(* of Remittance.tla.  What is modelled here is the page between the       *)
(* moment it was filled from the database and the moment it comes back.    *)
(***************************************************************************)
EXTENDS Catalogue

CONSTANTS
  Credit, Payment,   \* credit lines and payments of the date
  CareOf,            \* the care_of of an entry: a user, or None
  ProductOf, Units, Amount,
  Daily,             \* User.daily_rate
  Sheet,             \* what an operator may have typed into the page
  MaxChange          \* bound: changes by others

Entry == Credit \cup Payment
MaybeNat == Nat \cup {None}
SheetType ==
  [rider : [Driver -> [sold : [Product -> Nat], override : MaybeNat, remitted : MaybeNat,
                       expense : Nat, deduction : Nat]],
   staff : [Member -> [override : MaybeNat, deduction : Nat, expense : Nat]],
   other : Nat]

ASSUME FormAssumption ==
  /\ IsFiniteSet(Entry) /\ Credit \cap Payment = {}
  /\ CareOf \in [Entry -> Driver \cup Member \cup {None}]
  /\ ProductOf \in [Entry -> Product]
  /\ Units \in [Entry -> Nat] /\ Amount \in [Entry -> Nat]
  /\ Daily \in [Member -> Nat]
  /\ Sheet \subseteq SheetType
  /\ MaxChange \in Nat

VARIABLES
  entry,     \* entry[e]: "none", "free", or "linked" to the remittance
  page,      \* the page in the browser
  saved,     \* the remittance of the date
  changes    \* changes by others so far

vars == <<product, price, rate, working, entry, page, saved, changes>>

Empty == [rider |-> [d \in Driver |->
                       [sold |-> [p \in Product |-> 0], override |-> None,
                        remitted |-> None, expense |-> 0, deduction |-> 0]],
          staff |-> [m \in Member |-> [override |-> None, deduction |-> 0, expense |-> 0]],
          other |-> 0]

NoPage == [open |-> FALSE]
NoRemittance == [status |-> "none"]

Exists == saved.status # "none"
Recorded(K) == {e \in K : entry[e] # "none"}
OwnedBy(K, u) == {e \in K : CareOf[e] = u}
UnitsOn(K, p) == SumFunctionOnSet(Units, {e \in K : ProductOf[e] = p})
Value(K) == SumFunctionOnSet(Amount, K)
Linked(K) == {e \in K : entry[e] = "linked"}

\* Entries not held by a finalized remittance: the page shows these.
Open(K) == IF saved.status = "final" THEN Recorded(K) \ Linked(K) ELSE Recorded(K)

FormInit ==
  /\ CatalogueInit
  /\ entry \in [Entry -> {"none", "free"}]
  /\ page = NoPage
  /\ saved = NoRemittance
  /\ changes = 0

-----------------------------------------------------------------------------
(***************************************************************************)
(* Filling the page.                                                       *)
(***************************************************************************)
\* Mutant: payments the draft has linked are not counted.
LiveCountsUnlinked ==
  [d \in Driver |-> [p \in Product |->
     [credited |-> UnitsOn(OwnedBy(Recorded(Credit), d), p),
      repaid   |-> UnitsOn(OwnedBy(Recorded(Payment) \ Linked(Payment), d), p)]]]

\* Units sold on credit and paid back on the date, as they are now.
LiveCounts ==
  [d \in Driver |-> [p \in Product |->
     [credited |-> UnitsOn(OwnedBy(Recorded(Credit), d), p),
      repaid   |-> UnitsOn(OwnedBy(Open(Payment), d), p)]]]

\* _load_draft_state of a remittance that has linked these payments
StateOf(r, linked) ==
  [rows |-> r.rows, staff |-> r.staff, other |-> r.totals.other,
   repaid |-> [d \in Driver |-> OwnedBy(linked, d)]]
SavedState == StateOf(saved, Linked(Payment))

\* Mutant: only the units sold and on credit are restored.
CountsFromLines(state, counts) ==
  [d \in Driver |-> [p \in Product |->
     LET lines == IF d \in DOMAIN state.rows THEN state.rows[d].lines ELSE << >>
     IN  [credited |-> IF p \in DOMAIN lines THEN lines[p].credited
                       ELSE counts[d][p].credited,
          repaid   |-> 0]]]

\* The counts a state restores: a line of the draft brings its own, and the
\* other lines of a driver who has one are emptied.
CountsFrom(state, counts) ==
  [d \in Driver |-> [p \in Product |->
     LET lines == IF d \in DOMAIN state.rows THEN state.rows[d].lines ELSE << >>
         paid  == {e \in state.repaid[d] : ProductOf[e] = p}
     IN  [credited |-> IF p \in DOMAIN lines THEN lines[p].credited
                       ELSE IF lines # << >> THEN 0 ELSE counts[d][p].credited,
          repaid   |-> IF paid # {} THEN UnitsOn(paid, p)
                       ELSE IF lines # << >> THEN 0 ELSE counts[d][p].repaid]]]

\* applyDraftState: units sold are kept where the state has none, what else a
\* driver or a staff member had typed in is replaced.
SheetFrom(state, sheet) ==
  [rider |-> [d \in Driver |->
     LET row   == IF d \in DOMAIN state.rows THEN state.rows[d] ELSE LightRow(0)
         old   == sheet.rider[d]
     IN  [sold |-> [p \in Product |->
            IF p \in DOMAIN row.lines THEN row.lines[p].sold ELSE old.sold[p]],
          override |-> row.override, remitted |-> row.remitted,
          expense |-> row.expense, deduction |-> row.deduction]],
   staff |-> [m \in Member |->
     IF m \in DOMAIN state.staff
       THEN [override |-> state.staff[m].override, deduction |-> state.staff[m].deduction,
             expense |-> state.staff[m].expense]
       ELSE Empty.staff[m]],
   other |-> state.other]

Apply(pg, state) == [pg EXCEPT !.counts = CountsFrom(state, pg.counts),
                               !.sheet = SheetFrom(state, pg.sheet)]

\* _resetFormFields leaves the expenses of the staff.
Reset(sheet) ==
  [Empty EXCEPT !.staff = [m \in Member |->
     [Empty.staff[m] EXCEPT !.expense = sheet.staff[m].expense]]]

FreshPage ==
  [open |-> TRUE, locked |-> FALSE, pending |-> None,
   products |-> OnSale, riders |-> ActiveRiders, staff |-> ActiveStaff,
   price |-> price, rate |-> rate, counts |-> LiveCounts,
   repayments |-> Value(Open(Payment)), sheet |-> Empty]

\* get_add_remittance_context
OpenPage ==
  /\ page' = IF saved.status = "draft" THEN Apply(FreshPage, SavedState) ELSE FreshPage
  /\ UNCHANGED <<catalogue, entry, saved, changes>>

\* checkDate, run when the page opens and when a date is chosen.  A finalized
\* remittance locks the page.  Otherwise the draft is applied and the counts of
\* the moment replace those it brought.  A request that fails changes nothing.
Checked ==
  LET clean == [page EXCEPT !.sheet = Reset(page.sheet)]
      live(pg, pending) == [pg EXCEPT !.pending = pending, !.counts = LiveCounts,
                                      !.repayments = Value(Open(Payment))]
  IN  CASE saved.status = "final" ->
             [Apply(page, SavedState) EXCEPT !.locked = TRUE, !.pending = None]
        [] saved.status = "draft" -> live(Apply(clean, SavedState), SavedState)
        [] saved.status = "none" -> live(clean, None)

CheckDate ==
  /\ page.open /\ ~page.locked
  /\ page' = Checked
  /\ UNCHANGED <<catalogue, entry, saved, changes>>

\* confirmLoadDraft, with the draft the last CheckDate brought
LoadDraft ==
  /\ page.open
  /\ page.pending # None
  /\ page' = Apply(page, page.pending)
  /\ UNCHANGED <<catalogue, entry, saved, changes>>

FillIn(s) ==
  /\ page.open /\ ~page.locked
  /\ page' = [page EXCEPT !.sheet = s]
  /\ UNCHANGED <<catalogue, entry, saved, changes>>

-----------------------------------------------------------------------------
(***************************************************************************)
(* Saving it.                                                              *)
(***************************************************************************)
LinesOf(pg, d) ==
  [p \in pg.products |->
     [sold |-> pg.sheet.rider[d].sold[p], credited |-> pg.counts[d][p].credited,
      repaid |-> pg.counts[d][p].repaid]]

PostedRider(pg, d) ==
  LET r == pg.sheet.rider[d]
  IN  [lines |-> LinesOf(pg, d), override |-> r.override, remitted |-> r.remitted,
       expense |-> r.expense, deduction |-> r.deduction]

\* The commission of a driver who is not in the form, on what customers paid.
RepaymentCommission(d) ==
  Sum(OwnedBy(Recorded(Payment), d), LAMBDA e : Units[e] * rate[d][ProductOf[e]])

\* Drivers at work who are not in the form and have payments.
Unlisted(pg) ==
  {d \in ActiveRiders \ pg.riders : OwnedBy(Recorded(Payment), d) # {}}

\* Mutant: whoever collected a payment gets a row.
RiderRowsOfCarers(pg) ==
  [d \in pg.riders \cup {CareOf[e] : e \in Recorded(Payment)} |->
     IF d \in pg.riders THEN RiderRow(PostedRider(pg, d), price, rate[d])
                        ELSE LightRow(0)]

RiderRows(pg) ==
  [d \in pg.riders \cup Unlisted(pg) |->
     IF d \in pg.riders THEN RiderRow(PostedRider(pg, d), price, rate[d])
                        ELSE LightRow(RepaymentCommission(d))]

\* A staff member who left since is skipped.
StaffRows(pg) ==
  [m \in pg.staff \cap ActiveStaff |-> StaffRow(pg.sheet.staff[m], Daily[m])]

\* _build_remittance.  The page sends no general expenses.
Build(pg, status) ==
  LET rows  == RiderRows(pg)
      staff == StaffRows(pg)
  IN  [status |-> status, rows |-> rows, staff |-> staff,
       totals |-> Totals(rows, staff, 0, pg.sheet.other,
                         Value(Recorded(Payment)), Value(Recorded(Credit)))]

\* A driver in the form who left since refuses the save.
MaySave(pg) ==
  /\ pg.open /\ ~pg.locked
  /\ saved.status # "final"
  /\ pg.riders \subseteq working

\* What a draft linked is released, and all there is is linked.
Save(status) ==
  /\ MaySave(page)
  /\ saved' = Build(page, status)
  /\ entry' = [e \in Entry |-> IF entry[e] = "none" THEN "none" ELSE "linked"]
  /\ page' \in (IF status = "draft" THEN {page, NoPage} ELSE {NoPage})
  /\ UNCHANGED <<catalogue, changes>>

Release == entry' = [e \in Entry |-> IF entry[e] = "none" THEN "none" ELSE "free"]

\* clearDraft, before the CheckDate that follows it
ClearDraft ==
  /\ page.open /\ ~page.locked
  /\ saved.status # "final"
  /\ saved' = NoRemittance
  /\ Release
  /\ page' = [page EXCEPT !.sheet = Reset(page.sheet), !.pending = None,
                !.counts = [d \in Driver |-> [p \in Product |->
                              [credited |-> 0, repaid |-> 0]]]]
  /\ UNCHANGED <<catalogue, changes>>

\* finalize_remittance, from the history page
FinalizeDraft ==
  /\ saved.status = "draft"
  /\ saved' = [saved EXCEPT !.status = "final"]
  /\ UNCHANGED <<catalogue, entry, page, changes>>

-----------------------------------------------------------------------------
(***************************************************************************)
(* What others do in the meantime.                                         *)
(***************************************************************************)
RecordEntry(e) ==
  /\ entry[e] = "none"
  /\ entry' = [entry EXCEPT ![e] = "free"]
  /\ UNCHANGED <<catalogue, page, saved>>

\* A linked payment cannot be deleted; a credit line can.
DeleteEntry(e) ==
  /\ entry[e] # "none"
  /\ e \in Payment => entry[e] = "free"
  /\ entry' = [entry EXCEPT ![e] = "none"]
  /\ UNCHANGED <<catalogue, page, saved>>

\* products with a line in a stored remittance
History ==
  IF Exists THEN UNION {DOMAIN saved.rows[d].lines : d \in DOMAIN saved.rows} ELSE {}

Others ==
  /\ changes < MaxChange
  /\ changes' = changes + 1
  /\ \/ \E e \in Entry : RecordEntry(e) \/ DeleteEntry(e)
     \/ CatalogueStep(History) /\ UNCHANGED <<entry, page, saved>>

FormNext ==
  \/ OpenPage
  \/ CheckDate
  \/ LoadDraft
  \/ \E s \in Sheet : FillIn(s)
  \/ \E status \in {"draft", "final"} : Save(status)
  \/ ClearDraft
  \/ FinalizeDraft
  \/ Others

FormSpec == FormInit /\ [][FormNext]_vars

-----------------------------------------------------------------------------
(***************************************************************************)
(* The script's own arithmetic: what the operator reviews before saving.   *)
(***************************************************************************)
PreviewLines(d) ==
  [p \in page.products |->
     LET l == LinesOf(page, d)[p]
     IN  [gross |-> l.sold * page.price[p], subtotal |-> Paid(l) * page.price[p],
          commission |-> Paid(l) * page.rate[d][p]]]

PreviewCommission(d) ==
  LET r     == page.sheet.rider[d]
      lines == PreviewLines(d)
      gross == IF r.override # None THEN r.override
                                    ELSE SumOver(lines, LAMBDA l : l.commission)
      net   == AtLeastZero(SumOver(lines, LAMBDA l : l.subtotal) - r.expense)
  IN  gross - AtLeastZero(net - Given(r.remitted)) - r.deduction

\* Staff are shown what is left of their pay.
PreviewSalary(m) ==
  LET s == page.sheet.staff[m]
  IN  AtLeastZero((IF s.override # None THEN s.override ELSE Daily[m]) - s.deduction)

Preview ==
  LET commission == Sum(page.riders, LAMBDA d : AtLeastZero(PreviewCommission(d)))
      salary     == Sum(page.staff, PreviewSalary)
      remitted   == Sum(page.riders, LAMBDA d : Given(page.sheet.rider[d].remitted))
  IN  [sales      |-> Sum(page.riders,
                          LAMBDA d : SumOver(PreviewLines(d), LAMBDA l : l.gross))
                        + page.sheet.other,
       commission |-> commission,
       salary     |-> salary,
       expenses   |-> Sum(page.riders, LAMBDA d : page.sheet.rider[d].expense)
                        + Sum(page.staff, LAMBDA m : page.sheet.staff[m].expense),
       repayments |-> page.repayments,
       net        |-> remitted + page.sheet.other - salary - commission]

-----------------------------------------------------------------------------
FormTypeOK ==
  /\ CatalogueTypeOK
  /\ entry \in [Entry -> {"none", "free", "linked"}]
  /\ saved.status \in {"none", "draft", "final"}
  /\ Exists => /\ DOMAIN saved.rows \subseteq Driver
               /\ DOMAIN saved.staff \subseteq Member
  /\ page.open => page.counts \in [Driver -> [Product -> [credited : Nat, repaid : Nat]]]
  /\ changes \in 0..MaxChange

\* The page shows everything as it is now: who works, what is sold, at which
\* prices and rates, and the credit of the date.
PageIsLive ==
  /\ page.open
  /\ page.products = OnSale /\ page.price = price /\ page.rate = rate
  /\ page.riders = ActiveRiders /\ page.staff = ActiveStaff
  /\ page.counts = LiveCounts /\ page.repayments = Value(Open(Payment))

\* A save of a page that is up to date.  (FinalizeDraft leaves the page open.)
SaveOfLivePage ==
  /\ saved' # saved
  /\ \/ saved'.status = "draft"
     \/ saved'.status = "final" /\ ~page'.open
  /\ MaySave(page) /\ PageIsLive

\* What the operator reviewed is what is stored.  The page computes in the
\* browser what _build_remittance computes again from the database, and when
\* the page is up to date both arrive at the same totals.  They differ in one
\* thing only: the review pays staff what is left after deductions, while the
\* stored remittance is charged with the whole salary.
ReviewedIsSaved ==
  [][SaveOfLivePage =>
       LET shown  == Preview
           stored == saved'.totals
       IN  /\ stored.sales = shown.sales
           /\ stored.commission = shown.commission
           /\ stored.expenses = shown.expenses
           /\ stored.repayments = shown.repayments
           /\ stored.net + stored.salary = shown.net + shown.salary]_vars

\* Units a driver's customers paid back, and those the row of the driver is
\* paid for.
RepaidUnits(d, p) == UnitsOn(OwnedBy(Recorded(Payment), d), p)

PaidFor(row, d, p) ==
  IF p \in DOMAIN row.lines
    THEN row.lines[p].commission =
           rate[d][p] * AtLeastZero(row.lines[p].sold - row.lines[p].credited
                                      + RepaidUnits(d, p))
    ELSE rate[d][p] * AtLeastZero(RepaidUnits(d, p) -
                                    UnitsOn(OwnedBy(Recorded(Credit), d), p)) = 0

\* Each payment a save links earns its driver the commission of its units: by a
\* line of the form when the driver is listed and the product sold, and once
\* only.
RepaymentsEarnOnce ==
  [][SaveOfLivePage =>
       \A d \in ActiveRiders, p \in OnSale : PaidFor(saved'.rows[d], d, p)]_vars

\* A draft that is opened again and saved again stays what it was, when nothing
\* has changed: the page restores from the rows, the linked payments and the
\* columns of the draft all that its save put there.
Reopened(draft) == Apply(FreshPage, StateOf(draft, Recorded(Payment)))
DraftRoundTrip ==
  [][SaveOfLivePage /\ saved'.status = "draft" =>
       LET again == Reopened(saved') IN Build(again, "draft") = saved']_vars
=============================================================================
