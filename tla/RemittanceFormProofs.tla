------------------------ MODULE RemittanceFormProofs ------------------------
(***************************************************************************)
(* Proofs about the remittance form, the totals it stores and the pages    *)
(* that show them: for any number of drivers, staff, products, entries and *)
(* changes, and whatever was typed in.                                     *)
(***************************************************************************)
EXTENDS RemittanceReports, Sums, TLAPS

USE CatalogueAssumption, FormAssumption

-----------------------------------------------------------------------------
(* What the rows, the page and a stored remittance consist of. *)

LineOK(l) ==
  /\ l.sold \in Nat /\ l.credited \in Nat /\ l.price \in Nat /\ l.rate \in Nat
  /\ l.payable \in Nat /\ l.credit \in Nat /\ l.commission \in Nat
LinesOK(f) == DOMAIN f \subseteq Product /\ \A p \in DOMAIN f : LineOK(f[p])
RowOK(r) ==
  /\ LinesOK(r.lines) /\ r.payable \in Nat /\ r.commission \in Nat
  /\ r.override \in MaybeNat /\ r.remitted \in MaybeNat
  /\ r.expense \in Nat /\ r.deduction \in Nat
RowsOK(rows) == DOMAIN rows \subseteq Driver /\ \A d \in DOMAIN rows : RowOK(rows[d])
StaffOK(staff) ==
  /\ DOMAIN staff \subseteq Member
  /\ \A m \in DOMAIN staff :
       /\ staff[m].salary \in Nat /\ staff[m].override \in MaybeNat
       /\ staff[m].deduction \in Nat /\ staff[m].expense \in Nat
StateOK(st) ==
  /\ RowsOK(st.rows) /\ StaffOK(st.staff) /\ st.other \in Nat
  /\ st.repaid \in [Driver -> SUBSET Payment]

CountsType == [Driver -> [Product -> [credited : Nat, repaid : Nat]]]
PageField == {"open", "locked", "pending", "products", "riders", "staff", "price", "rate",
              "counts", "repayments", "sheet"}
PageOK(pg) ==
  /\ DOMAIN pg = PageField
  /\ pg.open = TRUE /\ pg.locked \in BOOLEAN
  /\ pg.products \subseteq Product /\ pg.riders \subseteq Driver /\ pg.staff \subseteq Member
  /\ pg.price \in [Product -> Nat] /\ pg.rate \in [Driver -> [Product -> Nat]]
  /\ pg.counts \in CountsType /\ pg.repayments \in Nat /\ pg.sheet \in SheetType
  /\ pg.pending # None => StateOK(pg.pending)

EntryOK == entry \in [Entry -> {"none", "free", "linked"}]

\* What is saved is what its rows add up to, the payments it linked are still
\* those it counted, and it counted the credit lines it linked.
SavedOK ==
  /\ DOMAIN saved = {"status", "rows", "staff", "totals"}
  /\ RowsOK(saved.rows) /\ StaffOK(saved.staff)
  /\ saved.totals.other \in Nat
  /\ saved.totals.repayments = Value(Linked(Payment))
  /\ \E onCredit \in Nat :
       /\ onCredit >= Value(Linked(Credit))
       /\ saved.totals = Totals(saved.rows, saved.staff, 0, saved.totals.other,
                                saved.totals.repayments, onCredit)

FInv ==
  /\ CatalogueTypeOK /\ EntryOK /\ changes \in 0..MaxChange
  /\ saved.status \in {"none", "draft", "final"}
  /\ page = NoPage \/ PageOK(page)
  /\ Exists => SavedOK

-----------------------------------------------------------------------------
(* The parts. *)

LEMMA NatTimes == ASSUME NEW a \in Nat, NEW b \in Nat PROVE a * b \in Nat /\ a * b = b * a
OBVIOUS

LEMMA NoLines == DOMAIN << >> = {}
OBVIOUS

LEMMA EntriesFinite == ASSUME NEW K \in SUBSET Entry PROVE IsFiniteSet(K)
BY FS_Subset

LEMMA ValueNat == ASSUME NEW K \in SUBSET Entry PROVE Value(K) \in Nat
BY EntriesFinite, SumNat DEF Value

LEMMA ValueOfPart ==
  ASSUME NEW K \in SUBSET Entry, NEW L \in SUBSET K PROVE Value(L) <= Value(K)
BY EntriesFinite, SumPartAtMost DEF Value

LEMMA UnitsNat == ASSUME NEW K \in SUBSET Entry, NEW p PROVE UnitsOn(K, p) \in Nat
<1>1. {e \in K : ProductOf[e] = p} \in SUBSET Entry
  OBVIOUS
<1> QED
  BY <1>1, EntriesFinite, SumNat DEF UnitsOn

LEMMA UnitsOfPart ==
  ASSUME NEW K \in SUBSET Entry, NEW L \in SUBSET K, NEW p
  PROVE  UnitsOn(L, p) <= UnitsOn(K, p)
<1>1. /\ {e \in K : ProductOf[e] = p} \in SUBSET Entry
      /\ {e \in L : ProductOf[e] = p} \in SUBSET {e \in K : ProductOf[e] = p}
  OBVIOUS
<1> QED
  BY <1>1, EntriesFinite, SumPartAtMost DEF UnitsOn

\* The sets of entries the form asks for.
LEMMA EntrySets ==
  /\ Recorded(Entry) \subseteq Entry
  /\ Recorded(Credit) \subseteq Credit /\ Recorded(Payment) \subseteq Payment
  /\ Linked(Credit) \subseteq Recorded(Credit) /\ Linked(Payment) \subseteq Recorded(Payment)
  /\ Open(Credit) \subseteq Recorded(Credit) /\ Open(Payment) \subseteq Recorded(Payment)
  /\ Credit \subseteq Entry /\ Payment \subseteq Entry
  /\ \A K, u : OwnedBy(K, u) \subseteq K
BY DEF Recorded, Linked, Open, OwnedBy, Entry

LEMMA LiveCountsOK == LiveCounts \in CountsType
<1>1. ASSUME NEW d \in Driver, NEW p \in Product
      PROVE  /\ UnitsOn(OwnedBy(Recorded(Credit), d), p) \in Nat
             /\ UnitsOn(OwnedBy(Open(Payment), d), p) \in Nat
  <2>1. OwnedBy(Recorded(Credit), d) \subseteq Entry /\ OwnedBy(Open(Payment), d) \subseteq Entry
    BY EntrySets
  <2> QED
    BY <2>1, UnitsNat
<1> QED
  BY <1>1 DEF LiveCounts, CountsType

LEMMA CountsFromOK ==
  ASSUME NEW st, StateOK(st), NEW counts \in CountsType
  PROVE  CountsFrom(st, counts) \in CountsType
<1> DEFINE lines(d) == IF d \in DOMAIN st.rows THEN st.rows[d].lines ELSE << >>
           paid(d, p) == {e \in st.repaid[d] : ProductOf[e] = p}
           credited(d, p) == IF p \in DOMAIN lines(d) THEN lines(d)[p].credited
                             ELSE IF lines(d) # << >> THEN 0 ELSE counts[d][p].credited
           repaid(d, p) == IF paid(d, p) # {} THEN UnitsOn(paid(d, p), p)
                           ELSE IF lines(d) # << >> THEN 0 ELSE counts[d][p].repaid
<1>1. ASSUME NEW d \in Driver, NEW p \in Product PROVE credited(d, p) \in Nat
  <2>1. p \in DOMAIN lines(d) => lines(d)[p].credited \in Nat
    BY NoLines DEF StateOK, RowsOK, RowOK, LinesOK, LineOK
  <2>2. counts[d][p].credited \in Nat
    BY DEF CountsType
  <2> HIDE DEF lines
  <2> QED
    BY <2>1, <2>2
<1>2. ASSUME NEW d \in Driver, NEW p \in Product PROVE repaid(d, p) \in Nat
  <2>1. paid(d, p) \in SUBSET Entry
    BY EntrySets DEF StateOK
  <2>2. counts[d][p].repaid \in Nat
    BY DEF CountsType
  <2>3. UnitsOn(paid(d, p), p) \in Nat
    BY <2>1, UnitsNat
  <2> HIDE DEF lines, paid
  <2> QED
    BY <2>2, <2>3
<1>3. CountsFrom(st, counts) = [d \in Driver |-> [p \in Product |->
                                  [credited |-> credited(d, p), repaid |-> repaid(d, p)]]]
  BY Zenon DEF CountsFrom
<1> HIDE DEF credited, repaid
<1> QED
  BY <1>1, <1>2, <1>3 DEF CountsType

LEMMA LightRowOK == ASSUME NEW n \in Nat PROVE RowOK(LightRow(n))
BY NoLines DEF LightRow, RowOK, LinesOK, MaybeNat

LEMMA EmptyOK == Empty \in SheetType
BY DEF Empty, SheetType, MaybeNat

LEMMA ResetOK == ASSUME NEW s \in SheetType PROVE Reset(s) \in SheetType
BY DEF Reset, Empty, SheetType, MaybeNat

LEMMA SheetFromOK ==
  ASSUME NEW st, StateOK(st), NEW s \in SheetType
  PROVE  SheetFrom(st, s) \in SheetType
<1> DEFINE row(d) == IF d \in DOMAIN st.rows THEN st.rows[d] ELSE LightRow(0)
           sold(d) == [p \in Product |-> IF p \in DOMAIN row(d).lines THEN row(d).lines[p].sold
                                                                     ELSE s.rider[d].sold[p]]
           rider(d) == [sold |-> sold(d), override |-> row(d).override,
                        remitted |-> row(d).remitted, expense |-> row(d).expense,
                        deduction |-> row(d).deduction]
           member(m) == IF m \in DOMAIN st.staff
                        THEN [override |-> st.staff[m].override,
                              deduction |-> st.staff[m].deduction,
                              expense |-> st.staff[m].expense]
                        ELSE Empty.staff[m]
<1>1. ASSUME NEW d \in Driver PROVE RowOK(row(d))
  BY LightRowOK DEF StateOK, RowsOK
<1>2. ASSUME NEW d \in Driver PROVE sold(d) \in [Product -> Nat]
  <2>1. RowOK(row(d)) /\ s.rider[d].sold \in [Product -> Nat]
    BY <1>1 DEF SheetType
  <2> HIDE DEF row
  <2> QED
    BY <2>1 DEF RowOK, LinesOK, LineOK
<1>3. ASSUME NEW d \in Driver
      PROVE  rider(d) \in [sold : [Product -> Nat], override : MaybeNat, remitted : MaybeNat,
                           expense : Nat, deduction : Nat]
  <2> HIDE DEF row, sold
  <2> QED
    BY <1>1, <1>2 DEF RowOK
<1>4. ASSUME NEW m \in Member
      PROVE  member(m) \in [override : MaybeNat, deduction : Nat, expense : Nat]
  BY DEF StateOK, StaffOK, Empty, MaybeNat
<1>5. st.other \in Nat
  BY DEF StateOK
<1>6. SheetFrom(st, s) = [rider |-> [d \in Driver |-> rider(d)],
                          staff |-> [m \in Member |-> member(m)], other |-> st.other]
  BY Zenon DEF SheetFrom
<1> HIDE DEF rider, member
<1> QED
  BY <1>3, <1>4, <1>5, <1>6 DEF SheetType

\* A sum of amounts that are not negative is not negative.
LEMMA SumOfNat ==
  ASSUME NEW S, IsFiniteSet(S), NEW f, \A x \in S : f[x] \in Nat
  PROVE  SumFunctionOnSet(f, S) \in Nat
BY SumNat

PostedOK(r) ==
  /\ DOMAIN r.lines \subseteq Product
  /\ \A p \in DOMAIN r.lines : /\ r.lines[p].sold \in Nat /\ r.lines[p].credited \in Nat
                               /\ r.lines[p].repaid \in Nat
  /\ r.override \in MaybeNat /\ r.remitted \in MaybeNat
  /\ r.expense \in Nat /\ r.deduction \in Nat

LEMMA ProductLineOK ==
  ASSUME NEW l, l.sold \in Nat, l.credited \in Nat, l.repaid \in Nat,
         NEW pr \in Nat, NEW rt \in Nat
  PROVE  Paid(l) \in Nat /\ LineOK(ProductLine(l, pr, rt))
<1>1. Paid(l) \in Nat
  BY DEF Paid, AtLeastZero
<1>2. Paid(l) * pr \in Nat /\ Paid(l) * rt \in Nat /\ l.credited * pr \in Nat
  BY <1>1, NatTimes
<1> HIDE DEF Paid
<1> QED
  BY <1>1, <1>2 DEF ProductLine, LineOK

\* The lines kept, and what they add up to.
LEMMA RiderRowOK ==
  ASSUME NEW r, PostedOK(r), NEW pr \in [Product -> Nat], NEW rt \in [Product -> Nat]
  PROVE  RowOK(RiderRow(r, pr, rt))
<1> DEFINE kept == ProductLines(r.lines, pr, rt)
<1>1. LinesOK(kept)
  BY ProductLineOK DEF ProductLines, LinesOK, PostedOK
<1>2. IsFiniteSet(DOMAIN kept)
  BY <1>1, FS_Subset DEF LinesOK
<1> HIDE DEF kept
<1>3. /\ SumOver(kept, LAMBDA l : l.payable) \in Nat
      /\ SumOver(kept, LAMBDA l : l.commission) \in Nat
  BY <1>1, <1>2, SumOfNat DEF LinesOK, LineOK, SumOver, Sum
<1>4. (IF r.override = None THEN SumOver(kept, LAMBDA l : l.commission) ELSE r.override) \in Nat
  BY <1>3 DEF PostedOK, MaybeNat
<1> QED
  BY <1>1, <1>3, <1>4 DEF RiderRow, kept, RowOK, PostedOK

LEMMA PostedRiderOK ==
  ASSUME NEW pg, PageOK(pg), NEW d \in pg.riders
  PROVE  PostedOK(PostedRider(pg, d))
<1> DEFINE r == pg.sheet.rider[d]
<1>1. d \in Driver /\ pg.products \subseteq Product
  BY DEF PageOK
<1>2. /\ r.sold \in [Product -> Nat] /\ r.override \in MaybeNat /\ r.remitted \in MaybeNat
      /\ r.expense \in Nat /\ r.deduction \in Nat
  BY <1>1 DEF PageOK, SheetType
<1>3. \A p \in pg.products : pg.counts[d][p].credited \in Nat /\ pg.counts[d][p].repaid \in Nat
  BY <1>1 DEF PageOK, CountsType
<1>4. PostedRider(pg, d) = [lines |-> LinesOf(pg, d), override |-> r.override,
                            remitted |-> r.remitted, expense |-> r.expense,
                            deduction |-> r.deduction]
  BY DEF PostedRider
<1>5. LinesOf(pg, d) = [p \in pg.products |-> [sold |-> r.sold[p],
        credited |-> pg.counts[d][p].credited, repaid |-> pg.counts[d][p].repaid]]
  BY DEF LinesOf
<1> HIDE DEF r
<1> QED
  BY <1>1, <1>2, <1>3, <1>4, <1>5 DEF PostedOK

LEMMA PricesAndRates ==
  ASSUME CatalogueTypeOK
  PROVE  price \in [Product -> Nat] /\ rate \in [Driver -> [Product -> Nat]]
<1>1. price \in [Product -> Price] /\ rate \in [Driver -> [Product -> Rate]]
  BY DEF CatalogueTypeOK
<1>2. ASSUME NEW d \in Driver PROVE rate[d] \in [Product -> Nat]
  <2>1. rate[d] \in [Product -> Rate]
    BY <1>1
  <2>2. \A n \in Rate : n \in Nat
    OBVIOUS
  <2> QED
    BY <2>1, <2>2
<1> QED
  BY <1>1, <1>2

LEMMA RepaymentCommissionNat ==
  ASSUME CatalogueTypeOK, NEW d \in Driver
  PROVE  RepaymentCommission(d) \in Nat
<1> DEFINE K == OwnedBy(Recorded(Payment), d)
           f == [e \in K |-> Units[e] * rate[d][ProductOf[e]]]
<1>1. K \in SUBSET Entry
  BY EntrySets
<1>2. ASSUME NEW e \in K PROVE f[e] \in Nat
  <2>1. e \in Entry /\ Units[e] \in Nat /\ ProductOf[e] \in Product
    BY <1>1
  <2>2. rate[d][ProductOf[e]] \in Nat
    BY <2>1, PricesAndRates
  <2> QED
    BY <2>1, <2>2, NatTimes
<1>3. RepaymentCommission(d) = SumFunctionOnSet(f, K)
  BY DEF RepaymentCommission, Sum
<1> HIDE DEF f, K
<1> QED
  BY <1>1, <1>2, <1>3, EntriesFinite, SumNat

LEMMA RiderRowsOK ==
  ASSUME CatalogueTypeOK, NEW pg, PageOK(pg)
  PROVE  RowsOK(RiderRows(pg))
<1>1. pg.riders \subseteq Driver /\ Unlisted(pg) \subseteq Driver
  BY DEF PageOK, Unlisted, ActiveRiders
<1>2. ASSUME NEW d \in pg.riders PROVE RowOK(RiderRow(PostedRider(pg, d), price, rate[d]))
  <2>1. price \in [Product -> Nat] /\ rate[d] \in [Product -> Nat]
    BY <1>1, PricesAndRates
  <2> QED
    BY <2>1, PostedRiderOK, RiderRowOK
<1>3. ASSUME NEW d \in Unlisted(pg) PROVE RowOK(LightRow(RepaymentCommission(d)))
  BY <1>1, RepaymentCommissionNat, LightRowOK
<1> QED
  BY <1>1, <1>2, <1>3 DEF RiderRows, RowsOK

LEMMA StaffRowsOK ==
  ASSUME NEW pg, PageOK(pg)
  PROVE  StaffOK(StaffRows(pg))
<1>1. pg.staff \subseteq Member
  BY DEF PageOK
<1>2. ASSUME NEW m \in Member
      PROVE  LET r == StaffRow(pg.sheet.staff[m], Daily[m])
             IN  /\ r.salary \in Nat /\ r.override \in MaybeNat
                 /\ r.deduction \in Nat /\ r.expense \in Nat
  <2> DEFINE s == pg.sheet.staff[m]
  <2>1. s \in [override : MaybeNat, deduction : Nat, expense : Nat] /\ Daily[m] \in Nat
    BY DEF PageOK, SheetType
  <2> HIDE DEF s
  <2>2. LET r == StaffRow(s, Daily[m])
        IN  /\ r.salary \in Nat /\ r.override \in MaybeNat
            /\ r.deduction \in Nat /\ r.expense \in Nat
    BY <2>1 DEF StaffRow, MaybeNat
  <2> QED
    BY <2>2 DEF s
<1> QED
  BY <1>1, <1>2 DEF StaffRows, StaffOK

-----------------------------------------------------------------------------
(* The steps. *)

\* The pages the steps make of a page.
LEMMA PageChanges ==
  ASSUME NEW pg, PageOK(pg)
  PROVE  /\ \A s \in SheetType : PageOK([pg EXCEPT !.sheet = s])
         /\ \A c \in CountsType : PageOK([pg EXCEPT !.counts = c])
         /\ \A n \in Nat : PageOK([pg EXCEPT !.repayments = n])
         /\ \A b \in BOOLEAN : PageOK([pg EXCEPT !.locked = b])
         /\ \A st : (st # None => StateOK(st)) => PageOK([pg EXCEPT !.pending = st])
<1>1. ASSUME NEW s \in SheetType PROVE PageOK([pg EXCEPT !.sheet = s])
  BY DEF PageOK, PageField
<1>2. ASSUME NEW c \in CountsType PROVE PageOK([pg EXCEPT !.counts = c])
  BY DEF PageOK, PageField
<1>3. ASSUME NEW n \in Nat PROVE PageOK([pg EXCEPT !.repayments = n])
  BY DEF PageOK, PageField
<1>4. ASSUME NEW b \in BOOLEAN PROVE PageOK([pg EXCEPT !.locked = b])
  BY DEF PageOK, PageField
<1>5. ASSUME NEW st, st # None => StateOK(st) PROVE PageOK([pg EXCEPT !.pending = st])
  BY <1>5 DEF PageOK, PageField
<1> QED
  BY <1>1, <1>2, <1>3, <1>4, <1>5

LEMMA ApplyOK ==
  ASSUME NEW pg, PageOK(pg), NEW st, StateOK(st)
  PROVE  PageOK(Apply(pg, st))
<1>1. CountsFrom(st, pg.counts) \in CountsType /\ SheetFrom(st, pg.sheet) \in SheetType
  BY CountsFromOK, SheetFromOK DEF PageOK
<1>2. PageOK([pg EXCEPT !.counts = CountsFrom(st, pg.counts)])
  BY <1>1, PageChanges
<1> DEFINE q == [pg EXCEPT !.counts = CountsFrom(st, pg.counts)]
<1>3. Apply(pg, st) = [q EXCEPT !.sheet = SheetFrom(st, pg.sheet)]
  BY DEF Apply
<1>4. PageOK(q)
  BY <1>2
<1> HIDE DEF q
<1> QED
  BY <1>1, <1>3, <1>4, PageChanges

LEMMA SavedStateOK == ASSUME SavedOK PROVE StateOK(SavedState)
<1>1. \A d \in Driver : OwnedBy(Linked(Payment), d) \subseteq Payment
  BY EntrySets
<1> QED
  BY <1>1 DEF SavedOK, SavedState, StateOf, StateOK

LEMMA FreshPageOK == ASSUME CatalogueTypeOK PROVE PageOK(FreshPage)
<1>1. Value(Open(Payment)) \in Nat
  BY EntrySets, ValueNat
<1>2. price \in [Product -> Nat] /\ rate \in [Driver -> [Product -> Nat]]
  BY PricesAndRates
<1>3. OnSale \subseteq Product /\ ActiveRiders \subseteq Driver /\ ActiveStaff \subseteq Member
  BY DEF OnSale, ActiveRiders, ActiveStaff
<1> QED
  BY <1>1, <1>2, <1>3, LiveCountsOK, EmptyOK DEF FreshPage, PageOK, PageField

LEMMA CheckedOK ==
  ASSUME FInv, PageOK(page) PROVE PageOK(Checked)
<1> DEFINE clean == [page EXCEPT !.sheet = Reset(page.sheet)]
           live(pg, pending) == [pg EXCEPT !.pending = pending, !.counts = LiveCounts,
                                           !.repayments = Value(Open(Payment))]
<1>1. PageOK(clean)
  BY ResetOK, PageChanges DEF PageOK
<1>2. ASSUME NEW pg, PageOK(pg), NEW st, st # None => StateOK(st) PROVE PageOK(live(pg, st))
  <2>1. Value(Open(Payment)) \in Nat
    BY EntrySets, ValueNat
  <2> QED
    BY <1>2, <2>1, LiveCountsOK DEF PageOK, PageField
<1>3. CASE saved.status = "final"
  <2> DEFINE q == Apply(page, SavedState)
  <2>1. StateOK(SavedState)
    BY <1>3, SavedStateOK DEF FInv, Exists
  <2>2. PageOK(q)
    BY <2>1, ApplyOK
  <2>3. Checked = [q EXCEPT !.locked = TRUE, !.pending = None]
    BY <1>3 DEF Checked
  <2> HIDE DEF q
  <2> QED
    BY <2>2, <2>3 DEF PageOK, PageField
<1>4. CASE saved.status = "draft"
  <2> DEFINE q == Apply(clean, SavedState)
  <2>1. StateOK(SavedState)
    BY <1>4, SavedStateOK DEF FInv, Exists
  <2> HIDE DEF clean
  <2>2. PageOK(q)
    BY <1>1, <2>1, ApplyOK
  <2>3. Checked = live(q, SavedState)
    BY <1>4 DEF Checked, clean
  <2> HIDE DEF q, live
  <2> QED
    BY <1>2, <2>1, <2>2, <2>3
<1>5. CASE saved.status = "none"
  <2>1. Checked = live(clean, None)
    BY <1>5 DEF Checked
  <2> HIDE DEF clean, live
  <2> QED
    BY <1>1, <1>2, <2>1
<1> QED
  BY <1>3, <1>4, <1>5 DEF FInv

\* A remittance stays what it is while its links stay, or only lose credit lines.
LEMMA SavedKept ==
  ASSUME SavedOK, EntryOK', DOMAIN saved' = DOMAIN saved,
         saved'.rows = saved.rows, saved'.staff = saved.staff, saved'.totals = saved.totals,
         Linked(Payment)' = Linked(Payment), Linked(Credit)' \subseteq Linked(Credit)
  PROVE  SavedOK'
<1>1. Linked(Credit) \subseteq Entry
  BY EntrySets
<1>2. Value(Linked(Credit)') <= Value(Linked(Credit))
  BY <1>1, ValueOfPart
<1>3. Value(Linked(Credit)') \in Nat /\ Value(Linked(Credit)) \in Nat
  BY <1>1, ValueNat
<1>4. PICK n \in Nat : /\ n >= Value(Linked(Credit))
                       /\ saved.totals = Totals(saved.rows, saved.staff, 0, saved.totals.other,
                                                saved.totals.repayments, n)
  BY DEF SavedOK
<1>5. n >= Value(Linked(Credit)')
  BY <1>2, <1>3, <1>4
<1>6. Value(Linked(Credit))' = Value(Linked(Credit)') /\ Value(Linked(Payment))' = Value(Linked(Payment)')
  BY DEF Value
<1>7. saved'.totals.repayments = Value(Linked(Payment))'
  BY <1>6 DEF SavedOK
<1>8. saved'.totals = Totals(saved'.rows, saved'.staff, 0, saved'.totals.other,
                             saved'.totals.repayments, n)
  BY <1>4
<1> HIDE DEF Value
<1> QED
  BY <1>5, <1>6, <1>7, <1>8 DEF SavedOK

\* What a save stores.
LEMMA BuildOK ==
  ASSUME CatalogueTypeOK, NEW pg, PageOK(pg), NEW status
  PROVE  LET b == Build(pg, status)
         IN  /\ DOMAIN b = {"status", "rows", "staff", "totals"} /\ b.status = status
             /\ b.rows = RiderRows(pg) /\ b.staff = StaffRows(pg)
             /\ RowsOK(b.rows) /\ StaffOK(b.staff)
             /\ b.totals.other = pg.sheet.other /\ pg.sheet.other \in Nat
             /\ b.totals.repayments = Value(Recorded(Payment))
             /\ b.totals = Totals(b.rows, b.staff, 0, b.totals.other, b.totals.repayments,
                                  Value(Recorded(Credit)))
<1> DEFINE b == Build(pg, status)
           t == Totals(RiderRows(pg), StaffRows(pg), 0, pg.sheet.other,
                       Value(Recorded(Payment)), Value(Recorded(Credit)))
<1>1. b = [status |-> status, rows |-> RiderRows(pg), staff |-> StaffRows(pg), totals |-> t]
  BY DEF Build
<1>2. t.other = pg.sheet.other /\ t.repayments = Value(Recorded(Payment))
  BY DEF Totals
<1>3. pg.sheet.other \in Nat
  BY DEF PageOK, SheetType
<1> HIDE DEF t, b
<1>4. b.totals = t
  BY <1>1
<1>5. b.totals = Totals(b.rows, b.staff, 0, b.totals.other, b.totals.repayments,
                        Value(Recorded(Credit)))
  BY <1>1, <1>2 DEF t
<1> QED
  BY <1>1, <1>2, <1>3, <1>4, <1>5, RiderRowsOK, StaffRowsOK DEF b

LEMMA InitFInv == FormInit => FInv
<1> SUFFICES ASSUME FormInit PROVE FInv
  OBVIOUS
<1>1. CatalogueTypeOK
  BY DEF FormInit, CatalogueInit, CatalogueTypeOK
<1>2. EntryOK /\ changes \in 0..MaxChange /\ saved.status = "none" /\ page = NoPage
  BY DEF FormInit, EntryOK, NoRemittance
<1> QED
  BY <1>1, <1>2 DEF FInv, Exists

\* The catalogue keeps its types.
LEMMA CatalogueKept ==
  ASSUME CatalogueTypeOK, NEW H, CatalogueStep(H)
  PROVE  CatalogueTypeOK'
<1>1. ASSUME NEW p \in Product, NEW n \in Price, UpdateProduct(p, n) PROVE CatalogueTypeOK'
  BY <1>1 DEF UpdateProduct, CatalogueTypeOK
<1>2. ASSUME NEW p \in Product, ActivateProduct(p) \/ DeactivateProduct(p) \/ DeleteProduct(p, H)
      PROVE  CatalogueTypeOK'
  BY <1>2 DEF ActivateProduct, DeactivateProduct, DeleteProduct, CatalogueTypeOK
<1>3. ASSUME NEW cells, NEW n \in Rate, SaveCommissions(cells, n) PROVE CatalogueTypeOK'
  <2>1. rate' = [d \in Driver |-> [p \in Product |-> IF <<d, p>> \in cells THEN n ELSE rate[d][p]]]
    BY <1>3 DEF SaveCommissions
  <2>2. \A d \in Driver, p \in Product : rate[d][p] \in Rate
    BY DEF CatalogueTypeOK
  <2>3. rate' \in [Driver -> [Product -> Rate]]
    BY <2>1, <2>2
  <2> QED
    BY <1>3, <2>3 DEF SaveCommissions, CatalogueTypeOK
<1>4. ASSUME NEW u \in Driver \cup Member, ToggleUser(u) PROVE CatalogueTypeOK'
  BY <1>4 DEF ToggleUser, CatalogueTypeOK
<1>5. ASSUME NEW p \in Product, NEW n \in Rate, BulkSetCommissions(p, n) PROVE CatalogueTypeOK'
  BY <1>3, <1>5 DEF BulkSetCommissions
<1> QED
  BY <1>1, <1>2, <1>3, <1>4, <1>5 DEF CatalogueStep

LEMMA StepFInv == FInv /\ [FormNext]_vars => FInv'
<1> SUFFICES ASSUME FInv, [FormNext]_vars PROVE FInv'
  OBVIOUS
<1>0. page.open => PageOK(page)
  BY DEF FInv, NoPage

\* the catalogue and the entries stay
<1>a. ASSUME UNCHANGED <<catalogue, entry>>
      PROVE  /\ CatalogueTypeOK' /\ EntryOK'
             /\ Linked(Payment)' = Linked(Payment) /\ Linked(Credit)' = Linked(Credit)
  BY <1>a DEF FInv, catalogue, CatalogueTypeOK, EntryOK, Linked

\* a step of the page
<1>b. ASSUME UNCHANGED <<catalogue, entry, saved, changes>>, page' = NoPage \/ PageOK(page')
      PROVE  FInv'
  <2>1. Exists' = Exists
    BY <1>b DEF Exists
  <2>2. Exists => SavedOK'
    BY <1>a, <1>b, SavedKept DEF FInv
  <2>3. page' = NoPage' \/ PageOK(page')
    BY <1>b DEF NoPage
  <2> QED
    BY <1>a, <1>b, <2>1, <2>2, <2>3 DEF FInv
<1>1. CASE UNCHANGED vars
  <2>1. UNCHANGED <<catalogue, entry, saved, changes>> /\ page' = page
    BY <1>1 DEF vars, catalogue
  <2> QED
    BY <1>b, <2>1 DEF FInv
<1>2. CASE OpenPage
  <2>1. PageOK(FreshPage)
    BY FreshPageOK DEF FInv
  <2>2. saved.status = "draft" => PageOK(Apply(FreshPage, SavedState))
    <3>1. saved.status = "draft" => SavedOK
      BY DEF FInv, Exists
    <3> HIDE DEF FreshPage
    <3> QED
      BY <2>1, <3>1, SavedStateOK, ApplyOK
  <2>3. UNCHANGED <<catalogue, entry, saved, changes>>
    BY <1>2 DEF OpenPage
  <2>4. page' = IF saved.status = "draft" THEN Apply(FreshPage, SavedState) ELSE FreshPage
    BY <1>2 DEF OpenPage
  <2>5. PageOK(page')
    BY <2>1, <2>2, <2>4
  <2> QED
    BY <1>b, <2>3, <2>5
<1>3. CASE CheckDate
  <2>1. page' = Checked /\ PageOK(page) /\ UNCHANGED <<catalogue, entry, saved, changes>>
    BY <1>0, <1>3 DEF CheckDate
  <2> QED
    BY <1>b, <2>1, CheckedOK
<1>4. CASE LoadDraft
  <2>1. /\ page' = Apply(page, page.pending) /\ PageOK(page) /\ page.pending # None
        /\ UNCHANGED <<catalogue, entry, saved, changes>>
    BY <1>0, <1>4 DEF LoadDraft
  <2>2. StateOK(page.pending)
    BY <2>1 DEF PageOK
  <2> QED
    BY <1>b, <2>1, <2>2, ApplyOK
<1>5. ASSUME NEW s \in Sheet, FillIn(s) PROVE FInv'
  <2>1. /\ page' = [page EXCEPT !.sheet = s] /\ PageOK(page) /\ s \in SheetType
        /\ UNCHANGED <<catalogue, entry, saved, changes>>
    BY <1>0, <1>5 DEF FillIn
  <2> QED
    BY <1>b, <2>1, PageChanges
<1>6. ASSUME NEW status \in {"draft", "final"}, Save(status) PROVE FInv'
  <2> DEFINE b == Build(page, status)
  <2>1. /\ PageOK(page) /\ saved' = b /\ UNCHANGED <<catalogue, changes>>
        /\ entry' = [e \in Entry |-> IF entry[e] = "none" THEN "none" ELSE "linked"]
        /\ page' = page \/ page' = NoPage
    BY <1>0, <1>6 DEF Save, MaySave
  <2>2. /\ EntryOK'
        /\ Linked(Payment)' = Recorded(Payment) /\ Linked(Credit)' = Recorded(Credit)
    BY <2>1, EntrySets DEF EntryOK, Linked, Recorded
  <2>3. /\ DOMAIN b = {"status", "rows", "staff", "totals"} /\ b.status = status
        /\ RowsOK(b.rows) /\ StaffOK(b.staff) /\ b.totals.other \in Nat
        /\ b.totals.repayments = Value(Recorded(Payment))
        /\ b.totals = Totals(b.rows, b.staff, 0, b.totals.other, b.totals.repayments,
                             Value(Recorded(Credit)))
    BY <2>1, BuildOK DEF FInv
  <2>4. /\ Value(Linked(Payment))' = Value(Recorded(Payment))
        /\ Value(Linked(Credit))' = Value(Recorded(Credit))
    BY <2>2 DEF Value
  <2>5. Value(Recorded(Credit)) \in Nat /\ Value(Recorded(Credit)) >= Value(Recorded(Credit))
    <3>1. Value(Recorded(Credit)) \in Nat
      BY EntrySets, ValueNat
    <3> QED
      BY <3>1
  <2> HIDE DEF b
  <2>6. SavedOK'
    BY <2>1, <2>3, <2>4, <2>5 DEF SavedOK
  <2>7. saved'.status \in {"none", "draft", "final"}
    BY <2>1, <2>3
  <2>8. CatalogueTypeOK' /\ changes' \in 0..MaxChange /\ (page' = NoPage \/ PageOK(page'))
    BY <2>1 DEF FInv, catalogue, CatalogueTypeOK
  <2>9. page' = NoPage' \/ PageOK(page)'
    BY <2>8 DEF NoPage, PageOK
  <2> QED
    BY <2>2, <2>6, <2>7, <2>8, <2>9 DEF FInv
<1>7. CASE ClearDraft
  <2> DEFINE c == [d \in Driver |-> [p \in Product |-> [credited |-> 0, repaid |-> 0]]]
             q == [page EXCEPT !.sheet = Reset(page.sheet), !.pending = None, !.counts = c]
  <2>1. /\ PageOK(page) /\ saved' = NoRemittance /\ UNCHANGED <<catalogue, changes>>
        /\ entry' = [e \in Entry |-> IF entry[e] = "none" THEN "none" ELSE "free"]
        /\ page' = q
    BY <1>0, <1>7 DEF ClearDraft, Release
  <2>2. c \in CountsType /\ Reset(page.sheet) \in SheetType
    BY <2>1, ResetOK DEF CountsType, PageOK
  <2>3. PageOK(q)
    BY <2>1, <2>2 DEF PageOK, PageField
  <2>4. EntryOK' /\ saved'.status = "none" /\ ~Exists'
    BY <2>1 DEF EntryOK, NoRemittance, Exists
  <2>5. CatalogueTypeOK' /\ changes' \in 0..MaxChange
    BY <2>1 DEF FInv, catalogue, CatalogueTypeOK
  <2> HIDE DEF q
  <2>6. PageOK(page)'
    BY <2>1, <2>3 DEF PageOK
  <2> QED
    BY <2>4, <2>5, <2>6 DEF FInv
<1>8. CASE FinalizeDraft
  <2>1. /\ saved.status = "draft" /\ saved' = [saved EXCEPT !.status = "final"]
        /\ UNCHANGED <<catalogue, entry, page, changes>>
    BY <1>8 DEF FinalizeDraft
  <2>2. SavedOK /\ EntryOK'
    BY <1>a, <2>1 DEF FInv, Exists
  <2>3. /\ DOMAIN saved' = DOMAIN saved /\ saved'.rows = saved.rows /\ saved'.staff = saved.staff
        /\ saved'.totals = saved.totals /\ saved'.status = "final"
    BY <2>1, <2>2 DEF SavedOK
  <2>4. SavedOK'
    BY <1>a, <2>1, <2>2, <2>3, SavedKept
  <2>5. page' = NoPage' \/ PageOK(page)'
    BY <2>1 DEF FInv, NoPage, PageOK
  <2> QED
    BY <1>a, <2>1, <2>3, <2>4, <2>5 DEF FInv
<1>9. CASE Others
  <2>1. changes' \in 0..MaxChange
    BY <1>9 DEF Others, FInv
  \* no step of the others touches the page or the remittance, and none changes what is linked
  \* but the deletion of a credit line
  <2>2. ASSUME UNCHANGED <<page, saved>>, CatalogueTypeOK', EntryOK',
               Linked(Payment)' = Linked(Payment), Linked(Credit)' \subseteq Linked(Credit)
        PROVE  FInv'
    <3>1. Exists' = Exists /\ (Exists => SavedOK')
      BY <2>2, SavedKept DEF Exists, FInv
    <3>2. page' = NoPage' \/ PageOK(page)'
      BY <2>2 DEF FInv, NoPage, PageOK
    <3> QED
      BY <2>1, <2>2, <3>1, <3>2 DEF FInv
  <2>3. ASSUME NEW e \in Entry, RecordEntry(e) PROVE FInv'
    <3>1. /\ entry[e] = "none" /\ entry' = [entry EXCEPT ![e] = "free"]
          /\ UNCHANGED <<catalogue, page, saved>>
      BY <2>3 DEF RecordEntry
    <3>2. EntryOK' /\ CatalogueTypeOK'
      BY <3>1 DEF FInv, EntryOK, catalogue, CatalogueTypeOK
    <3>3. Linked(Payment)' = Linked(Payment) /\ Linked(Credit)' \subseteq Linked(Credit)
      BY <3>1, EntrySets DEF Linked, FInv, EntryOK
    <3> QED
      BY <2>2, <3>1, <3>2, <3>3
  <2>4. ASSUME NEW e \in Entry, DeleteEntry(e) PROVE FInv'
    <3>1. /\ e \in Payment => entry[e] = "free"
          /\ entry' = [entry EXCEPT ![e] = "none"] /\ UNCHANGED <<catalogue, page, saved>>
      BY <2>4 DEF DeleteEntry
    <3>2. EntryOK' /\ CatalogueTypeOK'
      BY <3>1 DEF FInv, EntryOK, catalogue, CatalogueTypeOK
    <3>3. Linked(Payment)' = Linked(Payment) /\ Linked(Credit)' \subseteq Linked(Credit)
      BY <3>1, EntrySets DEF Linked, FInv, EntryOK
    <3> QED
      BY <2>2, <3>1, <3>2, <3>3
  <2>5. ASSUME CatalogueStep(History), UNCHANGED <<entry, page, saved>> PROVE FInv'
    <3>1. CatalogueTypeOK'
      BY <2>5, CatalogueKept DEF FInv
    <3>2. EntryOK' /\ Linked(Payment)' = Linked(Payment) /\ Linked(Credit)' \subseteq Linked(Credit)
      BY <2>5 DEF FInv, EntryOK, Linked
    <3> QED
      BY <2>2, <2>5, <3>1, <3>2
  <2> QED
    BY <1>9, <2>3, <2>4, <2>5 DEF Others
<1> QED
  BY <1>1, <1>2, <1>3, <1>4, <1>5, <1>6, <1>7, <1>8, <1>9 DEF FormNext

LEMMA FormInductive == FormSpec => []FInv
BY InitFInv, StepFInv, PTL DEF FormSpec

\* The page, the catalogue, the entries and the stored rows keep their types.
THEOREM FormTypes == FormSpec => []FormTypeOK
<1>1. FInv => FormTypeOK
  BY DEF FInv, EntryOK, FormTypeOK, SavedOK, RowsOK, StaffOK, PageOK, NoPage, CountsType
<1> QED
  BY <1>1, FormInductive, PTL
-----------------------------------------------------------------------------
(* The pages about a stored remittance. *)

\* Every entry of the date is on one card of the detail page and on no other,
\* whoever had it in their care: the cards are those of different people, and
\* there is one for everybody who had an entry, with a row or without.
THEOREM DetailAlwaysCoversLedger == FormSpec => []DetailCoversLedger
<1>1. ASSUME NEW e \in Shown
      PROVE  \E c \in Cards : \A b \in Cards : e \in b.shows <=> b = c
  <2> DEFINE u == CareOf[e]
             c == [of |-> u, shows |-> Cared(u)]
  <2>1. e \in Cared(u) /\ u \in Carers
    BY DEF Cared, OwnedBy, Carers
  <2>2. c \in Cards
    BY <2>1 DEF Cards, RiderCards, StaffCards, StationCards, OffDutyCards, RowOwners
  <2>3. \A b \in Cards : b = [of |-> b.of, shows |-> Cared(b.of)]
    BY DEF Cards, RiderCards, StaffCards, StationCards, OffDutyCards
  <2>4. ASSUME NEW b \in Cards, e \in b.shows PROVE b = c
    <3>1. e \in Cared(b.of)
      BY <2>3, <2>4
    <3>2. CareOf[e] = b.of
      BY <3>1 DEF Cared, OwnedBy
    <3> QED
      BY <2>3, <3>2
  <2> QED
    BY <2>1, <2>2, <2>4
<1>2. DetailCoversLedger
  BY <1>1 DEF DetailCoversLedger
<1> QED
  BY <1>2, PTL

\* The sums the columns are made of.
Commissions(rows) == SumOver(rows, NetCommission)
Remitted(rows) == SumOver(rows, LAMBDA r : Given(r.remitted))
RiderExpenses(rows) == SumOver(rows, LAMBDA r : r.expense)
GrossSales(rows) == SumOver(rows, LAMBDA r : SumOver(r.lines, LAMBDA l : l.sold * l.price))
CreditSales(rows) == SumOver(rows, LAMBDA r : SumOver(r.lines, LAMBDA l : l.credit))
Salaries(staff) == SumOver(staff, LAMBDA m : m.salary)
StaffExpenses(staff) == SumOver(staff, LAMBDA m : m.expense)

LEMMA TotalsAre ==
  ASSUME NEW rows, NEW staff, NEW other, NEW repaid, NEW onCredit,
         NEW t, t = Totals(rows, staff, 0, other, repaid, onCredit)
  PROVE  /\ t.other = other /\ t.repayments = repaid
         /\ t.sales = GrossSales(rows) + other
         /\ t.commission = Commissions(rows) /\ t.salary = Salaries(staff)
         /\ t.net = Remitted(rows) + other - Commissions(rows) - Salaries(staff)
         /\ t.expenses = RiderExpenses(rows) + StaffExpenses(staff) + 0
         /\ "credits" \in DOMAIN t
         /\ t.credits = IF CreditSales(rows) > onCredit THEN CreditSales(rows) ELSE onCredit
BY DEF Totals, Commissions, Remitted, RiderExpenses, GrossSales, CreditSales, Salaries, StaffExpenses

\* A driver is paid no more than was earned.
LEMMA NetAtMostGross ==
  ASSUME NEW r, RowOK(r) PROVE NetCommission(r) \in Nat /\ NetCommission(r) <= r.commission
<1>1. Given(r.remitted) \in Nat
  BY DEF RowOK, MaybeNat, Given
<1>2. Shortfall(r) \in Nat
  BY <1>1 DEF RowOK, Shortfall, AtLeastZero
<1> QED
  BY <1>2 DEF RowOK, NetCommission, AtLeastZero

LEMMA ColumnsNat ==
  ASSUME NEW rows, RowsOK(rows), NEW staff, StaffOK(staff)
  PROVE  /\ Commissions(rows) \in Nat /\ Remitted(rows) \in Nat /\ RiderExpenses(rows) \in Nat
         /\ GrossSales(rows) \in Nat /\ CreditSales(rows) \in Nat
         /\ Salaries(staff) \in Nat /\ StaffExpenses(staff) \in Nat
<1>1. IsFiniteSet(DOMAIN rows) /\ IsFiniteSet(DOMAIN staff)
  BY FS_Subset DEF RowsOK, StaffOK
<1>2. ASSUME NEW d \in DOMAIN rows
      PROVE  /\ Given(rows[d].remitted) \in Nat /\ rows[d].expense \in Nat
             /\ NetCommission(rows[d]) \in Nat
             /\ SumOver(rows[d].lines, LAMBDA l : l.sold * l.price) \in Nat
             /\ SumOver(rows[d].lines, LAMBDA l : l.credit) \in Nat
  <2>1. RowOK(rows[d])
    BY DEF RowsOK
  <2>2. Given(rows[d].remitted) \in Nat
    BY <2>1 DEF RowOK, MaybeNat, Given
  <2>3. NetCommission(rows[d]) \in Nat
    BY <2>1, NetAtMostGross
  <2>4. /\ IsFiniteSet(DOMAIN rows[d].lines)
        /\ \A p \in DOMAIN rows[d].lines :
             /\ rows[d].lines[p].credit \in Nat
             /\ rows[d].lines[p].sold \in Nat /\ rows[d].lines[p].price \in Nat
    BY <2>1, FS_Subset DEF RowOK, LinesOK, LineOK
  <2>5. SumOver(rows[d].lines, LAMBDA l : l.credit) \in Nat
    BY <2>4, SumOfNat DEF SumOver, Sum
  <2>6. \A p \in DOMAIN rows[d].lines : rows[d].lines[p].sold * rows[d].lines[p].price \in Nat
    BY <2>4, NatTimes
  <2>7. SumOver(rows[d].lines, LAMBDA l : l.sold * l.price) \in Nat
    BY <2>4, <2>6, SumOfNat DEF SumOver, Sum
  <2> QED
    BY <2>1, <2>2, <2>3, <2>5, <2>7 DEF RowOK
<1>3. ASSUME NEW m \in DOMAIN staff PROVE staff[m].salary \in Nat /\ staff[m].expense \in Nat
  BY DEF StaffOK
<1>4. Commissions(rows) \in Nat /\ Remitted(rows) \in Nat /\ RiderExpenses(rows) \in Nat
  BY <1>1, <1>2, SumOfNat DEF SumOver, Sum, Commissions, Remitted, RiderExpenses
<1>5. Salaries(staff) \in Nat /\ StaffExpenses(staff) \in Nat
  BY <1>1, <1>3, SumOfNat DEF SumOver, Sum, Salaries, StaffExpenses
<1>6. GrossSales(rows) \in Nat /\ CreditSales(rows) \in Nat
  <2> DEFINE gross(d) == SumOver(rows[d].lines, LAMBDA l : l.sold * l.price)
             credit(d) == SumOver(rows[d].lines, LAMBDA l : l.credit)
             f == [d \in DOMAIN rows |-> gross(d)]
             g == [d \in DOMAIN rows |-> credit(d)]
  <2>1. GrossSales(rows) = SumFunctionOnSet(f, DOMAIN rows)
    BY DEF GrossSales, SumOver, Sum
  <2>2. CreditSales(rows) = SumFunctionOnSet(g, DOMAIN rows)
    BY DEF CreditSales, SumOver, Sum
  <2>3. \A d \in DOMAIN rows : gross(d) \in Nat /\ credit(d) \in Nat
    BY <1>2
  <2> HIDE DEF gross, credit
  <2>4. \A d \in DOMAIN rows : f[d] \in Nat /\ g[d] \in Nat
    BY <2>3
  <2> HIDE DEF f, g
  <2> QED
    BY <1>1, <2>1, <2>2, <2>4, SumNat
<1> QED
  BY <1>4, <1>5, <1>6

\* The units sold, product by product and driver by driver.
LEMMA SoldNat ==
  ASSUME NEW r, RowOK(r) PROVE SumOver(r.lines, LAMBDA l : l.sold) \in Nat
<1>1. IsFiniteSet(DOMAIN r.lines) /\ \A p \in DOMAIN r.lines : r.lines[p].sold \in Nat
  BY FS_Subset DEF RowOK, LinesOK, LineOK
<1> QED
  BY <1>1, SumOfNat DEF SumOver, Sum

LEMMA TrendAddsUp ==
  ASSUME SavedOK PROVE HistoryRow(saved).containers = SumOver(Trend(saved), LAMBDA n : n)
<1> DEFINE D == DOMAIN saved.rows
           sold(d) == SumOver(saved.rows[d].lines, LAMBDA l : l.sold)
           f == [d \in D |-> sold(d)]
           g == [d \in Driver |-> Trend(saved)[d]]
<1>1. D \in SUBSET Driver /\ \A d \in D : sold(d) \in Nat
  BY SoldNat DEF SavedOK, RowsOK
<1>2. HistoryRow(saved).containers = SumFunctionOnSet(f, D)
  BY DEF HistoryRow, SumOver, Sum
<1>3. DOMAIN Trend(saved) = Driver
  BY DEF Trend
<1>4. SumOver(Trend(saved), LAMBDA n : n) = SumFunctionOnSet(g, Driver)
  BY <1>3 DEF SumOver, Sum
<1>5. /\ \A d \in D : g[d] = sold(d) /\ f[d] = sold(d)
      /\ \A d \in Driver \ D : g[d] = 0
  BY <1>1 DEF Trend
<1> HIDE DEF f, g, sold
<1>6. SumFunctionOnSet(g, Driver) = SumFunctionOnSet(g, D)
  BY <1>1, <1>5, SumOfPart
<1>7. IsFiniteSet(D) /\ \A d \in D : f[d] = g[d]
  BY <1>1, <1>5, FS_Subset
<1> HIDE DEF D
<1>8. SumFunctionOnSet(g, D) = SumFunctionOnSet(f, D)
  BY <1>7, SumSame
<1> QED
  BY <1>2, <1>4, <1>6, <1>8

\* The history row, the detail page, the panel and the trends agree about a
\* stored remittance, whatever happened to its date since it was saved.
THEOREM ReportsAlwaysAgree == FormSpec => []ReportsAgree
<1>1. ASSUME FInv, Exists PROVE ReportsAgree
  <2> DEFINE rows == saved.rows
             staff == saved.staff
             t == saved.totals
  <2>1. /\ SavedOK /\ RowsOK(rows) /\ StaffOK(staff) /\ t.other \in Nat
        /\ t.repayments = Value(Linked(Payment))
    BY <1>1 DEF FInv, SavedOK
  <2>2. PICK n \in Nat : /\ n >= Value(Linked(Credit))
                         /\ t = Totals(rows, staff, 0, t.other, t.repayments, n)
    BY <2>1 DEF SavedOK
  <2>3. /\ t.commission = Commissions(rows) /\ t.salary = Salaries(staff)
        /\ t.net = Remitted(rows) + t.other - Commissions(rows) - Salaries(staff)
        /\ t.expenses = RiderExpenses(rows) + StaffExpenses(staff) + 0
        /\ "credits" \in DOMAIN t
        /\ t.credits = IF CreditSales(rows) > n THEN CreditSales(rows) ELSE n
    <3> SUFFICES ASSUME NEW R, R = rows, NEW S, S = staff, NEW T, T = t
                 PROVE  /\ T.commission = Commissions(R) /\ T.salary = Salaries(S)
                        /\ T.net = Remitted(R) + T.other - Commissions(R) - Salaries(S)
                        /\ T.expenses = RiderExpenses(R) + StaffExpenses(S) + 0
                        /\ "credits" \in DOMAIN T
                        /\ T.credits = IF CreditSales(R) > n THEN CreditSales(R) ELSE n
      OBVIOUS
    <3>1. T = Totals(R, S, 0, T.other, T.repayments, n)
      BY <2>2
    <3> QED
      BY <3>1, TotalsAre
  <2>3a. /\ Commissions(rows) \in Nat /\ Remitted(rows) \in Nat /\ RiderExpenses(rows) \in Nat
         /\ CreditSales(rows) \in Nat /\ Salaries(staff) \in Nat /\ StaffExpenses(staff) \in Nat
    BY <2>1, ColumnsNat
  <2>4. IsFiniteSet(DOMAIN rows) /\ IsFiniteSet(DOMAIN staff)
    BY <2>1, FS_Subset DEF RowsOK, StaffOK
  <2>5. HistoryRow(saved).drivers = SumOver(rows, LAMBDA r : Given(r.remitted))
    <3>1. HistoryRow(saved).drivers = t.net - t.other + t.commission + t.salary
      BY DEF HistoryRow
    <3> HIDE DEF t
    <3>2. HistoryRow(saved).drivers = Remitted(rows)
      BY <2>1, <2>3, <2>3a, <3>1
    <3> QED
      BY <3>2 DEF Remitted
  <2>6. LET b == ExpensesBreakdown(saved) IN b.rider + b.staff = b.grand
    <3>1. t.expenses = RiderExpenses(rows) + StaffExpenses(staff)
      BY <2>3, <2>3a
    <3> QED
      BY <3>1 DEF ExpensesBreakdown, RiderExpenses, StaffExpenses
  <2>7. HistoryRow(saved).gross >= t.commission
    <3> DEFINE f == [d \in DOMAIN rows |-> NetCommission(rows[d])]
               g == [d \in DOMAIN rows |-> rows[d].commission]
    <3>1. HistoryRow(saved).gross = SumFunctionOnSet(g, DOMAIN rows)
      BY DEF HistoryRow, SumOver, Sum
    <3>2. t.commission = SumFunctionOnSet(f, DOMAIN rows)
      BY <2>3 DEF SumOver, Sum, Commissions
    <3>3. \A d \in DOMAIN rows : f[d] \in Int /\ g[d] \in Int /\ f[d] <= g[d]
      BY <2>1, NetAtMostGross DEF RowsOK, RowOK
    <3>4. \A d \in DOMAIN rows : g[d] \in Nat
      BY <2>1 DEF RowsOK, RowOK
    <3> HIDE DEF f, g, rows
    <3>5. SumFunctionOnSet(f, DOMAIN rows) <= SumFunctionOnSet(g, DOMAIN rows)
      BY <2>4, <3>3, SumAtMost
    <3>6. SumFunctionOnSet(g, DOMAIN rows) \in Nat
      BY <2>4, <3>4, SumNat
    <3> QED
      BY <2>3, <2>3a, <3>1, <3>2, <3>5, <3>6
  <2>8. HistoryRow(saved).containers = SumOver(Trend(saved), LAMBDA x : x)
    BY <2>1, TrendAddsUp
  <2>9. Panel(saved).totals.credits = EffectiveCredits(saved)
    <3> QED
      BY <2>3 DEF Panel, EffectiveCredits
  <2>10. ASSUME NEW d \in DOMAIN rows, NEW p \in DOMAIN rows[d].lines
         PROVE  Panel(saved).repaid[d][p] <= UnitsOn(Cared(d) \cap Payment, p)
    <3>1. Panel(saved).repaid[d][p] = UnitsOn(OwnedBy(Linked(Payment), d), p)
      BY DEF Panel
    <3>2. OwnedBy(Linked(Payment), d) \subseteq Cared(d) \cap Payment
      BY EntrySets DEF OwnedBy, Cared, Shown, Linked, Recorded
    <3>3. Cared(d) \cap Payment \in SUBSET Entry
      BY EntrySets
    <3> QED
      BY <3>1, <3>2, <3>3, UnitsOfPart
  <2>11. SumOver(staff, LAMBDA m : m.deduction) = t.salary - SumOver(Panel(saved).paid, LAMBDA x : x)
    <3> DEFINE M == DOMAIN staff
               paid == [m \in M |-> staff[m].salary - staff[m].deduction]
               due == [m \in M |-> staff[m].salary]
               ded == [m \in M |-> staff[m].deduction]
               shown == [m \in M |-> Panel(saved).paid[m]]
    <3>1. Panel(saved).paid = paid
      BY DEF Panel
    <3>2. DOMAIN Panel(saved).paid = M
      BY <3>1
    <3>3. /\ SumOver(Panel(saved).paid, LAMBDA x : x) = SumFunctionOnSet(shown, M)
          /\ SumOver(staff, LAMBDA m : m.deduction) = SumFunctionOnSet(ded, M)
          /\ t.salary = SumFunctionOnSet(due, M)
      BY <2>3, <3>2 DEF SumOver, Sum, Salaries
    <3>4. \A m \in M : ded[m] \in Int /\ shown[m] \in Int /\ due[m] = ded[m] + shown[m]
      BY <2>1, <3>1 DEF StaffOK
    <3> HIDE DEF paid, due, ded, shown, M, t
    <3>5. IsFiniteSet(M)
      BY <2>4 DEF M
    <3>6. SumFunctionOnSet(due, M) = SumFunctionOnSet(ded, M) + SumFunctionOnSet(shown, M)
      BY <3>4, <3>5, SumPlus
    <3>7. SumFunctionOnSet(ded, M) \in Int /\ SumFunctionOnSet(shown, M) \in Int
      BY <3>4, <3>5, SumType
    <3> QED
      BY <3>3, <3>6, <3>7
  <2>12. ASSUME Recorded(Payment) = Linked(Payment)
         PROVE  EffectiveRepayments(saved) = t.repayments
    <3>1. t.repayments = Value(Recorded(Payment))
      BY <2>1, <2>12
    <3> QED
      BY <3>1 DEF EffectiveRepayments, Larger
  <2>13. ASSUME Recorded(Credit) = Linked(Credit)
         PROVE  EffectiveCredits(saved) = t.credits
    <3>1. t.credits >= n /\ t.credits \in Int
      <4> HIDE DEF rows, t
      <4> QED
        BY <2>2, <2>3, <2>3a
    <3>2. Value(Recorded(Credit)) \in Nat /\ n >= Value(Recorded(Credit))
      BY <2>2, <2>13, EntrySets, ValueNat
    <3> HIDE DEF t
    <3>3. t.credits >= Value(Recorded(Credit))
      BY <3>1, <3>2
    <3> QED
      BY <3>1, <3>2, <3>3 DEF EffectiveCredits, Larger, t
  <2> QED
    BY <2>5, <2>6, <2>7, <2>8, <2>9, <2>10, <2>11, <2>12, <2>13 DEF ReportsAgree
<1>2. FInv => ReportsAgree
  BY <1>1 DEF ReportsAgree
<1> QED
  BY <1>2, FormInductive, PTL
-----------------------------------------------------------------------------
(* What the operator reviews, and what a save does with it. *)

\* A save of a page that is up to date stores what is built of the page, with a
\* row for each driver at work and no other.
LEMMA LiveSave ==
  ASSUME FInv, [FormNext]_vars, SaveOfLivePage
  PROVE  /\ CatalogueTypeOK /\ PageOK(page) /\ PageIsLive
         /\ saved' = Build(page, saved'.status)
         /\ saved'.rows = RiderRows(page) /\ saved'.staff = StaffRows(page)
         /\ Open(Payment) = Recorded(Payment) /\ Unlisted(page) = {}
<1>1. page.open /\ saved.status # "final" /\ saved' # saved /\ PageIsLive
  BY DEF SaveOfLivePage, MaySave
<1>2. CatalogueTypeOK /\ PageOK(page)
  BY <1>1 DEF FInv, NoPage
<1>3. PICK status \in {"draft", "final"} : Save(status)
  <2>1. ~UNCHANGED saved
    BY <1>1
  <2>2. ~OpenPage /\ ~CheckDate /\ ~LoadDraft /\ ~(\E s \in Sheet : FillIn(s))
    BY <2>1 DEF OpenPage, CheckDate, LoadDraft, FillIn
  <2>3. ~Others
    BY <2>1 DEF Others, RecordEntry, DeleteEntry
  <2>4. ~ClearDraft
    BY DEF ClearDraft, SaveOfLivePage, NoRemittance
  <2>5. ~FinalizeDraft
    <3> SUFFICES ASSUME FinalizeDraft PROVE FALSE
      OBVIOUS
    <3>1. page'.open /\ saved.status = "draft" /\ saved' = [saved EXCEPT !.status = "final"]
      BY <1>1 DEF FinalizeDraft
    <3>2. "status" \in DOMAIN saved
      BY <3>1 DEF FInv, Exists, SavedOK
    <3>3. saved'.status = "final"
      BY <3>1, <3>2
    <3> QED
      BY <3>1, <3>3 DEF SaveOfLivePage
  <2>6. ~UNCHANGED vars
    BY <2>1 DEF vars
  <2> QED
    BY <2>2, <2>3, <2>4, <2>5, <2>6 DEF FormNext
<1>4. saved' = Build(page, status)
  BY <1>3 DEF Save
<1>5. saved'.status = status /\ saved'.rows = RiderRows(page) /\ saved'.staff = StaffRows(page)
  BY <1>4 DEF Build
<1>6. Open(Payment) = Recorded(Payment)
  BY <1>1 DEF Open
<1>7. Unlisted(page) = {}
  BY <1>1 DEF Unlisted, PageIsLive
<1> QED
  BY <1>1, <1>2, <1>4, <1>5, <1>6, <1>7

\* The line of a driver and a product on such a page.
LEMMA LiveLine ==
  ASSUME CatalogueTypeOK, PageOK(page), PageIsLive, Open(Payment) = Recorded(Payment),
         NEW d \in page.riders, NEW p \in page.products
  PROVE  LET l == LinesOf(page, d)[p]
         IN  /\ l.sold = page.sheet.rider[d].sold[p] /\ l.sold \in Nat
             /\ l.credited = UnitsOn(OwnedBy(Recorded(Credit), d), p) /\ l.credited \in Nat
             /\ l.repaid = RepaidUnits(d, p) /\ l.repaid \in Nat
<1>1. d \in Driver /\ p \in Product
  BY DEF PageOK
<1>2. /\ UnitsOn(OwnedBy(Recorded(Credit), d), p) \in Nat
      /\ UnitsOn(OwnedBy(Recorded(Payment), d), p) \in Nat
  BY EntrySets, UnitsNat
<1>3. page.counts[d][p] = [credited |-> UnitsOn(OwnedBy(Recorded(Credit), d), p),
                           repaid   |-> UnitsOn(OwnedBy(Recorded(Payment), d), p)]
  BY <1>1 DEF PageIsLive, LiveCounts
<1>4. page.sheet.rider[d].sold[p] \in Nat
  BY <1>1 DEF PageOK, SheetType
<1> QED
  BY <1>2, <1>3, <1>4 DEF LinesOf, RepaidUnits

\* A line is left out of a row only when there is nothing on it.
LEMMA LeftOut ==
  ASSUME NEW l, l.sold \in Nat, l.credited \in Nat, l.repaid \in Nat,
         ~(Paid(l) > 0 \/ l.credited > 0)
  PROVE  l.sold = 0 /\ l.credited = 0 /\ l.repaid = 0 /\ Paid(l) = 0
<1>1. l.credited = 0
  OBVIOUS
<1>2. l.sold + l.repaid = 0
  BY <1>1 DEF Paid, AtLeastZero
<1> QED
  BY <1>1, <1>2 DEF Paid, AtLeastZero

\* Each payment a save links earns its driver the commission of its units once.
THEOREM RepaymentsAlwaysEarnOnce == FormSpec => RepaymentsEarnOnce
<1>1. ASSUME FInv, [FormNext]_vars, SaveOfLivePage, NEW d \in ActiveRiders, NEW p \in OnSale
      PROVE  PaidFor(saved'.rows[d], d, p)
  <2> DEFINE l == LinesOf(page, d)[p]
             kept == ProductLines(LinesOf(page, d), price, rate[d])
             credited == UnitsOn(OwnedBy(Recorded(Credit), d), p)
  <2>1. /\ CatalogueTypeOK /\ PageOK(page) /\ PageIsLive
        /\ saved'.rows = RiderRows(page)
        /\ Open(Payment) = Recorded(Payment)
    BY <1>1, LiveSave
  <2>2. d \in page.riders /\ p \in page.products /\ d \in Driver /\ p \in Product
    BY <1>1, <2>1 DEF PageIsLive, ActiveRiders, OnSale
  <2>3. /\ l.sold \in Nat /\ l.credited = credited /\ l.credited \in Nat
        /\ l.repaid = RepaidUnits(d, p) /\ l.repaid \in Nat
    BY <2>1, <2>2, LiveLine
  <2>4. saved'.rows[d].lines = kept
    BY <2>1, <2>2 DEF RiderRows, RiderRow, PostedRider
  <2>5. rate[d][p] \in Nat
    BY <2>1, <2>2, PricesAndRates
  <2>6. DOMAIN LinesOf(page, d) = page.products
    BY DEF LinesOf
  <2>7. p \in DOMAIN kept <=> Paid(l) > 0 \/ l.credited > 0
    BY <2>2, <2>6 DEF ProductLines
  <2>8. p \in DOMAIN kept => kept[p] = ProductLine(l, price[p], rate[d][p])
    BY DEF ProductLines
  <2>9. Paid(l) = AtLeastZero(l.sold - l.credited + RepaidUnits(d, p)) /\ Paid(l) \in Nat
    BY <2>3 DEF Paid, AtLeastZero
  <2> HIDE DEF l, kept, credited
  <2>10. CASE p \in DOMAIN kept
    <3>1. /\ kept[p].commission = Paid(l) * rate[d][p]
          /\ kept[p].sold = l.sold /\ kept[p].credited = l.credited
      BY <2>8, <2>10 DEF ProductLine
    <3>2. kept[p].commission = rate[d][p] * Paid(l)
      BY <2>5, <2>9, <3>1, NatTimes
    <3> QED
      BY <2>4, <2>9, <2>10, <3>1, <3>2 DEF PaidFor
  <2>11. CASE p \notin DOMAIN kept
    <3>1. credited = 0 /\ RepaidUnits(d, p) = 0
      BY <2>3, <2>7, <2>11, LeftOut
    <3>2. AtLeastZero(RepaidUnits(d, p) - credited) = 0
      BY <3>1 DEF AtLeastZero
    <3>3. rate[d][p] * 0 = 0
      BY <2>5
    <3> QED
      BY <2>4, <2>11, <3>2, <3>3 DEF PaidFor, credited
  <2> QED
    BY <2>10, <2>11
<1>2. FInv /\ [FormNext]_vars => [SaveOfLivePage =>
        \A d \in ActiveRiders, p \in OnSale : PaidFor(saved'.rows[d], d, p)]_vars
  BY <1>1
<1> QED
  BY <1>2, FormInductive, PTL DEF FormSpec, RepaymentsEarnOnce

\* The units of entries of one product are those of the product.
LEMMA UnitsOfOne ==
  ASSUME NEW K, NEW p PROVE UnitsOn({e \in K : ProductOf[e] = p}, p) = UnitsOn(K, p)
<1>1. {e \in {x \in K : ProductOf[x] = p} : ProductOf[e] = p} = {e \in K : ProductOf[e] = p}
  OBVIOUS
<1> QED
  BY <1>1 DEF UnitsOn

\* The page restores from a row, and the payments it linked, what was posted for it.
LEMMA Restored ==
  ASSUME CatalogueTypeOK, PageOK(page), PageIsLive, Open(Payment) = Recorded(Payment),
         NEW draft, draft.rows = RiderRows(page), NEW d \in page.riders
  PROVE  PostedRider(Reopened(draft), d) = PostedRider(page, d)
<1> DEFINE st == StateOf(draft, Recorded(Payment))
           pg == Reopened(draft)
           row == RiderRow(PostedRider(page, d), price, rate[d])
           kept == ProductLines(LinesOf(page, d), price, rate[d])
           r == page.sheet.rider[d]
<1>1. d \in Driver /\ page.products \subseteq Product /\ page.products = OnSale
  BY DEF PageOK, PageIsLive
<1>2. /\ st.rows = RiderRows(page) /\ d \in DOMAIN st.rows /\ st.rows[d] = row
      /\ st.repaid[d] = OwnedBy(Recorded(Payment), d)
  BY <1>1 DEF StateOf, RiderRows
<1>3. /\ row.lines = kept /\ row.override = r.override /\ row.remitted = r.remitted
      /\ row.expense = r.expense /\ row.deduction = r.deduction
  BY DEF RiderRow, PostedRider
<1>4. /\ pg.products = page.products
      /\ pg.sheet = SheetFrom(st, Empty) /\ pg.counts = CountsFrom(st, LiveCounts)
  BY <1>1 DEF Reopened, Apply, FreshPage
<1>5. ASSUME NEW p \in page.products
      PROVE  LinesOf(pg, d)[p] = LinesOf(page, d)[p]
  <2> DEFINE l == LinesOf(page, d)[p]
             paid == {e \in st.repaid[d] : ProductOf[e] = p}
  <2>1. /\ l.sold = r.sold[p] /\ l.sold \in Nat /\ l.credited \in Nat
        /\ l.repaid = RepaidUnits(d, p) /\ l.repaid \in Nat
        /\ l.credited = UnitsOn(OwnedBy(Recorded(Credit), d), p)
    BY LiveLine
  <2>2. l = [sold |-> l.sold, credited |-> l.credited, repaid |-> l.repaid]
    BY DEF LinesOf
  <2>3. DOMAIN LinesOf(page, d) = page.products
    BY DEF LinesOf
  <2>4. p \in DOMAIN kept <=> Paid(l) > 0 \/ l.credited > 0
    BY <2>3 DEF ProductLines
  <2>5. p \in DOMAIN kept => kept[p].sold = l.sold /\ kept[p].credited = l.credited
    BY DEF ProductLines, ProductLine
  <2>6. p \notin DOMAIN kept => l.sold = 0 /\ l.credited = 0 /\ l.repaid = 0
    BY <2>1, <2>4, LeftOut
  <2>7. p \in DOMAIN kept => kept # << >>
    BY NoLines
  <2>8. UnitsOn(paid, p) = l.repaid
    BY <1>2, <2>1, UnitsOfOne DEF RepaidUnits
  <2>9. paid = {} => l.repaid = 0
    <3> SUFFICES ASSUME paid = {} PROVE UnitsOn(paid, p) = 0
      BY <2>8
    <3>1. {e \in {} : ProductOf[e] = p} = {}
      OBVIOUS
    <3>2. UnitsOn({}, p) = SumFunctionOnSet(Units, {})
      BY <3>1 DEF UnitsOn
    <3> HIDE DEF paid
    <3> QED
      BY <3>2, SumEmpty
  <2>10. LiveCounts[d][p].credited = l.credited /\ LiveCounts[d][p].repaid = l.repaid
    BY <1>1, <2>1 DEF LiveCounts, RepaidUnits
  <2>11. pg.counts[d][p] =
           [credited |-> IF p \in DOMAIN kept THEN kept[p].credited
                         ELSE IF kept # << >> THEN 0 ELSE LiveCounts[d][p].credited,
            repaid   |-> IF paid # {} THEN UnitsOn(paid, p)
                         ELSE IF kept # << >> THEN 0 ELSE LiveCounts[d][p].repaid]
    BY <1>1, <1>2, <1>3, <1>4 DEF CountsFrom
  <2>12. pg.sheet.rider[d].sold[p] = IF p \in DOMAIN kept THEN kept[p].sold ELSE 0
    BY <1>1, <1>2, <1>3, <1>4 DEF SheetFrom, Empty
  <2>13. LinesOf(pg, d)[p] = [sold |-> pg.sheet.rider[d].sold[p],
                              credited |-> pg.counts[d][p].credited,
                              repaid |-> pg.counts[d][p].repaid]
    BY <1>4 DEF LinesOf
  <2> HIDE DEF l, paid, kept, pg
  <2>14. pg.counts[d][p].credited = l.credited
    BY <2>5, <2>6, <2>10, <2>11
  <2>15. pg.counts[d][p].repaid = l.repaid
    BY <2>6, <2>8, <2>9, <2>10, <2>11
  <2>16. pg.sheet.rider[d].sold[p] = l.sold
    BY <2>5, <2>6, <2>12
  <2> QED
    BY <2>2, <2>13, <2>14, <2>15, <2>16 DEF l
<1>6. LinesOf(pg, d) = LinesOf(page, d)
  <2>1. /\ LinesOf(pg, d) = [p \in page.products |-> LinesOf(pg, d)[p]]
        /\ LinesOf(page, d) = [p \in page.products |-> LinesOf(page, d)[p]]
    BY <1>4 DEF LinesOf
  <2> QED
    BY <1>5, <2>1
<1>7. LET s == pg.sheet.rider[d]
      IN  /\ s.override = r.override /\ s.remitted = r.remitted
          /\ s.expense = r.expense /\ s.deduction = r.deduction
  BY <1>1, <1>2, <1>3, <1>4 DEF SheetFrom
<1> HIDE DEF pg
<1> QED
  BY <1>6, <1>7 DEF PostedRider, pg

\* A draft that is opened again and saved again stays what it was.
THEOREM DraftAlwaysRoundTrips == FormSpec => DraftRoundTrip
<1>1. ASSUME FInv, [FormNext]_vars, SaveOfLivePage, saved'.status = "draft"
      PROVE  Build(Reopened(saved'), "draft") = saved'
  <2> DEFINE pg == Reopened(saved')
             st == StateOf(saved', Recorded(Payment))
  <2>1. /\ CatalogueTypeOK /\ PageOK(page) /\ PageIsLive
        /\ saved' = Build(page, "draft")
        /\ saved'.rows = RiderRows(page) /\ saved'.staff = StaffRows(page)
        /\ Open(Payment) = Recorded(Payment) /\ Unlisted(page) = {}
    BY <1>1, LiveSave
  <2>2. /\ pg.riders = page.riders /\ pg.staff = page.staff
        /\ pg.sheet = SheetFrom(st, Empty)
    BY <2>1 DEF Reopened, Apply, FreshPage, PageIsLive
  <2>3. Unlisted(pg) = {}
    BY <2>1, <2>2 DEF Unlisted, PageIsLive
  <2>4. \A d \in page.riders : PostedRider(pg, d) = PostedRider(page, d)
    BY <2>1, Restored
  <2>5. RiderRows(pg) = RiderRows(page)
    <3> HIDE DEF pg
    <3> QED
      BY <2>1, <2>2, <2>3, <2>4 DEF RiderRows
  <2>6. ASSUME NEW m \in page.staff \cap ActiveStaff
        PROVE  StaffRow(pg.sheet.staff[m], Daily[m]) = StaffRow(page.sheet.staff[m], Daily[m])
    <3>1. m \in Member
      BY DEF ActiveStaff
    <3>2. /\ st.staff = StaffRows(page) /\ m \in DOMAIN st.staff
          /\ st.staff[m] = StaffRow(page.sheet.staff[m], Daily[m])
      BY <2>1 DEF StateOf, StaffRows
    <3>3. LET s == pg.sheet.staff[m]
          IN  /\ s.override = st.staff[m].override /\ s.deduction = st.staff[m].deduction
              /\ s.expense = st.staff[m].expense
      BY <2>2, <3>1, <3>2 DEF SheetFrom
    <3>4. LET s == pg.sheet.staff[m]
          IN  /\ s.override = page.sheet.staff[m].override
              /\ s.deduction = page.sheet.staff[m].deduction
              /\ s.expense = page.sheet.staff[m].expense
      BY <3>2, <3>3 DEF StaffRow
    <3> HIDE DEF pg
    <3> QED
      BY <3>4 DEF StaffRow
  <2>7. StaffRows(pg) = StaffRows(page)
    <3> HIDE DEF pg
    <3> QED
      BY <2>2, <2>6 DEF StaffRows
  <2>8. pg.sheet.other = page.sheet.other
    <3>1. pg.sheet.other = saved'.totals.other
      BY <2>2 DEF SheetFrom, StateOf
    <3>2. saved'.totals.other = page.sheet.other
      BY <2>1 DEF Build, Totals
    <3> QED
      BY <3>1, <3>2
  <2>9. Build(pg, "draft") = Build(page, "draft")
    <3> HIDE DEF pg
    <3> QED
      BY <2>5, <2>7, <2>8 DEF Build
  <2> QED
    BY <2>1, <2>9
<1>2. FInv /\ [FormNext]_vars => [SaveOfLivePage /\ saved'.status = "draft" =>
        LET again == Reopened(saved') IN Build(again, "draft") = saved']_vars
  BY <1>1
<1> QED
  BY <1>2, FormInductive, PTL DEF FormSpec, DraftRoundTrip

\* Lines that count for nothing may be left out of a sum.
LEMMA KeptAddUp ==
  ASSUME NEW P, IsFiniteSet(P), NEW K \in SUBSET P, NEW f, NEW g,
         \A p \in P : g[p] \in Int, \A p \in K : f[p] = g[p], \A p \in P \ K : g[p] = 0
  PROVE  SumFunctionOnSet(f, K) = SumFunctionOnSet(g, P)
<1>1. SumFunctionOnSet(g, P) = SumFunctionOnSet(g, K)
  BY SumOfPart
<1>2. IsFiniteSet(K)
  BY FS_Subset
<1> QED
  BY <1>1, <1>2, SumSame

\* What is short of the cash is worked out in two steps by the script.
LEMMA ShortInTwoSteps ==
  ASSUME NEW a \in Int, NEW b \in Nat, NEW c \in Nat
  PROVE  AtLeastZero(AtLeastZero(a - b) - c) = AtLeastZero(a - b - c)
BY DEF AtLeastZero

\* A driver's sales and commission, as reviewed and as stored.
LEMMA Reviewed ==
  ASSUME CatalogueTypeOK, PageOK(page), PageIsLive, Open(Payment) = Recorded(Payment),
         NEW d \in page.riders
  PROVE  LET row == RiderRow(PostedRider(page, d), price, rate[d])
         IN  /\ SumOver(row.lines, LAMBDA l : l.sold * l.price)
                  = SumOver(PreviewLines(d), LAMBDA l : l.gross)
             /\ NetCommission(row) = AtLeastZero(PreviewCommission(d))
             /\ row.remitted = page.sheet.rider[d].remitted
             /\ row.expense = page.sheet.rider[d].expense
<1> DEFINE row == RiderRow(PostedRider(page, d), price, rate[d])
           r == page.sheet.rider[d]
           P == page.products
           line(p) == LinesOf(page, d)[p]
           kept == ProductLines(LinesOf(page, d), price, rate[d])
           K == DOMAIN kept
           sold == [p \in K |-> kept[p].sold * kept[p].price]
           due == [p \in K |-> kept[p].payable]
           earned == [p \in K |-> kept[p].commission]
           gross == [p \in P |-> line(p).sold * price[p]]
           subtotal == [p \in P |-> Paid(line(p)) * price[p]]
           commission == [p \in P |-> Paid(line(p)) * rate[d][p]]
<1>1. d \in Driver /\ P \in SUBSET Product /\ IsFiniteSet(P)
  BY FS_Subset DEF PageOK
<1>2. /\ r.override \in MaybeNat /\ r.remitted \in MaybeNat
      /\ r.expense \in Nat /\ r.deduction \in Nat
  BY <1>1 DEF PageOK, SheetType
<1>3. Given(r.remitted) \in Nat
  BY <1>2 DEF Given, MaybeNat
<1>4. ASSUME NEW p \in P
      PROVE  /\ gross[p] \in Nat /\ subtotal[p] \in Nat /\ commission[p] \in Nat
             /\ p \notin K => gross[p] = 0 /\ subtotal[p] = 0 /\ commission[p] = 0
             /\ p \in K => /\ sold[p] = gross[p] /\ due[p] = subtotal[p]
                           /\ earned[p] = commission[p]
  <2>1. price[p] \in Nat /\ rate[d][p] \in Nat
    BY <1>1, PricesAndRates
  <2>2. line(p).sold \in Nat /\ line(p).credited \in Nat /\ line(p).repaid \in Nat
    BY LiveLine
  <2>3. Paid(line(p)) \in Nat
    BY <2>2 DEF Paid, AtLeastZero
  <2>4. /\ gross[p] = line(p).sold * price[p] /\ subtotal[p] = Paid(line(p)) * price[p]
        /\ commission[p] = Paid(line(p)) * rate[d][p]
    OBVIOUS
  <2>5. DOMAIN LinesOf(page, d) = P
    BY DEF LinesOf
  <2>6. p \in K <=> Paid(line(p)) > 0 \/ line(p).credited > 0
    BY <2>5 DEF ProductLines
  <2>7. p \in K => kept[p] = ProductLine(line(p), price[p], rate[d][p])
    BY DEF ProductLines
  <2>8. p \in K => /\ sold[p] = line(p).sold * price[p]
                   /\ due[p] = Paid(line(p)) * price[p]
                   /\ earned[p] = Paid(line(p)) * rate[d][p]
    BY <2>7 DEF ProductLine
  <2> HIDE DEF line, K, sold, due, earned, gross, subtotal, commission
  <2>9. p \notin K => line(p).sold = 0 /\ Paid(line(p)) = 0
    BY <2>2, <2>6, LeftOut
  <2>10. gross[p] \in Nat /\ subtotal[p] \in Nat /\ commission[p] \in Nat
    BY <2>1, <2>2, <2>3, <2>4, NatTimes
  <2>11. 0 * price[p] = 0 /\ 0 * rate[d][p] = 0
    BY <2>1
  <2> QED
    BY <2>4, <2>8, <2>9, <2>10, <2>11
<1>5. K \in SUBSET P
  BY DEF ProductLines, LinesOf
<1>6. /\ SumOver(kept, LAMBDA l : l.sold * l.price) = SumFunctionOnSet(sold, K)
      /\ SumOver(kept, LAMBDA l : l.payable) = SumFunctionOnSet(due, K)
      /\ SumOver(kept, LAMBDA l : l.commission) = SumFunctionOnSet(earned, K)
  BY DEF SumOver, Sum
<1>7. PreviewLines(d) = [p \in P |->
         [gross |-> line(p).sold * price[p], subtotal |-> Paid(line(p)) * price[p],
          commission |-> Paid(line(p)) * rate[d][p]]]
  BY DEF PreviewLines, PageIsLive
<1>8. /\ SumOver(PreviewLines(d), LAMBDA l : l.gross) = SumFunctionOnSet(gross, P)
      /\ SumOver(PreviewLines(d), LAMBDA l : l.subtotal) = SumFunctionOnSet(subtotal, P)
      /\ SumOver(PreviewLines(d), LAMBDA l : l.commission) = SumFunctionOnSet(commission, P)
  <2>1. DOMAIN PreviewLines(d) = P
    BY <1>7
  <2>2. \A p \in P : /\ PreviewLines(d)[p].gross = gross[p]
                     /\ PreviewLines(d)[p].subtotal = subtotal[p]
                     /\ PreviewLines(d)[p].commission = commission[p]
    BY <1>7
  <2> DEFINE G == [p \in P |-> PreviewLines(d)[p].gross]
             S == [p \in P |-> PreviewLines(d)[p].subtotal]
             C == [p \in P |-> PreviewLines(d)[p].commission]
  <2>3. /\ SumOver(PreviewLines(d), LAMBDA l : l.gross) = SumFunctionOnSet(G, P)
        /\ SumOver(PreviewLines(d), LAMBDA l : l.subtotal) = SumFunctionOnSet(S, P)
        /\ SumOver(PreviewLines(d), LAMBDA l : l.commission) = SumFunctionOnSet(C, P)
    BY <2>1 DEF SumOver, Sum
  <2>4. \A p \in P : G[p] = gross[p] /\ S[p] = subtotal[p] /\ C[p] = commission[p]
    BY <2>2
  <2> HIDE DEF G, S, C, gross, subtotal, commission, P
  <2> QED
    BY <1>1, <2>3, <2>4, SumSame
<1> HIDE DEF sold, due, earned, gross, subtotal, commission, K, P, line
<1>9. /\ SumFunctionOnSet(sold, K) = SumFunctionOnSet(gross, P)
      /\ SumFunctionOnSet(due, K) = SumFunctionOnSet(subtotal, P)
      /\ SumFunctionOnSet(earned, K) = SumFunctionOnSet(commission, P)
  BY <1>1, <1>4, <1>5, KeptAddUp
<1>10. SumFunctionOnSet(subtotal, P) \in Nat
  BY <1>1, <1>4, SumNat
<1> DEFINE owed == SumFunctionOnSet(subtotal, P)
           pay == IF r.override = None THEN SumFunctionOnSet(commission, P) ELSE r.override
<1>11. /\ row.lines = kept /\ row.payable = owed /\ row.commission = pay
       /\ row.remitted = r.remitted /\ row.expense = r.expense /\ row.deduction = r.deduction
  BY <1>6, <1>9 DEF RiderRow, PostedRider
<1>12. PreviewCommission(d) =
         pay - AtLeastZero(AtLeastZero(owed - r.expense) - Given(r.remitted)) - r.deduction
  BY <1>8 DEF PreviewCommission
<1> HIDE DEF row, r, kept, pay, owed
<1>13. Shortfall(row) = AtLeastZero(AtLeastZero(owed - r.expense) - Given(r.remitted))
  <2>1. owed \in Int
    BY <1>10 DEF owed
  <2>2. Shortfall(row) = AtLeastZero(owed - r.expense - Given(r.remitted))
    BY <1>11 DEF Shortfall
  <2>3. AtLeastZero(AtLeastZero(owed - r.expense) - Given(r.remitted))
          = AtLeastZero(owed - r.expense - Given(r.remitted))
    BY <1>2, <1>3, <2>1, ShortInTwoSteps
  <2> QED
    BY <2>2, <2>3
<1>14. NetCommission(row) = AtLeastZero(PreviewCommission(d))
  BY <1>11, <1>12, <1>13 DEF NetCommission
<1> QED
  BY <1>6, <1>8, <1>9, <1>11, <1>14 DEF row, r

\* What the operator reviewed is what is stored, column by column; of the net the
\* review differs by what staff are not paid out.
THEOREM ReviewedAlwaysSaved == FormSpec => ReviewedIsSaved
<1>1. ASSUME FInv, [FormNext]_vars, SaveOfLivePage
      PROVE  LET shown  == Preview
                 stored == saved'.totals
             IN  /\ stored.sales = shown.sales
                 /\ stored.commission = shown.commission
                 /\ stored.expenses = shown.expenses
                 /\ stored.repayments = shown.repayments
                 /\ stored.net + stored.salary = shown.net + shown.salary
  <2> DEFINE rows == RiderRows(page)
             staff == StaffRows(page)
             R == page.riders
             M == page.staff
             t == saved'.totals
             other == page.sheet.other
             sales == Sum(R, LAMBDA d : SumOver(PreviewLines(d), LAMBDA l : l.gross))
             earned == Sum(R, LAMBDA d : AtLeastZero(PreviewCommission(d)))
             paid == Sum(M, PreviewSalary)
             cash == Sum(R, LAMBDA d : Given(page.sheet.rider[d].remitted))
             spent == Sum(R, LAMBDA d : page.sheet.rider[d].expense)
             spentByStaff == Sum(M, LAMBDA m : page.sheet.staff[m].expense)
  <2>1. /\ CatalogueTypeOK /\ PageOK(page) /\ PageIsLive
        /\ saved' = Build(page, saved'.status)
        /\ Open(Payment) = Recorded(Payment) /\ Unlisted(page) = {}
    BY <1>1, LiveSave
  <2>2. t = Totals(rows, staff, 0, other, Value(Recorded(Payment)), Value(Recorded(Credit)))
    <3> DEFINE status == saved'.status
    <3>1. saved' = Build(page, status)
      BY <2>1
    <3> HIDE DEF status
    <3> QED
      BY <3>1 DEF Build
  <2>3. R \in SUBSET Driver /\ M \in SUBSET Member /\ IsFiniteSet(R) /\ IsFiniteSet(M)
    BY <2>1, FS_Subset DEF PageOK
  <2>4. DOMAIN rows = R /\ \A d \in R : rows[d] = RiderRow(PostedRider(page, d), price, rate[d])
    BY <2>1 DEF RiderRows
  <2>5. /\ DOMAIN staff = M
        /\ \A m \in M : staff[m] = StaffRow(page.sheet.staff[m], Daily[m])
    BY <2>1 DEF StaffRows, PageIsLive
  <2>6. ASSUME NEW d \in R
        PROVE  /\ SumOver(rows[d].lines, LAMBDA l : l.sold * l.price)
                    = SumOver(PreviewLines(d), LAMBDA l : l.gross)
               /\ NetCommission(rows[d]) = AtLeastZero(PreviewCommission(d))
               /\ rows[d].remitted = page.sheet.rider[d].remitted
               /\ rows[d].expense = page.sheet.rider[d].expense
    BY <2>1, <2>4, Reviewed
  <2>7. \A m \in M : staff[m].expense = page.sheet.staff[m].expense
    <3> SUFFICES ASSUME NEW m \in M PROVE staff[m].expense = page.sheet.staff[m].expense
      OBVIOUS
    <3>1. staff[m] = StaffRow(page.sheet.staff[m], Daily[m])
      BY <2>5
    <3> HIDE DEF staff
    <3> QED
      BY <3>1 DEF StaffRow
  <2> HIDE DEF rows, staff
  <2>8. GrossSales(rows) = sales
    <3> DEFINE f == [d \in R |-> SumOver(rows[d].lines, LAMBDA l : l.sold * l.price)]
               g == [d \in R |-> SumOver(PreviewLines(d), LAMBDA l : l.gross)]
    <3>1. GrossSales(rows) = SumFunctionOnSet(f, R)
      BY <2>4 DEF GrossSales, SumOver, Sum
    <3>2. sales = SumFunctionOnSet(g, R)
      BY DEF Sum
    <3>3. \A d \in R : f[d] = g[d]
      BY <2>6
    <3> HIDE DEF f, g, sales, R
    <3> QED
      BY <2>3, <3>1, <3>2, <3>3, SumSame
  <2>9. Commissions(rows) = earned
    <3> DEFINE f == [d \in R |-> NetCommission(rows[d])]
               g == [d \in R |-> AtLeastZero(PreviewCommission(d))]
    <3>1. Commissions(rows) = SumFunctionOnSet(f, R)
      BY <2>4 DEF Commissions, SumOver, Sum
    <3>2. earned = SumFunctionOnSet(g, R)
      BY DEF Sum
    <3>3. \A d \in R : f[d] = g[d]
      BY <2>6
    <3> HIDE DEF f, g, earned, R
    <3> QED
      BY <2>3, <3>1, <3>2, <3>3, SumSame
  <2>10. Remitted(rows) = cash
    <3> DEFINE f == [d \in R |-> Given(rows[d].remitted)]
               g == [d \in R |-> Given(page.sheet.rider[d].remitted)]
    <3>1. Remitted(rows) = SumFunctionOnSet(f, R)
      BY <2>4 DEF Remitted, SumOver, Sum
    <3>2. cash = SumFunctionOnSet(g, R)
      BY DEF Sum
    <3>3. \A d \in R : f[d] = g[d]
      BY <2>6
    <3> HIDE DEF f, g, cash, R
    <3> QED
      BY <2>3, <3>1, <3>2, <3>3, SumSame
  <2>11. RiderExpenses(rows) = spent
    <3> DEFINE f == [d \in R |-> rows[d].expense]
               g == [d \in R |-> page.sheet.rider[d].expense]
    <3>1. RiderExpenses(rows) = SumFunctionOnSet(f, R)
      BY <2>4 DEF RiderExpenses, SumOver, Sum
    <3>2. spent = SumFunctionOnSet(g, R)
      BY DEF Sum
    <3>3. \A d \in R : f[d] = g[d]
      BY <2>6
    <3> HIDE DEF f, g, spent, R
    <3> QED
      BY <2>3, <3>1, <3>2, <3>3, SumSame
  <2>12. StaffExpenses(staff) = spentByStaff
    <3> DEFINE f == [m \in M |-> staff[m].expense]
               g == [m \in M |-> page.sheet.staff[m].expense]
    <3>1. StaffExpenses(staff) = SumFunctionOnSet(f, M)
      BY <2>5 DEF StaffExpenses, SumOver, Sum
    <3>2. spentByStaff = SumFunctionOnSet(g, M)
      BY DEF Sum
    <3>3. \A m \in M : f[m] = g[m]
      BY <2>7
    <3> HIDE DEF f, g, spentByStaff, M
    <3> QED
      BY <2>3, <3>1, <3>2, <3>3, SumSame
  <2>13. paid \in Int
    <3> DEFINE f == [m \in M |-> PreviewSalary(m)]
    <3>1. paid = SumFunctionOnSet(f, M)
      BY DEF Sum
    <3>2. ASSUME NEW m \in M PROVE f[m] \in Int
      <4>1. /\ page.sheet.staff[m].override \in MaybeNat /\ page.sheet.staff[m].deduction \in Nat
            /\ Daily[m] \in Nat
        BY <2>1, <2>3 DEF PageOK, SheetType
      <4> QED
        BY <4>1 DEF PreviewSalary, AtLeastZero, MaybeNat
    <3> HIDE DEF f, paid, M
    <3> QED
      BY <2>3, <3>1, <3>2, SumType
  <2>14. /\ Commissions(rows) \in Nat /\ Remitted(rows) \in Nat /\ RiderExpenses(rows) \in Nat
         /\ GrossSales(rows) \in Nat /\ Salaries(staff) \in Nat /\ StaffExpenses(staff) \in Nat
    BY <2>1, RiderRowsOK, StaffRowsOK, ColumnsNat DEF rows, staff
  <2>15. other \in Nat
    BY <2>1 DEF PageOK, SheetType
  <2>16. LET shown == Preview
         IN  /\ shown.sales = sales + other /\ shown.commission = earned
             /\ shown.salary = paid /\ shown.expenses = spent + spentByStaff
             /\ shown.repayments = page.repayments
             /\ shown.net = cash + other - paid - earned
    BY DEF Preview
  <2>17. page.repayments = Value(Recorded(Payment))
    BY <2>1 DEF PageIsLive
  <2> DEFINE shown == Preview
  <2> HIDE DEF t, shown, other, sales, earned, paid, cash, spent, spentByStaff
  <2>18. /\ t.sales = GrossSales(rows) + other
         /\ t.commission = Commissions(rows) /\ t.salary = Salaries(staff)
         /\ t.net = Remitted(rows) + other - Commissions(rows) - Salaries(staff)
         /\ t.expenses = RiderExpenses(rows) + StaffExpenses(staff) + 0
         /\ t.repayments = Value(Recorded(Payment))
    BY <2>2, TotalsAre
  <2>19. /\ shown.sales = sales + other /\ shown.commission = earned
         /\ shown.salary = paid /\ shown.expenses = spent + spentByStaff
         /\ shown.repayments = page.repayments
         /\ shown.net = cash + other - paid - earned
    BY <2>16 DEF shown
  <2>20. /\ t.sales = shown.sales /\ t.commission = shown.commission
         /\ t.expenses = shown.expenses /\ t.repayments = shown.repayments
    BY <2>8, <2>9, <2>11, <2>12, <2>14, <2>17, <2>18, <2>19
  <2>21. t.net + t.salary = shown.net + shown.salary
    BY <2>9, <2>10, <2>13, <2>14, <2>15, <2>18, <2>19
  <2> QED
    BY <2>20, <2>21 DEF t, shown
<1>2. FInv /\ [FormNext]_vars => [SaveOfLivePage =>
       LET shown  == Preview
           stored == saved'.totals
       IN  /\ stored.sales = shown.sales
           /\ stored.commission = shown.commission
           /\ stored.expenses = shown.expenses
           /\ stored.repayments = shown.repayments
           /\ stored.net + stored.salary = shown.net + shown.salary]_vars
  BY <1>1
<1> QED
  BY <1>2, FormInductive, PTL DEF FormSpec, ReviewedIsSaved
=============================================================================
