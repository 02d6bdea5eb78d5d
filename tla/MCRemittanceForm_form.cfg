SPECIFICATION MCSpec
CONSTANTS
  d1 = d1  d2 = d2  m1 = m1  p1 = p1  x1 = x1  y1 = y1  y2 = y2
  Driver = {d1, d2}
  Member = {m1}
  Product = {p1}
  None = None
  Price = {2, 3}
  Rate = {0, 1}
  Credit = {x1}
  Payment = {y1, y2}
  CareOf <- MCCareOf
  ProductOf <- MCProductOf
  Units <- MCUnits
  Amount <- MCAmount
  Daily <- MCDaily
  Sheet <- MCSheet
  MaxChange = 2
INVARIANT FormTypeOK
INVARIANT DetailCoversLedger
INVARIANT ReportsAgree
PROPERTY ReviewedIsSaved
PROPERTY RepaymentsEarnOnce
PROPERTY DraftRoundTrip
CHECK_DEADLOCK FALSE
