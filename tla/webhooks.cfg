\* Five events of one customer, three of two, whose price is the same.
SPECIFICATION Spec
CONSTANTS
  MaxCustomers = 2
  MaxSubs = 2
  MaxEvents = 5
  Prices = {"price_starter", "price_pro"}
  Hooks = {h1, h2}
  Checkouts = {q1, q2}
  RowIds = {1, 2}
SYMMETRY AlikeSymmetry
CONSTRAINT SmallIfTwo
INVARIANTS TypeOK ActiveWasPaid OneRowPerCustomer MirrorsStripe
PROPERTY RowsKept
CHECK_DEADLOCK FALSE
