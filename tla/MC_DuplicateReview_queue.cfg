CONSTANTS
  u1 = u1
  u2 = u2
  Upload = {u1, u2}
  Bank = Bank
  Sheet <- TwoSheets
  Worker = {w1, w2}
  MaxEvents = 3
  None = None
SPECIFICATION Spec
INVARIANTS TypeOK RowKept RowOnce LastCopyStays
CHECK_DEADLOCK FALSE
SYMMETRY Symmetry
