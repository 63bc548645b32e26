CONSTANTS
  p1 = p1
  p2 = p2
  g1 = g1
  Payment = {p1, p2}
  Free = {}
  Gift = {}
  Months <- MonthsOf
  Caller = {c1, c2}
  Job = {}
  MaxNow = 1
  MaxFaults = 0
  None = None
SPECIFICATION Spec
INVARIANT PaidTimeKept
