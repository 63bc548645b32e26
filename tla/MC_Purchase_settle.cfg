CONSTANTS
  p1 = p1
  p2 = p2
  g1 = g1
  Payment = {p1, p2}
  Free = {p2}
  Gift = {g1}
  Months <- MonthsOf
  Caller = {c1}
  Job = {j1}
  MaxNow = 1
  MaxFaults = 2
  None = None
SPECIFICATION FairSpec
INVARIANTS TypeOK GrantedIffPaid ToldOnce UndisturbedTimeKept
PROPERTIES PlanSpec PendingIsSettled
