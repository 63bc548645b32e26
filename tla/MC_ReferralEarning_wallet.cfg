CONSTANTS
  r1 = r1
  f1 = f1
  p1 = p1
  p2 = p2
  Student = {r1, f1}
  Payment = {p1, p2}
  Commission <- Commissions
  HighTierAfter = 1
  FreeMonthAt = 1
  FreeUpgradeAt = 1
  MinFriends = 1
  Instant = FALSE
  DrawAmount = {2}
  SameDevice = {p2}
  Entry <- OneFriend
  Handler = {h1, h2}
  MaxRefunds = 1
  MaxFaults = 1
  None = None
SPECIFICATION Spec
INVARIANTS TypeOK WalletAddsUp FriendsCounted MonthOnce UpgradeOnce RefundTakesBack
PROPERTIES FlaggedWaits LedgerSpec
CHECK_DEADLOCK FALSE
SYMMETRY Symmetry
