CONSTANTS
  w1 = w1
  w2 = w2
  s1 = s1
  Student = {s1}
  Wd = {w1, w2}
  Owner <- OneOwner
  Amount <- Amounts
  Credit <- Credit3
  Ref = {u1}
  Admin = {a1}
  Poller = {p1}
  MaxSend = 2
  None = None
  GatewayRef = GatewayRef
SPECIFICATION FairSpec
INVARIANTS TypeOK OneOpenRequest WalletConserved UtrRecordedOnce
PROPERTIES LedgerSpec ProcessingSettles AgreesIfLatestJudged
