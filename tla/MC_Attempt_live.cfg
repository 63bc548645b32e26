CONSTANTS
  q1 = q1
  q2 = q2
  A = A
  B = B
  r1 = r1
  r2 = r2
  Request = {r1, r2}
  Question = {q1}
  Option = {A, B}
  Key <- KeyA
  Paper = None
  Sheet <- Sheets1
  Diff <- Diffs1
  Stamp = {None, 1}
  Deadline = 1
  Slack = 0
  ReplayWindow = 1
  SweepMargin = 1
  EnvGrace = 1
  MaxNow = 4
  MaxFaults = 2
  None = None
  Null = Null
SPECIFICATION FairSpec
PROPERTY ScoredInTheEnd
