CONSTANTS
  q1 = q1
  A = A
  B = B
  r1 = r1
  r2 = r2
  Request = {r1, r2}
  Question = {q1}
  Option = {A}
  Key <- KeyA
  Paper = {q1}
  Sheet <- NoSheets
  Diff <- NoSheets
  Stamp <- NoSheets
  Deadline = 1
  Slack = 0
  ReplayWindow = 1
  SweepMargin = 0
  EnvGrace = 0
  MaxNow = 3
  MaxFaults = 1
  None = None
  Null = Null
  MaxEdits = 1
  MaxReloads = 1
SPECIFICATION PageSpec
SYMMETRY Symmetric
INVARIANT ToldIsStored
CHECK_DEADLOCK FALSE
