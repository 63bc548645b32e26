CONSTANTS
  q1 = q1
  q2 = q2
  A = A
  B = B
  r1 = r1
  r2 = r2
  Request = {r1, r2}
  Question = {q1, q2}
  Option = {A, B}
  Key <- KeyA
  Paper = {q1, q2}
  Sheet <- Sheets
  Diff <- Diffs
  Stamp = {None, 1, 3}
  Deadline = 1
  Slack = 1
  ReplayWindow = 2
  SweepMargin = 0
  EnvGrace = 1
  MaxNow = 4
  MaxFaults = 1
  None = None
  Null = Null
SPECIFICATION Spec
SYMMETRY Symmetric
INVARIANTS TypeOK EffectsOnce SweptAfterWindow UndisturbedReviewMatches
PROPERTIES OutcomeSpec
