CONSTANTS
  t1 = t1
  t2 = t2
  t3 = t3
  d1 = d1
  d2 = d2
  Tab = {t1, t2, t3}
  Device = {d1, d2}
  DeviceOf <- TwoDevices
  Handler = {h1, h2}
  MaxSession = 2
  MaxPair = 3
  MaxFaults = 1
  None = None
SPECIFICATION Spec
INVARIANTS TypeOK OneSession SuspendedStaysOut KeptSignedIn LogoutSticks
CHECK_DEADLOCK FALSE
SYMMETRY Symmetry
