SPECIFICATION IdSpec
CONSTANTS
  Clock <- MCClock
  Milliseconds = {0, 1, 2, 998, 999}
  XorWords <- Xor16
  MaxLaunches = 2
INVARIANTS
  UniqueInWindow
