\* Two calls in flight, two migrations, one fault.
SPECIFICATION Spec
CONSTANTS
  Calls = {c1, c2}
  Passwords = {p1, p2}
  Latest = 2
  MaxFaults = 1
INVARIANT ServedIsBacked
PROPERTY DeletedIsGone
CHECK_DEADLOCK FALSE
