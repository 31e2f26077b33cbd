SPECIFICATION Spec
CONSTANTS
  Requests = {r1, r2}
  Keys = {a, b}
  a = a
  b = b
  c1 = c1
  c2 = c2
  c3 = c3
  Calls = {c1, c2, c3}
  KeyOf <- MCKeyOf
  MonthLength = 2
  Overlap = 1
  MaxTime = 3
  MaxCharges = 1
  MaxFailures = 1
SYMMETRY Symmetry
INVARIANT CreditInv
INVARIANT CallsStayInReach
CHECK_DEADLOCK FALSE
