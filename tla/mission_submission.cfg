SPECIFICATION Spec
CONSTANTS
  Tabs = {t1, t2}
  Addresses = {a, b}
  Combinations = 4
  Stride = 3
  RetiredBelow = 1
  MaxBegun = 3
  t1 = t1
  t2 = t2
  a = a
  b = b
SYMMETRY Interchangeable
INVARIANT NamesNeverRepeat
INVARIANT MailMeetsTheHash
CHECK_DEADLOCK FALSE
