SPECIFICATION Spec
CONSTANTS
  r1 = r1
  r2 = r2
  r3 = r3
  p = p
  a = a
  b = b
  RunIds = {r1, r2}
  Paths = {p}
  Values = {a, b}
  Breaching = {a, b}
  NoValue = NoValue
  NoRead = NoRead
  Statements <- EitherValue
  MaxVersion = 2
  MaxKills = 0
SYMMETRY Alike
INVARIANT FindingsArePresented
CHECK_DEADLOCK FALSE
