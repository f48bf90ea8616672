SPECIFICATION Spec
CONSTANTS
  r1 = r1
  r2 = r2
  r3 = r3
  p = p
  a = a
  b = b
  RunIds = {r1, r2, r3}
  Paths = {p}
  Values = {a, b}
  Breaching = {b}
  NoValue = NoValue
  NoRead = NoRead
  Statements <- EitherValue
  MaxVersion = 2
  MaxKills = 1
SYMMETRY Alike
INVARIANTS TypeOK ProofsHoldUnlessClobbered
PROPERTIES FreshCommitsFillGaps FindingsComeTrue
CHECK_DEADLOCK FALSE
