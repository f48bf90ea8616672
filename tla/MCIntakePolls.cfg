SPECIFICATION FairSpec
CONSTANTS
  t1 = t1
  t2 = t2
  u1 = u1
  MaxFiles = 3
  Texts = {t1, t2}
  Text <- CopiedTexts
  Full = 3
  Unsupported = {3}
  Uploaders = {u1}
  Nothing = Nothing
  SteadyWriters = TRUE
INVARIANTS TypeOK WholeFilesOnly NamedAtMostOnce ArrivalsAreNamed
PROPERTY WholeFilesArrive
