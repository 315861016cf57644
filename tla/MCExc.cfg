CONSTANTS
  x1 = x1
  x2 = x2
  x3 = x3
  C = C
  D = D
  Exceptions = {x1, x2, x3}
  ClassOf <- MCClassOf
  Like <- MCLike
  Wordless = {x3}
  Browsers = {"b"}
  Sizes = {1, 2}
  Occurrences = 3
SPECIFICATION FairSpec
CHECK_DEADLOCK FALSE
INVARIANTS
  RecordsSound
PROPERTIES
  Captured
