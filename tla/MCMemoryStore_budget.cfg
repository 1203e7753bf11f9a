\* A record of middling importance that does not fit the token budget.
SPECIFICATION MemorySpec
CONSTANTS
  t = t
  u = u
  a = a
  b = b
  c = c
  Title = {t, u}
  Body = {a, b, c}
  Decision = {a}
  Budget = 1
  TruncateTokens = 3
  MergeMax = 5
  File = {1, 2, 3}
  Input <- Modest
  Absent = Absent
  Junk = Junk
  NoFile = NoFile
  None = None
  Legacy <- Empty
INVARIANTS
  FixedPoint
