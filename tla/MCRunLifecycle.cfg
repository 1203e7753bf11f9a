\* Two callers, two runs and four requests, with crashes and failing writes.
SPECIFICATION Spec
CONSTANTS
  Caller = {k1, k2}
  Run = {r1, r2}
  Tag = {g1, g2, g3, g4}
  MaxLevel = 1
SYMMETRY Symmetry
INVARIANTS
  ActiveIntact
  AppliedOnce
  RunningIsMine
PROPERTIES
  ImplementsRegister
CONSTRAINT SmallDisk
