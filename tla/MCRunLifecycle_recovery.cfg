\* One caller and one run: the service stops within a save and starts again.
SPECIFICATION Spec
CONSTANTS
  Caller = {k1}
  Run = {r1}
  Tag = {g1, g2, g3}
  MaxLevel = 1
INVARIANTS
  RestartRecovers
