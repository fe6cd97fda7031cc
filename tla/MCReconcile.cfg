SPECIFICATION Spec
CONSTANTS
  Sourced = {s1}
  Fallback = {f1}
  Subjects = {m1}
  States = {x, y}
  MaxGroup = 3
  None = None
  Unclear = Unclear
  Misled = Misled
SYMMETRY Symmetry
INVARIANTS
  TypeOK
  ReplayGivesBaseline
PROPERTIES
  DifferencesReported
