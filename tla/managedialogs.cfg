SPECIFICATION Spec
CONSTANTS
  Tabs = {t1, t2}
  Keys = {k1, k2}
  Values = {v1, v2}
  Blank = Blank
  NoTab = NoTab
  Slots = {s1, s2}
  Initial <- MCInitial
  MaxActs = 5
INVARIANTS
  TypeOK
  SurvivesRestart
PROPERTIES
  SavesAreEdits
  AnswersCloseTheirOwn
CONSTRAINT
  FewExcuses
SYMMETRY
  Symmetry
CHECK_DEADLOCK FALSE
