SPECIFICATION Spec
CONSTANTS
  Session = {s1, s2}
  Mutexes = {m1, m2}
  Nobody = nobody
  Descr <- MCDescr
  Letter = {"a", "b"}
  Start = 1
  Dead = 0
  Step <- MCStep
  StepFuel = 3
  MaxStates = 4
  SharedClones = TRUE
  Panics = TRUE
INVARIANTS TypeOK LexerAtHome StateIdsValid FailsOnlyByItsFamily
PROPERTY HealthyMask
SYMMETRY Symmetry
CHECK_DEADLOCK FALSE
