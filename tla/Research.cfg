\* Two attempts that may overlap, two decisions, one worker that starts meanwhile.
SPECIFICATION Spec
CONSTANTS
  MaxAttempts = 2
  Decisions = 2
  Values = {v1, v2}
  Opening = Opening
  MaxBoots = 1
SYMMETRY Symmetry
INVARIANTS
  TypeOK
  OneHistory
  ResultStands
  SuccessIsComplete
  
  NoneStranded
CHECK_DEADLOCK FALSE
