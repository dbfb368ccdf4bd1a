\* Two executions, one of them perhaps of a job whose lease lapsed, and one agent.
SPECIFICATION Spec
CONSTANTS
  Runs = {r1, r2}
  Agents = {a1}
  Candidates = 2
  Budget = 3
  TopRank = 1
  MaxBegins = 3
  MaxManual = 1
SYMMETRY Symmetry
INVARIANTS
  TrialsCounted
  FinalTestOnce
  AllTried
PROPERTIES
  VerdictStands
CHECK_DEADLOCK FALSE
