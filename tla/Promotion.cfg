\* Three versions and two promotions beside one execution of the bound experiment.
SPECIFICATION PromotionSpec
CONSTANTS
  Runs = {r1}
  Agents = {g1}
  Candidates = 1
  Budget = 1
  TopRank = 1
  MaxBegins = 2
  MaxManual = 0
  Artifacts = {a1, a2, a3}
  Bound = a1
  Callers = {p1, p2}
SYMMETRY Symmetry
INVARIANTS
  EvidenceStands
  OneActive
CHECK_DEADLOCK FALSE
