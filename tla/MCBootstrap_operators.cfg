\* Three operators, three runs each; the command stops when every run is used.
SPECIFICATION Spec
CONSTANTS
  Operators = {o1, o2, o3}
  Nobody = Nobody
  MaxRuns = 3
SYMMETRY OperatorSymmetry
INVARIANTS
  OneFirstAdministrator
PROPERTIES
  CodeKept
CHECK_DEADLOCK FALSE
