\* One account, two requests at a time: codes, a session and an enrollment.
\* RequestSymmetry is sound: no property is a liveness property.
SPECIFICATION Spec
CONSTANTS
  Free = Free
  Users = {ada}
  Requests = {r1, r2}
  MaxCodes = 2
  MaxSecrets = 1
  MaxSessions = 2
SYMMETRY RequestSymmetry
INVARIANTS
  TypeOK
  OneUsableCode
  PasswordOrCode
PROPERTIES
  OnlyCurrentCodeActivates
  StaleCopiesUndoNothing
