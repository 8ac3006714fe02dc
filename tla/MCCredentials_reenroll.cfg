\* An administrator resets the second factor of an account that is completing its enrollment.
SPECIFICATION Spec
CONSTANTS
  Free = Free
  Users = {ada}
  Requests = {r1, r2}
  MaxCodes = 1
  MaxSecrets = 1
  MaxSessions = 2
PROPERTIES
  MfaResetClears
