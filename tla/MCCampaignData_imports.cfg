\* Two files with the same two numbers, for two campaigns, committed, worked, suppressed,
\* swept and deleted by two people and the worker.
\* The clocks stop, and files are not uploaded again: the instance runs out of steps.
SPECIFICATION Spec
CONSTANTS
  c1 = c1
  c2 = c2
  j1 = j1
  j2 = j2
  Campaigns = {c1, c2}
  Phones = {1, 2}
  Jobs = {j1, j2}
  For <- EachItsOwn
  File <- BothPhones
  Staff = {s1, s2}
  Worker = worker
  Requests = {"import", "launch", "delete"}
  MaxDecisions = 1
SYMMETRY StaffSymmetry
INVARIANTS
  TypeOK
  SuppressedNeverQueued
  ImportsNeverDeadlock
PROPERTIES
  OutcomeIsFinal
CHECK_DEADLOCK FALSE
