\* One campaign with every request two people can make of it.
\* No symmetry: BackstopHolds is a liveness property.
\* The instance runs out of steps.
SPECIFICATION FairSpec
CONSTANTS
  c1 = c1
  c2 = c2
  j1 = j1
  j2 = j2
  Campaigns = {c1}
  Phones = {1}
  Jobs = {j1}
  For <- SameCampaign
  File <- BothPhones
  Staff = {s1, s2}
  Worker = worker
  Requests = {"import", "launch", "pause", "archive", "delete"}
  MaxDecisions = 2
PROPERTIES
  BackstopHolds
  RejectionHolds
CHECK_DEADLOCK FALSE
