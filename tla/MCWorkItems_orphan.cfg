\* A callback skipped back to the queue outlives its owner's assignment.
SPECIFICATION Spec
CONSTANTS
  ada = ada
  bob = bob
  spring = spring
  autumn = autumn
  p1 = p1
  p2 = p2
  NoAgent = NoAgent
  Agents = {ada, bob}
  Campaigns = {spring, autumn}
  Phones = {p1}
  Items = {"x"}
  CampaignOf <- SoleCampaign
  PhoneOf <- SolePhone
  AssignmentTypes = {"primary"}
  Keys = {1}
  LeaseDuration = 1
  RetryDelay = 1
  DefaultMaxAttempts = 2
  MaxSkipsBeforeReview = 2
  Dispositions = {"callback"}
  Movable = {ada}
  Disablable = {}
  Stoppable = {}
  Toggles = {}
  Contention = FALSE
  MaxTime = 3
  MaxLeases = 3
  MaxAttemptCeiling = 3
INVARIANTS
  NoOrphanedCallback
CHECK_DEADLOCK FALSE
