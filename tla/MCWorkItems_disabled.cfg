\* A request for a contact is let in, and its agent is then disabled.
SPECIFICATION Spec
CONSTANTS
  ada = ada
  bob = bob
  spring = spring
  autumn = autumn
  p1 = p1
  p2 = p2
  NoAgent = NoAgent
  Agents = {ada, bob}
  Campaigns = {spring}
  Phones = {p1}
  Items = {"x"}
  CampaignOf <- SoleCampaign
  PhoneOf <- SolePhone
  AssignmentTypes = {"primary"}
  Keys = {1}
  LeaseDuration = 1
  RetryDelay = 1
  DefaultMaxAttempts = 2
  MaxSkipsBeforeReview = 2
  Dispositions = {}
  Movable = {}
  Disablable = {bob}
  Stoppable = {}
  Toggles = {}
  Contention = FALSE
  MaxTime = 3
  MaxLeases = 2
  MaxAttemptCeiling = 3
INVARIANTS
  HolderIsEnabled
CHECK_DEADLOCK FALSE
