\* Agents of two campaigns are moved, disabled with a request under way and reactivated,
\* a campaign is stopped and callbacks are switched off, while rows are locked.
\* No symmetry: one property is temporal.
\* The clock and the lease counter are bounded, so the instance runs out of steps.
SPECIFICATION FairSpec
CONSTANTS
  ada = ada
  bob = bob
  spring = spring
  autumn = autumn
  p1 = p1
  p2 = p2
  NoAgent = NoAgent
  Agents = {ada, bob}
  Campaigns = {spring, autumn}
  Phones = {p1, p2}
  Items = {"x", "y"}
  CampaignOf <- TwoCampaigns
  PhoneOf <- TwoPhones
  AssignmentTypes = {"primary"}
  Keys = {1}
  LeaseDuration = 2
  RetryDelay = 1
  DefaultMaxAttempts = 2
  MaxSkipsBeforeReview = 2
  Dispositions = {"callback"}
  Movable = {ada}
  Disablable = {bob}
  Stoppable = {spring}
  Toggles = {"callbacks_enabled"}
  Contention = TRUE
  MaxTime = 4
  MaxLeases = 2
  MaxAttemptCeiling = 3
INVARIANTS
  LeaseIdentity
  OneContactPerAgent
PROPERTIES
  GrantJustified
  LiveLeaseKept
  ExpiredLeaseReclaimed
CHECK_DEADLOCK FALSE
