\* One number imported into two campaigns, with every outcome a call can have and two
\* idempotency keys.
\* The clock and the lease counter are bounded, so the instance runs out of steps.
SPECIFICATION Spec
CONSTANTS
  ada = ada
  bob = bob
  spring = spring
  autumn = autumn
  p1 = p1
  p2 = p2
  NoAgent = NoAgent
  Agents = {ada, bob}
  Campaigns = {spring, autumn}
  Phones = {p1}
  Items = {"x", "y"}
  CampaignOf <- TwoCampaigns
  PhoneOf <- OnePhone
  AssignmentTypes = {"primary"}
  Keys = {1, 2}
  LeaseDuration = 1
  RetryDelay = 1
  DefaultMaxAttempts = 2
  MaxSkipsBeforeReview = 2
  Dispositions = {"complete", "review", "requeue", "retry_wait", "immediate_redial", "callback", "explicit_dnc"}
  Movable = {}
  Disablable = {}
  Stoppable = {}
  Toggles = {}
  Contention = FALSE
  MaxTime = 3
  MaxLeases = 3
  MaxAttemptCeiling = 3
SYMMETRY AgentSymmetry
INVARIANTS
  TypeOK
  SuppressionIsFinal
  ContactFollowsWork
  LeaseUsedOnce
  AttemptLedger
  WaitingItemsAreDue
  CeilingRespected
PROPERTIES
  ClosedStaysClosed
  DisclosureSpec
CHECK_DEADLOCK FALSE
