\* Appointments in a chain, loans, teams and accounts, while time passes.
\* The bounds, and everyone being disabled, leave nothing to do.
SPECIFICATION Spec
CONSTANTS
  Users = {root, mia, tim}
  Founder = root
  Organization = "org"
  Teams = {"x"}
  Campaigns <- TwoCampaigns
  Requests = {r1}
  Offers <- ChainOffers
  Loans <- TeamLoans
  Asked <- AskedCapabilities
  MaxRoles = 3
  MaxDelegations = 1
  MaxTime = 1
SYMMETRY StaffSymmetry
INVARIANTS
  NoEscalation
  LookupsAgree
  TypeOK
  AuditedAreListed
PROPERTIES
  LosingAuthorityEndsSessions
CHECK_DEADLOCK FALSE
