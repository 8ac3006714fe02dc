\* Every kind of file, one client, a sweep that keeps running.
\* No symmetry: UploadsRetire is a liveness property. Decisions, tries and changes elsewhere are bounded.
SPECIFICATION FairSpec
CONSTANTS
  up = up
  ap = ap
  x = x
  n = n
  team = team
  role = role
  viewer = viewer
  camp = camp
  p1 = p1
  p2 = p2
  Nobody = Nobody
  Users <- MCUsers
  Actors <- MCActors
  Files <- AllFiles
  Workforce <- MCWorkforce
  Reach <- MCReach
  Gated = {viewer}
  Capacity = 1
  Clients = {c1}
  Keys = {k1}
  MaxDecisions = 2
  MaxTries = 1
  MaxOutside = 1
INVARIANTS
  TypeOK
PROPERTIES
  UploadsRetire
CHECK_DEADLOCK FALSE
