\* Files two people can fight over: two clients commit and reverse while one change is made
\* elsewhere. Decisions, tries and changes elsewhere are bounded.
SPECIFICATION Spec
CONSTANTS
  up = up
  ap = ap
  x = x
  n = n
  team = team
  role = role
  viewer = viewer
  camp = camp
  p1 = p1
  p2 = p2
  Nobody = Nobody
  Users <- MCUsers
  Actors <- MCActors
  Files <- FewFiles
  Workforce <- MCWorkforce
  Reach <- MCReach
  Gated = {viewer}
  Capacity = 1
  Clients = {c1, c2}
  Keys = {k1}
  MaxDecisions = 2
  MaxTries = 1
  MaxOutside = 1
SYMMETRY ClientSymmetry
INVARIANTS
  TwoPersonRule
  OneLinkPerSlot
PROPERTIES
  EffectsAreAuthorized
  RejectedStaysOut
  ReversalKeepsOthers
  ReversedOnce
CHECK_DEADLOCK FALSE
