SPECIFICATION SendSpec
CONSTANTS
  c1 = c1
  c2 = c2
  i1 = i1
  k1 = k1
  k2 = k2
  home = home
  proj = proj
  state = state
  agent = agent
  p1 = p1
  p2 = p2
  p3 = p3
  none = none
  agentID = agentID
  Ids = {c1, c2}
  Paths = {p1, p2, p3}
  Dirs = {home, proj, state, agent}
  Leads <- PathsLead
  Within <- Tree
  Root = home
  StateDir = state
  AgentDir = agent
  AgentWorkspaceID = agentID
  HasCredentials = TRUE
  Configurations <- Three
  None = none
  Clients = {i1}
  Keys = {k1, k2}
  KeyOf <- OneKey
  MaxTexts = 2
  MaxAccepted = 2
INVARIANTS
  SendInv
  PlacementInv
PROPERTIES
  SendsEnd
