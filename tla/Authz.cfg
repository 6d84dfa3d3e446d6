SPECIFICATION FairSpec
CONSTANTS
  Worker = {c1}
  Writer = {w1}
  u = u
  g = g
  h = h
  o = o
  Entity = {u, g, h}
  Resource = {o}
  Tuple <- Tuples
  Query <- Queries
  WriteLevel = {"read", "admin"}
  Legacy <- OldEdges
  Globbed = {}
  TTL = 2
  MaxTopic = 1
  None = None
INVARIANTS
  DecisionIsEntitlement
  StaleIsExplained
PROPERTY StaleExpires
