SPECIFICATION BasisSpec
CONSTANTS
  c1 = c1
  c2 = c2
  c3 = c3
  c4 = c4
  v1 = v1
  v2 = v2
  v3 = v3
  p1 = p1
  Cases = {c1, c2}
  Vendors = {v1, v2, v3}
  Materials = {"VAL-1"}
  Plants = {p1}
  Line <- MCLine
  Group <- MCGroup
  Approved <- MCApproved
  Fixed = {}
  History <- MCHistory
  Curve <- MCCurve
  Book <- MCBook
  Score <- MCScore
  Rate <- MCRate
  Seeds <- MCSeeds
  Prices = {6}
  Limit = 2
  TargetPct = 5
  Fallible = {v2}
  MaxEdits = 1
  MaxAwards = 2
INVARIANTS PricesFollowAwards AgentKeepsToTheLimit
PROPERTIES PersonsRowsStay
CHECK_DEADLOCK FALSE
