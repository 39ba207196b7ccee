SPECIFICATION Spec
CONSTANTS
  s1 = s1
  s2 = s2
  own = own
  other = other
  ATL = ATL
  BOS = BOS
  granted = granted
  foreign = foreign
  o1 = o1
  r1 = r1
  a1 = a1
  a2 = a2
  e1 = e1
  e2 = e2
  None = None
  Sessions <- MCSessions
  Segments <- MCSegments
  SegmentOf <- MCSegmentOf
  AirportOf <- MCAirportOf
  PermissionsOf <- MCPermissionsOf
  Airports <- MCAirports
  Permissions <- MCPermissions
  Tables <- MCTables
  Results <- MCResults
  Offered <- MCOffered
  Observations = {o1}
  Attempts = {r1}
  Accounts <- MCAccounts
  Errors <- MCErrors
  Times <- MCTimes
  MaxAge = 0
SYMMETRY Symmetry
INVARIANTS
  ReadyOnEvidence
  AcknowledgedIsStored
