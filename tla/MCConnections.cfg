\* Three people, every kind of request, two of them at a time.
CONSTANTS
  ann = ann
  bob = bob
  cat = cat
  s1 = s1
  s2 = s2
  None = None
  User = {ann, bob, cat}
  Session = {s1, s2}
  MaxRequests = 5
SPECIFICATION Spec
SYMMETRY Interchangeable
INVARIANTS
  FoundPairStaysFree
  BlockSeparates
  RequestNoticesMatch
  DeletedKeepNoRelation
  NoWaitCycle
PROPERTIES
  SettledOnce
  ImplementsRelations
CHECK_DEADLOCK FALSE
