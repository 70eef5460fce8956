\* One small instance of each of five modules, one at a time.
CONSTANTS
  None = None
  Gone = Gone
  a = a
  b = b
  p1 = p1
  p2 = p2
  b1 = b1
  e1 = e1
  e2 = e2
  m1 = m1
  m2 = m2
  k1 = k1
  k2 = k2
  s1 = s1
  s2 = s2
  Session = {s1, s2}
  Horizon = 3
  SecondLength = 2
  CodeLife = 2
  TokenLife = 2
  LimitWindow = 2
  RequestLimit = 1
  MaxAttempts = 1
  MaxCodes = 2
  MaxGuesses = 3
  User = {a, b}
  Id = {p1, p2, b1}
  Shop = {b1}
  Email = {m1, m2}
  Document = {k1, k2}
  Interest = {"rock", "jazz"}
  Device = {"phone"}
  Value = {"given", "other"}
  MaxRequests = 4
  Event = {e1, e2}
  Business = {b}
  Organizers <- EachOther
  EventSeeds <- SomeSeeds
  Tag = {"music", "rock", "punk", "jazz"}
  MaxTagDepth = 2
  MaxRow = 3
  MaxKey = 1
  Limits = {1, 2}
  MaxChanges = 2
SPECIFICATION Spec
SYMMETRY Interchangeable
INVARIANTS
  TypeOK
  GuessesCounted
  UsedCodesMadeChanges
  FreshLoginAccepted
  UniqueAccounts
  DeletedStaysBlank
  ListedCanBeOpened
  CountersMatchLists
  OfferedActionsAccepted
  LocationsAgree
  EachRowOnce
  GroupedUnderRoot
PROPERTIES
  LoneWritesLand
CHECK_DEADLOCK FALSE
