\* A participant joins while the event is being cancelled.
CONSTANTS
  org = org
  ann = ann
  bob = bob
  e1 = e1
  e2 = e2
  s1 = s1
  s2 = s2
  None = None
  User = {org, ann}
  Event = {e1}
  Session = {s1, s2}
  Organizer <- OneOrganizer
  Operations = {"create", "join", "cancel"}
  MaxCapacity = 1
  MaxRequests = 3
SPECIFICATION Spec
INVARIANTS
  CancellationReachesEveryone
CHECK_DEADLOCK FALSE
