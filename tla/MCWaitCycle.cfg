\* A cancellation and a request to join wait for each other.
CONSTANTS
  org = org
  ann = ann
  bob = bob
  e1 = e1
  e2 = e2
  s1 = s1
  s2 = s2
  None = None
  User = {org, ann}
  Event = {e1}
  Session = {s1, s2}
  Organizer <- OneOrganizer
  Operations = {"create", "join", "cancel"}
  MaxCapacity = 1
  MaxRequests = 4
SPECIFICATION Spec
INVARIANTS
  NoWaitCycle
CHECK_DEADLOCK FALSE
