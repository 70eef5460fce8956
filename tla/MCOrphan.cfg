\* An account is deleted while its user publishes an event.
CONSTANTS
  org = org
  ann = ann
  bob = bob
  e1 = e1
  e2 = e2
  s1 = s1
  s2 = s2
  None = None
  User = {org, ann}
  Event = {e1}
  Session = {s1, s2}
  Organizer <- OneOrganizer
  Operations = {"create", "delete"}
  MaxCapacity = 1
  MaxRequests = 3
SPECIFICATION Spec
INVARIANTS
  NoOrphanedEvent
CHECK_DEADLOCK FALSE
