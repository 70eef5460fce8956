\* A guest joins an event that is over.
CONSTANTS
  org = org
  ann = ann
  bob = bob
  e1 = e1
  e2 = e2
  s1 = s1
  s2 = s2
  None = None
  User = {org, ann}
  Event = {e1}
  Session = {s1, s2}
  Organizer <- OneOrganizer
  Operations = {"create", "join"}
  MaxCapacity = 1
  MaxRequests = 3
SPECIFICATION FairSpec
PROPERTIES
  FinishedEventRefusesJoins
CHECK_DEADLOCK FALSE
