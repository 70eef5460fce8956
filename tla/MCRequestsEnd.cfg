\* Requests between an organizer and a guest that wait for locks, with fairness.
CONSTANTS
  org = org
  ann = ann
  bob = bob
  e1 = e1
  e2 = e2
  s1 = s1
  s2 = s2
  None = None
  User = {org, ann}
  Event = {e1}
  Session = {s1, s2}
  Organizer <- OneOrganizer
  Operations = {"create", "join", "leave", "cancel", "reschedule", "block", "unblock"}
  MaxCapacity = 1
  MaxRequests = 4
SPECIFICATION FairSpec
PROPERTIES
  EveryRequestEnds
CHECK_DEADLOCK FALSE
