\* Longer histories of the requests that give and take seats.
CONSTANTS
  org = org
  ann = ann
  bob = bob
  e1 = e1
  e2 = e2
  s1 = s1
  s2 = s2
  None = None
  User = {org, ann, bob}
  Event = {e1}
  Session = {s1, s2}
  Organizer <- OneOrganizer
  Operations = {"create", "join", "accept", "answer", "leave"}
  MaxCapacity = 1
  MaxRequests = 6
SPECIFICATION Spec
SYMMETRY Interchangeable
INVARIANTS
  CapacityRespected
  GrantStaysValid
  RequestNoticesMatch
PROPERTIES
  AnswersAreFinal
CHECK_DEADLOCK FALSE
