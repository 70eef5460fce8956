\* One event, two guests, every kind of request but unblocking, two at a time.
CONSTANTS
  org = org
  ann = ann
  bob = bob
  e1 = e1
  e2 = e2
  s1 = s1
  s2 = s2
  None = None
  User = {org, ann, bob}
  Event = {e1}
  Session = {s1, s2}
  Organizer <- OneOrganizer
  Operations = {"join", "accept", "answer", "leave", "cancel", "reschedule", "create", "block", "delete"}
  MaxCapacity = 1
  MaxRequests = 4
SPECIFICATION Spec
SYMMETRY Interchangeable
INVARIANTS
  TypeOK
  BlockSeparates
  LockOrderFollowed
  OnlyNoticesDeadlock
  DeletedKeepNothing
PROPERTIES
  NobodyEntersCancelledEvent
  ImplementsLifecycle
CHECK_DEADLOCK FALSE
