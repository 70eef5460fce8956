\* One event, two people who were there, one photo each, one failure.
CONSTANTS
  None = None
  a = a
  b = b
  s1 = s1
  s2 = s2
  o1 = o1
  o2 = o2
  User = {a, b}
  Organizer = b
  Session = {s1, s2}
  Object = {o1, o2}
  PhotoLimit = 1
  MaxFailures = 1
SPECIFICATION Spec
SYMMETRY Interchangeable
INVARIANTS
  PhotoLimitHolds
  ShownPhotosExist
  NothingLeaks
CHECK_DEADLOCK FALSE
