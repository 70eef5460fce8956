\* Two edits of the dates of an event.
CONSTANTS
  ann = ann
  s1 = s1
  s2 = s2
  c1 = c1
  c2 = c2
  None = None
  Keep = Keep
  User = {}
  Session = {s1, s2}
  Cover = {c1, c2}
  Created <- Events
  Changes <- DateChanges
  Horizon = 3
  Window = 1
  MaxEdits = 2
  MaxCrashes = 1
SPECIFICATION Spec
INVARIANTS
  EndsAfterStarts
CHECK_DEADLOCK FALSE
