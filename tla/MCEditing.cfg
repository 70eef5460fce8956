\* Edits, cancellation, comings and goings and the job around one event.
CONSTANTS
  ann = ann
  s1 = s1
  s2 = s2
  c1 = c1
  c2 = c2
  None = None
  Keep = Keep
  User = {ann}
  Session = {s1, s2}
  Cover = {c1, c2}
  Created <- Events
  Changes <- FewChanges
  Horizon = 3
  Window = 1
  MaxEdits = 2
  MaxCrashes = 1
SPECIFICATION FairSpec
INVARIANTS
  WarnedOnce
  LoneEditsConsistent
  RescheduleReachesAll
PROPERTIES
  CancelledStays
  EveryoneWarned
CHECK_DEADLOCK FALSE
