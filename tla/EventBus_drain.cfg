SPECIFICATION Spec
CONSTANTS
  e1 = e1
  e2 = e2
  e3 = e3
  t1 = t1
  t2 = t2
  s1 = s1
  s2 = s2
  s3 = s3
  NoEvent = NoEvent
  Events = {e1, e2, e3}
  Types = {t1, t2}
  Subscribers = {s1, s3}
  TypeOf <- OneTypeOf
  PriorityOf <- MixedPriority
  Interest <- MCInterest
  QueueSize = 1
  HandlersCancel = FALSE
INVARIANT ShutdownDrainsAll
