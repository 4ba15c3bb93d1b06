SPECIFICATION FairSpec
CONSTANTS
  in1 = in1
  d1 = d1
  right = right
  Events = {in1}
  Workers = {w1}
  NoEvent = NoEvent
  Outbound = {}
  Destination <- MCDestination
  Identities = {d1}
  NoIdentity = NoIdentity
  Banks = {right, wrong}
  NoBank = NoBank
  TargetBank <- MCTargetBank
  MaxAttempts = 2
  BatchSize = 1
  ConflictBound = 0
PROPERTY
  EventsDecided
CHECK_DEADLOCK FALSE
