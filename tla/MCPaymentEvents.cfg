SPECIFICATION FairSpec
CONSTANTS
  in1 = in1
  d1 = d1
  right = right
  Events = {in1, out}
  Workers = {w1, w2}
  NoEvent = NoEvent
  Outbound = {out}
  Destination <- MCDestination
  Identities = {d1}
  NoIdentity = NoIdentity
  Banks = {right, wrong}
  NoBank = NoBank
  TargetBank <- MCTargetBank
  MaxAttempts = 3
  BatchSize = 2
  ConflictBound = 1
INVARIANTS
  SettledOnce
  SettledWhereItArrived
PROPERTIES
  DoubtIsListed
  DecisionIsFinal
  DisputedNeverSettles
  EventsProgress
CHECK_DEADLOCK FALSE
