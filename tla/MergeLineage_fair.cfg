\* Two concurrent requests over three resources and an unknown id between them.
CONSTANTS
  Ids = {1, 2, 3, 4}
  Resources = {1, 3, 4}
  Writers = {w1, w2}
  TriggerDepth = 4
  NoOne = NoOne
SPECIFICATION FairSpec
INVARIANTS ShortCycleFree ChecksStillHold NoDeadlock
PROPERTIES ImplementsHistory MergesRecordedOnce RequestsEnd
