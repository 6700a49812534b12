\* A client reads two resources, or an unknown one, time and again while they change.
CONSTANTS
  Ids = {"r1", "r2", "r3"}
  Resources = {"r1", "r2"}
  States = {live}
  Times = {1, 2}
  Facts <- SomeFacts
  Null = Null
  MaxWrites = 4
SPECIFICATION Spec
INVARIANTS TypeOK OneOrNone PrimaryIsListed
PROPERTIES NothingTakenBack HistoryAgrees
