\* One request at a time, with a confidence score finer than the column.
CONSTANTS
  Ids = {r1}
  Resources = {r1}
  Writers = {w1}
  Statuses = {live}
  Scores = {0, 1}
  Grain = 2
  Sources = {scan}
  Backfill = migration_backfill
  MaxTime = 3
  NoOne = NoOne
SPECIFICATION Spec
INVARIANTS NoOpRejected
