\* Two transitions of one resource, which may have a backfilled state row.
CONSTANTS
  Ids = {r1, r2}
  Resources = {r1}
  Writers = {w1, w2}
  Statuses = {live, retired}
  Scores = {0, 1}
  Grain = 2
  Sources = {scan}
  Backfill = migration_backfill
  MaxTime = 2
  NoOne = NoOne
SPECIFICATION Spec
SYMMETRY Symmetry
INVARIANTS IntervalsTile SnapshotIsCurrentState ReadsStayCurrent
PROPERTIES HistoryIsKept ImplementsTimeline
