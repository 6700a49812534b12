\* Two requests and another caller share two connections and a row.  The values of
\* the commands lie on and beside the bounds of the rules.
CONSTANTS
  Units = {r1, r2, c}
  PoolSize = 2
  Nobody = Nobody
  Requests = {r1, r2}
  Priorities = {0, 1000, 1001}
  Scores = {0, 4, 99996, 100000, 100001}
  Times = {1, 2}
  Endpoints = {a, b}
SPECIFICATION FairSpec
INVARIANTS RowsMeetChecks StatusTellsEffect HandsBack
PROPERTIES ImplementsScope RequestsEnd
