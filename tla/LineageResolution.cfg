\* One merge request and one resolution over four resources and an unknown id.  The
\* trigger bound lets lineages of three and four edges close, so that the guards of
\* the walk against cycles and depth are both met.
CONSTANTS
  Ids = {1, 2, 3, 4, 5}
  Resources = {1, 2, 3, 4}
  Writers = {w1}
  TriggerDepth = 2
  NoOne = NoOne
  Readers = {q1}
  MaxDepth = 3
SPECIFICATION ResolutionSpec
INVARIANTS ResolutionTypeOK ErrorsAreJustified CyclesExceedBound
PROPERTIES ResolutionIsLinearizable
