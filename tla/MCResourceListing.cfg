\* Overlapping creations, with a catalog row that is deactivated and one that is
\* missing, beside a walk in pages of one row; the clock may be set back.
CONSTANTS
  Names = {n1}
  References = {c, u}
  Unknown = {u}
  Writers = {w1, w2, w3}
  Instants = {1, 2}
  SequenceMax = 1
  PageSizes = {0, 1, 2}
  MinPageSize = 1
  MaxPageSize = 1
  Filters = {{"status"}, {"value"}}
  Attributes = {"status"}
SPECIFICATION ListingSpec
SYMMETRY Symmetry
INVARIANTS ListingTypeOK PagesInOrder NothingSteadySkipped IdsDistinct DuplicatesOverlap
