\* The smallest instance in which two transactions share no row.
CONSTANTS
  Ids = {1, 2, 3, 4}
  Resources = {1, 2, 3, 4}
  Writers = {w1, w2}
  TriggerDepth = 5
  NoOne = NoOne
SPECIFICATION Spec
SYMMETRY WriterSymmetry
INVARIANTS Acyclic
