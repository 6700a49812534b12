\* Two overlapping requests.
CONSTANTS
  Names = {n1, n2}
  References = {c}
  Unknown = {}
  Writers = {w1, w2}
  Instants = {1, 2}
  SequenceMax = 1
SPECIFICATION Spec
INVARIANTS NamesUnique
