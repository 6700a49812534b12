\* Two requests that identify, classify, label or name owners of two resources; one of
\* the values belongs to a classification type that no request names.
CONSTANTS
  Ids = {1, 2}
  Resources = {1, 2}
  Kinds = {"identifier", "label", "ownership", "classification"}
  Groups = {g}
  Values = {v, x}
  TypeOf <- Types
  Stray = x
  OtherType = h
  Unknown = {}
  Writers = {w1, w2}
  NoOne = NoOne
  MaxFacts = 1
SPECIFICATION Spec
SYMMETRY Symmetry
INVARIANTS ChecksStillHold
PROPERTIES ImplementsFactStore IdentityIsStable
