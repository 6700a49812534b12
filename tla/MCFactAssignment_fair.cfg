\* Two requests that lock one resource or two, one id and one type among them unknown,
\* and insert rows with unique keys of the tenant or of a resource.
CONSTANTS
  Ids = {1, 2, 3}
  Resources = {1, 3}
  Kinds = {"alias", "relationship"}
  Groups = {g, u}
  Values = {v}
  TypeOf <- Types
  Stray = x
  OtherType = h
  Unknown = {u}
  Writers = {w1, w2}
  NoOne = NoOne
  MaxFacts = 2
SPECIFICATION FairSpec
INVARIANTS NoDeadlock
PROPERTIES RequestsEnd
