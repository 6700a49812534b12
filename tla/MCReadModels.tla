---------------------------- MODULE MCReadModels ----------------------------
(***************************************************************************)
(* Model-checking definitions for ReadModels.                              *)
(***************************************************************************)
EXTENDS ReadModels

Fact(kind, resource, value, primary) ==
  [kind |-> kind, resource |-> resource, value |-> value, primary |-> primary]

\* Two claims to the place of the primary owner, one to an identifier that another
\* resource claims as well, an alias, and a relationship between the resources.
SomeFacts ==
  {Fact("ownership", "r1", "org1", TRUE), Fact("ownership", "r1", "org2", TRUE),
   Fact("identifier", "r1", "x", FALSE), Fact("identifier", "r2", "x", FALSE),
   Fact("alias", "r1", "y", FALSE), Fact("relationship", "r1", "r2", FALSE)}
=============================================================================
