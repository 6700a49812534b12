---------------------------- MODULE MCCatalogSeed ----------------------------
(***************************************************************************)
(* Model-checking definitions for CatalogSeed.                             *)
(***************************************************************************)
EXTENDS CatalogSeed

Seed(key, id, type) == [key |-> key, id |-> id, type |-> type]

\* A resource type, a classification type and a value of it.
SomeRecords == <<Seed("domain", "101", ""), Seed("env", "501", ""), Seed("prod", "601", "env")>>

\* A baseline code under an id of the administrator's, a code of the administrator's
\* under an id of the baseline.
SomeEdits == {[key |-> "domain", id |-> "999"], [key |-> "extra", id |-> "501"]}
=============================================================================
