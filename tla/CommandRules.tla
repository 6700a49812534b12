---------------------------- MODULE CommandRules ----------------------------
(***************************************************************************)
(* What a write command must satisfy: the transport schemas, the           *)
(* validators the handlers run before they open a Unit of Work, and the    *)
(* CHECK constraints of the tables the rows go to.  Only the columns that  *)
(* are checked are kept; ids are compared where a command has two of them. *)
(***************************************************************************)
EXTENDS Integers

CONSTANTS
  Priorities,  \* source priorities a client sends
  Scores,      \* confidence scores, in hundred-thousandths
  Times,       \* instants
  Endpoints    \* resource ids

ASSUME RuleConstants ==
  /\ Priorities \subseteq Int
  /\ Scores \subseteq Int
  /\ Times \subseteq Int

\* Strings up to what the rules tell apart: str.strip() removes every whitespace
\* character, btrim removes spaces.
Strings == {"empty", "spaces", "tabs", "word"}
Null == "null"
OptionalStrings == Strings \union {Null}

Blank(text) == text \in {"empty", "spaces", "tabs"}
TrimmedEmpty(text) == text \in {"empty", "spaces"}

Datetimes == [aware : BOOLEAN, at : Times]

(***************************************************************************)
(* The commands                                                            *)
(***************************************************************************)
CreateCommands ==
  [kind : {"create"}, canonical_name : Strings, display_name : Strings,
   source_priority : Priorities, confidence_score : Scores,
   first_seen_at : Datetimes, last_seen_at : Datetimes]

TransitionCommands ==
  [kind : {"transition"}, source_priority : Priorities, confidence_score : Scores,
   transitioned_at : Datetimes, source : OptionalStrings]

IdentifierCommands ==
  [kind : {"identifier"}, original_value : Strings, normalized_value : Strings,
   value_hash : Strings, namespace : OptionalStrings, confidence_score : Scores,
   valid_from : Datetimes]

OwnershipCommands ==
  [kind : {"ownership"}, confidence_score : Scores, valid_from : Datetimes,
   source : OptionalStrings]

ClassificationCommands ==
  [kind : {"classification"}, confidence_score : Scores, valid_from : Datetimes,
   source : OptionalStrings]

LabelCommands ==
  [kind : {"label"}, valid_from : Datetimes, source : OptionalStrings]

RelationshipCommands ==
  [kind : {"relationship"}, source_resource_id : Endpoints,
   target_resource_id : Endpoints, confidence_score : Scores,
   valid_from : Datetimes, source : OptionalStrings]

AliasCommands ==
  [kind : {"alias"}, alias_type : Strings, alias_value : Strings,
   normalized_value : Strings, source : OptionalStrings,
   first_seen_at : Datetimes, last_seen_at : Datetimes]

MergeCommands ==
  [kind : {"merge"}, source_resource_id : Endpoints, target_resource_id : Endpoints,
   merged_at : Datetimes, reason : OptionalStrings, source : OptionalStrings]

AllCommands ==
  UNION {CreateCommands, TransitionCommands, IdentifierCommands, OwnershipCommands,
         ClassificationCommands, LabelCommands, RelationshipCommands, AliasCommands,
         MergeCommands}

(***************************************************************************)
(* The schemas of the five routes that write: every datetime has an offset *)
(***************************************************************************)
Routed == {"create", "transition", "identifier", "ownership", "classification"}

ParsedCreate(c) == c.first_seen_at.aware /\ c.last_seen_at.aware
ParsedTransition(c) == c.transitioned_at.aware
ParsedFact(c) == c.valid_from.aware

Parsed(c) ==
  CASE c.kind = "create" -> ParsedCreate(c)
    [] c.kind = "transition" -> ParsedTransition(c)
    [] OTHER -> ParsedFact(c)

(***************************************************************************)
(* The validators                                                          *)
(***************************************************************************)
\* Mutant: only the empty string is blank.
FilledIfAny(text) == text # "empty"

Filled(text) == ~Blank(text)
FilledOrNull(text) == text = Null \/ Filled(text)
PriorityInRange(priority) == 0 <= priority /\ priority <= 1000
ScoreInRange(score) == 0 <= score /\ score <= 100000
SeenInOrder(c) ==
  /\ c.first_seen_at.aware
  /\ c.last_seen_at.aware
  /\ c.first_seen_at.at <= c.last_seen_at.at

ValidCreate(c) ==
  /\ Filled(c.canonical_name)
  /\ Filled(c.display_name)
  /\ PriorityInRange(c.source_priority)
  /\ ScoreInRange(c.confidence_score)
  /\ SeenInOrder(c)

ValidTransition(c) ==
  /\ PriorityInRange(c.source_priority)
  /\ ScoreInRange(c.confidence_score)
  /\ c.transitioned_at.aware
  /\ FilledOrNull(c.source)

ValidIdentifier(c) ==
  /\ Filled(c.original_value)
  /\ Filled(c.normalized_value)
  /\ Filled(c.value_hash)
  /\ FilledOrNull(c.namespace)
  /\ ScoreInRange(c.confidence_score)
  /\ c.valid_from.aware

ValidOwnership(c) ==
  ScoreInRange(c.confidence_score) /\ c.valid_from.aware /\ FilledOrNull(c.source)

ValidClassification(c) ==
  ScoreInRange(c.confidence_score) /\ c.valid_from.aware /\ FilledOrNull(c.source)

ValidLabel(c) == c.valid_from.aware /\ FilledOrNull(c.source)

ValidRelationship(c) ==
  /\ c.source_resource_id # c.target_resource_id
  /\ ScoreInRange(c.confidence_score)
  /\ c.valid_from.aware
  /\ FilledOrNull(c.source)

ValidAlias(c) ==
  /\ Filled(c.alias_type)
  /\ Filled(c.alias_value)
  /\ Filled(c.normalized_value)
  /\ FilledOrNull(c.source)
  /\ SeenInOrder(c)

ValidMerge(c) ==
  /\ c.source_resource_id # c.target_resource_id
  /\ c.merged_at.aware
  /\ FilledOrNull(c.reason)
  /\ FilledOrNull(c.source)

Valid(c) ==
  CASE c.kind = "create" -> ValidCreate(c)
    [] c.kind = "transition" -> ValidTransition(c)
    [] c.kind = "identifier" -> ValidIdentifier(c)
    [] c.kind = "ownership" -> ValidOwnership(c)
    [] c.kind = "classification" -> ValidClassification(c)
    [] c.kind = "label" -> ValidLabel(c)
    [] c.kind = "relationship" -> ValidRelationship(c)
    [] c.kind = "alias" -> ValidAlias(c)
    [] c.kind = "merge" -> ValidMerge(c)

(***************************************************************************)
(* The CHECK constraints                                                   *)
(***************************************************************************)
\* Numeric(5, 4) keeps ten thousandths and rounds to the nearest.
Column(score) == 10 * ((score + 5) \div 10)

ScoreFits(score) == 0 <= Column(score) /\ Column(score) <= 100000
TextFits(text) == text # Null /\ ~TrimmedEmpty(text)
OptionalTextFits(text) == ~TrimmedEmpty(text)

FitsCreate(c) ==
  /\ TextFits(c.canonical_name)
  /\ TextFits(c.display_name)
  /\ 0 <= c.source_priority /\ c.source_priority <= 1000
  /\ ScoreFits(c.confidence_score)
  /\ c.first_seen_at.at <= c.last_seen_at.at

\* A transition writes a row of history and the snapshot on the resource, whose
\* CHECK on the priority is the narrower one.
FitsTransition(c) ==
  /\ 0 <= c.source_priority /\ c.source_priority <= 1000
  /\ ScoreFits(c.confidence_score)
  /\ OptionalTextFits(c.source)

FitsIdentifier(c) ==
  /\ TextFits(c.original_value)
  /\ TextFits(c.normalized_value)
  /\ TextFits(c.value_hash)
  /\ OptionalTextFits(c.namespace)
  /\ ScoreFits(c.confidence_score)

FitsOwnership(c) == ScoreFits(c.confidence_score) /\ OptionalTextFits(c.source)

FitsClassification(c) == ScoreFits(c.confidence_score) /\ OptionalTextFits(c.source)

FitsLabel(c) == OptionalTextFits(c.source)

FitsRelationship(c) ==
  /\ c.source_resource_id # c.target_resource_id
  /\ ScoreFits(c.confidence_score)
  /\ OptionalTextFits(c.source)

FitsAlias(c) ==
  /\ TextFits(c.alias_type)
  /\ TextFits(c.alias_value)
  /\ TextFits(c.normalized_value)
  /\ OptionalTextFits(c.source)
  /\ c.first_seen_at.at <= c.last_seen_at.at

FitsMerge(c) ==
  /\ c.source_resource_id # c.target_resource_id
  /\ OptionalTextFits(c.reason)
  /\ OptionalTextFits(c.source)

Fits(c) ==
  CASE c.kind = "create" -> FitsCreate(c)
    [] c.kind = "transition" -> FitsTransition(c)
    [] c.kind = "identifier" -> FitsIdentifier(c)
    [] c.kind = "ownership" -> FitsOwnership(c)
    [] c.kind = "classification" -> FitsClassification(c)
    [] c.kind = "label" -> FitsLabel(c)
    [] c.kind = "relationship" -> FitsRelationship(c)
    [] c.kind = "alias" -> FitsAlias(c)
    [] c.kind = "merge" -> FitsMerge(c)

-----------------------------------------------------------------------------
(***************************************************************************)
(* Properties                                                              *)
(***************************************************************************)
\* A command its validator accepts meets every CHECK of the table its row goes to, for
\* the commands that no route carries, too.
AcceptedFits == \A c \in AllCommands : Valid(c) => Fits(c)
=============================================================================
