---------------------------- MODULE HttpRequest -----------------------------
(***************************************************************************)
(* The way of a request through the service: the schema, the handler with  *)
(* its validator and its Unit of Work, the translation of what it raises,  *)
(* and the answer.  What the handlers look up is a choice of outcomes here;*)
(* their own modules say which outcome when.  Next to the requests, other  *)
(* callers use units of theirs in any order the Unit of Work lets them.    *)
(***************************************************************************)
EXTENDS UnitOfWork, CommandRules

CONSTANTS
  Requests  \* worker threads that serve requests, each with one unit at a time

ASSUME RequestConstants == Requests \subseteq Units

VARIABLES
  pc,       \* where a request is: the next thing its thread does
  verdict,  \* what the rules say of the command it carries
  error,    \* the exception on its way out of the handler
  status    \* the HTTP status of the answer, 0 for none

requestVars == <<pc, verdict, error, status>>
vars == <<unitVars, requestVars>>

\* A read carries no command, and its query is valid; the validators of listings and
\* look-ups are in the modules of those.
Reading == [rules |-> "met", writes |-> FALSE, locks |-> FALSE, dated |-> FALSE]

\* dated: the instant of the command must be later than one that is stored.

VerdictOf(c) ==
  IF Parsed(c) /\ Valid(c)
  THEN [rules |-> IF Fits(c) THEN "met" ELSE "missed", writes |-> TRUE,
        locks |-> c.kind # "create", dated |-> c.kind = "transition"]
  ELSE [Reading EXCEPT !.rules = "refused", !.writes = TRUE]

Verdicts ==
  {Reading} \union {VerdictOf(c) : c \in {d \in AllCommands : d.kind \in Routed}}

VerdictType ==
  [rules : {"refused", "met", "missed"},
   writes : BOOLEAN, locks : BOOLEAN, dated : BOOLEAN]

Places == {"done", "arrived", "connect", "lock", "check", "read", "commit", "exit"}

Errors == {"none", "validation", "not_found", "conflict", "concurrent", "persistence",
           "raw"}

\* Mutant: database errors that are not known are reported as conflicts.
StatusOfConflict(e) ==
  CASE e = "none" -> 200
    [] e = "validation" -> 422
    [] e = "not_found" -> 404
    [] e \in {"conflict", "concurrent", "raw"} -> 409
    [] e = "persistence" -> 503

\* An exception that is not an ApplicationError gets the framework's answer.  (200
\* stands for 201, too.)
StatusOf(e) ==
  CASE e = "none" -> 200
    [] e = "validation" -> 422
    [] e = "not_found" -> 404
    [] e \in {"conflict", "concurrent"} -> 409
    [] e = "persistence" -> 503
    [] e = "raw" -> 500

Init ==
  /\ UnitInit
  /\ pc = [r \in Requests |-> "done"]
  /\ verdict = [r \in Requests |-> Reading]
  /\ error = [r \in Requests |-> "none"]
  /\ status = [r \in Requests |-> 0]

Go(r, from, to) ==
  /\ pc[r] = from
  /\ pc' = [pc EXCEPT ![r] = to]
  /\ UNCHANGED <<verdict, status>>

\* Once the end of the with block is reached, only the kind of a request matters.
Kind(v) == [Reading EXCEPT !.writes = v.writes]

\* The with block is left, with the exception e or with none.
Leave(r, from, e) ==
  /\ pc[r] = from
  /\ pc' = [pc EXCEPT ![r] = "exit"]
  /\ error' = [error EXCEPT ![r] = e]
  /\ verdict' = [verdict EXCEPT ![r] = Kind(verdict[r])]
  /\ UNCHANGED status

Answer(r, from, e) ==
  /\ pc[r] = from
  /\ pc' = [pc EXCEPT ![r] = "done"]
  /\ error' = [error EXCEPT ![r] = "none"]
  /\ status' = [status EXCEPT ![r] = StatusOf(e)]
  /\ verdict' = [verdict EXCEPT ![r] = Kind(verdict[r])]

\* A worker thread takes the next request.
Arrive(r) ==
  /\ pc[r] = "done"
  /\ pc' = [pc EXCEPT ![r] = "arrived"]
  /\ \E v \in Verdicts : verdict' = [verdict EXCEPT ![r] = v]
  /\ error' = [error EXCEPT ![r] = "none"]
  /\ status' = [status EXCEPT ![r] = 0]
  /\ IF state[r] = "new" THEN UNCHANGED unitVars ELSE Renew(r)

\* The schema, or the validator before the unit is entered, refuses the command.
Refused(r) ==
  /\ Answer(r, "arrived", "validation")
  /\ verdict[r].rules = "refused"
  /\ UNCHANGED unitVars

EnterUnit(r) ==
  /\ Go(r, "arrived", "connect")
  /\ verdict[r].rules # "refused"
  /\ Enter(r)
  /\ UNCHANGED error

FirstStatement(r) ==
  /\ Go(r, "connect", IF verdict[r].locks THEN "lock"
                      ELSE IF verdict[r].writes THEN "check" ELSE "read")
  /\ Connect(r)
  /\ UNCHANGED error

PoolTimeout(r) ==
  /\ Leave(r, "connect", "raw")
  /\ PoolExhausted(r)
  /\ UNCHANGED unitVars

LockResource(r) ==
  /\ Go(r, "lock", "check")
  /\ LockRow(r)
  /\ UNCHANGED error

\* There is no such row to lock.
ResourceMissing(r) ==
  /\ Leave(r, "lock", "not_found")
  /\ UNCHANGED unitVars

\* The handler raises after a look-up: nothing found; an inactive catalog row, a
\* duplicate, a resolution that runs into a cycle; an instant not later than the
\* stored one, which is compared with the row under its lock.
LookUpRefuses(r) ==
  /\ \/ \E from \in {"check", "read"}, e \in {"not_found", "conflict"} : Leave(r, from, e)
     \/ verdict[r].dated /\ Leave(r, "check", "validation")
  /\ UNCHANGED unitVars

\* No handler catches the error of a statement.
BreakDown(r) ==
  /\ \E from \in {"lock", "check", "read"} : Leave(r, from, "raw")
  /\ StatementFails(r)

\* The look-ups pass, the row is constructed and added, the result is built.
AddRow(r) ==
  /\ Go(r, "check", "commit")
  /\ Add(r)
  /\ UNCHANGED error

\* A read leaves the with block without a commit.
ReadRows(r) ==
  /\ Leave(r, "read", "none")
  /\ UNCHANGED unitVars

CommitUnit(r) ==
  /\ Leave(r, "commit", "none")
  /\ verdict[r].rules = "met"
  /\ Commit(r)

\* A mapped unique constraint and the version column are translated; other errors,
\* a CHECK or the merge trigger among them, are raised as they are.
CommitRejected(r) ==
  /\ \E e \in {"conflict", "concurrent", "raw"} :
       /\ verdict[r].rules = "missed" => e = "raw"
       /\ Leave(r, "commit", e)
  /\ CommitFails(r)

CommitUnanswered(r) ==
  /\ Leave(r, "commit", "raw")
  /\ verdict[r].rules = "met"
  /\ CommitUnacknowledged(r)

\* __exit__ returns False: the exception goes on to the error handlers.  A handler's
\* repositories do not outlive its with block.
ExitUnit(r) ==
  /\ Answer(r, "exit", error[r])
  /\ Exit(r, "none")

(***************************************************************************)
(* The system                                                              *)
(***************************************************************************)
Progress(r) ==
  \/ Refused(r)
  \/ EnterUnit(r)
  \/ FirstStatement(r)
  \/ PoolTimeout(r)
  \/ LookUpRefuses(r)
  \/ AddRow(r)
  \/ ReadRows(r)
  \/ CommitUnit(r)
  \/ CommitRejected(r)
  \/ ExitUnit(r)

Step(r) ==
  \/ Arrive(r)
  \/ Progress(r)
  \/ LockResource(r)
  \/ ResourceMissing(r)
  \/ BreakDown(r)
  \/ CommitUnanswered(r)

Crash ==
  /\ Die
  /\ pc' = [r \in Requests |-> "done"]
  /\ error' = [r \in Requests |-> "none"]
  /\ status' = [r \in Requests |-> IF pc[r] = "done" THEN status[r] ELSE 0]
  /\ verdict' = [r \in Requests |-> Kind(verdict[r])]

Next ==
  \/ Crash
  \/ \E r \in Requests : Step(r)
  \/ \E u \in Units \ Requests : (Call(u) \/ Renew(u)) /\ UNCHANGED requestVars

Spec == Init /\ [][Next]_vars

\* A caller leaves its with block, or drops what it has kept.
Stop(u) == (\E s \in {"idle", "none"} : Exit(u, s)) \/ LetGo(u)

\* A thread goes on unless it waits for the row; PostgreSQL queues those that do.  The
\* with block of any other caller comes to its end, and so does what it has kept.
Fairness ==
  /\ \A r \in Requests : WF_vars(Progress(r)) /\ SF_vars(LockResource(r))
  /\ \A u \in Units \ Requests : WF_vars(Stop(u) /\ UNCHANGED requestVars)

FairSpec == Spec /\ Fairness

-----------------------------------------------------------------------------
(***************************************************************************)
(* Properties                                                              *)
(***************************************************************************)
TypeOK ==
  /\ UnitTypeOK
  /\ pc \in [Requests -> Places]
  /\ verdict \in [Requests -> VerdictType]
  /\ error \in [Requests -> Errors]
  /\ status \in [Requests -> {0, 200, 404, 409, 422, 500, 503}]

\* A request that sends COMMIT sends a row that every CHECK accepts: what the command
\* alone says is refused before a transaction is opened and never as a constraint
\* violation, also where Python and SQL differ on what is blank and where the column
\* rounds.
RowsMeetChecks == \A r \in Requests : pc[r] = "commit" => verdict[r].rules = "met"

\* What a client may conclude: success means that a write is committed, a refusal
\* (404, 409, 422) that nothing was written, and only a 500 or no answer leaves the
\* fate of the write open.  It is so wherever the request failed: before its unit, under
\* the row lock, at the COMMIT the server rejects or does not acknowledge.
StatusTellsEffect ==
  \A r \in Requests :
    pc[r] = "done" =>
      /\ status[r] = 200 /\ verdict[r].writes => r \in durable
      /\ status[r] \in {404, 409, 422} => r \notin durable

\* A request that has been answered or lost has given back its connection and the row,
\* and left no work behind, however it failed, so that it starves none that come later.
\* (Of other callers it is not true: a repository they keep may begin again.)
HandsBack ==
  \A r \in Requests : pc[r] \in {"done", "arrived"} =>
    r \notin Connected /\ holder # r /\ work[r] = "none"

\* Every request is answered or given up, although it may wait for a connection that
\* never comes free and for a row that careless callers lock in turn.
RequestsEnd == \A r \in Requests : pc[r] # "done" ~> pc[r] = "done"
=============================================================================
