----------------------------- MODULE UnitOfWork -----------------------------
(***************************************************************************)
(* SQLAlchemyUnitOfWork over the session, the connection pool and one row  *)
(* that transactions contend for.  The actions say when a call does        *)
(* something; a call in any other state raises and changes nothing.  The   *)
(* caller is free to make the calls in any order, to catch their errors,   *)
(* and to keep a repository it was handed: the repository refers to the    *)
(* session, which close() leaves ready for another transaction, so that it *)
(* works in every state of the unit, after __exit__, too.                  *)
(***************************************************************************)
EXTENDS FiniteSets, Integers

CONSTANTS
  Units,     \* instances of the Unit of Work
  PoolSize,  \* connections the engine's pool hands out at most
  Nobody     \* the owner of an unlocked row

ASSUME UnitConstants ==
  /\ IsFiniteSet(Units)
  /\ PoolSize \in Nat \ {0}
  /\ Nobody \notin Units

VARIABLES
  state,    \* _state
  session,  \* the Session of the unit's repositories, or none if nobody has it
  work,     \* the entities added, in the session or already sent by a flush
  holder,   \* the unit whose transaction holds the contended row
  durable   \* the units whose work the server has committed

unitVars == <<state, session, work, holder, durable>>

States == {"new", "active", "committed", "rolled_back", "failed", "closed"}

\* idle: no connection.  begun: in a transaction.  aborted: a statement failed, the
\* server has rolled back and session.is_active is still true.  inactive: a flush or
\* COMMIT failed and is_active is false.  refused: so did one that got no connection.
Sessions == {"none", "idle", "begun", "aborted", "inactive", "refused"}

Connected == {u \in Units : session[u] \in {"begun", "aborted", "inactive"}}

UnitInit ==
  /\ state = [u \in Units |-> "new"]
  /\ session = [u \in Units |-> "none"]
  /\ work = [u \in Units |-> "none"]
  /\ holder = Nobody
  /\ durable = {}

Released(u) == IF holder = u THEN Nobody ELSE holder

\* The session's transaction is over: s is what the session has come to.
EndTransaction(u, s) ==
  /\ session' = [session EXCEPT ![u] = s]
  /\ work' = [work EXCEPT ![u] = "none"]
  /\ holder' = Released(u)

Become(u, s) == state' = [state EXCEPT ![u] = s]

(***************************************************************************)
(* Enter, and statements through the repositories                          *)
(***************************************************************************)
Enter(u) ==
  /\ state[u] = "new"
  /\ Become(u, "active")
  /\ session' = [session EXCEPT ![u] = "idle"]
  /\ UNCHANGED <<work, holder, durable>>

\* The first statement takes a connection from the pool; it may be the INSERT of a
\* flush, or of the flush in a commit.
Connect(u) ==
  /\ session[u] = "idle"
  /\ Cardinality(Connected) < PoolSize
  /\ session' = [session EXCEPT ![u] = "begun"]
  /\ UNCHANGED <<state, work, holder, durable>>

PoolExhausted(u) ==
  /\ session[u] = "idle"
  /\ Cardinality(Connected) >= PoolSize

LockRow(u) ==
  /\ session[u] = "begun"
  /\ holder = Nobody
  /\ holder' = u
  /\ UNCHANGED <<state, session, work, durable>>

\* A session that is not active discards what is added to it.
Add(u) ==
  /\ session[u] \in {"idle", "begun", "aborted"}
  /\ work[u] # "added"
  /\ work' = [work EXCEPT ![u] = "added"]
  /\ UNCHANGED <<state, session, holder, durable>>

\* An explicit flush, or the one before a query.
Flush(u) ==
  /\ session[u] = "begun"
  /\ work[u] = "added"
  /\ work' = [work EXCEPT ![u] = "flushed"]
  /\ UNCHANGED <<state, session, holder, durable>>

\* The INSERT is rejected or the connection is lost, the transaction has been aborted,
\* or there is no connection to be had.
FlushFails(u) ==
  /\ work[u] = "added"
  /\ \/ session[u] \in {"begun", "aborted"} /\ EndTransaction(u, "inactive")
     \/ PoolExhausted(u) /\ EndTransaction(u, "refused")
  /\ UNCHANGED <<state, durable>>

StatementFails(u) ==
  /\ session[u] = "begun"
  /\ session' = [session EXCEPT ![u] = "aborted"]
  /\ holder' = Released(u)
  /\ UNCHANGED <<state, work, durable>>

\* The session property, or commit, meets a session that is not active.
NoticeFailure(u) ==
  /\ state[u] = "active"
  /\ session[u] \in {"inactive", "refused"}
  /\ Become(u, "failed")
  /\ UNCHANGED <<session, work, holder, durable>>

(***************************************************************************)
(* Commit                                                                  *)
(***************************************************************************)
\* Mutant: a unit that has rolled back may commit.
MayCommitAgain(u) == state[u] \in {"active", "rolled_back"}

MayCommit(u) == state[u] = "active"

Commit(u) ==
  /\ MayCommit(u)
  /\ session[u] = "begun" \/ (session[u] = "idle" /\ work[u] = "none")
  /\ Become(u, "committed")
  /\ durable' = IF work[u] = "none" THEN durable ELSE durable \union {u}
  /\ EndTransaction(u, "idle")

\* COMMIT of a transaction the server has aborted rolls back and reports no error.
CommitAborted(u) ==
  /\ MayCommit(u)
  /\ session[u] = "aborted"
  /\ work[u] # "added"
  /\ Become(u, "committed")
  /\ EndTransaction(u, "idle")
  /\ UNCHANGED durable

\* Its flush fails, or the connection is lost before COMMIT arrives.
CommitFails(u) ==
  /\ MayCommit(u)
  /\ Become(u, "failed")
  /\ \/ session[u] = "begun" /\ EndTransaction(u, "inactive")
     \/ session[u] = "aborted" /\ work[u] = "added" /\ EndTransaction(u, "inactive")
     \/ PoolExhausted(u) /\ work[u] = "added" /\ EndTransaction(u, "refused")
  /\ UNCHANGED durable

\* The server commits and the connection breaks before the driver hears of it.
CommitUnacknowledged(u) ==
  /\ MayCommit(u)
  /\ session[u] = "begun"
  /\ work[u] # "none"
  /\ Become(u, "failed")
  /\ EndTransaction(u, "inactive")
  /\ durable' = durable \union {u}

(***************************************************************************)
(* Rollback and exit                                                       *)
(***************************************************************************)
Rollback(u) ==
  /\ state[u] \in {"active", "failed"}
  /\ Become(u, "rolled_back")
  /\ EndTransaction(u, "idle")
  /\ UNCHANGED durable

\* __enter__ has set _session and no __exit__ has cleared it yet.
Entered(u) == state[u] \notin {"new", "closed"}

\* Mutant: no finally, so an error of the clean-up leaves the session open.
ExitUnlessBroken(u, s) ==
  /\ Entered(u)
  /\ Become(u, "closed")
  /\ IF session[u] = "inactive" THEN UNCHANGED <<session, work, holder>>
                               ELSE EndTransaction(u, s)
  /\ UNCHANGED durable

\* Mutant: the session is dropped without being closed.
ExitWithoutClose(u, s) ==
  /\ Entered(u)
  /\ Become(u, "closed")
  /\ session' = [session EXCEPT ![u] = s]
  /\ work' = [work EXCEPT ![u] = "none"]
  /\ UNCHANGED <<holder, durable>>

\* The session is closed whether or not there is an error, and whether or not the
\* clean-up's rollback raises one itself.  s says whether a kept repository still
\* has it ("idle") or nobody ("none").  A unit without _session does nothing.
Exit(u, s) ==
  /\ Entered(u)
  /\ Become(u, "closed")
  /\ EndTransaction(u, s)
  /\ UNCHANGED durable

\* The last repository that was kept is dropped; its session's connection goes back to
\* the pool, which rolls back.
LetGo(u) ==
  /\ state[u] = "closed"
  /\ session[u] # "none"
  /\ EndTransaction(u, "none")
  /\ UNCHANGED <<state, durable>>

\* What any caller may do with a unit.
Call(u) ==
  \/ Enter(u)
  \/ Connect(u)
  \/ LockRow(u)
  \/ Add(u)
  \/ Flush(u)
  \/ FlushFails(u)
  \/ StatementFails(u)
  \/ NoticeFailure(u)
  \/ Commit(u)
  \/ CommitAborted(u)
  \/ CommitFails(u)
  \/ CommitUnacknowledged(u)
  \/ Rollback(u)
  \/ \E s \in {"idle", "none"} : Exit(u, s)
  \/ LetGo(u)

\* The process is lost with the units in use; the server rolls back.
Die ==
  /\ state' = [u \in Units |-> IF state[u] = "new" THEN "new" ELSE "closed"]
  /\ session' = [u \in Units |-> "none"]
  /\ work' = [u \in Units |-> "none"]
  /\ holder' = Nobody
  /\ UNCHANGED durable

\* The factory returns a fresh unit for each request.  (It takes the place of one that
\* nobody uses any more.)
Renew(u) ==
  /\ state[u] = "closed"
  /\ session[u] = "none"
  /\ Become(u, "new")
  /\ durable' = durable \ {u}
  /\ UNCHANGED <<session, work, holder>>

UnitNext == Die \/ \E u \in Units : Call(u) \/ Renew(u)

UnitSpec == UnitInit /\ [][UnitNext]_unitVars

-----------------------------------------------------------------------------
(***************************************************************************)
(* Properties                                                              *)
(***************************************************************************)
UnitTypeOK ==
  /\ state \in [Units -> States]
  /\ session \in [Units -> Sessions]
  /\ work \in [Units -> {"none", "added", "flushed"}]
  /\ holder \in Units \union {Nobody}
  /\ durable \subseteq Units

\* A unit's work is kept or dropped as a whole, once: it is not kept after rollback(),
\* after a failed flush or COMMIT or when the server has aborted its transaction, nor by
\* a repository that is used after __exit__, and a kept unit is not dropped.
Fate ==
  [u \in Units |->
     IF state[u] = "new" THEN "unused"
     ELSE IF u \in durable THEN "kept"
     ELSE IF state[u] = "active" THEN "open"
     ELSE "dropped"]

Scope == INSTANCE TransactionScope WITH fate <- Fate

ImplementsScope == Scope!ScopeSpec
=============================================================================
