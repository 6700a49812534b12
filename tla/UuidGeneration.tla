--------------------------- MODULE UuidGeneration ---------------------------
(***************************************************************************)
(* generate_uuid7, as one process calls it.  An id is ordered by its 48    *)
(* bits of milliseconds and its 12 bits of sequence; the 62 random bits    *)
(* below them are left out.  A call holds _LOCK from the reading of the    *)
(* clock to the id, also while it waits for the clock because the sequence *)
(* is exhausted: until then every call would wait for the same, so a call  *)
(* is one step, taken when it can return.                                  *)
(***************************************************************************)
EXTENDS Integers

CONSTANTS
  Instants,    \* what the clock may show; it may be set back
  SequenceMax  \* _SEQUENCE_MAX

ASSUME UuidConstants ==
  /\ Instants \subseteq Nat
  /\ SequenceMax \in Nat

VARIABLES
  clock,   \* time.time_ns in milliseconds, and utc_now
  lastMs,  \* _LAST_MS
  sequence \* _SEQUENCE

uuidVars == <<clock, lastMs, sequence>>

Ids == [ms : Instants, seq : 0..SequenceMax]

IdBefore(i, j) == i.ms < j.ms \/ (i.ms = j.ms /\ i.seq < j.seq)

UuidInit ==
  /\ clock \in Instants
  /\ lastMs = -1
  /\ sequence = 0

\* A millisecond later than the last: the sequence starts anywhere.
LaterMs ==
  /\ clock > lastMs
  /\ lastMs' = clock
  /\ sequence' \in 0..SequenceMax

\* Mutant: the sequence wraps.
WrappingSequence ==
  /\ clock <= lastMs
  /\ sequence' = (sequence + 1) % (SequenceMax + 1)
  /\ UNCHANGED lastMs

\* The same millisecond, or a clock that was set back.  (Exhausted, the call waits.)
NextInSequence ==
  /\ clock <= lastMs
  /\ sequence < SequenceMax
  /\ sequence' = sequence + 1
  /\ UNCHANGED lastMs

GenerateUuid7 ==
  /\ LaterMs \/ NextInSequence
  /\ UNCHANGED clock

\* The id a call that ends here returns.
Generated == [ms |-> lastMs', seq |-> sequence']

SetClock ==
  /\ clock' \in Instants \ {clock}
  /\ UNCHANGED <<lastMs, sequence>>
=============================================================================
