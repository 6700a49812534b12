---------------------------- MODULE StateTimeline ---------------------------
(***************************************************************************)
(* What state transitions promise, without transactions, locks or          *)
(* intervals: each resource has a timeline of states that only grows, each *)
(* entry later than the one before, and once it has any entry the resource *)
(* shows the state of the last.                                            *)
(***************************************************************************)
EXTENDS Integers, Sequences

CONSTANTS Resources, States, Times

VARIABLES timeline, shown

Latest(line) == line[Len(line)]

TimelineInit ==
  /\ shown \in [Resources -> States]
  /\ DOMAIN timeline = Resources
  /\ \A r \in Resources :
       timeline[r] # <<>> => Len(timeline[r]) = 1 /\ Latest(timeline[r]).state = shown[r]

Enter(r, state, at) ==
  /\ timeline[r] # <<>> => Latest(timeline[r]).at < at
  /\ timeline' = [timeline EXCEPT ![r] = Append(@, [state |-> state, at |-> at])]
  /\ shown' = [shown EXCEPT ![r] = state]

TimelineNext == \E r \in Resources, state \in States, at \in Times : Enter(r, state, at)

TimelineSpec == TimelineInit /\ [][TimelineNext]_<<timeline, shown>>
=============================================================================
