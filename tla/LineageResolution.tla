-------------------------- MODULE LineageResolution -------------------------
(***************************************************************************)
(* ResolveCanonicalResourceHandler running next to merge requests.  The    *)
(* read takes no locks and every look-up is a statement with a snapshot of *)
(* its own, so the lineage can grow between any two edges it follows.      *)
(***************************************************************************)
EXTENDS MergeLineage

CONSTANTS
  Readers,    \* concurrent resolution requests
  MaxDepth    \* MAX_RESOURCE_MERGE_DEPTH (64 in the code)

ASSUME ResolutionConstants == MaxDepth \in Nat \ {0}

VARIABLES
  stage,      \* where each reader is in the handler
  requested,  \* query.resource_id
  current,    \* current_resource_id
  immediate,  \* immediate_target_resource_id, 0 for None
  depth,      \* merge_depth
  visited     \* the ids the loop has looked at

readerVars == <<stage, requested, current, immediate, depth, visited>>

resolutionVars == <<vars, readerVars>>

Answers == {"resolved", "not_found", "cycle", "too_deep", "target_missing"}

Stages == {"idle", "load_requested", "walk", "load_canonical"} \union Answers

\* Changes the progress of reader q and nothing else.
Goto(q, next) ==
  /\ stage' = [stage EXCEPT ![q] = next]
  /\ UNCHANGED <<vars, requested>>

InitReaders ==
  /\ stage = [q \in Readers |-> "idle"]
  /\ requested = [q \in Readers |-> 0]
  /\ current = [q \in Readers |-> 0]
  /\ immediate = [q \in Readers |-> 0]
  /\ depth = [q \in Readers |-> 0]
  /\ visited = [q \in Readers |-> {}]

Request(q) ==
  /\ stage[q] \in {"idle"} \union Answers
  /\ stage' = [stage EXCEPT ![q] = "load_requested"]
  /\ \E r \in Ids :
       /\ requested' = [requested EXCEPT ![q] = r]
       /\ current' = [current EXCEPT ![q] = r]
  /\ immediate' = [immediate EXCEPT ![q] = 0]
  /\ depth' = [depth EXCEPT ![q] = 0]
  /\ visited' = [visited EXCEPT ![q] = {}]
  /\ UNCHANGED vars

LoadRequested(q) ==
  /\ stage[q] = "load_requested"
  /\ Goto(q, IF requested[q] \in Resources THEN "walk" ELSE "not_found")
  /\ UNCHANGED <<current, immediate, depth, visited>>

\* The loop meets a resource it has already looked at.
CycleFound(q) ==
  /\ stage[q] = "walk"
  /\ current[q] \in visited[q]
  /\ Goto(q, "cycle")
  /\ UNCHANGED <<current, immediate, depth, visited>>

\* visited.add and get_outgoing_merge of the current resource.
Look(q) ==
  /\ stage[q] = "walk"
  /\ current[q] \notin visited[q]
  /\ visited' = [visited EXCEPT ![q] = @ \union {current[q]}]

ReachTerminal(q) ==
  /\ Look(q)
  /\ OutgoingMerge(merges, current[q]) = {}
  /\ Goto(q, "load_canonical")
  /\ UNCHANGED <<current, immediate, depth>>

\* Mutant: the bound is tested before the look-up.
TooDeepAnywhere(q) ==
  /\ Look(q)
  /\ depth[q] = MaxDepth
  /\ Goto(q, "too_deep")
  /\ UNCHANGED <<current, immediate, depth>>

TooDeep(q) ==
  /\ Look(q)
  /\ OutgoingMerge(merges, current[q]) # {}
  /\ depth[q] = MaxDepth
  /\ Goto(q, "too_deep")
  /\ UNCHANGED <<current, immediate, depth>>

\* Mutants: no bound on the walk; the last hop reported as the immediate target.
FollowEdgeUnbounded(q) ==
  /\ Look(q)
  /\ \E e \in OutgoingMerge(merges, current[q]) :
       /\ current' = [current EXCEPT ![q] = e.target]
       /\ immediate' = [immediate EXCEPT ![q] = IF depth[q] = 0 THEN e.target ELSE @]
  /\ depth' = [depth EXCEPT ![q] = @ + 1]
  /\ Goto(q, "walk")

FollowEdgeRenaming(q) ==
  /\ Look(q)
  /\ depth[q] # MaxDepth
  /\ \E e \in OutgoingMerge(merges, current[q]) :
       /\ current' = [current EXCEPT ![q] = e.target]
       /\ immediate' = [immediate EXCEPT ![q] = e.target]
  /\ depth' = [depth EXCEPT ![q] = @ + 1]
  /\ Goto(q, "walk")

FollowEdge(q) ==
  /\ Look(q)
  /\ depth[q] # MaxDepth
  /\ \E e \in OutgoingMerge(merges, current[q]) :
       /\ current' = [current EXCEPT ![q] = e.target]
       /\ immediate' = [immediate EXCEPT ![q] = IF depth[q] = 0 THEN e.target ELSE @]
  /\ depth' = [depth EXCEPT ![q] = @ + 1]
  /\ Goto(q, "walk")

LoadCanonical(q) ==
  /\ stage[q] = "load_canonical"
  /\ Goto(q, IF current[q] \in Resources THEN "resolved" ELSE "target_missing")
  /\ UNCHANGED <<current, immediate, depth, visited>>

Resolve(q) ==
  \/ Request(q)
  \/ LoadRequested(q)
  \/ CycleFound(q)
  \/ ReachTerminal(q)
  \/ TooDeep(q)
  \/ FollowEdge(q)
  \/ LoadCanonical(q)

ResolutionInit == Init /\ InitReaders

ResolutionNext ==
  \/ Next /\ UNCHANGED readerVars
  \/ \E q \in Readers : Resolve(q)

ResolutionSpec == ResolutionInit /\ [][ResolutionNext]_resolutionVars

-----------------------------------------------------------------------------
(***************************************************************************)
(* Properties                                                              *)
(***************************************************************************)
ResolutionTypeOK ==
  /\ stage \in [Readers -> Stages]
  /\ requested \in [Readers -> Ids \union {0}]
  /\ current \in [Readers -> Ids \union {0}]
  /\ immediate \in [Readers -> Ids \union {0}]
  /\ depth \in [Readers -> 0..MaxDepth]
  /\ visited \in [Readers -> SUBSET Ids]

\* At the reader's last look-up the resource it is about to return ended the
\* lineage of the requested one in the committed rows of that instant, merge_depth
\* edges away and with the reported first hop, although the edges on the way were
\* read by separate statements while merges were committing.
ResolutionIsLinearizable ==
  [][\A q \in Readers :
       stage[q] = "walk" /\ stage'[q] = "load_canonical" =>
         /\ PathOfLength(merges, requested[q], current'[q], depth'[q])
         /\ \A r \in Ids : ~Linked(merges, current'[q], r)
         /\ IF depth'[q] = 0 THEN immediate'[q] = 0
                             ELSE Linked(merges, requested[q], immediate'[q])]_resolutionVars

\* No error is a false alarm: a reported cycle is a cycle of committed merges the
\* requested resource leads into, a lineage reported too deep has more than
\* MaxDepth edges, and a terminal resource is never found missing.
ErrorsAreJustified ==
  \A q \in Readers :
    /\ stage[q] = "cycle" =>
         /\ PathOfLength(merges, requested[q], current[q], depth[q])
         /\ \E k \in 1..depth[q] : PathOfLength(merges, current[q], current[q], k)
    /\ stage[q] = "too_deep" =>
         /\ PathOfLength(merges, requested[q], current[q], MaxDepth)
         /\ OutgoingMerge(merges, current[q]) # {}
    /\ stage[q] # "target_missing"
=============================================================================
