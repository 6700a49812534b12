--------------------------- MODULE ResourceListing ---------------------------
(***************************************************************************)
(* ListResourcesHandler: a client walks the resources of a tenant page by  *)
(* page, in the order of (created_at, id), while creations go on and the   *)
(* rows change under the filter of the walk.  Each page is one SELECT in a *)
(* transaction of its own; what ties the pages together is the cursor, the *)
(* key of the last row shown.  A row gets its id when it is constructed,   *)
(* its created_at when it is flushed and becomes visible when it commits.  *)
(***************************************************************************)
EXTENDS ResourceCreation, Sequences, SequencesExt

CONSTANTS
  PageSizes,    \* page_size of the queries
  MinPageSize,
  MaxPageSize,
  Filters,      \* sets of optional filters a query may combine
  Attributes    \* what a row may come to match of them

ASSUME ListingConstants ==
  /\ PageSizes \subseteq Int
  /\ MinPageSize \in Nat \ {0}
  /\ MaxPageSize \in Nat

VARIABLES
  matching,  \* which filters the row with an id matches at present
  walk       \* the walk of the client

listing == <<matching, walk>>
allVars == <<vars, listing>>

(***************************************************************************)
(* The key and the cursor                                                  *)
(***************************************************************************)
Key(r) == [at |-> r.at, id |-> r.id]

Before(k, l) == k.at < l.at \/ (k.at = l.at /\ IdBefore(k.id, l.id))

\* Mutant: the cursor's row belongs to the next page.
NotBefore(k, l) == k = l \/ Before(l, k)

Follows(k, l) == Before(l, k)

NoCursor == [v |-> 0]
Garbage == [v |-> 9]

Encode(key) == [v |-> 1, at |-> key.at, id |-> key.id]

Decodable(cursor) == cursor = NoCursor \/ cursor.v = 1

(***************************************************************************)
(* list_resources                                                          *)
(***************************************************************************)
Matches(r, filter) == filter \subseteq matching[r.id]

Selected(filter, cursor) ==
  {r \in resources :
     Matches(r, filter) /\ (cursor # NoCursor => Follows(Key(r), [at |-> cursor.at, id |-> cursor.id]))}

Upto(s, n) == SubSeq(s, 1, IF n < Len(s) THEN n ELSE Len(s))

\* ORDER BY created_at, id.
Ordered(R) ==
  LET K == {Key(r) : r \in R}
  IN CHOOSE s \in [1..Cardinality(K) -> K] : \A i, j \in DOMAIN s : i < j => Before(s[i], s[j])

\* Mutant: the extra row is not asked for.
FetchedExactly(filter, cursor, limit) == Upto(Ordered(Selected(filter, cursor)), limit)

Fetched(filter, cursor, limit) == Upto(Ordered(Selected(filter, cursor)), limit + 1)

Visible(fetched, limit) == Upto(fetched, limit)

NextPosition(fetched, limit) ==
  IF Len(fetched) > limit /\ Visible(fetched, limit) # <<>>
  THEN Encode(Last(Visible(fetched, limit)))
  ELSE NoCursor

(***************************************************************************)
(* A walk                                                                  *)
(***************************************************************************)
ValidQuery(filter, size) ==
  /\ size >= MinPageSize
  /\ size <= MaxPageSize
  /\ "value" \in filter => "type" \in filter

\* steady: the ids that were visible and matching from the first page on.
NoWalk ==
  [status |-> "none", filter |-> {}, size |-> 0, cursor |-> NoCursor, seen |-> <<>>, steady |-> {}]

ListingInit ==
  /\ Init
  /\ matching = [i \in Ids |-> {}]
  /\ walk = NoWalk

\* A page of the walk w answers the cursor.
Show(w, cursor) ==
  LET fetched == Fetched(w.filter, cursor, w.size)
      next == NextPosition(fetched, w.size)
  IN /\ walk' = [w EXCEPT !.status = IF next = NoCursor THEN "done" ELSE "walking",
                          !.cursor = next,
                          !.seen = @ \o Visible(fetched, w.size)]
     /\ UNCHANGED <<vars, matching>>

FirstPage ==
  \E filter \in Filters, size \in PageSizes :
    /\ ValidQuery(filter, size)
    /\ Show([NoWalk EXCEPT !.filter = filter, !.size = size,
                           !.steady = {r.id : r \in {x \in resources : Matches(x, filter)}}],
            NoCursor)

NextPage ==
  /\ walk.status = "walking"
  /\ Decodable(walk.cursor)
  /\ Show(walk, walk.cursor)

\* Refused before a Unit of Work is opened: no page is shown.
InvalidQuery ==
  /\ walk.status = "none"
  /\ \E filter \in Filters, size \in PageSizes :
       /\ ~ValidQuery(filter, size)
       /\ walk' = [NoWalk EXCEPT !.status = "invalid"]
  /\ UNCHANGED <<vars, matching>>

InvalidCursor ==
  /\ walk.status = "walking"
  /\ ~Decodable(Garbage)
  /\ walk' = [NoWalk EXCEPT !.status = "invalid"]
  /\ UNCHANGED <<vars, matching>>

\* The client starts over.
Forget ==
  /\ walk.status \in {"done", "invalid"}
  /\ walk' = NoWalk
  /\ UNCHANGED <<vars, matching>>

(***************************************************************************)
(* What goes on beside it                                                  *)
(***************************************************************************)
Create ==
  /\ Next
  /\ UNCHANGED listing

\* A transition or an assignment makes the row match a filter, a transition or a change
\* outside the application ends that.
Change ==
  \E r \in resources, a \in Attributes :
    /\ matching' = [matching EXCEPT ![r.id] = IF a \in @ THEN @ \ {a} ELSE @ \union {a}]
    /\ walk' = [walk EXCEPT !.steady =
                  IF walk.filter \subseteq matching'[r.id] THEN @ ELSE @ \ {r.id}]
    /\ UNCHANGED vars

ListingNext ==
  \/ walk.status = "none" /\ FirstPage
  \/ NextPage
  \/ InvalidQuery
  \/ InvalidCursor
  \/ Forget
  \/ Create
  \/ Change

ListingSpec == ListingInit /\ [][ListingNext]_allVars

-----------------------------------------------------------------------------
(***************************************************************************)
(* Properties                                                              *)
(***************************************************************************)
\* The types; of the creation, ResourceCreation's.
ListingTypeOK ==
  /\ TypeOK
  /\ \A r \in resources : r.at # 0
  /\ matching \in [Ids -> SUBSET Attributes]
  /\ walk.status \in {"none", "walking", "done", "invalid"}
  /\ walk.status = "walking" <=> walk.cursor # NoCursor /\ Decodable(walk.cursor)

\* Over all its pages a walk shows rows in strictly increasing order of their keys, so
\* it shows none twice, whatever is created, changed or stamped by a clock set back
\* between two pages.
PagesInOrder ==
  \A i, j \in DOMAIN walk.seen : i < j => Before(walk.seen[i], walk.seen[j])

\* A walk that ends has shown every row that was visible and matched throughout it.  (A
\* row that is created with a key before the cursor is missed, as the docs say.)
NothingSteadySkipped ==
  walk.status = "done" => walk.steady \subseteq {walk.seen[i].id : i \in DOMAIN walk.seen}
=============================================================================
