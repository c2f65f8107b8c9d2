-------------------------- MODULE QueryGenerations --------------------------
(***************************************************************************)
(* One federated list (one query key) paged by several requests at once.   *)
(* A persisted generation keeps the published rows and, per upstream       *)
(* source, how far its list was read and what is buffered; requests extend *)
(* it by compare-and-swap on its revision, while other requests merge      *)
(* canonicals, user-state writes invalidate it and it expires.             *)
(*                                                                         *)
(* On SQLite a generation is saved by a transaction. On D1 it is read,     *)
(* then saved by an atomic batch that asserts what was read, and when the  *)
(* batch is aborted it is read again to tell a lost race from an error.    *)
(*                                                                         *)
(* Sort values are reduced to the canonicals themselves, which are         *)
(* numbers; filters other than favorite and the scan budget are left out.  *)
(***************************************************************************)
EXTENDS Naturals, Sequences, FiniteSets

CONSTANTS
    Requests,        \* requests for a page, handled at any time
    Sources,         \* upstream libraries bound to the virtual library
    Canonicals,      \* in the order of the query's sort
    Items,           \* upstream items
    Catalog,         \* source -> the sequence of its items
    FirstCanonical,  \* item -> the canonical it is first resolved to
    Twins,           \* pairs <<c, d>> that may be merged, d into c
    Counting,        \* sources that report the total of their list
    Batch,           \* DB_BATCH_SIZE
    Ends,            \* startIndex + limit of the requests
    Storages,        \* among "sqlite" and "d1"
    MaxGenerations,  \* storage -> bound on expirations
    MaxFailures,     \* storage -> bound on failed upstream fetches
    MaxWrites        \* storage -> bound on user-state writes

ASSUME SourcesAssumption == IsFiniteSet(Sources)
ASSUME CanonicalsAssumption == Canonicals \subseteq Nat
ASSUME CatalogAssumption == Catalog \in [Sources -> Seq(Items)]
ASSUME FirstCanonicalAssumption == FirstCanonical \in [Items -> Canonicals]
ASSUME TwinsAssumption ==
    Twins \subseteq {twins \in Canonicals \X Canonicals : twins[1] # twins[2]}
ASSUME CountingAssumption == Counting \subseteq Sources
ASSUME NumbersAssumption ==
    /\ Batch \in Nat \ {0} /\ Ends \subseteq Nat \ {0}
    /\ Storages \subseteq {"sqlite", "d1"}
    /\ {MaxGenerations, MaxFailures, MaxWrites} \subseteq [Storages -> Nat]

VARIABLES
    storage,      \* where the generation is kept
    query,        \* "catalog" or "favorites" (localMembershipOnly)
    canonicalOf,  \* item -> canonical, source_items
    retired,      \* canonicals that were merged away
    favorite,     \* canonicals with user_state.favorite
    writes,       \* user-state writes so far
    pending,      \* committed writes that have not invalidated yet
    generation,   \* the query_generations row of the key
    rows,         \* its query_generation_items
    lastId,       \* the ids given to generations so far
    request,      \* request -> what its handler holds
    failures      \* failed fetches so far

vars == <<storage, query, canonicalOf, retired, favorite, writes, pending, generation,
          rows, lastId, request, failures>>

stateVars == <<favorite, writes, pending>>
storedVars == <<generation, rows, lastId>>

-----------------------------------------------------------------------------
(* Types                                                                   *)

Row == [ordinal: Nat, canonical: Canonicals]

Cursor == [read: Nat, exhausted: BOOLEAN, buffer: SUBSET Canonicals]

Cursors == [Sources -> Cursor]

\* Id 0: the key has no generation.
Generation == [id: Nat, revision: Nat, expired: BOOLEAN, exhausted: BOOLEAN,
               cursors: Cursors, local: SUBSET Canonicals]

RequestState == {"idle", "open", "replace", "items", "members", "filter",
                 "fill", "refresh", "select", "place", "batch", "look", "answer", "failed"}

\* id, revision, exhausted, cursors and local are the generation's as this
\* request read or saved them last; added are its unsaved additions.
Request == [at: RequestState, end: Nat, id: Nat, revision: Nat,
            exhausted: BOOLEAN, cursors: Cursors, local: SUBSET Canonicals,
            published: SUBSET Canonicals, added: SUBSET Row, dirty: BOOLEAN,
            blocked: SUBSET Sources]

TypeOK ==
    /\ storage \in Storages
    /\ query \in {"catalog", "favorites"}
    /\ canonicalOf \in [Items -> Canonicals \ retired]
    /\ retired \subseteq Canonicals
    /\ favorite \subseteq Canonicals \ retired
    /\ writes \in 0 .. MaxWrites[storage]
    /\ pending \in 0 .. writes
    /\ generation \in Generation
    /\ rows \subseteq [ordinal: Nat, canonical: Canonicals \ retired]
    /\ lastId \in Nat
    /\ request \in [Requests -> Request]
    /\ failures \in 0 .. MaxFailures[storage]

-----------------------------------------------------------------------------
(* Helpers                                                                 *)

NewCursors == [s \in Sources |-> [read |-> 0, exhausted |-> FALSE, buffer |-> {}]]

NoGeneration == [id |-> 0, revision |-> 0, expired |-> FALSE,
                 exhausted |-> FALSE, cursors |-> NewCursors, local |-> {}]

Idle == [at |-> "idle", end |-> 0, id |-> 0, revision |-> 0,
         exhausted |-> FALSE, cursors |-> NewCursors, local |-> {},
         published |-> {}, added |-> {}, dirty |-> FALSE, blocked |-> {}]

CanonicalsOf(someRows) == {row.canonical : row \in someRows}

Ordinals(someRows) == {row.ordinal : row \in someRows}

Buffered(cursors) == UNION {cursors[s].buffer : s \in Sources}

\* The first of S, if there is one.
First(S) == {c \in S : \A d \in S : c <= d}

Become(r, q) == request' = [request EXCEPT ![r] = q]

\* What the handler of r starts each round of its outer loop with.
Round(q) ==
    LET more == Cardinality(q.published) < q.end /\ ~q.exhausted
        load == query = "favorites" /\ q.local = {} /\ q.published = {}
    IN [q EXCEPT !.at = IF ~more THEN "answer" ELSE IF load THEN "members" ELSE "fill",
                 !.added = {}, !.dirty = FALSE]

Init ==
    /\ storage \in Storages
    /\ query \in {"catalog", "favorites"}
    /\ canonicalOf = FirstCanonical
    /\ retired = {}
    /\ favorite = {}
    /\ writes = 0
    /\ pending = 0
    /\ generation = NoGeneration
    /\ rows = {}
    /\ lastId = 0
    /\ request = [r \in Requests |-> Idle]
    /\ failures = 0

-----------------------------------------------------------------------------
(* Opening a generation                                                    *)

StartRequest(r, end) ==
    /\ request[r].at = "idle"
    /\ Become(r, [Idle EXCEPT !.at = "open", !.end = end])
    /\ UNCHANGED <<storage, query, canonicalOf, retired, stateVars, storedVars, failures>>

\* What of the generation a request works with.
Holding(q, g) ==
    [Idle EXCEPT !.at = "items", !.end = q.end, !.id = g.id,
                 !.revision = g.revision, !.exhausted = g.exhausted,
                 !.cursors = g.cursors, !.local = g.local]

OpenGeneration(r) ==
    /\ request[r].at = "open"
    /\ Become(r, IF generation.id # 0 /\ ~generation.expired
                 THEN Holding(request[r], generation)
                 ELSE [request[r] EXCEPT !.at = "replace", !.id = generation.id,
                                         !.revision = generation.revision])
    /\ UNCHANGED <<storage, query, canonicalOf, retired, stateVars, storedVars, failures>>

\* The generation is still the one r read (or there still is none).
Unmoved(r) ==
    /\ generation.id = request[r].id
    /\ generation.revision = request[r].revision

\* Mutant: a request that lost the compare-and-swap saves again what it has.
SaveAgain(r) == request[r]

\* Mutant: it takes the revision and the rows of the winner, and keeps its
\* own continuations and buffers.
ReopenAdvanced(r) ==
    [request[r] EXCEPT !.at = "items", !.id = generation.id,
                       !.revision = generation.revision]

Reopen(r) == [Idle EXCEPT !.at = "open", !.end = request[r].end]

\* A new generation without rows in the place of the old one.
PlaceGeneration(r) ==
    LET new == [NoGeneration EXCEPT !.id = lastId + 1]
    IN /\ generation' = new
       /\ rows' = {}
       /\ lastId' = lastId + 1
       /\ Become(r, Holding(request[r], new))

\* On D1 this is only the statement before the batch, as in SaveRound.
ReplaceGeneration(r) ==
    /\ request[r].at = "replace"
    /\ \/ Unmoved(r) /\ storage = "sqlite" /\ PlaceGeneration(r)
       \/ Unmoved(r) /\ storage = "d1" /\ Become(r, [request[r] EXCEPT !.at = "place"])
          /\ UNCHANGED storedVars
       \/ ~Unmoved(r) /\ Become(r, Reopen(r)) /\ UNCHANGED storedVars
    /\ UNCHANGED <<storage, query, canonicalOf, retired, stateVars, failures>>

\* A statement of its own: the generation may have moved or be gone by now.
ReadItems(r) ==
    /\ request[r].at = "items"
    /\ Become(r, Round([request[r] EXCEPT
                    !.published = IF generation.id = request[r].id
                                  THEN CanonicalsOf(rows) ELSE {}]))
    /\ UNCHANGED <<storage, query, canonicalOf, retired, stateVars, storedVars, failures>>

-----------------------------------------------------------------------------
(* Filling the page                                                        *)

LoadMembers(r) ==
    /\ request[r].at = "members"
    /\ Become(r, [request[r] EXCEPT !.at = "filter", !.local = favorite])
    /\ UNCHANGED <<storage, query, canonicalOf, retired, stateVars, storedVars, failures>>

\* The members are read again as catalog records and filtered by their state.
FilterMembers(r) ==
    /\ request[r].at = "filter"
    /\ Become(r, [request[r] EXCEPT
                    !.at = "fill", !.dirty = TRUE, !.local = @ \cap favorite,
                    !.cursors = [s \in Sources |-> [@[s] EXCEPT !.exhausted = TRUE]]])
    /\ UNCHANGED <<storage, query, canonicalOf, retired, stateVars, storedVars, failures>>

\* The inner loop of r goes on: the page and the batch have room.
HasRoom(q) ==
    /\ Cardinality(q.published) + Cardinality(q.added) < q.end
    /\ Cardinality(q.added) < Batch

\* q with c as its next addition, unless c was published or added already.
Add(q, c) ==
    IF c \in q.published \cup CanonicalsOf(q.added)
    THEN [q EXCEPT !.dirty = TRUE]
    ELSE [q EXCEPT !.dirty = TRUE,
                   !.added = @ \cup {[ordinal |-> Cardinality(q.published)
                                                  + Cardinality(q.added),
                                      canonical |-> c]}]

TakeLocal(r) ==
    LET q == request[r]
    IN /\ q.at = "fill"
       /\ HasRoom(q)
       /\ \E c \in First(q.local) :
            Become(r, [Add(q, c) EXCEPT !.local = @ \ {c}])
       /\ UNCHANGED <<storage, query, canonicalOf, retired, stateVars, storedVars, failures>>

\* Sources that are asked for their next items.
Asked(q) ==
    {s \in Sources : /\ ~q.cursors[s].exhausted
                     /\ q.cursors[s].buffer = {}
                     /\ s \notin q.blocked}

\* The cursor of s after its next page: every item of the page is resolved to
\* the canonical it has now.
Advanced(s, cursor) ==
    LET end == IF cursor.read + Batch <= Len(Catalog[s])
               THEN cursor.read + Batch ELSE Len(Catalog[s])
    IN [read |-> end,
        exhausted |-> end = cursor.read \/ (s \in Counting /\ end = Len(Catalog[s])),
        buffer |-> {canonicalOf[Catalog[s][n]] : n \in cursor.read + 1 .. end}]

\* All sources that are asked answer or fail; one that fails is not asked
\* again by this request.
FetchPages(r) ==
    LET q == request[r]
    IN /\ q.at = "fill"
       /\ HasRoom(q)
       /\ q.local = {}
       /\ Asked(q) # {}
       /\ \E failed \in SUBSET Asked(q) :
            /\ failures + Cardinality(failed) <= MaxFailures[storage]
            /\ failures' = failures + Cardinality(failed)
            /\ Become(r, [q EXCEPT
                 !.at = "refresh", !.dirty = TRUE, !.blocked = @ \cup failed,
                 !.cursors = [s \in Sources |-> IF s \in Asked(q) \ failed
                                                THEN Advanced(s, @[s]) ELSE @[s]]])
       /\ UNCHANGED <<storage, query, canonicalOf, retired, stateVars, storedVars>>

\* What was buffered is read again: a canonical that is gone is dropped.
Refreshed(cursors) == [s \in Sources |-> [cursors[s] EXCEPT !.buffer = @ \ retired]]

RefreshBuffers(r) ==
    /\ request[r].at = "refresh"
    /\ Become(r, [request[r] EXCEPT !.at = "select", !.cursors = Refreshed(@)])
    /\ UNCHANGED <<storage, query, canonicalOf, retired, stateVars, storedVars, failures>>

Selecting(q) ==
    \/ q.at = "select"
    \/ q.at = "fill" /\ HasRoom(q) /\ q.local = {} /\ Asked(q) = {}

SelectHead(r) ==
    LET q == request[r]
    IN /\ Selecting(q)
       /\ \E c \in First(Buffered(q.cursors)), s \in Sources :
            /\ c \in q.cursors[s].buffer
            /\ Become(r, [Add(q, c) EXCEPT !.at = "fill",
                                           !.cursors[s].buffer = @ \ {c}])
       /\ UNCHANGED <<storage, query, canonicalOf, retired, stateVars, storedVars, failures>>

\* Nothing came of the pages of a round; sources that can are asked again.
AskAgain(r) ==
    LET q == request[r]
    IN /\ q.at = "select"
       /\ Buffered(q.cursors) = {}
       /\ Asked(q) # {}
       /\ Become(r, [q EXCEPT !.at = "fill"])
       /\ UNCHANGED <<storage, query, canonicalOf, retired, stateVars, storedVars, failures>>

-----------------------------------------------------------------------------
(* Saving the page                                                         *)

\* The inner loop of r is over.
Filled(q) ==
    \/ q.at = "fill" /\ ~HasRoom(q)
    \/ Selecting(q) /\ Buffered(q.cursors) = {} /\ Asked(q) = {}

\* Mutant: a source that failed counts as read to its end.
ExhaustedOrBlocked(q) ==
    /\ q.local = {}
    /\ \A s \in Sources : /\ q.cursors[s].exhausted \/ s \in q.blocked
                         /\ q.cursors[s].buffer = {}

Exhausted(q) ==
    /\ q.local = {}
    /\ \A s \in Sources : q.cursors[s].exhausted /\ q.cursors[s].buffer = {}

\* An addition that is no row of the generation yet.
New(row) == row.canonical \notin CanonicalsOf(rows)

\* The insert violates a foreign key or the primary key.
Breaks(row) ==
    /\ New(row)
    /\ row.canonical \in retired \/ row.ordinal \in Ordinals(rows)

\* Both unique keys are violated; which of them decides is SQLite's choice.
MayBreak(row) == ~New(row) /\ row.ordinal \in Ordinals(rows)

AppendItems(r, q) ==
    /\ generation' = [generation EXCEPT !.revision = @ + 1,
                        !.exhausted = q.exhausted, !.cursors = q.cursors,
                        !.local = q.local]
    /\ rows' = rows \cup {row \in q.added : New(row)}
    /\ LET after == [q EXCEPT !.revision = @ + 1, !.dirty = FALSE,
                              !.published = @ \cup CanonicalsOf(q.added)]
       IN Become(r, IF q.added = {} THEN [after EXCEPT !.at = "answer"]
                    ELSE Round(after))
    /\ UNCHANGED lastId

\* What a request whose transaction or batch is aborted for good answers with.
Fail(q) == [Idle EXCEPT !.at = "failed", !.id = q.id]

SaveRound(r) ==
    LET q == [request[r] EXCEPT !.exhausted = Exhausted(request[r])]
        changed == q.dirty \/ q.exhausted # request[r].exhausted
    IN /\ Filled(request[r])
       /\ \/ /\ ~changed
             /\ Become(r, [q EXCEPT !.at = "answer"])
             /\ UNCHANGED storedVars
          \/ /\ changed
             /\ ~Unmoved(r)
             /\ Become(r, Reopen(r))
             /\ UNCHANGED storedVars
          \/ /\ changed
             /\ Unmoved(r) /\ storage = "d1"
             /\ Become(r, [q EXCEPT !.at = "batch"])
             /\ UNCHANGED storedVars
          \/ /\ changed
             /\ Unmoved(r) /\ storage = "sqlite"
             /\ \E row \in q.added : Breaks(row) \/ MayBreak(row)
             /\ Become(r, Fail(q))
             /\ UNCHANGED storedVars
          \/ /\ changed
             /\ Unmoved(r) /\ storage = "sqlite"
             /\ \A row \in q.added : ~Breaks(row)
             /\ AppendItems(r, q)
       /\ UNCHANGED <<storage, query, canonicalOf, retired, stateVars, failures>>

\* The assertions of the batch: the row is still the one that was read.
BatchAsserts(r) == Unmoved(r)

\* The batch of D1, all of it or nothing.
CommitBatch(r) ==
    LET q == request[r]
    IN /\ \/ q.at = "place" /\ BatchAsserts(r) /\ PlaceGeneration(r)
          \/ q.at = "batch" /\ BatchAsserts(r)
             /\ (\A row \in q.added : ~Breaks(row)) /\ AppendItems(r, q)
          \/ /\ \/ q.at \in {"place", "batch"} /\ ~BatchAsserts(r)
                \/ q.at = "batch" /\ (\E row \in q.added : Breaks(row) \/ MayBreak(row))
             /\ Become(r, [q EXCEPT !.at = "look"])
             /\ UNCHANGED storedVars
       /\ UNCHANGED <<storage, query, canonicalOf, retired, stateVars, failures>>

\* A batch was aborted: if the row is what was expected, that was an error.
LookAgain(r) ==
    /\ request[r].at = "look"
    /\ Become(r, IF Unmoved(r) THEN Fail(request[r]) ELSE Reopen(r))
    /\ UNCHANGED <<storage, query, canonicalOf, retired, stateVars, storedVars, failures>>

-----------------------------------------------------------------------------
(* Merges, writes and expiry                                               *)

\* Mutant: the rows of the retired canonical are renamed only.
RowsRenamed(c, d) ==
    {IF row.canonical = d THEN [row EXCEPT !.canonical = c] ELSE row : row \in rows}

\* A row of the retired canonical gives way to one of the survivor.
RowsMerged(c, d) ==
    IF c \in CanonicalsOf(rows)
    THEN {row \in rows : row.canonical # d}
    ELSE {IF row.canonical = d THEN [row EXCEPT !.canonical = c] ELSE row : row \in rows}

\* resolveIdentity of some other request finds that c and d are one.
MergeCanonicals(c, d) ==
    /\ <<c, d>> \in Twins
    /\ {c, d} \cap retired = {}
    /\ canonicalOf' = [i \in Items |-> IF canonicalOf[i] = d THEN c ELSE canonicalOf[i]]
    /\ retired' = retired \cup {d}
    /\ rows' = RowsMerged(c, d)
    /\ \E kept \in {c, d} :
         favorite' = (favorite \ {c, d}) \cup (IF kept \in favorite THEN {c} ELSE {})
    /\ UNCHANGED <<storage, query, writes, pending, generation, lastId, request, failures>>

\* A write of the user state commits; its invalidation is a later statement.
\* (A catalog list takes no notice of either: no writes occur beside one.)
WriteFavorite(c) ==
    /\ query = "favorites"
    /\ c \notin retired
    /\ writes < MaxWrites[storage]
    /\ writes' = writes + 1
    /\ favorite' = IF c \in favorite THEN favorite \ {c} ELSE favorite \cup {c}
    /\ pending' = pending + 1
    /\ UNCHANGED <<storage, query, canonicalOf, retired, storedVars, request, failures>>

\* Mutant: the rows go, the generation stays.
DiscardRows == generation' = generation /\ rows' = {}

Discard == generation' = NoGeneration /\ rows' = {}

\* Deletes where state_dependent = 1; pending writes have such a list.
InvalidateStateDependent ==
    /\ pending > 0
    /\ pending' = pending - 1
    /\ Discard
    /\ UNCHANGED <<storage, query, canonicalOf, retired, favorite, writes, lastId,
                   request, failures>>

Expire ==
    /\ generation.id # 0
    /\ generation.id < MaxGenerations[storage]
    /\ ~generation.expired
    /\ generation' = [generation EXCEPT !.expired = TRUE]
    /\ UNCHANGED <<storage, query, canonicalOf, retired, stateVars, rows, lastId,
                   request, failures>>

\* Maintenance deletes what has expired.
PruneExpired ==
    /\ generation.expired
    /\ Discard
    /\ UNCHANGED <<storage, query, canonicalOf, retired, stateVars, lastId, request, failures>>

-----------------------------------------------------------------------------

RequestStep(r) ==
    \/ OpenGeneration(r)
    \/ ReplaceGeneration(r)
    \/ ReadItems(r)
    \/ LoadMembers(r)
    \/ FilterMembers(r)
    \/ TakeLocal(r)
    \/ FetchPages(r)
    \/ RefreshBuffers(r)
    \/ SelectHead(r)
    \/ AskAgain(r)
    \/ SaveRound(r)
    \/ CommitBatch(r)
    \/ LookAgain(r)

Next ==
    \/ \E r \in Requests, end \in Ends : StartRequest(r, end)
    \/ \E r \in Requests : RequestStep(r)
    \/ \E c, d \in Canonicals : MergeCanonicals(c, d)
    \/ \E c \in Canonicals : WriteFavorite(c)
    \/ InvalidateStateDependent
    \/ Expire
    \/ PruneExpired

Spec == Init /\ [][Next]_vars

-----------------------------------------------------------------------------
(* Safety                                                                  *)

\* The items the stored cursor of a source is past.
Scanned(s) == {Catalog[s][n] : n \in 1 .. generation.cursors[s].read}

\* However two requests interleave, an item that a stored cursor is past is
\* published or buffered, and published once the generation calls itself
\* exhausted. An item whose canonical was merged away while it was buffered
\* may be dropped.
NothingSkipped ==
    \A s \in Sources : \A x \in Scanned(s) :
        canonicalOf[x] = FirstCanonical[x] =>
            \/ canonicalOf[x] \in CanonicalsOf(rows)
            \/ /\ canonicalOf[x] \in Buffered(generation.cursors)
               /\ ~generation.exhausted

\* A generation that calls itself exhausted, and answers a total, has read all
\* its sources to their ends, also those that failed while it was extended.
ExhaustedIsComplete ==
    query = "catalog" /\ generation.exhausted =>
        \A s \in Sources : generation.cursors[s].read = Len(Catalog[s])

\* Pages are slices of dense ordinals and every save succeeds, as long as no
\* merge has removed a row or a buffered canonical. On D1 the first save of a
\* list may fail: another came first, and was deleted before it was looked at.
PagesAreDense ==
    retired = {} =>
        /\ Ordinals(rows) = 0 .. Cardinality(rows) - 1
        /\ \A r \in Requests :
              request[r].at = "failed" => storage = "d1" /\ request[r].id = 0

\* No canonical appears twice in a list, and none that was merged away.
RowsAreDistinct ==
    \A row, other \in rows : row.canonical = other.canonical => row = other

\* The rows of a generation, whoever appends to them or merges them away:
\* typed, free of what was merged away, dense until then, and distinct.
ListIsSound == TypeOK /\ PagesAreDense /\ RowsAreDistinct

\* Once the writes have invalidated, a list of favorites that was loaded holds
\* the favorites, although requests load and save it while writes commit.
ListsFollowState ==
    query = "favorites" /\ retired = {} /\ pending = 0 /\ generation.revision > 0 =>
        CanonicalsOf(rows) \cup generation.local = favorite

\* The place of a row in the list that is sliced into pages.
Position(row, all) == Cardinality({other \in all : other.ordinal < row.ordinal})

\* Published rows keep their position while their generation lives (which the
\* merge of two published canonicals does not respect).
OrdinalsNeverMove ==
    [][generation'.id = generation.id =>
        \A row \in rows : \E moved \in rows' :
            /\ moved.ordinal = row.ordinal
            /\ Position(moved, rows') = Position(row, rows)]_vars

-----------------------------------------------------------------------------
(* Liveness                                                                *)

Fairness == \A r \in Requests : WF_vars(RequestStep(r))

FairSpec == Spec /\ Fairness

\* Retries after a lost compare-and-swap come to an end.
EveryRequestEnds ==
    \A r \in Requests :
        request[r].at # "idle" ~> request[r].at \in {"answer", "failed"}
=============================================================================
