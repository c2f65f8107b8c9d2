----------------------------- MODULE QueryProofs -----------------------------
(***************************************************************************)
(* The list that requests extend together: for any number of requests,     *)
(* sources, items and canonicals, on SQLite and on D1.                     *)
(***************************************************************************)
EXTENDS QueryGenerations, TLAPS, FiniteSetTheorems, FunctionTheorems

-----------------------------------------------------------------------------
(* The inductive invariant                                                 *)

\* Where a request has read the rows and goes on from them, and where the
\* members of a list of favorites are loaded.
Working == {"members", "filter", "fill", "refresh", "select", "batch"}
Loaded == {"fill", "refresh", "select", "batch"}

\* What was read of a source is no more than its list; in a list of favorites
\* a source counts as exhausted without being read.
CursorFits(s, c) ==
    /\ c.read <= Len(Catalog[s])
    /\ query = "catalog" /\ c.exhausted => c.read = Len(Catalog[s])

\* Every item that the cursors are past is shown or buffered, unless its
\* canonical was merged away.
Covered(shown, cursors) ==
    \A s \in Sources : \A n \in 1 .. cursors[s].read :
        FirstCanonical[Catalog[s][n]] \notin retired =>
            FirstCanonical[Catalog[s][n]] \in shown \cup Buffered(cursors)

Drained(cursors) == \A s \in Sources : cursors[s].buffer = {}
AllExhausted(cursors) == \A s \in Sources : cursors[s].exhausted

\* A favorites list can be compared with the state: nothing merged, and every
\* write has invalidated.
Quiet == retired = {} /\ pending = 0

StoredFits ==
    /\ generation.id \in 0 .. lastId
    /\ generation.id = 0 => generation = NoGeneration /\ rows = {}
    /\ generation.revision = 0 => rows = {} /\ generation.local = {}
    /\ IsFiniteSet(rows)
    /\ retired = {} => Ordinals(rows) = 0 .. Cardinality(rows) - 1
    /\ RowsAreDistinct

CursorsFit ==
    /\ \A s \in Sources : CursorFits(s, generation.cursors[s])
    /\ generation.exhausted => Exhausted(generation)
    /\ Covered(CanonicalsOf(rows), generation.cursors)

FavoritesFit ==
    query = "favorites" =>
        /\ Drained(generation.cursors)
        /\ generation.revision > 0 => AllExhausted(generation.cursors)
        /\ Quiet /\ generation.revision > 0 =>
               CanonicalsOf(rows) \cup generation.local = favorite

\* An item keeps the canonical it was first resolved to until that is merged
\* away.
ResolvedAsFirst ==
    \A x \in Items :
        FirstCanonical[x] \notin retired => canonicalOf[x] = FirstCanonical[x]

\* A request with the values of q works on the generation that is stored.
Stands(q) == q.id = generation.id /\ q.revision = generation.revision

Finite(q) == IsFiniteSet(q.published) /\ IsFiniteSet(q.added)

\* A generation is named by its id, which is never given again, and its
\* revisions only grow: a request that was overtaken stays so.
Named(q) ==
    /\ q.id \in 0 .. lastId
    /\ q.id = 0 => q.revision = 0
    /\ q.id = generation.id => q.revision <= generation.revision
    /\ q.at \in Working \cup {"items"} => q.id # 0

\* Additions continue the published rows and repeat none of them.
Continues(q) ==
    /\ q.at \in {"items", "members", "filter"} => q.added = {}
    /\ q.at \in Working =>
         /\ Ordinals(q.added) = Cardinality(q.published) ..
                                Cardinality(q.published) + Cardinality(q.added) - 1
         /\ \A row \in q.added : row.canonical \notin q.published
         /\ \A row, other \in q.added : row.canonical = other.canonical => row = other

\* Only a list of favorites has members to load.
Read(q) ==
    /\ \A s \in Sources : CursorFits(s, q.cursors[s])
    /\ q.at \in {"members", "filter"} => query = "favorites"
    /\ q.at = "batch" /\ q.exhausted => Exhausted(q)

\* A batch is aborted only because the request was overtaken, as long as
\* nothing was merged.
Aborts(q) ==
    /\ q.at \in {"place", "batch", "look"} => storage = "d1"
    /\ retired = {} /\ q.at = "look" /\ q.id # 0 => ~Stands(q)
    /\ retired = {} /\ q.at = "failed" => storage = "d1" /\ q.id = 0

Opened(q) ==
    Stands(q) /\ q.at = "items" =>
        /\ q.cursors = generation.cursors
        /\ q.local = generation.local

\* What a request holds that nothing overtook.
Holds(q) ==
    Stands(q) /\ q.at \in Working =>
        /\ q.published \ retired \subseteq CanonicalsOf(rows)
        /\ retired = {} => q.published = CanonicalsOf(rows)
        /\ Covered(q.published \cup CanonicalsOf(q.added), q.cursors)

Follows(q) ==
    query = "favorites" /\ Stands(q) /\ q.at \in Working =>
        /\ Drained(q.cursors)
        /\ q.at \in Loaded => AllExhausted(q.cursors)
        /\ q.at = "members" => q.local = {}
        /\ q.at \in {"members", "filter"} => q.published = {}
        /\ Quiet /\ q.at = "filter" => q.local = favorite
        /\ Quiet /\ q.at \in Loaded =>
               q.published \cup CanonicalsOf(q.added) \cup q.local = favorite

Fits(q) ==
    /\ Finite(q) /\ Named(q) /\ Continues(q) /\ Read(q)
    /\ Aborts(q) /\ Opened(q) /\ Holds(q) /\ Follows(q)

\* What the handlers hold.
Held == {request[r] : r \in Requests}

QInv ==
    /\ TypeOK /\ StoredFits /\ CursorsFit /\ FavoritesFit /\ ResolvedAsFirst
    /\ \A q \in Held : Fits(q)

-----------------------------------------------------------------------------
(* Lemmas about the operators                                              *)

LEMMA BufferedIs ==
    ASSUME NEW cursors, NEW c
    PROVE  c \in Buffered(cursors) <=> \E s \in Sources : c \in cursors[s].buffer
  BY DEF Buffered

LEMMA CanonicalIs ==
    ASSUME NEW some, NEW c
    PROVE  c \in CanonicalsOf(some) <=> \E row \in some : row.canonical = c
  BY DEF CanonicalsOf

LEMMA CanonicalsOfBoth ==
    ASSUME NEW some, NEW more
    PROVE  CanonicalsOf(some \cup more) = CanonicalsOf(some) \cup CanonicalsOf(more)
  BY DEF CanonicalsOf

LEMMA OrdinalsOfBoth ==
    ASSUME NEW some, NEW more
    PROVE  Ordinals(some \cup more) = Ordinals(some) \cup Ordinals(more)
  BY DEF Ordinals

LEMMA OfNone == CanonicalsOf({}) = {} /\ Ordinals({}) = {}
  BY DEF CanonicalsOf, Ordinals

\* As many canonicals as rows, if no canonical is on two rows.
LEMMA CanonicalsCount ==
    ASSUME NEW some, IsFiniteSet(some)
    PROVE  /\ IsFiniteSet(CanonicalsOf(some))
           /\ (\A row, other \in some : row.canonical = other.canonical => row = other) =>
                  Cardinality(CanonicalsOf(some)) = Cardinality(some)
<1> DEFINE f == [row \in some |-> row.canonical]
<1>1. f \in Surjection(some, CanonicalsOf(some))
  BY DEF Surjection, CanonicalsOf
<1>2. IsFiniteSet(CanonicalsOf(some))
  BY <1>1, FS_Surjection
<1>3. ASSUME \A row, other \in some : row.canonical = other.canonical => row = other
      PROVE  Cardinality(CanonicalsOf(some)) = Cardinality(some)
  <2>1. f \in Injection(some, CanonicalsOf(some))
    BY <1>1, <1>3 DEF Surjection, Injection, IsInjective
  <2> QED
    BY <1>1, <2>1, FS_Surjection
<1> QED
  BY <1>2, <1>3

LEMMA Counts ==
    ASSUME NEW some, IsFiniteSet(some)
    PROVE  Cardinality(some) \in Nat
  BY FS_CardinalityType

LEMMA IntervalsMeet ==
    ASSUME NEW n \in Nat, NEW m \in Nat
    PROVE  0 .. n + m - 1 = (0 .. n - 1) \cup (n .. n + m - 1)
  OBVIOUS

LEMMA CatalogItems ==
    ASSUME NEW s \in Sources
    PROVE  /\ Len(Catalog[s]) \in Nat
           /\ \A n \in 1 .. Len(Catalog[s]) : Catalog[s][n] \in Items
  BY CatalogAssumption

\* What a finite set of rows adds to one it shares no canonical with.
LEMMA Together ==
    ASSUME NEW some, NEW more, IsFiniteSet(some), IsFiniteSet(more), some \cap more = {}
    PROVE  /\ IsFiniteSet(some \cup more)
           /\ Cardinality(some \cup more) = Cardinality(some) + Cardinality(more)
<1>1. Cardinality(some \cap more) = 0
  BY FS_EmptySet
<1>2. Cardinality(some) \in Nat /\ Cardinality(more) \in Nat
  BY FS_CardinalityType
<1>3. IsFiniteSet(some \cup more)
  BY FS_Union
<1>4. Cardinality(some \cup more)
         = Cardinality(some) + Cardinality(more) - Cardinality(some \cap more)
  BY FS_Union
<1> QED
  BY <1>1, <1>2, <1>3, <1>4

-----------------------------------------------------------------------------
(* The beginning                                                           *)

LEMMA Begins == Init => QInv
<1> SUFFICES ASSUME Init PROVE QInv
  OBVIOUS
<1> USE DEF Init
<1>1. Idle \in Request /\ NoGeneration \in Generation /\ NewCursors \in Cursors
  BY DEF Idle, NoGeneration, NewCursors, Request, Generation, Cursors, Cursor, RequestState
<1>2. MaxWrites[storage] \in Nat /\ MaxFailures[storage] \in Nat
  BY NumbersAssumption
<1>3. TypeOK
  BY <1>1, <1>2, FirstCanonicalAssumption, NumbersAssumption DEF TypeOK
<1>4. IsFiniteSet({}) /\ Cardinality({}) = 0
  BY FS_EmptySet
<1>5. StoredFits
  <2>1. Ordinals(rows) = 0 .. Cardinality(rows) - 1
    <3>1. 0 .. 0 - 1 = {}
      OBVIOUS
    <3>2. rows = {} /\ Ordinals({}) = {} /\ Cardinality({}) = 0
      BY <1>4, OfNone
    <3> QED
      BY <3>1, <3>2
  <2>2. RowsAreDistinct
    BY DEF RowsAreDistinct
  <2> QED
    BY <1>4, <2>1, <2>2 DEF StoredFits, NoGeneration
<1>6. \A s \in Sources : CursorFits(s, NewCursors[s]) /\ NewCursors[s].read = 0
                         /\ NewCursors[s].buffer = {}
  BY CatalogItems DEF CursorFits, NewCursors
<1>7. CursorsFit /\ FavoritesFit
  BY <1>6 DEF CursorsFit, FavoritesFit, NoGeneration, Covered, Drained
<1>8. ResolvedAsFirst
  BY DEF ResolvedAsFirst
<1>9. Fits(Idle)
  BY <1>4, <1>6 DEF Fits, Finite, Named, Continues, Read, Aborts, Opened, Holds, Follows, Idle,
                    NoGeneration, Working
<1> QED
  BY <1>3, <1>5, <1>7, <1>8, <1>9 DEF QInv, Held

-----------------------------------------------------------------------------
(* Steps of one request that leave what is stored alone                    *)

StoredSame == UNCHANGED <<storage, query, canonicalOf, retired, stateVars, storedVars>>

LEMMA FitsSame ==
    ASSUME NEW q, Fits(q), StoredSame
    PROVE  Fits(q)'
<1> USE DEF StoredSame, stateVars, storedVars
<1>1. Finite(q)' /\ Named(q)'
  BY DEF Fits, Finite, Named
<1>2. Continues(q)'
  BY DEF Fits, Continues
<1>3. Read(q)'
  BY DEF Fits, Read, CursorFits
<1>4. Aborts(q)' /\ Opened(q)'
  BY DEF Fits, Aborts, Opened, Stands
<1>5. Holds(q)'
  BY DEF Fits, Holds, Stands, Covered
<1>6. Follows(q)'
  BY DEF Fits, Follows, Stands, Quiet
<1> QED
  BY <1>1, <1>2, <1>3, <1>4, <1>5, <1>6 DEF Fits

\* One request changes, the others fit the next state.
LEMMA EachFits ==
    ASSUME TypeOK, NEW r \in Requests, NEW q, Fits(q)', \A p \in Held : Fits(p)',
           Become(r, q)
    PROVE  (\A p \in Held : Fits(p))'
  BY DEF Become, TypeOK, Held

LEMMA LocalKeeps ==
    ASSUME QInv, StoredSame, NEW r \in Requests, NEW q \in Request, Fits(q), Become(r, q),
           failures' \in 0 .. MaxFailures[storage]
    PROVE  QInv'
<1>1. (\A p \in Held : Fits(p))'
  <2>1. Fits(q)' /\ \A p \in Held : Fits(p)'
    BY FitsSame DEF QInv
  <2> QED
    BY <2>1, EachFits DEF QInv
<1> USE DEF StoredSame, stateVars, storedVars
<1>2. TypeOK'
  BY DEF QInv, TypeOK, Become
<1>3. StoredFits'
  BY DEF QInv, StoredFits, RowsAreDistinct
<1>4. CursorsFit'
  BY DEF QInv, CursorsFit, CursorFits, Covered
<1>5. FavoritesFit' /\ ResolvedAsFirst'
  BY DEF QInv, FavoritesFit, ResolvedAsFirst, Quiet
<1> QED
  BY <1>1, <1>2, <1>3, <1>4, <1>5 DEF QInv

LEMMA RequestFits ==
    ASSUME QInv, NEW r \in Requests
    PROVE  /\ request[r] \in Request /\ Fits(request[r])
           /\ generation \in Generation /\ failures \in 0 .. MaxFailures[storage]
  BY DEF QInv, Held, TypeOK

\* A request that is not under way fits if its values do.
LEMMA RestingFits ==
    ASSUME NEW q \in Request, q.at \in {"idle", "open", "replace", "answer"},
           Finite(q), Named(q), \A s \in Sources : CursorFits(s, q.cursors[s])
    PROVE  Fits(q)
  BY DEF Fits, Continues, Read, Aborts, Opened, Holds, Follows, Working

\* What a request begins with, whatever it was.
LEMMA IdleFits ==
    ASSUME QInv
    PROVE  /\ Idle \in Request
           /\ Finite(Idle) /\ Named(Idle)
           /\ \A s \in Sources : CursorFits(s, Idle.cursors[s])
<1>1. Idle \in Request
  BY DEF Idle, NewCursors, Request, Cursors, Cursor, RequestState
<1>2. lastId \in Nat /\ generation.revision \in Nat
  BY DEF QInv, TypeOK, Generation
<1>3. Finite(Idle) /\ Named(Idle)
  BY <1>2, FS_EmptySet DEF Idle, Finite, Named, Working
<1>4. \A s \in Sources : CursorFits(s, Idle.cursors[s])
  BY CatalogItems DEF Idle, NewCursors, CursorFits
<1> QED
  BY <1>1, <1>3, <1>4

\* A request that starts over.
LEMMA OpensAnew ==
    ASSUME QInv, NEW r \in Requests, NEW end \in Nat, StoredSame,
           Become(r, [Idle EXCEPT !.at = "open", !.end = end]), failures' = failures
    PROVE  QInv'
<1> PICK q : q = [Idle EXCEPT !.at = "open", !.end = end]
  OBVIOUS
<1>1. q \in Request /\ q.at = "open" /\ q.cursors = Idle.cursors /\ q.id = 0
      /\ q.revision = 0 /\ q.published = {} /\ q.added = {}
  BY IdleFits DEF Request, RequestState, Idle
<1>2. Finite(q) /\ Named(q)
  BY <1>1, IdleFits DEF Finite, Named, Idle, Working
<1>3. Fits(q)
  BY <1>1, <1>2, IdleFits, RestingFits
<1> QED
  BY <1>1, <1>3, LocalKeeps, RequestFits

LEMMA StartKeeps ==
    ASSUME QInv, NEW r \in Requests, NEW end \in Ends, StartRequest(r, end)
    PROVE  QInv'
  BY OpensAnew, NumbersAssumption DEF StartRequest, StoredSame

LEMMA OpenKeeps ==
    ASSUME QInv, NEW r \in Requests, OpenGeneration(r)
    PROVE  QInv'
<1>1. StoredSame /\ failures' = failures
  BY DEF OpenGeneration, StoredSame
<1>2. request[r] \in Request /\ Fits(request[r]) /\ generation \in Generation
  BY RequestFits
<1>3. generation.id \in 0 .. lastId /\ CursorsFit
      /\ (generation.id = 0 => generation.revision = 0)
  BY DEF QInv, StoredFits, NoGeneration
<1>4. CASE generation.id # 0 /\ ~generation.expired
  <2> PICK q : q = Holding(request[r], generation)
    OBVIOUS
  <2>1. Become(r, q)
    BY <1>4 DEF OpenGeneration
  <2>2. q \in Request /\ q.at = "items" /\ q.id = generation.id
        /\ q.revision = generation.revision /\ q.cursors = generation.cursors
        /\ q.local = generation.local /\ q.published = {} /\ q.added = {}
    BY <1>2, IdleFits DEF Holding, Idle, Request, RequestState, Generation
  <2>3. Finite(q) /\ Named(q)
    BY <2>2, <1>2, <1>3, <1>4, FS_EmptySet DEF Finite, Named, Generation
  <2>4. Fits(q)
    BY <2>2, <2>3, <1>3 DEF Fits, Continues, Read, Aborts, Opened, Holds, Follows, Working,
                            CursorsFit
  <2> QED
    BY <1>1, <2>1, <2>2, <2>4, LocalKeeps, RequestFits
<1>5. CASE ~(generation.id # 0 /\ ~generation.expired)
  <2> PICK q : q = [request[r] EXCEPT !.at = "replace", !.id = generation.id,
                                      !.revision = generation.revision]
    OBVIOUS
  <2>1. Become(r, q)
    BY <1>5 DEF OpenGeneration
  <2>2. q \in Request /\ q.at = "replace" /\ q.id = generation.id
        /\ q.revision = generation.revision /\ q.cursors = request[r].cursors
        /\ q.published = request[r].published /\ q.added = request[r].added
    BY <1>2 DEF Request, RequestState, Generation
  <2>3. Finite(q) /\ Named(q) /\ \A s \in Sources : CursorFits(s, q.cursors[s])
    BY <2>2, <1>2, <1>3 DEF Fits, Finite, Named, Read, Working, Generation
  <2>4. Fits(q)
    BY <2>2, <2>3, RestingFits
  <2> QED
    BY <1>1, <2>1, <2>2, <2>4, LocalKeeps, RequestFits
<1> QED
  BY <1>4, <1>5

\* A request that has added nothing continues what is published.
LEMMA NothingAdded ==
    ASSUME NEW q, q.added = {}, Finite(q)
    PROVE  Continues(q)
<1>1. Cardinality(q.published) \in Nat /\ Cardinality(q.added) = 0
  BY FS_EmptySet, FS_CardinalityType DEF Finite
<1>2. Cardinality(q.published) .. Cardinality(q.published) + Cardinality(q.added) - 1 = {}
  BY <1>1
<1>3. Ordinals(q.added) = {}
  BY OfNone
<1> QED
  BY <1>2, <1>3 DEF Continues

LEMMA RoundIs ==
    ASSUME NEW q \in Request, NEW p, p = Round(q)
    PROVE  /\ p \in Request /\ p.added = {}
           /\ p.id = q.id /\ p.revision = q.revision /\ p.cursors = q.cursors
           /\ p.local = q.local /\ p.published = q.published
           /\ p.at \in {"answer", "members", "fill"}
           /\ p.at = "members" => query = "favorites" /\ q.local = {} /\ q.published = {}
           /\ p.at = "fill" => ~(query = "favorites" /\ q.local = {} /\ q.published = {})
  BY DEF Round, Request, RequestState

LEMMA ReadItemsKeeps ==
    ASSUME QInv, NEW r \in Requests, ReadItems(r)
    PROVE  QInv'
<1>1. StoredSame /\ failures' = failures
  BY DEF ReadItems, StoredSame
<1>2. request[r] \in Request /\ Fits(request[r]) /\ request[r].at = "items"
  BY RequestFits DEF ReadItems
<1> PICK P : P = IF generation.id = request[r].id THEN CanonicalsOf(rows) ELSE {}
  OBVIOUS
<1> PICK q : q = [request[r] EXCEPT !.published = P]
  OBVIOUS
<1>3. P \in SUBSET Canonicals /\ IsFiniteSet(P)
  <2>1. CanonicalsOf(rows) \subseteq Canonicals
    BY DEF QInv, TypeOK, CanonicalsOf
  <2>2. IsFiniteSet(CanonicalsOf(rows))
    BY CanonicalsCount DEF QInv, StoredFits
  <2> QED
    BY <2>1, <2>2, FS_EmptySet
<1>4. q \in Request /\ q.published = P /\ q.id = request[r].id
      /\ q.revision = request[r].revision /\ q.cursors = request[r].cursors
      /\ q.local = request[r].local
  BY <1>2, <1>3 DEF Request
<1> PICK p : p = Round(q)
  OBVIOUS
<1>5. Become(r, p)
  BY DEF ReadItems
<1>6. /\ p \in Request /\ p.added = {}
      /\ p.id = q.id /\ p.revision = q.revision /\ p.cursors = q.cursors
      /\ p.local = q.local /\ p.published = P
      /\ p.at \in {"answer", "members", "fill"}
      /\ p.at = "members" => query = "favorites" /\ p.local = {} /\ P = {}
      /\ p.at = "fill" => ~(query = "favorites" /\ p.local = {} /\ P = {})
  <2>1. q \in Request /\ p = Round(q)
    BY <1>4
  <2>2. /\ p \in Request /\ p.added = {}
        /\ p.id = q.id /\ p.revision = q.revision /\ p.cursors = q.cursors
        /\ p.local = q.local /\ p.published = q.published
        /\ p.at \in {"answer", "members", "fill"}
        /\ p.at = "members" => query = "favorites" /\ q.local = {} /\ q.published = {}
        /\ p.at = "fill" => ~(query = "favorites" /\ q.local = {} /\ q.published = {})
    BY <2>1, RoundIs
  <2> QED
    BY <2>2, <1>4
<1>7. Finite(p)
  BY <1>3, <1>6, FS_EmptySet DEF Finite
<1>8. Named(p) /\ p.id # 0
  BY <1>2, <1>4, <1>6 DEF Fits, Named
<1>9. Read(p) /\ Aborts(p) /\ Opened(p)
  BY <1>2, <1>4, <1>6 DEF Fits, Read, Aborts, Opened
<1>10. ASSUME Stands(p)
       PROVE  p.cursors = generation.cursors /\ p.local = generation.local
              /\ P = CanonicalsOf(rows)
  BY <1>2, <1>4, <1>6, <1>10 DEF Fits, Opened, Stands
<1>11. Holds(p)
  <2> SUFFICES ASSUME Stands(p)
               PROVE  /\ p.published \ retired \subseteq CanonicalsOf(rows)
                      /\ retired = {} => p.published = CanonicalsOf(rows)
                      /\ Covered(p.published \cup CanonicalsOf(p.added), p.cursors)
    BY DEF Holds
  <2>1. p.published \cup CanonicalsOf(p.added) = CanonicalsOf(rows)
    BY <1>6, <1>10, OfNone
  <2> QED
    BY <2>1, <1>6, <1>10 DEF QInv, CursorsFit
<1>12. Follows(p)
  <2> SUFFICES ASSUME query = "favorites", Stands(p), p.at \in Working
               PROVE  Follows(p)
    BY DEF Follows
  <2>1. p.published \cup CanonicalsOf(p.added) \cup p.local
           = CanonicalsOf(rows) \cup generation.local
    BY <1>6, <1>10, OfNone
  <2>2. Drained(p.cursors)
    BY <1>10 DEF QInv, FavoritesFit
  <2>3. CASE p.at = "members"
    BY <2>2, <2>3, <1>6 DEF Follows, Loaded
  <2>4. CASE p.at = "fill"
    <3>1. generation.revision \in Nat /\ generation.revision # 0
      BY <2>4, <1>6, <1>10, OfNone DEF QInv, TypeOK, Generation, StoredFits
    <3>2. generation.revision > 0
      BY <3>1
    <3> QED
      BY <3>2, <2>1, <2>2, <2>4, <1>10 DEF QInv, FavoritesFit, Follows
  <2> QED
    BY <2>3, <2>4, <1>6 DEF Working
<1>13. Fits(p)
  BY <1>6, <1>7, <1>8, <1>9, <1>11, <1>12, NothingAdded DEF Fits
<1> QED
  BY <1>1, <1>5, <1>6, <1>13, LocalKeeps, RequestFits

LEMMA LoadMembersKeeps ==
    ASSUME QInv, NEW r \in Requests, LoadMembers(r)
    PROVE  QInv'
<1>1. StoredSame /\ failures' = failures
  BY DEF LoadMembers, StoredSame
<1>2. request[r] \in Request /\ Fits(request[r]) /\ request[r].at = "members"
  BY RequestFits DEF LoadMembers
<1> PICK q : q = [request[r] EXCEPT !.at = "filter", !.local = favorite]
  OBVIOUS
<1>3. Become(r, q)
  BY DEF LoadMembers
<1>4. q \in Request /\ q.at = "filter" /\ q.local = favorite /\ q.id = request[r].id
      /\ q.revision = request[r].revision /\ q.cursors = request[r].cursors
      /\ q.published = request[r].published /\ q.added = request[r].added
      /\ q.exhausted = request[r].exhausted
  BY <1>2 DEF QInv, TypeOK, Request, RequestState
<1>5. Finite(q) /\ Named(q) /\ Continues(q)
  BY <1>2, <1>4 DEF Fits, Finite, Named, Continues, Working
<1>6. Read(q) /\ Aborts(q) /\ Opened(q)
  BY <1>2, <1>4 DEF Fits, Read, Aborts, Opened
<1>7. Holds(q)
  BY <1>2, <1>4 DEF Fits, Holds, Stands, Working
<1>8. Follows(q)
  BY <1>2, <1>4 DEF Fits, Follows, Stands, Working, Loaded
<1> QED
  BY <1>1, <1>3, <1>4, <1>5, <1>6, <1>7, <1>8, LocalKeeps, RequestFits DEF Fits

-----------------------------------------------------------------------------
(* Filling the page                                                        *)

\* What covers the items read may lose only what was merged away.
LEMMA CoversStill ==
    ASSUME NEW shown, NEW old, NEW more, NEW new,
           Covered(shown, old), \A s \in Sources : new[s].read = old[s].read,
           (shown \cup Buffered(old)) \ retired \subseteq more \cup Buffered(new)
    PROVE  Covered(more, new)
  BY DEF Covered

LEMMA FilterMembersKeeps ==
    ASSUME QInv, NEW r \in Requests, FilterMembers(r)
    PROVE  QInv'
<1>1. StoredSame /\ failures' = failures
  BY DEF FilterMembers, StoredSame
<1>2. request[r] \in Request /\ Fits(request[r]) /\ request[r].at = "filter"
  BY RequestFits DEF FilterMembers
<1> PICK cursors : cursors = [s \in Sources |-> [request[r].cursors[s] EXCEPT !.exhausted = TRUE]]
  OBVIOUS
<1> PICK q : q = [request[r] EXCEPT
                    !.at = "fill", !.dirty = TRUE, !.local = @ \cap favorite,
                    !.cursors = cursors]
  OBVIOUS
<1>3. Become(r, q)
  BY DEF FilterMembers
<1>4. /\ cursors \in Cursors
      /\ \A s \in Sources : /\ cursors[s].read = request[r].cursors[s].read
                            /\ cursors[s].buffer = request[r].cursors[s].buffer
                            /\ cursors[s].exhausted
  BY <1>2 DEF Request, Cursors, Cursor
<1>5. q \in Request /\ q.at = "fill" /\ q.local = request[r].local \cap favorite
      /\ q.id = request[r].id /\ q.revision = request[r].revision /\ q.cursors = cursors
      /\ q.published = request[r].published /\ q.added = request[r].added
  BY <1>2, <1>4 DEF Request, RequestState
<1>6. Finite(q) /\ Named(q) /\ Continues(q)
  BY <1>2, <1>5 DEF Fits, Finite, Named, Continues, Working
<1>7. Read(q) /\ Aborts(q) /\ Opened(q)
  BY <1>2, <1>4, <1>5 DEF Fits, Read, Aborts, Opened, CursorFits
<1>8. Stands(q) => Stands(request[r])
  BY <1>5 DEF Stands
<1>9. Holds(q)
  <2> SUFFICES ASSUME Stands(q)
               PROVE  Holds(q)
    BY DEF Holds
  <2>1. Covered(q.published \cup CanonicalsOf(q.added), request[r].cursors)
    BY <1>2, <1>5, <1>8 DEF Fits, Holds, Working
  <2>2. Covered(q.published \cup CanonicalsOf(q.added), q.cursors)
    BY <2>1, <1>4, <1>5, CoversStill DEF Buffered
  <2> QED
    BY <2>2, <1>2, <1>5, <1>8 DEF Fits, Holds, Working
<1>10. Follows(q)
  <2> SUFFICES ASSUME Stands(q), query = "favorites"
               PROVE  Follows(q)
    BY DEF Follows
  <2>1. Drained(q.cursors) /\ AllExhausted(q.cursors)
    BY <1>2, <1>4, <1>5, <1>8 DEF Fits, Follows, Working, Drained, AllExhausted
  <2>2. q.published = {} /\ (Quiet => request[r].local = favorite)
    BY <1>2, <1>5, <1>8 DEF Fits, Follows, Working
  <2>3. CanonicalsOf(q.added) = {}
    BY <1>2, <1>5, OfNone DEF Fits, Continues
  <2> QED
    BY <2>1, <2>2, <2>3, <1>5 DEF Follows
<1> QED
  BY <1>1, <1>3, <1>5, <1>6, <1>7, <1>9, <1>10, LocalKeeps, RequestFits DEF Fits

\* An addition continues the rows, and is shown once.
LEMMA AddIs ==
    ASSUME NEW q \in Request, NEW c \in Canonicals, NEW a, a = Add(q, c),
           Finite(q), Continues(q), q.at \in {"fill", "select"}
    PROVE  /\ a \in Request /\ a.at = q.at /\ a.id = q.id /\ a.revision = q.revision
           /\ a.published = q.published /\ a.cursors = q.cursors /\ a.local = q.local
           /\ a.exhausted = q.exhausted
           /\ Finite(a) /\ Continues(a)
           /\ a.published \cup CanonicalsOf(a.added)
                = q.published \cup CanonicalsOf(q.added) \cup {c}
<1>1. CASE c \in q.published \cup CanonicalsOf(q.added)
  <2>1. a = [q EXCEPT !.dirty = TRUE]
    BY <1>1 DEF Add
  <2>2. a \in Request /\ a.at = q.at /\ a.id = q.id /\ a.revision = q.revision
        /\ a.published = q.published /\ a.cursors = q.cursors /\ a.local = q.local
        /\ a.exhausted = q.exhausted /\ a.added = q.added
    BY <2>1 DEF Request
  <2>3. Finite(a) /\ Continues(a)
    BY <2>2 DEF Finite, Continues
  <2> QED
    BY <2>2, <2>3, <1>1
<1>2. CASE c \notin q.published \cup CanonicalsOf(q.added)
  <2> PICK n : n = Cardinality(q.published)
    OBVIOUS
  <2> PICK m : m = Cardinality(q.added)
    OBVIOUS
  <2> PICK row : row = [ordinal |-> n + m, canonical |-> c]
    OBVIOUS
  <2>1. n \in Nat /\ m \in Nat
    BY FS_CardinalityType DEF Finite
  <2>2. a = [q EXCEPT !.dirty = TRUE, !.added = @ \cup {row}]
    BY <1>2 DEF Add
  <2>3. row \in Row /\ row.ordinal = n + m /\ row.canonical = c
    BY <2>1 DEF Row
  <2>4. q.added \cup {row} \in SUBSET Row
    BY <2>3 DEF Request
  <2>5. a \in Request /\ a.at = q.at /\ a.id = q.id /\ a.revision = q.revision
        /\ a.published = q.published /\ a.cursors = q.cursors /\ a.local = q.local
        /\ a.exhausted = q.exhausted /\ a.added = q.added \cup {row}
    BY <2>2, <2>4 DEF Request
  <2>6. row \notin q.added
    BY <2>3, <1>2, CanonicalIs
  <2>7. IsFiniteSet(a.added) /\ Cardinality(a.added) = m + 1
    BY <2>5, <2>6, FS_AddElement DEF Finite
  <2>8. Finite(a)
    BY <2>5, <2>7 DEF Finite
  <2>9. Ordinals(a.added) = n .. n + Cardinality(a.added) - 1
    <3>1. Ordinals(q.added) = n .. n + m - 1
      BY DEF Continues, Working
    <3>2. Ordinals({row}) = {n + m}
      BY <2>3 DEF Ordinals
    <3>3. n .. n + (m + 1) - 1 = (n .. n + m - 1) \cup {n + m}
      BY <2>1
    <3>4. Ordinals(a.added) = Ordinals(q.added) \cup Ordinals({row})
      BY <2>5, OrdinalsOfBoth
    <3> QED
      BY <3>1, <3>2, <3>3, <3>4, <2>7
  <2>10. \A other \in q.added : other.canonical # c
    BY <1>2, CanonicalIs
  <2>11. \A other \in a.added : other.canonical \notin a.published
    BY <2>3, <2>5, <1>2 DEF Continues, Working
  <2>12. \A one, other \in a.added : one.canonical = other.canonical => one = other
    BY <2>3, <2>5, <2>10 DEF Continues, Working
  <2>13. Continues(a)
    <3>1. Ordinals(a.added) = Cardinality(a.published) ..
                              Cardinality(a.published) + Cardinality(a.added) - 1
      BY <2>5, <2>9
    <3> QED
      BY <3>1, <2>5, <2>11, <2>12 DEF Continues
  <2>14. CanonicalsOf(a.added) = CanonicalsOf(q.added) \cup {c}
    BY <2>3, <2>5, CanonicalsOfBoth DEF CanonicalsOf
  <2> QED
    BY <2>5, <2>8, <2>13, <2>14
<1> QED
  BY <1>1, <1>2

Filling == {"fill", "refresh", "select"}

\* While a page is filled, nothing is lost of what was read or of the members.
LEMMA FillingFits ==
    ASSUME QInv, NEW q, Fits(q), q.at \in Filling, NEW p \in Request, p.at \in Filling,
           p.id = q.id, p.revision = q.revision, p.published = q.published,
           Finite(p), Continues(p), \A s \in Sources : CursorFits(s, p.cursors[s]),
           Stands(q) => Covered(p.published \cup CanonicalsOf(p.added), p.cursors),
           query = "favorites" /\ Stands(q) =>
               /\ Drained(p.cursors) /\ AllExhausted(p.cursors)
               /\ p.published \cup CanonicalsOf(p.added) \cup p.local
                    = q.published \cup CanonicalsOf(q.added) \cup q.local
    PROVE  Fits(p)
<1> USE DEF Filling
<1>1. Named(p)
  BY DEF Fits, Named, Working
<1>2. Read(p) /\ Aborts(p) /\ Opened(p)
  BY DEF Read, Aborts, Opened
<1>3. Stands(p) <=> Stands(q)
  BY DEF Stands
<1>4. Holds(p)
  BY <1>3 DEF Fits, Holds, Working
<1>5. Follows(p)
  BY <1>3 DEF Fits, Follows, Working, Loaded
<1> QED
  BY <1>1, <1>2, <1>4, <1>5 DEF Fits

LEMMA TakeLocalKeeps ==
    ASSUME QInv, NEW r \in Requests, TakeLocal(r)
    PROVE  QInv'
<1>1. StoredSame /\ failures' = failures
  BY DEF TakeLocal, StoredSame
<1> PICK q : q = request[r]
  OBVIOUS
<1>2. q \in Request /\ Fits(q) /\ q.at = "fill"
  BY RequestFits DEF TakeLocal
<1> PICK c \in First(q.local) : Become(r, [Add(q, c) EXCEPT !.local = @ \ {c}])
  BY DEF TakeLocal
<1>3. c \in q.local /\ c \in Canonicals
  BY <1>2 DEF First, Request
<1> PICK a : a = Add(q, c)
  OBVIOUS
<1>4. /\ a \in Request /\ a.at = "fill" /\ a.id = q.id /\ a.revision = q.revision
      /\ a.published = q.published /\ a.cursors = q.cursors /\ a.local = q.local
      /\ Finite(a) /\ Continues(a)
      /\ a.published \cup CanonicalsOf(a.added)
           = q.published \cup CanonicalsOf(q.added) \cup {c}
  BY <1>2, <1>3, AddIs DEF Fits
<1> PICK p : p = [a EXCEPT !.local = @ \ {c}]
  OBVIOUS
<1>5. p \in Request /\ p.at = "fill" /\ p.id = q.id /\ p.revision = q.revision
      /\ p.published = q.published /\ p.cursors = q.cursors /\ p.local = q.local \ {c}
      /\ p.added = a.added
  BY <1>4 DEF Request
<1>6. Finite(p) /\ Continues(p)
  BY <1>4, <1>5 DEF Finite, Continues
<1>7. Stands(q) => Covered(p.published \cup CanonicalsOf(p.added), p.cursors)
  <2>1. Stands(q) => Covered(q.published \cup CanonicalsOf(q.added), q.cursors)
    BY <1>2 DEF Fits, Holds, Working
  <2> QED
    BY <2>1, <1>4, <1>5 DEF Covered
<1>8. p.published \cup CanonicalsOf(p.added) \cup p.local
        = q.published \cup CanonicalsOf(q.added) \cup q.local
  BY <1>3, <1>4, <1>5
<1>9. query = "favorites" /\ Stands(q) => Drained(p.cursors) /\ AllExhausted(p.cursors)
  BY <1>2, <1>5 DEF Fits, Follows, Working, Loaded
<1>10. \A s \in Sources : CursorFits(s, p.cursors[s])
  BY <1>2, <1>5 DEF Fits, Read
<1>11. Fits(p)
  BY <1>2, <1>5, <1>6, <1>7, <1>8, <1>9, <1>10, FillingFits DEF Filling
<1> QED
  BY <1>1, <1>5, <1>11, LocalKeeps, RequestFits

LEMMA SelectHeadKeeps ==
    ASSUME QInv, NEW r \in Requests, SelectHead(r)
    PROVE  QInv'
<1>1. StoredSame /\ failures' = failures
  BY DEF SelectHead, StoredSame
<1> PICK q : q = request[r]
  OBVIOUS
<1>2. q \in Request /\ Fits(q) /\ q.at \in {"fill", "select"}
  BY RequestFits DEF SelectHead, Selecting
<1>c PICK c \in First(Buffered(q.cursors)), s \in Sources :
            /\ c \in q.cursors[s].buffer
            /\ Become(r, [Add(q, c) EXCEPT !.at = "fill", !.cursors[s].buffer = @ \ {c}])
  BY DEF SelectHead
<1>3. c \in Canonicals /\ q.cursors \in Cursors
  BY <1>c, <1>2 DEF Request, Cursors, Cursor
<1> PICK a : a = Add(q, c)
  OBVIOUS
<1>4. /\ a \in Request /\ a.id = q.id /\ a.revision = q.revision
      /\ a.published = q.published /\ a.cursors = q.cursors /\ a.local = q.local
      /\ a.at = q.at /\ Finite(a) /\ Continues(a)
      /\ a.published \cup CanonicalsOf(a.added)
           = q.published \cup CanonicalsOf(q.added) \cup {c}
  BY <1>2, <1>3, AddIs DEF Fits
<1>cursors PICK cursors : cursors = [a.cursors EXCEPT ![s].buffer = @ \ {c}]
  OBVIOUS
<1>5. /\ cursors \in Cursors
      /\ \A t \in Sources : /\ cursors[t].read = q.cursors[t].read
                            /\ cursors[t].exhausted = q.cursors[t].exhausted
                            /\ q.cursors[t].buffer \ {c} \subseteq cursors[t].buffer
  BY <1>cursors, <1>3, <1>4 DEF Cursors, Cursor
<1>p PICK p : p = [a EXCEPT !.at = "fill", !.cursors = cursors]
  OBVIOUS
<1>6. p \in Request /\ p.at = "fill" /\ p.id = q.id /\ p.revision = q.revision
      /\ p.published = q.published /\ p.cursors = cursors /\ p.local = q.local
      /\ p.added = a.added
  BY <1>p, <1>4, <1>5 DEF Request, RequestState
<1>7. Become(r, p)
  BY <1>cursors, <1>p, <1>c, <1>4 DEF Request
<1>8. Finite(p) /\ Continues(p)
  BY <1>2, <1>4, <1>6 DEF Finite, Continues, Working
<1>9. Stands(q) => Covered(p.published \cup CanonicalsOf(p.added), p.cursors)
  <2>1. Stands(q) => Covered(q.published \cup CanonicalsOf(q.added), q.cursors)
    BY <1>2 DEF Fits, Holds, Working
  <2>2. q.published \cup CanonicalsOf(q.added) \cup Buffered(q.cursors)
          \subseteq p.published \cup CanonicalsOf(p.added) \cup Buffered(p.cursors)
    <3>1. ASSUME NEW x \in Buffered(q.cursors), x # c
          PROVE  x \in Buffered(p.cursors)
      <4>1. PICK t \in Sources : x \in q.cursors[t].buffer
        BY BufferedIs
      <4>2. x \in p.cursors[t].buffer
        BY <4>1, <3>1, <1>5, <1>6
      <4> QED
        BY <4>2, BufferedIs
    <3> QED
      BY <3>1, <1>4, <1>6
  <2>3. \A t \in Sources : p.cursors[t].read = q.cursors[t].read
    BY <1>5, <1>6
  <2>4. (q.published \cup CanonicalsOf(q.added) \cup Buffered(q.cursors)) \ retired
          \subseteq p.published \cup CanonicalsOf(p.added) \cup Buffered(p.cursors)
    BY <2>2
  <2> QED
    BY <2>1, <2>3, <2>4, CoversStill
<1>10. query = "favorites" /\ Stands(q) =>
           /\ Drained(p.cursors) /\ AllExhausted(p.cursors)
           /\ p.published \cup CanonicalsOf(p.added) \cup p.local
                = q.published \cup CanonicalsOf(q.added) \cup q.local
  BY <1>c, <1>2 DEF Fits, Follows, Working, Drained
<1>11. \A t \in Sources : CursorFits(t, p.cursors[t])
  BY <1>2, <1>5, <1>6 DEF Fits, Read, CursorFits
<1>12. q.at \in Filling /\ p.at \in Filling
  BY <1>2, <1>6 DEF Filling
<1>13. Fits(p)
  BY <1>2, <1>6, <1>8, <1>9, <1>10, <1>11, <1>12, FillingFits
<1> QED
  BY <1>1, <1>6, <1>7, <1>13, LocalKeeps, RequestFits

LEMMA AskAgainKeeps ==
    ASSUME QInv, NEW r \in Requests, AskAgain(r)
    PROVE  QInv'
<1>1. StoredSame /\ failures' = failures
  BY DEF AskAgain, StoredSame
<1> PICK q : q = request[r]
  OBVIOUS
<1>2. q \in Request /\ Fits(q) /\ q.at = "select"
  BY RequestFits DEF AskAgain
<1> PICK p : p = [q EXCEPT !.at = "fill"]
  OBVIOUS
<1>3. Become(r, p)
  BY DEF AskAgain
<1>4. p \in Request /\ p.at = "fill" /\ p.id = q.id /\ p.revision = q.revision
      /\ p.published = q.published /\ p.cursors = q.cursors /\ p.local = q.local
      /\ p.added = q.added
  BY <1>2 DEF Request, RequestState
<1>5. Finite(p) /\ Continues(p)
  BY <1>2, <1>4 DEF Fits, Finite, Continues, Working
<1>6. Stands(q) => Covered(p.published \cup CanonicalsOf(p.added), p.cursors)
  BY <1>2, <1>4 DEF Fits, Holds, Working
<1>7. query = "favorites" /\ Stands(q) => Drained(p.cursors) /\ AllExhausted(p.cursors)
  BY <1>2, <1>4 DEF Fits, Follows, Working, Loaded
<1>8. \A s \in Sources : CursorFits(s, p.cursors[s])
  BY <1>2, <1>4 DEF Fits, Read
<1>9. Fits(p)
  BY <1>2, <1>4, <1>5, <1>6, <1>7, <1>8, FillingFits DEF Filling
<1> QED
  BY <1>1, <1>3, <1>4, <1>9, LocalKeeps, RequestFits

LEMMA RefreshKeeps ==
    ASSUME QInv, NEW r \in Requests, RefreshBuffers(r)
    PROVE  QInv'
<1>1. StoredSame /\ failures' = failures
  BY DEF RefreshBuffers, StoredSame
<1> PICK q : q = request[r]
  OBVIOUS
<1>2. q \in Request /\ Fits(q) /\ q.at = "refresh"
  BY RequestFits DEF RefreshBuffers
<1>cursors PICK cursors : cursors = Refreshed(request[r].cursors)
  OBVIOUS
<1>3. /\ cursors \in Cursors
      /\ \A s \in Sources : /\ cursors[s].read = q.cursors[s].read
                            /\ cursors[s].exhausted = q.cursors[s].exhausted
                            /\ cursors[s].buffer = q.cursors[s].buffer \ retired
  BY <1>cursors, <1>2 DEF Request, Cursors, Cursor, Refreshed
<1>p PICK p : p = [request[r] EXCEPT !.at = "select", !.cursors = cursors]
  OBVIOUS
<1>4. Become(r, p)
  BY <1>cursors, <1>p DEF RefreshBuffers
<1>5. p \in Request /\ p.at = "select" /\ p.id = q.id /\ p.revision = q.revision
      /\ p.published = q.published /\ p.cursors = cursors /\ p.local = q.local
      /\ p.added = q.added
  BY <1>p, <1>2, <1>3 DEF Request, RequestState
<1>6. Finite(p) /\ Continues(p)
  BY <1>2, <1>5 DEF Fits, Finite, Continues, Working
<1>7. Stands(q) => Covered(p.published \cup CanonicalsOf(p.added), p.cursors)
  <2>1. Stands(q) => Covered(q.published \cup CanonicalsOf(q.added), q.cursors)
    BY <1>2 DEF Fits, Holds, Working
  <2>2. (q.published \cup CanonicalsOf(q.added) \cup Buffered(q.cursors)) \ retired
          \subseteq p.published \cup CanonicalsOf(p.added) \cup Buffered(p.cursors)
    <3>1. ASSUME NEW x \in Buffered(q.cursors), x \notin retired
          PROVE  x \in Buffered(p.cursors)
      <4>1. PICK t \in Sources : x \in q.cursors[t].buffer
        BY BufferedIs
      <4>2. x \in p.cursors[t].buffer
        BY <4>1, <3>1, <1>3, <1>5
      <4> QED
        BY <4>2, BufferedIs
    <3> QED
      BY <3>1, <1>5
  <2>3. \A t \in Sources : p.cursors[t].read = q.cursors[t].read
    BY <1>3, <1>5
  <2> QED
    BY <2>1, <2>2, <2>3, CoversStill
<1>8. query = "favorites" /\ Stands(q) =>
          /\ Drained(p.cursors) /\ AllExhausted(p.cursors)
          /\ p.published \cup CanonicalsOf(p.added) \cup p.local
               = q.published \cup CanonicalsOf(q.added) \cup q.local
  BY <1>2, <1>3, <1>5 DEF Fits, Follows, Working, Loaded, Drained, AllExhausted
<1>9. \A s \in Sources : CursorFits(s, p.cursors[s])
  BY <1>2, <1>3, <1>5 DEF Fits, Read, CursorFits
<1>10. q.at \in Filling /\ p.at \in Filling
  BY <1>2, <1>5 DEF Filling
<1>11. Fits(p)
  BY <1>2, <1>5, <1>6, <1>7, <1>8, <1>9, <1>10, FillingFits
<1> QED
  BY <1>1, <1>4, <1>5, <1>11, LocalKeeps, RequestFits

\* What the next page of a source leaves: it is read on, and its items are
\* buffered as what they were resolved to.
LEMMA AdvancedIs ==
    ASSUME QInv, NEW s \in Sources, NEW cursor \in Cursor, CursorFits(s, cursor),
           NEW next, next = Advanced(s, cursor)
    PROVE  /\ next \in Cursor /\ CursorFits(s, next)
           /\ \A n \in 1 .. next.read : FirstCanonical[Catalog[s][n]] \notin retired =>
                  \/ n \in 1 .. cursor.read
                  \/ FirstCanonical[Catalog[s][n]] \in next.buffer
<1> PICK len : len = Len(Catalog[s])
  OBVIOUS
<1> PICK end : end = IF cursor.read + Batch <= len THEN cursor.read + Batch ELSE len
  OBVIOUS
<1> PICK buffer : buffer = {canonicalOf[Catalog[s][n]] : n \in cursor.read + 1 .. end}
  OBVIOUS
<1>1. len \in Nat /\ cursor.read \in Nat /\ cursor.read <= len /\ Batch \in Nat /\ Batch # 0
  BY CatalogItems, NumbersAssumption DEF Cursor, CursorFits
<1>2. end \in Nat /\ end <= len /\ cursor.read <= end /\ (end = cursor.read => end = len)
  BY <1>1
<1>over PICK over \in BOOLEAN : over <=> end = cursor.read \/ (s \in Counting /\ end = len)
  OBVIOUS
<1>3. next = [read |-> end, exhausted |-> over, buffer |-> buffer]
  BY <1>over DEF Advanced
<1>4. \A n \in cursor.read + 1 .. end : n \in 1 .. len
  BY <1>1, <1>2
<1>5. \A n \in 1 .. len : Catalog[s][n] \in Items
  BY CatalogItems
<1>6. buffer \in SUBSET Canonicals
  BY <1>4, <1>5 DEF QInv, TypeOK
<1>7. next \in Cursor /\ next.read = end /\ next.buffer = buffer
      /\ (next.exhausted => end = len)
  BY <1>over, <1>2, <1>3, <1>6 DEF Cursor
<1>8. CursorFits(s, next)
  BY <1>2, <1>7 DEF CursorFits
<1>9. ASSUME NEW n \in 1 .. end, n \notin 1 .. cursor.read,
             FirstCanonical[Catalog[s][n]] \notin retired
      PROVE  FirstCanonical[Catalog[s][n]] \in buffer
  <2>1. n \in cursor.read + 1 .. end
    BY <1>1, <1>2, <1>9
  <2>2. canonicalOf[Catalog[s][n]] = FirstCanonical[Catalog[s][n]]
    BY <2>1, <1>4, <1>5, <1>9 DEF QInv, ResolvedAsFirst
  <2> QED
    BY <2>1, <2>2
<1> QED
  BY <1>7, <1>8, <1>9

LEMMA FetchPagesKeeps ==
    ASSUME QInv, NEW r \in Requests, FetchPages(r)
    PROVE  QInv'
<1> PICK q : q = request[r]
  OBVIOUS
<1>1. q \in Request /\ Fits(q) /\ q.at = "fill" /\ Asked(q) # {}
  BY RequestFits DEF FetchPages
<1>failed PICK failed \in SUBSET Asked(request[r]) :
            /\ failures + Cardinality(failed) <= MaxFailures[storage]
            /\ failures' = failures + Cardinality(failed)
            /\ Become(r, [request[r] EXCEPT
                 !.at = "refresh", !.dirty = TRUE, !.blocked = @ \cup failed,
                 !.cursors = [s \in Sources |-> IF s \in Asked(request[r]) \ failed
                                                THEN Advanced(s, @[s]) ELSE @[s]]])
  BY DEF FetchPages
<1>2. StoredSame
  BY DEF FetchPages, StoredSame
<1>3. failures' \in 0 .. MaxFailures[storage]
  <2>1. failed \in SUBSET Sources
    BY DEF Asked
  <2>2. Cardinality(failed) \in Nat
    BY <2>1, SourcesAssumption, FS_Subset, FS_CardinalityType
  <2>3. failures \in Nat /\ MaxFailures[storage] \in Nat
    BY NumbersAssumption DEF QInv, TypeOK
  <2> QED
    BY <1>failed, <2>2, <2>3
<1>cursors PICK cursors :
        cursors = [s \in Sources |-> IF s \in Asked(request[r]) \ failed
                                     THEN Advanced(s, request[r].cursors[s])
                                     ELSE request[r].cursors[s]]
  OBVIOUS
<1>4. ASSUME NEW s \in Sources
      PROVE  /\ cursors[s] \in Cursor /\ CursorFits(s, cursors[s])
             /\ q.cursors[s].buffer \subseteq cursors[s].buffer
             /\ \A n \in 1 .. cursors[s].read : FirstCanonical[Catalog[s][n]] \notin retired =>
                    \/ n \in 1 .. q.cursors[s].read
                    \/ FirstCanonical[Catalog[s][n]] \in cursors[s].buffer
  <2>1. q.cursors[s] \in Cursor /\ CursorFits(s, q.cursors[s])
    BY <1>1 DEF Fits, Read, Request, Cursors
  <2>2. CASE s \in Asked(q) \ failed
    <3>1. cursors[s] = Advanced(s, q.cursors[s]) /\ q.cursors[s].buffer = {}
      BY <1>cursors, <2>2 DEF Asked
    <3> QED
      BY <2>1, <3>1, AdvancedIs
  <2>3. CASE s \notin Asked(q) \ failed
    BY <1>cursors, <2>1, <2>3
  <2> QED
    BY <2>2, <2>3
<1>5. cursors \in Cursors
  BY <1>cursors, <1>4 DEF Cursors
<1>p PICK p : p = [request[r] EXCEPT !.at = "refresh", !.dirty = TRUE,
                                    !.blocked = @ \cup failed, !.cursors = cursors]
  OBVIOUS
<1>6. Become(r, p)
  BY <1>failed, <1>cursors, <1>p
<1>7. p \in Request /\ p.at = "refresh" /\ p.id = q.id /\ p.revision = q.revision
      /\ p.published = q.published /\ p.cursors = cursors /\ p.local = q.local
      /\ p.added = q.added
  BY <1>p, <1>1, <1>5 DEF Request, RequestState, Asked
<1>8. Finite(p) /\ Continues(p)
  BY <1>1, <1>7 DEF Fits, Finite, Continues, Working
<1>9. Stands(q) => Covered(p.published \cup CanonicalsOf(p.added), p.cursors)
  <2> SUFFICES ASSUME Stands(q), NEW s \in Sources, NEW n \in 1 .. cursors[s].read,
                      FirstCanonical[Catalog[s][n]] \notin retired
               PROVE  FirstCanonical[Catalog[s][n]]
                        \in p.published \cup CanonicalsOf(p.added) \cup Buffered(cursors)
    BY <1>7 DEF Covered
  <2>1. Covered(q.published \cup CanonicalsOf(q.added), q.cursors)
    BY <1>1 DEF Fits, Holds, Working
  <2>2. Buffered(q.cursors) \subseteq Buffered(cursors)
    BY <1>4, BufferedIs
  <2>3. CASE n \in 1 .. q.cursors[s].read
    BY <2>1, <2>2, <2>3, <1>7 DEF Covered
  <2>4. CASE n \notin 1 .. q.cursors[s].read
    BY <2>4, <1>4, BufferedIs
  <2> QED
    BY <2>3, <2>4
<1>10. query = "favorites" /\ Stands(q) =>
          /\ Drained(p.cursors) /\ AllExhausted(p.cursors)
          /\ p.published \cup CanonicalsOf(p.added) \cup p.local
               = q.published \cup CanonicalsOf(q.added) \cup q.local
  BY <1>1 DEF Fits, Follows, Working, Loaded, AllExhausted, Asked
<1>11. \A s \in Sources : CursorFits(s, p.cursors[s])
  BY <1>4, <1>7
<1>12. q.at \in Filling /\ p.at \in Filling
  BY <1>1, <1>7 DEF Filling
<1>13. Fits(p)
  BY <1>1, <1>7, <1>8, <1>9, <1>10, <1>11, <1>12, FillingFits
<1> QED
  BY <1>2, <1>3, <1>6, <1>7, <1>13, LocalKeeps

-----------------------------------------------------------------------------
(* Saving the page                                                         *)

\* While nothing was merged, the additions of a request that nothing overtook
\* are new, and so are their ordinals.
LEMMA NothingBreaks ==
    ASSUME QInv, NEW q, Fits(q), Stands(q), q.at \in Working, retired = {}
    PROVE  /\ q.published = CanonicalsOf(rows)
           /\ Cardinality(q.published) = Cardinality(rows)
           /\ \A row \in q.added : New(row) /\ ~Breaks(row) /\ ~MayBreak(row)
<1>1. q.published = CanonicalsOf(rows)
  BY DEF Fits, Holds
<1>2. IsFiniteSet(rows) /\ RowsAreDistinct /\ Ordinals(rows) = 0 .. Cardinality(rows) - 1
  BY DEF QInv, StoredFits
<1>3. Cardinality(q.published) = Cardinality(rows) /\ Cardinality(rows) \in Nat
  BY <1>1, <1>2, CanonicalsCount, FS_CardinalityType DEF RowsAreDistinct
<1>4. ASSUME NEW row \in q.added
      PROVE  New(row) /\ row.ordinal \notin Ordinals(rows)
  <2>1. New(row)
    BY <1>1 DEF Fits, Continues, New
  <2>2. row.ordinal \in Cardinality(q.published) ..
                        Cardinality(q.published) + Cardinality(q.added) - 1
    BY DEF Fits, Continues, Ordinals
  <2>3. Cardinality(q.added) \in Nat
    BY FS_CardinalityType DEF Fits, Finite
  <2> QED
    BY <2>1, <2>2, <2>3, <1>2, <1>3
<1> QED
  BY <1>1, <1>3, <1>4 DEF Breaks, MayBreak

LEMMA ReopenKeeps ==
    ASSUME QInv, NEW r \in Requests, StoredSame, Become(r, Reopen(r)), failures' = failures
    PROVE  QInv'
<1>1. request[r].end \in Nat
  BY RequestFits DEF Request
<1> QED
  BY <1>1, OpensAnew DEF Reopen

\* A request fails only where a merge came between, or a deletion between the
\* aborted batch and the look after it.
LEMMA FailKeeps ==
    ASSUME QInv, NEW r \in Requests, StoredSame, NEW q \in Request, Named(q),
           Become(r, Fail(q)), failures' = failures,
           retired = {} => storage = "d1" /\ q.id = 0
    PROVE  QInv'
<1> PICK p : p = Fail(q)
  OBVIOUS
<1>1. p \in Request /\ p.at = "failed" /\ p.id = q.id /\ p.revision = 0
      /\ p.cursors = Idle.cursors /\ p.published = {} /\ p.added = {}
  BY IdleFits DEF Fail, Idle, Request, RequestState
<1>2. generation.revision \in Nat
  BY RequestFits DEF Generation
<1>3. Finite(p) /\ Named(p) /\ Read(p)
  BY <1>1, <1>2, IdleFits, FS_EmptySet DEF Finite, Named, Read, Working
<1>4. Fits(p)
  BY <1>1, <1>3 DEF Fits, Continues, Aborts, Opened, Holds, Follows, Working
<1> QED
  BY <1>1, <1>4, LocalKeeps, RequestFits

LEMMA LookKeeps ==
    ASSUME QInv, NEW r \in Requests, LookAgain(r)
    PROVE  QInv'
<1>1. StoredSame /\ failures' = failures
  BY DEF LookAgain, StoredSame
<1>2. request[r] \in Request /\ Fits(request[r]) /\ request[r].at = "look"
  BY RequestFits DEF LookAgain
<1>3. CASE Unmoved(r)
  <2>1. Become(r, Fail(request[r]))
    BY <1>3 DEF LookAgain
  <2>2. retired = {} => storage = "d1" /\ request[r].id = 0
    BY <1>2, <1>3 DEF Fits, Aborts, Stands, Unmoved
  <2> QED
    BY <1>1, <1>2, <2>1, <2>2, FailKeeps DEF Fits
<1>4. CASE ~Unmoved(r)
  <2>1. Become(r, Reopen(r))
    BY <1>4 DEF LookAgain
  <2> QED
    BY <1>1, <2>1, ReopenKeeps
<1> QED
  BY <1>3, <1>4

\* A batch that is refused is looked at again.
LEMMA RefusedKeeps ==
    ASSUME QInv, NEW r \in Requests, StoredSame, failures' = failures,
           request[r].at \in {"place", "batch"},
           Become(r, [request[r] EXCEPT !.at = "look"]),
           \/ ~BatchAsserts(r)
           \/ request[r].at = "batch"
              /\ \E row \in request[r].added : Breaks(row) \/ MayBreak(row)
    PROVE  QInv'
<1>1. request[r] \in Request /\ Fits(request[r])
  BY RequestFits
<1> PICK p : p = [request[r] EXCEPT !.at = "look"]
  OBVIOUS
<1>2. p \in Request /\ p.at = "look" /\ p.id = request[r].id
      /\ p.revision = request[r].revision /\ p.cursors = request[r].cursors
      /\ p.published = request[r].published /\ p.added = request[r].added
  BY <1>1 DEF Request, RequestState
<1>3. retired = {} => ~Stands(p)
  <2> SUFFICES ASSUME retired = {}, Stands(p)
               PROVE  FALSE
    OBVIOUS
  <2>1. Stands(request[r]) /\ BatchAsserts(r)
    BY <1>2 DEF Stands, BatchAsserts, Unmoved
  <2> QED
    BY <2>1, <1>1, NothingBreaks DEF Working
<1>4. Finite(p) /\ Named(p) /\ Read(p)
  BY <1>1, <1>2 DEF Fits, Finite, Named, Read, Working
<1>5. Fits(p)
  BY <1>1, <1>2, <1>3, <1>4 DEF Fits, Continues, Aborts, Opened, Holds, Follows, Working
<1> QED
  BY <1>2, <1>5, LocalKeeps, RequestFits

\* A request that was overtaken stays so, and nothing is asked of it.
LEMMA OvertakenFits ==
    ASSUME NEW q, Fits(q), UNCHANGED <<storage, query, retired>>, Named(q)',
           Stands(q)' => q.id = 0
    PROVE  Fits(q)'
<1>1. Finite(q)' /\ Continues(q)'
  BY DEF Fits, Finite, Continues
<1>2. Read(q)'
  BY DEF Fits, Read, CursorFits
<1>3. q.at \in Working \cup {"items"} => q.id # 0
  BY DEF Fits, Named
<1>4. Aborts(q)' /\ Opened(q)'
  BY <1>3 DEF Fits, Aborts, Opened
<1>5. Holds(q)' /\ Follows(q)'
  BY <1>3 DEF Holds, Follows
<1> QED
  BY <1>1, <1>2, <1>4, <1>5 DEF Fits

LEMMA PlaceKeeps ==
    ASSUME QInv, NEW r \in Requests, PlaceGeneration(r),
           UNCHANGED <<storage, query, canonicalOf, retired, stateVars, failures>>
    PROVE  QInv'
<1> USE DEF stateVars
<1> PICK new : new = [NoGeneration EXCEPT !.id = lastId + 1]
  OBVIOUS
<1>1. generation' = new /\ rows' = {} /\ lastId' = lastId + 1
      /\ Become(r, Holding(request[r], new))
  BY DEF PlaceGeneration
<1>2. lastId \in Nat
  BY DEF QInv, TypeOK
<1>3. new \in Generation /\ new.id = lastId + 1 /\ new.revision = 0 /\ ~new.exhausted
      /\ new.cursors = NewCursors /\ new.local = {}
  <2>1. /\ NoGeneration \in Generation /\ NoGeneration.revision = 0
        /\ NoGeneration.exhausted = FALSE /\ NoGeneration.cursors = NewCursors
        /\ NoGeneration.local = {}
    BY DEF NoGeneration, Generation, NewCursors, Cursors, Cursor
  <2>2. lastId + 1 \in Nat
    BY <1>2
  <2> QED
    BY <2>1, <2>2 DEF Generation
<1>4. request[r] \in Request
  BY RequestFits
<1>p PICK p : p = Holding(request[r], new)
  OBVIOUS
<1>5. p \in Request /\ p.at = "items" /\ p.id = lastId + 1 /\ p.revision = 0
      /\ p.cursors = NewCursors /\ p.local = {} /\ p.published = {} /\ p.added = {}
  <2>1. request[r].end \in Nat /\ Idle \in Request /\ Idle.published = {} /\ Idle.added = {}
    BY <1>4, IdleFits DEF Request, Idle
  <2>2. "items" \in RequestState
    BY DEF RequestState
  <2> QED
    BY <1>p, <1>2, <1>3, <2>1, <2>2 DEF Holding, Request, Generation
<1>6. \A s \in Sources : CursorFits(s, NewCursors[s])
  BY IdleFits DEF Idle
<1>7. Fits(p)'
  <2>1. Finite(p)' /\ Continues(p)'
    BY <1>5, FS_EmptySet DEF Finite, Continues, Working
  <2>2. Named(p)'
    BY <1>1, <1>2, <1>3, <1>5 DEF Named
  <2>3. Read(p)' /\ Aborts(p)'
    BY <1>5, <1>6 DEF Read, Aborts, CursorFits
  <2>4. Opened(p)' /\ Holds(p)' /\ Follows(p)'
    BY <1>1, <1>3, <1>5 DEF Opened, Holds, Follows, Working
  <2> QED
    BY <2>1, <2>2, <2>3, <2>4 DEF Fits
<1>8. ASSUME NEW q \in Held
      PROVE  Fits(q)'
  <2>1. q \in Request /\ Fits(q)
    BY DEF QInv, TypeOK, Held
  <2>2. q.id \in 0 .. lastId /\ q.id \in Nat /\ q.id # lastId + 1
    BY <2>1, <1>2 DEF Fits, Named
  <2>3. Named(q)' /\ ~Stands(q)'
    BY <2>1, <2>2, <1>1, <1>2, <1>3 DEF Fits, Named, Stands
  <2> QED
    BY <2>1, <2>3, OvertakenFits
<1>9. (\A q \in Held : Fits(q))'
  <2>1. Become(r, p)
    BY <1>1, <1>p
  <2> QED
    BY <2>1, <1>7, <1>8, EachFits DEF QInv
<1>10. TypeOK'
  BY <1>1, <1>2, <1>3, <1>5, <1>p DEF QInv, TypeOK, Become
<1>11. StoredFits'
  <2>1. 0 .. 0 - 1 = {}
    OBVIOUS
  <2>2. Ordinals({}) = {} /\ Cardinality({}) = 0 /\ IsFiniteSet({})
    BY OfNone, FS_EmptySet
  <2>3. RowsAreDistinct'
    BY <1>1 DEF RowsAreDistinct
  <2>4. (Ordinals(rows) = 0 .. Cardinality(rows) - 1)'
    BY <2>1, <2>2, <1>1
  <2>5. generation'.id \in 0 .. lastId' /\ generation'.id # 0 /\ generation'.local = {}
    BY <1>1, <1>2, <1>3
  <2> QED
    BY <2>2, <2>3, <2>4, <2>5, <1>1 DEF StoredFits
<1>12. \A s \in Sources : NewCursors[s].read = 0 /\ NewCursors[s].buffer = {}
  BY DEF NewCursors
<1>13. CursorsFit'
  BY <1>1, <1>3, <1>6, <1>12 DEF CursorsFit, CursorFits, Covered
<1>14. FavoritesFit' /\ ResolvedAsFirst'
  BY <1>1, <1>3, <1>12 DEF QInv, FavoritesFit, ResolvedAsFirst, Drained
<1> QED
  BY <1>9, <1>10, <1>11, <1>13, <1>14 DEF QInv

\* The rows after an append, and what they show.
LEMMA RowsAfter ==
    ASSUME QInv, NEW q \in Request, Fits(q), Stands(q), q.at \in Working,
           \A row \in q.added : ~Breaks(row),
           NEW more, \A row : row \in more <=> row \in q.added /\ New(row)
    PROVE  /\ IsFiniteSet(rows \cup more)
           /\ rows \cup more \subseteq [ordinal: Nat, canonical: Canonicals \ retired]
           /\ \A row, other \in rows \cup more : row.canonical = other.canonical => row = other
           /\ CanonicalsOf(rows \cup more) = CanonicalsOf(rows) \cup CanonicalsOf(q.added)
           /\ retired = {} => Ordinals(rows \cup more) = 0 .. Cardinality(rows \cup more) - 1
<1>1. IsFiniteSet(rows) /\ IsFiniteSet(q.added) /\ RowsAreDistinct
  BY DEF QInv, StoredFits, Fits, Finite
<1>2. IsFiniteSet(more) /\ rows \cap more = {}
  <2>1. more \in SUBSET q.added
    OBVIOUS
  <2>2. ASSUME NEW row \in rows, row \in more
        PROVE  FALSE
    BY <2>2, CanonicalIs DEF New
  <2> QED
    BY <2>1, <2>2, <1>1, FS_Subset
<1>3. IsFiniteSet(rows \cup more)
      /\ Cardinality(rows \cup more) = Cardinality(rows) + Cardinality(more)
  BY <1>1, <1>2, Together
<1>4. rows \cup more \subseteq [ordinal: Nat, canonical: Canonicals \ retired]
  <2>1. \A row \in more : row \in Row /\ row.canonical \notin retired
    BY DEF Breaks, Request
  <2> QED
    BY <2>1 DEF QInv, TypeOK, Row
<1>5. \A row, other \in rows \cup more : row.canonical = other.canonical => row = other
  <2>1. \A row, other \in more : row.canonical = other.canonical => row = other
    BY DEF Fits, Continues
  <2>2. \A row \in rows, other \in more : row.canonical # other.canonical
    BY CanonicalIs DEF New
  <2>3. \A row, other \in rows : row.canonical = other.canonical => row = other
    BY <1>1 DEF RowsAreDistinct
  <2> QED
    BY <2>1, <2>2, <2>3
<1>6. CanonicalsOf(rows \cup more) = CanonicalsOf(rows) \cup CanonicalsOf(q.added)
  <2>1. CanonicalsOf(more) \subseteq CanonicalsOf(q.added)
    BY DEF CanonicalsOf
  <2>2. CanonicalsOf(q.added) \subseteq CanonicalsOf(rows) \cup CanonicalsOf(more)
    BY DEF CanonicalsOf, New
  <2>3. CanonicalsOf(rows \cup more) = CanonicalsOf(rows) \cup CanonicalsOf(more)
    BY CanonicalsOfBoth
  <2> QED
    BY <2>1, <2>2, <2>3
<1>7. ASSUME retired = {}
      PROVE  Ordinals(rows \cup more) = 0 .. Cardinality(rows \cup more) - 1
  <2>1. more = q.added /\ Cardinality(q.published) = Cardinality(rows)
    BY <1>7, NothingBreaks
  <2> PICK n : n = Cardinality(rows)
    OBVIOUS
  <2> PICK m : m = Cardinality(more)
    OBVIOUS
  <2>2. n \in Nat /\ m \in Nat
    BY <1>1, <1>2, FS_CardinalityType
  <2>3. Ordinals(rows) = 0 .. n - 1 /\ Ordinals(more) = n .. n + m - 1
    BY <2>1, <1>7 DEF QInv, StoredFits, Fits, Continues
  <2>4. 0 .. n + m - 1 = (0 .. n - 1) \cup (n .. n + m - 1)
    BY <2>2, IntervalsMeet
  <2>5. Ordinals(rows \cup more) = Ordinals(rows) \cup Ordinals(more)
    BY OrdinalsOfBoth
  <2>6. Cardinality(rows \cup more) - 1 = n + m - 1
    BY <1>3, <2>2
  <2>7. Ordinals(rows \cup more) = 0 .. n + m - 1
    BY <2>3, <2>4, <2>5
  <2> QED
    BY <2>6, <2>7
<1> QED
  BY <1>3, <1>4, <1>5, <1>6, <1>7

LEMMA AppendKeeps ==
    ASSUME QInv, NEW r \in Requests, NEW q \in Request, Fits(q), Stands(q),
           q.at \in {"fill", "select", "batch"}, q.exhausted => Exhausted(q),
           \A row \in q.added : ~Breaks(row), AppendItems(r, q),
           UNCHANGED <<storage, query, canonicalOf, retired, stateVars, failures>>
    PROVE  QInv'
<1> USE DEF stateVars
<1>1. q.at \in Working /\ q.at \in Loaded
  BY DEF Working, Loaded
<1>g PICK g : g = [generation EXCEPT !.revision = @ + 1, !.exhausted = q.exhausted,
                                     !.cursors = q.cursors, !.local = q.local]
  OBVIOUS
<1>more PICK more : more = {row \in q.added : New(row)}
  OBVIOUS
<1>all PICK all : all = rows \cup more
  OBVIOUS
<1>2. generation' = g /\ rows' = all /\ lastId' = lastId
  BY <1>g, <1>more, <1>all DEF AppendItems
<1>3. lastId \in Nat /\ generation \in Generation /\ q.id = generation.id /\ q.id # 0
      /\ q.revision = generation.revision /\ generation.id \in 0 .. lastId
  BY <1>1 DEF QInv, TypeOK, StoredFits, Stands, Fits, Named
<1>4. g \in Generation /\ g.id = generation.id /\ g.revision = generation.revision + 1
      /\ g.exhausted = q.exhausted /\ g.cursors = q.cursors /\ g.local = q.local
  <2>1. q.exhausted \in BOOLEAN /\ q.cursors \in Cursors /\ q.local \in SUBSET Canonicals
    BY DEF Request
  <2>2. generation.revision + 1 \in Nat
    BY <1>3 DEF Generation
  <2> QED
    BY <1>g, <1>3, <2>1, <2>2 DEF Generation
<1>5. generation.revision \in Nat /\ g.revision \in Nat /\ g.revision > generation.revision
      /\ g.revision > 0
  BY <1>3, <1>4 DEF Generation
<1>6. /\ IsFiniteSet(all)
      /\ all \subseteq [ordinal: Nat, canonical: Canonicals \ retired]
      /\ \A row, other \in all : row.canonical = other.canonical => row = other
      /\ CanonicalsOf(all) = CanonicalsOf(rows) \cup CanonicalsOf(q.added)
      /\ retired = {} => Ordinals(all) = 0 .. Cardinality(all) - 1
  <2>1. /\ IsFiniteSet(rows \cup more)
        /\ rows \cup more \subseteq [ordinal: Nat, canonical: Canonicals \ retired]
        /\ \A row, other \in rows \cup more : row.canonical = other.canonical => row = other
        /\ CanonicalsOf(rows \cup more) = CanonicalsOf(rows) \cup CanonicalsOf(q.added)
        /\ retired = {} => Ordinals(rows \cup more) = 0 .. Cardinality(rows \cup more) - 1
    <3>1. \A row : row \in more <=> row \in q.added /\ New(row)
      BY <1>more
    <3> QED
      BY <3>1, <1>1, RowsAfter
  <2> QED
    BY <1>all, <2>1
<1>shown PICK shown : shown = q.published \cup CanonicalsOf(q.added)
  OBVIOUS
<1>7. /\ shown \ retired \subseteq CanonicalsOf(all)
      /\ retired = {} => shown = CanonicalsOf(all)
      /\ Covered(shown, q.cursors)
  BY <1>shown, <1>1, <1>6 DEF Fits, Holds
<1>8. Covered(CanonicalsOf(all), q.cursors)
  <2>1. (shown \cup Buffered(q.cursors)) \ retired
          \subseteq CanonicalsOf(all) \cup Buffered(q.cursors)
    BY <1>7
  <2> QED
    BY <2>1, <1>7, CoversStill
<1>9. query = "favorites" =>
          /\ Drained(q.cursors) /\ AllExhausted(q.cursors)
          /\ Quiet => shown \cup q.local = favorite
  BY <1>shown, <1>1 DEF Fits, Follows
<1>after PICK after : after = [q EXCEPT !.revision = @ + 1, !.dirty = FALSE,
                              !.published = @ \cup CanonicalsOf(q.added)]
  OBVIOUS
<1>10. shown \in SUBSET Canonicals /\ IsFiniteSet(shown)
  <2>1. CanonicalsOf(q.added) \subseteq Canonicals
    BY DEF Request, Row, CanonicalsOf
  <2>2. IsFiniteSet(CanonicalsOf(q.added)) /\ IsFiniteSet(q.published)
    BY CanonicalsCount DEF Fits, Finite
  <2> QED
    BY <1>shown, <2>1, <2>2, FS_Union DEF Request
<1>11. after \in Request /\ after.at = q.at /\ after.id = q.id
       /\ after.revision = g.revision /\ after.published = shown /\ after.cursors = q.cursors
       /\ after.local = q.local /\ after.added = q.added
  BY <1>after, <1>shown, <1>3, <1>4, <1>10 DEF Request, Generation
<1>p PICK p : p = IF q.added = {} THEN [after EXCEPT !.at = "answer"] ELSE Round(after)
  OBVIOUS
<1>12. Become(r, p)
  BY <1>after, <1>p DEF AppendItems
<1>13. /\ p \in Request /\ p.added = {} /\ p.id = q.id /\ p.revision = g.revision
       /\ p.published = shown /\ p.cursors = q.cursors /\ p.local = q.local
       /\ p.at \in {"answer", "fill"}
  <2>1. CASE q.added = {}
    BY <2>1, <1>p, <1>11 DEF Request, RequestState
  <2>2. CASE q.added # {}
    <3>1. p = Round(after)
      BY <1>p, <2>2
    <3>2. shown # {}
      BY <2>2, <1>shown DEF CanonicalsOf
    <3> QED
      BY <3>1, <3>2, <1>11, RoundIs
  <2> QED
    BY <2>1, <2>2
<1>14. Fits(p)'
  <2>1. Finite(p)
    BY <1>10, <1>13, FS_EmptySet DEF Finite
  <2>2. Finite(p)' /\ Continues(p)'
    BY <2>1, NothingAdded, <1>13 DEF Finite, Continues
  <2>3. Named(p)'
    BY <1>2, <1>3, <1>4, <1>13 DEF Named, Generation
  <2>4. Read(p)' /\ Aborts(p)' /\ Opened(p)'
    BY <1>13 DEF Fits, Read, Aborts, Opened, CursorFits
  <2>5. shown \cup CanonicalsOf(p.added) = shown
    BY <1>13, OfNone
  <2>6. Holds(p)'
    BY <2>5, <1>2, <1>7, <1>13 DEF Holds, Covered
  <2>7. Follows(p)'
    BY <2>5, <1>9, <1>13 DEF Follows, Quiet
  <2> QED
    BY <2>2, <2>3, <2>4, <2>6, <2>7 DEF Fits
<1>15. ASSUME NEW o \in Held
       PROVE  Fits(o)'
  <2>1. o \in Request /\ Fits(o)
    BY DEF QInv, TypeOK, Held
  <2>2. o.revision \in Nat /\ (o.id = generation.id => o.revision <= generation.revision)
    BY <2>1 DEF Request, Fits, Named
  <2>3. Named(o)' /\ ~Stands(o)'
    BY <2>1, <2>2, <1>2, <1>4, <1>5 DEF Fits, Named, Stands
  <2> QED
    BY <2>1, <2>3, OvertakenFits
<1>16. (\A o \in Held : Fits(o))'
  BY <1>12, <1>14, <1>15, EachFits DEF QInv
<1>17. TypeOK'
  BY <1>2, <1>4, <1>6, <1>12, <1>13 DEF QInv, TypeOK, Become
<1>18. StoredFits'
  BY <1>2, <1>3, <1>4, <1>5, <1>6 DEF StoredFits, RowsAreDistinct
<1>19. CursorsFit'
  BY <1>2, <1>4, <1>8 DEF CursorsFit, CursorFits, Covered, Fits, Read, Exhausted
<1>20. FavoritesFit' /\ ResolvedAsFirst'
  BY <1>2, <1>4, <1>7, <1>9 DEF QInv, FavoritesFit, ResolvedAsFirst, Quiet
<1> QED
  BY <1>16, <1>17, <1>18, <1>19, <1>20 DEF QInv

LEMMA ReplaceKeeps ==
    ASSUME QInv, NEW r \in Requests, ReplaceGeneration(r)
    PROVE  QInv'
<1>1. request[r] \in Request /\ Fits(request[r]) /\ request[r].at = "replace"
  BY RequestFits DEF ReplaceGeneration
<1>2. UNCHANGED <<storage, query, canonicalOf, retired, stateVars, failures>>
  BY DEF ReplaceGeneration
<1>3. CASE PlaceGeneration(r)
  BY <1>2, <1>3, PlaceKeeps
<1>4. CASE storage = "d1" /\ Become(r, [request[r] EXCEPT !.at = "place"]) /\ UNCHANGED storedVars
  <2> PICK p : p = [request[r] EXCEPT !.at = "place"]
    OBVIOUS
  <2>1. p \in Request /\ p.at = "place" /\ p.id = request[r].id
        /\ p.revision = request[r].revision /\ p.cursors = request[r].cursors
        /\ p.published = request[r].published /\ p.added = request[r].added
    BY <1>1 DEF Request, RequestState
  <2>2. Finite(p) /\ Named(p) /\ Read(p)
    BY <1>1, <2>1 DEF Fits, Finite, Named, Read, Working
  <2>3. Fits(p)
    BY <1>1, <1>4, <2>1, <2>2 DEF Fits, Continues, Aborts, Opened, Holds, Follows, Working
  <2>4. StoredSame /\ failures' = failures
    BY <1>2, <1>4 DEF StoredSame
  <2>5. Become(r, p)
    BY <1>4
  <2> QED
    BY <2>1, <2>3, <2>4, <2>5, LocalKeeps, RequestFits
<1>5. CASE Become(r, Reopen(r)) /\ UNCHANGED storedVars
  <2>1. StoredSame /\ failures' = failures
    BY <1>2, <1>5 DEF StoredSame
  <2> QED
    BY <1>5, <2>1, ReopenKeeps
<1> QED
  BY <1>3, <1>4, <1>5 DEF ReplaceGeneration

LEMMA SaveRoundKeeps ==
    ASSUME QInv, NEW r \in Requests, SaveRound(r)
    PROVE  QInv'
<1>1. /\ request[r] \in Request /\ Fits(request[r])
      /\ request[r].at \in {"fill", "select"}
  BY RequestFits DEF SaveRound, Filled, Selecting
<1>2. UNCHANGED <<storage, query, canonicalOf, retired, stateVars, failures>>
  BY DEF SaveRound
<1> PICK q : q = [request[r] EXCEPT !.exhausted = Exhausted(request[r])]
  OBVIOUS
<1>over PICK over \in BOOLEAN : over = Exhausted(request[r])
  BY DEF Exhausted
<1>3. q = [request[r] EXCEPT !.exhausted = over]
  BY <1>over
<1>4. /\ q \in Request /\ q.at = request[r].at /\ q.id = request[r].id
      /\ q.revision = request[r].revision /\ q.cursors = request[r].cursors
      /\ q.local = request[r].local /\ q.published = request[r].published
      /\ q.added = request[r].added /\ q.exhausted = over
  BY <1>1, <1>3 DEF Request
<1>5. q.exhausted => Exhausted(q)
  BY <1>over, <1>4 DEF Exhausted
<1>6. Finite(q) /\ Named(q) /\ Continues(q)
  BY <1>1, <1>4 DEF Fits, Finite, Named, Continues, Working
<1>7. Read(q) /\ Aborts(q) /\ Opened(q)
  BY <1>1, <1>4 DEF Fits, Read, Aborts, Opened
<1>8. Holds(q) /\ Follows(q)
  BY <1>1, <1>4 DEF Fits, Holds, Follows, Stands
<1>9. Fits(q)
  BY <1>6, <1>7, <1>8 DEF Fits
<1>10. CASE Become(r, [q EXCEPT !.at = "answer"]) /\ UNCHANGED storedVars
  <2> PICK p : p = [q EXCEPT !.at = "answer"]
    OBVIOUS
  <2>1. p \in Request /\ p.at = "answer" /\ p.id = q.id /\ p.revision = q.revision
        /\ p.cursors = q.cursors /\ p.published = q.published /\ p.added = q.added
    BY <1>4 DEF Request, RequestState
  <2>2. Finite(p) /\ Named(p) /\ \A s \in Sources : CursorFits(s, p.cursors[s])
    BY <1>6, <1>7, <2>1 DEF Finite, Named, Read, Working
  <2>3. Fits(p)
    BY <2>1, <2>2, RestingFits
  <2>4. StoredSame /\ failures' = failures
    BY <1>2, <1>10 DEF StoredSame
  <2>5. Become(r, p)
    BY <1>10
  <2> QED
    BY <2>1, <2>3, <2>4, <2>5, LocalKeeps, RequestFits
<1>11. CASE Become(r, Reopen(r)) /\ UNCHANGED storedVars
  <2>1. StoredSame /\ failures' = failures
    BY <1>2, <1>11 DEF StoredSame
  <2> QED
    BY <1>11, <2>1, ReopenKeeps
<1>12. CASE storage = "d1" /\ Become(r, [q EXCEPT !.at = "batch"]) /\ UNCHANGED storedVars
  <2> PICK p : p = [q EXCEPT !.at = "batch"]
    OBVIOUS
  <2>1. p \in Request /\ p.at = "batch" /\ p.id = q.id /\ p.revision = q.revision
        /\ p.cursors = q.cursors /\ p.local = q.local /\ p.published = q.published
        /\ p.added = q.added /\ p.exhausted = q.exhausted
    BY <1>4 DEF Request, RequestState
  <2>2. Finite(p) /\ Named(p) /\ Continues(p)
    BY <1>1, <1>4, <1>6, <2>1 DEF Finite, Named, Continues, Working
  <2>3. Read(p) /\ Aborts(p) /\ Opened(p)
    BY <1>5, <1>7, <1>12, <2>1 DEF Read, Aborts, Opened, Exhausted
  <2>4. Holds(p) /\ Follows(p)
    BY <1>1, <1>4, <1>8, <2>1 DEF Holds, Follows, Stands, Working, Loaded
  <2>5. Fits(p)
    BY <2>2, <2>3, <2>4 DEF Fits
  <2>6. StoredSame /\ failures' = failures
    BY <1>2, <1>12 DEF StoredSame
  <2>7. Become(r, p)
    BY <1>12
  <2> QED
    BY <2>1, <2>5, <2>6, <2>7, LocalKeeps, RequestFits
<1>13. CASE /\ Unmoved(r) /\ (\E row \in q.added : Breaks(row) \/ MayBreak(row))
            /\ Become(r, Fail(q)) /\ UNCHANGED storedVars
  <2>1. StoredSame /\ failures' = failures
    BY <1>2, <1>13 DEF StoredSame
  <2>2. retired # {}
    <3>1. Stands(q) /\ q.at \in Working
      BY <1>1, <1>4, <1>13 DEF Unmoved, Stands, Working
    <3> QED
      BY <3>1, <1>9, <1>13, NothingBreaks
  <2> QED
    BY <1>4, <1>6, <1>13, <2>1, <2>2, FailKeeps
<1>14. CASE Unmoved(r) /\ (\A row \in q.added : ~Breaks(row)) /\ AppendItems(r, q)
  <2>1. Stands(q)
    BY <1>4, <1>14 DEF Unmoved, Stands
  <2>2. q.at \in {"fill", "select", "batch"}
    BY <1>1, <1>4
  <2> QED
    BY <1>2, <1>4, <1>5, <1>9, <1>14, <2>1, <2>2, AppendKeeps
<1> QED
  BY <1>10, <1>11, <1>12, <1>13, <1>14 DEF SaveRound

LEMMA CommitKeeps ==
    ASSUME QInv, NEW r \in Requests, CommitBatch(r)
    PROVE  QInv'
<1>1. request[r] \in Request /\ Fits(request[r])
  BY RequestFits
<1>2. UNCHANGED <<storage, query, canonicalOf, retired, stateVars, failures>>
  BY DEF CommitBatch
<1>3. CASE PlaceGeneration(r)
  BY <1>2, <1>3, PlaceKeeps
<1>4. CASE /\ request[r].at = "batch" /\ BatchAsserts(r)
           /\ \A row \in request[r].added : ~Breaks(row)
           /\ AppendItems(r, request[r])
  <2> PICK q : q = request[r]
    OBVIOUS
  <2>1. q \in Request /\ Fits(q) /\ q.at = "batch" /\ (q.exhausted => Exhausted(q))
    BY <1>1, <1>4 DEF Fits, Read
  <2>2. Stands(q)
    BY <1>4 DEF BatchAsserts, Unmoved, Stands
  <2>3. AppendItems(r, q) /\ \A row \in q.added : ~Breaks(row)
    BY <1>4
  <2>4. q.at \in {"fill", "select", "batch"}
    BY <2>1
  <2> QED
    BY <1>2, <2>1, <2>2, <2>3, <2>4, AppendKeeps
<1>5. CASE /\ \/ request[r].at \in {"place", "batch"} /\ ~BatchAsserts(r)
              \/ request[r].at = "batch"
                 /\ \E row \in request[r].added : Breaks(row) \/ MayBreak(row)
           /\ Become(r, [request[r] EXCEPT !.at = "look"])
           /\ UNCHANGED storedVars
  <2>1. StoredSame /\ failures' = failures
    BY <1>2, <1>5 DEF StoredSame
  <2> QED
    BY <1>5, <2>1, RefusedKeeps
<1> QED
  BY <1>3, <1>4, <1>5 DEF CommitBatch

-----------------------------------------------------------------------------
(* What other requests, the clock and the maintenance do                   *)

LEMMA WriteKeeps ==
    ASSUME QInv, NEW c \in Canonicals, WriteFavorite(c)
    PROVE  QInv'
<1> USE DEF WriteFavorite, storedVars
<1>1. writes \in Nat /\ pending \in 0 .. writes /\ MaxWrites[storage] \in Nat
  BY NumbersAssumption DEF QInv, TypeOK
<1>2. ~Quiet'
  BY <1>1 DEF Quiet
<1>3. TypeOK'
  BY <1>1 DEF QInv, TypeOK
<1>4. StoredFits' /\ CursorsFit' /\ ResolvedAsFirst'
  BY DEF QInv, StoredFits, RowsAreDistinct, CursorsFit, CursorFits, Covered, ResolvedAsFirst
<1>5. FavoritesFit'
  BY <1>2 DEF QInv, FavoritesFit
<1>6. ASSUME NEW q, Fits(q)
      PROVE  Fits(q)'
  <2>1. Finite(q)' /\ Named(q)' /\ Continues(q)' /\ Read(q)'
    BY <1>6 DEF Fits, Finite, Named, Continues, Read, CursorFits
  <2>2. Aborts(q)' /\ Opened(q)' /\ Holds(q)'
    BY <1>6 DEF Fits, Aborts, Opened, Holds, Stands, Covered
  <2>3. Follows(q)'
    BY <1>2, <1>6 DEF Fits, Follows, Stands
  <2> QED
    BY <2>1, <2>2, <2>3 DEF Fits
<1>7. Held' = Held
  BY DEF Held
<1> QED
  BY <1>3, <1>4, <1>5, <1>6, <1>7 DEF QInv

LEMMA DiscardKeeps ==
    ASSUME QInv, Discard, pending' \in 0 .. writes,
           UNCHANGED <<storage, query, canonicalOf, retired, favorite, writes, lastId,
                       request, failures>>
    PROVE  QInv'
<1> USE DEF Discard
<1>1. NoGeneration \in Generation /\ NoGeneration.id = 0 /\ NoGeneration.revision = 0
      /\ NoGeneration.exhausted = FALSE /\ NoGeneration.cursors = NewCursors
      /\ NoGeneration.local = {}
  BY DEF NoGeneration, Generation, NewCursors, Cursors, Cursor
<1>2. lastId \in Nat
  BY DEF QInv, TypeOK
<1>3. TypeOK'
  BY <1>1 DEF QInv, TypeOK
<1>4. StoredFits'
  <2>1. 0 .. 0 - 1 = {}
    OBVIOUS
  <2>2. Ordinals({}) = {} /\ Cardinality({}) = 0 /\ IsFiniteSet({})
    BY OfNone, FS_EmptySet
  <2>3. RowsAreDistinct'
    BY DEF RowsAreDistinct
  <2>4. (Ordinals(rows) = 0 .. Cardinality(rows) - 1)'
    BY <2>1, <2>2
  <2> QED
    BY <2>2, <2>3, <2>4, <1>1, <1>2 DEF StoredFits
<1>5. \A s \in Sources : CursorFits(s, NewCursors[s]) /\ NewCursors[s].read = 0
                         /\ NewCursors[s].buffer = {}
  BY IdleFits DEF Idle, NewCursors
<1>6. CursorsFit' /\ FavoritesFit'
  BY <1>1, <1>5 DEF CursorsFit, CursorFits, FavoritesFit, Covered, Drained
<1>7. ResolvedAsFirst'
  BY DEF QInv, ResolvedAsFirst
<1>8. ASSUME NEW q, Fits(q)
      PROVE  Fits(q)'
  <2>1. Named(q)' /\ (Stands(q)' => q.id = 0)
    BY <1>1, <1>8 DEF Fits, Named, Stands
  <2> QED
    BY <2>1, <1>8, OvertakenFits
<1>9. Held' = Held
  BY DEF Held
<1> QED
  BY <1>3, <1>4, <1>6, <1>7, <1>8, <1>9 DEF QInv

LEMMA InvalidateKeeps ==
    ASSUME QInv, InvalidateStateDependent
    PROVE  QInv'
<1>1. pending' \in 0 .. writes
  BY DEF InvalidateStateDependent, QInv, TypeOK
<1> QED
  BY <1>1, DiscardKeeps DEF InvalidateStateDependent

LEMMA PruneKeeps ==
    ASSUME QInv, PruneExpired
    PROVE  QInv'
  BY DiscardKeeps DEF PruneExpired, stateVars, QInv, TypeOK

LEMMA ExpireKeeps ==
    ASSUME QInv, Expire
    PROVE  QInv'
<1> USE DEF Expire, stateVars
<1>1. generation \in Generation
  BY RequestFits DEF QInv, TypeOK
<1> PICK g : g = [generation EXCEPT !.expired = TRUE]
  OBVIOUS
<1>2. generation' = g /\ g \in Generation /\ g.id = generation.id /\ g.id # 0
      /\ g.revision = generation.revision /\ g.exhausted = generation.exhausted
      /\ g.cursors = generation.cursors /\ g.local = generation.local
  BY <1>1 DEF Generation
<1>3. TypeOK'
  BY <1>2 DEF QInv, TypeOK
<1>4. StoredFits'
  BY <1>2 DEF QInv, StoredFits, RowsAreDistinct
<1>5. CursorsFit'
  BY <1>2 DEF QInv, CursorsFit, CursorFits, Covered, Exhausted
<1>6. FavoritesFit' /\ ResolvedAsFirst'
  BY <1>2 DEF QInv, FavoritesFit, ResolvedAsFirst, Quiet
<1>7. ASSUME NEW q, Fits(q)
      PROVE  Fits(q)'
  <2>1. Finite(q)' /\ Named(q)' /\ Continues(q)' /\ Read(q)'
    BY <1>2, <1>7 DEF Fits, Finite, Named, Continues, Read, CursorFits
  <2>2. Aborts(q)' /\ Opened(q)' /\ Holds(q)'
    BY <1>2, <1>7 DEF Fits, Aborts, Opened, Holds, Stands, Covered
  <2>3. Follows(q)'
    BY <1>2, <1>7 DEF Fits, Follows, Stands, Quiet
  <2> QED
    BY <2>1, <2>2, <2>3 DEF Fits
<1>8. Held' = Held
  BY DEF Held
<1> QED
  BY <1>3, <1>4, <1>5, <1>6, <1>7, <1>8 DEF QInv

\* A merge takes one canonical from the rows, and no other.
LEMMA RowsMergedAre ==
    ASSUME QInv, NEW c \in Canonicals \ retired, NEW d \in Canonicals \ retired, c # d,
           NEW merged, merged = RowsMerged(c, d)
    PROVE  /\ IsFiniteSet(merged)
           /\ merged \subseteq [ordinal: Nat, canonical: Canonicals \ (retired \cup {d})]
           /\ \A row, other \in merged : row.canonical = other.canonical => row = other
           /\ CanonicalsOf(rows) \ {d} \subseteq CanonicalsOf(merged)
           /\ rows = {} => merged = {}
<1>1. /\ IsFiniteSet(rows)
      /\ rows \subseteq [ordinal: Nat, canonical: Canonicals \ retired]
      /\ \A row, other \in rows : row.canonical = other.canonical => row = other
  BY DEF QInv, TypeOK, StoredFits, RowsAreDistinct
<1>2. CASE c \in CanonicalsOf(rows)
  <2>1. merged = {row \in rows : row.canonical # d}
    BY <1>2 DEF RowsMerged
  <2>2. IsFiniteSet(merged)
    <3>1. merged \in SUBSET rows
      BY <2>1
    <3> QED
      BY <3>1, <1>1, FS_Subset
  <2>3. merged \subseteq [ordinal: Nat, canonical: Canonicals \ (retired \cup {d})]
    BY <1>1, <2>1
  <2>4. CanonicalsOf(rows) \ {d} \subseteq CanonicalsOf(merged)
    BY <2>1 DEF CanonicalsOf
  <2> QED
    BY <1>1, <2>1, <2>2, <2>3, <2>4
<1>3. CASE c \notin CanonicalsOf(rows)
  <2>f PICK f : f = [row \in rows |-> IF row.canonical = d THEN [row EXCEPT !.canonical = c]
                                                          ELSE row]
    OBVIOUS
  <2>1. \A row \in rows : /\ row.canonical # c
                          /\ row.canonical = d =>
                                 f[row] = [ordinal |-> row.ordinal, canonical |-> c]
                          /\ row.canonical # d => f[row] = row
    <3>1. ASSUME NEW row \in rows
          PROVE  [row EXCEPT !.canonical = c] = [ordinal |-> row.ordinal, canonical |-> c]
      BY <1>1
    <3> QED
      BY <2>f, <3>1, <1>3, CanonicalIs
  <2>2. \A row : row \in merged <=> \E was \in rows : row = f[was]
    BY <2>f, <1>3 DEF RowsMerged
  <2>3. IsFiniteSet(merged)
    <3>1. f \in [rows -> merged]
      BY <2>f, <2>2
    <3>2. f \in Surjection(rows, merged)
      BY <3>1, <2>2 DEF Surjection
    <3> QED
      BY <3>2, <1>1, FS_Surjection
  <2>4. \A was \in rows :
            /\ f[was] \in [ordinal: Nat, canonical: Canonicals \ (retired \cup {d})]
            /\ f[was].canonical = IF was.canonical = d THEN c ELSE was.canonical
    <3>1. ASSUME NEW was \in rows, was.canonical = d
          PROVE  /\ f[was] \in [ordinal: Nat, canonical: Canonicals \ (retired \cup {d})]
                 /\ f[was].canonical = c
      <4>1. f[was] = [ordinal |-> was.ordinal, canonical |-> c] /\ was.ordinal \in Nat
        BY <2>1, <1>1, <3>1
      <4> QED
        BY <4>1
    <3>2. ASSUME NEW was \in rows, was.canonical # d
          PROVE  /\ f[was] \in [ordinal: Nat, canonical: Canonicals \ (retired \cup {d})]
                 /\ f[was].canonical = was.canonical
      BY <2>1, <1>1, <3>2
    <3> QED
      BY <3>1, <3>2
  <2>5. merged \subseteq [ordinal: Nat, canonical: Canonicals \ (retired \cup {d})]
    BY <2>2, <2>4
  <2>6. ASSUME NEW row \in merged, NEW other \in merged, row.canonical = other.canonical
        PROVE  row = other
    <3>1. PICK was \in rows : row = f[was]
      BY <2>2
    <3>2. PICK had \in rows : other = f[had]
      BY <2>2
    <3>3. was.canonical = had.canonical
      BY <2>1, <2>4, <2>6, <3>1, <3>2
    <3> QED
      BY <1>1, <3>1, <3>2, <3>3
  <2>7. CanonicalsOf(rows) \ {d} \subseteq CanonicalsOf(merged)
    BY <2>1, <2>2, ZenonT(60) DEF CanonicalsOf
  <2> QED
    BY <2>2, <2>3, <2>5, <2>6, <2>7
<1> QED
  BY <1>2, <1>3

LEMMA MergeKeeps ==
    ASSUME QInv, NEW c \in Canonicals, NEW d \in Canonicals, MergeCanonicals(c, d)
    PROVE  QInv'
<1>1. c \in Canonicals \ retired /\ d \in Canonicals \ retired /\ c # d
  BY TwinsAssumption DEF MergeCanonicals
<1>2. retired' = retired \cup {d} /\ ~Quiet'
  BY DEF MergeCanonicals, Quiet
<1> PICK merged : merged = RowsMerged(c, d)
  OBVIOUS
<1>3. rows' = merged
  BY DEF MergeCanonicals
<1>4. /\ IsFiniteSet(merged)
      /\ merged \subseteq [ordinal: Nat, canonical: Canonicals \ (retired \cup {d})]
      /\ \A row, other \in merged : row.canonical = other.canonical => row = other
      /\ CanonicalsOf(rows) \ {d} \subseteq CanonicalsOf(merged)
      /\ rows = {} => merged = {}
  BY <1>1, RowsMergedAre
<1>5. UNCHANGED <<storage, query, writes, pending, generation, lastId, request, failures>>
  BY DEF MergeCanonicals
<1>6. /\ canonicalOf' \in [Items -> Canonicals \ retired']
      /\ \A i \in Items : canonicalOf[i] # d => canonicalOf'[i] = canonicalOf[i]
  BY <1>1, <1>2 DEF MergeCanonicals, QInv, TypeOK
<1>7. favorite' \subseteq Canonicals \ retired'
  BY <1>1, <1>2 DEF MergeCanonicals, QInv, TypeOK
<1>8. TypeOK'
  BY <1>2, <1>3, <1>4, <1>5, <1>6, <1>7 DEF QInv, TypeOK
<1>9. StoredFits'
  BY <1>2, <1>3, <1>4, <1>5 DEF QInv, StoredFits, RowsAreDistinct
<1>10. CursorsFit'
  <2>1. Covered(CanonicalsOf(rows), generation.cursors)'
    BY <1>2, <1>3, <1>4, <1>5 DEF QInv, CursorsFit, Covered
  <2> QED
    BY <2>1, <1>5 DEF QInv, CursorsFit, CursorFits, Exhausted
<1>11. FavoritesFit'
  BY <1>2, <1>5 DEF QInv, FavoritesFit
<1>12. ResolvedAsFirst'
  BY <1>2, <1>6, FirstCanonicalAssumption DEF QInv, ResolvedAsFirst
<1>13. ASSUME NEW q, Fits(q)
       PROVE  Fits(q)'
  <2>1. Finite(q)' /\ Named(q)' /\ Continues(q)' /\ Read(q)'
    BY <1>5, <1>13 DEF Fits, Finite, Named, Continues, Read, CursorFits
  <2>2. Aborts(q)' /\ Opened(q)'
    BY <1>2, <1>5, <1>13 DEF Fits, Aborts, Opened, Stands
  <2>3. Holds(q)'
    <3> SUFFICES ASSUME Stands(q), q.at \in Working
                 PROVE  /\ q.published \ retired' \subseteq CanonicalsOf(merged)
                        /\ Covered(q.published \cup CanonicalsOf(q.added), q.cursors)'
      BY <1>2, <1>3, <1>5 DEF Holds, Stands
    <3>1. q.published \ retired \subseteq CanonicalsOf(rows)
      BY <1>13 DEF Fits, Holds
    <3>2. Covered(q.published \cup CanonicalsOf(q.added), q.cursors)
      BY <1>13 DEF Fits, Holds
    <3>3. Covered(q.published \cup CanonicalsOf(q.added), q.cursors)'
      BY <3>2, <1>2 DEF Covered
    <3> QED
      BY <3>1, <3>3, <1>2, <1>4
  <2>4. Follows(q)'
    BY <1>2, <1>5, <1>13 DEF Fits, Follows, Stands
  <2> QED
    BY <2>1, <2>2, <2>3, <2>4 DEF Fits
<1>14. Held' = Held
  BY <1>5 DEF Held
<1> QED
  BY <1>8, <1>9, <1>10, <1>11, <1>12, <1>13, <1>14 DEF QInv

LEMMA RequestKeeps ==
    ASSUME QInv, NEW r \in Requests, RequestStep(r)
    PROVE  QInv'
  BY OpenKeeps, ReplaceKeeps, ReadItemsKeeps, LoadMembersKeeps, FilterMembersKeeps,
     TakeLocalKeeps, FetchPagesKeeps, RefreshKeeps, SelectHeadKeeps, AskAgainKeeps,
     SaveRoundKeeps, CommitKeeps, LookKeeps
  DEF RequestStep

LEMMA NothingKeeps ==
    ASSUME QInv, UNCHANGED vars
    PROVE  QInv'
<1> USE DEF vars, stateVars, storedVars
<1>1. TypeOK'
  BY DEF QInv, TypeOK
<1>2. StoredFits' /\ CursorsFit' /\ FavoritesFit' /\ ResolvedAsFirst'
  BY DEF QInv, StoredFits, RowsAreDistinct, CursorsFit, CursorFits, Covered, FavoritesFit,
         Quiet, ResolvedAsFirst
<1>3. StoredSame
  BY DEF StoredSame
<1>4. (\A q \in Held : Fits(q))'
  BY <1>3, FitsSame DEF QInv, Held
<1> QED
  BY <1>1, <1>2, <1>4 DEF QInv

\* The inductive invariant of the list, on either storage.
THEOREM GenerationsKept == Spec => []QInv
<1>1. QInv /\ [Next]_vars => QInv'
  <2> SUFFICES ASSUME QInv, [Next]_vars
               PROVE  QInv'
    OBVIOUS
  <2>1. ASSUME NEW r \in Requests, NEW end \in Ends, StartRequest(r, end)
        PROVE  QInv'
    BY <2>1, StartKeeps
  <2>2. ASSUME NEW r \in Requests, RequestStep(r)
        PROVE  QInv'
    BY <2>2, RequestKeeps
  <2>3. ASSUME NEW c \in Canonicals, NEW d \in Canonicals, MergeCanonicals(c, d)
        PROVE  QInv'
    BY <2>3, MergeKeeps
  <2>4. ASSUME NEW c \in Canonicals, WriteFavorite(c)
        PROVE  QInv'
    BY <2>4, WriteKeeps
  <2>5. CASE InvalidateStateDependent \/ Expire \/ PruneExpired
    BY <2>5, InvalidateKeeps, ExpireKeeps, PruneKeeps
  <2>6. CASE UNCHANGED vars
    BY <2>6, NothingKeeps
  <2> QED
    BY <2>1, <2>2, <2>3, <2>4, <2>5, <2>6 DEF Next
<1> QED
  BY <1>1, Begins, PTL DEF Spec

-----------------------------------------------------------------------------
(* What the list promises                                                  *)

\* Requests that extend one list together, on SQLite and on D1, never show a
\* canonical twice or one that was merged away; and as long as nothing was
\* merged, the rows are numbered densely and no save fails, except on D1 the
\* first of a list that was deleted before its batch was looked at.
THEOREM ListStaysSound == Spec => []ListIsSound
<1>1. QInv => ListIsSound
  <2> SUFFICES ASSUME QInv
               PROVE  ListIsSound
    OBVIOUS
  <2>1. ASSUME retired = {}, NEW r \in Requests, request[r].at = "failed"
        PROVE  storage = "d1" /\ request[r].id = 0
    BY <2>1, RequestFits DEF Fits, Aborts
  <2> QED
    BY <2>1 DEF QInv, ListIsSound, StoredFits, PagesAreDense
<1> QED
  BY <1>1, GenerationsKept, PTL

\* No item that a stored cursor is past is lost, whichever of the requests won
\* the compare-and-swap: its canonical is a row, or is buffered by a generation
\* that does not call itself exhausted, unless it was merged away.
THEOREM ListsSkipNothing == Spec => []NothingSkipped
<1>1. QInv => NothingSkipped
  <2> SUFFICES ASSUME QInv, NEW s \in Sources, NEW x \in Scanned(s),
                      canonicalOf[x] = FirstCanonical[x]
               PROVE  \/ canonicalOf[x] \in CanonicalsOf(rows)
                      \/ /\ canonicalOf[x] \in Buffered(generation.cursors)
                         /\ ~generation.exhausted
    BY DEF NothingSkipped
  <2>1. PICK n \in 1 .. generation.cursors[s].read : x = Catalog[s][n]
    BY DEF Scanned
  <2>2. generation.cursors[s].read \in Nat
        /\ generation.cursors[s].read <= Len(Catalog[s])
    BY RequestFits DEF QInv, TypeOK, Generation, Cursors, Cursor, CursorsFit, CursorFits
  <2>3. x \in Items
    <3>1. n \in 1 .. Len(Catalog[s])
      BY <2>2, CatalogItems
    <3> QED
      BY <2>1, <3>1, CatalogItems
  <2>4. FirstCanonical[x] \notin retired
    BY <2>3 DEF QInv, TypeOK
  <2>5. FirstCanonical[x] \in CanonicalsOf(rows) \cup Buffered(generation.cursors)
    BY <2>1, <2>4 DEF QInv, CursorsFit, Covered
  <2>6. generation.exhausted => Buffered(generation.cursors) = {}
    BY DEF QInv, CursorsFit, Exhausted, Buffered
  <2> QED
    BY <2>5, <2>6
<1> QED
  BY <1>1, GenerationsKept, PTL

\* A catalog list calls itself exhausted only when every source was read to
\* its end, also those whose upstream failed while other requests read on.
THEOREM ExhaustedListsAreComplete == Spec => []ExhaustedIsComplete
<1>1. QInv => ExhaustedIsComplete
  BY DEF QInv, CursorsFit, CursorFits, Exhausted, ExhaustedIsComplete
<1> QED
  BY <1>1, GenerationsKept, PTL

\* Once all writes of the user state have invalidated, a saved list of
\* favorites shows, or has still to show, exactly the favorites: a request that
\* loaded the members before a write never saves them after its invalidation.
THEOREM FavoritesFollow == Spec => []ListsFollowState
<1>1. QInv => ListsFollowState
  BY DEF QInv, FavoritesFit, Quiet, ListsFollowState
<1> QED
  BY <1>1, GenerationsKept, PTL
=============================================================================
