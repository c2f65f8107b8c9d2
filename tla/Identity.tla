------------------------------- MODULE Identity -------------------------------
(***************************************************************************)
(* The resolution of upstream items to canonical items: external claims    *)
(* cluster the items, clusters that turn out to be one are merged into the *)
(* oldest, and the retired ids stay as aliases.  A resolution is one       *)
(* transaction on SQLite and, on D1, reads followed by one batch; a cover  *)
(* writes its resolution a second time afterwards.                         *)
(*                                                                         *)
(* One server.  User states, outbox rows and lists, which a merge moves    *)
(* along, are in Outbox, Playback and QueryGenerations; media versions and *)
(* display metadata are left out.                                          *)
(***************************************************************************)
EXTENDS Naturals, Functions, Tables

CONSTANTS
    Resolvers,     \* fibers that resolve items
    Items,         \* upstream items
    Shelves,       \* sets of items, one of which the upstream has
    TypeOf,        \* item -> "Movie", "Series", "Season" or "Episode"
    SeriesOf,      \* season or episode -> the item of its series
    NumberOf,      \* season or episode -> its number within the series
    Offers,        \* item -> what the upstream may say of it: claims, numbers
    Databases,     \* "sqlite", "d1"
    MaxGenerations,\* bound on the server's generation
    MaxResolutions \* store -> shelf -> bound on the resolutions begun

ASSUME ItemsAssumption ==
    /\ TypeOf \in [Items -> {"Movie", "Series", "Season", "Episode"}]
    /\ \A item \in DOMAIN SeriesOf : item \in Items /\ SeriesOf[item] \in Items
ASSUME DatabasesAssumption == Databases \subseteq {"sqlite", "d1"}
ASSUME ShelvesAssumption == Shelves \subseteq SUBSET Items
ASSUME ResolutionsAssumption ==
    /\ MaxGenerations \in Nat \ {0}
    /\ \A d \in Databases, s \in Shelves : MaxResolutions[d][s] \in Nat

VARIABLES
    database,    \* the store, chosen once
    shelf,       \* the items of the upstream, chosen once
    generation,  \* upstream_servers.generation
    canonicals,  \* live id -> canonical_items row with its identity_claims
    aliases,     \* canonical_aliases
    sources,     \* item -> source_items row
    resolver,    \* fiber -> what its resolution holds
    begun,       \* resolutions begun so far
    given        \* history: the canonical ids resolutions have returned

identityVars == <<database, shelf, generation, canonicals, aliases, sources, resolver, begun, given>>

upstreamWorld == <<database, shelf>>
tables == <<canonicals, aliases, sources>>

-----------------------------------------------------------------------------
(* Claims                                                                  *)

NoClaims == <<>>

\* No id: an id is a pair or a triple.
Absent == <<>>

ParentRequired(item) == TypeOf[item] \in {"Season", "Episode"}

\* Claims are sorted by namespace, and imdb comes before tmdb.
FirstNamespace(claims) ==
    IF "imdb:title" \in DOMAIN claims THEN "imdb:title" ELSE CHOOSE ns \in DOMAIN claims : TRUE

\* A season is known by its series and number, an episode only without a claim.
HasFallback(c) ==
    /\ c.series # Absent
    /\ \/ TypeOf[c.item] = "Season" /\ c.numbers # "missing"
       \/ TypeOf[c.item] = "Episode" /\ c.claims = NoClaims /\ c.numbers = "known"

SourceExclusiveReason(c) ==
    IF /\ ParentRequired(c.item)
       /\ \/ c.series = Absent
          \/ ~HasFallback(c) /\ c.claims = NoClaims /\ c.numbers # "conflicting"
    THEN "parent-unresolved" ELSE "none"

SourceExclusiveId(item) == <<"source", item>>

ProposedId(c) ==
    IF c.claims = NoClaims THEN Absent
    ELSE LET ns == FirstNamespace(c.claims) IN <<TypeOf[c.item], ns, c.claims[ns]>>

\* What the item is matched by, given the live series its fallback leads to.
Matching(c, parent) ==
    CASE HasFallback(c) /\ parent # Absent ->
            LET ns == IF TypeOf[c.item] = "Season" THEN "fallback:season" ELSE "fallback:episode"
                value == <<parent, NumberOf[c.item]>>
            IN  [claims |-> [n \in {ns} |-> value], proposed |-> <<ns, value>>,
                 state |-> "fallback", reason |-> "none"]
      [] HasFallback(c) /\ parent = Absent ->
            [claims |-> NoClaims, proposed |-> Absent,
             state |-> "source-exclusive", reason |-> "parent-unresolved"]
      [] OTHER ->
            [claims |-> c.claims, proposed |-> ProposedId(c),
             state |-> IF c.claims = NoClaims THEN "source-exclusive" ELSE "exact",
             reason |-> SourceExclusiveReason(c)]

-----------------------------------------------------------------------------
(* Reads of the tables                                                     *)

Live == DOMAIN canonicals

\* lookupCanonicalId: a live id itself, else where its alias leads.
Lookup(id) ==
    CASE id \in Live -> id
      [] id \notin Live /\ id \in DOMAIN aliases -> aliases[id]
      [] OTHER -> Absent

LookedUp(id) == IF Lookup(id) = Absent THEN id ELSE Lookup(id)

ParentOf(c) ==
    LET id == IF HasFallback(c) THEN Lookup(c.series) ELSE Absent
    IN  IF id # Absent /\ canonicals[id].type = "Series" THEN id ELSE Absent

ExistingOf(item) == IF item \in DOMAIN sources THEN sources[item].canonical ELSE Absent

\* An exact claim of the row, by namespace.
ExactOf(row) == Restrict(row.claims, {ns \in DOMAIN row.claims : row.claims[ns].exact})

\* Mutant: only the claim the proposed id is made of is looked for.
MatchedByFirst(type, claims) ==
    {id \in Live :
        /\ claims # NoClaims /\ canonicals[id].type = type
        /\ FirstNamespace(claims) \in DOMAIN ExactOf(canonicals[id])
        /\ canonicals[id].claims[FirstNamespace(claims)].value = claims[FirstNamespace(claims)]}

Matched(type, claims) ==
    {id \in Live :
        /\ canonicals[id].type = type
        /\ \E ns \in DOMAIN claims :
              /\ ns \in DOMAIN ExactOf(canonicals[id])
              /\ canonicals[id].claims[ns].value = claims[ns]}

RowsOf(type, ids) == Restrict(canonicals, {id \in ids \cap Live : canonicals[id].type = type})

-----------------------------------------------------------------------------
(* The decision                                                            *)

Says(row, ns, value) == ns \in DOMAIN ExactOf(row) /\ row.claims[ns].value = value

\* Some namespace would have two values in the joined cluster.
Incompatible(claims, rows) ==
    \E id \in DOMAIN rows : \E ns \in DOMAIN ExactOf(rows[id]) :
        \/ ns \in DOMAIN claims /\ ~Says(rows[id], ns, claims[ns])
        \/ \E other \in DOMAIN rows :
              ns \in DOMAIN ExactOf(rows[other]) /\ ~Says(rows[other], ns, rows[id].claims[ns].value)

Oldest(rows) ==
    CHOOSE id \in DOMAIN rows : \A other \in DOMAIN rows : rows[id].created <= rows[other].created

\* Whether the chosen id may have been retired, and is looked up.
IsLookedUp(match, rows) == Incompatible(match.claims, rows) \/ DOMAIN rows = {}

\* Mutant: a conflict moves the item to a canonical of its own.
ChosenApart(item, match, existing, rows) ==
    CASE Incompatible(match.claims, rows) -> SourceExclusiveId(item)
      [] ~Incompatible(match.claims, rows) /\ DOMAIN rows # {} -> Oldest(rows)
      [] OTHER -> IF match.proposed # Absent THEN match.proposed ELSE SourceExclusiveId(item)

Chosen(item, match, existing, rows) ==
    CASE Incompatible(match.claims, rows) ->
            IF existing # Absent THEN existing ELSE SourceExclusiveId(item)
      [] ~Incompatible(match.claims, rows) /\ DOMAIN rows # {} -> Oldest(rows)
      [] OTHER -> IF match.proposed # Absent THEN match.proposed ELSE SourceExclusiveId(item)

Rank ==
    [state \in {"source-exclusive", "fallback", "exact"} |->
        CASE state = "source-exclusive" -> 0
          [] state = "fallback" -> 1
          [] state = "exact" -> 2]

\* The best of the states of the match, of the rows and of their exact claims.
RetainedState(match, rows) ==
    LET namespaces == UNION {DOMAIN ExactOf(rows[id]) : id \in DOMAIN rows}
        ofClaims == {IF ns \in {"fallback:season", "fallback:episode"} THEN "fallback" ELSE "exact"
                        : ns \in namespaces}
        states == {match.state} \cup {rows[id].state : id \in DOMAIN rows} \cup ofClaims
    IN  CHOOSE s \in states : \A other \in states : Rank[s] >= Rank[other]

-----------------------------------------------------------------------------
(* The writes of a resolution                                              *)

Claimed(claims, exact) == [ns \in DOMAIN claims |-> [value |-> claims[ns], exact |-> exact]]

Retired(conflict, survivor, rows) == IF conflict THEN {} ELSE DOMAIN rows \ {survivor}

\* INSERT OR IGNORE: the row that is there, or a new one.
Ensured(r, conflict, survivor) ==
    IF survivor \in Live THEN canonicals[survivor]
    ELSE [type |-> TypeOf[r.item], created |-> r.stamp, claims |-> NoClaims,
          state |-> IF conflict THEN "source-exclusive" ELSE r.match.state]

\* Exact claims of the retired rows as they were read, ignored where the
\* survivor has a claim of the namespace.
Inherited(row, retired, rows) ==
    Over(row.claims,
         [ns \in UNION {DOMAIN ExactOf(rows[id]) : id \in retired} |->
             rows[CHOOSE id \in retired : ns \in DOMAIN ExactOf(rows[id])].claims[ns]])

\* On a conflict only an item seen for the first time leaves its claims, in
\* quarantine; otherwise what was in quarantine goes and the match is exact.
ClaimsAfter(r, conflict, row, retired) ==
    IF conflict
    THEN IF r.existing = Absent THEN Over(Claimed(r.claims, FALSE), row.claims) ELSE row.claims
    ELSE Over(Claimed(r.match.claims, TRUE),
              ExactOf([claims |-> Inherited(row, retired, r.rows)]))

StateAfter(r, conflict, row) ==
    CASE ~conflict -> RetainedState(r.match, r.rows)
      [] conflict /\ database = "sqlite" -> row.state
      [] conflict /\ database = "d1" -> "source-exclusive"

\* Mutant: the proposed id becomes an alias, the retired ones do not.
AliasesLearned(r, conflict, survivor, retired) ==
    Over([a \in IF conflict THEN {} ELSE {r.match.proposed} \ {Absent, survivor} |-> survivor],
         [a \in DOMAIN aliases |-> IF aliases[a] \in retired THEN survivor ELSE aliases[a]])

AliasesAfter(r, conflict, survivor, retired) ==
    LET repointed == [a \in DOMAIN aliases |->
                        IF aliases[a] \in retired THEN survivor ELSE aliases[a]]
        learned == IF ~conflict /\ r.match.proposed \notin {Absent, survivor}
                   THEN {r.match.proposed} ELSE {}
    IN  Over([a \in learned \cup retired |-> survivor], repointed)

\* Mutant: a merge moves the item that revealed it and no other.
SourcesLeftBehind(r, conflict, survivor, retired) ==
    With(sources, r.item,
         [canonical |-> survivor, generation |-> r.generation,
          reason |-> IF conflict THEN "ambiguous-identity" ELSE r.match.reason])

SourcesAfter(r, conflict, survivor, retired) ==
    With([item \in DOMAIN sources |->
            IF sources[item].canonical \in retired
            THEN [sources[item] EXCEPT !.canonical = survivor] ELSE sources[item]],
         r.item,
         [canonical |-> survivor, generation |-> r.generation,
          reason |-> IF conflict THEN "ambiguous-identity" ELSE r.match.reason])

\* Everything the transaction or the batch writes, from what it read.
Write(r, survivor) ==
    LET conflict == Incompatible(r.match.claims, r.rows)
        retired == Retired(conflict, survivor, r.rows)
        row == Ensured(r, conflict, survivor)
        after == [row EXCEPT !.claims = ClaimsAfter(r, conflict, row, retired),
                             !.state = StateAfter(r, conflict, row)]
    IN  /\ canonicals' = With(Restrict(canonicals, Live \ retired), survivor, after)
        /\ aliases' = AliasesAfter(r, conflict, survivor, retired)
        /\ sources' = SourcesAfter(r, conflict, survivor, retired)

-----------------------------------------------------------------------------
(* Fibers                                                                  *)

NoResolution == [pc |-> "idle"]

ResolverAt(f, pc) == resolver[f].pc = pc

\* Any other resolution under way has now been overtaken by a write.
Overtaken(f, held) ==
    [g \in Resolvers |->
        IF g = f THEN held
        ELSE IF "clean" \in DOMAIN resolver[g] THEN [resolver[g] EXCEPT !.clean = FALSE]
        ELSE resolver[g]]

Holds(f, held) == resolver' = [resolver EXCEPT ![f] = held]

LeaveResolver(f) == Holds(f, NoResolution)

\* A browse or a cover: the item as the upstream describes it, the server as
\* the caller read it, the series as the caller looked it up.
BeginResolution(f) ==
    /\ ResolverAt(f, "idle") /\ begun < MaxResolutions[database][shelf]
    /\ \E item \in shelf, purpose \in {"browse", "cover"} : \E offer \in Offers[item] :
          LET parent == IF item \in DOMAIN SeriesOf /\ offer.inSeries
                        THEN ExistingOf(SeriesOf[item]) ELSE Absent
          IN  /\ purpose = "cover" => ~ParentRequired(item)
              /\ offer.inSeries => parent # Absent
              /\ Holds(f, [pc |-> "prepared", purpose |-> purpose, item |-> item,
                           claims |-> offer.claims, numbers |-> offer.numbers,
                           series |-> parent, generation |-> generation,
                           stamp |-> begun + 1, clean |-> TRUE])
    /\ begun' = begun + 1
    /\ UNCHANGED <<upstreamWorld, generation, tables, given>>

ServerFenceHolds(r) == r.generation = generation

\* IdentityConflict, or any failed statement: nothing is written.
Refuse(f) ==
    /\ LeaveResolver(f)
    /\ UNCHANGED <<upstreamWorld, generation, tables, begun, given>>

\* readResolution: the row, its aliases and the item's row.
Resolution(r, id) ==
    [canonical |-> id, row |-> canonicals'[id], source |-> sources'[r.item],
     aliases |-> {a \in DOMAIN aliases' : aliases'[a] = id}]

\* A cover writes a resolution without quarantine again, the others are done.
Returned(r, resolution) ==
    IF r.purpose = "cover" /\ resolution.source.reason = "none"
    THEN [pc |-> "resolved", item |-> r.item, result |-> resolution] ELSE NoResolution

SqliteResolve(f) ==
    LET r == resolver[f]
        match == Matching(r, ParentOf(r))
        existing == ExistingOf(r.item)
        rows == RowsOf(TypeOf[r.item], {existing, Lookup(match.proposed)}
                                         \cup Matched(TypeOf[r.item], match.claims))
        chosen == Chosen(r.item, match, existing, rows)
        survivor == IF IsLookedUp(match, rows) THEN LookedUp(chosen) ELSE chosen
    IN  /\ database = "sqlite" /\ ResolverAt(f, "prepared") /\ ServerFenceHolds(r)
        /\ Write(Over([match |-> match, existing |-> existing, rows |-> rows], r), survivor)
        /\ resolver' = Overtaken(f, Returned(r, Resolution(r, survivor)))
        /\ given' = given \cup {survivor}
        /\ UNCHANGED <<upstreamWorld, generation, begun>>

SqliteRefuse(f) ==
    /\ database = "sqlite" /\ ResolverAt(f, "prepared") /\ ~ServerFenceHolds(resolver[f])
    /\ Refuse(f)

-----------------------------------------------------------------------------
(* D1: every query is a step of its own                                    *)

D1Step(f, pc) ==
    /\ database = "d1" /\ ResolverAt(f, pc)
    /\ UNCHANGED <<upstreamWorld, generation, tables, begun, given>>

\* The fence, which the batch checks again, and the parent.
D1ReadParent(f) ==
    LET r == resolver[f] IN
    /\ D1Step(f, "prepared") /\ ServerFenceHolds(r)
    /\ Holds(f, Over([match |-> Matching(r, ParentOf(r)), pc |-> "existing"], r))

D1Refuse(f) ==
    /\ database = "d1" /\ ResolverAt(f, "prepared") /\ ~ServerFenceHolds(resolver[f])
    /\ Refuse(f)

D1ReadExisting(f) ==
    LET r == resolver[f] IN
    /\ D1Step(f, "existing")
    /\ Holds(f, Over([existing |-> ExistingOf(r.item), ids |-> {ExistingOf(r.item)},
                      pc |-> "matched"], r))

D1ReadMatched(f) ==
    LET r == resolver[f] IN
    /\ D1Step(f, "matched")
    /\ Holds(f, Over([ids |-> r.ids \cup {Lookup(r.match.proposed)}
                                  \cup Matched(TypeOf[r.item], r.match.claims),
                      pc |-> "rows"], r))

D1ReadRows(f) ==
    LET r == resolver[f] IN
    /\ D1Step(f, "rows")
    /\ Holds(f, Over([rows |-> RowsOf(TypeOf[r.item], r.ids), pc |-> "claims"], r))

\* A row that was retired since has no claims left.
D1ReadClaims(f) ==
    LET r == resolver[f]
        rows == [id \in DOMAIN r.rows |->
                    [r.rows[id] EXCEPT !.claims = IF id \in Live THEN canonicals[id].claims
                                                  ELSE NoClaims]]
    IN  /\ D1Step(f, "claims")
        /\ Holds(f, Over([rows |-> rows,
                          survivor |-> Chosen(r.item, r.match, r.existing, rows),
                          pc |-> IF IsLookedUp(r.match, rows) THEN "target" ELSE "batch"], r))

D1ReadTarget(f) ==
    LET r == resolver[f] IN
    /\ D1Step(f, "target")
    /\ Holds(f, [r EXCEPT !.survivor = LookedUp(r.survivor), !.pc = "batch"])

D1Batch(f) ==
    LET r == resolver[f] IN
    /\ database = "d1" /\ ResolverAt(f, "batch") /\ ServerFenceHolds(r)
    /\ Write(r, r.survivor)
    /\ resolver' = Overtaken(f, [r EXCEPT !.pc = "reread"])
    /\ UNCHANGED <<upstreamWorld, generation, begun, given>>

D1RefuseBatch(f) ==
    /\ database = "d1" /\ ResolverAt(f, "batch") /\ ~ServerFenceHolds(resolver[f])
    /\ Refuse(f)

\* The resolution is read back; a survivor retired since cannot be decoded.
D1Reread(f) ==
    LET r == resolver[f] IN
    /\ database = "d1" /\ ResolverAt(f, "reread")
    /\ UNCHANGED <<upstreamWorld, generation, tables, begun>>
    /\ IF r.survivor \in Live
       THEN /\ Holds(f, Returned(r, Resolution(r, r.survivor)))
            /\ given' = given \cup {r.survivor}
       ELSE /\ LeaveResolver(f)
            /\ UNCHANGED given

-----------------------------------------------------------------------------
(* The second write of a cover, and the server                             *)

\* persistIdentityResult, without a fence: the row is inserted if it is gone.
Persist(f) ==
    LET result == resolver[f].result
        id == result.canonical
        row == IF id \in Live
               THEN [canonicals[id] EXCEPT !.state = result.row.state,
                                           !.claims = Over(result.row.claims, canonicals[id].claims)]
               ELSE result.row
    IN  /\ ResolverAt(f, "resolved")
        /\ result.source.canonical \in Live \cup {id}
        /\ canonicals' = With(canonicals, id, row)
        /\ aliases' = Over([a \in result.aliases |-> id], aliases)
        /\ sources' = With(sources, resolver[f].item, result.source)
        /\ resolver' = Overtaken(f, NoResolution)
        /\ UNCHANGED <<upstreamWorld, generation, begun, given>>

\* D1 read back a row of the item that leads to a canonical retired since.
PersistFails(f) ==
    /\ ResolverAt(f, "resolved")
    /\ resolver[f].result.source.canonical \notin Live \cup {resolver[f].result.canonical}
    /\ Refuse(f)

\* The server is edited: every generation under way is stale.
EditServer ==
    /\ generation < MaxGenerations
    /\ generation' = generation + 1
    /\ UNCHANGED <<upstreamWorld, tables, resolver, begun, given>>

IdentityInit ==
    /\ database \in Databases /\ shelf \in Shelves
    /\ generation = 1
    /\ canonicals = NoClaims /\ aliases = NoClaims /\ sources = NoClaims
    /\ resolver = [f \in Resolvers |-> NoResolution]
    /\ begun = 0
    /\ given = {}

IdentityNext ==
    \/ \E f \in Resolvers :
          \/ BeginResolution(f) \/ SqliteResolve(f) \/ SqliteRefuse(f)
          \/ D1ReadParent(f) \/ D1Refuse(f) \/ D1ReadExisting(f) \/ D1ReadMatched(f)
          \/ D1ReadRows(f) \/ D1ReadClaims(f) \/ D1ReadTarget(f) \/ D1Batch(f)
          \/ D1RefuseBatch(f) \/ D1Reread(f) \/ Persist(f) \/ PersistFails(f)
    \/ EditServer

IdentitySpec == IdentityInit /\ [][IdentityNext]_identityVars

-----------------------------------------------------------------------------
(* Properties                                                              *)

\* Types of the tables, whose references all lead to live canonicals: an
\* item's canonical is live and of its type, an alias leads to a live one.
IdentityTypeOK ==
    /\ \A id \in Live :
          /\ canonicals[id].state \in DOMAIN Rank /\ canonicals[id].created \in 1 .. begun
          /\ \A ns \in DOMAIN canonicals[id].claims : canonicals[id].claims[ns].exact \in BOOLEAN
    /\ \A a \in DOMAIN aliases : aliases[a] \in Live
    /\ \A item \in DOMAIN sources :
          /\ sources[item].canonical \in Live
          /\ canonicals[sources[item].canonical].type = TypeOf[item]
          /\ sources[item].generation \in 1 .. MaxGenerations

\* An id a client was once given leads to a live canonical for ever, whatever
\* was merged, written late or written twice since (lookupCanonicalId).
GivenIdsLead == \A id \in given : Lookup(id) \in Live

\* The step is the write of f's resolution, and no other write came between
\* its first read and it.
Resolves(f) ==
    /\ resolver[f].pc \in {"prepared", "batch"} /\ resolver[f].clean
    /\ resolver'[f] # resolver[f]
    /\ SqliteResolve(f) \/ D1Batch(f)

\* Whoever holds one of the item's claims is the item's canonical, unless the
\* item is ambiguous.
Gathers(f) ==
    LET item == resolver[f].item
        claims == IF HasFallback(resolver[f]) THEN NoClaims ELSE resolver[f].claims
    IN  \/ sources'[item].reason = "ambiguous-identity"
        \/ \A id \in DOMAIN canonicals', ns \in DOMAIN claims :
              /\ canonicals'[id].type = TypeOf[item]
              /\ Says(canonicals'[id], ns, claims[ns])
              => id = sources'[item].canonical

StayTogether ==
    \A one, other \in DOMAIN sources :
        sources[one].canonical = sources[other].canonical
        => sources'[one].canonical = sources'[other].canonical

\* A resolution whose reads no other write overtook gathers its item with all
\* that claims the same (resolveIdentity, resolveIdentityD1).
ResolutionsGather ==
    [][\A f \in Resolvers : Resolves(f) => Gathers(f)]_identityVars

\* Items that share a canonical share it after a resolution that nothing
\* overtook: a late conflict never splits a canonical.
NeverSplit ==
    [][\A f \in Resolvers : Resolves(f) => StayTogether]_identityVars
=============================================================================
