----------------------------- MODULE MCCatalog -----------------------------
(***************************************************************************)
(* Six tasks on one catalog that share neither state nor fibers: items are *)
(* resolved, box sets are read, metadata is refreshed, titles are opened,  *)
(* images and videos are delivered, covers of libraries are made. One      *)
(* behavior performs one of them; the others stay where they begin.        *)
(***************************************************************************)
EXTENDS Identity, Collections, Metadata, Details, Resources, Covers, TLC

CONSTANTS
    f1, f2,                    \* the fibers of every task
    m1, m2, m3, h1, h2, q1, q2,  \* movies, series and their seasons
    b1, u1, u2, n1, n2, t1, t2,  \* a box set, its movies, their libraries
    tmdb, la, lb, lc, k1, k2, g1,  \* provider, languages, credentials, editor
    l1                           \* the place of a title

VARIABLE task

\* Bounds on the edits, refreshes and readings of metadata together, and on
\* the ticks and edits of the server while box sets are read.
MaxTurns == 4
MaxTicks == 3

-----------------------------------------------------------------------------
(* Identity: three films by four offers, two series with a season each     *)

Film(claims) == [claims |-> claims, numbers |-> "missing", inSeries |-> FALSE]
Child(numbers) == [claims |-> <<>>, numbers |-> numbers, inSeries |-> TRUE]

Films == {m1, m2, m3}
Shows == {h1, h2, q1, q2}

MCTypeOf ==
    [i \in Films |-> "Movie"] @@ [i \in {h1, h2} |-> "Series"] @@
    q1 :> "Season" @@ q2 :> "Season"

MCSeriesOf == q1 :> h1 @@ q2 :> h2
MCNumberOf == q1 :> 1 @@ q2 :> 1

MCOffers ==
    m1 :> {Film("imdb:title" :> 1)} @@
    m2 :> {Film("tmdb:movie" :> 1), Film("tmdb:movie" :> 1 @@ "imdb:title" :> 2)} @@
    m3 :> {Film("tmdb:movie" :> 1 @@ "imdb:title" :> 1), Film(<<>>)} @@
    h1 :> {Film("tmdb:tv" :> 1), Film("tmdb:tv" :> 1 @@ "imdb:title" :> 1)} @@
    h2 :> {Film("imdb:title" :> 1)} @@
    q1 :> {Child("known")} @@
    q2 :> {Child("known"), [Child("known") EXCEPT !.inSeries = FALSE]}

OneSeason == {h1, h2, q1}

MCShelves == {Films, Shows, OneSeason}

MCResolutions ==
    "sqlite" :> (Films :> 3 @@ Shows :> 4 @@ OneSeason :> 0) @@
    "d1" :> (Films :> 2 @@ Shows :> 2 @@ OneSeason :> 3)

\* Bound: where D1 has three resolutions, the server is not edited.
ThreeAtOnceUnedited == database = "d1" /\ shelf = OneSeason => generation' = 1

-----------------------------------------------------------------------------
(* Collections: two movies of one box set, one library each, and virtual   *)
(* libraries of both and of one of them                                    *)

MCContents == b1 :> {u1, u2}
MCLibraryOf == u1 :> n1 @@ u2 :> n2
MCScopes == {{n1, n2}, {n1}}

\* With the progress of a scan for the smaller library, nothing ticks or is edited.
NarrowScan == \E key \in DOMAIN scans' : key[3] # {n1, n2}

\* Bound: the server is down only after its last edit and while no box set is scanned, a
\* movie in quarantine only before any tick or edit and without progress for the smaller
\* library.
TroubleAtATime ==
    /\ ~healthy' => /\ serving' = MaxServing
                    /\ \A f \in Visitors : visitor'[f].doing = "scan" => serving' # serving
    /\ quarantined' # {} => serving' + clock' = 2 /\ ~NarrowScan

-----------------------------------------------------------------------------
(* Details: a title of two items in one place; resources by their size,    *)
(* which a minute passes over or an edit of the server, not both           *)

OnePlace == [i \in Copies |-> l1]

Sizes == "small" :> 1 @@ "medium" :> 2 @@ "subtitle" :> 3 @@ "video" :> 3

-----------------------------------------------------------------------------

Resolving ==
    /\ IdentityNext /\ ThreeAtOnceUnedited
    /\ UNCHANGED <<collectionsVars, metadataVars, detailsVars, resourcesVars,
                   coversVars>>
Collecting ==
    /\ CollectionsNext /\ clock' + serving' <= IF NarrowScan THEN 2 ELSE MaxTicks
    /\ TroubleAtATime
    /\ UNCHANGED <<identityVars, metadataVars, detailsVars, resourcesVars,
                   coversVars>>
Enriching ==
    /\ MetadataNext /\ edits' + asked' <= MaxTurns
    /\ UNCHANGED <<identityVars, collectionsVars, detailsVars, resourcesVars,
                   coversVars>>
Opening ==
    /\ DetailsNext
    /\ UNCHANGED <<identityVars, collectionsVars, metadataVars, resourcesVars,
                   coversVars>>
Delivering ==
    /\ ResourcesNext /\ minute' + configured' <= MaxMinute + 1
    /\ UNCHANGED <<identityVars, collectionsVars, metadataVars, detailsVars,
                   coversVars>>

Painting ==
    /\ CoversNext
    /\ UNCHANGED <<identityVars, collectionsVars, metadataVars, detailsVars, resourcesVars>>

catalogVars ==
    <<task, identityVars, collectionsVars, metadataVars, detailsVars, resourcesVars,
      coversVars>>

CatalogInit ==
    /\ task \in {"identity", "collections", "metadata", "details", "resources", "covers"}
    /\ IdentityInit /\ (task # "identity" => database = "sqlite" /\ shelf = Films)
    /\ CollectionsInit /\ MetadataInit /\ DetailsInit /\ ResourcesInit
    /\ CoversInit /\ (task # "covers" => library.layout = 1)

CatalogNext ==
    /\ UNCHANGED task
    /\ \/ task = "identity" /\ Resolving
       \/ task = "collections" /\ Collecting
       \/ task = "metadata" /\ Enriching
       \/ task = "details" /\ Opening
       \/ task = "resources" /\ Delivering
       \/ task = "covers" /\ Painting

CatalogSpec == CatalogInit /\ [][CatalogNext]_catalogVars

CatalogSymmetry == Permutations({f1, f2}) \cup Permutations({t1, t2})
=============================================================================
