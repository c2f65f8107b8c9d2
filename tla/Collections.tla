------------------------------ MODULE Collections ------------------------------
(***************************************************************************)
(* Movie collections: box sets found upstream and sets known to TMDB, with *)
(* the evidence that a movie belongs to one.  A visit registers a box set, *)
(* scans its movies and replaces its snapshot when the scan was complete;  *)
(* what TMDB says of a movie replaces the movie's other evidence.  Scans   *)
(* of one box set overlap, are abandoned and go on later.                  *)
(*                                                                         *)
(* One server. Its generation stands for the namespace that goes with it,  *)
(* and for its deletion, which counts it up. Every row of an item has a    *)
(* canonical (resolveIdentity), what may change is its quarantine.         *)
(* Reads and the batch that repeats their conditions are one step.         *)
(***************************************************************************)
EXTENDS Naturals, Sequences, FiniteSets, Functions, Tables

CONSTANTS
    Visitors,       \* fibers that visit box sets or refresh movies
    BoxSets,        \* box sets of the upstream
    Contents,       \* box set -> its movies
    LibraryOf,      \* movie -> its source library
    Ambiguous,      \* movies whose claims may contradict those of another item
    Scopes,         \* sets of source libraries, one for each virtual library
    TmdbIds,        \* collections of TMDB
    NoTmdb,         \* no TMDB identity
    MaxClock,       \* bound on the clock
    MaxServing,     \* bound on the server's generation
    MaxVisits       \* bound on visits and refreshes begun

Movies == DOMAIN LibraryOf

ASSUME ContentsAssumption == Contents \in [BoxSets -> SUBSET Movies]
ASSUME AmbiguousAssumption == Ambiguous \subseteq Movies
ASSUME NoTmdbAssumption == NoTmdb \notin TmdbIds
ASSUME VisitsAssumption == MaxClock \in Nat /\ MaxServing \in Nat /\ MaxVisits \in Nat

VARIABLES
    clock,       \* Date.now()
    serving,     \* upstream_servers.generation
    healthy,     \* whether the server is enabled and its health 'healthy'
    provider,    \* box set -> the TMDB id the upstream gives it
    observed,    \* movie -> generation its source_items row was written at
    quarantined, \* movies whose source_items row has a quarantine_reason
    collections, \* movie_collections: id -> tmdb_collection_id
    boxes,       \* collection_sources: box set and generation -> row
    renamed,     \* collection_aliases
    evidence,    \* collection_members: evidence key and movie -> row
    updates,     \* collection_membership_updates: movie -> row
    scans,       \* boxScans: collection, box set and scope -> progress
    visitor,     \* fiber -> what it is doing
    visits,      \* visits and refreshes begun
    verdict      \* history: movie -> the latest that TMDB said of it

collectionsVars == <<clock, serving, healthy, provider, observed, quarantined, collections,
                     boxes, renamed, evidence, updates, scans, visitor, visits, verdict>>

upstreamSide == <<clock, serving, healthy, provider>>
itemRows == <<observed, quarantined>>
registry == <<collections, boxes, renamed>>

-----------------------------------------------------------------------------
(* Identities                                                              *)

TmdbCollection(t) == <<"tmdb", t>>
SourceCollection(key) == <<"source", key>>

\* The source key of a box set carries the generation it was found at.
AtServing(key) == key[2] = serving

Fenced(key) == AtServing(key) /\ healthy

\* Where the aliases of an id lead, at most as far as there are aliases.
Resolve(id) ==
    LET most == Cardinality(DOMAIN renamed)
        after[n \in 0 .. most] ==
            IF n = 0 THEN id
            ELSE IF after[n - 1] \in DOMAIN renamed THEN renamed[after[n - 1]] ELSE after[n - 1]
    IN  after[most]

BoxEvidence(key, m) == <<"boxset", key, m>>
TmdbEvidence(m) == <<"tmdb", m>>
OfBox(e, key) == e[1] = "boxset" /\ e[2] = key
MovieOf(e) == e[Len(e)]

\* The evidence a read of one virtual library, or of all, accepts.
Eligible(e, scope) ==
    LET m == MovieOf(e) IN
    /\ LibraryOf[m] \in scope
    /\ healthy /\ m \notin quarantined
    /\ observed[m] = serving /\ evidence[e].generation = serving
    /\ e[1] = "boxset" => AtServing(e[2]) /\ e[2] \in DOMAIN boxes

VisibleCollections(scope) ==
    {evidence[e].collection : e \in {x \in DOMAIN evidence : Eligible(x, scope)}}

-----------------------------------------------------------------------------
(* Fibers                                                                  *)

Free == [doing |-> "nothing"]

Doing(f, what) == visitor[f].doing = what

Takes(f, what) == visitor' = [visitor EXCEPT ![f] = what]

\* ingest writes the row of an item again, and finds its claims contradicted or not.
Ingest(m) ==
    /\ observed' = [observed EXCEPT ![m] = serving]
    /\ quarantined' \in {quarantined \ {m}, quarantined \cup ({m} \cap Ambiguous)}

Starts(f) == Doing(f, "nothing") /\ visits < MaxVisits /\ visits' = visits + 1

-----------------------------------------------------------------------------
(* Box sets                                                                *)

\* discover: a page lists the box set, and upsertCollection reads the row
\* its source has so far.
BeginVisit(f) ==
    /\ Starts(f) /\ healthy
    /\ \E box \in BoxSets, scope \in Scopes :
          LET key == <<box, serving>>
              old == IF key \in DOMAIN boxes THEN {boxes[key].collection} ELSE {}
          IN  Takes(f, [doing |-> "upsert", key |-> key, scope |-> scope,
                        tmdb |-> provider[box], at |-> clock, old |-> old])
    /\ UNCHANGED <<upstreamSide, itemRows, registry, evidence, updates, scans, verdict>>

\* A source proven to be one TMDB set is not given to another.
InConflict(v) ==
    \E id \in v.old : collections[id] # NoTmdb /\ v.tmdb # NoTmdb /\ collections[id] # v.tmdb

TargetOf(v) ==
    CASE v.tmdb # NoTmdb /\ ~InConflict(v) -> TmdbCollection(v.tmdb)
      [] v.old # {} /\ (v.tmdb = NoTmdb \/ InConflict(v)) -> CHOOSE id \in v.old : TRUE
      [] OTHER -> SourceCollection(v.key)

Accepted(v) == IF InConflict(v) THEN collections[CHOOSE id \in v.old : TRUE] ELSE v.tmdb

\* Mutant: the batch relies on the row that was read.
MayRegisterUnread(v) == Fenced(v.key)

\* What every statement of the batch repeats: the server, and that the row
\* has not become newer or been given another identity.
MayRegister(v) ==
    /\ Fenced(v.key)
    /\ v.key \in DOMAIN boxes =>
          LET known == collections[boxes[v.key].collection]
          IN  /\ boxes[v.key].updated <= v.at
              /\ known = NoTmdb \/ Accepted(v) = NoTmdb \/ known = Accepted(v)

\* Mutant: the members stay with the old collection.
MovedOnly(v, id) ==
    LET moved == v.old \ {id}
        To(c) == IF c \in moved THEN id ELSE c
    IN  /\ collections' = Over(collections, With(<<>>, id, Accepted(v)))
        /\ boxes' = With([k \in DOMAIN boxes |-> [boxes[k] EXCEPT !.collection = To(@)]],
                         v.key, [collection |-> id, updated |-> v.at])
        /\ evidence' = evidence
        /\ renamed' = Over([a \in moved |-> id], [a \in DOMAIN renamed |-> To(renamed[a])])

\* The batch: what belonged to the old collection moves to the new one, whose
\* alias the old id becomes.
Moved(v, id) ==
    LET moved == v.old \ {id}
        To(c) == IF c \in moved THEN id ELSE c
    IN  /\ collections' = Over(collections, With(<<>>, id, Accepted(v)))
        /\ boxes' = With([k \in DOMAIN boxes |-> [boxes[k] EXCEPT !.collection = To(@)]],
                         v.key, [collection |-> id, updated |-> v.at])
        /\ evidence' = [e \in DOMAIN evidence |-> [evidence[e] EXCEPT !.collection = To(@)]]
        /\ renamed' = Over([a \in moved |-> id], [a \in DOMAIN renamed |-> To(renamed[a])])

\* The record goes on to its scan, unless there is none.
UpsertCollection(f) ==
    LET v == visitor[f] IN
    /\ Doing(f, "upsert")
    /\ \/ /\ MayRegister(v)
          /\ Moved(v, TargetOf(v))
       \/ /\ ~MayRegister(v)
          /\ UNCHANGED <<registry, evidence>>
    /\ Takes(f, IF v.key \in DOMAIN boxes'
                THEN [doing |-> "wait", scan |-> <<boxes'[v.key].collection, v.key, v.scope>>]
                ELSE Free)
    /\ UNCHANGED <<upstreamSide, itemRows, updates, scans, visits, verdict>>

NewScan == [listed |-> FALSE, left |-> {}, members |-> {}, failed |-> FALSE,
            complete |-> FALSE, held |-> FALSE]

\* The progress of the scan is shared and taken one fiber at a time.
EnterScan(f) ==
    LET key == visitor[f].scan
        scan == IF key \in DOMAIN scans THEN scans[key] ELSE NewScan
    IN  /\ Doing(f, "wait") /\ ~scan.held
        /\ scans' = With(scans, key, [scan EXCEPT !.held = ~scan.complete])
        /\ Takes(f, IF scan.complete THEN Free ELSE [doing |-> "scan", scan |-> key])
        /\ UNCHANGED <<upstreamSide, itemRows, registry, evidence, updates, visits, verdict>>

Scanning(f) == scans[visitor[f].scan]

Progress(f, scan) == scans' = [scans EXCEPT ![visitor[f].scan] = scan]

\* The movies of the box set, of which none has been placed yet.
ListMovies(f) ==
    /\ Doing(f, "scan") /\ ~Scanning(f).listed
    /\ Progress(f, [Scanning(f) EXCEPT !.listed = TRUE,
                                       !.left = Contents[visitor[f].scan[2][1]]])
    /\ UNCHANGED <<upstreamSide, itemRows, registry, evidence, updates, visitor, visits, verdict>>

\* writeCollectionSnapshot, refused when the source has left the collection.
MayWrite(scan) ==
    /\ Fenced(scan[2]) /\ scan[2] \in DOMAIN boxes
    /\ boxes[scan[2]].collection = Resolve(scan[1])
    /\ boxes[scan[2]].updated <= clock

Snapshot(scan, members, complete) ==
    LET key == scan[2]
        kept == {e \in DOMAIN evidence : ~(complete /\ OfBox(e, key))}
        proven == {BoxEvidence(key, m) :
                      m \in {x \in members : observed'[x] = key[2] /\ x \notin quarantined'}}
        row == [collection |-> Resolve(scan[1]), generation |-> key[2]]
    IN  IF MayWrite(scan)
        THEN /\ evidence' = Over([e \in proven |-> row], Restrict(evidence, kept))
             /\ boxes' = [boxes EXCEPT ![key].updated = clock]
        ELSE UNCHANGED <<evidence, boxes>>

\* The movie is asked for in each source library of the scope, and found.
ProveMovie(f) ==
    LET scan == Scanning(f) IN
    /\ Doing(f, "scan") /\ scan.listed
    /\ \E m \in scan.left :
          /\ LibraryOf[m] \in visitor[f].scan[3]
          /\ AtServing(visitor[f].scan[2])
          /\ Ingest(m)
          /\ Snapshot(visitor[f].scan, {m}, FALSE)
          /\ Progress(f, [scan EXCEPT !.left = @ \ {m}, !.members = @ \cup {m}])
    /\ UNCHANGED <<upstreamSide, collections, renamed, updates, visitor, visits, verdict>>

\* The movie is in none of them, or a request failed.
PassMovie(f) ==
    LET scan == Scanning(f) IN
    /\ Doing(f, "scan") /\ scan.listed
    /\ \E m \in scan.left, failed \in BOOLEAN :
          /\ failed \/ LibraryOf[m] \notin visitor[f].scan[3]
          /\ Progress(f, [scan EXCEPT !.left = @ \ {m}, !.failed = @ \/ failed])
    /\ UNCHANGED <<upstreamSide, itemRows, registry, evidence, updates, visitor, visits, verdict>>

\* Mutant: a scan with failed requests counts as complete.
WholeWhatever(scan) == TRUE

Whole(scan) == ~scan.failed

\* The last page: only a scan without a failure replaces the snapshot, the
\* other one starts again.
FinishScan(f) ==
    LET scan == Scanning(f) IN
    /\ Doing(f, "scan") /\ scan.listed /\ scan.left = {}
    /\ UNCHANGED itemRows
    /\ Snapshot(visitor[f].scan, scan.members, Whole(scan))
    /\ Progress(f, IF scan.failed THEN NewScan ELSE [scan EXCEPT !.complete = TRUE, !.held = FALSE])
    /\ Takes(f, Free)
    /\ UNCHANGED <<upstreamSide, collections, renamed, updates, visits, verdict>>

\* A deadline, or a failure that is passed on: the progress stays.
AbandonScan(f) ==
    /\ Doing(f, "scan")
    /\ Progress(f, [Scanning(f) EXCEPT !.held = FALSE])
    /\ Takes(f, Free)
    /\ UNCHANGED <<upstreamSide, itemRows, registry, evidence, updates, visits, verdict>>

\* The progress expires, or the process starts again.
ForgetScan(key) ==
    /\ ~scans[key].held
    /\ scans' = Restrict(scans, DOMAIN scans \ {key})
    /\ UNCHANGED <<upstreamSide, itemRows, registry, evidence, updates, visitor, visits, verdict>>

-----------------------------------------------------------------------------
(* What TMDB says of a movie                                               *)

\* associate, or a search for the members of a set: the details are new or
\* were cached a while ago.
BeginAssociate(f) ==
    /\ Starts(f)
    /\ \E m \in Movies, t \in TmdbIds \cup {NoTmdb}, at \in 1 .. clock :
          /\ observed[m] > 0
          /\ Takes(f, [doing |-> "associate", movie |-> m, tmdb |-> t, at |-> at,
                       generation |-> observed[m]])
    /\ UNCHANGED <<upstreamSide, itemRows, registry, evidence, updates, scans, verdict>>

EnsureCollection(f) ==
    LET t == visitor[f].tmdb IN
    /\ Doing(f, "associate")
    /\ collections' = IF t = NoTmdb THEN collections
                      ELSE Over(collections, With(<<>>, TmdbCollection(t), t))
    /\ Takes(f, [visitor[f] EXCEPT !.doing = "replace"])
    /\ UNCHANGED <<upstreamSide, itemRows, boxes, renamed, evidence, updates, scans, visits, verdict>>

\* The row is still the one that was read, is not in quarantine, and its server stands.
MayTake(r) ==
    /\ observed[r.movie] = r.generation /\ r.generation = serving
    /\ healthy /\ r.movie \notin quarantined

\* Mutant: details that were cached earlier replace newer ones.
MayReplaceOlder(r) == MayTake(r)

MayReplace(r) ==
    /\ MayTake(r)
    /\ ~(/\ r.movie \in DOMAIN updates
         /\ updates[r.movie].generation = r.generation /\ updates[r.movie].updated > r.at)

\* The later of two that say something of the movie at one generation.
Heard(r) ==
    IF /\ r.movie \in DOMAIN verdict /\ verdict[r.movie].generation = r.generation
       /\ verdict[r.movie].at > r.at
    THEN verdict
    ELSE With(verdict, r.movie, [generation |-> r.generation, at |-> r.at, tmdb |-> r.tmdb])

\* replaceTmdbCollectionMembership
ReplaceMembership(f) ==
    LET r == visitor[f]
        row == [collection |-> TmdbCollection(r.tmdb), generation |-> r.generation]
    IN  /\ Doing(f, "replace")
        /\ \/ /\ MayReplace(r)
              /\ evidence' = IF r.tmdb = NoTmdb
                             THEN Restrict(evidence, DOMAIN evidence \ {TmdbEvidence(r.movie)})
                             ELSE With(evidence, TmdbEvidence(r.movie), row)
              /\ updates' = With(updates, r.movie, [generation |-> r.generation, updated |-> r.at])
           \/ /\ ~MayReplace(r)
              /\ UNCHANGED <<evidence, updates>>
        /\ verdict' = IF MayTake(r) THEN Heard(r) ELSE verdict
        /\ Takes(f, Free)
        /\ UNCHANGED <<upstreamSide, itemRows, registry, scans, visits>>

-----------------------------------------------------------------------------
(* The world                                                               *)

others == <<itemRows, registry, evidence, updates, scans, visitor, visits, verdict>>

ClockAdvances == clock < MaxClock /\ clock' = clock + 1 /\ UNCHANGED <<serving, healthy, provider, others>>

\* The server is edited, and has to prove itself again.
NextGeneration ==
    /\ serving < MaxServing
    /\ serving' = serving + 1 /\ healthy' = FALSE
    /\ UNCHANGED <<clock, provider, others>>

\* A test or a request finds the server well or not, or it is switched on or off.
HealthChanges ==
    /\ healthy' = ~healthy
    /\ UNCHANGED <<clock, serving, provider, others>>

\* The upstream gives the box set another TMDB id, or takes it away.
Retag(box) ==
    /\ \E t \in (TmdbIds \cup {NoTmdb}) \ {provider[box]} :
          provider' = [provider EXCEPT ![box] = t]
    /\ UNCHANGED <<clock, serving, healthy, others>>

\* Any other reading of the catalog writes the movie's row.
Browse(m) ==
    /\ Ingest(m)
    /\ UNCHANGED <<upstreamSide, registry, evidence, updates, scans, visitor, visits, verdict>>

CollectionsInit ==
    /\ clock = 1 /\ serving = 1 /\ healthy = TRUE
    /\ provider = [box \in BoxSets |-> NoTmdb]
    /\ observed = [m \in Movies |-> 0] /\ quarantined = {}
    /\ collections = <<>> /\ boxes = <<>> /\ renamed = <<>>
    /\ evidence = <<>> /\ updates = <<>> /\ scans = <<>>
    /\ visitor = [f \in Visitors |-> Free]
    /\ visits = 0
    /\ verdict = <<>>

CollectionsNext ==
    \/ \E f \in Visitors :
          \/ BeginVisit(f) \/ UpsertCollection(f) \/ EnterScan(f) \/ ListMovies(f)
          \/ ProveMovie(f) \/ PassMovie(f) \/ FinishScan(f) \/ AbandonScan(f)
          \/ BeginAssociate(f) \/ EnsureCollection(f) \/ ReplaceMembership(f)
    \/ \E key \in DOMAIN scans : ForgetScan(key)
    \/ ClockAdvances \/ NextGeneration \/ HealthChanges
    \/ \E box \in BoxSets : Retag(box)
    \/ \E m \in Movies : Browse(m)

CollectionsSpec == CollectionsInit /\ [][CollectionsNext]_collectionsVars

-----------------------------------------------------------------------------
(* Properties                                                              *)

\* A box set's movie that was proven to belong to it stays in its snapshot
\* while the upstream keeps it there and the server is not edited, whichever
\* scans of the box set finish, fail or go on later. The exception is what the
\* code does: a scan for a virtual library without the movie's source library
\* finds it nowhere, or the movie's row is in quarantine when a scan ends, and
\* the snapshot is replaced without it (writeCollectionSnapshot).
ProvenMembersStay ==
    [][\A e \in DOMAIN evidence \ DOMAIN evidence' :
          e[1] = "boxset" /\ serving' = serving /\ AtServing(e[2]) =>
             \E f \in Visitors :
                /\ Doing(f, "scan") /\ visitor[f].scan[2] = e[2]
                /\ \/ LibraryOf[MovieOf(e)] \notin visitor[f].scan[3]
                   \/ MovieOf(e) \in quarantined]_collectionsVars

\* A movie belongs to the TMDB set its latest details name, and to none when
\* they name none, however late older details arrive. Details that arrive while
\* the movie's row is in quarantine or its server is not healthy are refused
\* and count for nothing (replaceTmdbCollectionMembership).
TmdbEvidenceIsLatest ==
    \A m \in DOMAIN verdict :
        verdict[m].generation = serving =>
            LET e == TmdbEvidence(m)
            IN  IF verdict[m].tmdb = NoTmdb THEN e \notin DOMAIN evidence
                ELSE e \in DOMAIN evidence /\ evidence[e].collection = TmdbCollection(verdict[m].tmdb)

\* A collection that is listed is opened under the id it is listed by: no
\* evidence stays with an id that leads elsewhere, whichever registrations
\* moved the collection while scans of it went on.
ListedCollectionsOpen ==
    \A id \in VisibleCollections(UNION Scopes) : id \in DOMAIN collections /\ Resolve(id) = id

\* A source known as one TMDB set does not turn into another at one step. The
\* exception is what the code does: a registration that names no set, and read
\* its row before the source was known as the set it is now, puts it back into
\* the set of before (upsertCollection).
IdentitiesDoNotTurn ==
    [][\A key \in DOMAIN boxes :
          LET known == collections[boxes[key].collection]
              then == collections'[boxes'[key].collection]
          IN  known # NoTmdb /\ then # NoTmdb /\ known # then =>
                 \E f \in Visitors :
                    /\ Doing(f, "upsert") /\ visitor[f].key = key
                    /\ visitor[f].tmdb = NoTmdb]_collectionsVars
=============================================================================
