---------------------------- MODULE Configuration ----------------------------
(***************************************************************************)
(* Upstream servers as the owner configures them: their endpoints, the     *)
(* catalog these were verified to serve, the token a login obtained, and   *)
(* the generation that numbers configurations.  Edits, connection tests,   *)
(* deletions, authenticated requests with their failover and library edits *)
(* are handled by fibers that call the upstream between a read of a server *)
(* and a write of it.  Every write of a server is one transaction on       *)
(* SQLite and one batch on D1, which reads what it saved in a statement of *)
(* its own.                                                                *)
(*                                                                         *)
(* An endpoint is known by its URL.  What a URL serves is fixed: a catalog *)
(* it identifies itself with, or Anonymous; whether it answers is not.     *)
(***************************************************************************)
EXTENDS Integers, Sequences, FiniteSets, Functions

CONSTANTS
    Handlers,         \* requests handled at any time
    Servers,        \* ids of server rows
    Urls,
    Catalogs,
    Anonymous,      \* what a URL serves that reports no identity
    None,
    UpstreamPasswords,
    Edits,          \* what the owner may save: endpoints, password, enabled
    Worlds,         \* what the URLs may serve
    Platforms,         \* the stores to explore, of {"sqlite", "d1"}
    Workloads,       \* the sets of kinds of requests to explore
    MaxServers,     \* MAX_CONFIGURED_UPSTREAMS
    MaxServerGeneration,  \* bound on edits
    MaxStarts       \* traffic -> bound on the requests handled with it

RequestKinds == {"create", "edit", "remove", "test", "get", "post", "library",
          "unlist"}

HandlerSteps == {"idle", "probe", "verify", "latest", "save", "read", "send",
          "login", "reread", "replay", "check", "servers", "discover",
          "bind"}

ASSUME NoneAssumption ==
    /\ Anonymous \notin Catalogs
    /\ None \notin Catalogs \cup {Anonymous} \cup Urls \cup UpstreamPasswords
ASSUME EditsAssumption ==
    \A edit \in Edits : /\ edit.urls # <<>> /\ edit.urls \in Seq(Urls)
                        /\ IsInjective(edit.urls)
                        /\ edit.password \in UpstreamPasswords /\ edit.enabled \in BOOLEAN
ASSUME WorldsAssumption == Worlds \subseteq [Urls -> Catalogs \cup {Anonymous}]
ASSUME PlatformsAssumption == Platforms \subseteq {"sqlite", "d1"}
ASSUME WorkloadsAssumption == \A kinds \in Workloads : kinds \subseteq RequestKinds
ASSUME ServerBoundsAssumption == MaxServers \in Nat /\ MaxServerGeneration \in Nat \ {0}
                           /\ MaxStarts \in [Workloads -> Nat]

VARIABLES
    platform,     \* the store of this deployment
    workload,   \* the kinds of requests under way
    serves,    \* url -> its catalog, or Anonymous
    server,    \* id -> its row and endpoints, or NoServer
    library,   \* the library: its bindings, or none
    handler,     \* fiber -> what its handler holds
    started    \* the requests handled so far

configurationVars == <<platform, workload, serves, server, library, handler, started>>

surroundings == <<platform, workload, serves>>

-----------------------------------------------------------------------------
(* Types                                                                   *)

Healths == {"unknown", "healthy", "degraded"}
Identities == Catalogs \cup {Anonymous}

Endpoint == [url: Urls, catalog: Catalogs \cup {None}, health: Healths]

\* history: the password and the generation a token was obtained with
UpstreamToken == [password: UpstreamPasswords, url: Urls, generation: 1 .. MaxServerGeneration]
NoToken == [password |-> None, url |-> None, generation |-> 0]

\* base: verifiedBaseUrl, the endpoint that was verified first
Part == [generation: 0 .. MaxServerGeneration, endpoints: Seq(Endpoint),
         password: UpstreamPasswords \cup {None}, enabled: BOOLEAN, deleted: BOOLEAN,
         catalog: Catalogs \cup {None}, base: Urls \cup {None},
         token: UpstreamToken \cup {NoToken}, health: Healths]
Server == {row \in Part : row.generation # 0 /\ row.password # None /\ row.endpoints # <<>>}
NoServer == [generation |-> 0, endpoints |-> <<>>, password |-> None,
             enabled |-> FALSE, deleted |-> FALSE, catalog |-> None,
             base |-> None, token |-> NoToken, health |-> "unknown"]

\* source: the catalog the source library was found in; at: history, the
\* server's generation when it was.
Binding == [server: Servers, source: Identities, enabled: BOOLEAN,
            at: 1 .. MaxServerGeneration]
NoLibrary == {}

\* row: the server as read; next: the row to save; rest: what is left to
\* probe or to try; seen: the endpoints probed; rejected: a test found a
\* failure of the server, not of its network; from: the URL that answered;
\* fence, preserve, current, bindings: the server's generation, whether it
\* is disabled, the library as read and as it shall be.
Handling == [pc: HandlerSteps, kind: RequestKinds \cup {"none"}, server: Servers \cup {None},
          row: Part, next: Part,
          generation: 0 .. MaxServerGeneration, rest: Seq(Urls), seen: Seq(Endpoint),
          rejected: BOOLEAN, named: BOOLEAN, from: Urls \cup {None},
          fence: 0 .. MaxServerGeneration, preserve: BOOLEAN,
          current: SUBSET Binding, bindings: SUBSET Binding]

ConfigurationTypeOK ==
    /\ platform \in Platforms /\ workload \in Workloads
    /\ serves \in Worlds
    /\ \A s \in Servers : server[s] \in Server \cup {NoServer}
    /\ library \subseteq Binding
    /\ \A f \in Handlers : handler[f] \in Handling
    /\ started \in 0 .. MaxStarts[workload]

-----------------------------------------------------------------------------
(* Helpers                                                                 *)

Unoccupied == [pc |-> "idle", kind |-> "none", server |-> None, row |-> NoServer,
         next |-> NoServer, generation |-> 0, rest |-> <<>>, seen |-> <<>>,
         rejected |-> FALSE, named |-> FALSE, from |-> None, fence |-> 0,
         preserve |-> FALSE, current |-> {}, bindings |-> {}]

Stands(f, pc) == handler[f].pc = pc

\* A request arrives, and a fiber begins to handle it.
StartHandling(f, kinds) ==
    /\ Stands(f, "idle") /\ kinds \cap workload # {}
    /\ started < MaxStarts[workload]
    /\ started' = started + 1

Respond(f) == handler' = [handler EXCEPT ![f] = Unoccupied]

\* getServer and listServers see no deleted row, readServer does.
Found(s) == server[s] # NoServer /\ ~server[s].deleted
Row(f) == server[handler[f].server]

Fresh(url) == [url |-> url, catalog |-> None, health |-> "unknown"]

NewServer(edit) ==
    [NoServer EXCEPT !.generation = 1, !.password = edit.password,
                     !.enabled = edit.enabled,
                     !.endpoints = [i \in DOMAIN edit.urls |-> Fresh(edit.urls[i])]]

UrlsOf(endpoints) == [i \in DOMAIN endpoints |-> endpoints[i].url]

EndpointAt(row, url) ==
    CHOOSE endpoint \in Range(row.endpoints) : endpoint.url = url

\* The URLs of some endpoints, in their order.
UrlsAt(endpoints, positions) ==
    LET upTo[n \in 0 .. Len(endpoints)] ==
            IF n = 0 THEN <<>>
            ELSE IF n \in positions THEN Append(upTo[n - 1], endpoints[n].url) ELSE upTo[n - 1]
    IN  upTo[Len(endpoints)]

Healthy(row) == {n \in DOMAIN row.endpoints : row.endpoints[n].health = "healthy"}

\* Mutant: a healthy endpoint is used whatever catalog it was found to serve.
HealthyEndpoints(row) == UrlsAt(row.endpoints, Healthy(row))

\* A healthy endpoint of the server's catalog; without one, of none.
EligibleEndpoints(row) ==
    UrlsAt(row.endpoints, {n \in Healthy(row) : row.endpoints[n].catalog = row.catalog})

\* Mutant: a server is healthy while one of its endpoints is verified.
HealthOfVerified(endpoints) ==
    IF \E e \in Range(endpoints) : e.catalog # None THEN "healthy" ELSE "unknown"

AggregateHealth(endpoints) ==
    LET all == Range(endpoints) IN
    CASE \E e \in all : e.health = "healthy" -> "healthy"
      [] /\ \A e \in all : e.health # "healthy"
         /\ \E e \in all : e.health = "degraded" \/ e.catalog # None -> "degraded"
      [] OTHER -> "unknown"

\* verified_catalog_id is UNIQUE, and a deleted server keeps its own.
CatalogIsTaken(s, catalog) ==
    catalog # None /\ \E t \in Servers \ {s} : server[t].catalog = catalog

\* saveServerConfiguration replaces row and endpoints of the expected
\* generation, and leaves alone whether the server is deleted: ...
SqliteSaveServerConfiguration(s, generation, row) ==
    IF server[s].generation = generation /\ ~CatalogIsTaken(s, row.catalog)
    THEN [row EXCEPT !.deleted = server[s].deleted]
    ELSE server[s]

\* ... on D1 the endpoints first, while the row is of that generation.
D1SaveServerConfiguration(s, generation, row) ==
    LET replaced == IF server[s].generation = generation
                    THEN [server[s] EXCEPT !.endpoints = row.endpoints] ELSE server[s]
    IN IF replaced.generation # generation THEN replaced
       ELSE IF CatalogIsTaken(s, row.catalog) THEN server[s]      \* the batch fails
       ELSE [row EXCEPT !.deleted = replaced.deleted, !.endpoints = replaced.endpoints]

SaveServerConfiguration(s, generation, row) ==
    server' = [server EXCEPT ![s] =
        IF platform = "sqlite" THEN SqliteSaveServerConfiguration(s, generation, row)
        ELSE D1SaveServerConfiguration(s, generation, row)]

TokenOf(row, url) ==
    [password |-> row.password, url |-> url, generation |-> row.generation]

\* Mutant: the token is saved whatever has become of the configuration.
SqliteSaveTokenAlways(s, row, url) ==
    [server[s] EXCEPT !.token = TokenOf(row, url)]

\* saveServerResult of a login at url with the configuration in row.  The
\* generation is compared with the row's, be that deleted: on SQLite the row
\* is read and written, on D1 it is one conditional UPDATE.
SqliteSaveServerResult(s, row, url) ==
    IF server[s].generation # row.generation THEN server[s]
    ELSE [server[s] EXCEPT !.token = TokenOf(row, url)]

D1SaveServerResult(s, row, url) ==
    [server[s] EXCEPT !.token = IF server[s].generation = row.generation
                                THEN TokenOf(row, url) ELSE @]

SaveServerResult(s, row, url) ==
    server' = [server EXCEPT ![s] = IF platform = "sqlite" THEN SqliteSaveServerResult(s, row, url)
                                    ELSE D1SaveServerResult(s, row, url)]

-----------------------------------------------------------------------------
(* Creating, editing, deleting                                             *)

BelowLimit == Cardinality({s \in Servers : Found(s)}) < MaxServers

\* One statement counts and inserts, under a semaphore on SQLite.
SqliteCreateServer(f) ==
    /\ platform = "sqlite"
    /\ StartHandling(f, {"create"})
    /\ \E s \in Servers, edit \in Edits :
           /\ server[s] = NoServer
           /\ server' = IF BelowLimit THEN [server EXCEPT ![s] = NewServer(edit)] ELSE server
    /\ UNCHANGED <<surroundings, library, handler>>

\* The endpoints follow in the batch, if the row is there.
D1CreateServer(f) ==
    /\ platform = "d1"
    /\ StartHandling(f, {"create"})
    /\ \E s \in Servers, edit \in Edits :
           LET new      == NewServer(edit)
               inserted == IF BelowLimit THEN [new EXCEPT !.endpoints = <<>>] ELSE server[s]
           IN /\ server[s] = NoServer
              /\ server' = [server EXCEPT ![s] =
                     IF inserted = NoServer THEN NoServer
                     ELSE [inserted EXCEPT !.endpoints = new.endpoints]]
    /\ UNCHANGED <<surroundings, library, handler>>

GenerationOf(row, edit) ==
    IF edit.urls # UrlsOf(row.endpoints) \/ edit.password # row.password
       \/ edit.enabled # row.enabled
    THEN row.generation + 1 ELSE row.generation

\* Endpoints whose URL stays keep what is known of them.
Kept(row, list) ==
    [i \in DOMAIN list |-> IF list[i] \in Range(UrlsOf(row.endpoints))
                           THEN EndpointAt(row, list[i]) ELSE Fresh(list[i])]

\* The row an edit shall save, before its new endpoints are probed.  An edit
\* of the name only writes back the token, the health and the endpoints it
\* has read.
Candidate(row, edit) ==
    LET generation == GenerationOf(row, edit)
        edited     == [row EXCEPT !.endpoints = Kept(row, edit.urls),
                                  !.password = edit.password, !.enabled = edit.enabled,
                                  !.generation = generation]
    IN IF generation = row.generation THEN edited
       ELSE [edited EXCEPT !.token = NoToken, !.health = "unknown"]

BeginServerEdit(f) ==
    /\ StartHandling(f, {"edit"})
    /\ \E s \in Servers, edit \in Edits :
           /\ Found(s)
           /\ GenerationOf(server[s], edit) <= MaxServerGeneration
           /\ handler' = [handler EXCEPT ![f] = [Unoccupied EXCEPT
                  !.pc = "save", !.kind = "edit", !.server = s, !.row = server[s],
                  !.next = Candidate(server[s], edit)]]
    /\ UNCHANGED <<surroundings, server, library>>

\* The endpoints that were probed and found to serve the server's catalog.
Verified(row, endpoints, answering) ==
    [i \in DOMAIN endpoints |->
        IF endpoints[i].url \in answering
        THEN [endpoints[i] EXCEPT !.catalog = row.catalog, !.health = "healthy"]
        ELSE endpoints[i]]

\* New endpoints of a verified server are probed: one that is out of reach
\* stays unknown, one that answers must serve the server's catalog.
SaveEdit(f) ==
    LET row    == handler[f].row
        next   == handler[f].next
        added  == Range(UrlsOf(next.endpoints)) \ Range(UrlsOf(row.endpoints))
        probed == row.catalog # None \/ row.base # None
    IN
    /\ Stands(f, "save") /\ handler[f].kind = "edit"
    /\ \/ /\ probed /\ added # {}    \* an endpoint rejects, or is not this server's
          /\ UNCHANGED server
       \/ \E answering \in SUBSET IF probed THEN added ELSE {} :
              /\ \A url \in answering : row.catalog # None /\ serves[url] = row.catalog
              /\ SaveServerConfiguration(handler[f].server, row.generation,
                     [next EXCEPT !.endpoints = Verified(row, next.endpoints, answering)])
    /\ Respond(f)
    /\ UNCHANGED <<surroundings, library, started>>

DeleteServer(f) ==
    /\ StartHandling(f, {"remove"})
    /\ \E s \in Servers :
           /\ Found(s) /\ server[s].generation < MaxServerGeneration
           /\ server' = [server EXCEPT ![s].deleted = TRUE, ![s].enabled = FALSE,
                             ![s].health = "unknown", ![s].token = NoToken,
                             ![s].generation = @ + 1]
    /\ UNCHANGED <<surroundings, library, handler>>

-----------------------------------------------------------------------------
(* Testing a connection                                                    *)

\* next holds what the test compares and will save: endpoints, catalog, base;
\* named, whether the server had a catalog.
BeginTest(f) ==
    /\ StartHandling(f, {"test"})
    /\ \E s \in Servers :
           /\ Found(s)
           /\ handler' = [handler EXCEPT ![f] = [Unoccupied EXCEPT
                  !.pc = "probe", !.kind = "test", !.server = s,
                  !.generation = server[s].generation,
                  !.next = [NoServer EXCEPT !.endpoints = server[s].endpoints,
                                !.catalog = server[s].catalog, !.base = server[s].base],
                  !.named = server[s].catalog # None,
                  !.rest = UrlsOf(server[s].endpoints)]]
    /\ UNCHANGED <<surroundings, server, library>>

\* The parts of a row a login uses, and those a test leaves as they are.
Login(row) == [NoServer EXCEPT !.generation = row.generation, !.password = row.password]
Untested(row) == [Login(row) EXCEPT !.enabled = row.enabled, !.token = row.token]

\* Mutant: an endpoint without an identity counts as one of that name.
CatalogSaid(identity) == identity

CatalogOf(identity) == IF identity = Anonymous THEN None ELSE identity

\* The next endpoint goes to seen; fatal: the test will be answered with it.
Probed(f, endpoint, catalog, base, fatal) ==
    LET held == handler[f]
        rest == Tail(held.rest) IN
    handler' = [handler EXCEPT ![f] = [held EXCEPT
                  !.rest = rest, !.row = NoServer, !.seen = Append(held.seen, endpoint),
                  !.next.catalog = catalog, !.next.base = base,
                  !.rejected = held.rejected \/ fatal,
                  !.pc = IF rest = <<>> THEN "latest" ELSE "probe"]]

ProbeFails(f, fatal) ==
    LET next     == handler[f].next
        endpoint == next.endpoints[Len(handler[f].seen) + 1]
        verified == endpoint.catalog # None
                    \/ (~handler[f].named /\ next.base = endpoint.url)
    IN Probed(f, [endpoint EXCEPT !.health = IF verified THEN "degraded" ELSE "unknown"],
              next.catalog, next.base, fatal)

\* getServerIdentity reads the server again, which may be gone or have
\* other endpoints, and logs in at the endpoint.
ProbeEndpoint(f) ==
    LET url == Head(handler[f].rest) IN
    /\ Stands(f, "probe")
    /\ \/ /\ Found(handler[f].server)
          /\ url \in Range(UrlsOf(Row(f).endpoints))
          /\ handler' = [handler EXCEPT ![f].pc = "verify", ![f].row = Login(Row(f))]
       \/ ProbeFails(f, FALSE)                                  \* no answer
       \/ ProbeFails(f, TRUE)                      \* rejected, or no server
    /\ UNCHANGED <<surroundings, server, library, started>>

\* The login is saved, then the identity is compared: the first one that is
\* reported becomes the server's, an endpoint without one must be the base.
VerifyEndpoint(f) ==
    LET url      == Head(handler[f].rest)
        next     == handler[f].next
        endpoint == next.endpoints[Len(handler[f].seen) + 1]
        identity == serves[url]
        catalog  == IF next.catalog = None /\ identity # Anonymous
                    THEN identity ELSE next.catalog
        same     == IF identity # Anonymous THEN identity = catalog
                    ELSE catalog = None /\ next.base \in {None, url}
    IN
    /\ Stands(f, "verify")
    /\ SaveServerResult(handler[f].server, handler[f].row, url)
    /\ IF Row(f).generation # handler[f].row.generation
       THEN ProbeFails(f, TRUE)
       ELSE IF same
       THEN Probed(f, [endpoint EXCEPT !.health = "healthy",
                           !.catalog = CatalogOf(identity)],
                   catalog, IF next.base = None THEN url ELSE next.base, FALSE)
       ELSE Probed(f, [endpoint EXCEPT !.health = "degraded", !.catalog = None],
                   catalog, next.base, TRUE)
    /\ UNCHANGED <<surroundings, library, started>>

\* The latest row, if it is still of the generation tested, ...
ReadLatest(f) ==
    /\ Stands(f, "latest")
    /\ IF Found(handler[f].server) /\ Row(f).generation = handler[f].generation
       THEN handler' = [handler EXCEPT ![f].pc = "save", ![f].row = Untested(Row(f))]
       ELSE Respond(f)
    /\ UNCHANGED <<surroundings, server, library, started>>

\* ... is saved with the results, and without its token after a rejection.
Tested(f) ==
    [handler[f].row EXCEPT !.endpoints = handler[f].seen,
         !.catalog = handler[f].next.catalog, !.base = handler[f].next.base,
         !.token = IF handler[f].rejected THEN NoToken ELSE @,
         !.health = AggregateHealth(handler[f].seen)]

SaveTest(f) ==
    /\ Stands(f, "save") /\ handler[f].kind = "test"
    /\ SaveServerConfiguration(handler[f].server, handler[f].generation, Tested(f))
    /\ Respond(f)
    /\ UNCHANGED <<surroundings, library, started>>

-----------------------------------------------------------------------------
(* Requests                                                                *)

\* A caller read the generation; "get" may fail over, "post" is replay-safe.
BeginRequest(f) ==
    /\ StartHandling(f, {"get", "post"})
    /\ \E s \in Servers, kind \in {"get", "post"} \cap workload :
           /\ Found(s)
           /\ handler' = [handler EXCEPT ![f] = [Unoccupied EXCEPT
                  !.pc = "read", !.kind = kind, !.server = s,
                  !.generation = server[s].generation]]
    /\ UNCHANGED <<surroundings, server, library>>

ReadServer(f) ==
    LET eligible == EligibleEndpoints(Row(f)) IN
    /\ Stands(f, "read")
    /\ IF Found(handler[f].server) /\ Row(f).generation = handler[f].generation /\ eligible # <<>>
       THEN handler' = [handler EXCEPT ![f].pc = "send", ![f].row = Row(f), ![f].rest = eligible]
       ELSE Respond(f)
    /\ UNCHANGED <<surroundings, server, library, started>>

\* After a failure of the network or the endpoint a GET goes to the next one.
Reads(f) == handler[f].kind \in {"get", "library"}

TryNextEndpoint(f) ==
    IF Reads(f) /\ Len(handler[f].rest) > 1
    THEN handler' = [handler EXCEPT ![f].pc = "send", ![f].rest = Tail(@)]
    ELSE Respond(f)

Answered(f) ==
    handler' = [handler EXCEPT ![f].pc = "check", ![f].from = Head(handler[f].rest)]

\* The request is sent with the token of the row: it fails, is answered, or
\* is answered with 401.
Send(f) ==
    /\ Stands(f, "send")
    /\ \/ TryNextEndpoint(f)
       \/ Respond(f)
       \/ Answered(f)
       \/ handler' = [handler EXCEPT ![f].pc = "login"]
    /\ UNCHANGED <<surroundings, server, library, started>>

\* After a 401: log in at that endpoint, which a row read later may lack, and
\* save the token.
LogIn(f) ==
    LET url == Head(handler[f].rest) IN
    /\ Stands(f, "login")
    /\ \/ TryNextEndpoint(f) /\ UNCHANGED server
       \/ Respond(f) /\ UNCHANGED server
       \/ /\ url \in Range(UrlsOf(handler[f].row.endpoints))
          /\ SaveServerResult(handler[f].server, handler[f].row, url)
          /\ IF Row(f).generation # handler[f].row.generation THEN Respond(f)
             ELSE IF platform = "d1" THEN handler' = [handler EXCEPT ![f].pc = "reread"]
             ELSE handler' = [handler EXCEPT ![f].pc = "replay",
                                             ![f].row = server'[handler[f].server]]
    /\ UNCHANGED <<surroundings, library, started>>

\* On D1 the saved row is read by another statement, and may be a later
\* configuration, without that endpoint.
D1RereadServer(f) ==
    /\ Stands(f, "reread")
    /\ IF Head(handler[f].rest) \in Range(UrlsOf(Row(f).endpoints))
       THEN handler' = [handler EXCEPT ![f].pc = "replay", ![f].row = Row(f)]
       ELSE Respond(f)
    /\ UNCHANGED <<surroundings, server, library, started>>

\* The request is sent once more, to the endpoint of that URL as it is now.
Replay(f) ==
    /\ Stands(f, "replay")
    /\ \/ TryNextEndpoint(f)
       \/ Respond(f)
       \/ Answered(f)
    /\ UNCHANGED <<surroundings, server, library, started>>

\* The answer counts if the generation is still the request's.
CheckAnswer(f) ==
    LET found == [server |-> handler[f].server, source |-> serves[handler[f].from],
                  enabled |-> TRUE, at |-> handler[f].generation]
    IN
    /\ Stands(f, "check")
    /\ IF /\ handler[f].kind = "library"
          /\ Found(handler[f].server) /\ Row(f).generation = handler[f].generation
       THEN handler' = [handler EXCEPT ![f] = [Unoccupied EXCEPT
                !.pc = "bind", !.kind = "library", !.server = handler[f].server,
                !.fence = handler[f].fence, !.bindings = {found}]]
       ELSE Respond(f)
    /\ UNCHANGED <<surroundings, server, library, started>>

-----------------------------------------------------------------------------
(* Libraries                                                               *)

\* The handler of an edit reads the library.
BeginLibrary(f) ==
    /\ StartHandling(f, {"library"})
    /\ handler' = [handler EXCEPT ![f] = [Unoccupied EXCEPT
           !.pc = "servers", !.kind = "library", !.current = library]]
    /\ UNCHANGED <<surroundings, server, library>>

\* It reads the servers.  Bindings of a disabled one are kept, none of them
\* newly switched on; an enabled one is asked for what it has.
ReadServers(f) ==
    /\ Stands(f, "servers")
    /\ \/ \E s \in Servers :
              /\ Found(s) /\ ~server[s].enabled
              /\ \E kept \in SUBSET {b \in handler[f].current : b.server = s},
                    off \in SUBSET handler[f].current :
                     /\ \E b \in kept : b.enabled /\ b \notin off
                     /\ handler' = [handler EXCEPT ![f].pc = "bind", ![f].server = s,
                            ![f].fence = server[s].generation, ![f].preserve = TRUE,
                            ![f].bindings = {[b EXCEPT !.enabled = @ /\ b \notin off]
                                             : b \in kept}]
       \/ \E s \in Servers :
              /\ Found(s) /\ server[s].enabled /\ server[s].health = "healthy"
              /\ server[s].base # None
              /\ handler' = [handler EXCEPT ![f].pc = "discover", ![f].server = s,
                               ![f].fence = server[s].generation, ![f].current = {}]
       \/ Respond(f)
    /\ UNCHANGED <<surroundings, server, library, started>>

\* listSourceLibraries reads the server once more, and requests its folders
\* under the generation it finds now.
DiscoverSources(f) ==
    /\ Stands(f, "discover")
    /\ IF /\ Found(handler[f].server) /\ Row(f).enabled /\ Row(f).health = "healthy"
          /\ EligibleEndpoints(Row(f)) # <<>>
       THEN handler' = [handler EXCEPT ![f].pc = "read", ![f].generation = Row(f).generation]
       ELSE Respond(f)
    /\ UNCHANGED <<surroundings, server, library, started>>

\* Mutant: the fence does not compare generations.
LibraryFenceHoldsLately(f) ==
    /\ Found(handler[f].server)
    /\ IF handler[f].preserve THEN ~Row(f).enabled
       ELSE Row(f).enabled /\ Row(f).health = "healthy" /\ Row(f).base # None

LibraryFenceHolds(f) ==
    /\ Found(handler[f].server) /\ Row(f).generation = handler[f].fence
    /\ IF handler[f].preserve THEN ~Row(f).enabled
       ELSE Row(f).enabled /\ Row(f).health = "healthy" /\ Row(f).base # None

\* The upsert takes no notice of what has become of the library since.
SaveLibrary(f) ==
    /\ Stands(f, "bind")
    /\ library' = IF LibraryFenceHolds(f) THEN handler[f].bindings ELSE library
    /\ Respond(f)
    /\ UNCHANGED <<surroundings, server, started>>

\* D1 asks for the fences in every statement of its batch, between which
\* nothing else is written.
SqliteSaveVirtualLibrary(f) == platform = "sqlite" /\ SaveLibrary(f)
D1SaveVirtualLibrary(f) == platform = "d1" /\ SaveLibrary(f)

DeleteLibrary(f) ==
    /\ StartHandling(f, {"unlist"})
    /\ library # NoLibrary
    /\ library' = NoLibrary
    /\ UNCHANGED <<surroundings, server, handler>>

\* isSourceEligible
SourceIsEligible(b) ==
    LET row == server[b.server] IN
    /\ b.enabled /\ row.enabled /\ ~row.deleted /\ row.health = "healthy"
    /\ row.catalog # None \/ row.base # None

\* The endpoints that are joined to a source: those of the server's catalog, or the
\* first, if the server that was verified has none.
JoinedEndpoints(row) ==
    {i \in DOMAIN row.endpoints :
        \/ row.catalog # None /\ row.endpoints[i].catalog = row.catalog
        \/ row.catalog = None /\ row.base # None /\ i = 1}

\* resolveEligibleSources: a source without such an endpoint has no row.
EligibleSources ==
    {b \in library : SourceIsEligible(b) /\ JoinedEndpoints(server[b.server]) # {}}

-----------------------------------------------------------------------------

\* What a test leaves of a new server all of whose endpoints answer, the
\* first of them with its catalog.
TestedServer(edit) ==
    LET row     == NewServer(edit)
        catalog == serves[edit.urls[1]]
        same(i) == serves[edit.urls[i]] = catalog
    IN [row EXCEPT
           !.catalog = catalog, !.base = edit.urls[1], !.health = "healthy",
           !.endpoints = [i \in DOMAIN row.endpoints |->
               IF same(i)
               THEN [row.endpoints[i] EXCEPT !.catalog = catalog, !.health = "healthy"]
               ELSE [row.endpoints[i] EXCEPT !.health = "degraded"]],
           !.token = IF \A i \in DOMAIN edit.urls : same(i)
                     THEN TokenOf(row, edit.urls[Len(edit.urls)]) ELSE NoToken]

\* The first server was just created, or was tested once, or there is none.
ConfigurationInit ==
    /\ platform \in Platforms /\ workload \in Workloads
    /\ serves \in Worlds
    /\ \/ server = [s \in Servers |-> NoServer] /\ "create" \in workload
       \/ \E s \in Servers, edit \in Edits :
              \E row \in {NewServer(edit)} \cup
                        IF serves[edit.urls[1]] = Anonymous THEN {} ELSE {TestedServer(edit)} :
                  server = [[t \in Servers |-> NoServer] EXCEPT ![s] = row]
    /\ library = NoLibrary
    /\ handler = [f \in Handlers |-> Unoccupied]
    /\ started = 0

HandlerStep(f) ==
    \/ SqliteCreateServer(f) \/ D1CreateServer(f)
    \/ BeginServerEdit(f) \/ SaveEdit(f) \/ DeleteServer(f)
    \/ BeginTest(f) \/ ProbeEndpoint(f) \/ VerifyEndpoint(f)
    \/ ReadLatest(f) \/ SaveTest(f)
    \/ BeginRequest(f) \/ ReadServer(f) \/ Send(f) \/ LogIn(f) \/ D1RereadServer(f)
    \/ Replay(f)
    \/ CheckAnswer(f)
    \/ BeginLibrary(f) \/ ReadServers(f) \/ DiscoverSources(f) \/ SqliteSaveVirtualLibrary(f)
    \/ D1SaveVirtualLibrary(f)
    \/ DeleteLibrary(f)

ConfigurationNext == \E f \in Handlers : HandlerStep(f)

ConfigurationSpec == ConfigurationInit /\ [][ConfigurationNext]_configurationVars

-----------------------------------------------------------------------------
(* Properties                                                              *)

\* The endpoints a request may fail over between serve one catalog, the
\* server's if it has one, however tests and edits of the server overlap
\* (testConnection, update, eligibleEndpoints).
EligibleEndpointsAgree ==
    \A s \in Servers : \A url, other \in Range(EligibleEndpoints(server[s])) :
        /\ server[s].catalog # None => serves[url] = server[s].catalog
        /\ server[s].catalog = None => url = other

\* A source that is called eligible is among those that requests resolve, and has an
\* endpoint to be asked at: the health of a server is that of the endpoints it was
\* saved with (aggregateHealth, saveServerConfiguration, isSourceEligible,
\* resolveEligibleSources).
EligibleSourcesAreServed ==
    \A b \in library : SourceIsEligible(b) =>
        b \in EligibleSources /\ EligibleEndpoints(server[b.server]) # <<>>

\* Obtained under the configuration it is with, with its password and at one of
\* its endpoints.
TokenFits(row) ==
    row.token # NoToken =>
        /\ row.token.generation = row.generation
        /\ row.token.password = row.password
        /\ row.token.url \in Range(UrlsOf(row.endpoints))
        /\ row.deleted => platform = "d1"

\* A stored token was obtained under the present configuration, and so is every
\* token that a request sends, for the configuration it was made for or, on D1,
\* the one it read after it had logged in. A deleted server has none, except on
\* D1: a request that reads the row again after the deletion fails over to the
\* next endpoint and logs in there (saveServerResult, saveServerConfiguration,
\* deleteServer, authenticateServer).
TokensFitTheConfiguration ==
    /\ \A s \in Servers : TokenFits(server[s])
    /\ \A f \in Handlers : handler[f].pc \in {"send", "login", "replay"} =>
           /\ TokenFits(handler[f].row)
           /\ platform = "sqlite" => handler[f].row.generation = handler[f].generation

\* Sources that a library edit adds were discovered under the present
\* generation of their server, unless that is disabled and keeps what it had
\* (validateSources, saveVirtualLibrary).
BindingsAreCurrent ==
    [][\A b \in library' \ library :
           /\ Found(b.server)
           /\ server[b.server].enabled => b.at = server[b.server].generation]_configurationVars
=============================================================================
