-------------------------------- MODULE Covers --------------------------------
(***************************************************************************)
(* The cover of a virtual library.  The dashboard asks for a preparation,  *)
(* which chooses posters of the library's servers and leaves a manifest of *)
(* what it found under a token; the browser draws the picture and uploads  *)
(* it with the token, whenever it likes and as often as it likes.  The     *)
(* statement that stores it looks at everything once more, and triggers of *)
(* the database drop every manifest of the library.                        *)
(*                                                                         *)
(* A revision is the digest of a picture, so it stands for the picture.    *)
(***************************************************************************)
EXTENDS Naturals, FiniteSets, Functions, FiniteSetsExt, Tables

CONSTANTS
    Painters,      \* fibers that prepare and upload
    Hosts,         \* servers of the library
    Layouts,       \* names, kinds and bindings a library can have
    Pictures,      \* what can be uploaded
    None,          \* no cover
    TokenLife,     \* 600000 ms
    MostManifests, \* manifests kept of a library
    MaxCoverTime,  \* bound on the clock
    MaxTokens,     \* bound on preparations
    MaxChanges     \* bound on edits of the library and its servers

ASSUME CoversAssumption ==
    /\ None \notin Pictures
    /\ {TokenLife, MostManifests} \subseteq Nat \ {0}

VARIABLES
    library,    \* virtual_libraries with library_sources, or what is left of it
    hosts,      \* upstream_servers: generation, and whether it is eligible
    cover,      \* library_covers
    manifests,  \* library_cover_manifests: token -> row
    painter,    \* fiber -> how far it has come
    tokens,     \* tokens given so far
    coverTime,  \* Date.now()
    changes,
    found       \* what the preparation of a token found: token -> library, hosts, cover

coversVars ==
    <<library, hosts, cover, manifests, painter, tokens, coverTime, changes, found>>

NoPainting == [stage |-> "none"]

Paints(p, stage) == painter[p].stage = stage

Turns(p, next) == painter' = [painter EXCEPT ![p] = next]

CoverRow(picture, digest) == [revision |-> picture, digest |-> digest]

LibraryRows == [layout : Layouts, enabled : BOOLEAN, exists : BOOLEAN]

\* A server that is enabled, healthy and verified, in the given generation.
HostStands(h, generation) == hosts[h].eligible /\ hosts[h].generation = generation

-----------------------------------------------------------------------------
(* Preparation                                                             *)

Prepare(p) ==
    /\ Paints(p, "none") /\ tokens < MaxTokens
    /\ library.exists /\ library.enabled
    /\ tokens' = tokens + 1
    /\ Turns(p, [stage |-> "selecting", token |-> tokens', digest |-> library])
    /\ UNCHANGED <<library, hosts, cover, manifests, coverTime, changes, found>>

\* Posters come from items of the eligible servers, of their present generations;
\* without posters there is nothing to prepare.
Select(p) ==
    /\ Paints(p, "selecting")
    /\ \/ Turns(p, NoPainting)
       \/ \E from \in SUBSET {h \in Hosts : hosts[h].eligible} \ {{}} :
             Turns(p, [stage |-> "looking", token |-> painter[p].token,
                       digest |-> painter[p].digest,
                       fences |-> [h \in from |-> hosts[h].generation]])
    /\ UNCHANGED <<library, hosts, cover, manifests, tokens, coverTime, changes, found>>

\* getLibraryCover: the cover the new one is to replace.
SeeOld(p) ==
    /\ Paints(p, "looking")
    /\ Turns(p, [stage |-> "saving", token |-> painter[p].token, digest |-> painter[p].digest,
                 fences |-> painter[p].fences, old |-> cover.revision])
    /\ found' = With(found, painter[p].token,
                     [library |-> painter[p].digest, fences |-> painter[p].fences,
                      revision |-> cover.revision])
    /\ UNCHANGED <<library, hosts, cover, manifests, tokens, coverTime, changes>>

\* The latest manifests; those of one instant are in the order of random tokens.
Latest(rows) ==
    {r \in {Restrict(rows, ts) : ts \in kSubset(Min({MostManifests, Cardinality(DOMAIN rows)}),
                                                DOMAIN rows)} :
        \A t \in DOMAIN r, u \in DOMAIN rows \ DOMAIN r : rows[t].expires >= rows[u].expires}

\* saveLibraryCoverManifest: expired ones go, this one comes, the latest stay.
\* The row refers to its library.
SaveManifest(p) ==
    /\ Paints(p, "saving")
    /\ IF ~library.exists THEN manifests' = manifests
       ELSE LET valid == {t \in DOMAIN manifests : manifests[t].expires > coverTime}
                new == [digest |-> painter[p].digest, fences |-> painter[p].fences,
                        expected |-> painter[p].old, expires |-> coverTime + TokenLife]
            IN  manifests' \in Latest(With(Restrict(manifests, valid), painter[p].token, new))
    /\ Turns(p, NoPainting)
    /\ UNCHANGED <<library, hosts, cover, tokens, coverTime, changes, found>>

-----------------------------------------------------------------------------
(* Upload                                                                  *)

\* manifest, first half: an enabled library, a manifest in its time, of the library
\* as it is.
ShowToken(p) ==
    /\ Paints(p, "none")
    /\ \E t \in DOMAIN manifests :
          /\ library.enabled
          /\ manifests[t].expires > coverTime /\ manifests[t].digest = library
          /\ Turns(p, [stage |-> "fencing", token |-> t, digest |-> manifests[t].digest,
                       fences |-> manifests[t].fences])
    /\ UNCHANGED <<library, hosts, cover, manifests, tokens, coverTime, changes, found>>

\* manifest, second half: every server is what it was. The picture is looked at,
\* or a poster is asked for.
CheckFences(p) ==
    /\ Paints(p, "fencing")
    /\ \/ /\ \A h \in DOMAIN painter[p].fences : HostStands(h, painter[p].fences[h])
          /\ \/ \E x \in Pictures :
                   Turns(p, [stage |-> "storing", token |-> painter[p].token,
                             digest |-> painter[p].digest, picture |-> x])
             \/ Turns(p, [stage |-> "fetching", token |-> painter[p].token,
                          fences |-> painter[p].fences])
       \/ Turns(p, NoPainting)
    /\ UNCHANGED <<library, hosts, cover, manifests, tokens, coverTime, changes, found>>

\* requestImage: the poster comes from a server that still is what it was.
FetchPoster(p) ==
    /\ Paints(p, "fetching")
    /\ \/ /\ \E h \in DOMAIN painter[p].fences :
                hosts[h].generation = painter[p].fences[h]
          /\ Turns(p, [stage |-> "fetched", token |-> painter[p].token])
       \/ Turns(p, NoPainting)
    /\ UNCHANGED <<library, hosts, cover, manifests, tokens, coverTime, changes, found>>

\* It is passed on while the token holds, else the request fails.
PassPoster(p) ==
    /\ Paints(p, "fetched")
    /\ Turns(p, NoPainting)
    /\ UNCHANGED <<library, hosts, cover, manifests, tokens, coverTime, changes, found>>

\* validManifest
ManifestHolds(m) ==
    /\ library.exists /\ library.enabled /\ m.digest = library
    /\ \A h \in DOMAIN m.fences : HostStands(h, m.fences[h])

\* Mutant: the cover is not compared with the one the preparation saw.
StoresUnseen(p, t) ==
    /\ t \in DOMAIN manifests /\ manifests[t].expires > coverTime
    /\ painter[p].digest = manifests[t].digest /\ ManifestHolds(manifests[t])

\* The condition of commitLibraryCover.
Stores(p, t) ==
    /\ t \in DOMAIN manifests /\ manifests[t].expires > coverTime
    /\ painter[p].digest = manifests[t].digest /\ ManifestHolds(manifests[t])
    /\ manifests[t].expected = cover.revision

\* commitLibraryCover, with the triggers cover_consume_insert and cover_consume_update.
Commit(p) ==
    /\ Paints(p, "storing")
    /\ IF Stores(p, painter[p].token)
       THEN /\ cover' = CoverRow(painter[p].picture, painter[p].digest)
            /\ manifests' = <<>>
       ELSE UNCHANGED <<cover, manifests>>
    /\ Turns(p, NoPainting)
    /\ UNCHANGED <<library, hosts, tokens, coverTime, changes, found>>

-----------------------------------------------------------------------------
(* The rest of the program                                                 *)

NoCover == CoverRow(None, None)

\* An edit of the library, or its removal, with which its rows go.
ChangeLibrary ==
    /\ library.exists /\ changes < MaxChanges /\ changes' = changes + 1
    /\ library' \in LibraryRows \ {library}
    /\ IF library'.exists THEN UNCHANGED <<cover, manifests>>
       ELSE library'.enabled = FALSE /\ cover' = NoCover /\ manifests' = <<>>
    /\ UNCHANGED <<hosts, painter, tokens, coverTime, found>>

\* An edit of a server, or a change of its health.
ChangeHost(h) ==
    /\ changes < MaxChanges /\ changes' = changes + 1
    /\ \/ hosts' = [hosts EXCEPT ![h].generation = @ + 1]
       \/ hosts' = [hosts EXCEPT ![h].eligible = ~@]
    /\ UNCHANGED <<library, cover, manifests, painter, tokens, coverTime, found>>

CoverTick ==
    /\ coverTime < MaxCoverTime /\ coverTime' = coverTime + 1
    /\ UNCHANGED <<library, hosts, cover, manifests, painter, tokens, changes, found>>

CoversInit ==
    /\ library \in {l \in LibraryRows : l.exists /\ l.enabled}
    /\ hosts = [h \in Hosts |-> [generation |-> 1, eligible |-> TRUE]]
    /\ cover = NoCover
    /\ manifests = <<>> /\ found = <<>>
    /\ painter = [p \in Painters |-> NoPainting]
    /\ tokens = 0 /\ coverTime = 0 /\ changes = 0

CoversNext ==
    \/ \E p \in Painters :
          \/ Prepare(p) \/ Select(p) \/ SeeOld(p) \/ SaveManifest(p)
          \/ ShowToken(p) \/ CheckFences(p) \/ FetchPoster(p) \/ PassPoster(p) \/ Commit(p)
    \/ ChangeLibrary \/ (\E h \in Hosts : ChangeHost(h)) \/ CoverTick

CoversSpec == CoversInit /\ [][CoversNext]_coversVars

-----------------------------------------------------------------------------
(* Properties                                                              *)

\* Whoever prepares a cover sees what it will replace, the library it is for and
\* the servers its posters are from: all of them are the same when a cover of that
\* preparation is stored, however many preparations and uploads are under way
\* (upload, commitLibraryCover).
CoversReplaceWhatWasSeen ==
    [][\A p \in Painters :
          Paints(p, "storing") /\ painter'[p] # painter[p] /\ cover' # cover =>
             LET f == found[painter[p].token]
             IN  /\ f.revision = cover.revision /\ f.library = library
                 /\ \A h \in DOMAIN f.fences : HostStands(h, f.fences[h])]_coversVars
=============================================================================
