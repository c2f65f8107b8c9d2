------------------------------- MODULE Metadata -------------------------------
(***************************************************************************)
(* Settings of the external metadata providers, the cache of what they     *)
(* answered and the fibers that use both.  A refresh reads the settings    *)
(* once and goes on with them from provider to provider; an edit reads the *)
(* settings before it writes all of them.  TMDB's collections are read     *)
(* under a lock for each collection, language and edition of the settings. *)
(*                                                                         *)
(* One title and one collection.  The order of the providers decides only  *)
(* which of two answers is shown, and any order of asking is allowed.      *)
(***************************************************************************)
EXTENDS Naturals, FiniteSets, Functions, Tables

CONSTANTS
    Providers,      \* TMDB and Trakt
    Tmdb,
    Readers,        \* fibers that refresh titles and read collections
    Editors,        \* fibers that edit the settings
    Languages,      \* languages of the clients
    Configured,     \* languages the settings may name
    Unset,          \* no language in the settings, no credential
    Credentials,
    FreshFor,       \* METADATA_FRESH_MS
    StaleFor,       \* METADATA_STALE_MS
    MaxInstant,     \* bound on the clock
    MaxEdits,       \* bound on edits
    MaxAsked        \* bound on refreshes and readings begun

ASSUME ReadersAssumption == IsFiniteSet(Readers)
ASSUME TmdbAssumption == Tmdb \in Providers
ASSUME UnsetAssumption == Unset \notin Languages \cup Configured \cup Credentials \cup Readers
ASSUME WindowsAssumption == FreshFor \in Nat /\ StaleFor \in Nat /\ FreshFor < StaleFor

VARIABLES
    instant,    \* Date.now()
    settings,   \* metadata_provider_settings
    cached,     \* external_metadata_cache: provider, subject and language -> entry
    locks,      \* collectionLocks: key -> a semaphore
    semaphores, \* its users and the reader that holds its permit
    editor,     \* fiber -> what it read
    reader,     \* fiber -> what it is doing
    edits, asked,
    editions    \* history: the credentials that were stored, with the time they have

metadataVars ==
    <<instant, settings, cached, locks, semaphores, editor, reader, edits, asked, editions>>

bounded == <<edits, asked, editions>>

-----------------------------------------------------------------------------
(* Settings                                                                *)

Settings == [enabled : BOOLEAN, language : Configured \cup {Unset},
             credential : Credentials \cup {Unset},
             status : {"unconfigured", "ready", "degraded"}, updated : Nat]

\* The rows that a first reading inserts.
Initially == [enabled |-> FALSE, language |-> Unset, credential |-> Unset,
              status |-> "unconfigured", updated |-> 0]

\* What an edit asks of a provider; a patch of Unset clears the credential,
\* and "preserve" keeps the one that was read.
Inputs == [enabled : BOOLEAN, language : Configured \cup {Unset},
           patch : Credentials \cup {Unset, "preserve"}]

IdleReader == [doing |-> "nothing"]

\* The settings are read, and the time is taken that the edit will store.
BeginSettingsEdit(e) ==
    /\ editor[e] = IdleReader /\ edits < MaxEdits
    /\ editor' = [editor EXCEPT ![e] = [doing |-> "edit", current |-> settings, at |-> instant]]
    /\ edits' = edits + 1
    /\ UNCHANGED <<instant, settings, cached, locks, semaphores, reader, asked, editions>>

Edited(previous, input, at) ==
    LET credential == IF input.patch = "preserve" THEN previous.credential ELSE input.patch
    IN  [enabled |-> input.enabled, language |-> input.language, credential |-> credential,
         status |-> CASE credential = Unset -> "unconfigured"
                      [] credential # Unset /\ previous.status = "degraded" -> "degraded"
                      [] OTHER -> "ready",
         updated |-> at]

\* Both rows are written, the credentials that are preserved as they were read.
FinishEdit(e) ==
    /\ editor[e] # IdleReader
    /\ \E input \in [Providers -> Inputs] :
          /\ \A p \in Providers \ {Tmdb} : input[p].language = Unset
          /\ settings' = [p \in Providers |-> Edited(editor[e].current[p], input[p], editor[e].at)]
    /\ editions' = editions \cup {<<p, settings'[p].updated, settings'[p].credential>> : p \in Providers}
    /\ editor' = [editor EXCEPT ![e] = IdleReader]
    /\ UNCHANGED <<instant, cached, locks, semaphores, reader, edits, asked>>

\* Mutant: the settings may have been edited in the meantime.
JudgesAnyway(p, used) == settings[p].credential # Unset

\* The row is the one the attempt was made with, and has a credential still.
Judges(p, used) ==
    /\ settings[p].updated = used.updated
    /\ settings[p].credential # Unset

\* updateStatus and updateMetadataProviderStatus
Judge(p, used, status) ==
    settings' = IF used.status # status /\ used.credential # Unset /\ Judges(p, used)
                THEN [settings EXCEPT ![p].status = status] ELSE settings

-----------------------------------------------------------------------------
(* The cache                                                               *)

InUse(s) == s.enabled /\ s.credential # Unset

\* The language a request asks for.
AskedOf(p, used, client) ==
    IF p # Tmdb THEN Unset ELSE IF used.language # Unset THEN used.language ELSE client

Suffix(p, used, client) == IF p = Tmdb /\ used.language = Unset THEN client ELSE Unset

Key(p, subject, used, client) == <<p, subject, Suffix(p, used, client)>>

IsCached(key) == key \in DOMAIN cached

\* Entries from before the settings' last edit are not used.
Usable(key, used, freshOnly) ==
    /\ IsCached(key)
    /\ cached[key].fetched >= used.updated
    /\ cached[key].fetched + (IF freshOnly \/ ~cached[key].found THEN FreshFor ELSE StaleFor) > instant

Entries == [language : Languages \cup Configured \cup {Unset}, found : BOOLEAN, fetched : Nat]

Entry(language, found) == [language |-> language, found |-> found, fetched |-> instant]

WriteExternal(key, entry) == cached' = With(cached, key, entry)

-----------------------------------------------------------------------------
(* A title                                                                 *)

ReaderTakes(f, what) == reader' = [reader EXCEPT ![f] = what]

ReaderIs(f, what) == reader[f].doing = what

Begins(f) == ReaderIs(f, "nothing") /\ asked < MaxAsked /\ asked' = asked + 1

\* refresh asks the providers, overlayCached and resolveCachedImage do not.
BeginTitle(f) ==
    /\ Begins(f)
    /\ \E client \in Languages, cachedOnly \in BOOLEAN :
          ReaderTakes(f, [doing |-> "title", client |-> client, cachedOnly |-> cachedOnly, shown |-> {},
                    plan |-> Restrict(settings, {p \in Providers : InUse(settings[p])})])
    /\ UNCHANGED <<instant, settings, cached, locks, semaphores, editor, edits, editions>>

\* The reader goes on, with the provider's answer among what it will show.
After(f, p, answers) ==
    [doing |-> "title", client |-> reader[f].client, cachedOnly |-> reader[f].cachedOnly,
     plan |-> Restrict(reader[f].plan, DOMAIN reader[f].plan \ {p}),
     shown |-> reader[f].shown \cup
               {[provider |-> p, used |-> reader[f].plan[p], language |-> a.language] :
                   a \in {x \in answers : x.found}}]

\* A fresh entry is taken as it is, and a stale one when nothing is asked.
TakeCached(f) ==
    /\ ReaderIs(f, "title")
    /\ \E p \in DOMAIN reader[f].plan :
          LET r == reader[f]
              key == Key(p, "title", r.plan[p], r.client)
              usable == Usable(key, r.plan[p], ~r.cachedOnly)
          IN  /\ usable \/ r.cachedOnly
              /\ ReaderTakes(f, After(f, p, IF usable THEN {cached[key]} ELSE {}))
    /\ UNCHANGED <<instant, settings, cached, locks, semaphores, editor, bounded>>

\* The stale entry is read before the provider is asked.  TMDB is asked, too,
\* when the fresh entry of a movie does not tell its collection.
AskTitle(f) ==
    /\ ReaderIs(f, "title") /\ ~reader[f].cachedOnly
    /\ \E p \in DOMAIN reader[f].plan :
          LET r == reader[f]
              key == Key(p, "title", r.plan[p], r.client)
          IN  /\ ~(Usable(key, r.plan[p], TRUE) /\ (p = Tmdb => ~cached[key].found))
              /\ ReaderTakes(f, [doing |-> "asking", client |-> r.client,
                                 cachedOnly |-> FALSE, shown |-> r.shown, plan |-> r.plan, asks |-> p,
                                 stale |-> IF Usable(key, r.plan[p], FALSE)
                                           THEN {cached[key]} ELSE {}])
    /\ UNCHANGED <<instant, settings, cached, locks, semaphores, editor, bounded>>

\* The answer is cached under the settings the request was made with.
TitleAnswers(f) ==
    LET r == reader[f]
        p == r.asks
    IN  /\ ReaderIs(f, "asking")
        /\ \E found \in BOOLEAN :
              LET entry == Entry(AskedOf(p, r.plan[p], r.client), found)
              IN  /\ WriteExternal(Key(p, "title", r.plan[p], r.client), entry)
                  /\ ReaderTakes(f, [r EXCEPT !.doing = "answered", !.stale = {entry}])
        /\ UNCHANGED <<instant, settings, locks, semaphores, editor, bounded>>

TitleAnswered(f) ==
    /\ ReaderIs(f, "answered")
    /\ Judge(reader[f].asks, reader[f].plan[reader[f].asks], "ready")
    /\ ReaderTakes(f, After(f, reader[f].asks, reader[f].stale))
    /\ UNCHANGED <<instant, cached, locks, semaphores, editor, bounded>>

\* A refusal, a timeout or an answer that makes no sense: the stale entry is
\* taken and the next provider asked.
TitleFails(f) ==
    /\ ReaderIs(f, "asking")
    /\ Judge(reader[f].asks, reader[f].plan[reader[f].asks], "degraded")
    /\ ReaderTakes(f, After(f, reader[f].asks, reader[f].stale))
    /\ UNCHANGED <<instant, cached, locks, semaphores, editor, bounded>>

\* The merged answers are returned, or the request is abandoned.
EndTitle(f) ==
    /\ ReaderIs(f, "title") \/ ReaderIs(f, "asking") \/ ReaderIs(f, "answered")
    /\ ReaderTakes(f, IdleReader)
    /\ UNCHANGED <<instant, settings, cached, locks, semaphores, editor, bounded>>

-----------------------------------------------------------------------------
(* A collection                                                            *)

Holder(n) == semaphores[n].holder

\* The lock of the language and the edition is made, or one more uses it.
QueueForCollection(f) ==
    /\ Begins(f)
    /\ InUse(settings[Tmdb])
    /\ \E client \in Languages, cachedOnly \in BOOLEAN :
          LET used == settings[Tmdb]
              key == <<AskedOf(Tmdb, used, client), used.updated>>
              n == IF key \in DOMAIN locks THEN locks[key]
                   ELSE CHOOSE m \in 1 .. Cardinality(Readers) : m \notin DOMAIN semaphores
              users == IF key \in DOMAIN locks THEN semaphores[n].users ELSE 0
              holder == IF key \in DOMAIN locks THEN Holder(n) ELSE Unset
          IN  /\ locks' = With(locks, key, n)
              /\ semaphores' = With(semaphores, n, [users |-> users + 1, holder |-> holder])
              /\ ReaderTakes(f, [doing |-> "queued", client |-> client, used |-> used,
                           cachedOnly |-> cachedOnly, lock |-> key, semaphore |-> n])
    /\ UNCHANGED <<instant, settings, cached, editor, edits, editions>>

\* Mutant: the lock is forgotten while others wait for it.
ForgottenByAny(n) == TRUE

\* The lock is forgotten by the last that uses it.
Forgotten(n) == semaphores[n].users = 1

\* The permit is given back, or the place in the queue given up.
Leaves(f) ==
    LET n == reader[f].semaphore
        key == reader[f].lock
        holder == IF Holder(n) = f THEN Unset ELSE Holder(n)
    IN  /\ semaphores' = IF semaphores[n].users = 1
                         THEN Restrict(semaphores, DOMAIN semaphores \ {n})
                         ELSE [semaphores EXCEPT ![n] = [users |-> @.users - 1, holder |-> holder]]
        /\ locks' = IF Forgotten(n) /\ key \in DOMAIN locks /\ locks[key] = n
                    THEN Restrict(locks, DOMAIN locks \ {key}) ELSE locks
        /\ ReaderTakes(f, IdleReader)

CollectionKey(f) == Key(Tmdb, "collection", reader[f].used, reader[f].client)

\* With the permit, the cache is looked at again.
TakePermit(f) ==
    /\ ReaderIs(f, "queued") /\ Holder(reader[f].semaphore) = Unset
    /\ LET fresh == Usable(CollectionKey(f), reader[f].used, TRUE)
       IN  \/ (fresh \/ reader[f].cachedOnly) /\ Leaves(f)
           \/ /\ ~fresh /\ ~reader[f].cachedOnly
              /\ semaphores' = [semaphores EXCEPT ![reader[f].semaphore].holder = f]
              /\ ReaderTakes(f, [reader[f] EXCEPT !.doing = "requesting"])
              /\ UNCHANGED locks
    /\ UNCHANGED <<instant, settings, cached, editor, bounded>>

\* The collection is found or not; an answer that makes no sense is not kept.
CollectionAnswers(f) ==
    /\ ReaderIs(f, "requesting")
    /\ \/ \E found \in BOOLEAN :
             WriteExternal(CollectionKey(f),
                           Entry(AskedOf(Tmdb, reader[f].used, reader[f].client), found))
       \/ UNCHANGED cached
    /\ Leaves(f)
    /\ UNCHANGED <<instant, settings, editor, bounded>>

CollectionFails(f) ==
    /\ ReaderIs(f, "requesting")
    /\ Judge(Tmdb, reader[f].used, "degraded")
    /\ Leaves(f)
    /\ UNCHANGED <<instant, cached, editor, bounded>>

\* The fiber is interrupted; what it uses is given back all the same.
AbandonCollection(f) ==
    /\ ReaderIs(f, "queued") \/ ReaderIs(f, "requesting")
    /\ Leaves(f)
    /\ UNCHANGED <<instant, settings, cached, editor, bounded>>

-----------------------------------------------------------------------------

Pass == instant < MaxInstant /\ instant' = instant + 1
        /\ UNCHANGED <<settings, cached, locks, semaphores, editor, reader, bounded>>

MetadataInit ==
    /\ instant = 1
    /\ settings = [p \in Providers |-> Initially]
    /\ cached = <<>> /\ locks = <<>> /\ semaphores = <<>>
    /\ editor = [e \in Editors |-> IdleReader]
    /\ reader = [f \in Readers |-> IdleReader]
    /\ edits = 0 /\ asked = 0 /\ editions = {}

MetadataNext ==
    \/ \E e \in Editors : BeginSettingsEdit(e) \/ FinishEdit(e)
    \/ \E f \in Readers :
          \/ BeginTitle(f) \/ TakeCached(f) \/ AskTitle(f) \/ TitleAnswers(f)
          \/ TitleAnswered(f) \/ TitleFails(f) \/ EndTitle(f)
          \/ QueueForCollection(f) \/ TakePermit(f) \/ CollectionAnswers(f)
          \/ CollectionFails(f) \/ AbandonCollection(f)
    \/ Pass

MetadataSpec == MetadataInit /\ [][MetadataNext]_metadataVars

-----------------------------------------------------------------------------
(* Properties                                                              *)

\* However readers wait, give up and come back, TMDB is asked for a collection
\* once at a time in a language and under an edition of the settings
\* (collectionLocks in readTmdbCollection).
OneRequestPerCollection ==
    \A f, g \in Readers :
        f # g /\ ReaderIs(f, "requesting") /\ ReaderIs(g, "requesting")
            => reader[f].lock # reader[g].lock

\* The reader has asked the provider with the credential, and not yet told how it went.
AskedWith(f, p, credential) ==
    \/ /\ ReaderIs(f, "asking") \/ ReaderIs(f, "answered")
       /\ reader[f].asks = p /\ reader[f].plan[p].credential = credential
    \/ /\ ReaderIs(f, "requesting") /\ p = Tmdb
       /\ reader[f].used.credential = credential

\* Two edits stored different credentials of a provider under one time.
StoredTwice(p, at) ==
    \E c, d \in Credentials : c # d /\ {<<p, at, c>>, <<p, at, d>>} \subseteq editions

\* The answer to a request says something of the credential it was made with and of no
\* other: a provider's status changes, but for an edit, only while it has a credential,
\* and by a reader that asked with that one. The exception is what the code does: two
\* edits in one millisecond are taken for one (updateMetadataProviderStatus). An edit
\* that replaces the credential of a degraded provider leaves it degraded.
VerdictsFitCredentials ==
    [][\A p \in Providers :
          settings'[p].status # settings[p].status /\ editor' = editor =>
             /\ settings[p].credential # Unset
             /\ \/ StoredTwice(p, settings[p].updated)
                \/ \E f \in Readers :
                      reader'[f] # reader[f] /\ AskedWith(f, p, settings[p].credential)]_metadataVars
=============================================================================
