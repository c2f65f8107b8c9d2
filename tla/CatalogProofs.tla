----------------------------- MODULE CatalogProofs -----------------------------
(***************************************************************************)
(* The catalogue: the settings of the metadata providers and the locks of  *)
(* the collections, the collections and the evidence that is in them, and  *)
(* the media versions of a title, for any number of editors, readers,      *)
(* sources, movies, box sets, openings, places and items; and the          *)
(* canonicals that resolutions of items make and merge on both storages.   *)
(***************************************************************************)
EXTENDS Metadata, Collections, Details, Identity, FiniteSetTheorems,
        SequenceTheorems, WellFoundedInduction, TLAPS

-----------------------------------------------------------------------------
(* The settings                                                            *)

\* A row of the settings, whose credential was stored with the time it has.
Stored(p, s) ==
    /\ s \in Settings
    /\ s.credential # Unset => <<p, s.updated, s.credential>> \in editions

\* The rows, and the copies that edits under way will write from.
SettingsOK ==
    /\ instant \in Nat
    /\ settings \in [Providers -> Settings]
    /\ \A p \in Providers : Stored(p, settings[p])
    /\ DOMAIN editor = Editors
    /\ \A e \in Editors : editor[e] # IdleReader =>
          editor[e].current \in [Providers -> Settings] /\ editor[e].at \in Nat

\* A reader asks with rows that were stored.
AsksWithStored(r) ==
    /\ "doing" \in DOMAIN r
    /\ r.doing \in {"title", "asking", "answered"} =>
          /\ {"plan", "shown"} \subseteq DOMAIN r
          /\ DOMAIN r.plan \subseteq Providers
          /\ \A p \in DOMAIN r.plan : Stored(p, r.plan[p])
    /\ r.doing \in {"asking", "answered"} =>
          {"asks", "stale"} \subseteq DOMAIN r /\ r.asks \in DOMAIN r.plan
    /\ r.doing \in {"queued", "requesting"} =>
          "used" \in DOMAIN r /\ Stored(Tmdb, r.used)

ReadersAsk ==
    /\ DOMAIN reader = Readers
    /\ \A f \in Readers : AsksWithStored(reader[f])

VerdictInv == SettingsOK /\ ReadersAsk

LEMMA VerdictInit == MetadataInit => VerdictInv
<1> SUFFICES ASSUME MetadataInit PROVE VerdictInv
  OBVIOUS
<1>1. settings = [p \in Providers |-> Initially] /\ Initially \in Settings
      /\ Initially.credential = Unset
  BY DEF MetadataInit, Initially, Settings
<1>2. SettingsOK
  BY <1>1 DEF MetadataInit, SettingsOK, Stored
<1>3. ReadersAsk
  BY DEF MetadataInit, ReadersAsk, AsksWithStored, IdleReader
<1> QED
  BY <1>2, <1>3 DEF VerdictInv

\* What an edit writes of a provider.
LEMMA EditedFits ==
    ASSUME NEW previous \in Settings, NEW input \in Inputs, NEW at \in Nat
    PROVE  Edited(previous, input, at) \in Settings
<1> DEFINE credential == IF input.patch = "preserve" THEN previous.credential
                         ELSE input.patch
           status == CASE credential = Unset -> "unconfigured"
                       [] credential # Unset /\ previous.status = "degraded" -> "degraded"
                       [] OTHER -> "ready"
<1>1. credential \in Credentials \cup {Unset}
  BY DEF Settings, Inputs
<1>2. status \in {"unconfigured", "ready", "degraded"}
  OBVIOUS
<1>3. Edited(previous, input, at) =
        [enabled |-> input.enabled, language |-> input.language,
         credential |-> credential, status |-> status, updated |-> at]
  BY DEF Edited
<1>4. input.enabled \in BOOLEAN /\ input.language \in Configured \cup {Unset}
  BY DEF Inputs
<1> HIDE DEF credential, status
<1> QED
  BY <1>1, <1>2, <1>3, <1>4 DEF Settings

\* What was stored remains so.
LEMMA StoredStays ==
    ASSUME NEW p, NEW s, Stored(p, s), editions \subseteq editions'
    PROVE  Stored(p, s)'
  BY DEF Stored

LEMMA ReadersStay ==
    ASSUME ReadersAsk, editions \subseteq editions', UNCHANGED reader
    PROVE  ReadersAsk'
  BY StoredStays DEF ReadersAsk, AsksWithStored

\* An edit stores both rows, and remembers what it has stored.
LEMMA EditsKeepVerdicts ==
    ASSUME VerdictInv, NEW e \in Editors, FinishEdit(e)
    PROVE  VerdictInv'
<1> DEFINE current == editor[e].current
           at == editor[e].at
<1>1. PICK input \in [Providers -> Inputs] :
         settings' = [p \in Providers |-> Edited(current[p], input[p], at)]
  BY DEF FinishEdit
<1>2. /\ current \in [Providers -> Settings] /\ at \in Nat
      /\ UNCHANGED <<instant, reader>>
      /\ editor' = [editor EXCEPT ![e] = IdleReader]
      /\ editions' = editions \cup
            {<<p, settings'[p].updated, settings'[p].credential>> : p \in Providers}
  BY DEF FinishEdit, VerdictInv, SettingsOK
<1>3. ASSUME NEW p \in Providers PROVE settings'[p] \in Settings
  <2>1. current[p] \in Settings /\ input[p] \in Inputs
    BY <1>1, <1>2
  <2>2. settings'[p] = Edited(current[p], input[p], at)
    BY <1>1
  <2> HIDE DEF current, at
  <2> QED
    BY <1>2, <2>1, <2>2, EditedFits
<1>4. settings' \in [Providers -> Settings]
  BY <1>1, <1>3
<1>5. ASSUME NEW p \in Providers PROVE Stored(p, settings[p])'
  BY <1>2, <1>3 DEF Stored
<1>6. SettingsOK'
  BY <1>2, <1>4, <1>5 DEF VerdictInv, SettingsOK
<1>7. ReadersAsk'
  BY <1>2, ReadersStay DEF VerdictInv
<1> QED
  BY <1>6, <1>7 DEF VerdictInv

\* The end of an attempt changes the status of the row it was made with.
LEMMA JudgeFits ==
    ASSUME SettingsOK, NEW p \in Providers, NEW used, NEW status \in {"ready", "degraded"},
           Judge(p, used, status), UNCHANGED <<instant, editor, editions>>
    PROVE  SettingsOK'
<1>1. CASE settings' = settings
  BY <1>1 DEF SettingsOK, Stored
<1>2. CASE settings' = [settings EXCEPT ![p].status = status]
  <2>1. ASSUME NEW q \in Providers
        PROVE  /\ settings'[q] \in Settings
               /\ settings'[q].updated = settings[q].updated
               /\ settings'[q].credential = settings[q].credential
    <3>1. settings[q] \in Settings
      BY DEF SettingsOK
    <3>2. settings'[q] = IF q = p THEN [settings[q] EXCEPT !.status = status] ELSE settings[q]
      BY <1>2 DEF SettingsOK
    <3> QED
      BY <3>1, <3>2 DEF Settings
  <2>2. settings' \in [Providers -> Settings]
    BY <1>2, <2>1 DEF SettingsOK
  <2>3. ASSUME NEW q \in Providers PROVE Stored(q, settings[q])'
    BY <2>1 DEF SettingsOK, Stored
  <2> QED
    BY <2>2, <2>3 DEF SettingsOK
<1> QED
  BY <1>1, <1>2 DEF Judge

\* One reader goes on, and what it asks with next was stored.
LEMMA ReaderStep ==
    ASSUME ReadersAsk, NEW f \in Readers, NEW next, AsksWithStored(next),
           ReaderTakes(f, next), UNCHANGED editions
    PROVE  ReadersAsk'
<1>1. ASSUME NEW r, AsksWithStored(r) PROVE AsksWithStored(r)'
  BY <1>1 DEF AsksWithStored, Stored
<1>2. ASSUME NEW g \in Readers PROVE AsksWithStored(reader[g])'
  BY <1>1 DEF ReadersAsk, ReaderTakes
<1> QED
  BY <1>2 DEF ReadersAsk, ReaderTakes

\* The reader goes on without the provider that answered.
LEMMA AfterAsks ==
    ASSUME ReadersAsk, NEW f \in Readers, NEW p, NEW answers,
           reader[f].doing \in {"title", "asking", "answered"}
    PROVE  AsksWithStored(After(f, p, answers))
<1>1. AsksWithStored(reader[f])
  BY DEF ReadersAsk
<1>2. /\ DOMAIN Restrict(reader[f].plan, DOMAIN reader[f].plan \ {p}) \subseteq DOMAIN reader[f].plan
      /\ \A q \in DOMAIN Restrict(reader[f].plan, DOMAIN reader[f].plan \ {p}) :
            Restrict(reader[f].plan, DOMAIN reader[f].plan \ {p})[q] = reader[f].plan[q]
  BY DEF Restrict
<1> DEFINE plan == Restrict(reader[f].plan, DOMAIN reader[f].plan \ {p})
           shown == reader[f].shown \cup
               {[provider |-> p, used |-> reader[f].plan[p], language |-> a.language] :
                   a \in {x \in answers : x.found}}
<1>3. After(f, p, answers) =
        [doing |-> "title", client |-> reader[f].client, cachedOnly |-> reader[f].cachedOnly,
         plan |-> plan, shown |-> shown]
  BY DEF After
<1>4. DOMAIN plan \subseteq Providers /\ \A q \in DOMAIN plan : Stored(q, plan[q])
  BY <1>1, <1>2 DEF AsksWithStored
<1> HIDE DEF plan, shown
<1> QED
  BY <1>3, <1>4 DEF AsksWithStored

\* The steps of a title.
LEMMA TitlesKeepVerdicts ==
    ASSUME VerdictInv, NEW f \in Readers,
           \/ BeginTitle(f) \/ TakeCached(f) \/ AskTitle(f) \/ TitleAnswers(f)
           \/ TitleAnswered(f) \/ TitleFails(f) \/ EndTitle(f)
    PROVE  VerdictInv'
<1> USE DEF VerdictInv
<1>r. AsksWithStored(reader[f])
  BY DEF ReadersAsk
<1>i. AsksWithStored(IdleReader)
  BY DEF AsksWithStored, IdleReader
<1>1. CASE BeginTitle(f)
  <2> DEFINE plan == Restrict(settings, {p \in Providers : InUse(settings[p])})
  <2>1. PICK client \in Languages, cachedOnly \in BOOLEAN :
           ReaderTakes(f, [doing |-> "title", client |-> client, cachedOnly |-> cachedOnly,
                           shown |-> {}, plan |-> plan])
    BY <1>1 DEF BeginTitle
  <2>2. DOMAIN plan \subseteq Providers /\ \A p \in DOMAIN plan : Stored(p, plan[p])
    BY DEF SettingsOK, Restrict
  <2>3. AsksWithStored([doing |-> "title", client |-> client, cachedOnly |-> cachedOnly,
                        shown |-> {}, plan |-> plan])
    <3> HIDE DEF plan
    <3> QED
      BY <2>2 DEF AsksWithStored
  <2>4. UNCHANGED <<instant, settings, editor, editions>>
    BY <1>1 DEF BeginTitle
  <2> HIDE DEF plan
  <2> QED
    BY <2>1, <2>3, <2>4, ReaderStep DEF SettingsOK, Stored
<1>2. CASE TakeCached(f)
  <2>1. PICK p, answers : ReaderTakes(f, After(f, p, answers))
    BY <1>2 DEF TakeCached
  <2>2. AsksWithStored(After(f, p, answers))
    BY <1>2, AfterAsks DEF TakeCached, ReaderIs
  <2>3. UNCHANGED <<instant, settings, editor, editions>>
    BY <1>2 DEF TakeCached, bounded
  <2> QED
    BY <2>1, <2>2, <2>3, ReaderStep DEF SettingsOK, Stored
<1>3. CASE AskTitle(f)
  <2>1. PICK p, stale :
           /\ p \in DOMAIN reader[f].plan
           /\ ReaderTakes(f, [doing |-> "asking", client |-> reader[f].client,
                              cachedOnly |-> FALSE, shown |-> reader[f].shown,
                              plan |-> reader[f].plan, asks |-> p, stale |-> stale])
    BY <1>3 DEF AskTitle
  <2>2. AsksWithStored([doing |-> "asking", client |-> reader[f].client,
                        cachedOnly |-> FALSE, shown |-> reader[f].shown,
                        plan |-> reader[f].plan, asks |-> p, stale |-> stale])
    <3>1. p \in DOMAIN reader[f].plan
      BY <2>1
    <3> QED
      BY <1>3, <1>r, <3>1 DEF AskTitle, ReaderIs, AsksWithStored
  <2>3. UNCHANGED <<instant, settings, editor, editions>>
    BY <1>3 DEF AskTitle, bounded
  <2> QED
    BY <2>1, <2>2, <2>3, ReaderStep DEF SettingsOK, Stored
<1>4. CASE TitleAnswers(f)
  <2>1. PICK entries : ReaderTakes(f, [reader[f] EXCEPT !.doing = "answered", !.stale = entries])
    BY <1>4 DEF TitleAnswers
  <2>2. AsksWithStored([reader[f] EXCEPT !.doing = "answered", !.stale = entries])
    BY <1>4, <1>r DEF TitleAnswers, ReaderIs, AsksWithStored
  <2>3. UNCHANGED <<instant, settings, editor, editions>>
    BY <1>4 DEF TitleAnswers, bounded
  <2> QED
    BY <2>1, <2>2, <2>3, ReaderStep DEF SettingsOK, Stored
<1>5. CASE TitleAnswered(f) \/ TitleFails(f)
  <2> DEFINE p == reader[f].asks
  <2>1. /\ ReaderTakes(f, After(f, p, reader[f].stale))
        /\ reader[f].doing \in {"asking", "answered"}
        /\ UNCHANGED <<instant, editor, editions>>
    BY <1>5 DEF TitleAnswered, TitleFails, bounded, ReaderIs
  <2>2. PICK status \in {"ready", "degraded"} : Judge(p, reader[f].plan[p], status)
    BY <1>5 DEF TitleAnswered, TitleFails
  <2>3. p \in Providers
    BY <1>r, <2>1 DEF AsksWithStored
  <2> HIDE DEF p
  <2>4. SettingsOK'
    BY <2>1, <2>2, <2>3, JudgeFits
  <2>5. ReadersAsk'
    BY <2>1, AfterAsks, ReaderStep
  <2> QED
    BY <2>4, <2>5
<1>6. CASE EndTitle(f)
  <2>1. ReaderTakes(f, IdleReader) /\ UNCHANGED <<instant, settings, editor, editions>>
    BY <1>6 DEF EndTitle, bounded
  <2> QED
    BY <1>i, <2>1, ReaderStep DEF SettingsOK, Stored
<1> QED
  BY <1>1, <1>2, <1>3, <1>4, <1>5, <1>6

\* The steps of a collection.
LEMMA CollectionReadersKeepVerdicts ==
    ASSUME VerdictInv, NEW f \in Readers,
           \/ QueueForCollection(f) \/ TakePermit(f) \/ CollectionAnswers(f)
           \/ CollectionFails(f) \/ AbandonCollection(f)
    PROVE  VerdictInv'
<1> USE DEF VerdictInv
<1>r. AsksWithStored(reader[f])
  BY DEF ReadersAsk
<1>i. AsksWithStored(IdleReader)
  BY DEF AsksWithStored, IdleReader
<1>1. CASE QueueForCollection(f)
  <2>1. PICK client, cachedOnly, key, n :
           ReaderTakes(f, [doing |-> "queued", client |-> client, used |-> settings[Tmdb],
                           cachedOnly |-> cachedOnly, lock |-> key, semaphore |-> n])
    BY <1>1 DEF QueueForCollection
  <2>2. Stored(Tmdb, settings[Tmdb])
    BY TmdbAssumption DEF SettingsOK
  <2>3. AsksWithStored([doing |-> "queued", client |-> client, used |-> settings[Tmdb],
                        cachedOnly |-> cachedOnly, lock |-> key, semaphore |-> n])
    BY <2>2 DEF AsksWithStored
  <2>4. UNCHANGED <<instant, settings, editor, editions>>
    BY <1>1 DEF QueueForCollection
  <2> QED
    BY <2>1, <2>3, <2>4, ReaderStep DEF SettingsOK, Stored
<1>2. CASE TakePermit(f)
  <2>1. \/ ReaderTakes(f, IdleReader)
        \/ ReaderTakes(f, [reader[f] EXCEPT !.doing = "requesting"])
    BY <1>2 DEF TakePermit, Leaves
  <2>2. AsksWithStored([reader[f] EXCEPT !.doing = "requesting"])
    BY <1>2, <1>r DEF TakePermit, ReaderIs, AsksWithStored
  <2>3. UNCHANGED <<instant, settings, editor, editions>>
    BY <1>2 DEF TakePermit, bounded
  <2>4. ReadersAsk'
    BY <1>i, <2>1, <2>2, <2>3, ReaderStep
  <2> QED
    BY <2>3, <2>4 DEF SettingsOK, Stored
<1>3. CASE CollectionAnswers(f) \/ AbandonCollection(f)
  <2>1. ReaderTakes(f, IdleReader) /\ UNCHANGED <<instant, settings, editor, editions>>
    BY <1>3 DEF CollectionAnswers, AbandonCollection, Leaves, bounded
  <2> QED
    BY <1>i, <2>1, ReaderStep DEF SettingsOK, Stored
<1>4. CASE CollectionFails(f)
  <2>1. ReaderTakes(f, IdleReader) /\ UNCHANGED <<instant, editor, editions>>
    BY <1>4 DEF CollectionFails, Leaves, bounded
  <2>2. SettingsOK'
    BY <1>4, <2>1, TmdbAssumption, JudgeFits DEF CollectionFails
  <2> QED
    BY <1>i, <2>1, <2>2, ReaderStep
<1> QED
  BY <1>1, <1>2, <1>3, <1>4

\* Only edits and ends of attempts change the settings.
LEMMA VerdictNext == VerdictInv /\ [MetadataNext]_metadataVars => VerdictInv'
<1> SUFFICES ASSUME VerdictInv, [MetadataNext]_metadataVars
             PROVE  VerdictInv'
  OBVIOUS
<1>1. ASSUME NEW e \in Editors, BeginSettingsEdit(e) PROVE VerdictInv'
  <2>1. /\ UNCHANGED <<instant, settings, reader, editions>>
        /\ editor' = [editor EXCEPT ![e] = [doing |-> "edit", current |-> settings, at |-> instant]]
    BY <1>1 DEF BeginSettingsEdit
  <2>2. SettingsOK'
    BY <2>1 DEF VerdictInv, SettingsOK, Stored, IdleReader
  <2> QED
    BY <2>1, <2>2, ReadersStay DEF VerdictInv
<1>2. CASE Pass
  <2>1. UNCHANGED <<settings, editor, reader, editions>> /\ instant' = instant + 1
    BY <1>2 DEF Pass, bounded
  <2>2. SettingsOK'
    BY <2>1 DEF VerdictInv, SettingsOK, Stored
  <2> QED
    BY <2>1, <2>2, ReadersStay DEF VerdictInv
<1>3. CASE UNCHANGED metadataVars
  BY <1>3 DEF metadataVars, VerdictInv, SettingsOK, ReadersAsk, AsksWithStored, Stored
<1> QED
  BY <1>1, <1>2, <1>3, EditsKeepVerdicts, TitlesKeepVerdicts,
     CollectionReadersKeepVerdicts DEF MetadataNext

\* Of two rows of a provider with one time, either both have one credential or two edits
\* stored different ones.
LEMMA OneTimeOneCredential ==
    ASSUME NEW p, NEW s, NEW t, Stored(p, s), Stored(p, t), s.updated = t.updated,
           s.credential # Unset, t.credential # Unset
    PROVE  s.credential = t.credential \/ StoredTwice(p, s.updated)
  BY DEF Stored, StoredTwice, Settings

\* A judgement is made of the row with the time of the one that was used.
LEMMA VerdictsOfReaders ==
    ASSUME VerdictInv, NEW f \in Readers, NEW p \in Providers, NEW used, NEW status,
           Stored(p, used), AskedWith(f, p, used.credential), reader'[f] # reader[f],
           Judge(p, used, status), settings' # settings
    PROVE  /\ settings[p].credential # Unset
           /\ \A q \in Providers : settings'[q].status # settings[q].status => q = p
           /\ \/ StoredTwice(p, settings[p].updated)
              \/ \E g \in Readers :
                    reader'[g] # reader[g] /\ AskedWith(g, p, settings[p].credential)
<1>1. /\ used.credential # Unset /\ settings[p].updated = used.updated
      /\ settings[p].credential # Unset
      /\ settings' = [settings EXCEPT ![p].status = status]
  BY DEF Judge, Judges
<1>2. \A q \in Providers : settings'[q].status # settings[q].status => q = p
  BY <1>1 DEF VerdictInv, SettingsOK
<1>3. Stored(p, settings[p])
  BY DEF VerdictInv, SettingsOK
<1> QED
  BY <1>1, <1>2, <1>3, OneTimeOneCredential

\* The answer to a request says something of the credential it was made with and of no
\* other, unless two edits stored different ones in one millisecond
\* (updateMetadataProviderStatus).
THEOREM VerdictsFit == MetadataSpec => VerdictsFitCredentials
<1> DEFINE P(p) ==
        settings'[p].status # settings[p].status /\ editor' = editor =>
           /\ settings[p].credential # Unset
           /\ \/ StoredTwice(p, settings[p].updated)
              \/ \E f \in Readers :
                    reader'[f] # reader[f] /\ AskedWith(f, p, settings[p].credential)
<1>1. ASSUME VerdictInv, [MetadataNext]_metadataVars, NEW p \in Providers PROVE P(p)
  <2> SUFFICES ASSUME settings'[p].status # settings[p].status, editor' = editor
               PROVE  /\ settings[p].credential # Unset
                      /\ \/ StoredTwice(p, settings[p].updated)
                         \/ \E f \in Readers :
                               reader'[f] # reader[f] /\ AskedWith(f, p, settings[p].credential)
    OBVIOUS
  <2>1. PICK f \in Readers : TitleAnswered(f) \/ TitleFails(f) \/ CollectionFails(f)
    <3>1. ASSUME NEW e \in Editors, FinishEdit(e) PROVE FALSE
      BY <1>1, <3>1 DEF FinishEdit, VerdictInv, SettingsOK
    <3>2. settings' # settings
      OBVIOUS
    <3> QED
      BY <1>1, <3>1, <3>2 DEF MetadataNext, metadataVars, BeginSettingsEdit, BeginTitle,
         TakeCached, AskTitle, TitleAnswers, EndTitle, QueueForCollection, TakePermit,
         CollectionAnswers, AbandonCollection, Pass
  <2>2. AsksWithStored(reader[f]) /\ DOMAIN reader = Readers
    BY <1>1 DEF VerdictInv, ReadersAsk
  <2>3. CASE TitleAnswered(f) \/ TitleFails(f)
    <3> DEFINE q == reader[f].asks
               used == reader[f].plan[q]
    <3>1. reader[f].doing \in {"asking", "answered"}
      BY <2>3 DEF TitleAnswered, TitleFails, ReaderIs
    <3>2. PICK status \in {"ready", "degraded"} : Judge(q, used, status)
      BY <2>3 DEF TitleAnswered, TitleFails
    <3>3. q \in Providers /\ Stored(q, used)
      BY <2>2, <3>1 DEF AsksWithStored
    <3>4. AskedWith(f, q, used.credential)
      BY <3>1 DEF AskedWith, ReaderIs
    <3>5. reader'[f] # reader[f]
      <4>1. reader'[f] = After(f, q, reader[f].stale)
        BY <2>2, <2>3 DEF TitleAnswered, TitleFails, ReaderTakes
      <4>2. reader'[f].doing = "title"
        BY <4>1 DEF After
      <4> QED
        BY <3>1, <4>2
    <3> HIDE DEF q, used
    <3> QED
      BY <1>1, <3>2, <3>3, <3>4, <3>5, VerdictsOfReaders
  <2>4. CASE CollectionFails(f)
    <3> DEFINE used == reader[f].used
    <3>1. reader[f].doing = "requesting" /\ Judge(Tmdb, used, "degraded")
      BY <2>4 DEF CollectionFails, ReaderIs
    <3>2. Tmdb \in Providers /\ Stored(Tmdb, used)
      BY <2>2, <3>1, TmdbAssumption DEF AsksWithStored
    <3>3. AskedWith(f, Tmdb, used.credential)
      BY <3>1 DEF AskedWith, ReaderIs
    <3>4. reader'[f] # reader[f]
      <4>1. reader'[f] = IdleReader
        BY <2>2, <2>4 DEF CollectionFails, Leaves, ReaderTakes
      <4> QED
        BY <3>1, <4>1 DEF IdleReader
    <3> HIDE DEF used
    <3> QED
      BY <1>1, <3>1, <3>2, <3>3, <3>4, VerdictsOfReaders
  <2> QED
    BY <2>1, <2>3, <2>4
<1>2. VerdictInv /\ [MetadataNext]_metadataVars => \A p \in Providers : P(p)
  BY <1>1
<1>3. VerdictInv /\ [MetadataNext]_metadataVars =>
        [\A p \in Providers :
          settings'[p].status # settings[p].status /\ editor' = editor =>
             /\ settings[p].credential # Unset
             /\ \/ StoredTwice(p, settings[p].updated)
                \/ \E f \in Readers :
                      reader'[f] # reader[f] /\ AskedWith(f, p, settings[p].credential)]_metadataVars
  BY <1>2
<1> QED
  BY <1>3, VerdictInit, VerdictNext, PTL DEF MetadataSpec, VerdictsFitCredentials

-----------------------------------------------------------------------------
(* The locks of the collections                                            *)

\* A reader that uses a lock, with its permit or in the queue for it.
Waits(f) == reader[f].doing \in {"queued", "requesting"}

Waiting(n) == {f \in Readers : Waits(f) /\ reader[f].semaphore = n}

\* What a reader that uses a lock remembers of it.
ReadersHold ==
    /\ DOMAIN reader = Readers
    /\ \A f \in Readers :
          /\ "doing" \in DOMAIN reader[f]
          /\ reader[f] = [x \in DOMAIN reader[f] |-> reader[f][x]]
          /\ Waits(f) =>
                /\ {"lock", "semaphore"} \subseteq DOMAIN reader[f]
                /\ reader[f].semaphore \in DOMAIN semaphores
                /\ reader[f].lock \in DOMAIN locks
                /\ locks[reader[f].lock] = reader[f].semaphore
          /\ ReaderIs(f, "requesting") => Holder(reader[f].semaphore) = f

\* Users are counted, and no two locks share a semaphore.
LocksCount ==
    /\ \A n \in DOMAIN semaphores :
          /\ semaphores[n] = [users |-> Cardinality(Waiting(n)), holder |-> Holder(n)]
          /\ Waiting(n) # {}
    /\ \A k \in DOMAIN locks : locks[k] \in DOMAIN semaphores
    /\ \A k, l \in DOMAIN locks : locks[k] = locks[l] => k = l

LockInv == ReadersHold /\ LocksCount

LEMMA LockInit == MetadataInit => LockInv
  BY DEF MetadataInit, LockInv, ReadersHold, LocksCount, IdleReader, Waits,
         ReaderIs

\* Those who wait are few.
LEMMA WaitingIsFinite ==
    ASSUME NEW n
    PROVE  IsFiniteSet(Waiting(n)) /\ Cardinality(Waiting(n)) \in Nat
<1>1. Waiting(n) \in SUBSET Readers
  BY DEF Waiting
<1> QED
  BY <1>1, ReadersAssumption, FS_Subset, FS_CardinalityType

\* There is a semaphore for one more reader.
LEMMA SemaphoreIsLeft ==
    ASSUME LocksCount, NEW f \in Readers, ~Waits(f)
    PROVE  \E m \in 1 .. Cardinality(Readers) : m \notin DOMAIN semaphores
<1> SUFFICES ASSUME 1 .. Cardinality(Readers) \subseteq DOMAIN semaphores
             PROVE  FALSE
  OBVIOUS
<1> DEFINE most == Cardinality(Readers)
           rest == Readers \ {f}
           one == [n \in 1 .. most |-> CHOOSE g \in Readers : g \in Waiting(n)]
<1>1. most \in Nat /\ IsFiniteSet(rest) /\ Cardinality(rest) = most - 1
  BY ReadersAssumption, FS_CardinalityType, FS_RemoveElement
<1>2. IsFiniteSet(1 .. most) /\ Cardinality(1 .. most) = most
  BY <1>1, FS_Interval
<1>3. ASSUME NEW n \in 1 .. most
      PROVE  one[n] \in Waiting(n)
  <2>1. \E g \in Readers : g \in Waiting(n)
    BY DEF LocksCount, Waiting
  <2> QED
    BY <2>1
<1>4. one \in [1 .. most -> rest]
  BY <1>3 DEF Waiting
<1> HIDE DEF one, most, rest
<1>5. PICK m, n \in 1 .. most : m # n /\ one[m] = one[n]
  BY <1>1, <1>2, <1>4, FS_PigeonHole
<1> QED
  BY <1>3, <1>5 DEF Waiting

\* A reader that uses no lock may do anything else.
LEMMA Elsewhere ==
    ASSUME LockInv, NEW f \in Readers, ~Waits(f), NEW r,
           ReaderTakes(f, r), r.doing \notin {"queued", "requesting"},
           "doing" \in DOMAIN r, r = [x \in DOMAIN r |-> r[x]],
           UNCHANGED <<locks, semaphores>>
    PROVE  LockInv'
<1>1. reader' = [reader EXCEPT ![f] = r] /\ DOMAIN reader' = Readers
  BY DEF LockInv, ReadersHold, ReaderTakes
<1>2. \A n : Waiting(n)' = Waiting(n)
  BY <1>1 DEF Waiting, Waits, LockInv, ReadersHold
<1>3. LocksCount'
  BY <1>2 DEF LockInv, LocksCount, Holder
<1>4. ReadersHold'
  BY <1>1 DEF LockInv, ReadersHold, Waits, ReaderIs, Holder
<1> QED
  BY <1>1, <1>3, <1>4 DEF LockInv

\* One more reader waits.
LEMMA QueueLocks ==
    ASSUME LockInv, NEW f \in Readers, QueueForCollection(f)
    PROVE  LockInv'
<1>0. PICK client \in Languages, cachedOnly \in BOOLEAN :
        LET used == settings[Tmdb]
            key == <<AskedOf(Tmdb, used, client), used.updated>>
            n == IF key \in DOMAIN locks THEN locks[key]
                 ELSE CHOOSE m \in 1 .. Cardinality(Readers) : m \notin DOMAIN semaphores
            users == IF key \in DOMAIN locks THEN semaphores[n].users ELSE 0
            holder == IF key \in DOMAIN locks THEN Holder(n) ELSE Unset
        IN  /\ locks' = With(locks, key, n)
            /\ semaphores' = With(semaphores, n, [users |-> users + 1, holder |-> holder])
            /\ ReaderTakes(f, [doing |-> "queued", client |-> client, used |-> used,
                         cachedOnly |-> cachedOnly, lock |-> key, semaphore |-> n])
  BY DEF QueueForCollection
<1>2. ~Waits(f)
  BY DEF QueueForCollection, Begins, ReaderIs, Waits
<1> PICK used : used = settings[Tmdb]
  OBVIOUS
<1> PICK key : key = <<AskedOf(Tmdb, used, client), used.updated>>
  OBVIOUS
<1>11. PICK n : n = IF key \in DOMAIN locks THEN locks[key]
                    ELSE CHOOSE m \in 1 .. Cardinality(Readers) : m \notin DOMAIN semaphores
  OBVIOUS
<1>12. PICK users : users = IF key \in DOMAIN locks THEN semaphores[n].users ELSE 0
  OBVIOUS
<1>13. PICK holder : holder = IF key \in DOMAIN locks THEN Holder(n) ELSE Unset
  OBVIOUS
<1>14. PICK r : r = [doing |-> "queued", client |-> client, used |-> used,
                     cachedOnly |-> cachedOnly, lock |-> key, semaphore |-> n]
  OBVIOUS
<1>1. /\ key \notin DOMAIN locks => n \notin DOMAIN semaphores
      /\ key \in DOMAIN locks => n = locks[key]
      /\ locks' = With(locks, key, n)
      /\ semaphores' = With(semaphores, n, [users |-> users + 1, holder |-> holder])
      /\ reader' = [reader EXCEPT ![f] = r]
      /\ r.doing = "queued" /\ r.lock = key /\ r.semaphore = n
      /\ {"doing", "lock", "semaphore"} \subseteq DOMAIN r
      /\ r = [x \in DOMAIN r |-> r[x]]
  <2>1. key \notin DOMAIN locks => n \notin DOMAIN semaphores
    BY <1>2, <1>11, SemaphoreIsLeft DEF LockInv
  <2>2. /\ locks' = With(locks, key, n)
        /\ semaphores' = With(semaphores, n, [users |-> users + 1, holder |-> holder])
        /\ reader' = [reader EXCEPT ![f] = r]
    BY <1>0, <1>11, <1>12, <1>13, <1>14 DEF ReaderTakes
  <2>3. /\ r.doing = "queued" /\ r.lock = key /\ r.semaphore = n
        /\ {"doing", "lock", "semaphore"} \subseteq DOMAIN r
        /\ r = [x \in DOMAIN r |-> r[x]]
    BY <1>14
  <2> QED
    BY <1>11, <2>1, <2>2, <2>3
<1>3. /\ locks' = [k \in {key} \cup DOMAIN locks |-> IF k = key THEN n ELSE locks[k]]
      /\ semaphores' = [m \in {n} \cup DOMAIN semaphores |->
            IF m = n THEN [users |-> users + 1, holder |-> holder] ELSE semaphores[m]]
  BY <1>1 DEF With
<1>4. key \in DOMAIN locks => n \in DOMAIN semaphores
  BY <1>1 DEF LockInv, LocksCount
<1>5. /\ users = Cardinality(Waiting(n))
      /\ n \in DOMAIN semaphores => holder = Holder(n)
  <2>1. CASE key \in DOMAIN locks
    BY <1>1, <1>12, <1>13, <1>4, <2>1 DEF LockInv, LocksCount
  <2>2. CASE key \notin DOMAIN locks
    <3>1. Waiting(n) = {}
      BY <1>1, <1>12, <1>13, <1>4, <2>2 DEF LockInv, ReadersHold, Waiting
    <3> QED
      BY <1>1, <1>12, <1>13, <1>4, <2>2, <3>1, FS_EmptySet
  <2> QED
    BY <2>1, <2>2
<1>61. DOMAIN reader = Readers
  BY DEF LockInv, ReadersHold
<1>6. reader'[f] = r /\ \A g \in Readers \ {f} : reader'[g] = reader[g]
  BY <1>1, <1>61
<1>7. /\ Waiting(n)' = Waiting(n) \cup {f}
      /\ \A m : m # n => Waiting(m)' = Waiting(m)
  BY <1>1, <1>2, <1>6 DEF Waiting, Waits
<1>8. Cardinality(Waiting(n) \cup {f}) = Cardinality(Waiting(n)) + 1
  <2>1. f \notin Waiting(n)
    BY <1>2 DEF Waiting
  <2> QED
    BY <2>1, WaitingIsFinite, FS_AddElement
<1>9. LocksCount'
  <2>1. ASSUME NEW m \in DOMAIN semaphores'
        PROVE  /\ semaphores'[m] = [users |-> Cardinality(Waiting(m)'), holder |-> Holder(m)']
               /\ Waiting(m)' # {}
    <3>1. CASE m = n
      BY <1>3, <1>5, <1>7, <1>8, <3>1 DEF Holder
    <3>2. CASE m # n
      BY <1>3, <1>7, <3>2 DEF Holder, LockInv, LocksCount
    <3> QED
      BY <3>1, <3>2
  <2>2. \A k \in DOMAIN locks' : locks'[k] \in DOMAIN semaphores'
    BY <1>1, <1>3, <1>4 DEF LockInv, LocksCount
  <2>3. \A k, l \in DOMAIN locks' : locks'[k] = locks'[l] => k = l
    BY <1>1, <1>3, <1>4 DEF LockInv, LocksCount
  <2> QED
    BY <2>1, <2>2, <2>3 DEF LocksCount
<1>10. ReadersHold'
  <2>1. DOMAIN reader' = Readers
    BY <1>1, <1>61
  <2>2. ASSUME NEW g \in Readers
        PROVE  /\ "doing" \in DOMAIN reader'[g]
               /\ reader'[g] = [x \in DOMAIN reader'[g] |-> reader'[g][x]]
               /\ Waits(g)' =>
                     /\ {"lock", "semaphore"} \subseteq DOMAIN reader'[g]
                     /\ reader'[g].semaphore \in DOMAIN semaphores'
                     /\ reader'[g].lock \in DOMAIN locks'
                     /\ locks'[reader'[g].lock] = reader'[g].semaphore
               /\ ReaderIs(g, "requesting")' => Holder(reader[g].semaphore)' = g
    <3>1. CASE g = f
      BY <1>1, <1>3, <1>6, <3>1 DEF ReaderIs
    <3>2. CASE g # f
      <4>1. reader'[g] = reader[g]
        BY <1>6, <3>2
      <4>2. Waits(g) /\ reader[g].lock = key => reader[g].semaphore = n
        BY <1>1, <1>4 DEF LockInv, ReadersHold
      <4>3. \A m \in DOMAIN semaphores : Holder(m)' = Holder(m)
        BY <1>3, <1>5 DEF Holder
      <4>4. ReaderIs(g, "requesting") => Waits(g)
        BY DEF ReaderIs, Waits
      <4> QED
        BY <1>3, <4>1, <4>2, <4>3, <4>4 DEF LockInv, ReadersHold, ReaderIs, Waits
    <3> QED
      BY <3>1, <3>2
  <2> QED
    BY <2>1, <2>2 DEF ReadersHold
<1> QED
  BY <1>9, <1>10 DEF LockInv

\* A reader gives back what it uses, and the last one forgets the lock.
LEMMA LeavesLocks ==
    ASSUME LockInv, NEW f \in Readers, Waits(f), Leaves(f)
    PROVE  LockInv'
<1> PICK n : n = reader[f].semaphore
  OBVIOUS
<1> PICK key : key = reader[f].lock
  OBVIOUS
<1> PICK holder : holder = IF Holder(n) = f THEN Unset ELSE Holder(n)
  OBVIOUS
<1>1. /\ n \in DOMAIN semaphores /\ key \in DOMAIN locks /\ locks[key] = n
      /\ semaphores[n].users = Cardinality(Waiting(n))
      /\ f \in Waiting(n)
      /\ DOMAIN reader = Readers
  BY DEF LockInv, ReadersHold, LocksCount, Waiting
<1>2. /\ semaphores' = IF semaphores[n].users = 1
                       THEN Restrict(semaphores, DOMAIN semaphores \ {n})
                       ELSE [semaphores EXCEPT ![n] = [users |-> @.users - 1, holder |-> holder]]
      /\ locks' = IF semaphores[n].users = 1
                  THEN Restrict(locks, DOMAIN locks \ {key}) ELSE locks
      /\ reader' = [reader EXCEPT ![f] = IdleReader]
  BY <1>1 DEF Leaves, ReaderTakes, Forgotten
<1>3. reader'[f] = IdleReader /\ \A g \in Readers \ {f} : reader'[g] = reader[g]
  BY <1>1, <1>2
<1>4. /\ Waiting(n)' = Waiting(n) \ {f}
      /\ \A m : m # n => Waiting(m)' = Waiting(m)
  BY <1>1, <1>3 DEF Waiting, Waits, IdleReader
<1>5. /\ Cardinality(Waiting(n) \ {f}) = semaphores[n].users - 1
      /\ semaphores[n].users \in Nat
      /\ semaphores[n].users = 1 => Waiting(n) = {f}
      /\ semaphores[n].users # 1 => Waiting(n) \ {f} # {}
  <2>1. Cardinality(Waiting(n) \ {f}) = Cardinality(Waiting(n)) - 1
    BY <1>1, WaitingIsFinite, FS_RemoveElement
  <2>2. IsFiniteSet(Waiting(n) \ {f})
    BY WaitingIsFinite, FS_RemoveElement
  <2>3. Cardinality(Waiting(n) \ {f}) = 0 <=> Waiting(n) \ {f} = {}
    BY <2>2, FS_EmptySet
  <2> QED
    BY <1>1, <2>1, <2>3, WaitingIsFinite
<1>6. CASE semaphores[n].users = 1
  <2>1. /\ semaphores' = [m \in DOMAIN semaphores \ {n} |-> semaphores[m]]
        /\ locks' = [k \in DOMAIN locks \ {key} |-> locks[k]]
    BY <1>2, <1>6 DEF Restrict
  <2>2. ASSUME NEW m \in DOMAIN semaphores'
        PROVE  /\ semaphores'[m] = [users |-> Cardinality(Waiting(m)'), holder |-> Holder(m)']
               /\ Waiting(m)' # {}
    BY <1>4, <2>1 DEF LockInv, LocksCount, Holder
  <2>3. /\ \A k \in DOMAIN locks' : locks'[k] \in DOMAIN semaphores'
        /\ \A k, l \in DOMAIN locks' : locks'[k] = locks'[l] => k = l
    BY <1>1, <2>1 DEF LockInv, LocksCount
  <2>4. ASSUME NEW g \in Readers
        PROVE  /\ "doing" \in DOMAIN reader'[g]
               /\ reader'[g] = [x \in DOMAIN reader'[g] |-> reader'[g][x]]
               /\ Waits(g)' =>
                     /\ {"lock", "semaphore"} \subseteq DOMAIN reader'[g]
                     /\ reader'[g].semaphore \in DOMAIN semaphores'
                     /\ reader'[g].lock \in DOMAIN locks'
                     /\ locks'[reader'[g].lock] = reader'[g].semaphore
               /\ ReaderIs(g, "requesting")' => Holder(reader[g].semaphore)' = g
    <3>1. CASE g = f
      BY <1>3, <3>1 DEF IdleReader, Waits, ReaderIs
    <3>2. CASE g # f
      <4>1. reader'[g] = reader[g]
        BY <1>3, <3>2
      <4>2. Waits(g) => reader[g].semaphore # n /\ reader[g].lock # key
        BY <1>1, <1>5, <1>6, <3>2 DEF Waiting, LockInv, ReadersHold
      <4>3. ReaderIs(g, "requesting") => Waits(g)
        BY DEF ReaderIs, Waits
      <4> QED
        BY <2>1, <4>1, <4>2, <4>3 DEF LockInv, ReadersHold, ReaderIs, Waits, Holder
    <3> QED
      BY <3>1, <3>2
  <2> QED
    BY <1>1, <1>2, <2>2, <2>3, <2>4 DEF LockInv, ReadersHold, LocksCount
<1>7. CASE semaphores[n].users # 1
  <2>1. /\ DOMAIN semaphores' = DOMAIN semaphores
        /\ semaphores'[n] = [users |-> semaphores[n].users - 1, holder |-> holder]
        /\ \A m \in DOMAIN semaphores \ {n} : semaphores'[m] = semaphores[m]
        /\ locks' = locks
    BY <1>1, <1>2, <1>7
  <2>2. ASSUME NEW m \in DOMAIN semaphores'
        PROVE  /\ semaphores'[m] = [users |-> Cardinality(Waiting(m)'), holder |-> Holder(m)']
               /\ Waiting(m)' # {}
    <3>1. CASE m = n
      BY <1>4, <1>5, <1>7, <2>1, <3>1 DEF Holder
    <3>2. CASE m # n
      BY <1>4, <2>1, <3>2 DEF LockInv, LocksCount, Holder
    <3> QED
      BY <3>1, <3>2
  <2>3. /\ \A k \in DOMAIN locks' : locks'[k] \in DOMAIN semaphores'
        /\ \A k, l \in DOMAIN locks' : locks'[k] = locks'[l] => k = l
    BY <2>1 DEF LockInv, LocksCount
  <2>4. ASSUME NEW g \in Readers
        PROVE  /\ "doing" \in DOMAIN reader'[g]
               /\ reader'[g] = [x \in DOMAIN reader'[g] |-> reader'[g][x]]
               /\ Waits(g)' =>
                     /\ {"lock", "semaphore"} \subseteq DOMAIN reader'[g]
                     /\ reader'[g].semaphore \in DOMAIN semaphores'
                     /\ reader'[g].lock \in DOMAIN locks'
                     /\ locks'[reader'[g].lock] = reader'[g].semaphore
               /\ ReaderIs(g, "requesting")' => Holder(reader[g].semaphore)' = g
    <3>1. CASE g = f
      BY <1>3, <3>1 DEF IdleReader, Waits, ReaderIs
    <3>2. CASE g # f
      <4>1. reader'[g] = reader[g]
        BY <1>3, <3>2
      <4>2. ReaderIs(g, "requesting") =>
               Waits(g) /\ (reader[g].semaphore = n => Holder(n) = g /\ holder = g)
        BY <3>2 DEF LockInv, ReadersHold, ReaderIs, Waits
      <4> QED
        BY <2>1, <4>1, <4>2 DEF LockInv, ReadersHold, ReaderIs, Waits, Holder
    <3> QED
      BY <3>1, <3>2
  <2> QED
    BY <1>1, <1>2, <2>2, <2>3, <2>4 DEF LockInv, ReadersHold, LocksCount
<1> QED
  BY <1>6, <1>7

\* The permit is free, and one reader takes it.
LEMMA PermitLocks ==
    ASSUME LockInv, NEW f \in Readers, TakePermit(f)
    PROVE  LockInv'
<1>1. ReaderIs(f, "queued") /\ Waits(f) /\ Holder(reader[f].semaphore) = Unset
  BY DEF TakePermit, ReaderIs, Waits
<1>2. CASE Leaves(f)
  BY <1>1, <1>2, LeavesLocks
<1>3. CASE /\ semaphores' = [semaphores EXCEPT ![reader[f].semaphore].holder = f]
           /\ ReaderTakes(f, [reader[f] EXCEPT !.doing = "requesting"])
           /\ UNCHANGED locks
  <2> PICK n : n = reader[f].semaphore
    OBVIOUS
  <2>1. /\ n \in DOMAIN semaphores /\ DOMAIN reader = Readers /\ f \in Readers
        /\ semaphores[n] = [users |-> Cardinality(Waiting(n)), holder |-> Unset]
        /\ {"doing", "lock", "semaphore"} \subseteq DOMAIN reader[f]
        /\ reader[f] = [x \in DOMAIN reader[f] |-> reader[f][x]]
    BY <1>1 DEF LockInv, ReadersHold, LocksCount, Holder
  <2>2. /\ DOMAIN semaphores' = DOMAIN semaphores
        /\ semaphores'[n] = [users |-> Cardinality(Waiting(n)), holder |-> f]
        /\ \A m \in DOMAIN semaphores \ {n} : semaphores'[m] = semaphores[m]
    BY <1>3, <2>1
  <2>3. /\ DOMAIN reader' = Readers
        /\ reader'[f] = [reader[f] EXCEPT !.doing = "requesting"]
        /\ \A g \in Readers \ {f} : reader'[g] = reader[g]
    BY <1>3, <2>1 DEF ReaderTakes
  <2>4. /\ DOMAIN reader'[f] = DOMAIN reader[f]
        /\ reader'[f] = [x \in DOMAIN reader'[f] |-> reader'[f][x]]
        /\ reader'[f].doing = "requesting"
        /\ reader'[f].semaphore = n /\ reader'[f].lock = reader[f].lock
    BY <2>1, <2>3
  <2>5. \A m : Waiting(m)' = Waiting(m)
    <3>1. \A g \in Readers : Waits(g)' = Waits(g) /\ reader'[g].semaphore = reader[g].semaphore
      <4>1. Waits(f)' = Waits(f) /\ reader'[f].semaphore = reader[f].semaphore
        BY <1>1, <2>4 DEF Waits
      <4>2. \A g \in Readers \ {f} :
               Waits(g)' = Waits(g) /\ reader'[g].semaphore = reader[g].semaphore
        BY <2>3 DEF Waits
      <4> QED
        BY <4>1, <4>2
    <3> QED
      BY <3>1 DEF Waiting
  <2>6. ASSUME NEW m \in DOMAIN semaphores'
        PROVE  /\ semaphores'[m] = [users |-> Cardinality(Waiting(m)'), holder |-> Holder(m)']
               /\ Waiting(m)' # {}
    <3>1. CASE m = n
      BY <2>1, <2>2, <2>5, <3>1 DEF Holder, LockInv, LocksCount
    <3>2. CASE m # n
      BY <2>2, <2>5, <3>2 DEF LockInv, LocksCount, Holder
    <3> QED
      BY <3>1, <3>2
  <2>7. LocksCount'
    BY <1>3, <2>2, <2>6 DEF LockInv, LocksCount
  <2>8. ASSUME NEW g \in Readers
        PROVE  /\ "doing" \in DOMAIN reader'[g]
               /\ reader'[g] = [x \in DOMAIN reader'[g] |-> reader'[g][x]]
               /\ Waits(g)' =>
                     /\ {"lock", "semaphore"} \subseteq DOMAIN reader'[g]
                     /\ reader'[g].semaphore \in DOMAIN semaphores'
                     /\ reader'[g].lock \in DOMAIN locks'
                     /\ locks'[reader'[g].lock] = reader'[g].semaphore
    <3>1. CASE g = f
      BY <1>1, <1>3, <2>1, <2>2, <2>4, <3>1 DEF LockInv, ReadersHold
    <3>2. CASE g # f
      BY <1>3, <2>2, <2>3, <3>2 DEF LockInv, ReadersHold, Waits
    <3> QED
      BY <3>1, <3>2
  <2>9. ASSUME NEW g \in Readers, ReaderIs(g, "requesting")'
        PROVE  Holder(reader[g].semaphore)' = g /\ reader'[g].semaphore = reader[g].semaphore
    <3>1. CASE g = f
      BY <2>2, <2>4, <3>1 DEF Holder
    <3>2. CASE g # f
      <4>1. reader'[g] = reader[g] /\ Waits(g) /\ Holder(reader[g].semaphore) = g
        BY <2>3, <2>9, <3>2 DEF LockInv, ReadersHold, ReaderIs, Waits
      <4>2. reader[g].semaphore \in DOMAIN semaphores /\ reader[g].semaphore # n
        BY <1>1, <4>1, UnsetAssumption DEF LockInv, ReadersHold
      <4> QED
        BY <2>2, <4>1, <4>2 DEF Holder
    <3> QED
      BY <3>1, <3>2
  <2>10. ReadersHold'
    BY <2>3, <2>8, <2>9 DEF ReadersHold
  <2> QED
    BY <2>7, <2>10 DEF LockInv
<1> QED
  BY <1>2, <1>3 DEF TakePermit

\* Every step of the readers; editors and the clock touch no lock.
LEMMA LockNext == LockInv /\ [MetadataNext]_metadataVars => LockInv'
<1> SUFFICES ASSUME LockInv, [MetadataNext]_metadataVars
             PROVE  LockInv'
  OBVIOUS
<1>1. ASSUME NEW f \in Readers,
             \/ BeginTitle(f) \/ TakeCached(f) \/ AskTitle(f) \/ TitleAnswers(f)
             \/ TitleAnswered(f) \/ TitleFails(f) \/ EndTitle(f)
      PROVE  LockInv'
  <2>1. ~Waits(f) /\ UNCHANGED <<locks, semaphores>>
    BY <1>1 DEF BeginTitle, TakeCached, AskTitle, TitleAnswers, TitleAnswered,
                TitleFails, EndTitle, Begins, ReaderIs, Waits
  <2>2. /\ "doing" \in DOMAIN reader[f]
        /\ reader[f] = [x \in DOMAIN reader[f] |-> reader[f][x]]
    BY DEF LockInv, ReadersHold
  <2>3. \E r : /\ ReaderTakes(f, r) /\ r.doing \notin {"queued", "requesting"}
               /\ "doing" \in DOMAIN r /\ r = [x \in DOMAIN r |-> r[x]]
    <3>1. CASE BeginTitle(f)
      BY <3>1 DEF BeginTitle
    <3>2. CASE TakeCached(f)
      BY <3>2 DEF TakeCached, After
    <3>3. CASE AskTitle(f)
      BY <3>3 DEF AskTitle
    <3>4. CASE TitleAnswers(f)
      <4> PICK found \in BOOLEAN :
             ReaderTakes(f, [reader[f] EXCEPT !.doing = "answered",
                !.stale = {Entry(AskedOf(reader[f].asks, reader[f].plan[reader[f].asks],
                                         reader[f].client), found)}])
        BY <3>4 DEF TitleAnswers
      <4> PICK entry : ReaderTakes(f, [reader[f] EXCEPT !.doing = "answered", !.stale = {entry}])
        OBVIOUS
      <4> PICK r : r = [reader[f] EXCEPT !.doing = "answered", !.stale = {entry}]
        OBVIOUS
      <4>1. r.doing = "answered" /\ "doing" \in DOMAIN r /\ r = [x \in DOMAIN r |-> r[x]]
        BY <2>2
      <4> QED
        BY <4>1
    <3>5. CASE TitleAnswered(f) \/ TitleFails(f)
      BY <3>5 DEF TitleAnswered, TitleFails, After
    <3>6. CASE EndTitle(f)
      BY <3>6 DEF EndTitle, IdleReader
    <3> QED
      BY <1>1, <3>1, <3>2, <3>3, <3>4, <3>5, <3>6
  <2> QED
    BY <2>1, <2>3, Elsewhere
<1>2. ASSUME NEW f \in Readers,
             CollectionAnswers(f) \/ CollectionFails(f) \/ AbandonCollection(f)
      PROVE  LockInv'
  <2>1. Waits(f) /\ Leaves(f)
    BY <1>2 DEF CollectionAnswers, CollectionFails, AbandonCollection, ReaderIs, Waits
  <2> QED
    BY <2>1, LeavesLocks
<1>3. CASE UNCHANGED <<locks, semaphores, reader>>
  <2>1. \A n : Waiting(n)' = Waiting(n)
    BY <1>3 DEF Waiting, Waits
  <2> QED
    BY <1>3, <2>1 DEF LockInv, ReadersHold, LocksCount, Waits, ReaderIs, Holder
<1>4. ASSUME NEW e \in Editors, BeginSettingsEdit(e) \/ FinishEdit(e)
      PROVE  UNCHANGED <<locks, semaphores, reader>>
  BY <1>4 DEF BeginSettingsEdit, FinishEdit
<1>5. CASE Pass \/ UNCHANGED metadataVars
  BY <1>3, <1>5 DEF Pass, metadataVars
<1> QED
  BY <1>1, <1>2, <1>3, <1>4, <1>5, QueueLocks, PermitLocks DEF MetadataNext

\* TMDB is asked for a collection once at a time in a language and under an
\* edition of the settings, whichever readers wait, give up and come back
\* (collectionLocks in readTmdbCollection).
THEOREM CollectionsAreAskedOnce == MetadataSpec => []OneRequestPerCollection
<1>1. LockInv => OneRequestPerCollection
  BY DEF LockInv, ReadersHold, OneRequestPerCollection, ReaderIs, Waits
<1> QED
  BY <1>1, LockInit, LockNext, PTL DEF MetadataSpec

-----------------------------------------------------------------------------
(* Collections                                                             *)

Keys == BoxSets \X Nat

TmdbSets == {TmdbCollection(t) : t \in TmdbIds}
SourceSets == {SourceCollection(k) : k \in Keys}

Named == TmdbIds \cup {NoTmdb}

WorldOK ==
    /\ clock \in Nat /\ serving \in Nat
    /\ provider \in [BoxSets -> Named]
    /\ observed \in [Movies -> Nat]
    /\ \A m \in Movies : observed[m] <= serving

\* A TMDB set is under its own id, a source without a set under the source's;
\* only ids of sources became aliases, and only of TMDB sets.
RegistryOK ==
    /\ DOMAIN collections \subseteq TmdbSets \cup SourceSets
    /\ \A t \in TmdbIds :
          TmdbCollection(t) \in DOMAIN collections => collections[TmdbCollection(t)] = t
    /\ \A id \in SourceSets \cap DOMAIN collections : collections[id] = NoTmdb
    /\ \A k \in DOMAIN boxes :
          boxes[k] \in [collection : DOMAIN collections, updated : Nat]
    /\ IsFiniteSet(DOMAIN renamed)
    /\ DOMAIN renamed \subseteq SourceSets
    /\ \A a \in DOMAIN renamed : renamed[a] \in TmdbSets

\* Evidence is of a movie of the box set, or of a movie, and is with a
\* collection that was not renamed.
EvidenceOK ==
    \A e \in DOMAIN evidence :
        /\ \/ \E k \in Keys : \E m \in Contents[k[1]] : e = BoxEvidence(k, m)
           \/ \E m \in Movies : e = TmdbEvidence(m)
        /\ evidence[e] \in [collection : DOMAIN collections \ DOMAIN renamed,
                            generation : Nat]

UpsertOK(v) ==
    /\ v.key \in Keys /\ v.tmdb \in Named /\ v.at \in Nat
    /\ \/ v.old = {}
       \/ \E id \in DOMAIN collections : v.old = {id}

ScanOK(f) ==
    /\ visitor[f].scan \in DOMAIN scans
    /\ scans[visitor[f].scan].held
    /\ \A g \in Visitors \ {f} :
          visitor[g].doing = "scan" => visitor[g].scan # visitor[f].scan

DetailsOK(v) ==
    /\ v \in [doing : {"associate", "replace"}, movie : Movies, tmdb : Named,
              at : Nat, generation : Nat]
    /\ v.generation <= observed[v.movie]

VisitorsOK ==
    /\ DOMAIN visitor = Visitors
    /\ \A f \in Visitors :
          /\ visitor[f].doing = "upsert" => UpsertOK(visitor[f])
          /\ visitor[f].doing \in {"wait", "scan"} => visitor[f].scan[2] \in Keys
          /\ visitor[f].doing = "scan" => ScanOK(f)
          /\ visitor[f].doing \in {"associate", "replace"} => DetailsOK(visitor[f])
          /\ visitor[f].doing = "replace" /\ visitor[f].tmdb # NoTmdb
                => TmdbCollection(visitor[f].tmdb) \in DOMAIN collections

Progresses == [listed : BOOLEAN, left : SUBSET Movies, members : SUBSET Movies,
               failed : BOOLEAN, complete : BOOLEAN, held : BOOLEAN]

\* What a scan placed, what it has left, and what it could not place: together
\* all movies of the box set, as long as no request failed.
ProgressOK(key, scan) ==
    /\ scan \in Progresses
    /\ scan.left \subseteq Contents[key[2][1]]
    /\ scan.members \subseteq Contents[key[2][1]]
    /\ \A m \in scan.members : observed[m] >= key[2][2]
    /\ scan.listed /\ ~scan.failed =>
          \A m \in Contents[key[2][1]] :
              m \in scan.left \cup scan.members \/ LibraryOf[m] \notin key[3]

ScansOK == \A key \in DOMAIN scans : key[2] \in Keys /\ ProgressOK(key, scans[key])

\* The history and the table agree on what was said last of a movie.
UpdatesOK ==
    /\ DOMAIN updates = DOMAIN verdict
    /\ \A m \in DOMAIN verdict :
          /\ m \in Movies
          /\ updates[m].generation = verdict[m].generation
          /\ updates[m].updated = verdict[m].at
          /\ LET e == TmdbEvidence(m)
             IN  IF verdict[m].tmdb = NoTmdb THEN e \notin DOMAIN evidence
                 ELSE /\ e \in DOMAIN evidence
                      /\ evidence[e].collection = TmdbCollection(verdict[m].tmdb)

CollectionsInv ==
    /\ WorldOK /\ RegistryOK /\ EvidenceOK /\ VisitorsOK /\ ScansOK /\ UpdatesOK

\* The ids of TMDB sets and of sources, and the keys of evidence, are distinct.
LEMMA IdsDiffer ==
    /\ TmdbSets \cap SourceSets = {}
    /\ \A t, u : TmdbCollection(t) = TmdbCollection(u) => t = u
    /\ \A k, m, n : BoxEvidence(k, m) # TmdbEvidence(n)
    /\ \A m, n : TmdbEvidence(m) = TmdbEvidence(n) => m = n
    /\ \A t : TmdbCollection(t) \notin SourceSets
  BY DEF TmdbSets, SourceSets, TmdbCollection, SourceCollection, BoxEvidence,
         TmdbEvidence

LEMMA CollectionsStart == CollectionsInit => CollectionsInv
<1> SUFFICES ASSUME CollectionsInit PROVE CollectionsInv
  OBVIOUS
<1>1. WorldOK
  BY DEF CollectionsInit, WorldOK, Named
<1>2. RegistryOK
  BY FS_EmptySet DEF CollectionsInit, RegistryOK
<1>3. EvidenceOK /\ ScansOK /\ UpdatesOK
  BY DEF CollectionsInit, EvidenceOK, ScansOK, UpdatesOK
<1>4. VisitorsOK
  BY DEF CollectionsInit, VisitorsOK, Free
<1> QED
  BY <1>1, <1>2, <1>3, <1>4 DEF CollectionsInv

-----------------------------------------------------------------------------
(* The fibers of collections                                               *)

\* A step of one fiber: the others keep what they rely on as long as no
\* collection disappears, no movie's row becomes older, and no scan that a
\* fiber holds is taken from it.
LEMMA VisitorsStep ==
    ASSUME VisitorsOK, NEW f \in Visitors, WorldOK,
           DOMAIN visitor' = Visitors,
           \A g \in Visitors \ {f} : visitor'[g] = visitor[g],
           DOMAIN collections \subseteq DOMAIN collections',
           \A m \in Movies : observed'[m] \in Nat /\ observed[m] <= observed'[m],
           \A g \in Visitors \ {f} : visitor[g].doing = "scan" =>
               visitor[g].scan \in DOMAIN scans' /\ scans'[visitor[g].scan].held,
           visitor'[f].doing = "upsert" => UpsertOK(visitor[f])',
           visitor'[f].doing \in {"wait", "scan"} => visitor'[f].scan[2] \in Keys,
           visitor'[f].doing = "scan" =>
               /\ visitor'[f].scan \in DOMAIN scans'
               /\ scans'[visitor'[f].scan].held
               /\ \A g \in Visitors \ {f} :
                     visitor[g].doing = "scan" => visitor[g].scan # visitor'[f].scan,
           visitor'[f].doing \in {"associate", "replace"} => DetailsOK(visitor[f])',
           visitor'[f].doing = "replace" /\ visitor'[f].tmdb # NoTmdb =>
               TmdbCollection(visitor'[f].tmdb) \in DOMAIN collections'
    PROVE  VisitorsOK'
<1>1. ASSUME NEW g \in Visitors \ {f}, visitor[g].doing = "upsert"
      PROVE  UpsertOK(visitor[g])'
  BY <1>1 DEF VisitorsOK, UpsertOK
<1>2. ASSUME NEW g \in Visitors \ {f},
             visitor[g].doing \in {"associate", "replace"}
      PROVE  DetailsOK(visitor[g])'
  <2>1. DetailsOK(visitor[g])
    BY <1>2 DEF VisitorsOK
  <2>2. visitor[g].movie \in Movies /\ visitor[g].generation \in Nat
    BY <2>1 DEF DetailsOK
  <2>3. visitor[g].generation <= observed'[visitor[g].movie]
    BY <2>1, <2>2 DEF DetailsOK, WorldOK
  <2> QED
    BY <2>1, <2>3 DEF DetailsOK
<1>3. ASSUME NEW g \in Visitors, visitor'[g].doing = "scan"
      PROVE  ScanOK(g)'
  <2>1. CASE g = f
    BY <1>3, <2>1 DEF ScanOK
  <2>2. CASE g # f
    <3>1. visitor'[g] = visitor[g] /\ ScanOK(g)
      BY <1>3, <2>2 DEF VisitorsOK
    <3>2. visitor'[g].scan \in DOMAIN scans' /\ scans'[visitor'[g].scan].held
      BY <1>3, <2>2, <3>1
    <3>3. ASSUME NEW h \in Visitors \ {g}, visitor'[h].doing = "scan"
          PROVE  visitor'[h].scan # visitor'[g].scan
      BY <1>3, <2>2, <3>1, <3>3 DEF ScanOK
    <3> QED
      BY <3>2, <3>3 DEF ScanOK
  <2> QED
    BY <2>1, <2>2
<1>4. ASSUME NEW g \in Visitors
      PROVE  /\ visitor'[g].doing = "upsert" => UpsertOK(visitor[g])'
             /\ visitor'[g].doing \in {"wait", "scan"} => visitor'[g].scan[2] \in Keys
             /\ visitor'[g].doing \in {"associate", "replace"} => DetailsOK(visitor[g])'
             /\ visitor'[g].doing = "replace" /\ visitor'[g].tmdb # NoTmdb
                  => TmdbCollection(visitor'[g].tmdb) \in DOMAIN collections'
  <2>1. CASE g = f
    BY <2>1
  <2>2. CASE g # f
    BY <1>1, <1>2, <2>2 DEF VisitorsOK
  <2> QED
    BY <2>1, <2>2
<1> QED
  BY <1>3, <1>4 DEF VisitorsOK

\* A fiber begins a visit of a box set, or a refresh of a movie.
LEMMA BeginsKeepCollections ==
    ASSUME CollectionsInv, NEW f \in Visitors, BeginVisit(f) \/ BeginAssociate(f)
    PROVE  CollectionsInv'
<1>1. /\ UNCHANGED <<clock, serving, provider, observed, collections, boxes,
                     renamed, evidence, updates, scans, verdict>>
  BY DEF BeginVisit, BeginAssociate, upstreamSide, itemRows, registry
<1>2. WorldOK' /\ RegistryOK' /\ EvidenceOK' /\ ScansOK' /\ UpdatesOK'
  BY <1>1 DEF CollectionsInv, WorldOK, RegistryOK, EvidenceOK, ScansOK, UpdatesOK,
              ProgressOK
<1>3. \A g \in Visitors : visitor[g].doing = "scan" =>
          visitor[g].scan \in DOMAIN scans' /\ scans'[visitor[g].scan].held
  BY <1>1 DEF CollectionsInv, VisitorsOK, ScanOK
<1>4. DOMAIN visitor = Visitors
  BY DEF CollectionsInv, VisitorsOK
<1>5. \A m \in Movies : observed'[m] \in Nat /\ observed[m] <= observed'[m]
  BY <1>1 DEF CollectionsInv, WorldOK
<1>6. CASE BeginVisit(f)
  <2>1. PICK box \in BoxSets, scope \in Scopes :
          LET key == <<box, serving>>
              old == IF key \in DOMAIN boxes THEN {boxes[key].collection} ELSE {}
          IN  Takes(f, [doing |-> "upsert", key |-> key, scope |-> scope,
                        tmdb |-> provider[box], at |-> clock, old |-> old])
    BY <1>6 DEF BeginVisit
  <2> DEFINE key == <<box, serving>>
             old == IF key \in DOMAIN boxes THEN {boxes[key].collection} ELSE {}
             w == [doing |-> "upsert", key |-> key, scope |-> scope,
                   tmdb |-> provider[box], at |-> clock, old |-> old]
  <2>2. visitor' = [visitor EXCEPT ![f] = w]
    BY <2>1 DEF Takes
  <2>3. key \in Keys /\ provider[box] \in Named /\ clock \in Nat
    BY DEF CollectionsInv, WorldOK, Keys
  <2>4. old = {} \/ \E id \in DOMAIN collections : old = {id}
    BY DEF CollectionsInv, RegistryOK
  <2> HIDE DEF old, key
  <2>5. visitor'[f] = w /\ \A g \in Visitors \ {f} : visitor'[g] = visitor[g]
    BY <1>4, <2>2
  <2>6. UpsertOK(w)
    BY <2>3, <2>4 DEF UpsertOK
  <2>7. UpsertOK(visitor[f])'
    BY <1>1, <2>5, <2>6 DEF UpsertOK
  <2>8. VisitorsOK'
    BY <1>1, <1>3, <1>4, <1>5, <2>2, <2>5, <2>7, VisitorsStep DEF CollectionsInv
  <2> QED
    BY <1>2, <2>8 DEF CollectionsInv
<1>7. CASE BeginAssociate(f)
  <2>1. PICK m \in Movies, t \in TmdbIds \cup {NoTmdb}, at \in 1 .. clock :
          Takes(f, [doing |-> "associate", movie |-> m, tmdb |-> t, at |-> at,
                    generation |-> observed[m]])
    BY <1>7 DEF BeginAssociate
  <2> DEFINE w == [doing |-> "associate", movie |-> m, tmdb |-> t, at |-> at,
                   generation |-> observed[m]]
  <2>2. visitor'[f] = w /\ \A g \in Visitors \ {f} : visitor'[g] = visitor[g]
    BY <1>4, <2>1 DEF Takes
  <2>3. at \in Nat /\ observed[m] \in Nat /\ DOMAIN visitor' = Visitors
    BY <1>4, <2>1 DEF CollectionsInv, WorldOK, Takes
  <2>4. DetailsOK(w)
    BY <2>3 DEF DetailsOK, Named
  <2>5. DetailsOK(visitor[f])'
    BY <1>1, <2>2, <2>4 DEF DetailsOK
  <2>6. VisitorsOK'
    BY <1>1, <1>3, <1>5, <2>2, <2>3, <2>5, VisitorsStep DEF CollectionsInv
  <2> QED
    BY <1>2, <2>6 DEF CollectionsInv
<1> QED
  BY <1>6, <1>7

-----------------------------------------------------------------------------
(* Registrations                                                           *)

\* The table with one row more, if it was not there.
LEMMA OverOne ==
    ASSUME NEW table, NEW key, NEW row
    PROVE  /\ DOMAIN Over(table, With(<<>>, key, row)) = DOMAIN table \cup {key}
           /\ \A k \in DOMAIN table : Over(table, With(<<>>, key, row))[k] = table[k]
           /\ key \notin DOMAIN table => Over(table, With(<<>>, key, row))[key] = row
  BY DEF Over, With

\* The one row that was read.
LEMMA ChooseOne == ASSUME NEW x PROVE (CHOOSE y \in {x} : TRUE) = x
  OBVIOUS

\* Where a registration leads: to the TMDB set it names, to the collection the
\* source has, or to one of its own. Only a source's own collection is moved,
\* and only to a TMDB set.
LEMMA TargetIsSound ==
    ASSUME CollectionsInv, NEW v, UpsertOK(v)
    PROVE  /\ TargetOf(v) \in TmdbSets \cup SourceSets
           /\ \/ TargetOf(v) \in DOMAIN collections
              \/ /\ Accepted(v) \in TmdbIds
                 /\ TargetOf(v) = TmdbCollection(Accepted(v))
              \/ TargetOf(v) \in SourceSets /\ Accepted(v) = NoTmdb
           /\ v.old \ {TargetOf(v)} \subseteq SourceSets \cap DOMAIN collections
           /\ IsFiniteSet(v.old \ {TargetOf(v)})
           /\ v.old \ {TargetOf(v)} # {} => TargetOf(v) \in TmdbSets
           /\ v.tmdb # NoTmdb =>
                 \/ TargetOf(v) \in DOMAIN collections
                       /\ Accepted(v) = collections[TargetOf(v)]
                 \/ TargetOf(v) \notin DOMAIN collections
<1>1. v.key \in Keys /\ v.tmdb \in Named
  BY DEF UpsertOK
<1>2. RegistryOK
  BY DEF CollectionsInv
<1>3. CASE v.old = {}
  <2>1. ~InConflict(v)
    BY <1>3 DEF InConflict
  <2>2. Accepted(v) = v.tmdb
    BY <2>1 DEF Accepted
  <2>3. v.old \ {TargetOf(v)} = {} /\ IsFiniteSet({})
    BY <1>3, FS_EmptySet
  <2>4. CASE v.tmdb # NoTmdb
    <3>1. TargetOf(v) = TmdbCollection(v.tmdb) /\ v.tmdb \in TmdbIds
      BY <1>1, <2>1, <2>4 DEF TargetOf, Named
    <3> QED
      BY <1>2, <2>2, <2>3, <3>1 DEF TmdbSets, RegistryOK
  <2>5. CASE v.tmdb = NoTmdb
    <3>1. TargetOf(v) = SourceCollection(v.key)
      BY <1>3, <2>5 DEF TargetOf
    <3> QED
      BY <1>1, <2>2, <2>3, <2>5, <3>1 DEF SourceSets
  <2> QED
    BY <2>4, <2>5
<1>4. ASSUME NEW x \in DOMAIN collections, v.old = {x}
      PROVE  /\ TargetOf(v) \in TmdbSets \cup SourceSets
             /\ \/ TargetOf(v) \in DOMAIN collections
                \/ /\ Accepted(v) \in TmdbIds
                   /\ TargetOf(v) = TmdbCollection(Accepted(v))
                \/ TargetOf(v) \in SourceSets /\ Accepted(v) = NoTmdb
             /\ v.old \ {TargetOf(v)} \subseteq SourceSets \cap DOMAIN collections
             /\ IsFiniteSet(v.old \ {TargetOf(v)})
             /\ v.old \ {TargetOf(v)} # {} => TargetOf(v) \in TmdbSets
             /\ v.tmdb # NoTmdb =>
                   \/ TargetOf(v) \in DOMAIN collections
                         /\ Accepted(v) = collections[TargetOf(v)]
                   \/ TargetOf(v) \notin DOMAIN collections
  <2>1. x \in TmdbSets \cup SourceSets
    BY <1>2 DEF RegistryOK
  <2>2. InConflict(v) <=>
          /\ collections[x] # NoTmdb
          /\ v.tmdb # NoTmdb
          /\ collections[x] # v.tmdb
    BY <1>4 DEF InConflict
  <2>3. (CHOOSE id \in v.old : TRUE) = x
    BY <1>4, ChooseOne
  <2>4. CASE v.tmdb # NoTmdb /\ ~InConflict(v)
    <3>1. /\ TargetOf(v) = TmdbCollection(v.tmdb) /\ v.tmdb \in TmdbIds
          /\ Accepted(v) = v.tmdb
      BY <1>1, <2>4 DEF TargetOf, Accepted, Named
    <3>2. TargetOf(v) \in TmdbSets
      BY <3>1 DEF TmdbSets
    <3>3. x # TargetOf(v) => x \in SourceSets
      <4>1. ASSUME x \in TmdbSets PROVE x = TargetOf(v)
        <5>1. PICK t \in TmdbIds : x = TmdbCollection(t)
          BY <4>1 DEF TmdbSets
        <5>2. collections[x] = t /\ t # NoTmdb
          BY <1>2, <5>1, NoTmdbAssumption DEF RegistryOK
        <5> QED
          BY <2>2, <2>4, <3>1, <5>1, <5>2
      <4> QED
        BY <2>1, <4>1
    <3>4. IsFiniteSet(v.old \ {TargetOf(v)})
      BY <1>4, FS_Singleton, FS_Subset
    <3>5. TargetOf(v) \in DOMAIN collections => collections[TargetOf(v)] = v.tmdb
      BY <1>2, <3>1 DEF RegistryOK
    <3> QED
      BY <1>4, <3>1, <3>2, <3>3, <3>4, <3>5
  <2>5. CASE v.tmdb = NoTmdb \/ InConflict(v)
    <3>1. TargetOf(v) = x
      BY <1>4, <2>2, <2>3, <2>5 DEF TargetOf
    <3>2. InConflict(v) => Accepted(v) = collections[x]
      BY <2>3 DEF Accepted
    <3>3. v.old \ {TargetOf(v)} = {} /\ IsFiniteSet({})
      BY <1>4, <3>1, FS_EmptySet
    <3> QED
      BY <2>1, <2>5, <3>1, <3>2, <3>3
  <2> QED
    BY <2>4, <2>5
<1> QED
  BY <1>3, <1>4 DEF UpsertOK

\* The batch of a registration.
LEMMA MovedKeeps ==
    ASSUME CollectionsInv, NEW v, UpsertOK(v), Moved(v, TargetOf(v)),
           UNCHANGED <<updates, verdict>>
    PROVE  /\ RegistryOK' /\ EvidenceOK' /\ UpdatesOK'
           /\ DOMAIN collections \subseteq DOMAIN collections'
           /\ v.key \in DOMAIN boxes'
           /\ \A id \in DOMAIN collections : collections'[id] = collections[id]
<1> DEFINE id == TargetOf(v)
           moved == v.old \ {id}
           To(c) == IF c \in moved THEN id ELSE c
<1>1. /\ id \in TmdbSets \cup SourceSets
      /\ \/ id \in DOMAIN collections
         \/ Accepted(v) \in TmdbIds /\ id = TmdbCollection(Accepted(v))
         \/ id \in SourceSets /\ Accepted(v) = NoTmdb
      /\ moved \subseteq SourceSets \cap DOMAIN collections
      /\ IsFiniteSet(moved)
      /\ moved # {} => id \in TmdbSets
  BY TargetIsSound
<1>2. /\ collections' = Over(collections, With(<<>>, id, Accepted(v)))
      /\ boxes' = With([k \in DOMAIN boxes |-> [boxes[k] EXCEPT !.collection = To(@)]],
                       v.key, [collection |-> id, updated |-> v.at])
      /\ evidence' = [e \in DOMAIN evidence |-> [evidence[e] EXCEPT !.collection = To(@)]]
      /\ renamed' = Over([a \in moved |-> id], [a \in DOMAIN renamed |-> To(renamed[a])])
  BY DEF Moved
<1>3. RegistryOK /\ EvidenceOK /\ UpdatesOK
  BY DEF CollectionsInv
<1> HIDE DEF id
<1>4. PICK accepted : accepted = Accepted(v)
  OBVIOUS
<1>5. /\ DOMAIN collections' = DOMAIN collections \cup {id}
      /\ \A c \in DOMAIN collections : collections'[c] = collections[c]
      /\ id \notin DOMAIN collections => collections'[id] = accepted
  <2>1. collections' = Over(collections, With(<<>>, id, accepted))
    BY <1>2, <1>4
  <2> QED
    BY <2>1 DEF Over, With
<1>6. /\ DOMAIN renamed' = moved \cup DOMAIN renamed
      /\ \A a \in DOMAIN renamed' : renamed'[a] \in TmdbSets
      /\ IsFiniteSet(DOMAIN renamed')
  <2>1. DOMAIN renamed' = moved \cup DOMAIN renamed
    BY <1>2 DEF Over
  <2>2. ASSUME NEW a \in moved PROVE renamed'[a] \in TmdbSets
    BY <1>1, <1>2, <2>1, <2>2 DEF Over
  <2>3. ASSUME NEW a \in DOMAIN renamed \ moved PROVE renamed'[a] \in TmdbSets
    <3>1. renamed[a] \in TmdbSets /\ renamed[a] \notin moved
      BY <1>1, <1>3, IdsDiffer DEF RegistryOK
    <3>2. renamed'[a] = To(renamed[a])
      <4>1. PICK new : new = [c \in moved |-> id]
        OBVIOUS
      <4>2. PICK kept : kept = [c \in DOMAIN renamed |-> To(renamed[c])]
        OBVIOUS
      <4>3. renamed' = Over(new, kept)
        BY <1>2, <4>1, <4>2
      <4>4. a \in DOMAIN kept /\ a \notin DOMAIN new /\ kept[a] = To(renamed[a])
        BY <2>3, <4>1, <4>2
      <4> QED
        BY <4>3, <4>4 DEF Over
    <3> QED
      BY <3>1, <3>2
  <2>4. IsFiniteSet(DOMAIN renamed')
    <3>1. IsFiniteSet(DOMAIN renamed)
      BY <1>3 DEF RegistryOK
    <3>2. PICK one : one = moved
      OBVIOUS
    <3>3. PICK two : two = DOMAIN renamed
      OBVIOUS
    <3>4. IsFiniteSet(one \cup two)
      <4>1. IsFiniteSet(one) /\ IsFiniteSet(two)
        BY <1>1, <3>1, <3>2, <3>3
      <4> QED
        BY <4>1, FS_Union
    <3> QED
      BY <2>1, <3>2, <3>3, <3>4
  <2> QED
    BY <2>1, <2>2, <2>3, <2>4
<1>7. RegistryOK'
  <2>1. \A k \in DOMAIN boxes' :
          boxes'[k] \in [collection : DOMAIN collections', updated : Nat]
    <3>1. DOMAIN boxes' = {v.key} \cup DOMAIN boxes
      BY <1>2 DEF With
    <3>2. boxes'[v.key] = [collection |-> id, updated |-> v.at] /\ v.at \in Nat
      BY <1>2 DEF With, UpsertOK
    <3>3. ASSUME NEW k \in DOMAIN boxes \ {v.key}
          PROVE  boxes'[k] \in [collection : DOMAIN collections', updated : Nat]
      <4>1. boxes[k] \in [collection : DOMAIN collections, updated : Nat]
        BY <1>3 DEF RegistryOK
      <4>2. boxes'[k] = [boxes[k] EXCEPT !.collection = To(boxes[k].collection)]
        BY <1>2, <3>1 DEF With
      <4> QED
        BY <1>5, <4>1, <4>2
    <3> QED
      BY <1>5, <3>1, <3>2, <3>3
  <2>2. \A t \in TmdbIds :
          TmdbCollection(t) \in DOMAIN collections' => collections'[TmdbCollection(t)] = t
    BY <1>1, <1>3, <1>4, <1>5, IdsDiffer DEF RegistryOK
  <2>3. \A c \in SourceSets \cap DOMAIN collections' : collections'[c] = NoTmdb
    BY <1>1, <1>3, <1>4, <1>5, IdsDiffer DEF RegistryOK
  <2>4. DOMAIN collections' \subseteq TmdbSets \cup SourceSets
    BY <1>1, <1>3, <1>5 DEF RegistryOK
  <2>5. DOMAIN renamed' \subseteq SourceSets
    BY <1>1, <1>3, <1>6 DEF RegistryOK
  <2> QED
    BY <1>6, <2>1, <2>2, <2>3, <2>4, <2>5 DEF RegistryOK
<1>8. /\ DOMAIN evidence' = DOMAIN evidence
      /\ \A e \in DOMAIN evidence :
            /\ evidence'[e] \in [collection : DOMAIN collections' \ DOMAIN renamed',
                                 generation : Nat]
            /\ evidence'[e].collection = To(evidence[e].collection)
  <2>1. DOMAIN evidence' = DOMAIN evidence
    BY <1>2
  <2>2. ASSUME NEW e \in DOMAIN evidence
        PROVE  /\ evidence'[e] \in [collection : DOMAIN collections' \ DOMAIN renamed',
                                    generation : Nat]
               /\ evidence'[e].collection = To(evidence[e].collection)
    <3>1. evidence[e] \in [collection : DOMAIN collections \ DOMAIN renamed,
                           generation : Nat]
      BY <1>3 DEF EvidenceOK
    <3>2. evidence'[e] = [evidence[e] EXCEPT !.collection = To(evidence[e].collection)]
      BY <1>2
    <3>3. To(evidence[e].collection) \in DOMAIN collections' \ DOMAIN renamed'
      <4>1. CASE evidence[e].collection \in moved
        BY <1>1, <1>3, <1>5, <1>6, <4>1, IdsDiffer DEF RegistryOK
      <4>2. CASE evidence[e].collection \notin moved
        BY <1>5, <1>6, <3>1, <4>2
      <4> QED
        BY <4>1, <4>2
    <3> HIDE DEF To
    <3> QED
      BY <3>1, <3>2, <3>3
  <2> QED
    BY <2>1, <2>2
<1>9. EvidenceOK'
  <2>1. \A e \in DOMAIN evidence :
          \/ \E k \in Keys : \E m \in Contents[k[1]] : e = BoxEvidence(k, m)
          \/ \E m \in Movies : e = TmdbEvidence(m)
    BY <1>3 DEF EvidenceOK
  <2> QED
    BY <1>8, <2>1 DEF EvidenceOK
<1>10. UpdatesOK'
  <2>1. \A t : TmdbCollection(t) \notin moved
    BY <1>1, IdsDiffer
  <2>2. ASSUME NEW m \in DOMAIN verdict, verdict[m].tmdb # NoTmdb
        PROVE  /\ TmdbEvidence(m) \in DOMAIN evidence'
               /\ evidence'[TmdbEvidence(m)].collection = TmdbCollection(verdict[m].tmdb)
    <3>1. /\ TmdbEvidence(m) \in DOMAIN evidence
          /\ evidence[TmdbEvidence(m)].collection = TmdbCollection(verdict[m].tmdb)
      BY <1>3, <2>2 DEF UpdatesOK
    <3> QED
      BY <1>8, <2>1, <3>1
  <2>3. ASSUME NEW m \in DOMAIN verdict, verdict[m].tmdb = NoTmdb
        PROVE  TmdbEvidence(m) \notin DOMAIN evidence'
    BY <1>3, <1>8, <2>3 DEF UpdatesOK
  <2> QED
    BY <1>3, <2>2, <2>3 DEF UpdatesOK
<1>11. v.key \in DOMAIN boxes'
  BY <1>2 DEF With
<1> QED
  BY <1>5, <1>7, <1>9, <1>10, <1>11

-----------------------------------------------------------------------------
(* The world of collections                                                *)

\* Rows of movies that become newer, and collections that appear, disturb no
\* fiber and no scan.
LEMMA VisitorsStay ==
    ASSUME VisitorsOK, WorldOK, UNCHANGED <<visitor, scans>>,
           DOMAIN collections \subseteq DOMAIN collections',
           \A m \in Movies : observed'[m] \in Nat /\ observed[m] <= observed'[m]
    PROVE  VisitorsOK'
<1>1. ASSUME NEW f \in Visitors PROVE
          /\ visitor[f].doing = "scan" => visitor[f].scan \in DOMAIN scans'
                                          /\ scans'[visitor[f].scan].held
  BY DEF VisitorsOK, ScanOK
<1>2. ASSUME NEW f \in Visitors PROVE
          visitor[f].doing = "upsert" => UpsertOK(visitor[f])'
  BY DEF VisitorsOK, UpsertOK
<1>3. ASSUME NEW f \in Visitors, visitor[f].doing = "scan" PROVE ScanOK(f)'
  BY <1>3 DEF VisitorsOK, ScanOK
<1>4. ASSUME NEW f \in Visitors, visitor[f].doing \in {"associate", "replace"}
      PROVE  DetailsOK(visitor[f])'
  <2>1. DetailsOK(visitor[f])
    BY <1>4 DEF VisitorsOK
  <2>2. visitor[f].movie \in Movies /\ visitor[f].generation \in Nat
    BY <2>1 DEF DetailsOK
  <2>3. visitor[f].generation <= observed'[visitor[f].movie]
    BY <2>1, <2>2 DEF DetailsOK, WorldOK
  <2> QED
    BY <2>1, <2>3 DEF DetailsOK
<1> QED
  BY <1>2, <1>3, <1>4 DEF VisitorsOK

LEMMA ProgressStays ==
    ASSUME ScansOK, WorldOK, scans' = scans,
           \A m \in Movies : observed'[m] \in Nat /\ observed[m] <= observed'[m]
    PROVE  ScansOK'
<1>1. ASSUME NEW key \in DOMAIN scans PROVE ProgressOK(key, scans[key])'
  <2>1. ProgressOK(key, scans[key]) /\ key[2] \in Keys
    BY DEF ScansOK
  <2>2. ASSUME NEW m \in scans[key].members PROVE observed'[m] >= key[2][2]
    <3>1. m \in Movies /\ observed[m] >= key[2][2]
      BY <2>1 DEF ProgressOK, Progresses
    <3>2. key[2][2] \in Nat
      BY <2>1 DEF Keys
    <3> QED
      BY <3>1, <3>2 DEF WorldOK
  <2> QED
    BY <2>1, <2>2 DEF ProgressOK
<1> QED
  BY <1>1 DEF ScansOK

\* Time passes, the server is edited, a box set gets another TMDB id, a movie
\* is read anew, and the progress of a scan expires.
LEMMA WorldKeepsCollections ==
    ASSUME CollectionsInv,
           \/ ClockAdvances \/ NextGeneration \/ HealthChanges
           \/ \E box \in BoxSets : Retag(box)
           \/ \E m \in Movies : Browse(m)
    PROVE  CollectionsInv'
<1>1. /\ UNCHANGED <<registry, evidence, updates, scans, visitor, visits, verdict>>
  BY DEF ClockAdvances, NextGeneration, HealthChanges, Retag, Browse, others
<1>2. /\ WorldOK'
      /\ \A m \in Movies : observed'[m] \in Nat /\ observed[m] <= observed'[m]
  <2>1. WorldOK
    BY DEF CollectionsInv
  <2>2. CASE ClockAdvances
    BY <2>1, <2>2 DEF ClockAdvances, others, itemRows, WorldOK
  <2>3. CASE NextGeneration
    BY <2>1, <2>3 DEF NextGeneration, others, itemRows, WorldOK
  <2>4. CASE \E box \in BoxSets : Retag(box)
    <3>1. PICK box \in BoxSets, t \in TmdbIds \cup {NoTmdb} :
            provider' = [provider EXCEPT ![box] = t]
      BY <2>4 DEF Retag
    <3>2. UNCHANGED <<clock, serving, observed>>
      BY <2>4 DEF Retag, others, itemRows
    <3> QED
      BY <2>1, <3>1, <3>2 DEF WorldOK, Named
  <2>5. CASE \E m \in Movies : Browse(m)
    <3>1. PICK m \in Movies : Browse(m)
      BY <2>5
    <3>2. /\ UNCHANGED <<clock, serving, provider>>
          /\ observed' = [observed EXCEPT ![m] = serving]
      BY <3>1 DEF Browse, Ingest, upstreamSide
    <3> QED
      BY <2>1, <3>2 DEF WorldOK
  <2>6. CASE HealthChanges
    BY <2>1, <2>6 DEF HealthChanges, others, itemRows, WorldOK
  <2> QED
    BY <2>2, <2>3, <2>4, <2>5, <2>6
<1>3. RegistryOK' /\ EvidenceOK' /\ UpdatesOK'
  BY <1>1 DEF CollectionsInv, RegistryOK, EvidenceOK, UpdatesOK, registry
<1>4. VisitorsOK'
  BY <1>1, <1>2, VisitorsStay DEF CollectionsInv, registry
<1>5. ScansOK'
  BY <1>1, <1>2, ProgressStays DEF CollectionsInv
<1> QED
  BY <1>2, <1>3, <1>4, <1>5 DEF CollectionsInv

LEMMA ForgetKeepsCollections ==
    ASSUME CollectionsInv, NEW key \in DOMAIN scans, ForgetScan(key)
    PROVE  CollectionsInv'
<1>1. /\ UNCHANGED <<clock, serving, provider, observed, collections, boxes,
                     renamed, evidence, updates, visitor, verdict>>
      /\ scans' = Restrict(scans, DOMAIN scans \ {key})
      /\ ~scans[key].held
  BY DEF ForgetScan, upstreamSide, itemRows, registry
<1>2. WorldOK' /\ RegistryOK' /\ EvidenceOK' /\ UpdatesOK'
  BY <1>1 DEF CollectionsInv, WorldOK, RegistryOK, EvidenceOK, UpdatesOK
<1>3. /\ DOMAIN scans' = DOMAIN scans \ {key}
      /\ \A k \in DOMAIN scans' : scans'[k] = scans[k]
  BY <1>1 DEF Restrict
<1>4. ScansOK'
  BY <1>1, <1>3 DEF CollectionsInv, ScansOK, ProgressOK
<1>5. ASSUME NEW f \in Visitors, visitor[f].doing = "scan" PROVE ScanOK(f)'
  <2>1. ScanOK(f)
    BY <1>5 DEF CollectionsInv, VisitorsOK
  <2>2. visitor[f].scan # key
    BY <1>1, <2>1 DEF ScanOK
  <2> QED
    BY <1>1, <1>3, <2>1, <2>2 DEF ScanOK
<1>6. ASSUME NEW f \in Visitors PROVE
          /\ visitor[f].doing = "upsert" => UpsertOK(visitor[f])'
          /\ visitor[f].doing \in {"associate", "replace"} => DetailsOK(visitor[f])'
  BY <1>1 DEF CollectionsInv, VisitorsOK, UpsertOK, DetailsOK
<1>7. VisitorsOK'
  BY <1>1, <1>5, <1>6 DEF CollectionsInv, VisitorsOK
<1> QED
  BY <1>2, <1>4, <1>7 DEF CollectionsInv

\* A registration, done or refused.
LEMMA UpsertKeepsCollections ==
    ASSUME CollectionsInv, NEW f \in Visitors, UpsertCollection(f)
    PROVE  CollectionsInv'
<1>1. PICK v : v = visitor[f]
  OBVIOUS
<1>2. /\ UNCHANGED <<clock, serving, provider, observed, updates, scans, verdict>>
      /\ v.doing = "upsert"
      /\ \/ Moved(v, TargetOf(v))
         \/ UNCHANGED <<collections, boxes, renamed, evidence>>
      /\ visitor' = [visitor EXCEPT ![f] =
             IF v.key \in DOMAIN boxes'
             THEN [doing |-> "wait", scan |-> <<boxes'[v.key].collection, v.key, v.scope>>]
             ELSE Free]
  BY <1>1 DEF UpsertCollection, Takes, Doing, upstreamSide, itemRows, registry
<1>3. UpsertOK(v)
  BY <1>1, <1>2 DEF CollectionsInv, VisitorsOK
<1>4. /\ RegistryOK' /\ EvidenceOK' /\ UpdatesOK'
      /\ DOMAIN collections \subseteq DOMAIN collections'
  <2>1. CASE Moved(v, TargetOf(v))
    BY <1>2, <1>3, <2>1, MovedKeeps
  <2>2. CASE UNCHANGED <<collections, boxes, renamed, evidence>>
    BY <1>2, <2>2 DEF CollectionsInv, RegistryOK, EvidenceOK, UpdatesOK
  <2> QED
    BY <1>2, <2>1, <2>2
<1>5. WorldOK' /\ ScansOK'
  BY <1>2 DEF CollectionsInv, WorldOK, ScansOK, ProgressOK
<1>6. DOMAIN visitor = Visitors /\ WorldOK /\ VisitorsOK
  BY DEF CollectionsInv, VisitorsOK
<1>7. PICK w : w = visitor'[f]
  OBVIOUS
<1>8. /\ DOMAIN visitor' = Visitors
      /\ \A g \in Visitors \ {f} : visitor'[g] = visitor[g]
      /\ \/ w.doing = "wait" /\ w.scan[2] = v.key
         \/ w = Free
  BY <1>2, <1>6, <1>7
<1>9. \A g \in Visitors : visitor[g].doing = "scan" =>
          visitor[g].scan \in DOMAIN scans' /\ scans'[visitor[g].scan].held
  BY <1>2, <1>6 DEF VisitorsOK, ScanOK
<1>10. \A m \in Movies : observed'[m] \in Nat /\ observed[m] <= observed'[m]
  BY <1>2, <1>6 DEF WorldOK
<1>11. /\ w.doing \notin {"upsert", "scan", "associate", "replace"}
       /\ w.doing \in {"wait", "scan"} => w.scan[2] \in Keys
  BY <1>3, <1>8 DEF Free, UpsertOK
<1>12. VisitorsOK'
  BY <1>4, <1>6, <1>7, <1>8, <1>9, <1>10, <1>11, VisitorsStep
<1> QED
  BY <1>4, <1>5, <1>12 DEF CollectionsInv

-----------------------------------------------------------------------------
(* Scans                                                                   *)

\* A step of a scan changes what one fiber does and one progress.
LEMMA ScanFibers ==
    ASSUME CollectionsInv, NEW f \in Visitors, NEW key, NEW scan, NEW w,
           DOMAIN collections \subseteq DOMAIN collections',
           \A m \in Movies : observed'[m] \in Nat /\ observed[m] <= observed'[m],
           DOMAIN scans' = DOMAIN scans \cup {key}, scans'[key] = scan,
           \A k \in DOMAIN scans \ {key} : scans'[k] = scans[k],
           key[2] \in Keys, ProgressOK(key, scan)',
           DOMAIN visitor' = Visitors, visitor'[f] = w,
           \A g \in Visitors \ {f} : visitor'[g] = visitor[g],
           \A g \in Visitors \ {f} :
               visitor[g].doing = "scan" => visitor[g].scan # key,
           \/ w = Free
           \/ w.doing = "scan" /\ w.scan = key /\ scan.held
    PROVE  VisitorsOK' /\ ScansOK'
<1>1. ASSUME NEW k \in DOMAIN scans \ {key} PROVE k[2] \in Keys /\ ProgressOK(k, scans[k])'
  <2>1. ProgressOK(k, scans[k]) /\ k[2] \in Keys
    BY DEF CollectionsInv, ScansOK
  <2>2. ASSUME NEW m \in scans[k].members PROVE observed'[m] >= k[2][2]
    <3>1. m \in Movies /\ observed[m] >= k[2][2] /\ observed[m] \in Nat
      BY <2>1 DEF ProgressOK, Progresses, CollectionsInv, WorldOK
    <3>2. k[2][2] \in Nat
      BY <2>1 DEF Keys
    <3> QED
      BY <3>1, <3>2
  <2>3. scans'[k] = scans[k]
    OBVIOUS
  <2> QED
    BY <2>1, <2>2, <2>3 DEF ProgressOK
<1>2. ScansOK'
  <2>1. ASSUME NEW k \in DOMAIN scans' PROVE k[2] \in Keys /\ ProgressOK(k, scans[k])'
    <3>1. CASE k = key
      BY <3>1 DEF ProgressOK
    <3>2. CASE k # key
      BY <1>1, <3>2
    <3> QED
      BY <3>1, <3>2
  <2> QED
    BY <2>1 DEF ScansOK
<1>3. ASSUME NEW g \in Visitors \ {f}, visitor[g].doing = "scan"
      PROVE  visitor[g].scan \in DOMAIN scans' /\ scans'[visitor[g].scan].held
  <2>1. ScanOK(g)
    BY <1>3 DEF CollectionsInv, VisitorsOK
  <2> QED
    BY <1>3, <2>1 DEF ScanOK
<1>4. w.doing \notin {"upsert", "associate", "replace"}
  BY DEF Free
<1>5. w.doing \in {"wait", "scan"} => w.scan[2] \in Keys
  BY DEF Free
<1>6. w.doing = "scan" => w.scan \in DOMAIN scans' /\ scans'[w.scan].held
  BY DEF Free
<1>7. w.doing = "scan" => \A g \in Visitors \ {f} :
          visitor[g].doing = "scan" => visitor[g].scan # w.scan
  BY DEF Free
<1>8. VisitorsOK'
  BY <1>3, <1>4, <1>5, <1>6, <1>7, VisitorsStep DEF CollectionsInv
<1> QED
  BY <1>2, <1>8

\* A step of a scan that leaves the registry, the evidence and the movies'
\* rows alone.
LEMMA ScanStep ==
    ASSUME CollectionsInv, NEW f \in Visitors, NEW key, NEW scan, NEW w,
           UNCHANGED <<clock, serving, provider, observed, collections, boxes,
                       renamed, evidence, updates, verdict>>,
           DOMAIN scans' = DOMAIN scans \cup {key}, scans'[key] = scan,
           \A k \in DOMAIN scans \ {key} : scans'[k] = scans[k],
           key[2] \in Keys, ProgressOK(key, scan),
           DOMAIN visitor' = Visitors, visitor'[f] = w,
           \A g \in Visitors \ {f} : visitor'[g] = visitor[g],
           \A g \in Visitors \ {f} :
               visitor[g].doing = "scan" => visitor[g].scan # key,
           \/ w = Free
           \/ w.doing = "scan" /\ w.scan = key /\ scan.held
    PROVE  CollectionsInv'
<1>1. WorldOK' /\ RegistryOK' /\ EvidenceOK' /\ UpdatesOK'
  BY DEF CollectionsInv, WorldOK, RegistryOK, EvidenceOK, UpdatesOK
<1>2. \A m \in Movies : observed'[m] \in Nat /\ observed[m] <= observed'[m]
  BY DEF CollectionsInv, WorldOK
<1>3. ProgressOK(key, scan)'
  BY DEF ProgressOK
<1>4. VisitorsOK' /\ ScansOK'
  BY <1>2, <1>3, ScanFibers
<1> QED
  BY <1>1, <1>4 DEF CollectionsInv

\* The progress of a scan is taken by one fiber.
LEMMA EnterKeepsCollections ==
    ASSUME CollectionsInv, NEW f \in Visitors, EnterScan(f)
    PROVE  CollectionsInv'
<1>1. PICK key : key = visitor[f].scan
  OBVIOUS
<1>2. PICK old : old = IF key \in DOMAIN scans THEN scans[key] ELSE NewScan
  OBVIOUS
<1>3. PICK scan : scan = [old EXCEPT !.held = ~old.complete]
  OBVIOUS
<1>4. PICK w : w = IF old.complete THEN Free ELSE [doing |-> "scan", scan |-> key]
  OBVIOUS
<1>5. /\ visitor[f].doing = "wait" /\ ~old.held
      /\ scans' = With(scans, key, scan)
      /\ visitor' = [visitor EXCEPT ![f] = w]
      /\ UNCHANGED <<clock, serving, provider, observed, collections, boxes,
                     renamed, evidence, updates, verdict>>
  BY <1>1, <1>2, <1>3, <1>4 DEF EnterScan, Takes, Doing, upstreamSide, itemRows, registry
<1>6. key[2] \in Keys
  BY <1>1, <1>5 DEF CollectionsInv, VisitorsOK
<1>7. old \in Progresses /\ ProgressOK(key, old)
  <2>1. CASE key \in DOMAIN scans
    BY <1>2, <2>1 DEF CollectionsInv, ScansOK, ProgressOK
  <2>2. CASE key \notin DOMAIN scans
    <3>1. NewScan \in Progresses
      BY DEF NewScan, Progresses
    <3>2. old = NewScan /\ ~NewScan.listed /\ NewScan.left = {} /\ NewScan.members = {}
      BY <1>2, <2>2 DEF NewScan
    <3> QED
      BY <3>1, <3>2 DEF ProgressOK
  <2> QED
    BY <2>1, <2>2
<1>8. ProgressOK(key, scan) /\ scan.held = ~old.complete
  <2>1. PICK z \in BOOLEAN : z = ~old.complete
    OBVIOUS
  <2>2. /\ scan \in Progresses /\ scan.held = z
        /\ scan.left = old.left /\ scan.members = old.members
        /\ scan.listed = old.listed /\ scan.failed = old.failed
    BY <1>3, <1>7, <2>1 DEF Progresses
  <2> QED
    BY <1>7, <2>1, <2>2 DEF ProgressOK
<1>9. ASSUME NEW g \in Visitors \ {f}, visitor[g].doing = "scan"
      PROVE  visitor[g].scan # key
  <2>1. ScanOK(g)
    BY <1>9 DEF CollectionsInv, VisitorsOK
  <2> QED
    BY <1>2, <1>5, <2>1 DEF ScanOK
<1>10. \/ w = Free
       \/ w.doing = "scan" /\ w.scan = key /\ scan.held
  BY <1>4, <1>8
<1>11. /\ DOMAIN visitor' = Visitors /\ visitor'[f] = w
       /\ \A g \in Visitors \ {f} : visitor'[g] = visitor[g]
  BY <1>5 DEF CollectionsInv, VisitorsOK
<1>12. /\ DOMAIN scans' = DOMAIN scans \cup {key}
       /\ scans'[key] = scan
       /\ \A k \in DOMAIN scans \ {key} : scans'[k] = scans[k]
  BY <1>5 DEF With
<1> QED
  BY <1>5, <1>6, <1>8, <1>9, <1>10, <1>11, <1>12, ScanStep

\* What a fiber that scans relies on.
LEMMA ScanHeld ==
    ASSUME CollectionsInv, NEW f \in Visitors, visitor[f].doing = "scan"
    PROVE  /\ visitor[f].scan \in DOMAIN scans
           /\ scans[visitor[f].scan].held
           /\ \A g \in Visitors \ {f} :
                 visitor[g].doing = "scan" => visitor[g].scan # visitor[f].scan
           /\ visitor[f].scan[2] \in Keys
           /\ ProgressOK(visitor[f].scan, scans[visitor[f].scan])
  BY DEF CollectionsInv, VisitorsOK, ScanOK, ScansOK

\* The movies of the box set are listed, one of them is passed over, or the
\* scan is abandoned.
LEMMA ScanGoesOn ==
    ASSUME CollectionsInv, NEW f \in Visitors,
           ListMovies(f) \/ PassMovie(f) \/ AbandonScan(f)
    PROVE  CollectionsInv'
<1>1. PICK key : key = visitor[f].scan
  OBVIOUS
<1>2. PICK old : old = scans[key]
  OBVIOUS
<1>3. /\ visitor[f].doing = "scan"
      /\ UNCHANGED <<clock, serving, provider, observed, collections, boxes,
                     renamed, evidence, updates, verdict>>
  BY DEF ListMovies, PassMovie, AbandonScan, Doing, upstreamSide, itemRows, registry
<1>4. /\ key \in DOMAIN scans /\ old.held
      /\ \A g \in Visitors \ {f} :
            visitor[g].doing = "scan" => visitor[g].scan # key
      /\ key[2] \in Keys /\ ProgressOK(key, old) /\ old \in Progresses
  BY <1>1, <1>2, <1>3, ScanHeld DEF ProgressOK
<1>5. DOMAIN visitor = Visitors
  BY DEF CollectionsInv, VisitorsOK
<1>6. CASE ListMovies(f)
  <2>1. PICK scan : scan = [old EXCEPT !.listed = TRUE, !.left = Contents[key[2][1]]]
    OBVIOUS
  <2>2. scans' = [scans EXCEPT ![key] = scan] /\ visitor' = visitor /\ ~old.listed
    BY <1>1, <1>2, <1>6, <2>1 DEF ListMovies, Progress, Scanning
  <2>3. Contents[key[2][1]] \subseteq Movies
    BY <1>4, ContentsAssumption DEF Keys
  <2>4. /\ scan \in Progresses /\ scan.held
        /\ scan.left = Contents[key[2][1]] /\ scan.members = old.members
    BY <1>4, <2>1, <2>3 DEF Progresses
  <2>5. ProgressOK(key, scan)
    BY <1>4, <2>4 DEF ProgressOK
  <2>6. /\ DOMAIN scans' = DOMAIN scans \cup {key} /\ scans'[key] = scan
        /\ \A k \in DOMAIN scans \ {key} : scans'[k] = scans[k]
    BY <1>4, <2>2
  <2>7. PICK w : w = visitor[f]
    OBVIOUS
  <2>8. w.doing = "scan" /\ w.scan = key /\ scan.held /\ visitor'[f] = w
    BY <1>1, <1>3, <2>2, <2>4, <2>7
  <2> QED
    BY <1>3, <1>4, <1>5, <2>2, <2>5, <2>6, <2>8, ScanStep
<1>7. CASE PassMovie(f)
  <2>1. PICK m \in old.left, failed \in BOOLEAN :
          /\ failed \/ LibraryOf[m] \notin key[3]
          /\ scans' = [scans EXCEPT ![key] =
                [old EXCEPT !.left = @ \ {m}, !.failed = @ \/ failed]]
    BY <1>1, <1>2, <1>7 DEF PassMovie, Progress, Scanning
  <2>2. PICK z \in BOOLEAN : z = (old.failed \/ failed)
    OBVIOUS
  <2>3. PICK scan : scan = [old EXCEPT !.left = old.left \ {m}, !.failed = z]
    OBVIOUS
  <2>4. scans' = [scans EXCEPT ![key] = scan] /\ visitor' = visitor
    BY <1>7, <2>1, <2>2, <2>3 DEF PassMovie
  <2>5. /\ scan \in Progresses /\ scan.held
        /\ scan.left = old.left \ {m} /\ scan.members = old.members
        /\ scan.failed = z /\ scan.listed = old.listed
    BY <1>4, <2>3 DEF Progresses
  <2>6. ProgressOK(key, scan)
    <3>1. ~z => ~old.failed /\ LibraryOf[m] \notin key[3]
      BY <2>1, <2>2
    <3> QED
      BY <1>4, <2>5, <3>1 DEF ProgressOK
  <2>7. /\ DOMAIN scans' = DOMAIN scans \cup {key} /\ scans'[key] = scan
        /\ \A k \in DOMAIN scans \ {key} : scans'[k] = scans[k]
    BY <1>4, <2>4
  <2>8. PICK w : w = visitor[f]
    OBVIOUS
  <2>9. w.doing = "scan" /\ w.scan = key /\ scan.held /\ visitor'[f] = w
    BY <1>1, <1>3, <2>4, <2>5, <2>8
  <2> QED
    BY <1>3, <1>4, <1>5, <2>4, <2>6, <2>7, <2>9, ScanStep
<1>8. CASE AbandonScan(f)
  <2>1. PICK scan : scan = [old EXCEPT !.held = FALSE]
    OBVIOUS
  <2>2. /\ scans' = [scans EXCEPT ![key] = scan]
        /\ visitor' = [visitor EXCEPT ![f] = Free]
    BY <1>1, <1>2, <1>8, <2>1 DEF AbandonScan, Progress, Scanning, Takes
  <2>3. /\ scan \in Progresses
        /\ scan.left = old.left /\ scan.members = old.members
        /\ scan.listed = old.listed /\ scan.failed = old.failed
    BY <1>4, <2>1 DEF Progresses
  <2>4. ProgressOK(key, scan)
    BY <1>4, <2>3 DEF ProgressOK
  <2>5. /\ DOMAIN scans' = DOMAIN scans \cup {key} /\ scans'[key] = scan
        /\ \A k \in DOMAIN scans \ {key} : scans'[k] = scans[k]
    BY <1>4, <2>2
  <2>6. /\ DOMAIN visitor' = Visitors /\ visitor'[f] = Free
        /\ \A g \in Visitors \ {f} : visitor'[g] = visitor[g]
    BY <1>5, <2>2
  <2> QED
    BY <1>3, <1>4, <2>4, <2>5, <2>6, ScanStep
<1> QED
  BY <1>6, <1>7, <1>8

-----------------------------------------------------------------------------
(* Aliases                                                                 *)

\* Every set of natural numbers has a least member.
LEMMA Least ==
    ASSUME NEW T \in SUBSET Nat, T # {}
    PROVE  \E x \in T : \A y \in T : x <= y
<1> DEFINE R == OpToRel(<, Nat)
<1>1. IsWellFoundedOn(R, Nat)
  BY NatLessThanWellFounded
<1>2. \A x, y \in Nat : <<x, y>> \in R <=> x < y
  BY DEF OpToRel
<1> HIDE DEF R
<1>3. PICK x \in T : \A y \in T : ~ (<<y, x>> \in R)
  BY <1>1, WFMin
<1>4. ASSUME NEW y \in T PROVE x <= y
  <2>1. ~ (y < x)
    BY <1>2, <1>3
  <2> QED
    BY <2>1
<1> QED
  BY <1>4

\* The end of the aliases is no alias, and what is no alias is its own end: one
\* step is enough, since aliases lead to TMDB sets.
LEMMA ResolveLeads ==
    ASSUME RegistryOK, NEW id
    PROVE  /\ Resolve(id) \notin DOMAIN renamed
           /\ id \notin DOMAIN renamed => Resolve(id) = id
<1>1. PICK end : end = IF id \in DOMAIN renamed THEN renamed[id] ELSE id
  OBVIOUS
<1>2. PICK dom : dom = DOMAIN renamed
  OBVIOUS
<1>3. PICK most : most = Cardinality(DOMAIN renamed)
  OBVIOUS
<1>4. end \notin dom
  BY <1>1, <1>2, IdsDiffer DEF RegistryOK
<1>5. most \in Nat /\ (id \in dom => most # 0)
  <2>1. IsFiniteSet(dom) /\ most = Cardinality(dom)
    BY <1>2, <1>3 DEF RegistryOK
  <2> QED
    BY <2>1, FS_CardinalityType, FS_EmptySet
<1> DEFINE Next1(c) == IF c \in DOMAIN renamed THEN renamed[c] ELSE c
           Step(h) == [n \in 0 .. most |-> IF n = 0 THEN id ELSE Next1(h[n - 1])]
<1>6. Next1(id) = end /\ Next1(end) = end
  BY <1>1, <1>2, <1>4
<1> HIDE DEF Next1
<1>7. \E h : h = Step(h)
  <2>1. PICK h : h = [n \in 0 .. most |-> IF n = 0 THEN id ELSE end]
    OBVIOUS
  <2>2. ASSUME NEW n \in 0 .. most, n # 0 PROVE Next1(h[n - 1]) = end
    <3>1. n - 1 \in 0 .. most
      BY <1>5, <2>2
    <3> QED
      BY <1>6, <2>1, <3>1
  <2>3. h = Step(h)
    BY <2>1, <2>2
  <2> QED
    BY <2>3
<1>8. PICK a : a = Step(a) /\ Resolve(id) = a[most]
  <2>1. Resolve(id) = (CHOOSE h : h = Step(h))[most]
    BY <1>3 DEF Resolve, Next1
  <2>2. PICK a : a = CHOOSE h : h = Step(h)
    OBVIOUS
  <2>3. Resolve(id) = a[most]
    BY <2>1, <2>2
  <2> HIDE DEF Step
  <2>4. a = Step(a)
    BY <1>7, <2>2
  <2> QED
    BY <2>3, <2>4
<1>9. \A n \in 0 .. most : a[n] = IF n = 0 THEN id ELSE end
  <2> DEFINE Bad == {n \in 0 .. most : a[n] # IF n = 0 THEN id ELSE end}
  <2>1. SUFFICES ASSUME Bad # {} PROVE FALSE
    OBVIOUS
  <2>2. PICK n \in Bad : \A k \in Bad : n <= k
    <3>1. Bad \in SUBSET Nat
      BY <1>5
    <3> QED
      BY <2>1, <3>1, Least
  <2>3. n \in 0 .. most /\ n \in Nat /\ a[n] # IF n = 0 THEN id ELSE end
    BY <1>5, <2>2
  <2>4. a[n] = IF n = 0 THEN id ELSE Next1(a[n - 1])
    BY <1>8, <2>3
  <2>5. n # 0
    BY <2>3, <2>4
  <2>6. n - 1 \in 0 .. most /\ n - 1 \notin Bad
    BY <1>5, <2>2, <2>3, <2>5
  <2>7. a[n - 1] \in {id, end}
    BY <2>6
  <2>8. a[n] = end
    BY <1>6, <2>4, <2>5, <2>7
  <2> QED
    BY <2>3, <2>5, <2>8
<1>10. a[most] = end
  <2>1. most \in 0 .. most
    BY <1>5
  <2>2. CASE most = 0
    BY <1>1, <1>2, <1>5, <1>9, <2>1, <2>2
  <2>3. CASE most # 0
    BY <1>9, <2>1, <2>3
  <2> QED
    BY <2>2, <2>3
<1> QED
  BY <1>1, <1>2, <1>4, <1>8, <1>10

-----------------------------------------------------------------------------
(* Snapshots                                                               *)

\* The snapshot of a box set holds movies of the box set, with the collection
\* its source is in; nothing else is touched.
LEMMA SnapshotKeeps ==
    ASSUME CollectionsInv, NEW scan, scan[2] \in Keys, NEW members,
           members \subseteq Contents[scan[2][1]], NEW complete \in BOOLEAN,
           Snapshot(scan, members, complete),
           UNCHANGED <<collections, renamed, updates, verdict>>
    PROVE  /\ RegistryOK' /\ EvidenceOK' /\ UpdatesOK'
           /\ \A e \in DOMAIN evidence \ DOMAIN evidence' :
                 /\ complete /\ e[1] = "boxset" /\ e[2] = scan[2]
                 /\ \A m \in members : observed'[m] = scan[2][2] /\ m \notin quarantined' =>
                                         e # BoxEvidence(scan[2], m)
<1> DEFINE key == scan[2]
           kept == {e \in DOMAIN evidence : ~(complete /\ OfBox(e, key))}
           proven == {BoxEvidence(key, m) :
                         m \in {x \in members : observed'[x] = key[2] /\ x \notin quarantined'}}
<1>1. RegistryOK /\ EvidenceOK /\ UpdatesOK /\ WorldOK
  BY DEF CollectionsInv
<1>2. CASE ~MayWrite(scan)
  <2>1. UNCHANGED <<evidence, boxes>>
    BY <1>2 DEF Snapshot
  <2> QED
    BY <1>1, <2>1 DEF RegistryOK, EvidenceOK, UpdatesOK
<1>3. CASE MayWrite(scan)
  <2>1. PICK row : row = [collection |-> Resolve(scan[1]), generation |-> key[2]]
    OBVIOUS
  <2>2. /\ evidence' = Over([e \in proven |-> row], Restrict(evidence, kept))
        /\ boxes' = [boxes EXCEPT ![key].updated = clock]
    BY <1>3, <2>1 DEF Snapshot
  <2>3. key \in DOMAIN boxes /\ boxes[key].collection = Resolve(scan[1])
    BY <1>3 DEF MayWrite
  <2>4. row \in [collection : DOMAIN collections \ DOMAIN renamed, generation : Nat]
    <3>1. Resolve(scan[1]) \notin DOMAIN renamed
      BY <1>1, ResolveLeads
    <3>2. Resolve(scan[1]) \in DOMAIN collections
      BY <1>1, <2>3 DEF RegistryOK
    <3>3. key[2] \in Nat
      BY DEF Keys
    <3> QED
      BY <2>1, <3>1, <3>2, <3>3
  <2>5. PICK more : more = proven
    OBVIOUS
  <2>6. PICK left : left = kept
    OBVIOUS
  <2>7. \A e \in more : \E m \in members : e = BoxEvidence(key, m)
    BY <2>5
  <2>8. left \subseteq DOMAIN evidence
    BY <2>6
  <2>9. evidence' = Over([e \in more |-> row], Restrict(evidence, left))
    BY <2>2, <2>5, <2>6
  <2>10. /\ DOMAIN evidence' = more \cup left
         /\ \A e \in more : evidence'[e] = row
         /\ \A e \in left \ more : evidence'[e] = evidence[e]
    BY <2>8, <2>9 DEF Over, Restrict
  <2>11. RegistryOK'
    <3>1. ASSUME NEW k \in DOMAIN boxes
          PROVE  boxes'[k] \in [collection : DOMAIN collections, updated : Nat]
      <4>1. boxes[k] \in [collection : DOMAIN collections, updated : Nat]
        BY <1>1 DEF RegistryOK
      <4>2. clock \in Nat
        BY <1>1 DEF WorldOK
      <4> QED
        BY <2>2, <4>1, <4>2
    <3>2. DOMAIN boxes' = DOMAIN boxes
      BY <2>2
    <3> QED
      BY <1>1, <3>1, <3>2 DEF RegistryOK
  <2>12. EvidenceOK'
    <3>1. ASSUME NEW e \in more
          PROVE  /\ \E k \in Keys : \E m \in Contents[k[1]] : e = BoxEvidence(k, m)
                 /\ evidence'[e] \in [collection : DOMAIN collections \ DOMAIN renamed,
                                      generation : Nat]
      BY <2>4, <2>7, <2>10
    <3>2. ASSUME NEW e \in left \ more
          PROVE  /\ \/ \E k \in Keys : \E m \in Contents[k[1]] : e = BoxEvidence(k, m)
                    \/ \E m \in Movies : e = TmdbEvidence(m)
                 /\ evidence'[e] \in [collection : DOMAIN collections \ DOMAIN renamed,
                                      generation : Nat]
      BY <1>1, <2>8, <2>10 DEF EvidenceOK
    <3> QED
      BY <2>10, <3>1, <3>2 DEF EvidenceOK
  <2>13. ASSUME NEW m
         PROVE  /\ TmdbEvidence(m) \in DOMAIN evidence' <=> TmdbEvidence(m) \in DOMAIN evidence
                /\ TmdbEvidence(m) \in DOMAIN evidence' =>
                      evidence'[TmdbEvidence(m)] = evidence[TmdbEvidence(m)]
    <3>1. TmdbEvidence(m) \notin more
      BY <2>7, IdsDiffer
    <3>2. TmdbEvidence(m) \in left <=> TmdbEvidence(m) \in DOMAIN evidence
      BY <2>6 DEF OfBox, TmdbEvidence
    <3> QED
      BY <2>10, <3>1, <3>2
  <2>14. UpdatesOK'
    BY <1>1, <2>13 DEF UpdatesOK
  <2>15. ASSUME NEW e \in DOMAIN evidence \ DOMAIN evidence'
         PROVE  /\ complete /\ e[1] = "boxset" /\ e[2] = key
                /\ \A m \in members : observed'[m] = key[2] /\ m \notin quarantined' =>
                                        e # BoxEvidence(key, m)
    <3>1. e \notin left /\ e \notin more
      BY <2>10
    <3>2. complete /\ OfBox(e, key)
      BY <2>6, <3>1
    <3>3. \A m \in members : observed'[m] = key[2] /\ m \notin quarantined' =>
                                  e # BoxEvidence(key, m)
      BY <2>5, <3>1
    <3> QED
      BY <3>2, <3>3 DEF OfBox
  <2> QED
    BY <2>11, <2>12, <2>14, <2>15
<1> QED
  BY <1>2, <1>3

\* A movie of the box set is found in a library of the scope.
LEMMA ProveKeepsCollections ==
    ASSUME CollectionsInv, NEW f \in Visitors, ProveMovie(f)
    PROVE  CollectionsInv' /\ DOMAIN evidence \subseteq DOMAIN evidence'
<1>1. PICK key : key = visitor[f].scan
  OBVIOUS
<1>2. PICK old : old = scans[key]
  OBVIOUS
<1>3. /\ visitor[f].doing = "scan"
      /\ UNCHANGED <<clock, serving, provider, collections, renamed, updates, visitor, verdict>>
  BY DEF ProveMovie, Doing, upstreamSide
<1>4. PICK m \in old.left :
        /\ key[2][2] = serving
        /\ observed' = [observed EXCEPT ![m] = serving]
        /\ Snapshot(key, {m}, FALSE)
        /\ scans' = [scans EXCEPT ![key] =
              [old EXCEPT !.left = @ \ {m}, !.members = @ \cup {m}]]
  BY <1>1, <1>2 DEF ProveMovie, Progress, Scanning, AtServing, Ingest
<1>5. /\ key \in DOMAIN scans /\ old.held
      /\ \A g \in Visitors \ {f} :
            visitor[g].doing = "scan" => visitor[g].scan # key
      /\ key[2] \in Keys /\ ProgressOK(key, old) /\ old \in Progresses
  BY <1>1, <1>2, <1>3, ScanHeld DEF ProgressOK
<1>6. /\ m \in Movies /\ m \in Contents[key[2][1]]
      /\ WorldOK /\ DOMAIN visitor = Visitors
  BY <1>5 DEF ProgressOK, Progresses, CollectionsInv, VisitorsOK
<1>7. /\ WorldOK'
      /\ \A x \in Movies : observed'[x] \in Nat /\ observed[x] <= observed'[x]
      /\ observed'[m] = serving
  BY <1>3, <1>4, <1>6 DEF WorldOK
<1>8. /\ RegistryOK' /\ EvidenceOK' /\ UpdatesOK'
      /\ DOMAIN evidence \subseteq DOMAIN evidence'
  <2>1. PICK one : one = {m}
    OBVIOUS
  <2>2. PICK no \in BOOLEAN : no = FALSE
    OBVIOUS
  <2>3. Snapshot(key, one, no) /\ one \subseteq Contents[key[2][1]]
    BY <1>4, <1>6, <2>1, <2>2
  <2> QED
    BY <1>3, <1>5, <2>2, <2>3, SnapshotKeeps
<1>9. PICK scan : scan = [old EXCEPT !.left = old.left \ {m},
                                     !.members = old.members \cup {m}]
  OBVIOUS
<1>10. /\ scan \in Progresses /\ scan.held
       /\ scan.left = old.left \ {m} /\ scan.members = old.members \cup {m}
       /\ scan.listed = old.listed /\ scan.failed = old.failed
  BY <1>5, <1>6, <1>9 DEF Progresses
<1>11. ProgressOK(key, scan)'
  <2>1. ASSUME NEW x \in scan.members PROVE observed'[x] >= key[2][2]
    <3>1. key[2][2] \in Nat
      BY <1>5 DEF Keys
    <3>2. CASE x = m
      BY <1>4, <1>7, <3>1, <3>2
    <3>3. CASE x # m
      <4>1. x \in old.members /\ x \in Movies
        BY <1>5, <1>10, <3>3 DEF Progresses
      <4>2. observed[x] >= key[2][2] /\ observed[x] \in Nat
        BY <1>5, <1>6, <4>1 DEF ProgressOK, WorldOK
      <4> QED
        BY <1>7, <3>1, <4>1, <4>2
    <3> QED
      BY <3>2, <3>3
  <2>2. /\ scan.left \subseteq Contents[key[2][1]]
        /\ scan.members \subseteq Contents[key[2][1]]
        /\ scan.listed /\ ~scan.failed =>
              \A x \in Contents[key[2][1]] :
                  x \in scan.left \cup scan.members \/ LibraryOf[x] \notin key[3]
    BY <1>5, <1>6, <1>10 DEF ProgressOK
  <2> QED
    BY <1>10, <2>1, <2>2 DEF ProgressOK
<1>12. /\ DOMAIN scans' = DOMAIN scans \cup {key} /\ scans'[key] = scan
       /\ \A k \in DOMAIN scans \ {key} : scans'[k] = scans[k]
  BY <1>4, <1>5, <1>9
<1>13. PICK w : w = visitor[f]
  OBVIOUS
<1>14. w.doing = "scan" /\ w.scan = key /\ scan.held /\ visitor'[f] = w
  BY <1>1, <1>3, <1>10, <1>13
<1>15. VisitorsOK' /\ ScansOK'
  BY <1>3, <1>5, <1>6, <1>7, <1>11, <1>12, <1>14, ScanFibers
<1> QED
  BY <1>7, <1>8, <1>15 DEF CollectionsInv

\* A scan that found every movie it could replaces the snapshot; what it takes
\* away is in no library of its scope.
LEMMA FinishKeepsCollections ==
    ASSUME CollectionsInv, NEW f \in Visitors, FinishScan(f)
    PROVE  /\ CollectionsInv'
           /\ \A e \in DOMAIN evidence \ DOMAIN evidence' :
                 e[2][2] = serving =>
                    /\ e[2] = visitor[f].scan[2]
                    /\ \/ LibraryOf[MovieOf(e)] \notin visitor[f].scan[3]
                       \/ MovieOf(e) \in quarantined
<1>1. PICK key : key = visitor[f].scan
  OBVIOUS
<1>2. PICK old : old = scans[key]
  OBVIOUS
<1>3. PICK scan : scan = IF old.failed THEN NewScan
                         ELSE [old EXCEPT !.complete = TRUE, !.held = FALSE]
  OBVIOUS
<1>4. PICK whole \in BOOLEAN : whole = ~old.failed
  OBVIOUS
<1>5. /\ visitor[f].doing = "scan" /\ old.listed /\ old.left = {}
      /\ Snapshot(key, old.members, whole)
      /\ scans' = [scans EXCEPT ![key] = scan]
      /\ visitor' = [visitor EXCEPT ![f] = Free]
      /\ UNCHANGED <<clock, serving, provider, observed, quarantined, collections, renamed,
                     updates, verdict>>
  BY <1>1, <1>2, <1>3, <1>4 DEF FinishScan, Progress, Scanning, Takes, Doing, Whole,
     upstreamSide, itemRows
<1>6. /\ key \in DOMAIN scans
      /\ \A g \in Visitors \ {f} :
            visitor[g].doing = "scan" => visitor[g].scan # key
      /\ key[2] \in Keys /\ ProgressOK(key, old) /\ old \in Progresses
  BY <1>1, <1>2, <1>5, ScanHeld DEF ProgressOK
<1>7. /\ WorldOK' /\ WorldOK /\ EvidenceOK /\ DOMAIN visitor = Visitors
      /\ \A x \in Movies : observed'[x] \in Nat /\ observed[x] <= observed'[x]
  BY <1>5 DEF WorldOK, CollectionsInv, VisitorsOK
<1>8. PICK members : members = old.members
  OBVIOUS
<1>9. /\ RegistryOK' /\ EvidenceOK' /\ UpdatesOK'
      /\ \A e \in DOMAIN evidence \ DOMAIN evidence' :
            /\ whole /\ e[1] = "boxset" /\ e[2] = key[2]
            /\ \A m \in members : observed'[m] = key[2][2] /\ m \notin quarantined' =>
                                    e # BoxEvidence(key[2], m)
  <2>1. Snapshot(key, members, whole) /\ members \subseteq Contents[key[2][1]]
    BY <1>5, <1>6, <1>8 DEF ProgressOK
  <2> QED
    BY <1>5, <1>6, <2>1, SnapshotKeeps
<1>10. ProgressOK(key, scan)'
  <2>1. CASE old.failed
    <3>1. NewScan \in Progresses
      BY DEF NewScan, Progresses
    <3>2. scan = NewScan /\ ~NewScan.listed /\ NewScan.left = {} /\ NewScan.members = {}
      BY <1>3, <2>1 DEF NewScan
    <3> QED
      BY <3>1, <3>2 DEF ProgressOK
  <2>2. CASE ~old.failed
    <3>1. scan = [old EXCEPT !.complete = TRUE, !.held = FALSE]
      BY <1>3, <2>2
    <3>2. /\ scan \in Progresses
          /\ scan.left = old.left /\ scan.members = old.members
          /\ scan.listed = old.listed /\ scan.failed = old.failed
      BY <1>6, <3>1 DEF Progresses
    <3> QED
      BY <1>5, <1>6, <3>2 DEF ProgressOK
  <2> QED
    BY <2>1, <2>2
<1>11. /\ DOMAIN scans' = DOMAIN scans \cup {key} /\ scans'[key] = scan
       /\ \A k \in DOMAIN scans \ {key} : scans'[k] = scans[k]
  BY <1>5, <1>6
<1>12. /\ DOMAIN visitor' = Visitors /\ visitor'[f] = Free
       /\ \A g \in Visitors \ {f} : visitor'[g] = visitor[g]
  BY <1>5, <1>7
<1>13. VisitorsOK' /\ ScansOK'
  BY <1>5, <1>6, <1>7, <1>10, <1>11, <1>12, ScanFibers
<1>14. ASSUME NEW e \in DOMAIN evidence \ DOMAIN evidence', e[2][2] = serving
       PROVE  /\ e[2] = key[2]
              /\ LibraryOf[MovieOf(e)] \notin key[3] \/ MovieOf(e) \in quarantined
  <2>1. whole /\ e[1] = "boxset" /\ e[2] = key[2]
    BY <1>9
  <2>2. PICK k \in Keys : \E m \in Contents[k[1]] : e = BoxEvidence(k, m)
    <3>1. ASSUME NEW m PROVE e # TmdbEvidence(m)
      BY <2>1 DEF TmdbEvidence
    <3> QED
      BY <1>7, <3>1 DEF EvidenceOK
  <2>3. PICK m \in Contents[k[1]] : e = BoxEvidence(k, m)
    BY <2>2
  <2>4. k = key[2] /\ MovieOf(e) = m /\ e = BoxEvidence(key[2], m)
    BY <2>1, <2>3 DEF BoxEvidence, MovieOf
  <2>5. m \in Contents[key[2][1]]
    BY <2>3, <2>4
  <2>6. m \in old.members \/ LibraryOf[m] \notin key[3]
    BY <1>4, <1>5, <1>6, <2>1, <2>5 DEF ProgressOK
  <2>7. m \notin old.members \/ m \in quarantined
    <3>1. SUFFICES ASSUME m \in old.members, m \notin quarantined PROVE FALSE
      OBVIOUS
    <3>2. m \in Movies /\ observed[m] >= key[2][2]
      BY <1>6, <3>1 DEF ProgressOK, Progresses
    <3>3. key[2][2] = serving
      BY <1>14, <2>1
    <3>4. observed'[m] = key[2][2]
      BY <1>5, <1>7, <3>2, <3>3 DEF WorldOK
    <3> QED
      BY <1>5, <1>8, <1>9, <2>4, <3>1, <3>4
  <2> QED
    BY <2>1, <2>4, <2>6, <2>7
<1> QED
  BY <1>1, <1>7, <1>9, <1>13, <1>14 DEF CollectionsInv

-----------------------------------------------------------------------------
(* What TMDB says                                                          *)

\* The set that the details name has its collection before its member.
LEMMA EnsureKeepsCollections ==
    ASSUME CollectionsInv, NEW f \in Visitors, EnsureCollection(f)
    PROVE  CollectionsInv'
<1>1. PICK r : r = visitor[f]
  OBVIOUS
<1>2. /\ r.doing = "associate"
      /\ collections' = IF r.tmdb = NoTmdb THEN collections
                        ELSE Over(collections, With(<<>>, TmdbCollection(r.tmdb), r.tmdb))
      /\ visitor' = [visitor EXCEPT ![f] = [r EXCEPT !.doing = "replace"]]
      /\ UNCHANGED <<clock, serving, provider, observed, boxes, renamed, evidence,
                     updates, scans, verdict>>
  BY <1>1 DEF EnsureCollection, Takes, Doing, upstreamSide, itemRows
<1>3. DetailsOK(r) /\ WorldOK /\ RegistryOK /\ DOMAIN visitor = Visitors
  BY <1>1, <1>2 DEF CollectionsInv, VisitorsOK
<1>4. r.tmdb \in TmdbIds \cup {NoTmdb} /\ r.movie \in Movies /\ r.generation \in Nat
  BY <1>3 DEF DetailsOK, Named
<1>5. /\ DOMAIN collections \subseteq DOMAIN collections'
      /\ \A id \in DOMAIN collections : collections'[id] = collections[id]
      /\ \A id \in DOMAIN collections' \ DOMAIN collections :
            r.tmdb \in TmdbIds /\ id = TmdbCollection(r.tmdb) /\ collections'[id] = r.tmdb
      /\ r.tmdb # NoTmdb => TmdbCollection(r.tmdb) \in DOMAIN collections'
  <2>1. CASE r.tmdb = NoTmdb
    BY <1>2, <2>1
  <2>2. CASE r.tmdb # NoTmdb
    <3>1. collections' = Over(collections, With(<<>>, TmdbCollection(r.tmdb), r.tmdb))
      BY <1>2, <2>2
    <3>2. PICK id : id = TmdbCollection(r.tmdb)
      OBVIOUS
    <3>3. collections' = Over(collections, With(<<>>, id, r.tmdb))
      BY <3>1, <3>2
    <3>4. /\ DOMAIN collections' = DOMAIN collections \cup {id}
          /\ \A c \in DOMAIN collections : collections'[c] = collections[c]
          /\ id \notin DOMAIN collections => collections'[id] = r.tmdb
      BY <3>3 DEF Over, With
    <3> QED
      BY <1>4, <2>2, <3>2, <3>4
  <2> QED
    BY <2>1, <2>2
<1>6. RegistryOK'
  <2>1. DOMAIN collections' \subseteq TmdbSets \cup SourceSets
    BY <1>3, <1>5 DEF RegistryOK, TmdbSets
  <2>2. ASSUME NEW t \in TmdbIds, TmdbCollection(t) \in DOMAIN collections'
        PROVE  collections'[TmdbCollection(t)] = t
    BY <1>3, <1>5, <2>2, IdsDiffer DEF RegistryOK
  <2>3. ASSUME NEW id \in SourceSets \cap DOMAIN collections'
        PROVE  collections'[id] = NoTmdb
    BY <1>3, <1>5, IdsDiffer DEF RegistryOK
  <2>4. \A k \in DOMAIN boxes' :
          boxes'[k] \in [collection : DOMAIN collections', updated : Nat]
    BY <1>2, <1>3, <1>5 DEF RegistryOK
  <2> QED
    BY <1>2, <1>3, <2>1, <2>2, <2>3, <2>4 DEF RegistryOK
<1>7. EvidenceOK'
  BY <1>2, <1>5 DEF CollectionsInv, EvidenceOK
<1>8. WorldOK' /\ UpdatesOK' /\ ScansOK'
  BY <1>2 DEF CollectionsInv, WorldOK, UpdatesOK, ScansOK, ProgressOK
<1>9. PICK w : w = [r EXCEPT !.doing = "replace"]
  OBVIOUS
<1>10. /\ DOMAIN visitor' = Visitors /\ visitor'[f] = w
       /\ \A g \in Visitors \ {f} : visitor'[g] = visitor[g]
  BY <1>2, <1>3, <1>9
<1>11. /\ w.doing = "replace" /\ w.tmdb = r.tmdb /\ DetailsOK(w)
  BY <1>3, <1>9 DEF DetailsOK
<1>12. DetailsOK(visitor[f])'
  BY <1>2, <1>10, <1>11 DEF DetailsOK
<1>13. \A g \in Visitors : visitor[g].doing = "scan" =>
          visitor[g].scan \in DOMAIN scans' /\ scans'[visitor[g].scan].held
  BY <1>2 DEF CollectionsInv, VisitorsOK, ScanOK
<1>14. \A m \in Movies : observed'[m] \in Nat /\ observed[m] <= observed'[m]
  BY <1>2, <1>3 DEF WorldOK
<1>15. VisitorsOK'
  BY <1>3, <1>5, <1>10, <1>11, <1>12, <1>13, <1>14, VisitorsStep DEF CollectionsInv
<1> QED
  BY <1>6, <1>7, <1>8, <1>15 DEF CollectionsInv

\* The movie's evidence and the history of what was said move together.
LEMMA ReplaceKeepsCollections ==
    ASSUME CollectionsInv, NEW f \in Visitors, ReplaceMembership(f)
    PROVE  /\ CollectionsInv'
           /\ \A e \in DOMAIN evidence \ DOMAIN evidence' : e[1] # "boxset"
<1>1. PICK r : r = visitor[f]
  OBVIOUS
<1>2. PICK row : row = [collection |-> TmdbCollection(r.tmdb), generation |-> r.generation]
  OBVIOUS
<1>3. /\ r.doing = "replace"
      /\ visitor' = [visitor EXCEPT ![f] = Free]
      /\ UNCHANGED <<clock, serving, provider, observed, collections, boxes, renamed, scans>>
      /\ verdict' = IF MayTake(r) THEN Heard(r) ELSE verdict
      /\ \/ /\ MayReplace(r)
            /\ evidence' = IF r.tmdb = NoTmdb
                           THEN Restrict(evidence, DOMAIN evidence \ {TmdbEvidence(r.movie)})
                           ELSE With(evidence, TmdbEvidence(r.movie), row)
            /\ updates' = With(updates, r.movie,
                               [generation |-> r.generation, updated |-> r.at])
         \/ /\ ~MayReplace(r)
            /\ UNCHANGED <<evidence, updates>>
  BY <1>1, <1>2 DEF ReplaceMembership, Takes, Doing, upstreamSide, itemRows, registry
<1>4. /\ DetailsOK(r) /\ WorldOK /\ RegistryOK /\ EvidenceOK /\ UpdatesOK
      /\ DOMAIN visitor = Visitors
      /\ r.tmdb # NoTmdb => TmdbCollection(r.tmdb) \in DOMAIN collections
  BY <1>1, <1>3 DEF CollectionsInv, VisitorsOK
<1>5. /\ r.tmdb \in Named /\ r.movie \in Movies /\ r.generation \in Nat /\ r.at \in Nat
      /\ r.generation <= observed[r.movie]
  BY <1>4 DEF DetailsOK
<1>6. MayReplace(r) => MayTake(r)
  BY DEF MayReplace
<1>7. /\ EvidenceOK' /\ UpdatesOK'
      /\ \A e \in DOMAIN evidence \ DOMAIN evidence' : e[1] # "boxset"
  <2>1. CASE ~MayReplace(r)
    <3>1. verdict' = verdict
      <4>1. ASSUME MayTake(r)
            PROVE  /\ r.movie \in DOMAIN verdict
                   /\ verdict[r.movie].generation = r.generation
                   /\ verdict[r.movie].at > r.at
        BY <1>4, <2>1, <4>1 DEF MayReplace, UpdatesOK
      <4> QED
        BY <1>3, <4>1 DEF Heard
    <3> QED
      BY <1>3, <1>4, <2>1, <3>1 DEF EvidenceOK, UpdatesOK
  <2>2. CASE MayReplace(r)
    <3>1. verdict' = With(verdict, r.movie, [generation |-> r.generation, at |-> r.at,
                                             tmdb |-> r.tmdb])
      <4>1. ~(/\ r.movie \in DOMAIN verdict
              /\ verdict[r.movie].generation = r.generation
              /\ verdict[r.movie].at > r.at)
        BY <1>4, <2>2 DEF MayReplace, UpdatesOK
      <4> QED
        BY <1>3, <1>6, <2>2, <4>1 DEF Heard
    <3>2. PICK e0 : e0 = TmdbEvidence(r.movie)
      OBVIOUS
    <3>3. /\ r.tmdb = NoTmdb => evidence' = Restrict(evidence, DOMAIN evidence \ {e0})
          /\ r.tmdb # NoTmdb => evidence' = With(evidence, e0, row)
          /\ updates' = With(updates, r.movie,
                             [generation |-> r.generation, updated |-> r.at])
      BY <1>3, <2>2, <3>2
    <3>4. /\ DOMAIN evidence \ {e0} \subseteq DOMAIN evidence'
          /\ DOMAIN evidence' \subseteq DOMAIN evidence \cup {e0}
          /\ \A e \in DOMAIN evidence \ {e0} : evidence'[e] = evidence[e]
          /\ e0 \in DOMAIN evidence' <=> r.tmdb # NoTmdb
          /\ e0 \in DOMAIN evidence' => evidence'[e0] = row
      <4>1. CASE r.tmdb = NoTmdb
        BY <3>3, <4>1 DEF Restrict
      <4>2. CASE r.tmdb # NoTmdb
        BY <3>3, <4>2 DEF With
      <4> QED
        BY <4>1, <4>2
    <3>5. r.tmdb # NoTmdb =>
            row \in [collection : DOMAIN collections \ DOMAIN renamed, generation : Nat]
      BY <1>2, <1>4, <1>5, IdsDiffer DEF RegistryOK
    <3>6. EvidenceOK'
      <4>1. ASSUME NEW e \in DOMAIN evidence', e # e0
            PROVE  /\ \/ \E k \in Keys : \E m \in Contents[k[1]] : e = BoxEvidence(k, m)
                      \/ \E m \in Movies : e = TmdbEvidence(m)
                   /\ evidence'[e] \in [collection : DOMAIN collections \ DOMAIN renamed,
                                        generation : Nat]
        BY <1>4, <3>4, <4>1 DEF EvidenceOK
      <4>2. ASSUME e0 \in DOMAIN evidence'
            PROVE  /\ \E m \in Movies : e0 = TmdbEvidence(m)
                   /\ evidence'[e0] \in [collection : DOMAIN collections \ DOMAIN renamed,
                                         generation : Nat]
        BY <1>5, <3>2, <3>4, <3>5, <4>2
      <4> QED
        BY <1>3, <4>1, <4>2 DEF EvidenceOK
    <3>7. UpdatesOK'
      <4>1. /\ DOMAIN updates' = {r.movie} \cup DOMAIN updates
            /\ DOMAIN verdict' = {r.movie} \cup DOMAIN verdict
            /\ updates'[r.movie] = [generation |-> r.generation, updated |-> r.at]
            /\ verdict'[r.movie] = [generation |-> r.generation, at |-> r.at,
                                    tmdb |-> r.tmdb]
            /\ \A m \in DOMAIN updates \ {r.movie} : updates'[m] = updates[m]
            /\ \A m \in DOMAIN verdict \ {r.movie} : verdict'[m] = verdict[m]
        BY <3>1, <3>3 DEF With
      <4>2. ASSUME NEW m \in DOMAIN verdict', m # r.movie
            PROVE  /\ m \in Movies
                   /\ updates'[m].generation = verdict'[m].generation
                   /\ updates'[m].updated = verdict'[m].at
                   /\ verdict'[m].tmdb = NoTmdb => TmdbEvidence(m) \notin DOMAIN evidence'
                   /\ verdict'[m].tmdb # NoTmdb =>
                         /\ TmdbEvidence(m) \in DOMAIN evidence'
                         /\ evidence'[TmdbEvidence(m)].collection
                              = TmdbCollection(verdict'[m].tmdb)
        <5>1. TmdbEvidence(m) # e0
          BY <3>2, <4>2, IdsDiffer
        <5>2. /\ m \in DOMAIN verdict /\ m \in DOMAIN updates
              /\ verdict'[m] = verdict[m] /\ updates'[m] = updates[m]
          BY <1>4, <4>1, <4>2 DEF UpdatesOK
        <5>3. PICK e : e = TmdbEvidence(m)
          OBVIOUS
        <5>4. /\ e \in DOMAIN evidence' <=> e \in DOMAIN evidence
              /\ e \in DOMAIN evidence => evidence'[e] = evidence[e]
          BY <3>4, <5>1, <5>3
        <5> QED
          BY <1>4, <5>2, <5>3, <5>4 DEF UpdatesOK
      <4>3. /\ r.tmdb = NoTmdb => TmdbEvidence(r.movie) \notin DOMAIN evidence'
            /\ r.tmdb # NoTmdb =>
                  /\ TmdbEvidence(r.movie) \in DOMAIN evidence'
                  /\ evidence'[TmdbEvidence(r.movie)].collection = TmdbCollection(r.tmdb)
        BY <1>2, <3>2, <3>4
      <4> QED
        BY <1>4, <1>5, <4>1, <4>2, <4>3 DEF UpdatesOK
    <3>8. \A e \in DOMAIN evidence \ DOMAIN evidence' : e[1] # "boxset"
      <4>1. e0[1] # "boxset"
        BY <3>2 DEF TmdbEvidence
      <4> QED
        BY <3>4, <4>1
    <3> QED
      BY <3>6, <3>7, <3>8
  <2> QED
    BY <2>1, <2>2
<1>8. WorldOK' /\ RegistryOK' /\ ScansOK'
  BY <1>3 DEF CollectionsInv, WorldOK, RegistryOK, ScansOK, ProgressOK
<1>9. /\ DOMAIN visitor' = Visitors /\ visitor'[f] = Free
      /\ \A g \in Visitors \ {f} : visitor'[g] = visitor[g]
  BY <1>3, <1>4
<1>10. \A g \in Visitors : visitor[g].doing = "scan" =>
          visitor[g].scan \in DOMAIN scans' /\ scans'[visitor[g].scan].held
  BY <1>3 DEF CollectionsInv, VisitorsOK, ScanOK
<1>11. \A m \in Movies : observed'[m] \in Nat /\ observed[m] <= observed'[m]
  BY <1>3, <1>4 DEF WorldOK
<1>12. Free.doing \notin {"upsert", "wait", "scan", "associate", "replace"}
  BY DEF Free
<1>13. VisitorsOK'
  BY <1>3, <1>4, <1>9, <1>10, <1>11, <1>12, VisitorsStep DEF CollectionsInv
<1> QED
  BY <1>7, <1>8, <1>13 DEF CollectionsInv

-----------------------------------------------------------------------------
(* Every step of collections                                               *)

LEMMA CollectionsStep ==
    ASSUME CollectionsInv, [CollectionsNext]_collectionsVars
    PROVE  CollectionsInv'
<1>1. CASE UNCHANGED collectionsVars
  BY <1>1 DEF collectionsVars, CollectionsInv, WorldOK, RegistryOK, EvidenceOK, VisitorsOK,
     UpsertOK, ScanOK, DetailsOK, ScansOK, ProgressOK, UpdatesOK
<1>2. ASSUME NEW f \in Visitors, BeginVisit(f) \/ BeginAssociate(f) PROVE CollectionsInv'
  BY <1>2, BeginsKeepCollections
<1>3. ASSUME NEW f \in Visitors, UpsertCollection(f) PROVE CollectionsInv'
  BY <1>3, UpsertKeepsCollections
<1>4. ASSUME NEW f \in Visitors, EnterScan(f) PROVE CollectionsInv'
  BY <1>4, EnterKeepsCollections
<1>5. ASSUME NEW f \in Visitors, ListMovies(f) \/ PassMovie(f) \/ AbandonScan(f)
      PROVE  CollectionsInv'
  BY <1>5, ScanGoesOn
<1>6. ASSUME NEW f \in Visitors, ProveMovie(f) PROVE CollectionsInv'
  BY <1>6, ProveKeepsCollections
<1>7. ASSUME NEW f \in Visitors, FinishScan(f) PROVE CollectionsInv'
  BY <1>7, FinishKeepsCollections
<1>8. ASSUME NEW f \in Visitors, EnsureCollection(f) PROVE CollectionsInv'
  BY <1>8, EnsureKeepsCollections
<1>9. ASSUME NEW f \in Visitors, ReplaceMembership(f) PROVE CollectionsInv'
  BY <1>9, ReplaceKeepsCollections
<1>10. ASSUME NEW key \in DOMAIN scans, ForgetScan(key) PROVE CollectionsInv'
  BY <1>10, ForgetKeepsCollections
<1>11. ASSUME \/ ClockAdvances \/ NextGeneration \/ HealthChanges
              \/ \E box \in BoxSets : Retag(box)
              \/ \E m \in Movies : Browse(m)
       PROVE  CollectionsInv'
  BY <1>11, WorldKeepsCollections
<1> QED
  BY <1>1, <1>2, <1>3, <1>4, <1>5, <1>6, <1>7, <1>8, <1>9, <1>10, <1>11
     DEF CollectionsNext

\* The tables of the collections agree with each other in every state.
THEOREM CollectionsAreSound == CollectionsSpec => []CollectionsInv
<1>1. CollectionsInit => CollectionsInv
  BY CollectionsStart
<1>2. CollectionsInv /\ [CollectionsNext]_collectionsVars => CollectionsInv'
  BY CollectionsStep
<1> QED
  BY <1>1, <1>2, PTL DEF CollectionsSpec

\* What TMDB said last of a movie is what its evidence says, whichever details
\* arrive late (replaceTmdbCollectionMembership).
THEOREM LatestDetailsCount == CollectionsSpec => []TmdbEvidenceIsLatest
<1>1. CollectionsInv => TmdbEvidenceIsLatest
  BY DEF CollectionsInv, UpdatesOK, TmdbEvidenceIsLatest
<1> QED
  BY <1>1, CollectionsAreSound, PTL

\* The collection of any evidence exists and is no alias (upsertCollection,
\* writeCollectionSnapshot).
THEOREM CollectionsOpen == CollectionsSpec => []ListedCollectionsOpen
<1>1. CollectionsInv => ListedCollectionsOpen
  <2> SUFFICES ASSUME CollectionsInv, NEW id \in VisibleCollections(UNION Scopes)
               PROVE  id \in DOMAIN collections /\ Resolve(id) = id
    BY DEF ListedCollectionsOpen
  <2>1. PICK e \in DOMAIN evidence : id = evidence[e].collection
    BY DEF VisibleCollections
  <2>2. id \in DOMAIN collections /\ id \notin DOMAIN renamed
    BY <2>1 DEF CollectionsInv, EvidenceOK
  <2> QED
    BY <2>2, ResolveLeads DEF CollectionsInv
<1> QED
  BY <1>1, CollectionsAreSound, PTL

\* A proven member leaves a snapshot only to a complete scan that does not look
\* into the movie's source library, or ends while the movie's row is in
\* quarantine (writeCollectionSnapshot).
THEOREM MembersStay == CollectionsSpec => ProvenMembersStay
<1>1. ASSUME CollectionsInv, [CollectionsNext]_collectionsVars,
             NEW e \in DOMAIN evidence \ DOMAIN evidence', e[1] = "boxset", AtServing(e[2])
      PROVE  \E f \in Visitors :
                /\ Doing(f, "scan") /\ visitor[f].scan[2] = e[2]
                /\ \/ LibraryOf[MovieOf(e)] \notin visitor[f].scan[3]
                   \/ MovieOf(e) \in quarantined
  <2>1. CASE \E f \in Visitors : FinishScan(f)
    <3>1. PICK f \in Visitors : FinishScan(f)
      BY <2>1
    <3>2. e[2][2] = serving
      BY <1>1 DEF AtServing
    <3>3. /\ e[2] = visitor[f].scan[2]
          /\ \/ LibraryOf[MovieOf(e)] \notin visitor[f].scan[3]
             \/ MovieOf(e) \in quarantined
      BY <1>1, <3>1, <3>2, FinishKeepsCollections
    <3>4. Doing(f, "scan")
      BY <3>1 DEF FinishScan
    <3> QED
      BY <3>3, <3>4
  <2>2. CASE \E f \in Visitors : ReplaceMembership(f)
    BY <1>1, <2>2, ReplaceKeepsCollections
  <2>3. CASE \E f \in Visitors : ProveMovie(f)
    BY <1>1, <2>3, ProveKeepsCollections
  <2>4. CASE \E f \in Visitors : UpsertCollection(f)
    <3>1. PICK f \in Visitors : UpsertCollection(f)
      BY <2>4
    <3>2. DOMAIN evidence' = DOMAIN evidence
      BY <3>1 DEF UpsertCollection, Moved
    <3> QED
      BY <1>1, <3>2
  <2>5. CASE \/ UNCHANGED collectionsVars
             \/ \E f \in Visitors :
                   \/ BeginVisit(f) \/ EnterScan(f) \/ ListMovies(f) \/ PassMovie(f)
                   \/ AbandonScan(f) \/ BeginAssociate(f) \/ EnsureCollection(f)
             \/ \E key \in DOMAIN scans : ForgetScan(key)
             \/ ClockAdvances \/ NextGeneration \/ HealthChanges
             \/ \E box \in BoxSets : Retag(box)
             \/ \E m \in Movies : Browse(m)
    <3>1. evidence' = evidence
      BY <2>5 DEF collectionsVars, BeginVisit, EnterScan, ListMovies, PassMovie, AbandonScan,
         BeginAssociate, EnsureCollection, ForgetScan, ClockAdvances, NextGeneration,
         HealthChanges, Retag, Browse, others
    <3> QED
      BY <1>1, <3>1
  <2> QED
    BY <1>1, <2>1, <2>2, <2>3, <2>4, <2>5 DEF CollectionsNext
<1>2. CollectionsInv /\ [CollectionsNext]_collectionsVars =>
          [\A e \in DOMAIN evidence \ DOMAIN evidence' :
              e[1] = "boxset" /\ serving' = serving /\ AtServing(e[2]) =>
                 \E f \in Visitors :
                    /\ Doing(f, "scan") /\ visitor[f].scan[2] = e[2]
                    /\ \/ LibraryOf[MovieOf(e)] \notin visitor[f].scan[3]
                       \/ MovieOf(e) \in quarantined]_collectionsVars
  BY <1>1
<1> QED
  BY <1>2, CollectionsAreSound, PTL DEF CollectionsSpec, ProvenMembersStay

\* The registration's batch changes what other sources are known as not at all,
\* and its own source's TMDB set only as acceptedIdentity allows.
LEMMA RegisteredAs ==
    ASSUME CollectionsInv, NEW v, UpsertOK(v), MayRegister(v), Moved(v, TargetOf(v)),
           UNCHANGED <<updates, verdict>>, v.tmdb # NoTmdb \/ v.key \notin DOMAIN boxes,
           NEW key \in DOMAIN boxes,
           collections[boxes[key].collection] # NoTmdb,
           collections'[boxes'[key].collection] # NoTmdb
    PROVE  collections'[boxes'[key].collection] = collections[boxes[key].collection]
<1>1. PICK id : id = TargetOf(v)
  OBVIOUS
<1>2. PICK moved : moved = v.old \ {id}
  OBVIOUS
<1>3. PICK accepted : accepted = Accepted(v)
  OBVIOUS
<1>4. /\ moved \subseteq SourceSets \cap DOMAIN collections
      /\ v.tmdb # NoTmdb =>
            \/ id \in DOMAIN collections /\ accepted = collections[id]
            \/ id \notin DOMAIN collections
  BY <1>1, <1>2, <1>3, TargetIsSound
<1>5. RegistryOK
  BY DEF CollectionsInv
<1>6. /\ collections' = Over(collections, With(<<>>, id, accepted))
      /\ boxes' = With([k \in DOMAIN boxes |-> [boxes[k] EXCEPT !.collection =
                           IF boxes[k].collection \in moved THEN id ELSE boxes[k].collection]],
                       v.key, [collection |-> id, updated |-> v.at])
  BY <1>1, <1>2, <1>3 DEF Moved
<1>7. /\ \A c \in DOMAIN collections : collections'[c] = collections[c]
      /\ id \notin DOMAIN collections => collections'[id] = accepted
  BY <1>6 DEF Over, With
<1>8. boxes[key] \in [collection : DOMAIN collections, updated : Nat]
  BY <1>5 DEF RegistryOK
<1>9. boxes[key].collection \notin moved
  BY <1>4, <1>5, <1>8 DEF RegistryOK
<1>10. CASE key # v.key
  <2>1. boxes'[key] = [boxes[key] EXCEPT !.collection = boxes[key].collection]
    BY <1>6, <1>9, <1>10 DEF With
  <2>2. boxes'[key].collection = boxes[key].collection
    BY <1>8, <2>1
  <2> QED
    BY <1>7, <1>8, <2>2
<1>11. CASE key = v.key
  <2>1. boxes'[key].collection = id
    BY <1>6, <1>11 DEF With
  <2>2. v.tmdb # NoTmdb
    BY <1>11
  <2>3. collections'[id] = accepted
    BY <1>4, <1>7, <2>2
  <2>4. \/ accepted = NoTmdb
        \/ accepted = collections[boxes[key].collection]
    BY <1>3, <1>11 DEF MayRegister
  <2> QED
    BY <2>1, <2>3, <2>4
<1> QED
  BY <1>10, <1>11

\* A source known as one TMDB set stays known as it, but for a registration that
\* names none (upsertCollection).
THEOREM IdentitiesStay == CollectionsSpec => IdentitiesDoNotTurn
<1>1. ASSUME CollectionsInv, [CollectionsNext]_collectionsVars,
             NEW key \in DOMAIN boxes,
             collections[boxes[key].collection] # NoTmdb,
             collections'[boxes'[key].collection] # NoTmdb,
             collections[boxes[key].collection] # collections'[boxes'[key].collection]
      PROVE  \E f \in Visitors :
                /\ Doing(f, "upsert") /\ visitor[f].key = key
                /\ visitor[f].tmdb = NoTmdb
  <2>1. boxes[key] \in [collection : DOMAIN collections, updated : Nat]
    BY <1>1 DEF CollectionsInv, RegistryOK
  <2>2. ASSUME boxes'[key].collection = boxes[key].collection,
               \A c \in DOMAIN collections : collections'[c] = collections[c]
        PROVE  FALSE
    BY <1>1, <2>1, <2>2
  <2>3. CASE \E f \in Visitors : UpsertCollection(f)
    <3>1. PICK f \in Visitors : UpsertCollection(f)
      BY <2>3
    <3>2. PICK v : v = visitor[f]
      OBVIOUS
    <3>3. /\ v.doing = "upsert"
          /\ \/ MayRegister(v) /\ Moved(v, TargetOf(v))
             \/ UNCHANGED <<collections, boxes>>
          /\ UNCHANGED <<updates, verdict>>
      <4>1. UNCHANGED <<updates, verdict>> /\ visitor[f].doing = "upsert"
        BY <3>1 DEF UpsertCollection, Doing
      <4>2. \/ MayRegister(v) /\ Moved(v, TargetOf(v))
            \/ UNCHANGED <<collections, boxes>>
        BY <3>1, <3>2 DEF UpsertCollection, registry
      <4> QED
        BY <3>2, <4>1, <4>2
    <3>4. MayRegister(v) /\ Moved(v, TargetOf(v))
      BY <2>2, <3>3
    <3>5. UpsertOK(v)
      BY <1>1, <3>2, <3>3 DEF CollectionsInv, VisitorsOK
    <3>6. UNCHANGED <<updates, verdict>>
      BY <3>3
    <3>7. v.tmdb = NoTmdb /\ v.key \in DOMAIN boxes
      <4>1. collections'[boxes'[key].collection] # collections[boxes[key].collection]
        BY <1>1
      <4>2. ~(v.tmdb # NoTmdb \/ v.key \notin DOMAIN boxes)
        BY <1>1, <3>4, <3>5, <3>6, <4>1, RegisteredAs
      <4> QED
        BY <4>2
    <3>8. v.key = key
      <4>1. SUFFICES ASSUME v.key # key PROVE FALSE
        OBVIOUS
      <4>2. /\ \A c \in DOMAIN collections : collections'[c] = collections[c]
        BY <1>1, <3>3, <3>4, <3>5, MovedKeeps
      <4>3. v.old \ {TargetOf(v)} \subseteq SourceSets \cap DOMAIN collections
        BY <1>1, <3>5, TargetIsSound
      <4>4. boxes[key].collection \notin v.old \ {TargetOf(v)}
        BY <1>1, <2>1, <4>3 DEF CollectionsInv, RegistryOK
      <4>5. PICK id : id = TargetOf(v)
        OBVIOUS
      <4>6. boxes' = With([k \in DOMAIN boxes |-> [boxes[k] EXCEPT !.collection =
                              IF boxes[k].collection \in v.old \ {id} THEN id
                              ELSE boxes[k].collection]],
                          v.key, [collection |-> id, updated |-> v.at])
        BY <3>4, <4>5 DEF Moved
      <4>7. boxes'[key] = [boxes[key] EXCEPT !.collection = boxes[key].collection]
        BY <4>1, <4>4, <4>5, <4>6 DEF With
      <4>8. boxes'[key].collection = boxes[key].collection
        BY <2>1, <4>7
      <4> QED
        BY <2>2, <4>2, <4>8
    <3> QED
      BY <3>2, <3>3, <3>7, <3>8 DEF Doing
  <2>4. CASE \E f \in Visitors : EnsureCollection(f)
    <3>1. PICK f \in Visitors : EnsureCollection(f)
      BY <2>4
    <3>2. PICK t : t = visitor[f].tmdb
      OBVIOUS
    <3>3. PICK c : c = TmdbCollection(t)
      OBVIOUS
    <3>4. /\ boxes' = boxes
          /\ \/ collections' = collections
             \/ collections' = Over(collections, With(<<>>, c, t))
      BY <3>1, <3>2, <3>3 DEF EnsureCollection
    <3>5. \A x \in DOMAIN collections : collections'[x] = collections[x]
      BY <3>4 DEF Over, With
    <3> QED
      BY <2>2, <3>4, <3>5
  <2>5. CASE \E f \in Visitors : ProveMovie(f) \/ FinishScan(f)
    <3>1. PICK f \in Visitors : ProveMovie(f) \/ FinishScan(f)
      BY <2>5
    <3>2. /\ collections' = collections
          /\ \/ boxes' = boxes
             \/ boxes' = [boxes EXCEPT ![visitor[f].scan[2]].updated = clock]
      BY <3>1 DEF ProveMovie, FinishScan, Snapshot
    <3>3. boxes'[key].collection = boxes[key].collection
      BY <2>1, <3>2
    <3> QED
      BY <2>2, <3>2, <3>3
  <2>6. CASE \/ UNCHANGED collectionsVars
             \/ \E f \in Visitors :
                   \/ BeginVisit(f) \/ EnterScan(f) \/ ListMovies(f) \/ PassMovie(f)
                   \/ AbandonScan(f) \/ BeginAssociate(f) \/ ReplaceMembership(f)
             \/ \E k \in DOMAIN scans : ForgetScan(k)
             \/ ClockAdvances \/ NextGeneration \/ HealthChanges
             \/ \E box \in BoxSets : Retag(box)
             \/ \E m \in Movies : Browse(m)
    <3>1. boxes' = boxes /\ collections' = collections
      BY <2>6 DEF collectionsVars, registry, BeginVisit, EnterScan, ListMovies, PassMovie,
         AbandonScan, BeginAssociate, ReplaceMembership, ForgetScan, ClockAdvances,
         NextGeneration, HealthChanges, Retag, Browse, others
    <3> QED
      BY <2>2, <3>1
  <2> QED
    BY <1>1, <2>3, <2>4, <2>5, <2>6 DEF CollectionsNext
<1>2. CollectionsInv /\ [CollectionsNext]_collectionsVars =>
          [\A key \in DOMAIN boxes :
              LET known == collections[boxes[key].collection]
                  then == collections'[boxes'[key].collection]
              IN  known # NoTmdb /\ then # NoTmdb /\ known # then =>
                     \E f \in Visitors :
                        /\ Doing(f, "upsert") /\ visitor[f].key = key
                        /\ visitor[f].tmdb = NoTmdb]_collectionsVars
  BY <1>1
<1> QED
  BY <1>2, CollectionsAreSound, PTL DEF CollectionsSpec, IdentitiesDoNotTurn

USE DEF Fiber

-----------------------------------------------------------------------------
(* Details                                                                 *)

\* What a fiber has left to write: the place's answer, and the suppression of
\* its details if something was said to be missing or was refused.
Writes(heard) ==
    [what : {"exact"}, found : BOOLEAN, at : Nat] \cup
    {w \in [what : {"suppress"}, at : Nat] : heard \cap {"missing", "invalid"} # {}}

\* What the reason for asking the items means to have heard.
Reasons(why) ==
    CASE why = "lost" -> {"lost"}
      [] why = "unfound" -> {"missing"}
      [] OTHER -> {}

BeginsOK(s, fiber) ==
    /\ fiber = [doing |-> fiber.doing, edition |-> fiber.edition, anchor |-> fiber.anchor,
                known |-> fiber.known, usable |-> fiber.usable, heard |-> fiber.heard,
                told |-> fiber.told]
    /\ fiber.known \subseteq CopiesOf(s) /\ fiber.heard = {}

KeepingOK(s, fiber) ==
    /\ fiber = [doing |-> fiber.doing, edition |-> fiber.edition, anchor |-> fiber.anchor,
                known |-> fiber.known, usable |-> fiber.usable, told |-> fiber.told,
                heard |-> fiber.heard, page |-> fiber.page, kept |-> fiber.kept,
                found |-> fiber.found, at |-> fiber.at]
    /\ fiber.known \subseteq CopiesOf(s) /\ fiber.heard = {}
    /\ fiber.page \subseteq CopiesOf(s) /\ fiber.kept \in CopiesOf(s) \cup {Nothing}
    /\ fiber.found \in BOOLEAN /\ fiber.at \in Nat

\* The fiber has heard what its items gave and what brought it to them.
RefreshingOK(s, fiber) ==
    /\ fiber = [doing |-> fiber.doing, edition |-> fiber.edition, anchor |-> fiber.anchor,
                known |-> fiber.known, usable |-> fiber.usable, told |-> fiber.told,
                heard |-> fiber.heard, why |-> fiber.why, at |-> fiber.at,
                left |-> fiber.left, results |-> fiber.results, kept |-> fiber.kept,
                observed |-> fiber.observed]
    /\ fiber.left \subseteq CopiesOf(s)
    /\ fiber.results \subseteq {"found", "lost", "invalid", "missing"}
    /\ fiber.heard \subseteq fiber.results \cup Reasons(fiber.why)
    /\ Reasons(fiber.why) \cup (fiber.results \ {"found"}) \subseteq fiber.heard
    /\ fiber.at \in Nat

EndingOK(fiber) ==
    /\ fiber = [doing |-> fiber.doing, edition |-> fiber.edition, anchor |-> fiber.anchor,
                writes |-> fiber.writes, told |-> fiber.told, heard |-> fiber.heard]
    /\ fiber.writes \in Seq(Writes(fiber.heard))
    /\ fiber.heard \cap {"lost", "invalid"} # {} => fiber.told

FiberOK(s, fiber) ==
    /\ fiber.doing \in {"nothing", "looking", "discovering", "keeping", "refreshing",
                        "answered", "ending"}
    /\ fiber.doing \in {"looking", "discovering"} => BeginsOK(s, fiber)
    /\ fiber.doing = "keeping" => KeepingOK(s, fiber)
    /\ fiber.doing \in {"refreshing", "answered"} => RefreshingOK(s, fiber)
    /\ fiber.doing = "answered" => fiber.kept \in CopiesOf(s) /\ fiber.observed \in Nat
    /\ fiber.doing = "ending" => EndingOK(fiber)

DetailsInv ==
    /\ hour \in Nat
    /\ DOMAIN edition = Places
    /\ DOMAIN observedAs = Copies /\ DOMAIN detail = Copies
    /\ DOMAIN asking = Openings \X Places
    /\ \A e \in Openings, s \in Places : FiberOK(s, Fiber(e, s))

LEMMA DetailsStart == DetailsInit => DetailsInv
<1> SUFFICES ASSUME DetailsInit PROVE DetailsInv
  OBVIOUS
<1>1. ASSUME NEW s PROVE FiberOK(s, NotAsking)
  BY DEF FiberOK, NotAsking
<1>2. \A e \in Openings, s \in Places : Fiber(e, s) = NotAsking
  BY DEF DetailsInit
<1> QED
  BY <1>1, <1>2 DEF DetailsInit, DetailsInv

\* A fiber goes on from a sound state to another.
LEMMA FiberStep ==
    ASSUME DetailsInv, NEW e \in Openings, NEW s \in Places, NEW w,
           asking' = [asking EXCEPT ![<<e, s>>] = w], FiberOK(s, w),
           hour' = hour, DOMAIN edition' = Places,
           DOMAIN observedAs' = Copies, DOMAIN detail' = Copies
    PROVE  DetailsInv'
<1>1. <<e, s>> \in DOMAIN asking
  BY DEF DetailsInv
<1>2. ASSUME NEW f \in Openings, NEW t \in Places PROVE FiberOK(t, asking'[<<f, t>>])
  <2>1. CASE <<f, t>> = <<e, s>>
    BY <1>1, <2>1
  <2>2. CASE <<f, t>> # <<e, s>>
    <3>1. <<f, t>> # <<e, s>> /\ <<f, t>> \in DOMAIN asking
      BY <2>2 DEF DetailsInv
    <3>2. asking'[<<f, t>>] = asking[<<f, t>>]
      BY <3>1
    <3> QED
      BY <3>2 DEF DetailsInv
  <2> QED
    BY <2>1, <2>2
<1> QED
  BY <1>1, <1>2 DEF DetailsInv

\* The items are asked for, for a reason that was heard.
LEMMA RefreshingFits ==
    ASSUME NEW s, NEW fiber, NEW why, NEW at \in Nat, NEW heard,
           fiber.known \subseteq CopiesOf(s), fiber.heard = {}, heard = Reasons(why)
    PROVE  FiberOK(s, Refreshing(fiber, why, at, heard))
<1>1. PICK w : w = Refreshing(fiber, why, at, heard)
  OBVIOUS
<1>2. /\ w.doing = "refreshing" /\ w.left = fiber.known /\ w.results = {}
      /\ w.heard = fiber.heard \cup heard /\ w.why = why /\ w.at = at
  BY <1>1 DEF Refreshing
<1>3. w = [doing |-> w.doing, edition |-> w.edition, anchor |-> w.anchor,
           known |-> w.known, usable |-> w.usable, told |-> w.told, heard |-> w.heard,
           why |-> w.why, at |-> w.at, left |-> w.left, results |-> w.results,
           kept |-> w.kept, observed |-> w.observed]
  BY <1>1 DEF Refreshing
<1>4. RefreshingOK(s, w)
  BY <1>2, <1>3 DEF RefreshingOK
<1> QED
  BY <1>1, <1>2, <1>4 DEF FiberOK

\* What the fiber writes at last, for what it has heard.
LEMMA EndingFits ==
    ASSUME NEW e, NEW s, NEW t, NEW writes, NEW told, NEW heard, NEW all,
           all = Fiber(e, s).heard \cup heard, writes \in Seq(Writes(all)),
           all \cap {"lost", "invalid"} # {} => told
    PROVE  FiberOK(t, Ending(e, s, writes, told, heard))
<1>1. PICK w : w = Ending(e, s, writes, told, heard)
  OBVIOUS
<1>2. w.doing = "ending" /\ w.writes = writes /\ w.told = told /\ w.heard = all
  BY <1>1 DEF Ending
<1>3. w = [doing |-> w.doing, edition |-> w.edition, anchor |-> w.anchor,
           writes |-> w.writes, told |-> w.told, heard |-> w.heard]
  BY <1>1 DEF Ending
<1>4. EndingOK(w)
  BY <1>2, <1>3 DEF EndingOK
<1> QED
  BY <1>1, <1>2, <1>4 DEF FiberOK

LEMMA FewWrites ==
    ASSUME NEW heard, NEW at \in Nat, NEW found \in BOOLEAN
    PROVE  /\ <<>> \in Seq(Writes(heard))
           /\ <<Exact(found, at)>> \in Seq(Writes(heard))
           /\ heard \cap {"missing", "invalid"} # {} =>
                 /\ <<Suppress(at)>> \in Seq(Writes(heard))
                 /\ \A then \in Nat :
                       /\ <<Suppress(at), Exact(found, then)>> \in Seq(Writes(heard))
                       /\ <<Exact(found, then), Suppress(at)>> \in Seq(Writes(heard))
<1>1. \A then \in Nat : Exact(found, then) \in Writes(heard)
  BY DEF Exact, Writes
<1>2. heard \cap {"missing", "invalid"} # {} => Suppress(at) \in Writes(heard)
  BY DEF Suppress, Writes
<1> QED
  BY <1>1, <1>2

\* A fiber that asks its place by the title's identity.
LEMMA DiscoveryKeeps ==
    ASSUME DetailsInv, NEW e \in Openings, NEW s \in Places,
           \/ Look(e, s) \/ DiscoveryIsLost(e, s)
           \/ DiscoveryIsRefused(e, s) \/ DiscoveryAnswers(e, s)
    PROVE  DetailsInv'
<1>1. PICK fiber : fiber = Fiber(e, s)
  OBVIOUS
<1>2. /\ fiber.doing \in {"looking", "discovering"}
      /\ UNCHANGED <<hour, edition, observedAs, detail>>
  BY <1>1 DEF Look, DiscoveryIsLost, DiscoveryIsRefused, DiscoveryAnswers, AskingIs
<1>3. FiberOK(s, fiber)
  BY <1>1 DEF DetailsInv
<1>4. fiber.known \subseteq CopiesOf(s) /\ fiber.heard = {} /\ hour \in Nat
  BY <1>2, <1>3 DEF FiberOK, BeginsOK, DetailsInv
<1>5. ASSUME NEW w, Becomes(e, s, w), FiberOK(s, w) PROVE DetailsInv'
  BY <1>2, <1>5, FiberStep DEF Becomes, DetailsInv
<1>6. CASE Look(e, s)
  <2>1. PICK w : /\ Becomes(e, s, w)
                 /\ \/ w = Ending(e, s, <<>>, FALSE, {})
                    \/ w = Refreshing(fiber, "absent", hour, {})
                    \/ w = [fiber EXCEPT !.doing = "discovering"]
    <3>1. CASE FreshAnswer(PlaceAnswers(e, s)) = {TRUE}
      BY <1>6, <3>1 DEF Look
    <3>2. CASE FreshAnswer(PlaceAnswers(e, s)) = {FALSE}
      <4>1. {TRUE} # {FALSE}
        OBVIOUS
      <4> QED
        BY <1>1, <1>6, <3>2, <4>1 DEF Look
    <3>3. CASE /\ FreshAnswer(PlaceAnswers(e, s)) # {TRUE}
               /\ FreshAnswer(PlaceAnswers(e, s)) # {FALSE}
      BY <1>1, <1>6, <3>3 DEF Look
    <3> QED
      BY <3>1, <3>2, <3>3
  <2>2. CASE w = Ending(e, s, <<>>, FALSE, {})
    <3>1. fiber.heard \cup {} = {} /\ <<>> \in Seq(Writes({}))
      BY <1>4, FewWrites
    <3>2. FiberOK(s, w)
      BY <1>1, <2>2, <3>1, EndingFits
    <3> QED
      BY <1>5, <2>1, <3>2
  <2>3. CASE w = Refreshing(fiber, "absent", hour, {})
    <3>1. Reasons("absent") = {}
      BY DEF Reasons
    <3>2. FiberOK(s, w)
      BY <1>4, <2>3, <3>1, RefreshingFits
    <3> QED
      BY <1>5, <2>1, <3>2
  <2>4. CASE w = [fiber EXCEPT !.doing = "discovering"]
    <3>1. BeginsOK(s, fiber)
      BY <1>2, <1>3 DEF FiberOK
    <3>2. w.doing = "discovering" /\ BeginsOK(s, w)
      BY <2>4, <3>1 DEF BeginsOK
    <3>3. FiberOK(s, w)
      BY <3>2 DEF FiberOK
    <3> QED
      BY <1>5, <2>1, <3>3
  <2> QED
    BY <2>1, <2>2, <2>3, <2>4
<1>7. CASE DiscoveryIsLost(e, s)
  <2>1. PICK w : /\ Becomes(e, s, w)
                 /\ \/ w = Ending(e, s, <<>>, TRUE, {"lost"})
                    \/ w = Refreshing(fiber, "lost", hour, {"lost"})
    BY <1>1, <1>7 DEF DiscoveryIsLost
  <2>2. CASE w = Ending(e, s, <<>>, TRUE, {"lost"})
    <3>1. fiber.heard \cup {"lost"} = {"lost"} /\ <<>> \in Seq(Writes({"lost"}))
      BY <1>4, FewWrites
    <3>2. FiberOK(s, w)
      BY <1>1, <2>2, <3>1, EndingFits
    <3> QED
      BY <1>5, <2>1, <3>2
  <2>3. CASE w = Refreshing(fiber, "lost", hour, {"lost"})
    <3>1. Reasons("lost") = {"lost"}
      BY DEF Reasons
    <3>2. FiberOK(s, w)
      BY <1>4, <2>3, <3>1, RefreshingFits
    <3> QED
      BY <1>5, <2>1, <3>2
  <2> QED
    BY <2>1, <2>2, <2>3
<1>8. CASE DiscoveryIsRefused(e, s)
  <2>1. PICK w : /\ Becomes(e, s, w)
                 /\ \/ w = Ending(e, s, <<Suppress(hour)>>, TRUE, {"invalid"})
                    \/ w = Ending(e, s, <<Suppress(hour), Exact(FALSE, hour)>>, FALSE,
                                  {"missing"})
    BY <1>8 DEF DiscoveryIsRefused
  <2>2. CASE w = Ending(e, s, <<Suppress(hour)>>, TRUE, {"invalid"})
    <3>1. /\ fiber.heard \cup {"invalid"} = {"invalid"}
          /\ <<Suppress(hour)>> \in Seq(Writes({"invalid"}))
      BY <1>4, FewWrites
    <3>2. FiberOK(s, w)
      BY <1>1, <2>2, <3>1, EndingFits
    <3> QED
      BY <1>5, <2>1, <3>2
  <2>3. CASE w = Ending(e, s, <<Suppress(hour), Exact(FALSE, hour)>>, FALSE, {"missing"})
    <3>1. /\ fiber.heard \cup {"missing"} = {"missing"}
          /\ <<Suppress(hour), Exact(FALSE, hour)>> \in Seq(Writes({"missing"}))
      BY <1>4, FewWrites
    <3>2. FiberOK(s, w)
      BY <1>1, <2>3, <3>1, EndingFits
    <3> QED
      BY <1>5, <2>1, <3>2
  <2> QED
    BY <2>1, <2>2, <2>3
<1>9. CASE DiscoveryAnswers(e, s)
  <2>1. PICK page \in SUBSET CopiesOf(s) : Becomes(e, s, Keeping(fiber, page))
    BY <1>1, <1>9 DEF DiscoveryAnswers
  <2>2. PICK w : w = Keeping(fiber, page)
    OBVIOUS
  <2>3. w.doing = "keeping" /\ KeepingOK(s, w)
    BY <1>4, <2>2 DEF Keeping, KeepingOK
  <2>4. FiberOK(s, w)
    BY <2>3 DEF FiberOK
  <2> QED
    BY <1>5, <2>1, <2>2, <2>4
<1> QED
  BY <1>6, <1>7, <1>8, <1>9

\* What the items gave together: something is lost or invalid only beside an
\* outcome that says so.
LEMMA OutcomeSays ==
    ASSUME NEW results, results \subseteq {"found", "lost", "invalid", "missing"}
    PROVE  /\ results \cap {"lost", "invalid"} # {} =>
                 Outcome(results) \in {"lost", "partial", "invalid"}
           /\ Outcome(results) = "invalid" => "invalid" \in results
           /\ Outcome(results) \in {"lost", "partial", "invalid", "missing", "found"}
  BY DEF Outcome

\* The end of the items, whatever it is.
LEMMA FollowsFits ==
    ASSUME NEW e, NEW s, NEW fiber, fiber = Fiber(e, s), RefreshingOK(s, fiber),
           hour \in Nat,
           NEW outcome \in {"lost", "partial", "invalid", "missing", "found"},
           outcome = "invalid" => "invalid" \in fiber.results,
           fiber.results \cap {"lost", "invalid"} # {} =>
               outcome \in {"lost", "partial", "invalid"}
    PROVE  /\ FiberOK(s, Concludes(e, s, outcome))
           /\ outcome = "lost" => Concludes(e, s, outcome).told
<1> DEFINE why == fiber.why
           at == fiber.at
           suppress == IF outcome \in {"invalid"}
                       THEN <<Suppress(IF why = "unfound" THEN at ELSE hour)>> ELSE <<>>
           writes == CASE outcome = "found" -> <<Exact(TRUE, IF why = "unfound" THEN at ELSE hour)>>
                       [] outcome = "missing" /\ why = "unfound" -> <<Exact(FALSE, at), Suppress(at)>>
                       [] OTHER -> suppress
           told == why = "lost" \/ outcome \in {"lost", "partial", "invalid"}
<1>1. Concludes(e, s, outcome) = Ending(e, s, writes, told, {})
  BY DEF Concludes, Follows
<1>2. fiber.heard \cup {} = fiber.heard
  OBVIOUS
<1>3. writes \in Seq(Writes(fiber.heard))
  <2>1. at \in Nat /\ hour \in Nat
    BY DEF RefreshingOK
  <2>2. CASE outcome = "found"
    BY <2>1, <2>2, FewWrites
  <2>3. CASE outcome = "missing" /\ why = "unfound"
    <3>1. "missing" \in fiber.heard
      BY <2>3 DEF RefreshingOK, Reasons
    <3> QED
      BY <2>1, <2>3, <3>1, FewWrites
  <2>4. CASE outcome = "invalid"
    <3>1. "invalid" \in fiber.heard
      BY <2>4 DEF RefreshingOK
    <3> QED
      BY <2>1, <2>4, <3>1, FewWrites
  <2>5. CASE outcome \in {"lost", "partial"} \/ (outcome = "missing" /\ why # "unfound")
    BY <2>1, <2>5, FewWrites
  <2> QED
    BY <2>2, <2>3, <2>4, <2>5
<1>4. fiber.heard \cap {"lost", "invalid"} # {} => told
  <2>1. ASSUME fiber.heard \cap {"lost", "invalid"} # {}
        PROVE  why = "lost" \/ fiber.results \cap {"lost", "invalid"} # {}
    BY <2>1 DEF RefreshingOK, Reasons
  <2> QED
    BY <2>1
<1> HIDE DEF writes, told
<1>5. FiberOK(s, Ending(e, s, writes, told, {}))
  BY <1>2, <1>3, <1>4, EndingFits
<1>6. Ending(e, s, writes, told, {}).told = told
  BY DEF Ending
<1> QED
  BY <1>1, <1>5, <1>6 DEF told

\* A fiber that keeps the items of a page.
LEMMA KeepingKeeps ==
    ASSUME DetailsInv, NEW e \in Openings, NEW s \in Places,
           \/ ResolveOfPage(e, s) \/ RefuseOfPage(e, s)
           \/ KeepOfPage(e, s) \/ PageIsKept(e, s)
    PROVE  DetailsInv'
<1>1. PICK fiber : fiber = Fiber(e, s)
  OBVIOUS
<1>2. fiber.doing = "keeping" /\ UNCHANGED <<hour, edition>>
  BY <1>1 DEF ResolveOfPage, RefuseOfPage, KeepOfPage, PageIsKept, AskingIs
<1>3. FiberOK(s, fiber)
  BY <1>1 DEF DetailsInv
<1>4. KeepingOK(s, fiber) /\ DOMAIN observedAs = Copies /\ DOMAIN detail = Copies
  BY <1>2, <1>3 DEF FiberOK, DetailsInv
<1>5. DOMAIN observedAs' = Copies /\ DOMAIN detail' = Copies
  BY <1>4 DEF ResolveOfPage, RefuseOfPage, KeepOfPage, PageIsKept, ResolvesCopy
<1>6. ASSUME NEW w, Becomes(e, s, w), FiberOK(s, w) PROVE DetailsInv'
  BY <1>2, <1>5, <1>6, FiberStep DEF Becomes, DetailsInv
<1>7. CASE ResolveOfPage(e, s)
  <2>1. PICK i \in fiber.page : Becomes(e, s, [fiber EXCEPT !.kept = i, !.page = @ \ {i}])
    BY <1>1, <1>7 DEF ResolveOfPage
  <2>2. PICK w : w = [fiber EXCEPT !.kept = i, !.page = @ \ {i}]
    OBVIOUS
  <2>3. w.doing = "keeping" /\ KeepingOK(s, w)
    BY <1>2, <1>4, <2>2 DEF KeepingOK
  <2>4. FiberOK(s, w)
    BY <2>3 DEF FiberOK
  <2> QED
    BY <1>6, <2>1, <2>2, <2>4
<1>8. CASE RefuseOfPage(e, s)
  <2>1. PICK w : /\ Becomes(e, s, w)
                 /\ w = Ending(e, s, <<Suppress(fiber.at)>>, TRUE, {"invalid"})
    BY <1>1, <1>8 DEF RefuseOfPage
  <2>2. /\ fiber.heard \cup {"invalid"} = {"invalid"}
        /\ <<Suppress(fiber.at)>> \in Seq(Writes({"invalid"}))
    BY <1>4, FewWrites DEF KeepingOK
  <2>3. FiberOK(s, w)
    BY <1>1, <2>1, <2>2, EndingFits
  <2> QED
    BY <1>6, <2>1, <2>3
<1>9. CASE KeepOfPage(e, s)
  <2>1. PICK w : Becomes(e, s, w) /\ w = [fiber EXCEPT !.kept = Nothing, !.found = TRUE]
    BY <1>1, <1>9 DEF KeepOfPage
  <2>2. w.doing = "keeping" /\ KeepingOK(s, w)
    BY <1>2, <1>4, <2>1 DEF KeepingOK
  <2>3. FiberOK(s, w)
    BY <2>2 DEF FiberOK
  <2> QED
    BY <1>6, <2>1, <2>3
<1>10. CASE PageIsKept(e, s)
  <2>1. PICK w : /\ Becomes(e, s, w)
                 /\ \/ w = Ending(e, s, <<Exact(TRUE, fiber.at)>>, FALSE, {})
                    \/ w = Refreshing(fiber, "unfound", fiber.at, {"missing"})
    BY <1>1, <1>10 DEF PageIsKept
  <2>2. CASE w = Ending(e, s, <<Exact(TRUE, fiber.at)>>, FALSE, {})
    <3>1. fiber.heard \cup {} = {} /\ <<Exact(TRUE, fiber.at)>> \in Seq(Writes({}))
      BY <1>4, FewWrites DEF KeepingOK
    <3>2. FiberOK(s, w)
      BY <1>1, <2>2, <3>1, EndingFits
    <3> QED
      BY <1>6, <2>1, <3>2
  <2>3. CASE w = Refreshing(fiber, "unfound", fiber.at, {"missing"})
    <3>1. Reasons("unfound") = {"missing"}
      BY DEF Reasons
    <3>2. FiberOK(s, w)
      BY <1>4, <2>3, <3>1, RefreshingFits DEF KeepingOK
    <3> QED
      BY <1>6, <2>1, <3>2
  <2> QED
    BY <2>1, <2>2, <2>3
<1> QED
  BY <1>7, <1>8, <1>9, <1>10

\* A fiber that asks for the known items.
LEMMA RefreshingKeeps ==
    ASSUME DetailsInv, NEW e \in Openings, NEW s \in Places,
           \/ KnownFails(e, s) \/ KnownIsGone(e, s) \/ KnownAnswers(e, s)
           \/ KeepKnown(e, s) \/ RefreshEnds(e, s) \/ RefreshIsLate(e, s)
    PROVE  DetailsInv'
<1>1. PICK fiber : fiber = Fiber(e, s)
  OBVIOUS
<1>2. /\ fiber.doing \in {"refreshing", "answered"}
      /\ UNCHANGED <<hour, edition>>
  BY <1>1 DEF KnownFails, KnownIsGone, KnownAnswers, KeepKnown, RefreshEnds, RefreshIsLate,
     AskingIs
<1>3. FiberOK(s, fiber) /\ hour \in Nat
  BY <1>1 DEF DetailsInv
<1>4. /\ RefreshingOK(s, fiber) /\ DOMAIN observedAs = Copies /\ DOMAIN detail = Copies
      /\ fiber.doing = "answered" => fiber.kept \in CopiesOf(s) /\ fiber.observed \in Nat
  BY <1>2, <1>3 DEF FiberOK, DetailsInv
<1>5. DOMAIN observedAs' = Copies /\ DOMAIN detail' = Copies
  BY <1>4 DEF KnownFails, KnownIsGone, KnownAnswers, KeepKnown, RefreshEnds, RefreshIsLate,
     ResolvesCopy
<1>6. ASSUME NEW w, Becomes(e, s, w), FiberOK(s, w) PROVE DetailsInv'
  BY <1>2, <1>5, <1>6, FiberStep DEF Becomes, DetailsInv
<1>7. ASSUME NEW i \in fiber.left, NEW result \in {"lost", "invalid", "missing"},
             fiber.doing = "refreshing", Becomes(e, s, Gives(e, s, i, result))
      PROVE  DetailsInv'
  <2>1. PICK w : Becomes(e, s, w) /\ w = Gives(e, s, i, result)
    BY <1>7
  <2>2. w = [fiber EXCEPT !.left = @ \ {i}, !.results = @ \cup {result},
                          !.heard = @ \cup {result}]
    BY <1>1, <2>1 DEF Gives
  <2>3. w.doing = "refreshing" /\ RefreshingOK(s, w)
    <3>1. /\ w.doing = "refreshing" /\ w.why = fiber.why /\ w.at = fiber.at
          /\ w.left = fiber.left \ {i} /\ w.results = fiber.results \cup {result}
          /\ w.heard = fiber.heard \cup {result}
          /\ w = [doing |-> w.doing, edition |-> w.edition, anchor |-> w.anchor,
                  known |-> w.known, usable |-> w.usable, told |-> w.told,
                  heard |-> w.heard, why |-> w.why, at |-> w.at, left |-> w.left,
                  results |-> w.results, kept |-> w.kept, observed |-> w.observed]
      BY <1>4, <1>7, <2>2 DEF RefreshingOK
    <3> QED
      BY <1>4, <3>1 DEF RefreshingOK
  <2>4. FiberOK(s, w)
    BY <2>3 DEF FiberOK
  <2> QED
    BY <1>6, <2>1, <2>4
<1>8. CASE KnownFails(e, s)
  <2>1. PICK i \in fiber.left, result \in {"lost", "invalid"} :
          Becomes(e, s, Gives(e, s, i, result))
    BY <1>1, <1>8 DEF KnownFails
  <2>2. fiber.doing = "refreshing"
    BY <1>1, <1>8 DEF KnownFails, AskingIs
  <2> QED
    BY <1>7, <2>1, <2>2
<1>9. CASE KnownIsGone(e, s)
  <2>1. PICK i \in fiber.left : Becomes(e, s, Gives(e, s, i, "missing"))
    BY <1>1, <1>9 DEF KnownIsGone
  <2>2. fiber.doing = "refreshing"
    BY <1>1, <1>9 DEF KnownIsGone, AskingIs
  <2> QED
    BY <1>7, <2>1, <2>2
<1>10. CASE KnownAnswers(e, s)
  <2>1. PICK i \in fiber.left :
          Becomes(e, s, [fiber EXCEPT !.doing = "answered", !.left = @ \ {i},
                                      !.kept = i, !.observed = hour])
    BY <1>1, <1>10 DEF KnownAnswers
  <2>2. PICK w : w = [fiber EXCEPT !.doing = "answered", !.left = @ \ {i},
                                   !.kept = i, !.observed = hour]
    OBVIOUS
  <2>3. /\ w.doing = "answered" /\ w.kept = i /\ w.observed = hour
        /\ RefreshingOK(s, w) /\ i \in CopiesOf(s)
    BY <1>4, <2>2 DEF RefreshingOK
  <2>4. FiberOK(s, w)
    BY <1>3, <2>3 DEF FiberOK
  <2> QED
    BY <1>6, <2>1, <2>2, <2>4
<1>11. CASE KeepKnown(e, s)
  <2>1. PICK w : /\ Becomes(e, s, w)
                 /\ w = [fiber EXCEPT !.doing = "refreshing",
                                      !.results = @ \cup {"found"},
                                      !.kept = Nothing, !.observed = 0]
    BY <1>1, <1>11 DEF KeepKnown
  <2>2. w.doing = "refreshing" /\ RefreshingOK(s, w)
    BY <1>4, <2>1 DEF RefreshingOK
  <2>3. FiberOK(s, w)
    BY <2>2 DEF FiberOK
  <2> QED
    BY <1>6, <2>1, <2>3
<1>12. CASE RefreshEnds(e, s)
  <2>1. PICK outcome : outcome = Outcome(fiber.results)
    OBVIOUS
  <2>2. /\ outcome \in {"lost", "partial", "invalid", "missing", "found"}
        /\ outcome = "invalid" => "invalid" \in fiber.results
        /\ fiber.results \cap {"lost", "invalid"} # {} =>
              outcome \in {"lost", "partial", "invalid"}
    BY <1>4, <2>1, OutcomeSays DEF RefreshingOK
  <2>3. PICK w : Becomes(e, s, w) /\ w = Concludes(e, s, outcome)
    BY <1>1, <1>12, <2>1 DEF RefreshEnds
  <2>4. FiberOK(s, w)
    BY <1>1, <1>3, <1>4, <2>2, <2>3, FollowsFits
  <2> QED
    BY <1>6, <2>3, <2>4
<1>13. CASE RefreshIsLate(e, s)
  <2>1. PICK v : v = Concludes(e, s, "lost")
    OBVIOUS
  <2>2. PICK w : Becomes(e, s, w) /\ w = [v EXCEPT !.heard = @ \cup {"lost"}]
    BY <1>13, <2>1 DEF RefreshIsLate
  <2>3. FiberOK(s, v) /\ v.told
    BY <1>1, <1>3, <1>4, <2>1, FollowsFits
  <2>4. v.doing = "ending" /\ EndingOK(v)
    <3>1. v.doing = "ending"
      BY <2>1 DEF Concludes, Follows, Ending
    <3> QED
      BY <2>3, <3>1 DEF FiberOK
  <2>5. /\ w.doing = "ending" /\ w.writes = v.writes /\ w.told = v.told
        /\ w.heard = v.heard \cup {"lost"}
        /\ w = [doing |-> w.doing, edition |-> w.edition, anchor |-> w.anchor,
                writes |-> w.writes, told |-> w.told, heard |-> w.heard]
    BY <2>2, <2>4 DEF EndingOK
  <2>6. w.writes \in Seq(Writes(w.heard))
    <3>1. PICK some : some = Writes(v.heard)
      OBVIOUS
    <3>2. PICK more : more = Writes(w.heard)
      OBVIOUS
    <3>3. some \subseteq more
      BY <2>5, <3>1, <3>2 DEF Writes
    <3>4. w.writes \in Seq(some)
      BY <2>4, <2>5, <3>1 DEF EndingOK
    <3>5. w.writes \in Seq(more)
      BY <3>3, <3>4
    <3> QED
      BY <3>2, <3>5
  <2>7. FiberOK(s, w)
    BY <2>3, <2>5, <2>6 DEF FiberOK, EndingOK
  <2> QED
    BY <1>6, <2>2, <2>7
<1> QED
  BY <1>8, <1>9, <1>10, <1>11, <1>12, <1>13

\* One of the last writes.
LEMMA WriteKeeps ==
    ASSUME DetailsInv, NEW e \in Openings, NEW s \in Places, WriteEnding(e, s)
    PROVE  /\ DetailsInv'
           /\ \A i \in Copies : detail'[i] # detail[i] =>
                 /\ PlaceOf[i] = s
                 /\ Fiber(e, s)' # Fiber(e, s)
                 /\ HeardOfAbsence(e, s)'
<1>1. PICK fiber : fiber = Fiber(e, s)
  OBVIOUS
<1>2. /\ fiber.doing = "ending" /\ fiber.writes # <<>>
      /\ UNCHANGED <<hour, edition, observedAs>>
  BY <1>1 DEF WriteEnding, AskingIs
<1>3. FiberOK(s, fiber) /\ DOMAIN observedAs = Copies /\ DOMAIN detail = Copies
  BY <1>1 DEF DetailsInv
<1>4. EndingOK(fiber)
  BY <1>2, <1>3 DEF FiberOK
<1>5. PICK w : w = [fiber EXCEPT !.writes = Tail(@)]
  OBVIOUS
<1>6. /\ Becomes(e, s, w)
      /\ \/ /\ Head(fiber.writes).what = "suppress"
            /\ detail' = [i \in Copies |->
                            IF i \in Withdrawn(s, fiber.edition) THEN 0 ELSE detail[i]]
         \/ detail' = detail
  BY <1>1, <1>5 DEF WriteEnding
<1>7. PICK all : all = Writes(fiber.heard)
  OBVIOUS
<1>8. /\ fiber.writes \in Seq(all)
      /\ Head(fiber.writes) \in all /\ Tail(fiber.writes) \in Seq(all)
      /\ Tail(fiber.writes) # fiber.writes
  <2>1. fiber.writes \in Seq(all)
    BY <1>4, <1>7 DEF EndingOK
  <2>2. Head(fiber.writes) \in all /\ Tail(fiber.writes) \in Seq(all)
    BY <1>2, <2>1
  <2>3. Len(Tail(fiber.writes)) # Len(fiber.writes)
    BY <1>2, <2>1
  <2> QED
    BY <2>1, <2>2, <2>3
<1>9. /\ w.doing = "ending" /\ w.writes = Tail(fiber.writes)
      /\ w.heard = fiber.heard /\ w.told = fiber.told
      /\ w = [doing |-> w.doing, edition |-> w.edition, anchor |-> w.anchor,
              writes |-> w.writes, told |-> w.told, heard |-> w.heard]
  BY <1>2, <1>4, <1>5 DEF EndingOK
<1>10. FiberOK(s, w)
  BY <1>4, <1>7, <1>8, <1>9 DEF FiberOK, EndingOK
<1>11. DOMAIN observedAs' = Copies /\ DOMAIN detail' = Copies
  BY <1>2, <1>3, <1>6
<1>12. DetailsInv'
  BY <1>2, <1>6, <1>10, <1>11, FiberStep DEF Becomes, DetailsInv
<1>13. ASSUME NEW i \in Copies, detail'[i] # detail[i]
       PROVE  /\ PlaceOf[i] = s
              /\ Fiber(e, s)' # Fiber(e, s)
              /\ HeardOfAbsence(e, s)'
  <2>1. /\ Head(fiber.writes).what = "suppress"
        /\ i \in Withdrawn(s, fiber.edition)
    BY <1>6, <1>13
  <2>2. PlaceOf[i] = s
    BY <2>1 DEF Withdrawn, CopiesOf
  <2>3. Fiber(e, s)' = w
    BY <1>6 DEF Becomes, DetailsInv
  <2>4. Fiber(e, s)' # Fiber(e, s)
    BY <1>1, <1>8, <1>9, <2>3
  <2>5. fiber.heard \cap {"missing", "invalid"} # {}
    BY <1>7, <1>8, <2>1 DEF Writes
  <2>6. w # NotAsking
    BY <1>9 DEF NotAsking
  <2> QED
    BY <1>9, <2>2, <2>3, <2>4, <2>5, <2>6 DEF HeardOfAbsence
<1> QED
  BY <1>12, <1>13

\* A client opens the title, is shown it, or goes away.
LEMMA OpeningKeeps ==
    ASSUME DetailsInv, NEW e \in Openings, Open(e) \/ Show(e) \/ AbandonOpening(e)
    PROVE  DetailsInv'
<1>1. UNCHANGED <<hour, edition, observedAs, detail>>
  BY DEF Open, Show, AbandonOpening
<1>2. ASSUME NEW s PROVE FiberOK(s, NotAsking) /\ FiberOK(s, Looking(s))
  <2>1. FiberOK(s, NotAsking)
    BY DEF FiberOK, NotAsking
  <2>2. PICK w : w = Looking(s)
    OBVIOUS
  <2>3. w.doing = "looking" /\ BeginsOK(s, w)
    BY <2>2 DEF Looking, BeginsOK
  <2> QED
    BY <2>1, <2>2, <2>3 DEF FiberOK
<1>3. DOMAIN asking' = Openings \X Places
  BY DEF Open, Show, AbandonOpening
<1>4. ASSUME NEW f \in Openings, NEW s \in Places PROVE FiberOK(s, asking'[<<f, s>>])
  <2>1. /\ <<f, s>> \in Openings \X Places
        /\ <<f, s>>[1] = f /\ <<f, s>>[2] = s
    OBVIOUS
  <2>2. \/ asking'[<<f, s>>] = asking[<<f, s>>]
        \/ asking'[<<f, s>>] = NotAsking
        \/ asking'[<<f, s>>] = Looking(s)
    BY <2>1 DEF Open, Show, AbandonOpening
  <2>3. FiberOK(s, asking[<<f, s>>])
    BY DEF DetailsInv
  <2> QED
    BY <1>2, <2>2, <2>3
<1> QED
  BY <1>1, <1>3, <1>4 DEF DetailsInv

LEMMA DetailsStep ==
    ASSUME DetailsInv, [DetailsNext]_detailsVars
    PROVE  DetailsInv'
<1>1. CASE UNCHANGED detailsVars
  BY <1>1 DEF detailsVars, DetailsInv
<1>2. CASE \E e \in Openings : Open(e) \/ Show(e) \/ AbandonOpening(e)
  BY <1>2, OpeningKeeps
<1>3. ASSUME NEW e \in Openings, NEW s \in Places, AskStep(e, s) PROVE DetailsInv'
  BY <1>3, DiscoveryKeeps, KeepingKeeps, RefreshingKeeps, WriteKeeps DEF AskStep
<1>4. CASE \/ \E i \in Copies : List(i)
           \/ \E s \in Places : EditPlace(s)
           \/ HourPasses
  <2>1. asking' = asking
    BY <1>4 DEF List, EditPlace, HourPasses
  <2>2. /\ hour' \in Nat /\ DOMAIN edition' = Places
        /\ DOMAIN observedAs' = Copies /\ DOMAIN detail' = Copies
    BY <1>4 DEF List, EditPlace, HourPasses, DetailsInv
  <2> QED
    BY <2>1, <2>2 DEF DetailsInv
<1> QED
  BY <1>1, <1>2, <1>3, <1>4 DEF DetailsNext

THEOREM DetailsAreSound == DetailsSpec => []DetailsInv
<1>1. DetailsInit => DetailsInv
  BY DetailsStart
<1>2. DetailsInv /\ [DetailsNext]_detailsVars => DetailsInv'
  BY DetailsStep
<1> QED
  BY <1>1, <1>2, PTL DEF DetailsSpec

\* No place that failed a request, whatever its others gave, is left out of what
\* the client is told is incomplete (incompleteSourceIds of enrichVersions).
THEOREM FailuresAreReported == DetailsSpec => []FailuresAreTold
<1>1. DetailsInv => FailuresAreTold
  BY DEF DetailsInv, FiberOK, EndingOK, FailuresAreTold, Settled, AskingIs
<1> QED
  BY <1>1, DetailsAreSound, PTL

\* An item is only ever resolved at the generation its server has.
LEMMA ResolvedNow ==
    ASSUME DetailsInv, [DetailsNext]_detailsVars, NEW i \in Copies
    PROVE  observedAs'[i] \in {observedAs[i], edition[PlaceOf[i]]}
<1>1. ASSUME NEW s \in Places, NEW j, PlaceOf[j] = s \/ j \notin Copies,
             observedAs' = [observedAs EXCEPT ![j] = edition[s]]
      PROVE  observedAs'[i] \in {observedAs[i], edition[PlaceOf[i]]}
  BY <1>1 DEF DetailsInv
<1>2. ASSUME NEW e \in Openings, NEW s \in Places, ResolveOfPage(e, s) \/ KnownAnswers(e, s)
      PROVE  observedAs'[i] \in {observedAs[i], edition[PlaceOf[i]]}
  <2>1. PICK fiber : fiber = Fiber(e, s)
    OBVIOUS
  <2>2. FiberOK(s, fiber)
    BY <2>1 DEF DetailsInv
  <2>3. PICK j \in CopiesOf(s) : observedAs' = [observedAs EXCEPT ![j] = edition[s]]
    <3>1. CASE ResolveOfPage(e, s)
      <4>1. fiber.page \subseteq CopiesOf(s)
        BY <2>1, <2>2, <3>1 DEF ResolveOfPage, AskingIs, FiberOK, KeepingOK
      <4> QED
        BY <2>1, <3>1, <4>1 DEF ResolveOfPage, ResolvesCopy
    <3>2. CASE KnownAnswers(e, s)
      <4>1. fiber.left \subseteq CopiesOf(s)
        BY <2>1, <2>2, <3>2 DEF KnownAnswers, AskingIs, FiberOK, RefreshingOK
      <4> QED
        BY <2>1, <3>2, <4>1 DEF KnownAnswers, ResolvesCopy
    <3> QED
      BY <1>2, <3>1, <3>2
  <2> QED
    BY <1>1, <2>3 DEF CopiesOf
<1>3. CASE \E j \in Copies : List(j)
  <2>1. PICK j \in Copies : observedAs' = [observedAs EXCEPT ![j] = edition[PlaceOf[j]]]
    BY <1>3 DEF List
  <2>2. PlaceOf[j] \in Places
    BY PlacesAssumption
  <2> QED
    BY <1>1, <2>1, <2>2
<1>4. CASE /\ ~\E e \in Openings, s \in Places : ResolveOfPage(e, s) \/ KnownAnswers(e, s)
           /\ ~\E j \in Copies : List(j)
  <2>1. observedAs' = observedAs
    <3>1. ASSUME NEW e \in Openings, NEW s \in Places, AskStep(e, s) PROVE observedAs' = observedAs
      <4>1. ~ResolveOfPage(e, s) /\ ~KnownAnswers(e, s)
        BY <1>4
      <4> QED
        BY <3>1, <4>1 DEF AskStep, Look, DiscoveryIsLost, DiscoveryIsRefused,
             DiscoveryAnswers, RefuseOfPage, KeepOfPage, PageIsKept, KnownFails, KnownIsGone,
             KeepKnown, RefreshEnds, RefreshIsLate, WriteEnding
    <3>2. ASSUME NEW e \in Openings, Open(e) \/ Show(e) \/ AbandonOpening(e)
          PROVE  observedAs' = observedAs
      BY <3>2 DEF Open, Show, AbandonOpening
    <3>3. ASSUME NEW s \in Places, EditPlace(s) PROVE observedAs' = observedAs
      BY <3>3 DEF EditPlace
    <3>4. CASE HourPasses \/ UNCHANGED detailsVars
      BY <3>4 DEF HourPasses, detailsVars
    <3> QED
      BY <1>4, <3>1, <3>2, <3>3, <3>4 DEF DetailsNext
  <2> QED
    BY <2>1
<1> QED
  BY <1>2, <1>3, <1>4

\* Which step may end what is shown.
LEMMA EndsShown ==
    ASSUME DetailsInv, [DetailsNext]_detailsVars, NEW i \in Copies, Shown(i), ~Shown(i)',
           hour' = hour, edition'[PlaceOf[i]] = edition[PlaceOf[i]]
    PROVE  \E e \in Openings :
              /\ Fiber(e, PlaceOf[i])' # Fiber(e, PlaceOf[i])
              /\ HeardOfAbsence(e, PlaceOf[i])' \/ Overdue(e, PlaceOf[i])
<1>1. observedAs'[i] = edition[PlaceOf[i]]
  BY ResolvedNow DEF Shown
<1>2. detail[i] > hour /\ ~(detail'[i] > hour) /\ detail'[i] # detail[i]
  BY <1>1 DEF Shown
<1>3. hour \in Nat /\ StaleDetail \in Nat \ {0}
  BY DetailWindows DEF DetailsInv
<1>4. ASSUME NEW e \in Openings, NEW s \in Places, KeepOfPage(e, s) PROVE
             \E g \in Openings :
                /\ Fiber(g, PlaceOf[i])' # Fiber(g, PlaceOf[i])
                /\ HeardOfAbsence(g, PlaceOf[i])' \/ Overdue(g, PlaceOf[i])
  <2>1. PICK fiber : fiber = Fiber(e, s)
    OBVIOUS
  <2>2. fiber.doing = "keeping" /\ fiber.kept # Nothing
    BY <1>4, <2>1 DEF KeepOfPage, AskingIs
  <2>3. FiberOK(s, fiber)
    BY <2>1 DEF DetailsInv
  <2>4. KeepingOK(s, fiber)
    BY <2>2, <2>3 DEF FiberOK
  <2>5. detail' = [detail EXCEPT ![fiber.kept] = fiber.at + StaleDetail]
    BY <1>4, <2>1 DEF KeepOfPage
  <2>6. fiber.kept = i /\ ~(fiber.at + StaleDetail > hour)
    BY <1>2, <2>5 DEF DetailsInv
  <2>7. PlaceOf[i] = s
    BY <2>2, <2>4, <2>6 DEF KeepingOK, CopiesOf
  <2>8. Overdue(e, s)
    BY <1>3, <2>1, <2>2, <2>4, <2>6 DEF Overdue, AskingIs, KeepingOK
  <2>9. PICK w : Becomes(e, s, w) /\ w = [fiber EXCEPT !.kept = Nothing, !.found = TRUE]
    BY <1>4, <2>1 DEF KeepOfPage
  <2>10. w.kept = Nothing
    BY <2>4, <2>9 DEF KeepingOK
  <2>11. Fiber(e, s)' = w
    BY <2>9 DEF Becomes, DetailsInv
  <2>12. Fiber(e, s)' # Fiber(e, s)
    BY <2>1, <2>2, <2>10, <2>11
  <2> QED
    BY <2>7, <2>8, <2>12
<1>5. ASSUME NEW e \in Openings, NEW s \in Places, KeepKnown(e, s) PROVE
             \E g \in Openings :
                /\ Fiber(g, PlaceOf[i])' # Fiber(g, PlaceOf[i])
                /\ HeardOfAbsence(g, PlaceOf[i])' \/ Overdue(g, PlaceOf[i])
  <2>1. PICK fiber : fiber = Fiber(e, s)
    OBVIOUS
  <2>2. fiber.doing = "answered"
    BY <1>5, <2>1 DEF KeepKnown, AskingIs
  <2>3. FiberOK(s, fiber)
    BY <2>1 DEF DetailsInv
  <2>4. /\ RefreshingOK(s, fiber)
        /\ fiber.kept \in CopiesOf(s) /\ fiber.observed \in Nat
    BY <2>2, <2>3 DEF FiberOK
  <2>5. detail' = [detail EXCEPT ![fiber.kept] = fiber.observed + StaleDetail]
    BY <1>5, <2>1 DEF KeepKnown
  <2>6. fiber.kept = i /\ ~(fiber.observed + StaleDetail > hour)
    BY <1>2, <2>5 DEF DetailsInv
  <2>7. PlaceOf[i] = s
    BY <2>4, <2>6 DEF CopiesOf
  <2>8. Overdue(e, s)
    BY <1>3, <2>1, <2>2, <2>4, <2>6 DEF Overdue, AskingIs
  <2>9. PICK w : /\ Becomes(e, s, w)
                 /\ w = [fiber EXCEPT !.doing = "refreshing",
                                      !.results = @ \cup {"found"},
                                      !.kept = Nothing, !.observed = 0]
    BY <1>5, <2>1 DEF KeepKnown
  <2>10. w.doing = "refreshing"
    BY <2>4, <2>9 DEF RefreshingOK
  <2>11. Fiber(e, s)' = w
    BY <2>9 DEF Becomes, DetailsInv
  <2>12. Fiber(e, s)' # Fiber(e, s)
    BY <2>1, <2>2, <2>10, <2>11
  <2> QED
    BY <2>7, <2>8, <2>12
<1>6. ASSUME NEW e \in Openings, NEW s \in Places, KnownIsGone(e, s) PROVE
             \E g \in Openings :
                /\ Fiber(g, PlaceOf[i])' # Fiber(g, PlaceOf[i])
                /\ HeardOfAbsence(g, PlaceOf[i])' \/ Overdue(g, PlaceOf[i])
  <2>1. PICK fiber : fiber = Fiber(e, s)
    OBVIOUS
  <2>2. fiber.doing = "refreshing"
    BY <1>6, <2>1 DEF KnownIsGone, AskingIs
  <2>3. FiberOK(s, fiber)
    BY <2>1 DEF DetailsInv
  <2>4. RefreshingOK(s, fiber)
    BY <2>2, <2>3 DEF FiberOK
  <2>5. PICK j \in fiber.left :
          /\ detail' = [detail EXCEPT ![j] = 0]
          /\ Becomes(e, s, [fiber EXCEPT !.left = @ \ {j}, !.results = @ \cup {"missing"},
                                         !.heard = @ \cup {"missing"}])
    BY <1>6, <2>1 DEF KnownIsGone, Gives
  <2>6. j = i
    BY <1>2, <2>5 DEF DetailsInv
  <2>7. PlaceOf[i] = s
    BY <2>4, <2>5, <2>6 DEF CopiesOf, RefreshingOK
  <2>8. PICK w : w = [fiber EXCEPT !.left = @ \ {j}, !.results = @ \cup {"missing"},
                                   !.heard = @ \cup {"missing"}]
    OBVIOUS
  <2>9. j \notin w.left /\ "missing" \in w.heard /\ w.doing = "refreshing"
    BY <2>2, <2>4, <2>8 DEF RefreshingOK
  <2>10. Fiber(e, s)' = w
    BY <2>5, <2>8 DEF Becomes, DetailsInv
  <2>11. Fiber(e, s)' # Fiber(e, s)
    BY <2>1, <2>5, <2>9, <2>10
  <2>12. HeardOfAbsence(e, s)'
    BY <2>9, <2>10 DEF HeardOfAbsence, NotAsking
  <2> QED
    BY <2>7, <2>11, <2>12
<1>7. ASSUME NEW e \in Openings, NEW s \in Places, WriteEnding(e, s) PROVE
             \E g \in Openings :
                /\ Fiber(g, PlaceOf[i])' # Fiber(g, PlaceOf[i])
                /\ HeardOfAbsence(g, PlaceOf[i])' \/ Overdue(g, PlaceOf[i])
  BY <1>2, <1>7, WriteKeeps
<1>8. CASE \E j \in Copies : List(j)
  <2>1. PICK j \in Copies : \/ detail' = [detail EXCEPT ![j] = hour + StaleDetail]
                            \/ detail' = detail
    BY <1>8 DEF List
  <2>2. detail'[i] = hour + StaleDetail
    BY <1>2, <2>1 DEF DetailsInv
  <2> QED
    BY <1>2, <1>3, <2>2
<1>9. CASE /\ ~\E e \in Openings, s \in Places : KeepOfPage(e, s) \/ KeepKnown(e, s)
                                                \/ KnownIsGone(e, s) \/ WriteEnding(e, s)
           /\ ~\E j \in Copies : List(j)
  <2>1. detail' = detail
    <3>1. ASSUME NEW e \in Openings, NEW s \in Places, AskStep(e, s) PROVE detail' = detail
      <4>1. /\ ~KeepOfPage(e, s) /\ ~KeepKnown(e, s)
            /\ ~KnownIsGone(e, s) /\ ~WriteEnding(e, s)
        BY <1>9
      <4> QED
        BY <3>1, <4>1 DEF AskStep, Look, DiscoveryIsLost, DiscoveryIsRefused,
             DiscoveryAnswers, ResolveOfPage, RefuseOfPage, PageIsKept, KnownFails,
             KnownAnswers, RefreshEnds, RefreshIsLate
    <3>2. ASSUME NEW e \in Openings, Open(e) \/ Show(e) \/ AbandonOpening(e)
          PROVE  detail' = detail
      BY <3>2 DEF Open, Show, AbandonOpening
    <3>3. ASSUME NEW s \in Places, EditPlace(s) PROVE detail' = detail
      BY <3>3 DEF EditPlace
    <3>4. CASE HourPasses \/ UNCHANGED detailsVars
      BY <3>4 DEF HourPasses, detailsVars
    <3> QED
      BY <1>9, <3>1, <3>2, <3>3, <3>4 DEF DetailsNext
  <2> QED
    BY <1>2, <2>1
<1> QED
  BY <1>4, <1>5, <1>6, <1>7, <1>8, <1>9

\* Neither a place that is down nor another place takes away what is shown
\* (enrichVersions).
THEOREM VersionsStayShown == DetailsSpec => VersionsOutliveOutages
<1>1. DetailsInv /\ [DetailsNext]_detailsVars =>
        [\A i \in Copies :
            Shown(i) /\ ~Shown(i)' =>
              \/ hour' # hour
              \/ edition'[PlaceOf[i]] # edition[PlaceOf[i]]
              \/ \E e \in Openings :
                    /\ Fiber(e, PlaceOf[i])' # Fiber(e, PlaceOf[i])
                    /\ HeardOfAbsence(e, PlaceOf[i])' \/ Overdue(e, PlaceOf[i])]_detailsVars
  BY EndsShown
<1> QED
  BY <1>1, DetailsAreSound, PTL DEF DetailsSpec, VersionsOutliveOutages

-----------------------------------------------------------------------------
(* The tables of identities                                                *)

\* The type of the item a canonical id was made for.
IdType(id) ==
    CASE id[1] = "source" -> TypeOf[id[2]]
      [] id[1] = "fallback:season" -> "Season"
      [] id[1] = "fallback:episode" -> "Episode"
      [] OTHER -> id[1]

OfType(id, type) == id # Absent /\ IdType(id) = type

\* A row of canonical_items, begun at the latest by the last resolution.
RowHolds(row, last) ==
    /\ DOMAIN row = {"type", "created", "claims", "state"}
    /\ row.state \in DOMAIN Rank
    /\ row.created \in 1 .. last
    /\ \A ns \in DOMAIN row.claims : row.claims[ns].exact \in BOOLEAN

\* A row of source_items, before the question whether its canonical is live.
SourceHolds(source, item) ==
    /\ DOMAIN source = {"canonical", "generation", "reason"}
    /\ OfType(source.canonical, TypeOf[item])
    /\ source.generation \in 1 .. MaxGenerations

\* IdentityTypeOK with what keeps it: an id has the type it was made for, also
\* where an alias leads.
IdentityTables ==
    /\ shelf \subseteq Items
    /\ database \in {"sqlite", "d1"}
    /\ generation \in 1 .. MaxGenerations
    /\ begun \in Nat
    /\ \A id \in Live :
          /\ OfType(id, canonicals[id].type)
          /\ RowHolds(canonicals[id], begun)
    /\ \A a \in DOMAIN aliases :
          aliases[a] \in Live /\ IdType(aliases[a]) = IdType(a)
    /\ \A item \in DOMAIN sources :
          SourceHolds(sources[item], item) /\ sources[item].canonical \in Live
    /\ given \subseteq Live \cup DOMAIN aliases

LEMMA IdTypes ==
    /\ \A item \in Items : OfType(SourceExclusiveId(item), TypeOf[item])
    /\ \A item \in Items : \A ns, value : OfType(<<TypeOf[item], ns, value>>, TypeOf[item])
    /\ \A value : /\ OfType(<<"fallback:season", value>>, "Season")
                  /\ OfType(<<"fallback:episode", value>>, "Episode")
<1>1. \A item \in Items : OfType(SourceExclusiveId(item), TypeOf[item])
  BY DEF OfType, IdType, SourceExclusiveId, Absent
<1>2. \A item \in Items : \A ns, value : OfType(<<TypeOf[item], ns, value>>, TypeOf[item])
  <2> TAKE item \in Items
  <2> TAKE ns, value
  <2>1. TypeOf[item] \in {"Movie", "Series", "Season", "Episode"}
    BY ItemsAssumption
  <2>2. <<TypeOf[item], ns, value>>[1] = TypeOf[item]
    OBVIOUS
  <2>3. <<TypeOf[item], ns, value>> # <<>>
    OBVIOUS
  <2> QED
    BY <2>1, <2>2, <2>3 DEF OfType, IdType, Absent
<1>3. \A value : /\ OfType(<<"fallback:season", value>>, "Season")
                 /\ OfType(<<"fallback:episode", value>>, "Episode")
  BY DEF OfType, IdType, Absent
<1> QED
  BY <1>1, <1>2, <1>3

\* Of rows that were created there is an oldest.
LEMMA OldestIsOneOf ==
    ASSUME NEW rows, DOMAIN rows # {}, \A id \in DOMAIN rows : rows[id].created \in Nat
    PROVE  Oldest(rows) \in DOMAIN rows
<1> DEFINE Times == {rows[id].created : id \in DOMAIN rows}
<1>1. Times \in SUBSET Nat /\ Times # {}
  OBVIOUS
<1>2. PICK least \in Times : \A n \in Times : least <= n
  BY <1>1, Least
<1>3. PICK id \in DOMAIN rows : rows[id].created = least
  OBVIOUS
<1>4. \A other \in DOMAIN rows : rows[id].created <= rows[other].created
  BY <1>2, <1>3
<1> QED
  BY <1>4 DEF Oldest

\* Of the states of a match and of rows there is a best.
LEMMA RetainedIsAState ==
    ASSUME NEW match, match.state \in DOMAIN Rank,
           NEW rows, \A id \in DOMAIN rows : rows[id].state \in DOMAIN Rank
    PROVE  RetainedState(match, rows) \in DOMAIN Rank
<1> DEFINE namespaces == UNION {DOMAIN ExactOf(rows[id]) : id \in DOMAIN rows}
           ofClaims == {IF ns \in {"fallback:season", "fallback:episode"} THEN "fallback" ELSE "exact"
                           : ns \in namespaces}
           states == {match.state} \cup {rows[id].state : id \in DOMAIN rows} \cup ofClaims
<1>1. DOMAIN Rank = {"source-exclusive", "fallback", "exact"}
  BY DEF Rank
<1>2. ofClaims \subseteq {"fallback", "exact"}
  OBVIOUS
<1>3. match.state \in states /\ states \subseteq {"source-exclusive", "fallback", "exact"}
  BY <1>1, <1>2
<1>4. Rank["source-exclusive"] = 0 /\ Rank["fallback"] = 1 /\ Rank["exact"] = 2
  BY DEF Rank
<1>5. RetainedState(match, rows) = CHOOSE s \in states : \A other \in states : Rank[s] >= Rank[other]
  BY DEF RetainedState
<1> HIDE DEF states
<1>6. \E s \in states : \A other \in states : Rank[s] >= Rank[other]
  <2>1. CASE "exact" \in states
    BY <1>3, <1>4, <2>1
  <2>2. CASE "exact" \notin states /\ "fallback" \in states
    BY <1>3, <1>4, <2>2
  <2>3. CASE "exact" \notin states /\ "fallback" \notin states
    <3>1. states = {"source-exclusive"}
      BY <1>3, <2>3
    <3> QED
      BY <1>4, <3>1
  <2> QED
    BY <2>1, <2>2, <2>3
<1> QED
  BY <1>1, <1>3, <1>5, <1>6

-----------------------------------------------------------------------------
(* What a resolution has decided                                           *)

\* What an item is matched by: a proposed id of its type.
MatchHolds(match, item) ==
    /\ match.proposed = Absent \/ OfType(match.proposed, TypeOf[item])
    /\ match.state \in DOMAIN Rank

\* The rows it was matched with, as they were read.
RowsHold(rows, item, last) ==
    \A id \in DOMAIN rows : OfType(id, TypeOf[item]) /\ RowHolds(rows[id], last)

ExistingHolds(existing, item) == existing = Absent \/ OfType(existing, TypeOf[item])

LEMMA MatchingHolds ==
    ASSUME NEW c, c.item \in Items, NEW parent
    PROVE  MatchHolds(Matching(c, parent), c.item)
<1>1. DOMAIN Rank = {"source-exclusive", "fallback", "exact"}
  BY DEF Rank
<1>2. CASE HasFallback(c) /\ parent # Absent
  <2>1. \/ /\ TypeOf[c.item] = "Season"
           /\ Matching(c, parent).proposed = <<"fallback:season", <<parent, NumberOf[c.item]>>>>
        \/ /\ TypeOf[c.item] = "Episode"
           /\ Matching(c, parent).proposed = <<"fallback:episode", <<parent, NumberOf[c.item]>>>>
    BY <1>2 DEF Matching, HasFallback
  <2>2. Matching(c, parent).state = "fallback"
    BY <1>2 DEF Matching
  <2> QED
    BY <1>1, <2>1, <2>2, IdTypes DEF MatchHolds
<1>3. CASE HasFallback(c) /\ parent = Absent
  BY <1>1, <1>3 DEF Matching, MatchHolds
<1>4. CASE ~HasFallback(c)
  <2>1. /\ Matching(c, parent).proposed = ProposedId(c)
        /\ Matching(c, parent).state \in {"source-exclusive", "exact"}
    BY <1>4 DEF Matching
  <2>2. ProposedId(c) = Absent \/ OfType(ProposedId(c), TypeOf[c.item])
    BY IdTypes DEF ProposedId
  <2> QED
    BY <1>1, <2>1, <2>2 DEF MatchHolds
<1> QED
  BY <1>2, <1>3, <1>4

LEMMA ChosenIsOfType ==
    ASSUME NEW item \in Items, NEW match, MatchHolds(match, item),
           NEW existing, ExistingHolds(existing, item),
           NEW last \in Nat, NEW rows, RowsHold(rows, item, last)
    PROVE  OfType(Chosen(item, match, existing, rows), TypeOf[item])
<1>1. DOMAIN rows # {} => Oldest(rows) \in DOMAIN rows
  <2>1. \A id \in DOMAIN rows : rows[id].created \in Nat
    BY DEF RowsHold, RowHolds
  <2> QED
    BY <2>1, OldestIsOneOf
<1>2. OfType(SourceExclusiveId(item), TypeOf[item])
  BY IdTypes
<1>3. DOMAIN rows # {} => OfType(Oldest(rows), TypeOf[item])
  BY <1>1 DEF RowsHold
<1>4. existing # Absent => OfType(existing, TypeOf[item])
  BY DEF ExistingHolds
<1>5. match.proposed # Absent => OfType(match.proposed, TypeOf[item])
  BY DEF MatchHolds
<1> QED
  BY <1>2, <1>3, <1>4, <1>5, Zenon DEF Chosen

\* An id and the id its alias leads to are of one type.
LEMMA LookedUpIsOfType ==
    ASSUME IdentityTables, NEW id, NEW type, OfType(id, type)
    PROVE  OfType(LookedUp(id), type)
<1>1. CASE id \in Live
  BY <1>1 DEF LookedUp, Lookup
<1>2. CASE id \notin Live /\ id \in DOMAIN aliases
  <2>1. Lookup(id) = aliases[id]
    BY <1>2 DEF Lookup
  <2>2. aliases[id] \in Live /\ IdType(aliases[id]) = type
    BY <1>2 DEF IdentityTables, OfType
  <2>3. aliases[id] # Absent
    BY <2>2 DEF IdentityTables, OfType
  <2> QED
    BY <2>1, <2>2, <2>3 DEF LookedUp, OfType
<1>3. CASE id \notin Live /\ id \notin DOMAIN aliases
  BY <1>3 DEF LookedUp, Lookup
<1> QED
  BY <1>1, <1>2, <1>3

-----------------------------------------------------------------------------
(* The writes of a resolution                                              *)

ExactClaims(claims) == \A ns \in DOMAIN claims : claims[ns].exact \in BOOLEAN

LEMMA OverClaims ==
    ASSUME NEW one, NEW other, ExactClaims(one), ExactClaims(other)
    PROVE  ExactClaims(Over(one, other))
<1> SUFFICES ASSUME NEW ns \in DOMAIN Over(one, other)
             PROVE  Over(one, other)[ns].exact \in BOOLEAN
  BY DEF ExactClaims
<1>1. CASE ns \in DOMAIN one
  <2>1. Over(one, other)[ns] = one[ns]
    BY <1>1 DEF Over
  <2> QED
    BY <1>1, <2>1, Zenon DEF ExactClaims
<1>2. CASE ns \notin DOMAIN one
  <2>1. ns \in DOMAIN other /\ Over(one, other)[ns] = other[ns]
    BY <1>2 DEF Over
  <2> QED
    BY <2>1, Zenon DEF ExactClaims
<1> QED
  BY <1>1, <1>2

LEMMA ClaimedExact ==
    ASSUME NEW claims, NEW exact \in BOOLEAN
    PROVE  ExactClaims(Claimed(claims, exact))
  BY DEF ExactClaims, Claimed

\* The exact claims of a row are some of its claims.
LEMMA ExactOfRow ==
    ASSUME NEW row
    PROVE  /\ DOMAIN ExactOf(row) = {ns \in DOMAIN row.claims : row.claims[ns].exact}
           /\ \A ns \in DOMAIN ExactOf(row) : ExactOf(row)[ns] = row.claims[ns]
  BY DEF ExactOf, Restrict

LEMMA ClaimsAfterExact ==
    ASSUME NEW r, NEW conflict \in BOOLEAN, NEW row, NEW retired,
           ExactClaims(row.claims), retired \subseteq DOMAIN r.rows,
           \A id \in DOMAIN r.rows : ExactClaims(r.rows[id].claims)
    PROVE  ExactClaims(ClaimsAfter(r, conflict, row, retired))
<1>1. CASE conflict
  <2>1. ExactClaims(Over(Claimed(r.claims, FALSE), row.claims))
    BY ClaimedExact, OverClaims
  <2> QED
    BY <1>1, <2>1 DEF ClaimsAfter
<1>2. CASE ~conflict
  <2> DEFINE inherited == [ns \in UNION {DOMAIN ExactOf(r.rows[id]) : id \in retired} |->
                 r.rows[CHOOSE id \in retired : ns \in DOMAIN ExactOf(r.rows[id])].claims[ns]]
  <2>1. ExactClaims(inherited)
    <3> SUFFICES ASSUME NEW ns \in UNION {DOMAIN ExactOf(r.rows[id]) : id \in retired}
                 PROVE  inherited[ns].exact \in BOOLEAN
      BY DEF ExactClaims
    <3> DEFINE id == CHOOSE id \in retired : ns \in DOMAIN ExactOf(r.rows[id])
    <3>1. id \in retired /\ ns \in DOMAIN ExactOf(r.rows[id])
      OBVIOUS
    <3>2. inherited[ns] = r.rows[id].claims[ns]
      OBVIOUS
    <3> HIDE DEF id, inherited
    <3>3. ns \in DOMAIN r.rows[id].claims
      BY <3>1, ExactOfRow
    <3> QED
      BY <3>1, <3>2, <3>3 DEF ExactClaims
  <2>2. Inherited(row, retired, r.rows) = Over(row.claims, inherited)
    BY DEF Inherited
  <2> HIDE DEF inherited
  <2>3. ExactClaims(Inherited(row, retired, r.rows))
    BY <2>1, <2>2, OverClaims
  <2>4. ExactClaims(ExactOf([claims |-> Inherited(row, retired, r.rows)]))
    <3> DEFINE claims == Inherited(row, retired, r.rows)
    <3>1. /\ DOMAIN ExactOf([claims |-> claims]) \subseteq DOMAIN claims
          /\ \A ns \in DOMAIN ExactOf([claims |-> claims]) :
                ExactOf([claims |-> claims])[ns] = claims[ns]
      <4> HIDE DEF claims
      <4> QED
        BY DEF ExactOf, Restrict
    <3> HIDE DEF claims
    <3>2. \A ns \in DOMAIN claims : claims[ns].exact \in BOOLEAN
      BY <2>3 DEF ExactClaims, claims
    <3>3. \A ns \in DOMAIN ExactOf([claims |-> claims]) :
             ExactOf([claims |-> claims])[ns].exact \in BOOLEAN
      BY <3>1, <3>2, Zenon
    <3> QED
      BY <3>3, Zenon DEF ExactClaims, claims
  <2>5. ExactClaims(Claimed(r.match.claims, TRUE))
    BY ClaimedExact
  <2> QED
    BY <1>2, <2>4, <2>5, OverClaims DEF ClaimsAfter
<1> QED
  BY <1>1, <1>2

\* What the batch has in hand.
HeldInHand(r) ==
    /\ r.item \in Items
    /\ r.generation \in 1 .. MaxGenerations
    /\ r.stamp \in 1 .. begun
    /\ MatchHolds(r.match, r.item)
    /\ ExistingHolds(r.existing, r.item)
    /\ RowsHold(r.rows, r.item, begun)

\* What a resolution makes of the tables, row by row.
Wrote(r, survivor) ==
    LET conflict == Incompatible(r.match.claims, r.rows)
        retired == Retired(conflict, survivor, r.rows)
    IN  /\ Live' = {survivor} \cup (Live \ retired)
        /\ \A id \in Live \ (retired \cup {survivor}) : canonicals'[id] = canonicals[id]
        /\ canonicals'[survivor].type = TypeOf[r.item]
        /\ RowHolds(canonicals'[survivor], begun)
        /\ DOMAIN aliases \cup retired \subseteq DOMAIN aliases'
        /\ \A a \in DOMAIN aliases' :
              \/ aliases'[a] = survivor /\ IdType(a) = IdType(survivor)
              \/ a \in DOMAIN aliases /\ aliases'[a] = aliases[a] /\ aliases[a] \notin retired
        /\ DOMAIN sources' = {r.item} \cup DOMAIN sources
        /\ sources'[r.item] =
              [canonical |-> survivor, generation |-> r.generation,
               reason |-> IF conflict THEN "ambiguous-identity" ELSE r.match.reason]
        /\ \A item \in DOMAIN sources \ {r.item} :
              sources'[item] = IF sources[item].canonical \in retired
                               THEN [sources[item] EXCEPT !.canonical = survivor]
                               ELSE sources[item]

LEMMA WriteWrites ==
    ASSUME IdentityTables, NEW r, HeldInHand(r),
           NEW survivor, OfType(survivor, TypeOf[r.item]), Write(r, survivor)
    PROVE  Wrote(r, survivor)
<1> DEFINE conflict == Incompatible(r.match.claims, r.rows)
           retired == Retired(conflict, survivor, r.rows)
           row == Ensured(r, conflict, survivor)
           after == [row EXCEPT !.claims = ClaimsAfter(r, conflict, row, retired),
                                !.state = StateAfter(r, conflict, row)]
<1>1. /\ canonicals' = With(Restrict(canonicals, Live \ retired), survivor, after)
      /\ aliases' = AliasesAfter(r, conflict, survivor, retired)
      /\ sources' = SourcesAfter(r, conflict, survivor, retired)
  BY DEF Write
<1>2. conflict \in BOOLEAN
  BY DEF Incompatible
<1>3. retired \subseteq DOMAIN r.rows \ {survivor} /\ (conflict => retired = {})
  BY DEF Retired
<1>4. /\ DOMAIN Restrict(canonicals, Live \ retired) = Live \ retired
      /\ \A id \in Live \ retired : Restrict(canonicals, Live \ retired)[id] = canonicals[id]
  BY DEF Restrict
<1>5. row.type = TypeOf[r.item] /\ RowHolds(row, begun)
  <2>1. CASE survivor \in Live
    BY <2>1 DEF Ensured, IdentityTables, OfType
  <2>2. CASE survivor \notin Live
    <3>1. row = [type |-> TypeOf[r.item], created |-> r.stamp, claims |-> NoClaims,
                 state |-> IF conflict THEN "source-exclusive" ELSE r.match.state]
      BY <2>2 DEF Ensured
    <3>2. DOMAIN NoClaims = {}
      BY DEF NoClaims
    <3> HIDE DEF row, conflict
    <3>3. row.state \in DOMAIN Rank
      BY <3>1 DEF HeldInHand, MatchHolds, Rank
    <3> QED
      BY <3>1, <3>2, <3>3 DEF RowHolds, HeldInHand
  <2> QED
    BY <2>1, <2>2
<1>6. StateAfter(r, conflict, row) \in DOMAIN Rank
  <2>1. RetainedState(r.match, r.rows) \in DOMAIN Rank
    BY RetainedIsAState DEF HeldInHand, MatchHolds, RowsHold, RowHolds
  <2>2. "source-exclusive" \in DOMAIN Rank /\ row.state \in DOMAIN Rank
    BY <1>5 DEF Rank, RowHolds
  <2> QED
    BY <2>1, <2>2 DEF StateAfter, IdentityTables
<1>7. after.type = TypeOf[r.item] /\ RowHolds(after, begun)
  <2>1. ExactClaims(ClaimsAfter(r, conflict, row, retired))
    BY <1>2, <1>3, <1>5, ClaimsAfterExact DEF HeldInHand, RowsHold, RowHolds, ExactClaims
  <2> HIDE DEF row, conflict, retired
  <2> QED
    BY <1>5, <1>6, <2>1 DEF RowHolds, ExactClaims
<1>8. /\ DOMAIN canonicals' = {survivor} \cup (Live \ retired)
      /\ canonicals'[survivor] = after
      /\ \A id \in Live \ (retired \cup {survivor}) : canonicals'[id] = canonicals[id]
  <2> HIDE DEF after, retired
  <2> QED
    <3> DEFINE kept == Restrict(canonicals, Live \ retired)
    <3>1. /\ DOMAIN With(kept, survivor, after) = {survivor} \cup DOMAIN kept
          /\ With(kept, survivor, after)[survivor] = after
          /\ \A k \in DOMAIN kept \ {survivor} : With(kept, survivor, after)[k] = kept[k]
      <4> HIDE DEF kept
      <4> QED
        BY DEF With
    <3> QED
      BY <1>1, <1>4, <3>1
<1>9. /\ DOMAIN aliases \cup retired \subseteq DOMAIN aliases'
      /\ \A a \in DOMAIN aliases' :
            \/ aliases'[a] = survivor /\ IdType(a) = IdType(survivor)
            \/ a \in DOMAIN aliases /\ aliases'[a] = aliases[a] /\ aliases[a] \notin retired
  <2> DEFINE learned == IF ~conflict /\ r.match.proposed \notin {Absent, survivor}
                        THEN {r.match.proposed} ELSE {}
             repointed == [a \in DOMAIN aliases |->
                              IF aliases[a] \in retired THEN survivor ELSE aliases[a]]
             new == [a \in learned \cup retired |-> survivor]
  <2>1. aliases' = Over(new, repointed)
    BY <1>1 DEF AliasesAfter
  <2>2. \A a \in learned \cup retired : IdType(a) = IdType(survivor)
    BY <1>3 DEF HeldInHand, MatchHolds, RowsHold, OfType
  <2>3. \A a \in DOMAIN aliases : IdType(aliases[a]) = IdType(a)
    BY DEF IdentityTables
  <2>4. \A a \in retired : IdType(a) = IdType(survivor)
    BY <2>2
  <2> HIDE DEF learned, conflict, retired
  <2>5. DOMAIN new = learned \cup retired /\ DOMAIN repointed = DOMAIN aliases
    OBVIOUS
  <2>6. /\ \A a \in learned \cup retired : new[a] = survivor
        /\ \A a \in DOMAIN aliases :
              repointed[a] = IF aliases[a] \in retired THEN survivor ELSE aliases[a]
    OBVIOUS
  <2> HIDE DEF new, repointed
  <2> QED
    <3>1. /\ DOMAIN aliases' = DOMAIN new \cup DOMAIN repointed
          /\ \A a \in DOMAIN new : aliases'[a] = new[a]
          /\ \A a \in DOMAIN repointed \ DOMAIN new : aliases'[a] = repointed[a]
      BY <2>1 DEF Over
    <3>2. ASSUME NEW a \in DOMAIN aliases'
          PROVE  \/ aliases'[a] = survivor /\ IdType(a) = IdType(survivor)
                 \/ a \in DOMAIN aliases /\ aliases'[a] = aliases[a] /\ aliases[a] \notin retired
      <4>1. CASE a \in learned \cup retired
        BY <2>2, <2>5, <2>6, <3>1, <4>1
      <4>2. CASE a \notin learned \cup retired
        <5>1. a \in DOMAIN aliases /\ aliases'[a] = repointed[a]
          BY <2>5, <3>1, <4>2
        <5> QED
          BY <2>3, <2>4, <2>6, <5>1
      <4> QED
        BY <4>1, <4>2
    <3> QED
      BY <2>5, <3>1, <3>2
<1>10. /\ DOMAIN sources' = {r.item} \cup DOMAIN sources
       /\ sources'[r.item] =
             [canonical |-> survivor, generation |-> r.generation,
              reason |-> IF conflict THEN "ambiguous-identity" ELSE r.match.reason]
       /\ \A item \in DOMAIN sources \ {r.item} :
             sources'[item] = IF sources[item].canonical \in retired
                              THEN [sources[item] EXCEPT !.canonical = survivor]
                              ELSE sources[item]
  <2> HIDE DEF conflict, retired
  <2> QED
    <3> DEFINE moved == [item \in DOMAIN sources |->
                           IF sources[item].canonical \in retired
                           THEN [sources[item] EXCEPT !.canonical = survivor]
                           ELSE sources[item]]
               found == [canonical |-> survivor, generation |-> r.generation,
                         reason |-> IF conflict THEN "ambiguous-identity" ELSE r.match.reason]
    <3>1. sources' = With(moved, r.item, found)
      BY <1>1 DEF SourcesAfter
    <3>2. DOMAIN moved = DOMAIN sources
      OBVIOUS
    <3>3. \A item \in DOMAIN sources :
             moved[item] = IF sources[item].canonical \in retired
                           THEN [sources[item] EXCEPT !.canonical = survivor]
                           ELSE sources[item]
      OBVIOUS
    <3> HIDE DEF moved, found
    <3>4. /\ DOMAIN sources' = {r.item} \cup DOMAIN moved
          /\ sources'[r.item] = found
          /\ \A k \in DOMAIN moved \ {r.item} : sources'[k] = moved[k]
      BY <3>1 DEF With
    <3> QED
      BY <3>2, <3>3, <3>4 DEF found
<1>11. Live' = DOMAIN canonicals'
  BY DEF Live
<1> HIDE DEF conflict, retired, row, after
<1>12. Wrote(r, survivor) =
        (/\ Live' = {survivor} \cup (Live \ retired)
         /\ \A id \in Live \ (retired \cup {survivor}) : canonicals'[id] = canonicals[id]
         /\ canonicals'[survivor].type = TypeOf[r.item]
         /\ RowHolds(canonicals'[survivor], begun)
         /\ DOMAIN aliases \cup retired \subseteq DOMAIN aliases'
         /\ \A a \in DOMAIN aliases' :
               \/ aliases'[a] = survivor /\ IdType(a) = IdType(survivor)
               \/ a \in DOMAIN aliases /\ aliases'[a] = aliases[a] /\ aliases[a] \notin retired
         /\ DOMAIN sources' = {r.item} \cup DOMAIN sources
         /\ sources'[r.item] =
               [canonical |-> survivor, generation |-> r.generation,
                reason |-> IF conflict THEN "ambiguous-identity" ELSE r.match.reason]
         /\ \A item \in DOMAIN sources \ {r.item} :
               sources'[item] = IF sources[item].canonical \in retired
                                THEN [sources[item] EXCEPT !.canonical = survivor]
                                ELSE sources[item])
  BY DEF Wrote, conflict, retired
<1> QED
  BY <1>7, <1>8, <1>9, <1>10, <1>11, <1>12

\* After the write every reference leads to a live canonical of its type, and
\* every id that was given still leads.
LEMMA WroteKeepsTables ==
    ASSUME IdentityTables, NEW r, HeldInHand(r),
           NEW survivor, OfType(survivor, TypeOf[r.item]), Wrote(r, survivor),
           given' \subseteq given \cup {survivor}, UNCHANGED <<upstreamWorld, generation, begun>>
    PROVE  IdentityTables'
<1> DEFINE conflict == Incompatible(r.match.claims, r.rows)
           retired == Retired(conflict, survivor, r.rows)
<1>1. survivor \notin retired
  BY DEF Retired
<1>2. /\ Live' = {survivor} \cup (Live \ retired)
      /\ \A id \in Live \ (retired \cup {survivor}) : canonicals'[id] = canonicals[id]
      /\ canonicals'[survivor].type = TypeOf[r.item]
      /\ RowHolds(canonicals'[survivor], begun)
      /\ DOMAIN aliases \cup retired \subseteq DOMAIN aliases'
      /\ \A a \in DOMAIN aliases' :
            \/ aliases'[a] = survivor /\ IdType(a) = IdType(survivor)
            \/ a \in DOMAIN aliases /\ aliases'[a] = aliases[a] /\ aliases[a] \notin retired
  BY DEF Wrote
<1>3. /\ DOMAIN sources' = {r.item} \cup DOMAIN sources
      /\ sources'[r.item] =
            [canonical |-> survivor, generation |-> r.generation,
             reason |-> IF conflict THEN "ambiguous-identity" ELSE r.match.reason]
      /\ \A item \in DOMAIN sources \ {r.item} :
            sources'[item] = IF sources[item].canonical \in retired
                             THEN [sources[item] EXCEPT !.canonical = survivor]
                             ELSE sources[item]
  BY DEF Wrote
<1>4. \A id \in retired : OfType(id, TypeOf[r.item])
  BY DEF Retired, HeldInHand, RowsHold
<1> HIDE DEF conflict, retired
<1>5. \A id \in Live' : OfType(id, canonicals'[id].type) /\ RowHolds(canonicals'[id], begun')
  BY <1>1, <1>2 DEF IdentityTables
<1>6. \A a \in DOMAIN aliases' : aliases'[a] \in Live' /\ IdType(aliases'[a]) = IdType(a)
  BY <1>1, <1>2 DEF IdentityTables
<1>7. \A item \in DOMAIN sources' : SourceHolds(sources'[item], item) /\ sources'[item].canonical \in Live'
  <2>1. SourceHolds(sources'[r.item], r.item) /\ sources'[r.item].canonical \in Live'
    BY <1>2, <1>3 DEF SourceHolds, HeldInHand
  <2>2. ASSUME NEW item \in DOMAIN sources \ {r.item}
        PROVE  SourceHolds(sources'[item], item) /\ sources'[item].canonical \in Live'
    <3>1. SourceHolds(sources[item], item) /\ sources[item].canonical \in Live
      BY DEF IdentityTables
    <3>2. CASE sources[item].canonical \in retired
      <4>1. sources'[item] = [sources[item] EXCEPT !.canonical = survivor]
        BY <1>3, <3>2
      <4>2. OfType(survivor, TypeOf[item])
        BY <1>4, <3>1, <3>2 DEF SourceHolds, OfType
      <4> QED
        BY <1>2, <3>1, <4>1, <4>2 DEF SourceHolds
    <3>3. CASE sources[item].canonical \notin retired
      BY <1>2, <1>3, <3>1, <3>3
    <3> QED
      BY <3>2, <3>3
  <2> QED
    BY <1>3, <2>1, <2>2
<1>8. given' \subseteq Live' \cup DOMAIN aliases'
  BY <1>2 DEF IdentityTables
<1> QED
  BY <1>5, <1>6, <1>7, <1>8 DEF IdentityTables, upstreamWorld

-----------------------------------------------------------------------------
(* Resolutions under way                                                   *)

AfterMatch == {"existing", "matched", "rows", "claims", "target", "batch", "reread"}
AfterExisting == AfterMatch \ {"existing"}
AfterRows == {"claims", "target", "batch", "reread"}
AfterChoice == {"target", "batch", "reread"}

BeginHolds(r, last) ==
    /\ {"purpose", "item", "claims", "numbers", "series", "generation", "stamp", "clean"}
          \subseteq DOMAIN r
    /\ r.item \in Items
    /\ r.generation \in 1 .. MaxGenerations
    /\ r.stamp \in 1 .. last

\* What was read back for a cover.
ResultHolds(result, item, last) ==
    /\ item \in Items
    /\ OfType(result.canonical, result.row.type)
    /\ RowHolds(result.row, last)
    /\ SourceHolds(result.source, item)
    /\ \A a \in result.aliases : IdType(a) = IdType(result.canonical)

\* What a fiber holds is of the type of its item, however stale it is.
FiberHolds(r, last, found) ==
    /\ "pc" \in DOMAIN r
    /\ r.pc \in {"idle", "prepared", "resolved"} \cup AfterMatch
    /\ r.pc \in {"prepared"} \cup AfterMatch => BeginHolds(r, last)
    /\ r.pc \in AfterMatch => "match" \in DOMAIN r /\ MatchHolds(r.match, r.item)
    /\ r.pc \in AfterExisting =>
          {"existing", "ids"} \subseteq DOMAIN r /\ ExistingHolds(r.existing, r.item)
    /\ r.pc \in AfterRows => "rows" \in DOMAIN r /\ RowsHold(r.rows, r.item, last)
    /\ r.pc \in AfterChoice =>
          "survivor" \in DOMAIN r /\ OfType(r.survivor, TypeOf[r.item])
    /\ r.pc = "reread" => r.item \in found
    /\ r.pc = "resolved" =>
          {"item", "result"} \subseteq DOMAIN r /\ ResultHolds(r.result, r.item, last)

IdentityInv ==
    /\ IdentityTables
    /\ DOMAIN resolver = Resolvers
    /\ \A f \in Resolvers : FiberHolds(resolver[f], begun, DOMAIN sources)

LEMMA RowLasts ==
    ASSUME NEW row, NEW last \in Nat, NEW later \in Nat, last <= later, RowHolds(row, last)
    PROVE  RowHolds(row, later)
<1>1. row.created \in 1 .. later
  BY DEF RowHolds
<1>2. \A ns \in DOMAIN row.claims : row.claims[ns].exact \in BOOLEAN
  BY Zenon DEF RowHolds
<1> QED
  BY <1>1, <1>2, Zenon DEF RowHolds

LEMMA FiberLasts ==
    ASSUME NEW r, NEW last \in Nat, NEW later \in Nat, last <= later,
           NEW found, NEW heirs, found \subseteq heirs, FiberHolds(r, last, found)
    PROVE  FiberHolds(r, later, heirs)
<1>1. BeginHolds(r, last) => BeginHolds(r, later)
  BY DEF BeginHolds
<1>2. RowsHold(r.rows, r.item, last) => RowsHold(r.rows, r.item, later)
  BY RowLasts DEF RowsHold
<1>3. ResultHolds(r.result, r.item, last) => ResultHolds(r.result, r.item, later)
  BY RowLasts DEF ResultHolds
<1> QED
  BY <1>1, <1>2, <1>3 DEF FiberHolds

\* A fiber that differs in its pc and cleanness only.
LEMMA FiberOvertaken ==
    ASSUME NEW r, NEW last, NEW found, FiberHolds(r, last, found), "clean" \in DOMAIN r
    PROVE  FiberHolds([r EXCEPT !.clean = FALSE], last, found)
<1> DEFINE s == [r EXCEPT !.clean = FALSE]
<1>1. DOMAIN s = DOMAIN r
  OBVIOUS
<1>2. /\ "pc" \in DOMAIN r => s.pc = r.pc
      /\ "item" \in DOMAIN r => s.item = r.item
      /\ "generation" \in DOMAIN r => s.generation = r.generation
      /\ "stamp" \in DOMAIN r => s.stamp = r.stamp
      /\ "match" \in DOMAIN r => s.match = r.match
      /\ "existing" \in DOMAIN r => s.existing = r.existing
      /\ "rows" \in DOMAIN r => s.rows = r.rows
      /\ "survivor" \in DOMAIN r => s.survivor = r.survivor
      /\ "result" \in DOMAIN r => s.result = r.result
  OBVIOUS
<1> HIDE DEF s
<1>3. s.pc = r.pc
  BY <1>2 DEF FiberHolds
<1>4. BeginHolds(r, last) => BeginHolds(s, last) /\ s.item = r.item
  BY <1>1, <1>2 DEF BeginHolds
<1>5. r.pc \in AfterExisting => r.pc \in AfterMatch
  BY DEF AfterExisting
<1>6. r.pc \in AfterRows \cup AfterChoice => r.pc \in AfterMatch
  BY DEF AfterRows, AfterChoice, AfterMatch
<1>7. r.pc = "reread" => r.pc \in AfterMatch
  BY DEF AfterMatch
<1>8. r.pc \in AfterMatch => s.item = r.item
  BY <1>4 DEF FiberHolds
<1>9. /\ r.pc \in AfterMatch => "match" \in DOMAIN s /\ MatchHolds(s.match, s.item)
      /\ r.pc \in AfterExisting =>
            {"existing", "ids"} \subseteq DOMAIN s /\ ExistingHolds(s.existing, s.item)
      /\ r.pc \in AfterRows => "rows" \in DOMAIN s /\ RowsHold(s.rows, s.item, last)
      /\ r.pc \in AfterChoice =>
            "survivor" \in DOMAIN s /\ OfType(s.survivor, TypeOf[s.item])
      /\ r.pc = "reread" => s.item \in found
  BY <1>1, <1>2, <1>5, <1>6, <1>7, <1>8 DEF FiberHolds
<1>10. r.pc = "resolved" =>
          {"item", "result"} \subseteq DOMAIN s /\ ResultHolds(s.result, s.item, last)
  BY <1>1, <1>2 DEF FiberHolds
<1>11. /\ "pc" \in DOMAIN s
       /\ s.pc \in {"idle", "prepared", "resolved"} \cup AfterMatch
       /\ s.pc \in {"prepared"} \cup AfterMatch => BeginHolds(s, last)
  BY <1>1, <1>3, <1>4 DEF FiberHolds
<1>12. FiberHolds(s, last, found)
  BY <1>3, <1>9, <1>10, <1>11 DEF FiberHolds
<1> QED
  BY <1>12 DEF s

LEMMA FibersOvertaken ==
    ASSUME IdentityInv, NEW f \in Resolvers, NEW held, resolver' = Overtaken(f, held),
           begun' = begun, DOMAIN sources \subseteq DOMAIN sources',
           FiberHolds(held, begun, DOMAIN sources')
    PROVE  /\ DOMAIN resolver' = Resolvers
           /\ \A g \in Resolvers : FiberHolds(resolver'[g], begun', DOMAIN sources')
<1>1. DOMAIN resolver' = Resolvers
  BY DEF Overtaken
<1>2. \A g \in Resolvers :
         resolver'[g] = IF g = f THEN held
                        ELSE IF "clean" \in DOMAIN resolver[g]
                             THEN [resolver[g] EXCEPT !.clean = FALSE] ELSE resolver[g]
  BY DEF Overtaken
<1>3. ASSUME NEW g \in Resolvers
      PROVE  FiberHolds(resolver'[g], begun', DOMAIN sources')
  <2>1. CASE g = f
    BY <1>2, <2>1
  <2>2. CASE g # f
    <3>1. FiberHolds(resolver[g], begun, DOMAIN sources)
      BY DEF IdentityInv
    <3>2. FiberHolds(resolver[g], begun, DOMAIN sources')
      BY <3>1, FiberLasts DEF IdentityInv, IdentityTables
    <3>3. "clean" \in DOMAIN resolver[g] =>
             FiberHolds([resolver[g] EXCEPT !.clean = FALSE], begun, DOMAIN sources')
      BY <3>2, FiberOvertaken
    <3> QED
      BY <1>2, <2>2, <3>2, <3>3
  <2> QED
    BY <2>1, <2>2
<1> QED
  BY <1>1, <1>3

\* A step of one fiber that writes no table.
LEMMA FiberMoves ==
    ASSUME IdentityInv, NEW f \in Resolvers, NEW held, Holds(f, held),
           UNCHANGED <<upstreamWorld, generation, tables>>,
           given' = given, begun' \in {begun, begun + 1},
           FiberHolds(held, begun', DOMAIN sources)
    PROVE  IdentityInv'
<1>1. DOMAIN resolver' = Resolvers
  BY DEF Holds, IdentityInv
<1>2. \A g \in Resolvers : resolver'[g] = IF g = f THEN held ELSE resolver[g]
  BY DEF Holds, IdentityInv
<1>3. begun \in Nat /\ begun' \in Nat /\ begun <= begun'
  BY DEF IdentityInv, IdentityTables
<1>4. ASSUME NEW g \in Resolvers PROVE FiberHolds(resolver'[g], begun', DOMAIN sources')
  <2>1. FiberHolds(resolver[g], begun, DOMAIN sources)
    BY DEF IdentityInv
  <2>2. FiberHolds(resolver[g], begun', DOMAIN sources)
    BY <1>3, <2>1, FiberLasts
  <2>3. sources' = sources
    BY DEF tables
  <2> QED
    BY <1>2, <2>2, <2>3
<1>5. IdentityTables'
  <2>1. /\ canonicals' = canonicals /\ aliases' = aliases /\ sources' = sources
        /\ database' = database /\ shelf' = shelf /\ generation' = generation /\ Live' = Live
    BY DEF tables, upstreamWorld, Live
  <2>2. \A id \in Live : RowHolds(canonicals[id], begun')
    BY <1>3, RowLasts DEF IdentityInv, IdentityTables
  <2> QED
    BY <1>3, <2>1, <2>2 DEF IdentityInv, IdentityTables
<1> QED
  BY <1>1, <1>4, <1>5 DEF IdentityInv

LEMMA IdleHolds ==
    ASSUME NEW last, NEW found
    PROVE  FiberHolds(NoResolution, last, found)
  BY DEF FiberHolds, NoResolution, AfterMatch, AfterExisting, AfterRows, AfterChoice

\* What is read back.
LEMMA ReturnedHolds ==
    ASSUME IdentityTables', NEW r, r.item \in Items, r.item \in DOMAIN sources',
           NEW id, id \in Live'
    PROVE  FiberHolds(Returned(r, Resolution(r, id)), begun', DOMAIN sources')
<1> DEFINE back == [canonical |-> id, row |-> canonicals'[id], source |-> sources'[r.item],
                    aliases |-> {a \in DOMAIN aliases' : aliases'[a] = id}]
<1>1. Resolution(r, id) = back
  BY DEF Resolution
<1>2. ResultHolds(back, r.item, begun')
  <2>1. OfType(id, canonicals'[id].type) /\ RowHolds(canonicals'[id], begun')
    BY DEF IdentityTables
  <2>2. SourceHolds(sources'[r.item], r.item)
    BY DEF IdentityTables
  <2>3. \A a \in DOMAIN aliases' : aliases'[a] = id => IdType(a) = IdType(id)
    BY DEF IdentityTables
  <2>4. /\ back.canonical = id /\ back.row = canonicals'[id]
        /\ back.source = sources'[r.item]
        /\ back.aliases = {a \in DOMAIN aliases' : aliases'[a] = id}
    OBVIOUS
  <2> HIDE DEF back
  <2> QED
    BY <2>1, <2>2, <2>3, <2>4 DEF ResultHolds
<1> HIDE DEF back
<1>3. CASE Returned(r, Resolution(r, id)) = NoResolution
  BY <1>3, IdleHolds
<1>4. CASE Returned(r, Resolution(r, id)) = [pc |-> "resolved", item |-> r.item, result |-> back]
  <2> DEFINE held == [pc |-> "resolved", item |-> r.item, result |-> back]
  <2>1. /\ DOMAIN held = {"pc", "item", "result"}
        /\ held.pc = "resolved" /\ held.item = r.item /\ held.result = back
    OBVIOUS
  <2> HIDE DEF held
  <2>2. FiberHolds(held, begun', DOMAIN sources')
    BY <1>2, <2>1 DEF FiberHolds, AfterMatch, AfterExisting, AfterRows, AfterChoice
  <2> QED
    BY <1>4, <2>2 DEF held
<1> QED
  BY <1>1, <1>3, <1>4 DEF Returned

\* What a fiber read is added to what it holds.
Adds(r, new, s) ==
    /\ DOMAIN s = DOMAIN new \cup DOMAIN r
    /\ \A k \in DOMAIN new : s[k] = new[k]
    /\ \A k \in DOMAIN r \ DOMAIN new : s[k] = r[k]

LEMMA OverAdds ==
    ASSUME NEW r, NEW new
    PROVE  Adds(r, new, Over(new, r))
  BY DEF Adds, Over

LEMMA BeginLasts ==
    ASSUME NEW r, NEW last, BeginHolds(r, last), NEW new, NEW s, Adds(r, new, s),
           DOMAIN new \cap {"item", "generation", "stamp"} = {}
    PROVE  BeginHolds(s, last) /\ s.item = r.item
  BY DEF BeginHolds, Adds

LEMMA BeginKeeps ==
    ASSUME IdentityInv, NEW f \in Resolvers, BeginResolution(f)
    PROVE  IdentityInv'
<1>1. PICK item \in shelf, purpose \in {"browse", "cover"} : \E offer \in Offers[item] :
         LET parent == IF item \in DOMAIN SeriesOf /\ offer.inSeries
                       THEN ExistingOf(SeriesOf[item]) ELSE Absent
         IN  Holds(f, [pc |-> "prepared", purpose |-> purpose, item |-> item,
                       claims |-> offer.claims, numbers |-> offer.numbers,
                       series |-> parent, generation |-> generation,
                       stamp |-> begun + 1, clean |-> TRUE])
  BY DEF BeginResolution
<1>0. PICK offer \in Offers[item] :
         LET parent == IF item \in DOMAIN SeriesOf /\ offer.inSeries
                       THEN ExistingOf(SeriesOf[item]) ELSE Absent
         IN  Holds(f, [pc |-> "prepared", purpose |-> purpose, item |-> item,
                       claims |-> offer.claims, numbers |-> offer.numbers,
                       series |-> parent, generation |-> generation,
                       stamp |-> begun + 1, clean |-> TRUE])
  BY <1>1
<1> DEFINE parent == IF item \in DOMAIN SeriesOf /\ offer.inSeries
                     THEN ExistingOf(SeriesOf[item]) ELSE Absent
           held == [pc |-> "prepared", purpose |-> purpose, item |-> item,
                    claims |-> offer.claims, numbers |-> offer.numbers,
                    series |-> parent, generation |-> generation,
                    stamp |-> begun + 1, clean |-> TRUE]
<1>2. Holds(f, held)
  BY <1>0
<1>3. /\ held.pc = "prepared" /\ held.item = item /\ held.generation = generation
      /\ held.stamp = begun + 1
      /\ DOMAIN held = {"pc", "purpose", "item", "claims", "numbers", "series",
                        "generation", "stamp", "clean"}
  OBVIOUS
<1> HIDE DEF held
<1>4. /\ item \in Items /\ begun + 1 \in 1 .. begun + 1
      /\ generation \in 1 .. MaxGenerations
  BY DEF IdentityInv, IdentityTables
<1>5. FiberHolds(held, begun + 1, DOMAIN sources)
  BY <1>3, <1>4 DEF FiberHolds, BeginHolds, AfterMatch, AfterExisting, AfterRows, AfterChoice
<1>6. /\ UNCHANGED <<upstreamWorld, generation, tables>>
      /\ given' = given /\ begun' = begun + 1
  BY DEF BeginResolution
<1> QED
  BY <1>2, <1>5, <1>6, FiberMoves

LEMMA RefuseKeeps ==
    ASSUME IdentityInv, NEW f \in Resolvers, Refuse(f)
    PROVE  IdentityInv'
<1>1. Holds(f, NoResolution) /\ begun' = begun /\ given' = given
  BY DEF Refuse, LeaveResolver
<1>2. UNCHANGED <<upstreamWorld, generation, tables>>
  BY DEF Refuse
<1> QED
  BY <1>1, <1>2, IdleHolds, FiberMoves

LEMMA ReadParentKeeps ==
    ASSUME IdentityInv, NEW f \in Resolvers, D1ReadParent(f)
    PROVE  IdentityInv'
<1> DEFINE r == resolver[f]
           new == [match |-> Matching(r, ParentOf(r)), pc |-> "existing"]
           s == Over(new, r)
<1>1. /\ Holds(f, s) /\ r.pc = "prepared" /\ begun' = begun /\ given' = given
      /\ UNCHANGED <<upstreamWorld, generation, tables>>
  BY DEF D1ReadParent, D1Step, ResolverAt
<1>2. FiberHolds(r, begun, DOMAIN sources)
  BY DEF IdentityInv
<1>3. Adds(r, new, s)
  BY OverAdds
<1>4. DOMAIN new = {"match", "pc"} /\ new.match = Matching(r, ParentOf(r)) /\ new.pc = "existing"
  OBVIOUS
<1> HIDE DEF r, new, s
<1>5. BeginHolds(r, begun)
  BY <1>1, <1>2 DEF FiberHolds
<1>6. BeginHolds(s, begun) /\ s.item = r.item
  BY <1>3, <1>4, <1>5, BeginLasts
<1>7. MatchHolds(s.match, s.item) /\ s.pc = "existing" /\ {"match", "pc"} \subseteq DOMAIN s
  <2>1. MatchHolds(Matching(r, ParentOf(r)), r.item)
    BY <1>5, MatchingHolds DEF BeginHolds
  <2> QED
    BY <1>3, <1>4, <1>6, <2>1 DEF Adds
<1>8. FiberHolds(s, begun, DOMAIN sources)
  BY <1>6, <1>7 DEF FiberHolds, AfterMatch, AfterExisting, AfterRows, AfterChoice
<1> QED
  BY <1>1, <1>8, FiberMoves

LEMMA ReadExistingKeeps ==
    ASSUME IdentityInv, NEW f \in Resolvers, D1ReadExisting(f)
    PROVE  IdentityInv'
<1> DEFINE r == resolver[f]
           new == [existing |-> ExistingOf(r.item), ids |-> {ExistingOf(r.item)},
                   pc |-> "matched"]
           s == Over(new, r)
<1>1. /\ Holds(f, s) /\ r.pc = "existing" /\ begun' = begun /\ given' = given
      /\ UNCHANGED <<upstreamWorld, generation, tables>>
  BY DEF D1ReadExisting, D1Step, ResolverAt
<1>2. FiberHolds(r, begun, DOMAIN sources)
  BY DEF IdentityInv
<1>3. Adds(r, new, s)
  BY OverAdds
<1>4. /\ DOMAIN new = {"existing", "ids", "pc"}
      /\ new.existing = ExistingOf(r.item) /\ new.pc = "matched"
  OBVIOUS
<1> HIDE DEF r, new, s
<1>5. BeginHolds(r, begun) /\ "match" \in DOMAIN r /\ MatchHolds(r.match, r.item)
  BY <1>1, <1>2 DEF FiberHolds, AfterMatch
<1>6. BeginHolds(s, begun) /\ s.item = r.item
  BY <1>3, <1>4, <1>5, BeginLasts
<1>7. /\ MatchHolds(s.match, s.item) /\ s.pc = "matched"
      /\ {"match", "existing", "ids", "pc"} \subseteq DOMAIN s
      /\ s.existing = ExistingOf(r.item)
  BY <1>3, <1>4, <1>5, <1>6 DEF Adds
<1>8. ExistingHolds(s.existing, s.item)
  BY <1>6, <1>7 DEF ExistingHolds, ExistingOf, IdentityInv, IdentityTables, SourceHolds
<1>9. FiberHolds(s, begun, DOMAIN sources)
  BY <1>6, <1>7, <1>8 DEF FiberHolds, AfterMatch, AfterExisting, AfterRows, AfterChoice
<1> QED
  BY <1>1, <1>9, FiberMoves

LEMMA ReadMatchedKeeps ==
    ASSUME IdentityInv, NEW f \in Resolvers, D1ReadMatched(f)
    PROVE  IdentityInv'
<1> DEFINE r == resolver[f]
           new == [ids |-> r.ids \cup {Lookup(r.match.proposed)}
                               \cup Matched(TypeOf[r.item], r.match.claims),
                   pc |-> "rows"]
           s == Over(new, r)
<1>1. /\ Holds(f, s) /\ r.pc = "matched" /\ begun' = begun /\ given' = given
      /\ UNCHANGED <<upstreamWorld, generation, tables>>
  BY DEF D1ReadMatched, D1Step, ResolverAt
<1>2. FiberHolds(r, begun, DOMAIN sources)
  BY DEF IdentityInv
<1>3. Adds(r, new, s)
  BY OverAdds
<1>4. DOMAIN new = {"ids", "pc"} /\ new.pc = "rows"
  OBVIOUS
<1> HIDE DEF r, new, s
<1>5. /\ BeginHolds(r, begun) /\ "match" \in DOMAIN r /\ MatchHolds(r.match, r.item)
      /\ {"existing", "ids"} \subseteq DOMAIN r /\ ExistingHolds(r.existing, r.item)
  BY <1>1, <1>2 DEF FiberHolds, AfterMatch, AfterExisting
<1>6. BeginHolds(s, begun) /\ s.item = r.item
  BY <1>3, <1>4, <1>5, BeginLasts
<1>7. /\ MatchHolds(s.match, s.item) /\ ExistingHolds(s.existing, s.item) /\ s.pc = "rows"
      /\ {"match", "existing", "ids", "pc"} \subseteq DOMAIN s
  BY <1>3, <1>4, <1>5, <1>6 DEF Adds
<1>8. FiberHolds(s, begun, DOMAIN sources)
  BY <1>6, <1>7 DEF FiberHolds, AfterMatch, AfterExisting, AfterRows, AfterChoice
<1> QED
  BY <1>1, <1>8, FiberMoves

\* The live canonicals of a type are rows of it.
LEMMA RowsOfHold ==
    ASSUME IdentityTables, NEW item, NEW ids
    PROVE  /\ RowsHold(RowsOf(TypeOf[item], ids), item, begun)
           /\ DOMAIN RowsOf(TypeOf[item], ids) =
                 {id \in ids \cap Live : canonicals[id].type = TypeOf[item]}
<1>1. /\ DOMAIN RowsOf(TypeOf[item], ids) =
            {id \in ids \cap Live : canonicals[id].type = TypeOf[item]}
      /\ \A id \in DOMAIN RowsOf(TypeOf[item], ids) :
            RowsOf(TypeOf[item], ids)[id] = canonicals[id]
  BY DEF RowsOf, Restrict
<1>2. \A id \in Live : OfType(id, canonicals[id].type) /\ RowHolds(canonicals[id], begun)
  BY DEF IdentityTables
<1> QED
  BY <1>1, <1>2 DEF RowsHold

LEMMA ReadRowsKeeps ==
    ASSUME IdentityInv, NEW f \in Resolvers, D1ReadRows(f)
    PROVE  IdentityInv'
<1> DEFINE r == resolver[f]
           new == [rows |-> RowsOf(TypeOf[r.item], r.ids), pc |-> "claims"]
           s == Over(new, r)
<1>1. /\ Holds(f, s) /\ r.pc = "rows" /\ begun' = begun /\ given' = given
      /\ UNCHANGED <<upstreamWorld, generation, tables>>
  BY DEF D1ReadRows, D1Step, ResolverAt
<1>2. FiberHolds(r, begun, DOMAIN sources)
  BY DEF IdentityInv
<1>3. Adds(r, new, s)
  BY OverAdds
<1>4. /\ DOMAIN new = {"rows", "pc"} /\ new.pc = "claims"
      /\ new.rows = RowsOf(TypeOf[r.item], r.ids)
  OBVIOUS
<1> HIDE DEF r, new, s
<1>5. /\ BeginHolds(r, begun) /\ "match" \in DOMAIN r /\ MatchHolds(r.match, r.item)
      /\ {"existing", "ids"} \subseteq DOMAIN r /\ ExistingHolds(r.existing, r.item)
  BY <1>1, <1>2 DEF FiberHolds, AfterMatch, AfterExisting
<1>6. BeginHolds(s, begun) /\ s.item = r.item
  BY <1>3, <1>4, <1>5, BeginLasts
<1>7. /\ MatchHolds(s.match, s.item) /\ ExistingHolds(s.existing, s.item) /\ s.pc = "claims"
      /\ {"match", "existing", "ids", "rows", "pc"} \subseteq DOMAIN s
      /\ s.rows = RowsOf(TypeOf[s.item], r.ids)
  BY <1>3, <1>4, <1>5, <1>6 DEF Adds
<1>8. RowsHold(s.rows, s.item, begun)
  <2>1. RowsHold(RowsOf(TypeOf[s.item], r.ids), s.item, begun)
    BY RowsOfHold, Zenon DEF IdentityInv
  <2> QED
    BY <1>7, <2>1
<1>9. FiberHolds(s, begun, DOMAIN sources)
  BY <1>6, <1>7, <1>8 DEF FiberHolds, AfterMatch, AfterExisting, AfterRows, AfterChoice
<1> QED
  BY <1>1, <1>9, FiberMoves

LEMMA ReadClaimsKeeps ==
    ASSUME IdentityInv, NEW f \in Resolvers, D1ReadClaims(f)
    PROVE  IdentityInv'
<1> DEFINE r == resolver[f]
           rows == [id \in DOMAIN r.rows |->
                       [r.rows[id] EXCEPT !.claims = IF id \in Live THEN canonicals[id].claims
                                                     ELSE NoClaims]]
           pc == IF IsLookedUp(r.match, rows) THEN "target" ELSE "batch"
           new == [rows |-> rows, survivor |-> Chosen(r.item, r.match, r.existing, rows),
                   pc |-> pc]
           s == Over(new, r)
<1>1. /\ Holds(f, s) /\ r.pc = "claims" /\ begun' = begun /\ given' = given
      /\ UNCHANGED <<upstreamWorld, generation, tables>>
  BY DEF D1ReadClaims, D1Step, ResolverAt
<1>2. FiberHolds(r, begun, DOMAIN sources)
  BY DEF IdentityInv
<1>3. Adds(r, new, s)
  BY OverAdds
<1>4. /\ DOMAIN new = {"rows", "survivor", "pc"} /\ new.pc = pc /\ pc \in {"target", "batch"}
      /\ new.rows = rows /\ new.survivor = Chosen(r.item, r.match, r.existing, rows)
  OBVIOUS
<1>5. /\ DOMAIN rows = DOMAIN r.rows
      /\ \A id \in DOMAIN rows :
            rows[id] = [r.rows[id] EXCEPT !.claims = IF id \in Live THEN canonicals[id].claims
                                                     ELSE NoClaims]
  OBVIOUS
<1> HIDE DEF r, new, s, rows, pc
<1>6. /\ BeginHolds(r, begun) /\ "match" \in DOMAIN r /\ MatchHolds(r.match, r.item)
      /\ {"existing", "ids"} \subseteq DOMAIN r /\ ExistingHolds(r.existing, r.item)
      /\ RowsHold(r.rows, r.item, begun)
  BY <1>1, <1>2 DEF FiberHolds, AfterMatch, AfterExisting, AfterRows
<1>7. BeginHolds(s, begun) /\ s.item = r.item
  BY <1>3, <1>4, <1>6, BeginLasts
<1>8. RowsHold(rows, r.item, begun)
  <2> SUFFICES ASSUME NEW id \in DOMAIN rows
               PROVE  OfType(id, TypeOf[r.item]) /\ RowHolds(rows[id], begun)
    BY DEF RowsHold
  <2>1. OfType(id, TypeOf[r.item]) /\ RowHolds(r.rows[id], begun)
    BY <1>5, <1>6 DEF RowsHold
  <2> DEFINE claims == IF id \in Live THEN canonicals[id].claims ELSE NoClaims
  <2>2. ExactClaims(claims)
    <3>1. CASE id \in Live
      <4>1. \A ns \in DOMAIN canonicals[id].claims : canonicals[id].claims[ns].exact \in BOOLEAN
        BY <3>1, Zenon DEF IdentityInv, IdentityTables, RowHolds
      <4> QED
        BY <3>1, <4>1, Zenon DEF ExactClaims
    <3>2. CASE id \notin Live
      <4>1. claims = <<>> /\ DOMAIN <<>> = {}
        BY <3>2 DEF NoClaims
      <4> HIDE DEF claims
      <4> QED
        BY <4>1 DEF ExactClaims
    <3> QED
      BY <3>1, <3>2
  <2>3. rows[id] = [r.rows[id] EXCEPT !.claims = claims]
    BY <1>5
  <2> HIDE DEF claims
  <2>4. /\ DOMAIN rows[id] = DOMAIN r.rows[id] /\ rows[id].claims = claims
        /\ rows[id].state = r.rows[id].state /\ rows[id].created = r.rows[id].created
    BY <2>1, <2>3 DEF RowHolds
  <2> QED
    BY <2>1, <2>2, <2>4 DEF RowHolds, ExactClaims
<1>9. OfType(new.survivor, TypeOf[r.item])
  BY <1>4, <1>6, <1>8, ChosenIsOfType DEF BeginHolds, IdentityInv, IdentityTables
<1>10. /\ MatchHolds(s.match, s.item) /\ ExistingHolds(s.existing, s.item) /\ s.pc = pc
       /\ {"match", "existing", "ids", "rows", "survivor", "pc"} \subseteq DOMAIN s
       /\ s.rows = rows /\ s.survivor = new.survivor
  BY <1>3, <1>4, <1>6, <1>7 DEF Adds
<1>11. FiberHolds(s, begun, DOMAIN sources)
  BY <1>4, <1>7, <1>8, <1>9, <1>10 DEF FiberHolds, AfterMatch, AfterExisting, AfterRows, AfterChoice
<1> QED
  BY <1>1, <1>11, FiberMoves

LEMMA ReadTargetKeeps ==
    ASSUME IdentityInv, NEW f \in Resolvers, D1ReadTarget(f)
    PROVE  IdentityInv'
<1> DEFINE r == resolver[f]
           s == [r EXCEPT !.survivor = LookedUp(r.survivor), !.pc = "batch"]
<1>1. /\ Holds(f, s) /\ r.pc = "target" /\ begun' = begun /\ given' = given
      /\ UNCHANGED <<upstreamWorld, generation, tables>>
  BY DEF D1ReadTarget, D1Step, ResolverAt
<1>2. FiberHolds(r, begun, DOMAIN sources)
  BY DEF IdentityInv
<1> HIDE DEF r
<1>3. /\ BeginHolds(r, begun) /\ "match" \in DOMAIN r /\ MatchHolds(r.match, r.item)
      /\ {"existing", "ids"} \subseteq DOMAIN r /\ ExistingHolds(r.existing, r.item)
      /\ "rows" \in DOMAIN r /\ RowsHold(r.rows, r.item, begun)
      /\ {"pc", "survivor"} \subseteq DOMAIN r /\ OfType(r.survivor, TypeOf[r.item])
  BY <1>1, <1>2 DEF FiberHolds, AfterMatch, AfterExisting, AfterRows, AfterChoice
<1>4. /\ DOMAIN s = DOMAIN r /\ s.pc = "batch" /\ s.survivor = LookedUp(r.survivor)
      /\ \A k \in DOMAIN r \ {"pc", "survivor"} : s[k] = r[k]
  BY <1>3
<1> HIDE DEF s
<1>5. BeginHolds(s, begun) /\ s.item = r.item
  BY <1>3, <1>4 DEF BeginHolds
<1>6. s.match = r.match /\ s.existing = r.existing /\ s.rows = r.rows
  BY <1>3, <1>4
<1>7. OfType(s.survivor, TypeOf[r.item])
  BY <1>3, <1>4, LookedUpIsOfType DEF IdentityInv
<1>8. FiberHolds(s, begun, DOMAIN sources)
  BY <1>3, <1>4, <1>5, <1>6, <1>7 DEF FiberHolds, AfterMatch, AfterExisting, AfterRows, AfterChoice
<1> QED
  BY <1>1, <1>8, FiberMoves

\* What a fiber holds at its batch.
LEMMA HeldAtBatch ==
    ASSUME IdentityInv, NEW f \in Resolvers, resolver[f].pc \in {"batch", "reread"}
    PROVE  /\ HeldInHand(resolver[f])
           /\ OfType(resolver[f].survivor, TypeOf[resolver[f].item])
<1> DEFINE r == resolver[f]
<1>1. FiberHolds(r, begun, DOMAIN sources)
  BY DEF IdentityInv
<1> HIDE DEF r
<1>2. r.pc \in {"batch", "reread"} =>
        HeldInHand(r) /\ OfType(r.survivor, TypeOf[r.item])
  BY <1>1 DEF FiberHolds, HeldInHand, BeginHolds, AfterMatch, AfterExisting, AfterRows, AfterChoice
<1> QED
  BY <1>2 DEF r

LEMMA BatchKeeps ==
    ASSUME IdentityInv, NEW f \in Resolvers, D1Batch(f)
    PROVE  IdentityInv'
<1> DEFINE r == resolver[f]
           s == [r EXCEPT !.pc = "reread"]
<1>1. /\ r.pc = "batch" /\ Write(r, r.survivor) /\ resolver' = Overtaken(f, s)
      /\ UNCHANGED <<upstreamWorld, generation, begun>> /\ given' = given
  BY DEF D1Batch, ResolverAt
<1>2. FiberHolds(r, begun, DOMAIN sources)
  BY DEF IdentityInv
<1>3. HeldInHand(r) /\ OfType(r.survivor, TypeOf[r.item])
  BY <1>1, HeldAtBatch
<1> HIDE DEF r
<1>4. IdentityTables
  BY DEF IdentityInv
<1>5. Wrote(r, r.survivor)
  BY <1>1, <1>3, <1>4, WriteWrites
<1>6. IdentityTables'
  BY <1>1, <1>3, <1>4, <1>5, WroteKeepsTables
<1>7. DOMAIN sources' = {r.item} \cup DOMAIN sources
  BY <1>5 DEF Wrote
<1>8. /\ BeginHolds(r, begun) /\ "match" \in DOMAIN r /\ MatchHolds(r.match, r.item)
      /\ {"existing", "ids"} \subseteq DOMAIN r /\ ExistingHolds(r.existing, r.item)
      /\ "rows" \in DOMAIN r /\ RowsHold(r.rows, r.item, begun)
      /\ {"pc", "survivor"} \subseteq DOMAIN r /\ OfType(r.survivor, TypeOf[r.item])
  BY <1>1, <1>2 DEF FiberHolds, AfterMatch, AfterExisting, AfterRows, AfterChoice
<1>9. /\ DOMAIN s = DOMAIN r /\ s.pc = "reread"
      /\ \A k \in DOMAIN r \ {"pc"} : s[k] = r[k]
  BY <1>8
<1> HIDE DEF s
<1>10. BeginHolds(s, begun) /\ s.item = r.item
  BY <1>8, <1>9 DEF BeginHolds
<1>11. s.match = r.match /\ s.existing = r.existing /\ s.rows = r.rows /\ s.survivor = r.survivor
  BY <1>8, <1>9
<1>12. FiberHolds(s, begun, DOMAIN sources')
  BY <1>7, <1>8, <1>9, <1>10, <1>11 DEF FiberHolds, AfterMatch, AfterExisting, AfterRows, AfterChoice
<1> QED
  BY <1>1, <1>6, <1>7, <1>12, FibersOvertaken DEF IdentityInv

LEMMA RereadKeeps ==
    ASSUME IdentityInv, NEW f \in Resolvers, D1Reread(f)
    PROVE  IdentityInv'
<1> DEFINE r == resolver[f]
<1>1. /\ r.pc = "reread" /\ begun' = begun
      /\ UNCHANGED <<upstreamWorld, generation, tables>>
  BY DEF D1Reread, ResolverAt
<1>2. FiberHolds(r, begun, DOMAIN sources)
  BY DEF IdentityInv
<1>3. r.item \in Items /\ r.item \in DOMAIN sources
  BY <1>1, <1>2 DEF FiberHolds, BeginHolds, AfterMatch, AfterExisting, AfterRows, AfterChoice
<1>4. /\ canonicals' = canonicals /\ aliases' = aliases /\ sources' = sources
      /\ database' = database /\ shelf' = shelf /\ generation' = generation /\ Live' = Live
  BY <1>1 DEF tables, upstreamWorld, Live
<1>5. CASE r.survivor \in Live
  <2>1. Holds(f, Returned(r, Resolution(r, r.survivor))) /\ given' = given \cup {r.survivor}
    BY <1>5 DEF D1Reread
  <2>2. IdentityTables'
    BY <1>1, <1>4, <1>5, <2>1 DEF IdentityInv, IdentityTables
  <2> HIDE DEF r
  <2>3. FiberHolds(Returned(r, Resolution(r, r.survivor)), begun', DOMAIN sources')
    BY <1>3, <1>4, <1>5, <2>2, ReturnedHolds
  <2>4. /\ DOMAIN resolver' = Resolvers
        /\ \A g \in Resolvers : resolver'[g] = IF g = f THEN Returned(r, Resolution(r, r.survivor))
                                               ELSE resolver[g]
    BY <2>1 DEF Holds, IdentityInv
  <2>5. \A g \in Resolvers : FiberHolds(resolver'[g], begun', DOMAIN sources')
    BY <1>1, <1>4, <2>3, <2>4 DEF IdentityInv
  <2> QED
    BY <2>2, <2>4, <2>5 DEF IdentityInv
<1>6. CASE r.survivor \notin Live
  <2>1. Holds(f, NoResolution) /\ given' = given
    BY <1>6 DEF D1Reread, LeaveResolver
  <2> QED
    BY <1>1, <2>1, IdleHolds, FiberMoves
<1> QED
  BY <1>5, <1>6

\* The values that SqliteResolve works with.
LEMMA SqliteResolves ==
    ASSUME NEW f, SqliteResolve(f)
    PROVE  \E match, existing, rows, survivor, held :
             LET r == resolver[f]
                 chosen == Chosen(r.item, match, existing, rows)
             IN  /\ match = Matching(r, ParentOf(r))
                 /\ existing = ExistingOf(r.item)
                 /\ rows = RowsOf(TypeOf[r.item], {existing, Lookup(match.proposed)}
                                                     \cup Matched(TypeOf[r.item], match.claims))
                 /\ survivor = IF IsLookedUp(match, rows) THEN LookedUp(chosen) ELSE chosen
                 /\ held = Over([match |-> match, existing |-> existing, rows |-> rows], r)
                 /\ Write(held, survivor)
                 /\ resolver' = Overtaken(f, Returned(r, Resolution(r, survivor)))
                 /\ given' = given \cup {survivor}
<1> DEFINE r == resolver[f]
           match == Matching(r, ParentOf(r))
           existing == ExistingOf(r.item)
           rows == RowsOf(TypeOf[r.item], {existing, Lookup(match.proposed)}
                                            \cup Matched(TypeOf[r.item], match.claims))
           chosen == Chosen(r.item, match, existing, rows)
           survivor == IF IsLookedUp(match, rows) THEN LookedUp(chosen) ELSE chosen
           held == Over([match |-> match, existing |-> existing, rows |-> rows], r)
<1>1. /\ Write(held, survivor)
      /\ resolver' = Overtaken(f, Returned(r, Resolution(r, survivor)))
      /\ given' = given \cup {survivor}
  BY Zenon DEF SqliteResolve
<1> QED
  BY <1>1, Zenon

LEMMA SqliteHolds ==
    ASSUME IdentityInv, NEW f \in Resolvers, resolver[f].pc = "prepared",
           NEW match, match = Matching(resolver[f], ParentOf(resolver[f])),
           NEW existing, existing = ExistingOf(resolver[f].item),
           NEW ids, NEW rows, rows = RowsOf(TypeOf[resolver[f].item], ids),
           NEW held,
           held = Over([match |-> match, existing |-> existing, rows |-> rows], resolver[f])
    PROVE  /\ HeldInHand(held)
           /\ held.item = resolver[f].item /\ held.match = match /\ held.rows = rows
           /\ held.existing = existing
           /\ OfType(Chosen(held.item, match, existing, rows), TypeOf[held.item])
<1> DEFINE r == resolver[f]
           new == [match |-> match, existing |-> existing, rows |-> rows]
<1>1. BeginHolds(r, begun)
  BY DEF IdentityInv, FiberHolds
<1>2. Adds(r, new, held)
  BY OverAdds
<1>3. /\ DOMAIN new = {"match", "existing", "rows"}
      /\ new.match = match /\ new.existing = existing /\ new.rows = rows
  OBVIOUS
<1>4. IdentityTables /\ begun \in Nat
  BY DEF IdentityInv, IdentityTables
<1>5. MatchHolds(match, r.item)
  BY <1>1, MatchingHolds DEF BeginHolds
<1>6. ExistingHolds(existing, r.item)
  BY <1>4 DEF ExistingHolds, ExistingOf, IdentityTables, SourceHolds
<1>7. RowsHold(rows, r.item, begun)
  <2>1. RowsHold(RowsOf(TypeOf[r.item], ids), r.item, begun)
    BY <1>4, RowsOfHold, Zenon
  <2> QED
    BY <2>1
<1>8. r.item \in Items
  BY <1>1 DEF BeginHolds
<1>9. OfType(Chosen(r.item, match, existing, rows), TypeOf[r.item])
  BY <1>4, <1>5, <1>6, <1>7, <1>8, ChosenIsOfType
<1> HIDE DEF r, new
<1>10. BeginHolds(held, begun) /\ held.item = r.item
  BY <1>1, <1>2, <1>3, BeginLasts
<1>11. held.match = match /\ held.existing = existing /\ held.rows = rows
  BY <1>2, <1>3 DEF Adds
<1>12. HeldInHand(held)
  BY <1>5, <1>6, <1>7, <1>10, <1>11 DEF HeldInHand, BeginHolds
<1> QED
  BY <1>9, <1>10, <1>11, <1>12 DEF r

LEMMA SqliteKeeps ==
    ASSUME IdentityInv, NEW f \in Resolvers, SqliteResolve(f)
    PROVE  IdentityInv'
<1> DEFINE r == resolver[f]
<1>1. /\ r.pc = "prepared" /\ UNCHANGED <<upstreamWorld, generation, begun>>
  BY DEF SqliteResolve, ResolverAt
<1>2. PICK match, existing, rows, survivor, held :
         /\ match = Matching(r, ParentOf(r))
         /\ existing = ExistingOf(r.item)
         /\ rows = RowsOf(TypeOf[r.item], {existing, Lookup(match.proposed)}
                                             \cup Matched(TypeOf[r.item], match.claims))
         /\ survivor = IF IsLookedUp(match, rows)
                       THEN LookedUp(Chosen(r.item, match, existing, rows))
                       ELSE Chosen(r.item, match, existing, rows)
         /\ held = Over([match |-> match, existing |-> existing, rows |-> rows], r)
         /\ Write(held, survivor)
         /\ resolver' = Overtaken(f, Returned(r, Resolution(r, survivor)))
         /\ given' = given \cup {survivor}
  BY SqliteResolves
<1>3. /\ HeldInHand(held)
      /\ held.item = r.item
      /\ OfType(Chosen(held.item, match, existing, rows), TypeOf[held.item])
  BY <1>1, <1>2, SqliteHolds
<1>4. IdentityTables
  BY DEF IdentityInv
<1>5. OfType(survivor, TypeOf[held.item])
  <2>1. OfType(LookedUp(Chosen(held.item, match, existing, rows)), TypeOf[held.item])
    BY <1>3, <1>4, LookedUpIsOfType
  <2> QED
    BY <1>2, <1>3, <2>1
<1>6. Wrote(held, survivor)
  BY <1>2, <1>3, <1>4, <1>5, WriteWrites
<1>7. IdentityTables'
  BY <1>1, <1>2, <1>3, <1>4, <1>5, <1>6, WroteKeepsTables
<1>8. DOMAIN sources' = {r.item} \cup DOMAIN sources /\ survivor \in Live'
  BY <1>3, <1>6 DEF Wrote
<1>9. r.item \in Items
  BY <1>3 DEF HeldInHand
<1> HIDE DEF r
<1>10. FiberHolds(Returned(r, Resolution(r, survivor)), begun', DOMAIN sources')
  BY <1>7, <1>8, <1>9, ReturnedHolds
<1>11. begun' = begun
  BY <1>1
<1> QED
  BY <1>2, <1>7, <1>8, <1>10, <1>11, FibersOvertaken DEF IdentityInv

\* The second write of a cover, however late it is: the id and its aliases are
\* there again, and the item leads to a live canonical.
LEMMA PersistKeeps ==
    ASSUME IdentityInv, NEW f \in Resolvers, Persist(f)
    PROVE  IdentityInv'
<1> DEFINE result == resolver[f].result
           item == resolver[f].item
           id == result.canonical
           row == IF id \in Live
                  THEN [canonicals[id] EXCEPT !.state = result.row.state,
                                              !.claims = Over(result.row.claims, canonicals[id].claims)]
                  ELSE result.row
<1>1. /\ result.source.canonical \in Live \cup {id}
      /\ canonicals' = With(canonicals, id, row)
      /\ aliases' = Over([a \in result.aliases |-> id], aliases)
      /\ sources' = With(sources, item, result.source)
      /\ resolver' = Overtaken(f, NoResolution)
      /\ UNCHANGED <<upstreamWorld, generation, begun, given>>
      /\ resolver[f].pc = "resolved"
  BY DEF Persist, ResolverAt
<1>2. ResultHolds(result, item, begun)
  BY <1>1 DEF IdentityInv, FiberHolds
<1>3. IdentityTables
  BY DEF IdentityInv
<1>4. OfType(id, row.type) /\ RowHolds(row, begun)
  <2>1. CASE id \in Live
    <3>1. OfType(id, canonicals[id].type) /\ RowHolds(canonicals[id], begun)
      BY <1>3, <2>1 DEF IdentityTables
    <3>2. ExactClaims(Over(result.row.claims, canonicals[id].claims))
      <4>1. ExactClaims(result.row.claims)
        BY <1>2, Zenon DEF ResultHolds, RowHolds, ExactClaims
      <4>2. ExactClaims(canonicals[id].claims)
        BY <3>1, Zenon DEF RowHolds, ExactClaims
      <4> QED
        BY <4>1, <4>2, OverClaims
    <3>3. /\ DOMAIN row = DOMAIN canonicals[id]
          /\ row.state = result.row.state
          /\ row.claims = Over(result.row.claims, canonicals[id].claims)
          /\ row.type = canonicals[id].type /\ row.created = canonicals[id].created
      BY <2>1, <3>1 DEF RowHolds
    <3>4. result.row.state \in DOMAIN Rank
      BY <1>2 DEF ResultHolds, RowHolds
    <3> HIDE DEF row, result
    <3> QED
      BY <3>1, <3>2, <3>3, <3>4 DEF RowHolds, ExactClaims
  <2>2. CASE id \notin Live
    BY <1>2, <2>2 DEF ResultHolds
  <2> QED
    BY <2>1, <2>2
<1>5. /\ SourceHolds(result.source, item)
      /\ \A a \in result.aliases : IdType(a) = IdType(id)
  BY <1>2 DEF ResultHolds
<1> HIDE DEF row, id, result, item
<1>6. /\ DOMAIN canonicals' = {id} \cup Live /\ canonicals'[id] = row
      /\ \A k \in Live \ {id} : canonicals'[k] = canonicals[k]
      /\ Live' = {id} \cup Live
  BY <1>1 DEF With, Live
<1>7. /\ DOMAIN aliases' = result.aliases \cup DOMAIN aliases
      /\ \A a \in DOMAIN aliases' : aliases'[a] = IF a \in result.aliases THEN id ELSE aliases[a]
  BY <1>1 DEF Over
<1>8. /\ DOMAIN sources' = {item} \cup DOMAIN sources /\ sources'[item] = result.source
      /\ \A i \in DOMAIN sources \ {item} : sources'[i] = sources[i]
  BY <1>1 DEF With
<1>9. /\ shelf' = shelf /\ database' = database /\ generation' = generation
      /\ begun' = begun /\ given' = given
  BY <1>1 DEF upstreamWorld
<1>10. \A k \in Live' : OfType(k, canonicals'[k].type) /\ RowHolds(canonicals'[k], begun')
  BY <1>3, <1>4, <1>6, <1>9 DEF IdentityTables
<1>11. \A a \in DOMAIN aliases' : aliases'[a] \in Live' /\ IdType(aliases'[a]) = IdType(a)
  BY <1>3, <1>5, <1>6, <1>7 DEF IdentityTables
<1>12. \A i \in DOMAIN sources' : SourceHolds(sources'[i], i) /\ sources'[i].canonical \in Live'
  BY <1>1, <1>3, <1>5, <1>6, <1>8 DEF IdentityTables
<1>13. IdentityTables'
  BY <1>3, <1>6, <1>7, <1>9, <1>10, <1>11, <1>12 DEF IdentityTables
<1>14. FiberHolds(NoResolution, begun, DOMAIN sources')
  BY IdleHolds
<1> QED
  BY <1>1, <1>8, <1>9, <1>13, <1>14, FibersOvertaken DEF IdentityInv

LEMMA EditKeeps ==
    ASSUME IdentityInv, EditServer
    PROVE  IdentityInv'
<1>1. /\ canonicals' = canonicals /\ aliases' = aliases /\ sources' = sources
      /\ database' = database /\ shelf' = shelf /\ Live' = Live
      /\ resolver' = resolver /\ begun' = begun /\ given' = given
  BY DEF EditServer, tables, upstreamWorld, Live
<1>2. generation' \in 1 .. MaxGenerations
  BY ResolutionsAssumption DEF EditServer, IdentityInv, IdentityTables
<1>3. IdentityTables'
  BY <1>1, <1>2 DEF IdentityInv, IdentityTables
<1> QED
  BY <1>1, <1>3 DEF IdentityInv

LEMMA InitIdentityInv == IdentityInit => IdentityInv
<1> SUFFICES ASSUME IdentityInit PROVE IdentityInv
  OBVIOUS
<1>1. Live = {} /\ DOMAIN aliases = {} /\ DOMAIN sources = {}
  BY DEF IdentityInit, NoClaims, Live
<1>2. shelf \subseteq Items /\ database \in {"sqlite", "d1"} /\ generation \in 1 .. MaxGenerations
  BY ShelvesAssumption, DatabasesAssumption, ResolutionsAssumption DEF IdentityInit
<1>3. begun \in Nat /\ given = {}
  BY DEF IdentityInit
<1>4. IdentityTables
  BY <1>1, <1>2, <1>3 DEF IdentityTables
<1>5. DOMAIN resolver = Resolvers /\ \A f \in Resolvers : resolver[f] = NoResolution
  BY DEF IdentityInit
<1> QED
  BY <1>4, <1>5, IdleHolds DEF IdentityInv

LEMMA NextIdentityInv == IdentityInv /\ [IdentityNext]_identityVars => IdentityInv'
<1> SUFFICES ASSUME IdentityInv, [IdentityNext]_identityVars PROVE IdentityInv'
  OBVIOUS
<1>1. ASSUME NEW f \in Resolvers,
             \/ SqliteRefuse(f) \/ D1Refuse(f) \/ D1RefuseBatch(f) \/ PersistFails(f)
      PROVE  IdentityInv'
  BY <1>1, RefuseKeeps DEF SqliteRefuse, D1Refuse, D1RefuseBatch, PersistFails
<1>2. ASSUME NEW f \in Resolvers,
             \/ BeginResolution(f) \/ D1ReadParent(f) \/ D1ReadExisting(f) \/ D1ReadMatched(f)
             \/ D1ReadRows(f) \/ D1ReadClaims(f) \/ D1ReadTarget(f)
      PROVE  IdentityInv'
  BY <1>2, BeginKeeps, ReadParentKeeps, ReadExistingKeeps, ReadMatchedKeeps, ReadRowsKeeps,
     ReadClaimsKeeps, ReadTargetKeeps
<1>3. ASSUME NEW f \in Resolvers,
             SqliteResolve(f) \/ D1Batch(f) \/ D1Reread(f) \/ Persist(f)
      PROVE  IdentityInv'
  BY <1>3, SqliteKeeps, BatchKeeps, RereadKeeps, PersistKeeps
<1>4. CASE UNCHANGED identityVars
  <2>1. /\ canonicals' = canonicals /\ aliases' = aliases /\ sources' = sources
        /\ database' = database /\ shelf' = shelf /\ Live' = Live /\ generation' = generation
        /\ resolver' = resolver /\ begun' = begun /\ given' = given
    BY <1>4 DEF identityVars, Live
  <2> QED
    BY <2>1 DEF IdentityInv, IdentityTables
<1> QED
  BY <1>1, <1>2, <1>3, <1>4, EditKeeps DEF IdentityNext

LEMMA InvIsTyped == IdentityInv => IdentityTypeOK /\ GivenIdsLead
<1> SUFFICES ASSUME IdentityInv PROVE IdentityTypeOK /\ GivenIdsLead
  OBVIOUS
<1>1. IdentityTables
  BY DEF IdentityInv
<1>2. \A id \in Live :
         /\ canonicals[id].state \in DOMAIN Rank /\ canonicals[id].created \in 1 .. begun
         /\ \A ns \in DOMAIN canonicals[id].claims : canonicals[id].claims[ns].exact \in BOOLEAN
  BY <1>1, Zenon DEF IdentityTables, RowHolds
<1>3. \A a \in DOMAIN aliases : aliases[a] \in Live
  BY <1>1 DEF IdentityTables
<1>4. \A item \in DOMAIN sources :
         /\ sources[item].canonical \in Live
         /\ canonicals[sources[item].canonical].type = TypeOf[item]
         /\ sources[item].generation \in 1 .. MaxGenerations
  BY <1>1 DEF IdentityTables, SourceHolds, OfType
<1>5. IdentityTypeOK
  BY <1>2, <1>3, <1>4, Zenon DEF IdentityTypeOK
<1>6. \A id \in given : Lookup(id) \in Live
  BY <1>1 DEF IdentityTables, Lookup
<1> QED
  BY <1>5, <1>6 DEF GivenIdsLead

\* Reads of several resolutions interleave with the batches of others, and a
\* cover writes what it resolved again when that may have been merged away
\* (resolveIdentity, resolveIdentityD1, persistIdentityResult): no item and no
\* alias ever leads to a canonical that is gone, or to one of another type.
THEOREM IdentitiesStayTyped == IdentitySpec => []IdentityTypeOK
  BY InitIdentityInv, NextIdentityInv, InvIsTyped, PTL DEF IdentitySpec

\* An id that a client was given leads to a live canonical for ever
\* (lookupCanonicalId after any merges).
THEOREM GivenIdsLeadForEver == IdentitySpec => []GivenIdsLead
  BY InitIdentityInv, NextIdentityInv, InvIsTyped, PTL DEF IdentitySpec

-----------------------------------------------------------------------------
(* Resolutions that nothing overtook                                       *)

\* What survives: the item's canonical when its claims are in conflict, else
\* one of the rows, if there are any.
SurvivorFits(r, survivor) ==
    /\ Incompatible(r.match.claims, r.rows) /\ r.existing # Absent => survivor = r.existing
    /\ ~Incompatible(r.match.claims, r.rows) /\ DOMAIN r.rows # {} => survivor \in DOMAIN r.rows

\* The batch has in hand what the tables still say of the item and its claims.
Current(r, survivor) ==
    /\ HasFallback(r) \/ r.match.claims = r.claims
    /\ Matched(TypeOf[r.item], r.match.claims) \subseteq DOMAIN r.rows
    /\ r.item \in DOMAIN sources =>
          r.existing = sources[r.item].canonical /\ r.existing \in DOMAIN r.rows
    /\ SurvivorFits(r, survivor)

\* A write of what is current gathers the item and splits nothing.
LEMMA CurrentGathers ==
    ASSUME IdentityTables, NEW r, HeldInHand(r), NEW survivor, Wrote(r, survivor),
           Current(r, survivor)
    PROVE  LET claims == IF HasFallback(r) THEN NoClaims ELSE r.claims
           IN  \/ sources'[r.item].reason = "ambiguous-identity"
               \/ \A id \in DOMAIN canonicals', ns \in DOMAIN claims :
                     /\ canonicals'[id].type = TypeOf[r.item]
                     /\ Says(canonicals'[id], ns, claims[ns])
                     => id = sources'[r.item].canonical
<1> DEFINE conflict == Incompatible(r.match.claims, r.rows)
           retired == Retired(conflict, survivor, r.rows)
           claims == IF HasFallback(r) THEN NoClaims ELSE r.claims
<1>1. /\ Live' = {survivor} \cup (Live \ retired)
      /\ \A id \in Live \ (retired \cup {survivor}) : canonicals'[id] = canonicals[id]
      /\ sources'[r.item] =
            [canonical |-> survivor, generation |-> r.generation,
             reason |-> IF conflict THEN "ambiguous-identity" ELSE r.match.reason]
  BY DEF Wrote
<1>2. CASE conflict
  BY <1>1, <1>2
<1>3. CASE ~conflict
  <2>1. retired = DOMAIN r.rows \ {survivor}
    BY <1>3 DEF Retired
  <2>2. sources'[r.item].canonical = survivor /\ DOMAIN canonicals' = Live'
    BY <1>1 DEF Live
  <2> HIDE DEF conflict, retired
  <2>3. ASSUME NEW id \in Live', NEW ns \in DOMAIN claims,
               canonicals'[id].type = TypeOf[r.item],
               Says(canonicals'[id], ns, claims[ns])
        PROVE  id = survivor
    <3>1. SUFFICES ASSUME id # survivor PROVE FALSE
      OBVIOUS
    <3>2. id \in Live /\ id \notin retired /\ canonicals'[id] = canonicals[id]
      BY <1>1, <3>1
    <3>3. ~HasFallback(r) /\ claims = r.match.claims
      <4>1. DOMAIN NoClaims = {}
        BY DEF NoClaims
      <4> QED
        BY <2>3, <4>1 DEF Current
    <3> HIDE DEF claims
    <3>4. id \in Matched(TypeOf[r.item], r.match.claims)
      BY <2>3, <3>2, <3>3 DEF Matched, Says
    <3> QED
      BY <2>1, <3>1, <3>2, <3>4 DEF Current
  <2> QED
    BY <2>2, <2>3
<1> QED
  BY <1>2, <1>3

LEMMA CurrentStays ==
    ASSUME IdentityTables, NEW r, HeldInHand(r), NEW survivor, Wrote(r, survivor),
           Current(r, survivor)
    PROVE  StayTogether
<1> DEFINE conflict == Incompatible(r.match.claims, r.rows)
           retired == Retired(conflict, survivor, r.rows)
<1>1. /\ sources'[r.item] =
            [canonical |-> survivor, generation |-> r.generation,
             reason |-> IF conflict THEN "ambiguous-identity" ELSE r.match.reason]
      /\ \A item \in DOMAIN sources \ {r.item} :
            sources'[item] = IF sources[item].canonical \in retired
                             THEN [sources[item] EXCEPT !.canonical = survivor]
                             ELSE sources[item]
  BY DEF Wrote
<1>2. \A item \in DOMAIN sources :
         "canonical" \in DOMAIN sources[item] /\ sources[item].canonical # Absent
  BY DEF IdentityTables, SourceHolds, OfType
<1>3. r.item \in DOMAIN sources =>
         \/ survivor = sources[r.item].canonical /\ survivor \notin retired
         \/ sources[r.item].canonical \in retired
  <2> SUFFICES ASSUME r.item \in DOMAIN sources
               PROVE  \/ survivor = sources[r.item].canonical /\ survivor \notin retired
                      \/ sources[r.item].canonical \in retired
    OBVIOUS
  <2>1. /\ r.existing = sources[r.item].canonical /\ r.existing \in DOMAIN r.rows
        /\ r.existing # Absent
    BY <1>2 DEF Current
  <2>2. CASE conflict
    BY <2>1, <2>2 DEF Current, SurvivorFits, Retired
  <2>3. CASE ~conflict
    BY <2>1, <2>3 DEF Retired
  <2> QED
    BY <2>2, <2>3
<1> HIDE DEF conflict, retired
<1>4. sources'[r.item].canonical = survivor
  BY <1>1
<1>5. \A item \in DOMAIN sources \ {r.item} :
         sources'[item].canonical = IF sources[item].canonical \in retired
                                    THEN survivor ELSE sources[item].canonical
  BY <1>1, <1>2
<1>6. \A item \in DOMAIN sources :
         sources'[item].canonical = IF sources[item].canonical \in retired
                                    THEN survivor ELSE sources[item].canonical
  BY <1>3, <1>4, <1>5
<1> QED
  BY <1>6 DEF StayTogether

LEMMA ChosenFits ==
    ASSUME NEW r, RowsHold(r.rows, r.item, begun), begun \in Nat
    PROVE  SurvivorFits(r, Chosen(r.item, r.match, r.existing, r.rows))
<1>1. \A id \in DOMAIN r.rows : r.rows[id].created \in Nat
  BY DEF RowsHold, RowHolds
<1>2. DOMAIN r.rows # {} => Oldest(r.rows) \in DOMAIN r.rows
  BY <1>1, OldestIsOneOf
<1> QED
  BY <1>2 DEF SurvivorFits, Chosen

\* The canonical that an item has is live and of its type.
LEMMA ExistingIsLive ==
    ASSUME IdentityTables, NEW item \in DOMAIN sources
    PROVE  /\ ExistingOf(item) = sources[item].canonical
           /\ ExistingOf(item) \in Live /\ ExistingOf(item) # Absent
           /\ canonicals[ExistingOf(item)].type = TypeOf[item]
           /\ LookedUp(ExistingOf(item)) = ExistingOf(item)
<1>1. /\ ExistingOf(item) = sources[item].canonical
      /\ ExistingOf(item) \in Live /\ OfType(ExistingOf(item), TypeOf[item])
  BY DEF ExistingOf, IdentityTables, SourceHolds
<1>2. canonicals[ExistingOf(item)].type = TypeOf[item]
  BY <1>1 DEF IdentityTables, OfType
<1> QED
  BY <1>1, <1>2 DEF LookedUp, Lookup, OfType

LEMMA MatchingClaims ==
    ASSUME NEW c, NEW parent
    PROVE  HasFallback(c) \/ Matching(c, parent).claims = c.claims
  BY DEF Matching

Before == AfterMatch \ {"reread"}

LiveOf(type) == {id \in Live : canonicals[id].type = type}

\* What a resolution has read is what the tables still say, as long as no write
\* came in between.
FreshHolds(r, existing, matched, live) ==
    /\ r.pc \in Before => HasFallback(r) \/ r.match.claims = r.claims
    /\ r.pc = "target" => IsLookedUp(r.match, r.rows)
    /\ r.pc \in Before /\ r.clean =>
          /\ r.pc # "existing" => r.existing = existing
          /\ r.pc = "matched" => r.ids = {existing}
          /\ r.pc \in Before \ {"existing", "matched"} => {existing} \cup matched \subseteq r.ids
          /\ r.pc \in {"claims", "target", "batch"} => r.ids \cap live \subseteq DOMAIN r.rows
          /\ r.pc \in {"target", "batch"} => SurvivorFits(r, r.survivor)

FreshOf(r) ==
    FreshHolds(r, ExistingOf(r.item), Matched(TypeOf[r.item], r.match.claims),
               LiveOf(TypeOf[r.item]))

FreshInv == \A f \in Resolvers : FreshOf(resolver[f])

LEMMA NotBefore ==
    ASSUME NEW r, r.pc \notin Before, NEW existing, NEW matched, NEW live
    PROVE  FreshHolds(r, existing, matched, live)
  BY DEF FreshHolds, Before, AfterMatch

\* Nothing read is stale before a table is written.
LEMMA FreshMoves ==
    ASSUME IdentityInv, FreshInv, NEW f \in Resolvers, NEW held, Holds(f, held),
           UNCHANGED tables, FreshOf(held)
    PROVE  FreshInv'
<1>1. canonicals' = canonicals /\ aliases' = aliases /\ sources' = sources
  BY DEF tables
<1>2. \A g \in Resolvers : resolver'[g] = IF g = f THEN held ELSE resolver[g]
  BY DEF Holds, IdentityInv
<1>3. ASSUME NEW g \in Resolvers PROVE FreshOf(resolver[g])'
  <2> DEFINE r == resolver'[g]
  <2>1. FreshOf(r)
    BY <1>2 DEF FreshInv
  <2>2. /\ ExistingOf(r.item) = ExistingOf(resolver[g].item)'
        /\ Matched(TypeOf[r.item], r.match.claims)
              = Matched(TypeOf[resolver[g].item], resolver[g].match.claims)'
        /\ LiveOf(TypeOf[r.item]) = LiveOf(TypeOf[resolver[g].item])'
    BY <1>1 DEF ExistingOf, Matched, LiveOf, Live
  <2> QED
    BY <2>1, <2>2 DEF FreshOf
<1> QED
  BY <1>3 DEF FreshInv

\* A write that overtakes the others leaves nobody clean.
LEMMA FreshOvertaken ==
    ASSUME IdentityInv, FreshInv, NEW f \in Resolvers, NEW held,
           resolver' = Overtaken(f, held), held.pc \notin Before
    PROVE  FreshInv'
<1>1. \A g \in Resolvers :
         resolver'[g] = IF g = f THEN held
                        ELSE IF "clean" \in DOMAIN resolver[g]
                             THEN [resolver[g] EXCEPT !.clean = FALSE] ELSE resolver[g]
  BY DEF Overtaken
<1>2. ASSUME NEW g \in Resolvers, NEW existing, NEW matched, NEW live
      PROVE  FreshHolds(resolver'[g], existing, matched, live)
  <2> DEFINE r == resolver[g]
             s == resolver'[g]
  <2>1. CASE g = f \/ s.pc \notin Before
    BY <1>1, <2>1, NotBefore
  <2>2. CASE g # f /\ s.pc \in Before
    <3>1. FiberHolds(r, begun, DOMAIN sources)
      BY DEF IdentityInv
    <3>2. r.pc \in Before /\ r.pc = s.pc
      BY <1>1, <2>2, <3>1 DEF FiberHolds
    <3>3. /\ BeginHolds(r, begun) /\ "match" \in DOMAIN r
          /\ r.pc = "target" => "rows" \in DOMAIN r
      BY <3>1, <3>2 DEF FiberHolds, Before, AfterMatch, AfterRows
    <3>4. s = [r EXCEPT !.clean = FALSE]
      BY <1>1, <2>2, <3>3 DEF BeginHolds
    <3>5. /\ HasFallback(r) \/ r.match.claims = r.claims
          /\ r.pc = "target" => IsLookedUp(r.match, r.rows)
      BY <3>2 DEF FreshInv, FreshOf, FreshHolds
    <3> HIDE DEF r, s
    <3>6. /\ s.match = r.match /\ s.claims = r.claims /\ s.item = r.item
          /\ s.series = r.series /\ s.numbers = r.numbers
          /\ r.pc = "target" => s.rows = r.rows
          /\ ~s.clean
      BY <3>3, <3>4 DEF BeginHolds
    <3>7. HasFallback(s) <=> HasFallback(r)
      BY <3>6 DEF HasFallback
    <3>8. FreshHolds(s, existing, matched, live)
      BY <3>2, <3>5, <3>6, <3>7 DEF FreshHolds
    <3> QED
      BY <3>8 DEF s
  <2> QED
    BY <2>1, <2>2
<1> QED
  BY <1>2 DEF FreshInv, FreshOf

LEMMA AddsFallback ==
    ASSUME NEW r, NEW last, BeginHolds(r, last), NEW new, NEW s, Adds(r, new, s),
           DOMAIN new \cap {"item", "series", "numbers", "claims", "clean"} = {}
    PROVE  /\ s.item = r.item /\ s.claims = r.claims
           /\ s.clean = r.clean
           /\ HasFallback(s) <=> HasFallback(r)
<1>1. /\ s.item = r.item /\ s.claims = r.claims /\ s.series = r.series
      /\ s.numbers = r.numbers /\ s.clean = r.clean
  BY DEF BeginHolds, Adds
<1> QED
  BY <1>1 DEF HasFallback

LEMMA FreshBegins ==
    ASSUME IdentityInv, FreshInv, NEW f \in Resolvers, BeginResolution(f)
    PROVE  FreshInv'
<1>1. PICK held : Holds(f, held) /\ held.pc = "prepared"
  BY DEF BeginResolution
<1>2. FreshOf(held)
  BY <1>1, NotBefore DEF FreshOf, Before, AfterMatch
<1>3. UNCHANGED tables
  BY DEF BeginResolution
<1> QED
  BY <1>1, <1>2, <1>3, FreshMoves

LEMMA FreshRefuses ==
    ASSUME IdentityInv, FreshInv, NEW f \in Resolvers, Refuse(f)
    PROVE  FreshInv'
<1>1. Holds(f, NoResolution) /\ UNCHANGED tables
  BY DEF Refuse, LeaveResolver
<1>2. NoResolution.pc \notin Before
  BY DEF NoResolution, Before, AfterMatch
<1>3. FreshOf(NoResolution)
  BY <1>2, NotBefore DEF FreshOf
<1> QED
  BY <1>1, <1>3, FreshMoves

LEMMA FreshReadsParent ==
    ASSUME IdentityInv, FreshInv, NEW f \in Resolvers, D1ReadParent(f)
    PROVE  FreshInv'
<1> DEFINE r == resolver[f]
           new == [match |-> Matching(r, ParentOf(r)), pc |-> "existing"]
           s == Over(new, r)
<1>1. Holds(f, s) /\ r.pc = "prepared" /\ UNCHANGED tables
  BY DEF D1ReadParent, D1Step, ResolverAt
<1>2. BeginHolds(r, begun)
  BY <1>1 DEF IdentityInv, FiberHolds
<1>3. Adds(r, new, s)
  BY OverAdds
<1>4. DOMAIN new = {"match", "pc"} /\ new.match = Matching(r, ParentOf(r)) /\ new.pc = "existing"
  OBVIOUS
<1> HIDE DEF r, new, s
<1>5. s.claims = r.claims /\ (HasFallback(s) <=> HasFallback(r))
  BY <1>2, <1>3, <1>4, AddsFallback
<1>6. s.pc = "existing" /\ s.match = Matching(r, ParentOf(r))
  BY <1>3, <1>4 DEF Adds
<1>7. HasFallback(s) \/ s.match.claims = s.claims
  BY <1>5, <1>6, MatchingClaims
<1>8. FreshOf(s)
  BY <1>6, <1>7 DEF FreshOf, FreshHolds
<1> QED
  BY <1>1, <1>8, FreshMoves

LEMMA FreshReadsExisting ==
    ASSUME IdentityInv, FreshInv, NEW f \in Resolvers, D1ReadExisting(f)
    PROVE  FreshInv'
<1> DEFINE r == resolver[f]
           new == [existing |-> ExistingOf(r.item), ids |-> {ExistingOf(r.item)},
                   pc |-> "matched"]
           s == Over(new, r)
<1>1. Holds(f, s) /\ r.pc = "existing" /\ UNCHANGED tables
  BY DEF D1ReadExisting, D1Step, ResolverAt
<1>2. BeginHolds(r, begun) /\ "match" \in DOMAIN r
  BY <1>1 DEF IdentityInv, FiberHolds, AfterMatch
<1>3. Adds(r, new, s)
  BY OverAdds
<1>4. /\ DOMAIN new = {"existing", "ids", "pc"} /\ new.pc = "matched"
      /\ new.existing = ExistingOf(r.item) /\ new.ids = {ExistingOf(r.item)}
  OBVIOUS
<1>5. HasFallback(r) \/ r.match.claims = r.claims
  BY <1>1 DEF FreshInv, FreshOf, FreshHolds, Before, AfterMatch
<1> HIDE DEF r, new, s
<1>6. s.item = r.item /\ s.claims = r.claims /\ (HasFallback(s) <=> HasFallback(r))
  BY <1>2, <1>3, <1>4, AddsFallback
<1>7. /\ s.pc = "matched" /\ s.match = r.match
      /\ s.existing = ExistingOf(s.item) /\ s.ids = {ExistingOf(s.item)}
  BY <1>2, <1>3, <1>4, <1>6 DEF Adds
<1>8. FreshOf(s)
  BY <1>5, <1>6, <1>7 DEF FreshOf, FreshHolds
<1> QED
  BY <1>1, <1>8, FreshMoves

LEMMA FreshReadsMatched ==
    ASSUME IdentityInv, FreshInv, NEW f \in Resolvers, D1ReadMatched(f)
    PROVE  FreshInv'
<1> DEFINE r == resolver[f]
           ids == r.ids \cup {Lookup(r.match.proposed)}
                        \cup Matched(TypeOf[r.item], r.match.claims)
           new == [ids |-> ids, pc |-> "rows"]
           s == Over(new, r)
<1>1. Holds(f, s) /\ r.pc = "matched" /\ UNCHANGED tables
  BY DEF D1ReadMatched, D1Step, ResolverAt
<1>2. BeginHolds(r, begun) /\ {"match", "existing"} \subseteq DOMAIN r
  BY <1>1 DEF IdentityInv, FiberHolds, AfterMatch, AfterExisting
<1>3. Adds(r, new, s)
  BY OverAdds
<1>4. DOMAIN new = {"ids", "pc"} /\ new.pc = "rows" /\ new.ids = ids
  OBVIOUS
<1>5. /\ HasFallback(r) \/ r.match.claims = r.claims
      /\ r.clean => r.existing = ExistingOf(r.item) /\ r.ids = {ExistingOf(r.item)}
  BY <1>1 DEF FreshInv, FreshOf, FreshHolds, Before, AfterMatch
<1>6. Matched(TypeOf[r.item], r.match.claims) \subseteq ids /\ r.ids \subseteq ids
  OBVIOUS
<1> HIDE DEF r, new, s, ids
<1>7. /\ s.item = r.item /\ s.claims = r.claims /\ s.clean = r.clean
      /\ HasFallback(s) <=> HasFallback(r)
  BY <1>2, <1>3, <1>4, AddsFallback
<1>8. s.pc = "rows" /\ s.match = r.match /\ s.existing = r.existing /\ s.ids = ids
  BY <1>2, <1>3, <1>4 DEF Adds
<1>9. FreshOf(s)
  BY <1>5, <1>6, <1>7, <1>8 DEF FreshOf, FreshHolds
<1> QED
  BY <1>1, <1>9, FreshMoves

LEMMA FreshReadsRows ==
    ASSUME IdentityInv, FreshInv, NEW f \in Resolvers, D1ReadRows(f)
    PROVE  FreshInv'
<1> DEFINE r == resolver[f]
           new == [rows |-> RowsOf(TypeOf[r.item], r.ids), pc |-> "claims"]
           s == Over(new, r)
<1>1. Holds(f, s) /\ r.pc = "rows" /\ UNCHANGED tables
  BY DEF D1ReadRows, D1Step, ResolverAt
<1>2. BeginHolds(r, begun) /\ {"match", "existing", "ids"} \subseteq DOMAIN r
  BY <1>1 DEF IdentityInv, FiberHolds, AfterMatch, AfterExisting
<1>3. Adds(r, new, s)
  BY OverAdds
<1>4. /\ DOMAIN new = {"rows", "pc"} /\ new.pc = "claims"
      /\ new.rows = RowsOf(TypeOf[r.item], r.ids)
  OBVIOUS
<1>5. /\ HasFallback(r) \/ r.match.claims = r.claims
      /\ r.clean => /\ r.existing = ExistingOf(r.item)
                    /\ {ExistingOf(r.item)} \cup Matched(TypeOf[r.item], r.match.claims)
                          \subseteq r.ids
  BY <1>1 DEF FreshInv, FreshOf, FreshHolds, Before, AfterMatch
<1>6. DOMAIN RowsOf(TypeOf[r.item], r.ids) = r.ids \cap LiveOf(TypeOf[r.item])
  BY DEF RowsOf, Restrict, LiveOf
<1> HIDE DEF r, new, s
<1>7. /\ s.item = r.item /\ s.claims = r.claims /\ s.clean = r.clean
      /\ HasFallback(s) <=> HasFallback(r)
  BY <1>2, <1>3, <1>4, AddsFallback
<1>8. /\ s.pc = "claims" /\ s.match = r.match /\ s.existing = r.existing /\ s.ids = r.ids
      /\ s.rows = RowsOf(TypeOf[r.item], r.ids)
  BY <1>2, <1>3, <1>4 DEF Adds
<1>9. FreshOf(s)
  BY <1>5, <1>6, <1>7, <1>8 DEF FreshOf, FreshHolds
<1> QED
  BY <1>1, <1>9, FreshMoves

LEMMA FreshReadsClaims ==
    ASSUME IdentityInv, IdentityInv', FreshInv, NEW f \in Resolvers, D1ReadClaims(f)
    PROVE  FreshInv'
<1> DEFINE r == resolver[f]
           rows == [id \in DOMAIN r.rows |->
                       [r.rows[id] EXCEPT !.claims = IF id \in Live THEN canonicals[id].claims
                                                     ELSE NoClaims]]
           pc == IF IsLookedUp(r.match, rows) THEN "target" ELSE "batch"
           new == [rows |-> rows, survivor |-> Chosen(r.item, r.match, r.existing, rows),
                   pc |-> pc]
           s == Over(new, r)
<1>1. /\ Holds(f, s) /\ r.pc = "claims" /\ UNCHANGED tables
      /\ begun' = begun
  BY DEF D1ReadClaims, D1Step, ResolverAt
<1>2. BeginHolds(r, begun) /\ {"match", "existing", "ids"} \subseteq DOMAIN r
  BY <1>1 DEF IdentityInv, FiberHolds, AfterMatch, AfterExisting
<1>3. Adds(r, new, s)
  BY OverAdds
<1>4. /\ DOMAIN new = {"rows", "survivor", "pc"} /\ new.pc = pc
      /\ new.rows = rows /\ new.survivor = Chosen(r.item, r.match, r.existing, rows)
  OBVIOUS
<1>5. /\ HasFallback(r) \/ r.match.claims = r.claims
      /\ r.clean => /\ r.existing = ExistingOf(r.item)
                    /\ {ExistingOf(r.item)} \cup Matched(TypeOf[r.item], r.match.claims)
                          \subseteq r.ids
                    /\ r.ids \cap LiveOf(TypeOf[r.item]) \subseteq DOMAIN r.rows
  BY <1>1 DEF FreshInv, FreshOf, FreshHolds, Before, AfterMatch
<1>6. DOMAIN rows = DOMAIN r.rows /\ pc \in {"target", "batch"}
  OBVIOUS
<1>7. pc = "target" => IsLookedUp(r.match, rows)
  OBVIOUS
<1> HIDE DEF r, new, s, rows, pc
<1>8. /\ s.item = r.item /\ s.claims = r.claims /\ s.clean = r.clean
      /\ HasFallback(s) <=> HasFallback(r)
  BY <1>2, <1>3, <1>4, AddsFallback
<1>9. /\ s.pc = pc /\ s.match = r.match /\ s.existing = r.existing /\ s.ids = r.ids
      /\ s.rows = rows /\ s.survivor = Chosen(s.item, s.match, s.existing, s.rows)
  BY <1>2, <1>3, <1>4, <1>8 DEF Adds
<1>10. RowsHold(s.rows, s.item, begun)
  <2>1. resolver'[f] = s
    BY <1>1 DEF Holds, IdentityInv
  <2>2. FiberHolds(s, begun', DOMAIN sources')
    BY <2>1 DEF IdentityInv
  <2> QED
    BY <1>1, <1>6, <1>9, <2>2 DEF FiberHolds, AfterRows
<1>11. SurvivorFits(s, s.survivor)
  BY <1>9, <1>10, ChosenFits DEF IdentityInv, IdentityTables
<1>12. FreshOf(s)
  BY <1>5, <1>6, <1>7, <1>8, <1>9, <1>11 DEF FreshOf, FreshHolds
<1> QED
  BY <1>1, <1>12, FreshMoves

LEMMA FreshReadsTarget ==
    ASSUME IdentityInv, FreshInv, NEW f \in Resolvers, D1ReadTarget(f)
    PROVE  FreshInv'
<1> DEFINE r == resolver[f]
           s == [r EXCEPT !.survivor = LookedUp(r.survivor), !.pc = "batch"]
<1>1. Holds(f, s) /\ r.pc = "target" /\ UNCHANGED tables
  BY DEF D1ReadTarget, D1Step, ResolverAt
<1>2. /\ BeginHolds(r, begun)
      /\ {"pc", "match", "existing", "ids", "rows", "survivor"} \subseteq DOMAIN r
  BY <1>1 DEF IdentityInv, FiberHolds, AfterMatch, AfterExisting, AfterRows, AfterChoice
<1>3. /\ HasFallback(r) \/ r.match.claims = r.claims
      /\ IsLookedUp(r.match, r.rows)
      /\ r.clean => /\ r.existing = ExistingOf(r.item)
                    /\ {ExistingOf(r.item)} \cup Matched(TypeOf[r.item], r.match.claims)
                          \subseteq r.ids
                    /\ r.ids \cap LiveOf(TypeOf[r.item]) \subseteq DOMAIN r.rows
                    /\ SurvivorFits(r, r.survivor)
  BY <1>1 DEF FreshInv, FreshOf, FreshHolds, Before, AfterMatch
<1> HIDE DEF r
<1>4. /\ s.pc = "batch" /\ s.survivor = LookedUp(r.survivor)
      /\ \A k \in DOMAIN r \ {"pc", "survivor"} : s[k] = r[k]
  BY <1>2
<1> HIDE DEF s
<1>5. /\ s.match = r.match /\ s.existing = r.existing /\ s.ids = r.ids /\ s.rows = r.rows
      /\ s.item = r.item /\ s.claims = r.claims /\ s.clean = r.clean
      /\ s.series = r.series /\ s.numbers = r.numbers
  BY <1>2, <1>4 DEF BeginHolds
<1>6. HasFallback(s) <=> HasFallback(r)
  BY <1>5 DEF HasFallback
<1>7. r.clean => SurvivorFits(s, s.survivor)
  <2> SUFFICES ASSUME r.clean PROVE SurvivorFits(s, s.survivor)
    OBVIOUS
  <2>1. ASSUME Incompatible(r.match.claims, r.rows), r.existing # Absent
        PROVE  s.survivor = r.existing
    <3>1. r.survivor = r.existing /\ r.existing = ExistingOf(r.item)
      BY <1>3, <2>1 DEF SurvivorFits
    <3>2. r.item \in DOMAIN sources
      BY <2>1, <3>1 DEF ExistingOf
    <3> QED
      BY <1>4, <3>1, <3>2, ExistingIsLive DEF IdentityInv
  <2>2. Incompatible(r.match.claims, r.rows) \/ DOMAIN r.rows = {}
    BY <1>3 DEF IsLookedUp
  <2> QED
    BY <1>5, <2>1, <2>2 DEF SurvivorFits
<1>8. FreshOf(s)
  BY <1>3, <1>4, <1>5, <1>6, <1>7 DEF FreshOf, FreshHolds
<1> QED
  BY <1>1, <1>8, FreshMoves

LEMMA FreshRereads ==
    ASSUME IdentityInv, IdentityInv', FreshInv, NEW f \in Resolvers, D1Reread(f)
    PROVE  FreshInv'
<1>1. PICK held : Holds(f, held) /\ held.pc \in {"idle", "resolved"}
  <2>1. \A r, back : Returned(r, back).pc \in {"idle", "resolved"}
    BY DEF Returned, NoResolution
  <2>2. NoResolution.pc = "idle"
    BY DEF NoResolution
  <2> QED
    BY <2>1, <2>2 DEF D1Reread, LeaveResolver
<1>2. FreshOf(held)
  BY <1>1, NotBefore DEF FreshOf, Before, AfterMatch
<1>3. UNCHANGED tables
  BY DEF D1Reread
<1> QED
  BY <1>1, <1>2, <1>3, FreshMoves

LEMMA FreshWrites ==
    ASSUME IdentityInv, FreshInv, NEW f \in Resolvers,
           SqliteResolve(f) \/ D1Batch(f) \/ Persist(f)
    PROVE  FreshInv'
<1>1. \E held : resolver' = Overtaken(f, held) /\ held.pc \notin Before
  <2>1. CASE SqliteResolve(f)
    <3>1. PICK r, back : resolver' = Overtaken(f, Returned(r, back))
      BY <2>1 DEF SqliteResolve
    <3>2. Returned(r, back).pc \in {"idle", "resolved"}
      BY DEF Returned, NoResolution
    <3> QED
      BY <3>1, <3>2 DEF Before, AfterMatch
  <2>2. CASE D1Batch(f)
    <3> DEFINE r == resolver[f]
               s == [r EXCEPT !.pc = "reread"]
    <3>1. resolver' = Overtaken(f, s)
      BY <2>2 DEF D1Batch
    <3>2. "pc" \in DOMAIN r
      BY DEF IdentityInv, FiberHolds
    <3>3. s.pc = "reread"
      BY <3>2
    <3> HIDE DEF s
    <3> QED
      BY <3>1, <3>3 DEF Before
  <2>3. CASE Persist(f)
    <3>1. resolver' = Overtaken(f, NoResolution)
      BY <2>3 DEF Persist
    <3>2. NoResolution.pc \notin Before
      BY DEF NoResolution, Before, AfterMatch
    <3> QED
      BY <3>1, <3>2
  <2> QED
    BY <2>1, <2>2, <2>3
<1> QED
  BY <1>1, FreshOvertaken

LEMMA FreshStays ==
    ASSUME IdentityInv, FreshInv, UNCHANGED <<tables, resolver>>
    PROVE  FreshInv'
<1>1. canonicals' = canonicals /\ sources' = sources /\ resolver' = resolver
  BY DEF tables
<1>2. ASSUME NEW g \in Resolvers PROVE FreshOf(resolver[g])'
  <2> DEFINE r == resolver'[g]
  <2>1. FreshOf(r)
    BY <1>1 DEF FreshInv
  <2>2. /\ ExistingOf(r.item) = ExistingOf(resolver[g].item)'
        /\ Matched(TypeOf[r.item], r.match.claims)
              = Matched(TypeOf[resolver[g].item], resolver[g].match.claims)'
        /\ LiveOf(TypeOf[r.item]) = LiveOf(TypeOf[resolver[g].item])'
    BY <1>1 DEF ExistingOf, Matched, LiveOf, Live
  <2> QED
    BY <2>1, <2>2 DEF FreshOf
<1> QED
  BY <1>2 DEF FreshInv

LEMMA InitFresh == IdentityInit => FreshInv
<1> SUFFICES ASSUME IdentityInit, NEW f \in Resolvers PROVE FreshOf(resolver[f])
  BY DEF FreshInv
<1>1. resolver[f].pc \notin Before
  BY DEF IdentityInit, NoResolution, Before, AfterMatch
<1> QED
  BY <1>1, NotBefore DEF FreshOf

LEMMA NextFresh ==
    IdentityInv /\ IdentityInv' /\ FreshInv /\ [IdentityNext]_identityVars => FreshInv'
<1> SUFFICES ASSUME IdentityInv, IdentityInv', FreshInv, [IdentityNext]_identityVars
             PROVE  FreshInv'
  OBVIOUS
<1>1. ASSUME NEW f \in Resolvers,
             \/ SqliteRefuse(f) \/ D1Refuse(f) \/ D1RefuseBatch(f) \/ PersistFails(f)
      PROVE  FreshInv'
  BY <1>1, FreshRefuses DEF SqliteRefuse, D1Refuse, D1RefuseBatch, PersistFails
<1>2. ASSUME NEW f \in Resolvers,
             \/ BeginResolution(f) \/ D1ReadParent(f) \/ D1ReadExisting(f) \/ D1ReadMatched(f)
             \/ D1ReadRows(f) \/ D1ReadClaims(f) \/ D1ReadTarget(f)
      PROVE  FreshInv'
  BY <1>2, FreshBegins, FreshReadsParent, FreshReadsExisting, FreshReadsMatched,
     FreshReadsRows, FreshReadsClaims, FreshReadsTarget
<1>3. ASSUME NEW f \in Resolvers,
             SqliteResolve(f) \/ D1Batch(f) \/ D1Reread(f) \/ Persist(f)
      PROVE  FreshInv'
  BY <1>3, FreshWrites, FreshRereads
<1>4. CASE EditServer \/ UNCHANGED identityVars
  <2>1. UNCHANGED <<tables, resolver>>
    BY <1>4 DEF EditServer, identityVars, tables
  <2> QED
    BY <2>1, FreshStays
<1> QED
  BY <1>1, <1>2, <1>3, <1>4 DEF IdentityNext

\* On D1 what is written by a resolution that nothing overtook is current.
LEMMA BatchIsCurrent ==
    ASSUME IdentityInv, FreshInv, NEW f \in Resolvers, D1Batch(f), resolver[f].clean
    PROVE  /\ HeldInHand(resolver[f])
           /\ Wrote(resolver[f], resolver[f].survivor)
           /\ Current(resolver[f], resolver[f].survivor)
<1> DEFINE r == resolver[f]
<1>1. r.pc = "batch" /\ Write(r, r.survivor)
  BY DEF D1Batch, ResolverAt
<1>2. HeldInHand(r) /\ OfType(r.survivor, TypeOf[r.item])
  BY <1>1, HeldAtBatch
<1>3. IdentityTables
  BY DEF IdentityInv
<1>4. /\ HasFallback(r) \/ r.match.claims = r.claims
      /\ r.existing = ExistingOf(r.item)
      /\ {ExistingOf(r.item)} \cup Matched(TypeOf[r.item], r.match.claims) \subseteq r.ids
      /\ r.ids \cap LiveOf(TypeOf[r.item]) \subseteq DOMAIN r.rows
      /\ SurvivorFits(r, r.survivor)
  BY <1>1 DEF FreshInv, FreshOf, FreshHolds, Before, AfterMatch
<1> HIDE DEF r
<1>5. Wrote(r, r.survivor)
  BY <1>1, <1>2, <1>3, WriteWrites
<1>6. Matched(TypeOf[r.item], r.match.claims) \subseteq DOMAIN r.rows
  <2>1. Matched(TypeOf[r.item], r.match.claims) \subseteq LiveOf(TypeOf[r.item])
    BY DEF Matched, LiveOf
  <2> QED
    BY <1>4, <2>1
<1>7. r.item \in DOMAIN sources =>
        r.existing = sources[r.item].canonical /\ r.existing \in DOMAIN r.rows
  BY <1>3, <1>4, ExistingIsLive DEF LiveOf
<1>8. Current(r, r.survivor)
  BY <1>4, <1>6, <1>7 DEF Current
<1> QED
  BY <1>2, <1>5, <1>8 DEF r

\* On SQLite everything is read in the transaction that writes.
LEMMA SqliteIsCurrent ==
    ASSUME IdentityInv, NEW f \in Resolvers, SqliteResolve(f)
    PROVE  \E held, survivor :
             /\ HeldInHand(held) /\ Wrote(held, survivor) /\ Current(held, survivor)
             /\ held.item = resolver[f].item /\ held.claims = resolver[f].claims
             /\ HasFallback(held) <=> HasFallback(resolver[f])
<1> DEFINE r == resolver[f]
<1>1. r.pc = "prepared"
  BY DEF SqliteResolve, ResolverAt
<1>2. PICK match, existing, rows, survivor, held :
         /\ match = Matching(r, ParentOf(r))
         /\ existing = ExistingOf(r.item)
         /\ rows = RowsOf(TypeOf[r.item], {existing, Lookup(match.proposed)}
                                             \cup Matched(TypeOf[r.item], match.claims))
         /\ survivor = IF IsLookedUp(match, rows)
                       THEN LookedUp(Chosen(r.item, match, existing, rows))
                       ELSE Chosen(r.item, match, existing, rows)
         /\ held = Over([match |-> match, existing |-> existing, rows |-> rows], r)
         /\ Write(held, survivor)
  BY SqliteResolves
<1>3. /\ HeldInHand(held)
      /\ held.item = r.item /\ held.match = match /\ held.rows = rows
      /\ held.existing = existing
      /\ OfType(Chosen(held.item, match, existing, rows), TypeOf[held.item])
  BY <1>1, <1>2, SqliteHolds
<1>4. IdentityTables
  BY DEF IdentityInv
<1>5. OfType(survivor, TypeOf[held.item])
  <2>1. OfType(LookedUp(Chosen(held.item, match, existing, rows)), TypeOf[held.item])
    BY <1>3, <1>4, LookedUpIsOfType
  <2> QED
    BY <1>2, <1>3, <2>1
<1>6. Wrote(held, survivor)
  BY <1>2, <1>3, <1>4, <1>5, WriteWrites
<1>7. BeginHolds(r, begun)
  BY <1>1 DEF IdentityInv, FiberHolds
<1> HIDE DEF r
<1>8. held.claims = r.claims /\ (HasFallback(held) <=> HasFallback(r))
  <2> DEFINE new == [match |-> match, existing |-> existing, rows |-> rows]
  <2>1. Adds(r, new, held)
    BY <1>2, OverAdds
  <2>2. DOMAIN new = {"match", "existing", "rows"}
    OBVIOUS
  <2> HIDE DEF new
  <2> QED
    BY <1>7, <2>1, <2>2, AddsFallback
<1>9. HasFallback(held) \/ held.match.claims = held.claims
  BY <1>2, <1>3, <1>8, MatchingClaims
<1>10. DOMAIN rows = {id \in ({existing, Lookup(match.proposed)}
                                 \cup Matched(TypeOf[r.item], match.claims)) \cap Live :
                        canonicals[id].type = TypeOf[r.item]}
  BY <1>2 DEF RowsOf, Restrict
<1>11. Matched(TypeOf[held.item], held.match.claims) \subseteq DOMAIN held.rows
  BY <1>3, <1>10 DEF Matched
<1>12. held.item \in DOMAIN sources =>
         held.existing = sources[held.item].canonical /\ held.existing \in DOMAIN held.rows
  BY <1>2, <1>3, <1>4, <1>10, ExistingIsLive
<1>13. SurvivorFits(held, survivor)
  <2>1. SurvivorFits(held, Chosen(held.item, held.match, held.existing, held.rows))
    BY <1>3, <1>4, ChosenFits DEF HeldInHand, IdentityTables
  <2>2. CASE ~IsLookedUp(held.match, held.rows)
    BY <1>2, <1>3, <2>1, <2>2
  <2>3. CASE IsLookedUp(held.match, held.rows)
    <3>1. ASSUME Incompatible(held.match.claims, held.rows), held.existing # Absent
          PROVE  survivor = held.existing
      <4>1. survivor = LookedUp(held.existing)
        BY <1>2, <1>3, <2>1, <2>3, <3>1 DEF SurvivorFits
      <4>2. held.existing = ExistingOf(held.item) /\ held.item \in DOMAIN sources
        BY <1>2, <1>3, <3>1 DEF ExistingOf
      <4> QED
        BY <1>4, <4>1, <4>2, ExistingIsLive
    <3> QED
      BY <2>3, <3>1 DEF SurvivorFits, IsLookedUp
  <2> QED
    BY <2>2, <2>3
<1>14. Current(held, survivor)
  BY <1>9, <1>11, <1>12, <1>13 DEF Current
<1> QED
  BY <1>3, <1>6, <1>8, <1>14 DEF r

LEMMA CleanResolutionGathers ==
    ASSUME IdentityInv, FreshInv, NEW f \in Resolvers, Resolves(f)
    PROVE  Gathers(f) /\ StayTogether
<1>1. IdentityTables
  BY DEF IdentityInv
<1>2. PICK held, survivor :
         /\ HeldInHand(held) /\ Wrote(held, survivor) /\ Current(held, survivor)
         /\ held.item = resolver[f].item /\ held.claims = resolver[f].claims
         /\ HasFallback(held) <=> HasFallback(resolver[f])
  <2>1. CASE SqliteResolve(f)
    BY <2>1, SqliteIsCurrent
  <2>2. CASE D1Batch(f)
    BY <2>2, BatchIsCurrent DEF Resolves
  <2> QED
    BY <2>1, <2>2 DEF Resolves
<1>3. StayTogether
  BY <1>1, <1>2, CurrentStays
<1>4. LET claims == IF HasFallback(held) THEN NoClaims ELSE held.claims
      IN  \/ sources'[held.item].reason = "ambiguous-identity"
          \/ \A id \in DOMAIN canonicals', ns \in DOMAIN claims :
                /\ canonicals'[id].type = TypeOf[held.item]
                /\ Says(canonicals'[id], ns, claims[ns])
                => id = sources'[held.item].canonical
  BY <1>1, <1>2, CurrentGathers
<1>5. Gathers(f)
  BY <1>2, <1>4 DEF Gathers
<1> QED
  BY <1>3, <1>5

\* A resolution that nothing overtook between its reads and its batch leaves
\* nobody else with a claim of its item, unless the item is ambiguous: what it
\* read is still what the tables say, the rows with one of the claims are among
\* those it retires, and the survivor is one of them.
THEOREM ResolutionsGatherAll == IdentitySpec => ResolutionsGather
<1>1. IdentityInv /\ FreshInv =>
        [\A f \in Resolvers : Resolves(f) => Gathers(f)]_identityVars
  BY CleanResolutionGathers
<1> QED
  BY <1>1, InitIdentityInv, NextIdentityInv, InitFresh, NextFresh, PTL
     DEF IdentitySpec, ResolutionsGather

\* Such a resolution moves all items of a canonical or none, also when it is the
\* one in conflict.
THEOREM CanonicalsAreNotSplit == IdentitySpec => NeverSplit
<1>1. IdentityInv /\ FreshInv =>
        [\A f \in Resolvers : Resolves(f) => StayTogether]_identityVars
  BY CleanResolutionGathers
<1> QED
  BY <1>1, InitIdentityInv, NextIdentityInv, InitFresh, NextFresh, PTL
     DEF IdentitySpec, NeverSplit

=============================================================================
