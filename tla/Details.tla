-------------------------------- MODULE Details --------------------------------
(***************************************************************************)
(* Media versions of one title.  A client that opens the title has every   *)
(* source asked for it (enrichVersions): by the title's exact identity     *)
(* first, and for the items that are known where that does not settle it.  *)
(* What a source answers is kept as a detail projection of each of its     *)
(* items, shown until it is stale, and as the source's answer about the    *)
(* identity, which spares the next clients the question while it is fresh. *)
(* Lists write projections as well, and an edit of a server moves it to a  *)
(* generation of which no item is known yet.  Every access of the database *)
(* is one statement or one transaction on both storages.                   *)
(***************************************************************************)
EXTENDS Naturals, Sequences, Tables

CONSTANTS
    Openings,         \* clients that open the title
    Places,           \* libraries, each of a server of its own
    Copies,           \* items of the places that are the title, in the order of readCatalogItems
    PlaceOf,          \* item -> its place
    Nothing,
    FreshDetail,      \* METADATA_FRESH_MS
    StaleDetail,      \* METADATA_STALE_MS
    MaxHour,          \* bound on the clock
    MaxServerEdits,   \* bound on edits of servers
    MaxOpened,        \* bound on openings begun
    MaxListed         \* bound on items that lists write

ASSUME PlacesAssumption == Copies \subseteq Nat /\ PlaceOf \in [Copies -> Places]
ASSUME DetailWindows ==
    FreshDetail \in Nat /\ StaleDetail \in Nat /\ 0 < FreshDetail /\ FreshDetail <= StaleDetail

VARIABLES
    hour,        \* Date.now()
    edition,     \* place -> generation of its server
    observedAs,  \* source_items: item -> generation it was resolved under, 0 if never
    detail,      \* source_metadata_cache, "detail": item -> stale_until of its
                 \* versions, 0 when there are none or they are suppressed
    exactly,     \* source_metadata_cache, "exact:...": the answers by the title's first
                 \* item, the place and its generation
    asking,      \* opening and place -> the fiber that asks the place
    opened, listed

detailsVars == <<hour, edition, observedAs, detail, exactly, asking, opened, listed>>

CopiesOf(s) == {i \in Copies : PlaceOf[i] = s}

\* readCatalogItems: versions of the server's generation with a usable detail.
Shown(i) == detail[i] > hour /\ observedAs[i] = edition[PlaceOf[i]]

NotAsking == [doing |-> "nothing"]

\* The fiber of an opening that asks a place.
Fiber(e, s) == asking[<<e, s>>]

AskingIs(e, s, what) == Fiber(e, s).doing = what

Becomes(e, s, fiber) == asking' = [asking EXCEPT ![<<e, s>>] = fiber]

-----------------------------------------------------------------------------
(* The title is opened                                                     *)

First ==
    CHOOSE i \in Copies :
        observedAs[i] > 0 /\ \A j \in 1 .. i - 1 : j \in Copies => observedAs[j] = 0

Looking(s) ==
    [doing |-> "looking", edition |-> edition[s], anchor |-> First,
     known |-> {i \in CopiesOf(s) : observedAs[i] = edition[s]},
     usable |-> \E i \in CopiesOf(s) : Shown(i), heard |-> {}, told |-> FALSE]

\* The record is read once.  A title none of whose items is at an eligible
\* place is looked for at all of them, and so are the others here.
Open(e) ==
    /\ \A s \in Places : AskingIs(e, s, "nothing")
    /\ opened < MaxOpened /\ opened' = opened + 1
    /\ \E i \in Copies : observedAs[i] > 0
    /\ asking' = [at \in Openings \X Places |->
                    IF at[1] # e THEN asking[at] ELSE Looking(at[2])]
    /\ UNCHANGED <<hour, edition, observedAs, detail, exactly, listed>>

PlaceAnswers(e, s) == <<Fiber(e, s).anchor, s, Fiber(e, s).edition>>

\* readMetadataProjection: a fresh answer about the identity, if there is one.
FreshAnswer(key) ==
    IF key \in DOMAIN exactly /\ exactly[key].fresh > hour THEN {exactly[key].found} ELSE {}

\* The known items are asked for one by one, for one of three reasons: the place
\* said it has no such title, the discovery failed, or it did not find the title.
Refreshing(fiber, why, at, heard) ==
    [doing |-> "refreshing", edition |-> fiber.edition, anchor |-> fiber.anchor,
     known |-> fiber.known, usable |-> fiber.usable, told |-> FALSE,
     heard |-> fiber.heard \cup heard, why |-> why, at |-> at,
     left |-> fiber.known, results |-> {}, kept |-> Nothing, observed |-> 0]

\* What is left to write, and whether the client is told that the place is incomplete.
Ending(e, s, writes, told, heard) ==
    [doing |-> "ending", edition |-> Fiber(e, s).edition, anchor |-> Fiber(e, s).anchor,
     writes |-> writes, told |-> told, heard |-> Fiber(e, s).heard \cup heard]

Exact(found, at) == [what |-> "exact", found |-> found, at |-> at]
Suppress(at) == [what |-> "suppress", at |-> at]

Look(e, s) ==
    /\ AskingIs(e, s, "looking")
    /\ Becomes(e, s,
         CASE FreshAnswer(PlaceAnswers(e, s)) = {TRUE}  -> Ending(e, s, <<>>, FALSE, {})
           [] FreshAnswer(PlaceAnswers(e, s)) = {FALSE} ->
                 Refreshing(Fiber(e, s), "absent", hour, {})
           [] OTHER -> [Fiber(e, s) EXCEPT !.doing = "discovering"])
    /\ UNCHANGED <<hour, edition, observedAs, detail, exactly, opened, listed>>

-----------------------------------------------------------------------------
(* By identity                                                             *)

\* The place cannot be reached or takes too long.  Without versions to show, the
\* known items are tried; versions that can be shown are kept.
DiscoveryIsLost(e, s) ==
    /\ AskingIs(e, s, "discovering")
    /\ Becomes(e, s, IF Fiber(e, s).usable \/ Fiber(e, s).known = {}
                     THEN Ending(e, s, <<>>, TRUE, {"lost"})
                     ELSE Refreshing(Fiber(e, s), "lost", hour, {"lost"}))
    /\ UNCHANGED <<hour, edition, observedAs, detail, exactly, opened, listed>>

\* The place refuses, or has no such library.
DiscoveryIsRefused(e, s) ==
    /\ AskingIs(e, s, "discovering")
    /\ \/ Becomes(e, s, Ending(e, s, <<Suppress(hour)>>, TRUE, {"invalid"}))
       \/ Becomes(e, s, Ending(e, s, <<Suppress(hour), Exact(FALSE, hour)>>, FALSE, {"missing"}))
    /\ UNCHANGED <<hour, edition, observedAs, detail, exactly, opened, listed>>

Keeping(fiber, page) ==
    [doing |-> "keeping", edition |-> fiber.edition, anchor |-> fiber.anchor,
     known |-> fiber.known, usable |-> fiber.usable, told |-> FALSE,
     heard |-> fiber.heard, page |-> page, kept |-> Nothing, found |-> FALSE, at |-> hour]

\* A page with the items that say they are the title.
DiscoveryAnswers(e, s) ==
    /\ AskingIs(e, s, "discovering")
    /\ \E page \in SUBSET CopiesOf(s) :
          Becomes(e, s, Keeping(Fiber(e, s), page))
    /\ UNCHANGED <<hour, edition, observedAs, detail, exactly, opened, listed>>

\* identity.resolve refuses what is of an earlier generation of the server.
ResolvesCopy(e, s, i) ==
    /\ edition[s] = Fiber(e, s).edition
    /\ observedAs' = [observedAs EXCEPT ![i] = edition[s]]

Refused(e, s) == edition[s] # Fiber(e, s).edition

\* cacheMatchingItems: an item of the page is resolved, then its detail written.
ResolveOfPage(e, s) ==
    /\ AskingIs(e, s, "keeping") /\ Fiber(e, s).kept = Nothing
    /\ \E i \in Fiber(e, s).page :
          /\ ResolvesCopy(e, s, i)
          /\ Becomes(e, s, [Fiber(e, s) EXCEPT !.kept = i, !.page = @ \ {i}])
    /\ UNCHANGED <<hour, edition, detail, exactly, opened, listed>>

RefuseOfPage(e, s) ==
    /\ AskingIs(e, s, "keeping") /\ Fiber(e, s).kept = Nothing
    /\ Fiber(e, s).page # {} /\ Refused(e, s)
    /\ Becomes(e, s, Ending(e, s, <<Suppress(Fiber(e, s).at)>>, TRUE, {"invalid"}))
    /\ UNCHANGED <<hour, edition, observedAs, detail, exactly, opened, listed>>

KeepOfPage(e, s) ==
    /\ AskingIs(e, s, "keeping") /\ Fiber(e, s).kept # Nothing
    /\ detail' = [detail EXCEPT ![Fiber(e, s).kept] = Fiber(e, s).at + StaleDetail]
    /\ Becomes(e, s, [Fiber(e, s) EXCEPT !.kept = Nothing, !.found = TRUE])
    /\ UNCHANGED <<hour, edition, observedAs, exactly, opened, listed>>

PageIsKept(e, s) ==
    LET fiber == Fiber(e, s)
    IN  /\ AskingIs(e, s, "keeping") /\ fiber.kept = Nothing /\ fiber.page = {}
        /\ Becomes(e, s, IF fiber.found THEN Ending(e, s, <<Exact(TRUE, fiber.at)>>, FALSE, {})
                         ELSE Refreshing(fiber, "unfound", fiber.at, {"missing"}))
        /\ UNCHANGED <<hour, edition, observedAs, detail, exactly, opened, listed>>

-----------------------------------------------------------------------------
(* By item                                                                 *)

\* The next known item was asked for and gave the result.
Gives(e, s, i, result) ==
    [Fiber(e, s) EXCEPT !.left = @ \ {i}, !.results = @ \cup {result}, !.heard = @ \cup {result}]

\* The item cannot be had for now, or the place refuses or answers nonsense.
KnownFails(e, s) ==
    /\ AskingIs(e, s, "refreshing")
    /\ \E i \in Fiber(e, s).left, result \in {"lost", "invalid"} :
          Becomes(e, s, Gives(e, s, i, result))
    /\ UNCHANGED <<hour, edition, observedAs, detail, exactly, opened, listed>>

\* The item is gone, or is another title now: its detail is suppressed.
KnownIsGone(e, s) ==
    /\ AskingIs(e, s, "refreshing")
    /\ \E i \in Fiber(e, s).left :
          /\ detail' = [detail EXCEPT ![i] = 0]
          /\ Becomes(e, s, Gives(e, s, i, "missing"))
    /\ UNCHANGED <<hour, edition, observedAs, exactly, opened, listed>>

KnownAnswers(e, s) ==
    /\ AskingIs(e, s, "refreshing")
    /\ \E i \in Fiber(e, s).left :
          /\ ResolvesCopy(e, s, i)
          /\ Becomes(e, s, [Fiber(e, s) EXCEPT !.doing = "answered", !.left = @ \ {i},
                                                !.kept = i, !.observed = hour])
    /\ UNCHANGED <<hour, edition, detail, exactly, opened, listed>>

KeepKnown(e, s) ==
    LET fiber == Fiber(e, s)
    IN  /\ AskingIs(e, s, "answered")
        /\ detail' = [detail EXCEPT ![fiber.kept] = fiber.observed + StaleDetail]
        /\ Becomes(e, s, [fiber EXCEPT !.doing = "refreshing", !.results = @ \cup {"found"},
                                       !.kept = Nothing, !.observed = 0])
        /\ UNCHANGED <<hour, edition, observedAs, exactly, opened, listed>>

\* Mutant: an item that failed among others that were found is passed over.
OutcomeOfFound(results) ==
    IF "lost" \in results THEN "lost"
    ELSE IF "found" \in results THEN "found"
    ELSE IF "invalid" \in results THEN "invalid" ELSE "missing"

\* One outcome of all the items.
Outcome(results) ==
    IF "lost" \in results THEN "lost"
    ELSE IF "found" \in results
         THEN IF results = {"found"} THEN "found" ELSE "partial"
    ELSE IF "invalid" \in results THEN "invalid" ELSE "missing"

\* What follows from the outcome, for the reason the items were asked for; the
\* details are suppressed when the outcome is one of the last.
Follows(e, s, outcome, suppressing) ==
    LET why == Fiber(e, s).why
        at == Fiber(e, s).at
        suppress == IF outcome \in suppressing
                    THEN <<Suppress(IF why = "unfound" THEN at ELSE hour)>> ELSE <<>>
    IN  Ending(e, s,
               CASE outcome = "found" -> <<Exact(TRUE, IF why = "unfound" THEN at ELSE hour)>>
                 [] outcome = "missing" /\ why = "unfound" -> <<Exact(FALSE, at), Suppress(at)>>
                 [] OTHER -> suppress,
               why = "lost" \/ outcome \in {"lost", "partial", "invalid"}, {})

\* Mutant: items that could not be had are taken for items the place refuses.
ConcludesOfLost(e, s, outcome) == Follows(e, s, outcome, {"invalid", "lost"})

Concludes(e, s, outcome) == Follows(e, s, outcome, {"invalid"})

RefreshEnds(e, s) ==
    /\ AskingIs(e, s, "refreshing") /\ Fiber(e, s).left = {}
    /\ Becomes(e, s, Concludes(e, s, Outcome(Fiber(e, s).results)))
    /\ UNCHANGED <<hour, edition, observedAs, detail, exactly, opened, listed>>

\* The deadline of all the items, wherever it finds the fiber.
RefreshIsLate(e, s) ==
    /\ AskingIs(e, s, "refreshing") \/ AskingIs(e, s, "answered")
    /\ Becomes(e, s, [Concludes(e, s, "lost") EXCEPT !.heard = @ \cup {"lost"}])
    /\ UNCHANGED <<hour, edition, observedAs, detail, exactly, opened, listed>>

-----------------------------------------------------------------------------
(* Endings                                                                 *)

\* suppressDetailProjections: the items of the place and the generation.
Withdrawn(s, generation) == {i \in CopiesOf(s) : observedAs[i] = generation}

WriteEnding(e, s) ==
    LET fiber == Fiber(e, s)
        w == Head(fiber.writes)
    IN  /\ AskingIs(e, s, "ending") /\ fiber.writes # <<>>
        /\ IF w.what = "suppress"
           THEN /\ detail' = [i \in Copies |->
                                IF i \in Withdrawn(s, fiber.edition) THEN 0 ELSE detail[i]]
                /\ UNCHANGED exactly
           ELSE /\ exactly' = With(exactly, PlaceAnswers(e, s),
                                   [found |-> w.found, fresh |-> w.at + FreshDetail])
                /\ UNCHANGED detail
        /\ Becomes(e, s, [fiber EXCEPT !.writes = Tail(@)])
        /\ UNCHANGED <<hour, edition, observedAs, opened, listed>>

Settled(e, s) == AskingIs(e, s, "ending") /\ Fiber(e, s).writes = <<>>

\* The record is read again and shown.
Show(e) ==
    /\ \A s \in Places : Settled(e, s)
    /\ asking' = [at \in Openings \X Places |->
                    IF at[1] = e THEN NotAsking ELSE asking[at]]
    /\ UNCHANGED <<hour, edition, observedAs, detail, exactly, opened, listed>>

\* The client goes away, or the database fails: every fiber stops where it is.
AbandonOpening(e) ==
    /\ \E s \in Places : ~AskingIs(e, s, "nothing") /\ ~Settled(e, s)
    /\ asking' = [at \in Openings \X Places |->
                    IF at[1] = e THEN NotAsking ELSE asking[at]]
    /\ UNCHANGED <<hour, edition, observedAs, detail, exactly, opened, listed>>

-----------------------------------------------------------------------------
(* Others                                                                  *)

\* resolvePageItems: a list that asks for media sources writes the detail as well.
List(i) ==
    /\ listed < MaxListed /\ listed' = listed + 1
    /\ observedAs' = [observedAs EXCEPT ![i] = edition[PlaceOf[i]]]
    /\ \/ detail' = [detail EXCEPT ![i] = hour + StaleDetail]
       \/ UNCHANGED detail
    /\ UNCHANGED <<hour, edition, exactly, asking, opened>>

EditPlace(s) ==
    /\ edition[s] <= MaxServerEdits
    /\ edition' = [edition EXCEPT ![s] = @ + 1]
    /\ UNCHANGED <<hour, observedAs, detail, exactly, asking, opened, listed>>

HourPasses ==
    /\ hour < MaxHour /\ hour' = hour + 1
    /\ UNCHANGED <<edition, observedAs, detail, exactly, asking, opened, listed>>

DetailsInit ==
    /\ hour = 1
    /\ edition = [s \in Places |-> 1]
    /\ observedAs = [i \in Copies |-> 0]
    /\ detail = [i \in Copies |-> 0]
    /\ exactly = <<>>
    /\ asking = [f \in Openings \X Places |-> NotAsking]
    /\ opened = 0 /\ listed = 0

AskStep(e, s) ==
    \/ Look(e, s) \/ DiscoveryIsLost(e, s) \/ DiscoveryIsRefused(e, s) \/ DiscoveryAnswers(e, s)
    \/ ResolveOfPage(e, s) \/ RefuseOfPage(e, s) \/ KeepOfPage(e, s) \/ PageIsKept(e, s)
    \/ KnownFails(e, s) \/ KnownIsGone(e, s) \/ KnownAnswers(e, s) \/ KeepKnown(e, s)
    \/ RefreshEnds(e, s) \/ RefreshIsLate(e, s) \/ WriteEnding(e, s)

DetailsNext ==
    \/ \E e \in Openings : Open(e) \/ Show(e) \/ AbandonOpening(e)
    \/ \E e \in Openings, s \in Places : AskStep(e, s)
    \/ \E i \in Copies : List(i)
    \/ \E s \in Places : EditPlace(s)
    \/ HourPasses

DetailsSpec == DetailsInit /\ [][DetailsNext]_detailsVars

-----------------------------------------------------------------------------
(* Properties                                                              *)

\* A fiber that heard from its place that the title or an item is not there, or
\* that the place refuses.
HeardOfAbsence(e, s) ==
    Fiber(e, s) # NotAsking /\ Fiber(e, s).heard \cap {"missing", "invalid"} # {}

\* A fiber that has taken as long over an item as the item's versions are shown.
Overdue(e, s) ==
    \/ AskingIs(e, s, "keeping") /\ Fiber(e, s).at + StaleDetail <= hour
    \/ AskingIs(e, s, "answered") /\ Fiber(e, s).observed + StaleDetail <= hour

\* Versions that are shown go away with the time, with an edit of their server,
\* or because their own place said they are not there: a place that is down or
\* slow, or another place, never takes them away (enrichVersions).  The answer
\* of a fiber that sat on it for a day is the exception: it is kept as of then.
VersionsOutliveOutages ==
    [][\A i \in Copies :
          Shown(i) /\ ~Shown(i)' =>
              \/ hour' # hour
              \/ edition'[PlaceOf[i]] # edition[PlaceOf[i]]
              \/ \E e \in Openings :
                    /\ Fiber(e, PlaceOf[i])' # Fiber(e, PlaceOf[i])
                    /\ HeardOfAbsence(e, PlaceOf[i])' \/ Overdue(e, PlaceOf[i])]_detailsVars

\* A client is told of every place some of whose requests failed while the title
\* was opened, whatever the other requests to that place gave
\* (incompleteSourceIds of enrichVersions).
FailuresAreTold ==
    \A e \in Openings, s \in Places :
        Settled(e, s) /\ Fiber(e, s).heard \cap {"lost", "invalid"} # {} => Fiber(e, s).told
=============================================================================
