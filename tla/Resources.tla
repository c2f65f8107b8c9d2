------------------------------- MODULE Resources -------------------------------
(***************************************************************************)
(* Delivery of images, subtitles and videos.  A resource belongs to the    *)
(* versions of a title, one of which is registered with its server as it   *)
(* is.  An image or a subtitle is asked for at an endpoint of the server,  *)
(* from which redirections and failovers lead to other endpoints or        *)
(* elsewhere, and its body is passed on chunk by chunk under a deadline;   *)
(* an image that has been passed on is cached, under a key with the        *)
(* generation of the server.  Of a video only the place is told, which is  *)
(* asked for at the endpoints too, and so is that of an image for Infuse   *)
(* before it is passed on directly.                                        *)
(*                                                                         *)
(* Whether a server is eligible, and an endpoint healthy, is any of its    *)
(* outcomes at each place that looks.                                      *)
(*                                                                         *)
(* The chunks of a body are of one size, which is the unit of all sizes.   *)
(***************************************************************************)
EXTENDS Naturals, FiniteSets, Functions, FiniteSetsExt, Tables

CONSTANTS
    Deliveries,     \* requests of clients
    Resources,      \* what can be asked for
    Images,         \* the resources that are images
    Videos,         \* the resources that are videos
    Size,           \* resource -> size of its body
    LargestBody,    \* MAX_IMAGE_BYTES, MAX_SUBTITLE_BYTES
    CacheSize,      \* maxBytes of openBunResourceCache
    CacheTime,      \* IMAGE_CACHE_TTL_MS
    Endpoints,      \* number of endpoints of the server
    MostRedirects,  \* MAX_REDIRECTS
    MostVersions,   \* bound on the versions of a title
    MaxMinute,      \* bound on the clock
    MaxReconfigured, \* bound on edits of the server
    MaxDelivered    \* bound on requests

ASSUME KindsAssumption == Images \subseteq Resources /\ Videos \subseteq Resources \ Images
ASSUME SizesAssumption ==
    /\ Size \in [Resources -> Nat] /\ \A x \in Resources : Size[x] > 0
    /\ {LargestBody, CacheSize, CacheTime, Endpoints, MostRedirects,
        MostVersions} \subseteq Nat

VARIABLES
    minute,      \* Date.now()
    configured,  \* generation of the server
    kept,        \* resource_cache: image and generation -> row
    delivery,    \* request -> how far it has come
    delivered

resourcesVars == <<minute, configured, kept, delivery, delivered>>

NoDelivery == [stage |-> "none"]

In(d, stage) == delivery[d].stage = stage

Goes(d, next) == delivery' = [delivery EXCEPT ![d] = next]

-----------------------------------------------------------------------------
(* The cache                                                               *)

CacheKey(d) == <<delivery[d].resource, delivery[d].generation>>

Bytes(rows) == MapThenSumSet(LAMBDA k : rows[k].size, DOMAIN rows)

\* trim: rows are deleted, those accessed longest ago first, until the rest fits.
Trimmed(rows) ==
    {r \in {Restrict(rows, keys) : keys \in SUBSET DOMAIN rows} :
        /\ Bytes(r) <= CacheSize
        /\ \A k \in DOMAIN rows \ DOMAIN r, l \in DOMAIN r : rows[k].accessed <= rows[l].accessed
        /\ r = rows \/ \E last \in DOMAIN rows \ DOMAIN r :
              /\ \A k \in DOMAIN rows \ DOMAIN r : rows[k].accessed <= rows[last].accessed
              /\ Bytes(r) + rows[last].size > CacheSize}

OutOfDate(k) == kept[k].expires <= minute

Prune ==
    /\ kept' \in Trimmed(Restrict(kept, {k \in DOMAIN kept : ~OutOfDate(k)}))
    /\ UNCHANGED <<minute, configured, delivery, delivered>>

-----------------------------------------------------------------------------
(* The request                                                             *)

\* record: the title with its versions, or those of its items, as they are now.
Deliver(d) ==
    /\ In(d, "none") /\ delivered < MaxDelivered /\ delivered' = delivered + 1
    /\ \E x \in Resources, n \in 1 .. MostVersions :
          Goes(d, [stage |-> "registering", resource |-> x, generation |-> configured,
                   versions |-> n])
    /\ UNCHANGED <<minute, configured, kept>>

\* What is asked for at an endpoint, or elsewhere (0), at first.
Asking(d, stage, first, direct) ==
    [stage |-> stage, resource |-> delivery[d].resource,
     generation |-> delivery[d].generation,
     versions |-> IF delivery[d].resource \in Videos THEN delivery[d].versions ELSE 1,
     at |-> first, floor |-> first, hops |-> 0, left |-> {}, by |-> "choice",
     direct |-> direct]

\* proxyArtwork: fetched from where it is, under a key with the given generation; 0,
\* if the place is an artwork host of a metadata provider.
Artwork(d, generation) ==
    [Asking(d, "cached?", 0, TRUE) EXCEPT !.generation = generation]

\* resolvePlayback: the server is still what the record says.
Registers(d) == configured = delivery[d].generation

\* The artwork of a metadata provider: the client is sent there, or it is passed on
\* directly, under a key without a server.
ProvideImage(d) ==
    /\ In(d, "registering") /\ delivery[d].resource \in Images
    /\ \/ Goes(d, NoDelivery)
       \/ Goes(d, Artwork(d, 0))
    /\ UNCHANGED <<minute, configured, kept, delivered>>

\* A version or an item, in order, that can be registered; an item is registered
\* as the record says, whatever has become of the server.
RegisterImage(d) ==
    /\ In(d, "registering") /\ delivery[d].resource \in Images
    /\ \E first \in 0 .. Endpoints, stage \in {"cached?", "placing"} :
          Goes(d, Asking(d, stage, first, FALSE))
    /\ UNCHANGED <<minute, configured, kept, delivered>>

\* The version the client names. Some clients go to its place themselves.
RegisterSubtitle(d) ==
    /\ In(d, "registering") /\ delivery[d].resource \notin Images \cup Videos /\ Registers(d)
    /\ \/ Goes(d, NoDelivery)
       \/ \E first \in 0 .. Endpoints : Goes(d, Asking(d, "opening", first, FALSE))
    /\ UNCHANGED <<minute, configured, kept, delivered>>

\* The version the client names, or any in order.
RegisterVideo(d) ==
    /\ In(d, "registering") /\ delivery[d].resource \in Videos /\ Registers(d)
    /\ \E first \in 0 .. Endpoints : Goes(d, Asking(d, "placing", first, FALSE))
    /\ UNCHANGED <<minute, configured, kept, delivered>>

\* A version that cannot be registered, or a video that cannot be placed, gives
\* way to the next.
NextVersion(d) ==
    /\ \/ In(d, "registering")
       \/ In(d, "placing") /\ delivery[d].resource \in Videos
    /\ Goes(d, IF delivery[d].versions = 1 THEN NoDelivery
               ELSE [stage |-> "registering", resource |-> delivery[d].resource,
                     generation |-> delivery[d].generation,
                     versions |-> delivery[d].versions - 1])
    /\ UNCHANGED <<minute, configured, kept, delivered>>

\* resolvePlaybackRedirect: an endpoint answers, with a redirection or without, and
\* the place is told. The image for Infuse is fetched from there, if it is the
\* registered place at some endpoint or one of the known artwork hosts.
Placed(d) ==
    /\ In(d, "placing")
    /\ IF delivery[d].resource \in Videos THEN Goes(d, NoDelivery)
       ELSE \/ \E key \in {0, delivery[d].generation} : Goes(d, Artwork(d, key))
            \/ Goes(d, NoDelivery)
    /\ UNCHANGED <<minute, configured, kept, delivered>>

\* serveRegisteredResource: a cached image that is not expired is the answer.
LookIntoCache(d) ==
    /\ In(d, "cached?")
    /\ LET key == CacheKey(d)
           held == key \in DOMAIN kept
       IN  IF held /\ ~OutOfDate(key)
           THEN /\ kept' = [kept EXCEPT ![key].accessed = minute]
                /\ Goes(d, NoDelivery)
           ELSE /\ kept' = Restrict(kept, DOMAIN kept \ {key})
                /\ Goes(d, [delivery[d] EXCEPT !.stage = "opening"])
    /\ UNCHANGED <<minute, configured, delivered>>

\* Mutant: the endpoint after the present one.
AfterThis(d) == {e \in 1 .. Endpoints : delivery[d].at > 0 /\ e > delivery[d].at}

\* The endpoints that may take over from the present one: after every one that
\* was reached, by failover or by redirection.
Successors(d) == {e \in 1 .. Endpoints : delivery[d].at > 0 /\ e > delivery[d].floor}

\* The endpoint cannot be reached, takes too long, or is in trouble itself: the
\* next takes over, or the request fails.
FailOverDelivery(d) ==
    /\ In(d, "placing") \/ (In(d, "opening") /\ ~delivery[d].direct)
    /\ \E next \in Successors(d) :
          /\ \A e \in Successors(d) : next <= e
          /\ Goes(d, [delivery[d] EXCEPT !.at = next, !.floor = next, !.hops = 0,
                                        !.left = @ \cup {delivery[d].at}, !.by = "failover"])
    /\ UNCHANGED <<minute, configured, kept, delivered>>

\* A redirection is followed, but not by an artwork that is fetched directly.
Redirect(d) ==
    /\ In(d, "opening") /\ ~delivery[d].direct
    /\ delivery[d].hops < MostRedirects
    /\ \E to \in 0 .. Endpoints :
          Goes(d, [delivery[d] EXCEPT !.at = to, !.hops = @ + 1, !.by = "redirect",
                                      !.floor = IF to > @ THEN to ELSE @])
    /\ UNCHANGED <<minute, configured, kept, delivered>>

\* No endpoint is left, the redirections are too many or lead nowhere, the body
\* is of no use, the deadline passes or the server was edited in the meantime.
OpeningFails(d) ==
    /\ In(d, "opening") \/ (In(d, "placing") /\ delivery[d].resource \notin Videos)
    /\ Goes(d, NoDelivery)
    /\ UNCHANGED <<minute, configured, kept, delivered>>

\* The answer is taken if the server is still what it was, which nobody asks of
\* an artwork that is fetched directly.
Opened(d) ==
    /\ In(d, "opening")
    /\ delivery[d].direct \/ Registers(d)
    /\ Goes(d, [stage |-> "passing", resource |-> delivery[d].resource,
                generation |-> delivery[d].generation,
                got |-> 0, read |-> "none", output |-> "open", released |-> FALSE])
    /\ UNCHANGED <<minute, configured, kept, delivered>>

-----------------------------------------------------------------------------
(* The body                                                                *)

\* pull: the next chunk is waited for.
Pull(d) ==
    /\ In(d, "passing") /\ delivery[d].read = "none" /\ delivery[d].output = "open"
    /\ Goes(d, [delivery[d] EXCEPT !.read = "waiting"])
    /\ UNCHANGED <<minute, configured, kept, delivered>>

Broken(s) == [s EXCEPT !.read = "none", !.output = "broken", !.released = TRUE]

\* A chunk is passed on, unless it makes the body too large.
Chunk(d) ==
    LET s == delivery[d]
    IN  /\ In(d, "passing") /\ s.read = "waiting" /\ s.got < Size[s.resource]
        /\ Goes(d, IF s.got + 1 > LargestBody THEN Broken(s)
                   ELSE [s EXCEPT !.got = @ + 1, !.read = "none"])
        /\ UNCHANGED <<minute, configured, kept, delivered>>

BodyFails(d) ==
    /\ In(d, "passing") /\ delivery[d].read = "waiting"
    /\ Goes(d, Broken(delivery[d]))
    /\ UNCHANGED <<minute, configured, kept, delivered>>

BodyEnds(d) ==
    LET s == delivery[d]
    IN  /\ In(d, "passing") /\ s.read = "waiting" /\ s.got = Size[s.resource]
        /\ Goes(d, [s EXCEPT !.read = "done"])
        /\ UNCHANGED <<minute, configured, kept, delivered>>

\* The deadline passes, the request is aborted or the client stops reading.  The
\* upstream's reader is cancelled, which ends a read that is waiting as the end
\* of the body does.
Interrupt(d) ==
    LET s == delivery[d]
    IN  /\ In(d, "passing") /\ s.output = "open"
        /\ Goes(d, [s EXCEPT !.output = "broken", !.released = TRUE,
                             !.read = IF @ = "waiting" THEN "done" ELSE @])
        /\ UNCHANGED <<minute, configured, kept, delivered>>

\* What was passed on is stored, if it is an image.  A write that fails is ignored.
Store(d) ==
    LET s == delivery[d]
        row == [size |-> s.got, expires |-> minute + CacheTime, accessed |-> minute]
    IN  /\ In(d, "passing") /\ s.read = "done"
        /\ \/ s.resource \in Images /\ kept' \in Trimmed(With(kept, CacheKey(d), row))
           \/ UNCHANGED kept
        /\ Goes(d, [s EXCEPT !.read = "stored"])
        /\ UNCHANGED <<minute, configured, delivered>>

\* The output is closed and the upstream released, once.
Close(d) ==
    LET s == delivery[d]
    IN  /\ In(d, "passing")
        /\ s.read = "stored" \/ (s.released /\ s.read = "none")
        /\ Goes(d, NoDelivery)
        /\ UNCHANGED <<minute, configured, kept, delivered>>

-----------------------------------------------------------------------------

Reconfigure ==
    /\ configured <= MaxReconfigured /\ configured' = configured + 1
    /\ UNCHANGED <<minute, kept, delivery, delivered>>

MinutePasses ==
    /\ minute < MaxMinute /\ minute' = minute + 1
    /\ UNCHANGED <<configured, kept, delivery, delivered>>

ResourcesInit ==
    /\ minute = 1 /\ configured = 1 /\ delivered = 0
    /\ kept = <<>>
    /\ delivery = [d \in Deliveries |-> NoDelivery]

ResourcesNext ==
    \/ \E d \in Deliveries :
          \/ Deliver(d) \/ ProvideImage(d) \/ RegisterImage(d) \/ RegisterSubtitle(d)
          \/ RegisterVideo(d) \/ NextVersion(d) \/ Placed(d) \/ LookIntoCache(d)
          \/ FailOverDelivery(d) \/ Redirect(d) \/ OpeningFails(d) \/ Opened(d)
          \/ Pull(d) \/ Chunk(d) \/ BodyFails(d) \/ BodyEnds(d) \/ Interrupt(d)
          \/ Store(d) \/ Close(d)
    \/ Prune \/ Reconfigure \/ MinutePasses

ResourcesSpec == ResourcesInit /\ [][ResourcesNext]_resourcesVars

-----------------------------------------------------------------------------
(* Properties                                                              *)

\* A failover never goes back to an endpoint that was left because it failed,
\* however redirections lead back and forth between the endpoints in between
\* (endpointFloor of requestResource, the attempts of resolvePlaybackRedirect).
\* A redirection may lead to such an endpoint again, here and in the code; when
\* it fails once more, the next endpoint is behind all that were reached so far.
FailedEndpointsStayBehind ==
    \A d \in Deliveries :
        (In(d, "placing") \/ In(d, "opening")) /\ delivery[d].by = "failover" =>
            delivery[d].at \notin delivery[d].left
=============================================================================
