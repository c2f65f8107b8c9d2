----------------------------- MODULE MediaProofs -----------------------------
(***************************************************************************)
(* The way of a delivery from endpoint to endpoint, and the covers that    *)
(* replace each other, for any number of requests, endpoints, painters,    *)
(* servers and pictures.                                                   *)
(***************************************************************************)
EXTENDS Resources, Covers, TLAPS

-----------------------------------------------------------------------------
(* Deliveries                                                              *)

\* The stages of a delivery that have an endpoint.
Routing == {"cached?", "placing", "opening"}

Routes == [stage : Routing, resource : Resources, generation : Nat,
           versions : Nat \ {0}, at : 0 .. Endpoints, floor : 0 .. Endpoints, hops : Nat,
           left : SUBSET (0 .. Endpoints), by : {"choice", "failover", "redirect"},
           direct : BOOLEAN]

Registrations == [stage : {"registering"}, resource : Resources, generation : Nat,
                  versions : Nat \ {0}]

Bodies == [stage : {"passing"}, resource : Resources, generation : Nat, got : Nat,
           read : {"none", "waiting", "done", "stored"}, output : {"open", "broken"},
           released : BOOLEAN]

\* Nothing that was left, and nothing that was reached, is after the floor; a
\* failover leads to a floor that nobody was at before.
Onward(r) ==
    /\ r.at <= r.floor
    /\ \A e \in r.left : e <= r.floor
    /\ r.by = "failover" => r.at = r.floor /\ r.floor \notin r.left

Deliverable(r) ==
    \/ r = NoDelivery
    \/ r \in Registrations
    \/ r \in Routes /\ Onward(r)
    \/ r \in Bodies

RouteInv ==
    /\ configured \in Nat
    /\ DOMAIN delivery = Deliveries
    /\ \A d \in Deliveries : Deliverable(delivery[d])

LEMMA RouteInit == ResourcesInit => RouteInv
  BY DEF ResourcesInit, RouteInv, Deliverable

\* A delivery may go on to anything deliverable.
LEMMA GoesOn ==
    ASSUME RouteInv, NEW d \in Deliveries, NEW r, Goes(d, r), Deliverable(r),
           UNCHANGED configured
    PROVE  RouteInv'
<1>1. delivery' = [delivery EXCEPT ![d] = r]
  BY DEF Goes
<1> QED
  BY <1>1 DEF RouteInv

\* What is asked for first has been left by nobody.
LEMMA AskingIsOnward ==
    ASSUME RouteInv, NEW d \in Deliveries, NEW stage \in Routing,
           NEW first \in 0 .. Endpoints, NEW direct \in BOOLEAN,
           delivery[d] \in Registrations \cup Routes
    PROVE  Asking(d, stage, first, direct) \in Routes
           /\ Onward(Asking(d, stage, first, direct))
<1>1. /\ delivery[d].resource \in Resources /\ delivery[d].generation \in Nat
      /\ delivery[d].versions \in Nat \ {0}
  BY DEF Registrations, Routes
<1>2. Endpoints \in Nat
  BY SizesAssumption
<1> QED
  BY <1>1, <1>2 DEF Asking, Routes, Onward

LEMMA ArtworkIsOnward ==
    ASSUME RouteInv, NEW d \in Deliveries, NEW generation \in Nat,
           delivery[d] \in Registrations \cup Routes
    PROVE  Artwork(d, generation) \in Routes /\ Onward(Artwork(d, generation))
<1>1. 0 \in 0 .. Endpoints
  BY SizesAssumption
<1> PICK r : r = Asking(d, "cached?", 0, TRUE)
  OBVIOUS
<1>2. r \in Routes /\ Onward(r)
  BY <1>1, AskingIsOnward DEF Routing
<1>3. Artwork(d, generation) = [r EXCEPT !.generation = generation]
  BY DEF Artwork
<1> QED
  BY <1>2, <1>3 DEF Routes, Onward

\* The steps up to the first endpoint.
LEMMA RouteBegins ==
    ASSUME RouteInv, NEW d \in Deliveries,
           \/ Deliver(d) \/ ProvideImage(d) \/ RegisterImage(d) \/ RegisterSubtitle(d)
           \/ RegisterVideo(d) \/ NextVersion(d) \/ Placed(d)
    PROVE  RouteInv'
<1>1. Deliverable(delivery[d]) /\ configured \in Nat
  BY DEF RouteInv
<1>2. Deliverable(NoDelivery)
  BY DEF Deliverable
<1>3. In(d, "registering") => delivery[d] \in Registrations
  BY <1>1 DEF In, Deliverable, NoDelivery, Registrations, Routes, Bodies, Routing
<1>4. In(d, "placing") => delivery[d] \in Routes
  BY <1>1 DEF In, Deliverable, NoDelivery, Registrations, Routes, Bodies, Routing
<1>5. CASE Deliver(d)
  <2> PICK x \in Resources, n \in 1 .. MostVersions :
         Goes(d, [stage |-> "registering", resource |-> x, generation |-> configured,
                  versions |-> n])
    BY <1>5 DEF Deliver
  <2>1. n \in Nat \ {0}
    BY SizesAssumption
  <2>2. Deliverable([stage |-> "registering", resource |-> x, generation |-> configured,
                     versions |-> n])
    BY <1>1, <2>1 DEF Deliverable, Registrations
  <2> QED
    BY <1>5, <2>2, GoesOn DEF Deliver
<1>6. CASE ProvideImage(d)
  <2>1. Deliverable(Artwork(d, 0))
    BY <1>3, <1>6, ArtworkIsOnward DEF ProvideImage, Deliverable
  <2> QED
    BY <1>2, <1>6, <2>1, GoesOn DEF ProvideImage
<1>7. CASE RegisterImage(d)
  <2> PICK first \in 0 .. Endpoints, stage \in {"cached?", "placing"} :
         Goes(d, Asking(d, stage, first, FALSE))
    BY <1>7 DEF RegisterImage
  <2>1. Deliverable(Asking(d, stage, first, FALSE))
    BY <1>3, <1>7, AskingIsOnward DEF RegisterImage, Deliverable, Routing
  <2> QED
    BY <1>7, <2>1, GoesOn DEF RegisterImage
<1>8. CASE RegisterSubtitle(d)
  <2>1. ASSUME NEW first \in 0 .. Endpoints
        PROVE  Deliverable(Asking(d, "opening", first, FALSE))
    BY <1>3, <1>8, AskingIsOnward DEF RegisterSubtitle, Deliverable, Routing
  <2> QED
    BY <1>2, <1>8, <2>1, GoesOn DEF RegisterSubtitle
<1>9. CASE RegisterVideo(d)
  <2>1. ASSUME NEW first \in 0 .. Endpoints
        PROVE  Deliverable(Asking(d, "placing", first, FALSE))
    BY <1>3, <1>9, AskingIsOnward DEF RegisterVideo, Deliverable, Routing
  <2> QED
    BY <1>9, <2>1, GoesOn DEF RegisterVideo
<1>10. CASE NextVersion(d)
  <2>1. /\ delivery[d].resource \in Resources /\ delivery[d].generation \in Nat
        /\ delivery[d].versions \in Nat \ {0}
    BY <1>3, <1>4, <1>10 DEF NextVersion, Registrations, Routes
  <2>2. CASE delivery[d].versions = 1
    BY <1>2, <1>10, <2>2, GoesOn DEF NextVersion
  <2>3. CASE delivery[d].versions # 1
    <3> PICK r : r = [stage |-> "registering", resource |-> delivery[d].resource,
                      generation |-> delivery[d].generation,
                      versions |-> delivery[d].versions - 1]
      OBVIOUS
    <3>1. Deliverable(r)
      BY <2>1, <2>3 DEF Deliverable, Registrations
    <3> QED
      BY <1>10, <2>3, <3>1, GoesOn DEF NextVersion
  <2> QED
    BY <2>2, <2>3
<1>11. CASE Placed(d)
  <2>1. ASSUME NEW key \in {0, delivery[d].generation}
        PROVE  Deliverable(Artwork(d, key))
    <3>1. key \in Nat
      BY <1>4, <1>11 DEF Placed, Routes
    <3> QED
      BY <1>4, <1>11, <3>1, ArtworkIsOnward DEF Placed, Deliverable
  <2> QED
    BY <1>2, <1>11, <2>1, GoesOn DEF Placed
<1> QED
  BY <1>5, <1>6, <1>7, <1>8, <1>9, <1>10, <1>11

\* An endpoint that takes over is after the floor, to which it moves.
LEMMA RouteGoesOn ==
    ASSUME RouteInv, NEW d \in Deliveries,
           LookIntoCache(d) \/ FailOverDelivery(d) \/ Redirect(d)
    PROVE  RouteInv'
<1>1. delivery[d].stage \in Routing /\ UNCHANGED configured
  BY DEF LookIntoCache, FailOverDelivery, Redirect, In, Routing
<1>2. delivery[d] \in Routes /\ Onward(delivery[d])
  BY <1>1 DEF RouteInv, Deliverable, NoDelivery, Registrations, Bodies, Routing
<1> PICK r : r = delivery[d]
  OBVIOUS
<1>3. /\ r \in Routes /\ Onward(r)
      /\ r.at \in 0 .. Endpoints /\ r.floor \in 0 .. Endpoints /\ r.hops \in Nat
      /\ r.left \subseteq 0 .. Endpoints /\ Endpoints \in Nat
  BY <1>2, SizesAssumption DEF Routes
<1>4. CASE LookIntoCache(d)
  <2>1. Deliverable([r EXCEPT !.stage = "opening"])
    BY <1>3 DEF Deliverable, Routes, Onward, Routing
  <2>2. Deliverable(NoDelivery)
    BY DEF Deliverable
  <2> QED
    BY <1>4, <2>1, <2>2, GoesOn DEF LookIntoCache
<1>5. CASE FailOverDelivery(d)
  <2> PICK next \in Successors(d) :
         Goes(d, [delivery[d] EXCEPT !.at = next, !.floor = next, !.hops = 0,
                                     !.left = @ \cup {delivery[d].at}, !.by = "failover"])
    BY <1>5 DEF FailOverDelivery
  <2> PICK s : s = [r EXCEPT !.at = next, !.floor = next, !.hops = 0,
                             !.left = @ \cup {r.at}, !.by = "failover"]
    OBVIOUS
  <2>1. next \in 1 .. Endpoints /\ next > r.floor
    BY DEF Successors
  <2>2. /\ s \in Routes /\ s.at = next /\ s.floor = next /\ s.left = r.left \cup {r.at}
        /\ s.by = "failover"
    <3>1. r.left \cup {r.at} \in SUBSET (0 .. Endpoints) /\ next \in 0 .. Endpoints /\ 0 \in Nat
      BY <1>3, <2>1
    <3>2. s.at = next /\ s.floor = next /\ s.left = r.left \cup {r.at} /\ s.by = "failover"
      BY <1>3 DEF Routes
    <3>3. s \in Routes
      <4>1. s = [stage |-> r.stage, resource |-> r.resource, generation |-> r.generation,
                 versions |-> r.versions, at |-> next, floor |-> next, hops |-> 0,
                 left |-> r.left \cup {r.at}, by |-> "failover", direct |-> r.direct]
        BY <1>3 DEF Routes
      <4>2. /\ r.stage \in Routing /\ r.resource \in Resources /\ r.generation \in Nat
            /\ r.versions \in Nat \ {0} /\ r.direct \in BOOLEAN
        BY <1>3 DEF Routes
      <4> QED
        BY <3>1, <4>1, <4>2 DEF Routes
    <3> QED
      BY <3>2, <3>3
  <2>3. \A e \in s.left : e < next
    BY <1>3, <2>1, <2>2 DEF Onward
  <2>4. Onward(s)
    BY <1>3, <2>1, <2>2, <2>3 DEF Onward
  <2>5. Deliverable(s)
    BY <2>2, <2>4 DEF Deliverable
  <2>6. Goes(d, s)
    BY DEF Goes
  <2> QED
    BY <1>1, <2>5, <2>6, GoesOn
<1>6. CASE Redirect(d)
  <2> PICK to \in 0 .. Endpoints :
         Goes(d, [delivery[d] EXCEPT !.at = to, !.hops = @ + 1, !.by = "redirect",
                                     !.floor = IF to > @ THEN to ELSE @])
    BY <1>6 DEF Redirect
  <2> PICK s : s = [r EXCEPT !.at = to, !.hops = @ + 1, !.by = "redirect",
                             !.floor = IF to > @ THEN to ELSE @]
    OBVIOUS
  <2>1. /\ s \in Routes /\ s.at = to /\ s.left = r.left /\ s.by = "redirect"
        /\ s.floor = IF to > r.floor THEN to ELSE r.floor
    <3>1. /\ s.at = to /\ s.left = r.left /\ s.by = "redirect"
          /\ s.floor = IF to > r.floor THEN to ELSE r.floor
      BY <1>3 DEF Routes
    <3>2. s \in Routes
      <4>1. s = [stage |-> r.stage, resource |-> r.resource, generation |-> r.generation,
                 versions |-> r.versions, at |-> to, hops |-> r.hops + 1,
                 floor |-> IF to > r.floor THEN to ELSE r.floor,
                 left |-> r.left, by |-> "redirect", direct |-> r.direct]
        BY <1>3 DEF Routes
      <4>2. /\ r.stage \in Routing /\ r.resource \in Resources /\ r.generation \in Nat
            /\ r.versions \in Nat \ {0} /\ r.direct \in BOOLEAN
            /\ r.left \in SUBSET (0 .. Endpoints) /\ r.hops + 1 \in Nat
        BY <1>3 DEF Routes
      <4> QED
        BY <1>3, <4>1, <4>2 DEF Routes
    <3> QED
      BY <3>1, <3>2
  <2>2. Onward(s)
    BY <1>3, <2>1 DEF Onward
  <2>3. Deliverable(s)
    BY <2>1, <2>2 DEF Deliverable
  <2>4. Goes(d, s)
    BY DEF Goes
  <2> QED
    BY <1>1, <2>3, <2>4, GoesOn
<1> QED
  BY <1>4, <1>5, <1>6

\* The opening ends, or the body is passed on.
LEMMA RouteEnds ==
    ASSUME RouteInv, NEW d \in Deliveries,
           \/ OpeningFails(d) \/ Opened(d) \/ Pull(d) \/ Chunk(d) \/ BodyFails(d)
           \/ BodyEnds(d) \/ Interrupt(d) \/ Store(d) \/ Close(d)
    PROVE  RouteInv'
<1>1. UNCHANGED configured
  BY DEF OpeningFails, Opened, Pull, Chunk, BodyFails, BodyEnds, Interrupt, Store, Close
<1>2. CASE OpeningFails(d) \/ Close(d)
  BY <1>1, <1>2, GoesOn DEF OpeningFails, Close, Deliverable
<1>3. CASE Opened(d)
  <2>1. delivery[d] \in Routes
    BY <1>3 DEF Opened, In, RouteInv, Deliverable, NoDelivery, Registrations, Bodies, Routing
  <2>2. Deliverable([stage |-> "passing", resource |-> delivery[d].resource,
                     generation |-> delivery[d].generation,
                     got |-> 0, read |-> "none", output |-> "open", released |-> FALSE])
    BY <2>1 DEF Routes, Bodies, Deliverable
  <2> QED
    BY <1>1, <1>3, <2>2, GoesOn DEF Opened
<1>4. CASE Pull(d) \/ Chunk(d) \/ BodyFails(d) \/ BodyEnds(d) \/ Interrupt(d) \/ Store(d)
  <2> PICK s : s = delivery[d]
    OBVIOUS
  <2>1. s \in Bodies
    BY <1>4 DEF Pull, Chunk, BodyFails, BodyEnds, Interrupt, Store, In, RouteInv,
                Deliverable, NoDelivery, Registrations, Routes, Routing
  <2>2. \E r \in Bodies : Goes(d, r)
    <3>1. CASE Pull(d) \/ BodyEnds(d) \/ Interrupt(d) \/ Store(d)
      <4>1. \A read \in {"none", "waiting", "done", "stored"}, output \in {"open", "broken"},
               released \in BOOLEAN :
               /\ [s EXCEPT !.read = read] \in Bodies
               /\ [s EXCEPT !.output = output, !.released = released, !.read = read] \in Bodies
        BY <2>1, ZenonT(60) DEF Bodies
      <4>2. s.read \in {"none", "waiting", "done", "stored"}
        BY <2>1 DEF Bodies
      <4> QED
        BY <3>1, <4>1, <4>2 DEF Pull, BodyEnds, Interrupt, Store, Goes
    <3>2. CASE BodyFails(d)
      <4>1. Broken(s) \in Bodies
        BY <2>1 DEF Broken, Bodies
      <4> QED
        BY <3>2, <4>1 DEF BodyFails, Goes
    <3>3. CASE Chunk(d)
      <4>1. Broken(s) \in Bodies
        BY <2>1 DEF Broken, Bodies
      <4>2. s.got + 1 \in Nat
        BY <2>1 DEF Bodies
      <4>3. [s EXCEPT !.got = @ + 1, !.read = "none"] \in Bodies
        BY <2>1, <4>2 DEF Bodies
      <4> QED
        BY <3>3, <4>1, <4>3 DEF Chunk, Goes
    <3> QED
      BY <1>4, <3>1, <3>2, <3>3
  <2> QED
    BY <1>1, <2>2, GoesOn DEF Deliverable
<1> QED
  BY <1>2, <1>3, <1>4

LEMMA RouteNext == RouteInv /\ [ResourcesNext]_resourcesVars => RouteInv'
<1> SUFFICES ASSUME RouteInv, [ResourcesNext]_resourcesVars
             PROVE  RouteInv'
  OBVIOUS
<1>1. CASE Prune \/ Reconfigure \/ MinutePasses \/ UNCHANGED resourcesVars
  BY <1>1 DEF Prune, Reconfigure, MinutePasses, resourcesVars, RouteInv
<1> QED
  BY <1>1, RouteBegins, RouteGoesOn, RouteEnds DEF ResourcesNext

\* No failover goes to an endpoint that failed before, wherever redirections led
\* in between; what redirections themselves may do is left open (endpointFloor of
\* requestResource).
THEOREM FailedEndpointsStay == ResourcesSpec => []FailedEndpointsStayBehind
<1>1. RouteInv => FailedEndpointsStayBehind
  <2> SUFFICES ASSUME RouteInv, NEW d \in Deliveries,
                      In(d, "placing") \/ In(d, "opening"), delivery[d].by = "failover"
               PROVE  delivery[d].at \notin delivery[d].left
    BY DEF FailedEndpointsStayBehind
  <2>1. delivery[d] \in Routes /\ Onward(delivery[d])
    BY DEF RouteInv, Deliverable, In, NoDelivery, Registrations, Bodies, Routing
  <2> QED
    BY <2>1 DEF Onward
<1> QED
  BY <1>1, RouteInit, RouteNext, PTL DEF ResourcesSpec

-----------------------------------------------------------------------------
(* Covers                                                                  *)

\* A preparation that has a token and has not seen the old cover.
Unseen(p) == Paints(p, "selecting") \/ Paints(p, "looking")

TokensOK ==
    /\ tokens \in Nat
    /\ DOMAIN painter = Painters
    /\ DOMAIN found \subseteq 1 .. tokens
    /\ \A p \in Painters : Unseen(p) =>
          /\ painter[p].token \in (1 .. tokens) \ DOMAIN found
          /\ \A q \in Painters : Unseen(q) /\ p # q => painter[p].token # painter[q].token

\* What a painter goes on with is what the preparation of its token found.
PaintersRemember ==
    \A p \in Painters :
        /\ Paints(p, "saving") =>
              /\ painter[p].token \in DOMAIN found
              /\ found[painter[p].token] =
                    [library |-> painter[p].digest, fences |-> painter[p].fences,
                     revision |-> painter[p].old]
        /\ Paints(p, "fencing") \/ Paints(p, "storing") =>
              /\ painter[p].token \in DOMAIN found
              /\ found[painter[p].token].library = painter[p].digest

\* So is a manifest.
ManifestsRemember ==
    \A t \in DOMAIN manifests :
        /\ t \in DOMAIN found
        /\ found[t] = [library |-> manifests[t].digest, fences |-> manifests[t].fences,
                       revision |-> manifests[t].expected]

CoverInv == TokensOK /\ PaintersRemember /\ ManifestsRemember

LEMMA CoverInit == CoversInit => CoverInv
  BY DEF CoversInit, CoverInv, TokensOK, PaintersRemember, ManifestsRemember, Unseen,
         Paints, NoPainting

\* The latest manifests are manifests.
LEMMA LatestKeeps ==
    ASSUME NEW table, NEW m \in Latest(table)
    PROVE  DOMAIN m \subseteq DOMAIN table /\ \A t \in DOMAIN m : m[t] = table[t]
  BY DEF Latest, kSubset, Restrict

\* A painter that goes on with a token's findings, or with nothing.
LEMMA PainterGoesOn ==
    ASSUME CoverInv, NEW p \in Painters, NEW r, Turns(p, r),
           UNCHANGED <<tokens, found>>, ManifestsRemember',
           \/ r.stage \in {"none", "fetching", "fetched"}
           \/ /\ r.stage \in {"fencing", "storing"}
              /\ r.token \in DOMAIN found /\ found[r.token].library = r.digest
           \/ /\ r.stage = "looking" /\ Unseen(p) /\ r.token = painter[p].token
    PROVE  CoverInv'
<1>1. DOMAIN painter = Painters
  BY DEF CoverInv, TokensOK
<1>2. /\ DOMAIN painter' = Painters /\ painter'[p] = r
      /\ \A q \in Painters \ {p} : painter'[q] = painter[q]
  BY <1>1 DEF Turns
<1>3. \A q \in Painters : Unseen(q)' => Unseen(q) /\ painter'[q].token = painter[q].token
  BY <1>2 DEF Unseen, Paints
<1>4. TokensOK'
  BY <1>2, <1>3 DEF CoverInv, TokensOK
<1>5. PaintersRemember'
  BY <1>2 DEF CoverInv, PaintersRemember, Paints
<1> QED
  BY <1>4, <1>5 DEF CoverInv

LEMMA CoverStep ==
    ASSUME CoverInv, NEW p \in Painters,
           \/ Prepare(p) \/ Select(p) \/ SeeOld(p) \/ SaveManifest(p) \/ ShowToken(p)
           \/ CheckFences(p) \/ FetchPoster(p) \/ PassPoster(p) \/ Commit(p)
    PROVE  CoverInv'
<1>0. DOMAIN painter = Painters /\ tokens \in Nat
  BY DEF CoverInv, TokensOK
<1>1. CASE Prepare(p)
  <2>1. /\ tokens' = tokens + 1 /\ UNCHANGED <<found, manifests>>
        /\ DOMAIN painter' = Painters
        /\ painter'[p] = [stage |-> "selecting", token |-> tokens', digest |-> library]
        /\ \A q \in Painters \ {p} : painter'[q] = painter[q]
    BY <1>0, <1>1 DEF Prepare, Turns
  <2>2. TokensOK'
    BY <2>1 DEF CoverInv, TokensOK, Unseen, Paints
  <2>3. PaintersRemember' /\ ManifestsRemember'
    BY <2>1 DEF CoverInv, PaintersRemember, ManifestsRemember, Paints
  <2> QED
    BY <2>2, <2>3 DEF CoverInv
<1>2. CASE Select(p)
  <2>1. ManifestsRemember'
    BY <1>2 DEF Select, CoverInv, ManifestsRemember
  <2>2. CASE Turns(p, NoPainting)
    BY <1>2, <2>1, <2>2, PainterGoesOn DEF Select, NoPainting
  <2>3. CASE \E from \in SUBSET {h \in Hosts : hosts[h].eligible} \ {{}} :
               Turns(p, [stage |-> "looking", token |-> painter[p].token,
                         digest |-> painter[p].digest,
                         fences |-> [h \in from |-> hosts[h].generation]])
    <3> PICK from : Turns(p, [stage |-> "looking", token |-> painter[p].token,
                              digest |-> painter[p].digest,
                              fences |-> [h \in from |-> hosts[h].generation]])
      BY <2>3
    <3> PICK r : r = [stage |-> "looking", token |-> painter[p].token,
                      digest |-> painter[p].digest,
                      fences |-> [h \in from |-> hosts[h].generation]]
      OBVIOUS
    <3>1. Turns(p, r)
      BY DEF Turns
    <3>2. r.stage = "looking" /\ Unseen(p) /\ r.token = painter[p].token
      BY <1>2 DEF Select, Unseen
    <3> QED
      BY <1>2, <2>1, <3>1, <3>2, PainterGoesOn DEF Select
  <2> QED
    BY <1>2, <2>2, <2>3 DEF Select
<1>3. CASE SeeOld(p)
  <2>1. /\ UNCHANGED <<tokens, manifests>> /\ Unseen(p)
        /\ DOMAIN painter' = Painters
        /\ painter'[p] = [stage |-> "saving", token |-> painter[p].token,
                          digest |-> painter[p].digest, fences |-> painter[p].fences,
                          old |-> cover.revision]
        /\ \A q \in Painters \ {p} : painter'[q] = painter[q]
        /\ found' = With(found, painter[p].token,
                         [library |-> painter[p].digest, fences |-> painter[p].fences,
                          revision |-> cover.revision])
    BY <1>0, <1>3 DEF SeeOld, Turns, Unseen
  <2>2. painter[p].token \in (1 .. tokens) \ DOMAIN found
    BY <2>1 DEF CoverInv, TokensOK
  <2>3. /\ DOMAIN found' = DOMAIN found \cup {painter[p].token}
        /\ \A t \in DOMAIN found : found'[t] = found[t]
        /\ found'[painter[p].token] =
              [library |-> painter[p].digest, fences |-> painter[p].fences,
               revision |-> cover.revision]
    BY <2>1, <2>2 DEF With
  <2>4. TokensOK'
    <3>1. \A q \in Painters : Unseen(q)' => Unseen(q) /\ painter'[q] = painter[q] /\ q # p
      BY <2>1 DEF Unseen, Paints
    <3> QED
      BY <2>1, <2>2, <2>3, <3>1 DEF CoverInv, TokensOK
  <2>5. PaintersRemember'
    <3> SUFFICES ASSUME NEW q \in Painters
                 PROVE  /\ Paints(q, "saving")' =>
                              /\ painter'[q].token \in DOMAIN found'
                              /\ found'[painter'[q].token] =
                                    [library |-> painter'[q].digest, fences |-> painter'[q].fences,
                                     revision |-> painter'[q].old]
                        /\ Paints(q, "fencing")' \/ Paints(q, "storing")' =>
                              /\ painter'[q].token \in DOMAIN found'
                              /\ found'[painter'[q].token].library = painter'[q].digest
      BY DEF PaintersRemember
    <3>1. CASE q = p
      BY <2>1, <2>3, <3>1 DEF Paints
    <3>2. CASE q # p
      BY <2>1, <2>3, <3>2 DEF CoverInv, PaintersRemember, Paints
    <3> QED
      BY <3>1, <3>2
  <2>6. ManifestsRemember'
    BY <2>1, <2>3 DEF CoverInv, ManifestsRemember
  <2> QED
    BY <2>4, <2>5, <2>6 DEF CoverInv
<1>4. CASE SaveManifest(p)
  <2>1. ManifestsRemember'
    <3>1. CASE ~library.exists
      BY <1>4, <3>1 DEF SaveManifest, CoverInv, ManifestsRemember
    <3>2. CASE library.exists
      <4> PICK valid : valid = {t \in DOMAIN manifests : manifests[t].expires > coverTime}
        OBVIOUS
      <4> PICK new : new = [digest |-> painter[p].digest, fences |-> painter[p].fences,
                            expected |-> painter[p].old, expires |-> coverTime + TokenLife]
        OBVIOUS
      <4> PICK token : token = painter[p].token
        OBVIOUS
      <4> PICK table : table = With(Restrict(manifests, valid), token, new)
        OBVIOUS
      <4>1. manifests' \in Latest(table)
        BY <1>4, <3>2 DEF SaveManifest
      <4>2. DOMAIN manifests' \subseteq DOMAIN table /\ \A t \in DOMAIN manifests' : manifests'[t] = table[t]
        BY <4>1, LatestKeeps
      <4>3. /\ DOMAIN table \subseteq DOMAIN manifests \cup {token} /\ table[token] = new
            /\ \A t \in DOMAIN table \ {token} : table[t] = manifests[t]
        BY DEF With, Restrict
      <4>4. /\ token \in DOMAIN found
            /\ found[token] = [library |-> new.digest, fences |-> new.fences,
                               revision |-> new.expected]
        BY <1>4 DEF SaveManifest, CoverInv, PaintersRemember
      <4> QED
        BY <1>4, <4>2, <4>3, <4>4 DEF SaveManifest, CoverInv, ManifestsRemember
    <3> QED
      BY <3>1, <3>2
  <2> QED
    BY <1>4, <2>1, PainterGoesOn DEF SaveManifest, NoPainting
<1>5. CASE ShowToken(p)
  <2> PICK t \in DOMAIN manifests :
        Turns(p, [stage |-> "fencing", token |-> t, digest |-> manifests[t].digest,
                  fences |-> manifests[t].fences])
    BY <1>5 DEF ShowToken
  <2>3. t \in DOMAIN found /\ found[t] = [library |-> manifests[t].digest,
                                         fences |-> manifests[t].fences,
                                         revision |-> manifests[t].expected]
    BY DEF CoverInv, ManifestsRemember
  <2>1. t \in DOMAIN found /\ found[t].library = manifests[t].digest
    BY <2>3
  <2>2. ManifestsRemember'
    BY <1>5 DEF ShowToken, CoverInv, ManifestsRemember
  <2> QED
    BY <1>5, <2>1, <2>2, PainterGoesOn DEF ShowToken
<1>6. CASE CheckFences(p)
  <2>1. painter[p].token \in DOMAIN found /\ found[painter[p].token].library = painter[p].digest
    BY <1>6 DEF CheckFences, CoverInv, PaintersRemember
  <2>2. ManifestsRemember'
    BY <1>6 DEF CheckFences, CoverInv, ManifestsRemember
  <2>3. ASSUME NEW x \in Pictures,
               Turns(p, [stage |-> "storing", token |-> painter[p].token,
                         digest |-> painter[p].digest, picture |-> x])
        PROVE  CoverInv'
    BY <1>6, <2>1, <2>2, <2>3, PainterGoesOn DEF CheckFences
  <2>4. CASE \/ Turns(p, NoPainting)
             \/ Turns(p, [stage |-> "fetching", token |-> painter[p].token,
                          fences |-> painter[p].fences])
    BY <1>6, <2>2, <2>4, PainterGoesOn DEF CheckFences, NoPainting
  <2> QED
    BY <1>6, <2>3, <2>4 DEF CheckFences
<1>7. CASE FetchPoster(p) \/ PassPoster(p)
  <2>1. ManifestsRemember'
    BY <1>7 DEF FetchPoster, PassPoster, CoverInv, ManifestsRemember
  <2> QED
    BY <1>7, <2>1, PainterGoesOn DEF FetchPoster, PassPoster, NoPainting
<1>8. CASE Commit(p)
  <2>1. ManifestsRemember'
    BY <1>8 DEF Commit, CoverInv, ManifestsRemember
  <2> QED
    BY <1>8, <2>1, PainterGoesOn DEF Commit, NoPainting
<1> QED
  BY <1>1, <1>2, <1>3, <1>4, <1>5, <1>6, <1>7, <1>8

LEMMA CoverNext == CoverInv /\ [CoversNext]_coversVars => CoverInv'
<1> SUFFICES ASSUME CoverInv, [CoversNext]_coversVars
             PROVE  CoverInv'
  OBVIOUS
<1>1. CASE ChangeLibrary
  <2>1. UNCHANGED <<painter, tokens, found>> /\ manifests' \in {manifests, <<>>}
    BY <1>1 DEF ChangeLibrary
  <2> QED
    BY <2>1 DEF CoverInv, TokensOK, PaintersRemember, ManifestsRemember, Unseen, Paints
<1>2. CASE (\E h \in Hosts : ChangeHost(h)) \/ CoverTick \/ UNCHANGED coversVars
  <2>1. UNCHANGED <<painter, tokens, found, manifests>>
    BY <1>2 DEF ChangeHost, CoverTick, coversVars
  <2> QED
    BY <2>1 DEF CoverInv, TokensOK, PaintersRemember, ManifestsRemember, Unseen, Paints
<1> QED
  BY <1>1, <1>2, CoverStep DEF CoversNext

\* The library, the servers and the old cover are what the preparation of a token
\* found when a cover is stored with it (commitLibraryCover and its triggers).
THEOREM CoversReplace == CoversSpec => CoversReplaceWhatWasSeen
<1> DEFINE Replaces ==
      \A p \in Painters :
          Paints(p, "storing") /\ painter'[p] # painter[p] /\ cover' # cover =>
             LET f == found[painter[p].token]
             IN  /\ f.revision = cover.revision /\ f.library = library
                 /\ \A h \in DOMAIN f.fences : HostStands(h, f.fences[h])
<1>1. CoverInv /\ [CoversNext]_coversVars => Replaces
  <2> SUFFICES ASSUME CoverInv, [CoversNext]_coversVars, NEW p \in Painters,
                      Paints(p, "storing"), painter'[p] # painter[p], cover' # cover
               PROVE  LET f == found[painter[p].token]
                      IN  /\ f.revision = cover.revision /\ f.library = library
                          /\ \A h \in DOMAIN f.fences : HostStands(h, f.fences[h])
    OBVIOUS
  <2>1. Commit(p)
    <3>1. \E q \in Painters : Commit(q)
      BY DEF CoversNext, coversVars, Prepare, Select, SeeOld, SaveManifest, ShowToken,
             CheckFences, FetchPoster, PassPoster, ChangeLibrary, ChangeHost, CoverTick
    <3> PICK q \in Painters : Commit(q)
      BY <3>1
    <3>2. q = p
      BY DEF Commit, Turns, CoverInv, TokensOK
    <3> QED
      BY <3>2
  <2> PICK t : t = painter[p].token
    OBVIOUS
  <2>2. /\ t \in DOMAIN manifests /\ painter[p].digest = manifests[t].digest
        /\ ManifestHolds(manifests[t]) /\ manifests[t].expected = cover.revision
    BY <2>1 DEF Commit, Stores
  <2>3. found[t] = [library |-> manifests[t].digest, fences |-> manifests[t].fences,
                    revision |-> manifests[t].expected]
    BY <2>2 DEF CoverInv, ManifestsRemember
  <2> QED
    BY <2>2, <2>3 DEF ManifestHolds
<1>2. CoverInv /\ [CoversNext]_coversVars => [Replaces]_coversVars
  BY <1>1
<1> QED
  BY <1>2, CoverInit, CoverNext, PTL DEF CoversSpec, CoversReplaceWhatWasSeen
=============================================================================
