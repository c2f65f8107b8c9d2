------------------------- MODULE AdministrationProofs -------------------------
EXTENDS MCAdministration, ConnectionsProofs, WellFoundedInduction

-----------------------------------------------------------------------------
(* Lists of endpoints                                                      *)

\* A list written position by position is a sequence.
LEMMA ListOf ==
    ASSUME NEW S, NEW n \in Nat, NEW list, list = [i \in 1 .. n |-> list[i]],
           \A i \in 1 .. n : list[i] \in S
    PROVE  list \in Seq(S) /\ Len(list) = n /\ DOMAIN list = 1 .. n
<1>1. list \in [1 .. n -> S]
  BY Zenon
<1>2. list \in Seq(S)
  BY <1>1, SeqDef
<1>3. DOMAIN list = 1 .. Len(list) /\ Len(list) \in Nat /\ DOMAIN list = 1 .. n
  BY <1>1, <1>2, LenProperties
<1> QED
  BY <1>2, <1>3

\* What follows holds of lists of any things that have URLs.
LEMMA UrlsAreListed ==
    ASSUME NEW S, NEW list \in Seq(S), \A e \in S : e.url \in Urls
    PROVE  /\ UrlsOf(list) \in Seq(Urls)
           /\ Len(UrlsOf(list)) = Len(list) /\ Len(list) \in Nat
           /\ DOMAIN list = 1 .. Len(list) /\ DOMAIN UrlsOf(list) = 1 .. Len(list)
           /\ \A i \in 1 .. Len(list) : UrlsOf(list)[i] = list[i].url /\ list[i] \in S
           /\ UrlsOf(list) = <<>> <=> list = <<>>
<1>1. PICK urls : urls = [i \in 1 .. Len(list) |-> list[i].url]
  OBVIOUS
<1>2. DOMAIN list = 1 .. Len(list) /\ Len(list) \in Nat
  BY LenProperties
<1>3. UrlsOf(list) = urls
  BY <1>1, <1>2 DEF UrlsOf
<1>4. \A i \in 1 .. Len(list) : list[i] \in S
  BY ElementOfSeq
<1>5. urls \in Seq(Urls) /\ Len(urls) = Len(list) /\ DOMAIN urls = 1 .. Len(list)
  <2>1. \A i \in 1 .. Len(list) : urls[i] \in Urls
    BY <1>1, <1>4
  <2>2. urls = [i \in 1 .. Len(list) |-> urls[i]]
    BY <1>1
  <2> QED
    BY <1>2, <2>1, <2>2, ListOf
<1>6. urls = <<>> <=> list = <<>>
  BY <1>5, EmptySeq, SeqEqual
<1> QED
  BY <1>1, <1>2, <1>3, <1>4, <1>5, <1>6

\* Every set of natural numbers has a least member.
LEMMA Smallest ==
    ASSUME NEW T \in SUBSET Nat, T # {}
    PROVE  \E x \in T : \A y \in T : x <= y
<1> DEFINE R == OpToRel(<, Nat)
<1>1. IsWellFoundedOn(R, Nat)
  BY NatLessThanWellFounded
<1>2. \A x, y \in Nat : <<x, y>> \in R <=> x < y
  BY DEF OpToRel
<1> HIDE DEF R
<1>3. PICK x \in T : \A y \in T : ~ (<<y, x>> \in R)
  BY <1>1, WFMin
<1>4. ASSUME NEW y \in T PROVE x <= y
  <2>1. ~ (y < x)
    BY <1>2, <1>3
  <2> QED
    BY <2>1
<1> QED
  BY <1>4

\* UrlsAt lists the URLs of the endpoints at the positions, and no others.
LEMMA UrlsAtPositions ==
    ASSUME NEW list \in Seq(Endpoint), NEW positions \in SUBSET DOMAIN list
    PROVE  /\ UrlsAt(list, positions) \in Seq(Urls)
           /\ Range(UrlsAt(list, positions)) = {list[n].url : n \in positions}
<1>1. PICK most : most = Len(list)
  OBVIOUS
<1>2. most \in Nat /\ DOMAIN list = 1 .. most
  BY <1>1, LenProperties
<1>3. \A n \in 1 .. most : list[n].url \in Urls
  <2>1. \A n \in 1 .. most : list[n] \in Endpoint
    BY <1>1, ElementOfSeq
  <2> QED
    BY <2>1 DEF Endpoint
<1> DEFINE Longer(list2, n) == IF n \in positions THEN Append(list2, list[n].url) ELSE list2
           Step(h) == [n \in 0 .. most |-> IF n = 0 THEN <<>> ELSE Longer(h[n - 1], n)]
           Begins(h, n) == /\ h = [k \in 0 .. n |-> h[k]]
                           /\ h[0] = <<>> /\ \A k \in 1 .. n : h[k] = Longer(h[k - 1], k)
           Bad == {n \in 0 .. most : ~\E h : Begins(h, n)}
<1> HIDE DEF Longer
<1>4. Bad = {}
  <2>1. SUFFICES ASSUME Bad # {} PROVE FALSE
    OBVIOUS
  <2>2. PICK n \in Bad : \A k \in Bad : n <= k
    <3>1. Bad \in SUBSET Nat
      BY <1>2
    <3> QED
      BY <2>1, <3>1, Smallest
  <2>3. n # 0
    <3>1. PICK h : h = [k \in 0 .. 0 |-> <<>>]
      OBVIOUS
    <3>2. Begins(h, 0)
      BY <3>1
    <3> QED
      BY <2>2, <3>2
  <2>4. n \in Nat /\ n - 1 \in 0 .. most /\ n - 1 \notin Bad
    BY <1>2, <2>2, <2>3
  <2>5. PICK h : Begins(h, n - 1)
    BY <2>4
  <2>6. PICK g : g = [k \in 0 .. n |-> IF k = n THEN Longer(h[n - 1], n) ELSE h[k]]
    OBVIOUS
  <2>7. g = [k \in 0 .. n |-> g[k]] /\ g[0] = <<>>
    BY <2>3, <2>4, <2>5, <2>6
  <2>8. ASSUME NEW k \in 1 .. n PROVE g[k] = Longer(g[k - 1], k)
    <3>1. k - 1 \in 0 .. n /\ k - 1 # n /\ k \in 0 .. n
      BY <2>4
    <3>2. g[k - 1] = h[k - 1]
      BY <2>6, <3>1
    <3>3. CASE k = n
      BY <2>6, <3>1, <3>2, <3>3
    <3>4. CASE k # n
      <4>1. k \in 1 .. n - 1
        BY <2>4, <3>4
      <4>2. g[k] = h[k]
        BY <2>6, <3>1, <3>4
      <4> QED
        BY <2>5, <3>2, <4>1, <4>2
    <3> QED
      BY <3>3, <3>4
  <2>9. Begins(g, n)
    BY <2>7, <2>8
  <2> QED
    BY <2>2, <2>9
<1>5. \E h : h = Step(h)
  <2>1. most \in 0 .. most
    BY <1>2
  <2>2. PICK h : Begins(h, most)
    BY <1>4, <2>1
  <2>3. h = Step(h)
    <3>1. ASSUME NEW k \in 0 .. most PROVE h[k] = IF k = 0 THEN <<>> ELSE Longer(h[k - 1], k)
      <4>1. CASE k = 0
        BY <2>2, <4>1
      <4>2. CASE k # 0
        <5>1. k \in 1 .. most
          BY <1>2, <4>2
        <5> QED
          BY <2>2, <4>2, <5>1
      <4> QED
        BY <4>1, <4>2
    <3>2. h = [k \in 0 .. most |-> h[k]]
      BY <2>2
    <3> QED
      BY <3>1, <3>2
  <2> QED
    BY <2>3
<1>6. PICK a : a = Step(a) /\ UrlsAt(list, positions) = a[most]
  <2>1. UrlsAt(list, positions) = (CHOOSE h : h = Step(h))[most]
    BY <1>1 DEF UrlsAt, Longer
  <2>2. PICK a : a = CHOOSE h : h = Step(h)
    OBVIOUS
  <2>3. UrlsAt(list, positions) = a[most]
    BY <2>1, <2>2
  <2> HIDE DEF Step
  <2>4. a = Step(a)
    BY <1>5, <2>2
  <2> QED
    BY <2>3, <2>4
<1> DEFINE Right(n) == a[n] \in Seq(Urls) /\ Range(a[n]) = {list[k].url : k \in positions \cap 1 .. n}
           Wrong == {n \in 0 .. most : ~Right(n)}
<1> HIDE DEF Right
<1>7. Wrong = {}
  <2>1. SUFFICES ASSUME Wrong # {} PROVE FALSE
    OBVIOUS
  <2>2. PICK n \in Wrong : \A k \in Wrong : n <= k
    <3>1. Wrong \in SUBSET Nat
      BY <1>2
    <3> QED
      BY <2>1, <3>1, Smallest
  <2>3. n # 0
    <3>1. a[0] = <<>>
      BY <1>2, <1>6
    <3>2. PICK none : none = <<>>
      OBVIOUS
    <3>3. none \in Seq(Urls) /\ Len(none) = 0
      BY <3>2, EmptySeq
    <3>4. Range(none) = {}
      <4>1. Range(none) = {none[i] : i \in 1 .. Len(none)}
        BY <3>3, RangeEquality, Zenon
      <4>2. 1 .. Len(none) = {}
        BY <3>3
      <4> QED
        BY <4>1, <4>2
    <3>5. positions \cap 1 .. 0 = {}
      OBVIOUS
    <3>6. a[0] \in Seq(Urls) /\ Range(a[0]) = {}
      BY <3>1, <3>2, <3>3, <3>4, Zenon
    <3>7. {list[k].url : k \in positions \cap 1 .. 0} = {}
      BY <3>5
    <3>8. Right(0)
      BY <3>6, <3>7, Zenon DEF Right
    <3> QED
      BY <2>2, <3>8
  <2>4. n \in 1 .. most /\ n - 1 \in 0 .. most /\ n - 1 \notin Wrong
    BY <1>2, <2>2, <2>3
  <2>5. Right(n - 1)
    BY <2>4
  <2>6. a[n] = Longer(a[n - 1], n)
    BY <1>6, <2>3, <2>4
  <2>7. CASE n \notin positions
    <3>1. positions \cap 1 .. n = positions \cap 1 .. n - 1
      BY <2>4, <2>7
    <3>2. a[n] = a[n - 1]
      BY <2>6, <2>7 DEF Longer
    <3>3. Right(n)
      BY <2>5, <3>1, <3>2 DEF Right
    <3> QED
      BY <2>2, <3>3
  <2>8. CASE n \in positions
    <3>1. PICK before, url : before = a[n - 1] /\ url = list[n].url
      OBVIOUS
    <3>2. before \in Seq(Urls) /\ url \in Urls
      BY <1>3, <2>4, <2>5, <3>1 DEF Right
    <3>3. a[n] = Append(before, url)
      BY <2>6, <2>8, <3>1 DEF Longer
    <3>4. /\ a[n] \in Seq(Urls) /\ Len(a[n]) = Len(before) + 1 /\ Len(before) \in Nat
          /\ \A i \in 1 .. Len(before) : a[n][i] = before[i]
          /\ a[n][Len(before) + 1] = url
      BY <3>2, <3>3, AppendProperties, LenProperties
    <3>5. Range(a[n]) = Range(before) \cup {url}
      <4>1. /\ Range(a[n]) = {a[n][i] : i \in 1 .. Len(before) + 1}
            /\ Range(before) = {before[i] : i \in 1 .. Len(before)}
        BY <3>2, <3>4, RangeEquality
      <4>2. 1 .. Len(before) + 1 = 1 .. Len(before) \cup {Len(before) + 1}
        BY <3>4
      <4>3. {a[n][i] : i \in 1 .. Len(before) + 1}
              = {a[n][i] : i \in 1 .. Len(before)} \cup {a[n][Len(before) + 1]}
        BY <4>2, Zenon
      <4>4. {a[n][i] : i \in 1 .. Len(before)} = {before[i] : i \in 1 .. Len(before)}
        BY <3>4, Zenon
      <4> QED
        BY <3>4, <4>1, <4>3, <4>4, Zenon
    <3>6. positions \cap 1 .. n = (positions \cap 1 .. n - 1) \cup {n}
      BY <2>4, <2>8
    <3>7. {list[k].url : k \in positions \cap 1 .. n}
              = {list[k].url : k \in positions \cap 1 .. n - 1} \cup {url}
      BY <3>1, <3>6
    <3>8. Right(n)
      BY <2>5, <3>1, <3>4, <3>5, <3>7 DEF Right
    <3> QED
      BY <2>2, <3>8
  <2> QED
    BY <2>7, <2>8
<1>8. Right(most)
  <2>1. most \in 0 .. most
    BY <1>2
  <2> QED
    BY <1>7, <2>1
<1>9. positions \cap 1 .. most = positions
  BY <1>2
<1> QED
  BY <1>6, <1>8, <1>9 DEF Right

-----------------------------------------------------------------------------
(* The invariant.  Its parts are said of what a handler holds, h, and of    *)
(* the row of its server at present, where the URLs serve what world says   *)
(* and the store that is deployed is SQLite or D1.                          *)

Injective(list) == \A i, j \in DOMAIN list : list[i].url = list[j].url => i = j

Truthful(world, endpoint, base) ==
    /\ endpoint.catalog # None => world[endpoint.url] = endpoint.catalog
    /\ endpoint.health = "healthy" => \/ endpoint.catalog # None
                                      \/ endpoint.url = base

SomeServes(list, catalog) ==
    \E i \in DOMAIN list : list[i].health = "healthy" /\ list[i].catalog = catalog

\* What is known of the endpoints of a row is true, and its health is theirs.
Sound(world, row) ==
    /\ Injective(row.endpoints)
    /\ \A i \in DOMAIN row.endpoints : Truthful(world, row.endpoints[i], row.base)
    /\ row.health = "healthy" => SomeServes(row.endpoints, row.catalog)

\* TokenFits, of the store deployed.
Fitting(deployed, row) ==
    row.token # NoToken =>
        /\ row.token.generation = row.generation
        /\ row.token.password = row.password
        /\ row.token.url \in Range(UrlsOf(row.endpoints))
        /\ row.deleted => deployed = "d1"

\* A row agrees with its server while its generation is the server's: a
\* configuration changes under no generation.
Agrees(row, present) ==
    /\ row.generation <= present.generation
    /\ row.generation = present.generation =>
           /\ row.password = present.password /\ row.deleted = present.deleted
           /\ UrlsOf(row.endpoints) = UrlsOf(present.endpoints)

EditFits(h, world, deployed, present) ==
    h.pc = "save" /\ h.kind = "edit" =>
        /\ h.server \in Servers /\ h.row \in Server /\ h.next \in Server
        /\ Sound(world, h.row) /\ Sound(world, h.next) /\ Fitting(deployed, h.next)
        /\ Agrees(h.row, present) /\ ~h.row.deleted
        /\ h.next.catalog = h.row.catalog /\ h.next.base = h.row.base
        /\ h.row.generation <= h.next.generation
        /\ h.row.generation = h.next.generation =>
               /\ h.row.password = h.next.password
               /\ UrlsOf(h.row.endpoints) = UrlsOf(h.next.endpoints)

Tests(h) ==
    \/ h.pc \in {"probe", "verify", "latest"}
    \/ h.pc = "save" /\ h.kind = "test"

\* The endpoints seen and the URLs left make up the endpoints that are tested.
ListsFit(h, world) ==
    /\ h.next.endpoints # <<>> /\ Injective(h.next.endpoints)
    /\ \A i \in DOMAIN h.next.endpoints :
           h.next.endpoints[i].catalog # None =>
               world[h.next.endpoints[i].url] = h.next.endpoints[i].catalog
    /\ Len(h.seen) + Len(h.rest) = Len(h.next.endpoints)
    /\ \A i \in 1 .. Len(h.seen) :
           /\ h.seen[i].url = h.next.endpoints[i].url
           /\ Truthful(world, h.seen[i], h.next.base)
           /\ h.seen[i].health = "healthy" => SomeServes(h.seen, h.next.catalog)
    /\ \A i \in 1 .. Len(h.rest) : h.rest[i] = h.next.endpoints[Len(h.seen) + i].url

TestFits(h, world, present) ==
    Tests(h) =>
        /\ h.kind = "test" /\ h.server \in Servers
        /\ h.generation \in 1 .. present.generation
        /\ h.generation = present.generation =>
               UrlsOf(h.next.endpoints) = UrlsOf(present.endpoints)
        /\ ListsFit(h, world)
        /\ h.pc \in {"probe", "verify"} <=> h.rest # <<>>

VerifyFits(h, present) ==
    h.pc = "verify" =>
        /\ h.row.generation \in 1 .. present.generation
        /\ h.row.password \in UpstreamPasswords
        /\ h.row.generation = present.generation =>
               /\ h.row.password = present.password /\ ~present.deleted
               /\ Head(h.rest) \in Range(UrlsOf(present.endpoints))

SaveTestFits(h, present) ==
    h.pc = "save" /\ h.kind = "test" =>
        /\ h.row.generation = h.generation /\ h.row.password \in UpstreamPasswords
        /\ h.generation = present.generation => h.row.password = present.password /\ ~present.deleted
        /\ h.row.token # NoToken =>
               /\ h.row.token.generation = h.generation
               /\ h.row.token.password = h.row.password
               /\ h.row.token.url \in Range(UrlsOf(h.next.endpoints))

Requests(h) == h.pc \in {"send", "login", "reread", "replay", "check"}

RequestFits(h, deployed, present) ==
    Requests(h) =>
        /\ h.rest # <<>> /\ h.row \in Server
        /\ Agrees(h.row, present) /\ Fitting(deployed, h.row)
        /\ deployed # "d1" => h.row.generation = h.generation /\ ~h.row.deleted
        /\ h.pc = "reread" => deployed = "d1"
        /\ h.pc = "check" => h.from \in Urls

AskFits(h, present) ==
    h.pc = "read" \/ Requests(h) =>
        /\ h.server \in Servers /\ h.generation \in 1 .. present.generation
        /\ h.kind = "library" => h.fence \in 1 .. h.generation

LibraryFits(h, present) ==
    h.pc \in {"discover", "bind"} =>
        /\ h.server \in Servers /\ h.fence \in 1 .. present.generation
        /\ h.pc = "bind" => \A b \in h.bindings :
               /\ b.server = h.server
               /\ ~h.preserve => b.at \in h.fence .. present.generation

Fits(h, world, deployed, present) ==
    /\ EditFits(h, world, deployed, present)
    /\ TestFits(h, world, present) /\ VerifyFits(h, present) /\ SaveTestFits(h, present)
    /\ AskFits(h, present) /\ RequestFits(h, deployed, present)
    /\ LibraryFits(h, present)

ServersFit(rows, world, deployed) ==
    /\ rows = [s \in Servers |-> rows[s]]
    /\ \A s \in Servers :
           /\ rows[s] \in Server \cup {NoServer}
           /\ Sound(world, rows[s]) /\ Fitting(deployed, rows[s])

HandlersFit(handlers, world, deployed, rows) ==
    /\ handlers = [f \in Handlers |-> handlers[f]]
    /\ \A f \in Handlers :
           /\ handlers[f] \in Handling
           /\ Fits(handlers[f], world, deployed, rows[handlers[f].server])

ConfigurationInv ==
    /\ ConfigurationTypeOK
    /\ ServersFit(server, serves, platform)
    /\ HandlersFit(handler, serves, platform, server)

-----------------------------------------------------------------------------
(* What a handler holds stays fitting while servers change                 *)

\* The rows that servers have.
LEMMA StoredRows ==
    ASSUME NEW row \in Server \cup {NoServer}
    PROVE  /\ row \in Part /\ row.generation \in 0 .. MaxServerGeneration
           /\ row.generation \in Nat
           /\ row.endpoints \in Seq(Endpoint)
           /\ row.generation # 0 <=> row # NoServer
           /\ row # NoServer => row \in Server
<1>1. MaxServerGeneration \in Nat
  BY ServerBoundsAssumption
<1>2. NoServer \in Part
  <2>1. <<>> \in Seq(Endpoint)
    BY EmptySeq
  <2> QED
    BY <1>1, <2>1 DEF Part, NoServer, Healths
<1>3. row \in Part /\ (row = NoServer \/ row \in Server)
  BY <1>2 DEF Server
<1>4. NoServer.generation = 0
  BY DEF NoServer
<1>5. row \in Server => row.generation # 0
  BY DEF Server
<1>6. row.generation \in 0 .. MaxServerGeneration /\ row.endpoints \in Seq(Endpoint)
  BY <1>3 DEF Part
<1> QED
  BY <1>1, <1>3, <1>4, <1>5, <1>6

\* A row that agrees with another agrees with what became of that.
LEMMA AgreementIsTransitive ==
    ASSUME NEW row, NEW old, NEW new, row.generation \in Nat, old.generation \in Nat,
           new.generation \in Nat, Agrees(row, old), Agrees(old, new)
    PROVE  Agrees(row, new)
BY DEF Agrees

\* A configuration that grows leaves the handlers of its server fitting.
LEMMA FitsStays ==
    ASSUME NEW h \in Handling, NEW world, NEW deployed, NEW old, NEW new,
           old.generation \in Nat, new.generation \in Nat, Agrees(old, new),
           Fits(h, world, deployed, old)
    PROVE  Fits(h, world, deployed, new)
<1>1. /\ h.generation \in Nat /\ h.row \in Part /\ h.next \in Part
      /\ h.row.generation \in Nat
  <2>1. MaxServerGeneration \in Nat
    BY ServerBoundsAssumption
  <2> QED
    BY <2>1 DEF Handling, Part
<1>2. /\ old.generation <= new.generation
      /\ old.generation = new.generation =>
             /\ old.password = new.password /\ old.deleted = new.deleted
             /\ UrlsOf(old.endpoints) = UrlsOf(new.endpoints)
  BY DEF Agrees
<1>3. EditFits(h, world, deployed, new)
  BY <1>1, AgreementIsTransitive DEF Fits, EditFits
<1>4. TestFits(h, world, new)
  BY <1>1, <1>2 DEF Fits, TestFits
<1>5. VerifyFits(h, new)
  BY <1>1, <1>2 DEF Fits, VerifyFits
<1>6. SaveTestFits(h, new)
  <2>1. Tests(h) => h.generation \in 1 .. old.generation
    BY DEF Fits, TestFits
  <2>2. h.pc = "save" /\ h.kind = "test" => h.generation \in 1 .. old.generation
    BY <2>1 DEF Tests
  <2> QED
    BY <1>1, <1>2, <2>2 DEF Fits, SaveTestFits
<1>7. AskFits(h, new)
  BY <1>1, <1>2 DEF Fits, AskFits
<1>8. RequestFits(h, deployed, new)
  BY <1>1, AgreementIsTransitive DEF Fits, RequestFits
<1>9. LibraryFits(h, new)
  <2>1. \A b \in h.bindings : b.at \in Nat
    BY ServerBoundsAssumption DEF Handling, Binding
  <2> QED
    BY <1>1, <1>2, <2>1 DEF Fits, LibraryFits
<1> QED
  BY <1>3, <1>4, <1>5, <1>6, <1>7, <1>8, <1>9 DEF Fits

\* A handler without a server holds nothing that could fail to fit.
LEMMA UnoccupiedFits ==
    ASSUME NEW world, NEW deployed, NEW present
    PROVE  /\ Unoccupied \in Handling
           /\ Fits(Unoccupied, world, deployed, present)
<1>1. Unoccupied \in Handling
  <2>1. NoServer \in Part
    BY StoredRows
  <2>2. <<>> \in Seq(Urls) /\ <<>> \in Seq(Endpoint)
    BY EmptySeq
  <2> QED
    BY <2>1, <2>2, ServerBoundsAssumption DEF Unoccupied, Handling, HandlerSteps
<1>2. Unoccupied.pc = "idle"
  BY DEF Unoccupied
<1> QED
  BY <1>1, <1>2 DEF Fits, EditFits, TestFits, Tests, VerifyFits, SaveTestFits, AskFits,
                    RequestFits, Requests, LibraryFits

-----------------------------------------------------------------------------
(* Steps of a server and of a handler                                      *)

\* A row that may follow another in the table of servers.
Follows(row, old, world, deployed) ==
    /\ row \in Server \cup {NoServer}
    /\ Sound(world, row) /\ Fitting(deployed, row) /\ Agrees(old, row)

LEMMA NothingFollowsItself ==
    ASSUME NEW row \in Server \cup {NoServer}, NEW world, NEW deployed,
           Sound(world, row), Fitting(deployed, row)
    PROVE  Follows(row, row, world, deployed)
<1>1. row.generation \in Nat
  BY StoredRows
<1> QED
  BY <1>1 DEF Follows, Agrees

LEMMA ServersMove ==
    ASSUME NEW rows, NEW handlers, NEW world, NEW deployed, NEW s \in Servers, NEW row,
           ServersFit(rows, world, deployed), HandlersFit(handlers, world, deployed, rows),
           Follows(row, rows[s], world, deployed)
    PROVE  /\ ServersFit([rows EXCEPT ![s] = row], world, deployed)
           /\ HandlersFit(handlers, world, deployed, [rows EXCEPT ![s] = row])
<1>1. PICK after : after = [rows EXCEPT ![s] = row]
  OBVIOUS
<1>2. /\ rows = [t \in Servers |-> rows[t]] /\ after = [t \in Servers |-> after[t]]
      /\ \A t \in Servers : after[t] = IF t = s THEN row ELSE rows[t]
  BY <1>1 DEF ServersFit
<1>3. ServersFit(after, world, deployed)
  BY <1>2 DEF ServersFit, Follows
<1>4. \A t \in Servers : /\ Agrees(rows[t], after[t])
                         /\ rows[t].generation \in Nat /\ after[t].generation \in Nat
  <2>1. \A t \in Servers : rows[t].generation \in Nat /\ after[t].generation \in Nat
    BY <1>3, StoredRows DEF ServersFit
  <2> QED
    BY <1>2, <2>1 DEF Follows, Agrees
<1>5. ASSUME NEW f \in Handlers
      PROVE  Fits(handlers[f], world, deployed, after[handlers[f].server])
  <2>1. PICK h, t : h = handlers[f] /\ t = h.server
    OBVIOUS
  <2>2. h \in Handling /\ Fits(h, world, deployed, rows[t])
    BY <2>1 DEF HandlersFit
  <2>3. CASE t \in Servers
    BY <1>4, <2>1, <2>2, <2>3, FitsStays
  <2>4. CASE t \notin Servers
    <3>1. \/ h.pc \in {"idle", "servers"}
          \/ h.pc = "save" /\ h.kind \notin {"edit", "test"}
      BY <2>1, <2>2, <2>4 DEF Handling, HandlerSteps, Fits, EditFits, TestFits, Tests,
                              AskFits, Requests, LibraryFits
    <3> QED
      BY <2>1, <3>1 DEF Fits, EditFits, TestFits, Tests, VerifyFits, SaveTestFits,
                        AskFits, RequestFits, Requests, LibraryFits
  <2> QED
    BY <2>3, <2>4
<1> QED
  BY <1>1, <1>3, <1>5 DEF HandlersFit

LEMMA HandlersMove ==
    ASSUME NEW rows, NEW handlers, NEW world, NEW deployed, NEW f \in Handlers,
           HandlersFit(handlers, world, deployed, rows),
           NEW h \in Handling, Fits(h, world, deployed, rows[h.server])
    PROVE  HandlersFit([handlers EXCEPT ![f] = h], world, deployed, rows)
<1>1. PICK after : after = [handlers EXCEPT ![f] = h]
  OBVIOUS
<1>2. /\ handlers = [g \in Handlers |-> handlers[g]]
      /\ after = [g \in Handlers |-> after[g]]
      /\ \A g \in Handlers : after[g] = IF g = f THEN h ELSE handlers[g]
  BY <1>1 DEF HandlersFit
<1> QED
  BY <1>1, <1>2 DEF HandlersFit

LEMMA RespondingFits ==
    ASSUME NEW f \in Handlers, NEW rows, NEW world, NEW deployed,
           HandlersFit(handler, world, deployed, rows), Respond(f)
    PROVE  HandlersFit(handler', world, deployed, rows)
BY HandlersMove, UnoccupiedFits DEF Respond

\* saveServerResult: a login's token is that of the row it finds.
LEMMA ResultsFit ==
    ASSUME ServersFit(server, serves, platform), platform \in {"sqlite", "d1"},
           NEW s \in Servers, NEW row, NEW url \in Urls, server[s] # NoServer,
           row.generation \in Nat, row.password \in UpstreamPasswords,
           row.generation = server[s].generation =>
               /\ row.password = server[s].password
               /\ url \in Range(UrlsOf(server[s].endpoints))
               /\ server[s].deleted => platform = "d1",
           SaveServerResult(s, row, url)
    PROVE  /\ server' = [server EXCEPT ![s] = server'[s]]
           /\ Follows(server'[s], server[s], serves, platform)
           /\ server'[s].generation = server[s].generation
<1>1. PICK old : old = server[s]
  OBVIOUS
<1>2. old \in Server /\ Sound(serves, old) /\ Fitting(platform, old)
  BY <1>1, StoredRows DEF ServersFit
<1>3. PICK new : new = [old EXCEPT !.token = TokenOf(row, url)]
  OBVIOUS
<1>4. /\ server' = [server EXCEPT ![s] = server'[s]]
      /\ server'[s] = IF old.generation = row.generation THEN new ELSE old
  <2>1. [old EXCEPT !.token = old.token] = old
    BY <1>2 DEF Server, Part
  <2>2. s \in DOMAIN server
    BY DEF ServersFit
  <2> QED
    BY <1>1, <1>3, <2>1, <2>2
    DEF SaveServerResult, SqliteSaveServerResult, D1SaveServerResult
<1>5. CASE old.generation # row.generation
  BY <1>1, <1>2, <1>4, <1>5, NothingFollowsItself
<1>6. CASE old.generation = row.generation
  <2>1. /\ old \in Part /\ old.generation \in 1 .. MaxServerGeneration
        /\ old.generation \in Nat /\ old.generation # 0
    BY <1>2, StoredRows, ServerBoundsAssumption DEF Server
  <2>2. PICK token : token = TokenOf(row, url)
    OBVIOUS
  <2>3. /\ token \in UpstreamToken /\ token.generation = old.generation
        /\ token.password = old.password /\ token.url \in Range(UrlsOf(old.endpoints))
    BY <1>1, <1>6, <2>1, <2>2 DEF TokenOf, UpstreamToken
  <2>4. /\ new \in Part /\ new.token = token
        /\ new.generation = old.generation /\ new.password = old.password
        /\ new.endpoints = old.endpoints /\ new.deleted = old.deleted
        /\ new.base = old.base /\ new.catalog = old.catalog /\ new.health = old.health
    BY <1>3, <2>1, <2>2, <2>3 DEF Part
  <2>5. new \in Server
    BY <1>2, <2>4 DEF Server
  <2>6. Sound(serves, new)
    BY <1>2, <2>4 DEF Sound
  <2>7. Fitting(platform, new)
    BY <1>1, <1>6, <2>3, <2>4 DEF Fitting
  <2>8. Agrees(old, new)
    BY <2>1, <2>4 DEF Agrees
  <2> QED
    BY <1>1, <1>4, <1>6, <2>4, <2>5, <2>6, <2>7, <2>8 DEF Follows
<1> QED
  BY <1>5, <1>6

\* saveServerConfiguration: the row is saved over one of the generation expected.
LEMMA ConfigurationsFit ==
    ASSUME ServersFit(server, serves, platform), platform \in {"sqlite", "d1"},
           NEW s \in Servers, NEW generation, NEW row \in Server,
           Sound(serves, row),
           server[s].generation = generation =>
               /\ ~server[s].deleted
               /\ Fitting(platform, [row EXCEPT !.deleted = FALSE])
               /\ Agrees(server[s], [row EXCEPT !.deleted = FALSE]),
           SaveServerConfiguration(s, generation, row)
    PROVE  /\ server' = [server EXCEPT ![s] = server'[s]]
           /\ Follows(server'[s], server[s], serves, platform)
<1>1. PICK old : old = server[s]
  OBVIOUS
<1>2. old \in Server \cup {NoServer} /\ Sound(serves, old) /\ Fitting(platform, old)
  BY <1>1 DEF ServersFit
<1>3. PICK new : new = [row EXCEPT !.deleted = old.deleted]
  OBVIOUS
<1>4. /\ server' = [server EXCEPT ![s] = server'[s]]
      /\ \/ server'[s] = old
         \/ old.generation = generation /\ server'[s] = new
  <2>1. PICK replaced : replaced = IF old.generation = generation
                                   THEN [old EXCEPT !.endpoints = row.endpoints] ELSE old
    OBVIOUS
  <2>2. /\ replaced.generation = old.generation /\ replaced.deleted = old.deleted
        /\ old.generation = generation => replaced.endpoints = row.endpoints
        /\ old.generation # generation => replaced = old
    BY <1>2, <2>1, StoredRows DEF Part
  <2>3. [row EXCEPT !.deleted = old.deleted, !.endpoints = row.endpoints] = new
    BY <1>3 DEF Server, Part
  <2>4. D1SaveServerConfiguration(s, generation, row) \in {old, new}
    BY <1>1, <2>1, <2>2, <2>3 DEF D1SaveServerConfiguration
  <2>5. old.generation # generation => D1SaveServerConfiguration(s, generation, row) = old
    BY <1>1, <2>1, <2>2 DEF D1SaveServerConfiguration
  <2>6. s \in DOMAIN server
    BY DEF ServersFit
  <2> QED
    BY <1>1, <1>3, <2>4, <2>5, <2>6 DEF SaveServerConfiguration, SqliteSaveServerConfiguration
<1>5. CASE server'[s] = old
  BY <1>1, <1>2, <1>4, <1>5, NothingFollowsItself
<1>6. CASE old.generation = generation /\ server'[s] = new
  <2>1. /\ ~old.deleted /\ Fitting(platform, [row EXCEPT !.deleted = FALSE])
        /\ Agrees(old, [row EXCEPT !.deleted = FALSE])
    BY <1>1, <1>6
  <2>2. old.deleted \in BOOLEAN
    BY <1>2, StoredRows DEF Part
  <2>3. old.deleted = FALSE
    BY <2>1, <2>2
  <2>4. new = [row EXCEPT !.deleted = FALSE]
    BY <1>3, <2>3
  <2>5. /\ new \in Server /\ new.endpoints = row.endpoints /\ new.base = row.base
        /\ new.health = row.health /\ new.catalog = row.catalog
    BY <2>4 DEF Server, Part
  <2>6. Sound(serves, new)
    BY <2>5 DEF Sound
  <2> QED
    BY <1>1, <1>4, <1>6, <2>1, <2>4, <2>5, <2>6 DEF Follows
<1> QED
  BY <1>4, <1>5, <1>6

-----------------------------------------------------------------------------
(* Rows that are created and edited                                        *)

\* A list of endpoints that has the URLs of another.
LEMMA EndpointsListed ==
    ASSUME NEW urls \in Seq(Urls), NEW list, list = [i \in DOMAIN urls |-> list[i]],
           \A i \in DOMAIN urls : list[i] \in Endpoint /\ list[i].url = urls[i]
    PROVE  /\ list \in Seq(Endpoint) /\ UrlsOf(list) = urls
           /\ DOMAIN list = 1 .. Len(urls) /\ Len(list) = Len(urls)
           /\ DOMAIN urls = 1 .. Len(urls) /\ Len(urls) \in Nat
           /\ IsInjective(urls) => Injective(list)
           /\ list = <<>> <=> urls = <<>>
<1>1. DOMAIN urls = 1 .. Len(urls) /\ Len(urls) \in Nat
  BY LenProperties
<1>2. list \in Seq(Endpoint) /\ Len(list) = Len(urls) /\ DOMAIN list = 1 .. Len(urls)
  BY <1>1, ListOf
<1>3. UrlsOf(list) = urls
  <2>1. PICK found : found = UrlsOf(list)
    OBVIOUS
  <2>2. found = [i \in DOMAIN urls |-> urls[i]]
    BY <1>1, <1>2, <2>1 DEF UrlsOf
  <2>3. urls = [i \in DOMAIN urls |-> urls[i]]
    BY <1>1, LenProperties
  <2> QED
    BY <2>1, <2>2, <2>3
<1>4. IsInjective(urls) => Injective(list)
  BY <1>1, <1>2 DEF IsInjective, Injective
<1>5. list = <<>> <=> urls = <<>>
  BY <1>2, EmptySeq, SeqEqual
<1> QED
  BY <1>1, <1>2, <1>3, <1>4, <1>5

LEMMA FreshEndpoints ==
    ASSUME NEW url \in Urls
    PROVE  /\ Fresh(url) \in Endpoint /\ Fresh(url).url = url
           /\ Fresh(url).catalog = None /\ Fresh(url).health = "unknown"
BY DEF Fresh, Endpoint, Healths

\* A server that was just created.
LEMMA NewServersFit ==
    ASSUME NEW edit \in Edits, NEW world, NEW deployed
    PROVE  LET row == NewServer(edit) IN
           /\ row \in Server /\ row.generation = 1 /\ row.password = edit.password
           /\ UrlsOf(row.endpoints) = edit.urls /\ row.token = NoToken
           /\ row.endpoints = [i \in DOMAIN edit.urls |-> Fresh(edit.urls[i])]
           /\ Sound(world, row) /\ Fitting(deployed, row)
<1>1. /\ edit.urls # <<>> /\ edit.urls \in Seq(Urls) /\ IsInjective(edit.urls)
      /\ edit.password \in UpstreamPasswords /\ edit.enabled \in BOOLEAN
  BY EditsAssumption
<1>2. PICK list : list = [i \in DOMAIN edit.urls |-> Fresh(edit.urls[i])]
  OBVIOUS
<1>3. \A i \in DOMAIN edit.urls : edit.urls[i] \in Urls
  BY <1>1, ElementOfSeq, LenProperties
<1>4. /\ list = [i \in DOMAIN edit.urls |-> list[i]]
      /\ \A i \in DOMAIN edit.urls : /\ list[i] \in Endpoint /\ list[i].url = edit.urls[i]
                                     /\ list[i].catalog = None /\ list[i].health = "unknown"
  BY <1>2, <1>3, FreshEndpoints
<1>5. /\ list \in Seq(Endpoint) /\ UrlsOf(list) = edit.urls /\ Injective(list)
      /\ list # <<>> /\ DOMAIN list = DOMAIN edit.urls
  BY <1>1, <1>4, EndpointsListed
<1>6. PICK row : row = NewServer(edit)
  OBVIOUS
<1>7. /\ row.generation = 1 /\ row.password = edit.password /\ row.endpoints = list
      /\ row.token = NoToken /\ row.health = "unknown" /\ row.deleted = FALSE
      /\ row.catalog = None /\ row.base = None
  BY <1>2, <1>6 DEF NewServer, NoServer
<1>8. row \in Part
  <2>1. row = [generation |-> 1, endpoints |-> list, password |-> edit.password,
               enabled |-> edit.enabled, deleted |-> FALSE, catalog |-> None,
               base |-> None, token |-> NoToken, health |-> "unknown"]
    BY <1>2, <1>6 DEF NewServer, NoServer
  <2>2. 1 \in 0 .. MaxServerGeneration
    BY ServerBoundsAssumption
  <2> QED
    BY <1>1, <1>5, <2>1, <2>2 DEF Part, Healths
<1>9. row \in Server
  BY <1>1, <1>5, <1>7, <1>8, NoneAssumption DEF Server
<1>10. Sound(world, row)
  BY <1>4, <1>5, <1>7 DEF Sound, Truthful
<1>11. Fitting(deployed, row)
  BY <1>7 DEF Fitting
<1> QED
  BY <1>2, <1>5, <1>6, <1>7, <1>9, <1>10, <1>11

\* The endpoint of a URL is one of the row's.
LEMMA EndpointsFound ==
    ASSUME NEW row \in Part, NEW url \in Range(UrlsOf(row.endpoints))
    PROVE  /\ EndpointAt(row, url).url = url
           /\ \E i \in DOMAIN row.endpoints : EndpointAt(row, url) = row.endpoints[i]
<1>1. PICK list : list = row.endpoints
  OBVIOUS
<1>2. \E i \in DOMAIN list : list[i].url = url
  BY <1>1 DEF Range, UrlsOf
<1>3. \E e \in Range(list) : e.url = url
  BY <1>2 DEF Range
<1>4. EndpointAt(row, url) \in Range(list) /\ EndpointAt(row, url).url = url
  BY <1>1, <1>3 DEF EndpointAt
<1> QED
  BY <1>1, <1>4 DEF Range

\* The row that an edit shall save.
LEMMA CandidatesFit ==
    ASSUME NEW row \in Server, NEW edit \in Edits, NEW world, NEW deployed,
           Sound(world, row), Fitting(deployed, row),
           GenerationOf(row, edit) <= MaxServerGeneration
    PROVE  LET next == Candidate(row, edit) IN
           /\ next \in Server /\ Sound(world, next) /\ Fitting(deployed, next)
           /\ next.catalog = row.catalog /\ next.base = row.base
           /\ row.generation <= next.generation
           /\ row.generation = next.generation =>
                  /\ row.password = next.password
                  /\ UrlsOf(row.endpoints) = UrlsOf(next.endpoints)
<1>1. /\ edit.urls # <<>> /\ edit.urls \in Seq(Urls) /\ IsInjective(edit.urls)
      /\ edit.password \in UpstreamPasswords /\ edit.enabled \in BOOLEAN
  BY EditsAssumption
<1>2. /\ row \in Part /\ row.endpoints \in Seq(Endpoint)
      /\ row.generation \in 1 .. MaxServerGeneration /\ row.generation \in Nat
      /\ MaxServerGeneration \in Nat
  BY StoredRows, ServerBoundsAssumption DEF Server
<1>3. PICK generation : generation = GenerationOf(row, edit)
  OBVIOUS
<1>4. /\ generation \in {row.generation, row.generation + 1}
      /\ generation \in 1 .. MaxServerGeneration
      /\ generation = row.generation => /\ edit.urls = UrlsOf(row.endpoints)
                                        /\ edit.password = row.password
  BY <1>2, <1>3 DEF GenerationOf
<1>5. PICK list : list = Kept(row, edit.urls)
  OBVIOUS
<1>6. \A i \in DOMAIN edit.urls : edit.urls[i] \in Urls
  BY <1>1, ElementOfSeq, LenProperties
<1>7. \A i \in DOMAIN row.endpoints : row.endpoints[i] \in Endpoint
  BY <1>2, ElementOfSeq, LenProperties
<1>8. ASSUME NEW i \in DOMAIN edit.urls
      PROVE  /\ list[i] \in Endpoint /\ list[i].url = edit.urls[i]
             /\ Truthful(world, list[i], row.base)
             /\ edit.urls[i] \in Range(UrlsOf(row.endpoints)) =>
                    \E j \in DOMAIN row.endpoints : list[i] = row.endpoints[j]
  <2>1. PICK url : url = edit.urls[i] /\ url \in Urls
    BY <1>6, <1>8
  <2>2. list[i] = IF url \in Range(UrlsOf(row.endpoints)) THEN EndpointAt(row, url)
                  ELSE Fresh(url)
    BY <1>5, <1>8, <2>1 DEF Kept
  <2>3. CASE url \in Range(UrlsOf(row.endpoints))
    <3>1. PICK j \in DOMAIN row.endpoints : list[i] = row.endpoints[j]
      BY <1>2, <2>2, <2>3, EndpointsFound
    <3>2. list[i].url = url
      BY <1>2, <2>2, <2>3, EndpointsFound
    <3>3. list[i] \in Endpoint /\ Truthful(world, list[i], row.base)
      BY <1>7, <3>1 DEF Sound
    <3> QED
      BY <2>1, <3>1, <3>2, <3>3
  <2>4. CASE url \notin Range(UrlsOf(row.endpoints))
    BY <2>1, <2>2, <2>4, FreshEndpoints DEF Truthful
  <2> QED
    BY <2>3, <2>4
<1>9. list = [i \in DOMAIN edit.urls |-> list[i]]
  BY <1>5 DEF Kept
<1>10. /\ list \in Seq(Endpoint) /\ UrlsOf(list) = edit.urls /\ Injective(list)
       /\ list # <<>> /\ DOMAIN list = DOMAIN edit.urls
  BY <1>1, <1>8, <1>9, EndpointsListed
<1>11. generation = row.generation => list = row.endpoints
  <2>1. SUFFICES ASSUME generation = row.generation PROVE list = row.endpoints
    OBVIOUS
  <2>2. edit.urls = UrlsOf(row.endpoints)
    BY <1>4, <2>1
  <2>3. PICK old : old = row.endpoints
    OBVIOUS
  <2>4. /\ DOMAIN old = DOMAIN edit.urls /\ \A i \in DOMAIN old : old[i].url = edit.urls[i]
    BY <2>2, <2>3 DEF UrlsOf
  <2>5. ASSUME NEW i \in DOMAIN old PROVE list[i] = old[i]
    <3>1. edit.urls[i] \in Range(UrlsOf(row.endpoints))
      BY <2>2, <2>4, <2>5 DEF Range
    <3>2. PICK j \in DOMAIN old : list[i] = old[j]
      BY <1>8, <2>3, <2>4, <2>5, <3>1
    <3>3. old[j].url = old[i].url
      BY <1>8, <2>4, <2>5, <3>2
    <3> QED
      BY <2>3, <2>5, <3>2, <3>3 DEF Sound, Injective
  <2>6. old = [i \in DOMAIN old |-> old[i]]
    BY <1>2, <2>3, LenProperties
  <2> QED
    BY <1>9, <2>3, <2>4, <2>5, <2>6
<1>12. PICK next : next = Candidate(row, edit)
  OBVIOUS
<1>13. /\ next \in Part
       /\ next.generation = generation /\ next.endpoints = list
       /\ next.password = edit.password
       /\ next.catalog = row.catalog /\ next.base = row.base /\ next.deleted = row.deleted
       /\ generation = row.generation => next.token = row.token /\ next.health = row.health
       /\ generation # row.generation => next.token = NoToken /\ next.health = "unknown"
  <2>1. PICK edited : edited = [row EXCEPT !.endpoints = list,
                                    !.password = edit.password, !.enabled = edit.enabled,
                                    !.generation = generation]
    OBVIOUS
  <2>2. /\ edited \in Part
        /\ edited.generation = generation /\ edited.endpoints = list
        /\ edited.password = edit.password /\ edited.token = row.token
        /\ edited.health = row.health
        /\ edited.catalog = row.catalog /\ edited.base = row.base
        /\ edited.deleted = row.deleted
    <3>1. edited = [generation |-> generation, endpoints |-> list,
                    password |-> edit.password, enabled |-> edit.enabled,
                    deleted |-> row.deleted, catalog |-> row.catalog, base |-> row.base,
                    token |-> row.token, health |-> row.health]
      BY <1>2, <2>1 DEF Part
    <3>2. generation \in 0 .. MaxServerGeneration
      BY <1>2, <1>4
    <3> QED
      BY <1>1, <1>2, <1>10, <3>1, <3>2 DEF Part
  <2>3. next = IF generation = row.generation THEN edited
               ELSE [edited EXCEPT !.token = NoToken, !.health = "unknown"]
    BY <1>3, <1>5, <1>12, <2>1 DEF Candidate
  <2> QED
    BY <2>2, <2>3 DEF Part, Healths
<1>14. next \in Server
  BY <1>1, <1>4, <1>10, <1>13, NoneAssumption DEF Server
<1>15. Sound(world, next)
  <2>1. next.health = "healthy" => SomeServes(list, next.catalog)
    BY <1>11, <1>13 DEF Sound
  <2> QED
    BY <1>8, <1>10, <1>13, <2>1 DEF Sound
<1>16. Fitting(deployed, next)
  BY <1>4, <1>10, <1>13 DEF Fitting
<1>17. /\ row.generation <= next.generation
       /\ row.generation = next.generation =>
              /\ row.password = next.password
              /\ UrlsOf(row.endpoints) = UrlsOf(next.endpoints)
  BY <1>2, <1>4, <1>10, <1>13
<1> QED
  BY <1>12, <1>13, <1>14, <1>15, <1>16, <1>17

\* The row that it saves, when its new endpoints have been probed.
LEMMA VerifiedRowsFit ==
    ASSUME NEW next \in Server, NEW row \in Server, NEW world,
           Sound(world, next), next.catalog = row.catalog, NEW answering,
           \A url \in answering : row.catalog # None /\ world[url] = row.catalog
    PROVE  LET saved == [next EXCEPT !.endpoints = Verified(row, next.endpoints, answering)] IN
           /\ saved \in Server /\ Sound(world, saved)
           /\ UrlsOf(saved.endpoints) = UrlsOf(next.endpoints)
           /\ saved.generation = next.generation /\ saved.password = next.password
           /\ saved.token = next.token /\ saved.deleted = next.deleted
<1>1. PICK old, list : old = next.endpoints /\ list = Verified(row, next.endpoints, answering)
  OBVIOUS
<1>2. /\ next \in Part /\ row \in Part /\ old \in Seq(Endpoint) /\ old # <<>>
      /\ row.catalog \in Catalogs \cup {None}
  BY <1>1, StoredRows DEF Server, Part
<1>3. \A i \in DOMAIN old : old[i] \in Endpoint
  BY <1>2, ElementOfSeq, LenProperties
<1>4. list = [i \in DOMAIN old |-> IF old[i].url \in answering
                                   THEN [old[i] EXCEPT !.catalog = row.catalog, !.health = "healthy"]
                                   ELSE old[i]]
  BY <1>1 DEF Verified
<1>5. ASSUME NEW i \in DOMAIN old
      PROVE  /\ list[i] \in Endpoint /\ list[i].url = old[i].url
             /\ Truthful(world, list[i], next.base)
             /\ \/ list[i] = old[i]
                \/ list[i].health = "healthy" /\ list[i].catalog = row.catalog
  <2>1. PICK e : e = old[i] /\ e \in Endpoint /\ Truthful(world, e, next.base)
    BY <1>1, <1>3, <1>5 DEF Sound
  <2>2. CASE e.url \in answering
    <3>1. list[i] = [e EXCEPT !.catalog = row.catalog, !.health = "healthy"]
      BY <1>4, <1>5, <2>1, <2>2
    <3>2. /\ list[i] \in Endpoint /\ list[i].url = e.url
          /\ list[i].health = "healthy" /\ list[i].catalog = row.catalog
      BY <1>2, <2>1, <3>1 DEF Endpoint, Healths
    <3> QED
      BY <2>1, <2>2, <3>2 DEF Truthful
  <2>3. CASE e.url \notin answering
    BY <1>4, <1>5, <2>1, <2>3
  <2> QED
    BY <2>2, <2>3
<1>6. PICK urls : urls = UrlsOf(old)
  OBVIOUS
<1>7. /\ urls \in Seq(Urls) /\ DOMAIN urls = DOMAIN old
      /\ \A i \in DOMAIN old : urls[i] = old[i].url
      /\ urls # <<>>
  <2>1. \A e \in Endpoint : e.url \in Urls
    BY DEF Endpoint
  <2> QED
    BY <1>2, <1>6, <2>1, UrlsAreListed
<1>8. list = [i \in DOMAIN urls |-> list[i]]
  BY <1>4, <1>7
<1>9. IsInjective(urls)
  BY <1>1, <1>7 DEF Sound, Injective, IsInjective
<1>10. /\ list \in Seq(Endpoint) /\ UrlsOf(list) = urls /\ Injective(list) /\ list # <<>>
       /\ DOMAIN list = DOMAIN old
  <2>1. \A i \in DOMAIN urls : list[i] \in Endpoint /\ list[i].url = urls[i]
    BY <1>5, <1>7
  <2>2. DOMAIN list = 1 .. Len(urls) /\ DOMAIN urls = 1 .. Len(urls)
    BY <1>7, <1>8, <2>1, EndpointsListed
  <2> QED
    BY <1>7, <1>8, <1>9, <2>1, <2>2, EndpointsListed
<1>11. PICK saved : saved = [next EXCEPT !.endpoints = list]
  OBVIOUS
<1>12. /\ saved \in Part /\ saved.endpoints = list
       /\ saved.generation = next.generation /\ saved.password = next.password
       /\ saved.token = next.token /\ saved.deleted = next.deleted
       /\ saved.health = next.health /\ saved.catalog = next.catalog /\ saved.base = next.base
  BY <1>2, <1>10, <1>11 DEF Part
<1>13. saved \in Server
  BY <1>10, <1>12 DEF Server
<1>14. next.health = "healthy" => SomeServes(list, next.catalog)
  BY <1>1, <1>5, <1>10 DEF Sound, SomeServes
<1>15. Sound(world, saved)
  BY <1>5, <1>10, <1>12, <1>14 DEF Sound
<1> QED
  BY <1>1, <1>6, <1>10, <1>11, <1>12, <1>13, <1>15

-----------------------------------------------------------------------------
(* Steps that create, edit and delete servers                              *)

\* What every step keeps of servers and handlers.
StepFits ==
    /\ ServersFit(server', serves, platform)
    /\ HandlersFit(handler', serves, platform, server')

LEMMA KnownFacts ==
    ASSUME ConfigurationInv
    PROVE  /\ platform \in {"sqlite", "d1"} /\ serves \in [Urls -> Catalogs \cup {Anonymous}]
           /\ ServersFit(server, serves, platform)
           /\ HandlersFit(handler, serves, platform, server)
           /\ \A s \in Servers :
                  /\ server[s] \in Server \cup {NoServer}
                  /\ server[s] \in Part /\ server[s].generation \in Nat
                  /\ Sound(serves, server[s]) /\ Fitting(platform, server[s])
                  /\ Found(s) => server[s] \in Server /\ ~server[s].deleted
           /\ \A f \in Handlers :
                  /\ handler[f] \in Handling
                  /\ Fits(handler[f], serves, platform, server[handler[f].server])
<1>1. platform \in {"sqlite", "d1"} /\ serves \in [Urls -> Catalogs \cup {Anonymous}]
  BY PlatformsAssumption, WorldsAssumption DEF ConfigurationInv, ConfigurationTypeOK
<1>2. /\ ServersFit(server, serves, platform)
      /\ HandlersFit(handler, serves, platform, server)
  BY DEF ConfigurationInv
<1>3. \A s \in Servers :
          /\ server[s] \in Server \cup {NoServer}
          /\ Sound(serves, server[s]) /\ Fitting(platform, server[s])
  BY <1>2 DEF ServersFit
<1>4. \A s \in Servers :
          /\ server[s] \in Part /\ server[s].generation \in Nat
          /\ Found(s) => server[s] \in Server /\ ~server[s].deleted
  BY <1>3, StoredRows DEF Found
<1> QED
  BY <1>1, <1>2, <1>3, <1>4 DEF HandlersFit

\* A step of a server's row alone.
LEMMA ServerStepFits ==
    ASSUME ConfigurationInv, NEW s \in Servers, NEW row,
           server' = [server EXCEPT ![s] = row], handler' = handler,
           Follows(row, server[s], serves, platform)
    PROVE  StepFits
BY KnownFacts, ServersMove DEF StepFits

\* A step of a row whose handler then responds.
LEMMA AnsweredStepFits ==
    ASSUME ConfigurationInv, NEW s \in Servers, NEW row, NEW f \in Handlers,
           server' = [server EXCEPT ![s] = row], Respond(f),
           Follows(row, server[s], serves, platform)
    PROVE  StepFits
BY KnownFacts, ServersMove, RespondingFits DEF StepFits

\* A step of a handler alone.
LEMMA HandlerStepFits ==
    ASSUME ConfigurationInv, NEW f \in Handlers, NEW h \in Handling, server' = server,
           handler' = [handler EXCEPT ![f] = h],
           Fits(h, serves, platform, server[h.server])
    PROVE  StepFits
BY KnownFacts, HandlersMove DEF StepFits

LEMMA ResponseStepFits ==
    ASSUME ConfigurationInv, NEW f \in Handlers, server' = server, Respond(f)
    PROVE  StepFits
BY KnownFacts, RespondingFits DEF StepFits

LEMMA CreatingFits ==
    ASSUME ConfigurationInv, NEW f \in Handlers, SqliteCreateServer(f) \/ D1CreateServer(f)
    PROVE  StepFits
<1>1. PICK s \in Servers, edit \in Edits :
          /\ server[s] = NoServer /\ handler' = handler
          /\ \/ server' = [server EXCEPT ![s] = NewServer(edit)]
             \/ server' = server
             \/ server' = [server EXCEPT ![s] = NoServer]
  <2>1. CASE SqliteCreateServer(f)
    BY <2>1 DEF SqliteCreateServer
  <2>2. CASE D1CreateServer(f)
    <3>1. PICK s \in Servers, edit \in Edits :
              LET new      == NewServer(edit)
                  inserted == IF BelowLimit THEN [new EXCEPT !.endpoints = <<>>] ELSE server[s]
              IN /\ server[s] = NoServer
                 /\ server' = [server EXCEPT ![s] =
                        IF inserted = NoServer THEN NoServer
                        ELSE [inserted EXCEPT !.endpoints = new.endpoints]]
      BY <2>2 DEF D1CreateServer
    <3>2. handler' = handler
      BY <2>2 DEF D1CreateServer
    <3>3. PICK new : new = NewServer(edit)
      OBVIOUS
    <3>4. new \in Part
      BY <3>3, NewServersFit DEF Server
    <3>5. [[new EXCEPT !.endpoints = <<>>] EXCEPT !.endpoints = new.endpoints] = new
      BY <3>4 DEF Part
    <3>6. \/ server' = [server EXCEPT ![s] = NewServer(edit)]
          \/ server' = [server EXCEPT ![s] = NoServer]
      BY <3>1, <3>3, <3>5
    <3> QED
      BY <3>1, <3>2, <3>6
  <2> QED
    BY <2>1, <2>2
<1>2. CASE server' = [server EXCEPT ![s] = NewServer(edit)]
  <2>1. PICK new : new = NewServer(edit)
    OBVIOUS
  <2>2. /\ new \in Server /\ new.generation = 1
        /\ Sound(serves, new) /\ Fitting(platform, new)
    BY <2>1, NewServersFit
  <2>3. Agrees(NoServer, new)
    BY <2>2 DEF Agrees, NoServer
  <2> QED
    BY <1>1, <1>2, <2>1, <2>2, <2>3, ServerStepFits DEF Follows
<1>3. CASE server' = [server EXCEPT ![s] = NoServer]
  BY <1>1, <1>3, KnownFacts, NothingFollowsItself, ServerStepFits
<1>4. CASE server' = server
  BY <1>1, <1>4, KnownFacts DEF StepFits
<1> QED
  BY <1>1, <1>2, <1>3, <1>4

LEMMA DeletingFits ==
    ASSUME ConfigurationInv, NEW f \in Handlers, DeleteServer(f)
    PROVE  StepFits
<1>1. PICK s \in Servers :
          /\ Found(s) /\ server[s].generation < MaxServerGeneration
          /\ server' = [server EXCEPT ![s].deleted = TRUE, ![s].enabled = FALSE,
                            ![s].health = "unknown", ![s].token = NoToken,
                            ![s].generation = @ + 1]
  BY DEF DeleteServer
<1>2. PICK old : old = server[s]
  OBVIOUS
<1>3. /\ old \in Part /\ old \in Server /\ old.generation \in 1 .. MaxServerGeneration
      /\ old.generation \in Nat /\ MaxServerGeneration \in Nat
      /\ Sound(serves, old) /\ s \in DOMAIN server
  BY <1>1, <1>2, KnownFacts, StoredRows, ServerBoundsAssumption DEF Server, ServersFit
<1>4. PICK row : row = [old EXCEPT !.deleted = TRUE, !.enabled = FALSE, !.health = "unknown",
                                   !.token = NoToken, !.generation = old.generation + 1]
  OBVIOUS
<1>5. server' = [server EXCEPT ![s] = row]
  BY <1>1, <1>2, <1>3, <1>4
<1>6. /\ row.generation = old.generation + 1 /\ row.endpoints = old.endpoints
      /\ row.password = old.password /\ row.token = NoToken /\ row.health = "unknown"
      /\ row.base = old.base /\ row.catalog = old.catalog
  BY <1>3, <1>4 DEF Part
<1>7. row \in Part
  <2>1. row = [generation |-> old.generation + 1, endpoints |-> old.endpoints,
               password |-> old.password, enabled |-> FALSE, deleted |-> TRUE,
               catalog |-> old.catalog, base |-> old.base, token |-> NoToken,
               health |-> "unknown"]
    BY <1>3, <1>4 DEF Part
  <2>2. old.generation + 1 \in 0 .. MaxServerGeneration
    BY <1>1, <1>2, <1>3
  <2> QED
    BY <1>3, <2>1, <2>2 DEF Part, Healths
<1>8. row \in Server
  BY <1>3, <1>6, <1>7 DEF Server
<1>9. Sound(serves, row)
  BY <1>3, <1>6 DEF Sound
<1>10. Fitting(platform, row) /\ Agrees(old, row)
  BY <1>3, <1>6 DEF Fitting, Agrees
<1>11. handler' = handler
  BY DEF DeleteServer
<1> QED
  BY <1>2, <1>5, <1>8, <1>9, <1>10, <1>11, ServerStepFits DEF Follows

LEMMA BeginningAnEditFits ==
    ASSUME ConfigurationInv, NEW f \in Handlers, BeginServerEdit(f)
    PROVE  StepFits
<1>1. PICK s \in Servers, edit \in Edits :
          /\ Found(s) /\ GenerationOf(server[s], edit) <= MaxServerGeneration
          /\ handler' = [handler EXCEPT ![f] = [Unoccupied EXCEPT
                 !.pc = "save", !.kind = "edit", !.server = s, !.row = server[s],
                 !.next = Candidate(server[s], edit)]]
  BY DEF BeginServerEdit
<1>2. PICK row, next : row = server[s] /\ next = Candidate(row, edit)
  OBVIOUS
<1>3. /\ row \in Server /\ row \in Part /\ ~row.deleted /\ row.generation \in Nat
      /\ Sound(serves, row) /\ Fitting(platform, row)
  BY <1>1, <1>2, KnownFacts
<1>4. /\ next \in Server /\ Sound(serves, next) /\ Fitting(platform, next)
      /\ next.catalog = row.catalog /\ next.base = row.base
      /\ row.generation <= next.generation
      /\ row.generation = next.generation =>
             /\ row.password = next.password
             /\ UrlsOf(row.endpoints) = UrlsOf(next.endpoints)
  BY <1>1, <1>2, <1>3, CandidatesFit
<1>5. PICK h : h = [Unoccupied EXCEPT !.pc = "save", !.kind = "edit", !.server = s,
                                      !.row = row, !.next = next]
  OBVIOUS
<1>6. Unoccupied \in Handling
  BY UnoccupiedFits
<1>7. /\ h.pc = "save" /\ h.kind = "edit" /\ h.server = s /\ h.row = row /\ h.next = next
      /\ h \in Handling
  BY <1>3, <1>4, <1>5, <1>6 DEF Handling, HandlerSteps, RequestKinds, Server
<1>8. EditFits(h, serves, platform, row)
  BY <1>3, <1>4, <1>7 DEF EditFits, Agrees
<1>9. Fits(h, serves, platform, row)
  BY <1>7, <1>8 DEF Fits, TestFits, Tests, VerifyFits, SaveTestFits, AskFits,
                    RequestFits, Requests, LibraryFits
<1>10. server' = server
  BY DEF BeginServerEdit
<1> QED
  BY <1>1, <1>2, <1>5, <1>7, <1>9, <1>10, HandlerStepFits

LEMMA SavingAnEditFits ==
    ASSUME ConfigurationInv, NEW f \in Handlers, SaveEdit(f)
    PROVE  StepFits
<1>1. PICK h, s : h = handler[f] /\ s = h.server
  OBVIOUS
<1>2. /\ h.pc = "save" /\ h.kind = "edit" /\ h \in Handling
      /\ EditFits(h, serves, platform, server[s])
  BY <1>1, KnownFacts DEF SaveEdit, Stands, Fits
<1>3. /\ s \in Servers /\ h.row \in Server /\ h.next \in Server
      /\ Sound(serves, h.row) /\ Sound(serves, h.next) /\ Fitting(platform, h.next)
      /\ Agrees(h.row, server[s]) /\ ~h.row.deleted
      /\ h.next.catalog = h.row.catalog /\ h.next.base = h.row.base
      /\ h.row.generation <= h.next.generation
      /\ h.row.generation = h.next.generation =>
             /\ h.row.password = h.next.password
             /\ UrlsOf(h.row.endpoints) = UrlsOf(h.next.endpoints)
  BY <1>1, <1>2 DEF EditFits
<1>4. CASE server' = server
  BY <1>4, ResponseStepFits DEF SaveEdit
<1>5. CASE server' # server
  <2>1. PICK answering :
            /\ \A url \in answering : h.row.catalog # None /\ serves[url] = h.row.catalog
            /\ SaveServerConfiguration(s, h.row.generation,
                   [h.next EXCEPT !.endpoints = Verified(h.row, h.next.endpoints, answering)])
    BY <1>1, <1>5 DEF SaveEdit
  <2>2. PICK saved :
            saved = [h.next EXCEPT !.endpoints = Verified(h.row, h.next.endpoints, answering)]
    OBVIOUS
  <2>3. /\ saved \in Server /\ Sound(serves, saved)
        /\ UrlsOf(saved.endpoints) = UrlsOf(h.next.endpoints)
        /\ saved.generation = h.next.generation /\ saved.password = h.next.password
        /\ saved.token = h.next.token /\ saved.deleted = h.next.deleted
    BY <1>3, <2>1, <2>2, VerifiedRowsFit
  <2>4. PICK row : row = [saved EXCEPT !.deleted = FALSE]
    OBVIOUS
  <2>5. /\ row.endpoints = saved.endpoints /\ row.generation = saved.generation
        /\ row.password = saved.password /\ row.token = saved.token /\ row.deleted = FALSE
    BY <2>3, <2>4 DEF Server, Part
  <2>6. Fitting(platform, row)
    BY <1>3, <2>3, <2>5 DEF Fitting
  <2>7. ASSUME server[s].generation = h.row.generation
        PROVE  ~server[s].deleted /\ Agrees(server[s], row)
    <3>1. server[s].deleted \in BOOLEAN /\ h.row.deleted \in BOOLEAN
      BY <1>3, KnownFacts DEF Server, Part
    <3>2. /\ h.row.password = server[s].password /\ h.row.deleted = server[s].deleted
          /\ UrlsOf(h.row.endpoints) = UrlsOf(server[s].endpoints)
      BY <1>3, <2>7 DEF Agrees
    <3>3. server[s].deleted = FALSE
      BY <1>3, <3>1, <3>2
    <3> QED
      BY <1>3, <2>3, <2>5, <2>7, <3>2, <3>3 DEF Agrees
  <2>8. /\ server' = [server EXCEPT ![s] = server'[s]]
        /\ Follows(server'[s], server[s], serves, platform)
    BY <1>3, <2>1, <2>2, <2>3, <2>4, <2>6, <2>7, KnownFacts, ConfigurationsFit
  <2> QED
    BY <1>3, <2>8, AnsweredStepFits DEF SaveEdit
<1> QED
  BY <1>4, <1>5

-----------------------------------------------------------------------------
(* Steps that test a connection                                            *)

LEMMA BeginningATestFits ==
    ASSUME ConfigurationInv, NEW f \in Handlers, BeginTest(f)
    PROVE  StepFits
<1>1. PICK s \in Servers :
          /\ Found(s)
          /\ handler' = [handler EXCEPT ![f] = [Unoccupied EXCEPT
                 !.pc = "probe", !.kind = "test", !.server = s,
                 !.generation = server[s].generation,
                 !.next = [NoServer EXCEPT !.endpoints = server[s].endpoints,
                               !.catalog = server[s].catalog, !.base = server[s].base],
                 !.named = server[s].catalog # None,
                 !.rest = UrlsOf(server[s].endpoints)]]
  BY DEF BeginTest
<1>2. PICK row, list, urls, named :
          /\ row = server[s] /\ list = row.endpoints /\ urls = UrlsOf(list)
          /\ named \in BOOLEAN /\ (named <=> row.catalog # None)
  OBVIOUS
<1>3. /\ row \in Server /\ row \in Part /\ row.generation \in Nat /\ row.generation # 0
      /\ row.generation \in 0 .. MaxServerGeneration
      /\ Sound(serves, row) /\ list \in Seq(Endpoint) /\ list # <<>>
  BY <1>1, <1>2, KnownFacts, StoredRows DEF Server
<1>4. /\ urls \in Seq(Urls) /\ Len(urls) = Len(list) /\ Len(list) \in Nat
      /\ urls # <<>> /\ \A i \in 1 .. Len(list) : urls[i] = list[i].url
  <2>1. \A e \in Endpoint : e.url \in Urls
    BY DEF Endpoint
  <2> QED
    BY <1>2, <1>3, <2>1, UrlsAreListed
<1>5. PICK next : next = [NoServer EXCEPT !.endpoints = list,
                                          !.catalog = row.catalog, !.base = row.base]
  OBVIOUS
<1>6. /\ next \in Part /\ next.endpoints = list /\ next.catalog = row.catalog
      /\ next.base = row.base
  <2>1. NoServer \in Part
    BY StoredRows
  <2> QED
    BY <1>3, <1>5, <2>1 DEF Part
<1>7. PICK h : h = [Unoccupied EXCEPT !.pc = "probe", !.kind = "test", !.server = s,
                        !.generation = row.generation, !.next = next, !.named = named,
                        !.rest = urls]
  OBVIOUS
<1>8. Unoccupied \in Handling /\ Unoccupied.seen = <<>>
  BY UnoccupiedFits DEF Unoccupied
<1>9. /\ h.pc = "probe" /\ h.kind = "test" /\ h.server = s /\ h.next = next
      /\ h.generation = row.generation /\ h.rest = urls /\ h.seen = <<>>
      /\ h \in Handling
  BY <1>2, <1>3, <1>4, <1>6, <1>7, <1>8 DEF Handling, HandlerSteps, RequestKinds
<1>10. ListsFit(h, serves)
  <2>1. Len(h.seen) = 0
    BY <1>9, EmptySeq
  <2>2. \A i \in DOMAIN list : list[i].catalog # None => serves[list[i].url] = list[i].catalog
    BY <1>2, <1>3 DEF Sound, Truthful
  <2>3. Injective(list)
    BY <1>2, <1>3 DEF Sound
  <2> QED
    BY <1>3, <1>4, <1>6, <1>9, <2>1, <2>2, <2>3 DEF ListsFit
<1>11. TestFits(h, serves, row)
  BY <1>2, <1>3, <1>4, <1>6, <1>9, <1>10 DEF TestFits
<1>12. Fits(h, serves, platform, row)
  BY <1>9, <1>11 DEF Fits, EditFits, VerifyFits, SaveTestFits, AskFits,
                     RequestFits, Requests, LibraryFits
<1>13. handler' = [handler EXCEPT ![f] = h]
  <2>1. named = (row.catalog # None)
    BY <1>2
  <2> QED
    BY <1>1, <1>2, <1>5, <1>7, <2>1
<1>14. server' = server
  BY DEF BeginTest
<1> QED
  BY <1>2, <1>9, <1>12, <1>13, <1>14, HandlerStepFits

\* What a test may say of the endpoint it has come to, with the catalog and the
\* base it then compares with.
ProbeFits(h, world, endpoint, catalog, base) ==
    /\ endpoint \in Endpoint /\ endpoint.url = Head(h.rest)
    /\ catalog \in Catalogs \cup {None} /\ base \in Urls \cup {None}
    /\ Truthful(world, endpoint, base)
    /\ h.next.base # None => base = h.next.base
    /\ endpoint.health = "healthy" => endpoint.catalog = catalog
    /\ catalog # h.next.catalog => endpoint.health = "healthy"

\* What its handler holds then.
IsProbed(h, endpoint, catalog, base, g) ==
    /\ g.kind = h.kind /\ g.server = h.server /\ g.generation = h.generation
    /\ g.rest = Tail(h.rest) /\ g.seen = Append(h.seen, endpoint)
    /\ g.next.endpoints = h.next.endpoints
    /\ g.next.catalog = catalog /\ g.next.base = base
    /\ g.pc = IF Tail(h.rest) = <<>> THEN "latest" ELSE "probe"

LEMMA ProbedEndpointsFit ==
    ASSUME NEW h \in Handling, NEW world, NEW deployed, NEW present,
           h.pc \in {"probe", "verify"}, TestFits(h, world, present),
           NEW endpoint, NEW catalog, NEW base, ProbeFits(h, world, endpoint, catalog, base),
           NEW g, IsProbed(h, endpoint, catalog, base, g)
    PROVE  Fits(g, world, deployed, present)
<1>1. /\ h.kind = "test" /\ h.server \in Servers
      /\ h.generation \in 1 .. present.generation
      /\ h.generation = present.generation =>
             UrlsOf(h.next.endpoints) = UrlsOf(present.endpoints)
      /\ ListsFit(h, world) /\ h.rest # <<>>
  BY DEF TestFits, Tests
<1> USE DEF ProbeFits, IsProbed
<1>2. PICK rest, seen, list :
          /\ rest = Tail(h.rest) /\ seen = Append(h.seen, endpoint)
          /\ list = h.next.endpoints
  OBVIOUS
<1>3. /\ h.rest \in Seq(Urls) /\ h.seen \in Seq(Endpoint) /\ h.next \in Part
      /\ list \in Seq(Endpoint)
  BY <1>2 DEF Handling, Part
<1>4. /\ g.next.endpoints = list /\ g.next.catalog = catalog /\ g.next.base = base
      /\ g.rest = rest /\ g.seen = seen
  BY <1>2
<1>5. /\ rest \in Seq(Urls) /\ Len(h.rest) \in Nat /\ Len(rest) = Len(h.rest) - 1
      /\ \A i \in 1 .. Len(rest) : rest[i] = h.rest[i + 1]
      /\ Head(h.rest) = h.rest[1] /\ 1 \in 1 .. Len(h.rest)
  BY <1>1, <1>2, <1>3, HeadTailProperties, LenProperties, EmptySeq
<1>6. /\ seen \in Seq(Endpoint) /\ Len(h.seen) \in Nat /\ Len(seen) = Len(h.seen) + 1
      /\ \A i \in 1 .. Len(h.seen) : seen[i] = h.seen[i]
      /\ seen[Len(h.seen) + 1] = endpoint
      /\ DOMAIN seen = 1 .. Len(seen) /\ DOMAIN h.seen = 1 .. Len(h.seen)
  BY <1>2, <1>3, AppendProperties, LenProperties
<1>7. /\ g.pc = (IF rest = <<>> THEN "latest" ELSE "probe") /\ g.kind = "test"
  BY <1>1, <1>2
<1>9. Len(seen) + Len(rest) = Len(list)
  <2>1. Len(h.seen) + Len(h.rest) = Len(list)
    BY <1>1, <1>2, Zenon DEF ListsFit
  <2>2. PICK m \in Nat, n \in Nat : m = Len(h.seen) /\ n = Len(h.rest)
    BY <1>5, <1>6, Zenon
  <2>3. Len(seen) = m + 1 /\ Len(rest) = n - 1 /\ m + n = Len(list)
    <3>1. Len(seen) = Len(h.seen) + 1
      BY <1>6
    <3>2. Len(rest) = Len(h.rest) - 1
      BY <1>5
    <3>3. m = Len(h.seen) /\ n = Len(h.rest)
      BY <2>2
    <3> QED
      BY <2>1, <3>1, <3>2, <3>3, Zenon
  <2>4. (m + 1) + (n - 1) = m + n
    OBVIOUS
  <2> QED
    BY <2>3, <2>4, Zenon
<1>10. ASSUME NEW i \in 1 .. Len(rest) PROVE rest[i] = list[Len(seen) + i].url
  <2>1. i + 1 \in 1 .. Len(h.rest) /\ Len(h.seen) + (i + 1) = Len(seen) + i
    <3>1. PICK m \in Nat, n \in Nat : m = Len(h.seen) /\ n = Len(h.rest)
      BY <1>5, <1>6, Zenon
    <3>2. Len(seen) = m + 1 /\ Len(rest) = n - 1
      BY <1>5, <1>6, <3>1
    <3>3. i \in 1 .. n - 1
      BY <3>2
    <3>4. i + 1 \in 1 .. n /\ m + (i + 1) = (m + 1) + i
      BY <3>3
    <3> QED
      BY <3>1, <3>2, <3>4
  <2>2. h.rest[i + 1] = list[Len(h.seen) + (i + 1)].url
    BY <1>1, <1>2, <2>1 DEF ListsFit
  <2> QED
    BY <1>5, <2>1, <2>2
<1>11. ASSUME NEW i \in 1 .. Len(h.seen) PROVE Truthful(world, seen[i], base)
  <2>1. PICK e : e = h.seen[i]
    OBVIOUS
  <2>2. e \in Endpoint /\ Truthful(world, e, h.next.base)
    BY <1>1, <1>3, <2>1, ElementOfSeq DEF ListsFit
  <2>3. e.url # None
    BY <2>2, NoneAssumption DEF Endpoint
  <2>4. Truthful(world, e, base)
    BY <2>2, <2>3 DEF Truthful
  <2> QED
    BY <1>6, <2>1, <2>4
<1>12. ASSUME NEW i \in 1 .. Len(seen)
       PROVE  seen[i].url = list[i].url /\ Truthful(world, seen[i], base)
  <2>1. CASE i \in 1 .. Len(h.seen)
    BY <1>1, <1>2, <1>6, <1>11, <2>1 DEF ListsFit
  <2>2. CASE i = Len(h.seen) + 1
    <3>1. h.rest[1] = list[Len(h.seen) + 1].url
      BY <1>1, <1>2, <1>5 DEF ListsFit
    <3> QED
      BY <1>5, <1>6, <2>2, <3>1
  <2> QED
    BY <1>6, <2>1, <2>2
<1>13. ASSUME NEW i \in 1 .. Len(seen), seen[i].health = "healthy"
       PROVE  SomeServes(seen, catalog)
  <2>1. Len(seen) \in DOMAIN seen /\ seen[Len(seen)] = endpoint
    BY <1>6
  <2>2. CASE endpoint.health = "healthy"
    BY <2>1, <2>2 DEF SomeServes
  <2>3. CASE endpoint.health # "healthy"
    <3>1. i \in 1 .. Len(h.seen) /\ seen[i] = h.seen[i]
      BY <1>6, <1>13, <2>3
    <3>2. SomeServes(h.seen, h.next.catalog) /\ h.next.catalog = catalog
      BY <1>1, <1>13, <2>3, <3>1 DEF ListsFit
    <3> QED
      BY <1>6, <3>2 DEF SomeServes
  <2> QED
    BY <2>2, <2>3
<1>14. ListsFit(g, world)
  <2>1. /\ list # <<>> /\ Injective(list)
        /\ \A i \in DOMAIN list : list[i].catalog # None => world[list[i].url] = list[i].catalog
    BY <1>1, <1>2 DEF ListsFit
  <2>2. \A i \in 1 .. Len(seen) :
            /\ seen[i].url = list[i].url
            /\ Truthful(world, seen[i], base)
            /\ seen[i].health = "healthy" => SomeServes(seen, catalog)
    BY <1>12, <1>13
  <2>3. \A i \in 1 .. Len(rest) : rest[i] = list[Len(seen) + i].url
    BY <1>10
  <2> QED
    BY <1>4, <1>9, <2>1, <2>2, <2>3, Zenon DEF ListsFit
<1>15. TestFits(g, world, present)
  <2>1. g.pc \in {"probe", "verify"} <=> g.rest # <<>>
    BY <1>4, <1>7
  <2> QED
    BY <1>1, <1>2, <1>4, <1>7, <1>14, <2>1 DEF TestFits
<1>16. g.pc \in {"latest", "probe"}
  BY <1>7
<1> QED
  BY <1>15, <1>16 DEF Fits, EditFits, VerifyFits, SaveTestFits, AskFits,
                            RequestFits, Requests, LibraryFits

LEMMA ProbingFits ==
    ASSUME NEW f \in Handlers, NEW world, NEW deployed, NEW rows,
           HandlersFit(handler, world, deployed, rows),
           handler[f].pc \in {"probe", "verify"},
           NEW endpoint, NEW catalog, NEW base,
           ProbeFits(handler[f], world, endpoint, catalog, base),
           NEW fatal \in BOOLEAN, Probed(f, endpoint, catalog, base, fatal)
    PROVE  HandlersFit(handler', world, deployed, rows)
<1>1. PICK h : h = handler[f]
  OBVIOUS
<1>2. /\ h \in Handling /\ h.next \in Part /\ f \in DOMAIN handler
      /\ Fits(h, world, deployed, rows[h.server])
  BY <1>1 DEF HandlersFit, Handling
<1>3. TestFits(h, world, rows[h.server])
  BY <1>2 DEF Fits
<1>4. PICK rejected \in BOOLEAN : rejected = (h.rejected \/ fatal)
  OBVIOUS
<1>5. PICK next : next = [h.next EXCEPT !.catalog = catalog, !.base = base]
  OBVIOUS
<1>6. PICK rest, seen, pc :
          /\ rest = Tail(h.rest) /\ seen = Append(h.seen, endpoint)
          /\ pc = IF rest = <<>> THEN "latest" ELSE "probe"
  OBVIOUS
<1>7. PICK g : g = [h EXCEPT !.rest = rest, !.row = NoServer, !.seen = seen, !.next = next,
                             !.rejected = rejected, !.pc = pc]
  OBVIOUS
<1>8. /\ next \in Part /\ next.endpoints = h.next.endpoints /\ next.catalog = catalog
      /\ next.base = base
  BY <1>2, <1>5, <1>1 DEF Part, ProbeFits
<1>9. /\ g.pc = pc /\ g.kind = h.kind /\ g.server = h.server
      /\ g.generation = h.generation /\ g.rest = rest /\ g.seen = seen /\ g.next = next
  BY <1>2, <1>7 DEF Handling
<1>10. g \in Handling
  <2> USE DEF ProbeFits
  <2>1. NoServer \in Part
    BY StoredRows
  <2>2. h.rest # <<>>
    BY <1>1, <1>3 DEF TestFits, Tests
  <2>3. h.rest \in Seq(Urls) /\ h.seen \in Seq(Endpoint)
    BY <1>2 DEF Handling
  <2>4. rest \in Seq(Urls) /\ seen \in Seq(Endpoint)
    BY <1>6, <2>2, <2>3, HeadTailProperties, AppendProperties
  <2>5. pc \in HandlerSteps
    BY <1>6 DEF HandlerSteps
  <2> QED
    BY <1>2, <1>7, <1>8, <2>1, <2>4, <2>5 DEF Handling
<1>11. Fits(g, world, deployed, rows[h.server])
  <2>1. h.pc \in {"probe", "verify"} /\ ProbeFits(h, world, endpoint, catalog, base)
    BY <1>1
  <2>2. IsProbed(h, endpoint, catalog, base, g)
    BY <1>6, <1>8, <1>9 DEF IsProbed
  <2> QED
    BY <1>2, <1>3, <2>1, <2>2, ProbedEndpointsFit
<1>12. handler' = [handler EXCEPT ![f] = g]
  <2>1. PICK after : after = [h EXCEPT !.rest = rest, !.row = NoServer, !.seen = seen,
                                  !.next.catalog = catalog, !.next.base = base,
                                  !.rejected = rejected, !.pc = pc]
    OBVIOUS
  <2>2. handler' = [handler EXCEPT ![f] = after]
    BY <1>1, <1>4, <1>6, <2>1 DEF Probed
  <2>3. after = g
    BY <1>2, <1>5, <1>7, <2>1 DEF Handling, Part
  <2> QED
    BY <2>2, <2>3
<1> QED
  BY <1>9, <1>10, <1>11, <1>12, HandlersMove

\* The endpoint a test has come to.
LEMMA EndpointsUnderTest ==
    ASSUME NEW h \in Handling, NEW world, NEW present, h.pc \in {"probe", "verify"},
           TestFits(h, world, present)
    PROVE  LET endpoint == h.next.endpoints[Len(h.seen) + 1] IN
           /\ endpoint \in Endpoint /\ endpoint.url = Head(h.rest) /\ endpoint.url \in Urls
           /\ endpoint.catalog # None => world[endpoint.url] = endpoint.catalog
<1>1. PICK list, k : list = h.next.endpoints /\ k = Len(h.seen) + 1
  OBVIOUS
<1>2. h.rest # <<>> /\ ListsFit(h, world)
  BY DEF TestFits, Tests
<1>3. /\ h.rest \in Seq(Urls) /\ h.seen \in Seq(Endpoint) /\ list \in Seq(Endpoint)
  BY <1>1 DEF Handling, Part
<1>4. /\ Len(h.rest) \in Nat \ {0} /\ Head(h.rest) = h.rest[1]
      /\ Len(h.seen) \in Nat /\ Len(list) \in Nat /\ DOMAIN list = 1 .. Len(list)
  BY <1>2, <1>3, EmptySeq, HeadTailProperties, LenProperties
<1>5. Len(h.seen) + Len(h.rest) = Len(list)
  BY <1>1, <1>2, Zenon DEF ListsFit
<1>6. k \in DOMAIN list
  <2>1. PICK m \in Nat, n \in Nat \ {0} : m = Len(h.seen) /\ n = Len(h.rest)
    BY <1>4, Zenon
  <2>2. k = m + 1 /\ m + n = Len(list)
    BY <1>1, <1>5, <2>1
  <2> QED
    BY <1>4, <2>2
<1>7. list[k].url = h.rest[1]
  <2>1. 1 \in 1 .. Len(h.rest)
    BY <1>4
  <2> QED
    BY <1>1, <1>2, <2>1 DEF ListsFit
<1>8. list[k].catalog # None => world[list[k].url] = list[k].catalog
  BY <1>1, <1>2, <1>6 DEF ListsFit
<1>9. list[k] \in Endpoint
  BY <1>3, <1>4, <1>6, ElementOfSeq
<1> QED
  BY <1>1, <1>4, <1>7, <1>8, <1>9 DEF Endpoint

LEMMA FailingProbesFit ==
    ASSUME NEW f \in Handlers, NEW world, NEW deployed, NEW rows,
           HandlersFit(handler, world, deployed, rows),
           handler[f].pc \in {"probe", "verify"},
           NEW fatal \in BOOLEAN, ProbeFails(f, fatal)
    PROVE  HandlersFit(handler', world, deployed, rows)
<1>1. PICK h, endpoint : h = handler[f] /\ endpoint = h.next.endpoints[Len(h.seen) + 1]
  OBVIOUS
<1>2. h \in Handling /\ TestFits(h, world, rows[h.server])
  BY <1>1 DEF HandlersFit, Fits
<1>3. /\ endpoint \in Endpoint /\ endpoint.url = Head(h.rest)
      /\ endpoint.catalog # None => world[endpoint.url] = endpoint.catalog
  BY <1>1, <1>2, EndpointsUnderTest
<1>4. /\ h.next \in Part /\ h.next.catalog \in Catalogs \cup {None}
      /\ h.next.base \in Urls \cup {None}
  BY <1>2 DEF Handling, Part
<1>5. PICK health \in {"degraded", "unknown"} :
          Probed(f, [endpoint EXCEPT !.health = health], h.next.catalog, h.next.base, fatal)
  <2>1. PICK health : health = IF \/ endpoint.catalog # None
                                  \/ ~h.named /\ h.next.base = endpoint.url
                               THEN "degraded" ELSE "unknown"
    OBVIOUS
  <2>2. Probed(f, [endpoint EXCEPT !.health = health], h.next.catalog, h.next.base, fatal)
    BY <1>1, <2>1 DEF ProbeFails
  <2> QED
    BY <2>1, <2>2
<1>6. PICK e : e = [endpoint EXCEPT !.health = health]
  OBVIOUS
<1>7. /\ e \in Endpoint /\ e.url = endpoint.url /\ e.health # "healthy"
      /\ Truthful(world, e, h.next.base)
  <2>1. /\ e \in Endpoint /\ e.url = endpoint.url /\ e.health = health
        /\ e.catalog = endpoint.catalog
    BY <1>3, <1>6 DEF Endpoint, Healths
  <2> QED
    BY <1>3, <2>1 DEF Truthful
<1>8. Probed(f, e, h.next.catalog, h.next.base, fatal)
  BY <1>5, <1>6
<1>9. ProbeFits(h, world, e, h.next.catalog, h.next.base)
  BY <1>3, <1>4, <1>7 DEF ProbeFits
<1> QED
  BY <1>1, <1>8, <1>9, ProbingFits

LEMMA ProbingAnEndpointFits ==
    ASSUME ConfigurationInv, NEW f \in Handlers, ProbeEndpoint(f)
    PROVE  StepFits
<1>1. PICK h, s, row : h = handler[f] /\ s = h.server /\ row = server[s]
  OBVIOUS
<1>2. /\ h.pc = "probe" /\ h \in Handling /\ server' = server
      /\ TestFits(h, serves, server[s])
  BY <1>1, KnownFacts DEF ProbeEndpoint, Stands, Fits
<1>3. /\ h.kind = "test" /\ s \in Servers
  BY <1>1, <1>2 DEF TestFits, Tests
<1>4. CASE ProbeFails(f, FALSE) \/ ProbeFails(f, TRUE)
  BY <1>1, <1>2, <1>4, KnownFacts, FailingProbesFit DEF StepFits
<1>5. CASE /\ Found(s) /\ Head(h.rest) \in Range(UrlsOf(row.endpoints))
           /\ handler' = [handler EXCEPT ![f].pc = "verify", ![f].row = Login(row)]
  <2>1. PICK login : login = Login(row)
    OBVIOUS
  <2>2. /\ row \in Server /\ row \in Part /\ ~row.deleted
        /\ row.generation \in Nat /\ row.generation # 0
        /\ row.password \in UpstreamPasswords
    <3>1. row \in Server /\ row \in Part /\ ~row.deleted
      BY <1>1, <1>3, <1>5, KnownFacts
    <3> QED
      BY <1>1, <1>3, <3>1, KnownFacts DEF Server, Part
  <2>3. /\ login \in Part /\ login.generation = row.generation
        /\ login.password = row.password
    <3>1. NoServer \in Part
      BY StoredRows
    <3> QED
      BY <2>1, <2>2, <3>1 DEF Login, Part
  <2>4. PICK g : g = [h EXCEPT !.pc = "verify", !.row = login]
    OBVIOUS
  <2>5. /\ g \in Handling /\ g.pc = "verify" /\ g.row = login /\ g.kind = "test"
        /\ g.server = s /\ g.rest = h.rest /\ g.seen = h.seen /\ g.next = h.next
        /\ g.generation = h.generation
    BY <1>1, <1>2, <1>3, <2>3, <2>4 DEF Handling, HandlerSteps
  <2>6. TestFits(g, serves, row)
    <3>1. ListsFit(g, serves)
      BY <1>2, <2>5 DEF TestFits, Tests, ListsFit
    <3> QED
      BY <1>1, <1>2, <2>5, <3>1 DEF TestFits, Tests
  <2>7. VerifyFits(g, row)
    BY <1>5, <2>2, <2>3, <2>5 DEF VerifyFits
  <2>8. Fits(g, serves, platform, row)
    BY <2>5, <2>6, <2>7 DEF Fits, EditFits, SaveTestFits, AskFits,
                            RequestFits, Requests, LibraryFits
  <2>9. handler' = [handler EXCEPT ![f] = g]
    <3>1. f \in DOMAIN handler
      BY KnownFacts DEF HandlersFit
    <3> QED
      BY <1>1, <1>5, <2>1, <2>4, <3>1
  <2> QED
    BY <1>1, <1>2, <2>5, <2>8, <2>9, HandlerStepFits
<1> QED
  BY <1>1, <1>4, <1>5 DEF ProbeEndpoint, Row

LEMMA VerifyingAnEndpointFits ==
    ASSUME ConfigurationInv, NEW f \in Handlers, VerifyEndpoint(f)
    PROVE  StepFits
<1>1. PICK h, s, url : h = handler[f] /\ s = h.server /\ url = Head(h.rest)
  OBVIOUS
<1>2. /\ h.pc = "verify" /\ h \in Handling
      /\ TestFits(h, serves, server[s]) /\ VerifyFits(h, server[s])
  BY <1>1, KnownFacts DEF VerifyEndpoint, Stands, Fits
<1>3. /\ s \in Servers /\ h.row.generation \in 1 .. server[s].generation
      /\ h.row.password \in UpstreamPasswords
      /\ h.row.generation = server[s].generation =>
             /\ h.row.password = server[s].password /\ ~server[s].deleted
             /\ url \in Range(UrlsOf(server[s].endpoints))
  BY <1>1, <1>2 DEF TestFits, Tests, VerifyFits
<1>4. PICK next, endpoint : next = h.next /\ endpoint = next.endpoints[Len(h.seen) + 1]
  OBVIOUS
<1>5. /\ endpoint \in Endpoint /\ endpoint.url = url /\ url \in Urls
      /\ next \in Part
  BY <1>1, <1>2, <1>4, EndpointsUnderTest DEF Handling
<1>6. PICK identity, catalog, same :
          /\ identity = serves[url]
          /\ catalog = IF next.catalog = None /\ identity # Anonymous
                       THEN identity ELSE next.catalog
          /\ same = IF identity # Anonymous THEN identity = catalog
                    ELSE catalog = None /\ next.base \in {None, url}
  OBVIOUS
<1>7. /\ identity \in Catalogs \cup {Anonymous} /\ catalog \in Catalogs \cup {None}
      /\ next.base \in Urls \cup {None} /\ next.catalog \in Catalogs \cup {None}
  BY <1>5, <1>6, KnownFacts DEF Part
<1>8. /\ SaveServerResult(s, h.row, url)
      /\ \/ ProbeFails(f, TRUE)
         \/ /\ same
            /\ Probed(f, [endpoint EXCEPT !.health = "healthy",
                              !.catalog = CatalogOf(identity)],
                      catalog, IF next.base = None THEN url ELSE next.base, FALSE)
         \/ /\ ~same
            /\ Probed(f, [endpoint EXCEPT !.health = "degraded", !.catalog = None],
                      catalog, next.base, TRUE)
  BY <1>1, <1>4, <1>6 DEF VerifyEndpoint
<1>9. /\ server' = [server EXCEPT ![s] = server'[s]]
      /\ Follows(server'[s], server[s], serves, platform)
  <2>1. server[s].generation \in Nat /\ h.row.generation \in Nat
    BY <1>3, KnownFacts
  <2>2. server[s] # NoServer
    BY <1>3, <2>1 DEF NoServer
  <2> QED
    BY <1>3, <1>5, <1>8, <2>1, <2>2, KnownFacts, ResultsFit
<1>10. PICK after : after = server'
  OBVIOUS
<1>11. ServersFit(after, serves, platform) /\ HandlersFit(handler, serves, platform, after)
  <2>1. PICK row : row = server'[s]
    OBVIOUS
  <2>2. after = [server EXCEPT ![s] = row] /\ Follows(row, server[s], serves, platform)
    BY <1>9, <1>10, <2>1
  <2> QED
    BY <1>3, <2>2, KnownFacts, ServersMove
<1>12. CASE ProbeFails(f, TRUE)
  BY <1>1, <1>2, <1>10, <1>11, <1>12, FailingProbesFit DEF StepFits
<1>13. CASE /\ same
            /\ Probed(f, [endpoint EXCEPT !.health = "healthy",
                              !.catalog = CatalogOf(identity)],
                      catalog, IF next.base = None THEN url ELSE next.base, FALSE)
  <2>1. PICK e, base : /\ e = [endpoint EXCEPT !.health = "healthy",
                                               !.catalog = CatalogOf(identity)]
                       /\ base = IF next.base = None THEN url ELSE next.base
    OBVIOUS
  <2>2. /\ CatalogOf(identity) \in Catalogs \cup {None}
        /\ CatalogOf(identity) = None <=> identity = Anonymous
        /\ identity # Anonymous => CatalogOf(identity) = identity
    BY <1>7, NoneAssumption DEF CatalogOf
  <2>3. /\ e \in Endpoint /\ e.url = url /\ e.health = "healthy"
        /\ e.catalog = CatalogOf(identity)
    BY <1>5, <2>1, <2>2 DEF Endpoint, Healths
  <2>4. identity # Anonymous => identity = catalog
    BY <1>6, <1>13
  <2>5. identity = Anonymous => catalog = None /\ base = url
    BY <1>6, <1>13, <2>1
  <2>6. Truthful(serves, e, base)
    BY <1>6, <2>2, <2>3, <2>5 DEF Truthful
  <2>7. e.catalog = catalog
    BY <2>2, <2>3, <2>4, <2>5
  <2>8. base \in Urls \cup {None} /\ (next.base # None => base = next.base)
    BY <1>5, <1>7, <2>1
  <2>9. HandlersFit(handler', serves, platform, after)
    <3>1. ProbeFits(h, serves, e, catalog, base)
      BY <1>1, <1>4, <1>7, <2>3, <2>6, <2>7, <2>8 DEF ProbeFits
    <3>2. Probed(f, e, catalog, base, FALSE)
      BY <1>13, <2>1
    <3> QED
      BY <1>1, <1>2, <1>11, <3>1, <3>2, ProbingFits
  <2> QED
    BY <1>10, <1>11, <2>9 DEF StepFits
<1>14. CASE /\ ~same
            /\ Probed(f, [endpoint EXCEPT !.health = "degraded", !.catalog = None],
                      catalog, next.base, TRUE)
  <2>1. PICK e : e = [endpoint EXCEPT !.health = "degraded", !.catalog = None]
    OBVIOUS
  <2>2. /\ e \in Endpoint /\ e.url = url /\ e.health = "degraded" /\ e.catalog = None
    BY <1>5, <2>1 DEF Endpoint, Healths
  <2>3. Truthful(serves, e, next.base)
    BY <2>2 DEF Truthful
  <2>4. catalog = next.catalog
    BY <1>6, <1>14
  <2>5. HandlersFit(handler', serves, platform, after)
    <3>1. ProbeFits(h, serves, e, catalog, next.base)
      BY <1>1, <1>4, <1>7, <2>2, <2>3, <2>4 DEF ProbeFits
    <3>2. Probed(f, e, catalog, next.base, TRUE)
      BY <1>14, <2>1
    <3> QED
      BY <1>1, <1>2, <1>11, <3>1, <3>2, ProbingFits
  <2> QED
    BY <1>10, <1>11, <2>5 DEF StepFits
<1> QED
  BY <1>8, <1>12, <1>13, <1>14

LEMMA ReadingTheLatestFits ==
    ASSUME ConfigurationInv, NEW f \in Handlers, ReadLatest(f)
    PROVE  StepFits
<1>1. PICK h, s, row : h = handler[f] /\ s = h.server /\ row = server[s]
  OBVIOUS
<1>2. /\ h.pc = "latest" /\ h \in Handling /\ server' = server
      /\ TestFits(h, serves, row)
  BY <1>1, KnownFacts DEF ReadLatest, Stands, Fits
<1>3. /\ h.kind = "test" /\ s \in Servers /\ h.rest = <<>>
      /\ h.generation = row.generation => UrlsOf(h.next.endpoints) = UrlsOf(row.endpoints)
  BY <1>1, <1>2 DEF TestFits, Tests
<1>4. CASE Respond(f)
  BY <1>2, <1>4, ResponseStepFits
<1>5. CASE /\ Found(s) /\ row.generation = h.generation
           /\ handler' = [handler EXCEPT ![f].pc = "save", ![f].row = Untested(row)]
  <2>1. PICK latest : latest = Untested(row)
    OBVIOUS
  <2>2. /\ row \in Server /\ row \in Part /\ ~row.deleted /\ row.password \in UpstreamPasswords
        /\ Fitting(platform, row)
    <3>1. row \in Server /\ row \in Part /\ ~row.deleted /\ Fitting(platform, row)
      BY <1>1, <1>3, <1>5, KnownFacts
    <3> QED
      BY <3>1 DEF Server, Part
  <2>3. /\ latest \in Part /\ latest.generation = row.generation
        /\ latest.password = row.password /\ latest.token = row.token
    <3>1. NoServer \in Part
      BY StoredRows
    <3>2. PICK login : login = Login(row)
      OBVIOUS
    <3>3. /\ login \in Part /\ login.generation = row.generation
          /\ login.password = row.password
      BY <2>2, <3>1, <3>2 DEF Login, Part
    <3>4. latest = [login EXCEPT !.enabled = row.enabled, !.token = row.token]
      BY <2>1, <3>2 DEF Untested
    <3> QED
      BY <2>2, <3>3, <3>4 DEF Part
  <2>4. PICK g : g = [h EXCEPT !.pc = "save", !.row = latest]
    OBVIOUS
  <2>5. /\ g \in Handling /\ g.pc = "save" /\ g.row = latest /\ g.kind = "test"
        /\ g.server = s /\ g.rest = h.rest /\ g.seen = h.seen /\ g.next = h.next
        /\ g.generation = h.generation
    BY <1>1, <1>2, <1>3, <2>3, <2>4 DEF Handling, HandlerSteps
  <2>6. TestFits(g, serves, row)
    <3>1. ListsFit(g, serves)
      BY <1>2, <2>5 DEF TestFits, Tests, ListsFit
    <3> QED
      BY <1>1, <1>2, <1>3, <2>5, <3>1 DEF TestFits, Tests
  <2>7. SaveTestFits(g, row)
    BY <1>3, <1>5, <2>2, <2>3, <2>5 DEF SaveTestFits, Fitting
  <2>8. Fits(g, serves, platform, row)
    BY <2>5, <2>6, <2>7 DEF Fits, EditFits, VerifyFits, AskFits,
                            RequestFits, Requests, LibraryFits
  <2>9. handler' = [handler EXCEPT ![f] = g]
    <3>1. f \in DOMAIN handler
      BY KnownFacts DEF HandlersFit
    <3> QED
      BY <1>1, <1>5, <2>1, <2>4, <3>1
  <2> QED
    BY <1>1, <1>2, <2>5, <2>8, <2>9, HandlerStepFits
<1> QED
  BY <1>1, <1>4, <1>5 DEF ReadLatest, Row

\* The row a test saves, over the one of its generation.
LEMMA TestedRowsFit ==
    ASSUME NEW h \in Handling, NEW world, NEW deployed, NEW present \in Part,
           h.pc = "save", h.kind = "test", present.generation \in Nat,
           TestFits(h, world, present), SaveTestFits(h, present),
           NEW saved,
           saved = [h.row EXCEPT !.endpoints = h.seen,
                        !.catalog = h.next.catalog, !.base = h.next.base,
                        !.token = IF h.rejected THEN NoToken ELSE h.row.token,
                        !.health = AggregateHealth(h.seen)]
    PROVE  /\ saved \in Server /\ Sound(world, saved)
           /\ present.generation = h.generation =>
                  /\ ~present.deleted
                  /\ Fitting(deployed, [saved EXCEPT !.deleted = FALSE])
                  /\ Agrees(present, [saved EXCEPT !.deleted = FALSE])
<1>1. PICK list, seen : list = h.next.endpoints /\ seen = h.seen
  OBVIOUS
<1>2. /\ h.rest = <<>> /\ ListsFit(h, world) /\ h.generation \in 1 .. present.generation
      /\ h.generation = present.generation => UrlsOf(list) = UrlsOf(present.endpoints)
  BY <1>1 DEF TestFits, Tests
<1>3. /\ seen \in Seq(Endpoint) /\ list \in Seq(Endpoint) /\ h.row \in Part /\ h.next \in Part
      /\ h.next.catalog \in Catalogs \cup {None} /\ h.next.base \in Urls \cup {None}
      /\ h.rejected \in BOOLEAN
  BY <1>1 DEF Handling, Part
<1>4. /\ Len(seen) \in Nat /\ DOMAIN seen = 1 .. Len(seen)
      /\ Len(list) \in Nat /\ DOMAIN list = 1 .. Len(list)
  BY <1>3, LenProperties
<1>5. Len(seen) = Len(list)
  <2>1. Len(h.seen) + Len(h.rest) = Len(h.next.endpoints)
    BY <1>2, Zenon DEF ListsFit
  <2>2. Len(h.rest) = 0
    BY <1>2, EmptySeq
  <2> QED
    BY <1>1, <1>4, <2>1, <2>2
<1>6. /\ list # <<>> /\ Injective(list)
      /\ \A i \in 1 .. Len(seen) :
             /\ seen[i].url = list[i].url
             /\ Truthful(world, seen[i], h.next.base)
             /\ seen[i].health = "healthy" => SomeServes(seen, h.next.catalog)
  BY <1>1, <1>2 DEF ListsFit
<1>7. seen # <<>>
  <2>1. Len(list) # 0
    BY <1>3, <1>6, EmptySeq
  <2> QED
    BY <1>5, <2>1, EmptySeq
<1>8. UrlsOf(seen) = UrlsOf(list)
  BY <1>4, <1>5, <1>6 DEF UrlsOf
<1>9. Injective(seen)
  BY <1>4, <1>5, <1>6 DEF Injective
<1>10. PICK health, token :
           /\ health = AggregateHealth(seen)
           /\ token = IF h.rejected THEN NoToken ELSE h.row.token
  OBVIOUS
<1>11. /\ health \in Healths
       /\ health = "healthy" => SomeServes(seen, h.next.catalog)
  <2>1. health \in Healths
    BY <1>10, Zenon DEF AggregateHealth, Healths
  <2>2. ASSUME health = "healthy" PROVE \E e \in Range(seen) : e.health = "healthy"
    BY <1>10, <2>2 DEF AggregateHealth
  <2>3. ASSUME health = "healthy" PROVE SomeServes(seen, h.next.catalog)
    <3>1. PICK i \in DOMAIN seen : seen[i].health = "healthy"
      BY <2>2, <2>3 DEF Range
    <3> QED
      BY <1>4, <1>6, <3>1
  <2> QED
    BY <2>1, <2>3
<1>12. /\ saved \in Part /\ saved.endpoints = seen /\ saved.catalog = h.next.catalog
       /\ saved.base = h.next.base /\ saved.token = token /\ saved.health = health
       /\ saved.generation = h.row.generation /\ saved.password = h.row.password
  <2>1. saved = [h.row EXCEPT !.endpoints = seen, !.catalog = h.next.catalog,
                     !.base = h.next.base, !.token = token, !.health = health]
    BY <1>1, <1>10
  <2>2. token \in UpstreamToken \cup {NoToken}
    BY <1>3, <1>10 DEF Part
  <2> QED
    BY <1>3, <1>11, <2>1, <2>2 DEF Part
<1>13. /\ h.row.generation = h.generation /\ h.row.password \in UpstreamPasswords
       /\ h.generation = present.generation =>
              h.row.password = present.password /\ ~present.deleted
       /\ token # NoToken =>
              /\ token.generation = h.generation
              /\ token.password = h.row.password
              /\ token.url \in Range(UrlsOf(list))
  BY <1>1, <1>10 DEF SaveTestFits
<1>14. saved \in Server
  <2>1. saved.generation # 0
    <3>1. h.generation \in 1 .. present.generation
      BY <1>2
    <3> QED
      BY <1>12, <1>13, <3>1
  <2>2. saved.password # None
    BY <1>12, <1>13, NoneAssumption
  <2> QED
    BY <1>7, <1>12, <2>1, <2>2 DEF Server
<1>15. Sound(world, saved)
  BY <1>4, <1>6, <1>9, <1>11, <1>12 DEF Sound
<1>16. ASSUME present.generation = h.generation
       PROVE  /\ ~present.deleted
              /\ Fitting(deployed, [saved EXCEPT !.deleted = FALSE])
              /\ Agrees(present, [saved EXCEPT !.deleted = FALSE])
  <2>1. PICK row : row = [saved EXCEPT !.deleted = FALSE]
    OBVIOUS
  <2>2. /\ row.endpoints = seen /\ row.token = token /\ row.deleted = FALSE
        /\ row.generation = h.generation /\ row.password = h.row.password
    BY <1>12, <1>13, <2>1 DEF Part
  <2>3. present.deleted = FALSE
    BY <1>13, <1>16 DEF Part
  <2>4. Fitting(deployed, row)
    BY <1>8, <1>13, <2>2 DEF Fitting
  <2>5. Agrees(present, row)
    <3>1. present.generation <= row.generation
      BY <1>16, <2>2
    <3>2. present.password = row.password /\ UrlsOf(present.endpoints) = UrlsOf(row.endpoints)
      BY <1>2, <1>8, <1>13, <1>16, <2>2
    <3> QED
      BY <2>2, <2>3, <3>1, <3>2, Zenon DEF Agrees
  <2> QED
    BY <2>1, <2>3, <2>4, <2>5
<1> QED
  BY <1>14, <1>15, <1>16

LEMMA SavingATestFits ==
    ASSUME ConfigurationInv, NEW f \in Handlers, SaveTest(f)
    PROVE  StepFits
<1>1. PICK h, s : h = handler[f] /\ s = h.server
  OBVIOUS
<1>2. /\ h.pc = "save" /\ h.kind = "test" /\ h \in Handling
      /\ TestFits(h, serves, server[s]) /\ SaveTestFits(h, server[s])
  BY <1>1, KnownFacts DEF SaveTest, Stands, Fits
<1>3. s \in Servers
  BY <1>1, <1>2 DEF TestFits, Tests
<1>4. PICK saved :
          saved = [h.row EXCEPT !.endpoints = h.seen,
                       !.catalog = h.next.catalog, !.base = h.next.base,
                       !.token = IF h.rejected THEN NoToken ELSE h.row.token,
                       !.health = AggregateHealth(h.seen)]
  OBVIOUS
<1>5. SaveServerConfiguration(s, h.generation, saved)
  <2>1. Tested(f) = saved
    BY <1>1, <1>4 DEF Tested
  <2> QED
    BY <1>1, <2>1 DEF SaveTest
<1>6. /\ saved \in Server /\ Sound(serves, saved)
      /\ server[s].generation = h.generation =>
             /\ ~server[s].deleted
             /\ Fitting(platform, [saved EXCEPT !.deleted = FALSE])
             /\ Agrees(server[s], [saved EXCEPT !.deleted = FALSE])
  <2>1. PICK present : present = server[s]
    OBVIOUS
  <2>2. present \in Part /\ present.generation \in Nat
    BY <1>3, <2>1, KnownFacts
  <2> QED
    BY <1>2, <1>4, <2>1, <2>2, TestedRowsFit
<1>7. /\ server' = [server EXCEPT ![s] = server'[s]]
      /\ Follows(server'[s], server[s], serves, platform)
  BY <1>3, <1>5, <1>6, KnownFacts, ConfigurationsFit
<1> QED
  BY <1>3, <1>7, AnsweredStepFits DEF SaveTest

-----------------------------------------------------------------------------
(* Steps of requests                                                       *)

LEMMA EligibleEndpointsListed ==
    ASSUME NEW row \in Part
    PROVE  /\ EligibleEndpoints(row) \in Seq(Urls)
           /\ Range(EligibleEndpoints(row)) =
                  {row.endpoints[n].url : n \in {m \in DOMAIN row.endpoints :
                       /\ row.endpoints[m].health = "healthy"
                       /\ row.endpoints[m].catalog = row.catalog}}
<1>1. PICK list, positions :
          /\ list = row.endpoints
          /\ positions = {n \in Healthy(row) : row.endpoints[n].catalog = row.catalog}
  OBVIOUS
<1>2. list \in Seq(Endpoint) /\ positions \in SUBSET DOMAIN list
  BY <1>1 DEF Part, Healthy
<1>3. /\ UrlsAt(list, positions) \in Seq(Urls)
      /\ Range(UrlsAt(list, positions)) = {list[n].url : n \in positions}
  BY <1>2, UrlsAtPositions
<1>4. EligibleEndpoints(row) = UrlsAt(list, positions)
  BY <1>1 DEF EligibleEndpoints
<1>5. positions = {m \in DOMAIN list : list[m].health = "healthy" /\ list[m].catalog = row.catalog}
  BY <1>1 DEF Healthy
<1> QED
  BY <1>1, <1>3, <1>4, <1>5

LEMMA BeginningARequestFits ==
    ASSUME ConfigurationInv, NEW f \in Handlers, BeginRequest(f)
    PROVE  StepFits
<1>1. PICK s \in Servers, kind \in {"get", "post"} :
          /\ Found(s)
          /\ handler' = [handler EXCEPT ![f] = [Unoccupied EXCEPT
                 !.pc = "read", !.kind = kind, !.server = s,
                 !.generation = server[s].generation]]
  BY DEF BeginRequest
<1>2. PICK row : row = server[s]
  OBVIOUS
<1>3. /\ row.generation \in Nat /\ row.generation # 0
      /\ row.generation \in 0 .. MaxServerGeneration
  BY <1>1, <1>2, KnownFacts, StoredRows DEF Server
<1>4. PICK h : h = [Unoccupied EXCEPT !.pc = "read", !.kind = kind, !.server = s,
                                      !.generation = row.generation]
  OBVIOUS
<1>5. Unoccupied \in Handling
  BY UnoccupiedFits
<1>6. /\ h \in Handling /\ h.pc = "read" /\ h.kind = kind /\ h.server = s
      /\ h.generation = row.generation
  BY <1>3, <1>4, <1>5 DEF Handling, HandlerSteps, RequestKinds
<1>7. Fits(h, serves, platform, row)
  BY <1>3, <1>6 DEF Fits, EditFits, TestFits, Tests, VerifyFits, SaveTestFits, AskFits,
                    RequestFits, Requests, LibraryFits
<1>8. server' = server
  BY DEF BeginRequest
<1> QED
  BY <1>1, <1>2, <1>4, <1>6, <1>7, <1>8, HandlerStepFits

\* The row a request may go on with.
RowFits(row, h, deployed, present) ==
    /\ row \in Server /\ Agrees(row, present) /\ Fitting(deployed, row)
    /\ deployed # "d1" => row.generation = h.generation /\ ~row.deleted

LEMMA RequestsMove ==
    ASSUME NEW h, NEW g, NEW world, NEW deployed, NEW present,
           AskFits(h, present), h.pc = "read" \/ Requests(h),
           g.kind = h.kind, g.server = h.server, g.generation = h.generation,
           g.fence = h.fence, g.rest # <<>>, RowFits(g.row, h, deployed, present),
           Requests(g), g.pc = "reread" => deployed = "d1", g.pc = "check" => g.from \in Urls
    PROVE  Fits(g, world, deployed, present)
<1>1. AskFits(g, present)
  BY DEF AskFits
<1>2. RequestFits(g, deployed, present)
  BY DEF RequestFits, RowFits
<1>3. g.pc \in {"send", "login", "reread", "replay", "check"}
  BY DEF Requests
<1> QED
  BY <1>1, <1>2, <1>3 DEF Fits, EditFits, TestFits, Tests, VerifyFits, SaveTestFits,
                          LibraryFits

LEMMA ReadingAServerFits ==
    ASSUME ConfigurationInv, NEW f \in Handlers, ReadServer(f)
    PROVE  StepFits
<1>1. PICK h, s, row, eligible :
          /\ h = handler[f] /\ s = h.server /\ row = server[s]
          /\ eligible = EligibleEndpoints(row)
  OBVIOUS
<1>2. h.pc = "read" /\ h \in Handling /\ AskFits(h, row) /\ server' = server
  BY <1>1, KnownFacts DEF ReadServer, Stands, Fits
<1>3. s \in Servers
  BY <1>1, <1>2 DEF AskFits
<1>4. CASE Respond(f)
  BY <1>2, <1>4, ResponseStepFits
<1>5. CASE /\ Found(s) /\ row.generation = h.generation /\ eligible # <<>>
           /\ handler' = [handler EXCEPT ![f].pc = "send", ![f].row = row,
                                         ![f].rest = eligible]
  <2>1. /\ row \in Server /\ row \in Part /\ ~row.deleted /\ Fitting(platform, row)
        /\ row.generation \in Nat
    BY <1>1, <1>3, <1>5, KnownFacts
  <2>2. eligible \in Seq(Urls)
    BY <1>1, <2>1, EligibleEndpointsListed
  <2>3. PICK g : g = [h EXCEPT !.pc = "send", !.row = row, !.rest = eligible]
    OBVIOUS
  <2>4. /\ g \in Handling /\ g.pc = "send" /\ g.row = row /\ g.rest = eligible
        /\ g.kind = h.kind /\ g.server = h.server /\ g.generation = h.generation
        /\ g.fence = h.fence
    BY <1>2, <2>1, <2>2, <2>3 DEF Handling, HandlerSteps
  <2>5. RowFits(g.row, h, platform, row)
    BY <1>5, <2>1, <2>4 DEF RowFits, Agrees
  <2>6. Fits(g, serves, platform, row)
    BY <1>2, <1>5, <2>4, <2>5, RequestsMove DEF Requests
  <2>7. handler' = [handler EXCEPT ![f] = g]
    <3>1. f \in DOMAIN handler
      BY KnownFacts DEF HandlersFit
    <3> QED
      BY <1>1, <1>5, <2>3, <3>1
  <2> QED
    BY <1>1, <1>2, <2>4, <2>6, <2>7, HandlerStepFits
<1> QED
  BY <1>1, <1>4, <1>5 DEF ReadServer, Row

\* What is known of a request under way.
LEMMA RequestsKnown ==
    ASSUME NEW f \in Handlers, NEW world, NEW deployed, NEW rows,
           HandlersFit(handler, world, deployed, rows), Requests(handler[f])
    PROVE  LET h == handler[f] IN
           /\ f \in DOMAIN handler /\ h \in Handling /\ h.server \in Servers
           /\ AskFits(h, rows[h.server])
           /\ h.rest \in Seq(Urls) /\ h.rest # <<>> /\ Head(h.rest) \in Urls
           /\ RowFits(h.row, h, deployed, rows[h.server])
           /\ h.pc = "reread" => deployed = "d1"
           /\ h.pc = "check" => h.from \in Urls
<1>1. PICK h, present : h = handler[f] /\ present = rows[h.server]
  OBVIOUS
<1>2. f \in DOMAIN handler /\ h \in Handling /\ Fits(h, world, deployed, present)
  BY <1>1 DEF HandlersFit
<1>3. AskFits(h, present) /\ RequestFits(h, deployed, present) /\ Requests(h)
  BY <1>1, <1>2 DEF Fits
<1>4. h.rest \in Seq(Urls) /\ h.rest # <<>>
  BY <1>2, <1>3 DEF Handling, RequestFits
<1>5. Head(h.rest) \in Urls
  BY <1>4, HeadTailProperties
<1> QED
  BY <1>1, <1>2, <1>3, <1>4, <1>5 DEF AskFits, RequestFits, RowFits

LEMMA TryingTheNextFits ==
    ASSUME NEW f \in Handlers, NEW world, NEW deployed, NEW rows,
           HandlersFit(handler, world, deployed, rows), Requests(handler[f]),
           TryNextEndpoint(f)
    PROVE  HandlersFit(handler', world, deployed, rows)
<1>1. PICK h, present, rest :
          h = handler[f] /\ present = rows[h.server] /\ rest = Tail(h.rest)
  OBVIOUS
<1>2. /\ f \in DOMAIN handler /\ h \in Handling /\ AskFits(h, present) /\ Requests(h)
      /\ h.rest \in Seq(Urls) /\ h.rest # <<>> /\ RowFits(h.row, h, deployed, present)
  BY <1>1, RequestsKnown
<1>3. CASE Respond(f)
  BY <1>3, RespondingFits
<1>4. CASE /\ Len(h.rest) > 1
           /\ handler' = [handler EXCEPT ![f].pc = "send", ![f].rest = rest]
  <2>1. rest \in Seq(Urls) /\ rest # <<>>
    <3>1. rest \in Seq(Urls) /\ Len(rest) = Len(h.rest) - 1 /\ Len(h.rest) \in Nat
      BY <1>1, <1>2, HeadTailProperties, LenProperties
    <3>2. Len(rest) # 0
      <4>1. PICK n \in Nat : n = Len(h.rest)
        BY <3>1, Zenon
      <4>2. n > 1 /\ Len(rest) = n - 1
        BY <1>4, <3>1, <4>1
      <4> QED
        BY <4>2
    <3> QED
      BY <3>1, <3>2, EmptySeq
  <2>2. PICK g : g = [h EXCEPT !.pc = "send", !.rest = rest]
    OBVIOUS
  <2>3. /\ g \in Handling /\ g.pc = "send" /\ g.rest = rest /\ g.row = h.row
        /\ g.kind = h.kind /\ g.server = h.server /\ g.generation = h.generation
        /\ g.fence = h.fence
    BY <1>2, <2>1, <2>2 DEF Handling, HandlerSteps
  <2>4. Fits(g, world, deployed, present)
    BY <1>2, <2>1, <2>3, RequestsMove DEF Requests
  <2>5. handler' = [handler EXCEPT ![f] = g]
    BY <1>1, <1>2, <1>4, <2>2
  <2> QED
    BY <1>1, <2>3, <2>4, <2>5, HandlersMove
<1> QED
  BY <1>1, <1>3, <1>4 DEF TryNextEndpoint

LEMMA AnsweringFits ==
    ASSUME NEW f \in Handlers, NEW world, NEW deployed, NEW rows,
           HandlersFit(handler, world, deployed, rows), Requests(handler[f]),
           Answered(f)
    PROVE  HandlersFit(handler', world, deployed, rows)
<1>1. PICK h, present, url :
          h = handler[f] /\ present = rows[h.server] /\ url = Head(h.rest)
  OBVIOUS
<1>2. /\ f \in DOMAIN handler /\ h \in Handling /\ AskFits(h, present) /\ Requests(h)
      /\ url \in Urls /\ h.rest # <<>> /\ RowFits(h.row, h, deployed, present)
  BY <1>1, RequestsKnown
<1>3. PICK g : g = [h EXCEPT !.pc = "check", !.from = url]
  OBVIOUS
<1>4. /\ g \in Handling /\ g.pc = "check" /\ g.rest = h.rest /\ g.row = h.row
      /\ g.kind = h.kind /\ g.server = h.server /\ g.generation = h.generation
      /\ g.fence = h.fence /\ g.from = url
  BY <1>2, <1>3 DEF Handling, HandlerSteps
<1>5. Fits(g, world, deployed, present)
  BY <1>2, <1>4, RequestsMove DEF Requests
<1>6. handler' = [handler EXCEPT ![f] = g]
  BY <1>1, <1>2, <1>3 DEF Answered
<1> QED
  BY <1>1, <1>4, <1>5, <1>6, HandlersMove

\* A request goes on with another row.
LEMMA GoingOnFits ==
    ASSUME NEW f \in Handlers, NEW world, NEW deployed, NEW rows,
           HandlersFit(handler, world, deployed, rows), Requests(handler[f]),
           NEW pc \in {"login", "reread", "replay"}, pc = "reread" => deployed = "d1",
           NEW row, RowFits(row, handler[f], deployed, rows[handler[f].server]),
           handler' = [handler EXCEPT ![f] = [handler[f] EXCEPT !.pc = pc, !.row = row]]
    PROVE  HandlersFit(handler', world, deployed, rows)
<1>1. PICK h, present : h = handler[f] /\ present = rows[h.server]
  OBVIOUS
<1>2. /\ f \in DOMAIN handler /\ h \in Handling /\ AskFits(h, present) /\ Requests(h)
      /\ h.rest # <<>> /\ RowFits(row, h, deployed, present)
  BY <1>1, RequestsKnown
<1>3. PICK g : g = [h EXCEPT !.pc = pc, !.row = row]
  OBVIOUS
<1>4. /\ g \in Handling /\ g.pc = pc /\ g.rest = h.rest /\ g.row = row
      /\ g.kind = h.kind /\ g.server = h.server /\ g.generation = h.generation
      /\ g.fence = h.fence
  BY <1>2, <1>3 DEF Handling, HandlerSteps, RowFits, Server
<1>5. Fits(g, world, deployed, present)
  BY <1>2, <1>4, RequestsMove DEF Requests
<1>6. handler' = [handler EXCEPT ![f] = g]
  <2>1. g = [handler[f] EXCEPT !.pc = pc, !.row = row]
    BY <1>1, <1>3
  <2> QED
    BY <2>1, Zenon
<1>7. Fits(g, world, deployed, rows[g.server])
  BY <1>1, <1>4, <1>5
<1>8. HandlersFit([handler EXCEPT ![f] = g], world, deployed, rows)
  BY <1>4, <1>7, HandlersMove, Zenon
<1> QED
  BY <1>6, <1>8, Zenon

LEMMA SendingFits ==
    ASSUME ConfigurationInv, NEW f \in Handlers, Send(f) \/ Replay(f)
    PROVE  StepFits
<1>1. Requests(handler[f]) /\ server' = server
  BY DEF Send, Replay, Stands, Requests
<1>2. CASE TryNextEndpoint(f)
  BY <1>1, <1>2, KnownFacts, TryingTheNextFits DEF StepFits
<1>3. CASE Respond(f)
  BY <1>1, <1>3, ResponseStepFits
<1>4. CASE Answered(f)
  BY <1>1, <1>4, KnownFacts, AnsweringFits DEF StepFits
<1>5. CASE handler' = [handler EXCEPT ![f].pc = "login"]
  <2>1. PICK h, row : h = handler[f] /\ row = h.row
    OBVIOUS
  <2>2. /\ h \in Handling /\ f \in DOMAIN handler
        /\ RowFits(row, h, platform, server[h.server])
    BY <1>1, <2>1, KnownFacts, RequestsKnown
  <2>3. [h EXCEPT !.pc = "login", !.row = row] = [h EXCEPT !.pc = "login"]
    BY <2>1, <2>2 DEF Handling
  <2>4. handler' = [handler EXCEPT ![f] = [handler[f] EXCEPT !.pc = "login", !.row = row]]
    BY <1>5, <2>1, <2>2, <2>3
  <2>5. HandlersFit(handler', serves, platform, server)
    BY <1>1, <2>1, <2>2, <2>4, KnownFacts, GoingOnFits
  <2> QED
    BY <1>1, <2>5, KnownFacts DEF StepFits
<1> QED
  BY <1>2, <1>3, <1>4, <1>5 DEF Send, Replay

LEMMA LoggingInFits ==
    ASSUME ConfigurationInv, NEW f \in Handlers, LogIn(f)
    PROVE  StepFits
<1>1. PICK h, s, url, old :
          h = handler[f] /\ s = h.server /\ url = Head(h.rest) /\ old = server[s]
  OBVIOUS
<1>2. Requests(handler[f]) /\ h.pc = "login"
  BY <1>1 DEF LogIn, Stands, Requests
<1>3. /\ f \in DOMAIN handler /\ h \in Handling /\ s \in Servers
      /\ url \in Urls /\ RowFits(h.row, h, platform, old)
  BY <1>1, <1>2, KnownFacts, RequestsKnown
<1>4. /\ h.row \in Server /\ Agrees(h.row, old) /\ Fitting(platform, h.row)
      /\ platform # "d1" => h.row.generation = h.generation /\ ~h.row.deleted
  BY <1>3 DEF RowFits
<1>5. CASE (TryNextEndpoint(f) \/ Respond(f)) /\ server' = server
  <2>1. CASE TryNextEndpoint(f)
    BY <1>2, <1>5, <2>1, KnownFacts, TryingTheNextFits DEF StepFits
  <2>2. CASE Respond(f)
    BY <1>5, <2>2, ResponseStepFits
  <2> QED
    BY <1>5, <2>1, <2>2
<1>6. CASE /\ url \in Range(UrlsOf(h.row.endpoints))
           /\ SaveServerResult(s, h.row, url)
           /\ IF old.generation # h.row.generation THEN Respond(f)
              ELSE IF platform = "d1" THEN handler' = [handler EXCEPT ![f].pc = "reread"]
              ELSE handler' = [handler EXCEPT ![f].pc = "replay", ![f].row = server'[s]]
  <2>1. /\ h.row.generation \in Nat /\ h.row.generation # 0
        /\ h.row.password \in UpstreamPasswords
        /\ old.generation \in Nat /\ old \in Part
    BY <1>1, <1>3, <1>4, KnownFacts, StoredRows DEF Server, Part
  <2>2. old # NoServer
    BY <1>4, <2>1 DEF Agrees, NoServer
  <2>3. ASSUME h.row.generation = old.generation
        PROVE  /\ h.row.password = old.password
               /\ url \in Range(UrlsOf(old.endpoints))
               /\ old.deleted => platform = "d1"
    BY <1>4, <1>6, <2>3 DEF Agrees
  <2>4. PICK after, new : after = server' /\ new = after[s]
    OBVIOUS
  <2>5. /\ server' = [server EXCEPT ![s] = server'[s]]
        /\ Follows(server'[s], server[s], serves, platform)
        /\ server'[s].generation = server[s].generation
    BY <1>1, <1>3, <1>6, <2>1, <2>2, <2>3, KnownFacts, ResultsFit
  <2>6. /\ after = [server EXCEPT ![s] = new]
        /\ Follows(new, old, serves, platform) /\ new.generation = old.generation
    BY <1>1, <2>4, <2>5
  <2>7. ServersFit(after, serves, platform) /\ HandlersFit(handler, serves, platform, after)
    BY <1>1, <1>3, <2>6, KnownFacts, ServersMove
  <2>8. CASE Respond(f)
    BY <2>4, <2>7, <2>8, RespondingFits DEF StepFits
  <2>9. CASE /\ old.generation = h.row.generation /\ platform = "d1"
             /\ handler' = [handler EXCEPT ![f].pc = "reread"]
    <3>1. PICK row : row = h.row
      OBVIOUS
    <3>2. RowFits(row, h, platform, after[h.server])
      BY <1>1, <1>2, <2>7, <3>1, RequestsKnown
    <3>3. [h EXCEPT !.pc = "reread", !.row = row] = [h EXCEPT !.pc = "reread"]
      BY <1>3, <3>1 DEF Handling
    <3>4. handler' = [handler EXCEPT ![f] = [handler[f] EXCEPT !.pc = "reread", !.row = row]]
      BY <1>1, <1>3, <2>9, <3>3
    <3>5. HandlersFit(handler', serves, platform, after)
      BY <1>1, <1>2, <2>7, <2>9, <3>2, <3>4, GoingOnFits
    <3> QED
      BY <2>4, <2>7, <3>5 DEF StepFits
  <2>10. CASE /\ old.generation = h.row.generation /\ platform # "d1"
              /\ handler' = [handler EXCEPT ![f].pc = "replay", ![f].row = new]
    <3>1. RowFits(new, h, platform, after[h.server])
      <4>1. new.generation \in Nat /\ new.generation # 0
        BY <2>1, <2>6, <2>10
      <4>2. new \in Server /\ Fitting(platform, new)
        BY <2>6, <4>1 DEF Follows, NoServer
      <4>3. new.deleted = old.deleted
        BY <2>6 DEF Follows, Agrees
      <4>4. h.row.deleted = old.deleted
        BY <1>4, <2>10 DEF Agrees
      <4>5. Agrees(new, new)
        BY <4>1 DEF Agrees
      <4> QED
        BY <1>1, <1>4, <2>4, <2>6, <2>10, <4>2, <4>3, <4>4, <4>5 DEF RowFits
    <3>2. handler' = [handler EXCEPT ![f] = [handler[f] EXCEPT !.pc = "replay", !.row = new]]
      BY <1>1, <1>3, <2>10
    <3>3. HandlersFit(handler', serves, platform, after)
      BY <1>1, <1>2, <2>7, <3>1, <3>2, GoingOnFits
    <3> QED
      BY <2>4, <2>7, <3>3 DEF StepFits
  <2> QED
    BY <1>6, <2>4, <2>8, <2>9, <2>10
<1> QED
  BY <1>1, <1>5, <1>6 DEF LogIn, Row

LEMMA RereadingAServerFits ==
    ASSUME ConfigurationInv, NEW f \in Handlers, D1RereadServer(f)
    PROVE  StepFits
<1>1. PICK h, s, row : h = handler[f] /\ s = h.server /\ row = server[s]
  OBVIOUS
<1>2. Requests(handler[f]) /\ h.pc = "reread" /\ server' = server
  BY <1>1 DEF D1RereadServer, Stands, Requests
<1>3. /\ f \in DOMAIN handler /\ h \in Handling /\ s \in Servers /\ platform = "d1"
      /\ RowFits(h.row, h, platform, row)
  BY <1>1, <1>2, KnownFacts, RequestsKnown
<1>4. CASE Respond(f)
  BY <1>2, <1>4, ResponseStepFits
<1>5. CASE handler' = [handler EXCEPT ![f].pc = "replay", ![f].row = row]
  <2>1. /\ row.generation \in Nat /\ row \in Server \cup {NoServer} /\ Fitting(platform, row)
    BY <1>1, <1>3, KnownFacts
  <2>2. row.generation # 0
    <3>1. /\ h.row.generation <= row.generation /\ h.row.generation \in Nat
          /\ h.row.generation # 0
      BY <1>3, StoredRows DEF RowFits, Agrees, Server
    <3> QED
      BY <2>1, <3>1
  <2>3. row \in Server
    BY <2>1, <2>2, StoredRows
  <2>4. Agrees(row, row)
    BY <2>1 DEF Agrees
  <2>5. RowFits(row, h, platform, row)
    BY <1>3, <2>1, <2>3, <2>4 DEF RowFits
  <2>6. handler' = [handler EXCEPT ![f] = [handler[f] EXCEPT !.pc = "replay", !.row = row]]
    BY <1>1, <1>3, <1>5
  <2>7. HandlersFit(handler', serves, platform, server)
    BY <1>1, <1>2, <2>5, <2>6, KnownFacts, GoingOnFits
  <2> QED
    BY <1>2, <2>7, KnownFacts DEF StepFits
<1> QED
  BY <1>1, <1>4, <1>5 DEF D1RereadServer, Row

LEMMA CheckingAnAnswerFits ==
    ASSUME ConfigurationInv, NEW f \in Handlers, CheckAnswer(f)
    PROVE  StepFits
<1>1. PICK h, s, row : h = handler[f] /\ s = h.server /\ row = server[s]
  OBVIOUS
<1>2. Requests(handler[f]) /\ h.pc = "check" /\ server' = server
  BY <1>1 DEF CheckAnswer, Stands, Requests
<1>3. /\ h \in Handling /\ s \in Servers /\ h.from \in Urls /\ AskFits(h, row)
  BY <1>1, <1>2, KnownFacts, RequestsKnown
<1>4. CASE Respond(f)
  BY <1>2, <1>4, ResponseStepFits
<1>5. PICK found :
          found = [server |-> s, source |-> serves[h.from], enabled |-> TRUE,
                   at |-> h.generation]
  OBVIOUS
<1>6. CASE /\ h.kind = "library"
           /\ handler' = [handler EXCEPT ![f] = [Unoccupied EXCEPT
                  !.pc = "bind", !.kind = "library", !.server = s,
                  !.fence = h.fence, !.bindings = {found}]]
  <2>1. /\ h.generation \in 1 .. row.generation /\ h.fence \in 1 .. h.generation
        /\ row.generation \in Nat /\ h.generation \in 0 .. MaxServerGeneration
        /\ MaxServerGeneration \in Nat
    BY <1>1, <1>2, <1>3, <1>6, KnownFacts, ServerBoundsAssumption DEF AskFits, Requests, Handling
  <2>2. found \in Binding
    <3>1. serves[h.from] \in Identities
      BY <1>3, KnownFacts DEF Identities
    <3>2. h.generation \in 1 .. MaxServerGeneration
      BY <2>1
    <3> QED
      BY <1>3, <1>5, <3>1, <3>2 DEF Binding
  <2>3. PICK g : g = [Unoccupied EXCEPT !.pc = "bind", !.kind = "library", !.server = s,
                                        !.fence = h.fence, !.bindings = {found}]
    OBVIOUS
  <2>4. Unoccupied \in Handling
    BY UnoccupiedFits
  <2>5. /\ g \in Handling /\ g.pc = "bind" /\ g.server = s /\ g.fence = h.fence
        /\ g.bindings = {found}
    BY <1>3, <2>2, <2>3, <2>4 DEF Handling, HandlerSteps, RequestKinds
  <2>6. LibraryFits(g, row)
    <3>1. g.fence \in 1 .. row.generation
      BY <2>1, <2>5
    <3>2. found.server = s /\ found.at \in g.fence .. row.generation
      BY <1>5, <2>1, <2>5
    <3> QED
      BY <1>3, <2>5, <3>1, <3>2 DEF LibraryFits
  <2>7. Fits(g, serves, platform, row)
    BY <2>5, <2>6 DEF Fits, EditFits, TestFits, Tests, VerifyFits, SaveTestFits, AskFits,
                      RequestFits, Requests
  <2> QED
    BY <1>1, <1>2, <1>6, <2>3, <2>5, <2>7, HandlerStepFits
<1> QED
  BY <1>1, <1>4, <1>5, <1>6 DEF CheckAnswer

-----------------------------------------------------------------------------
(* Steps of library edits                                                  *)

LEMMA BeginningALibraryFits ==
    ASSUME ConfigurationInv, NEW f \in Handlers, BeginLibrary(f)
    PROVE  StepFits
<1>1. PICK h : h = [Unoccupied EXCEPT !.pc = "servers", !.kind = "library",
                                      !.current = library]
  OBVIOUS
<1>2. handler' = [handler EXCEPT ![f] = h] /\ server' = server
  BY <1>1 DEF BeginLibrary
<1>3. library \subseteq Binding
  BY DEF ConfigurationInv, ConfigurationTypeOK
<1>4. Unoccupied \in Handling
  BY UnoccupiedFits
<1>5. h \in Handling /\ h.pc = "servers"
  BY <1>1, <1>3, <1>4 DEF Handling, HandlerSteps, RequestKinds
<1>6. Fits(h, serves, platform, server[h.server])
  BY <1>5 DEF Fits, EditFits, TestFits, Tests, VerifyFits, SaveTestFits, AskFits,
              RequestFits, Requests, LibraryFits
<1> QED
  BY <1>2, <1>5, <1>6, HandlerStepFits

LEMMA ReadingServersFits ==
    ASSUME ConfigurationInv, NEW f \in Handlers, ReadServers(f)
    PROVE  StepFits
<1>1. PICK h : h = handler[f]
  OBVIOUS
<1>2. h \in Handling /\ f \in DOMAIN handler /\ server' = server
  BY <1>1, KnownFacts DEF ReadServers, HandlersFit
<1>3. CASE Respond(f)
  BY <1>2, <1>3, ResponseStepFits
<1>4. CASE \E s \in Servers :
               /\ Found(s)
               /\ \E kept \in SUBSET {b \in h.current : b.server = s},
                     off \in SUBSET h.current :
                      handler' = [handler EXCEPT ![f].pc = "bind", ![f].server = s,
                          ![f].fence = server[s].generation, ![f].preserve = TRUE,
                          ![f].bindings = {[b EXCEPT !.enabled = @ /\ b \notin off]
                                           : b \in kept}]
  <2>1. PICK s \in Servers :
            /\ Found(s)
            /\ \E kept \in SUBSET {b \in h.current : b.server = s},
                  off \in SUBSET h.current :
                   handler' = [handler EXCEPT ![f].pc = "bind", ![f].server = s,
                       ![f].fence = server[s].generation, ![f].preserve = TRUE,
                       ![f].bindings = {[b EXCEPT !.enabled = @ /\ b \notin off]
                                        : b \in kept}]
    BY <1>4, Zenon
  <2>2. PICK kept \in SUBSET {b \in h.current : b.server = s}, off \in SUBSET h.current :
            handler' = [handler EXCEPT ![f].pc = "bind", ![f].server = s,
                ![f].fence = server[s].generation, ![f].preserve = TRUE,
                ![f].bindings = {[b EXCEPT !.enabled = @ /\ b \notin off] : b \in kept}]
    BY <2>1, Zenon
  <2>3. PICK row, bindings :
            /\ row = server[s]
            /\ bindings = {[b EXCEPT !.enabled = @ /\ b \notin off] : b \in kept}
    OBVIOUS
  <2>4. /\ row.generation \in Nat /\ row.generation # 0
        /\ row.generation \in 0 .. MaxServerGeneration
    BY <2>1, <2>2, <2>3, KnownFacts, StoredRows DEF Server
  <2>5. ASSUME NEW c \in bindings PROVE c \in Binding /\ c.server = s
    <3>1. PICK b \in kept : c = [b EXCEPT !.enabled = b.enabled /\ b \notin off]
      BY <2>3, <2>5
    <3>2. b \in Binding /\ b.server = s
      BY <1>2, <2>1, <2>2 DEF Handling
    <3>3. PICK enabled \in BOOLEAN : enabled = (b.enabled /\ b \notin off)
      OBVIOUS
    <3>4. c = [b EXCEPT !.enabled = enabled]
      BY <3>1, <3>3
    <3> QED
      BY <3>2, <3>4 DEF Binding
  <2>6. PICK g : g = [h EXCEPT !.pc = "bind", !.server = s, !.fence = row.generation,
                               !.preserve = TRUE, !.bindings = bindings]
    OBVIOUS
  <2>7. /\ g \in Handling /\ g.pc = "bind" /\ g.server = s /\ g.fence = row.generation
        /\ g.preserve = TRUE /\ g.bindings = bindings
    BY <1>2, <2>4, <2>5, <2>6 DEF Handling, HandlerSteps
  <2>8. LibraryFits(g, row)
    BY <2>4, <2>5, <2>7 DEF LibraryFits
  <2>9. Fits(g, serves, platform, row)
    BY <2>7, <2>8 DEF Fits, EditFits, TestFits, Tests, VerifyFits, SaveTestFits, AskFits,
                      RequestFits, Requests
  <2>10. handler' = [handler EXCEPT ![f] = g]
    BY <1>1, <1>2, <2>1, <2>2, <2>3, <2>6
  <2> QED
    BY <1>2, <2>3, <2>7, <2>9, <2>10, HandlerStepFits
<1>5. ASSUME NEW s \in Servers, Found(s),
             handler' = [handler EXCEPT ![f].pc = "discover", ![f].server = s,
                            ![f].fence = server[s].generation, ![f].current = {}]
      PROVE  StepFits
  <2>1. PICK row : row = server[s]
    OBVIOUS
  <2>2. /\ row.generation \in Nat /\ row.generation # 0
        /\ row.generation \in 0 .. MaxServerGeneration
    BY <1>5, <2>1, KnownFacts, StoredRows DEF Server
  <2>3. PICK g : g = [h EXCEPT !.pc = "discover", !.server = s, !.fence = row.generation,
                               !.current = {}]
    OBVIOUS
  <2>4. g \in Handling /\ g.pc = "discover" /\ g.server = s /\ g.fence = row.generation
    BY <1>2, <2>2, <2>3 DEF Handling, HandlerSteps
  <2>5. Fits(g, serves, platform, row)
    BY <2>2, <2>4 DEF Fits, EditFits, TestFits, Tests, VerifyFits, SaveTestFits, AskFits,
                      RequestFits, Requests, LibraryFits
  <2>6. handler' = [handler EXCEPT ![f] = g]
    BY <1>1, <1>2, <1>5, <2>1, <2>3
  <2> QED
    BY <1>2, <2>1, <2>4, <2>5, <2>6, HandlerStepFits
<1>6. CASE \E s \in Servers :
               /\ Found(s)
               /\ handler' = [handler EXCEPT ![f].pc = "discover", ![f].server = s,
                              ![f].fence = server[s].generation, ![f].current = {}]
  BY <1>5, <1>6, Zenon
<1> QED
  BY <1>1, <1>3, <1>4, <1>6, Zenon DEF ReadServers

LEMMA DiscoveringFits ==
    ASSUME ConfigurationInv, NEW f \in Handlers, DiscoverSources(f)
    PROVE  StepFits
<1>1. PICK h, s, row : h = handler[f] /\ s = h.server /\ row = server[s]
  OBVIOUS
<1>2. /\ h.pc = "discover" /\ h \in Handling /\ server' = server /\ f \in DOMAIN handler
      /\ LibraryFits(h, row)
  BY <1>1, KnownFacts DEF DiscoverSources, Stands, Fits, HandlersFit
<1>3. s \in Servers /\ h.fence \in 1 .. row.generation
  BY <1>1, <1>2 DEF LibraryFits
<1>4. CASE Respond(f)
  BY <1>2, <1>4, ResponseStepFits
<1>5. CASE handler' = [handler EXCEPT ![f].pc = "read", ![f].generation = row.generation]
  <2>1. row.generation \in Nat /\ row.generation \in 0 .. MaxServerGeneration
    BY <1>1, <1>3, KnownFacts, StoredRows
  <2>2. PICK g : g = [h EXCEPT !.pc = "read", !.generation = row.generation]
    OBVIOUS
  <2>3. /\ g \in Handling /\ g.pc = "read" /\ g.server = s /\ g.fence = h.fence
        /\ g.generation = row.generation
    <3>1. /\ "read" \in HandlerSteps /\ h \in Handling
          /\ row.generation \in 0 .. MaxServerGeneration /\ h.server = s
      BY <1>1, <1>2, <2>1 DEF HandlerSteps
    <3> QED
      BY ONLY <2>2, <3>1 DEF Handling
  <2>4. AskFits(g, row)
    BY <1>3, <2>1, <2>3 DEF AskFits
  <2>5. Fits(g, serves, platform, row)
    BY <2>3, <2>4 DEF Fits, EditFits, TestFits, Tests, VerifyFits, SaveTestFits,
                      RequestFits, Requests, LibraryFits
  <2>6. handler' = [handler EXCEPT ![f] = g]
    BY <1>1, <1>2, <1>5, <2>2
  <2> QED
    BY <1>1, <1>2, <2>3, <2>5, <2>6, HandlerStepFits
<1> QED
  BY <1>1, <1>4, <1>5 DEF DiscoverSources, Row

LEMMA SavingALibraryFits ==
    ASSUME ConfigurationInv, NEW f \in Handlers, SaveLibrary(f)
    PROVE  StepFits /\ library' \subseteq Binding
<1>1. StepFits
  BY ResponseStepFits DEF SaveLibrary
<1>2. library \subseteq Binding /\ handler[f].bindings \subseteq Binding
  BY KnownFacts DEF ConfigurationInv, ConfigurationTypeOK, Handling
<1> QED
  BY <1>1, <1>2 DEF SaveLibrary

-----------------------------------------------------------------------------
(* The invariant holds where a behavior begins, and every step keeps it    *)

LEMMA TestedServersFit ==
    ASSUME serves \in Worlds, NEW edit \in Edits, serves[edit.urls[1]] # Anonymous,
           NEW deployed
    PROVE  LET row == TestedServer(edit) IN
           row \in Server /\ Sound(serves, row) /\ Fitting(deployed, row)
<1>1. PICK urls, new, catalog, base :
          /\ urls = edit.urls /\ new = NewServer(edit)
          /\ catalog = serves[urls[1]] /\ base = urls[1]
  OBVIOUS
<1>2. /\ urls \in Seq(Urls) /\ urls # <<>> /\ IsInjective(urls)
      /\ Len(urls) \in Nat /\ Len(urls) # 0 /\ DOMAIN urls = 1 .. Len(urls)
      /\ \A i \in DOMAIN urls : urls[i] \in Urls
  BY <1>1, EditsAssumption, EmptySeq, LenProperties, ElementOfSeq
<1>3. /\ new \in Server /\ new \in Part /\ new.generation = 1
      /\ UrlsOf(new.endpoints) = urls /\ new.token = NoToken
      /\ new.endpoints = [i \in DOMAIN urls |-> Fresh(urls[i])]
      /\ new.password \in UpstreamPasswords
  BY <1>1, NewServersFit, EditsAssumption DEF Server
<1>4. 1 \in DOMAIN urls /\ Len(urls) \in DOMAIN urls
  BY <1>2
<1>5. base \in Urls /\ catalog \in Catalogs
  BY <1>1, <1>2, <1>4, WorldsAssumption
<1>6. PICK list, token, alike :
          /\ list = [i \in DOMAIN new.endpoints |->
                        IF serves[urls[i]] = catalog
                        THEN [new.endpoints[i] EXCEPT !.catalog = catalog, !.health = "healthy"]
                        ELSE [new.endpoints[i] EXCEPT !.health = "degraded"]]
          /\ token = IF alike THEN TokenOf(new, urls[Len(urls)]) ELSE NoToken
          /\ alike = \A i \in DOMAIN urls : serves[urls[i]] = catalog
  OBVIOUS
<1>7. ASSUME NEW i \in DOMAIN urls
      PROVE  /\ list[i] \in Endpoint /\ list[i].url = urls[i]
             /\ \/ /\ list[i].catalog = catalog /\ list[i].health = "healthy"
                   /\ serves[urls[i]] = catalog
                \/ /\ list[i].catalog = None /\ list[i].health = "degraded"
                   /\ serves[urls[i]] # catalog
  <2>1. PICK e : e = Fresh(urls[i])
    OBVIOUS
  <2>2. /\ e \in Endpoint /\ e.url = urls[i] /\ e.catalog = None
    BY <1>2, <2>1, FreshEndpoints
  <2>3. list[i] = IF serves[urls[i]] = catalog
                  THEN [e EXCEPT !.catalog = catalog, !.health = "healthy"]
                  ELSE [e EXCEPT !.health = "degraded"]
    BY <1>3, <1>6, <2>1
  <2> QED
    BY <1>5, <2>2, <2>3 DEF Endpoint, Healths
<1>8. list = [i \in DOMAIN urls |-> list[i]]
  BY <1>3, <1>6
<1>9. /\ list \in Seq(Endpoint) /\ UrlsOf(list) = urls /\ Injective(list) /\ list # <<>>
      /\ DOMAIN list = DOMAIN urls
  BY <1>2, <1>7, <1>8, EndpointsListed
<1>10. \A i \in DOMAIN list : Truthful(serves, list[i], base)
  BY <1>5, <1>7, <1>9, NoneAssumption DEF Truthful
<1>11. SomeServes(list, catalog)
  <2>1. list[1].catalog = catalog /\ list[1].health = "healthy"
    BY <1>1, <1>4, <1>7
  <2> QED
    BY <1>4, <1>9, <2>1 DEF SomeServes
<1>12. /\ token \in UpstreamToken \cup {NoToken}
       /\ token # NoToken => /\ token.generation = 1 /\ token.password = new.password
                             /\ token.url \in Range(urls)
  <2>1. PICK last : last = urls[Len(urls)]
    OBVIOUS
  <2>2. last \in Urls /\ last \in Range(urls)
    BY <1>2, <1>4, <2>1 DEF Range
  <2>3. 1 \in 1 .. MaxServerGeneration
    BY ServerBoundsAssumption
  <2> QED
    BY <1>3, <1>6, <2>1, <2>2, <2>3 DEF TokenOf, UpstreamToken
<1>13. PICK row : row = [new EXCEPT !.catalog = catalog, !.base = base, !.health = "healthy",
                                    !.endpoints = list, !.token = token]
  OBVIOUS
<1>14. TestedServer(edit) = row
  BY <1>1, <1>6, <1>13 DEF TestedServer
<1>15. /\ row \in Part /\ row.catalog = catalog /\ row.base = base /\ row.endpoints = list
       /\ row.token = token /\ row.generation = 1 /\ row.password = new.password
       /\ row.deleted = FALSE
  <2>1. new.deleted = FALSE
    BY <1>1 DEF NewServer, NoServer
  <2> QED
    BY <1>3, <1>5, <1>9, <1>12, <1>13, <2>1 DEF Part, Healths
<1>16. row \in Server
  BY <1>3, <1>9, <1>15, NoneAssumption DEF Server
<1>17. Sound(serves, row)
  BY <1>9, <1>10, <1>11, <1>15 DEF Sound
<1>18. Fitting(deployed, row)
  BY <1>9, <1>12, <1>15 DEF Fitting
<1> QED
  BY <1>14, <1>16, <1>17, <1>18

LEMMA NoServersFit ==
    ASSUME NEW world, NEW deployed
    PROVE  Sound(world, NoServer) /\ Fitting(deployed, NoServer)
<1>1. /\ NoServer.endpoints = <<>> /\ NoServer.health = "unknown"
      /\ NoServer.token = NoToken
  BY DEF NoServer
<1> QED
  BY <1>1 DEF Sound, Injective, Fitting

LEMMA ConfigurationBegins == ConfigurationInit => ConfigurationInv
<1>1. SUFFICES ASSUME ConfigurationInit PROVE ConfigurationInv
  OBVIOUS
<1>2. /\ platform \in Platforms /\ workload \in Workloads /\ serves \in Worlds
      /\ library = {} /\ handler = [f \in Handlers |-> Unoccupied] /\ started = 0
  BY <1>1 DEF ConfigurationInit, NoLibrary
<1>3. ServersFit(server, serves, platform)
  <2>1. CASE server = [s \in Servers |-> NoServer]
    BY <2>1, NoServersFit DEF ServersFit
  <2>2. CASE server # [s \in Servers |-> NoServer]
    <3>1. PICK s \in Servers, edit \in Edits : \E row :
              /\ server = [[t \in Servers |-> NoServer] EXCEPT ![s] = row]
              /\ \/ row = NewServer(edit)
                 \/ row = TestedServer(edit) /\ serves[edit.urls[1]] # Anonymous
      BY <1>1, <2>2 DEF ConfigurationInit
    <3>2. PICK row :
              /\ server = [[t \in Servers |-> NoServer] EXCEPT ![s] = row]
              /\ \/ row = NewServer(edit)
                 \/ row = TestedServer(edit) /\ serves[edit.urls[1]] # Anonymous
      BY <3>1
    <3>3. row \in Server /\ Sound(serves, row) /\ Fitting(platform, row)
      BY <1>2, <3>2, NewServersFit, TestedServersFit
    <3>4. /\ server = [t \in Servers |-> server[t]]
          /\ \A t \in Servers : server[t] = IF t = s THEN row ELSE NoServer
      BY <3>2
    <3> QED
      BY <3>3, <3>4, NoServersFit DEF ServersFit
  <2> QED
    BY <2>1, <2>2
<1>4. HandlersFit(handler, serves, platform, server)
  <2>1. /\ handler = [f \in Handlers |-> handler[f]]
        /\ \A f \in Handlers : handler[f] = Unoccupied
    BY <1>2
  <2> QED
    BY <2>1, UnoccupiedFits DEF HandlersFit
<1>5. ConfigurationTypeOK
  <2>1. 0 \in 0 .. MaxStarts[workload]
    BY <1>2, ServerBoundsAssumption
  <2> QED
    BY <1>2, <1>3, <1>4, <2>1 DEF ServersFit, HandlersFit, ConfigurationTypeOK
<1> QED
  BY <1>3, <1>4, <1>5 DEF ConfigurationInv

LEMMA StepsFit ==
    ASSUME ConfigurationInv, NEW f \in Handlers, HandlerStep(f)
    PROVE  StepFits
<1>1. CASE \/ SqliteCreateServer(f) \/ D1CreateServer(f)
           \/ BeginServerEdit(f) \/ SaveEdit(f) \/ DeleteServer(f)
  BY <1>1, CreatingFits, BeginningAnEditFits, SavingAnEditFits, DeletingFits
<1>2. CASE \/ BeginTest(f) \/ ProbeEndpoint(f) \/ VerifyEndpoint(f)
           \/ ReadLatest(f) \/ SaveTest(f)
  BY <1>2, BeginningATestFits, ProbingAnEndpointFits, VerifyingAnEndpointFits,
     ReadingTheLatestFits, SavingATestFits
<1>3. CASE \/ BeginRequest(f) \/ ReadServer(f) \/ Send(f) \/ LogIn(f) \/ D1RereadServer(f)
           \/ Replay(f) \/ CheckAnswer(f)
  BY <1>3, BeginningARequestFits, ReadingAServerFits, SendingFits, LoggingInFits,
     RereadingAServerFits, CheckingAnAnswerFits
<1>4. CASE \/ BeginLibrary(f) \/ ReadServers(f) \/ DiscoverSources(f)
           \/ SqliteSaveVirtualLibrary(f) \/ D1SaveVirtualLibrary(f)
  BY <1>4, BeginningALibraryFits, ReadingServersFits, DiscoveringFits, SavingALibraryFits
  DEF SqliteSaveVirtualLibrary, D1SaveVirtualLibrary
<1>5. CASE DeleteLibrary(f)
  BY <1>5, KnownFacts DEF DeleteLibrary, StepFits
<1> QED
  BY <1>1, <1>2, <1>3, <1>4, <1>5 DEF HandlerStep

\* What a step does to the rest.
LEMMA TheRestStays ==
    ASSUME ConfigurationInv, NEW f \in Handlers, HandlerStep(f)
    PROVE  /\ UNCHANGED surroundings /\ library' \subseteq Binding
           /\ \/ started' = started
              \/ started < MaxStarts[workload] /\ started' = started + 1
           /\ library' = library \/ library' = NoLibrary \/ SaveLibrary(f)
<1>1. library \subseteq Binding
  BY DEF ConfigurationInv, ConfigurationTypeOK
<1>2. CASE \/ SqliteCreateServer(f) \/ D1CreateServer(f)
           \/ BeginServerEdit(f) \/ SaveEdit(f) \/ DeleteServer(f)
  BY <1>1, <1>2 DEF SqliteCreateServer, D1CreateServer, BeginServerEdit, SaveEdit,
                    DeleteServer, StartHandling
<1>3. CASE \/ BeginTest(f) \/ ProbeEndpoint(f) \/ VerifyEndpoint(f)
           \/ ReadLatest(f) \/ SaveTest(f)
  BY <1>1, <1>3 DEF BeginTest, ProbeEndpoint, VerifyEndpoint, ReadLatest, SaveTest,
                    StartHandling
<1>4. CASE \/ BeginRequest(f) \/ ReadServer(f) \/ Send(f) \/ LogIn(f) \/ D1RereadServer(f)
           \/ Replay(f) \/ CheckAnswer(f)
  BY <1>1, <1>4 DEF BeginRequest, ReadServer, Send, LogIn, D1RereadServer, Replay,
                    CheckAnswer, StartHandling
<1>5. CASE BeginLibrary(f) \/ ReadServers(f) \/ DiscoverSources(f)
  BY <1>1, <1>5 DEF BeginLibrary, ReadServers, DiscoverSources, StartHandling
<1>6. CASE SqliteSaveVirtualLibrary(f) \/ D1SaveVirtualLibrary(f)
  <2>1. SaveLibrary(f)
    BY <1>6 DEF SqliteSaveVirtualLibrary, D1SaveVirtualLibrary
  <2> QED
    BY <2>1, SavingALibraryFits DEF SaveLibrary
<1>7. CASE DeleteLibrary(f)
  BY <1>7 DEF DeleteLibrary, StartHandling, NoLibrary
<1> QED
  BY <1>2, <1>3, <1>4, <1>5, <1>6, <1>7 DEF HandlerStep

LEMMA ConfigurationStays ==
    ConfigurationInv /\ [ConfigurationNext]_configurationVars => ConfigurationInv'
<1>1. SUFFICES ASSUME ConfigurationInv, [ConfigurationNext]_configurationVars
               PROVE  ConfigurationInv'
  OBVIOUS
<1>2. CASE UNCHANGED configurationVars
  BY <1>1, <1>2 DEF configurationVars, ConfigurationInv, ConfigurationTypeOK,
                    ServersFit, HandlersFit
<1>3. CASE ConfigurationNext
  <2>1. PICK f \in Handlers : HandlerStep(f)
    BY <1>3 DEF ConfigurationNext
  <2>2. StepFits
    BY <1>1, <2>1, StepsFit
  <2>3. /\ platform' = platform /\ workload' = workload /\ serves' = serves
        /\ library' \subseteq Binding
        /\ \/ started' = started
           \/ started < MaxStarts[workload] /\ started' = started + 1
    BY <1>1, <2>1, TheRestStays DEF surroundings
  <2>4. ServersFit(server', serves', platform')
    BY <2>2, <2>3 DEF StepFits
  <2>5. HandlersFit(handler', serves', platform', server')
    BY <2>2, <2>3 DEF StepFits
  <2>6. ConfigurationTypeOK'
    <3>1. /\ platform \in Platforms /\ workload \in Workloads /\ serves \in Worlds
          /\ started \in 0 .. MaxStarts[workload]
      BY <1>1 DEF ConfigurationInv, ConfigurationTypeOK
    <3>2. started' \in 0 .. MaxStarts[workload']
      BY <2>3, <3>1, ServerBoundsAssumption
    <3>3. \A s \in Servers : server'[s] \in Server \cup {NoServer}
      BY <2>4 DEF ServersFit
    <3>4. \A g \in Handlers : handler'[g] \in Handling
      BY <2>5 DEF HandlersFit
    <3> QED
      BY <2>3, <3>1, <3>2, <3>3, <3>4 DEF ConfigurationTypeOK
  <2> QED
    BY <2>4, <2>5, <2>6 DEF ConfigurationInv
<1> QED
  BY <1>1, <1>2, <1>3

-----------------------------------------------------------------------------
(* The theorems                                                            *)

\* The invariant holds in every state: what is stored of a server is true of its
\* endpoints and belongs to its present configuration, and so does what a handler
\* holds while the generation it read is the server's.
THEOREM ConfigurationHolds == ConfigurationSpec => []ConfigurationInv
<1>1. ConfigurationInit => ConfigurationInv
  BY ConfigurationBegins
<1>2. ConfigurationInv /\ [ConfigurationNext]_configurationVars => ConfigurationInv'
  BY ConfigurationStays
<1> QED
  BY <1>1, <1>2, PTL DEF ConfigurationSpec

\* The endpoints a request may fail over between all serve the catalog of the
\* server, and a server without one has at most one of them, however tests and
\* edits overlap: updateConnectionTest saves what it probed only under the
\* generation it probed, and probes again when that moved (eligibleEndpoints).
THEOREM FailoverKeepsTheCatalog == ConfigurationSpec => []EligibleEndpointsAgree
<1>1. ConfigurationInv => EligibleEndpointsAgree
  <2>1. SUFFICES ASSUME ConfigurationInv, NEW s \in Servers,
                        NEW url \in Range(EligibleEndpoints(server[s])),
                        NEW other \in Range(EligibleEndpoints(server[s]))
                 PROVE  /\ server[s].catalog # None => serves[url] = server[s].catalog
                        /\ server[s].catalog = None => url = other
    BY DEF EligibleEndpointsAgree
  <2>2. PICK row : row = server[s]
    OBVIOUS
  <2>3. row \in Part /\ Sound(serves, row)
    BY <2>1, <2>2, KnownFacts
  <2>4. PICK n \in DOMAIN row.endpoints :
            /\ row.endpoints[n].health = "healthy" /\ row.endpoints[n].catalog = row.catalog
            /\ row.endpoints[n].url = url
    BY <2>2, <2>3, EligibleEndpointsListed
  <2>5. PICK m \in DOMAIN row.endpoints :
            /\ row.endpoints[m].health = "healthy" /\ row.endpoints[m].catalog = row.catalog
            /\ row.endpoints[m].url = other
    BY <2>2, <2>3, EligibleEndpointsListed
  <2>6. Truthful(serves, row.endpoints[n], row.base) /\ Truthful(serves, row.endpoints[m], row.base)
    BY <2>3, <2>4, <2>5 DEF Sound
  <2> QED
    BY <2>2, <2>4, <2>5, <2>6 DEF Truthful
<1> QED
  BY <1>1, ConfigurationHolds, PTL

\* A source that is called eligible is among those that requests resolve, and its
\* server has an endpoint to be asked at: the health that isSourceEligible reads
\* is never that of endpoints an edit has replaced since (aggregateHealth,
\* saveServerConfiguration, resolveEligibleSources).
THEOREM EligibleSourcesHaveEndpoints == ConfigurationSpec => []EligibleSourcesAreServed
<1>1. ConfigurationInv => EligibleSourcesAreServed
  <2>1. SUFFICES ASSUME ConfigurationInv, NEW b \in library, SourceIsEligible(b)
                 PROVE  b \in EligibleSources /\ EligibleEndpoints(server[b.server]) # <<>>
    BY DEF EligibleSourcesAreServed
  <2>2. b.server \in Servers
    BY <2>1 DEF ConfigurationInv, ConfigurationTypeOK, Binding
  <2>3. PICK row : row = server[b.server]
    OBVIOUS
  <2>4. /\ row \in Part /\ Sound(serves, row) /\ row.health = "healthy"
        /\ row.catalog # None \/ row.base # None
    BY <2>1, <2>2, <2>3, KnownFacts DEF SourceIsEligible
  <2>5. PICK n \in DOMAIN row.endpoints :
            row.endpoints[n].health = "healthy" /\ row.endpoints[n].catalog = row.catalog
    BY <2>4 DEF Sound, SomeServes
  <2>6. EligibleEndpoints(row) # <<>>
    <3>1. PICK urls : urls = EligibleEndpoints(row)
      OBVIOUS
    <3>2. row.endpoints[n].url \in Range(urls)
      BY <2>4, <2>5, <3>1, EligibleEndpointsListed
    <3>3. urls \in Seq(Urls) /\ Range(urls) = {urls[i] : i \in 1 .. Len(urls)}
      BY <2>4, <3>1, EligibleEndpointsListed, RangeEquality
    <3>4. urls # <<>>
      <4>1. SUFFICES ASSUME urls = <<>> PROVE FALSE
        OBVIOUS
      <4>2. 1 .. Len(urls) = {}
        BY <4>1
      <4> QED
        BY <3>2, <3>3, <4>2
    <3> QED
      BY <3>1, <3>4
  <2>7. JoinedEndpoints(row) # {}
    <3>1. CASE row.catalog # None
      BY <2>5, <3>1 DEF JoinedEndpoints
    <3>2. CASE row.catalog = None
      <4>1. row.endpoints \in Seq(Endpoint)
        BY <2>4 DEF Part
      <4>2. 1 \in DOMAIN row.endpoints
        <5>1. PICK most : most = Len(row.endpoints)
          OBVIOUS
        <5>2. most \in Nat /\ DOMAIN row.endpoints = 1 .. most
          BY <4>1, <5>1, LenProperties
        <5> QED
          BY <2>5, <5>2
      <4> QED
        BY <2>4, <3>2, <4>2 DEF JoinedEndpoints
    <3> QED
      BY <3>1, <3>2
  <2>8. b \in EligibleSources
    BY <2>1, <2>3, <2>7 DEF EligibleSources
  <2> QED
    BY <2>3, <2>6, <2>8
<1> QED
  BY <1>1, ConfigurationHolds, PTL

\* A stored token, and one that a request sends, is of the configuration of its
\* row: of its generation, its password and one of its endpoints; on SQLite the
\* row a request sends it with is of the generation the request was made for, and
\* a deleted server has no token (saveServerResult compares the generation and,
\* on SQLite, that the server is there; saveServerConfiguration, deleteServer and
\* authenticateServer).
THEOREM TokensBelong == ConfigurationSpec => []TokensFitTheConfiguration
<1>1. ConfigurationInv => TokensFitTheConfiguration
  <2>1. SUFFICES ASSUME ConfigurationInv PROVE TokensFitTheConfiguration
    OBVIOUS
  <2>2. ASSUME NEW row, Fitting(platform, row) PROVE TokenFits(row)
    BY <2>2 DEF Fitting, TokenFits
  <2>3. ASSUME NEW s \in Servers PROVE TokenFits(server[s])
    BY <2>1, <2>2, KnownFacts
  <2>4. ASSUME NEW f \in Handlers, handler[f].pc \in {"send", "login", "replay"}
        PROVE  /\ TokenFits(handler[f].row)
               /\ platform = "sqlite" => handler[f].row.generation = handler[f].generation
    <3>1. RequestFits(handler[f], platform, server[handler[f].server])
      BY <2>1, KnownFacts DEF Fits
    <3>2. Requests(handler[f])
      BY <2>4 DEF Requests
    <3>3. /\ Fitting(platform, handler[f].row)
          /\ platform # "d1" => handler[f].row.generation = handler[f].generation
      BY <3>1, <3>2 DEF RequestFits
    <3>4. TokenFits(handler[f].row)
      BY <2>2, <3>3
    <3> QED
      BY <3>3, <3>4
  <2> QED
    BY <2>3, <2>4 DEF TokensFitTheConfiguration
<1> QED
  BY <1>1, ConfigurationHolds, PTL

\* A source that a library gains was discovered under the generation its server
\* has when the library is saved, unless that server is disabled and keeps what it
\* had: the fences of saveVirtualLibrary leave no edit unnoticed between
\* validateSources and the save.
THEOREM LibrariesBindWhatIsThere == ConfigurationSpec => BindingsAreCurrent
<1>1. ConfigurationInv /\ [ConfigurationNext]_configurationVars =>
          [\A b \in library' \ library :
               /\ Found(b.server)
               /\ server[b.server].enabled => b.at = server[b.server].generation]_configurationVars
  <2>1. SUFFICES ASSUME ConfigurationInv, ConfigurationNext, NEW b \in library' \ library
                 PROVE  /\ Found(b.server)
                        /\ server[b.server].enabled => b.at = server[b.server].generation
    OBVIOUS
  <2>2. PICK f \in Handlers : HandlerStep(f)
    BY <2>1 DEF ConfigurationNext
  <2>3. SaveLibrary(f)
    BY <2>1, <2>2, TheRestStays DEF NoLibrary
  <2>4. PICK h : h = handler[f]
    OBVIOUS
  <2>5. h.pc = "bind" /\ LibraryFenceHolds(f) /\ b \in h.bindings
    BY <2>1, <2>3, <2>4 DEF SaveLibrary, Stands
  <2>6. LibraryFits(h, server[h.server])
    BY <2>1, <2>4, KnownFacts DEF Fits
  <2>7. PICK row : row = server[h.server]
    OBVIOUS
  <2>8. /\ b.server = h.server /\ h.server \in Servers
        /\ ~h.preserve => b.at \in h.fence .. row.generation
    BY <2>5, <2>6, <2>7 DEF LibraryFits
  <2>9. /\ Found(h.server) /\ row.generation = h.fence
        /\ h.preserve => ~row.enabled
    BY <2>4, <2>5, <2>7 DEF LibraryFenceHolds, Row
  <2>10. row.generation \in Nat /\ row \in Part
    BY <2>1, <2>7, <2>8, KnownFacts
  <2>11. ~h.preserve => b.at = row.generation
    BY <2>8, <2>9, <2>10
  <2> QED
    BY <2>7, <2>8, <2>9, <2>11
<1> QED
  BY <1>1, ConfigurationHolds, PTL DEF ConfigurationSpec, BindingsAreCurrent

-----------------------------------------------------------------------------
(* The two duties of the server                                            *)

\* A behavior of the two is one of each, so that what was proved of one holds of them: they
\* share neither tables nor requests.
THEOREM DutiesAreApart == AdministrationSpec => ConnectionsSpec /\ ConfigurationSpec
<1>1. AdministrationInit => ConnectionsInit /\ ConfigurationInit
  BY DEF AdministrationInit
<1>2. [AdministrationNext]_administrationVars =>
          [ConnectionsNext]_allVars /\ [ConfigurationNext]_configurationVars
  <2>1. CASE AdministrationNext
    BY <2>1 DEF AdministrationNext, Authenticating, Administering
  <2>2. CASE UNCHANGED administrationVars
    BY <2>2 DEF administrationVars
  <2> QED
    BY <2>1, <2>2
<1> QED
  BY <1>1, <1>2, PTL DEF AdministrationSpec, ConnectionsSpec, ConfigurationSpec

\* The tables, requests and histories of either duty are of their types.
THEOREM AdministrationTyped == AdministrationSpec => []AdministrationTypeOK
<1>1. ConfigurationInv => ConfigurationTypeOK
  BY DEF ConfigurationInv
<1>2. ConnectionsTypeOK /\ ConfigurationTypeOK => AdministrationTypeOK
  BY DEF AdministrationTypeOK
<1> QED
  BY <1>1, <1>2, DutiesAreApart, ConnectionsTyped, ConfigurationHolds, PTL

\* The limit of attempts in any window of time, and that of connections, hold for requests
\* that are counted at the same time (consumeAuthAttempt, createConnection).
THEOREM TheLimitsHold == AdministrationSpec => []LimitsHold
<1>1. AttemptsAreBounded /\ ConnectionsAreLimited => LimitsHold
  BY DEF LimitsHold
<1> QED
  BY <1>1, DutiesAreApart, AttemptsAreLimited, LimitedConnections, PTL
=============================================================================
