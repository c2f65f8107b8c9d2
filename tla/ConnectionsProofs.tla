-------------------------- MODULE ConnectionsProofs --------------------------
(***************************************************************************)
(* Connections and the tokens granted on them: for any number of requests  *)
(* at once, of which none is a transaction.                                *)
(***************************************************************************)
EXTENDS AccountsProofs, FunctionTheorems

-----------------------------------------------------------------------------
(* The inductive invariant of connections                                  *)

ConsoleTypes ==
    /\ connections \subseteq Connection
    /\ links \subseteq Link
    /\ desk \in [Fibers -> Desk]
    /\ via \in [Ids -> Via]

\* Connections are numbered as they are created.
Numbered ==
    /\ \E n \in 0 .. Created : {row.id : row \in connections} = 1 .. n
    /\ \A row, other \in connections : row.id = other.id => row = other

\* What a fiber holds of a connection and of a token at the steps that use them.
DeskFits(f) ==
    /\ Is(f, "idle") => desk[f] = NoDesk /\ fiber[f].kind = "none"
    /\ fiber[f].kind \in {"update", "remove"} => desk[f].connection # 0
    /\ fiber[f].pc \in {"update", "remove", "take", "drop", "replace"} =>
           fiber[f].kind \in {"update", "remove"}
    /\ fiber[f].pc \in {"create", "insert"} => fiber[f].kind = "create"
    /\ fiber[f].pc \in {"owner", "grant", "link"} => desk[f].connection # 0
    /\ Is(f, "link") => desk[f].token \in 1 .. granted

DesksFit == \A f \in Fibers : DeskFits(f)

\* A token is granted before its connection is told.
GrantedFirst == \A id \in Ids : id > granted => via[id].connection = 0

\* The tokens of a connection that its revocation has to delete.
Owed(id) ==
    {token \in tokens : via[token.id].connection = id /\ ~via[token.id].late
                        /\ ~LoggingOut(token.id)}

OwedAreLinked ==
    \A id \in 1 .. Created, token \in tokens :
        token \in Owed(id) => [connection |-> id, token |-> token.id] \in links

OwedAreTaken ==
    \A f \in Fibers, id \in 1 .. Created :
        Is(f, "drop") /\ desk[f].connection = id =>
            \A token \in Owed(id) : token.id \in desk[f].rest

\* Nothing is owed, or a fiber is about to take it.
Settled(id) ==
    \/ Owed(id) = {}
    \/ \E f \in Fibers : fiber[f].pc \in {"take", "drop"} /\ desk[f].connection = id

RevokedAreSettled == \A row \in connections : row.revoked => Settled(row.id)

ConnectionsInv ==
    /\ ConsoleTypes /\ Numbered /\ DesksFit /\ GrantedFirst
    /\ OwedAreLinked /\ OwedAreTaken /\ RevokedAreSettled

USE NoPasswordAssumption, LimitsAssumption, BoundsAssumption, ConnectionsAssumption DEF Times

-----------------------------------------------------------------------------
(* What steps do to fibers and desks                                       *)

LEMMA Moved ==
    ASSUME AccountInv, NEW f \in Fibers, NEW pc, Goto(f, pc)
    PROVE  /\ fiber'[f].pc = pc /\ fiber'[f].kind = fiber[f].kind
           /\ fiber'[f].given = fiber[f].given
           /\ \A g \in Fibers \ {f} : fiber'[g] = fiber[g]
<1> PICK r : r = [fiber[f] EXCEPT !.pc = pc]
  OBVIOUS
<1>1. fiber[f] \in Fiber
  BY DEF AccountInv, FibersFit
<1>2. r.pc = pc /\ r.kind = fiber[f].kind /\ r.given = fiber[f].given
  BY <1>1 DEF Fiber
<1>3. fiber' = [fiber EXCEPT ![f] = r]
  BY DEF Goto, AccountInv, FibersFit
<1> QED
  BY <1>2, <1>3 DEF AccountInv, FibersFit

LEMMA FiberAnswered ==
    ASSUME AccountInv, NEW f \in Fibers, Answer(f)
    PROVE  /\ fiber'[f] = Idle /\ fiber'[f].pc = "idle" /\ fiber'[f].kind = "none"
           /\ \A g \in Fibers \ {f} : fiber'[g] = fiber[g]
  BY DEF Answer, Idle, AccountInv, FibersFit

\* Steps of the console at which a fiber's desk matters to others.
Own == {"owner", "grant", "insert", "link", "take", "drop", "replace", "erase"}

\* The fiber takes a step that is not one of those, nor leads to one.
Turned(f) ==
    /\ \A g \in Fibers \ {f} : fiber'[g] = fiber[g]
    /\ fiber[f].pc \notin Own /\ fiber'[f].pc \notin Own
    /\ fiber'[f].kind \in {"update", "remove"} => fiber'[f].kind = fiber[f].kind
    /\ fiber'[f].pc \in {"create", "update", "remove"} => fiber'[f].kind = fiber'[f].pc
    /\ fiber'[f].pc = "idle" => fiber'[f].kind = "none"

LEMMA TurnedTo ==
    ASSUME AccountInv, NEW f \in Fibers, fiber[f].pc \notin Own, NEW r,
           fiber' = [fiber EXCEPT ![f] = r], r.pc \notin Own \cup {"create", "update", "remove", "idle"},
           r.kind = fiber[f].kind \/ r.kind \notin {"update", "remove"}
    PROVE  Turned(f)
  BY DEF AccountInv, FibersFit, Turned

LEMMA TurnedByGoing ==
    ASSUME AccountInv, NEW f \in Fibers, fiber[f].pc \notin Own,
           NEW pc \in Steps \ (Own \cup {"create", "update", "remove", "idle"}), Goto(f, pc)
    PROVE  Turned(f)
  BY Moved DEF Turned

LEMMA TurnedByAnswering ==
    ASSUME AccountInv, NEW f \in Fibers, fiber[f].pc \notin Own, Answer(f)
    PROVE  Turned(f)
  BY FiberAnswered DEF Turned, Own

LEMMA RequestsTurn ==
    ASSUME AccountInv, NEW f \in Fibers,
           BeginAttempt(f) \/ BeginSession(f) \/ BeginLogout(f) \/ BeginChangePassword(f)
    PROVE  Turned(f)
<1>1. fiber[f].pc \notin Own
  BY DEF BeginAttempt, BeginSession, BeginLogout, BeginChangePassword, Is, Own
<1>2. CASE BeginAttempt(f)
  <2> PICK kind \in Attempts, password \in Passwords :
         fiber' = [fiber EXCEPT ![f] = [Idle EXCEPT
               !.pc = "consume", !.kind = kind, !.given = password]]
    BY <1>2 DEF BeginAttempt
  <2> PICK r : r = [Idle EXCEPT !.pc = "consume", !.kind = kind, !.given = password]
    OBVIOUS
  <2>1. fiber' = [fiber EXCEPT ![f] = r]
    OBVIOUS
  <2>2. r.pc = "consume" /\ r.kind = kind
    BY DEF Idle
  <2> QED
    BY <1>1, <2>1, <2>2, TurnedTo DEF Own, Attempts
<1>3. CASE BeginSession(f) \/ BeginLogout(f)
  <2> PICK kind \in {"session", "logout"}, id \in 1 .. granted :
         fiber' = [fiber EXCEPT ![f] = [Idle EXCEPT !.pc = "lookup", !.kind = kind, !.id = id]]
    BY <1>3 DEF BeginSession, BeginLogout
  <2> PICK r : r = [Idle EXCEPT !.pc = "lookup", !.kind = kind, !.id = id]
    OBVIOUS
  <2>1. fiber' = [fiber EXCEPT ![f] = r]
    OBVIOUS
  <2>2. r.pc = "lookup" /\ r.kind = kind
    BY DEF Idle
  <2> QED
    BY <1>1, <2>1, <2>2, TurnedTo DEF Own
<1>4. CASE BeginChangePassword(f)
  <2> PICK id \in 1 .. granted, password \in Passwords, next \in Passwords :
         fiber' = [fiber EXCEPT ![f] = [Idle EXCEPT
               !.pc = "lookup", !.kind = "change", !.id = id, !.given = password, !.next = next]]
    BY <1>4 DEF BeginChangePassword
  <2> PICK r : r = [Idle EXCEPT !.pc = "lookup", !.kind = "change", !.id = id,
                                !.given = password, !.next = next]
    OBVIOUS
  <2>1. fiber' = [fiber EXCEPT ![f] = r]
    OBVIOUS
  <2>2. r.pc = "lookup" /\ r.kind = "change"
    BY DEF Idle
  <2> QED
    BY <1>1, <2>1, <2>2, TurnedTo DEF Own
<1> QED
  BY <1>2, <1>3, <1>4

LEMMA LookupsTurn ==
    ASSUME AccountInv, NEW f \in Fibers,
           \/ SqliteLookupDashboardSession(f) \/ D1LookupDashboardSession(f)
           \/ D1RefreshDashboardSession(f)
    PROVE  Turned(f)
<1>1. fiber[f].pc \in {"lookup", "refresh"}
  BY DEF SqliteLookupDashboardSession, D1LookupDashboardSession, D1RefreshDashboardSession, Is
<1>2. fiber[f] \in Fiber /\ FiberFits(fiber[f], user) /\ fiber[f].kind \in LookedUp
  BY <1>1 DEF AccountInv, FibersFit, FiberFits
<1>3. CASE Answer(f)
  BY <1>1, <1>3, TurnedByAnswering DEF Own
<1>4. ASSUME NEW row \in sessions, Admitted(f, row), ~Answer(f)
      PROVE  Turned(f)
  <2> PICK pc : pc = CASE fiber[f].kind = "logout" -> "delete"
                       [] fiber[f].kind = "change" -> "read"
                       [] OTHER -> fiber[f].kind
    OBVIOUS
  <2> PICK r : r = [fiber[f] EXCEPT !.generation = row.generation, !.pc = pc]
    OBVIOUS
  <2>1. pc \in {"delete", "read"} \/ (pc = fiber[f].kind /\ pc \in ConsoleKinds)
    BY <1>2, <1>4 DEF Admitted, LookedUp
  <2>2. fiber' = [fiber EXCEPT ![f] = r]
    BY <1>4 DEF Admitted, AccountInv, FibersFit
  <2>3. r.pc = pc /\ r.kind = fiber[f].kind
    BY <1>2 DEF Fiber
  <2> QED
    BY <1>1, <2>1, <2>2, <2>3 DEF Turned, Own, ConsoleKinds, AccountInv, FibersFit
<1>5. ASSUME NEW row \in sessions,
             fiber' = [fiber EXCEPT ![f].pc = "refresh", ![f].generation = row.generation]
      PROVE  Turned(f)
  <2> PICK r : r = [fiber[f] EXCEPT !.pc = "refresh", !.generation = row.generation]
    OBVIOUS
  <2>1. fiber' = [fiber EXCEPT ![f] = r]
    BY <1>5 DEF AccountInv, FibersFit
  <2>2. r.pc = "refresh" /\ r.kind = fiber[f].kind
    BY <1>2 DEF Fiber
  <2> QED
    BY <1>1, <2>1, <2>2, TurnedTo DEF Own
<1> QED
  BY <1>3, <1>4, <1>5 DEF SqliteLookupDashboardSession, D1LookupDashboardSession,
                          D1RefreshDashboardSession

LEMMA HandlesTurn ==
    ASSUME AccountInv, NEW f \in Fibers, Handle(f)
    PROVE  Turned(f)
<1>1. CASE BeginAttempt(f) \/ BeginSession(f) \/ BeginLogout(f) \/ BeginChangePassword(f)
  BY <1>1, RequestsTurn
<1>2. CASE \/ SqliteLookupDashboardSession(f) \/ D1LookupDashboardSession(f)
           \/ D1RefreshDashboardSession(f)
  BY <1>2, LookupsTurn
<1>3. ASSUME fiber[f].pc \notin Own, Answer(f) \/ \E pc \in {"count", "claim", "read", "clear",
                                                            "refused", "issue", "revoke"} : Goto(f, pc)
      PROVE  Turned(f)
  BY <1>3, TurnedByAnswering, TurnedByGoing DEF Steps, Own
<1>4. ASSUME fiber[f].pc \notin Own, NEW owner,
             fiber' = [fiber EXCEPT ![f].pc = "clear", ![f].known = owner]
      PROVE  Turned(f)
  <2> PICK r : r = [fiber[f] EXCEPT !.pc = "clear", !.known = owner]
    OBVIOUS
  <2>1. fiber' = [fiber EXCEPT ![f] = r]
    BY <1>4 DEF AccountInv, FibersFit
  <2>2. fiber[f] \in Fiber
    BY DEF AccountInv, FibersFit
  <2>3. r.pc = "clear" /\ r.kind = fiber[f].kind
    BY <2>2 DEF Fiber
  <2> QED
    BY <1>4, <2>1, <2>3, TurnedTo DEF Own
<1>5. \A row, old : LetThrough(f, row, old) => Goto(f, "claim") \/ Goto(f, "read")
  BY DEF LetThrough, Goto
<1>6. CASE \/ SqliteConsumeAuthAttempt(f) \/ D1OpenWindow(f) \/ D1CountAttempt(f)
  <2>1. fiber[f].pc \notin Own
    BY <1>6 DEF SqliteConsumeAuthAttempt, D1OpenWindow, D1CountAttempt, Is, Own
  <2>2. Answer(f) \/ Goto(f, "count") \/ \E row, old : LetThrough(f, row, old)
    BY <1>6 DEF SqliteConsumeAuthAttempt, D1OpenWindow, D1CountAttempt, Answer
  <2> QED
    BY <1>3, <1>5, <2>1, <2>2
<1>7. CASE SqliteClaimUser(f) \/ D1ClaimUser(f)
  <2>1. fiber[f].pc \notin Own
    BY <1>7 DEF SqliteClaimUser, D1ClaimUser, Is, Own
  <2> QED
    BY <1>3, <1>4, <1>7, <2>1 DEF SqliteClaimUser, D1ClaimUser, BecomeOwner
<1>8. CASE \/ ClearAuthAttempts(f) \/ VerifyCredentials(f) \/ AnswerInvalidCredentials(f)
           \/ GrantSession(f) \/ GrantEmbyToken(f) \/ DeleteDashboardSession(f)
           \/ VerifyCurrentPassword(f)
           \/ SqliteRevokeAuthentication(f) \/ D1RevokeAuthentication(f)
  <2>1. fiber[f].pc \notin Own
    BY <1>8 DEF ClearAuthAttempts, VerifyCredentials, AnswerInvalidCredentials, GrantSession,
                GrantEmbyToken, DeleteDashboardSession, VerifyCurrentPassword,
                SqliteRevokeAuthentication, D1RevokeAuthentication, Is, Own
  <2>2. \/ Answer(f) \/ Goto(f, "issue") \/ Goto(f, "refused") \/ Goto(f, "revoke")
        \/ fiber' = [fiber EXCEPT ![f].pc = "clear", ![f].known = user]
    BY <1>8 DEF ClearAuthAttempts, VerifyCredentials, AnswerInvalidCredentials, GrantSession,
                GrantEmbyToken, DeleteDashboardSession, VerifyCurrentPassword,
                SqliteRevokeAuthentication, D1RevokeAuthentication
  <2> QED
    BY <1>3, <1>4, <2>1, <2>2
<1> QED
  BY <1>1, <1>2, <1>6, <1>7, <1>8
     DEF Handle, SqliteIssueDashboardSession, D1IssueDashboardSession, SqliteIssueEmbyToken,
         D1IssueEmbyToken

\* The tokens of a step of Accounts: some go, and one granted now may come.
LEMMA AccountsTokens ==
    ASSUME AccountInv, Next
    PROVE  granted' \in Nat /\ granted' >= granted
           /\ \A token \in tokens' : token \in tokens \/ token.id = granted + 1
<1>1. granted \in Nat
  BY DEF AccountInv, AccountTypes
<1>2. \/ UNCHANGED granted /\ tokens' \subseteq tokens
      \/ granted' = granted + 1 /\ tokens' = tokens
      \/ /\ granted' = granted + 1
         /\ \E row : row.id = granted + 1 /\ tokens' = tokens \cup {row}
  <2>1. CASE \E f \in Fibers : GrantEmbyToken(f)
    <3> PICK f \in Fibers : GrantEmbyToken(f)
      BY <2>1
    <3> PICK row : row = [id |-> granted + 1, generation |-> user.generation,
                          proof |-> fiber[f].given]
      OBVIOUS
    <3>1. row.id = granted + 1
      OBVIOUS
    <3> QED
      BY <3>1 DEF GrantEmbyToken
  <2>2. CASE ~\E f \in Fibers : GrantEmbyToken(f)
    BY <2>2, ZenonT(60) DEF Next, RunMaintenance, Tick, Handle,
         BeginAttempt, BeginSession, BeginLogout, BeginChangePassword, SqliteConsumeAuthAttempt,
         D1OpenWindow, D1CountAttempt, ClearAuthAttempts, SqliteClaimUser, D1ClaimUser,
         VerifyCredentials, AnswerInvalidCredentials, SqliteIssueDashboardSession,
         D1IssueDashboardSession, SqliteIssueEmbyToken, D1IssueEmbyToken, GrantSession,
         SqliteLookupDashboardSession, D1LookupDashboardSession,
         D1RefreshDashboardSession, DeleteDashboardSession, VerifyCurrentPassword, accountVars,
         SqliteRevokeAuthentication, D1RevokeAuthentication
  <2> QED
    BY <2>1, <2>2
<1> QED
  BY <1>1, <1>2

-----------------------------------------------------------------------------
(* Steps that neither link nor revoke                                      *)

\* Nothing more is owed when no token of a connection comes and no logout is undone.
LEMMA OwedShrinks ==
    ASSUME UNCHANGED via,
           \A token \in tokens' : token \in tokens \/ via[token.id].connection = 0,
           \A token \in tokens' : LoggingOut(token.id) => LoggingOut(token.id)'
    PROVE  \A id \in 1 .. Created : \A token \in Owed(id)' : token \in Owed(id)
  BY DEF Owed

\* Logouts go on, and so do those that take and drop tokens.
Continues ==
    \A f \in Fibers :
        /\ Is(f, "erase") => fiber'[f] = fiber[f] /\ desk'[f] = desk[f]
        /\ fiber'[f].pc = "drop" => Is(f, "drop") /\ desk'[f] = desk[f]
        /\ fiber[f].pc \in {"take", "drop"} =>
               fiber'[f].pc \in {"take", "drop"} /\ desk'[f].connection = desk[f].connection

LEMMA LogoutsGoOn ==
    ASSUME Continues, NEW id, LoggingOut(id)
    PROVE  LoggingOut(id)'
  BY DEF Continues, LoggingOut, At, Is

LEMMA RevocationsGoOn ==
    ASSUME \A id \in 1 .. Created : \A token \in Owed(id)' : token \in Owed(id),
           \A f \in Fibers, id \in 1 .. Created :
               fiber[f].pc \in {"take", "drop"} /\ desk[f].connection = id =>
                   \/ fiber'[f].pc \in {"take", "drop"} /\ desk'[f].connection = id
                   \/ Owed(id)' = {},
           NEW id \in 1 .. Created, Settled(id)
    PROVE  Settled(id)'
<1>1. CASE Owed(id) = {}
  BY <1>1 DEF Settled
<1>2. CASE \E f \in Fibers : fiber[f].pc \in {"take", "drop"} /\ desk[f].connection = id
  BY <1>2 DEF Settled
<1> QED
  BY <1>1, <1>2 DEF Settled

\* Steps that may change connections, but no token of theirs.
LEMMA OwedStays ==
    ASSUME AccountInv, ConnectionsInv, Continues,
           UNCHANGED <<links, via>>, granted' \in Nat, granted' >= granted,
           \A token \in tokens' : token \in tokens \/ via[token.id].connection = 0
    PROVE  /\ GrantedFirst' /\ OwedAreLinked' /\ OwedAreTaken'
           /\ \A id \in 1 .. Created : Settled(id) => Settled(id)'
<1>2. GrantedFirst'
  BY DEF ConnectionsInv, GrantedFirst, AccountInv, AccountTypes, Ids
<1>3. \A id \in 1 .. Created : \A token \in Owed(id)' : token \in Owed(id)
  BY OwedShrinks, LogoutsGoOn
<1>4. OwedAreLinked'
  BY <1>3 DEF ConnectionsInv, OwedAreLinked, Owed
<1>5. OwedAreTaken'
  <2> SUFFICES ASSUME NEW f \in Fibers, NEW id \in 1 .. Created, fiber'[f].pc = "drop",
                      desk'[f].connection = id, NEW token \in Owed(id)'
               PROVE  token.id \in desk'[f].rest
    BY DEF OwedAreTaken, Is
  <2>1. Is(f, "drop") /\ desk'[f] = desk[f]
    BY DEF Continues
  <2> QED
    BY <1>3, <2>1 DEF ConnectionsInv, OwedAreTaken
<1>6. \A f \in Fibers, id \in 1 .. Created :
         fiber[f].pc \in {"take", "drop"} /\ desk[f].connection = id =>
             fiber'[f].pc \in {"take", "drop"} /\ desk'[f].connection = id
  BY DEF Continues
<1> QED
  BY <1>2, <1>3, <1>4, <1>5, <1>6, RevocationsGoOn

LEMMA StepsApart ==
    ASSUME AccountInv, ConnectionsInv, Continues, DesksFit', desk' \in [Fibers -> Desk],
           UNCHANGED <<connections, links, via>>, granted' \in Nat, granted' >= granted,
           \A token \in tokens' : token \in tokens \/ via[token.id].connection = 0
    PROVE  ConnectionsInv'
<1>1. ConsoleTypes' /\ Numbered'
  BY DEF ConnectionsInv, ConsoleTypes, Numbered
<1>2. GrantedFirst' /\ OwedAreLinked' /\ OwedAreTaken'
      /\ \A id \in 1 .. Created : Settled(id) => Settled(id)'
  BY OwedStays
<1>3. RevokedAreSettled'
  BY <1>2 DEF ConnectionsInv, ConsoleTypes, Connection, RevokedAreSettled
<1> QED
  BY <1>1, <1>2, <1>3 DEF ConnectionsInv

LEMMA AccountsStepKeeps ==
    ASSUME AccountInv, ConnectionsInv, AccountsStep
    PROVE  ConnectionsInv'
<1>1. /\ UNCHANGED <<connections, links, via>>
      /\ desk' = [f \in Fibers |-> IF fiber'[f].pc = "idle" THEN NoDesk ELSE desk[f]]
  BY DEF AccountsStep
<1>2. \/ UNCHANGED fiber
      \/ \E f \in Fibers : Turned(f)
  BY HandlesTurn DEF AccountsStep, Next, RunMaintenance, Tick
<1>3. desk' \in [Fibers -> Desk]
  BY <1>1 DEF ConnectionsInv, ConsoleTypes, NoDesk, Desk
<1>4. granted' \in Nat /\ granted' >= granted
      /\ \A token \in tokens' : token \in tokens \/ token.id = granted + 1
  BY AccountsTokens DEF AccountsStep
<1>5. \A token \in tokens' : token \in tokens \/ via[token.id].connection = 0
  <2>1. granted \in Nat /\ tokens' \subseteq Token
    BY AccountsStepBySteps DEF AccountInv, AccountTypes, AccountsStep
  <2> QED
    BY <1>4, <2>1 DEF ConnectionsInv, GrantedFirst, Token
<1>6. Continues
  BY <1>1, <1>2 DEF Continues, Turned, Own, Is
<1>7. DesksFit'
  <2> SUFFICES ASSUME NEW f \in Fibers
               PROVE  /\ fiber'[f].pc = "idle" => desk'[f] = NoDesk /\ fiber'[f].kind = "none"
                      /\ fiber'[f].kind \in {"update", "remove"} => desk'[f].connection # 0
                      /\ fiber'[f].pc \in {"update", "remove", "take", "drop", "replace"} =>
                             fiber'[f].kind \in {"update", "remove"}
                      /\ fiber'[f].pc \in {"create", "insert"} => fiber'[f].kind = "create"
                      /\ fiber'[f].pc \in {"owner", "grant", "link"} => desk'[f].connection # 0
                      /\ fiber'[f].pc = "link" => desk'[f].token \in 1 .. granted'
    BY DEF DesksFit, DeskFits, Is
  <2>1. desk'[f] = IF fiber'[f].pc = "idle" THEN NoDesk ELSE desk[f]
    BY <1>1
  <2>2. /\ fiber[f].pc = "idle" => desk[f] = NoDesk /\ fiber[f].kind = "none"
        /\ fiber[f].kind \in {"update", "remove"} => desk[f].connection # 0
        /\ fiber[f].pc \in {"update", "remove", "take", "drop", "replace"} =>
               fiber[f].kind \in {"update", "remove"}
        /\ fiber[f].pc \in {"create", "insert"} => fiber[f].kind = "create"
        /\ fiber[f].pc \in {"owner", "grant", "link"} => desk[f].connection # 0
        /\ fiber[f].pc = "link" => desk[f].token \in 1 .. granted
    BY DEF ConnectionsInv, DesksFit, DeskFits, Is
  <2>3. granted \in Nat
    BY DEF AccountInv, AccountTypes
  <2>4. CASE fiber'[f] = fiber[f]
    BY <1>4, <2>1, <2>2, <2>3, <2>4
  <2>5. CASE Turned(f)
    BY <2>1, <2>2, <2>5 DEF Turned, Own
  <2> QED
    BY <1>2, <2>4, <2>5 DEF Turned
<1> QED
  BY <1>1, <1>3, <1>4, <1>5, <1>6, <1>7, StepsApart

-----------------------------------------------------------------------------
(* Steps of the console that neither link nor revoke                       *)

\* Only this fiber and its desk change.
Alone(f) ==
    \A g \in Fibers \ {f} : fiber'[g] = fiber[g] /\ desk'[g] = desk[g]

LEMMA OneDesk ==
    ASSUME AccountInv, ConnectionsInv, NEW f \in Fibers, Alone(f), DeskFits(f)',
           granted' \in Nat, granted' >= granted
    PROVE  DesksFit'
<1>1. granted \in Nat
  BY DEF AccountInv, AccountTypes
<1> SUFFICES ASSUME NEW g \in Fibers \ {f}
             PROVE  DeskFits(g)'
  BY DEF DesksFit
<1>2. DeskFits(g) /\ fiber'[g] = fiber[g] /\ desk'[g] = desk[g]
  BY DEF Alone, ConnectionsInv, DesksFit
<1>3. 1 .. granted \subseteq 1 .. granted'
  BY <1>1
<1> QED
  BY <1>2, <1>3 DEF DeskFits, Is

LEMMA Leaves ==
    ASSUME AccountInv, ConnectionsInv, NEW f \in Fibers, Leave(f)
    PROVE  /\ fiber'[f].pc = "idle" /\ desk' \in [Fibers -> Desk] /\ Alone(f)
           /\ DeskFits(f)'
<1>1. fiber'[f].pc = "idle" /\ fiber'[f].kind = "none"
      /\ \A g \in Fibers \ {f} : fiber'[g] = fiber[g]
  BY FiberAnswered DEF Leave
<1>2. desk' = [desk EXCEPT ![f] = NoDesk] /\ NoDesk \in Desk /\ desk \in [Fibers -> Desk]
  BY DEF Leave, NoDesk, Desk, ConnectionsInv, ConsoleTypes
<1> QED
  BY <1>1, <1>2 DEF Alone, DeskFits, Is

\* What a desk becomes.
LEMMA DeskTakes ==
    ASSUME ConnectionsInv, NEW f \in Fibers
    PROVE  /\ \A id \in 0 .. Created : desk' = [desk EXCEPT ![f].connection = id] =>
                  /\ desk' \in [Fibers -> Desk] /\ desk'[f].connection = id
                  /\ \A g \in Fibers \ {f} : desk'[g] = desk[g]
           /\ \A id \in 0 .. MaxGrants : desk' = [desk EXCEPT ![f].token = id] =>
                  /\ desk' \in [Fibers -> Desk] /\ desk'[f].token = id
                  /\ desk'[f].connection = desk[f].connection
                  /\ \A g \in Fibers \ {f} : desk'[g] = desk[g]
           /\ \A rest \in SUBSET Ids : desk' = [desk EXCEPT ![f].rest = rest] =>
                  /\ desk' \in [Fibers -> Desk] /\ desk'[f].rest = rest
                  /\ desk'[f].connection = desk[f].connection
                  /\ desk'[f].token = desk[f].token
                  /\ \A g \in Fibers \ {f} : desk'[g] = desk[g]
<1>1. desk \in [Fibers -> Desk] /\ desk[f] \in Desk
  BY DEF ConnectionsInv, ConsoleTypes
<1>2. ASSUME NEW id \in 0 .. Created, desk' = [desk EXCEPT ![f].connection = id]
      PROVE  /\ desk' \in [Fibers -> Desk] /\ desk'[f].connection = id
             /\ \A g \in Fibers \ {f} : desk'[g] = desk[g]
  <2> PICK d : d = [desk[f] EXCEPT !.connection = id]
    OBVIOUS
  <2>1. d \in Desk /\ d.connection = id
    BY <1>1 DEF Desk
  <2>2. desk' = [desk EXCEPT ![f] = d]
    BY <1>2
  <2> QED
    BY <1>1, <2>1, <2>2
<1>3. ASSUME NEW id \in 0 .. MaxGrants, desk' = [desk EXCEPT ![f].token = id]
      PROVE  /\ desk' \in [Fibers -> Desk] /\ desk'[f].token = id
             /\ desk'[f].connection = desk[f].connection
             /\ \A g \in Fibers \ {f} : desk'[g] = desk[g]
  <2> PICK d : d = [desk[f] EXCEPT !.token = id]
    OBVIOUS
  <2>1. d \in Desk /\ d.token = id /\ d.connection = desk[f].connection
    BY <1>1 DEF Desk
  <2>2. desk' = [desk EXCEPT ![f] = d]
    BY <1>3
  <2> QED
    BY <1>1, <2>1, <2>2
<1>4. ASSUME NEW rest \in SUBSET Ids, desk' = [desk EXCEPT ![f].rest = rest]
      PROVE  /\ desk' \in [Fibers -> Desk] /\ desk'[f].rest = rest
             /\ desk'[f].connection = desk[f].connection
             /\ desk'[f].token = desk[f].token
             /\ \A g \in Fibers \ {f} : desk'[g] = desk[g]
  <2> PICK d : d = [desk[f] EXCEPT !.rest = rest]
    OBVIOUS
  <2>1. d \in Desk /\ d.rest = rest /\ d.connection = desk[f].connection
        /\ d.token = desk[f].token
    BY <1>1 DEF Desk
  <2>2. desk' = [desk EXCEPT ![f] = d]
    BY <1>4
  <2> QED
    BY <1>1, <2>1, <2>2
<1> QED
  BY <1>2, <1>3, <1>4

\* A step of a fiber that neither takes, drops nor erases.
LEMMA StepApart ==
    ASSUME AccountInv, ConnectionsInv, NEW f \in Fibers, Alone(f), DeskFits(f)',
           desk' \in [Fibers -> Desk],
           fiber[f].pc \notin {"erase", "take", "drop"}, fiber'[f].pc # "drop",
           UNCHANGED <<connections, links, via>>, granted' \in Nat, granted' >= granted,
           \A token \in tokens' : token \in tokens \/ via[token.id].connection = 0
    PROVE  ConnectionsInv'
<1>1. Continues
  BY DEF Continues, Alone, Is
<1> QED
  BY <1>1, OneDesk, StepsApart

LEMMA DevicesBegin ==
    ASSUME AccountInv, ConnectionsInv, NEW f \in Fibers,
           VerifyConnection(f) \/ ReadOwner(f) \/ BeginUnlink(f)
    PROVE  ConnectionsInv'
<1>1. UNCHANGED <<tokens, connections, links, via, granted>>
      /\ granted' \in Nat /\ granted' >= granted
  BY DEF VerifyConnection, ReadOwner, BeginUnlink, Stay, AccountInv, AccountTypes
<1>2. fiber[f].pc \notin {"erase", "take", "drop"}
  BY DEF VerifyConnection, ReadOwner, BeginUnlink, Is
<1>3. DeskFits(f) /\ fiber[f] \in Fiber
  BY DEF ConnectionsInv, DesksFit, AccountInv, FibersFit
<1>4. CASE VerifyConnection(f)
  <2> PICK row \in connections : desk' = [desk EXCEPT ![f].connection = row.id]
    BY <1>4 DEF VerifyConnection, Active
  <2>1. row.id \in 1 .. Created
    BY DEF ConnectionsInv, ConsoleTypes, Connection
  <2> PICK id : id = row.id
    OBVIOUS
  <2>2. desk' = [desk EXCEPT ![f].connection = id] /\ id \in 0 .. Created
    BY <2>1
  <2>3. desk' \in [Fibers -> Desk] /\ desk'[f].connection = id
        /\ \A g \in Fibers \ {f} : desk'[g] = desk[g]
    BY <2>2, DeskTakes
  <2>4. fiber'[f].pc = "owner" /\ fiber'[f].kind = "emby" /\ Alone(f)
    BY <1>4, <2>3, Moved DEF VerifyConnection, Alone
  <2>5. DeskFits(f)'
    BY <2>1, <2>3, <2>4 DEF DeskFits, Is
  <2> QED
    BY <1>1, <1>2, <2>3, <2>4, <2>5, StepApart
<1>5. CASE ReadOwner(f)
  <2>1. CASE Leave(f)
    BY <1>1, <1>2, <2>1, Leaves, StepApart
  <2>2. CASE UNCHANGED desk /\ fiber' = [fiber EXCEPT ![f].pc = "grant", ![f].known = user]
    <3> PICK r : r = [fiber[f] EXCEPT !.pc = "grant", !.known = user]
      OBVIOUS
    <3>1. fiber' = [fiber EXCEPT ![f] = r]
      BY <2>2 DEF AccountInv, FibersFit
    <3>2. r.pc = "grant" /\ r.kind = fiber[f].kind
      BY <1>3 DEF Fiber
    <3>3. Alone(f) /\ fiber'[f] = r
      BY <2>2, <3>1 DEF Alone, AccountInv, FibersFit
    <3>4. DeskFits(f)'
      BY <1>3, <1>5, <2>2, <3>2, <3>3 DEF DeskFits, Is, ReadOwner
    <3> QED
      BY <1>1, <1>2, <2>2, <3>2, <3>3, <3>4, StepApart DEF ConnectionsInv, ConsoleTypes
  <2> QED
    BY <1>5, <2>1, <2>2 DEF ReadOwner
<1>6. CASE BeginUnlink(f)
  <2> PICK row \in tokens : desk' = [desk EXCEPT ![f].token = row.id]
    BY <1>6 DEF BeginUnlink
  <2>1. row.id \in Ids
    BY DEF AccountInv, AccountTypes, Token
  <2> PICK id : id = row.id
    OBVIOUS
  <2>2. desk' = [desk EXCEPT ![f].token = id] /\ id \in 0 .. MaxGrants
    BY <2>1 DEF Ids
  <2>3. desk' \in [Fibers -> Desk] /\ \A g \in Fibers \ {f} : desk'[g] = desk[g]
    BY <2>2, DeskTakes
  <2> PICK r : r = [Idle EXCEPT !.pc = "unlink", !.kind = "unlink"]
    OBVIOUS
  <2>4. fiber' = [fiber EXCEPT ![f] = r] /\ r.pc = "unlink" /\ r.kind = "unlink"
    BY <1>6 DEF BeginUnlink, Idle
  <2>5. fiber'[f].pc = "unlink" /\ fiber'[f].kind = "unlink" /\ Alone(f)
    BY <2>3, <2>4 DEF Alone, AccountInv, FibersFit
  <2>6. DeskFits(f)'
    BY <2>5 DEF DeskFits, Is
  <2> QED
    BY <1>1, <1>2, <2>3, <2>5, <2>6, StepApart
<1> QED
  BY <1>4, <1>5, <1>6

LEMMA TokenIsGranted ==
    ASSUME AccountInv, ConnectionsInv, NEW f \in Fibers, GrantToken(f)
    PROVE  ConnectionsInv'
<1>1. UNCHANGED <<connections, links, via>> /\ granted \in Nat
      /\ fiber[f].pc = "grant"
  BY DEF GrantToken, AccountInv, AccountTypes, Is
<1>2. CASE Leave(f) /\ UNCHANGED <<granted, tokens>>
  BY <1>1, <1>2, Leaves, StepApart
<1>3. CASE ~(Leave(f) /\ UNCHANGED <<granted, tokens>>)
  <2> PICK id : id = granted + 1
    OBVIOUS
  <2> PICK row : row = [id |-> id, proof |-> NoPassword, generation |-> user.generation]
    OBVIOUS
  <2>1. /\ granted < MaxGrants /\ granted' = id /\ tokens' = tokens \cup {row}
        /\ desk' = [desk EXCEPT ![f].token = id] /\ Goto(f, "link")
    BY <1>3 DEF GrantToken
  <2>2. id \in Ids /\ id \in 0 .. MaxGrants /\ id > granted /\ id \in Nat
    BY <1>1, <2>1 DEF Ids, AccountInv, AccountTypes
  <2>3. /\ desk' \in [Fibers -> Desk] /\ desk'[f].token = id
        /\ desk'[f].connection = desk[f].connection
        /\ \A g \in Fibers \ {f} : desk'[g] = desk[g]
    BY <2>1, <2>2, DeskTakes
  <2>4. fiber'[f].pc = "link" /\ fiber'[f].kind = fiber[f].kind /\ Alone(f)
    BY <2>1, <2>3, Moved DEF Alone
  <2>5. DeskFits(f)
    BY DEF ConnectionsInv, DesksFit
  <2>6. desk'[f].token \in 1 .. granted'
    BY <2>1, <2>2, <2>3 DEF Ids
  <2>7. DeskFits(f)'
    BY <1>1, <2>3, <2>4, <2>5, <2>6 DEF DeskFits, Is
  <2>8. via[row.id].connection = 0
    BY <2>2 DEF ConnectionsInv, GrantedFirst
  <2>9. \A token \in tokens' : token \in tokens \/ via[token.id].connection = 0
    BY <2>1, <2>8
  <2> QED
    BY <1>1, <2>1, <2>2, <2>3, <2>4, <2>7, <2>9, StepApart
<1> QED
  BY <1>2, <1>3

LEMMA ConsoleBegins ==
    ASSUME AccountInv, ConnectionsInv, NEW f \in Fibers,
           BeginConsole(f) \/ CountConnections(f) \/ FindConnection(f)
    PROVE  ConnectionsInv'
<1>7. UNCHANGED <<tokens, connections, links, via>> /\ Stay
  BY DEF BeginConsole, CountConnections, FindConnection
<1>1. UNCHANGED <<tokens, connections, links, via, granted>>
      /\ granted' \in Nat /\ granted' >= granted
  BY <1>7 DEF Stay, AccountInv, AccountTypes
<1>2. fiber[f].pc \notin {"erase", "take", "drop"}
  BY DEF BeginConsole, CountConnections, FindConnection, At, Is
<1>3. DeskFits(f) /\ fiber[f] \in Fiber
  BY DEF ConnectionsInv, DesksFit, AccountInv, FibersFit
<1>4. CASE BeginConsole(f)
  <2> PICK kind \in {"create", "update", "remove"}, id \in 1 .. granted, password \in Passwords :
         /\ fiber' = [fiber EXCEPT ![f] = [Idle EXCEPT
               !.pc = "lookup", !.kind = kind, !.id = id, !.given = password]]
         /\ IF kind = "create" THEN UNCHANGED desk
            ELSE \E row \in connections : desk' = [desk EXCEPT ![f].connection = row.id]
    BY <1>4 DEF BeginConsole
  <2> PICK r : r = [Idle EXCEPT !.pc = "lookup", !.kind = kind, !.id = id, !.given = password]
    OBVIOUS
  <2>1. fiber' = [fiber EXCEPT ![f] = r] /\ r.pc = "lookup" /\ r.kind = kind
    BY DEF Idle
  <2>2. fiber'[f].pc = "lookup" /\ fiber'[f].kind = kind
        /\ \A g \in Fibers \ {f} : fiber'[g] = fiber[g]
    BY <2>1 DEF AccountInv, FibersFit
  <2>3. CASE kind = "create"
    <3>1. UNCHANGED desk /\ Alone(f) /\ DeskFits(f)'
      BY <2>2, <2>3 DEF Alone, DeskFits, Is
    <3> QED
      BY <1>1, <1>2, <2>2, <3>1, StepApart DEF ConnectionsInv, ConsoleTypes
  <2>4. CASE kind # "create"
    <3> PICK row \in connections : desk' = [desk EXCEPT ![f].connection = row.id]
      BY <2>4
    <3>1. row.id \in 1 .. Created
      BY DEF ConnectionsInv, ConsoleTypes, Connection
    <3> PICK c : c = row.id
      OBVIOUS
    <3>2. desk' = [desk EXCEPT ![f].connection = c] /\ c \in 0 .. Created /\ c # 0
      BY <3>1
    <3>3. desk' \in [Fibers -> Desk] /\ desk'[f].connection = c
          /\ \A g \in Fibers \ {f} : desk'[g] = desk[g]
      BY <3>2, DeskTakes
    <3>4. Alone(f) /\ DeskFits(f)'
      BY <2>2, <3>2, <3>3 DEF Alone, DeskFits, Is
    <3> QED
      BY <1>1, <1>2, <2>2, <3>3, <3>4, StepApart
  <2> QED
    BY <2>3, <2>4
<1>5. CASE Leave(f)
  BY <1>1, <1>2, <1>5, Leaves, StepApart
<1>6. CASE UNCHANGED desk /\ ((Goto(f, "insert") /\ Is(f, "create")) \/ (Goto(f, "take") /\ Is(f, "update")))
  <2>1. /\ fiber'[f].pc \in {"insert", "take"} /\ fiber'[f].kind = fiber[f].kind /\ Alone(f)
        /\ fiber'[f].pc = "take" => fiber[f].pc = "update"
        /\ fiber'[f].pc = "insert" => fiber[f].pc = "create"
    BY <1>6, Moved DEF Alone, Is
  <2>2. DeskFits(f)'
    BY <1>3, <1>6, <2>1 DEF DeskFits, Is
  <2> QED
    BY <1>1, <1>2, <1>6, <2>1, <2>2, StepApart DEF ConnectionsInv, ConsoleTypes
<1> QED
  BY <1>4, <1>5, <1>6 DEF CountConnections, FindConnection, At

-----------------------------------------------------------------------------
(* Connections come and change                                             *)

\* The number of connections is the last of their ids.
LEMMA IdsCount ==
    ASSUME ConnectionsInv
    PROVE  /\ IsFiniteSet(connections) /\ Cardinality(connections) \in 0 .. Created
           /\ {row.id : row \in connections} = 1 .. Cardinality(connections)
<1> PICK n \in 0 .. Created : {row.id : row \in connections} = 1 .. n
  BY DEF ConnectionsInv, Numbered
<1> DEFINE number == [row \in connections |-> row.id]
<1>1. number \in Bijection(connections, 1 .. n)
  <2>1. number \in [connections -> 1 .. n]
    OBVIOUS
  <2>2. \A a, b \in connections : number[a] = number[b] => a = b
    BY DEF ConnectionsInv, Numbered
  <2>3. \A i \in 1 .. n : \E row \in connections : number[row] = i
    OBVIOUS
  <2> QED
    BY <2>1, <2>2, <2>3 DEF Bijection, Injection, Surjection, IsInjective
<1>2. IsFiniteSet(1 .. n) /\ Cardinality(1 .. n) = n
  BY FS_Interval
<1>3. IsFiniteSet(connections) /\ Cardinality(connections) = n
  <2>1. ExistsBijection(1 .. n, connections)
    BY <1>1, Fun_ExistsBijSymmetric DEF ExistsBijection
  <2> QED
    BY <1>2, <2>1, FS_Bijection
<1> QED
  BY <1>3

\* A step that leaves tokens and their connections alone.
LEMMA OnlyConnections ==
    ASSUME AccountInv, ConnectionsInv, NEW f \in Fibers, Alone(f), DeskFits(f)',
           desk' \in [Fibers -> Desk], UNCHANGED <<links, via, tokens, granted>>,
           fiber[f].pc \notin {"erase", "take", "drop"}, fiber'[f].pc # "drop",
           connections' \subseteq Connection, Numbered',
           \A row \in connections' : row.revoked => row \in connections \/ Settled(row.id)'
    PROVE  ConnectionsInv'
<1>1. Continues
  BY DEF Continues, Alone, Is
<1>2. granted' \in Nat /\ granted' >= granted
  BY DEF AccountInv, AccountTypes
<1>3. DesksFit'
  BY <1>2, OneDesk
<1>4. ConsoleTypes'
  BY DEF ConnectionsInv, ConsoleTypes
<1>5. GrantedFirst' /\ OwedAreLinked' /\ OwedAreTaken'
      /\ \A id \in 1 .. Created : Settled(id) => Settled(id)'
  BY <1>1, <1>2, OwedStays
<1>6. RevokedAreSettled'
  BY <1>5 DEF ConnectionsInv, ConsoleTypes, Connection, RevokedAreSettled
<1> QED
  BY <1>3, <1>4, <1>5, <1>6 DEF ConnectionsInv

LEMMA ConnectionIsInserted ==
    ASSUME AccountInv, ConnectionsInv, NEW f \in Fibers, InsertConnection(f)
    PROVE  ConnectionsInv'
<1> PICK n : n = Cardinality(connections)
  OBVIOUS
<1> PICK row : row = [id |-> n + 1, password |-> fiber[f].given, revoked |-> FALSE]
  OBVIOUS
<1>1. /\ n + 1 <= Created /\ connections' = connections \cup {row}
      /\ Leave(f) /\ UNCHANGED <<tokens, links, via, granted>> /\ fiber[f].pc = "insert"
  BY DEF InsertConnection, Stay, At, Is
<1>2. n \in Nat /\ {r.id : r \in connections} = 1 .. n
  BY IdsCount
<1>3. row \in Connection /\ row.id = n + 1 /\ ~row.revoked
  <2>2. fiber[f].kind = "create"
    BY <1>1 DEF ConnectionsInv, DesksFit, DeskFits
  <2>1. fiber[f].given \in Passwords
    BY <2>2 DEF AccountInv, FibersFit, FiberFits
  <2> QED
    BY <1>1, <1>2, <2>1 DEF Connection
<1>4. Numbered'
  <2>1. {r.id : r \in connections'} = 1 .. (n + 1)
    BY <1>1, <1>2, <1>3
  <2>2. \A a, b \in connections : a.id = b.id => a = b
    BY DEF ConnectionsInv, Numbered
  <2>3. \A a \in connections : a.id # row.id
    BY <1>2, <1>3
  <2>4. \A a, b \in connections' : a.id = b.id => a = b
    BY <1>1, <2>2, <2>3
  <2>5. n + 1 \in 0 .. Created
    BY <1>1, <1>2
  <2> QED
    BY <2>1, <2>4, <2>5 DEF Numbered
<1>5. connections' \subseteq Connection
  BY <1>1, <1>3 DEF ConnectionsInv, ConsoleTypes
<1>6. fiber'[f].pc # "drop" /\ Alone(f) /\ DeskFits(f)' /\ desk' \in [Fibers -> Desk]
  BY <1>1, Leaves
<1> QED
  BY <1>1, <1>3, <1>4, <1>5, <1>6, OnlyConnections

\* A connection that is replaced by one of the same number.
LEMMA NumbersStay ==
    ASSUME ConnectionsInv, NEW row \in connections, NEW new, new.id = row.id,
           connections' = (connections \ {row}) \cup {new}
    PROVE  Numbered'
<1>1. {r.id : r \in connections'} = {r.id : r \in connections}
  OBVIOUS
<1>2. \A a, b \in connections : a.id = b.id => a = b
  BY DEF ConnectionsInv, Numbered
<1>3. \A a, b \in connections' : a.id = b.id => a = b
  BY <1>2
<1> QED
  BY <1>1, <1>3 DEF ConnectionsInv, Numbered

LEMMA ConnectionIsMarked ==
    ASSUME AccountInv, ConnectionsInv, NEW f \in Fibers, MarkRevoked(f)
    PROVE  ConnectionsInv'
<1>1. UNCHANGED <<tokens, links, via, granted>> /\ fiber[f].pc = "remove"
  BY DEF MarkRevoked, Stay, At, Is
<1>2. CASE Leave(f) /\ UNCHANGED connections
  <2>1. fiber'[f].pc # "drop" /\ Alone(f) /\ DeskFits(f)' /\ desk' \in [Fibers -> Desk]
    BY <1>2, Leaves
  <2>2. connections' \subseteq Connection /\ Numbered'
    BY <1>2 DEF ConnectionsInv, ConsoleTypes, Numbered
  <2> QED
    BY <1>1, <1>2, <2>1, <2>2, OnlyConnections
<1>3. ASSUME NEW row \in connections, row.id = desk[f].connection,
             connections' = (connections \ {row}) \cup {[row EXCEPT !.revoked = TRUE]},
             Goto(f, "take"), UNCHANGED desk
      PROVE  ConnectionsInv'
  <2> PICK new : new = [row EXCEPT !.revoked = TRUE]
    OBVIOUS
  <2>1. new \in Connection /\ new.id = row.id
    BY DEF ConnectionsInv, ConsoleTypes, Connection
  <2>2. connections' \subseteq Connection /\ Numbered'
    BY <1>3, <2>1, NumbersStay DEF ConnectionsInv, ConsoleTypes
  <2>3. fiber'[f].pc = "take" /\ fiber'[f].kind = fiber[f].kind /\ Alone(f)
    BY <1>3, Moved DEF Alone
  <2>4. DeskFits(f)
    BY DEF ConnectionsInv, DesksFit
  <2>5. DeskFits(f)'
    BY <1>1, <1>3, <2>3, <2>4 DEF DeskFits, Is
  <2>6. Settled(new.id)'
    BY <1>3, <2>1, <2>3 DEF Settled
  <2> QED
    BY <1>1, <1>3, <2>2, <2>3, <2>5, <2>6, OnlyConnections DEF ConnectionsInv, ConsoleTypes
<1> QED
  BY <1>2, <1>3 DEF MarkRevoked, Active

LEMMA PasswordIsReplaced ==
    ASSUME AccountInv, ConnectionsInv, NEW f \in Fibers, ReplacePassword(f)
    PROVE  ConnectionsInv'
<1>1. UNCHANGED <<tokens, links, via, granted>> /\ fiber[f].pc = "replace" /\ Leave(f)
  BY DEF ReplacePassword, Stay, At, Is
<1>2. fiber'[f].pc # "drop" /\ Alone(f) /\ DeskFits(f)' /\ desk' \in [Fibers -> Desk]
  BY <1>1, Leaves
<1>3. fiber[f].given \in Passwords
  BY <1>1 DEF ConnectionsInv, DesksFit, DeskFits, AccountInv, FibersFit, FiberFits
<1> DEFINE new(row) == IF row.id = desk[f].connection /\ ~row.revoked
                       THEN [row EXCEPT !.password = fiber[f].given] ELSE row
<1>4. connections' = {new(row) : row \in connections}
  BY DEF ReplacePassword
<1>5. \A row \in connections : new(row) \in Connection /\ new(row).id = row.id
                               /\ (new(row).revoked => new(row) = row)
  BY <1>3 DEF ConnectionsInv, ConsoleTypes, Connection
<1> HIDE DEF new
<1>6. Numbered'
  <2>3. \A row \in connections : \E r \in connections' : r.id = row.id
    BY <1>4, <1>5
  <2>4. \A r \in connections' : \E row \in connections : r.id = row.id
    BY <1>4, <1>5
  <2>1. {r.id : r \in connections'} = {r.id : r \in connections}
    BY <2>3, <2>4
  <2>2. \A a, b \in connections' : a.id = b.id => a = b
    BY <1>4, <1>5 DEF ConnectionsInv, Numbered
  <2> QED
    BY <2>1, <2>2 DEF ConnectionsInv, Numbered
<1>7. connections' \subseteq Connection /\ \A row \in connections' : row.revoked => row \in connections
  BY <1>4, <1>5
<1> QED
  BY <1>1, <1>2, <1>6, <1>7, OnlyConnections

-----------------------------------------------------------------------------
(* Links and tokens come and go                                            *)

\* What a step leaves of the invariant when it changes neither connections nor
\* how tokens were granted, and grants none.
LEMMA OwedGoes ==
    ASSUME AccountInv, ConnectionsInv, NEW f \in Fibers, Alone(f), DeskFits(f)',
           desk' \in [Fibers -> Desk], links' \subseteq Link,
           UNCHANGED <<connections, via, granted>>,
           \A id \in 1 .. Created : \A token \in Owed(id)' : token \in Owed(id),
           fiber[f].pc \in {"take", "drop"} =>
               \/ fiber'[f].pc \in {"take", "drop"} /\ desk'[f].connection = desk[f].connection
               \/ \A id \in 1 .. Created : desk[f].connection = id => Owed(id)' = {},
           OwedAreLinked',
           \A id \in 1 .. Created : fiber'[f].pc = "drop" /\ desk'[f].connection = id =>
               \A token \in Owed(id)' : token.id \in desk'[f].rest
    PROVE  ConnectionsInv'
<1>1. granted' \in Nat /\ granted' >= granted
  BY DEF AccountInv, AccountTypes
<1>2. DesksFit'
  BY <1>1, OneDesk
<1>3. ConsoleTypes' /\ Numbered' /\ GrantedFirst'
  BY DEF ConnectionsInv, ConsoleTypes, Numbered, GrantedFirst
<1>4. OwedAreTaken'
  <2> SUFFICES ASSUME NEW g \in Fibers, NEW id \in 1 .. Created, fiber'[g].pc = "drop",
                      desk'[g].connection = id, NEW token \in Owed(id)'
               PROVE  token.id \in desk'[g].rest
    BY DEF OwedAreTaken, Is
  <2>1. CASE g = f
    BY <2>1
  <2>2. CASE g # f
    <3>1. fiber[g].pc = "drop" /\ desk'[g] = desk[g]
      BY <2>2 DEF Alone
    <3> QED
      BY <3>1 DEF ConnectionsInv, OwedAreTaken, Is
  <2> QED
    BY <2>1, <2>2
<1>5. \A g \in Fibers, id \in 1 .. Created :
         fiber[g].pc \in {"take", "drop"} /\ desk[g].connection = id =>
             \/ fiber'[g].pc \in {"take", "drop"} /\ desk'[g].connection = id
             \/ Owed(id)' = {}
  BY DEF Alone
<1>6. RevokedAreSettled'
  <2>1. \A id \in 1 .. Created : Settled(id) => Settled(id)'
    BY <1>5, RevocationsGoOn
  <2> QED
    BY <2>1 DEF ConnectionsInv, ConsoleTypes, Connection, RevokedAreSettled
<1> QED
  BY <1>2, <1>3, <1>4, <1>6 DEF ConnectionsInv

LEMMA TokensAreTaken ==
    ASSUME AccountInv, ConnectionsInv, NEW f \in Fibers, TakeTokens(f)
    PROVE  ConnectionsInv'
<1> PICK c : c = desk[f].connection
  OBVIOUS
<1> PICK rest : rest = TokensOf(c)
  OBVIOUS
<1>1. /\ UNCHANGED <<tokens, connections, links, via, granted>> /\ fiber[f].pc = "take"
      /\ desk' = [desk EXCEPT ![f].rest = rest] /\ Goto(f, "drop")
  BY DEF TakeTokens, Stay, At, Is
<1>2. rest \in SUBSET Ids
  BY DEF TokensOf, ConnectionsInv, ConsoleTypes, Link
<1>3. /\ desk' \in [Fibers -> Desk] /\ desk'[f].rest = rest /\ desk'[f].connection = c
      /\ desk'[f].token = desk[f].token /\ \A g \in Fibers \ {f} : desk'[g] = desk[g]
  BY <1>1, <1>2, DeskTakes
<1>4. fiber'[f].pc = "drop" /\ fiber'[f].kind = fiber[f].kind /\ Alone(f)
  BY <1>1, <1>3, Moved DEF Alone
<1>5. DeskFits(f)
  BY DEF ConnectionsInv, DesksFit
<1>6. DeskFits(f)'
  BY <1>1, <1>3, <1>4, <1>5 DEF DeskFits, Is
<1>7. \A id \in 1 .. Created : \A token \in Owed(id)' : token \in Owed(id)
  <2>1. \A id : LoggingOut(id) => LoggingOut(id)'
    BY <1>1, <1>4 DEF LoggingOut, At, Is, Alone
  <2> QED
    BY <1>1, <2>1, OwedShrinks
<1>8. OwedAreLinked'
  BY <1>1, <1>7 DEF ConnectionsInv, OwedAreLinked, Owed
<1>9. \A id \in 1 .. Created : c = id => \A token \in Owed(id)' : token.id \in rest
  <2> SUFFICES ASSUME c \in 1 .. Created, NEW token \in Owed(c)'
               PROVE  token.id \in rest
    OBVIOUS
  <2>1. token \in Owed(c) /\ token \in tokens
    BY <1>7 DEF Owed
  <2>2. [connection |-> c, token |-> token.id] \in links
    BY <2>1 DEF ConnectionsInv, OwedAreLinked
  <2> QED
    BY <2>2 DEF TokensOf
<1>10. links' \subseteq Link
  BY <1>1 DEF ConnectionsInv, ConsoleTypes
<1> QED
  BY <1>1, <1>3, <1>4, <1>6, <1>7, <1>8, <1>9, <1>10, OwedGoes

LEMMA TokenIsDropped ==
    ASSUME AccountInv, ConnectionsInv, NEW f \in Fibers, DropToken(f)
    PROVE  ConnectionsInv'
<1> PICK t \in desk[f].rest : /\ tokens' = {row \in tokens : row.id # t}
                              /\ desk' = [desk EXCEPT ![f].rest = @ \ {t}]
  BY DEF DropToken
<1> PICK rest : rest = desk[f].rest \ {t}
  OBVIOUS
<1>1. /\ UNCHANGED <<fiber, connections, links, via, granted>> /\ fiber[f].pc = "drop"
      /\ desk' = [desk EXCEPT ![f].rest = rest]
  <2>1. UNCHANGED <<fiber, connections, links, via, granted>> /\ fiber[f].pc = "drop"
    BY DEF DropToken, Stay, At, Is
  <2>2. desk[f] \in Desk
    BY DEF ConnectionsInv, ConsoleTypes
  <2> QED
    BY <2>1, <2>2 DEF ConnectionsInv, ConsoleTypes
<1>2. rest \in SUBSET Ids
  BY DEF ConnectionsInv, ConsoleTypes, Desk
<1>3. /\ desk' \in [Fibers -> Desk] /\ desk'[f].rest = rest
      /\ desk'[f].connection = desk[f].connection
      /\ desk'[f].token = desk[f].token /\ \A g \in Fibers \ {f} : desk'[g] = desk[g]
  <2>1. \A new \in SUBSET Ids : desk' = [desk EXCEPT ![f].rest = new] =>
           /\ desk' \in [Fibers -> Desk] /\ desk'[f].rest = new
           /\ desk'[f].connection = desk[f].connection
           /\ desk'[f].token = desk[f].token /\ \A g \in Fibers \ {f} : desk'[g] = desk[g]
    BY DeskTakes
  <2> QED
    BY <1>1, <1>2, <2>1
<1>4. Alone(f) /\ DeskFits(f)
  BY <1>1, <1>3 DEF Alone, ConnectionsInv, DesksFit
<1>6. DeskFits(f)'
  BY <1>1, <1>3, <1>4 DEF DeskFits, Is
<1>7. \A id \in 1 .. Created : \A token \in Owed(id)' : token \in Owed(id) /\ token.id # t
  <2>1. \A id : LoggingOut(id) => LoggingOut(id)'
    BY <1>1, <1>4 DEF LoggingOut, At, Is, Alone
  <2>2. \A id \in 1 .. Created : \A token \in Owed(id)' : token \in Owed(id)
    BY <1>1, <2>1, OwedShrinks
  <2>3. \A id \in 1 .. Created : \A token \in Owed(id)' : token.id # t
    BY DEF Owed
  <2> QED
    BY <2>2, <2>3
<1>8. OwedAreLinked'
  BY <1>1, <1>7 DEF ConnectionsInv, OwedAreLinked, Owed
<1>9. \A id \in 1 .. Created : desk[f].connection = id =>
         \A token \in Owed(id)' : token.id \in rest
  BY <1>1, <1>7 DEF ConnectionsInv, OwedAreTaken, Is
<1>10. links' \subseteq Link
  BY <1>1 DEF ConnectionsInv, ConsoleTypes
<1> QED
  BY <1>1, <1>3, <1>4, <1>6, <1>7, <1>8, <1>9, <1>10, OwedGoes

LEMMA LinksAreDropped ==
    ASSUME AccountInv, ConnectionsInv, NEW f \in Fibers, DropLinks(f)
    PROVE  ConnectionsInv'
<1> PICK c : c = desk[f].connection
  OBVIOUS
<1>1. /\ UNCHANGED <<tokens, connections, via, granted>> /\ fiber[f].pc = "drop"
      /\ links' = {link \in links : link.connection # c} /\ desk[f].rest = {}
  BY DEF DropLinks, Stay, At, Is
<1>2. DeskFits(f)
  BY DEF ConnectionsInv, DesksFit
<1>3. /\ Alone(f) /\ DeskFits(f)' /\ desk' \in [Fibers -> Desk]
      /\ fiber'[f].pc \in {"replace", "idle"}
  <2>1. CASE Leave(f)
    BY <2>1, Leaves
  <2>2. CASE Goto(f, "replace") /\ UNCHANGED desk
    <3>1. fiber'[f].pc = "replace" /\ fiber'[f].kind = fiber[f].kind /\ Alone(f)
      BY <2>2, Moved DEF Alone
    <3>2. DeskFits(f)'
      BY <1>1, <1>2, <2>2, <3>1 DEF DeskFits, Is
    <3> QED
      BY <2>2, <3>1, <3>2 DEF ConnectionsInv, ConsoleTypes
  <2> QED
    BY <2>1, <2>2 DEF DropLinks
<1>4. \A id \in 1 .. Created : \A token \in Owed(id)' : token \in Owed(id)
  <2>1. \A id : LoggingOut(id) => LoggingOut(id)'
    BY <1>1, <1>3 DEF LoggingOut, At, Is, Alone
  <2> QED
    BY <1>1, <2>1, OwedShrinks
<1>5. c \in 1 .. Created => Owed(c) = {}
  BY <1>1 DEF ConnectionsInv, OwedAreTaken, Is
<1>6. OwedAreLinked'
  <2> SUFFICES ASSUME NEW id \in 1 .. Created, NEW token \in tokens', token \in Owed(id)'
               PROVE  [connection |-> id, token |-> token.id] \in links'
    BY DEF OwedAreLinked
  <2>1. token \in Owed(id) /\ token \in tokens
    BY <1>4 DEF Owed
  <2>2. [connection |-> id, token |-> token.id] \in links /\ id # c
    BY <1>5, <2>1 DEF ConnectionsInv, OwedAreLinked
  <2> QED
    BY <1>1, <2>2
<1>7. \A id \in 1 .. Created : desk[f].connection = id => Owed(id)' = {}
  BY <1>4, <1>5
<1>8. links' \subseteq Link
  BY <1>1 DEF ConnectionsInv, ConsoleTypes
<1> QED
  BY <1>1, <1>3, <1>4, <1>6, <1>7, <1>8, OwedGoes

\* A logout drops its link, and then its token.
LEMMA DevicesLogOut ==
    ASSUME AccountInv, ConnectionsInv, NEW f \in Fibers, Unlink(f) \/ EraseToken(f)
    PROVE  ConnectionsInv'
<1> PICK t : t = desk[f].token
  OBVIOUS
<1>1. /\ UNCHANGED <<connections, via, granted>> /\ links' \subseteq links /\ tokens' \subseteq tokens
      /\ fiber[f].pc \in {"unlink", "erase"} /\ fiber[f].kind \in ConsoleKinds
  BY DEF Unlink, EraseToken, Stay, At, Is
<1>2. DeskFits(f)
  BY DEF ConnectionsInv, DesksFit
<1>3. CASE Unlink(f)
  <2>1. /\ links' = {link \in links : link.token # t} /\ Goto(f, "erase") /\ UNCHANGED <<tokens, desk>>
    BY <1>3 DEF Unlink
  <2>2. fiber'[f].pc = "erase" /\ fiber'[f].kind = fiber[f].kind /\ Alone(f)
    BY <2>1, Moved DEF Alone
  <2>3. DeskFits(f)'
    BY <1>1, <1>2, <2>1, <2>2 DEF DeskFits, Is, ConsoleKinds
  <2>4. LoggingOut(t)'
    BY <1>1, <2>1, <2>2 DEF LoggingOut, At, Is
  <2>5. \A id \in 1 .. Created : \A token \in Owed(id)' : token \in Owed(id) /\ token.id # t
    <3>1. \A id : LoggingOut(id) => LoggingOut(id)'
      BY <1>1, <1>3, <2>2 DEF Unlink, LoggingOut, At, Is, Alone
    <3>2. \A id \in 1 .. Created : \A token \in Owed(id)' : token \in Owed(id)
      BY <1>1, <3>1, OwedShrinks
    <3> QED
      BY <2>4, <3>2 DEF Owed
  <2>6. OwedAreLinked'
    BY <2>1, <2>5 DEF ConnectionsInv, OwedAreLinked, Owed
  <2> QED
    BY <1>1, <2>1, <2>2, <2>3, <2>5, <2>6, OwedGoes DEF ConnectionsInv, ConsoleTypes
<1>4. CASE EraseToken(f)
  <2>1. tokens' = {row \in tokens : row.id # t} /\ Leave(f) /\ UNCHANGED links
        /\ fiber[f].pc = "erase"
    BY <1>4 DEF EraseToken, At, Is
  <2>2. /\ Alone(f) /\ DeskFits(f)' /\ desk' \in [Fibers -> Desk] /\ fiber'[f].pc = "idle"
    BY <2>1, Leaves
  <2>3. \A token \in tokens' : LoggingOut(token.id) => LoggingOut(token.id)'
    BY <2>1, <2>2 DEF LoggingOut, At, Is, Alone
  <2>4. \A id \in 1 .. Created : \A token \in Owed(id)' : token \in Owed(id)
    BY <1>1, <2>3, OwedShrinks
  <2>5. OwedAreLinked'
    BY <2>1, <2>4 DEF ConnectionsInv, OwedAreLinked, Owed
  <2> QED
    BY <1>1, <2>1, <2>2, <2>4, <2>5, OwedGoes DEF ConnectionsInv, ConsoleTypes
<1> QED
  BY <1>3, <1>4

\* A token that is linked now is linked while its connection is active and not being
\* revoked, or is late.
LEMMA DeviceIsLinked ==
    ASSUME AccountInv, ConnectionsInv, NEW f \in Fibers, LinkConnectionDevice(f)
    PROVE  ConnectionsInv'
<1> PICK c : c = desk[f].connection
  OBVIOUS
<1> PICK t : t = desk[f].token
  OBVIOUS
<1> PICK late : late = ((\A row \in Active : row.id # c) \/ Revoking(c))
  OBVIOUS
<1>1. /\ UNCHANGED <<tokens, connections, granted>> /\ Leave(f) /\ fiber[f].pc = "link"
      /\ links' = {link \in links : link.token # t} \cup {[connection |-> c, token |-> t]}
      /\ via' = [via EXCEPT ![t] = [connection |-> c, late |-> late]]
  BY DEF LinkConnectionDevice, Stay, Is
<1>2. c \in 1 .. Created /\ t \in Ids /\ t <= granted
  <2>1. DeskFits(f) /\ desk[f] \in Desk /\ granted \in 0 .. MaxGrants
    BY DEF ConnectionsInv, DesksFit, ConsoleTypes, AccountInv, AccountTypes
  <2> QED
    BY <1>1, <2>1 DEF DeskFits, Is, Desk, Ids
<1>3. ConsoleTypes'
  <2>1. links' \subseteq Link
    BY <1>1, <1>2 DEF ConnectionsInv, ConsoleTypes, Link
  <2>2. [connection |-> c, late |-> late] \in Via
    BY <1>2 DEF Via
  <2>3. via' \in [Ids -> Via]
    BY <1>1, <2>2 DEF ConnectionsInv, ConsoleTypes
  <2> QED
    BY <1>1, <2>1, <2>3, Leaves DEF ConnectionsInv, ConsoleTypes
<1>4. Numbered' /\ DesksFit'
  BY <1>1, Leaves, OneDesk DEF ConnectionsInv, Numbered, AccountInv, AccountTypes
<1>5. GrantedFirst'
  BY <1>1, <1>2 DEF ConnectionsInv, GrantedFirst, ConsoleTypes, Ids, AccountInv, AccountTypes
<1>6. /\ via'[t].connection = c /\ via'[t].late = late
      /\ \A id \in Ids : id # t => via'[id] = via[id]
  BY <1>1, <1>2 DEF ConnectionsInv, ConsoleTypes
<1>7. fiber'[f].pc = "idle" /\ Alone(f)
  BY <1>1, Leaves
<1>8. \A id \in 1 .. Created : \A token \in Owed(id)' :
         \/ token.id # t /\ token \in Owed(id)
         \/ token.id = t /\ id = c /\ ~late
  <2> SUFFICES ASSUME NEW id \in 1 .. Created, NEW token \in Owed(id)'
               PROVE  \/ token.id # t /\ token \in Owed(id)
                      \/ token.id = t /\ id = c /\ ~late
    OBVIOUS
  <2>1. /\ token \in tokens /\ token.id \in Ids
        /\ via'[token.id].connection = id /\ ~via'[token.id].late /\ ~LoggingOut(token.id)'
    BY <1>1 DEF Owed, AccountInv, AccountTypes, Token
  <2>2. LoggingOut(token.id) => LoggingOut(token.id)'
    BY <1>1, <1>7 DEF LoggingOut, At, Is, Alone
  <2> QED
    BY <1>6, <2>1, <2>2 DEF Owed
<1>9. OwedAreLinked'
  <2> SUFFICES ASSUME NEW id \in 1 .. Created, NEW token \in tokens', token \in Owed(id)'
               PROVE  [connection |-> id, token |-> token.id] \in links'
    BY DEF OwedAreLinked
  <2>1. CASE token.id # t /\ token \in Owed(id)
    <3>1. [connection |-> id, token |-> token.id] \in links
      BY <1>1, <2>1 DEF ConnectionsInv, OwedAreLinked
    <3> QED
      BY <1>1, <2>1, <3>1
  <2>2. CASE token.id = t /\ id = c
    BY <1>1, <2>2
  <2> QED
    BY <1>8, <2>1, <2>2
<1>10. OwedAreTaken'
  <2> SUFFICES ASSUME NEW g \in Fibers, NEW id \in 1 .. Created, fiber'[g].pc = "drop",
                      desk'[g].connection = id, NEW token \in Owed(id)'
               PROVE  token.id \in desk'[g].rest
    BY DEF OwedAreTaken, Is
  <2>1. fiber[g].pc = "drop" /\ desk'[g] = desk[g]
    BY <1>7 DEF Alone
  <2>2. id = c => late
    BY <2>1 DEF Revoking
  <2> QED
    BY <1>8, <2>1, <2>2 DEF ConnectionsInv, OwedAreTaken, Is
<1>11. RevokedAreSettled'
  <2> SUFFICES ASSUME NEW row \in connections, row.revoked
               PROVE  Settled(row.id)'
    BY <1>1 DEF RevokedAreSettled
  <2>1. row.id \in 1 .. Created /\ Settled(row.id)
    BY DEF ConnectionsInv, ConsoleTypes, Connection, RevokedAreSettled
  <2>2. row.id = c => late
    BY DEF Active, ConnectionsInv, Numbered
  <2>3. CASE Owed(row.id) = {}
    BY <1>8, <2>1, <2>2, <2>3 DEF Settled
  <2>4. CASE \E g \in Fibers : fiber[g].pc \in {"take", "drop"} /\ desk[g].connection = row.id
    BY <1>1, <1>7, <2>4 DEF Settled, Alone
  <2> QED
    BY <2>1, <2>3, <2>4 DEF Settled
<1> QED
  BY <1>3, <1>4, <1>5, <1>9, <1>10, <1>11 DEF ConnectionsInv

-----------------------------------------------------------------------------
(* The theorems                                                            *)

LEMMA ConnectionsBegin ==
    ASSUME ConnectionsInit
    PROVE  ConnectionsInv
<1>1. /\ links = {} /\ desk = [f \in Fibers |-> NoDesk] /\ via = [t \in Ids |-> NoVia]
      /\ fiber = [f \in Fibers |-> Idle] /\ tokens = {}
      /\ \/ connections = {}
         \/ \E password \in Passwords :
                connections = {[id |-> 1, password |-> password, revoked |-> FALSE]}
  BY DEF ConnectionsInit, Init
<1>2. ConsoleTypes /\ Numbered
  <2>1. desk \in [Fibers -> Desk] /\ via \in [Ids -> Via] /\ links \subseteq Link
    BY <1>1 DEF NoDesk, Desk, NoVia, Via
  <2>2. CASE connections = {}
    <3>1. {row.id : row \in connections} = 1 .. 0
      BY <2>2
    <3> QED
      BY <2>1, <2>2, <3>1 DEF ConsoleTypes, Numbered
  <2>3. ASSUME NEW password \in Passwords,
               connections = {[id |-> 1, password |-> password, revoked |-> FALSE]}
        PROVE  ConsoleTypes /\ Numbered
    <3>1. connections \subseteq Connection
      BY <2>3 DEF Connection
    <3>2. {row.id : row \in connections} = 1 .. 1
      BY <2>3
    <3> QED
      BY <2>1, <2>3, <3>1, <3>2 DEF ConsoleTypes, Numbered
  <2> QED
    BY <1>1, <2>2, <2>3
<1>3. DesksFit /\ GrantedFirst
  BY <1>1 DEF DesksFit, DeskFits, GrantedFirst, NoVia, Idle, Is
<1>4. OwedAreLinked /\ OwedAreTaken /\ RevokedAreSettled
  BY <1>1 DEF OwedAreLinked, OwedAreTaken, RevokedAreSettled, Settled, Owed
<1> QED
  BY <1>2, <1>3, <1>4 DEF ConnectionsInv

LEMMA ConnectionsStay == ConnectionsSpec => []ConnectionsInv
<1>1. AccountInv /\ ConnectionsInv /\ [ConnectionsNext]_allVars => ConnectionsInv'
  <2>1. ASSUME ConnectionsInv, UNCHANGED allVars
        PROVE  ConnectionsInv'
    BY <2>1 DEF allVars, vars, consoleVars, ConnectionsInv, ConsoleTypes, Numbered, DesksFit,
                DeskFits, GrantedFirst, OwedAreLinked, OwedAreTaken, RevokedAreSettled, Settled,
                Owed, LoggingOut, At, Is
  <2>2. ASSUME AccountInv, ConnectionsInv, NEW f \in Fibers, Console(f)
        PROVE  ConnectionsInv'
    BY <2>2, DevicesBegin, TokenIsGranted, ConsoleBegins, ConnectionIsInserted, ConnectionIsMarked,
       PasswordIsReplaced, TokensAreTaken, TokenIsDropped, LinksAreDropped, DevicesLogOut,
       DeviceIsLinked DEF Console
  <2> QED
    BY <2>1, <2>2, AccountsStepKeeps DEF ConnectionsNext
<1> QED
  BY <1>1, AccountsStay, ConnectionsBegin, PTL DEF ConnectionsSpec

\* When the removal of a connection is over, the only tokens of it that are left are those
\* of logins that were under way during the removal or a change of the connection, and of
\* logouts that have not ended (deleteConnection, revokeConnectionTokens, deleteEmbyToken).
THEOREM RemovalTakes == ConnectionsSpec => []RemovalTakesTokens
<1>1. ConnectionsInv => RemovalTakesTokens
  BY DEF ConnectionsInv, RevokedAreSettled, Settled, Owed, RemovalTakesTokens
<1> QED
  BY <1>1, ConnectionsStay, PTL

\* The tables and fibers of connections are of their types.
THEOREM ConnectionsTyped == ConnectionsSpec => []ConnectionsTypeOK
<1>1. AccountInv /\ ConnectionsInv => ConnectionsTypeOK
  BY DEF AccountInv, AccountTypes, LimitTypes, FibersFit, TypeOK, ConnectionsInv, ConsoleTypes,
         ConnectionsTypeOK
<1> QED
  BY <1>1, AccountsStay, ConnectionsStay, PTL

-----------------------------------------------------------------------------
(* The limit of connections                                                *)

Inserting == {f \in Fibers : At(f, "insert")}

LEMMA CountsFit ==
    ASSUME ConnectionsInv
    PROVE  /\ IsFiniteSet(Active) /\ Cardinality(Active) \in Nat
           /\ IsFiniteSet(Inserting) /\ Cardinality(Inserting) \in Nat
           /\ Cardinality(Inserting) <= Cardinality(Fibers) /\ Cardinality(Fibers) \in Nat \ {0}
<1>1. IsFiniteSet(connections) /\ Active \subseteq connections
  BY IdsCount DEF Active
<1>2. Inserting \subseteq Fibers
  BY DEF Inserting
<1>3. Cardinality(Fibers) \in Nat \ {0}
  BY FibersAssumption, FS_CardinalityType, FS_EmptySet
<1> QED
  BY <1>1, <1>2, <1>3, FibersAssumption, FS_Subset, FS_CardinalityType

\* Fewer connections, and no other fiber at the insertion.
LEMMA LimitStays ==
    ASSUME ConnectionsInv, ConnectionsAreLimited,
           IsFiniteSet(Active'), Cardinality(Active') <= Cardinality(Active),
           Inserting' \subseteq Inserting
    PROVE  ConnectionsAreLimited'
<1>1. Cardinality(Inserting') <= Cardinality(Inserting) /\ Cardinality(Inserting') \in Nat
  BY CountsFit, FS_Subset, FS_CardinalityType
<1>2. Cardinality(Active') \in Nat
  BY FS_CardinalityType
<1> QED
  BY <1>1, <1>2, CountsFit DEF ConnectionsAreLimited, Inserting

LEMMA ActiveGoes ==
    ASSUME ConnectionsInv, Active' \subseteq Active
    PROVE  IsFiniteSet(Active') /\ Cardinality(Active') <= Cardinality(Active)
  BY CountsFit, FS_Subset

LEMMA LimitOfCounted ==
    ASSUME AccountInv, ConnectionsInv, ConnectionsAreLimited, NEW f \in Fibers,
           CountConnections(f) \/ InsertConnection(f)
    PROVE  ConnectionsAreLimited'
<1>1. Inserting' \subseteq Fibers
  BY DEF Inserting
<1>2. /\ Cardinality(Inserting') \in Nat
      /\ Cardinality(Inserting') <= Cardinality(Fibers)
  BY <1>1, FibersAssumption, FS_Subset, FS_CardinalityType
<1>3. CASE CountConnections(f)
  <2>1. Active' = Active
    BY <1>3 DEF CountConnections, Active
  <2>2. CASE Cardinality(Active) >= MaxConnections
    <3>1. Inserting' \subseteq Inserting
      BY <1>3, <2>2, FiberAnswered DEF CountConnections, Leave, Inserting, At, Is
    <3> QED
      BY <2>1, <3>1, ActiveGoes, LimitStays
  <2>3. CASE ~(Cardinality(Active) >= MaxConnections)
    BY <1>2, <2>1, <2>3, CountsFit, ConnectionsAssumption DEF ConnectionsAreLimited, Inserting
  <2> QED
    BY <2>2, <2>3
<1>4. CASE InsertConnection(f)
  <2> PICK row : row = [id |-> Cardinality(connections) + 1, password |-> fiber[f].given,
                        revoked |-> FALSE]
    OBVIOUS
  <2>1. Active' = Active \cup {row}
    BY <1>4 DEF InsertConnection, Active
  <2>6. IsFiniteSet(Active) /\ Cardinality(Active) \in Nat
    BY CountsFit
  <2>7. Cardinality(Active \cup {row}) \in {Cardinality(Active), Cardinality(Active) + 1}
    BY <2>6, FS_AddElement
  <2>2. Cardinality(Active') <= Cardinality(Active) + 1 /\ Cardinality(Active') \in Nat
    BY <2>1, <2>6, <2>7
  <2>3. f \in Inserting /\ Inserting' \subseteq Inserting \ {f}
    BY <1>4, FiberAnswered DEF InsertConnection, Leave, Inserting, At, Is
  <2>4. Cardinality(Inserting \ {f}) = Cardinality(Inserting) - 1 /\ IsFiniteSet(Inserting \ {f})
    BY <2>3, CountsFit, FS_RemoveElement
  <2>5. Cardinality(Inserting') <= Cardinality(Inserting) - 1
    BY <2>3, <2>4, FS_Subset
  <2> QED
    BY <1>2, <2>2, <2>5, CountsFit DEF ConnectionsAreLimited, Inserting
<1> QED
  BY <1>3, <1>4

LEMMA LimitOfOthers ==
    ASSUME AccountInv, ConnectionsInv, ConnectionsAreLimited, NEW f \in Fibers, Console(f),
           ~CountConnections(f), ~InsertConnection(f)
    PROVE  ConnectionsAreLimited'
<1>1. Inserting' \subseteq Inserting
  <2>1. CASE UNCHANGED fiber
    BY <2>1 DEF Inserting, At, Is
  <2>2. CASE Answer(f)
    BY <2>2, FiberAnswered DEF Inserting, At, Is
  <2>3. CASE \E pc \in {"owner", "link", "take", "drop", "replace", "erase"} : Goto(f, pc)
    BY <2>3, Moved DEF Inserting, At, Is
  <2>4. CASE fiber' = [fiber EXCEPT ![f].pc = "grant", ![f].known = user]
    <3> PICK r : r = [fiber[f] EXCEPT !.pc = "grant", !.known = user]
      OBVIOUS
    <3>1. fiber' = [fiber EXCEPT ![f] = r]
      BY <2>4 DEF AccountInv, FibersFit
    <3>2. r.pc = "grant"
      BY DEF AccountInv, FibersFit, Fiber
    <3> QED
      BY <3>1, <3>2 DEF Inserting, At, Is, AccountInv, FibersFit
  <2>5. CASE BeginConsole(f)
    <3> PICK kind, id, password :
           fiber' = [fiber EXCEPT ![f] = [Idle EXCEPT
                 !.pc = "lookup", !.kind = kind, !.id = id, !.given = password]]
      BY <2>5 DEF BeginConsole
    <3> PICK r : r = [Idle EXCEPT !.pc = "lookup", !.kind = kind, !.id = id, !.given = password]
      OBVIOUS
    <3>1. fiber' = [fiber EXCEPT ![f] = r] /\ r.pc = "lookup"
      BY DEF Idle
    <3> QED
      BY <3>1 DEF Inserting, At, Is, AccountInv, FibersFit
  <2>6. CASE BeginUnlink(f)
    <3> PICK r : r = [Idle EXCEPT !.pc = "unlink", !.kind = "unlink"]
      OBVIOUS
    <3>1. fiber' = [fiber EXCEPT ![f] = r] /\ r.pc = "unlink"
      BY <2>6 DEF BeginUnlink, Idle
    <3> QED
      BY <3>1 DEF Inserting, At, Is, AccountInv, FibersFit
  <2> QED
    BY <2>1, <2>2, <2>3, <2>4, <2>5, <2>6
       DEF Console, VerifyConnection, ReadOwner, GrantToken, LinkConnectionDevice,
           FindConnection, MarkRevoked, TakeTokens, DropToken, DropLinks, ReplacePassword,
           Unlink, EraseToken, Leave
<1>2. IsFiniteSet(Active') /\ Cardinality(Active') <= Cardinality(Active)
  <2>1. CASE UNCHANGED connections
    BY <2>1, ActiveGoes DEF Active
  <2>2. ASSUME NEW row \in connections,
               connections' = (connections \ {row}) \cup {[row EXCEPT !.revoked = TRUE]}
        PROVE  IsFiniteSet(Active') /\ Cardinality(Active') <= Cardinality(Active)
    <3>1. [row EXCEPT !.revoked = TRUE].revoked
      BY DEF ConnectionsInv, ConsoleTypes, Connection
    <3>2. Active' \subseteq Active
      BY <2>2, <3>1 DEF Active
    <3> QED
      BY <3>2, ActiveGoes
  <2>3. CASE ReplacePassword(f)
    <3> DEFINE new(row) == IF row.id = desk[f].connection /\ ~row.revoked
                           THEN [row EXCEPT !.password = fiber[f].given] ELSE row
    <3>1. connections' = {new(row) : row \in connections}
      BY <2>3 DEF ReplacePassword
    <3>2. \A row \in connections : new(row).revoked = row.revoked
      BY DEF ConnectionsInv, ConsoleTypes, Connection
    <3> HIDE DEF new
    <3>3. [row \in Active |-> new(row)] \in Surjection(Active, Active')
      <4>1. \A row \in Active : new(row) \in Active'
        BY <3>1, <3>2 DEF Active
      <4>2. \A r \in Active' : \E row \in Active : new(row) = r
        BY <3>1, <3>2 DEF Active
      <4> QED
        BY <4>1, <4>2 DEF Surjection
    <3> QED
      BY <3>3, CountsFit, FS_Surjection
  <2> QED
    BY <2>1, <2>2, <2>3
       DEF Console, VerifyConnection, ReadOwner, GrantToken, LinkConnectionDevice, BeginConsole,
           FindConnection, MarkRevoked, TakeTokens, DropToken, DropLinks, BeginUnlink, Unlink,
           EraseToken, Active
<1> QED
  BY <1>1, <1>2, LimitStays

\* The limit is checked and the row inserted by two statements: requests at once exceed it,
\* but by no more than the requests that were between the two (createConnection).
THEOREM LimitedConnections == ConnectionsSpec => []ConnectionsAreLimited
<1>1. ConnectionsInit => ConnectionsAreLimited
  <2> SUFFICES ASSUME ConnectionsInit
               PROVE  ConnectionsAreLimited
    OBVIOUS
  <2>1. Inserting = {}
    BY DEF ConnectionsInit, Init, Inserting, At, Is, Idle
  <2>2. Active = {} \/ \E row : Active = {row}
    BY DEF ConnectionsInit, Active
  <2>3. Cardinality(Active) \in {0, 1} /\ Cardinality(Inserting) = 0
    BY <2>1, <2>2, FS_EmptySet, FS_Singleton
  <2> QED
    BY <2>3, ConnectionsBegin, CountsFit, ConnectionsAssumption DEF ConnectionsAreLimited, Inserting
<1>2. AccountInv /\ ConnectionsInv /\ ConnectionsAreLimited /\ [ConnectionsNext]_allVars =>
         ConnectionsAreLimited'
  <2>1. ASSUME ConnectionsInv, ConnectionsAreLimited, UNCHANGED allVars
        PROVE  ConnectionsAreLimited'
    BY <2>1 DEF allVars, vars, consoleVars, ConnectionsAreLimited, Active, At, Is
  <2>2. ASSUME AccountInv, ConnectionsInv, ConnectionsAreLimited, AccountsStep
        PROVE  ConnectionsAreLimited'
    <3>1. UNCHANGED fiber \/ \E f \in Fibers : Turned(f)
      BY <2>2, HandlesTurn DEF AccountsStep, Next, RunMaintenance, Tick
    <3>2. Inserting' \subseteq Inserting
      BY <3>1 DEF Inserting, At, Is, Turned, Own
    <3> QED
      BY <2>2, <3>2, ActiveGoes, LimitStays DEF AccountsStep, Active
  <2> QED
    BY <2>1, <2>2, LimitOfCounted, LimitOfOthers DEF ConnectionsNext
<1> QED
  BY <1>1, <1>2, AccountsStay, ConnectionsStay, PTL DEF ConnectionsSpec
=============================================================================
