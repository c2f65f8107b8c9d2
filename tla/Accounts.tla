------------------------------ MODULE Accounts ------------------------------
(***************************************************************************)
(* The owner's account, the dashboard sessions and Emby tokens granted on  *)
(* its password, and the rate limit of attempts.  Every request is handled *)
(* by a fiber that runs one repository call at a time, so handlers         *)
(* interleave between calls; a call is one transaction on SQLite and       *)
(* sometimes several statements on D1.                                     *)
(*                                                                         *)
(* A password stands for its record (hash, salt, iterations), a session or *)
(* token id for the random secret whose hash is stored.  One client and    *)
(* one user name: there is one scope of attempts per kind of request.      *)
(***************************************************************************)
EXTENDS Integers, FiniteSets, Sequences

CONSTANTS
    Fibers,          \* requests handled at any time
    Passwords,
    NoPassword,
    Stores,          \* the stores to explore, of {"sqlite", "d1"}
    Traffics,        \* the sets of kinds of requests to explore
    MaxAttempts,     \* AUTH_RATE_MAX_ATTEMPTS
    Window,          \* AUTH_RATE_WINDOW_MS, and AUTH_RATE_BLOCK_MS
    Lifetime,        \* DASHBOARD_SESSION_IDLE_MS
    RefreshAfter,    \* sessionRefreshAfterMs
    MaxTime,         \* bound on the clock, ...
    Horizon,         \* traffic -> and its bound with these requests
    MaxGeneration,   \* bound on password changes
    MaxGrants        \* bound on sessions and tokens ever granted

Attempts == {"claim", "login", "emby"}
ConsoleKinds == {"create", "update", "remove", "unlink"}
Kinds == Attempts \cup {"session", "logout", "change"} \cup ConsoleKinds

\* Where a handler is; the steps of ConsoleSteps are in module Connections.
ConsoleSteps == {"owner", "grant", "link", "create", "insert", "update",
                 "remove", "take", "drop", "replace", "unlink", "erase"}
Steps == {"idle", "consume", "count", "claim", "read", "refused", "clear",
          "issue", "lookup", "refresh", "delete", "revoke"} \cup ConsoleSteps

ASSUME FibersAssumption == IsFiniteSet(Fibers) /\ Fibers # {}
ASSUME NoPasswordAssumption == NoPassword \notin Passwords
ASSUME StoresAssumption == Stores \subseteq {"sqlite", "d1"}
ASSUME TrafficsAssumption ==
    \A kinds \in Traffics : kinds \subseteq Kinds
ASSUME LimitsAssumption ==
    /\ MaxAttempts \in Nat \ {0, 1} /\ Window \in Nat \ {0}
    /\ Lifetime \in Nat \ {0} /\ RefreshAfter \in 1 .. Lifetime
ASSUME BoundsAssumption ==
    /\ MaxTime \in Nat /\ Horizon \in [Traffics -> 0 .. MaxTime]
    /\ MaxGeneration \in Nat \ {0} /\ MaxGrants \in Nat \ {0}

VARIABLES
    store,     \* the store of this deployment
    traffic,   \* the kinds of requests its clients send
    user,      \* the only row of users, or NoUser
    sessions,  \* dashboard_sessions
    tokens,    \* emby_tokens
    limits,    \* auth_rate_limits
    fiber,     \* fiber -> what its handler holds
    now,
    granted,   \* the ids given to sessions and tokens so far
    tries      \* history: kind -> when attempts were let through since the last clear

vars == <<store, traffic, user, sessions, tokens, limits, fiber, now, granted,
          tries>>

deployment == <<store, traffic>>

accountVars == <<user, sessions, tokens, granted>>
limitVars == <<limits, tries>>

-----------------------------------------------------------------------------
(* Types                                                                   *)

Times == 0 .. MaxTime
Ids == 1 .. MaxGrants

User == [password: Passwords, generation: 1 .. MaxGeneration]
NoUser == [password |-> NoPassword, generation |-> 0]

\* proof: the password the grant rests on; used: the last request let in.
Session == [id: Ids, generation: 1 .. MaxGeneration, proof: Passwords,
            seen: Times, expires: Nat, used: Times]
Token == [id: Ids, generation: 1 .. MaxGeneration,
          proof: Passwords \cup {NoPassword}]

\* blocked 0 is NULL.
Limit == [kind: Attempts, start: Times, count: Nat, blocked: Nat]

\* given, next: the passwords of the request; known: the user it read;
\* id, generation: its dashboard session.
Fiber == [pc: Steps, kind: Kinds \cup {"none"}, given: Passwords \cup {NoPassword},
          next: Passwords \cup {NoPassword}, known: User \cup {NoUser},
          id: 0 .. MaxGrants, generation: 0 .. MaxGeneration]

TypeOK ==
    /\ store \in Stores /\ traffic \in Traffics
    /\ user \in User \cup {NoUser}
    /\ sessions \subseteq Session
    /\ tokens \subseteq Token
    /\ limits \subseteq Limit
    /\ fiber \in [Fibers -> Fiber]
    /\ now \in Times
    /\ granted \in 0 .. MaxGrants
    /\ tries \in [Attempts -> Seq(Times)]

-----------------------------------------------------------------------------
(* Helpers                                                                 *)

Idle == [pc |-> "idle", kind |-> "none", given |-> NoPassword,
         next |-> NoPassword, known |-> NoUser, id |-> 0, generation |-> 0]

NoTries == <<>>

NewSession(id, generation, proof) ==
    [id |-> id, generation |-> generation, proof |-> proof, seen |-> now,
     expires |-> now + Lifetime, used |-> now]

Is(f, pc) == fiber[f].pc = pc

Goto(f, pc) == fiber' = [fiber EXCEPT ![f].pc = pc]

\* The handler answers, with a result or with a failure.
Answer(f) == fiber' = [fiber EXCEPT ![f] = Idle]

\* The rows of the scope, and the first of them in the code's ORDER BY.
LimitsOf(kind) == {row \in limits : row.kind = kind}
LatestOf(kind) ==
    {row \in LimitsOf(kind) : \A other \in LimitsOf(kind) : row.start >= other.start}

NewLimit(kind) == [kind |-> kind, start |-> now, count |-> 1, blocked |-> 0]

LetThrough(f, row, old) ==
    /\ limits' = (limits \ old) \cup {row}
    /\ tries' = [tries EXCEPT ![row.kind] = Append(@, now)]
    /\ Goto(f, IF row.kind = "claim" THEN "claim" ELSE "read")

-----------------------------------------------------------------------------
(* Requests arrive                                                         *)

\* claim, login, and AuthenticateByName of the Emby API
BeginAttempt(f) ==
    /\ Is(f, "idle")
    /\ \E kind \in Attempts \cap traffic, password \in Passwords :
           fiber' = [fiber EXCEPT ![f] = [Idle EXCEPT
               !.pc = "consume", !.kind = kind, !.given = password]]
    /\ UNCHANGED <<deployment, accountVars, limitVars, now>>

\* getSession, and every handler that authorizes by session first
BeginSession(f) ==
    /\ Is(f, "idle") /\ "session" \in traffic
    /\ \E id \in 1 .. granted :
           fiber' = [fiber EXCEPT ![f] = [Idle EXCEPT
               !.pc = "lookup", !.kind = "session", !.id = id]]
    /\ UNCHANGED <<deployment, accountVars, limitVars, now>>

BeginLogout(f) ==
    /\ Is(f, "idle") /\ "logout" \in traffic
    /\ \E id \in 1 .. granted :
           fiber' = [fiber EXCEPT ![f] = [Idle EXCEPT
               !.pc = "lookup", !.kind = "logout", !.id = id]]
    /\ UNCHANGED <<deployment, accountVars, limitVars, now>>

BeginChangePassword(f) ==
    /\ Is(f, "idle") /\ "change" \in traffic
    /\ \E id \in 1 .. granted, password, next \in Passwords :
           fiber' = [fiber EXCEPT ![f] = [Idle EXCEPT
               !.pc = "lookup", !.kind = "change", !.id = id,
               !.given = password, !.next = next]]
    /\ UNCHANGED <<deployment, accountVars, limitVars, now>>

-----------------------------------------------------------------------------
(* Attempts are counted                                                    *)

Counted(row, blocked) ==
    [row EXCEPT !.count = @ + 1,
                !.blocked = IF row.count + 1 >= MaxAttempts THEN now + Window ELSE blocked]

SqliteConsumeAuthAttempt(f) ==
    LET kind == fiber[f].kind
        open(row) == now - row.start < Window
    IN
    /\ Is(f, "consume") /\ store = "sqlite"
    /\ \/ /\ \E row \in LatestOf(kind) : row.blocked > now
          /\ Answer(f)
          /\ UNCHANGED limitVars
       \/ \E row \in LatestOf(kind) :
              /\ open(row) /\ row.blocked <= now
              /\ LetThrough(f, Counted(row, 0), {row})
       \/ /\ \A row \in LatestOf(kind) : ~open(row) /\ row.blocked <= now
          /\ LetThrough(f, NewLimit(kind), {})
    /\ UNCHANGED <<deployment, accountVars, now>>

\* The INSERT of D1 opens a window when no row started within one.
D1OpenWindow(f) ==
    LET kind == fiber[f].kind IN
    /\ Is(f, "consume") /\ store = "d1"
    /\ IF \E row \in LimitsOf(kind) : row.start > now - Window
       THEN /\ Goto(f, "count")
            /\ UNCHANGED limitVars
       ELSE LetThrough(f, NewLimit(kind), {})
    /\ UNCHANGED <<deployment, accountVars, now>>

\* Its UPDATE counts the attempt in the latest window, unless that is
\* blocked, too old, or was cleared in between.
D1CountAttempt(f) ==
    LET counts(row) == row.start > now - Window /\ row.blocked <= now
        rows == LatestOf(fiber[f].kind)
    IN
    /\ Is(f, "count")
    /\ \/ \E row \in rows : counts(row) /\ LetThrough(f, Counted(row, row.blocked), {row})
       \/ (\A row \in rows : ~counts(row)) /\ Answer(f) /\ UNCHANGED limitVars
    /\ UNCHANGED <<deployment, accountVars, now>>

ClearAuthAttempts(f) ==
    /\ Is(f, "clear")
    /\ limits' = limits \ LimitsOf(fiber[f].kind)
    /\ tries' = [tries EXCEPT ![fiber[f].kind] = NoTries]
    /\ Goto(f, "issue")
    /\ UNCHANGED <<deployment, accountVars, now>>

-----------------------------------------------------------------------------
(* Claiming, logging in                                                    *)

BecomeOwner(f) ==
    LET owner == [password |-> fiber[f].given, generation |-> 1] IN
    /\ user' = owner
    /\ fiber' = [fiber EXCEPT ![f].pc = "clear", ![f].known = owner]

SqliteClaimUser(f) ==
    /\ Is(f, "claim") /\ store = "sqlite"
    /\ IF user = NoUser THEN BecomeOwner(f) ELSE Answer(f) /\ UNCHANGED user
    /\ UNCHANGED <<deployment, sessions, tokens, granted, limitVars, now>>

\* On D1 the answer of the INSERT may be lost with the row inserted or not;
\* the failed claim then answers AlreadyInitialized or the failure.
D1ClaimUser(f) ==
    /\ Is(f, "claim") /\ store = "d1"
    /\ \/ /\ user = NoUser
          /\ BecomeOwner(f)
       \/ /\ user' = IF user = NoUser
                     THEN [password |-> fiber[f].given, generation |-> 1]
                     ELSE user
          /\ Answer(f)
       \/ Answer(f) /\ UNCHANGED user
    /\ UNCHANGED <<deployment, sessions, tokens, granted, limitVars, now>>

\* verifyCredentials: read the user, then derive the given password.
VerifyCredentials(f) ==
    /\ Is(f, "read") /\ fiber[f].kind \in Attempts
    /\ \/ /\ user # NoUser /\ fiber[f].given = user.password
          /\ fiber' = [fiber EXCEPT ![f].pc = "clear", ![f].known = user]
       \/ /\ user = NoUser \/ fiber[f].given # user.password
          /\ Goto(f, "refused")
    /\ UNCHANGED <<deployment, accountVars, limitVars, now>>

AnswerInvalidCredentials(f) ==
    /\ Is(f, "refused")
    /\ Answer(f)
    /\ UNCHANGED <<deployment, accountVars, limitVars, now>>

\* Mutant: the grant takes the generation of the row, whatever was expected.
AnyUser(f) == user # NoUser

\* The INSERT ... SELECT takes the row of users only at the expected
\* generation; none inserted is AuthenticationChanged.
ExpectedUser(f) == user # NoUser /\ user.generation = fiber[f].known.generation

GrantSession(f) ==
    /\ Is(f, "issue") /\ fiber[f].kind \in {"claim", "login"}
    /\ IF ExpectedUser(f)
       THEN /\ granted < MaxGrants
            /\ granted' = granted + 1
            /\ sessions' = sessions \cup
                   {NewSession(granted', user.generation, fiber[f].given)}
       ELSE UNCHANGED <<granted, sessions>>
    /\ Answer(f)
    /\ UNCHANGED <<deployment, user, tokens, limitVars, now>>

\* An Emby token never expires.
GrantEmbyToken(f) ==
    /\ Is(f, "issue") /\ fiber[f].kind = "emby"
    /\ IF ExpectedUser(f)
       THEN /\ granted < MaxGrants
            /\ granted' = granted + 1
            /\ tokens' = tokens \cup
                   {[id |-> granted', generation |-> user.generation,
                     proof |-> fiber[f].given]}
       ELSE UNCHANGED <<granted, tokens>>
    /\ Answer(f)
    /\ UNCHANGED <<deployment, user, sessions, limitVars, now>>

\* One statement in a transaction on SQLite, one statement on D1.
SqliteIssueDashboardSession(f) == store = "sqlite" /\ GrantSession(f)
D1IssueDashboardSession(f) == store = "d1" /\ GrantSession(f)
SqliteIssueEmbyToken(f) == store = "sqlite" /\ GrantEmbyToken(f)
D1IssueEmbyToken(f) == store = "d1" /\ GrantEmbyToken(f)

-----------------------------------------------------------------------------
(* Sessions are looked up, refreshed, ended                                *)

Valid(row) == row.generation = user.generation /\ row.expires > now

\* What a handler does once its session is known.
Admitted(f, row) ==
    IF fiber[f].kind = "session" THEN Answer(f)
    ELSE fiber' = [fiber EXCEPT ![f].generation = row.generation,
                       ![f].pc = CASE fiber[f].kind = "logout" -> "delete"
                                   [] fiber[f].kind = "change" -> "read"
                                   [] OTHER -> fiber[f].kind]

\* Mutant: the session is seen again and ends when it would have.
SeenAgain(row) == [row EXCEPT !.seen = now, !.used = now]

Refreshed(row) ==
    [row EXCEPT !.seen = now, !.used = now, !.expires = now + Lifetime]

Replace(row, newRow) == sessions' = (sessions \ {row}) \cup {newRow}

SqliteLookupDashboardSession(f) ==
    /\ Is(f, "lookup") /\ store = "sqlite"
    /\ \/ \E row \in sessions :
              /\ row.id = fiber[f].id /\ Valid(row)
              /\ Admitted(f, row)
              /\ Replace(row, IF now - row.seen >= RefreshAfter
                              THEN Refreshed(row)
                              ELSE [row EXCEPT !.used = now])
       \/ /\ ~\E row \in sessions : row.id = fiber[f].id /\ Valid(row)
          /\ Answer(f)
          /\ UNCHANGED sessions
    /\ UNCHANGED <<deployment, user, tokens, granted, limitVars, now>>

D1LookupDashboardSession(f) ==
    /\ Is(f, "lookup") /\ store = "d1"
    /\ \/ \E row \in sessions :
              /\ row.id = fiber[f].id /\ Valid(row)
              /\ IF now - row.seen >= RefreshAfter
                 THEN /\ fiber' = [fiber EXCEPT ![f].pc = "refresh",
                                                ![f].generation = row.generation]
                      /\ UNCHANGED sessions
                 ELSE Admitted(f, row) /\ Replace(row, [row EXCEPT !.used = now])
       \/ /\ ~\E row \in sessions : row.id = fiber[f].id /\ Valid(row)
          /\ Answer(f)
          /\ UNCHANGED sessions
    /\ UNCHANGED <<deployment, user, tokens, granted, limitVars, now>>

\* The second statement of D1: the row may be gone, or refreshed already.
D1RefreshDashboardSession(f) ==
    LET fresh(row) == /\ row.id = fiber[f].id
                      /\ row.generation = fiber[f].generation
                      /\ row.generation = user.generation
                      /\ row.expires > now
    IN
    /\ Is(f, "refresh")
    /\ \/ \E row \in sessions :
              /\ fresh(row)
              /\ Admitted(f, row)
              /\ Replace(row, Refreshed(row))
       \/ /\ ~\E row \in sessions : fresh(row)
          /\ Answer(f)
          /\ UNCHANGED sessions
    /\ UNCHANGED <<deployment, user, tokens, granted, limitVars, now>>

DeleteDashboardSession(f) ==
    /\ Is(f, "delete")
    /\ sessions' = {row \in sessions : row.id # fiber[f].id
                                       \/ row.generation # fiber[f].generation}
    /\ Answer(f)
    /\ UNCHANGED <<deployment, user, tokens, granted, limitVars, now>>

-----------------------------------------------------------------------------
(* The password changes                                                    *)

\* changePassword verifies the current password and that the session was
\* granted on it, then derives the new one.
VerifyCurrentPassword(f) ==
    /\ Is(f, "read") /\ fiber[f].kind = "change"
    /\ IF user.password = fiber[f].given /\ user.generation = fiber[f].generation
       THEN Goto(f, "revoke")
       ELSE Answer(f)
    /\ UNCHANGED <<deployment, accountVars, limitVars, now>>

Changed(f) == [password |-> fiber[f].next, generation |-> user.generation + 1]

\* Mutant: the UPDATE of users has no condition on the generation.
SqliteRevokeAlways(f) ==
    /\ Is(f, "revoke") /\ store = "sqlite"
    /\ user.generation < MaxGeneration
    /\ user' = Changed(f)
    /\ sessions' = {} /\ tokens' = {}
    /\ Answer(f)
    /\ UNCHANGED <<deployment, granted, limitVars, now>>

SqliteRevokeAuthentication(f) ==
    /\ Is(f, "revoke") /\ store = "sqlite"
    /\ IF user.generation = fiber[f].generation
       THEN /\ user.generation < MaxGeneration
            /\ user' = Changed(f)
            /\ sessions' = {}
            /\ tokens' = {}
       ELSE UNCHANGED <<user, sessions, tokens>>
    /\ Answer(f)
    /\ UNCHANGED <<deployment, granted, limitVars, now>>

\* The batch of D1 runs every statement: the deletions are conditional, and
\* the fence fails the batch unless this change is the one that took place.
D1RevokeAuthentication(f) ==
    LET expected == fiber[f].generation
        newUser  == IF user.generation = expected THEN Changed(f) ELSE user
        fence    == newUser = [password |-> fiber[f].next, generation |-> expected + 1]
                    /\ newUser # user
        empty    == newUser.generation = expected + 1
    IN
    /\ Is(f, "revoke") /\ store = "d1"
    /\ IF fence
       THEN /\ user.generation < MaxGeneration
            /\ user' = newUser
            /\ sessions' = IF empty THEN {} ELSE sessions
            /\ tokens' = IF empty THEN {} ELSE tokens
       ELSE UNCHANGED <<user, sessions, tokens>>
    /\ Answer(f)
    /\ UNCHANGED <<deployment, granted, limitVars, now>>

-----------------------------------------------------------------------------
(* Maintenance, time                                                       *)

\* Mutant: a blocked row goes as soon as it is seen.
ExpiredOrBlocked(row) == row.blocked # 0 \/ row.start <= now - Window

Expired(row) ==
    IF row.blocked # 0 THEN row.blocked <= now ELSE row.start <= now - Window

RunMaintenance ==
    /\ sessions' = {row \in sessions : row.expires > now}
    /\ limits' = {row \in limits : ~Expired(row)}
    /\ UNCHANGED <<deployment, user, tokens, granted, tries, fiber, now>>

\* The clock is coarse: the statements of one call fall into one of its ticks.
Tick ==
    /\ now < Horizon[traffic]
    /\ \A f \in Fibers : fiber[f].pc \notin {"count", "refresh"}
    /\ now' = now + 1
    /\ UNCHANGED <<deployment, accountVars, limitVars, fiber>>

-----------------------------------------------------------------------------

\* A new deployment, or one whose owner has just opened the dashboard.
Init ==
    /\ store \in Stores /\ traffic \in Traffics
    /\ now = 0
    /\ \/ user = NoUser /\ sessions = {} /\ granted = 0
       \/ \E password \in Passwords :
              /\ user = [password |-> password, generation |-> 1]
              /\ sessions = {NewSession(1, 1, password)}
              /\ granted = 1
    /\ tokens = {} /\ limits = {}
    /\ fiber = [f \in Fibers |-> Idle]
    /\ tries = [kind \in Attempts |-> NoTries]

Handle(f) ==
    \/ BeginAttempt(f) \/ BeginSession(f) \/ BeginLogout(f) \/ BeginChangePassword(f)
    \/ SqliteConsumeAuthAttempt(f) \/ D1OpenWindow(f) \/ D1CountAttempt(f)
    \/ ClearAuthAttempts(f)
    \/ SqliteClaimUser(f) \/ D1ClaimUser(f)
    \/ VerifyCredentials(f) \/ AnswerInvalidCredentials(f)
    \/ SqliteIssueDashboardSession(f) \/ D1IssueDashboardSession(f)
    \/ SqliteIssueEmbyToken(f) \/ D1IssueEmbyToken(f)
    \/ SqliteLookupDashboardSession(f)
    \/ D1LookupDashboardSession(f) \/ D1RefreshDashboardSession(f)
    \/ DeleteDashboardSession(f)
    \/ VerifyCurrentPassword(f)
    \/ SqliteRevokeAuthentication(f) \/ D1RevokeAuthentication(f)

Next == RunMaintenance \/ Tick \/ \E f \in Fibers : Handle(f)

Spec == Init /\ [][Next]_vars

-----------------------------------------------------------------------------
(* Properties                                                              *)

\* Every stored session and every token granted on the owner's password was
\* granted to someone who gave the password as it is now: a login, a claim
\* or a refresh under way during a change never leaves a credential behind
\* (the conditional INSERT, revokeAuthentication).
CredentialsProveThePassword ==
    /\ \A row \in sessions :
           row.proof = user.password /\ row.generation = user.generation
    /\ \A row \in tokens : row.generation = user.generation
                           /\ row.proof \in {user.password, NoPassword}

\* A change replaces only the password its request gave and verified, however
\* long the derivations took (changePassword, revokeAuthentication).
ChangesProveThePassword ==
    [][user # NoUser /\ user' # user =>
           \E f \in Fibers : Is(f, "revoke") /\ fiber[f].given = user.password]_vars

\* Unless a success clears them, no window of time lets more attempts through
\* than the end of one counted window and the whole next one hold.  D1 opens
\* a window even while the one before is blocked, so its bound is one more
\* (consumeAuthAttempt and the pruning of its rows).
AttemptsAreBounded ==
    LET most == 2 * MaxAttempts - (IF store = "sqlite" THEN 2 ELSE 1) IN
    \A kind \in Attempts : \A n \in 1 .. Len(tries[kind]) - most :
        tries[kind][n] + Window <= tries[kind][n + most]

\* A session in use stays: while the password is unchanged and it is not
\* logged out, it goes only after a pause longer than Lifetime - RefreshAfter
\* (lookupDashboardSession, its refresh and maintenance).
SessionsInUseStay ==
    [][\A row \in sessions :
           (\A other \in sessions' : other.id # row.id) =>
               \/ user' # user
               \/ \E f \in Fibers : Is(f, "delete") /\ fiber[f].id = row.id
               \/ now - row.used > Lifetime - RefreshAfter]_vars
=============================================================================
