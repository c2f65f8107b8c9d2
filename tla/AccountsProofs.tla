------------------------- MODULE AccountsProofs ----------------------------
(***************************************************************************)
(* Credentials and passwords, sessions in use, connections and the tokens  *)
(* granted on them: for any number of requests at once, on either store.   *)
(***************************************************************************)
EXTENDS Connections, TLAPS, FiniteSetTheorems, SequenceTheorems

-----------------------------------------------------------------------------
(* The inductive invariant of accounts                                     *)

LimitTypes == limits \subseteq Limit /\ tries \in [Attempts -> Seq(Times)]

AccountTypes ==
    /\ store \in Stores /\ traffic \in Traffics
    /\ user \in User \cup {NoUser}
    /\ sessions \subseteq Session
    /\ tokens \subseteq Token
    /\ now \in Times
    /\ granted \in 0 .. MaxGrants

LookedUp == {"session", "logout", "change"} \cup ConsoleKinds

\* What a fiber holds at each step of its handler, of a user u: whoever is about to
\* be granted something, or to change the password, proved the password of the
\* generation it expects.
FiberFits(r, u) ==
    /\ r.kind \in Attempts \cup {"change", "create", "update", "remove"} => r.given \in Passwords
    /\ r.kind = "change" => r.next \in Passwords
    /\ r.pc \in {"consume", "count"} => r.kind \in Attempts
    /\ r.pc = "claim" => r.kind = "claim"
    /\ r.pc \in {"lookup", "refresh"} => r.kind \in LookedUp
    /\ r.pc \in {"clear", "issue"} =>
           /\ r.kind \in Attempts
           /\ r.known \in User /\ r.known.generation <= u.generation
           /\ r.known.generation = u.generation => r.given = u.password
    /\ r.pc = "revoke" =>
           /\ r.kind = "change" /\ u # NoUser /\ r.generation <= u.generation
           /\ r.generation = u.generation => r.given = u.password

FibersFit ==
    /\ fiber \in [Fibers -> Fiber]
    /\ \A f \in Fibers : FiberFits(fiber[f], user)

\* A session ends Lifetime after it was seen, and is seen whenever it is used
\* after RefreshAfter.
Timed(row) ==
    /\ row.expires = row.seen + Lifetime
    /\ row.seen <= row.used /\ row.used - row.seen < RefreshAfter
    /\ row.used <= now

SessionsTimed == \A row \in sessions : Timed(row)

AccountInv ==
    AccountTypes /\ LimitTypes /\ FibersFit /\ SessionsTimed /\ CredentialsProveThePassword

USE NoPasswordAssumption, LimitsAssumption, BoundsAssumption DEF Times

-----------------------------------------------------------------------------
(* Fibers                                                                  *)

LEMMA IdleFits == Idle \in Fiber /\ \A u : FiberFits(Idle, u)
  BY DEF Idle, Fiber, FiberFits, Steps, ConsoleSteps, Kinds, Attempts

\* A fiber may go on to anything that fits the user, if the user fits the others.
LEMMA FiberGoes ==
    ASSUME AccountInv, NEW f \in Fibers, NEW r \in Fiber,
           fiber' = [fiber EXCEPT ![f] = r], FiberFits(r, user'),
           \A g \in Fibers \ {f} : FiberFits(fiber[g], user')
    PROVE  FibersFit'
  BY DEF AccountInv, FibersFit

LEMMA FiberAnswers ==
    ASSUME AccountInv, NEW f \in Fibers, Answer(f),
           \A g \in Fibers \ {f} : FiberFits(fiber[g], user')
    PROVE  FibersFit'
  BY FiberGoes, IdleFits DEF Answer

\* A fiber that goes to another step keeps all it holds.
LEMMA Going ==
    ASSUME NEW r \in Fiber, NEW pc \in Steps
    PROVE  /\ [r EXCEPT !.pc = pc] \in Fiber
           /\ \A u : [r EXCEPT !.pc = pc].pc = pc
           /\ [r EXCEPT !.pc = pc].kind = r.kind
           /\ [r EXCEPT !.pc = pc].given = r.given
           /\ [r EXCEPT !.pc = pc].next = r.next
           /\ [r EXCEPT !.pc = pc].known = r.known
           /\ [r EXCEPT !.pc = pc].generation = r.generation
  BY DEF Fiber

\* Steps at which nothing but the kind of request matters.
Plain == Steps \ {"consume", "count", "claim", "lookup", "refresh", "clear", "issue", "revoke"}

LEMMA FiberMoves ==
    ASSUME AccountInv, NEW f \in Fibers, NEW pc \in Plain, Goto(f, pc), UNCHANGED user
    PROVE  FibersFit'
<1> PICK r : r = [fiber[f] EXCEPT !.pc = pc]
  OBVIOUS
<1>1. r \in Fiber
  BY Going DEF AccountInv, FibersFit, Plain
<1>2. fiber' = [fiber EXCEPT ![f] = r]
  BY DEF Goto, AccountInv, FibersFit, Fiber
<1>3. FiberFits(r, user')
  BY Going DEF AccountInv, FibersFit, Plain, FiberFits
<1> QED
  BY <1>1, <1>2, <1>3, FiberGoes DEF AccountInv, FibersFit

\* Nothing else that the invariant is about has changed.
LEMMA OnlyFibers ==
    ASSUME AccountInv, FibersFit', LimitTypes', UNCHANGED <<deployment, accountVars, now>>
    PROVE  AccountInv'
  BY DEF AccountInv, AccountTypes, SessionsTimed, Timed, CredentialsProveThePassword,
         deployment, accountVars

\* A fiber begins, or goes on with what it was given to something that fits.
LEMMA FiberTurns ==
    ASSUME AccountInv, NEW f \in Fibers, NEW r \in Fiber,
           fiber' = [fiber EXCEPT ![f] = r], FiberFits(r, user),
           LimitTypes', UNCHANGED <<deployment, accountVars, now>>
    PROVE  AccountInv'
  BY FiberGoes, OnlyFibers DEF AccountInv, FibersFit, accountVars

LEMMA FiberLeaves ==
    ASSUME AccountInv, NEW f \in Fibers, Answer(f), LimitTypes',
           UNCHANGED <<deployment, accountVars, now>>
    PROVE  AccountInv'
  BY FiberTurns, IdleFits DEF Answer

\* A step whose fiber only goes to the next one.
LEMMA FiberGoesTo ==
    ASSUME AccountInv, NEW f \in Fibers, NEW pc \in Steps, Goto(f, pc),
           \A r \in Fiber : r = [fiber[f] EXCEPT !.pc = pc] => FiberFits(r, user),
           LimitTypes', UNCHANGED <<deployment, accountVars, now>>
    PROVE  AccountInv'
<1> PICK r : r = [fiber[f] EXCEPT !.pc = pc]
  OBVIOUS
<1>1. r \in Fiber
  BY Going DEF AccountInv, FibersFit
<1>2. fiber' = [fiber EXCEPT ![f] = r]
  BY DEF Goto, AccountInv, FibersFit, Fiber
<1> QED
  BY <1>1, <1>2, FiberTurns

-----------------------------------------------------------------------------
(* Requests, attempts                                                      *)

LEMMA RequestsBegin ==
    ASSUME AccountInv, NEW f \in Fibers,
           BeginAttempt(f) \/ BeginSession(f) \/ BeginLogout(f) \/ BeginChangePassword(f)
    PROVE  AccountInv'
<1>1. UNCHANGED <<deployment, accountVars, now>> /\ LimitTypes'
  BY DEF BeginAttempt, BeginSession, BeginLogout, BeginChangePassword, AccountInv, LimitTypes,
         limitVars
<1>2. CASE BeginAttempt(f)
  <2> PICK kind \in Attempts, password \in Passwords :
         fiber' = [fiber EXCEPT ![f] = [Idle EXCEPT
               !.pc = "consume", !.kind = kind, !.given = password]]
    BY <1>2 DEF BeginAttempt
  <2> PICK r : r = [Idle EXCEPT !.pc = "consume", !.kind = kind, !.given = password]
    OBVIOUS
  <2>1. fiber' = [fiber EXCEPT ![f] = r]
    OBVIOUS
  <2>2. r \in Fiber /\ FiberFits(r, user)
    BY IdleFits DEF Fiber, Steps, Kinds, FiberFits, Attempts
  <2> QED
    BY <1>1, <2>1, <2>2, FiberTurns
<1>3. CASE BeginSession(f) \/ BeginLogout(f)
  <2> PICK kind \in {"session", "logout"}, id \in 1 .. granted :
         fiber' = [fiber EXCEPT ![f] = [Idle EXCEPT !.pc = "lookup", !.kind = kind, !.id = id]]
    BY <1>3 DEF BeginSession, BeginLogout
  <2> PICK r : r = [Idle EXCEPT !.pc = "lookup", !.kind = kind, !.id = id]
    OBVIOUS
  <2>1. fiber' = [fiber EXCEPT ![f] = r]
    OBVIOUS
  <2>3. id \in 0 .. MaxGrants
    BY DEF AccountInv, AccountTypes
  <2>2. r \in Fiber /\ FiberFits(r, user)
    BY <2>3, IdleFits DEF Fiber, Steps, Kinds, FiberFits, Attempts, LookedUp
  <2> QED
    BY <1>1, <2>1, <2>2, FiberTurns
<1>4. CASE BeginChangePassword(f)
  <2> PICK id \in 1 .. granted, password \in Passwords, next \in Passwords :
         fiber' = [fiber EXCEPT ![f] = [Idle EXCEPT
               !.pc = "lookup", !.kind = "change", !.id = id, !.given = password, !.next = next]]
    BY <1>4 DEF BeginChangePassword
  <2> PICK r : r = [Idle EXCEPT !.pc = "lookup", !.kind = "change", !.id = id,
                                !.given = password, !.next = next]
    OBVIOUS
  <2>1. fiber' = [fiber EXCEPT ![f] = r]
    OBVIOUS
  <2>3. id \in 0 .. MaxGrants
    BY DEF AccountInv, AccountTypes
  <2>2. r \in Fiber /\ FiberFits(r, user)
    BY <2>3, IdleFits DEF Fiber, Steps, Kinds, FiberFits, Attempts, LookedUp
  <2> QED
    BY <1>1, <2>1, <2>2, FiberTurns
<1> QED
  BY <1>2, <1>3, <1>4

\* Counted attempts go on to claim, or to read the user.
LEMMA AttemptsCount ==
    ASSUME AccountInv, NEW f \in Fibers,
           SqliteConsumeAuthAttempt(f) \/ D1OpenWindow(f) \/ D1CountAttempt(f)
    PROVE  AccountInv'
<1>1. UNCHANGED <<deployment, accountVars, now>>
  BY DEF SqliteConsumeAuthAttempt, D1OpenWindow, D1CountAttempt
<1> PICK kind : kind = fiber[f].kind
  OBVIOUS
<1>2. fiber[f].pc \in {"consume", "count"}
  BY DEF SqliteConsumeAuthAttempt, D1OpenWindow, D1CountAttempt, Is
<1>3. kind \in Attempts
  BY <1>2 DEF AccountInv, FibersFit, FiberFits
<1>4. \A row, old : LetThrough(f, row, old) =>
         Goto(f, IF row.kind = "claim" THEN "claim" ELSE "read")
  BY DEF LetThrough
<1>5. ASSUME NEW row \in LatestOf(kind), NEW blocked \in Nat
      PROVE  Counted(row, blocked).kind = kind /\ Counted(row, blocked) \in Limit
  <2>1. row \in Limit /\ row.kind = kind
    BY DEF LatestOf, LimitsOf, AccountInv, LimitTypes
  <2>2. now + Window \in Nat
    BY DEF AccountInv, AccountTypes
  <2> PICK until : until = IF row.count + 1 >= MaxAttempts THEN now + Window ELSE blocked
    OBVIOUS
  <2>3. until \in Nat /\ row.count + 1 \in Nat
    BY <2>1, <2>2 DEF Limit
  <2>4. Counted(row, blocked) = [row EXCEPT !.count = row.count + 1, !.blocked = until]
    BY <2>1 DEF Counted, Limit
  <2> QED
    BY <2>1, <2>3, <2>4 DEF Limit
<1>8. NewLimit(kind) \in Limit /\ NewLimit(kind).kind = kind
  BY <1>3 DEF NewLimit, Limit, AccountInv, AccountTypes
<1>9. ASSUME NEW row \in Limit, NEW old, LetThrough(f, row, old)
      PROVE  LimitTypes'
  <2>1. limits' \subseteq Limit
    BY <1>9 DEF LetThrough, AccountInv, LimitTypes
  <2>2. row.kind \in Attempts /\ now \in Times
    BY DEF Limit, AccountInv, AccountTypes
  <2> PICK before, after : before = tries[row.kind] /\ after = Append(before, now)
    OBVIOUS
  <2>3. before \in Seq(Times)
    BY <2>2 DEF AccountInv, LimitTypes
  <2>4. after \in Seq(Times)
    BY <2>2, <2>3, AppendProperties
  <2>5. tries' = [tries EXCEPT ![row.kind] = after]
    BY <1>9 DEF LetThrough
  <2>6. tries' \in [Attempts -> Seq(Times)]
    BY <2>2, <2>4, <2>5 DEF AccountInv, LimitTypes
  <2> QED
    BY <2>1, <2>6 DEF LimitTypes
<1>10. \A row \in LatestOf(kind) : row.blocked \in Nat
  BY DEF LatestOf, LimitsOf, AccountInv, LimitTypes, Limit
<1>6. /\ LimitTypes'
      /\ \/ Answer(f) \/ Goto(f, "count") \/ Goto(f, "read")
         \/ Goto(f, "claim") /\ kind = "claim"
  <2>1. CASE D1OpenWindow(f)
    BY <1>4, <1>8, <1>9, <2>1 DEF D1OpenWindow, AccountInv, LimitTypes, limitVars
  <2>2. CASE SqliteConsumeAuthAttempt(f)
    BY <1>4, <1>5, <1>8, <1>9, <2>2 DEF SqliteConsumeAuthAttempt, AccountInv, LimitTypes, limitVars
  <2>3. CASE D1CountAttempt(f)
    <3>1. CASE Answer(f) /\ UNCHANGED limitVars
      BY <3>1 DEF AccountInv, LimitTypes, limitVars
    <3>2. ASSUME NEW row \in LatestOf(kind), LetThrough(f, Counted(row, row.blocked), {row})
          PROVE  LimitTypes' /\ Goto(f, IF kind = "claim" THEN "claim" ELSE "read")
      <4>1. Counted(row, row.blocked).kind = kind /\ Counted(row, row.blocked) \in Limit
        BY <1>5, <1>10
      <4> PICK counted : counted = Counted(row, row.blocked)
        OBVIOUS
      <4>2. LetThrough(f, counted, {row})
        BY <3>2
      <4>3. LimitTypes'
        BY <1>9, <4>1, <4>2
      <4>4. Goto(f, IF counted.kind = "claim" THEN "claim" ELSE "read")
        BY <1>4, <4>2
      <4> QED
        BY <4>1, <4>3, <4>4
    <3>3. Goto(f, IF kind = "claim" THEN "claim" ELSE "read") =>
             Goto(f, "read") \/ (Goto(f, "claim") /\ kind = "claim")
      BY DEF Goto
    <3>4. \/ Answer(f) /\ UNCHANGED limitVars
          \/ \E row \in LatestOf(kind) : LetThrough(f, Counted(row, row.blocked), {row})
      BY <2>3 DEF D1CountAttempt, LetThrough, Answer
    <3> QED
      BY <3>1, <3>2, <3>3, <3>4
  <2> QED
    BY <2>1, <2>2, <2>3
<1>7. \A pc \in {"count", "read", "claim"}, r \in Fiber :
         r = [fiber[f] EXCEPT !.pc = pc] /\ (pc = "claim" => kind = "claim") => FiberFits(r, user)
  BY <1>2, <1>3 DEF FiberFits, AccountInv, FibersFit, Fiber
<1> QED
  BY <1>1, <1>6, <1>7, FiberLeaves, FiberGoesTo DEF Steps

\* Steps that only move the fiber, by what they require and where they lead.
LEMMA FibersPass ==
    ASSUME AccountInv, NEW f \in Fibers,
           \/ ClearAuthAttempts(f) \/ VerifyCredentials(f) \/ AnswerInvalidCredentials(f)
           \/ VerifyCurrentPassword(f)
    PROVE  AccountInv'
<1>1. UNCHANGED <<deployment, accountVars, now>>
  BY DEF ClearAuthAttempts, VerifyCredentials, AnswerInvalidCredentials, VerifyCurrentPassword
<1>2. LimitTypes'
  <2>1. CASE UNCHANGED limitVars
    BY <2>1 DEF AccountInv, LimitTypes, limitVars
  <2>2. CASE ClearAuthAttempts(f)
    <3>1. limits' \subseteq Limit /\ tries' = [tries EXCEPT ![fiber[f].kind] = NoTries]
      BY <2>2 DEF ClearAuthAttempts, AccountInv, LimitTypes
    <3>2. NoTries \in Seq(Times)
      BY EmptySeq DEF NoTries
    <3> QED
      BY <3>1, <3>2 DEF AccountInv, LimitTypes
  <2> QED
    BY <2>1, <2>2 DEF VerifyCredentials, AnswerInvalidCredentials, VerifyCurrentPassword
<1>3. fiber[f] \in Fiber /\ FiberFits(fiber[f], user)
  BY DEF AccountInv, FibersFit
<1>4. CASE ClearAuthAttempts(f)
  <2>1. \A r \in Fiber : r = [fiber[f] EXCEPT !.pc = "issue"] => FiberFits(r, user)
    BY <1>3, <1>4 DEF ClearAuthAttempts, Is, FiberFits, Fiber
  <2> QED
    BY <1>1, <1>2, <1>4, <2>1, FiberGoesTo DEF ClearAuthAttempts, Steps
<1>5. CASE VerifyCredentials(f)
  <2>1. CASE Goto(f, "refused")
    <3>1. \A r \in Fiber : r = [fiber[f] EXCEPT !.pc = "refused"] => FiberFits(r, user)
      BY <1>3 DEF FiberFits, Fiber
    <3> QED
      BY <1>1, <1>2, <2>1, <3>1, FiberGoesTo DEF Steps
  <2>2. CASE /\ user # NoUser /\ fiber[f].given = user.password
             /\ fiber' = [fiber EXCEPT ![f].pc = "clear", ![f].known = user]
    <3> PICK r : r = [fiber[f] EXCEPT !.pc = "clear", !.known = user]
      OBVIOUS
    <3>1. fiber' = [fiber EXCEPT ![f] = r]
      BY <2>2 DEF AccountInv, FibersFit
    <3>2. user \in User
      BY <2>2 DEF AccountInv, AccountTypes
    <3>3. r \in Fiber /\ r.pc = "clear" /\ r.known = user /\ r.given = fiber[f].given
          /\ r.kind = fiber[f].kind /\ r.next = fiber[f].next
      BY <1>3, <3>2 DEF Fiber, Steps
    <3>4. r.kind \in Attempts
      BY <1>5, <3>3 DEF VerifyCredentials
    <3>5. FiberFits(r, user)
      BY <1>3, <2>2, <3>2, <3>3, <3>4 DEF FiberFits, User
    <3> QED
      BY <1>1, <1>2, <3>1, <3>3, <3>5, FiberTurns
  <2> QED
    BY <1>5, <2>1, <2>2 DEF VerifyCredentials
<1>6. CASE AnswerInvalidCredentials(f)
  BY <1>1, <1>2, <1>6, FiberLeaves DEF AnswerInvalidCredentials
<1>7. CASE VerifyCurrentPassword(f)
  <2>1. CASE Answer(f)
    BY <1>1, <1>2, <2>1, FiberLeaves
  <2>2. CASE /\ user.password = fiber[f].given /\ user.generation = fiber[f].generation
             /\ Goto(f, "revoke")
    <3>1. fiber[f].given \in Passwords /\ fiber[f].kind = "change"
      BY <1>3, <1>7 DEF VerifyCurrentPassword, FiberFits
    <3>2. user # NoUser /\ user.generation \in Nat
      BY <2>2, <3>1 DEF NoUser, AccountInv, AccountTypes, User
    <3>3. \A r \in Fiber : r = [fiber[f] EXCEPT !.pc = "revoke"] => FiberFits(r, user)
      BY <1>3, <2>2, <3>1, <3>2 DEF FiberFits, Fiber
    <3> QED
      BY <1>1, <1>2, <2>2, <3>3, FiberGoesTo DEF Steps
  <2> QED
    BY <1>7, <2>1, <2>2 DEF VerifyCurrentPassword
<1> QED
  BY <1>4, <1>5, <1>6, <1>7

-----------------------------------------------------------------------------
(* The user changes                                                        *)

LEMMA NobodyHasNothing ==
    ASSUME AccountInv, user = NoUser
    PROVE  /\ sessions = {} /\ tokens = {}
           /\ \A g \in Fibers : fiber[g].pc \notin {"clear", "issue", "revoke"}
  BY DEF AccountInv, AccountTypes, CredentialsProveThePassword, FibersFit, FiberFits, Session,
         Token, User, NoUser

LEMMA UserChanges ==
    ASSUME AccountInv, FibersFit', user' \in User, sessions' = {}, tokens' = {},
           UNCHANGED <<deployment, granted, limitVars, now>>
    PROVE  AccountInv'
  BY DEF AccountInv, AccountTypes, SessionsTimed, CredentialsProveThePassword, LimitTypes,
         deployment, limitVars

LEMMA UserIsClaimed ==
    ASSUME AccountInv, NEW f \in Fibers, SqliteClaimUser(f) \/ D1ClaimUser(f)
    PROVE  AccountInv'
<1>1. UNCHANGED <<deployment, sessions, tokens, granted, limitVars, now>>
  BY DEF SqliteClaimUser, D1ClaimUser
<1>2. fiber[f] \in Fiber /\ fiber[f].kind = "claim" /\ fiber[f].given \in Passwords
  BY DEF SqliteClaimUser, D1ClaimUser, Is, AccountInv, FibersFit, FiberFits, Attempts
<1>3. LimitTypes'
  BY <1>1 DEF AccountInv, LimitTypes, limitVars
<1>4. CASE UNCHANGED user
  <2>1. Answer(f)
    BY <1>2, <1>4 DEF SqliteClaimUser, D1ClaimUser, BecomeOwner, NoUser
  <2> QED
    BY <1>1, <1>3, <1>4, <2>1, FiberLeaves DEF accountVars
<1>5. CASE user' # user
  <2> PICK owner : owner = [password |-> fiber[f].given, generation |-> 1]
    OBVIOUS
  <2>1. /\ user = NoUser /\ user' = owner
        /\ Answer(f) \/ fiber' = [fiber EXCEPT ![f].pc = "clear", ![f].known = owner]
    BY <1>5 DEF SqliteClaimUser, D1ClaimUser, BecomeOwner
  <2>2. owner \in User
    BY <1>2 DEF User
  <2>3. \A g \in Fibers : FiberFits(fiber[g], owner)
    BY <2>1, NobodyHasNothing DEF AccountInv, FibersFit, FiberFits
  <2>4. CASE Answer(f)
    BY <1>1, <2>1, <2>2, <2>3, <2>4, FiberAnswers, NobodyHasNothing, UserChanges
  <2>5. CASE fiber' = [fiber EXCEPT ![f].pc = "clear", ![f].known = owner]
    <3> PICK r : r = [fiber[f] EXCEPT !.pc = "clear", !.known = owner]
      OBVIOUS
    <3>1. fiber' = [fiber EXCEPT ![f] = r]
      BY <2>5 DEF AccountInv, FibersFit
    <3>2. r \in Fiber /\ r.pc = "clear" /\ r.known = owner /\ r.given = fiber[f].given
          /\ r.kind = "claim"
      BY <1>2, <2>2 DEF Fiber, Steps
    <3>3. FiberFits(r, owner)
      BY <1>2, <2>2, <3>2 DEF FiberFits, Attempts
    <3> QED
      BY <1>1, <2>1, <2>2, <2>3, <3>1, <3>2, <3>3, FiberGoes, NobodyHasNothing, UserChanges
  <2> QED
    BY <2>1, <2>4, <2>5
<1> QED
  BY <1>4, <1>5

LEMMA PasswordChanges ==
    ASSUME AccountInv, NEW f \in Fibers,
           SqliteRevokeAuthentication(f) \/ D1RevokeAuthentication(f)
    PROVE  /\ AccountInv'
           /\ user' # user => fiber[f].given = user.password
           /\ user' # user \/ UNCHANGED sessions
<1>1. UNCHANGED <<deployment, granted, limitVars, now>> /\ Answer(f)
  BY DEF SqliteRevokeAuthentication, D1RevokeAuthentication
<1>2. /\ fiber[f] \in Fiber /\ fiber[f].next \in Passwords
      /\ user \in User /\ fiber[f].generation <= user.generation
      /\ fiber[f].generation = user.generation => fiber[f].given = user.password
  BY DEF SqliteRevokeAuthentication, D1RevokeAuthentication, Is, AccountInv, FibersFit, FiberFits,
         AccountTypes
<1>3. ASSUME UNCHANGED <<user, sessions, tokens>>
      PROVE  AccountInv' /\ UNCHANGED sessions
  BY <1>1, <1>3, FiberLeaves DEF accountVars, AccountInv, LimitTypes, limitVars
<1>4. ASSUME user.generation = fiber[f].generation, user.generation < MaxGeneration,
             user' = Changed(f), sessions' = {}, tokens' = {}
      PROVE  AccountInv' /\ user' # user /\ fiber[f].given = user.password
  <2>1. user' \in User /\ user'.generation = user.generation + 1
    BY <1>2, <1>4 DEF Changed, User
  <2>2. \A g \in Fibers : FiberFits(fiber[g], user')
    <3> SUFFICES ASSUME NEW r \in Fiber, FiberFits(r, user)
                 PROVE  FiberFits(r, user')
      BY DEF AccountInv, FibersFit
    <3>1. user.generation \in Nat /\ r.generation \in Nat /\ user' # NoUser
      BY <1>2, <2>1 DEF User, Fiber, NoUser
    <3>2. r.known \in User => r.known.generation \in Nat
      BY DEF User
    <3> QED
      BY <2>1, <3>1, <3>2 DEF FiberFits
  <2>3. AccountInv'
    BY <1>1, <1>2, <1>4, <2>1, <2>2, FiberAnswers, UserChanges
  <2>4. user' # user
    BY <1>2, <2>1 DEF User
  <2> QED
    BY <1>2, <1>4, <2>3, <2>4
<1> QED
  BY <1>2, <1>3, <1>4 DEF SqliteRevokeAuthentication, D1RevokeAuthentication, Changed, User, Fiber

-----------------------------------------------------------------------------
(* Credentials are granted, used, and end                                  *)

LEMMA CredentialsAreGranted ==
    ASSUME AccountInv, NEW f \in Fibers, GrantSession(f) \/ GrantEmbyToken(f)
    PROVE  AccountInv'
<1>1. UNCHANGED <<deployment, user, limitVars, now>> /\ Answer(f)
  BY DEF GrantSession, GrantEmbyToken
<1>2. /\ fiber[f] \in Fiber /\ fiber[f].kind \in Attempts /\ fiber[f].given \in Passwords
      /\ fiber[f].known.generation = user.generation => fiber[f].given = user.password
  BY DEF GrantSession, GrantEmbyToken, Is, AccountInv, FibersFit, FiberFits
<1>3. FibersFit' /\ LimitTypes'
  BY <1>1, FiberAnswers DEF AccountInv, FibersFit, LimitTypes, limitVars
<1>4. CASE UNCHANGED accountVars
  BY <1>1, <1>3, <1>4, OnlyFibers
<1>5. CASE GrantSession(f) /\ ~UNCHANGED accountVars
  <2> PICK row : row = NewSession(granted + 1, user.generation, fiber[f].given)
    OBVIOUS
  <2>1. /\ ExpectedUser(f) /\ granted < MaxGrants /\ granted' = granted + 1
        /\ sessions' = sessions \cup {row} /\ UNCHANGED tokens
    BY <1>1, <1>5 DEF GrantSession, accountVars
  <2>2. user \in User /\ fiber[f].given = user.password
    BY <1>2, <2>1 DEF ExpectedUser, AccountInv, AccountTypes
  <2>3. row \in Session /\ Timed(row)
    BY <2>1, <2>2 DEF NewSession, Session, Ids, Timed, User, AccountInv, AccountTypes
  <2>4. row.proof = user.password /\ row.generation = user.generation
    BY <2>2 DEF NewSession
  <2>7. AccountTypes'
    BY <1>1, <2>1, <2>3 DEF AccountInv, AccountTypes, deployment
  <2>5. SessionsTimed'
    BY <1>1, <2>1, <2>3 DEF AccountInv, SessionsTimed, Timed
  <2>6. CredentialsProveThePassword'
    BY <1>1, <2>1, <2>4 DEF AccountInv, CredentialsProveThePassword
  <2> QED
    BY <1>3, <2>5, <2>6, <2>7 DEF AccountInv
<1>6. CASE GrantEmbyToken(f) /\ ~UNCHANGED accountVars
  <2> PICK row : row = [id |-> granted + 1, generation |-> user.generation,
                        proof |-> fiber[f].given]
    OBVIOUS
  <2>1. /\ ExpectedUser(f) /\ granted < MaxGrants /\ granted' = granted + 1
        /\ tokens' = tokens \cup {row} /\ UNCHANGED sessions
    BY <1>1, <1>6 DEF GrantEmbyToken, accountVars
  <2>2. user \in User /\ fiber[f].given = user.password
    BY <1>2, <2>1 DEF ExpectedUser, AccountInv, AccountTypes
  <2>3. row \in Token
    BY <2>1, <2>2 DEF Token, Ids, User, AccountInv, AccountTypes
  <2>4. row.proof = user.password /\ row.generation = user.generation
    BY <2>2
  <2>7. AccountTypes'
    BY <1>1, <2>1, <2>3 DEF AccountInv, AccountTypes, deployment
  <2>5. SessionsTimed'
    BY <1>1, <2>1, <2>3 DEF AccountInv, SessionsTimed, Timed
  <2>6. CredentialsProveThePassword'
    BY <1>1, <2>1, <2>4 DEF AccountInv, CredentialsProveThePassword
  <2> QED
    BY <1>3, <2>5, <2>6, <2>7 DEF AccountInv
<1> QED
  BY <1>4, <1>5, <1>6

\* A session that is used is seen now, or was seen a short while ago.
LEMMA Used ==
    ASSUME AccountInv, NEW row \in sessions
    PROVE  /\ Refreshed(row) \in Session /\ Refreshed(row).id = row.id
           /\ Refreshed(row).proof = row.proof /\ Refreshed(row).generation = row.generation
           /\ Timed(Refreshed(row))
           /\ [row EXCEPT !.used = now] \in Session /\ [row EXCEPT !.used = now].id = row.id
           /\ [row EXCEPT !.used = now].proof = row.proof
           /\ [row EXCEPT !.used = now].generation = row.generation
           /\ ~(now - row.seen >= RefreshAfter) => Timed([row EXCEPT !.used = now])
<1>1. row \in Session /\ now \in Nat /\ now + Lifetime \in Nat /\ now \in Times /\ Timed(row)
  BY DEF AccountInv, AccountTypes, SessionsTimed
<1>2. Refreshed(row) \in Session /\ [row EXCEPT !.used = now] \in Session
  BY <1>1 DEF Refreshed, Session
<1>3. /\ Refreshed(row).seen = now /\ Refreshed(row).used = now
      /\ Refreshed(row).expires = now + Lifetime /\ Refreshed(row).id = row.id
      /\ Refreshed(row).proof = row.proof /\ Refreshed(row).generation = row.generation
  BY <1>1 DEF Refreshed, Session
<1>4. Timed(Refreshed(row))
  BY <1>1, <1>3 DEF Timed
<1>5. /\ [row EXCEPT !.used = now].used = now /\ [row EXCEPT !.used = now].seen = row.seen
      /\ [row EXCEPT !.used = now].expires = row.expires
      /\ [row EXCEPT !.used = now].id = row.id
      /\ [row EXCEPT !.used = now].proof = row.proof
      /\ [row EXCEPT !.used = now].generation = row.generation
  BY <1>1 DEF Session
<1>6. ~(now - row.seen >= RefreshAfter) => Timed([row EXCEPT !.used = now])
  BY <1>1, <1>5 DEF Timed, Session
<1> QED
  BY <1>2, <1>3, <1>4, <1>5, <1>6

LEMMA SessionIsReplaced ==
    ASSUME AccountInv, FibersFit', NEW row \in sessions, NEW new \in Session,
           new.proof = row.proof, new.generation = row.generation, Timed(new),
           Replace(row, new), UNCHANGED <<deployment, user, tokens, granted, limitVars, now>>
    PROVE  AccountInv'
<1>1. AccountTypes' /\ SessionsTimed' /\ LimitTypes'
  BY DEF Replace, AccountInv, AccountTypes, SessionsTimed, Timed, LimitTypes, deployment, limitVars
<1>2. CredentialsProveThePassword'
  BY DEF Replace, AccountInv, CredentialsProveThePassword
<1> QED
  BY <1>1, <1>2 DEF AccountInv

\* A fiber whose session is known goes on as its kind of request does.
LEMMA AdmittedFits ==
    ASSUME AccountInv, NEW f \in Fibers, fiber[f].pc \in {"lookup", "refresh"},
           NEW row \in sessions, Admitted(f, row), UNCHANGED user
    PROVE  FibersFit'
<1>1. fiber[f] \in Fiber /\ FiberFits(fiber[f], user) /\ fiber[f].kind \in LookedUp
  BY DEF AccountInv, FibersFit, FiberFits
<1>2. row.generation \in 0 .. MaxGeneration
  BY DEF AccountInv, AccountTypes, Session
<1>3. CASE Answer(f)
  BY <1>3, FiberAnswers DEF AccountInv, FibersFit
<1>4. CASE ~Answer(f)
  <2> PICK pc : pc = CASE fiber[f].kind = "logout" -> "delete"
                       [] fiber[f].kind = "change" -> "read"
                       [] OTHER -> fiber[f].kind
    OBVIOUS
  <2> PICK r : r = [fiber[f] EXCEPT !.generation = row.generation, !.pc = pc]
    OBVIOUS
  <2>1. pc \in {"delete", "read"} \cup ConsoleKinds
    BY <1>1, <1>4 DEF Admitted, LookedUp
  <2>2. fiber' = [fiber EXCEPT ![f] = r]
    BY <1>4 DEF Admitted, AccountInv, FibersFit
  <2>3. pc \in Steps
    BY <2>1 DEF Steps, ConsoleSteps, ConsoleKinds
  <2>4. r \in Fiber /\ r.pc = pc /\ r.kind = fiber[f].kind /\ r.given = fiber[f].given
        /\ r.next = fiber[f].next
    BY <1>1, <1>2, <2>3 DEF Fiber
  <2>5. FiberFits(r, user')
    BY <1>1, <2>1, <2>4 DEF FiberFits, ConsoleKinds
  <2> QED
    BY <2>2, <2>4, <2>5, FiberGoes DEF AccountInv, FibersFit
<1> QED
  BY <1>3, <1>4

LEMMA SessionsAreUsed ==
    ASSUME AccountInv, NEW f \in Fibers,
           \/ SqliteLookupDashboardSession(f) \/ D1LookupDashboardSession(f)
           \/ D1RefreshDashboardSession(f)
    PROVE  AccountInv'
<1>1. UNCHANGED <<deployment, user, tokens, granted, limitVars, now>>
      /\ fiber[f].pc \in {"lookup", "refresh"}
  BY DEF SqliteLookupDashboardSession, D1LookupDashboardSession, D1RefreshDashboardSession, Is
<1>2. LimitTypes'
  BY <1>1 DEF AccountInv, LimitTypes, limitVars
<1>3. CASE Answer(f) /\ UNCHANGED sessions
  BY <1>1, <1>2, <1>3, FiberLeaves DEF accountVars
<1>4. ASSUME NEW row \in sessions, Admitted(f, row), Replace(row, Refreshed(row))
      PROVE  AccountInv'
  <2> PICK new : new = Refreshed(row)
    OBVIOUS
  <2>1. new \in Session /\ new.proof = row.proof /\ new.generation = row.generation /\ Timed(new)
    BY Used
  <2>2. FibersFit'
    BY <1>1, <1>4, AdmittedFits
  <2> QED
    BY <1>1, <1>4, <2>1, <2>2, SessionIsReplaced
<1>5. ASSUME NEW row \in sessions, Admitted(f, row), ~(now - row.seen >= RefreshAfter),
             Replace(row, [row EXCEPT !.used = now])
      PROVE  AccountInv'
  <2> PICK new : new = [row EXCEPT !.used = now]
    OBVIOUS
  <2>1. new \in Session /\ new.proof = row.proof /\ new.generation = row.generation /\ Timed(new)
    BY <1>5, Used
  <2>2. FibersFit'
    BY <1>1, <1>5, AdmittedFits
  <2> QED
    BY <1>1, <1>5, <2>1, <2>2, SessionIsReplaced
<1>6. ASSUME NEW row \in sessions, Is(f, "lookup"), UNCHANGED sessions,
             fiber' = [fiber EXCEPT ![f].pc = "refresh", ![f].generation = row.generation]
      PROVE  AccountInv'
  <2>1. fiber[f] \in Fiber /\ FiberFits(fiber[f], user) /\ row.generation \in 0 .. MaxGeneration
    BY DEF AccountInv, FibersFit, AccountTypes, Session
  <2> PICK r : r = [fiber[f] EXCEPT !.pc = "refresh", !.generation = row.generation]
    OBVIOUS
  <2>2. fiber' = [fiber EXCEPT ![f] = r]
    BY <1>6 DEF AccountInv, FibersFit
  <2>3. r \in Fiber /\ r.pc = "refresh" /\ r.kind = fiber[f].kind /\ r.given = fiber[f].given
        /\ r.next = fiber[f].next
    BY <2>1 DEF Fiber, Steps
  <2>4. FiberFits(r, user)
    BY <1>6, <2>1, <2>3 DEF FiberFits, Is
  <2> QED
    BY <1>1, <1>2, <1>6, <2>2, <2>3, <2>4, FiberTurns DEF accountVars
<1>7. CASE SqliteLookupDashboardSession(f)
  <2>1. CASE \E row \in sessions :
                 /\ row.id = fiber[f].id /\ Valid(row)
                 /\ Admitted(f, row)
                 /\ Replace(row, IF now - row.seen >= RefreshAfter
                                 THEN Refreshed(row)
                                 ELSE [row EXCEPT !.used = now])
    <3> PICK row \in sessions :
               /\ Admitted(f, row)
               /\ Replace(row, IF now - row.seen >= RefreshAfter
                               THEN Refreshed(row)
                               ELSE [row EXCEPT !.used = now])
      BY <2>1
    <3>1. CASE now - row.seen >= RefreshAfter
      BY <1>4, <3>1 DEF Replace
    <3>2. CASE ~(now - row.seen >= RefreshAfter)
      BY <1>5, <3>2 DEF Replace
    <3> QED
      BY <3>1, <3>2
  <2> QED
    BY <1>3, <1>7, <2>1 DEF SqliteLookupDashboardSession
<1>8. CASE D1LookupDashboardSession(f)
  BY <1>3, <1>5, <1>6, <1>8 DEF D1LookupDashboardSession
<1>9. CASE D1RefreshDashboardSession(f)
  BY <1>3, <1>4, <1>9 DEF D1RefreshDashboardSession
<1> QED
  BY <1>7, <1>8, <1>9

\* Sessions and tokens may go whenever they like.
LEMMA CredentialsGo ==
    ASSUME AccountInv, FibersFit', LimitTypes', sessions' \subseteq sessions,
           tokens' \subseteq tokens, UNCHANGED <<deployment, user, granted, now>>
    PROVE  AccountInv'
  BY DEF AccountInv, AccountTypes, SessionsTimed, Timed, CredentialsProveThePassword, deployment

LEMMA SessionsEnd ==
    ASSUME AccountInv, RunMaintenance \/ \E f \in Fibers : DeleteDashboardSession(f)
    PROVE  AccountInv'
<1>1. CASE RunMaintenance
  <2>1. FibersFit' /\ LimitTypes'
    BY <1>1 DEF RunMaintenance, AccountInv, FibersFit, LimitTypes
  <2> QED
    BY <1>1, <2>1, CredentialsGo DEF RunMaintenance
<1>2. ASSUME NEW f \in Fibers, DeleteDashboardSession(f)
      PROVE  AccountInv'
  <2>1. FibersFit' /\ LimitTypes'
    BY <1>2, FiberAnswers DEF DeleteDashboardSession, AccountInv, FibersFit, LimitTypes, limitVars
  <2> QED
    BY <1>2, <2>1, CredentialsGo DEF DeleteDashboardSession
<1> QED
  BY <1>1, <1>2

LEMMA TimePasses ==
    ASSUME AccountInv, Tick
    PROVE  AccountInv'
<1>1. now' = now + 1 /\ now' \in Times /\ UNCHANGED <<deployment, accountVars, limitVars, fiber>>
  BY DEF Tick, AccountInv, AccountTypes
<1>2. AccountTypes' /\ LimitTypes' /\ FibersFit' /\ CredentialsProveThePassword'
  BY <1>1 DEF AccountInv, AccountTypes, LimitTypes, FibersFit, CredentialsProveThePassword,
              deployment, accountVars, limitVars
<1>3. \A row \in sessions : row \in Session
  BY DEF AccountInv, AccountTypes
<1>4. SessionsTimed'
  BY <1>1, <1>3 DEF AccountInv, AccountTypes, SessionsTimed, Timed, accountVars, Session
<1> QED
  BY <1>2, <1>4 DEF AccountInv

LEMMA AccountsStepBySteps ==
    ASSUME AccountInv, Next
    PROVE  AccountInv'
<1>1. ASSUME NEW f \in Fibers, Handle(f)
      PROVE  AccountInv'
  BY <1>1, RequestsBegin, AttemptsCount, FibersPass, UserIsClaimed, PasswordChanges,
     CredentialsAreGranted, SessionsAreUsed, SessionsEnd
     DEF Handle, SqliteIssueDashboardSession, D1IssueDashboardSession, SqliteIssueEmbyToken,
         D1IssueEmbyToken
<1> QED
  BY <1>1, SessionsEnd, TimePasses DEF Next

-----------------------------------------------------------------------------
(* The console, and devices of connections                                 *)

\* What a step of the console does to its fiber.
LEMMA ConsoleMoves ==
    ASSUME AccountInv, NEW f \in Fibers, Console(f)
    PROVE  FibersFit'
<1>1. UNCHANGED user
  BY DEF Console, VerifyConnection, ReadOwner, GrantToken, LinkConnectionDevice, BeginConsole,
         CountConnections, InsertConnection, FindConnection, MarkRevoked, TakeTokens, DropToken,
         DropLinks, ReplacePassword, BeginUnlink, Unlink, EraseToken, Stay
<1>2. CASE Answer(f)
  BY <1>1, <1>2, FiberAnswers DEF AccountInv, FibersFit
<1>3. CASE \E pc \in {"owner", "link", "insert", "take", "drop", "replace", "erase"} : Goto(f, pc)
  BY <1>1, <1>3, FiberMoves DEF Plain, Steps, ConsoleSteps
<1>4. CASE UNCHANGED fiber
  BY <1>1, <1>4 DEF AccountInv, FibersFit
<1>5. CASE user # NoUser /\ fiber' = [fiber EXCEPT ![f].pc = "grant", ![f].known = user]
  <2> PICK r : r = [fiber[f] EXCEPT !.pc = "grant", !.known = user]
    OBVIOUS
  <2>1. fiber' = [fiber EXCEPT ![f] = r]
    BY <1>5 DEF AccountInv, FibersFit
  <2>2. fiber[f] \in Fiber /\ FiberFits(fiber[f], user) /\ user \in User
    BY <1>5 DEF AccountInv, FibersFit, AccountTypes
  <2>3. r \in Fiber /\ r.pc = "grant" /\ r.kind = fiber[f].kind /\ r.given = fiber[f].given
        /\ r.next = fiber[f].next
    BY <2>2 DEF Fiber, Steps, ConsoleSteps
  <2>4. FiberFits(r, user')
    BY <1>1, <2>2, <2>3 DEF FiberFits
  <2> QED
    BY <1>1, <2>1, <2>3, <2>4, FiberGoes DEF AccountInv, FibersFit
<1>6. CASE BeginConsole(f)
  <2> PICK kind \in {"create", "update", "remove"}, id \in 1 .. granted, password \in Passwords :
         fiber' = [fiber EXCEPT ![f] = [Idle EXCEPT
               !.pc = "lookup", !.kind = kind, !.id = id, !.given = password]]
    BY <1>6 DEF BeginConsole
  <2> PICK r : r = [Idle EXCEPT !.pc = "lookup", !.kind = kind, !.id = id, !.given = password]
    OBVIOUS
  <2>1. fiber' = [fiber EXCEPT ![f] = r]
    OBVIOUS
  <2>2. id \in 0 .. MaxGrants
    BY DEF AccountInv, AccountTypes
  <2>3. r \in Fiber /\ FiberFits(r, user')
    BY <2>2, IdleFits DEF Fiber, Steps, Kinds, FiberFits, Attempts, LookedUp, ConsoleKinds
  <2> QED
    BY <1>1, <2>1, <2>3, FiberGoes DEF AccountInv, FibersFit
<1>7. CASE BeginUnlink(f)
  <2> PICK r : r = [Idle EXCEPT !.pc = "unlink", !.kind = "unlink"]
    OBVIOUS
  <2>1. fiber' = [fiber EXCEPT ![f] = r]
    BY <1>7 DEF BeginUnlink
  <2>3. r \in Fiber /\ FiberFits(r, user')
    BY IdleFits DEF Fiber, Steps, ConsoleSteps, Kinds, FiberFits, Attempts, LookedUp, ConsoleKinds
  <2> QED
    BY <1>1, <2>1, <2>3, FiberGoes DEF AccountInv, FibersFit
<1> QED
  BY <1>2, <1>3, <1>4, <1>5, <1>6, <1>7
     DEF Console, VerifyConnection, ReadOwner, GrantToken, LinkConnectionDevice,
         CountConnections, InsertConnection, FindConnection, MarkRevoked, TakeTokens, DropToken,
         DropLinks, ReplacePassword, Unlink, EraseToken, Leave

LEMMA TokensAreGranted ==
    ASSUME AccountInv, NEW f \in Fibers, GrantToken(f)
    PROVE  AccountInv'
<1>1. UNCHANGED <<deployment, user, sessions, limitVars, now>>
  BY DEF GrantToken
<1>2. FibersFit' /\ LimitTypes'
  BY <1>1, ConsoleMoves DEF Console, AccountInv, LimitTypes, limitVars
<1>3. CASE UNCHANGED <<granted, tokens>>
  BY <1>1, <1>2, <1>3, OnlyFibers DEF accountVars
<1>4. CASE ~UNCHANGED <<granted, tokens>>
  <2> PICK row : row = [id |-> granted + 1, proof |-> NoPassword,
                        generation |-> user.generation]
    OBVIOUS
  <2>1. /\ ExpectedUser(f) /\ granted < MaxGrants /\ granted' = granted + 1
        /\ tokens' = tokens \cup {row}
    BY <1>4 DEF GrantToken
  <2>2. user \in User
    BY <2>1 DEF ExpectedUser, AccountInv, AccountTypes
  <2>3. row \in Token /\ row.proof = NoPassword /\ row.generation = user.generation
    BY <2>1, <2>2 DEF Token, Ids, User, AccountInv, AccountTypes
  <2>4. AccountTypes'
    BY <1>1, <2>1, <2>3 DEF AccountInv, AccountTypes, deployment
  <2>5. SessionsTimed' /\ CredentialsProveThePassword'
    BY <1>1, <2>1, <2>3 DEF AccountInv, SessionsTimed, Timed, CredentialsProveThePassword
  <2> QED
    BY <1>2, <2>4, <2>5 DEF AccountInv
<1> QED
  BY <1>3, <1>4

LEMMA ConsoleStepsKeep ==
    ASSUME AccountInv, NEW f \in Fibers, Console(f)
    PROVE  AccountInv'
<1>1. CASE GrantToken(f)
  BY <1>1, TokensAreGranted
<1>2. CASE ~GrantToken(f)
  <2>1. Stay /\ tokens' \subseteq tokens
    BY <1>2 DEF Console, VerifyConnection, ReadOwner, LinkConnectionDevice, BeginConsole,
         CountConnections, InsertConnection, FindConnection, MarkRevoked, TakeTokens, DropToken,
         DropLinks, ReplacePassword, BeginUnlink, Unlink, EraseToken
  <2>2. LimitTypes'
    BY <2>1 DEF Stay, AccountInv, LimitTypes, limitVars
  <2> QED
    BY <2>1, <2>2, ConsoleMoves, CredentialsGo DEF Stay
<1> QED
  BY <1>1, <1>2

LEMMA AccountsBegin ==
    ASSUME ConnectionsInit
    PROVE  AccountInv
<1>1. /\ store \in Stores /\ traffic \in Traffics /\ now = 0 /\ tokens = {} /\ limits = {}
      /\ fiber = [f \in Fibers |-> Idle] /\ tries = [kind \in Attempts |-> NoTries]
  BY DEF ConnectionsInit, Init
<1>2. LimitTypes /\ FibersFit
  BY <1>1, IdleFits, EmptySeq DEF LimitTypes, NoTries, FibersFit
<1>3. CASE user = NoUser /\ sessions = {} /\ granted = 0
  BY <1>1, <1>2, <1>3 DEF AccountInv, AccountTypes, SessionsTimed, CredentialsProveThePassword
<1>4. ASSUME NEW password \in Passwords, user = [password |-> password, generation |-> 1],
             sessions = {NewSession(1, 1, password)}, granted = 1
      PROVE  AccountInv
  <2> PICK row : row = NewSession(1, 1, password)
    OBVIOUS
  <2>1. row \in Session /\ Timed(row) /\ row.proof = password /\ row.generation = 1
    BY <1>1 DEF NewSession, Session, Ids, Timed
  <2>2. user \in User
    BY <1>4 DEF User
  <2> QED
    BY <1>1, <1>2, <1>4, <2>1, <2>2
       DEF AccountInv, AccountTypes, SessionsTimed, CredentialsProveThePassword
<1> QED
  BY <1>3, <1>4 DEF ConnectionsInit, Init

LEMMA AccountsStay == ConnectionsSpec => []AccountInv
<1>1. AccountInv /\ [ConnectionsNext]_allVars => AccountInv'
  <2>1. ASSUME AccountInv, UNCHANGED allVars
        PROVE  AccountInv'
    BY <2>1 DEF allVars, vars, AccountInv, AccountTypes, LimitTypes, FibersFit, SessionsTimed, Timed,
                CredentialsProveThePassword
  <2> QED
    BY <2>1, AccountsStepBySteps, ConsoleStepsKeep DEF ConnectionsNext, AccountsStep
<1> QED
  BY <1>1, AccountsBegin, PTL DEF ConnectionsSpec

\* Every stored session and every token granted on the owner's password was granted to
\* someone who gave the password as it is now (INSERT ... SELECT of the issuing statements,
\* revokeAuthentication).
THEOREM CredentialsProve == ConnectionsSpec => []CredentialsProveThePassword
  BY AccountsStay, PTL DEF AccountInv

\* A change of the password replaces only the password its request gave and verified
\* (changePassword, revokeAuthentication).
THEOREM ChangesProve == ConnectionsSpec => ChangesProveThePassword
<1>1. ASSUME AccountInv, [ConnectionsNext]_allVars, user # NoUser, user' # user
      PROVE  \E f \in Fibers : Is(f, "revoke") /\ fiber[f].given = user.password
  <2>1. PICK f \in Fibers : SqliteRevokeAuthentication(f) \/ D1RevokeAuthentication(f)
    BY <1>1, ZenonT(60) DEF ConnectionsNext, AccountsStep, allVars, vars, Next, RunMaintenance, Tick, Handle,
         BeginAttempt, BeginSession, BeginLogout, BeginChangePassword, SqliteConsumeAuthAttempt,
         D1OpenWindow, D1CountAttempt, ClearAuthAttempts, SqliteClaimUser, D1ClaimUser, BecomeOwner,
         VerifyCredentials, AnswerInvalidCredentials, SqliteIssueDashboardSession,
         D1IssueDashboardSession, SqliteIssueEmbyToken, D1IssueEmbyToken, GrantSession,
         GrantEmbyToken, SqliteLookupDashboardSession, D1LookupDashboardSession,
         D1RefreshDashboardSession, DeleteDashboardSession, VerifyCurrentPassword, accountVars,
         Console, VerifyConnection, ReadOwner, GrantToken, LinkConnectionDevice, BeginConsole,
         CountConnections, InsertConnection, FindConnection, MarkRevoked, TakeTokens, DropToken,
         DropLinks, ReplacePassword, BeginUnlink, Unlink, EraseToken, Stay
  <2> QED
    BY <1>1, <2>1, PasswordChanges DEF SqliteRevokeAuthentication, D1RevokeAuthentication
<1>2. AccountInv /\ [ConnectionsNext]_allVars =>
         [user # NoUser /\ user' # user =>
             \E f \in Fibers : Is(f, "revoke") /\ fiber[f].given = user.password]_vars
  BY <1>1
<1> QED
  BY <1>2, AccountsStay, PTL DEF ConnectionsSpec, ChangesProveThePassword

\* A session in use stays: while the password is unchanged and it is not logged out, it goes
\* only after a pause longer than Lifetime - RefreshAfter (lookupDashboardSession, its refresh,
\* and maintenance).
THEOREM SessionsInUse == ConnectionsSpec => SessionsInUseStay
<1> DEFINE GoneFor(row) ==
        \/ user' # user
        \/ \E f \in Fibers : Is(f, "delete") /\ fiber[f].id = row.id
        \/ now - row.used > Lifetime - RefreshAfter
<1>1. ASSUME AccountInv, [ConnectionsNext]_allVars, NEW row \in sessions,
             \A other \in sessions' : other.id # row.id
      PROVE  GoneFor(row)
  <2>1. CASE RunMaintenance
    <3>1. ~(row.expires > now)
      BY <1>1, <2>1 DEF RunMaintenance
    <3>2. row \in Session /\ Timed(row) /\ now \in Nat
      BY <1>1 DEF AccountInv, AccountTypes, SessionsTimed
    <3> QED
      BY <3>1, <3>2 DEF Timed, Session
  <2>2. CASE \E f \in Fibers : DeleteDashboardSession(f)
    BY <1>1, <2>2 DEF DeleteDashboardSession
  <2>3. CASE \E f \in Fibers : SqliteRevokeAuthentication(f) \/ D1RevokeAuthentication(f)
    BY <1>1, <2>3, PasswordChanges
  <2>4. CASE \E f \in Fibers : \/ SqliteLookupDashboardSession(f) \/ D1LookupDashboardSession(f)
                               \/ D1RefreshDashboardSession(f)
    <3>1. \A old \in sessions : \A new : new.id = old.id /\ Replace(old, new) =>
             \E other \in sessions' : other.id = row.id
      BY DEF Replace
    <3>2. \/ UNCHANGED sessions
          \/ \E old \in sessions : \/ Replace(old, Refreshed(old))
                                   \/ Replace(old, [old EXCEPT !.used = now])
      BY <2>4 DEF SqliteLookupDashboardSession, D1LookupDashboardSession,
                  D1RefreshDashboardSession, Replace
    <3>3. \A old \in sessions : Refreshed(old).id = old.id /\ [old EXCEPT !.used = now].id = old.id
      BY <1>1, Used
    <3> QED
      BY <1>1, <3>1, <3>2, <3>3
  <2>5. CASE sessions \subseteq sessions'
    BY <1>1, <2>5
  <2> QED
    BY <1>1, <2>1, <2>2, <2>3, <2>4, <2>5
       DEF ConnectionsNext, AccountsStep, allVars, vars, Next, Tick, Handle,
         BeginAttempt, BeginSession, BeginLogout, BeginChangePassword, SqliteConsumeAuthAttempt,
         D1OpenWindow, D1CountAttempt, ClearAuthAttempts, SqliteClaimUser, D1ClaimUser,
         VerifyCredentials, AnswerInvalidCredentials, SqliteIssueDashboardSession,
         D1IssueDashboardSession, SqliteIssueEmbyToken, D1IssueEmbyToken, GrantSession,
         GrantEmbyToken, VerifyCurrentPassword, accountVars,
         Console, VerifyConnection, ReadOwner, GrantToken, LinkConnectionDevice, BeginConsole,
         CountConnections, InsertConnection, FindConnection, MarkRevoked, TakeTokens, DropToken,
         DropLinks, ReplacePassword, BeginUnlink, Unlink, EraseToken, Stay
<1>2. AccountInv /\ [ConnectionsNext]_allVars =>
         [\A row \in sessions : (\A other \in sessions' : other.id # row.id) => GoneFor(row)]_vars
  BY <1>1
<1> QED
  BY <1>2, AccountsStay, PTL DEF ConnectionsSpec, SessionsInUseStay

-----------------------------------------------------------------------------
(* The limit of attempts.  An attempt is known by its place in tries: q is *)
(* the sequence of one kind, rows are its windows, t is the time.          *)

\* Of n attempts that precede a window, how many may be late in the one before.
Slack == IF store = "sqlite" THEN MaxAttempts - 2 ELSE MaxAttempts - 1

\* The most that any window of time lets through.
Most == MaxAttempts + Slack

\* Of the first n attempts, all but Slack are a Window ago at t.
Past(q, n, t) == n > Slack => q[n - Slack] + Window <= t

Ordered(q, t) ==
    \A i, j \in 1 .. Len(q) : q[j] <= t /\ (i <= j => q[i] <= q[j])

Bounded(q) ==
    \A n \in 1 .. Len(q) - Most : q[n] + Window <= q[n + Most]

\* The latest window: it counts the attempts since it began, its predecessors
\* ended before it, and it is blocked by the last attempt that it lets through.
IsLatest(row, q, rows) ==
    /\ row.count \in 1 .. MaxAttempts /\ row.count <= Len(q)
    /\ q[Len(q) - row.count + 1] = row.start
    /\ Past(q, Len(q) - row.count, row.start)
    /\ row.blocked = IF row.count = MaxAttempts THEN q[Len(q)] + Window ELSE 0
    /\ \A other \in rows \ {row} :
           other.start + Window <= row.start /\ other.blocked <= row.start + Window

WindowsFit(q, rows, t) ==
    /\ Ordered(q, t) /\ Bounded(q)
    /\ \/ rows = {} /\ Past(q, Len(q), t)
       \/ \E row \in rows : IsLatest(row, q, rows)

AttemptsInv == \A kind \in Attempts : WindowsFit(tries[kind], LimitsOf(kind), now)

\* An attempt more: the sequence as it was, and one that is made now.
LEMMA AttemptMore ==
    ASSUME NEW q \in Seq(Times), NEW t \in Times
    PROVE  /\ Append(q, t) \in Seq(Times)
           /\ Len(q) \in Nat /\ Len(Append(q, t)) = Len(q) + 1
           /\ Append(q, t)[Len(q) + 1] = t
           /\ \A i \in 1 .. Len(q) : Append(q, t)[i] = q[i] /\ q[i] \in Times
  BY AppendProperties, LenProperties, ElementOfSeq

\* What is no later than something a Window ago is a Window ago.
LEMMA EndsBefore ==
    ASSUME NEW a \in Times, NEW b \in Times, NEW c \in Times, NEW d \in Times,
           a <= b, b + Window <= c, c <= d
    PROVE  a + Window <= d
  OBVIOUS

LEMMA SlackFits ==
    /\ Slack \in Nat /\ Slack + 2 >= MaxAttempts /\ Slack < MaxAttempts
    /\ Most \in Nat /\ Most = MaxAttempts + Slack
  BY DEF Slack, Most

\* Of n + 1 attempts, one that is related to another by a bound m on them is related to one
\* of the first n, or to the last.
LEMMA LastPlace ==
    ASSUME NEW n \in Nat, NEW m \in Nat, m > 0, NEW i \in 1 .. (n + 1) - m
    PROVE  i \in 1 .. n /\ (i + m <= n \/ (i = (n + 1) - m /\ n + 1 > m /\ i + m = n + 1))
  OBVIOUS

LEMMA BoundedUpTo ==
    ASSUME NEW q, NEW n, Len(q) = n, \A i \in 1 .. n - Most : q[i] + Window <= q[i + Most]
    PROVE  Bounded(q)
  BY Zenon DEF Bounded

\* The order and the bound outlast an attempt now, if the one that the bound
\* relates it to is a Window ago.
LEMMA BoundOutlasts ==
    ASSUME NEW q \in Seq(Times), NEW t \in Times, Ordered(q, t), Bounded(q),
           Len(q) + 1 > Most => q[(Len(q) + 1) - Most] + Window <= t
    PROVE  Ordered(Append(q, t), t) /\ Bounded(Append(q, t))
<1> PICK n, more : n = Len(q) /\ more = Append(q, t)
  OBVIOUS
<1>1. /\ n \in Nat /\ Len(more) = n + 1 /\ more[n + 1] = t
      /\ \A i \in 1 .. n : more[i] = q[i] /\ q[i] \in Times
  BY AttemptMore
<1>2. Most \in Nat /\ Most > 0
  BY SlackFits
<1>3. Ordered(more, t)
  BY <1>1 DEF Ordered
<1>4. ASSUME NEW i \in 1 .. (n + 1) - Most
      PROVE  more[i] + Window <= more[i + Most]
  <2>1. i \in 1 .. n /\ (i + Most <= n \/ (i = (n + 1) - Most /\ n + 1 > Most /\ i + Most = n + 1))
    BY <1>1, <1>2, <1>4, LastPlace
  <2>2. CASE i + Most <= n
    <3>1. i \in 1 .. n - Most /\ i + Most \in 1 .. n
      BY <1>1, <1>2, <2>1, <2>2
    <3>2. q[i] + Window <= q[i + Most]
      BY <3>1 DEF Bounded
    <3> QED
      BY <1>1, <2>1, <3>1, <3>2
  <2>3. CASE ~(i + Most <= n)
    <3>1. i = (n + 1) - Most /\ n + 1 > Most /\ i + Most = n + 1
      BY <2>1, <2>3, Zenon
    <3>2. q[i] + Window <= t
      <4>1. Len(q) + 1 > Most /\ (Len(q) + 1) - Most = i
        BY <3>1
      <4> QED
        BY <4>1
    <3>3. more[i] = q[i] /\ more[i + Most] = t
      BY <1>1, <2>1, <3>1
    <3> QED
      BY <3>2, <3>3
  <2> QED
    BY <2>2, <2>3
<1>5. Bounded(more)
  <2>1. Len(more) = n + 1
    BY <1>1
  <2>2. \A i \in 1 .. (n + 1) - Most : more[i] + Window <= more[i + Most]
    BY <1>4
  <2> QED
    BY <2>1, <2>2, BoundedUpTo, Zenon
<1> QED
  BY <1>3, <1>5

\* Once the latest window has ended and, on SQLite, blocks no more, all but Slack attempts are
\* a Window ago.
LEMMA AllArePast ==
    ASSUME NEW q \in Seq(Times), NEW rows \in SUBSET Limit, NEW t \in Times,
           WindowsFit(q, rows, t), NEW row \in rows, IsLatest(row, q, rows),
           row.start + Window <= t, store = "sqlite" => row.blocked <= t
    PROVE  Past(q, Len(q), t)
<1> PICK n : n = Len(q)
  OBVIOUS
<1>1. n \in Nat /\ \A i \in 1 .. n : q[i] \in Times
  BY AttemptMore
<1>2. Slack \in Nat /\ Slack + 2 >= MaxAttempts
  BY SlackFits
<1>3. SUFFICES ASSUME n > Slack PROVE q[n - Slack] + Window <= t
  BY DEF Past
<1>4. /\ row.count \in 1 .. MaxAttempts /\ row.count <= n
      /\ q[n - row.count + 1] = row.start /\ row.start + Window <= t
      /\ row.blocked = IF row.count = MaxAttempts THEN q[n] + Window ELSE 0
  BY DEF IsLatest
<1>5. \A i, j \in 1 .. n : i <= j => q[i] <= q[j]
  BY DEF WindowsFit, Ordered
<1>6. CASE n - Slack <= n - row.count + 1
  <2>1. n - Slack \in 1 .. n /\ n - row.count + 1 \in 1 .. n
    <3> PICK count, slack : count = row.count /\ slack = Slack
      OBVIOUS
    <3>1. n \in Nat /\ slack \in Nat /\ n > slack /\ count \in 1 .. MaxAttempts /\ count <= n
      BY <1>1, <1>2, <1>3, <1>4
    <3>2. n - slack \in 1 .. n /\ n - count + 1 \in 1 .. n
      BY ONLY <3>1
    <3> QED
      BY <3>2
  <2>2. q[n - Slack] <= q[n - row.count + 1]
    BY <1>5, <1>6, <2>1
  <2>3. q[n - Slack] \in Times /\ row.start \in Times
    BY <1>1, <2>1 DEF Limit
  <2> QED
    BY <1>4, <2>2, <2>3
<1>7. CASE ~(n - Slack <= n - row.count + 1)
  <2>1. row.count = MaxAttempts /\ Slack = MaxAttempts - 2
    BY <1>1, <1>2, <1>4, <1>7
  <2>2. store = "sqlite"
    BY <2>1 DEF Slack
  <2>3. n \in 1 .. n /\ n - Slack \in 1 .. n
    BY <1>1, <1>2, <1>3
  <2>4. q[n - Slack] <= q[n] /\ q[n] + Window <= t
    BY <1>2, <1>4, <1>5, <2>1, <2>2, <2>3
  <2> QED
    BY <1>1, <2>3, <2>4
<1> QED
  BY <1>6, <1>7

\* A window is opened when no row is of one that is still going on: SQLite looks
\* also whether the latest row is blocked, so its bound has one attempt less.
LEMMA WindowOpens ==
    ASSUME NEW q \in Seq(Times), NEW rows \in SUBSET Limit, NEW t \in Times,
           WindowsFit(q, rows, t), \A row \in rows : row.start + Window <= t,
           store = "sqlite" => \A row \in rows : IsLatest(row, q, rows) => row.blocked <= t,
           NEW new, new.start = t, new.count = 1, new.blocked = 0
    PROVE  WindowsFit(Append(q, t), rows \cup {new}, t)
<1> PICK n, more : n = Len(q) /\ more = Append(q, t)
  OBVIOUS
<1>1. /\ n \in Nat /\ Len(more) = n + 1 /\ more[n + 1] = t
      /\ \A i \in 1 .. n : more[i] = q[i] /\ q[i] \in Times
  BY AttemptMore
<1>2. Slack \in Nat /\ Slack + 2 >= MaxAttempts /\ Slack < MaxAttempts
      /\ Most = MaxAttempts + Slack
  BY SlackFits
<1>3. Past(q, n, t)
  <2>1. CASE rows = {} /\ Past(q, Len(q), t)
    BY <2>1
  <2>2. ASSUME NEW row \in rows, IsLatest(row, q, rows)
        PROVE  Past(q, n, t)
    BY <2>2, AllArePast
  <2> QED
    BY <2>1, <2>2 DEF WindowsFit
<1>4. n + 1 > Most => q[(n + 1) - Most] + Window <= t
  <2>1. SUFFICES ASSUME n + 1 > Most
                 PROVE  q[(n + 1) - Most] + Window <= t
    OBVIOUS
  <2>2. (n + 1) - Most \in 1 .. n /\ n - Slack \in 1 .. n
        /\ (n + 1) - Most <= n - Slack
    BY <1>1, <1>2, <2>1
  <2>3. q[(n + 1) - Most] <= q[n - Slack]
    BY <2>2 DEF WindowsFit, Ordered
  <2>4. q[n - Slack] + Window <= t
    BY <1>2, <1>3, <2>2 DEF Past
  <2> QED
    BY <1>1, <2>2, <2>3, <2>4
<1>5. Ordered(more, t) /\ Bounded(more)
  BY <1>4, BoundOutlasts DEF WindowsFit
<1>6. Past(more, n, t)
  <2>1. n > Slack => n - Slack \in 1 .. n
    BY <1>1, <1>2
  <2> QED
    BY <1>1, <1>3, <2>1 DEF Past
<1>7. ASSUME NEW other \in rows PROVE other.blocked <= t + Window
  <2>1. PICK row \in rows : IsLatest(row, q, rows)
    BY <1>7 DEF WindowsFit
  <2>2. row.start + Window <= t /\ row.start \in Times /\ row.blocked \in Nat /\ other.blocked \in Nat
    BY <1>7 DEF Limit
  <2>3. CASE other = row
    <3>1. row.count \in 1 .. MaxAttempts /\ row.count <= n
          /\ row.blocked = IF row.count = MaxAttempts THEN q[n] + Window ELSE 0
      BY <2>1 DEF IsLatest
    <3>2. n \in 1 .. n
      BY <1>1, <3>1
    <3>3. q[n] <= t /\ q[n] \in Times
      BY <1>1, <3>2 DEF WindowsFit, Ordered
    <3> QED
      BY <2>3, <3>1, <3>3
  <2>4. CASE other # row
    BY <1>7, <2>1, <2>2, <2>4 DEF IsLatest
  <2> QED
    BY <2>3, <2>4
<1>8. IsLatest(new, more, rows \cup {new})
  <2>1. Len(more) - new.count = n /\ new.count \in 1 .. MaxAttempts /\ new.count <= Len(more)
        /\ new.count # MaxAttempts
    BY <1>1
  <2>2. more[Len(more) - new.count + 1] = new.start
    BY <1>1
  <2> QED
    BY <1>6, <1>7, <2>1, <2>2 DEF IsLatest
<1> QED
  BY <1>5, <1>8 DEF WindowsFit

\* The places of the attempts of a window, of the last Slack before it, and of the one that the
\* next attempt is related to by the bound.
LEMMA PlacesOfWindow ==
    ASSUME NEW n \in Nat, NEW count \in Nat \ {0}, count <= n, NEW p, p = n - count,
           NEW slack \in Nat, NEW max \in Nat
    PROVE  /\ p \in Nat /\ p + 1 \in 1 .. n /\ n \in 1 .. n /\ p + 1 <= n
           /\ (n + 1) - (count + 1) = p
           /\ p > slack => p - slack \in 1 .. n
           /\ count < max /\ n + 1 > max + slack =>
                  /\ p > slack /\ (n + 1) - (max + slack) <= p - slack
                  /\ (n + 1) - (max + slack) \in 1 .. n
  OBVIOUS

\* An attempt is counted in the latest window while it goes on and is not blocked: there is
\* room in it, and the last that it lets through blocks it.
LEMMA WindowCounts ==
    ASSUME NEW q \in Seq(Times), NEW rows \in SUBSET Limit, NEW t \in Times,
           WindowsFit(q, rows, t), NEW row \in rows, IsLatest(row, q, rows),
           t < row.start + Window, row.blocked <= t,
           NEW new, new.start = row.start, new.count = row.count + 1,
           NEW blocked \in {0, row.blocked},
           new.blocked = IF row.count + 1 >= MaxAttempts THEN t + Window ELSE blocked
    PROVE  WindowsFit(Append(q, t), (rows \ {row}) \cup {new}, t)
<1> PICK n, more : n = Len(q) /\ more = Append(q, t)
  OBVIOUS
<1>1. /\ n \in Nat /\ Len(more) = n + 1 /\ more[n + 1] = t
      /\ \A i \in 1 .. n : more[i] = q[i] /\ q[i] \in Times
  BY AttemptMore
<1>2. /\ Slack \in Nat /\ Slack < MaxAttempts
      /\ Most \in Nat /\ Most = MaxAttempts + Slack
  BY SlackFits
<1> PICK count, p : count = row.count /\ p = n - count
  OBVIOUS
<1>3. /\ count \in 1 .. MaxAttempts /\ count <= n
      /\ q[p + 1] = row.start /\ Past(q, p, row.start)
      /\ row.blocked = IF count = MaxAttempts THEN q[n] + Window ELSE 0
  <2>1. /\ row.count \in 1 .. MaxAttempts /\ row.count <= Len(q)
        /\ q[(Len(q) - row.count) + 1] = row.start
        /\ Past(q, Len(q) - row.count, row.start)
        /\ row.blocked = IF row.count = MaxAttempts THEN q[Len(q)] + Window ELSE 0
    BY DEF IsLatest
  <2>2. n = Len(q) /\ count = row.count /\ p = Len(q) - row.count
    OBVIOUS
  <2> QED
    BY <2>1, <2>2
<1>4. count \in 1 .. MaxAttempts /\ count <= n
  BY <1>3, Zenon
<1>5. count \in Nat \ {0} /\ MaxAttempts \in Nat
  BY <1>4, SMT
<1>6. /\ p \in Nat /\ p + 1 \in 1 .. n /\ n \in 1 .. n /\ p + 1 <= n
      /\ (n + 1) - (count + 1) = p
      /\ p > Slack => p - Slack \in 1 .. n
      /\ count < MaxAttempts /\ n + 1 > MaxAttempts + Slack =>
             /\ p > Slack /\ (n + 1) - (MaxAttempts + Slack) <= p - Slack
             /\ (n + 1) - (MaxAttempts + Slack) \in 1 .. n
  <2>1. n \in Nat /\ count <= n /\ p = n - count /\ Slack \in Nat
    BY <1>1, <1>2, <1>3
  <2> QED
    BY ONLY <1>5, <2>1, PlacesOfWindow
<1>7. \A i, j \in 1 .. n : i <= j => q[i] <= q[j] /\ q[j] <= t
  BY DEF WindowsFit, Ordered
<1>8. /\ p + 1 \in 1 .. n /\ n \in 1 .. n
      /\ row.start \in Times /\ row.start <= q[n] /\ row.start <= t
  <2>1. q[p + 1] \in Times /\ q[p + 1] <= q[n] /\ q[p + 1] <= t
    BY <1>1, <1>7, <1>6
  <2> QED
    BY <1>3, <1>6, <2>1, Zenon
<1>9. count < MaxAttempts /\ row.blocked = 0
  <2>1. CASE count = MaxAttempts
    <3>1. q[n] + Window <= t /\ q[n] \in Times
      BY <1>1, <1>3, <1>6, <2>1
    <3>2. row.start + Window <= t
      BY <1>8, <3>1, EndsBefore
    <3> QED
      BY <1>8, <3>2
  <2>2. count < MaxAttempts
    BY ONLY <1>4, <1>5, <2>1
  <2> QED
    BY <1>3, <2>1, <2>2, Zenon
<1>10. n + 1 > Most => q[(n + 1) - Most] + Window <= t
  <2>1. SUFFICES ASSUME n + 1 > Most
                 PROVE  q[(n + 1) - Most] + Window <= t
    OBVIOUS
  <2>2. /\ p > Slack /\ (n + 1) - Most <= p - Slack
        /\ (n + 1) - Most \in 1 .. n /\ p - Slack \in 1 .. n
    BY <1>2, <1>9, <1>6, <2>1, Zenon
  <2>3. q[(n + 1) - Most] <= q[p - Slack]
    BY <1>7, <2>2
  <2>4. q[p - Slack] + Window <= row.start
    BY <1>3, <2>2 DEF Past
  <2>5. q[(n + 1) - Most] \in Times /\ q[p - Slack] \in Times
    BY <1>1, <2>2
  <2> QED
    BY <1>8, <2>3, <2>4, <2>5, EndsBefore
<1>11. Ordered(more, t) /\ Bounded(more)
  BY <1>10, BoundOutlasts DEF WindowsFit
<1>12. Past(more, p, row.start)
  <2>1. p > Slack => p - Slack \in 1 .. n
    BY <1>6
  <2> QED
    BY <1>1, <1>3, <2>1 DEF Past
<1>13. IsLatest(new, more, (rows \ {row}) \cup {new})
  <2>1. /\ new.count = count + 1 /\ new.count \in 1 .. MaxAttempts /\ new.count <= Len(more)
        /\ Len(more) - new.count = p
    <3>1. new.count = count + 1 /\ Len(more) = n + 1
      BY <1>1
    <3>2. count + 1 \in 1 .. MaxAttempts /\ count + 1 <= n + 1
      <4>1. n \in Nat /\ count <= n /\ count < MaxAttempts
        BY <1>1, <1>4, <1>9
      <4> QED
        BY ONLY <1>5, <4>1
    <3> QED
      BY <1>6, <3>1, <3>2, Zenon
  <2>2. more[(Len(more) - new.count) + 1] = new.start
    BY <1>1, <1>3, <1>8, <2>1
  <2>3. new.blocked = IF new.count = MaxAttempts THEN more[Len(more)] + Window ELSE 0
    BY <1>1, <1>9, <2>1
  <2>4. \A other \in ((rows \ {row}) \cup {new}) \ {new} :
            other.start + Window <= new.start /\ other.blocked <= new.start + Window
    BY DEF IsLatest
  <2> QED
    BY <1>12, <2>1, <2>2, <2>3, <2>4 DEF IsLatest
<1> QED
  BY <1>11, <1>13 DEF WindowsFit

\* The row that the code selects is the latest.
LEMMA LatestIsSelected ==
    ASSUME AccountInv, NEW kind \in Attempts, WindowsFit(tries[kind], LimitsOf(kind), now),
           NEW row \in LatestOf(kind)
    PROVE  row \in LimitsOf(kind) /\ IsLatest(row, tries[kind], LimitsOf(kind))
<1>1. row \in LimitsOf(kind) /\ \A other \in LimitsOf(kind) : row.start >= other.start
  BY DEF LatestOf
<1>2. PICK latest \in LimitsOf(kind) : IsLatest(latest, tries[kind], LimitsOf(kind))
  BY <1>1 DEF WindowsFit
<1>3. row.start \in Nat /\ latest.start \in Nat
  BY <1>1, <1>2 DEF AccountInv, LimitTypes, LimitsOf, Limit
<1>4. row # latest => row.start + Window <= latest.start
  BY <1>1, <1>2 DEF IsLatest
<1> QED
  BY <1>1, <1>2, <1>3, <1>4

\* Where the latest row that is selected has ended, all have.
LEMMA AllHaveEnded ==
    ASSUME AccountInv, NEW kind \in Attempts, WindowsFit(tries[kind], LimitsOf(kind), now),
           \A row \in LatestOf(kind) : row.start + Window <= now
    PROVE  /\ \A row \in LimitsOf(kind) : row.start + Window <= now
           /\ \A row \in LimitsOf(kind) :
                  IsLatest(row, tries[kind], LimitsOf(kind)) => row \in LatestOf(kind)
<1>1. \A row \in LimitsOf(kind) : row.start \in Nat
  BY DEF AccountInv, LimitTypes, LimitsOf, Limit
<1>2. \A latest \in LimitsOf(kind) : IsLatest(latest, tries[kind], LimitsOf(kind)) =>
         /\ \A other \in LimitsOf(kind) : other = latest \/ other.start + Window <= latest.start
         /\ latest \in LatestOf(kind)
  <2>1. SUFFICES ASSUME NEW latest \in LimitsOf(kind), IsLatest(latest, tries[kind], LimitsOf(kind))
                 PROVE  /\ \A other \in LimitsOf(kind) :
                               other = latest \/ other.start + Window <= latest.start
                        /\ latest \in LatestOf(kind)
    OBVIOUS
  <2>2. \A other \in LimitsOf(kind) : other = latest \/ other.start + Window <= latest.start
    BY <2>1 DEF IsLatest
  <2> QED
    BY <1>1, <2>1, <2>2 DEF LatestOf
<1>3. now \in Nat
  BY DEF AccountInv, AccountTypes
<1>4. ASSUME NEW row \in LimitsOf(kind) PROVE row.start + Window <= now
  <2>1. PICK latest \in LimitsOf(kind) : IsLatest(latest, tries[kind], LimitsOf(kind))
    BY <1>4 DEF WindowsFit
  <2>2. latest.start + Window <= now
    BY <1>2, <2>1
  <2> QED
    BY <1>1, <1>2, <1>3, <1>4, <2>1, <2>2
<1> QED
  BY <1>2, <1>4

\* The windows of a kind fit, of whatever values they then are.
LEMMA FitAfterStep ==
    ASSUME UNCHANGED store,
           \A kind \in Attempts : \E q, rows, t :
               /\ q = tries'[kind] /\ rows = LimitsOf(kind)' /\ t = now'
               /\ WindowsFit(q, rows, t)
    PROVE  AttemptsInv'
<1>1. ASSUME NEW q, NEW rows, NEW t, WindowsFit(q, rows, t)
      PROVE  WindowsFit(q, rows, t)'
  <2>1. Slack' = Slack /\ Most' = Most
    BY DEF Slack, Most
  <2>2. \A n : Past(q, n, t)' = Past(q, n, t)
    BY <2>1 DEF Past
  <2>3. \A n, row : Past(q, n, row.start)' = Past(q, n, row.start)
    BY <2>1 DEF Past
  <2>4. \A row : IsLatest(row, q, rows)' = IsLatest(row, q, rows)
    BY <2>3 DEF IsLatest
  <2>5. Bounded(q)' = Bounded(q) /\ Ordered(q, t)' = Ordered(q, t)
    BY <2>1 DEF Bounded, Ordered
  <2> QED
    BY <1>1, <2>2, <2>4, <2>5 DEF WindowsFit
<1>2. ASSUME NEW kind \in Attempts
      PROVE  WindowsFit(tries[kind], LimitsOf(kind), now)'
  <2>1. PICK q, rows, t :
             /\ q = tries'[kind] /\ rows = LimitsOf(kind)' /\ t = now'
             /\ WindowsFit(q, rows, t)
    BY <1>2
  <2>2. WindowsFit(q, rows, t)'
    BY <1>1, <2>1
  <2> QED
    BY <2>1, <2>2
<1> QED
  BY <1>2 DEF AttemptsInv

LEMMA FitAsBefore ==
    ASSUME AttemptsInv, UNCHANGED <<store, limitVars, now>>
    PROVE  AttemptsInv'
<1>1. ASSUME NEW kind \in Attempts
      PROVE  /\ tries'[kind] = tries[kind] /\ LimitsOf(kind)' = LimitsOf(kind)
             /\ WindowsFit(tries[kind], LimitsOf(kind), now)
  BY <1>1 DEF limitVars, LimitsOf, AttemptsInv
<1>2. now' = now
  OBVIOUS
<1> QED
  BY <1>1, <1>2, FitAfterStep

\* Attempts of other kinds have windows of their own.
LEMMA OneKindLetThrough ==
    ASSUME AccountInv, AttemptsInv, UNCHANGED <<store, now>>, NEW f \in Fibers, NEW kind \in Attempts,
           NEW row, row.kind = kind, NEW old \in SUBSET LimitsOf(kind), LetThrough(f, row, old),
           WindowsFit(Append(tries[kind], now), (LimitsOf(kind) \ old) \cup {row}, now)
    PROVE  AttemptsInv'
<1>1. LimitsOf(kind)' = (LimitsOf(kind) \ old) \cup {row}
  BY DEF LetThrough, LimitsOf
<1>2. tries' = [tries EXCEPT ![kind] = Append(tries[kind], now)]
  BY DEF LetThrough
<1>3. tries'[kind] = Append(tries[kind], now)
  BY <1>2 DEF AccountInv, LimitTypes
<1>4. ASSUME NEW other \in Attempts, other # kind
      PROVE  WindowsFit(tries'[other], LimitsOf(other)', now)
  <2>1. LimitsOf(other)' = LimitsOf(other)
    BY <1>4 DEF LetThrough, LimitsOf
  <2>2. tries'[other] = tries[other]
    BY <1>2, <1>4 DEF AccountInv, LimitTypes
  <2>3. WindowsFit(tries[other], LimitsOf(other), now)
    BY <1>4 DEF AttemptsInv
  <2> QED
    BY <2>1, <2>2, <2>3
<1>5. now' = now
  OBVIOUS
<1>6. WindowsFit(tries'[kind], LimitsOf(kind)', now)
  BY <1>1, <1>3
<1>7. \A other \in Attempts : WindowsFit(tries'[other], LimitsOf(other)', now)
  BY <1>4, <1>6
<1> QED
  BY <1>5, <1>7, FitAfterStep

\* An attempt is let through by one of three steps.
LEMMA AttemptsFit ==
    ASSUME AccountInv, AttemptsInv, UNCHANGED <<deployment, accountVars, now>>,
           NEW f \in Fibers, fiber[f].kind \in Attempts,
           \/ SqliteConsumeAuthAttempt(f) \/ D1OpenWindow(f) \/ D1CountAttempt(f)
    PROVE  AttemptsInv'
<1> PICK kind \in Attempts : kind = fiber[f].kind
  OBVIOUS
<1> PICK q \in Seq(Times), rows \in SUBSET Limit, t \in Times :
        q = tries[kind] /\ rows = LimitsOf(kind) /\ t = now
  BY DEF AccountInv, AccountTypes, LimitTypes, LimitsOf
<1>1. WindowsFit(q, rows, t)
  BY DEF AttemptsInv
<1>2. \A row \in rows : row.kind = kind /\ row.start \in Times /\ row.count \in Nat /\ row.blocked \in Nat
  BY DEF LimitsOf, Limit
<1>3. ASSUME UNCHANGED limitVars
      PROVE  AttemptsInv'
  BY <1>3, FitAsBefore DEF deployment
<1>4. ASSUME LetThrough(f, NewLimit(kind), {}),
             \A row \in LatestOf(kind) : row.start + Window <= t,
             store = "sqlite" => \A row \in LatestOf(kind) : row.blocked <= t
      PROVE  AttemptsInv'
  <2> PICK new : new = NewLimit(kind)
    OBVIOUS
  <2>1. new.kind = kind /\ new.start = t /\ new.count = 1 /\ new.blocked = 0
    BY DEF NewLimit
  <2>2. /\ \A row \in rows : row.start + Window <= t
        /\ \A row \in rows : IsLatest(row, q, rows) => row \in LatestOf(kind)
    BY <1>1, <1>4, AllHaveEnded
  <2>3. store = "sqlite" => \A row \in rows : IsLatest(row, q, rows) => row.blocked <= t
    BY <1>4, <2>2
  <2>4. WindowsFit(Append(q, t), rows \cup {new}, t)
    BY <1>1, <2>1, <2>2, <2>3, WindowOpens
  <2>5. (rows \ {}) \cup {new} = rows \cup {new}
    OBVIOUS
  <2>6. /\ {} \in SUBSET LimitsOf(kind) /\ LetThrough(f, new, {}) /\ UNCHANGED <<store, now>>
        /\ WindowsFit(Append(tries[kind], now), (LimitsOf(kind) \ {}) \cup {new}, now)
    BY <1>4, <2>4, <2>5 DEF deployment
  <2> QED
    BY <2>1, <2>6, OneKindLetThrough
<1>5. ASSUME NEW row \in LatestOf(kind), NEW blocked \in {0, row.blocked},
             t < row.start + Window, row.blocked <= t,
             LetThrough(f, Counted(row, blocked), {row})
      PROVE  AttemptsInv'
  <2>1. row \in rows /\ IsLatest(row, q, rows)
    BY <1>1, <1>5, LatestIsSelected
  <2> PICK new : new = Counted(row, blocked)
    OBVIOUS
  <2>2. row \in Limit
    BY <2>1
  <2>3. /\ new.kind = kind /\ new.start = row.start /\ new.count = row.count + 1
        /\ new.blocked = IF row.count + 1 >= MaxAttempts THEN t + Window ELSE blocked
    BY <1>2, <2>1, <2>2 DEF Counted, Limit
  <2>4. WindowsFit(Append(q, t), (rows \ {row}) \cup {new}, t)
    BY <1>1, <1>5, <2>1, <2>3, WindowCounts
  <2> QED
    BY <1>5, <2>1, <2>3, <2>4, OneKindLetThrough DEF deployment
<1>6. CASE SqliteConsumeAuthAttempt(f)
  <2>1. CASE UNCHANGED limitVars
    BY <1>3, <2>1
  <2>2. ASSUME NEW row \in LatestOf(kind), now - row.start < Window, row.blocked <= now,
               LetThrough(f, Counted(row, 0), {row})
        PROVE  AttemptsInv'
    <3>1. row.start \in Times
      BY <1>2, <2>2 DEF LatestOf
    <3> QED
      BY <1>5, <2>2, <3>1
  <2>3. ASSUME \A row \in LatestOf(kind) : ~(now - row.start < Window) /\ row.blocked <= now,
               LetThrough(f, NewLimit(kind), {})
        PROVE  AttemptsInv'
    <3>1. \A row \in LatestOf(kind) : row.start \in Times
      BY <1>2 DEF LatestOf
    <3> QED
      BY <1>4, <2>3, <3>1
  <2> QED
    BY <1>6, <2>1, <2>2, <2>3 DEF SqliteConsumeAuthAttempt
<1>7. CASE D1OpenWindow(f)
  <2>1. CASE UNCHANGED limitVars
    BY <1>3, <2>1
  <2>2. ASSUME \A row \in rows : ~(row.start > now - Window), store = "d1",
               LetThrough(f, NewLimit(kind), {})
        PROVE  AttemptsInv'
    <3>1. \A row \in LatestOf(kind) : row.start + Window <= t
      BY <1>2, <2>2 DEF LatestOf
    <3> QED
      BY <1>4, <2>2, <3>1
  <2> QED
    BY <1>7, <2>1, <2>2 DEF D1OpenWindow
<1>8. CASE D1CountAttempt(f)
  <2>1. CASE UNCHANGED limitVars
    BY <1>3, <2>1
  <2>2. ASSUME NEW row \in LatestOf(kind), row.start > now - Window, row.blocked <= now,
               LetThrough(f, Counted(row, row.blocked), {row})
        PROVE  AttemptsInv'
    <3>1. row.start \in Times
      BY <1>2, <2>2 DEF LatestOf
    <3>2. t < row.start + Window
      BY <2>2, <3>1
    <3> QED
      BY <1>5, <2>2, <3>2
  <2> QED
    BY <1>8, <2>1, <2>2 DEF D1CountAttempt
<1> QED
  BY <1>6, <1>7, <1>8

\* A row expires when its window has ended and it does not block.
LEMMA LatestHasEnded ==
    ASSUME NEW q \in Seq(Times), NEW rows \in SUBSET Limit, NEW t \in Times,
           WindowsFit(q, rows, t), t = now, NEW row \in rows, IsLatest(row, q, rows), Expired(row)
    PROVE  row.start + Window <= t /\ row.blocked <= t
<1> PICK n : n = Len(q)
  OBVIOUS
<1>1. n \in Nat /\ \A i \in 1 .. n : q[i] \in Times
  BY AttemptMore
<1>2. row.start \in Times /\ row.blocked \in Nat /\ row.count \in Nat
  BY DEF Limit
<1>3. CASE row.blocked # 0
  <2> PICK count \in Nat : count = row.count
    BY <1>2
  <2> PICK p : p = n - count
    OBVIOUS
  <2>1. /\ count >= 1 /\ count <= n /\ q[p + 1] = row.start
        /\ row.blocked = q[n] + Window
    BY <1>3 DEF IsLatest
  <2>2. p + 1 \in 1 .. n /\ n \in 1 .. n /\ p + 1 <= n
    <3>1. n \in Nat /\ count \in Nat /\ count >= 1 /\ count <= n /\ p = n - count
      BY <1>1, <2>1
    <3> QED
      BY ONLY <3>1
  <2>3. q[p + 1] <= q[n]
    BY <2>2 DEF WindowsFit, Ordered
  <2>4. row.blocked <= t
    BY <1>3 DEF Expired
  <2>5. q[p + 1] \in Times /\ q[n] \in Times
    BY <1>1, <2>2
  <2>6. q[p + 1] + Window <= t
    BY <2>1, <2>3, <2>4, <2>5, EndsBefore
  <2> QED
    BY <2>1, <2>4, <2>6
<1>4. CASE row.blocked = 0
  BY <1>2, <1>4 DEF Expired
<1> QED
  BY <1>3, <1>4

\* Maintenance takes a row of the latest window only when all of its kind have ended, and nothing
\* that is late.
LEMMA WindowsExpire ==
    ASSUME NEW q \in Seq(Times), NEW rows \in SUBSET Limit, NEW t \in Times,
           WindowsFit(q, rows, t), t = now
    PROVE  WindowsFit(q, {row \in rows : ~Expired(row)}, t)
<1> DEFINE left == {row \in rows : ~Expired(row)}
<1>1. CASE rows = {} /\ Past(q, Len(q), t)
  <2>1. left = {}
    BY <1>1
  <2> QED
    BY <1>1, <2>1 DEF WindowsFit
<1>2. ASSUME NEW row \in rows, IsLatest(row, q, rows)
      PROVE  WindowsFit(q, left, t)
  <2>1. CASE ~Expired(row)
    <3>1. row \in left /\ left \subseteq rows
      BY <1>2, <2>1
    <3>2. IsLatest(row, q, left)
      BY <1>2, <3>1 DEF IsLatest
    <3> QED
      BY <3>1, <3>2 DEF WindowsFit
  <2>2. CASE Expired(row)
    <3>1. /\ row.start \in Times /\ row.blocked \in Nat
          /\ \A other \in rows : other.start \in Times /\ other.blocked \in Nat
      BY <1>2 DEF Limit
    <3>2. row.start + Window <= t /\ row.blocked <= t
      BY <1>2, <2>2, LatestHasEnded
    <3>3. \A other \in rows \ {row} : Expired(other)
      <4>1. \A other \in rows \ {row} :
               other.start + Window <= row.start /\ other.blocked <= row.start + Window
        BY <1>2 DEF IsLatest
      <4> QED
        BY <3>1, <3>2, <4>1 DEF Expired
    <3>4. left = {}
      BY <2>2, <3>3
    <3>5. Past(q, Len(q), t)
      BY <1>2, <3>2, AllArePast
    <3> QED
      BY <3>4, <3>5 DEF WindowsFit
  <2> QED
    BY <2>1, <2>2
<1> QED
  BY <1>1, <1>2 DEF WindowsFit

LEMMA WindowsAge ==
    ASSUME NEW q \in Seq(Times), NEW rows, NEW t \in Times, WindowsFit(q, rows, t)
    PROVE  WindowsFit(q, rows, t + 1)
<1> PICK n : n = Len(q)
  OBVIOUS
<1>1. n \in Nat /\ \A i \in 1 .. n : q[i] \in Times
  BY AttemptMore
<1>2. Ordered(q, t + 1)
  BY <1>1 DEF WindowsFit, Ordered
<1>3. Past(q, n, t) => Past(q, n, t + 1)
  <2>1. n > Slack => n - Slack \in 1 .. n
    BY <1>1, SlackFits
  <2> QED
    BY <1>1, <2>1 DEF Past
<1> QED
  BY <1>2, <1>3 DEF WindowsFit

LEMMA NoWindows ==
    ASSUME NEW t
    PROVE  WindowsFit(NoTries, {}, t)
<1>1. Len(NoTries) = 0
  BY DEF NoTries
<1>2. Past(NoTries, Len(NoTries), t)
  BY <1>1, SlackFits DEF Past
<1>3. \A i : i \notin 1 .. Len(NoTries) /\ i \notin 1 .. Len(NoTries) - Most
  BY <1>1, SlackFits
<1> QED
  BY <1>2, <1>3 DEF WindowsFit, Ordered, Bounded

LEMMA OthersLeaveAttempts ==
    ASSUME NEW f \in Fibers, Handle(f),
           ~SqliteConsumeAuthAttempt(f), ~D1OpenWindow(f), ~D1CountAttempt(f), ~ClearAuthAttempts(f)
    PROVE  UNCHANGED <<store, limitVars, now>>
<1>1. CASE BeginAttempt(f) \/ BeginSession(f) \/ BeginLogout(f) \/ BeginChangePassword(f)
  BY <1>1 DEF BeginAttempt, BeginSession, BeginLogout, BeginChangePassword, deployment
<1>2. CASE \/ SqliteClaimUser(f) \/ D1ClaimUser(f) \/ VerifyCredentials(f)
           \/ AnswerInvalidCredentials(f) \/ VerifyCurrentPassword(f)
  BY <1>2 DEF SqliteClaimUser, D1ClaimUser, VerifyCredentials, AnswerInvalidCredentials,
              VerifyCurrentPassword, deployment
<1>3. CASE \/ SqliteIssueDashboardSession(f) \/ D1IssueDashboardSession(f)
           \/ SqliteIssueEmbyToken(f) \/ D1IssueEmbyToken(f)
  BY <1>3 DEF SqliteIssueDashboardSession, D1IssueDashboardSession, SqliteIssueEmbyToken,
              D1IssueEmbyToken, GrantSession, GrantEmbyToken, deployment
<1>4. CASE \/ SqliteLookupDashboardSession(f) \/ D1LookupDashboardSession(f)
           \/ D1RefreshDashboardSession(f) \/ DeleteDashboardSession(f)
  BY <1>4 DEF SqliteLookupDashboardSession, D1LookupDashboardSession, D1RefreshDashboardSession,
              DeleteDashboardSession, deployment
<1>5. CASE SqliteRevokeAuthentication(f) \/ D1RevokeAuthentication(f)
  BY <1>5 DEF SqliteRevokeAuthentication, D1RevokeAuthentication, deployment
<1> QED
  BY <1>1, <1>2, <1>3, <1>4, <1>5 DEF Handle

LEMMA AttemptsStayCounted ==
    ASSUME AccountInv, AttemptsInv, [ConnectionsNext]_allVars
    PROVE  AttemptsInv'
<1>1. \A kind \in Attempts :
         /\ tries[kind] \in Seq(Times) /\ LimitsOf(kind) \in SUBSET Limit /\ now \in Times
         /\ WindowsFit(tries[kind], LimitsOf(kind), now)
  BY DEF AccountInv, AccountTypes, LimitTypes, LimitsOf, AttemptsInv
<1>2. CASE RunMaintenance
  <2>1. UNCHANGED <<store, now>>
    BY <1>2 DEF RunMaintenance, deployment
  <2>2. ASSUME NEW kind \in Attempts
        PROVE  \E q, rows, t : /\ q = tries'[kind] /\ rows = LimitsOf(kind)' /\ t = now'
                               /\ WindowsFit(q, rows, t)
    <3>1. LimitsOf(kind)' = {row \in LimitsOf(kind) : ~Expired(row)} /\ tries'[kind] = tries[kind]
      BY <1>2 DEF RunMaintenance, LimitsOf
    <3>2. WindowsFit(tries[kind], {row \in LimitsOf(kind) : ~Expired(row)}, now)
      BY <1>1, <2>2, WindowsExpire
    <3> QED
      BY <2>1, <3>1, <3>2
  <2> QED
    BY <2>1, <2>2, FitAfterStep
<1>3. CASE Tick
  <2>1. UNCHANGED store /\ now' = now + 1
    BY <1>3 DEF Tick, deployment
  <2>2. ASSUME NEW kind \in Attempts
        PROVE  \E q, rows, t : /\ q = tries'[kind] /\ rows = LimitsOf(kind)' /\ t = now'
                               /\ WindowsFit(q, rows, t)
    <3>1. LimitsOf(kind)' = LimitsOf(kind) /\ tries'[kind] = tries[kind]
      BY <1>3 DEF Tick, LimitsOf, limitVars
    <3>2. WindowsFit(tries[kind], LimitsOf(kind), now + 1)
      BY <1>1, <2>2, WindowsAge
    <3> QED
      BY <2>1, <3>1, <3>2
  <2> QED
    BY <2>1, <2>2, FitAfterStep
<1>4. ASSUME NEW f \in Fibers, ClearAuthAttempts(f)
      PROVE  AttemptsInv'
  <2>1. UNCHANGED <<store, now>> /\ fiber[f].kind \in Attempts
    BY <1>4 DEF ClearAuthAttempts, deployment, AccountInv, FibersFit, FiberFits, Is
  <2>2. ASSUME NEW kind \in Attempts
        PROVE  \E q, rows, t : /\ q = tries'[kind] /\ rows = LimitsOf(kind)' /\ t = now'
                               /\ WindowsFit(q, rows, t)
    <3>1. CASE kind = fiber[f].kind
      <4>1. LimitsOf(kind)' = {} /\ tries'[kind] = NoTries
        BY <1>4, <2>2, <3>1 DEF ClearAuthAttempts, LimitsOf, AccountInv, LimitTypes
      <4> QED
        BY <4>1, NoWindows
    <3>2. CASE kind # fiber[f].kind
      <4>1. LimitsOf(kind)' = LimitsOf(kind) /\ tries'[kind] = tries[kind]
        BY <1>4, <2>2, <3>2 DEF ClearAuthAttempts, LimitsOf, AccountInv, LimitTypes
      <4> QED
        BY <1>1, <2>1, <2>2, <4>1
    <3> QED
      BY <3>1, <3>2
  <2> QED
    BY <2>1, <2>2, FitAfterStep
<1>5. ASSUME NEW f \in Fibers,
             SqliteConsumeAuthAttempt(f) \/ D1OpenWindow(f) \/ D1CountAttempt(f)
      PROVE  AttemptsInv'
  <2>1. UNCHANGED <<deployment, accountVars, now>> /\ fiber[f].kind \in Attempts
    BY <1>5 DEF SqliteConsumeAuthAttempt, D1OpenWindow, D1CountAttempt, AccountInv, FibersFit,
                FiberFits, Is
  <2> QED
    BY <1>5, <2>1, AttemptsFit
<1>6. ASSUME NEW f \in Fibers, Console(f)
      PROVE  UNCHANGED <<store, limitVars, now>>
  BY <1>6 DEF Console, VerifyConnection, ReadOwner, GrantToken, LinkConnectionDevice, BeginConsole,
              CountConnections, InsertConnection, FindConnection, MarkRevoked, TakeTokens, DropToken,
              DropLinks, ReplacePassword, BeginUnlink, Unlink, EraseToken, Stay, deployment
<1>7. CASE UNCHANGED allVars
  BY <1>7, FitAsBefore DEF allVars, vars, limitVars
<1>8. ASSUME NEW f \in Fibers, Handle(f)
      PROVE  AttemptsInv'
  BY <1>4, <1>5, <1>8, OthersLeaveAttempts, FitAsBefore
<1> QED
  BY <1>2, <1>3, <1>6, <1>7, <1>8, FitAsBefore DEF ConnectionsNext, AccountsStep, Next

\* Unless a success clears them, no window of time lets more attempts through than the end of
\* one counted window and the whole next one hold, one more on D1, however requests, maintenance
\* and time interleave (consumeAuthAttempt and the pruning of its rows).
THEOREM AttemptsAreLimited == ConnectionsSpec => []AttemptsAreBounded
<1>1. ConnectionsInit => AttemptsInv
  <2>1. SUFFICES ASSUME ConnectionsInit PROVE AttemptsInv
    OBVIOUS
  <2>2. \A kind \in Attempts : tries[kind] = NoTries /\ LimitsOf(kind) = {}
    BY <2>1 DEF ConnectionsInit, Init, LimitsOf
  <2> QED
    BY <2>2, NoWindows DEF AttemptsInv
<1>2. AttemptsInv => AttemptsAreBounded
  <2>1. Most = 2 * MaxAttempts - (IF store = "sqlite" THEN 2 ELSE 1)
    BY DEF Most, Slack
  <2> QED
    BY <2>1 DEF AttemptsInv, WindowsFit, Bounded, AttemptsAreBounded
<1>3. AccountInv /\ AttemptsInv /\ [ConnectionsNext]_allVars => AttemptsInv'
  BY AttemptsStayCounted
<1> QED
  BY <1>1, <1>2, <1>3, AccountsStay, PTL DEF ConnectionsSpec
=============================================================================
