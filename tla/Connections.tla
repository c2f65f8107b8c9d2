----------------------------- MODULE Connections -----------------------------
(***************************************************************************)
(* Connections: passwords of their own that the owner hands to a device,   *)
(* each with the Emby tokens granted on it.  None of these operations is a *)
(* transaction, on either store: every statement is a step of its own,     *)
(* among the steps of Accounts.                                            *)
(***************************************************************************)
EXTENDS Accounts

CONSTANTS
    MaxConnections,  \* maxConnections
    Created          \* bound on the connections ever created

ASSUME ConnectionsAssumption == MaxConnections \in Nat \ {0} /\ Created \in Nat \ {0}

VARIABLES
    connections,  \* emby_connections
    links,        \* emby_connection_devices
    desk,         \* fiber -> what its console handler holds
    via           \* history: token -> how its connection granted it

consoleVars == <<connections, links, desk, via>>
allVars == <<vars, consoleVars>>

Connection == [id: 1 .. Created, password: Passwords, revoked: BOOLEAN]

Link == [connection: 1 .. Created, token: Ids]

\* rest: the tokens its revocation still has to delete
Desk == [connection: 0 .. Created, token: 0 .. MaxGrants, rest: SUBSET Ids]

\* late: linked while the connection was being revoked, or after
Via == [connection: 0 .. Created, late: BOOLEAN]

ConnectionsTypeOK ==
    /\ TypeOK
    /\ connections \subseteq Connection
    /\ links \subseteq Link
    /\ desk \in [Fibers -> Desk]
    /\ via \in [Ids -> Via]

-----------------------------------------------------------------------------
(* Helpers                                                                 *)

NoDesk == [connection |-> 0, token |-> 0, rest |-> {}]

NoVia == [connection |-> 0, late |-> FALSE]

Active == {row \in connections : ~row.revoked}

TokensOf(id) == {link.token : link \in {l \in links : l.connection = id}}

\* A fiber is changing or removing the connection, past its SELECT of tokens.
Revoking(id) ==
    \E f \in Fibers : desk[f].connection = id /\ fiber[f].pc \in {"drop", "replace"}

At(f, pc) == Is(f, pc) /\ fiber[f].kind \in ConsoleKinds

Leave(f) == Answer(f) /\ desk' = [desk EXCEPT ![f] = NoDesk]

Stay == UNCHANGED <<deployment, user, sessions, granted, limitVars, now>>

-----------------------------------------------------------------------------
(* A device logs in with the password of a connection                      *)

\* verifyConnection, after the owner's password was refused
VerifyConnection(f) ==
    /\ Is(f, "refused") /\ fiber[f].kind = "emby"
    /\ \E row \in Active :
           /\ row.password = fiber[f].given
           /\ desk' = [desk EXCEPT ![f].connection = row.id]
           /\ Goto(f, "owner")
    /\ UNCHANGED <<tokens, connections, links, via>> /\ Stay

\* issueEmbySession reads the user and grants at its generation.
ReadOwner(f) ==
    /\ Is(f, "owner")
    /\ IF user # NoUser
       THEN /\ fiber' = [fiber EXCEPT ![f].pc = "grant", ![f].known = user]
            /\ UNCHANGED desk
       ELSE Leave(f)
    /\ UNCHANGED <<tokens, connections, links, via>> /\ Stay

GrantToken(f) ==
    /\ Is(f, "grant")
    /\ IF ExpectedUser(f)
       THEN /\ granted < MaxGrants
            /\ granted' = granted + 1
            /\ tokens' = tokens \cup {[id |-> granted', proof |-> NoPassword,
                                       generation |-> user.generation]}
            /\ desk' = [desk EXCEPT ![f].token = granted']
            /\ Goto(f, "link")
       ELSE Leave(f) /\ UNCHANGED <<granted, tokens>>
    /\ UNCHANGED <<deployment, user, sessions, limitVars, now, connections, links, via>>

LinkConnectionDevice(f) ==
    LET id    == desk[f].connection
        token == desk[f].token
        gone  == \A row \in Active : row.id # id
    IN
    /\ Is(f, "link")
    /\ links' = {link \in links : link.token # token}
                    \cup {[connection |-> id, token |-> token]}
    /\ via' = [via EXCEPT ![token] = [connection |-> id, late |-> gone \/ Revoking(id)]]
    /\ Leave(f)
    /\ UNCHANGED <<tokens, connections>> /\ Stay

-----------------------------------------------------------------------------
(* The owner manages connections                                           *)

\* Console requests carry a dashboard session.
BeginConsole(f) ==
    /\ Is(f, "idle")
    /\ \E kind \in traffic \cap {"create", "update", "remove"},
          id \in 1 .. granted, password \in Passwords :
           /\ fiber' = [fiber EXCEPT ![f] = [Idle EXCEPT
                  !.pc = "lookup", !.kind = kind, !.id = id, !.given = password]]
           /\ IF kind = "create" THEN UNCHANGED desk
              ELSE \E row \in connections :
                       desk' = [desk EXCEPT ![f].connection = row.id]
    /\ UNCHANGED <<tokens, connections, links, via>> /\ Stay

\* The active connections are counted by one statement, ...
CountConnections(f) ==
    /\ At(f, "create")
    /\ IF Cardinality(Active) >= MaxConnections
       THEN Leave(f)
       ELSE Goto(f, "insert") /\ UNCHANGED desk
    /\ UNCHANGED <<tokens, connections, links, via>> /\ Stay

\* ... and the new one is inserted by another.
InsertConnection(f) ==
    LET id == Cardinality(connections) + 1 IN
    /\ At(f, "insert")
    /\ id <= Created
    /\ connections' = connections \cup
           {[id |-> id, password |-> fiber[f].given, revoked |-> FALSE]}
    /\ Leave(f)
    /\ UNCHANGED <<tokens, links, via>> /\ Stay

\* updateConnection looks for an active connection; deleteConnection marks it.
FindConnection(f) ==
    /\ At(f, "update")
    /\ IF \E row \in Active : row.id = desk[f].connection
       THEN Goto(f, "take") /\ UNCHANGED desk
       ELSE Leave(f)
    /\ UNCHANGED <<tokens, connections, links, via>> /\ Stay

MarkRevoked(f) ==
    /\ At(f, "remove")
    /\ \/ \E row \in Active :
              /\ row.id = desk[f].connection
              /\ connections' = (connections \ {row})
                                    \cup {[row EXCEPT !.revoked = TRUE]}
              /\ Goto(f, "take") /\ UNCHANGED desk
       \/ /\ \A row \in Active : row.id # desk[f].connection
          /\ Leave(f) /\ UNCHANGED connections
    /\ UNCHANGED <<tokens, links, via>> /\ Stay

\* revokeConnectionTokens selects the linked tokens, deletes them one by
\* one, and then every link of the connection.
TakeTokens(f) ==
    /\ At(f, "take")
    /\ desk' = [desk EXCEPT ![f].rest = TokensOf(desk[f].connection)]
    /\ Goto(f, "drop")
    /\ UNCHANGED <<tokens, connections, links, via>> /\ Stay

DropToken(f) ==
    /\ At(f, "drop")
    /\ \E id \in desk[f].rest :
           /\ tokens' = {row \in tokens : row.id # id}
           /\ desk' = [desk EXCEPT ![f].rest = @ \ {id}]
    /\ UNCHANGED <<fiber, connections, links, via>> /\ Stay

\* Mutant: the links go before the tokens they name.
DropLinksFirst(f) ==
    /\ At(f, "drop")
    /\ links' = {link \in links : link.connection # desk[f].connection}
    /\ IF fiber[f].kind = "update"
       THEN Goto(f, "replace") /\ UNCHANGED desk
       ELSE Leave(f)
    /\ UNCHANGED <<tokens, connections, via>> /\ Stay

DropLinks(f) ==
    /\ At(f, "drop") /\ desk[f].rest = {}
    /\ links' = {link \in links : link.connection # desk[f].connection}
    /\ IF fiber[f].kind = "update"
       THEN Goto(f, "replace") /\ UNCHANGED desk
       ELSE Leave(f)
    /\ UNCHANGED <<tokens, connections, via>> /\ Stay

ReplacePassword(f) ==
    /\ At(f, "replace")
    /\ connections' = {IF row.id = desk[f].connection /\ ~row.revoked
                       THEN [row EXCEPT !.password = fiber[f].given]
                       ELSE row : row \in connections}
    /\ Leave(f)
    /\ UNCHANGED <<tokens, links, via>> /\ Stay

-----------------------------------------------------------------------------
(* A device logs out: its link is deleted, then its token                  *)

\* lookupEmbyToken; last_used_at_ms is only shown, and no token expires.
ValidToken(row) == user # NoUser /\ row.generation = user.generation

BeginUnlink(f) ==
    /\ Is(f, "idle") /\ "unlink" \in traffic
    /\ \E row \in tokens :
           /\ ValidToken(row)
           /\ fiber' = [fiber EXCEPT ![f] = [Idle EXCEPT !.pc = "unlink", !.kind = "unlink"]]
           /\ desk' = [desk EXCEPT ![f].token = row.id]
    /\ UNCHANGED <<tokens, connections, links, via>> /\ Stay

Unlink(f) ==
    /\ At(f, "unlink")
    /\ links' = {link \in links : link.token # desk[f].token}
    /\ Goto(f, "erase")
    /\ UNCHANGED <<tokens, connections, desk, via>> /\ Stay

EraseToken(f) ==
    /\ At(f, "erase")
    /\ tokens' = {row \in tokens : row.id # desk[f].token}
    /\ Leave(f)
    /\ UNCHANGED <<connections, links, via>> /\ Stay

-----------------------------------------------------------------------------

\* A deployment may already have a connection.
ConnectionsInit ==
    /\ Init
    /\ connections \in {{}} \cup
           {{[id |-> 1, password |-> password, revoked |-> FALSE]} : password \in Passwords}
    /\ links = {}
    /\ desk = [f \in Fibers |-> NoDesk]
    /\ via = [t \in Ids |-> NoVia]

\* The answer of a console request whose session is refused drops its desk.
AccountsStep ==
    /\ Next
    /\ desk' = [f \in Fibers |-> IF fiber'[f].pc = "idle" THEN NoDesk ELSE desk[f]]
    /\ UNCHANGED <<connections, links, via>>

Console(f) ==
    \/ VerifyConnection(f) \/ ReadOwner(f) \/ GrantToken(f) \/ LinkConnectionDevice(f)
    \/ BeginConsole(f) \/ CountConnections(f) \/ InsertConnection(f)
    \/ FindConnection(f) \/ MarkRevoked(f)
    \/ TakeTokens(f) \/ DropToken(f) \/ DropLinks(f) \/ ReplacePassword(f)
    \/ BeginUnlink(f) \/ Unlink(f) \/ EraseToken(f)

ConnectionsNext == AccountsStep \/ \E f \in Fibers : Console(f)

ConnectionsSpec == ConnectionsInit /\ [][ConnectionsNext]_allVars

-----------------------------------------------------------------------------
(* Properties                                                              *)

\* The limit is checked and the row inserted by two statements: requests at
\* once exceed it, but by no more than the requests that were between the two
\* (createConnection).
ConnectionsAreLimited ==
    Cardinality(Active) + Cardinality({f \in Fibers : At(f, "insert")})
        <= MaxConnections + Cardinality(Fibers) - 1

\* A device is logging out with the token, whose link may be gone already.
LoggingOut(id) == \E f \in Fibers : At(f, "erase") /\ desk[f].token = id

\* When the removal of a connection is over, the only tokens of it that are
\* left are those of logins that were under way during the removal or a
\* change of the connection, and of logouts that have not ended
\* (deleteConnection, revokeConnectionTokens, deleteEmbyToken).
RemovalTakesTokens ==
    \A row \in connections :
        (row.revoked /\ \A f \in Fibers : desk[f].connection # row.id) =>
            \A token \in tokens :
                via[token.id].connection = row.id => via[token.id].late \/ LoggingOut(token.id)
=============================================================================
