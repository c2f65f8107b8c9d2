-------------------------- MODULE MCAdministration --------------------------
(***************************************************************************)
(* Two duties of the server that share neither state nor fibers: it        *)
(* authenticates the owner and the devices, and it administers upstream    *)
(* servers and libraries. One behavior performs one of them; the other     *)
(* stays where it begins.                                                  *)
(***************************************************************************)
EXTENDS Connections, Configuration, TLC

CONSTANTS
    f1, f2,          \* the fibers of every duty
    e1, e2,          \* passwords, and ids of servers
    uA, uB, cA, cB   \* URLs and their catalogs

VARIABLE duty

-----------------------------------------------------------------------------
(* Accounts: attempts and sessions need time to pass, other races do not   *)

MCHorizon ==
    {"login"} :> 2 @@
    {"claim", "session"} :> 3 @@
    {"session", "logout"} :> 3 @@
    {"emby", "change"} :> 0 @@
    {"login", "change"} :> 0 @@
    {"emby", "remove", "unlink"} :> 0 @@
    {"emby", "update", "unlink"} :> 0 @@
    {"create", "remove"} :> 1

MCTraffics == DOMAIN MCHorizon

\* The statements of connections are the same on either store.
OnOneStore == {{"emby", "remove", "unlink"}, {"emby", "update", "unlink"}, {"create", "remove"}}

-----------------------------------------------------------------------------
(* Configuration: as many requests as it takes to verify a server and to   *)
(* race two of them on it                                                  *)

MCStarts ==
    {"test", "edit", "library"} :> 3 @@
    {"edit", "get"} :> 3 @@
    {"remove", "get"} :> 2 @@
    {"test", "get"} :> 3 @@
    {"test", "remove", "post"} :> 3 @@
    {"test", "library", "unlist"} :> 3 @@
    {"create", "remove", "test"} :> 3

MCWorkloads == DOMAIN MCStarts

\* Where edits of a server, and what its URLs serve, are not the question.
InOneWorld == {{"test", "remove", "post"}, {"create", "remove", "test"}}

MCEdits ==
    {[urls |-> <<uA, uB>>, password |-> 1, enabled |-> TRUE],
     [urls |-> <<uA>>, password |-> 1, enabled |-> TRUE],
     [urls |-> <<uA, uB>>, password |-> 2, enabled |-> TRUE],
     [urls |-> <<uA, uB>>, password |-> 1, enabled |-> FALSE]}

MCWorlds ==
    {(uA :> cA @@ uB :> cA), (uA :> cA @@ uB :> cB), (uA :> Anonymous @@ uB :> cA),
     (uA :> Anonymous @@ uB :> Anonymous)}

-----------------------------------------------------------------------------

Authenticating == ConnectionsNext /\ UNCHANGED configurationVars
Administering == ConfigurationNext /\ UNCHANGED allVars

administrationVars == <<duty, allVars, configurationVars>>

\* The server a behavior begins with, unless its edits are the question: enabled, with
\* both URLs and the first password.
AsFirst(row) == UrlsOf(row.endpoints) = <<uA, uB>> /\ row.password = 1 /\ row.enabled

\* What is chosen once for a duty is chosen only where it is performed.
AdministrationInit ==
    /\ duty \in {"accounts", "configuration"}
    /\ ConnectionsInit /\ ConfigurationInit
    /\ traffic \in OnOneStore => store = "sqlite"
    /\ workload = {"test", "library", "unlist"} => platform = "d1"
    /\ workload \in InOneWorld /\ duty = "configuration" => serves = [url \in Urls |-> cA]
    /\ workload # {"edit", "get"} => \A s \in Servers : server[s].endpoints # <<>> => AsFirst(server[s])
    /\ duty # "accounts" =>
         /\ store = "sqlite" /\ traffic = {"create", "remove"}
         /\ user = NoUser /\ connections = {}
    /\ duty # "configuration" =>
         /\ platform = "d1" /\ workload = {"create", "remove", "test"}
         /\ serves = [url \in Urls |-> Anonymous] /\ \A s \in Servers : server[s] = NoServer

AdministrationNext ==
    /\ UNCHANGED duty
    /\ \/ duty = "accounts" /\ Authenticating
       \/ duty = "configuration" /\ Administering

AdministrationSpec == AdministrationInit /\ [][AdministrationNext]_administrationVars

-----------------------------------------------------------------------------
(* Properties                                                              *)

\* The tables of either duty are of their types.
AdministrationTypeOK == ConnectionsTypeOK /\ ConfigurationTypeOK

\* The limits hold for requests that are counted at the same time: of attempts
\* in a window and of connections.
LimitsHold == AttemptsAreBounded /\ ConnectionsAreLimited

AdministrationSymmetry == Permutations({f1, f2}) \cup Permutations({e1, e2})
=============================================================================
