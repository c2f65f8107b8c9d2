------------------------------- MODULE MCDuties -------------------------------
(***************************************************************************)
(* The administration beside a third duty, the delivery of user states     *)
(* while servers are edited and libraries change their bindings. The       *)
(* outbox shares no state with the other two; its upstream servers have a  *)
(* table of their own here. The fibers of a duty are the runs of an        *)
(* outbox, and what distinguishes two passwords distinguishes two states.  *)
(***************************************************************************)
EXTENDS MCAdministration

CONSTANTS Items, Upstreams, Canonicals, ServerOf, NoRun, NoPayload,
          MaxRevision, MaxUpstreamGeneration,
          CanStop, CanUnbind, EqualRevisionMerge,
          i1, s1, c1

OneServer == [i \in Items |-> s1]

VARIABLES userState, item, upstream, outbox, phase, delivery, remote, late

Deliveries == INSTANCE Outbox WITH
    Servers <- Upstreams, server <- upstream, MaxGeneration <- MaxUpstreamGeneration,
    Runs <- Fibers, Payloads <- Passwords

outboxVars == <<userState, item, upstream, outbox, phase, delivery, remote, late>>

dutyVars == <<administrationVars, outboxVars>>

-----------------------------------------------------------------------------

\* The administration begins as it does alone; while the outbox is delivered it
\* stands as in one of its initial states without requests.
Alone ==
    /\ ConnectionsInit /\ ConfigurationInit
    /\ store = "sqlite" /\ traffic = {"create", "remove"}
    /\ user = NoUser /\ connections = {}
    /\ platform = "d1" /\ workload = {"create", "remove", "test"}
    /\ serves = [url \in Urls |-> Anonymous] /\ \A s \in Servers : server[s] = NoServer

DutiesInit ==
    /\ Deliveries!Init
    /\ \/ AdministrationInit
       \/ duty = "outbox" /\ Alone

\* Bound: an item is unbound only before the edit of its upstream, which finds it bound.
EditedWhileBound ==
    \A i \in Items : upstream'[ServerOf[i]].generation = 1 \/ item'[i].bound

Delivering ==
    /\ Deliveries!Next /\ EditedWhileBound
    /\ UNCHANGED <<allVars, configurationVars>>

DutiesNext ==
    \/ AdministrationNext /\ UNCHANGED outboxVars
    \/ duty = "outbox" /\ Delivering /\ UNCHANGED duty

DutiesSpec == DutiesInit /\ [][DutiesNext]_dutyVars

-----------------------------------------------------------------------------
(* Properties                                                              *)

\* What every row of the outbox is, whatever rewrites it: of its type, on the
\* latest state while eligible, and untouched while a fiber holds its lease
\* (syncOutboxTargets, runMaintenanceBatch, claimOutboxTargets).
RowsAreSound == Deliveries!RowsAreSound

\* However often targets are cancelled and enqueued again around a delivery,
\* the row that settles once every older fiber has finished its bookkeeping is
\* right about the upstream and about the writes under way (markOutboxUncertain).
CancelledDeliveriesSettle == Deliveries!CancelledDeliveriesSettle
=============================================================================
