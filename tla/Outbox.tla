------------------------------- MODULE Outbox -------------------------------
(***************************************************************************)
(* The user-state outbox: desired states written by the local user, one    *)
(* outbox row per eligible source item, overlapping maintenance runs that  *)
(* claim rows with a lease and deliver them, and upstream servers that may *)
(* apply a write long after its sender stopped waiting.                    *)
(*                                                                         *)
(* Clock values are reduced to what the code compares them for: a lease is *)
(* live or expired, a row is due or not.                                   *)
(***************************************************************************)
EXTENDS Naturals

CONSTANTS
    Items,              \* source items, which are the outbox targets
    Servers,            \* upstream servers
    Canonicals,         \* canonical items, which carry the user state
    Payloads,           \* desired states a row can hold
    Runs,               \* maintenance executions that may overlap
    NoRun,              \* lease_owner IS NULL
    NoPayload,          \* nothing desired, or nothing applied upstream
    ServerOf,           \* the server an item comes from
    MaxRevision,        \* bound on user_state.revision
    MaxGeneration,      \* bound on upstream_servers.generation
    CanStop,            \* TRUE when a run may die between two of its steps
    CanUnbind,          \* TRUE when library bindings change
    EqualRevisionMerge  \* TRUE when canonicals whose states have one revision
                        \* and different payloads may be merged

ASSUME NoRunAssumption == NoRun \notin Runs
ASSUME NoPayloadAssumption == NoPayload \notin Payloads
ASSUME ServerOfAssumption == ServerOf \in [Items -> Servers]
ASSUME BoundAssumption == MaxRevision \in Nat /\ MaxGeneration \in Nat \ {0}
ASSUME SwitchAssumption ==
    /\ CanStop \in BOOLEAN
    /\ CanUnbind \in BOOLEAN
    /\ EqualRevisionMerge \in BOOLEAN

VARIABLES
    userState,  \* canonical -> desired state and its revision (0: no record)
    item,       \* item -> source_items row and its library binding
    server,     \* server -> generation, status, whether a user id is known
    outbox,     \* item -> state_outbox row
    phase,      \* run -> "idle", or "swept" between batch and claim
    delivery,   \* run -> item -> the deliverClaimed fiber of that claim
    remote,     \* item -> the user data the upstream holds
    late        \* writes nobody waits for that may still reach the upstream

vars == <<userState, item, server, outbox, phase, delivery, remote, late>>

-----------------------------------------------------------------------------
(* Types                                                                   *)

Payload == Payloads \cup {NoPayload}
State == [revision: Nat, payload: Payload]
SourceItem == [canonical: Canonicals, generation: Nat, bound: BOOLEAN]
Server == [generation: Nat, status: {"enabled", "disabled", "deleted"},
           user: BOOLEAN]

\* permanent: permanent_failure_code is set; due: next_attempt_at_ms has
\* passed; expired: lease_expires_at_ms has passed.
Row == [status: {"absent", "eligible", "cancelled"},
        canonical: Canonicals,
        generation: Nat,
        desired: Nat,
        delivered: Nat,
        payload: Payload,
        due: BOOLEAN,
        owner: Runs \cup {NoRun},
        expired: BOOLEAN,
        dispatched: BOOLEAN,
        uncertain: BOOLEAN,
        permanent: BOOLEAN]

\* What a fiber waits for, in the order deliverClaimed goes through it.
FiberState == {"none", "claimed", "dispatched", "sent", "applied", "succeeded",
               "ownerLost", "ambiguous", "recording", "transient", "permanent"}

Fiber == [at: FiberState, desired: Nat, generation: Nat, payload: Payload]

Write == [item: Items, payload: Payload]

TypeOK ==
    /\ userState \in [Canonicals -> State]
    /\ item \in [Items -> SourceItem]
    /\ server \in [Servers -> Server]
    /\ outbox \in [Items -> Row]
    /\ phase \in [Runs -> {"idle", "swept"}]
    /\ delivery \in [Runs -> [Items -> Fiber]]
    /\ remote \in [Items -> Payload]
    /\ late \subseteq Write

-----------------------------------------------------------------------------
(* Rows                                                                    *)

AbsentRow(c) ==
    [status |-> "absent", canonical |-> c, generation |-> 0, desired |-> 0,
     delivered |-> 0, payload |-> NoPayload, due |-> FALSE, owner |-> NoRun,
     expired |-> FALSE, dispatched |-> FALSE, uncertain |-> FALSE,
     permanent |-> FALSE]

NoFiber == [at |-> "none", desired |-> 0, generation |-> 0,
            payload |-> NoPayload]

\* The item can receive deliveries: it was observed at the server's current
\* generation, the server is enabled and the library binding is enabled.
EligibleTarget(items, i) ==
    /\ items[i].generation = server[ServerOf[i]].generation
    /\ server[ServerOf[i]].status = "enabled"
    /\ items[i].bound

\* Mutant: a superseded attempt that was dispatched leaves no uncertainty.
UpsertForgetsDispatch(row, c, generation, state) ==
    IF row.status = "absent"
    THEN [AbsentRow(c) EXCEPT
            !.status = "eligible", !.generation = generation,
            !.desired = state.revision, !.payload = state.payload, !.due = TRUE]
    ELSE [row EXCEPT
            !.status = "eligible", !.canonical = c, !.generation = generation,
            !.desired = state.revision, !.payload = state.payload,
            !.due = TRUE, !.owner = NoRun, !.expired = FALSE,
            !.dispatched = FALSE, !.permanent = FALSE]

\* INSERT ... ON CONFLICT(target_id) DO UPDATE of one row.
UpsertOutboxTarget(row, c, generation, state) ==
    LET changed == \/ row.desired # state.revision
                   \/ row.canonical # c
                   \/ row.generation # generation
                   \/ row.payload # state.payload
        inserted == [AbsentRow(c) EXCEPT
                        !.status = "eligible", !.generation = generation,
                        !.desired = state.revision, !.payload = state.payload,
                        !.due = TRUE]
        superseded == [row EXCEPT
                        !.status = "eligible", !.canonical = c,
                        !.generation = generation,
                        !.desired = state.revision, !.payload = state.payload,
                        !.due = TRUE, !.owner = NoRun, !.expired = FALSE,
                        !.dispatched = FALSE, !.permanent = FALSE,
                        !.uncertain = \/ row.uncertain
                                      \/ row.dispatched /\ row.owner # NoRun]
    IN CASE row.status = "absent" -> inserted
         [] row.status # "absent" /\ changed -> superseded
         [] OTHER -> [row EXCEPT !.status = "eligible",
                                 !.due = row.due \/ row.status = "cancelled"]

\* A row whose target is no longer eligible keeps dispatched_at_ms.
Cancel(row) ==
    [row EXCEPT !.status = "cancelled", !.owner = NoRun, !.expired = FALSE]

\* Mutant: rows that lost their target are left as they are.
SyncWithoutCancel(rows, items, c, state) ==
    [i \in Items |->
        IF items[i].canonical = c /\ EligibleTarget(items, i)
        THEN UpsertOutboxTarget(rows[i], c, items[i].generation, state)
        ELSE rows[i]]

\* syncOutboxTargets: cancel the canonical's rows that lost their target,
\* then upsert a row for every eligible target of the canonical.
SyncOutboxTargets(rows, items, c, state) ==
    [i \in Items |->
        LET target == items[i].canonical = c /\ EligibleTarget(items, i)
            kept == IF rows[i].status = "eligible" /\ rows[i].canonical = c
                       /\ ~target
                    THEN Cancel(rows[i]) ELSE rows[i]
        IN IF target
           THEN UpsertOutboxTarget(kept, c, items[i].generation, state)
           ELSE kept]

\* syncExistingState: nothing is enqueued for a canonical without a state.
SyncExistingState(rows, items, c, state) ==
    IF state.revision = 0 THEN rows
    ELSE SyncOutboxTargets(rows, items, c, state)

\* A lease past its expiry is taken back; a dispatched attempt leaves the
\* row uncertain.
ReleaseExpired(rows) ==
    [i \in Items |->
        IF rows[i].owner # NoRun /\ rows[i].expired
        THEN [rows[i] EXCEPT
                !.uncertain = rows[i].uncertain \/ rows[i].dispatched,
                !.due = TRUE, !.owner = NoRun, !.expired = FALSE,
                !.dispatched = FALSE]
        ELSE rows[i]]

-----------------------------------------------------------------------------
(* Local writes and identity                                               *)

Init ==
    /\ userState = [c \in Canonicals |->
                      [revision |-> 0, payload |-> NoPayload]]
    /\ \E canonical \in [Items -> Canonicals] :
         /\ item = [i \in Items |-> [canonical |-> canonical[i],
                                     generation |-> 0, bound |-> TRUE]]
         /\ outbox = [i \in Items |-> AbsentRow(canonical[i])]
    /\ server = [s \in Servers |->
                   [generation |-> 1, status |-> "enabled", user |-> FALSE]]
    /\ phase = [r \in Runs |-> "idle"]
    /\ delivery = [r \in Runs |-> [i \in Items |-> NoFiber]]
    /\ remote = [i \in Items |-> NoPayload]
    /\ late = {}

\* persistUserState: one transaction increments the revision, stores the
\* desired state and synchronises the outbox rows.
WriteUserState(c, p) ==
    LET state == [revision |-> userState[c].revision + 1, payload |-> p]
    IN /\ \E i \in Items : item[i].canonical = c /\ item[i].generation > 0
       /\ userState[c].revision < MaxRevision
       /\ userState' = [userState EXCEPT ![c] = state]
       /\ outbox' = SyncOutboxTargets(outbox, item, c, state)
       /\ UNCHANGED <<item, server, phase, delivery, remote, late>>

\* resolveIdentity of an item that stays with its canonical: the server fence
\* admits only results of the current generation.
ResolveIdentity(i) ==
    LET c == item[i].canonical
        items == [item EXCEPT ![i].generation = server[ServerOf[i]].generation]
    IN /\ server[ServerOf[i]].status # "deleted"
       /\ item' = items
       /\ outbox' = SyncExistingState(outbox, items, c, userState[c])
       /\ UNCHANGED <<userState, server, phase, delivery, remote, late>>

\* The state that survives a merge: highest revision, then latest written;
\* without a clock either of two states of one revision may be the later one.
Survivors(c, d) ==
    {s \in {userState[c], userState[d]} :
        /\ s.revision >= userState[c].revision
        /\ s.revision >= userState[d].revision}

\* Two states of one revision, unless the instance is about them, are one.
MayJoin(c, d) ==
    ~EqualRevisionMerge =>
        \/ userState[c] = userState[d]
        \/ userState[c].revision # userState[d].revision

\* Every row of the retired canonical moves to the survivor.
MoveRows(survivor, retired) ==
    [j \in Items |-> IF outbox[j].canonical = retired
                     THEN [outbox[j] EXCEPT !.canonical = survivor]
                     ELSE outbox[j]]

\* resolveIdentity of an item whose claims join its canonical with another:
\* the rows move first, so the upsert that follows sees no change of canonical.
MergeCanonicals(i, survivor, retired) ==
    LET moved == [j \in Items |->
                    IF item[j].canonical = retired
                    THEN [item[j] EXCEPT !.canonical = survivor] ELSE item[j]]
        items == [moved EXCEPT ![i].generation = server[ServerOf[i]].generation]
    IN /\ server[ServerOf[i]].status # "deleted"
       /\ survivor # retired
       /\ item[i].canonical \in {survivor, retired}
       /\ \A c \in {survivor, retired} :
            \E j \in Items : item[j].canonical = c /\ item[j].generation > 0
       /\ MayJoin(survivor, retired)
       /\ item' = items
       /\ \E state \in Survivors(survivor, retired) :
            /\ userState' = [userState EXCEPT
                               ![survivor] = state,
                               ![retired] = [revision |-> 0,
                                             payload |-> NoPayload]]
            /\ outbox' = SyncExistingState(MoveRows(survivor, retired), items,
                                           survivor, state)
       /\ UNCHANGED <<server, phase, delivery, remote, late>>

-----------------------------------------------------------------------------
(* Configuration                                                           *)

\* An edit that changes authentication, user agent or the enabled flag starts
\* a new generation and forgets the upstream user id.
UpdateServer(s, status) ==
    /\ server[s].status # "deleted"
    /\ server[s].generation < MaxGeneration
    /\ server' = [server EXCEPT
                    ![s] = [generation |-> server[s].generation + 1,
                            status |-> status, user |-> FALSE]]
    /\ UNCHANGED <<userState, item, outbox, phase, delivery, remote, late>>

DeleteServer(s) == UpdateServer(s, "deleted")

\* A successful authentication stores the upstream user id at the generation
\* it was requested for.
AuthenticateServer(s) ==
    /\ server[s].status # "deleted"
    /\ ~server[s].user
    /\ server' = [server EXCEPT ![s].user = TRUE]
    /\ UNCHANGED <<userState, item, outbox, phase, delivery, remote, late>>

\* A library edit adds or removes the item's last enabled binding; the outbox
\* is not touched until maintenance or the next write of the canonical.
RebindLibrary(i) ==
    /\ CanUnbind
    /\ item' = [item EXCEPT ![i].bound = ~item[i].bound]
    /\ UNCHANGED <<userState, server, outbox, phase, delivery, remote, late>>

-----------------------------------------------------------------------------
(* Maintenance: batch, claim, deliver                                      *)

Active(r) == \E i \in Items : delivery[r][i].at # "none"

CancelIneligible(rows) ==
    [i \in Items |->
        IF /\ rows[i].status = "eligible"
           /\ ~( /\ item[i].canonical = rows[i].canonical
                 /\ EligibleTarget(item, i))
        THEN Cancel(rows[i]) ELSE rows[i]]

\* Eligible targets whose row is absent, cancelled or behind the state.
CreateMissing(rows) ==
    [i \in Items |->
        LET c == item[i].canonical
        IN IF /\ userState[c].revision > 0
              /\ EligibleTarget(item, i)
              /\ \/ rows[i].status # "eligible"
                 \/ rows[i].desired # userState[c].revision
           THEN UpsertOutboxTarget(rows[i], c, item[i].generation, userState[c])
           ELSE rows[i]]

\* runMaintenanceBatch, the first transaction of a run.
RunMaintenanceBatch(r) ==
    /\ phase[r] = "idle"
    /\ ~Active(r)
    /\ outbox' = CreateMissing(CancelIneligible(ReleaseExpired(outbox)))
    /\ phase' = [phase EXCEPT ![r] = "swept"]
    /\ UNCHANGED <<userState, item, server, delivery, remote, late>>

\* Mutant: a delivered row is never looked at again.
ClaimableUndelivered(rows, i) ==
    /\ rows[i].status = "eligible"
    /\ ~rows[i].permanent
    /\ rows[i].due
    /\ rows[i].owner = NoRun
    /\ rows[i].delivered < rows[i].desired
    /\ item[i].canonical = rows[i].canonical
    /\ EligibleTarget(item, i)
    /\ server[ServerOf[i]].user

Claimable(rows, i) ==
    /\ rows[i].status = "eligible"
    /\ ~rows[i].permanent
    /\ rows[i].due
    /\ rows[i].owner = NoRun
    /\ rows[i].delivered < rows[i].desired \/ rows[i].uncertain
    /\ item[i].canonical = rows[i].canonical
    /\ EligibleTarget(item, i)
    /\ server[ServerOf[i]].user

\* claimOutboxTargets, one transaction: take back expired leases, then lease
\* every claimable row to this run and hand each to a fiber. An earlier
\* dispatch mark is cleared.
ClaimOutboxTargets(r) ==
    LET rows == ReleaseExpired(outbox)
    IN /\ phase[r] = "swept"
       /\ phase' = [phase EXCEPT ![r] = "idle"]
       /\ outbox' = [i \in Items |->
                       IF Claimable(rows, i)
                       THEN [rows[i] EXCEPT !.owner = r, !.expired = FALSE,
                                            !.dispatched = FALSE]
                       ELSE rows[i]]
       /\ delivery' = [delivery EXCEPT
                         ![r] = [i \in Items |->
                           IF Claimable(rows, i)
                           THEN [at |-> "claimed",
                                 desired |-> rows[i].desired,
                                 generation |-> rows[i].generation,
                                 payload |-> rows[i].payload]
                           ELSE delivery[r][i]]]
       /\ UNCHANGED <<userState, item, server, remote, late>>

Goto(r, i, at) == delivery' = [delivery EXCEPT ![r][i].at = at]

EndFiber(r, i) == delivery' = [delivery EXCEPT ![r][i] = NoFiber]

\* Mutant: any attempt of the row's generation owns its lease.
OwnsTarget(r, i) == outbox[i].generation = delivery[r][i].generation

\* The WHERE clause shared by markOutboxDispatched, acknowledgeOutboxTarget
\* and recordOutboxFailure.
OwnsLease(r, i) ==
    /\ outbox[i].desired = delivery[r][i].desired
    /\ outbox[i].generation = delivery[r][i].generation
    /\ outbox[i].owner = r
    /\ ~outbox[i].expired

\* What the first two ask for in addition.
MayTouchServer(r, i) ==
    /\ OwnsLease(r, i)
    /\ outbox[i].status = "eligible"
    /\ server[ServerOf[i]].generation = delivery[r][i].generation
    /\ server[ServerOf[i]].status = "enabled"

MarkOutboxDispatched(r, i) ==
    /\ delivery[r][i].at = "claimed"
    /\ \/ /\ MayTouchServer(r, i)
          /\ outbox' = [outbox EXCEPT ![i].dispatched = TRUE]
          /\ Goto(r, i, "dispatched")
       \/ /\ ~MayTouchServer(r, i)
          /\ EndFiber(r, i)
          /\ UNCHANGED outbox
    /\ UNCHANGED <<userState, item, server, phase, remote, late>>

\* The upstream client reads the server again before it sends the POST.
SendRequest(r, i) ==
    /\ delivery[r][i].at = "dispatched"
    /\ server[ServerOf[i]].generation = delivery[r][i].generation
    /\ server[ServerOf[i]].status # "deleted"
    /\ Goto(r, i, "sent")
    /\ UNCHANGED <<userState, item, server, outbox, phase, remote, late>>

\* No request is made: the generation is obsolete or no endpoint is healthy
\* (uncertain), or the server is gone (permanent).
FailBeforeSend(r, i) ==
    /\ delivery[r][i].at = "dispatched"
    /\ \/ /\ server[ServerOf[i]].status # "deleted"
          /\ Goto(r, i, "ambiguous")
       \/ /\ server[ServerOf[i]].status = "deleted"
          /\ Goto(r, i, "permanent")
    /\ UNCHANGED <<userState, item, server, outbox, phase, remote, late>>

\* The upstream applies the write of a fiber that still waits for it.
ApplyRequest(r, i) ==
    /\ delivery[r][i].at = "sent"
    /\ remote' = [remote EXCEPT ![i] = delivery[r][i].payload]
    /\ Goto(r, i, "applied")
    /\ UNCHANGED <<userState, item, server, outbox, phase, late>>

\* The success response is accepted only at the generation it was sent for.
AnswerSuccess(r, i) ==
    /\ delivery[r][i].at = "applied"
    /\ LET s == server[ServerOf[i]]
       IN Goto(r, i, CASE s.status = "deleted" -> "permanent"
                       [] s.status # "deleted"
                          /\ s.generation # delivery[r][i].generation
                            -> "ambiguous"
                       [] OTHER -> "succeeded")
    /\ UNCHANGED <<userState, item, server, outbox, phase, remote, late>>

\* A status that refuses the write: 408, 429 and 5xx are retried, the others
\* are kept as permanent failures.
AnswerRejected(r, i) ==
    /\ delivery[r][i].at = "sent"
    /\ \E at \in {"transient", "permanent"} : Goto(r, i, at)
    /\ UNCHANGED <<userState, item, server, outbox, phase, remote, late>>

\* Timeout or connection failure: the fiber stops waiting; a write that was
\* not applied yet may still be.
AnswerLost(r, i) ==
    /\ delivery[r][i].at \in {"sent", "applied"}
    /\ late' = IF delivery[r][i].at = "sent"
               THEN late \cup {[item |-> i, payload |-> delivery[r][i].payload]}
               ELSE late
    /\ Goto(r, i, "ambiguous")
    /\ UNCHANGED <<userState, item, server, outbox, phase, remote>>

\* Mutant: the acknowledgement also clears the uncertainty.
AcknowledgeCertain(r, i) ==
    /\ delivery[r][i].at = "succeeded"
    /\ MayTouchServer(r, i)
    /\ outbox' = [outbox EXCEPT
                    ![i].delivered = delivery[r][i].desired,
                    ![i].owner = NoRun, ![i].expired = FALSE,
                    ![i].dispatched = FALSE, ![i].permanent = FALSE,
                    ![i].uncertain = FALSE]
    /\ EndFiber(r, i)
    /\ UNCHANGED <<userState, item, server, phase, remote, late>>

AcknowledgeOutboxTarget(r, i) ==
    /\ delivery[r][i].at = "succeeded"
    /\ \/ /\ MayTouchServer(r, i)
          /\ outbox' = [outbox EXCEPT
                          ![i].delivered = delivery[r][i].desired,
                          ![i].owner = NoRun, ![i].expired = FALSE,
                          ![i].dispatched = FALSE, ![i].permanent = FALSE,
                          ![i].due = outbox[i].due /\ ~outbox[i].uncertain]
          /\ EndFiber(r, i)
       \/ /\ ~MayTouchServer(r, i)
          /\ Goto(r, i, "ownerLost")
          /\ UNCHANGED outbox
    /\ UNCHANGED <<userState, item, server, phase, remote, late>>

\* Mutant: only the holder of the lease may raise the doubt.
DoubtByOwner(r, i) ==
    /\ delivery[r][i].at \in {"ownerLost", "ambiguous"}
    /\ outbox' = IF OwnsLease(r, i)
                 THEN [outbox EXCEPT ![i].uncertain = TRUE, ![i].due = TRUE]
                 ELSE outbox
    /\ IF delivery[r][i].at = "ownerLost" THEN EndFiber(r, i)
       ELSE Goto(r, i, "recording")
    /\ UNCHANGED <<userState, item, server, phase, remote, late>>

\* markOutboxUncertain is not fenced by the lease: it reaches the row whoever
\* owns it, and makes it due when an undelivered revision waits.
MarkOutboxUncertain(r, i) ==
    /\ delivery[r][i].at \in {"ownerLost", "ambiguous"}
    /\ outbox' = IF outbox[i].desired >= delivery[r][i].desired
                 THEN [outbox EXCEPT
                         ![i].uncertain = TRUE,
                         ![i].due = outbox[i].delivered < outbox[i].desired]
                 ELSE outbox
    /\ IF delivery[r][i].at = "ownerLost" THEN EndFiber(r, i)
       ELSE Goto(r, i, "recording")
    /\ UNCHANGED <<userState, item, server, phase, remote, late>>

RecordOutboxFailure(r, i) ==
    /\ delivery[r][i].at \in {"recording", "transient", "permanent"}
    /\ outbox' = IF OwnsLease(r, i)
                 THEN [outbox EXCEPT
                         ![i].permanent = (delivery[r][i].at = "permanent"),
                         ![i].due = FALSE,
                         ![i].owner = NoRun, ![i].expired = FALSE,
                         ![i].dispatched = FALSE]
                 ELSE outbox
    /\ EndFiber(r, i)
    /\ UNCHANGED <<userState, item, server, phase, remote, late>>

\* The process dies, or a repository error in one fiber interrupts the whole
\* run: every fiber is gone and what it sent may still arrive.
StopRun(r) ==
    /\ CanStop
    /\ phase[r] # "idle" \/ Active(r)
    /\ late' = late \cup
                {[item |-> i, payload |-> delivery[r][i].payload] :
                    i \in {j \in Items : delivery[r][j].at = "sent"}}
    /\ delivery' = [delivery EXCEPT ![r] = [i \in Items |-> NoFiber]]
    /\ phase' = [phase EXCEPT ![r] = "idle"]
    /\ UNCHANGED <<userState, item, server, outbox, remote>>

-----------------------------------------------------------------------------
(* Time and the network                                                    *)

LeaseExpires(i) ==
    /\ outbox[i].owner # NoRun
    /\ ~outbox[i].expired
    /\ outbox' = [outbox EXCEPT ![i].expired = TRUE]
    /\ UNCHANGED <<userState, item, server, phase, delivery, remote, late>>

BecomesDue(i) ==
    /\ outbox[i].status # "absent"
    /\ ~outbox[i].due
    /\ outbox' = [outbox EXCEPT ![i].due = TRUE]
    /\ UNCHANGED <<userState, item, server, phase, delivery, remote, late>>

\* A late write may be one of several equal ones, so it stays until dropped.
ApplyLate(w) ==
    /\ w \in late
    /\ remote' = [remote EXCEPT ![w.item] = w.payload]
    /\ UNCHANGED <<userState, item, server, outbox, phase, delivery, late>>

DropLate(w) ==
    /\ w \in late
    /\ late' = late \ {w}
    /\ UNCHANGED <<userState, item, server, outbox, phase, delivery, remote>>

-----------------------------------------------------------------------------

FiberStep(r, i) ==
    \/ MarkOutboxDispatched(r, i)
    \/ SendRequest(r, i)
    \/ FailBeforeSend(r, i)
    \/ ApplyRequest(r, i)
    \/ AnswerSuccess(r, i)
    \/ AnswerRejected(r, i)
    \/ AnswerLost(r, i)
    \/ AcknowledgeOutboxTarget(r, i)
    \/ MarkOutboxUncertain(r, i)
    \/ RecordOutboxFailure(r, i)

RunStep(r) ==
    \/ RunMaintenanceBatch(r)
    \/ ClaimOutboxTargets(r)
    \/ StopRun(r)
    \/ \E i \in Items : FiberStep(r, i)

LocalStep ==
    \/ \E c \in Canonicals, p \in Payloads : WriteUserState(c, p)
    \/ \E i \in Items : ResolveIdentity(i)
    \/ \E i \in Items, survivor, retired \in Canonicals :
         MergeCanonicals(i, survivor, retired)

ConfigurationStep ==
    \/ \E s \in Servers : \/ UpdateServer(s, "enabled")
                          \/ UpdateServer(s, "disabled")
                          \/ DeleteServer(s)
                          \/ AuthenticateServer(s)
    \/ \E i \in Items : RebindLibrary(i)

EnvironmentStep ==
    \/ \E i \in Items : LeaseExpires(i) \/ BecomesDue(i)
    \/ \E w \in late : ApplyLate(w) \/ DropLate(w)

Next ==
    \/ LocalStep
    \/ ConfigurationStep
    \/ \E r \in Runs : RunStep(r)
    \/ EnvironmentStep

Spec == Init /\ [][Next]_vars

-----------------------------------------------------------------------------
(* Safety                                                                  *)

\* The row claims that the upstream holds the desired state for good.
Settled(i) ==
    /\ outbox[i].status = "eligible"
    /\ outbox[i].delivered = outbox[i].desired
    /\ ~outbox[i].uncertain

\* An eligible row carries the latest state of its item's canonical, although
\* writes, observations, merges, cancellations and maintenance all rewrite
\* rows in transactions of their own (syncOutboxTargets, runMaintenanceBatch).
RowFollowsState ==
    \A i \in Items : outbox[i].status = "eligible" =>
        /\ outbox[i].canonical = item[i].canonical
        /\ outbox[i].desired = userState[item[i].canonical].revision
        /\ outbox[i].payload = userState[item[i].canonical].payload

\* A run that still holds the lease of a row holds the row's own revision,
\* generation and payload: nothing rewrites a row under a live lease.
LeaseHolderIsCurrent ==
    \A r \in Runs, i \in Items :
        outbox[i].owner = r /\ delivery[r][i].at # "none" =>
            /\ delivery[r][i].desired = outbox[i].desired
            /\ delivery[r][i].generation = outbox[i].generation
            /\ delivery[r][i].payload = outbox[i].payload

\* What every row of the outbox is, whatever rewrites it: of its type, on the
\* latest state while eligible, and untouched while a fiber holds its lease.
RowsAreSound == TypeOK /\ RowFollowsState /\ LeaseHolderIsCurrent

\* A settled row tells the truth about the upstream: the state it calls
\* delivered is the state the upstream holds (claimOutboxTargets skips the
\* row for ever, so nothing would repair a difference).
SettledIsApplied ==
    \A i \in Items : Settled(i) => remote[i] = outbox[i].payload

\* A write of an older state that nobody waits for any more, and that may
\* still reach the upstream, is remembered by the row as uncertainty
\* (ReleaseExpired, UpsertOutboxTarget and markOutboxUncertain together).
LateWriteIsRemembered ==
    \A w \in late :
        Settled(w.item) => w.payload = outbox[w.item].payload

\* What a settled row says of the upstream now and of what may still change it.
SettledRowsAreTrue == SettledIsApplied /\ LateWriteIsRemembered

\* Cancelling a target takes the lease from a fiber that goes on delivering,
\* so the two facts above wait until no fiber of an older revision is left.
Unattended(i) ==
    \A r \in Runs :
        delivery[r][i].at # "none" => delivery[r][i].desired = outbox[i].desired

\* However often targets are cancelled and enqueued again around a delivery,
\* the row that settles once every older fiber has finished its bookkeeping
\* is right about the upstream and about the writes still under way. (A server
\* that was deleted keeps its rows but is never delivered to again.)
CancelledDeliveriesSettle ==
    \A i \in Items :
        Settled(i) /\ Unattended(i) /\ server[ServerOf[i]].status # "deleted" =>
        /\ remote[i] = outbox[i].payload
        /\ \A w \in late : w.item = i => w.payload = outbox[i].payload

\* Only the latest canonical state is ever acknowledged, by a fiber that sent
\* that state at the server's current generation.
AcknowledgesLatest ==
    [][\A i \in Items : outbox'[i].delivered # outbox[i].delivered =>
        LET state == userState[item[i].canonical]
        IN /\ outbox'[i].delivered = state.revision
           /\ \E r \in Runs :
                /\ delivery[r][i].at = "succeeded"
                /\ delivery[r][i].payload = state.payload
                /\ delivery[r][i].generation = server[ServerOf[i]].generation
      ]_vars

-----------------------------------------------------------------------------
(* Liveness                                                                *)

\* Maintenance keeps running, time passes, and what a fiber waits for can not
\* fail for ever: an upstream that is asked again and again applies a write,
\* answers in time, and some run completes its bookkeeping inside its lease.
Fairness ==
    /\ \A r \in Runs :
        /\ WF_vars(RunMaintenanceBatch(r))
        /\ SF_vars(ClaimOutboxTargets(r))
        /\ \A i \in Items :
            /\ WF_vars(FiberStep(r, i))
            /\ SF_vars(MayTouchServer(r, i) /\ MarkOutboxDispatched(r, i))
            /\ SF_vars(SendRequest(r, i))
            /\ SF_vars(ApplyRequest(r, i))
            /\ SF_vars(AnswerSuccess(r, i))
            /\ SF_vars(MayTouchServer(r, i) /\ AcknowledgeOutboxTarget(r, i))
    /\ \A i \in Items : WF_vars(LeaseExpires(i)) /\ WF_vars(BecomesDue(i))
    /\ \A i \in Items, p \in Payloads :
        WF_vars(DropLate([item |-> i, payload |-> p]))

\* A target that stays eligible on an authenticated server and was not refused
\* for good ends up holding the latest canonical state, whatever was lost,
\* late or interrupted before.
Deliverable(i) ==
    /\ outbox[i].status = "eligible"
    /\ ~outbox[i].permanent
    /\ EligibleTarget(item, i)
    /\ server[ServerOf[i]].user

Converges ==
    \A i \in Items :
        <>[]Deliverable(i) =>
            <>[](remote[i] = userState[item[i].canonical].payload)

-----------------------------------------------------------------------------
(* Refinement                                                              *)

\* What may still reach the upstream for an item: late writes, and the writes
\* of fibers that passed the dispatch gate and were not answered yet.
UnderWay(i) ==
    {w.payload : w \in {x \in late : x.item = i}} \cup
    {delivery[r][i].payload :
        r \in {q \in Runs : delivery[q][i].at \in {"dispatched", "sent"}}}

\* While no target loses its eligibility, the outbox is a state replication:
\* a settled row is a promise that the upstream holds the wanted state and
\* that no write of another state is still under way.
Replication == INSTANCE StateReplication WITH
    Targets <- Items,
    Values <- Payload,
    target <- [i \in Items |-> [wanted |-> outbox[i].payload,
                               held |-> remote[i],
                               pending |-> UnderWay(i),
                               settled |-> Settled(i)]]

ImplementsReplication == Replication!Spec

=============================================================================
