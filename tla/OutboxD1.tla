------------------------------ MODULE OutboxD1 ------------------------------
(***************************************************************************)
(* The outbox on the Workers storage. D1 has no interactive transaction: a *)
(* repository operation reads with statements of their own and then        *)
(* commits one atomic batch, so what it read may be old by then. Rows,     *)
(* fibers and the upstream are those of Outbox; merges of canonicals are   *)
(* left out here.                                                          *)
(***************************************************************************)
EXTENDS Outbox, FiniteSets

CONSTANT MaxWrites  \* bound on the writes under way at once

ASSUME WritesAssumption == MaxWrites \in Nat

VARIABLES
    writes,    \* state writes between their reads and their batch
    seen,      \* run -> what its current operation has read so far
    forgotten  \* history: items whose dispatched delivery lost its lease to an
               \* observation, which left no doubt on the row

d1vars == <<vars, writes, seen, forgotten>>

\* A write has read the state it patches and the generation of each target it
\* will enqueue (0: no target).
PendingWrite == [canonical: Canonicals, state: State, payload: Payloads,
                 targets: [Items -> Nat]]

\* What the batch will enqueue for an item that had no up to date row.
Missing == [item: Items, canonical: Canonicals, generation: Nat, state: State]

Seen == [step: {"nothing", "missing", "released", "candidates"},
         missing: SUBSET Missing, candidates: SUBSET Items]

Nothing == [step |-> "nothing", missing |-> {}, candidates |-> {}]

D1TypeOK ==
    /\ TypeOK
    /\ writes \subseteq PendingWrite
    /\ seen \in [Runs -> Seen]
    /\ forgotten \subseteq Items

D1Init ==
    Init /\ writes = {} /\ seen = [r \in Runs |-> Nothing] /\ forgotten = {}

-----------------------------------------------------------------------------
(* Statements on one row                                                   *)

\* upsertOutboxTarget: a row that asks for something else than before forgets
\* what was going on about it, but not that it may have been dispatched.
UpsertTarget(row, c, generation, state) ==
    LET same == /\ row.desired = state.revision /\ row.payload = state.payload
                /\ row.canonical = c /\ row.generation = generation
        asks(asked) == [asked EXCEPT !.status = "eligible", !.canonical = c,
                                     !.generation = generation,
                                     !.desired = state.revision,
                                     !.payload = state.payload, !.due = TRUE]
    IN CASE row.status = "absent" -> asks(AbsentRow(c))
         [] row.status # "absent" /\ same ->
              [row EXCEPT !.status = "eligible",
                          !.due = row.due \/ row.status = "cancelled"]
         [] OTHER ->
              [asks(row) EXCEPT
                 !.owner = NoRun, !.expired = FALSE, !.dispatched = FALSE,
                 !.permanent = FALSE,
                 !.uncertain = row.uncertain \/ (row.dispatched /\ row.owner # NoRun)]

\* The fiber's lease on its row runs, and the row still asks for what it delivers.
LeaseRuns(r, i) ==
    /\ outbox[i].owner = r /\ ~outbox[i].expired
    /\ outbox[i].desired = delivery[r][i].desired
    /\ outbox[i].generation = delivery[r][i].generation

\* The row is eligible and its server is as it was.
ServerStands(r, i) ==
    /\ outbox[i].status = "eligible"
    /\ server[ServerOf[i]].status = "enabled"
    /\ server[ServerOf[i]].generation = delivery[r][i].generation

\* UPDATE ... RETURNING: the row becomes row where the condition holds, and the
\* fiber learns whether it did.
UpdateRow(i, condition, row) ==
    outbox' = IF condition THEN [outbox EXCEPT ![i] = row] ELSE outbox

D1MarkDispatched(r, i) ==
    LET held == LeaseRuns(r, i) /\ ServerStands(r, i)
    IN /\ delivery[r][i].at = "claimed"
       /\ UpdateRow(i, held, [outbox[i] EXCEPT !.dispatched = TRUE])
       /\ IF held THEN Goto(r, i, "dispatched") ELSE EndFiber(r, i)
       /\ UNCHANGED <<userState, item, server, phase, remote, late>>

D1Acknowledge(r, i) ==
    LET held == LeaseRuns(r, i) /\ ServerStands(r, i)
    IN /\ delivery[r][i].at = "succeeded"
       /\ UpdateRow(i, held, [outbox[i] EXCEPT
             !.delivered = delivery[r][i].desired, !.permanent = FALSE,
             !.owner = NoRun, !.expired = FALSE, !.dispatched = FALSE,
             !.due = outbox[i].due /\ ~outbox[i].uncertain])
       /\ IF held THEN EndFiber(r, i) ELSE Goto(r, i, "ownerLost")
       /\ UNCHANGED <<userState, item, server, phase, remote, late>>

\* Nothing is compared but revisions.
D1MarkUncertain(r, i) ==
    /\ delivery[r][i].at \in {"ownerLost", "ambiguous"}
    /\ UpdateRow(i, outbox[i].desired >= delivery[r][i].desired,
          [outbox[i] EXCEPT !.uncertain = TRUE,
                            !.due = outbox[i].delivered < outbox[i].desired])
    /\ IF delivery[r][i].at = "ambiguous" THEN Goto(r, i, "recording")
       ELSE EndFiber(r, i)
    /\ UNCHANGED <<userState, item, server, phase, remote, late>>

D1RecordFailure(r, i) ==
    /\ delivery[r][i].at \in {"recording", "transient", "permanent"}
    /\ UpdateRow(i, LeaseRuns(r, i),
          [outbox[i] EXCEPT !.permanent = (delivery[r][i].at = "permanent"),
                            !.due = FALSE, !.owner = NoRun, !.expired = FALSE,
                            !.dispatched = FALSE])
    /\ EndFiber(r, i)
    /\ UNCHANGED <<userState, item, server, phase, remote, late>>

D1FiberStep(r, i) ==
    \/ D1MarkDispatched(r, i)
    \/ SendRequest(r, i)
    \/ FailBeforeSend(r, i)
    \/ ApplyRequest(r, i)
    \/ AnswerSuccess(r, i)
    \/ AnswerRejected(r, i)
    \/ AnswerLost(r, i)
    \/ D1Acknowledge(r, i)
    \/ D1MarkUncertain(r, i)
    \/ D1RecordFailure(r, i)

-----------------------------------------------------------------------------
(* User state                                                              *)

\* writeUserStateAndTargets up to its batch: the previous state, then the
\* eligible targets.
ReadState(c, p) ==
    /\ \E i \in Items : item[i].canonical = c /\ item[i].generation > 0
    /\ userState[c].revision < MaxRevision
    /\ Cardinality(writes) < MaxWrites
    /\ writes' = writes \cup
         {[canonical |-> c, state |-> userState[c], payload |-> p,
           targets |-> [i \in Items |->
             IF item[i].canonical = c /\ EligibleTarget(item, i)
             THEN item[i].generation ELSE 0]]}
    /\ UNCHANGED <<vars, seen, forgotten>>

Written(w) == [revision |-> w.state.revision + 1, payload |-> w.payload]

\* The rows the batch of a write leaves: cancellation looks at the targets of
\* now, the upserts at those that were read.
Enqueue(w) ==
    [i \in Items |->
        LET lost == /\ outbox[i].status = "eligible"
                    /\ outbox[i].canonical = w.canonical
                    /\ ~( /\ item[i].canonical = w.canonical
                          /\ EligibleTarget(item, i))
            kept == IF lost THEN Cancel(outbox[i]) ELSE outbox[i]
        IN IF w.targets[i] # 0
           THEN UpsertTarget(kept, w.canonical, w.targets[i], Written(w))
           ELSE kept]

\* Mutant: the state is stored whatever revision it has by now.
CommitBlindly(w) ==
    /\ w \in writes
    /\ writes' = writes \ {w}
    /\ userState' = [userState EXCEPT ![w.canonical] = Written(w)]
    /\ outbox' = Enqueue(w)
    /\ UNCHANGED <<item, server, phase, delivery, remote, late, seen,
                   forgotten>>

\* The batch stores the state over the revision that was read. Its assertion
\* also holds when a twin wrote the very same state in the same millisecond.
CommitWrite(w) ==
    /\ w \in writes
    /\ writes' = writes \ {w}
    /\ \/ /\ \/ userState[w.canonical].revision = w.state.revision
             \/ userState[w.canonical] = Written(w)
          /\ userState' = [userState EXCEPT ![w.canonical] = Written(w)]
          /\ outbox' = Enqueue(w)
       \/ /\ userState[w.canonical].revision # w.state.revision
          /\ UNCHANGED <<userState, outbox>>
    /\ UNCHANGED <<item, server, phase, delivery, remote, late, seen,
                   forgotten>>

-----------------------------------------------------------------------------
(* Observation of an item                                                  *)

\* The upsert inside resolveIdentityD1 compares revisions only, and leaves no
\* uncertainty behind.
UpsertResolved(row, c, generation, state) ==
    LET renewed == row.desired # state.revision
        current == [row EXCEPT !.status = "eligible", !.canonical = c,
                               !.generation = generation,
                               !.desired = state.revision,
                               !.payload = state.payload,
                               !.due = row.due \/ row.status = "cancelled"]
    IN CASE row.status = "absent" ->
                UpsertTarget(row, c, generation, state)
         [] row.status # "absent" /\ renewed ->
                [current EXCEPT !.due = TRUE, !.owner = NoRun,
                                !.expired = FALSE, !.dispatched = FALSE,
                                !.permanent = FALSE]
         [] OTHER -> current

\* The upsert above takes the row from a dispatched delivery of another
\* revision, whose write may still arrive, and sets no uncertain_since_ms.
ForgetsDelivery(row, state) ==
    row.desired # state.revision /\ row.owner # NoRun /\ row.dispatched

\* resolveIdentityD1 of an item that stays with its canonical. The batch reads
\* state and targets itself, and its fence aborts it when the generation moved
\* after the first read: only an observation of the current one commits.
ObserveItem(i) ==
    LET c == item[i].canonical
        items == [item EXCEPT ![i].generation = server[ServerOf[i]].generation]
    IN /\ server[ServerOf[i]].status # "deleted"
       /\ item' = items
       /\ outbox' = [j \in Items |->
            LET target == items[j].canonical = c /\ EligibleTarget(items, j)
                lost == /\ outbox[j].status = "eligible"
                        /\ outbox[j].canonical = c
                        /\ ~target
                kept == IF lost THEN Cancel(outbox[j]) ELSE outbox[j]
            IN IF target /\ userState[c].revision > 0
               THEN UpsertResolved(kept, c, items[j].generation, userState[c])
               ELSE kept]
       /\ forgotten' = forgotten \cup
            {j \in Items : /\ items[j].canonical = c /\ EligibleTarget(items, j)
                           /\ userState[c].revision > 0
                           /\ ForgetsDelivery(outbox[j], userState[c])}
       /\ UNCHANGED <<userState, server, phase, delivery, remote, late,
                      writes, seen>>

-----------------------------------------------------------------------------
(* Maintenance                                                             *)

MissingTargets ==
    {i \in Items :
        LET state == userState[item[i].canonical]
        IN /\ state.revision > 0
           /\ EligibleTarget(item, i)
           /\ outbox[i].status # "eligible" \/ outbox[i].desired # state.revision}

\* runMaintenanceBatch reads the missing targets and their states first.
ReadMissing(r) ==
    /\ phase[r] = "idle"
    /\ ~Active(r)
    /\ seen[r] = Nothing
    /\ seen' = [seen EXCEPT
         ![r].step = "missing",
         ![r].missing =
            {[item |-> i, canonical |-> item[i].canonical,
              generation |-> item[i].generation,
              state |-> userState[item[i].canonical]] : i \in MissingTargets}]
    /\ UNCHANGED <<vars, writes, forgotten>>

\* The batch takes back leases and cancels rows as they are now, then enqueues
\* the missing targets as they were.
SweepBatch(r) ==
    LET swept == CancelIneligible(ReleaseExpired(outbox))
        found(i) == {m \in seen[r].missing : m.item = i}
    IN /\ seen[r].step = "missing"
       /\ outbox' = [i \in Items |->
            IF found(i) = {} THEN swept[i]
            ELSE LET m == CHOOSE m \in found(i) : TRUE
                 IN UpsertTarget(swept[i], m.canonical, m.generation,
                                       m.state)]
       /\ phase' = [phase EXCEPT ![r] = "swept"]
       /\ seen' = [seen EXCEPT ![r] = Nothing]
       /\ UNCHANGED <<userState, item, server, delivery, remote, late, writes,
                      forgotten>>

\* claimOutboxTargets, first statement.
ReleaseLeases(r) ==
    /\ phase[r] = "swept"
    /\ seen[r] = Nothing
    /\ outbox' = ReleaseExpired(outbox)
    /\ seen' = [seen EXCEPT ![r].step = "released"]
    /\ UNCHANGED <<userState, item, server, phase, delivery, remote, late,
                   writes, forgotten>>

\* Second statement; without candidates the claim is over.
ReadCandidates(r) ==
    LET candidates == {i \in Items : Claimable(outbox, i)}
    IN /\ seen[r].step = "released"
       /\ IF candidates = {}
          THEN /\ seen' = [seen EXCEPT ![r] = Nothing]
               /\ phase' = [phase EXCEPT ![r] = "idle"]
          ELSE /\ seen' = [seen EXCEPT ![r].step = "candidates",
                                       ![r].candidates = candidates]
               /\ UNCHANGED phase
       /\ UNCHANGED <<userState, item, server, outbox, delivery, remote, late,
                      writes, forgotten>>

\* Mutant: the batch leases every candidate without looking at it again.
StillCandidate(rows, i) == rows[i].status # "absent"

\* The batch repeats every condition of the second statement.
StillClaimable(rows, i) == Claimable(rows, i)

ClaimCandidates(r) ==
    LET claimed == {i \in seen[r].candidates : StillClaimable(outbox, i)}
    IN /\ seen[r].step = "candidates"
       /\ outbox' = [i \in Items |->
            IF i \in claimed
            THEN [outbox[i] EXCEPT !.owner = r, !.expired = FALSE,
                                   !.dispatched = FALSE]
            ELSE outbox[i]]
       /\ delivery' = [delivery EXCEPT
            ![r] = [i \in Items |->
                IF i \in claimed
                THEN [at |-> "claimed", desired |-> outbox[i].desired,
                      generation |-> outbox[i].generation,
                      payload |-> outbox[i].payload]
                ELSE delivery[r][i]]]
       /\ phase' = [phase EXCEPT ![r] = "idle"]
       /\ seen' = [seen EXCEPT ![r] = Nothing]
       /\ UNCHANGED <<userState, item, server, remote, late, writes, forgotten>>

\* The invocation is gone, with whatever it had read.
StopD1Run(r) ==
    /\ CanStop
    /\ seen' = [seen EXCEPT ![r] = Nothing]
    /\ \/ StopRun(r)
       \/ seen[r] # Nothing /\ phase[r] = "idle" /\ UNCHANGED vars
    /\ UNCHANGED <<writes, forgotten>>

-----------------------------------------------------------------------------

D1RunStep(r) ==
    \/ ReadMissing(r)
    \/ SweepBatch(r)
    \/ ReleaseLeases(r)
    \/ ReadCandidates(r)
    \/ ClaimCandidates(r)
    \/ StopD1Run(r)

D1Next ==
    \/ \E c \in Canonicals, p \in Payloads : ReadState(c, p)
    \/ \E w \in writes : CommitWrite(w)
    \/ \E i \in Items : ObserveItem(i)
    \/ \E r \in Runs : D1RunStep(r)
    \/ /\ \/ ConfigurationStep
          \/ EnvironmentStep
          \/ \E r \in Runs, i \in Items : D1FiberStep(r, i)
       /\ UNCHANGED <<writes, seen, forgotten>>

D1Spec == D1Init /\ [][D1Next]_d1vars

-----------------------------------------------------------------------------
(* Safety                                                                  *)

\* No write is lost: a state is only ever replaced by a write that read
\* exactly that state (stateBatchStatements and its assertion).
WritesAreSerial ==
    [][\A c \in Canonicals : userState'[c] # userState[c] =>
        \E w \in writes : w.canonical = c /\ w.state = userState[c]]_d1vars

\* A maintenance batch may enqueue a state older than the one a concurrent
\* write just enqueued, and a later run repairs that. A row that carries the
\* latest revision carries the latest state.
LatestIsCarried ==
    \A i \in Items :
        LET state == userState[item[i].canonical]
        IN outbox[i].desired = state.revision => outbox[i].payload = state.payload

\* A settled row is true about the upstream now and about the writes that may
\* still reach it, unless an observation took it from a dispatched delivery
\* and left no doubt (resolveIdentityD1 clears lease_owner and
\* dispatched_at_ms alone; that such a row may be false is a finding).
RememberedRowsAreTrue ==
    \A i \in Items \ forgotten : Settled(i) =>
        /\ remote[i] = outbox[i].payload
        /\ \A w \in late : w.item = i => w.payload = outbox[i].payload

\* What the outbox of D1 is while targets stay eligible, whichever reads and
\* batches interleave and however often a stale batch sets a row back: of its
\* types, of one payload for each revision, untouched while a fiber holds its
\* lease, and where it settles with no delivery forgotten true about the
\* upstream and about the writes that may still reach it.
RowsOnD1AreSound ==
    /\ D1TypeOK
    /\ LatestIsCarried
    /\ LeaseHolderIsCurrent
    /\ RememberedRowsAreTrue

-----------------------------------------------------------------------------
(* Liveness                                                                *)

\* Requests finish, and maintenance and upstreams are as fair as in Outbox.
D1Fairness ==
    /\ \A r \in Runs :
        /\ WF_d1vars(ReadMissing(r))
        /\ WF_d1vars(SweepBatch(r))
        /\ WF_d1vars(ReleaseLeases(r))
        /\ WF_d1vars(ReadCandidates(r))
        /\ WF_d1vars(ClaimCandidates(r))
        /\ \A i \in Items :
            /\ WF_d1vars(D1FiberStep(r, i) /\ UNCHANGED <<writes, seen, forgotten>>)
            /\ SF_d1vars(/\ LeaseRuns(r, i) /\ ServerStands(r, i)
                         /\ D1MarkDispatched(r, i)
                         /\ UNCHANGED <<writes, seen, forgotten>>)
            /\ SF_d1vars(SendRequest(r, i) /\ UNCHANGED <<writes, seen, forgotten>>)
            /\ SF_d1vars(ApplyRequest(r, i) /\ UNCHANGED <<writes, seen, forgotten>>)
            /\ SF_d1vars(AnswerSuccess(r, i) /\ UNCHANGED <<writes, seen, forgotten>>)
            /\ SF_d1vars(/\ LeaseRuns(r, i) /\ ServerStands(r, i)
                         /\ D1Acknowledge(r, i)
                         /\ UNCHANGED <<writes, seen, forgotten>>)
    /\ \A i \in Items :
        /\ WF_d1vars(LeaseExpires(i) /\ UNCHANGED <<writes, seen, forgotten>>)
        /\ WF_d1vars(BecomesDue(i) /\ UNCHANGED <<writes, seen, forgotten>>)
        /\ \A p \in Payloads :
            WF_d1vars(/\ DropLate([item |-> i, payload |-> p])
                      /\ UNCHANGED <<writes, seen, forgotten>>)
    /\ WF_d1vars(\E w \in writes : CommitWrite(w))

FairD1Spec == D1Spec /\ D1Fairness

=============================================================================
