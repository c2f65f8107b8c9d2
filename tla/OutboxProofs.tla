---------------------------- MODULE OutboxProofs ----------------------------
(***************************************************************************)
(* Theorems about the outbox for any number of items, servers, canonicals, *)
(* payloads, runs and revisions, and about its writes and rows on D1 for   *)
(* any number of operations between their reads and their batches.         *)
(***************************************************************************)
EXTENDS OutboxD1, TLAPS

-----------------------------------------------------------------------------
(* What the row operators do to one row                                    *)

\* A row operator leaves the lease with its holder only if it rewrites nothing
\* the holder's claim was copied from.
KeepsLease(row, new) ==
    \/ new.owner = NoRun
    \/ /\ new.owner = row.owner
       /\ new.desired = row.desired
       /\ new.generation = row.generation
       /\ new.payload = row.payload

\* Nothing is delivered to a target before it has a row.
Fresh(row) == row.status = "absent" => row.delivered = 0

\* What every rewriting of a row that is not an acknowledgement respects: a
\* lease ends with the claim it stands for, and what was delivered stays.
Respects(row, new) ==
    /\ KeepsLease(row, new)
    /\ Fresh(row) => Fresh(new) /\ new.delivered = row.delivered

\* The type of what upsertOutboxTarget writes.
LEMMA UpsertType ==
    ASSUME NEW row \in Row, NEW c \in Canonicals, NEW generation \in Nat,
           NEW state \in State
    PROVE  UpsertOutboxTarget(row, c, generation, state) \in Row
<1>1. AbsentRow(c) \in Row
  BY NoRunAssumption DEF AbsentRow, Row, Payload
<1> QED
  BY <1>1, ZenonT(60) DEF UpsertOutboxTarget, AbsentRow, Row, State, Payload

\* What upsertOutboxTarget writes: the state it was given, never a new
\* delivered revision, and no lease on anything else.
LEMMA UpsertEffect ==
    ASSUME NEW row \in Row, NEW c \in Canonicals, NEW generation \in Nat,
           NEW state \in State
    PROVE  LET new == UpsertOutboxTarget(row, c, generation, state)
           IN /\ new.status = "eligible"
              /\ new.canonical = c
              /\ new.desired = state.revision
              /\ new.payload = state.payload
              /\ Respects(row, new)
  BY DEF UpsertOutboxTarget, AbsentRow, Row, State, Respects, KeepsLease, Fresh

\* Cancelling ends the lease and changes nothing that was desired or done.
LEMMA CancelEffect ==
    ASSUME NEW row \in Row
    PROVE  /\ Cancel(row) \in Row
           /\ Cancel(row).status = "cancelled"
           /\ Cancel(row).canonical = row.canonical
           /\ Respects(row, Cancel(row))
  BY DEF Cancel, Row, Respects, KeepsLease, Fresh

-----------------------------------------------------------------------------
(* What the outbox operators do to all rows                                *)

Rows == [Items -> Row]
SourceItems == [Items -> SourceItem]

\* A row is right when it belongs to its item's canonical and, once eligible,
\* carries that canonical's state.
RowIsRight(row, i, items, states) ==
    /\ row.canonical = items[i].canonical
    /\ row.status = "eligible" =>
        LET state == states[items[i].canonical]
        IN state.revision > 0 /\ row.desired = state.revision
            /\ row.payload = state.payload

\* syncOutboxTargets rewrites the rows of one canonical and touches no other.
LEMMA SyncEffect ==
    ASSUME NEW rows \in Rows, NEW items \in SourceItems, NEW c \in Canonicals,
           NEW state \in State
    PROVE  LET new == SyncOutboxTargets(rows, items, c, state)
           IN /\ new \in Rows
              /\ \A i \in Items : Respects(rows[i], new[i])
              /\ \A i \in Items :
                   rows[i].canonical = items[i].canonical =>
                     /\ new[i].canonical = items[i].canonical
                     /\ items[i].canonical # c => new[i] = rows[i]
                     /\ items[i].canonical = c /\ new[i].status = "eligible" =>
                          /\ new[i].desired = state.revision
                          /\ new[i].payload = state.payload
<1> DEFINE new == SyncOutboxTargets(rows, items, c, state)
<1>1. ASSUME NEW i \in Items
      PROVE  /\ new[i] \in Row
             /\ Respects(rows[i], new[i])
             /\ rows[i].canonical = items[i].canonical =>
                  /\ new[i].canonical = items[i].canonical
                  /\ items[i].canonical # c => new[i] = rows[i]
                  /\ items[i].canonical = c /\ new[i].status = "eligible" =>
                       /\ new[i].desired = state.revision
                       /\ new[i].payload = state.payload
  <2> DEFINE target == items[i].canonical = c /\ EligibleTarget(items, i)
             lost == rows[i].status = "eligible" /\ rows[i].canonical = c
                     /\ ~target
             kept == IF lost THEN Cancel(rows[i]) ELSE rows[i]
  <2>1. new[i] = IF target
                 THEN UpsertOutboxTarget(kept, c, items[i].generation, state)
                 ELSE kept
    BY DEF SyncOutboxTargets
  <2>2. rows[i] \in Row /\ items[i] \in SourceItem
    BY DEF Rows, SourceItems
  <2>3. items[i].generation \in Nat
    BY <2>2 DEF SourceItem
  <2> HIDE DEF new
  <2>4. CASE target
    <3>1. kept = rows[i]
      BY <2>4
    <3>2. new[i] = UpsertOutboxTarget(rows[i], c, items[i].generation, state)
      BY <2>1, <2>4, <3>1
    <3> QED
      BY <2>2, <2>3, <2>4, <3>2, UpsertType, UpsertEffect
  <2>5. CASE ~target /\ lost
    <3>1. new[i] = Cancel(rows[i])
      BY <2>1, <2>5
    <3> QED
      BY <2>2, <2>5, <3>1, CancelEffect
  <2>6. CASE ~target /\ ~lost
    <3>1. new[i] = rows[i]
      BY <2>1, <2>6
    <3>2. /\ rows[i].canonical = items[i].canonical
          /\ items[i].canonical = c
          => new[i].status # "eligible"
      BY <2>6, <3>1
    <3> QED
      BY <2>2, <3>1, <3>2 DEF Respects, KeepsLease
  <2> QED
    BY <2>4, <2>5, <2>6
<1>2. new = [i \in Items |-> new[i]]
  BY DEF SyncOutboxTargets
<1>3. new \in Rows
  BY <1>1, <1>2 DEF Rows
<1> QED
  BY <1>1, <1>3

RowsAreRight(rows, items, states) ==
    \A i \in Items : RowIsRight(rows[i], i, items, states)

\* After the rows of a canonical are synchronised with its state, all rows are
\* right if those of the other canonicals were.
LEMMA SyncExistingEffect ==
    ASSUME NEW rows \in Rows, NEW items \in SourceItems, NEW c \in Canonicals,
           NEW states \in [Canonicals -> State]
    PROVE  LET new == SyncExistingState(rows, items, c, states[c])
           IN /\ new \in Rows
              /\ \A i \in Items : Respects(rows[i], new[i])
              /\ /\ \A i \in Items : rows[i].canonical = items[i].canonical
                 /\ \A i \in Items :
                      items[i].canonical # c \/ states[c].revision = 0 =>
                        RowIsRight(rows[i], i, items, states)
                 => RowsAreRight(new, items, states)
<1> DEFINE new == SyncExistingState(rows, items, c, states[c])
<1>1. states[c] \in State
  OBVIOUS
<1>2. CASE states[c].revision = 0
  <2>1. new = rows
    BY <1>2 DEF SyncExistingState
  <2>2. \A i \in Items : Respects(rows[i], rows[i])
    BY DEF Respects, KeepsLease
  <2> QED
    BY <1>2, <2>1, <2>2 DEF RowsAreRight
<1>3. CASE states[c].revision # 0
  <2>1. new = SyncOutboxTargets(rows, items, c, states[c])
    BY <1>3 DEF SyncExistingState
  <2>2. states[c].revision > 0
    BY <1>1, <1>3 DEF State
  <2> HIDE DEF new
  <2>3. new \in Rows /\ \A i \in Items : Respects(rows[i], new[i])
    BY <1>1, <2>1, SyncEffect
  <2>4. ASSUME \A i \in Items : rows[i].canonical = items[i].canonical,
               \A i \in Items :
                 items[i].canonical # c \/ states[c].revision = 0 =>
                   RowIsRight(rows[i], i, items, states)
        PROVE  RowsAreRight(new, items, states)
    <3>1. ASSUME NEW i \in Items
          PROVE  RowIsRight(new[i], i, items, states)
      BY <1>1, <2>1, <2>2, <2>4, SyncEffect DEF RowIsRight
    <3> QED
      BY <3>1 DEF RowsAreRight
  <2> QED
    BY <2>3, <2>4 DEF new
<1> QED
  BY <1>2, <1>3

\* One row through the three statements of runMaintenanceBatch.
LEMMA BatchEffect ==
    ASSUME TypeOK
    PROVE  LET new == CreateMissing(CancelIneligible(ReleaseExpired(outbox)))
           IN /\ new \in Rows
              /\ \A i \in Items : Respects(outbox[i], new[i])
              /\ RowsAreRight(outbox, item, userState) =>
                    RowsAreRight(new, item, userState)
<1> DEFINE released == ReleaseExpired(outbox)
           cancelled == CancelIneligible(released)
           new == CreateMissing(cancelled)
<1>1. outbox \in Rows /\ item \in SourceItems /\ userState \in [Canonicals -> State]
  BY DEF TypeOK, Rows, SourceItems
<1>2. ASSUME NEW i \in Items
      PROVE  /\ released[i] \in Row
             /\ Respects(outbox[i], released[i])
             /\ RowIsRight(outbox[i], i, item, userState) =>
                   RowIsRight(released[i], i, item, userState)
  <2>1. outbox[i] \in Row
    BY <1>1 DEF Rows
  <2> QED
    BY <2>1 DEF ReleaseExpired, Row, Respects, KeepsLease, Fresh, RowIsRight
<1>3. ASSUME NEW i \in Items
      PROVE  /\ cancelled[i] \in Row
             /\ Respects(released[i], cancelled[i])
             /\ RowIsRight(released[i], i, item, userState) =>
                   RowIsRight(cancelled[i], i, item, userState)
  <2>1. \/ cancelled[i] = released[i]
        \/ cancelled[i] = Cancel(released[i])
    BY DEF CancelIneligible
  <2> HIDE DEF released, cancelled
  <2> QED
    BY <1>2, <2>1, CancelEffect DEF Respects, KeepsLease, RowIsRight
<1>4. ASSUME NEW i \in Items
      PROVE  /\ new[i] \in Row
             /\ Respects(cancelled[i], new[i])
             /\ RowIsRight(cancelled[i], i, item, userState) =>
                   RowIsRight(new[i], i, item, userState)
  <2> DEFINE c == item[i].canonical
  <2>1. /\ c \in Canonicals
        /\ item[i].generation \in Nat
        /\ userState[c] \in State
    BY <1>1 DEF SourceItems, SourceItem
  <2>2. \/ new[i] = cancelled[i]
        \/ /\ userState[c].revision > 0
           /\ new[i] = UpsertOutboxTarget(cancelled[i], c, item[i].generation,
                                          userState[c])
    BY DEF CreateMissing
  <2> HIDE DEF cancelled, new
  <2> QED
    BY <1>3, <2>1, <2>2, UpsertType, UpsertEffect
       DEF Respects, KeepsLease, RowIsRight
<1>5. new = [i \in Items |-> new[i]]
  BY DEF CreateMissing
<1> HIDE DEF released, cancelled, new
<1>6. new \in Rows
  BY <1>4, <1>5 DEF Rows
<1>7. ASSUME NEW i \in Items
      PROVE  Respects(outbox[i], new[i])
  BY <1>2, <1>3, <1>4 DEF Respects, KeepsLease
<1>8. RowsAreRight(outbox, item, userState) => RowsAreRight(new, item, userState)
  BY <1>2, <1>3, <1>4 DEF RowsAreRight
<1> QED
  BY <1>6, <1>7, <1>8 DEF released, cancelled, new

-----------------------------------------------------------------------------
(* Merging two canonicals                                                  *)

\* resolveIdentity with a merge: whichever state survives, the rows of both
\* canonicals end up right, and nothing is left with the retired one.
LEMMA MergeEffect ==
    ASSUME TypeOK,
           NEW i \in Items, NEW survivor \in Canonicals,
           NEW retired \in Canonicals,
           MergeCanonicals(i, survivor, retired)
    PROVE  /\ userState' \in [Canonicals -> State]
           /\ item' \in SourceItems
           /\ outbox' \in Rows
           /\ \A j \in Items : Respects(outbox[j], outbox'[j])
           /\ RowsAreRight(outbox, item, userState) =>
                RowsAreRight(outbox', item', userState')
<1> DEFINE g == server[ServerOf[i]].generation
           moved == [j \in Items |->
                       IF item[j].canonical = retired
                       THEN [item[j] EXCEPT !.canonical = survivor]
                       ELSE item[j]]
           rows == MoveRows(survivor, retired)
<1>1. /\ survivor # retired
      /\ item' = [moved EXCEPT ![i].generation = g]
  BY DEF MergeCanonicals
<1>2. g \in Nat
  BY ServerOfAssumption DEF TypeOK, Server
<1>3. PICK state \in Survivors(survivor, retired) :
        /\ userState' = [userState EXCEPT
                           ![survivor] = state,
                           ![retired] = [revision |-> 0,
                                         payload |-> NoPayload]]
        /\ outbox' = SyncExistingState(rows, item', survivor, state)
  BY <1>1 DEF MergeCanonicals
<1>4. /\ state \in State
      /\ state.revision >= userState[survivor].revision
      /\ state.revision >= userState[retired].revision
  BY <1>3 DEF Survivors, TypeOK
<1>5. userState' \in [Canonicals -> State] /\ userState'[survivor] = state
  BY <1>1, <1>3, <1>4 DEF TypeOK, State, Payload
<1>6. ASSUME NEW j \in Items
      PROVE  /\ item'[j] \in SourceItem
             /\ item'[j].canonical = IF item[j].canonical = retired
                                     THEN survivor ELSE item[j].canonical
  BY <1>1, <1>2 DEF TypeOK, SourceItem
<1>7. item' \in SourceItems
  <2>1. item' = [j \in Items |-> item'[j]]
    BY <1>1
  <2> QED
    BY <1>6, <2>1 DEF SourceItems
<1>8. ASSUME NEW j \in Items
      PROVE  /\ rows[j] \in Row
             /\ Respects(outbox[j], rows[j])
             /\ rows[j].canonical = IF outbox[j].canonical = retired
                                    THEN survivor ELSE outbox[j].canonical
             /\ rows[j].status = outbox[j].status
             /\ rows[j].desired = outbox[j].desired
             /\ rows[j].payload = outbox[j].payload
  <2>1. outbox[j] \in Row
    BY DEF TypeOK
  <2> QED
    BY <2>1 DEF MoveRows, Row, Respects, KeepsLease, Fresh
<1>9. rows \in Rows
  <2>1. rows = [j \in Items |-> rows[j]]
    BY DEF MoveRows
  <2> QED
    BY <1>8, <2>1 DEF Rows
<1> HIDE DEF g, moved, rows
<1>10. /\ outbox' \in Rows
       /\ \A j \in Items : Respects(rows[j], outbox'[j])
  BY <1>3, <1>5, <1>7, <1>9, SyncExistingEffect
<1>11. ASSUME RowsAreRight(outbox, item, userState)
       PROVE  RowsAreRight(outbox', item', userState')
  <2>1. ASSUME NEW j \in Items
        PROVE  rows[j].canonical = item'[j].canonical
    BY <1>6, <1>8, <1>11 DEF RowsAreRight, RowIsRight
  <2>2. ASSUME NEW j \in Items,
               item'[j].canonical # survivor \/ state.revision = 0
        PROVE  RowIsRight(rows[j], j, item', userState')
    <3>1. RowIsRight(outbox[j], j, item, userState)
      BY <1>11 DEF RowsAreRight
    <3>2. CASE item'[j].canonical # survivor
      <4>1. /\ item[j].canonical = item'[j].canonical
            /\ item[j].canonical # retired
            /\ item[j].canonical # survivor
        BY <1>6, <3>2
      <4>2. userState'[item[j].canonical] = userState[item[j].canonical]
        BY <1>3, <4>1 DEF TypeOK, SourceItem
      <4> QED
        BY <1>8, <2>1, <3>1, <4>1, <4>2 DEF RowIsRight
    <3>3. CASE item'[j].canonical = survivor
      <4>1. item[j].canonical \in {survivor, retired}
        BY <1>6, <3>3
      <4>2. userState[item[j].canonical].revision = 0
        BY <1>4, <2>2, <3>3, <4>1 DEF TypeOK, State
      <4> QED
        BY <1>8, <2>1, <3>1, <4>2 DEF RowIsRight
    <3> QED
      BY <3>2, <3>3
  <2> QED
    BY <1>3, <1>5, <1>7, <1>9, <2>1, <2>2, SyncExistingEffect
<1>12. ASSUME NEW j \in Items
       PROVE  Respects(outbox[j], outbox'[j])
  BY <1>8, <1>10 DEF Respects, KeepsLease
<1> QED
  BY <1>5, <1>7, <1>10, <1>11, <1>12


-----------------------------------------------------------------------------
(* The inductive invariant                                                 *)

\* RowFollowsState and LeaseHolderIsCurrent hold together: a lease may stay
\* with its holder because nothing it was copied from is rewritten, and a row
\* is rewritten whenever the state it follows is.
IInv ==
    /\ TypeOK
    /\ RowsAreRight(outbox, item, userState)
    /\ \A i \in Items : Fresh(outbox[i])
    /\ LeaseHolderIsCurrent

\* The initial rows are absent and no run holds a lease.
LEMMA InitIInv == Init => IInv
<1> SUFFICES ASSUME Init PROVE IInv
  OBVIOUS
<1>1. PICK canonical \in [Items -> Canonicals] :
        /\ item = [i \in Items |-> [canonical |-> canonical[i],
                                    generation |-> 0, bound |-> TRUE]]
        /\ outbox = [i \in Items |-> AbsentRow(canonical[i])]
  BY DEF Init
<1>2. \A c \in Canonicals : AbsentRow(c) \in Row
  BY DEF AbsentRow, Row, Payload
<1>3. item \in [Items -> SourceItem] /\ outbox \in [Items -> Row]
  BY <1>1, <1>2 DEF SourceItem
<1>4. /\ userState \in [Canonicals -> State]
      /\ server \in [Servers -> Server]
      /\ delivery \in [Runs -> [Items -> Fiber]]
  BY DEF Init, State, Server, Payload, NoFiber, Fiber, FiberState
<1>5. TypeOK
  BY <1>3, <1>4 DEF Init, TypeOK, Payload
<1>6. RowsAreRight(outbox, item, userState) /\ \A i \in Items : Fresh(outbox[i])
  BY <1>1 DEF RowsAreRight, RowIsRight, Fresh, AbsentRow
<1>7. LeaseHolderIsCurrent
  BY DEF Init, LeaseHolderIsCurrent, NoFiber
<1> QED
  BY <1>5, <1>6, <1>7 DEF IInv

\* A step that rewrites rows with respect, and starts or moves no fiber, keeps
\* the fibers current.
LEMMA RespectfulStep ==
    ASSUME IInv, UNCHANGED delivery,
           \A i \in Items : Respects(outbox[i], outbox'[i])
    PROVE  /\ \A i \in Items : Fresh(outbox'[i])
           /\ LeaseHolderIsCurrent'
  BY NoRunAssumption DEF IInv, Respects, KeepsLease, LeaseHolderIsCurrent

\* Steps of the local side: writes, observations and merges.
LEMMA LocalStepIInv == IInv /\ LocalStep => IInv'
<1> SUFFICES ASSUME IInv, LocalStep PROVE IInv'
  OBVIOUS
<1> USE DEF IInv
<1>1. CASE \E c \in Canonicals, p \in Payloads : WriteUserState(c, p)
  <2>1. PICK c \in Canonicals, p \in Payloads : WriteUserState(c, p)
    BY <1>1
  <2> DEFINE state == [revision |-> userState[c].revision + 1, payload |-> p]
  <2>2. /\ state \in State
        /\ state.revision > 0
        /\ userState' = [userState EXCEPT ![c] = state]
        /\ outbox' = SyncOutboxTargets(outbox, item, c, state)
        /\ UNCHANGED <<item, server, phase, delivery, remote, late>>
    BY <2>1 DEF WriteUserState, TypeOK, State, Payload
  <2> HIDE DEF state
  <2>3. userState' \in [Canonicals -> State] /\ userState'[c] = state
    BY <2>2 DEF TypeOK
  <2>4. outbox \in Rows /\ item \in SourceItems
    BY DEF TypeOK, Rows, SourceItems
  <2>5. outbox' \in Rows /\ \A i \in Items : Respects(outbox[i], outbox'[i])
    BY <2>2, <2>4, SyncEffect
  <2>6. TypeOK'
    BY <2>2, <2>3, <2>5 DEF TypeOK, Rows
  <2>7. ASSUME NEW i \in Items
        PROVE  RowIsRight(outbox'[i], i, item', userState')
    <3>1. RowIsRight(outbox[i], i, item, userState)
      BY DEF RowsAreRight
    <3>2. CASE item[i].canonical = c
      BY <2>2, <2>3, <2>4, <3>1, <3>2, SyncEffect DEF RowIsRight
    <3>3. CASE item[i].canonical # c
      <4>1. userState'[item[i].canonical] = userState[item[i].canonical]
        BY <2>2, <2>4, <3>3 DEF TypeOK, SourceItems, SourceItem
      <4>2. outbox'[i] = outbox[i]
        BY <2>2, <2>4, <3>1, <3>3, SyncEffect DEF RowIsRight
      <4> QED
        BY <2>2, <3>1, <4>1, <4>2 DEF RowIsRight
    <3> QED
      BY <3>2, <3>3
  <2>8. RowsAreRight(outbox', item', userState')
    BY <2>7 DEF RowsAreRight
  <2> QED
    BY <2>2, <2>5, <2>6, <2>8, RespectfulStep
<1>2. CASE \E i \in Items : ResolveIdentity(i)
  <2>1. PICK i \in Items : ResolveIdentity(i)
    BY <1>2
  <2> DEFINE c == item[i].canonical
             g == server[ServerOf[i]].generation
  <2>2. /\ item' = [item EXCEPT ![i].generation = g]
        /\ outbox' = SyncExistingState(outbox, item', c, userState[c])
        /\ UNCHANGED <<userState, server, phase, delivery, remote, late>>
    BY <2>1 DEF ResolveIdentity
  <2>3. g \in Nat /\ c \in Canonicals
    BY ServerOfAssumption DEF TypeOK, Server, SourceItem
  <2>4. item' \in SourceItems /\ outbox \in Rows
    BY <2>2, <2>3 DEF TypeOK, SourceItems, SourceItem, Rows
  <2>5. \A j \in Items : item'[j].canonical = item[j].canonical
    BY <2>2 DEF TypeOK, SourceItem
  <2>6. \A j \in Items : RowIsRight(outbox[j], j, item', userState)
    BY <2>5 DEF RowsAreRight, RowIsRight
  <2>7. /\ outbox' \in Rows
        /\ \A j \in Items : Respects(outbox[j], outbox'[j])
    <3> HIDE DEF c, IInv
    <3>1. userState \in [Canonicals -> State]
      BY DEF TypeOK, IInv
    <3> QED
      BY <2>2, <2>3, <2>4, <3>1, SyncExistingEffect
  <2>8. RowsAreRight(outbox', item', userState')
    <3>1. userState \in [Canonicals -> State]
      BY DEF TypeOK
    <3>2. \A j \in Items : outbox[j].canonical = item'[j].canonical
      BY <2>6 DEF RowIsRight
    <3> HIDE DEF c, IInv
    <3>3. RowsAreRight(outbox', item', userState)
      BY <2>2, <2>3, <2>4, <2>6, <3>1, <3>2, SyncExistingEffect
    <3> QED
      BY <2>2, <3>3 DEF RowsAreRight, RowIsRight
  <2>9. TypeOK'
    BY <2>2, <2>4, <2>7 DEF TypeOK, Rows, SourceItems
  <2> QED
    BY <2>2, <2>7, <2>8, <2>9, RespectfulStep
<1>3. CASE \E i \in Items, survivor, retired \in Canonicals :
             MergeCanonicals(i, survivor, retired)
  <2>1. PICK i \in Items, survivor \in Canonicals, retired \in Canonicals :
          MergeCanonicals(i, survivor, retired)
    BY <1>3
  <2>2. UNCHANGED <<server, phase, delivery, remote, late>>
    BY <2>1 DEF MergeCanonicals
  <2>3. /\ userState' \in [Canonicals -> State]
        /\ item' \in SourceItems
        /\ outbox' \in Rows
        /\ \A j \in Items : Respects(outbox[j], outbox'[j])
        /\ RowsAreRight(outbox', item', userState')
    BY <2>1, MergeEffect
  <2>4. TypeOK'
    BY <2>2, <2>3 DEF TypeOK, Rows, SourceItems
  <2> QED
    BY <2>2, <2>3, <2>4, RespectfulStep
<1> QED
  BY <1>1, <1>2, <1>3 DEF LocalStep

\* Edits of servers and libraries leave the rows to the next maintenance run.
LEMMA ConfigurationStepIInv == IInv /\ ConfigurationStep => IInv'
<1> SUFFICES ASSUME IInv, ConfigurationStep PROVE IInv'
  OBVIOUS
<1> USE DEF IInv
<1>1. ASSUME NEW s \in Servers, NEW status \in {"enabled", "disabled", "deleted"},
             UpdateServer(s, status)
      PROVE  IInv'
  <2>1. server' \in [Servers -> Server]
    BY <1>1 DEF UpdateServer, TypeOK, Server
  <2> QED
    BY <1>1, <2>1 DEF UpdateServer, TypeOK, RowsAreRight, RowIsRight,
                      LeaseHolderIsCurrent
<1>2. ASSUME NEW s \in Servers, AuthenticateServer(s)
      PROVE  IInv'
  <2>1. server' \in [Servers -> Server]
    BY <1>2 DEF AuthenticateServer, TypeOK, Server
  <2> QED
    BY <1>2, <2>1 DEF AuthenticateServer, TypeOK, RowsAreRight, RowIsRight,
                      LeaseHolderIsCurrent
<1>3. ASSUME NEW i \in Items, RebindLibrary(i)
      PROVE  IInv'
  <2>1. /\ item' \in [Items -> SourceItem]
        /\ \A j \in Items : item'[j].canonical = item[j].canonical
    BY <1>3 DEF RebindLibrary, TypeOK, SourceItem
  <2> QED
    BY <1>3, <2>1 DEF RebindLibrary, TypeOK, RowsAreRight, RowIsRight,
                      LeaseHolderIsCurrent
<1> QED
  BY <1>1, <1>2, <1>3 DEF ConfigurationStep, DeleteServer

\* A fiber that moves on without touching rows keeps its claim or ends.
LEMMA FiberMoves ==
    ASSUME TypeOK, NEW r \in Runs, NEW i \in Items,
           delivery[r][i].at # "none",
           \/ \E at \in FiberState : Goto(r, i, at)
           \/ EndFiber(r, i)
    PROVE  /\ delivery' \in [Runs -> [Items -> Fiber]]
           /\ \A q \in Runs, j \in Items :
                delivery'[q][j].at # "none" =>
                  /\ delivery[q][j].at # "none"
                  /\ delivery'[q][j].desired = delivery[q][j].desired
                  /\ delivery'[q][j].generation = delivery[q][j].generation
                  /\ delivery'[q][j].payload = delivery[q][j].payload
<1>1. NoFiber \in Fiber
  BY DEF NoFiber, Fiber, FiberState, Payload
<1>2. delivery \in [Runs -> [Items -> Fiber]]
  BY DEF TypeOK
<1>3. CASE \E at \in FiberState : Goto(r, i, at)
  <2>1. PICK at \in FiberState : delivery' = [delivery EXCEPT ![r][i].at = at]
    BY <1>3 DEF Goto
  <2> QED
    BY <1>2, <2>1 DEF Fiber
<1>4. CASE EndFiber(r, i)
  <2>1. delivery' = [delivery EXCEPT ![r][i] = NoFiber]
    BY <1>4 DEF EndFiber
  <2>2. NoFiber.at = "none"
    BY DEF NoFiber
  <2> QED
    BY <1>1, <1>2, <2>1, <2>2
<1> QED
  BY <1>3, <1>4

\* What a fiber writes to its row is neither the desired state nor a claim.
LEMMA FiberStepRow ==
    ASSUME TypeOK, NEW r \in Runs, NEW i \in Items, FiberStep(r, i)
    PROVE  /\ outbox' \in Rows
           /\ \A j \in Items : KeepsLease(outbox[j], outbox'[j])
           /\ \A j \in Items :
                /\ outbox'[j].status = outbox[j].status
                /\ outbox'[j].canonical = outbox[j].canonical
                /\ outbox'[j].generation = outbox[j].generation
                /\ outbox'[j].desired = outbox[j].desired
                /\ outbox'[j].payload = outbox[j].payload
                /\ \/ outbox'[j].delivered = outbox[j].delivered
                   \/ /\ j = i
                      /\ delivery[r][i].at = "succeeded"
                      /\ MayTouchServer(r, i)
                      /\ outbox'[i].delivered = delivery[r][i].desired
<1>1. outbox \in [Items -> Row] /\ outbox[i] \in Row /\ delivery[r][i] \in Fiber
  BY DEF TypeOK
<1>2. CASE UNCHANGED outbox
  BY <1>1, <1>2 DEF Rows, KeepsLease
<1>3. ASSUME NEW row \in Row, outbox' = [outbox EXCEPT ![i] = row],
             row.status = outbox[i].status,
             row.canonical = outbox[i].canonical,
             row.desired = outbox[i].desired,
             row.generation = outbox[i].generation,
             row.payload = outbox[i].payload,
             row.owner \in {outbox[i].owner, NoRun},
             \/ row.delivered = outbox[i].delivered
             \/ /\ delivery[r][i].at = "succeeded"
                /\ MayTouchServer(r, i)
                /\ row.delivered = delivery[r][i].desired
      PROVE  /\ outbox' \in Rows
             /\ \A j \in Items : KeepsLease(outbox[j], outbox'[j])
             /\ \A j \in Items :
                  /\ outbox'[j].status = outbox[j].status
                  /\ outbox'[j].canonical = outbox[j].canonical
                  /\ outbox'[j].generation = outbox[j].generation
                  /\ outbox'[j].desired = outbox[j].desired
                  /\ outbox'[j].payload = outbox[j].payload
                  /\ \/ outbox'[j].delivered = outbox[j].delivered
                     \/ /\ j = i
                        /\ delivery[r][i].at = "succeeded"
                        /\ MayTouchServer(r, i)
                        /\ outbox'[i].delivered = delivery[r][i].desired
  <2>1. outbox'[i] = row /\ \A j \in Items \ {i} : outbox'[j] = outbox[j]
    BY <1>1, <1>3
  <2>2. \A j \in Items : KeepsLease(outbox[j], outbox'[j])
    BY <1>3, <2>1 DEF KeepsLease
  <2> QED
    BY <1>1, <1>3, <2>1, <2>2 DEF Rows
<1>4. CASE /\ delivery[r][i].at = "claimed"
           /\ outbox' = [outbox EXCEPT ![i].dispatched = TRUE]
  <2> DEFINE row == [outbox[i] EXCEPT !.dispatched = TRUE]
  <2>1. outbox' = [outbox EXCEPT ![i] = row]
    BY <1>4
  <2> QED
    BY <1>1, <1>3, <2>1 DEF Row
<1>5. CASE AcknowledgeOutboxTarget(r, i) /\ MayTouchServer(r, i)
  <2> DEFINE row == [outbox[i] EXCEPT
                       !.delivered = delivery[r][i].desired, !.owner = NoRun,
                       !.expired = FALSE, !.dispatched = FALSE,
                       !.permanent = FALSE,
                       !.due = outbox[i].due /\ ~outbox[i].uncertain]
  <2>1. outbox' = [outbox EXCEPT ![i] = row] /\ delivery[r][i].at = "succeeded"
    BY <1>1, <1>5 DEF AcknowledgeOutboxTarget
  <2>2. /\ row \in Row
        /\ row.status = outbox[i].status
        /\ row.canonical = outbox[i].canonical
        /\ row.desired = outbox[i].desired
        /\ row.generation = outbox[i].generation
        /\ row.payload = outbox[i].payload
        /\ row.owner = NoRun
        /\ row.delivered = delivery[r][i].desired
    BY <1>1 DEF Row, Fiber
  <2> HIDE DEF row
  <2> QED
    BY <1>3, <1>5, <2>1, <2>2
<1>6. CASE MarkOutboxUncertain(r, i)
  <2> DEFINE behind == outbox[i].delivered < outbox[i].desired
             row == [outbox[i] EXCEPT !.uncertain = TRUE, !.due = behind]
  <2>1. UNCHANGED outbox \/ outbox' = [outbox EXCEPT ![i] = row]
    BY <1>1, <1>6 DEF MarkOutboxUncertain
  <2>2. behind \in BOOLEAN
    OBVIOUS
  <2> HIDE DEF behind
  <2>3. /\ row \in Row
        /\ row.status = outbox[i].status
        /\ row.canonical = outbox[i].canonical
        /\ row.desired = outbox[i].desired
        /\ row.generation = outbox[i].generation
        /\ row.payload = outbox[i].payload
        /\ row.owner = outbox[i].owner
        /\ row.delivered = outbox[i].delivered
    BY <1>1, <2>2 DEF Row
  <2> HIDE DEF row
  <2> QED
    BY <1>2, <1>3, <2>1, <2>3
<1>7. CASE RecordOutboxFailure(r, i)
  <2> DEFINE row == [outbox[i] EXCEPT
                       !.permanent = (delivery[r][i].at = "permanent"),
                       !.due = FALSE, !.owner = NoRun, !.expired = FALSE,
                       !.dispatched = FALSE]
  <2>1. UNCHANGED outbox \/ outbox' = [outbox EXCEPT ![i] = row]
    BY <1>1, <1>7 DEF RecordOutboxFailure
  <2>2. /\ row \in Row
        /\ row.status = outbox[i].status
        /\ row.canonical = outbox[i].canonical
        /\ row.desired = outbox[i].desired
        /\ row.generation = outbox[i].generation
        /\ row.payload = outbox[i].payload
        /\ row.owner = NoRun
        /\ row.delivered = outbox[i].delivered
    BY <1>1 DEF Row
  <2> HIDE DEF row
  <2> QED
    BY <1>2, <1>3, <2>1, <2>2
<1>8. \/ UNCHANGED outbox
      \/ /\ delivery[r][i].at = "claimed"
         /\ outbox' = [outbox EXCEPT ![i].dispatched = TRUE]
      \/ AcknowledgeOutboxTarget(r, i) /\ MayTouchServer(r, i)
      \/ MarkOutboxUncertain(r, i)
      \/ RecordOutboxFailure(r, i)
  BY DEF FiberStep, MarkOutboxDispatched, SendRequest, FailBeforeSend,
         ApplyRequest, AnswerSuccess, AnswerRejected, AnswerLost,
         AcknowledgeOutboxTarget
<1> QED
  BY <1>2, <1>4, <1>5, <1>6, <1>7, <1>8

\* Whatever a fiber does, it touches no fiber but itself.
LEMMA FiberStepMoves ==
    ASSUME NEW r \in Runs, NEW i \in Items, FiberStep(r, i)
    PROVE  /\ delivery[r][i].at # "none"
           /\ \/ \E at \in FiberState : Goto(r, i, at)
              \/ EndFiber(r, i)
<1> USE DEF FiberState
<1>1. CASE MarkOutboxDispatched(r, i)
  BY <1>1 DEF MarkOutboxDispatched
<1>2. CASE SendRequest(r, i) \/ FailBeforeSend(r, i) \/ ApplyRequest(r, i)
  BY <1>2 DEF SendRequest, FailBeforeSend, ApplyRequest
<1>3. CASE AnswerSuccess(r, i)
  <2>1. \E at \in {"permanent", "ambiguous", "succeeded"} : Goto(r, i, at)
    BY <1>3 DEF AnswerSuccess
  <2> QED
    BY <1>3, <2>1 DEF AnswerSuccess
<1>4. CASE AnswerRejected(r, i) \/ AnswerLost(r, i)
  BY <1>4 DEF AnswerRejected, AnswerLost
<1>5. CASE AcknowledgeOutboxTarget(r, i)
  BY <1>5 DEF AcknowledgeOutboxTarget
<1>6. CASE MarkOutboxUncertain(r, i) \/ RecordOutboxFailure(r, i)
  BY <1>6 DEF MarkOutboxUncertain, RecordOutboxFailure
<1> QED
  BY <1>1, <1>2, <1>3, <1>4, <1>5, <1>6 DEF FiberStep

\* A fiber's step keeps the types, and the lease with the claim it stands for.
LEMMA FiberStepTypes ==
    ASSUME TypeOK, NEW r \in Runs, NEW i \in Items, FiberStep(r, i)
    PROVE  /\ TypeOK'
           /\ UNCHANGED <<userState, item, server, phase>>
           /\ LeaseHolderIsCurrent => LeaseHolderIsCurrent'
<1>1. /\ delivery' \in [Runs -> [Items -> Fiber]]
      /\ \A q \in Runs, j \in Items :
           delivery'[q][j].at # "none" =>
             /\ delivery[q][j].at # "none"
             /\ delivery'[q][j].desired = delivery[q][j].desired
             /\ delivery'[q][j].generation = delivery[q][j].generation
             /\ delivery'[q][j].payload = delivery[q][j].payload
  BY FiberStepMoves, FiberMoves
<1>2. outbox' \in Rows /\ \A j \in Items : KeepsLease(outbox[j], outbox'[j])
  BY FiberStepRow
<1>3. UNCHANGED <<userState, item, server, phase>>
  BY DEF FiberStep, MarkOutboxDispatched, SendRequest, FailBeforeSend,
         ApplyRequest, AnswerSuccess, AnswerRejected, AnswerLost,
         AcknowledgeOutboxTarget, MarkOutboxUncertain, RecordOutboxFailure
<1>4. remote' \in [Items -> Payload] /\ late' \subseteq Write
  <2>1. delivery[r][i].payload \in Payload
    BY DEF TypeOK, Fiber
  <2>2. \/ UNCHANGED remote
        \/ remote' = [remote EXCEPT ![i] = delivery[r][i].payload]
    BY DEF FiberStep, MarkOutboxDispatched, SendRequest, FailBeforeSend,
           ApplyRequest, AnswerSuccess, AnswerRejected, AnswerLost,
           AcknowledgeOutboxTarget, MarkOutboxUncertain, RecordOutboxFailure
  <2>3. \/ UNCHANGED late
        \/ late' = late \cup {[item |-> i, payload |-> delivery[r][i].payload]}
    BY DEF FiberStep, MarkOutboxDispatched, SendRequest, FailBeforeSend,
           ApplyRequest, AnswerSuccess, AnswerRejected, AnswerLost,
           AcknowledgeOutboxTarget, MarkOutboxUncertain, RecordOutboxFailure
  <2> QED
    BY <2>1, <2>2, <2>3 DEF TypeOK, Write
<1>5. TypeOK'
  BY <1>1, <1>2, <1>3, <1>4 DEF TypeOK, Rows
<1>6. LeaseHolderIsCurrent => LeaseHolderIsCurrent'
  BY <1>1, <1>2, NoRunAssumption DEF LeaseHolderIsCurrent, KeepsLease
<1> QED
  BY <1>3, <1>5, <1>6

\* So does the end of a run.
LEMMA StopTypes ==
    ASSUME TypeOK, NEW r \in Runs, StopRun(r)
    PROVE  /\ TypeOK'
           /\ UNCHANGED <<userState, item, server, outbox, remote>>
           /\ LeaseHolderIsCurrent => LeaseHolderIsCurrent'
<1>1. /\ late' = late \cup
                  {[item |-> i, payload |-> delivery[r][i].payload] :
                     i \in {j \in Items : delivery[r][j].at = "sent"}}
      /\ delivery' = [delivery EXCEPT ![r] = [i \in Items |-> NoFiber]]
      /\ phase' = [phase EXCEPT ![r] = "idle"]
      /\ UNCHANGED <<userState, item, server, outbox, remote>>
  BY DEF StopRun
<1>2. NoFiber \in Fiber /\ NoFiber.at = "none"
  BY DEF NoFiber, Fiber, FiberState, Payload
<1>3. late' \subseteq Write
  BY <1>1 DEF TypeOK, Write, Fiber
<1>4. TypeOK'
  BY <1>1, <1>2, <1>3 DEF TypeOK
<1>5. LeaseHolderIsCurrent => LeaseHolderIsCurrent'
  BY <1>1, <1>2 DEF LeaseHolderIsCurrent, TypeOK
<1> QED
  BY <1>1, <1>4, <1>5

\* Steps of a maintenance run.
LEMMA RunStepIInv ==
    ASSUME IInv, NEW r \in Runs, RunStep(r)
    PROVE  IInv'
<1> USE DEF IInv
<1>1. CASE RunMaintenanceBatch(r)
  <2>1. /\ outbox' \in Rows
        /\ \A i \in Items : Respects(outbox[i], outbox'[i])
        /\ RowsAreRight(outbox', item, userState)
    BY <1>1, BatchEffect DEF RunMaintenanceBatch
  <2>2. /\ phase' \in [Runs -> {"idle", "swept"}]
        /\ UNCHANGED <<userState, item, server, delivery, remote, late>>
    BY <1>1 DEF RunMaintenanceBatch, TypeOK
  <2>3. TypeOK'
    BY <2>1, <2>2 DEF TypeOK, Rows
  <2>4. RowsAreRight(outbox', item', userState')
    BY <2>1, <2>2
  <2> QED
    BY <2>1, <2>2, <2>3, <2>4, RespectfulStep
<1>2. CASE ClaimOutboxTargets(r)
  <2> DEFINE rows == ReleaseExpired(outbox)
             leased(i) == [rows[i] EXCEPT !.owner = r, !.expired = FALSE,
                                          !.dispatched = FALSE]
             claim(i) == [at |-> "claimed",
                          desired |-> rows[i].desired,
                          generation |-> rows[i].generation,
                          payload |-> rows[i].payload]
  <2>1. /\ outbox' = [i \in Items |->
                        IF Claimable(rows, i) THEN leased(i) ELSE rows[i]]
        /\ delivery' = [delivery EXCEPT
                          ![r] = [i \in Items |->
                            IF Claimable(rows, i) THEN claim(i)
                            ELSE delivery[r][i]]]
        /\ phase' = [phase EXCEPT ![r] = "idle"]
        /\ UNCHANGED <<userState, item, server, remote, late>>
    BY <1>2 DEF ClaimOutboxTargets
  <2>2. ASSUME NEW i \in Items
        PROVE  /\ rows[i] \in Row
               /\ Respects(outbox[i], rows[i])
               /\ rows[i].status = outbox[i].status
               /\ rows[i].canonical = outbox[i].canonical
               /\ rows[i].desired = outbox[i].desired
               /\ rows[i].payload = outbox[i].payload
    <3>1. outbox[i] \in Row
      BY DEF TypeOK
    <3> QED
      BY <3>1 DEF ReleaseExpired, Row, Respects, KeepsLease, Fresh
  <2> HIDE DEF rows
  <2>3. ASSUME NEW i \in Items
        PROVE  /\ outbox'[i] \in Row
               /\ Fresh(outbox'[i])
               /\ outbox'[i].status = outbox[i].status
               /\ outbox'[i].canonical = outbox[i].canonical
               /\ outbox'[i].desired = rows[i].desired
               /\ outbox'[i].generation = rows[i].generation
               /\ outbox'[i].payload = rows[i].payload
               /\ outbox'[i].owner = IF Claimable(rows, i) THEN r
                                     ELSE rows[i].owner
    <3>1. Fresh(outbox[i])
      OBVIOUS
    <3> HIDE DEF IInv
    <3>2. CASE Claimable(rows, i)
      <4>1. outbox'[i] = leased(i)
        BY <2>1, <3>2
      <4>2. leased(i) \in Row
        BY <2>2 DEF Row
      <4> QED
        BY <2>2, <3>1, <3>2, <4>1, <4>2 DEF Respects, Fresh, Row
    <3>3. CASE ~Claimable(rows, i)
      <4>1. outbox'[i] = rows[i]
        BY <2>1, <3>3
      <4> QED
        BY <2>2, <3>1, <3>3, <4>1 DEF Respects, Fresh
    <3> QED
      BY <3>2, <3>3
  <2>4. outbox' \in [Items -> Row]
    BY <2>1, <2>3
  <2>5. ASSUME NEW i \in Items PROVE claim(i) \in Fiber
    BY <2>2 DEF Row, Fiber, FiberState
  <2>6. delivery' \in [Runs -> [Items -> Fiber]]
    <3> HIDE DEF claim
    <3> QED
      BY <2>1, <2>5 DEF TypeOK
  <2>7. TypeOK'
    BY <2>1, <2>4, <2>6 DEF TypeOK
  <2>8. RowsAreRight(outbox', item', userState')
    <3>1. ASSUME NEW i \in Items
          PROVE  RowIsRight(outbox'[i], i, item', userState')
      <4>1. RowIsRight(outbox[i], i, item, userState)
        BY DEF RowsAreRight
      <4>2. UNCHANGED <<item, userState>>
        BY <2>1
      <4> HIDE DEF IInv, leased, claim
      <4> QED
        BY <2>2, <2>3, <4>1, <4>2 DEF RowIsRight
    <3> QED
      BY <3>1 DEF RowsAreRight
  <2>9. ASSUME NEW q \in Runs, NEW i \in Items,
               outbox'[i].owner = q, delivery'[q][i].at # "none"
        PROVE  /\ delivery'[q][i].desired = outbox'[i].desired
               /\ delivery'[q][i].generation = outbox'[i].generation
               /\ delivery'[q][i].payload = outbox'[i].payload
    <3>1. CASE Claimable(rows, i)
      <4>1. q = r
        BY <2>3, <2>9, <3>1
      <4>2. delivery'[q][i] = claim(i)
        BY <2>1, <3>1, <4>1 DEF TypeOK
      <4> QED
        BY <2>3, <4>2
    <3>2. CASE ~Claimable(rows, i)
      <4>1. delivery'[q][i] = delivery[q][i]
        BY <2>1, <3>2 DEF TypeOK
      <4>2. rows[i].owner = q
        BY <2>3, <2>9, <3>2
      <4>3. /\ outbox[i].owner = q
            /\ outbox[i].desired = rows[i].desired
            /\ outbox[i].generation = rows[i].generation
            /\ outbox[i].payload = rows[i].payload
        BY <2>2, <4>2, NoRunAssumption DEF Respects, KeepsLease
      <4> QED
        BY <2>3, <2>9, <4>1, <4>3 DEF LeaseHolderIsCurrent
    <3> QED
      BY <3>1, <3>2
  <2> QED
    BY <2>3, <2>7, <2>8, <2>9 DEF LeaseHolderIsCurrent
<1>3. CASE StopRun(r)
  <2>1. /\ TypeOK' /\ LeaseHolderIsCurrent'
        /\ UNCHANGED <<userState, item, server, outbox, remote>>
    BY <1>3, StopTypes
  <2> QED
    BY <2>1
<1>4. CASE \E i \in Items : FiberStep(r, i)
  <2>1. PICK i \in Items : FiberStep(r, i)
    BY <1>4
  <2>2. /\ TypeOK' /\ LeaseHolderIsCurrent'
        /\ UNCHANGED <<userState, item, server, phase>>
    BY <2>1, FiberStepTypes
  <2>3. \A j \in Items :
          /\ outbox'[j].status = outbox[j].status
          /\ outbox'[j].canonical = outbox[j].canonical
          /\ outbox'[j].desired = outbox[j].desired
          /\ outbox'[j].payload = outbox[j].payload
          /\ \/ outbox'[j].delivered = outbox[j].delivered
             \/ MayTouchServer(r, j)
    BY <2>1, FiberStepRow
  <2>4. RowsAreRight(outbox', item', userState')
    BY <2>2, <2>3 DEF RowsAreRight, RowIsRight
  <2>5. \A j \in Items : Fresh(outbox'[j])
    BY <2>3 DEF Fresh, MayTouchServer
  <2> QED
    BY <2>2, <2>4, <2>5
<1> QED
  BY <1>1, <1>2, <1>3, <1>4 DEF RunStep

\* Time and the network change no claim and no desired state.
LEMMA EnvironmentStepIInv == IInv /\ EnvironmentStep => IInv'
<1> SUFFICES ASSUME IInv, EnvironmentStep PROVE IInv'
  OBVIOUS
<1> USE DEF IInv
<1>1. ASSUME NEW i \in Items, LeaseExpires(i) \/ BecomesDue(i)
      PROVE  IInv'
  <2>1. /\ outbox' \in [Items -> Row]
        /\ \A j \in Items :
             /\ Respects(outbox[j], outbox'[j])
             /\ outbox'[j].status = outbox[j].status
             /\ outbox'[j].canonical = outbox[j].canonical
             /\ outbox'[j].desired = outbox[j].desired
             /\ outbox'[j].payload = outbox[j].payload
    <3>1. outbox \in [Items -> Row]
      BY DEF TypeOK
    <3>2. \/ outbox' = [outbox EXCEPT ![i].expired = TRUE]
          \/ outbox' = [outbox EXCEPT ![i].due = TRUE]
      BY <1>1 DEF LeaseExpires, BecomesDue
    <3>3. PICK row \in {[outbox[i] EXCEPT !.expired = TRUE],
                        [outbox[i] EXCEPT !.due = TRUE]} :
            outbox' = [outbox EXCEPT ![i] = row]
      BY <3>1, <3>2
    <3> HIDE DEF IInv
    <3>4. /\ row \in Row
          /\ row.status = outbox[i].status
          /\ row.canonical = outbox[i].canonical
          /\ row.desired = outbox[i].desired
          /\ row.generation = outbox[i].generation
          /\ row.delivered = outbox[i].delivered
          /\ row.payload = outbox[i].payload
          /\ row.owner = outbox[i].owner
      <4> DEFINE old == outbox[i]
      <4>1. old \in Row
        BY <3>1
      <4>2. row = [old EXCEPT !.expired = TRUE] \/ row = [old EXCEPT !.due = TRUE]
        OBVIOUS
      <4> HIDE DEF old
      <4>3. CASE row = [old EXCEPT !.expired = TRUE]
        BY <4>1, <4>3 DEF Row, old
      <4>4. CASE row = [old EXCEPT !.due = TRUE]
        BY <4>1, <4>4 DEF Row, old
      <4> QED
        BY <4>2, <4>3, <4>4
    <3> QED
      BY <3>1, <3>3, <3>4 DEF Respects, KeepsLease, Fresh
  <2>2. UNCHANGED <<userState, item, server, phase, delivery, remote, late>>
    BY <1>1 DEF LeaseExpires, BecomesDue
  <2>3. TypeOK'
    BY <2>1, <2>2 DEF TypeOK
  <2>4. RowsAreRight(outbox', item', userState')
    BY <2>1, <2>2 DEF RowsAreRight, RowIsRight
  <2> QED
    BY <2>1, <2>2, <2>3, <2>4, RespectfulStep
<1>2. ASSUME NEW w \in late, ApplyLate(w) \/ DropLate(w)
      PROVE  IInv'
  <2>1. /\ remote' \in [Items -> Payload]
        /\ late' \subseteq Write
        /\ UNCHANGED <<userState, item, server, outbox, phase, delivery>>
    BY <1>2 DEF ApplyLate, DropLate, TypeOK, Write
  <2>2. TypeOK'
    BY <2>1 DEF TypeOK
  <2> QED
    BY <2>1, <2>2 DEF LeaseHolderIsCurrent
<1> QED
  BY <1>1, <1>2 DEF EnvironmentStep

\* The invariant is inductive.
LEMMA NextIInv == IInv /\ [Next]_vars => IInv'
<1> SUFFICES ASSUME IInv, [Next]_vars PROVE IInv'
  OBVIOUS
<1>1. CASE UNCHANGED vars
  BY <1>1 DEF IInv, TypeOK, LeaseHolderIsCurrent, vars
<1>2. CASE Next
  BY <1>2, LocalStepIInv, ConfigurationStepIInv, RunStepIInv,
     EnvironmentStepIInv DEF Next
<1> QED
  BY <1>1, <1>2

\* The inductive invariant holds in every reachable state.
LEMMA Invariance == Spec => []IInv
  BY InitIInv, NextIInv, PTL DEF Spec

-----------------------------------------------------------------------------
(* Theorems                                                                *)

\* Every variable keeps its type.
THEOREM TypeCorrect == Spec => []TypeOK
  BY Invariance, PTL DEF IInv

\* However writes, observations, merges, cancellations and maintenance
\* interleave, an eligible row carries the latest state of its canonical
\* (syncOutboxTargets, runMaintenanceBatch).
THEOREM RowsFollowState == Spec => []RowFollowsState
<1>1. IInv => RowFollowsState
  BY DEF IInv, RowsAreRight, RowIsRight, RowFollowsState
<1> QED
  BY <1>1, Invariance, PTL

\* A run that holds the lease of a row holds that row's revision, generation
\* and payload (claimOutboxTargets, upsertOutboxTarget).
THEOREM LeaseHoldersAreCurrent == Spec => []LeaseHolderIsCurrent
  BY Invariance, PTL DEF IInv

\* The rows of the outbox are sound through any sequence of writes, edits,
\* merges, maintenance runs and late answers (syncOutboxTargets,
\* runMaintenanceBatch, claimOutboxTargets): the three theorems together.
THEOREM RowsStaySound == Spec => []RowsAreSound
  BY TypeCorrect, RowsFollowState, LeaseHoldersAreCurrent, PTL DEF RowsAreSound

\* Nothing but the latest canonical state is ever acknowledged, at the current
\* generation of the server it was sent to (acknowledgeOutboxTarget).
THEOREM AcknowledgementsAreLatest == Spec => AcknowledgesLatest
<1> DEFINE Latest ==
        \A i \in Items : outbox'[i].delivered # outbox[i].delivered =>
          LET state == userState[item[i].canonical]
          IN /\ outbox'[i].delivered = state.revision
             /\ \E r \in Runs :
                  /\ delivery[r][i].at = "succeeded"
                  /\ delivery[r][i].payload = state.payload
                  /\ delivery[r][i].generation = server[ServerOf[i]].generation
<1>1. IInv /\ [Next]_vars => [Latest]_vars
  <2> SUFFICES ASSUME IInv, Next PROVE Latest
    BY DEF Next
  <2>1. ASSUME \A i \in Items : Respects(outbox[i], outbox'[i])
        PROVE  Latest
    BY <2>1 DEF IInv, Respects
  <2>2. ASSUME NEW r \in Runs, NEW i \in Items, FiberStep(r, i)
        PROVE  Latest
    <3> SUFFICES ASSUME NEW j \in Items,
                        outbox'[j].delivered # outbox[j].delivered
                 PROVE  LET state == userState[item[j].canonical]
                        IN /\ outbox'[j].delivered = state.revision
                           /\ \E q \in Runs :
                                /\ delivery[q][j].at = "succeeded"
                                /\ delivery[q][j].payload = state.payload
                                /\ delivery[q][j].generation =
                                     server[ServerOf[j]].generation
      OBVIOUS
    <3>1. /\ j = i
          /\ delivery[r][j].at = "succeeded"
          /\ MayTouchServer(r, j)
          /\ outbox'[j].delivered = delivery[r][j].desired
      BY <2>2, FiberStepRow DEF IInv
    <3>2. /\ outbox[j].owner = r
          /\ outbox[j].status = "eligible"
          /\ outbox[j].desired = delivery[r][j].desired
          /\ server[ServerOf[j]].generation = delivery[r][j].generation
      BY <3>1 DEF MayTouchServer, OwnsLease
    <3>3. delivery[r][j].payload = outbox[j].payload
      BY <3>1, <3>2 DEF IInv, LeaseHolderIsCurrent
    <3>4. LET state == userState[item[j].canonical]
          IN outbox[j].desired = state.revision /\ outbox[j].payload = state.payload
      BY <3>2 DEF IInv, RowsAreRight, RowIsRight
    <3> QED
      BY <3>1, <3>2, <3>3, <3>4
  <2>3. ASSUME \A i \in Items : outbox'[i].delivered = outbox[i].delivered
        PROVE  Latest
    BY <2>3
  <2>4. CASE LocalStep
    <3> DEFINE Respectful == \A i \in Items : Respects(outbox[i], outbox'[i])
    <3>1. TypeOK
      BY DEF IInv
    <3>2. ASSUME NEW c \in Canonicals, NEW p \in Payloads, WriteUserState(c, p)
          PROVE  Respectful
      <4> DEFINE state == [revision |-> userState[c].revision + 1, payload |-> p]
      <4>1. state \in State /\ outbox \in Rows /\ item \in SourceItems
        BY <3>1 DEF TypeOK, State, Payload, Rows, SourceItems
      <4>2. outbox' = SyncOutboxTargets(outbox, item, c, state)
        BY <3>2 DEF WriteUserState
      <4> HIDE DEF state
      <4> QED
        BY <4>1, <4>2, SyncEffect
    <3>3. ASSUME NEW i \in Items, ResolveIdentity(i)
          PROVE  Respectful
      <4> DEFINE g == server[ServerOf[i]].generation
      <4>1. item' = [item EXCEPT ![i].generation = g]
        BY <3>3 DEF ResolveIdentity
      <4>2. g \in Nat
        BY <3>1, ServerOfAssumption DEF TypeOK, Server
      <4> HIDE DEF g
      <4>3. item[i].canonical \in Canonicals /\ item' \in SourceItems
        BY <3>1, <4>1, <4>2 DEF TypeOK, SourceItems, SourceItem
      <4>4. outbox \in Rows /\ userState \in [Canonicals -> State]
        BY <3>1 DEF TypeOK, Rows
      <4>5. outbox' = SyncExistingState(outbox, item', item[i].canonical,
                                        userState[item[i].canonical])
        BY <3>3 DEF ResolveIdentity
      <4> QED
        BY <4>3, <4>4, <4>5, SyncExistingEffect
    <3>4. ASSUME NEW i \in Items, NEW survivor \in Canonicals,
                 NEW retired \in Canonicals,
                 MergeCanonicals(i, survivor, retired)
          PROVE  Respectful
      BY <3>1, <3>4, MergeEffect
    <3> QED
      BY <2>1, <2>4, <3>2, <3>3, <3>4 DEF LocalStep
  <2>5. CASE ConfigurationStep
    BY <2>3, <2>5 DEF ConfigurationStep, UpdateServer, DeleteServer,
                      AuthenticateServer, RebindLibrary
  <2>6. ASSUME NEW r \in Runs, RunStep(r)
        PROVE  Latest
    <3>1. CASE RunMaintenanceBatch(r)
      BY <2>1, <3>1, BatchEffect DEF RunMaintenanceBatch, IInv
    <3>2. CASE ClaimOutboxTargets(r)
      <4>1. ASSUME NEW i \in Items
            PROVE  outbox'[i].delivered = outbox[i].delivered
        BY <3>2 DEF ClaimOutboxTargets, ReleaseExpired, IInv, TypeOK, Row
      <4> QED
        BY <2>3, <4>1
    <3>3. CASE StopRun(r)
      BY <2>3, <3>3 DEF StopRun
    <3>4. CASE \E i \in Items : FiberStep(r, i)
      BY <2>2, <3>4
    <3> QED
      BY <2>6, <3>1, <3>2, <3>3, <3>4 DEF RunStep
  <2>7. CASE EnvironmentStep
    <3>1. ASSUME NEW i \in Items, LeaseExpires(i) \/ BecomesDue(i),
                 NEW j \in Items
          PROVE  outbox'[j].delivered = outbox[j].delivered
      BY <3>1 DEF LeaseExpires, BecomesDue, IInv, TypeOK, Row
    <3>2. CASE UNCHANGED outbox
      BY <2>3, <3>2
    <3> QED
      BY <2>3, <2>7, <3>1, <3>2 DEF EnvironmentStep, ApplyLate, DropLate
  <2> QED
    BY <2>4, <2>5, <2>6, <2>7 DEF Next
<1> QED
  BY <1>1, Invariance, PTL DEF Spec, AcknowledgesLatest

-----------------------------------------------------------------------------
(* What rewriting a row never takes back                                   *)

\* A row stays behind the state of its canonical or has caught up with it, and
\* has delivered no more than it desires; an absent row holds nothing.
Ordered(row, state) ==
    IF row.status = "absent"
    THEN row.owner = NoRun /\ ~row.uncertain
    ELSE /\ row.delivered <= row.desired
         /\ row.desired <= state.revision
         /\ row.desired = state.revision => row.payload = state.payload

\* Rewriting a row gives no lease away, and neither lowers the desired revision
\* nor touches what was delivered nor clears a doubt; a row never disappears.
Advances(row, new) ==
    /\ new.owner \in {NoRun, row.owner}
    /\ row.uncertain => new.uncertain
    /\ IF row.status = "absent"
       THEN new.status # "absent" => new.delivered < new.desired
       ELSE /\ new.status # "absent"
            /\ new.delivered = row.delivered
            /\ new.desired >= row.desired
            /\ new.desired = row.desired => new.payload = row.payload

\* An attempt that loses its lease after it was dispatched leaves a doubt.
Remembers(row, new) ==
    \/ /\ new.owner = row.owner
       /\ new.dispatched = row.dispatched
       /\ new.desired = row.desired
    \/ /\ new.owner = NoRun
       /\ row.owner # NoRun /\ row.dispatched => new.uncertain

\* The row was enqueued for a target that is still eligible.
Lasts(row, i, items) ==
    row.status # "absent" =>
        /\ row.status = "eligible"
        /\ row.canonical = items[i].canonical
        /\ EligibleTarget(items, i)

\* One rewriting after another is a rewriting.
LEMMA AdvancesTwice ==
    ASSUME NEW row \in Row, NEW kept \in Row, NEW new \in Row,
           Advances(row, kept), Advances(kept, new)
    PROVE  /\ Advances(row, new)
           /\ Remembers(row, kept) /\ Remembers(kept, new)
                => Remembers(row, new)
<1>1. Advances(row, new)
  BY NoRunAssumption DEF Advances, Row
<1>2. Remembers(row, kept) /\ Remembers(kept, new) => Remembers(row, new)
  BY DEF Advances, Remembers, Row
<1> QED
  BY <1>1, <1>2

\* What upsertOutboxTarget does to a row that is not ahead of the state.
LEMMA UpsertAdvances ==
    ASSUME NEW row \in Row, NEW c \in Canonicals, NEW generation \in Nat,
           NEW state \in State, state.revision > 0, Ordered(row, state)
    PROVE  LET new == UpsertOutboxTarget(row, c, generation, state)
           IN /\ Advances(row, new)
              /\ Ordered(new, state)
              /\ Remembers(row, new)
<1> DEFINE new == UpsertOutboxTarget(row, c, generation, state)
<1>1. CASE row.status = "absent"
  <2>1. /\ new.status = "eligible"
        /\ new.owner = NoRun
        /\ new.delivered = 0
        /\ new.desired = state.revision
        /\ new.payload = state.payload
    BY <1>1 DEF UpsertOutboxTarget, AbsentRow
  <2> QED
    BY <1>1, <2>1 DEF Ordered, Advances, Remembers, State
<1>2. CASE row.status # "absent"
  <2>1. /\ new.status = "eligible"
        /\ new.delivered = row.delivered
        /\ new.desired = state.revision
        /\ new.payload = state.payload
        /\ row.uncertain => new.uncertain
        /\ \/ /\ new.owner = row.owner
              /\ new.dispatched = row.dispatched
           \/ /\ new.owner = NoRun
              /\ row.owner # NoRun /\ row.dispatched => new.uncertain
    BY <1>2 DEF UpsertOutboxTarget, Row
  <2>2. \/ new.desired = row.desired /\ new.owner = row.owner
           /\ new.dispatched = row.dispatched
        \/ /\ new.owner = NoRun
           /\ row.owner # NoRun /\ row.dispatched => new.uncertain
    BY <1>2 DEF UpsertOutboxTarget, Row
  <2> HIDE DEF new
  <2>3. Advances(row, new) /\ Ordered(new, state) /\ Remembers(row, new)
    BY <1>2, <2>1, <2>2 DEF Ordered, Advances, Remembers, State, Row
  <2> QED
    BY <2>3 DEF new
<1> QED
  BY <1>1, <1>2

\* What cancelling does to a row.
LEMMA CancelAdvances ==
    ASSUME NEW row \in Row, row.status # "absent"
    PROVE  /\ Advances(row, Cancel(row))
           /\ \A state \in State : Ordered(row, state) => Ordered(Cancel(row), state)
  BY DEF Cancel, Row, Advances, Ordered

\* A row that is left alone.
LEMMA SameAdvances ==
    ASSUME NEW row \in Row
    PROVE  Advances(row, row) /\ Remembers(row, row)
  BY DEF Row, Advances, Remembers

\* What syncOutboxTargets does to the rows, each one not ahead of the state if
\* it is of the canonical: it also never cancels a row whose target lasts.
LEMMA SyncAdvances ==
    ASSUME NEW rows \in Rows, NEW items \in SourceItems, NEW c \in Canonicals,
           NEW state \in State, state.revision > 0,
           NEW i \in Items, rows[i].canonical = items[i].canonical,
           items[i].canonical = c => Ordered(rows[i], state)
    PROVE  LET new == SyncOutboxTargets(rows, items, c, state)
           IN /\ Advances(rows[i], new[i])
              /\ items[i].canonical = c => Ordered(new[i], state)
              /\ items[i].canonical # c => new[i] = rows[i]
              /\ Lasts(rows[i], i, items) =>
                   Remembers(rows[i], new[i]) /\ Lasts(new[i], i, items)
<1> DEFINE new == SyncOutboxTargets(rows, items, c, state)
           target == items[i].canonical = c /\ EligibleTarget(items, i)
           lost == rows[i].status = "eligible" /\ rows[i].canonical = c
                   /\ ~target
           kept == IF lost THEN Cancel(rows[i]) ELSE rows[i]
<1>1. new[i] = IF target
               THEN UpsertOutboxTarget(kept, c, items[i].generation, state)
               ELSE kept
  BY DEF SyncOutboxTargets
<1>2. rows[i] \in Row /\ items[i].generation \in Nat
  BY DEF Rows, SourceItems, SourceItem
<1> HIDE DEF new
<1>3. CASE target
  <2>1. new[i] = UpsertOutboxTarget(rows[i], c, items[i].generation, state)
    BY <1>1, <1>3
  <2>2. /\ new[i].status = "eligible"
        /\ new[i].canonical = c
    BY <1>2, <2>1, UpsertEffect
  <2>3. Lasts(new[i], i, items)
    BY <1>3, <2>2 DEF Lasts
  <2> QED
    BY <1>2, <1>3, <2>1, <2>3, UpsertAdvances DEF new
<1>4. CASE ~target /\ lost
  <2>1. new[i] = Cancel(rows[i]) /\ items[i].canonical = c
    BY <1>1, <1>4
  <2>2. ~Lasts(rows[i], i, items)
    BY <1>4 DEF Lasts
  <2> QED
    BY <1>2, <1>4, <2>1, <2>2, CancelAdvances DEF new
<1>5. CASE ~target /\ ~lost
  <2>1. new[i] = rows[i]
    BY <1>1, <1>5
  <2> QED
    BY <1>2, <1>5, <2>1, SameAdvances DEF new
<1> QED
  BY <1>3, <1>4, <1>5

RowsAreOrdered(rows, items, states) ==
    \A i \in Items : Ordered(rows[i], states[items[i].canonical])

\* What happens to all rows when those of one canonical are synchronised with
\* its state.
RowsAdvance(rows, new, items) ==
    \A i \in Items :
        /\ Advances(rows[i], new[i])
        /\ Lasts(rows[i], i, items) =>
             Remembers(rows[i], new[i]) /\ Lasts(new[i], i, items)

LEMMA SyncExistingAdvances ==
    ASSUME NEW rows \in Rows, NEW items \in SourceItems, NEW c \in Canonicals,
           NEW states \in [Canonicals -> State],
           \A i \in Items : rows[i].canonical = items[i].canonical,
           RowsAreOrdered(rows, items, states)
    PROVE  LET new == SyncExistingState(rows, items, c, states[c])
           IN RowsAdvance(rows, new, items) /\ RowsAreOrdered(new, items, states)
<1> DEFINE new == SyncExistingState(rows, items, c, states[c])
<1>1. states[c] \in State
  OBVIOUS
<1>2. CASE states[c].revision = 0
  <2>1. new = rows
    BY <1>2 DEF SyncExistingState
  <2>2. \A i \in Items : rows[i] \in Row
    BY DEF Rows
  <2> QED
    BY <2>1, <2>2, SameAdvances DEF RowsAdvance
<1>3. CASE states[c].revision # 0
  <2>1. new = SyncOutboxTargets(rows, items, c, states[c])
    BY <1>3 DEF SyncExistingState
  <2>2. states[c].revision > 0
    BY <1>1, <1>3 DEF State
  <2> HIDE DEF new
  <2>3. ASSUME NEW i \in Items
        PROVE  /\ Advances(rows[i], new[i])
               /\ items[i].canonical = c => Ordered(new[i], states[c])
               /\ items[i].canonical # c => new[i] = rows[i]
               /\ Lasts(rows[i], i, items) =>
                    Remembers(rows[i], new[i]) /\ Lasts(new[i], i, items)
    BY <1>1, <2>1, <2>2, SyncAdvances DEF RowsAreOrdered
  <2> QED
    BY <2>3 DEF RowsAdvance, RowsAreOrdered, new
<1> QED
  BY <1>2, <1>3

\* One row through the three statements of runMaintenanceBatch.
LEMMA BatchAdvances ==
    ASSUME TypeOK, RowsAreOrdered(outbox, item, userState)
    PROVE  LET new == CreateMissing(CancelIneligible(ReleaseExpired(outbox)))
           IN RowsAdvance(outbox, new, item) /\ RowsAreOrdered(new, item, userState)
<1> DEFINE released == ReleaseExpired(outbox)
           cancelled == CancelIneligible(released)
           new == CreateMissing(cancelled)
<1>1. ASSUME NEW i \in Items
      PROVE  /\ Advances(outbox[i], new[i])
             /\ Ordered(new[i], userState[item[i].canonical])
             /\ Lasts(outbox[i], i, item) =>
                  Remembers(outbox[i], new[i]) /\ Lasts(new[i], i, item)
  <2> DEFINE c == item[i].canonical
             s == userState[c]
  <2>1. /\ outbox[i] \in Row
        /\ c \in Canonicals
        /\ item[i].generation \in Nat
        /\ s \in State
    BY DEF TypeOK, SourceItem
  <2>2. Ordered(outbox[i], s)
    BY DEF RowsAreOrdered
  <2>3. /\ released[i] \in Row
        /\ Advances(outbox[i], released[i])
        /\ Remembers(outbox[i], released[i])
        /\ Ordered(released[i], s)
        /\ released[i].status = outbox[i].status
        /\ released[i].canonical = outbox[i].canonical
    <3>1. CASE outbox[i].owner # NoRun /\ outbox[i].expired
      <4>1. PICK over \in BOOLEAN : over = (outbox[i].uncertain \/ outbox[i].dispatched)
        OBVIOUS
      <4>2. released[i] = [outbox[i] EXCEPT
                             !.uncertain = over,
                             !.due = TRUE, !.owner = NoRun, !.expired = FALSE,
                             !.dispatched = FALSE]
        BY <3>1, <4>1 DEF ReleaseExpired
      <4> HIDE DEF released
      <4>3. /\ released[i] \in Row
            /\ released[i].owner = NoRun
            /\ released[i].uncertain = over
            /\ released[i].status = outbox[i].status
            /\ released[i].canonical = outbox[i].canonical
            /\ released[i].desired = outbox[i].desired
            /\ released[i].delivered = outbox[i].delivered
            /\ released[i].payload = outbox[i].payload
        BY <2>1, <4>2 DEF Row
      <4> QED
        BY <2>1, <2>2, <3>1, <4>1, <4>3 DEF Advances, Remembers, Ordered, Row
    <3>2. CASE ~(outbox[i].owner # NoRun /\ outbox[i].expired)
      <4>1. released[i] = outbox[i]
        BY <3>2 DEF ReleaseExpired
      <4> QED
        BY <2>1, <2>2, <4>1, SameAdvances
    <3> QED
      BY <3>1, <3>2
  <2>4. \/ cancelled[i] = released[i]
        \/ /\ cancelled[i] = Cancel(released[i])
           /\ released[i].status # "absent"
           /\ ~Lasts(released[i], i, item)
    BY DEF CancelIneligible, Lasts
  <2>5. \/ new[i] = cancelled[i]
        \/ /\ s.revision > 0
           /\ EligibleTarget(item, i)
           /\ new[i] = UpsertOutboxTarget(cancelled[i], c, item[i].generation, s)
    BY DEF CreateMissing
  <2> HIDE DEF released, cancelled, new, c, s
  <2>6. /\ cancelled[i] \in Row
        /\ Advances(released[i], cancelled[i])
        /\ Ordered(cancelled[i], s)
        /\ Lasts(released[i], i, item) =>
             Remembers(released[i], cancelled[i]) /\ Lasts(cancelled[i], i, item)
    BY <2>1, <2>3, <2>4, SameAdvances, CancelAdvances, CancelEffect
  <2>7. /\ new[i] \in Row
        /\ Advances(cancelled[i], new[i])
        /\ Ordered(new[i], s)
        /\ Lasts(cancelled[i], i, item) =>
             Remembers(cancelled[i], new[i]) /\ Lasts(new[i], i, item)
    <3>1. CASE new[i] = cancelled[i]
      BY <2>6, <3>1, SameAdvances
    <3>2. CASE /\ s.revision > 0
               /\ EligibleTarget(item, i)
               /\ new[i] = UpsertOutboxTarget(cancelled[i], c, item[i].generation, s)
      <4>1. new[i].status = "eligible" /\ new[i].canonical = c
        BY <2>1, <2>6, <3>2, UpsertEffect
      <4>2. Lasts(new[i], i, item)
        BY <3>2, <4>1 DEF Lasts, c
      <4> QED
        BY <2>1, <2>6, <3>2, <4>2, UpsertAdvances, UpsertType
    <3> QED
      BY <2>5, <3>1, <3>2
  <2>8. Lasts(outbox[i], i, item) => Lasts(released[i], i, item)
    BY <2>3 DEF Lasts
  <2>9. /\ Advances(outbox[i], cancelled[i])
        /\ Lasts(outbox[i], i, item) =>
             Remembers(outbox[i], cancelled[i]) /\ Lasts(cancelled[i], i, item)
    BY <2>1, <2>3, <2>6, <2>8, AdvancesTwice
  <2>10. /\ Advances(outbox[i], new[i])
         /\ Lasts(outbox[i], i, item) =>
              Remembers(outbox[i], new[i]) /\ Lasts(new[i], i, item)
    BY <2>1, <2>6, <2>7, <2>9, AdvancesTwice
  <2> QED
    BY <2>7, <2>10 DEF c, s
<1> HIDE DEF new
<1>2. RowsAdvance(outbox, new, item) /\ RowsAreOrdered(new, item, userState)
  BY <1>1 DEF RowsAdvance, RowsAreOrdered
<1> QED
  BY <1>2 DEF new

\* resolveIdentity with a merge: whichever state survives, no row is ahead of it.
LEMMA MergeAdvances ==
    ASSUME TypeOK, ~EqualRevisionMerge,
           RowsAreRight(outbox, item, userState),
           RowsAreOrdered(outbox, item, userState),
           NEW i \in Items, NEW survivor \in Canonicals,
           NEW retired \in Canonicals,
           MergeCanonicals(i, survivor, retired)
    PROVE  /\ RowsAreOrdered(outbox', item', userState')
           /\ \A j \in Items :
                /\ Advances(outbox[j], outbox'[j])
                /\ Lasts(outbox[j], j, item) =>
                     Remembers(outbox[j], outbox'[j]) /\ Lasts(outbox'[j], j, item')
                /\ item'[j].bound = item[j].bound
<1> DEFINE g == server[ServerOf[i]].generation
           moved == [j \in Items |->
                       IF item[j].canonical = retired
                       THEN [item[j] EXCEPT !.canonical = survivor]
                       ELSE item[j]]
           rows == MoveRows(survivor, retired)
<1>1. /\ survivor # retired
      /\ item' = [moved EXCEPT ![i].generation = g]
      /\ \/ userState[survivor] = userState[retired]
         \/ userState[survivor].revision # userState[retired].revision
  BY DEF MergeCanonicals, MayJoin
<1>2. g \in Nat
  BY ServerOfAssumption DEF TypeOK, Server
<1>3. PICK state \in Survivors(survivor, retired) :
        /\ userState' = [userState EXCEPT
                           ![survivor] = state,
                           ![retired] = [revision |-> 0,
                                         payload |-> NoPayload]]
        /\ outbox' = SyncExistingState(rows, item', survivor, state)
  BY <1>1 DEF MergeCanonicals
<1>4. /\ state \in State
      /\ state.revision >= userState[survivor].revision
      /\ state.revision >= userState[retired].revision
      /\ state \in {userState[survivor], userState[retired]}
  BY <1>3 DEF Survivors, TypeOK
<1>5. userState' \in [Canonicals -> State] /\ userState'[survivor] = state
  BY <1>1, <1>3, <1>4 DEF TypeOK, State, Payload
<1>6. ASSUME NEW j \in Items
      PROVE  /\ item'[j] \in SourceItem
             /\ item'[j].canonical = IF item[j].canonical = retired
                                     THEN survivor ELSE item[j].canonical
             /\ item'[j].bound = item[j].bound
             /\ item'[j].generation = IF j = i THEN g ELSE item[j].generation
  BY <1>1, <1>2 DEF TypeOK, SourceItem
<1>7. item' \in SourceItems
  <2>1. item' = [j \in Items |-> item'[j]]
    BY <1>1
  <2> QED
    BY <1>6, <2>1 DEF SourceItems
<1>8. ASSUME NEW j \in Items
      PROVE  /\ rows[j] \in Row
             /\ Advances(outbox[j], rows[j])
             /\ Remembers(outbox[j], rows[j])
             /\ rows[j].canonical = IF outbox[j].canonical = retired
                                    THEN survivor ELSE outbox[j].canonical
             /\ rows[j].status = outbox[j].status
             /\ \A s \in State : Ordered(outbox[j], s) => Ordered(rows[j], s)
  <2>1. outbox[j] \in Row
    BY DEF TypeOK
  <2> QED
    BY <2>1 DEF MoveRows, Row, Advances, Remembers, Ordered
<1>9. rows \in Rows
  <2>1. rows = [j \in Items |-> rows[j]]
    BY DEF MoveRows
  <2> QED
    BY <1>8, <2>1 DEF Rows
<1>10. g = server[ServerOf[i]].generation
  OBVIOUS
<1> HIDE DEF g, moved, rows
<1>11. ASSUME NEW j \in Items
       PROVE  /\ rows[j].canonical = item'[j].canonical
              /\ Lasts(outbox[j], j, item) => Lasts(rows[j], j, item')
  <2>1. outbox[j].canonical = item[j].canonical
    BY DEF RowsAreRight, RowIsRight
  <2> QED
    BY <1>6, <1>8, <1>10, <2>1 DEF Lasts, EligibleTarget
<1>12. ASSUME NEW j \in Items
       PROVE  Ordered(rows[j], userState'[item'[j].canonical])
  <2> DEFINE c == item[j].canonical
  <2>1. /\ c \in Canonicals
        /\ outbox[j] \in Row
        /\ userState[c] \in State
        /\ Ordered(outbox[j], userState[c])
    BY DEF TypeOK, SourceItem, RowsAreOrdered
  <2>2. CASE c \in {survivor, retired}
    <3>1. item'[j].canonical = survivor
      BY <1>6, <2>2
    <3>2. \/ state.revision > userState[c].revision
          \/ state = userState[c]
      <4>1. userState[survivor] \in State /\ userState[retired] \in State
        BY DEF TypeOK
      <4>2. CASE state = userState[c]
        BY <4>2
      <4>3. CASE state # userState[c]
        <5>1. state.revision # userState[c].revision
          BY <1>1, <1>4, <2>2, <4>3
        <5>2. state.revision >= userState[c].revision
          BY <1>4, <2>2
        <5>3. state.revision \in Nat /\ userState[c].revision \in Nat
          BY <1>4, <2>1 DEF State
        <5> QED
          BY <5>1, <5>2, <5>3
      <4> QED
        BY <4>2, <4>3
    <3>3. Ordered(outbox[j], state)
      BY <1>4, <2>1, <3>2 DEF Ordered, State, Row
    <3> QED
      BY <1>4, <1>5, <1>8, <3>1, <3>3
  <2>3. CASE c \notin {survivor, retired}
    <3>1. item'[j].canonical = c /\ userState'[c] = userState[c]
      BY <1>3, <1>6, <2>1, <2>3 DEF TypeOK
    <3> QED
      BY <1>8, <2>1, <3>1
  <2> QED
    BY <2>2, <2>3
<1>13. RowsAreOrdered(rows, item', userState')
  BY <1>12 DEF RowsAreOrdered
<1>14. /\ RowsAdvance(rows, outbox', item')
       /\ RowsAreOrdered(outbox', item', userState')
  BY <1>3, <1>5, <1>7, <1>9, <1>11, <1>13, SyncExistingAdvances
<1>15. outbox' \in Rows
  BY MergeEffect
<1>16. ASSUME NEW j \in Items
       PROVE  /\ Advances(outbox[j], outbox'[j])
              /\ Lasts(outbox[j], j, item) =>
                   Remembers(outbox[j], outbox'[j]) /\ Lasts(outbox'[j], j, item')
  <2>1. /\ outbox[j] \in Row
        /\ outbox'[j] \in Row
        /\ Advances(rows[j], outbox'[j])
        /\ Lasts(rows[j], j, item') =>
             Remembers(rows[j], outbox'[j]) /\ Lasts(outbox'[j], j, item')
    BY <1>14, <1>15 DEF TypeOK, Rows, RowsAdvance
  <2> QED
    BY <1>8, <1>11, <2>1, AdvancesTwice
<1> QED
  BY <1>6, <1>14, <1>16

-----------------------------------------------------------------------------
(* The order of revisions                                                  *)

\* A fiber carries the desired state of its row, or an older one.
FiberIsOrdered(fiber, row) ==
    fiber.at # "none" =>
        /\ row.status # "absent"
        /\ fiber.desired <= row.desired
        /\ fiber.desired = row.desired => fiber.payload = row.payload

\* IInv, and what revisions, fibers and late writes have to do with each other.
OrderInv ==
    /\ IInv
    /\ RowsAreOrdered(outbox, item, userState)
    /\ \A r \in Runs : phase[r] = "swept" =>
         \A i \in Items : delivery[r][i].at = "none"
    /\ \A r \in Runs, i \in Items : FiberIsOrdered(delivery[r][i], outbox[i])
    /\ \A w \in late : outbox[w.item].status # "absent"

Deleted(i) == server[ServerOf[i]].status = "deleted"

\* No target loses its eligibility: no server edit and no library edit.
Lasting == MaxGeneration = 1 /\ ~CanUnbind

TargetsLast ==
    /\ \A s \in Servers : server[s].generation = 1 /\ server[s].status = "enabled"
    /\ \A i \in Items : item[i].bound /\ Lasts(outbox[i], i, item)

\* The steps that concern rows and their targets, but no fiber and no upstream.
RewritingStep ==
    \/ LocalStep
    \/ ConfigurationStep
    \/ \E r \in Runs : RunMaintenanceBatch(r)
    \/ \E i \in Items : LeaseExpires(i) \/ BecomesDue(i)

\* What they all do: rows advance, in order, and a server that was deleted
\* stays so; rows whose targets last also remember their attempts.
Rewrites ==
    /\ UNCHANGED <<delivery, remote, late>>
    /\ RowsAreOrdered(outbox', item', userState')
    /\ \A r \in Runs : phase'[r] = "swept" =>
         \A i \in Items : delivery[r][i].at = "none"
    /\ \A i \in Items : Advances(outbox[i], outbox'[i])
    /\ \A s \in Servers : server[s].status = "deleted" =>
                            server'[s].status = "deleted"
    /\ Lasting /\ TargetsLast =>
         TargetsLast' /\ \A i \in Items : Remembers(outbox[i], outbox'[i])

\* Writes, observations and merges.
LEMMA LocalRewrites ==
    ASSUME OrderInv, ~EqualRevisionMerge, LocalStep
    PROVE  Rewrites
<1> USE DEF OrderInv, IInv
<1>1. /\ outbox \in Rows
      /\ item \in SourceItems
      /\ userState \in [Canonicals -> State]
      /\ \A j \in Items : outbox[j].canonical = item[j].canonical
  BY DEF TypeOK, Rows, SourceItems, RowsAreRight, RowIsRight
<1>2. ASSUME UNCHANGED <<server, phase, delivery, remote, late>>,
             RowsAreOrdered(outbox', item', userState'),
             \A j \in Items :
               /\ Advances(outbox[j], outbox'[j])
               /\ item'[j].bound = item[j].bound
               /\ Lasting /\ TargetsLast /\ Lasts(outbox[j], j, item) =>
                    Remembers(outbox[j], outbox'[j]) /\ Lasts(outbox'[j], j, item')
      PROVE  Rewrites
  <2>1. ASSUME Lasting, TargetsLast
        PROVE  TargetsLast' /\ \A i \in Items : Remembers(outbox[i], outbox'[i])
    <3>1. \A j \in Items :
            /\ item'[j].bound
            /\ Remembers(outbox[j], outbox'[j])
            /\ Lasts(outbox'[j], j, item')
      BY <1>2, <2>1 DEF TargetsLast
    <3> QED
      BY <1>2, <2>1, <3>1 DEF TargetsLast, Lasts, EligibleTarget
  <2> QED
    BY <1>2, <2>1 DEF Rewrites
<1>3. ASSUME NEW c \in Canonicals, NEW p \in Payloads, WriteUserState(c, p)
      PROVE  Rewrites
  <2> DEFINE state == [revision |-> userState[c].revision + 1, payload |-> p]
  <2>1. /\ state \in State
        /\ state.revision = userState[c].revision + 1
        /\ state.revision > 0
        /\ userState[c].revision \in Nat
        /\ userState' = [userState EXCEPT ![c] = state]
        /\ outbox' = SyncOutboxTargets(outbox, item, c, state)
        /\ UNCHANGED <<item, server, phase, delivery, remote, late>>
    BY <1>3 DEF WriteUserState, TypeOK, State, Payload
  <2> HIDE DEF state, OrderInv, IInv
  <2>2. ASSUME NEW j \in Items
        PROVE  /\ Advances(outbox[j], outbox'[j])
               /\ Ordered(outbox'[j], userState'[item[j].canonical])
               /\ Lasts(outbox[j], j, item) =>
                    Remembers(outbox[j], outbox'[j]) /\ Lasts(outbox'[j], j, item)
    <3>1. Ordered(outbox[j], userState[item[j].canonical])
      BY DEF OrderInv, RowsAreOrdered
    <3>2. item[j].canonical = c => Ordered(outbox[j], state)
      BY <1>1, <2>1, <3>1 DEF Ordered, Rows, Row
    <3>3. /\ Advances(outbox[j], outbox'[j])
          /\ item[j].canonical = c => Ordered(outbox'[j], state)
          /\ item[j].canonical # c => outbox'[j] = outbox[j]
          /\ Lasts(outbox[j], j, item) =>
               Remembers(outbox[j], outbox'[j]) /\ Lasts(outbox'[j], j, item)
      BY <1>1, <2>1, <3>2, SyncAdvances
    <3>4. userState'[item[j].canonical] = IF item[j].canonical = c THEN state
                                          ELSE userState[item[j].canonical]
      BY <1>1, <2>1 DEF SourceItems, SourceItem
    <3> QED
      BY <3>1, <3>3, <3>4
  <2>3. RowsAreOrdered(outbox', item', userState')
    BY <2>1, <2>2 DEF RowsAreOrdered
  <2> QED
    BY <1>2, <2>1, <2>2, <2>3
<1>4. ASSUME NEW i \in Items, ResolveIdentity(i)
      PROVE  Rewrites
  <2> DEFINE g == server[ServerOf[i]].generation
             c == item[i].canonical
  <2>1. /\ item' = [item EXCEPT ![i].generation = g]
        /\ outbox' = SyncExistingState(outbox, item', c, userState[c])
        /\ UNCHANGED <<userState, server, phase, delivery, remote, late>>
    BY <1>4 DEF ResolveIdentity
  <2>2. g \in Nat /\ c \in Canonicals
    BY ServerOfAssumption DEF TypeOK, Server, SourceItem
  <2>3. g = server[ServerOf[i]].generation
    OBVIOUS
  <2> HIDE DEF g, c, OrderInv, IInv
  <2>4. /\ item' \in SourceItems
        /\ \A j \in Items :
             /\ item'[j].canonical = item[j].canonical
             /\ item'[j].bound = item[j].bound
             /\ item'[j].generation = IF j = i THEN g ELSE item[j].generation
    <3>1. \A j \in Items : item[j] \in SourceItem
      BY <1>1 DEF SourceItems
    <3>2. [item[i] EXCEPT !.generation = g] \in SourceItem
      BY <2>2, <3>1 DEF SourceItem
    <3>3. item' = [item EXCEPT ![i] = [item[i] EXCEPT !.generation = g]]
      BY <2>1
    <3>4. item' \in SourceItems
      BY <1>1, <3>2, <3>3 DEF SourceItems
    <3>5. \A j \in Items :
            item'[j] = IF j = i THEN [item[i] EXCEPT !.generation = g] ELSE item[j]
      BY <1>1, <3>3 DEF SourceItems
    <3> QED
      BY <3>1, <3>4, <3>5 DEF SourceItem
  <2>5. RowsAreOrdered(outbox, item', userState)
    BY <2>4 DEF OrderInv, RowsAreOrdered
  <2>6. /\ RowsAdvance(outbox, outbox', item')
        /\ RowsAreOrdered(outbox', item', userState)
    <3>1. \A j \in Items : outbox[j].canonical = item'[j].canonical
      BY <1>1, <2>4
    <3>2. /\ RowsAdvance(outbox, SyncExistingState(outbox, item', c, userState[c]), item')
          /\ RowsAreOrdered(SyncExistingState(outbox, item', c, userState[c]), item',
                            userState)
      BY <1>1, <2>2, <2>4, <2>5, <3>1, SyncExistingAdvances
    <3> QED
      BY <2>1, <3>2
  <2>7. ASSUME NEW j \in Items
        PROVE  Lasts(outbox[j], j, item) => Lasts(outbox[j], j, item')
    BY <2>3, <2>4 DEF Lasts, EligibleTarget
  <2>8. RowsAreOrdered(outbox', item', userState')
    BY <2>1, <2>6 DEF RowsAreOrdered
  <2>9. ASSUME NEW j \in Items
        PROVE  /\ Advances(outbox[j], outbox'[j])
               /\ Lasts(outbox[j], j, item) =>
                    Remembers(outbox[j], outbox'[j]) /\ Lasts(outbox'[j], j, item')
    BY <2>6, <2>7 DEF RowsAdvance
  <2> QED
    BY <1>2, <2>1, <2>4, <2>8, <2>9
<1>5. ASSUME NEW i \in Items, NEW survivor \in Canonicals,
             NEW retired \in Canonicals,
             MergeCanonicals(i, survivor, retired)
      PROVE  Rewrites
  <2>1. UNCHANGED <<server, phase, delivery, remote, late>>
    BY <1>5 DEF MergeCanonicals
  <2>2. /\ RowsAreOrdered(outbox', item', userState')
        /\ \A j \in Items :
             /\ Advances(outbox[j], outbox'[j])
             /\ Lasts(outbox[j], j, item) =>
                  Remembers(outbox[j], outbox'[j]) /\ Lasts(outbox'[j], j, item')
             /\ item'[j].bound = item[j].bound
    BY <1>5, MergeAdvances
  <2> QED
    BY <1>2, <2>1, <2>2
<1> QED
  BY <1>3, <1>4, <1>5 DEF LocalStep

\* Edits of servers and libraries: none of them happens where targets last.
LEMMA ConfigurationRewrites ==
    ASSUME OrderInv, ConfigurationStep
    PROVE  Rewrites
<1> USE DEF OrderInv, IInv
<1>1. \A i \in Items : Advances(outbox[i], outbox[i]) /\ Remembers(outbox[i], outbox[i])
  BY SameAdvances DEF TypeOK
<1>2. ASSUME NEW s \in Servers, NEW status \in {"enabled", "disabled", "deleted"},
             UpdateServer(s, status)
      PROVE  Rewrites
  <2>1. \A t \in Servers : server[t].status = "deleted" =>
                             server'[t].status = "deleted"
    BY <1>2 DEF UpdateServer, TypeOK
  <2>2. Lasting => ~TargetsLast
    BY <1>2 DEF UpdateServer, Lasting, TargetsLast
  <2> QED
    BY <1>1, <1>2, <2>1, <2>2 DEF UpdateServer, Rewrites, RowsAreOrdered
<1>3. ASSUME NEW s \in Servers, AuthenticateServer(s)
      PROVE  Rewrites
  <2>1. \A t \in Servers : /\ server'[t].status = server[t].status
                           /\ server'[t].generation = server[t].generation
    BY <1>3 DEF AuthenticateServer, TypeOK, Server
  <2>2. UNCHANGED <<userState, item, outbox, phase, delivery, remote, late>>
    BY <1>3 DEF AuthenticateServer
  <2>3. TargetsLast => TargetsLast'
    BY <2>1, <2>2, ServerOfAssumption DEF TargetsLast, Lasts, EligibleTarget
  <2> QED
    BY <1>1, <2>1, <2>2, <2>3 DEF Rewrites, RowsAreOrdered
<1>4. ASSUME NEW i \in Items, RebindLibrary(i)
      PROVE  Rewrites
  <2>1. \A j \in Items : item'[j].canonical = item[j].canonical
    BY <1>4 DEF RebindLibrary, TypeOK, SourceItem
  <2>2. ~Lasting
    BY <1>4 DEF RebindLibrary, Lasting
  <2>3. RowsAreOrdered(outbox', item', userState')
    BY <1>4, <2>1 DEF RebindLibrary, RowsAreOrdered
  <2> QED
    BY <1>1, <1>4, <2>2, <2>3 DEF RebindLibrary, Rewrites
<1> QED
  BY <1>2, <1>3, <1>4 DEF ConfigurationStep, DeleteServer

LEMMA RewritingStepRewrites ==
    ASSUME OrderInv, ~EqualRevisionMerge, RewritingStep
    PROVE  Rewrites
<1>1. CASE LocalStep
  BY <1>1, LocalRewrites
<1>2. CASE ConfigurationStep
  BY <1>2, ConfigurationRewrites
<1>3. ASSUME NEW r \in Runs, RunMaintenanceBatch(r)
      PROVE  Rewrites
  <2>1. /\ outbox' = CreateMissing(CancelIneligible(ReleaseExpired(outbox)))
        /\ UNCHANGED <<userState, item, server, delivery, remote, late>>
    BY <1>3 DEF RunMaintenanceBatch
  <2>2. RowsAdvance(outbox, outbox', item) /\ RowsAreOrdered(outbox', item, userState)
    BY <2>1, BatchAdvances DEF OrderInv, IInv
  <2>3. \A q \in Runs : phase'[q] = "swept" =>
          \A i \in Items : delivery[q][i].at = "none"
    BY <1>3 DEF RunMaintenanceBatch, Active, OrderInv, IInv, TypeOK
  <2>4. ASSUME TargetsLast
        PROVE  TargetsLast' /\ \A i \in Items : Remembers(outbox[i], outbox'[i])
    <3>1. \A j \in Items :
            Remembers(outbox[j], outbox'[j]) /\ Lasts(outbox'[j], j, item)
      BY <2>2, <2>4 DEF TargetsLast, RowsAdvance
    <3> QED
      BY <2>1, <2>4, <3>1 DEF TargetsLast, Lasts, EligibleTarget
  <2>5. RowsAreOrdered(outbox', item', userState')
    BY <2>1, <2>2 DEF RowsAreOrdered
  <2> QED
    BY <2>1, <2>2, <2>3, <2>4, <2>5 DEF Rewrites, RowsAdvance
<1>4. ASSUME NEW i \in Items, LeaseExpires(i) \/ BecomesDue(i)
      PROVE  Rewrites
  <2>1. outbox \in [Items -> Row]
    BY DEF OrderInv, IInv, TypeOK
  <2>2. /\ outbox' \in {[outbox EXCEPT ![i].expired = TRUE],
                        [outbox EXCEPT ![i].due = TRUE]}
        /\ UNCHANGED <<userState, item, server, phase, delivery, remote, late>>
    BY <1>4 DEF LeaseExpires, BecomesDue
  <2>3. ASSUME NEW j \in Items
        PROVE  /\ outbox'[j].status = outbox[j].status
               /\ outbox'[j].canonical = outbox[j].canonical
               /\ outbox'[j].desired = outbox[j].desired
               /\ outbox'[j].delivered = outbox[j].delivered
               /\ outbox'[j].payload = outbox[j].payload
               /\ outbox'[j].owner = outbox[j].owner
               /\ outbox'[j].dispatched = outbox[j].dispatched
               /\ outbox'[j].uncertain = outbox[j].uncertain
    BY <2>1, <2>2 DEF Row
  <2>4. ASSUME NEW j \in Items
        PROVE  /\ Advances(outbox[j], outbox'[j])
               /\ Remembers(outbox[j], outbox'[j])
               /\ Ordered(outbox'[j], userState[item[j].canonical])
    <3>1. Ordered(outbox[j], userState[item[j].canonical]) /\ outbox[j] \in Row
      BY <2>1 DEF OrderInv, RowsAreOrdered
    <3> QED
      BY <2>3, <3>1 DEF Advances, Remembers, Ordered, Row
  <2>5. RowsAreOrdered(outbox', item', userState')
    BY <2>2, <2>4 DEF RowsAreOrdered
  <2>6. TargetsLast => TargetsLast'
    BY <2>2, <2>3 DEF TargetsLast, Lasts, EligibleTarget
  <2> QED
    BY <2>2, <2>4, <2>5, <2>6 DEF Rewrites, OrderInv
<1> QED
  BY <1>1, <1>2, <1>3, <1>4 DEF RewritingStep

-----------------------------------------------------------------------------
(* The steps of runs and fibers, as far as the upstream is concerned       *)

\* claimOutboxTargets: a row is released, leased to the run or left alone, and
\* the fibers of other runs go on.
LEMMA ClaimEffect ==
    ASSUME OrderInv, NEW r \in Runs, ClaimOutboxTargets(r)
    PROVE  /\ UNCHANGED <<userState, item, server, remote, late>>
           /\ \A q \in Runs : phase'[q] = "swept" => q # r /\ phase[q] = "swept"
           /\ \A i \in Items :
                /\ delivery[r][i].at = "none"
                /\ \A q \in Runs \ {r} : delivery'[q][i] = delivery[q][i]
                /\ outbox'[i].status = outbox[i].status
                /\ outbox'[i].canonical = outbox[i].canonical
                /\ outbox'[i].desired = outbox[i].desired
                /\ outbox'[i].delivered = outbox[i].delivered
                /\ outbox'[i].payload = outbox[i].payload
                /\ outbox[i].uncertain => outbox'[i].uncertain
                /\ outbox[i].status = "absent" =>
                     outbox'[i].owner = NoRun /\ ~outbox'[i].uncertain
                /\ \/ /\ delivery'[r][i] = delivery[r][i]
                      /\ outbox'[i].owner \in {NoRun, outbox[i].owner}
                      /\ Remembers(outbox[i], outbox'[i])
                   \/ /\ delivery'[r][i].at = "claimed"
                      /\ delivery'[r][i].desired = outbox'[i].desired
                      /\ delivery'[r][i].payload = outbox'[i].payload
                      /\ outbox'[i].owner = r
                      /\ outbox[i].status = "eligible"
                      /\ outbox[i].owner # NoRun /\ outbox[i].dispatched
                           => outbox'[i].uncertain
<1> USE DEF OrderInv, IInv
<1> DEFINE rows == ReleaseExpired(outbox)
           leased(i) == [rows[i] EXCEPT !.owner = r, !.expired = FALSE,
                                        !.dispatched = FALSE]
           claim(i) == [at |-> "claimed",
                        desired |-> rows[i].desired,
                        generation |-> rows[i].generation,
                        payload |-> rows[i].payload]
<1>1. /\ outbox' = [i \in Items |->
                      IF Claimable(rows, i) THEN leased(i) ELSE rows[i]]
      /\ delivery' = [delivery EXCEPT
                        ![r] = [i \in Items |->
                          IF Claimable(rows, i) THEN claim(i)
                          ELSE delivery[r][i]]]
      /\ phase' = [phase EXCEPT ![r] = "idle"]
      /\ phase[r] = "swept"
      /\ UNCHANGED <<userState, item, server, remote, late>>
  BY DEF ClaimOutboxTargets
<1>2. ASSUME NEW i \in Items
      PROVE  /\ rows[i] \in Row
             /\ rows[i].status = outbox[i].status
             /\ rows[i].canonical = outbox[i].canonical
             /\ rows[i].desired = outbox[i].desired
             /\ rows[i].delivered = outbox[i].delivered
             /\ rows[i].payload = outbox[i].payload
             /\ outbox[i].uncertain => rows[i].uncertain
             /\ rows[i].owner \in {NoRun, outbox[i].owner}
             /\ outbox[i].status = "absent" => ~rows[i].uncertain
             /\ Remembers(outbox[i], rows[i])
  <2>1. outbox[i] \in Row /\ Ordered(outbox[i], userState[item[i].canonical])
    BY DEF TypeOK, RowsAreOrdered
  <2>2. CASE outbox[i].owner # NoRun /\ outbox[i].expired
    <3>1. PICK over \in BOOLEAN : over = (outbox[i].uncertain \/ outbox[i].dispatched)
      OBVIOUS
    <3>2. rows[i] = [outbox[i] EXCEPT
                       !.uncertain = over,
                       !.due = TRUE, !.owner = NoRun, !.expired = FALSE,
                       !.dispatched = FALSE]
      BY <2>2, <3>1 DEF ReleaseExpired
    <3>3. outbox[i].status # "absent"
      BY <2>1, <2>2 DEF Ordered
    <3> HIDE DEF rows, OrderInv, IInv
    <3> QED
      BY <2>1, <3>1, <3>2, <3>3 DEF Row, Remembers
  <2>3. CASE ~(outbox[i].owner # NoRun /\ outbox[i].expired)
    <3>1. rows[i] = outbox[i]
      BY <2>3 DEF ReleaseExpired
    <3> QED
      BY <2>1, <3>1, SameAdvances DEF Ordered
  <2> QED
    BY <2>2, <2>3
<1>3. ASSUME NEW q \in Runs, phase'[q] = "swept"
      PROVE  q # r /\ phase[q] = "swept"
  BY <1>1, <1>3 DEF TypeOK
<1>4. ASSUME NEW i \in Items, NEW q \in Runs \ {r}
      PROVE  delivery'[q][i] = delivery[q][i]
  BY <1>1 DEF TypeOK
<1>5. ASSUME NEW i \in Items
      PROVE  delivery[r][i].at = "none"
  BY <1>1
<1>6. ASSUME NEW i \in Items
      PROVE  \/ /\ outbox'[i] = rows[i]
                /\ delivery'[r][i] = delivery[r][i]
             \/ /\ outbox'[i] = leased(i)
                /\ delivery'[r][i] = claim(i)
                /\ rows[i].owner = NoRun
                /\ rows[i].status = "eligible"
  BY <1>1 DEF TypeOK, Claimable
<1> HIDE DEF rows, OrderInv, IInv
<1>7. ASSUME NEW i \in Items
      PROVE  /\ outbox'[i].status = outbox[i].status
             /\ outbox'[i].canonical = outbox[i].canonical
             /\ outbox'[i].desired = outbox[i].desired
             /\ outbox'[i].delivered = outbox[i].delivered
             /\ outbox'[i].payload = outbox[i].payload
             /\ outbox[i].uncertain => outbox'[i].uncertain
             /\ outbox[i].status = "absent" =>
                  outbox'[i].owner = NoRun /\ ~outbox'[i].uncertain
             /\ \/ /\ delivery'[r][i] = delivery[r][i]
                   /\ outbox'[i].owner \in {NoRun, outbox[i].owner}
                   /\ Remembers(outbox[i], outbox'[i])
                \/ /\ delivery'[r][i].at = "claimed"
                   /\ delivery'[r][i].desired = outbox'[i].desired
                   /\ delivery'[r][i].payload = outbox'[i].payload
                   /\ outbox'[i].owner = r
                   /\ outbox[i].status = "eligible"
                   /\ outbox[i].owner # NoRun /\ outbox[i].dispatched
                        => outbox'[i].uncertain
  <2>1. CASE outbox'[i] = rows[i] /\ delivery'[r][i] = delivery[r][i]
    <3>1. outbox[i].status = "absent" => outbox[i].owner = NoRun
      BY DEF OrderInv, RowsAreOrdered, Ordered
    <3> QED
      BY <1>2, <2>1, <3>1
  <2>2. CASE /\ outbox'[i] = leased(i)
             /\ delivery'[r][i] = claim(i)
             /\ rows[i].owner = NoRun
             /\ rows[i].status = "eligible"
    <3>1. /\ outbox'[i].status = rows[i].status
          /\ outbox'[i].canonical = rows[i].canonical
          /\ outbox'[i].desired = rows[i].desired
          /\ outbox'[i].delivered = rows[i].delivered
          /\ outbox'[i].payload = rows[i].payload
          /\ outbox'[i].uncertain = rows[i].uncertain
          /\ outbox'[i].owner = r
      BY <1>2, <2>2 DEF Row
    <3>2. /\ delivery'[r][i].at = "claimed"
          /\ delivery'[r][i].desired = rows[i].desired
          /\ delivery'[r][i].payload = rows[i].payload
      BY <2>2
    <3>3. outbox[i].owner # NoRun /\ outbox[i].dispatched => rows[i].uncertain
      BY <1>2, <2>2 DEF Remembers
    <3> QED
      BY <1>2, <2>2, <3>1, <3>2, <3>3
  <2> QED
    BY <1>6, <2>1, <2>2
<1> QED
  BY <1>1, <1>3, <1>4, <1>5, <1>7

\* The row keeps its bookkeeping, apart from the lease, the dispatch mark and
\* what the move of the fiber says.
Bookkeeping(row, new) ==
    /\ new.delivered = row.delivered
    /\ new.owner = row.owner
    /\ new.dispatched = row.dispatched

\* The moves of a fiber, from what it waited for to what it waits for next,
\* with what they do to its row, to the upstream and to the late writes.
FiberMove(r, i) ==
    LET from == delivery[r][i].at
        to == delivery'[r][i].at
        kept == Bookkeeping(outbox[i], outbox'[i])
        certain == outbox'[i].uncertain = outbox[i].uncertain
        quiet == UNCHANGED <<remote, late>>
    IN \/ /\ from = "claimed" /\ to = "dispatched"
          /\ MayTouchServer(r, i)
          /\ outbox'[i].delivered = outbox[i].delivered
          /\ outbox'[i].owner = outbox[i].owner
          /\ outbox'[i].dispatched
          /\ certain /\ quiet
       \/ /\ from = "claimed" /\ to = "none"
          /\ kept /\ certain /\ quiet
       \/ /\ from = "dispatched" /\ to \in {"sent", "ambiguous"}
          /\ kept /\ certain /\ quiet
       \/ /\ from \in {"dispatched", "applied"} /\ to = "permanent"
          /\ Deleted(i)
          /\ kept /\ certain /\ quiet
       \/ /\ from = "sent" /\ to = "applied"
          /\ remote'[i] = delivery[r][i].payload
          /\ kept /\ certain /\ UNCHANGED late
       \/ /\ from = "sent" /\ to \in {"transient", "permanent"}
          /\ kept /\ certain /\ quiet
       \/ /\ from = "sent" /\ to = "ambiguous"
          /\ late' = late \cup {[item |-> i, payload |-> delivery[r][i].payload]}
          /\ kept /\ certain /\ UNCHANGED remote
       \/ /\ from = "applied" /\ to \in {"succeeded", "ambiguous"}
          /\ kept /\ certain /\ quiet
       \/ /\ from = "succeeded" /\ to = "none"
          /\ MayTouchServer(r, i)
          /\ outbox'[i].delivered = delivery[r][i].desired
          /\ outbox'[i].owner = NoRun
          /\ certain /\ quiet
       \/ /\ from = "succeeded" /\ to = "ownerLost"
          /\ kept /\ certain /\ quiet
       \/ /\ \/ from = "ownerLost" /\ to = "none"
             \/ from = "ambiguous" /\ to = "recording"
          /\ outbox'[i].uncertain
          /\ kept /\ quiet
       \/ /\ from \in {"recording", "transient", "permanent"} /\ to = "none"
          /\ \/ kept
             \/ /\ OwnsLease(r, i)
                /\ outbox'[i].delivered = outbox[i].delivered
                /\ outbox'[i].owner = NoRun
          /\ certain /\ quiet

\* A doubt that is refused, because the row was set back to a revision before
\* the one the fiber delivers.
RefusedDoubt(r, i) ==
    /\ \/ delivery[r][i].at = "ownerLost" /\ delivery'[r][i].at = "none"
       \/ delivery[r][i].at = "ambiguous" /\ delivery'[r][i].at = "recording"
    /\ outbox[i].desired < delivery[r][i].desired
    /\ UNCHANGED <<outbox, remote, late>>

LEMMA FiberStepIsMoveOrRefused ==
    ASSUME TypeOK, NEW r \in Runs, NEW i \in Items, FiberStep(r, i)
    PROVE  FiberMove(r, i) \/ RefusedDoubt(r, i)
<1>1. /\ outbox \in [Items -> Row] /\ outbox[i] \in Row
      /\ delivery \in [Runs -> [Items -> Fiber]]
      /\ delivery[r][i] \in Fiber
      /\ remote \in [Items -> Payload]
  BY DEF TypeOK
<1>2. ASSUME NEW at, Goto(r, i, at)
      PROVE  delivery'[r][i].at = at
  BY <1>1, <1>2 DEF Goto, Fiber
<1>3. ASSUME EndFiber(r, i)
      PROVE  delivery'[r][i].at = "none"
  BY <1>1, <1>3 DEF EndFiber, NoFiber
<1>4. outbox' = outbox => /\ Bookkeeping(outbox[i], outbox'[i])
                          /\ outbox'[i].uncertain = outbox[i].uncertain
  BY DEF Bookkeeping
<1>5. CASE MarkOutboxDispatched(r, i)
  <2>1. CASE MayTouchServer(r, i)
    <3>1. /\ delivery[r][i].at = "claimed"
          /\ delivery'[r][i].at = "dispatched"
          /\ outbox' = [outbox EXCEPT ![i].dispatched = TRUE]
          /\ UNCHANGED <<remote, late>>
      BY <1>2, <1>5, <2>1 DEF MarkOutboxDispatched
    <3>2. /\ outbox'[i].delivered = outbox[i].delivered
          /\ outbox'[i].owner = outbox[i].owner
          /\ outbox'[i].uncertain = outbox[i].uncertain
          /\ outbox'[i].dispatched
      BY <1>1, <3>1 DEF Row
    <3> QED
      BY <2>1, <3>1, <3>2 DEF FiberMove
  <2>2. CASE ~MayTouchServer(r, i)
    BY <1>3, <1>4, <1>5, <2>2 DEF MarkOutboxDispatched, FiberMove
  <2> QED
    BY <2>1, <2>2
<1>6. CASE SendRequest(r, i)
  BY <1>2, <1>4, <1>6 DEF SendRequest, FiberMove
<1>7. CASE FailBeforeSend(r, i)
  BY <1>2, <1>4, <1>7 DEF FailBeforeSend, FiberMove, Deleted
<1>8. CASE ApplyRequest(r, i)
  BY <1>1, <1>2, <1>4, <1>8 DEF ApplyRequest, FiberMove
<1>9. CASE AnswerSuccess(r, i)
  <2>1. /\ delivery[r][i].at = "applied"
        /\ UNCHANGED <<outbox, remote, late>>
        /\ \/ Goto(r, i, "permanent") /\ Deleted(i)
           \/ Goto(r, i, "ambiguous")
           \/ Goto(r, i, "succeeded")
    BY <1>9 DEF AnswerSuccess, Deleted
  <2> QED
    BY <1>2, <1>4, <2>1 DEF FiberMove
<1>10. CASE AnswerRejected(r, i)
  BY <1>2, <1>4, <1>10 DEF AnswerRejected, FiberMove
<1>11. CASE AnswerLost(r, i)
  BY <1>2, <1>4, <1>11 DEF AnswerLost, FiberMove
<1>12. CASE AcknowledgeOutboxTarget(r, i)
  <2>1. CASE MayTouchServer(r, i)
    <3>1. /\ delivery[r][i].at = "succeeded"
          /\ delivery'[r][i].at = "none"
          /\ outbox' = [outbox EXCEPT
                          ![i].delivered = delivery[r][i].desired,
                          ![i].owner = NoRun, ![i].expired = FALSE,
                          ![i].dispatched = FALSE, ![i].permanent = FALSE,
                          ![i].due = outbox[i].due /\ ~outbox[i].uncertain]
          /\ UNCHANGED <<remote, late>>
      BY <1>3, <1>12, <2>1 DEF AcknowledgeOutboxTarget
    <3>2. /\ outbox'[i].delivered = delivery[r][i].desired
          /\ outbox'[i].owner = NoRun
          /\ outbox'[i].uncertain = outbox[i].uncertain
      BY <1>1, <3>1 DEF Row
    <3> QED
      BY <2>1, <3>1, <3>2 DEF FiberMove
  <2>2. CASE ~MayTouchServer(r, i)
    BY <1>2, <1>4, <1>12, <2>2 DEF AcknowledgeOutboxTarget, FiberMove
  <2> QED
    BY <2>1, <2>2
<1>13. CASE MarkOutboxUncertain(r, i)
  <2>1. /\ UNCHANGED <<remote, late>>
        /\ \/ delivery[r][i].at = "ownerLost" /\ delivery'[r][i].at = "none"
           \/ delivery[r][i].at = "ambiguous" /\ delivery'[r][i].at = "recording"
    BY <1>2, <1>3, <1>13 DEF MarkOutboxUncertain
  <2>2. CASE outbox[i].desired >= delivery[r][i].desired
    <3> DEFINE behind == outbox[i].delivered < outbox[i].desired
    <3>1. /\ behind \in BOOLEAN
          /\ outbox' = [outbox EXCEPT ![i].uncertain = TRUE, ![i].due = behind]
      BY <1>13, <2>2 DEF MarkOutboxUncertain
    <3> HIDE DEF behind
    <3>2. outbox'[i].uncertain /\ Bookkeeping(outbox[i], outbox'[i])
      BY <1>1, <3>1 DEF Row, Bookkeeping
    <3> QED
      BY <2>1, <3>2 DEF FiberMove
  <2>3. CASE ~(outbox[i].desired >= delivery[r][i].desired)
    <3>1. outbox[i].desired \in Nat /\ delivery[r][i].desired \in Nat
      BY <1>1 DEF Row, Fiber
    <3>2. UNCHANGED outbox
      BY <1>13, <2>3 DEF MarkOutboxUncertain
    <3> QED
      BY <2>1, <2>3, <3>1, <3>2 DEF RefusedDoubt
  <2> QED
    BY <2>2, <2>3
<1>14. CASE RecordOutboxFailure(r, i)
  <2>1. /\ delivery[r][i].at \in {"recording", "transient", "permanent"}
        /\ delivery'[r][i].at = "none"
        /\ UNCHANGED <<remote, late>>
    BY <1>3, <1>14 DEF RecordOutboxFailure
  <2>2. CASE OwnsLease(r, i)
    <3>1. outbox' = [outbox EXCEPT
                       ![i].permanent = (delivery[r][i].at = "permanent"),
                       ![i].due = FALSE,
                       ![i].owner = NoRun, ![i].expired = FALSE,
                       ![i].dispatched = FALSE]
      BY <1>14, <2>2 DEF RecordOutboxFailure
    <3>2. /\ outbox'[i].delivered = outbox[i].delivered
          /\ outbox'[i].owner = NoRun
          /\ outbox'[i].uncertain = outbox[i].uncertain
      BY <1>1, <3>1 DEF Row
    <3> QED
      BY <2>1, <2>2, <3>2 DEF FiberMove
  <2>3. CASE ~OwnsLease(r, i)
    BY <1>4, <1>14, <2>1, <2>3 DEF RecordOutboxFailure, FiberMove
  <2> QED
    BY <2>2, <2>3
<1> QED
  BY <1>5, <1>6, <1>7, <1>8, <1>9, <1>10, <1>11, <1>12, <1>13, <1>14
     DEF FiberStep

\* Where no row is set back no doubt is refused.
LEMMA FiberStepIsMove ==
    ASSUME OrderInv, NEW r \in Runs, NEW i \in Items, FiberStep(r, i)
    PROVE  FiberMove(r, i)
<1>1. TypeOK
  BY DEF OrderInv, IInv
<1>2. outbox[i] \in Row /\ delivery[r][i] \in Fiber
  BY <1>1 DEF TypeOK
<1>3. FiberIsOrdered(delivery[r][i], outbox[i])
  BY DEF OrderInv
<1>4. ~RefusedDoubt(r, i)
  BY <1>2, <1>3 DEF RefusedDoubt, FiberIsOrdered, Row, Fiber
<1> QED
  BY <1>1, <1>4, FiberStepIsMoveOrRefused

\* A fiber that takes a step keeps its claim, and whatever it does concerns its
\* own item alone.
LEMMA FiberKeepsOut ==
    ASSUME TypeOK, NEW r \in Runs, NEW i \in Items, FiberStep(r, i)
    PROVE  /\ UNCHANGED <<userState, item, server, phase>>
           /\ delivery[r][i].at # "none"
           /\ \A j \in Items \ {i} : outbox'[j] = outbox[j] /\ remote'[j] = remote[j]
           /\ \A q \in Runs, j \in Items :
                q # r \/ j # i => delivery'[q][j] = delivery[q][j]
           /\ delivery'[r][i].at # "none" =>
                /\ delivery'[r][i].desired = delivery[r][i].desired
                /\ delivery'[r][i].payload = delivery[r][i].payload
           /\ \A w \in late' : w.item # i => w \in late
           /\ outbox'[i].status = outbox[i].status
           /\ outbox'[i].canonical = outbox[i].canonical
           /\ outbox'[i].desired = outbox[i].desired
           /\ outbox'[i].payload = outbox[i].payload
<1>1. /\ outbox \in [Items -> Row]
      /\ delivery \in [Runs -> [Items -> Fiber]]
      /\ remote \in [Items -> Payload]
  BY DEF TypeOK
<1>2. UNCHANGED <<userState, item, server, phase>>
  BY DEF FiberStep, MarkOutboxDispatched, SendRequest, FailBeforeSend,
         ApplyRequest, AnswerSuccess, AnswerRejected, AnswerLost,
         AcknowledgeOutboxTarget, MarkOutboxUncertain, RecordOutboxFailure
<1>3. /\ delivery[r][i].at # "none"
      /\ \A q \in Runs, j \in Items :
           q # r \/ j # i => delivery'[q][j] = delivery[q][j]
      /\ delivery'[r][i].at # "none" =>
           /\ delivery'[r][i].desired = delivery[r][i].desired
           /\ delivery'[r][i].payload = delivery[r][i].payload
  <2>1. /\ delivery[r][i].at # "none"
        /\ (\E at \in FiberState : Goto(r, i, at)) \/ EndFiber(r, i)
    BY FiberStepMoves
  <2>2. ASSUME NEW q \in Runs, NEW j \in Items, q # r \/ j # i
        PROVE  delivery'[q][j] = delivery[q][j]
    BY <1>1, <2>1, <2>2 DEF Goto, EndFiber
  <2>3. delivery'[r][i].at # "none" =>
           /\ delivery'[r][i].desired = delivery[r][i].desired
           /\ delivery'[r][i].payload = delivery[r][i].payload
    BY <2>1, FiberMoves
  <2> QED
    BY <2>1, <2>2, <2>3
<1>4. /\ outbox'[i].status = outbox[i].status
      /\ outbox'[i].canonical = outbox[i].canonical
      /\ outbox'[i].desired = outbox[i].desired
      /\ outbox'[i].payload = outbox[i].payload
  BY FiberStepRow
<1>5. /\ \/ UNCHANGED late
         \/ late' = late \cup {[item |-> i, payload |-> delivery[r][i].payload]}
      /\ \/ UNCHANGED remote
         \/ remote' = [remote EXCEPT ![i] = delivery[r][i].payload]
  BY DEF FiberStep, MarkOutboxDispatched, SendRequest, FailBeforeSend,
         ApplyRequest, AnswerSuccess, AnswerRejected, AnswerLost,
         AcknowledgeOutboxTarget, MarkOutboxUncertain, RecordOutboxFailure
<1>6. \A w \in late' : w.item # i => w \in late
  BY <1>5
<1>7. ASSUME NEW j \in Items \ {i}
      PROVE  outbox'[j] = outbox[j]
  BY <1>1 DEF FiberStep, MarkOutboxDispatched, SendRequest, FailBeforeSend,
         ApplyRequest, AnswerSuccess, AnswerRejected, AnswerLost,
         AcknowledgeOutboxTarget, MarkOutboxUncertain, RecordOutboxFailure
<1>8. \A j \in Items \ {i} : remote'[j] = remote[j]
  BY <1>1, <1>5
<1> QED
  BY <1>2, <1>3, <1>4, <1>6, <1>7, <1>8

\* In the order of revisions its row was enqueued, and a doubt remains.
LEMMA FiberFrame ==
    ASSUME OrderInv, NEW r \in Runs, NEW i \in Items, FiberStep(r, i)
    PROVE  /\ UNCHANGED <<userState, item, server, phase>>
           /\ outbox[i].status # "absent"
           /\ delivery[r][i].at # "none"
           /\ \A j \in Items \ {i} : outbox'[j] = outbox[j] /\ remote'[j] = remote[j]
           /\ \A q \in Runs, j \in Items :
                q # r \/ j # i => delivery'[q][j] = delivery[q][j]
           /\ delivery'[r][i].at # "none" =>
                /\ delivery'[r][i].desired = delivery[r][i].desired
                /\ delivery'[r][i].payload = delivery[r][i].payload
           /\ \A w \in late' : w.item # i => w \in late
           /\ outbox'[i].status = outbox[i].status
           /\ outbox'[i].canonical = outbox[i].canonical
           /\ outbox'[i].desired = outbox[i].desired
           /\ outbox'[i].payload = outbox[i].payload
           /\ outbox[i].uncertain => outbox'[i].uncertain
<1>1. TypeOK
  BY DEF OrderInv, IInv
<1>2. outbox[i].status # "absent"
  BY <1>1, FiberKeepsOut DEF OrderInv, FiberIsOrdered
<1>3. outbox[i].uncertain => outbox'[i].uncertain
  BY FiberStepIsMove DEF FiberMove
<1> QED
  BY <1>1, <1>2, <1>3, FiberKeepsOut


\* What is left of a run that dies: no fiber, and the writes it had sent.
LEMMA StopEffect ==
    ASSUME TypeOK, NEW r \in Runs, StopRun(r)
    PROVE  /\ CanStop
           /\ UNCHANGED <<userState, item, server, outbox, remote>>
           /\ \A q \in Runs : phase'[q] = "swept" => phase[q] = "swept"
           /\ \A q \in Runs, i \in Items :
                delivery'[q][i] = IF q = r THEN NoFiber ELSE delivery[q][i]
           /\ \A w \in late' :
                \/ w \in late
                \/ /\ w.item \in Items
                   /\ delivery[r][w.item].at = "sent"
                   /\ delivery[r][w.item].payload = w.payload
<1>1. /\ late' = late \cup
                  {[item |-> i, payload |-> delivery[r][i].payload] :
                     i \in {j \in Items : delivery[r][j].at = "sent"}}
      /\ delivery' = [delivery EXCEPT ![r] = [i \in Items |-> NoFiber]]
      /\ phase' = [phase EXCEPT ![r] = "idle"]
      /\ UNCHANGED <<userState, item, server, outbox, remote>>
      /\ CanStop
  BY DEF StopRun
<1>2. delivery \in [Runs -> [Items -> Fiber]] /\ phase \in [Runs -> {"idle", "swept"}]
  BY DEF TypeOK
<1> QED
  BY <1>1, <1>2

\* The other steps are those of runs and fibers, and those of the network.
LEMMA StepKinds ==
    ASSUME Next
    PROVE  \/ RewritingStep
           \/ \E r \in Runs : ClaimOutboxTargets(r) \/ StopRun(r)
           \/ \E r \in Runs, i \in Items : FiberStep(r, i)
           \/ \E w \in late : ApplyLate(w) \/ DropLate(w)
<1>1. CASE LocalStep \/ ConfigurationStep
  BY <1>1 DEF RewritingStep
<1>2. CASE \E r \in Runs : RunStep(r)
  <2>1. PICK r \in Runs : RunStep(r)
    BY <1>2
  <2>2. \/ RunMaintenanceBatch(r)
        \/ ClaimOutboxTargets(r) \/ StopRun(r)
        \/ \E i \in Items : FiberStep(r, i)
    BY <2>1 DEF RunStep
  <2> QED
    BY <2>2 DEF RewritingStep
<1>3. CASE EnvironmentStep
  <2>1. CASE \E i \in Items : LeaseExpires(i) \/ BecomesDue(i)
    BY <2>1 DEF RewritingStep
  <2>2. CASE \E w \in late : ApplyLate(w) \/ DropLate(w)
    BY <2>2
  <2> QED
    BY <1>3, <2>1, <2>2 DEF EnvironmentStep
<1> QED
  BY <1>1, <1>2, <1>3 DEF Next

LEMMA InitOrderInv == Init => OrderInv
<1> SUFFICES ASSUME Init PROVE OrderInv
  OBVIOUS
<1>1. \A i \in Items : outbox[i].status = "absent" /\ outbox[i].owner = NoRun
                       /\ ~outbox[i].uncertain
  <2>1. PICK canonical \in [Items -> Canonicals] :
          outbox = [i \in Items |-> AbsentRow(canonical[i])]
    BY DEF Init
  <2> QED
    BY <2>1 DEF AbsentRow
<1>2. RowsAreOrdered(outbox, item, userState)
  BY <1>1 DEF RowsAreOrdered, Ordered
<1>3. \A r \in Runs, i \in Items : delivery[r][i].at = "none"
  BY DEF Init, NoFiber
<1>4. late = {}
  BY DEF Init
<1> QED
  BY <1>2, <1>3, <1>4, InitIInv DEF OrderInv, FiberIsOrdered

\* OrderInv is inductive.
LEMMA NextOrderInv ==
    ASSUME ~EqualRevisionMerge, OrderInv, [Next]_vars
    PROVE  OrderInv'
<1>1. IInv'
  BY NextIInv DEF OrderInv
<1>2. /\ \A i \in Items : outbox[i] \in Row /\ outbox'[i] \in Row
      /\ \A r \in Runs, i \in Items : delivery[r][i] \in Fiber
      /\ \A w \in late : w.item \in Items
      /\ \A i \in Items : userState[item[i].canonical] \in State
  BY <1>1 DEF OrderInv, IInv, TypeOK, Write, SourceItem
<1>3. CASE UNCHANGED vars
  BY <1>1, <1>3 DEF vars, OrderInv, RowsAreOrdered, FiberIsOrdered
<1>4. CASE RewritingStep
  <2>1. Rewrites
    BY <1>4, RewritingStepRewrites
  <2>2. ASSUME NEW r \in Runs, NEW i \in Items
        PROVE  FiberIsOrdered(delivery'[r][i], outbox'[i])
    <3>1. /\ FiberIsOrdered(delivery[r][i], outbox[i])
          /\ Advances(outbox[i], outbox'[i])
          /\ delivery'[r][i] = delivery[r][i]
      BY <2>1 DEF OrderInv, Rewrites
    <3> QED
      BY <1>2, <3>1 DEF FiberIsOrdered, Advances, Row, Fiber
  <2>3. \A w \in late' : outbox'[w.item].status # "absent"
    BY <1>2, <2>1 DEF OrderInv, Rewrites, Advances
  <2>4. \A r \in Runs : phase'[r] = "swept" =>
          \A i \in Items : delivery'[r][i].at = "none"
    BY <2>1 DEF Rewrites
  <2>5. RowsAreOrdered(outbox', item', userState')
    BY <2>1 DEF Rewrites
  <2> QED
    BY <1>1, <2>2, <2>3, <2>4, <2>5 DEF OrderInv
<1>5. ASSUME NEW r \in Runs, ClaimOutboxTargets(r)
      PROVE  OrderInv'
  <2>1. ASSUME NEW i \in Items
        PROVE  Ordered(outbox'[i], userState'[item'[i].canonical])
    <3>1. Ordered(outbox[i], userState[item[i].canonical])
      BY DEF OrderInv, RowsAreOrdered
    <3> QED
      BY <1>5, <3>1, ClaimEffect DEF Ordered
  <2>2. RowsAreOrdered(outbox', item', userState')
    BY <2>1 DEF RowsAreOrdered
  <2>3. ASSUME NEW q \in Runs, NEW i \in Items
        PROVE  FiberIsOrdered(delivery'[q][i], outbox'[i])
    <3>1. FiberIsOrdered(delivery[q][i], outbox[i])
      BY DEF OrderInv
    <3>2. outbox'[i].desired \in Nat
      BY <1>2 DEF Row
    <3> QED
      BY <1>5, <3>1, <3>2, ClaimEffect DEF FiberIsOrdered
  <2>4. \A q \in Runs : phase'[q] = "swept" =>
          \A i \in Items : delivery'[q][i].at = "none"
    BY <1>5, ClaimEffect DEF OrderInv
  <2>5. \A w \in late' : outbox'[w.item].status # "absent"
    BY <1>2, <1>5, ClaimEffect DEF OrderInv
  <2> QED
    BY <1>1, <2>2, <2>3, <2>4, <2>5 DEF OrderInv
<1>6. ASSUME NEW r \in Runs, StopRun(r)
      PROVE  OrderInv'
  <2>1. NoFiber.at = "none"
    BY DEF NoFiber
  <2>2. RowsAreOrdered(outbox', item', userState')
    BY <1>6, StopEffect DEF OrderInv, IInv, RowsAreOrdered
  <2>3. \A q \in Runs, i \in Items : FiberIsOrdered(delivery'[q][i], outbox'[i])
    BY <1>6, <2>1, StopEffect DEF OrderInv, IInv, FiberIsOrdered
  <2>4. \A q \in Runs : phase'[q] = "swept" =>
          \A i \in Items : delivery'[q][i].at = "none"
    BY <1>6, <2>1, StopEffect DEF OrderInv, IInv
  <2>5. \A w \in late' : outbox'[w.item].status # "absent"
    BY <1>6, StopEffect DEF OrderInv, IInv, FiberIsOrdered
  <2> QED
    BY <1>1, <2>2, <2>3, <2>4, <2>5 DEF OrderInv
<1>7. ASSUME NEW r \in Runs, NEW i \in Items, FiberStep(r, i)
      PROVE  OrderInv'
  <2>1. /\ UNCHANGED <<userState, item, server, phase>>
        /\ outbox[i].status # "absent"
        /\ delivery[r][i].at # "none"
        /\ \A j \in Items \ {i} : outbox'[j] = outbox[j]
        /\ \A q \in Runs, j \in Items :
             q # r \/ j # i => delivery'[q][j] = delivery[q][j]
        /\ delivery'[r][i].at # "none" =>
             /\ delivery'[r][i].desired = delivery[r][i].desired
             /\ delivery'[r][i].payload = delivery[r][i].payload
        /\ \A w \in late' : w.item # i => w \in late
        /\ outbox'[i].status = outbox[i].status
        /\ outbox'[i].desired = outbox[i].desired
        /\ outbox'[i].payload = outbox[i].payload
    BY <1>7, FiberFrame
  <2>2. ASSUME NEW j \in Items
        PROVE  Ordered(outbox'[j], userState'[item'[j].canonical])
    <3>1. Ordered(outbox[j], userState[item[j].canonical])
      BY DEF OrderInv, RowsAreOrdered
    <3>2. CASE j # i
      BY <2>1, <3>1, <3>2
    <3>3. CASE j = i
      <4>1. \/ outbox'[i].delivered = outbox[i].delivered
            \/ outbox'[i].delivered = outbox[i].desired
        BY <1>7, FiberStepIsMove DEF FiberMove, Bookkeeping, MayTouchServer, OwnsLease
      <4>2. outbox[i].desired \in Nat
        BY <1>2 DEF Row
      <4> QED
        BY <2>1, <3>1, <3>3, <4>1, <4>2 DEF Ordered
    <3> QED
      BY <3>2, <3>3
  <2>3. RowsAreOrdered(outbox', item', userState')
    BY <2>2 DEF RowsAreOrdered
  <2>4. ASSUME NEW q \in Runs, NEW j \in Items
        PROVE  FiberIsOrdered(delivery'[q][j], outbox'[j])
    <3>1. FiberIsOrdered(delivery[q][j], outbox[j])
      BY DEF OrderInv
    <3> QED
      BY <2>1, <3>1 DEF FiberIsOrdered
  <2>5. \A q \in Runs : phase'[q] = "swept" =>
          \A j \in Items : delivery'[q][j].at = "none"
    BY <2>1 DEF OrderInv
  <2>6. \A w \in late' : outbox'[w.item].status # "absent"
    <3> SUFFICES ASSUME NEW w \in late' PROVE outbox'[w.item].status # "absent"
      OBVIOUS
    <3>1. CASE w.item = i
      BY <2>1, <3>1
    <3>2. CASE w.item # i
      BY <1>2, <2>1, <3>2 DEF OrderInv
    <3> QED
      BY <3>1, <3>2
  <2> QED
    BY <1>1, <2>3, <2>4, <2>5, <2>6 DEF OrderInv
<1>8. ASSUME NEW w \in late, ApplyLate(w) \/ DropLate(w)
      PROVE  OrderInv'
  <2>1. late' \subseteq late /\ UNCHANGED <<userState, item, server, outbox, phase, delivery>>
    BY <1>8 DEF ApplyLate, DropLate
  <2> QED
    BY <1>1, <2>1 DEF OrderInv, RowsAreOrdered, FiberIsOrdered
<1> QED
  BY <1>3, <1>4, <1>5, <1>6, <1>7, <1>8, StepKinds

-----------------------------------------------------------------------------
(* Deliveries whose targets are cancelled under them                       *)

\* The fibers that had a write applied, or gave one up, and have neither
\* acknowledged it nor raised the doubt about it.
Telling == {"applied", "succeeded", "ownerLost", "ambiguous"}

\* Some fiber still has to tell what the upstream holds.
Told(i) ==
    \E r \in Runs : /\ delivery[r][i].at \in Telling
                    /\ delivery[r][i].payload = remote[i]

\* Every late write was doubted, or will be by the fiber that gave it up.
LateIsDoubted ==
    \A w \in late :
        \/ outbox[w.item].uncertain
        \/ \E r \in Runs : /\ delivery[r][w.item].at = "ambiguous"
                           /\ delivery[r][w.item].payload = w.payload

\* While the holder of a lease waits with its success, some fiber, perhaps
\* another one, still has to tell what the upstream holds.
HolderIsTold ==
    \A r \in Runs, i \in Items :
        /\ ~Deleted(i)
        /\ ~outbox[i].uncertain
        /\ delivery[r][i].at \in {"applied", "succeeded"}
        /\ outbox[i].owner = r
        => Told(i)

\* A row that was delivered without a doubt is right, or will be doubted.
DeliveredIsTold ==
    \A i \in Items :
        /\ ~Deleted(i)
        /\ outbox[i].status # "absent"
        /\ outbox[i].delivered = outbox[i].desired
        /\ ~outbox[i].uncertain
        => remote[i] = outbox[i].payload \/ Told(i)

\* CancelledDeliveriesSettle is not inductive: a lease may be gone while its
\* fiber goes on, so the invariant follows the fibers to their bookkeeping.
SettleInv == OrderInv /\ LateIsDoubted /\ HolderIsTold /\ DeliveredIsTold

LEMMA InitSettleInv == Init => SettleInv
<1> SUFFICES ASSUME Init PROVE SettleInv
  OBVIOUS
<1>1. \A r \in Runs, i \in Items : delivery[r][i].at = "none"
  BY DEF Init, NoFiber
<1>2. late = {}
  BY DEF Init
<1>3. \A i \in Items : outbox[i].status = "absent"
  <2>1. PICK canonical \in [Items -> Canonicals] :
          outbox = [i \in Items |-> AbsentRow(canonical[i])]
    BY DEF Init
  <2> QED
    BY <2>1 DEF AbsentRow
<1> QED
  BY <1>1, <1>2, <1>3, InitOrderInv
     DEF SettleInv, LateIsDoubted, HolderIsTold, DeliveredIsTold

\* Rows are rewritten: what was right stays right, and no doubt is cleared.
LEMMA RewritesSettle ==
    ASSUME SettleInv, Rewrites, OrderInv'
    PROVE  SettleInv'
<1>1. /\ \A i \in Items : outbox[i] \in Row /\ outbox'[i] \in Row
      /\ \A w \in late : w.item \in Items
  BY DEF SettleInv, OrderInv, IInv, TypeOK, Write
<1>2. /\ UNCHANGED <<delivery, remote, late>>
      /\ \A i \in Items : Advances(outbox[i], outbox'[i])
  BY DEF Rewrites
<1>3. \A i \in Items : Told(i)' <=> Told(i)
  BY <1>2 DEF Told
<1>4. \A i \in Items : Deleted(i) => Deleted(i)'
  BY ServerOfAssumption DEF Rewrites, Deleted
<1>5. LateIsDoubted'
  <2> SUFFICES ASSUME NEW w \in late'
               PROVE  \/ outbox'[w.item].uncertain
                      \/ \E r \in Runs :
                           /\ delivery'[r][w.item].at = "ambiguous"
                           /\ delivery'[r][w.item].payload = w.payload
    BY DEF LateIsDoubted
  <2>1. w \in late /\ Advances(outbox[w.item], outbox'[w.item])
    BY <1>1, <1>2
  <2> QED
    BY <1>2, <2>1 DEF SettleInv, LateIsDoubted, Advances
<1>6. HolderIsTold'
  <2> SUFFICES ASSUME NEW r \in Runs, NEW i \in Items,
                      ~Deleted(i)', ~outbox'[i].uncertain,
                      delivery'[r][i].at \in {"applied", "succeeded"},
                      outbox'[i].owner = r
               PROVE  Told(i)'
    BY DEF HolderIsTold
  <2>1. ~outbox[i].uncertain /\ outbox[i].owner = r
    BY <1>2, NoRunAssumption DEF Advances
  <2> QED
    BY <1>2, <1>3, <1>4, <2>1 DEF SettleInv, HolderIsTold
<1>7. DeliveredIsTold'
  <2> SUFFICES ASSUME NEW i \in Items,
                      ~Deleted(i)', outbox'[i].status # "absent",
                      outbox'[i].delivered = outbox'[i].desired,
                      ~outbox'[i].uncertain
               PROVE  remote'[i] = outbox'[i].payload \/ Told(i)'
    BY DEF DeliveredIsTold
  <2>1. /\ Advances(outbox[i], outbox'[i])
        /\ Ordered(outbox[i], userState[item[i].canonical])
    BY <1>2 DEF SettleInv, OrderInv, RowsAreOrdered
  <2>2. /\ outbox[i].status # "absent"
        /\ outbox[i].delivered = outbox[i].desired
        /\ outbox'[i].payload = outbox[i].payload
        /\ ~outbox[i].uncertain
    BY <1>1, <2>1 DEF Advances, Ordered, Row
  <2> QED
    BY <1>2, <1>3, <1>4, <2>2 DEF SettleInv, DeliveredIsTold
<1> QED
  BY <1>5, <1>6, <1>7 DEF SettleInv

\* Rows are claimed: the fibers that start have nothing to tell yet.
LEMMA ClaimSettles ==
    ASSUME SettleInv, NEW r \in Runs, ClaimOutboxTargets(r), OrderInv'
    PROVE  SettleInv'
<1>1. /\ OrderInv
      /\ \A w \in late : w.item \in Items
  BY DEF SettleInv, OrderInv, IInv, TypeOK, Write
<1>2. /\ UNCHANGED <<server, remote, late>>
      /\ \A i \in Items :
           /\ delivery[r][i].at = "none"
           /\ \A q \in Runs \ {r} : delivery'[q][i] = delivery[q][i]
           /\ outbox'[i].status = outbox[i].status
           /\ outbox'[i].desired = outbox[i].desired
           /\ outbox'[i].delivered = outbox[i].delivered
           /\ outbox'[i].payload = outbox[i].payload
           /\ outbox[i].uncertain => outbox'[i].uncertain
           /\ \/ /\ delivery'[r][i] = delivery[r][i]
                 /\ outbox'[i].owner \in {NoRun, outbox[i].owner}
              \/ /\ delivery'[r][i].at = "claimed"
                 /\ outbox'[i].owner = r
  BY <1>1, ClaimEffect
<1>3. \A i \in Items : Deleted(i)' <=> Deleted(i)
  BY <1>2 DEF Deleted
<1>4. \A q \in Runs, i \in Items :
        delivery[q][i].at \in Telling => delivery'[q][i] = delivery[q][i]
  BY <1>2 DEF Telling
<1>5. \A i \in Items : Told(i) => Told(i)'
  BY <1>2, <1>4 DEF Told
<1>6. LateIsDoubted'
  BY <1>1, <1>2, <1>4 DEF SettleInv, LateIsDoubted, Telling
<1>7. HolderIsTold'
  <2> SUFFICES ASSUME NEW q \in Runs, NEW i \in Items,
                      ~Deleted(i)', ~outbox'[i].uncertain,
                      delivery'[q][i].at \in {"applied", "succeeded"},
                      outbox'[i].owner = q
               PROVE  Told(i)'
    BY DEF HolderIsTold
  <2>1. /\ q # r
        /\ delivery'[q][i] = delivery[q][i]
        /\ outbox[i].owner = q
    BY <1>2, NoRunAssumption
  <2> QED
    BY <1>2, <1>3, <1>5, <2>1 DEF SettleInv, HolderIsTold
<1>8. DeliveredIsTold'
  BY <1>2, <1>3, <1>5 DEF SettleInv, DeliveredIsTold
<1> QED
  BY <1>6, <1>7, <1>8 DEF SettleInv

\* A fiber takes a step: what it had to tell is acknowledged, doubted, or still
\* told by the fiber that the upstream heard last.
LEMMA FiberSettles ==
    ASSUME SettleInv, NEW r \in Runs, NEW i \in Items, FiberStep(r, i), OrderInv'
    PROVE  SettleInv'
<1>1. /\ OrderInv
      /\ \A w \in late : w.item \in Items
      /\ outbox[i] \in Row
      /\ delivery[r][i] \in Fiber
  BY DEF SettleInv, OrderInv, IInv, TypeOK, Write
<1>2. /\ UNCHANGED server
      /\ \A j \in Items \ {i} : outbox'[j] = outbox[j] /\ remote'[j] = remote[j]
      /\ \A q \in Runs, j \in Items :
           q # r \/ j # i => delivery'[q][j] = delivery[q][j]
      /\ delivery'[r][i].at # "none" => delivery'[r][i].payload = delivery[r][i].payload
      /\ \A w \in late' : w.item # i => w \in late
      /\ outbox'[i].status = outbox[i].status
      /\ outbox'[i].desired = outbox[i].desired
      /\ outbox'[i].payload = outbox[i].payload
      /\ outbox[i].uncertain => outbox'[i].uncertain
      /\ outbox[i].status # "absent"
      /\ delivery[r][i].at # "none"
  BY <1>1, FiberFrame
<1>3. FiberMove(r, i)
  BY <1>1, FiberStepIsMove
<1>4. \A j \in Items : Deleted(j)' <=> Deleted(j)
  BY <1>2 DEF Deleted
<1>5. \A j \in Items \ {i} : Told(j)' <=> Told(j)
  BY <1>2 DEF Told
<1>6. \A q \in Runs : \A j \in Items \ {i} : delivery'[q][j] = delivery[q][j]
  BY <1>2
\* The item of the fiber, where nothing is doubted and the server is there.
<1>7. ASSUME ~outbox'[i].uncertain
      PROVE  \A w \in late' : w.item = i =>
               \E q \in Runs : /\ delivery'[q][i].at = "ambiguous"
                               /\ delivery'[q][i].payload = w.payload
  <2> SUFFICES ASSUME NEW w \in late', w.item = i
               PROVE  \E q \in Runs : /\ delivery'[q][i].at = "ambiguous"
                                      /\ delivery'[q][i].payload = w.payload
    OBVIOUS
  <2>1. CASE w \in late
    <3>1. PICK q \in Runs : /\ delivery[q][i].at = "ambiguous"
                            /\ delivery[q][i].payload = w.payload
      BY <1>2, <1>7, <2>1 DEF SettleInv, LateIsDoubted
    <3>2. q # r
      BY <1>3, <1>7, <3>1 DEF FiberMove
    <3> QED
      BY <1>2, <3>1, <3>2
  <2>2. CASE w \notin late
    <3>1. /\ delivery'[r][i].at = "ambiguous"
          /\ w.payload = delivery[r][i].payload
      BY <1>3, <2>2 DEF FiberMove
    <3> QED
      BY <1>2, <3>1
  <2> QED
    BY <2>1, <2>2
\* A fiber that tells goes on telling, unless it is the one that acknowledges.
<1>8. ASSUME ~Deleted(i), ~outbox'[i].uncertain, Told(i)
      PROVE  \/ Told(i)'
             \/ /\ delivery[r][i].at = "succeeded"
                /\ delivery'[r][i].at = "none"
                /\ MayTouchServer(r, i)
                /\ outbox'[i].owner = NoRun
                /\ delivery[r][i].payload = remote[i]
                /\ UNCHANGED remote
  <2>1. PICK q \in Runs : /\ delivery[q][i].at \in Telling
                          /\ delivery[q][i].payload = remote[i]
    BY <1>8 DEF Told
  <2>2. CASE delivery[r][i].at = "sent" /\ delivery'[r][i].at = "applied"
    <3>1. remote'[i] = delivery[r][i].payload
      BY <1>3, <2>2 DEF FiberMove
    <3> QED
      BY <1>2, <2>2, <3>1 DEF Told, Telling
  <2>3. CASE ~(delivery[r][i].at = "sent" /\ delivery'[r][i].at = "applied")
    <3>1. UNCHANGED remote
      BY <1>3, <2>3 DEF FiberMove
    <3>2. CASE q # r
      BY <1>2, <2>1, <3>1, <3>2 DEF Told
    <3>3. CASE q = r
      <4>1. \/ delivery'[r][i].at \in Telling
            \/ /\ delivery[r][i].at = "succeeded"
               /\ delivery'[r][i].at = "none"
               /\ MayTouchServer(r, i)
               /\ outbox'[i].owner = NoRun
        BY <1>3, <1>8, <2>1, <3>3 DEF FiberMove, Telling
      <4>2. delivery'[r][i].at \in Telling => delivery'[r][i].at # "none"
        BY DEF Telling
      <4> QED
        BY <1>2, <2>1, <3>1, <3>3, <4>1, <4>2 DEF Told
    <3> QED
      BY <3>2, <3>3
  <2> QED
    BY <2>2, <2>3
<1>9. LateIsDoubted'
  <2> SUFFICES ASSUME NEW w \in late'
               PROVE  \/ outbox'[w.item].uncertain
                      \/ \E q \in Runs :
                           /\ delivery'[q][w.item].at = "ambiguous"
                           /\ delivery'[q][w.item].payload = w.payload
    BY DEF LateIsDoubted
  <2>1. CASE w.item = i
    BY <1>7, <2>1
  <2>2. CASE w.item # i
    <3>1. w \in late /\ w.item \in Items \ {i}
      BY <1>1, <1>2, <2>2
    <3> QED
      BY <1>2, <1>6, <3>1 DEF SettleInv, LateIsDoubted
  <2> QED
    BY <2>1, <2>2
<1>10. HolderIsTold'
  <2> SUFFICES ASSUME NEW q \in Runs, NEW j \in Items,
                      ~Deleted(j)', ~outbox'[j].uncertain,
                      delivery'[q][j].at \in {"applied", "succeeded"},
                      outbox'[j].owner = q
               PROVE  Told(j)'
    BY DEF HolderIsTold
  <2>1. CASE j # i
    BY <1>2, <1>4, <1>5, <1>6, <2>1 DEF SettleInv, HolderIsTold
  <2>2. CASE j = i /\ q = r /\ delivery[r][i].at = "sent"
    <3>1. /\ delivery'[r][i].at = "applied"
          /\ remote'[i] = delivery[r][i].payload
      BY <1>3, <2>2 DEF FiberMove
    <3> QED
      BY <1>2, <2>2, <3>1 DEF Told, Telling
  <2>3. CASE j = i /\ ~(q = r /\ delivery[r][i].at = "sent")
    <3>1. delivery[q][i].at \in {"applied", "succeeded"}
      BY <1>2, <1>3, <2>3 DEF FiberMove
    <3>2. outbox[i].owner = q /\ outbox'[i].owner # NoRun
      BY <1>3, <2>3, NoRunAssumption DEF FiberMove, Bookkeeping
    <3>3. ~outbox[i].uncertain /\ ~Deleted(i)
      BY <1>2, <1>4, <2>3
    <3>4. Told(i)
      BY <3>1, <3>2, <3>3 DEF SettleInv, HolderIsTold
    <3> QED
      BY <1>8, <2>3, <3>2, <3>3, <3>4
  <2> QED
    BY <2>1, <2>2, <2>3
<1>11. DeliveredIsTold'
  <2> SUFFICES ASSUME NEW j \in Items,
                      ~Deleted(j)', outbox'[j].status # "absent",
                      outbox'[j].delivered = outbox'[j].desired,
                      ~outbox'[j].uncertain
               PROVE  remote'[j] = outbox'[j].payload \/ Told(j)'
    BY DEF DeliveredIsTold
  <2>1. CASE j # i
    BY <1>2, <1>4, <1>5, <2>1 DEF SettleInv, DeliveredIsTold
  <2>2. CASE j = i
    <3>1. ~outbox[i].uncertain /\ ~Deleted(i)
      BY <1>2, <1>4, <2>2
    <3>2. MayTouchServer(r, i) => /\ outbox[i].owner = r
                                  /\ delivery[r][i].payload = outbox[i].payload
      BY <1>1, <1>2 DEF OrderInv, MayTouchServer, OwnsLease, FiberIsOrdered
    <3>3. CASE Told(i)
      BY <1>2, <1>8, <2>2, <3>1, <3>2, <3>3
    <3>4. CASE ~Told(i)
      <4>1. ~(delivery[r][i].at = "succeeded" /\ MayTouchServer(r, i))
        BY <3>1, <3>2, <3>4 DEF SettleInv, HolderIsTold
      <4>2. outbox'[i].delivered = outbox[i].delivered
        BY <1>3, <4>1 DEF FiberMove, Bookkeeping
      <4>3. remote[i] = outbox[i].payload
        BY <1>2, <2>2, <3>1, <3>4, <4>2 DEF SettleInv, DeliveredIsTold
      <4>4. CASE delivery[r][i].at = "sent" /\ delivery'[r][i].at = "applied"
        <5>1. remote'[i] = delivery[r][i].payload
          BY <1>3, <4>4 DEF FiberMove
        <5> QED
          BY <1>2, <2>2, <4>4, <5>1 DEF Told, Telling
      <4>5. CASE ~(delivery[r][i].at = "sent" /\ delivery'[r][i].at = "applied")
        <5>1. UNCHANGED remote
          BY <1>3, <4>5 DEF FiberMove
        <5> QED
          BY <1>2, <2>2, <4>3, <5>1
      <4> QED
        BY <4>4, <4>5
    <3> QED
      BY <3>3, <3>4
  <2> QED
    BY <2>1, <2>2
<1> QED
  BY <1>9, <1>10, <1>11 DEF SettleInv

\* A late write arrives or is lost: an undoubted one is still told.
LEMMA LateSettles ==
    ASSUME SettleInv, NEW w \in late, ApplyLate(w) \/ DropLate(w), OrderInv'
    PROVE  SettleInv'
<1>1. /\ remote \in [Items -> Payload]
      /\ w.item \in Items
  BY DEF SettleInv, OrderInv, IInv, TypeOK, Write
<1>2. /\ UNCHANGED <<server, outbox, delivery>>
      /\ late' \subseteq late
      /\ \/ UNCHANGED remote
         \/ remote' = [remote EXCEPT ![w.item] = w.payload]
  BY DEF ApplyLate, DropLate
<1>3. ASSUME NEW i \in Items, ~outbox[i].uncertain
      PROVE  \/ Told(i)'
             \/ remote'[i] = remote[i] /\ ~Told(i)
  <2>1. CASE remote'[i] = remote[i]
    BY <1>2, <2>1 DEF Told
  <2>2. CASE remote'[i] # remote[i]
    <3>1. w.item = i /\ remote'[i] = w.payload
      BY <1>1, <1>2, <2>2
    <3>2. \E q \in Runs : /\ delivery[q][i].at = "ambiguous"
                          /\ delivery[q][i].payload = w.payload
      BY <1>3, <3>1 DEF SettleInv, LateIsDoubted
    <3> QED
      BY <1>2, <3>1, <3>2 DEF Told, Telling
  <2> QED
    BY <2>1, <2>2
<1>4. \A i \in Items : Deleted(i)' <=> Deleted(i)
  BY <1>2 DEF Deleted
<1>5. LateIsDoubted'
  BY <1>2 DEF SettleInv, LateIsDoubted
<1>6. HolderIsTold'
  BY <1>2, <1>3, <1>4 DEF SettleInv, HolderIsTold
<1>7. DeliveredIsTold'
  BY <1>2, <1>3, <1>4 DEF SettleInv, DeliveredIsTold
<1> QED
  BY <1>5, <1>6, <1>7 DEF SettleInv

\* SettleInv is inductive while no run dies in the middle of a delivery.
LEMMA NextSettleInv ==
    ASSUME ~CanStop, ~EqualRevisionMerge, SettleInv, [Next]_vars
    PROVE  SettleInv'
<1>1. OrderInv /\ OrderInv'
  BY NextOrderInv DEF SettleInv
<1>2. CASE UNCHANGED vars
  BY <1>1, <1>2 DEF vars, SettleInv, LateIsDoubted, HolderIsTold,
                    DeliveredIsTold, Told, Deleted
<1>3. CASE RewritingStep
  BY <1>1, <1>3, RewritingStepRewrites, RewritesSettle
<1>4. ASSUME NEW r \in Runs, ClaimOutboxTargets(r) \/ StopRun(r)
      PROVE  SettleInv'
  BY <1>1, <1>4, ClaimSettles DEF StopRun
<1>5. ASSUME NEW r \in Runs, NEW i \in Items, FiberStep(r, i)
      PROVE  SettleInv'
  BY <1>1, <1>5, FiberSettles
<1>6. ASSUME NEW w \in late, ApplyLate(w) \/ DropLate(w)
      PROVE  SettleInv'
  BY <1>1, <1>6, LateSettles
<1> QED
  BY <1>2, <1>3, <1>4, <1>5, <1>6, StepKinds

\* However often targets are cancelled and enqueued again around a delivery, a
\* row that settles once every older fiber has finished is right about the
\* upstream and about the writes still under way (deliverClaimed,
\* acknowledgeOutboxTarget, markOutboxUncertain), as long as no run dies
\* between a write and its bookkeeping and no merge joins two different states
\* of one revision.
THEOREM CancelledDeliveriesAreSettled ==
    ASSUME ~CanStop, ~EqualRevisionMerge
    PROVE  Spec => []CancelledDeliveriesSettle
<1>1. SettleInv => CancelledDeliveriesSettle
  <2> SUFFICES ASSUME SettleInv, NEW i \in Items,
                      Settled(i), Unattended(i), ~Deleted(i)
               PROVE  /\ remote[i] = outbox[i].payload
                      /\ \A w \in late : w.item = i => w.payload = outbox[i].payload
    BY DEF CancelledDeliveriesSettle, Deleted
  <2>1. ASSUME NEW r \in Runs, delivery[r][i].at \in Telling
        PROVE  delivery[r][i].payload = outbox[i].payload
    <3>1. delivery[r][i].at # "none"
      BY <2>1 DEF Telling
    <3> QED
      BY <3>1 DEF SettleInv, OrderInv, FiberIsOrdered, Unattended
  <2>2. remote[i] = outbox[i].payload
    BY <2>1 DEF SettleInv, DeliveredIsTold, Settled, Told
  <2>3. ASSUME NEW w \in late, w.item = i
        PROVE  w.payload = outbox[i].payload
    BY <2>1, <2>3 DEF SettleInv, LateIsDoubted, Settled, Telling
  <2> QED
    BY <2>2, <2>3
<1>2. SettleInv /\ [Next]_vars => SettleInv'
  BY NextSettleInv
<1> QED
  BY <1>1, <1>2, InitSettleInv, PTL DEF Spec

-----------------------------------------------------------------------------
(* Deliveries whose targets last                                           *)

\* The fibers between the dispatch gate and their bookkeeping.
Dispatched == {"dispatched", "sent", "applied", "succeeded", "ambiguous"}

\* A dispatched fiber holds the lease, for the desired state, until the row is
\* doubted.
DispatchedHold ==
    \A r \in Runs, i \in Items :
        ~outbox[i].uncertain /\ delivery[r][i].at \in Dispatched =>
            /\ outbox[i].owner = r
            /\ outbox[i].dispatched
            /\ delivery[r][i].desired = outbox[i].desired

\* A late write that no row doubts is of the desired state, and the lease of
\* the attempt that sent it has still to be taken back.
LateIsHeld ==
    \A w \in late :
        ~outbox[w.item].uncertain =>
            /\ w.payload = outbox[w.item].payload
            /\ outbox[w.item].owner # NoRun
            /\ outbox[w.item].dispatched
            /\ delivery[outbox[w.item].owner][w.item].at \in {"none", "ambiguous"}

\* What a fiber saw applied is what the upstream holds, until the row is doubted.
AppliedIsHeld ==
    \A r \in Runs, i \in Items :
        ~outbox[i].uncertain /\ delivery[r][i].at \in {"applied", "succeeded"} =>
            remote[i] = delivery[r][i].payload

\* SettledRowsAreTrue is not inductive: that nothing wrong can reach the
\* upstream of a settled row rests on who holds the lease and on the dispatch
\* mark, which turns into a doubt when the lease is lost.
TruthInv ==
    /\ OrderInv
    /\ TargetsLast
    /\ DispatchedHold
    /\ LateIsHeld
    /\ AppliedIsHeld
    /\ SettledIsApplied

LEMMA InitTruthInv == Init => TruthInv
<1> SUFFICES ASSUME Init PROVE TruthInv
  OBVIOUS
<1>1. \A r \in Runs, i \in Items : delivery[r][i].at = "none"
  BY DEF Init, NoFiber
<1>2. late = {}
  BY DEF Init
<1>3. PICK canonical \in [Items -> Canonicals] :
        /\ item = [i \in Items |-> [canonical |-> canonical[i],
                                    generation |-> 0, bound |-> TRUE]]
        /\ outbox = [i \in Items |-> AbsentRow(canonical[i])]
  BY DEF Init
<1>4. \A i \in Items : outbox[i].status = "absent" /\ item[i].bound
  BY <1>3 DEF AbsentRow
<1>5. TargetsLast
  BY <1>4 DEF Init, TargetsLast, Lasts
<1> QED
  BY <1>1, <1>2, <1>4, <1>5, InitOrderInv
     DEF TruthInv, DispatchedHold, LateIsHeld, AppliedIsHeld, SettledIsApplied,
         Settled, Dispatched

\* Rows are rewritten: an attempt that loses its lease leaves a doubt.
LEMMA RewritesKeepTruth ==
    ASSUME Lasting, TruthInv, Rewrites, OrderInv'
    PROVE  TruthInv'
<1>1. /\ \A i \in Items : outbox[i] \in Row /\ outbox'[i] \in Row
      /\ \A w \in late : w.item \in Items
  BY DEF TruthInv, OrderInv, IInv, TypeOK, Write
<1>2. /\ UNCHANGED <<delivery, remote, late>>
      /\ \A i \in Items : /\ Advances(outbox[i], outbox'[i])
                          /\ Remembers(outbox[i], outbox'[i])
      /\ TargetsLast'
  BY DEF Rewrites, TruthInv
<1>3. \A i \in Items :
        /\ ~outbox'[i].uncertain => ~outbox[i].uncertain
        /\ ~outbox'[i].uncertain /\ outbox[i].owner # NoRun /\ outbox[i].dispatched
             => /\ outbox'[i].owner = outbox[i].owner
                /\ outbox'[i].dispatched = outbox[i].dispatched
                /\ outbox'[i].desired = outbox[i].desired
  BY <1>2 DEF Advances, Remembers
<1>4. DispatchedHold'
  BY <1>2, <1>3, NoRunAssumption DEF TruthInv, DispatchedHold
<1>5. LateIsHeld'
  <2> SUFFICES ASSUME NEW w \in late', ~outbox'[w.item].uncertain
               PROVE  /\ w.payload = outbox'[w.item].payload
                      /\ outbox'[w.item].owner # NoRun
                      /\ outbox'[w.item].dispatched
                      /\ delivery'[outbox'[w.item].owner][w.item].at
                           \in {"none", "ambiguous"}
    BY DEF LateIsHeld
  <2>1. PICK i \in Items : i = w.item
    BY <1>1, <1>2
  <2>2. w \in late /\ ~outbox[i].uncertain
    BY <1>2, <1>3, <2>1
  <2>3. /\ w.payload = outbox[i].payload
        /\ outbox[i].owner # NoRun
        /\ outbox[i].dispatched
        /\ delivery[outbox[i].owner][i].at \in {"none", "ambiguous"}
        /\ outbox[i].status # "absent"
    BY <2>1, <2>2 DEF TruthInv, LateIsHeld, OrderInv
  <2>4. /\ outbox'[i].owner = outbox[i].owner
        /\ outbox'[i].dispatched = outbox[i].dispatched
        /\ outbox'[i].desired = outbox[i].desired
    BY <1>3, <2>1, <2>3
  <2>5. outbox'[i].payload = outbox[i].payload
    BY <1>2, <2>3, <2>4 DEF Advances
  <2> QED
    BY <1>2, <2>1, <2>3, <2>4, <2>5
<1>6. AppliedIsHeld'
  BY <1>2, <1>3 DEF TruthInv, AppliedIsHeld
<1>7. SettledIsApplied'
  <2> SUFFICES ASSUME NEW i \in Items, Settled(i)'
               PROVE  remote'[i] = outbox'[i].payload
    BY DEF SettledIsApplied
  <2>1. /\ Advances(outbox[i], outbox'[i])
        /\ Ordered(outbox[i], userState[item[i].canonical])
        /\ Lasts(outbox[i], i, item)
    BY <1>2 DEF TruthInv, OrderInv, RowsAreOrdered, TargetsLast
  <2>2. /\ outbox[i].status # "absent"
        /\ outbox[i].delivered = outbox[i].desired
        /\ outbox'[i].payload = outbox[i].payload
        /\ ~outbox[i].uncertain
    BY <1>1, <2>1 DEF Advances, Ordered, Row, Settled
  <2>3. Settled(i)
    BY <2>1, <2>2 DEF Settled, Lasts
  <2> QED
    BY <1>2, <2>2, <2>3 DEF TruthInv, SettledIsApplied
<1> QED
  BY <1>2, <1>4, <1>5, <1>6, <1>7 DEF TruthInv

\* Rows are claimed: only a row without a lease is, and one whose attempt was
\* dispatched is doubted with it.
LEMMA ClaimKeepsTruth ==
    ASSUME TruthInv, NEW r \in Runs, ClaimOutboxTargets(r), OrderInv'
    PROVE  TruthInv'
<1>1. /\ OrderInv
      /\ \A w \in late : w.item \in Items
      /\ \A i \in Items : outbox[i].owner \in Runs \cup {NoRun}
  BY DEF TruthInv, OrderInv, IInv, TypeOK, Write, Row
<1>2. /\ UNCHANGED <<item, server, remote, late>>
      /\ \A i \in Items :
           /\ delivery[r][i].at = "none"
           /\ \A q \in Runs \ {r} : delivery'[q][i] = delivery[q][i]
           /\ outbox'[i].status = outbox[i].status
           /\ outbox'[i].canonical = outbox[i].canonical
           /\ outbox'[i].desired = outbox[i].desired
           /\ outbox'[i].delivered = outbox[i].delivered
           /\ outbox'[i].payload = outbox[i].payload
           /\ outbox[i].uncertain => outbox'[i].uncertain
           /\ \/ /\ delivery'[r][i] = delivery[r][i]
                 /\ Remembers(outbox[i], outbox'[i])
              \/ /\ delivery'[r][i].at = "claimed"
                 /\ outbox[i].owner # NoRun /\ outbox[i].dispatched
                      => outbox'[i].uncertain
  BY <1>1, ClaimEffect
<1>3. \A i \in Items :
        ~outbox'[i].uncertain /\ outbox[i].owner # NoRun /\ outbox[i].dispatched
          => /\ outbox'[i].owner = outbox[i].owner
             /\ outbox'[i].dispatched = outbox[i].dispatched
             /\ delivery'[r][i] = delivery[r][i]
  BY <1>2 DEF Remembers
<1>4. \A q \in Runs, i \in Items :
        delivery'[q][i].at \in Dispatched =>
          q # r /\ delivery'[q][i] = delivery[q][i]
  BY <1>2 DEF Dispatched
<1>5. TargetsLast'
  BY <1>2 DEF TruthInv, TargetsLast, Lasts, EligibleTarget
<1>6. DispatchedHold'
  <2> SUFFICES ASSUME NEW q \in Runs, NEW i \in Items,
                      ~outbox'[i].uncertain, delivery'[q][i].at \in Dispatched
               PROVE  /\ outbox'[i].owner = q
                      /\ outbox'[i].dispatched
                      /\ delivery'[q][i].desired = outbox'[i].desired
    BY DEF DispatchedHold
  <2>1. /\ delivery'[q][i] = delivery[q][i]
        /\ outbox[i].owner = q
        /\ outbox[i].dispatched
        /\ delivery[q][i].desired = outbox[i].desired
    BY <1>2, <1>4 DEF TruthInv, DispatchedHold
  <2> QED
    BY <1>2, <1>3, <2>1, NoRunAssumption
<1>7. LateIsHeld'
  <2> SUFFICES ASSUME NEW w \in late', ~outbox'[w.item].uncertain
               PROVE  /\ w.payload = outbox'[w.item].payload
                      /\ outbox'[w.item].owner # NoRun
                      /\ outbox'[w.item].dispatched
                      /\ delivery'[outbox'[w.item].owner][w.item].at
                           \in {"none", "ambiguous"}
    BY DEF LateIsHeld
  <2>1. PICK i \in Items : i = w.item
    BY <1>1, <1>2
  <2>2. /\ w.payload = outbox[i].payload
        /\ outbox[i].owner # NoRun
        /\ outbox[i].dispatched
        /\ delivery[outbox[i].owner][i].at \in {"none", "ambiguous"}
    BY <1>2, <2>1 DEF TruthInv, LateIsHeld
  <2>3. /\ outbox'[i].owner = outbox[i].owner
        /\ outbox'[i].dispatched = outbox[i].dispatched
        /\ delivery'[r][i] = delivery[r][i]
    BY <1>3, <2>1, <2>2
  <2>4. delivery'[outbox[i].owner][i] = delivery[outbox[i].owner][i]
    BY <1>1, <1>2, <2>2, <2>3
  <2> QED
    BY <1>2, <2>1, <2>2, <2>3, <2>4
<1>8. AppliedIsHeld'
  BY <1>2, <1>4 DEF TruthInv, AppliedIsHeld, Dispatched
<1>9. SettledIsApplied'
  BY <1>2 DEF TruthInv, SettledIsApplied, Settled
<1> QED
  BY <1>5, <1>6, <1>7, <1>8, <1>9 DEF TruthInv

\* A run dies: the lease it leaves keeps the mark of what it had sent.
LEMMA StopKeepsTruth ==
    ASSUME TruthInv, NEW r \in Runs, StopRun(r), OrderInv'
    PROVE  TruthInv'
<1>1. /\ OrderInv
      /\ \A w \in late : w.item \in Items
      /\ \A i \in Items : outbox[i].owner \in Runs \cup {NoRun}
      /\ NoFiber.at = "none"
  BY DEF TruthInv, OrderInv, IInv, TypeOK, Write, Row, NoFiber
<1>2. /\ UNCHANGED <<userState, item, server, outbox, remote>>
      /\ \A q \in Runs, i \in Items :
           delivery'[q][i] = IF q = r THEN NoFiber ELSE delivery[q][i]
      /\ \A w \in late' :
           \/ w \in late
           \/ /\ w.item \in Items
              /\ delivery[r][w.item].at = "sent"
              /\ delivery[r][w.item].payload = w.payload
  BY <1>1, StopEffect DEF OrderInv, IInv
<1>3. TargetsLast'
  BY <1>2 DEF TruthInv, TargetsLast, Lasts, EligibleTarget
<1>4. DispatchedHold'
  BY <1>1, <1>2 DEF TruthInv, DispatchedHold, Dispatched
<1>5. LateIsHeld'
  <2> SUFFICES ASSUME NEW w \in late', ~outbox[w.item].uncertain
               PROVE  /\ w.payload = outbox[w.item].payload
                      /\ outbox[w.item].owner # NoRun
                      /\ outbox[w.item].dispatched
                      /\ delivery'[outbox[w.item].owner][w.item].at
                           \in {"none", "ambiguous"}
    BY <1>2 DEF LateIsHeld
  <2>1. PICK i \in Items : i = w.item
    BY <1>1, <1>2
  <2>2. CASE w \in late
    <3>1. /\ w.payload = outbox[i].payload
          /\ outbox[i].owner # NoRun
          /\ outbox[i].dispatched
          /\ delivery[outbox[i].owner][i].at \in {"none", "ambiguous"}
      BY <2>1, <2>2 DEF TruthInv, LateIsHeld
    <3> QED
      BY <1>1, <1>2, <2>1, <3>1
  <2>3. CASE /\ delivery[r][i].at = "sent"
             /\ delivery[r][i].payload = w.payload
    <3>1. /\ outbox[i].owner = r
          /\ outbox[i].dispatched
          /\ delivery[r][i].desired = outbox[i].desired
      BY <2>1, <2>3 DEF TruthInv, DispatchedHold, Dispatched
    <3>2. delivery[r][i].payload = outbox[i].payload
      BY <1>1, <2>3, <3>1 DEF OrderInv, FiberIsOrdered
    <3> QED
      BY <1>1, <1>2, <2>1, <2>3, <3>1, <3>2, NoRunAssumption
  <2> QED
    BY <1>2, <2>1, <2>2, <2>3
<1>6. AppliedIsHeld'
  BY <1>1, <1>2 DEF TruthInv, AppliedIsHeld
<1>7. SettledIsApplied'
  BY <1>2 DEF TruthInv, SettledIsApplied, Settled
<1> QED
  BY <1>3, <1>4, <1>5, <1>6, <1>7 DEF TruthInv

\* A fiber takes a step: only the holder of a lease that is not doubted has
\* anything under way, and it is the desired state.
LEMMA FiberKeepsTruth ==
    ASSUME TruthInv, NEW r \in Runs, NEW i \in Items, FiberStep(r, i), OrderInv'
    PROVE  TruthInv'
<1>1. /\ OrderInv
      /\ \A w \in late : w.item \in Items
      /\ \A j \in Items : outbox[j].owner \in Runs \cup {NoRun}
  BY DEF TruthInv, OrderInv, IInv, TypeOK, Write, Row
<1>2. /\ UNCHANGED <<item, server>>
      /\ \A j \in Items \ {i} : outbox'[j] = outbox[j] /\ remote'[j] = remote[j]
      /\ \A q \in Runs, j \in Items :
           q # r \/ j # i => delivery'[q][j] = delivery[q][j]
      /\ delivery'[r][i].at # "none" =>
           /\ delivery'[r][i].desired = delivery[r][i].desired
           /\ delivery'[r][i].payload = delivery[r][i].payload
      /\ \A w \in late' : w.item # i => w \in late
      /\ outbox'[i].status = outbox[i].status
      /\ outbox'[i].canonical = outbox[i].canonical
      /\ outbox'[i].desired = outbox[i].desired
      /\ outbox'[i].payload = outbox[i].payload
      /\ outbox[i].uncertain => outbox'[i].uncertain
      /\ delivery[r][i].at # "none"
  BY <1>1, FiberFrame
<1>3. FiberMove(r, i)
  BY <1>1, FiberStepIsMove
<1>4. \A q \in Runs : \A j \in Items \ {i} : delivery'[q][j] = delivery[q][j]
  BY <1>2
<1>5. MayTouchServer(r, i) =>
        /\ outbox[i].owner = r
        /\ delivery[r][i].desired = outbox[i].desired
        /\ delivery[r][i].payload = outbox[i].payload
  BY <1>1, <1>2 DEF OrderInv, MayTouchServer, OwnsLease, FiberIsOrdered
<1>6. ASSUME ~outbox[i].uncertain, delivery[r][i].at \in Dispatched
      PROVE  /\ outbox[i].owner = r
             /\ outbox[i].dispatched
             /\ delivery[r][i].payload = outbox[i].payload
             /\ delivery[r][i].desired = outbox[i].desired
  BY <1>1, <1>2, <1>6 DEF TruthInv, DispatchedHold, OrderInv, FiberIsOrdered
<1>7. ASSUME outbox[i].owner # r
      PROVE  Bookkeeping(outbox[i], outbox'[i])
  BY <1>3, <1>5, <1>7 DEF FiberMove, OwnsLease
<1>8. TargetsLast'
  <2>1. \A j \in Items : /\ outbox'[j].status = outbox[j].status
                         /\ outbox'[j].canonical = outbox[j].canonical
    BY <1>2
  <2> QED
    BY <1>2, <2>1 DEF TruthInv, TargetsLast, Lasts, EligibleTarget
<1>9. DispatchedHold'
  <2> SUFFICES ASSUME NEW q \in Runs, NEW j \in Items,
                      ~outbox'[j].uncertain, delivery'[q][j].at \in Dispatched
               PROVE  /\ outbox'[j].owner = q
                      /\ outbox'[j].dispatched
                      /\ delivery'[q][j].desired = outbox'[j].desired
    BY DEF DispatchedHold
  <2>1. CASE j # i
    BY <1>2, <1>4, <2>1 DEF TruthInv, DispatchedHold
  <2>2. CASE j = i /\ q # r
    <3>1. /\ delivery'[q][i] = delivery[q][i]
          /\ outbox[i].owner = q
          /\ outbox[i].dispatched
          /\ delivery[q][i].desired = outbox[i].desired
      BY <1>2, <2>2 DEF TruthInv, DispatchedHold
    <3> QED
      BY <1>2, <1>7, <2>2, <3>1 DEF Bookkeeping
  <2>3. CASE j = i /\ q = r
    <3>1. /\ delivery'[r][i].desired = delivery[r][i].desired
          /\ ~outbox[i].uncertain
      BY <1>2, <2>3 DEF Dispatched
    <3>2. CASE delivery[r][i].at = "claimed"
      <4>1. /\ MayTouchServer(r, i)
            /\ outbox'[i].owner = outbox[i].owner
            /\ outbox'[i].dispatched
        BY <1>3, <2>3, <3>2 DEF FiberMove, Dispatched
      <4> QED
        BY <1>2, <1>5, <2>3, <3>1, <4>1
    <3>3. CASE delivery[r][i].at # "claimed"
      <4>1. /\ delivery[r][i].at \in Dispatched
            /\ Bookkeeping(outbox[i], outbox'[i])
        BY <1>3, <2>3, <3>3 DEF FiberMove, Dispatched
      <4> QED
        BY <1>2, <1>6, <2>3, <3>1, <4>1 DEF Bookkeeping
    <3> QED
      BY <3>2, <3>3
  <2> QED
    BY <2>1, <2>2, <2>3
<1>10. LateIsHeld'
  <2> SUFFICES ASSUME NEW w \in late', ~outbox'[w.item].uncertain
               PROVE  /\ w.payload = outbox'[w.item].payload
                      /\ outbox'[w.item].owner # NoRun
                      /\ outbox'[w.item].dispatched
                      /\ delivery'[outbox'[w.item].owner][w.item].at
                           \in {"none", "ambiguous"}
    BY DEF LateIsHeld
  <2>1. CASE w.item # i
    <3>1. PICK j \in Items \ {i} : j = w.item
      BY <1>1, <1>2, <2>1
    <3>2. w \in late /\ outbox'[j] = outbox[j]
      BY <1>2, <2>1, <3>1
    <3>3. /\ w.payload = outbox[j].payload
          /\ outbox[j].owner # NoRun
          /\ outbox[j].dispatched
          /\ delivery[outbox[j].owner][j].at \in {"none", "ambiguous"}
      BY <3>1, <3>2 DEF TruthInv, LateIsHeld
    <3>4. delivery'[outbox[j].owner][j] = delivery[outbox[j].owner][j]
      BY <1>1, <1>4, <3>3
    <3> QED
      BY <3>1, <3>2, <3>3, <3>4
  <2>2. CASE w.item = i /\ w \in late
    <3>1. ~outbox[i].uncertain
      BY <1>2, <2>2
    <3>2. /\ w.payload = outbox[i].payload
          /\ outbox[i].owner # NoRun
          /\ outbox[i].dispatched
          /\ delivery[outbox[i].owner][i].at \in {"none", "ambiguous"}
      BY <2>2, <3>1 DEF TruthInv, LateIsHeld
    <3>3. outbox[i].owner # r
      <4>1. delivery[r][i].at \notin {"none", "ambiguous"}
        BY <1>2, <1>3, <2>2 DEF FiberMove
      <4> QED
        BY <3>2, <4>1
    <3>4. /\ Bookkeeping(outbox[i], outbox'[i])
          /\ delivery'[outbox[i].owner][i] = delivery[outbox[i].owner][i]
      BY <1>1, <1>2, <1>7, <3>2, <3>3
    <3> QED
      BY <1>2, <2>2, <3>2, <3>4 DEF Bookkeeping
  <2>3. CASE w.item = i /\ w \notin late
    <3>1. /\ delivery[r][i].at = "sent"
          /\ delivery'[r][i].at = "ambiguous"
          /\ w.payload = delivery[r][i].payload
          /\ Bookkeeping(outbox[i], outbox'[i])
      BY <1>3, <2>3 DEF FiberMove
    <3>2. ~outbox[i].uncertain
      BY <1>2, <2>3
    <3>3. delivery[r][i].at \in Dispatched
      BY <3>1 DEF Dispatched
    <3> QED
      BY <1>2, <1>6, <2>3, <3>1, <3>2, <3>3, NoRunAssumption DEF Bookkeeping
  <2> QED
    BY <2>1, <2>2, <2>3
<1>11. AppliedIsHeld'
  <2> SUFFICES ASSUME NEW q \in Runs, NEW j \in Items,
                      ~outbox'[j].uncertain,
                      delivery'[q][j].at \in {"applied", "succeeded"}
               PROVE  remote'[j] = delivery'[q][j].payload
    BY DEF AppliedIsHeld
  <2>1. CASE j # i
    BY <1>2, <1>4, <2>1 DEF TruthInv, AppliedIsHeld
  <2>2. CASE j = i /\ delivery[r][i].at = "sent" /\ delivery'[r][i].at = "applied"
    <3>1. remote'[i] = delivery[r][i].payload
      BY <1>3, <2>2 DEF FiberMove
    <3>2. ~outbox[i].uncertain /\ delivery[r][i].at \in Dispatched
      BY <1>2, <2>2 DEF Dispatched
    <3>3. q = r
      <4>1. CASE q # r
        <5>1. delivery[q][i].at \in Dispatched
          BY <1>2, <2>2, <4>1 DEF Dispatched
        <5>2. outbox[i].owner = q
          BY <3>2, <5>1 DEF TruthInv, DispatchedHold
        <5> QED
          BY <1>6, <3>2, <4>1, <5>2
      <4> QED
        BY <4>1
    <3> QED
      BY <1>2, <2>2, <3>1, <3>3
  <2>3. CASE /\ j = i
             /\ ~(delivery[r][i].at = "sent" /\ delivery'[r][i].at = "applied")
    <3>1. UNCHANGED remote
      BY <1>3, <2>3 DEF FiberMove
    <3>2. ~outbox[i].uncertain
      BY <1>2, <2>3
    <3>3. /\ delivery[q][i].at \in {"applied", "succeeded"}
          /\ delivery'[q][i].payload = delivery[q][i].payload
      BY <1>2, <1>3, <2>3 DEF FiberMove
    <3> QED
      BY <2>3, <3>1, <3>2, <3>3 DEF TruthInv, AppliedIsHeld
  <2> QED
    BY <2>1, <2>2, <2>3
<1>12. SettledIsApplied'
  <2> SUFFICES ASSUME NEW j \in Items, Settled(j)'
               PROVE  remote'[j] = outbox'[j].payload
    BY DEF SettledIsApplied
  <2>1. CASE j # i
    BY <1>2, <2>1 DEF TruthInv, SettledIsApplied, Settled
  <2>2. CASE j = i
    <3>1. ~outbox[i].uncertain /\ outbox'[i].payload = outbox[i].payload
      BY <1>2, <2>2 DEF Settled
    <3>2. CASE delivery[r][i].at = "sent" /\ delivery'[r][i].at = "applied"
      <4>1. remote'[i] = delivery[r][i].payload
        BY <1>3, <3>2 DEF FiberMove
      <4>2. delivery[r][i].at \in Dispatched
        BY <3>2 DEF Dispatched
      <4> QED
        BY <1>6, <2>2, <3>1, <4>1, <4>2
    <3>3. CASE delivery[r][i].at = "succeeded"
      <4>1. UNCHANGED remote /\ delivery[r][i].at \in Dispatched
        BY <1>3, <3>3 DEF FiberMove, Dispatched
      <4>2. remote[i] = delivery[r][i].payload
        BY <3>1, <3>3 DEF TruthInv, AppliedIsHeld
      <4> QED
        BY <1>6, <2>2, <3>1, <4>1, <4>2
    <3>4. CASE /\ ~(delivery[r][i].at = "sent" /\ delivery'[r][i].at = "applied")
               /\ delivery[r][i].at # "succeeded"
      <4>1. UNCHANGED remote /\ outbox'[i].delivered = outbox[i].delivered
        BY <1>3, <3>4 DEF FiberMove, Bookkeeping
      <4>2. Settled(i)
        BY <1>2, <2>2, <3>1, <4>1 DEF Settled
      <4> QED
        BY <2>2, <3>1, <4>1, <4>2 DEF TruthInv, SettledIsApplied
    <3> QED
      BY <3>2, <3>3, <3>4
  <2> QED
    BY <2>1, <2>2
<1> QED
  BY <1>8, <1>9, <1>10, <1>11, <1>12 DEF TruthInv

\* A late write arrives or is lost: an undoubted one changes nothing.
LEMMA LateKeepsTruth ==
    ASSUME TruthInv, NEW w \in late, ApplyLate(w) \/ DropLate(w), OrderInv'
    PROVE  TruthInv'
<1>1. /\ remote \in [Items -> Payload]
      /\ w.item \in Items
  BY DEF TruthInv, OrderInv, IInv, TypeOK, Write
<1>2. /\ UNCHANGED <<item, server, outbox, delivery>>
      /\ late' \subseteq late
      /\ \/ UNCHANGED remote
         \/ remote' = [remote EXCEPT ![w.item] = w.payload]
  BY DEF ApplyLate, DropLate
<1>3. ASSUME NEW i \in Items, ~outbox[i].uncertain, remote'[i] # remote[i]
      PROVE  /\ remote'[i] = outbox[i].payload
             /\ \A q \in Runs : delivery[q][i].at \notin {"applied", "succeeded"}
  <2>1. w.item = i /\ remote'[i] = w.payload
    BY <1>1, <1>2, <1>3
  <2>2. /\ w.payload = outbox[i].payload
        /\ delivery[outbox[i].owner][i].at \in {"none", "ambiguous"}
    BY <1>3, <2>1 DEF TruthInv, LateIsHeld
  <2>3. ASSUME NEW q \in Runs, delivery[q][i].at \in {"applied", "succeeded"}
        PROVE  FALSE
    <3>1. outbox[i].owner = q
      BY <1>3, <2>3 DEF TruthInv, DispatchedHold, Dispatched
    <3> QED
      BY <2>2, <2>3, <3>1
  <2> QED
    BY <2>1, <2>2, <2>3
<1>4. TargetsLast'
  BY <1>2 DEF TruthInv, TargetsLast, Lasts, EligibleTarget
<1>5. DispatchedHold' /\ LateIsHeld'
  BY <1>2 DEF TruthInv, DispatchedHold, LateIsHeld
<1>6. AppliedIsHeld'
  BY <1>2, <1>3 DEF TruthInv, AppliedIsHeld
<1>7. SettledIsApplied'
  BY <1>2, <1>3 DEF TruthInv, SettledIsApplied, Settled
<1> QED
  BY <1>4, <1>5, <1>6, <1>7 DEF TruthInv

\* TruthInv is inductive while no target loses its eligibility.
LEMMA NextTruthInv ==
    ASSUME Lasting, ~EqualRevisionMerge, TruthInv, [Next]_vars
    PROVE  TruthInv'
<1>1. OrderInv /\ OrderInv'
  BY NextOrderInv DEF TruthInv
<1>2. CASE UNCHANGED vars
  <2>1. TargetsLast'
    BY <1>2 DEF vars, TruthInv, TargetsLast, Lasts, EligibleTarget
  <2> QED
    BY <1>1, <1>2, <2>1 DEF vars, TruthInv, DispatchedHold, LateIsHeld,
                            AppliedIsHeld, SettledIsApplied, Settled
<1>3. CASE RewritingStep
  BY <1>1, <1>3, RewritingStepRewrites, RewritesKeepTruth
<1>4. ASSUME NEW r \in Runs, ClaimOutboxTargets(r) \/ StopRun(r)
      PROVE  TruthInv'
  BY <1>1, <1>4, ClaimKeepsTruth, StopKeepsTruth
<1>5. ASSUME NEW r \in Runs, NEW i \in Items, FiberStep(r, i)
      PROVE  TruthInv'
  BY <1>1, <1>5, FiberKeepsTruth
<1>6. ASSUME NEW w \in late, ApplyLate(w) \/ DropLate(w)
      PROVE  TruthInv'
  BY <1>1, <1>6, LateKeepsTruth
<1> QED
  BY <1>2, <1>3, <1>4, <1>5, <1>6, StepKinds

\* A settled row tells the truth about the upstream, and no write of another
\* state that nobody waits for can still reach it, however many runs overlap
\* and die and whatever answers are lost (claimOutboxTargets,
\* markOutboxDispatched, acknowledgeOutboxTarget, markOutboxUncertain), as long
\* as no target loses its eligibility and no merge joins two different states
\* of one revision.
THEOREM SettledRowsStayTrue ==
    ASSUME Lasting, ~EqualRevisionMerge
    PROVE  Spec => []SettledRowsAreTrue
<1>1. TruthInv => SettledRowsAreTrue
  <2> SUFFICES ASSUME TruthInv PROVE LateWriteIsRemembered
    BY DEF TruthInv, SettledRowsAreTrue
  <2> QED
    BY DEF TruthInv, LateIsHeld, LateWriteIsRemembered, Settled
<1>2. TruthInv /\ [Next]_vars => TruthInv'
  BY NextTruthInv
<1> QED
  BY <1>1, <1>2, InitTruthInv, PTL DEF Spec

-----------------------------------------------------------------------------
(* The outbox is a state replication                                       *)

Shown(w, h, p, s) == [wanted |-> w, held |-> h, pending |-> p, settled |-> s]

\* What the abstract replication sees of an item.
View(i) == Shown(outbox[i].payload, remote[i], UnderWay(i), Settled(i))

\* The steps of the abstract replication, by what they change.
LEMMA SeenSteps ==
    ASSUME NEW w, NEW h, NEW p, NEW s
    PROVE  LET t == Shown(w, h, p, s)
           IN /\ Replication!Step(t, t)
              /\ \A v \in Payload : Replication!Step(t, Shown(v, h, p, FALSE))
              /\ Replication!Step(t, Shown(w, h, p, FALSE))
              /\ \A q \in SUBSET p : Replication!Step(t, Shown(w, h, q, s))
              /\ Replication!Step(t, Shown(w, h, p \cup {w}, s))
              /\ \A v \in p, q \in SUBSET p :
                   p \ {v} \subseteq q => Replication!Step(t, Shown(w, v, q, s))
              /\ h = w /\ p \subseteq {w} =>
                   Replication!Step(t, Shown(w, h, p, TRUE))
<1> DEFINE t == Shown(w, h, p, s)
<1>1. /\ t.wanted = w
      /\ t.held = h
      /\ t.pending = p
      /\ t.settled = s
  BY DEF Shown
<1>2. /\ \A v, z : [t EXCEPT !.wanted = v, !.settled = z] = Shown(v, h, p, z)
      /\ \A z : [t EXCEPT !.settled = z] = Shown(w, h, p, z)
      /\ \A q : [t EXCEPT !.pending = q] = Shown(w, h, q, s)
      /\ \A v, q : [t EXCEPT !.held = v, !.pending = q] = Shown(w, v, q, s)
  <2>1. ASSUME NEW v, NEW z
        PROVE  [t EXCEPT !.wanted = v, !.settled = z] = Shown(v, h, p, z)
    <3>1. [t EXCEPT !.wanted = v] = Shown(v, h, p, s)
      BY DEF Shown
    <3>2. [Shown(v, h, p, s) EXCEPT !.settled = z] = Shown(v, h, p, z)
      BY DEF Shown
    <3>3. [[t EXCEPT !.wanted = v] EXCEPT !.settled = z]
            = [t EXCEPT !.wanted = v, !.settled = z]
      OBVIOUS
    <3> QED
      BY <3>1, <3>2, <3>3
  <2>2. ASSUME NEW z
        PROVE  [t EXCEPT !.settled = z] = Shown(w, h, p, z)
    BY DEF Shown
  <2>3. ASSUME NEW q
        PROVE  [t EXCEPT !.pending = q] = Shown(w, h, q, s)
    BY DEF Shown
  <2>4. ASSUME NEW v, NEW q
        PROVE  [t EXCEPT !.held = v, !.pending = q] = Shown(w, v, q, s)
    <3>1. [t EXCEPT !.held = v] = Shown(w, v, p, s)
      BY DEF Shown
    <3>2. [Shown(w, v, p, s) EXCEPT !.pending = q] = Shown(w, v, q, s)
      BY DEF Shown
    <3>3. [[t EXCEPT !.held = v] EXCEPT !.pending = q]
            = [t EXCEPT !.held = v, !.pending = q]
      OBVIOUS
    <3> QED
      BY <3>1, <3>2, <3>3
  <2> QED
    BY <2>1, <2>2, <2>3, <2>4
<1> HIDE DEF t
<1> USE DEF Replication!Step
<1>3. Replication!Step(t, t)
  OBVIOUS
<1>4. \A v \in Payload : Replication!Step(t, Shown(v, h, p, FALSE))
  BY <1>2 DEF Replication!Want
<1>5. Replication!Step(t, Shown(w, h, p, FALSE))
  BY <1>2 DEF Replication!Doubt
<1>6. ASSUME NEW q \in SUBSET p
      PROVE  Replication!Step(t, Shown(w, h, q, s))
  <2>1. p \ q \in SUBSET p /\ p \ (p \ q) = q
    OBVIOUS
  <2>2. [t EXCEPT !.pending = t.pending \ (p \ q)] = Shown(w, h, q, s)
    BY <1>1, <1>2, <2>1
  <2>3. Replication!Lose(t, Shown(w, h, q, s))
    BY <1>1, <2>1, <2>2 DEF Replication!Lose
  <2> QED
    BY <2>3
<1>7. Replication!Step(t, Shown(w, h, p \cup {w}, s))
  BY <1>1, <1>2 DEF Replication!Send
<1>8. ASSUME NEW v \in p, NEW q \in SUBSET p, p \ {v} \subseteq q
      PROVE  Replication!Step(t, Shown(w, v, q, s))
  BY <1>1, <1>2, <1>8 DEF Replication!Arrive
<1>9. ASSUME h = w, p \subseteq {w}
      PROVE  Replication!Step(t, Shown(w, h, p, TRUE))
  BY <1>1, <1>2, <1>9 DEF Replication!Settle
<1> QED
  BY <1>3, <1>4, <1>5, <1>6, <1>7, <1>8, <1>9 DEF t

\* A step of every item is a step of the replication.
LEMMA ViewSteps ==
    ASSUME \A i \in Items : Replication!Step(View(i), View(i)')
    PROVE  Replication!Next
  BY DEF Replication!Next, View, Shown

\* Nothing happens to an item, or it is no longer settled.
LEMMA ViewSameOrDoubted ==
    ASSUME NEW i \in Items,
           outbox'[i].payload = outbox[i].payload,
           remote'[i] = remote[i],
           UnderWay(i)' = UnderWay(i),
           Settled(i)' => Settled(i)
    PROVE  Replication!Step(View(i), View(i)')
<1>1. Settled(i) \in BOOLEAN /\ Settled(i)' \in BOOLEAN
  BY DEF Settled
<1>2. Settled(i)' = Settled(i) \/ Settled(i)' = FALSE
  BY <1>1
<1> QED
  BY <1>2, SeenSteps DEF View

\* Writes of an item are given up.
LEMMA ViewLoses ==
    ASSUME NEW i \in Items,
           outbox'[i].payload = outbox[i].payload,
           remote'[i] = remote[i],
           UnderWay(i)' \subseteq UnderWay(i),
           Settled(i)' = Settled(i)
    PROVE  Replication!Step(View(i), View(i)')
  BY SeenSteps DEF View

\* What is under way of an item, element by element.
LEMMA UnderWayHas ==
    ASSUME NEW i \in Items
    PROVE  /\ \A p : p \in UnderWay(i) <=>
                \/ \E w \in late : w.item = i /\ p = w.payload
                \/ \E r \in Runs : /\ delivery[r][i].at \in {"dispatched", "sent"}
                                   /\ p = delivery[r][i].payload
           /\ \A p : p \in UnderWay(i)' <=>
                \/ \E w \in late' : w.item = i /\ p = w.payload
                \/ \E r \in Runs : /\ delivery'[r][i].at \in {"dispatched", "sent"}
                                   /\ p = delivery'[r][i].payload
  BY DEF UnderWay

\* Rows are rewritten: another state is wanted, or the row is doubted.
LEMMA RewritesReplicate ==
    ASSUME TruthInv, Rewrites, TruthInv', NEW i \in Items
    PROVE  Replication!Step(View(i), View(i)')
<1>1. /\ outbox[i] \in Row
      /\ outbox'[i] \in Row
      /\ Ordered(outbox[i], userState[item[i].canonical])
      /\ Lasts(outbox[i], i, item)
  BY DEF TruthInv, OrderInv, IInv, TypeOK, RowsAreOrdered, TargetsLast
<1>2. /\ UNCHANGED <<delivery, remote, late>>
      /\ Advances(outbox[i], outbox'[i])
  BY DEF Rewrites
<1>3. UnderWay(i)' = UnderWay(i)
  BY <1>2 DEF UnderWay
<1>4. Settled(i)' \in BOOLEAN
  BY DEF Settled
<1>5. CASE ~Settled(i)'
  <2>1. Settled(i)' = FALSE
    BY <1>4, <1>5
  <2>2. outbox'[i].payload \in Payload
    BY <1>1 DEF Row
  <2> QED
    BY <1>2, <1>3, <2>1, <2>2, SeenSteps DEF View
<1>6. CASE Settled(i)'
  <2>1. /\ outbox[i].status # "absent"
        /\ outbox[i].delivered = outbox[i].desired
        /\ outbox'[i].payload = outbox[i].payload
        /\ ~outbox[i].uncertain
    BY <1>1, <1>2, <1>6 DEF Advances, Ordered, Row, Settled
  <2>2. Settled(i)
    BY <1>1, <2>1 DEF Settled, Lasts
  <2> QED
    BY <1>2, <1>3, <2>1, <2>2, ViewSameOrDoubted
<1> QED
  BY <1>5, <1>6

\* Rows are claimed: nothing is sent yet, but an expired lease may be doubted.
LEMMA ClaimReplicates ==
    ASSUME TruthInv, NEW r \in Runs, ClaimOutboxTargets(r), NEW i \in Items
    PROVE  Replication!Step(View(i), View(i)')
<1>1. /\ UNCHANGED <<remote, late>>
      /\ delivery[r][i].at = "none"
      /\ \A q \in Runs \ {r} : delivery'[q][i] = delivery[q][i]
      /\ outbox'[i].status = outbox[i].status
      /\ outbox'[i].desired = outbox[i].desired
      /\ outbox'[i].delivered = outbox[i].delivered
      /\ outbox'[i].payload = outbox[i].payload
      /\ outbox[i].uncertain => outbox'[i].uncertain
      /\ \/ delivery'[r][i] = delivery[r][i]
         \/ delivery'[r][i].at = "claimed"
  BY ClaimEffect DEF TruthInv
<1>2. Settled(i)' => Settled(i)
  BY <1>1 DEF Settled
<1>3. ASSUME NEW q \in Runs
      PROVE  /\ delivery'[q][i].at \in {"dispatched", "sent"} <=>
                  delivery[q][i].at \in {"dispatched", "sent"}
             /\ delivery'[q][i].at \in {"dispatched", "sent"} =>
                  delivery'[q][i] = delivery[q][i]
  BY <1>1
<1>4. \A p : p \in UnderWay(i)' <=> p \in UnderWay(i)
  BY <1>1, <1>3, UnderWayHas
<1>5. UnderWay(i)' = UnderWay(i)
  BY <1>4
<1> QED
  BY <1>1, <1>2, <1>5, ViewSameOrDoubted

\* A run dies: what it had sent stays under way, the rest is given up.
LEMMA StopReplicates ==
    ASSUME TruthInv, NEW r \in Runs, StopRun(r), NEW i \in Items
    PROVE  Replication!Step(View(i), View(i)')
<1>1. /\ UNCHANGED <<outbox, remote>>
      /\ \A q \in Runs :
           delivery'[q][i] = IF q = r THEN NoFiber ELSE delivery[q][i]
      /\ \A w \in late' :
           \/ w \in late
           \/ /\ delivery[r][w.item].at = "sent"
              /\ delivery[r][w.item].payload = w.payload
      /\ NoFiber.at = "none"
  BY StopEffect DEF TruthInv, OrderInv, IInv, NoFiber
<1>2. UnderWay(i)' \subseteq UnderWay(i)
  <2> SUFFICES ASSUME NEW p, p \in UnderWay(i)' PROVE p \in UnderWay(i)
    OBVIOUS
  <2>1. CASE \E w \in late' : w.item = i /\ p = w.payload
    BY <1>1, <2>1, UnderWayHas
  <2>2. CASE \E q \in Runs : /\ delivery'[q][i].at \in {"dispatched", "sent"}
                             /\ p = delivery'[q][i].payload
    BY <1>1, <2>2, UnderWayHas
  <2> QED
    BY <2>1, <2>2, UnderWayHas
<1>3. Settled(i)' = Settled(i)
  BY <1>1 DEF Settled
<1> QED
  BY <1>1, <1>2, <1>3, ViewLoses

\* Only the desired state of an undoubted row is under way.
LEMMA UnderWayIsWanted ==
    ASSUME TruthInv, NEW i \in Items, ~outbox[i].uncertain
    PROVE  UnderWay(i) \subseteq {outbox[i].payload}
<1> SUFFICES ASSUME NEW p, p \in UnderWay(i) PROVE p = outbox[i].payload
  OBVIOUS
<1>1. CASE \E w \in late : w.item = i /\ p = w.payload
  BY <1>1 DEF TruthInv, LateIsHeld
<1>2. CASE \E r \in Runs : /\ delivery[r][i].at \in {"dispatched", "sent"}
                           /\ p = delivery[r][i].payload
  BY <1>2 DEF TruthInv, DispatchedHold, Dispatched, OrderInv, FiberIsOrdered
<1> QED
  BY <1>1, <1>2, UnderWayHas

\* A fiber takes a step: it sends the wanted state, is heard or given up, and
\* settles a row only with the wanted state held and no other under way.
LEMMA FiberReplicates ==
    ASSUME TruthInv, NEW r \in Runs, NEW i \in Items, FiberStep(r, i),
           NEW j \in Items
    PROVE  Replication!Step(View(j), View(j)')
<1>1. /\ \A k \in Items \ {i} : outbox'[k] = outbox[k] /\ remote'[k] = remote[k]
      /\ \A q \in Runs, k \in Items :
           q # r \/ k # i => delivery'[q][k] = delivery[q][k]
      /\ delivery'[r][i].at # "none" =>
           /\ delivery'[r][i].desired = delivery[r][i].desired
           /\ delivery'[r][i].payload = delivery[r][i].payload
      /\ outbox'[i].status = outbox[i].status
      /\ outbox'[i].desired = outbox[i].desired
      /\ outbox'[i].payload = outbox[i].payload
      /\ outbox[i].uncertain => outbox'[i].uncertain
      /\ delivery[r][i].at # "none"
  BY FiberFrame DEF TruthInv
<1>2. FiberMove(r, i)
  BY FiberStepIsMove DEF TruthInv
<1>3. \/ UNCHANGED late
      \/ /\ delivery[r][i].at = "sent"
         /\ delivery'[r][i].at = "ambiguous"
         /\ late' = late \cup {[item |-> i, payload |-> delivery[r][i].payload]}
  BY <1>2 DEF FiberMove
\* The other items.
<1>4. ASSUME j # i
      PROVE  Replication!Step(View(j), View(j)')
  <2>1. outbox'[j] = outbox[j] /\ remote'[j] = remote[j]
    BY <1>1, <1>4
  <2>2. \A q \in Runs : delivery'[q][j] = delivery[q][j]
    BY <1>1, <1>4
  <2>3. \A w : w.item = j => (w \in late' <=> w \in late)
    BY <1>3, <1>4
  <2>4. \A p : p \in UnderWay(j)' <=> p \in UnderWay(j)
    BY <2>2, <2>3, UnderWayHas
  <2>5. UnderWay(j)' = UnderWay(j)
    BY <2>4
  <2>6. Settled(j)' => Settled(j)
    BY <2>1 DEF Settled
  <2> QED
    BY <2>1, <2>5, <2>6, ViewSameOrDoubted
\* The item of the fiber: what the others have under way does not change.
<1> DEFINE pass == {"dispatched", "sent"}
           v == delivery[r][i].payload
<1>5. /\ delivery'[r][i].at \in pass => UnderWay(i)' \subseteq UnderWay(i) \cup {v}
      /\ delivery'[r][i].at \notin pass => UnderWay(i)' \subseteq UnderWay(i)
      /\ UnderWay(i) \ {v} \subseteq UnderWay(i)'
      /\ delivery'[r][i].at \in pass => v \in UnderWay(i)'
      /\ delivery[r][i].at \in pass => v \in UnderWay(i)
      /\ delivery[r][i].at \notin pass => UnderWay(i) \subseteq UnderWay(i)'
  <2>1. ASSUME NEW p, p \in UnderWay(i)'
        PROVE  \/ p \in UnderWay(i)
               \/ p = v /\ delivery'[r][i].at \in pass
    <3>1. CASE \E w \in late' : w.item = i /\ p = w.payload
      <4>1. PICK w \in late' : w.item = i /\ p = w.payload
        BY <3>1
      <4>2. CASE w \in late
        BY <4>1, <4>2, UnderWayHas
      <4>3. CASE w \notin late
        <5>1. p = v /\ delivery[r][i].at = "sent"
          BY <1>3, <4>1, <4>3
        <5> QED
          BY <5>1, UnderWayHas
      <4> QED
        BY <4>2, <4>3
    <3>2. CASE \E q \in Runs : /\ delivery'[q][i].at \in {"dispatched", "sent"}
                               /\ p = delivery'[q][i].payload
      <4>1. PICK q \in Runs : /\ delivery'[q][i].at \in {"dispatched", "sent"}
                              /\ p = delivery'[q][i].payload
        BY <3>2
      <4>2. CASE q # r
        BY <1>1, <4>1, <4>2, UnderWayHas
      <4>3. CASE q = r
        BY <1>1, <4>1, <4>3
      <4> QED
        BY <4>2, <4>3
    <3> QED
      BY <2>1, <3>1, <3>2, UnderWayHas
  <2>2. ASSUME NEW p, p \in UnderWay(i)
        PROVE  \/ p \in UnderWay(i)'
               \/ p = v /\ delivery[r][i].at \in pass
    <3>1. CASE \E w \in late : w.item = i /\ p = w.payload
      <4>1. \E w \in late' : w.item = i /\ p = w.payload
        BY <1>3, <3>1
      <4> QED
        BY <4>1, UnderWayHas
    <3>2. CASE \E q \in Runs : /\ delivery[q][i].at \in {"dispatched", "sent"}
                               /\ p = delivery[q][i].payload
      BY <1>1, <3>2, UnderWayHas
    <3> QED
      BY <2>2, <3>1, <3>2, UnderWayHas
  <2>3. delivery'[r][i].at \in pass => v \in UnderWay(i)'
    <3>1. delivery'[r][i].at \in pass => v = delivery'[r][i].payload
      BY <1>1
    <3> QED
      BY <3>1, UnderWayHas
  <2>4. delivery[r][i].at \in pass => v \in UnderWay(i)
    BY UnderWayHas
  <2> HIDE DEF v, pass
  <2> QED
    BY <2>1, <2>2, <2>3, <2>4
<1>6. MayTouchServer(r, i) => /\ outbox[i].owner = r
                              /\ outbox[i].status = "eligible"
                              /\ delivery[r][i].desired = outbox[i].desired
                              /\ v = outbox[i].payload
  BY <1>1 DEF TruthInv, OrderInv, MayTouchServer, OwnsLease, FiberIsOrdered
<1>7. Settled(i)' \in BOOLEAN /\ Settled(i) \in BOOLEAN
  BY DEF Settled
<1> DEFINE from == delivery[r][i].at
           to == delivery'[r][i].at
\* The fiber passes the gate.
<1>8. ASSUME from = "claimed", to = "dispatched"
      PROVE  Replication!Step(View(i), View(i)')
  <2>1. /\ MayTouchServer(r, i)
        /\ UNCHANGED remote
        /\ outbox'[i].delivered = outbox[i].delivered
        /\ outbox'[i].uncertain = outbox[i].uncertain
    BY <1>2, <1>8 DEF FiberMove
  <2>2. UnderWay(i)' = UnderWay(i) \cup {outbox[i].payload}
    BY <1>5, <1>6, <1>8, <2>1
  <2>3. Settled(i)' = Settled(i)
    BY <1>1, <2>1 DEF Settled
  <2> QED
    BY <1>1, <2>1, <2>2, <2>3, SeenSteps DEF View
\* The upstream applies the write.
<1>9. ASSUME from = "sent", to = "applied"
      PROVE  Replication!Step(View(i), View(i)')
  <2>1. /\ remote'[i] = v
        /\ outbox'[i].delivered = outbox[i].delivered
        /\ outbox'[i].uncertain = outbox[i].uncertain
    BY <1>2, <1>9 DEF FiberMove, Bookkeeping
  <2>2. /\ v \in UnderWay(i)
        /\ UnderWay(i)' \in SUBSET UnderWay(i)
        /\ UnderWay(i) \ {v} \subseteq UnderWay(i)'
    BY <1>5, <1>9
  <2>3. Settled(i)' = Settled(i)
    BY <1>1, <2>1 DEF Settled
  <2> HIDE DEF v
  <2> QED
    BY <1>1, <2>1, <2>2, <2>3, SeenSteps DEF View
\* The success is acknowledged.
<1>10. ASSUME from = "succeeded", to = "none"
       PROVE  Replication!Step(View(i), View(i)')
  <2>1. /\ MayTouchServer(r, i)
        /\ UNCHANGED remote
        /\ outbox'[i].delivered = outbox[i].desired
        /\ outbox'[i].uncertain = outbox[i].uncertain
    BY <1>2, <1>6, <1>10 DEF FiberMove
  <2>2. UnderWay(i)' = UnderWay(i)
    BY <1>5, <1>10
  <2>3. CASE outbox[i].uncertain
    <3>1. Settled(i)' => Settled(i)
      BY <2>1, <2>3 DEF Settled
    <3> QED
      BY <1>1, <2>1, <2>2, <3>1, ViewSameOrDoubted
  <2>4. CASE ~outbox[i].uncertain
    <3>1. Settled(i)' = TRUE
      BY <1>1, <1>6, <1>7, <2>1, <2>4 DEF Settled
    <3>2. remote[i] = outbox[i].payload
      BY <1>6, <1>10, <2>1, <2>4 DEF TruthInv, AppliedIsHeld
    <3>3. UnderWay(i) \subseteq {outbox[i].payload}
      BY <2>4, UnderWayIsWanted
    <3> QED
      BY <1>1, <2>1, <2>2, <3>1, <3>2, <3>3, SeenSteps DEF View
  <2> QED
    BY <2>3, <2>4
\* The doubt is raised.
<1>11. ASSUME outbox'[i].uncertain, UNCHANGED remote,
              from \notin pass, to \notin pass
       PROVE  Replication!Step(View(i), View(i)')
  <2>1. UnderWay(i)' = UnderWay(i)
    BY <1>5, <1>11
  <2>2. Settled(i)' => Settled(i)
    BY <1>11 DEF Settled
  <2> QED
    BY <1>1, <1>11, <2>1, <2>2, ViewSameOrDoubted
\* Nothing is settled or heard: the fiber moves on or gives up.
<1>12. ASSUME UNCHANGED remote,
              outbox'[i].delivered = outbox[i].delivered,
              outbox'[i].uncertain = outbox[i].uncertain,
              from \in pass \/ to \notin pass
       PROVE  Replication!Step(View(i), View(i)')
  <2>1. UnderWay(i)' \subseteq UnderWay(i)
    BY <1>5, <1>12
  <2>2. Settled(i)' = Settled(i)
    BY <1>1, <1>12 DEF Settled
  <2> QED
    BY <1>1, <1>12, <2>1, <2>2, ViewLoses
<1>13. \/ from = "claimed" /\ to = "dispatched"
       \/ from = "sent" /\ to = "applied"
       \/ from = "succeeded" /\ to = "none"
       \/ /\ outbox'[i].uncertain
          /\ UNCHANGED remote
          /\ from \notin pass
          /\ to \notin pass
       \/ /\ UNCHANGED remote
          /\ outbox'[i].delivered = outbox[i].delivered
          /\ outbox'[i].uncertain = outbox[i].uncertain
          /\ from \in pass \/ to \notin pass
  BY <1>2 DEF FiberMove, Bookkeeping
<1> HIDE DEF from, to, pass, v
<1> QED
  BY <1>4, <1>8, <1>9, <1>10, <1>11, <1>12, <1>13

\* A late write arrives, and may arrive again, or is lost.
LEMMA LateReplicates ==
    ASSUME TruthInv, NEW w \in late, ApplyLate(w) \/ DropLate(w), NEW i \in Items
    PROVE  Replication!Step(View(i), View(i)')
<1>1. /\ remote \in [Items -> Payload]
      /\ w.item \in Items
  BY DEF TruthInv, OrderInv, IInv, TypeOK, Write
<1>2. UNCHANGED <<outbox, delivery>>
  BY DEF ApplyLate, DropLate
<1>3. Settled(i)' = Settled(i)
  BY <1>2 DEF Settled
<1>4. CASE ApplyLate(w)
  <2>1. late' = late /\ remote' = [remote EXCEPT ![w.item] = w.payload]
    BY <1>4 DEF ApplyLate
  <2>2. UnderWay(i)' = UnderWay(i)
    BY <1>2, <2>1 DEF UnderWay
  <2>3. CASE w.item # i
    <3>1. remote'[i] = remote[i]
      BY <1>1, <2>1, <2>3
    <3> QED
      BY <1>2, <1>3, <2>2, <3>1, ViewSameOrDoubted
  <2>4. CASE w.item = i
    <3>1. remote'[i] = w.payload /\ w.payload \in UnderWay(i)
      BY <1>1, <2>1, <2>4, UnderWayHas
    <3> QED
      BY <1>2, <1>3, <2>2, <3>1, SeenSteps DEF View
  <2> QED
    BY <2>3, <2>4
<1>5. CASE DropLate(w)
  <2>1. late' \subseteq late /\ remote' = remote
    BY <1>5 DEF DropLate
  <2>2. UnderWay(i)' \subseteq UnderWay(i)
    <3> SUFFICES ASSUME NEW p, p \in UnderWay(i)' PROVE p \in UnderWay(i)
      OBVIOUS
    <3> QED
      BY <1>2, <2>1, UnderWayHas
  <2> QED
    BY <1>2, <1>3, <2>1, <2>2, ViewLoses
<1> QED
  BY <1>4, <1>5

\* Nothing is wanted, held or under way before the first write.
LEMMA InitReplicates == Init => Replication!Init
<1> SUFFICES ASSUME Init PROVE Replication!Init
  OBVIOUS
<1> DEFINE Shown0 == Shown(NoPayload, NoPayload, {}, FALSE)
           blank == {t \in Replication!Target : t.pending = {} /\ ~t.settled}
<1>1. Shown0 \in blank
  BY DEF Replication!Target, Shown, Payload
<1>2. ASSUME NEW i \in Items
      PROVE  View(i) = Shown0
  <2>1. outbox[i].status = "absent" /\ outbox[i].payload = NoPayload
    <3>1. PICK canonical \in [Items -> Canonicals] :
            outbox = [j \in Items |-> AbsentRow(canonical[j])]
      BY DEF Init
    <3> QED
      BY <3>1 DEF AbsentRow
  <2>2. remote[i] = NoPayload
    BY DEF Init
  <2>3. Settled(i) = FALSE
    BY <2>1 DEF Settled
  <2>4. \A p : p \notin UnderWay(i)
    <3>1. late = {} /\ \A r \in Runs : delivery[r][i].at = "none"
      BY DEF Init, NoFiber
    <3> QED
      BY <3>1, UnderWayHas
  <2>5. UnderWay(i) = {}
    BY <2>4
  <2> QED
    BY <2>1, <2>2, <2>3, <2>5 DEF View
<1> HIDE DEF Shown0, blank
<1>3. [i \in Items |-> View(i)] \in [Items -> blank]
  BY <1>1, <1>2
<1> QED
  BY <1>3 DEF Replication!Init, View, Shown, blank

\* Every step is one of the replication, or changes nothing that it sees.
LEMMA NextReplicates ==
    ASSUME Lasting, ~EqualRevisionMerge, TruthInv, TruthInv', [Next]_vars
    PROVE  [Replication!Next]_([i \in Items |->
                                  [wanted |-> outbox[i].payload,
                                   held |-> remote[i],
                                   pending |-> UnderWay(i),
                                   settled |-> Settled(i)]])
<1>1. CASE UNCHANGED vars
  <2>1. UNCHANGED <<outbox, remote, delivery, late>>
    BY <1>1 DEF vars
  <2>2. \A i \in Items : UnderWay(i)' = UnderWay(i) /\ Settled(i)' = Settled(i)
    BY <2>1 DEF UnderWay, Settled
  <2> QED
    BY <2>1, <2>2
<1>2. CASE RewritingStep
  <2>1. Rewrites
    BY <1>2, RewritingStepRewrites DEF TruthInv
  <2> QED
    BY <2>1, RewritesReplicate, ViewSteps
<1>3. CASE \E r \in Runs : ClaimOutboxTargets(r) \/ StopRun(r)
  BY <1>3, ClaimReplicates, StopReplicates, ViewSteps
<1>4. CASE \E r \in Runs, i \in Items : FiberStep(r, i)
  BY <1>4, FiberReplicates, ViewSteps
<1>5. CASE \E w \in late : ApplyLate(w) \/ DropLate(w)
  BY <1>5, LateReplicates, ViewSteps
<1> QED
  BY <1>1, <1>2, <1>3, <1>4, <1>5, StepKinds

\* While no target loses its eligibility the outbox implements the state
\* replication: only the wanted state is put under way, and a row is settled
\* only with the wanted state held and no other state still to arrive.
THEOREM OutboxReplicates ==
    ASSUME Lasting, ~EqualRevisionMerge
    PROVE  Spec => ImplementsReplication
<1>1. TruthInv /\ [Next]_vars => TruthInv'
  BY NextTruthInv
<1>2. TruthInv /\ TruthInv' /\ [Next]_vars =>
        [Replication!Next]_([i \in Items |->
                               [wanted |-> outbox[i].payload,
                                held |-> remote[i],
                                pending |-> UnderWay(i),
                                settled |-> Settled(i)]])
  BY NextReplicates
<1> QED
  BY <1>1, <1>2, InitTruthInv, InitReplicates, PTL
     DEF Spec, ImplementsReplication, Replication!Spec

-----------------------------------------------------------------------------
(* On D1: a write reads first and commits one batch later                  *)


\* What a write under way has read.
WritesHaveRead ==
    \A w \in writes :
        w.canonical \in Canonicals /\ w.state \in State /\ w.payload \in Payloads

\* A write under way has read the present state or one of a lower revision:
\* this is why the batch needs to compare nothing but revisions.
WritesAreRecent ==
    \A w \in writes :
        \/ w.state = userState[w.canonical]
        \/ w.state.revision < userState[w.canonical].revision

SerialInv ==
    /\ userState \in [Canonicals -> State]
    /\ WritesHaveRead
    /\ WritesAreRecent

\* The initial state, before any write.
LEMMA SerialInit == D1Init => SerialInv
  BY DEF D1Init, Init, SerialInv, WritesHaveRead, WritesAreRecent, State,
         Payload

\* Only a write's batch changes states or pending writes, once they were read.
LEMMA OnlyWritesWrite ==
    ASSUME D1Next
    PROVE  \/ \E c \in Canonicals, p \in Payloads : ReadState(c, p)
           \/ \E w \in writes : CommitWrite(w)
           \/ UNCHANGED <<userState, writes>>
<1>1. CASE \E i \in Items : ObserveItem(i)
  BY <1>1 DEF ObserveItem
<1>2. CASE \E r \in Runs : D1RunStep(r)
  <2> PICK r \in Runs : D1RunStep(r)
    BY <1>2
  <2>1. CASE ReadMissing(r) \/ SweepBatch(r) \/ ReleaseLeases(r)
    BY <2>1 DEF ReadMissing, SweepBatch, ReleaseLeases, vars
  <2>2. CASE ReadCandidates(r) \/ ClaimCandidates(r)
    BY <2>2 DEF ReadCandidates, ClaimCandidates
  <2>3. CASE StopD1Run(r)
    BY <2>3 DEF StopD1Run, StopRun, vars
  <2> QED
    BY <2>1, <2>2, <2>3 DEF D1RunStep
<1>3. CASE ConfigurationStep /\ UNCHANGED <<writes, seen, forgotten>>
  BY <1>3 DEF ConfigurationStep, UpdateServer, DeleteServer,
              AuthenticateServer, RebindLibrary
<1>4. CASE EnvironmentStep /\ UNCHANGED <<writes, seen, forgotten>>
  BY <1>4 DEF EnvironmentStep, LeaseExpires, BecomesDue, ApplyLate, DropLate
<1>5. CASE /\ \E r \in Runs, i \in Items : D1FiberStep(r, i)
           /\ UNCHANGED <<writes, seen, forgotten>>
  BY <1>5 DEF D1FiberStep, D1MarkDispatched, SendRequest, FailBeforeSend,
              ApplyRequest, AnswerSuccess, AnswerRejected, AnswerLost,
              D1Acknowledge, D1MarkUncertain, D1RecordFailure
<1> QED
  BY <1>1, <1>2, <1>3, <1>4, <1>5 DEF D1Next

\* A batch that commits replaces the state its write has read.
LEMMA CommitReplacesWhatWasRead ==
    ASSUME SerialInv, NEW w \in writes, CommitWrite(w)
    PROVE  \/ userState' = userState
           \/ /\ w.state = userState[w.canonical]
              /\ userState' = [userState EXCEPT ![w.canonical] = Written(w)]
<1>1. CASE userState[w.canonical].revision = w.state.revision
  <2>1. w.state = userState[w.canonical]
    BY <1>1 DEF SerialInv, WritesHaveRead, WritesAreRecent, State
  <2>2. userState' = [userState EXCEPT ![w.canonical] = Written(w)]
    BY <1>1 DEF CommitWrite
  <2> QED
    BY <2>1, <2>2
<1>2. CASE userState[w.canonical].revision # w.state.revision
  BY <1>2 DEF CommitWrite, SerialInv, WritesHaveRead
<1> QED
  BY <1>1, <1>2

\* The invariant is inductive.
LEMMA SerialNext == SerialInv /\ [D1Next]_d1vars => SerialInv'
<1> SUFFICES ASSUME SerialInv, [D1Next]_d1vars PROVE SerialInv'
  OBVIOUS
<1>1. CASE UNCHANGED <<userState, writes>>
  BY <1>1 DEF SerialInv, WritesHaveRead, WritesAreRecent
<1>2. ASSUME NEW c \in Canonicals, NEW p \in Payloads, ReadState(c, p)
      PROVE  SerialInv'
  <2>1. userState' = userState
    BY <1>2 DEF ReadState, vars
  <2>2. \A w \in writes' :
          \/ w \in writes
          \/ w.canonical = c /\ w.state = userState[c] /\ w.payload = p
    BY <1>2 DEF ReadState
  <2> QED
    BY <2>1, <2>2 DEF SerialInv, WritesHaveRead, WritesAreRecent
<1>3. ASSUME NEW w \in writes, CommitWrite(w)
      PROVE  SerialInv'
  <2>1. writes' \subseteq writes
    BY <1>3 DEF CommitWrite
  <2>2. CASE userState' = userState
    BY <2>1, <2>2 DEF SerialInv, WritesHaveRead, WritesAreRecent
  <2>3. CASE /\ w.state = userState[w.canonical]
             /\ userState' = [userState EXCEPT ![w.canonical] = Written(w)]
    <3>1. Written(w) \in State
      BY DEF Written, SerialInv, WritesHaveRead, State, Payload
    <3>2. userState' \in [Canonicals -> State]
      BY <2>3, <3>1 DEF SerialInv
    <3>3. userState[w.canonical].revision < Written(w).revision
      BY <2>3 DEF Written, SerialInv, WritesHaveRead, State
    <3>4. WritesHaveRead'
      BY <2>1 DEF SerialInv, WritesHaveRead
    <3>5. WritesAreRecent'
      <4> SUFFICES ASSUME NEW v \in writes'
                   PROVE  \/ v.state = userState'[v.canonical]
                          \/ v.state.revision < userState'[v.canonical].revision
        BY DEF WritesAreRecent
      <4>1. v \in writes /\ v.canonical \in Canonicals /\ v.state \in State
        BY <2>1 DEF SerialInv, WritesHaveRead
      <4>2. CASE v.canonical = w.canonical
        <5>1. v.state.revision <= userState[w.canonical].revision
          BY <4>1, <4>2 DEF SerialInv, WritesAreRecent, State
        <5>2. userState'[v.canonical] = Written(w)
          BY <2>3, <4>1, <4>2 DEF SerialInv
        <5> QED
          BY <3>1, <3>3, <4>1, <4>2, <5>1, <5>2 DEF SerialInv, State
      <4>3. CASE v.canonical # w.canonical
        BY <2>3, <4>1, <4>3 DEF SerialInv, WritesAreRecent
      <4> QED
        BY <4>2, <4>3
    <3> QED
      BY <3>2, <3>4, <3>5 DEF SerialInv
  <2> QED
    BY <1>3, <2>2, <2>3, CommitReplacesWhatWasRead
<1> QED
  BY <1>1, <1>2, <1>3, OnlyWritesWrite DEF d1vars, vars

\* A row is upserted on D1 as it is on SQLite.
THEOREM UpsertsAgree ==
    ASSUME NEW row \in Row, NEW c \in Canonicals, NEW g \in Nat, NEW state \in State
    PROVE  UpsertTarget(row, c, g, state) = UpsertOutboxTarget(row, c, g, state)
<1> DEFINE same == /\ row.desired = state.revision /\ row.payload = state.payload
                   /\ row.canonical = c /\ row.generation = g
<1>1. CASE row.status = "absent"
  <2> DEFINE inserted ==
               [status |-> "eligible", canonical |-> c, generation |-> g,
                desired |-> state.revision, delivered |-> 0,
                payload |-> state.payload, due |-> TRUE, owner |-> NoRun,
                expired |-> FALSE, dispatched |-> FALSE, uncertain |-> FALSE,
                permanent |-> FALSE]
  <2>1. UpsertTarget(row, c, g, state) = inserted
    BY <1>1 DEF UpsertTarget, AbsentRow
  <2>2. UpsertOutboxTarget(row, c, g, state) = inserted
    BY <1>1 DEF UpsertOutboxTarget, AbsentRow
  <2> QED
    BY <2>1, <2>2
<1>2. CASE row.status # "absent" /\ same
  BY <1>2 DEF UpsertTarget, UpsertOutboxTarget
<1>3. CASE row.status # "absent" /\ ~same
  BY <1>3 DEF UpsertTarget, UpsertOutboxTarget, Row
<1> QED
  BY <1>1, <1>2, <1>3

\* The statements of a delivery do on D1 what they do on SQLite: from any outbox
\* of rows, a fiber can take the same steps on either storage.
THEOREM DeliveriesAgree ==
    ASSUME TypeOK, NEW r \in Runs, NEW i \in Items
    PROVE  D1FiberStep(r, i) <=> FiberStep(r, i)
<1>1. outbox[i] \in Row /\ outbox = [j \in Items |-> outbox[j]]
  BY DEF TypeOK
<1>2. LeaseRuns(r, i) /\ ServerStands(r, i) <=> MayTouchServer(r, i)
  BY DEF LeaseRuns, ServerStands, MayTouchServer, OwnsLease
<1>3. D1MarkDispatched(r, i) <=> MarkOutboxDispatched(r, i)
  BY <1>1, <1>2 DEF D1MarkDispatched, MarkOutboxDispatched, UpdateRow, Row
<1>4. D1Acknowledge(r, i) <=> AcknowledgeOutboxTarget(r, i)
  <2> DEFINE row == [outbox[i] EXCEPT
                       !.delivered = delivery[r][i].desired, !.permanent = FALSE,
                       !.owner = NoRun, !.expired = FALSE, !.dispatched = FALSE,
                       !.due = outbox[i].due /\ ~outbox[i].uncertain]
  <2>1. [outbox EXCEPT ![i] = row] =
          [outbox EXCEPT
             ![i].delivered = delivery[r][i].desired,
             ![i].owner = NoRun, ![i].expired = FALSE,
             ![i].dispatched = FALSE, ![i].permanent = FALSE,
             ![i].due = outbox[i].due /\ ~outbox[i].uncertain]
    BY <1>1, ZenonT(60) DEF Row
  <2> HIDE DEF row
  <2>2. CASE MayTouchServer(r, i)
    BY <1>2, <2>1, <2>2 DEF D1Acknowledge, AcknowledgeOutboxTarget, UpdateRow, row
  <2>3. CASE ~MayTouchServer(r, i)
    BY <1>2, <2>3 DEF D1Acknowledge, AcknowledgeOutboxTarget, UpdateRow
  <2> QED
    BY <2>2, <2>3
<1>5. D1MarkUncertain(r, i) <=> MarkOutboxUncertain(r, i)
  BY <1>1 DEF D1MarkUncertain, MarkOutboxUncertain, UpdateRow, Row
<1>6. D1RecordFailure(r, i) <=> RecordOutboxFailure(r, i)
  BY <1>1 DEF D1RecordFailure, RecordOutboxFailure, UpdateRow, Row, LeaseRuns, OwnsLease
<1> QED
  BY <1>3, <1>4, <1>5, <1>6 DEF D1FiberStep, FiberStep

\* A state is only ever replaced by a write that has read exactly that state
\* (writeUserStateAndTargets on D1), although the batch compares revisions.
THEOREM NoWriteIsLost == D1Spec => WritesAreSerial
<1>1. SerialInv /\ [D1Next]_d1vars =>
        [\A c \in Canonicals : userState'[c] # userState[c] =>
           \E w \in writes :
              w.canonical = c /\ w.state = userState[c]]_d1vars
  <2> SUFFICES ASSUME SerialInv, D1Next, NEW c \in Canonicals,
                      userState'[c] # userState[c]
               PROVE  \E w \in writes : w.canonical = c /\ w.state = userState[c]
    OBVIOUS
  <2>1. PICK w \in writes : CommitWrite(w)
    BY OnlyWritesWrite DEF ReadState, vars
  <2>2. /\ w.state = userState[w.canonical]
        /\ userState' = [userState EXCEPT ![w.canonical] = Written(w)]
    BY <2>1, CommitReplacesWhatWasRead
  <2> QED
    BY <2>2 DEF SerialInv
<1> QED
  BY <1>1, SerialInit, SerialNext, PTL DEF D1Spec, WritesAreSerial

-----------------------------------------------------------------------------
(* On D1: rows that a stale batch may set back                             *)

\* What every rewriting of a row respects that is not a fiber's: nothing is
\* delivered by it, and a lease ends with the claim it stands for. A row does
\* not disappear, nor does a doubt.
KeepsRow(row, new) ==
    /\ new.status = "absent" => row.status = "absent"
    /\ new.delivered = row.delivered
    /\ row.uncertain => new.uncertain
    /\ KeepsLease(row, new)

\* What every rewriting but that of an observation respects too: a dispatched
\* attempt that loses its lease leaves a doubt.
KeepsDoubt(row, new) == KeepsRow(row, new) /\ Remembers(row, new)

\* A target that has no row yet.
Begins(row) ==
    row.status = "absent" => ~row.uncertain /\ row.owner = NoRun /\ row.delivered = 0

\* The row was enqueued for its target, of the only generation there is.
Serves(row, i, items) ==
    row.status # "absent" =>
        /\ row.status = "eligible"
        /\ row.canonical = items[i].canonical
        /\ row.generation = 1
        /\ items[i].generation = 1

\* The state a row asks for and a fiber carries.
StateOf(x) == [revision |-> x.desired, payload |-> x.payload]

LEMMA KeepsDoubtTwice ==
    ASSUME NEW row \in Row, NEW kept \in Row, NEW new \in Row,
           KeepsDoubt(row, kept), KeepsDoubt(kept, new)
    PROVE  KeepsDoubt(row, new)
<1>1. KeepsLease(row, new)
  BY DEF KeepsDoubt, KeepsRow, KeepsLease
<1>2. Remembers(row, new)
  BY DEF KeepsDoubt, KeepsRow, Remembers
<1> QED
  BY <1>1, <1>2 DEF KeepsDoubt, KeepsRow

LEMMA KeepsDoubtOnce ==
    ASSUME NEW row \in Row, NEW new \in Row,
           new.delivered = row.delivered, new.uncertain = row.uncertain,
           new.owner = row.owner, new.dispatched = row.dispatched,
           new.desired = row.desired, new.generation = row.generation,
           new.payload = row.payload, new.status = row.status
    PROVE  KeepsDoubt(row, new)
  BY DEF KeepsDoubt, KeepsRow, KeepsLease, Remembers

\* upsertOutboxTarget on D1.
LEMMA UpsertKeepsDoubt ==
    ASSUME NEW row \in Row, NEW c \in Canonicals, NEW state \in State, Begins(row)
    PROVE  LET new == UpsertTarget(row, c, 1, state)
           IN /\ new \in Row
              /\ KeepsDoubt(row, new)
              /\ new.status = "eligible" /\ new.canonical = c
              /\ new.generation = 1 /\ StateOf(new) = state
<1>1. PICK new : new = UpsertTarget(row, c, 1, state)
  OBVIOUS
<1>2. new = UpsertOutboxTarget(row, c, 1, state)
  BY <1>1, UpsertsAgree
<1>3. new \in Row
  BY <1>2, UpsertType
<1>4. /\ new.status = "eligible" /\ new.canonical = c
      /\ new.desired = state.revision /\ new.payload = state.payload
      /\ Respects(row, new)
  <2>1. LET up == UpsertOutboxTarget(row, c, 1, state)
        IN /\ up.status = "eligible"
           /\ up.canonical = c
           /\ up.desired = state.revision
           /\ up.payload = state.payload
           /\ Respects(row, up)
    BY UpsertEffect
  <2> QED
    BY <1>2, <2>1
<1>5. StateOf(new) = state
  BY <1>4 DEF StateOf, State
<1>6. KeepsLease(row, new) /\ new.delivered = row.delivered
  BY <1>4 DEF Respects, Fresh, Begins
<1>7. CASE row.status = "absent"
  <2>1. new.generation = 1 /\ new.owner = NoRun
    BY <1>1, <1>7 DEF UpsertTarget, AbsentRow
  <2> QED
    BY <1>1, <1>3, <1>4, <1>5, <1>6, <1>7, <2>1 DEF KeepsDoubt, KeepsRow, Remembers, Begins
<1>8. CASE row.status # "absent"
  <2>1. /\ new.generation = 1
        /\ row.uncertain => new.uncertain
        /\ Remembers(row, new)
    BY <1>2, <1>8 DEF UpsertOutboxTarget, Row, Remembers
  <2> QED
    BY <1>1, <1>3, <1>4, <1>5, <1>6, <2>1 DEF KeepsDoubt, KeepsRow
<1> QED
  BY <1>7, <1>8

\* The upsert of resolveIdentityD1 keeps a doubt, unless it forgets a delivery.
LEMMA ResolvedKeepsRow ==
    ASSUME NEW row \in Row, NEW c \in Canonicals, NEW state \in State, Begins(row),
           row.status # "absent" => row.generation = 1,
           row.desired = state.revision => row.payload = state.payload
    PROVE  LET new == UpsertResolved(row, c, 1, state)
           IN /\ new \in Row
              /\ KeepsRow(row, new)
              /\ ForgetsDelivery(row, state) \/ Remembers(row, new)
              /\ new.status = "eligible" /\ new.canonical = c
              /\ new.generation = 1 /\ StateOf(new) = state
<1>1. PICK new : new = UpsertResolved(row, c, 1, state)
  OBVIOUS
<1>2. CASE row.status = "absent"
  <2>1. new = UpsertTarget(row, c, 1, state)
    BY <1>1, <1>2 DEF UpsertResolved
  <2> QED
    BY <1>1, <2>1, UpsertKeepsDoubt DEF KeepsDoubt
<1>3. CASE row.status # "absent" /\ row.desired # state.revision
  <2>1. new = [row EXCEPT !.status = "eligible", !.canonical = c, !.generation = 1,
                          !.desired = state.revision, !.payload = state.payload,
                          !.due = TRUE, !.owner = NoRun, !.expired = FALSE,
                          !.dispatched = FALSE, !.permanent = FALSE]
    BY <1>1, <1>3 DEF UpsertResolved, Row
  <2>2. /\ new \in Row
        /\ new.status = "eligible" /\ new.canonical = c /\ new.generation = 1
        /\ new.desired = state.revision /\ new.payload = state.payload
        /\ new.owner = NoRun /\ new.delivered = row.delivered
        /\ new.uncertain = row.uncertain
    BY <2>1, NoRunAssumption DEF Row, State
  <2>3. StateOf(new) = state
    BY <2>2 DEF StateOf, State
  <2>4. KeepsRow(row, new)
    BY <1>3, <2>2 DEF KeepsRow, KeepsLease
  <2>5. ForgetsDelivery(row, state) \/ Remembers(row, new)
    BY <1>3, <2>2 DEF ForgetsDelivery, Remembers
  <2> QED
    BY <1>1, <2>2, <2>3, <2>4, <2>5
<1>4. CASE row.status # "absent" /\ row.desired = state.revision
  <2> DEFINE due == row.due \/ row.status = "cancelled"
  <2>1. new = [row EXCEPT !.status = "eligible", !.canonical = c, !.generation = 1,
                          !.desired = state.revision, !.payload = state.payload,
                          !.due = due]
    BY <1>1, <1>4 DEF UpsertResolved
  <2>2. due \in BOOLEAN
    BY DEF Row
  <2> HIDE DEF due
  <2>3. /\ new \in Row
        /\ new.status = "eligible" /\ new.canonical = c /\ new.generation = 1
        /\ new.desired = state.revision /\ new.payload = state.payload
        /\ new.owner = row.owner /\ new.dispatched = row.dispatched
        /\ new.delivered = row.delivered /\ new.uncertain = row.uncertain
    BY <2>1, <2>2 DEF Row, State
  <2>4. StateOf(new) = state
    BY <2>3 DEF StateOf, State
  <2>5. KeepsRow(row, new) /\ Remembers(row, new)
    BY <1>4, <2>3 DEF KeepsRow, KeepsLease, Remembers
  <2> QED
    BY <1>1, <2>3, <2>4, <2>5
<1> QED
  BY <1>2, <1>3, <1>4

\* Leases that ran out are taken back.
LEMMA ReleaseKeepsDoubt ==
    ASSUME NEW rows \in Rows, NEW i \in Items
    PROVE  LET new == ReleaseExpired(rows)[i]
           IN /\ new \in Row
              /\ KeepsDoubt(rows[i], new)
              /\ new.status = rows[i].status /\ new.canonical = rows[i].canonical
              /\ new.generation = rows[i].generation /\ StateOf(new) = StateOf(rows[i])
              /\ Begins(rows[i]) => new = rows[i] \/ new.status # "absent"
<1>1. PICK row, new : row = rows[i] /\ new = ReleaseExpired(rows)[i]
  OBVIOUS
<1>2. row \in Row
  BY <1>1 DEF Rows
<1>3. CASE row.owner # NoRun /\ row.expired
  <2>1. PICK doubt \in BOOLEAN : doubt = (row.uncertain \/ row.dispatched)
    BY <1>2 DEF Row
  <2>2. new = [row EXCEPT !.uncertain = doubt, !.due = TRUE, !.owner = NoRun,
                          !.expired = FALSE, !.dispatched = FALSE]
    BY <1>1, <1>3, <2>1 DEF ReleaseExpired
  <2>3. /\ new \in Row
        /\ new.status = row.status /\ new.canonical = row.canonical
        /\ new.generation = row.generation /\ new.desired = row.desired
        /\ new.payload = row.payload /\ new.delivered = row.delivered
        /\ new.owner = NoRun /\ new.uncertain = doubt
    BY <1>2, <2>1, <2>2 DEF Row
  <2>4. KeepsDoubt(row, new)
    BY <2>1, <2>3 DEF KeepsDoubt, KeepsRow, KeepsLease, Remembers
  <2> QED
    BY <1>1, <1>3, <2>3, <2>4 DEF StateOf, Begins
<1>4. CASE ~(row.owner # NoRun /\ row.expired)
  <2>1. new = row
    BY <1>1, <1>4 DEF ReleaseExpired
  <2> QED
    BY <1>1, <1>2, <2>1, KeepsDoubtOnce
<1> QED
  BY <1>3, <1>4

-----------------------------------------------------------------------------
(* On D1: what is said of a canonical's state                              *)

\* The state before any write.
Never == [revision |-> 0, payload |-> NoPayload]

\* The holder of the lease still has to tell what became of its dispatched
\* delivery, or nobody will before the lease is taken back.
Untold(i) ==
    \E r \in Runs : /\ outbox[i].owner = r
                    /\ outbox[i].dispatched
                    /\ delivery[r][i].at \in {"none"} \cup Telling

\* The row is doubted, or an observation took it from a dispatched delivery
\* and left no doubt.
Doubted(i) == outbox[i].uncertain \/ i \in forgotten

\* The row says for certain what the upstream holds.
Certain(i) == ~Doubted(i) /\ ~Untold(i)

Held(i) == [revision |-> outbox[i].delivered, payload |-> remote[i]]

\* Somebody speaks of s as a state of c: the user state itself, a read that was
\* not committed yet, a row, a fiber, or a row that is certain of its upstream.
IsSaid(c, s) ==
    \/ s = Never
    \/ s = userState[c]
    \/ \E w \in writes : w.canonical = c /\ w.state = s
    \/ \E r \in Runs : \E m \in seen[r].missing : m.canonical = c /\ m.state = s
    \/ \E i \in Items :
         /\ item[i].canonical = c
         /\ \/ StateOf(outbox[i]) = s
            \/ \E r \in Runs : StateOf(delivery[r][i]) = s
            \/ Certain(i) /\ Held(i) = s

\* Whatever is said of one revision is one state, and no revision is said that
\* was not written.
SaidOnce ==
    \A c \in Canonicals, s \in State : IsSaid(c, s) =>
        /\ s.revision <= userState[c].revision
        /\ \A t \in State : IsSaid(c, t) /\ t.revision = s.revision => t = s

\* A canonical keeps its state or moves on to the next revision.
StatesMoveOn ==
    \A c \in Canonicals :
        \/ userState'[c] = userState[c]
        \/ userState'[c].revision = userState[c].revision + 1

\* Nothing is said that was not said before, but for the latest state.
SaysTheLatest ==
    \A c \in Canonicals, s \in State :
        IsSaid(c, s)' => IsSaid(c, s) \/ s = userState'[c]

LEMMA LatestIsSaidOnce ==
    ASSUME userState \in [Canonicals -> State], userState' \in [Canonicals -> State],
           SaidOnce, StatesMoveOn, SaysTheLatest
    PROVE  SaidOnce'
<1> SUFFICES ASSUME NEW c \in Canonicals, NEW s \in State, IsSaid(c, s)'
             PROVE  /\ s.revision <= userState'[c].revision
                    /\ \A t \in State : IsSaid(c, t)' /\ t.revision = s.revision => t = s
  BY DEF SaidOnce
<1>1. userState[c] \in State /\ userState'[c] \in State /\ IsSaid(c, userState[c])
  BY DEF IsSaid
<1>2. \A t \in State : IsSaid(c, t) => t.revision <= userState[c].revision
  BY DEF SaidOnce
<1>3. \A t \in State : IsSaid(c, t)' => IsSaid(c, t) \/ t = userState'[c]
  BY DEF SaysTheLatest
<1>4. \/ userState'[c] = userState[c]
      \/ userState'[c].revision = userState[c].revision + 1
  BY DEF StatesMoveOn
<1>5. \A t, u \in State : IsSaid(c, t) /\ IsSaid(c, u) /\ t.revision = u.revision => t = u
  BY DEF SaidOnce
<1>6. \A t \in State : t.revision \in Nat
  BY DEF State
<1>7. \A t \in State : IsSaid(c, t)' => t.revision <= userState'[c].revision
  BY ONLY <1>1, <1>2, <1>3, <1>4, <1>6
<1>8. ASSUME NEW t \in State, IsSaid(c, t)', t.revision = s.revision
      PROVE  t = s
  <2>1. CASE userState'[c] = userState[c]
    BY <1>1, <1>3, <1>5, <1>8, <2>1
  <2>2. CASE userState'[c].revision = userState[c].revision + 1
    <3>1. \A u \in State : IsSaid(c, u) => u.revision # userState'[c].revision
      BY ONLY <1>1, <1>2, <1>6, <2>2
    <3> QED
      BY <1>3, <1>5, <1>8, <3>1
  <2> QED
    BY <1>4, <2>1, <2>2
<1> QED
  BY <1>7, <1>8

-----------------------------------------------------------------------------
(* On D1: the inductive invariant                                          *)

\* What was read about a target still stands.
StillTarget(i, c, generation) ==
    generation = 1 /\ item[i].canonical = c /\ item[i].generation = 1

\* No target loses its eligibility: not the rows, nor what a pending batch has
\* read of them.
D1TargetsLast ==
    /\ \A s \in Servers : server[s].generation = 1 /\ server[s].status = "enabled"
    /\ \A i \in Items :
         /\ item[i].bound
         /\ Begins(outbox[i])
         /\ Serves(outbox[i], i, item)
    /\ \A w \in writes, i \in Items :
         w.targets[i] # 0 => StillTarget(i, w.canonical, w.targets[i])
    /\ \A r \in Runs : \A m \in seen[r].missing :
         StillTarget(m.item, m.canonical, m.generation)

\* A lease is taken for an undelivered revision, or for a doubt.
LeasedIsBehind ==
    \A i \in Items :
        ~outbox[i].uncertain /\ outbox[i].owner # NoRun =>
            outbox[i].delivered < outbox[i].desired

\* What is delivered was enqueued.
FibersHaveRows ==
    \A r \in Runs, i \in Items :
        delivery[r][i].at # "none" => outbox[i].status # "absent"

\* A fiber that was dispatched holds the lease until the row is doubted.
CertainDispatchedHold ==
    \A r \in Runs, i \in Items :
        ~Doubted(i) /\ delivery[r][i].at \in Dispatched =>
            /\ outbox[i].owner = r
            /\ outbox[i].dispatched
            /\ delivery[r][i].desired = outbox[i].desired

\* A late write of a row that nobody doubts is of the payload it asks for.
CertainLateIsHeld ==
    \A w \in late :
        ~Doubted(w.item) =>
            /\ w.payload = outbox[w.item].payload
            /\ outbox[w.item].owner # NoRun
            /\ outbox[w.item].dispatched
            /\ delivery[outbox[w.item].owner][w.item].at \in {"none", "ambiguous"}

\* What a fiber saw applied is what the upstream holds, until the row is doubted.
CertainAppliedIsHeld ==
    \A r \in Runs, i \in Items :
        ~Doubted(i) /\ delivery[r][i].at \in {"applied", "succeeded"} =>
            remote[i] = delivery[r][i].payload

\* RowsOnD1AreSound is not inductive: a stale batch sets rows back, so what a
\* settled row holds is compared with everything that is said of its canonical
\* and not with the latest state.
D1Truth ==
    /\ D1TypeOK
    /\ SerialInv
    /\ D1TargetsLast
    /\ SaidOnce
    /\ LeaseHolderIsCurrent
    /\ LeasedIsBehind
    /\ CertainDispatchedHold
    /\ CertainLateIsHeld
    /\ CertainAppliedIsHeld
    /\ FibersHaveRows

LEMMA InitD1Truth == D1Init => D1Truth
<1> SUFFICES ASSUME D1Init PROVE D1Truth
  OBVIOUS
<1>1. PICK canonical \in [Items -> Canonicals] :
        /\ item = [i \in Items |-> [canonical |-> canonical[i],
                                    generation |-> 0, bound |-> TRUE]]
        /\ outbox = [i \in Items |-> AbsentRow(canonical[i])]
  BY DEF D1Init, Init
<1>2. /\ userState = [c \in Canonicals |-> Never]
      /\ server = [s \in Servers |->
                     [generation |-> 1, status |-> "enabled", user |-> FALSE]]
      /\ phase = [r \in Runs |-> "idle"]
      /\ delivery = [r \in Runs |-> [i \in Items |-> NoFiber]]
      /\ remote = [i \in Items |-> NoPayload]
      /\ late = {} /\ writes = {} /\ forgotten = {}
      /\ seen = [r \in Runs |-> Nothing]
  BY DEF D1Init, Init, Never
<1>3. TypeOK
  BY InitIInv DEF D1Init, IInv
<1>4. D1TypeOK
  BY <1>2, <1>3 DEF D1TypeOK, Nothing, Seen
<1>5. \A i \in Items : /\ outbox[i].status = "absent"
                       /\ outbox[i].owner = NoRun
                       /\ ~outbox[i].uncertain
                       /\ StateOf(outbox[i]) = Never
                       /\ Held(i) = Never
                       /\ item[i].bound
                       /\ Begins(outbox[i])
  BY <1>1, <1>2 DEF AbsentRow, StateOf, Held, Never, Begins
<1>6. \A r \in Runs, i \in Items :
        delivery[r][i].at = "none" /\ StateOf(delivery[r][i]) = Never
  BY <1>2 DEF NoFiber, StateOf, Never
<1>7. \A r \in Runs : seen[r].missing = {}
  BY <1>2 DEF Nothing
<1>8. D1TargetsLast
  BY <1>2, <1>5, <1>7 DEF D1TargetsLast, Serves
<1>9. SaidOnce
  <2>1. ASSUME NEW c \in Canonicals, NEW s, IsSaid(c, s)
        PROVE  s = Never
    BY <1>2, <1>5, <1>6, <1>7, <2>1 DEF IsSaid
  <2>2. \A c \in Canonicals : userState[c].revision = 0 /\ Never.revision = 0
    BY <1>2 DEF Never
  <2> QED
    BY <2>1, <2>2 DEF SaidOnce
<1>10. LeaseHolderIsCurrent /\ LeasedIsBehind
  BY <1>5, <1>6 DEF LeaseHolderIsCurrent, LeasedIsBehind
<1>11. CertainDispatchedHold /\ CertainLateIsHeld /\ CertainAppliedIsHeld /\ FibersHaveRows
  BY <1>2, <1>6 DEF CertainDispatchedHold, CertainLateIsHeld, CertainAppliedIsHeld, Dispatched,
                    FibersHaveRows
<1> QED
  BY <1>4, <1>8, <1>9, <1>10, <1>11, SerialInit DEF D1Truth

\* Settled rows are true, and rows on the latest revision carry its state.
LEMMA D1TruthIsSound == D1Truth => RowsOnD1AreSound
<1> SUFFICES ASSUME D1Truth PROVE RowsOnD1AreSound
  OBVIOUS
<1>1. /\ \A i \in Items : /\ item[i].canonical \in Canonicals
                          /\ userState[item[i].canonical] \in State
                          /\ StateOf(outbox[i]) \in State
                          /\ Held(i) \in State
                          /\ outbox[i].owner \in Runs \cup {NoRun}
      /\ \A w \in late : w.item \in Items
  BY DEF D1Truth, D1TypeOK, TypeOK, SourceItem, Row, State, StateOf, Held, Write
<1>2. ASSUME NEW i \in Items, NEW s \in State, NEW t \in State,
             IsSaid(item[i].canonical, s), IsSaid(item[i].canonical, t),
             s.revision = t.revision
      PROVE  s = t
  BY <1>1, <1>2 DEF D1Truth, SaidOnce
<1>3. LatestIsCarried
  <2> SUFFICES ASSUME NEW i \in Items,
                      outbox[i].desired = userState[item[i].canonical].revision
               PROVE  outbox[i].payload = userState[item[i].canonical].payload
    BY DEF LatestIsCarried
  <2>1. /\ IsSaid(item[i].canonical, userState[item[i].canonical])
        /\ IsSaid(item[i].canonical, StateOf(outbox[i]))
    BY DEF IsSaid
  <2>2. StateOf(outbox[i]).revision = outbox[i].desired
    BY DEF StateOf
  <2>3. StateOf(outbox[i]) = userState[item[i].canonical]
    BY <1>1, <1>2, <2>1, <2>2
  <2> QED
    BY <2>3 DEF StateOf
<1>4. ASSUME NEW i \in Items \ forgotten, Settled(i)
      PROVE  outbox[i].owner = NoRun /\ remote[i] = outbox[i].payload
  <2>1. outbox[i].desired \in Nat /\ outbox[i].delivered \in Nat
    BY DEF D1Truth, D1TypeOK, TypeOK, Row
  <2>2. ~outbox[i].uncertain /\ outbox[i].delivered = outbox[i].desired
    BY <1>4 DEF Settled
  <2>3. outbox[i].owner = NoRun
    BY <2>1, <2>2 DEF D1Truth, LeasedIsBehind
  <2>4. Certain(i)
    BY <1>4, <2>2, <2>3, NoRunAssumption DEF Certain, Doubted, Untold
  <2>5. /\ IsSaid(item[i].canonical, Held(i))
        /\ IsSaid(item[i].canonical, StateOf(outbox[i]))
    BY <2>4 DEF IsSaid
  <2>6. /\ StateOf(outbox[i]).revision = outbox[i].desired
        /\ StateOf(outbox[i]).payload = outbox[i].payload
        /\ Held(i).revision = outbox[i].delivered
        /\ Held(i).payload = remote[i]
    BY DEF StateOf, Held
  <2>7. StateOf(outbox[i]) = Held(i)
    BY <1>1, <1>2, <2>2, <2>5, <2>6
  <2> QED
    BY <2>3, <2>6, <2>7
<1>5. ASSUME NEW i \in Items \ forgotten, Settled(i), NEW w \in late, w.item = i
      PROVE  w.payload = outbox[i].payload
  <2>1. ~Doubted(i)
    BY <1>5 DEF Doubted, Settled
  <2> QED
    BY <1>5, <2>1 DEF D1Truth, CertainLateIsHeld
<1> QED
  BY <1>3, <1>4, <1>5 DEF D1Truth, RowsOnD1AreSound, RememberedRowsAreTrue

\* Rows are rewritten, reads are made and batches committed: fibers and
\* upstreams go on as they were, and nothing is said but what was said before
\* and the latest state.
D1Rewrites ==
    /\ D1TypeOK' /\ D1TargetsLast'
    /\ forgotten \subseteq forgotten'
    /\ UNCHANGED <<delivery, remote, late>>
    /\ StatesMoveOn
    /\ \A i \in Items :
         /\ item'[i].canonical = item[i].canonical
         /\ KeepsRow(outbox[i], outbox'[i])
         /\ i \in forgotten' \/ Remembers(outbox[i], outbox'[i])
         /\ \/ IsSaid(item[i].canonical, StateOf(outbox'[i]))
            \/ StateOf(outbox'[i]) = userState'[item[i].canonical]
    /\ \A w \in writes' : IsSaid(w.canonical, w.state)
    /\ \A r \in Runs : \A m \in seen'[r].missing : IsSaid(m.canonical, m.state)

LEMMA RewritesKeepD1Truth ==
    ASSUME D1Truth, D1Rewrites, SerialInv'
    PROVE  D1Truth'
<1>1. /\ \A i \in Items : /\ outbox[i] \in Row /\ outbox'[i] \in Row
                          /\ item[i].canonical \in Canonicals
      /\ \A w \in late : w.item \in Items
      /\ \A r \in Runs, i \in Items : delivery[r][i] \in Fiber
  BY DEF D1Truth, D1Rewrites, D1TypeOK, TypeOK, SourceItem, Write
<1>2. /\ UNCHANGED <<delivery, remote, late>>
      /\ \A i \in Items : KeepsLease(outbox[i], outbox'[i])
      /\ \A i \in Items : Doubted(i)' \/ Remembers(outbox[i], outbox'[i])
      /\ \A i \in Items : Doubted(i) => Doubted(i)'
      /\ \A i \in Items : outbox'[i].delivered = outbox[i].delivered
      /\ \A i \in Items : outbox[i].uncertain => outbox'[i].uncertain
  BY DEF D1Rewrites, KeepsRow, Doubted
<1>3. \A i \in Items :
        /\ ~Doubted(i)' => ~Doubted(i)
        /\ ~Doubted(i)' /\ outbox[i].owner # NoRun /\ outbox[i].dispatched
             => /\ outbox'[i].owner = outbox[i].owner
                /\ outbox'[i].dispatched = outbox[i].dispatched
                /\ outbox'[i].desired = outbox[i].desired
                /\ outbox'[i].payload = outbox[i].payload
  BY <1>2 DEF Remembers, KeepsLease, Doubted
<1>4. SaidOnce'
  <2>1. ASSUME NEW i \in Items, Certain(i)'
        PROVE  Certain(i) /\ Held(i)' = Held(i)
    <3>1. ~Doubted(i) /\ Held(i)' = Held(i)
      BY <1>2, <2>1 DEF Certain, Held
    <3>2. ASSUME Untold(i) PROVE FALSE
      <4>1. PICK r \in Runs : /\ outbox[i].owner = r
                              /\ outbox[i].dispatched
                              /\ delivery[r][i].at \in {"none"} \cup Telling
        BY <3>2 DEF Untold
      <4>2. outbox'[i].owner = r /\ outbox'[i].dispatched
        BY <1>3, <2>1, <4>1, NoRunAssumption DEF Certain
      <4> QED
        BY <1>2, <2>1, <4>1, <4>2 DEF Certain, Untold, Telling
    <3> QED
      BY <3>1, <3>2 DEF Certain
  <2>2. SaysTheLatest
    <3> SUFFICES ASSUME NEW c \in Canonicals, NEW s \in State, IsSaid(c, s)'
                 PROVE  IsSaid(c, s) \/ s = userState'[c]
      BY DEF SaysTheLatest
    <3>1. CASE s = Never \/ s = userState'[c]
      BY <3>1 DEF IsSaid
    <3>2. CASE \/ \E w \in writes' : w.canonical = c /\ w.state = s
               \/ \E r \in Runs : \E m \in seen'[r].missing :
                    m.canonical = c /\ m.state = s
      BY <3>2 DEF D1Rewrites
    <3>3. ASSUME NEW i \in Items, item'[i].canonical = c,
                 \/ StateOf(outbox'[i]) = s
                 \/ \E r \in Runs : StateOf(delivery'[r][i]) = s
                 \/ Certain(i)' /\ Held(i)' = s
          PROVE  IsSaid(c, s) \/ s = userState'[c]
      <4>1. item[i].canonical = c
        BY <3>3 DEF D1Rewrites
      <4>2. CASE StateOf(outbox'[i]) = s
        BY <4>1, <4>2 DEF D1Rewrites
      <4>3. CASE \E r \in Runs : StateOf(delivery'[r][i]) = s
        BY <1>2, <4>1, <4>3 DEF IsSaid
      <4>4. CASE Certain(i)' /\ Held(i)' = s
        BY <2>1, <4>1, <4>4 DEF IsSaid
      <4> QED
        BY <3>3, <4>2, <4>3, <4>4
    <3>4. \/ s = Never \/ s = userState'[c]
          \/ \/ \E w \in writes' : w.canonical = c /\ w.state = s
             \/ \E r \in Runs : \E m \in seen'[r].missing :
                  m.canonical = c /\ m.state = s
          \/ \E i \in Items :
               /\ item'[i].canonical = c
               /\ \/ StateOf(outbox'[i]) = s
                  \/ \E r \in Runs : StateOf(delivery'[r][i]) = s
                  \/ Certain(i)' /\ Held(i)' = s
      BY DEF IsSaid, Never
    <3> QED
      BY <3>1, <3>2, <3>3, <3>4
  <2> QED
    BY <2>2, LatestIsSaidOnce DEF D1Truth, D1Rewrites, SerialInv
<1>5. LeaseHolderIsCurrent'
  BY <1>2, NoRunAssumption DEF D1Truth, LeaseHolderIsCurrent, KeepsLease
<1>6. LeasedIsBehind'
  BY <1>1, <1>2, <1>3 DEF D1Truth, LeasedIsBehind, KeepsLease
<1>7. CertainDispatchedHold'
  BY <1>2, <1>3, NoRunAssumption DEF D1Truth, CertainDispatchedHold
<1>8. CertainLateIsHeld'
  <2> SUFFICES ASSUME NEW w \in late', ~Doubted(w.item)'
               PROVE  /\ w.payload = outbox'[w.item].payload
                      /\ outbox'[w.item].owner # NoRun
                      /\ outbox'[w.item].dispatched
                      /\ delivery'[outbox'[w.item].owner][w.item].at
                           \in {"none", "ambiguous"}
    BY DEF CertainLateIsHeld
  <2>1. PICK i \in Items : i = w.item
    BY <1>1, <1>2
  <2>2. /\ w.payload = outbox[i].payload
        /\ outbox[i].owner # NoRun
        /\ outbox[i].dispatched
        /\ delivery[outbox[i].owner][i].at \in {"none", "ambiguous"}
    BY <1>2, <1>3, <2>1 DEF D1Truth, CertainLateIsHeld
  <2>3. /\ outbox'[i].owner = outbox[i].owner
        /\ outbox'[i].dispatched = outbox[i].dispatched
        /\ outbox'[i].payload = outbox[i].payload
    BY <1>3, <2>1, <2>2
  <2> QED
    BY <1>2, <2>1, <2>2, <2>3
<1>9. CertainAppliedIsHeld'
  BY <1>2, <1>3 DEF D1Truth, CertainAppliedIsHeld
<1>10. FibersHaveRows'
  BY <1>2 DEF D1Truth, FibersHaveRows, D1Rewrites, KeepsRow
<1> QED
  BY <1>4, <1>5, <1>6, <1>7, <1>8, <1>9, <1>10 DEF D1Truth, D1Rewrites

-----------------------------------------------------------------------------
(* On D1: reads and batches are rewritings                                 *)

\* What D1Truth says of one row and of the server it is for.
LEMMA RowOnD1 ==
    ASSUME D1Truth, NEW i \in Items
    PROVE  /\ outbox[i] \in Row
           /\ item[i] \in SourceItem
           /\ item[i].canonical \in Canonicals
           /\ userState[item[i].canonical] \in State
           /\ server[ServerOf[i]].generation = 1
           /\ server[ServerOf[i]].status = "enabled"
           /\ item[i].bound
           /\ Begins(outbox[i])
           /\ Serves(outbox[i], i, item)
           /\ IsSaid(item[i].canonical, StateOf(outbox[i]))
           /\ IsSaid(item[i].canonical, userState[item[i].canonical])
           /\ outbox[i].status = "eligible" => EligibleTarget(item, i)
<1>1. /\ outbox[i] \in Row /\ item[i] \in SourceItem /\ item[i].canonical \in Canonicals
      /\ userState[item[i].canonical] \in State
  BY DEF D1Truth, D1TypeOK, TypeOK, SourceItem
<1>2. /\ server[ServerOf[i]].generation = 1 /\ server[ServerOf[i]].status = "enabled"
      /\ item[i].bound /\ Begins(outbox[i]) /\ Serves(outbox[i], i, item)
  BY ServerOfAssumption DEF D1Truth, D1TargetsLast
<1>3. outbox[i].status = "eligible" => EligibleTarget(item, i)
  BY <1>2 DEF Serves, EligibleTarget
<1> QED
  BY <1>1, <1>2, <1>3 DEF IsSaid

\* Nothing but reads happens.
LEMMA ReadingRewrites ==
    ASSUME D1Truth, D1TypeOK',
           UNCHANGED <<userState, item, outbox, delivery, remote, late, forgotten>>,
           \A s \in Servers : server'[s].generation = 1 /\ server'[s].status = "enabled",
           \A w \in writes' :
             \/ w \in writes
             \/ /\ w.state = userState[w.canonical]
                /\ \A i \in Items :
                     w.targets[i] # 0 => StillTarget(i, w.canonical, w.targets[i]),
           \A r \in Runs : \A m \in seen'[r].missing :
             \/ m \in seen[r].missing
             \/ /\ m.state = userState[m.canonical]
                /\ StillTarget(m.item, m.canonical, m.generation)
    PROVE  D1Rewrites
<1>1. \A i \in Items : KeepsDoubt(outbox[i], outbox'[i])
  <2> TAKE i \in Items
  <2> QED
    BY RowOnD1, KeepsDoubtOnce
<1>2. D1TargetsLast'
  <2>1. \A i \in Items : item'[i].bound /\ Begins(outbox'[i]) /\ Serves(outbox'[i], i, item')
    BY RowOnD1
  <2>2. \A w \in writes', i \in Items :
          w.targets[i] # 0 => StillTarget(i, w.canonical, w.targets[i])'
    BY DEF D1Truth, D1TargetsLast, StillTarget
  <2>3. \A r \in Runs : \A m \in seen'[r].missing :
          StillTarget(m.item, m.canonical, m.generation)'
    BY DEF D1Truth, D1TargetsLast, StillTarget
  <2> QED
    BY <2>1, <2>2, <2>3 DEF D1TargetsLast, StillTarget
<1>3. /\ \A w \in writes' : IsSaid(w.canonical, w.state)
      /\ \A r \in Runs : \A m \in seen'[r].missing : IsSaid(m.canonical, m.state)
  BY DEF IsSaid
<1>4. \A i \in Items : IsSaid(item[i].canonical, StateOf(outbox'[i]))
  BY RowOnD1
<1> QED
  BY <1>1, <1>2, <1>3, <1>4 DEF D1Rewrites, StatesMoveOn, KeepsDoubt

\* Only rows are rewritten, to states that were said before.
LEMMA OutboxRewrites ==
    ASSUME D1Truth, outbox' \in Rows, phase' \in [Runs -> {"idle", "swept"}],
           seen' \in [Runs -> Seen],
           UNCHANGED <<userState, item, server, delivery, remote, late, writes, forgotten>>,
           \A r \in Runs : seen'[r].missing \subseteq seen[r].missing,
           \A i \in Items :
             /\ KeepsDoubt(outbox[i], outbox'[i])
             /\ Begins(outbox'[i])
             /\ Serves(outbox'[i], i, item)
             /\ IsSaid(item[i].canonical, StateOf(outbox'[i]))
    PROVE  D1Rewrites
<1>1. D1TypeOK'
  BY DEF D1Truth, D1TypeOK, TypeOK, Rows
<1>2. D1TargetsLast'
  <2>1. /\ \A s \in Servers : server'[s].generation = 1 /\ server'[s].status = "enabled"
        /\ \A i \in Items : item'[i].bound
    BY DEF D1Truth, D1TargetsLast
  <2>2. \A i \in Items : Begins(outbox'[i]) /\ Serves(outbox'[i], i, item')
    OBVIOUS
  <2>3. /\ \A w \in writes', i \in Items :
             w.targets[i] # 0 => StillTarget(i, w.canonical, w.targets[i])'
        /\ \A r \in Runs : \A m \in seen'[r].missing :
             StillTarget(m.item, m.canonical, m.generation)'
    BY DEF D1Truth, D1TargetsLast, StillTarget
  <2> QED
    BY <2>1, <2>2, <2>3 DEF D1TargetsLast, StillTarget
<1>3. /\ \A w \in writes' : IsSaid(w.canonical, w.state)
      /\ \A r \in Runs : \A m \in seen'[r].missing : IsSaid(m.canonical, m.state)
  BY DEF IsSaid
<1> QED
  BY <1>1, <1>2, <1>3 DEF D1Rewrites, StatesMoveOn, KeepsDoubt

\* A write reads the state and its targets.
LEMMA ReadStateRewrites ==
    ASSUME D1Truth, NEW c \in Canonicals, NEW p \in Payloads, ReadState(c, p)
    PROVE  D1Rewrites
<1> DEFINE targets == [i \in Items |->
                         IF item[i].canonical = c /\ EligibleTarget(item, i)
                         THEN item[i].generation ELSE 0]
           write == [canonical |-> c, state |-> userState[c], payload |-> p,
                     targets |-> targets]
<1>1. writes' = writes \cup {write} /\ UNCHANGED <<vars, seen, forgotten>>
  BY DEF ReadState
<1>2. targets \in [Items -> Nat]
  BY DEF D1Truth, D1TypeOK, TypeOK, SourceItem
<1>3. userState[c] \in State
  BY DEF D1Truth, D1TypeOK, TypeOK
<1>4. ASSUME NEW i \in Items, targets[i] # 0
      PROVE  StillTarget(i, c, targets[i])
  BY <1>4, RowOnD1 DEF StillTarget, EligibleTarget
<1> HIDE DEF targets
<1>5. write \in PendingWrite
  BY <1>2, <1>3 DEF PendingWrite
<1>6. D1TypeOK'
  BY <1>1, <1>5 DEF D1Truth, D1TypeOK, TypeOK, vars
<1>7. /\ write.canonical = c /\ write.state = userState[c] /\ write.targets = targets
  OBVIOUS
<1> HIDE DEF write
<1>8. \A w \in writes' :
        \/ w \in writes
        \/ /\ w.state = userState[w.canonical]
           /\ \A i \in Items :
                w.targets[i] # 0 => StillTarget(i, w.canonical, w.targets[i])
  BY <1>1, <1>4, <1>7
<1>9. \A s \in Servers : server'[s].generation = 1 /\ server'[s].status = "enabled"
  BY <1>1 DEF D1Truth, D1TargetsLast, vars
<1> QED
  BY <1>1, <1>6, <1>8, <1>9, ReadingRewrites DEF vars

\* A run reads what is missing.
LEMMA ReadMissingRewrites ==
    ASSUME D1Truth, NEW r \in Runs, ReadMissing(r)
    PROVE  D1Rewrites
<1> DEFINE missing == {[item |-> i, canonical |-> item[i].canonical,
                        generation |-> item[i].generation,
                        state |-> userState[item[i].canonical]] : i \in MissingTargets}
<1>1. /\ seen' = [seen EXCEPT ![r].step = "missing", ![r].missing = missing]
      /\ UNCHANGED <<vars, writes, forgotten>>
  BY DEF ReadMissing
<1>2. ASSUME NEW m \in missing
      PROVE  /\ m \in Missing
             /\ m.state = userState[m.canonical]
             /\ StillTarget(m.item, m.canonical, m.generation)
  <2>1. PICK i \in Items :
          /\ i \in MissingTargets
          /\ m = [item |-> i, canonical |-> item[i].canonical,
                  generation |-> item[i].generation,
                  state |-> userState[item[i].canonical]]
    BY DEF MissingTargets
  <2>2. EligibleTarget(item, i)
    BY <2>1 DEF MissingTargets
  <2> QED
    BY <2>1, <2>2, RowOnD1 DEF Missing, StillTarget, EligibleTarget, SourceItem
<1> HIDE DEF missing
<1>3. /\ seen' \in [Runs -> Seen]
      /\ \A q \in Runs : \A m \in seen'[q].missing : m \in seen[q].missing \/ m \in missing
  <2>1. seen \in [Runs -> Seen] /\ missing \subseteq Missing
    BY <1>2 DEF D1Truth, D1TypeOK
  <2> QED
    BY <1>1, <2>1 DEF Seen
<1>4. D1TypeOK'
  BY <1>1, <1>3 DEF D1Truth, D1TypeOK, TypeOK, vars
<1>5. \A s \in Servers : server'[s].generation = 1 /\ server'[s].status = "enabled"
  BY <1>1 DEF D1Truth, D1TargetsLast, vars
<1> QED
  BY <1>1, <1>2, <1>3, <1>4, <1>5, ReadingRewrites DEF vars

\* It reads the candidates, or stops having read; a server authenticates.
LEMMA ReadingStepRewrites ==
    ASSUME D1Truth,
           \/ \E r \in Runs : ReadCandidates(r)
           \/ \E r \in Runs : seen' = [seen EXCEPT ![r] = Nothing] /\ UNCHANGED <<vars, writes, forgotten>>
           \/ \E s \in Servers : AuthenticateServer(s) /\ UNCHANGED <<writes, seen, forgotten>>
    PROVE  D1Rewrites
<1>1. /\ UNCHANGED <<userState, item, outbox, delivery, remote, late, writes, forgotten>>
      /\ seen' \in [Runs -> Seen]
      /\ phase' \in [Runs -> {"idle", "swept"}]
      /\ \A r \in Runs : \A m \in seen'[r].missing : m \in seen[r].missing
      /\ server' \in [Servers -> Server]
      /\ \A s \in Servers : server'[s].generation = 1 /\ server'[s].status = "enabled"
  <2>1. /\ seen \in [Runs -> Seen]
        /\ phase \in [Runs -> {"idle", "swept"}]
        /\ server \in [Servers -> Server]
        /\ \A s \in Servers : server[s].generation = 1 /\ server[s].status = "enabled"
        /\ Nothing \in Seen /\ Nothing.missing = {}
    BY DEF D1Truth, D1TypeOK, TypeOK, D1TargetsLast, Nothing, Seen
  <2>2. ASSUME NEW r \in Runs, ReadCandidates(r)
        PROVE  /\ seen' \in [Runs -> Seen]
               /\ phase' \in [Runs -> {"idle", "swept"}]
               /\ \A q \in Runs : \A m \in seen'[q].missing : m \in seen[q].missing
               /\ UNCHANGED <<userState, item, server, outbox, delivery, remote, late, writes, forgotten>>
    <3> DEFINE candidates == {i \in Items : Claimable(outbox, i)}
    <3>1. /\ UNCHANGED <<userState, item, server, outbox, delivery, remote, late, writes, forgotten>>
          /\ \/ /\ seen' = [seen EXCEPT ![r] = Nothing]
                /\ phase' = [phase EXCEPT ![r] = "idle"]
             \/ /\ seen' = [seen EXCEPT ![r].step = "candidates",
                                        ![r].candidates = candidates]
                /\ UNCHANGED phase
      BY <2>2 DEF ReadCandidates
    <3>2. candidates \subseteq Items
      OBVIOUS
    <3> HIDE DEF candidates
    <3>3. CASE /\ seen' = [seen EXCEPT ![r] = Nothing]
               /\ phase' = [phase EXCEPT ![r] = "idle"]
      BY <2>1, <3>1, <3>3
    <3>4. CASE /\ seen' = [seen EXCEPT ![r].step = "candidates",
                                       ![r].candidates = candidates]
               /\ UNCHANGED phase
      BY <2>1, <3>1, <3>2, <3>4 DEF Seen
    <3> QED
      BY <3>1, <3>3, <3>4
  <2>3. ASSUME NEW r \in Runs, seen' = [seen EXCEPT ![r] = Nothing]
        PROVE  /\ seen' \in [Runs -> Seen]
               /\ \A q \in Runs : \A m \in seen'[q].missing : m \in seen[q].missing
    BY <2>1, <2>3
  <2>4. ASSUME NEW s \in Servers, AuthenticateServer(s)
        PROVE  /\ UNCHANGED <<userState, item, outbox, phase, delivery, remote, late>>
               /\ server' \in [Servers -> Server]
               /\ \A t \in Servers : server'[t].generation = 1 /\ server'[t].status = "enabled"
    BY <2>1, <2>4 DEF AuthenticateServer, Server
  <2> QED
    BY <2>1, <2>2, <2>3, <2>4 DEF vars
<1>2. D1TypeOK'
  BY <1>1 DEF D1Truth, D1TypeOK, TypeOK
<1> QED
  BY <1>1, <1>2, ReadingRewrites

\* A row nobody rewrites may stay as it is.
LEMMA RowMayStay ==
    ASSUME D1Truth, NEW i \in Items
    PROVE  /\ KeepsDoubt(outbox[i], outbox[i])
           /\ Begins(outbox[i])
           /\ Serves(outbox[i], i, item)
           /\ IsSaid(item[i].canonical, StateOf(outbox[i]))
  BY RowOnD1, KeepsDoubtOnce

\* Leases are taken back.
LEMMA ReleaseIsSaid ==
    ASSUME D1Truth, NEW i \in Items
    PROVE  LET new == ReleaseExpired(outbox)[i]
           IN /\ new \in Row
              /\ KeepsDoubt(outbox[i], new)
              /\ Begins(new)
              /\ Serves(new, i, item)
              /\ IsSaid(item[i].canonical, StateOf(new))
<1>1. outbox \in Rows
  BY DEF D1Truth, D1TypeOK, TypeOK, Rows
<1>2. PICK new : new = ReleaseExpired(outbox)[i]
  OBVIOUS
<1>3. /\ new \in Row
      /\ KeepsDoubt(outbox[i], new)
      /\ new.status = outbox[i].status /\ new.canonical = outbox[i].canonical
      /\ new.generation = outbox[i].generation /\ StateOf(new) = StateOf(outbox[i])
      /\ Begins(outbox[i]) => new = outbox[i] \/ new.status # "absent"
  BY <1>1, <1>2, ReleaseKeepsDoubt
<1>4. Begins(new)
  BY <1>3, RowOnD1 DEF Begins
<1>5. Serves(new, i, item)
  BY <1>3, RowOnD1 DEF Serves
<1> QED
  BY <1>2, <1>3, <1>4, <1>5, RowOnD1

\* The first statement of a claim, and time.
LEMMA RowStepRewrites ==
    ASSUME D1Truth,
           \/ \E r \in Runs : ReleaseLeases(r)
           \/ \E i \in Items : (LeaseExpires(i) \/ BecomesDue(i)) /\ UNCHANGED <<writes, seen, forgotten>>
    PROVE  D1Rewrites
<1>1. /\ outbox \in Rows /\ seen \in [Runs -> Seen] /\ phase \in [Runs -> {"idle", "swept"}]
      /\ item \in [Items -> SourceItem]
  BY DEF D1Truth, D1TypeOK, TypeOK, Rows
<1>2. ASSUME NEW r \in Runs, ReleaseLeases(r)
      PROVE  D1Rewrites
  <2>1. /\ outbox' = ReleaseExpired(outbox)
        /\ seen' = [seen EXCEPT ![r].step = "released"]
        /\ UNCHANGED <<userState, item, server, phase, delivery, remote, late, writes, forgotten>>
    BY <1>2 DEF ReleaseLeases
  <2>2. seen' \in [Runs -> Seen] /\ \A q \in Runs : seen'[q].missing \subseteq seen[q].missing
    BY <1>1, <2>1 DEF Seen
  <2>3. outbox' \in Rows
    <3>1. outbox' = [i \in Items |-> ReleaseExpired(outbox)[i]]
      BY <2>1 DEF ReleaseExpired
    <3> QED
      BY <3>1, ReleaseIsSaid DEF Rows
  <2> QED
    BY <1>1, <2>1, <2>2, <2>3, ReleaseIsSaid, OutboxRewrites
<1>3. ASSUME NEW i \in Items, LeaseExpires(i) \/ BecomesDue(i), UNCHANGED <<writes, seen, forgotten>>
      PROVE  D1Rewrites
  <2>1. /\ UNCHANGED <<userState, item, server, phase, delivery, remote, late>>
        /\ \/ outbox' = [outbox EXCEPT ![i].expired = TRUE]
           \/ outbox' = [outbox EXCEPT ![i].due = TRUE]
    BY <1>3 DEF LeaseExpires, BecomesDue
  <2>2. ASSUME NEW j \in Items
        PROVE  /\ outbox'[j] \in Row
               /\ outbox'[j].status = outbox[j].status
               /\ outbox'[j].canonical = outbox[j].canonical
               /\ outbox'[j].generation = outbox[j].generation
               /\ outbox'[j].desired = outbox[j].desired
               /\ outbox'[j].payload = outbox[j].payload
               /\ outbox'[j].delivered = outbox[j].delivered
               /\ outbox'[j].uncertain = outbox[j].uncertain
               /\ outbox'[j].owner = outbox[j].owner
               /\ outbox'[j].dispatched = outbox[j].dispatched
    <3>1. outbox[j] \in Row
      BY RowOnD1
    <3>2. \/ outbox'[j] = outbox[j]
          \/ outbox'[j] = [outbox[j] EXCEPT !.expired = TRUE]
          \/ outbox'[j] = [outbox[j] EXCEPT !.due = TRUE]
      BY <1>1, <2>1 DEF Rows
    <3> QED
      BY ONLY <3>1, <3>2 DEF Row
  <2>3. outbox' \in Rows
    <3>1. outbox' = [j \in Items |-> outbox'[j]]
      BY <1>1, <2>1 DEF Rows
    <3> QED
      BY <2>2, <3>1 DEF Rows
  <2>4. ASSUME NEW j \in Items
        PROVE  /\ KeepsDoubt(outbox[j], outbox'[j])
               /\ Begins(outbox'[j])
               /\ Serves(outbox'[j], j, item)
               /\ IsSaid(item[j].canonical, StateOf(outbox'[j]))
    <3>1. KeepsDoubt(outbox[j], outbox'[j])
      BY <2>2, RowOnD1, KeepsDoubtOnce
    <3>2. StateOf(outbox'[j]) = StateOf(outbox[j])
      BY <2>2 DEF StateOf
    <3>3. Begins(outbox'[j]) /\ Serves(outbox'[j], j, item)
      BY <2>2, RowOnD1 DEF Begins, Serves
    <3> QED
      BY <3>1, <3>2, <3>3, RowOnD1
  <2> QED
    BY <1>1, <1>3, <2>1, <2>3, <2>4, OutboxRewrites
<1> QED
  BY <1>2, <1>3

\* A stale batch may set a row back, to a state that was read before.
LEMMA SweepBatchRewrites ==
    ASSUME D1Truth, NEW r \in Runs, SweepBatch(r)
    PROVE  D1Rewrites
<1> DEFINE released == ReleaseExpired(outbox)
           swept == CancelIneligible(released)
           found(i) == {m \in seen[r].missing : m.item = i}
<1>1. /\ outbox' = [i \in Items |->
                      IF found(i) = {} THEN swept[i]
                      ELSE LET m == CHOOSE m \in found(i) : TRUE
                           IN UpsertTarget(swept[i], m.canonical, m.generation, m.state)]
      /\ phase' = [phase EXCEPT ![r] = "swept"]
      /\ seen' = [seen EXCEPT ![r] = Nothing]
      /\ UNCHANGED <<userState, item, server, delivery, remote, late, writes, forgotten>>
  BY DEF SweepBatch
<1>2. ASSUME NEW i \in Items
      PROVE  /\ swept[i] = released[i]
             /\ released[i] \in Row
             /\ KeepsDoubt(outbox[i], released[i])
             /\ Begins(released[i])
             /\ Serves(released[i], i, item)
             /\ IsSaid(item[i].canonical, StateOf(released[i]))
  <2>1. /\ released[i] \in Row
        /\ KeepsDoubt(outbox[i], released[i])
        /\ Begins(released[i])
        /\ Serves(released[i], i, item)
        /\ IsSaid(item[i].canonical, StateOf(released[i]))
    BY ReleaseIsSaid
  <2>2. released[i].status = "eligible" =>
          item[i].canonical = released[i].canonical /\ EligibleTarget(item, i)
    BY <2>1, RowOnD1 DEF Serves, EligibleTarget
  <2> HIDE DEF released
  <2>3. swept[i] = released[i]
    BY <2>2 DEF CancelIneligible
  <2> QED
    BY <2>1, <2>3
<1> HIDE DEF released, swept
<1>3. ASSUME NEW i \in Items
      PROVE  /\ outbox'[i] \in Row
             /\ KeepsDoubt(outbox[i], outbox'[i])
             /\ Begins(outbox'[i])
             /\ Serves(outbox'[i], i, item)
             /\ IsSaid(item[i].canonical, StateOf(outbox'[i]))
  <2>1. CASE found(i) = {}
    <3>1. outbox'[i] = released[i]
      BY <1>1, <1>2, <2>1
    <3> QED
      BY <1>2, <3>1
  <2>2. CASE found(i) # {}
    <3>1. PICK m \in found(i) :
            outbox'[i] = UpsertTarget(swept[i], m.canonical, m.generation, m.state)
      BY <1>1, <2>2
    <3>2. m \in seen[r].missing /\ m.item = i
      BY <3>1
    <3>3. m \in Missing
      BY <3>2 DEF D1Truth, D1TypeOK, Seen
    <3>4. m.generation = 1 /\ item[i].canonical = m.canonical /\ item[i].generation = 1
      BY <3>2 DEF D1Truth, D1TargetsLast, StillTarget
    <3>5. m.canonical \in Canonicals /\ m.state \in State
      BY <3>3 DEF Missing
    <3>6. outbox'[i] = UpsertTarget(released[i], m.canonical, 1, m.state)
      BY <1>2, <3>1, <3>4
    <3>7. /\ outbox'[i] \in Row
          /\ KeepsDoubt(released[i], outbox'[i])
          /\ outbox'[i].status = "eligible" /\ outbox'[i].canonical = m.canonical
          /\ outbox'[i].generation = 1 /\ StateOf(outbox'[i]) = m.state
      BY <1>2, <3>5, <3>6, UpsertKeepsDoubt
    <3>8. KeepsDoubt(outbox[i], outbox'[i])
      BY <1>2, <3>7, RowOnD1, KeepsDoubtTwice
    <3>9. Begins(outbox'[i]) /\ Serves(outbox'[i], i, item)
      BY <3>4, <3>7 DEF Begins, Serves
    <3>10. IsSaid(item[i].canonical, StateOf(outbox'[i]))
      BY <3>2, <3>4, <3>7 DEF IsSaid
    <3> QED
      BY <3>7, <3>8, <3>9, <3>10
  <2> QED
    BY <2>1, <2>2
<1>4. outbox' \in Rows
  <2>1. outbox' = [i \in Items |-> outbox'[i]]
    BY <1>1
  <2> QED
    BY <1>3, <2>1 DEF Rows
<1>5. /\ phase' \in [Runs -> {"idle", "swept"}]
      /\ seen' \in [Runs -> Seen]
      /\ \A q \in Runs : seen'[q].missing \subseteq seen[q].missing
  <2>1. /\ phase \in [Runs -> {"idle", "swept"}] /\ seen \in [Runs -> Seen]
        /\ Nothing \in Seen /\ Nothing.missing = {}
    BY DEF D1Truth, D1TypeOK, TypeOK, Nothing, Seen
  <2> QED
    BY <1>1, <2>1
<1> QED
  BY <1>1, <1>3, <1>4, <1>5, OutboxRewrites

\* The batch of a write stores the next revision and enqueues it.
LEMMA CommitWriteRewrites ==
    ASSUME D1Truth, NEW w \in writes, CommitWrite(w)
    PROVE  D1Rewrites
<1>1. /\ w \in PendingWrite
      /\ w.canonical \in Canonicals /\ w.state \in State
      /\ Written(w) \in State
      /\ Written(w).revision = w.state.revision + 1
  <2>1. w \in PendingWrite
    BY DEF D1Truth, D1TypeOK
  <2> QED
    BY <2>1 DEF PendingWrite, Written, State, Payload
<1>2. /\ writes' = writes \ {w}
      /\ UNCHANGED <<item, server, phase, delivery, remote, late, seen, forgotten>>
      /\ SerialInv
  BY DEF CommitWrite, D1Truth
<1>3. CASE UNCHANGED <<userState, outbox>>
  <2>1. D1TypeOK'
    BY <1>2, <1>3 DEF D1Truth, D1TypeOK, TypeOK
  <2>2. \A s \in Servers : server'[s].generation = 1 /\ server'[s].status = "enabled"
    BY <1>2 DEF D1Truth, D1TargetsLast
  <2> QED
    BY <1>2, <1>3, <2>1, <2>2, ReadingRewrites
<1>4. CASE /\ userState' = [userState EXCEPT ![w.canonical] = Written(w)]
           /\ outbox' = Enqueue(w)
  <2>1. userState' \in [Canonicals -> State] /\ userState'[w.canonical] = Written(w)
    BY <1>1, <1>4 DEF D1Truth, D1TypeOK, TypeOK
  <2>2. StatesMoveOn
    <3> SUFFICES ASSUME NEW c \in Canonicals, userState'[c] # userState[c]
                 PROVE  userState'[c].revision = userState[c].revision + 1
      BY DEF StatesMoveOn
    <3>1. w.state = userState[w.canonical]
      BY <1>2, CommitReplacesWhatWasRead
    <3>2. c = w.canonical
      BY <1>4 DEF D1Truth, D1TypeOK, TypeOK
    <3> QED
      BY <1>1, <2>1, <3>1, <3>2
  <2>3. ASSUME NEW i \in Items
        PROVE  /\ outbox'[i] \in Row
               /\ KeepsDoubt(outbox[i], outbox'[i])
               /\ Begins(outbox'[i])
               /\ Serves(outbox'[i], i, item)
               /\ \/ IsSaid(item[i].canonical, StateOf(outbox'[i]))
                  \/ StateOf(outbox'[i]) = userState'[item[i].canonical]
    <3>1. outbox[i].status = "eligible" /\ outbox[i].canonical = w.canonical =>
            item[i].canonical = w.canonical /\ EligibleTarget(item, i)
      BY RowOnD1 DEF Serves
    <3>2. outbox'[i] = IF w.targets[i] # 0
                       THEN UpsertTarget(outbox[i], w.canonical, w.targets[i], Written(w))
                       ELSE outbox[i]
      BY <1>4, <3>1 DEF Enqueue
    <3>3. CASE w.targets[i] = 0
      BY <3>2, <3>3, RowOnD1, RowMayStay
    <3>4. CASE w.targets[i] # 0
      <4>1. w.targets[i] = 1 /\ item[i].canonical = w.canonical /\ item[i].generation = 1
        BY <3>4 DEF D1Truth, D1TargetsLast, StillTarget
      <4>2. outbox'[i] = UpsertTarget(outbox[i], w.canonical, 1, Written(w))
        BY <3>2, <4>1
      <4>3. /\ outbox'[i] \in Row
            /\ KeepsDoubt(outbox[i], outbox'[i])
            /\ outbox'[i].status = "eligible" /\ outbox'[i].canonical = w.canonical
            /\ outbox'[i].generation = 1 /\ StateOf(outbox'[i]) = Written(w)
        BY <1>1, <4>2, RowOnD1, UpsertKeepsDoubt
      <4>4. Begins(outbox'[i]) /\ Serves(outbox'[i], i, item)
        BY <4>1, <4>3 DEF Begins, Serves
      <4> QED
        BY <2>1, <4>1, <4>3, <4>4
    <3> QED
      BY <3>3, <3>4
  <2>4. D1TypeOK'
    <3>1. outbox' = [i \in Items |-> outbox'[i]]
      BY <1>4 DEF Enqueue
    <3>2. outbox' \in [Items -> Row]
      BY <2>3, <3>1
    <3> QED
      BY <1>2, <2>1, <3>2 DEF D1Truth, D1TypeOK, TypeOK
  <2>5. D1TargetsLast'
    <3>1. \A i \in Items : Begins(outbox'[i]) /\ Serves(outbox'[i], i, item')
      BY <1>2, <2>3
    <3>2. writes' \subseteq writes
      BY <1>2
    <3> QED
      BY <1>2, <3>1, <3>2 DEF D1Truth, D1TargetsLast, StillTarget
  <2>6. /\ \A v \in writes' : IsSaid(v.canonical, v.state)
        /\ \A r \in Runs : \A m \in seen'[r].missing : IsSaid(m.canonical, m.state)
    BY <1>2 DEF IsSaid
  <2> QED
    BY <1>2, <2>2, <2>3, <2>4, <2>5, <2>6 DEF D1Rewrites, KeepsDoubt
<1> QED
  BY <1>3, <1>4 DEF CommitWrite

\* An item is observed: its target is enqueued with the state as it is.
LEMMA ObserveItemRewrites ==
    ASSUME D1Truth, NEW i \in Items, ObserveItem(i)
    PROVE  D1Rewrites
<1> DEFINE c == item[i].canonical
           items == [item EXCEPT ![i].generation = server[ServerOf[i]].generation]
<1>1. /\ item' = items
      /\ outbox' = [j \in Items |->
            LET target == items[j].canonical = c /\ EligibleTarget(items, j)
                lost == /\ outbox[j].status = "eligible"
                        /\ outbox[j].canonical = c
                        /\ ~target
                kept == IF lost THEN Cancel(outbox[j]) ELSE outbox[j]
            IN IF target /\ userState[c].revision > 0
               THEN UpsertResolved(kept, c, items[j].generation, userState[c])
               ELSE kept]
      /\ UNCHANGED <<userState, server, phase, delivery, remote, late, writes, seen>>
      /\ forgotten' = forgotten \cup
            {j \in Items : /\ items[j].canonical = c /\ EligibleTarget(items, j)
                           /\ userState[c].revision > 0
                           /\ ForgetsDelivery(outbox[j], userState[c])}
  BY DEF ObserveItem
<1>2. c \in Canonicals /\ userState[c] \in State /\ IsSaid(c, userState[c])
  BY RowOnD1
<1>3. ASSUME NEW j \in Items
      PROVE  /\ items[j] \in SourceItem
             /\ items[j].canonical = item[j].canonical
             /\ items[j].bound
             /\ item[j].generation = 1 => items[j].generation = 1
  <2>1. /\ item \in [Items -> SourceItem]
        /\ server[ServerOf[i]].generation = 1
        /\ item[j].bound
    BY RowOnD1 DEF D1Truth, D1TypeOK, TypeOK
  <2> QED
    BY <2>1 DEF SourceItem
<1>4. items \in [Items -> SourceItem]
  <2>1. item \in [Items -> SourceItem]
    BY DEF D1Truth, D1TypeOK, TypeOK
  <2>2. items = [j \in Items |-> items[j]]
    BY <2>1
  <2> QED
    BY <1>3, <2>2
<1> HIDE DEF items, c
<1>10. forgotten \subseteq forgotten' /\ forgotten' \subseteq Items
  BY <1>1 DEF D1Truth, D1TypeOK
<1>5. ASSUME NEW j \in Items
      PROVE  /\ outbox'[j] \in Row
             /\ KeepsRow(outbox[j], outbox'[j])
             /\ j \in forgotten' \/ Remembers(outbox[j], outbox'[j])
             /\ Begins(outbox'[j])
             /\ Serves(outbox'[j], j, items)
             /\ IsSaid(item[j].canonical, StateOf(outbox'[j]))
  <2> DEFINE target == items[j].canonical = c /\ EligibleTarget(items, j)
  <2>1. /\ outbox[j] \in Row /\ Begins(outbox[j]) /\ Serves(outbox[j], j, item)
        /\ server[ServerOf[j]].generation = 1 /\ server[ServerOf[j]].status = "enabled"
    BY RowOnD1
  <2>2. outbox[j].status = "eligible" /\ outbox[j].canonical = c => target
    BY <1>3, <2>1 DEF Serves, EligibleTarget
  <2>3. outbox'[j] = IF target /\ userState[c].revision > 0
                     THEN UpsertResolved(outbox[j], c, items[j].generation, userState[c])
                     ELSE outbox[j]
    BY <1>1, <2>2
  <2>4. CASE ~(target /\ userState[c].revision > 0)
    <3>1. outbox'[j] = outbox[j]
      BY <2>3, <2>4
    <3>2. Serves(outbox'[j], j, items)
      BY <1>3, <2>1, <3>1 DEF Serves
    <3> QED
      BY <2>1, <3>1, <3>2, RowMayStay DEF KeepsDoubt
  <2>5. CASE target /\ userState[c].revision > 0
    <3>1. item[j].canonical = c /\ items[j].canonical = c /\ items[j].generation = 1
      BY <1>3, <2>1, <2>5 DEF EligibleTarget
    <3>2. outbox'[j] = UpsertResolved(outbox[j], c, 1, userState[c])
      BY <2>3, <2>5, <3>1
    <3>3. ForgetsDelivery(outbox[j], userState[c]) => j \in forgotten'
      BY <1>1, <2>5
    <3>4. outbox[j].desired = userState[c].revision => outbox[j].payload = userState[c].payload
      <4>1. RowsOnD1AreSound
        BY D1TruthIsSound
      <4> QED
        BY <3>1, <4>1 DEF RowsOnD1AreSound, LatestIsCarried
    <3>5. outbox[j].status # "absent" => outbox[j].generation = 1
      BY <2>1 DEF Serves
    <3>6. /\ outbox'[j] \in Row
          /\ KeepsRow(outbox[j], outbox'[j])
          /\ j \in forgotten' \/ Remembers(outbox[j], outbox'[j])
          /\ outbox'[j].status = "eligible" /\ outbox'[j].canonical = c
          /\ outbox'[j].generation = 1 /\ StateOf(outbox'[j]) = userState[c]
      BY <1>2, <2>1, <3>2, <3>3, <3>4, <3>5, ResolvedKeepsRow
    <3>7. Begins(outbox'[j]) /\ Serves(outbox'[j], j, items)
      BY <3>1, <3>6 DEF Begins, Serves
    <3> QED
      BY <1>2, <3>1, <3>6, <3>7
  <2> QED
    BY <2>4, <2>5
<1>6. D1TypeOK'
  <2>1. outbox' = [j \in Items |-> outbox'[j]]
    BY <1>1
  <2>2. outbox' \in [Items -> Row]
    BY <1>5, <2>1
  <2> QED
    BY <1>1, <1>4, <1>10, <2>2 DEF D1Truth, D1TypeOK, TypeOK
<1>7. D1TargetsLast'
  <2>1. \A j \in Items : item'[j].bound /\ Begins(outbox'[j]) /\ Serves(outbox'[j], j, item')
    BY <1>1, <1>3, <1>5
  <2>2. \A w \in writes', j \in Items :
          w.targets[j] # 0 => StillTarget(j, w.canonical, w.targets[j])'
    BY <1>1, <1>3 DEF D1Truth, D1TargetsLast, StillTarget
  <2>3. \A r \in Runs : \A m \in seen'[r].missing :
          StillTarget(m.item, m.canonical, m.generation)'
    <3> SUFFICES ASSUME NEW r \in Runs, NEW m \in seen[r].missing
                 PROVE  StillTarget(m.item, m.canonical, m.generation)'
      BY <1>1
    <3>1. m.item \in Items
      BY DEF D1Truth, D1TypeOK, Seen, Missing
    <3> QED
      BY <1>1, <1>3, <3>1 DEF D1Truth, D1TargetsLast, StillTarget
  <2>4. \A s \in Servers : server'[s].generation = 1 /\ server'[s].status = "enabled"
    BY <1>1 DEF D1Truth, D1TargetsLast
  <2> QED
    BY <2>1, <2>2, <2>3, <2>4 DEF D1TargetsLast, StillTarget
<1>8. /\ \A w \in writes' : IsSaid(w.canonical, w.state)
      /\ \A r \in Runs : \A m \in seen'[r].missing : IsSaid(m.canonical, m.state)
  BY <1>1 DEF IsSaid
<1>9. \A j \in Items : item'[j].canonical = item[j].canonical
  BY <1>1, <1>3
<1> QED
  BY <1>1, <1>5, <1>6, <1>7, <1>8, <1>9, <1>10 DEF D1Rewrites, StatesMoveOn

-----------------------------------------------------------------------------
(* On D1: claims, fibers and the network                                   *)

\* Rows keep what they ask for, and nothing new is read.
D1Frame ==
    /\ UNCHANGED <<userState, item, server, writes, forgotten>>
    /\ \A r \in Runs : seen'[r].missing \subseteq seen[r].missing
    /\ \A i \in Items :
         /\ outbox'[i].status = outbox[i].status
         /\ outbox'[i].canonical = outbox[i].canonical
         /\ outbox'[i].generation = outbox[i].generation
         /\ outbox'[i].desired = outbox[i].desired
         /\ outbox'[i].payload = outbox[i].payload

LEMMA FrameKeepsTargets ==
    ASSUME D1Truth, D1Frame, \A i \in Items : Begins(outbox'[i])
    PROVE  D1TargetsLast'
<1>1. \A i \in Items : Serves(outbox'[i], i, item)
  BY RowOnD1 DEF D1Frame, Serves
<1>2. UNCHANGED <<item, server, writes>>
  BY DEF D1Frame
<1>3. \A r \in Runs : \A m \in seen'[r].missing : m \in seen[r].missing
  BY DEF D1Frame
<1> QED
  BY <1>1, <1>2, <1>3 DEF D1Truth, D1TargetsLast, StillTarget

LEMMA FrameSaysNothingNew ==
    ASSUME D1Truth, D1Frame,
           \A r \in Runs, i \in Items :
             StateOf(delivery'[r][i]) \in {Never, StateOf(delivery[r][i]), StateOf(outbox[i])},
           \A i \in Items : Certain(i)' => IsSaid(item[i].canonical, Held(i)')
    PROVE  SaidOnce'
<1>1. /\ UNCHANGED <<userState, item, writes>>
      /\ \A r \in Runs : \A m \in seen'[r].missing : m \in seen[r].missing
      /\ \A i \in Items : StateOf(outbox'[i]) = StateOf(outbox[i])
  BY DEF D1Frame, StateOf
<1>2. SaysTheLatest
  <2> SUFFICES ASSUME NEW c \in Canonicals, NEW s \in State, IsSaid(c, s)'
               PROVE  IsSaid(c, s)
    BY DEF SaysTheLatest
  <2>1. CASE s = Never \/ s = userState[c]
    BY <2>1 DEF IsSaid
  <2>2. CASE \/ \E w \in writes' : w.canonical = c /\ w.state = s
             \/ \E r \in Runs : \E m \in seen'[r].missing :
                  m.canonical = c /\ m.state = s
    BY <1>1, <2>2 DEF IsSaid
  <2>3. ASSUME NEW i \in Items, item'[i].canonical = c,
               \/ StateOf(outbox'[i]) = s
               \/ \E r \in Runs : StateOf(delivery'[r][i]) = s
               \/ Certain(i)' /\ Held(i)' = s
        PROVE  IsSaid(c, s)
    <3>1. item[i].canonical = c /\ IsSaid(c, StateOf(outbox[i])) /\ IsSaid(c, Never)
      BY <1>1, <2>3 DEF IsSaid
    <3>2. CASE StateOf(outbox'[i]) = s
      BY <1>1, <3>1, <3>2
    <3>3. CASE \E r \in Runs : StateOf(delivery'[r][i]) = s
      <4>1. PICK r \in Runs : StateOf(delivery'[r][i]) = s
        BY <3>3
      <4>2. s \in {Never, StateOf(delivery[r][i]), StateOf(outbox[i])}
        BY <4>1
      <4>3. IsSaid(c, StateOf(delivery[r][i]))
        BY <3>1 DEF IsSaid
      <4> QED
        BY <3>1, <4>2, <4>3
    <3>4. CASE Certain(i)' /\ Held(i)' = s
      BY <3>1, <3>4
    <3> QED
      BY <2>3, <3>2, <3>3, <3>4
  <2>4. \/ s = Never \/ s = userState[c]
        \/ \/ \E w \in writes' : w.canonical = c /\ w.state = s
           \/ \E r \in Runs : \E m \in seen'[r].missing :
                m.canonical = c /\ m.state = s
        \/ \E i \in Items :
             /\ item'[i].canonical = c
             /\ \/ StateOf(outbox'[i]) = s
                \/ \E r \in Runs : StateOf(delivery'[r][i]) = s
                \/ Certain(i)' /\ Held(i)' = s
    BY <1>1 DEF IsSaid, Never
  <2> QED
    BY <2>1, <2>2, <2>3, <2>4
<1>3. StatesMoveOn /\ userState \in [Canonicals -> State]
  BY <1>1 DEF StatesMoveOn, D1Truth, SerialInv
<1> QED
  BY <1>1, <1>2, <1>3, LatestIsSaidOnce DEF D1Truth

\* A run leases the candidates that are still claimable.
LEMMA ClaimKeepsD1Truth ==
    ASSUME D1Truth, NEW r \in Runs, ClaimCandidates(r), SerialInv'
    PROVE  D1Truth'
<1> DEFINE claimed == {i \in seen[r].candidates : StillClaimable(outbox, i)}
           leased(i) == [outbox[i] EXCEPT !.owner = r, !.expired = FALSE,
                                          !.dispatched = FALSE]
           claim(i) == [at |-> "claimed", desired |-> outbox[i].desired,
                        generation |-> outbox[i].generation,
                        payload |-> outbox[i].payload]
<1>1. /\ outbox' = [i \in Items |-> IF i \in claimed THEN leased(i) ELSE outbox[i]]
      /\ delivery' = [delivery EXCEPT
           ![r] = [i \in Items |-> IF i \in claimed THEN claim(i) ELSE delivery[r][i]]]
      /\ phase' = [phase EXCEPT ![r] = "idle"]
      /\ seen' = [seen EXCEPT ![r] = Nothing]
      /\ UNCHANGED <<userState, item, server, remote, late, writes, forgotten>>
  BY DEF ClaimCandidates
<1>2. /\ \A i \in Items : outbox[i] \in Row
      /\ delivery \in [Runs -> [Items -> Fiber]]
      /\ phase \in [Runs -> {"idle", "swept"}]
      /\ seen \in [Runs -> Seen] /\ Nothing \in Seen /\ Nothing.missing = {}
      /\ \A w \in late : w.item \in Items
      /\ \A i \in Items : outbox[i].owner \in Runs \cup {NoRun}
      /\ r # NoRun
  BY NoRunAssumption DEF D1Truth, D1TypeOK, TypeOK, Nothing, Seen, Write, Row
<1>3. ASSUME NEW i \in claimed
      PROVE  /\ outbox[i].status = "eligible"
             /\ outbox[i].owner = NoRun
             /\ outbox[i].delivered < outbox[i].desired \/ outbox[i].uncertain
  BY DEF StillClaimable, Claimable
<1> HIDE DEF claimed
<1>4. ASSUME NEW i \in Items
      PROVE  /\ outbox'[i] \in Row
             /\ outbox'[i].status = outbox[i].status
             /\ outbox'[i].canonical = outbox[i].canonical
             /\ outbox'[i].generation = outbox[i].generation
             /\ outbox'[i].desired = outbox[i].desired
             /\ outbox'[i].payload = outbox[i].payload
             /\ outbox'[i].delivered = outbox[i].delivered
             /\ outbox'[i].uncertain = outbox[i].uncertain
             /\ \/ /\ outbox'[i] = outbox[i]
                   /\ delivery'[r][i] = delivery[r][i]
                \/ /\ outbox[i].status = "eligible"
                   /\ outbox[i].owner = NoRun
                   /\ outbox[i].delivered < outbox[i].desired \/ outbox[i].uncertain
                   /\ outbox'[i].owner = r /\ ~outbox'[i].dispatched
                   /\ delivery'[r][i] = claim(i)
  <2>1. CASE i \in claimed
    <3>1. outbox'[i] = leased(i) /\ delivery'[r][i] = claim(i) /\ outbox[i] \in Row
      BY <1>1, <1>2, <2>1
    <3>2. /\ leased(i) \in Row
          /\ leased(i).status = outbox[i].status
          /\ leased(i).canonical = outbox[i].canonical
          /\ leased(i).generation = outbox[i].generation
          /\ leased(i).desired = outbox[i].desired
          /\ leased(i).payload = outbox[i].payload
          /\ leased(i).delivered = outbox[i].delivered
          /\ leased(i).uncertain = outbox[i].uncertain
          /\ leased(i).owner = r /\ ~leased(i).dispatched
      BY <3>1 DEF Row
    <3> HIDE DEF leased, claim
    <3> QED
      BY <1>3, <2>1, <3>1, <3>2
  <2>2. CASE i \notin claimed
    BY <1>1, <1>2, <2>2
  <2> QED
    BY <2>1, <2>2
<1>5. \A q \in Runs \ {r} : delivery'[q] = delivery[q]
  BY <1>1, <1>2
<1>6. ASSUME NEW i \in Items
      PROVE  /\ claim(i) \in Fiber /\ claim(i).at = "claimed"
             /\ StateOf(claim(i)) = StateOf(outbox[i])
             /\ claim(i).desired = outbox[i].desired
             /\ claim(i).generation = outbox[i].generation
             /\ claim(i).payload = outbox[i].payload
  BY <1>2 DEF Fiber, FiberState, Row, StateOf
<1>7. D1TypeOK'
  <2>1. outbox' \in [Items -> Row]
    <3>1. outbox' = [i \in Items |-> outbox'[i]]
      BY <1>1
    <3> QED
      BY <1>4, <3>1
  <2>2. delivery' \in [Runs -> [Items -> Fiber]]
    <3>1. [i \in Items |-> IF i \in claimed THEN claim(i) ELSE delivery[r][i]] \in [Items -> Fiber]
      BY <1>2, <1>6
    <3> QED
      BY <1>1, <1>2, <3>1
  <2>3. phase' \in [Runs -> {"idle", "swept"}] /\ seen' \in [Runs -> Seen]
    BY <1>1, <1>2
  <2> QED
    BY <1>1, <2>1, <2>2, <2>3 DEF D1Truth, D1TypeOK, TypeOK
<1> HIDE DEF leased, claim
<1>18. \A i \in Items : Doubted(i)' <=> Doubted(i)
  BY <1>1, <1>4 DEF Doubted
<1>8. D1Frame
  <2>1. \A q \in Runs : seen'[q].missing \subseteq seen[q].missing
    BY <1>1, <1>2
  <2> QED
    BY <1>1, <1>4, <2>1 DEF D1Frame
<1>9. D1TargetsLast'
  <2>1. \A i \in Items : Begins(outbox'[i])
    BY <1>4, RowOnD1 DEF Begins
  <2> QED
    BY <1>8, <2>1, FrameKeepsTargets
<1>10. SaidOnce'
  <2>1. ASSUME NEW q \in Runs, NEW i \in Items
        PROVE  StateOf(delivery'[q][i]) \in {Never, StateOf(delivery[q][i]), StateOf(outbox[i])}
    BY <1>4, <1>5, <1>6
  <2>2. ASSUME NEW i \in Items, Certain(i)'
        PROVE  IsSaid(item[i].canonical, Held(i)')
    <3>1. ~Doubted(i) /\ Held(i)' = Held(i)
      BY <1>1, <1>4, <1>18, <2>2 DEF Certain, Held
    <3>2. ~Untold(i)
      <4>1. CASE outbox[i].owner = NoRun
        BY <4>1, NoRunAssumption DEF Untold
      <4>2. CASE outbox'[i] = outbox[i] /\ delivery'[r][i] = delivery[r][i]
        BY <1>5, <2>2, <4>2 DEF Certain, Untold, Telling
      <4> QED
        BY <1>4, <4>1, <4>2
    <3> QED
      BY <3>1, <3>2 DEF Certain, IsSaid
  <2> QED
    BY <1>8, <2>1, <2>2, FrameSaysNothingNew
<1>11. LeaseHolderIsCurrent'
  <2> SUFFICES ASSUME NEW q \in Runs, NEW i \in Items,
                      outbox'[i].owner = q, delivery'[q][i].at # "none"
               PROVE  /\ delivery'[q][i].desired = outbox'[i].desired
                      /\ delivery'[q][i].generation = outbox'[i].generation
                      /\ delivery'[q][i].payload = outbox'[i].payload
    BY DEF LeaseHolderIsCurrent
  <2>1. CASE outbox'[i] = outbox[i] /\ delivery'[r][i] = delivery[r][i]
    BY <1>5, <2>1 DEF D1Truth, LeaseHolderIsCurrent
  <2>2. CASE outbox'[i].owner = r /\ delivery'[r][i] = claim(i)
    BY <1>4, <1>6, <2>2
  <2> QED
    BY <1>4, <2>1, <2>2
<1>12. LeasedIsBehind'
  BY <1>4 DEF D1Truth, LeasedIsBehind
<1>13. \A q \in Runs, i \in Items :
         delivery'[q][i].at \in Dispatched => delivery'[q][i] = delivery[q][i]
  BY <1>4, <1>5, <1>6 DEF Dispatched
<1>14. CertainDispatchedHold'
  BY <1>4, <1>13, <1>18, NoRunAssumption DEF D1Truth, CertainDispatchedHold
<1>15. CertainLateIsHeld'
  <2> SUFFICES ASSUME NEW w \in late, ~Doubted(w.item)'
               PROVE  /\ w.payload = outbox'[w.item].payload
                      /\ outbox'[w.item].owner # NoRun
                      /\ outbox'[w.item].dispatched
                      /\ delivery'[outbox'[w.item].owner][w.item].at
                           \in {"none", "ambiguous"}
    BY <1>1 DEF CertainLateIsHeld
  <2>1. PICK i \in Items : i = w.item
    BY <1>2
  <2>2. /\ w.payload = outbox[i].payload
        /\ outbox[i].owner # NoRun
        /\ outbox[i].dispatched
        /\ delivery[outbox[i].owner][i].at \in {"none", "ambiguous"}
    BY <1>4, <1>18, <2>1 DEF D1Truth, CertainLateIsHeld
  <2>3. outbox'[i] = outbox[i] /\ delivery'[r][i] = delivery[r][i]
    BY <1>4, <2>2
  <2>4. delivery'[outbox[i].owner][i] = delivery[outbox[i].owner][i]
    BY <1>2, <1>5, <2>2, <2>3
  <2> QED
    BY <2>1, <2>2, <2>3, <2>4
<1>16. CertainAppliedIsHeld'
  BY <1>1, <1>4, <1>13, <1>18 DEF D1Truth, CertainAppliedIsHeld, Dispatched
<1>17. FibersHaveRows'
  BY <1>4, <1>5 DEF D1Truth, FibersHaveRows
<1> QED
  BY <1>7, <1>9, <1>10, <1>11, <1>12, <1>14, <1>15, <1>16, <1>17 DEF D1Truth

\* An invocation dies: what it sent may still arrive, under the lease it leaves.
LEMMA StopKeepsD1Truth ==
    ASSUME D1Truth, NEW r \in Runs, StopD1Run(r), SerialInv'
    PROVE  D1Truth'
<1>1. /\ seen' = [seen EXCEPT ![r] = Nothing] /\ UNCHANGED <<writes, forgotten>>
      /\ StopRun(r) \/ UNCHANGED vars
  BY DEF StopD1Run
<1>2. CASE UNCHANGED vars
  BY <1>1, <1>2, ReadingStepRewrites, RewritesKeepD1Truth
<1>3. CASE StopRun(r)
  <2>1. /\ TypeOK /\ LeaseHolderIsCurrent
        /\ seen \in [Runs -> Seen] /\ Nothing \in Seen /\ Nothing.missing = {}
        /\ \A w \in late : w.item \in Items
        /\ \A i \in Items : outbox[i].owner \in Runs \cup {NoRun}
        /\ NoFiber.at = "none" /\ StateOf(NoFiber) = Never
    BY DEF D1Truth, D1TypeOK, TypeOK, Nothing, Seen, Write, Row, NoFiber, StateOf, Never
  <2>2. /\ UNCHANGED <<userState, item, server, outbox, remote>>
        /\ \A q \in Runs, i \in Items :
             delivery'[q][i] = IF q = r THEN NoFiber ELSE delivery[q][i]
        /\ \A w \in late' :
             \/ w \in late
             \/ /\ w.item \in Items
                /\ delivery[r][w.item].at = "sent"
                /\ delivery[r][w.item].payload = w.payload
    BY <1>3, <2>1, StopEffect
  <2>11. \A i \in Items : Doubted(i)' <=> Doubted(i)
    BY <1>1, <2>2 DEF Doubted
  <2>3. TypeOK' /\ LeaseHolderIsCurrent'
    BY <1>3, <2>1, StopTypes
  <2>4. D1TypeOK'
    BY <1>1, <2>1, <2>3 DEF D1Truth, D1TypeOK
  <2>5. D1Frame
    <3>1. \A q \in Runs : seen'[q].missing \subseteq seen[q].missing
      BY <1>1, <2>1
    <3> QED
      BY <1>1, <2>2, <3>1 DEF D1Frame
  <2>6. D1TargetsLast'
    <3>1. \A i \in Items : Begins(outbox'[i])
      BY <2>2, RowOnD1
    <3> QED
      BY <2>5, <3>1, FrameKeepsTargets
  <2>7. SaidOnce'
    <3>1. ASSUME NEW q \in Runs, NEW i \in Items
          PROVE  StateOf(delivery'[q][i]) \in {Never, StateOf(delivery[q][i]), StateOf(outbox[i])}
      BY <2>1, <2>2
    <3>2. ASSUME NEW i \in Items, Certain(i)'
          PROVE  IsSaid(item[i].canonical, Held(i)')
      <4>1. Held(i)' = Held(i) /\ ~Doubted(i)
        BY <2>2, <2>11, <3>2 DEF Held, Certain
      <4>2. ~Untold(i)
        BY <2>1, <2>2, <3>2 DEF Certain, Untold, Telling
      <4> QED
        BY <4>1, <4>2 DEF Certain, IsSaid
    <3> QED
      BY <2>5, <3>1, <3>2, FrameSaysNothingNew
  <2>8. LeasedIsBehind'
    BY <2>2 DEF D1Truth, LeasedIsBehind
  <2>9. CertainDispatchedHold' /\ CertainAppliedIsHeld' /\ FibersHaveRows'
    BY <2>1, <2>2, <2>11 DEF D1Truth, CertainDispatchedHold, CertainAppliedIsHeld, FibersHaveRows, Dispatched
  <2>10. CertainLateIsHeld'
    <3> SUFFICES ASSUME NEW w \in late', ~Doubted(w.item)
                 PROVE  /\ w.payload = outbox[w.item].payload
                        /\ outbox[w.item].owner # NoRun
                        /\ outbox[w.item].dispatched
                        /\ delivery'[outbox[w.item].owner][w.item].at
                             \in {"none", "ambiguous"}
      BY <2>1, <2>2, <2>11 DEF CertainLateIsHeld
    <3>1. PICK i \in Items : i = w.item
      BY <2>1, <2>2
    <3>2. CASE w \in late
      <4>1. /\ w.payload = outbox[i].payload
            /\ outbox[i].owner # NoRun
            /\ outbox[i].dispatched
            /\ delivery[outbox[i].owner][i].at \in {"none", "ambiguous"}
        BY <3>1, <3>2 DEF D1Truth, CertainLateIsHeld
      <4> QED
        BY <2>1, <2>2, <3>1, <4>1
    <3>3. CASE /\ delivery[r][i].at = "sent"
               /\ delivery[r][i].payload = w.payload
      <4>1. outbox[i].owner = r /\ outbox[i].dispatched
        BY <3>1, <3>3 DEF D1Truth, CertainDispatchedHold, Dispatched
      <4>2. delivery[r][i].payload = outbox[i].payload
        BY <2>1, <3>3, <4>1 DEF LeaseHolderIsCurrent
      <4> QED
        BY <2>1, <2>2, <3>1, <3>3, <4>1, <4>2, NoRunAssumption
    <3> QED
      BY <2>2, <3>1, <3>2, <3>3
  <2> QED
    BY <2>3, <2>4, <2>6, <2>7, <2>8, <2>9, <2>10 DEF D1Truth
<1> QED
  BY <1>1, <1>2, <1>3

\* A fiber takes a step. It may be refused its doubt, once a stale batch has set
\* its row back, but then it is not the holder of the lease.
LEMMA FiberKeepsD1Truth ==
    ASSUME D1Truth, NEW r \in Runs, NEW i \in Items, D1FiberStep(r, i),
           UNCHANGED <<writes, seen, forgotten>>, SerialInv'
    PROVE  D1Truth'
<1>1. /\ TypeOK /\ LeaseHolderIsCurrent
      /\ outbox[i] \in Row /\ delivery[r][i] \in Fiber
      /\ \A w \in late : w.item \in Items
      /\ \A j \in Items : outbox[j].owner \in Runs \cup {NoRun}
      /\ FiberStep(r, i)
      /\ ~Deleted(i)
  <2>1. TypeOK /\ LeaseHolderIsCurrent
    BY DEF D1Truth, D1TypeOK
  <2>2. FiberStep(r, i)
    BY <2>1, DeliveriesAgree
  <2>3. ~Deleted(i)
    BY RowOnD1 DEF Deleted
  <2> QED
    BY <2>1, <2>2, <2>3 DEF TypeOK, Write, Row
<1>2. /\ \A j \in Items \ {i} : outbox'[j] = outbox[j] /\ remote'[j] = remote[j]
      /\ \A q \in Runs, j \in Items :
           q # r \/ j # i => delivery'[q][j] = delivery[q][j]
      /\ delivery'[r][i].at # "none" =>
           /\ delivery'[r][i].desired = delivery[r][i].desired
           /\ delivery'[r][i].payload = delivery[r][i].payload
      /\ \A w \in late' : w.item # i => w \in late
      /\ outbox'[i].desired = outbox[i].desired
      /\ outbox'[i].payload = outbox[i].payload
      /\ delivery[r][i].at # "none"
  BY <1>1, FiberKeepsOut
<1>3. /\ TypeOK' /\ LeaseHolderIsCurrent'
      /\ UNCHANGED <<userState, item, server, phase>>
  BY <1>1, FiberStepTypes
<1>4. \A q \in Runs : \A j \in Items \ {i} : delivery'[q][j] = delivery[q][j]
  BY <1>2
<1>5. outbox[i].owner = r =>
        /\ delivery[r][i].desired = outbox[i].desired
        /\ delivery[r][i].payload = outbox[i].payload
  BY <1>1, <1>2 DEF LeaseHolderIsCurrent
<1>6. ASSUME ~Doubted(i), delivery[r][i].at \in Dispatched
      PROVE  /\ outbox[i].owner = r
             /\ outbox[i].dispatched
             /\ delivery[r][i].payload = outbox[i].payload
             /\ delivery[r][i].desired = outbox[i].desired
  BY <1>5, <1>6 DEF D1Truth, CertainDispatchedHold
<1>7. \/ FiberMove(r, i)
      \/ RefusedDoubt(r, i) /\ outbox[i].owner # r
  <2>1. RefusedDoubt(r, i) => outbox[i].owner # r
    BY <1>1, <1>5 DEF RefusedDoubt, Row, Fiber
  <2> QED
    BY <1>1, <2>1, FiberStepIsMoveOrRefused
<1>8. /\ outbox[i].uncertain => outbox'[i].uncertain
      /\ Doubted(i) => Doubted(i)'
      /\ \A j \in Items \ {i} : Doubted(j)' <=> Doubted(j)
  BY <1>2, <1>7 DEF FiberMove, RefusedDoubt, Doubted
<1>9. ASSUME outbox[i].owner # r
      PROVE  Bookkeeping(outbox[i], outbox'[i])
  BY <1>7, <1>9 DEF FiberMove, RefusedDoubt, Bookkeeping, MayTouchServer, OwnsLease
<1>10. ~Doubted(i) /\ delivery[r][i].at \in Dispatched => FiberMove(r, i)
  BY <1>6, <1>7
<1>11. D1Frame
  <2>1. \A j \in Items :
          /\ outbox'[j].status = outbox[j].status
          /\ outbox'[j].canonical = outbox[j].canonical
          /\ outbox'[j].generation = outbox[j].generation
          /\ outbox'[j].desired = outbox[j].desired
          /\ outbox'[j].payload = outbox[j].payload
    BY <1>1, FiberStepRow
  <2> QED
    BY <1>3, <2>1 DEF D1Frame
<1>12. D1TypeOK'
  BY <1>3 DEF D1Truth, D1TypeOK
<1>13. D1TargetsLast'
  <2>1. outbox[i].status # "absent" /\ outbox'[i].status = outbox[i].status
    BY <1>2, <1>11 DEF D1Truth, FibersHaveRows, D1Frame
  <2>2. \A j \in Items : Begins(outbox'[j])
    BY <1>2, <2>1, RowOnD1 DEF Begins
  <2> QED
    BY <1>11, <2>2, FrameKeepsTargets
<1>14. SaidOnce'
  <2>1. ASSUME NEW q \in Runs, NEW j \in Items
        PROVE  StateOf(delivery'[q][j]) \in {Never, StateOf(delivery[q][j]), StateOf(outbox[j])}
    <3>1. CASE q # r \/ j # i
      BY <1>2, <3>1
    <3>2. CASE q = r /\ j = i
      <4>1. delivery \in [Runs -> [Items -> Fiber]]
        BY <1>1 DEF TypeOK
      <4>2. CASE EndFiber(r, i)
        BY <3>2, <4>1, <4>2 DEF EndFiber, NoFiber, StateOf, Never
      <4>3. CASE \E at \in FiberState : Goto(r, i, at)
        <5>1. PICK at \in FiberState : delivery' = [delivery EXCEPT ![r][i].at = at]
          BY <4>3 DEF Goto
        <5>2. /\ delivery'[r][i].desired = delivery[r][i].desired
              /\ delivery'[r][i].payload = delivery[r][i].payload
          BY <1>1, <4>1, <5>1 DEF Fiber
        <5> QED
          BY <3>2, <5>2 DEF StateOf
      <4> QED
        BY <1>1, <4>2, <4>3, FiberStepMoves
    <3> QED
      BY <3>1, <3>2
  <2>2. ASSUME NEW j \in Items, Certain(j)'
        PROVE  IsSaid(item[j].canonical, Held(j)')
    <3>1. CASE j # i
      <4>1. Held(j)' = Held(j) /\ Certain(j)
        BY <1>2, <1>4, <1>8, <2>2, <3>1 DEF Held, Certain, Untold, Telling
      <4> QED
        BY <4>1 DEF IsSaid
    <3>2. CASE j = i
      <4>1. ~Doubted(i)' /\ ~Doubted(i)
        BY <1>8, <2>2, <3>2 DEF Certain
      <4>2. ~(delivery[r][i].at = "sent" /\ delivery'[r][i].at = "applied")
        <5> SUFFICES ASSUME delivery[r][i].at = "sent", delivery'[r][i].at = "applied"
                     PROVE  FALSE
          OBVIOUS
        <5>1. outbox[i].owner = r /\ outbox[i].dispatched /\ FiberMove(r, i)
          BY <1>6, <1>10, <4>1 DEF Dispatched
        <5>2. outbox'[i].owner = r /\ outbox'[i].dispatched
          BY <5>1 DEF FiberMove, Bookkeeping
        <5> QED
          BY <2>2, <3>2, <5>2 DEF Certain, Untold, Telling
      <4>3. CASE outbox'[i].delivered # outbox[i].delivered
        <5>1. /\ delivery[r][i].at = "succeeded"
              /\ outbox'[i].delivered = delivery[r][i].desired
              /\ UNCHANGED remote
          BY <1>7, <4>3 DEF FiberMove, RefusedDoubt, Bookkeeping
        <5>2. remote[i] = delivery[r][i].payload
          BY <4>1, <5>1 DEF D1Truth, CertainAppliedIsHeld
        <5>3. Held(i)' = StateOf(delivery[r][i])
          BY <5>1, <5>2 DEF Held, StateOf
        <5> QED
          BY <3>2, <5>3 DEF IsSaid
      <4>4. CASE outbox'[i].delivered = outbox[i].delivered
        <5>1. CASE /\ delivery[r][i].at = "succeeded"
                   /\ delivery'[r][i].at = "none"
          <6>1. UNCHANGED remote /\ outbox'[i].delivered = delivery[r][i].desired
            BY <1>7, <5>1 DEF FiberMove, RefusedDoubt
          <6>2. remote[i] = delivery[r][i].payload
            BY <4>1, <5>1 DEF D1Truth, CertainAppliedIsHeld
          <6>3. Held(i)' = StateOf(delivery[r][i])
            BY <6>1, <6>2 DEF Held, StateOf
          <6> QED
            BY <3>2, <6>3 DEF IsSaid
        <5>2. CASE ~(/\ delivery[r][i].at = "succeeded"
                     /\ delivery'[r][i].at = "none")
          <6>1. remote'[i] = remote[i]
            BY <1>7, <4>2 DEF FiberMove, RefusedDoubt
          <6>2. ASSUME NEW q \in Runs, outbox[i].owner = q, outbox[i].dispatched,
                       delivery[q][i].at \in {"none"} \cup Telling
                PROVE  FALSE
            <7>1. CASE q # r
              <8>1. Bookkeeping(outbox[i], outbox'[i]) /\ delivery'[q][i] = delivery[q][i]
                BY <1>2, <1>9, <6>2, <7>1
              <8> QED
                BY <2>2, <3>2, <6>2, <8>1 DEF Bookkeeping, Certain, Untold, Telling
            <7>2. CASE q = r
              <8>1. FiberMove(r, i) /\ delivery[r][i].at \in Telling
                BY <1>2, <1>7, <6>2, <7>2
              <8>2. /\ Bookkeeping(outbox[i], outbox'[i])
                    /\ delivery'[r][i].at \in Telling
                BY <1>1, <4>1, <5>2, <8>1 DEF FiberMove, Telling, Doubted
              <8> QED
                BY <2>2, <3>2, <6>2, <7>2, <8>2 DEF Bookkeeping, Certain, Untold, Telling
            <7> QED
              BY <7>1, <7>2
          <6>3. Certain(i) /\ Held(i)' = Held(i)
            BY <4>1, <4>4, <6>1, <6>2 DEF Certain, Untold, Held
          <6> QED
            BY <3>2, <6>3 DEF IsSaid
        <5> QED
          BY <5>1, <5>2
      <4> QED
        BY <4>3, <4>4
    <3> QED
      BY <3>1, <3>2
  <2> QED
    BY <1>11, <2>1, <2>2, FrameSaysNothingNew
<1>15. LeasedIsBehind'
  <2> SUFFICES ASSUME NEW j \in Items, ~outbox'[j].uncertain, outbox'[j].owner # NoRun
               PROVE  outbox'[j].delivered < outbox'[j].desired
    BY DEF LeasedIsBehind
  <2>1. CASE j # i
    BY <1>2, <2>1 DEF D1Truth, LeasedIsBehind
  <2>2. CASE j = i
    <3>1. outbox'[i].owner = outbox[i].owner /\ outbox'[i].delivered = outbox[i].delivered
      BY <1>7, <2>2 DEF FiberMove, RefusedDoubt, Bookkeeping
    <3> QED
      BY <1>2, <1>8, <2>2, <3>1 DEF D1Truth, LeasedIsBehind
  <2> QED
    BY <2>1, <2>2
<1>16. CertainDispatchedHold'
  <2> SUFFICES ASSUME NEW q \in Runs, NEW j \in Items,
                      ~Doubted(j)', delivery'[q][j].at \in Dispatched
               PROVE  /\ outbox'[j].owner = q
                      /\ outbox'[j].dispatched
                      /\ delivery'[q][j].desired = outbox'[j].desired
    BY DEF CertainDispatchedHold
  <2>1. CASE j # i
    BY <1>2, <1>4, <1>8, <2>1 DEF D1Truth, CertainDispatchedHold
  <2>2. CASE j = i /\ q # r
    <3>1. /\ delivery'[q][i] = delivery[q][i]
          /\ outbox[i].owner = q
          /\ outbox[i].dispatched
          /\ delivery[q][i].desired = outbox[i].desired
      BY <1>2, <1>8, <2>2 DEF D1Truth, CertainDispatchedHold
    <3> QED
      BY <1>2, <1>9, <2>2, <3>1 DEF Bookkeeping
  <2>3. CASE j = i /\ q = r
    <3>1. /\ delivery'[r][i].desired = delivery[r][i].desired
          /\ ~Doubted(i)
          /\ FiberMove(r, i)
      BY <1>2, <1>7, <1>8, <2>3 DEF Dispatched, RefusedDoubt
    <3>2. CASE delivery[r][i].at = "claimed"
      <4>1. /\ MayTouchServer(r, i)
            /\ outbox'[i].owner = outbox[i].owner
            /\ outbox'[i].dispatched
        BY <2>3, <3>1, <3>2 DEF FiberMove, Dispatched
      <4> QED
        BY <1>2, <1>5, <2>3, <3>1, <4>1 DEF MayTouchServer, OwnsLease
    <3>3. CASE delivery[r][i].at # "claimed"
      <4>1. /\ delivery[r][i].at \in Dispatched
            /\ Bookkeeping(outbox[i], outbox'[i])
        BY <2>3, <3>1, <3>3 DEF FiberMove, Dispatched
      <4> QED
        BY <1>2, <1>6, <2>3, <3>1, <4>1 DEF Bookkeeping
    <3> QED
      BY <3>2, <3>3
  <2> QED
    BY <2>1, <2>2, <2>3
<1>17. CertainLateIsHeld'
  <2> SUFFICES ASSUME NEW w \in late', ~Doubted(w.item)'
               PROVE  /\ w.payload = outbox'[w.item].payload
                      /\ outbox'[w.item].owner # NoRun
                      /\ outbox'[w.item].dispatched
                      /\ delivery'[outbox'[w.item].owner][w.item].at
                           \in {"none", "ambiguous"}
    BY DEF CertainLateIsHeld
  <2>1. CASE w.item # i
    <3>1. PICK j \in Items \ {i} : j = w.item
      BY <1>1, <1>2, <2>1
    <3>2. w \in late /\ outbox'[j] = outbox[j]
      BY <1>2, <2>1, <3>1
    <3>3. /\ w.payload = outbox[j].payload
          /\ outbox[j].owner # NoRun
          /\ outbox[j].dispatched
          /\ delivery[outbox[j].owner][j].at \in {"none", "ambiguous"}
      BY <1>8, <3>1, <3>2 DEF D1Truth, CertainLateIsHeld
    <3>4. delivery'[outbox[j].owner][j] = delivery[outbox[j].owner][j]
      BY <1>1, <1>4, <3>3
    <3> QED
      BY <3>1, <3>2, <3>3, <3>4
  <2>2. CASE w.item = i /\ w \in late
    <3>1. ~Doubted(i) /\ ~Doubted(i)'
      BY <1>8, <2>2
    <3>2. /\ w.payload = outbox[i].payload
          /\ outbox[i].owner # NoRun
          /\ outbox[i].dispatched
          /\ delivery[outbox[i].owner][i].at \in {"none", "ambiguous"}
      BY <2>2, <3>1 DEF D1Truth, CertainLateIsHeld
    <3>3. outbox[i].owner # r
      <4>1. CASE delivery[r][i].at = "ambiguous"
        <5>1. FiberMove(r, i)
          BY <1>10, <3>1, <4>1 DEF Dispatched
        <5> QED
          BY <3>1, <4>1, <5>1 DEF FiberMove, Doubted
      <4> QED
        BY <1>2, <3>2, <4>1
    <3>4. /\ Bookkeeping(outbox[i], outbox'[i])
          /\ delivery'[outbox[i].owner][i] = delivery[outbox[i].owner][i]
      BY <1>1, <1>2, <1>9, <3>2, <3>3
    <3> QED
      BY <1>2, <2>2, <3>2, <3>4 DEF Bookkeeping
  <2>3. CASE w.item = i /\ w \notin late
    <3>1. /\ delivery[r][i].at = "sent"
          /\ delivery'[r][i].at = "ambiguous"
          /\ w.payload = delivery[r][i].payload
          /\ Bookkeeping(outbox[i], outbox'[i])
      BY <1>7, <2>3 DEF FiberMove, RefusedDoubt
    <3>2. ~Doubted(i)
      BY <1>8, <2>3
    <3>3. delivery[r][i].at \in Dispatched
      BY <3>1 DEF Dispatched
    <3> QED
      BY <1>2, <1>6, <2>3, <3>1, <3>2, <3>3, NoRunAssumption DEF Bookkeeping
  <2> QED
    BY <2>1, <2>2, <2>3
<1>18. CertainAppliedIsHeld'
  <2> SUFFICES ASSUME NEW q \in Runs, NEW j \in Items,
                      ~Doubted(j)',
                      delivery'[q][j].at \in {"applied", "succeeded"}
               PROVE  remote'[j] = delivery'[q][j].payload
    BY DEF CertainAppliedIsHeld
  <2>1. CASE j # i
    BY <1>2, <1>4, <1>8, <2>1 DEF D1Truth, CertainAppliedIsHeld
  <2>2. CASE j = i /\ delivery[r][i].at = "sent" /\ delivery'[r][i].at = "applied"
    <3>1. remote'[i] = delivery[r][i].payload
      BY <1>7, <2>2 DEF FiberMove, RefusedDoubt
    <3>2. ~Doubted(i) /\ delivery[r][i].at \in Dispatched
      BY <1>8, <2>2 DEF Dispatched
    <3>3. q = r
      <4>1. CASE q # r
        <5>1. delivery[q][i].at \in Dispatched
          BY <1>2, <2>2, <4>1 DEF Dispatched
        <5>2. outbox[i].owner = q
          BY <3>2, <5>1 DEF D1Truth, CertainDispatchedHold
        <5> QED
          BY <1>6, <3>2, <4>1, <5>2
      <4> QED
        BY <4>1
    <3> QED
      BY <1>2, <2>2, <3>1, <3>3
  <2>3. CASE /\ j = i
             /\ ~(delivery[r][i].at = "sent" /\ delivery'[r][i].at = "applied")
    <3>1. remote'[i] = remote[i]
      BY <1>7, <2>3 DEF FiberMove, RefusedDoubt
    <3>2. ~Doubted(i)
      BY <1>8, <2>3
    <3>3. /\ delivery[q][i].at \in {"applied", "succeeded"}
          /\ delivery'[q][i].payload = delivery[q][i].payload
      BY <1>2, <1>7, <2>3 DEF FiberMove, RefusedDoubt
    <3> QED
      BY <2>3, <3>1, <3>2, <3>3 DEF D1Truth, CertainAppliedIsHeld
  <2> QED
    BY <2>1, <2>2, <2>3
<1>19. FibersHaveRows'
  BY <1>2, <1>11 DEF D1Truth, FibersHaveRows, D1Frame
<1> QED
  BY <1>3, <1>12, <1>13, <1>14, <1>15, <1>16, <1>17, <1>18, <1>19 DEF D1Truth

\* A late write arrives or is lost: the row it reaches is doubted, or the holder
\* of its lease has still to tell.
LEMMA LateKeepsD1Truth ==
    ASSUME D1Truth, NEW w \in late, ApplyLate(w) \/ DropLate(w),
           UNCHANGED <<writes, seen, forgotten>>, SerialInv'
    PROVE  D1Truth'
<1>1. /\ remote \in [Items -> Payload]
      /\ w.item \in Items /\ w.payload \in Payload
      /\ \A i \in Items : outbox[i].owner \in Runs \cup {NoRun}
  BY DEF D1Truth, D1TypeOK, TypeOK, Write, Row
<1>2. /\ UNCHANGED <<userState, item, server, outbox, phase, delivery>>
      /\ late' \subseteq late
      /\ \/ UNCHANGED remote
         \/ remote' = [remote EXCEPT ![w.item] = w.payload]
  BY DEF ApplyLate, DropLate
<1>11. \A i \in Items : Doubted(i)' <=> Doubted(i)
  BY <1>2 DEF Doubted
<1>3. ASSUME NEW i \in Items, ~Doubted(i), remote'[i] # remote[i]
      PROVE  /\ Untold(i)
             /\ \A q \in Runs : delivery[q][i].at \notin {"applied", "succeeded"}
  <2>1. w.item = i
    BY <1>1, <1>2, <1>3
  <2>2. /\ outbox[i].owner # NoRun /\ outbox[i].dispatched
        /\ delivery[outbox[i].owner][i].at \in {"none", "ambiguous"}
    BY <1>3, <2>1 DEF D1Truth, CertainLateIsHeld
  <2>3. ASSUME NEW q \in Runs, delivery[q][i].at \in {"applied", "succeeded"}
        PROVE  FALSE
    <3>1. outbox[i].owner = q
      BY <1>3, <2>3 DEF D1Truth, CertainDispatchedHold, Dispatched
    <3> QED
      BY <2>2, <2>3, <3>1
  <2>4. Untold(i)
    BY <1>1, <2>2 DEF Untold, Telling
  <2> QED
    BY <2>3, <2>4
<1>4. D1Frame
  BY <1>2 DEF D1Frame
<1>5. D1TypeOK'
  <2>1. remote' \in [Items -> Payload]
    BY <1>1, <1>2
  <2> QED
    BY <1>2, <2>1 DEF D1Truth, D1TypeOK, TypeOK
<1>6. D1TargetsLast'
  <2>1. \A i \in Items : Begins(outbox'[i])
    BY <1>2, RowOnD1
  <2> QED
    BY <1>4, <2>1, FrameKeepsTargets
<1>7. SaidOnce'
  <2>1. ASSUME NEW q \in Runs, NEW i \in Items
        PROVE  StateOf(delivery'[q][i]) \in {Never, StateOf(delivery[q][i]), StateOf(outbox[i])}
    BY <1>2
  <2>2. ASSUME NEW i \in Items, Certain(i)'
        PROVE  IsSaid(item[i].canonical, Held(i)')
    <3>1. Certain(i)
      BY <1>2, <1>11, <2>2 DEF Certain, Untold
    <3>2. remote'[i] = remote[i]
      BY <1>3, <3>1 DEF Certain
    <3>3. Held(i)' = Held(i)
      BY <1>2, <3>2 DEF Held
    <3> QED
      BY <3>1, <3>3 DEF IsSaid
  <2> QED
    BY <1>4, <2>1, <2>2, FrameSaysNothingNew
<1>12. \A v \in late : v.item \in Items
  BY DEF D1Truth, D1TypeOK, TypeOK, Write
<1>8. LeaseHolderIsCurrent' /\ LeasedIsBehind' /\ CertainDispatchedHold' /\ FibersHaveRows'
  BY <1>2, <1>11 DEF D1Truth, LeaseHolderIsCurrent, LeasedIsBehind, CertainDispatchedHold, FibersHaveRows
<1>9. CertainLateIsHeld'
  BY <1>2, <1>11, <1>12 DEF D1Truth, CertainLateIsHeld
<1>10. CertainAppliedIsHeld'
  BY <1>2, <1>3, <1>11 DEF D1Truth, CertainAppliedIsHeld
<1> QED
  BY <1>5, <1>6, <1>7, <1>8, <1>9, <1>10 DEF D1Truth

\* D1Truth is inductive while no target loses its eligibility.
LEMMA NextD1Truth ==
    ASSUME Lasting, D1Truth, [D1Next]_d1vars
    PROVE  D1Truth'
<1>1. SerialInv'
  BY SerialNext DEF D1Truth
<1>2. CASE UNCHANGED d1vars
  <2>1. D1TypeOK'
    BY <1>2 DEF d1vars, vars, D1Truth, D1TypeOK, TypeOK
  <2>2. \A s \in Servers : server'[s].generation = 1 /\ server'[s].status = "enabled"
    BY <1>2 DEF d1vars, vars, D1Truth, D1TargetsLast
  <2>3. D1Rewrites
    BY <1>2, <2>1, <2>2, ReadingRewrites DEF d1vars, vars
  <2> QED
    BY <1>1, <2>3, RewritesKeepD1Truth
<1>3. ASSUME NEW c \in Canonicals, NEW p \in Payloads, ReadState(c, p)
      PROVE  D1Truth'
  BY <1>1, <1>3, ReadStateRewrites, RewritesKeepD1Truth
<1>4. ASSUME NEW w \in writes, CommitWrite(w)
      PROVE  D1Truth'
  BY <1>1, <1>4, CommitWriteRewrites, RewritesKeepD1Truth
<1>5. ASSUME NEW i \in Items, ObserveItem(i)
      PROVE  D1Truth'
  BY <1>1, <1>5, ObserveItemRewrites, RewritesKeepD1Truth
<1>6. ASSUME NEW r \in Runs, D1RunStep(r)
      PROVE  D1Truth'
  <2>1. CASE ReadMissing(r) \/ SweepBatch(r)
    BY <1>1, <2>1, ReadMissingRewrites, SweepBatchRewrites, RewritesKeepD1Truth
  <2>2. CASE ReleaseLeases(r)
    BY <1>1, <2>2, RowStepRewrites, RewritesKeepD1Truth
  <2>3. CASE ReadCandidates(r)
    BY <1>1, <2>3, ReadingStepRewrites, RewritesKeepD1Truth
  <2>4. CASE ClaimCandidates(r) \/ StopD1Run(r)
    BY <1>1, <2>4, ClaimKeepsD1Truth, StopKeepsD1Truth
  <2> QED
    BY <1>6, <2>1, <2>2, <2>3, <2>4 DEF D1RunStep
<1>7. CASE ConfigurationStep /\ UNCHANGED <<writes, seen, forgotten>>
  <2>1. ASSUME NEW s \in Servers, NEW status, UpdateServer(s, status)
        PROVE  FALSE
    BY <2>1 DEF Lasting, UpdateServer, D1Truth, D1TargetsLast
  <2>2. \A i \in Items : ~RebindLibrary(i)
    BY DEF Lasting, RebindLibrary
  <2>3. \E s \in Servers : AuthenticateServer(s)
    BY <1>7, <2>1, <2>2 DEF ConfigurationStep, DeleteServer
  <2> QED
    BY <1>1, <1>7, <2>3, ReadingStepRewrites, RewritesKeepD1Truth
<1>8. CASE EnvironmentStep /\ UNCHANGED <<writes, seen, forgotten>>
  <2>1. CASE \E i \in Items : LeaseExpires(i) \/ BecomesDue(i)
    BY <1>1, <1>8, <2>1, RowStepRewrites, RewritesKeepD1Truth
  <2>2. CASE \E w \in late : ApplyLate(w) \/ DropLate(w)
    BY <1>1, <1>8, <2>2, LateKeepsD1Truth
  <2> QED
    BY <1>8, <2>1, <2>2 DEF EnvironmentStep
<1>9. ASSUME NEW r \in Runs, NEW i \in Items, D1FiberStep(r, i), UNCHANGED <<writes, seen, forgotten>>
      PROVE  D1Truth'
  BY <1>1, <1>9, FiberKeepsD1Truth
<1> QED
  BY <1>2, <1>3, <1>4, <1>5, <1>6, <1>7, <1>8, <1>9 DEF D1Next

\* Reads and batches interleave, stale batches set rows back, invocations die
\* and answers are lost (writeUserStateAndTargets, resolveIdentityD1,
\* runMaintenanceBatch, claimOutboxTargets and the statements of a delivery on
\* D1): the rows keep one payload for each revision, no lease outlives its
\* claim, and a row that settles is right about the upstream, unless an
\* observation took it from a dispatched delivery without leaving a doubt
\* (resolveIdentityD1 does). As long as no target loses its eligibility.
THEOREM RowsOnD1StaySound ==
    ASSUME Lasting
    PROVE  D1Spec => []RowsOnD1AreSound
<1>1. D1Truth /\ [D1Next]_d1vars => D1Truth'
  BY NextD1Truth
<1> QED
  BY <1>1, InitD1Truth, D1TruthIsSound, PTL DEF D1Spec
=============================================================================
