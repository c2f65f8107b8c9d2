----------------------------- MODULE MCOutboxD1 -----------------------------
(***************************************************************************)
(* The item that is delivered to has a companion, an item of the same      *)
(* canonical on a server nobody authenticates with: while only one of the  *)
(* two was observed, a write enqueues one of them and misses the other.    *)
(***************************************************************************)
EXTENDS OutboxD1, TLC

CONSTANTS i1, i2, s1, s2, c1, p1, p2, r1, r2

OneServer == [i \in Items |-> s1]
CompanionServer == (i1 :> s1) @@ (i2 :> s2)

\* Bound: two operations at once, each a write or a maintenance run.
MaxAtOnce == 2

Running == {r \in Runs : seen[r] # Nothing \/ phase[r] = "swept" \/ Active(r)}

CompanionNext ==
    /\ D1Next
    /\ ~server'[s2].user
    /\ Cardinality(writes') + Cardinality(Running') <= MaxAtOnce

CompanionSpec == D1Init /\ [][CompanionNext]_d1vars

\* Runs and payloads are interchangeable in every action and safety property.
Symmetry == Permutations(Runs) \cup Permutations(Payloads)
=============================================================================
