--------------------------- MODULE MCOutboxScenes ---------------------------
(***************************************************************************)
(* Two troubles of one outbox, each explored from the beginning on its     *)
(* own: overlapping maintenance runs that die, with one item, and          *)
(* canonicals that merge while a run delivers, with two items.             *)
(***************************************************************************)
EXTENDS MCOutbox, FiniteSets

\* Bounds of a merge: one run that delivers, and one write of it under way
\* after its sender gave up.
Deliverers == {r1}
MaxLate == 1

\* The scene is told by the items: those that begin with one canonical are not
\* both observed, and those that begin apart join only once both were observed.
Crashing ==
    \E i \in Items : /\ item[i].generation = 0
                     /\ \A j \in Items : item[j].canonical = item[i].canonical

Observed == {i \in Items : item[i].generation > 0}

Running == {r \in Runs : phase[r] = "swept" \/ Active(r)}

InScene ==
    IF Crashing THEN Cardinality(Observed') <= 1
    ELSE Running' \subseteq Deliverers /\ Cardinality(late') <= MaxLate

SceneStep ==
    \/ LocalStep
    \/ ConfigurationStep
    \/ \E r \in Runs :
         \/ RunMaintenanceBatch(r)
         \/ ClaimOutboxTargets(r)
         \/ Crashing /\ StopRun(r)
         \/ \E i \in Items : FiberStep(r, i)
    \/ EnvironmentStep

\* A merge stays in its scene as it is.
SceneNext ==
    \/ \E i \in Items, c, d \in Canonicals : MergeCanonicals(i, c, d)
    \/ SceneStep /\ InScene

SceneSymmetry == Permutations(Payloads) \cup Permutations(Items) \cup Permutations(Canonicals)

SceneSpec == Init /\ [][SceneNext]_vars
=============================================================================
