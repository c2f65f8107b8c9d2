------------------------------ MODULE MCOutbox ------------------------------
EXTENDS Outbox, TLC

CONSTANTS i1, i2, s1, c1, c2, p1, p2, r1, r2

OneServer == [i \in Items |-> s1]

\* Runs and payloads are interchangeable in every action and safety property.
Symmetry == Permutations(Runs) \cup Permutations(Payloads)

\* With one server the items are interchangeable too, and so are canonicals.
FullSymmetry ==
    Symmetry \cup Permutations(Items) \cup Permutations(Canonicals)
=============================================================================
