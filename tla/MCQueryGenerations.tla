------------------------- MODULE MCQueryGenerations -------------------------
EXTENDS QueryGenerations, TLC

CONSTANTS r1, r2, s1, s2, x1, x2, y1, y2

\* Two lists of two items; x2 and y2 are one title from the beginning.
TwoLists == s1 :> <<x1, x2>> @@ s2 :> <<y1, y2>>

Resolved == x1 :> 1 @@ x2 :> 3 @@ y1 :> 2 @@ y2 :> 3

\* The first items of the lists may turn out to be one title.
FirstItems == {<<1, 2>>}

\* What happens beside the requests: more rebuilding on D1, more of the rest on
\* SQLite.
Generations == [s \in Storages |-> IF s = "d1" THEN 2 ELSE 1]
Failures == [s \in Storages |-> IF s = "d1" THEN 0 ELSE 1]
StateWrites == [s \in Storages |-> IF s = "d1" THEN 1 ELSE 2]
=============================================================================
