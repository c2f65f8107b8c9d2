----------------------------- MODULE MCPlayback -----------------------------
(***************************************************************************)
(* The playback reports of either storage: one behavior stays with the     *)
(* storage it begins with.                                                 *)
(***************************************************************************)
EXTENDS PlaybackD1, TLC

CONSTANTS c1, c2, v1

CanonicalSymmetry == Permutations(Canonicals)

VARIABLE storage  \* "sqlite" or "d1"

storageVars == <<d1vars, storage>>

\* On D1 nothing merges here, so one canonical is all it takes.
OneCanonical ==
    Cardinality({x.canonical : x \in reports' \cup {w.report : w \in reading'}}
                  \cup {w.canonical : w \in writing'}
                  \cup {c \in Canonicals : userState'[c].revision > 0}) <= 1

\* One tick of the clock less, and two reports and changes at once in all.
MaxTimeOnD1 == MaxTime - 1

MaxAtOnce == 2

StorageInit == D1Init /\ storage \in {"sqlite", "d1"}

StorageNext ==
    /\ UNCHANGED storage
    /\ \/ storage = "sqlite" /\ Next /\ UNCHANGED <<reading, writing>>
       \/ /\ storage = "d1"
          /\ D1Next
          /\ OneCanonical
          /\ now' <= MaxTimeOnD1
          /\ Cardinality(reports') + Busy' <= MaxAtOnce

StorageSpec == StorageInit /\ [][StorageNext]_storageVars

=============================================================================
