----------------------------- MODULE PlaybackD1 -----------------------------
(***************************************************************************)
(* Playback reports on the Workers storage. Session, watermark and state   *)
(* are read first; the batch that follows repeats the conditions and       *)
(* compares the revision of the state, and fails as a whole otherwise.     *)
(* Merges of canonicals are left out here.                                 *)
(***************************************************************************)
EXTENDS Playback

CONSTANT MaxReads  \* bound on the operations between their reads and batch

ASSUME ReadsAssumption == MaxReads \in Nat

VARIABLES
    reading,  \* reports whose rows were read: report, and state that was read
    writing   \* the user's changes: canonical, patch, and state that was read

d1vars == <<vars, reading, writing>>

D1Init == Init /\ reading = {} /\ writing = {}

Busy == Cardinality(reading) + Cardinality(writing)

\* A report that the rows admit goes on to its batch.
BeginReport(x) ==
    /\ x \in reports
    /\ IF x.kind = "start" THEN AcceptsStart(x) ELSE AcceptsEvent(x)
    /\ Busy < MaxReads
    /\ reading' = reading \cup {[report |-> x, state |-> userState[x.canonical]]}
    /\ reports' = reports \ {x}
    /\ UNCHANGED <<userState, session, watermark, retired, now, writing>>

BeginPatch(c, patch) ==
    /\ Busy < MaxReads
    /\ writing' = writing \cup
         {[canonical |-> c, patch |-> patch, state |-> userState[c]]}
    /\ UNCHANGED <<vars, reading>>

\* Mutant: the state is stored whatever was written since it was read.
StoreBlindly(c, read, new) ==
    /\ new.revision <= MaxRevision
    /\ userState' = [userState EXCEPT ![c] = new]

\* stateBatchStatements: the state replaces the revision that was read. Its
\* assertion also admits a twin that stored the very same state.
StoreState(c, read, new) ==
    /\ new.revision <= MaxRevision
    /\ userState[c].revision = read.revision \/ userState[c] = new
    /\ userState' = [userState EXCEPT ![c] = new]

CommitStart(w) ==
    LET x == w.report
        c == x.canonical
    IN /\ w \in reading
       /\ x.kind = "start"
       /\ AcceptsStart(x)
       /\ StoreState(c, w.state, Written(w.state, Folded(w.state.data, x)))
       /\ session' = [session EXCEPT
                        ![x.session] = [canonical |-> c, version |-> x.version,
                                        started |-> x.at, last |-> x.at,
                                        stopped |-> FALSE]]
       /\ watermark' = [watermark EXCEPT
                          ![c] = [started |-> x.at, session |-> x.session]]
       /\ reading' = reading \ {w}
       /\ UNCHANGED <<retired, reports, now, writing>>

\* Unlike on SQLite, a session never changes its media version.
CommitEvent(w) ==
    LET x == w.report
    IN /\ w \in reading
       /\ x.kind # "start"
       /\ AcceptsEvent(x)
       /\ session[x.session].version = x.version
       /\ StoreState(x.canonical, w.state,
                     Written(w.state, Folded(w.state.data, x)))
       /\ session' = [session EXCEPT
                        ![x.session] = [@ EXCEPT !.last = x.at,
                                                 !.stopped = x.kind = "stop"]]
       /\ reading' = reading \ {w}
       /\ UNCHANGED <<watermark, retired, reports, now, writing>>

CommitPatch(w) ==
    /\ w \in writing
    /\ StoreState(w.canonical, w.state,
                  Written(w.state, Patched(w.state.data, w.patch)))
    /\ writing' = writing \ {w}
    /\ UNCHANGED <<session, watermark, retired, reports, now, reading>>

\* The batch fails, or the invocation ends before it.
Abort ==
    /\ \/ \E w \in reading : reading' = reading \ {w} /\ UNCHANGED writing
       \/ \E w \in writing : writing' = writing \ {w} /\ UNCHANGED reading
    /\ UNCHANGED vars

D1Next ==
    \/ \E x \in reports : BeginReport(x)
    \/ \E c \in Canonicals, patch \in Patches : BeginPatch(c, patch)
    \/ \E w \in reading : CommitStart(w) \/ CommitEvent(w)
    \/ \E w \in writing : CommitPatch(w)
    \/ Abort
    \/ /\ \/ \E x \in NewReport : ReceiveReport(x)
          \/ \E x \in reports : RejectReport(x) \/ LoseReport(x)
          \/ Prune
          \/ Tick
       /\ UNCHANGED <<reading, writing>>

D1Spec == D1Init /\ [][D1Next]_d1vars
=============================================================================
