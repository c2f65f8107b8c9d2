------------------------------ MODULE Playback ------------------------------
(***************************************************************************)
(* Playback reports of one user's devices, folded into the user data of    *)
(* canonical items on SQLite. A handler looks up the item, stamps the      *)
(* report with the time and records it in one transaction; several         *)
(* handlers run at once, so reports are recorded in any order of their     *)
(* stamps. Sessions are named by numbers in the order of their ids. Every  *)
(* recorded report is one WriteUserState of Outbox; its rows are left out  *)
(* here.                                                                   *)
(***************************************************************************)
EXTENDS Naturals, FiniteSets

CONSTANTS
    Sessions,     \* play session ids, ordered as the code compares them
    Canonicals,
    Versions,     \* media versions of an item
    NoCanonical,  \* no row in playback_sessions
    NoVersion,    \* last_played_version_id IS NULL
    Patches,      \* which of the user's own changes occur
    Runtime,      \* run time of every item in ticks; 0 when it is not known
    Idle,         \* ticks of the clock after which a session is pruned
    MaxTime,      \* bound on the clock
    MaxReports,   \* bound on the reports being handled at once
    MaxRevision   \* bound on user_state.revision

ASSUME SessionsAssumption == Sessions \subseteq Nat \ {0}
ASSUME NoCanonicalAssumption == NoCanonical \notin Canonicals
ASSUME NoVersionAssumption == NoVersion \notin Versions
ASSUME PatchesAssumption ==
    Patches \subseteq {"favorite", "notFavorite", "played", "unplayed"}
ASSUME ClockAssumption ==
    /\ Runtime \in Nat /\ Idle \in Nat \ {0} /\ MaxTime \in Nat
    /\ MaxReports \in Nat /\ MaxRevision \in Nat

VARIABLES
    userState,  \* canonical -> revision and user data (revision 0: no record)
    session,    \* session -> playback_sessions row
    watermark,  \* canonical -> playback_watermarks row
    retired,    \* canonicals that were merged away
    reports,    \* stamped reports that are not recorded yet
    now         \* the clock

vars == <<userState, session, watermark, retired, reports, now>>

-----------------------------------------------------------------------------
(* Types                                                                   *)

UserData == [played: BOOLEAN, favorite: BOOLEAN, count: Nat,
             position: 0 .. Runtime, version: Versions \cup {NoVersion}]

UserState == [revision: Nat, data: UserData]

Session == [canonical: Canonicals \cup {NoCanonical}, version: Versions \cup {NoVersion},
            started: Nat, last: Nat, stopped: BOOLEAN]

\* started and session are 0 when the canonical has no watermark.
Watermark == [started: Nat, session: Sessions \cup {0}]

Report == [kind: {"start", "progress", "stop"}, session: Sessions,
           canonical: Canonicals, version: Versions, position: 0 .. Runtime,
           at: Nat]

\* Nothing refers to a canonical that was merged away.
NothingOnRetired ==
    /\ \A s \in Sessions : session[s].canonical \notin retired
    /\ \A c \in retired : userState[c].revision = 0 /\ watermark[c].started = 0

TypeOK ==
    /\ userState \in [Canonicals -> UserState]
    /\ session \in [Sessions -> Session]
    /\ watermark \in [Canonicals -> Watermark]
    /\ retired \subseteq Canonicals
    /\ reports \subseteq Report
    /\ now \in Nat
    /\ NothingOnRetired

NoState == [revision |-> 0,
            data |-> [played |-> FALSE, favorite |-> FALSE, count |-> 0,
                      position |-> 0, version |-> NoVersion]]

NoSession == [canonical |-> NoCanonical, version |-> NoVersion, started |-> 0,
              last |-> 0, stopped |-> FALSE]

NoWatermark == [started |-> 0, session |-> 0]

Init ==
    /\ userState = [c \in Canonicals |-> NoState]
    /\ session = [s \in Sessions |-> NoSession]
    /\ watermark = [c \in Canonicals |-> NoWatermark]
    /\ retired = {}
    /\ reports = {}
    /\ now = 1

-----------------------------------------------------------------------------
(* Reports                                                                 *)

\* A position that reached a known run time.
Completed(x) == x.kind = "stop" /\ Runtime > 0 /\ x.position >= Runtime

\* The handler finds the item by its current id and stamps the report. The
\* device may repeat a report, and may use a session id for another item.
ReceiveReport(x) ==
    /\ x.canonical \notin retired
    /\ x.at = now
    /\ Cardinality(reports) < MaxReports
    /\ reports' = reports \cup {x}
    /\ UNCHANGED <<userState, session, watermark, retired, now>>

\* <<time, session>> pairs are compared by time, then by session id.
Later(t, s, u, r) == t > u \/ (t = u /\ s > r)

Known(s) == session[s].canonical # NoCanonical

\* The session ORDER BY started_at_ms DESC, id DESC puts first.
Latest(s) ==
    \A r \in Sessions \ {s} :
        session[r].canonical = session[s].canonical =>
            Later(session[s].started, s, session[r].started, r)

\* Mutant: only the session itself is checked, not the watermark.
AcceptsUnknownStart(x) == ~Known(x.session)

\* Start: an unknown session that begins after the canonical's watermark.
AcceptsStart(x) ==
    /\ ~Known(x.session)
    /\ Later(x.at, x.session, watermark[x.canonical].started,
             watermark[x.canonical].session)

\* Progress and stop: the latest session of the canonical, still going on,
\* and no report stamped after this one recorded before it.
AcceptsEvent(x) ==
    /\ session[x.session].canonical = x.canonical
    /\ Latest(x.session)
    /\ ~session[x.session].stopped
    /\ x.at >= session[x.session].last

\* The user data after a report.
Folded(u, x) ==
    [u EXCEPT !.played = Completed(x),
              !.count = IF Completed(x) THEN u.count + 1 ELSE u.count,
              !.position = IF Completed(x) THEN 0 ELSE x.position,
              !.version = x.version]

Written(state, u) == [revision |-> state.revision + 1, data |-> u]

\* recordPlaybackEventAndTargets. The transaction fails, and changes nothing,
\* when the canonical of a start was merged away meanwhile.
RecordStart(x) ==
    LET c == x.canonical
    IN /\ x \in reports
       /\ x.kind = "start"
       /\ AcceptsStart(x)
       /\ c \notin retired
       /\ userState[c].revision < MaxRevision
       /\ userState' = [userState EXCEPT
                          ![c] = Written(@, Folded(@.data, x))]
       /\ session' = [session EXCEPT
                        ![x.session] = [canonical |-> c, version |-> x.version,
                                        started |-> x.at, last |-> x.at,
                                        stopped |-> FALSE]]
       /\ watermark' = [watermark EXCEPT
                          ![c] = [started |-> x.at, session |-> x.session]]
       /\ reports' = reports \ {x}
       /\ UNCHANGED <<retired, now>>

RecordEvent(x) ==
    LET c == x.canonical
    IN /\ x \in reports
       /\ x.kind # "start"
       /\ AcceptsEvent(x)
       /\ userState[c].revision < MaxRevision
       /\ userState' = [userState EXCEPT
                          ![c] = Written(@, Folded(@.data, x))]
       /\ session' = [session EXCEPT
                        ![x.session] = [@ EXCEPT !.last = x.at,
                                                 !.stopped = x.kind = "stop"]]
       /\ reports' = reports \ {x}
       /\ UNCHANGED <<watermark, retired, now>>

\* The report is answered without an effect.
RejectReport(x) ==
    /\ x \in reports
    /\ \/ x.kind = "start" /\ (~AcceptsStart(x) \/ x.canonical \in retired)
       \/ x.kind # "start" /\ ~AcceptsEvent(x)
    /\ reports' = reports \ {x}
    /\ UNCHANGED <<userState, session, watermark, retired, now>>

\* The transaction fails, or the process ends before it.
LoseReport(x) ==
    /\ x \in reports
    /\ reports' = reports \ {x}
    /\ UNCHANGED <<userState, session, watermark, retired, now>>

-----------------------------------------------------------------------------
(* The user, maintenance and merges                                        *)

Patched(u, patch) ==
    CASE patch = "favorite" -> [u EXCEPT !.favorite = TRUE]
      [] patch = "notFavorite" -> [u EXCEPT !.favorite = FALSE]
      [] patch = "played" -> [u EXCEPT !.played = TRUE, !.position = 0]
      [] patch = "unplayed" ->
            [u EXCEPT !.played = FALSE, !.count = 0, !.position = 0]

\* The favorite and played endpoints.
WriteState(c, patch) ==
    /\ c \notin retired
    /\ userState[c].revision < MaxRevision
    /\ userState' = [userState EXCEPT ![c] = Written(@, Patched(@.data, patch))]
    /\ UNCHANGED <<session, watermark, retired, reports, now>>

\* Maintenance forgets sessions without a report for a day; the watermark
\* stays.
Prune ==
    /\ \E s \in Sessions : Known(s) /\ session[s].last + Idle <= now
    /\ session' = [s \in Sessions |->
                     IF Known(s) /\ session[s].last + Idle <= now
                     THEN NoSession ELSE session[s]]
    /\ UNCHANGED <<userState, watermark, retired, reports, now>>

\* Highest revision, then latest written; without the time of writing either
\* of two states of one revision may be the later one.
Survivors(c, d) ==
    {s \in {userState[c], userState[d]} :
        /\ s.revision >= userState[c].revision
        /\ s.revision >= userState[d].revision}

SessionsMoved(c, d) ==
    [s \in Sessions |-> IF session[s].canonical = d
                        THEN [session[s] EXCEPT !.canonical = c]
                        ELSE session[s]]

\* Mutant: the survivor keeps its own watermark.
OwnWatermark(c, d) == watermark[c]

JointWatermark(c, d) ==
    IF Later(watermark[d].started, watermark[d].session,
             watermark[c].started, watermark[c].session)
    THEN watermark[d] ELSE watermark[c]

\* resolveIdentity merges canonical d into c.
MergeCanonicals(c, d) ==
    /\ c # d
    /\ {c, d} \cap retired = {}
    /\ \E state \in Survivors(c, d) :
         userState' = [userState EXCEPT ![c] = state, ![d] = NoState]
    /\ session' = SessionsMoved(c, d)
    /\ watermark' = [watermark EXCEPT ![c] = JointWatermark(c, d),
                                      ![d] = NoWatermark]
    /\ retired' = retired \cup {d}
    /\ UNCHANGED <<reports, now>>

Tick ==
    /\ now < MaxTime
    /\ now' = now + 1
    /\ UNCHANGED <<userState, session, watermark, retired, reports>>

-----------------------------------------------------------------------------

NewReport == [kind: {"start", "progress", "stop"}, session: Sessions,
              canonical: Canonicals, version: Versions,
              position: 0 .. Runtime, at: {now}]

Next ==
    \/ \E x \in NewReport : ReceiveReport(x)
    \/ \E x \in reports : \/ RecordStart(x) \/ RecordEvent(x)
                        \/ RejectReport(x) \/ LoseReport(x)
    \/ \E c \in Canonicals, patch \in Patches : WriteState(c, patch)
    \/ Prune
    \/ \E c, d \in Canonicals : MergeCanonicals(c, d)
    \/ Tick

Spec == Init /\ [][Next]_vars

-----------------------------------------------------------------------------
(* Safety                                                                  *)

\* The watermark of a canonical is at or after the beginning of every session
\* that is known for it, whatever was merged or pruned: it alone keeps a
\* delayed start from becoming the latest session.
WatermarkBounds ==
    \A s \in Sessions : Known(s) =>
        LET mark == watermark[session[s].canonical]
        IN ~Later(session[s].started, s, mark.started, mark.session)

\* What the playback tables are, whatever is reported, pruned and merged: of
\* their types, free of canonicals that were merged away, and bounded by the
\* watermarks (recordPlaybackEventAndTargets, resolveIdentity).
TablesAreSound == TypeOK /\ WatermarkBounds

\* Watermarks never go back, and the watermark of a merged canonical lives on
\* in the survivor's: no start from before an accepted one is accepted later.
WatermarksAdvance ==
    [][\A c \in Canonicals \ retired : \E d \in Canonicals \ retired' :
        /\ c \notin retired' => d = c
        /\ ~Later(watermark[c].started, watermark[c].session,
                  watermark'[d].started, watermark'[d].session)]_vars

\* The promise of PlaybackFold, with the stored sessions in the order the code
\* sorts them.
Fold == INSTANCE PlaybackFold WITH
    data <- [c \in Canonicals |-> userState[c].data],
    playing <- [s \in Sessions |-> session[s].canonical],
    ended <- {s \in Sessions : session[s].stopped},
    before <- {pair \in Sessions \X Sessions :
                 /\ Known(pair[1])
                 /\ session[pair[1]].canonical = session[pair[2]].canonical
                 /\ Later(session[pair[2]].started, pair[2],
                          session[pair[1]].started, pair[1])}

ImplementsFold == Fold!Spec
=============================================================================
