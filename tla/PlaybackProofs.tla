--------------------------- MODULE PlaybackProofs ---------------------------
(***************************************************************************)
(* Types, references and watermarks of the folding of playback reports,    *)
(* for any number of sessions, canonicals and handlers at once.            *)
(***************************************************************************)
EXTENDS PlaybackD1, TLAPS

\* Recording a report keeps user data well typed.
LEMMA FoldedType ==
    ASSUME NEW u \in UserData, NEW x \in Report
    PROVE  Folded(u, x) \in UserData
<1> DEFINE done == Completed(x)
           count == IF done THEN u.count + 1 ELSE u.count
           position == IF done THEN 0 ELSE x.position
<1>1. /\ done \in BOOLEAN
      /\ count \in Nat
      /\ position \in 0 .. Runtime
      /\ x.version \in Versions \cup {NoVersion}
  BY ClockAssumption DEF UserData, Report, Completed
<1>2. Folded(u, x) = [u EXCEPT !.played = done, !.count = count,
                               !.position = position, !.version = x.version]
  BY DEF Folded
<1> HIDE DEF done, count, position
<1> QED
  BY <1>1, <1>2 DEF UserData

\* So does a change by the user.
LEMMA PatchedType ==
    ASSUME NEW u \in UserData, NEW patch \in Patches
    PROVE  Patched(u, patch) \in UserData
<1>1. patch \in {"favorite", "notFavorite", "played", "unplayed"}
  BY PatchesAssumption
<1>2. 0 \in 0 .. Runtime /\ 0 \in Nat
  BY ClockAssumption
<1>3. CASE patch = "favorite"
  BY <1>3 DEF Patched, UserData
<1>4. CASE patch = "notFavorite"
  BY <1>4 DEF Patched, UserData
<1>5. CASE patch = "played"
  BY <1>2, <1>5 DEF Patched, UserData
<1>6. CASE patch = "unplayed"
  BY <1>2, <1>6 DEF Patched, UserData
<1> QED
  BY <1>1, <1>3, <1>4, <1>5, <1>6

\* Every write of a state, with the revision after the one it replaces.
LEMMA WrittenType ==
    ASSUME NEW state \in UserState, NEW u \in UserData
    PROVE  Written(state, u) \in UserState
  BY DEF Written, UserState

\* The empty rows.
LEMMA EmptyTypes ==
    NoState \in UserState /\ NoSession \in Session /\ NoWatermark \in Watermark
  BY ClockAssumption
     DEF NoState, NoSession, NoWatermark, UserState, UserData, Session,
         Watermark

\* The initial state.
LEMMA TypeInit == Init => TypeOK
  BY EmptyTypes, NoCanonicalAssumption
     DEF Init, TypeOK, NothingOnRetired, NoState, NoSession, NoWatermark

\* The operations on reports.
LEMMA TypeReports ==
    ASSUME TypeOK,
           NEW x,
           \/ x \in NewReport /\ ReceiveReport(x)
           \/ RecordStart(x) \/ RecordEvent(x) \/ RejectReport(x) \/ LoseReport(x)
    PROVE  TypeOK'
<1> USE DEF TypeOK
<1>1. CASE x \in NewReport /\ ReceiveReport(x)
  <2>1. x \in Report
    BY <1>1 DEF NewReport, Report
  <2> QED
    BY <1>1, <2>1 DEF ReceiveReport, NothingOnRetired
<1>2. CASE RecordStart(x)
  <2>1. x \in Report /\ x.canonical \in Canonicals /\ x.session \in Sessions
        /\ x.at \in Nat /\ x.version \in Versions
    BY <1>2 DEF RecordStart, Report
  <2> DEFINE c == x.canonical
             new == Written(userState[c], Folded(userState[c].data, x))
             row == [canonical |-> c, version |-> x.version, started |-> x.at,
                     last |-> x.at, stopped |-> FALSE]
             mark == [started |-> x.at, session |-> x.session]
  <2>2. new \in UserState
    <3>1. userState[c] \in UserState /\ userState[c].data \in UserData
      BY <2>1 DEF UserState
    <3> QED
      BY <2>1, <3>1, FoldedType, WrittenType
  <2>3. row \in Session /\ mark \in Watermark
    BY <2>1 DEF Session, Watermark
  <2>4. /\ userState' = [userState EXCEPT ![c] = new]
        /\ session' = [session EXCEPT ![x.session] = row]
        /\ watermark' = [watermark EXCEPT ![c] = mark]
        /\ c \notin retired
        /\ reports' = reports \ {x}
        /\ retired' = retired /\ now' = now
    BY <1>2 DEF RecordStart
  <2> HIDE DEF new, row, mark
  <2>5. /\ userState' \in [Canonicals -> UserState]
        /\ session' \in [Sessions -> Session]
        /\ watermark' \in [Canonicals -> Watermark]
    BY <2>1, <2>2, <2>3, <2>4
  <2>6. NothingOnRetired'
    <3>1. \A s \in Sessions : session'[s].canonical \notin retired
      BY <2>1, <2>4 DEF NothingOnRetired, row
    <3>2. \A d \in retired : userState'[d] = userState[d] /\ watermark'[d] = watermark[d]
      BY <2>1, <2>4
    <3> QED
      BY <2>4, <3>1, <3>2 DEF NothingOnRetired
  <2> QED
    BY <2>4, <2>5, <2>6
<1>3. CASE RecordEvent(x)
  <2>1. x \in Report /\ x.canonical \in Canonicals /\ x.session \in Sessions
        /\ x.at \in Nat
    BY <1>3 DEF RecordEvent, Report
  <2> DEFINE c == x.canonical
             new == Written(userState[c], Folded(userState[c].data, x))
             stop == x.kind = "stop"
             row == [session[x.session] EXCEPT !.last = x.at, !.stopped = stop]
  <2>2. new \in UserState
    <3>1. userState[c] \in UserState /\ userState[c].data \in UserData
      BY <2>1 DEF UserState
    <3> QED
      BY <2>1, <3>1, FoldedType, WrittenType
  <2>3. /\ userState' = [userState EXCEPT ![c] = new]
        /\ session' = [session EXCEPT ![x.session] = row]
        /\ session[x.session].canonical = c
        /\ reports' = reports \ {x}
        /\ retired' = retired /\ now' = now /\ watermark' = watermark
    BY <1>3 DEF RecordEvent, AcceptsEvent
  <2>4. row \in Session /\ row.canonical = session[x.session].canonical
    <3>1. stop \in BOOLEAN /\ session[x.session] \in Session
      BY <2>1
    <3> HIDE DEF stop
    <3> QED
      BY <2>1, <3>1 DEF Session
  <2> HIDE DEF new, row
  <2>5. userState' \in [Canonicals -> UserState]
    BY <2>1, <2>2, <2>3
  <2>6. /\ session' \in [Sessions -> Session]
        /\ \A s \in Sessions : session'[s].canonical = session[s].canonical
    BY <2>1, <2>3, <2>4
  <2>7. NothingOnRetired'
    <3>1. c \notin retired
      BY <2>1, <2>3 DEF NothingOnRetired
    <3>2. \A d \in retired : userState'[d] = userState[d]
      BY <2>1, <2>3, <3>1
    <3> QED
      BY <2>3, <2>6, <3>2 DEF NothingOnRetired
  <2> QED
    BY <2>3, <2>5, <2>6, <2>7
<1>4. CASE RejectReport(x) \/ LoseReport(x)
  BY <1>4 DEF RejectReport, LoseReport, NothingOnRetired
<1> QED
  BY <1>1, <1>2, <1>3, <1>4

\* The operations of the user, of maintenance and of identity.
LEMMA TypeOthers ==
    ASSUME TypeOK,
           \/ \E c \in Canonicals, patch \in Patches : WriteState(c, patch)
           \/ Prune
           \/ \E c, d \in Canonicals : MergeCanonicals(c, d)
           \/ Tick
    PROVE  TypeOK'
<1> USE DEF TypeOK
<1>1. ASSUME NEW c \in Canonicals, NEW patch \in Patches, WriteState(c, patch)
      PROVE  TypeOK'
  <2> DEFINE new == Written(userState[c], Patched(userState[c].data, patch))
  <2>1. new \in UserState
    <3>1. userState[c] \in UserState /\ userState[c].data \in UserData
      BY DEF UserState
    <3> QED
      BY <3>1, PatchedType, WrittenType
  <2>2. /\ userState' = [userState EXCEPT ![c] = new]
        /\ c \notin retired
        /\ UNCHANGED <<session, watermark, retired, reports, now>>
    BY <1>1 DEF WriteState
  <2> HIDE DEF new
  <2>3. userState' \in [Canonicals -> UserState]
    BY <2>1, <2>2
  <2>4. \A d \in retired : userState'[d] = userState[d]
    BY <2>2
  <2> QED
    BY <2>2, <2>3, <2>4 DEF NothingOnRetired
<1>2. CASE Prune
  <2>1. session' \in [Sessions -> Session]
    BY <1>2, EmptyTypes DEF Prune
  <2>2. \A s \in Sessions : session'[s] = session[s] \/ session'[s] = NoSession
    BY <1>2 DEF Prune
  <2> QED
    BY <1>2, <2>1, <2>2, NoCanonicalAssumption
       DEF Prune, NothingOnRetired, NoSession
<1>3. ASSUME NEW c \in Canonicals, NEW d \in Canonicals, MergeCanonicals(c, d)
      PROVE  TypeOK'
  <2>1. PICK state \in Survivors(c, d) :
          userState' = [userState EXCEPT ![c] = state, ![d] = NoState]
    BY <1>3 DEF MergeCanonicals
  <2>2. state \in UserState
    BY DEF Survivors
  <2>3. /\ session' = SessionsMoved(c, d)
        /\ watermark' = [watermark EXCEPT ![c] = JointWatermark(c, d),
                                          ![d] = NoWatermark]
        /\ c # d /\ c \notin retired /\ d \notin retired
        /\ retired' = retired \cup {d}
        /\ UNCHANGED <<reports, now>>
    BY <1>3 DEF MergeCanonicals
  <2>4. /\ userState' \in [Canonicals -> UserState]
        /\ \A e \in Canonicals \ {c, d} : userState'[e] = userState[e]
        /\ userState'[d] = NoState
    BY <2>1, <2>2, <2>3, EmptyTypes
  <2>5. session' \in [Sessions -> Session]
    BY <2>3 DEF SessionsMoved, Session
  <2>6. \A s \in Sessions : session'[s].canonical =
          IF session[s].canonical = d THEN c ELSE session[s].canonical
    BY <2>3 DEF SessionsMoved, Session
  <2>7. JointWatermark(c, d) \in Watermark
    BY DEF JointWatermark
  <2>8. /\ watermark' \in [Canonicals -> Watermark]
        /\ \A e \in Canonicals \ {c, d} : watermark'[e] = watermark[e]
        /\ watermark'[d] = NoWatermark
    BY <2>3, <2>7, EmptyTypes
  <2>9. NothingOnRetired'
    <3>1. \A s \in Sessions : session'[s].canonical \notin retired'
      BY <2>3, <2>6 DEF NothingOnRetired
    <3>2. \A e \in retired' :
            userState'[e].revision = 0 /\ watermark'[e].started = 0
      BY <2>3, <2>4, <2>8 DEF NothingOnRetired, NoState, NoWatermark
    <3> QED
      BY <3>1, <3>2 DEF NothingOnRetired
  <2> QED
    BY <2>3, <2>4, <2>5, <2>8, <2>9
<1>4. CASE Tick
  BY <1>4 DEF Tick, NothingOnRetired
<1> QED
  BY <1>1, <1>2, <1>3, <1>4

\* The invariant is inductive.
LEMMA TypeNext == TypeOK /\ [Next]_vars => TypeOK'
<1> SUFFICES ASSUME TypeOK, [Next]_vars PROVE TypeOK'
  OBVIOUS
<1>1. CASE UNCHANGED vars
  BY <1>1 DEF vars, TypeOK, NothingOnRetired
<1>2. CASE \E x \in NewReport : ReceiveReport(x)
  BY <1>2, TypeReports
<1>3. CASE \E x \in reports : \/ RecordStart(x) \/ RecordEvent(x)
                              \/ RejectReport(x) \/ LoseReport(x)
  BY <1>3, TypeReports
<1> QED
  BY <1>1, <1>2, <1>3, TypeOthers DEF Next

\* Every row keeps its type, and nothing refers to a canonical that was merged
\* away: the foreign keys of playback_sessions, playback_watermarks and
\* user_state hold without being what keeps them.
THEOREM PlaybackTypes == Spec => []TypeOK
  BY TypeInit, TypeNext, PTL DEF Spec

-----------------------------------------------------------------------------
(* Watermarks                                                              *)

\* A mark that is later than another is not before it.
LEMMA LaterAsymmetric ==
    ASSUME NEW t \in Nat, NEW s \in Nat, NEW u \in Nat, NEW r \in Nat,
           Later(t, s, u, r)
    PROVE  ~Later(u, r, t, s)
  BY DEF Later

\* The parts of a mark are numbers, and so are session ids.
LEMMA MarksAreNumbers ==
    ASSUME TypeOK
    PROVE  /\ \A s \in Sessions : s \in Nat
           /\ \A c \in Canonicals : /\ watermark[c] \in Watermark
                                    /\ watermark[c].started \in Nat
                                    /\ watermark[c].session \in Nat
<1>1. \A s \in Sessions : s \in Nat
  BY SessionsAssumption
<1>2. ASSUME NEW c \in Canonicals
      PROVE  /\ watermark[c] \in Watermark
             /\ watermark[c].started \in Nat
             /\ watermark[c].session \in Nat
  <2>1. watermark[c] \in Watermark
    BY DEF TypeOK
  <2> QED
    BY <1>1, <2>1 DEF Watermark
<1> QED
  BY <1>1, <1>2

\* The mark of a merge is not before either of the two it replaces.
LEMMA JointWatermarkBounds ==
    ASSUME TypeOK, NEW c \in Canonicals, NEW d \in Canonicals,
           NEW e \in {c, d}
    PROVE  ~Later(watermark[e].started, watermark[e].session,
                  JointWatermark(c, d).started, JointWatermark(c, d).session)
<1> QED
  BY MarksAreNumbers DEF JointWatermark, Later

\* What a recorded start, and a recorded progress or stop, do to sessions and
\* watermarks, on either storage.
Begins(x) ==
    /\ AcceptsStart(x)
    /\ session' = [session EXCEPT
                     ![x.session] = [canonical |-> x.canonical,
                                     version |-> x.version, started |-> x.at,
                                     last |-> x.at, stopped |-> FALSE]]
    /\ watermark' = [watermark EXCEPT
                       ![x.canonical] = [started |-> x.at,
                                         session |-> x.session]]

GoesOn(x) ==
    /\ session' = [session EXCEPT
                     ![x.session] = [@ EXCEPT !.last = x.at,
                                              !.stopped = x.kind = "stop"]]
    /\ watermark' = watermark

\* A start raises the watermark above all sessions of its canonical.
LEMMA StartBounds ==
    ASSUME TypeOK, WatermarkBounds, NEW x \in Report, Begins(x),
           NEW s \in Sessions, Known(s)'
    PROVE  ~Later(session'[s].started, s,
                  watermark'[session'[s].canonical].started,
                  watermark'[session'[s].canonical].session)
<1>1. /\ s \in Nat
      /\ session \in [Sessions -> Session]
      /\ session[s].started \in Nat
      /\ \A c \in Canonicals :
           watermark[c].started \in Nat /\ watermark[c].session \in Nat
      /\ watermark \in [Canonicals -> Watermark]
  BY MarksAreNumbers DEF TypeOK, Session
<1>2. /\ x.canonical \in Canonicals
      /\ x.session \in Sessions /\ x.session \in Nat
      /\ x.at \in Nat
  BY SessionsAssumption DEF Report
<1> DEFINE row == [canonical |-> x.canonical, version |-> x.version,
                   started |-> x.at, last |-> x.at, stopped |-> FALSE]
           mark == [started |-> x.at, session |-> x.session]
<1>3. /\ session' = [session EXCEPT ![x.session] = row]
      /\ watermark' = [watermark EXCEPT ![x.canonical] = mark]
      /\ Later(x.at, x.session, watermark[x.canonical].started,
               watermark[x.canonical].session)
  BY DEF Begins, AcceptsStart
<1>4. CASE s = x.session
  BY <1>1, <1>2, <1>3, <1>4 DEF Later
<1>5. CASE s # x.session /\ session[s].canonical = x.canonical
  <2>1. session'[s] = session[s] /\ watermark'[x.canonical] = mark
    BY <1>1, <1>2, <1>3, <1>5
  <2>2. ~Later(session[s].started, s, watermark[x.canonical].started,
               watermark[x.canonical].session)
    BY <1>2, <1>5, NoCanonicalAssumption DEF WatermarkBounds, Known
  <2>3. ~Later(watermark[x.canonical].started,
               watermark[x.canonical].session, x.at, x.session)
    BY <1>1, <1>2, <1>3, LaterAsymmetric
  <2>4. ~Later(session[s].started, s, x.at, x.session)
    BY <1>1, <1>2, <2>2, <2>3 DEF Later
  <2> QED
    BY <1>5, <2>1, <2>4
<1>6. CASE s # x.session /\ session[s].canonical # x.canonical
  <2>1. session'[s] = session[s]
        /\ watermark'[session[s].canonical] = watermark[session[s].canonical]
    BY <1>1, <1>2, <1>3, <1>6 DEF Known
  <2> QED
    BY <2>1 DEF WatermarkBounds, Known
<1> QED
  BY <1>4, <1>5, <1>6

\* Progress and stop keep the beginning of their session.
LEMMA EventBounds ==
    ASSUME TypeOK, WatermarkBounds, NEW x \in Report, GoesOn(x),
           NEW s \in Sessions, Known(s)'
    PROVE  ~Later(session'[s].started, s,
                  watermark'[session'[s].canonical].started,
                  watermark'[session'[s].canonical].session)
<1>1. session \in [Sessions -> Session] /\ x.session \in Sessions
  BY DEF TypeOK, Report
<1> DEFINE stop == x.kind = "stop"
           row == [session[x.session] EXCEPT !.last = x.at, !.stopped = stop]
<1>2. session' = [session EXCEPT ![x.session] = row] /\ watermark' = watermark
  BY DEF GoesOn
<1> HIDE DEF stop
<1>3. /\ row.started = session[x.session].started
      /\ row.canonical = session[x.session].canonical
  BY <1>1 DEF Session
<1> HIDE DEF row
<1>4. /\ session'[s].started = session[s].started
      /\ session'[s].canonical = session[s].canonical
  BY <1>1, <1>2, <1>3
<1> QED
  BY <1>2, <1>4 DEF WatermarkBounds, Known

\* Sessions before the watermarks of the canonicals they are known for: a
\* start raises the watermark, progress keeps the beginning of its session,
\* pruning only forgets sessions, and a merge takes the later watermark.
LEMMA WatermarkNext ==
    TypeOK /\ WatermarkBounds /\ [Next]_vars => WatermarkBounds'
<1> SUFFICES ASSUME TypeOK, WatermarkBounds, [Next]_vars,
                    NEW s \in Sessions, Known(s)'
             PROVE  ~Later(session'[s].started, s,
                           watermark'[session'[s].canonical].started,
                           watermark'[session'[s].canonical].session)
  BY DEF WatermarkBounds
<1>1. /\ s \in Nat
      /\ session \in [Sessions -> Session]
      /\ session[s].started \in Nat
      /\ session[s].canonical \in Canonicals \cup {NoCanonical}
      /\ \A c \in Canonicals :
           watermark[c].started \in Nat /\ watermark[c].session \in Nat
      /\ watermark \in [Canonicals -> Watermark]
  BY MarksAreNumbers DEF TypeOK, Session
<1>2. CASE session'[s] = session[s] /\ watermark' = watermark
  BY <1>2 DEF WatermarkBounds, Known
<1>3. ASSUME NEW x \in reports, RecordStart(x)
      PROVE  ~Later(session'[s].started, s,
                    watermark'[session'[s].canonical].started,
                    watermark'[session'[s].canonical].session)
  <2>1. x \in Report
    BY DEF TypeOK
  <2>2. Begins(x)
    BY <1>3 DEF RecordStart, Begins
  <2> QED
    BY <2>1, <2>2, StartBounds
<1>4. ASSUME NEW x \in reports, RecordEvent(x)
      PROVE  ~Later(session'[s].started, s,
                    watermark'[session'[s].canonical].started,
                    watermark'[session'[s].canonical].session)
  <2>1. x \in Report
    BY DEF TypeOK
  <2>2. GoesOn(x)
    BY <1>4 DEF RecordEvent, GoesOn
  <2> QED
    BY <2>1, <2>2, EventBounds
<1>5. CASE Prune
  <2>1. session'[s] = session[s] \/ session'[s] = NoSession
    BY <1>5 DEF Prune
  <2> QED
    BY <1>2, <1>5, <2>1 DEF Prune, NoSession, Known
<1>6. ASSUME NEW c \in Canonicals, NEW d \in Canonicals, MergeCanonicals(c, d)
      PROVE  ~Later(session'[s].started, s,
                    watermark'[session'[s].canonical].started,
                    watermark'[session'[s].canonical].session)
  <2> DEFINE joint == JointWatermark(c, d)
             e == session[s].canonical
  <2>1. /\ session' = SessionsMoved(c, d)
        /\ watermark' = [watermark EXCEPT ![c] = joint, ![d] = NoWatermark]
        /\ c # d
    BY <1>6 DEF MergeCanonicals
  <2>2. /\ session'[s].started = session[s].started
        /\ session'[s].canonical = IF e = d THEN c ELSE e
    BY <1>1, <2>1 DEF SessionsMoved, Session
  <2>3. e \in Canonicals
    BY <1>1, <2>2 DEF Known
  <2>4. ~Later(session[s].started, s, watermark[e].started, watermark[e].session)
    BY <2>3, NoCanonicalAssumption DEF WatermarkBounds, Known
  <2>5. CASE e \in {c, d}
    <3>1. ~Later(watermark[e].started, watermark[e].session,
                 joint.started, joint.session)
      BY <2>5, JointWatermarkBounds
    <3>2. joint \in Watermark /\ joint.started \in Nat /\ joint.session \in Nat
      BY <1>1 DEF JointWatermark
    <3>3. session'[s].canonical = c
      BY <2>2, <2>5
    <3> HIDE DEF joint
    <3>4. watermark'[c] = joint
      BY <1>1, <2>1
    <3>5. /\ session[s].started \in Nat /\ s \in Nat
          /\ watermark[e].started \in Nat /\ watermark[e].session \in Nat
      BY <1>1, <2>3, SessionsAssumption, MarksAreNumbers DEF TypeOK, Session
    <3>6. ~Later(session[s].started, s, joint.started, joint.session)
      BY <2>4, <3>1, <3>2, <3>5 DEF Later
    <3> QED
      BY <2>2, <3>3, <3>4, <3>6
  <2>6. CASE e \notin {c, d}
    <3>1. watermark'[e] = watermark[e]
      BY <1>1, <2>1, <2>3, <2>6
    <3> QED
      BY <2>2, <2>4, <2>6, <3>1
  <2> QED
    BY <2>5, <2>6
<1>7. CASE \/ \E x \in NewReport : ReceiveReport(x)
           \/ \E x \in reports : RejectReport(x) \/ LoseReport(x)
           \/ \E c \in Canonicals, patch \in Patches : WriteState(c, patch)
           \/ Tick
           \/ UNCHANGED vars
  BY <1>2, <1>7
     DEF ReceiveReport, RejectReport, LoseReport, WriteState, Tick, vars
<1> QED
  BY <1>3, <1>4, <1>5, <1>6, <1>7 DEF Next

\* No session is known that began after the watermark of its canonical, so a
\* start that passes the watermark begins the latest session, through any
\* sequence of reports, prunings and merges (recordPlaybackEventAndTargets).
THEOREM WatermarksBound == Spec => []WatermarkBounds
<1>1. Init => WatermarkBounds
  BY DEF Init, WatermarkBounds, Known, NoSession
<1> QED
  BY <1>1, TypeInit, TypeNext, WatermarkNext, PTL DEF Spec

\* The playback tables stay sound: types, references and watermarks together
\* (recordPlaybackEventAndTargets, resolveIdentity).
THEOREM TablesStaySound == Spec => []TablesAreSound
  BY PlaybackTypes, WatermarksBound, PTL DEF TablesAreSound

\* Watermarks never go back, and a merge hands on the later of two: once a
\* start is accepted, none from before it is accepted for the canonical that
\* holds its item (recordPlaybackEventAndTargets, resolveIdentity).
THEOREM WatermarksNeverGoBack == Spec => WatermarksAdvance
<1> DEFINE NotBack(c, d) ==
             /\ c \notin retired' => d = c
             /\ ~Later(watermark[c].started, watermark[c].session,
                       watermark'[d].started, watermark'[d].session)
<1>1. ASSUME TypeOK, [Next]_vars, NEW c \in Canonicals \ retired
      PROVE  \E d \in Canonicals \ retired' : NotBack(c, d)
  <2>1. /\ watermark[c].started \in Nat /\ watermark[c].session \in Nat
        /\ watermark \in [Canonicals -> Watermark]
    BY <1>1, MarksAreNumbers DEF TypeOK
  <2>2. CASE watermark'[c] = watermark[c] /\ c \notin retired'
    BY <2>1, <2>2 DEF Later
  <2>3. ASSUME NEW x \in reports, RecordStart(x), c = x.canonical
        PROVE  \E d \in Canonicals \ retired' : NotBack(c, d)
    <3>1. x.at \in Nat /\ x.session \in Nat
      BY <1>1, SessionsAssumption DEF TypeOK, Report
    <3> DEFINE mark == [started |-> x.at, session |-> x.session]
    <3>2. /\ watermark' = [watermark EXCEPT ![c] = mark]
          /\ retired' = retired
          /\ Later(x.at, x.session, watermark[c].started, watermark[c].session)
      BY <2>3 DEF RecordStart, AcceptsStart
    <3>3. watermark'[c] = mark
      BY <2>1, <3>2
    <3> QED
      BY <2>1, <3>1, <3>2, <3>3, LaterAsymmetric
  <2>4. ASSUME NEW a \in Canonicals, NEW b \in Canonicals,
               MergeCanonicals(a, b), c \in {a, b}
        PROVE  \E d \in Canonicals \ retired' : NotBack(c, d)
    <3> DEFINE joint == JointWatermark(a, b)
    <3>1. /\ watermark' = [watermark EXCEPT ![a] = joint, ![b] = NoWatermark]
          /\ retired' = retired \cup {b}
          /\ a # b /\ a \notin retired
      BY <2>4 DEF MergeCanonicals
    <3>2. ~Later(watermark[c].started, watermark[c].session,
                 joint.started, joint.session)
      BY <1>1, <2>4, JointWatermarkBounds
    <3> HIDE DEF joint
    <3>3. watermark'[a] = joint
      BY <2>1, <3>1
    <3> QED
      BY <2>4, <3>1, <3>2, <3>3
  <2>5. CASE UNCHANGED <<watermark, retired>>
    BY <2>2, <2>5
  <2>6. ASSUME NEW x \in reports, RecordStart(x), c # x.canonical
        PROVE  \E d \in Canonicals \ retired' : NotBack(c, d)
    BY <2>1, <2>2, <2>6 DEF RecordStart
  <2>7. ASSUME NEW a \in Canonicals, NEW b \in Canonicals,
               MergeCanonicals(a, b), c \notin {a, b}
        PROVE  \E d \in Canonicals \ retired' : NotBack(c, d)
    BY <2>1, <2>2, <2>7 DEF MergeCanonicals
  <2>8. CASE \/ \E x \in NewReport : ReceiveReport(x)
             \/ \E x \in reports : \/ RecordEvent(x) \/ RejectReport(x)
                                    \/ LoseReport(x)
             \/ \E e \in Canonicals, patch \in Patches : WriteState(e, patch)
             \/ Prune
             \/ Tick
             \/ UNCHANGED vars
    BY <2>5, <2>8 DEF ReceiveReport, RecordEvent, RejectReport, LoseReport,
                      WriteState, Prune, Tick, vars
  <2> QED
    BY <1>1, <2>3, <2>4, <2>6, <2>7, <2>8 DEF Next
<1>2. TypeOK /\ [Next]_vars =>
        [\A c \in Canonicals \ retired : \E d \in Canonicals \ retired' :
           /\ c \notin retired' => d = c
           /\ ~Later(watermark[c].started, watermark[c].session,
                     watermark'[d].started, watermark'[d].session)]_vars
  BY <1>1
<1> QED
  BY <1>2, TypeInit, TypeNext, PTL DEF Spec, WatermarksAdvance

-----------------------------------------------------------------------------
(* The promise of PlaybackFold                                             *)

\* What the fold sees of the tables.
Data == [c \in Canonicals |-> userState[c].data]
Playing == [s \in Sessions |-> session[s].canonical]
Ended == {s \in Sessions : session[s].stopped}
Order == {pair \in Sessions \X Sessions :
            /\ Known(pair[1])
            /\ session[pair[1]].canonical = session[pair[2]].canonical
            /\ Later(session[pair[2]].started, pair[2],
                     session[pair[1]].started, pair[1])}

Precedes(t, s) ==
    /\ Known(t)
    /\ session[t].canonical = session[s].canonical
    /\ Later(session[s].started, s, session[t].started, t)

\* The sessions that are known for a canonical.
Playings(c) == {t \in Sessions : session[t].canonical = c}

\* A session that is forgotten leaves nothing behind.
UnknownIsBlank == \A s \in Sessions : ~Known(s) => ~session[s].stopped

FoldInv == TypeOK /\ WatermarkBounds /\ UnknownIsBlank

\* The order, pair by pair.
LEMMA OrderHas ==
    ASSUME NEW t \in Sessions, NEW s \in Sessions
    PROVE  /\ <<t, s>> \in Order <=> Precedes(t, s)
           /\ <<t, s>> \in Order' <=> Precedes(t, s)'
  BY DEF Order, Precedes

LEMMA OrderSame ==
    ASSUME \A t \in Sessions, s \in Sessions : Precedes(t, s)' <=> Precedes(t, s)
    PROVE  Order' = Order
  BY DEF Order, Precedes

\* Sessions of one canonical are ordered one way.
LEMMA LaterTotal ==
    ASSUME NEW t \in Nat, NEW s \in Nat, NEW u \in Nat, NEW r \in Nat, s # r
    PROVE  Later(t, s, u, r) <=> ~Later(u, r, t, s)
  BY DEF Later

LEMMA LaterTransitive ==
    ASSUME NEW t \in Nat, NEW s \in Nat, NEW u \in Nat, NEW r \in Nat,
           NEW v \in Nat, NEW q \in Nat,
           Later(t, s, u, r), ~Later(v, q, u, r)
    PROVE  Later(t, s, v, q)
  BY DEF Later

\* A session that is the latest of its canonical precedes none.
LEMMA LatestIsNewest ==
    ASSUME TypeOK, NEW s \in Sessions, Latest(s), NEW t \in Sessions
    PROVE  ~Precedes(s, t)
<1>1. /\ session[s].started \in Nat /\ session[t].started \in Nat
      /\ s \in Nat /\ t \in Nat
  BY MarksAreNumbers DEF TypeOK, Session
<1>2. CASE t = s
  BY <1>1, <1>2 DEF Precedes, Later
<1>3. CASE t # s
  <2>1. session[t].canonical = session[s].canonical =>
          Later(session[s].started, s, session[t].started, t)
    BY <1>3 DEF Latest
  <2> QED
    BY <1>1, <2>1, LaterAsymmetric DEF Precedes
<1> QED
  BY <1>2, <1>3

\* What a report makes of user data, as the fold says it.
LEMMA FoldedMoves ==
    ASSUME NEW u \in UserData, NEW x \in Report
    PROVE  /\ x.kind # "stop" => Fold!Move(u, Folded(u, x))
           /\ Fold!Move(u, Folded(u, x)) \/ Fold!Count(u, Folded(u, x))
<1>1. /\ x.position \in 0 .. Runtime
      /\ x.version \in Versions
      /\ u.count \in Nat
  BY DEF Report, UserData
<1>2. Completed(x) \in BOOLEAN /\ (x.kind # "stop" => ~Completed(x))
  BY DEF Completed
<1>3. CASE ~Completed(x)
  <2>1. Folded(u, x) = [u EXCEPT !.played = FALSE, !.position = x.position,
                                 !.version = x.version]
    <3>1. Folded(u, x) = [u EXCEPT !.played = FALSE, !.count = u.count,
                                   !.position = x.position, !.version = x.version]
      BY <1>2, <1>3 DEF Folded
    <3> QED
      BY <3>1 DEF UserData
  <2> QED
    BY <1>1, <2>1 DEF Fold!Move
<1>4. CASE Completed(x)
  <2>1. Folded(u, x) = [u EXCEPT !.played = TRUE, !.count = u.count + 1,
                                 !.position = 0, !.version = x.version]
    BY <1>2, <1>4 DEF Folded
  <2>2. Folded(u, x) = [u EXCEPT !.played = TRUE, !.position = 0,
                                 !.version = x.version, !.count = u.count + 1]
    BY <2>1 DEF UserData
  <2> QED
    BY <1>1, <1>2, <1>4, <2>2 DEF Fold!Count
<1> QED
  BY <1>3, <1>4

\* A row after an event.
LEMMA RowAfterEvent ==
    ASSUME NEW row \in Session, NEW new, NEW at, NEW z \in BOOLEAN,
           new = [row EXCEPT !.last = at, !.stopped = z]
    PROVE  /\ new.canonical = row.canonical
           /\ new.started = row.started
           /\ new.stopped = z
  BY DEF Session

\* A report that a session's canonical takes: recorded for the session that
\* began last, it moves the user data or ends the session.
LEMMA EventFolds ==
    ASSUME FoldInv, NEW x \in Report, x.kind # "start", AcceptsEvent(x),
           session' = [session EXCEPT
                         ![x.session] = [session[x.session] EXCEPT
                                           !.last = x.at,
                                           !.stopped = x.kind = "stop"]],
           NEW u, u = userState[x.canonical].data,
           NEW w, w = userState'[x.canonical].data,
           x.kind # "stop" => Fold!Move(u, w),
           Fold!Move(u, w) \/ Fold!Count(u, w),
           \A d \in Canonicals \ {x.canonical} :
             userState'[d].data = userState[d].data
    PROVE  Fold!Next
<1> DEFINE s == x.session
           c == x.canonical
<1>1. /\ s \in Sessions /\ c \in Canonicals
      /\ session \in [Sessions -> Session]
      /\ session[s].canonical = c
      /\ ~session[s].stopped
      /\ Latest(s)
  BY DEF FoldInv, TypeOK, Report, AcceptsEvent
<1>2. (x.kind = "stop") \in BOOLEAN
  OBVIOUS
<1>3. /\ session'[s].canonical = session[s].canonical
      /\ session'[s].started = session[s].started
      /\ session'[s].stopped <=> x.kind = "stop"
      /\ \A t \in Sessions \ {s} : session'[t] = session[t]
  <2> DEFINE stop == x.kind = "stop"
  <2>0. stop \in BOOLEAN
    OBVIOUS
  <2> HIDE DEF stop
  <2>1. session' = [session EXCEPT ![s] = [session[s] EXCEPT !.last = x.at,
                                                             !.stopped = stop]]
    BY DEF stop
  <2>2. session'[s] = [session[s] EXCEPT !.last = x.at, !.stopped = stop]
    BY <1>1, <2>1
  <2>3. session[s] \in Session
    BY <1>1
  <2> HIDE DEF s, c
  <2>4. PICK z \in BOOLEAN :
          /\ z = stop
          /\ session'[s] = [session[s] EXCEPT !.last = x.at, !.stopped = z]
    BY <2>0, <2>2
  <2>5. /\ session'[s].canonical = session[s].canonical
        /\ session'[s].started = session[s].started
        /\ session'[s].stopped = z
    <3>1. PICK row \in Session : row = session[s]
      BY <2>3
    <3>2. PICK new : new = session'[s]
      OBVIOUS
    <3>3. new = [row EXCEPT !.last = x.at, !.stopped = z]
      BY <2>4, <3>1, <3>2
    <3>4. /\ new.canonical = row.canonical
          /\ new.started = row.started
          /\ new.stopped = z
      BY <3>3, RowAfterEvent
    <3> QED
      BY <3>1, <3>2, <3>4
  <2> QED
    BY <1>1, <2>1, <2>4, <2>5 DEF stop
<1> HIDE DEF s, c
<1>4. Playing' = Playing
  BY <1>1, <1>3 DEF Playing
<1>5. \A t \in Sessions, r \in Sessions : Precedes(t, r)' <=> Precedes(t, r)
  BY <1>1, <1>3 DEF Precedes, Known
<1>6. Order' = Order
  BY <1>5, OrderSame
<1>7. Ended' = IF x.kind = "stop" THEN Ended \cup {s} ELSE Ended
  BY <1>1, <1>3 DEF Ended
<1>8. /\ Playing[s] = c
      /\ s \notin Ended
      /\ \A t \in Sessions : <<s, t>> \notin Order
  BY <1>1, LatestIsNewest, OrderHas DEF Playing, Ended, FoldInv
<1>9. /\ Data[c] = u /\ Data'[c] = w
      /\ \A d \in Canonicals \ {c} : Data'[d] = Data[d]
  BY <1>1 DEF Data, c
<1>10. Fold!Current(s, c)
  BY <1>4, <1>6, <1>8, <1>9
     DEF Fold!Current, Fold!Newest, Playing, Ended, Order, Data
<1>11. CASE x.kind = "stop"
  <2>1. Fold!End(s, c)
    BY <1>7, <1>9, <1>10, <1>11 DEF Fold!End, Ended, Data
  <2> QED
    BY <1>1, <2>1 DEF Fold!Next
<1>12. CASE x.kind # "stop"
  <2>1. Fold!Advance(s, c)
    BY <1>7, <1>9, <1>10, <1>12 DEF Fold!Advance, Ended, Data
  <2> QED
    BY <1>1, <2>1 DEF Fold!Next
<1> QED
  BY <1>11, <1>12

\* A start that the watermark admits begins the session that began last.
LEMMA StartFolds ==
    ASSUME FoldInv, NEW x \in Report, AcceptsStart(x),
           session' = [session EXCEPT
                         ![x.session] = [canonical |-> x.canonical,
                                         version |-> x.version,
                                         started |-> x.at, last |-> x.at,
                                         stopped |-> FALSE]],
           Fold!Move(userState[x.canonical].data, userState'[x.canonical].data),
           \A d \in Canonicals \ {x.canonical} :
             userState'[d].data = userState[d].data
    PROVE  Fold!Next
<1> DEFINE s == x.session
           c == x.canonical
<1>1. /\ s \in Sessions /\ c \in Canonicals
      /\ x.at \in Nat
      /\ session \in [Sessions -> Session]
      /\ ~Known(s)
      /\ ~session[s].stopped
      /\ c # NoCanonical
  BY NoCanonicalAssumption
     DEF FoldInv, TypeOK, Report, AcceptsStart, UnknownIsBlank
<1>2. /\ session'[s].canonical = c
      /\ session'[s].started = x.at
      /\ session'[s].stopped = FALSE
      /\ \A t \in Sessions \ {s} : session'[t] = session[t]
  BY <1>1
<1>3. ASSUME NEW t \in Sessions, session[t].canonical = c
      PROVE  Later(x.at, s, session[t].started, t)
  <2>1. ~Later(session[t].started, t, watermark[c].started, watermark[c].session)
    BY <1>1, <1>3 DEF FoldInv, WatermarkBounds, Known
  <2>2. Later(x.at, s, watermark[c].started, watermark[c].session)
    BY DEF AcceptsStart
  <2>3. /\ s \in Nat /\ t \in Nat /\ session[t].started \in Nat
        /\ watermark[c].started \in Nat /\ watermark[c].session \in Nat
    BY <1>1, MarksAreNumbers DEF FoldInv, TypeOK, Session
  <2> HIDE DEF s, c
  <2> QED
    BY <1>1, <2>1, <2>2, <2>3 DEF Later
<1> HIDE DEF s, c
<1>4. ASSUME NEW t \in Sessions, NEW r \in Sessions
      PROVE  Precedes(t, r)' <=> \/ Precedes(t, r)
                                 \/ r = s /\ session[t].canonical = c
  <2>0. s \in Nat
    BY <1>1, MarksAreNumbers DEF FoldInv
  <2>1. CASE t = s /\ r = s
    BY <1>1, <1>2, <2>0, <2>1 DEF Precedes, Later, Known
  <2>2. CASE t = s /\ r # s
    <3>1. ~Precedes(t, r)
      BY <1>1, <2>2 DEF Precedes
    <3>2. CASE session[r].canonical = c
      <4>1. Later(x.at, s, session[r].started, r)
        BY <1>3, <3>2
      <4>2. r \in Nat /\ session[r].started \in Nat
        BY <1>1, MarksAreNumbers DEF FoldInv, TypeOK, Session
      <4>3. ~Later(session[r].started, r, x.at, s)
        BY <1>1, <2>0, <4>1, <4>2, LaterAsymmetric
      <4> QED
        BY <1>2, <2>2, <3>1, <4>3 DEF Precedes
    <3>3. CASE session[r].canonical # c
      BY <1>2, <2>2, <3>1, <3>3 DEF Precedes
    <3> QED
      BY <3>2, <3>3
  <2>3. CASE t # s /\ r = s
    <3>1. ~Precedes(t, r)
      BY <1>1, <2>3 DEF Precedes, Known
    <3> QED
      BY <1>1, <1>2, <1>3, <2>3, <3>1 DEF Precedes, Known
  <2>4. CASE t # s /\ r # s
    BY <1>2, <2>4 DEF Precedes, Known
  <2> QED
    BY <2>1, <2>2, <2>3, <2>4
<1>5. Order' = Order \cup {<<t, s>> : t \in Playings(c)}
  <2>1. \A t \in Sessions, r \in Sessions :
          <<t, r>> \in Order' <=> \/ <<t, r>> \in Order
                                 \/ <<t, r>> \in {<<q, s>> : q \in Playings(c)}
    BY <1>4, OrderHas DEF Playings
  <2>2. /\ Order \subseteq Sessions \X Sessions
        /\ Order' \subseteq Sessions \X Sessions
        /\ {<<q, s>> : q \in Playings(c)} \subseteq Sessions \X Sessions
    BY <1>1 DEF Order, Playings
  <2> DEFINE added == {<<q, s>> : q \in Playings(c)}
  <2>3. ASSUME NEW pair \in Sessions \X Sessions
        PROVE  pair \in Order' <=> pair \in Order \cup added
    <3>1. PICK t \in Sessions, r \in Sessions : pair = <<t, r>>
      OBVIOUS
    <3> QED
      BY <2>1, <3>1
  <2> HIDE DEF added
  <2> QED
    BY <2>2, <2>3 DEF added
<1>6. Ended' = Ended
  BY <1>1, <1>2 DEF Ended
<1>7. Playing' = [Playing EXCEPT ![s] = c]
  <2>1. \A t \in Sessions :
          session'[t].canonical = IF t = s THEN c ELSE session[t].canonical
    BY <1>2
  <2>2. Playing' = [t \in Sessions |-> IF t = s THEN c ELSE session[t].canonical]
    BY <2>1 DEF Playing
  <2> QED
    BY <1>1, <2>2 DEF Playing
<1>8. Playing[s] = NoCanonical
  BY <1>1 DEF Playing, Known
<1>9. Fold!On(c) = Playings(c)
  BY DEF Fold!On, Playings
<1>10. /\ Fold!Move(Data[c], Data'[c])
       /\ \A d \in Canonicals \ {c} : Data'[d] = Data[d]
  BY <1>1 DEF Data, c
<1>11. Fold!Begin(s, c)
  BY <1>5, <1>6, <1>7, <1>8, <1>9, <1>10
     DEF Fold!Begin, Playing, Ended, Order, Data
<1> QED
  BY <1>1, <1>11 DEF Fold!Next

\* What the user's hand does to user data.
LEMMA PatchedOverrides ==
    ASSUME NEW u \in UserData, NEW patch \in Patches
    PROVE  \E played, favorite \in BOOLEAN, p \in 0 .. Runtime,
              n \in {0, u.count} :
             Patched(u, patch) = [u EXCEPT !.played = played,
                                           !.favorite = favorite,
                                           !.position = p, !.count = n]
<1>1. /\ patch \in {"favorite", "notFavorite", "played", "unplayed"}
      /\ u.played \in BOOLEAN /\ u.favorite \in BOOLEAN
      /\ u.position \in 0 .. Runtime /\ 0 \in 0 .. Runtime
  BY PatchesAssumption, ClockAssumption DEF UserData
<1>2. CASE patch = "favorite"
  <2>1. Patched(u, patch) = [u EXCEPT !.played = u.played, !.favorite = TRUE,
                                      !.position = u.position, !.count = u.count]
    BY <1>2 DEF Patched, UserData
  <2> QED
    BY <1>1, <2>1
<1>3. CASE patch = "notFavorite"
  <2>1. Patched(u, patch) = [u EXCEPT !.played = u.played, !.favorite = FALSE,
                                      !.position = u.position, !.count = u.count]
    BY <1>3 DEF Patched, UserData
  <2> QED
    BY <1>1, <2>1
<1>4. CASE patch = "played"
  <2>1. Patched(u, patch) = [u EXCEPT !.played = TRUE, !.favorite = u.favorite,
                                      !.position = 0, !.count = u.count]
    BY <1>4 DEF Patched, UserData
  <2> QED
    BY <1>1, <2>1
<1>5. CASE patch = "unplayed"
  <2>1. Patched(u, patch) = [u EXCEPT !.played = FALSE, !.favorite = u.favorite,
                                      !.position = 0, !.count = 0]
    BY <1>5 DEF Patched, UserData
  <2> QED
    BY <1>1, <2>1
<1> QED
  BY <1>1, <1>2, <1>3, <1>4, <1>5

\* A change by the user overrides the user data of one canonical.
LEMMA PatchFolds ==
    ASSUME TypeOK, NEW c \in Canonicals, NEW patch \in Patches,
           UNCHANGED session,
           userState'[c].data = Patched(userState[c].data, patch),
           \A d \in Canonicals \ {c} : userState'[d].data = userState[d].data
    PROVE  Fold!Next
<1>1. Data[c] \in UserData
  BY DEF TypeOK, UserState, Data
<1>2. PICK played \in BOOLEAN, favorite \in BOOLEAN, p \in 0 .. Runtime,
           n \in {0, Data[c].count} :
        Patched(Data[c], patch) = [Data[c] EXCEPT !.played = played,
                                                  !.favorite = favorite,
                                                  !.position = p, !.count = n]
  BY <1>1, PatchedOverrides
<1>3. Data' = [Data EXCEPT ![c] = Patched(Data[c], patch)]
  BY DEF Data
<1>4. [Data EXCEPT ![c] = [Data[c] EXCEPT !.played = played,
                                          !.favorite = favorite,
                                          !.position = p, !.count = n]]
        = [Data EXCEPT ![c].played = played, ![c].favorite = favorite,
                       ![c].position = p, ![c].count = n]
  BY DEF Data
<1>5. UNCHANGED <<Playing, Ended, Order>>
  BY DEF Playing, Ended, Order, Known
<1>6. \E pl, fa \in BOOLEAN, q \in 0 .. Runtime, m \in {0, Data[c].count} :
        Data' = [Data EXCEPT ![c].played = pl, ![c].favorite = fa,
                             ![c].position = q, ![c].count = m]
  <2>1. Data' = [Data EXCEPT ![c].played = played, ![c].favorite = favorite,
                             ![c].position = p, ![c].count = n]
    BY <1>2, <1>3, <1>4
  <2> QED
    BY <2>1
<1>7. Fold!Override(c)
  BY <1>5, <1>6 DEF Fold!Override, Data, Playing, Ended, Order
<1> QED
  BY <1>7 DEF Fold!Next

\* Pruning forgets sessions.
LEMMA PruneFolds ==
    ASSUME FoldInv, Prune
    PROVE  Fold!Next
<1>0. PICK gone \in SUBSET Sessions :
        gone = {s \in Sessions : Known(s) /\ session[s].last + Idle <= now}
  OBVIOUS
<1>1. \A s \in Sessions : session'[s] = IF s \in gone THEN NoSession ELSE session[s]
  BY <1>0 DEF Prune
<1>2. /\ NoSession.canonical = NoCanonical
      /\ ~NoSession.stopped
  BY DEF NoSession
<1>3. Playing' = [s \in Sessions |-> IF s \in gone THEN NoCanonical ELSE Playing[s]]
  BY <1>1, <1>2 DEF Playing
<1>4. Ended' = Ended \ gone
  BY <1>1, <1>2 DEF Ended
<1>5. \A t \in Sessions, r \in Sessions :
        Precedes(t, r)' <=> Precedes(t, r) /\ t \notin gone /\ r \notin gone
  BY <1>1, <1>2 DEF Precedes, Known
<1>6. Order' = {pair \in Order : pair[1] \notin gone /\ pair[2] \notin gone}
  BY <1>5 DEF Order, Precedes
<1>7. Data' = Data
  BY DEF Prune, Data
<1>8. Fold!Forget(gone)
  BY <1>3, <1>4, <1>6, <1>7 DEF Fold!Forget, Data, Playing, Ended, Order
<1>9. \E S \in SUBSET Sessions : Fold!Forget(S)
  BY <1>8
<1> QED
  BY <1>9 DEF Fold!Next

\* A merge joins two canonicals, and orders the sessions of the two.
LEMMA MergeFolds ==
    ASSUME TypeOK, NEW c \in Canonicals, NEW d \in Canonicals,
           MergeCanonicals(c, d)
    PROVE  Fold!Next
<1>1. PICK state \in {userState[c], userState[d]} :
        userState' = [userState EXCEPT ![c] = state, ![d] = NoState]
  BY DEF MergeCanonicals, Survivors
<1>2. /\ c # d
      /\ c # NoCanonical /\ d # NoCanonical
      /\ \A s \in Sessions : /\ session[s] \in Session
                             /\ session[s].started \in Nat
                             /\ s \in Nat
  BY NoCanonicalAssumption, MarksAreNumbers DEF MergeCanonicals, TypeOK, Session
<1>3. ASSUME NEW s \in Sessions
      PROVE  /\ session'[s].started = session[s].started
             /\ session'[s].stopped = session[s].stopped
             /\ session'[s].canonical = IF session[s].canonical = d THEN c
                                        ELSE session[s].canonical
  <2>1. session'[s] = IF session[s].canonical = d
                      THEN [session[s] EXCEPT !.canonical = c] ELSE session[s]
    BY DEF MergeCanonicals, SessionsMoved
  <2> QED
    BY <1>2, <2>1 DEF Session
<1>4. Playing' = [s \in Sessions |-> IF Playing[s] = d THEN c ELSE Playing[s]]
  BY <1>3 DEF Playing
<1>5. Ended' = Ended
  BY <1>3 DEF Ended
<1>6. /\ Data' = [Data EXCEPT ![c] = state.data, ![d] = NoState.data]
      /\ state.data \in {Data[c], Data[d]}
  BY <1>1 DEF Data, TypeOK
<1>7. NoState.data = Fold!Unseen
  BY DEF NoState, Fold!Unseen
<1>8. ASSUME NEW t \in Sessions, NEW s \in Sessions
      PROVE  /\ Precedes(t, s) => Precedes(t, s)'
             /\ Precedes(t, s)' /\ ~Precedes(t, s) =>
                  \/ session[t].canonical = c /\ session[s].canonical = d
                  \/ session[t].canonical = d /\ session[s].canonical = c
             /\ session[t].canonical = c /\ session[s].canonical = d =>
                  (Precedes(t, s)' <=> ~Precedes(s, t)')
  <2>1. session[t].canonical = c /\ session[s].canonical = d => t # s
    BY <1>2
  <2>2. t # s => (Later(session[s].started, s, session[t].started, t) <=>
                  ~Later(session[t].started, t, session[s].started, s))
    BY <1>2, LaterTotal
  <2> QED
    BY <1>2, <1>3, <2>1, <2>2 DEF Precedes, Known
<1>9. Order \subseteq Order'
  BY <1>8 DEF Order, Precedes
<1>10. ASSUME NEW pair \in Order' \ Order
       PROVE  \/ pair[1] \in Playings(c) /\ pair[2] \in Playings(d)
              \/ pair[1] \in Playings(d) /\ pair[2] \in Playings(c)
  <2>1. PICK t \in Sessions, s \in Sessions : pair = <<t, s>>
    BY DEF Order
  <2>2. Precedes(t, s)' /\ ~Precedes(t, s)
    BY <2>1, OrderHas
  <2> QED
    BY <1>8, <2>1, <2>2 DEF Playings
<1>11. \A s \in Playings(c), t \in Playings(d) :
         (<<s, t>> \in Order') # (<<t, s>> \in Order')
  BY <1>8, OrderHas DEF Playings
<1>12. Fold!On(c) = Playings(c) /\ Fold!On(d) = Playings(d)
  BY DEF Fold!On, Playings
<1>13. /\ \E u \in {Data[c], Data[d]} :
            Data' = [Data EXCEPT ![c] = u, ![d] = Fold!Unseen]
       /\ \A pair \in Order' \ Order :
            \/ pair[1] \in Fold!On(c) /\ pair[2] \in Fold!On(d)
            \/ pair[1] \in Fold!On(d) /\ pair[2] \in Fold!On(c)
       /\ \A s \in Fold!On(c), t \in Fold!On(d) :
            (<<s, t>> \in Order') # (<<t, s>> \in Order')
  BY <1>6, <1>7, <1>10, <1>11, <1>12
<1>14. Fold!Join(c, d)
  BY <1>2, <1>4, <1>5, <1>9, <1>13
     DEF Fold!Join, Data, Playing, Ended, Order
<1> QED
  BY <1>14 DEF Fold!Next

\* A session that is forgotten leaves nothing behind, and no other is blank.
LEMMA BlankNext ==
    ASSUME FoldInv, [Next]_vars
    PROVE  UnknownIsBlank'
<1> USE DEF UnknownIsBlank, Known
<1>1. /\ session \in [Sessions -> Session]
      /\ ~NoSession.stopped
  BY DEF FoldInv, TypeOK, NoSession
<1>2. CASE UNCHANGED session
  BY <1>2 DEF FoldInv
<1>3. ASSUME NEW x \in reports, RecordStart(x)
      PROVE  UnknownIsBlank'
  BY <1>1, <1>3 DEF RecordStart, FoldInv
<1>4. ASSUME NEW x \in reports, RecordEvent(x)
      PROVE  UnknownIsBlank'
  <2>1. /\ x \in Report
        /\ \A s \in Sessions : s # x.session => session'[s] = session[s]
        /\ session'[x.session].canonical = session[x.session].canonical
        /\ session[x.session].canonical = x.canonical
        /\ x.canonical # NoCanonical
    BY <1>1, <1>4, NoCanonicalAssumption
       DEF RecordEvent, AcceptsEvent, Session, Report, FoldInv, TypeOK
  <2> QED
    BY <1>1, <2>1 DEF FoldInv
<1>5. CASE Prune
  BY <1>1, <1>5 DEF Prune, FoldInv
<1>6. ASSUME NEW c \in Canonicals, NEW d \in Canonicals, MergeCanonicals(c, d)
      PROVE  UnknownIsBlank'
  <2>1. \A s \in Sessions :
          session'[s] = IF session[s].canonical = d
                        THEN [session[s] EXCEPT !.canonical = c] ELSE session[s]
    BY <1>6 DEF MergeCanonicals, SessionsMoved
  <2>2. \A s \in Sessions : /\ session'[s].stopped = session[s].stopped
                            /\ session'[s].canonical = NoCanonical =>
                                 session[s].canonical = NoCanonical
    BY <1>1, <2>1, NoCanonicalAssumption DEF Session
  <2> QED
    BY <2>2 DEF FoldInv
<1>7. CASE \/ UNCHANGED vars
           \/ \E x \in NewReport : ReceiveReport(x)
           \/ \E x \in reports : RejectReport(x) \/ LoseReport(x)
           \/ \E c \in Canonicals, patch \in Patches : WriteState(c, patch)
           \/ Tick
  BY <1>2, <1>7 DEF vars, ReceiveReport, RejectReport, LoseReport, WriteState, Tick
<1> QED
  BY <1>3, <1>4, <1>5, <1>6, <1>7 DEF Next

\* Every step is one of the fold, or changes nothing that it sees.
LEMMA FoldNext ==
    ASSUME FoldInv, [Next]_vars
    PROVE  [Fold!Next]_(Fold!vars)
<1>1. \A c \in Canonicals : userState[c].data \in UserData
  BY DEF FoldInv, TypeOK, UserState
<1>2. reports \subseteq Report /\ userState \in [Canonicals -> UserState]
  BY DEF FoldInv, TypeOK
<1>3. CASE UNCHANGED <<userState, session>>
  BY <1>3 DEF Fold!vars, Known
<1>4. ASSUME NEW x \in reports, RecordStart(x)
      PROVE  Fold!Next
  <2>1. /\ userState'[x.canonical].data = Folded(userState[x.canonical].data, x)
        /\ \A d \in Canonicals \ {x.canonical} :
             userState'[d].data = userState[d].data
    BY <1>2, <1>4 DEF RecordStart, Written, Report
  <2>2. x \in Report /\ x.canonical \in Canonicals /\ x.kind # "stop"
    BY <1>2, <1>4 DEF RecordStart, Report
  <2>3. Fold!Move(userState[x.canonical].data, Folded(userState[x.canonical].data, x))
    BY <1>1, <2>2, FoldedMoves
  <2> QED
    BY <1>4, <2>1, <2>2, <2>3, StartFolds DEF RecordStart
<1>5. ASSUME NEW x \in reports, RecordEvent(x)
      PROVE  Fold!Next
  <2>1. /\ userState'[x.canonical].data = Folded(userState[x.canonical].data, x)
        /\ \A d \in Canonicals \ {x.canonical} :
             userState'[d].data = userState[d].data
    BY <1>2, <1>5 DEF RecordEvent, Written, Report
  <2>2. x \in Report /\ x.canonical \in Canonicals
    BY <1>2 DEF Report
  <2>3. PICK u : u = userState[x.canonical].data
    OBVIOUS
  <2>4. PICK w : w = userState'[x.canonical].data
    OBVIOUS
  <2>5. /\ x.kind # "stop" => Fold!Move(u, w)
        /\ Fold!Move(u, w) \/ Fold!Count(u, w)
    BY <1>1, <2>1, <2>2, <2>3, <2>4, FoldedMoves
  <2>6. /\ x.kind # "start" /\ AcceptsEvent(x)
        /\ session' = [session EXCEPT
                         ![x.session] = [session[x.session] EXCEPT
                                           !.last = x.at,
                                           !.stopped = x.kind = "stop"]]
    BY <1>5 DEF RecordEvent
  <2> QED
    BY <2>1, <2>2, <2>3, <2>4, <2>5, <2>6, EventFolds
<1>6. ASSUME NEW c \in Canonicals, NEW patch \in Patches, WriteState(c, patch)
      PROVE  Fold!Next
  <2>1. /\ UNCHANGED session
        /\ userState'[c].data = Patched(userState[c].data, patch)
        /\ \A d \in Canonicals \ {c} : userState'[d].data = userState[d].data
    BY <1>2, <1>6 DEF WriteState, Written
  <2> QED
    BY <2>1, PatchFolds DEF FoldInv
<1>7. CASE Prune
  BY <1>7, PruneFolds
<1>8. ASSUME NEW c \in Canonicals, NEW d \in Canonicals, MergeCanonicals(c, d)
      PROVE  Fold!Next
  BY <1>8, MergeFolds DEF FoldInv
<1>9. CASE \/ UNCHANGED vars
           \/ \E x \in NewReport : ReceiveReport(x)
           \/ \E x \in reports : RejectReport(x) \/ LoseReport(x)
           \/ Tick
  BY <1>3, <1>9 DEF vars, ReceiveReport, RejectReport, LoseReport, Tick
<1> QED
  BY <1>4, <1>5, <1>6, <1>7, <1>8, <1>9 DEF Next

\* The tables implement the fold: user data is moved by the session that began
\* last and by nobody else, a session ends at most once, and only a session
\* that ends counts a play, through delayed and repeated reports, pruning and
\* merges (recordPlaybackEventAndTargets, resolveIdentity).
THEOREM ReportsFold == Spec => ImplementsFold
<1>1. Init => Fold!Init
  <2> SUFFICES ASSUME Init PROVE Fold!Init
    OBVIOUS
  <2>1. Data = [c \in Canonicals |-> Fold!Unseen]
    BY DEF Init, Data, NoState, Fold!Unseen
  <2>2. \A s \in Sessions : session[s].canonical = NoCanonical /\ ~session[s].stopped
    BY DEF Init, NoSession
  <2>3. Playing = [s \in Sessions |-> NoCanonical] /\ Ended = {}
    BY <2>2 DEF Playing, Ended
  <2>4. Order = {}
    BY <2>2 DEF Order, Known
  <2> QED
    BY <2>1, <2>3, <2>4 DEF Fold!Init, Data, Playing, Ended, Order
<1>2. Init => FoldInv
  BY TypeInit DEF Init, FoldInv, WatermarkBounds, UnknownIsBlank, Known, NoSession
<1>3. FoldInv /\ [Next]_vars => FoldInv'
  BY TypeNext, WatermarkNext, BlankNext DEF FoldInv
<1>4. FoldInv /\ [Next]_vars => [Fold!Next]_(Fold!vars)
  BY FoldNext
<1> QED
  BY <1>1, <1>2, <1>3, <1>4, PTL DEF Spec, ImplementsFold, Fold!Spec

-----------------------------------------------------------------------------
(* The Workers storage                                                     *)

\* What was read before a batch is of the types of the rows; the batches keep
\* the tables sound whatever was written in between. Nothing merges here.
Reads ==
    /\ reading \subseteq [report : Report, state : UserState]
    /\ writing \subseteq [canonical : Canonicals, patch : Patches,
                          state : UserState]

D1Inv == TypeOK /\ WatermarkBounds /\ retired = {} /\ Reads

\* The initial state.
LEMMA D1InvInit == D1Init => D1Inv
<1>1. Init => retired = {} /\ WatermarkBounds
  BY DEF Init, WatermarkBounds, Known, NoSession
<1>2. D1Init => Reads
  BY DEF D1Init, Reads
<1> QED
  BY <1>1, <1>2, TypeInit DEF D1Init, D1Inv

\* A batch stores a state of its type, and of one canonical.
LEMMA StoreType ==
    ASSUME TypeOK, NEW c \in Canonicals, NEW read \in UserState,
           NEW u \in UserData, StoreState(c, read, Written(read, u))
    PROVE  userState' \in [Canonicals -> UserState]
<1>1. Written(read, u) \in UserState
  BY WrittenType
<1> QED
  BY <1>1 DEF StoreState, TypeOK

\* The batch of a start.
LEMMA CommitStartKeeps ==
    ASSUME D1Inv, NEW w \in reading, CommitStart(w)
    PROVE  D1Inv'
<1> DEFINE x == w.report
           row == [canonical |-> x.canonical, version |-> x.version,
                   started |-> x.at, last |-> x.at, stopped |-> FALSE]
           mark == [started |-> x.at, session |-> x.session]
<1>1. /\ x \in Report /\ w.state \in UserState
      /\ x.canonical \in Canonicals /\ x.session \in Sessions
      /\ x.version \in Versions /\ x.at \in Nat
  BY DEF D1Inv, Reads, Report
<1>2. /\ StoreState(x.canonical, w.state,
                    Written(w.state, Folded(w.state.data, x)))
      /\ session' = [session EXCEPT ![x.session] = row]
      /\ watermark' = [watermark EXCEPT ![x.canonical] = mark]
      /\ reading' = reading \ {w}
      /\ UNCHANGED <<retired, reports, now, writing>>
  BY DEF CommitStart
<1>3. userState' \in [Canonicals -> UserState]
  <2>1. Folded(w.state.data, x) \in UserData
    BY <1>1, FoldedType DEF UserState
  <2> QED
    BY <1>1, <1>2, <2>1, StoreType DEF D1Inv
<1>4. row \in Session /\ mark \in Watermark
  BY <1>1 DEF Session, Watermark
<1> HIDE DEF row, mark
<1>5. session' \in [Sessions -> Session] /\ watermark' \in [Canonicals -> Watermark]
  BY <1>1, <1>2, <1>4 DEF D1Inv, TypeOK
<1>6. TypeOK'
  BY <1>2, <1>3, <1>5 DEF D1Inv, TypeOK, NothingOnRetired
<1>7. Begins(x)
  BY DEF CommitStart, Begins
<1>8. WatermarkBounds'
  <2>1. ASSUME NEW s \in Sessions, Known(s)'
        PROVE  ~Later(session'[s].started, s,
                      watermark'[session'[s].canonical].started,
                      watermark'[session'[s].canonical].session)
    BY <1>1, <1>7, <2>1, StartBounds DEF D1Inv
  <2> QED
    BY <2>1 DEF WatermarkBounds
<1> QED
  BY <1>2, <1>6, <1>8 DEF D1Inv, Reads

\* The batch of progress or stop.
LEMMA CommitEventKeeps ==
    ASSUME D1Inv, NEW w \in reading, CommitEvent(w)
    PROVE  D1Inv'
<1> DEFINE x == w.report
           stop == x.kind = "stop"
           row == [session[x.session] EXCEPT !.last = x.at, !.stopped = stop]
<1>1. /\ x \in Report /\ w.state \in UserState
      /\ x.canonical \in Canonicals /\ x.session \in Sessions
      /\ x.at \in Nat
  BY DEF D1Inv, Reads, Report
<1>2. /\ StoreState(x.canonical, w.state,
                    Written(w.state, Folded(w.state.data, x)))
      /\ session' = [session EXCEPT ![x.session] = row]
      /\ reading' = reading \ {w}
      /\ UNCHANGED <<watermark, retired, reports, now, writing>>
  BY DEF CommitEvent
<1>3. userState' \in [Canonicals -> UserState]
  <2>1. Folded(w.state.data, x) \in UserData
    BY <1>1, FoldedType DEF UserState
  <2> QED
    BY <1>1, <1>2, <2>1, StoreType DEF D1Inv
<1>4. row \in Session
  <2>1. stop \in BOOLEAN /\ session[x.session] \in Session
    BY <1>1 DEF D1Inv, TypeOK
  <2> HIDE DEF stop
  <2> QED
    BY <1>1, <2>1 DEF Session
<1> HIDE DEF row
<1>5. session' \in [Sessions -> Session]
  BY <1>1, <1>2, <1>4 DEF D1Inv, TypeOK
<1>6. TypeOK'
  BY <1>2, <1>3, <1>5 DEF D1Inv, TypeOK, NothingOnRetired
<1>7. GoesOn(x)
  BY DEF CommitEvent, GoesOn
<1>8. WatermarkBounds'
  <2>1. ASSUME NEW s \in Sessions, Known(s)'
        PROVE  ~Later(session'[s].started, s,
                      watermark'[session'[s].canonical].started,
                      watermark'[session'[s].canonical].session)
    BY <1>1, <1>7, <2>1, EventBounds DEF D1Inv
  <2> QED
    BY <2>1 DEF WatermarkBounds
<1> QED
  BY <1>2, <1>6, <1>8 DEF D1Inv, Reads

\* The batch of a change of the user.
LEMMA CommitPatchKeeps ==
    ASSUME D1Inv, NEW w \in writing, CommitPatch(w)
    PROVE  D1Inv'
<1>1. w.canonical \in Canonicals /\ w.patch \in Patches /\ w.state \in UserState
  BY DEF D1Inv, Reads
<1>2. /\ StoreState(w.canonical, w.state,
                    Written(w.state, Patched(w.state.data, w.patch)))
      /\ writing' = writing \ {w}
      /\ UNCHANGED <<session, watermark, retired, reports, now, reading>>
  BY DEF CommitPatch
<1>3. userState' \in [Canonicals -> UserState]
  <2>1. Patched(w.state.data, w.patch) \in UserData
    BY <1>1, PatchedType DEF UserState
  <2> QED
    BY <1>1, <1>2, <2>1, StoreType DEF D1Inv
<1>4. TypeOK'
  BY <1>2, <1>3 DEF D1Inv, TypeOK, NothingOnRetired
<1>5. WatermarkBounds'
  BY <1>2 DEF D1Inv, WatermarkBounds, Known
<1> QED
  BY <1>2, <1>4, <1>5 DEF D1Inv, Reads

\* What is read is what is stored.
LEMMA BeginsKeep ==
    ASSUME D1Inv,
           \/ \E x \in reports : BeginReport(x)
           \/ \E c \in Canonicals, patch \in Patches : BeginPatch(c, patch)
    PROVE  D1Inv'
<1>1. ASSUME NEW x \in reports, BeginReport(x)
      PROVE  D1Inv'
  <2>1. x \in Report /\ x.canonical \in Canonicals
    BY DEF D1Inv, TypeOK, Report
  <2>2. userState[x.canonical] \in UserState
    BY <2>1 DEF D1Inv, TypeOK
  <2>3. /\ reading' = reading \cup
                        {[report |-> x, state |-> userState[x.canonical]]}
        /\ reports' = reports \ {x}
        /\ UNCHANGED <<userState, session, watermark, retired, now, writing>>
    BY <1>1 DEF BeginReport
  <2>4. TypeOK' /\ WatermarkBounds'
    BY <2>3 DEF D1Inv, TypeOK, NothingOnRetired, WatermarkBounds, Known
  <2>5. Reads'
    BY <2>1, <2>2, <2>3 DEF D1Inv, Reads
  <2> QED
    BY <2>3, <2>4, <2>5 DEF D1Inv
<1>2. ASSUME NEW c \in Canonicals, NEW patch \in Patches, BeginPatch(c, patch)
      PROVE  D1Inv'
  <2>1. userState[c] \in UserState
    BY DEF D1Inv, TypeOK
  <2>2. /\ writing' = writing \cup
              {[canonical |-> c, patch |-> patch, state |-> userState[c]]}
        /\ UNCHANGED <<vars, reading>>
    BY <1>2 DEF BeginPatch
  <2>3. TypeOK' /\ WatermarkBounds'
    BY <2>2 DEF D1Inv, vars, TypeOK, NothingOnRetired, WatermarkBounds, Known
  <2>4. Reads'
    BY <2>1, <2>2 DEF D1Inv, Reads
  <2> QED
    BY <2>2, <2>3, <2>4 DEF D1Inv, vars
<1> QED
  BY <1>1, <1>2

\* Every step on D1 keeps the invariant; what the storages share follows the
\* lemmas about SQLite.
LEMMA D1InvNext == D1Inv /\ [D1Next]_d1vars => D1Inv'
<1> SUFFICES ASSUME D1Inv, [D1Next]_d1vars PROVE D1Inv'
  OBVIOUS
<1>1. CASE \E w \in reading : CommitStart(w) \/ CommitEvent(w)
  BY <1>1, CommitStartKeeps, CommitEventKeeps
<1>2. CASE \E w \in writing : CommitPatch(w)
  BY <1>2, CommitPatchKeeps
<1>3. CASE /\ \/ \E x \in NewReport : ReceiveReport(x)
              \/ \E x \in reports : RejectReport(x) \/ LoseReport(x)
              \/ Prune
              \/ Tick
           /\ UNCHANGED <<reading, writing>>
  <2>1. Next /\ retired' = retired
    BY <1>3 DEF Next, ReceiveReport, RejectReport, LoseReport, Prune, Tick
  <2>2. TypeOK' /\ WatermarkBounds'
    BY <2>1, TypeNext, WatermarkNext DEF D1Inv
  <2> QED
    BY <1>3, <2>1, <2>2 DEF D1Inv, Reads
<1>4. CASE Abort \/ UNCHANGED d1vars
  <2>1. UNCHANGED vars /\ reading' \subseteq reading /\ writing' \subseteq writing
    BY <1>4 DEF Abort, d1vars
  <2>2. TypeOK' /\ WatermarkBounds'
    BY <2>1 DEF D1Inv, vars, TypeOK, NothingOnRetired, WatermarkBounds, Known
  <2> QED
    BY <2>1, <2>2 DEF D1Inv, Reads, vars
<1> QED
  BY <1>1, <1>2, <1>3, <1>4, BeginsKeep DEF D1Next

\* On D1 too the tables stay sound, though a batch follows its reads at any
\* distance: the batch repeats the conditions of the report on the rows it
\* finds (recordPlaybackEventAndTargets).
THEOREM D1TablesStaySound == D1Spec => []TablesAreSound
<1>1. D1Inv => TablesAreSound
  BY DEF D1Inv, TablesAreSound
<1> QED
  BY <1>1, D1InvInit, D1InvNext, PTL DEF D1Spec

\* On D1 no batch takes a watermark back, whatever was recorded between its
\* reads and its writes (recordPlaybackEventAndTargets).
THEOREM D1WatermarksNeverGoBack == D1Spec => WatermarksAdvance
<1> DEFINE NotBack(c, d) ==
             /\ c \notin retired' => d = c
             /\ ~Later(watermark[c].started, watermark[c].session,
                       watermark'[d].started, watermark'[d].session)
<1>1. ASSUME D1Inv, [D1Next]_d1vars, NEW c \in Canonicals
      PROVE  retired' = {} /\ NotBack(c, c)
  <2>1. /\ watermark[c].started \in Nat /\ watermark[c].session \in Nat
        /\ watermark \in [Canonicals -> Watermark]
    BY <1>1, MarksAreNumbers DEF D1Inv, TypeOK
  <2>2. retired' = {}
    BY <1>1, D1InvNext DEF D1Inv
  <2>3. CASE watermark'[c] = watermark[c]
    BY <2>1, <2>2, <2>3 DEF Later
  <2>4. ASSUME NEW w \in reading, CommitStart(w)
        PROVE  NotBack(c, c)
    <3> DEFINE x == w.report
               mark == [started |-> x.at, session |-> x.session]
    <3>1. x.at \in Nat /\ x.session \in Nat /\ x.canonical \in Canonicals
      BY <1>1, SessionsAssumption DEF D1Inv, Reads, Report
    <3>2. /\ watermark' = [watermark EXCEPT ![x.canonical] = mark]
          /\ Later(x.at, x.session, watermark[x.canonical].started,
                   watermark[x.canonical].session)
      BY <2>4 DEF CommitStart, AcceptsStart
    <3>3. CASE c = x.canonical
      <4>1. watermark'[c] = mark
        BY <2>1, <3>2, <3>3
      <4> QED
        BY <2>1, <2>2, <3>1, <3>2, <3>3, <4>1, LaterAsymmetric
    <3>4. CASE c # x.canonical
      BY <2>1, <2>3, <3>2, <3>4
    <3> QED
      BY <3>3, <3>4
  <2>5. CASE UNCHANGED watermark
    BY <2>3, <2>5
  <2>6. CASE \/ \E x \in reports : BeginReport(x)
             \/ \E e \in Canonicals, patch \in Patches : BeginPatch(e, patch)
             \/ \E w \in reading : CommitEvent(w)
             \/ \E w \in writing : CommitPatch(w)
             \/ Abort
             \/ UNCHANGED d1vars
    BY <2>5, <2>6 DEF BeginReport, BeginPatch, CommitEvent, CommitPatch,
                      Abort, d1vars, vars
  <2>7. CASE \/ \E x \in NewReport : ReceiveReport(x)
             \/ \E x \in reports : RejectReport(x) \/ LoseReport(x)
             \/ Prune
             \/ Tick
    BY <2>5, <2>7 DEF ReceiveReport, RejectReport, LoseReport, Prune, Tick
  <2> QED
    BY <1>1, <2>2, <2>4, <2>6, <2>7 DEF D1Next
<1>2. D1Inv /\ [D1Next]_d1vars =>
        [\A c \in Canonicals \ retired : \E d \in Canonicals \ retired' :
           /\ c \notin retired' => d = c
           /\ ~Later(watermark[c].started, watermark[c].session,
                     watermark'[d].started, watermark'[d].session)]_vars
  <2> SUFFICES ASSUME D1Inv, [D1Next]_d1vars, NEW c \in Canonicals
               PROVE  c \in Canonicals \ retired' /\ NotBack(c, c)
    OBVIOUS
  <2> QED
    BY <1>1
<1> QED
  BY <1>2, D1InvInit, D1InvNext, PTL DEF D1Spec, WatermarksAdvance
=============================================================================
