---------------------------- MODULE PlaybackFold ----------------------------
(***************************************************************************)
(* What the folding of playback reports promises: a canonical's user data  *)
(* is moved by the session that began last and by nobody else, a session   *)
(* ends at most once, and only an ending session counts a play. There are  *)
(* no clocks, revisions or watermarks here.                                *)
(***************************************************************************)
EXTENDS Naturals

CONSTANTS Sessions, Canonicals, Versions, NoCanonical, NoVersion, Runtime

VARIABLES
    data,     \* canonical -> user data
    playing,  \* session -> the canonical it plays, if it is known
    ended,    \* known sessions that have ended
    before    \* pairs of known sessions of one canonical, in order of beginning

vars == <<data, playing, ended, before>>

UserData == [played: BOOLEAN, favorite: BOOLEAN, count: Nat,
             position: 0 .. Runtime, version: Versions \cup {NoVersion}]

Unseen == [played |-> FALSE, favorite |-> FALSE, count |-> 0, position |-> 0,
           version |-> NoVersion]

Init ==
    /\ data = [c \in Canonicals |-> Unseen]
    /\ playing = [s \in Sessions |-> NoCanonical]
    /\ ended = {}
    /\ before = {}

On(c) == {s \in Sessions : playing[s] = c}

\* A position with its version, of an item that is not over.
Move(u, w) ==
    \E p \in 0 .. Runtime, v \in Versions :
        w = [u EXCEPT !.played = FALSE, !.position = p, !.version = v]

Count(u, w) ==
    \E v \in Versions :
        w = [u EXCEPT !.played = TRUE, !.position = 0, !.version = v,
                      !.count = u.count + 1]

Begin(s, c) ==
    /\ playing[s] = NoCanonical
    /\ playing' = [playing EXCEPT ![s] = c]
    /\ before' = before \cup {<<t, s>> : t \in On(c)}
    /\ Move(data[c], data'[c])
    /\ \A d \in Canonicals \ {c} : data'[d] = data[d]
    /\ UNCHANGED ended

Newest(s) == \A t \in Sessions : <<s, t>> \notin before

Current(s, c) ==
    /\ playing[s] = c
    /\ s \notin ended
    /\ Newest(s)
    /\ \A d \in Canonicals \ {c} : data'[d] = data[d]
    /\ UNCHANGED <<playing, before>>

Advance(s, c) ==
    /\ Current(s, c)
    /\ Move(data[c], data'[c])
    /\ UNCHANGED ended

End(s, c) ==
    /\ Current(s, c)
    /\ ended' = ended \cup {s}
    /\ Move(data[c], data'[c]) \/ Count(data[c], data'[c])

\* The user's own hand: everything but the number of plays, which can only be
\* taken back as a whole.
Override(c) ==
    /\ \E played, favorite \in BOOLEAN, p \in 0 .. Runtime,
          n \in {0, data[c].count} :
         data' = [data EXCEPT
                    ![c].played = played, ![c].favorite = favorite,
                    ![c].position = p, ![c].count = n]
    /\ UNCHANGED <<playing, ended, before>>

\* Two canonicals turn out to be one: one of the two data is kept, sessions
\* keep their order and are ordered with those of the other canonical.
Join(c, d) ==
    /\ c # d
    /\ \E u \in {data[c], data[d]} :
         data' = [data EXCEPT ![c] = u, ![d] = Unseen]
    /\ playing' = [s \in Sessions |-> IF playing[s] = d THEN c ELSE playing[s]]
    /\ before \subseteq before'
    /\ \A pair \in before' \ before :
         \/ pair[1] \in On(c) /\ pair[2] \in On(d)
         \/ pair[1] \in On(d) /\ pair[2] \in On(c)
    /\ \A s \in On(c), t \in On(d) : (<<s, t>> \in before') # (<<t, s>> \in before')
    /\ UNCHANGED ended

Forget(S) ==
    /\ playing' = [s \in Sessions |-> IF s \in S THEN NoCanonical ELSE playing[s]]
    /\ ended' = ended \ S
    /\ before' = {pair \in before : pair[1] \notin S /\ pair[2] \notin S}
    /\ UNCHANGED data

Next ==
    \/ \E s \in Sessions, c \in Canonicals :
         Begin(s, c) \/ Advance(s, c) \/ End(s, c)
    \/ \E c \in Canonicals : Override(c)
    \/ \E c, d \in Canonicals : Join(c, d)
    \/ \E S \in SUBSET Sessions : Forget(S)

Spec == Init /\ [][Next]_vars
=============================================================================
