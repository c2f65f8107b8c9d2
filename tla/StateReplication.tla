-------------------------- MODULE StateReplication --------------------------
(***************************************************************************)
(* What the outbox promises for every target, whatever runs, leases and    *)
(* lost answers happen: the local side decides what the target should      *)
(* hold, writes travel without order or deadline, and the local side may   *)
(* call a target settled only when the target holds the wanted value and   *)
(* no write of another value is still on its way.                          *)
(***************************************************************************)
CONSTANTS Targets, Values

VARIABLE target  \* target -> what is wanted, held, under way, and settled

Target == [wanted: Values, held: Values, pending: SUBSET Values,
           settled: BOOLEAN]

Init == target \in [Targets -> {t \in Target : t.pending = {} /\ ~t.settled}]

\* A new value is wanted; the target is not settled with it.
Want(t, u) == \E v \in Values : u = [t EXCEPT !.wanted = v, !.settled = FALSE]

\* Only the wanted value is ever put under way.
Send(t, u) == u = [t EXCEPT !.pending = t.pending \cup {t.wanted}]

\* A write under way arrives; an equal one may still follow.
Arrive(t, u) ==
    \E v \in t.pending, left \in SUBSET t.pending :
        /\ t.pending \ {v} \subseteq left
        /\ u = [t EXCEPT !.held = v, !.pending = left]

Lose(t, u) ==
    \E lost \in SUBSET t.pending : u = [t EXCEPT !.pending = t.pending \ lost]

Settle(t, u) ==
    /\ t.held = t.wanted
    /\ t.pending \subseteq {t.wanted}
    /\ u = [t EXCEPT !.settled = TRUE]

Doubt(t, u) == u = [t EXCEPT !.settled = FALSE]

Step(t, u) ==
    \/ u = t
    \/ Want(t, u)
    \/ Send(t, u)
    \/ Arrive(t, u)
    \/ Lose(t, u)
    \/ Settle(t, u)
    \/ Doubt(t, u)

Next ==
    /\ DOMAIN target' = Targets
    /\ \A i \in Targets : \E t \in {target[i]}, u \in {target'[i]} : Step(t, u)

Spec == Init /\ [][Next]_target
=============================================================================
