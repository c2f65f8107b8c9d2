---------------------------- MODULE MCOutboxLive ----------------------------
(***************************************************************************)
(* The fair runs of the outbox under one kind of trouble at a time: a      *)
(* process that dies, or servers and bindings that are edited. Under both  *)
(* at once the write of a dead process may outlive every trace of it (the  *)
(* run outbox_cancelled_then_died).                                        *)
(***************************************************************************)
EXTENDS MCOutbox

VARIABLE trouble

LiveNext ==
    /\ UNCHANGED trouble
    /\ \/ LocalStep
       \/ EnvironmentStep
       \/ \E s \in Servers : AuthenticateServer(s)
       \/ \E r \in Runs : \/ RunMaintenanceBatch(r)
                          \/ ClaimOutboxTargets(r)
                          \/ \E i \in Items : FiberStep(r, i)
       \/ trouble = "deaths" /\ \E r \in Runs : StopRun(r)
       \/ trouble = "edits" /\ ConfigurationStep

LiveSpec ==
    /\ Init /\ trouble \in {"deaths", "edits"}
    /\ [][LiveNext]_<<vars, trouble>>
    /\ Fairness
=============================================================================
