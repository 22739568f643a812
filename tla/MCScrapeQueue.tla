--------------------------- MODULE MCScrapeQueue ---------------------------
(***************************************************************************)
(* Instances of ScrapeQueue with the redirects of RedirectHandoff.         *)
(* ReadyInit is the state the portal is in once both workers have          *)
(* advertised, both releases are registered and r1 has been activated, all *)
(* at time 0.  QuietNext leaves out later worker reports, so that deep     *)
(* interleavings of leases and activations fit; the run of ScratchSpec     *)
(* keeps them.  A rollback that names an older epoch is always refused, so *)
(* QuietNext plans only those that name the current one.                   *)
(***************************************************************************)
EXTENDS RedirectHandoff, TLC

CONSTANTS nas, vps, r1, r2, t1, t2, c1, x1, x2, MaxLeases

MCWorker == {nas, vps}
MCNas == {nas}
MCRelease == {r1, r2}
MCQualified == {r1, r2}
MCCapabilities == {{r1, r2}}
MCOneTask == {t1}
MCTwoTasks == {t1, t2}
MCLive == t1 :> "live"
MCReplayDiscovery == t1 :> "artifact_recovery" @@ t2 :> "discovery_capture"
MCContent == {c1}
MCTarget == {x1, x2}

ReadyInit ==
    /\ QueueInit
    /\ handoffs = {}
    /\ now = 0
    /\ registered = Worker
    /\ heartbeatAt = [w \in Worker |-> 0]
    /\ healthy = [w \in Worker |-> TRUE]
    /\ advertised = [w \in Worker |-> Release]
    /\ status = [r \in Release |-> IF r = r1 THEN "active" ELSE "draft"]
    /\ activeRelease = r1
    /\ activeEpoch = 1
    /\ audit = <<[release |-> r1, previous |-> NoRelease, action |-> "activate"]>>
    /\ rollbackPlans = {}

QuietActivation ==
    \/ Tick
    \/ \E r \in Release, at \in Captured : Activate(r, at)
    \/ RollbackRead(activeEpoch)
    \/ \E plan \in rollbackPlans, at \in Captured : RollbackChange(plan, at)

QuietNext ==
    /\ \/ QuietActivation /\ UNCHANGED queueVars
       \/ EnqueueStep \/ ClaimStep \/ CompleteStep \/ FinishStep \/ DeferStep
    /\ UNCHANGED handoffs

QuietSpec == ReadyInit /\ [][QuietNext]_redirectVars

(* From an empty database, redirects included; MaxLeases bounds the claims *)
(* of both tasks together.                                                 *)
ScratchNext == RedirectNext /\ Cardinality(granted') <= MaxLeases
ScratchSpec == RedirectInit /\ [][ScratchNext]_redirectVars

=============================================================================
