------------------------- MODULE MCParserActivation -------------------------
(* Small instances of ParserActivation and ParserRecovery.                 *)
(*                                                                         *)
(* scope "registry": one worker per deployment and three releases, from an *)
(* empty database, so that a rollback can be planned, overtaken and        *)
(* repeated; nothing is scraped.                                           *)
(* scope "recovery": two releases, the first active with both workers up,  *)
(* and at most MaxEvents events of capture, replay, batch and activation.  *)
EXTENDS ParserRecovery

CONSTANTS nas, vps, r1, r2, r3, LastRecovery, MaxEvents

VARIABLE scope

MCWorker == {nas, vps}
MCNas == {nas}
MCRelease == {r1, r2, r3}
MCCapabilities == {MCRelease}
MCBatchSizes == <<1>>

(* Register, register_worker and activate have run for r1 and r2.          *)
FirstReleaseActive ==
    /\ now = 0
    /\ registered = Worker
    /\ heartbeatAt = [w \in Worker |-> 0]
    /\ healthy = [w \in Worker |-> TRUE]
    /\ advertised = [w \in Worker |-> Release]
    /\ status = [r \in Release |-> CASE r = r1 -> "active"
                                     [] r = r2 -> "draft"
                                     [] OTHER -> "absent"]
    /\ activeRelease = r1
    /\ activeEpoch = 1
    /\ audit = <<[release |-> r1, previous |-> NoRelease, action |-> "activate"]>>
    /\ rollbackPlans = {}

Total(f) == FoldFunction(+, 0, f)

(* Bound on what happens in scope "recovery".                              *)
Events == Len(parsed) + Len(network) + Len(batches) + Cardinality(replays)
            + Total(snapshots) + activeEpoch
WithinBounds == now <= LastRecovery /\ Events <= MaxEvents

MCInit ==
    /\ RecoveryInit
    /\ \/ scope = "registry" /\ ActivationInit
       \/ scope = "recovery" /\ FirstReleaseActive

MCNext ==
    /\ UNCHANGED scope
    /\ \/ scope = "registry" /\ RegistryNext
       \/ scope = "recovery" /\ RecoveryNext /\ WithinBounds'

MCSpec == MCInit /\ [][MCNext]_<<recoverySystem, scope>>

=============================================================================
