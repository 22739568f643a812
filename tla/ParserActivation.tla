-------------------------- MODULE ParserActivation --------------------------
(***************************************************************************)
(* Manual activation of immutable parser releases for ONE portal, and the  *)
(* scraper-worker registry that gates it.                                  *)
(*                                                                         *)
(* Code: src/homefinder/parser_releases/__init__.py (register, activate,   *)
(* rollback, _change) and ScrapeQueueRepository.register_worker.  Every    *)
(* portal has its own pointer, audit rows and workers, so one portal is    *)
(* the whole component.                                                    *)
(*                                                                         *)
(* Time is the coordinator clock `now'.  An operation reads the clock      *)
(* before it waits for its row locks, so the time it works with is a       *)
(* member of Captured: the current time or one up to MaxDelay earlier.     *)
(***************************************************************************)
EXTENDS Naturals, Sequences

CONSTANTS
    Worker,         \* worker identities of the portal
    Nas,            \* those deployed on the NAS; the others run on the VPS
    Release,        \* content-addressed release hashes
    NoRelease,      \* "no pointer row" / SQL NULL
    Qualified,      \* releases for which the eligibility callable answers yes
    Capabilities,   \* sets of releases a worker build may advertise
    HealthWindow,   \* worker_health_seconds
    MaxDelay,       \* bound: age of a captured clock value
    MaxTime,        \* bound: last instant of a behaviour
    MaxEpoch        \* bound: number of pointer changes

ASSUME ActivationAssumption ==
    /\ Nas \subseteq Worker
    /\ NoRelease \notin Release
    /\ Qualified \subseteq Release
    /\ Capabilities \subseteq SUBSET Release
    /\ HealthWindow \in Nat
    /\ MaxDelay \in Nat
    /\ MaxTime \in Nat
    /\ MaxEpoch \in Nat

VARIABLES
    now,            \* the coordinator clock
    registered,     \* workers with a ScraperWorkerRecord
    heartbeatAt,    \* heartbeat_at of each worker row
    healthy,        \* healthy flag of each worker row
    advertised,     \* release_hashes_json of each worker row
    status,         \* ParserReleaseRecord.status, "absent" before register
    activeRelease,  \* PortalParserActivationRecord.release_hash
    activeEpoch,    \* PortalParserActivationRecord.activation_epoch, 0 if none
    audit,          \* ParserActivationAuditRecord rows in epoch order
    rollbackPlans   \* rollback calls between their read and their _change

workerVars == <<registered, heartbeatAt, healthy, advertised>>
releaseVars == <<status, activeRelease, activeEpoch, audit, rollbackPlans>>
activationVars == <<now, workerVars, releaseVars>>

Status == {"absent", "draft", "active", "retired", "revoked"}
AuditRow == [release : Release,
             previous : Release \cup {NoRelease},
             action : {"activate", "rollback"}]
RollbackPlan == [expected : Nat, target : Release]

(* Clock values an operation that commits at `now' may be working with.    *)
Captured == {at \in 0..now : now <= at + MaxDelay}

-----------------------------------------------------------------------------
(* Workers *)

(* The registry rows claim and _change accept: healthy and recently seen.  *)
Fresh(w, at) ==
    /\ w \in registered
    /\ healthy[w]
    /\ heartbeatAt[w] + HealthWindow > at

(* register_worker: upsert of the row; a heartbeat older than the stored   *)
(* one (a delayed request) is refused.                                     *)
RegisterWorker(w, caps, h, at) ==
    /\ w \in registered => heartbeatAt[w] <= at
    /\ registered' = registered \cup {w}
    /\ heartbeatAt' = [heartbeatAt EXCEPT ![w] = at]
    /\ healthy' = [healthy EXCEPT ![w] = h]
    /\ advertised' = [advertised EXCEPT ![w] = caps]
    /\ UNCHANGED <<now, releaseVars>>

-----------------------------------------------------------------------------
(* Releases *)

(* register: a new release starts as a draft; a known one is returned      *)
(* unchanged.                                                              *)
RegisterRelease(r) ==
    /\ status[r] = "absent"
    /\ status' = [status EXCEPT ![r] = "draft"]
    /\ UNCHANGED <<now, workerVars, activeRelease, activeEpoch, audit,
                   rollbackPlans>>

(* Releases the fresh workers of one deployment advertise together.        *)
CapabilityOf(deployment, at) ==
    UNION {advertised[w] : w \in {v \in deployment : Fresh(v, at)}}

(* "healthy NAS and VPS workers must advertise candidate and rollback".    *)
Covered(r, at) ==
    \A deployment \in {Nas, Worker \ Nas} :
        {r, activeRelease} \ {NoRelease} \subseteq CapabilityOf(deployment, at)

(* The gates of _change on the candidate row itself.                       *)
Admissible(r, action) ==
    /\ status[r] \notin {"absent", "revoked"}
    /\ action = "activate" => r \in Qualified

(* The status column after the pointer moves to r: the release that loses  *)
(* the pointer is revoked by a rollback and retired by an activation.      *)
Withdrawn(r, action) ==
    [s \in Release |->
        CASE s = r -> "active"
          [] s = activeRelease /\ s # r ->
                IF action = "rollback" THEN "revoked" ELSE "retired"
          [] OTHER -> status[s]]

ReactivationKeepsEpoch(r, at, action) ==
    /\ activeEpoch < MaxEpoch
    /\ Admissible(r, action)
    /\ Covered(r, at)
    /\ status' = Withdrawn(r, action)
    /\ activeRelease' = r
    /\ activeEpoch' = IF r = activeRelease THEN activeEpoch ELSE activeEpoch + 1
    /\ audit' = Append(audit, [release |-> r,
                               previous |-> activeRelease,
                               action |-> action])
    /\ UNCHANGED <<now, workerVars>>

(* _change: gates, pointer, statuses and audit row in one transaction that *)
(* holds the portal's source row.                                          *)
Change(r, at, action) ==
    /\ activeEpoch < MaxEpoch
    /\ Admissible(r, action)
    /\ Covered(r, at)
    /\ status' = Withdrawn(r, action)
    /\ activeRelease' = r
    /\ activeEpoch' = activeEpoch + 1
    /\ audit' = Append(audit, [release |-> r,
                               previous |-> activeRelease,
                               action |-> action])
    /\ UNCHANGED <<now, workerVars>>

(* activate: expected_epoch is optional and absent or current whenever the *)
(* change goes through, so it adds no guard.  The recovery tasks are       *)
(* planned after this transaction has committed: they appear as later      *)
(* enqueues of recovery tasks, or never, if the process stops first.       *)
Activate(r, at) ==
    /\ Change(r, at, "activate")
    /\ UNCHANGED rollbackPlans

(* Audit rows rollback selects from: the pointer's release, with a         *)
(* recorded predecessor.                                                   *)
PriorRows == {i \in DOMAIN audit : /\ audit[i].release = activeRelease
                                   /\ audit[i].previous # NoRelease}

(* The row rollback takes its target from: the newest of them.             *)
NewestPrior(i) == i \in PriorRows /\ \A j \in PriorRows : j <= i

(* rollback, first session: the operator names an epoch seen earlier and   *)
(* the target is read without any lock.                                    *)
RollbackRead(expected) ==
    /\ activeRelease # NoRelease
    /\ activeEpoch < MaxEpoch
    /\ \E i \in DOMAIN audit :
          /\ NewestPrior(i)
          /\ rollbackPlans' = rollbackPlans \cup
                {[expected |-> expected, target |-> audit[i].previous]}
    /\ UNCHANGED <<now, workerVars, status, activeRelease, activeEpoch, audit>>

RollbackAnyEpoch(plan, at) ==
    /\ Change(plan.target, at, "rollback")
    /\ rollbackPlans' = rollbackPlans \ {plan}

(* rollback, second session: _change with the mandatory expected epoch.    *)
RollbackChange(plan, at) ==
    /\ plan.expected = activeEpoch
    /\ Change(plan.target, at, "rollback")
    /\ rollbackPlans' = rollbackPlans \ {plan}

Tick ==
    /\ now < MaxTime
    /\ now' = now + 1
    /\ UNCHANGED <<workerVars, releaseVars>>

-----------------------------------------------------------------------------
ActivationInit ==
    /\ now = 0
    /\ registered = {}
    /\ heartbeatAt = [w \in Worker |-> 0]
    /\ healthy = [w \in Worker |-> FALSE]
    /\ advertised = [w \in Worker |-> {}]
    /\ status = [r \in Release |-> "absent"]
    /\ activeRelease = NoRelease
    /\ activeEpoch = 0
    /\ audit = <<>>
    /\ rollbackPlans = {}

ActivationNext ==
    \/ Tick
    \/ \E w \in Worker, caps \in Capabilities, h \in BOOLEAN, at \in Captured :
            RegisterWorker(w, caps, h, at)
    \/ \E r \in Release : RegisterRelease(r)
    \/ \E r \in Release, at \in Captured : Activate(r, at)
    \/ \E expected \in 0..activeEpoch : RollbackRead(expected)
    \/ \E plan \in rollbackPlans, at \in Captured : RollbackChange(plan, at)

ActivationSpec == ActivationInit /\ [][ActivationNext]_activationVars

-----------------------------------------------------------------------------
(* Types of the database rows and of the in-flight calls.                  *)
ActivationTypeOK ==
    /\ now \in Nat
    /\ registered \subseteq Worker
    /\ heartbeatAt \in [Worker -> Nat]
    /\ healthy \in [Worker -> BOOLEAN]
    /\ advertised \in [Worker -> SUBSET Release]
    /\ status \in [Release -> Status]
    /\ activeRelease \in Release \cup {NoRelease}
    /\ activeEpoch \in Nat
    /\ audit \in Seq(AuditRow)
    /\ rollbackPlans \subseteq RollbackPlan

(* The pointer and the audit trail never disagree, whatever interleaving   *)
(* of activations and two-session rollbacks produced them: one audit row   *)
(* per epoch, the newest row names the pointer, each row's predecessor is  *)
(* the release of the row before it (no lost update forks the history).    *)
PointerFollowsAudit ==
    /\ activeEpoch = Len(audit)
    /\ activeRelease = IF audit = <<>> THEN NoRelease
                                       ELSE audit[Len(audit)].release
    /\ \A i \in DOMAIN audit :
          audit[i].previous = IF i = 1 THEN NoRelease ELSE audit[i - 1].release

(* The status column of the releases agrees with the pointer: exactly the  *)
(* pointed-to release is active, and a release that ever held the pointer  *)
(* is active, retired or revoked, never a draft again.                     *)
StatusFollowsPointer ==
    /\ \A r \in Release : status[r] = "active" <=> r = activeRelease
    /\ \A i \in DOMAIN audit :
          status[audit[i].release] \in {"active", "retired", "revoked"}

(* A revoked release is revoked for ever: neither an activation nor a      *)
(* rollback that was planned before the revocation brings it back.         *)
RevokedForever ==
    [][\A r \in Release : status[r] = "revoked" => status'[r] = "revoked"]_activationVars

(* A rollback whose target was read in an earlier session commits only the *)
(* predecessor recorded for the release that holds the pointer at commit   *)
(* time: an activation between the two sessions makes it fail instead.     *)
RollbackTargetFresh ==
    [][(audit' # audit /\ audit'[Len(audit')].action = "rollback")
          => \E i \in DOMAIN audit : /\ NewestPrior(i)
                                     /\ activeRelease' = audit[i].previous]_activationVars

=============================================================================
