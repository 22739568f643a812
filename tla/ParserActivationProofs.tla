----------------------- MODULE ParserActivationProofs -----------------------
(***************************************************************************)
(* Proofs about ParserActivation for every number of workers, releases,    *)
(* epochs and every timing parameter.                                      *)
(*                                                                         *)
(* The pointer, the audit trail and the status column are mutually         *)
(* inductive (PointerFollowsAudit, StatusFollowsPointer).  That a rollback *)
(* planned in one session commits a fresh target needs one more fact about *)
(* the calls in flight, PlansFresh.                                        *)
(***************************************************************************)
EXTENDS ParserActivation, TLAPS

(* The calls in flight: an operator names an epoch that existed, and a     *)
(* plan that names the current epoch still names the newest predecessor.   *)
PlansFresh ==
    \A plan \in rollbackPlans :
        /\ plan.expected <= activeEpoch
        /\ plan.expected = activeEpoch =>
              \E i \in DOMAIN audit : NewestPrior(i) /\ plan.target = audit[i].previous

ActivationInv ==
    /\ ActivationTypeOK
    /\ PointerFollowsAudit
    /\ StatusFollowsPointer
    /\ PlansFresh

(* What a committed pointer change to r does, column by column.            *)
ChangeEffect(r, action) ==
    /\ now' = now
    /\ registered' = registered /\ heartbeatAt' = heartbeatAt
    /\ healthy' = healthy /\ advertised' = advertised
    /\ status' \in [Release -> Status]
    /\ status'[r] = "active"
    /\ \A s \in Release \ {r} :
          status'[s] = IF s = activeRelease
                       THEN IF action = "rollback" THEN "revoked" ELSE "retired"
                       ELSE status[s]
    /\ status[r] \notin {"absent", "revoked"}
    /\ activeRelease' = r
    /\ activeEpoch' = activeEpoch + 1
    /\ audit' \in Seq(AuditRow)
    /\ Len(audit') = Len(audit) + 1
    /\ \A i \in 1..Len(audit) : audit'[i] = audit[i]
    /\ audit'[Len(audit) + 1] = [release |-> r, previous |-> activeRelease,
                                 action |-> action]

(* _change has that effect, used by every proof below.                     *)
LEMMA ChangeFacts ==
    ASSUME ActivationTypeOK, NEW r \in Release, NEW at \in Captured,
           NEW action \in {"activate", "rollback"}, Change(r, at, action)
    PROVE  ChangeEffect(r, action)
  <1> DEFINE row == [release |-> r, previous |-> activeRelease, action |-> action]
  <1>1. row \in AuditRow
    BY DEF ActivationTypeOK, AuditRow
  <1>2. audit \in Seq(AuditRow) /\ audit' = Append(audit, row)
    BY DEF ActivationTypeOK, Change
  <1>3. /\ audit' \in Seq(AuditRow)
        /\ Len(audit') = Len(audit) + 1
        /\ \A i \in 1..Len(audit) : audit'[i] = audit[i]
        /\ audit'[Len(audit) + 1] = row
    BY <1>1, <1>2
  <1>4. status' \in [Release -> Status]
    BY DEF ActivationTypeOK, Change, Withdrawn, Status
  <1>5. status'[r] = "active"
    BY DEF Change, Withdrawn
  <1>6. \A s \in Release \ {r} :
           status'[s] = IF s = activeRelease
                        THEN IF action = "rollback" THEN "revoked" ELSE "retired"
                        ELSE status[s]
    BY DEF Change, Withdrawn
  <1>7. QED
    BY <1>3, <1>4, <1>5, <1>6 DEF ChangeEffect, Change, Admissible, workerVars

(* The pointer change keeps pointer, audit trail and statuses together.    *)
LEMMA ChangeInv ==
    ASSUME ActivationTypeOK, PointerFollowsAudit, StatusFollowsPointer,
           NEW r \in Release, NEW action \in {"activate", "rollback"},
           ChangeEffect(r, action)
    PROVE  PointerFollowsAudit' /\ StatusFollowsPointer'
  <1>0. audit \in Seq(AuditRow) /\ Len(audit) \in Nat /\ NoRelease \notin Release
    BY ActivationAssumption DEF ActivationTypeOK
  <1>1. PointerFollowsAudit'
    <2>1. activeEpoch' = Len(audit')
      BY DEF ChangeEffect, PointerFollowsAudit
    <2>2. activeRelease' = audit'[Len(audit')].release /\ audit' # <<>>
      BY <1>0 DEF ChangeEffect
    <2>3. ASSUME NEW i \in DOMAIN audit'
          PROVE  audit'[i].previous
                    = IF i = 1 THEN NoRelease ELSE audit'[i - 1].release
      <3>1. i \in 1..(Len(audit) + 1)
        BY <1>0, <2>3 DEF ChangeEffect
      <3>2. CASE i \in 1..Len(audit)
        BY <1>0, <3>2 DEF ChangeEffect, PointerFollowsAudit
      <3>3. CASE i = Len(audit) + 1
        <4>1. audit'[i].previous = activeRelease
          BY <3>3 DEF ChangeEffect
        <4>2. CASE Len(audit) = 0
          BY <1>0, <3>3, <4>1, <4>2 DEF PointerFollowsAudit
        <4>3. CASE Len(audit) > 0
          BY <1>0, <3>3, <4>1, <4>3 DEF ChangeEffect, PointerFollowsAudit
        <4>4. QED
          BY <1>0, <4>2, <4>3
      <3>4. QED
        BY <1>0, <3>1, <3>2, <3>3
    <2>4. QED
      BY <2>1, <2>2, <2>3 DEF PointerFollowsAudit
  <1>2. StatusFollowsPointer'
    <2>1. \A s \in Release : status'[s] = "active" <=> s = activeRelease'
      BY DEF ChangeEffect, StatusFollowsPointer
    <2>2. ASSUME NEW i \in DOMAIN audit'
          PROVE  status'[audit'[i].release] \in {"active", "retired", "revoked"}
      <3>1. i \in 1..(Len(audit) + 1)
        BY <1>0, <2>2 DEF ChangeEffect
      <3>2. CASE i \in 1..Len(audit)
        <4>0. audit[i] \in AuditRow
          BY <1>0, <3>2
        <4>1. audit'[i] = audit[i] /\ audit[i].release \in Release
          BY <1>0, <3>2, <4>0 DEF ChangeEffect, AuditRow
        <4>2. status[audit[i].release] \in {"active", "retired", "revoked"}
          BY <1>0, <3>2 DEF StatusFollowsPointer
        <4>3. QED
          BY <4>1, <4>2 DEF ChangeEffect
      <3>3. CASE i = Len(audit) + 1
        BY <3>3 DEF ChangeEffect
      <3>4. QED
        BY <1>0, <3>1, <3>2, <3>3
    <2>3. QED
      BY <2>1, <2>2 DEF StatusFollowsPointer
  <1>3. QED
    BY <1>1, <1>2

LEMMA InitInv == ActivationInit => ActivationInv
  BY ActivationAssumption
  DEF ActivationInit, ActivationInv, ActivationTypeOK, PointerFollowsAudit,
      StatusFollowsPointer, PlansFresh, Status, AuditRow, RollbackPlan

(* Steps that touch neither pointer, audit trail, statuses nor plans.      *)
LEMMA QuietInv ==
    ASSUME ActivationInv, UNCHANGED releaseVars, ActivationTypeOK'
    PROVE  ActivationInv'
  BY DEF ActivationInv, PointerFollowsAudit, StatusFollowsPointer, PlansFresh,
         NewestPrior, PriorRows, releaseVars

(* Every step preserves the invariant.                                     *)
LEMMA NextInv == ActivationInv /\ [ActivationNext]_activationVars => ActivationInv'
  <1> SUFFICES ASSUME ActivationInv, [ActivationNext]_activationVars
               PROVE  ActivationInv'
    OBVIOUS
  <1> USE DEF ActivationInv
  <1>1. CASE Tick
    <2>1. ActivationTypeOK'
      BY <1>1 DEF Tick, ActivationTypeOK, workerVars, releaseVars
    <2>2. QED
      BY <1>1, <2>1, QuietInv DEF Tick
  <1>2. ASSUME NEW w \in Worker, NEW caps \in Capabilities, NEW h \in BOOLEAN,
               NEW at \in Captured, RegisterWorker(w, caps, h, at)
        PROVE  ActivationInv'
    <2>1. at \in Nat /\ caps \in SUBSET Release
      BY <1>2, ActivationAssumption DEF Captured, ActivationTypeOK
    <2>2. ActivationTypeOK'
      BY <1>2, <2>1 DEF RegisterWorker, ActivationTypeOK, releaseVars
    <2>3. QED
      BY <1>2, <2>2, QuietInv DEF RegisterWorker
  <1>3. ASSUME NEW r \in Release, RegisterRelease(r)
        PROVE  ActivationInv'
    <2>1. ActivationTypeOK'
      BY <1>3 DEF RegisterRelease, ActivationTypeOK, Status, workerVars
    <2>2. PointerFollowsAudit' /\ PlansFresh'
      BY <1>3 DEF RegisterRelease, PointerFollowsAudit, PlansFresh, NewestPrior,
                  PriorRows
    <2>3. StatusFollowsPointer'
      <3>1. status[r] = "absent" /\ status' = [status EXCEPT ![r] = "draft"]
        BY <1>3 DEF RegisterRelease
      <3>2. r # activeRelease
        BY <3>1 DEF StatusFollowsPointer
      <3>3. \A i \in DOMAIN audit : audit[i].release # r
        BY <3>1 DEF StatusFollowsPointer
      <3>4. \A i \in DOMAIN audit : audit[i].release \in Release
        <4>1. \A i \in DOMAIN audit : audit[i] \in AuditRow
          BY DEF ActivationTypeOK
        <4>2. QED
          BY <4>1 DEF AuditRow
      <3>5. QED
        BY <1>3, <3>1, <3>2, <3>3, <3>4
        DEF RegisterRelease, StatusFollowsPointer, ActivationTypeOK
    <2>4. QED
      BY <2>1, <2>2, <2>3
  <1>4. ASSUME NEW r \in Release, NEW at \in Captured, Activate(r, at)
        PROVE  ActivationInv'
    <2>1. ChangeEffect(r, "activate") /\ rollbackPlans' = rollbackPlans
      BY <1>4, ChangeFacts DEF Activate
    <2>2. ActivationTypeOK'
      BY <2>1 DEF ChangeEffect, ActivationTypeOK
    <2>3. PointerFollowsAudit' /\ StatusFollowsPointer'
      BY <2>1, ChangeInv
    <2>4. PlansFresh'
      BY <2>1 DEF ChangeEffect, PlansFresh, ActivationTypeOK, RollbackPlan
    <2>5. QED
      BY <2>2, <2>3, <2>4
  <1>5. ASSUME NEW expected \in 0..activeEpoch, RollbackRead(expected)
        PROVE  ActivationInv'
    <2>1. PICK i \in DOMAIN audit :
             /\ NewestPrior(i)
             /\ rollbackPlans' = rollbackPlans \cup
                   {[expected |-> expected, target |-> audit[i].previous]}
      BY <1>5 DEF RollbackRead
    <2>2. audit[i].previous \in Release
      <3>1. audit[i] \in AuditRow
        BY <2>1 DEF ActivationTypeOK
      <3>2. QED
        BY <2>1, <3>1 DEF NewestPrior, PriorRows, AuditRow
    <2>3. expected \in Nat /\ expected <= activeEpoch
      BY DEF ActivationTypeOK
    <2>4. ActivationTypeOK'
      BY <1>5, <2>1, <2>2, <2>3
      DEF RollbackRead, ActivationTypeOK, RollbackPlan, workerVars
    <2>5. PointerFollowsAudit' /\ StatusFollowsPointer'
      BY <1>5 DEF RollbackRead, PointerFollowsAudit, StatusFollowsPointer
    <2>6. PlansFresh'
      <3>1. activeEpoch' = activeEpoch /\ audit' = audit
              /\ \A j \in DOMAIN audit : NewestPrior(j)' <=> NewestPrior(j)
        BY <1>5 DEF RollbackRead, NewestPrior, PriorRows
      <3>2. QED
        BY <2>1, <2>3, <3>1 DEF PlansFresh
    <2>7. QED
      BY <2>4, <2>5, <2>6
  <1>6. ASSUME NEW plan \in rollbackPlans, NEW at \in Captured,
               RollbackChange(plan, at)
        PROVE  ActivationInv'
    <2>0. plan.target \in Release
      BY <1>6 DEF ActivationTypeOK, RollbackPlan
    <2>1. /\ ChangeEffect(plan.target, "rollback")
          /\ rollbackPlans' = rollbackPlans \ {plan}
          /\ plan.target \in Release
      BY <1>6, <2>0, ChangeFacts DEF RollbackChange
    <2>2. ActivationTypeOK'
      BY <2>1 DEF ChangeEffect, ActivationTypeOK
    <2>3. PointerFollowsAudit' /\ StatusFollowsPointer'
      BY <2>1, ChangeInv
    <2>4. PlansFresh'
      BY <2>1 DEF ChangeEffect, PlansFresh, ActivationTypeOK, RollbackPlan
    <2>5. QED
      BY <2>2, <2>3, <2>4
  <1>7. CASE UNCHANGED activationVars
    <2>1. ActivationTypeOK'
      BY <1>7 DEF activationVars, ActivationTypeOK, workerVars, releaseVars
    <2>2. QED
      BY <1>7, <2>1, QuietInv DEF activationVars
  <1>8. QED
    BY <1>1, <1>2, <1>3, <1>4, <1>5, <1>6, <1>7 DEF ActivationNext

(* Types, pointer/audit agreement and status/pointer agreement hold in     *)
(* every reachable state of parser_releases.                               *)
THEOREM ActivationInvariant == ActivationSpec => []ActivationInv
  BY InitInv, NextInv, PTL DEF ActivationSpec

(* The audit trail of _change is the pointer's exact, unforked history.    *)
THEOREM PointerFollowsAuditAlways == ActivationSpec => []PointerFollowsAudit
  <1>1. ActivationInv => PointerFollowsAudit
    BY DEF ActivationInv
  <1>2. QED
    BY <1>1, ActivationInvariant, PTL

(* A revocation is permanent under any interleaving of activations and     *)
(* rollbacks planned before it.                                            *)
THEOREM RevokedForeverAlways == ActivationSpec => RevokedForever
  <1> DEFINE Keeps == \A r \in Release : status[r] = "revoked" => status'[r] = "revoked"
  <1>1. ActivationInv /\ [ActivationNext]_activationVars => [Keeps]_activationVars
    <2> SUFFICES ASSUME ActivationInv, ActivationNext PROVE Keeps
      OBVIOUS
    <2>1. CASE status' = status
      BY <2>1
    <2>2. ASSUME NEW r \in Release, RegisterRelease(r) PROVE Keeps
      BY <2>2 DEF RegisterRelease, ActivationInv, ActivationTypeOK
    <2>3. ASSUME NEW r \in Release, NEW at \in Captured,
                 NEW action \in {"activate", "rollback"}, Change(r, at, action)
          PROVE  Keeps
      <3>1. ChangeEffect(r, action)
        BY <2>3, ChangeFacts DEF ActivationInv
      <3>2. QED
        BY <3>1 DEF ChangeEffect, ActivationInv, StatusFollowsPointer
    <2>4. \A plan \in rollbackPlans : plan.target \in Release
      BY DEF ActivationInv, ActivationTypeOK, RollbackPlan
    <2>5. QED
      BY <2>1, <2>2, <2>3, <2>4
      DEF ActivationNext, Tick, RegisterWorker, Activate, RollbackRead,
          RollbackChange, releaseVars
  <1>2. QED
    BY <1>1, ActivationInvariant, PTL DEF ActivationSpec, RevokedForever

(* A rollback never commits a target read for a pointer that has moved.    *)
THEOREM RollbackTargetFreshAlways == ActivationSpec => RollbackTargetFresh
  <1> DEFINE FreshTarget ==
        (audit' # audit /\ audit'[Len(audit')].action = "rollback")
          => \E i \in DOMAIN audit : /\ NewestPrior(i)
                                     /\ activeRelease' = audit[i].previous
  <1>1. ActivationInv /\ [ActivationNext]_activationVars
           => [FreshTarget]_activationVars
    <2> SUFFICES ASSUME ActivationInv, ActivationNext PROVE FreshTarget
      OBVIOUS
    <2>1. CASE audit' = audit
      BY <2>1
    <2>2. ASSUME NEW r \in Release, NEW at \in Captured, Activate(r, at)
          PROVE  FreshTarget
      <3>0. ChangeEffect(r, "activate")
        BY <2>2, ChangeFacts DEF Activate, ActivationInv
      <3>1. audit'[Len(audit')].action = "activate"
        BY <3>0 DEF ChangeEffect
      <3>2. QED
        BY <3>1
    <2>3. ASSUME NEW plan \in rollbackPlans, NEW at \in Captured,
                 RollbackChange(plan, at)
          PROVE  FreshTarget
      <3>1. activeRelease' = plan.target
        BY <2>3 DEF RollbackChange, Change
      <3>2. \E i \in DOMAIN audit : NewestPrior(i) /\ plan.target = audit[i].previous
        BY <2>3 DEF RollbackChange, ActivationInv, PlansFresh
      <3>3. QED
        BY <3>1, <3>2
    <2>4. QED
      BY <2>1, <2>2, <2>3
      DEF ActivationNext, Tick, RegisterWorker, RegisterRelease, RollbackRead,
          releaseVars
  <1>2. QED
    BY <1>1, ActivationInvariant, PTL DEF ActivationSpec, RollbackTargetFresh

=============================================================================
