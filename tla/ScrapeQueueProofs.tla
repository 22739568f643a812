------------------------- MODULE ScrapeQueueProofs -------------------------
(***************************************************************************)
(* Proofs about ScrapeQueue for every set of tasks, workers and releases   *)
(* and every policy.                                                       *)
(*                                                                         *)
(* The inductive invariant QueueInv joins the invariant of the activation  *)
(* (a result is stamped with an epoch of its audit trail) with the task    *)
(* rows' types, the attempt ledger (a lease that passes _leased belongs to *)
(* the newest, open attempt), the retry budget, the lease window, and what *)
(* is known of stored and acknowledged results.                            *)
(* What a step may never do follows from it: every step leaves a task      *)
(* alone, claims it, reaps it or acts on it through _leased (TaskStep).    *)
(* The redirect handoff, which checks less, keeps the same invariant.      *)
(***************************************************************************)
EXTENDS RedirectHandoff, ParserActivationProofs

-----------------------------------------------------------------------------
(* Types *)

LEMMA QueueInitType == QueueInit => QueueTypeOK
  BY QueueAssumption
  DEF QueueInit, QueueTypeOK, TaskState, LeaseColumns, NoLease, AttemptRow,
      NoAttempt, Outcome, ResultRow, NoResult, AttemptNumber

(* Facts about the granted leases a client may present.                    *)
LEMMA GrantedType ==
    ASSUME QueueTypeOK, NEW l \in granted
    PROVE  /\ l.task \in Task /\ l.owner \in Worker /\ l.token \in Nat
           /\ l.attempt \in AttemptNumber /\ l.release \in Release /\ l.epoch \in Nat
  BY DEF QueueTypeOK, ScrapeLease

(* Closing an attempt changes nothing of its rows but an outcome.          *)
LEMMA CloseAttemptType ==
    ASSUME QueueTypeOK, NEW t \in Task, NEW o \in Outcome
    PROVE  /\ CloseAttempt(t, o) \in [AttemptNumber -> AttemptRow]
           /\ \A n \in AttemptNumber :
                 CloseAttempt(t, o)[n] =
                    IF n = attemptCount[t] THEN [attempts[t][n] EXCEPT !.outcome = o]
                                           ELSE attempts[t][n]
  <1>1. attempts[t] \in [AttemptNumber -> AttemptRow]
    BY DEF QueueTypeOK
  <1>2. \A n \in AttemptNumber : [attempts[t][n] EXCEPT !.outcome = o] \in AttemptRow
    BY <1>1 DEF AttemptRow
  <1>3. QED
    BY <1>1, <1>2 DEF CloseAttempt

LEMMA CloseType ==
    ASSUME QueueTypeOK, NEW t \in Task,
           NEW o \in {"succeeded", "failed", "deferred"}, Close(t, o)
    PROVE  /\ taskState' \in [Task -> TaskState]
           /\ attemptCount' \in [Task -> 0..MaxAttempts]
           /\ lease' \in [Task -> LeaseColumns]
           /\ taskRelease' \in [Task -> Release \cup {NoRelease}]
           /\ taskEpoch' \in [Task -> Nat]
           /\ attempts' \in [Task -> [AttemptNumber -> AttemptRow]]
           /\ claims' \in [Task -> Nat]
           /\ claimAt' \in [Worker -> SUBSET Nat]
           /\ canary' \subseteq Release
           /\ granted' \subseteq ScrapeLease
  <1>1. CloseAttempt(t, o) \in [AttemptNumber -> AttemptRow]
    BY CloseAttemptType DEF Outcome
  <1>2. NoLease \in LeaseColumns
    BY DEF NoLease, LeaseColumns
  <1>3. o \in TaskState
    BY DEF TaskState
  <1>4. QED
    BY <1>1, <1>2, <1>3 DEF Close, QueueTypeOK

LEMMA CaptureType ==
    ASSUME QueueTypeOK, NEW l \in granted, NEW c \in Content, NEW f \in Nat
    PROVE  /\ Capture(l, c, f) \in ResultRow
           /\ [task |-> l.task, content |-> c, fetchedAt |-> f]
                 \in [task : Task, content : Content, fetchedAt : Nat]
  BY GrantedType DEF Capture, ResultRow

(* Every queue operation keeps the types of its rows.                      *)
LEMMA EnqueueStepType ==
    ASSUME TypeOK, EnqueueStep
    PROVE  QueueTypeOK'
  <1>1. ASSUME NEW t \in Task, NEW at \in Captured, Enqueue(t, at)
        PROVE  QueueTypeOK'
    <2>1. at \in Nat
      BY DEF Captured, TypeOK, ActivationTypeOK
    <2>2. QED
      BY <1>1, <2>1 DEF Enqueue, TypeOK, QueueTypeOK, ActivationTypeOK, TaskState
  <1>2. ASSUME NEW r \in Release, StartCanary(r)
        PROVE  QueueTypeOK'
    BY <1>2 DEF StartCanary, TypeOK, QueueTypeOK, taskVars
  <1>3. ASSUME NEW t \in Task, NEW r \in Release, NEW at \in Captured,
               EnqueueDiscovery(t, r, at)
        PROVE  QueueTypeOK'
    <2>1. at \in Nat
      BY DEF Captured, TypeOK, ActivationTypeOK
    <2>2. QED
      BY <1>3, <2>1 DEF EnqueueDiscovery, TypeOK, QueueTypeOK, TaskState
  <1>4. QED
    BY <1>1, <1>2, <1>3 DEF EnqueueStep

LEMMA ClaimStepType ==
    ASSUME TypeOK, ClaimStep
    PROVE  QueueTypeOK'
  <1>1. ASSUME NEW w \in Worker, NEW batch \in SUBSET Expired, ClaimReap(w, batch)
        PROVE  QueueTypeOK'
    <2>1. \A t \in Task : CloseAttempt(t, "lease-expired")
                              \in [AttemptNumber -> AttemptRow]
      BY CloseAttemptType DEF Outcome, TypeOK
    <2>2. NoLease \in LeaseColumns
      BY DEF NoLease, LeaseColumns
    <2>3. \A t \in Task : ReapedState(t) \in TaskState
      BY DEF ReapedState, TaskState
    <2>4. now \in Nat
      BY DEF TypeOK, ActivationTypeOK
    <2>5. /\ taskState' \in [Task -> TaskState]
          /\ availableAt' \in [Task -> Nat]
          /\ lease' \in [Task -> LeaseColumns]
          /\ attempts' \in [Task -> [AttemptNumber -> AttemptRow]]
          /\ claimAt' \in [Worker -> SUBSET Nat]
      BY <1>1, <2>1, <2>2, <2>3, <2>4 DEF ClaimReap, TypeOK, QueueTypeOK
    <2>6. QED
      BY <1>1, <2>5 DEF ClaimReap, TypeOK, QueueTypeOK
  <1>2. ASSUME NEW w \in Worker, NEW t \in Task, NEW locked \in LockedRows,
               NEW classes \in ClaimRoutes(w), ClaimTask(w, t, classes, locked)
        PROVE  QueueTypeOK'
    <2>1. attemptCount[t] \in 0..MaxAttempts /\ attemptCount[t] < MaxAttempts
      BY <1>2 DEF ClaimTask, Eligible, TypeOK, QueueTypeOK
    <2>2. attemptCount[t] + 1 \in AttemptNumber /\ attemptCount[t] + 1 \in 0..MaxAttempts
      BY <2>1, QueueAssumption DEF AttemptNumber
    <2>3. BoundRelease(t) \in Release /\ BoundEpoch(t) \in Nat
      BY <1>2 DEF ClaimTask, BoundEpoch, TypeOK, QueueTypeOK, ActivationTypeOK
    <2>4. now \in Nat /\ claims[t] \in Nat
      BY DEF TypeOK, QueueTypeOK, ActivationTypeOK
    <2>5. /\ taskState' \in [Task -> TaskState]
          /\ availableAt' \in [Task -> Nat]
          /\ attemptCount' \in [Task -> 0..MaxAttempts]
          /\ taskRelease' \in [Task -> Release \cup {NoRelease}]
          /\ taskEpoch' \in [Task -> Nat]
          /\ claims' \in [Task -> Nat]
          /\ claimAt' \in [Worker -> SUBSET Nat]
      BY <1>2, <2>2, <2>3, <2>4 DEF ClaimTask, TypeOK, QueueTypeOK, TaskState
    <2>6. lease' \in [Task -> LeaseColumns]
      BY <1>2, <2>4, QueueAssumption DEF ClaimTask, TypeOK, QueueTypeOK, LeaseColumns
    <2>7. attempts' \in [Task -> [AttemptNumber -> AttemptRow]]
      <3> DEFINE row == [token |-> claims[t] + 1, owner |-> w,
                         release |-> BoundRelease(t), epoch |-> BoundEpoch(t),
                         started |-> now, outcome |-> "open"]
      <3>1. row \in AttemptRow
        BY <2>3, <2>4 DEF AttemptRow, Outcome
      <3>2. attempts' = [attempts EXCEPT ![t][attemptCount[t] + 1] = row]
        BY <1>2 DEF ClaimTask
      <3> HIDE DEF row
      <3>3. QED
        BY <3>1, <3>2, <2>2 DEF TypeOK, QueueTypeOK
    <2>8. granted' \subseteq ScrapeLease
      BY <1>2, <2>2, <2>3, <2>4 DEF ClaimTask, TypeOK, QueueTypeOK, ScrapeLease
    <2>9. QED
      BY <1>2, <2>5, <2>6, <2>7, <2>8 DEF ClaimTask, TypeOK, QueueTypeOK
  <1>3. ASSUME NEW w \in Worker, ClaimNothing(w)
        PROVE  QueueTypeOK'
    BY <1>3 DEF ClaimNothing, TypeOK, QueueTypeOK, taskVars
  <1>4. QED
    BY <1>1, <1>2, <1>3 DEF ClaimStep

LEMMA CompleteStepType ==
    ASSUME TypeOK, CompleteStep
    PROVE  QueueTypeOK'
  <1> USE DEF TypeOK
  <1>1. ASSUME NEW l \in granted, NEW c \in Content, NEW f \in 0..now,
               Complete(l, c, f)
        PROVE  QueueTypeOK'
    <2>1. l.task \in Task /\ f \in Nat
      BY GrantedType DEF ActivationTypeOK
    <2>2. QED
      BY <1>1, <2>1, CloseType, CaptureType DEF Complete, QueueTypeOK
  <1>2. ASSUME NEW l \in granted, NEW c \in Content, NEW f \in 0..now,
               CompleteAgain(l, c, f)
        PROVE  QueueTypeOK'
    <2>1. f \in Nat
      BY DEF ActivationTypeOK
    <2>2. QED
      BY <1>2, <2>1, CaptureType DEF CompleteAgain, QueueTypeOK, taskVars
  <1>3. ASSUME NEW l \in granted, NEW c \in Content, CompleteArtifactReplay(l, c)
        PROVE  QueueTypeOK'
    <2>1. l.task \in Task
      BY GrantedType
    <2>2. QED
      BY <1>3, <2>1, CloseType, CaptureType DEF CompleteArtifactReplay, QueueTypeOK
  <1>4. QED
    BY <1>1, <1>2, <1>3 DEF CompleteStep

LEMMA FinishStepType ==
    ASSUME TypeOK, FinishStep
    PROVE  QueueTypeOK'
  <1> USE DEF TypeOK
  <1>1. ASSUME NEW l \in granted, Heartbeat(l)
        PROVE  QueueTypeOK'
    <2>1. l.task \in Task /\ lease[l.task] \in LeaseColumns
      BY GrantedType DEF QueueTypeOK
    <2>2. Renewed(l.task) \in Nat
      <3>1. lease[l.task].started \in Nat /\ now \in Nat
        BY <2>1 DEF LeaseColumns, ActivationTypeOK
      <3>2. QED
        BY <3>1, QueueAssumption DEF Renewed, Smaller
    <2>3. lease' \in [Task -> LeaseColumns]
      <3>1. [lease[l.task] EXCEPT !.expires = Renewed(l.task)] \in LeaseColumns
        BY <2>1, <2>2 DEF LeaseColumns
      <3>2. lease \in [Task -> LeaseColumns]
        BY DEF QueueTypeOK
      <3>3. lease' = [lease EXCEPT ![l.task] =
                         [lease[l.task] EXCEPT !.expires = Renewed(l.task)]]
        BY <1>1 DEF Heartbeat
      <3>4. QED
        BY <2>1, <3>1, <3>2, <3>3
    <2>4. QED
      BY <1>1, <2>3 DEF Heartbeat, QueueTypeOK
  <1>2. ASSUME NEW l \in granted, Succeed(l)
        PROVE  QueueTypeOK'
    BY <1>2, GrantedType, CloseType DEF Succeed, QueueTypeOK
  <1>3. ASSUME NEW l \in granted, FailRetry(l)
        PROVE  QueueTypeOK'
    <2>1. availableAt' \in [Task -> Nat]
      <3>1. availableAt \in [Task -> Nat] /\ now \in Nat /\ l.task \in Task
        BY GrantedType DEF QueueTypeOK, ActivationTypeOK
      <3>2. PICK delay \in 0..RetryCap :
               availableAt' = [availableAt EXCEPT ![l.task] = now + delay]
        BY <1>3 DEF FailRetry
      <3>3. now + delay \in Nat
        BY <3>1, QueueAssumption
      <3>4. QED
        BY <3>1, <3>2, <3>3
    <2>2. QED
      BY <1>3, <2>1, GrantedType, CloseType DEF FailRetry, QueueTypeOK
  <1>4. ASSUME NEW l \in granted, NEW code, Fail(l, code)
        PROVE  QueueTypeOK'
    BY <1>4, GrantedType, CloseType DEF Fail, QueueTypeOK
  <1>5. QED
    BY <1>1, <1>2, <1>3, <1>4 DEF FinishStep

(* A deferral keeps the rows well typed, whatever deadline it carries.     *)
LEMMA DeferType ==
    ASSUME TypeOK, NEW l \in granted, NEW until \in Nat,
           Defer(l, until) \/ DeferBudget(l, until)
    PROVE  QueueTypeOK'
  <1> USE DEF TypeOK
  <1>0. l.task \in Task
    BY GrantedType
  <1>1. CASE Defer(l, until)
    <2>2. PICK o \in {"deferred", "failed"} : Close(l.task, o)
      BY <1>1 DEF Defer
    <2>3. availableAt' \in [Task -> Nat] /\ accepted' = accepted /\ acked' = acked
      BY <1>1, <1>0 DEF Defer, QueueTypeOK
    <2>4. QED
      BY <1>0, <2>2, <2>3, CloseType DEF QueueTypeOK
  <1>2. CASE DeferBudget(l, until)
    <2>2. /\ attemptCount[l.task] = l.attempt
          /\ l.attempt \in AttemptNumber
      BY <1>2, GrantedType DEF DeferBudget, Leased
    <2>3. attemptCount[l.task] - 1 \in 0..MaxAttempts
      BY <2>2, QueueAssumption DEF AttemptNumber
    <2>4. NoAttempt \in AttemptRow /\ NoLease \in LeaseColumns
      BY DEF NoAttempt, AttemptRow, Outcome, NoLease, LeaseColumns
    <2>5. Refunded(l.task) \in [AttemptNumber -> AttemptRow]
      BY <1>0, <2>4 DEF Refunded, QueueTypeOK
    <2>6. QED
      BY <1>2, <1>0, <2>3, <2>4, <2>5 DEF DeferBudget, QueueTypeOK, TaskState
  <1>3. QED
    BY <1>1, <1>2

LEMMA DeferStepType ==
    ASSUME TypeOK, DeferStep
    PROVE  QueueTypeOK'
  <1>1. Deadline \subseteq Nat
    BY ActivationAssumption DEF Deadline
  <1>2. QED
    BY <1>1, DeferType DEF DeferStep

(* Every step of the composed system keeps every row well typed.           *)
LEMMA NextType ==
    ASSUME ActivationInv, QueueTypeOK, [Next]_vars
    PROVE  QueueTypeOK'
  <1>1. TypeOK
    BY DEF TypeOK, ActivationInv
  <1>2. CASE UNCHANGED queueVars
    BY <1>2 DEF queueVars, taskVars, QueueTypeOK
  <1>3. CASE EnqueueStep \/ ClaimStep \/ CompleteStep \/ FinishStep \/ DeferStep
    BY <1>1, <1>3, EnqueueStepType, ClaimStepType, CompleteStepType,
       FinishStepType, DeferStepType
  <1>4. \/ UNCHANGED queueVars
        \/ EnqueueStep \/ ClaimStep \/ CompleteStep \/ FinishStep \/ DeferStep
    BY Zenon DEF Next, vars
  <1>5. QED
    BY <1>2, <1>3, <1>4

(* Seen from the activation, a queue step is a stutter.                    *)
LEMMA QueueStutters ==
    ASSUME EnqueueStep \/ ClaimStep \/ CompleteStep \/ FinishStep \/ DeferStep
    PROVE  UNCHANGED activationVars
  <1>1. CASE EnqueueStep
    BY <1>1 DEF EnqueueStep, Enqueue, StartCanary, EnqueueDiscovery
  <1>2. CASE ClaimStep
    <2>1. ASSUME NEW w, NEW batch, ClaimReap(w, batch) PROVE UNCHANGED activationVars
      BY <2>1 DEF ClaimReap
    <2>2. ASSUME NEW w, NEW t, NEW classes, NEW locked, ClaimTask(w, t, classes, locked)
          PROVE  UNCHANGED activationVars
      BY <2>2 DEF ClaimTask
    <2>3. ASSUME NEW w, ClaimNothing(w) PROVE UNCHANGED activationVars
      BY <2>3 DEF ClaimNothing
    <2>4. QED
      BY <1>2, <2>1, <2>2, <2>3 DEF ClaimStep
  <1>3. CASE CompleteStep
    BY <1>3 DEF CompleteStep, Complete, CompleteAgain, CompleteArtifactReplay, Close
  <1>4. CASE FinishStep
    BY <1>4 DEF FinishStep, Heartbeat, Succeed, FailRetry, Fail, Close
  <1>5. CASE DeferStep
    BY <1>5 DEF DeferStep, Defer, DeferBudget, Close
  <1>6. QED
    BY <1>1, <1>2, <1>3, <1>4, <1>5

LEMMA ActivationPart ==
    ASSUME [Next]_vars
    PROVE  [ActivationNext]_activationVars
  BY QueueStutters DEF Next, vars

(* The type invariant of the composed system, for every constant.          *)
THEOREM QueueTypesAlways == Spec => []TypeOK
  <1> DEFINE I == ActivationInv /\ QueueTypeOK
  <1>1. Init => I
    BY InitInv, QueueInitType DEF Init
  <1>2. I /\ [Next]_vars => I'
    BY NextInv, NextType, ActivationPart
  <1>3. I => TypeOK
    BY DEF TypeOK, ActivationInv
  <1>4. QED
    BY <1>1, <1>2, <1>3, PTL DEF Spec

-----------------------------------------------------------------------------
(* The inductive invariant, task by task *)

BudgetOf(t) == taskState[t] \in {"none", "held", "pending", "deferred"}
                  => attemptCount[t] < MaxAttempts

TaskInv(t) == LedgerOf(t) /\ BudgetOf(t) /\ WindowOf(t) /\ GenuineOf(t)

QueueInv ==
    /\ ActivationInv
    /\ QueueTypeOK
    /\ \A t \in Task : TaskInv(t)
    /\ AckedIsAccepted

(* The columns of a task TaskInv speaks of.                                *)
SameTask(t) ==
    /\ taskState'[t] = taskState[t] /\ attemptCount'[t] = attemptCount[t]
    /\ lease'[t] = lease[t] /\ claims'[t] = claims[t]
    /\ taskRelease'[t] = taskRelease[t] /\ taskEpoch'[t] = taskEpoch[t]
    /\ attempts'[t] = attempts[t] /\ accepted'[t] = accepted[t]

(* What time and the activation may do to a task at rest.                  *)
AuditGrows ==
    /\ now \in Nat /\ now' \in Nat /\ now <= now'
    /\ \A i \in DOMAIN audit : i \in DOMAIN audit' /\ audit'[i] = audit[i]

LEMMA ActivationGrows ==
    ASSUME ActivationInv, [ActivationNext]_activationVars
    PROVE  AuditGrows
  <1>0. now \in Nat /\ audit \in Seq(AuditRow)
    BY DEF ActivationInv, ActivationTypeOK
  <1>1. ASSUME now' \in {now, now + 1}, audit' = audit PROVE AuditGrows
    BY <1>0, <1>1 DEF AuditGrows
  <1>2. ASSUME NEW r \in Release, NEW at \in Captured,
               NEW action \in {"activate", "rollback"}, Change(r, at, action)
        PROVE  AuditGrows
    <2>1. ChangeEffect(r, action)
      BY <1>2, ChangeFacts DEF ActivationInv
    <2>2. QED
      BY <1>0, <2>1 DEF ChangeEffect, AuditGrows
  <1>3. \A plan \in rollbackPlans : plan.target \in Release
    BY DEF ActivationInv, ActivationTypeOK, RollbackPlan
  <1>4. QED
    BY <1>1, <1>2, <1>3
    DEF ActivationNext, Tick, RegisterWorker, RegisterRelease, Activate,
        RollbackRead, RollbackChange, releaseVars, workerVars, activationVars

(* A task whose columns do not change keeps its invariant.                 *)
LEMMA FrameTask ==
    ASSUME NEW t \in Task, QueueTypeOK, TaskInv(t), SameTask(t), AuditGrows
    PROVE  TaskInv(t)'
  <1>1. LedgerOf(t)' /\ BudgetOf(t)'
    BY DEF TaskInv, SameTask, LedgerOf, BudgetOf, Running
  <1>2. WindowOf(t)'
    <2>1. lease[t].expires \in Nat /\ lease[t].started \in Nat
      BY DEF QueueTypeOK, LeaseColumns
    <2>2. QED
      BY <2>1, QueueAssumption DEF TaskInv, SameTask, WindowOf, Running, AuditGrows
  <1>3. GenuineOf(t)'
    BY DEF TaskInv, SameTask, GenuineOf, AuditGrows
  <1>4. QED
    BY <1>1, <1>2, <1>3 DEF TaskInv

(* A queue step changes neither the clock nor the audit trail.             *)
LEMMA StutterGrows ==
    ASSUME ActivationInv, UNCHANGED activationVars
    PROVE  AuditGrows
  BY DEF AuditGrows, activationVars, releaseVars, ActivationInv, ActivationTypeOK

(* A lease that passes _leased is the newest attempt's.                    *)
LEMMA LeasedFacts ==
    ASSUME QueueInv, NEW l \in granted, Leased(l)
    PROVE  /\ l.task \in Task /\ Running(l.task)
           /\ attemptCount[l.task] \in AttemptNumber
           /\ attempts[l.task][attemptCount[l.task]].token = l.token
           /\ attempts[l.task][attemptCount[l.task]].started = lease[l.task].started
           /\ attempts[l.task][attemptCount[l.task]].outcome = "open"
           /\ l.token > 0
           /\ accepted[l.task] = NoResult
           /\ ~Discovery(l.task) =>
                 l.epoch \in DOMAIN audit /\ audit[l.epoch].release = l.release
  <1>1. /\ l.task \in Task /\ l.attempt \in AttemptNumber /\ l.token \in Nat
        /\ l.release \in Release
    BY GrantedType DEF QueueInv
  <1>2. Running(l.task) /\ attemptCount[l.task] = l.attempt
    BY DEF Leased
  <1>3. TaskInv(l.task)
    BY <1>1 DEF QueueInv
  <1>4. /\ attempts[l.task][attemptCount[l.task]].token = l.token
        /\ attempts[l.task][attemptCount[l.task]].started = lease[l.task].started
        /\ attempts[l.task][attemptCount[l.task]].outcome = "open"
        /\ l.token > 0
    BY <1>1, <1>2, <1>3 DEF Leased, TaskInv, LedgerOf
  <1>5. accepted[l.task] = NoResult
    BY <1>2, <1>3 DEF TaskInv, GenuineOf, Running
  <1>6. ASSUME ~Discovery(l.task)
        PROVE  l.epoch \in DOMAIN audit /\ audit[l.epoch].release = l.release
    <2>1. l.epoch = activeEpoch /\ l.release = activeRelease
      BY <1>6 DEF Leased
    <2>2. audit \in Seq(AuditRow) /\ NoRelease \notin Release
      BY ActivationAssumption DEF QueueInv, ActivationInv, ActivationTypeOK
    <2>3. audit # <<>> /\ activeEpoch = Len(audit)
            /\ activeRelease = audit[Len(audit)].release
      BY <1>1, <2>1, <2>2 DEF QueueInv, ActivationInv, PointerFollowsAudit
    <2>4. QED
      BY <2>1, <2>2, <2>3
  <1>7. QED
    BY <1>1, <1>2, <1>4, <1>5, <1>6

(* Closing the open attempt of a running task keeps its ledger.            *)
LEMMA CloseLedger ==
    ASSUME QueueInv, NEW t \in Task, Running(t),
           NEW o \in {"succeeded", "failed", "deferred"}, Close(t, o)
    PROVE  LedgerOf(t)' /\ WindowOf(t)'
  <1>1. LedgerOf(t) /\ QueueTypeOK
    BY DEF QueueInv, TaskInv
  <1>2. /\ taskState'[t] = o /\ lease'[t] = NoLease
        /\ attemptCount'[t] = attemptCount[t]
        /\ attempts'[t] = CloseAttempt(t, o)
    BY <1>1 DEF Close, QueueTypeOK
  <1>3. \A n \in AttemptNumber :
           CloseAttempt(t, o)[n] =
              IF n = attemptCount[t] THEN [attempts[t][n] EXCEPT !.outcome = o]
                                     ELSE attempts[t][n]
    BY <1>1, CloseAttemptType DEF Outcome
  <1>4. \A n \in AttemptNumber :
           attempts'[t][n].outcome = IF n = attemptCount[t] THEN o
                                     ELSE attempts[t][n].outcome
    <2>1. \A n \in AttemptNumber : attempts[t][n] \in AttemptRow
      BY <1>1 DEF QueueTypeOK
    <2>2. \A n \in AttemptNumber :
             [attempts[t][n] EXCEPT !.outcome = o].outcome = o
      BY <2>1 DEF AttemptRow
    <2>3. TAKE n \in AttemptNumber
    <2>4. CASE n = attemptCount[t]
      <3>1. attempts'[t][n] = [attempts[t][n] EXCEPT !.outcome = o]
        BY <1>2, <1>3, <2>4
      <3>2. QED
        BY <2>2, <2>4, <3>1
    <2>5. CASE n # attemptCount[t]
      <3>1. attempts'[t][n] = attempts[t][n]
        BY <1>2, <1>3, <2>5
      <3>2. QED
        BY <2>5, <3>1
    <2>6. QED
      BY <2>4, <2>5
  <1>5. ~Running(t)'
    BY <1>2 DEF Running
  <1>6. attemptCount[t] \in 0..MaxAttempts
    BY <1>1 DEF QueueTypeOK
  <1>7. QED
    BY <1>1, <1>2, <1>4, <1>5, <1>6 DEF LedgerOf, WindowOf

(* The other tasks are untouched by the close of one.                      *)
LEMMA CloseOthers ==
    ASSUME QueueTypeOK, NEW t \in Task, NEW o, Close(t, o),
           \A u \in Task \ {t} : accepted'[u] = accepted[u]
    PROVE  \A u \in Task \ {t} : SameTask(u)
  BY DEF Close, QueueTypeOK, SameTask

(* A close without a result: succeed, fail, defer.                         *)
LEMMA ClosePreserves ==
    ASSUME QueueInv, NEW l \in granted, Leased(l),
           NEW o \in {"succeeded", "failed", "deferred"}, Close(l.task, o),
           o = "deferred" => attemptCount[l.task] < MaxAttempts,
           accepted' = accepted, acked' = acked
    PROVE  (\A t \in Task : TaskInv(t)') /\ AckedIsAccepted'
  <1>0. l.task \in Task /\ Running(l.task) /\ accepted[l.task] = NoResult
    BY LeasedFacts
  <1>1. AuditGrows
    BY StutterGrows DEF QueueInv, Close
  <1>2. ASSUME NEW u \in Task \ {l.task} PROVE TaskInv(u)'
    <2>1. SameTask(u)
      BY <1>0, CloseOthers DEF QueueInv
    <2>2. QED
      BY <1>1, <2>1, FrameTask DEF QueueInv
  <1>3. TaskInv(l.task)'
    <2>1. LedgerOf(l.task)' /\ WindowOf(l.task)'
      BY <1>0, CloseLedger
    <2>2. taskState'[l.task] = o /\ attemptCount' = attemptCount
      BY <1>0 DEF Close, QueueInv, QueueTypeOK
    <2>3. BudgetOf(l.task)'
      BY <2>2 DEF BudgetOf
    <2>4. GenuineOf(l.task)'
      BY <1>0 DEF GenuineOf
    <2>5. QED
      BY <2>1, <2>3, <2>4 DEF TaskInv
  <1>4. AckedIsAccepted'
    BY DEF QueueInv, AckedIsAccepted
  <1>5. QED
    BY <1>2, <1>3, <1>4

(* A close that stores the result delivered under the lease.               *)
LEMMA StorePreserves ==
    ASSUME QueueInv, NEW l \in granted, Leased(l), Close(l.task, "succeeded"),
           NEW c \in Content, NEW f \in Nat,
           ClassOf[l.task] # "artifact_recovery" => lease[l.task].started <= f,
           accepted' = [accepted EXCEPT ![l.task] = Capture(l, c, f)],
           acked' = acked \cup {[task |-> l.task, content |-> c, fetchedAt |-> f]}
    PROVE  (\A t \in Task : TaskInv(t)') /\ AckedIsAccepted'
  <1>0. l.task \in Task /\ Running(l.task) /\ accepted[l.task] = NoResult
    BY LeasedFacts
  <1>1. AuditGrows /\ audit' = audit
    BY StutterGrows DEF QueueInv, Close, activationVars, releaseVars
  <1>2. accepted'[l.task] = Capture(l, c, f)
          /\ \A u \in Task \ {l.task} : accepted'[u] = accepted[u]
    BY <1>0 DEF QueueInv, QueueTypeOK
  <1>3. ASSUME NEW u \in Task \ {l.task} PROVE TaskInv(u)'
    <2>1. SameTask(u)
      BY <1>0, <1>2, CloseOthers DEF QueueInv
    <2>2. QED
      BY <1>1, <2>1, FrameTask DEF QueueInv
  <1>4. TaskInv(l.task)'
    <2>1. LedgerOf(l.task)' /\ WindowOf(l.task)'
      BY <1>0, CloseLedger
    <2>2. taskState'[l.task] = "succeeded" /\ attemptCount' = attemptCount
            /\ attempts'[l.task] = CloseAttempt(l.task, "succeeded")
      BY <1>0 DEF Close, QueueInv, QueueTypeOK
    <2>3. BudgetOf(l.task)'
      BY <2>2 DEF BudgetOf
    <2>4. GenuineOf(l.task)'
      <3> DEFINE n == attemptCount[l.task]
      <3>1. n \in AttemptNumber /\ attempts[l.task][n] \in AttemptRow
              /\ attempts[l.task][n].token = l.token
              /\ attempts[l.task][n].started = lease[l.task].started
        BY <1>0, LeasedFacts DEF QueueInv, QueueTypeOK
      <3>2. attempts'[l.task][n] = [attempts[l.task][n] EXCEPT !.outcome = "succeeded"]
        <4>1. QueueTypeOK
          BY DEF QueueInv
        <4>2. "succeeded" \in Outcome
          BY DEF Outcome
        <4>3. QED
          BY <1>0, <2>2, <3>1, <4>1, <4>2, CloseAttemptType
      <3>3. /\ attempts'[l.task][n].token = l.token
            /\ attempts'[l.task][n].started = lease[l.task].started
            /\ attempts'[l.task][n].outcome = "succeeded"
        BY <3>1, <3>2 DEF AttemptRow
      <3>4. /\ accepted'[l.task].token = l.token
            /\ accepted'[l.task].fetchedAt = f
            /\ accepted'[l.task].epoch = l.epoch
            /\ accepted'[l.task].release = l.release
        BY <1>2 DEF Capture
      <3>5. ~Discovery(l.task) =>
               l.epoch \in DOMAIN audit /\ audit[l.epoch].release = l.release
        BY LeasedFacts
      <3> HIDE DEF n
      <3>6. QED
        BY <1>1, <2>2, <3>1, <3>3, <3>4, <3>5 DEF GenuineOf, Discovery
    <2>5. QED
      BY <2>1, <2>3, <2>4 DEF TaskInv
  <1>5. AckedIsAccepted'
    <2>1. \A a \in acked : a.task # l.task /\ a.task \in Task
      BY <1>0 DEF QueueInv, AckedIsAccepted, QueueTypeOK
    <2>2. l.token > 0 /\ l.token \in Nat
      BY LeasedFacts, GrantedType DEF QueueInv
    <2>3. Capture(l, c, f) # NoResult
            /\ Capture(l, c, f).content = c /\ Capture(l, c, f).fetchedAt = f
      BY <2>2 DEF Capture, NoResult
    <2>4. QED
      BY <1>2, <2>1, <2>3 DEF QueueInv, AckedIsAccepted
  <1>6. QED
    BY <1>3, <1>4, <1>5


-----------------------------------------------------------------------------
(* One lemma per operation *)

(* A step that changes the invariant's columns of at most one task.        *)
LEMMA OneTask ==
    ASSUME QueueInv, UNCHANGED activationVars, NEW t \in Task,
           \A u \in Task \ {t} : SameTask(u),
           TaskInv(t)'
    PROVE  \A u \in Task : TaskInv(u)'
  <1>1. AuditGrows
    BY StutterGrows DEF QueueInv
  <1>2. \A u \in Task \ {t} : TaskInv(u)'
    BY <1>1, FrameTask DEF QueueInv
  <1>3. QED
    BY <1>2

(* A step that changes none of the invariant's columns.                    *)
LEMMA NoTask ==
    ASSUME QueueInv, AuditGrows, \A t \in Task : SameTask(t)
    PROVE  \A t \in Task : TaskInv(t)'
  BY FrameTask DEF QueueInv

(* enqueue and enqueue for discovery: a new task starts with no attempt.   *)
LEMMA EnqueuePreserves ==
    ASSUME QueueInv, EnqueueStep
    PROVE  (\A t \in Task : TaskInv(t)') /\ AckedIsAccepted'
  <1>1. UNCHANGED activationVars
    BY QueueStutters
  <1>2. accepted' = accepted /\ acked' = acked
    BY DEF EnqueueStep, Enqueue, StartCanary, EnqueueDiscovery, taskVars
  <1>3. AckedIsAccepted'
    BY <1>2 DEF QueueInv, AckedIsAccepted
  <1>4. ASSUME NEW t \in Task, taskState[t] = "none",
               NEW s \in {"held", "pending"},
               taskState' = [taskState EXCEPT ![t] = s],
               \A u \in Task \ {t} : taskRelease'[u] = taskRelease[u]
                                      /\ taskEpoch'[u] = taskEpoch[u],
               UNCHANGED <<attemptCount, lease, attempts, claims>>
        PROVE  \A u \in Task : TaskInv(u)'
    <2>1. \A u \in Task \ {t} : SameTask(u)
      BY <1>2, <1>4 DEF QueueInv, QueueTypeOK, SameTask
    <2>2. ~Running(t) /\ ~Running(t)' /\ taskState'[t] = s
      BY <1>4 DEF Running, QueueInv, QueueTypeOK
    <2>3. TaskInv(t) /\ accepted[t] = NoResult
      BY <1>4 DEF QueueInv, TaskInv, GenuineOf
    <2>4. TaskInv(t)'
      BY <1>2, <1>4, <2>2, <2>3 DEF TaskInv, LedgerOf, BudgetOf, WindowOf, GenuineOf
    <2>5. QED
      BY <1>1, <2>1, <2>4, OneTask
  <1>5. ASSUME NEW t \in Task, NEW at \in Captured, Enqueue(t, at)
        PROVE  \A u \in Task : TaskInv(u)'
    BY <1>4, <1>5 DEF Enqueue, QueueInv, QueueTypeOK
  <1>6. ASSUME NEW t \in Task, NEW r \in Release, NEW at \in Captured,
               EnqueueDiscovery(t, r, at)
        PROVE  \A u \in Task : TaskInv(u)'
    BY <1>4, <1>6 DEF EnqueueDiscovery, QueueInv, QueueTypeOK
  <1>7. ASSUME NEW r \in Release, StartCanary(r)
        PROVE  \A u \in Task : TaskInv(u)'
    <2>1. \A t \in Task : SameTask(t)
      BY <1>7 DEF StartCanary, SameTask, taskVars
    <2>2. QED
      BY <1>1, <2>1, NoTask, StutterGrows DEF QueueInv
  <1>8. QED
    BY <1>3, <1>5, <1>6, <1>7 DEF EnqueueStep

(* claim, reaping transaction: every reaped task has its open attempt      *)
(* closed and either an attempt left or a final state.                     *)
LEMMA ReapPreserves ==
    ASSUME QueueInv, NEW w \in Worker, NEW batch \in SUBSET Expired,
           ClaimReap(w, batch)
    PROVE  (\A t \in Task : TaskInv(t)') /\ AckedIsAccepted'
  <1>1. AuditGrows /\ accepted' = accepted /\ acked' = acked
    BY StutterGrows DEF QueueInv, ClaimReap
  <1>2. AckedIsAccepted'
    BY <1>1 DEF QueueInv, AckedIsAccepted
  <1>3. ASSUME NEW t \in Task PROVE TaskInv(t)'
    <2>0. TaskInv(t) /\ QueueTypeOK /\ attemptCount[t] \in 0..MaxAttempts
      BY DEF QueueInv, QueueTypeOK
    <2>1. CASE t \notin batch
      <3>1. SameTask(t)
        BY <2>1 DEF ClaimReap, SameTask
      <3>2. QED
        BY <1>1, <2>0, <3>1, FrameTask
    <2>2. CASE t \in batch
      <3>1. /\ taskState'[t] = ReapedState(t) /\ lease'[t] = NoLease
            /\ attempts'[t] = CloseAttempt(t, "lease-expired")
            /\ attemptCount' = attemptCount
        BY <2>2 DEF ClaimReap
      <3>2. Running(t)
        BY <2>2 DEF Expired
      <3>3. accepted[t] = NoResult
        BY <2>0, <3>2 DEF TaskInv, GenuineOf, Running
      <3>4. ~Running(t)'
        BY <3>1 DEF Running, ReapedState
      <3>5. \A n \in AttemptNumber : attempts[t][n] \in AttemptRow
        BY <2>0 DEF QueueTypeOK
      <3>6. \A n \in AttemptNumber :
               [attempts[t][n] EXCEPT !.outcome = "lease-expired"].outcome
                  = "lease-expired"
        BY <3>5 DEF AttemptRow
      <3>7. \A n \in AttemptNumber :
               attempts'[t][n].outcome = IF n = attemptCount[t] THEN "lease-expired"
                                         ELSE attempts[t][n].outcome
        <4>1. \A n \in AttemptNumber :
                 CloseAttempt(t, "lease-expired")[n] =
                    IF n = attemptCount[t]
                       THEN [attempts[t][n] EXCEPT !.outcome = "lease-expired"]
                       ELSE attempts[t][n]
          BY <2>0, CloseAttemptType DEF Outcome
        <4>2. TAKE n \in AttemptNumber
        <4>3. CASE n = attemptCount[t]
          <5>1. attempts'[t][n] =
                   [attempts[t][n] EXCEPT !.outcome = "lease-expired"]
            BY <3>1, <4>1, <4>3
          <5>2. QED
            BY <3>6, <4>3, <5>1
        <4>4. CASE n # attemptCount[t]
          <5>1. attempts'[t][n] = attempts[t][n]
            BY <3>1, <4>1, <4>4
          <5>2. QED
            BY <4>4, <5>1
        <4>5. QED
          BY <4>3, <4>4
      <3>8. LedgerOf(t)' /\ WindowOf(t)'
        BY <2>0, <3>1, <3>2, <3>4, <3>7 DEF TaskInv, LedgerOf, WindowOf
      <3>9. BudgetOf(t)'
        BY <2>0, <3>1, QueueAssumption DEF BudgetOf, ReapedState
      <3>10. GenuineOf(t)'
        BY <1>1, <3>3 DEF GenuineOf
      <3>11. QED
        BY <3>8, <3>9, <3>10 DEF TaskInv
    <2>3. QED
      BY <2>1, <2>2
  <1>4. QED
    BY <1>2, <1>3

(* claim, claiming transaction: the new lease and its attempt row match.   *)
LEMMA ClaimPreserves ==
    ASSUME QueueInv, NEW w \in Worker, NEW t \in Task, NEW classes, NEW locked,
           ClaimTask(w, t, classes, locked)
    PROVE  (\A u \in Task : TaskInv(u)') /\ AckedIsAccepted'
  <1>0. TaskInv(t) /\ QueueTypeOK /\ now \in Nat /\ UNCHANGED activationVars
    BY DEF QueueInv, ActivationInv, ActivationTypeOK, ClaimTask
  <1>1. accepted' = accepted /\ acked' = acked
    BY DEF ClaimTask
  <1>2. AckedIsAccepted'
    BY <1>1 DEF QueueInv, AckedIsAccepted
  <1>3. /\ taskState[t] \in {"pending", "deferred"}
        /\ attemptCount[t] < MaxAttempts
    BY DEF ClaimTask, Eligible
  <1>4. ~Running(t) /\ accepted[t] = NoResult
    BY <1>0, <1>3 DEF Running, TaskInv, GenuineOf
  <1>5. attemptCount[t] \in Nat /\ attemptCount[t] + 1 \in AttemptNumber
          /\ claims[t] \in Nat
    BY <1>0, <1>3, QueueAssumption DEF QueueTypeOK, AttemptNumber
  <1> DEFINE row == [token |-> claims[t] + 1, owner |-> w,
                     release |-> BoundRelease(t), epoch |-> BoundEpoch(t),
                     started |-> now, outcome |-> "open"]
  <1>6. /\ taskState'[t] = "running"
        /\ attemptCount'[t] = attemptCount[t] + 1
        /\ claims'[t] = claims[t] + 1
        /\ taskRelease'[t] = BoundRelease(t) /\ taskEpoch'[t] = BoundEpoch(t)
        /\ lease'[t] = [owner |-> w, token |-> claims[t] + 1,
                        started |-> now, expires |-> now + LeaseTime]
    BY <1>0 DEF ClaimTask, QueueTypeOK
  <1>7. \A n \in AttemptNumber :
           attempts'[t][n] = IF n = attemptCount[t] + 1 THEN row ELSE attempts[t][n]
    <2>1. attempts' = [attempts EXCEPT ![t][attemptCount[t] + 1] = row]
      BY DEF ClaimTask
    <2> HIDE DEF row
    <2>2. QED
      BY <1>0, <1>5, <2>1 DEF QueueTypeOK
  <1>8. LedgerOf(t)'
    <2>1. Running(t)' /\ attemptCount'[t] \in AttemptNumber /\ attemptCount'[t] > 0
      BY <1>5, <1>6 DEF Running
    <2>2. \A n \in AttemptNumber :
             /\ attempts'[t][n].outcome = "none" <=> n > attemptCount'[t]
             /\ attempts'[t][n].outcome = "open" <=> n = attemptCount'[t]
      BY <1>0, <1>4, <1>5, <1>6, <1>7 DEF TaskInv, LedgerOf, AttemptNumber
    <2>3. attempts'[t][attemptCount'[t]] = row
      BY <1>5, <1>6, <1>7
    <2>4. QED
      BY <1>5, <1>6, <2>1, <2>2, <2>3 DEF LedgerOf
  <1>9. WindowOf(t)'
    <2>1. now' = now
      BY <1>0 DEF activationVars
    <2>2. QED
      BY <1>0, <1>6, <2>1, QueueAssumption DEF WindowOf
  <1>10. BudgetOf(t)' /\ GenuineOf(t)'
    BY <1>1, <1>4, <1>6 DEF BudgetOf, GenuineOf
  <1>11. \A u \in Task \ {t} : SameTask(u)
    BY <1>0, <1>1 DEF ClaimTask, QueueTypeOK, SameTask
  <1>12. TaskInv(t)'
    BY <1>8, <1>9, <1>10 DEF TaskInv
  <1>13. QED
    BY <1>0, <1>2, <1>11, <1>12, OneTask

(* heartbeat: only the deadline moves, within both bounds.                 *)
LEMMA HeartbeatPreserves ==
    ASSUME QueueInv, NEW l \in granted, Heartbeat(l)
    PROVE  (\A t \in Task : TaskInv(t)') /\ AckedIsAccepted'
  <1> DEFINE t == l.task
  <1>0. t \in Task /\ Running(t) /\ TaskInv(t) /\ QueueTypeOK /\ now \in Nat
          /\ UNCHANGED activationVars
    BY LeasedFacts DEF Heartbeat, QueueInv, ActivationInv, ActivationTypeOK
  <1>1. lease[t] \in LeaseColumns /\ lease'[t] = [lease[t] EXCEPT !.expires = Renewed(t)]
    BY <1>0 DEF Heartbeat, QueueTypeOK
  <1>2. /\ lease'[t].expires = Renewed(t)
        /\ lease'[t].started = lease[t].started /\ lease'[t].token = lease[t].token
        /\ lease'[t].owner = lease[t].owner
    BY <1>1 DEF LeaseColumns
  <1>3. lease[t].started \in Nat
    BY <1>1 DEF LeaseColumns
  <1>4. Renewed(t) <= now + LeaseTime /\ Renewed(t) <= lease[t].started + MaxLease
    BY <1>0, <1>3, QueueAssumption DEF Renewed, Smaller
  <1>5. /\ taskState' = taskState /\ attemptCount' = attemptCount
        /\ taskRelease' = taskRelease /\ taskEpoch' = taskEpoch
        /\ attempts' = attempts /\ accepted' = accepted /\ claims' = claims
        /\ acked' = acked /\ now' = now
        /\ audit' = audit
    BY DEF Heartbeat, activationVars, releaseVars
  <1> HIDE DEF t
  <1>6. LedgerOf(t)'
    BY <1>0, <1>2, <1>5 DEF TaskInv, LedgerOf, Running
  <1>7. WindowOf(t)'
    BY <1>0, <1>2, <1>4, <1>5 DEF TaskInv, WindowOf, Running
  <1>8. BudgetOf(t)' /\ GenuineOf(t)'
    BY <1>0, <1>5 DEF TaskInv, BudgetOf, GenuineOf
  <1>9. \A u \in Task \ {t} : SameTask(u)
    BY <1>0, <1>5 DEF Heartbeat, QueueTypeOK, SameTask, t
  <1>10. TaskInv(t)'
    BY <1>6, <1>7, <1>8 DEF TaskInv
  <1>11. AckedIsAccepted'
    BY <1>5 DEF QueueInv, AckedIsAccepted
  <1>12. QED
    BY <1>0, <1>9, <1>10, <1>11, OneTask

(* defer(budget-exhausted): the newest row and number go together.         *)
LEMMA RefundPreserves ==
    ASSUME QueueInv, NEW l \in granted, NEW until, DeferBudget(l, until)
    PROVE  (\A t \in Task : TaskInv(t)') /\ AckedIsAccepted'
  <1> DEFINE t == l.task
  <1>0. /\ t \in Task /\ Running(t) /\ TaskInv(t) /\ QueueTypeOK
        /\ accepted[t] = NoResult /\ attemptCount[t] \in AttemptNumber
        /\ UNCHANGED activationVars
    BY LeasedFacts DEF DeferBudget, QueueInv
  <1>1. /\ taskState'[t] = "deferred" /\ lease'[t] = NoLease
        /\ attemptCount'[t] = attemptCount[t] - 1
        /\ attempts'[t] = Refunded(t)
        /\ accepted' = accepted /\ acked' = acked
    BY <1>0 DEF DeferBudget, QueueTypeOK
  <1>2. \A n \in AttemptNumber :
           attempts'[t][n] = IF n = attemptCount[t] THEN NoAttempt ELSE attempts[t][n]
    BY <1>0, <1>1 DEF Refunded, QueueTypeOK
  <1>3. \A u \in Task \ {t} : SameTask(u)
    BY <1>0 DEF DeferBudget, QueueTypeOK, SameTask
  <1>4. AckedIsAccepted'
    BY <1>1 DEF QueueInv, AckedIsAccepted
  <1> HIDE DEF t
  <1>5. ~Running(t)'
    BY <1>1 DEF Running
  <1>6. LedgerOf(t)'
    BY <1>0, <1>1, <1>2, <1>5, QueueAssumption
    DEF TaskInv, LedgerOf, AttemptNumber, NoAttempt
  <1>7. BudgetOf(t)'
    BY <1>0, <1>1, QueueAssumption DEF BudgetOf, AttemptNumber
  <1>8. WindowOf(t)' /\ GenuineOf(t)'
    BY <1>0, <1>1, <1>5 DEF WindowOf, GenuineOf
  <1>9. TaskInv(t)'
    BY <1>6, <1>7, <1>8 DEF TaskInv
  <1>10. QED
    BY <1>0, <1>3, <1>4, <1>9, OneTask

LEMMA ClaimStepPreserves ==
    ASSUME QueueInv, ClaimStep
    PROVE  (\A t \in Task : TaskInv(t)') /\ AckedIsAccepted'
  <1>1. ASSUME NEW w \in Worker, ClaimNothing(w)
        PROVE  (\A t \in Task : TaskInv(t)') /\ AckedIsAccepted'
    <2>1. (\A t \in Task : SameTask(t)) /\ accepted' = accepted /\ acked' = acked
      BY <1>1 DEF ClaimNothing, SameTask, taskVars
    <2>2. AuditGrows
      BY <1>1, StutterGrows DEF ClaimNothing, QueueInv
    <2>3. QED
      BY <2>1, <2>2, NoTask DEF QueueInv, AckedIsAccepted
  <1>2. QED
    BY <1>1, ReapPreserves, ClaimPreserves DEF ClaimStep

LEMMA CompleteStepPreserves ==
    ASSUME QueueInv, CompleteStep
    PROVE  (\A t \in Task : TaskInv(t)') /\ AckedIsAccepted'
  <1>0. now \in Nat
    BY DEF QueueInv, ActivationInv, ActivationTypeOK
  <1>1. ASSUME NEW l \in granted, NEW c \in Content, NEW f \in 0..now,
               Complete(l, c, f)
        PROVE  (\A t \in Task : TaskInv(t)') /\ AckedIsAccepted'
    <2>1. f \in Nat
      BY <1>0
    <2>2. QED
      BY <1>1, <2>1, StorePreserves DEF Complete, CaptureAllowed
  <1>2. ASSUME NEW l \in granted, NEW c \in Content, NEW f \in 0..now,
               CompleteAgain(l, c, f)
        PROVE  (\A t \in Task : TaskInv(t)') /\ AckedIsAccepted'
    <2>1. (\A t \in Task : SameTask(t)) /\ accepted' = accepted
      BY <1>2 DEF CompleteAgain, SameTask, taskVars
    <2>2. AuditGrows
      BY <1>2, StutterGrows DEF CompleteAgain, QueueInv
    <2>3. AckedIsAccepted'
      BY <1>2, <2>1 DEF CompleteAgain, ReplayAllowed, QueueInv, AckedIsAccepted
    <2>4. QED
      BY <2>1, <2>2, <2>3, NoTask
  <1>3. ASSUME NEW l \in granted, NEW c \in Content, CompleteArtifactReplay(l, c)
        PROVE  (\A t \in Task : TaskInv(t)') /\ AckedIsAccepted'
    BY <1>3, StorePreserves DEF CompleteArtifactReplay
  <1>4. QED
    BY <1>1, <1>2, <1>3 DEF CompleteStep

LEMMA FinishStepPreserves ==
    ASSUME QueueInv, FinishStep \/ DeferStep
    PROVE  (\A t \in Task : TaskInv(t)') /\ AckedIsAccepted'
  <1>1. ASSUME NEW l \in granted, Succeed(l)
        PROVE  (\A t \in Task : TaskInv(t)') /\ AckedIsAccepted'
    BY <1>1, ClosePreserves DEF Succeed
  <1>2. ASSUME NEW l \in granted, FailRetry(l)
        PROVE  (\A t \in Task : TaskInv(t)') /\ AckedIsAccepted'
    BY <1>2, ClosePreserves DEF FailRetry
  <1>3. ASSUME NEW l \in granted, NEW code, Fail(l, code)
        PROVE  (\A t \in Task : TaskInv(t)') /\ AckedIsAccepted'
    BY <1>3, ClosePreserves DEF Fail
  <1>4. ASSUME NEW l \in granted, NEW until \in Deadline, Defer(l, until)
        PROVE  (\A t \in Task : TaskInv(t)') /\ AckedIsAccepted'
    BY <1>4, ClosePreserves DEF Defer
  <1>5. QED
    BY <1>1, <1>2, <1>3, <1>4, HeartbeatPreserves, RefundPreserves
    DEF FinishStep, DeferStep

(* Every step of the composed system preserves the queue's invariant.      *)
LEMMA QueueNextInv == QueueInv /\ [Next]_vars => QueueInv'
  <1> SUFFICES ASSUME QueueInv, [Next]_vars PROVE QueueInv'
    OBVIOUS
  <1>1. ActivationInv' /\ QueueTypeOK'
    BY NextInv, NextType, ActivationPart DEF QueueInv
  <1>2. CASE UNCHANGED queueVars
    <2>1. AuditGrows
      BY ActivationGrows, ActivationPart DEF QueueInv
    <2>2. (\A t \in Task : SameTask(t)) /\ accepted' = accepted /\ acked' = acked
      BY <1>2 DEF SameTask, queueVars, taskVars
    <2>3. AckedIsAccepted'
      BY <2>2 DEF QueueInv, AckedIsAccepted
    <2>4. QED
      BY <1>1, <2>1, <2>2, <2>3, NoTask DEF QueueInv
  <1>3. CASE EnqueueStep \/ ClaimStep \/ CompleteStep \/ FinishStep \/ DeferStep
    BY <1>1, <1>3, EnqueuePreserves, ClaimStepPreserves, CompleteStepPreserves,
       FinishStepPreserves DEF QueueInv
  <1>4. QED
    BY <1>2, <1>3 DEF Next, vars

LEMMA QueueInitInv == Init => QueueInv
  <1> SUFFICES ASSUME Init PROVE QueueInv
    OBVIOUS
  <1>1. ActivationInv /\ QueueTypeOK
    BY InitInv, QueueInitType DEF Init
  <1>2. ASSUME NEW t \in Task PROVE TaskInv(t)
    BY QueueAssumption
    DEF Init, QueueInit, TaskInv, LedgerOf, BudgetOf, WindowOf, GenuineOf, Running,
        NoAttempt, AttemptNumber
  <1>3. AckedIsAccepted
    BY DEF Init, QueueInit, AckedIsAccepted
  <1>4. QED
    BY <1>1, <1>2, <1>3 DEF QueueInv

(* The queue's inductive invariant holds in every reachable state.         *)
THEOREM QueueInvariant == Spec => []QueueInv
  BY QueueInitInv, QueueNextInv, PTL DEF Spec

(* The attempt ledger agrees with the leases in every reachable state.     *)
THEOREM AttemptLedgerAlways == Spec => []AttemptLedger
  <1>1. QueueInv => AttemptLedger
    BY DEF QueueInv, TaskInv, AttemptLedger
  <1>2. QED
    BY <1>1, QueueInvariant, PTL

(* No task waits for a claim that attempt_count forbids.                   *)
THEOREM RetryBudgetLeftAlways == Spec => []RetryBudgetLeft
  <1>1. QueueInv => RetryBudgetLeft
    BY DEF QueueInv, TaskInv, BudgetOf, RetryBudgetLeft
  <1>2. QED
    BY <1>1, QueueInvariant, PTL

(* Stored results were fetched under the lease that delivered them and     *)
(* carry a release and epoch of the activation history.                    *)
THEOREM AcceptedIsGenuineAlways == Spec => []AcceptedIsGenuine
  <1>1. QueueInv => AcceptedIsGenuine
    BY DEF QueueInv, TaskInv, AcceptedIsGenuine
  <1>2. QED
    BY <1>1, QueueInvariant, PTL

(* Every completion answered with OK is the one stored result.             *)
THEOREM AckedIsAcceptedAlways == Spec => []AckedIsAccepted
  <1>1. QueueInv => AckedIsAccepted
    BY DEF QueueInv
  <1>2. QED
    BY <1>1, QueueInvariant, PTL

(* No sequence of heartbeats extends a lease past its two bounds.          *)
THEOREM LeaseWindowAlways == Spec => []LeaseWindow
  <1>1. QueueInv => LeaseWindow
    BY DEF QueueInv, TaskInv, LeaseWindow
  <1>2. QED
    BY <1>1, QueueInvariant, PTL


-----------------------------------------------------------------------------
(* What a step of the composed queue may never do *)

(* t is bound to the active release in its epoch.                          *)
InEpoch(t) == taskRelease[t] = activeRelease /\ taskEpoch[t] = activeEpoch

(* The kinds of step a task can take: none, a first or further start of a  *)
(* waiting task, the expiry of its lease, or one by a lease that passed    *)
(* _leased.                                                                *)
TaskStep(t) ==
    \/ SameTask(t)
    \/ /\ taskState[t] \in {"none", "pending", "deferred"}
       /\ accepted'[t] = accepted[t]
    \/ /\ Running(t)
       /\ taskState'[t] \in {"failed", "pending"}
       /\ lease'[t] = NoLease
       /\ accepted'[t] = accepted[t]
    \/ /\ Running(t)
       /\ Discovery(t) \/ InEpoch(t)

LEMMA LeasedStep ==
    ASSUME QueueInv, NEW l \in granted, Leased(l),
           \A u \in Task \ {l.task} : SameTask(u)
    PROVE  \A t \in Task : TaskStep(t)
  BY DEF Leased, TaskStep, InEpoch

LEMMA EnqueueTaskStep ==
    ASSUME QueueInv, EnqueueStep
    PROVE  \A t \in Task : TaskStep(t)
  <1> SUFFICES ASSUME NEW t \in Task PROVE TaskStep(t)
    OBVIOUS
  <1>1. QueueTypeOK
    BY DEF QueueInv
  <1>2. ASSUME NEW u \in Task, NEW at \in Captured, Enqueue(u, at)
        PROVE  TaskStep(t)
    BY <1>1, <1>2 DEF Enqueue, QueueTypeOK, SameTask, TaskStep
  <1>3. ASSUME NEW u \in Task, NEW r \in Release, NEW at \in Captured,
               EnqueueDiscovery(u, r, at)
        PROVE  TaskStep(t)
    BY <1>1, <1>3 DEF EnqueueDiscovery, QueueTypeOK, SameTask, TaskStep
  <1>4. ASSUME NEW r \in Release, StartCanary(r) PROVE TaskStep(t)
    BY <1>4 DEF StartCanary, taskVars, SameTask, TaskStep
  <1>5. QED
    BY <1>2, <1>3, <1>4 DEF EnqueueStep

LEMMA ClaimTaskStep ==
    ASSUME QueueInv, ClaimStep
    PROVE  \A t \in Task : TaskStep(t)
  <1> SUFFICES ASSUME NEW t \in Task PROVE TaskStep(t)
    OBVIOUS
  <1>1. QueueTypeOK
    BY DEF QueueInv
  <1>2. ASSUME NEW w \in Worker, NEW batch \in SUBSET Expired, ClaimReap(w, batch)
        PROVE  TaskStep(t)
    BY <1>1, <1>2 DEF ClaimReap, Expired, ReapedState, SameTask, TaskStep
  <1>3. ASSUME NEW w \in Worker, NEW u \in Task, NEW classes, NEW locked,
               ClaimTask(w, u, classes, locked)
        PROVE  TaskStep(t)
    <2>1. taskState[u] \in {"pending", "deferred"} /\ accepted' = accepted
      BY <1>3 DEF ClaimTask, Eligible
    <2>2. CASE t = u
      BY <2>1, <2>2 DEF TaskStep
    <2>3. CASE t # u
      BY <1>1, <1>3, <2>1, <2>3 DEF ClaimTask, QueueTypeOK, SameTask, TaskStep
    <2>4. QED
      BY <2>2, <2>3
  <1>4. ASSUME NEW w \in Worker, ClaimNothing(w) PROVE TaskStep(t)
    BY <1>4 DEF ClaimNothing, taskVars, SameTask, TaskStep
  <1>5. QED
    BY <1>2, <1>3, <1>4 DEF ClaimStep

LEMMA CompleteTaskStep ==
    ASSUME QueueInv, CompleteStep
    PROVE  \A t \in Task : TaskStep(t)
  <1>0. QueueTypeOK
    BY DEF QueueInv
  <1>1. ASSUME NEW l \in granted, Leased(l), Close(l.task, "succeeded"),
               NEW result, accepted' = [accepted EXCEPT ![l.task] = result]
        PROVE  \A t \in Task : TaskStep(t)
    <2>1. l.task \in Task
      BY <1>1, LeasedFacts
    <2>2. \A u \in Task \ {l.task} : accepted'[u] = accepted[u]
      BY <1>0, <1>1 DEF QueueTypeOK
    <2>3. \A u \in Task \ {l.task} : SameTask(u)
      BY <1>0, <1>1, <2>1, <2>2, CloseOthers
    <2>4. QED
      BY <1>1, <2>3, LeasedStep
  <1>2. ASSUME NEW l \in granted, NEW c \in Content, NEW f \in 0..now,
               CompleteAgain(l, c, f)
        PROVE  \A t \in Task : TaskStep(t)
    BY <1>2 DEF CompleteAgain, taskVars, SameTask, TaskStep
  <1>3. QED
    BY <1>1, <1>2
    DEF CompleteStep, Complete, CaptureAllowed, CompleteArtifactReplay

LEMMA FinishTaskStep ==
    ASSUME QueueInv, FinishStep \/ DeferStep
    PROVE  \A t \in Task : TaskStep(t)
  <1>0. QueueTypeOK
    BY DEF QueueInv
  <1>1. ASSUME NEW l \in granted, Leased(l), NEW o, Close(l.task, o),
               accepted' = accepted
        PROVE  \A t \in Task : TaskStep(t)
    <2>1. l.task \in Task
      BY <1>1, LeasedFacts
    <2>2. \A u \in Task \ {l.task} : SameTask(u)
      BY <1>0, <1>1, <2>1, CloseOthers
    <2>3. QED
      BY <1>1, <2>2, LeasedStep
  <1>2. ASSUME NEW l \in granted, Heartbeat(l)
        PROVE  \A t \in Task : TaskStep(t)
    <2>1. Leased(l) /\ l.task \in Task
      BY <1>2, LeasedFacts DEF Heartbeat
    <2>2. \A u \in Task \ {l.task} : SameTask(u)
      BY <1>0, <1>2 DEF Heartbeat, QueueTypeOK, SameTask
    <2>3. QED
      BY <2>1, <2>2, LeasedStep
  <1>3. ASSUME NEW l \in granted, NEW until, DeferBudget(l, until)
        PROVE  \A t \in Task : TaskStep(t)
    <2>1. Leased(l) /\ l.task \in Task
      BY <1>3, LeasedFacts DEF DeferBudget
    <2>2. \A u \in Task \ {l.task} : SameTask(u)
      BY <1>0, <1>3 DEF DeferBudget, QueueTypeOK, SameTask
    <2>3. QED
      BY <2>1, <2>2, LeasedStep
  <1>4. ASSUME NEW l \in granted, NEW until, Defer(l, until)
        PROVE  \A t \in Task : TaskStep(t)
    BY <1>1, <1>4 DEF Defer
  <1>5. ASSUME NEW l \in granted, NEW code, Succeed(l) \/ FailRetry(l) \/ Fail(l, code)
        PROVE  \A t \in Task : TaskStep(t)
    BY <1>1, <1>5 DEF Succeed, FailRetry, Fail
  <1>6. QED
    BY <1>2, <1>3, <1>4, <1>5 DEF FinishStep, DeferStep

(* Every step of the composed system is one of these for every task.       *)
LEMMA EveryTaskStep ==
    ASSUME QueueInv, [Next]_vars
    PROVE  \A t \in Task : TaskStep(t)
  <1>1. CASE UNCHANGED queueVars
    BY <1>1 DEF queueVars, taskVars, SameTask, TaskStep
  <1>2. CASE EnqueueStep \/ ClaimStep \/ CompleteStep \/ FinishStep \/ DeferStep
    BY <1>2, EnqueueTaskStep, ClaimTaskStep, CompleteTaskStep, FinishTaskStep
  <1>3. QED
    BY <1>1, <1>2 DEF Next, vars

(* Finished tasks and stored results never change, for any number of       *)
(* workers, tasks and releases.                                            *)
THEOREM TerminalIsFinalAlways == Spec => TerminalIsFinal
  <1> DEFINE Kept(t) ==
        /\ taskState[t] \in Terminal => taskState'[t] = taskState[t]
        /\ accepted[t] # NoResult => accepted'[t] = accepted[t]
  <1>1. ASSUME QueueInv, [Next]_vars, NEW t \in Task PROVE Kept(t)
    <2>1. TaskStep(t)
      BY <1>1, EveryTaskStep
    <2>2. GenuineOf(t)
      BY <1>1 DEF QueueInv, TaskInv
    <2>3. Running(t) => accepted[t] = NoResult
      BY <2>2 DEF GenuineOf, Running
    <2>4. QED
      BY <2>1, <2>3 DEF TaskStep, SameTask, Terminal, Running
  <1>2. QueueInv /\ [Next]_vars => [\A t \in Task : Kept(t)]_vars
    BY <1>1
  <1>3. QED
    BY <1>2, QueueInvariant, PTL DEF Spec, TerminalIsFinal

(* A lease of a withdrawn epoch can neither finish nor defer its task nor  *)
(* be renewed.                                                             *)
THEOREM EpochFenceAlways == Spec => EpochFence
  <1> DEFINE Fenced(t) ==
        (/\ ~Discovery(t)
         /\ Running(t)
         /\ \/ taskState'[t] \in {"succeeded", "deferred"}
            \/ lease'[t].expires > lease[t].expires)
        => /\ taskRelease[t] = activeRelease
           /\ taskEpoch[t] = activeEpoch
  <1>1. ASSUME QueueInv, [Next]_vars, NEW t \in Task PROVE Fenced(t)
    <2>1. TaskStep(t)
      BY <1>1, EveryTaskStep
    <2>2. lease[t] \in LeaseColumns
      BY <1>1 DEF QueueInv, QueueTypeOK
    <2>3. lease[t].expires \in Nat
      BY <2>2 DEF LeaseColumns
    <2>4. CASE SameTask(t)
      BY <2>3, <2>4 DEF SameTask, Running
    <2>5. CASE lease'[t] = NoLease /\ taskState'[t] \in {"failed", "pending"}
      BY <2>3, <2>5 DEF NoLease
    <2>6. QED
      BY <2>1, <2>4, <2>5 DEF TaskStep, InEpoch, Running
  <1>2. QueueInv /\ [Next]_vars => [\A t \in Task : Fenced(t)]_vars
    BY <1>1
  <1>3. QED
    BY <1>2, QueueInvariant, PTL DEF Spec, EpochFence

-----------------------------------------------------------------------------
(* The redirect handoff *)

(* What the next step may do to a finished task and a stored result.       *)
KeptTask(t) ==
    /\ taskState[t] \in Terminal => taskState'[t] = taskState[t]
    /\ accepted[t] # NoResult => accepted'[t] = accepted[t]

RedirectInv ==
    /\ QueueInv
    /\ handoffs \subseteq [task : Task, target : Target]
    /\ OneHandoff

(* handoff ends a running task without a result, on other conditions than  *)
(* those of _leased: by the time of the call, and whatever the pointer is. *)
LEMMA HandoffCloses ==
    ASSUME QueueInv, NEW l \in granted, NEW target \in Target, NEW at \in Captured,
           Handoff(l, target, at)
    PROVE  /\ l.task \in Task /\ Running(l.task) /\ accepted[l.task] = NoResult
           /\ taskState'[l.task] = "succeeded" /\ accepted' = accepted
           /\ \A u \in Task \ {l.task} : SameTask(u)
  <1>1. QueueTypeOK /\ l.task \in Task
    BY GrantedType DEF QueueInv
  <1>2. Running(l.task) /\ Close(l.task, "succeeded") /\ accepted' = accepted
    BY DEF Handoff, HandoffLeased
  <1>3. GenuineOf(l.task)
    BY <1>1 DEF QueueInv, TaskInv
  <1>4. accepted[l.task] = NoResult
    BY <1>2, <1>3 DEF GenuineOf, Running
  <1>5. taskState'[l.task] = "succeeded"
    BY <1>1, <1>2 DEF Close, QueueTypeOK
  <1>6. \A u \in Task \ {l.task} : SameTask(u)
    BY <1>1, <1>2, CloseOthers
  <1>7. QED
    BY <1>1, <1>2, <1>4, <1>5, <1>6

LEMMA HandoffKeepsQueue ==
    ASSUME QueueInv, NEW l \in granted, NEW target \in Target, NEW at \in Captured,
           Handoff(l, target, at)
    PROVE  QueueInv'
  <1>1. /\ l.task \in Task /\ Running(l.task) /\ accepted[l.task] = NoResult
        /\ taskState'[l.task] = "succeeded" /\ accepted' = accepted
        /\ \A u \in Task \ {l.task} : SameTask(u)
    BY HandoffCloses
  <1>2. Close(l.task, "succeeded") /\ UNCHANGED <<availableAt, accepted, acked>>
    BY DEF Handoff
  <1>3. UNCHANGED activationVars
    BY <1>2 DEF Close
  <1>4. LedgerOf(l.task)' /\ WindowOf(l.task)'
    BY <1>1, <1>2, CloseLedger
  <1>5. BudgetOf(l.task)'
    BY <1>1 DEF BudgetOf
  <1>6. GenuineOf(l.task)'
    BY <1>1 DEF GenuineOf
  <1>7. \A u \in Task : TaskInv(u)'
    <2>1. TaskInv(l.task)'
      BY <1>4, <1>5, <1>6 DEF TaskInv
    <2>2. QED
      BY <1>1, <1>3, <2>1, OneTask
  <1>8. QueueTypeOK'
    BY <1>1, <1>2, CloseType DEF QueueInv, QueueTypeOK
  <1>9. AckedIsAccepted'
    BY <1>2 DEF QueueInv, AckedIsAccepted
  <1>10. ActivationInv'
    BY <1>1, <1>3, NextInv DEF QueueInv
  <1>11. QED
    BY <1>7, <1>8, <1>9, <1>10 DEF QueueInv

LEMMA RedirectInitInv == RedirectInit => RedirectInv
  BY QueueInitInv DEF RedirectInit, RedirectInv, OneHandoff

(* A step of the queue or a handoff keeps the invariant, finished tasks    *)
(* and stored results.                                                     *)
LEMMA RedirectNextInv ==
    ASSUME RedirectInv, [RedirectNext]_redirectVars
    PROVE  RedirectInv' /\ \A t \in Task : KeptTask(t)
  <1>1. QueueInv
    BY DEF RedirectInv
  <1>2. CASE [Next]_vars /\ UNCHANGED handoffs
    <2>1. QueueInv'
      BY <1>1, <1>2, QueueNextInv
    <2>2. \A t \in Task : TaskStep(t)
      BY <1>1, <1>2, EveryTaskStep
    <2>3. \A t \in Task : Running(t) => accepted[t] = NoResult
      BY <1>1 DEF QueueInv, TaskInv, GenuineOf, Running
    <2>4. \A t \in Task : KeptTask(t)
      BY <2>2, <2>3 DEF KeptTask, TaskStep, SameTask, Terminal, Running
    <2>5. \A t \in Task : taskState[t] = "succeeded" => SameTask(t)
      BY <2>2 DEF TaskStep, Running
    <2>6. OneHandoff'
      BY <1>2, <2>5 DEF RedirectInv, OneHandoff, SameTask
    <2>7. QED
      BY <1>2, <2>1, <2>4, <2>6 DEF RedirectInv
  <1>3. ASSUME NEW l \in granted, NEW target \in Target, NEW at \in Captured,
               Handoff(l, target, at)
        PROVE  RedirectInv' /\ \A t \in Task : KeptTask(t)
    <2>1. QueueInv'
      BY <1>1, <1>3, HandoffKeepsQueue
    <2>2. /\ l.task \in Task /\ Running(l.task) /\ accepted[l.task] = NoResult
          /\ taskState'[l.task] = "succeeded" /\ accepted' = accepted
          /\ \A u \in Task \ {l.task} : SameTask(u)
      BY <1>1, <1>3, HandoffCloses
    <2>3. \A t \in Task : KeptTask(t)
      BY <2>2 DEF KeptTask, SameTask, Terminal, Running
    <2>4. handoffs' = handoffs \cup {[task |-> l.task, target |-> target]}
      BY <1>3 DEF Handoff
    <2>5. \A h \in handoffs : h.task \in Task \ {l.task}
      BY <2>2 DEF RedirectInv, OneHandoff, Running
    <2>6. OneHandoff'
      BY <2>2, <2>4, <2>5 DEF RedirectInv, OneHandoff, SameTask
    <2>7. handoffs' \subseteq [task : Task, target : Target]
      BY <2>2, <2>4 DEF RedirectInv
    <2>8. QED
      BY <2>1, <2>3, <2>6, <2>7 DEF RedirectInv
  <1>4. QED
    BY <1>2, <1>3 DEF RedirectNext, HandoffStep, redirectVars

(* With handoffs as one more way to finish a task the queue keeps its      *)
(* promises and a task hands over once, for any tasks, workers and targets *)
(* (RedirectHandoffRepository.handoff).                                    *)
THEOREM HandoffSoundAlways == RedirectSpec => HandoffSound
  <1>1. RedirectInv => TypeOK /\ AttemptLedger /\ AckedIsAccepted /\ OneHandoff
    BY DEF RedirectInv, QueueInv, TaskInv, AttemptLedger, TypeOK, ActivationInv
  <1>2. RedirectInv /\ [RedirectNext]_redirectVars =>
           RedirectInv' /\ [\A t \in Task : KeptTask(t)]_vars
    BY RedirectNextInv
  <1>3. TerminalIsFinal <=> [][\A t \in Task : KeptTask(t)]_vars
    BY DEF TerminalIsFinal, KeptTask
  <1>4. QED
    BY <1>1, <1>2, <1>3, RedirectInitInv, PTL DEF RedirectSpec, HandoffSound

=============================================================================
