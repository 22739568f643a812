---------------------------- MODULE ScrapeQueue ----------------------------
(***************************************************************************)
(* The coordinator's scrape queue for one portal: tasks, fenced leases,    *)
(* numbered attempts and accepted results, composed with the activation of *)
(* parser releases that fences them.                                       *)
(*                                                                         *)
(* Code: src/homefinder/scrape_queue/repository.py behind the routes of    *)
(* scrape_queue/api.py.  A task stands for an idempotency key.  Every      *)
(* lease ever granted stays available to the clients (`granted'), so lost  *)
(* replies, retries, duplicated and late requests are all behaviours.      *)
(* The queue re-reads the clock after it has its locks (_current), so its  *)
(* operations compare with `now' itself.                                   *)
(***************************************************************************)
EXTENDS ParserActivation, FiniteSets

CONSTANTS
    Task,           \* idempotency keys
    ClassOf,        \* task_class of each key
    Content,        \* distinguishable capture contents (result_hash)
    NoWorker,       \* SQL NULL in lease_owner
    LeaseTime,      \* policy.lease_seconds
    MaxLease,       \* policy.max_lease_seconds
    MaxAttempts,    \* policy.max_attempts
    RetryBase,      \* 30 seconds in fail's backoff
    RetryCap,       \* 21600 seconds in fail's backoff
    MaxClaims       \* bound: claims of one task

Class == {"live", "artifact_recovery", "network_recovery", "discovery_capture"}

ASSUME QueueAssumption ==
    /\ ClassOf \in [Task -> Class]
    /\ NoWorker \notin Worker
    /\ LeaseTime \in Nat \ {0}
    /\ MaxLease \in Nat
    /\ LeaseTime <= MaxLease
    /\ MaxAttempts \in Nat \ {0}
    /\ RetryBase \in Nat
    /\ RetryCap \in Nat
    /\ MaxClaims \in Nat

VARIABLES
    taskState,      \* ScrapeTaskRecord.state, "none" before enqueue
    availableAt,    \* available_at
    attemptCount,   \* attempt_count
    lease,          \* the four lease_* columns
    taskRelease,    \* release_hash
    taskEpoch,      \* activation_epoch
    attempts,       \* ScrapeAttemptRecord rows by attempt_number
    accepted,       \* production result or discovery capture of the task
    claims,         \* lease tokens issued so far (uuid4 never repeats)
    claimAt,        \* workers whose claim is between its two transactions
    canary,         \* releases a discovery canary is being enqueued for
    granted,        \* history: every lease a claim returned
    acked           \* history: completions the coordinator answered with OK

taskVars == <<taskState, availableAt, attemptCount, lease, taskRelease,
              taskEpoch, attempts, accepted>>
queueVars == <<taskVars, claims, claimAt, canary, granted, acked>>
vars == <<activationVars, queueVars>>

NoLease == [owner |-> NoWorker, token |-> 0, started |-> 0, expires |-> 0]
NoAttempt == [token |-> 0, owner |-> NoWorker, release |-> NoRelease,
              epoch |-> 0, started |-> 0, outcome |-> "none"]
NoResult == [token |-> 0, release |-> NoRelease, epoch |-> 0, content |-> 0,
             fetchedAt |-> 0]

TaskState == {"none", "held", "pending", "deferred", "running",
              "succeeded", "failed"}
Outcome == {"none", "open", "succeeded", "failed", "deferred", "lease-expired"}
AttemptNumber == 1..MaxAttempts
LeaseColumns == [owner : Worker \cup {NoWorker}, token : Nat,
                 started : Nat, expires : Nat]
AttemptRow == [token : Nat, owner : Worker \cup {NoWorker},
               release : Release \cup {NoRelease}, epoch : Nat,
               started : Nat, outcome : Outcome]
ResultRow == [token : Nat, release : Release \cup {NoRelease}, epoch : Nat,
              content : Content \cup {0}, fetchedAt : Nat]
ScrapeLease == [task : Task, owner : Worker, token : Nat,
                attempt : AttemptNumber, release : Release, epoch : Nat]

Discovery(t) == ClassOf[t] = "discovery_capture"
Priority(t) == CASE ClassOf[t] = "live" -> 0
                 [] ClassOf[t] = "artifact_recovery" -> 10
                 [] ClassOf[t] = "network_recovery" -> 20
                 [] OTHER -> 30
Running(t) == taskState[t] = "running"
Terminal == {"succeeded", "failed"}
Smaller(a, b) == IF a < b THEN a ELSE b

-----------------------------------------------------------------------------
(* Creation of tasks *)

(* enqueue of a production task: bound to the active release; recovery     *)
(* over the network is created on hold.  A known key is returned as is.    *)
Enqueue(t, at) ==
    /\ ~Discovery(t)
    /\ taskState[t] = "none"
    /\ activeRelease # NoRelease
    /\ taskState' = [taskState EXCEPT
            ![t] = IF ClassOf[t] = "network_recovery" THEN "held" ELSE "pending"]
    /\ availableAt' = [availableAt EXCEPT ![t] = at]
    /\ taskRelease' = [taskRelease EXCEPT ![t] = activeRelease]
    /\ taskEpoch' = [taskEpoch EXCEPT ![t] = activeEpoch]
    /\ UNCHANGED <<activationVars, attemptCount, lease, attempts, accepted,
                   claims, claimAt, canary, granted, acked>>

(* A release discovery may be bound to (no need to be active).             *)
Discoverable(r) == status[r] \notin {"absent", "revoked"}

(* release_discovery_canary, first session: only while no parser is active.*)
StartCanary(r) ==
    /\ activeRelease = NoRelease
    /\ Discoverable(r)
    /\ canary' = canary \cup {r}
    /\ UNCHANGED <<activationVars, taskVars, claims, claimAt, granted, acked>>

(* ... and then one enqueue transaction per selected snapshot, during      *)
(* which a first activation may already have happened.  The epoch is 1.    *)
EnqueueDiscovery(t, r, at) ==
    /\ Discovery(t)
    /\ taskState[t] = "none"
    /\ r \in canary
    /\ Discoverable(r)
    /\ taskState' = [taskState EXCEPT ![t] = "pending"]
    /\ availableAt' = [availableAt EXCEPT ![t] = at]
    /\ taskRelease' = [taskRelease EXCEPT ![t] = r]
    /\ taskEpoch' = [taskEpoch EXCEPT ![t] = 1]
    /\ UNCHANGED <<activationVars, attemptCount, lease, attempts, accepted,
                   claims, claimAt, canary, granted, acked>>

-----------------------------------------------------------------------------
(* Claim: a reaping transaction, then a claiming transaction *)

Expired == {t \in Task : Running(t) /\ lease[t].expires <= now}

ReapedForRetry(t) == "pending"

(* The state an expired lease leaves its task in.                          *)
ReapedState(t) == IF attemptCount[t] >= MaxAttempts THEN "failed" ELSE "pending"

CloseAttempt(t, outcome) ==
    [attempts[t] EXCEPT ![attemptCount[t]].outcome = outcome]

(* claim, first transaction (reap_expired).  SKIP LOCKED and the batch     *)
(* limit may leave expired tasks behind, hence a subset.                   *)
ClaimReap(w, batch) ==
    /\ claimAt[w] = {}
    /\ claimAt' = [claimAt EXCEPT ![w] = {now}]
    /\ taskState' = [t \in Task |->
            IF t \in batch THEN ReapedState(t) ELSE taskState[t]]
    /\ availableAt' = [t \in Task |-> IF t \in batch THEN now ELSE availableAt[t]]
    /\ attempts' = [t \in Task |->
            IF t \in batch THEN CloseAttempt(t, "lease-expired") ELSE attempts[t]]
    /\ lease' = [t \in Task |-> IF t \in batch THEN NoLease ELSE lease[t]]
    /\ UNCHANGED <<activationVars, attemptCount, taskRelease, taskEpoch,
                   accepted, claims, canary, granted, acked>>

(* Task classes of the two claim routes; recovery from artifacts is for    *)
(* NAS identities only.                                                    *)
ClaimRoutes(w) ==
    {{"live", "network_recovery", "discovery_capture"}}
        \cup IF w \in Nas THEN {{"artifact_recovery"}} ELSE {}

EligibleFinished(t, classes, at) ==
    /\ ClassOf[t] \in classes
    /\ activeRelease = NoRelease => Discovery(t)
    /\ taskState[t] \notin {"none", "held", "running"}
    /\ availableAt[t] <= at
    /\ attemptCount[t] < MaxAttempts

(* The WHERE clause of claim.                                              *)
Eligible(t, classes, at) ==
    /\ ClassOf[t] \in classes
    /\ activeRelease = NoRelease => Discovery(t)
    /\ taskState[t] \in {"pending", "deferred"}
    /\ availableAt[t] <= at
    /\ attemptCount[t] < MaxAttempts

(* The ORDER BY of claim; created_at and id only break ties.               *)
Before(u, t) ==
    \/ Priority(u) < Priority(t)
    \/ Priority(u) = Priority(t) /\ availableAt[u] < availableAt[t]

(* The release a claim of t binds: discovery keeps its own, every other    *)
(* class is bound anew to the pointer read in this transaction.            *)
BoundRelease(t) == IF Discovery(t) THEN taskRelease[t] ELSE activeRelease
BoundEpoch(t) == IF Discovery(t) THEN taskEpoch[t] ELSE activeEpoch

(* claim, second transaction: `at' was read before the reaping, the clock  *)
(* is read again once the task row is locked.  `locked' are the rows other *)
(* claims hold (SKIP LOCKED), one per other worker.                        *)
ClaimTask(w, t, classes, locked) ==
    /\ claims[t] < MaxClaims
    /\ \E at \in claimAt[w] :
          /\ Fresh(w, at) /\ Fresh(w, now)
          /\ t \notin locked
          /\ Eligible(t, classes, at)
          /\ \A u \in Task \ locked : Eligible(u, classes, at) => ~Before(u, t)
    /\ BoundRelease(t) \in advertised[w]
    /\ taskState' = [taskState EXCEPT ![t] = "running"]
    /\ taskRelease' = [taskRelease EXCEPT ![t] = BoundRelease(t)]
    /\ taskEpoch' = [taskEpoch EXCEPT ![t] = BoundEpoch(t)]
    /\ attemptCount' = [attemptCount EXCEPT ![t] = @ + 1]
    /\ claims' = [claims EXCEPT ![t] = @ + 1]
    /\ lease' = [lease EXCEPT ![t] = [owner |-> w, token |-> claims[t] + 1,
                                      started |-> now,
                                      expires |-> now + LeaseTime]]
    /\ attempts' = [attempts EXCEPT ![t][attemptCount[t] + 1] =
            [token |-> claims[t] + 1, owner |-> w,
             release |-> BoundRelease(t), epoch |-> BoundEpoch(t),
             started |-> now, outcome |-> "open"]]
    /\ granted' = granted \cup
            {[task |-> t, owner |-> w, token |-> claims[t] + 1,
              attempt |-> attemptCount[t] + 1,
              release |-> BoundRelease(t), epoch |-> BoundEpoch(t)]}
    /\ claimAt' = [claimAt EXCEPT ![w] = {}]
    /\ UNCHANGED <<activationVars, availableAt, accepted, canary, acked>>

(* claim ends with nothing: no eligible task, a stale or unhealthy worker, *)
(* a release the worker does not advertise, or a failed transaction.       *)
ClaimNothing(w) ==
    /\ claimAt[w] # {}
    /\ claimAt' = [claimAt EXCEPT ![w] = {}]
    /\ UNCHANGED <<activationVars, taskVars, claims, canary, granted, acked>>

-----------------------------------------------------------------------------
(* Operations on a lease *)

Unfenced(l) ==
    /\ l.owner \in registered
    /\ Running(l.task)
    /\ lease[l.task].owner = l.owner
    /\ lease[l.task].token = l.token
    /\ lease[l.task].expires > now
    /\ attemptCount[l.task] = l.attempt
    /\ taskRelease[l.task] = l.release
    /\ taskEpoch[l.task] = l.epoch

(* _leased: the presented lease is the current one, unexpired, and from    *)
(* the current activation epoch.                                           *)
Leased(l) ==
    /\ l.owner \in registered
    /\ Running(l.task)
    /\ lease[l.task].owner = l.owner
    /\ lease[l.task].token = l.token
    /\ lease[l.task].expires > now
    /\ attemptCount[l.task] = l.attempt
    /\ taskRelease[l.task] = l.release
    /\ taskEpoch[l.task] = l.epoch
    /\ \/ Discovery(l.task)
       \/ taskRelease[l.task] = activeRelease /\ taskEpoch[l.task] = activeEpoch

(* heartbeat's new deadline.                                               *)
Renewed(t) == Smaller(now + LeaseTime, lease[t].started + MaxLease)

Heartbeat(l) ==
    /\ Leased(l)
    /\ Renewed(l.task) > now
    /\ lease' = [lease EXCEPT ![l.task].expires = Renewed(l.task)]
    /\ UNCHANGED <<activationVars, taskState, availableAt, attemptCount,
                   taskRelease, taskEpoch, attempts, accepted, claims,
                   claimAt, canary, granted, acked>>

(* The end of an attempt shared by _finish and the completions: task and   *)
(* attempt row closed with the same outcome, lease cleared.                *)
Close(t, outcome) ==
    /\ taskState' = [taskState EXCEPT ![t] = outcome]
    /\ attempts' = [attempts EXCEPT ![t] = CloseAttempt(t, outcome)]
    /\ lease' = [lease EXCEPT ![t] = NoLease]
    /\ UNCHANGED <<activationVars, attemptCount, taskRelease, taskEpoch,
                   claims, claimAt, canary, granted>>

Capture(l, c, f) == [token |-> l.token, release |-> l.release,
                     epoch |-> l.epoch, content |-> c, fetchedAt |-> f]

CaptureAnyAge(l, c, f) ==
    /\ ClassOf[l.task] # "artifact_recovery"
    /\ accepted[l.task] = NoResult
    /\ Leased(l)

(* The gates of complete before it stores a capture fetched at f.          *)
CaptureAllowed(l, c, f) ==
    /\ ClassOf[l.task] # "artifact_recovery"
    /\ accepted[l.task] = NoResult
    /\ Leased(l)
    /\ lease[l.task].started <= f

(* complete with no prior result: capture, result and success together.    *)
Complete(l, c, f) ==
    /\ CaptureAllowed(l, c, f)
    /\ Close(l.task, "succeeded")
    /\ accepted' = [accepted EXCEPT ![l.task] = Capture(l, c, f)]
    /\ acked' = acked \cup {[task |-> l.task, content |-> c, fetchedAt |-> f]}
    /\ UNCHANGED availableAt

ReplayOfAnything(l, c, f) ==
    /\ ClassOf[l.task] # "artifact_recovery"
    /\ accepted[l.task] # NoResult

(* When complete answers OK because the outcome is already stored.  For    *)
(* discovery only the capture is compared; for production the lease must   *)
(* also be the one of its attempt row and of the stored epoch.             *)
ReplayAllowed(l, c, f) ==
    LET prior == accepted[l.task]
        row == attempts[l.task][l.attempt]
    IN  /\ ClassOf[l.task] # "artifact_recovery"
        /\ prior # NoResult
        /\ prior.content = c /\ prior.fetchedAt = f
        /\ ~Discovery(l.task) =>
              /\ prior.release = l.release /\ prior.epoch = l.epoch
              /\ row.token = l.token /\ row.owner = l.owner

(* complete of an outcome that is already stored: acknowledged again.      *)
CompleteAgain(l, c, f) ==
    /\ ReplayAllowed(l, c, f)
    /\ acked' = acked \cup {[task |-> l.task, content |-> c, fetchedAt |-> f]}
    /\ UNCHANGED <<activationVars, taskVars, claims, claimAt, canary, granted>>

(* complete_artifact_replay: the capture is the bound artifact's, so its   *)
(* fetch time is not compared with the lease (0 here).  It has no replay.  *)
CompleteArtifactReplay(l, c) ==
    /\ ClassOf[l.task] = "artifact_recovery"
    /\ Leased(l)
    /\ Close(l.task, "succeeded")
    /\ accepted' = [accepted EXCEPT ![l.task] = Capture(l, c, 0)]
    /\ acked' = acked \cup {[task |-> l.task, content |-> c, fetchedAt |-> 0]}
    /\ UNCHANGED availableAt

(* succeed: an acknowledgement that stores no result.                      *)
Succeed(l) ==
    /\ Leased(l)
    /\ Close(l.task, "succeeded")
    /\ UNCHANGED <<availableAt, accepted, acked>>

(* The delay before a failed transport is tried again.                     *)
Backoff(n) == Smaller(RetryCap, RetryBase * 2 ^ (n - 1))

(* fail(transport-error) with attempts left: deferred by the backoff.      *)
FailRetry(l) ==
    /\ Leased(l)
    /\ attemptCount[l.task] < MaxAttempts
    /\ Close(l.task, "deferred")
    /\ \E delay \in 0..RetryCap :
          /\ delay = Backoff(attemptCount[l.task])
          /\ availableAt' = [availableAt EXCEPT ![l.task] = now + delay]
    /\ UNCHANGED <<accepted, acked>>

(* fail with a permanent code, or transport-error on the last attempt.     *)
Fail(l, code) ==
    /\ Leased(l)
    /\ code = "transport-error" => attemptCount[l.task] >= MaxAttempts
    /\ Close(l.task, "failed")
    /\ UNCHANGED <<availableAt, accepted, acked>>

(* defer(portal-denied / source-cooldown): counts as an attempt, so the    *)
(* last one fails the task.                                                *)
Defer(l, until) ==
    /\ Leased(l)
    /\ \/ /\ attemptCount[l.task] < MaxAttempts
          /\ Close(l.task, "deferred")
          /\ availableAt' = [availableAt EXCEPT ![l.task] = until]
       \/ /\ attemptCount[l.task] >= MaxAttempts
          /\ Close(l.task, "failed")
          /\ UNCHANGED availableAt
    /\ UNCHANGED <<accepted, acked>>

RefundKeepsRow(t) == attempts[t]

(* The attempt rows after a refund: the current one is deleted.            *)
Refunded(t) == [attempts[t] EXCEPT ![attemptCount[t]] = NoAttempt]

(* defer(budget-exhausted): the attempt never reached the network and is   *)
(* given back, row and number.                                             *)
DeferBudget(l, until) ==
    /\ Leased(l)
    /\ taskState' = [taskState EXCEPT ![l.task] = "deferred"]
    /\ attempts' = [attempts EXCEPT ![l.task] = Refunded(l.task)]
    /\ attemptCount' = [attemptCount EXCEPT ![l.task] = @ - 1]
    /\ availableAt' = [availableAt EXCEPT ![l.task] = until]
    /\ lease' = [lease EXCEPT ![l.task] = NoLease]
    /\ UNCHANGED <<activationVars, taskRelease, taskEpoch, accepted, claims,
                   claimAt, canary, granted, acked>>

-----------------------------------------------------------------------------
QueueInit ==
    /\ taskState = [t \in Task |-> "none"]
    /\ availableAt = [t \in Task |-> 0]
    /\ attemptCount = [t \in Task |-> 0]
    /\ lease = [t \in Task |-> NoLease]
    /\ taskRelease = [t \in Task |-> NoRelease]
    /\ taskEpoch = [t \in Task |-> 0]
    /\ attempts = [t \in Task |-> [n \in AttemptNumber |-> NoAttempt]]
    /\ accepted = [t \in Task |-> NoResult]
    /\ claims = [t \in Task |-> 0]
    /\ claimAt = [w \in Worker |-> {}]
    /\ canary = {}
    /\ granted = {}
    /\ acked = {}

Init == ActivationInit /\ QueueInit

(* Deferral deadlines: the ones beyond the horizon are all alike.          *)
Deadline == 0..(MaxTime + 1)

(* The sets of rows the other workers' claims may hold.                    *)
LockedRows == {locked \in SUBSET Task : Cardinality(locked) < Cardinality(Worker)}

ClaimStep ==
    \/ \E w \in Worker, batch \in SUBSET Expired : ClaimReap(w, batch)
    \/ \E w \in Worker, t \in Task, locked \in LockedRows :
          \E classes \in ClaimRoutes(w) : ClaimTask(w, t, classes, locked)
    \/ \E w \in Worker : ClaimNothing(w)

EnqueueStep ==
    \/ \E t \in Task, at \in Captured : Enqueue(t, at)
    \/ \E r \in Release : StartCanary(r)
    \/ \E t \in Task, r \in Release, at \in Captured : EnqueueDiscovery(t, r, at)

(* available_at <= now was refused before the lock was taken.              *)
DeferStep ==
    \E l \in granted, at \in Captured, until \in Deadline :
        until > at /\ (Defer(l, until) \/ DeferBudget(l, until))

CompleteStep ==
    \/ \E l \in granted, c \in Content, f \in 0..now : Complete(l, c, f)
    \/ \E l \in granted, c \in Content, f \in 0..now : CompleteAgain(l, c, f)
    \/ \E l \in granted, c \in Content : CompleteArtifactReplay(l, c)

FinishStep ==
    \/ \E l \in granted : Heartbeat(l) \/ Succeed(l) \/ FailRetry(l)
    \/ \E l \in granted : Fail(l, "parser-error") \/ Fail(l, "transport-error")

Next ==
    \/ ActivationNext /\ UNCHANGED queueVars
    \/ EnqueueStep
    \/ ClaimStep
    \/ CompleteStep
    \/ FinishStep
    \/ DeferStep

Spec == Init /\ [][Next]_vars

-----------------------------------------------------------------------------
(* Types of the queue's rows; attempt_count never passes max_attempts.     *)
QueueTypeOK ==
    /\ taskState \in [Task -> TaskState]
    /\ availableAt \in [Task -> Nat]
    /\ attemptCount \in [Task -> 0..MaxAttempts]
    /\ lease \in [Task -> LeaseColumns]
    /\ taskRelease \in [Task -> Release \cup {NoRelease}]
    /\ taskEpoch \in [Task -> Nat]
    /\ attempts \in [Task -> [AttemptNumber -> AttemptRow]]
    /\ accepted \in [Task -> ResultRow]
    /\ claims \in [Task -> Nat]
    /\ claimAt \in [Worker -> SUBSET Nat]
    /\ canary \subseteq Release
    /\ granted \subseteq ScrapeLease
    /\ acked \subseteq [task : Task, content : Content, fetchedAt : Nat]

TypeOK == ActivationTypeOK /\ QueueTypeOK

(* The ledger of one task: rows for exactly the attempts 1..attempt_count, *)
(* the newest one open and matching the lease while the task runs.         *)
LedgerOf(t) ==
    /\ \A n \in AttemptNumber :
          /\ attempts[t][n].outcome = "none" <=> n > attemptCount[t]
          /\ attempts[t][n].outcome = "open" <=> Running(t) /\ n = attemptCount[t]
    /\ Running(t) =>
          LET row == attempts[t][attemptCount[t]]
          IN  /\ attemptCount[t] > 0
              /\ row.token = lease[t].token /\ row.owner = lease[t].owner
              /\ row.release = taskRelease[t] /\ row.epoch = taskEpoch[t]
              /\ row.started = lease[t].started
              /\ lease[t].token = claims[t]
              /\ lease[t].token > 0
    /\ ~Running(t) => lease[t] = NoLease

(* The attempt ledger agrees with the task row through claims, expiries,   *)
(* refunds and completions: exactly the attempts 1..attempt_count have a   *)
(* row; a running task has exactly one open attempt, its newest, and that  *)
(* row names the holder, token and epoch of the lease; any other task has  *)
(* no lease and no open attempt.                                           *)
AttemptLedger == \A t \in Task : LedgerOf(t)

(* A task that waits for another claim has an attempt left for it: no      *)
(* path of failures, deferrals and expiries strands a task that claim's    *)
(* attempt_count < max_attempts would never select.                        *)
RetryBudgetLeft ==
    \A t \in Task : taskState[t] \in {"none", "held", "pending", "deferred"}
                        => attemptCount[t] < MaxAttempts

(* The result stored for one task, if any, is genuine.                     *)
GenuineOf(t) ==
    accepted[t] # NoResult =>
        /\ taskState[t] = "succeeded"
        /\ \E n \in AttemptNumber :
              /\ attempts[t][n].token = accepted[t].token
              /\ attempts[t][n].outcome = "succeeded"
              /\ ClassOf[t] # "artifact_recovery"
                    => attempts[t][n].started <= accepted[t].fetchedAt
        /\ ~Discovery(t) =>
              /\ accepted[t].epoch \in DOMAIN audit
              /\ audit[accepted[t].epoch].release = accepted[t].release

(* A stored result belongs to a task that succeeded for good, was fetched  *)
(* during the very lease that delivered it (never under an earlier, lost   *)
(* lease of the same task), and carries the release that held the pointer  *)
(* in the epoch it is stamped with.                                        *)
AcceptedIsGenuine == \A t \in Task : GenuineOf(t)

(* Whatever completion was ever answered with OK, first or repeated, by    *)
(* whichever worker, is the stored one: two workers are never both told    *)
(* that different captures of a task were accepted.                        *)
AckedIsAccepted ==
    \A a \in acked : /\ accepted[a.task].content = a.content
                     /\ accepted[a.task].fetchedAt = a.fetchedAt
                     /\ accepted[a.task] # NoResult

(* The deadline of one running task.                                       *)
WindowOf(t) ==
    Running(t) =>
        /\ lease[t].started <= now
        /\ lease[t].expires <= now + LeaseTime
        /\ lease[t].expires <= lease[t].started + MaxLease

(* Renewal is bounded: no sequence of heartbeats keeps a lease beyond      *)
(* max_lease after its start, or more than one lease time ahead of now.    *)
LeaseWindow == \A t \in Task : WindowOf(t)

(* Finished is final: no late request, reaping or new claim moves a        *)
(* succeeded or failed task, and a stored result never changes.            *)
TerminalIsFinal ==
    [][\A t \in Task :
          /\ taskState[t] \in Terminal => taskState'[t] = taskState[t]
          /\ accepted[t] # NoResult => accepted'[t] = accepted[t]]_vars

(* From the moment a rollback or activation moves the pointer, a lease of  *)
(* the old epoch can neither finish nor defer its task nor be renewed; it  *)
(* can only run out.                                                       *)
EpochFence ==
    [][\A t \in Task :
          (/\ ~Discovery(t)
           /\ Running(t)
           /\ \/ taskState'[t] \in {"succeeded", "deferred"}
              \/ lease'[t].expires > lease[t].expires)
          => /\ taskRelease[t] = activeRelease
             /\ taskEpoch[t] = activeEpoch]_vars

=============================================================================
