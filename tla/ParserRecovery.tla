--------------------------- MODULE ParserRecovery ---------------------------
(***************************************************************************)
(* Recovery of incompletely parsed pages after an activation, for one      *)
(* portal, composed with the activation of parser releases, and the read   *)
(* of the effective result.                                                *)
(*                                                                         *)
(* Code: src/homefinder/parser_recovery.py, the call of it at the end of   *)
(* ParserReleaseRegistry.activate, and outcome, complete and               *)
(* complete_artifact_replay of scrape_queue/repository.py.                 *)
(*                                                                         *)
(* A scrape task that is not a discovery ends only under the pointer it    *)
(* was claimed under (EpochFence of ScrapeQueue), so here its claim and    *)
(* its completion are one step under the current pointer; a lease that is  *)
(* lost leaves its task pending, which is no step at all.  Results are     *)
(* kept in the order of finished_at.  Every listing is active.             *)
(***************************************************************************)
EXTENDS ParserActivation, FiniteSets, SequencesExt

CONSTANTS
    Listing,        \* listings of the portal with a normalize job that waits
    TwoYears,       \* life of a result after fetched_at
    ThirtyDays,     \* life of a raw artifact after fetched_at
    BatchSizes,     \* <<50, 150>>: the batches before the remainder
    MaxSnapshot,    \* bound: snapshots per listing
    MaxResults      \* bound: parser results

ASSUME RecoveryAssumption ==
    /\ TwoYears \in Nat /\ ThirtyDays \in Nat /\ ThirtyDays <= TwoYears
    /\ BatchSizes \in Seq(Nat)
    /\ IsFiniteSet(Listing)
    /\ MaxSnapshot \in Nat /\ MaxResults \in Nat

VARIABLES
    snapshots,      \* newest snapshot of each listing
    pages,          \* PageCaptureRecord rows in the order they were stored
    parsed,         \* ProductionParserResultRecord with DiagnosticRunRecord
    replays,        \* artifact_recovery tasks with their bindings
    network,        \* network_recovery tasks in the order of creation
    campaign,       \* NetworkRecoveryCampaignRecord of each release
    legacy,         \* listings with a normalize job in retry_wait/dead_letter
    planning,       \* activations committed, their plan not made yet
    batches         \* history: NetworkRecoveryReleaseRecord rows

recoveryVars == <<snapshots, pages, parsed, replays, network, campaign,
                  legacy, planning, batches>>
recoverySystem == <<activationVars, recoveryVars>>

Shorter(a, b) == IF a < b THEN a ELSE b

-----------------------------------------------------------------------------
(* Activation and its plan *)

(* activate up to its commit; the plan is a session of its own.            *)
ActivateThenPlan(r, at) ==
    /\ Activate(r, at)
    /\ planning' = planning \cup {[release |-> r, epoch |-> activeEpoch + 1]}
    /\ UNCHANGED <<snapshots, pages, parsed, replays, network, campaign,
                   legacy, batches>>

(* The process ends between the two: nothing remembers the plan.           *)
PlanLost(plan) ==
    /\ planning' = planning \ {plan}
    /\ UNCHANGED <<activationVars, snapshots, pages, parsed, replays, network,
                   campaign, legacy, batches>>

PlannedAnyway(plan) == TRUE

(* "active is None or (release, epoch) differ: return ()".                 *)
StillActive(plan) ==
    /\ activeRelease = plan.release
    /\ activeEpoch = plan.epoch

(* The newest capture of the newest snapshot of a listing, if it has one.  *)
NewestPage(p) ==
    /\ pages[p].snapshot = snapshots[pages[p].listing]
    /\ \A q \in DOMAIN pages :
          (/\ pages[q].listing = pages[p].listing
           /\ pages[q].snapshot = pages[p].snapshot)
          => \/ pages[q].fetched < pages[p].fetched
             \/ pages[q].fetched = pages[p].fetched /\ q <= p

(* A stored result that a plan for release r reparses: newest page, other  *)
(* release, its artifact believed to be there, incomplete or withdrawn.    *)
Replayable(i, r) ==
    /\ NewestPage(parsed[i].page)
    /\ parsed[i].release # r
    /\ parsed[i].artifact /\ parsed[i].artifactUntil > now
    /\ parsed[i].missing \/ status[parsed[i].release] = "revoked"

(* plan_artifact_recovery: one task per listing, known keys (content and   *)
(* release) are left alone, so one capture and release never run twice.    *)
(* When several results of the capture qualify, any one is the binding.    *)
PlanArtifactRecovery(plan) ==
    /\ planning' = planning \ {plan}
    /\ \/ /\ StillActive(plan)
          /\ \E chosen \in SUBSET {i \in DOMAIN parsed : Replayable(i, plan.release)} :
                /\ \A i, j \in chosen : parsed[i].page = parsed[j].page => i = j
                /\ \A i \in DOMAIN parsed : Replayable(i, plan.release)
                      => \E j \in chosen : parsed[j].page = parsed[i].page
                /\ replays' = replays \cup
                      {[page |-> parsed[i].page, key |-> plan.release,
                        expires |-> parsed[i].expires, state |-> "pending"] :
                       i \in {j \in chosen : \A t \in replays :
                                ~(t.page = parsed[j].page /\ t.key = plan.release)}}
       \/ /\ ~StillActive(plan)
          /\ UNCHANGED replays
    /\ UNCHANGED <<activationVars, snapshots, pages, parsed, network, campaign,
                   legacy, batches>>

-----------------------------------------------------------------------------
(* Results *)

(* A new snapshot of a listing is observed.                                *)
Observe(l) ==
    /\ snapshots[l] < MaxSnapshot
    /\ snapshots' = [snapshots EXCEPT ![l] = @ + 1]
    /\ UNCHANGED <<activationVars, pages, parsed, replays, network, campaign,
                   legacy, planning, batches>>

(* complete: capture and result of a page fetched at f; an incomplete one  *)
(* has a diagnostic row, whose artifact lives as long as the raw page.     *)
Store(l, s, f, missing, uploaded) ==
    /\ Len(parsed) < MaxResults
    /\ pages' = Append(pages, [listing |-> l, snapshot |-> s, fetched |-> f])
    /\ parsed' = Append(parsed,
          [page |-> Len(pages) + 1, release |-> activeRelease,
           epoch |-> activeEpoch, missing |-> missing, replay |-> FALSE,
           artifact |-> missing /\ uploaded,
           artifactUntil |-> IF missing THEN f + ThirtyDays ELSE 0,
           expires |-> f + TwoYears])

(* The live task of the newest snapshot: one capture per snapshot.         *)
LiveCapture(l, f, missing, uploaded) ==
    /\ activeRelease # NoRelease
    /\ \A p \in DOMAIN pages :
          pages[p].listing = l => pages[p].snapshot < snapshots[l]
    /\ Store(l, snapshots[l], f, missing, uploaded)
    /\ UNCHANGED <<activationVars, snapshots, replays, network, campaign,
                   legacy, planning, batches>>

(* A released network_recovery task: a fresh capture of its snapshot.      *)
NetworkCapture(n, f, missing, uploaded) ==
    /\ network[n].state = "pending"
    /\ Store(network[n].listing, network[n].snapshot, f, missing, uploaded)
    /\ network' = [network EXCEPT ![n].state = "succeeded"]
    /\ UNCHANGED <<activationVars, snapshots, replays, campaign, legacy,
                   planning, batches>>

(* binding.result_expires_at, copied from the result it replaces.          *)
ReplayExpiry(t) == t.expires

(* complete_artifact_replay, under whichever release holds the pointer     *)
(* when the task is claimed.  The raw page must still be there.            *)
ReplayArtifact(t, missing) ==
    /\ t.state = "pending"
    /\ Len(parsed) < MaxResults
    /\ pages[t.page].fetched + ThirtyDays > now
    /\ parsed' = Append(parsed,
          [page |-> t.page, release |-> activeRelease, epoch |-> activeEpoch,
           missing |-> missing, replay |-> TRUE, artifact |-> missing,
           artifactUntil |-> IF missing THEN Shorter(ReplayExpiry(t), now + ThirtyDays)
                                        ELSE 0,
           expires |-> ReplayExpiry(t)])
    /\ replays' = (replays \ {t}) \cup {[t EXCEPT !.state = "succeeded"]}
    /\ UNCHANGED <<activationVars, snapshots, pages, network, campaign, legacy,
                   planning, batches>>

(* The replay worker fails: artifact gone, content hash differs, no parse. *)
ReplayFails(t) ==
    /\ t.state = "pending"
    /\ replays' = (replays \ {t}) \cup {[t EXCEPT !.state = "failed"]}
    /\ UNCHANGED <<activationVars, snapshots, pages, parsed, network, campaign,
                   legacy, planning, batches>>

-----------------------------------------------------------------------------
(* The effective result *)

PointerOnly(i) ==
    /\ parsed[i].expires > now
    /\ status[parsed[i].release] # "revoked"
    /\ parsed[i].release = activeRelease /\ parsed[i].epoch = activeEpoch

(* The WHERE clause of outcome.                                            *)
Effective(i) ==
    /\ parsed[i].expires > now
    /\ status[parsed[i].release] # "revoked"
    /\ \/ \E e \in DOMAIN audit :
             audit[e].release = parsed[i].release /\ e = parsed[i].epoch
       \/ parsed[i].release = activeRelease /\ parsed[i].epoch = activeEpoch

(* outcome of a snapshot: the effective result of the task that finished   *)
(* last, 0 when there is none.                                             *)
EffectiveOutcome(l, s) ==
    LET rows == {i \in DOMAIN parsed : /\ pages[parsed[i].page].listing = l
                                       /\ pages[parsed[i].page].snapshot = s
                                       /\ Effective(i)}
    IN  IF rows = {} THEN 0 ELSE CHOOSE i \in rows : \A j \in rows : j <= i

-----------------------------------------------------------------------------
(* Recovery over the network *)

(* supersede_legacy_backlog over the jobs of the listings it could lock:   *)
(* one held task per listing and release for the newest snapshot.          *)
SupersedeLegacy(locked) ==
    /\ activeRelease # NoRelease
    /\ locked # {}
    /\ legacy' = legacy \ locked
    /\ LET new == {l \in locked : \A n \in DOMAIN network :
                      ~(network[n].listing = l /\ network[n].key = activeRelease)}
       IN  network' = network \o SetToSeq({[listing |-> l, key |-> activeRelease,
                                            snapshot |-> snapshots[l],
                                            state |-> "held"] : l \in new})
    /\ UNCHANGED <<activationVars, snapshots, pages, parsed, replays, campaign,
                   planning, batches>>

HeldTasks == {n \in DOMAIN network : network[n].state = "held"}

(* Among the count oldest held tasks.                                      *)
OldestHeld(n, count) ==
    n \in HeldTasks /\ Cardinality({m \in HeldTasks : m < n}) < count

(* The only batch a campaign accepts next: "once in 50/150/remainder       *)
(* order"; none when it is paused.                                         *)
NextBatch(r) ==
    IF campaign[r].paused \/ campaign[r].next > Len(BatchSizes) THEN {}
    ELSE {<<campaign[r].next, r>>}

BatchCount(b) ==
    IF b < Len(BatchSizes)
    THEN Shorter(BatchSizes[b + 1], Cardinality(HeldTasks))
    ELSE Cardinality(HeldTasks)

(* release_network_batch with --execute and no source cooldown: the oldest *)
(* held tasks of the portal, counted against the active release.           *)
ReleaseNetworkBatch(b) ==
    /\ activeRelease # NoRelease
    /\ <<b, activeRelease>> \in NextBatch(activeRelease)
    /\ network' = [n \in DOMAIN network |->
          IF OldestHeld(n, BatchCount(b))
          THEN [network[n] EXCEPT !.state = "pending"] ELSE network[n]]
    /\ campaign' = [campaign EXCEPT ![activeRelease].next = @ + 1]
    /\ batches' = Append(batches, [release |-> activeRelease, batch |-> b,
                                   count |-> BatchCount(b)])
    /\ UNCHANGED <<activationVars, snapshots, pages, parsed, replays, legacy,
                   planning>>

(* pause_network_recovery; nothing ever clears the reason.                 *)
PauseNetworkRecovery(r) ==
    /\ ~campaign[r].paused
    /\ campaign' = [campaign EXCEPT ![r].paused = TRUE]
    /\ UNCHANGED <<activationVars, snapshots, pages, parsed, replays, network,
                   legacy, planning, batches>>

-----------------------------------------------------------------------------
RecoveryInit ==
    /\ snapshots = [l \in Listing |-> 1]
    /\ pages = <<>>
    /\ parsed = <<>>
    /\ replays = {}
    /\ network = <<>>
    /\ campaign = [r \in Release |-> [next |-> 0, paused |-> FALSE]]
    /\ legacy = Listing
    /\ planning = {}
    /\ batches = <<>>

ReplayStep ==
    \/ \E plan \in planning : PlanArtifactRecovery(plan) \/ PlanLost(plan)
    \/ \E t \in replays, missing \in BOOLEAN : ReplayArtifact(t, missing)
    \/ \E t \in replays : ReplayFails(t)

CaptureStep ==
    \/ \E l \in Listing : Observe(l)
    \/ \E l \in Listing, f \in Captured, missing, uploaded \in BOOLEAN :
          LiveCapture(l, f, missing, uploaded)
    \/ \E n \in DOMAIN network, f \in Captured, missing, uploaded \in BOOLEAN :
          NetworkCapture(n, f, missing, uploaded)

BacklogStep ==
    \/ \E locked \in SUBSET legacy : SupersedeLegacy(locked)
    \/ \E b \in 0..Len(BatchSizes) : ReleaseNetworkBatch(b)
    \/ \E r \in Release : PauseNetworkRecovery(r)

PointerStep ==
    \/ Tick /\ UNCHANGED recoveryVars
    \/ \E w \in Worker :
          RegisterWorker(w, advertised[w], healthy[w], now) /\ UNCHANGED recoveryVars
    \/ \E r \in Release, at \in Captured : ActivateThenPlan(r, at)
    \/ RollbackRead(activeEpoch) /\ UNCHANGED recoveryVars
    \/ \E plan \in rollbackPlans, at \in Captured :
          RollbackChange(plan, at) /\ UNCHANGED recoveryVars

RecoveryNext == PointerStep \/ CaptureStep \/ ReplayStep \/ BacklogStep

(* The registry alone: an activation here is one whose process ends before *)
(* it makes its plan.                                                      *)
RegistryNext == ActivationNext /\ UNCHANGED recoveryVars

(* From an empty database.                                                 *)
RecoverySpec ==
    /\ ActivationInit /\ RecoveryInit
    /\ [][RecoveryNext \/ RegistryNext]_recoverySystem

-----------------------------------------------------------------------------
(* A rollback hides what the withdrawn release parsed and nothing else:    *)
(* in every order of activations, replays and rollbacks, a snapshot with   *)
(* an unexpired result of a release that was not revoked has an outcome,   *)
(* although its release may be retired by now, and no outcome comes from a *)
(* revoked release.                                                        *)
RollbackKeepsOthers ==
    \A i \in DOMAIN parsed :
        LET page == pages[parsed[i].page]
            shown == EffectiveOutcome(page.listing, page.snapshot)
        IN  /\ parsed[i].expires > now /\ status[parsed[i].release] # "revoked"
                  => shown # 0
            /\ shown # 0 => status[parsed[shown].release] # "revoked"

(* Reparsing a page never keeps its values longer: through any chain of    *)
(* replays every result of a capture expires two years after the capture   *)
(* was fetched.                                                            *)
ReplayKeepsExpiry ==
    \A i \in DOMAIN parsed :
        parsed[i].expires = pages[parsed[i].page].fetched + TwoYears

(* A plan that comes late, after another activation or a rollback moved    *)
(* the pointer, schedules nothing: a new replay is always for the release  *)
(* that holds the pointer.                                                 *)
PlanIsForPointer ==
    [][\A t \in replays' \ replays : t.state = "pending" => t.key = activeRelease]_recoverySystem

(* Each batch of a release runs at most once and in order, also when the   *)
(* release loses the pointer and gets it back between two batches, so its  *)
(* campaign never lets more than the first batches through before the      *)
(* remainder.                                                              *)
BatchesInOrder ==
    \A i, j \in DOMAIN batches :
        i < j /\ batches[i].release = batches[j].release
            => batches[i].batch < batches[j].batch

(* Recovery keeps its promises together: what a rollback hides, how long   *)
(* values live, and the order of the batches of a release.                 *)
RecoveryInvariant == RollbackKeepsOthers /\ ReplayKeepsExpiry /\ BatchesInOrder

=============================================================================
