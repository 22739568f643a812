--------------------------- MODULE WorkflowStages ---------------------------
(***************************************************************************)
(* What the stages of the workflow do with catalog items: normalise (from  *)
(* a page or from the alert alone), enrich, match, report; the scheduler   *)
(* that asks for reports and hands them to delivery; the reconciliation    *)
(* that enqueues whatever is missing; while the buyer approves profiles,   *)
(* pages arrive late and workers stop half way.                            *)
(*                                                                         *)
(* Code: src/homefinder/workflow/service.py, catalog/profile_repository.py *)
(* and the loops of cli._run_container_runtime.  How a job is leased and   *)
(* acknowledged is the subject of WorkflowJobs; here a job is open until   *)
(* it settles, and any worker may run an open job, two of them at once     *)
(* when a lease ran out.  The scrape queue is seen as the service sees it: *)
(* a task that is pending, failed, or has an outcome.                      *)
(***************************************************************************)
EXTENDS Naturals, Sequences, FiniteSets, FiniteSetsExt

CONSTANTS
    Item,           \* source message items, one snapshot each
    CandidateOf,    \* candidate an item belongs to
    Queued,         \* items whose portal is scraped through the queue
    Scraped,        \* items whose portal is scraped by the stage itself
    ReportPeriod,   \* report periods: the time of their cutoff
    SlateLimit,     \* limit of a report section
    Stager,         \* workflow worker processes
    MaxVersion,     \* bound: profile versions
    StageHorizon,   \* bound: clock
    MaxEvents       \* bound: items, approvals, stops and lost leases together

ASSUME StageAssumption ==
    /\ {MaxVersion, StageHorizon, MaxEvents, SlateLimit} \subseteq Nat
    /\ ReportPeriod \subseteq 1..StageHorizon
    /\ Queued \cap Scraped = {}
    /\ Item \subseteq DOMAIN CandidateOf

Version == 1..MaxVersion
StageKey == ({"normalize", "enrich"} \X Item) \cup ({"match"} \X Item \X Version)
              \cup ({"report"} \X ReportPeriod)

VARIABLES
    stageClock,
    items,          \* source_message_items
    approved,       \* approved buyer profile versions
    job,            \* state of the job of each idempotency key
    scrape,         \* what scrape_queue.outcome and task_state say
    facts,          \* candidate_fact_sets: what each was made from
    evaluations,    \* candidate_match_evaluations
    drafts,         \* report_drafts with their items
    handed,         \* the draft the outbox holds for a period
    stage,          \* what each worker is in the middle of
    stops           \* counted for the bound

stageVars == <<stageClock, items, approved, job, scrape, facts, evaluations,
               drafts, handed, stage, stops>>

(* The bound on what the environment does.                                 *)
EventsLeft == Cardinality(items) + Cardinality(approved) + stops < MaxEvents

NoStage == [key |-> <<>>]
NotHanded == [version |-> 0]

(* active: the highest approved version, however late it was approved.     *)
ActiveVersion == IF approved = {} THEN 0 ELSE Max(approved)

(* jobs.enqueue: a known key is left as it is, settled or not.             *)
Enqueued(keys) ==
    [k \in StageKey |-> IF k \in keys /\ job[k] = "none" THEN "open" ELSE job[k]]

-----------------------------------------------------------------------------
MatchOncePerFacts(s) == <<"match", s, 1>>

MatchKey(s) == <<"match", s, ActiveVersion>>

(* The stage reconcile_catalog asks for an item.                           *)
MissingStage(s) ==
    CASE facts[s] = "none" -> <<"normalize", s>>
      [] facts[s] # "none" /\ ActiveVersion = 0 -> <<"enrich", s>>
      [] OTHER -> MatchKey(s)

MissingStages == {MissingStage(s) : s \in items}

(* reconcile_catalog, at the start of every iteration of a worker.         *)
Reconcile ==
    /\ job' = Enqueued(MissingStages)
    /\ job' # job
    /\ UNCHANGED <<stageClock, items, approved, scrape, facts, evaluations,
                   drafts, handed, stage, stops>>

Due == {p \in ReportPeriod : p <= stageClock}

OldestDue == IF Due = {} THEN 0 ELSE Min(Due)

(* DailyScheduler.most_recent_due_period; 0 before the first.              *)
LatestDue == Max(Due \cup {0})

ReadyFor(p) == {d \in drafts : d.period = p}

(* An iteration of the scheduler: reconcile, ask for the report of the     *)
(* most recent due period unless the outbox has it, and hand the newest    *)
(* draft of that period to the outbox.                                     *)
Schedule ==
    /\ LatestDue # 0
    /\ LET p == LatestDue
           ready == ReadyFor(p)
           newest == {d \in ready : \A e \in ready : e.prepared <= d.prepared}
       IN  IF handed[p] # NotHanded
             THEN job' = Enqueued(MissingStages) /\ UNCHANGED handed
             ELSE /\ job' = Enqueued(MissingStages \cup {<<"report", p>>})
                  /\ \/ ready = {} /\ UNCHANGED handed
                     \/ \E d \in newest : handed' = [handed EXCEPT ![p] = d]
    /\ <<job, handed>>' # <<job, handed>>
    /\ UNCHANGED <<stageClock, items, approved, scrape, facts, evaluations,
                   drafts, stage, stops>>

-----------------------------------------------------------------------------
Resting(w) == stage[w] = NoStage

(* claim: a job that another worker runs only once the lease ran out.      *)
Claims(w, k) ==
    /\ Resting(w)
    /\ job[k] = "open"
    /\ IF \E u \in Stager : stage[u].key = k
         THEN EventsLeft /\ stops' = stops + 1
         ELSE UNCHANGED stops

(* run_once claims a job and its handler reads what it needs.              *)
BeginStage(w, k, read) ==
    /\ Claims(w, k)
    /\ stage' = [stage EXCEPT ![w] = [key |-> k, at |-> stageClock,
                                      phase |-> "read", read |-> read]]
    /\ UNCHANGED <<stageClock, items, approved, job, scrape, facts, evaluations,
                   drafts, handed>>

SettleJob(k, state) == job' = [job EXCEPT ![k] = state]

(* No approved profile: the stage asks for manual review.  A version that  *)
(* is no longer active: the match is a permanent error.                    *)
Refusal(k) ==
    CASE k[1] = "normalize" -> "none"
      [] k[1] # "normalize" /\ ActiveVersion = 0 -> "review"
      [] k[1] = "match" /\ ActiveVersion \notin {0, k[Len(k)]} -> "dead"
      [] OTHER -> "none"

Accepts(w, k) == Resting(w) /\ job[k] = "open" /\ Refusal(k) = "none"

Refuse(w, k) ==
    /\ Claims(w, k)
    /\ Refusal(k) # "none"
    /\ SettleJob(k, Refusal(k))
    /\ UNCHANGED <<stageClock, items, approved, scrape, facts, evaluations,
                   drafts, handed, stage>>

(* _queued_listing: the scrape task is enqueued; a pending one defers the  *)
(* job, which stays open.                                                  *)
AwaitScrape(s) ==
    /\ job[<<"normalize", s>>] = "open"
    /\ facts[s] = "none"
    /\ s \in Queued
    /\ scrape[s] = "none"
    /\ scrape' = [scrape EXCEPT ![s] = "pending"]
    /\ UNCHANGED <<stageClock, items, approved, job, facts, evaluations, drafts,
                   handed, stage, stops>>

(* _queued_listing and _scrape_listing: without a page the facts of the    *)
(* alert have to do.                                                       *)
PageOf(s) == IF s \in Scraped \/ scrape[s] = "outcome" THEN "page" ELSE "alert"

BeginNormalize(w, s) ==
    /\ facts[s] # "none" \/ s \notin Queued \/ scrape[s] \in {"failed", "outcome"}
    /\ BeginStage(w, <<"normalize", s>>, [new |-> facts[s] = "none",
                                          output |-> PageOf(s)])

(* _enrich: the version it reads names the match job.                      *)
BeginEnrich(w, s) ==
    /\ Accepts(w, <<"enrich", s>>)
    /\ BeginStage(w, <<"enrich", s>>, [new |-> FALSE, output |-> ActiveVersion])

(* _match: an evaluation of these facts for the active version.            *)
BeginMatch(w, s, v) ==
    /\ Accepts(w, <<"match", s, v>>)
    /\ BeginStage(w, <<"match", s, v>>,
            [new |-> ~\E e \in evaluations : e.item = s /\ e.version = v,
             output |-> [item |-> s, version |-> v, at |-> stageClock,
                         from |-> facts[s]]])

InTime(e, p) == e.at <= p

(* Evaluations a report of period p may use: of the active profile, and    *)
(* not after the cutoff.                                                   *)
Usable(p) == {e \in evaluations : e.version = ActiveVersion /\ InTime(e, p)}

(* The newest evaluation of each candidate (equal times go by id).         *)
NewestEach(usable) ==
    {chosen \in SUBSET usable :
        /\ \A e \in usable : \E c \in chosen :
                CandidateOf[c.item] = CandidateOf[e.item] /\ c.at >= e.at
        /\ \A c, d \in chosen : CandidateOf[c.item] = CandidateOf[d.item] => c = d}

(* prepare_report: profile, evaluations and a slate of them (how it ranks  *)
(* and whom it leaves out is the subject of Matching), without the items   *)
(* of listings that the buyer has rated so far.                            *)
BeginReport(w, p) ==
    /\ Accepts(w, <<"report", p>>)
    /\ \E rated \in SUBSET Item :
       \E newest \in NewestEach({e \in Usable(p) : e.item \notin rated}) :
       \E slate \in {chosen \in SUBSET newest : Cardinality(chosen) <= SlateLimit} :
          BeginStage(w, <<"report", p>>,
            [new |-> ~\E d \in drafts : d.period = p /\ d.version = ActiveVersion,
             output |-> [period |-> p, version |-> ActiveVersion, slate |-> slate,
                         prepared |-> stageClock]])

-----------------------------------------------------------------------------
InPhase(w, phase) == ~Resting(w) /\ stage[w].phase = phase
RunningKey(w) == stage[w].key
ToPhase(w, phase) == stage' = [stage EXCEPT ![w].phase = phase]

WriteAnyway(w) == FALSE

(* Fact sets, evaluations and drafts have unique keys: what another worker *)
(* wrote since this one looked makes the insert fail.                      *)
Overtaken(w) ==
    LET k == RunningKey(w) IN
    /\ stage[w].read.new
    /\ CASE k[1] = "normalize" -> facts[k[2]] # "none"
         [] k[1] = "match" -> \E e \in evaluations : e.item = k[2] /\ e.version = k[3]
         [] OTHER -> \E d \in drafts : /\ d.period = k[2]
                                       /\ d.version = stage[w].read.output.version

(* The stage commits its output, if it found none.                         *)
Write(w) ==
    /\ InPhase(w, "read")
    /\ ~Overtaken(w)
    /\ LET kind == RunningKey(w)[1]
           Gains(k) == stage[w].read.new /\ kind = k
           output == stage[w].read.output
       IN  /\ facts' = IF Gains("normalize")
                         THEN [facts EXCEPT ![RunningKey(w)[2]] = output] ELSE facts
           /\ evaluations' = IF Gains("match") THEN evaluations \cup {output}
                                               ELSE evaluations
           /\ drafts' = IF Gains("report") THEN drafts \cup {output} ELSE drafts
    /\ ToPhase(w, "written")
    /\ UNCHANGED <<stageClock, items, approved, job, scrape, handed, stops>>

(* The successor a stage enqueues, after its own output is committed.      *)
Successor(w) ==
    LET k == RunningKey(w) IN
    CASE k[1] = "normalize" -> {<<"enrich", k[2]>>}
      [] k[1] = "enrich" -> {<<"match", k[2], stage[w].read.output>>}
      [] OTHER -> {}

(* The handler ends: successor, then succeed, unless another worker has    *)
(* settled the job (a crash between the two is a case of WorkflowJobs).    *)
FinishStage(w) ==
    /\ InPhase(w, "written")
    /\ job' = [Enqueued(Successor(w)) EXCEPT
                  ![RunningKey(w)] = IF @ = "open" THEN "done" ELSE @]
    /\ stage' = [stage EXCEPT ![w] = NoStage]
    /\ UNCHANGED <<stageClock, items, approved, scrape, facts, evaluations,
                   drafts, handed, stops>>

(* A failing stage is run again until its retry budget is used up.         *)
Retried(w) ==
    /\ stage' = [stage EXCEPT ![w] = NoStage]
    /\ \/ UNCHANGED job
       \/ job[RunningKey(w)] = "open" /\ SettleJob(RunningKey(w), "dead")
    /\ UNCHANGED <<stageClock, items, approved, scrape, facts, evaluations,
                   drafts, handed>>

Collide(w) ==
    /\ InPhase(w, "read")
    /\ Overtaken(w)
    /\ Retried(w)
    /\ UNCHANGED stops

(* The stage raises or the process stops.                                  *)
Interrupt(w) ==
    /\ ~Resting(w)
    /\ EventsLeft
    /\ stops' = stops + 1
    /\ Retried(w)

-----------------------------------------------------------------------------
(* External: alerts are ingested, the buyer approves a version, the scrape *)
(* queue finishes a task (a recovery task may bring the page of a failed   *)
(* one later), time passes.                                                *)
ItemArrives(s) ==
    /\ s \notin items
    /\ EventsLeft
    /\ items' = items \cup {s}
    /\ UNCHANGED <<stageClock, approved, job, scrape, facts, evaluations,
                   drafts, handed, stage, stops>>

(* add_approved: next_version is one more than the highest.                *)
AddApproved ==
    /\ ActiveVersion < MaxVersion
    /\ EventsLeft
    /\ approved' = approved \cup {ActiveVersion + 1}
    /\ UNCHANGED <<stageClock, items, job, scrape, facts, evaluations, drafts,
                   handed, stage, stops>>

ScrapeEnds(s, state) ==
    /\ \/ scrape[s] = "pending"
       \/ scrape[s] = "failed" /\ state = "outcome"
    /\ scrape' = [scrape EXCEPT ![s] = state]
    /\ UNCHANGED <<stageClock, items, approved, job, facts, evaluations, drafts,
                   handed, stage, stops>>

StageTick ==
    /\ stageClock < StageHorizon
    /\ stageClock' = stageClock + 1
    /\ UNCHANGED <<items, approved, job, scrape, facts, evaluations, drafts,
                   handed, stage, stops>>

StageInit ==
    /\ stageClock = 0
    /\ items = {}
    /\ approved = {}
    /\ job = [k \in StageKey |-> "none"]
    /\ scrape = [s \in Item |-> "none"]
    /\ facts = [s \in Item |-> "none"]
    /\ evaluations = {}
    /\ drafts = {}
    /\ handed = [p \in ReportPeriod |-> NotHanded]
    /\ stage = [w \in Stager |-> NoStage]
    /\ stops = 0

BeginAny(w) ==
    \/ \E k \in StageKey : Refuse(w, k)
    \/ \E s \in Item : BeginNormalize(w, s) \/ BeginEnrich(w, s)
    \/ \E s \in Item, v \in Version : BeginMatch(w, s, v)
    \/ \E p \in ReportPeriod : BeginReport(w, p)

(* What an iteration of a worker does when nothing fails.                  *)
StageStep(w) ==
    BeginAny(w) \/ Write(w) \/ FinishStage(w) \/ Collide(w)

AwaitAny == \E s \in Item : AwaitScrape(s)
ScrapeEndsAny == \E s \in Item, state \in {"failed", "outcome"} : ScrapeEnds(s, state)

StageNext ==
    \/ Reconcile \/ Schedule \/ AwaitAny \/ ScrapeEndsAny
    \/ \E w \in Stager : StageStep(w) \/ Interrupt(w)
    \/ \E s \in Item : ItemArrives(s)
    \/ AddApproved
    \/ StageTick

StageSpec == StageInit /\ [][StageNext]_stageVars

-----------------------------------------------------------------------------
(* Types, what a worker holds between two steps of a stage, and the draft  *)
(* that the outbox holds for a period.                                     *)
StageTypeOK ==
    /\ stageClock \in 0..StageHorizon
    /\ items \subseteq Item
    /\ approved \subseteq Version
    /\ job \in [StageKey -> {"none", "open", "done", "review", "dead"}]
    /\ scrape \in [Item -> {"none", "pending", "failed", "outcome"}]
    /\ facts \in [Item -> {"none", "page", "alert"}]
    /\ \A d \in drafts : d.slate \subseteq evaluations
    /\ \A w \in Stager : Resting(w) \/ RunningKey(w) \in StageKey
    /\ \A p \in ReportPeriod : \/ handed[p] = NotHanded
                               \/ handed[p] \in drafts /\ handed[p].period = p
    /\ stops \in 0..MaxEvents

(* A draft stays what its evaluations say: they are of the draft's profile *)
(* version, made by the cutoff from facts that are still the facts of that *)
(* item, one for each candidate and one draft per period and version,      *)
(* whichever workers overtook each other (prepare_report, _match).         *)
DraftStaysTrue ==
    /\ \A d \in drafts : \A e \in d.slate :
          /\ e.version = d.version
          /\ e.at <= d.period
          /\ e.from = facts[e.item]
          /\ \A f \in d.slate : CandidateOf[e.item] = CandidateOf[f.item] => e = f
    /\ \A d, e \in drafts : d.period = e.period /\ d.version = e.version => d = e

(* The facts of an item are written once: a page that arrives after the    *)
(* alert's facts were used changes nothing, and two workers that normalise *)
(* the same item cannot overwrite each other (_normalize).                 *)
FactsImmutable ==
    [][\A s \in Item : facts[s] # "none" => facts'[s] = facts[s]]_stageVars

(* Every catalog item is in the end evaluated against the active profile,  *)
(* also when the profile changed after its stages were done, unless a      *)
(* stage of it died, its page is still awaited or the profile changes      *)
(* again (reconcile_catalog).                                              *)
EveryItemEvaluated ==
    \A s \in Item, v \in Version :
        (s \in items /\ ActiveVersion = v) ~>
            \/ \E e \in evaluations : e.item = s /\ e.version = v
            \/ ActiveVersion # v
            \/ "dead" \in {job[<<"normalize", s>>], job[<<"match", s, v>>]}
            \/ scrape[s] = "pending"

(* A due period gets its report to the outbox, unless a later period is    *)
(* due first or its report job ended without a draft (the scheduler loop,  *)
(* which asks only for the most recent due period).                        *)
EveryPeriodReported ==
    \A p \in ReportPeriod :
        p <= stageClock ~>
            \/ handed[p] # NotHanded
            \/ LatestDue > p
            \/ job[<<"report", p>>] \in {"review", "dead"}

(* What the stages wrote stands: facts are not overwritten, and drafts     *)
(* agree with the facts and evaluations they were made from.               *)
OutputsStand == [](StageTypeOK /\ DraftStaysTrue) /\ FactsImmutable

=============================================================================
