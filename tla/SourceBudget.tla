---------------------------- MODULE SourceBudget ----------------------------
(***************************************************************************)
(* Aggregate pacing of the requests to one portal and the bounded proxy    *)
(* allowance, composed with the scrape queue whose leases they are granted *)
(* to.                                                                     *)
(*                                                                         *)
(* Code: src/homefinder/scrape_queue/budget.py with the decisions of       *)
(* scraper/denial_policy.py, called in the order of ScraperWorker.run_once *)
(* (scraper/worker.py).  Unlike the queue, this repository never reads the *)
(* clock again: an operation works with the time it was called with, a     *)
(* member of Captured.                                                     *)
(***************************************************************************)
EXTENDS ScrapeQueue, Integers, FiniteSetsExt

CONSTANTS
    Route,              \* configured proxy routes, numbered in route_id order
    DayOf,              \* UTC day of each instant
    CycleOf,            \* billing cycle of each instant
    MinInterval,        \* policy.minimum_interval
    DailyAttempts,      \* policy.daily_attempt_limit
    DailySuccesses,     \* policy.daily_success_limit
    ProxyUsable,        \* PROXY_USABLE_BYTES
    ReserveBytes,       \* bytes a worker reserves, the most it can transfer
    FallbackDelay,      \* 15 minutes after a portal denial through a proxy
    Cooldown,           \* cooldown after the 1st, 2nd, 3rd direct denial
    RetryAfter          \* Retry-After delays portals send, 0 for none

Instant == 0..MaxTime

ASSUME BudgetAssumption ==
    /\ Route \subseteq Nat \ {0} /\ IsFiniteSet(Route)
    /\ DayOf \in [Instant -> Nat] /\ CycleOf \in [Instant -> Nat]
    /\ \A a, b \in Instant : a <= b => DayOf[a] <= DayOf[b] /\ CycleOf[a] <= CycleOf[b]
    /\ MinInterval \in Nat \ {0}
    /\ DailySuccesses \in 1..DailyAttempts /\ DailyAttempts \in Nat
    /\ ProxyUsable \in Nat /\ ReserveBytes \in Nat
    /\ FallbackDelay \in Nat
    /\ Cooldown \in [1..3 -> Nat \ {0}]
    /\ Cooldown[1] <= Cooldown[2] /\ Cooldown[2] <= Cooldown[3]
    /\ RetryAfter \subseteq Nat

VARIABLES
    source,         \* SourceRuntimeStateRecord of the portal
    ledger,         \* ProxyUsageLedgerRecord of each billing cycle
    routeHealthy,   \* ProxyRouteHealthRecord.healthy
    quarantine,     \* ProxySourceQuarantineRecord.until, 0 for no row
    fallback,       \* direct_fallback_* columns of each task
    net,            \* network columns of each attempt row
    replies         \* answers workers still have to act on by a deferral

budgetOnlyVars == <<source, ledger, routeHealthy, quarantine, fallback, net, replies>>
budgetVars == <<vars, budgetOnlyVars>>

Classification == {"success", "portal-denial", "portal-response",
                   "proxy-infrastructure-failure", "transport-failure"}
Cycle == {CycleOf[a] : a \in Instant}

NetRow == [route : {"unassigned", "direct", "proxy"}, id : Route \cup {0},
           reserved : {0, ReserveBytes}, started : Nat, class : Classification \cup {"none"},
           recorded : Nat, retryAfter : Nat]

(* recorded and retryAfter are history: when and with which Retry-After    *)
(* the classification was stored.                                          *)
NoNet == [route |-> "unassigned", id |-> 0, reserved |-> 0, started |-> 0,
          class |-> "none", recorded |-> 0, retryAfter |-> 0]

Later(a, b) == IF a > b THEN a ELSE b
NetOf(l) == net[l.task][l.attempt]

-----------------------------------------------------------------------------
(* reserve_start *)

(* _validate_lease, for the time the repository was called with.           *)
Validated(l, at) ==
    /\ l.owner \in registered
    /\ Running(l.task)
    /\ lease[l.task].owner = l.owner
    /\ lease[l.task].token = l.token
    /\ lease[l.task].expires > at
    /\ taskRelease[l.task] = l.release
    /\ taskEpoch[l.task] = l.epoch
    /\ \/ Discovery(l.task)
       \/ taskRelease[l.task] = activeRelease /\ taskEpoch[l.task] = activeEpoch

(* _locked_source_state: another UTC day starts with fresh counters.       *)
SourceOn(at) ==
    IF source.day = DayOf[at]
      THEN source
      ELSE [source EXCEPT !.day = DayOf[at], !.attempts = 0, !.successes = 0]

OpensUnpaced(t, at) ==
    Later(Later(at, source.cooldown),
          IF fallback[t].pending THEN fallback[t].at ELSE at)

(* available_at of reserve_start: pacing, cooldown and fallback delay.     *)
OpensAt(t, at) ==
    Later(Later(Later(at, source.nextStart), source.cooldown),
          IF fallback[t].pending THEN fallback[t].at ELSE at)

CapUnchecked(at) == FALSE

(* The daily ceilings of reserve_start.                                    *)
DayIsFull(at) ==
    \/ SourceOn(at).attempts >= DailyAttempts
    \/ SourceOn(at).successes >= DailySuccesses

(* _next_utc_day; the days beyond the horizon are all alike.               *)
NextDay(at) ==
    Min({u \in (at + 1)..MaxTime : DayOf[u] # DayOf[at]} \cup {MaxTime + 1})

(* A worker asks once for each lease: an answer it could not read ends the *)
(* run.  A repeated request for a granted start returns the same permit.   *)
Asking(l, at) ==
    /\ Validated(l, at)
    /\ NetOf(l).route = "unassigned"
    /\ \A r \in replies : r.lease # l

RefuseStart(l, at) ==
    /\ Asking(l, at)
    /\ OpensAt(l.task, at) > at \/ DayIsFull(at)
    /\ source' = SourceOn(at)
    /\ replies' = replies \cup
          {[lease |-> l, code |-> "budget-exhausted",
            until |-> IF OpensAt(l.task, at) > at THEN OpensAt(l.task, at)
                                                  ELSE NextDay(at)]}
    /\ UNCHANGED <<vars, ledger, routeHealthy, quarantine, fallback, net>>

(* Routes the portal may be reached through.                               *)
UsableRoute(at) == {r \in Route : routeHealthy[r] /\ quarantine[r] <= at}

ProxyBeyondAllowance(t, at) ==
    /\ ~fallback[t].pending
    /\ UsableRoute(at) # {}

ProxyDuringFallback(t, at) ==
    /\ UsableRoute(at) # {}
    /\ ledger[CycleOf[at]].allocated + ReserveBytes <= ProxyUsable

(* A start goes through a proxy unless the task owes its direct fallback,  *)
(* no route is usable or the cycle's allowance is used up.                 *)
ThroughProxy(t, at) ==
    /\ ~fallback[t].pending
    /\ UsableRoute(at) # {}
    /\ ledger[CycleOf[at]].allocated + ReserveBytes <= ProxyUsable

(* The network columns of an attempt that was granted its start.           *)
StartRow(proxied, at) ==
    [route |-> IF proxied THEN "proxy" ELSE "direct",
     id |-> IF proxied THEN Min(UsableRoute(at)) ELSE 0,
     reserved |-> IF proxied THEN ReserveBytes ELSE 0,
     started |-> at, class |-> "none", recorded |-> 0, retryAfter |-> 0]

GrantStart(l, at) ==
    LET proxied == ThroughProxy(l.task, at)
        bytes == IF proxied THEN ReserveBytes ELSE 0
    IN  /\ Asking(l, at)
        /\ OpensAt(l.task, at) <= at /\ ~DayIsFull(at)
        /\ source' = [SourceOn(at) EXCEPT !.attempts = @ + 1,
                                          !.nextStart = at + MinInterval]
        /\ ledger' = [ledger EXCEPT ![CycleOf[at]].allocated = @ + bytes]
        /\ net' = [net EXCEPT ![l.task][l.attempt] = StartRow(proxied, at)]
        /\ fallback' = [fallback EXCEPT ![l.task] = [pending |-> FALSE, at |-> 0]]
        /\ UNCHANGED <<vars, routeHealthy, quarantine, replies>>

-----------------------------------------------------------------------------
(* record_outcome *)

(* What classify_response can make of a response: only a proxied request   *)
(* fails in the proxy, only a denial carries a Retry-After.                *)
Report(l) ==
    {p \in [class : Classification, bytes : {0, ReserveBytes}, retryAfter : RetryAfter] :
        /\ p.class = "proxy-infrastructure-failure" => NetOf(l).route = "proxy"
        /\ p.retryAfter > 0 => p.class = "portal-denial"}

(* decide_route_outcome: a proxy's trouble grants one direct attempt, a    *)
(* direct denial cools the source down.                                    *)
ProxyTrouble(l, p) ==
    /\ NetOf(l).route = "proxy"
    /\ p.class \in {"portal-denial", "proxy-infrastructure-failure"}
DirectDenial(l, p) ==
    NetOf(l).route = "direct" /\ p.class = "portal-denial"
RetryDirectAt(p, at) ==
    at + IF p.class = "portal-denial" THEN Later(FallbackDelay, p.retryAfter) ELSE 0
CooldownWithoutRetryAfter(p, at) == at + Cooldown[Smaller(source.denials, 2) + 1]
CooldownUntil(p, at) ==
    at + Later(Cooldown[Smaller(source.denials, 2) + 1], p.retryAfter)

(* _reconcile_proxy_reservation, on the ledger of the current cycle.       *)
Remaining(l, at) == ledger[CycleOf[at]].allocated - NetOf(l).reserved

Reconcile(l, p, at) ==
    IF NetOf(l).route = "proxy"
      THEN /\ Remaining(l, at) + p.bytes <= ProxyUsable
           /\ ledger' = [ledger EXCEPT ![CycleOf[at]] =
                 [allocated |-> Remaining(l, at) + p.bytes,
                  transferred |-> @.transferred + p.bytes]]
      ELSE UNCHANGED ledger

(* The source row after an outcome.                                        *)
SourceAfter(l, p, at) ==
    LET s == SourceOn(at)
    IN  CASE p.class = "success" ->
               [s EXCEPT !.successes = @ + 1,
                         !.denials = IF NetOf(l).route = "direct" THEN 0 ELSE @]
          [] DirectDenial(l, p) ->
               [s EXCEPT !.cooldown = Later(@, CooldownUntil(p, at)),
                         !.denials = @ + 1]
          [] OTHER -> s

(* record_outcome's check of a success against the starts of the day.      *)
SuccessCounts(at) == SourceOn(at).successes < SourceOn(at).attempts

RecordOutcome(l, p, at) ==
    /\ Validated(l, at)
    /\ NetOf(l).route # "unassigned" /\ NetOf(l).class = "none"
    /\ p.class = "success" => SuccessCounts(at)
    /\ Reconcile(l, p, at)
    /\ source' = SourceAfter(l, p, at)
    /\ net' = [net EXCEPT ![l.task][l.attempt] =
          [@ EXCEPT !.class = p.class, !.reserved = 0,
                    !.recorded = at, !.retryAfter = p.retryAfter]]
    /\ routeHealthy' =
          IF ProxyTrouble(l, p) /\ p.class = "proxy-infrastructure-failure"
            THEN [routeHealthy EXCEPT ![NetOf(l).id] = FALSE]
            ELSE routeHealthy
    /\ quarantine' =
          IF ProxyTrouble(l, p) /\ p.class = "portal-denial"
            THEN [quarantine EXCEPT ![NetOf(l).id] = Later(@, RetryDirectAt(p, at))]
            ELSE quarantine
    /\ \/ /\ ProxyTrouble(l, p)
          /\ fallback' = [fallback EXCEPT ![l.task] =
                [pending |-> TRUE, at |-> RetryDirectAt(p, at)]]
          /\ Close(l.task, "deferred")
          /\ availableAt' = [availableAt EXCEPT ![l.task] = RetryDirectAt(p, at)]
          /\ UNCHANGED <<accepted, acked, replies>>
       \/ /\ ~ProxyTrouble(l, p)
          /\ replies' = IF DirectDenial(l, p)
                THEN replies \cup {[lease |-> l, code |-> "source-cooldown",
                                    until |-> CooldownUntil(p, at)]}
                ELSE replies
          /\ UNCHANGED <<vars, fallback>>

(* register_proxy_route, called for every route at a coordinator start.    *)
RegisterProxyRoute(r) ==
    /\ routeHealthy' = [routeHealthy EXCEPT ![r] = TRUE]
    /\ UNCHANGED <<vars, source, ledger, quarantine, fallback, net, replies>>

-----------------------------------------------------------------------------
(* The rest of run_once *)

(* The deferral by which a worker acts on a refusal or on a cooldown.      *)
DeferReply(r, at) ==
    /\ r.until > at
    /\ \/ r.code = "budget-exhausted" /\ DeferBudget(r.lease, r.until)
       \/ r.code = "source-cooldown" /\ Defer(r.lease, r.until)
    /\ UNCHANGED budgetOnlyVars

(* A recorded success is completed.  A started fetch is reported as a      *)
(* transport error when it was recorded as neither success nor denial, or  *)
(* when recording it failed.                                               *)
CompleteFetch(l, c, f) ==
    /\ NetOf(l).class = "success"
    /\ Complete(l, c, f)
    /\ UNCHANGED budgetOnlyVars

FailFetch(l) ==
    /\ NetOf(l).route # "unassigned"
    /\ NetOf(l).class \notin {"success", "portal-denial"}
    /\ FailRetry(l) \/ Fail(l, "transport-error")
    /\ UNCHANGED budgetOnlyVars

BudgetInit ==
    /\ source = [day |-> 0, attempts |-> 0, successes |-> 0, nextStart |-> 0,
                 cooldown |-> 0, denials |-> 0]
    /\ ledger = [c \in Cycle |-> [allocated |-> 0, transferred |-> 0]]
    /\ routeHealthy = [r \in Route |-> TRUE]
    /\ quarantine = [r \in Route |-> 0]
    /\ fallback = [t \in Task |-> [pending |-> FALSE, at |-> 0]]
    /\ net = [t \in Task |-> [n \in AttemptNumber |-> NoNet]]
    /\ replies = {}

NetworkStep ==
    \/ \E l \in granted, at \in Captured : RefuseStart(l, at) \/ GrantStart(l, at)
    \/ \E l \in granted, at \in Captured : \E p \in Report(l) : RecordOutcome(l, p, at)
    \/ \E r \in Route : RegisterProxyRoute(r)
    \/ \E r \in replies, at \in Captured : DeferReply(r, at)
    \/ \E l \in granted, c \in Content, f \in 0..now : CompleteFetch(l, c, f)
    \/ \E l \in granted : FailFetch(l)

QueueStep ==
    /\ \/ ActivationNext /\ UNCHANGED queueVars
       \/ EnqueueStep
       \/ ClaimStep
       \/ \E l \in granted : Heartbeat(l)
    /\ UNCHANGED budgetOnlyVars

BudgetNext == QueueStep \/ NetworkStep

BudgetSpec == Init /\ BudgetInit /\ [][BudgetNext]_budgetVars

-----------------------------------------------------------------------------
(* Properties.  The starts of the portal are the network rows themselves.  *)

StartKeys == {k \in Task \X AttemptNumber : net[k[1]][k[2]].route # "unassigned"}
RowOf(k) == net[k[1]][k[2]]

(* Types of the budget's rows.                                             *)
BudgetTypeOK ==
    /\ TypeOK
    /\ source \in [day : Nat, attempts : Nat, successes : Nat, nextStart : Nat,
                   cooldown : Nat, denials : Nat]
    /\ source.attempts <= DailyAttempts
    /\ ledger \in [Cycle -> [allocated : Int, transferred : Nat]]
    /\ routeHealthy \in [Route -> BOOLEAN]
    /\ quarantine \in [Route -> Nat]
    /\ fallback \in [Task -> [pending : BOOLEAN, at : Nat]]
    /\ net \in [Task -> [AttemptNumber -> NetRow]]
    /\ replies \subseteq [lease : ScrapeLease, until : Nat,
                          code : {"budget-exhausted", "source-cooldown"}]

(* AC-N1: all workers share one portal interval.  Two starts, of whichever *)
(* tasks and workers, are never closer than minimum_interval, even when    *)
(* requests that read their clocks earlier commit later.                   *)
PortalPacing ==
    \A j, k \in StartKeys : j # k =>
        \/ RowOf(j).started + MinInterval <= RowOf(k).started
        \/ RowOf(k).started + MinInterval <= RowOf(j).started

(* AC-N1: one attempt ceiling.  No UTC day sees more starts than allowed,  *)
(* across refunds, fallbacks and the change of day.                        *)
DailyAttemptCeiling ==
    \A a \in Instant :
        Cardinality({k \in StartKeys : DayOf[RowOf(k).started] = DayOf[a]})
            <= DailyAttempts

(* Starts of a cycle whose reservation was not settled.                    *)
Reserving(c) == {k \in StartKeys : /\ CycleOf[RowOf(k).started] = c
                                   /\ RowOf(k).reserved # 0}

(* AC-N4: proxy allocation stops at the usable allowance of the billing    *)
(* cycle.  What was transferred in a cycle and what its attempts may still *)
(* transfer never exceed it, although reservations of lost leases are      *)
(* never returned and others are reconciled late.                          *)
AllocationCeiling ==
    \A c \in Cycle :
        ledger[c].transferred + ReserveBytes * Cardinality(Reserving(c))
            <= ProxyUsable

NextStart(t, n) == {m \in (n + 1)..MaxAttempts :
                       /\ net[t][m].route # "unassigned"
                       /\ \A i \in (n + 1)..(m - 1) : net[t][i].route = "unassigned"}

(* AC-N2, AC-N3: after a proxy let a task down, its next start, whichever  *)
(* worker makes it and whatever happened to the leases in between, is      *)
(* direct, and after a portal denial it waits out the fifteen minutes or a *)
(* longer Retry-After.                                                     *)
FallbackIsDirect ==
    \A k \in StartKeys :
        LET row == RowOf(k)
        IN  (/\ row.route = "proxy"
             /\ row.class \in {"portal-denial", "proxy-infrastructure-failure"})
            => \A m \in NextStart(k[1], k[2]) :
                  /\ net[k[1]][m].route = "direct"
                  /\ row.class = "portal-denial" =>
                        net[k[1]][m].started
                            >= row.recorded + Later(FallbackDelay, row.retryAfter)

DirectDenials == {k \in StartKeys : RowOf(k).route = "direct"
                                    /\ RowOf(k).class = "portal-denial"}
DirectSuccesses == {k \in StartKeys : RowOf(k).route = "direct"
                                      /\ RowOf(k).class = "success"}

(* Denials of the same run of denials that were recorded before k.         *)
EarlierDenials(k) ==
    {j \in DirectDenials :
        /\ RowOf(j).recorded < RowOf(k).recorded
        /\ ~\E s \in DirectSuccesses :
              RowOf(s).recorded \in RowOf(j).recorded..RowOf(k).recorded}

(* AC-N1, AC-N2: a direct denial holds back every worker of the portal for *)
(* the first, second or third step of the backoff, or a longer Retry-After.*)
CooldownHonoured ==
    \A k \in DirectDenials, j \in StartKeys :
        RowOf(j).started > RowOf(k).recorded =>
            RowOf(j).started >= RowOf(k).recorded +
                Later(Cooldown[Smaller(Cardinality(EarlierDenials(k)), 2) + 1],
                      RowOf(k).retryAfter)

(* The rows of the budget are well formed and a cycle's proxy allowance is *)
(* never exceeded.                                                         *)
BudgetInvariant == BudgetTypeOK /\ AllocationCeiling

=============================================================================
