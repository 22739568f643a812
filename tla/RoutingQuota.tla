---------------------------- MODULE RoutingQuota ----------------------------
(***************************************************************************)
(* The ledger of billable routing units, the cache of route observations   *)
(* and the enrichers that share them: several processes ask for the routes *)
(* of listings, the provider may report its own quota, calls fail and      *)
(* processes stop after they reserved a unit.                              *)
(*                                                                         *)
(* Code: src/homefinder/routing/quota.py and routing/service.py.  Every    *)
(* ledger and cache operation is a transaction of its own.                 *)
(***************************************************************************)
EXTENDS Naturals, Sequences, FiniteSets

CONSTANTS
    Enricher,           \* processes that enrich
    RouteQuery,         \* queries, by cache key
    PlanOf,             \* enricher -> queries of its listing, in order
    Allowance,          \* units of the period
    SafetyPercent,      \* safety_ratio, in percent
    MaxResets,          \* bound: resets by an operator
    MaxEnrichments      \* bound: enrichments started

ASSUME QuotaAssumption ==
    /\ {Allowance, SafetyPercent, MaxResets, MaxEnrichments} \subseteq Nat
    /\ SafetyPercent \in 1..100
    /\ PlanOf \in [Enricher -> Seq(RouteQuery)]

VARIABLES
    ledger,             \* routing_quota_ledger row of the period
    observed,           \* route_observations, by key
    waitingRoutes,      \* pending_route_queries, by key
    enriching,          \* where each enricher is
    providerCalls,      \* billable calls made (history)
    quotaAlerts,        \* alerts sent (history)
    quotaResets,        \* resets, counted for the bound
    enrichments         \* enrichments started, counted for the bound

quotaVars == <<ledger, observed, waitingRoutes, enriching, providerCalls,
               quotaAlerts, quotaResets, enrichments>>

(* __init__: what the period may use of the allowance.                     *)
SafetyCeiling == (Allowance * SafetyPercent) \div 100

NotEnriching == [step |-> "idle", done |-> 0]
Asks(e) == PlanOf[e][enriching[e].done + 1]
EnrichStep(e, step) == enriching' = [enriching EXCEPT ![e].step = step]
NextQuery(e) == enriching' = [enriching EXCEPT ![e].step = "query", ![e].done = @ + 1]

StartEnrich(e) ==
    /\ enriching[e].step = "idle"
    /\ enrichments < MaxEnrichments
    /\ enrichments' = enrichments + 1
    /\ enriching' = [enriching EXCEPT ![e] = [step |-> "query", done |-> 0]]
    /\ UNCHANGED <<ledger, observed, waitingRoutes, providerCalls, quotaAlerts,
                   quotaResets>>

Querying(e) == enriching[e].step = "query" /\ enriching[e].done < Len(PlanOf[e])

(* cache.get finds the observation, or the enricher goes on to reserve.    *)
UseCached(e) ==
    /\ Querying(e)
    /\ IF Asks(e) \in observed THEN NextQuery(e) ELSE EnrichStep(e, "reserve")
    /\ UNCHANGED <<ledger, observed, waitingRoutes, providerCalls, quotaAlerts,
                   quotaResets, enrichments>>

(* The condition of the UPDATE in reserve.                                 *)
Fits == ledger.reserved + 1 <= SafetyCeiling

(* reserve: one conditional UPDATE; no row means exhausted.                *)
Reserve(e) ==
    /\ enriching[e].step = "reserve"
    /\ IF ~ledger.blocked /\ Fits
         THEN /\ ledger' = [ledger EXCEPT !.reserved = @ + 1]
              /\ EnrichStep(e, "call")
         ELSE EnrichStep(e, "refused") /\ UNCHANGED ledger
    /\ UNCHANGED <<observed, waitingRoutes, providerCalls, quotaAlerts,
                   quotaResets, enrichments>>

(* _notify_once: only the process whose UPDATE finds no alert sends one.   *)
NotifyOnce(row) ==
    /\ ledger' = [row EXCEPT !.alerted = TRUE]
    /\ quotaAlerts' = IF row.alerted THEN quotaAlerts ELSE quotaAlerts + 1

(* The rest of reserve raises, enrich marks the query pending.             *)
MarkPending(e) ==
    /\ enriching[e].step = "refused"
    /\ NotifyOnce(ledger)
    /\ waitingRoutes' = waitingRoutes \cup {Asks(e)}
    /\ NextQuery(e)
    /\ UNCHANGED <<observed, providerCalls, quotaResets, enrichments>>

(* The provider answers; put commits next.                                 *)
ProviderAnswers(e) ==
    /\ enriching[e].step = "call"
    /\ providerCalls' = providerCalls + 1
    /\ EnrichStep(e, "put")
    /\ UNCHANGED <<ledger, observed, waitingRoutes, quotaAlerts, quotaResets,
                   enrichments>>

ForgetAll(e) == {}

StillWaiting(e) == waitingRoutes \ {Asks(e)}

(* put: the observation, and the query is not pending any more.            *)
Put(e) ==
    /\ enriching[e].step = "put"
    /\ observed' = observed \cup {Asks(e)}
    /\ waitingRoutes' = StillWaiting(e)
    /\ NextQuery(e)
    /\ UNCHANGED <<ledger, providerCalls, quotaAlerts, quotaResets, enrichments>>

(* ProviderQuotaError: trip_provider_quota, its alert, and mark_pending.   *)
TripProviderQuota(e) ==
    /\ enriching[e].step = "call"
    /\ providerCalls' = providerCalls + 1
    /\ NotifyOnce([ledger EXCEPT !.blocked = TRUE])
    /\ waitingRoutes' = waitingRoutes \cup {Asks(e)}
    /\ NextQuery(e)
    /\ UNCHANGED <<observed, quotaResets, enrichments>>

(* Any other error of the provider, or a stop of the process, ends the     *)
(* enrichment; a unit it reserved stays reserved, whether or not the       *)
(* provider counted the call.                                              *)
AbandonEnrich(e) ==
    /\ enriching[e].step # "idle"
    /\ providerCalls' \in IF enriching[e].step = "call"
                            THEN {providerCalls, providerCalls + 1}
                            ELSE {providerCalls}
    /\ enriching' = [enriching EXCEPT ![e] = NotEnriching]
    /\ UNCHANGED <<ledger, observed, waitingRoutes, quotaAlerts, quotaResets,
                   enrichments>>

(* enrich returns, whatever it could find out.                             *)
EndEnrich(e) ==
    /\ enriching[e].step = "query"
    /\ enriching[e].done = Len(PlanOf[e])
    /\ EnrichStep(e, "idle")
    /\ UNCHANGED <<ledger, observed, waitingRoutes, providerCalls, quotaAlerts,
                   quotaResets, enrichments>>

(* reset_provider_quota, by an operator: the reserved units stay.          *)
ResetProviderQuota ==
    /\ quotaResets < MaxResets
    /\ quotaResets' = quotaResets + 1
    /\ ledger' = [ledger EXCEPT !.blocked = FALSE, !.alerted = FALSE]
    /\ UNCHANGED <<observed, waitingRoutes, enriching, providerCalls,
                   quotaAlerts, enrichments>>

(* _ensure_record.                                                         *)
QuotaInit ==
    /\ ledger = [reserved |-> 0, blocked |-> FALSE, alerted |-> FALSE]
    /\ observed = {}
    /\ waitingRoutes = {}
    /\ enriching = [e \in Enricher |-> NotEnriching]
    /\ providerCalls = 0
    /\ quotaAlerts = 0
    /\ quotaResets = 0
    /\ enrichments = 0

QuotaNext ==
    \/ ResetProviderQuota
    \/ \E e \in Enricher :
          \/ StartEnrich(e) \/ UseCached(e) \/ Reserve(e) \/ MarkPending(e)
          \/ ProviderAnswers(e) \/ Put(e) \/ TripProviderQuota(e)
          \/ AbandonEnrich(e) \/ EndEnrich(e)

QuotaSpec == QuotaInit /\ [][QuotaNext]_quotaVars

-----------------------------------------------------------------------------
(* The provider never sees more calls in a period than the safety ceiling, *)
(* however enrichers race, stop after reserving or go on after a reset     *)
(* (reserve counts before the call and nothing gives a unit back).         *)
CallsWithinCeiling == providerCalls <= ledger.reserved /\ ledger.reserved <= SafetyCeiling

(* Processes that run into an exhausted quota together send one alert;     *)
(* another one only after a reset (_notify_once).                          *)
OneAlertPerReset == quotaAlerts <= quotaResets + 1

(* A query an enricher has gone past is not forgotten: its route is cached *)
(* or it is recorded as pending, whichever other enricher stores or is     *)
(* refused the same query meanwhile (mark_pending and put).                *)
NoQueryForgotten ==
    \A e \in Enricher : \A i \in 1..enriching[e].done :
        PlanOf[e][i] \in observed \cup waitingRoutes

(* The quota under racing enrichers: bounded calls, one alert, and no      *)
(* route that is forgotten.                                                *)
QuotaInvariant == CallsWithinCeiling /\ OneAlertPerReset /\ NoQueryForgotten

=============================================================================
