--------------------------- MODULE ServicesProofs ---------------------------
(***************************************************************************)
(* Proofs about the components that serve requests, each for any number of *)
(* clients and any values of its limits.                                   *)
(*                                                                         *)
(* Routing quota: an enricher between its reservation and its call owns a  *)
(* unit of the ledger (UnitsCoverCalls).  Artifact store: an insert that   *)
(* is still to come is for an id nobody knows (InsertIsFresh), so a row    *)
(* and a tombstone never meet.  Settings: the one form that matches its    *)
(* browser's cookie shows what that browser saved last (FormShowsLast).    *)
(* Feedback: an issued link stays what the mailer read (IssuingIsSound).   *)
(* Rate limiter: whenever the lock is free, the file knows the next visit, *)
(* the denial and the day's count (NextVisitSaved, DenialSaved,            *)
(* DayCounted).  Benchmark: the order of the sample is total, so a manifest *)
(* is determined by its pool, and a verdict speaks of the results its run  *)
(* has.  Matching: knowledge only grows and unknown counts half, so verdicts *)
(* stand and scores move little; the ranking is a total order on a finite  *)
(* set of offers, so the slate taken by rank is the fair one.              *)
(***************************************************************************)
EXTENDS RoutingQuota, ArtifactStore, BuyerDesk, PortalRateLimit, Benchmark, Matching,
        FiniteSetTheorems, WellFoundedInduction, TLAPS

(* The steps of an enricher in which it holds a query of its plan.         *)
HoldsQuery == {"reserve", "refused", "call", "put"}

QuotaTypes ==
    /\ ledger \in [reserved : Nat, blocked : BOOLEAN, alerted : BOOLEAN]
    /\ enriching \in [Enricher -> [step : {"idle", "query"} \cup HoldsQuery, done : Nat]]
    /\ providerCalls \in Nat /\ quotaAlerts \in Nat /\ quotaResets \in Nat

(* Enrichers that reserved a unit for a call they have not made yet.       *)
Calling == {e \in Enricher : enriching[e].step = "call"}

(* Every call made and every call still to come has its unit, and the      *)
(* units stay under the ceiling.                                           *)
UnitsCoverCalls ==
    /\ IsFiniteSet(Calling)
    /\ providerCalls + Cardinality(Calling) <= ledger.reserved
    /\ ledger.reserved <= SafetyCeiling

(* The alerts sent, and the one a row without an alert may still send.     *)
AlertsCounted == quotaAlerts + (IF ledger.alerted THEN 0 ELSE 1) <= quotaResets + 1

QuotaInductive ==
    QuotaTypes /\ UnitsCoverCalls /\ AlertsCounted /\ NoQueryForgotten

LEMMA CeilingIsNat == SafetyCeiling \in Nat
<1>1. Allowance * SafetyPercent \in Nat  BY QuotaAssumption
<1> QED  BY <1>1 DEF SafetyCeiling

LEMMA QuotaInitInductive == QuotaInit => QuotaInductive
<1> SUFFICES ASSUME QuotaInit PROVE QuotaInductive  OBVIOUS
<1>1. QuotaTypes  BY DEF QuotaInit, QuotaTypes, NotEnriching
<1>2. Calling = {}  BY DEF QuotaInit, Calling, NotEnriching
<1>3. UnitsCoverCalls
  BY <1>2, CeilingIsNat, FS_EmptySet DEF QuotaInit, UnitsCoverCalls
<1>4. AlertsCounted  BY DEF QuotaInit, AlertsCounted
<1>5. NoQueryForgotten  BY DEF QuotaInit, NoQueryForgotten, NotEnriching
<1> QED  BY <1>1, <1>3, <1>4, <1>5 DEF QuotaInductive

(* Nobody but e moves in the step.                                         *)
OnlyMoves(e) == \A x \in Enricher \ {e} : enriching'[x] = enriching[x]

(* Units held for a call, before or after the step: none or one.           *)
Taken(e) == IF enriching[e].step = "call" THEN 1 ELSE 0

LEMMA CallingAfter ==
    ASSUME UnitsCoverCalls, NEW e \in Enricher, OnlyMoves(e)
    PROVE  /\ IsFiniteSet(Calling')
           /\ Cardinality(Calling') = Cardinality(Calling) - Taken(e) + Taken(e)'
           /\ Cardinality(Calling) \in Nat /\ Cardinality(Calling') \in Nat
<1> DEFINE Rest == Calling \ {e}
<1>1. IsFiniteSet(Calling) /\ IsFiniteSet(Rest)
  BY FS_RemoveElement DEF UnitsCoverCalls
<1>0. Cardinality(Calling) \in Nat /\ Cardinality(Rest) \in Nat
  BY <1>1, FS_CardinalityType
<1>2. Cardinality(Calling) = Cardinality(Rest) + Taken(e)
  <2>1. CASE e \in Calling
    <3>1. Cardinality(Rest) = Cardinality(Calling) - 1  BY <1>1, <2>1, FS_RemoveElement
    <3>2. Taken(e) = 1  BY <2>1 DEF Taken, Calling
    <3> QED  BY <1>1, <3>1, <3>2, FS_CardinalityType
  <2>2. CASE e \notin Calling
    <3>1. Rest = Calling  BY <2>2
    <3>2. Taken(e) = 0  BY <2>2 DEF Taken, Calling
    <3>3. Cardinality(Rest) = Cardinality(Calling)  BY <3>1
    <3> QED  BY <1>0, <3>2, <3>3
  <2> QED  BY <2>1, <2>2
<1>3. IsFiniteSet(Calling') /\ Cardinality(Calling') = Cardinality(Rest) + Taken(e)'
  <2>1. CASE e \in Calling'
    <3>1. Calling' = Rest \cup {e} /\ e \notin Rest  BY <2>1 DEF Calling, OnlyMoves
    <3>2. Taken(e)' = 1  BY <2>1 DEF Taken, Calling
    <3>3. IsFiniteSet(Rest \cup {e}) /\ Cardinality(Rest \cup {e}) = Cardinality(Rest) + 1
      BY <1>1, <3>1, FS_AddElement
    <3> QED  BY <3>1, <3>2, <3>3
  <2>2. CASE e \notin Calling'
    <3>1. Calling' = Rest  BY <2>2 DEF Calling, OnlyMoves
    <3>2. Taken(e)' = 0  BY <2>2 DEF Taken, Calling
    <3> QED  BY <1>1, <3>1, <3>2, FS_CardinalityType
  <2> QED  BY <2>1, <2>2
<1>4. Cardinality(Calling') \in Nat  BY <1>3, FS_CardinalityType
<1> QED  BY <1>0, <1>1, <1>2, <1>3, <1>4 DEF Taken

(* What an enricher's step does to its own record, and to nobody else's.   *)
LEMMA EnricherMoves ==
    ASSUME QuotaTypes, NEW e \in Enricher,
           \/ \E step \in {"idle", "query"} \cup HoldsQuery : EnrichStep(e, step)
           \/ NextQuery(e)
           \/ enriching' = [enriching EXCEPT ![e] = NotEnriching]
           \/ enriching' = [enriching EXCEPT ![e] = [step |-> "query", done |-> 0]]
    PROVE  /\ OnlyMoves(e)
           /\ enriching' \in [Enricher -> [step : {"idle", "query"} \cup HoldsQuery,
                                            done : Nat]]
  BY DEF QuotaTypes, OnlyMoves, EnrichStep, NextQuery, NotEnriching, HoldsQuery

LEMMA OwnStep ==
    ASSUME QuotaTypes, NEW e \in Enricher
    PROVE  /\ \A step : EnrichStep(e, step) =>
                  enriching'[e].step = step /\ enriching'[e].done = enriching[e].done
           /\ NextQuery(e) => /\ enriching'[e].step = "query"
                              /\ enriching'[e].done = enriching[e].done + 1
  BY DEF QuotaTypes, EnrichStep, NextQuery

(* A query that one enricher goes past is cached or pending.               *)
LEMMA PastQueries ==
    ASSUME QuotaTypes, NoQueryForgotten, NEW e \in Enricher, OnlyMoves(e),
           observed \cup waitingRoutes \subseteq observed' \cup waitingRoutes',
           \/ enriching'[e].done = 0
           \/ enriching'[e].done = enriching[e].done
           \/ /\ enriching'[e].done = enriching[e].done + 1
              /\ Asks(e) \in observed' \cup waitingRoutes'
    PROVE  NoQueryForgotten'
<1> SUFFICES ASSUME NEW x \in Enricher, NEW i \in 1..enriching'[x].done
             PROVE  PlanOf[x][i] \in observed' \cup waitingRoutes'
  BY DEF NoQueryForgotten
<1>1. CASE x # e
  <2>1. i \in 1..enriching[x].done  BY <1>1 DEF OnlyMoves
  <2> QED  BY <2>1 DEF NoQueryForgotten
<1>2. CASE x = e
  <2>1. enriching[e].done \in Nat  BY DEF QuotaTypes
  <2>2. CASE i \in 1..enriching[e].done  BY <1>2, <2>2 DEF NoQueryForgotten
  <2>3. CASE i \notin 1..enriching[e].done
    <3>1. i = enriching[e].done + 1 /\ Asks(e) \in observed' \cup waitingRoutes'
      BY <1>2, <2>1, <2>3
    <3> QED  BY <1>2, <3>1 DEF Asks
  <2> QED  BY <2>2, <2>3
<1> QED  BY <1>1, <1>2

(* One enricher's step keeps the invariant when its ledger and call        *)
(* counters move together: units are reserved under the ceiling, calls are *)
(* made by who holds a unit, an alert sets the flag.                       *)
LEMMA EnricherKeeps ==
    ASSUME QuotaInductive, NEW e \in Enricher, OnlyMoves(e), QuotaTypes',
           providerCalls' + Taken(e)' - ledger'.reserved
               <= providerCalls + Taken(e) - ledger.reserved,
           ledger'.reserved <= SafetyCeiling,
           AlertsCounted',
           NoQueryForgotten'
    PROVE  QuotaInductive'
<1>1. /\ IsFiniteSet(Calling')
      /\ Cardinality(Calling') = Cardinality(Calling) - Taken(e) + Taken(e)'
      /\ Cardinality(Calling) \in Nat /\ Cardinality(Calling') \in Nat
  BY CallingAfter DEF QuotaInductive
<1>2. /\ providerCalls \in Nat /\ providerCalls' \in Nat
      /\ ledger.reserved \in Nat /\ ledger'.reserved \in Nat
  BY DEF QuotaInductive, QuotaTypes
<1>3. providerCalls + Cardinality(Calling) <= ledger.reserved
  BY DEF QuotaInductive, UnitsCoverCalls
<1>4. Taken(e) \in Nat /\ Taken(e)' \in Nat  BY DEF Taken
<1>5. providerCalls' + Cardinality(Calling') <= ledger'.reserved
  BY <1>1, <1>2, <1>3, <1>4
<1>6. SafetyCeiling' = SafetyCeiling  BY DEF SafetyCeiling
<1> QED  BY <1>1, <1>5, <1>6 DEF QuotaInductive, UnitsCoverCalls

(* What the ledger's operations write.                                     *)
LEMMA NotifyKeeps ==
    ASSUME QuotaTypes, AlertsCounted, quotaResets' = quotaResets,
           NEW row \in [reserved : Nat, blocked : BOOLEAN, alerted : BOOLEAN],
           row.alerted = ledger.alerted, NotifyOnce(row)
    PROVE  /\ AlertsCounted'
           /\ ledger' \in [reserved : Nat, blocked : BOOLEAN, alerted : BOOLEAN]
           /\ ledger'.reserved = row.reserved
           /\ quotaAlerts' \in Nat
<1>1. /\ ledger' \in [reserved : Nat, blocked : BOOLEAN, alerted : BOOLEAN]
      /\ ledger'.reserved = row.reserved /\ ledger'.alerted = TRUE
  BY DEF NotifyOnce
<1>2. /\ quotaAlerts' = IF ledger.alerted THEN quotaAlerts ELSE quotaAlerts + 1
      /\ quotaAlerts \in Nat /\ quotaResets \in Nat
  BY DEF QuotaTypes, NotifyOnce
<1> QED  BY <1>1, <1>2 DEF AlertsCounted

QuotaLedgerSame == UNCHANGED <<ledger, quotaAlerts, quotaResets>>

(* A step that leaves the ledger alone leaves its alerts counted.          *)
LEMMA SameLedger ==
    ASSUME QuotaInductive, QuotaLedgerSame
    PROVE  /\ AlertsCounted' /\ ledger'.reserved <= SafetyCeiling
           /\ ledger' \in [reserved : Nat, blocked : BOOLEAN, alerted : BOOLEAN]
           /\ ledger'.reserved = ledger.reserved /\ ledger.reserved \in Nat
           /\ quotaAlerts' \in Nat /\ quotaResets' \in Nat
  BY DEF QuotaInductive, QuotaTypes, UnitsCoverCalls, AlertsCounted, QuotaLedgerSame

LEMMA StartEnrichKeeps ==
    ASSUME QuotaInductive, NEW e \in Enricher, StartEnrich(e)  PROVE QuotaInductive'
<1>1. QuotaTypes /\ NoQueryForgotten  BY DEF QuotaInductive
<1>2. /\ OnlyMoves(e)
      /\ enriching' \in [Enricher -> [step : {"idle", "query"} \cup HoldsQuery, done : Nat]]
  BY <1>1, EnricherMoves DEF StartEnrich
<1>3. enriching'[e] = [step |-> "query", done |-> 0]
  BY <1>1 DEF QuotaTypes, StartEnrich
<1>4. QuotaLedgerSame /\ UNCHANGED <<observed, waitingRoutes, providerCalls>>
  BY DEF StartEnrich, QuotaLedgerSame
<1>5. QuotaTypes'  BY <1>1, <1>2, <1>4, SameLedger DEF QuotaTypes
<1>6. NoQueryForgotten'  BY <1>1, <1>2, <1>3, <1>4, PastQueries
<1>7. /\ Taken(e)' = 0 /\ Taken(e) \in 0..1
      /\ providerCalls' = providerCalls /\ providerCalls \in Nat
  BY <1>1, <1>3, <1>4 DEF Taken, QuotaTypes
<1> QED  BY <1>2, <1>4, <1>5, <1>6, <1>7, SameLedger, EnricherKeeps

LEMMA UseCachedKeeps ==
    ASSUME QuotaInductive, NEW e \in Enricher, UseCached(e)  PROVE QuotaInductive'
<1>1. QuotaTypes /\ NoQueryForgotten  BY DEF QuotaInductive
<1>2. \/ Asks(e) \in observed /\ NextQuery(e)
      \/ EnrichStep(e, "reserve")
  BY DEF UseCached
<1>3. /\ OnlyMoves(e)
      /\ enriching' \in [Enricher -> [step : {"idle", "query"} \cup HoldsQuery, done : Nat]]
  BY <1>1, <1>2, EnricherMoves DEF HoldsQuery
<1>4. QuotaLedgerSame /\ UNCHANGED <<observed, waitingRoutes, providerCalls>>
  BY DEF UseCached, QuotaLedgerSame
<1>5. QuotaTypes'  BY <1>1, <1>3, <1>4, SameLedger DEF QuotaTypes
<1>6. \/ enriching'[e].done = enriching[e].done
      \/ enriching'[e].done = enriching[e].done + 1 /\ Asks(e) \in observed
  BY <1>1, <1>2, OwnStep
<1>7. NoQueryForgotten'  BY <1>1, <1>3, <1>4, <1>6, PastQueries
<1>8. enriching'[e].step \in {"query", "reserve"}  BY <1>1, <1>2, OwnStep
<1>9. /\ Taken(e)' = 0 /\ Taken(e) \in 0..1
      /\ providerCalls' = providerCalls /\ providerCalls \in Nat
  BY <1>1, <1>4, <1>8 DEF Taken, QuotaTypes
<1> QED  BY <1>3, <1>4, <1>5, <1>7, <1>9, SameLedger, EnricherKeeps

LEMMA ReserveKeeps ==
    ASSUME QuotaInductive, NEW e \in Enricher, Reserve(e)  PROVE QuotaInductive'
<1>1. QuotaTypes /\ NoQueryForgotten  BY DEF QuotaInductive
<1>2. EnrichStep(e, "call") \/ EnrichStep(e, "refused")  BY DEF Reserve
<1>3. /\ OnlyMoves(e)
      /\ enriching' \in [Enricher -> [step : {"idle", "query"} \cup HoldsQuery, done : Nat]]
  BY <1>1, <1>2, EnricherMoves DEF HoldsQuery
<1>4. UNCHANGED <<observed, waitingRoutes, providerCalls, quotaAlerts, quotaResets>>
  BY DEF Reserve
<1>5. enriching'[e].done = enriching[e].done  BY <1>1, <1>2, OwnStep
<1>6. NoQueryForgotten'  BY <1>1, <1>3, <1>4, <1>5, PastQueries
<1>7. providerCalls' = providerCalls /\ providerCalls \in Nat /\ Taken(e) \in 0..1
  BY <1>1, <1>4 DEF QuotaTypes, Taken
<1>8. CASE EnrichStep(e, "refused") /\ UNCHANGED ledger
  <2>1. QuotaLedgerSame  BY <1>4, <1>8 DEF QuotaLedgerSame
  <2>2. QuotaTypes'  BY <1>1, <1>3, <1>4, <2>1, SameLedger DEF QuotaTypes
  <2>3. Taken(e)' = 0  BY <1>1, <1>8, OwnStep DEF Taken
  <2> QED  BY <1>3, <1>6, <1>7, <2>1, <2>2, <2>3, SameLedger, EnricherKeeps
<1>9. CASE /\ ~ledger.blocked /\ Fits /\ EnrichStep(e, "call")
           /\ ledger' = [ledger EXCEPT !.reserved = @ + 1]
  <2>1. /\ ledger' \in [reserved : Nat, blocked : BOOLEAN, alerted : BOOLEAN]
        /\ ledger'.reserved = ledger.reserved + 1
        /\ ledger'.alerted = ledger.alerted /\ ledger.reserved \in Nat
    BY <1>1, <1>9 DEF QuotaTypes
  <2>2. ledger'.reserved <= SafetyCeiling  BY <1>9, <2>1 DEF Fits
  <2>3. QuotaTypes'  BY <1>1, <1>3, <1>4, <2>1 DEF QuotaTypes
  <2>4. AlertsCounted'  BY <1>4, <2>1 DEF QuotaInductive, AlertsCounted
  <2>5. Taken(e)' = 1  BY <1>1, <1>9, OwnStep DEF Taken
  <2> QED  BY <1>3, <1>6, <1>7, <2>1, <2>2, <2>3, <2>4, <2>5, EnricherKeeps
<1> QED  BY <1>8, <1>9 DEF Reserve

LEMMA MarkPendingKeeps ==
    ASSUME QuotaInductive, NEW e \in Enricher, MarkPending(e)  PROVE QuotaInductive'
<1>1. QuotaTypes /\ NoQueryForgotten /\ AlertsCounted  BY DEF QuotaInductive
<1>2. /\ NotifyOnce(ledger) /\ NextQuery(e)
      /\ UNCHANGED <<observed, providerCalls, quotaResets>>
      /\ waitingRoutes' = waitingRoutes \cup {Asks(e)}
  BY DEF MarkPending
<1>3. /\ OnlyMoves(e)
      /\ enriching' \in [Enricher -> [step : {"idle", "query"} \cup HoldsQuery, done : Nat]]
  BY <1>1, <1>2, EnricherMoves
<1>4. /\ AlertsCounted' /\ ledger'.reserved = ledger.reserved /\ quotaAlerts' \in Nat
      /\ ledger' \in [reserved : Nat, blocked : BOOLEAN, alerted : BOOLEAN]
  <2>1. ledger \in [reserved : Nat, blocked : BOOLEAN, alerted : BOOLEAN]
    BY <1>1 DEF QuotaTypes
  <2> QED  BY <1>1, <1>2, <2>1, NotifyKeeps
<1>5. QuotaTypes'  BY <1>1, <1>2, <1>3, <1>4 DEF QuotaTypes
<1>6. /\ enriching'[e].step = "query"
      /\ enriching'[e].done = enriching[e].done + 1
  BY <1>1, <1>2, OwnStep
<1>7. NoQueryForgotten'  BY <1>1, <1>2, <1>3, <1>6, PastQueries
<1>8. /\ Taken(e)' = 0 /\ Taken(e) \in 0..1
      /\ providerCalls' = providerCalls /\ providerCalls \in Nat
      /\ ledger.reserved \in Nat /\ ledger.reserved <= SafetyCeiling
  BY <1>1, <1>2, <1>6 DEF Taken, QuotaTypes, QuotaInductive, UnitsCoverCalls
<1> QED  BY <1>3, <1>4, <1>5, <1>7, <1>8, EnricherKeeps

LEMMA ProviderAnswersKeeps ==
    ASSUME QuotaInductive, NEW e \in Enricher, ProviderAnswers(e)  PROVE QuotaInductive'
<1>1. QuotaTypes /\ NoQueryForgotten  BY DEF QuotaInductive
<1>2. /\ enriching[e].step = "call" /\ EnrichStep(e, "put")
      /\ providerCalls' = providerCalls + 1 /\ QuotaLedgerSame
      /\ UNCHANGED <<observed, waitingRoutes>>
  BY DEF ProviderAnswers, QuotaLedgerSame
<1>3. /\ OnlyMoves(e)
      /\ enriching' \in [Enricher -> [step : {"idle", "query"} \cup HoldsQuery, done : Nat]]
  BY <1>1, <1>2, EnricherMoves DEF HoldsQuery
<1>4. QuotaTypes'  BY <1>1, <1>2, <1>3, SameLedger DEF QuotaTypes
<1>5. enriching'[e].step = "put" /\ enriching'[e].done = enriching[e].done
  BY <1>1, <1>2, OwnStep
<1>6. NoQueryForgotten'  BY <1>1, <1>2, <1>3, <1>5, PastQueries
<1>7. Taken(e) = 1 /\ Taken(e)' = 0 /\ providerCalls \in Nat
  BY <1>1, <1>2, <1>5 DEF Taken, QuotaTypes
<1> QED  BY <1>2, <1>3, <1>4, <1>6, <1>7, SameLedger, EnricherKeeps

LEMMA PutKeeps ==
    ASSUME QuotaInductive, NEW e \in Enricher, Put(e)  PROVE QuotaInductive'
<1>1. QuotaTypes /\ NoQueryForgotten  BY DEF QuotaInductive
<1>2. /\ NextQuery(e) /\ QuotaLedgerSame /\ UNCHANGED providerCalls
      /\ observed' = observed \cup {Asks(e)}
      /\ waitingRoutes' = waitingRoutes \ {Asks(e)}
  BY DEF Put, StillWaiting, QuotaLedgerSame
<1>3. /\ OnlyMoves(e)
      /\ enriching' \in [Enricher -> [step : {"idle", "query"} \cup HoldsQuery, done : Nat]]
  BY <1>1, <1>2, EnricherMoves
<1>4. QuotaTypes'  BY <1>1, <1>2, <1>3, SameLedger DEF QuotaTypes
<1>5. enriching'[e].step = "query" /\ enriching'[e].done = enriching[e].done + 1
  BY <1>1, <1>2, OwnStep
<1>6. observed \cup waitingRoutes \subseteq observed' \cup waitingRoutes'  BY <1>2
<1>7. NoQueryForgotten'  BY <1>1, <1>2, <1>3, <1>5, <1>6, PastQueries
<1>8. /\ Taken(e)' = 0 /\ Taken(e) \in 0..1
      /\ providerCalls' = providerCalls /\ providerCalls \in Nat
  BY <1>1, <1>2, <1>5 DEF Taken, QuotaTypes
<1> QED  BY <1>2, <1>3, <1>4, <1>7, <1>8, SameLedger, EnricherKeeps

LEMMA TripKeeps ==
    ASSUME QuotaInductive, NEW e \in Enricher, TripProviderQuota(e)
    PROVE  QuotaInductive'
<1>1. QuotaTypes /\ NoQueryForgotten /\ AlertsCounted  BY DEF QuotaInductive
<1>2. /\ NotifyOnce([ledger EXCEPT !.blocked = TRUE]) /\ NextQuery(e)
      /\ UNCHANGED <<observed, quotaResets>>
      /\ enriching[e].step = "call" /\ providerCalls' = providerCalls + 1
      /\ waitingRoutes' = waitingRoutes \cup {Asks(e)}
  BY DEF TripProviderQuota
<1>3. /\ OnlyMoves(e)
      /\ enriching' \in [Enricher -> [step : {"idle", "query"} \cup HoldsQuery, done : Nat]]
  BY <1>1, <1>2, EnricherMoves
<1>4. /\ AlertsCounted' /\ ledger'.reserved = ledger.reserved /\ quotaAlerts' \in Nat
      /\ ledger' \in [reserved : Nat, blocked : BOOLEAN, alerted : BOOLEAN]
  <2> DEFINE row == [ledger EXCEPT !.blocked = TRUE]
  <2>1. /\ row \in [reserved : Nat, blocked : BOOLEAN, alerted : BOOLEAN]
        /\ row.alerted = ledger.alerted /\ row.reserved = ledger.reserved
    BY <1>1 DEF QuotaTypes
  <2>2. NotifyOnce(row)  BY <1>2
  <2> HIDE DEF row
  <2> QED  BY <1>1, <1>2, <2>1, <2>2, NotifyKeeps
<1>5. QuotaTypes'  BY <1>1, <1>2, <1>3, <1>4 DEF QuotaTypes
<1>6. /\ enriching'[e].step = "query"
      /\ enriching'[e].done = enriching[e].done + 1
  BY <1>1, <1>2, OwnStep
<1>7. NoQueryForgotten'  BY <1>1, <1>2, <1>3, <1>6, PastQueries
<1>8. /\ Taken(e)' = 0 /\ Taken(e) = 1 /\ providerCalls \in Nat
      /\ ledger.reserved \in Nat /\ ledger.reserved <= SafetyCeiling
  BY <1>1, <1>2, <1>6 DEF Taken, QuotaTypes, QuotaInductive, UnitsCoverCalls
<1> QED  BY <1>2, <1>3, <1>4, <1>5, <1>7, <1>8, EnricherKeeps

LEMMA AbandonKeeps ==
    ASSUME QuotaInductive, NEW e \in Enricher, AbandonEnrich(e)  PROVE QuotaInductive'
<1>1. QuotaTypes /\ NoQueryForgotten  BY DEF QuotaInductive
<1>2. /\ enriching' = [enriching EXCEPT ![e] = NotEnriching]
      /\ QuotaLedgerSame /\ UNCHANGED <<observed, waitingRoutes>>
      /\ providerCalls' \in IF enriching[e].step = "call"
                               THEN {providerCalls, providerCalls + 1}
                               ELSE {providerCalls}
  BY DEF AbandonEnrich, QuotaLedgerSame
<1>3. /\ OnlyMoves(e)
      /\ enriching' \in [Enricher -> [step : {"idle", "query"} \cup HoldsQuery, done : Nat]]
  BY <1>1, <1>2, EnricherMoves
<1>4. enriching'[e].step = "idle" /\ enriching'[e].done = 0
  BY <1>1, <1>2 DEF QuotaTypes, NotEnriching
<1>5. /\ Taken(e)' = 0 /\ Taken(e) \in 0..1 /\ providerCalls \in Nat
      /\ providerCalls' \in Nat /\ providerCalls' <= providerCalls + Taken(e)
  BY <1>1, <1>2, <1>4 DEF Taken, QuotaTypes
<1>6. QuotaTypes'  BY <1>1, <1>2, <1>3, <1>5, SameLedger DEF QuotaTypes
<1>7. NoQueryForgotten'  BY <1>1, <1>2, <1>3, <1>4, PastQueries
<1> QED  BY <1>2, <1>3, <1>5, <1>6, <1>7, SameLedger, EnricherKeeps

LEMMA EndEnrichKeeps ==
    ASSUME QuotaInductive, NEW e \in Enricher, EndEnrich(e)  PROVE QuotaInductive'
<1>1. QuotaTypes /\ NoQueryForgotten  BY DEF QuotaInductive
<1>2. /\ EnrichStep(e, "idle") /\ QuotaLedgerSame
      /\ UNCHANGED <<observed, waitingRoutes, providerCalls>>
  BY DEF EndEnrich, QuotaLedgerSame
<1>3. /\ OnlyMoves(e)
      /\ enriching' \in [Enricher -> [step : {"idle", "query"} \cup HoldsQuery, done : Nat]]
  BY <1>1, <1>2, EnricherMoves
<1>4. enriching'[e].step = "idle" /\ enriching'[e].done = enriching[e].done
  BY <1>1, <1>2, OwnStep
<1>5. /\ Taken(e)' = 0 /\ Taken(e) \in 0..1
      /\ providerCalls' = providerCalls /\ providerCalls \in Nat
  BY <1>1, <1>2, <1>4 DEF Taken, QuotaTypes
<1>6. QuotaTypes'  BY <1>1, <1>2, <1>3, SameLedger DEF QuotaTypes
<1>7. NoQueryForgotten'  BY <1>1, <1>2, <1>3, <1>4, PastQueries
<1> QED  BY <1>2, <1>3, <1>5, <1>6, <1>7, SameLedger, EnricherKeeps

(* An operator's reset gives no unit back; it allows one more alert.       *)
LEMMA ResetKeeps == ASSUME QuotaInductive, ResetProviderQuota  PROVE QuotaInductive'
<1>1. QuotaTypes  BY DEF QuotaInductive
<1>2. /\ quotaResets' = quotaResets + 1
      /\ UNCHANGED <<observed, waitingRoutes, enriching, providerCalls, quotaAlerts>>
  BY DEF ResetProviderQuota
<1>3. /\ ledger' \in [reserved : Nat, blocked : BOOLEAN, alerted : BOOLEAN]
      /\ ledger'.reserved = ledger.reserved /\ ledger'.alerted = FALSE
  BY <1>1 DEF ResetProviderQuota, QuotaTypes
<1>4. QuotaTypes'  BY <1>1, <1>2, <1>3 DEF QuotaTypes
<1>5. AlertsCounted'
  BY <1>1, <1>2, <1>3 DEF QuotaInductive, QuotaTypes, AlertsCounted
<1>6. NoQueryForgotten'  BY <1>2 DEF QuotaInductive, NoQueryForgotten
<1>7. Calling' = Calling /\ SafetyCeiling' = SafetyCeiling
  BY <1>2 DEF Calling, SafetyCeiling
<1>8. UnitsCoverCalls'  BY <1>2, <1>3, <1>7 DEF QuotaInductive, UnitsCoverCalls
<1> QED  BY <1>4, <1>5, <1>6, <1>8 DEF QuotaInductive

LEMMA QuotaStepInductive == QuotaInductive /\ [QuotaNext]_quotaVars => QuotaInductive'
<1> SUFFICES ASSUME QuotaInductive, [QuotaNext]_quotaVars PROVE QuotaInductive'
  OBVIOUS
<1>1. CASE ResetProviderQuota  BY <1>1, ResetKeeps
<1>2. CASE \E e \in Enricher : StartEnrich(e)  BY <1>2, StartEnrichKeeps
<1>3. CASE \E e \in Enricher : UseCached(e)  BY <1>3, UseCachedKeeps
<1>4. CASE \E e \in Enricher : Reserve(e)  BY <1>4, ReserveKeeps
<1>5. CASE \E e \in Enricher : MarkPending(e)  BY <1>5, MarkPendingKeeps
<1>6. CASE \E e \in Enricher : ProviderAnswers(e)  BY <1>6, ProviderAnswersKeeps
<1>7. CASE \E e \in Enricher : Put(e)  BY <1>7, PutKeeps
<1>8. CASE \E e \in Enricher : TripProviderQuota(e)  BY <1>8, TripKeeps
<1>9. CASE \E e \in Enricher : AbandonEnrich(e)  BY <1>9, AbandonKeeps
<1>10. CASE \E e \in Enricher : EndEnrich(e)  BY <1>10, EndEnrichKeeps
<1>11. CASE UNCHANGED quotaVars
  <2>1. Calling' = Calling /\ SafetyCeiling' = SafetyCeiling
    BY <1>11 DEF quotaVars, Calling, SafetyCeiling
  <2> QED
    BY <1>11, <2>1 DEF quotaVars, QuotaInductive, QuotaTypes, UnitsCoverCalls,
       AlertsCounted, NoQueryForgotten
<1> QED
  BY <1>1, <1>2, <1>3, <1>4, <1>5, <1>6, <1>7, <1>8, <1>9, <1>10, <1>11 DEF QuotaNext

LEMMA QuotaInductiveSuffices == QuotaInductive => QuotaInvariant
<1> SUFFICES ASSUME QuotaInductive PROVE QuotaInvariant  OBVIOUS
<1>1. Cardinality(Calling) \in Nat
  BY FS_CardinalityType DEF QuotaInductive, UnitsCoverCalls
<1>2. CallsWithinCeiling
  BY <1>1 DEF QuotaInductive, QuotaTypes, UnitsCoverCalls, CallsWithinCeiling
<1>3. OneAlertPerReset
  BY DEF QuotaInductive, QuotaTypes, AlertsCounted, OneAlertPerReset
<1> QED  BY <1>2, <1>3 DEF QuotaInvariant, QuotaInductive

(* For any number of enrichers, plans, allowance and safety ratio: the     *)
(* provider never sees more calls than the ceiling, one alert goes out per *)
(* reset, and no route an enricher went past is forgotten.                 *)
THEOREM QuotaInvariantAlways == QuotaSpec => []QuotaInvariant
  BY QuotaInitInductive, QuotaStepInductive, QuotaInductiveSuffices, PTL DEF QuotaSpec

-----------------------------------------------------------------------------
(* The smallest of some naturals is one of them.                           *)
LEMMA MinIsMember == ASSUME NEW S \in SUBSET Nat, S # {}  PROVE Min(S) \in S
<1>1. \E x \in S : \A y \in S : <<y, x>> \notin OpToRel(<, Nat)
  BY WFMin, NatLessThanWellFounded, Zenon
<1>2. PICK x \in S : \A y \in S : <<y, x>> \notin OpToRel(<, Nat)  BY <1>1
<1>3. \A y \in S : ~(y < x)  BY <1>2, Zenon DEF OpToRel
<1>4. \A y \in S : x <= y  BY <1>3
<1> QED  BY <1>4 DEF Min

(* Ids that are live or have left a tombstone.                             *)
Known == DOMAIN rows \cup tombstones

(* What expiry still has to shred was there once.                          *)
TodoOK(op, known) ==
    /\ {"kind", "phase"} \subseteq DOMAIN op
    /\ "todo" \in DOMAIN op => op.todo \subseteq known
    /\ op.phase \in {"expire", "shredding"} => "todo" \in DOMAIN op

(* A file is only unlinked once the tombstone is committed.                *)
OperationOK(op, known, tombs) ==
    /\ TodoOK(op, known)
    /\ op.phase = "unlink" => op.unlink \in tombs
    /\ op.phase \in {"unlink", "again"} =>
          /\ TodoOK(op.resume, known)
          /\ op.resume.phase \in {"look", "end", "shredding"}

Inserting(a) == Inside(a, "store", "insert")

(* The file of an insert is there, and no row or tombstone has its id.     *)
InsertIsFresh ==
    (\E a \in Actor : Inserting(a)) => lastArtifact \in files \ (Known \cup {0})

StoreShape ==
    /\ DOMAIN doing = Actor
    /\ lastArtifact \in Nat
    /\ Known \subseteq 1..lastArtifact
    /\ \A a \in Actor : OperationOK(doing[a], Known, tombstones)

StoreInductive ==
    StoreShape /\ InsertIsFresh /\ RowHasFile /\ StoredIsAccounted

LEMMA StoreInitInductive == StoreInit => StoreInductive
<1> SUFFICES ASSUME StoreInit PROVE StoreInductive  OBVIOUS
<1>1. Known = {}  BY DEF StoreInit, Known
<1>2. \A a \in Actor : doing[a] = NoOperation  BY DEF StoreInit
<1>3. OperationOK(NoOperation, Known, tombstones)
  BY DEF OperationOK, TodoOK, NoOperation
<1>4. StoreShape  BY <1>1, <1>2, <1>3 DEF StoreInit, StoreShape
<1>5. InsertIsFresh
  BY <1>2 DEF InsertIsFresh, Inserting, Inside, Doing, NoOperation
<1>6. RowHasFile /\ StoredIsAccounted
  BY DEF StoreInit, RowHasFile, StoredIsAccounted
<1> QED  BY <1>4, <1>5, <1>6 DEF StoreInductive

(* A known id stays known: what was right about an operation stays right.  *)
LEMMA OperationStaysOK ==
    ASSUME NEW op, NEW known, NEW tombs, NEW known2, NEW tombs2,
           OperationOK(op, known, tombs), known \subseteq known2, tombs \subseteq tombs2
    PROVE  OperationOK(op, known2, tombs2)
  BY DEF OperationOK, TodoOK

LEMMA OperationsStayOK ==
    ASSUME StoreShape, NEW a \in Actor, NEW op,
           doing' = [doing EXCEPT ![a] = op],
           Known \subseteq Known', tombstones \subseteq tombstones',
           OperationOK(op, Known', tombstones')
    PROVE  /\ DOMAIN doing' = Actor /\ doing'[a] = op
           /\ \A b \in Actor : b # a => doing'[b] = doing[b]
           /\ \A b \in Actor : OperationOK(doing'[b], Known', tombstones')
<1>1. /\ DOMAIN doing' = Actor /\ doing'[a] = op
      /\ \A b \in Actor : b # a => doing'[b] = doing[b]
  BY DEF StoreShape
<1>2. \A b \in Actor : OperationOK(doing[b], Known', tombstones')
  BY OperationStaysOK DEF StoreShape
<1> QED  BY <1>1, <1>2

(* A step that gives no new id keeps the invariant, when it keeps the      *)
(* files of all ids that are not known.                                    *)
LEMMA StoreKeeps ==
    ASSUME StoreInductive, NEW a \in Actor, NEW op,
           doing' = [doing EXCEPT ![a] = op], op.phase # "insert",
           writer' \in {writer, Nobody, a}, lastArtifact' = lastArtifact,
           Known' = Known, tombstones \subseteq tombstones',
           files \ Known \subseteq files',
           OperationOK(op, Known', tombstones'),
           RowHasFile', StoredIsAccounted'
    PROVE  StoreInductive'
<1>1. /\ DOMAIN doing' = Actor /\ doing'[a] = op
      /\ \A b \in Actor : b # a => doing'[b] = doing[b]
      /\ \A b \in Actor : OperationOK(doing'[b], Known', tombstones')
  BY OperationsStayOK DEF StoreInductive
<1>2. StoreShape'  BY <1>1 DEF StoreInductive, StoreShape
<1>3. InsertIsFresh'
  <2> SUFFICES ASSUME NEW b \in Actor, Inserting(b)'
               PROVE  lastArtifact' \in files' \ (Known' \cup {0})
    BY DEF InsertIsFresh
  <2>1. b # a  BY <1>1 DEF Inserting, Inside, Doing
  <2>2. writer = b
    BY <2>1, StoreAssumption DEF Inserting, Inside
  <2>3. Inserting(b)  BY <1>1, <2>1, <2>2 DEF Inserting, Inside, Doing
  <2>4. lastArtifact \in files \ (Known \cup {0})
    BY <2>3 DEF StoreInductive, InsertIsFresh
  <2> QED  BY <2>4
<1> QED  BY <1>2, <1>3 DEF StoreInductive

StoreTablesSame == UNCHANGED <<rows, tombstones, files, lastArtifact, stored>>

LEMMA StoreTablesKept ==
    ASSUME StoreInductive, StoreTablesSame
    PROVE  /\ Known' = Known /\ lastArtifact' = lastArtifact
           /\ files \ Known \subseteq files' /\ tombstones' = tombstones
           /\ RowHasFile' /\ StoredIsAccounted'
  BY DEF StoreInductive, StoreTablesSame, Known, RowHasFile, StoredIsAccounted

(* NoOperation waits for nothing.                                          *)
LEMMA NoOperationOK ==
    /\ NoOperation.phase # "insert"
    /\ \A known, tombs : OperationOK(NoOperation, known, tombs)
  BY DEF NoOperation, OperationOK, TodoOK

LEMMA EndOutcome ==
    ASSUME NEW a, End(a)
    PROVE  doing' = [doing EXCEPT ![a] = NoOperation] /\ writer' \in {writer, Nobody, a}
  BY DEF End, Continue

LEMMA RequestKeeps ==
    ASSUME StoreInductive, NEW a \in Actor, NEW op, Request(a, op),
           op.phase \in {"begin", "expire"}, TodoOK(op, {})
    PROVE  StoreInductive'
<1>1. /\ doing' = [doing EXCEPT ![a] = op] /\ writer' = writer
      /\ StoreTablesSame /\ op.phase # "insert"
  BY DEF Request, Continue, StoreTablesSame
<1>2. OperationOK(op, Known', tombstones')  BY DEF OperationOK, TodoOK
<1> QED  BY <1>1, <1>2, StoreTablesKept, StoreKeeps

LEMMA RequestsKeep ==
    ASSUME StoreInductive, NEW a \in Actor,
           \/ RequestExpire(a)
           \/ \E p, t, s : RequestStore(a, p, t, s)
           \/ \E i, t, l : RequestRead(a, i, t, l)
           \/ \E i, c : RequestReview(a, i, c)
           \/ \E i : RequestDelete(a, i)
    PROVE  StoreInductive'
<1>1. CASE RequestExpire(a)
  BY <1>1, RequestKeeps DEF RequestExpire, TodoOK
<1>2. CASE \E p, t, s : RequestStore(a, p, t, s)
  BY <1>2, RequestKeeps DEF RequestStore, TodoOK
<1>3. CASE \E i, t, l : RequestRead(a, i, t, l)
  BY <1>3, RequestKeeps DEF RequestRead, TodoOK
<1>4. CASE \E i, c : RequestReview(a, i, c)
  BY <1>4, RequestKeeps DEF RequestReview, TodoOK
<1>5. CASE \E i : RequestDelete(a, i)
  BY <1>5, RequestKeeps DEF RequestDelete, TodoOK
<1> QED  BY <1>1, <1>2, <1>3, <1>4, <1>5

LEMMA BeginTransactionKeeps ==
    ASSUME StoreInductive, NEW a \in Actor, BeginTransaction(a)  PROVE StoreInductive'
<1>1. /\ doing[a].phase \in {"begin", "again", "expire"} /\ writer' = a
      /\ StoreTablesSame /\ OperationOK(doing[a], Known, tombstones)
  BY DEF BeginTransaction, StoreTablesSame, StoreInductive, StoreShape
<1>2. CASE doing[a].phase = "expire"
  <2> DEFINE op == [doing[a] EXCEPT !.phase = "shredding",
                       !.todo = {i \in DOMAIN rows : Dead(rows[i], doing[a].now)}]
  <2>1. doing' = [doing EXCEPT ![a] = op]
    BY <1>2 DEF BeginTransaction, Continue
  <2>2. {"kind", "phase", "todo"} \subseteq DOMAIN doing[a]
    BY <1>1, <1>2 DEF OperationOK, TodoOK
  <2>3. /\ DOMAIN op = DOMAIN doing[a] /\ op.phase = "shredding"
        /\ op.todo = {i \in DOMAIN rows : Dead(rows[i], doing[a].now)}
    BY <2>2
  <2>4. op.todo \subseteq Known  BY <2>3 DEF Known
  <2> HIDE DEF op
  <2>5. OperationOK(op, Known, tombstones)  BY <2>2, <2>3, <2>4 DEF OperationOK, TodoOK
  <2> QED  BY <1>1, <2>1, <2>3, <2>5, StoreTablesKept, StoreKeeps
<1>3. CASE doing[a].phase = "begin"
  <2> DEFINE op == [doing[a] EXCEPT !.phase = "look"]
  <2>1. doing' = [doing EXCEPT ![a] = op]
    BY <1>3 DEF BeginTransaction, Continue, GoTo
  <2>2. {"kind", "phase"} \subseteq DOMAIN doing[a]
    BY <1>1 DEF OperationOK, TodoOK
  <2>3. /\ DOMAIN op = DOMAIN doing[a] /\ op.phase = "look"
        /\ "todo" \in DOMAIN op => op.todo = doing[a].todo
    BY <2>2
  <2> HIDE DEF op
  <2>4. OperationOK(op, Known, tombstones)  BY <1>1, <2>3 DEF OperationOK, TodoOK
  <2> QED  BY <1>1, <2>1, <2>3, <2>4, StoreTablesKept, StoreKeeps
<1>4. CASE doing[a].phase = "again"
  <2>1. doing' = [doing EXCEPT ![a] = doing[a].resume]
    BY <1>4 DEF BeginTransaction, Continue
  <2>2. OperationOK(doing[a].resume, Known, tombstones) /\ doing[a].resume.phase # "insert"
    BY <1>1, <1>4 DEF OperationOK, TodoOK
  <2> QED  BY <1>1, <2>1, <2>2, StoreTablesKept, StoreKeeps
<1> QED  BY <1>1, <1>2, <1>3, <1>4

LEMMA UnlinkKeeps ==
    ASSUME StoreInductive, NEW a \in Actor, Unlink(a)  PROVE StoreInductive'
<1> DEFINE op == [doing[a] EXCEPT !.phase = "again"]
<1>1. /\ doing[a].phase = "unlink" /\ files' = files \ {doing[a].unlink}
      /\ doing' = [doing EXCEPT ![a] = op] /\ writer' = writer
      /\ UNCHANGED <<rows, tombstones, lastArtifact, stored>>
      /\ OperationOK(doing[a], Known, tombstones)
  BY DEF Unlink, GoTo, Continue, StoreInductive, StoreShape
<1>2. {"kind", "phase"} \subseteq DOMAIN doing[a] /\ doing[a].unlink \in tombstones
  BY <1>1 DEF OperationOK, TodoOK
<1>3. /\ DOMAIN op = DOMAIN doing[a] /\ op.phase = "again"
      /\ "todo" \in DOMAIN op => op.todo = doing[a].todo
      /\ op.resume = doing[a].resume
  BY <1>2
<1> HIDE DEF op
<1>4. OperationOK(op, Known, tombstones)  BY <1>1, <1>3 DEF OperationOK, TodoOK
<1>5. Known' = Known /\ StoredIsAccounted'
  BY <1>1 DEF Known, StoredIsAccounted, StoreInductive
<1>6. RowHasFile' /\ files \ Known \subseteq files'
  BY <1>1, <1>2 DEF Known, StoreInductive, RowHasFile, StoredIsAccounted
<1> QED  BY <1>1, <1>3, <1>4, <1>5, <1>6, StoreKeeps

(* _shred turns a known id into a tombstone, and waits for the unlink.     *)
LEMMA ShredKeeps ==
    ASSUME StoreInductive, NEW a \in Actor, NEW i \in Known, NEW resume,
           Shred(a, i, Unlinking(i, resume)),
           TodoOK(resume, Known), resume.phase \in {"look", "end", "shredding"},
           UNCHANGED <<lastArtifact, stored>>
    PROVE  StoreInductive'
<1> DEFINE op == Unlinking(i, resume)
<1>1. /\ DOMAIN rows' = DOMAIN rows \ {i} /\ tombstones' = tombstones \cup {i}
      /\ writer' = Nobody /\ files' = files
      /\ doing' = [doing EXCEPT ![a] = op]
  BY DEF Shred, Continue
<1>2. Known' = Known  BY <1>1 DEF Known
<1>3. /\ op.phase = "unlink" /\ op.unlink = i /\ op.resume = resume
      /\ DOMAIN op = {"kind", "phase", "unlink", "resume"}
  BY DEF Unlinking
<1> HIDE DEF op
<1>4. OperationOK(op, Known', tombstones')
  BY <1>1, <1>2, <1>3 DEF OperationOK, TodoOK
<1>5. RowHasFile' /\ StoredIsAccounted'
  BY <1>1 DEF StoreInductive, RowHasFile, StoredIsAccounted, Known
<1> QED  BY <1>1, <1>2, <1>3, <1>4, <1>5, StoreKeeps

(* What shredding and then going on in a phase asks of the operation.      *)
LEMMA ShredThenKeeps ==
    ASSUME StoreInductive, NEW a \in Actor, NEW i \in DOMAIN rows,
           NEW phase \in {"look", "end"}, ShredThen(a, i, phase)
    PROVE  StoreInductive'
<1> DEFINE resume == [doing[a] EXCEPT !.phase = phase]
<1>1. OperationOK(doing[a], Known, tombstones)  BY DEF StoreInductive, StoreShape
<1>2. {"kind", "phase"} \subseteq DOMAIN doing[a]  BY <1>1 DEF OperationOK, TodoOK
<1>3. /\ DOMAIN resume = DOMAIN doing[a] /\ resume.phase = phase
      /\ "todo" \in DOMAIN resume => resume.todo = doing[a].todo
  BY <1>2
<1>4. Shred(a, i, Unlinking(i, resume)) /\ UNCHANGED <<lastArtifact, stored>>
  BY DEF ShredThen
<1> HIDE DEF resume
<1>5. TodoOK(resume, Known)  BY <1>1, <1>3 DEF OperationOK, TodoOK
<1>6. i \in Known  BY DEF Known
<1> QED  BY <1>3, <1>4, <1>5, <1>6, ShredKeeps

(* An operation that ends, whatever it did to rows that stay rows and to   *)
(* files of tombstones.                                                    *)
LEMMA EndKeeps ==
    ASSUME StoreInductive, NEW a \in Actor, End(a),
           Known' = Known, lastArtifact' = lastArtifact, tombstones' = tombstones,
           files \ Known \subseteq files', RowHasFile', StoredIsAccounted'
    PROVE  StoreInductive'
  BY EndOutcome, NoOperationOK, StoreKeeps

LEMMA OnlyEndsKeeps ==
    ASSUME StoreInductive, NEW a \in Actor,
           StoreRefused(a) \/ LookupFails(a) \/ ReadBody(a) \/ EndShredding(a) \/ Crash(a)
    PROVE  StoreInductive'
<1>1. End(a) /\ StoreTablesSame
  BY DEF StoreRefused, LookupFails, ReadBody, EndShredding, Crash, StoreTablesSame
<1> QED  BY <1>1, StoreTablesKept, EndKeeps

LEMMA LooksAndShredsKeeps ==
    ASSUME StoreInductive, NEW a \in Actor, StoreShreds(a) \/ LookupShreds(a)
    PROVE  StoreInductive'
<1>1. \E i \in DOMAIN rows, phase \in {"look", "end"} : ShredThen(a, i, phase)
  BY DEF StoreShreds, LookupShreds, Existing
<1> QED  BY <1>1, ShredThenKeeps

LEMMA StoreKnownKeeps ==
    ASSUME StoreInductive, NEW a \in Actor, StoreKnown(a)  PROVE StoreInductive'
<1>1. /\ End(a) /\ UNCHANGED <<tombstones, files, lastArtifact>>
      /\ DOMAIN rows' = DOMAIN rows
      /\ \E i \in DOMAIN rows : stored' = stored \cup {i}
  BY DEF StoreKnown, Existing
<1>2. Known' = Known  BY <1>1 DEF Known
<1>3. RowHasFile' /\ StoredIsAccounted'
  BY <1>1 DEF StoreInductive, RowHasFile, StoredIsAccounted
<1> QED  BY <1>1, <1>2, <1>3, EndKeeps

LEMMA ReviewKeeps ==
    ASSUME StoreInductive, NEW a \in Actor, Review(a)  PROVE StoreInductive'
<1>1. doing[a].id \in DOMAIN rows  BY DEF Review, Live
<1>2. CASE ShredThen(a, doing[a].id, "end")  BY <1>1, <1>2, ShredThenKeeps
<1>3. CASE /\ rows' = [rows EXCEPT ![doing[a].id].kind = "diagnostic"] /\ End(a)
           /\ UNCHANGED <<storeClock, tombstones, files, lastArtifact, stored, crashes>>
  <2>1. DOMAIN rows' = DOMAIN rows  BY <1>3
  <2>2. Known' = Known /\ RowHasFile' /\ StoredIsAccounted'
    BY <1>3, <2>1 DEF StoreInductive, Known, RowHasFile, StoredIsAccounted
  <2> QED  BY <1>3, <2>2, EndKeeps
<1> QED  BY <1>2, <1>3 DEF Review

LEMMA DeleteRowKeeps ==
    ASSUME StoreInductive, NEW a \in Actor, DeleteRow(a)  PROVE StoreInductive'
<1>1. CASE doing[a].id \in DOMAIN rows
  BY <1>1, ShredThenKeeps DEF DeleteRow
<1>2. CASE doing[a].id \notin DOMAIN rows
  <2>1. /\ files' = IF doing[a].id \in tombstones THEN files \ {doing[a].id} ELSE files
        /\ End(a) /\ UNCHANGED <<rows, tombstones, lastArtifact, stored>>
    BY <1>2 DEF DeleteRow
  <2>2. Known' = Known /\ StoredIsAccounted'
    BY <2>1 DEF StoreInductive, Known, StoredIsAccounted
  <2>3. RowHasFile' /\ files \ Known \subseteq files'
    BY <1>2, <2>1 DEF StoreInductive, RowHasFile, Known
  <2> QED  BY <2>1, <2>2, <2>3, EndKeeps
<1> QED  BY <1>1, <1>2

(* The file is there before the row, under an id nothing knows.            *)
LEMMA StoreFileKeeps ==
    ASSUME StoreInductive, NEW a \in Actor, StoreFile(a)  PROVE StoreInductive'
<1> DEFINE op == [doing[a] EXCEPT !.phase = "insert"]
<1>1. /\ lastArtifact' = lastArtifact + 1 /\ files' = files \cup {lastArtifact'}
      /\ UNCHANGED <<rows, tombstones, writer, stored>> /\ writer = a
      /\ doing' = [doing EXCEPT ![a] = op] /\ lastArtifact \in Nat
      /\ OperationOK(doing[a], Known, tombstones) /\ Known \subseteq 1..lastArtifact
  BY DEF StoreFile, Inside, GoTo, Continue, StoreInductive, StoreShape
<1>2. {"kind", "phase"} \subseteq DOMAIN doing[a]  BY <1>1 DEF OperationOK, TodoOK
<1>3. /\ DOMAIN op = DOMAIN doing[a] /\ op.phase = "insert"
      /\ "todo" \in DOMAIN op => op.todo = doing[a].todo
  BY <1>2
<1> HIDE DEF op
<1>4. Known' = Known  BY <1>1 DEF Known
<1>5. OperationOK(op, Known', tombstones')
  BY <1>1, <1>3, <1>4 DEF OperationOK, TodoOK
<1>6. /\ DOMAIN doing' = Actor
      /\ \A b \in Actor : OperationOK(doing'[b], Known', tombstones')
  BY <1>1, <1>4, <1>5, OperationsStayOK DEF StoreInductive
<1>7. StoreShape'  BY <1>1, <1>4, <1>6 DEF StoreShape
<1>8. lastArtifact' \in files' \ (Known' \cup {0})  BY <1>1, <1>4
<1>9. RowHasFile' /\ StoredIsAccounted'
  BY <1>1 DEF StoreInductive, RowHasFile, StoredIsAccounted
<1> QED  BY <1>7, <1>8, <1>9 DEF StoreInductive, InsertIsFresh

(* Only one actor is inside a transaction, so none inserts after the step. *)
LEMMA InsertEnds ==
    ASSUME StoreInductive, NEW a \in Actor, End(a), writer = a,
           tombstones' = tombstones, Known \subseteq Known',
           Known' \subseteq 1..lastArtifact, lastArtifact' = lastArtifact
    PROVE  StoreShape' /\ InsertIsFresh'
<1>1. doing' = [doing EXCEPT ![a] = NoOperation] /\ writer' = Nobody
  BY DEF End, Continue
<1>2. /\ DOMAIN doing' = Actor
      /\ \A b \in Actor : OperationOK(doing'[b], Known', tombstones')
  BY <1>1, NoOperationOK, OperationsStayOK DEF StoreInductive
<1>3. StoreShape'  BY <1>2 DEF StoreInductive, StoreShape
<1>4. InsertIsFresh'  BY <1>1, StoreAssumption DEF InsertIsFresh, Inserting, Inside
<1> QED  BY <1>3, <1>4

LEMMA StoreRowKeeps ==
    ASSUME StoreInductive, NEW a \in Actor, StoreRow(a)  PROVE StoreInductive'
<1>1. /\ End(a) /\ writer = a /\ UNCHANGED <<tombstones, files, lastArtifact>>
      /\ DOMAIN rows' = DOMAIN rows \cup {lastArtifact}
      /\ stored' = stored \cup {lastArtifact}
  BY DEF StoreRow, Inside
<1>2. lastArtifact \in files \ (Known \cup {0})
  BY DEF StoreRow, Inserting, StoreInductive, InsertIsFresh
<1>3. lastArtifact \in 1..lastArtifact
  <2>1. lastArtifact \in Nat  BY DEF StoreInductive, StoreShape
  <2> QED  BY <1>2, <2>1
<1>4. Known' = Known \cup {lastArtifact}  BY <1>1 DEF Known
<1>5. StoreShape' /\ InsertIsFresh'
  BY <1>1, <1>3, <1>4, InsertEnds DEF StoreInductive, StoreShape
<1>6. RowHasFile' /\ StoredIsAccounted'
  BY <1>1, <1>2 DEF StoreInductive, RowHasFile, StoredIsAccounted, Known
<1> QED  BY <1>5, <1>6 DEF StoreInductive

LEMMA StoreFailsKeeps ==
    ASSUME StoreInductive, NEW a \in Actor, StoreFails(a)  PROVE StoreInductive'
<1>1. /\ End(a) /\ writer = a /\ files' = files \ {lastArtifact}
      /\ UNCHANGED <<rows, tombstones, lastArtifact, stored>>
  BY DEF StoreFails, Inside
<1>2. lastArtifact \notin DOMAIN rows
  BY DEF StoreFails, Inserting, StoreInductive, InsertIsFresh, Known
<1>3. Known' = Known  BY <1>1 DEF Known
<1>4. StoreShape' /\ InsertIsFresh'
  BY <1>1, <1>3, InsertEnds DEF StoreInductive, StoreShape
<1>5. RowHasFile' /\ StoredIsAccounted'
  BY <1>1, <1>2 DEF StoreInductive, RowHasFile, StoredIsAccounted
<1> QED  BY <1>4, <1>5 DEF StoreInductive

LEMMA ExpireShredsKeeps ==
    ASSUME StoreInductive, NEW a \in Actor, ExpireShreds(a)  PROVE StoreInductive'
<1> DEFINE i == Min(doing[a].todo)
           resume == [doing[a] EXCEPT !.todo = @ \ {i}]
<1>1. /\ doing[a].phase = "shredding" /\ doing[a].todo # {}
      /\ Shred(a, i, Unlinking(i, resume)) /\ UNCHANGED <<lastArtifact, stored>>
      /\ OperationOK(doing[a], Known, tombstones)
      /\ Known \subseteq 1..lastArtifact /\ lastArtifact \in Nat
  BY DEF ExpireShreds, StoreInductive, StoreShape
<1>2. {"kind", "phase", "todo"} \subseteq DOMAIN doing[a] /\ doing[a].todo \subseteq Known
  BY <1>1 DEF OperationOK, TodoOK
<1>3. doing[a].todo \in SUBSET Nat  BY <1>1, <1>2
<1>4. i \in Known  BY <1>1, <1>2, <1>3, MinIsMember
<1>5. /\ DOMAIN resume = DOMAIN doing[a] /\ resume.phase = "shredding"
      /\ resume.todo = doing[a].todo \ {i}
  BY <1>1, <1>2
<1> HIDE DEF i, resume
<1>6. TodoOK(resume, Known)  BY <1>2, <1>5 DEF TodoOK
<1> QED  BY <1>1, <1>4, <1>5, <1>6, ShredKeeps

LEMMA ExpireEndsKeeps ==
    ASSUME StoreInductive, NEW a \in Actor, ExpireEnds(a)  PROVE StoreInductive'
<1>1. /\ files' = files \ tombstones /\ writer' = Nobody
      /\ UNCHANGED <<rows, tombstones, lastArtifact, stored>>
      /\ OperationOK(doing[a], Known, tombstones)
  BY DEF ExpireEnds, Swept, StoreInductive, StoreShape
<1>2. Known' = Known /\ StoredIsAccounted' /\ RowHasFile' /\ files \ Known \subseteq files'
  BY <1>1 DEF StoreInductive, Known, StoredIsAccounted, RowHasFile
<1>3. CASE doing' = [doing EXCEPT ![a] = NoOperation]
  BY <1>1, <1>2, <1>3, NoOperationOK, StoreKeeps
<1>4. CASE doing' = [doing EXCEPT ![a] = [doing[a] EXCEPT !.phase = "begin"]]
  <2> DEFINE op == [doing[a] EXCEPT !.phase = "begin"]
  <2>1. {"kind", "phase"} \subseteq DOMAIN doing[a]  BY <1>1 DEF OperationOK, TodoOK
  <2>2. /\ DOMAIN op = DOMAIN doing[a] /\ op.phase = "begin"
        /\ "todo" \in DOMAIN op => op.todo = doing[a].todo
    BY <2>1
  <2>3. doing' = [doing EXCEPT ![a] = op]  BY <1>4
  <2> HIDE DEF op
  <2>4. OperationOK(op, Known, tombstones)  BY <1>1, <2>2 DEF OperationOK, TodoOK
  <2> QED  BY <1>1, <1>2, <2>2, <2>3, <2>4, StoreKeeps
<1> QED  BY <1>3, <1>4 DEF ExpireEnds, GoTo, Continue

LEMMA StoreStepInductive == StoreInductive /\ [StoreNext]_storeVars => StoreInductive'
<1> SUFFICES ASSUME StoreInductive, [StoreNext]_storeVars PROVE StoreInductive'
  OBVIOUS
<1>1. CASE StoreTick \/ UNCHANGED storeVars
  <2>1. UNCHANGED <<doing, writer>> /\ StoreTablesSame
    BY <1>1 DEF StoreTick, storeVars, StoreTablesSame
  <2>2. StoreShape' /\ InsertIsFresh'
    BY <2>1 DEF StoreTablesSame, StoreInductive, StoreShape, InsertIsFresh,
       Inserting, Inside, Doing, Known
  <2> QED  BY <2>1, <2>2, StoreTablesKept DEF StoreInductive
<1>2. ASSUME NEW a \in Actor, StoreStep(a)  PROVE StoreInductive'
  <2>1. CASE BeginTransaction(a)  BY <2>1, BeginTransactionKeeps
  <2>2. CASE Unlink(a)  BY <2>2, UnlinkKeeps
  <2>3. CASE StoreShreds(a) \/ LookupShreds(a)  BY <2>3, LooksAndShredsKeeps
  <2>4. CASE StoreKnown(a)  BY <2>4, StoreKnownKeeps
  <2>5. CASE StoreRefused(a) \/ LookupFails(a) \/ ReadBody(a) \/ EndShredding(a)
    BY <2>5, OnlyEndsKeeps
  <2>6. CASE StoreFile(a)  BY <2>6, StoreFileKeeps
  <2>7. CASE StoreRow(a)  BY <2>7, StoreRowKeeps
  <2>8. CASE Review(a)  BY <2>8, ReviewKeeps
  <2>9. CASE DeleteRow(a)  BY <2>9, DeleteRowKeeps
  <2>10. CASE ExpireShreds(a)  BY <2>10, ExpireShredsKeeps
  <2>11. CASE ExpireEnds(a)  BY <2>11, ExpireEndsKeeps
  <2> QED
    BY <1>2, <2>1, <2>2, <2>3, <2>4, <2>5, <2>6, <2>7, <2>8, <2>9, <2>10, <2>11
       DEF StoreStep
<1>3. ASSUME NEW a \in Actor, StoreFails(a)  PROVE StoreInductive'
  BY <1>3, StoreFailsKeeps
<1>4. ASSUME NEW a \in Actor, Crash(a)  PROVE StoreInductive'
  BY <1>4, OnlyEndsKeeps
<1>5. ASSUME NEW a \in Actor,
             \/ RequestExpire(a)
             \/ \E p, t, s : RequestStore(a, p, t, s)
             \/ \E i, t, l : RequestRead(a, i, t, l)
             \/ \E i, c : RequestReview(a, i, c)
             \/ \E i : RequestDelete(a, i)
      PROVE  StoreInductive'
  BY <1>5, RequestsKeep
<1> QED  BY <1>1, <1>2, <1>3, <1>4, <1>5 DEF StoreNext

(* For any number of actors, pages and artifacts: whatever uploads, reads, *)
(* reviews, deletions, expiry and stops do, a row has its file and an id   *)
(* given out is live or has a tombstone.                                   *)
THEOREM StoreInvariantAlways == StoreSpec => []StoreInvariant
<1>1. StoreInductive => StoreInvariant  BY DEF StoreInductive, StoreInvariant
<1> QED  BY <1>1, StoreInitInductive, StoreStepInductive, PTL DEF StoreSpec

-----------------------------------------------------------------------------
Edit == {"draft", "form"} \X Nat

Form == [csrf : Nat, browser : Browser, shows : SUBSET Edit]

ProfileVersion == [edits : SUBSET Edit, approved : Nat, by : Browser \cup {"operator"}]

SettingsTypes ==
    /\ profiles \in Seq(ProfileVersion)
    /\ forms \subseteq Form
    /\ cookie \in [Browser -> Nat]
    /\ rendered \in Nat
    /\ saving \in [version : Nat, by : Browser \cup {"nobody"}, edits : SUBSET Edit]

(* The profile that a settings request reads as the newest one.            *)
LastIsBy(b) == Len(profiles) > 0 /\ profiles[Len(profiles)].by = b
LastEdits == profiles[Len(profiles)].edits

(* csrf values are given out once and in order.                            *)
CsrfInOrder ==
    /\ \A f \in forms : f.csrf <= rendered
    /\ \A f, g \in forms : f.csrf = g.csrf => f = g
    /\ \A b \in Browser : cookie[b] <= rendered

(* What a browser saves is approved.                                       *)
BrowserApproves ==
    \A v \in 1..Len(profiles) : profiles[v].by \in Browser => profiles[v].approved # 0

(* The form a browser can still save shows its own last save.              *)
FormShowsLast ==
    \A f \in forms : CsrfMatches(f) /\ LastIsBy(f.browser) => LastEdits \subseteq f.shows

(* While it saves a browser has no other form to save, and if nothing came *)
(* in between the save keeps the edits of the browser's last one.          *)
SavingKeeps ==
    saving # NotSaving =>
        /\ saving.by \in Browser
        /\ saving.version \in 1..NextVersion
        /\ \A f \in forms : f.browser = saving.by => ~CsrfMatches(f)
        /\ saving.version = NextVersion /\ LastIsBy(saving.by)
              => LastEdits \subseteq saving.edits

SettingsInductive ==
    /\ SettingsTypes /\ CsrfInOrder /\ BrowserApproves /\ FormShowsLast /\ SavingKeeps
    /\ EditsKeptWithinBrowser

LEMMA SettingsInitInductive == DeskInit => SettingsInductive
<1> SUFFICES ASSUME DeskInit PROVE SettingsInductive  OBVIOUS
<1>1. SettingsTypes  BY DEF DeskInit, SettingsTypes, NotSaving
<1>2. CsrfInOrder  BY DEF DeskInit, CsrfInOrder
<1>3. BrowserApproves /\ FormShowsLast /\ SavingKeeps /\ EditsKeptWithinBrowser
  BY DEF DeskInit, BrowserApproves, FormShowsLast, SavingKeeps, EditsKeptWithinBrowser
<1> QED  BY <1>1, <1>2, <1>3 DEF SettingsInductive

(* The largest of some numbers up to n is one of them.                     *)
LEMMA MaxIsMember ==
    ASSUME NEW n \in Nat, NEW S \in SUBSET (1..n), S # {}
    PROVE  Max(S) \in S /\ \A x \in S : x <= Max(S)
<1> DEFINE T == {n - x : x \in S}
<1>0. \A x \in S : x \in Nat /\ 1 <= x /\ x <= n  OBVIOUS
<1>1. T \in SUBSET Nat /\ T # {}
  <2>1. \A x \in S : n - x \in Nat  BY <1>0
  <2> QED  BY <2>1
<1>2. PICK m \in T : \A y \in T : m <= y
  <2> HIDE DEF T
  <2>1. \E x \in T : \A y \in T : <<y, x>> \notin OpToRel(<, Nat)
    BY <1>1, WFMin, NatLessThanWellFounded, Zenon
  <2>2. PICK x \in T : \A y \in T : <<y, x>> \notin OpToRel(<, Nat)  BY <2>1
  <2>3. \A y \in T : ~(y < x)  BY <1>1, <2>2, Zenon DEF OpToRel
  <2>4. \A y \in T : x <= y  BY <1>1, <2>3
  <2> QED  BY <2>4
<1>3. PICK x \in S : m = n - x  BY <1>2
<1>4. \A y \in S : x >= y
  <2>1. \A y \in S : m <= n - y  BY <1>2
  <2> QED  BY <1>0, <1>3, <2>1
<1>5. Max(S) \in S /\ \A y \in S : Max(S) >= y  BY <1>4 DEF Max
<1> QED  BY <1>5

LEMMA ActiveInRange ==
    ASSUME SettingsTypes
    PROVE  /\ Len(profiles) \in Nat /\ Approval \in Nat \ {0}
           /\ ActiveProfile # 0 => ActiveProfile \in 1..Len(profiles)
           /\ Len(profiles) \in Approvals => ActiveProfile = Len(profiles)
<1>1. Len(profiles) \in Nat  BY DEF SettingsTypes
<1>2. Approvals \in SUBSET (1..Len(profiles))  BY DEF Approvals
<1>3. IsFiniteSet(Approvals)
  <2>1. IsFiniteSet(1..Len(profiles))  BY <1>1, FS_Interval
  <2> QED  BY <1>2, <2>1, FS_Subset
<1>4. Approval \in Nat \ {0}
  <2>1. Cardinality(Approvals) \in Nat  BY <1>3, FS_CardinalityType
  <2> QED  BY <2>1 DEF Approval
<1>5. CASE Approvals = {}  BY <1>1, <1>4, <1>5 DEF ActiveProfile
<1>6. CASE Approvals # {}
  <2>1. ActiveProfile = Max(Approvals)  BY <1>6 DEF ActiveProfile
  <2>2. ActiveProfile \in Approvals /\ \A x \in Approvals : x <= ActiveProfile
    BY <1>1, <1>2, <1>6, <2>1, MaxIsMember
  <2> QED  BY <1>1, <1>2, <1>4, <2>2
<1> QED  BY <1>5, <1>6

LEMMA AppendProfile ==
    ASSUME SettingsTypes, NEW p \in ProfileVersion, profiles' = Append(profiles, p)
    PROVE  /\ profiles' \in Seq(ProfileVersion) /\ Len(profiles') = Len(profiles) + 1
           /\ profiles'[Len(profiles) + 1] = p
           /\ \A v \in 1..Len(profiles) : profiles'[v] = profiles[v]
           /\ Len(profiles) \in Nat
  BY DEF SettingsTypes

(* A new version keeps the saves of every browser, when it keeps those of  *)
(* the version before it if that was the same browser's.                   *)
LEMMA AppendKeepsEdits ==
    ASSUME SettingsTypes, BrowserApproves, EditsKeptWithinBrowser,
           NEW p \in ProfileVersion, profiles' = Append(profiles, p),
           p.by \in Browser => p.approved # 0,
           p.by \in Browser /\ LastIsBy(p.by) => LastEdits \subseteq p.edits
    PROVE  BrowserApproves' /\ EditsKeptWithinBrowser'
<1>1. /\ Len(profiles') = Len(profiles) + 1 /\ Len(profiles) \in Nat
      /\ profiles'[Len(profiles) + 1] = p
      /\ \A v \in 1..Len(profiles) : profiles'[v] = profiles[v]
  BY AppendProfile
<1>2. BrowserApproves'  BY <1>1 DEF BrowserApproves
<1>3. ASSUME NEW v \in 2..Len(profiles'),
             profiles'[v].by = profiles'[v - 1].by /\ profiles'[v].by \in Browser
      PROVE  profiles'[v - 1].edits \subseteq profiles'[v].edits
  <2>1. CASE v \in 2..Len(profiles)
    <3>1. profiles'[v] = profiles[v] /\ profiles'[v - 1] = profiles[v - 1]
      BY <1>1, <2>1
    <3> QED  BY <1>3, <2>1, <3>1 DEF EditsKeptWithinBrowser
  <2>2. CASE v = Len(profiles) + 1
    <3>1. /\ profiles'[v] = p /\ profiles'[v - 1] = profiles[Len(profiles)]
          /\ Len(profiles) > 0
      BY <1>1, <2>2
    <3> QED  BY <1>3, <3>1 DEF LastIsBy, LastEdits
  <2> QED  BY <1>1, <2>1, <2>2
<1> QED  BY <1>2, <1>3 DEF EditsKeptWithinBrowser

LEMMA AddDraftKeeps == ASSUME SettingsInductive, AddDraft  PROVE SettingsInductive'
<1> DEFINE p == [edits |-> {<<"draft", NextVersion>>}, approved |-> 0, by |-> "operator"]
<1>1. /\ profiles' = Append(profiles, p) /\ SettingsTypes
      /\ UNCHANGED <<forms, cookie, rendered, saving>>
  BY DEF AddDraft, SettingsInductive
<1>2. p \in ProfileVersion
  BY <1>1, ActiveInRange DEF ProfileVersion, Edit, NextVersion
<1>3. p.by \notin Browser /\ p.by = "operator"  BY DeskAssumption
<1> HIDE DEF p
<1>4. /\ profiles' \in Seq(ProfileVersion) /\ Len(profiles') = Len(profiles) + 1
      /\ profiles'[Len(profiles')] = p /\ Len(profiles) \in Nat
  BY <1>1, <1>2, AppendProfile
<1>5. BrowserApproves' /\ EditsKeptWithinBrowser'
  BY <1>1, <1>2, <1>3, AppendKeepsEdits DEF SettingsInductive
<1>6. SettingsTypes' /\ CsrfInOrder'
  BY <1>1, <1>4 DEF SettingsInductive, SettingsTypes, CsrfInOrder
<1>7. \A b \in Browser : ~LastIsBy(b)'  BY <1>3, <1>4 DEF LastIsBy
<1>8. FormShowsLast'  BY <1>6, <1>7 DEF FormShowsLast, SettingsTypes, Form
<1>9. SavingKeeps'
  BY <1>1, <1>4, <1>7 DEF SettingsInductive, SavingKeeps, NextVersion, CsrfMatches
<1> QED  BY <1>5, <1>6, <1>8, <1>9 DEF SettingsInductive

LEMMA SaveSettingsKeeps == ASSUME SettingsInductive, SaveSettings  PROVE SettingsInductive'
<1>1. /\ SettingsTypes /\ saving # NotSaving /\ saving' = NotSaving
      /\ UNCHANGED <<forms, cookie, rendered>>
  BY DEF SaveSettings, SettingsInductive
<1>2. saving' \in [version : Nat, by : Browser \cup {"nobody"}, edits : SUBSET Edit]
  BY <1>1 DEF NotSaving
<1>3. SavingKeeps' /\ CsrfInOrder'
  BY <1>1 DEF SavingKeeps, SettingsInductive, CsrfInOrder
<1>4. CASE saving.version = NextVersion
  <2> DEFINE p == [edits |-> saving.edits, approved |-> Approval, by |-> saving.by]
  <2>1. profiles' = Append(profiles, p)  BY <1>4 DEF SaveSettings
  <2>2. saving.by \in Browser  BY <1>1 DEF SettingsInductive, SavingKeeps
  <2>3. p \in ProfileVersion /\ p.approved # 0
    BY <1>1, <2>2, ActiveInRange DEF ProfileVersion, SettingsTypes
  <2>4. p.by = saving.by /\ p.edits = saving.edits  OBVIOUS
  <2> HIDE DEF p
  <2>5. LastIsBy(p.by) => LastEdits \subseteq p.edits
    BY <1>1, <1>4, <2>4 DEF SettingsInductive, SavingKeeps
  <2>6. BrowserApproves' /\ EditsKeptWithinBrowser'
    BY <1>1, <2>1, <2>3, <2>5, AppendKeepsEdits DEF SettingsInductive
  <2>7. profiles' \in Seq(ProfileVersion) /\ profiles'[Len(profiles')] = p
    BY <1>1, <2>1, <2>3, AppendProfile
  <2>8. SettingsTypes'  BY <1>1, <1>2, <2>7 DEF SettingsTypes
  <2>9. FormShowsLast'
    <3> SUFFICES ASSUME NEW f \in forms, CsrfMatches(f), LastIsBy(f.browser)'
                 PROVE  FALSE
      BY <1>1 DEF FormShowsLast, CsrfMatches
    <3>1. f.browser = saving.by  BY <2>4, <2>7 DEF LastIsBy
    <3> QED  BY <1>1, <3>1 DEF SettingsInductive, SavingKeeps
  <2> QED  BY <1>3, <2>6, <2>8, <2>9 DEF SettingsInductive
<1>5. CASE saving.version # NextVersion
  <2>1. UNCHANGED profiles  BY <1>5 DEF SaveSettings
  <2> QED
    BY <1>1, <1>2, <1>3, <2>1 DEF SettingsInductive, SettingsTypes, BrowserApproves,
       FormShowsLast, EditsKeptWithinBrowser, CsrfMatches, LastIsBy, LastEdits
<1> QED  BY <1>4, <1>5

LEMMA ApproveKeeps ==
    ASSUME SettingsInductive, NEW v \in 1..Len(profiles), Approve(v)
    PROVE  SettingsInductive'
<1>1. /\ SettingsTypes /\ profiles' = [profiles EXCEPT ![v].approved = Approval]
      /\ UNCHANGED <<forms, cookie, rendered, saving>> /\ Approval \in Nat \ {0}
  BY ActiveInRange DEF Approve, SettingsInductive
<1>2. /\ profiles \in Seq(ProfileVersion) /\ Len(profiles) \in Nat
      /\ profiles[v] \in ProfileVersion
  BY <1>1 DEF SettingsTypes
<1>3. [profiles[v] EXCEPT !.approved = Approval] \in ProfileVersion
  BY <1>1, <1>2 DEF ProfileVersion
<1>4. profiles' \in Seq(ProfileVersion) /\ Len(profiles') = Len(profiles)
  BY <1>1, <1>2, <1>3
<1>5. \A u \in 1..Len(profiles) :
          /\ profiles'[u].by = profiles[u].by /\ profiles'[u].edits = profiles[u].edits
          /\ profiles[u].approved # 0 => profiles'[u].approved # 0
  BY <1>1, <1>2 DEF ProfileVersion
<1>6. SettingsTypes' /\ CsrfInOrder'
  BY <1>1, <1>4 DEF SettingsInductive, SettingsTypes, CsrfInOrder
<1>7. BrowserApproves'  BY <1>4, <1>5 DEF SettingsInductive, BrowserApproves
<1>8. EditsKeptWithinBrowser'
  BY <1>2, <1>4, <1>5 DEF SettingsInductive, EditsKeptWithinBrowser
<1>9. \A b : LastIsBy(b)' => LastIsBy(b) /\ LastEdits' = LastEdits
  BY <1>2, <1>4, <1>5 DEF LastIsBy, LastEdits
<1>10. FormShowsLast'
  BY <1>1, <1>9 DEF SettingsInductive, FormShowsLast, CsrfMatches
<1>11. SavingKeeps'
  BY <1>1, <1>4, <1>9 DEF SettingsInductive, SavingKeeps, NextVersion, CsrfMatches
<1> QED  BY <1>6, <1>7, <1>8, <1>10, <1>11 DEF SettingsInductive

(* A new form shows the active profile, which a browser's own last save is. *)
LEMMA RenderKeeps ==
    ASSUME SettingsInductive, NEW b \in Browser, RenderSettings(b)
    PROVE  SettingsInductive'
<1> DEFINE new == [csrf |-> rendered + 1, browser |-> b,
                   shows |-> profiles[ActiveProfile].edits]
<1>1. /\ SettingsTypes /\ ActiveProfile # 0 /\ saving.by # b
      /\ rendered' = rendered + 1 /\ forms' = forms \cup {new}
      /\ cookie' = [cookie EXCEPT ![b] = rendered + 1]
      /\ UNCHANGED <<profiles, saving>>
  BY DEF RenderSettings, SettingsInductive
<1>2. /\ cookie' \in [Browser -> Nat] /\ cookie'[b] = rendered + 1 /\ rendered \in Nat
      /\ \A c \in Browser : c # b => cookie'[c] = cookie[c]
  BY <1>1 DEF SettingsTypes
<1>3. /\ new.csrf = rendered + 1 /\ new.browser = b
      /\ new.shows = profiles[ActiveProfile].edits
  OBVIOUS
<1>4. new \in Form
  <2>1. ActiveProfile \in 1..Len(profiles)  BY <1>1, ActiveInRange
  <2>2. profiles[ActiveProfile] \in ProfileVersion  BY <1>1, <2>1 DEF SettingsTypes
  <2> QED  BY <1>2, <2>2 DEF ProfileVersion, Form
<1>5. LastIsBy(b) => new.shows = LastEdits
  <2> SUFFICES ASSUME LastIsBy(b) PROVE new.shows = LastEdits  OBVIOUS
  <2>1. Len(profiles) \in Approvals
    BY <1>1, ActiveInRange DEF LastIsBy, SettingsInductive, BrowserApproves, Approvals
  <2> QED  BY <1>1, <2>1, ActiveInRange DEF LastEdits
<1> HIDE DEF new
<1>6. SettingsTypes'  BY <1>1, <1>2, <1>4 DEF SettingsTypes
<1>7. \A f \in forms : f.csrf \in Nat /\ f.csrf <= rendered /\ f.browser \in Browser
  BY <1>1 DEF SettingsInductive, SettingsTypes, CsrfInOrder, Form
<1>8. CsrfInOrder'
  <2>1. \A f \in forms' : f.csrf <= rendered'  BY <1>1, <1>2, <1>3, <1>7
  <2>2. \A f, g \in forms' : f.csrf = g.csrf => f = g
    BY <1>1, <1>2, <1>3, <1>7 DEF SettingsInductive, CsrfInOrder
  <2>3. \A c \in Browser : cookie'[c] <= rendered'
    BY <1>1, <1>2 DEF SettingsInductive, CsrfInOrder, SettingsTypes
  <2> QED  BY <2>1, <2>2, <2>3 DEF CsrfInOrder
<1>9. \A f \in forms' : CsrfMatches(f)' => f = new \/ (f \in forms /\ CsrfMatches(f)
                                                  /\ f.browser # b)
  BY <1>1, <1>2, <1>3, <1>7 DEF CsrfMatches
<1>10. \A c : LastIsBy(c)' = LastIsBy(c) /\ LastEdits' = LastEdits
  BY <1>1 DEF LastIsBy, LastEdits
<1>11. FormShowsLast'
  BY <1>3, <1>5, <1>9, <1>10 DEF SettingsInductive, FormShowsLast
<1>12. SavingKeeps'
  <2> SUFFICES ASSUME saving # NotSaving PROVE SavingKeeps'
    BY <1>1 DEF SavingKeeps
  <2>1. \A f \in forms' : f.browser = saving.by => ~CsrfMatches(f)'
    BY <1>1, <1>3, <1>9 DEF SettingsInductive, SavingKeeps
  <2> QED
    BY <1>1, <1>10, <2>1 DEF SettingsInductive, SavingKeeps, NextVersion
<1>13. BrowserApproves' /\ EditsKeptWithinBrowser'
  BY <1>1 DEF SettingsInductive, BrowserApproves, EditsKeptWithinBrowser
<1> QED  BY <1>6, <1>8, <1>11, <1>12, <1>13 DEF SettingsInductive

(* The form that is posted was the browser's only one that matches.        *)
LEMMA PostKeeps ==
    ASSUME SettingsInductive, NEW f \in forms, PostSettings(f)
    PROVE  SettingsInductive'
<1>1. /\ SettingsTypes /\ CsrfMatches(f) /\ forms' = forms \ {f}
      /\ saving' = [version |-> NextVersion, by |-> f.browser,
                    edits |-> ProfileFromSettings(f)]
      /\ UNCHANGED <<profiles, cookie, rendered>>
  BY DEF PostSettings, SettingsInductive
<1>2. f \in Form  BY <1>1 DEF SettingsTypes
<1>3. /\ saving'.version = NextVersion /\ saving'.by = f.browser
      /\ saving'.edits = f.shows \cup {<<"form", f.csrf>>}
      /\ saving' \in [version : Nat, by : Browser \cup {"nobody"}, edits : SUBSET Edit]
  BY <1>1, <1>2, ActiveInRange DEF ProfileFromSettings, NextVersion, Form, Edit
<1>4. SettingsTypes' /\ CsrfInOrder'
  BY <1>1, <1>3 DEF SettingsInductive, SettingsTypes, CsrfInOrder
<1>5. \A c : LastIsBy(c)' = LastIsBy(c) /\ LastEdits' = LastEdits
  BY <1>1 DEF LastIsBy, LastEdits
<1>6. FormShowsLast'
  BY <1>1, <1>5 DEF SettingsInductive, FormShowsLast, CsrfMatches
<1>7. \A g \in forms' : g.browser = f.browser => ~CsrfMatches(g)'
  BY <1>1 DEF SettingsInductive, CsrfInOrder, CsrfMatches
<1>8. LastIsBy(f.browser) => LastEdits \subseteq f.shows
  BY <1>1 DEF SettingsInductive, FormShowsLast
<1>9. NextVersion \in 1..NextVersion /\ NextVersion' = NextVersion
  BY <1>1, ActiveInRange DEF NextVersion
<1>10. SavingKeeps'
  BY <1>2, <1>3, <1>5, <1>7, <1>8, <1>9 DEF SavingKeeps, Form
<1>11. BrowserApproves' /\ EditsKeptWithinBrowser'
  BY <1>1 DEF SettingsInductive, BrowserApproves, EditsKeptWithinBrowser
<1> QED  BY <1>4, <1>6, <1>10, <1>11 DEF SettingsInductive

LEMMA SettingsSame ==
    ASSUME SettingsInductive, UNCHANGED settingsVars  PROVE SettingsInductive'
  BY DEF settingsVars, SettingsInductive, SettingsTypes, CsrfInOrder, BrowserApproves,
     FormShowsLast, SavingKeeps, EditsKeptWithinBrowser, CsrfMatches, LastIsBy,
     LastEdits, NextVersion

LEMMA RatingLeavesSettings == RatingNext \/ UNCHANGED deskVars => UNCHANGED settingsVars
  BY DEF RatingNext, RateInBrowser, DeskTick, IssueInsert, IssueRead, RateByLink,
     deskVars, settingsVars

LEMMA SettingsStepInductive == SettingsInductive /\ [DeskNext]_deskVars => SettingsInductive'
<1> SUFFICES ASSUME SettingsInductive, [DeskNext]_deskVars PROVE SettingsInductive'
  OBVIOUS
<1>1. CASE AddDraft  BY <1>1, AddDraftKeeps
<1>2. CASE SaveSettings  BY <1>2, SaveSettingsKeeps
<1>3. CASE \E v \in 1..Len(profiles) : Approve(v)  BY <1>3, ApproveKeeps
<1>4. CASE \E b \in Browser : RenderSettings(b)  BY <1>4, RenderKeeps
<1>5. CASE \E f \in forms : PostSettings(f)  BY <1>5, PostKeeps
<1>6. CASE RatingNext \/ UNCHANGED deskVars
  BY <1>6, RatingLeavesSettings, SettingsSame
<1> QED  BY <1>1, <1>2, <1>3, <1>4, <1>5, <1>6 DEF DeskNext, SettingsNext

(* For any number of browsers, forms and drafts: a version that a browser  *)
(* saves right after its own last one keeps every edit of it.              *)
THEOREM EditsKeptAlways == DeskSpec => []EditsKeptWithinBrowser
<1>1. SettingsInductive => EditsKeptWithinBrowser  BY DEF SettingsInductive
<1> QED  BY <1>1, SettingsInitInductive, SettingsStepInductive, PTL DEF DeskSpec

-----------------------------------------------------------------------------
FeedbackTypes ==
    /\ deskClock \in Nat
    /\ links \in [Link -> [expires : Nat, used : BOOLEAN]]
    /\ \A l \in Link : links[l] # NoLink => links[l].expires # 0
    /\ DOMAIN issuing = Mailer
    /\ mailed \subseteq Link \X Nat
    /\ IsFiniteSet(ratings)
    /\ \A r \in ratings : /\ r.id \in Nat /\ r.id < Cardinality(ratings)
                          /\ r.at \in Nat /\ r.at <= deskClock

IsIssued(l, expires) == links[l] # NoLink /\ links[l].expires = expires

(* What a mailer has read: a link that is still the same, or an expiry.    *)
IssuingIsSound ==
    \A w \in Mailer : issuing[w] # NothingRead =>
        /\ issuing[w].link \in Link /\ issuing[w].expires \in Nat \ {0}
        /\ issuing[w].found => IsIssued(issuing[w].link, issuing[w].expires)

FeedbackInductive == FeedbackTypes /\ IssuingIsSound /\ FeedbackInvariant

LEMMA FeedbackInitInductive == DeskInit => FeedbackInductive
<1> SUFFICES ASSUME DeskInit PROVE FeedbackInductive  OBVIOUS
<1>1. IsFiniteSet({}) /\ Cardinality({}) = 0  BY FS_EmptySet
<1>2. FeedbackTypes  BY <1>1 DEF DeskInit, FeedbackTypes, NoLink
<1>3. IssuingIsSound  BY DEF DeskInit, IssuingIsSound
<1>4. MailedLinkIsKnown /\ RatingsLimited
  BY DEF DeskInit, MailedLinkIsKnown, RatingsLimited
<1>5. LinkRatesOnce
  <2> SUFFICES ASSUME NEW l \in Link
               PROVE  Cardinality({r \in ratings : r.via = l}) = 0
    BY DEF DeskInit, LinkRatesOnce, NoLink
  <2>1. {r \in ratings : r.via = l} = {}  BY DEF DeskInit
  <2> QED  BY <1>1, <2>1
<1> QED  BY <1>2, <1>3, <1>4, <1>5 DEF FeedbackInductive, FeedbackInvariant

(* Links only come to be, or are used up; their expiry never changes.      *)
LinksOnlyGrow ==
    \A l \in Link : links[l] # NoLink =>
        links'[l] # NoLink /\ links'[l].expires = links[l].expires

LEMMA IssuedStays ==
    ASSUME LinksOnlyGrow, NEW l \in Link, NEW x, IsIssued(l, x)  PROVE IsIssued(l, x)'
  BY DEF LinksOnlyGrow, IsIssued

LEMMA MailedStaysKnown ==
    ASSUME FeedbackTypes, MailedLinkIsKnown, LinksOnlyGrow, mailed' = mailed
    PROVE  MailedLinkIsKnown'
  BY DEF FeedbackTypes, MailedLinkIsKnown, LinksOnlyGrow

LEMMA IssuingStaysSound ==
    ASSUME IssuingIsSound, LinksOnlyGrow, issuing' = issuing  PROVE IssuingIsSound'
  BY IssuedStays DEF IssuingIsSound

(* One more rating: the record is new, and every window still holds.       *)
NewRating(via) == [id |-> Cardinality(ratings), at |-> deskClock, via |-> via]

LEMMA OneMoreRating ==
    ASSUME FeedbackTypes, RatingsLimited, NEW via, RateWith(via), deskClock' = deskClock
    PROVE  /\ ratings' = ratings \cup {NewRating(via)} /\ NewRating(via) \notin ratings
           /\ IsFiniteSet(ratings') /\ Cardinality(ratings') = Cardinality(ratings) + 1
           /\ \A r \in ratings' : /\ r.id \in Nat /\ r.id < Cardinality(ratings')
                                  /\ r.at \in Nat /\ r.at <= deskClock'
           /\ RatingsLimited'
<1> DEFINE new == NewRating(via)
<1>1. /\ IsFiniteSet(ratings) /\ Cardinality(ratings) \in Nat /\ deskClock \in Nat
      /\ \A r \in ratings : /\ r.id \in Nat /\ r.id < Cardinality(ratings)
                            /\ r.at \in Nat /\ r.at <= deskClock
  BY FS_CardinalityType DEF FeedbackTypes
<1>2. ratings' = ratings \cup {new}  BY DEF RateWith, NewRating
<1>3. new.id = Cardinality(ratings) /\ new.at = deskClock  BY DEF NewRating
<1> HIDE DEF new
<1>4. new \notin ratings  BY <1>1, <1>3
<1>5. IsFiniteSet(ratings') /\ Cardinality(ratings') = Cardinality(ratings) + 1
  BY <1>1, <1>2, <1>4, FS_AddElement
<1>6. \A r \in ratings' : /\ r.id \in Nat /\ r.id < Cardinality(ratings')
                          /\ r.at \in Nat /\ r.at <= deskClock'
  BY <1>1, <1>2, <1>3, <1>5
<1>7. RatingsLimited'
  <2> SUFFICES ASSUME NEW r \in ratings'
               PROVE  Cardinality({s \in ratings' : s.at \in r.at..(r.at + Minute - 1)})
                          <= MaxPerMinute
    BY DEF RatingsLimited
  <2> DEFINE Old == {s \in ratings : s.at \in r.at..(r.at + Minute - 1)}
             Now == {s \in ratings' : s.at \in r.at..(r.at + Minute - 1)}
             Recent == {s \in ratings : s.at + Minute > deskClock}
  <2>1. IsFiniteSet(Old) /\ IsFiniteSet(Recent)
    BY <1>1, FS_Subset
  <2>2. Cardinality(Old) \in Nat /\ Cardinality(Recent) \in Nat
    BY <2>1, FS_CardinalityType
  <2>3. MaxPerMinute \in Nat \ {0} /\ Minute \in Nat \ {0}  BY DeskAssumption
  <2>4. CASE new \in Now
    <3>1. Now = Old \cup {new} /\ new \notin Old  BY <1>2, <1>4, <2>4
    <3>2. Cardinality(Now) = Cardinality(Old) + 1  BY <2>1, <3>1, FS_AddElement
    <3>3. r.at + Minute > deskClock /\ r.at \in Nat
      BY <1>1, <1>3, <1>6, <2>3, <2>4
    <3>4. Old \subseteq Recent
      BY <1>1, <2>3, <3>3
    <3>5. Cardinality(Old) <= Cardinality(Recent)  BY <2>1, <3>4, FS_Subset
    <3>6. ~(Cardinality(Recent) >= MaxPerMinute)  BY DEF RateWith, RateExceeded
    <3> QED  BY <2>2, <2>3, <3>2, <3>5, <3>6
  <2>5. CASE new \notin Now
    <3>1. Now = Old  BY <1>2, <2>5
    <3>2. CASE r = new
      <4>1. r.at \in r.at..(r.at + Minute - 1)  BY <1>6, <2>3
      <4> QED  BY <2>5, <3>2, <4>1
    <3>3. CASE r # new
      <4>1. Cardinality(Old) <= MaxPerMinute  BY <1>2, <3>3 DEF RatingsLimited
      <4> QED  BY <3>1, <4>1
    <3> QED  BY <3>2, <3>3
  <2> QED  BY <2>4, <2>5
<1> QED  BY <1>2, <1>4, <1>5, <1>6, <1>7 DEF new

(* How often a link has rated after one more rating.                       *)
Rated(l) == {r \in ratings : r.via = l}

LEMMA RatedAfter ==
    ASSUME FeedbackTypes, NEW via, NEW l,
           ratings' = ratings \cup {NewRating(via)}, NewRating(via) \notin ratings
    PROVE  /\ Cardinality(Rated(l)) \in Nat
           /\ Cardinality(Rated(l)') = Cardinality(Rated(l)) + (IF l = via THEN 1 ELSE 0)
<1> DEFINE new == NewRating(via)
<1>1. new.via = via  BY DEF NewRating
<1>2. IsFiniteSet(Rated(l))  BY FS_Subset DEF FeedbackTypes, Rated
<1>3. Cardinality(Rated(l)) \in Nat  BY <1>2, FS_CardinalityType
<1> HIDE DEF new
<1>4. CASE l = via
  <2>1. Rated(l)' = Rated(l) \cup {new} /\ new \notin Rated(l)
    BY <1>1, <1>4 DEF Rated, new
  <2>2. Cardinality(Rated(l) \cup {new}) = Cardinality(Rated(l)) + 1
    BY <1>2, <2>1, FS_AddElement
  <2> QED  BY <1>3, <1>4, <2>1, <2>2
<1>5. CASE l # via
  <2>1. Rated(l)' = Rated(l)  BY <1>1, <1>5 DEF Rated, new
  <2> QED  BY <1>3, <1>5, <2>1
<1> QED  BY <1>4, <1>5

LEMMA IssueReadKeeps ==
    ASSUME FeedbackInductive, NEW w \in Mailer, NEW l \in Link, IssueRead(w, l)
    PROVE  FeedbackInductive'
<1> DEFINE read == IF links[l] # NoLink
                     THEN [link |-> l, expires |-> links[l].expires, found |-> TRUE]
                     ELSE [link |-> l, expires |-> FirstExpiry, found |-> FALSE]
<1>1. /\ issuing' = [issuing EXCEPT ![w] = read] /\ FeedbackTypes
      /\ UNCHANGED <<deskClock, links, mailed, ratings>>
  BY DEF IssueRead, FeedbackInductive
<1>2. /\ read.link = l /\ read.expires = IF links[l] # NoLink THEN links[l].expires
                                                              ELSE FirstExpiry
      /\ read.found => links[l] # NoLink
  OBVIOUS
<1>3. /\ DOMAIN issuing' = Mailer /\ issuing'[w] = read
      /\ \A x \in Mailer : x # w => issuing'[x] = issuing[x]
  BY <1>1 DEF FeedbackTypes
<1> HIDE DEF read
<1>4. links[l] # NoLink => links[l].expires \in Nat \ {0}
  BY <1>1 DEF FeedbackTypes
<1>5. FirstExpiry \in Nat \ {0}
  BY <1>1, DeskAssumption DEF FirstExpiry, FeedbackTypes
<1>6. FeedbackTypes' /\ FeedbackInvariant'
  BY <1>1, <1>3 DEF FeedbackInductive, FeedbackTypes, FeedbackInvariant,
     MailedLinkIsKnown, LinkRatesOnce, RatingsLimited
<1>7. IssuingIsSound'
  BY <1>1, <1>2, <1>3, <1>4, <1>5 DEF FeedbackInductive, IssuingIsSound, IsIssued
<1> QED  BY <1>6, <1>7 DEF FeedbackInductive

(* The insert of a link that is not there yet, or the repeat of one.       *)
LEMMA IssueInsertKeeps ==
    ASSUME FeedbackInductive, NEW w \in Mailer, IssueInsert(w)
    PROVE  FeedbackInductive'
<1> DEFINE l == issuing[w].link
           x == issuing[w].expires
<1>1. /\ FeedbackTypes /\ MailedLinkIsKnown /\ issuing[w] # NothingRead
      /\ issuing' = [issuing EXCEPT ![w] = NothingRead]
      /\ UNCHANGED <<deskClock, ratings>>
  BY DEF IssueInsert, FeedbackInductive, FeedbackInvariant
<1>2. /\ DOMAIN issuing' = Mailer /\ issuing'[w] = NothingRead
      /\ \A y \in Mailer : y # w => issuing'[y] = issuing[y]
  BY <1>1 DEF FeedbackTypes
<1>3. l \in Link /\ x \in Nat \ {0} /\ (issuing[w].found => IsIssued(l, x))
  BY <1>1 DEF FeedbackInductive, IssuingIsSound
<1> HIDE DEF l, x
<1>4. CASE links' = links /\ mailed' = mailed
  <2>1. FeedbackTypes' /\ FeedbackInvariant'
    BY <1>1, <1>2, <1>4 DEF FeedbackInductive, FeedbackTypes, FeedbackInvariant,
       MailedLinkIsKnown, LinkRatesOnce, RatingsLimited
  <2>2. IssuingIsSound'
    BY <1>2, <1>4 DEF FeedbackInductive, IssuingIsSound, IsIssued
  <2> QED  BY <2>1, <2>2 DEF FeedbackInductive
<1>5. CASE links' = links /\ mailed' = mailed \cup {<<l, x>>} /\ issuing[w].found
  <2>1. FeedbackTypes'
    BY <1>1, <1>2, <1>3, <1>5 DEF FeedbackTypes
  <2>2. MailedLinkIsKnown'
    BY <1>1, <1>3, <1>5 DEF MailedLinkIsKnown, IsIssued
  <2>3. LinkRatesOnce' /\ RatingsLimited'
    BY <1>1, <1>5 DEF FeedbackInductive, FeedbackInvariant, LinkRatesOnce, RatingsLimited
  <2>4. IssuingIsSound'
    BY <1>2, <1>5 DEF FeedbackInductive, IssuingIsSound, IsIssued
  <2> QED  BY <2>1, <2>2, <2>3, <2>4 DEF FeedbackInductive, FeedbackInvariant
<1>6. CASE /\ links[l] = NoLink /\ mailed' = mailed \cup {<<l, x>>}
           /\ links' = [links EXCEPT ![l] = [expires |-> x, used |-> FALSE]]
  <2>1. /\ links' \in [Link -> [expires : Nat, used : BOOLEAN]]
        /\ links'[l] # NoLink /\ links'[l].expires = x /\ links'[l].used = FALSE
        /\ \A k \in Link : k # l => links'[k] = links[k]
    BY <1>1, <1>3, <1>6 DEF FeedbackTypes, NoLink
  <2>2. LinksOnlyGrow  BY <1>6, <2>1 DEF LinksOnlyGrow
  <2>3. FeedbackTypes'
    BY <1>1, <1>2, <1>3, <1>6, <2>1 DEF FeedbackTypes
  <2>4. MailedLinkIsKnown'
    <3>1. \A m \in mailed : links'[m[1]] # NoLink /\ links'[m[1]].expires = m[2]
      BY <1>1, <2>2 DEF MailedLinkIsKnown, LinksOnlyGrow, FeedbackTypes
    <3> QED  BY <1>6, <2>1, <3>1 DEF MailedLinkIsKnown
  <2>5. \A k \in Link : links'[k].used = links[k].used
    <3>1. links[l].used = FALSE  BY <1>6 DEF NoLink
    <3> QED  BY <2>1, <3>1
  <2>6. LinkRatesOnce'
    BY <1>1, <2>5 DEF FeedbackInductive, FeedbackInvariant, LinkRatesOnce
  <2>7. RatingsLimited'
    BY <1>1 DEF FeedbackInductive, FeedbackInvariant, RatingsLimited
  <2>8. IssuingIsSound'
    BY <1>2, <2>2, IssuedStays DEF FeedbackInductive, IssuingIsSound
  <2> QED  BY <2>3, <2>4, <2>6, <2>7, <2>8 DEF FeedbackInductive, FeedbackInvariant
<1> QED  BY <1>4, <1>5, <1>6 DEF IssueInsert, Issued, l, x

(* A rating by a link uses the link up in the same transaction.            *)
LEMMA RateByLinkKeeps ==
    ASSUME FeedbackInductive, NEW l \in Link, NEW x, RateByLink(l, x)
    PROVE  FeedbackInductive'
<1>1. /\ FeedbackTypes /\ FeedbackInvariant /\ RateWith(l) /\ ~links[l].used
      /\ links[l].expires > deskClock
      /\ links' = [links EXCEPT ![l].used = TRUE]
      /\ UNCHANGED <<deskClock, issuing, mailed>>
  BY DEF RateByLink, UsableToken, FeedbackInductive
<1>2. /\ links' \in [Link -> [expires : Nat, used : BOOLEAN]]
      /\ \A k \in Link : /\ links'[k].expires = links[k].expires
                         /\ links'[k].used = (links[k].used \/ k = l)
                         /\ k # l => links'[k] = links[k]
  BY <1>1 DEF FeedbackTypes
<1>3. links[l].expires # 0  BY <1>1 DEF FeedbackTypes
<1>4. \A k \in Link : links[k] # NoLink => links[k].expires # 0
  BY <1>1 DEF FeedbackTypes
<1>5. \A k \in Link : links[k] # NoLink => links'[k] # NoLink
  BY <1>2, <1>4 DEF NoLink
<1>6. LinksOnlyGrow  BY <1>2, <1>5 DEF LinksOnlyGrow
<1>7. \A k \in Link : links'[k] # NoLink => links'[k].expires # 0
  BY <1>2, <1>3, <1>4
<1>8. /\ ratings' = ratings \cup {NewRating(l)} /\ NewRating(l) \notin ratings
      /\ IsFiniteSet(ratings')
      /\ \A r \in ratings' : /\ r.id \in Nat /\ r.id < Cardinality(ratings')
                             /\ r.at \in Nat /\ r.at <= deskClock'
      /\ RatingsLimited'
  BY <1>1, OneMoreRating DEF FeedbackInvariant
<1>9. FeedbackTypes'  BY <1>1, <1>2, <1>7, <1>8 DEF FeedbackTypes
<1>10. LinkRatesOnce'
  <2> SUFFICES ASSUME NEW k \in Link
               PROVE  Cardinality(Rated(k)') = IF links'[k].used THEN 1 ELSE 0
    BY DEF LinkRatesOnce, Rated
  <2>1. Cardinality(Rated(k)) = IF links[k].used THEN 1 ELSE 0
    BY <1>1 DEF FeedbackInvariant, LinkRatesOnce, Rated
  <2>2. Cardinality(Rated(k)') = Cardinality(Rated(k)) + (IF k = l THEN 1 ELSE 0)
    BY <1>1, <1>8, RatedAfter
  <2> QED  BY <1>1, <1>2, <2>1, <2>2
<1>11. MailedLinkIsKnown' /\ IssuingIsSound'
  BY <1>1, <1>6, MailedStaysKnown, IssuingStaysSound
     DEF FeedbackInductive, FeedbackInvariant
<1> QED  BY <1>8, <1>9, <1>10, <1>11 DEF FeedbackInductive, FeedbackInvariant

LEMMA RateInBrowserKeeps ==
    ASSUME FeedbackInductive, RateInBrowser  PROVE FeedbackInductive'
<1>1. /\ FeedbackTypes /\ FeedbackInvariant /\ RateWith("browser")
      /\ UNCHANGED <<deskClock, links, issuing, mailed>>
  BY DEF RateInBrowser, FeedbackInductive
<1>2. /\ ratings' = ratings \cup {NewRating("browser")} /\ NewRating("browser") \notin ratings
      /\ IsFiniteSet(ratings')
      /\ \A r \in ratings' : /\ r.id \in Nat /\ r.id < Cardinality(ratings')
                             /\ r.at \in Nat /\ r.at <= deskClock'
      /\ RatingsLimited'
  BY <1>1, OneMoreRating DEF FeedbackInvariant
<1>3. FeedbackTypes'  BY <1>1, <1>2 DEF FeedbackTypes
<1>4. LinkRatesOnce'
  <2> SUFFICES ASSUME NEW k \in Link
               PROVE  Cardinality(Rated(k)') = IF links[k].used THEN 1 ELSE 0
    BY <1>1 DEF LinkRatesOnce, Rated
  <2>1. Cardinality(Rated(k)) = IF links[k].used THEN 1 ELSE 0
    BY <1>1 DEF FeedbackInvariant, LinkRatesOnce, Rated
  <2>2. k # "browser"  BY DeskAssumption
  <2>3. Cardinality(Rated(k)') = Cardinality(Rated(k)) + (IF k = "browser" THEN 1 ELSE 0)
    BY <1>1, <1>2, RatedAfter
  <2>4. Cardinality(Rated(k)') = Cardinality(Rated(k))
    BY <1>1, <1>2, <2>2, <2>3, RatedAfter
  <2> QED  BY <2>1, <2>4
<1>5. LinksOnlyGrow  BY <1>1 DEF LinksOnlyGrow
<1>6. MailedLinkIsKnown' /\ IssuingIsSound'
  BY <1>1, <1>5, MailedStaysKnown, IssuingStaysSound
     DEF FeedbackInductive, FeedbackInvariant
<1> QED  BY <1>2, <1>3, <1>4, <1>6 DEF FeedbackInductive, FeedbackInvariant

LEMMA ClockOnlyKeeps ==
    ASSUME FeedbackInductive, UNCHANGED ratingVars, deskClock' \in {deskClock, deskClock + 1}
    PROVE  FeedbackInductive'
<1>1. FeedbackTypes'  BY DEF FeedbackInductive, FeedbackTypes, ratingVars
<1> QED
  BY <1>1 DEF FeedbackInductive, FeedbackInvariant, IssuingIsSound, IsIssued, ratingVars,
     MailedLinkIsKnown, LinkRatesOnce, RatingsLimited

LEMMA SettingsLeaveRatings ==
    SettingsNext \/ UNCHANGED deskVars => UNCHANGED <<deskClock, ratingVars>>
  BY DEF SettingsNext, AddDraft, SaveSettings, Approve, RenderSettings, PostSettings,
     deskVars, ratingVars

LEMMA FeedbackStepInductive == FeedbackInductive /\ [DeskNext]_deskVars => FeedbackInductive'
<1> SUFFICES ASSUME FeedbackInductive, [DeskNext]_deskVars PROVE FeedbackInductive'
  OBVIOUS
<1>1. CASE SettingsNext \/ UNCHANGED deskVars
  BY <1>1, SettingsLeaveRatings, ClockOnlyKeeps
<1>2. CASE RateInBrowser  BY <1>2, RateInBrowserKeeps
<1>3. CASE DeskTick  BY <1>3, ClockOnlyKeeps DEF DeskTick
<1>4. CASE \E w \in Mailer : IssueInsert(w)  BY <1>4, IssueInsertKeeps
<1>5. CASE \E w \in Mailer, l \in Link : IssueRead(w, l)  BY <1>5, IssueReadKeeps
<1>6. CASE \E l \in Link, x \in LinkTtl..(DeskHorizon + LinkTtl) : RateByLink(l, x)
  BY <1>6, RateByLinkKeeps
<1> QED  BY <1>1, <1>2, <1>3, <1>4, <1>5, <1>6 DEF DeskNext, RatingNext

(* For any number of mailers, links and ratings: every mailed link is the  *)
(* one the database knows, a link rates once, and no minute sees more      *)
(* ratings than the limit.                                                 *)
THEOREM FeedbackInvariantAlways == DeskSpec => []FeedbackInvariant
<1>1. FeedbackInductive => FeedbackInvariant  BY DEF FeedbackInductive
<1> QED  BY <1>1, FeedbackInitInductive, FeedbackStepInductive, PTL DEF DeskSpec

-----------------------------------------------------------------------------
LimiterState ==
    [day : Nat, used : Nat, nextAt : Nat, blockedUntil : Nat, failures : Nat]

Waiting == serving.phase = "wait"

RateTypes ==
    /\ rateClock \in Nat
    /\ limiterFile \in LimiterState
    /\ Waiting => serving.state \in LimiterState
    /\ visits \in [last : Nat, today : Nat]
    /\ denial \in Nat

(* The file already holds the time before which no further visit is made,  *)
(* and the request in the lock carries the same time.                      *)
NextVisitSaved ==
    /\ visits.today > 0 => visits.last + Interval <= limiterFile.nextAt
    /\ Waiting => serving.state.nextAt = limiterFile.nextAt

(* A noted failure is over, or the file blocks until it is; who has passed *)
(* the check came after it.                                                *)
DenialSaved ==
    /\ denial <= rateClock \/ limiterFile.blockedUntil = denial
    /\ Waiting \/ Fetching => denial <= rateClock

(* What the file counts of the visits of a day: all but one that waited    *)
(* over midnight.                                                          *)
CountedToday == IF limiterFile.day = DayOf(visits.last) THEN limiterFile.used ELSE 0

DayCounted ==
    /\ visits.last <= rateClock
    /\ limiterFile.day <= DayOf(visits.last) /\ limiterFile.used <= DailyLimit
    /\ visits.today <= CountedToday + 1
    /\ Waiting =>
          /\ DayOf(visits.last) <= serving.state.day
          /\ serving.state.day <= DayOf(rateClock)
          /\ serving.state.used < DailyLimit
          /\ serving.state.used = IF serving.state.day = limiterFile.day
                                    THEN limiterFile.used ELSE 0

RateInductive == RateTypes /\ NextVisitSaved /\ DenialSaved /\ DayCounted

LEMMA DayIsMonotonic ==
    \A x, y \in Nat : x <= y => DayOf(x) \in Nat /\ DayOf(x) <= DayOf(y)
<1> SUFFICES ASSUME NEW x \in Nat, NEW y \in Nat, x <= y
             PROVE  x \div DayLength \in Nat /\ x \div DayLength <= y \div DayLength
  BY DEF DayOf
<1>1. DayLength \in Nat \ {0}  BY RateAssumption
<1> QED  BY <1>1

LEMMA DelayIsNat ==
    ASSUME NEW denied \in BOOLEAN, NEW failures \in Nat \ {0}, NEW after \in Nat
    PROVE  FailureDelay(denied, failures, after) \in Nat
<1>1. Doubling(failures) \in Nat
  <2>1. Lower(failures, 9) \in 1..9  BY DEF Lower
  <2>2. \A i \in 1..9 : <<1, 2, 4, 8, 16, 32, 64, 128, 256>>[i] \in Nat  OBVIOUS
  <2> QED  BY <2>1, <2>2 DEF Doubling
<1> DEFINE first == IF denied THEN DeniedDelay ELSE ErrorDelay
           cap == IF denied THEN MaxDelayDenied ELSE MaxDelayError
           own == Lower(cap, first * Doubling(failures))
<1>2. {DeniedDelay, ErrorDelay, MaxDelayError, MaxDelayDenied} \subseteq Nat
  BY RateAssumption
<1>3. first \in Nat /\ cap \in Nat /\ MaxDelayDenied \in Nat
  BY <1>2
<1>4. first * Doubling(failures) \in Nat  BY <1>1, <1>3
<1>5. own \in Nat  BY <1>3, <1>4 DEF Lower
<1> HIDE DEF own
<1>6. Lower(IF after # 0 THEN after ELSE own, MaxDelayDenied) \in Nat
  BY <1>3, <1>5 DEF Lower
<1> QED  BY <1>6 DEF FailureDelay, own

LEMMA RateInitInductive == RateInit => RateInductive
<1> SUFFICES ASSUME RateInit PROVE RateInductive  OBVIOUS
<1>1. RateTypes  BY DEF RateInit, RateTypes, LimiterState, Waiting, NotServing
<1>2. NextVisitSaved /\ DenialSaved
  BY DEF RateInit, NextVisitSaved, DenialSaved, Waiting, Fetching, NotServing
<1>3. DayOf(0) \in Nat /\ DailyLimit \in Nat
  BY DayIsMonotonic, RateAssumption
<1>4. DayCounted
  BY <1>3 DEF RateInit, DayCounted, CountedToday, Waiting, NotServing
<1> QED  BY <1>1, <1>2, <1>4 DEF RateInductive

(* Steps that neither serve nor visit: clients, time and a new lock.       *)
LEMMA LimiterUntouched ==
    ASSUME RateInductive, UNCHANGED <<limiterFile, visits, denial>>,
           serving' = serving \/ serving' = NotServing,
           rateClock' \in {rateClock, rateClock + 1}
    PROVE  RateInductive'
<1>1. rateClock \in Nat /\ rateClock' \in Nat /\ rateClock <= rateClock'
  BY DEF RateInductive, RateTypes
<1>2. /\ Waiting' => Waiting /\ serving' = serving
      /\ Fetching' => Fetching
  BY DEF Waiting, Fetching, NotServing
<1>3. /\ DayOf(rateClock) \in Nat /\ DayOf(rateClock') \in Nat
      /\ DayOf(rateClock) <= DayOf(rateClock')
  BY <1>1, DayIsMonotonic
<1>4. RateTypes'  BY <1>1, <1>2 DEF RateInductive, RateTypes
<1>5. NextVisitSaved'  BY <1>2 DEF RateInductive, NextVisitSaved
<1>6. DenialSaved'
  BY <1>1, <1>2 DEF RateInductive, RateTypes, DenialSaved
<1>7. DayCounted'
  <2>1. visits.last <= rateClock' /\ visits.last \in Nat
    BY <1>1 DEF RateInductive, RateTypes, DayCounted
  <2>2. CountedToday' = CountedToday  BY DEF CountedToday, DayOf
  <2>3. Waiting' => serving.state.day <= DayOf(rateClock')
    BY <1>2, <1>3 DEF RateInductive, RateTypes, DayCounted, LimiterState
  <2>4. DayOf(visits.last)' = DayOf(visits.last) /\ DayOf(rateClock)' = DayOf(rateClock')
    BY DEF DayOf
  <2> QED
    BY <1>2, <2>1, <2>2, <2>3, <2>4 DEF RateInductive, DayCounted
<1> QED  BY <1>4, <1>5, <1>6, <1>7 DEF RateInductive

(* Who gets the lock and need not defer has a day with room and no denial. *)
LEMMA TakeLockKeeps ==
    ASSUME RateInductive, TakeLock  PROVE RateInductive'
<1>1. UNCHANGED <<rateClock, limiterFile, visits, denial>>  BY DEF TakeLock
<1>2. CASE serving' = serving
  BY <1>1, <1>2, LimiterUntouched
<1>3. CASE /\ ~MustDefer(Rolled)
           /\ serving' = [phase |-> "wait", state |-> Rolled, since |-> rateClock]
  <2>1. /\ rateClock \in Nat /\ limiterFile \in LimiterState /\ denial \in Nat
        /\ visits.last \in Nat
    BY DEF RateInductive, RateTypes
  <2>2. /\ serving'.state = Rolled /\ serving'.phase = "wait"
        /\ Waiting' /\ ~Fetching'
    BY <1>3 DEF Waiting, Fetching
  <2>3. DayOf(rateClock) \in Nat /\ DayOf(visits.last) <= DayOf(rateClock)
    BY <2>1, DayIsMonotonic DEF RateInductive, DayCounted
  <2>4. /\ Rolled \in LimiterState /\ Rolled.nextAt = limiterFile.nextAt
        /\ Rolled.blockedUntil = limiterFile.blockedUntil
        /\ Rolled.day = DayOf(rateClock)
        /\ Rolled.used = IF Rolled.day = limiterFile.day THEN limiterFile.used ELSE 0
    BY <2>1, <2>3 DEF Rolled, LimiterState
  <2>5. ~(Rolled.used >= DailyLimit) /\ ~(Rolled.blockedUntil > rateClock)
    BY <1>3 DEF MustDefer, DayUsedUp, BlockedNow
  <2>6. RateTypes'  BY <1>1, <2>2, <2>4 DEF RateInductive, RateTypes
  <2>7. NextVisitSaved'  BY <1>1, <2>2, <2>4 DEF RateInductive, NextVisitSaved
  <2>8. DenialSaved'
    BY <1>1, <2>1, <2>2, <2>4, <2>5 DEF RateInductive, DenialSaved, LimiterState
  <2>9. DayCounted'
    <3>1. CountedToday' = CountedToday /\ DayOf(visits.last)' = DayOf(visits.last)
          /\ DayOf(rateClock)' = DayOf(rateClock)
      BY <1>1 DEF CountedToday, DayOf
    <3>2. Rolled.used < DailyLimit
      BY <2>4, <2>5, RateAssumption DEF LimiterState
    <3> QED
      BY <1>1, <2>2, <2>3, <2>4, <3>1, <3>2 DEF RateInductive, DayCounted
  <2> QED  BY <2>6, <2>7, <2>8, <2>9 DEF RateInductive
<1> QED  BY <1>2, <1>3 DEF TakeLock

(* The visit: what may not happen before now, and what is counted.         *)
LEMMA GoToPortalFacts ==
    ASSUME RateInductive, GoToPortal
    PROVE  /\ visits.today > 0 => rateClock >= visits.last + Interval
           /\ rateClock >= denial
<1>1. /\ Waiting /\ serving.state.nextAt <= rateClock
      /\ rateClock \in Nat /\ serving.state \in LimiterState
      /\ denial <= rateClock /\ denial \in Nat
      /\ visits \in [last : Nat, today : Nat]
      /\ visits.today > 0 => visits.last + Interval <= serving.state.nextAt
  BY DEF GoToPortal, Waiting, RateInductive, RateTypes, NextVisitSaved, DenialSaved
<1>2. Interval \in Nat  BY RateAssumption
<1> QED  BY <1>1, <1>2 DEF LimiterState

CountedState(state, next) == [state EXCEPT !.used = @ + 1, !.nextAt = next]

LEMMA CountedStateType ==
    ASSUME NEW state \in LimiterState, NEW next \in Nat
    PROVE  LET file == CountedState(state, next)
           IN  /\ file \in LimiterState /\ file.day = state.day
               /\ file.used = state.used + 1 /\ file.nextAt = next
<1> DEFINE file == CountedState(state, next)
<1>1. state.used + 1 \in Nat  BY DEF LimiterState
<1>2. [state EXCEPT !.used = state.used + 1] \in LimiterState  BY <1>1 DEF LimiterState
<1>3. /\ file.day = state.day /\ file.used = state.used + 1 /\ file.nextAt = next
  BY DEF LimiterState, CountedState
<1>4. file = [[state EXCEPT !.used = state.used + 1] EXCEPT !.nextAt = next]
  BY DEF LimiterState, CountedState
<1>5. file \in LimiterState  BY <1>2, <1>4 DEF LimiterState
<1> QED  BY <1>3, <1>5

LEMMA GoToPortalKeeps ==
    ASSUME RateInductive, GoToPortal  PROVE RateInductive'
<1>1. PICK jitter \in 0..Jitter :
          limiterFile' = [serving.state EXCEPT
                              !.used = @ + 1, !.nextAt = PacedFrom + Interval + jitter]
  BY DEF GoToPortal
<1>2. /\ Waiting /\ serving' = [phase |-> "fetch"]
      /\ visits' = [last |-> rateClock,
                    today |-> IF DayOf(visits.last) = DayOf(rateClock)
                                THEN visits.today + 1 ELSE 1]
      /\ UNCHANGED <<rateClock, denial>>
  BY DEF GoToPortal, Waiting
<1>3. /\ rateClock \in Nat /\ serving.state \in LimiterState /\ denial \in Nat
      /\ visits.last \in Nat /\ visits.today \in Nat /\ limiterFile \in LimiterState
      /\ jitter \in Nat /\ Interval \in Nat \ {0} /\ DailyLimit \in Nat \ {0}
  BY <1>2, RateAssumption DEF RateInductive, RateTypes
<1>4. /\ limiterFile' \in LimiterState /\ limiterFile'.day = serving.state.day
      /\ limiterFile'.used = serving.state.used + 1
      /\ limiterFile'.nextAt = rateClock + Interval + jitter
  <2>1. rateClock + Interval + jitter \in Nat  BY <1>3
  <2>2. PICK state \in LimiterState : state = serving.state  BY <1>3
  <2>3. PICK next \in Nat : next = rateClock + Interval + jitter  BY <2>1
  <2>4. limiterFile' = CountedState(state, next)
    BY <1>1, <2>2, <2>3 DEF PacedFrom, CountedState
  <2>5. /\ limiterFile' \in LimiterState /\ limiterFile'.day = state.day
        /\ limiterFile'.used = state.used + 1 /\ limiterFile'.nextAt = next
    BY <2>4, CountedStateType
  <2> QED  BY <2>2, <2>3, <2>5
<1>5. ~Waiting'  BY <1>2 DEF Waiting
<1>6. visits'.last = rateClock /\ visits' \in [last : Nat, today : Nat]
  BY <1>2, <1>3
<1>7. RateTypes'  BY <1>2, <1>3, <1>4, <1>5, <1>6 DEF RateTypes
<1>8. NextVisitSaved'  BY <1>3, <1>4, <1>5, <1>6 DEF NextVisitSaved
<1>9. DenialSaved'  BY <1>2 DEF RateInductive, DenialSaved
<1>10. DayCounted'
  <2>1. /\ visits.last <= rateClock /\ DayOf(visits.last) <= serving.state.day
        /\ serving.state.day <= DayOf(rateClock) /\ serving.state.used < DailyLimit
        /\ serving.state.used = IF serving.state.day = limiterFile.day
                                  THEN limiterFile.used ELSE 0
        /\ visits.today <= CountedToday + 1 /\ limiterFile.day <= DayOf(visits.last)
    BY <1>2 DEF RateInductive, DayCounted
  <2>2. DayOf(visits.last) \in Nat /\ DayOf(rateClock) \in Nat
    BY <1>3, DayIsMonotonic
  <2>3. DayOf(visits.last)' = DayOf(rateClock)  BY <1>6 DEF DayOf
  <2>4. /\ serving.state.day \in Nat /\ serving.state.used \in Nat
        /\ limiterFile.day \in Nat /\ limiterFile.used \in Nat
    BY <1>3 DEF LimiterState
  <2>5. CountedToday' = IF serving.state.day = DayOf(rateClock)
                          THEN serving.state.used + 1 ELSE 0
    BY <1>4, <2>3 DEF CountedToday
  <2>6. visits'.today <= CountedToday' + 1
    <3>1. CASE DayOf(visits.last) # DayOf(rateClock)
      <4>1. visits'.today = 1  BY <1>2, <3>1
      <4> QED  BY <2>4, <2>5, <4>1
    <3>2. CASE DayOf(visits.last) = DayOf(rateClock)
      <4>1. visits'.today = visits.today + 1  BY <1>2, <3>2
      <4>2. serving.state.day = DayOf(rateClock)  BY <2>1, <2>2, <2>4, <3>2
      <4>3. CountedToday <= serving.state.used /\ CountedToday \in Nat
        BY <2>1, <2>4, <3>2, <4>2 DEF CountedToday
      <4> QED  BY <1>3, <2>1, <2>4, <2>5, <4>1, <4>2, <4>3
    <3> QED  BY <3>1, <3>2
  <2>7. limiterFile'.used <= DailyLimit  BY <1>3, <1>4, <2>1, <2>4
  <2>8. limiterFile'.day <= DayOf(visits.last)'  BY <1>4, <2>1, <2>3
  <2> QED  BY <1>2, <1>3, <1>5, <1>6, <2>6, <2>7, <2>8 DEF DayCounted
<1> QED  BY <1>7, <1>8, <1>9, <1>10 DEF RateInductive

(* The outcome of a fetch changes what the file says of failures only.     *)
LEMMA OutcomeKeeps ==
    ASSUME RateInductive, Fetching, serving' = NotServing,
           UNCHANGED <<rateClock, visits>>,
           limiterFile' \in LimiterState, denial' \in Nat,
           limiterFile'.day = limiterFile.day, limiterFile'.used = limiterFile.used,
           limiterFile'.nextAt = limiterFile.nextAt,
           limiterFile'.blockedUntil = denial' \/ denial' = denial
    PROVE  RateInductive'
<1>1. ~Waiting' /\ ~Fetching'  BY DEF Waiting, Fetching, NotServing
<1>2. denial <= rateClock  BY DEF RateInductive, DenialSaved
<1>3. RateTypes'  BY <1>1 DEF RateInductive, RateTypes
<1>4. NextVisitSaved'  BY <1>1 DEF RateInductive, NextVisitSaved
<1>5. DenialSaved'  BY <1>1, <1>2 DEF DenialSaved
<1>6. CountedToday' = CountedToday /\ DayOf(visits.last)' = DayOf(visits.last)
  BY DEF CountedToday, DayOf
<1>7. DayCounted'  BY <1>1, <1>6 DEF RateInductive, DayCounted
<1> QED  BY <1>3, <1>4, <1>5, <1>7 DEF RateInductive

LEMMA AfterSuccessKeeps == ASSUME RateInductive, AfterSuccess  PROVE RateInductive'
<1>1. /\ Fetching /\ serving' = NotServing /\ UNCHANGED <<rateClock, visits, denial>>
      /\ limiterFile' = [limiterFile EXCEPT !.failures = 0, !.blockedUntil = 0]
      /\ limiterFile \in LimiterState /\ denial \in Nat
  BY DEF AfterSuccess, ReleaseLock, RateInductive, RateTypes
<1>2. /\ limiterFile' \in LimiterState /\ limiterFile'.day = limiterFile.day
      /\ limiterFile'.used = limiterFile.used /\ limiterFile'.nextAt = limiterFile.nextAt
  BY <1>1 DEF LimiterState
<1> QED  BY <1>1, <1>2, OutcomeKeeps

LEMMA AfterFailureKeeps ==
    ASSUME RateInductive, NEW denied \in BOOLEAN, NEW after \in RetryAfter,
           AfterFailure(denied, after)
    PROVE  RateInductive'
<1> DEFINE failures == limiterFile.failures + 1
           until == rateClock + FailureDelay(denied, failures, after)
<1>1. /\ Fetching /\ serving' = NotServing /\ UNCHANGED <<rateClock, visits>>
      /\ limiterFile' = [limiterFile EXCEPT !.failures = failures, !.blockedUntil = until]
      /\ denial' = until
      /\ limiterFile \in LimiterState /\ rateClock \in Nat
  BY DEF AfterFailure, ReleaseLock, RateInductive, RateTypes
<1>2. failures \in Nat \ {0} /\ after \in Nat
  BY <1>1, RateAssumption DEF LimiterState
<1>3. until \in Nat  BY <1>1, <1>2, DelayIsNat
<1> HIDE DEF failures, until
<1>4. /\ limiterFile' \in LimiterState /\ limiterFile'.day = limiterFile.day
      /\ limiterFile'.used = limiterFile.used /\ limiterFile'.nextAt = limiterFile.nextAt
      /\ limiterFile'.blockedUntil = denial'
  BY <1>1, <1>2, <1>3 DEF LimiterState
<1> QED  BY <1>1, <1>3, <1>4, OutcomeKeeps

LEMMA RateStepInductive == RateInductive /\ [RateNext]_rateVars => RateInductive'
<1> SUFFICES ASSUME RateInductive, [RateNext]_rateVars PROVE RateInductive'
  OBVIOUS
<1>1. CASE TakeLock  BY <1>1, TakeLockKeeps
<1>2. CASE GoToPortal  BY <1>2, GoToPortalKeeps
<1>3. CASE AfterSuccess  BY <1>3, AfterSuccessKeeps
<1>4. CASE \E denied \in BOOLEAN, after \in RetryAfter : AfterFailure(denied, after)
  BY <1>4, AfterFailureKeeps
<1>5. CASE \/ Ask \/ AskFallback \/ FallbackEnds \/ PageError \/ ServiceRestarts \/ RateTick
           \/ UNCHANGED rateVars
  <2>1. /\ UNCHANGED <<limiterFile, visits, denial>>
        /\ serving' = serving \/ serving' = NotServing
        /\ rateClock' \in {rateClock, rateClock + 1}
    BY <1>5 DEF Ask, AskFallback, FallbackEnds, PageError, ServiceRestarts, RateTick,
       ReleaseLock, rateVars
  <2> QED  BY <2>1, LimiterUntouched
<1> QED  BY <1>1, <1>2, <1>3, <1>4, <1>5 DEF RateNext

LEMMA OnlyGoToPortalVisits ==
    ASSUME [RateNext]_rateVars, visits' # visits  PROVE GoToPortal
  BY DEF RateNext, rateVars, TakeLock, AfterSuccess, AfterFailure, Ask, AskFallback,
     FallbackEnds, PageError, ServiceRestarts, RateTick

(* For every interval, limit and day length, with any clients, restarts    *)
(* and answers of the portal: visits are at least the interval apart, a    *)
(* denial is waited out, and a day sees at most one visit over the limit.  *)
THEOREM PortalSparedAlways == RateSpec => PortalSpared
<1>1. RateInductive => DayWithinLimit
  <2> SUFFICES ASSUME RateInductive PROVE DayWithinLimit  OBVIOUS
  <2>1. /\ limiterFile.used \in Nat /\ limiterFile.used <= DailyLimit
        /\ visits.today \in Nat /\ visits.today <= CountedToday + 1
        /\ DailyLimit \in Nat
    BY RateAssumption DEF RateInductive, RateTypes, DayCounted, LimiterState
  <2>2. CountedToday \in Nat /\ CountedToday <= DailyLimit  BY <2>1 DEF CountedToday
  <2> QED  BY <2>1, <2>2 DEF DayWithinLimit
<1>2. RateInductive /\ [RateNext]_rateVars =>
          /\ [visits' # visits /\ visits.today > 0
                => rateClock >= visits.last + Interval]_rateVars
          /\ [visits' # visits => rateClock >= denial]_rateVars
  BY OnlyGoToPortalVisits, GoToPortalFacts
<1> QED
  BY <1>1, <1>2, RateInitInductive, RateStepInductive, PTL
     DEF RateSpec, PortalSpared, VisitsSpaced, DenialKeepsAway

-----------------------------------------------------------------------------
(* The order in which build_manifest takes the artifacts of a pool, and    *)
(* how many it takes before one.                                           *)
Ahead(pool, d, e) ==
    \/ Place(pool, d) < Place(pool, e)
    \/ Place(pool, d) = Place(pool, e) /\ StratumOf[d] < StratumOf[e]

Rank(pool, e) == Cardinality({d \in pool : Ahead(pool, d, e)})

LEMMA SampleByRank ==
    ASSUME NEW pool
    PROVE  Sample(pool) = {e \in pool : Rank(pool, e) < MaxRaw}
  BY DEF Sample, Rank, Ahead

LEMMA BenchConstants ==
    /\ IsFiniteSet(Raw) /\ MaxRaw \in Nat
    /\ \A e \in Raw : e \in Nat /\ StratumOf[e] \in Nat /\ ExpiryOf[e] \in Nat
  BY BenchAssumption

(* Within a stratum the artifacts keep their order.                        *)
LEMMA PlaceGrows ==
    ASSUME NEW pool \in SUBSET Raw, NEW d \in pool, NEW e \in pool,
           StratumOf[d] = StratumOf[e], d < e
    PROVE  Place(pool, d) < Place(pool, e)
<1> DEFINE Below(x) == {z \in pool : StratumOf[z] = StratumOf[x] /\ z < x}
<1>1. d \in Nat /\ e \in Nat /\ \A z \in pool : z \in Nat  BY BenchConstants
<1>2. Below(d) \in SUBSET Below(e)
  <2>1. \A z \in pool : z < d => z < e  BY <1>1
  <2> QED  BY <2>1
<1>3. d \in Below(e) /\ d \notin Below(d)  BY <1>1
<1>4. IsFiniteSet(pool)  BY BenchConstants, FS_Subset
<1>5. IsFiniteSet(Below(d)) /\ IsFiniteSet(Below(e))  BY <1>4, FS_Subset
<1>6. Place(pool, d) = Cardinality(Below(d)) /\ Place(pool, e) = Cardinality(Below(e))
  BY DEF Place
<1> HIDE DEF Below
<1>7. /\ Cardinality(Below(d)) <= Cardinality(Below(e))
      /\ Cardinality(Below(d)) # Cardinality(Below(e))
  BY <1>2, <1>3, <1>5, FS_Subset
<1>8. Cardinality(Below(d)) \in Nat /\ Cardinality(Below(e)) \in Nat
  BY <1>5, FS_CardinalityType
<1> QED  BY <1>6, <1>7, <1>8

LEMMA PlaceIsNat ==
    ASSUME NEW pool \in SUBSET Raw
    PROVE  \A e \in pool : Place(pool, e) \in Nat
  BY BenchConstants, FS_Subset, FS_CardinalityType DEF Place

(* The order is total.                                                     *)
LEMMA AheadIsOrder ==
    ASSUME NEW pool \in SUBSET Raw
    PROVE  /\ \A d \in pool : ~Ahead(pool, d, d)
           /\ \A d, e, f \in pool : Ahead(pool, d, e) /\ Ahead(pool, e, f)
                                        => Ahead(pool, d, f)
           /\ \A d, e \in pool : d # e => Ahead(pool, d, e) \/ Ahead(pool, e, d)
<1>1. \A d \in pool : /\ Place(pool, d) \in Nat /\ StratumOf[d] \in Nat /\ d \in Nat
  BY BenchConstants, PlaceIsNat
<1>2. \A d \in pool : ~Ahead(pool, d, d)  BY <1>1 DEF Ahead
<1>3. \A d, e, f \in pool : Ahead(pool, d, e) /\ Ahead(pool, e, f) => Ahead(pool, d, f)
  BY <1>1 DEF Ahead
<1>4. ASSUME NEW d \in pool, NEW e \in pool, d # e
      PROVE  Ahead(pool, d, e) \/ Ahead(pool, e, d)
  <2>1. CASE StratumOf[d] = StratumOf[e]
    <3>1. d < e \/ e < d  BY <1>1, <1>4
    <3> QED  BY <1>1, <2>1, <3>1, PlaceGrows DEF Ahead
  <2>2. CASE StratumOf[d] # StratumOf[e]
    BY <1>1, <2>2 DEF Ahead
  <2> QED  BY <2>1, <2>2
<1> QED  BY <1>2, <1>3, <1>4

LEMMA RankGrows ==
    ASSUME NEW pool \in SUBSET Raw
    PROVE  /\ \A e \in pool : /\ Rank(pool, e) \in Nat
                              /\ Rank(pool, e) < Cardinality(pool)
           /\ \A d, e \in pool : Ahead(pool, d, e) => Rank(pool, d) < Rank(pool, e)
           /\ IsFiniteSet(pool) /\ Cardinality(pool) \in Nat
<1> DEFINE Former(e) == {d \in pool : Ahead(pool, d, e)}
<1>1. IsFiniteSet(pool) /\ Cardinality(pool) \in Nat
  BY BenchConstants, FS_Subset, FS_CardinalityType
<1>2. \A e : /\ Former(e) \in SUBSET pool /\ IsFiniteSet(Former(e))
             /\ Cardinality(Former(e)) \in Nat
             /\ Rank(pool, e) = Cardinality(Former(e))
  BY <1>1, FS_Subset, FS_CardinalityType DEF Rank
<1>3. \A e \in pool : e \notin Former(e)  BY AheadIsOrder
<1>4. \A d, e \in pool : Ahead(pool, d, e) => /\ Former(d) \in SUBSET Former(e)
                                              /\ d \in Former(e)
  BY AheadIsOrder
<1> HIDE DEF Former
<1>5. ASSUME NEW e \in pool  PROVE Rank(pool, e) < Cardinality(pool)
  <2>1. Cardinality(Former(e)) <= Cardinality(pool) /\ Cardinality(Former(e)) # Cardinality(pool)
    BY <1>1, <1>2, <1>3, FS_Subset
  <2> QED  BY <1>1, <1>2, <2>1
<1>6. ASSUME NEW d \in pool, NEW e \in pool, Ahead(pool, d, e)
      PROVE  Rank(pool, d) < Rank(pool, e)
  <2>1. /\ Cardinality(Former(d)) <= Cardinality(Former(e))
        /\ Cardinality(Former(d)) # Cardinality(Former(e))
    BY <1>2, <1>3, <1>4, <1>6, FS_Subset
  <2> QED  BY <1>2, <2>1
<1> QED  BY <1>1, <1>2, <1>5, <1>6

LEMMA FirstOf ==
    ASSUME NEW pool \in SUBSET Raw, NEW S \in SUBSET pool, S # {}
    PROVE  \E x \in S : \A z \in S \ {x} : Ahead(pool, x, z)
<1> DEFINE T == {Rank(pool, z) : z \in S}
<1>1. T \in SUBSET Nat /\ T # {}  BY RankGrows
<1>2. Min(T) \in T /\ \A n \in T : Min(T) <= n
  <2> HIDE DEF T
  <2>1. PICK m \in T : \A n \in T : <<n, m>> \notin OpToRel(<, Nat)
    BY <1>1, WFMin, NatLessThanWellFounded, Zenon
  <2>2. \A n \in T : ~(n < m)  BY <1>1, <2>1, Zenon DEF OpToRel
  <2>3. \A n \in T : m <= n  BY <1>1, <2>2
  <2> QED  BY <2>3 DEF Min
<1>3. PICK x \in S : Min(T) = Rank(pool, x)  BY <1>2
<1>4. \A z \in S : Rank(pool, x) <= Rank(pool, z)  BY <1>2, <1>3
<1>5. \A z \in S : ~Ahead(pool, z, x)  BY <1>4, RankGrows
<1> QED  BY <1>5, AheadIsOrder

LEMMA LastOf ==
    ASSUME NEW pool \in SUBSET Raw, NEW S \in SUBSET pool, S # {}
    PROVE  \E x \in S : \A z \in S \ {x} : Ahead(pool, z, x)
<1> DEFINE T == {Cardinality(pool) - Rank(pool, z) : z \in S}
<1>1. T \in SUBSET Nat /\ T # {}  BY RankGrows
<1>2. PICK m \in T : \A n \in T : m <= n
  <2> HIDE DEF T
  <2>1. PICK m \in T : \A n \in T : <<n, m>> \notin OpToRel(<, Nat)
    BY <1>1, WFMin, NatLessThanWellFounded, Zenon
  <2>2. \A n \in T : ~(n < m)  BY <1>1, <2>1, Zenon DEF OpToRel
  <2>3. \A n \in T : m <= n  BY <1>1, <2>2
  <2> QED  BY <2>3
<1>3. PICK x \in S : m = Cardinality(pool) - Rank(pool, x)  BY <1>2
<1>4. \A z \in S : Rank(pool, z) <= Rank(pool, x)
  <2>1. \A z \in S : m <= Cardinality(pool) - Rank(pool, z)  BY <1>2
  <2> QED  BY <1>3, <2>1, RankGrows
<1>5. \A z \in S : ~Ahead(pool, x, z)  BY <1>4, RankGrows
<1> QED  BY <1>5, AheadIsOrder

LEMMA MinOfTwo ==
    ASSUME NEW a \in Nat, NEW b \in Nat
    PROVE  Min({a, b}) = IF a <= b THEN a ELSE b
<1>1. CASE a <= b  BY <1>1 DEF Min
<1>2. CASE ~(a <= b)  BY <1>2 DEF Min
<1> QED  BY <1>1, <1>2

(* The sample is as large as it may be: what is before its last entry is   *)
(* not more than MaxRaw, and all that is before the first artifact left    *)
(* out is in it.                                                           *)
LEMMA SampleIsFull ==
    ASSUME NEW pool \in SUBSET Raw
    PROVE  Cardinality(Sample(pool)) = Min({MaxRaw, Cardinality(pool)})
<1> DEFINE sample == Sample(pool)
           Former(e) == {d \in pool : Ahead(pool, d, e)}
<1>1. /\ sample = {e \in pool : Rank(pool, e) < MaxRaw}
      /\ sample \in SUBSET pool
  BY SampleByRank
<1>2. /\ IsFiniteSet(pool) /\ Cardinality(pool) \in Nat /\ MaxRaw \in Nat
      /\ IsFiniteSet(sample) /\ Cardinality(sample) \in Nat
      /\ Cardinality(sample) <= Cardinality(pool)
  BY <1>1, RankGrows, BenchConstants, FS_Subset, FS_CardinalityType
<1>3. \A e \in pool : /\ IsFiniteSet(Former(e)) /\ Rank(pool, e) = Cardinality(Former(e))
                      /\ Rank(pool, e) \in Nat
  BY <1>2, RankGrows, FS_Subset DEF Rank
<1> HIDE DEF sample
<1>4. Cardinality(sample) <= MaxRaw
  <2>1. CASE sample = {}
    BY <1>2, <2>1, FS_EmptySet
  <2>2. CASE sample # {}
    <3>1. PICK y \in sample : \A z \in sample \ {y} : Ahead(pool, z, y)
      BY <1>1, <2>2, LastOf
    <3>2. y \in pool /\ Rank(pool, y) < MaxRaw  BY <1>1
    <3>3. sample \ {y} \in SUBSET Former(y)  BY <1>1, <3>1
    <3> HIDE DEF Former
    <3>4. Cardinality(sample \ {y}) <= Cardinality(Former(y))
      BY <1>3, <3>2, <3>3, FS_Subset
    <3>5. Cardinality(sample \ {y}) = Cardinality(sample) - 1
      BY <1>2, FS_RemoveElement
    <3> QED  BY <1>2, <1>3, <3>2, <3>4, <3>5
  <2> QED  BY <2>1, <2>2
<1>5. CASE sample = pool
  <2>1. Min({MaxRaw, Cardinality(pool)}) = Cardinality(pool)
    BY <1>2, <1>4, <1>5, MinOfTwo
  <2> QED  BY <1>5, <2>1 DEF sample
<1>6. CASE sample # pool
  <2>1. PICK x \in pool \ sample : \A z \in (pool \ sample) \ {x} : Ahead(pool, x, z)
    BY <1>1, <1>6, FirstOf
  <2>2. Rank(pool, x) >= MaxRaw
    <3>1. x \in pool /\ ~(Rank(pool, x) < MaxRaw) /\ Rank(pool, x) \in Nat
      BY <1>1, <1>3, <2>1
    <3> QED  BY <1>2, <3>1
  <2>3. Former(x) \in SUBSET sample
    BY <1>1, <2>1, AheadIsOrder
  <2>4. IsFiniteSet(Former(x)) /\ Rank(pool, x) = Cardinality(Former(x))  BY <1>3, <2>1
  <2> HIDE DEF Former
  <2>5. Cardinality(Former(x)) <= Cardinality(sample)  BY <1>2, <2>3, FS_Subset
  <2>6. Rank(pool, x) \in Nat  BY <1>3, <2>1
  <2>7. Cardinality(sample) = MaxRaw  BY <1>2, <1>4, <2>2, <2>4, <2>5, <2>6
  <2>8. Min({MaxRaw, Cardinality(pool)}) = MaxRaw  BY <1>2, <2>7, MinOfTwo
  <2> QED  BY <2>7, <2>8 DEF sample
<1> QED  BY <1>5, <1>6

(* The first artifact of a stratum that is left out is not ahead of any    *)
(* entry, so no other stratum got two entries more.                        *)
LEMMA SampleIsFair ==
    ASSUME NEW pool \in SUBSET Raw, NEW d \in pool, NEW e \in pool,
           Cardinality({z \in Sample(pool) : StratumOf[z] = StratumOf[d]})
             > Cardinality({z \in Sample(pool) : StratumOf[z] = StratumOf[e]}) + 1
    PROVE  Cardinality({z \in Sample(pool) : StratumOf[z] = StratumOf[e]})
             = Cardinality({z \in pool : StratumOf[z] = StratumOf[e]})
<1> DEFINE sample == Sample(pool)
           Of(S, x) == {z \in S : StratumOf[z] = StratumOf[x]}
           Below(x) == {z \in pool : StratumOf[z] = StratumOf[x] /\ z < x}
<1>1. sample = {z \in pool : Rank(pool, z) < MaxRaw} /\ sample \in SUBSET pool
  BY SampleByRank
<1>2. IsFiniteSet(pool) /\ MaxRaw \in Nat /\ \A z \in pool : z \in Nat
  BY RankGrows, BenchConstants
<1> HIDE DEF sample
<1>3. \A x : /\ IsFiniteSet(Of(sample, x)) /\ Of(sample, x) \in SUBSET pool
             /\ Cardinality(Of(sample, x)) \in Nat /\ IsFiniteSet(Below(x))
  <2> SUFFICES ASSUME NEW x
               PROVE  /\ IsFiniteSet(Of(sample, x)) /\ Of(sample, x) \in SUBSET pool
                      /\ Cardinality(Of(sample, x)) \in Nat /\ IsFiniteSet(Below(x))
    OBVIOUS
  <2>1. Of(sample, x) \in SUBSET pool /\ Below(x) \in SUBSET pool  BY <1>1
  <2> HIDE DEF Of, Below
  <2> QED  BY <1>2, <2>1, FS_Subset, FS_CardinalityType
<1>4. \A x \in pool : Place(pool, x) = Cardinality(Below(x)) /\ Place(pool, x) \in Nat
  BY PlaceIsNat DEF Place
<1>5. Cardinality(Of(sample, d)) > Cardinality(Of(sample, e)) + 1
  BY DEF sample
<1>6. CASE Of(sample, e) = Of(pool, e)
  BY <1>6 DEF sample
<1>7. CASE Of(sample, e) # Of(pool, e)
  <2> DEFINE out == {z \in pool \ sample : StratumOf[z] = StratumOf[e]}
  <2>1. out \in SUBSET pool /\ out # {}  BY <1>1, <1>7
  <2>2. PICK x \in out : \A z \in out \ {x} : Ahead(pool, x, z)
    <3> HIDE DEF out
    <3> QED  BY <2>1, FirstOf
  <2>3. /\ x \in pool /\ x \notin sample /\ StratumOf[x] = StratumOf[e]
        /\ Rank(pool, x) >= MaxRaw
    BY <1>1, <1>2, RankGrows
  <2>4. Place(pool, x) <= Cardinality(Of(sample, e))
    <3>1. ASSUME NEW z \in Below(x)  PROVE z \in sample
      <4>1. z \in pool /\ StratumOf[z] = StratumOf[x] /\ z < x  OBVIOUS
      <4>2. Place(pool, z) < Place(pool, x)  BY <2>3, <4>1, PlaceGrows
      <4>3. Ahead(pool, z, x)  BY <4>2 DEF Ahead
      <4>4. ~Ahead(pool, x, z) /\ z # x  BY <2>3, <4>1, <4>3, AheadIsOrder
      <4> QED  BY <2>2, <2>3, <4>1, <4>4
    <3>2. Below(x) \in SUBSET Of(sample, e)  BY <2>3, <3>1
    <3> HIDE DEF Below, Of
    <3> QED  BY <1>3, <1>4, <2>3, <3>2, FS_Subset
  <2>5. Of(sample, d) # {}
    <3>1. Cardinality(Of(sample, d)) \in Nat /\ Cardinality(Of(sample, e)) \in Nat
      BY <1>3
    <3> HIDE DEF Of
    <3>2. Cardinality(Of(sample, d)) # 0  BY <1>5, <3>1
    <3> QED  BY <3>2, FS_EmptySet
  <2>6. PICK y \in Of(sample, d) : \A z \in Of(sample, d) \ {y} : Ahead(pool, z, y)
    <3> HIDE DEF Of
    <3> QED  BY <1>3, <2>5, LastOf
  <2>7. /\ y \in pool /\ y \in sample /\ StratumOf[y] = StratumOf[d]
        /\ Rank(pool, y) < MaxRaw
    BY <1>1
  <2>8. Place(pool, y) >= Cardinality(Of(sample, d)) - 1
    <3>1. ASSUME NEW z \in Of(sample, d) \ {y}  PROVE z \in Below(y)
      <4>1. z \in pool /\ StratumOf[z] = StratumOf[y] /\ z # y /\ Ahead(pool, z, y)
        BY <1>1, <2>6, <2>7
      <4>2. ~Ahead(pool, y, z)  BY <2>7, <4>1, AheadIsOrder
      <4>3. ~(y < z)
        BY <2>7, <4>1, <4>2, PlaceGrows DEF Ahead
      <4>4. z < y  BY <1>2, <2>7, <4>1, <4>3
      <4> QED  BY <4>1, <4>4
    <3>2. Of(sample, d) \ {y} \in SUBSET Below(y)  BY <3>1
    <3>3. y \in Of(sample, d)  OBVIOUS
    <3> HIDE DEF Below, Of
    <3>4. Cardinality(Of(sample, d) \ {y}) = Cardinality(Of(sample, d)) - 1
      BY <1>3, <3>3, FS_RemoveElement
    <3>5. Cardinality(Of(sample, d) \ {y}) <= Cardinality(Below(y))
      BY <1>3, <3>2, FS_Subset
    <3> QED  BY <1>3, <1>4, <2>7, <3>4, <3>5
  <2> HIDE DEF Of, Below
  <2>9. Place(pool, x) < Place(pool, y)
    BY <1>3, <1>4, <1>5, <2>3, <2>4, <2>7, <2>8
  <2>10. Rank(pool, x) < Rank(pool, y)
    BY <2>3, <2>7, <2>9, RankGrows DEF Ahead
  <2> QED  BY <1>2, <2>3, <2>7, <2>10, RankGrows
<1> QED  BY <1>6, <1>7

(* A run is none, pending with its sample, or complete with a verdict that *)
(* was reached on its results.                                             *)
RunRow == [state : {"none", "pending", "complete"}, pool : SUBSET Raw,
           entries : SUBSET Raw, eligible : BOOLEAN, settled : BOOLEAN]

BenchTyped ==
    /\ benchClock \in Nat
    /\ runs \in [BenchRun -> RunRow]
    /\ benchResults = [r \in BenchRun |-> benchResults[r]]

Sampled ==
    \A r \in BenchRun : /\ runs[r].state = "none" => runs[r].pool = {}
                        /\ runs[r].entries = Sample(runs[r].pool)

VerdictOnResults ==
    \A r \in BenchRun :
        runs[r].state = "complete" =>
            /\ DOMAIN benchResults[r] = runs[r].entries
            /\ runs[r].eligible =>
                  /\ runs[r].settled
                  /\ \A v \in ChangedVariant : \E e \in runs[r].entries :
                        VariantOf[e] = v /\ benchResults[r][e] = "compared"

BenchInductive == BenchTyped /\ Sampled /\ VerdictOnResults

LEMMA SampleOfNone == Sample({}) = {}
  BY DEF Sample

LEMMA BenchInitInductive == BenchInit => BenchInductive
<1> SUFFICES ASSUME BenchInit PROVE BenchInductive  OBVIOUS
<1>1. NoRun \in RunRow /\ NoRun.state = "none" /\ NoRun.pool = {} /\ NoRun.entries = {}
  BY DEF NoRun, RunRow
<1> QED
  BY <1>1, SampleOfNone DEF BenchInit, BenchInductive, BenchTyped, Sampled, VerdictOnResults

(* A run changes and its results stay.                                     *)
LEMMA RunChanges ==
    ASSUME BenchInductive, NEW r \in BenchRun, NEW row \in RunRow,
           runs' = [runs EXCEPT ![r] = row], benchClock' = benchClock,
           benchResults' = [benchResults EXCEPT ![r] = benchResults'[r]],
           row.state # "none", row.entries = Sample(row.pool),
           row.state = "complete" =>
               /\ DOMAIN benchResults'[r] = row.entries
               /\ row.eligible =>
                     /\ row.settled
                     /\ \A v \in ChangedVariant : \E e \in row.entries :
                           VariantOf[e] = v /\ benchResults'[r][e] = "compared"
    PROVE  BenchInductive'
<1>1. BenchTyped /\ Sampled /\ VerdictOnResults  BY DEF BenchInductive
<1>2. /\ runs'[r] = row
      /\ \A q \in BenchRun \ {r} : runs'[q] = runs[q] /\ benchResults'[q] = benchResults[q]
  BY <1>1 DEF BenchTyped
<1>3. BenchTyped'  BY <1>1 DEF BenchTyped
<1>4. Sampled'
  <2> SUFFICES ASSUME NEW q \in BenchRun
               PROVE  /\ runs'[q].state = "none" => runs'[q].pool = {}
                      /\ runs'[q].entries = Sample(runs'[q].pool)
    BY DEF Sampled, Sample, Place
  <2> QED  BY <1>1, <1>2 DEF Sampled
<1>5. VerdictOnResults'
  <2> SUFFICES ASSUME NEW q \in BenchRun, runs'[q].state = "complete"
               PROVE  /\ DOMAIN benchResults'[q] = runs'[q].entries
                      /\ runs'[q].eligible =>
                            /\ runs'[q].settled
                            /\ \A v \in ChangedVariant : \E e \in runs'[q].entries :
                                  VariantOf[e] = v /\ benchResults'[q][e] = "compared"
    BY DEF VerdictOnResults
  <2>1. CASE q = r  BY <1>2, <2>1
  <2>2. CASE q # r  BY <1>1, <1>2, <2>2 DEF VerdictOnResults
  <2> QED  BY <2>1, <2>2
<1> QED  BY <1>3, <1>4, <1>5 DEF BenchInductive

Pending(e, pool, sample) ==
    [e EXCEPT !.state = "pending", !.pool = pool, !.entries = sample]

LEMMA PendingRow ==
    ASSUME NEW e \in RunRow, NEW pool \in SUBSET Raw, NEW sample \in SUBSET Raw
    PROVE  /\ Pending(e, pool, sample) \in RunRow
           /\ Pending(e, pool, sample).state = "pending"
           /\ Pending(e, pool, sample).pool = pool
           /\ Pending(e, pool, sample).entries = sample
<1> DEFINE r1 == [e EXCEPT !.state = "pending"]
           r2 == [r1 EXCEPT !.pool = pool]
           r3 == [r2 EXCEPT !.entries = sample]
<1>1. Pending(e, pool, sample) = r3  BY DEF RunRow, Pending
<1>2. r1 \in RunRow /\ r1.state = "pending"  BY DEF RunRow
<1> HIDE DEF r1
<1>3. r2 \in RunRow /\ r2.state = "pending" /\ r2.pool = pool  BY <1>2 DEF RunRow
<1> HIDE DEF r2
<1>4. r3 \in RunRow /\ r3.state = "pending" /\ r3.pool = pool /\ r3.entries = sample
  BY <1>3 DEF RunRow
<1> HIDE DEF r3
<1> QED  BY <1>1, <1>4

LEMMA CreateRunKeeps ==
    ASSUME BenchInductive, NEW r \in BenchRun, NEW pool \in SUBSET Raw, CreateRun(r, pool)
    PROVE  BenchInductive'
<1> DEFINE row == Pending(NoRun, pool, Sample(pool))
<1>1. /\ runs' = [runs EXCEPT ![r] = row] /\ UNCHANGED <<benchClock, benchResults>>
  BY DEF CreateRun, Pending
<1>2. Sample(pool) \in SUBSET Raw  BY DEF Sample
<1>3. NoRun \in RunRow  BY DEF NoRun, RunRow
<1>4. /\ row \in RunRow /\ row.state = "pending"
      /\ row.pool = pool /\ row.entries = Sample(pool)
  BY <1>2, <1>3, PendingRow
<1> HIDE DEF row
<1>5. benchResults' = [benchResults EXCEPT ![r] = benchResults'[r]]
  BY <1>1 DEF BenchInductive, BenchTyped
<1> QED  BY <1>1, <1>4, <1>5, RunChanges

LEMMA CompleteRunKeeps ==
    ASSUME BenchInductive, NEW r \in BenchRun, NEW settled \in BOOLEAN,
           CompleteRun(r, settled)
    PROVE  BenchInductive'
<1> DEFINE eligible == EligibleNow(r, settled)
           r1 == [runs[r] EXCEPT !.state = "complete"]
           r2 == [r1 EXCEPT !.settled = settled]
           row == [r2 EXCEPT !.eligible = eligible]
<1>1. /\ runs[r] \in RunRow /\ BenchTyped /\ Sampled
      /\ DOMAIN found[r] = runs[r].entries
      /\ benchResults' = [benchResults EXCEPT ![r] = found[r]]
      /\ benchClock' = benchClock
  BY DEF CompleteRun, BenchInductive, BenchTyped
<1>2. eligible \in BOOLEAN  BY Zenon DEF EligibleNow
<1>3. /\ eligible => settled
      /\ eligible => \A v \in ChangedVariant : \E e \in runs[r].entries :
                        VariantOf[e] = v /\ found[r][e] = "compared"
  BY Zenon DEF EligibleNow
<1>4. runs' = [runs EXCEPT ![r].state = "complete", ![r].settled = settled,
                           ![r].eligible = eligible]
  BY DEF CompleteRun
<1> HIDE DEF eligible
<1>5. runs' = [runs EXCEPT ![r] = row]
  <2>1. runs \in [BenchRun -> RunRow]  BY <1>1 DEF BenchTyped
  <2> QED  BY <1>4, <2>1
<1>6. /\ r1 \in RunRow /\ r1.state = "complete" /\ r1.pool = runs[r].pool
      /\ r1.entries = runs[r].entries
  BY <1>1 DEF RunRow
<1> HIDE DEF r1
<1>7. /\ r2 \in RunRow /\ r2.state = "complete" /\ r2.pool = runs[r].pool
      /\ r2.entries = runs[r].entries /\ r2.settled = settled
  BY <1>6 DEF RunRow
<1> HIDE DEF r2
<1>8. /\ row \in RunRow /\ row.state = "complete" /\ row.pool = runs[r].pool
      /\ row.entries = runs[r].entries /\ row.settled = settled
      /\ row.eligible = eligible
  BY <1>2, <1>7 DEF RunRow
<1> HIDE DEF row
<1>9. benchResults'[r] = found[r]
      /\ benchResults' = [benchResults EXCEPT ![r] = benchResults'[r]]
  BY <1>1 DEF BenchTyped
<1>10. row.entries = Sample(row.pool)  BY <1>1, <1>8 DEF Sampled
<1>11. DOMAIN benchResults'[r] = row.entries  BY <1>1, <1>8, <1>9
<1>12. row.eligible =>
          /\ row.settled
          /\ \A v \in ChangedVariant : \E e \in row.entries :
                VariantOf[e] = v /\ benchResults'[r][e] = "compared"
  <2>1. row.eligible => eligible  BY <1>8, Zenon
  <2>2. eligible => row.settled  BY <1>3, <1>8, Zenon
  <2>3. eligible => \A v \in ChangedVariant : \E e \in row.entries :
                       VariantOf[e] = v /\ benchResults'[r][e] = "compared"
    BY <1>3, <1>8, <1>9
  <2> QED  BY <2>1, <2>2, <2>3
<1> QED  BY <1>1, <1>5, <1>8, <1>9, <1>10, <1>11, <1>12, RunChanges

LEMMA BenchStepInductive == BenchInductive /\ [BenchNext]_benchVars => BenchInductive'
<1> SUFFICES ASSUME BenchInductive, [BenchNext]_benchVars  PROVE BenchInductive'  OBVIOUS
<1>1. ASSUME NEW r \in BenchRun, NEW pool \in SUBSET Raw, CreateRun(r, pool)
      PROVE  BenchInductive'
  BY <1>1, CreateRunKeeps
<1>2. ASSUME NEW r \in BenchRun, NEW settled \in BOOLEAN, CompleteRun(r, settled)
      PROVE  BenchInductive'
  BY <1>2, CompleteRunKeeps
<1>3. CASE \/ BenchTick \/ UNCHANGED benchVars
           \/ \E r \in BenchRun, e \in Raw, s \in {"compared", "unavailable"} :
                 CompareEntry(r, e, s)
           \/ \E r \in BenchRun : WorkerStops(r)
           \/ \E e \in Raw : EraseArtifact(e)
  <2>1. UNCHANGED <<runs, benchResults>> /\ benchClock' \in {benchClock, benchClock + 1}
    BY <1>3 DEF BenchTick, benchVars, CompareEntry, WorkerStops, EraseArtifact
  <2>2. BenchTyped'  BY <2>1 DEF BenchInductive, BenchTyped
  <2>3. Sampled'  BY <2>1 DEF BenchInductive, Sampled, Sample, Place
  <2>4. VerdictOnResults'  BY <2>1 DEF BenchInductive, VerdictOnResults
  <2> QED  BY <2>2, <2>3, <2>4 DEF BenchInductive
<1> QED  BY <1>1, <1>2, <1>3 DEF BenchNext

LEMMA BenchInductiveSuffices == BenchInductive => BenchInvariant
<1> SUFFICES ASSUME BenchInductive PROVE BenchInvariant  OBVIOUS
<1>1. BenchTyped /\ Sampled /\ VerdictOnResults  BY DEF BenchInductive
<1>2. SampleIsBalanced
  <2> SUFFICES ASSUME NEW r \in BenchRun
               PROVE  /\ Cardinality(runs[r].entries) = Min({MaxRaw, Cardinality(runs[r].pool)})
                      /\ \A d, e \in runs[r].pool :
                            Cardinality({z \in runs[r].entries : StratumOf[z] = StratumOf[d]})
                              > Cardinality({z \in runs[r].entries : StratumOf[z] = StratumOf[e]}) + 1
                            => Cardinality({z \in runs[r].entries : StratumOf[z] = StratumOf[e]})
                                 = Cardinality({z \in runs[r].pool : StratumOf[z] = StratumOf[e]})
    BY DEF SampleIsBalanced
  <2>1. runs[r].pool \in SUBSET Raw /\ runs[r].entries = Sample(runs[r].pool)
    BY <1>1 DEF BenchTyped, RunRow, Sampled
  <2> QED  BY <2>1, SampleIsFull, SampleIsFair
<1>3. QualifiedOnFreshEvidence
  <2> SUFFICES ASSUME NEW r \in BenchRun, Qualifies(r)
               PROVE  /\ runs[r].settled
                      /\ \A v \in ChangedVariant : \E e \in runs[r].entries :
                            /\ VariantOf[e] = v /\ ExpiryOf[e] > benchClock
                            /\ benchResults[r][e] = "compared"
    BY DEF QualifiedOnFreshEvidence
  <2> QED  BY <1>1 DEF VerdictOnResults, Qualifies, Unexpired
<1> QED  BY <1>2, <1>3 DEF BenchInvariant

(* For any artifacts, strata, variants and runs: a sample is as large and  *)
(* as even over the strata as it can be, and a candidate qualifies only on *)
(* settled differences and on comparisons whose artifacts are still there. *)
THEOREM BenchInvariantAlways == BenchSpec => []BenchInvariant
  BY BenchInitInductive, BenchStepInductive, BenchInductiveSuffices, PTL DEF BenchSpec

-----------------------------------------------------------------------------
(* Matching.  What is known of an offer only grows.                        *)
Grows(f, g) == \A x \in DOMAIN f : f[x] = Unknown \/ g[x] = f[x]

LEMMA FactFields ==
    ASSUME NEW f \in PropertyFacts
    PROVE  DOMAIN f = {"transaction", "market", "locality", "heating", "evidence", "cost",
                       "vacant", "ownership", "legalRisk", "layout", "garden", "elevator",
                       "parking", "ready", "quiet", "green", "balcony", "kitchen",
                       "feeHeating", "changed", "floor", "top", "area", "rooms",
                       "dwellings", "commute", "fee", "presented"}
  BY DEF PropertyFacts

LEMMA LearningTyped ==
    ASSUME NEW f \in PropertyFacts, NEW h \in PropertyFacts, NEW x, NEW v,
           [h EXCEPT ![x] = v] \in PropertyFacts
    PROVE  [f EXCEPT ![x] = v] \in PropertyFacts
  <1> DEFINE g == [f EXCEPT ![x] = v]
             k == [h EXCEPT ![x] = v]
  <1>1. DOMAIN f = DOMAIN h /\ DOMAIN g = DOMAIN f /\ DOMAIN k = DOMAIN h
    BY FactFields
  <1>2. \A y \in DOMAIN f : g[y] = IF y = x THEN k[y] ELSE f[y]
    BY <1>1
  <1>3. f \in PropertyFacts /\ k \in PropertyFacts
    OBVIOUS
  <1>4. g = [y \in DOMAIN f |-> g[y]]
    BY <1>1
  <1> HIDE DEF g, k
  <1>5. g \in PropertyFacts
    BY <1>1, <1>2, <1>3, <1>4, FactFields DEF PropertyFacts
  <1>6. QED
    BY <1>5 DEF g

MatchTypes == offers \in [Offer -> PropertyFacts]

LEMMA MatchTypesKept ==
    MatchTypes /\ [MatchNext]_offers
        => MatchTypes' /\ \A o \in Offer : Grows(offers[o], offers'[o])
  <1> SUFFICES ASSUME offers \in [Offer -> PropertyFacts], [MatchNext]_offers
               PROVE  /\ offers' \in [Offer -> PropertyFacts]
                      /\ \A o \in Offer : Grows(offers[o], offers'[o])
    BY DEF MatchTypes
  <1>1. CASE offers' = offers
    BY <1>1 DEF Grows
  <1>2. ASSUME NEW d \in Discovery, Discover(d[1], d[2], d[3])
        PROVE  /\ offers' \in [Offer -> PropertyFacts]
               /\ \A o \in Offer : Grows(offers[o], offers'[o])
    <2> DEFINE learnt(o) == [offers[o] EXCEPT ![d[2]] = d[3]]
    <2>1. /\ offers[d[1]][d[2]] = Unknown
          /\ offers' = [offers EXCEPT ![d[1]] = learnt(d[1])]
      BY <1>2 DEF Discover
    <2>2. \A o \in Offer : learnt(o) \in PropertyFacts
      <3> TAKE o \in Offer
      <3>1. offers[o] \in PropertyFacts /\ FirstFacts[o] \in PropertyFacts
            /\ [FirstFacts[o] EXCEPT ![d[2]] = d[3]] \in PropertyFacts
        BY MatchAssumption
      <3>2. QED
        BY <3>1, LearningTyped
    <2>3. \A o \in Offer : o = d[1] => Grows(offers[o], learnt(o))
      BY <2>1 DEF Grows
    <2>4. \A o \in Offer : Grows(offers[o], offers[o])
      BY DEF Grows
    <2> HIDE DEF learnt
    <2>5. \A o \in Offer : offers'[o] = IF o = d[1] THEN learnt(o) ELSE offers[o]
      BY <2>1
    <2>6. offers' \in [Offer -> PropertyFacts]
      BY <2>1, <2>2
    <2>7. QED
      BY <2>3, <2>4, <2>5, <2>6
  <1>3. QED
    BY <1>1, <1>2 DEF MatchNext

(* Each rule reads a fact as unknown until it knows it.                    *)
LEMMA RuleForms ==
    ASSUME NEW a, NEW b, a = Unknown \/ b = a, NEW limit
    PROVE  /\ BooleanRule(a) # Unknown => BooleanRule(b) = BooleanRule(a)
           /\ MaxRule(a, limit) # Unknown => MaxRule(b, limit) = MaxRule(a, limit)
           /\ MinRule(a, limit) # Unknown => MinRule(b, limit) = MinRule(a, limit)
  <1>1. CASE b = a
    BY <1>1
  <1>2. CASE a = Unknown
    BY <1>2 DEF BooleanRule, MaxRule, MinRule
  <1>3. QED
    BY <1>1, <1>2

LEMMA CostsStand ==
    ASSUME NEW f \in PropertyFacts, NEW g, Grows(f, g)
    PROVE  /\ Costs(f).price = Unknown \/ Costs(g).price = Costs(f).price
           /\ Costs(f).cash = Unknown \/ Costs(g).cash = Costs(f).cash
           /\ Costs(f).installment = Unknown \/ Costs(g).installment = Costs(f).installment
  <1>1. f.cost = Unknown \/ g.cost = f.cost
    BY FactFields DEF Grows
  <1>2. CASE f.cost = Unknown
    BY <1>2 DEF Costs
  <1>3. CASE g.cost = f.cost
    BY <1>3 DEF Costs
  <1>4. QED
    BY <1>1, <1>2, <1>3

LEMMA SpecialRulesStand ==
    ASSUME NEW f \in PropertyFacts, NEW g, Grows(f, g)
    PROVE  /\ PrimaryMarketEvidence(f) # Unknown
                => PrimaryMarketEvidence(g) = PrimaryMarketEvidence(f)
           /\ FloorRule(f) # Unknown => FloorRule(g) = FloorRule(f)
           /\ ElevatorRule(f) # Unknown => ElevatorRule(g) = ElevatorRule(f)
  <1>1. /\ f.market = Unknown \/ g.market = f.market
        /\ f.evidence = Unknown \/ g.evidence = f.evidence
        /\ f.floor = Unknown \/ g.floor = f.floor
        /\ f.top = Unknown \/ g.top = f.top
        /\ f.garden = Unknown \/ g.garden = f.garden
        /\ f.elevator = Unknown \/ g.elevator = f.elevator
    BY FactFields DEF Grows
  <1>2. /\ BooleanRule(f.garden) # Unknown => BooleanRule(g.garden) = BooleanRule(f.garden)
        /\ BooleanRule(f.elevator) # Unknown
             => BooleanRule(g.elevator) = BooleanRule(f.elevator)
    BY <1>1, RuleForms
  <1>3. PrimaryMarketEvidence(f) # Unknown
           => PrimaryMarketEvidence(g) = PrimaryMarketEvidence(f)
    BY <1>1 DEF PrimaryMarketEvidence
  <1>4. FloorRule(f) # Unknown => FloorRule(g) = FloorRule(f)
    BY <1>1, <1>2 DEF FloorRule
  <1>5. ElevatorRule(f) # Unknown => ElevatorRule(g) = ElevatorRule(f)
    BY <1>1, <1>2 DEF ElevatorRule
  <1>6. QED
    BY <1>3, <1>4, <1>5

LEMMA RulesStand ==
    ASSUME NEW f \in PropertyFacts, NEW g, Grows(f, g)
    PROVE  Stands(Rules(f), Rules(g))
  <1> DEFINE Kept(r) == Rules(f)[r] # Unknown => Rules(g)[r] = Rules(f)[r]
  <1>1. /\ f.area = Unknown \/ g.area = f.area
        /\ f.commute = Unknown \/ g.commute = f.commute
        /\ f.dwellings = Unknown \/ g.dwellings = f.dwellings
        /\ f.layout = Unknown \/ g.layout = f.layout
        /\ f.legalRisk = Unknown \/ g.legalRisk = f.legalRisk
        /\ f.locality = Unknown \/ g.locality = f.locality
        /\ f.ownership = Unknown \/ g.ownership = f.ownership
        /\ f.parking = Unknown \/ g.parking = f.parking
        /\ f.rooms = Unknown \/ g.rooms = f.rooms
        /\ f.transaction = Unknown \/ g.transaction = f.transaction
        /\ f.vacant = Unknown \/ g.vacant = f.vacant
    BY FactFields DEF Grows
  <1>2. Kept("vacant") /\ Kept("ownership") /\ Kept("layout") /\ Kept("parking")
    BY <1>1, RuleForms DEF Rules
  <1>3. Kept("area") /\ Kept("rooms") /\ Kept("building_scale") /\ Kept("commute")
    BY <1>1, RuleForms DEF Rules
  <1>4. Kept("price") /\ Kept("cash") /\ Kept("installment")
    BY CostsStand, RuleForms DEF Rules
  <1>5. Kept("primary_market") /\ Kept("floor") /\ Kept("elevator")
    BY SpecialRulesStand DEF Rules
  <1>6. Kept("transaction") /\ Kept("legal_risk") /\ Kept("locality")
    BY <1>1 DEF Rules, BooleanRule
  <1>7. DOMAIN Rules(f) = {"transaction", "primary_market", "vacant", "ownership",
                           "legal_risk", "locality", "price", "cash", "installment",
                           "area", "rooms", "layout", "floor", "elevator", "parking",
                           "building_scale", "commute"}
    BY DEF Rules
  <1> HIDE DEF Kept
  <1>8. \A r \in DOMAIN Rules(f) : Kept(r)
    BY <1>2, <1>3, <1>4, <1>5, <1>6, <1>7
  <1>9. QED
    BY <1>8 DEF Stands, Kept

LEMMA PreferencesStand ==
    ASSUME NEW f \in PropertyFacts, NEW g, Grows(f, g)
    PROVE  Stands(Preferences(f), Preferences(g))
  <1>1. /\ f.feeHeating = Unknown \/ g.feeHeating = f.feeHeating
        /\ f.fee = Unknown \/ g.fee = f.fee
        /\ f.heating = Unknown \/ g.heating = f.heating
    BY FactFields DEF Grows
  <1>2. /\ MaxRule(f.fee, Profile.referenceFee) # Unknown
             => MaxRule(g.fee, Profile.referenceFee) = MaxRule(f.fee, Profile.referenceFee)
        /\ f.feeHeating = TRUE => g.feeHeating = TRUE
    <2>1. MaxRule(f.fee, Profile.referenceFee) # Unknown
             => MaxRule(g.fee, Profile.referenceFee) = MaxRule(f.fee, Profile.referenceFee)
      BY <1>1, RuleForms
    <2>2. Unknown # TRUE
      BY MatchAssumption, Zenon
    <2>3. QED
      BY <1>1, <2>1, <2>2, Zenon
  <1>3. /\ Preferences(f).admin_fee # Unknown
             => Preferences(g).admin_fee = Preferences(f).admin_fee
        /\ Preferences(f).heating # Unknown => Preferences(g).heating = Preferences(f).heating
    BY <1>1, <1>2 DEF Preferences
  <1>4. DOMAIN Preferences(f) = {"admin_fee", "heating"}
    BY DEF Preferences
  <1>5. QED
    BY <1>3, <1>4 DEF Stands

(* For any offers, facts, profile and order of discoveries: a rule that    *)
(* passed or failed keeps its verdict, whatever else becomes known.        *)
THEOREM VerdictsStandAlways == MatchSpec => VerdictsStand
  <1>1. MatchInit => MatchTypes
    BY MatchAssumption DEF MatchInit, MatchTypes
  <1>2. MatchTypes /\ [MatchNext]_offers => MatchTypes'
    BY MatchTypesKept
  <1>3. MatchTypes /\ [MatchNext]_offers
           => [\A o \in Learned : /\ Stands(Rules(offers[o]), Rules(offers[o])')
                                  /\ Stands(Preferences(offers[o]), Preferences(offers[o])')]_offers
    <2> SUFFICES ASSUME MatchTypes, [MatchNext]_offers,
                        NEW o \in Offer
                 PROVE  /\ Stands(Rules(offers[o]), Rules(offers[o])')
                        /\ Stands(Preferences(offers[o]), Preferences(offers[o])')
      BY DEF Learned
    <2>1. offers[o] \in PropertyFacts /\ Grows(offers[o], offers'[o])
      BY MatchTypesKept DEF MatchTypes
    <2>2. /\ Stands(Rules(offers[o]), Rules(offers'[o]))
          /\ Stands(Preferences(offers[o]), Preferences(offers'[o]))
      BY <2>1, RulesStand, PreferencesStand
    <2>3. QED
      BY <2>2
  <1>4. QED
    BY <1>1, <1>2, <1>3, PTL DEF MatchSpec, VerdictsStand

Points == [Component -> 0..20]

LEMMA AreaFitTyped ==
    ASSUME NEW area \in Maybe(Nat)
    PROVE  AreaFit(area) \in 0..20
  <1>1. CASE area = Unknown \/ area \in Profile.idealLow..Profile.idealHigh
    BY <1>1 DEF AreaFit
  <1>2. CASE area # Unknown /\ area \notin Profile.idealLow..Profile.idealHigh
    <2> DEFINE low == Distance(area, Profile.idealLow)
               high == Distance(area, Profile.idealHigh)
    <2>1. area \in Nat /\ Profile.idealLow \in Nat /\ Profile.idealHigh \in Nat
      BY <1>2, MatchAssumption DEF Maybe
    <2>2. low \in Nat /\ high \in Nat
      BY <2>1 DEF Distance
    <2>3. AreaFit(area) = Max({0, 20 - Min({low, high})})
      BY <1>2 DEF AreaFit
    <2> HIDE DEF low, high
    <2>4. Min({low, high}) \in Nat
      <3>1. \E x \in {low, high} : \A y \in {low, high} : x =< y
        BY <2>2
      <3>2. Min({low, high}) \in {low, high}
        BY <3>1 DEF Min
      <3>3. QED
        BY <2>2, <3>2
    <2> DEFINE nearest == Min({low, high})
               top == Max({0, 20 - nearest})
    <2>5. nearest \in Nat
      BY <2>4
    <2> HIDE DEF nearest
    <2>6. top \in {0, 20 - nearest} /\ \A y \in {0, 20 - nearest} : top >= y
      <3>1. \E x \in {0, 20 - nearest} : \A y \in {0, 20 - nearest} : x >= y
        BY <2>5
      <3>2. QED
        BY <3>1 DEF Max
    <2> HIDE DEF top
    <2>7. top \in 0..20
      BY <2>5, <2>6
    <2>8. QED
      BY <2>3, <2>7 DEF top, nearest
  <1>3. QED
    BY <1>1, <1>2

LEMMA PointsTyped ==
    ASSUME NEW f \in PropertyFacts
    PROVE  ScoreComponents(f) \in Points
  <1>1. \A v \in Maybe(BOOLEAN) : Evidence(v) \in 0..20
    BY DEF Maybe, Evidence
  <1>2. \A n \in Maybe(Nat) : SmallBuilding(n) \in 0..20
    BY DEF Maybe, SmallBuilding
  <1>3. /\ f.ready \in Maybe(BOOLEAN) /\ f.quiet \in Maybe(BOOLEAN)
        /\ f.green \in Maybe(BOOLEAN) /\ f.balcony \in Maybe(BOOLEAN)
        /\ f.kitchen \in Maybe(BOOLEAN)
        /\ f.dwellings \in Maybe(Nat) /\ f.area \in Maybe(Nat)
    BY DEF PropertyFacts
  <1>4. /\ Evidence(f.ready) \in 0..20 /\ Evidence(f.quiet) \in 0..20
        /\ Evidence(f.green) \in 0..20 /\ Evidence(f.balcony) \in 0..20
        /\ Evidence(f.kitchen) \in 0..20
        /\ SmallBuilding(f.dwellings) \in 0..20 /\ AreaFit(f.area) \in 0..20
    BY <1>1, <1>2, <1>3, AreaFitTyped
  <1>5. QED
    BY <1>4 DEF ScoreComponents, Points, Component

(* A component moves only away from the half that stands for unknown.      *)
LEMMA OnlyUnknownMoves ==
    ASSUME NEW f \in PropertyFacts, NEW g, Grows(f, g), NEW c \in Component,
           ScoreComponents(g)[c] # ScoreComponents(f)[c]
    PROVE  ScoreComponents(f)[c] = 10
  <1> DEFINE Fact == {"ready", "quiet", "green", "balcony", "kitchen"}
  <1>1. /\ f.ready = Unknown \/ g.ready = f.ready
        /\ f.quiet = Unknown \/ g.quiet = f.quiet
        /\ f.green = Unknown \/ g.green = f.green
        /\ f.balcony = Unknown \/ g.balcony = f.balcony
        /\ f.kitchen = Unknown \/ g.kitchen = f.kitchen
        /\ f.dwellings = Unknown \/ g.dwellings = f.dwellings
        /\ f.area = Unknown \/ g.area = f.area
    BY FactFields DEF Grows
  <1>2. Evidence(Unknown) = 10 /\ SmallBuilding(Unknown) = 10 /\ AreaFit(Unknown) = 10
    BY DEF Evidence, SmallBuilding, AreaFit
  <1>3. CASE c \in Fact
    <2>1. Evidence(f[c]) = ScoreComponents(f)[c] /\ Evidence(g[c]) = ScoreComponents(g)[c]
      BY <1>3 DEF ScoreComponents
    <2>2. f[c] = Unknown \/ g[c] = f[c]
      BY <1>1, <1>3
    <2>3. QED
      BY <1>2, <2>1, <2>2
  <1>4. CASE c = "small_building"
    BY <1>1, <1>2, <1>4 DEF ScoreComponents
  <1>5. CASE c = "area_fit"
    BY <1>1, <1>2, <1>5 DEF ScoreComponents
  <1>6. QED
    BY <1>3, <1>4, <1>5 DEF Component

LEMMA Product ==
    ASSUME NEW w \in Nat, NEW a \in Nat, NEW b \in Nat, NEW h \in Nat, a <= b + h
    PROVE  w * a \in Nat /\ w * a <= w * b + w * h
  <1>1. w * a \in Nat /\ w * b \in Nat /\ w * h \in Nat
    OBVIOUS
  <1>2. PICK d \in Nat : b + h = a + d
    <2>1. b + h - a \in Nat /\ b + h = a + (b + h - a)
      OBVIOUS
    <2>2. QED
      BY <2>1
  <1>3. w * (b + h) = w * b + w * h /\ w * (a + d) = w * a + w * d /\ w * d \in Nat
    OBVIOUS
  <1>4. QED
    BY <1>1, <1>2, <1>3

(* A sum of weighted points moves no more than the points are weighted.    *)
LEMMA WeightedMoves ==
    ASSUME NEW x, NEW y, NEW h,
           \A c \in Component : /\ x[c] \in Nat /\ y[c] \in Nat /\ h[c] \in Nat
                                /\ x[c] <= y[c] + h[c]
    PROVE  /\ Weighted(x) \in Nat /\ Weighted(y) \in Nat /\ Weighted(h) \in Nat
           /\ Weighted(x) <= Weighted(y) + Weighted(h)
  <1> DEFINE px(c) == Weight[c] * x[c]
             py(c) == Weight[c] * y[c]
             ph(c) == Weight[c] * h[c]
  <1>1. \A c \in Component : /\ px(c) \in Nat /\ py(c) \in Nat /\ ph(c) \in Nat
                             /\ px(c) <= py(c) + ph(c)
    <2> TAKE c \in Component
    <2>1. Weight[c] \in Nat
      BY MatchAssumption
    <2>2. px(c) \in Nat /\ px(c) <= py(c) + ph(c)
      BY <2>1, Product
    <2>3. py(c) \in Nat /\ ph(c) \in Nat
      BY <2>1
    <2>4. QED
      BY <2>2, <2>3
  <1>2. /\ Weighted(x) = px("ready") + px("quiet") + px("green") + px("balcony")
                         + px("kitchen") + px("small_building") + px("area_fit")
        /\ Weighted(y) = py("ready") + py("quiet") + py("green") + py("balcony")
                         + py("kitchen") + py("small_building") + py("area_fit")
        /\ Weighted(h) = ph("ready") + ph("quiet") + ph("green") + ph("balcony")
                         + ph("kitchen") + ph("small_building") + ph("area_fit")
    BY DEF Weighted
  <1> HIDE DEF px, py, ph
  <1>3. \A c \in {"ready", "quiet", "green", "balcony", "kitchen", "small_building",
                  "area_fit"} : /\ px(c) \in Nat /\ py(c) \in Nat /\ ph(c) \in Nat
                                /\ px(c) <= py(c) + ph(c)
    BY <1>1 DEF Component
  <1>4. QED
    BY <1>2, <1>3

LEMMA ScoreTyped ==
    ASSUME NEW x \in Points
    PROVE  Weighted(x) \in 0..2000
  <1> DEFINE none == [c \in Component |-> 0]
             full == [c \in Component |-> 20]
  <1>1. \A c \in Component : x[c] \in Nat /\ none[c] \in Nat /\ full[c] \in Nat
                             /\ x[c] <= none[c] + full[c]
    BY DEF Points
  <1>2. Weighted(full) = 2000 /\ Weighted(none) = 0
    <2>1. /\ \A c \in Component : Weight[c] \in Nat
          /\ Weight.ready + Weight.quiet + Weight.green + Weight.balcony + Weight.kitchen
                + Weight.small_building + Weight.area_fit = 100
      BY MatchAssumption
    <2>2. \A c \in Component : full[c] = 20 /\ none[c] = 0
      OBVIOUS
    <2> HIDE DEF full, none
    <2>3. QED
      BY <2>1, <2>2 DEF Weighted, Component
  <1> HIDE DEF none, full
  <1>3. Weighted(x) \in Nat /\ Weighted(x) <= Weighted(none) + Weighted(full)
    BY <1>1, WeightedMoves
  <1>4. QED
    BY <1>2, <1>3

LEMMA DistanceBound ==
    ASSUME NEW a \in Nat, NEW b \in Nat, NEW h \in Nat, a <= b + h, b <= a + h
    PROVE  Distance(b, a) <= h
  BY DEF Distance

MovesWithinHalf(f, g) ==
    /\ Score(g) \in 0..2000
    /\ Distance(Score(g), Score(f)) <=
          Weighted([c \in Component |->
              IF ScoreComponents(g)[c] # ScoreComponents(f)[c] THEN 10 ELSE 0])

LEMMA ScoreStepWithinHalf ==
    ASSUME NEW f \in PropertyFacts, NEW g \in PropertyFacts, Grows(f, g)
    PROVE  MovesWithinHalf(f, g)
  <1> DEFINE x == ScoreComponents(f)
             y == ScoreComponents(g)
             h == [c \in Component |-> IF y[c] # x[c] THEN 10 ELSE 0]
  <1>1. x \in Points /\ y \in Points
    BY PointsTyped
  <1>2. \A c \in Component : y[c] # x[c] => x[c] = 10
    BY OnlyUnknownMoves
  <1>3. /\ Score(f) = Weighted(x) /\ Score(g) = Weighted(y)
        /\ Weighted(x) \in 0..2000 /\ Weighted(y) \in 0..2000
    BY <1>1, ScoreTyped DEF Score
  <1> HIDE DEF x, y
  <1>4. \A c \in Component :
           /\ x[c] \in 0..20 /\ y[c] \in 0..20
           /\ h[c] = IF y[c] # x[c] THEN 10 ELSE 0
    BY <1>1 DEF Points
  <1> HIDE DEF h
  <1>5. \A c \in Component :
           /\ x[c] \in Nat /\ y[c] \in Nat /\ h[c] \in Nat
           /\ x[c] <= y[c] + h[c] /\ y[c] <= x[c] + h[c]
    BY <1>2, <1>4
  <1>6. /\ Weighted(x) \in Nat /\ Weighted(y) \in Nat /\ Weighted(h) \in Nat
        /\ Weighted(x) <= Weighted(y) + Weighted(h)
    BY <1>5, WeightedMoves
  <1>7. Weighted(y) <= Weighted(x) + Weighted(h)
    BY <1>5, WeightedMoves
  <1>8. Distance(Score(g), Score(f)) <= Weighted(h)
    <2>1. Distance(Weighted(y), Weighted(x)) <= Weighted(h)
      BY <1>6, <1>7, DistanceBound
    <2>2. QED
      BY <1>3, <2>1
  <1>9. QED
    BY <1>3, <1>8 DEF h, x, y, MovesWithinHalf

(* For any weights that add up to 100 and any discoveries: unknown counts  *)
(* half, so a fact moves the score by no more than half of the weights of  *)
(* the components it is part of, and the score stays from 0 to 100 points. *)
THEOREM ScoreWithinHalfAlways == MatchSpec => ScoreWithinHalf
  <1> DEFINE Moves(o) ==
          LET before == ScoreComponents(offers[o])
              after == ScoreComponents(offers[o])'
              Half(c) == IF after[c] # before[c] THEN 10 ELSE 0 IN
          /\ Score(offers[o])' \in 0..2000
          /\ Distance(Score(offers[o])', Score(offers[o]))
                <= Weighted([c \in Component |-> Half(c)])
  <1>1. MatchInit => MatchTypes
    BY MatchAssumption DEF MatchInit, MatchTypes
  <1>2. MatchTypes /\ [MatchNext]_offers => MatchTypes'
    BY MatchTypesKept
  <1>3. MatchTypes /\ [MatchNext]_offers
           => [\A o \in Learned : Moves(o)]_offers
    <2> SUFFICES ASSUME MatchTypes, [MatchNext]_offers,
                        NEW o \in Offer
                 PROVE  Moves(o)
      BY DEF Learned
    <2>1. /\ offers[o] \in PropertyFacts /\ offers'[o] \in PropertyFacts
          /\ Grows(offers[o], offers'[o])
      BY MatchTypesKept DEF MatchTypes
    <2>2. MovesWithinHalf(offers[o], offers'[o])
      BY <2>1, ScoreStepWithinHalf
    <2>3. QED
      BY <2>2 DEF MovesWithinHalf
  <1>4. QED
    BY <1>1, <1>2, <1>3, PTL DEF MatchSpec, ScoreWithinHalf

(* The order of ranking is total, so every set of offers has a first, a    *)
(* second and so on up to its size.                                        *)
LEMMA BeforeIsOrder ==
    ASSUME MatchTypes, NEW a \in Offer, NEW b \in Offer, NEW c \in Offer
    PROVE  /\ ~Before(a, a)
           /\ a = b \/ Before(a, b) \/ Before(b, a)
           /\ ~(Before(a, b) /\ Before(b, a))
           /\ Before(a, b) /\ Before(b, c) => Before(a, c)
  <1>1. \A o \in Offer : Score(offers[o]) \in Int
    <2> TAKE o \in Offer
    <2>1. ScoreComponents(offers[o]) \in Points
      BY PointsTyped DEF MatchTypes
    <2>2. Score(offers[o]) \in 0..2000
      BY <2>1, ScoreTyped DEF Score
    <2>3. QED
      BY <2>2
  <1>2. a \in Nat /\ b \in Nat /\ c \in Nat
    BY MatchAssumption
  <1>3. QED
    BY <1>1, <1>2 DEF Before

LEMMA PositionFacts ==
    ASSUME MatchTypes, NEW S \in SUBSET Offer
    PROVE  /\ IsFiniteSet(S) /\ Cardinality(S) \in Nat
           /\ \A o \in S : Position(S, o) \in 0..(Cardinality(S) - 1)
           /\ \A a, b \in S : Before(a, b) <=> Position(S, a) < Position(S, b)
           /\ \A a, b \in S : Position(S, a) = Position(S, b) => a = b
           /\ \A k \in 0..(Cardinality(S) - 1) : \E o \in S : Position(S, o) = k
  <1> DEFINE ahead(o) == {p \in S : Before(p, o)}
             T == 0..(Cardinality(S) - 1)
  <1>1. IsFiniteSet(S) /\ Cardinality(S) \in Nat
    BY MatchAssumption, FS_Subset, FS_CardinalityType
  <1>2. \A o : Position(S, o) = Cardinality(ahead(o))
    BY DEF Position
  <1>3. \A o : ahead(o) \in SUBSET S
    OBVIOUS
  <1>4. \A o \in S : o \notin ahead(o)
    BY BeforeIsOrder
  <1>5. \A a, b \in S : Before(a, b) => ahead(a) \in SUBSET ahead(b) /\ a \in ahead(b)
    <2> SUFFICES ASSUME NEW a \in S, NEW b \in S, Before(a, b)
                 PROVE  ahead(a) \in SUBSET ahead(b) /\ a \in ahead(b)
      OBVIOUS
    <2>1. \A p \in S : Before(p, a) => Before(p, b)
      BY BeforeIsOrder
    <2>2. QED
      BY <2>1
  <1> HIDE DEF ahead
  <1>6. \A o : /\ IsFiniteSet(ahead(o)) /\ Cardinality(ahead(o)) \in Nat
               /\ Cardinality(ahead(o)) <= Cardinality(S)
               /\ Cardinality(S) = Cardinality(ahead(o)) => S = ahead(o)
    BY <1>1, <1>3, FS_Subset, FS_CardinalityType
  <1>7. \A o \in S : Position(S, o) \in T
    <2> TAKE o \in S
    <2>1. Cardinality(ahead(o)) # Cardinality(S)
      BY <1>4, <1>6
    <2>2. Position(S, o) \in Nat /\ Position(S, o) < Cardinality(S)
      BY <1>1, <1>2, <1>6, <2>1
    <2>3. QED
      BY <1>1, <2>2
  <1>8. \A a, b \in S : Before(a, b) => Position(S, a) < Position(S, b)
    <2> SUFFICES ASSUME NEW a \in S, NEW b \in S, Before(a, b)
                 PROVE  Cardinality(ahead(a)) < Cardinality(ahead(b))
      BY <1>2
    <2>1. ahead(a) \in SUBSET ahead(b) /\ ahead(a) # ahead(b)
      BY <1>4, <1>5
    <2>2. /\ Cardinality(ahead(a)) <= Cardinality(ahead(b))
          /\ Cardinality(ahead(b)) = Cardinality(ahead(a)) => ahead(b) = ahead(a)
      BY <1>6, <2>1, FS_Subset
    <2>3. Cardinality(ahead(a)) \in Nat /\ Cardinality(ahead(b)) \in Nat
      BY <1>6
    <2>4. QED
      BY <2>1, <2>2, <2>3
  <1>9. \A a, b \in S : Position(S, a) = Position(S, b) => a = b
    <2> SUFFICES ASSUME NEW a \in S, NEW b \in S, a # b
                 PROVE  Position(S, a) # Position(S, b)
      OBVIOUS
    <2>1. Before(a, b) \/ Before(b, a)
      BY BeforeIsOrder
    <2>2. Position(S, a) \in Int /\ Position(S, b) \in Int
      BY <1>7
    <2>3. QED
      BY <1>8, <2>1, <2>2
  <1>10. \A a, b \in S : Position(S, a) < Position(S, b) => Before(a, b)
    <2> SUFFICES ASSUME NEW a \in S, NEW b \in S, ~Before(a, b)
                 PROVE  ~(Position(S, a) < Position(S, b))
      OBVIOUS
    <2>1. a = b \/ Before(b, a)
      BY BeforeIsOrder
    <2>2. Position(S, a) \in Int /\ Position(S, b) \in Int
      BY <1>7
    <2>3. QED
      BY <1>8, <2>1, <2>2
  <1>11. \A k \in T : \E o \in S : Position(S, o) = k
    <2> DEFINE rank == [o \in S |-> Position(S, o)]
    <2>1. IsFiniteSet(T) /\ Cardinality(T) = Cardinality(S)
      <3>1. 0 \in Int /\ Cardinality(S) - 1 \in Int
        BY <1>1
      <3>2. /\ IsFiniteSet(T)
            /\ Cardinality(T) = IF 0 > Cardinality(S) - 1 THEN 0
                                ELSE Cardinality(S) - 1 - 0 + 1
        BY <3>1, FS_Interval
      <3> HIDE DEF T
      <3>3. QED
        BY <1>1, <3>2
    <2> HIDE DEF T
    <2>2. rank \in [S -> T]
      BY <1>7
    <2>3. \A a, b \in S : rank[a] = rank[b] => a = b
      BY <1>9
    <2> HIDE DEF rank
    <2>4. rank \in Injection(S, T)
      BY <2>2, <2>3 DEF Injection, IsInjective
    <2>5. rank \in Surjection(S, T)
      BY <2>1, <2>4, FS_Injection
    <2>6. \A k \in T : \E o \in S : rank[o] = k
      BY <2>5 DEF Surjection
    <2>7. QED
      BY <2>6 DEF rank
  <1>12. QED
    BY <1>1, <1>7, <1>8, <1>9, <1>10, <1>11

LEMMA TopSize ==
    ASSUME MatchTypes, NEW S \in SUBSET Offer, NEW n \in Nat
    PROVE  /\ Top(n, S) \in SUBSET S
           /\ Cardinality(Top(n, S)) = IF n < Cardinality(S) THEN n ELSE Cardinality(S)
  <1> DEFINE F == Top(n, S)
             T == 0..(n - 1)
             rank == [o \in F |-> Position(S, o)]
  <1>1. /\ IsFiniteSet(S) /\ Cardinality(S) \in Nat
        /\ \A o \in S : Position(S, o) \in 0..(Cardinality(S) - 1)
        /\ \A a, b \in S : Position(S, a) = Position(S, b) => a = b
        /\ \A k \in 0..(Cardinality(S) - 1) : \E o \in S : Position(S, o) = k
    BY PositionFacts
  <1>2. F \in SUBSET S /\ \A o : o \in F <=> o \in S /\ Position(S, o) < n
    BY DEF Top
  <1> HIDE DEF F
  <1>3. CASE n < Cardinality(S)
    <2>1. \A o \in F : Position(S, o) \in T
      BY <1>1, <1>2
    <2>2. \A k \in T : \E o \in F : Position(S, o) = k
      <3> TAKE k \in T
      <3>1. k \in 0..(Cardinality(S) - 1) /\ k < n
        BY <1>1, <1>3
      <3>2. QED
        BY <1>1, <1>2, <3>1
    <2>3. Cardinality(T) = n
      <3>1. 0 \in Int /\ n - 1 \in Int
        OBVIOUS
      <3>2. Cardinality(T) = IF 0 > n - 1 THEN 0 ELSE n - 1 - 0 + 1
        BY <3>1, FS_Interval
      <3> HIDE DEF T
      <3>3. QED
        BY <3>2
    <2> HIDE DEF T
    <2>4. rank \in [F -> T] /\ \A a, b \in F : rank[a] = rank[b] => a = b
      BY <1>1, <1>2, <2>1
    <2>5. \A k \in T : \E o \in F : rank[o] = k
      BY <2>2
    <2> HIDE DEF rank
    <2>6. rank \in Bijection(F, T)
      BY <2>4, <2>5 DEF Bijection, Injection, IsInjective, Surjection
    <2>7. IsFiniteSet(F)
      BY <1>1, <1>2, FS_Subset
    <2>8. Cardinality(T) = Cardinality(F)
      BY <2>6, <2>7, FS_Bijection DEF ExistsBijection
    <2>9. QED
      BY <1>2, <1>3, <2>3, <2>8 DEF F
  <1>4. CASE ~(n < Cardinality(S))
    <2>1. \A o \in S : Position(S, o) < n
      BY <1>1, <1>4
    <2>2. F = S
      BY <1>2, <2>1
    <2>3. QED
      BY <1>4, <2>2 DEF F
  <1>5. QED
    BY <1>3, <1>4

LEMMA ByScoreFacts ==
    ASSUME MatchTypes, NEW S \in SUBSET Offer
    PROVE  /\ DOMAIN ByScore(S) = 1..Cardinality(S) /\ Len(ByScore(S)) = Cardinality(S)
           /\ ToSet(ByScore(S)) = S
           /\ \A i \in DOMAIN ByScore(S) : ByScore(S)[i] \in S
           /\ \A i, j \in DOMAIN ByScore(S) : i < j => Before(ByScore(S)[i], ByScore(S)[j])
  <1> DEFINE s == ByScore(S)
             n == Cardinality(S)
             nth(i) == CHOOSE o \in S : Position(S, o) = i - 1
  <1>1. /\ n \in Nat
        /\ \A o \in S : Position(S, o) \in 0..(n - 1)
        /\ \A a, b \in S : Before(a, b) <=> Position(S, a) < Position(S, b)
        /\ \A a, b \in S : Position(S, a) = Position(S, b) => a = b
        /\ \A k \in 0..(n - 1) : \E o \in S : Position(S, o) = k
    BY PositionFacts
  <1>2. s = [i \in 1..n |-> nth(i)]
    BY DEF ByScore
  <1> HIDE DEF s, n
  <1>3. \A i \in 1..n : nth(i) \in S /\ Position(S, nth(i)) = i - 1
    <2> TAKE i \in 1..n
    <2>1. i - 1 \in 0..(n - 1)
      BY <1>1
    <2>2. \E o \in S : Position(S, o) = i - 1
      BY <1>1, <2>1
    <2>3. QED
      BY <2>2
  <1> HIDE DEF nth
  <1>4. DOMAIN s = 1..n /\ \A i \in 1..n : s[i] \in S /\ Position(S, s[i]) = i - 1
    BY <1>2, <1>3
  <1>5. Len(s) = n
    BY <1>1, <1>4
  <1>6. \A o \in S : \E i \in 1..n : s[i] = o
    <2> TAKE o \in S
    <2>1. Position(S, o) + 1 \in 1..n /\ Position(S, o) \in Int
      BY <1>1
    <2>2. Position(S, s[Position(S, o) + 1]) = Position(S, o) /\ s[Position(S, o) + 1] \in S
      BY <1>4, <2>1
    <2>3. QED
      BY <1>1, <2>1, <2>2
  <1>7. ToSet(s) = S
    BY <1>4, <1>6 DEF ToSet
  <1>8. \A i, j \in 1..n : i < j => Before(s[i], s[j])
    <2> SUFFICES ASSUME NEW i \in 1..n, NEW j \in 1..n, i < j
                 PROVE  Before(s[i], s[j])
      OBVIOUS
    <2>1. Position(S, s[i]) < Position(S, s[j])
      BY <1>4
    <2>2. QED
      BY <1>1, <1>4, <2>1
  <1>9. QED
    BY <1>4, <1>5, <1>7, <1>8 DEF s, n

SameLocality(a, b) == offers[a].locality = offers[b].locality

(* Every offer of a pool is the best of its locality or has that one ahead.*)
LEMMA BestExists ==
    ASSUME MatchTypes, NEW pool \in SUBSET Offer, NEW o \in pool
    PROVE  \E b \in BestOfLocality(pool) : SameLocality(b, o) /\ (b = o \/ Before(b, o))
  <1> DEFINE S == {p \in pool : SameLocality(p, o)}
  <1>1. S \in SUBSET Offer /\ o \in S /\ \A p : p \in S <=> p \in pool /\ SameLocality(p, o)
    BY DEF SameLocality
  <1> HIDE DEF S
  <1>2. /\ Cardinality(S) \in Nat
        /\ \A x \in S : Position(S, x) \in 0..(Cardinality(S) - 1)
        /\ \A a, b \in S : Before(a, b) <=> Position(S, a) < Position(S, b)
        /\ \A k \in 0..(Cardinality(S) - 1) : \E x \in S : Position(S, x) = k
    BY <1>1, PositionFacts
  <1>3. 0 \in 0..(Cardinality(S) - 1)
    BY <1>1, <1>2
  <1>4. PICK b \in S : Position(S, b) = 0
    BY <1>2, <1>3
  <1>5. \A p \in S : ~Before(p, b)
    BY <1>2, <1>4
  <1>6. b \in BestOfLocality(pool)
    BY <1>1, <1>5 DEF BestOfLocality, SameLocality
  <1>7. b = o \/ Before(b, o)
    BY <1>1, <1>5, BeforeIsOrder
  <1>8. QED
    BY <1>1, <1>6, <1>7

LEMMA BestIsOnly ==
    ASSUME MatchTypes, NEW pool \in SUBSET Offer,
           NEW a \in BestOfLocality(pool), NEW p \in pool, SameLocality(a, p), p # a
    PROVE  Before(a, p) /\ p \notin BestOfLocality(pool)
  <1>1. a \in Offer /\ p \in Offer /\ ~Before(p, a)
    BY DEF BestOfLocality, SameLocality
  <1>2. Before(a, p)
    BY <1>1, BeforeIsOrder
  <1>3. QED
    BY <1>2 DEF BestOfLocality, SameLocality

Firsts(pool) == Top(Limit, BestOfLocality(pool))
Fill(pool) == Top(Limit - Cardinality(Firsts(pool)), pool \ Firsts(pool))

LEMMA SelectedParts ==
    ASSUME MatchTypes, NEW pool \in SUBSET Offer
    PROVE  /\ Selected(pool) = Firsts(pool) \cup Fill(pool) /\ Selected(pool) \in SUBSET pool
           /\ Firsts(pool) \in SUBSET BestOfLocality(pool)
           /\ BestOfLocality(pool) \in SUBSET pool
           /\ Fill(pool) \in SUBSET (pool \ Firsts(pool))
           /\ Cardinality(Selected(pool)) =
                 IF Limit < Cardinality(pool) THEN Limit ELSE Cardinality(pool)
           /\ Firsts(pool) # BestOfLocality(pool) => Fill(pool) = {}
  <1> DEFINE best == BestOfLocality(pool)
             firsts == Firsts(pool)
             rest == pool \ firsts
             room == Limit - Cardinality(firsts)
             fill == Fill(pool)
  <1>1. best \in SUBSET pool /\ best \in SUBSET Offer /\ Limit \in Nat
    BY MatchAssumption DEF BestOfLocality
  <1> HIDE DEF best
  <1>2. /\ firsts \in SUBSET best
        /\ Cardinality(firsts) = IF Limit < Cardinality(best) THEN Limit ELSE Cardinality(best)
    BY <1>1, TopSize DEF Firsts, best
  <1>3. /\ IsFiniteSet(pool) /\ Cardinality(pool) \in Nat
        /\ IsFiniteSet(best) /\ Cardinality(best) \in Nat
    BY <1>1, PositionFacts
  <1>4. firsts \in SUBSET pool /\ rest \in SUBSET Offer
    BY <1>1, <1>2
  <1>5. room \in Nat /\ Cardinality(firsts) \in Nat
    BY <1>1, <1>2, <1>3
  <1>6. fill = Top(room, rest)
    BY DEF Fill
  <1> HIDE DEF firsts, fill
  <1>7. /\ IsFiniteSet(firsts) /\ IsFiniteSet(rest)
        /\ Cardinality(rest) = Cardinality(pool) - Cardinality(firsts)
    <2>1. IsFiniteSet(firsts) /\ pool \cap firsts = firsts
      BY <1>3, <1>4, FS_Subset
    <2>2. IsFiniteSet(pool \ firsts)
          /\ Cardinality(pool \ firsts) = Cardinality(pool) - Cardinality(pool \cap firsts)
      BY <1>3, FS_Difference
    <2>3. QED
      BY <2>1, <2>2
  <1> HIDE DEF rest, room
  <1>8. /\ fill \in SUBSET rest
        /\ Cardinality(fill) = IF room < Cardinality(rest) THEN room ELSE Cardinality(rest)
    BY <1>4, <1>5, <1>6, TopSize
  <1>9. Selected(pool) = firsts \cup fill
    BY <1>6 DEF Selected, firsts, rest, room, Firsts
  <1>10. Cardinality(firsts \cup fill) = Cardinality(firsts) + Cardinality(fill)
    <2>1. IsFiniteSet(fill) /\ firsts \cap fill = {}
      BY <1>7, <1>8, FS_Subset DEF rest
    <2>2. Cardinality(firsts \cup fill)
             = Cardinality(firsts) + Cardinality(fill) - Cardinality(firsts \cap fill)
      BY <1>7, <2>1, FS_Union
    <2>3. Cardinality(firsts \cap fill) = 0 /\ Cardinality(fill) \in Nat
      BY <2>1, FS_EmptySet, FS_CardinalityType
    <2>4. QED
      BY <1>5, <2>2, <2>3
  <1>11. Cardinality(rest) \in Nat /\ Cardinality(firsts) <= Cardinality(pool)
    BY <1>3, <1>4, <1>7, FS_CardinalityType, FS_Subset
  <1>12. room = Limit - Cardinality(firsts)
    BY DEF room
  <1>13. Cardinality(Selected(pool))
           = IF Limit < Cardinality(pool) THEN Limit ELSE Cardinality(pool)
    BY <1>1, <1>3, <1>5, <1>7, <1>8, <1>9, <1>10, <1>11, <1>12
  <1>14. firsts # best => fill = {}
    <2> SUFFICES ASSUME firsts # best PROVE fill = {}
      OBVIOUS
    <2>1. Cardinality(firsts) # Cardinality(best)
      BY <1>2, <1>3, FS_Subset
    <2>2. room = 0
      BY <1>1, <1>2, <1>3, <1>12, <2>1
    <2>3. \A o \in rest : Position(rest, o) \in Nat
      <3>1. \A o \in rest : Position(rest, o) \in 0..(Cardinality(rest) - 1)
        BY <1>4, PositionFacts
      <3>2. \A k \in 0..(Cardinality(rest) - 1) : k \in Nat
        BY <1>11
      <3>3. QED
        BY <3>1, <3>2
    <2>4. QED
      BY <1>6, <2>2, <2>3 DEF Top
  <1>15. QED
    BY <1>1, <1>2, <1>4, <1>8, <1>9, <1>13, <1>14 DEF best, firsts, fill, rest

(* What is left out: of a locality that has its place, unless every place  *)
(* went to another locality, and in favour of a worse offer only when that *)
(* one is the first of its locality.                                       *)
LEMMA SelectedFair ==
    ASSUME MatchTypes, NEW pool \in SUBSET Offer, NEW out \in pool \ Selected(pool)
    PROVE  /\ \/ \E in \in Selected(pool) : SameLocality(in, out)
              \/ \A a, b \in Selected(pool) : a # b => ~SameLocality(a, b)
           /\ \A in \in Selected(pool) :
                 Before(out, in) =>
                    /\ \E b \in Selected(pool) : SameLocality(b, out) /\ Before(b, out)
                    /\ \A other \in pool \ {in} : SameLocality(other, in) => Before(in, other)
  <1> DEFINE best == BestOfLocality(pool)
             firsts == Firsts(pool)
             fill == Fill(pool)
             rest == pool \ firsts
             room == Limit - Cardinality(firsts)
  <1>1. /\ Selected(pool) = firsts \cup fill /\ Selected(pool) \in SUBSET pool
        /\ firsts \in SUBSET best /\ best \in SUBSET pool /\ fill \in SUBSET rest
        /\ firsts # best => fill = {}
    BY SelectedParts
  <1>2. /\ \A o \in best : o \in firsts <=> Position(best, o) < Limit
        /\ \A o \in rest : o \in fill <=> Position(rest, o) < room
    BY <1>1 DEF Firsts, Fill, Top
  <1>3. Limit \in Nat /\ Cardinality(firsts) \in Nat /\ out \notin firsts /\ out \notin fill
    <2>1. IsFiniteSet(firsts)
      BY <1>1, PositionFacts
    <2>2. QED
      BY <1>1, <2>1, FS_CardinalityType, MatchAssumption
  <1> HIDE DEF best, firsts, fill
  <1>4. PICK b \in best : SameLocality(b, out) /\ (b = out \/ Before(b, out))
    BY BestExists DEF best
  <1>5. /\ best \in SUBSET Offer /\ rest \in SUBSET Offer
        /\ out \in Offer /\ b \in Offer /\ out \in rest
    BY <1>1, <1>3
  <1>6. \/ \E in \in Selected(pool) : SameLocality(in, out)
        \/ \A x, y \in Selected(pool) : x # y => ~SameLocality(x, y)
    <2>1. CASE b \in firsts
      BY <1>1, <1>4, <2>1
    <2>2. CASE b \notin firsts
      <3>1. Selected(pool) = firsts
        BY <1>1, <1>4, <2>2
      <3>2. ASSUME NEW x \in firsts, NEW y \in firsts, x # y
            PROVE  ~SameLocality(x, y)
        <4>1. x \in BestOfLocality(pool) /\ y \in BestOfLocality(pool) /\ y \in pool
          BY <1>1 DEF best
        <4>2. QED
          BY <3>2, <4>1, BestIsOnly
      <3>3. QED
        BY <3>1, <3>2
    <2>3. QED
      BY <2>1, <2>2
  <1>7. ASSUME NEW in \in Selected(pool), Before(out, in)
        PROVE  /\ in \in firsts
               /\ b \in firsts /\ Before(b, out)
    <2>1. in \in Offer
      BY <1>1
    <2>2. in \in firsts
      <3> SUFFICES ASSUME in \in fill PROVE FALSE
        BY <1>1
      <3>1. in \in rest /\ Position(rest, in) < room
        BY <1>1, <1>2
      <3>2. Position(rest, out) < Position(rest, in)
        BY <1>5, <1>7, <3>1, PositionFacts
      <3>3. /\ Position(rest, out) \in 0..(Cardinality(rest) - 1)
            /\ Position(rest, in) \in 0..(Cardinality(rest) - 1)
            /\ Cardinality(rest) \in Nat
        BY <1>5, <3>1, PositionFacts
      <3>4. room \in Int
        BY <1>3
      <3> HIDE DEF rest, room
      <3>5. Position(rest, out) < room
        BY <3>1, <3>2, <3>3, <3>4
      <3>6. QED
        BY <1>2, <1>3, <1>5, <3>5
    <2>3. Before(b, in)
      BY <1>4, <1>5, <1>7, <2>1, BeforeIsOrder
    <2>4. b \in firsts
      <3>1. in \in best /\ Position(best, in) < Limit
        BY <1>1, <1>2, <2>2
      <3>2. Position(best, b) < Position(best, in)
        BY <1>5, <2>3, <3>1, PositionFacts
      <3>3. /\ Position(best, b) \in 0..(Cardinality(best) - 1)
            /\ Position(best, in) \in 0..(Cardinality(best) - 1)
            /\ Cardinality(best) \in Nat
        BY <1>5, <3>1, PositionFacts
      <3>4. Position(best, b) < Limit
        BY <1>3, <3>1, <3>2, <3>3
      <3>5. QED
        BY <1>2, <3>4
    <2>5. b # out
      BY <1>3, <2>4
    <2>6. QED
      BY <1>4, <2>2, <2>4, <2>5
  <1>8. ASSUME NEW in \in firsts, NEW other \in pool \ {in}, SameLocality(other, in)
        PROVE  Before(in, other)
    <2>1. in \in BestOfLocality(pool) /\ SameLocality(in, other)
      BY <1>1, <1>8 DEF best, SameLocality
    <2>2. QED
      BY <2>1, BestIsOnly
  <1>9. ASSUME NEW in \in Selected(pool), Before(out, in)
        PROVE  /\ \E x \in Selected(pool) : SameLocality(x, out) /\ Before(x, out)
               /\ \A other \in pool \ {in} : SameLocality(other, in) => Before(in, other)
    <2>1. in \in firsts /\ b \in firsts /\ Before(b, out)
      BY <1>7, <1>9
    <2>2. b \in Selected(pool) /\ SameLocality(b, out)
      BY <1>1, <1>4, <2>1
    <2>3. QED
      BY <1>8, <2>1, <2>2
  <1>10. QED
    BY <1>6, <1>9

LEMMA SlateIsFair ==
    ASSUME MatchTypes, NEW pool \in SUBSET Offer
    PROVE  FairSlate(Diversify(pool), pool) /\ ToSet(Diversify(pool)) \subseteq pool
  <1> DEFINE slate == Diversify(pool)
             chosen == Selected(pool)
  <1>1. /\ chosen \in SUBSET pool /\ chosen \in SUBSET Offer
        /\ Cardinality(chosen) = IF Limit < Cardinality(pool) THEN Limit ELSE Cardinality(pool)
    BY SelectedParts
  <1>2. slate = ByScore(chosen)
    BY DEF Diversify
  <1> HIDE DEF slate, chosen
  <1>3. /\ Len(slate) = Cardinality(chosen) /\ ToSet(slate) = chosen
        /\ DOMAIN slate = 1..Cardinality(chosen) /\ Cardinality(chosen) \in Nat
        /\ \A i \in DOMAIN slate : slate[i] \in chosen
        /\ \A i, j \in DOMAIN slate : i < j => Before(slate[i], slate[j])
    BY <1>1, <1>2, ByScoreFacts, PositionFacts
  <1>4. Len(slate) = Min({Limit, Cardinality(pool)})
    <2>1. Limit \in Nat /\ Cardinality(pool) \in Nat
      BY PositionFacts, MatchAssumption
    <2> DEFINE n == Cardinality(pool)
    <2>2. n \in Nat /\ Cardinality(chosen) = IF Limit < n THEN Limit ELSE n
      BY <1>1, <2>1
    <2> HIDE DEF n
    <2>3. \E x \in {Limit, n} : \A y \in {Limit, n} : x =< y
      BY <2>1, <2>2
    <2>4. /\ Min({Limit, n}) \in {Limit, n}
          /\ \A y \in {Limit, n} : Min({Limit, n}) =< y
      BY <2>3 DEF Min
    <2>5. Min({Limit, n}) = Cardinality(chosen)
      BY <2>1, <2>2, <2>4
    <2>6. QED
      BY <1>3, <2>5 DEF n
  <1>5. ASSUME NEW i \in DOMAIN slate, NEW j \in DOMAIN slate, i # j
        PROVE  slate[i] # slate[j]
    <2>1. i < j \/ j < i
      BY <1>3, <1>5
    <2>2. slate[i] \in Offer /\ ~Before(slate[i], slate[i])
      BY <1>1, <1>3, BeforeIsOrder
    <2>3. QED
      BY <1>3, <2>1, <2>2
  <1>6. ASSUME NEW out \in pool \ chosen
        PROVE  /\ \/ \E in \in chosen : offers[in].locality = offers[out].locality
                  \/ \A i, j \in DOMAIN slate :
                        i # j => offers[slate[i]].locality # offers[slate[j]].locality
               /\ \A in \in chosen :
                     Before(out, in) =>
                        /\ \E best \in chosen :
                              offers[best].locality = offers[out].locality /\ Before(best, out)
                        /\ \A other \in pool \ {in} :
                              offers[other].locality = offers[in].locality => Before(in, other)
    <2>1. /\ \/ \E in \in chosen : SameLocality(in, out)
             \/ \A a, b \in chosen : a # b => ~SameLocality(a, b)
          /\ \A in \in chosen :
                 Before(out, in) =>
                    /\ \E b \in chosen : SameLocality(b, out) /\ Before(b, out)
                    /\ \A other \in pool \ {in} : SameLocality(other, in) => Before(in, other)
      BY <1>6, SelectedFair DEF chosen
    <2>2. \/ \E in \in chosen : offers[in].locality = offers[out].locality
          \/ \A i, j \in DOMAIN slate :
                i # j => offers[slate[i]].locality # offers[slate[j]].locality
      BY <1>3, <1>5, <2>1 DEF SameLocality
    <2>3. QED
      BY <2>1, <2>2 DEF SameLocality
  <1>7. FairSlate(slate, pool)
    BY <1>1, <1>3, <1>4, <1>6 DEF FairSlate
  <1>8. QED
    BY <1>1, <1>3, <1>7 DEF slate

(* An eligible offer is for sale, vacant and without a serious legal risk. *)
LEMMA EligibleIsOpen ==
    ASSUME NEW f, Eligible(f)
    PROVE  f.transaction # "rental" /\ f.legalRisk # TRUE /\ f.vacant # FALSE
  <1>1. /\ Rules(f).transaction = PASS /\ Rules(f).legal_risk = PASS
        /\ Rules(f).vacant = PASS
    BY DEF Eligible, Rules
  <1>2. PASS # FAIL /\ Unknown # PASS /\ Unknown # TRUE /\ Unknown # FALSE
    BY MatchAssumption DEF PASS, FAIL
  <1>3. \A v : BooleanRule(v) = PASS => v /\ v # Unknown
    BY <1>2 DEF BooleanRule, Holds
  <1>4. f.transaction # "rental"
    <2>1. BooleanRule(IF f.transaction = Unknown THEN Unknown
                      ELSE f.transaction = "purchase") = PASS
      BY <1>1 DEF Rules
    <2>2. f.transaction = "purchase"
      BY <1>3, <2>1
    <2>3. QED
      BY <2>2
  <1>5. f.legalRisk # TRUE
    <2>1. BooleanRule(IF f.legalRisk = Unknown THEN Unknown ELSE ~f.legalRisk) = PASS
      BY <1>1 DEF Rules
    <2>2. QED
      BY <1>2, <1>3, <2>1
  <1>6. f.vacant # FALSE
    <2>1. BooleanRule(f.vacant) = PASS
      BY <1>1 DEF Rules
    <2>2. QED
      BY <1>3, <2>1
  <1>7. QED
    BY <1>4, <1>5, <1>6

LEMMA SlatesDiverse == MatchTypes => SlatesAreDiverse
  <1> SUFFICES ASSUME MatchTypes PROVE SlatesAreDiverse
    OBVIOUS
  <1> DEFINE good == {o \in Offer : Open(offers[o]) /\ Eligible(offers[o])}
             other == {o \in Offer : Open(offers[o]) /\ ~Eligible(offers[o])}
  <1>1. good \in SUBSET Offer /\ other \in SUBSET Offer /\ good \cap other = {}
    OBVIOUS
  <1>2. good = {o \in Offer : CanPresent(offers[o]) /\ Eligible(offers[o])}
    BY EligibleIsOpen DEF Open
  <1>3. other = {o \in Offer : /\ CanPresent(offers[o]) /\ ~Eligible(offers[o])
                               /\ offers[o].transaction # "rental"
                               /\ offers[o].legalRisk # TRUE
                               /\ offers[o].vacant # FALSE}
    BY DEF Open
  <1>4. Compliant = Diversify(good) /\ Exploration = Diversify(other)
    BY <1>2, <1>3 DEF Compliant, Exploration
  <1> HIDE DEF good, other
  <1>5. /\ FairSlate(Diversify(good), good) /\ ToSet(Diversify(good)) \subseteq good
        /\ FairSlate(Diversify(other), other) /\ ToSet(Diversify(other)) \subseteq other
    BY <1>1, SlateIsFair
  <1>6. ToSet(Compliant) \cap ToSet(Exploration) = {}
    BY <1>1, <1>4, <1>5
  <1>7. FairSlate(Compliant, good) /\ FairSlate(Exploration, other)
    BY <1>4, <1>5
  <1>8. QED
    BY <1>6, <1>7 DEF SlatesAreDiverse, good, other

(* For any offers, profile, weights that add up to 100, size of a slate    *)
(* and order of discoveries: the slates are fair and have no offer in      *)
(* common, verdicts stand and scores stay within half.                     *)
THEOREM MatchingSoundAlways == MatchSpec => MatchingSound
  <1>1. MatchInit => MatchTypes
    BY MatchAssumption DEF MatchInit, MatchTypes
  <1>2. MatchTypes /\ [MatchNext]_offers => MatchTypes'
    BY MatchTypesKept
  <1>3. MatchTypes => SlatesAreDiverse
    BY SlatesDiverse
  <1>4. MatchSpec => []SlatesAreDiverse
    BY <1>1, <1>2, <1>3, PTL DEF MatchSpec
  <1>5. QED
    BY <1>4, VerdictsStandAlways, ScoreWithinHalfAlways DEF MatchingSound

=============================================================================
