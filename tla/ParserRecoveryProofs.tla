------------------------ MODULE ParserRecoveryProofs ------------------------
(***************************************************************************)
(* Proofs about ParserRecovery for every number of listings, releases,     *)
(* batches and results, composed with the activation of parser releases.   *)
(*                                                                         *)
(* That a rollback hides nothing but what the withdrawn release parsed     *)
(* needs that every result names an epoch of the audit trail that was won  *)
(* by its release (ResultsAudited), which in turn needs that no capture or *)
(* replay ends without a pointer (TasksNeedPointer).  The life of a result *)
(* rests on what the replay tasks were bound to (TasksKeepExpiry), the     *)
(* order of the batches on the counter of each campaign (BatchesCounted).  *)
(***************************************************************************)
EXTENDS ParserRecovery, ParserActivationProofs, FiniteSetTheorems,
        WellFoundedInduction

Capture == [listing : Listing, snapshot : Nat, fetched : Nat]
ParsedRow == [page : Nat, release : Release, epoch : Nat, missing : BOOLEAN,
              replay : BOOLEAN, artifact : BOOLEAN, artifactUntil : Nat,
              expires : Nat]
ReplayTask == [page : Nat, key : Release, expires : Nat,
               state : {"pending", "succeeded", "failed"}]
NetworkTask == [listing : Listing, key : Release, snapshot : Nat,
                state : {"held", "pending", "succeeded"}]
BatchRow == [release : Release, batch : Nat, count : Nat]

RecoveryTypes ==
    /\ snapshots \in [Listing -> Nat]
    /\ pages \in Seq(Capture)
    /\ parsed \in Seq(ParsedRow)
    /\ replays \in SUBSET ReplayTask
    /\ network \in Seq(NetworkTask)
    /\ campaign \in [Release -> [next : Nat, paused : BOOLEAN]]
    /\ legacy \subseteq Listing
    /\ planning \in SUBSET [release : Release, epoch : Nat]
    /\ batches \in Seq(BatchRow)

(* Results and replay tasks name stored captures.                          *)
PagesKnown ==
    /\ \A i \in 1..Len(parsed) : parsed[i].page \in 1..Len(pages)
    /\ \A t \in replays : t.page \in 1..Len(pages)

(* A result was parsed under a pointer that the audit trail remembers.     *)
ResultsAudited ==
    \A i \in 1..Len(parsed) :
        /\ parsed[i].epoch \in 1..Len(audit)
        /\ audit[parsed[i].epoch].release = parsed[i].release

(* A replay task is bound to the expiry of its capture.                    *)
TasksKeepExpiry ==
    \A t \in replays : t.expires = pages[t.page].fetched + TwoYears

(* Recovery tasks exist only where a release was activated.                *)
TasksNeedPointer ==
    activeRelease = NoRelease => replays = {} /\ network = <<>>

(* The counter of a campaign is past every batch it released.              *)
BatchesCounted ==
    \A i \in 1..Len(batches) :
        batches[i].batch < campaign[batches[i].release].next

RecoveryInductive ==
    /\ RecoveryTypes
    /\ PagesKnown
    /\ ResultsAudited
    /\ ReplayKeepsExpiry
    /\ TasksKeepExpiry
    /\ TasksNeedPointer
    /\ BatchesCounted
    /\ BatchesInOrder

-----------------------------------------------------------------------------
(* Facts about sets of indices and the sequence of a set.                  *)

(* A nonempty set of numbers up to n has a largest member.                 *)
LEMMA HasLargest ==
    ASSUME NEW n \in Nat, NEW S \in SUBSET (1..n), S # {}
    PROVE  \E x \in S : \A y \in S : y <= x
<1> DEFINE T == {n - x : x \in S}
<1>0. \A x \in S : x \in Nat /\ 1 <= x /\ x <= n  OBVIOUS
<1>1. T \in SUBSET Nat /\ T # {}
  <2>1. \A x \in S : n - x \in Nat  BY <1>0
  <2> QED  BY <2>1
<1>2. PICK m \in T : \A y \in T : m <= y
  <2> HIDE DEF T
  <2>1. \E x \in T : \A y \in T : <<y, x>> \notin OpToRel(<, Nat)
    BY <1>1, WFMin, NatLessThanWellFounded, Zenon
  <2>2. PICK x \in T : \A y \in T : <<y, x>> \notin OpToRel(<, Nat)  BY <2>1
  <2>3. \A y \in T : ~(y < x)  BY <1>1, <2>2, Zenon DEF OpToRel
  <2>4. \A y \in T : x <= y  BY <1>1, <2>3
  <2> QED  BY <2>4
<1>3. PICK x \in S : m = n - x  BY <1>2
<1>4. \A y \in S : y <= x
  <2>1. \A y \in S : m <= n - y  BY <1>2
  <2> QED  BY <1>0, <1>3, <2>1
<1> QED  BY <1>4

(* SetToSeq lists the members of a finite set.                             *)
LEMMA SetToSeqType ==
    ASSUME NEW S, IsFiniteSet(S)
    PROVE  SetToSeq(S) \in Seq(S)
<1>1. Cardinality(S) \in Nat  BY FS_CardinalityType
<1>2. \E f \in [1..Cardinality(S) -> S] : IsInjective(f)
  <2>1. ExistsBijection(1..Cardinality(S), S)  BY FS_CardinalityType
  <2>2. PICK f \in Bijection(1..Cardinality(S), S) : TRUE
    BY <2>1 DEF ExistsBijection
  <2>3. f \in [1..Cardinality(S) -> S] /\ IsInjective(f)
    BY <2>2 DEF Bijection, Injection, IsInjective
  <2> QED  BY <2>3
<1>3. SetToSeq(S) \in [1..Cardinality(S) -> S]  BY <1>2 DEF SetToSeq
<1> QED  BY <1>1, <1>3

-----------------------------------------------------------------------------
(* The pointer *)

(* The audit trail only grows and the pointer never goes away.             *)
AuditGrows ==
    /\ audit \in Seq(AuditRow) /\ audit' \in Seq(AuditRow)
    /\ Len(audit) <= Len(audit')
    /\ \A e \in 1..Len(audit) : audit'[e] = audit[e]
    /\ activeRelease # NoRelease => activeRelease' # NoRelease

LEMMA ActivationStep ==
    ASSUME ActivationInv, [ActivationNext]_activationVars
    PROVE  AuditGrows
<1> USE DEF AuditGrows, ActivationInv
<1>0. audit \in Seq(AuditRow) /\ Len(audit) \in Nat  BY DEF ActivationTypeOK
<1>1. CASE UNCHANGED <<audit, activeRelease>>  BY <1>0, <1>1
<1>2. ASSUME NEW r \in Release, NEW at \in Captured,
             NEW action \in {"activate", "rollback"}, Change(r, at, action)
      PROVE  AuditGrows
  <2>1. ChangeEffect(r, action)  BY <1>2, ChangeFacts
  <2> QED  BY <1>0, <2>1, ActivationAssumption DEF ChangeEffect
<1>3. \A plan \in rollbackPlans : plan.target \in Release
  BY DEF ActivationTypeOK, RollbackPlan
<1> QED
  BY <1>1, <1>2, <1>3
  DEF ActivationNext, Tick, RegisterWorker, RegisterRelease, Activate,
      RollbackRead, RollbackChange, releaseVars, activationVars

(* A worker that repeats what it advertised.                               *)
LEMMA HeartbeatInv ==
    ASSUME ActivationInv, NEW w \in Worker,
           RegisterWorker(w, advertised[w], healthy[w], now)
    PROVE  ActivationInv' /\ AuditGrows
<1>1. ActivationTypeOK  BY DEF ActivationInv
<1>2. /\ now \in Nat /\ advertised[w] \in SUBSET Release /\ healthy[w] \in BOOLEAN
      /\ audit \in Seq(AuditRow) /\ Len(audit) \in Nat
  BY <1>1 DEF ActivationTypeOK
<1>3. ActivationTypeOK'
  BY <1>1, <1>2 DEF RegisterWorker, ActivationTypeOK, releaseVars
<1>4. UNCHANGED releaseVars  BY DEF RegisterWorker
<1> QED  BY <1>2, <1>3, <1>4, QuietInv DEF AuditGrows, releaseVars

LEMMA ActivationNextInv ==
    ASSUME ActivationInv, ActivationNext
    PROVE  ActivationInv' /\ AuditGrows
  BY ActivationStep, NextInv

(* What is known of the pointer while it is there.                         *)
LEMMA PointerFacts ==
    ASSUME ActivationInv
    PROVE  /\ audit \in Seq(AuditRow) /\ Len(audit) \in Nat
           /\ activeEpoch = Len(audit)
           /\ activeRelease \in Release \cup {NoRelease}
           /\ NoRelease \notin Release
           /\ activeRelease # NoRelease =>
                 /\ activeRelease \in Release
                 /\ activeEpoch \in 1..Len(audit)
                 /\ audit[activeEpoch].release = activeRelease
  BY ActivationAssumption
  DEF ActivationInv, ActivationTypeOK, PointerFollowsAudit

-----------------------------------------------------------------------------
(* Steps of one kind *)

(* Steps of the registry leave recovery alone; an activation adds a plan.  *)
LEMMA PointerKeeps ==
    ASSUME RecoveryInductive, AuditGrows,
           UNCHANGED <<snapshots, pages, parsed, replays, network, campaign,
                       legacy, batches>>,
           planning' \in SUBSET [release : Release, epoch : Nat]
    PROVE  RecoveryInductive'
<1> USE DEF RecoveryInductive
<1>1. RecoveryTypes'  BY DEF RecoveryTypes
<1>2. PagesKnown' /\ ReplayKeepsExpiry' /\ TasksKeepExpiry'
  BY DEF PagesKnown, ReplayKeepsExpiry, TasksKeepExpiry
<1>3. ResultsAudited'  BY DEF ResultsAudited, AuditGrows
<1>4. TasksNeedPointer'  BY DEF TasksNeedPointer, AuditGrows
<1>5. BatchesCounted' /\ BatchesInOrder'  BY DEF BatchesCounted, BatchesInOrder
<1> QED  BY <1>1, <1>2, <1>3, <1>4, <1>5

(* Storing a new result of a known or a new capture under the pointer.     *)
LEMMA ResultKeeps ==
    ASSUME ActivationInv, RecoveryInductive, activeRelease # NoRelease,
           NEW row \in ParsedRow, parsed' = Append(parsed, row),
           row.release = activeRelease, row.epoch = activeEpoch,
           pages' \in Seq(Capture), Len(pages) <= Len(pages'),
           \A p \in 1..Len(pages) : pages'[p] = pages[p],
           row.page \in 1..Len(pages'),
           row.expires = pages'[row.page].fetched + TwoYears,
           replays' \in SUBSET ReplayTask,
           \A t \in replays' : \E u \in replays : t.page = u.page /\ t.expires = u.expires,
           network' \in Seq(NetworkTask),
           UNCHANGED <<activationVars, snapshots, campaign, legacy, planning,
                       batches>>
    PROVE  RecoveryInductive'
<1> USE DEF RecoveryInductive
<1>0. /\ parsed \in Seq(ParsedRow) /\ Len(parsed) \in Nat
      /\ pages \in Seq(Capture) /\ Len(pages) \in Nat /\ Len(pages') \in Nat
  BY DEF RecoveryTypes
<1>1. /\ parsed' \in Seq(ParsedRow) /\ Len(parsed') = Len(parsed) + 1
      /\ parsed'[Len(parsed) + 1] = row
      /\ \A i \in 1..Len(parsed) : parsed'[i] = parsed[i]
  BY <1>0
<1>2. RecoveryTypes'  BY <1>1 DEF RecoveryTypes
<1>3. PagesKnown'
  <2>1. ASSUME NEW i \in 1..Len(parsed')
        PROVE  parsed'[i].page \in 1..Len(pages')
    <3>1. CASE i = Len(parsed) + 1  BY <1>1, <3>1
    <3>2. CASE i \in 1..Len(parsed)
      <4>1. parsed[i].page \in 1..Len(pages)  BY <3>2 DEF PagesKnown
      <4> QED  BY <1>0, <1>1, <3>2, <4>1
    <3> QED  BY <1>0, <1>1, <3>1, <3>2
  <2>2. \A t \in replays' : t.page \in 1..Len(pages')
    <3>1. \A u \in replays : u.page \in 1..Len(pages)  BY DEF PagesKnown
    <3>2. \A u \in replays : u.page \in 1..Len(pages')  BY <1>0, <3>1
    <3> QED  BY <3>2
  <2> QED  BY <2>1, <2>2 DEF PagesKnown
<1>4. ResultsAudited'
  <2>1. audit' = audit /\ activeRelease' = activeRelease
    BY DEF activationVars, releaseVars
  <2>2. activeEpoch \in 1..Len(audit) /\ audit[activeEpoch].release = activeRelease
    BY PointerFacts
  <2> QED  BY <1>0, <1>1, <2>1, <2>2 DEF ResultsAudited
<1>5. ReplayKeepsExpiry'
  <2>1. ASSUME NEW i \in 1..Len(parsed')
        PROVE  parsed'[i].expires = pages'[parsed'[i].page].fetched + TwoYears
    <3>1. CASE i = Len(parsed) + 1  BY <1>1, <3>1
    <3>2. CASE i \in 1..Len(parsed)
      <4>1. parsed[i].page \in 1..Len(pages)  BY <3>2 DEF PagesKnown
      <4>2. i \in DOMAIN parsed  BY <1>0, <3>2
      <4>3. parsed[i].expires = pages[parsed[i].page].fetched + TwoYears
        BY <4>2 DEF ReplayKeepsExpiry
      <4> QED  BY <1>1, <3>2, <4>1, <4>3
    <3> QED  BY <1>0, <1>1, <3>1, <3>2
  <2> QED  BY <1>1, <2>1 DEF ReplayKeepsExpiry
<1>6. TasksKeepExpiry'
  <2>1. \A u \in replays : u.page \in 1..Len(pages)
                           /\ u.expires = pages[u.page].fetched + TwoYears
    BY DEF PagesKnown, TasksKeepExpiry
  <2> QED  BY <2>1 DEF TasksKeepExpiry
<1>7. TasksNeedPointer'
  BY DEF TasksNeedPointer, activationVars, releaseVars
<1>8. BatchesCounted' /\ BatchesInOrder'  BY DEF BatchesCounted, BatchesInOrder
<1> QED  BY <1>2, <1>3, <1>4, <1>5, <1>6, <1>7, <1>8

(* Other steps of recovery leave captures, results and pointer alone.      *)
LEMMA BacklogKeeps ==
    ASSUME RecoveryInductive, RecoveryTypes',
           UNCHANGED <<activationVars, pages, parsed>>,
           PagesKnown', TasksKeepExpiry', TasksNeedPointer', BatchesCounted',
           BatchesInOrder'
    PROVE  RecoveryInductive'
  BY DEF RecoveryInductive, ResultsAudited, ReplayKeepsExpiry, activationVars,
         releaseVars

-----------------------------------------------------------------------------
(* Captures and replays *)

LEMMA CapturedIsNat ==
    ASSUME ActivationInv, NEW f \in Captured
    PROVE  f \in Nat
  BY DEF Captured, ActivationInv, ActivationTypeOK

LEMMA StoreKeeps ==
    ASSUME ActivationInv, RecoveryInductive, activeRelease # NoRelease,
           NEW l \in Listing, NEW s \in Nat, NEW f \in Captured,
           NEW missing \in BOOLEAN, NEW uploaded \in BOOLEAN,
           Store(l, s, f, missing, uploaded), network' \in Seq(NetworkTask),
           UNCHANGED <<activationVars, snapshots, replays, campaign, legacy,
                       planning, batches>>
    PROVE  RecoveryInductive'
<1> DEFINE capture == [listing |-> l, snapshot |-> s, fetched |-> f]
           row == [page |-> Len(pages) + 1, release |-> activeRelease,
                   epoch |-> activeEpoch, missing |-> missing, replay |-> FALSE,
                   artifact |-> missing /\ uploaded,
                   artifactUntil |-> IF missing THEN f + ThirtyDays ELSE 0,
                   expires |-> f + TwoYears]
<1>0. f \in Nat /\ f + ThirtyDays \in Nat /\ f + TwoYears \in Nat
  BY CapturedIsNat, RecoveryAssumption
<1>1. pages \in Seq(Capture) /\ Len(pages) \in Nat /\ replays \in SUBSET ReplayTask
  BY DEF RecoveryInductive, RecoveryTypes
<1>2. activeRelease \in Release /\ activeEpoch \in Nat
  BY PointerFacts DEF ActivationInv, ActivationTypeOK
<1>3. pages' = Append(pages, capture) /\ parsed' = Append(parsed, row)
  BY DEF Store
<1>4. capture \in Capture  BY <1>0 DEF Capture
<1>5. /\ pages' \in Seq(Capture) /\ Len(pages') = Len(pages) + 1
      /\ pages'[Len(pages) + 1].fetched = f
      /\ \A p \in 1..Len(pages) : pages'[p] = pages[p]
  BY <1>1, <1>3, <1>4
<1>6. /\ row \in ParsedRow /\ row.page = Len(pages) + 1
      /\ row.release = activeRelease /\ row.epoch = activeEpoch
      /\ row.expires = f + TwoYears
  <2>1. (missing /\ uploaded) \in BOOLEAN  OBVIOUS
  <2>2. (IF missing THEN f + ThirtyDays ELSE 0) \in Nat  BY <1>0
  <2> QED  BY <1>0, <1>1, <1>2, <2>1, <2>2 DEF ParsedRow
<1>7. /\ replays' \in SUBSET ReplayTask
      /\ \A t \in replays' : \E u \in replays : t.page = u.page /\ t.expires = u.expires
  BY <1>1
<1>8. Len(pages) <= Len(pages') /\ row.page \in 1..Len(pages')
      /\ row.expires = pages'[row.page].fetched + TwoYears
  BY <1>1, <1>5, <1>6
<1> HIDE DEF row, capture
<1> QED  BY <1>3, <1>5, <1>6, <1>7, <1>8, ResultKeeps

LEMMA LiveCaptureKeeps ==
    ASSUME ActivationInv, RecoveryInductive, NEW l \in Listing, NEW f \in Captured,
           NEW missing \in BOOLEAN, NEW uploaded \in BOOLEAN,
           LiveCapture(l, f, missing, uploaded)
    PROVE  RecoveryInductive'
<1>1. snapshots[l] \in Nat /\ network \in Seq(NetworkTask)
  BY DEF RecoveryInductive, RecoveryTypes
<1> QED  BY <1>1, StoreKeeps DEF LiveCapture

LEMMA NetworkCaptureKeeps ==
    ASSUME ActivationInv, RecoveryInductive, NEW n \in DOMAIN network,
           NEW f \in Captured, NEW missing \in BOOLEAN, NEW uploaded \in BOOLEAN,
           NetworkCapture(n, f, missing, uploaded)
    PROVE  RecoveryInductive'
<1>1. network \in Seq(NetworkTask)  BY DEF RecoveryInductive, RecoveryTypes
<1>2. network[n] \in NetworkTask  BY <1>1
<1>3. network[n].listing \in Listing /\ network[n].snapshot \in Nat
  BY <1>2 DEF NetworkTask
<1>4. [network[n] EXCEPT !.state = "succeeded"] \in NetworkTask
  BY <1>2 DEF NetworkTask
<1>5. network' = [network EXCEPT ![n] = [network[n] EXCEPT !.state = "succeeded"]]
  BY DEF NetworkCapture
<1>6. network' \in Seq(NetworkTask)  BY <1>1, <1>4, <1>5
<1>7. activeRelease # NoRelease
  <2>1. network # <<>>  BY <1>1
  <2> QED  BY <2>1 DEF RecoveryInductive, TasksNeedPointer
<1> QED  BY <1>3, <1>6, <1>7, StoreKeeps DEF NetworkCapture

(* A replay task that ends keeps its capture and its expiry.               *)
LEMMA EndedTask ==
    ASSUME RecoveryTypes, NEW t \in replays, NEW state \in {"succeeded", "failed"},
           replays' = (replays \ {t}) \cup {[t EXCEPT !.state = state]}
    PROVE  /\ replays' \in SUBSET ReplayTask
           /\ \A u \in replays' : \E v \in replays :
                 u.page = v.page /\ u.expires = v.expires
<1>1. t \in ReplayTask  BY DEF RecoveryTypes
<1>2. /\ [t EXCEPT !.state = state] \in ReplayTask
      /\ [t EXCEPT !.state = state].page = t.page
      /\ [t EXCEPT !.state = state].expires = t.expires
  BY <1>1 DEF ReplayTask
<1> QED  BY <1>2 DEF RecoveryTypes

LEMMA ReplayArtifactKeeps ==
    ASSUME ActivationInv, RecoveryInductive, NEW t \in replays,
           NEW missing \in BOOLEAN, ReplayArtifact(t, missing)
    PROVE  RecoveryInductive'
<1> DEFINE until == IF missing THEN Shorter(ReplayExpiry(t), now + ThirtyDays) ELSE 0
           row == [page |-> t.page, release |-> activeRelease, epoch |-> activeEpoch,
                   missing |-> missing, replay |-> TRUE, artifact |-> missing,
                   artifactUntil |-> until, expires |-> ReplayExpiry(t)]
<1>1. /\ RecoveryTypes /\ t \in ReplayTask /\ pages \in Seq(Capture)
      /\ network \in Seq(NetworkTask)
  BY DEF RecoveryInductive, RecoveryTypes
<1>2. /\ t.page \in 1..Len(pages)
      /\ t.expires = pages[t.page].fetched + TwoYears
  BY DEF RecoveryInductive, PagesKnown, TasksKeepExpiry
<1>3. activeRelease # NoRelease  BY DEF RecoveryInductive, TasksNeedPointer
<1>4. activeRelease \in Release /\ activeEpoch \in Nat /\ now \in Nat
  BY <1>3, PointerFacts DEF ActivationInv, ActivationTypeOK
<1>5. /\ row \in ParsedRow /\ row.page = t.page
      /\ row.release = activeRelease /\ row.epoch = activeEpoch
      /\ row.expires = t.expires
  <2>1. t.page \in Nat /\ t.expires \in Nat  BY <1>1 DEF ReplayTask
  <2>2. until \in Nat  BY <1>4, <2>1, RecoveryAssumption DEF Shorter, ReplayExpiry
  <2> QED  BY <1>4, <2>1, <2>2 DEF ParsedRow, ReplayExpiry
<1>6. parsed' = Append(parsed, row)  BY DEF ReplayArtifact
<1>7. /\ replays' \in SUBSET ReplayTask
      /\ \A u \in replays' : \E v \in replays :
            u.page = v.page /\ u.expires = v.expires
  BY <1>1, EndedTask DEF ReplayArtifact
<1>8. pages' = pages /\ network' = network
      /\ UNCHANGED <<activationVars, snapshots, campaign, legacy, planning, batches>>
  BY DEF ReplayArtifact
<1>9. /\ row.page \in 1..Len(pages') /\ Len(pages) <= Len(pages')
      /\ row.expires = pages'[row.page].fetched + TwoYears
      /\ pages' \in Seq(Capture) /\ network' \in Seq(NetworkTask)
  BY <1>1, <1>2, <1>5, <1>8
<1> HIDE DEF row
<1> QED  BY <1>3, <1>5, <1>6, <1>7, <1>8, <1>9, ResultKeeps

LEMMA ReplayFailsKeeps ==
    ASSUME RecoveryInductive, NEW t \in replays, ReplayFails(t)
    PROVE  RecoveryInductive'
<1>1. RecoveryTypes  BY DEF RecoveryInductive
<1>2. /\ replays' \in SUBSET ReplayTask
      /\ \A u \in replays' : \E v \in replays :
            u.page = v.page /\ u.expires = v.expires
  BY <1>1, EndedTask DEF ReplayFails
<1>3. UNCHANGED <<activationVars, snapshots, pages, parsed, network, campaign,
                  legacy, planning, batches>>
  BY DEF ReplayFails
<1>4. RecoveryTypes'  BY <1>1, <1>2, <1>3 DEF RecoveryTypes
<1>5. PagesKnown' /\ TasksKeepExpiry'
  BY <1>2, <1>3 DEF RecoveryInductive, PagesKnown, TasksKeepExpiry
<1>6. TasksNeedPointer'
  BY <1>3 DEF RecoveryInductive, TasksNeedPointer, activationVars, releaseVars
<1>7. BatchesCounted' /\ BatchesInOrder'
  BY <1>3 DEF RecoveryInductive, BatchesCounted, BatchesInOrder
<1> QED  BY <1>3, <1>4, <1>5, <1>6, <1>7, BacklogKeeps

-----------------------------------------------------------------------------
(* Plans, observations and the backlog *)

LEMMA PlanKeeps ==
    ASSUME ActivationInv, RecoveryInductive, NEW plan \in planning,
           PlanArtifactRecovery(plan)
    PROVE  RecoveryInductive'
<1>1. RecoveryTypes  BY DEF RecoveryInductive
<1>2. UNCHANGED <<activationVars, snapshots, pages, parsed, network, campaign,
                  legacy, batches>>
      /\ planning' = planning \ {plan}
  BY DEF PlanArtifactRecovery
<1>3. \/ replays' = replays
      \/ /\ StillActive(plan)
         /\ \A t \in replays' \ replays : \E i \in DOMAIN parsed :
               t = [page |-> parsed[i].page, key |-> plan.release,
                    expires |-> parsed[i].expires, state |-> "pending"]
         /\ replays \subseteq replays'
  BY DEF PlanArtifactRecovery
<1>4. plan.release \in Release  BY <1>1 DEF RecoveryTypes
<1>5. \A i \in DOMAIN parsed :
         /\ parsed[i] \in ParsedRow
         /\ parsed[i].page \in 1..Len(pages)
         /\ parsed[i].expires = pages[parsed[i].page].fetched + TwoYears
  BY <1>1 DEF RecoveryTypes, RecoveryInductive, PagesKnown, ReplayKeepsExpiry
<1>6. \A t \in replays' \ replays :
         /\ t \in ReplayTask
         /\ t.page \in 1..Len(pages)
         /\ t.expires = pages[t.page].fetched + TwoYears
  <2> SUFFICES ASSUME NEW t \in replays' \ replays
               PROVE  /\ t \in ReplayTask
                      /\ t.page \in 1..Len(pages)
                      /\ t.expires = pages[t.page].fetched + TwoYears
    OBVIOUS
  <2>1. PICK i \in DOMAIN parsed :
               t = [page |-> parsed[i].page, key |-> plan.release,
                    expires |-> parsed[i].expires, state |-> "pending"]
    BY <1>3
  <2>2. parsed[i].page \in Nat /\ parsed[i].expires \in Nat
    BY <1>5 DEF ParsedRow
  <2> QED  BY <1>4, <1>5, <2>1, <2>2 DEF ReplayTask
<1>7. RecoveryTypes'
  <2>1. replays \in SUBSET ReplayTask  BY <1>1 DEF RecoveryTypes
  <2>2. replays' \in SUBSET ReplayTask  BY <1>6, <2>1
  <2> QED  BY <1>1, <1>2, <2>2 DEF RecoveryTypes
<1>8. PagesKnown' /\ TasksKeepExpiry'
  <2>1. \A t \in replays : t.page \in 1..Len(pages)
                           /\ t.expires = pages[t.page].fetched + TwoYears
    BY DEF RecoveryInductive, PagesKnown, TasksKeepExpiry
  <2>2. \A t \in replays' : t.page \in 1..Len(pages)
                            /\ t.expires = pages[t.page].fetched + TwoYears
    BY <1>6, <2>1
  <2> QED  BY <1>2, <2>2 DEF RecoveryInductive, PagesKnown, TasksKeepExpiry
<1>9. TasksNeedPointer'
  <2>1. activeRelease' = activeRelease /\ network' = network
    BY <1>2 DEF activationVars, releaseVars
  <2>2. StillActive(plan) => activeRelease # NoRelease
    BY <1>4, ActivationAssumption DEF StillActive
  <2> QED  BY <1>3, <2>1, <2>2 DEF RecoveryInductive, TasksNeedPointer
<1>10. BatchesCounted' /\ BatchesInOrder'
  BY <1>2 DEF RecoveryInductive, BatchesCounted, BatchesInOrder
<1> QED  BY <1>2, <1>7, <1>8, <1>9, <1>10, BacklogKeeps

(* A lost plan and a new snapshot change nothing the others rest on.       *)
LEMMA ObserveKeeps ==
    ASSUME RecoveryInductive, RecoveryTypes',
           UNCHANGED <<activationVars, pages, parsed, replays, network, campaign,
                       batches>>
    PROVE  RecoveryInductive'
<1>1. PagesKnown' /\ TasksKeepExpiry'
  BY DEF RecoveryInductive, PagesKnown, TasksKeepExpiry
<1>2. TasksNeedPointer'
  BY DEF RecoveryInductive, TasksNeedPointer, activationVars, releaseVars
<1>3. BatchesCounted' /\ BatchesInOrder'
  BY DEF RecoveryInductive, BatchesCounted, BatchesInOrder
<1> QED  BY <1>1, <1>2, <1>3, BacklogKeeps

LEMMA SupersedeKeeps ==
    ASSUME ActivationInv, RecoveryInductive, NEW locked \in SUBSET legacy,
           SupersedeLegacy(locked)
    PROVE  RecoveryInductive'
<1> DEFINE new == {l \in locked : \A n \in DOMAIN network :
                      ~(network[n].listing = l /\ network[n].key = activeRelease)}
           held == {[listing |-> l, key |-> activeRelease, snapshot |-> snapshots[l],
                     state |-> "held"] : l \in new}
<1>1. RecoveryTypes  BY DEF RecoveryInductive
<1>2. activeRelease \in Release  BY PointerFacts DEF SupersedeLegacy
<1>3. new \subseteq Listing  BY <1>1 DEF RecoveryTypes
<1>4. held \subseteq NetworkTask
  BY <1>1, <1>2, <1>3 DEF RecoveryTypes, NetworkTask
<1>5. IsFiniteSet(held)
  <2>1. IsFiniteSet(new)  BY <1>3, FS_Subset, RecoveryAssumption
  <2> DEFINE row == [l \in new |-> [listing |-> l, key |-> activeRelease,
                                   snapshot |-> snapshots[l], state |-> "held"]]
  <2>2. row \in [new -> held] /\ \A t \in held : \E l \in new : row[l] = t
    <3> HIDE DEF new
    <3> QED  OBVIOUS
  <2>3. row \in Surjection(new, held)
    <3> HIDE DEF row, new, held
    <3> QED  BY <2>2 DEF Surjection
  <2> HIDE DEF row, new, held
  <2> QED  BY <2>1, <2>3, FS_Surjection
<1>6. network' = network \o SetToSeq(held)  BY DEF SupersedeLegacy
<1>7. network' \in Seq(NetworkTask)
  <2> HIDE DEF held, new
  <2>1. SetToSeq(held) \in Seq(held)  BY <1>5, SetToSeqType
  <2>2. SetToSeq(held) \in Seq(NetworkTask)  BY <1>4, <2>1
  <2>3. network \in Seq(NetworkTask)  BY <1>1 DEF RecoveryTypes
  <2> QED  BY <1>6, <2>2, <2>3
<1> HIDE DEF held, new
<1>8. UNCHANGED <<activationVars, snapshots, pages, parsed, replays, campaign,
                  planning, batches>> /\ legacy' = legacy \ locked
  BY DEF SupersedeLegacy
<1>9. RecoveryTypes'  BY <1>1, <1>7, <1>8 DEF RecoveryTypes
<1>10. PagesKnown' /\ TasksKeepExpiry'
  BY <1>8 DEF RecoveryInductive, PagesKnown, TasksKeepExpiry
<1>11. TasksNeedPointer'
  BY <1>8 DEF SupersedeLegacy, TasksNeedPointer, activationVars, releaseVars
<1>12. BatchesCounted' /\ BatchesInOrder'
  BY <1>8 DEF RecoveryInductive, BatchesCounted, BatchesInOrder
<1> QED  BY <1>8, <1>9, <1>10, <1>11, <1>12, BacklogKeeps

LEMMA BatchCountIsNat ==
    ASSUME RecoveryTypes, NEW b \in 0..Len(BatchSizes)
    PROVE  BatchCount(b) \in Nat
<1>1. IsFiniteSet(HeldTasks)
  <2>1. network \in Seq(NetworkTask)  BY DEF RecoveryTypes
  <2>2. HeldTasks \subseteq 1..Len(network) /\ Len(network) \in Nat
    BY <2>1 DEF HeldTasks
  <2>3. \A n \in HeldTasks : n <= Len(network)  BY <2>2
  <2>4. HeldTasks \in SUBSET Nat  BY <2>2
  <2> QED  BY <2>2, <2>3, <2>4, FS_BoundedSetOfNaturals
<1>2. Cardinality(HeldTasks) \in Nat  BY <1>1, FS_CardinalityType
<1>3. BatchSizes \in Seq(Nat) /\ Len(BatchSizes) \in Nat  BY RecoveryAssumption
<1>4. b < Len(BatchSizes) => BatchSizes[b + 1] \in Nat  BY <1>3
<1> QED  BY <1>2, <1>3, <1>4 DEF BatchCount, Shorter

LEMMA ReleaseBatchKeeps ==
    ASSUME ActivationInv, RecoveryInductive, NEW b \in 0..Len(BatchSizes),
           ReleaseNetworkBatch(b)
    PROVE  RecoveryInductive'
<1> DEFINE row == [release |-> activeRelease, batch |-> b, count |-> BatchCount(b)]
<1>1. RecoveryTypes  BY DEF RecoveryInductive
<1>2. activeRelease \in Release  BY PointerFacts DEF ReleaseNetworkBatch
<1>3. b \in Nat /\ BatchCount(b) \in Nat  BY <1>1, BatchCountIsNat, RecoveryAssumption
<1>4. b = campaign[activeRelease].next
  BY DEF ReleaseNetworkBatch, NextBatch
<1>5. /\ row \in BatchRow /\ row.release = activeRelease /\ row.batch = b
      /\ batches' = Append(batches, row)
  BY <1>2, <1>3 DEF BatchRow, ReleaseNetworkBatch
<1>6. batches \in Seq(BatchRow) /\ Len(batches) \in Nat  BY <1>1 DEF RecoveryTypes
<1> HIDE DEF row
<1>7. /\ batches' \in Seq(BatchRow) /\ Len(batches') = Len(batches) + 1
      /\ batches'[Len(batches) + 1] = row
      /\ \A i \in 1..Len(batches) : batches'[i] = batches[i]
  BY <1>5, <1>6
<1>8. /\ campaign' \in [Release -> [next : Nat, paused : BOOLEAN]]
      /\ \A r \in Release :
            campaign'[r].next = IF r = activeRelease THEN campaign[r].next + 1
                                                     ELSE campaign[r].next
  <2>1. campaign \in [Release -> [next : Nat, paused : BOOLEAN]]
    BY <1>1 DEF RecoveryTypes
  <2>2. campaign' = [campaign EXCEPT ![activeRelease] =
            [campaign[activeRelease] EXCEPT !.next = campaign[activeRelease].next + 1]]
    BY DEF ReleaseNetworkBatch
  <2>3. [campaign[activeRelease] EXCEPT !.next = campaign[activeRelease].next + 1]
            \in [next : Nat, paused : BOOLEAN]
    BY <1>2, <2>1
  <2> QED  BY <1>2, <2>1, <2>2, <2>3
<1>9. network' \in Seq(NetworkTask)
  <2>1. network \in Seq(NetworkTask) /\ Len(network) \in Nat
        /\ DOMAIN network = 1..Len(network)
    BY <1>1 DEF RecoveryTypes
  <2>2. \A n \in DOMAIN network :
           /\ network[n] \in NetworkTask
           /\ [network[n] EXCEPT !.state = "pending"] \in NetworkTask
    <3>1. ASSUME NEW t \in NetworkTask
          PROVE  [t EXCEPT !.state = "pending"] \in NetworkTask
      BY DEF NetworkTask
    <3>2. \A n \in DOMAIN network : network[n] \in NetworkTask  BY <2>1
    <3> QED  BY <3>1, <3>2
  <2>3. network' = [n \in DOMAIN network |->
          IF OldestHeld(n, BatchCount(b))
          THEN [network[n] EXCEPT !.state = "pending"] ELSE network[n]]
    BY DEF ReleaseNetworkBatch
  <2>4. network' \in [1..Len(network) -> NetworkTask]  BY <2>1, <2>2, <2>3
  <2> QED  BY <2>1, <2>4
<1>10. UNCHANGED <<activationVars, snapshots, pages, parsed, replays, legacy,
                   planning>>
  BY DEF ReleaseNetworkBatch
<1>11. RecoveryTypes'  BY <1>1, <1>7, <1>8, <1>9, <1>10 DEF RecoveryTypes
<1>12. PagesKnown' /\ TasksKeepExpiry'
  BY <1>10 DEF RecoveryInductive, PagesKnown, TasksKeepExpiry
<1>13. TasksNeedPointer'
  BY <1>10 DEF ReleaseNetworkBatch, TasksNeedPointer, activationVars, releaseVars
<1>14. \A i \in 1..Len(batches) :
          /\ batches[i].release \in Release /\ batches[i].batch \in Nat
          /\ batches[i].batch < campaign[batches[i].release].next
          /\ campaign[batches[i].release].next \in Nat
  <2>1. ASSUME NEW i \in 1..Len(batches)
        PROVE  batches[i].release \in Release /\ batches[i].batch \in Nat
    <3>1. batches[i] \in BatchRow  BY <1>6
    <3> QED  BY <3>1 DEF BatchRow
  <2>2. \A r \in Release : campaign[r].next \in Nat  BY <1>1 DEF RecoveryTypes
  <2> QED  BY <2>1, <2>2 DEF RecoveryInductive, BatchesCounted
<1>15. BatchesCounted'
  <2>1. ASSUME NEW i \in 1..Len(batches')
        PROVE  batches'[i].batch < campaign'[batches'[i].release].next
    <3>1. CASE i = Len(batches) + 1
      <4>1. campaign'[activeRelease].next = b + 1  BY <1>2, <1>4, <1>8
      <4> QED  BY <1>3, <1>5, <1>7, <3>1, <4>1
    <3>2. CASE i \in 1..Len(batches)
      BY <1>7, <1>8, <1>14, <3>2
    <3> QED  BY <1>6, <1>7, <3>1, <3>2
  <2> QED  BY <2>1 DEF BatchesCounted
<1>16. BatchesInOrder'
  <2>1. ASSUME NEW i \in 1..Len(batches'), NEW j \in 1..Len(batches'),
               i < j, batches'[i].release = batches'[j].release
        PROVE  batches'[i].batch < batches'[j].batch
    <3>1. i \in 1..Len(batches)  BY <1>6, <1>7, <2>1
    <3>2. CASE j = Len(batches) + 1
      BY <1>4, <1>5, <1>7, <1>14, <2>1, <3>1, <3>2
    <3>3. CASE j \in 1..Len(batches)
      <4>1. DOMAIN batches = 1..Len(batches)  BY <1>6
      <4>2. batches[i].batch < batches[j].batch
        BY <1>7, <2>1, <3>1, <3>3, <4>1 DEF RecoveryInductive, BatchesInOrder
      <4> QED  BY <1>7, <3>1, <3>3, <4>2
    <3> QED  BY <1>6, <1>7, <3>2, <3>3
  <2>2. DOMAIN batches' = 1..Len(batches')  BY <1>7
  <2> QED  BY <2>1, <2>2 DEF BatchesInOrder
<1> QED  BY <1>10, <1>11, <1>12, <1>13, <1>15, <1>16, BacklogKeeps

LEMMA PauseKeeps ==
    ASSUME RecoveryInductive, NEW r \in Release, PauseNetworkRecovery(r)
    PROVE  RecoveryInductive'
<1>1. RecoveryTypes  BY DEF RecoveryInductive
<1>2. UNCHANGED <<activationVars, snapshots, pages, parsed, replays, network,
                  legacy, planning, batches>>
  BY DEF PauseNetworkRecovery
<1>3. /\ campaign' \in [Release -> [next : Nat, paused : BOOLEAN]]
      /\ \A s \in Release : campaign'[s].next = campaign[s].next
  <2>1. campaign \in [Release -> [next : Nat, paused : BOOLEAN]]
    BY <1>1 DEF RecoveryTypes
  <2>2. campaign' = [campaign EXCEPT ![r] = [campaign[r] EXCEPT !.paused = TRUE]]
    BY DEF PauseNetworkRecovery
  <2>3. [campaign[r] EXCEPT !.paused = TRUE] \in [next : Nat, paused : BOOLEAN]
        /\ [campaign[r] EXCEPT !.paused = TRUE].next = campaign[r].next
    BY <2>1
  <2> QED  BY <2>1, <2>2, <2>3
<1>4. RecoveryTypes'  BY <1>1, <1>2, <1>3 DEF RecoveryTypes
<1>5. PagesKnown' /\ TasksKeepExpiry'
  BY <1>2 DEF RecoveryInductive, PagesKnown, TasksKeepExpiry
<1>6. TasksNeedPointer'
  BY <1>2 DEF RecoveryInductive, TasksNeedPointer, activationVars, releaseVars
<1>7. BatchesInOrder'  BY <1>2 DEF RecoveryInductive, BatchesInOrder
<1>8. BatchesCounted'
  <2>1. ASSUME NEW i \in 1..Len(batches)
        PROVE  batches[i].release \in Release
    <3>1. batches[i] \in BatchRow  BY <1>1 DEF RecoveryTypes
    <3> QED  BY <3>1 DEF BatchRow
  <2> QED  BY <1>2, <1>3, <2>1 DEF RecoveryInductive, BatchesCounted
<1> QED  BY <1>2, <1>4, <1>5, <1>6, <1>7, <1>8, BacklogKeeps

-----------------------------------------------------------------------------
(* The invariant *)

LEMMA RecoveryInitInductive ==
    ASSUME ActivationInit, RecoveryInit
    PROVE  RecoveryInductive
<1> USE DEF RecoveryInit
<1>1. RecoveryTypes  BY DEF RecoveryTypes
<1>2. PagesKnown /\ ReplayKeepsExpiry /\ TasksKeepExpiry /\ BatchesInOrder
  BY DEF PagesKnown, ReplayKeepsExpiry, TasksKeepExpiry, BatchesInOrder
<1>3. ResultsAudited /\ TasksNeedPointer /\ BatchesCounted
  BY DEF ResultsAudited, TasksNeedPointer, BatchesCounted
<1> QED  BY <1>1, <1>2, <1>3 DEF RecoveryInductive

(* Steps that move the pointer or look at it.                              *)
LEMMA PointerStepKeeps ==
    ASSUME ActivationInv, RecoveryInductive, PointerStep \/ RegistryNext
    PROVE  ActivationInv' /\ RecoveryInductive'
<1>0. planning \in SUBSET [release : Release, epoch : Nat]
  BY DEF RecoveryInductive, RecoveryTypes
<1>1. ASSUME ActivationNext, UNCHANGED recoveryVars
      PROVE  ActivationInv' /\ RecoveryInductive'
  BY <1>0, <1>1, ActivationNextInv, PointerKeeps DEF recoveryVars
<1>2. ASSUME NEW r \in Release, NEW at \in Captured, ActivateThenPlan(r, at)
      PROVE  ActivationInv' /\ RecoveryInductive'
  <2>1. ActivationNext  BY <1>2 DEF ActivateThenPlan, ActivationNext
  <2>2. activeEpoch + 1 \in Nat  BY DEF ActivationInv, ActivationTypeOK
  <2>3. planning' \in SUBSET [release : Release, epoch : Nat]
    BY <1>0, <1>2, <2>2 DEF ActivateThenPlan
  <2> QED  BY <1>2, <2>1, <2>3, ActivationNextInv, PointerKeeps DEF ActivateThenPlan
<1>3. ASSUME NEW w \in Worker,
             RegisterWorker(w, advertised[w], healthy[w], now),
             UNCHANGED recoveryVars
      PROVE  ActivationInv' /\ RecoveryInductive'
  BY <1>0, <1>3, HeartbeatInv, PointerKeeps DEF recoveryVars
<1>4. ASSUME Tick \/ RollbackRead(activeEpoch), UNCHANGED recoveryVars
      PROVE  ActivationInv' /\ RecoveryInductive'
  <2>1. activeEpoch \in 0..activeEpoch  BY DEF ActivationInv, ActivationTypeOK
  <2>2. ActivationNext  BY <1>4, <2>1 DEF ActivationNext
  <2> QED  BY <1>1, <1>4, <2>2
<1>5. ASSUME NEW plan \in rollbackPlans, NEW at \in Captured,
             RollbackChange(plan, at), UNCHANGED recoveryVars
      PROVE  ActivationInv' /\ RecoveryInductive'
  <2>1. ActivationNext  BY <1>5 DEF ActivationNext
  <2> QED  BY <1>1, <1>5, <2>1
<1> QED  BY <1>1, <1>2, <1>3, <1>4, <1>5 DEF PointerStep, RegistryNext

(* Steps of recovery itself leave the pointer alone.                       *)
LEMMA OwnStepKeeps ==
    ASSUME ActivationInv, RecoveryInductive,
           CaptureStep \/ ReplayStep \/ BacklogStep
    PROVE  UNCHANGED activationVars /\ RecoveryInductive'
<1>1. RecoveryTypes  BY DEF RecoveryInductive
<1>2. ASSUME NEW l \in Listing, Observe(l)
      PROVE  UNCHANGED activationVars /\ RecoveryInductive'
  <2>1. RecoveryTypes'  BY <1>1, <1>2 DEF Observe, RecoveryTypes
  <2> QED  BY <1>2, <2>1, ObserveKeeps DEF Observe
<1>3. ASSUME NEW plan \in planning, PlanLost(plan)
      PROVE  UNCHANGED activationVars /\ RecoveryInductive'
  <2>1. RecoveryTypes'  BY <1>1, <1>3 DEF PlanLost, RecoveryTypes
  <2> QED  BY <1>3, <2>1, ObserveKeeps DEF PlanLost
<1>4. ASSUME CaptureStep PROVE UNCHANGED activationVars /\ RecoveryInductive'
  BY <1>2, <1>4, LiveCaptureKeeps, NetworkCaptureKeeps
  DEF CaptureStep, LiveCapture, NetworkCapture
<1>5. ASSUME ReplayStep PROVE UNCHANGED activationVars /\ RecoveryInductive'
  BY <1>3, <1>5, PlanKeeps, ReplayArtifactKeeps, ReplayFailsKeeps
  DEF ReplayStep, PlanArtifactRecovery, ReplayArtifact, ReplayFails
<1>6. ASSUME BacklogStep PROVE UNCHANGED activationVars /\ RecoveryInductive'
  BY <1>6, SupersedeKeeps, ReleaseBatchKeeps, PauseKeeps
  DEF BacklogStep, SupersedeLegacy, ReleaseNetworkBatch, PauseNetworkRecovery
<1> QED  BY <1>4, <1>5, <1>6

LEMMA RecoveryNextInductive ==
    ActivationInv /\ RecoveryInductive /\ [RecoveryNext \/ RegistryNext]_recoverySystem
        => (ActivationInv /\ RecoveryInductive)'
<1> SUFFICES ASSUME ActivationInv, RecoveryInductive,
                    [RecoveryNext \/ RegistryNext]_recoverySystem
             PROVE  ActivationInv' /\ RecoveryInductive'
  OBVIOUS
<1>1. CASE UNCHANGED recoverySystem
  <2>1. ActivationInv' /\ AuditGrows
    BY <1>1, NextInv, ActivationStep DEF recoverySystem
  <2>2. planning' \in SUBSET [release : Release, epoch : Nat]
    BY <1>1 DEF recoverySystem, recoveryVars, RecoveryInductive, RecoveryTypes
  <2> QED  BY <1>1, <2>1, <2>2, PointerKeeps DEF recoverySystem, recoveryVars
<1>2. CASE PointerStep \/ RegistryNext  BY <1>2, PointerStepKeeps
<1>3. CASE CaptureStep \/ ReplayStep \/ BacklogStep
  BY <1>3, OwnStepKeeps, NextInv
<1> QED  BY <1>1, <1>2, <1>3 DEF RecoveryNext

(* Pointer, audit trail and recovery stay consistent with each other.      *)
THEOREM RecoveryInductiveAlways ==
    RecoverySpec => [](ActivationInv /\ RecoveryInductive)
<1>1. ActivationInit /\ RecoveryInit => ActivationInv /\ RecoveryInductive
  BY InitInv, RecoveryInitInductive
<1> QED  BY <1>1, RecoveryNextInductive, PTL DEF RecoverySpec

(* A result of a release that was not revoked counts: its epoch is in the  *)
(* audit trail under its release.                                          *)
LEMMA UnrevokedIsEffective ==
    ASSUME RecoveryInductive, ActivationInv, NEW i \in DOMAIN parsed,
           parsed[i].expires > now, status[parsed[i].release] # "revoked"
    PROVE  Effective(i)
<1>1. i \in 1..Len(parsed) /\ DOMAIN audit = 1..Len(audit)
  BY PointerFacts DEF RecoveryInductive, RecoveryTypes
<1> QED  BY <1>1 DEF RecoveryInductive, ResultsAudited, Effective

LEMMA OutcomeFacts ==
    ASSUME RecoveryInductive, NEW l, NEW s
    PROVE  LET rows == {i \in DOMAIN parsed : /\ pages[parsed[i].page].listing = l
                                              /\ pages[parsed[i].page].snapshot = s
                                              /\ Effective(i)}
           IN  IF rows = {} THEN EffectiveOutcome(l, s) = 0
               ELSE EffectiveOutcome(l, s) \in rows /\ EffectiveOutcome(l, s) # 0
<1> DEFINE rows == {i \in DOMAIN parsed : /\ pages[parsed[i].page].listing = l
                                          /\ pages[parsed[i].page].snapshot = s
                                          /\ Effective(i)}
<1>1. EffectiveOutcome(l, s)
         = IF rows = {} THEN 0 ELSE CHOOSE i \in rows : \A j \in rows : j <= i
  BY DEF EffectiveOutcome
<1>2. rows \in SUBSET (1..Len(parsed)) /\ Len(parsed) \in Nat
  BY DEF RecoveryInductive, RecoveryTypes
<1> HIDE DEF rows
<1>3. CASE rows # {}
  <2>1. \E i \in rows : \A j \in rows : j <= i  BY <1>2, <1>3, HasLargest
  <2>2. EffectiveOutcome(l, s) \in rows  BY <1>1, <1>3, <2>1
  <2> QED  BY <1>2, <1>3, <2>2 DEF rows
<1> QED  BY <1>1, <1>3 DEF rows

LEMMA RollbackKeepsOthersHolds ==
    ActivationInv /\ RecoveryInductive => RollbackKeepsOthers
<1> SUFFICES ASSUME ActivationInv, RecoveryInductive, NEW i \in DOMAIN parsed,
                    NEW l, NEW s, l = pages[parsed[i].page].listing,
                    s = pages[parsed[i].page].snapshot
             PROVE  /\ parsed[i].expires > now /\ status[parsed[i].release] # "revoked"
                          => EffectiveOutcome(l, s) # 0
                    /\ EffectiveOutcome(l, s) # 0
                          => status[parsed[EffectiveOutcome(l, s)].release] # "revoked"
  BY Zenon DEF RollbackKeepsOthers
<1> DEFINE rows == {j \in DOMAIN parsed : /\ pages[parsed[j].page].listing = l
                                          /\ pages[parsed[j].page].snapshot = s
                                          /\ Effective(j)}
<1>1. IF rows = {} THEN EffectiveOutcome(l, s) = 0
      ELSE EffectiveOutcome(l, s) \in rows /\ EffectiveOutcome(l, s) # 0
  BY OutcomeFacts
<1>2. parsed[i].expires > now /\ status[parsed[i].release] # "revoked" => i \in rows
  BY UnrevokedIsEffective
<1>3. \A j \in rows : status[parsed[j].release] # "revoked"  BY DEF Effective
<1> HIDE DEF rows
<1> QED  BY <1>1, <1>2, <1>3

(* Recovery keeps its promises: a rollback hides the results of the        *)
(* withdrawn release and no others, no replay prolongs the life of a       *)
(* value, and every release runs its batches once and in order.            *)
THEOREM RecoveryInvariantAlways == RecoverySpec => []RecoveryInvariant
<1>1. ActivationInv /\ RecoveryInductive => RecoveryInvariant
  BY RollbackKeepsOthersHolds DEF RecoveryInductive, RecoveryInvariant
<1> QED  BY <1>1, RecoveryInductiveAlways, PTL

(* A plan that comes late schedules nothing: every new replay is for the   *)
(* release that holds the pointer.                                         *)
THEOREM PlanIsForPointerAlways == RecoverySpec => PlanIsForPointer
<1> DEFINE ForPointer ==
      \A t \in replays' \ replays : t.state = "pending" => t.key = activeRelease
<1>1. ActivationInv /\ RecoveryInductive
        /\ [RecoveryNext \/ RegistryNext]_recoverySystem => [ForPointer]_recoverySystem
  <2> SUFFICES ASSUME RecoveryInductive, RecoveryNext \/ RegistryNext
               PROVE  ForPointer
    OBVIOUS
  <2>1. CASE replays' = replays  BY <2>1
  <2>2. ASSUME NEW plan \in planning, PlanArtifactRecovery(plan) PROVE ForPointer
    BY <2>2 DEF PlanArtifactRecovery, StillActive
  <2>3. ASSUME NEW u \in replays, NEW state \in {"succeeded", "failed"},
               replays' = (replays \ {u}) \cup {[u EXCEPT !.state = state]}
        PROVE  ForPointer
    <3>1. u \in ReplayTask  BY DEF RecoveryInductive, RecoveryTypes
    <3>2. [u EXCEPT !.state = state].state = state  BY <3>1 DEF ReplayTask
    <3> QED  BY <2>3, <3>2
  <2>4. ASSUME ReplayStep PROVE ForPointer
    BY <2>1, <2>2, <2>3, <2>4 DEF ReplayStep, PlanLost, ReplayArtifact, ReplayFails
  <2>5. ASSUME CaptureStep \/ BacklogStep PROVE replays' = replays
    BY <2>5
    DEF CaptureStep, BacklogStep, Observe, LiveCapture, NetworkCapture,
        SupersedeLegacy, ReleaseNetworkBatch, PauseNetworkRecovery
  <2>6. ASSUME PointerStep \/ RegistryNext PROVE replays' = replays
    BY <2>6 DEF PointerStep, RegistryNext, ActivateThenPlan, recoveryVars
  <2> QED  BY <2>1, <2>4, <2>5, <2>6 DEF RecoveryNext
<1> QED  BY <1>1, RecoveryInductiveAlways, PTL DEF RecoverySpec, PlanIsForPointer

=============================================================================
