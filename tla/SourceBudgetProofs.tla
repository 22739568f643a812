------------------------- MODULE SourceBudgetProofs -------------------------
(***************************************************************************)
(* Proofs about SourceBudget for every set of tasks, workers and routes,   *)
(* every calendar and every policy.                                        *)
(*                                                                         *)
(* A lease is known by its task and token (LeasesDistinct), so that no     *)
(* attempt at or above the current one has reached the network, except the *)
(* current one (StartsCounted), and a refused attempt that is given back   *)
(* never did (RefusedUnstarted).  On these the pacing (PacedNext) and the  *)
(* fallback a task owes (FallbackOwed) are inductive.  The allowance of a  *)
(* cycle needs that all instants belong to one cycle, the cooldown and the *)
(* daily ceiling that an operation works with the current time.            *)
(***************************************************************************)
EXTENDS SourceBudget, ScrapeQueueProofs, FiniteSetTheorems,
        WellFoundedInduction

SourceRow == [day : Nat, attempts : Nat, successes : Nat, nextStart : Nat,
              cooldown : Nat, denials : Nat]
LedgerRow == [allocated : Int, transferred : Nat]
FallbackRow == [pending : BOOLEAN, at : Nat]
ReplyRow == [lease : ScrapeLease, until : Nat,
             code : {"budget-exhausted", "source-cooldown"}]

-----------------------------------------------------------------------------
(* Facts about numbers and instants *)

LEMMA BudgetConstants ==
    /\ MinInterval \in Nat /\ MinInterval > 0
    /\ DailyAttempts \in Nat /\ DailyAttempts > 0
    /\ ProxyUsable \in Nat /\ ReserveBytes \in Nat /\ FallbackDelay \in Nat
    /\ RetryAfter \subseteq Nat
    /\ Route \subseteq Nat /\ 0 \notin Route
  BY BudgetAssumption

(* A nonempty set of numbers has a least member.                           *)
LEMMA MinIsLeast ==
    ASSUME NEW S \in SUBSET Nat, S # {}
    PROVE  Min(S) \in S /\ \A x \in S : Min(S) <= x
<1>1. \E x \in S : \A y \in S : <<y, x>> \notin OpToRel(<, Nat)
  BY WFMin, NatLessThanWellFounded, Zenon
<1>2. PICK x \in S : \A y \in S : <<y, x>> \notin OpToRel(<, Nat)  BY <1>1
<1>3. \A y \in S : ~(y < x)  BY <1>2, Zenon DEF OpToRel
<1>4. \A y \in S : x <= y  BY <1>3
<1> QED  BY <1>4 DEF Min

LEMMA InstantFacts ==
    ASSUME ActivationTypeOK, now \in Instant, NEW at \in Captured
    PROVE  /\ at \in Nat /\ at \in Instant /\ at <= now
           /\ CycleOf[at] \in Cycle /\ DayOf[at] \in Nat /\ CycleOf[at] \in Nat
  BY BudgetAssumption, ActivationAssumption
  DEF Captured, ActivationTypeOK, Instant, Cycle

LEMMA LaterIsNat ==
    ASSUME NEW a \in Nat, NEW b \in Nat
    PROVE  /\ Later(a, b) \in Nat /\ Later(a, b) >= a /\ Later(a, b) >= b
           /\ Later(a, b) \in {a, b}
  BY DEF Later

LEMMA CooldownIsNat ==
    ASSUME NEW n \in Nat
    PROVE  /\ Smaller(n, 2) + 1 \in 1..3
           /\ Cooldown[Smaller(n, 2) + 1] \in Nat
  BY BudgetAssumption DEF Smaller

(* More denials never make a cooldown shorter.                             *)
LEMMA CooldownGrows ==
    ASSUME NEW m \in Nat, NEW n \in Nat, m <= n
    PROVE  Cooldown[Smaller(m, 2) + 1] <= Cooldown[Smaller(n, 2) + 1]
<1>1. Cooldown[1] \in Nat /\ Cooldown[2] \in Nat /\ Cooldown[3] \in Nat
  BY BudgetAssumption
<1>2. /\ Smaller(m, 2) \in {0, 1, 2} /\ Smaller(n, 2) \in {0, 1, 2}
      /\ Smaller(m, 2) <= Smaller(n, 2)
  BY DEF Smaller
<1> DEFINE i == Smaller(m, 2)  j == Smaller(n, 2)
<1> HIDE DEF i, j
<1>3. i \in {0, 1, 2} /\ j \in {0, 1, 2} /\ i <= j  BY <1>2 DEF i, j
<1>4. Cooldown[i + 1] <= Cooldown[j + 1]
  BY <1>1, <1>3, BudgetAssumption
<1> QED  BY <1>4 DEF i, j

-----------------------------------------------------------------------------
(* Types *)

LEMMA SourceOnType ==
    ASSUME BudgetTypeOK, NEW at, DayOf[at] \in Nat
    PROVE  /\ SourceOn(at) \in SourceRow
           /\ SourceOn(at).day = DayOf[at]
           /\ SourceOn(at).attempts <= DailyAttempts
           /\ SourceOn(at).nextStart = source.nextStart
           /\ SourceOn(at).cooldown = source.cooldown
           /\ SourceOn(at).denials = source.denials
           /\ SourceOn(at).attempts \in {0, source.attempts}
           /\ source.day = DayOf[at] => SourceOn(at).attempts = source.attempts
<1>1. source \in SourceRow /\ source.attempts <= DailyAttempts
  BY DEF BudgetTypeOK, SourceRow
<1> DEFINE fresh == [source EXCEPT !.day = DayOf[at], !.attempts = 0, !.successes = 0]
<1>2. /\ fresh \in SourceRow /\ fresh.day = DayOf[at] /\ fresh.attempts = 0
      /\ fresh.nextStart = source.nextStart /\ fresh.cooldown = source.cooldown
      /\ fresh.denials = source.denials
  BY <1>1 DEF SourceRow
<1>3. SourceOn(at) = IF source.day = DayOf[at] THEN source ELSE fresh
  BY DEF SourceOn
<1> HIDE DEF fresh
<1>4. CASE source.day = DayOf[at]  BY <1>1, <1>3, <1>4 DEF SourceRow
<1>5. CASE source.day # DayOf[at]
  BY <1>1, <1>2, <1>3, <1>5, BudgetAssumption DEF SourceRow
<1> QED  BY <1>4, <1>5

LEMMA OpensAtFacts ==
    ASSUME BudgetTypeOK, NEW t \in Task, NEW at \in Nat
    PROVE  /\ OpensAt(t, at) \in Nat
           /\ OpensAt(t, at) >= source.nextStart
           /\ OpensAt(t, at) >= source.cooldown
           /\ fallback[t].pending => OpensAt(t, at) >= fallback[t].at
<1>1. /\ source.nextStart \in Nat /\ source.cooldown \in Nat
      /\ fallback[t].at \in Nat /\ fallback[t].pending \in BOOLEAN
  BY DEF BudgetTypeOK
<1> DEFINE f == IF fallback[t].pending THEN fallback[t].at ELSE at
           c == Later(at, source.nextStart)
<1>2. f \in Nat /\ c \in Nat /\ c >= source.nextStart  BY <1>1, LaterIsNat
<1>3. OpensAt(t, at) = Later(Later(c, source.cooldown), f)  BY DEF OpensAt
<1>4. fallback[t].pending => f = fallback[t].at  OBVIOUS
<1> HIDE DEF f, c
<1>5. /\ Later(c, source.cooldown) \in Nat
      /\ Later(c, source.cooldown) >= c /\ Later(c, source.cooldown) >= source.cooldown
  BY <1>1, <1>2, LaterIsNat
<1>6. /\ OpensAt(t, at) \in Nat /\ OpensAt(t, at) >= f
      /\ OpensAt(t, at) >= Later(c, source.cooldown)
  BY <1>2, <1>3, <1>5, LaterIsNat
<1> QED  BY <1>1, <1>2, <1>4, <1>5, <1>6

LEMMA NextDayIsNat ==
    ASSUME NEW at \in Nat
    PROVE  NextDay(at) \in Nat
<1> DEFINE S == {u \in (at + 1)..MaxTime : DayOf[u] # DayOf[at]} \cup {MaxTime + 1}
<1>1. S \in SUBSET Nat /\ S # {}  BY ActivationAssumption
<1>2. NextDay(at) = Min(S)  BY DEF NextDay
<1> HIDE DEF S
<1> QED  BY <1>1, <1>2, MinIsLeast

(* What is typed of the network row of a lease.                            *)
LEMMA NetOfType ==
    ASSUME BudgetTypeOK, NEW l \in granted
    PROVE  /\ l.task \in Task /\ l.attempt \in AttemptNumber /\ l \in ScrapeLease
           /\ NetOf(l) \in NetRow
           /\ NetOf(l).reserved \in {0, ReserveBytes} /\ NetOf(l).reserved \in Nat
<1>1. QueueTypeOK /\ l \in ScrapeLease
  BY DEF BudgetTypeOK, TypeOK, QueueTypeOK
<1>2. l.task \in Task /\ l.attempt \in AttemptNumber  BY <1>1, GrantedType
<1>3. NetOf(l) \in NetRow  BY <1>2 DEF BudgetTypeOK, NetOf
<1> QED  BY <1>1, <1>2, <1>3, BudgetAssumption DEF NetRow

LEMMA ReportType ==
    ASSUME NEW l, NEW p \in Report(l)
    PROVE  /\ p.class \in Classification /\ p.bytes \in {0, ReserveBytes}
           /\ p.bytes \in Nat /\ p.retryAfter \in Nat
<1>1. p \in [class : Classification, bytes : {0, ReserveBytes}, retryAfter : RetryAfter]
  BY DEF Report
<1>2. /\ p.class \in Classification /\ p.bytes \in {0, ReserveBytes}
      /\ p.retryAfter \in RetryAfter
  BY <1>1
<1>3. p.bytes \in Nat
  <2> HIDE <1>1
  <2> QED  BY <1>2, BudgetConstants
<1> QED  BY <1>2, <1>3, BudgetConstants

(* Only network rows of one attempt change at a time.                      *)
LEMMA NetUpdate ==
    ASSUME BudgetTypeOK, NEW t \in Task, NEW n \in AttemptNumber, NEW row \in NetRow,
           net' = [net EXCEPT ![t][n] = row]
    PROVE  /\ net' \in [Task -> [AttemptNumber -> NetRow]]
           /\ net'[t][n] = row
           /\ \A u \in Task, m \in AttemptNumber :
                 (u # t \/ m # n) => net'[u][m] = net[u][m]
<1>1. net \in [Task -> [AttemptNumber -> NetRow]]  BY DEF BudgetTypeOK
<1>2. net' = [net EXCEPT ![t] = [net[t] EXCEPT ![n] = row]]  OBVIOUS
<1> QED  BY <1>1, <1>2

LEMMA BudgetRows ==
    ASSUME BudgetTypeOK
    PROVE  /\ TypeOK /\ QueueTypeOK /\ ActivationTypeOK
           /\ source \in SourceRow /\ source.attempts <= DailyAttempts
           /\ ledger \in [Cycle -> LedgerRow]
           /\ routeHealthy \in [Route -> BOOLEAN]
           /\ quarantine \in [Route -> Nat]
           /\ fallback \in [Task -> FallbackRow]
           /\ net \in [Task -> [AttemptNumber -> NetRow]]
           /\ replies \in SUBSET ReplyRow
  BY DEF BudgetTypeOK, TypeOK, SourceRow, LedgerRow, FallbackRow, ReplyRow

(* The converse, for a step that is put together from its columns.         *)
LEMMA BudgetRowsNext ==
    ASSUME TypeOK',
           source' \in SourceRow, source'.attempts <= DailyAttempts,
           ledger' \in [Cycle -> LedgerRow],
           routeHealthy' \in [Route -> BOOLEAN],
           quarantine' \in [Route -> Nat],
           fallback' \in [Task -> FallbackRow],
           net' \in [Task -> [AttemptNumber -> NetRow]],
           replies' \in SUBSET ReplyRow
    PROVE  BudgetTypeOK'
  BY DEF BudgetTypeOK, SourceRow, LedgerRow, FallbackRow, ReplyRow

LEMMA RefuseTypes ==
    ASSUME BudgetTypeOK, TypeOK', now \in Instant, NEW l \in granted,
           NEW at \in Captured, RefuseStart(l, at)
    PROVE  BudgetTypeOK'
<1>1. /\ source \in SourceRow /\ replies \in SUBSET ReplyRow
      /\ l.task \in Task /\ l \in ScrapeLease
  BY BudgetRows, NetOfType
<1>2. at \in Nat /\ DayOf[at] \in Nat  BY BudgetRows, InstantFacts
<1>3. source' \in SourceRow /\ source'.attempts <= DailyAttempts
  BY <1>2, SourceOnType DEF RefuseStart
<1>4. replies' \in SUBSET ReplyRow
  <2>1. OpensAt(l.task, at) \in Nat /\ NextDay(at) \in Nat
    BY <1>1, <1>2, OpensAtFacts, NextDayIsNat
  <2> DEFINE u == IF OpensAt(l.task, at) > at THEN OpensAt(l.task, at) ELSE NextDay(at)
  <2>2. u \in Nat  BY <2>1
  <2>3. replies' = replies \cup {[lease |-> l, code |-> "budget-exhausted", until |-> u]}
    BY DEF RefuseStart
  <2> HIDE DEF u
  <2> QED  BY <1>1, <2>2, <2>3 DEF ReplyRow
<1> QED  BY <1>3, <1>4, BudgetRows, BudgetRowsNext DEF RefuseStart

LEMMA SourceAfterGrant ==
    ASSUME NEW s \in SourceRow, s.attempts < DailyAttempts, NEW start \in Nat
    PROVE  LET s2 == [s EXCEPT !.attempts = s.attempts + 1, !.nextStart = start]
           IN  /\ s2 \in SourceRow /\ s2.attempts = s.attempts + 1
               /\ s2.nextStart = start /\ s2.day = s.day
               /\ s2.cooldown = s.cooldown /\ s2.denials = s.denials
               /\ s2.attempts <= DailyAttempts
<1>1. s.attempts + 1 \in Nat /\ s.attempts + 1 <= DailyAttempts
  BY BudgetConstants DEF SourceRow
<1> DEFINE mid == [s EXCEPT !.attempts = s.attempts + 1]
<1>2. /\ mid \in SourceRow /\ mid.attempts = s.attempts + 1
      /\ mid.day = s.day /\ mid.cooldown = s.cooldown /\ mid.denials = s.denials
  BY <1>1 DEF SourceRow
<1> HIDE DEF mid
<1>3. LET s2 == [mid EXCEPT !.nextStart = start]
      IN  /\ s2 \in SourceRow /\ s2.attempts = mid.attempts
          /\ s2.nextStart = start /\ s2.day = mid.day
          /\ s2.cooldown = mid.cooldown /\ s2.denials = mid.denials
  BY <1>2 DEF SourceRow
<1> QED  BY <1>1, <1>2, <1>3 DEF mid

(* The row of a granted start.                                             *)
IsStartRow(l, at, row) ==
    /\ net' = [net EXCEPT ![l.task][l.attempt] = row]
    /\ row.route = IF ThroughProxy(l.task, at) THEN "proxy" ELSE "direct"
    /\ row.reserved = IF ThroughProxy(l.task, at) THEN ReserveBytes ELSE 0
    /\ row.started = at /\ row.class = "none" /\ row.recorded = 0

LEMMA GrantRow ==
    ASSUME BudgetTypeOK, now \in Instant, NEW l \in granted, NEW at \in Captured,
           GrantStart(l, at)
    PROVE  \E row \in NetRow : IsStartRow(l, at, row)
<1> DEFINE proxied == ThroughProxy(l.task, at)
           id == IF proxied THEN Min(UsableRoute(at)) ELSE 0
           route == IF proxied THEN "proxy" ELSE "direct"
           bytes == IF proxied THEN ReserveBytes ELSE 0
           row == StartRow(proxied, at)
<1>1. at \in Nat  BY BudgetRows, InstantFacts
<1>2. proxied => Min(UsableRoute(at)) \in Route
  <2>1. UsableRoute(at) \in SUBSET Route /\ UsableRoute(at) \in SUBSET Nat
    BY BudgetConstants DEF UsableRoute
  <2>2. proxied => UsableRoute(at) # {}  BY DEF ThroughProxy
  <2> QED  BY <2>1, <2>2, MinIsLeast
<1>3. id \in Route \cup {0} /\ route \in {"direct", "proxy"}
      /\ bytes \in {0, ReserveBytes}
  BY <1>2
<1>4. row = [route |-> route, id |-> id, reserved |-> bytes, started |-> at,
             class |-> "none", recorded |-> 0, retryAfter |-> 0]
  BY DEF StartRow
<1>5. net' = [net EXCEPT ![l.task][l.attempt] = row]
  BY DEF GrantStart
<1> HIDE DEF row
<1>6. /\ row \in NetRow /\ row.route = route /\ row.reserved = bytes
      /\ row.started = at /\ row.class = "none" /\ row.recorded = 0
  <2> HIDE DEF id, route, bytes
  <2> QED  BY <1>1, <1>3, <1>4 DEF NetRow
<1> QED  BY <1>5, <1>6 DEF IsStartRow

(* What a grant does to the source row and the ledger.                     *)
LEMMA GrantEffect ==
    ASSUME BudgetTypeOK, now \in Instant, NEW l \in granted, NEW at \in Captured,
           GrantStart(l, at)
    PROVE  /\ source' \in SourceRow /\ source'.attempts <= DailyAttempts
           /\ source'.attempts = SourceOn(at).attempts + 1
           /\ source'.nextStart = at + MinInterval
           /\ source'.day = DayOf[at]
           /\ source'.cooldown = source.cooldown /\ source'.denials = source.denials
           /\ SourceOn(at).attempts < DailyAttempts
           /\ ledger' \in [Cycle -> LedgerRow]
           /\ \A c \in Cycle :
                 /\ ledger'[c].transferred = ledger[c].transferred
                 /\ ledger'[c].allocated = ledger[c].allocated
                      + (IF c = CycleOf[at] /\ ThroughProxy(l.task, at)
                         THEN ReserveBytes ELSE 0)
<1>1. at \in Nat /\ DayOf[at] \in Nat /\ CycleOf[at] \in Cycle
  BY BudgetRows, InstantFacts
<1> DEFINE s == SourceOn(at)
<1>2. /\ s \in SourceRow /\ s.day = DayOf[at] /\ s.attempts \in Nat
      /\ s.cooldown = source.cooldown /\ s.denials = source.denials
  BY <1>1, SourceOnType DEF SourceRow
<1>3. s.attempts < DailyAttempts
  BY <1>2, BudgetConstants DEF GrantStart, DayIsFull
<1>4. source' = [s EXCEPT !.attempts = s.attempts + 1, !.nextStart = at + MinInterval]
  BY DEF GrantStart
<1>5. at + MinInterval \in Nat  BY <1>1, BudgetConstants
<1>6. /\ source' \in SourceRow /\ source'.attempts = s.attempts + 1
      /\ source'.nextStart = at + MinInterval /\ source'.day = s.day
      /\ source'.cooldown = s.cooldown /\ source'.denials = s.denials
      /\ source'.attempts <= DailyAttempts
  <2> HIDE DEF s
  <2>1. s.attempts \in Nat /\ s \in SourceRow  BY <1>2
  <2> QED  BY <2>1, <1>3, <1>4, <1>5, SourceAfterGrant
<1> DEFINE bytes == IF ThroughProxy(l.task, at) THEN ReserveBytes ELSE 0
           c0 == CycleOf[at]
           entry == [ledger[c0] EXCEPT !.allocated = ledger[c0].allocated + bytes]
<1>7. bytes \in Nat  BY BudgetConstants
<1>8. ledger \in [Cycle -> LedgerRow] /\ ledger[c0] \in LedgerRow
  BY <1>1, BudgetRows
<1>9. /\ entry \in LedgerRow /\ entry.transferred = ledger[c0].transferred
      /\ entry.allocated = ledger[c0].allocated + bytes
  <2>1. ledger[c0].allocated + bytes \in Int
    <3> HIDE DEF bytes, c0
    <3> QED  BY <1>7, <1>8 DEF LedgerRow
  <2> HIDE DEF bytes, c0
  <2> QED  BY <1>8, <2>1 DEF LedgerRow
<1>10. ledger' = [ledger EXCEPT ![c0] = entry]  BY DEF GrantStart
<1>11. \A c \in Cycle : ledger[c].allocated \in Int  BY <1>8 DEF LedgerRow
<1> HIDE DEF entry
<1>12. /\ ledger' \in [Cycle -> LedgerRow] /\ ledger'[c0] = entry
       /\ \A c \in Cycle \ {c0} : ledger'[c] = ledger[c]
  BY <1>1, <1>8, <1>9, <1>10
<1>13. ASSUME NEW c \in Cycle
       PROVE  /\ ledger'[c].transferred = ledger[c].transferred
              /\ ledger'[c].allocated = ledger[c].allocated
                   + (IF c = c0 /\ ThroughProxy(l.task, at) THEN ReserveBytes ELSE 0)
  <2>1. CASE c = c0  BY <1>9, <1>12, <2>1
  <2>2. CASE c # c0  BY <1>11, <1>12, <2>2
  <2> QED  BY <2>1, <2>2
<1> QED  BY <1>2, <1>3, <1>6, <1>12, <1>13

LEMMA GrantTypes ==
    ASSUME BudgetTypeOK, TypeOK', now \in Instant, NEW l \in granted,
           NEW at \in Captured, GrantStart(l, at)
    PROVE  BudgetTypeOK'
<1>1. /\ l.task \in Task /\ l.attempt \in AttemptNumber
      /\ fallback \in [Task -> FallbackRow]
  BY BudgetRows, NetOfType
<1>2. PICK row \in NetRow : IsStartRow(l, at, row)  BY GrantRow
<1>2a. net' \in [Task -> [AttemptNumber -> NetRow]]
  BY <1>1, <1>2, NetUpdate DEF IsStartRow
<1>3. /\ source' \in SourceRow /\ source'.attempts <= DailyAttempts
      /\ ledger' \in [Cycle -> LedgerRow]
  BY GrantEffect
<1>4. fallback' \in [Task -> FallbackRow]
  <2>1. [pending |-> FALSE, at |-> 0] \in FallbackRow  BY DEF FallbackRow
  <2>2. fallback' = [fallback EXCEPT ![l.task] = [pending |-> FALSE, at |-> 0]]
    BY DEF GrantStart
  <2> QED  BY <1>1, <2>1, <2>2
<1>5. UNCHANGED <<routeHealthy, quarantine, replies>>  BY DEF GrantStart
<1> QED  BY <1>2a, <1>3, <1>4, <1>5, BudgetRows, BudgetRowsNext

(* The row of a recorded outcome.                                          *)
IsRecordedRow(l, p, at, row) ==
    /\ net' = [net EXCEPT ![l.task][l.attempt] = row]
    /\ row.route = NetOf(l).route /\ row.started = NetOf(l).started
    /\ row.class = p.class /\ row.reserved = 0
    /\ row.recorded = at /\ row.retryAfter = p.retryAfter

LEMMA RecordRow ==
    ASSUME BudgetTypeOK, now \in Instant, NEW l \in granted, NEW at \in Captured,
           NEW p \in Report(l), RecordOutcome(l, p, at)
    PROVE  \E row \in NetRow : IsRecordedRow(l, p, at, row)
<1>1. /\ l.task \in Task /\ l.attempt \in AttemptNumber /\ NetOf(l) \in NetRow
      /\ net \in [Task -> [AttemptNumber -> NetRow]]
      /\ at \in Nat /\ p.class \in Classification /\ p.retryAfter \in Nat
  BY BudgetRows, NetOfType, InstantFacts, ReportType
<1> DEFINE old == NetOf(l)
           r1 == [old EXCEPT !.class = p.class]
           r2 == [r1 EXCEPT !.reserved = 0]
           r3 == [r2 EXCEPT !.recorded = at]
           r4 == [r3 EXCEPT !.retryAfter = p.retryAfter]
<1>2. net' = [net EXCEPT ![l.task][l.attempt] = r4]
  BY DEF RecordOutcome, NetOf
<1> HIDE DEF r1, r2, r3, r4, old
<1>3. r1 \in NetRow /\ r1.route = old.route /\ r1.started = old.started
      /\ r1.class = p.class
  BY <1>1 DEF r1, old, NetRow
<1>4. r2 \in NetRow /\ r2.route = r1.route /\ r2.started = r1.started
      /\ r2.class = r1.class /\ r2.reserved = 0
  BY <1>3 DEF r2, NetRow
<1>5. r3 \in NetRow /\ r3.route = r2.route /\ r3.started = r2.started
      /\ r3.class = r2.class /\ r3.reserved = r2.reserved /\ r3.recorded = at
  BY <1>1, <1>4 DEF r3, NetRow
<1>6. r4 \in NetRow /\ r4.route = r3.route /\ r4.started = r3.started
      /\ r4.class = r3.class /\ r4.reserved = r3.reserved
      /\ r4.recorded = r3.recorded /\ r4.retryAfter = p.retryAfter
  BY <1>1, <1>5 DEF r4, NetRow
<1> QED  BY <1>2, <1>3, <1>4, <1>5, <1>6 DEF IsRecordedRow, old

LEMMA CooldownUntilIsNat ==
    ASSUME BudgetTypeOK, NEW l, NEW p \in Report(l), NEW at \in Nat
    PROVE  /\ CooldownUntil(p, at) \in Nat /\ CooldownUntil(p, at) >= at
           /\ RetryDirectAt(p, at) \in Nat /\ RetryDirectAt(p, at) >= at
           /\ p.class = "portal-denial" =>
                RetryDirectAt(p, at) = at + Later(FallbackDelay, p.retryAfter)
<1>1. source.denials \in Nat /\ p.retryAfter \in Nat  BY ReportType DEF BudgetTypeOK
<1>2. Cooldown[Smaller(source.denials, 2) + 1] \in Nat  BY <1>1, CooldownIsNat
<1>3. Later(Cooldown[Smaller(source.denials, 2) + 1], p.retryAfter) \in Nat
  BY <1>1, <1>2, LaterIsNat
<1>4. Later(FallbackDelay, p.retryAfter) \in Nat
  BY <1>1, BudgetConstants, LaterIsNat
<1> QED  BY <1>3, <1>4 DEF CooldownUntil, RetryDirectAt

(* What an outcome does to the source row.                                 *)
LEMMA RecordSource ==
    ASSUME BudgetTypeOK, now \in Instant, NEW l \in granted, NEW at \in Captured,
           NEW p \in Report(l), RecordOutcome(l, p, at)
    PROVE  /\ source' \in SourceRow
           /\ source'.attempts = SourceOn(at).attempts
           /\ source'.nextStart = source.nextStart
           /\ source'.day = DayOf[at]
           /\ source'.cooldown >= source.cooldown
           /\ DirectDenial(l, p) => /\ source'.cooldown >= CooldownUntil(p, at)
                                    /\ source'.denials = source.denials + 1
           /\ ~DirectDenial(l, p) =>
                 source'.denials = IF p.class = "success" /\ NetOf(l).route = "direct"
                                   THEN 0 ELSE source.denials
<1>1. at \in Nat /\ DayOf[at] \in Nat  BY BudgetRows, InstantFacts
<1> DEFINE s == SourceOn(at)
<1>2. /\ s \in SourceRow /\ s.day = DayOf[at] /\ s.nextStart = source.nextStart
      /\ s.cooldown = source.cooldown /\ s.denials = source.denials
  BY <1>1, SourceOnType
<1>3. s.successes \in Nat /\ s.denials \in Nat /\ s.cooldown \in Nat
  <2> HIDE DEF s
  <2> QED  BY <1>2 DEF SourceRow
<1>4. CASE p.class = "success"
  <2> DEFINE s1 == [s EXCEPT !.successes = s.successes + 1]
             d == IF NetOf(l).route = "direct" THEN 0 ELSE s.denials
             s2 == [s1 EXCEPT !.denials = d]
  <2>1. ~DirectDenial(l, p)  BY <1>4 DEF DirectDenial
  <2>2. source' = s2  BY <1>4, <2>1 DEF RecordOutcome, SourceAfter
  <2> HIDE DEF s, d, s1, s2
  <2>4. s1 \in SourceRow /\ s1.attempts = s.attempts /\ s1.nextStart = s.nextStart
        /\ s1.day = s.day /\ s1.cooldown = s.cooldown /\ s1.denials = s.denials
    BY <1>2, <1>3 DEF s1, SourceRow
  <2>3. d \in Nat  BY <1>3 DEF d
  <2>5. s2 \in SourceRow /\ s2.attempts = s1.attempts /\ s2.nextStart = s1.nextStart
        /\ s2.day = s1.day /\ s2.cooldown = s1.cooldown /\ s2.denials = d
    BY <2>3, <2>4 DEF s2, SourceRow
  <2>6. d = IF NetOf(l).route = "direct" THEN 0 ELSE source.denials
    BY <1>2 DEF d
  <2>7. source'.cooldown = source.cooldown /\ source.cooldown \in Nat
    BY <1>2, <1>3, <2>2, <2>4, <2>5
  <2> QED  BY <1>2, <1>4, <2>1, <2>2, <2>4, <2>5, <2>6, <2>7 DEF s
<1>5. CASE DirectDenial(l, p)
  <2> DEFINE c == Later(s.cooldown, CooldownUntil(p, at))
             s1 == [s EXCEPT !.cooldown = c]
             s2 == [s1 EXCEPT !.denials = s.denials + 1]
  <2>1. p.class = "portal-denial"  BY <1>5 DEF DirectDenial
  <2>2. source' = s2  BY <1>5, <2>1 DEF RecordOutcome, SourceAfter
  <2>3. c \in Nat /\ c >= s.cooldown /\ c >= CooldownUntil(p, at)
    <3>1. CooldownUntil(p, at) \in Nat  BY <1>1, CooldownUntilIsNat
    <3> QED  BY <1>3, <3>1, LaterIsNat
  <2> HIDE DEF s, c, s1, s2
  <2>4. s1 \in SourceRow /\ s1.attempts = s.attempts /\ s1.nextStart = s.nextStart
        /\ s1.day = s.day /\ s1.cooldown = c
    BY <1>2, <2>3 DEF s1, SourceRow
  <2>5. s2 \in SourceRow /\ s2.attempts = s1.attempts /\ s2.nextStart = s1.nextStart
        /\ s2.day = s1.day /\ s2.cooldown = s1.cooldown /\ s2.denials = s.denials + 1
    BY <1>3, <2>4 DEF s2, SourceRow
  <2> QED  BY <1>2, <1>5, <2>2, <2>3, <2>4, <2>5 DEF s
<1>6. CASE p.class # "success" /\ ~DirectDenial(l, p)
  <2>1. source' = s  BY <1>6 DEF RecordOutcome, SourceAfter
  <2> HIDE DEF s
  <2> QED  BY <1>2, <1>3, <1>6, <2>1 DEF s
<1> QED  BY <1>4, <1>5, <1>6

(* What an outcome does to the ledger.                                     *)
LEMMA RecordLedger ==
    ASSUME BudgetTypeOK, now \in Instant, NEW l \in granted, NEW at \in Captured,
           NEW p \in Report(l), RecordOutcome(l, p, at)
    PROVE  /\ ledger' \in [Cycle -> LedgerRow]
           /\ NetOf(l).route # "proxy" => ledger' = ledger
           /\ NetOf(l).route = "proxy" =>
                /\ Remaining(l, at) \in Int
                /\ Remaining(l, at) = ledger[CycleOf[at]].allocated - NetOf(l).reserved
                /\ Remaining(l, at) + p.bytes <= ProxyUsable
                /\ ledger'[CycleOf[at]].allocated = Remaining(l, at) + p.bytes
                /\ ledger'[CycleOf[at]].transferred
                     = ledger[CycleOf[at]].transferred + p.bytes
                /\ \A c \in Cycle \ {CycleOf[at]} : ledger'[c] = ledger[c]
<1>1. /\ CycleOf[at] \in Cycle /\ ledger \in [Cycle -> LedgerRow]
      /\ NetOf(l).reserved \in Nat /\ p.bytes \in Nat
  BY BudgetRows, InstantFacts, NetOfType, ReportType
<1>2. CASE NetOf(l).route # "proxy"
  BY <1>1, <1>2 DEF RecordOutcome, Reconcile
<1>3. CASE NetOf(l).route = "proxy"
  <2> DEFINE c0 == CycleOf[at]
             entry == [allocated |-> Remaining(l, at) + p.bytes,
                       transferred |-> ledger[c0].transferred + p.bytes]
  <2>1. /\ Remaining(l, at) + p.bytes <= ProxyUsable
        /\ ledger' = [ledger EXCEPT ![c0] = entry]
    BY <1>3 DEF RecordOutcome, Reconcile
  <2>2. /\ ledger[c0].allocated \in Int /\ ledger[c0].transferred \in Nat
    BY <1>1 DEF LedgerRow
  <2>3. /\ Remaining(l, at) = ledger[c0].allocated - NetOf(l).reserved
        /\ Remaining(l, at) \in Int
    BY <1>1, <2>2 DEF Remaining
  <2>4. entry \in LedgerRow /\ entry.allocated = Remaining(l, at) + p.bytes
        /\ entry.transferred = ledger[c0].transferred + p.bytes
    BY <1>1, <2>2, <2>3 DEF LedgerRow
  <2> HIDE DEF entry
  <2>5. /\ ledger' \in [Cycle -> LedgerRow] /\ ledger'[c0] = entry
        /\ \A c \in Cycle \ {c0} : ledger'[c] = ledger[c]
    BY <1>1, <2>1, <2>4
  <2> QED  BY <1>3, <2>1, <2>3, <2>4, <2>5
<1> QED  BY <1>2, <1>3

LEMMA RecordTypes ==
    ASSUME BudgetTypeOK, TypeOK', now \in Instant, NEW l \in granted,
           NEW at \in Captured, NEW p \in Report(l), RecordOutcome(l, p, at)
    PROVE  BudgetTypeOK'
<1>1. /\ l.task \in Task /\ l.attempt \in AttemptNumber /\ l \in ScrapeLease
      /\ at \in Nat /\ DayOf[at] \in Nat
      /\ fallback \in [Task -> FallbackRow] /\ replies \in SUBSET ReplyRow
      /\ quarantine \in [Route -> Nat] /\ routeHealthy \in [Route -> BOOLEAN]
  BY BudgetRows, NetOfType, InstantFacts
<1>2. PICK row \in NetRow : IsRecordedRow(l, p, at, row)  BY RecordRow
<1>3. net' \in [Task -> [AttemptNumber -> NetRow]]
  BY <1>1, <1>2, NetUpdate DEF IsRecordedRow
<1>4. source' \in SourceRow /\ source'.attempts <= DailyAttempts
  BY <1>1, RecordSource, SourceOnType
<1>5. ledger' \in [Cycle -> LedgerRow]  BY RecordLedger
<1>6. CooldownUntil(p, at) \in Nat /\ RetryDirectAt(p, at) \in Nat
  BY <1>1, CooldownUntilIsNat
<1>7. routeHealthy' \in [Route -> BOOLEAN]  BY <1>1 DEF RecordOutcome
<1>8. quarantine' \in [Route -> Nat]
  <2> DEFINE id == NetOf(l).id
  <2>1. \/ quarantine' = quarantine
        \/ quarantine' = [quarantine EXCEPT ![id] =
                              Later(quarantine[id], RetryDirectAt(p, at))]
    BY DEF RecordOutcome
  <2>2. id \in Route => quarantine[id] \in Nat  BY <1>1
  <2>3. id \in Route => Later(quarantine[id], RetryDirectAt(p, at)) \in Nat
    BY <1>6, <2>2, LaterIsNat
  <2> HIDE DEF id
  <2> QED  BY <1>1, <2>1, <2>3
<1>9. fallback' \in [Task -> FallbackRow]
  <2>1. [pending |-> TRUE, at |-> RetryDirectAt(p, at)] \in FallbackRow
    BY <1>6 DEF FallbackRow
  <2>2. \/ fallback' = fallback
        \/ fallback' = [fallback EXCEPT ![l.task] =
              [pending |-> TRUE, at |-> RetryDirectAt(p, at)]]
    BY DEF RecordOutcome
  <2> QED  BY <1>1, <2>1, <2>2
<1>10. replies' \in SUBSET ReplyRow
  <2>1. [lease |-> l, code |-> "source-cooldown", until |-> CooldownUntil(p, at)]
          \in ReplyRow
    BY <1>1, <1>6 DEF ReplyRow
  <2>2. \/ replies' = replies
        \/ replies' = replies \cup {[lease |-> l, code |-> "source-cooldown",
                                     until |-> CooldownUntil(p, at)]}
    BY DEF RecordOutcome
  <2> QED  BY <1>1, <2>1, <2>2
<1> QED
  BY <1>3, <1>4, <1>5, <1>7, <1>8, <1>9, <1>10, BudgetRowsNext

-----------------------------------------------------------------------------
(* Leases and attempts *)

(* The task still runs under this lease.                                   *)
Current(l) == Running(l.task) /\ lease[l.task].token = l.token

(* Task and token name a lease, and the newest attempt is its own.         *)
LeasesDistinct ==
    /\ \A l \in granted : l.token <= claims[l.task]
    /\ \A l, m \in granted : l.task = m.task /\ l.token = m.token => l = m
    /\ \A l \in granted : Current(l) => attemptCount[l.task] = l.attempt

(* Only answers to granted leases wait to be acted upon.                   *)
RepliesKnown == \A r \in replies : r.lease \in granted

(* A lease that was refused its start has not reached the network.         *)
RefusedUnstarted ==
    \A r \in replies : r.code = "budget-exhausted" /\ Current(r.lease)
                           => NetOf(r.lease).route = "unassigned"

(* Only attempts that were counted have reached the network.               *)
StartsCounted ==
    \A t \in Task, n \in AttemptNumber :
        net[t][n].route # "unassigned" => n <= attemptCount[t]

QueueKnown ==
    LeasesDistinct /\ RepliesKnown /\ RefusedUnstarted /\ StartsCounted

(* A step may end the lease of a task but gives it no other one.           *)
Kept(t) ==
    /\ attemptCount'[t] = attemptCount[t]
    /\ Running(t)' => Running(t) /\ lease'[t].token = lease[t].token

Steady ==
    /\ granted' = granted /\ claims' = claims
    /\ \A t \in Task : Kept(t)

(* A claim of t that returned the lease l.                                 *)
Claimed(t, l) ==
    /\ l.task = t /\ l.token = claims[t] + 1 /\ l.attempt = attemptCount[t] + 1
    /\ granted' = granted \cup {l}
    /\ claims'[t] = claims[t] + 1
    /\ attemptCount'[t] = attemptCount[t] + 1
    /\ lease'[t].token = claims[t] + 1
    /\ \A u \in Task \ {t} : claims'[u] = claims[u] /\ Kept(u)

(* An attempt that is given back.                                          *)
GivenBack(l) ==
    /\ granted' = granted /\ claims' = claims
    /\ Current(l) /\ attemptCount[l.task] = l.attempt
    /\ ~Running(l.task)'
    /\ attemptCount'[l.task] = attemptCount[l.task] - 1
    /\ \A u \in Task \ {l.task} : Kept(u)

LEMMA GrantedTask ==
    ASSUME QueueTypeOK, NEW l \in granted
    PROVE  /\ l.task \in Task /\ l.token \in Nat /\ l.attempt \in AttemptNumber
           /\ claims[l.task] \in Nat /\ attemptCount[l.task] \in Nat
  BY GrantedType, QueueAssumption DEF QueueTypeOK

LEMMA SteadyLeases ==
    ASSUME QueueTypeOK, LeasesDistinct, Steady
    PROVE  /\ LeasesDistinct'
           /\ \A l \in granted : Current(l)' => Current(l)
<1>1. ASSUME NEW l \in granted, Current(l)'
      PROVE  Current(l) /\ attemptCount'[l.task] = attemptCount[l.task]
  <2>1. l.task \in Task  BY GrantedTask
  <2>2. Kept(l.task)  BY <2>1 DEF Steady
  <2> QED  BY <1>1, <2>2 DEF Kept, Current
<1> QED  BY <1>1 DEF LeasesDistinct, Steady

LEMMA ClaimedLeases ==
    ASSUME QueueTypeOK, LeasesDistinct, NEW t \in Task, NEW l, Claimed(t, l)
    PROVE  /\ LeasesDistinct'
           /\ \A m \in granted : Current(m)' => Current(m) /\ m.task # t
<1>0. claims[t] \in Nat /\ attemptCount[t] \in Nat  BY QueueAssumption DEF QueueTypeOK
<1>1. ASSUME NEW m \in granted
      PROVE  /\ m.task \in Task /\ m.token \in Nat /\ m.token <= claims[m.task]
             /\ m.task = t => m.token # l.token
             /\ m.token <= claims'[m.task]
  <2>1. m.task \in Task /\ m.token \in Nat  BY GrantedTask
  <2>2. m.token <= claims[m.task]  BY DEF LeasesDistinct
  <2>3. CASE m.task = t  BY <1>0, <2>1, <2>2, <2>3 DEF Claimed
  <2>4. CASE m.task # t  BY <2>1, <2>2, <2>4 DEF Claimed
  <2> QED  BY <2>1, <2>2, <2>3, <2>4
<1>2. ASSUME NEW m \in granted, Current(m)'
      PROVE  /\ Current(m) /\ m.task # t
             /\ attemptCount'[m.task] = attemptCount[m.task]
  <2>1. m.task # t
    BY <1>1, <1>2 DEF Claimed, Current
  <2>2. Kept(m.task)  BY <1>1, <2>1 DEF Claimed
  <2> QED  BY <1>2, <2>1, <2>2 DEF Kept, Current
<1>3. \A m \in granted' : m.token <= claims'[m.task]
  <2>1. l.token <= claims'[l.task]  BY <1>0 DEF Claimed
  <2> QED  BY <1>1, <2>1 DEF Claimed
<1>4. \A k, m \in granted' : k.task = m.task /\ k.token = m.token => k = m
  <2>1. \A m \in granted : m.task = l.task => m.token # l.token
    BY <1>1 DEF Claimed
  <2> QED  BY <2>1 DEF Claimed, LeasesDistinct
<1>5. \A m \in granted' : Current(m)' => attemptCount'[m.task] = m.attempt
  <2>1. attemptCount'[l.task] = l.attempt  BY DEF Claimed
  <2>2. \A m \in granted : Current(m)' => attemptCount'[m.task] = m.attempt
    BY <1>2 DEF LeasesDistinct
  <2> QED  BY <2>1, <2>2 DEF Claimed
<1> QED  BY <1>2, <1>3, <1>4, <1>5 DEF LeasesDistinct

LEMMA GivenBackLeases ==
    ASSUME QueueTypeOK, LeasesDistinct, NEW l \in granted, GivenBack(l)
    PROVE  /\ LeasesDistinct'
           /\ \A m \in granted : Current(m)' => Current(m) /\ m.task # l.task
<1>1. ASSUME NEW m \in granted, Current(m)'
      PROVE  /\ Current(m) /\ m.task # l.task
             /\ attemptCount'[m.task] = attemptCount[m.task]
  <2>1. m.task \in Task  BY GrantedTask
  <2>2. m.task # l.task  BY <1>1 DEF GivenBack, Current, Running
  <2>3. Kept(m.task)  BY <2>1, <2>2 DEF GivenBack
  <2> QED  BY <1>1, <2>2, <2>3 DEF Kept, Current
<1> QED  BY <1>1 DEF LeasesDistinct, GivenBack

(* What is known of the queue survives any of these moves.                 *)
LEMMA SteadyKnown ==
    ASSUME QueueTypeOK, QueueKnown, Steady, UNCHANGED <<net, replies>>
    PROVE  QueueKnown'
<1>1. /\ LeasesDistinct'
      /\ \A l \in granted : Current(l)' => Current(l)
  BY SteadyLeases DEF QueueKnown
<1>2. RepliesKnown'  BY DEF QueueKnown, RepliesKnown, Steady
<1>3. RefusedUnstarted'
  BY <1>1 DEF QueueKnown, RepliesKnown, RefusedUnstarted, NetOf
<1>4. StartsCounted'
  BY DEF QueueKnown, StartsCounted, Steady, Kept
<1> QED  BY <1>1, <1>2, <1>3, <1>4 DEF QueueKnown

LEMMA ClaimedKnown ==
    ASSUME QueueTypeOK, QueueKnown, NEW t \in Task, NEW l, Claimed(t, l),
           UNCHANGED <<net, replies>>
    PROVE  QueueKnown'
<1>1. /\ LeasesDistinct'
      /\ \A m \in granted : Current(m)' => Current(m)
  BY ClaimedLeases DEF QueueKnown
<1>2. RepliesKnown'  BY DEF QueueKnown, RepliesKnown, Claimed
<1>3. RefusedUnstarted'
  BY <1>1 DEF QueueKnown, RepliesKnown, RefusedUnstarted, NetOf
<1>4. StartsCounted'
  <2>1. \A u \in Task : attemptCount[u] \in Nat /\ attemptCount[u] <= attemptCount'[u]
    BY QueueAssumption DEF Claimed, Kept, QueueTypeOK
  <2>2. \A n \in AttemptNumber : n \in Nat  BY DEF AttemptNumber
  <2>3. \A u \in Task : attemptCount'[u] \in Nat
    BY <2>1 DEF Claimed, Kept
  <2> QED  BY <2>1, <2>2, <2>3 DEF QueueKnown, StartsCounted
<1> QED  BY <1>1, <1>2, <1>3, <1>4 DEF QueueKnown

LEMMA GivenBackKnown ==
    ASSUME QueueTypeOK, QueueKnown, NEW r \in replies, r.code = "budget-exhausted",
           GivenBack(r.lease), UNCHANGED <<net, replies>>
    PROVE  QueueKnown'
<1>0. r.lease \in granted  BY DEF QueueKnown, RepliesKnown
<1>1. /\ LeasesDistinct'
      /\ \A m \in granted : Current(m)' => Current(m)
  BY <1>0, GivenBackLeases DEF QueueKnown
<1>2. RepliesKnown'  BY DEF QueueKnown, RepliesKnown, GivenBack
<1>3. RefusedUnstarted'
  BY <1>1 DEF QueueKnown, RepliesKnown, RefusedUnstarted, NetOf
<1>4. StartsCounted'
  <2>1. /\ r.lease.task \in Task /\ attemptCount[r.lease.task] = r.lease.attempt
        /\ net[r.lease.task][r.lease.attempt].route = "unassigned"
        /\ attemptCount[r.lease.task] \in Nat
    BY <1>0, GrantedTask DEF QueueKnown, RefusedUnstarted, GivenBack, NetOf
  <2>2. ASSUME NEW n \in AttemptNumber, net[r.lease.task][n].route # "unassigned"
        PROVE  n <= attemptCount'[r.lease.task]
    <3>1. n <= attemptCount[r.lease.task]  BY <2>1, <2>2 DEF QueueKnown, StartsCounted
    <3>2. n # attemptCount[r.lease.task]  BY <2>1, <2>2
    <3>3. n \in Nat  BY DEF AttemptNumber
    <3> QED  BY <2>1, <3>1, <3>2, <3>3 DEF GivenBack
  <2> QED  BY <2>2 DEF QueueKnown, StartsCounted, GivenBack, Kept
<1> QED  BY <1>1, <1>2, <1>3, <1>4 DEF QueueKnown

-----------------------------------------------------------------------------
(* The moves of the queue *)

LEMMA CloseSteady ==
    ASSUME QueueTypeOK, NEW t \in Task, NEW o \in {"succeeded", "failed", "deferred"},
           Close(t, o)
    PROVE  Steady
<1>1. /\ taskState \in [Task -> TaskState] /\ lease \in [Task -> LeaseColumns]
      /\ taskState' = [taskState EXCEPT ![t] = o]
      /\ lease' = [lease EXCEPT ![t] = NoLease]
      /\ UNCHANGED <<granted, claims, attemptCount>>
  BY DEF QueueTypeOK, Close
<1>2. ASSUME NEW u \in Task PROVE Kept(u)
  <2>1. CASE u = t
    <3>1. taskState'[u] = o  BY <1>1, <2>1
    <3> QED  BY <1>1, <3>1 DEF Kept, Running
  <2>2. CASE u # t
    <3>1. taskState'[u] = taskState[u] /\ lease'[u] = lease[u]  BY <1>1, <2>2
    <3> QED  BY <1>1, <3>1 DEF Kept, Running
  <2> QED  BY <2>1, <2>2
<1> QED  BY <1>1, <1>2 DEF Steady

LEMMA EnqueueSteady ==
    ASSUME QueueTypeOK, EnqueueStep
    PROVE  Steady
<1>0. taskState \in [Task -> TaskState]  BY DEF QueueTypeOK
<1>1. ASSUME NEW t \in Task, NEW s \in {"held", "pending"},
             taskState' = [taskState EXCEPT ![t] = s],
             UNCHANGED <<lease, granted, claims, attemptCount>>
      PROVE  Steady
  BY <1>0, <1>1 DEF Steady, Kept, Running
<1>2. ASSUME NEW t \in Task, NEW at, Enqueue(t, at) PROVE Steady
  <2>1. (IF ClassOf[t] = "network_recovery" THEN "held" ELSE "pending")
           \in {"held", "pending"}
    OBVIOUS
  <2> QED  BY <1>1, <1>2, <2>1 DEF Enqueue
<1>3. ASSUME NEW t \in Task, NEW r, NEW at, EnqueueDiscovery(t, r, at) PROVE Steady
  BY <1>1, <1>3 DEF EnqueueDiscovery
<1>4. ASSUME NEW r, StartCanary(r) PROVE Steady
  BY <1>4 DEF StartCanary, taskVars, Steady, Kept, Running
<1> QED  BY <1>2, <1>3, <1>4 DEF EnqueueStep

LEMMA ClaimMove ==
    ASSUME QueueTypeOK, ClaimStep
    PROVE  Steady \/ \E t \in Task : \E l : Claimed(t, l)
<1>0. /\ taskState \in [Task -> TaskState] /\ lease \in [Task -> LeaseColumns]
      /\ attemptCount \in [Task -> 0..MaxAttempts] /\ claims \in [Task -> Nat]
  BY DEF QueueTypeOK
<1>1. ASSUME NEW w \in Worker, NEW batch \in SUBSET Expired, ClaimReap(w, batch)
      PROVE  Steady
  <2>1. /\ taskState' = [t \in Task |-> IF t \in batch THEN ReapedState(t) ELSE taskState[t]]
        /\ lease' = [t \in Task |-> IF t \in batch THEN NoLease ELSE lease[t]]
        /\ UNCHANGED <<attemptCount, claims, granted>>
    BY <1>1 DEF ClaimReap
  <2>2. \A t \in Task : ReapedState(t) # "running"  BY DEF ReapedState
  <2>3. ASSUME NEW t \in Task PROVE Kept(t)
    BY <2>1, <2>2 DEF Kept, Running
  <2> QED  BY <2>1, <2>3 DEF Steady
<1>2. ASSUME NEW w \in Worker, ClaimNothing(w) PROVE Steady
  BY <1>2 DEF ClaimNothing, taskVars, Steady, Kept, Running
<1>3. ASSUME NEW w \in Worker, NEW t \in Task, NEW classes, NEW locked,
             ClaimTask(w, t, classes, locked)
      PROVE  \E l : Claimed(t, l)
  <2> DEFINE l == [task |-> t, owner |-> w, token |-> claims[t] + 1,
                   attempt |-> attemptCount[t] + 1,
                   release |-> BoundRelease(t), epoch |-> BoundEpoch(t)]
             columns == [owner |-> w, token |-> claims[t] + 1, started |-> now,
                         expires |-> now + LeaseTime]
  <2>1. /\ granted' = granted \cup {l}
        /\ taskState' = [taskState EXCEPT ![t] = "running"]
        /\ lease' = [lease EXCEPT ![t] = columns]
        /\ claims' = [claims EXCEPT ![t] = claims[t] + 1]
        /\ attemptCount' = [attemptCount EXCEPT ![t] = attemptCount[t] + 1]
    BY <1>3 DEF ClaimTask
  <2>2. l.task = t /\ l.token = claims[t] + 1 /\ l.attempt = attemptCount[t] + 1
        /\ columns.token = claims[t] + 1
    OBVIOUS
  <2> HIDE DEF l, columns
  <2>3. /\ lease'[t] = columns /\ claims'[t] = claims[t] + 1
        /\ attemptCount'[t] = attemptCount[t] + 1
    BY <1>0, <2>1
  <2>4. ASSUME NEW u \in Task \ {t} PROVE claims'[u] = claims[u] /\ Kept(u)
    <3>1. /\ taskState'[u] = taskState[u] /\ lease'[u] = lease[u]
          /\ claims'[u] = claims[u] /\ attemptCount'[u] = attemptCount[u]
      BY <1>0, <2>1
    <3> QED  BY <3>1 DEF Kept, Running
  <2> QED  BY <2>1, <2>2, <2>3, <2>4 DEF Claimed
<1> QED  BY <1>1, <1>2, <1>3 DEF ClaimStep

LEMMA HeartbeatSteady ==
    ASSUME QueueTypeOK, NEW l \in granted, Heartbeat(l)
    PROVE  Steady
<1>1. /\ l.task \in Task /\ lease \in [Task -> LeaseColumns]
      /\ lease[l.task] \in LeaseColumns
  BY GrantedTask DEF QueueTypeOK
<1>2. /\ lease' = [lease EXCEPT ![l.task] =
                      [lease[l.task] EXCEPT !.expires = Renewed(l.task)]]
      /\ UNCHANGED <<taskState, attemptCount, claims, granted>>
  BY DEF Heartbeat
<1>3. [lease[l.task] EXCEPT !.expires = Renewed(l.task)].token = lease[l.task].token
  BY <1>1 DEF LeaseColumns
<1>4. \A u \in Task : lease'[u].token = lease[u].token  BY <1>1, <1>2, <1>3
<1> QED  BY <1>2, <1>4 DEF Steady, Kept, Running

LEMMA DeferMove ==
    ASSUME QueueTypeOK, NEW l \in granted, NEW until
    PROVE  /\ Defer(l, until) => Steady
           /\ DeferBudget(l, until) => GivenBack(l)
<1>0. /\ l.task \in Task /\ taskState \in [Task -> TaskState]
      /\ lease \in [Task -> LeaseColumns] /\ attemptCount \in [Task -> 0..MaxAttempts]
  BY GrantedTask DEF QueueTypeOK
<1>1. ASSUME Defer(l, until) PROVE Steady
  <2>1. PICK o \in {"deferred", "failed"} : Close(l.task, o)  BY <1>1 DEF Defer
  <2> QED  BY <1>0, <2>1, CloseSteady
<1>2. ASSUME DeferBudget(l, until) PROVE GivenBack(l)
  <2>1. /\ Current(l) /\ attemptCount[l.task] = l.attempt
        /\ taskState' = [taskState EXCEPT ![l.task] = "deferred"]
        /\ attemptCount' = [attemptCount EXCEPT ![l.task] = attemptCount[l.task] - 1]
        /\ lease' = [lease EXCEPT ![l.task] = NoLease]
        /\ UNCHANGED <<claims, granted>>
    BY <1>2 DEF DeferBudget, Leased, Current
  <2>2. taskState'[l.task] = "deferred"
        /\ attemptCount'[l.task] = attemptCount[l.task] - 1
    BY <1>0, <2>1
  <2>3. ASSUME NEW u \in Task \ {l.task} PROVE Kept(u)
    <3>1. /\ taskState'[u] = taskState[u] /\ lease'[u] = lease[u]
          /\ attemptCount'[u] = attemptCount[u]
      BY <1>0, <2>1
    <3> QED  BY <3>1 DEF Kept, Running
  <2> QED  BY <2>1, <2>2, <2>3 DEF GivenBack, Running
<1> QED  BY <1>1, <1>2

(* The steps that leave the budget's own columns alone.                    *)
QuietStep ==
    \/ QueueStep
    \/ \E r \in replies, at \in Captured : DeferReply(r, at)
    \/ \E l \in granted, c \in Content, f \in 0..now : CompleteFetch(l, c, f)
    \/ \E l \in granted : FailFetch(l)

LEMMA QuietMove ==
    ASSUME QueueTypeOK, QueueKnown, QuietStep
    PROVE  UNCHANGED budgetOnlyVars /\ QueueKnown'
<1>1. ASSUME Steady, UNCHANGED budgetOnlyVars
      PROVE  UNCHANGED budgetOnlyVars /\ QueueKnown'
  BY <1>1, SteadyKnown DEF budgetOnlyVars
<1>2. ASSUME QueueStep PROVE UNCHANGED budgetOnlyVars /\ QueueKnown'
  <2>1. UNCHANGED budgetOnlyVars  BY <1>2 DEF QueueStep
  <2>2. CASE UNCHANGED queueVars
    <3>1. Steady  BY <2>2 DEF queueVars, taskVars, Steady, Kept, Running
    <3> QED  BY <1>1, <2>1, <3>1
  <2>3. CASE EnqueueStep  BY <1>1, <2>1, <2>3, EnqueueSteady
  <2>4. CASE ClaimStep
    BY <1>1, <2>1, <2>4, ClaimMove, ClaimedKnown DEF budgetOnlyVars
  <2>5. ASSUME NEW l \in granted, Heartbeat(l)
        PROVE  UNCHANGED budgetOnlyVars /\ QueueKnown'
    BY <1>1, <2>1, <2>5, HeartbeatSteady
  <2> QED  BY <1>2, <2>2, <2>3, <2>4, <2>5 DEF QueueStep
<1>3. ASSUME NEW r \in replies, NEW at \in Captured, DeferReply(r, at)
      PROVE  UNCHANGED budgetOnlyVars /\ QueueKnown'
  <2>1. r.lease \in granted  BY DEF QueueKnown, RepliesKnown
  <2>2. CASE Defer(r.lease, r.until)
    BY <1>1, <1>3, <2>1, <2>2, DeferMove DEF DeferReply
  <2>3. CASE r.code = "budget-exhausted" /\ DeferBudget(r.lease, r.until)
    BY <1>3, <2>1, <2>3, DeferMove, GivenBackKnown DEF DeferReply, budgetOnlyVars
  <2> QED  BY <1>3, <2>2, <2>3 DEF DeferReply
<1>4. ASSUME NEW l \in granted, NEW c \in Content, NEW f \in 0..now,
             CompleteFetch(l, c, f)
      PROVE  UNCHANGED budgetOnlyVars /\ QueueKnown'
  <2>1. l.task \in Task /\ Close(l.task, "succeeded")
    BY <1>4, GrantedTask DEF CompleteFetch, Complete
  <2> QED  BY <1>1, <1>4, <2>1, CloseSteady DEF CompleteFetch
<1>5. ASSUME NEW l \in granted, FailFetch(l)
      PROVE  UNCHANGED budgetOnlyVars /\ QueueKnown'
  <2>1. l.task \in Task /\ (Close(l.task, "deferred") \/ Close(l.task, "failed"))
    BY <1>5, GrantedTask DEF FailFetch, FailRetry, Fail
  <2> QED  BY <1>1, <1>5, <2>1, CloseSteady DEF FailFetch
<1> QED  BY <1>2, <1>3, <1>4, <1>5 DEF QuietStep

(* _validate_lease passes only the lease under which the task runs.        *)
LEMMA ValidatedFacts ==
    ASSUME BudgetTypeOK, QueueKnown, NEW l \in granted, NEW at, Validated(l, at)
    PROVE  /\ Current(l) /\ attemptCount[l.task] = l.attempt
           /\ l.task \in Task /\ l.attempt \in AttemptNumber
           /\ \A n \in AttemptNumber :
                 n > l.attempt => net[l.task][n].route = "unassigned"
<1>1. Current(l)  BY DEF Validated, Current
<1>2. attemptCount[l.task] = l.attempt  BY <1>1 DEF QueueKnown, LeasesDistinct
<1>3. l.task \in Task /\ l.attempt \in AttemptNumber  BY NetOfType
<1>4. \A n \in AttemptNumber : n \in Nat  BY DEF AttemptNumber
<1>5. \A n \in AttemptNumber : n > l.attempt => net[l.task][n].route = "unassigned"
  BY <1>2, <1>3, <1>4 DEF QueueKnown, StartsCounted
<1> QED  BY <1>1, <1>2, <1>3, <1>5

LEMMA RefuseKnown ==
    ASSUME BudgetTypeOK, QueueKnown, NEW l \in granted, NEW at, RefuseStart(l, at)
    PROVE  QueueKnown'
<1>0. QueueTypeOK  BY BudgetRows
<1>1. UNCHANGED vars /\ net' = net  BY DEF RefuseStart
<1>2. Steady  BY <1>1 DEF vars, queueVars, taskVars, Steady, Kept, Running
<1>3. /\ LeasesDistinct' /\ granted' = granted
      /\ \A m \in granted : Current(m)' => Current(m)
  BY <1>0, <1>2, SteadyLeases DEF QueueKnown, Steady
<1>4. \A r \in replies' \ replies : r.lease = l
  BY DEF RefuseStart
<1>5. RepliesKnown'  BY <1>3, <1>4 DEF QueueKnown, RepliesKnown
<1>6. NetOf(l).route = "unassigned"  BY DEF RefuseStart, Asking
<1>7. RefusedUnstarted'
  BY <1>1, <1>3, <1>4, <1>6 DEF QueueKnown, RepliesKnown, RefusedUnstarted, NetOf
<1>8. StartsCounted'  BY <1>1, <1>2 DEF QueueKnown, StartsCounted, Steady, Kept
<1> QED  BY <1>3, <1>5, <1>7, <1>8 DEF QueueKnown

LEMMA GrantKnown ==
    ASSUME BudgetTypeOK, now \in Instant, QueueKnown, NEW l \in granted,
           NEW at \in Captured, GrantStart(l, at)
    PROVE  QueueKnown'
<1>0. QueueTypeOK  BY BudgetRows
<1>1. Validated(l, at) /\ \A r \in replies : r.lease # l
  BY DEF GrantStart, Asking
<1>2. /\ Current(l) /\ attemptCount[l.task] = l.attempt
      /\ l.task \in Task /\ l.attempt \in AttemptNumber
  BY <1>1, ValidatedFacts
<1>3. PICK row \in NetRow : IsStartRow(l, at, row)  BY GrantRow
<1>4. \A u \in Task, m \in AttemptNumber :
         (u # l.task \/ m # l.attempt) => net'[u][m] = net[u][m]
  BY <1>2, <1>3, NetUpdate DEF IsStartRow
<1>5. UNCHANGED vars /\ replies' = replies  BY DEF GrantStart
<1>6. Steady  BY <1>5 DEF vars, queueVars, taskVars, Steady, Kept, Running
<1>7. /\ LeasesDistinct' /\ granted' = granted
      /\ \A m \in granted : Current(m)' => Current(m)
  BY <1>0, <1>6, SteadyLeases DEF QueueKnown, Steady
<1>8. RepliesKnown'  BY <1>5, <1>7 DEF QueueKnown, RepliesKnown
<1>9. RefusedUnstarted'
  <2> SUFFICES ASSUME NEW r \in replies, r.code = "budget-exhausted",
                      Current(r.lease)
               PROVE  NetOf(r.lease)'.route = "unassigned"
    BY <1>5, <1>7 DEF RefusedUnstarted, QueueKnown, RepliesKnown
  <2>1. r.lease \in granted  BY DEF QueueKnown, RepliesKnown
  <2>2. r.lease.task \in Task /\ r.lease.attempt \in AttemptNumber
    BY <1>0, <2>1, GrantedTask
  <2>3. r.lease.task # l.task
    BY <1>1, <1>2, <2>1 DEF QueueKnown, LeasesDistinct, Current
  <2>4. NetOf(r.lease)' = NetOf(r.lease)  BY <1>4, <2>2, <2>3 DEF NetOf
  <2> QED  BY <2>4 DEF QueueKnown, RefusedUnstarted
<1>10. StartsCounted'
  <2>1. attemptCount' = attemptCount /\ attemptCount[l.task] \in Nat
    BY <1>0, <1>2, <1>5, GrantedTask DEF vars, queueVars, taskVars
  <2> QED  BY <1>2, <1>4, <2>1 DEF QueueKnown, StartsCounted
<1> QED  BY <1>7, <1>8, <1>9, <1>10 DEF QueueKnown

LEMMA RecordKnown ==
    ASSUME BudgetTypeOK, now \in Instant, QueueKnown, NEW l \in granted,
           NEW at \in Captured, NEW p \in Report(l), RecordOutcome(l, p, at)
    PROVE  QueueKnown'
<1>0. QueueTypeOK  BY BudgetRows
<1>1. Validated(l, at) /\ NetOf(l).route # "unassigned"
  BY DEF RecordOutcome
<1>2. /\ Current(l) /\ attemptCount[l.task] = l.attempt
      /\ l.task \in Task /\ l.attempt \in AttemptNumber
  BY <1>1, ValidatedFacts
<1>3. PICK row \in NetRow : IsRecordedRow(l, p, at, row)  BY RecordRow
<1>4. \A u \in Task, m \in AttemptNumber : net'[u][m].route = net[u][m].route
  <2>1. /\ net \in [Task -> [AttemptNumber -> NetRow]]
        /\ net' = [net EXCEPT ![l.task][l.attempt] = row]
        /\ row.route = net[l.task][l.attempt].route
    BY <1>3 DEF IsRecordedRow, NetOf, BudgetTypeOK
  <2> QED  BY <1>2, <2>1
<1>5. Steady
  <2>1. CASE UNCHANGED vars
    BY <2>1 DEF vars, queueVars, taskVars, Steady, Kept, Running
  <2>2. CASE Close(l.task, "deferred")  BY <1>0, <1>2, <2>2, CloseSteady
  <2> QED  BY <2>1, <2>2 DEF RecordOutcome
<1>6. /\ LeasesDistinct' /\ granted' = granted
      /\ \A m \in granted : Current(m)' => Current(m)
  BY <1>0, <1>5, SteadyLeases DEF QueueKnown, Steady
<1>7. \A r \in replies' \ replies : r.lease = l /\ r.code = "source-cooldown"
  BY DEF RecordOutcome
<1>8. RepliesKnown'  BY <1>6, <1>7 DEF QueueKnown, RepliesKnown
<1>9. RefusedUnstarted'
  <2> SUFFICES ASSUME NEW r \in replies, r.code = "budget-exhausted",
                      Current(r.lease)'
               PROVE  NetOf(r.lease)'.route = "unassigned"
    BY <1>7 DEF RefusedUnstarted
  <2>1. r.lease \in granted  BY DEF QueueKnown, RepliesKnown
  <2>2. r.lease.task \in Task /\ r.lease.attempt \in AttemptNumber /\ Current(r.lease)
    BY <1>0, <1>6, <2>1, GrantedTask
  <2>3. NetOf(r.lease).route = "unassigned"  BY <2>2 DEF QueueKnown, RefusedUnstarted
  <2> QED  BY <1>4, <2>2, <2>3 DEF NetOf
<1>10. StartsCounted'  BY <1>4, <1>5 DEF QueueKnown, StartsCounted, Steady, Kept
<1> QED  BY <1>6, <1>8, <1>9, <1>10 DEF QueueKnown

-----------------------------------------------------------------------------
(* Types and leases are inductive *)

BudgetInv == ActivationInv /\ BudgetTypeOK /\ now \in Instant /\ QueueKnown

LEMMA BudgetInitInv == Init /\ BudgetInit => BudgetInv
<1> SUFFICES ASSUME Init, BudgetInit PROVE BudgetInv
  OBVIOUS
<1>1. ActivationInv /\ QueueTypeOK  BY InitInv, QueueInitType DEF Init
<1>2. TypeOK  BY <1>1 DEF TypeOK, ActivationInv
<1>3. now \in Instant  BY ActivationAssumption DEF Init, ActivationInit, Instant
<1>4. source \in SourceRow /\ source.attempts <= DailyAttempts
  BY BudgetConstants DEF BudgetInit, SourceRow
<1>5. NoNet \in NetRow  BY BudgetConstants DEF NoNet, NetRow
<1>6. BudgetTypeOK
  BY <1>2, <1>4, <1>5 DEF BudgetTypeOK, BudgetInit, SourceRow
<1>7. QueueKnown
  BY DEF Init, QueueInit, BudgetInit, QueueKnown, LeasesDistinct, RepliesKnown,
         RefusedUnstarted, StartsCounted, NoNet
<1> QED  BY <1>1, <1>3, <1>6, <1>7 DEF BudgetInv

(* A network step is a stutter of the activation.                          *)
LEMMA NetworkStutters ==
    ASSUME NetworkStep
    PROVE  UNCHANGED activationVars
<1>1. CASE \E l \in granted, at \in Captured : RefuseStart(l, at) \/ GrantStart(l, at)
  BY <1>1 DEF RefuseStart, GrantStart, vars
<1>2. ASSUME NEW l \in granted, NEW at \in Captured, NEW p \in Report(l),
             RecordOutcome(l, p, at)
      PROVE  UNCHANGED activationVars
  BY <1>2 DEF RecordOutcome, Close, vars
<1>3. CASE \E r \in Route : RegisterProxyRoute(r)
  BY <1>3 DEF RegisterProxyRoute, vars
<1>4. CASE \E r \in replies, at \in Captured : DeferReply(r, at)
  BY <1>4 DEF DeferReply, Defer, DeferBudget, Close
<1>5. ASSUME NEW l \in granted, NEW c \in Content, NEW f \in 0..now, CompleteFetch(l, c, f)
      PROVE  UNCHANGED activationVars
  BY <1>5 DEF CompleteFetch, Complete, Close
<1>6. ASSUME NEW l \in granted, FailFetch(l) PROVE UNCHANGED activationVars
  BY <1>6 DEF FailFetch, FailRetry, Fail, Close
<1> QED  BY <1>1, <1>2, <1>3, <1>4, <1>5, <1>6 DEF NetworkStep

(* Time passes by single ticks within the horizon.                         *)
LEMMA NowStep ==
    ASSUME [BudgetNext]_budgetVars
    PROVE  \/ now' = now
           \/ now < MaxTime /\ now' = now + 1
<1>1. CASE UNCHANGED budgetVars
  BY <1>1 DEF budgetVars, vars, activationVars
<1>2. CASE ActivationNext
  BY <1>2 DEF ActivationNext, Tick, RegisterWorker, RegisterRelease, Activate,
              RollbackRead, RollbackChange, Change
<1>3. CASE EnqueueStep \/ ClaimStep \/ \E l \in granted : Heartbeat(l)
  BY <1>3, QueueStutters DEF Heartbeat, activationVars
<1>4. CASE NetworkStep  BY <1>4, NetworkStutters DEF activationVars
<1> QED  BY <1>1, <1>2, <1>3, <1>4 DEF BudgetNext, QueueStep

LEMMA BudgetActivation ==
    ASSUME ActivationInv, [BudgetNext]_budgetVars
    PROVE  ActivationInv'
<1>1. [ActivationNext]_activationVars
  <2>1. CASE NetworkStep  BY <2>1, NetworkStutters
  <2>2. CASE UNCHANGED budgetVars  BY <2>2 DEF budgetVars, vars
  <2>3. CASE ActivationNext  BY <2>3
  <2>4. CASE EnqueueStep \/ ClaimStep  BY <2>4, QueueStutters
  <2>5. CASE \E l \in granted : Heartbeat(l)  BY <2>5 DEF Heartbeat
  <2> QED  BY <2>1, <2>2, <2>3, <2>4, <2>5 DEF BudgetNext, QueueStep
<1> QED  BY <1>1, NextInv

(* The queue's part of a step that leaves the budget's columns alone.      *)
LEMMA QuietQueueType ==
    ASSUME ActivationInv, BudgetTypeOK, QueueKnown, QuietStep
    PROVE  QueueTypeOK'
<1>0. TypeOK /\ QueueTypeOK  BY BudgetRows
<1>1. CASE QueueStep
  <2>1. CASE ActivationNext /\ UNCHANGED queueVars
    BY <1>0, <2>1, NextType DEF Next
  <2>2. CASE EnqueueStep \/ ClaimStep
    BY <1>0, <2>2, NextType DEF Next
  <2>3. CASE \E l \in granted : Heartbeat(l)
    BY <1>0, <2>3, FinishStepType DEF FinishStep
  <2> QED  BY <1>1, <2>1, <2>2, <2>3 DEF QueueStep
<1>2. ASSUME NEW r \in replies, NEW at \in Captured, DeferReply(r, at)
      PROVE  QueueTypeOK'
  <2>1. r.lease \in granted  BY DEF QueueKnown, RepliesKnown
  <2>2. r.until \in Nat  BY BudgetRows DEF ReplyRow
  <2> QED  BY <1>0, <1>2, <2>1, <2>2, DeferType DEF DeferReply
<1>3. ASSUME NEW l \in granted, NEW c \in Content, NEW f \in 0..now,
             CompleteFetch(l, c, f)
      PROVE  QueueTypeOK'
  BY <1>0, <1>3, CompleteStepType DEF CompleteFetch, CompleteStep
<1>4. ASSUME NEW l \in granted, FailFetch(l)
      PROVE  QueueTypeOK'
  BY <1>0, <1>4, FinishStepType DEF FailFetch, FinishStep
<1> QED  BY <1>1, <1>2, <1>3, <1>4 DEF QuietStep

LEMMA RecordQueueType ==
    ASSUME BudgetTypeOK, now \in Instant, NEW l \in granted, NEW at \in Captured,
           NEW p \in Report(l), RecordOutcome(l, p, at)
    PROVE  QueueTypeOK'
<1>0. QueueTypeOK /\ l.task \in Task  BY BudgetRows, NetOfType
<1>1. CASE UNCHANGED vars
  BY <1>0, <1>1 DEF vars, queueVars, taskVars, QueueTypeOK
<1>2. CASE /\ Close(l.task, "deferred")
           /\ availableAt' = [availableAt EXCEPT ![l.task] = RetryDirectAt(p, at)]
           /\ UNCHANGED <<accepted, acked>>
  <2>1. RetryDirectAt(p, at) \in Nat
    BY BudgetRows, InstantFacts, CooldownUntilIsNat
  <2> QED  BY <1>0, <1>2, <2>1, CloseType DEF QueueTypeOK
<1> QED  BY <1>1, <1>2 DEF RecordOutcome

(* The next-state relation, sorted by what a step does to the budget.      *)
LEMMA BudgetCases ==
    ASSUME [BudgetNext]_budgetVars
    PROVE  \/ UNCHANGED budgetVars
           \/ QuietStep
           \/ \E l \in granted, at \in Captured : RefuseStart(l, at)
           \/ \E l \in granted, at \in Captured : GrantStart(l, at)
           \/ \E l \in granted, at \in Captured : \E p \in Report(l) :
                 RecordOutcome(l, p, at)
           \/ \E r \in Route : RegisterProxyRoute(r)
  BY DEF BudgetNext, NetworkStep, QuietStep

LEMMA BudgetNextInv == BudgetInv /\ [BudgetNext]_budgetVars => BudgetInv'
<1> SUFFICES ASSUME BudgetInv, [BudgetNext]_budgetVars PROVE BudgetInv'
  OBVIOUS
<1>0. ActivationInv /\ BudgetTypeOK /\ now \in Instant /\ QueueKnown /\ QueueTypeOK
  BY BudgetRows DEF BudgetInv
<1>1. ActivationInv' /\ ActivationTypeOK'
  BY <1>0, BudgetActivation DEF ActivationInv
<1>2. (now \in Instant)'
  BY <1>0, NowStep, ActivationAssumption DEF Instant
<1>3. QueueTypeOK' => TypeOK'  BY <1>1 DEF TypeOK
<1>5. ASSUME UNCHANGED budgetVars PROVE BudgetTypeOK' /\ QueueKnown'
  <2>1. UNCHANGED vars /\ UNCHANGED <<net, replies>>
    BY <1>5 DEF budgetVars, budgetOnlyVars
  <2>2. QueueTypeOK' /\ QueueKnown'
    BY <1>0, <2>1, SteadyKnown
    DEF vars, queueVars, taskVars, QueueTypeOK, Steady, Kept, Running
  <2> QED
    BY <1>0, <1>3, <1>5, <2>2, BudgetRows, BudgetRowsNext DEF budgetVars, budgetOnlyVars
<1>6. ASSUME QuietStep PROVE BudgetTypeOK' /\ QueueKnown'
  <2>1. QueueTypeOK'  BY <1>0, <1>6, QuietQueueType
  <2>2. UNCHANGED budgetOnlyVars /\ QueueKnown'  BY <1>0, <1>6, QuietMove
  <2> QED
    BY <1>0, <1>3, <2>1, <2>2, BudgetRows, BudgetRowsNext DEF budgetOnlyVars
<1>7. ASSUME UNCHANGED vars PROVE QueueTypeOK'
  BY <1>0, <1>7 DEF vars, queueVars, taskVars, QueueTypeOK
<1>8. ASSUME NEW l \in granted, NEW at \in Captured, RefuseStart(l, at)
      PROVE  BudgetTypeOK' /\ QueueKnown'
  <2>1. TypeOK'  BY <1>3, <1>7, <1>8 DEF RefuseStart
  <2> QED  BY <1>0, <1>8, <2>1, RefuseTypes, RefuseKnown
<1>9. ASSUME NEW l \in granted, NEW at \in Captured, GrantStart(l, at)
      PROVE  BudgetTypeOK' /\ QueueKnown'
  <2>1. TypeOK'  BY <1>3, <1>7, <1>9 DEF GrantStart
  <2> QED  BY <1>0, <1>9, <2>1, GrantTypes, GrantKnown
<1>10. ASSUME NEW l \in granted, NEW at \in Captured, NEW p \in Report(l),
              RecordOutcome(l, p, at)
       PROVE  BudgetTypeOK' /\ QueueKnown'
  <2>1. TypeOK'  BY <1>0, <1>3, <1>10, RecordQueueType
  <2> QED  BY <1>0, <1>10, <2>1, RecordTypes, RecordKnown
<1>11. ASSUME NEW r \in Route, RegisterProxyRoute(r)
       PROVE  BudgetTypeOK' /\ QueueKnown'
  <2>1. QueueTypeOK'  BY <1>7, <1>11 DEF RegisterProxyRoute
  <2>2. Steady
    BY <1>11 DEF RegisterProxyRoute, vars, queueVars, taskVars, Steady, Kept, Running
  <2>3. QueueKnown'  BY <1>0, <1>11, <2>2, SteadyKnown DEF RegisterProxyRoute
  <2>4. routeHealthy' \in [Route -> BOOLEAN]
    BY <1>0, <1>11, BudgetRows DEF RegisterProxyRoute
  <2> QED
    BY <1>0, <1>3, <1>11, <2>1, <2>3, <2>4, BudgetRows, BudgetRowsNext
    DEF RegisterProxyRoute
<1> QED
  BY <1>1, <1>2, <1>5, <1>6, <1>8, <1>9, <1>10, <1>11, BudgetCases DEF BudgetInv

(* The rows of the budget keep their types, the attempts of a day their    *)
(* limit included, and leases are distinct, for every constant.            *)
THEOREM BudgetTypesAlways == BudgetSpec => []BudgetInv
  BY BudgetInitInv, BudgetNextInv, PTL DEF BudgetSpec

-----------------------------------------------------------------------------
(* Pacing *)

(* The next start is at least one interval after every start.              *)
PacedNext == \A k \in StartKeys : RowOf(k).started + MinInterval <= source.nextStart

Paced == PacedNext /\ PortalPacing

LEMMA StartKeysFacts ==
    ASSUME BudgetTypeOK, NEW k \in StartKeys
    PROVE  /\ k[1] \in Task /\ k[2] \in AttemptNumber /\ k = <<k[1], k[2]>>
           /\ RowOf(k) = net[k[1]][k[2]] /\ RowOf(k) \in NetRow
           /\ RowOf(k).route # "unassigned" /\ RowOf(k).started \in Nat
           /\ RowOf(k).recorded \in Nat /\ RowOf(k).retryAfter \in Nat
<1>1. k[1] \in Task /\ k[2] \in AttemptNumber /\ k = <<k[1], k[2]>>
      /\ net[k[1]][k[2]].route # "unassigned"
  BY DEF StartKeys
<1>2. RowOf(k) = net[k[1]][k[2]]  BY DEF RowOf
<1>3. RowOf(k) \in NetRow  BY <1>1, <1>2 DEF BudgetTypeOK
<1> QED  BY <1>1, <1>2, <1>3 DEF NetRow

(* A grant adds one row to the starts and changes no other.                *)
LEMMA GrantKeys ==
    ASSUME BudgetTypeOK, now \in Instant, QueueKnown, NEW l \in granted,
           NEW at \in Captured, GrantStart(l, at), NEW row \in NetRow,
           IsStartRow(l, at, row)
    PROVE  /\ StartKeys' = StartKeys \cup {<<l.task, l.attempt>>}
           /\ <<l.task, l.attempt>> \notin StartKeys
           /\ RowOf(<<l.task, l.attempt>>)' = row
           /\ \A k \in StartKeys : RowOf(k)' = RowOf(k)
<1>1. l.task \in Task /\ l.attempt \in AttemptNumber  BY NetOfType
<1>2. /\ net'[l.task][l.attempt] = row
      /\ \A u \in Task, m \in AttemptNumber :
            (u # l.task \/ m # l.attempt) => net'[u][m] = net[u][m]
  <2>1. net' = [net EXCEPT ![l.task] = [net[l.task] EXCEPT ![l.attempt] = row]]
    BY DEF IsStartRow
  <2>2. net \in [Task -> [AttemptNumber -> NetRow]]  BY BudgetRows
  <2> QED  BY <1>1, <2>1, <2>2
<1>3. net[l.task][l.attempt].route = "unassigned" /\ row.route # "unassigned"
  BY DEF GrantStart, Asking, NetOf, IsStartRow
<1>4. <<l.task, l.attempt>> \notin StartKeys  BY <1>3 DEF StartKeys
<1>5. ASSUME NEW k \in Task \X AttemptNumber, k # <<l.task, l.attempt>>
      PROVE  RowOf(k)' = RowOf(k)
  BY <1>2, <1>5 DEF RowOf
<1>6. RowOf(<<l.task, l.attempt>>)' = row  BY <1>2 DEF RowOf
<1>7. ASSUME NEW k \in Task \X AttemptNumber
      PROVE  k \in StartKeys' <=> k \in StartKeys \/ k = <<l.task, l.attempt>>
  <2>1. CASE k = <<l.task, l.attempt>>  BY <1>1, <1>3, <1>6, <2>1 DEF StartKeys, RowOf
  <2>2. CASE k # <<l.task, l.attempt>>
    BY <1>5, <2>2 DEF StartKeys, RowOf
  <2> QED  BY <2>1, <2>2
<1>8. StartKeys' \subseteq Task \X AttemptNumber /\ StartKeys \subseteq Task \X AttemptNumber
      /\ <<l.task, l.attempt>> \in Task \X AttemptNumber
  BY <1>1 DEF StartKeys
<1> QED  BY <1>4, <1>5, <1>6, <1>7, <1>8

(* An outcome changes one row of the starts.                               *)
LEMMA RecordKeys ==
    ASSUME BudgetTypeOK, NEW l \in granted, NEW at, NEW p, RecordOutcome(l, p, at),
           NEW row \in NetRow, IsRecordedRow(l, p, at, row)
    PROVE  /\ StartKeys' = StartKeys
           /\ <<l.task, l.attempt>> \in StartKeys
           /\ RowOf(<<l.task, l.attempt>>)' = row
           /\ RowOf(<<l.task, l.attempt>>) = NetOf(l)
           /\ \A k \in StartKeys : k # <<l.task, l.attempt>> => RowOf(k)' = RowOf(k)
<1>1. l.task \in Task /\ l.attempt \in AttemptNumber  BY NetOfType
<1>2. /\ net'[l.task][l.attempt] = row
      /\ \A u \in Task, m \in AttemptNumber :
            (u # l.task \/ m # l.attempt) => net'[u][m] = net[u][m]
  <2>1. net' = [net EXCEPT ![l.task] = [net[l.task] EXCEPT ![l.attempt] = row]]
    BY DEF IsRecordedRow
  <2>2. net \in [Task -> [AttemptNumber -> NetRow]]  BY BudgetRows
  <2> QED  BY <1>1, <2>1, <2>2
<1>3. NetOf(l).route # "unassigned" /\ row.route = NetOf(l).route
  BY DEF RecordOutcome, IsRecordedRow
<1>4. <<l.task, l.attempt>> \in StartKeys /\ RowOf(<<l.task, l.attempt>>) = NetOf(l)
  BY <1>1, <1>3 DEF StartKeys, RowOf, NetOf
<1>5. ASSUME NEW k \in Task \X AttemptNumber, k # <<l.task, l.attempt>>
      PROVE  RowOf(k)' = RowOf(k)
  BY <1>2, <1>5 DEF RowOf
<1>6. RowOf(<<l.task, l.attempt>>)' = row  BY <1>2 DEF RowOf
<1>7. ASSUME NEW k \in Task \X AttemptNumber
      PROVE  k \in StartKeys' <=> k \in StartKeys
  <2>1. CASE k = <<l.task, l.attempt>>
    BY <1>1, <1>3, <1>4, <1>6, <2>1 DEF StartKeys, RowOf
  <2>2. CASE k # <<l.task, l.attempt>>
    BY <1>5, <2>2 DEF StartKeys, RowOf
  <2> QED  BY <2>1, <2>2
<1>8. StartKeys' \subseteq Task \X AttemptNumber /\ StartKeys \subseteq Task \X AttemptNumber
  BY DEF StartKeys
<1> QED  BY <1>4, <1>5, <1>6, <1>7, <1>8

LEMMA PacedStep == BudgetInv /\ Paced /\ [BudgetNext]_budgetVars => Paced'
<1> SUFFICES ASSUME BudgetInv, Paced, [BudgetNext]_budgetVars PROVE Paced'
  OBVIOUS
<1>0. BudgetTypeOK /\ now \in Instant /\ QueueKnown /\ source.nextStart \in Nat
  BY BudgetRows DEF BudgetInv, SourceRow
<1>1. ASSUME net' = net, source'.nextStart = source.nextStart PROVE Paced'
  BY <1>1 DEF Paced, PacedNext, PortalPacing, StartKeys, RowOf
<1>2. CASE UNCHANGED budgetOnlyVars  BY <1>1, <1>2 DEF budgetOnlyVars
<1>3. ASSUME NEW l \in granted, NEW at \in Captured, RefuseStart(l, at) PROVE Paced'
  <2>1. DayOf[at] \in Nat  BY <1>0, BudgetRows, InstantFacts
  <2> QED  BY <1>0, <1>1, <1>3, <2>1, SourceOnType DEF RefuseStart
<1>4. ASSUME NEW l \in granted, NEW at \in Captured, GrantStart(l, at) PROVE Paced'
  <2>1. PICK row \in NetRow : IsStartRow(l, at, row)  BY <1>0, <1>4, GrantRow
  <2> DEFINE key == <<l.task, l.attempt>>
  <2>2. /\ StartKeys' = StartKeys \cup {key} /\ RowOf(key)' = row
        /\ \A k \in StartKeys : RowOf(k)' = RowOf(k)
    BY <1>0, <1>4, <2>1, GrantKeys
  <2>3. row.started = at /\ source'.nextStart = at + MinInterval
        /\ at \in Nat /\ MinInterval \in Nat
    BY <1>0, <1>4, <2>1, GrantEffect, BudgetRows, InstantFacts, BudgetConstants
    DEF IsStartRow
  <2>4. source.nextStart <= at
    <3>1. l.task \in Task  BY <1>0, NetOfType
    <3>2. OpensAt(l.task, at) >= source.nextStart /\ OpensAt(l.task, at) \in Nat
      BY <1>0, <2>3, <3>1, OpensAtFacts
    <3> QED  BY <1>0, <1>4, <2>3, <3>2 DEF GrantStart
  <2> HIDE DEF key
  <2>5. ASSUME NEW k \in StartKeys
        PROVE  /\ RowOf(k)' = RowOf(k) /\ RowOf(k).started \in Nat
               /\ RowOf(k).started + MinInterval <= at
    <3>1. RowOf(k).started + MinInterval <= source.nextStart
      BY DEF Paced, PacedNext
    <3>2. RowOf(k).started \in Nat  BY <1>0, StartKeysFacts
    <3> QED  BY <1>0, <2>2, <2>3, <2>4, <3>1, <3>2
  <2>6. PacedNext'
    <3> SUFFICES ASSUME NEW k \in StartKeys'
                 PROVE  RowOf(k)'.started + MinInterval <= source'.nextStart
      BY DEF PacedNext
    <3>1. CASE k = key  BY <2>2, <2>3, <3>1
    <3>2. CASE k \in StartKeys  BY <2>3, <2>5, <3>2
    <3> QED  BY <2>2, <3>1, <3>2
  <2>7. PortalPacing'
    <3> SUFFICES ASSUME NEW j \in StartKeys', NEW k \in StartKeys', j # k
                 PROVE  \/ RowOf(j)'.started + MinInterval <= RowOf(k)'.started
                        \/ RowOf(k)'.started + MinInterval <= RowOf(j)'.started
      BY DEF PortalPacing
    <3>1. CASE j \in StartKeys /\ k \in StartKeys
      BY <2>5, <3>1 DEF Paced, PortalPacing
    <3>2. CASE j = key /\ k \in StartKeys  BY <2>2, <2>3, <2>5, <3>2
    <3>3. CASE j \in StartKeys /\ k = key  BY <2>2, <2>3, <2>5, <3>3
    <3> QED  BY <2>2, <3>1, <3>2, <3>3
  <2> QED  BY <2>6, <2>7 DEF Paced
<1>5. ASSUME NEW l \in granted, NEW at \in Captured, NEW p \in Report(l),
             RecordOutcome(l, p, at)
      PROVE  Paced'
  <2>1. PICK row \in NetRow : IsRecordedRow(l, p, at, row)  BY <1>0, <1>5, RecordRow
  <2> DEFINE key == <<l.task, l.attempt>>
  <2>2. /\ StartKeys' = StartKeys /\ RowOf(key)' = row /\ RowOf(key) = NetOf(l)
        /\ \A k \in StartKeys : k # key => RowOf(k)' = RowOf(k)
    BY <1>0, <1>5, <2>1, RecordKeys
  <2>3. row.started = NetOf(l).started /\ source'.nextStart = source.nextStart
    BY <1>0, <1>5, <2>1, RecordSource DEF IsRecordedRow
  <2> HIDE DEF key
  <2>4. \A k \in StartKeys : RowOf(k)'.started = RowOf(k).started
    BY <2>2, <2>3
  <2> QED  BY <2>2, <2>3, <2>4 DEF Paced, PacedNext, PortalPacing
<1>6. ASSUME NEW r \in Route, RegisterProxyRoute(r) PROVE Paced'
  BY <1>1, <1>6 DEF RegisterProxyRoute
<1>7. CASE QuietStep
  <2>1. QueueTypeOK  BY <1>0, BudgetRows
  <2> QED  BY <1>0, <1>2, <1>7, <2>1, QuietMove
<1> QED
  BY <1>2, <1>3, <1>4, <1>5, <1>6, <1>7, BudgetCases DEF budgetVars

(* AC-N1 for every policy, calendar and number of workers, and however old *)
(* the clock values are the operations work with.                          *)
THEOREM PortalPacingAlways == BudgetSpec => []PortalPacing
<1>1. Init /\ BudgetInit => Paced
  BY DEF BudgetInit, NoNet, Paced, PacedNext, PortalPacing, StartKeys
<1>2. Paced => PortalPacing  BY DEF Paced
<1> QED
  BY <1>1, <1>2, PacedStep, BudgetInitInv, BudgetNextInv, PTL DEF BudgetSpec

-----------------------------------------------------------------------------
(* Direct fallbacks *)

(* A proxy let the task down in this attempt.                              *)
Troubled(t, n) ==
    /\ net[t][n].route = "proxy"
    /\ net[t][n].class \in {"portal-denial", "proxy-infrastructure-failure"}

EarliestFallback(t, n) ==
    net[t][n].recorded + Later(FallbackDelay, net[t][n].retryAfter)

(* Attempt m is the direct one that is due after attempt n.                *)
Repaid(t, n, m) ==
    /\ net[t][m].route = "direct"
    /\ net[t][n].class = "portal-denial" =>
          net[t][m].started >= EarliestFallback(t, n)

Newest(t, n) == \A m \in AttemptNumber : m > n => net[t][m].route = "unassigned"

(* The task row says that a direct start is due after attempt n, and when. *)
Owed(t, n) ==
    /\ fallback[t].pending
    /\ net[t][n].class = "portal-denial" => fallback[t].at >= EarliestFallback(t, n)

(* After a proxy let a task down the fallback is owed until it is repaid.  *)
FallbackOf(t, n) ==
    Troubled(t, n) => /\ \A m \in NextStart(t, n) : Repaid(t, n, m)
                      /\ Newest(t, n) => Owed(t, n)

FallbackOwed == \A t \in Task, n \in AttemptNumber : FallbackOf(t, n)

LEMMA FallbackOwedEnough == BudgetTypeOK /\ FallbackOwed => FallbackIsDirect
<1> SUFFICES ASSUME BudgetTypeOK, FallbackOwed, NEW k \in StartKeys,
                    Troubled(k[1], k[2]), NEW m \in NextStart(k[1], k[2])
             PROVE  Repaid(k[1], k[2], m)
  BY StartKeysFacts DEF FallbackIsDirect, Repaid, EarliestFallback, Troubled, RowOf
<1>1. k[1] \in Task /\ k[2] \in AttemptNumber  BY StartKeysFacts
<1> QED  BY <1>1 DEF FallbackOwed, FallbackOf

(* Only the rows of one attempt and the fallback of its task changed.      *)
LEMMA FallbackElsewhere ==
    ASSUME BudgetTypeOK, FallbackOwed, NEW t \in Task,
           \A u \in Task \ {t}, m \in AttemptNumber : net'[u][m] = net[u][m],
           \A u \in Task \ {t} : fallback'[u] = fallback[u],
           \A n \in AttemptNumber : FallbackOf(t, n)'
    PROVE  FallbackOwed'
<1> SUFFICES ASSUME NEW u \in Task, NEW n \in AttemptNumber, u # t
             PROVE  FallbackOf(u, n)'
  BY DEF FallbackOwed
<1>1. \A m \in AttemptNumber : net'[u][m] = net[u][m]  OBVIOUS
<1>2. \A m \in (n + 1)..MaxAttempts : m \in AttemptNumber
  BY QueueAssumption DEF AttemptNumber
<1>3. \A m \in (n + 1)..MaxAttempts : \A i \in (n + 1)..(m - 1) : i \in AttemptNumber
  BY QueueAssumption DEF AttemptNumber
<1>4. NextStart(u, n)' = NextStart(u, n)  BY <1>1, <1>2, <1>3 DEF NextStart
<1>5. \A m \in NextStart(u, n) : m \in AttemptNumber  BY <1>2 DEF NextStart
<1>6. FallbackOf(u, n)  BY DEF FallbackOwed
<1>7. /\ Troubled(u, n)' <=> Troubled(u, n)
      /\ Newest(u, n)' <=> Newest(u, n)
      /\ Owed(u, n)' <=> Owed(u, n)
      /\ \A m \in AttemptNumber : Repaid(u, n, m)' <=> Repaid(u, n, m)
  BY <1>1 DEF Troubled, Newest, Owed, Repaid, EarliestFallback
<1> QED  BY <1>4, <1>5, <1>6, <1>7 DEF FallbackOf

LEMMA AttemptOrder ==
    ASSUME NEW n \in AttemptNumber, NEW m \in (n + 1)..MaxAttempts
    PROVE  /\ m \in AttemptNumber /\ m \in Nat /\ n \in Nat /\ m > n
           /\ \A i \in (n + 1)..(m - 1) : i \in AttemptNumber /\ i < m /\ i > n
  BY QueueAssumption DEF AttemptNumber

LEMMA FallbackGrant ==
    ASSUME BudgetTypeOK, now \in Instant, QueueKnown, FallbackOwed,
           NEW l \in granted, NEW at \in Captured, GrantStart(l, at)
    PROVE  FallbackOwed'
<1> DEFINE t == l.task  a == l.attempt
<1>1. t \in Task /\ a \in AttemptNumber /\ at \in Nat
  BY NetOfType, BudgetRows, InstantFacts
<1>2. PICK row \in NetRow : IsStartRow(l, at, row)  BY GrantRow
<1>3. /\ net'[t][a] = row
      /\ \A u \in Task, m \in AttemptNumber :
            (u # t \/ m # a) => net'[u][m] = net[u][m]
  <2>1. net' = [net EXCEPT ![t] = [net[t] EXCEPT ![a] = row]]  BY <1>2 DEF IsStartRow
  <2>2. net \in [Task -> [AttemptNumber -> NetRow]]  BY BudgetRows
  <2> HIDE DEF t, a
  <2> QED  BY <1>1, <2>1, <2>2
<1>4. /\ row.class = "none" /\ row.started = at
      /\ row.route = IF ThroughProxy(t, at) THEN "proxy" ELSE "direct"
  BY <1>2 DEF IsStartRow
<1>5. net[t][a].route = "unassigned" /\ Newest(t, a)
  BY <1>1, ValidatedFacts DEF GrantStart, Asking, NetOf, Newest
<1>6. fallback' = [fallback EXCEPT ![t] = [pending |-> FALSE, at |-> 0]]
  BY DEF GrantStart
<1>7. fallback[t].pending => ~ThroughProxy(t, at) /\ at >= fallback[t].at
  <2>1. /\ OpensAt(t, at) \in Nat
        /\ fallback[t].pending => OpensAt(t, at) >= fallback[t].at
    BY <1>1, OpensAtFacts
  <2>2. OpensAt(t, at) <= at  BY DEF GrantStart
  <2>3. fallback[t].at \in Nat  BY <1>1 DEF BudgetTypeOK
  <2> HIDE DEF t
  <2>4. ASSUME fallback[t].pending PROVE at >= fallback[t].at
    <3>1. OpensAt(t, at) >= fallback[t].at  BY <2>1, <2>4, Zenon
    <3>2. OpensAt(t, at) \in Nat  BY <2>1, Zenon
    <3> QED  BY <1>1, <2>2, <2>3, <3>1, <3>2
  <2>5. fallback[t].pending => ~ThroughProxy(t, at)  BY Zenon DEF ThroughProxy
  <2> QED  BY <2>4, <2>5
<1> HIDE DEF t, a
<1>8. ASSUME NEW n \in AttemptNumber PROVE FallbackOf(t, n)'
  <2> SUFFICES ASSUME Troubled(t, n)'
               PROVE  /\ \A m \in NextStart(t, n)' : Repaid(t, n, m)'
                      /\ ~Newest(t, n)'
    BY DEF FallbackOf
  <2>1. n # a  BY <1>3, <1>4 DEF Troubled
  <2>2. net'[t][n] = net[t][n] /\ Troubled(t, n)
    BY <1>1, <1>3, <2>1 DEF Troubled
  <2>3. n < a
    <3>1. n \in Nat /\ a \in Nat  BY <1>1 DEF AttemptNumber
    <3>2. ~(n > a)  BY <1>5, <2>2 DEF Newest, Troubled
    <3> QED  BY <2>1, <3>1, <3>2
  <2>4. ~Newest(t, n)'
    <3>1. net'[t][a].route # "unassigned"  BY <1>3, <1>4
    <3> QED  BY <1>1, <2>3, <3>1 DEF Newest, AttemptNumber
  <2>5. FallbackOf(t, n)  BY <1>1 DEF FallbackOwed
  <2>6. EarliestFallback(t, n)' = EarliestFallback(t, n)
    BY <2>2 DEF EarliestFallback
  <2>7. ASSUME NEW m \in NextStart(t, n)' PROVE Repaid(t, n, m)'
    <3>1. /\ m \in (n + 1)..MaxAttempts /\ net'[t][m].route # "unassigned"
          /\ \A i \in (n + 1)..(m - 1) : net'[t][i].route = "unassigned"
      BY DEF NextStart
    <3>2. /\ m \in AttemptNumber /\ m \in Nat /\ n \in Nat /\ m > n
          /\ \A i \in (n + 1)..(m - 1) : i \in AttemptNumber /\ i < m /\ i > n
      BY <3>1, AttemptOrder
    <3>3. CASE m = a
      <4>1. ASSUME NEW i \in AttemptNumber, i > n
            PROVE  net[t][i].route = "unassigned"
        <5>1. i \in Nat /\ a \in Nat  BY <1>1 DEF AttemptNumber
        <5>2. CASE i > a  BY <1>5, <5>2 DEF Newest
        <5>3. CASE i = a  BY <1>5, <5>3
        <5>4. CASE i < a
          <6>1. i \in (n + 1)..(m - 1)  BY <3>2, <3>3, <4>1, <5>1, <5>4
          <6> QED  BY <1>1, <1>3, <3>1, <5>1, <5>4, <6>1
        <5> QED  BY <5>1, <5>2, <5>3, <5>4
      <4>2. Newest(t, n)  BY <4>1 DEF Newest
      <4>3. Owed(t, n)  BY <2>2, <2>5, <4>2 DEF FallbackOf
      <4>4. net'[t][m].route = "direct" /\ net'[t][m].started = at
        BY <1>3, <1>4, <1>7, <3>3, <4>3 DEF Owed
      <4>5. net[t][n].class = "portal-denial" => at >= EarliestFallback(t, n)
        <5>1. /\ fallback[t].at \in Nat /\ net[t][n].recorded \in Nat
              /\ net[t][n].retryAfter \in Nat
          BY <1>1 DEF BudgetTypeOK, NetRow
        <5>2. EarliestFallback(t, n) \in Nat
          <6>1. Later(FallbackDelay, net[t][n].retryAfter) \in Nat
            BY <5>1, BudgetConstants, LaterIsNat
          <6> QED  BY <5>1, <6>1 DEF EarliestFallback
        <5> QED  BY <1>1, <1>7, <4>3, <5>1, <5>2 DEF Owed
      <4> QED  BY <2>2, <2>6, <4>4, <4>5 DEF Repaid
    <3>4. CASE m # a
      <4>1. net'[t][m] = net[t][m]  BY <1>1, <1>3, <3>2, <3>4
      <4>2. m < a
        <5>1. a \in Nat  BY <1>1 DEF AttemptNumber
        <5>2. ~(m > a)  BY <1>5, <3>1, <3>2, <4>1 DEF Newest
        <5> QED  BY <3>2, <3>4, <5>1, <5>2
      <4>3. \A i \in (n + 1)..(m - 1) : net'[t][i] = net[t][i]
        <5>1. a \in Nat  BY <1>1 DEF AttemptNumber
        <5>2. \A i \in AttemptNumber : i \in Nat  BY DEF AttemptNumber
        <5> QED  BY <1>1, <1>3, <3>2, <4>2, <5>1, <5>2
      <4>4. m \in NextStart(t, n)  BY <3>1, <4>1, <4>3 DEF NextStart
      <4>5. Repaid(t, n, m)  BY <2>2, <2>5, <4>4 DEF FallbackOf
      <4> QED  BY <2>2, <2>6, <4>1, <4>5 DEF Repaid
    <3> QED  BY <3>3, <3>4
  <2> QED  BY <2>4, <2>7
<1>9. fallback \in [Task -> FallbackRow]  BY BudgetRows
<1>10. \A u \in Task \ {t} : fallback'[u] = fallback[u]  BY <1>6, <1>9
<1> QED  BY <1>1, <1>3, <1>8, <1>10, FallbackElsewhere

LEMMA FallbackRecord ==
    ASSUME BudgetTypeOK, now \in Instant, QueueKnown, FallbackOwed,
           NEW l \in granted, NEW at \in Captured, NEW p \in Report(l),
           RecordOutcome(l, p, at)
    PROVE  FallbackOwed'
<1> DEFINE t == l.task  a == l.attempt
<1>1. t \in Task /\ a \in AttemptNumber /\ at \in Nat
  BY NetOfType, BudgetRows, InstantFacts
<1>2. PICK row \in NetRow : IsRecordedRow(l, p, at, row)  BY RecordRow
<1>3. /\ net'[t][a] = row
      /\ \A u \in Task, m \in AttemptNumber :
            (u # t \/ m # a) => net'[u][m] = net[u][m]
  <2>1. net' = [net EXCEPT ![t] = [net[t] EXCEPT ![a] = row]]
    BY <1>2 DEF IsRecordedRow
  <2>2. net \in [Task -> [AttemptNumber -> NetRow]]  BY BudgetRows
  <2> HIDE DEF t, a
  <2> QED  BY <1>1, <2>1, <2>2
<1>4. /\ row.route = net[t][a].route /\ row.started = net[t][a].started
      /\ row.class = p.class /\ row.recorded = at /\ row.retryAfter = p.retryAfter
  BY <1>2 DEF IsRecordedRow, NetOf
<1>5. net[t][a].route # "unassigned" /\ Newest(t, a)
  BY <1>1, ValidatedFacts DEF RecordOutcome, NetOf, Newest
<1>6. ProxyTrouble(l, p) <=> /\ net[t][a].route = "proxy"
                             /\ p.class \in {"portal-denial", "proxy-infrastructure-failure"}
  BY DEF ProxyTrouble, NetOf
<1>7. IF ProxyTrouble(l, p)
        THEN fallback' = [fallback EXCEPT ![t] =
                            [pending |-> TRUE, at |-> RetryDirectAt(p, at)]]
        ELSE fallback' = fallback
  BY DEF RecordOutcome
<1>8. p.class = "portal-denial" =>
         RetryDirectAt(p, at) = at + Later(FallbackDelay, p.retryAfter)
  BY <1>1, CooldownUntilIsNat
<1>9. fallback \in [Task -> FallbackRow] /\ RetryDirectAt(p, at) \in Nat
  BY <1>1, BudgetRows, CooldownUntilIsNat
<1> HIDE DEF t, a
<1>10. \A m \in AttemptNumber : /\ net'[t][m].route = net[t][m].route
                                /\ net'[t][m].started = net[t][m].started
  BY <1>1, <1>3, <1>4
<1>11. ASSUME NEW n \in AttemptNumber PROVE FallbackOf(t, n)'
  <2> SUFFICES ASSUME Troubled(t, n)'
               PROVE  /\ \A m \in NextStart(t, n)' : Repaid(t, n, m)'
                      /\ Newest(t, n)' => Owed(t, n)'
    BY DEF FallbackOf
  <2>0. n \in Nat /\ a \in Nat  BY <1>1 DEF AttemptNumber
  <2>1. CASE n = a
    <3>1. NextStart(t, n)' = {}
      <4>1. \A m \in (n + 1)..MaxAttempts : m \in AttemptNumber /\ m > n
        BY AttemptOrder
      <4> QED  BY <1>5, <1>10, <2>1, <4>1 DEF NextStart, Newest
    <3>2. ProxyTrouble(l, p)  BY <1>3, <1>4, <1>6, <2>1 DEF Troubled
    <3>3. fallback'[t] = [pending |-> TRUE, at |-> RetryDirectAt(p, at)]
      BY <1>1, <1>7, <1>9, <3>2
    <3>4. EarliestFallback(t, n)' = at + Later(FallbackDelay, p.retryAfter)
      BY <1>3, <1>4, <2>1 DEF EarliestFallback
    <3>5. fallback'[t].pending /\ fallback'[t].at = RetryDirectAt(p, at)
      BY <3>3
    <3>6. net'[t][n].class = "portal-denial" => fallback'[t].at >= EarliestFallback(t, n)'
      BY <1>3, <1>4, <1>8, <1>9, <2>1, <3>4, <3>5
    <3> QED  BY <3>1, <3>5, <3>6 DEF Owed
  <2>2. CASE n # a
    <3>1. net'[t][n] = net[t][n] /\ Troubled(t, n)
      BY <1>1, <1>3, <2>2 DEF Troubled
    <3>2. n < a
      <4>1. ~(n > a)  BY <1>5, <3>1 DEF Newest, Troubled
      <4> QED  BY <2>0, <2>2, <4>1
    <3>3. ~Newest(t, n)'  BY <1>1, <1>5, <1>10, <2>0, <3>2 DEF Newest
    <3>4. FallbackOf(t, n)  BY <1>1 DEF FallbackOwed
    <3>5. \A m \in (n + 1)..MaxAttempts :
             /\ m \in AttemptNumber
             /\ \A i \in (n + 1)..(m - 1) : i \in AttemptNumber
      BY AttemptOrder
    <3>6. NextStart(t, n)' = NextStart(t, n)
      BY <1>10, <3>5 DEF NextStart
    <3>7. ASSUME NEW m \in NextStart(t, n) PROVE Repaid(t, n, m)'
      <4>1. m \in AttemptNumber  BY <3>5 DEF NextStart
      <4>2. Repaid(t, n, m)  BY <3>1, <3>4 DEF FallbackOf
      <4> QED  BY <1>10, <3>1, <4>1, <4>2 DEF Repaid, EarliestFallback
    <3> QED  BY <3>3, <3>6, <3>7
  <2> QED  BY <2>1, <2>2
<1>12. \A u \in Task \ {t} : fallback'[u] = fallback[u]  BY <1>7, <1>9
<1> QED  BY <1>1, <1>3, <1>11, <1>12, FallbackElsewhere

LEMMA FallbackStep ==
    BudgetInv /\ FallbackOwed /\ [BudgetNext]_budgetVars => FallbackOwed'
<1> SUFFICES ASSUME BudgetInv, FallbackOwed, [BudgetNext]_budgetVars
             PROVE  FallbackOwed'
  OBVIOUS
<1>0. BudgetTypeOK /\ now \in Instant /\ QueueKnown  BY DEF BudgetInv
<1>1. ASSUME net' = net, fallback' = fallback PROVE FallbackOwed'
  BY <1>1 DEF FallbackOwed, FallbackOf, Troubled, NextStart, Repaid, Newest, Owed,
              EarliestFallback
<1>2. CASE UNCHANGED budgetOnlyVars  BY <1>1, <1>2 DEF budgetOnlyVars
<1>3. ASSUME NEW l \in granted, NEW at \in Captured, RefuseStart(l, at)
      PROVE  FallbackOwed'
  BY <1>1, <1>3 DEF RefuseStart
<1>4. ASSUME NEW l \in granted, NEW at \in Captured, GrantStart(l, at)
      PROVE  FallbackOwed'
  BY <1>0, <1>4, FallbackGrant
<1>5. ASSUME NEW l \in granted, NEW at \in Captured, NEW p \in Report(l),
             RecordOutcome(l, p, at)
      PROVE  FallbackOwed'
  BY <1>0, <1>5, FallbackRecord
<1>6. ASSUME NEW r \in Route, RegisterProxyRoute(r) PROVE FallbackOwed'
  BY <1>1, <1>6 DEF RegisterProxyRoute
<1>7. CASE QuietStep
  <2>1. QueueTypeOK  BY <1>0, BudgetRows
  <2> QED  BY <1>0, <1>2, <1>7, <2>1, QuietMove
<1> QED
  BY <1>2, <1>3, <1>4, <1>5, <1>6, <1>7, BudgetCases DEF budgetVars

(* AC-N2 and AC-N3 for every policy and however the leases are lost: after *)
(* a proxy let a task down, its next start is the delayed direct one.      *)
THEOREM FallbackIsDirectAlways == BudgetSpec => []FallbackIsDirect
<1>1. Init /\ BudgetInit => FallbackOwed
  BY DEF BudgetInit, NoNet, FallbackOwed, FallbackOf, Troubled
<1>2. BudgetInv /\ FallbackOwed => FallbackIsDirect
  BY FallbackOwedEnough DEF BudgetInv
<1> QED
  BY <1>1, <1>2, FallbackStep, BudgetInitInv, BudgetNextInv, PTL DEF BudgetSpec

-----------------------------------------------------------------------------
(* The proxy allowance *)

(* What was set aside for a cycle never exceeds the usable allowance.      *)
AllocatedWithin == \A c \in Cycle : ledger[c].allocated <= ProxyUsable

LEMMA AllocatedStep ==
    BudgetInv /\ AllocatedWithin /\ [BudgetNext]_budgetVars => AllocatedWithin'
<1> SUFFICES ASSUME BudgetInv, AllocatedWithin, [BudgetNext]_budgetVars
             PROVE  AllocatedWithin'
  OBVIOUS
<1>0. BudgetTypeOK /\ now \in Instant /\ QueueKnown /\ QueueTypeOK
      /\ \A c \in Cycle : ledger[c].allocated \in Int
  BY BudgetRows DEF BudgetInv, LedgerRow
<1>1. ASSUME ledger' = ledger PROVE AllocatedWithin'
  BY <1>1 DEF AllocatedWithin
<1>2. ASSUME NEW l \in granted, NEW at \in Captured, GrantStart(l, at)
      PROVE  AllocatedWithin'
  <2>1. ASSUME NEW c \in Cycle PROVE ledger'[c].allocated <= ProxyUsable
    <3>1. CASE c = CycleOf[at] /\ ThroughProxy(l.task, at)
      <4>1. ledger[c].allocated + ReserveBytes <= ProxyUsable
        BY <3>1 DEF ThroughProxy
      <4>2. ledger'[c].allocated = ledger[c].allocated + ReserveBytes
        BY <1>0, <1>2, <3>1, GrantEffect
      <4> QED  BY <4>1, <4>2
    <3>2. CASE ~(c = CycleOf[at] /\ ThroughProxy(l.task, at))
      <4>1. ledger'[c].allocated = ledger[c].allocated + 0
        BY <1>0, <1>2, <3>2, GrantEffect
      <4> QED  BY <1>0, <4>1 DEF AllocatedWithin
    <3> QED  BY <3>1, <3>2
  <2> QED  BY <2>1 DEF AllocatedWithin
<1>3. ASSUME NEW l \in granted, NEW at \in Captured, NEW p \in Report(l),
             RecordOutcome(l, p, at)
      PROVE  AllocatedWithin'
  BY <1>0, <1>1, <1>3, RecordLedger DEF AllocatedWithin
<1>4. CASE QuietStep  BY <1>0, <1>1, <1>4, QuietMove DEF budgetOnlyVars
<1> QED
  BY <1>1, <1>2, <1>3, <1>4, BudgetCases
  DEF budgetVars, budgetOnlyVars, RefuseStart, RegisterProxyRoute

(* Grants and reconciliations check the allowance of the cycle they write, *)
(* whatever the calendar and however late an outcome is recorded.          *)
THEOREM AllocatedWithinAlways == BudgetSpec => []AllocatedWithin
<1>1. Init /\ BudgetInit => AllocatedWithin
  BY BudgetConstants DEF BudgetInit, AllocatedWithin
<1> QED
  BY <1>1, AllocatedStep, BudgetInitInv, BudgetNextInv, PTL DEF BudgetSpec

-----------------------------------------------------------------------------
(* The allowance within one billing cycle *)

OneCycle == \A a, b \in Instant : CycleOf[a] = CycleOf[b]

(* The starts are finitely many, and only proxied ones hold a reservation. *)
StartsBounded ==
    /\ IsFiniteSet(StartKeys)
    /\ \A k \in StartKeys :
          /\ RowOf(k).started \in Instant
          /\ RowOf(k).reserved # 0 => RowOf(k).route = "proxy"

(* The ledger covers what was and what may still be transferred.           *)
LedgerCovers(c) ==
    ledger[c].transferred + ReserveBytes * Cardinality(Reserving(c))
        <= ledger[c].allocated

AllowanceKept == StartsBounded /\ \A c \in Cycle : LedgerCovers(c)

LEMMA StartsBoundedStep ==
    BudgetInv /\ StartsBounded /\ [BudgetNext]_budgetVars => StartsBounded'
<1> SUFFICES ASSUME BudgetInv, StartsBounded, [BudgetNext]_budgetVars
             PROVE  StartsBounded'
  OBVIOUS
<1>0. BudgetTypeOK /\ now \in Instant /\ QueueKnown /\ QueueTypeOK
  BY BudgetRows DEF BudgetInv
<1>1. ASSUME net' = net PROVE StartsBounded'
  BY <1>1 DEF StartsBounded, StartKeys, RowOf
<1>2. ASSUME NEW l \in granted, NEW at \in Captured, GrantStart(l, at)
      PROVE  StartsBounded'
  <2>1. PICK row \in NetRow : IsStartRow(l, at, row)  BY <1>0, <1>2, GrantRow
  <2> DEFINE key == <<l.task, l.attempt>>
  <2>2. /\ StartKeys' = StartKeys \cup {key} /\ RowOf(key)' = row
        /\ \A k \in StartKeys : RowOf(k)' = RowOf(k)
    BY <1>0, <1>2, <2>1, GrantKeys
  <2>3. row.started \in Instant /\ (row.reserved # 0 => row.route = "proxy")
    BY <1>0, <2>1, BudgetRows, InstantFacts DEF IsStartRow
  <2> HIDE DEF key
  <2>4. IsFiniteSet(StartKeys')  BY <2>2, FS_AddElement DEF StartsBounded
  <2> QED  BY <2>2, <2>3, <2>4 DEF StartsBounded
<1>3. ASSUME NEW l \in granted, NEW at \in Captured, NEW p \in Report(l),
             RecordOutcome(l, p, at)
      PROVE  StartsBounded'
  <2>1. PICK row \in NetRow : IsRecordedRow(l, p, at, row)  BY <1>0, <1>3, RecordRow
  <2> DEFINE key == <<l.task, l.attempt>>
  <2>2. /\ StartKeys' = StartKeys /\ RowOf(key)' = row /\ RowOf(key) = NetOf(l)
        /\ \A k \in StartKeys : k # key => RowOf(k)' = RowOf(k)
    BY <1>0, <1>3, <2>1, RecordKeys
  <2>3. row.started = NetOf(l).started /\ row.reserved = 0
    BY <2>1 DEF IsRecordedRow
  <2> HIDE DEF key
  <2> QED  BY <2>2, <2>3 DEF StartsBounded
<1>4. CASE QuietStep  BY <1>0, <1>1, <1>4, QuietMove DEF budgetOnlyVars
<1> QED
  BY <1>1, <1>2, <1>3, <1>4, BudgetCases
  DEF budgetVars, budgetOnlyVars, RefuseStart, RegisterProxyRoute

LEMMA ReservingFinite ==
    ASSUME StartsBounded, NEW c
    PROVE  IsFiniteSet(Reserving(c)) /\ Cardinality(Reserving(c)) \in Nat
<1>1. Reserving(c) \subseteq StartKeys  BY DEF Reserving
<1>2. IsFiniteSet(Reserving(c))  BY <1>1, FS_Subset DEF StartsBounded
<1> QED  BY <1>2, FS_CardinalityType

LEMMA OneMore ==
    ASSUME NEW n \in Nat, NEW r \in Nat
    PROVE  r * (n + 1) = r * n + r /\ r * n \in Nat
  OBVIOUS

LEMMA GrantCovered ==
    ASSUME BudgetTypeOK, now \in Instant, QueueKnown, OneCycle, AllowanceKept,
           NEW l \in granted, NEW at \in Captured, GrantStart(l, at), NEW c \in Cycle
    PROVE  LedgerCovers(c)'
<1>1. PICK row \in NetRow : IsStartRow(l, at, row)  BY GrantRow
<1> DEFINE key == <<l.task, l.attempt>>
<1>2. /\ StartKeys' = StartKeys \cup {key} /\ RowOf(key)' = row
      /\ \A k \in StartKeys : RowOf(k)' = RowOf(k)
      /\ key \notin StartKeys
  BY <1>1, GrantKeys
<1>3. at \in Instant /\ c = CycleOf[at]
  BY BudgetRows, InstantFacts DEF OneCycle, Cycle
<1>4. /\ ledger'[c].transferred = ledger[c].transferred
      /\ ledger'[c].allocated = ledger[c].allocated
            + (IF ThroughProxy(l.task, at) THEN ReserveBytes ELSE 0)
  BY <1>3, GrantEffect
<1>5. /\ row.started = at
      /\ row.reserved = IF ThroughProxy(l.task, at) THEN ReserveBytes ELSE 0
  BY <1>1 DEF IsStartRow
<1>6. /\ ReserveBytes \in Nat /\ ledger[c].transferred \in Nat
      /\ ledger[c].allocated \in Int
  BY BudgetRows, BudgetConstants DEF LedgerRow
<1> DEFINE R == Reserving(c)
<1>7. IsFiniteSet(R) /\ Cardinality(R) \in Nat /\ key \notin R
  BY <1>2, ReservingFinite DEF AllowanceKept, Reserving
<1> HIDE DEF key
<1>8. Reserving(c)' = IF row.reserved # 0 THEN R \cup {key} ELSE R
  BY <1>2, <1>3, <1>5 DEF Reserving
<1>9. LedgerCovers(c)  BY DEF AllowanceKept
<1> HIDE DEF R
<1>10. CASE row.reserved # 0
  <2>1. row.reserved = ReserveBytes
        /\ ledger'[c].allocated = ledger[c].allocated + ReserveBytes
    BY <1>4, <1>5, <1>10
  <2>2. Cardinality(Reserving(c)') = Cardinality(R) + 1
    BY <1>7, <1>8, <1>10, FS_AddElement
  <2> DEFINE n == Cardinality(R)
  <2>3. ledger[c].transferred + ReserveBytes * n <= ledger[c].allocated
    BY <1>9 DEF LedgerCovers, R
  <2>4. n \in Nat  BY <1>7
  <2>5. ReserveBytes * (n + 1) = ReserveBytes * n + ReserveBytes
        /\ ReserveBytes * n \in Nat
    BY <1>6, <2>4, OneMore
  <2> HIDE DEF n
  <2>6. ledger[c].transferred + ReserveBytes * (n + 1)
           <= ledger[c].allocated + ReserveBytes
    BY <1>6, <2>3, <2>4, <2>5
  <2> QED  BY <1>4, <2>1, <2>2, <2>6 DEF LedgerCovers, n
<1>11. CASE row.reserved = 0
  <2>1. ledger'[c].allocated = ledger[c].allocated + 0
    BY <1>4, <1>5, <1>11
  <2>2. ledger'[c].allocated = ledger[c].allocated  BY <1>6, <2>1
  <2>3. Reserving(c)' = Reserving(c)  BY <1>8, <1>11 DEF R
  <2> QED  BY <1>4, <1>9, <2>2, <2>3 DEF LedgerCovers
<1> QED  BY <1>10, <1>11

LEMMA RecordCovered ==
    ASSUME BudgetTypeOK, now \in Instant, OneCycle, AllowanceKept,
           NEW l \in granted, NEW at \in Captured, NEW p \in Report(l),
           RecordOutcome(l, p, at), NEW c \in Cycle
    PROVE  LedgerCovers(c)'
<1>1. PICK row \in NetRow : IsRecordedRow(l, p, at, row)  BY RecordRow
<1> DEFINE key == <<l.task, l.attempt>>
<1>2. /\ StartKeys' = StartKeys /\ RowOf(key)' = row /\ RowOf(key) = NetOf(l)
      /\ \A k \in StartKeys : k # key => RowOf(k)' = RowOf(k)
      /\ key \in StartKeys
  BY <1>1, RecordKeys
<1>3. c = CycleOf[at]
  BY BudgetRows, InstantFacts DEF OneCycle, Cycle
<1>4. row.started = NetOf(l).started /\ row.reserved = 0
  BY <1>1 DEF IsRecordedRow
<1>5. CycleOf[NetOf(l).started] = c
  <2>1. NetOf(l).started \in Instant  BY <1>2 DEF AllowanceKept, StartsBounded
  <2> QED  BY <1>3, <2>1, BudgetRows, InstantFacts DEF OneCycle
<1>6. /\ ReserveBytes \in Nat /\ ledger[c].transferred \in Nat
      /\ ledger[c].allocated \in Int /\ p.bytes \in Nat
      /\ NetOf(l).reserved \in {0, ReserveBytes}
  BY BudgetRows, BudgetConstants, ReportType, NetOfType DEF LedgerRow
<1> DEFINE R == Reserving(c)
<1>7. IsFiniteSet(R) /\ Cardinality(R) \in Nat
  BY ReservingFinite DEF AllowanceKept
<1>8. key \in R <=> NetOf(l).reserved # 0
  BY <1>2, <1>5 DEF Reserving
<1> HIDE DEF key
<1>9. Reserving(c)' = R \ {key}
  BY <1>2, <1>4 DEF Reserving
<1>10. ledger[c].transferred + ReserveBytes * Cardinality(R) <= ledger[c].allocated
  BY DEF AllowanceKept, LedgerCovers
<1>11. NetOf(l).reserved # 0 => NetOf(l).route = "proxy"
  BY <1>2 DEF AllowanceKept, StartsBounded
<1> HIDE DEF R
<1>12. CASE NetOf(l).route # "proxy"
  <2>1. ledger' = ledger  BY <1>12, RecordLedger
  <2>2. Reserving(c)' = R  BY <1>8, <1>9, <1>11, <1>12
  <2> QED  BY <1>10, <2>1, <2>2 DEF LedgerCovers
<1>13. CASE NetOf(l).route = "proxy"
  <2>1. /\ ledger'[c].allocated = ledger[c].allocated - NetOf(l).reserved + p.bytes
        /\ ledger'[c].transferred = ledger[c].transferred + p.bytes
    BY <1>3, <1>13, RecordLedger
  <2>2. CASE NetOf(l).reserved = 0
    <3>1. Reserving(c)' = R  BY <1>8, <1>9, <2>2
    <3> DEFINE n == Cardinality(R)
    <3>2. n \in Nat /\ ReserveBytes * n \in Nat  BY <1>6, <1>7, OneMore
    <3>3. ledger[c].transferred + ReserveBytes * n <= ledger[c].allocated  BY <1>10
    <3>4. LedgerCovers(c)' <=> ledger'[c].transferred + ReserveBytes * n <= ledger'[c].allocated
      BY <3>1 DEF LedgerCovers
    <3> HIDE DEF n
    <3> QED  BY <1>6, <2>1, <2>2, <3>2, <3>3, <3>4
  <2>3. CASE NetOf(l).reserved # 0
    <3> DEFINE n == Cardinality(R) - 1
    <3>1. Cardinality(R \ {key}) = n /\ n \in Nat
      <4>1. key \in R  BY <1>8, <2>3
      <4>2. Cardinality(R \ {key}) = n /\ IsFiniteSet(R \ {key})
        BY <1>7, <4>1, FS_RemoveElement
      <4> QED  BY <4>2, FS_CardinalityType
    <3>2. Cardinality(R) = n + 1  BY <1>7
    <3>3. LedgerCovers(c)' <=> ledger'[c].transferred + ReserveBytes * n <= ledger'[c].allocated
      BY <1>9, <3>1 DEF LedgerCovers
    <3>4. ledger[c].transferred + ReserveBytes * (n + 1) <= ledger[c].allocated
      BY <1>10, <3>2
    <3> HIDE DEF n
    <3>5. /\ ReserveBytes * (n + 1) = ReserveBytes * n + ReserveBytes
          /\ ReserveBytes * n \in Nat
      BY <1>6, <3>1, OneMore
    <3> QED  BY <1>6, <2>1, <2>3, <3>1, <3>3, <3>4, <3>5
  <2> QED  BY <2>2, <2>3
<1> QED  BY <1>12, <1>13

LEMMA AllowanceStep ==
    ASSUME OneCycle
    PROVE  BudgetInv /\ AllowanceKept /\ [BudgetNext]_budgetVars => AllowanceKept'
<1> SUFFICES ASSUME BudgetInv, AllowanceKept, [BudgetNext]_budgetVars
             PROVE  AllowanceKept'
  OBVIOUS
<1>0. BudgetTypeOK /\ now \in Instant /\ QueueKnown /\ QueueTypeOK
  BY BudgetRows DEF BudgetInv
<1>1. StartsBounded'  BY StartsBoundedStep DEF AllowanceKept
<1>2. ASSUME net' = net, ledger' = ledger PROVE AllowanceKept'
  <2>1. \A c \in Cycle : LedgerCovers(c)'
    BY <1>2 DEF AllowanceKept, LedgerCovers, Reserving, StartKeys, RowOf
  <2> QED  BY <1>1, <2>1 DEF AllowanceKept
<1>3. ASSUME NEW l \in granted, NEW at \in Captured, GrantStart(l, at)
      PROVE  AllowanceKept'
  BY <1>0, <1>1, <1>3, GrantCovered DEF AllowanceKept
<1>4. ASSUME NEW l \in granted, NEW at \in Captured, NEW p \in Report(l),
             RecordOutcome(l, p, at)
      PROVE  AllowanceKept'
  BY <1>0, <1>1, <1>4, RecordCovered DEF AllowanceKept
<1>5. CASE QuietStep  BY <1>0, <1>2, <1>5, QuietMove DEF budgetOnlyVars
<1> QED
  BY <1>2, <1>3, <1>4, <1>5, BudgetCases
  DEF budgetVars, budgetOnlyVars, RefuseStart, RegisterProxyRoute

(* AC-N4 within a billing cycle, for every allowance and every number of   *)
(* workers and lost leases.  Over a change of cycle the ceiling does not   *)
(* hold: an outcome is settled on the ledger of the cycle it arrives in.   *)
THEOREM BudgetInvariantInOneCycle ==
    ASSUME OneCycle
    PROVE  BudgetSpec => []BudgetInvariant
<1>1. Init /\ BudgetInit => StartsBounded /\ AllowanceKept
  <2> SUFFICES ASSUME Init, BudgetInit PROVE AllowanceKept
    BY DEF AllowanceKept
  <2>1. StartKeys = {}  BY DEF BudgetInit, NoNet, StartKeys
  <2>2. \A c \in Cycle : Reserving(c) = {}  BY <2>1 DEF Reserving
  <2>3. Cardinality({}) = 0 /\ IsFiniteSet({})  BY FS_EmptySet
  <2>4. StartsBounded  BY <2>1, <2>3 DEF StartsBounded
  <2>5. ASSUME NEW c \in Cycle PROVE LedgerCovers(c)
    <3>1. Cardinality(Reserving(c)) = 0  BY <2>2, <2>3
    <3>2. ledger[c].transferred = 0 /\ ledger[c].allocated = 0  BY DEF BudgetInit
    <3> QED  BY <3>1, <3>2, BudgetConstants DEF LedgerCovers
  <2> QED  BY <2>4, <2>5 DEF AllowanceKept
<1>2. BudgetInv /\ AllocatedWithin /\ AllowanceKept => BudgetInvariant
  <2> SUFFICES ASSUME BudgetInv, AllocatedWithin, AllowanceKept, NEW c \in Cycle
               PROVE  ledger[c].transferred + ReserveBytes * Cardinality(Reserving(c))
                         <= ProxyUsable
    BY DEF BudgetInvariant, AllocationCeiling, BudgetInv
  <2> DEFINE n == Cardinality(Reserving(c))
  <2>1. n \in Nat  BY ReservingFinite DEF AllowanceKept
  <2>2. ledger[c].transferred \in Nat /\ ledger[c].allocated \in Int
    BY BudgetRows DEF BudgetInv, LedgerRow
  <2>3. ReserveBytes * n \in Nat /\ ProxyUsable \in Nat
    BY <2>1, BudgetConstants, OneMore
  <2>4. ledger[c].transferred + ReserveBytes * n <= ledger[c].allocated
    BY DEF AllowanceKept, LedgerCovers
  <2>5. ledger[c].allocated <= ProxyUsable  BY DEF AllocatedWithin
  <2> HIDE DEF n
  <2>6. ledger[c].transferred + ReserveBytes * n <= ProxyUsable
    BY <2>2, <2>3, <2>4, <2>5
  <2> QED  BY <2>6 DEF n
<1>3. BudgetInv /\ AllowanceKept /\ [BudgetNext]_budgetVars => AllowanceKept'
  BY AllowanceStep
<1> QED
  BY <1>1, <1>2, <1>3, AllocatedWithinAlways, BudgetInitInv, BudgetNextInv, PTL
  DEF BudgetSpec

-----------------------------------------------------------------------------
(* Cooldowns, when an operation works with the current time *)

Punctual == MaxDelay = 0

LEMMA PunctualFacts ==
    ASSUME Punctual, BudgetTypeOK, now \in Instant, NEW at \in Captured
    PROVE  at = now /\ now \in Nat /\ at \in Nat
<1>1. now \in Nat  BY BudgetRows DEF ActivationTypeOK
<1> QED  BY <1>1 DEF Punctual, Captured

(* No row is ahead of the clock.                                           *)
NothingAhead ==
    \A k \in StartKeys : RowOf(k).started <= now /\ RowOf(k).recorded <= now

(* Until when a denial holds back the portal's starts.                     *)
HoldsUntil(k) ==
    RowOf(k).recorded + Later(Cooldown[Smaller(Cardinality(EarlierDenials(k)), 2) + 1],
                              RowOf(k).retryAfter)

(* Denials no direct success was recorded since.                           *)
Unbroken ==
    {j \in DirectDenials :
        \A s \in DirectSuccesses : RowOf(s).recorded < RowOf(j).recorded}

CooldownCovers ==
    /\ \A k \in DirectDenials : source.cooldown >= HoldsUntil(k)
    /\ Cardinality(Unbroken) <= source.denials

CooldownInv == StartsBounded /\ NothingAhead /\ CooldownCovers /\ CooldownHonoured

LEMMA DenialKeys ==
    /\ DirectDenials \subseteq StartKeys /\ DirectSuccesses \subseteq StartKeys
    /\ Unbroken \subseteq DirectDenials
    /\ \A k : EarlierDenials(k) \subseteq DirectDenials
  BY DEF DirectDenials, DirectSuccesses, Unbroken, EarlierDenials

LEMMA HoldsFacts ==
    ASSUME BudgetTypeOK, StartsBounded, NEW k \in StartKeys
    PROVE  /\ HoldsUntil(k) \in Nat
           /\ IsFiniteSet(EarlierDenials(k)) /\ Cardinality(EarlierDenials(k)) \in Nat
           /\ IsFiniteSet(Unbroken) /\ Cardinality(Unbroken) \in Nat
<1>1. EarlierDenials(k) \subseteq StartKeys /\ Unbroken \subseteq StartKeys
  BY DenialKeys
<1>2. IsFiniteSet(EarlierDenials(k)) /\ IsFiniteSet(Unbroken)
  BY <1>1, FS_Subset DEF StartsBounded
<1>3. Cardinality(EarlierDenials(k)) \in Nat /\ Cardinality(Unbroken) \in Nat
  BY <1>2, FS_CardinalityType
<1> DEFINE step == Cooldown[Smaller(Cardinality(EarlierDenials(k)), 2) + 1]
<1>4. step \in Nat  BY <1>3, CooldownIsNat
<1>5. RowOf(k).recorded \in Nat /\ RowOf(k).retryAfter \in Nat  BY StartKeysFacts
<1>6. HoldsUntil(k) = RowOf(k).recorded + Later(step, RowOf(k).retryAfter)
  BY DEF HoldsUntil
<1> HIDE DEF step
<1>7. Later(step, RowOf(k).retryAfter) \in Nat  BY <1>4, <1>5, LaterIsNat
<1> QED  BY <1>2, <1>3, <1>5, <1>6, <1>7

LEMMA LaterGrows ==
    ASSUME NEW a \in Nat, NEW b \in Nat, NEW c \in Nat, a <= b
    PROVE  Later(a, c) <= Later(b, c) /\ Later(a, c) \in Nat /\ Later(b, c) \in Nat
  BY DEF Later

(* A denial that has fewer denials before it never holds longer.           *)
LEMMA FewerHold ==
    ASSUME NEW E, NEW F, IsFiniteSet(F), E \subseteq F, NEW r \in Nat,
           NEW n \in Nat, Cardinality(F) <= n
    PROVE  Later(Cooldown[Smaller(Cardinality(E), 2) + 1], r)
              <= Later(Cooldown[Smaller(n, 2) + 1], r)
<1>1. IsFiniteSet(E) /\ Cardinality(E) <= Cardinality(F)  BY FS_Subset
<1>2. Cardinality(E) \in Nat /\ Cardinality(F) \in Nat  BY <1>1, FS_CardinalityType
<1> DEFINE e == Cardinality(E)
<1> HIDE DEF e
<1>3. e \in Nat /\ e <= n  BY <1>1, <1>2 DEF e
<1>4. /\ Cooldown[Smaller(e, 2) + 1] \in Nat /\ Cooldown[Smaller(n, 2) + 1] \in Nat
      /\ Cooldown[Smaller(e, 2) + 1] <= Cooldown[Smaller(n, 2) + 1]
  BY <1>3, CooldownIsNat, CooldownGrows
<1>5. Later(Cooldown[Smaller(e, 2) + 1], r) <= Later(Cooldown[Smaller(n, 2) + 1], r)
  BY <1>4, LaterGrows
<1> QED  BY <1>5 DEF e

LEMMA CooldownFrame ==
    ASSUME BudgetTypeOK, CooldownInv, net' = net, now' \in {now, now + 1},
           now \in Nat, StartsBounded', source'.cooldown = source.cooldown,
           source'.denials = source.denials
    PROVE  CooldownInv'
<1>1. /\ StartKeys' = StartKeys /\ \A k : RowOf(k)' = RowOf(k)
      /\ DirectDenials' = DirectDenials /\ DirectSuccesses' = DirectSuccesses
  BY DEF StartKeys, RowOf, DirectDenials, DirectSuccesses
<1>2. Unbroken' = Unbroken /\ \A k : EarlierDenials(k)' = EarlierDenials(k)
  BY <1>1 DEF Unbroken, EarlierDenials
<1>3. NothingAhead'
  <2>1. \A k \in StartKeys : RowOf(k).started \in Nat /\ RowOf(k).recorded \in Nat
    BY StartKeysFacts
  <2> QED  BY <1>1, <2>1 DEF CooldownInv, NothingAhead
<1>4. \A k : HoldsUntil(k)' = HoldsUntil(k)  BY <1>1, <1>2 DEF HoldsUntil
<1>5. CooldownCovers'  BY <1>1, <1>2, <1>4 DEF CooldownInv, CooldownCovers
<1>6. CooldownHonoured'
  BY <1>1, <1>2 DEF CooldownInv, CooldownHonoured
<1> QED  BY <1>3, <1>5, <1>6 DEF CooldownInv

LEMMA CooldownGrant ==
    ASSUME BudgetTypeOK, now \in Instant, QueueKnown, CooldownInv, StartsBounded',
           NEW l \in granted, NEW at \in Captured, GrantStart(l, at)
    PROVE  CooldownInv'
<1>1. PICK row \in NetRow : IsStartRow(l, at, row)  BY GrantRow
<1> DEFINE key == <<l.task, l.attempt>>
<1>2. /\ StartKeys' = StartKeys \cup {key} /\ RowOf(key)' = row
      /\ \A k \in StartKeys : RowOf(k)' = RowOf(k)
      /\ key \notin StartKeys
  BY <1>1, GrantKeys
<1>3. /\ row.started = at /\ row.recorded = 0 /\ row.class = "none"
      /\ at \in Nat /\ at <= now /\ now' = now /\ now \in Nat
  BY <1>1, BudgetRows, InstantFacts
  DEF IsStartRow, GrantStart, vars, activationVars, ActivationTypeOK
<1>4. source'.cooldown = source.cooldown /\ source'.denials = source.denials
  BY GrantEffect
<1>5. source.cooldown <= at
  <2>1. l.task \in Task  BY NetOfType
  <2>2. OpensAt(l.task, at) >= source.cooldown /\ OpensAt(l.task, at) \in Nat
    BY <1>3, <2>1, OpensAtFacts
  <2>3. source.cooldown \in Nat  BY BudgetRows DEF SourceRow
  <2> QED  BY <1>3, <2>2, <2>3 DEF GrantStart
<1> HIDE DEF key
<1>6. DirectDenials' = DirectDenials /\ DirectSuccesses' = DirectSuccesses
  BY <1>2, <1>3 DEF DirectDenials, DirectSuccesses
<1>7. /\ \A k \in DirectDenials : RowOf(k)' = RowOf(k)
      /\ \A s \in DirectSuccesses : RowOf(s)' = RowOf(s)
  BY <1>2, DenialKeys
<1>8. Unbroken' = Unbroken  BY <1>6, <1>7 DEF Unbroken
<1>9. \A k \in DirectDenials : EarlierDenials(k)' = EarlierDenials(k)
  BY <1>6, <1>7 DEF EarlierDenials
<1>10. \A k \in DirectDenials : HoldsUntil(k)' = HoldsUntil(k)
  BY <1>7, <1>9 DEF HoldsUntil
<1>11. CooldownCovers'
  BY <1>4, <1>6, <1>8, <1>10 DEF CooldownInv, CooldownCovers
<1>12. NothingAhead'
  BY <1>2, <1>3 DEF CooldownInv, NothingAhead
<1>13. CooldownHonoured'
  <2> SUFFICES ASSUME NEW k \in DirectDenials', NEW j \in StartKeys',
                      RowOf(j)'.started > RowOf(k)'.recorded
               PROVE  RowOf(j)'.started >= HoldsUntil(k)'
    BY DEF CooldownHonoured, HoldsUntil
  <2>1. k \in DirectDenials /\ HoldsUntil(k)' = HoldsUntil(k) /\ RowOf(k)' = RowOf(k)
    BY <1>6, <1>7, <1>10
  <2>2. CASE j = key
    <3>1. HoldsUntil(k) <= source.cooldown  BY <2>1 DEF CooldownInv, CooldownCovers
    <3>2. HoldsUntil(k) \in Nat /\ source.cooldown \in Nat
      BY <2>1, DenialKeys, HoldsFacts, BudgetRows DEF CooldownInv, SourceRow
    <3> QED  BY <1>2, <1>3, <1>5, <2>1, <2>2, <3>1, <3>2
  <2>3. CASE j \in StartKeys
    BY <1>2, <2>1, <2>3 DEF CooldownInv, CooldownHonoured, HoldsUntil
  <2> QED  BY <1>2, <2>2, <2>3
<1> QED  BY <1>11, <1>12, <1>13 DEF CooldownInv

LEMMA CooldownRecord ==
    ASSUME Punctual, BudgetTypeOK, BudgetTypeOK', now \in Instant, CooldownInv,
           StartsBounded', NEW l \in granted, NEW at \in Captured,
           NEW p \in Report(l), RecordOutcome(l, p, at)
    PROVE  CooldownInv'
<1>1. PICK row \in NetRow : IsRecordedRow(l, p, at, row)  BY RecordRow
<1> DEFINE key == <<l.task, l.attempt>>
<1>2. /\ StartKeys' = StartKeys /\ RowOf(key)' = row /\ RowOf(key) = NetOf(l)
      /\ \A k \in StartKeys : k # key => RowOf(k)' = RowOf(k)
      /\ key \in StartKeys
  BY <1>1, RecordKeys
<1>3. /\ row.started = NetOf(l).started /\ row.recorded = at /\ row.class = p.class
      /\ row.retryAfter = p.retryAfter /\ row.route = NetOf(l).route
      /\ NetOf(l).class = "none"
  BY <1>1 DEF IsRecordedRow, RecordOutcome
<1>4. at = now /\ now \in Nat /\ now' = now
  <2>1. now' = now
    BY DEF RecordOutcome, Close, vars, activationVars
  <2> QED  BY <2>1, PunctualFacts
<1>5. /\ source' \in SourceRow /\ source'.cooldown >= source.cooldown
      /\ source.cooldown \in Nat /\ source'.cooldown \in Nat
      /\ source.denials \in Nat /\ source'.denials \in Nat
  BY RecordSource, BudgetRows DEF SourceRow
<1>6. p.retryAfter \in Nat  BY ReportType
<1> HIDE DEF key
<1>7. \A k \in StartKeys : RowOf(k)'.started = RowOf(k).started  BY <1>2, <1>3
<1>8. \A k \in StartKeys : /\ RowOf(k).recorded \in Nat /\ RowOf(k).started \in Nat
                           /\ RowOf(k).recorded <= at /\ RowOf(k).started <= at
  BY <1>4, StartKeysFacts DEF CooldownInv, NothingAhead
<1>9. NothingAhead'
  BY <1>2, <1>3, <1>4, <1>8 DEF NothingAhead
<1>10. key \notin DirectDenials /\ key \notin DirectSuccesses
  BY <1>2, <1>3 DEF DirectDenials, DirectSuccesses
<1>11. /\ \A k \in DirectDenials : RowOf(k)' = RowOf(k)
       /\ \A s \in DirectSuccesses : RowOf(s)' = RowOf(s)
  BY <1>2, <1>10, DenialKeys
<1>12. /\ DirectDenials' \subseteq DirectDenials \cup {key}
       /\ DirectSuccesses \subseteq DirectSuccesses'
       /\ key \in DirectDenials' <=> DirectDenial(l, p)
       /\ key \in DirectSuccesses' <=> NetOf(l).route = "direct" /\ p.class = "success"
  BY <1>2, <1>3, <1>11, DenialKeys DEF DirectDenials, DirectSuccesses, DirectDenial
<1>13. ASSUME NEW k \in DirectDenials
       PROVE  /\ HoldsUntil(k)' <= HoldsUntil(k)
              /\ HoldsUntil(k)' \in Nat /\ HoldsUntil(k) \in Nat
  <2>1. k \in StartKeys /\ RowOf(k).recorded <= at /\ RowOf(k).recorded \in Nat
        /\ RowOf(k).retryAfter \in Nat
    BY <1>8, DenialKeys, StartKeysFacts
  <2>2. ASSUME NEW j \in EarlierDenials(k)' PROVE j \in EarlierDenials(k)
    <3>1. /\ j \in DirectDenials' /\ RowOf(j)'.recorded < RowOf(k)'.recorded
          /\ \A s \in DirectSuccesses' :
                RowOf(s)'.recorded \notin RowOf(j)'.recorded..RowOf(k)'.recorded
      BY DEF EarlierDenials
    <3>2. j # key  BY <1>2, <1>3, <1>4, <1>11, <2>1, <3>1
    <3>3. j \in DirectDenials  BY <1>12, <3>1, <3>2
    <3> QED  BY <1>11, <1>12, <3>1, <3>3 DEF EarlierDenials
  <2>3. EarlierDenials(k)' \subseteq EarlierDenials(k)  BY <2>2
  <2>4. IsFiniteSet(EarlierDenials(k)) /\ Cardinality(EarlierDenials(k)) \in Nat
    BY <2>1, HoldsFacts DEF CooldownInv
  <2>5. Later(Cooldown[Smaller(Cardinality(EarlierDenials(k)'), 2) + 1],
              RowOf(k).retryAfter)
           <= Later(Cooldown[Smaller(Cardinality(EarlierDenials(k)), 2) + 1],
                    RowOf(k).retryAfter)
    BY <2>1, <2>3, <2>4, FewerHold
  <2>6. HoldsUntil(k) \in Nat /\ RowOf(k)' = RowOf(k)
    BY <1>11, <2>1, HoldsFacts DEF CooldownInv
  <2> DEFINE a == Later(Cooldown[Smaller(Cardinality(EarlierDenials(k)'), 2) + 1],
                        RowOf(k).retryAfter)
             b == Later(Cooldown[Smaller(Cardinality(EarlierDenials(k)), 2) + 1],
                        RowOf(k).retryAfter)
  <2>7. HoldsUntil(k) = RowOf(k).recorded + b /\ HoldsUntil(k)' = RowOf(k).recorded + a
    BY <2>6 DEF HoldsUntil
  <2>8. a <= b  BY <2>5
  <2>9. a \in Nat /\ b \in Nat
    <3>1. IsFiniteSet(EarlierDenials(k)')  BY <2>3, <2>4, FS_Subset
    <3>2. Cardinality(EarlierDenials(k)') \in Nat  BY <3>1, FS_CardinalityType
    <3> QED  BY <2>1, <2>4, <3>2, CooldownIsNat, LaterIsNat
  <2> HIDE DEF a, b
  <2> QED  BY <2>1, <2>6, <2>7, <2>8, <2>9
<1>14. ASSUME DirectDenial(l, p)
       PROVE  HoldsUntil(key)' <= source'.cooldown /\ HoldsUntil(key)' \in Nat
  <2>1. ASSUME NEW j \in EarlierDenials(key)' PROVE j \in Unbroken
    <3>1. /\ j \in DirectDenials' /\ RowOf(j)'.recorded < at
          /\ \A s \in DirectSuccesses' :
                RowOf(s)'.recorded \notin RowOf(j)'.recorded..at
      BY <1>2, <1>3 DEF EarlierDenials
    <3>2. j # key  BY <1>2, <1>3, <1>4, <3>1
    <3>3. j \in DirectDenials /\ RowOf(j)' = RowOf(j)  BY <1>11, <1>12, <3>1, <3>2
    <3>4. j \in StartKeys /\ RowOf(j).recorded \in Nat  BY <1>8, <3>3, DenialKeys
    <3>5. ASSUME NEW s \in DirectSuccesses
          PROVE  RowOf(s).recorded < RowOf(j).recorded
      <4>1. /\ RowOf(s).recorded \in Nat /\ RowOf(s).recorded <= at
            /\ RowOf(s)' = RowOf(s) /\ s \in DirectSuccesses'
        BY <1>8, <1>11, <1>12, DenialKeys
      <4>2. RowOf(s).recorded \notin RowOf(j).recorded..at  BY <3>1, <3>3, <4>1
      <4> QED  BY <1>4, <3>4, <4>1, <4>2
    <3> QED  BY <3>3, <3>5 DEF Unbroken
  <2>2. EarlierDenials(key)' \subseteq Unbroken  BY <2>1
  <2>3. IsFiniteSet(Unbroken) /\ Cardinality(Unbroken) <= source.denials
    BY <1>2, HoldsFacts DEF CooldownInv, CooldownCovers
  <2> DEFINE a == Later(Cooldown[Smaller(Cardinality(EarlierDenials(key)'), 2) + 1],
                        p.retryAfter)
             b == Later(Cooldown[Smaller(source.denials, 2) + 1], p.retryAfter)
  <2>4. a <= b  BY <1>5, <1>6, <2>2, <2>3, FewerHold
  <2>5. a \in Nat /\ b \in Nat
    <3>1. IsFiniteSet(EarlierDenials(key)')  BY <2>2, <2>3, FS_Subset
    <3>2. Cardinality(EarlierDenials(key)') \in Nat  BY <3>1, FS_CardinalityType
    <3> QED  BY <1>5, <1>6, <3>2, CooldownIsNat, LaterIsNat
  <2>6. HoldsUntil(key)' = at + a  BY <1>2, <1>3 DEF HoldsUntil
  <2>7. source'.cooldown >= at + b
    BY <1>14, RecordSource DEF CooldownUntil
  <2> HIDE DEF a, b
  <2> QED  BY <1>4, <1>5, <2>4, <2>5, <2>6, <2>7
<1>15. Cardinality(Unbroken') <= source'.denials
  <2>1. IsFiniteSet(Unbroken) /\ Cardinality(Unbroken) <= source.denials
        /\ Cardinality(Unbroken) \in Nat
    BY <1>2, HoldsFacts DEF CooldownInv, CooldownCovers
  <2>2. ASSUME NEW j \in Unbroken', j # key PROVE j \in Unbroken
    BY <1>11, <1>12, <2>2 DEF Unbroken
  <2>3. Unbroken' \subseteq Unbroken \cup {key}  BY <2>2
  <2>4. CASE DirectDenial(l, p)
    <3>1. source'.denials = source.denials + 1  BY <2>4, RecordSource
    <3>2. key \notin Unbroken  BY <1>10, DenialKeys
    <3>3. Cardinality(Unbroken \cup {key}) = Cardinality(Unbroken) + 1
          /\ IsFiniteSet(Unbroken \cup {key})
      BY <2>1, <3>2, FS_AddElement
    <3>4. Cardinality(Unbroken') <= Cardinality(Unbroken \cup {key})
          /\ IsFiniteSet(Unbroken')
      BY <2>3, <3>3, FS_Subset
    <3>5. Cardinality(Unbroken') \in Nat  BY <3>4, FS_CardinalityType
    <3> QED  BY <1>5, <2>1, <3>1, <3>3, <3>4, <3>5
  <2>5. CASE ~DirectDenial(l, p) /\ NetOf(l).route = "direct" /\ p.class = "success"
    <3>1. source'.denials = 0  BY <2>5, RecordSource
    <3>2. key \in DirectSuccesses' /\ RowOf(key)'.recorded = at
      BY <1>2, <1>3, <1>12, <2>5
    <3>3. ASSUME NEW j \in Unbroken' PROVE FALSE
      <4>1. j \in DirectDenials /\ RowOf(key)'.recorded < RowOf(j)'.recorded
        BY <1>12, <2>5, <3>2 DEF Unbroken
      <4>2. RowOf(j)' = RowOf(j) /\ RowOf(j).recorded \in Nat /\ RowOf(j).recorded <= at
        BY <1>8, <1>11, <4>1, DenialKeys
      <4> QED  BY <1>4, <3>2, <4>1, <4>2
    <3>4. Unbroken' = {}  BY <3>3
    <3> QED  BY <3>1, <3>4, FS_EmptySet
  <2>6. CASE ~DirectDenial(l, p) /\ ~(NetOf(l).route = "direct" /\ p.class = "success")
    <3>1. source'.denials = source.denials  BY <2>6, RecordSource
    <3>2. key \notin Unbroken'  BY <1>12, <2>6 DEF Unbroken
    <3>3. Unbroken' \subseteq Unbroken  BY <2>3, <3>2
    <3>4. Cardinality(Unbroken') <= Cardinality(Unbroken) /\ IsFiniteSet(Unbroken')
      BY <2>1, <3>3, FS_Subset
    <3>5. Cardinality(Unbroken') \in Nat  BY <3>4, FS_CardinalityType
    <3> QED  BY <1>5, <2>1, <3>1, <3>4, <3>5
  <2> QED  BY <2>4, <2>5, <2>6
<1>16. CooldownCovers'
  <2>1. ASSUME NEW k \in DirectDenials' PROVE source'.cooldown >= HoldsUntil(k)'
    <3>1. CASE k = key
      <4>1. HoldsUntil(key)' <= source'.cooldown /\ HoldsUntil(key)' \in Nat
        BY <1>12, <1>14, <3>1
      <4> QED  BY <1>5, <3>1, <4>1
    <3>2. CASE k \in DirectDenials
      <4>1. source.cooldown >= HoldsUntil(k)  BY <3>2 DEF CooldownInv, CooldownCovers
      <4> QED  BY <1>5, <1>13, <3>2, <4>1
    <3> QED  BY <1>12, <3>1, <3>2
  <2> QED  BY <1>15, <2>1 DEF CooldownCovers
<1>17. CooldownHonoured'
  <2> SUFFICES ASSUME NEW k \in DirectDenials', NEW j \in StartKeys,
                      RowOf(j)'.started > RowOf(k)'.recorded
               PROVE  RowOf(j)'.started >= HoldsUntil(k)'
    BY <1>2 DEF CooldownHonoured, HoldsUntil
  <2>1. /\ RowOf(j)'.started = RowOf(j).started /\ RowOf(j).started \in Nat
        /\ RowOf(j).started <= at
    BY <1>7, <1>8
  <2>2. k # key  BY <1>2, <1>3, <1>4, <2>1
  <2>3. k \in DirectDenials /\ RowOf(k)' = RowOf(k)  BY <1>11, <1>12, <2>2
  <2>4. RowOf(j).started >= HoldsUntil(k)
    BY <2>1, <2>3 DEF CooldownInv, CooldownHonoured, HoldsUntil
  <2> QED  BY <1>13, <2>1, <2>3, <2>4
<1> QED  BY <1>9, <1>16, <1>17 DEF CooldownInv

LEMMA CooldownStep ==
    ASSUME Punctual
    PROVE  BudgetInv /\ CooldownInv /\ [BudgetNext]_budgetVars => CooldownInv'
<1> SUFFICES ASSUME BudgetInv, CooldownInv, [BudgetNext]_budgetVars
             PROVE  CooldownInv'
  OBVIOUS
<1>0. /\ BudgetTypeOK /\ now \in Instant /\ QueueKnown /\ QueueTypeOK
      /\ BudgetTypeOK' /\ now \in Nat
  <2>1. BudgetInv'  BY BudgetNextInv
  <2> QED  BY <2>1, BudgetRows DEF BudgetInv, ActivationTypeOK
<1>1. StartsBounded'  BY StartsBoundedStep DEF CooldownInv
<1>2. now' \in {now, now + 1}  BY NowStep
<1>3. ASSUME net' = net, source' = source PROVE CooldownInv'
  BY <1>0, <1>1, <1>2, <1>3, CooldownFrame
<1>4. ASSUME NEW l \in granted, NEW at \in Captured, RefuseStart(l, at)
      PROVE  CooldownInv'
  <2>1. DayOf[at] \in Nat  BY <1>0, BudgetRows, InstantFacts
  <2>2. net' = net /\ source'.cooldown = source.cooldown
        /\ source'.denials = source.denials
    BY <1>0, <1>4, <2>1, SourceOnType DEF RefuseStart
  <2> QED  BY <1>0, <1>1, <1>2, <2>2, CooldownFrame
<1>5. ASSUME NEW l \in granted, NEW at \in Captured, GrantStart(l, at)
      PROVE  CooldownInv'
  BY <1>0, <1>1, <1>5, CooldownGrant
<1>6. ASSUME NEW l \in granted, NEW at \in Captured, NEW p \in Report(l),
             RecordOutcome(l, p, at)
      PROVE  CooldownInv'
  BY <1>0, <1>1, <1>6, CooldownRecord
<1>7. CASE QuietStep  BY <1>0, <1>3, <1>7, QuietMove DEF budgetOnlyVars
<1> QED
  BY <1>3, <1>4, <1>5, <1>6, <1>7, BudgetCases
  DEF budgetVars, budgetOnlyVars, RegisterProxyRoute

LEMMA NoStartsYet ==
    ASSUME Init, BudgetInit
    PROVE  StartKeys = {} /\ StartsBounded
<1>1. StartKeys = {}  BY DEF BudgetInit, NoNet, StartKeys
<1> QED  BY <1>1, FS_EmptySet DEF StartsBounded

(* AC-N1 and AC-N2 for every policy and every number of workers: nobody    *)
(* starts within the cooldown a direct denial calls for, provided that an  *)
(* operation works with the current time.                                  *)
THEOREM CooldownHonouredWhenPunctual ==
    ASSUME Punctual
    PROVE  BudgetSpec => []CooldownHonoured
<1>1. Init /\ BudgetInit => CooldownInv
  <2> SUFFICES ASSUME Init, BudgetInit PROVE CooldownInv
    OBVIOUS
  <2>1. StartKeys = {} /\ StartsBounded  BY NoStartsYet
  <2>2. DirectDenials = {} /\ Unbroken = {}
    BY <2>1 DEF DirectDenials, Unbroken
  <2>3. Cardinality(Unbroken) <= source.denials
    BY <2>2, FS_EmptySet DEF BudgetInit
  <2> QED
    BY <2>1, <2>2, <2>3 DEF CooldownInv, NothingAhead, CooldownCovers, CooldownHonoured
<1>2. CooldownInv => CooldownHonoured  BY DEF CooldownInv
<1>3. BudgetInv /\ CooldownInv /\ [BudgetNext]_budgetVars => CooldownInv'
  BY CooldownStep
<1> QED
  BY <1>1, <1>2, <1>3, BudgetInitInv, BudgetNextInv, PTL DEF BudgetSpec

-----------------------------------------------------------------------------
(* The attempts of a day, when an operation works with the current time *)

StartsOf(d) == {k \in StartKeys : DayOf[RowOf(k).started] = d}

(* The row's counter covers the starts of the row's day, which is the      *)
(* newest day with a start.                                                *)
DayCounted ==
    /\ source.day <= DayOf[now]
    /\ \A k \in StartKeys : DayOf[RowOf(k).started] <= source.day
    /\ Cardinality(StartsOf(source.day)) <= source.attempts
    /\ \A d \in Nat : Cardinality(StartsOf(d)) <= DailyAttempts

LEMMA StartsOfFinite ==
    ASSUME StartsBounded, NEW d
    PROVE  IsFiniteSet(StartsOf(d)) /\ Cardinality(StartsOf(d)) \in Nat
<1>1. StartsOf(d) \subseteq StartKeys  BY DEF StartsOf
<1>2. IsFiniteSet(StartsOf(d))  BY <1>1, FS_Subset DEF StartsBounded
<1> QED  BY <1>2, FS_CardinalityType

LEMMA StartDay ==
    ASSUME StartsBounded, NEW k \in StartKeys
    PROVE  DayOf[RowOf(k).started] \in Nat
<1>1. RowOf(k).started \in Instant  BY DEF StartsBounded
<1> QED  BY <1>1, BudgetAssumption

(* The row after the change of day: a fresh counter is for a day without   *)
(* a start.                                                                *)
LEMMA FreshDay ==
    ASSUME BudgetTypeOK, now \in Instant, StartsBounded, DayCounted
    PROVE  /\ DayOf[now] \in Nat /\ SourceOn(now).day = DayOf[now]
           /\ \A k \in StartKeys : DayOf[RowOf(k).started] <= DayOf[now]
           /\ SourceOn(now).attempts \in Nat
           /\ Cardinality(StartsOf(DayOf[now])) <= SourceOn(now).attempts
<1>1. DayOf[now] \in Nat  BY BudgetAssumption
<1>2. /\ SourceOn(now).day = DayOf[now] /\ SourceOn(now) \in SourceRow
      /\ source.day = DayOf[now] => SourceOn(now).attempts = source.attempts
  BY <1>1, SourceOnType
<1>3. SourceOn(now).attempts \in Nat  BY <1>2 DEF SourceRow
<1>4. source.day \in Nat /\ source.day <= DayOf[now]
  BY BudgetRows DEF SourceRow, DayCounted
<1>5. \A k \in StartKeys : /\ DayOf[RowOf(k).started] \in Nat
                           /\ DayOf[RowOf(k).started] <= source.day
  BY StartDay DEF DayCounted
<1>6. \A k \in StartKeys : DayOf[RowOf(k).started] <= DayOf[now]
  BY <1>1, <1>4, <1>5
<1>7. CASE source.day = DayOf[now]
  BY <1>1, <1>2, <1>3, <1>6, <1>7 DEF DayCounted
<1>8. CASE source.day # DayOf[now]
  <2>1. StartsOf(DayOf[now]) = {}  BY <1>1, <1>4, <1>5, <1>8 DEF StartsOf
  <2>2. Cardinality(StartsOf(DayOf[now])) = 0  BY <2>1, FS_EmptySet
  <2> QED  BY <1>1, <1>2, <1>3, <1>6, <2>2
<1> QED  BY <1>7, <1>8

(* A step without a start, at the current time.                            *)
LEMMA DayFrame ==
    ASSUME BudgetTypeOK, now \in Instant, StartsBounded, DayCounted,
           StartKeys' = StartKeys, now' = now,
           \A k \in StartKeys : RowOf(k)'.started = RowOf(k).started,
           source'.day = DayOf[now], source'.attempts = SourceOn(now).attempts
    PROVE  DayCounted'
<1>1. \A d : StartsOf(d)' = StartsOf(d)  BY DEF StartsOf
<1>2. source'.day <= DayOf[now]'  BY FreshDay
<1> QED  BY <1>1, <1>2, FreshDay DEF DayCounted

LEMMA DayGrant ==
    ASSUME Punctual, BudgetTypeOK, now \in Instant, QueueKnown, StartsBounded,
           DayCounted, NEW l \in granted, NEW at \in Captured, GrantStart(l, at)
    PROVE  DayCounted'
<1>1. PICK row \in NetRow : IsStartRow(l, at, row)  BY GrantRow
<1> DEFINE key == <<l.task, l.attempt>>
<1>2. /\ StartKeys' = StartKeys \cup {key} /\ RowOf(key)' = row
      /\ \A k \in StartKeys : RowOf(k)' = RowOf(k)
      /\ key \notin StartKeys
  BY <1>1, GrantKeys
<1>3. at = now /\ now' = now /\ row.started = now
  BY <1>1, PunctualFacts DEF IsStartRow, GrantStart, vars, activationVars
<1>4. /\ source'.attempts = SourceOn(now).attempts + 1 /\ source'.day = DayOf[now]
      /\ source'.attempts <= DailyAttempts
  BY <1>3, GrantEffect
<1>5. /\ DayOf[now] \in Nat /\ SourceOn(now).attempts \in Nat
      /\ \A k \in StartKeys : DayOf[RowOf(k).started] <= DayOf[now]
      /\ Cardinality(StartsOf(DayOf[now])) <= SourceOn(now).attempts
  BY FreshDay
<1> HIDE DEF key
<1>6. ASSUME NEW d
      PROVE  StartsOf(d)' = IF d = DayOf[now] THEN StartsOf(d) \cup {key} ELSE StartsOf(d)
  BY <1>2, <1>3 DEF StartsOf
<1> DEFINE today == StartsOf(DayOf[now])
<1>7. Cardinality(StartsOf(DayOf[now])') <= source'.attempts
  <2>1. IsFiniteSet(today) /\ Cardinality(today) \in Nat  BY StartsOfFinite
  <2>2. key \notin today  BY <1>2 DEF StartsOf
  <2>3. Cardinality(today \cup {key}) = Cardinality(today) + 1
    BY <2>1, <2>2, FS_AddElement
  <2>4. StartsOf(DayOf[now])' = today \cup {key}  BY <1>3, <1>6
  <2> HIDE DEF today
  <2>5. Cardinality(today) <= SourceOn(now).attempts  BY <1>5 DEF today
  <2> QED  BY <1>4, <1>5, <2>1, <2>3, <2>4, <2>5
<1>8. source'.attempts \in Nat  BY <1>4, <1>5
<1>9. ASSUME NEW d \in Nat PROVE Cardinality(StartsOf(d)') <= DailyAttempts
  <2>1. CASE d = DayOf[now]
    <3>1. /\ IsFiniteSet(today) /\ Cardinality(today) \in Nat  BY StartsOfFinite
    <3>2. StartsOf(d)' = today \cup {key}  BY <1>6, <2>1
    <3>3. IsFiniteSet(StartsOf(d)')  BY <3>1, <3>2, FS_AddElement
    <3>4. Cardinality(StartsOf(d)') \in Nat  BY <3>3, FS_CardinalityType
    <3>5. Cardinality(StartsOf(d)') <= source'.attempts  BY <1>3, <1>7, <2>1
    <3> QED  BY <1>4, <1>8, <3>4, <3>5, BudgetConstants
  <2>2. CASE d # DayOf[now]  BY <1>6, <2>2 DEF DayCounted
  <2> QED  BY <2>1, <2>2
<1>10. \A k \in StartKeys' : DayOf[RowOf(k)'.started] <= source'.day
  BY <1>2, <1>3, <1>4, <1>5
<1>11. source'.day <= DayOf[now]'  BY <1>3, <1>4, <1>5
<1>12. Cardinality(StartsOf(source.day)') <= source'.attempts
  <2>1. StartsOf(source.day)' = StartsOf(DayOf[now])'  BY <1>3, <1>4 DEF StartsOf
  <2> QED  BY <1>7, <2>1
<1> QED  BY <1>9, <1>10, <1>11, <1>12 DEF DayCounted

LEMMA DayStep ==
    ASSUME Punctual
    PROVE  BudgetInv /\ StartsBounded /\ DayCounted /\ [BudgetNext]_budgetVars
              => DayCounted'
<1> SUFFICES ASSUME BudgetInv, StartsBounded, DayCounted, [BudgetNext]_budgetVars
             PROVE  DayCounted'
  OBVIOUS
<1>0. /\ BudgetTypeOK /\ now \in Instant /\ QueueKnown /\ QueueTypeOK
      /\ (now \in Instant)' /\ source.day \in Nat
  <2>1. BudgetInv'  BY BudgetNextInv
  <2> QED  BY <2>1, BudgetRows DEF BudgetInv, SourceRow
<1>1. DayOf[now] \in Nat /\ DayOf[now]' \in Nat /\ DayOf[now] <= DayOf[now]'
  <2>1. now \in Nat /\ now' \in Nat /\ now <= now'
    BY <1>0, NowStep, ActivationAssumption DEF Instant
  <2> QED  BY <1>0, <2>1, BudgetAssumption
<1>2. ASSUME net' = net, source' = source PROVE DayCounted'
  <2>1. /\ StartKeys' = StartKeys /\ \A k : RowOf(k)' = RowOf(k)
    BY <1>2 DEF StartKeys, RowOf
  <2>2. \A d : StartsOf(d)' = StartsOf(d)  BY <2>1 DEF StartsOf
  <2>3. source'.day <= DayOf[now]'  BY <1>0, <1>1, <1>2 DEF DayCounted
  <2> QED  BY <1>2, <2>1, <2>2, <2>3 DEF DayCounted
<1>3. ASSUME NEW l \in granted, NEW at \in Captured, RefuseStart(l, at)
      PROVE  DayCounted'
  <2>1. at = now /\ now' = now
    BY <1>0, <1>3, PunctualFacts DEF RefuseStart, vars, activationVars
  <2>2. net' = net /\ source' = SourceOn(now)  BY <1>3, <2>1 DEF RefuseStart
  <2>3. source'.day = DayOf[now] /\ source'.attempts = SourceOn(now).attempts
    BY <1>0, <1>1, <2>2, SourceOnType
  <2>4. StartKeys' = StartKeys /\ \A k : RowOf(k)' = RowOf(k)
    BY <2>2 DEF StartKeys, RowOf
  <2> QED  BY <1>0, <2>1, <2>3, <2>4, DayFrame
<1>4. ASSUME NEW l \in granted, NEW at \in Captured, GrantStart(l, at)
      PROVE  DayCounted'
  BY <1>0, <1>4, DayGrant
<1>5. ASSUME NEW l \in granted, NEW at \in Captured, NEW p \in Report(l),
             RecordOutcome(l, p, at)
      PROVE  DayCounted'
  <2>1. PICK row \in NetRow : IsRecordedRow(l, p, at, row)  BY <1>0, <1>5, RecordRow
  <2> DEFINE key == <<l.task, l.attempt>>
  <2>2. /\ StartKeys' = StartKeys /\ RowOf(key)' = row /\ RowOf(key) = NetOf(l)
        /\ \A k \in StartKeys : k # key => RowOf(k)' = RowOf(k)
    BY <1>0, <1>5, <2>1, RecordKeys
  <2>3. row.started = NetOf(l).started  BY <2>1 DEF IsRecordedRow
  <2> HIDE DEF key
  <2>4. \A k \in StartKeys : RowOf(k)'.started = RowOf(k).started  BY <2>2, <2>3
  <2>5. at = now /\ now' = now
    BY <1>0, <1>5, PunctualFacts DEF RecordOutcome, Close, vars, activationVars
  <2>6. source'.day = DayOf[now] /\ source'.attempts = SourceOn(now).attempts
    BY <1>0, <1>5, <2>5, RecordSource
  <2> QED  BY <1>0, <2>2, <2>4, <2>5, <2>6, DayFrame
<1>6. CASE QuietStep  BY <1>0, <1>2, <1>6, QuietMove DEF budgetOnlyVars
<1> QED
  BY <1>2, <1>3, <1>4, <1>5, <1>6, BudgetCases
  DEF budgetVars, budgetOnlyVars, RegisterProxyRoute

(* AC-N1 for every calendar, ceiling and number of workers: no UTC day     *)
(* sees more starts than allowed, provided that an operation works with    *)
(* the current time.                                                       *)
THEOREM DailyAttemptCeilingWhenPunctual ==
    ASSUME Punctual
    PROVE  BudgetSpec => []DailyAttemptCeiling
<1>1. Init /\ BudgetInit => StartsBounded /\ DayCounted
  <2> SUFFICES ASSUME Init, BudgetInit PROVE StartsBounded /\ DayCounted
    OBVIOUS
  <2>1. StartKeys = {} /\ StartsBounded  BY NoStartsYet
  <2>2. \A d : StartsOf(d) = {}  BY <2>1 DEF StartsOf
  <2>3. \A d : Cardinality(StartsOf(d)) = 0  BY <2>2, FS_EmptySet
  <2>4. source.day = 0 /\ source.attempts = 0 /\ now \in Instant
    BY BudgetInitInv DEF BudgetInit, BudgetInv
  <2>5. DayOf[now] \in Nat  BY <2>4, BudgetAssumption
  <2> QED  BY <2>1, <2>3, <2>4, <2>5, BudgetConstants DEF DayCounted
<1>2. BudgetInv /\ StartsBounded /\ [BudgetNext]_budgetVars => StartsBounded'
  BY StartsBoundedStep
<1>3. BudgetInv /\ StartsBounded /\ DayCounted /\ [BudgetNext]_budgetVars => DayCounted'
  BY DayStep
<1>4. DayCounted => DailyAttemptCeiling
  BY BudgetAssumption DEF DayCounted, DailyAttemptCeiling, StartsOf
<1> QED
  BY <1>1, <1>2, <1>3, <1>4, BudgetInitInv, BudgetNextInv, PTL DEF BudgetSpec

=============================================================================
