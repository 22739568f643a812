----------------------------- MODULE Retention -----------------------------
(***************************************************************************)
(* The daily retention run: it deletes production results of captures      *)
(* older than two years and the values of expired benchmark results, in    *)
(* one bounded transaction, and keeps the state of its alerts in two more. *)
(* An alert is mailed after the commit that records it.                    *)
(*                                                                         *)
(* Code: src/homefinder/operations/retention.py and the                    *)
(* run-parser-retention command of cli.py.  Time is relative: captures     *)
(* have an age in days, benchmark results a rest of life.  A capture has   *)
(* one result of its own and one of each replay of its artifact.           *)
(***************************************************************************)
EXTENDS Naturals, FiniteSets, FiniteSetsExt, Functions

CONSTANTS
    Capture,            \* page captures, numbers in the order of fetched_at
    ListingOf,          \* the listing a capture is of
    TwoYears,           \* days: _two_year_cutoff
    BatchSize,
    BenchRow,           \* benchmark results, numbers in the order of expires_at
    BenchLife,          \* the life of a benchmark result, in days
    DatabaseSize,       \* possible sizes, in units of TEN_GB
    RearmAfter,         \* measurements below a boundary that arm it again
    MaxReplays          \* bound: replays of a capture

ASSUME RetentionAssumption ==
    /\ Capture \subseteq Nat /\ BenchRow \subseteq Nat
    /\ {TwoYears, BatchSize, RearmAfter, MaxReplays} \subseteq Nat
    /\ BenchLife \in [BenchRow -> Nat]
    /\ DatabaseSize \subseteq Nat

VARIABLES
    age,                \* age of a capture: 0 when it is fetched, capped
    fetched,            \* captures ever fetched (history)
    results,            \* results of a capture: 0 is its own, 1.. are replays
    lastSeen,           \* listing_retention_tombstones: last_fetched_at
    life,               \* rest of life of a benchmark result
    values,             \* benchmark results whose values are kept
    sizeAlerts,         \* database_size_alert_state
    calm,               \* successful measurements below in a row since the
                        \* last alert, up to RearmAfter (history)
    failing,            \* retention_alert_state.failing
    notifiedToday,      \* last_notified_at is less than a day ago
    retention           \* where the run is

retentionVars == <<age, fetched, results, lastSeen, life, values, sizeAlerts,
                   calm, failing, notifiedToday, retention>>
dataVars == <<age, fetched, results, lastSeen, life, values>>

Boundaries == UNION {1..size : size \in DatabaseSize}
RetentionListing == {ListingOf[c] : c \in Capture}
IdleRun == [at |-> "idle", healthy |-> TRUE, mail |-> "none", rest |-> FALSE]

RetentionInit ==
    /\ age = [c \in Capture |-> 0]
    /\ fetched = {}
    /\ results = [c \in Capture |-> {}]
    /\ lastSeen = [l \in RetentionListing |-> 0]
    /\ life = BenchLife
    /\ values = BenchRow
    /\ sizeAlerts = [b \in {} |-> 0]
    /\ calm = [b \in Boundaries |-> RearmAfter]
    /\ failing = FALSE
    /\ notifiedToday = FALSE
    /\ retention = IdleRun

-----------------------------------------------------------------------------
(* The queue accepts a page, in order.                                     *)
FetchPage(c) ==
    /\ c \notin fetched
    /\ \A d \in Capture : d < c => d \in fetched
    /\ fetched' = fetched \cup {c}
    /\ results' = [results EXCEPT ![c] = {0}]
    /\ UNCHANGED <<age, lastSeen, life, values, sizeAlerts, calm, failing,
                   notifiedToday, retention>>

(* A replay of its artifact adds a result to a capture.                    *)
ReplayPage(c) ==
    /\ results[c] # {}
    /\ Max(results[c]) < MaxReplays
    /\ results' = [results EXCEPT ![c] = @ \cup {Max(@) + 1}]
    /\ UNCHANGED <<age, fetched, lastSeen, life, values, sizeAlerts, calm,
                   failing, notifiedToday, retention>>

DayPasses ==
    /\ age' = [c \in Capture |-> IF c \in fetched THEN Min({age[c] + 1, TwoYears + 1})
                                                  ELSE 0]
    /\ life' = [b \in BenchRow |-> Max({life[b], 1}) - 1]
    /\ notifiedToday' = FALSE
    /\ UNCHANGED <<fetched, results, lastSeen, values, sizeAlerts, calm, failing,
                   retention>>

-----------------------------------------------------------------------------
ReplayedIsYoung(r) == age[r[1]] > TwoYears /\ r[2] = 0

(* fetched_at < cutoff: the age of the capture, not of the result.         *)
Outdated(r) == age[r[1]] > TwoYears

ResultRows == {r \in Capture \X (0..MaxReplays) : r[2] \in results[r[1]]}
OlderRow(r, s) == r[1] < s[1] \/ (r[1] = s[1] /\ r[2] < s[2])

(* ORDER BY fetched_at, id LIMIT n.                                        *)
OldestFirst(rows, n) ==
    {r \in rows : Cardinality({s \in rows : OlderRow(s, r)}) < n}

(* The results _purge_production_result deletes in this run.               *)
Purged == OldestFirst({r \in ResultRows : Outdated(r)}, BatchSize)

Kept(c) == {n \in results[c] : <<c, n>> \notin Purged}

(* The listing's last result leaves a tombstone, which a newer capture     *)
(* replaces.                                                               *)
Tombstoned(l) ==
    LET gone == {r \in Purged : ListingOf[r[1]] = l}
        left == {c \in Capture : ListingOf[c] = l /\ Kept(c) # {}}
    IN  IF gone # {} /\ left = {}
          THEN Max({lastSeen[l]} \cup {r[1] : r \in gone})
          ELSE lastSeen[l]

(* Expired benchmark results share what is left of the batch; a row whose  *)
(* values are gone keeps its expires_at and is selected again.             *)
BenchPurged ==
    LET expired == {b \in BenchRow : life[b] = 0}
    IN  {b \in expired : Cardinality({d \in expired : d < b})
                            < BatchSize - Cardinality(Purged)}

(* run_daily, its transaction.                                             *)
Purge ==
    /\ retention.at = "idle"
    /\ results' = [c \in Capture |-> Kept(c)]
    /\ lastSeen' = [l \in RetentionListing |-> Tombstoned(l)]
    /\ values' = values \ BenchPurged
    /\ retention' = [IdleRun EXCEPT !.at = "health", !.rest = TRUE,
                        !.healthy = \A c \in Capture : age[c] > TwoYears => Kept(c) = {}]
    /\ UNCHANGED <<age, fetched, life, sizeAlerts, calm, failing, notifiedToday>>

StreakKept == sizeAlerts

(* A failed measurement ends the streaks.                                  *)
StreaksEnded == [b \in DOMAIN sizeAlerts |-> [sizeAlerts[b] EXCEPT !.streak = 0]]

(* The transaction fails: it is rolled back, record_database_size is       *)
(* called without a size, and the run ends after the health is recorded.   *)
PurgeFails ==
    /\ retention.at = "idle"
    /\ sizeAlerts' = StreaksEnded
    /\ calm' = [b \in Boundaries |-> IF calm[b] = RearmAfter THEN calm[b] ELSE 0]
    /\ retention' = [IdleRun EXCEPT !.at = "health", !.healthy = FALSE]
    /\ UNCHANGED <<dataVars, failing, notifiedToday>>

(* record_retention_health: first failure, reminder, recovery.             *)
RecordHealth ==
    /\ retention.at = "health"
    /\ failing' = ~retention.healthy
    /\ LET mail == CASE ~retention.healthy /\ ~failing -> "failure"
                     [] ~retention.healthy /\ failing /\ ~notifiedToday -> "failure"
                     [] retention.healthy /\ failing -> "recovery"
                     [] OTHER -> "none"
       IN  /\ retention' = [retention EXCEPT !.at = "mail", !.mail = mail]
           /\ notifiedToday' = (notifiedToday \/ mail # "none")
    /\ UNCHANGED <<dataVars, sizeAlerts, calm>>

AfterHealth == IF retention.rest THEN [IdleRun EXCEPT !.at = "size"] ELSE IdleRun

(* _notify, after the commit.                                              *)
MailHealth ==
    /\ retention.at = "mail"
    /\ retention' = AfterHealth
    /\ UNCHANGED <<dataVars, sizeAlerts, calm, failing, notifiedToday>>

(* The mail cannot be sent: the exception ends the run.                    *)
MailHealthFails ==
    /\ retention.at = "mail"
    /\ retention.mail # "none"
    /\ retention' = IdleRun
    /\ UNCHANGED <<dataVars, sizeAlerts, calm, failing, notifiedToday>>

(* record_database_size: boundaries at or below the size alert when they   *)
(* are armed, those above count the measurement.                           *)
Alerting(size) ==
    {b \in 1..size : b \in DOMAIN sizeAlerts => sizeAlerts[b].armed}

Measured(size, b) ==
    IF b <= size THEN [armed |-> FALSE, streak |-> 0]
    ELSE LET streak == Min({sizeAlerts[b].streak + 1, RearmAfter})
         IN  [armed |-> sizeAlerts[b].armed \/ streak >= RearmAfter, streak |-> streak]

RecordSize(size) ==
    /\ retention.at = "size"
    /\ sizeAlerts' = [b \in DOMAIN sizeAlerts \cup (1..size) |-> Measured(size, b)]
    /\ calm' = [b \in Boundaries |-> IF b <= size THEN 0
                                     ELSE Min({calm[b] + 1, RearmAfter})]
    /\ retention' = IdleRun
    /\ UNCHANGED <<dataVars, failing, notifiedToday>>

(* The command is stopped.                                                 *)
RunStops ==
    /\ retention # IdleRun
    /\ retention' = IdleRun
    /\ UNCHANGED <<dataVars, sizeAlerts, calm, failing, notifiedToday>>

(* A run that was started goes on.                                         *)
RunGoesOn == RecordHealth \/ MailHealth \/ \E size \in DatabaseSize : RecordSize(size)

RetentionNext ==
    \/ \E c \in Capture : FetchPage(c) \/ ReplayPage(c)
    \/ DayPasses
    \/ Purge \/ PurgeFails \/ RunGoesOn \/ MailHealthFails
    \/ RunStops

RetentionSpec == RetentionInit /\ [][RetentionNext]_retentionVars

-----------------------------------------------------------------------------
(* When a listing has no detailed result left, its tombstone tells of the  *)
(* last time its page was fetched, although batches may cut through the    *)
(* results of a capture and replays add results to old captures.           *)
TombstoneTellsLast ==
    \A l \in RetentionListing :
        LET seen == {c \in fetched : ListingOf[c] = l}
        IN  seen # {} /\ (\A c \in seen : results[c] = {}) => lastSeen[l] = Max(seen)

(* The mail for a boundary is not repeated before RearmAfter successful    *)
(* measurements in a row below it, whatever fails in between.              *)
SizeAlertsRearm ==
    [][\A size \in DatabaseSize :
          RecordSize(size) => \A b \in Alerting(size) : calm[b] = RearmAfter]_retentionVars

(* No result outlives its capture's two years for good: batches, failed    *)
(* runs and replays, which make new results of old pages, only delay it.   *)
OutdatedResultsGo == \A c \in Capture : age[c] > TwoYears ~> results[c] = {}

(* What the retention run tells is right: tombstones of the last fetch,    *)
(* and alerts of boundaries only after they were armed again.              *)
RetentionTellsTruth == []TombstoneTellsLast /\ SizeAlertsRearm

=============================================================================
