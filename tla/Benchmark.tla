----------------------------- MODULE Benchmark -----------------------------
(***************************************************************************)
(* Benchmark runs of a candidate release: a frozen sample of raw artifacts *)
(* is parsed by the active and by the candidate release, reviewed, and the *)
(* run then qualifies the candidate for activation, while the artifacts    *)
(* expire.                                                                 *)
(*                                                                         *)
(* Code: src/homefinder/benchmark/__init__.py and benchmark_repository.py. *)
(* Fixtures, which never expire and never count as coverage, and the       *)
(* parsers' output are left out; the encrypted values of a result are kept *)
(* or gone.                                                                *)
(***************************************************************************)
EXTENDS Naturals, FiniteSets, FiniteSetsExt

CONSTANTS
    BenchRun,           \* run ids
    Raw,                \* artifacts, numbers in the order they are sorted in a stratum
    StratumOf,          \* stratum of an artifact, a number
    VariantOf,          \* variant of an artifact
    ExpiryOf,           \* expires_at of an artifact
    ChangedVariant,     \* variants the candidate changes
    MaxRaw,             \* MAX_RAW_ENTRIES
    BenchHorizon        \* bound: clock

ASSUME BenchAssumption ==
    /\ Raw \subseteq Nat /\ IsFiniteSet(Raw)
    /\ StratumOf \in [Raw -> Nat] /\ ExpiryOf \in [Raw -> Nat]
    /\ {MaxRaw, BenchHorizon} \subseteq Nat

VARIABLES
    benchClock,
    runs,               \* benchmark_runs, with the frozen manifest
    found,              \* results a worker holds in memory, per run
    benchResults,       \* benchmark_results: status of each entry of a run
    kept                \* <<run, entry>> whose values are kept

benchVars == <<benchClock, runs, found, benchResults, kept>>

NoRun == [state |-> "none", pool |-> {}, entries |-> {}, eligible |-> FALSE, settled |-> FALSE]
Unexpired(e) == ExpiryOf[e] > benchClock

-----------------------------------------------------------------------------
(* The place of an artifact in its stratum.                                *)
Place(pool, e) == Cardinality({d \in pool : StratumOf[d] = StratumOf[e] /\ d < e})

(* build_manifest: one artifact of each stratum after the other, in rounds *)
(* over the sorted strata, up to MaxRaw.                                   *)
Sample(pool) ==
    LET Earlier(d, e) == \/ Place(pool, d) < Place(pool, e)
                         \/ Place(pool, d) = Place(pool, e) /\ StratumOf[d] < StratumOf[e]
    IN  {e \in pool : Cardinality({d \in pool : Earlier(d, e)}) < MaxRaw}

(* create.                                                                 *)
CreateRun(r, pool) ==
    /\ runs[r].state = "none"
    /\ \A e \in pool : Unexpired(e)
    /\ runs' = [runs EXCEPT ![r] = [NoRun EXCEPT !.state = "pending", !.pool = pool,
                                                 !.entries = Sample(pool)]]
    /\ UNCHANGED <<benchClock, found, benchResults, kept>>

(* BenchmarkWorker.run, one entry: the artifact is compared, or it is gone *)
(* or cannot be read.                                                      *)
CompareEntry(r, e, status) ==
    /\ runs[r].state = "pending"
    /\ e \in runs[r].entries \ DOMAIN found[r]
    /\ status = "compared" => Unexpired(e)
    /\ found' = [found EXCEPT ![r] =
                    [d \in DOMAIN @ \cup {e} |-> IF d = e THEN status ELSE @[d]]]
    /\ UNCHANGED <<benchClock, runs, benchResults, kept>>

(* The worker stops; what it has found is lost.                            *)
WorkerStops(r) ==
    /\ found[r] # [e \in {} |-> 0]
    /\ found' = [found EXCEPT ![r] = [e \in {} |-> 0]]
    /\ UNCHANGED <<benchClock, runs, benchResults, kept>>

(* eligible_for_activation: raw coverage of every changed variant, and no  *)
(* review that is open, incorrect, or ambiguous where the candidate adds.  *)
EligibleNow(r, settled) ==
    /\ settled
    /\ \A v \in ChangedVariant : \E e \in runs[r].entries :
          VariantOf[e] = v /\ found[r][e] = "compared" /\ Unexpired(e)

(* complete.                                                               *)
CompleteRun(r, settled) ==
    /\ runs[r].state = "pending"
    /\ DOMAIN found[r] = runs[r].entries
    /\ runs' = [runs EXCEPT ![r].state = "complete", ![r].settled = settled,
                            ![r].eligible = EligibleNow(r, settled)]
    /\ benchResults' = [benchResults EXCEPT ![r] = found[r]]
    /\ kept' = kept \cup {<<r, e>> : e \in {d \in DOMAIN found[r] :
                                                found[r][d] = "compared"}}
    /\ found' = [found EXCEPT ![r] = [e \in {} |-> 0]]
    /\ UNCHANGED benchClock

(* expire_artifact.                                                        *)
EraseArtifact(e) ==
    /\ \E r \in BenchRun : e \in DOMAIN benchResults[r]
    /\ kept' = {k \in kept : k[2] # e}
    /\ UNCHANGED <<benchClock, runs, found, benchResults>>

BenchTick ==
    /\ benchClock < BenchHorizon
    /\ benchClock' = benchClock + 1
    /\ UNCHANGED <<runs, found, benchResults, kept>>

StoredVerdict(r) == runs[r].state = "complete" /\ runs[r].eligible

(* persisted_eligibility, which the activation of a release asks for.      *)
Qualifies(r) ==
    /\ runs[r].state = "complete" /\ runs[r].eligible
    /\ \A e \in DOMAIN benchResults[r] : Unexpired(e) /\ benchResults[r][e] = "compared"

BenchInit ==
    /\ benchClock = 0
    /\ runs = [r \in BenchRun |-> NoRun]
    /\ found = [r \in BenchRun |-> [e \in {} |-> 0]]
    /\ benchResults = [r \in BenchRun |-> [e \in {} |-> 0]]
    /\ kept = {}

BenchNext ==
    \/ BenchTick
    \/ \E r \in BenchRun :
          \/ \E pool \in SUBSET Raw : CreateRun(r, pool)
          \/ \E e \in Raw, s \in {"compared", "unavailable"} : CompareEntry(r, e, s)
          \/ \E settled \in BOOLEAN : CompleteRun(r, settled)
          \/ WorkerStops(r)
    \/ \E e \in Raw : EraseArtifact(e)

BenchSpec == BenchInit /\ [][BenchNext]_benchVars

-----------------------------------------------------------------------------
(* A candidate that qualifies now does so on evidence that can still be    *)
(* looked at: every changed variant was compared on an artifact that has   *)
(* not expired, and all differences are settled.  The run's eligible       *)
(* column is older than the question.                                      *)
QualifiedOnFreshEvidence ==
    \A r \in BenchRun : Qualifies(r) =>
        /\ runs[r].settled
        /\ \A v \in ChangedVariant : \E e \in runs[r].entries :
              VariantOf[e] = v /\ ExpiryOf[e] > benchClock /\ benchResults[r][e] = "compared"

(* The sample is fair to the strata: as large as it may be, and no stratum *)
(* has two entries more than another that could have given more.           *)
SampleIsBalanced ==
    \A r \in BenchRun :
        LET Count(s, e) == Cardinality({d \in s : StratumOf[d] = StratumOf[e]})
            pool == runs[r].pool
            sample == runs[r].entries
        IN  /\ Cardinality(sample) = Min({MaxRaw, Cardinality(pool)})
            /\ \A d, e \in pool : Count(sample, d) > Count(sample, e) + 1
                                      => Count(sample, e) = Count(pool, e)

(* A release qualifies on a fair sample and on evidence that is still      *)
(* there.                                                                  *)
BenchInvariant == SampleIsBalanced /\ QualifiedOnFreshEvidence

=============================================================================
