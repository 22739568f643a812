--------------------------- MODULE DeliveryOutbox ---------------------------
(***************************************************************************)
(* Delivery of the prepared reports by mail: one outbox row per period,    *)
(* claimed by delivery workers, retried after failures and taken over from *)
(* workers that stopped.                                                   *)
(*                                                                         *)
(* Code: DeliveryOutbox and DeliveryWorker in src/homefinder/digest/       *)
(* delivery.py, enqueued by the scheduler and the manual-report route.     *)
(* The mail provider is external: it drops a message whose Idempotency-Key *)
(* it has seen, and its answer may be lost.                                *)
(*                                                                         *)
(* Times are kept as what is left or has passed of them.  A worker works   *)
(* on one claim and forgets it in a crash, so the worker stands for its    *)
(* claim token.                                                            *)
(***************************************************************************)
EXTENDS Naturals, Sequences

CONSTANTS
    Period,         \* delivery periods (a day, or a manual report's minute)
    Report,         \* prepared reports
    NoReport,
    Worker,
    NoWorker,
    NoPeriod,
    StaleAfter,     \* stale_after of claim
    Backoff,        \* retry delay by attempt number; the last one is the cap
    MaxLag,         \* bound: age of the time a delivery batch works with
    MaxCrashes,     \* bound: worker crashes
    MaxFaults,      \* bound: failed or unanswered sends
    MaxStalls       \* bound: claims that get stale under a live worker

VARIABLES
    state,          \* DigestDeliveryRecord.state, "none" before enqueue
    report,         \* report_id
    owner,          \* holder of claim_token
    age,            \* time since claimed_at, capped at stale_after
    wait,           \* time left until next_attempt_at
    attemptCount,   \* attempt_count, capped where the backoff is
    held,           \* period each worker works on
    phase,          \* where in run_once that worker is
    mailbox,        \* messages the provider accepted, by idempotency key
    crashes, faults, stalls \* counted for the bounds

recordVars == <<state, report, owner, age, wait, attemptCount>>
boundVars == <<crashes, faults, stalls>>
vars == <<recordVars, held, phase, mailbox, boundVars>>

MaxAttempt == Len(Backoff)
Smaller(a, b) == IF a < b THEN a ELSE b
Less(a, b) == IF a > b THEN a - b ELSE 0

ASSUME DeliveryAssumption ==
    /\ NoReport \notin Report /\ NoWorker \notin Worker /\ NoPeriod \notin Period
    /\ StaleAfter \in Nat \ {0}
    /\ Backoff \in Seq(Nat) /\ Backoff # <<>>
    /\ {MaxLag, MaxCrashes, MaxFaults, MaxStalls} \subseteq Nat
    /\ MaxLag < StaleAfter

-----------------------------------------------------------------------------
EnqueueRebinding(p, r) ==
    /\ state' = [state EXCEPT ![p] = IF @ = "none" THEN "pending" ELSE @]
    /\ report' = [report EXCEPT ![p] = r]
    /\ UNCHANGED <<owner, age, wait, attemptCount, held, phase, mailbox, boundVars>>

(* enqueue: a period is bound to its first report; the same report again   *)
(* changes nothing, another one is refused.                                *)
Enqueue(p, r) ==
    /\ state[p] = "none"
    /\ state' = [state EXCEPT ![p] = "pending"]
    /\ report' = [report EXCEPT ![p] = r]
    /\ UNCHANGED <<owner, age, wait, attemptCount, held, phase, mailbox, boundVars>>

ClaimableOnce(p) == state[p] \in {"pending", "retryable_failure"} /\ wait[p] = 0

(* The WHERE clause of claim: due, or abandoned while sending.             *)
Claimable(p) ==
    \/ state[p] \in {"pending", "retryable_failure"} /\ wait[p] = 0
    \/ state[p] = "sending" /\ age[p] >= StaleAfter

(* claim, by a worker whose batch started lag ago: claimed_at is the start *)
(* of the batch, so a claim late in a batch gets stale early.              *)
Claim(w, p, lag) ==
    /\ held[w] = NoPeriod
    /\ Claimable(p)
    /\ state' = [state EXCEPT ![p] = "sending"]
    /\ owner' = [owner EXCEPT ![p] = w]
    /\ age' = [age EXCEPT ![p] = lag]
    /\ attemptCount' = [attemptCount EXCEPT ![p] = Smaller(@ + 1, MaxAttempt)]
    /\ held' = [held EXCEPT ![w] = p]
    /\ phase' = [phase EXCEPT ![w] = "claimed"]
    /\ UNCHANGED <<report, wait, mailbox, boundVars>>

(* The provider accepts the message and its acknowledgement arrives.       *)
Send(w) ==
    /\ phase[w] = "claimed"
    /\ mailbox' = mailbox \cup {[period |-> held[w], report |-> report[held[w]]]}
    /\ phase' = [phase EXCEPT ![w] = "acknowledged"]
    /\ UNCHANGED <<recordVars, held, boundVars>>

(* The send fails: refused, never sent, or accepted without an answer.     *)
SendFails(w, accepted) ==
    /\ phase[w] = "claimed"
    /\ faults < MaxFaults
    /\ faults' = faults + 1
    /\ mailbox' = IF accepted
          THEN mailbox \cup {[period |-> held[w], report |-> report[held[w]]]}
          ELSE mailbox
    /\ phase' = [phase EXCEPT ![w] = "failed"]
    /\ UNCHANGED <<recordVars, held, crashes, stalls>>

ClaimedByAnyone(w) == held[w] # NoPeriod /\ state[held[w]] # "none"

(* _claimed: the row is still being sent under this claim.                 *)
Claimed(w) ==
    /\ held[w] # NoPeriod
    /\ state[held[w]] = "sending"
    /\ owner[held[w]] = w

Release(w) ==
    /\ held' = [held EXCEPT ![w] = NoPeriod]
    /\ phase' = [phase EXCEPT ![w] = "idle"]

AcknowledgeAnyPhase(w) ==
    /\ phase[w] # "idle"
    /\ Claimed(w)
    /\ state' = [state EXCEPT ![held[w]] = "sent"]
    /\ owner' = [owner EXCEPT ![held[w]] = NoWorker]
    /\ Release(w)
    /\ UNCHANGED <<report, age, wait, attemptCount, mailbox, boundVars>>

(* acknowledge, with the provider's message id in hand.                    *)
Acknowledge(w) ==
    /\ phase[w] = "acknowledged"
    /\ Claimed(w)
    /\ state' = [state EXCEPT ![held[w]] = "sent"]
    /\ owner' = [owner EXCEPT ![held[w]] = NoWorker]
    /\ Release(w)
    /\ UNCHANGED <<report, age, wait, attemptCount, mailbox, boundVars>>

(* fail, after the exponential backoff counted from the start of the batch.*)
Fail(w, lag) ==
    /\ phase[w] = "failed"
    /\ Claimed(w)
    /\ state' = [state EXCEPT ![held[w]] = "retryable_failure"]
    /\ owner' = [owner EXCEPT ![held[w]] = NoWorker]
    /\ wait' = [wait EXCEPT ![held[w]] = Less(Backoff[attemptCount[held[w]]], lag)]
    /\ Release(w)
    /\ UNCHANGED <<report, age, attemptCount, mailbox, boundVars>>

(* acknowledge or fail of a claim that was taken over raises.              *)
LoseClaim(w) ==
    /\ phase[w] \in {"acknowledged", "failed"}
    /\ ~Claimed(w)
    /\ Release(w)
    /\ UNCHANGED <<recordVars, mailbox, boundVars>>

Crash(w) ==
    /\ held[w] # NoPeriod
    /\ crashes < MaxCrashes
    /\ crashes' = crashes + 1
    /\ Release(w)
    /\ UNCHANGED <<recordVars, mailbox, faults, stalls>>

(* Claims that the next tick makes stale although their worker is at work. *)
Stalling == {p \in Period : age[p] = StaleAfter - 1 /\ \E w \in Worker :
                                held[w] = p /\ Claimed(w)}

Tick ==
    /\ stalls < MaxStalls \/ Stalling = {}
    /\ stalls' = IF Stalling = {} THEN stalls ELSE stalls + 1
    /\ age' = [p \in Period |->
          IF state[p] = "sending" THEN Smaller(age[p] + 1, StaleAfter) ELSE age[p]]
    /\ wait' = [p \in Period |-> Less(wait[p], 1)]
    /\ UNCHANGED <<state, report, owner, attemptCount, held, phase, mailbox,
                   crashes, faults>>

-----------------------------------------------------------------------------
Init ==
    /\ state = [p \in Period |-> "none"]
    /\ report = [p \in Period |-> NoReport]
    /\ owner = [p \in Period |-> NoWorker]
    /\ age = [p \in Period |-> 0]
    /\ wait = [p \in Period |-> 0]
    /\ attemptCount = [p \in Period |-> 0]
    /\ held = [w \in Worker |-> NoPeriod]
    /\ phase = [w \in Worker |-> "idle"]
    /\ mailbox = {}
    /\ crashes = 0 /\ faults = 0 /\ stalls = 0

ClaimSome(p) == \E w \in Worker, lag \in 0..MaxLag : Claim(w, p, lag)

Continue(w) ==
    \/ Send(w)
    \/ Acknowledge(w)
    \/ \E lag \in 0..MaxLag : Fail(w, lag)
    \/ LoseClaim(w)

Next ==
    \/ \E p \in Period, r \in Report : Enqueue(p, r)
    \/ \E p \in Period : ClaimSome(p)
    \/ \E w \in Worker : Continue(w) \/ Crash(w)
    \/ \E w \in Worker, accepted \in BOOLEAN : SendFails(w, accepted)
    \/ Tick

(* Time passes, the delivery loop runs periodically and the transport has  *)
(* a timeout; claims go by next_attempt_at.                                *)
Fairness ==
    /\ WF_vars(Tick)
    /\ \A w \in Worker : WF_vars(Continue(w))
    /\ \A p \in Period : SF_vars(ClaimSome(p))

Spec == Init /\ [][Next]_vars /\ Fairness

-----------------------------------------------------------------------------
(* Types; a row has a claim exactly while it is being sent and a report    *)
(* from its enqueueing on.                                                 *)
TypeOK ==
    /\ state \in [Period -> {"none", "pending", "sending", "retryable_failure", "sent"}]
    /\ report \in [Period -> Report \cup {NoReport}]
    /\ owner \in [Period -> Worker \cup {NoWorker}]
    /\ age \in [Period -> 0..StaleAfter]
    /\ wait \in [Period -> Nat]
    /\ attemptCount \in [Period -> 0..MaxAttempt]
    /\ held \in [Worker -> Period \cup {NoPeriod}]
    /\ phase \in [Worker -> {"idle", "claimed", "acknowledged", "failed"}]
    /\ mailbox \subseteq [period : Period, report : Report]
    /\ \A p \in Period : /\ state[p] = "sending" <=> owner[p] # NoWorker
                         /\ state[p] = "none" <=> report[p] = NoReport

(* A row that says sent stands for a message the provider accepted, also   *)
(* when the claim it was sent under was taken over in between.             *)
SentWasAccepted ==
    \A p \in Period : state[p] = "sent" =>
        [period |-> p, report |-> report[p]] \in mailbox

(* For every period the provider holds the messages of one report only:    *)
(* the retries, take-overs and second sends of a period all carry the same *)
(* idempotency key, on which the provider drops duplicates.                *)
OneMailPerPeriod ==
    \A m, n \in mailbox : m.period = n.period => m = n

(* sent is final: a worker that was taken over cannot fail, reschedule or  *)
(* re-acknowledge the delivery afterwards.                                 *)
SentIsFinal ==
    [][\A p \in Period : state[p] = "sent" => state'[p] = "sent"]_vars

(* A delivery as a piece of leased work.                                   *)
WorkStatus == [p \in Period |->
    CASE state[p] = "none" -> "absent"
      [] state[p] \in {"pending", "retryable_failure"} -> "waiting"
      [] state[p] = "sending" -> "held"
      [] OTHER -> "done"]

Work == INSTANCE LeasedWork WITH
    Item <- Period, Holder <- Worker, Free <- NoWorker, Nothing <- NoPeriod,
    TakeOver <- TRUE, status <- WorkStatus, holder <- owner, belief <- held

(* The outbox implements leased work with take-over: a delivery is offered *)
(* once, a stale claim passes to the worker that takes it over, and only   *)
(* the present claimant acknowledges or fails it.                          *)
DeliveryIsLeasedWork == Work!WorkSpec

(* Every enqueued report is eventually recorded as sent, although workers  *)
(* crash while sending, answers are lost and claims are taken over.        *)
EveryReportIsSent ==
    \A p \in Period : state[p] # "none" ~> state[p] = "sent"

=============================================================================
