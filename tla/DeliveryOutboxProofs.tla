------------------------ MODULE DeliveryOutboxProofs ------------------------
(***************************************************************************)
(* Safety of the delivery outbox for any number of periods, reports and    *)
(* workers, any backoff and any number of faults.                          *)
(***************************************************************************)
EXTENDS DeliveryOutbox, TLAPS

(* What the provider holds for a period is the report the row is bound to. *)
MailIsBound == \A m \in mailbox : m.report = report[m.period]

(* A worker past its claim works on an enqueued period, and one with an    *)
(* acknowledgement in hand has a message with the provider.                *)
WorkerInv(w) ==
    /\ phase[w] # "idle" => held[w] \in Period
    /\ held[w] \in Period => state[held[w]] # "none"
    /\ phase[w] = "acknowledged" =>
          [period |-> held[w], report |-> report[held[w]]] \in mailbox

(* A row that is being sent has an attempt number.                         *)
Counted == \A p \in Period : state[p] = "sending" => attemptCount[p] > 0

DeliveryInv ==
    /\ TypeOK
    /\ Counted
    /\ MailIsBound
    /\ SentWasAccepted
    /\ \A w \in Worker : WorkerInv(w)

LEMMA LessIsNat ==
    ASSUME NEW m \in Nat, NEW n \in Nat
    PROVE  Less(m, n) \in Nat
  BY DEF Less

LEMMA DeliveryInit == Init => DeliveryInv
  BY DeliveryAssumption
  DEF Init, DeliveryInv, TypeOK, Counted, MailIsBound, SentWasAccepted, WorkerInv,
      MaxAttempt

(* enqueue binds a period once; no worker and no message names it before.  *)
LEMMA EnqueueInv ==
    ASSUME DeliveryInv, NEW p \in Period, NEW r \in Report, Enqueue(p, r)
    PROVE  DeliveryInv'
  <1>1. TypeOK /\ state[p] = "none"
    BY DEF DeliveryInv, Enqueue
  <1>2. TypeOK'
    BY <1>1, DeliveryAssumption DEF TypeOK, Enqueue
  <1>3. \A q \in Period \ {p} : report'[q] = report[q] /\ state'[q] = state[q]
    BY <1>1 DEF TypeOK, Enqueue
  <1>4. state'[p] = "pending"
    BY <1>1 DEF TypeOK, Enqueue
  <1>5. Counted'
    BY <1>3, <1>4 DEF DeliveryInv, Counted, Enqueue
  <1>6. \A m \in mailbox : m.period # p
    <2> SUFFICES ASSUME NEW m \in mailbox PROVE m.period # p
      OBVIOUS
    <2>1. m.report \in Report /\ m.report = report[m.period]
      BY DEF DeliveryInv, TypeOK, MailIsBound
    <2>2. report[p] = NoReport
      BY <1>1 DEF TypeOK
    <2>3. QED
      BY <2>1, <2>2, DeliveryAssumption
  <1>7. mailbox' = mailbox /\ held' = held /\ phase' = phase
    BY DEF Enqueue
  <1>8. \A m \in mailbox : m.period \in Period
    BY <1>1 DEF TypeOK
  <1>9. MailIsBound'
    BY <1>3, <1>6, <1>7, <1>8 DEF DeliveryInv, MailIsBound
  <1>10. SentWasAccepted'
    BY <1>3, <1>4, <1>7 DEF DeliveryInv, SentWasAccepted
  <1>11. \A w \in Worker : WorkerInv(w)'
    BY <1>1, <1>3, <1>7 DEF DeliveryInv, WorkerInv
  <1>12. QED
    BY <1>2, <1>5, <1>9, <1>10, <1>11 DEF DeliveryInv

LEMMA ClaimInv ==
    ASSUME DeliveryInv, NEW w \in Worker, NEW p \in Period, NEW lag \in 0..MaxLag,
           Claim(w, p, lag)
    PROVE  DeliveryInv'
  <1>1. TypeOK /\ state[p] \in {"pending", "retryable_failure", "sending"}
    BY DEF DeliveryInv, Claim, Claimable
  <1>2. /\ MaxAttempt \in Nat /\ MaxAttempt > 0
        /\ StaleAfter \in Nat /\ MaxLag \in Nat /\ MaxLag < StaleAfter
    BY DeliveryAssumption DEF MaxAttempt
  <1>3. lag \in 0..StaleAfter
    BY <1>2
  <1>4. attemptCount[p] \in 0..MaxAttempt
    BY <1>1 DEF TypeOK
  <1>5. Smaller(attemptCount[p] + 1, MaxAttempt) \in 1..MaxAttempt
    BY <1>2, <1>4 DEF Smaller
  <1>6. /\ state' = [state EXCEPT ![p] = "sending"]
        /\ owner' = [owner EXCEPT ![p] = w]
        /\ age' = [age EXCEPT ![p] = lag]
        /\ held' = [held EXCEPT ![w] = p]
        /\ phase' = [phase EXCEPT ![w] = "claimed"]
        /\ UNCHANGED <<report, wait, mailbox>>
    BY DEF Claim
  <1>7. attemptCount' =
          [attemptCount EXCEPT ![p] = Smaller(attemptCount[p] + 1, MaxAttempt)]
    BY DEF Claim
  <1>8. attemptCount' \in [Period -> 0..MaxAttempt] /\ attemptCount'[p] > 0
          /\ \A q \in Period \ {p} : attemptCount'[q] = attemptCount[q]
    BY <1>1, <1>5, <1>7 DEF TypeOK
  <1>9. TypeOK'
    BY <1>1, <1>3, <1>6, <1>8, DeliveryAssumption DEF TypeOK
  <1>10. Counted'
    BY <1>1, <1>6, <1>8 DEF DeliveryInv, Counted, TypeOK
  <1>11. MailIsBound' /\ SentWasAccepted'
    BY <1>1, <1>6 DEF DeliveryInv, MailIsBound, SentWasAccepted, TypeOK
  <1>12. \A v \in Worker : WorkerInv(v)'
    BY <1>1, <1>6 DEF DeliveryInv, WorkerInv, TypeOK
  <1>13. QED
    BY <1>9, <1>10, <1>11, <1>12 DEF DeliveryInv

(* A send adds, at most, the message of the row the worker holds.          *)
LEMMA SendInv ==
    ASSUME DeliveryInv, NEW w \in Worker, phase[w] = "claimed",
           NEW next \in {"acknowledged", "failed"},
           phase' = [phase EXCEPT ![w] = next],
           UNCHANGED <<recordVars, held>>,
           \/ mailbox' = mailbox
                 \cup {[period |-> held[w], report |-> report[held[w]]]}
           \/ mailbox' = mailbox /\ next = "failed"
    PROVE  DeliveryInv'
  <1>1. TypeOK /\ held[w] \in Period /\ state[held[w]] # "none"
    BY DEF DeliveryInv, WorkerInv
  <1>2. report[held[w]] \in Report
    BY <1>1 DEF TypeOK
  <1>3. UNCHANGED <<state, report, owner, age, wait, attemptCount, held>>
    BY DEF recordVars
  <1> DEFINE mail == [period |-> held[w], report |-> report[held[w]]]
  <1>4. mail \in [period : Period, report : Report]
    BY <1>1, <1>2
  <1>5. mail.report = report[mail.period]
    OBVIOUS
  <1>6. mailbox' \in {mailbox, mailbox \cup {mail}}
          /\ (next = "acknowledged" => mail \in mailbox')
    OBVIOUS
  <1> HIDE DEF mail
  <1>7. TypeOK'
    BY <1>1, <1>3, <1>4, <1>6 DEF TypeOK
  <1>8. MailIsBound' /\ SentWasAccepted' /\ Counted'
    BY <1>3, <1>5, <1>6 DEF DeliveryInv, MailIsBound, SentWasAccepted, Counted
  <1>9. ASSUME NEW v \in Worker PROVE WorkerInv(v)'
    <2>1. CASE v = w
      BY <1>1, <1>3, <1>6, <2>1 DEF WorkerInv, TypeOK, mail
    <2>2. CASE v # w
      BY <1>1, <1>3, <1>6, <2>2 DEF DeliveryInv, WorkerInv, TypeOK
    <2>3. QED
      BY <2>1, <2>2
  <1>10. QED
    BY <1>7, <1>8, <1>9 DEF DeliveryInv

(* The end of a claim: the row settles as sent or waits for another try.   *)
LEMMA FinishInv ==
    ASSUME DeliveryInv, NEW w \in Worker, Claimed(w), Release(w),
           NEW s \in {"sent", "retryable_failure"},
           s = "sent" => phase[w] = "acknowledged",
           phase[w] # "idle",
           state' = [state EXCEPT ![held[w]] = s],
           owner' = [owner EXCEPT ![held[w]] = NoWorker],
           wait' \in [Period -> Nat],
           UNCHANGED <<report, age, attemptCount, mailbox>>
    PROVE  DeliveryInv'
  <1>1. TypeOK /\ held[w] \in Period /\ state[held[w]] = "sending"
    BY DEF DeliveryInv, WorkerInv, Claimed
  <1>2. held' = [held EXCEPT ![w] = NoPeriod] /\ phase' = [phase EXCEPT ![w] = "idle"]
    BY DEF Release
  <1>3. TypeOK'
    BY <1>1, <1>2, DeliveryAssumption DEF TypeOK
  <1>4. Counted' /\ MailIsBound'
    BY <1>1 DEF DeliveryInv, Counted, MailIsBound, TypeOK
  <1>5. SentWasAccepted'
    <2>1. s = "sent" => [period |-> held[w], report |-> report[held[w]]] \in mailbox
      BY DEF DeliveryInv, WorkerInv
    <2>2. QED
      BY <1>1, <2>1 DEF DeliveryInv, SentWasAccepted, TypeOK
  <1>6. ASSUME NEW v \in Worker PROVE WorkerInv(v)'
    <2>1. CASE v = w
      BY <1>1, <1>2, <2>1, DeliveryAssumption DEF WorkerInv, TypeOK
    <2>2. CASE v # w
      BY <1>1, <1>2, <2>2 DEF DeliveryInv, WorkerInv, TypeOK
    <2>3. QED
      BY <2>1, <2>2
  <1>7. QED
    BY <1>3, <1>4, <1>5, <1>6 DEF DeliveryInv

(* A worker that lets go of its claim leaves the rows alone.               *)
LEMMA LetGoInv ==
    ASSUME DeliveryInv, NEW w \in Worker, Release(w), UNCHANGED <<recordVars, mailbox>>
    PROVE  DeliveryInv'
  <1>1. TypeOK
    BY DEF DeliveryInv
  <1>2. held' = [held EXCEPT ![w] = NoPeriod] /\ phase' = [phase EXCEPT ![w] = "idle"]
          /\ UNCHANGED <<state, report, owner, age, wait, attemptCount, mailbox>>
    BY DEF Release, recordVars
  <1>3. TypeOK' /\ Counted' /\ MailIsBound' /\ SentWasAccepted'
    BY <1>1, <1>2 DEF DeliveryInv, TypeOK, Counted, MailIsBound, SentWasAccepted
  <1>4. ASSUME NEW v \in Worker PROVE WorkerInv(v)'
    <2>1. CASE v = w
      BY <1>1, <1>2, <2>1, DeliveryAssumption DEF WorkerInv, TypeOK
    <2>2. CASE v # w
      BY <1>1, <1>2, <2>2 DEF DeliveryInv, WorkerInv, TypeOK
    <2>3. QED
      BY <2>1, <2>2
  <1>5. QED
    BY <1>3, <1>4 DEF DeliveryInv

LEMMA TickInv ==
    ASSUME DeliveryInv, Tick
    PROVE  DeliveryInv'
  <1>1. TypeOK /\ UNCHANGED <<state, report, owner, attemptCount, held, phase, mailbox>>
    BY DEF DeliveryInv, Tick
  <1>2. age' \in [Period -> 0..StaleAfter]
    <2>1. \A p \in Period : age[p] \in 0..StaleAfter
      BY <1>1 DEF TypeOK
    <2>2. ASSUME NEW a \in 0..StaleAfter PROVE Smaller(a + 1, StaleAfter) \in 0..StaleAfter
      <3>1. a \in Nat /\ StaleAfter \in Nat
        BY DeliveryAssumption
      <3>2. QED
        BY <3>1 DEF Smaller
    <2>3. QED
      BY <2>1, <2>2 DEF Tick
  <1>3. wait' \in [Period -> Nat]
    BY <1>1, LessIsNat DEF Tick, TypeOK
  <1>4. QED
    BY <1>1, <1>2, <1>3
    DEF DeliveryInv, TypeOK, Counted, MailIsBound, SentWasAccepted, WorkerInv

(* fail: the row waits for the backoff of its attempt.                     *)
LEMMA FailInv ==
    ASSUME DeliveryInv, NEW w \in Worker, NEW lag \in 0..MaxLag, Fail(w, lag)
    PROVE  DeliveryInv'
  <1>1. /\ TypeOK /\ Counted /\ held[w] \in Period /\ state[held[w]] = "sending"
        /\ phase[w] = "failed"
    BY DEF DeliveryInv, WorkerInv, Fail, Claimed
  <1>2. attemptCount[held[w]] \in 1..MaxAttempt
    BY <1>1 DEF TypeOK, Counted
  <1>3. Backoff[attemptCount[held[w]]] \in Nat
    BY <1>2, DeliveryAssumption DEF MaxAttempt
  <1>4. lag \in Nat
    BY DeliveryAssumption
  <1>5. Less(Backoff[attemptCount[held[w]]], lag) \in Nat
    BY <1>3, <1>4, LessIsNat
  <1>6. wait' \in [Period -> Nat]
    BY <1>1, <1>5 DEF Fail, TypeOK
  <1>7. /\ Claimed(w) /\ Release(w)
        /\ state' = [state EXCEPT ![held[w]] = "retryable_failure"]
        /\ owner' = [owner EXCEPT ![held[w]] = NoWorker]
        /\ UNCHANGED <<report, age, attemptCount, mailbox>>
    BY DEF Fail
  <1>8. QED
    BY <1>1, <1>6, <1>7, FinishInv

LEMMA AcknowledgeInv ==
    ASSUME DeliveryInv, NEW w \in Worker, Acknowledge(w)
    PROVE  DeliveryInv'
  <1>1. /\ Claimed(w) /\ Release(w) /\ phase[w] = "acknowledged"
        /\ state' = [state EXCEPT ![held[w]] = "sent"]
        /\ owner' = [owner EXCEPT ![held[w]] = NoWorker]
        /\ UNCHANGED <<report, age, attemptCount, mailbox>>
        /\ wait' \in [Period -> Nat]
    BY DEF Acknowledge, DeliveryInv, TypeOK
  <1>2. QED
    BY <1>1, FinishInv

LEMMA DeliveryNextInv == DeliveryInv /\ [Next]_vars => DeliveryInv'
  <1> SUFFICES ASSUME DeliveryInv, [Next]_vars PROVE DeliveryInv'
    OBVIOUS
  <1>1. ASSUME NEW p \in Period, ClaimSome(p) PROVE DeliveryInv'
    BY <1>1, ClaimInv DEF ClaimSome
  <1>2. ASSUME NEW w \in Worker, Send(w) PROVE DeliveryInv'
    BY <1>2, SendInv DEF Send
  <1>3. ASSUME NEW w \in Worker, NEW a \in BOOLEAN, SendFails(w, a)
        PROVE  DeliveryInv'
    BY <1>3, SendInv DEF SendFails
  <1>4. ASSUME NEW w \in Worker, LoseClaim(w) \/ Crash(w) PROVE DeliveryInv'
    BY <1>4, LetGoInv DEF LoseClaim, Crash
  <1>5. CASE UNCHANGED vars
    BY <1>5
    DEF vars, recordVars, DeliveryInv, TypeOK, Counted, MailIsBound,
        SentWasAccepted, WorkerInv
  <1>6. QED
    BY <1>1, <1>2, <1>3, <1>4, <1>5, EnqueueInv, TickInv, FailInv, AcknowledgeInv
    DEF Next, Continue

(* The outbox's inductive invariant.                                       *)
THEOREM DeliveryInvariant == Spec => []DeliveryInv
  BY DeliveryInit, DeliveryNextInv, PTL DEF Spec

(* A row says sent only for a message the provider accepted, whatever      *)
(* claims were taken over in between.                                      *)
THEOREM SentWasAcceptedAlways == Spec => []SentWasAccepted
  <1>1. DeliveryInv => SentWasAccepted
    BY DEF DeliveryInv
  <1>2. QED
    BY <1>1, DeliveryInvariant, PTL

(* No period is ever delivered with two different reports.                 *)
THEOREM OneMailPerPeriodAlways == Spec => []OneMailPerPeriod
  <1>1. ASSUME DeliveryInv PROVE OneMailPerPeriod
    <2>1. mailbox \subseteq [period : Period, report : Report]
      BY <1>1 DEF DeliveryInv, TypeOK
    <2>2. \A m \in mailbox : m.report = report[m.period]
      BY <1>1 DEF DeliveryInv, MailIsBound
    <2>3. QED
      BY <2>1, <2>2 DEF OneMailPerPeriod
  <1>2. DeliveryInv => OneMailPerPeriod
    BY <1>1
  <1>3. QED
    BY <1>2, DeliveryInvariant, PTL

(* A delivery that was acknowledged is never failed, rescheduled or sent   *)
(* again.                                                                  *)
THEOREM SentIsFinalAlways == Spec => SentIsFinal
  <1> DEFINE Kept == \A p \in Period : state[p] = "sent" => state'[p] = "sent"
  <1>1. ASSUME DeliveryInv, [Next]_vars PROVE Kept
    <2> SUFFICES ASSUME NEW p \in Period, state[p] = "sent" PROVE state'[p] = "sent"
      OBVIOUS
    <2>0. state \in [Period -> {"none", "pending", "sending", "retryable_failure", "sent"}]
      BY <1>1 DEF DeliveryInv, TypeOK
    <2>1. ASSUME NEW q \in Period, NEW r \in Report, Enqueue(q, r)
          PROVE  state'[p] = "sent"
      BY <2>0, <2>1 DEF Enqueue
    <2>2. ASSUME NEW q \in Period, ClaimSome(q) PROVE state'[p] = "sent"
      BY <2>0, <2>2 DEF ClaimSome, Claim, Claimable
    <2>3. ASSUME NEW w \in Worker, Continue(w) PROVE state'[p] = "sent"
      BY <2>0, <2>3
      DEF Continue, Send, Acknowledge, Fail, LoseClaim, Claimed, recordVars
    <2>4. ASSUME NEW w \in Worker, Crash(w) \/ SendFails(w, TRUE) \/ SendFails(w, FALSE)
          PROVE  state'[p] = "sent"
      BY <2>4 DEF Crash, SendFails, recordVars
    <2>5. CASE Tick \/ UNCHANGED vars
      BY <2>5 DEF Tick, vars, recordVars
    <2>6. QED
      BY <1>1, <2>1, <2>2, <2>3, <2>4, <2>5 DEF Next
  <1>2. DeliveryInv /\ [Next]_vars => [Kept]_vars
    BY <1>1
  <1>3. QED
    BY <1>2, DeliveryInvariant, PTL DEF Spec, SentIsFinal

-----------------------------------------------------------------------------
(* The abstract status of one delivery.                                    *)
LEMMA StatusOf ==
    ASSUME NEW p \in Period
    PROVE  WorkStatus[p] = CASE state[p] = "none" -> "absent"
                             [] state[p] \in {"pending", "retryable_failure"} -> "waiting"
                             [] state[p] = "sending" -> "held"
                             [] OTHER -> "done"
  BY DEF WorkStatus

(* A step that moves one delivery moves its abstract status only.          *)
LEMMA StatusMoves ==
    ASSUME TypeOK, NEW p \in Period, NEW s,
           state' = [state EXCEPT ![p] = s],
           NEW a, a = CASE s = "none" -> "absent"
                        [] s \in {"pending", "retryable_failure"} -> "waiting"
                        [] s = "sending" -> "held"
                        [] OTHER -> "done"
    PROVE  WorkStatus' = [WorkStatus EXCEPT ![p] = a]
  <1>1. state'[p] = s /\ \A q \in Period \ {p} : state'[q] = state[q]
    BY DEF TypeOK
  <1>2. QED
    BY <1>1 DEF WorkStatus

(* The outbox implements leased work with take-over, for any periods,      *)
(* reports and workers and any number of crashes and faults: the abstract  *)
(* specification knows only who holds what.                                *)
THEOREM DeliveryImplementsLeasedWork == Spec => DeliveryIsLeasedWork
  <1>1. Init => Work!WorkInit
    BY DEF Init, Work!WorkInit, WorkStatus
  <1>2. ASSUME DeliveryInv, [Next]_vars PROVE [Work!WorkNext]_(Work!workVars)
    <2>0. TypeOK
      BY <1>2 DEF DeliveryInv
    <2>1. ASSUME NEW p \in Period, NEW r \in Report, Enqueue(p, r) PROVE Work!WorkNext
      <3>1. WorkStatus' = [WorkStatus EXCEPT ![p] = "waiting"]
        BY <2>0, <2>1, StatusMoves DEF Enqueue
      <3>2. WorkStatus[p] = "absent"
        BY <2>1, StatusOf DEF Enqueue
      <3>3. QED
        BY <2>1, <3>1, <3>2 DEF Work!WorkNext, Work!Offer, Enqueue
    <2>2. ASSUME NEW w \in Worker, NEW p \in Period, NEW lag \in 0..MaxLag, Claim(w, p, lag)
          PROVE  Work!WorkNext
      <3>1. WorkStatus' = [WorkStatus EXCEPT ![p] = "held"]
        BY <2>0, <2>2, StatusMoves DEF Claim
      <3>2. WorkStatus[p] \in {"waiting", "held"}
        BY <2>2, StatusOf DEF Claim, Claimable
      <3>3. Work!Take(w, p)
        BY <2>2, <3>1, <3>2 DEF Work!Take, Claim
      <3>4. QED
        BY <3>3 DEF Work!WorkNext
    <2>3. ASSUME NEW w \in Worker, NEW s \in {"sent", "retryable_failure"}, Claimed(w),
                 held[w] \in Period, state' = [state EXCEPT ![held[w]] = s],
                 owner' = [owner EXCEPT ![held[w]] = NoWorker], Release(w)
          PROVE  Work!WorkNext
      <3> DEFINE a == IF s = "sent" THEN "done" ELSE "waiting"
      <3>1. WorkStatus' = [WorkStatus EXCEPT ![held[w]] = a]
        BY <2>0, <2>3, StatusMoves
      <3>2. WorkStatus[held[w]] = "held"
        BY <2>3, StatusOf DEF Claimed
      <3>3. Work!LetGo(w, held[w], a)
        BY <2>3, <3>1, <3>2 DEF Work!LetGo, Claimed, Release
      <3>4. a \in {"waiting", "done"}
        OBVIOUS
      <3>5. QED
        BY <2>3, <3>3, <3>4 DEF Work!WorkNext
    <2>4. ASSUME NEW w \in Worker, Continue(w) PROVE [Work!WorkNext]_(Work!workVars)
      <3>0. phase[w] # "idle" => held[w] \in Period
        BY <1>2 DEF DeliveryInv, WorkerInv
      <3>1. CASE Send(w)
        BY <3>1 DEF Send, recordVars, WorkStatus, Work!workVars
      <3>2. CASE Acknowledge(w)
        BY <2>3, <3>0, <3>2 DEF Acknowledge
      <3>3. ASSUME NEW lag \in 0..MaxLag, Fail(w, lag) PROVE Work!WorkNext
        BY <2>3, <3>0, <3>3 DEF Fail
      <3>4. CASE LoseClaim(w)
        <4>1. held[w] # NoPeriod
          BY <3>0, <3>4, DeliveryAssumption DEF LoseClaim
        <4>2. Work!Forget(w)
          BY <3>4, <4>1 DEF LoseClaim, Release, recordVars, Work!Forget, WorkStatus
        <4>3. QED
          BY <4>2 DEF Work!WorkNext
      <3>5. QED
        BY <2>4, <3>1, <3>2, <3>3, <3>4 DEF Continue
    <2>5. ASSUME NEW w \in Worker, Crash(w) PROVE Work!WorkNext
      <3>1. Work!Forget(w)
        BY <2>5 DEF Crash, Release, recordVars, Work!Forget, WorkStatus
      <3>2. QED
        BY <3>1 DEF Work!WorkNext
    <2>6. ASSUME NEW w \in Worker, NEW accepted \in BOOLEAN, SendFails(w, accepted)
          PROVE  UNCHANGED Work!workVars
      BY <2>6 DEF SendFails, recordVars, WorkStatus, Work!workVars
    <2>7. CASE Tick \/ UNCHANGED vars
      BY <2>7 DEF Tick, vars, recordVars, Work!workVars, WorkStatus
    <2>8. QED
      BY <1>2, <2>1, <2>2, <2>4, <2>5, <2>6, <2>7 DEF Next, ClaimSome
  <1>3. QED
    BY <1>1, <1>2, DeliveryInvariant, PTL DEF Spec, DeliveryIsLeasedWork, Work!WorkSpec

=============================================================================
