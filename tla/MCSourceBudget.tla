--------------------------- MODULE MCSourceBudget ---------------------------
(***************************************************************************)
(* Instances of SourceBudget: one release, active since time 0, and        *)
(* workers that stay healthy.  The calendars put a day or a cycle boundary *)
(* inside the horizon.                                                     *)
(***************************************************************************)
EXTENDS SourceBudget, TLC

CONSTANTS nas, vps, r1, t1, t2, c1

MCWorker == {nas, vps}
MCOneWorker == {vps}
MCRelease == {r1}
MCCapabilities == {{r1}}
MCOneTask == {t1}
MCTwoTasks == {t1, t2}
MCLive == [t \in Task |-> "live"]
MCContent == {c1}
MCOneRoute == {1}
MCTwoRoutes == {1, 2}
MCSameDay == [a \in Instant |-> 0]
MCShortDays == [a \in Instant |-> a \div 2]
MCLongDays == [a \in Instant |-> a \div 3]
MCCooldown == <<1, 2, 3>>
MCNoRetryAfter == {0}
MCRetryAfter == {0, 2}
MCSymmetry == Permutations(Task)

ReadyBudgetInit ==
    /\ QueueInit
    /\ BudgetInit
    /\ now = 0
    /\ registered = Worker
    /\ heartbeatAt = [w \in Worker |-> 0]
    /\ healthy = [w \in Worker |-> TRUE]
    /\ advertised = [w \in Worker |-> Release]
    /\ status = [r \in Release |-> "active"]
    /\ activeRelease = r1
    /\ activeEpoch = 1
    /\ audit = <<[release |-> r1, previous |-> NoRelease, action |-> "activate"]>>
    /\ rollbackPlans = {}

QuietBudgetNext ==
    \/ /\ Tick /\ UNCHANGED queueVars
       /\ UNCHANGED budgetOnlyVars
    \/ (\E t \in Task : Enqueue(t, now)) /\ UNCHANGED budgetOnlyVars
    \/ ClaimStep /\ UNCHANGED budgetOnlyVars
    \/ (\E l \in granted : Heartbeat(l)) /\ UNCHANGED budgetOnlyVars
    \/ NetworkStep

QuietBudgetSpec == ReadyBudgetInit /\ [][QuietBudgetNext]_budgetVars

=============================================================================
