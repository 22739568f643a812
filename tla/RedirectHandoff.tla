-------------------------- MODULE RedirectHandoff --------------------------
(***************************************************************************)
(* Cross-source redirects over the queue's leases: a worker whose fetch    *)
(* was redirected to another portal's listing finishes its task by handing *)
(* the target over.                                                        *)
(*                                                                         *)
(* Code: src/homefinder/scrape_queue/redirects.py.  The repository works   *)
(* with the clock value it was called with and reads neither the clock     *)
(* again nor the activation pointer.                                       *)
(***************************************************************************)
EXTENDS ScrapeQueue

CONSTANT Target     \* (target_source, target_listing_id) pairs

VARIABLE handoffs   \* RedirectHandoffRecord rows

redirectVars == <<vars, handoffs>>

HandoffByAttempt(l, at) ==
    /\ attempts[l.task][l.attempt].token = l.token
    /\ attempts[l.task][l.attempt].owner = l.owner

(* The lease handoff accepts, for the time it was called with.             *)
HandoffLeased(l, at) ==
    /\ Running(l.task)
    /\ lease[l.task].owner = l.owner
    /\ lease[l.task].token = l.token
    /\ lease[l.task].expires > at

(* handoff of a target the task has not handed over before (for a known    *)
(* one the stored row is returned): row, success and attempt together.     *)
Handoff(l, target, at) ==
    /\ [task |-> l.task, target |-> target] \notin handoffs
    /\ HandoffLeased(l, at)
    /\ handoffs' = handoffs \cup {[task |-> l.task, target |-> target]}
    /\ Close(l.task, "succeeded")
    /\ UNCHANGED <<availableAt, accepted, acked>>

RedirectInit == Init /\ handoffs = {}

HandoffStep ==
    \E l \in granted, target \in Target, at \in Captured : Handoff(l, target, at)

RedirectNext ==
    \/ Next /\ UNCHANGED handoffs
    \/ HandoffStep

RedirectSpec == RedirectInit /\ [][RedirectNext]_redirectVars

-----------------------------------------------------------------------------
(* A task hands over at most one target, even when several workers that    *)
(* held it at different times report different redirects, and a task that  *)
(* handed over never also stores page content of the source portal.        *)
OneHandoff ==
    \A h \in handoffs :
        /\ taskState[h.task] = "succeeded"
        /\ accepted[h.task] = NoResult
        /\ \A g \in handoffs : g.task = h.task => g = h

(* With the handoff as one more way to finish a task, the promises of the  *)
(* queue still hold: the attempts add up, nothing is acknowledged that is  *)
(* not stored, finished tasks stay finished, and a task hands over once.   *)
HandoffSound ==
    [](TypeOK /\ AttemptLedger /\ AckedIsAccepted /\ OneHandoff) /\ TerminalIsFinal

=============================================================================
