----------------------------- MODULE MCWorkflow -----------------------------
(***************************************************************************)
(* The workflow: the persistent jobs with a chain of two, as in            *)
(* MCWorkflowJobs, and the stages that run as jobs.  The stages see of a   *)
(* job only whether it is open, so a behaviour exercises one of the two    *)
(* and the other stays as it was initialised.                              *)
(*                                                                         *)
(* focus "jobs": the chain of jobs.                                        *)
(* focus "stages": two workers overtake each other, one period and one     *)
(*   version of the profile.                                               *)
(* focus "reports": two periods, two versions and one worker; every page   *)
(*   comes.                                                                *)
(***************************************************************************)
EXTENDS MCWorkflowJobs, WorkflowStages

VARIABLE focus

workflowVars == <<focus, vars, stageVars>>

WorkflowInit == focus \in {"jobs", "stages", "reports"} /\ Init /\ StageInit

(* The bounds of the two focuses on the stages.                            *)
OneProfile == stageClock <= 1 /\ ActiveVersion <= 1
OneWorker == stage[w2] = NoStage /\ stops = 0 /\ \A s \in Item : scrape[s] # "failed"

Working == IF focus = "reports" THEN {w1} ELSE Stager

WorkflowNext ==
    /\ UNCHANGED focus
    /\ \/ focus = "jobs" /\ Next /\ UNCHANGED stageVars
       \/ focus = "stages" /\ StageNext /\ OneProfile' /\ UNCHANGED vars
       \/ focus = "reports" /\ StageNext /\ OneWorker' /\ UNCHANGED vars

(* For the jobs, as in Spec.  Of the stages: the reconcile, schedule and   *)
(* await loops run periodically and the workers together keep running      *)
(* stages; neither a profile nor a page or a mail has to come.             *)
WorkflowFairness ==
    /\ WF_vars(focus = "jobs" /\ Tick)
    /\ WF_vars(focus = "jobs" /\ ReapExpired)
    /\ \A w \in Worker : WF_vars(focus = "jobs" /\ Continue(w))
    /\ \A j \in Job : SF_vars(focus = "jobs" /\ ClaimSome(j))
    /\ WF_stageVars(focus # "jobs" /\ Reconcile)
    /\ WF_stageVars(focus # "jobs" /\ Schedule)
    /\ WF_stageVars(focus # "jobs" /\ AwaitAny)
    /\ WF_stageVars(focus # "jobs" /\ \E w \in Working : StageStep(w))

WorkflowSpec == WorkflowInit /\ [][WorkflowNext]_workflowVars /\ WorkflowFairness

-----------------------------------------------------------------------------
(* One item, scraped through the queue.                                    *)
MCCandidateOf == [a |-> "c"]

=============================================================================
