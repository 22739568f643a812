-------------------------- MODULE MCWorkflowJobs --------------------------
(* Two stages of a chain and two workers.                                  *)
EXTENDS WorkflowJobs, TLC

CONSTANTS normalize, enrich, w1, w2

MCJob == {normalize, enrich}
MCChild == normalize :> enrich @@ enrich :> NoJob
MCRoot == {normalize}
MCWorker == {w1, w2}
MCRetryDelay == [n \in 1..MaxAttempts |-> 1]

=============================================================================
