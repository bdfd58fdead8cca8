---------------------------- MODULE AdmissionMC ----------------------------
(***************************************************************************)
(* Admission with two processes that steer one session, and requests that  *)
(* differ from a good one of their pattern in one field.                   *)
(***************************************************************************)
EXTENDS Admission

Advisor == [Nothing EXCEPT !.pattern = "advisor"]
Workflow ==
  [Nothing EXCEPT !.pattern = "workflow", !.partitionable = "true",
     !.scope = "text", !.verification = "text", !.maxAgents = "16"]
WritingWorkflow ==
  [Workflow EXCEPT !.writes = "true", !.isolation = "worktree"]
Managed ==
  [Workflow EXCEPT !.pattern = "managed-agents", !.writes = "true",
     !.coordinatorAgentId = "text", !.environmentId = "text",
     !.isolation = "managed-session"]

\* One field off; the writing requests only in the fields about writes.
OneOff ==
  {[Nothing EXCEPT !.pattern = "other"], Nothing}
  \union {[r EXCEPT ![f] = v] : r \in {Advisor, Workflow, Managed},
            f \in {"executorModel", "maxAdvisorCalls", "effort", "scope",
                   "maxAgents", "plannerModel", "environmentId",
                   "coordinatorAgentVersion", "writes", "budgetTokens"},
            v \in {"unset", "null", "2", "17"}}
  \union {[r EXCEPT !.isolation = v] : r \in {WritingWorkflow, Managed},
            v \in {"none", "worktree", "managed-session"}}
=============================================================================
