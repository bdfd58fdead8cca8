--------------------------- MODULE ExecutionPolicy ---------------------------
(***************************************************************************)
(* The execution policy of a dispatch: resolveExecutionPolicy and          *)
(* validateExecutionPolicy of src/execution/policy.js, with which the      *)
(* queue daemon completes what a task asks for, and the second check of    *)
(* the agent server, apps/a2a-agent/execution_policy.py.                   *)
(*                                                                         *)
(* A policy is a record of all the fields; one that is not given is        *)
(* "unset".  Numbers and booleans are written as strings, so that a field  *)
(* may hold a value of any type.                                           *)
(***************************************************************************)

Models == {"fable", "sonnet", "haiku", "claude-id"}
Positive == {"1", "2", "3", "16", "17"}
AtMost2 == {"1", "2"}
AtMost16 == Positive \ {"17"}         \* MAX_WORKFLOW_AGENTS
Booleans == {"true", "false"}
Text == {"text"}
Isolations == {"none", "worktree", "managed-session"}
Fanned == {"workflow", "managed-agents"}

Nothing ==
  [pattern |-> "unset", executorModel |-> "unset", advisorModel |-> "unset",
   maxAdvisorCalls |-> "unset", effort |-> "unset", plannerModel |-> "unset",
   workerModel |-> "unset", synthesizerModel |-> "unset",
   partitionable |-> "unset", scope |-> "unset", verification |-> "unset",
   maxAgents |-> "unset", managedAgentsProfile |-> "unset",
   coordinatorAgentId |-> "unset", environmentId |-> "unset",
   coordinatorAgentVersion |-> "unset", writes |-> "unset",
   isolation |-> "unset", budgetTokens |-> "unset"]
Fields == DOMAIN Nothing

AdvisorDefaults ==
  [Nothing EXCEPT !.pattern = "advisor", !.executorModel = "sonnet",
     !.advisorModel = "fable", !.maxAdvisorCalls = "1", !.effort = "high"]
WorkflowDefaults ==
  [Nothing EXCEPT !.pattern = "workflow", !.plannerModel = "fable",
     !.workerModel = "sonnet", !.synthesizerModel = "fable",
     !.effort = "ultracode", !.writes = "false", !.isolation = "none"]
ManagedDefaults ==
  [Nothing EXCEPT !.pattern = "managed-agents",
     !.managedAgentsProfile = "text", !.writes = "false",
     !.isolation = "none"]

\* { ...base, ...over }
Merge(base, over) ==
  [f \in Fields |-> IF over[f] # "unset" THEN over[f] ELSE base[f]]

-----------------------------------------------------------------------------
(* What the daemon's check and the server's check have in common: the two  *)
(* are written apart, in two languages, and differ in how they treat a     *)
(* field that is null.                                                     *)

AdvisorOK(p) ==
  /\ {p.executorModel, p.advisorModel} \subseteq Models
  /\ p.maxAdvisorCalls \in AtMost2
  /\ p.effort = "high"

PartitionOK(p) ==
  /\ p.partitionable = "true"
  /\ {p.scope, p.verification} \subseteq Text
  /\ p.maxAgents \in AtMost16

WorkflowOK(p) ==
  /\ {p.plannerModel, p.workerModel, p.synthesizerModel} \subseteq Models
  /\ p.effort = "ultracode"

CoordinatorOK(p) ==
  /\ p.managedAgentsProfile \in Text \/ p.coordinatorAgentId \in Text
  /\ p.coordinatorAgentId \in Text <=> p.environmentId \in Text

\* Mutant: a workflow that writes may share the working tree.
WritesOKMutant(p) ==
  /\ p.writes \in Booleans
  /\ p.isolation \in Isolations
  /\ p.writes = "true" /\ p.pattern # "workflow"
       => p.isolation = "managed-session"

WritesOK(p) ==
  /\ p.writes \in Booleans
  /\ p.isolation \in Isolations
  /\ p.writes = "true" =>
       p.isolation = IF p.pattern = "workflow" THEN "worktree"
                     ELSE "managed-session"

\* validateExecutionPolicy finds no issue.
Valid(p) ==
  \/ p.pattern = "advisor" /\ AdvisorOK(p)
  \/ /\ p.pattern \in Fanned
     /\ PartitionOK(p)
     /\ IF p.pattern = "workflow" THEN WorkflowOK(p)
        ELSE /\ CoordinatorOK(p)
             /\ p.coordinatorAgentVersion \in Positive \union {"unset"}
     /\ WritesOK(p)
     /\ p.budgetTokens \in Positive \union {"unset"}

\* normalize_execution_policy raises nothing.
Accepted(p) ==
  \/ p.pattern = "advisor" /\ AdvisorOK(p)
  \/ /\ p.pattern \in Fanned
     /\ PartitionOK(p)
     /\ IF p.pattern = "workflow" THEN WorkflowOK(p)
        ELSE /\ CoordinatorOK(p)
             /\ p.coordinatorAgentVersion
                  \in Positive \union {"unset", "null"}
     /\ p.writes \in Booleans
     /\ p.isolation \in Isolations
     /\ p.writes = "true" /\ p.pattern = "workflow"
          => p.isolation = "worktree"
     /\ p.writes = "true" /\ p.pattern = "managed-agents"
          => p.isolation = "managed-session"
     /\ p.budgetTokens \in Positive \union {"unset", "null"}

-----------------------------------------------------------------------------
(* resolveExecutionPolicy.                                                 *)

Configured(defaults) ==
  [AdvisorDefaults EXCEPT
     !.executorModel = Merge(AdvisorDefaults, defaults).executorModel,
     !.advisorModel = Merge(AdvisorDefaults, defaults).advisorModel,
     !.maxAdvisorCalls = Merge(AdvisorDefaults, defaults).maxAdvisorCalls]

WorkflowBase(defaults) ==
  [WorkflowDefaults EXCEPT
     !.plannerModel = Merge(WorkflowDefaults, defaults).plannerModel,
     !.workerModel = Merge(WorkflowDefaults, defaults).workerModel,
     !.synthesizerModel = Merge(WorkflowDefaults, defaults).synthesizerModel]

\* What is validated: the request over the defaults of its pattern.  A
\* pattern nobody knows counts as none.
Candidate(requested, defaults) ==
  CASE requested.pattern = "workflow" ->
         [Merge(WorkflowBase(defaults), requested)
            EXCEPT !.effort = "ultracode"]
    [] requested.pattern = "managed-agents" ->
         Merge(ManagedDefaults, requested)
    [] requested.pattern = "advisor" ->
         Merge(Configured(defaults), requested)
    [] OTHER -> Configured(defaults)

\* The candidate, or what takes its place: the configured advisor, which
\* is not validated, for a fanned-out request, the built-in one otherwise.
ResolveExecutionPolicy(requested, defaults) ==
  LET candidate == Candidate(requested, defaults)
  IN  IF Valid(candidate) THEN candidate
      ELSE IF requested.pattern \in Fanned THEN Configured(defaults)
      ELSE AdvisorDefaults
=============================================================================
