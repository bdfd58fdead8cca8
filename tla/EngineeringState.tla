-------------------------- MODULE EngineeringState --------------------------
(***************************************************************************)
(* The engineering state document of one repository and the operations     *)
(* the `octowiz state` commands run on it (src/state/transitions.js,       *)
(* operations.js, next.js).  Each action is one successful mutation: the   *)
(* store persists the whole document or nothing, so an operation that      *)
(* throws is a stuttering step.                                            *)
(*                                                                         *)
(* Texts, identifiers and timestamps are abstracted to whether they are    *)
(* there; a linked and a waived artifact are the same, and so are a passed *)
(* and a failed lean gate, because nothing tells them apart.  The items of *)
(* an evidence group are abstracted to the set of statuses recorded so     *)
(* far: that is all the guards ask of them, because recordEvidence lets no *)
(* waived item in without its reason.                                      *)
(***************************************************************************)
EXTENDS Naturals, FiniteSets

CONSTANTS
  CriterionIds,        \* identifiers acceptance criteria may get
  QuestionIds,         \* blocking questions that may be open at once
  RequiredCheckKinds,  \* evidence kinds that gate verify -> review
  UnconfiguredKinds,   \* the required kinds that start as not-configured
  StatusesRecorded,    \* the evidence and criterion statuses callers pass
  MaxEvidence          \* bound: distinct (kind, status) items on record

ASSUME KindsAssumption ==
  /\ RequiredCheckKinds \subseteq {"tests", "lint", "types"}
  /\ UnconfiguredKinds \subseteq RequiredCheckKinds
  /\ "tests" \in RequiredCheckKinds \ UnconfiguredKinds

ASSUME BoundAssumption ==
  /\ StatusesRecorded \subseteq {"pending", "passed", "failed", "waived"}
  /\ MaxEvidence \in Nat

VARIABLES
  state, status, phase, blockedFrom,   \* where the work is
  goal, artifact,                      \* what it is about
  openQuestions,                       \* blocking questions still open
  acceptanceCriteria,                  \* criteria and where they stand
  leanGate,                            \* the lean engineering gate
  evidence                             \* what has been observed of it

place == <<state, status, phase, blockedFrom>>
subject == <<goal, artifact>>
vars == <<place, subject, openQuestions, acceptanceCriteria, leanGate,
          evidence>>

-----------------------------------------------------------------------------
(* The tables of schema.js and transitions.js.                             *)

ActiveStates ==
  {"explore", "define", "plan", "slice", "implement", "diagnose", "verify",
   "review", "ready-to-ship"}

States == ActiveStates \cup {"blocked", "shipped"}

PhaseOf(s) ==
  CASE s \in {"explore", "define"} -> "A"
    [] s \in {"plan", "slice"} -> "B"
    [] s \in {"implement", "diagnose", "blocked"} -> "C"
    [] OTHER -> "D"

Transitions ==
  {<<"explore", "define">>, <<"define", "plan">>, <<"plan", "slice">>,
   <<"plan", "implement">>, <<"slice", "implement">>,
   <<"implement", "verify">>, <<"implement", "diagnose">>,
   <<"diagnose", "implement">>, <<"verify", "implement">>,
   <<"verify", "review">>, <<"review", "implement">>,
   <<"review", "ready-to-ship">>, <<"ready-to-ship", "shipped">>}

EvidenceKinds == RequiredCheckKinds \cup {"review", "ship"}

RecordableStatuses == {"pending", "passed", "failed", "waived"}

\* "missing" is the absent ship group; createInitialState never makes one.
InitialStatus(kind) ==
  CASE kind \in UnconfiguredKinds -> "not-configured"
    [] kind = "ship" -> "missing"
    [] OTHER -> "pending"

CriterionStatuses == {"pending", "passed", "failed", "waived"}

NoCriterion == [status |-> "absent", refs |-> FALSE]

-----------------------------------------------------------------------------
(* The guards: each is what must hold of the document for its edge.        *)

KnownCriteria ==
  {c \in CriterionIds : acceptanceCriteria[c].status # "absent"}

UnsettledCriteria ==
  {c \in KnownCriteria :
     acceptanceCriteria[c].status \notin {"passed", "waived"}}

\* Mutant: the guard forgets that not-configured counts as satisfied.
EvidenceGroupSatisfiedMutant(kind) ==
  \/ evidence[kind].status = "passed"
  \/ /\ evidence[kind].status = "waived"
     /\ "waived" \in evidence[kind].items

EvidenceGroupSatisfied(kind) ==
  \/ evidence[kind].status \in {"not-configured", "passed"}
  \/ /\ evidence[kind].status = "waived"
     /\ "waived" \in evidence[kind].items

ImplementationReadiness ==
  /\ goal
  /\ artifact
  /\ KnownCriteria # {}
  /\ openQuestions = {}

ChecksSatisfied == \A k \in RequiredCheckKinds : EvidenceGroupSatisfied(k)

ReviewSatisfied ==
  /\ EvidenceGroupSatisfied("review")
  /\ UnsettledCriteria = {}

CompletionRecorded ==
  /\ evidence["ship"].status = "passed"
  /\ evidence["ship"].items # {}

\* Mutant: the table has no entry for slice -> implement.
GuardMutant(from, to, activity) ==
  CASE <<from, to>> = <<"plan", "implement">> -> ImplementationReadiness
    [] <<from, to>> = <<"implement", "verify">> -> activity
    [] <<from, to>> = <<"verify", "review">> -> ChecksSatisfied
    [] <<from, to>> = <<"review", "ready-to-ship">> -> ReviewSatisfied
    [] <<from, to>> = <<"ready-to-ship", "shipped">> -> CompletionRecorded
    [] OTHER -> TRUE

\* activity stands for what the implement -> verify guard observes outside
\* the document: changes in the working tree, or --waive-activity-check.
Guard(from, to, activity) ==
  CASE <<from, to>> \in {<<"plan", "implement">>, <<"slice", "implement">>}
         -> ImplementationReadiness
    [] <<from, to>> = <<"implement", "verify">> -> activity
    [] <<from, to>> = <<"verify", "review">> -> ChecksSatisfied
    [] <<from, to>> = <<"review", "ready-to-ship">> -> ReviewSatisfied
    [] <<from, to>> = <<"ready-to-ship", "shipped">> -> CompletionRecorded
    [] OTHER -> TRUE

-----------------------------------------------------------------------------
(* transitionTo: three ways to move.                                       *)

Block ==
  /\ state \in ActiveStates
  /\ state' = "blocked"
  /\ status' = "blocked"
  /\ phase' = PhaseOf("blocked")
  /\ blockedFrom' = state
  /\ UNCHANGED <<subject, openQuestions, acceptanceCriteria, leanGate,
                 evidence>>

\* Mutant: returns without clearing blockedFrom.
UnblockMutant(to) ==
  /\ state = "blocked"
  /\ to = blockedFrom
  /\ state' = to
  /\ status' = "active"
  /\ phase' = PhaseOf(to)
  /\ UNCHANGED <<blockedFrom, subject, openQuestions, acceptanceCriteria,
                 leanGate, evidence>>

\* Mutant: returns to any state the caller names.
UnblockAnywhereMutant(to) ==
  /\ state = "blocked"
  /\ to # "blocked"
  /\ state' = to
  /\ status' = IF to = "shipped" THEN "done" ELSE "active"
  /\ phase' = PhaseOf(to)
  /\ blockedFrom' = "none"
  /\ UNCHANGED <<subject, openQuestions, acceptanceCriteria, leanGate,
                 evidence>>

Unblock(to) ==
  /\ state = "blocked"
  /\ to = blockedFrom
  /\ state' = to
  /\ status' = "active"
  /\ phase' = PhaseOf(to)
  /\ blockedFrom' = "none"
  /\ UNCHANGED <<subject, openQuestions, acceptanceCriteria, leanGate,
                 evidence>>

Advance(to) ==
  /\ <<state, to>> \in Transitions
  /\ \E activity \in BOOLEAN : Guard(state, to, activity)
  /\ state' = to
  /\ status' = IF to = "shipped" THEN "done" ELSE "active"
  /\ phase' = PhaseOf(to)
  /\ UNCHANGED <<blockedFrom, subject, openQuestions, acceptanceCriteria,
                 leanGate, evidence>>

-----------------------------------------------------------------------------
(* operations.js: the mutation builders.  None of them looks at the state. *)

SetGoal ==
  /\ goal' = TRUE
  /\ UNCHANGED <<place, artifact, openQuestions, acceptanceCriteria,
                 leanGate, evidence>>

LinkArtifact ==
  /\ artifact' = TRUE
  /\ UNCHANGED <<place, goal, openQuestions, acceptanceCriteria, leanGate,
                 evidence>>

\* A question without a blocking flag is asked and answered without effect.
OpenQuestion(q) ==
  /\ q \notin openQuestions
  /\ openQuestions' = openQuestions \cup {q}
  /\ UNCHANGED <<place, subject, acceptanceCriteria, leanGate, evidence>>

ResolveQuestion(q) ==
  /\ q \in openQuestions
  /\ openQuestions' = openQuestions \ {q}
  /\ UNCHANGED <<place, subject, acceptanceCriteria, leanGate, evidence>>

AddCriterion(c) ==
  /\ acceptanceCriteria[c] = NoCriterion
  /\ acceptanceCriteria' = [acceptanceCriteria EXCEPT
       ![c] = [status |-> "pending", refs |-> FALSE]]
  /\ UNCHANGED <<place, subject, openQuestions, leanGate, evidence>>

\* withRef: the caller passed --evidence.  A waived update needs its reason,
\* so a call without one throws and is no step.
UpdateCriterion(c, newStatus, withRef) ==
  /\ c \in KnownCriteria
  /\ newStatus = "passed" => acceptanceCriteria[c].refs \/ withRef
  /\ acceptanceCriteria' = [acceptanceCriteria EXCEPT
       ![c] = [status |-> newStatus,
               refs |-> acceptanceCriteria[c].refs \/ withRef]]
  /\ UNCHANGED <<place, subject, openQuestions, leanGate, evidence>>

RecordLeanGate ==
  /\ leanGate' = "decided"
  /\ UNCHANGED <<place, subject, openQuestions, acceptanceCriteria, evidence>>

ItemsOnRecord ==
  Cardinality(UNION {{k} \X evidence[k].items : k \in EvidenceKinds})

\* The group's status is that of the last item, and the items only grow.
RecordEvidence(kind, newStatus) ==
  /\ newStatus \notin evidence[kind].items => ItemsOnRecord < MaxEvidence
  /\ evidence' = [evidence EXCEPT
       ![kind] = [status |-> newStatus,
                  items |-> evidence[kind].items \cup {newStatus}]]
  /\ UNCHANGED <<place, subject, openQuestions, acceptanceCriteria, leanGate>>

-----------------------------------------------------------------------------
Init ==
  /\ state = "explore"
  /\ status = "active"
  /\ phase = PhaseOf("explore")
  /\ blockedFrom = "none"
  /\ goal = FALSE
  /\ artifact = FALSE
  /\ openQuestions = {}
  /\ acceptanceCriteria = [c \in CriterionIds |-> NoCriterion]
  /\ leanGate = "pending"
  /\ evidence = [k \in EvidenceKinds |->
                   [status |-> InitialStatus(k), items |-> {}]]

TransitionTo ==
  \/ Block
  \/ \E to \in States : Unblock(to) \/ Advance(to)

Operate ==
  \/ SetGoal
  \/ LinkArtifact
  \/ \E q \in QuestionIds : OpenQuestion(q) \/ ResolveQuestion(q)
  \/ \E c \in CriterionIds :
       \/ AddCriterion(c)
       \/ \E s \in StatusesRecorded, withRef \in BOOLEAN :
            UpdateCriterion(c, s, withRef)
  \/ RecordLeanGate
  \/ \E k \in EvidenceKinds, s \in StatusesRecorded : RecordEvidence(k, s)

Next == TransitionTo \/ Operate

Spec == Init /\ [][Next]_vars

-----------------------------------------------------------------------------
(* next.js: what the deterministic resolver recommends.                    *)

\* The resolver's own, looser reading of an evidence group.
ResolverSatisfied(kind) ==
  evidence[kind].status \in {"passed", "not-configured", "waived"}

InState(dirty) ==
  CASE state = "explore" -> "definition"
    [] state = "define" -> "plan-validation"
    [] state = "plan" -> "implementation"
    [] state = "slice" -> "ticket-breakdown"
    [] state = "diagnose" -> "diagnosis"
    [] state = "implement" /\ evidence["tests"].status = "failed"
         -> "diagnosis"
    [] state = "implement" /\ evidence["tests"].status # "failed"
         -> IF dirty THEN "verification" ELSE "implementation"
    [] state = "verify"
         -> IF \A k \in RequiredCheckKinds : ResolverSatisfied(k)
            THEN "code-review" ELSE "verification"
    [] state = "review"
         -> IF evidence["review"].status \in {"passed", "waived"}
            THEN "handoff-or-ship" ELSE "code-review"
    [] OTHER -> "handoff-or-ship"

ComputeNextAction(dirty) ==
  IF state = "blocked" THEN "human-decision"
  ELSE IF state = "shipped" THEN "none"
  ELSE IF ~goal THEN "requirements-discovery"
  ELSE IF openQuestions # {} THEN "decision-resolution"
  ELSE IF KnownCriteria # {} /\ leanGate = "pending" THEN "lean-design-check"
  ELSE InState(dirty)

-----------------------------------------------------------------------------
(* Properties.                                                             *)

TypeOK ==
  /\ state \in States
  /\ status \in {"active", "blocked", "done"}
  /\ phase \in {"A", "B", "C", "D"}
  /\ blockedFrom \in ActiveStates \cup {"none"}
  /\ goal \in BOOLEAN
  /\ artifact \in BOOLEAN
  /\ openQuestions \subseteq QuestionIds
  /\ acceptanceCriteria \in
       [CriterionIds -> [status : CriterionStatuses \cup {"absent"},
                         refs : BOOLEAN]]
  /\ leanGate \in {"pending", "decided"}
  /\ evidence \in
       [EvidenceKinds ->
          [status : RecordableStatuses \cup {"not-configured", "missing"},
           items : SUBSET RecordableStatuses]]

\* Where the work item is, seen through a block.
Stage == IF state = "blocked" THEN blockedFrom ELSE state

\* Facts about the work that no operation can take back: the ones the gates
\* rest on.  A kind that began as not-configured asks for nothing.
Ready == goal /\ artifact /\ KnownCriteria # {}
Checked ==
  \A k \in RequiredCheckKinds \ UnconfiguredKinds :
    evidence[k].items \cap {"passed", "waived"} # {}
Reviewed == evidence["review"].items \cap {"passed", "waived"} # {}
Released == "passed" \in evidence["ship"].items

FactsOnRecord ==
  (IF Ready THEN {"ready"} ELSE {}) \cup
  (IF Checked THEN {"checked"} ELSE {}) \cup
  (IF Reviewed THEN {"reviewed"} ELSE {}) \cup
  (IF Released THEN {"released"} ELSE {})

GateNeeds ==
  [e \in Transitions |->
     CASE e \in {<<"plan", "implement">>, <<"slice", "implement">>}
            -> {"ready"}
       [] e = <<"verify", "review">> -> {"checked"}
       [] e = <<"review", "ready-to-ship">> -> {"reviewed"}
       [] e = <<"ready-to-ship", "shipped">> -> {"released"}
       [] OTHER -> {}]

Promise == INSTANCE Lifecycle WITH
  Stages <- ActiveStates \cup {"shipped"}, First <- "explore",
  Final <- "shipped", Edges <- Transitions,
  Facts <- {"ready", "checked", "reviewed", "released"}, Needs <- GateNeeds,
  stage <- Stage, paused <- (state = "blocked"), facts <- FactsOnRecord

\* The document implements the promised life cycle: no sequence of commands,
\* with any detour through blocked, skips a gate or loses a fact a gate
\* rests on (transitionTo against every operation of operations.js).
ImplementsLifecycle == Promise!Spec

\* The four fields that say where the work is agree: transitionTo writes
\* them one by one on three paths, and validateState compares only two.
PlaceCoherent ==
  /\ status = CASE state = "blocked" -> "blocked"
                [] state = "shipped" -> "done"
                [] OTHER -> "active"
  /\ phase = PhaseOf(state)
  /\ state = "blocked" <=> blockedFrom # "none"

\* Whatever was shipped left a complete trail: a goal, an artifact, a
\* criterion, every configured check passed or waived once, a review passed
\* or waived once, a completion reference.  The gates are far apart and
\* review and verify can return to implement, so no single guard says this.
ShippedIsEvidenced ==
  state = "shipped" => Ready /\ Checked /\ Reviewed /\ Released

\* What the resolver recommends against the guard of the transition that
\* comes next.  It recommends to go on to review exactly when that guard
\* lets go; it sends back to the review exactly when the review's evidence
\* is what holds it up; and where it recommends to start or to hand over,
\* it has looked at all the guard asks but the artifact and the criteria
\* (resolveNextAction against GUARDS: two readings of an evidence group).
ResolverAgreesWithGuards ==
  \A dirty \in BOOLEAN :
    LET next == ComputeNextAction(dirty)
        LetsGo(to) == Guard(state, to, dirty)
    IN /\ state = "verify" =>
            /\ next = "code-review" => LetsGo("review")
            /\ next = "verification" => ~LetsGo("review")
       /\ state = "review" =>
            /\ next = "code-review" => ~LetsGo("ready-to-ship")
            /\ next = "handoff-or-ship" =>
                 (LetsGo("ready-to-ship") <=> UnsettledCriteria = {})
       /\ next \in {"implementation", "ticket-breakdown"}
          /\ state \in {"plan", "slice"} =>
            (LetsGo("implement") <=> artifact /\ KnownCriteria # {})
=============================================================================
