----------------------- MODULE EngineeringStateProofs -----------------------
(***************************************************************************)
(* For every set of criteria, questions and required checks: the document  *)
(* stays well typed, its four place fields agree, whatever is shipped has  *)
(* its whole trail on record, the document implements Lifecycle, and the   *)
(* resolver reads the evidence as the guards do.                           *)
(***************************************************************************)
EXTENDS EngineeringState, TLAPS

\* The type of the document is kept by every operation and transition.
THEOREM TypeCorrect == Spec => []TypeOK
<1> USE KindsAssumption DEF States, ActiveStates, RecordableStatuses,
        CriterionStatuses, EvidenceKinds
<1>1. Init => TypeOK
  <2>1. \A k \in EvidenceKinds :
          InitialStatus(k) \in {"not-configured", "missing", "pending"}
    BY DEF InitialStatus
  <2>2. PhaseOf("explore") = "A"
    BY DEF PhaseOf
  <2>3. NoCriterion \in [status : CriterionStatuses \cup {"absent"},
                         refs : BOOLEAN]
    BY DEF NoCriterion
  <2>4. ASSUME Init
        PROVE  evidence \in [EvidenceKinds ->
                 [status : RecordableStatuses
                             \cup {"not-configured", "missing"},
                  items : SUBSET RecordableStatuses]]
    <3>1. \A k \in EvidenceKinds :
            [status |-> InitialStatus(k), items |-> {}] \in
              [status : RecordableStatuses \cup {"not-configured", "missing"},
               items : SUBSET RecordableStatuses]
      BY <2>1
    <3> QED
      BY <2>4, <3>1, Zenon DEF Init
  <2>5. ASSUME Init
        PROVE  acceptanceCriteria \in
                 [CriterionIds -> [status : CriterionStatuses \cup {"absent"},
                                   refs : BOOLEAN]]
    BY <2>3, <2>5, Zenon DEF Init
  <2> QED
    BY <2>2, <2>4, <2>5 DEF Init, TypeOK
<1>2. TypeOK /\ [Next]_vars => TypeOK'
  <2> SUFFICES ASSUME TypeOK, [Next]_vars PROVE TypeOK'
    OBVIOUS
  <2> USE DEF TypeOK, place, subject
  <2>1. CASE Block
    BY <2>1 DEF Block, PhaseOf
  <2>2. ASSUME NEW to \in States, Unblock(to) PROVE TypeOK'
    BY <2>2 DEF Unblock, PhaseOf
  <2>3. ASSUME NEW to \in States, Advance(to) PROVE TypeOK'
    BY <2>3 DEF Advance, PhaseOf
  <2>4. CASE SetGoal
    BY <2>4 DEF SetGoal
  <2>5. CASE LinkArtifact
    BY <2>5 DEF LinkArtifact
  <2>6. ASSUME NEW q \in QuestionIds, OpenQuestion(q) \/ ResolveQuestion(q)
        PROVE TypeOK'
    BY <2>6 DEF OpenQuestion, ResolveQuestion
  <2>7. ASSUME NEW c \in CriterionIds, AddCriterion(c) PROVE TypeOK'
    BY <2>7 DEF AddCriterion
  <2>8. ASSUME NEW c \in CriterionIds, NEW s \in StatusesRecorded,
               NEW withRef \in BOOLEAN, UpdateCriterion(c, s, withRef)
        PROVE TypeOK'
    BY <2>8, BoundAssumption DEF UpdateCriterion
  <2>9. CASE RecordLeanGate
    BY <2>9 DEF RecordLeanGate
  <2>10. ASSUME NEW k \in EvidenceKinds, NEW s \in StatusesRecorded,
                RecordEvidence(k, s)
         PROVE TypeOK'
    BY <2>10, BoundAssumption DEF RecordEvidence
  <2>11. CASE UNCHANGED vars
    BY <2>11 DEF vars
  <2> QED
    BY <2>1, <2>2, <2>3, <2>4, <2>5, <2>6, <2>7, <2>8, <2>9, <2>10, <2>11
    DEF Next, TransitionTo, Operate
<1> QED
  BY <1>1, <1>2, PTL DEF Spec

-----------------------------------------------------------------------------
\* status, phase and blockedFrom say the same as state, whatever the path
\* through transitionTo that wrote them.
THEOREM PlaceStaysCoherent == Spec => []PlaceCoherent
<1> USE DEF PlaceCoherent, PhaseOf, ActiveStates
<1>1. Init => PlaceCoherent
  BY DEF Init
<1>2. PlaceCoherent /\ TypeOK /\ [Next]_vars => PlaceCoherent'
  <2> SUFFICES ASSUME PlaceCoherent, TypeOK, [Next]_vars
               PROVE PlaceCoherent'
    OBVIOUS
  <2>1. CASE Block
    BY <2>1 DEF Block
  <2>2. ASSUME NEW to \in States, Unblock(to) PROVE PlaceCoherent'
    BY <2>2 DEF Unblock, TypeOK
  <2>3. ASSUME NEW to \in States, Advance(to) PROVE PlaceCoherent'
    BY <2>3 DEF Advance, TypeOK, Transitions
  <2>4. CASE UNCHANGED place
    BY <2>4 DEF place
  <2>5. Operate => UNCHANGED place
    BY DEF Operate, SetGoal, LinkArtifact, OpenQuestion, ResolveQuestion,
       AddCriterion, UpdateCriterion, RecordLeanGate, RecordEvidence
  <2> QED
    BY <2>1, <2>2, <2>3, <2>4, <2>5 DEF Next, TransitionTo, vars
<1> QED
  BY <1>1, <1>2, TypeCorrect, PTL DEF Spec

-----------------------------------------------------------------------------
(* The trail of a work item.  ShippedIsEvidenced is not inductive: it      *)
(* needs what every earlier stage has already put on record, and that a    *)
(* group's status is either its first one or that of an item it holds.     *)

PastReadiness ==
  {"implement", "diagnose", "verify", "review", "ready-to-ship", "shipped"}

StatusHasItem ==
  \A k \in EvidenceKinds :
    \/ evidence[k].status = InitialStatus(k)
    \/ evidence[k].status \in evidence[k].items

TrailInv ==
  /\ StatusHasItem
  /\ Stage \in PastReadiness => Ready
  /\ Stage \in {"review", "ready-to-ship", "shipped"} => Checked
  /\ Stage \in {"ready-to-ship", "shipped"} => Reviewed
  /\ Stage = "shipped" => Released

\* A group that satisfies its guard and did not begin satisfied holds an
\* item that was passed or waived.
LEMMA SatisfiedHasItem ==
  ASSUME TypeOK, StatusHasItem, NEW k \in EvidenceKinds \ UnconfiguredKinds,
         EvidenceGroupSatisfied(k)
  PROVE  evidence[k].items \cap {"passed", "waived"} # {}
<1>1. InitialStatus(k) \in {"missing", "pending"}
  BY DEF InitialStatus
<1> QED
  BY <1>1 DEF TypeOK, RecordableStatuses, StatusHasItem,
              EvidenceGroupSatisfied

\* No operation takes back a fact the gates rest on.
LEMMA FactsStay ==
  ASSUME TypeOK, StatusHasItem, Operate
  PROVE  /\ StatusHasItem'
         /\ Ready => Ready'
         /\ Checked => Checked'
         /\ Reviewed => Reviewed'
         /\ Released => Released'
         /\ UNCHANGED place
<1> USE DEF Ready, Checked, Reviewed, Released, StatusHasItem, KnownCriteria,
            place, subject
<1>1. CASE SetGoal
  BY <1>1 DEF SetGoal, TypeOK
<1>2. CASE LinkArtifact
  BY <1>2 DEF LinkArtifact, TypeOK
<1>3. ASSUME NEW q \in QuestionIds, OpenQuestion(q) \/ ResolveQuestion(q)
      PROVE  UNCHANGED <<place, subject, acceptanceCriteria, evidence>>
  BY <1>3 DEF OpenQuestion, ResolveQuestion
<1>4. CASE RecordLeanGate
  BY <1>4 DEF RecordLeanGate
<1>5. ASSUME NEW c \in CriterionIds,
             \/ AddCriterion(c)
             \/ \E s \in StatusesRecorded, withRef \in BOOLEAN :
                  UpdateCriterion(c, s, withRef)
      PROVE  /\ UNCHANGED <<place, subject, evidence>>
             /\ \A d \in CriterionIds :
                  acceptanceCriteria[d].status # "absent"
                    => acceptanceCriteria'[d].status # "absent"
  BY <1>5, BoundAssumption
  DEF AddCriterion, UpdateCriterion, TypeOK, NoCriterion
<1>6. ASSUME NEW k \in EvidenceKinds, NEW s \in StatusesRecorded,
             RecordEvidence(k, s)
      PROVE  /\ UNCHANGED <<place, subject, acceptanceCriteria>>
             /\ StatusHasItem'
             /\ \A l \in EvidenceKinds :
                  evidence[l].items \subseteq evidence'[l].items
  BY <1>6 DEF RecordEvidence, TypeOK
<1>7. ASSUME \A l \in EvidenceKinds :
               evidence[l].items \subseteq evidence'[l].items
      PROVE  /\ Checked => Checked'
             /\ Reviewed => Reviewed'
             /\ Released => Released'
  BY <1>7 DEF EvidenceKinds
<1> QED
  BY <1>1, <1>2, <1>3, <1>4, <1>5, <1>6, <1>7 DEF Operate

\* Every stage carries the trail its gates ask for.
LEMMA TrailInductive == TypeOK /\ PlaceCoherent /\ TrailInv /\ [Next]_vars
                          => TrailInv'
<1> SUFFICES ASSUME TypeOK, PlaceCoherent, TrailInv, [Next]_vars
             PROVE  TrailInv'
  OBVIOUS
<1> DEFINE unmoved == UNCHANGED <<subject, acceptanceCriteria, evidence>>
<1>1. ASSUME unmoved
      PROVE  /\ StatusHasItem'
             /\ Ready' = Ready /\ Checked' = Checked
             /\ Reviewed' = Reviewed /\ Released' = Released
  BY <1>1 DEF TrailInv, StatusHasItem, Ready, Checked, Reviewed, Released,
              KnownCriteria, subject
<1>2. CASE Block
  <2>1. unmoved /\ Stage' = Stage
    BY <1>2 DEF Block, Stage, ActiveStates
  <2> QED
    BY <1>1, <2>1 DEF TrailInv
<1>3. ASSUME NEW to \in States, Unblock(to) PROVE TrailInv'
  <2>1. unmoved /\ Stage' = Stage
    BY <1>3 DEF Unblock, Stage, PlaceCoherent, TypeOK, ActiveStates
  <2> QED
    BY <1>1, <2>1 DEF TrailInv
<1>4. ASSUME NEW to \in States, Advance(to) PROVE TrailInv'
  <2>1. unmoved
    BY <1>4 DEF Advance
  <2>2. Stage = state /\ Stage' = to
    BY <1>4 DEF Advance, Stage, Transitions
  <2>3. to \in PastReadiness => Ready
    BY <1>4, <2>2
    DEF Advance, Guard, ImplementationReadiness, Ready, Transitions,
        TrailInv, PastReadiness
  <2>4. to \in {"review", "ready-to-ship", "shipped"} => Checked
    <3>1. CASE to = "review"
      <4>1. ChecksSatisfied
        BY <1>4, <3>1 DEF Advance, Guard, Transitions
      <4> QED
        BY <4>1, SatisfiedHasItem
        DEF ChecksSatisfied, Checked, TrailInv, EvidenceKinds
    <3> QED
      BY <1>4, <2>2, <3>1 DEF Advance, Transitions, TrailInv
  <2>5. to \in {"ready-to-ship", "shipped"} => Reviewed
    <3>1. CASE to = "ready-to-ship"
      <4>1. EvidenceGroupSatisfied("review")
        BY <1>4, <3>1 DEF Advance, Guard, Transitions, ReviewSatisfied
      <4> QED
        BY <4>1, SatisfiedHasItem, KindsAssumption
        DEF Reviewed, TrailInv, EvidenceKinds
    <3> QED
      BY <1>4, <2>2, <3>1 DEF Advance, Transitions, TrailInv
  <2>6. to = "shipped" => Released
    BY <1>4, <2>2, KindsAssumption
    DEF Advance, Guard, Transitions, CompletionRecorded, Released, TrailInv,
        StatusHasItem, InitialStatus, EvidenceKinds
  <2> QED
    BY <1>1, <2>1, <2>2, <2>3, <2>4, <2>5, <2>6 DEF TrailInv
<1>5. CASE Operate
  <2>1. Stage' = Stage
    BY <1>5, FactsStay DEF TrailInv, place, Stage
  <2> QED
    BY <1>5, <2>1, FactsStay DEF TrailInv
<1>6. CASE UNCHANGED vars
  <2>1. unmoved /\ Stage' = Stage
    BY <1>6 DEF vars, place, Stage
  <2> QED
    BY <1>1, <2>1 DEF TrailInv
<1> QED
  BY <1>2, <1>3, <1>4, <1>5, <1>6 DEF Next, TransitionTo

\* The trail holds in every reachable document.
THEOREM TrailHolds == Spec => []TrailInv
<1>1. Init => TrailInv
  BY DEF Init, TrailInv, StatusHasItem, Stage, PastReadiness
<1> QED
  BY <1>1, TrailInductive, TypeCorrect, PlaceStaysCoherent, PTL DEF Spec

\* Whatever was shipped left a complete trail: no sequence of operations,
\* however long, reaches shipped past a gate.
THEOREM ShippedWorkIsEvidenced == Spec => []ShippedIsEvidenced
<1>1. TrailInv => ShippedIsEvidenced
  BY DEF TrailInv, ShippedIsEvidenced, Stage, PastReadiness
<1> QED
  BY <1>1, TrailHolds, PTL

-----------------------------------------------------------------------------
(* The document implements Lifecycle.                                      *)

\* A step that leaves place alone and loses no fact is Learn or a stutter.
LEMMA LearnsOrStutters ==
  ASSUME UNCHANGED place, FactsOnRecord \subseteq FactsOnRecord'
  PROVE  [Promise!Next]_(Promise!vars)
<1>1. Stage' = Stage /\ (state = "blocked")' = (state = "blocked")
  BY DEF Stage, place
<1>2. FactsOnRecord' \in SUBSET {"ready", "checked", "reviewed", "released"}
  BY DEF FactsOnRecord
<1> QED
  BY <1>1, <1>2 DEF Promise!Next, Promise!Learn, Promise!vars

\* A transition changes no fact.
LEMMA TransitionKeepsFacts ==
  ASSUME TransitionTo PROVE FactsOnRecord' = FactsOnRecord
<1>1. UNCHANGED <<subject, acceptanceCriteria, evidence>>
  BY DEF TransitionTo, Block, Unblock, Advance
<1> QED
  BY <1>1 DEF FactsOnRecord, Ready, Checked, Reviewed, Released,
              KnownCriteria, subject

\* The document implements the promised life cycle for every set of
\* criteria, questions and checks: every transition is a Move, a Pause or a
\* Resume, every other operation learns a fact or changes nothing promised.
THEOREM LifecycleImplemented == Spec => ImplementsLifecycle
<1>1. Init => Promise!Init
  <2> SUFFICES ASSUME Init PROVE Promise!Init
    OBVIOUS
  <2>1. Stage = "explore" /\ (state = "blocked") = FALSE
    BY DEF Init, Stage
  <2>2. ~Ready /\ ~Reviewed /\ ~Released
    BY DEF Init, Ready, Reviewed, Released, EvidenceKinds
  <2>3. ~Checked
    BY KindsAssumption DEF Init, Checked, EvidenceKinds
  <2> QED
    BY <2>1, <2>2, <2>3 DEF FactsOnRecord, Promise!Init
<1>2. TypeOK /\ PlaceCoherent /\ TrailInv /\ TrailInv' /\ [Next]_vars
        => [Promise!Next]_(Promise!vars)
  <2> SUFFICES ASSUME TypeOK, PlaceCoherent, TrailInv, TrailInv', [Next]_vars
               PROVE  [Promise!Next]_(Promise!vars)
    OBVIOUS
  <2>1. CASE Block
    <3>1. FactsOnRecord' = FactsOnRecord
      BY <2>1, TransitionKeepsFacts DEF TransitionTo
    <3>2. /\ Stage' = Stage /\ Stage # "shipped"
          /\ (state = "blocked") = FALSE /\ (state = "blocked")' = TRUE
      BY <2>1 DEF Block, Stage, ActiveStates
    <3> QED
      BY <3>1, <3>2 DEF Promise!Next, Promise!Pause
  <2>2. ASSUME NEW to \in States, Unblock(to)
        PROVE  [Promise!Next]_(Promise!vars)
    <3>1. FactsOnRecord' = FactsOnRecord
      BY <2>2, TransitionKeepsFacts DEF TransitionTo
    <3>2. /\ Stage' = Stage
          /\ (state = "blocked") = TRUE /\ (state = "blocked")' = FALSE
      BY <2>2 DEF Unblock, Stage, PlaceCoherent, TypeOK, ActiveStates
    <3> QED
      BY <3>1, <3>2 DEF Promise!Next, Promise!Resume
  <2>3. ASSUME NEW to \in States, Advance(to)
        PROVE  [Promise!Next]_(Promise!vars)
    <3>1. FactsOnRecord' = FactsOnRecord
      BY <2>3, TransitionKeepsFacts DEF TransitionTo
    <3>2. /\ Stage = state /\ Stage' = to /\ <<state, to>> \in Transitions
          /\ (state = "blocked") = FALSE /\ (state = "blocked")' = FALSE
          /\ to \in ActiveStates \cup {"shipped"}
      BY <2>3 DEF Advance, Stage, Transitions, ActiveStates
    <3>3. GateNeeds[<<state, to>>] \subseteq FactsOnRecord'
      BY <3>2 DEF GateNeeds, FactsOnRecord, TrailInv, PastReadiness
    <3> QED
      BY <3>1, <3>2, <3>3 DEF Promise!Next, Promise!Move
  <2>4. CASE Operate
    <3>1. FactsOnRecord \subseteq FactsOnRecord' /\ UNCHANGED place
      BY <2>4, FactsStay DEF FactsOnRecord, TrailInv
    <3> QED
      BY <3>1, LearnsOrStutters
  <2>5. CASE UNCHANGED vars
    <3>1. FactsOnRecord' = FactsOnRecord /\ UNCHANGED place
      BY <2>5 DEF vars, subject, FactsOnRecord, Ready, Checked, Reviewed,
                  Released, KnownCriteria
    <3> QED
      BY <3>1, LearnsOrStutters
  <2> QED
    BY <2>1, <2>2, <2>3, <2>4, <2>5 DEF Next, TransitionTo
<1> QED
  BY <1>1, <1>2, TypeCorrect, PlaceStaysCoherent, TrailHolds, PTL
  DEF Spec, Promise!Spec, ImplementsLifecycle

-----------------------------------------------------------------------------
\* Over the documents there are, the resolver reads an evidence group as the
\* guards do: a group that is waived holds the waived item.
LEMMA SameReading ==
  ASSUME TypeOK, StatusHasItem, NEW k \in EvidenceKinds
  PROVE  /\ ResolverSatisfied(k) <=> EvidenceGroupSatisfied(k)
         /\ k = "review" => evidence[k].status # "not-configured"
<1>1. InitialStatus(k) \in {"not-configured", "missing", "pending"}
  BY DEF InitialStatus
<1>2. evidence[k].status = "waived" => "waived" \in evidence[k].items
  BY <1>1 DEF StatusHasItem
<1>3. k = "review" => InitialStatus(k) = "pending"
  BY KindsAssumption DEF InitialStatus
<1>4. "not-configured" \notin evidence[k].items
  BY DEF TypeOK, RecordableStatuses
<1> QED
  BY <1>2, <1>3, <1>4
     DEF ResolverSatisfied, EvidenceGroupSatisfied, StatusHasItem

\* After any sequence of operations the resolver of next.js recommends to
\* go on to review exactly when the guard lets go, sends back to the review
\* exactly when its evidence is what the guard refuses, and has looked at all
\* else the guard of an implementation asks but the artifact and criteria.
THEOREM ResolverAgrees == Spec => []ResolverAgreesWithGuards
<1>1. TypeOK /\ TrailInv => ResolverAgreesWithGuards
  <2> SUFFICES ASSUME TypeOK, TrailInv, NEW dirty \in BOOLEAN
               PROVE
        LET next == ComputeNextAction(dirty)
            LetsGo(to) == Guard(state, to, dirty)
        IN /\ state = "verify" =>
                /\ next = "code-review" => LetsGo("review")
                /\ next = "verification" => ~LetsGo("review")
           /\ state = "review" =>
                /\ next = "code-review" => ~LetsGo("ready-to-ship")
                /\ next = "handoff-or-ship" =>
                     (LetsGo("ready-to-ship") <=> UnsettledCriteria = {})
           /\ next \in {"implementation", "ticket-breakdown"}
              /\ state \in {"plan", "slice"} =>
                (LetsGo("implement") <=> artifact /\ KnownCriteria # {})
    BY DEF ResolverAgreesWithGuards
  <2> DEFINE next == ComputeNextAction(dirty)
             early == {"human-decision", "none", "requirements-discovery",
                       "decision-resolution", "lean-design-check"}
  <2>1. next \notin early
          => next = InState(dirty) /\ goal /\ openQuestions = {}
    BY DEF ComputeNextAction
  <2>2. CASE state = "verify"
    <3>1. Guard(state, "review", dirty)
            <=> \A k \in RequiredCheckKinds : ResolverSatisfied(k)
      BY <2>2, SameReading
         DEF TrailInv, Guard, ChecksSatisfied, EvidenceKinds
    <3>2. InState(dirty) =
            IF \A k \in RequiredCheckKinds : ResolverSatisfied(k)
            THEN "code-review" ELSE "verification"
      BY <2>2 DEF InState
    <3> QED
      BY <2>1, <2>2, <3>1, <3>2
  <2>3. CASE state = "review"
    <3>1. EvidenceGroupSatisfied("review")
            <=> evidence["review"].status \in {"passed", "waived"}
      BY SameReading DEF TrailInv, EvidenceKinds, ResolverSatisfied
    <3>2. Guard(state, "ready-to-ship", dirty)
            <=> EvidenceGroupSatisfied("review") /\ UnsettledCriteria = {}
      BY <2>3 DEF Guard, ReviewSatisfied
    <3>3. InState(dirty) =
            IF evidence["review"].status \in {"passed", "waived"}
            THEN "handoff-or-ship" ELSE "code-review"
      BY <2>3 DEF InState
    <3> QED
      BY <2>1, <2>3, <3>1, <3>2, <3>3
  <2>4. CASE state \in {"plan", "slice"}
    <3>1. Guard(state, "implement", dirty)
            <=> goal /\ artifact /\ KnownCriteria # {} /\ openQuestions = {}
      BY <2>4 DEF Guard, ImplementationReadiness
    <3> QED
      BY <2>1, <2>4, <3>1
  <2> QED
    BY <2>2, <2>3, <2>4
<1> QED
  BY <1>1, TypeCorrect, TrailHolds, PTL
=============================================================================
