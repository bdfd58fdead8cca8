--------------------------- MODULE DoctrineProofs ---------------------------
(***************************************************************************)
(* The engineering doctrine at its two ends, for every set of sessions,    *)
(* required checks and artifact types and every bound: the commands that   *)
(* write the state document, and the gate that reads it when a session     *)
(* stops.                                                                  *)
(*                                                                         *)
(* The document: what is written is portable, a command with good texts is *)
(* never refused by the schema, nothing on record is taken back, and the   *)
(* document with all its texts implements EngineeringState.  Each          *)
(* operation is first described by what it makes of a document (GoalIsSet, *)
(* ArtifactIsLinked, ...); all else is about these descriptions.           *)
(*                                                                         *)
(* The gate: it blocks only what deserves it, it passes a session that     *)
(* left changes behind only for a cause, and a session that has ended      *)
(* holds no lease.  The invariant says what a hook under way is about to   *)
(* write, as long as no other one has written since it read.               *)
(***************************************************************************)
EXTENDS StateDocument, StopGate, SequenceTheorems, FiniteSetTheorems, TLAPS
-----------------------------------------------------------------------------
(* The document.                                                           *)

Statuses == {"pending", "passed", "failed", "waived"}
Artifacts == [type : ArtifactTypes \cup {None, "waived"}, id : Texts,
              url : Texts, reason : Texts]
Decisions == [statement : Texts, reason : Texts,
              status : {"accepted", "superseded"}, supersededBy : Nat]
Questions == [question : Texts, blocking : BOOLEAN,
              status : {"open", "resolved"}, answer : Texts]
Criteria == [statement : Texts, status : Statuses, refs : SUBSET Texts,
             waiverReason : Texts]
LeanGates == [status : {"pending", "passed", "failed"},
              rung : {None, "shrink-design"}, decision : Texts,
              rejected : SUBSET Texts, limits : Texts]
Items == [status : Statuses, ref : Texts, note : Texts,
          waiverReason : Texts]
Groups == [status : Statuses \cup {"not-configured", "missing"},
           items : Seq(Items)]
Reviews == [status : {"pending", "passed", "waived"},
            findings : SUBSET Texts]
Docs == [revision : Nat, goal : Texts, artifact : Artifacts,
         decisions : Seq(Decisions), questions : Seq(Questions),
         criteria : Seq(Criteria), leanGate : LeanGates,
         evidence : [Kinds -> Groups], complexityReview : Reviews]

LEMMA TextsGiven == /\ None \in Texts /\ ~HasText(None) /\ Portable(None)
                    /\ \A t \in Texts :
                         Required(t) <=> HasText(t) /\ Portable(t)
BY DEF Texts, HasText, Portable, Required, None, Blank, Plain, Local

\* A document with another value in one field is a document.
LEMMA WithField ==
  ASSUME NEW d \in Docs
  PROVE  /\ \A x \in Texts : [d EXCEPT !.goal = x] \in Docs
         /\ \A x \in Artifacts : [d EXCEPT !.artifact = x] \in Docs
         /\ \A x \in Seq(Decisions) : [d EXCEPT !.decisions = x] \in Docs
         /\ \A x \in Seq(Questions) : [d EXCEPT !.questions = x] \in Docs
         /\ \A x \in Seq(Criteria) : [d EXCEPT !.criteria = x] \in Docs
         /\ \A x \in LeanGates : [d EXCEPT !.leanGate = x] \in Docs
         /\ \A x \in [Kinds -> Groups] : [d EXCEPT !.evidence = x] \in Docs
         /\ \A x \in Reviews : [d EXCEPT !.complexityReview = x] \in Docs
BY DEF Docs

\* A function over the first numbers is a sequence.
LEMMA SeqOfFunction ==
  ASSUME NEW S, NEW n \in Nat, NEW f \in [1 .. n -> S]
  PROVE  f \in Seq(S) /\ Len(f) = n
OBVIOUS

LEMMA NoArtifactTyped ==
  /\ NoArtifact \in Artifacts /\ NoArtifact.type = None
  /\ NoArtifact.id = None /\ NoArtifact.url = None
  /\ NoArtifact.reason = None
BY TextsGiven DEF NoArtifact, Artifacts

LEMMA SupersededTyped ==
  ASSUME NEW d \in Decisions, NEW n \in Nat
  PROVE  /\ Superseded(d, n) \in Decisions
         /\ Superseded(d, n).statement = d.statement
         /\ Superseded(d, n).reason = d.reason
         /\ Superseded(d, n).status = "superseded"
         /\ Superseded(d, n).supersededBy = n
BY DEF Superseded, Decisions

\* What each operation makes of a document d, as outcome o, for texts T.
GoalIsSet(d, T, o) ==
  \E goal \in T :
    /\ HasText(goal)
    /\ o.doc = [d EXCEPT !.goal = goal] /\ o.doc \in Docs
    /\ o.texts = {goal}

ArtifactIsLinked(d, T, o) ==
  \E a \in Artifacts :
    /\ a.type # None
    /\ IF a.type = "waived"
       THEN HasText(a.reason) /\ a.id = None /\ a.url = None
       ELSE HasText(a.id) /\ a.reason = None
    /\ {a.id, a.url, a.reason} \subseteq T \cup {None}
    /\ o.doc = [d EXCEPT !.artifact = a] /\ o.doc \in Docs
    /\ o.texts \subseteq {a.id, a.url, a.reason}

DecisionIsRecorded(d, T, o) ==
  \E ds \in Seq(Decisions), statement \in T, reason \in T :
    /\ HasText(statement)
    /\ Len(ds) = Len(d.decisions) + 1
    /\ \A i \in 1 .. Len(d.decisions) :
         \/ ds[i] = d.decisions[i]
         \/ ds[i] = Superseded(d.decisions[i],
                               Len(d.decisions) + 1)
    /\ ds[Len(ds)] = NewDecision(statement, reason)
    /\ o.doc = [d EXCEPT !.decisions = ds] /\ o.doc \in Docs
    /\ o.texts = {statement}

QuestionIsOpened(d, T, o) ==
  \E q \in Questions :
    /\ HasText(q.question) /\ q.question \in T
    /\ q.answer = None /\ q.status = "open"
    /\ o.doc = [d EXCEPT !.questions = Append(d.questions, q)]
    /\ o.doc \in Docs
    /\ o.texts = {}

QuestionIsResolved(d, T, o) ==
  \E i \in 1 .. Len(d.questions), q \in Questions :
    /\ d.questions[i].status = "open" /\ q.status = "resolved"
    /\ q.question = d.questions[i].question
    /\ q.blocking = d.questions[i].blocking
    /\ q.answer \in T
    /\ o.doc = [d EXCEPT !.questions = [d.questions EXCEPT ![i] = q]]
    /\ o.doc \in Docs
    /\ o.texts = {}

CriterionIsAdded(d, T, o) ==
  \E c \in Criteria :
    /\ HasText(c.statement) /\ c.statement \in T
    /\ c.status = "pending" /\ c.refs = {} /\ c.waiverReason = None
    /\ o.doc = [d EXCEPT !.criteria = Append(d.criteria, c)]
    /\ o.doc \in Docs
    /\ o.texts = {}

CriterionIsUpdated(d, T, o) ==
  \E i \in 1 .. Len(d.criteria), c \in Criteria, ref \in T :
    /\ c.statement = d.criteria[i].statement
    /\ c.refs = d.criteria[i].refs \cup ({ref} \ {None})
    /\ c.status \in StatusesRecorded
    /\ c.status = "passed" => c.refs # {}
    /\ IF c.status = "waived"
       THEN HasText(c.waiverReason) /\ c.waiverReason \in T
       ELSE c.waiverReason = d.criteria[i].waiverReason
    /\ o.doc = [d EXCEPT !.criteria = [d.criteria EXCEPT ![i] = c]]
    /\ o.doc \in Docs
    /\ o.texts = {}

LeanGateIsRecorded(d, T, o) ==
  \E g \in LeanGates :
    /\ g.status # "pending"
    /\ g.status = "passed" => g.rung # None /\ HasText(g.decision)
    /\ g.decision \in T /\ g.limits \in T
    /\ g.rejected \subseteq T \ {None}
    /\ o.doc = [d EXCEPT !.leanGate = g] /\ o.doc \in Docs
    /\ o.texts = {}

ReviewIsRecorded(d, T, o) ==
  \E r \in Reviews :
    /\ r.findings \subseteq T /\ \A f \in r.findings : HasText(f)
    /\ o.doc = [d EXCEPT !.complexityReview = r] /\ o.doc \in Docs
    /\ o.texts = {}

EvidenceIsRecorded(d, T, o) ==
  \E k \in Kinds, item \in Items, g \in Groups :
    /\ item.status \in StatusesRecorded
    /\ HasText(item.ref)
    /\ {item.ref, item.note} \subseteq T
    /\ IF item.status = "waived"
       THEN HasText(item.waiverReason) /\ item.waiverReason \in T
       ELSE item.waiverReason = None
    /\ g.status = item.status
    /\ g.items = Append(d.evidence[k].items, item)
    /\ o.doc = [d EXCEPT !.evidence = [d.evidence EXCEPT ![k] = g]]
    /\ o.doc \in Docs
    /\ o.texts = {item.ref}
LEMMA GoalSet ==
  ASSUME NEW d \in Docs, NEW T \in SUBSET Texts,
         NEW o \in SetGoalCalls(d, T)
  PROVE  GoalIsSet(d, T, o)
<1>1. PICK goal \in T : o \in SetGoal(d, goal)
  BY DEF SetGoalCalls
<1>2. HasText(goal) /\ o = Outcome([d EXCEPT !.goal = goal], {goal})
  BY <1>1 DEF SetGoal, When, Refused
<1>3. o.doc = [d EXCEPT !.goal = goal] /\ o.texts = {goal}
  BY <1>2 DEF Outcome
<1>4. o.doc \in Docs
  BY <1>3, WithField
<1> QED
  BY <1>2, <1>3, <1>4 DEF GoalIsSet

LEMMA ArtifactLinked ==
  ASSUME NEW d \in Docs, NEW T \in SUBSET Texts,
         NEW o \in LinkArtifactCalls(d, T)
  PROVE  ArtifactIsLinked(d, T, o)
<1>1. CASE o \in UNION {LinkArtifact(d, type, id, url) :
                         type \in ArtifactTypes, id \in T,
                         url \in T \cap Optional}
  <2>1. PICK type \in ArtifactTypes, id \in T, url \in T \cap Optional :
          o \in LinkArtifact(d, type, id, url)
    BY <1>1
  <2> DEFINE a == [type |-> type, id |-> id, url |-> url, reason |-> None]
  <2>2. /\ type \notin {None, "waived"} /\ HasText(id)
        /\ o = Outcome([d EXCEPT !.artifact = a], {id, url})
    BY <2>1 DEF LinkArtifact, When, Refused
  <2>3. o.doc = [d EXCEPT !.artifact = a] /\ o.texts = {id, url}
    BY <2>2 DEF Outcome
  <2>4. a \in Artifacts
    BY TextsGiven DEF Artifacts
  <2>5. o.doc \in Docs
    BY <2>3, <2>4, WithField
  <2> QED
    BY <2>2, <2>3, <2>4, <2>5 DEF ArtifactIsLinked
<1>2. CASE o \in UNION {WaiveArtifact(d, reason) : reason \in T}
  <2>1. PICK reason \in T : o \in WaiveArtifact(d, reason)
    BY <1>2
  <2> DEFINE a == [NoArtifact EXCEPT !.type = "waived", !.reason = reason]
  <2>2. /\ HasText(reason)
        /\ o = Outcome([d EXCEPT !.artifact = a], {reason})
    BY <2>1 DEF WaiveArtifact, When, Refused
  <2>3. o.doc = [d EXCEPT !.artifact = a] /\ o.texts = {reason}
    BY <2>2 DEF Outcome
  <2>4. /\ a \in Artifacts /\ a.type = "waived" /\ a.reason = reason
        /\ a.id = None /\ a.url = None
    BY NoArtifactTyped DEF Artifacts
  <2>5. o.doc \in Docs
    BY <2>3, <2>4, WithField
  <2>6. "waived" # None
    BY DEF None
  <2> HIDE DEF a
  <2> QED
    BY <2>2, <2>3, <2>4, <2>5, <2>6 DEF ArtifactIsLinked
<1>3. \/ o \in UNION {LinkArtifact(d, type, id, url) :
                        type \in ArtifactTypes, id \in T,
                        url \in T \cap Optional}
      \/ o \in UNION {WaiveArtifact(d, reason) : reason \in T}
  BY DEF LinkArtifactCalls
<1> QED
  BY <1>1, <1>2, <1>3

LEMMA DecisionRecorded ==
  ASSUME NEW d \in Docs, NEW T \in SUBSET Texts,
         NEW o \in DecideCalls(d, T)
  PROVE  DecisionIsRecorded(d, T, o)
<1>1. PICK statement \in T, reason \in T \cap Optional,
           supersedes \in 0 .. Len(d.decisions) :
        o \in RecordDecision(d, statement, reason, supersedes)
  BY DEF DecideCalls
<1> DEFINE old == d.decisions
           new == NewDecision(statement, reason)
           marked == [i \in DOMAIN old |->
                        IF i = supersedes
                        THEN Superseded(old[i], Len(old) + 1) ELSE old[i]]
           ds == Append(marked, new)
<1>2. /\ HasText(statement)
      /\ o = Outcome([d EXCEPT !.decisions = ds], {statement})
  BY <1>1 DEF RecordDecision, When, Refused
<1>3. o.doc = [d EXCEPT !.decisions = ds] /\ o.texts = {statement}
  BY <1>2 DEF Outcome
<1>4. /\ old \in Seq(Decisions) /\ Len(old) \in Nat
      /\ DOMAIN old = 1 .. Len(old)
      /\ \A i \in 1 .. Len(old) : old[i] \in Decisions
  BY LenProperties, ElementOfSeq DEF Docs
<1>5. new \in Decisions
  BY TextsGiven DEF NewDecision, Decisions
<1>6. \A i \in 1 .. Len(old) :
        Superseded(old[i], Len(old) + 1) \in Decisions
  <2>1. Len(old) + 1 \in Nat
    BY <1>4
  <2> QED
    BY <1>4, <2>1, SupersededTyped
<1>7. marked \in Seq(Decisions) /\ Len(marked) = Len(old)
  <2>1. \A i \in 1 .. Len(old) : marked[i] \in Decisions
    BY <1>4, <1>6
  <2>2. marked \in [1 .. Len(old) -> Decisions]
    BY <1>4, <2>1
  <2> HIDE DEF marked
  <2> QED
    BY <1>4, <2>2, SeqOfFunction
<1>8. \A i \in 1 .. Len(old) :
        \/ marked[i] = old[i]
        \/ marked[i] = Superseded(old[i], Len(old) + 1)
  BY <1>4
<1> HIDE DEF new, marked
<1>9. /\ ds \in Seq(Decisions) /\ Len(ds) = Len(old) + 1
      /\ \A i \in 1 .. Len(old) : ds[i] = marked[i]
      /\ ds[Len(old) + 1] = new
  BY <1>5, <1>7, AppendProperties
<1> HIDE DEF ds
<1>10. o.doc \in Docs
  BY <1>3, <1>9, WithField
<1>11. ds[Len(ds)] = NewDecision(statement, reason)
  BY <1>9 DEF new
<1>12. \A i \in 1 .. Len(old) :
         ds[i] = old[i] \/ ds[i] = Superseded(old[i], Len(old) + 1)
  BY <1>8, <1>9
<1> HIDE DEF old
<1> QED
  BY ZenonT(30), <1>2, <1>3, <1>9, <1>10, <1>11, <1>12
     DEF old, DecisionIsRecorded

LEMMA QuestionOpened ==
  ASSUME NEW d \in Docs, NEW T \in SUBSET Texts,
         NEW o \in AskCalls(d, T)
  PROVE  QuestionIsOpened(d, T, o)
<1>1. PICK question \in T, blocking \in BOOLEAN :
        o \in OpenQuestion(d, question, blocking)
  BY DEF AskCalls
<1> DEFINE q == [question |-> question, blocking |-> blocking,
                 status |-> "open", answer |-> None]
<1>2. /\ HasText(question)
      /\ o = Outcome([d EXCEPT !.questions = Append(@, q)], {})
  BY <1>1 DEF OpenQuestion, When, Refused
<1>3. /\ o.doc = [d EXCEPT !.questions = Append(d.questions, q)]
      /\ o.texts = {}
  BY <1>2 DEF Outcome
<1>4. q \in Questions
  BY TextsGiven DEF Questions
<1>5. d.questions \in Seq(Questions)
  BY DEF Docs
<1>6. q.question = question /\ q.answer = None /\ q.status = "open"
  OBVIOUS
<1> HIDE DEF q
<1>7. Append(d.questions, q) \in Seq(Questions)
  BY <1>4, <1>5, AppendProperties
<1>8. o.doc \in Docs
  BY <1>3, <1>7, WithField
<1> QED
  BY <1>2, <1>3, <1>4, <1>6, <1>8 DEF QuestionIsOpened

LEMMA QuestionResolved ==
  ASSUME NEW d \in Docs, NEW T \in SUBSET Texts,
         NEW o \in ResolveQuestionCalls(d, T)
  PROVE  QuestionIsResolved(d, T, o)
<1>1. PICK i \in DOMAIN d.questions, answer \in T \cap Optional :
        o \in ResolveQuestion(d, i, answer)
  BY DEF ResolveQuestionCalls
<1> DEFINE old == d.questions[i]
           q == [old EXCEPT !.status = "resolved", !.answer = answer]
<1>2. /\ d.questions[i].status = "open"
      /\ o = Outcome([d EXCEPT !.questions[i] = q], {})
  BY <1>1 DEF ResolveQuestion, When, Refused
<1>3. /\ o.doc = [d EXCEPT !.questions = [d.questions EXCEPT ![i] = q]]
      /\ o.texts = {}
  BY <1>2 DEF Outcome
<1>4. d.questions \in Seq(Questions)
  BY DEF Docs
<1>5. i \in 1 .. Len(d.questions) /\ old \in Questions
  BY <1>4, LenProperties, ElementOfSeq
<1> HIDE DEF old
<1>6. /\ q \in Questions /\ q.status = "resolved" /\ q.answer = answer
      /\ q.question = old.question /\ q.blocking = old.blocking
  BY <1>5 DEF Questions
<1> HIDE DEF q
<1>7. [d.questions EXCEPT ![i] = q] \in Seq(Questions)
  BY <1>4, <1>5, <1>6, ExceptSeq
<1>8. o.doc \in Docs
  BY ZenonT(30), <1>3, <1>7, WithField
<1> QED
  BY <1>2, <1>3, <1>5, <1>6, <1>8 DEF QuestionIsResolved, old

LEMMA CriterionAdded ==
  ASSUME NEW d \in Docs, NEW T \in SUBSET Texts,
         NEW o \in AddCriterionCalls(d, T)
  PROVE  CriterionIsAdded(d, T, o)
<1>1. PICK statement \in T : o \in AddCriterion(d, statement)
  BY DEF AddCriterionCalls
<1> DEFINE c == [statement |-> statement, status |-> "pending",
                 refs |-> {}, waiverReason |-> None]
<1>2. /\ HasText(statement)
      /\ o = Outcome([d EXCEPT !.criteria = Append(@, c)], {})
  BY <1>1 DEF AddCriterion, When, Refused
<1>3. /\ o.doc = [d EXCEPT !.criteria = Append(d.criteria, c)]
      /\ o.texts = {}
  BY <1>2 DEF Outcome
<1>4. c \in Criteria
  BY TextsGiven DEF Criteria, Statuses
<1>5. d.criteria \in Seq(Criteria)
  BY DEF Docs
<1>6. /\ c.statement = statement /\ c.status = "pending" /\ c.refs = {}
      /\ c.waiverReason = None
  OBVIOUS
<1> HIDE DEF c
<1>7. Append(d.criteria, c) \in Seq(Criteria)
  BY <1>4, <1>5, AppendProperties
<1>8. o.doc \in Docs
  BY <1>3, <1>7, WithField
<1> QED
  BY <1>2, <1>3, <1>4, <1>6, <1>8 DEF CriterionIsAdded

LEMMA CriterionUpdated ==
  ASSUME NEW d \in Docs, NEW T \in SUBSET Texts,
         NEW o \in CriterionCalls(d, T)
  PROVE  CriterionIsUpdated(d, T, o)
<1>1. PICK i \in DOMAIN d.criteria, s \in StatusesRecorded, ref \in T,
           reason \in T \cap Optional :
        o \in UpdateCriterion(d, i, s, ref, reason)
  BY DEF CriterionCalls
<1> DEFINE old == d.criteria[i]
           refs == old.refs \cup ({ref} \ {None})
           kept == IF s = "waived" THEN reason ELSE old.waiverReason
           c == [old EXCEPT !.refs = refs, !.status = s,
                            !.waiverReason = kept]
<1>2. /\ s = "passed" => refs # {}
      /\ s = "waived" => HasText(reason)
      /\ o = Outcome([d EXCEPT !.criteria[i] = c], {})
  <2> DEFINE out == Outcome([d EXCEPT !.criteria[i] = c], {})
             may == /\ s = "passed" => refs # {}
                    /\ s = "waived" => HasText(reason)
  <2>1. UpdateCriterion(d, i, s, ref, reason) = When(may, out)
    BY <1>1 DEF UpdateCriterion
  <2> HIDE DEF out
  <2>2. may /\ o = out
    BY <1>1, <2>1 DEF When, Refused
  <2> QED
    BY <2>2 DEF out
<1>3. /\ o.doc = [d EXCEPT !.criteria = [d.criteria EXCEPT ![i] = c]]
      /\ o.texts = {}
  BY <1>2 DEF Outcome
<1>4. d.criteria \in Seq(Criteria)
  BY DEF Docs
<1>5. i \in 1 .. Len(d.criteria) /\ old \in Criteria
  BY <1>4, LenProperties, ElementOfSeq
<1>6. refs \in SUBSET Texts /\ kept \in Texts /\ s \in Statuses
  BY <1>5, DocumentAssumption DEF Criteria, Statuses
<1>7. /\ refs = old.refs \cup ({ref} \ {None})
      /\ kept = IF s = "waived" THEN reason ELSE old.waiverReason
  OBVIOUS
<1> HIDE DEF old, refs, kept
<1>8. /\ c \in Criteria /\ c.statement = old.statement /\ c.refs = refs
      /\ c.status = s /\ c.waiverReason = kept
  BY <1>5, <1>6 DEF Criteria
<1> HIDE DEF c
<1>9. [d.criteria EXCEPT ![i] = c] \in Seq(Criteria)
  BY <1>4, <1>5, <1>8, ExceptSeq
<1>10. o.doc \in Docs
  BY ZenonT(30), <1>3, <1>9, WithField
<1>11. /\ c.statement = d.criteria[i].statement
       /\ c.refs = d.criteria[i].refs \cup ({ref} \ {None})
       /\ c.status = "passed" => c.refs # {}
       /\ IF c.status = "waived"
          THEN HasText(c.waiverReason) /\ c.waiverReason \in T
          ELSE c.waiverReason = d.criteria[i].waiverReason
  BY <1>2, <1>7, <1>8 DEF old
<1> QED
  BY <1>3, <1>5, <1>8, <1>10, <1>11 DEF CriterionIsUpdated

LEMMA LeanGateRecorded ==
  ASSUME NEW d \in Docs, NEW T \in SUBSET Texts,
         NEW o \in LeanCalls(d, T)
  PROVE  LeanGateIsRecorded(d, T, o)
<1>1. PICK s \in {"passed", "failed"}, rung \in {None, "shrink-design"},
           decision \in T, rejected \in {{}} \cup {{t} : t \in T \ {None}},
           limits \in T \cap Optional, protected \in BOOLEAN :
        o \in RecordLeanGate(d, s, rung, decision, rejected, limits,
                             protected)
  BY DEF LeanCalls
<1> DEFINE kept == IF s = "passed" THEN rung ELSE None
           g == [status |-> s, rung |-> kept, decision |-> decision,
                 rejected |-> rejected, limits |-> limits]
<1>2. /\ s = "passed" => rung # None /\ HasText(decision)
      /\ o = Outcome([d EXCEPT !.leanGate = g], {})
  BY <1>1 DEF RecordLeanGate, When, Refused
<1>3. o.doc = [d EXCEPT !.leanGate = g] /\ o.texts = {}
  BY <1>2 DEF Outcome
<1>4. /\ kept \in {None, "shrink-design"}
      /\ s = "passed" => kept # None
      /\ rejected \in SUBSET Texts /\ rejected \subseteq T \ {None}
  BY <1>2
<1> HIDE DEF kept
<1>5. /\ g \in LeanGates /\ g.status = s /\ g.rung = kept
      /\ g.decision = decision /\ g.limits = limits
      /\ g.rejected = rejected
  BY <1>4 DEF LeanGates
<1> HIDE DEF g
<1>6. o.doc \in Docs
  BY <1>3, <1>5, WithField
<1> QED
  BY <1>2, <1>3, <1>4, <1>5, <1>6 DEF LeanGateIsRecorded

LEMMA ReviewRecorded ==
  ASSUME NEW d \in Docs, NEW T \in SUBSET Texts,
         NEW o \in ComplexityReviewCalls(d, T)
  PROVE  ReviewIsRecorded(d, T, o)
<1>1. PICK s \in {"passed", "waived"},
           findings \in {{}} \cup {{t} : t \in T \ {None}} :
        o \in RecordComplexityReview(d, s, findings)
  BY DEF ComplexityReviewCalls
<1> DEFINE r == [status |-> s, findings |-> findings]
<1>2. /\ \A f \in findings : HasText(f)
      /\ o = Outcome([d EXCEPT !.complexityReview = r], {})
  BY <1>1 DEF RecordComplexityReview, When, Refused
<1>3. o.doc = [d EXCEPT !.complexityReview = r] /\ o.texts = {}
  BY <1>2 DEF Outcome
<1>4. findings \in SUBSET Texts /\ findings \subseteq T
  OBVIOUS
<1>5. r \in Reviews /\ r.findings = findings
  BY <1>4 DEF Reviews
<1> HIDE DEF r
<1>6. o.doc \in Docs
  BY <1>3, <1>5, WithField
<1> QED
  BY <1>2, <1>3, <1>4, <1>5, <1>6 DEF ReviewIsRecorded

LEMMA EvidenceRecorded ==
  ASSUME NEW d \in Docs, NEW T \in SUBSET Texts,
         NEW o \in EvidenceCalls(d, T)
  PROVE  EvidenceIsRecorded(d, T, o)
<1>1. PICK k \in Kinds, s \in StatusesRecorded, ref \in T,
           note \in T \cap Optional, reason \in T \cap Optional :
        o \in RecordEvidence(d, k, s, ref, note, reason)
  BY DEF EvidenceCalls
<1> DEFINE kept == IF s = "waived" THEN reason ELSE None
           item == [status |-> s, ref |-> ref, note |-> note,
                    waiverReason |-> kept]
           old == d.evidence[k]
           g == [status |-> s, items |-> Append(old.items, item)]
<1>2. /\ HasText(ref)
      /\ s = "waived" => HasText(reason)
      /\ o = Outcome([d EXCEPT !.evidence[k] = g], {ref})
  BY <1>1 DEF RecordEvidence, When, Refused
<1>3. /\ o.doc = [d EXCEPT !.evidence = [d.evidence EXCEPT ![k] = g]]
      /\ o.texts = {ref}
  BY <1>2 DEF Outcome
<1>4. /\ s \in Statuses /\ kept \in Texts
      /\ kept = IF s = "waived" THEN reason ELSE None
  BY TextsGiven, DocumentAssumption DEF Statuses
<1> HIDE DEF kept
<1>5. /\ item \in Items /\ item.status = s /\ item.ref = ref
      /\ item.note = note /\ item.waiverReason = kept
  BY <1>4 DEF Items
<1>6. d.evidence \in [Kinds -> Groups] /\ old.items \in Seq(Items)
  BY DEF Docs, Groups
<1> HIDE DEF item
<1>7. Append(old.items, item) \in Seq(Items)
  BY <1>5, <1>6, AppendProperties
<1>8. g \in Groups /\ g.status = s /\ g.items = Append(old.items, item)
  BY <1>4, <1>7 DEF Groups
<1> HIDE DEF g
<1>9. [d.evidence EXCEPT ![k] = g] \in [Kinds -> Groups]
  BY <1>6, <1>8
<1>10. o.doc \in Docs
  BY ZenonT(30), <1>3, <1>9, WithField
<1>11. g.status = item.status /\ g.items = Append(d.evidence[k].items, item)
  BY <1>5, <1>8
<1>12. IF item.status = "waived"
       THEN HasText(item.waiverReason) /\ item.waiverReason \in T
       ELSE item.waiverReason = None
  BY <1>2, <1>4, <1>5
<1>13. {item.ref, item.note} \subseteq T /\ item.status \in StatusesRecorded
  BY <1>1, <1>5
<1>14. HasText(item.ref) /\ o.texts = {item.ref}
  BY <1>2, <1>3, <1>5
<1> QED
  BY <1>3, <1>5, <1>8, <1>10, <1>11, <1>12, <1>13, <1>14
     DEF EvidenceIsRecorded

\* The calls of every operation, and what any of them does.
Calls(d, T) ==
  SetGoalCalls(d, T) \cup LinkArtifactCalls(d, T) \cup DecideCalls(d, T)
  \cup AskCalls(d, T) \cup ResolveQuestionCalls(d, T)
  \cup AddCriterionCalls(d, T) \cup CriterionCalls(d, T)
  \cup LeanCalls(d, T) \cup ComplexityReviewCalls(d, T)
  \cup EvidenceCalls(d, T)

Effect(d, T, o) ==
  \/ GoalIsSet(d, T, o) \/ ArtifactIsLinked(d, T, o)
  \/ DecisionIsRecorded(d, T, o) \/ QuestionIsOpened(d, T, o)
  \/ QuestionIsResolved(d, T, o) \/ CriterionIsAdded(d, T, o)
  \/ CriterionIsUpdated(d, T, o) \/ LeanGateIsRecorded(d, T, o)
  \/ ReviewIsRecorded(d, T, o) \/ EvidenceIsRecorded(d, T, o)

LEMMA CallHasEffect ==
  ASSUME NEW d \in Docs, NEW T \in SUBSET Texts, NEW o \in Calls(d, T)
  PROVE  Effect(d, T, o)
<1>1. \/ o \in SetGoalCalls(d, T) \/ o \in LinkArtifactCalls(d, T)
      \/ o \in DecideCalls(d, T) \/ o \in AskCalls(d, T)
      \/ o \in ResolveQuestionCalls(d, T) \/ o \in AddCriterionCalls(d, T)
      \/ o \in CriterionCalls(d, T) \/ o \in LeanCalls(d, T)
      \/ o \in ComplexityReviewCalls(d, T) \/ o \in EvidenceCalls(d, T)
  BY DEF Calls
<1> QED
  BY <1>1, GoalSet, ArtifactLinked, DecisionRecorded, QuestionOpened,
     QuestionResolved, CriterionAdded, CriterionUpdated, LeanGateRecorded,
     ReviewRecorded, EvidenceRecorded DEF Effect

\* Each field belongs to the operations that are for it.
LEMMA FieldsKept ==
  ASSUME NEW d \in Docs, NEW T \in SUBSET Texts, NEW o, Effect(d, T, o)
  PROVE  /\ o.doc \in Docs
         /\ o.doc.revision = d.revision
         /\ o.doc.goal # d.goal => GoalIsSet(d, T, o)
         /\ o.doc.artifact # d.artifact => ArtifactIsLinked(d, T, o)
         /\ o.doc.decisions # d.decisions => DecisionIsRecorded(d, T, o)
         /\ o.doc.questions # d.questions =>
              QuestionIsOpened(d, T, o) \/ QuestionIsResolved(d, T, o)
         /\ o.doc.criteria # d.criteria =>
              CriterionIsAdded(d, T, o) \/ CriterionIsUpdated(d, T, o)
         /\ o.doc.leanGate # d.leanGate => LeanGateIsRecorded(d, T, o)
         /\ o.doc.evidence # d.evidence => EvidenceIsRecorded(d, T, o)
         /\ o.doc.complexityReview # d.complexityReview =>
              ReviewIsRecorded(d, T, o)
<1> DEFINE Base == o.doc \in Docs /\ o.doc.revision = d.revision
           Kept(g, a, ds, qs, cs, l, e, r) ==
             /\ Base
             /\ g \/ o.doc.goal = d.goal
             /\ a \/ o.doc.artifact = d.artifact
             /\ ds \/ o.doc.decisions = d.decisions
             /\ qs \/ o.doc.questions = d.questions
             /\ cs \/ o.doc.criteria = d.criteria
             /\ l \/ o.doc.leanGate = d.leanGate
             /\ e \/ o.doc.evidence = d.evidence
             /\ r \/ o.doc.complexityReview = d.complexityReview
<1>1. CASE GoalIsSet(d, T, o)
  <2>1. Kept(TRUE, FALSE, FALSE, FALSE, FALSE, FALSE, FALSE, FALSE)
    BY <1>1 DEF GoalIsSet, Docs
  <2> QED
    BY <1>1, <2>1
<1>2. CASE ArtifactIsLinked(d, T, o)
  <2>1. Kept(FALSE, TRUE, FALSE, FALSE, FALSE, FALSE, FALSE, FALSE)
    BY <1>2 DEF ArtifactIsLinked, Docs
  <2> QED
    BY <1>2, <2>1
<1>3. CASE DecisionIsRecorded(d, T, o)
  <2>1. Kept(FALSE, FALSE, TRUE, FALSE, FALSE, FALSE, FALSE, FALSE)
    BY <1>3 DEF DecisionIsRecorded, Docs
  <2> QED
    BY <1>3, <2>1
<1>4. CASE QuestionIsOpened(d, T, o) \/ QuestionIsResolved(d, T, o)
  <2>1. Kept(FALSE, FALSE, FALSE, TRUE, FALSE, FALSE, FALSE, FALSE)
    BY <1>4 DEF QuestionIsOpened, QuestionIsResolved, Docs
  <2> QED
    BY <1>4, <2>1
<1>5. CASE CriterionIsAdded(d, T, o) \/ CriterionIsUpdated(d, T, o)
  <2>1. Kept(FALSE, FALSE, FALSE, FALSE, TRUE, FALSE, FALSE, FALSE)
    BY <1>5 DEF CriterionIsAdded, CriterionIsUpdated, Docs
  <2> QED
    BY <1>5, <2>1
<1>6. CASE LeanGateIsRecorded(d, T, o)
  <2>1. Kept(FALSE, FALSE, FALSE, FALSE, FALSE, TRUE, FALSE, FALSE)
    BY <1>6 DEF LeanGateIsRecorded, Docs
  <2> QED
    BY <1>6, <2>1
<1>7. CASE ReviewIsRecorded(d, T, o)
  <2>1. Kept(FALSE, FALSE, FALSE, FALSE, FALSE, FALSE, FALSE, TRUE)
    BY <1>7 DEF ReviewIsRecorded, Docs
  <2> QED
    BY <1>7, <2>1
<1>8. CASE EvidenceIsRecorded(d, T, o)
  <2>1. Kept(FALSE, FALSE, FALSE, FALSE, FALSE, FALSE, TRUE, FALSE)
    BY <1>8 DEF EvidenceIsRecorded, Docs
  <2> QED
    BY <1>8, <2>1
<1> QED
  BY <1>1, <1>2, <1>3, <1>4, <1>5, <1>6, <1>7, <1>8 DEF Effect

-----------------------------------------------------------------------------
(* The invariant of the document.                                          *)

ArtifactPortable(a) == Portable(a.id) /\ Portable(a.url) /\ Portable(a.reason)

DocInv ==
  /\ doc \in Docs
  /\ ValidState(doc)
  /\ ArtifactPortable(doc.artifact)
  /\ \A t \in ledger : Portable(t)
  /\ SupersededLeadsOn
  /\ Len(doc.questions) < doc.revision
  /\ Len(doc.criteria) < doc.revision

LEMMA KindsGiven == Kinds = RequiredCheckKinds \cup {"review", "ship"}
BY DEF Kinds, Abstract!EvidenceKinds

LEMMA DocInvInit == Init => DocInv
<1> SUFFICES ASSUME Init PROVE DocInv
  OBVIOUS
<1>1. doc = InitialDoc /\ ledger = {}
  BY DEF Init
<1>2. /\ InitialDoc.leanGate \in LeanGates
      /\ InitialDoc.complexityReview \in Reviews
  BY TextsGiven DEF InitialDoc, LeanGates, Reviews
<1>3. InitialDoc.evidence \in [Kinds -> Groups]
  <2>1. \A k \in Kinds :
          Abstract!InitialStatus(k)
            \in {"not-configured", "missing", "pending"}
    BY DEF Abstract!InitialStatus
  <2>2. \A k \in Kinds :
          [status |-> Abstract!InitialStatus(k), items |-> <<>>] \in Groups
    BY <2>1, EmptySeq DEF Groups, Statuses
  <2> QED
    BY <2>2, Zenon DEF InitialDoc
<1>4. \A k \in Kinds : InitialDoc.evidence[k].items = <<>>
  BY DEF InitialDoc
<1>5. /\ InitialDoc.decisions = <<>> /\ InitialDoc.questions = <<>>
      /\ InitialDoc.criteria = <<>> /\ InitialDoc.goal = None
      /\ InitialDoc.artifact = NoArtifact /\ InitialDoc.revision = 1
  BY DEF InitialDoc
<1>6. InitialDoc \in Docs
  <2>1. ASSUME NEW r \in Nat, NEW g \in Texts, NEW a \in Artifacts,
               NEW ds \in Seq(Decisions), NEW qs \in Seq(Questions),
               NEW cs \in Seq(Criteria), NEW l \in LeanGates,
               NEW e \in [Kinds -> Groups], NEW w \in Reviews
        PROVE  [revision |-> r, goal |-> g, artifact |-> a,
                decisions |-> ds, questions |-> qs, criteria |-> cs,
                leanGate |-> l, evidence |-> e, complexityReview |-> w]
                 \in Docs
    BY DEF Docs
  <2>2. /\ <<>> \in Seq(Decisions) /\ <<>> \in Seq(Questions)
        /\ <<>> \in Seq(Criteria) /\ 1 \in Nat
    BY EmptySeq
  <2>3. [revision |-> 1, goal |-> None, artifact |-> NoArtifact,
         decisions |-> <<>>, questions |-> <<>>, criteria |-> <<>>,
         leanGate |-> InitialDoc.leanGate, evidence |-> InitialDoc.evidence,
         complexityReview |-> InitialDoc.complexityReview] \in Docs
    BY <1>2, <1>3, <2>1, <2>2, TextsGiven, NoArtifactTyped
  <2> QED
    BY <2>3 DEF InitialDoc
<1>7. /\ DOMAIN doc.decisions = {} /\ DOMAIN doc.questions = {}
      /\ DOMAIN doc.criteria = {}
      /\ Len(doc.questions) = 0 /\ Len(doc.criteria) = 0
      /\ \A k \in Kinds : DOMAIN doc.evidence[k].items = {}
  BY <1>1, <1>4, <1>5
<1>8. ValidState(doc)
  <2>1. LeanGateOK(doc.leanGate) /\ doc.complexityReview.findings = {}
    BY <1>1, TextsGiven DEF InitialDoc, LeanGateOK
  <2>2. Portable(doc.goal) /\ ArtifactOK(doc.artifact)
    BY <1>1, <1>5, TextsGiven, NoArtifactTyped DEF ArtifactOK
  <2> QED
    BY <1>7, <2>1, <2>2 DEF ValidState
<1>9. SupersededLeadsOn
  BY <1>7 DEF SupersededLeadsOn
<1> QED
  BY <1>1, <1>5, <1>6, <1>7, <1>8, <1>9, TextsGiven, NoArtifactTyped
     DEF DocInv, ArtifactPortable

\* A step of the specification: a transition, or one outcome of a command
\* that the schema and the ledger accept.
OperationTaken ==
  \E o :
    /\ doc.revision < MaxRevision
    /\ Effect(doc, Texts, o) /\ Accepts(o)
    /\ doc' = [o.doc EXCEPT !.revision = @ + 1]
    /\ ledger' = ledger \cup o.texts
    /\ UNCHANGED place

LEMMA StepIs ==
  ASSUME doc \in Docs, Next
  PROVE  Transition \/ OperationTaken
<1>1. ASSUME NEW C, C \subseteq Calls(doc, Texts), Mutate(C)
      PROVE  OperationTaken
  <2>1. PICK o \in C : /\ Accepts(o)
                       /\ doc' = [o.doc EXCEPT !.revision = @ + 1]
                       /\ ledger' = ledger \cup o.texts
    BY <1>1 DEF Mutate
  <2>2. Effect(doc, Texts, o)
    BY <1>1, CallHasEffect
  <2> QED
    BY <1>1, <2>1, <2>2 DEF Mutate, OperationTaken
<1>2. \/ Transition
      \/ \E C : C \subseteq Calls(doc, Texts) /\ Mutate(C)
  BY DEF Next, Calls
<1> QED
  BY <1>1, <1>2

\* The next revision of a document differs from it in the revision only.
LEMMA NextRevision ==
  ASSUME NEW d \in Docs, NEW e, e = [d EXCEPT !.revision = @ + 1]
  PROVE  /\ e \in Docs /\ e.revision = d.revision + 1
         /\ e.goal = d.goal /\ e.artifact = d.artifact
         /\ e.decisions = d.decisions /\ e.questions = d.questions
         /\ e.criteria = d.criteria /\ e.leanGate = d.leanGate
         /\ e.evidence = d.evidence
         /\ e.complexityReview = d.complexityReview
<1>1. d.revision \in Nat /\ d.revision + 1 \in Nat
  BY DEF Docs
<1>2. \A r \in Nat : [d EXCEPT !.revision = r] \in Docs
  BY DEF Docs
<1> QED
  BY <1>1, <1>2 DEF Docs

\* So the schema says the same of both.
LEMMA NextRevisionValid ==
  ASSUME NEW d \in Docs, NEW e, e = [d EXCEPT !.revision = @ + 1]
  PROVE  ValidState(e) <=> ValidState(d)
BY NextRevision DEF ValidState

\* At most one question and one criterion are added.
LEMMA OneMore ==
  ASSUME NEW d \in Docs, NEW T \in SUBSET Texts, NEW o, Effect(d, T, o)
  PROVE  /\ Len(d.questions) \in Nat /\ Len(d.criteria) \in Nat
         /\ Len(o.doc.questions) \in Len(d.questions) .. Len(d.questions) + 1
         /\ Len(o.doc.criteria) \in Len(d.criteria) .. Len(d.criteria) + 1
<1>1. d.questions \in Seq(Questions) /\ d.criteria \in Seq(Criteria)
  BY DEF Docs
<1>2. Len(d.questions) \in Nat /\ Len(d.criteria) \in Nat
  BY <1>1, LenProperties
<1>3. Len(o.doc.questions) \in Len(d.questions) .. Len(d.questions) + 1
  <2>1. CASE o.doc.questions = d.questions
    BY <1>2, <2>1
  <2>2. CASE QuestionIsOpened(d, T, o)
    <3>1. PICK q \in Questions :
            o.doc = [d EXCEPT !.questions = Append(d.questions, q)]
      BY <2>2 DEF QuestionIsOpened
    <3>2. o.doc.questions = Append(d.questions, q)
      BY <3>1 DEF Docs
    <3> QED
      BY <1>1, <1>2, <3>2, AppendProperties
  <2>3. CASE QuestionIsResolved(d, T, o)
    <3>1. PICK i \in 1 .. Len(d.questions), q \in Questions :
            o.doc = [d EXCEPT !.questions = [d.questions EXCEPT ![i] = q]]
      BY <2>3 DEF QuestionIsResolved
    <3>2. o.doc.questions = [d.questions EXCEPT ![i] = q]
      BY <3>1 DEF Docs
    <3> QED
      BY <1>1, <1>2, <3>2, ExceptSeq
  <2> QED
    BY <2>1, <2>2, <2>3, FieldsKept
<1>4. Len(o.doc.criteria) \in Len(d.criteria) .. Len(d.criteria) + 1
  <2>1. CASE o.doc.criteria = d.criteria
    BY <1>2, <2>1
  <2>2. CASE CriterionIsAdded(d, T, o)
    <3>1. PICK q \in Criteria :
            o.doc = [d EXCEPT !.criteria = Append(d.criteria, q)]
      BY <2>2 DEF CriterionIsAdded
    <3>2. o.doc.criteria = Append(d.criteria, q)
      BY <3>1 DEF Docs
    <3> QED
      BY <1>1, <1>2, <3>2, AppendProperties
  <2>3. CASE CriterionIsUpdated(d, T, o)
    <3>1. PICK i \in 1 .. Len(d.criteria), q \in Criteria :
            o.doc = [d EXCEPT !.criteria = [d.criteria EXCEPT ![i] = q]]
      BY <2>3 DEF CriterionIsUpdated
    <3>2. o.doc.criteria = [d.criteria EXCEPT ![i] = q]
      BY <3>1 DEF Docs
    <3> QED
      BY <1>1, <1>2, <3>2, ExceptSeq
  <2> QED
    BY <2>1, <2>2, <2>3, FieldsKept
<1> QED
  BY <1>2, <1>3, <1>4

LEMMA LinkedIsPortable ==
  ASSUME NEW d \in Docs, NEW T \in SUBSET Texts, NEW o,
         ArtifactIsLinked(d, T, o), ArtifactOK(o.doc.artifact)
  PROVE  ArtifactPortable(o.doc.artifact)
<1>1. PICK a \in Artifacts :
        /\ a.type # None
        /\ IF a.type = "waived"
           THEN HasText(a.reason) /\ a.id = None /\ a.url = None
           ELSE HasText(a.id) /\ a.reason = None
        /\ o.doc = [d EXCEPT !.artifact = a]
  BY DEF ArtifactIsLinked
<1>2. o.doc.artifact = a
  BY <1>1 DEF Docs
<1> QED
  BY <1>1, <1>2, TextsGiven
     DEF ArtifactOK, ArtifactPortable, Required, Portable, None, Plain, Local

\* Decisions after a step: each is the old one or the old one superseded by
\* the last; only one is added.
DecisionsGrow(old, new) ==
  \/ new = old
  \/ /\ Len(new) = Len(old) + 1
     /\ \A i \in 1 .. Len(old) :
          new[i] = old[i] \/ new[i] = Superseded(old[i], Len(old) + 1)
     /\ new[Len(new)].status = "accepted"
     /\ new[Len(new)].supersededBy = 0

LEMMA DecisionsOnlyGrow ==
  ASSUME NEW d \in Docs, NEW T \in SUBSET Texts, NEW o, Effect(d, T, o)
  PROVE  DecisionsGrow(d.decisions, o.doc.decisions)
<1>1. CASE DecisionIsRecorded(d, T, o)
  <2>1. PICK ds \in Seq(Decisions), statement \in T, reason \in T :
          /\ Len(ds) = Len(d.decisions) + 1
          /\ \A i \in 1 .. Len(d.decisions) :
               \/ ds[i] = d.decisions[i]
               \/ ds[i] = Superseded(d.decisions[i], Len(d.decisions) + 1)
          /\ ds[Len(ds)] = NewDecision(statement, reason)
          /\ o.doc = [d EXCEPT !.decisions = ds]
    BY <1>1 DEF DecisionIsRecorded
  <2>2. o.doc.decisions = ds
    BY <2>1 DEF Docs
  <2>3. /\ ds[Len(ds)].status = "accepted"
        /\ ds[Len(ds)].supersededBy = 0
    BY <2>1 DEF NewDecision
  <2> QED
    BY <2>1, <2>2, <2>3 DEF DecisionsGrow
<1> QED
  BY <1>1, FieldsKept DEF DecisionsGrow

LEMMA LeadsOnKept ==
  ASSUME doc \in Docs, doc' \in Docs, SupersededLeadsOn,
         DecisionsGrow(doc.decisions, doc'.decisions)
  PROVE  SupersededLeadsOn'
<1> DEFINE old == doc.decisions
           new == doc'.decisions
<1>1. old \in Seq(Decisions) /\ new \in Seq(Decisions)
  BY DEF Docs
<1>2. /\ Len(old) \in Nat /\ DOMAIN old = 1 .. Len(old)
      /\ Len(new) \in Nat /\ DOMAIN new = 1 .. Len(new)
      /\ \A i \in 1 .. Len(old) : old[i] \in Decisions
  BY <1>1, LenProperties, ElementOfSeq
<1>3. \A i \in 1 .. Len(old) :
        IF old[i].status = "superseded"
        THEN old[i].supersededBy \in (i + 1) .. Len(old)
        ELSE old[i].supersededBy = 0
  BY <1>2 DEF SupersededLeadsOn
<1>4. CASE new = old
  BY <1>4 DEF SupersededLeadsOn
<1>5. CASE /\ Len(new) = Len(old) + 1
           /\ \A i \in 1 .. Len(old) :
                new[i] = old[i] \/ new[i] = Superseded(old[i], Len(old) + 1)
           /\ new[Len(new)].status = "accepted"
           /\ new[Len(new)].supersededBy = 0
  <2>1. ASSUME NEW i \in 1 .. Len(new)
        PROVE  IF new[i].status = "superseded"
               THEN new[i].supersededBy \in (i + 1) .. Len(new)
               ELSE new[i].supersededBy = 0
    <3>1. CASE i = Len(new)
      BY <1>5, <3>1
    <3>2. CASE i # Len(new)
      <4>1. i \in 1 .. Len(old)
        BY <1>2, <1>5, <3>2
      <4>2. CASE new[i] = old[i]
        BY <1>2, <1>3, <1>5, <4>1, <4>2
      <4>3. CASE new[i] = Superseded(old[i], Len(old) + 1)
        <5>1. /\ new[i].status = "superseded"
              /\ new[i].supersededBy = Len(old) + 1
          <6> DEFINE n == Len(old) + 1
          <6>1. n \in Nat /\ old[i] \in Decisions
            BY <1>2, <4>1
          <6>2. new[i] = Superseded(old[i], n)
            BY <4>3
          <6> HIDE DEF n
          <6>3. /\ Superseded(old[i], n).status = "superseded"
                /\ Superseded(old[i], n).supersededBy = n
            BY <6>1, SupersededTyped
          <6>4. new[i].status = "superseded" /\ new[i].supersededBy = n
            BY <6>2, <6>3
          <6> QED
            BY <6>4 DEF n
        <5> QED
          BY <1>2, <1>5, <4>1, <5>1
      <4> QED
        BY <1>5, <4>1, <4>2, <4>3
    <3> QED
      BY <3>1, <3>2
  <2> QED
    BY <1>2, <2>1 DEF SupersededLeadsOn
<1> QED
  BY <1>4, <1>5 DEF DecisionsGrow

LEMMA DocInvStep == DocInv /\ [Next]_vars => DocInv'
<1> SUFFICES ASSUME DocInv, [Next]_vars PROVE DocInv'
  OBVIOUS
<1> USE DEF DocInv
<1>1. CASE Transition
  <2>1. PICK texts :
          /\ \A t \in texts : Portable(t)
          /\ doc' = [doc EXCEPT !.revision = @ + 1]
          /\ ledger' = ledger \cup texts
    BY <1>1 DEF Transition, Accepts, Outcome
  <2>2. doc' \in Docs /\ ValidState(doc')
    BY <2>1, NextRevision, NextRevisionValid
  <2>3. /\ doc'.revision = doc.revision + 1
        /\ doc'.artifact = doc.artifact /\ doc'.decisions = doc.decisions
        /\ doc'.questions = doc.questions /\ doc'.criteria = doc.criteria
    BY <2>1, NextRevision
  <2>4. SupersededLeadsOn'
    BY <2>2, <2>3, LeadsOnKept DEF DecisionsGrow
  <2>5. /\ doc.questions \in Seq(Questions) /\ doc.criteria \in Seq(Criteria)
        /\ doc.revision \in Nat
    BY DEF Docs
  <2>6. /\ Len(doc'.questions) < doc'.revision
        /\ Len(doc'.criteria) < doc'.revision
    BY <2>3, <2>5, LenProperties
  <2> QED
    BY <2>1, <2>2, <2>3, <2>4, <2>6
<1>2. CASE OperationTaken
  <2>1. PICK o : /\ Effect(doc, Texts, o) /\ Accepts(o)
                 /\ doc' = [o.doc EXCEPT !.revision = @ + 1]
                 /\ ledger' = ledger \cup o.texts
    BY <1>2 DEF OperationTaken
  <2>2. Texts \in SUBSET Texts
    OBVIOUS
  <2>3. o.doc \in Docs /\ o.doc.revision = doc.revision
    BY <2>1, <2>2, FieldsKept
  <2>4. doc' \in Docs /\ ValidState(doc')
    BY <2>1, <2>3, NextRevision, NextRevisionValid DEF Accepts
  <2>5. /\ doc'.revision = doc.revision + 1
        /\ doc'.artifact = o.doc.artifact
        /\ doc'.decisions = o.doc.decisions
        /\ doc'.questions = o.doc.questions
        /\ doc'.criteria = o.doc.criteria
    BY <2>1, <2>3, NextRevision
  <2>6. ArtifactPortable(doc'.artifact)
    <3>1. ArtifactOK(o.doc.artifact)
      BY <2>1 DEF Accepts, ValidState
    <3>2. CASE o.doc.artifact = doc.artifact
      BY <2>5, <3>2
    <3>3. CASE ArtifactIsLinked(doc, Texts, o)
      BY <2>5, <3>1, <3>3, LinkedIsPortable
    <3> QED
      BY <2>1, <3>2, <3>3, FieldsKept
  <2>7. \A t \in ledger' : Portable(t)
    BY <2>1 DEF Accepts
  <2>8. SupersededLeadsOn'
    <3>1. DecisionsGrow(doc.decisions, doc'.decisions)
      BY <2>1, <2>2, <2>5, DecisionsOnlyGrow
    <3> QED
      BY <2>4, <3>1, LeadsOnKept
  <2>9. /\ Len(doc'.questions) < doc'.revision
        /\ Len(doc'.criteria) < doc'.revision
    <3>1. doc.revision \in Nat
      BY DEF Docs
    <3>2. /\ Len(doc.questions) \in Nat /\ Len(doc.criteria) \in Nat
          /\ Len(o.doc.questions)
               \in Len(doc.questions) .. Len(doc.questions) + 1
          /\ Len(o.doc.criteria)
               \in Len(doc.criteria) .. Len(doc.criteria) + 1
      BY <2>1, <2>2, OneMore
    <3> QED
      BY SMTT(20), <2>5, <3>1, <3>2
  <2> QED
    BY <2>4, <2>6, <2>7, <2>8, <2>9
<1>3. CASE UNCHANGED vars
  BY <1>3 DEF vars, SupersededLeadsOn
<1> QED
  BY <1>1, <1>2, <1>3, StepIs

LEMMA DocInvHolds == Spec => []DocInv
BY DocInvInit, DocInvStep, PTL DEF Spec

\* A superseded decision always names a later one (RecordDecision).
THEOREM SupersededLead == Spec => []SupersededLeadsOn
<1>1. DocInv => SupersededLeadsOn
  BY DEF DocInv
<1> QED
  BY <1>1, DocInvHolds, PTL

\* No text with a machine path or a credential in it is ever on record.
THEOREM PersistedPortable == Spec => []PersistedIsPortable
<1>1. DocInv => PersistedIsPortable
  <2> SUFFICES ASSUME DocInv PROVE PersistedIsPortable
    OBVIOUS
  <2> USE DEF DocInv
  <2>1. \A t \in Texts : Required(t) => t # Local
    BY DEF Required, Plain, Local
  <2>2. ASSUME NEW S, NEW s \in Seq(S), NEW x \in Range(s)
        PROVE  \E i \in DOMAIN s : x = s[i]
    BY DEF Range
  <2>3. Local \notin {doc.goal, doc.artifact.id, doc.artifact.url,
                      doc.artifact.reason}
    BY DEF ValidState, ArtifactPortable, Portable
  <2>4. \A x \in Range(doc.decisions) : Local \notin {x.statement, x.reason}
    <3>1. \A x \in Range(doc.decisions) : DecisionOK(x)
      BY <2>2 DEF ValidState, Docs
    <3> QED
      BY <3>1 DEF DecisionOK, Required, Portable, Plain, Local
  <2>5. \A x \in Range(doc.questions) : Local \notin {x.question, x.answer}
    <3>1. \A x \in Range(doc.questions) : QuestionOK(x)
      BY <2>2 DEF ValidState, Docs
    <3> QED
      BY <3>1 DEF QuestionOK, Required, Portable, Plain, Local
  <2>6. \A x \in Range(doc.criteria) :
          Local \notin {x.statement, x.waiverReason} \cup x.refs
    <3>1. \A x \in Range(doc.criteria) : CriterionOK(x)
      BY <2>2 DEF ValidState, Docs
    <3> QED
      BY <3>1 DEF CriterionOK, Required, Portable, Plain, Local
  <2>7. \A k \in Kinds : \A x \in Range(doc.evidence[k].items) :
          Local \notin {x.ref, x.note, x.waiverReason}
    <3>1. \A k \in Kinds : \A x \in Range(doc.evidence[k].items) :
            EvidenceItemOK(x)
      BY <2>2 DEF ValidState, Docs, Groups
    <3> QED
      BY <3>1 DEF EvidenceItemOK, Required, Portable, Plain, Local
  <2>8. Local \notin {doc.leanGate.decision, doc.leanGate.limits}
                       \cup doc.leanGate.rejected
                       \cup doc.complexityReview.findings
    BY DEF ValidState, LeanGateOK, Required, Portable, Plain, Local
  <2>9. Local \notin ledger
    BY DEF Portable
  <2> QED
    BY <2>3, <2>4, <2>5, <2>6, <2>7, <2>8, <2>9 DEF PersistedIsPortable
<1> QED
  BY <1>1, DocInvHolds, PTL

\* What an operation accepts of good texts, the schema accepts.
LEMMA EffectMeetsSchema ==
  ASSUME NEW d \in Docs, ValidState(d), NEW o,
         Effect(d, {None, Plain}, o)
  PROVE  Accepts(o)
<1> DEFINE T == {None, Plain}
<1>1. T \in SUBSET Texts
  BY DEF Texts
<1>2. \A t \in T : /\ Portable(t)
                   /\ HasText(t) => Required(t)
                   /\ t # None => Required(t)
  BY DEF Portable, HasText, Required, None, Plain, Local
<1> HIDE DEF T
<1>3. Effect(d, T, o)
  BY DEF T
<1>4. o.doc \in Docs
  BY <1>1, <1>3, FieldsKept
<1>5. Portable(o.doc.goal)
  <2>1. CASE GoalIsSet(d, T, o)
    BY <1>2, <2>1 DEF GoalIsSet, Docs
  <2>2. CASE o.doc.goal = d.goal
    BY <2>2 DEF ValidState
  <2> QED
    BY <1>1, <1>3, <2>1, <2>2, FieldsKept
<1>6. ArtifactOK(o.doc.artifact)
  <2>1. CASE ArtifactIsLinked(d, T, o)
    <3>1. PICK a \in Artifacts :
            /\ IF a.type = "waived"
               THEN HasText(a.reason) /\ a.id = None /\ a.url = None
               ELSE HasText(a.id) /\ a.reason = None
            /\ {a.id, a.url, a.reason} \subseteq T \cup {None}
            /\ o.doc = [d EXCEPT !.artifact = a]
      BY <2>1 DEF ArtifactIsLinked
    <3>2. o.doc.artifact = a
      BY <3>1 DEF Docs
    <3>3. {a.id, a.url, a.reason} \subseteq T
      BY <3>1 DEF T
    <3> QED
      BY <1>2, <3>1, <3>2, <3>3 DEF ArtifactOK
  <2>2. CASE o.doc.artifact = d.artifact
    BY <2>2 DEF ValidState
  <2> QED
    BY <1>1, <1>3, <2>1, <2>2, FieldsKept
<1>7. \A i \in DOMAIN o.doc.decisions : DecisionOK(o.doc.decisions[i])
  <2>1. CASE DecisionIsRecorded(d, T, o)
    <3>1. PICK ds \in Seq(Decisions), statement \in T, reason \in T :
            /\ HasText(statement)
            /\ Len(ds) = Len(d.decisions) + 1
            /\ \A i \in 1 .. Len(d.decisions) :
                 \/ ds[i] = d.decisions[i]
                 \/ ds[i] = Superseded(d.decisions[i], Len(d.decisions) + 1)
            /\ ds[Len(ds)] = NewDecision(statement, reason)
            /\ o.doc = [d EXCEPT !.decisions = ds]
      BY <2>1 DEF DecisionIsRecorded
    <3>2. o.doc.decisions = ds
      BY <3>1 DEF Docs
    <3>3. DecisionOK(NewDecision(statement, reason))
      BY <1>2, <3>1 DEF DecisionOK, NewDecision
    <3>4. /\ d.decisions \in Seq(Decisions)
          /\ DOMAIN d.decisions = 1 .. Len(d.decisions)
          /\ DOMAIN ds = 1 .. Len(ds) /\ Len(d.decisions) \in Nat
      BY LenProperties DEF Docs
    <3>5. ASSUME NEW i \in 1 .. Len(d.decisions)
          PROVE  DecisionOK(ds[i])
      <4>1. d.decisions[i] \in Decisions /\ DecisionOK(d.decisions[i])
        BY <3>4, ElementOfSeq DEF ValidState
      <4>2. \A n : /\ Superseded(d.decisions[i], n).statement
                        = d.decisions[i].statement
                   /\ Superseded(d.decisions[i], n).reason
                        = d.decisions[i].reason
        BY <4>1 DEF Superseded, Decisions
      <4>3. \A n : DecisionOK(Superseded(d.decisions[i], n))
        BY <4>1, <4>2 DEF DecisionOK
      <4> QED
        BY <3>1, <4>1, <4>3
    <3>6. \A i \in 1 .. Len(ds) :
            i \in 1 .. Len(d.decisions) \/ i = Len(ds)
      BY <3>1, <3>4
    <3> QED
      BY <3>1, <3>2, <3>3, <3>4, <3>5, <3>6
  <2>2. CASE o.doc.decisions = d.decisions
    BY <2>2 DEF ValidState
  <2> QED
    BY <1>1, <1>3, <2>1, <2>2, FieldsKept
<1>8. \A i \in DOMAIN o.doc.questions : QuestionOK(o.doc.questions[i])
  <2>1. /\ d.questions \in Seq(Questions)
        /\ DOMAIN d.questions = 1 .. Len(d.questions)
        /\ \A i \in 1 .. Len(d.questions) : QuestionOK(d.questions[i])
    BY LenProperties DEF Docs, ValidState
  <2>2. CASE QuestionIsOpened(d, T, o)
    <3>1. PICK q \in Questions :
            /\ HasText(q.question) /\ q.question \in T /\ q.answer = None
            /\ o.doc = [d EXCEPT !.questions = Append(d.questions, q)]
      BY <2>2 DEF QuestionIsOpened
    <3>2. o.doc.questions = Append(d.questions, q)
      BY <3>1 DEF Docs
    <3>3. QuestionOK(q)
      BY <1>2, <3>1, TextsGiven DEF QuestionOK
    <3> QED
      BY <2>1, <3>2, <3>3, AppendProperties
  <2>3. CASE QuestionIsResolved(d, T, o)
    <3>1. PICK i \in 1 .. Len(d.questions), q \in Questions :
            /\ q.question = d.questions[i].question
            /\ q.answer \in T
            /\ o.doc = [d EXCEPT !.questions = [d.questions EXCEPT ![i] = q]]
      BY <2>3 DEF QuestionIsResolved
    <3>2. o.doc.questions = [d.questions EXCEPT ![i] = q]
      BY <3>1 DEF Docs
    <3>3. QuestionOK(q)
      BY <1>2, <2>1, <3>1 DEF QuestionOK
    <3> QED
      BY <2>1, <3>2, <3>3
  <2>4. CASE o.doc.questions = d.questions
    BY <2>4 DEF ValidState
  <2> QED
    BY <1>1, <1>3, <2>2, <2>3, <2>4, FieldsKept
<1>9. \A i \in DOMAIN o.doc.criteria : CriterionOK(o.doc.criteria[i])
  <2>1. /\ d.criteria \in Seq(Criteria)
        /\ DOMAIN d.criteria = 1 .. Len(d.criteria)
        /\ \A i \in 1 .. Len(d.criteria) : CriterionOK(d.criteria[i])
    BY LenProperties DEF Docs, ValidState
  <2>2. CASE CriterionIsAdded(d, T, o)
    <3>1. PICK c \in Criteria :
            /\ HasText(c.statement) /\ c.statement \in T
            /\ c.status = "pending" /\ c.refs = {} /\ c.waiverReason = None
            /\ o.doc = [d EXCEPT !.criteria = Append(d.criteria, c)]
      BY <2>2 DEF CriterionIsAdded
    <3>2. o.doc.criteria = Append(d.criteria, c)
      BY <3>1 DEF Docs
    <3>3. CriterionOK(c)
      BY <1>2, <3>1, TextsGiven DEF CriterionOK
    <3> QED
      BY <2>1, <3>2, <3>3, AppendProperties
  <2>3. CASE CriterionIsUpdated(d, T, o)
    <3>1. PICK i \in 1 .. Len(d.criteria), c \in Criteria, ref \in T :
            /\ c.statement = d.criteria[i].statement
            /\ c.refs = d.criteria[i].refs \cup ({ref} \ {None})
            /\ c.status = "passed" => c.refs # {}
            /\ IF c.status = "waived"
               THEN HasText(c.waiverReason) /\ c.waiverReason \in T
               ELSE c.waiverReason = d.criteria[i].waiverReason
            /\ o.doc = [d EXCEPT !.criteria = [d.criteria EXCEPT ![i] = c]]
      BY <2>3 DEF CriterionIsUpdated
    <3>2. o.doc.criteria = [d.criteria EXCEPT ![i] = c]
      BY <3>1 DEF Docs
    <3>3. CriterionOK(c)
      <4>1. CriterionOK(d.criteria[i])
        BY <2>1
      <4> QED
        BY <1>2, <3>1, <4>1 DEF CriterionOK
    <3> QED
      BY <2>1, <3>2, <3>3
  <2>4. CASE o.doc.criteria = d.criteria
    BY <2>4 DEF ValidState
  <2> QED
    BY <1>1, <1>3, <2>2, <2>3, <2>4, FieldsKept
<1>10. LeanGateOK(o.doc.leanGate)
  <2>1. CASE LeanGateIsRecorded(d, T, o)
    <3>1. PICK g \in LeanGates :
            /\ g.status = "passed" => g.rung # None /\ HasText(g.decision)
            /\ g.decision \in T /\ g.limits \in T
            /\ g.rejected \subseteq T \ {None}
            /\ o.doc = [d EXCEPT !.leanGate = g]
      BY <2>1 DEF LeanGateIsRecorded
    <3>2. o.doc.leanGate = g
      BY <3>1 DEF Docs
    <3> QED
      BY <1>2, <3>1, <3>2 DEF LeanGateOK
  <2>2. CASE o.doc.leanGate = d.leanGate
    BY <2>2 DEF ValidState
  <2> QED
    BY <1>1, <1>3, <2>1, <2>2, FieldsKept
<1>11. \A k \in Kinds : \A i \in DOMAIN o.doc.evidence[k].items :
         EvidenceItemOK(o.doc.evidence[k].items[i])
  <2>1. CASE EvidenceIsRecorded(d, T, o)
    <3>1. PICK k \in Kinds, item \in Items, g \in Groups :
            /\ HasText(item.ref)
            /\ {item.ref, item.note} \subseteq T
            /\ IF item.status = "waived"
               THEN HasText(item.waiverReason) /\ item.waiverReason \in T
               ELSE item.waiverReason = None
            /\ g.items = Append(d.evidence[k].items, item)
            /\ o.doc = [d EXCEPT !.evidence = [d.evidence EXCEPT ![k] = g]]
      BY <2>1 DEF EvidenceIsRecorded
    <3>2. /\ o.doc.evidence = [d.evidence EXCEPT ![k] = g]
          /\ d.evidence \in [Kinds -> Groups]
      BY <3>1 DEF Docs
    <3>3. EvidenceItemOK(item)
      BY <1>2, <3>1, TextsGiven DEF EvidenceItemOK
    <3>4. /\ d.evidence[k].items \in Seq(Items)
          /\ DOMAIN d.evidence[k].items = 1 .. Len(d.evidence[k].items)
      BY <3>2, LenProperties DEF Groups
    <3>5. \A i \in DOMAIN g.items : EvidenceItemOK(g.items[i])
      BY <3>1, <3>3, <3>4, AppendProperties DEF ValidState
    <3> QED
      BY <3>2, <3>5 DEF ValidState
  <2>2. CASE o.doc.evidence = d.evidence
    BY <2>2 DEF ValidState
  <2> QED
    BY <1>1, <1>3, <2>1, <2>2, FieldsKept
<1>12. \A f \in o.doc.complexityReview.findings : Required(f)
  <2>1. CASE ReviewIsRecorded(d, T, o)
    <3>1. PICK r \in Reviews :
            /\ r.findings \subseteq T /\ \A f \in r.findings : HasText(f)
            /\ o.doc = [d EXCEPT !.complexityReview = r]
      BY <2>1 DEF ReviewIsRecorded
    <3>2. o.doc.complexityReview = r
      BY <3>1 DEF Docs
    <3> QED
      BY <1>2, <3>1, <3>2
  <2>2. CASE o.doc.complexityReview = d.complexityReview
    BY <2>2 DEF ValidState
  <2> QED
    BY <1>1, <1>3, <2>1, <2>2, FieldsKept
<1>13. \A t \in o.texts : Portable(t)
  <2>1. o.texts \subseteq T
    <3>1. CASE GoalIsSet(d, T, o)
      BY <3>1 DEF GoalIsSet
    <3>2. CASE ArtifactIsLinked(d, T, o)
      <4>1. None \in T
        BY DEF T
      <4> QED
        BY <3>2, <4>1 DEF ArtifactIsLinked
    <3>3. CASE DecisionIsRecorded(d, T, o)
      BY <3>3 DEF DecisionIsRecorded
    <3>4. CASE EvidenceIsRecorded(d, T, o)
      BY <3>4 DEF EvidenceIsRecorded
    <3>5. CASE o.texts = {}
      BY <3>5
    <3>6. \/ o.texts = {} \/ GoalIsSet(d, T, o) \/ ArtifactIsLinked(d, T, o)
          \/ DecisionIsRecorded(d, T, o) \/ EvidenceIsRecorded(d, T, o)
      BY <1>3 DEF Effect, QuestionIsOpened, QuestionIsResolved,
         CriterionIsAdded, CriterionIsUpdated, LeanGateIsRecorded,
         ReviewIsRecorded
    <3> QED
      BY <3>1, <3>2, <3>3, <3>4, <3>5, <3>6
  <2> QED
    BY <1>2, <2>1
<1> QED
  BY <1>5, <1>6, <1>7, <1>8, <1>9, <1>10, <1>11, <1>12, <1>13
     DEF Accepts, ValidState

\* A command with good texts is never refused by the schema.
THEOREM SchemaIsMet == Spec => []OperationsMeetSchema
<1>1. DocInv => OperationsMeetSchema
  <2> SUFFICES ASSUME DocInv, NEW o \in Calls(doc, {None, Plain})
               PROVE  Accepts(o)
    BY DEF OperationsMeetSchema, Calls
  <2>1. {None, Plain} \in SUBSET Texts
    BY DEF Texts
  <2>2. Effect(doc, {None, Plain}, o)
    BY <2>1, CallHasEffect DEF DocInv
  <2> QED
    BY <2>2, EffectMeetsSchema DEF DocInv
<1> QED
  BY <1>1, DocInvHolds, PTL

-----------------------------------------------------------------------------
(* What is on record stays.                                                *)

DecisionsKept(old, new) ==
  \A i \in DOMAIN old :
    /\ i \in DOMAIN new
    /\ new[i].statement = old[i].statement /\ new[i].reason = old[i].reason
    /\ old[i].status = "superseded" => new[i].status = "superseded"

QuestionsKept(old, new) ==
  \A i \in DOMAIN old :
    /\ i \in DOMAIN new
    /\ old[i].status = "resolved" => new[i] = old[i]

CriteriaKept(old, new) ==
  \A i \in DOMAIN old :
    /\ i \in DOMAIN new
    /\ new[i].statement = old[i].statement
    /\ old[i].refs \subseteq new[i].refs

EvidenceKept(old, new) ==
  \A k \in Kinds : IsPrefix(old[k].items, new[k].items)

LEMMA PrefixOfItself ==
  ASSUME NEW S, NEW s \in Seq(S)
  PROVE  IsPrefix(s, s)
BY LenProperties DEF IsPrefix

LEMMA PrefixOfAppend ==
  ASSUME NEW S, NEW s \in Seq(S), NEW x \in S
  PROVE  IsPrefix(s, Append(s, x))
<1> DEFINE t == Append(s, x)
<1>1. /\ t \in Seq(S) /\ Len(t) = Len(s) + 1 /\ Len(s) \in Nat
      /\ \A i \in 1 .. Len(s) : t[i] = s[i]
  BY AppendProperties, LenProperties
<1>2. \A i \in 1 .. Len(s) : s[i] \in S /\ t[i] \in S
  BY <1>1, ElementOfSeq
<1> HIDE DEF t
<1>3. /\ SubSeq(s, 1, Len(s)) \in Seq(S)
      /\ Len(SubSeq(s, 1, Len(s))) = Len(s)
      /\ \A i \in 1 .. Len(s) : SubSeq(s, 1, Len(s))[i] = s[i]
  BY <1>1, SubSeqFull
<1>4. /\ SubSeq(t, 1, Len(s)) \in Seq(S)
      /\ Len(SubSeq(t, 1, Len(s))) = Len(s)
      /\ \A i \in 1 .. Len(s) : SubSeq(t, 1, Len(s))[i] = t[i]
  <2>1. \A n \in Nat : /\ n - 1 + 1 = n
                       /\ IF 1 <= n THEN TRUE ELSE n = 0
                       /\ \A i \in 1 .. n : 1 + i - 1 = i
    OBVIOUS
  <2> QED
    BY <1>1, <1>2, <2>1, SubSeqProperties
<1>5. SubSeq(s, 1, Len(s)) = SubSeq(t, 1, Len(s))
  BY <1>1, <1>3, <1>4, SeqEqual
<1> QED
  BY <1>1, <1>5 DEF IsPrefix, t

LEMMA EffectKeepsHistory ==
  ASSUME NEW d \in Docs, NEW T \in SUBSET Texts, NEW o, Effect(d, T, o)
  PROVE  /\ DecisionsKept(d.decisions, o.doc.decisions)
         /\ QuestionsKept(d.questions, o.doc.questions)
         /\ CriteriaKept(d.criteria, o.doc.criteria)
         /\ EvidenceKept(d.evidence, o.doc.evidence)
<1>1. DecisionsKept(d.decisions, o.doc.decisions)
  <2> DEFINE old == d.decisions
             new == o.doc.decisions
  <2>1. CASE new = old
    BY <2>1 DEF DecisionsKept
  <2>2. CASE /\ Len(new) = Len(old) + 1
             /\ \A i \in 1 .. Len(old) :
                  new[i] = old[i] \/ new[i] = Superseded(old[i], Len(old) + 1)
    <3>1. /\ old \in Seq(Decisions) /\ new \in Seq(Decisions)
          /\ Len(old) \in Nat
          /\ DOMAIN old = 1 .. Len(old) /\ DOMAIN new = 1 .. Len(new)
      BY FieldsKept, LenProperties DEF Docs
    <3>2. PICK n \in Nat : n = Len(old) + 1
      BY <3>1
    <3>3. ASSUME NEW i \in 1 .. Len(old)
          PROVE  /\ new[i].statement = old[i].statement
                 /\ new[i].reason = old[i].reason
                 /\ old[i].status = "superseded" =>
                      new[i].status = "superseded"
      <4>1. new[i] = old[i] \/ new[i] = Superseded(old[i], n)
        BY <2>2, <3>2
      <4>2. old[i] \in Decisions
        BY <3>1, ElementOfSeq
      <4> HIDE DEF old, new
      <4>3. /\ Superseded(old[i], n).statement = old[i].statement
            /\ Superseded(old[i], n).reason = old[i].reason
            /\ Superseded(old[i], n).status = "superseded"
        BY <4>2, SupersededTyped
      <4> QED
        BY <4>1, <4>3
    <3> QED
      BY SMTT(20), <2>2, <3>1, <3>3 DEF DecisionsKept
  <2> QED
    BY <2>1, <2>2, DecisionsOnlyGrow DEF DecisionsGrow
<1>2. QuestionsKept(d.questions, o.doc.questions)
  <2>1. /\ d.questions \in Seq(Questions)
        /\ DOMAIN d.questions = 1 .. Len(d.questions)
        /\ Len(d.questions) \in Nat
    BY LenProperties DEF Docs
  <2>2. CASE QuestionIsOpened(d, T, o)
    <3>1. PICK q \in Questions :
            o.doc = [d EXCEPT !.questions = Append(d.questions, q)]
      BY <2>2 DEF QuestionIsOpened
    <3>2. o.doc.questions = Append(d.questions, q)
      BY <3>1 DEF Docs
    <3> QED
      BY <2>1, <3>2, AppendProperties DEF QuestionsKept
  <2>3. CASE QuestionIsResolved(d, T, o)
    <3>1. PICK i \in 1 .. Len(d.questions), q \in Questions :
            /\ d.questions[i].status = "open"
            /\ o.doc = [d EXCEPT !.questions = [d.questions EXCEPT ![i] = q]]
      BY <2>3 DEF QuestionIsResolved
    <3>2. o.doc.questions = [d.questions EXCEPT ![i] = q]
      BY <3>1 DEF Docs
    <3> QED
      BY <2>1, <3>1, <3>2 DEF QuestionsKept
  <2>4. CASE o.doc.questions = d.questions
    BY <2>4 DEF QuestionsKept
  <2> QED
    BY <2>2, <2>3, <2>4, FieldsKept
<1>3. CriteriaKept(d.criteria, o.doc.criteria)
  <2>1. /\ d.criteria \in Seq(Criteria)
        /\ DOMAIN d.criteria = 1 .. Len(d.criteria)
        /\ Len(d.criteria) \in Nat
    BY LenProperties DEF Docs
  <2>2. CASE CriterionIsAdded(d, T, o)
    <3>1. PICK c \in Criteria :
            o.doc = [d EXCEPT !.criteria = Append(d.criteria, c)]
      BY <2>2 DEF CriterionIsAdded
    <3>2. o.doc.criteria = Append(d.criteria, c)
      BY <3>1 DEF Docs
    <3> QED
      BY <2>1, <3>2, AppendProperties DEF CriteriaKept
  <2>3. CASE CriterionIsUpdated(d, T, o)
    <3>1. PICK i \in 1 .. Len(d.criteria), c \in Criteria, ref \in T :
            /\ c.statement = d.criteria[i].statement
            /\ c.refs = d.criteria[i].refs \cup ({ref} \ {None})
            /\ o.doc = [d EXCEPT !.criteria = [d.criteria EXCEPT ![i] = c]]
      BY <2>3 DEF CriterionIsUpdated
    <3>2. o.doc.criteria = [d.criteria EXCEPT ![i] = c]
      BY <3>1 DEF Docs
    <3> QED
      BY <2>1, <3>1, <3>2 DEF CriteriaKept
  <2>4. CASE o.doc.criteria = d.criteria
    BY <2>4 DEF CriteriaKept
  <2> QED
    BY <2>2, <2>3, <2>4, FieldsKept
<1>4. EvidenceKept(d.evidence, o.doc.evidence)
  <2>1. \A k \in Kinds : d.evidence[k].items \in Seq(Items)
    BY DEF Docs, Groups
  <2>2. CASE EvidenceIsRecorded(d, T, o)
    <3>1. PICK k \in Kinds, item \in Items, g \in Groups :
            /\ g.items = Append(d.evidence[k].items, item)
            /\ o.doc = [d EXCEPT !.evidence = [d.evidence EXCEPT ![k] = g]]
      BY ZenonT(30), <2>2 DEF EvidenceIsRecorded
    <3>2. /\ o.doc.evidence = [d.evidence EXCEPT ![k] = g]
          /\ d.evidence \in [Kinds -> Groups]
      BY <3>1 DEF Docs
    <3>3. /\ o.doc.evidence[k] = g
          /\ \A j \in Kinds \ {k} : o.doc.evidence[j] = d.evidence[j]
      BY <3>2
    <3>4. IsPrefix(d.evidence[k].items, o.doc.evidence[k].items)
      <4>1. IsPrefix(d.evidence[k].items, Append(d.evidence[k].items, item))
        BY <2>1, PrefixOfAppend
      <4> QED
        BY <3>1, <3>3, <4>1
    <3>5. \A j \in Kinds \ {k} :
            IsPrefix(d.evidence[j].items, o.doc.evidence[j].items)
      BY <2>1, <3>3, PrefixOfItself
    <3> QED
      BY <3>4, <3>5 DEF EvidenceKept
  <2>3. CASE o.doc.evidence = d.evidence
    BY <2>1, <2>3, PrefixOfItself DEF EvidenceKept
  <2> QED
    BY <2>2, <2>3, FieldsKept
<1> QED
  BY <1>1, <1>2, <1>3, <1>4

\* No command takes back or edits what the document has on record.
THEOREM HistoryStays == Spec => HistoryIsKept
<1>1. ASSUME doc \in Docs, [Next]_vars
      PROVE  /\ DecisionsKept(doc.decisions, doc'.decisions)
             /\ QuestionsKept(doc.questions, doc'.questions)
             /\ CriteriaKept(doc.criteria, doc'.criteria)
             /\ EvidenceKept(doc.evidence, doc'.evidence)
  <2>1. \A k \in Kinds : doc.evidence[k].items \in Seq(Items)
    BY <1>1 DEF Docs, Groups
  <2>2. CASE /\ doc'.decisions = doc.decisions
             /\ doc'.questions = doc.questions
             /\ doc'.criteria = doc.criteria
             /\ doc'.evidence = doc.evidence
    BY <2>1, <2>2, PrefixOfItself
       DEF DecisionsKept, QuestionsKept, CriteriaKept, EvidenceKept
  <2>3. CASE UNCHANGED vars
    BY <2>2, <2>3 DEF vars
  <2>4. CASE Transition
    <3>1. doc' = [doc EXCEPT !.revision = @ + 1]
      BY <2>4 DEF Transition
    <3> QED
      BY <1>1, <2>2, <3>1, NextRevision
  <2>5. CASE OperationTaken
    <3>1. PICK o : /\ Effect(doc, Texts, o)
                   /\ doc' = [o.doc EXCEPT !.revision = @ + 1]
      BY <2>5 DEF OperationTaken
    <3>2. o.doc \in Docs
      BY <1>1, <3>1, FieldsKept
    <3>3. /\ doc'.decisions = o.doc.decisions
          /\ doc'.questions = o.doc.questions
          /\ doc'.criteria = o.doc.criteria
          /\ doc'.evidence = o.doc.evidence
      BY <3>1, <3>2, NextRevision
    <3> QED
      BY <1>1, <3>1, <3>3, EffectKeepsHistory
  <2> QED
    BY <1>1, <2>3, <2>4, <2>5, StepIs
<1>2. doc \in Docs /\ [Next]_vars =>
        [/\ \A i \in DOMAIN doc.decisions :
              LET old == doc.decisions[i]
                  new == doc'.decisions[i]
              IN /\ i \in DOMAIN doc'.decisions
                 /\ new.statement = old.statement /\ new.reason = old.reason
                 /\ old.status = "superseded" => new.status = "superseded"
         /\ \A i \in DOMAIN doc.questions :
              /\ i \in DOMAIN doc'.questions
              /\ doc.questions[i].status = "resolved" =>
                   doc'.questions[i] = doc.questions[i]
         /\ \A i \in DOMAIN doc.criteria :
              /\ i \in DOMAIN doc'.criteria
              /\ doc'.criteria[i].statement = doc.criteria[i].statement
              /\ doc.criteria[i].refs \subseteq doc'.criteria[i].refs
         /\ \A k \in Kinds :
              IsPrefix(doc.evidence[k].items, doc'.evidence[k].items)]_vars
  BY <1>1 DEF DecisionsKept, QuestionsKept, CriteriaKept, EvidenceKept
<1>3. DocInv => doc \in Docs
  BY DEF DocInv
<1> QED
  BY <1>2, <1>3, DocInvHolds, PTL DEF Spec, HistoryIsKept

-----------------------------------------------------------------------------
(* The document as EngineeringState sees it.                               *)

GoalOf(d) == HasText(d.goal)
ArtifactOf(d) == d.artifact.type # None
OpenOf(d) == {q \in DOMAIN d.questions : /\ d.questions[q].blocking
                                         /\ d.questions[q].status = "open"}
CriterionOf(d, c) ==
  IF c \in DOMAIN d.criteria
  THEN [status |-> d.criteria[c].status, refs |-> d.criteria[c].refs # {}]
  ELSE [status |-> "absent", refs |-> FALSE]
CriteriaOf(d) == [c \in 1 .. MaxRevision |-> CriterionOf(d, c)]
LeanOf(d) == IF d.leanGate.status = "pending" THEN "pending" ELSE "decided"
GroupOf(d, k) ==
  [status |-> d.evidence[k].status,
   items |-> {d.evidence[k].items[i].status :
                i \in DOMAIN d.evidence[k].items}]
EvidenceOf(d) == [k \in DOMAIN d.evidence |-> GroupOf(d, k)]

LEMMA SameViews ==
  ASSUME NEW d, NEW e
  PROVE  /\ e.goal = d.goal => GoalOf(e) = GoalOf(d)
         /\ e.artifact = d.artifact => ArtifactOf(e) = ArtifactOf(d)
         /\ e.questions = d.questions => OpenOf(e) = OpenOf(d)
         /\ e.criteria = d.criteria => CriteriaOf(e) = CriteriaOf(d)
         /\ e.leanGate = d.leanGate => LeanOf(e) = LeanOf(d)
         /\ e.evidence = d.evidence => EvidenceOf(e) = EvidenceOf(d)
<1>1. e.goal = d.goal => GoalOf(e) = GoalOf(d)
  BY DEF GoalOf
<1>2. e.artifact = d.artifact => ArtifactOf(e) = ArtifactOf(d)
  BY DEF ArtifactOf
<1>3. e.questions = d.questions => OpenOf(e) = OpenOf(d)
  BY DEF OpenOf
<1>4. e.criteria = d.criteria => CriteriaOf(e) = CriteriaOf(d)
  <2>1. e.criteria = d.criteria =>
          \A c \in 1 .. MaxRevision : CriterionOf(e, c) = CriterionOf(d, c)
    BY DEF CriterionOf
  <2> QED
    BY <2>1, Zenon DEF CriteriaOf
<1>5. e.leanGate = d.leanGate => LeanOf(e) = LeanOf(d)
  BY DEF LeanOf
<1>6. e.evidence = d.evidence => EvidenceOf(e) = EvidenceOf(d)
  <2>1. e.evidence = d.evidence =>
          \A k \in DOMAIN e.evidence : GroupOf(e, k) = GroupOf(d, k)
    BY DEF GroupOf
  <2> QED
    BY <2>1, Zenon DEF EvidenceOf
<1> QED
  BY <1>1, <1>2, <1>3, <1>4, <1>5, <1>6

SameGoal(d, e) == GoalOf(e) = GoalOf(d)
SameArtifact(d, e) == ArtifactOf(e) = ArtifactOf(d)
SameOpen(d, e) == OpenOf(e) = OpenOf(d)
SameCriteria(d, e) == CriteriaOf(e) = CriteriaOf(d)
SameLean(d, e) == LeanOf(e) = LeanOf(d)
SameEvidence(d, e) == EvidenceOf(e) = EvidenceOf(d)

\* The recorded statuses of a kind are few.
ItemsOf(d) ==
  Cardinality(UNION {{k} \X EvidenceOf(d)[k].items : k \in Kinds})

LEMMA FewItems ==
  ASSUME NEW d \in Docs
  PROVE  ItemsOf(d) < 100
<1> DEFINE K == {"tests", "lint", "types", "review", "ship"}
           items == UNION {{k} \X EvidenceOf(d)[k].items : k \in Kinds}
<1>1. Kinds \subseteq K
  BY KindsGiven, DocumentAssumption
<1>2. \A k \in Kinds : EvidenceOf(d)[k].items \subseteq Statuses
  <2>1. d.evidence \in [Kinds -> Groups]
    BY DEF Docs
  <2>2. \A k \in Kinds : EvidenceOf(d)[k] = GroupOf(d, k)
    BY <2>1 DEF EvidenceOf
  <2>3. ASSUME NEW k \in Kinds, NEW i \in DOMAIN d.evidence[k].items
        PROVE  d.evidence[k].items[i].status \in Statuses
    <3>1. d.evidence[k].items \in Seq(Items)
      BY <2>1 DEF Groups
    <3>2. d.evidence[k].items[i] \in Items
      BY <3>1, ElementOfSeq
    <3> QED
      BY <3>2 DEF Items
  <2>4. \A k \in Kinds :
          EvidenceOf(d)[k].items = {d.evidence[k].items[i].status :
                                      i \in DOMAIN d.evidence[k].items}
    <3> SUFFICES ASSUME NEW k \in Kinds
                 PROVE  GroupOf(d, k).items =
                          {d.evidence[k].items[i].status :
                             i \in DOMAIN d.evidence[k].items}
      BY <2>2
    <3> QED
      BY DEF GroupOf
  <2> QED
    BY <2>3, <2>4
<1>3. items \subseteq K \X Statuses
  BY <1>1, <1>2
<1>4. ASSUME NEW S, NEW n \in Nat, NEW x,
              IsFiniteSet(S), Cardinality(S) <= n
      PROVE  IsFiniteSet(S \cup {x}) /\ Cardinality(S \cup {x}) <= n + 1
  <2>1. /\ IsFiniteSet(S \cup {x})
        /\ Cardinality(S \cup {x}) =
              IF x \in S THEN Cardinality(S) ELSE Cardinality(S) + 1
    BY <1>4, FS_AddElement
  <2>2. Cardinality(S) \in Nat
    BY <1>4, FS_CardinalityType
  <2> QED
    BY <1>4, <2>1, <2>2
<1>5. ASSUME NEW a, NEW b, NEW c, NEW e, NEW f
      PROVE  /\ IsFiniteSet({a, b, c, e, f})
             /\ Cardinality({a, b, c, e, f}) <= 5
  <2> DEFINE A1 == {a}
             A2 == A1 \cup {b}
             A3 == A2 \cup {c}
             A4 == A3 \cup {e}
             A5 == A4 \cup {f}
  <2>1. IsFiniteSet(A1) /\ Cardinality(A1) <= 1
    BY FS_Singleton
  <2> HIDE DEF A1
  <2>2. IsFiniteSet(A2) /\ Cardinality(A2) <= 2
    <3>1. IsFiniteSet(A2) /\ Cardinality(A2) <= 1 + 1
      BY <1>4, <2>1
    <3> QED
      BY <3>1
  <2> HIDE DEF A2
  <2>3. IsFiniteSet(A3) /\ Cardinality(A3) <= 3
    <3>1. IsFiniteSet(A3) /\ Cardinality(A3) <= 2 + 1
      BY <1>4, <2>2
    <3> QED
      BY <3>1
  <2> HIDE DEF A3
  <2>4. IsFiniteSet(A4) /\ Cardinality(A4) <= 4
    <3>1. IsFiniteSet(A4) /\ Cardinality(A4) <= 3 + 1
      BY <1>4, <2>3
    <3> QED
      BY <3>1
  <2> HIDE DEF A4
  <2>5. IsFiniteSet(A5) /\ Cardinality(A5) <= 5
    <3>1. IsFiniteSet(A5) /\ Cardinality(A5) <= 4 + 1
      BY <1>4, <2>4
    <3> QED
      BY <3>1
  <2>6. {a, b, c, e, f} = A5
    BY DEF A1, A2, A3, A4
  <2> HIDE DEF A5
  <2> QED
    BY <2>5, <2>6
<1>6. IsFiniteSet(K) /\ Cardinality(K) \in 0 .. 5
  <2>1. IsFiniteSet(K) /\ Cardinality(K) <= 5
    BY <1>5
  <2>2. Cardinality(K) \in Nat
    BY <2>1, FS_CardinalityType
  <2> HIDE DEF K
  <2> QED
    BY <2>1, <2>2
<1>7. IsFiniteSet(Statuses) /\ Cardinality(Statuses) \in 0 .. 5
  <2>1. Statuses = {"pending", "pending", "passed", "failed", "waived"}
    BY DEF Statuses
  <2>2. IsFiniteSet(Statuses) /\ Cardinality(Statuses) <= 5
    BY <1>5, <2>1
  <2>3. Cardinality(Statuses) \in Nat
    BY <2>2, FS_CardinalityType
  <2> QED
    BY <2>2, <2>3
<1> HIDE DEF K
<1>8. /\ IsFiniteSet(K \X Statuses)
      /\ Cardinality(K \X Statuses) = Cardinality(K) * Cardinality(Statuses)
  BY <1>6, <1>7, FS_Product
<1>9. \A m \in 0 .. 5 : \A n \in 0 .. 5 : m * n <= 25
  <2>1. \A m \in 0 .. 5 :
          m = 0 \/ m = 1 \/ m = 2 \/ m = 3 \/ m = 4 \/ m = 5
    OBVIOUS
  <2> QED
    BY <2>1
<1>10. Cardinality(K \X Statuses) <= 25
  BY <1>6, <1>7, <1>8, <1>9
<1> HIDE DEF items
<1>11. /\ Cardinality(items) <= Cardinality(K \X Statuses)
       /\ Cardinality(items) \in Nat /\ Cardinality(K \X Statuses) \in Nat
  BY <1>3, <1>8, FS_Subset, FS_CardinalityType
<1> QED
  BY <1>10, <1>11 DEF ItemsOf, items

\* One operation of EngineeringState, on the view of a document.
QuestionStep(d, e) ==
  /\ \E q \in 1 .. MaxRevision :
       \/ q \notin OpenOf(d) /\ OpenOf(e) = OpenOf(d) \cup {q}
       \/ q \in OpenOf(d) /\ OpenOf(e) = OpenOf(d) \ {q}
  /\ SameGoal(d, e) /\ SameArtifact(d, e) /\ SameCriteria(d, e)
  /\ SameLean(d, e) /\ SameEvidence(d, e)

CriterionMoved(d, e) ==
  \E c \in 1 .. MaxRevision :
     \/ /\ CriteriaOf(d)[c] = [status |-> "absent", refs |-> FALSE]
        /\ CriteriaOf(e) = [CriteriaOf(d) EXCEPT
             ![c] = [status |-> "pending", refs |-> FALSE]]
     \/ \E s \in StatusesRecorded, withRef \in BOOLEAN :
          /\ CriteriaOf(d)[c].status # "absent"
          /\ s = "passed" => CriteriaOf(d)[c].refs \/ withRef
          /\ CriteriaOf(e) = [CriteriaOf(d) EXCEPT
               ![c] = [status |-> s,
                       refs |-> CriteriaOf(d)[c].refs \/ withRef]]

CriterionStep(d, e) ==
  /\ CriterionMoved(d, e)
  /\ SameGoal(d, e) /\ SameArtifact(d, e) /\ SameOpen(d, e)
  /\ SameLean(d, e) /\ SameEvidence(d, e)

EvidenceAdded(d, e) ==
  \E k \in Kinds, s \in StatusesRecorded :
    EvidenceOf(e) = [EvidenceOf(d) EXCEPT
      ![k] = [status |-> s, items |-> EvidenceOf(d)[k].items \cup {s}]]

EvidenceStep(d, e) ==
  /\ EvidenceAdded(d, e)
  /\ SameGoal(d, e) /\ SameArtifact(d, e) /\ SameOpen(d, e)
  /\ SameCriteria(d, e) /\ SameLean(d, e)

OtherStep(d, e) ==
  \/ /\ GoalOf(e) = TRUE
     /\ SameArtifact(d, e) /\ SameOpen(d, e) /\ SameCriteria(d, e)
     /\ SameLean(d, e) /\ SameEvidence(d, e)
  \/ /\ ArtifactOf(e) = TRUE
     /\ SameGoal(d, e) /\ SameOpen(d, e) /\ SameCriteria(d, e)
     /\ SameLean(d, e) /\ SameEvidence(d, e)
  \/ /\ LeanOf(e) = "decided"
     /\ SameGoal(d, e) /\ SameArtifact(d, e) /\ SameOpen(d, e)
     /\ SameCriteria(d, e) /\ SameEvidence(d, e)
  \/ /\ SameGoal(d, e) /\ SameArtifact(d, e) /\ SameOpen(d, e)
     /\ SameCriteria(d, e) /\ SameLean(d, e) /\ SameEvidence(d, e)

ViewStep(d, e) == \/ QuestionStep(d, e) \/ CriterionStep(d, e)
                  \/ EvidenceStep(d, e) \/ OtherStep(d, e)

LEMMA QuestionView ==
  ASSUME NEW d \in Docs, NEW T \in SUBSET Texts, NEW o,
         Len(d.questions) < MaxRevision,
         QuestionIsOpened(d, T, o) \/ QuestionIsResolved(d, T, o)
  PROVE  \/ OpenOf(o.doc) = OpenOf(d)
         \/ \E q \in 1 .. MaxRevision :
              \/ q \notin OpenOf(d) /\ OpenOf(o.doc) = OpenOf(d) \cup {q}
              \/ q \in OpenOf(d) /\ OpenOf(o.doc) = OpenOf(d) \ {q}
<1>1. /\ d.questions \in Seq(Questions)
      /\ DOMAIN d.questions = 1 .. Len(d.questions)
      /\ Len(d.questions) \in Nat /\ MaxRevision \in Nat
  BY LenProperties, DocumentAssumption DEF Docs
<1>2. CASE QuestionIsOpened(d, T, o)
  <2>1. PICK q \in Questions :
          /\ q.status = "open"
          /\ o.doc = [d EXCEPT !.questions = Append(d.questions, q)]
    BY <1>2 DEF QuestionIsOpened
  <2>2. o.doc.questions = Append(d.questions, q)
    BY <2>1 DEF Docs
  <2> DEFINE n == Len(d.questions) + 1
             new == Append(d.questions, q)
  <2>3. /\ DOMAIN new = 1 .. n
        /\ \A i \in 1 .. Len(d.questions) : new[i] = d.questions[i]
        /\ new[n] = q /\ n \in 1 .. MaxRevision /\ n \in 1 .. n
        /\ n \notin 1 .. Len(d.questions)
        /\ \A i \in 1 .. n : i \in 1 .. Len(d.questions) \/ i = n
        /\ \A i \in 1 .. Len(d.questions) : i \in 1 .. n
    BY <1>1, AppendProperties, LenProperties
  <2> HIDE DEF n, new
  <2>4. OpenOf(o.doc) = {i \in 1 .. n : /\ new[i].blocking
                                        /\ new[i].status = "open"}
    BY <2>2, <2>3 DEF OpenOf, new
  <2>5. OpenOf(d) = {i \in 1 .. Len(d.questions) :
                       /\ d.questions[i].blocking
                       /\ d.questions[i].status = "open"}
    BY <1>1 DEF OpenOf
  <2>6. CASE q.blocking
    <3>1. n \notin OpenOf(d)
      BY <2>3, <2>5
    <3>2. OpenOf(o.doc) = OpenOf(d) \cup {n}
      BY <2>1, <2>3, <2>4, <2>5, <2>6
    <3> QED
      BY <2>3, <3>1, <3>2
  <2>7. CASE ~q.blocking
    BY <2>3, <2>4, <2>5, <2>7
  <2> QED
    BY <2>6, <2>7
<1>3. CASE QuestionIsResolved(d, T, o)
  <2>1. PICK i \in 1 .. Len(d.questions), q \in Questions :
          /\ d.questions[i].status = "open" /\ q.status = "resolved"
          /\ o.doc = [d EXCEPT !.questions = [d.questions EXCEPT ![i] = q]]
    BY <1>3 DEF QuestionIsResolved
  <2> DEFINE new == [d.questions EXCEPT ![i] = q]
  <2>2. o.doc.questions = new
    BY <2>1 DEF Docs
  <2>3. /\ DOMAIN new = 1 .. Len(d.questions)
        /\ new[i] = q
        /\ \A j \in 1 .. Len(d.questions) : j # i => new[j] = d.questions[j]
    BY <1>1
  <2> HIDE DEF new
  <2>4. OpenOf(o.doc) = {j \in 1 .. Len(d.questions) :
                           new[j].blocking /\ new[j].status = "open"}
    BY <2>2, <2>3 DEF OpenOf
  <2>5. OpenOf(d) = {j \in 1 .. Len(d.questions) :
                       /\ d.questions[j].blocking
                       /\ d.questions[j].status = "open"}
    BY <1>1 DEF OpenOf
  <2>6. OpenOf(o.doc) = OpenOf(d) \ {i}
    BY <2>1, <2>3, <2>4, <2>5
  <2>7. i \in 1 .. MaxRevision
    BY <1>1
  <2> QED
    BY <2>6, <2>7
<1> QED
  BY <1>2, <1>3

LEMMA CriterionView ==
  ASSUME NEW d \in Docs, NEW T \in SUBSET Texts, NEW o,
         Len(d.criteria) < MaxRevision,
         CriterionIsAdded(d, T, o) \/ CriterionIsUpdated(d, T, o)
  PROVE  CriterionMoved(d, o.doc)
<1>1. /\ d.criteria \in Seq(Criteria)
      /\ DOMAIN d.criteria = 1 .. Len(d.criteria)
      /\ Len(d.criteria) \in Nat /\ MaxRevision \in Nat
  BY LenProperties, DocumentAssumption DEF Docs
<1> DEFINE absent == [status |-> "absent", refs |-> FALSE]
           view(c) == [status |-> c.status, refs |-> c.refs # {}]
<1>2. CASE CriterionIsAdded(d, T, o)
  <2>1. PICK x \in Criteria :
          /\ x.status = "pending" /\ x.refs = {}
          /\ o.doc = [d EXCEPT !.criteria = Append(d.criteria, x)]
    BY <1>2 DEF CriterionIsAdded
  <2> DEFINE n == Len(d.criteria) + 1
             new == Append(d.criteria, x)
  <2>2. o.doc.criteria = new
    BY <2>1 DEF Docs
  <2>3. /\ DOMAIN new = 1 .. n
        /\ \A i \in 1 .. Len(d.criteria) : new[i] = d.criteria[i]
        /\ new[n] = x /\ n \in 1 .. MaxRevision /\ n \in 1 .. n
        /\ n \notin 1 .. Len(d.criteria)
        /\ \A i \in 1 .. n : i \in 1 .. Len(d.criteria) \/ i = n
        /\ \A i \in 1 .. Len(d.criteria) : i \in 1 .. n
    BY <1>1, AppendProperties, LenProperties
  <2> HIDE DEF n, new
  <2>4. CriterionOf(d, n) = absent
    BY <1>1, <2>3 DEF CriterionOf
  <2>5. CriterionOf(o.doc, n) = [status |-> "pending", refs |-> FALSE]
    BY <2>1, <2>2, <2>3 DEF CriterionOf
  <2>6. \A c \in 1 .. MaxRevision :
          c # n => CriterionOf(o.doc, c) = CriterionOf(d, c)
    BY <1>1, <2>2, <2>3 DEF CriterionOf
  <2>7. CriteriaOf(d)[n] = absent
    BY <2>3, <2>4 DEF CriteriaOf
  <2>8. CriteriaOf(o.doc) = [CriteriaOf(d) EXCEPT
          ![n] = [status |-> "pending", refs |-> FALSE]]
    BY <2>3, <2>5, <2>6 DEF CriteriaOf
  <2> QED
    BY <2>3, <2>7, <2>8 DEF CriterionMoved
<1>3. CASE CriterionIsUpdated(d, T, o)
  <2>1. PICK i \in 1 .. Len(d.criteria), x \in Criteria, ref \in T :
          /\ x.refs = d.criteria[i].refs \cup ({ref} \ {None})
          /\ x.status \in StatusesRecorded
          /\ x.status = "passed" => x.refs # {}
          /\ o.doc = [d EXCEPT !.criteria = [d.criteria EXCEPT ![i] = x]]
    BY <1>3 DEF CriterionIsUpdated
  <2> DEFINE new == [d.criteria EXCEPT ![i] = x]
             withRef == ref # None
             had == d.criteria[i].refs # {}
  <2>2. o.doc.criteria = new
    BY <2>1 DEF Docs
  <2>3. /\ DOMAIN new = 1 .. Len(d.criteria)
        /\ new[i] = x /\ i \in 1 .. MaxRevision
        /\ \A j \in 1 .. Len(d.criteria) : j # i => new[j] = d.criteria[j]
    BY <1>1
  <2>4. (x.refs # {}) = (had \/ withRef)
    BY <2>1
  <2>5. /\ CriterionOf(d, i).status # "absent"
        /\ CriterionOf(d, i).refs = had
    <3>1. d.criteria[i] \in Criteria
      BY <1>1, ElementOfSeq
    <3>2. d.criteria[i].status # "absent"
      BY <3>1 DEF Criteria, Statuses
    <3> QED
      BY <1>1, <3>2 DEF CriterionOf
  <2> HIDE DEF new
  <2>6. CriterionOf(o.doc, i) = [status |-> x.status,
                                 refs |-> had \/ withRef]
    BY <2>2, <2>3, <2>4 DEF CriterionOf
  <2>7. \A c \in 1 .. MaxRevision :
          c # i => CriterionOf(o.doc, c) = CriterionOf(d, c)
    BY <1>1, <2>2, <2>3 DEF CriterionOf
  <2>8. CriteriaOf(d)[i] = CriterionOf(d, i)
    BY <2>3 DEF CriteriaOf
  <2> HIDE DEF withRef, had
  <2>9. CriteriaOf(o.doc) = [CriteriaOf(d) EXCEPT
          ![i] = [status |-> x.status,
                  refs |-> CriteriaOf(d)[i].refs \/ withRef]]
    BY <2>3, <2>5, <2>6, <2>7, <2>8 DEF CriteriaOf
  <2>10. withRef \in BOOLEAN
    BY DEF withRef
  <2>11. x.status = "passed" => CriteriaOf(d)[i].refs \/ withRef
    BY <2>1, <2>4, <2>5, <2>8
  <2>12. CriteriaOf(d)[i].status # "absent"
    BY <2>5, <2>8
  <2>13. \E s \in StatusesRecorded, w \in BOOLEAN :
           /\ CriteriaOf(d)[i].status # "absent"
           /\ s = "passed" => CriteriaOf(d)[i].refs \/ w
           /\ CriteriaOf(o.doc) = [CriteriaOf(d) EXCEPT
                ![i] = [status |-> s, refs |-> CriteriaOf(d)[i].refs \/ w]]
    <3>1. x.status \in StatusesRecorded
      BY <2>1
    <3> QED
      BY <3>1, <2>9, <2>10, <2>11, <2>12, Zenon
  <2> QED
    BY <2>3, <2>13, Zenon DEF CriterionMoved
<1> QED
  BY <1>2, <1>3

LEMMA EvidenceView ==
  ASSUME NEW d \in Docs, NEW T \in SUBSET Texts, NEW o,
         EvidenceIsRecorded(d, T, o)
  PROVE  EvidenceAdded(d, o.doc)
<1>1. PICK k \in Kinds, item \in Items, g \in Groups :
        /\ item.status \in StatusesRecorded
        /\ g.status = item.status
        /\ g.items = Append(d.evidence[k].items, item)
        /\ o.doc = [d EXCEPT !.evidence = [d.evidence EXCEPT ![k] = g]]
  BY DEF EvidenceIsRecorded
<1> DEFINE s == item.status
           old == d.evidence[k].items
<1>2. d.evidence \in [Kinds -> Groups] /\ old \in Seq(Items)
  BY DEF Docs, Groups
<1>3. o.doc.evidence = [d.evidence EXCEPT ![k] = g]
  BY <1>1 DEF Docs
<1>4. /\ o.doc.evidence[k] = g /\ DOMAIN o.doc.evidence = Kinds
      /\ DOMAIN d.evidence = Kinds
      /\ \A j \in Kinds : j # k => o.doc.evidence[j] = d.evidence[j]
  BY <1>2, <1>3
<1>5. {g.items[i].status : i \in DOMAIN g.items}
        = {old[i].status : i \in DOMAIN old} \cup {s}
  <2>1. /\ DOMAIN old = 1 .. Len(old) /\ Len(old) \in Nat
        /\ DOMAIN g.items = 1 .. Len(old) + 1
        /\ \A i \in 1 .. Len(old) : g.items[i] = old[i]
        /\ g.items[Len(old) + 1] = item
    BY <1>1, <1>2, AppendProperties, LenProperties
  <2> HIDE DEF old
  <2>2. \A i \in 1 .. Len(old) + 1 : i \in 1 .. Len(old) \/ i = Len(old) + 1
    BY <2>1
  <2>3. /\ \A i \in 1 .. Len(old) : i \in 1 .. Len(old) + 1
        /\ Len(old) + 1 \in 1 .. Len(old) + 1
    BY <2>1
  <2> QED
    BY <2>1, <2>2, <2>3
<1>6. GroupOf(o.doc, k) = [status |-> s,
                           items |-> GroupOf(d, k).items \cup {s}]
  <2>1. GroupOf(d, k).items = {old[i].status : i \in DOMAIN old}
    BY DEF GroupOf
  <2>2. GroupOf(o.doc, k) =
          [status |-> g.status,
           items |-> {g.items[i].status : i \in DOMAIN g.items}]
    BY <1>4 DEF GroupOf
  <2> QED
    BY <1>1, <1>5, <2>1, <2>2
<1>7. \A j \in Kinds : j # k => GroupOf(o.doc, j) = GroupOf(d, j)
  BY <1>4 DEF GroupOf
<1>8. /\ EvidenceOf(o.doc) = [j \in Kinds |-> GroupOf(o.doc, j)]
      /\ EvidenceOf(d) = [j \in Kinds |-> GroupOf(d, j)]
  BY <1>4 DEF EvidenceOf
<1> HIDE DEF s
<1>9. EvidenceOf(o.doc) = [EvidenceOf(d) EXCEPT
        ![k] = [status |-> s, items |-> EvidenceOf(d)[k].items \cup {s}]]
  BY <1>6, <1>7, <1>8
<1> QED
  BY <1>1, <1>9 DEF s, EvidenceAdded

LEMMA EffectInView ==
  ASSUME NEW d \in Docs, NEW T \in SUBSET Texts, NEW o, Effect(d, T, o),
         Len(d.questions) < MaxRevision, Len(d.criteria) < MaxRevision
  PROVE  ViewStep(d, o.doc)
<1> DEFINE e == o.doc
<1>1. /\ e.goal = d.goal => SameGoal(d, e)
      /\ e.artifact = d.artifact => SameArtifact(d, e)
      /\ e.questions = d.questions => SameOpen(d, e)
      /\ e.criteria = d.criteria => SameCriteria(d, e)
      /\ e.leanGate = d.leanGate => SameLean(d, e)
      /\ e.evidence = d.evidence => SameEvidence(d, e)
  BY SameViews DEF SameGoal, SameArtifact, SameOpen, SameCriteria, SameLean,
     SameEvidence
<1>2. CASE GoalIsSet(d, T, o)
  <2>1. /\ e.artifact = d.artifact /\ e.questions = d.questions
        /\ e.criteria = d.criteria /\ e.leanGate = d.leanGate
        /\ e.evidence = d.evidence /\ HasText(e.goal)
    BY <1>2 DEF GoalIsSet, Docs
  <2>2. GoalOf(e) = TRUE
    BY <2>1 DEF GoalOf
  <2> QED
    BY <1>1, <2>1, <2>2 DEF ViewStep, OtherStep
<1>3. CASE ArtifactIsLinked(d, T, o)
  <2>1. /\ e.goal = d.goal /\ e.questions = d.questions
        /\ e.criteria = d.criteria /\ e.leanGate = d.leanGate
        /\ e.evidence = d.evidence /\ e.artifact.type # None
    BY <1>3 DEF ArtifactIsLinked, Docs
  <2>2. ArtifactOf(e) = TRUE
    BY <2>1 DEF ArtifactOf
  <2> QED
    BY <1>1, <2>1, <2>2 DEF ViewStep, OtherStep
<1>4. CASE DecisionIsRecorded(d, T, o) \/ ReviewIsRecorded(d, T, o)
  <2>1. /\ e.goal = d.goal /\ e.artifact = d.artifact
        /\ e.questions = d.questions /\ e.criteria = d.criteria
        /\ e.leanGate = d.leanGate /\ e.evidence = d.evidence
    BY <1>4 DEF DecisionIsRecorded, ReviewIsRecorded, Docs
  <2> QED
    BY <1>1, <2>1 DEF ViewStep, OtherStep
<1>5. CASE QuestionIsOpened(d, T, o) \/ QuestionIsResolved(d, T, o)
  <2>1. /\ e.goal = d.goal /\ e.artifact = d.artifact
        /\ e.criteria = d.criteria
        /\ e.leanGate = d.leanGate /\ e.evidence = d.evidence
    BY <1>5 DEF QuestionIsOpened, QuestionIsResolved, Docs
  <2>2. \/ SameOpen(d, e)
        \/ \E q \in 1 .. MaxRevision :
             \/ q \notin OpenOf(d) /\ OpenOf(e) = OpenOf(d) \cup {q}
             \/ q \in OpenOf(d) /\ OpenOf(e) = OpenOf(d) \ {q}
    BY <1>5, QuestionView DEF SameOpen
  <2> QED
    BY <1>1, <2>1, <2>2 DEF ViewStep, QuestionStep, OtherStep
<1>6. CASE CriterionIsAdded(d, T, o) \/ CriterionIsUpdated(d, T, o)
  <2>1. /\ e.goal = d.goal /\ e.artifact = d.artifact
        /\ e.questions = d.questions
        /\ e.leanGate = d.leanGate /\ e.evidence = d.evidence
    BY <1>6 DEF CriterionIsAdded, CriterionIsUpdated, Docs
  <2> HIDE DEF e
  <2>2. CriterionStep(d, e)
    <3>1. CriterionMoved(d, e)
      BY <1>6, CriterionView DEF e
    <3> QED
      BY <1>1, <2>1, <3>1 DEF CriterionStep
  <2> QED
    BY <2>2 DEF ViewStep, e
<1>7. CASE LeanGateIsRecorded(d, T, o)
  <2>1. /\ e.goal = d.goal /\ e.artifact = d.artifact
        /\ e.questions = d.questions /\ e.criteria = d.criteria
        /\ e.evidence = d.evidence /\ e.leanGate.status # "pending"
    BY <1>7 DEF LeanGateIsRecorded, Docs
  <2>2. LeanOf(e) = "decided"
    BY <2>1 DEF LeanOf
  <2> QED
    BY <1>1, <2>1, <2>2 DEF ViewStep, OtherStep
<1>8. CASE EvidenceIsRecorded(d, T, o)
  <2>1. /\ e.goal = d.goal /\ e.artifact = d.artifact
        /\ e.questions = d.questions /\ e.criteria = d.criteria
        /\ e.leanGate = d.leanGate
    BY <1>8 DEF EvidenceIsRecorded, Docs
  <2> HIDE DEF e
  <2>2. EvidenceStep(d, e)
    <3>1. EvidenceAdded(d, e)
      BY <1>8, EvidenceView DEF e
    <3>2. /\ SameGoal(d, e) /\ SameArtifact(d, e) /\ SameOpen(d, e)
          /\ SameCriteria(d, e) /\ SameLean(d, e)
      BY <1>1, <2>1
    <3> QED
      BY <3>1, <3>2 DEF EvidenceStep
  <2> QED
    BY <2>2 DEF ViewStep, e
<1> QED
  BY <1>2, <1>3, <1>4, <1>5, <1>6, <1>7, <1>8 DEF Effect

\* A step in that view is a step of EngineeringState, or none of its steps.
LEMMA ViewStepImplements ==
  ASSUME doc \in Docs, ViewStep(doc, doc'), UNCHANGED place
  PROVE  Abstract!Operate \/ UNCHANGED Abstract!vars
<1> USE DEF SameGoal, SameArtifact, SameOpen, SameCriteria, SameLean,
        SameEvidence
<1>1. CASE QuestionStep(doc, doc')
  <2>1. \E q \in 1 .. MaxRevision :
          Abstract!OpenQuestion(q) \/ Abstract!ResolveQuestion(q)
    <3>1. PICK q \in 1 .. MaxRevision :
            \/ q \notin OpenOf(doc) /\ OpenOf(doc') = OpenOf(doc) \cup {q}
            \/ q \in OpenOf(doc) /\ OpenOf(doc') = OpenOf(doc) \ {q}
      BY <1>1 DEF QuestionStep
    <3>2. CASE q \notin OpenOf(doc) /\ OpenOf(doc') = OpenOf(doc) \cup {q}
      <4>1. Abstract!OpenQuestion(q)
        BY <1>1, <3>2
           DEF QuestionStep, Abstract!OpenQuestion, Abstract!place, place,
               Abstract!subject, GoalOf, ArtifactOf, OpenOf, CriteriaOf,
               CriterionOf, LeanOf, EvidenceOf, GroupOf
      <4> QED
        BY <4>1
    <3>3. CASE q \in OpenOf(doc) /\ OpenOf(doc') = OpenOf(doc) \ {q}
      <4>1. Abstract!ResolveQuestion(q)
        BY <1>1, <3>3
           DEF QuestionStep, Abstract!ResolveQuestion, Abstract!place, place,
               Abstract!subject, GoalOf, ArtifactOf, OpenOf, CriteriaOf,
               CriterionOf, LeanOf, EvidenceOf, GroupOf
      <4> QED
        BY <4>1
    <3> QED
      BY <3>1, <3>2, <3>3
  <2> QED
    BY <2>1 DEF Abstract!Operate
<1>2. CASE CriterionStep(doc, doc')
  <2>1. PICK c \in 1 .. MaxRevision :
          \/ /\ CriteriaOf(doc)[c] = [status |-> "absent", refs |-> FALSE]
             /\ CriteriaOf(doc') = [CriteriaOf(doc) EXCEPT
                  ![c] = [status |-> "pending", refs |-> FALSE]]
          \/ \E s \in StatusesRecorded, withRef \in BOOLEAN :
               /\ CriteriaOf(doc)[c].status # "absent"
               /\ s = "passed" => CriteriaOf(doc)[c].refs \/ withRef
               /\ CriteriaOf(doc') = [CriteriaOf(doc) EXCEPT
                    ![c] = [status |-> s,
                            refs |-> CriteriaOf(doc)[c].refs \/ withRef]]
    BY <1>2 DEF CriterionStep, CriterionMoved
  <2>2. CASE /\ CriteriaOf(doc)[c] = [status |-> "absent", refs |-> FALSE]
             /\ CriteriaOf(doc') = [CriteriaOf(doc) EXCEPT
                  ![c] = [status |-> "pending", refs |-> FALSE]]
    <3>1. Abstract!AddCriterion(c)
      BY <1>2, <2>2
         DEF CriterionStep, Abstract!AddCriterion, Abstract!NoCriterion,
             Abstract!place, place,
             Abstract!subject, GoalOf, ArtifactOf, OpenOf, CriteriaOf,
             CriterionOf, LeanOf, EvidenceOf, GroupOf
    <3> QED
      BY <3>1 DEF Abstract!Operate
  <2>3. ASSUME NEW s \in StatusesRecorded, NEW withRef \in BOOLEAN,
               CriteriaOf(doc)[c].status # "absent",
               s = "passed" => CriteriaOf(doc)[c].refs \/ withRef,
               CriteriaOf(doc') = [CriteriaOf(doc) EXCEPT
                 ![c] = [status |-> s,
                         refs |-> CriteriaOf(doc)[c].refs \/ withRef]]
        PROVE  Abstract!Operate
    <3>1. Abstract!UpdateCriterion(c, s, withRef)
      BY <1>2, <2>3
         DEF CriterionStep, Abstract!UpdateCriterion, Abstract!KnownCriteria,
             Abstract!place, place,
             Abstract!subject, GoalOf, ArtifactOf, OpenOf, CriteriaOf,
             CriterionOf, LeanOf, EvidenceOf, GroupOf
    <3> QED
      BY <3>1 DEF Abstract!Operate
  <2> QED
    BY <2>1, <2>2, <2>3
<1>3. CASE EvidenceStep(doc, doc')
  <2>1. PICK k \in Kinds, s \in StatusesRecorded :
          EvidenceOf(doc') = [EvidenceOf(doc) EXCEPT
            ![k] = [status |-> s,
                    items |-> EvidenceOf(doc)[k].items \cup {s}]]
    BY <1>3 DEF EvidenceStep, EvidenceAdded
  <2>2. ItemsOf(doc) = Abstract!ItemsOnRecord
    <3> DEFINE view ==
                 [j \in DOMAIN doc.evidence |->
                    [status |-> doc.evidence[j].status,
                     items |-> {doc.evidence[j].items[i].status :
                                  i \in DOMAIN doc.evidence[j].items}]]
    <3>1. Abstract!ItemsOnRecord =
            Cardinality(UNION {{j} \X view[j].items :
                                 j \in Abstract!EvidenceKinds})
      BY DEF Abstract!ItemsOnRecord, Abstract!Cardinality, Cardinality
    <3>2. view = EvidenceOf(doc)
      BY DEF EvidenceOf, GroupOf
    <3> HIDE DEF view
    <3> QED
      BY <3>1, <3>2 DEF ItemsOf, Kinds
  <2>3. Abstract!ItemsOnRecord < 100
    BY <2>2, FewItems
  <2>4. Abstract!RecordEvidence(k, s)
    BY <1>3, <2>1, <2>3
       DEF EvidenceStep, Abstract!RecordEvidence,
           Abstract!place, place,
           Abstract!subject, GoalOf, ArtifactOf, OpenOf, CriteriaOf,
           CriterionOf, LeanOf, EvidenceOf, GroupOf
  <2> QED
    BY <2>4 DEF Abstract!Operate, Kinds
<1>4. CASE OtherStep(doc, doc')
  BY <1>4
     DEF OtherStep, Abstract!Operate, Abstract!SetGoal, Abstract!LinkArtifact,
         Abstract!RecordLeanGate, Abstract!vars, Abstract!place, place,
         Abstract!subject, GoalOf, ArtifactOf, OpenOf, CriteriaOf,
         CriterionOf, LeanOf, EvidenceOf, GroupOf
<1> QED
  BY <1>1, <1>2, <1>3, <1>4 DEF ViewStep

\* The document with its texts implements EngineeringState: whatever the
\* texts are, they never decide whether the work may move on.
THEOREM DocumentImplements == Spec => ImplementsEngineeringState
<1>1. Init => Abstract!Init
  <2> SUFFICES ASSUME Init PROVE Abstract!Init
    OBVIOUS
  <2>1. /\ doc.goal = None /\ doc.artifact.type = None
        /\ doc.questions = <<>> /\ doc.criteria = <<>>
        /\ doc.leanGate.status = "pending"
    BY NoArtifactTyped DEF Init, InitialDoc
  <2>2. /\ GoalOf(doc) = FALSE /\ ArtifactOf(doc) = FALSE
        /\ OpenOf(doc) = {} /\ LeanOf(doc) = "pending"
    BY <2>1, TextsGiven DEF GoalOf, ArtifactOf, OpenOf, LeanOf
  <2>3. CriteriaOf(doc) = [c \in 1 .. MaxRevision |-> Abstract!NoCriterion]
    BY <2>1 DEF CriteriaOf, CriterionOf, Abstract!NoCriterion
  <2>4. EvidenceOf(doc) = [k \in Abstract!EvidenceKinds |->
                             [status |-> Abstract!InitialStatus(k),
                              items |-> {}]]
    <3>1. doc.evidence = [k \in Abstract!EvidenceKinds |->
                            [status |-> Abstract!InitialStatus(k),
                             items |-> <<>>]]
      BY DEF Init, InitialDoc, Kinds
    <3>2. DOMAIN doc.evidence = Abstract!EvidenceKinds
      BY <3>1
    <3>3. ASSUME NEW k \in Abstract!EvidenceKinds
          PROVE  GroupOf(doc, k) = [status |-> Abstract!InitialStatus(k),
                                    items |-> {}]
      <4>1. /\ doc.evidence[k].status = Abstract!InitialStatus(k)
            /\ doc.evidence[k].items = <<>>
        BY <3>1
      <4>2. {doc.evidence[k].items[i].status :
               i \in DOMAIN doc.evidence[k].items} = {}
        BY <4>1
      <4> QED
        BY <4>1, <4>2 DEF GroupOf
    <3> QED
      BY <3>2, <3>3 DEF EvidenceOf
  <2>5. /\ state = "explore" /\ status = "active" /\ phase = "A"
        /\ blockedFrom = "none"
    BY DEF Init
  <2>6. Abstract!PhaseOf("explore") = "A"
    BY DEF Abstract!PhaseOf
  <2> QED
    BY <2>2, <2>3, <2>4, <2>5, <2>6
       DEF Abstract!Init, GoalOf, ArtifactOf, OpenOf, CriteriaOf,
           CriterionOf, LeanOf, EvidenceOf, GroupOf
<1>2. ASSUME DocInv, [Next]_vars
      PROVE  Abstract!Next \/ UNCHANGED Abstract!vars
  <2>1. doc \in Docs
    BY <1>2 DEF DocInv
  <2>2. CASE Transition
    BY <2>2 DEF Transition, Abstract!Next
  <2>3. CASE OperationTaken
    <3>1. PICK o : /\ doc.revision < MaxRevision
                   /\ Effect(doc, Texts, o)
                   /\ doc' = [o.doc EXCEPT !.revision = @ + 1]
                   /\ UNCHANGED place
      BY <2>3 DEF OperationTaken
    <3>2. /\ Len(doc.questions) < MaxRevision
          /\ Len(doc.criteria) < MaxRevision
      <4>1. /\ Len(doc.questions) \in Nat /\ Len(doc.criteria) \in Nat
            /\ doc.revision \in Nat /\ MaxRevision \in Nat
        BY <2>1, LenProperties, DocumentAssumption DEF Docs
      <4> QED
        BY <1>2, <3>1, <4>1 DEF DocInv
    <3>3. o.doc \in Docs
      BY <2>1, <3>1, FieldsKept
    <3>4. /\ GoalOf(doc') = GoalOf(o.doc)
          /\ ArtifactOf(doc') = ArtifactOf(o.doc)
          /\ OpenOf(doc') = OpenOf(o.doc)
          /\ CriteriaOf(doc') = CriteriaOf(o.doc)
          /\ LeanOf(doc') = LeanOf(o.doc)
          /\ EvidenceOf(doc') = EvidenceOf(o.doc)
      BY <3>1, <3>3, NextRevision, SameViews
    <3>5. ViewStep(doc, o.doc)
      BY <2>1, <3>1, <3>2, EffectInView
    <3>6. ViewStep(doc, doc')
      BY <3>4, <3>5
         DEF ViewStep, QuestionStep, CriterionStep, EvidenceStep, OtherStep,
             CriterionMoved, EvidenceAdded, SameGoal, SameArtifact,
             SameOpen, SameCriteria, SameLean, SameEvidence
    <3> QED
      BY <2>1, <3>1, <3>6, ViewStepImplements DEF Abstract!Next
  <2>4. CASE UNCHANGED vars
    <3>1. doc' = doc /\ UNCHANGED place
      BY <2>4 DEF vars
    <3>2. ViewStep(doc, doc')
      BY <3>1, SameViews
         DEF ViewStep, OtherStep, SameGoal, SameArtifact, SameOpen,
             SameCriteria, SameLean, SameEvidence
    <3> QED
      BY <2>1, <3>1, <3>2, ViewStepImplements DEF Abstract!Next
  <2> QED
    BY <1>2, <2>1, <2>2, <2>3, <2>4, StepIs
<1>3. DocInv /\ [Next]_vars => [Abstract!Next]_(Abstract!vars)
  BY <1>2
<1> QED
  BY <1>1, <1>3, DocInvHolds, PTL
     DEF Spec, ImplementsEngineeringState, Abstract!Spec

-----------------------------------------------------------------------------
(* What has been proved about EngineeringState, said of the document with  *)
(* its texts.                                                              *)

Evidenced ==
  INSTANCE EngineeringStateProofs WITH
    CriterionIds <- 1..MaxRevision, QuestionIds <- 1..MaxRevision,
    MaxEvidence <- 100,
    goal <- GoalOf(doc), artifact <- ArtifactOf(doc),
    openQuestions <- OpenOf(doc), acceptanceCriteria <- CriteriaOf(doc),
    leanGate <- LeanOf(doc), evidence <- EvidenceOf(doc)

LEMMA EvidencedAssumptions ==
  Evidenced!KindsAssumption /\ Evidenced!BoundAssumption
BY DocumentAssumption DEF Evidenced!KindsAssumption, Evidenced!BoundAssumption

\* The two instances of EngineeringState are one, by the view of a document.
LEMMA SameDocument == Abstract!Spec => Evidenced!Spec
<1> USE DEF GoalOf, ArtifactOf, OpenOf, CriteriaOf, CriterionOf, LeanOf,
            EvidenceOf, GroupOf
<1>1. Abstract!Init => Evidenced!Init
  BY DEF Abstract!Init, Evidenced!Init, Abstract!PhaseOf, Evidenced!PhaseOf,
         Abstract!NoCriterion, Evidenced!NoCriterion,
         Abstract!EvidenceKinds, Evidenced!EvidenceKinds,
         Abstract!InitialStatus, Evidenced!InitialStatus
<1>2. Abstract!TransitionTo => Evidenced!TransitionTo
  BY DEF Abstract!TransitionTo, Evidenced!TransitionTo,
         Abstract!Block, Evidenced!Block, Abstract!Unblock, Evidenced!Unblock,
         Abstract!Advance, Evidenced!Advance, Abstract!Guard, Evidenced!Guard,
         Abstract!PhaseOf, Evidenced!PhaseOf, Abstract!States,
         Evidenced!States, Abstract!ActiveStates, Evidenced!ActiveStates,
         Abstract!Transitions, Evidenced!Transitions,
         Abstract!subject, Evidenced!subject,
         Abstract!ImplementationReadiness, Evidenced!ImplementationReadiness,
         Abstract!ChecksSatisfied, Evidenced!ChecksSatisfied,
         Abstract!ReviewSatisfied, Evidenced!ReviewSatisfied,
         Abstract!CompletionRecorded, Evidenced!CompletionRecorded,
         Abstract!KnownCriteria, Evidenced!KnownCriteria,
         Abstract!UnsettledCriteria, Evidenced!UnsettledCriteria,
         Abstract!EvidenceGroupSatisfied, Evidenced!EvidenceGroupSatisfied
<1>3. Abstract!Operate => Evidenced!Operate
  BY DEF Abstract!Operate, Evidenced!Operate,
         Abstract!SetGoal, Evidenced!SetGoal,
         Abstract!LinkArtifact, Evidenced!LinkArtifact,
         Abstract!OpenQuestion, Evidenced!OpenQuestion,
         Abstract!ResolveQuestion, Evidenced!ResolveQuestion,
         Abstract!AddCriterion, Evidenced!AddCriterion,
         Abstract!UpdateCriterion, Evidenced!UpdateCriterion,
         Abstract!RecordLeanGate, Evidenced!RecordLeanGate,
         Abstract!RecordEvidence, Evidenced!RecordEvidence,
         Abstract!place, Evidenced!place, Abstract!subject, Evidenced!subject,
         Abstract!NoCriterion, Evidenced!NoCriterion,
         Abstract!KnownCriteria, Evidenced!KnownCriteria,
         Abstract!ItemsOnRecord, Evidenced!ItemsOnRecord,
         Abstract!EvidenceKinds, Evidenced!EvidenceKinds,
         Abstract!Cardinality, Evidenced!Cardinality
<1>4. UNCHANGED Abstract!vars => UNCHANGED Evidenced!vars
  BY DEF Abstract!vars, Evidenced!vars, Abstract!place, Evidenced!place,
         Abstract!subject, Evidenced!subject
<1>5. [Abstract!Next]_(Abstract!vars) => [Evidenced!Next]_(Evidenced!vars)
  BY <1>2, <1>3, <1>4 DEF Abstract!Next, Evidenced!Next
<1> QED
  BY <1>1, <1>5, PTL DEF Abstract!Spec, Evidenced!Spec

\* An item that lets work pass says what was observed, in a text that names
\* no path of this machine, or why the observation was waived.
Observed(item) ==
  /\ Required(item.ref)
  /\ \/ item.status = "passed"
     \/ item.status = "waived" /\ Required(item.waiverReason)

\* What a document holds that was shipped: its goal, an artifact or why there
\* is none, a criterion, and for every gate an item with its text.
ShippedWithTexts ==
  state = "shipped" =>
    /\ Required(doc.goal)
    /\ \/ doc.artifact.type = "waived" /\ Required(doc.artifact.reason)
       \/ /\ doc.artifact.type \notin {"waived", None}
          /\ Required(doc.artifact.id)
    /\ \E c \in DOMAIN doc.criteria : Required(doc.criteria[c].statement)
    /\ \A k \in (RequiredCheckKinds \ UnconfiguredKinds) \cup {"review"} :
         \E i \in DOMAIN doc.evidence[k].items :
           Observed(doc.evidence[k].items[i])
    /\ \E i \in DOMAIN doc.evidence["ship"].items :
         /\ doc.evidence["ship"].items[i].status = "passed"
         /\ Required(doc.evidence["ship"].items[i].ref)

\* A status that the view of a group holds is that of an item of it, with the
\* texts the schema asks for.
LEMMA ItemInView ==
  ASSUME DocInv, NEW k \in Kinds, NEW s \in EvidenceOf(doc)[k].items
  PROVE  \E i \in DOMAIN doc.evidence[k].items :
           /\ doc.evidence[k].items[i].status = s
           /\ Required(doc.evidence[k].items[i].ref)
           /\ s = "waived" => Required(doc.evidence[k].items[i].waiverReason)
<1>1. doc \in Docs /\ ValidState(doc)
  BY DEF DocInv
<1>2. doc.evidence \in [Kinds -> Groups]
  BY <1>1 DEF Docs
<1>3. EvidenceOf(doc)[k] = GroupOf(doc, k)
  BY <1>2 DEF EvidenceOf
<1>4. PICK i \in DOMAIN doc.evidence[k].items :
        doc.evidence[k].items[i].status = s
  BY <1>3 DEF GroupOf
<1>5. doc.evidence[k].items \in Seq(Items)
  BY <1>2 DEF Groups
<1>6. doc.evidence[k].items[i] \in Items
  BY <1>4, <1>5
<1>7. EvidenceItemOK(doc.evidence[k].items[i])
  BY <1>1, <1>4 DEF ValidState
<1>8. doc.evidence[k].items[i].waiverReason \in Texts
  BY <1>6 DEF Items
<1> QED
  BY <1>4, <1>7, <1>8, TextsGiven DEF EvidenceItemOK

\* Whatever is shipped says in portable texts what it was for and what was
\* observed: the schema looks at one text at a time and the gates at none, and
\* yet no sequence of commands ships a document whose trail has a blank in it.
THEOREM ShippedHasTexts == Spec => []ShippedWithTexts
<1>1. DocInv /\ Evidenced!ShippedIsEvidenced => ShippedWithTexts
  <2> SUFFICES ASSUME DocInv, Evidenced!ShippedIsEvidenced, state = "shipped"
               PROVE  /\ Required(doc.goal)
                      /\ \/ /\ doc.artifact.type = "waived"
                            /\ Required(doc.artifact.reason)
                         \/ /\ doc.artifact.type \notin {"waived", None}
                            /\ Required(doc.artifact.id)
                      /\ \E c \in DOMAIN doc.criteria :
                           Required(doc.criteria[c].statement)
                      /\ \A k \in (RequiredCheckKinds \ UnconfiguredKinds)
                                    \cup {"review"} :
                           \E i \in DOMAIN doc.evidence[k].items :
                             Observed(doc.evidence[k].items[i])
                      /\ \E i \in DOMAIN doc.evidence["ship"].items :
                           /\ doc.evidence["ship"].items[i].status = "passed"
                           /\ Required(doc.evidence["ship"].items[i].ref)
    BY DEF ShippedWithTexts
  <2>1. doc \in Docs /\ ValidState(doc)
    BY DEF DocInv
  <2>2. /\ Evidenced!Ready /\ Evidenced!Checked
        /\ Evidenced!Reviewed /\ Evidenced!Released
    BY DEF Evidenced!ShippedIsEvidenced
  <2>3. GoalOf(doc) /\ ArtifactOf(doc) /\ Evidenced!KnownCriteria # {}
    BY <2>2 DEF Evidenced!Ready
  <2>4. Required(doc.goal)
    BY <2>1, <2>3, TextsGiven DEF Docs, GoalOf, ValidState
  <2>5. \/ doc.artifact.type = "waived" /\ Required(doc.artifact.reason)
        \/ /\ doc.artifact.type \notin {"waived", None}
           /\ Required(doc.artifact.id)
    BY <2>1, <2>3 DEF ArtifactOf, ValidState, ArtifactOK
  <2>6. \E c \in DOMAIN doc.criteria : Required(doc.criteria[c].statement)
    <3>1. PICK c \in 1..MaxRevision : CriteriaOf(doc)[c].status # "absent"
      BY <2>3 DEF Evidenced!KnownCriteria
    <3>2. c \in DOMAIN doc.criteria
      BY <3>1 DEF CriteriaOf, CriterionOf
    <3> QED
      BY <2>1, <3>2 DEF ValidState, CriterionOK
  <2>7. ASSUME NEW k \in (RequiredCheckKinds \ UnconfiguredKinds)
                           \cup {"review"}
        PROVE  \E i \in DOMAIN doc.evidence[k].items :
                 Observed(doc.evidence[k].items[i])
    <3>1. k \in Kinds
      BY KindsGiven
    <3>2. PICK s \in {"passed", "waived"} : s \in EvidenceOf(doc)[k].items
      BY <2>2 DEF Evidenced!Checked, Evidenced!Reviewed
    <3> QED
      BY <3>1, <3>2, ItemInView DEF Observed
  <2>8. \E i \in DOMAIN doc.evidence["ship"].items :
          /\ doc.evidence["ship"].items[i].status = "passed"
          /\ Required(doc.evidence["ship"].items[i].ref)
    <3>1. "ship" \in Kinds /\ "passed" \in EvidenceOf(doc)["ship"].items
      BY <2>2, KindsGiven DEF Evidenced!Released
    <3> QED
      BY <3>1, ItemInView
  <2> QED
    BY <2>4, <2>5, <2>6, <2>7, <2>8
<1>2. Evidenced!Spec => []Evidenced!ShippedIsEvidenced
  BY Evidenced!ShippedWorkIsEvidenced, EvidencedAssumptions
<1> QED
  BY <1>1, <1>2, DocInvHolds, DocumentImplements, SameDocument, PTL
     DEF ImplementsEngineeringState

-----------------------------------------------------------------------------
(* The gate.                                                               *)

\* The hooks that write, and where each may write to: the runtime file of
\* the directory, or that of the state there is.
Writers == [op : {"write"}, id : Ids, file : Files, dirty : BOOLEAN]

IdsKept ==
  /\ IF stateFile.exists THEN stateFile.id = Derived
     ELSE \A s \in Sessions : runtime["remote"][s] = NoLease
  /\ \A s \in Sessions : hook[s] # NoHook =>
       \/ hook[s].id = "local"
       \/ stateFile.exists /\ hook[s].id = stateFile.id

\* What a hook is about to write differs from what is there by the lease of
\* its session alone, unless another one has written since it read.
HooksClean ==
  \A s, t \in Sessions :
    /\ hook[s] # NoHook /\ ~hook[s].dirty /\ t # s
    => hook[s].file[t] = runtime[hook[s].id][t]

\* The lease of a session that has ended is gone from the present file, or
\* goes with the hook under way.
EndedOK(s) ==
  IF hook[s] = NoHook THEN runtime[RepositoryId][s] = NoLease
  ELSE /\ hook[s].file[s] = NoLease
       /\ hook[s].id # RepositoryId => runtime[RepositoryId][s] = NoLease

\* A session that runs has a lease the gate finds, or a hook that leaves one.
AliveOK(s) ==
  IF hook[s] = NoHook THEN Lease(s) # NoLease
  ELSE hook[s].file[s] # NoLease

GateInv ==
  /\ GateTypeOK /\ IsFiniteSet(commits)
  /\ IdsKept
  /\ HooksClean
  /\ ~missed => \A s \in Sessions :
       IF s \in alive THEN AliveOK(s) ELSE EndedOK(s)

LEMMA WritersTyped ==
  ASSUME GateTypeOK, NEW s \in Sessions, hook[s] # NoHook
  PROVE  hook[s] \in Writers
BY DEF GateTypeOK, Writers

LEMMA RepositoryIdTyped == GateTypeOK => RepositoryId \in Ids
BY DEF GateTypeOK, RepositoryId, Ids

LEMMA LeaseTyped ==
  ASSUME GateTypeOK, NEW s \in Sessions
  PROVE  Lease(s) \in Times \union {NoLease}
<1>1. \A i \in Ids : runtime[i][s] \in Times \union {NoLease}
  BY DEF GateTypeOK, Files
<1>2. stateFile.id \in Ids /\ "local" \in Ids
  BY DEF GateTypeOK, Ids
<1> QED
  BY <1>1, <1>2 DEF Lease

LEMMA GateInitially == GateInit => GateInv
<1> SUFFICES ASSUME GateInit PROVE GateInv
  OBVIOUS
<1> USE GateAssumption
<1>1. GateTypeOK
  <2>1. 0 \in Times /\ NoLease \in Times \union {NoLease}
    BY DEF Times
  <2>2. runtime \in [Ids -> Files]
    BY <2>1 DEF GateInit, Files
  <2>3. stateFile \in [exists : BOOLEAN, readable : BOOLEAN, id : Ids,
                       at : Times]
    BY <2>1 DEF GateInit, Ids
  <2>4. starts \in 0 .. MaxStarts
    BY DEF GateInit
  <2> QED
    BY <2>1, <2>2, <2>3, <2>4 DEF GateInit, GateTypeOK
<1>2. IsFiniteSet(commits)
  BY FS_EmptySet DEF GateInit
<1>3. IdsKept /\ HooksClean
  BY DEF GateInit, IdsKept, HooksClean, Ids
<1>4. ASSUME NEW s \in Sessions PROVE s \notin alive /\ EndedOK(s)
  BY DEF GateInit, EndedOK, RepositoryId, Ids
<1> QED
  BY <1>1, <1>2, <1>3, <1>4 DEF GateInv

\* A hook that has read is about to write the present file with its own
\* lease changed; one that could not read leaves all as it was.
LEMMA ReadKeeps ==
  ASSUME GateInv, NEW s \in Sessions, NEW file \in Files,
         hook[s] = NoHook, Read(s, file),
         \A t \in Sessions : t # s => file[t] = runtime[RepositoryId][t],
         UNCHANGED <<stateFile, runtime>>
  PROVE  /\ hook' \in [Sessions -> {NoHook} \union Writers]
         /\ missed' \in BOOLEAN /\ (missed => missed')
         /\ \A t \in Sessions : t # s => hook'[t] = hook[t]
         /\ ~missed' => /\ hook'[s] # NoHook
                        /\ hook'[s].id = RepositoryId
                        /\ hook'[s].file = file
         /\ IdsKept' /\ HooksClean'
<1> DEFINE new == [op |-> "write", id |-> RepositoryId, file |-> file,
                   dirty |-> FALSE]
<1>1. CASE missed' = TRUE /\ UNCHANGED hook
  BY <1>1 DEF GateInv, GateTypeOK, Writers, IdsKept, HooksClean
<1>2. CASE hook' = [hook EXCEPT ![s] = new] /\ UNCHANGED missed
  <2>1. new \in Writers /\ new # NoHook
    BY RepositoryIdTyped DEF GateInv, Writers, NoHook
  <2>2. hook \in [Sessions -> {NoHook} \union Writers]
    BY DEF GateInv, GateTypeOK, Writers
  <2>3. /\ hook'[s] = new
        /\ \A t \in Sessions : t # s => hook'[t] = hook[t]
    BY <1>2, <2>2
  <2>4. /\ new.id = RepositoryId /\ new.file = file /\ new.dirty = FALSE
    OBVIOUS
  <2> HIDE DEF new
  <2>5. IdsKept'
    BY <2>3, <2>4 DEF GateInv, IdsKept, RepositoryId
  <2>6. HooksClean'
    <3> SUFFICES ASSUME NEW u \in Sessions, NEW t \in Sessions,
                        hook'[u] # NoHook, ~hook'[u].dirty, t # u
                 PROVE  hook'[u].file[t] = runtime'[hook'[u].id][t]
      BY DEF HooksClean
    <3>1. CASE u = s
      BY <3>1, <2>3, <2>4
    <3>2. CASE u # s
      BY <3>2, <2>3 DEF GateInv, HooksClean
    <3> QED
      BY <3>1, <3>2
  <2> QED
    BY <1>2, <2>1, <2>2, <2>3, <2>4, <2>5, <2>6 DEF GateInv, GateTypeOK
<1> QED
  BY <1>1, <1>2 DEF Read

LEMMA StartKeeps ==
  ASSUME GateInv, NEW s \in Sessions, Start(s)
  PROVE  GateInv'
<1> USE GateAssumption
<1> DEFINE old == runtime[RepositoryId]
           file == Registered(old, s)
<1>1. old \in Files
  BY RepositoryIdTyped DEF GateInv, GateTypeOK
<1>2. /\ file \in Files /\ file[s] # NoLease
      /\ \A t \in Sessions : t # s => file[t] = old[t]
  BY <1>1 DEF GateInv, GateTypeOK, Registered, Files, Times, NoLease
<1>3. /\ hook[s] = NoHook /\ Read(s, file)
      /\ UNCHANGED <<now, stateFile, runtime, commits, verdict>>
      /\ alive' = alive \union {s}
  BY DEF Start
<1> HIDE DEF file
<1>4. /\ hook' \in [Sessions -> {NoHook} \union Writers]
      /\ missed' \in BOOLEAN /\ (missed => missed')
      /\ \A t \in Sessions : t # s => hook'[t] = hook[t]
      /\ ~missed' => /\ hook'[s] # NoHook
                     /\ hook'[s].file = file
      /\ IdsKept' /\ HooksClean'
  BY <1>2, <1>3, ReadKeeps
<1>5. /\ began' \in [Sessions -> Times] /\ alive' \subseteq Sessions
      /\ starts' \in 0 .. MaxStarts
  BY DEF GateInv, GateTypeOK, Start
<1>6. GateTypeOK'
  BY <1>3, <1>4, <1>5 DEF GateInv, GateTypeOK, Writers
<1>7. ASSUME ~missed', NEW t \in Sessions
      PROVE  IF t \in alive' THEN AliveOK(t)' ELSE EndedOK(t)'
  <2>1. CASE t = s
    BY <2>1, <1>2, <1>3, <1>4, <1>7 DEF AliveOK
  <2>2. CASE t # s
    <3>1. hook'[t] = hook[t] /\ (t \in alive' <=> t \in alive)
      BY <2>2, <1>3, <1>4
    <3>2. IF t \in alive THEN AliveOK(t) ELSE EndedOK(t)
      BY <1>4, <1>7 DEF GateInv
    <3>3. AliveOK(t) => AliveOK(t)'
      BY <3>1, <1>3 DEF AliveOK, Lease
    <3>4. EndedOK(t) => EndedOK(t)'
      BY <3>1, <1>3 DEF EndedOK, RepositoryId
    <3> QED
      BY <3>1, <3>2, <3>3, <3>4
  <2> QED
    BY <2>1, <2>2
<1> QED
  BY <1>3, <1>4, <1>6, <1>7 DEF GateInv

LEMMA EndKeeps ==
  ASSUME GateInv, NEW s \in Sessions, End(s)
  PROVE  GateInv'
<1> USE GateAssumption
<1> DEFINE old == runtime[RepositoryId]
           file == Released(old, s)
<1>1. old \in Files
  BY RepositoryIdTyped DEF GateInv, GateTypeOK
<1>2. /\ file \in Files /\ file[s] = NoLease
      /\ \A t \in Sessions : t # s => file[t] = old[t]
  BY <1>1 DEF Released, Files
<1>3. /\ hook[s] = NoHook /\ Read(s, file)
      /\ UNCHANGED <<now, stateFile, runtime, commits, starts>>
      /\ alive' = alive \ {s}
  BY DEF End
<1> HIDE DEF file
<1>4. /\ hook' \in [Sessions -> {NoHook} \union Writers]
      /\ missed' \in BOOLEAN /\ (missed => missed')
      /\ \A t \in Sessions : t # s => hook'[t] = hook[t]
      /\ ~missed' => /\ hook'[s] # NoHook
                     /\ hook'[s].id = RepositoryId
                     /\ hook'[s].file = file
      /\ IdsKept' /\ HooksClean'
  BY <1>2, <1>3, ReadKeeps
<1>5. /\ began' \in [Sessions -> Times] /\ alive' \subseteq Sessions
      /\ verdict' \in [Sessions -> {"none", "off", "blocked", "passed"}]
  BY DEF GateInv, GateTypeOK, End, Times
<1>6. GateTypeOK'
  BY <1>3, <1>4, <1>5 DEF GateInv, GateTypeOK, Writers
<1>7. ASSUME ~missed', NEW t \in Sessions
      PROVE  IF t \in alive' THEN AliveOK(t)' ELSE EndedOK(t)'
  <2>1. CASE t = s
    <3>1. RepositoryId' = RepositoryId
      BY <1>3 DEF RepositoryId
    <3> QED
      BY <2>1, <3>1, <1>2, <1>3, <1>4, <1>7 DEF EndedOK
  <2>2. CASE t # s
    <3>1. hook'[t] = hook[t] /\ (t \in alive' <=> t \in alive)
      BY <2>2, <1>3, <1>4
    <3>2. IF t \in alive THEN AliveOK(t) ELSE EndedOK(t)
      BY <1>4, <1>7 DEF GateInv
    <3>3. AliveOK(t) => AliveOK(t)'
      BY <3>1, <1>3 DEF AliveOK, Lease
    <3>4. EndedOK(t) => EndedOK(t)'
      BY <3>1, <1>3 DEF EndedOK, RepositoryId
    <3> QED
      BY <3>1, <3>2, <3>3, <3>4
  <2> QED
    BY <2>1, <2>2
<1> QED
  BY <1>3, <1>4, <1>6, <1>7 DEF GateInv

\* A write that no other came before changes the lease of its session, and
\* warns the hooks that have read what it replaces.
LEMMA WriteKeeps ==
  ASSUME GateInv, NEW s \in Sessions, Write(s)
  PROVE  GateInv'
<1> USE GateAssumption
<1> DEFINE h == hook[s]
<1>1. /\ h # NoHook /\ h \in Writers /\ h.id \in Ids /\ h.file \in Files
      /\ h.dirty \in BOOLEAN
  BY WritersTyped DEF GateInv, Write, Writers
<1>2. /\ runtime' = [runtime EXCEPT ![h.id] = h.file]
      /\ runtime \in [Ids -> Files]
      /\ missed' = (missed \/ h.dirty)
      /\ UNCHANGED <<world, verdict>>
  BY DEF Write, GateInv, GateTypeOK
<1>3. /\ runtime' \in [Ids -> Files] /\ runtime'[h.id] = h.file
      /\ \A i \in Ids : i # h.id => runtime'[i] = runtime[i]
  BY <1>1, <1>2
<1>4. /\ hook'[s] = NoHook
      /\ \A t \in Sessions : t # s /\ hook[t] = NoHook => hook'[t] = NoHook
  BY DEF Write
<1>5. ASSUME NEW t \in Sessions, t # s, hook[t] # NoHook
      PROVE  /\ hook'[t] # NoHook /\ hook'[t] \in Writers
             /\ hook'[t].id = hook[t].id /\ hook'[t].file = hook[t].file
             /\ hook[t].dirty => hook'[t].dirty
             /\ hook[t].id = h.id /\ h.file # runtime[h.id]
                  => hook'[t].dirty
  <2>1. hook[t] \in Writers
    BY <1>5, WritersTyped DEF GateInv
  <2>2. hook'[t] = IF hook[t].id = h.id /\ h.file # runtime[h.id]
                   THEN [hook[t] EXCEPT !.dirty = TRUE] ELSE hook[t]
    BY <1>5 DEF Write
  <2>3. /\ [hook[t] EXCEPT !.dirty = TRUE] \in Writers
        /\ [hook[t] EXCEPT !.dirty = TRUE].id = hook[t].id
        /\ [hook[t] EXCEPT !.dirty = TRUE].file = hook[t].file
        /\ [hook[t] EXCEPT !.dirty = TRUE].dirty
    BY <2>1 DEF Writers
  <2>4. \A x \in Writers : x # NoHook
    BY DEF Writers, NoHook
  <2> QED
    BY <2>1, <2>2, <2>3, <2>4
<1>6. hook' \in [Sessions -> {NoHook} \union Writers]
  <2>1. \A t \in Sessions : hook'[t] \in {NoHook} \union Writers
    BY <1>4, <1>5
  <2>2. \E f : hook' = [t \in Sessions |-> f[t]]
    <3>1. hook' = [t \in Sessions |-> hook'[t]]
      BY DEF Write
    <3> QED
      BY <3>1
  <2> QED
    BY <2>1, <2>2
<1>7. GateTypeOK'
  BY <1>1, <1>2, <1>3, <1>6 DEF GateInv, GateTypeOK, Writers, world
<1>8. UNCHANGED <<stateFile, alive, commits>> /\ RepositoryId' = RepositoryId
  BY <1>2 DEF world, RepositoryId
<1>9. ASSUME ~h.dirty, NEW t \in Sessions, t # s, NEW i \in Ids
      PROVE  runtime'[i][t] = runtime[i][t]
  BY <1>1, <1>3, <1>9 DEF GateInv, HooksClean
<1>10. IdsKept'
  <2>1. ASSUME ~stateFile.exists, NEW t \in Sessions
        PROVE  runtime'["remote"][t] = NoLease
    <3>1. h.id = "local" /\ "remote" \in Ids
      BY <1>1, <2>1 DEF GateInv, IdsKept, Ids
    <3> QED
      BY <2>1, <3>1, <1>3 DEF GateInv, IdsKept
  <2>2. ASSUME NEW t \in Sessions, hook'[t] # NoHook
        PROVE  \/ hook'[t].id = "local"
               \/ stateFile.exists /\ hook'[t].id = stateFile.id
    <3>1. t # s /\ hook[t] # NoHook
      BY <1>4, <2>2
    <3> QED
      BY <3>1, <1>5 DEF GateInv, IdsKept
  <2> QED
    BY <1>8, <2>1, <2>2 DEF GateInv, IdsKept
<1>11. HooksClean'
  <2> SUFFICES ASSUME NEW u \in Sessions, NEW t \in Sessions,
                      hook'[u] # NoHook, ~hook'[u].dirty, t # u
               PROVE  hook'[u].file[t] = runtime'[hook'[u].id][t]
    BY DEF HooksClean
  <2>1. u # s /\ hook[u] # NoHook
    BY <1>4
  <2>2. /\ ~hook[u].dirty /\ hook'[u].id = hook[u].id
        /\ hook'[u].file = hook[u].file /\ hook[u].id \in Ids
        /\ hook[u].id = h.id => h.file = runtime[h.id]
    BY <2>1, <1>5, WritersTyped DEF GateInv, Writers
  <2>3. runtime'[hook[u].id] = runtime[hook[u].id]
    BY <2>2, <1>3
  <2> QED
    BY <2>1, <2>2, <2>3 DEF GateInv, HooksClean
<1>12. ASSUME ~missed', NEW t \in Sessions
       PROVE  IF t \in alive' THEN AliveOK(t)' ELSE EndedOK(t)'
  <2>1. ~missed /\ ~h.dirty
    BY <1>1, <1>2, <1>12
  <2>2. IF t \in alive THEN AliveOK(t) ELSE EndedOK(t)
    BY <2>1 DEF GateInv
  <2>3. /\ RepositoryId \in Ids /\ "local" \in Ids /\ stateFile.id \in Ids
    BY RepositoryIdTyped DEF GateInv, GateTypeOK, Ids
  <2>4. CASE t = s
    <3>1. CASE t \in alive
      <4>1. h.file[s] # NoLease
        BY <2>2, <2>4, <3>1, <1>1 DEF AliveOK
      <4>2. \/ h.id = "local"
            \/ stateFile.exists /\ h.id = stateFile.id
        BY <1>1 DEF GateInv, IdsKept
      <4>3. Lease(s)' # NoLease
        BY <4>1, <4>2, <1>3, <1>8, <2>3 DEF Lease
      <4> QED
        BY <3>1, <4>3, <2>4, <1>4, <1>8 DEF AliveOK
    <3>2. CASE t \notin alive
      <4>1. /\ h.file[s] = NoLease
            /\ h.id # RepositoryId => runtime[RepositoryId][s] = NoLease
        BY <2>2, <2>4, <3>2, <1>1 DEF EndedOK
      <4>2. runtime'[RepositoryId][s] = NoLease
        BY <4>1, <1>3, <2>3
      <4> QED
        BY <3>2, <4>2, <2>4, <1>4, <1>8 DEF EndedOK
    <3> QED
      BY <3>1, <3>2
  <2>5. CASE t # s
    <3>1. \A i \in Ids : runtime'[i][t] = runtime[i][t]
      BY <2>1, <2>5, <1>9
    <3>2. /\ hook'[t] = NoHook <=> hook[t] = NoHook
          /\ hook[t] # NoHook => /\ hook'[t].id = hook[t].id
                                 /\ hook'[t].file = hook[t].file
      BY <2>5, <1>4, <1>5
    <3>3. Lease(t)' = Lease(t)
      BY <3>1, <2>3, <1>8 DEF Lease
    <3>4. AliveOK(t) => AliveOK(t)'
      BY <3>2, <3>3 DEF AliveOK
    <3>5. EndedOK(t) => EndedOK(t)'
      BY <3>1, <3>2, <2>3, <1>8 DEF EndedOK
    <3> QED
      BY <2>2, <3>4, <3>5, <1>8
  <2> QED
    BY <2>4, <2>5
<1> QED
  BY <1>7, <1>8, <1>10, <1>11, <1>12 DEF GateInv

LEMMA HookDiesKeeps ==
  ASSUME GateInv, NEW s \in Sessions, HookDies(s)
  PROVE  GateInv'
<1>1. /\ UNCHANGED <<now, stateFile, runtime, alive, began, commits, verdict,
                     starts>>
      /\ hook' = [hook EXCEPT ![s] = NoHook] /\ missed' = TRUE
  BY DEF HookDies, world
<1>2. hook \in [Sessions -> {NoHook} \union Writers]
  BY DEF GateInv, GateTypeOK, Writers
<1>3. /\ hook' \in [Sessions -> {NoHook} \union Writers]
      /\ \A t \in Sessions : hook'[t] = NoHook \/ hook'[t] = hook[t]
  BY <1>1, <1>2
<1>4. GateTypeOK'
  BY <1>1, <1>3 DEF GateInv, GateTypeOK, Writers
<1>5. IdsKept' /\ HooksClean'
  BY <1>1, <1>3 DEF GateInv, IdsKept, HooksClean
<1> QED
  BY <1>1, <1>4, <1>5 DEF GateInv

\* Steps that neither touch a lease nor a hook nor who runs, and leave the
\* state's identity alone.
LEMMA OthersKeep ==
  ASSUME GateInv, GateTypeOK', IsFiniteSet(commits'),
         UNCHANGED <<runtime, hook, alive, missed>>,
         stateFile'.exists = stateFile.exists, stateFile'.id = stateFile.id
  PROVE  GateInv'
<1>1. RepositoryId' = RepositoryId
  BY DEF RepositoryId
<1>2. \A s \in Sessions : Lease(s)' = Lease(s)
  BY DEF Lease
<1>3. IdsKept' /\ HooksClean'
  BY DEF GateInv, IdsKept, HooksClean
<1>4. \A s \in Sessions : /\ AliveOK(s) => AliveOK(s)'
                          /\ EndedOK(s) => EndedOK(s)'
  BY <1>1, <1>2 DEF AliveOK, EndedOK
<1> QED
  BY <1>3, <1>4 DEF GateInv

LEMMA StopKeeps ==
  ASSUME GateInv, NEW s \in Sessions, Stop(s)
  PROVE  GateInv'
<1>1. /\ UNCHANGED <<now, stateFile, runtime, hook, alive, began, commits,
                     starts, missed>>
      /\ \E v \in {"off", "blocked", "passed"} :
           verdict' = [verdict EXCEPT ![s] = v]
  BY DEF Stop, world
<1>2. GateTypeOK'
  BY <1>1 DEF GateInv, GateTypeOK
<1> QED
  BY <1>1, <1>2, OthersKeep DEF GateInv

LEMMA PromptKeeps ==
  ASSUME GateInv, NEW s \in Sessions, Prompt(s)
  PROVE  GateInv'
<1>1. UNCHANGED <<now, stateFile, runtime, hook, alive, began, commits,
                  starts, missed>>
  BY DEF Prompt, world
<1>2. GateTypeOK'
  BY <1>1 DEF GateInv, GateTypeOK, Prompt
<1> QED
  BY <1>1, <1>2, OthersKeep DEF GateInv

LEMMA CommitKeeps ==
  ASSUME GateInv, NEW s \in Sessions, Commit(s)
  PROVE  GateInv'
<1> USE GateAssumption
<1> DEFINE n == Cardinality(commits)
           new == [by |-> s, at |-> now, nr |-> n + 1]
<1>1. n \in Nat /\ n < MaxCommits
  BY FS_CardinalityType DEF GateInv, Commit
<1>2. n + 1 \in 1 .. MaxCommits
  <2> HIDE DEF n
  <2> QED
    BY <1>1
<1>3. new \in [by : Sessions, at : Times, nr : 1 .. MaxCommits]
  BY <1>2 DEF GateInv, GateTypeOK
<1>4. commits' = commits \union {new}
  BY DEF Commit
<1> HIDE DEF new
<1>5. IsFiniteSet(commits')
  BY <1>4, FS_AddElement DEF GateInv
<1>6. UNCHANGED <<now, stateFile, runtime, hook, alive, began, verdict,
                  starts, missed>>
  BY DEF Commit
<1>7. GateTypeOK'
  BY <1>3, <1>4, <1>6 DEF GateInv, GateTypeOK
<1> QED
  BY <1>5, <1>6, <1>7, OthersKeep

\* The state comes into being: under an identity of its own no session has
\* a lease yet, and none that hooks will write.
LEMMA StateInitKeeps ==
  ASSUME GateInv, StateInit
  PROVE  GateInv'
<1> USE GateAssumption
<1>1. /\ UNCHANGED <<now, runtime, hook, alive, began, commits, verdict,
                     starts, missed>>
      /\ ~stateFile.exists
      /\ stateFile' = [exists |-> TRUE, readable |-> TRUE, id |-> Derived,
                       at |-> now]
  BY DEF StateInit, Others
<1>2. /\ stateFile' \in [exists : BOOLEAN, readable : BOOLEAN, id : Ids,
                         at : Times]
      /\ stateFile'.exists /\ stateFile'.id = Derived
  BY <1>1 DEF GateInv, GateTypeOK, Ids
<1>3. GateTypeOK'
  BY <1>1, <1>2 DEF GateInv, GateTypeOK
<1>4. RepositoryId = "local" /\ RepositoryId' = Derived
  BY <1>1, <1>2 DEF RepositoryId
<1>5. /\ \A s \in Sessions : runtime["remote"][s] = NoLease
      /\ \A s \in Sessions : hook[s] # NoHook => hook[s].id = "local"
  BY <1>1 DEF GateInv, IdsKept
<1>6. IdsKept' /\ HooksClean'
  BY <1>1, <1>2, <1>5 DEF GateInv, IdsKept, HooksClean
<1>7. ASSUME ~missed, NEW s \in Sessions
      PROVE  IF s \in alive THEN AliveOK(s)' ELSE EndedOK(s)'
  <2>1. IF s \in alive THEN AliveOK(s) ELSE EndedOK(s)
    BY <1>7 DEF GateInv
  <2>2. AliveOK(s) => AliveOK(s)'
    BY <1>1, <1>2 DEF AliveOK, Lease
  <2>3. EndedOK(s) => EndedOK(s)'
    <3>1. CASE Derived = "local"
      BY <3>1, <1>1, <1>4 DEF EndedOK
    <3>2. CASE Derived = "remote"
      BY <3>2, <1>1, <1>4, <1>5 DEF EndedOK
    <3> QED
      BY <3>1, <3>2
  <2> QED
    BY <2>1, <2>2, <2>3
<1> QED
  BY <1>1, <1>3, <1>6, <1>7 DEF GateInv

LEMMA StateUpdateKeeps ==
  ASSUME GateInv, StateUpdate \/ StateBreaks
  PROVE  GateInv'
<1>1. /\ UNCHANGED <<now, runtime, hook, alive, began, commits, verdict,
                     starts, missed>>
      /\ \/ stateFile' = [stateFile EXCEPT !.at = now]
         \/ stateFile' = [stateFile EXCEPT !.readable = ~@]
  BY DEF StateUpdate, StateBreaks, Others
<1>2. /\ stateFile \in [exists : BOOLEAN, readable : BOOLEAN, id : Ids,
                        at : Times]
      /\ now \in Times
  BY DEF GateInv, GateTypeOK
<1>3. /\ stateFile' \in [exists : BOOLEAN, readable : BOOLEAN, id : Ids,
                         at : Times]
      /\ stateFile'.exists = stateFile.exists
      /\ stateFile'.id = stateFile.id
  BY <1>1, <1>2
<1>4. GateTypeOK'
  BY <1>1, <1>3 DEF GateInv, GateTypeOK
<1> QED
  BY <1>1, <1>3, <1>4, OthersKeep DEF GateInv

LEMMA TickKeeps ==
  ASSUME GateInv, Tick \/ UNCHANGED gateVars
  PROVE  GateInv'
<1> USE GateAssumption
<1>1. /\ UNCHANGED <<stateFile, runtime, hook, alive, began, commits,
                     verdict, starts, missed>>
      /\ now' \in Times
  BY DEF GateInv, GateTypeOK, Tick, Others, gateVars, Times
<1>2. GateTypeOK'
  BY <1>1 DEF GateInv, GateTypeOK
<1> QED
  BY <1>1, <1>2, OthersKeep DEF GateInv

LEMMA GateInvariant == GateSpec => []GateInv
<1>1. GateInv /\ [GateNext]_gateVars => GateInv'
  BY StartKeeps, EndKeeps, WriteKeeps, HookDiesKeeps, StopKeeps,
     PromptKeeps, CommitKeeps, StateInitKeeps, StateUpdateKeeps, TickKeeps
  DEF GateNext
<1> QED
  BY <1>1, GateInitially, PTL DEF GateSpec

\* The runtime files, the hooks and the state stay in their types.
THEOREM GateTypesHold == GateSpec => []GateTypeOK
<1>1. GateInv => GateTypeOK
  BY DEF GateInv
<1> QED
  BY <1>1, GateInvariant, PTL

\* A session that has ended, and whose hook has, holds no lease in the
\* runtime file the repository has at present.
THEOREM EndedHoldNoLease == GateSpec => []EndedSessionsHoldNoLease
<1>1. GateInv => EndedSessionsHoldNoLease
  BY DEF GateInv, EndedOK, EndedSessionsHoldNoLease, GateTypeOK
<1> QED
  BY <1>1, GateInvariant, PTL

\* Seconds: what lies in one, what comes before the next, and their order.
LEMMA SecondSpans ==
  ASSUME NEW t \in Times
  PROVE  /\ Second(t) \in Nat
         /\ Second(t) * Unit <= t + Offset
         /\ t + Offset < Second(t) * Unit + Unit
<1> DEFINE a == t + Offset
<1>1. a \in Nat /\ Unit \in Nat \ {0}
  BY GateAssumption DEF Times
<1>2. /\ a \div Unit \in Nat
      /\ (a \div Unit) * Unit <= a
      /\ a < (a \div Unit) * Unit + Unit
  <2> HIDE DEF a
  <2> QED
    BY <1>1, Z3
<1> QED
  BY <1>2 DEF Second

LEMMA ProductsGrow ==
  ASSUME NEW m \in Nat, NEW n \in Nat, m + 1 <= n
  PROVE  m * Unit + Unit <= n * Unit
<1>1. Unit \in Nat
  BY GateAssumption
<1>2. PICK k \in Nat : n = (m + 1) + k
  <2>1. n - (m + 1) \in Nat /\ n = (m + 1) + (n - (m + 1))
    OBVIOUS
  <2> QED
    BY <2>1
<1>3. n * Unit = (m * Unit + Unit) + k * Unit
  BY <1>1, <1>2, Z3
<1>4. k * Unit \in Nat /\ m * Unit \in Nat /\ k * Unit >= 0
  BY <1>1, Z3
<1> QED
  BY <1>1, <1>3, <1>4

LEMMA SecondsOrdered ==
  ASSUME NEW t \in Times, NEW u \in Times, t <= u
  PROVE  Second(t) <= Second(u)
<1> SUFFICES ASSUME Second(u) + 1 <= Second(t)
             PROVE  FALSE
  BY SecondSpans
<1>1. Second(u) * Unit + Unit <= Second(t) * Unit
  BY ProductsGrow, SecondSpans
<1>2. /\ Second(t) * Unit <= t + Offset
      /\ u + Offset < Second(u) * Unit + Unit
  BY SecondSpans
<1>3. /\ Second(t) * Unit \in Nat /\ Second(u) * Unit \in Nat
      /\ Unit \in Nat /\ Offset \in Nat /\ t \in Nat /\ u \in Nat
  BY SecondSpans, GateAssumption DEF Times
<1> QED
  BY <1>1, <1>2, <1>3

\* Only the gate lets a session pass or blocks it.
LEMMA GateDecides ==
  ASSUME GateInv, GateNext, NEW s \in Sessions,
         verdict'[s] # verdict[s], verdict'[s] # "none"
  PROVE  Stop(s)
<1>1. verdict \in [Sessions -> {"none", "off", "blocked", "passed"}]
  BY DEF GateInv, GateTypeOK
<1>2. ~UNCHANGED verdict
  OBVIOUS
<1>3. ASSUME NEW t \in Sessions, End(t) \/ Prompt(t)
      PROVE  FALSE
  <2>1. verdict' = [verdict EXCEPT ![t] = "none"]
    BY <1>3 DEF End, Prompt
  <2> QED
    BY <2>1, <1>1
<1>4. ASSUME NEW t \in Sessions, Stop(t)
      PROVE  t = s
  BY <1>1, <1>4 DEF Stop
<1> QED
  BY <1>2, <1>3, <1>4
  DEF GateNext, Tick, StateInit, StateUpdate, StateBreaks, Others, Start,
      Write, HookDies, Commit

\* How the gate comes to its verdicts.
LEMMA GateVerdicts ==
  ASSUME GateInv, NEW s \in Sessions, Stop(s)
  PROVE  /\ s \in alive /\ hook[s] = NoHook
         /\ verdict'[s] = "blocked" => Blocks(s)
         /\ verdict'[s] = "passed" /\ verdict[s] = "none" => ~Blocks(s)
<1>1. verdict \in [Sessions -> {"none", "off", "blocked", "passed"}]
  BY DEF GateInv, GateTypeOK
<1>2. PICK configured \in BOOLEAN :
        verdict' = [verdict EXCEPT ![s] =
          CASE ~IsEnforced(s, configured) -> "off"
            [] /\ IsEnforced(s, configured)
               /\ verdict[s] = "none" /\ Blocks(s) -> "blocked"
            [] OTHER -> "passed"]
  BY DEF Stop
<1>3. verdict'[s] = CASE ~IsEnforced(s, configured) -> "off"
                      [] /\ IsEnforced(s, configured)
                         /\ verdict[s] = "none" /\ Blocks(s) -> "blocked"
                      [] OTHER -> "passed"
  BY <1>1, <1>2
<1>4. /\ verdict'[s] = "blocked" => Blocks(s)
      /\ verdict'[s] = "passed" /\ verdict[s] = "none" => ~Blocks(s)
  BY <1>3
<1> QED
  BY <1>4 DEF Stop

\* The gate blocks a session over a commit that the state does not account
\* for and that is no older than the session, to the second, unless its
\* lease is older than the session.
THEOREM BlocksDeserved == GateSpec => BlocksAreDeserved
<1>1. ASSUME GateInv, [GateNext]_gateVars, NEW s \in Sessions,
             verdict[s] # "blocked", verdict'[s] = "blocked"
      PROVE  \E c \in commits :
               /\ stateFile.exists => c.at > stateFile.at
               /\ \/ Second(c.at) >= Second(began[s])
                  \/ Lease(s) < began[s]
  <2>1. Stop(s)
    BY <1>1, GateDecides DEF gateVars
  <2>2. /\ Lease(s) # NoLease
        /\ Activity(Lease(s)) # {}
        /\ ~UpdatedAfter(Activity(Lease(s)), Lease(s))
    BY <1>1, <2>1, GateVerdicts DEF Blocks
  <2>3. /\ Lease(s) \in Times /\ began[s] \in Times
        /\ stateFile.at \in Times
        /\ \A c \in commits : c.at \in Times
    BY <1>1, <2>2, LeaseTyped DEF GateInv, GateTypeOK
  <2>4. PICK c \in Activity(Lease(s)) :
          stateFile.exists => stateFile.at + Offset < Second(c.at) * Unit
    <3>1. \A c \in Activity(Lease(s)) :
            /\ stateFile.at + Offset \in Int
            /\ Second(c.at) * Unit \in Int
      BY <2>3, SecondSpans, GateAssumption DEF Activity, Times
    <3> QED
      BY <2>2, <3>1 DEF UpdatedAfter
  <2>5. c \in commits /\ Second(c.at) >= Second(Lease(s))
    BY DEF Activity
  <2>6. stateFile.exists => c.at > stateFile.at
    <3> SUFFICES ASSUME stateFile.exists PROVE c.at > stateFile.at
      OBVIOUS
    <3>1. stateFile.at + Offset < Second(c.at) * Unit
      BY <2>4
    <3>2. Second(c.at) * Unit <= c.at + Offset
      BY <2>3, <2>5, SecondSpans
    <3>3. /\ Second(c.at) * Unit \in Nat /\ Offset \in Nat
          /\ c.at \in Nat /\ stateFile.at \in Nat
      BY <2>3, <2>5, SecondSpans, GateAssumption DEF Times
    <3> QED
      BY <3>1, <3>2, <3>3
  <2>7. CASE Lease(s) < began[s]
    BY <2>5, <2>6, <2>7
  <2>8. CASE ~(Lease(s) < began[s])
    <3>1. began[s] <= Lease(s)
      BY <2>3, <2>8 DEF Times
    <3>2. Second(began[s]) <= Second(Lease(s))
      BY <2>3, <3>1, SecondsOrdered
    <3>3. /\ Second(began[s]) \in Nat /\ Second(Lease(s)) \in Nat
          /\ Second(c.at) \in Nat
      BY <2>3, <2>5, SecondSpans
    <3> QED
      BY <2>5, <2>6, <3>2, <3>3
  <2> QED
    BY <2>7, <2>8
<1>2. GateInv /\ [GateNext]_gateVars =>
        [\A s \in Sessions :
           verdict[s] # "blocked" /\ verdict'[s] = "blocked" =>
             \E c \in commits :
               /\ stateFile.exists => c.at > stateFile.at
               /\ Second(c.at) >= Second(began[s])
                  \/ Lease(s) < began[s]]_gateVars
  BY <1>1
<1> QED
  BY <1>2, GateInvariant, PTL DEF GateSpec, BlocksAreDeserved

\* Whatever sessions, hooks and clocks there are: commits unaccounted for
\* get past the gate at the first try for the reasons named, and no other.
THEOREM PassesCaused == GateSpec => PassesHaveACause
<1>1. ASSUME GateInv, [GateNext]_gateVars, NEW s \in Sessions, Passes(s),
             NEW c \in Unaccounted(s),
             ~missed, stateFile.readable,
             stateFile.exists => Second(c.at) # Second(stateFile.at)
      PROVE  Lease(s) > began[s]
  <2>1. Stop(s)
    BY <1>1, GateDecides DEF gateVars, Passes
  <2>2. /\ s \in alive /\ hook[s] = NoHook /\ ~Blocks(s)
    BY <1>1, <2>1, GateVerdicts DEF Passes
  <2>3. Lease(s) # NoLease
    BY <1>1, <2>2 DEF GateInv, AliveOK
  <2>4. /\ Lease(s) \in Times /\ began[s] \in Times
        /\ stateFile.at \in Times /\ c.at \in Times /\ c \in commits
        /\ c.at >= began[s] /\ (stateFile.exists => c.at > stateFile.at)
    BY <1>1, <2>3, LeaseTyped DEF GateInv, GateTypeOK, Unaccounted
  <2> SUFFICES ASSUME Lease(s) <= began[s]
               PROVE  FALSE
    BY <2>4 DEF Times
  <2>5. c \in Activity(Lease(s))
    <3>1. Lease(s) <= c.at
      BY <2>4 DEF Times
    <3>2. Second(Lease(s)) <= Second(c.at)
      BY <2>4, <3>1, SecondsOrdered
    <3>3. Second(Lease(s)) \in Nat /\ Second(c.at) \in Nat
      BY <2>4, SecondSpans
    <3> QED
      BY <2>4, <3>2, <3>3 DEF Activity
  <2>6. UpdatedAfter(Activity(Lease(s)), Lease(s))
    BY <1>1, <2>2, <2>3, <2>5 DEF Blocks
  <2>7. /\ stateFile.exists
        /\ stateFile.at + Offset >= Second(c.at) * Unit
    BY <2>5, <2>6 DEF UpdatedAfter
  <2>8. /\ Second(c.at) \in Nat /\ Second(stateFile.at) \in Nat
        /\ Second(stateFile.at) <= Second(c.at)
    BY <2>4, <2>7, SecondSpans, SecondsOrdered DEF Times
  <2>9. Second(stateFile.at) + 1 <= Second(c.at)
    BY <1>1, <2>7, <2>8
  <2>10. Second(stateFile.at) * Unit + Unit <= Second(c.at) * Unit
    BY <2>8, <2>9, ProductsGrow
  <2>11. stateFile.at + Offset < Second(stateFile.at) * Unit + Unit
    BY <2>4, SecondSpans
  <2>12. /\ Second(stateFile.at) * Unit + Unit \in Nat
         /\ Second(c.at) * Unit \in Nat /\ stateFile.at + Offset \in Nat
    BY <2>4, <2>8, GateAssumption DEF Times
  <2> HIDE DEF Second
  <2> QED
    BY <2>7, <2>10, <2>11, <2>12
<1>2. GateInv /\ [GateNext]_gateVars =>
        [\A s \in Sessions :
           Passes(s) /\ Unaccounted(s) # {} =>
             \/ missed
             \/ ~stateFile.readable
             \/ /\ stateFile.exists
                /\ \E c \in Unaccounted(s) :
                     Second(c.at) = Second(stateFile.at)
             \/ Lease(s) > began[s]]_gateVars
  BY <1>1
<1> QED
  BY <1>2, GateInvariant, PTL DEF GateSpec, PassesHaveACause
=============================================================================
