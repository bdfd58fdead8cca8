---------------------------- MODULE StateDocument ----------------------------
(***************************************************************************)
(* What `octowiz state` writes: the contents of the state document and of  *)
(* the ledger, with the texts, the reasons and the references that         *)
(* EngineeringState leaves out.  A command (src/state/cli.js) builds       *)
(* the arguments of one operation (operations.js, transitions.js); what    *)
(* the operation makes of the document must pass the schema (validateState *)
(* of schema.js), and its event the ledger's own check (buildEvent of      *)
(* ledger.js), before either is written.  What the store does around this  *)
(* (locks, crashes, the order of the writes) is the matter of StateStore.  *)
(*                                                                         *)
(* A text is None (not given), Blank, Plain, or Local: one with a machine  *)
(* path or a credential in it.  Identifiers are random and never used      *)
(* twice; here an item is known by its position.                           *)
(***************************************************************************)
EXTENDS Naturals, Sequences, FiniteSets, SequencesExt

CONSTANTS
  RequiredCheckKinds, UnconfiguredKinds, \* as in EngineeringState
  ArtifactTypes,     \* the types a caller links
  StatusesRecorded,  \* the statuses a caller passes
  MaxRevision        \* bound on the revision

ASSUME DocumentAssumption ==
  /\ RequiredCheckKinds \subseteq {"tests", "lint", "types"}
  /\ UnconfiguredKinds \subseteq RequiredCheckKinds
  /\ "tests" \in RequiredCheckKinds \ UnconfiguredKinds
  /\ StatusesRecorded \subseteq {"pending", "passed", "failed", "waived"}
  /\ MaxRevision \in Nat

VARIABLES
  state, status, phase, blockedFrom,  \* where the work is
  doc,                                \* the other fields of the document
  ledger                              \* the texts the ledger has on record

place == <<state, status, phase, blockedFrom>>
vars == <<place, doc, ledger>>

None == "none"
Blank == "blank"
Plain == "plain"
Local == "local"
Texts == {None, Blank, Plain, Local}
\* The texts tried where any text will do: a blank one is stored unread.
Optional == {None, Plain, Local}

\* portabilityViolation, and requireText with isNonEmptyString.
Portable(t) == t # Local
HasText(t) == t \in {Plain, Local}

-----------------------------------------------------------------------------
(* The document, seen as EngineeringState sees it.                         *)

Abstract ==
  INSTANCE EngineeringState WITH
    CriterionIds <- 1..MaxRevision, QuestionIds <- 1..MaxRevision,
    MaxEvidence <- 100,
    goal <- HasText(doc.goal),
    artifact <- doc.artifact.type # None,
    openQuestions <- {q \in DOMAIN doc.questions :
                        /\ doc.questions[q].blocking
                        /\ doc.questions[q].status = "open"},
    acceptanceCriteria <-
      [c \in 1..MaxRevision |->
         IF c \in DOMAIN doc.criteria
         THEN [status |-> doc.criteria[c].status,
               refs |-> doc.criteria[c].refs # {}]
         ELSE [status |-> "absent", refs |-> FALSE]],
    leanGate <- IF doc.leanGate.status = "pending" THEN "pending"
                ELSE "decided",
    evidence <-
      [k \in DOMAIN doc.evidence |->
         [status |-> doc.evidence[k].status,
          items |-> {doc.evidence[k].items[i].status :
                       i \in DOMAIN doc.evidence[k].items}]]

Kinds == Abstract!EvidenceKinds

NoArtifact == [type |-> None, id |-> None, url |-> None, reason |-> None]

InitialDoc ==
  [revision |-> 1, goal |-> None, artifact |-> NoArtifact,
   decisions |-> <<>>, questions |-> <<>>, criteria |-> <<>>,
   leanGate |-> [status |-> "pending", rung |-> None, decision |-> None,
                 rejected |-> {}, limits |-> None],
   evidence |-> [k \in Kinds |-> [status |-> Abstract!InitialStatus(k),
                                  items |-> <<>>]],
   complexityReview |-> [status |-> "pending", findings |-> {}]]

-----------------------------------------------------------------------------
(* validateState.  A required text must be there, not blank and portable;  *)
(* an optional one must only be portable.                                  *)

Required(t) == t = Plain

ArtifactOK(a) ==
  a.type # None =>
    /\ IF a.type = "waived" THEN Required(a.reason) ELSE Required(a.id)
    /\ Portable(a.url)

DecisionOK(d) == Required(d.statement) /\ Portable(d.reason)

QuestionOK(q) == Required(q.question) /\ Portable(q.answer)

CriterionOK(c) ==
  /\ Required(c.statement)
  /\ \A ref \in c.refs : Required(ref)
  /\ Portable(c.waiverReason)
  /\ c.status = "passed" => c.refs # {}
  /\ c.status = "waived" => HasText(c.waiverReason)

LeanGateOK(g) ==
  /\ Portable(g.decision) /\ Portable(g.limits)
  /\ \A alternative \in g.rejected : Required(alternative)
  /\ g.status = "passed" => g.rung # None /\ HasText(g.decision)

\* Mutant: the note is not looked at.
EvidenceItemOKMutant(item) ==
  /\ Required(item.ref)
  /\ Portable(item.waiverReason)
  /\ item.status = "waived" => HasText(item.waiverReason)

\* Mutant: the reason of a waiver is an unknown field.
EvidenceItemOKStrictMutant(item) ==
  /\ Required(item.ref)
  /\ Portable(item.note)
  /\ item.waiverReason = None

EvidenceItemOK(item) ==
  /\ Required(item.ref)
  /\ Portable(item.note) /\ Portable(item.waiverReason)
  /\ item.status = "waived" => HasText(item.waiverReason)

ValidState(d) ==
  /\ Portable(d.goal)
  /\ ArtifactOK(d.artifact)
  /\ \A i \in DOMAIN d.decisions : DecisionOK(d.decisions[i])
  /\ \A i \in DOMAIN d.questions : QuestionOK(d.questions[i])
  /\ \A i \in DOMAIN d.criteria : CriterionOK(d.criteria[i])
  /\ LeanGateOK(d.leanGate)
  /\ \A k \in Kinds : \A i \in DOMAIN d.evidence[k].items :
       EvidenceItemOK(d.evidence[k].items[i])
  /\ \A f \in d.complexityReview.findings : Required(f)

-----------------------------------------------------------------------------
(* operations.js.  Each operator gives the outcomes of a call: none when   *)
(* the operation throws, else the new document and the texts of its event. *)

Outcome(d, texts) == [doc |-> d, texts |-> texts]
Refused == {}
When(condition, outcome) == IF condition THEN {outcome} ELSE Refused

SetGoal(d, goal) ==
  When(HasText(goal), Outcome([d EXCEPT !.goal = goal], {goal}))

LinkArtifact(d, type, id, url) ==
  When(type \notin {None, "waived"} /\ HasText(id),
       Outcome([d EXCEPT !.artifact = [type |-> type, id |-> id, url |-> url,
                                       reason |-> None]],
               {id, url}))

WaiveArtifact(d, reason) ==
  When(HasText(reason),
       Outcome([d EXCEPT !.artifact = [NoArtifact EXCEPT !.type = "waived",
                                                         !.reason = reason]],
               {reason}))

NewDecision(statement, reason) ==
  [statement |-> statement, reason |-> reason, status |-> "accepted",
   supersededBy |-> 0]

\* Mutant: the decision superseded is replaced in place.
RecordDecisionMutant(d, statement, reason, supersedes) ==
  LET old == d.decisions
      new == NewDecision(statement, reason)
  IN When(HasText(statement) /\ supersedes \in {0} \cup DOMAIN old,
          Outcome([d EXCEPT !.decisions =
                     IF supersedes = 0 THEN Append(old, new)
                     ELSE [old EXCEPT ![supersedes] = new]],
                  {statement}))

\* Mutant: it is marked, and does not say what superseded it.
SupersededMutant(d, by) == [d EXCEPT !.status = "superseded"]

Superseded(d, by) == [d EXCEPT !.status = "superseded", !.supersededBy = by]

\* The decision superseded may be one that already is: it is only looked up.
RecordDecision(d, statement, reason, supersedes) ==
  LET old == d.decisions
      new == NewDecision(statement, reason)
  IN When(HasText(statement) /\ supersedes \in {0} \cup DOMAIN old,
          Outcome([d EXCEPT !.decisions =
                     Append([i \in DOMAIN old |->
                               IF i = supersedes
                               THEN Superseded(old[i], Len(old) + 1)
                               ELSE old[i]], new)],
                  {statement}))

OpenQuestion(d, question, blocking) ==
  When(HasText(question),
       Outcome([d EXCEPT !.questions =
                  Append(@, [question |-> question, blocking |-> blocking,
                             status |-> "open", answer |-> None])], {}))

ResolveQuestion(d, q, answer) ==
  When(q \in DOMAIN d.questions /\ d.questions[q].status = "open",
       Outcome([d EXCEPT !.questions[q] =
                  [@ EXCEPT !.status = "resolved", !.answer = answer]], {}))

AddCriterion(d, statement) ==
  When(HasText(statement),
       Outcome([d EXCEPT !.criteria =
                  Append(@, [statement |-> statement, status |-> "pending",
                             refs |-> {}, waiverReason |-> None])], {}))

\* A waiver keeps its reason when the criterion is updated later.
UpdateCriterion(d, c, newStatus, ref, reason) ==
  IF c \notin DOMAIN d.criteria THEN Refused
  ELSE LET old == d.criteria[c]
           refs == old.refs \cup ({ref} \ {None})
       IN When(/\ newStatus = "passed" => refs # {}
               /\ newStatus = "waived" => HasText(reason),
               Outcome([d EXCEPT !.criteria[c] =
                          [old EXCEPT !.refs = refs, !.status = newStatus,
                                      !.waiverReason =
                                        IF newStatus = "waived"
                                        THEN reason ELSE old.waiverReason]],
                       {}))

\* The concerns it says it waives are checked and not kept; `limits` is for
\* the ceiling and the upgrade trigger, which are treated alike.
RecordLeanGate(d, newStatus, rung, decision, rejected, limits, protected) ==
  When(/\ newStatus = "passed" => rung # None /\ HasText(decision)
       /\ ~protected,
       Outcome([d EXCEPT !.leanGate =
                  [status |-> newStatus,
                   rung |-> IF newStatus = "passed" THEN rung ELSE None,
                   decision |-> decision, rejected |-> rejected,
                   limits |-> limits]], {}))

RecordComplexityReview(d, newStatus, findings) ==
  When(newStatus \in {"passed", "waived"} /\ \A f \in findings : HasText(f),
       Outcome([d EXCEPT !.complexityReview = [status |-> newStatus,
                                               findings |-> findings]], {}))

\* Mutant: a group that has passed keeps that status.
RecordEvidenceMutant(d, kind, newStatus, ref, note, reason) ==
  When(/\ HasText(ref)
       /\ newStatus = "waived" => HasText(reason),
       LET item == [status |-> newStatus, ref |-> ref, note |-> note,
                    waiverReason |-> IF newStatus = "waived" THEN reason
                                     ELSE None]
       IN Outcome([d EXCEPT !.evidence[kind] =
                     [status |-> IF @.status = "passed" THEN "passed"
                                 ELSE newStatus,
                      items |-> Append(@.items, item)]],
                  {ref}))

RecordEvidence(d, kind, newStatus, ref, note, reason) ==
  When(/\ HasText(ref)
       /\ newStatus = "waived" => HasText(reason),
       LET item == [status |-> newStatus, ref |-> ref, note |-> note,
                    waiverReason |-> IF newStatus = "waived" THEN reason
                                     ELSE None]
       IN Outcome([d EXCEPT !.evidence[kind] =
                     [status |-> newStatus, items |-> Append(@.items, item)]],
                  {ref}))

-----------------------------------------------------------------------------
(* cli.js: the commands, over the texts a caller may give.  In the order   *)
(* of the file; `lean` and `complexity-review` choose their status by a    *)
(* flag, the others pass on what they were given.                          *)

SetGoalCalls(d, T) == UNION {SetGoal(d, goal) : goal \in T}

LinkArtifactCalls(d, T) ==
  (UNION {LinkArtifact(d, type, id, url) :
            type \in ArtifactTypes, id \in T, url \in T \cap Optional})
  \cup (UNION {WaiveArtifact(d, reason) : reason \in T})

DecideCalls(d, T) ==
  UNION {RecordDecision(d, statement, reason, supersedes) :
           statement \in T, reason \in T \cap Optional,
           supersedes \in 0..Len(d.decisions)}

AskCalls(d, T) ==
  UNION {OpenQuestion(d, question, blocking) :
           question \in T, blocking \in BOOLEAN}

ResolveQuestionCalls(d, T) ==
  UNION {ResolveQuestion(d, q, answer) :
           q \in DOMAIN d.questions, answer \in T \cap Optional}

AddCriterionCalls(d, T) == UNION {AddCriterion(d, s) : s \in T}

CriterionCalls(d, T) ==
  UNION {UpdateCriterion(d, c, s, ref, reason) :
           c \in DOMAIN d.criteria, s \in StatusesRecorded, ref \in T,
           reason \in T \cap Optional}

LeanCalls(d, T) ==
  UNION {RecordLeanGate(d, s, rung, decision, rejected, limits, protected) :
           s \in {"passed", "failed"}, rung \in {None, "shrink-design"},
           decision \in T, rejected \in {{}} \cup {{t} : t \in T \ {None}},
           limits \in T \cap Optional, protected \in BOOLEAN}

ComplexityReviewCalls(d, T) ==
  UNION {RecordComplexityReview(d, s, findings) :
           s \in {"passed", "waived"},
           findings \in {{}} \cup {{t} : t \in T \ {None}}}

EvidenceCalls(d, T) ==
  UNION {RecordEvidence(d, k, s, ref, note, reason) :
           k \in Kinds, s \in StatusesRecorded, ref \in T,
           note \in T \cap Optional, reason \in T \cap Optional}

-----------------------------------------------------------------------------
(* The write contract: validateState, then buildEvent, then both are       *)
(* written; a command that fails either check changes nothing.             *)

Accepts(o) == ValidState(o.doc) /\ \A t \in o.texts : Portable(t)

Mutate(outcomes) ==
  /\ doc.revision < MaxRevision
  /\ \E o \in outcomes :
       /\ Accepts(o)
       /\ doc' = [o.doc EXCEPT !.revision = @ + 1]
       /\ ledger' = ledger \cup o.texts
  /\ UNCHANGED place

\* The reason of a transition goes into the event and not into the document,
\* and only for a block, for the return from it, and for a waived activity
\* check, which needs one; otherwise it is dropped.
Transition ==
  /\ doc.revision < MaxRevision
  /\ \E texts \in {{}} \cup {{reason} : reason \in Texts} :
       /\ Accepts(Outcome(doc, texts))
       /\ doc' = [doc EXCEPT !.revision = @ + 1]
       /\ ledger' = ledger \cup texts
       /\ Abstract!TransitionTo
       /\ IF "blocked" \in {state, state'} THEN texts # {}
          ELSE None \notin texts

Init ==
  /\ state = "explore" /\ status = "active" /\ phase = "A"
  /\ blockedFrom = "none"
  /\ doc = InitialDoc
  /\ ledger = {}

Next ==
  \/ Transition
  \/ Mutate(SetGoalCalls(doc, Texts))
  \/ Mutate(LinkArtifactCalls(doc, Texts))
  \/ Mutate(DecideCalls(doc, Texts))
  \/ Mutate(AskCalls(doc, Texts))
  \/ Mutate(ResolveQuestionCalls(doc, Texts))
  \/ Mutate(AddCriterionCalls(doc, Texts))
  \/ Mutate(CriterionCalls(doc, Texts))
  \/ Mutate(LeanCalls(doc, Texts))
  \/ Mutate(ComplexityReviewCalls(doc, Texts))
  \/ Mutate(EvidenceCalls(doc, Texts))

Spec == Init /\ [][Next]_vars

-----------------------------------------------------------------------------
\* Nothing that ties the repository to a machine or looks like a credential
\* is ever on disk, in whatever field, document or event, it was given: each
\* field is checked one by one, and some texts are only in the event.
PersistedIsPortable ==
  LET evidence == UNION {Range(doc.evidence[k].items) : k \in Kinds}
      texts ==
        {doc.goal, doc.artifact.id, doc.artifact.url, doc.artifact.reason}
        \cup (UNION {{x.statement, x.reason} : x \in Range(doc.decisions)})
        \cup (UNION {{x.question, x.answer} : x \in Range(doc.questions)})
        \cup (UNION {{x.statement, x.waiverReason} \cup x.refs :
                       x \in Range(doc.criteria)})
        \cup (UNION {{x.ref, x.note, x.waiverReason} : x \in evidence})
        \cup {doc.leanGate.decision, doc.leanGate.limits}
        \cup doc.leanGate.rejected \cup doc.complexityReview.findings
        \cup ledger
  IN Local \notin texts

\* What an operation accepts, the schema and the ledger accept too, when
\* the texts have content and are portable: the rules of operations.js and
\* those of schema.js are written apart, and a command that one lets pass
\* and the other refuses could never be used.
OperationsMeetSchema ==
  LET T == {None, Plain} IN
  \A o \in SetGoalCalls(doc, T) \cup LinkArtifactCalls(doc, T)
           \cup DecideCalls(doc, T) \cup AskCalls(doc, T)
           \cup ResolveQuestionCalls(doc, T) \cup AddCriterionCalls(doc, T)
           \cup CriterionCalls(doc, T) \cup LeanCalls(doc, T)
           \cup ComplexityReviewCalls(doc, T) \cup EvidenceCalls(doc, T) :
    Accepts(o)

\* What is on record stays: decisions are superseded and not edited, the
\* answer of a resolved question is final, criteria keep their statement and
\* their references, evidence is only added to.  No operation but the one
\* for that field protects it.
HistoryIsKept ==
  [][/\ \A i \in DOMAIN doc.decisions :
          LET old == doc.decisions[i]
              new == doc'.decisions[i]
          IN /\ i \in DOMAIN doc'.decisions
             /\ new.statement = old.statement /\ new.reason = old.reason
             /\ old.status = "superseded" => new.status = "superseded"
     /\ \A i \in DOMAIN doc.questions :
          /\ i \in DOMAIN doc'.questions
          /\ doc.questions[i].status = "resolved" =>
               doc'.questions[i] = doc.questions[i]
     /\ \A i \in DOMAIN doc.criteria :
          /\ i \in DOMAIN doc'.criteria
          /\ doc'.criteria[i].statement = doc.criteria[i].statement
          /\ doc.criteria[i].refs \subseteq doc'.criteria[i].refs
     /\ \A k \in Kinds :
          IsPrefix(doc.evidence[k].items, doc'.evidence[k].items)]_vars

\* From a superseded decision one always gets, by what superseded it, to
\* one that stands: each names a later one.
SupersededLeadsOn ==
  \A i \in DOMAIN doc.decisions :
    LET d == doc.decisions[i] IN
    IF d.status = "superseded"
    THEN d.supersededBy \in (i + 1)..Len(doc.decisions)
    ELSE d.supersededBy = 0

\* The document with its texts implements EngineeringState: what that
\* specification leaves out never decides whether work may move on.
ImplementsEngineeringState == Abstract!Spec
=============================================================================
