----------------------------- MODULE Lifecycle -----------------------------
(***************************************************************************)
(* What the engineering workflow promises, without the document that       *)
(* carries it: a work item is at one stage, may be paused and resumed      *)
(* where it was, gathers facts that are never lost, and enters a gated     *)
(* stage only once the facts that gate asks for are on record.             *)
(* EngineeringState implements this specification.                         *)
(***************************************************************************)
CONSTANTS
  Stages,    \* the stages a work item goes through
  First,     \* the stage it begins at
  Final,     \* the stage nothing leaves
  Edges,     \* pairs of stages a single move may connect
  Facts,     \* what can be on record about the work
  Needs      \* for each edge, the facts it asks for

VARIABLES
  stage,     \* where the work item is, paused or not
  paused,    \* TRUE while the work is blocked
  facts      \* the facts on record

vars == <<stage, paused, facts>>

TypeOK ==
  /\ stage \in Stages
  /\ paused \in BOOLEAN
  /\ facts \subseteq Facts

Init ==
  /\ stage = First
  /\ paused = FALSE
  /\ facts = {}

Learn ==
  /\ facts' \in SUBSET Facts
  /\ facts \subseteq facts'
  /\ facts # facts'
  /\ UNCHANGED <<stage, paused>>

Move ==
  /\ ~paused
  /\ \E to \in Stages :
       /\ <<stage, to>> \in Edges
       /\ Needs[<<stage, to>>] \subseteq facts
       /\ stage' = to
  /\ UNCHANGED <<paused, facts>>

Pause ==
  /\ ~paused
  /\ stage # Final
  /\ paused' = TRUE
  /\ UNCHANGED <<stage, facts>>

Resume ==
  /\ paused
  /\ paused' = FALSE
  /\ UNCHANGED <<stage, facts>>

Next == Learn \/ Move \/ Pause \/ Resume

Spec == Init /\ [][Next]_vars
=============================================================================
