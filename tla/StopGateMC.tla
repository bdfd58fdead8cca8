----------------------------- MODULE StopGateMC -----------------------------
(***************************************************************************)
(* StopGate with two sessions and a clock of two points a second.          *)
(***************************************************************************)
EXTENDS StopGate, TLC

\* Both sessions follow the configuration and may be exchanged.
UnsetEnv == [s \in Sessions |-> "unset"]
Symmetric == Permutations(Sessions)
=============================================================================
