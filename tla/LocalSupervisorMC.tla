------------------------- MODULE LocalSupervisorMC -------------------------
(***************************************************************************)
(* LocalSupervisor with two sessions, of one plugin version or of two, and *)
(* an idle timeout shorter than the sweep interval; with the order of the  *)
(* defaults, where the timeout is the longer one, the supervisor never     *)
(* exits.                                                                  *)
(***************************************************************************)
EXTENDS LocalSupervisor

SameOrNot ==
  {[s \in Sessions |-> "v1"],
   CHOOSE f \in [Sessions -> Versions] : \E s, t \in Sessions : f[s] # f[t]}
=============================================================================
