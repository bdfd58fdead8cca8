------------------------- MODULE DispatchSessionMC -------------------------
(***************************************************************************)
(* DispatchSession with limits of one or two ticks.  The buffer of the     *)
(* daemon covers every call outside the deadline, but not the time a       *)
(* control call holds the loop.                                            *)
(***************************************************************************)
EXTENDS DispatchSession
=============================================================================
