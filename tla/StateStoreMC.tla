---------------------------- MODULE StateStoreMC ----------------------------
(***************************************************************************)
(* StateStore with two processes, which are interchangeable, and the sets  *)
(* of commands and mishaps its run uses.                                   *)
(***************************************************************************)
EXTENDS StateStore, TLC

CONSTANTS p1, p2

TwoProcesses == {p1, p2}
Interchangeable == Permutations(TwoProcesses)

AllKinds == {"mutate", "init", "force-init", "repair"}
AllMishaps == {"crash", "append", "undo", "slow", "edit"}
=============================================================================
