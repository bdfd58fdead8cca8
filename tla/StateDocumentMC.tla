--------------------------- MODULE StateDocumentMC ---------------------------
(* StateDocument with one required check that is configured and one that   *)
(* is not.                                                                 *)
EXTENDS StateDocument

KindsUsed == {"tests", "types"}
KindsUnconfigured == {"types"}
ArtifactTypesUsed == {"issue", "pr"}
StatusesUsed == {"passed", "failed", "waived"}
=============================================================================
