CONSTANTS
  Sessions = {s1, s2}
  Files = {f1, f2}
  Strict = FALSE
  Ttl = 0
  MaxTime = 1
  MaxOpen = 2
SYMMETRY Symmetry
SPECIFICATION Spec
INVARIANT StaleIsSilent
PROPERTY SharingHasACause
