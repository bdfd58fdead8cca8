CONSTANTS
  Processes = {p1, p2}
  Sessions = {s1}
  Redirects = {r1}
  NoRedirect = NoRedirect
  Requests <- OneOff
  MaxCommands = 3
SPECIFICATION AdmissionSpec
INVARIANTS
  CommandsAddUp
  ForwardedIsAccepted
PROPERTIES
  GatesHold
