SPECIFICATION Spec
CONSTANTS
  Base <- MCBase
  OverrideFiles <- MCOverrideFiles
  Repositories <- MCRepositories
  Runtimes <- MCRuntimes
  DefaultRuntime = "claude-code"
  NoRuntime = "none"
  MaxMoves = 3
INVARIANTS LossIsDeclared PrependedAnswersFirst SettingsAddUp
           SelectionIsJustified
PROPERTY SelectionEnds
CHECK_DEADLOCK FALSE
