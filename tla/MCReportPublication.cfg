SPECIFICATION Spec
CONSTANTS
  Runs = {"p1", "p2"}
  Files = {"config", "report", "notes", "page", "dash"}
  DashFile = "dash"
  CommandLines <- PassingLines
  Before <- Workspaces
  Stdout = Stdout
  Dash = Dash
  Nothing = Nothing
INVARIANTS
  ExitMeansPublished
  FailureNamesWhatExists
  InputsKept
  ExplainTellsOneStory
CHECK_DEADLOCK FALSE
