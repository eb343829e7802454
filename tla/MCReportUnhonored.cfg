SPECIFICATION Spec
CONSTANTS
  Runs = {"p1"}
  Files = {"config", "report", "notes", "page", "dash"}
  DashFile = "dash"
  CommandLines <- UnhonoredLines
  Before <- Workspaces
  Stdout = Stdout
  Dash = Dash
  Nothing = Nothing
INVARIANTS
  DestinationsHonored
CHECK_DEADLOCK FALSE
