SPECIFICATION Spec
CONSTANTS
  Code <- Functions
  Parts <- MCParts
  Tidy <- MCTidy
  Entry = {"kill_health_monitor_main"}
  Given = {}
  Calm = {TRUE, FALSE}
  Others = {}
  NoCon = NoCon
  MaxFailures = 0
INVARIANT HealthFailureKills
