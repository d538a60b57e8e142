SPECIFICATION Spec
CONSTANTS
  Code <- Functions
  Parts <- MCParts
  Tidy <- MCTidy
  Entry <- MCEntry
  Given <- MCGiven
  Calm = {TRUE, FALSE}
  Others = {"halt"}
  NoCon = NoCon
  MaxFailures = 1
INVARIANTS
  TypeOK ScriptsKeepTheirHandle LocksAreReleased HandlesAreClosed NothingIsTraded BreachIsRecorded
