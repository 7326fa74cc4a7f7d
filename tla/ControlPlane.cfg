SPECIFICATION Spec
CONSTANTS
  Topologies <- MCTopologies
  Outputs <- MCOutputs
  Initial = "wide"
  Looks = {"plain", "party"}
  Colors = {"plain", "warm"}
  Default = "plain"
  MaxCommands = 3
  MaxFaults = 1
  MaxLate = 1
  MaxLead = 2
INVARIANTS EngineAgrees TopologySurvivesCallers SettingsKept
PROPERTIES Recovers
