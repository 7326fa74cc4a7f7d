SPECIFICATION Spec
CONSTANTS
  Phones = {"phone"}
  Backends = {"monitor"}
  Sources = {"auto", "mic", "bluetooth", "spotify"}
  MaxFaults = 1
INVARIANTS ChoicesKept
PROPERTIES AutoFollows
CHECK_DEADLOCK FALSE
