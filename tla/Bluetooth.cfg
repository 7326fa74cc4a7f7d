SPECIFICATION BluetoothSpec
CONSTANTS
  Sinks = {"speaker", "hdmi"}
INVARIANTS OneRoute
PROPERTIES RouteFollows
CHECK_DEADLOCK FALSE
