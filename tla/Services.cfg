SPECIFICATION ServicesSpec
CONSTANTS
  None = None
  a1 = a1
  a2 = a2
  Order <- MCOrder
  Duration <- MCDuration
  Scenes <- MCScenes
  Sounds <- MCSounds
  Later <- MCLater
  Gaps = {1, 3}
  Beat = 3
  MinPeriod = 2
  MaxPeriod = 6
  BeatsPerBar = 2
  GapLimit = 12
  MinInterval = 1
  LockCount = 1
  FreshFor = 3
  MaxLateness = 1
  BarsPerPhrase = 2
  Subdivisions = 1
  RhythmicCooldown = 1
  AccentCooldown = 4
  Catalog = {"rhythmic", "accent", "drop"}
  MaxActive = 2
  MaxBeats = 3
  MaxGrids = 5
  ActivationDelay = 1
  IdleFrames = 2
  MinShow = 2
  MaxShow = 6
  SwitchCooldown = 1
  CycleInterval = 2
  Fade = 1
  MaxTime = 12
  MaxSubmits = 1
  Helpers = {"h1", "h2"}
  Profiles = {"p1", "p2", "p3"}
  Confirm <- MCConfirm
  Hold <- MCHold
  Span <- MCSpan
  Arm = 5
  MinBuildup = 8
  DropCooldown = 6
  Gap = 5
  Stripes = {"s1", "s2"}
  Values = {"v1", "v2"}
  Sequence = {"q1", "q2", "q3"}
  MaxSequences = 2
  Aspects = {"a", "b"}
  Devices = {"m1", "m2"}
  Enough = 2
  MaxFrames = 4
  MaxInputs = 2
  Names = {"n1", "n2"}
  FirstName = "n1"
INVARIANTS OnlyProvenConnect SettingsHold ProfileIsMeasured NamesAgree
PROPERTIES TimesAgree ChangesOnTime NetworkKept PhasesAreConfirmed
CHECK_DEADLOCK FALSE
