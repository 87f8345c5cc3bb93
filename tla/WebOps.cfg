SPECIFICATION OpsSpec
CONSTANTS
  None = None
  Failed = Failed
  Kv2Level <- MCKv2Level
  Prefixes = {"", "f/"}
  Kv2Values = {"x"}
  Kv2Scenes <- MCKv2Scenes
  Kv1Level <- MCKv1Level
  Kv1Prefixes = {"", "f/"}
  Kv1Scenes <- MCKv1Scenes
  Nodes <- MCNodes
  Me = "n1"
  ClScenes <- MCClScenes
  RingSize = 2
  TailCap = 2
  LlScenes <- MCLlScenes
  Sinks <- MCSinks
  SkScenes <- MCSkScenes
  Caps <- MCCaps
  WrScenes <- MCWrScenes
  Shards <- MCShards
  Threshold = 2
  StScenes <- MCStScenes
CHECK_DEADLOCK FALSE
INVARIANT OpsPagesTrue
INVARIANT TailFaithful
INVARIANT UnwrapHonest
INVARIANT CasMakesRetrySafe
PROPERTY OpsChangesShown
PROPERTY OpsActsAsConfirmed
PROPERTY OpsResponsive
