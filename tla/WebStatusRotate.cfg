SPECIFICATION OpsSpec
CONSTANTS
  None = None
  Failed = Failed
  Kv2Level <- MCKv2Level
  Prefixes = {"", "f/"}
  Kv2Values = {"x"}
  Kv2Scenes = {}
  Kv1Level <- MCKv1Level
  Kv1Prefixes = {"", "f/"}
  Kv1Scenes = {}
  Nodes <- MCNodes
  Me = "n1"
  ClScenes = {}
  RingSize = 2
  TailCap = 2
  LlScenes = {}
  Sinks <- MCSinks
  SkScenes = {}
  Caps <- MCCaps
  WrScenes = {}
  Shards <- MCShards
  Threshold = 2
  StScenes <- MCStRotated
INVARIANT SharesOpen
CHECK_DEADLOCK FALSE
