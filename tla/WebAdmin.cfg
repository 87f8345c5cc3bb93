SPECIFICATION AdminSpec
CONSTANTS
  None = None
  Failed = Failed
  Toks <- MCToks
  TkPolicies = {"p", "q"}
  MintTtl = 2
  TkScenes <- MCTkScenes
  Paths = {"sys", "kv"}
  Builtin = {"sys"}
  Ttls = {0, 1, 2}
  MtScenes <- MCMtScenes
  PlNames <- MCPlNames
  PlOrder <- MCPlOrder
  PlPaths <- MCPlPaths
  PlTexts <- MCPlTexts
  PlProbes <- MCPlProbes
  PlScenes <- MCPlScenes
  NsNames <- MCNsNames
  NsTexts = {"a", "x"}
  MaxSegments = 4
  NsScenes <- MCNsScenes
  Teams = {"t", "u"}
  TmScenes <- MCTmScenes
  AuNames = {"a", "b"}
  AuTexts = {"x", "y"}
  AuScenes <- MCAuScenes
  K8Keys = {"k", "l"}
  K8Bodies = {"k", "l"}
  K8Scenes <- MCK8Scenes
  TrNames <- MCTrNames
  TrBodies = {"x", "y"}
  TrTimes = {90, 3600}
  TrScenes <- MCTrScenes
  TsWhere <- MCTsWhere
  TsMaxRows = 2
  TsSources <- MCTsSources
  TsScenes <- MCTsScenes
CHECK_DEADLOCK FALSE
 
INVARIANT AdminPagesTrue
 
PROPERTY AdminChangesShown
 
 
 
PROPERTY AdminResponsive
