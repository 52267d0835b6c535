SPECIFICATION EngineSpec
CONSTANTS
  l1 = l1
  l2 = l2
  l3 = l3
  l4 = l4
  x = x
  y = y
  job = job
  destNs = destNs
  otherNs = otherNs
  argocd = argocd
  label = label
  helm = helm
  hook = hook
  version = version
  None = None
  AnyName = AnyName
  ContextLines = 1
  HookKey <- MCHookKey
  Lines <- MCLines
  Inputs <- MCInputs
CHECK_DEADLOCK FALSE
INVARIANTS
  EngineTypeOK
  LongestChain
  PatchApplies
  HunksTight
  DiffsExact
  ResultConsistent
