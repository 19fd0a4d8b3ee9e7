SPECIFICATION Spec
CONSTANTS
  Inputs <- MCInputs
  Depth <- MCDepth
  Env <- MCEnv
INVARIANTS
  LayoutKept
  ParamsPassed
