SPECIFICATION Spec
CONSTANTS
  MaxUpdates = 3
  Envs <- MCEnvs
  Default = Default
  Schemes = {"boolean", "incremental"}
  FlagMax = 5
INVARIANTS
  TypeOK
  
  WorkingProgramRemains
  
 
