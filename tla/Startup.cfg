\* Two processes, every kind of token, files with one fault, failures.
SPECIFICATION Spec
CHECK_DEADLOCK FALSE
CONSTANTS
  None = None
  Processes = {p1, p2}
  Vars <- MCVars
  Spaced <- MCSpaced
  Files <- MCFiles
  Envs <- MCEnvs
INVARIANTS
  TypeOK
  ServesOnSchema
  InitServesServers
  EndedIsClosed
  RoutesAskForTokens
PROPERTIES
  StartsConverge
