\* Every combination of one or two scope values, for either session.
SPECIFICATION Spec
CONSTANTS
  Pieces <- MCPieces
  AuthSessions <- MCAuthSessions
  AllowedScopes <- MCAllowedScopes
  ScopeParameters <- MCScopeParameters
INVARIANTS TypeOK ReadersAgree ConsoleScopesPass
CHECK_DEADLOCK FALSE
