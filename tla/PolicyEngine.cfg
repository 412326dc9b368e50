SPECIFICATION EngineSpec
CONSTANTS
  Files <- MCFiles
  AgentLists <- MCAgentLists
  Trees <- MCTrees
  Depth <- MCDepth
  Fields <- MCFields
INVARIANTS UnknownNeverMatches AuditFollowsActions
PROPERTIES MatchesAreExact EveryMatchAudited
