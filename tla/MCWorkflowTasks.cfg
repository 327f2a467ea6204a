SPECIFICATION TasksSpec
CONSTANTS
  KeyLength = 4
  Characters <- MCCharacters
  Permissions = {"edit", "view"}
  Null = Null
  Sent <- MCSent
  People = {"al", "bo", "ad"}
  Admins = {"ad"}
  Creator = "al"
  Granted <- MCGranted
  Units <- MCUnits
  Members <- MCMembers
  Mappings <- MCMappings
  Facts <- MCFacts
  Payloads <- MCPayloads
  MaxDepth = 3
  MaxActions = 2
  Unpublished = Unpublished
  NoTask = NoTask
INVARIANTS
  SavedGraphsAreSound
  TasksReachPeople
CHECK_DEADLOCK FALSE
