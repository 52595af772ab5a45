\* Two destructors wait for two handlers: notify_one wakes the wrong one.
SPECIFICATION FairSpec
CONSTANTS
  Processors = {p1, p2}
  Controllers = {c1, c2}
  Handlers = {h1, h2}
  Ids <- IdsTwoResources
  Requests <- RequestsTwoResources
  ValidPaths <- AllPaths
  TypeNames <- NoNames
  SubtypeNames <- NoNames
  RetiredTypes <- NoValues
  RetiredSubtypes <- NoValues
  TypeLimit = 4
  SubtypeLimit = 4
  NoId = NoId
  NoHandler = NoHandler
PROPERTY NoBlockLongerThanNeeded
