\* A thread that controls handlers from within its callbacks, one that only
\* processes requests and two that only control handlers; one resource.
SPECIFICATION FairSpec
CONSTANTS
  Processors = {p1, p2}
  Controllers = {p1, c1, c2}
  Handlers = {h1, h2}
  Ids <- IdsOneResource
  Requests <- RequestsOneResource
  ValidPaths <- AllPaths
  TypeNames <- OneName
  SubtypeNames <- OneName
  RetiredTypes <- CustomValue
  RetiredSubtypes <- UnsetValue
  TypeLimit = 4
  SubtypeLimit = 4
  NoId = NoId
  NoHandler = NoHandler
INVARIANTS
  TypeOK
  UsageCountsHolders
  HeldHandlersStayConnected
  EntriesBelongToHandles
  WaiterReferencesLiveMap
  VectorsListMaps
PROPERTIES
  ImplementsRegistry
  OnlyAnotherIsWoken
  SomeDestructorFinishes
