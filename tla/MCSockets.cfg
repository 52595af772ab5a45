\* A listener and two connections, three sockets, a message in two parts.
SPECIFICATION FairSpec
CONSTANTS
  Descriptors <- ThreeDescriptors
  Foreign <- NoneOrOne
  Capacity = 1
  Backlog = 1
  MaxSockets = 3
  Threads = {t1, t2}
  Listeners = {l}
  Connections = {c1, c2}
  NoObject = NoObject
  MessageSize = 2
  MaxBytes = 2
CHECK_DEADLOCK FALSE
INVARIANTS
  DescriptorsAreOwned
  FlagsAreTrue
  StreamsAreIntact
PROPERTIES
  OnlyClosedCallsFail
  CloseStopsCalls
