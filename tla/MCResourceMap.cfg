\* Keys that operator< orders consistently.
SPECIFICATION Spec
CONSTANT Keys <- ConsistentKeys
INVARIANTS
  FindsWhatIsConnected
PROPERTY ErasesOneNode
