\* Every stream of up to six bytes, in chunks of up to three.
SPECIFICATION FairSpec
CONSTANTS
  Others = {"text"}
  Sent <- AnyChunk
  chunk_size = 3
  MaxBytes = 6
  MaxLength = 2
INVARIANTS
  TypeOK
  AssertionsHold
  UnreadIsIntact
  HeaderIsNormalised
PROPERTY EveryChunkIsScanned
