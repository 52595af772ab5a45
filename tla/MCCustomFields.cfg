\* Requests of one header field, which may begin with a known one.
SPECIFICATION RequestSpec
CONSTANTS
  Others <- SomeCharacters
  Sent <- SomeChunk
  chunk_size = 4000
  MaxLength = 12
  Digit <- DigitValues
  Bits = 20
  Decoded <- DecodedPairs
  Schemes <- SchemeTable
  MaxPort = 65535
  Lower <- SmallLetters
  Verbs <- get_method_trie
  Versions <- get_version_trie
  LaterVersions <- AfterHttp10
  HeaderKeys <- HeaderKinds
  KeepAlive <- keep_alive_str
  Dates <- SomeDates
  Types <- SomeTypes
  Subtypes <- SomeSubtypes
  Digest <- SomeDigest
  DefaultVerb <- GET
  MoreKeys <- FromSomewhere
  MaxFields = 1
  ChunkSizes = {16}
INVARIANT CustomFieldsAreAvailable
CHECK_DEADLOCK FALSE
