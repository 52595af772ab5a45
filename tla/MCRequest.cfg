\* Requests of up to two header fields, which arrive as a whole or in chunks of
\* sixteen bytes, and the requests of the unit tests.
SPECIFICATION RequestSpec
CONSTANTS
  Others <- SomeCharacters
  Sent <- SomeChunk
  chunk_size = 4000
  MaxLength = 12
  Digit <- DigitValues
  Bits = 20
  Decoded <- DecodedPairs
  Schemes <- SchemeTable
  MaxPort = 65535
  Lower <- SmallLetters
  Verbs <- get_method_trie
  Versions <- get_version_trie
  LaterVersions <- AfterHttp10
  HeaderKeys <- HeaderKinds
  KeepAlive <- keep_alive_str
  Dates <- SomeDates
  Types <- SomeTypes
  Subtypes <- SomeSubtypes
  Digest <- SomeDigest
  DefaultVerb <- GET
  MoreKeys <- NoKeys
  MaxFields = 2
  ChunkSizes = {16}
INVARIANTS
  StringsAreTerminated
  ParsedAsSent
  ContentIsComplete
  AnswersAsTested
PROPERTY StringsStay
CHECK_DEADLOCK FALSE
