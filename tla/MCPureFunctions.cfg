\* Every day from 1970 to 2099, where the walk ends, and every text of up to
\* four pieces.
SPECIFICATION SpecAll
CONSTANTS
  Digit <- DigitValues
  Bits = 14
  Decoded <- DecodedPairs
  Schemes <- SchemePorts
  MaxPort = 99
  Pieces <- SomePieces
  MaxPieces = 4
  Gaps = {2, 4}
  Byte <- ByteValues
  MaxSize = 130
INVARIANTS
  AcceptsTheCalendar
  DatesAreRead
  CutDatesAreRefused
  PartsAreFound
  BuffersMayOverlap
  StaysInDestination
  CodedAsInRfc4648
  MessagesAreDigested
CHECK_DEADLOCK FALSE
