--------------------------------- MODULE Uri ---------------------------------
(***************************************************************************)
(* uri, which copies the parts of an uri from a source to a destination,   *)
(* decoding them and ending each with a null character.  Both are places   *)
(* in one buffer, and may overlap.                                         *)
(*                                                                         *)
(* A pointer is a position in the buffer, and NULL is no position.  Spaces *)
(* and tabs are blanks.                                                    *)
(***************************************************************************)
EXTENDS Parsing

CONSTANTS
  Decoded,   \* from pairs of hexadecimal digits to characters
  Schemes,   \* from the schemes, which are texts, to their ports
  MaxPort    \* the largest value of an uint16_t

NULL == 0
UNKNOWN == <<>>

(* The uri before parse is called. *)
NewUri == [scheme |-> UNKNOWN, userinfo |-> NULL, host |-> NULL, port |-> 0,
           path |-> NULL, query |-> NULL, fragment |-> NULL]

Ends == {"blank", "cr", "lf", "nul"}

(* What parse_uri_word and its callers pass on, all by reference. *)
Cursor(buffer, source, source_length, destination, destination_length) ==
  [buffer |-> buffer, source |-> source, source_length |-> source_length,
   destination |-> destination, destination_length |-> destination_length]

Current(c) == c.buffer[c.source]

(* convert_char: the three characters are read, whatever they are. *)
ConvertChar(w, source, destination) ==
  LET code == <<w.buffer[source + w.head + 1], w.buffer[source + w.head + 2]>>
  IN  IF code \in DOMAIN Decoded
      THEN [w EXCEPT !.buffer[destination + w.tail] = Decoded[code],
                     !.head = @ + 3, !.tail = @ + 1]
      ELSE [w EXCEPT !.head = @ + 3, !.stop = TRUE]

ParsedWord(c, w) ==
  [buffer             |-> [w.buffer EXCEPT ![c.destination + w.tail] = "nul"],
   source             |-> c.source + w.head,
   source_length      |-> c.source_length - w.head,
   destination        |-> c.destination + w.tail + 1,
   destination_length |-> c.destination_length - (w.tail + 1)]

(* One round of the loop of parse_uri_word. *)
NextCharacter(c, stops, w) ==
  LET ch == w.buffer[c.source + w.head]
  IN  IF w.stop THEN w
      ELSE IF \/ ch \in stops
              \/ w.head >= c.source_length
              \/ w.tail >= c.destination_length
           THEN [w EXCEPT !.stop = TRUE]
      ELSE IF ch # "%"
           THEN [w EXCEPT !.buffer[c.destination + w.tail] = ch,
                          !.head = @ + 1, !.tail = @ + 1]
      ELSE IF c.source_length - w.head >= 3
           THEN ConvertChar(w, c.source, c.destination)
           ELSE [w EXCEPT !.tail = 0, !.stop = TRUE]

(***************************************************************************)
(* parse_uri_word: up to a character of stops, the end of the source or of *)
(* the destination, or an escape sequence that is none.  Its result is the *)
(* length of the word.                                                     *)
(***************************************************************************)
ParseWord(c, stops) ==
  LET word[n \in 0 .. c.source_length + 1] ==
        IF n = 0
        THEN [buffer |-> c.buffer, head |-> 0, tail |-> 0, stop |-> FALSE]
        ELSE NextCharacter(c, stops, word[n - 1])
  IN  ParsedWord(c, word[c.source_length + 1])

LengthOfWord(c, parsed) == parsed.destination - c.destination - 1

ConsumeOneCharacter(c) ==
  [c EXCEPT !.source = @ + 1, !.source_length = @ - 1]

(* Mutant: the word that was taken for a scheme keeps its null character. *)
UnconsumeNothing(c) == c

UnconsumeOneCharacter(c) ==
  [c EXCEPT !.destination = @ - 1, !.destination_length = @ + 1]

(* Mutant: one slash is enough. *)
SkipOneSlash(c) ==
  IF c.source_length >= 2 /\ Current(c) = "/"
  THEN ConsumeOneCharacter(ConsumeOneCharacter(c))
  ELSE c

SkipOptionalSlashes(c) ==
  IF c.source_length >= 2 /\ Current(c) = "/" /\ c.buffer[c.source + 1] = "/"
  THEN ConsumeOneCharacter(ConsumeOneCharacter(c))
  ELSE c

(* parse_optional_positional_token: the token begins with start or is not  *)
(* there.  Path, query and fragment are read in this order.                *)
IsPresent(c, start) ==
  c.source_length > 0 /\ c.destination_length > 0 /\ Current(c) = start

Token(data, part, start, skip, stops) ==
  IF ~IsPresent(data.cursor, start) THEN data
  ELSE [data EXCEPT
          ![part] = data.cursor.destination,
          !.cursor = ParseWord(IF skip THEN ConsumeOneCharacter(@) ELSE @, stops)]

-----------------------------------------------------------------------------
(***************************************************************************)
(* parse_1st_pass fills first_pass_data, with the cursor beside it.  It    *)
(* does not know at first whether it reads a scheme or an authority, and   *)
(* an authority that is read up to a colon is read on, over the null       *)
(* character that ended it.                                                *)
(***************************************************************************)
NewData(c) ==
  [cursor |-> c, scheme |-> c.destination, scheme_size |-> 0,
   authority |-> c.destination, authority_size |-> 0,
   path |-> NULL, query |-> NULL, fragment |-> NULL]

PartStarts == {"/", "?", "#"}

WithAuthority(data, before, length, after) ==
  [data EXCEPT !.authority_size = length + LengthOfWord(before, after),
               !.cursor = after]

RestOfAuthority(data, c, length) ==
  IF Current(c) \in PartStarts
  THEN [data EXCEPT !.authority_size = length, !.cursor = c]
  ELSE WithAuthority(data, c, length, ParseWord(c, PartStarts \cup Ends))

WithFirstWord(data, word, skip_scheme) ==
  IF ~skip_scheme /\ Current(word) = ":"
  THEN RestOfAuthority([data EXCEPT !.scheme_size = LengthOfWord(data.cursor, word),
                                    !.authority = word.destination],
                       SkipOptionalSlashes(ConsumeOneCharacter(word)), 0)
  ELSE RestOfAuthority(data, IF Current(word) = ":" THEN UnconsumeOneCharacter(word)
                                                    ELSE word,
                       LengthOfWord(data.cursor, word))

SchemeAndAuthority(data, skip_scheme) ==
  IF Current(data.cursor) \in PartStarts THEN data
  ELSE WithFirstWord(data, ParseWord(data.cursor, {":"} \cup PartStarts \cup Ends),
                     skip_scheme)

FirstPass(c, skip_scheme) ==
  Token(Token(Token(SchemeAndAuthority(NewData(c), skip_scheme),
                    "path", "/", FALSE, {"?", "#"} \cup Ends),
              "query", "?", TRUE, {"#"} \cup Ends),
        "fragment", "#", TRUE, Ends)

PassedFirstPass(data) ==
  data.cursor.source_length = 0 \/ Current(data.cursor) \in Ends

TextAt(buffer, begin, size) == SubSeq(buffer, begin, begin + size - 1)

(* parse_scheme changes the uri; it fails when the uri has no scheme then. *)
ParseScheme(parsed, text) ==
  IF text = <<>> THEN parsed
  ELSE IF text \in DOMAIN Schemes
  THEN [parsed EXCEPT !.uri.scheme = text, !.uri.port = Schemes[text]]
  ELSE [parsed EXCEPT !.parsed = parsed.uri.scheme # UNKNOWN]

(***************************************************************************)
(* parse_authority: the first @ ends the userinfo, the first colon behind  *)
(* it the host, and what follows is a port or nothing.                     *)
(***************************************************************************)
FirstOf(buffer, begin, size, ch) ==
  LET found == {i \in begin .. begin + size - 1 : buffer[i] = ch}
  IN  IF found = {} THEN NULL ELSE CHOOSE i \in found : \A j \in found : i <= j

Terminated(buffer, at) == IF at = NULL THEN buffer ELSE [buffer EXCEPT ![at] = "nul"]

ParsePort(parsed, port, number) ==
  IF port = <<>> THEN parsed
  ELSE IF number.used = Len(port) /\ number.result \in 1 .. MaxPort
  THEN [parsed EXCEPT !.uri.port = number.result]
  ELSE [parsed EXCEPT !.parsed = FALSE]

ParseHost(parsed, host, size, colon) ==
  LET port == IF colon = NULL THEN <<>>
              ELSE SubSeq(parsed.buffer, colon + 1, host + size - 1)
  IN  ParsePort([parsed EXCEPT !.uri.host = host, !.buffer = Terminated(@, colon)],
                port, ParseUnsignedInteger(port))

ParseUserinfo(parsed, begin, size, at) ==
  IF at = NULL
  THEN ParseHost(parsed, begin, size, FirstOf(parsed.buffer, begin, size, ":"))
  ELSE ParseHost([parsed EXCEPT !.uri.userinfo = begin, !.buffer = Terminated(@, at)],
                 at + 1, begin + size - (at + 1),
                 FirstOf(parsed.buffer, at + 1, begin + size - (at + 1), ":"))

ParseAuthority(parsed, begin, size) ==
  IF size = 0 THEN parsed
  ELSE ParseUserinfo(parsed, begin, size, FirstOf(parsed.buffer, begin, size, "@"))

-----------------------------------------------------------------------------
maximum_uri_enlargement == 3

(* Mutant: the null characters are forgotten. *)
HasSpaceForSource(source_length, destination_length) ==
  /\ source_length <= destination_length
  /\ source_length > 0

(* The space the parts need beyond the source. *)
HasSpace(source_length, destination_length) ==
  /\ source_length + maximum_uri_enlargement <= destination_length
  /\ source_length > 0

(***************************************************************************)
(* parse, on an uri object that may have been parsed before.  The parts of *)
(* an uri that is refused late are stored nevertheless.                    *)
(***************************************************************************)
SecondPass(uri, data) ==
  IF ~PassedFirstPass(data)
  THEN [uri |-> uri, buffer |-> data.cursor.buffer, parsed |-> FALSE]
  ELSE [ParseAuthority(
          ParseScheme([uri |-> uri, buffer |-> data.cursor.buffer, parsed |-> TRUE],
                      TextAt(data.cursor.buffer, data.scheme, data.scheme_size)),
          data.authority, data.authority_size)
        EXCEPT !.uri.path = data.path, !.uri.query = data.query,
               !.uri.fragment = data.fragment]

Parse(uri, c, skip_scheme) ==
  IF HasSpace(c.source_length, c.destination_length)
  THEN SecondPass(uri, FirstPass(c, skip_scheme))
  ELSE [uri |-> uri, buffer |-> c.buffer, parsed |-> FALSE]
=============================================================================
