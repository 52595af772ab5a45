------------------------------- MODULE Request -------------------------------
(***************************************************************************)
(* memory_allocating_request, which takes its strings out of the buffer    *)
(* that its lexer received the header in: they are pointers into it, and   *)
(* the separators behind them become null characters.                      *)
(*                                                                         *)
(* One thread calls parse once, and fetch_content any number of times when *)
(* parse succeeded.  Pointers are positions in the header; prev_index() of *)
(* the code is the position index here.                                    *)
(***************************************************************************)
EXTENDS Lexer, UriMeaning, Base64

CONSTANTS
  Lower,               \* from the capital letters to the small ones
  Verbs, Versions,     \* the texts in the tries of methods and versions
  LaterVersions,       \* the versions after HTTP/1.0
  HeaderKeys,          \* from the texts in the trie of header keys to their kinds
  KeepAlive,           \* "keep-alive"
  Dates,               \* the texts that are timestamps
  Types, Subtypes,     \* the texts of the registered MIME types
  DefaultVerb,         \* the method of a request that has none: GET
  Digest(_)            \* what calculate_md5 returns for a content

(* The host's uri may become five characters longer than its value, which  *)
(* are those of "host" and of the colon.                                   *)
ASSUME RequestAssumption ==
  \A token \in DOMAIN HeaderKeys :
    /\ Len(token) \in Nat
    /\ HeaderKeys[token] = "host" => Len(token) >= 4

INVALID == <<"invalid">>

VARIABLES
  at,              \* where parse and fetch_content stand
  method, version, \* method_ and version_
  path_uri,        \* path_uri_
  fields,          \* the members the known header fields are stored in
  header_fields,   \* header_fields_: from keys to pointers to key and value
  content_pointer, \* what content_ points to, or <<>> when it is NULL
  fetched          \* what fetch_content returned last

requestVars == <<at, method, version, path_uri, fields, header_fields,
                 content_pointer, fetched>>

NewFields ==
  [content_length |-> 0, content_md5 |-> NULL, content_md5_length |-> 0,
   content_type |-> <<INVALID, INVALID>>, date |-> Absent,
   is_keep_alive_set |-> FALSE, host_uri |-> NewUri,
   from |-> NULL, referer |-> NULL, user_agent |-> NULL]

RequestInit ==
  /\ Init
  /\ at = "new"
  /\ method = DefaultVerb /\ version = UNKNOWN
  /\ path_uri = NewUri
  /\ fields = NewFields
  /\ header_fields = <<>>
  /\ content_pointer = <<>>
  /\ fetched = TRUE

-----------------------------------------------------------------------------
Text(buffer, begin, end) == SubSeq(buffer, begin, end - 1)

is_whitespace == {"blank"}
is_newline == {"lf"}
is_key_value_separator == {":"}

(***************************************************************************)
(* The loops that call get until a character is found: they end at its     *)
(* position, or behind the header.                                         *)
(***************************************************************************)
End == Len(header) + 1

Find(from, chars) ==
  LET found == {i \in from .. Len(header) : header[i] \in chars}
  IN  IF found = {} THEN End ELSE CHOOSE i \in found : \A j \in found : i <= j

FindNo(from, chars) == Find(from, Bytes \ chars)

(* The index after a loop that ended at position i, and in the end states  *)
(* of parse: no action of the lexer's changes it, or the buffers.          *)
Reach(i) ==
  /\ index' = IF i < End THEN i ELSE Len(header)
  /\ UNCHANGED <<content, state, succeeded, tail, head, last, length, pc,
                 delivered>>

Failed(i) ==
  /\ at' = "failed"
  /\ Reach(i)

(* Letters are compared without their case in all tries, and in values. *)
Lowered(text) ==
  [i \in DOMAIN text |-> IF text[i] \in DOMAIN Lower THEN Lower[text[i]] ELSE text[i]]

(* parse_specific_value: the tokens the whole word is found as. *)
Found(tokens, word) == {token \in tokens : Lowered(token) = Lowered(word)}

-----------------------------------------------------------------------------
CallFetchHeader ==
  /\ at = "new"
  /\ FetchHeader
  /\ at' = "fetching"
  /\ UNCHANGED <<method, version, path_uri, fields, header_fields,
                 content_pointer, fetched>>

RunLexer ==
  /\ at \in {"fetching", "content"}
  /\ Receive \/ ReceiveFails \/ Step \/ Return
       \/ ReceiveContent \/ ReceiveContentFails
  /\ UNCHANGED requestVars

(* The first get, which parse calls before it looks at fetch_result. *)
FetchedHeader ==
  /\ at = "fetching" /\ pc = "idle"
  /\ IF state = "reached_content" /\ header # <<>>
     THEN at' = "method" /\ Reach(1)
     ELSE Failed(1)
  /\ UNCHANGED <<header, method, version, path_uri, fields, header_fields,
                 content_pointer, fetched>>

ParseMethod ==
  /\ at = "method"
  /\ LET begin == FindNo(index, is_whitespace)
         end   == Find(begin, is_whitespace)
         word  == Text(header, begin, end)
     IN  IF end < End /\ Found(Verbs, word) # {}
         THEN at' = "uri" /\ method' \in Found(Verbs, word) /\ Reach(end)
         ELSE Failed(end) /\ UNCHANGED method
  /\ UNCHANGED <<header, version, path_uri, fields, header_fields,
                 content_pointer, fetched>>

(* The uri ends at the next white space, newlines are none. *)
ParseUri ==
  /\ at = "uri"
  /\ LET begin == FindNo(index, is_whitespace)
         end   == Find(begin, is_whitespace)
         uri   == Parse(path_uri, Cursor(header, begin, end - begin, 1, end - 1), TRUE)
     IN  IF end < End
         THEN /\ path_uri' = uri.uri
              /\ header' = uri.buffer
              /\ IF uri.parsed THEN at' = "version" /\ Reach(end) ELSE Failed(end)
         ELSE Failed(end) /\ UNCHANGED <<path_uri, header>>
  /\ UNCHANGED <<method, version, fields, header_fields, content_pointer,
                 fetched>>

(* A version of no characters is found, and is the default one. *)
ParseVersion ==
  /\ at = "version"
  /\ LET begin == FindNo(index, is_whitespace)
         end   == Find(begin, is_newline)
         word  == Text(header, begin, end)
         known == Found(Versions \cup {UNKNOWN}, word)
     IN  IF end < End /\ known # {}
         THEN /\ version' \in known
              /\ IF end + 1 < End THEN at' = "fields" /\ Reach(end + 1)
                                  ELSE Failed(End)
         ELSE Failed(end) /\ UNCHANGED version
  /\ UNCHANGED <<header, method, path_uri, fields, header_fields,
                 content_pointer, fetched>>

-----------------------------------------------------------------------------
(* Mutant: capital letters are others than the small ones. *)
KeyAsWritten(text) ==
  LET found == {token \in DOMAIN HeaderKeys : IsPrefix(token, text)}
  IN  IF found = {} THEN "custom"
      ELSE HeaderKeys[CHOOSE t \in found : \A u \in found : Len(u) <= Len(t)]

(***************************************************************************)
(* The known key is the longest token of the trie the key begins with.     *)
(***************************************************************************)
KeyOf(text) ==
  LET found == {token \in DOMAIN HeaderKeys : IsPrefix(token, Lowered(text))}
  IN  IF found = {} THEN "custom"
      ELSE HeaderKeys[CHOOSE t \in found : \A u \in found : Len(u) <= Len(t)]

(* mime_handler::parse *)
ParseMime(text) ==
  LET slash   == Cut(text, 1, {"/"})
      type    == SubSeq(text, 1, slash - 1)
      subtype == SubSeq(text, slash + 1, Cut(text, slash + 1, Whitespace) - 1)
  IN  <<IF Lowered(type) \in Types THEN Lowered(type) ELSE INVALID,
        IF Lowered(subtype) \in Subtypes THEN Lowered(subtype) ELSE INVALID>>

(* Mutant: the host is copied to where the request line's uri is. *)
HostAtBegin(key) == 1

HostDestination(key) == key

(***************************************************************************)
(* set_header and the functions it calls, each of which stores what it     *)
(* converted or nothing: what they return is never looked at.  The field   *)
(* "accept" is not stored anywhere yet, and "expect" is not in the trie.   *)
(***************************************************************************)
SetHeader(kind, buffer, key, value, size) ==
  LET text   == Text(buffer, value, value + size)
      number == ParseUnsignedInteger(text).result
      host   == Parse(fields.host_uri,
                      Cursor(buffer, value, size, HostDestination(key), size + 5), TRUE)
  IN  /\ fields' =
           CASE kind = "content_length" /\ number >= 0 ->
                  [fields EXCEPT !.content_length = number]
             [] kind = "content_md5" ->
                  [fields EXCEPT !.content_md5 = value, !.content_md5_length = size]
             [] kind = "content_type" ->
                  [fields EXCEPT !.content_type = ParseMime(text)]
             [] kind = "date" /\ text \in Dates -> [fields EXCEPT !.date = text]
             [] kind = "connection" /\ Lowered(text) = KeepAlive ->
                  [fields EXCEPT !.is_keep_alive_set = TRUE]
             [] kind = "host" -> [fields EXCEPT !.host_uri = host.uri]
             [] kind \in {"from", "referer", "user_agent"} ->
                  [fields EXCEPT ![kind] = value]
             [] OTHER -> fields
      /\ header' = IF kind = "host" THEN host.buffer ELSE buffer
      /\ LET name == StringAt(buffer, key)
             old  == name \in DOMAIN header_fields
         IN  header_fields' =
               IF kind # "custom" THEN header_fields
               ELSE [n \in DOMAIN header_fields \cup {name} |->
                       IF n # name THEN header_fields[n]
                       ELSE [key   |-> IF old THEN header_fields[n].key ELSE key,
                             value |-> value]]

(* Mutant: the value keeps its newline. *)
LeaveUnended(buffer, i) == buffer

EndValue(buffer, i) == [buffer EXCEPT ![i] = "nul"]

(***************************************************************************)
(* parse_header: the key ends at the next colon, the value at the newline  *)
(* behind it.                                                              *)
(***************************************************************************)
ParseHeader ==
  /\ at = "fields" /\ header[index] \notin is_newline
  /\ LET key       == index
         separator == Find(key, is_key_value_separator)
         keyed     == [header EXCEPT ![separator] = "nul"]
         begin     == separator + 1
         end       == Find(begin, is_newline)
         blanks    == SkippedBy(Text(keyed, begin, end))
     IN  IF end < End
         THEN /\ SetHeader(KeyOf(Text(header, key, separator)), EndValue(keyed, end),
                           key, begin + blanks, end - begin - blanks)
              /\ IF end + 1 < End THEN UNCHANGED at /\ Reach(end + 1)
                                  ELSE Failed(End)
         ELSE /\ header' = IF separator < End THEN keyed ELSE header
              /\ Failed(End)
              /\ UNCHANGED <<fields, header_fields>>
  /\ UNCHANGED <<method, version, path_uri, content_pointer, fetched>>

ParseEmptyLine ==
  /\ at = "fields" /\ header[index] \in is_newline
  /\ at' = "parsed"
  /\ UNCHANGED <<vars, method, version, path_uri, fields, header_fields,
                 content_pointer, fetched>>

-----------------------------------------------------------------------------
(***************************************************************************)
(* fetch_content: the lexer is asked for a content that is not empty, and  *)
(* a content that is asked for again is not received again.                *)
(***************************************************************************)
CallFetchContent ==
  /\ at = "parsed"
  /\ IF fields.content_length = 0 THEN UNCHANGED vars
     ELSE FetchContent /\ length' = fields.content_length
  /\ at' = "content"
  /\ UNCHANGED <<method, version, path_uri, fields, header_fields,
                 content_pointer, fetched>>

(* Mutant: the content is taken though it is not complete. *)
TakeWhatIsThere ==
  IF fields.content_length > 0 THEN content ELSE content_pointer

TakenContent ==
  IF fields.content_length > 0 /\ succeeded THEN content ELSE content_pointer

(* The bytes the header field asks for. *)
Expected ==
  decode_base64(Text(header, fields.content_md5,
                     fields.content_md5 + fields.content_md5_length))

Agree(a, b) == \A i \in DOMAIN a \cap DOMAIN b : a[i] = b[i]

(***************************************************************************)
(* std::equal compares as many bytes as the digest has.  Of a shorter      *)
(* vector it reads what is behind its end.                                 *)
(***************************************************************************)
Equal(digest, expected) ==
  IF ~Agree(digest, expected) THEN {"invalid"}
  ELSE IF Len(digest) <= Len(expected) THEN {"valid"}
  ELSE {"valid", "invalid", "crashed"}

(* The checksum of a content that is not there is that of content_length   *)
(* bytes at NULL, which ends the program.                                  *)
Validity ==
  IF fields.content_md5 = NULL THEN {"valid"}
  ELSE IF TakenContent = <<>> /\ fields.content_length > 0 THEN {"crashed"}
  ELSE Equal(Digest(TakenContent), Expected)

(* Mutant: a content with another checksum is NULL, but counts as fetched. *)
FetchedAnyway ==
  /\ at = "content" /\ pc = "idle"
  /\ \E validity \in Validity :
       IF validity = "crashed"
       THEN at' = "crashed" /\ UNCHANGED <<content_pointer, fetched>>
       ELSE /\ at' = "parsed"
            /\ content_pointer' = IF validity = "valid" THEN TakenContent ELSE <<>>
            /\ fetched' = TRUE
  /\ UNCHANGED <<vars, method, version, path_uri, fields, header_fields>>

FetchedContent ==
  /\ at = "content" /\ pc = "idle"
  /\ \E validity \in Validity :
       IF validity = "crashed"
       THEN at' = "crashed" /\ UNCHANGED <<content_pointer, fetched>>
       ELSE /\ at' = "parsed"
            /\ content_pointer' = IF validity = "valid" THEN TakenContent ELSE <<>>
            /\ fetched' = (validity = "valid")
  /\ UNCHANGED <<vars, method, version, path_uri, fields, header_fields>>

RequestNext ==
  \/ CallFetchHeader \/ RunLexer \/ FetchedHeader
  \/ ParseMethod \/ ParseUri \/ ParseVersion \/ ParseHeader \/ ParseEmptyLine
  \/ CallFetchContent \/ FetchedContent

RequestSpec == RequestInit /\ [][RequestNext]_<<vars, requestVars>>

-----------------------------------------------------------------------------
(***************************************************************************)
(* What the accessors return that do not return a member.  A part of the   *)
(* request line's uri is preferred to one of the field "host".  Nothing is *)
(* ever put into query_entries_.                                           *)
(***************************************************************************)
OfEither(p, q) == StringAt(header, IF p # NULL THEN p ELSE q)

path     == OfEither(path_uri.path, fields.host_uri.path)
host     == OfEither(path_uri.host, fields.host_uri.host)
fragment == OfEither(path_uri.fragment, fields.host_uri.fragment)

query(key) == Absent

keeps_connection == version \in LaterVersions \/ fields.is_keep_alive_set

header_value(name) ==
  IF name \in DOMAIN header_fields THEN StringAt(header, header_fields[name].value)
  ELSE Absent

(* The pointers a caller gets, all but those of content. *)
PointersOf(uri) == {uri.userinfo, uri.host, uri.path, uri.query, uri.fragment}

Pointers ==
  (PointersOf(path_uri) \cup PointersOf(fields.host_uri)
     \cup {fields.content_md5, fields.from, fields.referer, fields.user_agent}
     \cup UNION {{header_fields[n].key, header_fields[n].value} :
                   n \in DOMAIN header_fields}) \ {NULL}

(***************************************************************************)
(* Every string that is given out, or that header_fields_ compares, ends   *)
(* within the header: "The null-termination is ensured by the parsing      *)
(* algorithm."                                                             *)
(***************************************************************************)
StringsAreTerminated ==
  \A p \in Pointers : \E i \in p .. Len(header) : header[i] = "nul"

(***************************************************************************)
(* No step changes a string that was given out by an earlier one: uris are *)
(* copied within the buffer the other strings are in, and header_fields_   *)
(* is ordered by the strings its keys point to.                            *)
(***************************************************************************)
StringsStay ==
  [][\A p \in Pointers \cap Pointers' :
       StringAt(header', p) = StringAt(header, p)]_<<vars, requestVars>>

-----------------------------------------------------------------------------
(***************************************************************************)
(* What a request means, said of the lines of its header's normal form h.  *)
(***************************************************************************)
Line(h, from) == SubSeq(h, from, Cut(h, from, {"lf"}) - 1)

(* The lines between the first and the empty one, by where they begin. *)
FieldLines(h) ==
  {i \in 2 .. Len(h) : h[i - 1] = "lf" /\ h[i] # "lf"}

Word(line, n) ==
  LET first  == Cut(line, 1, {"blank"})
      second == Cut(line, first + 1, {"blank"})
  IN  CASE n = 1 -> SubSeq(line, 1, first - 1)
        [] n = 2 -> SubSeq(line, first + 1, second - 1)
        [] n = 3 -> SubSeq(line, second + 1, Len(line))

Key(line) == SubSeq(line, 1, Cut(line, 1, {":"}) - 1)

Value(line) ==
  LET colon == Cut(line, 1, {":"})
  IN  SubSeq(line, Cut(line, colon + 1, Bytes \ Whitespace), Len(line))

IsWellFormed(h) ==
  LET line == Line(h, 1)
  IN  /\ Found(Verbs, Word(line, 1)) # {}
      /\ IsProper(Word(line, 2)) /\ Meaning(Word(line, 2), TRUE).is_valid
      /\ Found(Versions, Word(line, 3)) # {}
      /\ \A i \in FieldLines(h) : \E j \in DOMAIN Line(h, i) : Line(h, i)[j] = ":"

LinesOf(h, key) == {i \in FieldLines(h) : Key(Line(h, i)) = key}

KnownLines(h, key) == {i \in FieldLines(h) : Lowered(Key(Line(h, i))) = key}

(* The value of the last of lines, of those that fit. *)
LastValue(h, lines, Fits(_)) ==
  LET found == {i \in lines : Fits(Value(Line(h, i)))}
  IN  IF found = {} THEN Absent
      ELSE Value(Line(h, CHOOSE i \in found : \A j \in found : j <= i))

AnyValue(value) == TRUE

Digits(value) == SubSeq(value, 1, Cut(value, 1, Bytes \ DOMAIN Digit) - 1)

IsLength(value) == Digits(value) # <<>> /\ Number(Digits(value)) <= Largest

Length(value) == IF value = Absent THEN 0 ELSE Number(Digits(value))

IsDate(value) == value \in Dates

IsKeepAlive(value) == Lowered(value) = KeepAlive

IsHost(value) == IsProper(value) /\ Meaning(value, TRUE).is_valid

(* The host of several lines may be put together from them. *)
HasOneHost(h, lines) ==
  \E i \in lines : lines = {i} /\ IsHost(Value(Line(h, i)))

OrElse(text, other) == IF text # Absent THEN text ELSE other

(***************************************************************************)
(* The uri of the request line, and of the field "host" what it leaves.    *)
(* Nothing is said of a host that is present at both places: the field's   *)
(* should overwrite the other, but the code returns the request line's     *)
(* (see the README).                                                       *)
(***************************************************************************)
UriIsTakenFrom(line, field) ==
  /\ line.host = Absent \/ field.host = Absent =>
       host = OrElse(line.host, field.host)
  /\ path = OrElse(line.path, field.path)
  /\ fragment = OrElse(line.fragment, field.fragment)

UriIsAsSent(h, hosts) ==
  hosts = {} \/ HasOneHost(h, hosts) =>
    UriIsTakenFrom(
      Meaning(Word(Line(h, 1), 2), TRUE).parts,
      IF hosts = {} THEN [host |-> Absent, path |-> Absent, fragment |-> Absent]
      ELSE Meaning(LastValue(h, hosts, AnyValue), TRUE).parts)

CustomKeys(h) ==
  {k \in {Key(Line(h, i)) : i \in FieldLines(h)} : KeyOf(k) = "custom"}

(* The normal form of the header, as a sequence. *)
NormalHeader ==
  LET n    == HeaderLength(delivered)
      set  == Kept(delivered, n)
      kept == SelectSeq([i \in 1 .. n |-> i], LAMBDA i : i \in set)
  IN  [j \in DOMAIN kept |-> Plain(delivered[kept[j]])]

FieldsAreAsSent(h) ==
  /\ DOMAIN header_fields = CustomKeys(h)
  /\ \A k \in CustomKeys(h) : header_value(k) = LastValue(h, LinesOf(h, k), AnyValue)
  /\ \A k \in DOMAIN HeaderKeys :
       LET kind  == HeaderKeys[k]
           lines == KnownLines(h, k)
       IN  /\ kind \in {"from", "referer", "user_agent"} =>
                StringAt(header, fields[kind]) = LastValue(h, lines, AnyValue)
           /\ kind = "content_length" =>
                fields.content_length = Length(LastValue(h, lines, IsLength))
           /\ kind = "date" => fields.date = LastValue(h, lines, IsDate)
           /\ kind = "connection" =>
                keeps_connection = (\/ version \in LaterVersions
                                    \/ LastValue(h, lines, IsKeepAlive) # Absent)
           /\ kind = "content_type" =>
                \A t \in Types, s \in Subtypes :
                  LastValue(h, lines, AnyValue) = t \o <<"/">> \o s =>
                    fields.content_type = <<t, s>>
           /\ kind = "host" => UriIsAsSent(h, lines)
           /\ kind = "host" /\ HasOneHost(h, lines) =>
                Parts(fields.host_uri, header)
                  = Meaning(LastValue(h, lines, AnyValue), TRUE).parts

(***************************************************************************)
(* A well-formed request is parsed, and what it says can be read from the  *)
(* request, although its strings were moved, cut and decoded in place:     *)
(* however its bytes arrived, whether its lines are folded or not, and     *)
(* whatever fields are between.  Of a field that is there twice, the last  *)
(* value counts that can be converted.                                     *)
(***************************************************************************)
ParsedAsSent ==
  at \in {"failed", "parsed"} =>
    (IsComplete(delivered) /\ IsWellFormed(NormalHeader) =>
       LET line == Line(NormalHeader, 1)
       IN  /\ at = "parsed"
           /\ method \in Found(Verbs, Word(line, 1))
           /\ version \in Found(Versions, Word(line, 3))
           /\ Parts(path_uri, header) = Meaning(Word(line, 2), TRUE).parts
           /\ FieldsAreAsSent(NormalHeader))

(***************************************************************************)
(* content() is NULL or all of the content, as long as its header field    *)
(* says, and with the checksum the header demands, as far as it gives one, *)
(* after any number of calls of fetch_content, of which some may have      *)
(* failed.                                                                 *)
(***************************************************************************)
ContentIsComplete ==
  content_pointer # <<>> =>
    LET n == HeaderLength(delivered)
    IN  /\ Len(content_pointer) = fields.content_length
        /\ content_pointer = SubSeq(delivered, n + 1, n + Len(content_pointer))
        /\ at = "parsed" /\ fields.content_md5 # NULL =>
             Agree(Digest(content_pointer), Expected)

-----------------------------------------------------------------------------
(***************************************************************************)
(* "Returns the content of any custom header field. Only those, which are  *)
(* available by explicit member functions are available."                  *)
(***************************************************************************)
CustomFieldsAreAvailable ==
  at = "parsed" /\ IsWellFormed(NormalHeader) =>
    \A i \in FieldLines(NormalHeader) :
      LET key == Key(Line(NormalHeader, i))
      IN  Lowered(key) \notin DOMAIN HeaderKeys => header_value(key) # Absent
=============================================================================
