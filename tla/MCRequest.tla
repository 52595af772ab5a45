------------------------------ MODULE MCRequest ------------------------------
(***************************************************************************)
(* Requests put together from a request line, up to MaxFields header       *)
(* fields, one when the line is odd, and a content, with either kind of    *)
(* newline, and the requests of the unit tests.                            *)
(***************************************************************************)
EXTENDS RequestTests

CONSTANTS
  MoreKeys,    \* keys that begin with the key of a known header field
  MaxFields,   \* bound on the header fields
  ChunkSizes   \* the sizes of chunks that do not end with the request

(* TLC evaluates a constant's definition again at each use, unless it is a *)
(* name of another.                                                        *)
DigitValues  == DigitTable
DecodedPairs == HexTable
SmallLetters == LowerTable
HeaderKinds  == get_header_key_trie

SomeCharacters == {CharOf(n) : n \in 33 .. 126} \cup {"nul"}

SomeDates == {date_of_test}
SomeTypes == {CharsOf("text")}
SomeSubtypes == {CharsOf("plain")}

NoKeys == {}
FromSomewhere == {"Fromx"}

(* The bytes of a digest are few where its size does not matter. *)
SomeDigest(c) ==
  CASE c = HelloWorld -> HelloDigest
    [] c = CharsOf("tx") -> <<76>>
    [] OTHER -> <<77>>

RequestLines ==
  {"GET / HTTP/2", "PUT t%40h:9/?x#t HTTP/1.0"}

(* Spelled in another way, without a version, or refused. *)
OddLines ==
  {" get /  http/2", "GET h:t HTTP/2", "GET / ", "GET /", "T / HTTP/2"}

Fields ==
  {"Host: t:2/?x", "Host:h:t", "From: x", "x:t", "x: t\n x", "Content-Length:2",
   "Content-Length:t", "Content-MD5: TA==", "Content-MD5:TQ", "Content-MD5:5",
   "Content-Type:text/plain", "Connection: Keep-Alive",
   "Date:Sun, 06 Nov 1994 08:49:37 GMT", "Date:x", ":", "x"}
    \cup {k \o ":t" : k \in MoreKeys}

ListsUpTo(n) == UNION {[1 .. k -> Fields] : k \in 0 .. n}

LineLists ==
  {<<line>> \o list : line \in RequestLines, list \in ListsUpTo(MaxFields)}
    \cup {<<line>> \o list : line \in OddLines, list \in ListsUpTo(1)}

(* The header of lines, in which one kind of newline is used. *)
Header(lines, nl) ==
  FlattenSeq([i \in 1 .. Len(lines) |->
                FlattenSeq([j \in DOMAIN lines[i] |->
                              IF lines[i][j] = "lf" THEN nl ELSE <<lines[i][j]>>]) \o nl])
    \o nl

Requests ==
  TestRequests \cup
    {Header([i \in DOMAIN lines |-> CharsOf(lines[i])], nl) \o CharsOf(c) :
       lines \in LineLists, nl \in {<<"lf">>, <<"cr", "lf">>}, c \in {"", "tx"}}

(* The requests by their first bytes, for TLC to find them sooner. *)
First(bytes) == SubSeq(bytes, 1, IF Len(bytes) < 24 THEN Len(bytes) ELSE 24)

RequestsByFirst ==
  Table([first \in {First(r) : r \in Requests} |-> {r \in Requests : First(r) = first}])

RequestsBehind(d) ==
  LET candidates == IF Len(d) < 24 THEN Requests ELSE RequestsByFirst[First(d)]
  IN  {r \in candidates : Len(d) < Len(r) /\ SubSeq(r, 1, Len(d)) = d}

SomeChunk(d) ==
  LET chunk(r, k) == SubSeq(r, Len(d) + 1, IF Len(d) + k < Len(r) THEN Len(d) + k
                                           ELSE Len(r))
  IN  {chunk(r, k) : r \in RequestsBehind(d), k \in ChunkSizes \cup {chunk_size}}
=============================================================================
