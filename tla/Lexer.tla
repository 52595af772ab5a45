-------------------------------- MODULE Lexer --------------------------------
(***************************************************************************)
(* lexer, which receives a request from a connection, normalises its       *)
(* header in the buffer it was received in, and keeps what follows the     *)
(* header as the beginning of the content.                                 *)
(*                                                                         *)
(* A byte is a carriage return, a newline, a blank (space and tab are      *)
(* treated alike, and a tab that matters is overwritten by a space) or one *)
(* of the other characters.  Buffers are sequences, so the 0-based index i *)
(* of the code is the position i + 1 here; tail, head and index keep their *)
(* values, which makes each of them the number of bytes before it.         *)
(***************************************************************************)
EXTENDS Naturals, Sequences, FiniteSets

CONSTANTS
  Others,       \* the other characters
  Sent(_),      \* the chunks that may be delivered behind what was delivered
  chunk_size,   \* the bytes of a receive for the header: 4000
  MaxLength     \* bound on the content's length, as the header gives it

ASSUME LexerAssumption == chunk_size \in Nat /\ MaxLength \in Nat

Bytes == {"cr", "lf", "blank"} \cup Others

(* What a receive that was told to take up to n bytes appends. *)
IsChunk(chunk, n) == chunk \in Seq(Bytes) /\ Len(chunk) \in 1 .. n

VARIABLES
  header, content,    \* header_ and content_
  state,              \* state_
  index,              \* index_
  succeeded,          \* fetch_content_succeeded_
  tail, head, last,   \* the local variables of fetch_header
  length,             \* fetch_content's argument; 0 before its first call
  pc,                 \* where the thread that uses the lexer stands
  delivered           \* history: every byte the connection delivered

vars == <<header, content, state, index, succeeded, tail, head, last, length,
          pc, delivered>>

EndStates == {"reached_content", "error"}

Init ==
  /\ header = <<>> /\ content = <<>>
  /\ state = "copy"
  /\ index = 0
  /\ succeeded = FALSE
  /\ tail = 0 /\ head = 0 /\ last = "none"
  /\ length = 0
  /\ pc = "idle"
  /\ delivered = <<>>

-----------------------------------------------------------------------------
(* fetch_header: the outer loop. *)
FetchHeader ==
  /\ pc = "idle"
  /\ pc' = "receive"
  /\ UNCHANGED <<header, content, state, index, succeeded, tail, head, last,
                 length, delivered>>

Receive ==
  /\ pc = "receive" /\ state \notin EndStates
  /\ \E chunk \in Sent(delivered) :
       /\ IsChunk(chunk, chunk_size)
       /\ header' = header \o chunk
       /\ delivered' = delivered \o chunk
  /\ pc' = "scan"
  /\ UNCHANGED <<content, state, index, succeeded, tail, head, last, length>>

(* Mutant: entering the inner loop whatever receive returned. *)
ReceiveFailsScans ==
  /\ pc = "receive" /\ state \notin EndStates
  /\ state' = "error"
  /\ pc' = "scan"
  /\ UNCHANGED <<header, content, index, succeeded, tail, head, last, length,
                 delivered>>

ReceiveFails ==
  /\ pc = "receive" /\ state \notin EndStates
  /\ state' = "error"
  /\ UNCHANGED <<header, content, index, succeeded, tail, head, last, length,
                 pc, delivered>>

(* The local variables end with the call. *)
LeaveFetchHeader ==
  /\ pc' = "idle"
  /\ tail' = 0 /\ head' = 0 /\ last' = "none"
  /\ UNCHANGED <<content, state, index, succeeded, length, delivered>>

(* Mutant: cutting the header off without asking whether anything was read. *)
ReturnAlwaysCuts ==
  /\ pc = "receive" /\ state \in EndStates
  /\ header' = SubSeq(header, 1, tail)
  /\ LeaveFetchHeader

Return ==
  /\ pc = "receive" /\ state \in EndStates
  /\ header' = IF tail > 0 THEN SubSeq(header, 1, tail) ELSE header
  /\ LeaveFetchHeader

-----------------------------------------------------------------------------
(***************************************************************************)
(* fetch_header_step: one action per state.  Each ends at the inner loop's *)
(* test.                                                                   *)
(***************************************************************************)
Scan(from) == pc = "scan" /\ state = from

Continue ==
  /\ pc' = IF head' < Len(header') THEN "scan" ELSE "receive"
  /\ UNCHANGED <<index, succeeded, length, delivered>>

Char == header[head + 1]

Copy ==
  /\ Scan("copy")
  /\ head' = head + 1
  /\ tail' = tail + 1
  /\ IF Char = "cr"
     THEN /\ header' = [header EXCEPT ![tail + 1] = "lf"]
          /\ state' = "possible_cr_lf"
          /\ last' = last
     ELSE /\ header' = [header EXCEPT ![tail + 1] = Char]
          /\ state' = IF Char # "lf" THEN "copy"
                      ELSE IF last = "lf" THEN "reached_content"
                                          ELSE "possible_lws"
          /\ last' = Char
  /\ UNCHANGED content
  /\ Continue

(* Mutant: writing the newline again, in place of the delayed update only. *)
PossibleCrLfWrites ==
  /\ Scan("possible_cr_lf")
  /\ head' = IF Char = "lf" THEN head + 1 ELSE head
  /\ header' = [header EXCEPT ![tail + 1] = "lf"]
  /\ tail' = tail + 1
  /\ last' = "lf"
  /\ state' = IF last = "lf" THEN "reached_content" ELSE "possible_lws"
  /\ UNCHANGED content
  /\ Continue

PossibleCrLf ==
  /\ Scan("possible_cr_lf")
  /\ head' = IF Char = "lf" THEN head + 1 ELSE head
  /\ last' = "lf"
  /\ state' = IF last = "lf" THEN "reached_content" ELSE "possible_lws"
  /\ UNCHANGED <<header, content, tail>>
  /\ Continue

(* Mutant: waiting for a character that is no blank. *)
PossibleLwsWaits ==
  /\ Scan("possible_lws")
  /\ IF Char = "blank"
     THEN /\ head' = head + 1
          /\ header' = [header EXCEPT ![tail] = "blank"]
          /\ last' = "blank"
          /\ state' = "copy"
     ELSE UNCHANGED <<head, header, last, state>>
  /\ UNCHANGED <<content, tail>>
  /\ Continue

PossibleLws ==
  /\ Scan("possible_lws")
  /\ IF Char = "blank"
     THEN /\ head' = head + 1
          /\ header' = [header EXCEPT ![tail] = "blank"]
          /\ last' = "blank"
     ELSE UNCHANGED <<head, header, last>>
  /\ state' = "copy"
  /\ UNCHANGED <<content, tail>>
  /\ Continue

ReachedContent ==
  /\ Scan("reached_content")
  /\ content' = content \o SubSeq(header, head + 1, Len(header))
  /\ header' = SubSeq(header, 1, tail)
  /\ UNCHANGED <<state, tail, head, last>>
  /\ Continue

Step == Copy \/ PossibleCrLf \/ PossibleLws \/ ReachedContent

-----------------------------------------------------------------------------
(***************************************************************************)
(* fetch_content, which the request calls with the length its header gives *)
(* and, after a failure, perhaps again.                                    *)
(***************************************************************************)
FetchContent ==
  /\ pc = "idle" /\ state = "reached_content"
  /\ \E n \in 1 .. MaxLength :
       /\ length \in {0, n}
       /\ length' = n
       /\ IF Len(content) < n
          THEN pc' = "content" /\ UNCHANGED succeeded
          ELSE succeeded' = (Len(content) = n) /\ UNCHANGED pc
  /\ UNCHANGED <<header, content, state, index, tail, head, last, delivered>>

BytesToRead == length - Len(content)

ReceiveContent ==
  /\ pc = "content"
  /\ \E chunk \in Sent(delivered) :
       /\ IsChunk(chunk, BytesToRead)
       /\ content' = content \o chunk
       /\ delivered' = delivered \o chunk
       /\ IF Len(chunk) < BytesToRead
          THEN UNCHANGED <<pc, succeeded>>
          ELSE pc' = "idle" /\ succeeded' = TRUE
  /\ UNCHANGED <<header, state, index, tail, head, last, length>>

ReceiveContentFails ==
  /\ pc = "content"
  /\ pc' = "idle"
  /\ succeeded' = FALSE
  /\ UNCHANGED <<header, content, state, index, tail, head, last, length,
                 delivered>>

-----------------------------------------------------------------------------
(* get and set_index, the parser's cursor. *)
MoveIndex(i) ==
  /\ index' = i
  /\ UNCHANGED <<header, content, state, succeeded, tail, head, last, length,
                 pc, delivered>>

Get == pc = "idle" /\ index < Len(header) /\ MoveIndex(index + 1)

(* Mutant: a position that is out of the header. *)
SetIndexBeyond(i) == pc = "idle" /\ MoveIndex(i)

SetIndex(i) == pc = "idle" /\ i <= Len(header) /\ MoveIndex(i)

Next ==
  \/ FetchHeader \/ Receive \/ ReceiveFails \/ Step \/ Return
  \/ FetchContent \/ ReceiveContent \/ ReceiveContentFails
  \/ Get \/ \E i \in 0 .. Len(header) + 1 : SetIndex(i)

Spec == Init /\ [][Next]_vars

(* The inner loop of fetch_header calls nothing that blocks. *)
FairSpec == Spec /\ WF_vars(Step) /\ WF_vars(Return)
-----------------------------------------------------------------------------
TypeOK ==
  /\ header \in Seq(Bytes) /\ content \in Seq(Bytes) /\ delivered \in Seq(Bytes)
  /\ state \in {"copy", "possible_cr_lf", "possible_lws"} \cup EndStates
  /\ index \in 0 .. Len(header)
  /\ succeeded \in BOOLEAN
  /\ tail \in Nat /\ head \in Nat /\ last \in Bytes \cup {"none"}
  /\ length \in 0 .. MaxLength
  /\ pc \in {"idle", "receive", "scan", "content"}

(***************************************************************************)
(* The assertions of fetch_header and its steps: there is always a newline *)
(* to overwrite when white space may follow it, the inner loop is never    *)
(* entered after a failed receive, and the header is not cut off behind    *)
(* its end.                                                                *)
(***************************************************************************)
AssertionsHold ==
  /\ state = "possible_lws" => tail > 0
  /\ pc = "scan" => state # "error"
  /\ tail <= Len(header)

(***************************************************************************)
(* The header is normalised in the buffer it is received in.  Whatever the *)
(* chunks are, the writing end stays behind the reading end, and the bytes *)
(* that fetch_header_step has still to read are those that were delivered. *)
(***************************************************************************)
UnreadIsIntact ==
  pc = "scan" =>
    /\ tail <= head /\ head < Len(header)
    /\ Len(header) = Len(delivered)
    /\ \A i \in head + 1 .. Len(header) : header[i] = delivered[i]

-----------------------------------------------------------------------------
(***************************************************************************)
(* What the header should become, said of the whole of the first n bytes   *)
(* of d: a newline that follows a carriage return belongs to it, a         *)
(* carriage return is a newline, and a newline before a blank is left out. *)
(***************************************************************************)
IsNewline(b) == b \in {"cr", "lf"}

EndsCrLf(d, i) == i > 1 /\ d[i - 1] = "cr" /\ d[i] = "lf"

IsFolded(d, n, i) ==
  /\ IsNewline(d[i])
  /\ LET next == IF i < n /\ EndsCrLf(d, i + 1) THEN i + 2 ELSE i + 1
     IN  next <= n /\ d[next] = "blank"

Kept(d, n) == {i \in 1 .. n : ~EndsCrLf(d, i) /\ ~IsFolded(d, n, i)}

Place(kept, i) == Cardinality({k \in kept : k <= i})

Plain(b) == IF IsNewline(b) THEN "lf" ELSE b

(* The bytes that are kept stand one behind the other. *)
IsNormalForm(h, d, n) ==
  /\ Len(h) = Cardinality(Kept(d, n))
  /\ \A i \in Kept(d, n) : h[Place(Kept(d, n), i)] = Plain(d[i])

(* The positions of the newlines that end an empty line. *)
EmptyLines(d) ==
  {i \in 2 .. Len(d) : /\ IsNewline(d[i - 1]) /\ IsNewline(d[i])
                       /\ ~EndsCrLf(d, i)}

(* An empty line is known to be complete, when it ends with a carriage     *)
(* return, with the next byte.                                             *)
IsComplete(d) == \E i \in EmptyLines(d) : d[i] = "cr" => i < Len(d)

HeaderLength(d) ==
  LET first == CHOOSE i \in EmptyLines(d) : \A j \in EmptyLines(d) : i <= j
  IN  IF ~IsComplete(d) THEN Len(d)
      ELSE IF first < Len(d) /\ EndsCrLf(d, first + 1) THEN first + 1 ELSE first

(* No two blanks stand side by side once folded newlines are taken out.    *)
HasSingleBlanks(d, n) ==
  \A i, j \in Kept(d, n) :
    i < j /\ d[i] = "blank" /\ d[j] = "blank" =>
      \E k \in Kept(d, n) : i < k /\ k < j

(***************************************************************************)
(* fetch_header "stores the header and content data": however the bytes    *)
(* were divided into chunks, it succeeds exactly when they hold a complete *)
(* header, the header is the normal form of the bytes up to its end, and   *)
(* the content is the bytes behind it, without loss, also after            *)
(* fetch_content and after fetch_header is called again.  A content that   *)
(* is given out has the requested length.                                  *)
(*                                                                         *)
(* Nothing is said of a header with several blanks in a row: the class     *)
(* promises to replace all linear white space by one space, the code keeps *)
(* every blank (see the README).                                           *)
(***************************************************************************)
HeaderIsNormalised ==
  pc \in {"idle", "content"} /\ state \in EndStates =>
    LET n == HeaderLength(delivered)
    IN  /\ state = "reached_content" <=> IsComplete(delivered)
        /\ HasSingleBlanks(delivered, n) => IsNormalForm(header, delivered, n)
        /\ content = SubSeq(delivered, n + 1, Len(delivered))
        /\ succeeded => Len(content) = length

(***************************************************************************)
(* Every chunk is scanned to its end: none of the states waits for another *)
(* character without giving up its turn.                                   *)
(***************************************************************************)
EveryChunkIsScanned == pc = "scan" ~> pc = "receive"

=============================================================================
