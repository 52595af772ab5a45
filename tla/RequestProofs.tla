---------------------------- MODULE RequestProofs ----------------------------
(***************************************************************************)
(* The lexer normalises the header in place, safely and correctly; the     *)
(* content of a request is complete, for streams, chunks and header fields *)
(* of any size, and after any number of calls of fetch_content; and every  *)
(* string that a request gives out ends within its header and stays as it  *)
(* is: theorems about the lexer, the request and its uris together.        *)
(*                                                                         *)
(* Until fetch_header has returned, the lexer takes steps of its own and   *)
(* what holds of it alone does.  Afterwards parse writes null characters   *)
(* and decoded uris into the header.                                       *)
(***************************************************************************)
EXTENDS Request, UriProofs, FiniteSetTheorems

-----------------------------------------------------------------------------
(***************************************************************************)
(* First, the lexer by itself.  Normalising the header in place is safe    *)
(* for streams, chunks and content lengths of any size: no byte is         *)
(* overwritten before it was read, and the assertions of fetch_header      *)
(* hold.  It is correct as well: what is given out is the normal form of   *)
(* the header, and the content is what is behind it.                       *)
(***************************************************************************)
(***************************************************************************)
(* Between two chunks everything received is scanned; the content is       *)
(* fetched only behind a complete header; and the parser's cursor stands   *)
(* at the beginning as long as the header may still be cut off.            *)
(***************************************************************************)
Phases ==
  /\ tail <= head
  /\ state = "possible_cr_lf" => tail > 0
  /\ state \notin EndStates /\ pc # "scan" =>
       head = Len(header) /\ Len(header) = Len(delivered)
  /\ pc = "content" => state = "reached_content"
  /\ pc \in {"idle", "content"} => tail = 0 /\ head = 0
  /\ pc = "scan" \/ state \notin EndStates \/ tail > 0 => index = 0

IInv == TypeOK /\ AssertionsHold /\ UnreadIsIntact /\ Phases

-----------------------------------------------------------------------------
(* A chunk is a sequence of at least one byte. *)
LEMMA ChunkType ==
  ASSUME NEW n, NEW chunk, IsChunk(chunk, n)
  PROVE  chunk \in Seq(Bytes) /\ Len(chunk) \in Nat \ {0}
<1>1. chunk \in Seq(Bytes) /\ Len(chunk) # 0
  BY DEF IsChunk
<1> QED
  BY <1>1, LenProperties

(* Appending a chunk to the header and to the history keeps them alike. *)
LEMMA Appending ==
  ASSUME NEW s \in Seq(Bytes), NEW t \in Seq(Bytes), NEW chunk \in Seq(Bytes),
         Len(s) = Len(t)
  PROVE  /\ s \o chunk \in Seq(Bytes)
         /\ Len(s \o chunk) = Len(s) + Len(chunk)
         /\ \A i \in Len(s) + 1 .. Len(s \o chunk) :
              (s \o chunk)[i] = (t \o chunk)[i]
<1>1. /\ s \o chunk \in Seq(Bytes)
      /\ Len(s \o chunk) = Len(s) + Len(chunk)
      /\ Len(t \o chunk) = Len(t) + Len(chunk)
  BY ConcatProperties
<1>2. Len(s) \in Nat /\ Len(chunk) \in Nat
  BY LenProperties
<1>3. ASSUME NEW i \in Len(s) + 1 .. Len(s \o chunk)
      PROVE  (s \o chunk)[i] = (t \o chunk)[i]
  <2>1. i \in 1 .. Len(s) + Len(chunk) /\ ~(i <= Len(s))
    BY <1>1, <1>2
  <2>2. (s \o chunk)[i] = chunk[i - Len(s)]
    BY <2>1, ConcatProperties
  <2>3. (t \o chunk)[i] = chunk[i - Len(t)]
    BY <2>1, ConcatProperties
  <2> QED
    BY <2>2, <2>3
<1> QED
  BY <1>1, <1>3

(* Cutting a buffer off. *)
LEMMA Cutting ==
  ASSUME NEW s \in Seq(Bytes), NEW n \in 0 .. Len(s)
  PROVE  SubSeq(s, 1, n) \in Seq(Bytes) /\ Len(SubSeq(s, 1, n)) = n
BY SubSeqProperties

(* What is behind a position is behind an earlier position. *)
LEMMA Narrowing ==
  ASSUME NEW a \in Nat, NEW n \in Nat, NEW b \in a .. n
  PROVE  \A i \in b + 1 .. n : i \in a + 1 .. n
OBVIOUS

(***************************************************************************)
(* A step of the scanner that writes at a position it has read already and *)
(* ends at the inner loop's test keeps the invariant.                      *)
(***************************************************************************)
LEMMA ScanStep ==
  ASSUME IInv, pc = "scan", state \notin EndStates, Continue,
         header' \in Seq(Bytes), Len(header') = Len(header),
         \A i \in head' + 1 .. Len(header) : header'[i] = header[i],
         head' \in head .. Len(header), tail' \in Nat, tail' <= head',
         last' \in Bytes \cup {"none"},
         state' \in {"copy", "possible_cr_lf", "possible_lws",
                     "reached_content"},
         state' \in {"possible_cr_lf", "possible_lws"} => tail' > 0,
         content' = content
  PROVE  IInv'
<1>1. TypeOK'
  BY DEF IInv, TypeOK, Continue, EndStates, Phases
<1>2. AssertionsHold'
  BY DEF IInv, TypeOK, AssertionsHold, Continue
<1>3. UnreadIsIntact'
  <2>1. /\ Len(header) = Len(delivered) /\ Len(header) \in Nat /\ head \in Nat
        /\ \A i \in head + 1 .. Len(header) : header[i] = delivered[i]
    BY LenProperties DEF IInv, TypeOK, UnreadIsIntact
  <2>2. \A i \in head' + 1 .. Len(header) : i \in head + 1 .. Len(header)
    BY <2>1, Narrowing
  <2>3. /\ delivered' = delivered
        /\ pc' = "scan" => head' < Len(header')
    BY DEF Continue
  <2> QED
    BY <2>1, <2>2, <2>3 DEF UnreadIsIntact
<1>4. Phases'
  BY DEF IInv, TypeOK, UnreadIsIntact, Phases, Continue, EndStates
<1> QED
  BY <1>1, <1>2, <1>3, <1>4 DEF IInv

(* The byte that is read is one of the buffer's. *)
LEMMA CharType ==
  ASSUME IInv, pc = "scan"
  PROVE  Char \in Bytes /\ head + 1 \in 1 .. Len(header)
BY DEF IInv, TypeOK, UnreadIsIntact, Char

-----------------------------------------------------------------------------
LEMMA StepPreservesIInv ==
  IInv /\ [Next]_vars => IInv'
<1> SUFFICES ASSUME IInv, [Next]_vars
             PROVE  IInv'
  OBVIOUS
<1> USE LexerAssumption
<1>1. CASE FetchHeader
  BY <1>1 DEF FetchHeader, IInv, TypeOK, AssertionsHold, UnreadIsIntact, Phases
<1>2. CASE Receive
  <2>1. PICK chunk \in Sent(delivered) :
          /\ IsChunk(chunk, chunk_size)
          /\ header' = header \o chunk /\ delivered' = delivered \o chunk
    BY <1>2 DEF Receive
  <2>2. chunk \in Seq(Bytes) /\ Len(chunk) \in Nat \ {0}
    BY <2>1, ChunkType
  <2>3. /\ header \in Seq(Bytes) /\ delivered \in Seq(Bytes)
        /\ head = Len(header) /\ Len(header) = Len(delivered)
    BY <1>2 DEF Receive, IInv, TypeOK, Phases
  <2>4. /\ header' \in Seq(Bytes) /\ delivered' \in Seq(Bytes)
        /\ Len(header') = Len(header) + Len(chunk)
        /\ Len(delivered') = Len(delivered) + Len(chunk)
        /\ \A i \in head + 1 .. Len(header') : header'[i] = delivered'[i]
    <3>1. /\ header \o chunk \in Seq(Bytes)
          /\ Len(header \o chunk) = Len(header) + Len(chunk)
          /\ \A i \in Len(header) + 1 .. Len(header \o chunk) :
               (header \o chunk)[i] = (delivered \o chunk)[i]
      BY <2>2, <2>3, Appending, ZenonT(60)
    <3>2. /\ delivered \o chunk \in Seq(Bytes)
          /\ Len(delivered \o chunk) = Len(delivered) + Len(chunk)
      BY <2>2, <2>3, Appending
    <3> QED
      BY <2>1, <2>3, <3>1, <3>2
  <2>5. TypeOK'
    BY <1>2, <2>2, <2>3, <2>4 DEF Receive, IInv, TypeOK
  <2>6. AssertionsHold'
    BY <1>2, <2>2, <2>3, <2>4
       DEF Receive, IInv, TypeOK, AssertionsHold, EndStates
  <2>7. UnreadIsIntact'
    BY <1>2, <2>2, <2>3, <2>4
       DEF Receive, IInv, TypeOK, UnreadIsIntact, Phases
  <2>8. Phases'
    BY <1>2 DEF Receive, IInv, Phases
  <2> QED
    BY <2>5, <2>6, <2>7, <2>8 DEF IInv
<1>3. CASE ReceiveFails
  BY <1>3 DEF ReceiveFails, IInv, TypeOK, AssertionsHold, UnreadIsIntact,
              Phases, EndStates
<1>4. CASE Copy
  <2>1. Char \in Bytes /\ head + 1 \in 1 .. Len(header)
    BY <1>4, CharType DEF Copy, Scan
  <2>2. /\ tail \in Nat /\ head \in Nat /\ tail <= head
        /\ header \in Seq(Bytes)
    BY DEF IInv, TypeOK, Phases
  <2>3. PICK b \in Bytes : header' = [header EXCEPT ![tail + 1] = b]
    BY <1>4, <2>1 DEF Copy, Bytes
  <2>4. header' \in Seq(Bytes) /\ Len(header') = Len(header)
    <3>1. tail + 1 \in 1 .. Len(header)
      BY <2>1, <2>2
    <3> QED
      BY <2>2, <2>3, <3>1, ExceptSeq
  <2>5. \A i \in head' + 1 .. Len(header) : header'[i] = header[i]
    BY <1>4, <2>1, <2>2, <2>3 DEF Copy
  <2>6. last' \in Bytes \cup {"none"}
    BY <1>4, <2>1 DEF Copy, IInv, TypeOK
  <2> QED
    BY <1>4, <2>1, <2>2, <2>4, <2>5, <2>6, ScanStep
       DEF Copy, Scan, EndStates
<1>5. CASE PossibleCrLf
  <2>1. Char \in Bytes /\ head + 1 \in 1 .. Len(header)
    BY <1>5, CharType DEF PossibleCrLf, Scan
  <2>2. tail \in Nat /\ head \in Nat /\ tail <= head /\ tail > 0
    BY <1>5 DEF PossibleCrLf, Scan, IInv, TypeOK, Phases
  <2>3. header \in Seq(Bytes)
    BY DEF IInv, TypeOK
  <2>4. head' \in head .. Len(header) /\ tail' = tail /\ header' = header
    BY <1>5, <2>1, <2>2 DEF PossibleCrLf
  <2> QED
    BY <1>5, <2>2, <2>3, <2>4, ScanStep
       DEF PossibleCrLf, Scan, EndStates, Bytes
<1>6. CASE PossibleLws
  <2>1. Char \in Bytes /\ head + 1 \in 1 .. Len(header)
    BY <1>6, CharType DEF PossibleLws, Scan
  <2>2. /\ tail \in Nat /\ head \in Nat /\ tail <= head /\ tail > 0
        /\ header \in Seq(Bytes) /\ last \in Bytes \cup {"none"}
    BY <1>6 DEF PossibleLws, Scan, IInv, TypeOK, AssertionsHold, Phases
  <2>3. CASE Char = "blank"
    <3>1. /\ header' = [header EXCEPT ![tail] = "blank"]
          /\ head' = head + 1 /\ last' = "blank"
      BY <1>6, <2>3 DEF PossibleLws
    <3>2. tail \in 1 .. Len(header)
      BY <2>1, <2>2
    <3>3. /\ header' \in Seq(Bytes) /\ Len(header') = Len(header)
          /\ \A i \in head' + 1 .. Len(header) : header'[i] = header[i]
      BY <2>1, <2>2, <3>1, <3>2, ExceptSeq DEF Bytes
    <3> QED
      BY <1>6, <2>1, <2>2, <3>1, <3>3, ScanStep
         DEF PossibleLws, Scan, EndStates, Bytes
  <2>4. CASE Char # "blank"
    <3>1. header' = header /\ head' = head /\ last' = last
      BY <1>6, <2>4 DEF PossibleLws
    <3> QED
      BY <1>6, <2>1, <2>2, <3>1, ScanStep DEF PossibleLws, Scan, EndStates
  <2> QED
    BY <2>3, <2>4
<1>7. CASE ReachedContent
  <2>1. /\ tail \in Nat /\ head \in Nat /\ tail <= head /\ head < Len(header)
        /\ header \in Seq(Bytes) /\ content \in Seq(Bytes)
    BY <1>7 DEF ReachedContent, Scan, IInv, TypeOK, UnreadIsIntact, Phases
  <2>2. header' \in Seq(Bytes) /\ Len(header') = tail
    BY <1>7, <2>1, Cutting DEF ReachedContent
  <2>3. content' \in Seq(Bytes)
    <3>1. SubSeq(header, head + 1, Len(header)) \in Seq(Bytes)
      BY <2>1, SubSeqProperties
    <3> QED
      BY <1>7, <2>1, <3>1, ConcatProperties DEF ReachedContent
  <2>4. pc' = "receive" /\ state' = "reached_content" /\ index' = 0
    BY <1>7, <2>1, <2>2 DEF ReachedContent, Scan, Continue, IInv, Phases
  <2> QED
    BY <1>7, <2>1, <2>2, <2>3, <2>4
       DEF ReachedContent, Continue, IInv, TypeOK, AssertionsHold,
           UnreadIsIntact, Phases, EndStates
<1>8. CASE Return
  <2>1. /\ tail \in Nat /\ tail <= Len(header) /\ header \in Seq(Bytes)
        /\ index \in 0 .. Len(header) /\ (tail > 0 => index = 0)
        /\ state \in EndStates
    BY <1>8 DEF Return, IInv, TypeOK, AssertionsHold, Phases
  <2>2. /\ header' \in Seq(Bytes)
        /\ index \in 0 .. Len(header')
    BY <1>8, <2>1, Cutting DEF Return
  <2>3. Len(header') \in Nat
    BY <2>2
  <2> QED
    BY <1>8, <2>1, <2>2, <2>3
       DEF Return, LeaveFetchHeader, IInv, TypeOK, AssertionsHold,
           UnreadIsIntact, Phases, EndStates
<1>9. CASE FetchContent
  <2>1. PICK n \in 1 .. MaxLength :
          /\ length' = n
          /\ pc' \in {"idle", "content"}
          /\ succeeded' \in BOOLEAN
    BY <1>9 DEF FetchContent, IInv, TypeOK
  <2> QED
    BY <1>9, <2>1 DEF FetchContent, IInv, TypeOK, AssertionsHold,
                      UnreadIsIntact, Phases, EndStates
<1>10. CASE ReceiveContent
  <2>1. PICK chunk \in Sent(delivered) :
          /\ IsChunk(chunk, BytesToRead)
          /\ content' = content \o chunk /\ delivered' = delivered \o chunk
          /\ pc' \in {"idle", "content"} /\ succeeded' \in BOOLEAN
    BY <1>10 DEF ReceiveContent, IInv, TypeOK
  <2>2. content' \in Seq(Bytes) /\ delivered' \in Seq(Bytes)
    BY <2>1, ChunkType, ConcatProperties DEF IInv, TypeOK
  <2> QED
    BY <1>10, <2>1, <2>2 DEF ReceiveContent, IInv, TypeOK, AssertionsHold,
                             UnreadIsIntact, Phases, EndStates
<1>11. CASE ReceiveContentFails
  BY <1>11 DEF ReceiveContentFails, IInv, TypeOK, AssertionsHold,
               UnreadIsIntact, Phases, EndStates
<1>12. ASSUME NEW i \in 0 .. Len(header), pc = "idle", MoveIndex(i)
       PROVE  IInv'
  BY <1>12 DEF MoveIndex, IInv, TypeOK, AssertionsHold, UnreadIsIntact,
               Phases, EndStates
<1>13. CASE Get
  <2>1. index + 1 \in 0 .. Len(header)
    BY <1>13 DEF Get, IInv, TypeOK
  <2> QED
    BY <1>12, <1>13, <2>1 DEF Get
<1>14. ASSUME NEW i \in 0 .. Len(header) + 1, SetIndex(i)
       PROVE  IInv'
  <2>1. i \in 0 .. Len(header)
    BY <1>14 DEF SetIndex
  <2> QED
    BY <1>12, <1>14, <2>1 DEF SetIndex
<1>15. CASE UNCHANGED vars
  BY <1>15 DEF vars, IInv, TypeOK, AssertionsHold, UnreadIsIntact, Phases
<1> QED
  BY <1>1, <1>2, <1>3, <1>4, <1>5, <1>6, <1>7, <1>8, <1>9, <1>10, <1>11,
     <1>13, <1>14, <1>15 DEF Next, Step

LEMMA InitImpliesIInv ==
  Init => IInv
<1>1. <<>> \in Seq(Bytes) /\ Len(<<>>) = 0
  BY EmptySeq
<1>2. Init => TypeOK
  <2> SUFFICES ASSUME Init PROVE TypeOK
    OBVIOUS
  <2>1. /\ header \in Seq(Bytes) /\ content \in Seq(Bytes)
        /\ delivered \in Seq(Bytes) /\ index \in 0 .. Len(header)
    BY <1>1 DEF Init
  <2>2. length \in 0 .. MaxLength
    BY LexerAssumption DEF Init
  <2> QED
    BY <2>1, <2>2 DEF Init, TypeOK
<1>3. Init => AssertionsHold /\ UnreadIsIntact
  BY <1>1 DEF Init, AssertionsHold, UnreadIsIntact
<1>4. Init => Phases
  BY <1>1 DEF Init, Phases
<1> QED
  BY <1>2, <1>3, <1>4 DEF IInv

(***************************************************************************)
(* The invariant holds for streams, chunks and lengths of any size.        *)
(***************************************************************************)
THEOREM Invariance == Spec => []IInv
BY InitImpliesIInv, StepPreservesIInv, PTL DEF Spec

(* The buffers, the cursor and the local variables keep their types. *)
THEOREM TypeCorrect == Spec => []TypeOK
BY Invariance, PTL DEF IInv

(***************************************************************************)
(* The assertions in fetch_header, fetch_header_step,                      *)
(* fetch_header_possible_lws and fetch_header_reached_content hold.        *)
(***************************************************************************)
THEOREM AssertionsCorrect == Spec => []AssertionsHold
BY Invariance, PTL DEF IInv

(***************************************************************************)
(* No byte of the buffer is overwritten before fetch_header_step read it,  *)
(* for every division of the stream into chunks.                           *)
(***************************************************************************)
THEOREM InPlaceCorrect == Spec => []UnreadIsIntact
BY Invariance, PTL DEF IInv

-----------------------------------------------------------------------------
(* What the header becomes.                                                *)

(* The first t bytes of h are the normal form of the first n bytes of d. *)
Represents(h, t, d, n) ==
  /\ t = Cardinality(Kept(d, n))
  /\ \A i \in Kept(d, n) : h[Place(Kept(d, n), i)] = Plain(d[i])

LEMMA AllRepresented ==
  ASSUME NEW h, NEW d, NEW n, Represents(h, Len(h), d, n)
  PROVE  IsNormalForm(h, d, n)
BY DEF Represents, IsNormalForm

EndsLine(d, n) == n > 0 /\ IsNewline(d[n])

(***************************************************************************)
(* As long as the header's end was not seen, what is before head has been  *)
(* normalised as if no more came, and each state knows how it ends: copy   *)
(* whether with a newline that the byte at head does not belong to, the    *)
(* other two that it does end with one.                                    *)
(***************************************************************************)
CopyKnows ==
  state = "copy" =>
    /\ last = "lf" <=> EndsLine(delivered, head)
    /\ EndsLine(delivered, head) =>
         /\ pc = "scan"
         /\ delivered[head + 1] # "blank"
         /\ ~EndsCrLf(delivered, head + 1)
    /\ \A i \in EmptyLines(delivered) : i > head

PossibleCrLfKnows ==
  state = "possible_cr_lf" =>
    /\ head > 0 /\ delivered[head] = "cr"
    /\ last = "lf" <=> EndsLine(delivered, head - 1)
    /\ \A i \in EmptyLines(delivered) : i >= head

PossibleLwsKnows ==
  state = "possible_lws" =>
    /\ last = "lf" /\ EndsLine(delivered, head)
    /\ delivered[head] = "cr" => pc = "scan" /\ ~EndsCrLf(delivered, head + 1)
    /\ \A i \in EmptyLines(delivered) : i > head

Unfinished ==
  state \notin EndStates =>
    /\ content = <<>>
    /\ Represents(header, tail, delivered, head)
    /\ head > 0 => tail > 0
    /\ CopyKnows /\ PossibleCrLfKnows /\ PossibleLwsKnows

(* The header's end was found, and what is behind it is still unread. *)
EndFound ==
  pc = "scan" /\ state = "reached_content" =>
    /\ content = <<>> /\ tail > 0
    /\ IsComplete(delivered) /\ HeaderLength(delivered) = head
    /\ Represents(header, tail, delivered, head)

(* The header is to be cut off. *)
ContentTaken ==
  pc = "receive" /\ state \in EndStates /\ tail > 0 =>
    /\ state = "reached_content" <=> IsComplete(delivered)
    /\ HeaderLength(delivered) = head
    /\ Represents(header, tail, delivered, head)
    /\ content = SubSeq(delivered, head + 1, Len(delivered))

(* The header is as it stays. *)
Finished ==
  pc \in {"idle", "content"} \/ (pc = "receive" /\ tail = 0) =>
    (state \in EndStates =>
       LET n == HeaderLength(delivered)
       IN  /\ state = "reached_content" <=> IsComplete(delivered)
           /\ IsNormalForm(header, delivered, n)
           /\ content = SubSeq(delivered, n + 1, Len(delivered)))

ContentFits ==
  /\ succeeded => length > 0 /\ Len(content) = length
  /\ pc = "content" => Len(content) < length

Normalised == Unfinished /\ EndFound /\ ContentTaken /\ Finished /\ ContentFits

-----------------------------------------------------------------------------
(* What is kept of the first bytes, when there is one byte more.           *)

LEMMA KeptIsFinite ==
  ASSUME NEW d, NEW n \in Nat
  PROVE  Kept(d, n) \subseteq 1 .. n /\ IsFiniteSet(Kept(d, n))
<1>1. IsFiniteSet(1 .. n)
  BY FS_Interval
<1> QED
  BY <1>1, FS_Subset DEF Kept

(* Only the first bytes count. *)
LEMMA KeptOfPrefix ==
  ASSUME NEW d, NEW e, NEW n \in Nat, \A i \in 1 .. n : e[i] = d[i]
  PROVE  Kept(e, n) = Kept(d, n)
<1>1. ASSUME NEW i \in 1 .. n
      PROVE  EndsCrLf(e, i) <=> EndsCrLf(d, i)
  <2>1. i > 1 => i - 1 \in 1 .. n
    OBVIOUS
  <2> QED
    BY <2>1 DEF EndsCrLf
<1>2. ASSUME NEW i \in 1 .. n
      PROVE  IsFolded(e, n, i) <=> IsFolded(d, n, i)
  <2>1. i < n => i + 1 \in 1 .. n
    OBVIOUS
  <2>2. /\ i + 1 <= n => i + 1 \in 1 .. n
        /\ i + 2 <= n => i + 2 \in 1 .. n
    OBVIOUS
  <2> QED
    BY <1>1, <2>1, <2>2 DEF IsFolded
<1> QED
  BY <1>1, <1>2 DEF Kept

(* A byte that neither ends a line end nor folds one is kept. *)
LEMMA KeptGrows ==
  ASSUME NEW d, NEW n \in Nat, ~EndsCrLf(d, n + 1),
         EndsLine(d, n) => d[n + 1] # "blank"
  PROVE  Kept(d, n + 1) = Kept(d, n) \cup {n + 1}
<1>1. ~IsFolded(d, n + 1, n + 1)
  BY DEF IsFolded
<1>2. ASSUME NEW i \in 1 .. n
      PROVE  IsFolded(d, n + 1, i) <=> IsFolded(d, n, i)
  <2>1. CASE i = n
    BY <2>1 DEF IsFolded, EndsLine
  <2>2. CASE i < n
    <3>1. EndsCrLf(d, i + 1) /\ i + 2 = n + 1 => EndsLine(d, n)
      BY <2>2 DEF EndsCrLf, EndsLine, IsNewline
    <3> QED
      BY <2>2, <3>1 DEF IsFolded
  <2> QED
    BY <2>1, <2>2
<1> QED
  BY <1>1, <1>2 DEF Kept

(* A newline behind a carriage return is not. *)
LEMMA KeptStays ==
  ASSUME NEW d, NEW n \in Nat \ {0}, EndsCrLf(d, n + 1)
  PROVE  Kept(d, n + 1) = Kept(d, n)
<1>1. d[n] = "cr" /\ d[n + 1] = "lf"
  BY DEF EndsCrLf
<1>2. ASSUME NEW i \in 1 .. n
      PROVE  IsFolded(d, n + 1, i) <=> IsFolded(d, n, i)
  <2>1. CASE i = n
    BY <2>1 DEF IsFolded
  <2>2. CASE i < n
    <3>1. i + 2 = n + 1 => ~EndsCrLf(d, i + 1)
      BY <1>1, <2>2 DEF EndsCrLf
    <3> QED
      BY <1>1, <2>2, <3>1 DEF IsFolded
  <2> QED
    BY <2>1, <2>2
<1> QED
  BY <1>2 DEF Kept

(* A blank replaces the newline before it, the last byte that was kept. *)
LEMMA KeptFolds ==
  ASSUME NEW d, NEW n \in Nat, EndsLine(d, n), d[n + 1] = "blank"
  PROVE  \E f \in Kept(d, n) :
           /\ \A i \in Kept(d, n) : i <= f
           /\ Kept(d, n + 1) = (Kept(d, n) \ {f}) \cup {n + 1}
<1> DEFINE f == IF EndsCrLf(d, n) THEN n - 1 ELSE n
<1>1. n > 0 /\ IsNewline(d[n]) /\ f \in 1 .. n
  BY DEF EndsLine, EndsCrLf
<1>2. ~EndsCrLf(d, n + 1) /\ ~IsFolded(d, n + 1, n + 1)
  BY DEF IsFolded, EndsCrLf
<1>3. IsNewline(d[f]) /\ ~EndsCrLf(d, f)
  BY <1>1 DEF EndsCrLf, IsNewline
<1>4. ~IsFolded(d, n, f) /\ IsFolded(d, n + 1, f)
  BY <1>1, <1>2, <1>3 DEF IsFolded
<1>5. ASSUME NEW i \in 1 .. n, i # f, ~EndsCrLf(d, i)
      PROVE  /\ i < f
             /\ IsFolded(d, n + 1, i) <=> IsFolded(d, n, i)
  <2>1. i < f
    BY <1>1, <1>5
  <2>2. EndsCrLf(d, i + 1) => i + 2 # n + 1
    BY <1>1, <2>1, <1>5
  <2> QED
    BY <1>1, <2>1, <2>2 DEF IsFolded
<1>6. f \in Kept(d, n) /\ \A i \in Kept(d, n) : i <= f
  BY <1>1, <1>3, <1>4, <1>5 DEF Kept
<1>7. Kept(d, n + 1) = (Kept(d, n) \ {f}) \cup {n + 1}
  BY <1>1, <1>2, <1>4, <1>5 DEF Kept
<1> QED
  BY <1>6, <1>7

(* The places of the elements of a finite set of numbers. *)
LEMMA Places ==
  ASSUME NEW K \in SUBSET Nat, IsFiniteSet(K), NEW i \in K
  PROVE  Place(K, i) \in 1 .. Cardinality(K)
<1> DEFINE below == {k \in K : k <= i}
<1>1. below \subseteq K /\ i \in below
  OBVIOUS
<1>2. IsFiniteSet(below) /\ Cardinality(below) <= Cardinality(K)
  BY <1>1, FS_Subset
<1>3. Cardinality(below) \in Nat /\ Cardinality(below) # 0
  BY <1>1, <1>2, FS_CardinalityType, FS_EmptySet
<1>4. Place(K, i) = Cardinality(below)
  BY DEF Place
<1>5. Cardinality(K) \in Nat
  BY FS_CardinalityType
<1> HIDE DEF below
<1> QED
  BY <1>2, <1>3, <1>4, <1>5

(* A number behind all others gets the next place. *)
LEMMA PlaceBehind ==
  ASSUME NEW K \in SUBSET Nat, IsFiniteSet(K), NEW m \in Nat,
         \A k \in K : k < m
  PROVE  /\ IsFiniteSet(K \cup {m})
         /\ Cardinality(K \cup {m}) = Cardinality(K) + 1
         /\ Place(K \cup {m}, m) = Cardinality(K) + 1
         /\ \A i \in K : Place(K \cup {m}, i) = Place(K, i)
<1>1. m \notin K
  OBVIOUS
<1>2. IsFiniteSet(K \cup {m}) /\ Cardinality(K \cup {m}) = Cardinality(K) + 1
  BY <1>1, FS_AddElement
<1>3. {k \in K \cup {m} : k <= m} = K \cup {m}
  <2>1. \A k \in K : k \in Nat /\ k <= m
    OBVIOUS
  <2>2. \A k \in K \cup {m} : k <= m
    BY <2>1
  <2> QED
    BY <2>2
<1>4. \A i \in K : {k \in K \cup {m} : k <= i} = {k \in K : k <= i}
  OBVIOUS
<1>5. Place(K \cup {m}, m) = Cardinality(K \cup {m})
  BY <1>3 DEF Place
<1>6. \A i \in K : Place(K \cup {m}, i) = Place(K, i)
  BY <1>4 DEF Place
<1> QED
  BY <1>2, <1>5, <1>6

(* The greatest number has the last place, and leaves the others' alone. *)
LEMMA PlaceOfLast ==
  ASSUME NEW K \in SUBSET Nat, IsFiniteSet(K), NEW f \in K,
         \A k \in K : k <= f
  PROVE  /\ IsFiniteSet(K \ {f})
         /\ Cardinality(K) = Cardinality(K \ {f}) + 1
         /\ Place(K, f) = Cardinality(K)
         /\ \A i \in K \ {f} : Place(K \ {f}, i) = Place(K, i)
<1>1. /\ K = (K \ {f}) \cup {f} /\ (K \ {f}) \in SUBSET Nat /\ f \in Nat
      /\ \A k \in K \ {f} : k < f
  OBVIOUS
<1>2. IsFiniteSet(K \ {f})
  BY FS_RemoveElement
<1> QED
  BY <1>1, <1>2, PlaceBehind

(* One byte more is written behind the others ... *)
LEMMA RepresentsMore ==
  ASSUME NEW d, NEW n \in Nat, NEW h, NEW t \in Nat, Represents(h, t, d, n),
         ~EndsCrLf(d, n + 1), EndsLine(d, n) => d[n + 1] # "blank",
         NEW g, \A i \in 1 .. t : g[i] = h[i], g[t + 1] = Plain(d[n + 1])
  PROVE  Represents(g, t + 1, d, n + 1)
<1>1. PICK K : K = Kept(d, n)
  OBVIOUS
<1>2. /\ K \in SUBSET Nat /\ IsFiniteSet(K) /\ \A k \in K : k < n + 1
      /\ n + 1 \in Nat
  BY <1>1, KeptIsFinite
<1>3. Kept(d, n + 1) = K \cup {n + 1}
  BY <1>1, KeptGrows
<1>4. /\ Cardinality(K \cup {n + 1}) = Cardinality(K) + 1
      /\ Place(K \cup {n + 1}, n + 1) = Cardinality(K) + 1
      /\ \A i \in K : Place(K \cup {n + 1}, i) = Place(K, i)
  BY <1>2, PlaceBehind
<1>5. \A i \in K : Place(K, i) \in 1 .. Cardinality(K)
  BY <1>2, Places
<1>6. t = Cardinality(K) /\ \A i \in K : h[Place(K, i)] = Plain(d[i])
  BY <1>1 DEF Represents
<1> QED
  BY <1>3, <1>4, <1>5, <1>6 DEF Represents

(* ... or replaces the last of them. *)
LEMMA RepresentsFolded ==
  ASSUME NEW d, NEW n \in Nat, NEW h, NEW t \in Nat, Represents(h, t, d, n),
         EndsLine(d, n), d[n + 1] = "blank",
         NEW g, \A i \in 1 .. t - 1 : g[i] = h[i], g[t] = "blank"
  PROVE  Represents(g, t, d, n + 1)
<1>1. PICK K : K = Kept(d, n)
  OBVIOUS
<1>2. K \in SUBSET Nat /\ IsFiniteSet(K) /\ \A k \in K : k < n + 1
  BY <1>1, KeptIsFinite
<1>3. PICK f \in K : /\ \A i \in K : i <= f
                     /\ Kept(d, n + 1) = (K \ {f}) \cup {n + 1}
  BY <1>1, KeptFolds
<1>4. PICK R : R = K \ {f}
  OBVIOUS
<1>5. /\ IsFiniteSet(R) /\ R \in SUBSET Nat /\ \A k \in R : k < n + 1
      /\ Cardinality(K) = Cardinality(R) + 1
      /\ \A i \in R : Place(R, i) = Place(K, i)
  BY <1>2, <1>3, <1>4, PlaceOfLast
<1>6. /\ Cardinality(R \cup {n + 1}) = Cardinality(R) + 1
      /\ Place(R \cup {n + 1}, n + 1) = Cardinality(R) + 1
      /\ \A i \in R : Place(R \cup {n + 1}, i) = Place(R, i)
  BY <1>5, PlaceBehind
<1>7. \A i \in R : Place(R, i) \in 1 .. Cardinality(R)
  BY <1>5, Places
<1>8. t = Cardinality(K) /\ \A i \in K : h[Place(K, i)] = Plain(d[i])
  BY <1>1 DEF Represents
<1>9. Plain("blank") = "blank"
  BY DEF Plain, IsNewline
<1>10. /\ Cardinality(R) = t - 1 /\ R \subseteq K
       /\ Kept(d, n + 1) = R \cup {n + 1}
  BY <1>3, <1>4, <1>5, <1>8, FS_CardinalityType
<1> QED
  BY <1>5, <1>6, <1>7, <1>8, <1>9, <1>10 DEF Represents

(* Nothing else matters to it. *)
LEMMA RepresentsAlike ==
  ASSUME NEW d, NEW e, NEW n \in Nat, \A i \in 1 .. n : e[i] = d[i],
         NEW h, NEW g, NEW t, \A i \in 1 .. t : g[i] = h[i],
         Represents(h, t, d, n)
  PROVE  Represents(g, t, e, n)
<1>1. PICK K : K = Kept(d, n)
  OBVIOUS
<1>2. Kept(e, n) = K
  BY <1>1, KeptOfPrefix
<1>3. K \in SUBSET Nat /\ K \subseteq 1 .. n /\ IsFiniteSet(K)
  BY <1>1, KeptIsFinite
<1>4. \A i \in K : Place(K, i) \in 1 .. Cardinality(K)
  BY <1>3, Places
<1> QED
  BY <1>1, <1>2, <1>3, <1>4 DEF Represents

-----------------------------------------------------------------------------
(* Where the header ends.                                                  *)

LEMMA FirstEmptyLine ==
  ASSUME NEW d, EmptyLines(d) # {}
  PROVE  \E i \in EmptyLines(d) : \A j \in EmptyLines(d) : i <= j
<1>1. EmptyLines(d) \subseteq Nat
  BY DEF EmptyLines
<1> QED
  BY <1>1, Least

LEMMA HeaderLengthIs ==
  ASSUME NEW d, NEW i \in EmptyLines(d), \A j \in EmptyLines(d) : i <= j
  PROVE  /\ IsComplete(d) <=> (d[i] = "cr" => i < Len(d))
         /\ IsComplete(d) =>
              HeaderLength(d) = IF i < Len(d) /\ EndsCrLf(d, i + 1) THEN i + 1 ELSE i
<1>1. \A j \in EmptyLines(d) : j \in 2 .. Len(d) /\ j \in Nat
  BY DEF EmptyLines
<1>2. (CHOOSE j \in EmptyLines(d) : \A k \in EmptyLines(d) : j <= k) = i
  <2>1. \A j \in EmptyLines(d) : (\A k \in EmptyLines(d) : j <= k) => j = i
    BY <1>1
  <2> QED
    BY <2>1
<1>3. IsComplete(d) <=> (d[i] = "cr" => i < Len(d))
  <2>1. ASSUME NEW j \in EmptyLines(d), d[j] = "cr" => j < Len(d)
        PROVE  d[i] = "cr" => i < Len(d)
    BY <1>1, <2>1
  <2> QED
    BY <2>1 DEF IsComplete
<1> QED
  BY <1>2, <1>3 DEF HeaderLength

(* It is not moved by what comes later. *)
LEMMA HeaderStays ==
  ASSUME NEW d \in Seq(Bytes), NEW e \in Seq(Bytes), Len(d) <= Len(e),
         \A i \in 1 .. Len(d) : e[i] = d[i], IsComplete(d)
  PROVE  /\ IsComplete(e) /\ HeaderLength(e) = HeaderLength(d)
         /\ HeaderLength(d) \in 1 .. Len(d)
<1>1. Len(d) \in Nat /\ Len(e) \in Nat
  BY LenProperties
<1>2. ASSUME NEW i \in 1 .. Len(d)
      PROVE  EndsCrLf(e, i) <=> EndsCrLf(d, i)
  <2>1. i > 1 => i - 1 \in 1 .. Len(d)
    BY <1>1
  <2> QED
    BY <2>1 DEF EndsCrLf
<1>3. ASSUME NEW i \in 2 .. Len(d)
      PROVE  i \in EmptyLines(e) <=> i \in EmptyLines(d)
  <2>1. i \in 1 .. Len(d) /\ i - 1 \in 1 .. Len(d) /\ i \in 2 .. Len(e)
    BY <1>1
  <2> QED
    BY <1>2, <2>1 DEF EmptyLines
<1>4. EmptyLines(d) # {}
  BY DEF IsComplete
<1>5. PICK i \in EmptyLines(d) : \A j \in EmptyLines(d) : i <= j
  BY <1>4, FirstEmptyLine
<1>6. /\ d[i] = "cr" => i < Len(d)
      /\ HeaderLength(d) = IF i < Len(d) /\ EndsCrLf(d, i + 1) THEN i + 1 ELSE i
  BY <1>5, HeaderLengthIs
<1>7. i \in 2 .. Len(d) /\ i \in 1 .. Len(d)
  BY <1>1 DEF EmptyLines
<1>8. i \in EmptyLines(e) /\ \A j \in EmptyLines(e) : i <= j
  <2>1. ASSUME NEW j \in EmptyLines(e) PROVE i <= j
    <3>1. j \in 2 .. Len(e)
      BY DEF EmptyLines
    <3>2. CASE j <= Len(d)
      BY <1>1, <1>3, <1>5, <3>1, <3>2
    <3>3. CASE ~(j <= Len(d))
      BY <1>1, <1>7, <3>1, <3>3
    <3> QED
      BY <3>2, <3>3
  <2> QED
    BY <1>3, <1>7, <2>1
<1>9. e[i] = "cr" => i < Len(e)
  BY <1>1, <1>6, <1>7
<1>10. /\ IsComplete(e)
       /\ HeaderLength(e) = IF i < Len(e) /\ EndsCrLf(e, i + 1) THEN i + 1 ELSE i
  BY <1>8, <1>9, HeaderLengthIs
<1>11. i < Len(e) /\ EndsCrLf(e, i + 1) <=> i < Len(d) /\ EndsCrLf(d, i + 1)
  <2>1. CASE i < Len(d)
    <3>1. i + 1 \in 1 .. Len(d) /\ i < Len(e)
      BY <1>1, <1>7, <2>1
    <3> QED
      BY <1>2, <2>1, <3>1
  <2>2. CASE ~(i < Len(d))
    <3>1. e[i] # "cr"
      BY <1>6, <1>7, <2>2
    <3>2. EndsCrLf(e, i + 1) => e[i] = "cr"
      BY <1>7 DEF EndsCrLf
    <3> QED
      BY <2>2, <3>1, <3>2
  <2> QED
    BY <2>1, <2>2
<1> QED
  BY <1>1, <1>6, <1>7, <1>10, <1>11

-----------------------------------------------------------------------------
(* The steps of the scanner.                                               *)

(* What a state of the scanner reads, and where it writes. *)
LEMMA Reading ==
  ASSUME IInv, pc = "scan"
  PROVE  /\ head \in Nat /\ tail \in Nat /\ tail <= head
         /\ Len(delivered) \in Nat /\ Len(header) = Len(delivered)
         /\ head + 1 \in 1 .. Len(delivered)
         /\ Char = delivered[head + 1]
         /\ header \in Seq(Bytes) /\ delivered \in Seq(Bytes)
<1>1. /\ head \in Nat /\ tail \in Nat /\ tail <= head
      /\ header \in Seq(Bytes) /\ delivered \in Seq(Bytes)
      /\ head < Len(header) /\ Len(header) = Len(delivered)
      /\ \A i \in head + 1 .. Len(header) : header[i] = delivered[i]
  BY DEF IInv, TypeOK, UnreadIsIntact, Phases
<1>2. Len(delivered) \in Nat
  BY <1>1, LenProperties
<1>3. head + 1 \in head + 1 .. Len(header) /\ head + 1 \in 1 .. Len(delivered)
  BY <1>1, <1>2
<1> QED
  BY <1>1, <1>2, <1>3 DEF Char

LEMMA StaysUnfinished ==
  ASSUME ContentFits, Continue, UNCHANGED content, content = <<>>,
         state' \notin EndStates, tail' > 0,
         Represents(header', tail', delivered, head'),
         CopyKnows', PossibleCrLfKnows', PossibleLwsKnows'
  PROVE  Normalised'
<1>1. /\ UNCHANGED <<succeeded, length, delivered, content>>
      /\ pc' \in {"scan", "receive"}
  BY DEF Continue
<1>2. Unfinished'
  BY <1>1 DEF Unfinished
<1>3. tail' # 0
  OBVIOUS
<1> QED
  BY <1>1, <1>2, <1>3
     DEF Normalised, EndFound, ContentTaken, Finished, ContentFits, EndStates

LEMMA FindsEnd ==
  ASSUME ContentFits, Continue, UNCHANGED content, content = <<>>,
         state' = "reached_content", tail' > 0,
         Represents(header', tail', delivered, head'),
         delivered \in Seq(Bytes), Len(header') = Len(delivered),
         head' \in 0 .. Len(delivered),
         IsComplete(delivered), HeaderLength(delivered) = head'
  PROVE  Normalised'
<1>1. /\ UNCHANGED <<succeeded, length, delivered, content>>
      /\ pc' = "scan" \/ (pc' = "receive" /\ ~(head' < Len(delivered)))
  BY DEF Continue
<1>2. pc' = "receive" => content' = SubSeq(delivered, head' + 1, Len(delivered))
  <2>1. Len(delivered) \in Nat
    BY LenProperties
  <2>2. pc' = "receive" => head' + 1 > Len(delivered)
    BY <1>1, <2>1
  <2>3. pc' = "receive" => SubSeq(delivered, head' + 1, Len(delivered)) = <<>>
    BY <2>1, <2>2, SubSeqEmpty
  <2> QED
    BY <2>3
<1>3. tail' # 0 /\ state' \in EndStates
  BY DEF EndStates
<1> QED
  BY <1>1, <1>2, <1>3
     DEF Normalised, Unfinished, EndFound, ContentTaken, Finished, ContentFits

LEMMA CopyNormalises ==
  ASSUME IInv, Normalised, Copy
  PROVE  Normalised'
<1> DEFINE d == delivered
           n == head
           c == delivered[head + 1]
<1>1. /\ n \in Nat /\ tail \in Nat /\ tail <= n
      /\ Len(d) \in Nat /\ Len(header) = Len(d) /\ n + 1 \in 1 .. Len(d)
      /\ Char = c /\ header \in Seq(Bytes) /\ d \in Seq(Bytes)
  BY Reading DEF Copy, Scan
<1>2. /\ content = <<>> /\ Represents(header, tail, d, n)
      /\ last = "lf" <=> EndsLine(d, n)
      /\ EndsLine(d, n) => c # "blank" /\ ~EndsCrLf(d, n + 1)
      /\ \A i \in EmptyLines(d) : i > n
      /\ ContentFits
  BY DEF Normalised, Unfinished, CopyKnows, Copy, Scan, EndStates
<1>3. /\ head' = n + 1 /\ tail' = tail + 1 /\ content' = content
      /\ delivered' = d /\ Continue
      /\ c = "cr" => /\ header' = [header EXCEPT ![tail + 1] = "lf"]
                     /\ state' = "possible_cr_lf" /\ last' = last
      /\ c # "cr" => /\ header' = [header EXCEPT ![tail + 1] = c]
                     /\ state' = IF c # "lf" THEN "copy"
                                 ELSE IF last = "lf" THEN "reached_content"
                                                     ELSE "possible_lws"
                     /\ last' = c
  BY <1>1 DEF Copy, Continue
<1>4. ~EndsCrLf(d, n + 1)
  <2>1. EndsCrLf(d, n + 1) => EndsLine(d, n)
    BY <1>1 DEF EndsCrLf, EndsLine, IsNewline
  <2> QED
    BY <1>2, <2>1
<1>5. /\ header' = [header EXCEPT ![tail + 1] = Plain(c)]
      /\ tail + 1 \in 1 .. Len(header)
  BY <1>1, <1>3 DEF Plain, IsNewline
<1>6. /\ header'[tail + 1] = Plain(c) /\ \A i \in 1 .. tail : header'[i] = header[i]
      /\ Len(header') = Len(d)
  BY <1>1, <1>5
<1>7. Represents(header', tail', d, head')
  <2> HIDE DEF d, n, c
  <2>1. Plain(c) = Plain(d[n + 1])
    BY DEF c, d, n
  <2>2. Represents(header', tail + 1, d, n + 1)
    BY <1>1, <1>2, <1>4, <1>6, <2>1, RepresentsMore DEF c, d, n
  <2> QED
    BY <1>3, <2>2
<1>8. tail' > 0 /\ head' \in 0 .. Len(d)
  BY <1>1, <1>3
<1>9. ASSUME ~(IsNewline(c) /\ EndsLine(d, n))
      PROVE  \A i \in EmptyLines(d) : i > n + 1
  <2>1. n + 1 \notin EmptyLines(d)
    BY <1>1, <1>9 DEF EmptyLines, EndsLine
  <2>2. \A i \in EmptyLines(d) : i \in Nat
    BY DEF EmptyLines
  <2> QED
    BY <1>1, <1>2, <2>1, <2>2
<1>10. CASE c = "cr"
  <2>1. state' = "possible_cr_lf" /\ last' = last
    BY <1>3, <1>10
  <2>2. PossibleCrLfKnows'
    <3>1. \A i \in EmptyLines(d) : i >= n + 1
      BY <1>1, <1>2 DEF EmptyLines
    <3>2. n + 1 - 1 = n
      BY <1>1
    <3> QED
      BY <1>1, <1>2, <1>3, <1>10, <2>1, <3>1, <3>2 DEF PossibleCrLfKnows
  <2>3. CopyKnows' /\ PossibleLwsKnows'
    BY <2>1 DEF CopyKnows, PossibleLwsKnows
  <2> QED
    BY <1>2, <1>3, <1>7, <1>8, <2>1, <2>2, <2>3, StaysUnfinished DEF EndStates
<1>11. CASE c = "lf" /\ last = "lf"
  <2>1. state' = "reached_content"
    BY <1>3, <1>11
  <2>2. EndsLine(d, n)
    BY <1>2, <1>11
  <2>3. n + 1 \in EmptyLines(d)
    BY <1>1, <1>4, <1>11, <2>2 DEF EmptyLines, EndsLine, IsNewline
  <2>4. \A i \in EmptyLines(d) : n + 1 <= i
    BY <1>1, <1>2 DEF EmptyLines
  <2>5. d[n + 1] # "cr"
    BY <1>11
  <2>6. ~EndsCrLf(d, n + 1 + 1)
    <3>1. EndsCrLf(d, n + 1 + 1) => d[n + 1] = "cr"
      BY <1>1 DEF EndsCrLf
    <3> QED
      BY <2>5, <3>1
  <2>7. IsComplete(d) /\ HeaderLength(d) = n + 1
    <3> HIDE DEF d, n, c
    <3> QED
      BY <2>3, <2>4, <2>5, <2>6, HeaderLengthIs
  <2> QED
    BY <1>1, <1>2, <1>3, <1>6, <1>7, <1>8, <2>1, <2>7, FindsEnd
<1>12. CASE c = "lf" /\ last # "lf"
  <2>1. state' = "possible_lws" /\ last' = "lf"
    BY <1>3, <1>12
  <2>2. ~EndsLine(d, n)
    BY <1>2, <1>12
  <2>3. EndsLine(d, n + 1)
    BY <1>1, <1>12 DEF EndsLine, IsNewline
  <2>4. PossibleLwsKnows'
    BY <1>3, <1>9, <1>12, <2>1, <2>2, <2>3 DEF PossibleLwsKnows
  <2>5. CopyKnows' /\ PossibleCrLfKnows'
    BY <2>1 DEF CopyKnows, PossibleCrLfKnows
  <2> QED
    BY <1>2, <1>3, <1>7, <1>8, <2>1, <2>4, <2>5, StaysUnfinished DEF EndStates
<1>13. CASE ~IsNewline(c)
  <2>1. state' = "copy" /\ last' = c /\ c # "lf"
    BY <1>3, <1>13 DEF IsNewline
  <2>2. ~EndsLine(d, n + 1)
    BY <1>13 DEF EndsLine
  <2>3. CopyKnows'
    BY <1>3, <1>9, <1>13, <2>1, <2>2 DEF CopyKnows
  <2>4. PossibleCrLfKnows' /\ PossibleLwsKnows'
    BY <2>1 DEF PossibleCrLfKnows, PossibleLwsKnows
  <2> QED
    BY <1>2, <1>3, <1>7, <1>8, <2>1, <2>3, <2>4, StaysUnfinished DEF EndStates
<1> QED
  BY <1>10, <1>11, <1>12, <1>13 DEF IsNewline

LEMMA PossibleCrLfNormalises ==
  ASSUME IInv, Normalised, PossibleCrLf
  PROVE  Normalised'
<1> DEFINE d == delivered
           n == head
           c == delivered[head + 1]
<1>1. /\ n \in Nat /\ tail \in Nat /\ tail <= n
      /\ Len(d) \in Nat /\ Len(header) = Len(d) /\ n + 1 \in 1 .. Len(d)
      /\ Char = c /\ header \in Seq(Bytes) /\ d \in Seq(Bytes)
  BY Reading DEF PossibleCrLf, Scan
<1>2. /\ content = <<>> /\ Represents(header, tail, d, n)
      /\ n > 0 /\ tail > 0 /\ d[n] = "cr"
      /\ last = "lf" <=> EndsLine(d, n - 1)
      /\ \A i \in EmptyLines(d) : i >= n
      /\ ContentFits
  BY DEF Normalised, Unfinished, PossibleCrLfKnows, PossibleCrLf, Scan, EndStates
<1>3. /\ head' = (IF c = "lf" THEN n + 1 ELSE n)
      /\ tail' = tail /\ content' = content /\ header' = header
      /\ last' = "lf" /\ delivered' = d /\ Continue
      /\ state' = IF last = "lf" THEN "reached_content" ELSE "possible_lws"
  BY <1>1 DEF PossibleCrLf, Continue
<1>4. EndsCrLf(d, n + 1) <=> c = "lf"
  BY <1>1, <1>2 DEF EndsCrLf
<1>5. Represents(header', tail', d, head')
  <2>1. CASE c = "lf"
    <3>1. Kept(d, n + 1) = Kept(d, n)
      BY <1>1, <1>2, <1>4, <2>1, KeptStays
    <3> QED
      BY <1>2, <1>3, <2>1, <3>1 DEF Represents
  <2>2. CASE c # "lf"
    BY <1>2, <1>3, <2>2
  <2> QED
    BY <2>1, <2>2
<1>6. /\ tail' > 0 /\ head' \in 0 .. Len(d) /\ Len(header') = Len(d)
  BY <1>1, <1>2, <1>3
<1>7. n \in EmptyLines(d) <=> EndsLine(d, n - 1)
  <2>1. ~EndsCrLf(d, n) /\ IsNewline(d[n])
    BY <1>2 DEF EndsCrLf, IsNewline
  <2>2. n \in 2 .. Len(d) <=> n - 1 > 0
    BY <1>1, <1>2
  <2> QED
    BY <2>1, <2>2 DEF EmptyLines, EndsLine
<1>8. CASE last = "lf"
  <2>1. n \in EmptyLines(d) /\ \A i \in EmptyLines(d) : n <= i
    BY <1>1, <1>2, <1>7, <1>8 DEF EmptyLines
  <2>2. n < Len(d)
    BY <1>1
  <2>3. IsComplete(d) /\ HeaderLength(d) = head'
    <3>1. /\ IsComplete(d)
          /\ HeaderLength(d) = IF n < Len(d) /\ EndsCrLf(d, n + 1) THEN n + 1 ELSE n
      <4> HIDE DEF d, n, c
      <4> QED
        BY <2>1, <2>2, HeaderLengthIs
    <3> QED
      BY <1>3, <1>4, <2>2, <3>1
  <2>4. state' = "reached_content"
    BY <1>3, <1>8
  <2> QED
    BY <1>1, <1>2, <1>3, <1>5, <1>6, <2>3, <2>4, FindsEnd
<1>9. CASE last # "lf"
  <2>1. state' = "possible_lws" /\ last' = "lf"
    BY <1>3, <1>9
  <2>2. \A i \in EmptyLines(d) : i > head'
    <3>1. \A i \in EmptyLines(d) : i \in Nat /\ i > n
      BY <1>1, <1>2, <1>7, <1>9 DEF EmptyLines
    <3>2. c = "lf" => n + 1 \notin EmptyLines(d)
      BY <1>4 DEF EmptyLines
    <3> QED
      BY <1>1, <1>3, <3>1, <3>2
  <2>3. EndsLine(d, head')
    BY <1>1, <1>2, <1>3 DEF EndsLine, IsNewline
  <2>4. d[head'] = "cr" => pc' = "scan" /\ ~EndsCrLf(d, head' + 1)
    <3>1. c # "lf" => head' < Len(header')
      BY <1>1, <1>3
    <3> QED
      BY <1>3, <1>4, <3>1 DEF Continue
  <2>5. PossibleLwsKnows'
    BY <1>3, <2>1, <2>2, <2>3, <2>4 DEF PossibleLwsKnows
  <2>6. CopyKnows' /\ PossibleCrLfKnows'
    BY <2>1 DEF CopyKnows, PossibleCrLfKnows
  <2> QED
    BY <1>2, <1>3, <1>5, <1>6, <2>1, <2>5, <2>6, StaysUnfinished DEF EndStates
<1> QED
  BY <1>8, <1>9

LEMMA PossibleLwsNormalises ==
  ASSUME IInv, Normalised, PossibleLws
  PROVE  Normalised'
<1> DEFINE d == delivered
           n == head
           c == delivered[head + 1]
<1>1. /\ n \in Nat /\ tail \in Nat /\ tail <= n
      /\ Len(d) \in Nat /\ Len(header) = Len(d) /\ n + 1 \in 1 .. Len(d)
      /\ Char = c /\ header \in Seq(Bytes) /\ d \in Seq(Bytes)
  BY Reading DEF PossibleLws, Scan
<1>2. /\ content = <<>> /\ Represents(header, tail, d, n)
      /\ EndsLine(d, n) /\ tail > 0 /\ last = "lf"
      /\ d[n] = "cr" => ~EndsCrLf(d, n + 1)
      /\ \A i \in EmptyLines(d) : i > n
      /\ ContentFits
  BY DEF Normalised, Unfinished, PossibleLwsKnows, PossibleLws, Scan, EndStates,
         EndsLine
<1>3. /\ tail' = tail /\ content' = content /\ delivered' = d /\ Continue
      /\ state' = "copy"
  BY DEF PossibleLws, Continue
<1>4. PossibleCrLfKnows' /\ PossibleLwsKnows'
  BY <1>3 DEF PossibleCrLfKnows, PossibleLwsKnows
<1>5. CASE c = "blank"
  <2>1. /\ head' = n + 1 /\ last' = "blank"
        /\ header' = [header EXCEPT ![tail] = "blank"]
    BY <1>1, <1>5 DEF PossibleLws
  <2>2. header'[tail] = "blank" /\ \A i \in 1 .. tail - 1 : header'[i] = header[i]
    BY <1>1, <1>2, <2>1
  <2>3. Represents(header', tail', d, head')
    <3>1. d[n + 1] = "blank"
      BY <1>5
    <3> HIDE DEF d, n, c
    <3> QED
      BY <1>1, <1>2, <1>3, <2>1, <2>2, <3>1, RepresentsFolded
  <2>4. ~EndsLine(d, n + 1)
    BY <1>5 DEF EndsLine, IsNewline
  <2>5. \A i \in EmptyLines(d) : i > n + 1
    <3>1. n + 1 \notin EmptyLines(d)
      BY <1>5 DEF EmptyLines, IsNewline
    <3>2. \A i \in EmptyLines(d) : i \in Nat
      BY DEF EmptyLines
    <3> QED
      BY <1>1, <1>2, <3>1, <3>2
  <2>6. CopyKnows'
    BY <1>3, <2>1, <2>4, <2>5 DEF CopyKnows
  <2> QED
    BY <1>2, <1>3, <1>4, <2>3, <2>6, StaysUnfinished DEF EndStates
<1>6. CASE c # "blank"
  <2>1. head' = n /\ last' = last /\ header' = header
    BY <1>1, <1>6 DEF PossibleLws
  <2>2. ~EndsCrLf(d, n + 1)
    BY <1>1, <1>2 DEF EndsCrLf
  <2>3. pc' = "scan"
    BY <1>1, <1>3, <2>1 DEF Continue
  <2>4. CopyKnows'
    BY <1>2, <1>3, <1>6, <2>1, <2>2, <2>3 DEF CopyKnows
  <2> QED
    BY <1>2, <1>3, <1>4, <2>1, <2>4, StaysUnfinished DEF EndStates
<1> QED
  BY <1>5, <1>6

(* The end of a sequence that is another's from there on. *)
LEMMA SameEnd ==
  ASSUME NEW s \in Seq(Bytes), NEW d \in Seq(Bytes), Len(s) = Len(d),
         NEW n \in Nat, \A i \in n + 1 .. Len(s) : s[i] = d[i]
  PROVE  SubSeq(s, n + 1, Len(s)) = SubSeq(d, n + 1, Len(d))
<1>1. PICK m \in Nat : m = Len(s) /\ m = Len(d)
  BY LenProperties
<1>2. /\ \A i \in n + 1 .. m : s[i] \in Bytes
      /\ \A i \in n + 1 .. m : d[i] \in Bytes
  BY <1>1, ElementOfSeq
<1>3. PICK a : a = SubSeq(s, n + 1, m)
  OBVIOUS
<1>4. PICK b : b = SubSeq(d, n + 1, m)
  OBVIOUS
<1>5. /\ a \in Seq(Bytes)
      /\ Len(a) = IF n + 1 <= m THEN m - (n + 1) + 1 ELSE 0
      /\ \A i \in 1 .. m - (n + 1) + 1 : a[i] = s[n + 1 + i - 1]
  BY <1>2, <1>3, SubSeqProperties
<1>6. /\ b \in Seq(Bytes)
      /\ Len(b) = IF n + 1 <= m THEN m - (n + 1) + 1 ELSE 0
      /\ \A i \in 1 .. m - (n + 1) + 1 : b[i] = d[n + 1 + i - 1]
  BY <1>2, <1>4, SubSeqProperties
<1>7. \A i \in 1 .. Len(a) : a[i] = b[i]
  <2>1. \A i \in 1 .. Len(a) : /\ i \in 1 .. m - (n + 1) + 1
                               /\ n + 1 + i - 1 \in n + 1 .. m
    BY <1>5
  <2> QED
    BY <1>1, <1>5, <1>6, <2>1
<1>8. a = b
  BY <1>5, <1>6, <1>7, SeqEqual
<1> QED
  BY <1>1, <1>3, <1>4, <1>8

LEMMA ContentDivided ==
  ASSUME IInv, Normalised, ReachedContent
  PROVE  Normalised'
<1> DEFINE d == delivered
           n == head
<1>1. /\ n \in Nat /\ tail \in Nat /\ tail <= n
      /\ Len(d) \in Nat /\ Len(header) = Len(d) /\ n + 1 \in 1 .. Len(d)
      /\ header \in Seq(Bytes) /\ d \in Seq(Bytes)
      /\ \A i \in n + 1 .. Len(header) : header[i] = d[i]
  BY Reading DEF ReachedContent, Scan, IInv, UnreadIsIntact
<1>2. /\ content = <<>> /\ Represents(header, tail, d, n) /\ tail > 0
      /\ IsComplete(d) /\ HeaderLength(d) = n /\ ContentFits
  BY DEF Normalised, EndFound, ReachedContent, Scan
<1>3. /\ content' = content \o SubSeq(header, n + 1, Len(header))
      /\ header' = SubSeq(header, 1, tail)
      /\ state' = "reached_content" /\ tail' = tail /\ head' = n
      /\ delivered' = d
      /\ UNCHANGED <<succeeded, length>>
  BY DEF ReachedContent, Scan, Continue
<1>4. content' = SubSeq(d, n + 1, Len(d))
  <2>1. SubSeq(header, n + 1, Len(header)) = SubSeq(d, n + 1, Len(d))
    BY <1>1, SameEnd
  <2>2. SubSeq(header, n + 1, Len(header)) \in Seq(Bytes)
    BY <1>1, SubSeqProperties
  <2> QED
    BY <1>2, <1>3, <2>1, <2>2, ConcatEmptySeq
<1>5. Len(header') = tail /\ \A i \in 1 .. tail : header'[i] = header[i]
  BY <1>1, <1>3
<1>6. Represents(header', tail, d, n)
  <2> HIDE DEF d, n
  <2> QED
    BY <1>1, <1>2, <1>5, RepresentsAlike
<1>7. pc' = "receive"
  BY <1>1, <1>3, <1>5 DEF ReachedContent, Continue
<1>8. ~succeeded
  <2>1. Len(content) = 0
    BY <1>2, EmptySeq
  <2> QED
    BY <1>2, <2>1 DEF ContentFits
<1>9. tail' # 0 /\ state' \in EndStates
  BY <1>2, <1>3 DEF EndStates
<1> QED
  BY <1>2, <1>3, <1>4, <1>6, <1>7, <1>8, <1>9
     DEF Normalised, Unfinished, EndFound, ContentTaken, Finished, ContentFits

-----------------------------------------------------------------------------
(* The steps that receive, and those that change no buffer.                *)

(* fetch_header has nothing to scan yet. *)
LEMMA FetchNormalises ==
  ASSUME IInv, Normalised, FetchHeader
  PROVE  Normalised'
<1>1. /\ UNCHANGED <<header, content, state, succeeded, tail, head, last,
                     length, delivered>>
      /\ pc = "idle" /\ pc' = "receive" /\ tail = 0 /\ head = 0
  BY DEF FetchHeader, IInv, Phases
<1>2. Unfinished'
  <2>1. CopyKnows /\ ~EndsLine(delivered, head) => CopyKnows'
    BY <1>1 DEF CopyKnows
  <2>2. PossibleCrLfKnows => PossibleCrLfKnows'
    BY <1>1 DEF PossibleCrLfKnows
  <2>3. PossibleLwsKnows => PossibleLwsKnows'
    BY <1>1 DEF PossibleLwsKnows, EndsLine
  <2>4. ~EndsLine(delivered, head)
    BY <1>1 DEF EndsLine
  <2> QED
    BY <1>1, <2>1, <2>2, <2>3, <2>4 DEF Normalised, Unfinished
<1>3. EndFound' /\ ContentTaken'
  BY <1>1 DEF EndFound, ContentTaken
<1>4. Finished'
  BY <1>1 DEF Normalised, Finished
<1>5. ContentFits'
  BY <1>1 DEF Normalised, ContentFits
<1> QED
  BY <1>2, <1>3, <1>4, <1>5 DEF Normalised

(* The empty lines of what was delivered stay when more is delivered. *)
LEMMA EmptyLinesGrow ==
  ASSUME NEW d \in Seq(Bytes), NEW e \in Seq(Bytes),
         \A i \in 1 .. Len(d) : e[i] = d[i],
         NEW i \in EmptyLines(e), i <= Len(d)
  PROVE  i \in EmptyLines(d)
<1>1. i \in 2 .. Len(e) /\ Len(d) \in Nat /\ Len(e) \in Nat
  BY LenProperties DEF EmptyLines
<1>2. i \in 1 .. Len(d) /\ i - 1 \in 1 .. Len(d) /\ i \in 2 .. Len(d)
  BY <1>1
<1> QED
  BY <1>2 DEF EmptyLines, EndsCrLf

(* What is appended leaves the rest as it was. *)
LEMMA Appended ==
  ASSUME NEW s \in Seq(Bytes), NEW chunk \in Seq(Bytes)
  PROVE  /\ s \o chunk \in Seq(Bytes)
         /\ Len(s \o chunk) = Len(s) + Len(chunk)
         /\ \A i \in 1 .. Len(s) : (s \o chunk)[i] = s[i]
<1>1. Len(s) \in Nat /\ Len(chunk) \in Nat
  BY LenProperties
<1>2. \A i \in 1 .. Len(s) : i \in 1 .. Len(s) + Len(chunk) /\ i <= Len(s)
  BY <1>1
<1> QED
  BY <1>2, ConcatProperties

LEMMA ReceiveNormalises ==
  ASSUME IInv, Normalised, Receive
  PROVE  Normalised'
<1>1. PICK chunk \in Sent(delivered) :
        /\ IsChunk(chunk, chunk_size)
        /\ header' = header \o chunk /\ delivered' = delivered \o chunk
  BY DEF Receive
<1>2. chunk \in Seq(Bytes)
  BY <1>1, ChunkType
<1>3. /\ UNCHANGED <<content, state, succeeded, tail, head, last, length>>
      /\ state \notin EndStates /\ pc = "receive" /\ pc' = "scan"
  BY DEF Receive
<1>4. /\ header \in Seq(Bytes) /\ delivered \in Seq(Bytes)
      /\ head = Len(header) /\ Len(header) = Len(delivered)
      /\ head \in Nat /\ tail \in Nat /\ tail <= head
  BY <1>3 DEF IInv, TypeOK, Phases
<1>5. PICK d : d = delivered
  OBVIOUS
<1>6. PICK e : e = delivered'
  OBVIOUS
<1>7. PICK n \in Nat : n = head
  BY <1>4
<1>8. /\ d \in Seq(Bytes) /\ e \in Seq(Bytes) /\ n = Len(d)
      /\ \A i \in 1 .. n : e[i] = d[i]
  <2> HIDE DEF TypeOK
  <2> QED
    BY <1>1, <1>2, <1>4, <1>5, <1>6, <1>7, Appended
<1>9. \A i \in 1 .. tail : header'[i] = header[i]
  <2>1. \A i \in 1 .. tail : i \in 1 .. Len(header)
    BY <1>4
  <2>2. \A i \in 1 .. Len(header) : (header \o chunk)[i] = header[i]
    BY <1>2, <1>4, Appended
  <2> QED
    BY <1>1, <2>1, <2>2
<1>10. /\ content = <<>> /\ Represents(header, tail, d, n)
       /\ n > 0 => tail > 0
       /\ CopyKnows /\ PossibleCrLfKnows /\ PossibleLwsKnows /\ ContentFits
  BY <1>3, <1>5, <1>7 DEF Normalised, Unfinished
<1>11. Represents(header', tail, e, n)
  BY <1>8, <1>9, <1>10, RepresentsAlike
<1>12. \A i \in EmptyLines(e) : i \in EmptyLines(d) \/ i > n
  <2>1. \A i \in EmptyLines(e) : i \in Nat
    BY DEF EmptyLines
  <2>2. \A i \in EmptyLines(e) : i <= n => i \in EmptyLines(d)
    BY <1>8, EmptyLinesGrow
  <2> QED
    BY <2>1, <2>2
<1>13. \A m \in 0 .. n : EndsLine(e, m) <=> EndsLine(d, m)
  BY <1>8 DEF EndsLine
<1>14. CopyKnows'
  BY <1>3, <1>5, <1>6, <1>7, <1>10, <1>12, <1>13 DEF CopyKnows
<1>15. PossibleCrLfKnows'
  <2> SUFFICES ASSUME state = "possible_cr_lf"
               PROVE  PossibleCrLfKnows'
    BY <1>3 DEF PossibleCrLfKnows
  <2>1. /\ n > 0 /\ d[n] = "cr"
        /\ last = "lf" <=> EndsLine(d, n - 1)
        /\ \A i \in EmptyLines(d) : i >= n
    BY <1>5, <1>7, <1>10 DEF PossibleCrLfKnows
  <2>2. e[n] = "cr" /\ (EndsLine(e, n - 1) <=> EndsLine(d, n - 1))
    BY <1>8, <1>13, <2>1
  <2>3. \A i \in EmptyLines(e) : i >= n
    <3>1. \A i \in EmptyLines(e) : i \in Nat
      BY DEF EmptyLines
    <3> QED
      BY <1>12, <2>1, <3>1
  <2> QED
    BY <1>3, <1>6, <1>7, <2>1, <2>2, <2>3 DEF PossibleCrLfKnows
<1>16. PossibleLwsKnows'
  <2> SUFFICES ASSUME state = "possible_lws"
               PROVE  PossibleLwsKnows'
    BY <1>3 DEF PossibleLwsKnows
  <2>1. /\ last = "lf" /\ EndsLine(d, n) /\ d[n] # "cr"
        /\ \A i \in EmptyLines(d) : i > n
    BY <1>3, <1>5, <1>7, <1>10 DEF PossibleLwsKnows
  <2>2. n \in 1 .. n
    BY <2>1 DEF EndsLine
  <2>3. e[n] # "cr" /\ EndsLine(e, n)
    BY <1>8, <2>1, <2>2 DEF EndsLine
  <2> QED
    BY <1>3, <1>6, <1>7, <1>12, <2>1, <2>3 DEF PossibleLwsKnows
<1>17. Unfinished'
  BY <1>3, <1>6, <1>7, <1>10, <1>11, <1>14, <1>15, <1>16 DEF Unfinished
<1>18. EndFound' /\ ContentTaken' /\ Finished'
  BY <1>3 DEF EndFound, ContentTaken, Finished, EndStates
<1>19. ContentFits'
  BY <1>3, <1>10 DEF ContentFits
<1> QED
  BY <1>17, <1>18, <1>19 DEF Normalised

(* Nothing is kept of nothing. *)
LEMMA NothingKept ==
  ASSUME NEW d
  PROVE  Kept(d, 0) = {} /\ Cardinality(Kept(d, 0)) = 0
<1>1. Kept(d, 0) = {}
  BY DEF Kept
<1> QED
  BY <1>1, FS_EmptySet

(* The stream ended before the header did. *)
LEMMA ReceiveFailsNormalises ==
  ASSUME IInv, Normalised, ReceiveFails
  PROVE  Normalised'
<1> DEFINE d == delivered
<1>1. /\ UNCHANGED <<header, content, succeeded, tail, head, last, length, pc,
                     delivered>>
      /\ pc = "receive" /\ state \notin EndStates /\ state' = "error"
  BY DEF ReceiveFails
<1>2. /\ header \in Seq(Bytes) /\ d \in Seq(Bytes)
      /\ head = Len(d) /\ Len(header) = Len(d)
      /\ head \in Nat /\ tail \in Nat /\ tail <= head
  BY <1>1 DEF IInv, TypeOK, Phases
<1>3. /\ content = <<>> /\ Represents(header, tail, d, head)
      /\ head > 0 => tail > 0
      /\ CopyKnows /\ PossibleCrLfKnows /\ PossibleLwsKnows /\ ContentFits
  BY <1>1 DEF Normalised, Unfinished
<1>4. ~IsComplete(d)
  <2>1. \A i \in EmptyLines(d) : i \in 2 .. Len(d)
    BY DEF EmptyLines
  <2>2. state = "copy" \/ state = "possible_lws" => EmptyLines(d) = {}
    BY <1>2, <1>3, <2>1 DEF CopyKnows, PossibleLwsKnows
  <2>3. state = "possible_cr_lf" =>
          d[Len(d)] = "cr" /\ \A i \in EmptyLines(d) : i = Len(d)
    BY <1>2, <1>3, <2>1 DEF PossibleCrLfKnows
  <2>4. state \in {"copy", "possible_cr_lf", "possible_lws"}
    BY <1>1 DEF IInv, TypeOK
  <2> QED
    BY <2>2, <2>3, <2>4 DEF IsComplete
<1>5. HeaderLength(d) = Len(d)
  BY <1>4 DEF HeaderLength
<1>6. content = SubSeq(d, Len(d) + 1, Len(d))
  <2>1. Len(d) \in Nat
    BY <1>2
  <2>2. Len(d) + 1 > Len(d)
    BY <2>1
  <2>3. SubSeq(d, Len(d) + 1, Len(d)) = <<>>
    BY <2>1, <2>2, SubSeqEmpty
  <2> QED
    BY <1>3, <2>3
<1>7. Unfinished' /\ EndFound'
  BY <1>1 DEF Unfinished, EndFound, EndStates
<1>8. ContentTaken'
  BY <1>1, <1>2, <1>3, <1>4, <1>5, <1>6 DEF ContentTaken
<1>9. tail = 0 => IsNormalForm(header, d, Len(d))
  <2> SUFFICES ASSUME tail = 0 PROVE IsNormalForm(header, d, Len(d))
    OBVIOUS
  <2>1. Represents(header, Len(header), d, Len(d))
    BY <1>2, <1>3
  <2> QED
    BY <2>1, AllRepresented
<1>10. Finished'
  BY <1>1, <1>4, <1>5, <1>6, <1>9 DEF Finished
<1>11. ContentFits'
  BY <1>1, <1>3 DEF ContentFits
<1> QED
  BY <1>7, <1>8, <1>10, <1>11 DEF Normalised

(* The header is cut off behind its normal form. *)
LEMMA ReturnNormalises ==
  ASSUME IInv, Normalised, Return
  PROVE  Normalised'
<1> DEFINE d == delivered
<1>1. /\ UNCHANGED <<content, state, succeeded, length, delivered>>
      /\ pc = "receive" /\ pc' = "idle" /\ state \in EndStates
      /\ header' = IF tail > 0 THEN SubSeq(header, 1, tail) ELSE header
  BY DEF Return, LeaveFetchHeader
<1>2. /\ header \in Seq(Bytes) /\ tail \in Nat /\ tail <= Len(header)
      /\ Len(header) \in Nat
  BY LenProperties DEF IInv, TypeOK, AssertionsHold
<1>3. Unfinished' /\ EndFound' /\ ContentTaken'
  BY <1>1 DEF Unfinished, EndFound, ContentTaken
<1>4. ContentFits'
  BY <1>1 DEF Normalised, ContentFits
<1>5. CASE tail > 0
  <2>1. /\ state = "reached_content" <=> IsComplete(d)
        /\ HeaderLength(d) = head
        /\ Represents(header, tail, d, head)
        /\ content = SubSeq(d, head + 1, Len(d))
    BY <1>1, <1>5 DEF Normalised, ContentTaken
  <2>2. header' = SubSeq(header, 1, tail)
    BY <1>1, <1>5
  <2>3. Len(header') = tail /\ \A i \in 1 .. tail : header'[i] = header[i]
    BY <1>2, <2>2
  <2>4. Represents(header', tail, d, head)
    <3>1. head \in Nat
      BY DEF IInv, TypeOK
    <3> HIDE DEF d
    <3> QED
      BY <2>1, <2>3, <3>1, RepresentsAlike
  <2>5. IsNormalForm(header', d, head)
    <3>1. Represents(header', Len(header'), d, head)
      BY <2>3, <2>4
    <3> HIDE DEF d
    <3> QED
      BY <3>1, AllRepresented
  <2>6. Finished'
    BY <1>1, <2>1, <2>5 DEF Finished
  <2> QED
    BY <1>3, <1>4, <2>6 DEF Normalised
<1>6. CASE tail = 0
  <2>1. header' = header /\ ~(tail > 0)
    BY <1>1, <1>6
  <2>2. Finished'
    BY <1>1, <1>6, <2>1 DEF Normalised, Finished
  <2> QED
    BY <1>3, <1>4, <2>2 DEF Normalised
<1> QED
  BY <1>2, <1>5, <1>6

(* What is behind a position grows with the whole. *)
LEMMA EndGrows ==
  ASSUME NEW d \in Seq(Bytes), NEW chunk \in Seq(Bytes), NEW n \in 0 .. Len(d)
  PROVE  SubSeq(d \o chunk, n + 1, Len(d \o chunk))
           = SubSeq(d, n + 1, Len(d)) \o chunk
<1>1. PICK m \in Nat : m = Len(d)
  BY LenProperties
<1>2. PICK k \in Nat : k = Len(chunk)
  BY LenProperties
<1>3. PICK e : e = d \o chunk
  OBVIOUS
<1>4. /\ e \in Seq(Bytes) /\ Len(e) = m + k
      /\ \A i \in 1 .. m + k : e[i] = IF i <= m THEN d[i] ELSE chunk[i - m]
  BY <1>1, <1>2, <1>3, ConcatProperties
<1>5. PICK a : a = SubSeq(e, n + 1, m + k)
  OBVIOUS
<1>6. PICK b : b = SubSeq(d, n + 1, m)
  OBVIOUS
<1>7. /\ \A i \in n + 1 .. m + k : e[i] \in Bytes
      /\ \A i \in n + 1 .. m : d[i] \in Bytes
  <2>1. n \in Nat /\ n <= m
    BY <1>1
  <2>2. /\ \A i \in n + 1 .. m + k : i \in 1 .. Len(e)
        /\ \A i \in n + 1 .. m : i \in 1 .. Len(d)
    BY <1>1, <1>4, <2>1
  <2>3. \A i \in 1 .. Len(e) : e[i] \in Bytes
    BY <1>4, ElementOfSeq
  <2>4. \A i \in 1 .. Len(d) : d[i] \in Bytes
    BY ElementOfSeq
  <2> QED
    BY <2>2, <2>3, <2>4
<1>8. /\ a \in Seq(Bytes) /\ Len(a) = m + k - n
      /\ \A i \in 1 .. m + k - n : a[i] = e[n + i]
  <2>1. /\ a \in Seq(Bytes)
        /\ Len(a) = IF n + 1 <= m + k THEN m + k - (n + 1) + 1 ELSE 0
        /\ \A i \in 1 .. m + k - (n + 1) + 1 : a[i] = e[n + 1 + i - 1]
    BY <1>4, <1>5, <1>7, SubSeqProperties
  <2>2. /\ n \in Nat /\ n <= m
        /\ m + k - (n + 1) + 1 = m + k - n
        /\ n + 1 <= m + k \/ m + k - n = 0
    BY <1>1
  <2>3. \A i \in 1 .. m + k - n : n + 1 + i - 1 = n + i
    BY <2>2
  <2> QED
    BY <2>1, <2>2, <2>3
<1>9. /\ b \in Seq(Bytes) /\ Len(b) = m - n
      /\ \A i \in 1 .. m - n : b[i] = d[n + i]
  <2>1. /\ b \in Seq(Bytes)
        /\ Len(b) = IF n + 1 <= m THEN m - (n + 1) + 1 ELSE 0
        /\ \A i \in 1 .. m - (n + 1) + 1 : b[i] = d[n + 1 + i - 1]
    BY <1>6, <1>7, SubSeqProperties
  <2>2. /\ n \in Nat /\ n <= m
        /\ m - (n + 1) + 1 = m - n
        /\ n + 1 <= m \/ m - n = 0
    BY <1>1
  <2>3. \A i \in 1 .. m - n : n + 1 + i - 1 = n + i
    BY <2>2
  <2> QED
    BY <2>1, <2>2, <2>3
<1>10. PICK c : c = b \o chunk
  OBVIOUS
<1>11. /\ c \in Seq(Bytes) /\ Len(c) = m - n + k
       /\ \A i \in 1 .. m - n + k :
            c[i] = IF i <= m - n THEN b[i] ELSE chunk[i - (m - n)]
  <2>1. PICK p : p = m - n
    OBVIOUS
  <2>2. /\ c \in Seq(Bytes) /\ Len(c) = p + k
        /\ \A i \in 1 .. p + k : c[i] = IF i <= p THEN b[i] ELSE chunk[i - p]
    <3>1. /\ b \in Seq(Bytes) /\ Len(b) = p
      BY <1>9, <2>1
    <3>2. /\ c \in Seq(Bytes) /\ Len(c) = Len(b) + Len(chunk)
          /\ \A i \in 1 .. Len(b) + Len(chunk) :
               c[i] = IF i <= Len(b) THEN b[i] ELSE chunk[i - Len(b)]
      BY <1>10, <3>1, ConcatProperties
    <3> QED
      BY <1>2, <3>1, <3>2
  <2> QED
    BY <2>1, <2>2
<1>12. \A i \in 1 .. Len(a) : a[i] = c[i]
  <2> TAKE i \in 1 .. Len(a)
  <2>1. /\ i \in 1 .. m + k - n /\ i \in 1 .. m - n + k
        /\ n + i \in 1 .. m + k /\ n + i - m = i - (m - n)
        /\ n + i <= m <=> i <= m - n
    BY <1>1, <1>8
  <2>2. a[i] = e[n + i]
    BY <1>8, <2>1
  <2>3. CASE i <= m - n
    <3>1. i \in 1 .. m - n
      BY <2>1, <2>3
    <3> QED
      BY <1>4, <1>9, <1>11, <2>1, <2>2, <2>3, <3>1
  <2>4. CASE ~(i <= m - n)
    BY <1>4, <1>11, <2>1, <2>2, <2>4
  <2> QED
    BY <2>3, <2>4
<1>13. a = c
  <2>1. m + k - n = m - n + k
    BY <1>1
  <2>2. Len(a) = Len(c)
    BY <1>8, <1>11, <2>1
  <2> QED
    BY <1>8, <1>11, <1>12, <2>2, SeqEqual
<1> QED
  BY <1>1, <1>3, <1>4, <1>5, <1>6, <1>10, <1>13

(* What is there is measured against the length that is asked for. *)
LEMMA LengthAsked ==
  ASSUME content \in Seq(Bytes), ContentFits, FetchContent
  PROVE  ContentFits'
<1>1. PICK n \in 1 .. MaxLength :
        /\ length \in {0, n} /\ length' = n
        /\ IF Len(content) < n
           THEN pc' = "content" /\ UNCHANGED succeeded
           ELSE succeeded' = (Len(content) = n) /\ UNCHANGED pc
  BY DEF FetchContent
<1>2. pc = "idle" /\ content' = content
  BY DEF FetchContent
<1>3. succeeded => length > 0 /\ Len(content) = length
  BY DEF ContentFits
<1>4. n > 0 /\ Len(content) \in Nat /\ n \in Nat
  BY LexerAssumption, LenProperties
<1>5. PICK k \in Nat : k = Len(content) /\ k = Len(content')
  BY <1>2, <1>4
<1>6. CASE k < n
  BY <1>1, <1>3, <1>4, <1>5, <1>6 DEF ContentFits
<1>7. CASE ~(k < n)
  BY <1>1, <1>2, <1>3, <1>4, <1>5, <1>7 DEF ContentFits
<1> QED
  BY <1>6, <1>7

LEMMA FetchContentNormalises ==
  ASSUME IInv, Normalised, FetchContent
  PROVE  Normalised'
<1>1. /\ UNCHANGED <<header, content, state, tail, head, last, delivered>>
      /\ pc = "idle" /\ state = "reached_content" /\ pc' \in {"idle", "content"}
  BY DEF FetchContent
<1>2. Unfinished' /\ EndFound' /\ ContentTaken'
  BY <1>1 DEF Unfinished, EndFound, ContentTaken, EndStates
<1>3. Finished'
  BY <1>1 DEF Normalised, Finished
<1>4. ContentFits'
  BY LengthAsked DEF IInv, TypeOK, Normalised
<1> QED
  BY <1>2, <1>3, <1>4 DEF Normalised

(* How long it is. *)
LEMMA EndLength ==
  ASSUME NEW d \in Seq(Bytes), NEW n \in 1 .. Len(d), NEW c,
         c = SubSeq(d, n + 1, Len(d))
  PROVE  n + Len(c) = Len(d)
<1>1. PICK m \in Nat : m = Len(d)
  BY LenProperties
<1>2. \A i \in n + 1 .. m : d[i] \in Bytes
  <2>1. \A i \in n + 1 .. m : i \in 1 .. Len(d)
    BY <1>1
  <2> QED
    BY <2>1, ElementOfSeq
<1>3. Len(c) = IF n + 1 <= m THEN m - (n + 1) + 1 ELSE 0
  BY <1>1, <1>2, SubSeqProperties
<1> QED
  BY <1>1, <1>3

(***************************************************************************)
(* The content that was taken so far: it is what is behind the header, and *)
(* no more than what was asked for.                                        *)
(***************************************************************************)
ContentSoFar ==
  /\ content \in Seq(Bytes) /\ delivered \in Seq(Bytes) /\ length \in Nat
  /\ ContentFits
  /\ IsComplete(delivered)
  /\ content = SubSeq(delivered, HeaderLength(delivered) + 1, Len(delivered))

(* More of the content comes behind what there is. *)
LEMMA ContentGrows ==
  ASSUME ContentSoFar, ReceiveContent
  PROVE  /\ ContentSoFar'
         /\ HeaderLength(delivered') = HeaderLength(delivered)
         /\ HeaderLength(delivered) \in 1 .. Len(delivered)
         /\ \A i \in 1 .. Len(delivered) : delivered'[i] = delivered[i]
<1>1. PICK chunk \in Sent(delivered) :
        /\ IsChunk(chunk, BytesToRead)
        /\ content' = content \o chunk /\ delivered' = delivered \o chunk
        /\ IF Len(chunk) < BytesToRead
           THEN UNCHANGED <<pc, succeeded>>
           ELSE pc' = "idle" /\ succeeded' = TRUE
  BY DEF ReceiveContent
<1>2. pc = "content" /\ length' = length
  BY <1>1 DEF ReceiveContent
<1>3. /\ chunk \in Seq(Bytes) /\ Len(chunk) \in Nat \ {0}
      /\ Len(chunk) <= BytesToRead
  <2>1. chunk \in Seq(Bytes) /\ Len(chunk) \in Nat \ {0}
    BY <1>1, ChunkType
  <2>2. Len(chunk) \in 1 .. BytesToRead
    BY <1>1 DEF IsChunk
  <2> QED
    BY <2>1, <2>2
<1>4. content \in Seq(Bytes) /\ delivered \in Seq(Bytes) /\ length \in Nat
  BY DEF ContentSoFar
<1>5. PICK d : d = delivered
  OBVIOUS
<1>6. PICK e : e = delivered'
  OBVIOUS
<1>7. PICK n : n = HeaderLength(d)
  OBVIOUS
<1>8. IsComplete(d) /\ content = SubSeq(d, n + 1, Len(d))
  BY <1>5, <1>7 DEF ContentSoFar
<1>9. /\ d \in Seq(Bytes) /\ e \in Seq(Bytes) /\ Len(d) <= Len(e)
      /\ \A i \in 1 .. Len(d) : e[i] = d[i]
  <2>1. /\ e \in Seq(Bytes) /\ Len(e) = Len(d) + Len(chunk)
        /\ \A i \in 1 .. Len(d) : e[i] = d[i]
    BY <1>1, <1>3, <1>4, <1>5, <1>6, Appended
  <2>2. Len(d) \in Nat
    BY <1>4, <1>5, LenProperties
  <2> QED
    BY <1>3, <1>4, <1>5, <2>1, <2>2
<1>10. IsComplete(e) /\ HeaderLength(e) = n /\ n \in 1 .. Len(d)
  BY <1>7, <1>8, <1>9, HeaderStays
<1>11. content' = SubSeq(e, n + 1, Len(e))
  <2>1. n \in 0 .. Len(d)
    BY <1>10
  <2>2. SubSeq(d \o chunk, n + 1, Len(d \o chunk))
          = SubSeq(d, n + 1, Len(d)) \o chunk
    BY <1>3, <1>9, <2>1, EndGrows
  <2> QED
    BY <1>1, <1>5, <1>6, <1>8, <2>2
<1>12. content' \in Seq(Bytes)
  <2>1. content \o chunk \in Seq(Bytes)
    BY <1>3, <1>4, Appended
  <2> QED
    BY <1>1, <2>1
<1>13. ContentFits'
  <2>1. Len(content) < length /\ ~succeeded
    BY <1>2, <1>4, LenProperties DEF ContentSoFar, ContentFits
  <2>2. Len(content') = Len(content) + Len(chunk) /\ Len(content) \in Nat
    BY <1>1, <1>3, <1>4, Appended, LenProperties
  <2>3. PICK a \in Nat : a = Len(content)
    BY <2>2
  <2>4. PICK b \in Nat \ {0} : b = Len(chunk)
    BY <1>3
  <2>5. BytesToRead = length - a /\ b <= length - a
    BY <1>3, <2>3, <2>4 DEF BytesToRead
  <2>6. /\ Len(content') = a + b /\ length > 0
        /\ b < length - a => a + b < length
        /\ ~(b < length - a) => a + b = length
    BY <1>4, <2>1, <2>2, <2>3, <2>4, <2>5
  <2> QED
    BY <1>1, <1>2, <2>1, <2>4, <2>5, <2>6 DEF ContentFits
<1> QED
  BY <1>2, <1>4, <1>5, <1>6, <1>7, <1>9, <1>10, <1>11, <1>12, <1>13
     DEF ContentSoFar

LEMMA ReceiveContentNormalises ==
  ASSUME IInv, Normalised, ReceiveContent
  PROVE  Normalised'
<1>1. /\ UNCHANGED <<header, state>>
      /\ pc = "content" /\ state = "reached_content" /\ state \in EndStates
      /\ pc' \in {"idle", "content"}
  BY DEF ReceiveContent, IInv, Phases, EndStates
<1>2. /\ ContentSoFar
      /\ IsNormalForm(header, delivered, HeaderLength(delivered))
  BY <1>1 DEF IInv, TypeOK, Normalised, Finished, ContentSoFar
<1>3. PICK n : n = HeaderLength(delivered)
  OBVIOUS
<1>4. /\ ContentSoFar' /\ HeaderLength(delivered') = n /\ n \in 1 .. Len(delivered)
      /\ \A i \in 1 .. Len(delivered) : delivered'[i] = delivered[i]
  BY <1>2, <1>3, ContentGrows
<1>5. IsNormalForm(header, delivered', n)
  <2>1. n \in Nat /\ \A i \in 1 .. n : i \in 1 .. Len(delivered)
    BY <1>2, <1>4, LenProperties DEF ContentSoFar
  <2>2. PICK d : d = delivered
    OBVIOUS
  <2>3. PICK e : e = delivered'
    OBVIOUS
  <2>4. \A i \in 1 .. n : e[i] = d[i]
    BY <1>4, <2>1, <2>2, <2>3
  <2>5. Kept(e, n) = Kept(d, n)
    BY <2>1, <2>4, KeptOfPrefix
  <2>6. \A i \in Kept(d, n) : e[i] = d[i]
    BY <2>1, <2>4 DEF Kept
  <2> QED
    BY <1>2, <1>3, <2>2, <2>3, <2>5, <2>6 DEF IsNormalForm
<1>6. Unfinished' /\ EndFound' /\ ContentTaken'
  BY <1>1 DEF Unfinished, EndFound, ContentTaken, EndStates
<1>7. Finished'
  BY <1>1, <1>4, <1>5 DEF Finished, ContentSoFar
<1>8. ContentFits'
  BY <1>4 DEF ContentSoFar
<1> QED
  BY <1>6, <1>7, <1>8 DEF Normalised

LEMMA ReceiveContentFailsNormalises ==
  ASSUME IInv, Normalised, ReceiveContentFails
  PROVE  Normalised'
<1>1. /\ UNCHANGED <<header, content, state, tail, head, last, length,
                     delivered>>
      /\ pc = "content" /\ pc' = "idle" /\ ~succeeded'
      /\ state = "reached_content" /\ state \in EndStates
  BY DEF ReceiveContentFails, IInv, Phases, EndStates
<1>2. Unfinished' /\ EndFound' /\ ContentTaken'
  BY <1>1 DEF Unfinished, EndFound, ContentTaken
<1>3. Finished'
  BY <1>1 DEF Normalised, Finished
<1>4. ContentFits'
  BY <1>1 DEF ContentFits
<1> QED
  BY <1>2, <1>3, <1>4 DEF Normalised

(* The parser's cursor does not matter. *)
LEMMA ReadingNormalises ==
  ASSUME Normalised,
         UNCHANGED <<header, content, state, succeeded, tail, head, last,
                     length, pc, delivered>>
  PROVE  Normalised'
<1>1. Unfinished' /\ EndFound' /\ ContentTaken'
  BY DEF Normalised, Unfinished, CopyKnows, PossibleCrLfKnows, PossibleLwsKnows,
         EndFound, ContentTaken
<1>2. Finished' /\ ContentFits'
  BY DEF Normalised, Finished, ContentFits
<1> QED
  BY <1>1, <1>2 DEF Normalised

-----------------------------------------------------------------------------
LEMMA StepPreservesNormalised ==
  IInv /\ Normalised /\ [Next]_vars => Normalised'
<1> SUFFICES ASSUME IInv, Normalised, [Next]_vars
             PROVE  Normalised'
  OBVIOUS
<1>1. CASE FetchHeader
  BY <1>1, FetchNormalises
<1>2. CASE Receive
  BY <1>2, ReceiveNormalises
<1>3. CASE ReceiveFails
  BY <1>3, ReceiveFailsNormalises
<1>4. CASE Step
  BY <1>4, CopyNormalises, PossibleCrLfNormalises, PossibleLwsNormalises,
     ContentDivided DEF Step
<1>5. CASE Return
  BY <1>5, ReturnNormalises
<1>6. CASE FetchContent
  BY <1>6, FetchContentNormalises
<1>7. CASE ReceiveContent
  BY <1>7, ReceiveContentNormalises
<1>8. CASE ReceiveContentFails
  BY <1>8, ReceiveContentFailsNormalises
<1>9. ASSUME Get \/ \E i \in 0 .. Len(header) + 1 : SetIndex(i)
      PROVE  Normalised'
  BY <1>9, ReadingNormalises DEF Get, SetIndex, MoveIndex
<1>10. CASE UNCHANGED vars
  BY <1>10, ReadingNormalises DEF vars
<1> QED
  BY <1>1, <1>2, <1>3, <1>4, <1>5, <1>6, <1>7, <1>8, <1>9, <1>10 DEF Next

(* Nothing was received yet. *)
LEMMA InitIsNormalised ==
  ASSUME Init
  PROVE  IInv /\ Normalised
<1>1. /\ content = <<>> /\ state = "copy" /\ ~succeeded /\ pc = "idle"
      /\ tail = 0 /\ head = 0 /\ last = "none" /\ delivered = <<>>
      /\ Len(delivered) = 0
  BY EmptySeq DEF Init
<1>2. Represents(header, tail, delivered, head)
  BY <1>1, NothingKept DEF Represents
<1>3. ~EndsLine(delivered, head) /\ EmptyLines(delivered) = {}
  BY <1>1 DEF EndsLine, EmptyLines
<1>4. CopyKnows /\ PossibleCrLfKnows /\ PossibleLwsKnows
  BY <1>1, <1>3 DEF CopyKnows, PossibleCrLfKnows, PossibleLwsKnows
<1>5. Unfinished
  BY <1>1, <1>2, <1>4 DEF Unfinished
<1> QED
  BY <1>1, <1>5, InitImpliesIInv
     DEF Normalised, EndFound, ContentTaken, Finished, ContentFits, EndStates

(***************************************************************************)
(* Normalised holds for streams, chunks and lengths of any size.           *)
(***************************************************************************)
THEOREM NormalisedThroughout == Spec => []Normalised
BY InitIsNormalised, Invariance, StepPreservesNormalised, PTL DEF Spec

(***************************************************************************)
(* fetch_header and fetch_content give out the normal form of the header   *)
(* and the bytes behind it, for every stream and every way to divide it    *)
(* into chunks.  (The invariant says so of headers with several blanks in  *)
(* a row, too: that is what the code does, not what the class promises.)   *)
(***************************************************************************)
THEOREM NormalisationCorrect == Spec => []HeaderIsNormalised
<1>1. Normalised => HeaderIsNormalised
  BY DEF Normalised, Finished, ContentFits, HeaderIsNormalised
<1> QED
  BY <1>1, NormalisedThroughout, PTL

-----------------------------------------------------------------------------
(***************************************************************************)
(* Second, the request, which runs its lexer.                              *)
(***************************************************************************)
(* parse has not seen the header yet. *)
HeaderIsAwaited == at \in {"new", "fetching"}

(* parse has succeeded. *)
IsParsed == at \in {"parsed", "content", "crashed"}

Awaiting ==
  HeaderIsAwaited => IInv /\ Normalised

(* The content is what is behind the header, whatever becomes of that. *)
Behind ==
  ~HeaderIsAwaited =>
    /\ pc \in {"idle", "content"}
    /\ pc = "content" => at = "content"
    /\ at # "failed" => ContentSoFar

(* fetch_content is called behind parse only, with the field's value. *)
Asked ==
  /\ ~IsParsed => length = 0 /\ content_pointer = <<>>
  /\ IsParsed => length \in {0, fields.content_length}

(* What content_ points to. *)
Pointed ==
  content_pointer # <<>> =>
    /\ content_pointer = content
    /\ Len(content) = fields.content_length
    /\ at = "parsed" /\ fields.content_md5 # NULL =>
         Agree(Digest(content_pointer), Expected)

RequestInv == Awaiting /\ Behind /\ Asked /\ Pointed

-----------------------------------------------------------------------------
(* The lexer's part of the state is left alone by a step of parse, but for *)
(* the header and the cursor.                                              *)
LEMMA ParseStep ==
  ASSUME RequestInv, ~HeaderIsAwaited, ~IsParsed, at \notin {"failed"},
         at' \in {"uri", "version", "fields", "parsed", "failed"},
         UNCHANGED <<content, succeeded, length, pc, delivered, content_pointer>>
  PROVE  RequestInv'
<1>1. /\ length = 0 /\ content_pointer = <<>> /\ ContentSoFar
      /\ pc \in {"idle", "content"} /\ pc # "content"
  BY DEF RequestInv, Asked, Behind, IsParsed
<1>2. ~HeaderIsAwaited'
  BY DEF HeaderIsAwaited
<1>3. ContentSoFar'
  BY <1>1 DEF ContentSoFar, ContentFits
<1>4. Behind'
  BY <1>1, <1>3 DEF Behind
<1>5. Asked' /\ Pointed'
  BY <1>1 DEF Asked, Pointed
<1> QED
  BY <1>2, <1>4, <1>5 DEF RequestInv, Awaiting

(* The steps of the lexer, for fetch_header or for fetch_content. *)
LEMMA LexerStep ==
  ASSUME RequestInv, RunLexer
  PROVE  RequestInv'
<1>1. UNCHANGED <<at, fields, content_pointer>> /\ at \in {"fetching", "content"}
  BY DEF RunLexer, requestVars
<1>2. CASE at = "fetching"
  <2>1. HeaderIsAwaited /\ HeaderIsAwaited' /\ ~IsParsed /\ ~IsParsed'
    BY <1>1, <1>2 DEF HeaderIsAwaited, IsParsed
  <2>2. IInv /\ Normalised /\ length = 0 /\ content_pointer = <<>>
    BY <2>1 DEF RequestInv, Awaiting, Asked
  <2>3. [Next]_vars
    BY DEF RunLexer, Next
  <2>4. IInv' /\ Normalised'
    BY <2>2, <2>3, StepPreservesIInv, StepPreservesNormalised
  <2>5. length' = length
    BY DEF RunLexer, Receive, ReceiveFails, Step, Copy, PossibleCrLf,
           PossibleLws, ReachedContent, Continue, Return, LeaveFetchHeader,
           ReceiveContent, ReceiveContentFails
  <2> QED
    BY <1>1, <2>1, <2>2, <2>4, <2>5
       DEF RequestInv, Awaiting, Behind, Asked, Pointed
<1>3. CASE at = "content"
  <2>1. ~HeaderIsAwaited /\ ~HeaderIsAwaited' /\ IsParsed /\ IsParsed'
    BY <1>1, <1>3 DEF HeaderIsAwaited, IsParsed
  <2>2. /\ pc \in {"idle", "content"} /\ ContentSoFar
        /\ length \in {0, fields.content_length}
    BY <1>3, <2>1 DEF RequestInv, Behind, Asked
  <2>3. ReceiveContent \/ ReceiveContentFails
    BY <2>2 DEF RunLexer, Receive, ReceiveFails, Step, Copy, PossibleCrLf,
                PossibleLws, ReachedContent, Scan, Return
  <2>4. /\ pc = "content" /\ pc' \in {"idle", "content"}
        /\ length' = length /\ at' = at
    BY <1>1, <2>3 DEF ReceiveContent, ReceiveContentFails
  <2>5. content_pointer = <<>>
    <3>1. Len(content) < length /\ Len(content) \in Nat
      BY <2>2, <2>4, LenProperties DEF ContentSoFar, ContentFits
    <3>2. Len(content) # fields.content_length
      BY <2>2, <3>1 DEF ContentSoFar
    <3> QED
      BY <3>2 DEF RequestInv, Pointed
  <2>6. ContentSoFar'
    <3>1. CASE ReceiveContent
      BY <2>2, <3>1, ContentGrows
    <3>2. CASE ReceiveContentFails
      BY <2>2, <3>2 DEF ReceiveContentFails, ContentSoFar, ContentFits
    <3> QED
      BY <2>3, <3>1, <3>2
  <2> QED
    BY <1>1, <1>3, <2>1, <2>2, <2>4, <2>5, <2>6
       DEF RequestInv, Awaiting, Behind, Asked, Pointed
<1> QED
  BY <1>1, <1>2, <1>3

LEMMA HeaderArrives ==
  ASSUME RequestInv, FetchedHeader
  PROVE  RequestInv'
<1>1. /\ at = "fetching" /\ pc = "idle"
      /\ at' \in {"method", "failed"}
      /\ at' = "method" => state = "reached_content"
      /\ UNCHANGED <<content, succeeded, length, pc, delivered, content_pointer>>
  BY DEF FetchedHeader, Failed, Reach
<1>2. /\ IInv /\ Normalised /\ length = 0 /\ content_pointer = <<>>
  BY <1>1 DEF RequestInv, Awaiting, Asked, HeaderIsAwaited, IsParsed
<1>3. at' = "method" => ContentSoFar
  BY <1>1, <1>2
     DEF IInv, TypeOK, Normalised, Finished, ContentSoFar, EndStates
<1>4. ContentSoFar => ContentSoFar'
  BY <1>1 DEF ContentSoFar, ContentFits
<1> QED
  BY <1>1, <1>2, <1>3, <1>4
     DEF RequestInv, Awaiting, Behind, Asked, Pointed, HeaderIsAwaited, IsParsed

(* fetch_content is called. *)
LEMMA ContentAsked ==
  ASSUME RequestInv, CallFetchContent
  PROVE  RequestInv'
<1>1. /\ at = "parsed" /\ at' = "content"
      /\ UNCHANGED <<fields, content_pointer>>
  BY DEF CallFetchContent
<1>2. /\ ~HeaderIsAwaited /\ ~HeaderIsAwaited' /\ IsParsed /\ IsParsed'
      /\ pc = "idle" /\ ContentSoFar
      /\ length \in {0, fields.content_length}
  BY <1>1 DEF HeaderIsAwaited, IsParsed, RequestInv, Behind, Asked
<1>3. /\ UNCHANGED <<content, delivered>>
      /\ pc' \in {"idle", "content"}
      /\ length' \in {0, fields.content_length} /\ length' \in Nat
      /\ ContentFits'
  <2>1. CASE UNCHANGED vars
    BY <1>2, <2>1 DEF vars, ContentSoFar, ContentFits
  <2>2. CASE FetchContent /\ length' = fields.content_length
    <3>1. ContentFits'
      BY <1>2, <2>2, LengthAsked DEF ContentSoFar
    <3>2. UNCHANGED <<content, delivered>> /\ pc' \in {"idle", "content"}
      BY <2>2 DEF FetchContent
    <3>3. length' \in Nat
      BY <2>2, LexerAssumption DEF FetchContent
    <3> QED
      BY <2>2, <3>1, <3>2, <3>3
  <2> QED
    BY <2>1, <2>2 DEF CallFetchContent
<1>4. ContentSoFar'
  BY <1>2, <1>3 DEF ContentSoFar
<1> QED
  BY <1>1, <1>2, <1>3, <1>4 DEF RequestInv, Awaiting, Behind, Asked, Pointed

(* fetch_content returns. *)
LEMMA ContentArrives ==
  ASSUME RequestInv, FetchedContent
  PROVE  RequestInv'
<1>1. PICK validity \in Validity :
        IF validity = "crashed"
        THEN at' = "crashed" /\ UNCHANGED <<content_pointer, fetched>>
        ELSE /\ at' = "parsed"
             /\ content_pointer' = IF validity = "valid" THEN TakenContent ELSE <<>>
             /\ fetched' = (validity = "valid")
  BY DEF FetchedContent
<1>2. /\ at = "content" /\ pc = "idle" /\ at' \in {"parsed", "crashed"}
      /\ UNCHANGED <<header, content, succeeded, length, pc, delivered, fields>>
  BY <1>1 DEF FetchedContent, vars
<1>3. /\ ~HeaderIsAwaited /\ ~HeaderIsAwaited' /\ IsParsed /\ IsParsed'
      /\ ContentSoFar /\ length \in {0, fields.content_length}
  BY <1>2 DEF HeaderIsAwaited, IsParsed, RequestInv, Behind, Asked
<1>4. ContentSoFar'
  BY <1>2, <1>3 DEF ContentSoFar, ContentFits
<1>5. Behind' /\ Asked' /\ Awaiting'
  BY <1>2, <1>3, <1>4 DEF Behind, Asked, Awaiting
<1>6. TakenContent # <<>> =>
        TakenContent = content /\ Len(content) = fields.content_length
  <2>1. succeeded => length # 0 /\ Len(content) = length
    BY <1>3 DEF ContentSoFar, ContentFits
  <2>2. CASE fields.content_length > 0 /\ succeeded
    BY <1>3, <2>1, <2>2 DEF TakenContent
  <2>3. CASE ~(fields.content_length > 0 /\ succeeded)
    BY <2>3 DEF TakenContent, RequestInv, Pointed
  <2> QED
    BY <2>2, <2>3
<1>7. validity = "valid" /\ fields.content_md5 # NULL =>
        Agree(Digest(TakenContent), Expected)
  <2> SUFFICES ASSUME validity = "valid", fields.content_md5 # NULL
               PROVE  Agree(Digest(TakenContent), Expected)
    OBVIOUS
  <2>1. ~(TakenContent = <<>> /\ fields.content_length > 0)
    BY ONLY <1>1, validity = "valid", fields.content_md5 # NULL DEF Validity
  <2>2. Validity = Equal(Digest(TakenContent), Expected)
    BY ONLY <2>1, fields.content_md5 # NULL DEF Validity
  <2>3. "valid" \in Equal(Digest(TakenContent), Expected)
    BY <2>2
  <2>4. ASSUME ~Agree(Digest(TakenContent), Expected)
        PROVE  Equal(Digest(TakenContent), Expected) = {"invalid"}
    BY ONLY <2>4, Zenon DEF Equal
  <2> QED
    BY ONLY <2>3, <2>4
<1>8. CASE validity = "crashed"
  <2>1. at' # "parsed" /\ content_pointer' = content_pointer
    BY <1>1, <1>8
  <2>2. Pointed'
    BY <1>2, <2>1 DEF RequestInv, Pointed
  <2> QED
    BY <1>5, <2>2 DEF RequestInv
<1>9. CASE validity # "crashed"
  <2>1. content_pointer' = IF validity = "valid" THEN TakenContent ELSE <<>>
    BY <1>1, <1>9
  <2>2. Expected' = Expected
    BY <1>2 DEF Expected
  <2>3. content_pointer' # <<>> =>
          validity = "valid" /\ content_pointer' = TakenContent
    BY <2>1
  <2>4. Pointed'
    BY <1>2, <1>6, <1>7, <2>2, <2>3 DEF Pointed
  <2> QED
    BY <1>5, <2>4 DEF RequestInv
<1> QED
  BY <1>8, <1>9

-----------------------------------------------------------------------------
LEMMA StepPreservesRequestInv ==
  RequestInv /\ [RequestNext]_<<vars, requestVars>> => RequestInv'
<1> SUFFICES ASSUME RequestInv, [RequestNext]_<<vars, requestVars>>
             PROVE  RequestInv'
  OBVIOUS
<1>1. CASE CallFetchHeader
  <2>1. /\ at = "new" /\ at' = "fetching" /\ FetchHeader
        /\ content_pointer' = content_pointer
    BY <1>1 DEF CallFetchHeader
  <2>2. IInv /\ Normalised /\ length = 0 /\ content_pointer = <<>>
    BY <2>1 DEF RequestInv, Awaiting, Asked, HeaderIsAwaited, IsParsed
  <2>3. IInv' /\ Normalised'
    BY <2>1, <2>2, StepPreservesIInv, FetchNormalises DEF Next
  <2>4. length' = length
    BY <2>1 DEF FetchHeader
  <2> QED
    BY <2>1, <2>2, <2>3, <2>4
       DEF RequestInv, Awaiting, Behind, Asked, Pointed, HeaderIsAwaited, IsParsed
<1>2. CASE RunLexer
  BY <1>2, LexerStep
<1>3. CASE FetchedHeader
  BY <1>3, HeaderArrives
<1>4. CASE ParseMethod
  BY <1>4, ParseStep DEF ParseMethod, Failed, Reach, HeaderIsAwaited, IsParsed
<1>5. CASE ParseUri
  BY <1>5, ParseStep DEF ParseUri, Failed, Reach, HeaderIsAwaited, IsParsed
<1>6. CASE ParseVersion
  BY <1>6, ParseStep DEF ParseVersion, Failed, Reach, HeaderIsAwaited, IsParsed
<1>7. CASE ParseHeader
  BY <1>7, ParseStep DEF ParseHeader, Failed, Reach, HeaderIsAwaited, IsParsed
<1>8. CASE ParseEmptyLine
  BY <1>8, ParseStep DEF ParseEmptyLine, vars, HeaderIsAwaited, IsParsed
<1>9. CASE CallFetchContent
  BY <1>9, ContentAsked
<1>10. CASE FetchedContent
  BY <1>10, ContentArrives
<1>11. CASE UNCHANGED <<vars, requestVars>>
  <2>1. /\ UNCHANGED vars /\ UNCHANGED requestVars
        /\ UNCHANGED <<header, content, succeeded, length, pc, delivered>>
        /\ UNCHANGED <<at, fields, content_pointer>>
    BY <1>11 DEF vars, requestVars
  <2>2. IInv /\ Normalised => IInv' /\ Normalised'
    BY <2>1, StepPreservesIInv, StepPreservesNormalised
  <2>3. ContentSoFar => ContentSoFar'
    BY <2>1 DEF ContentSoFar, ContentFits
  <2>4. Expected' = Expected
    BY <2>1 DEF Expected
  <2> QED
    BY <2>1, <2>2, <2>3, <2>4
       DEF RequestInv, Awaiting, Behind, Asked, Pointed, HeaderIsAwaited, IsParsed
<1> QED
  BY <1>1, <1>2, <1>3, <1>4, <1>5, <1>6, <1>7, <1>8, <1>9, <1>10, <1>11
     DEF RequestNext

(***************************************************************************)
(* The invariant holds for requests of any size.                           *)
(***************************************************************************)
THEOREM RequestInvariance == RequestSpec => []RequestInv
<1>1. RequestInit => RequestInv
  <2> SUFFICES ASSUME RequestInit PROVE RequestInv
    OBVIOUS
  <2>1. Init /\ at = "new" /\ content_pointer = <<>> /\ length = 0
    BY DEF RequestInit, Init
  <2>2. IInv /\ Normalised
    BY <2>1, InitIsNormalised
  <2> QED
    BY <2>1, <2>2
       DEF RequestInv, Awaiting, Behind, Asked, Pointed, HeaderIsAwaited, IsParsed
<1> QED
  BY <1>1, StepPreservesRequestInv, PTL DEF RequestSpec

(***************************************************************************)
(* content() is NULL or the whole content behind the header, as long as    *)
(* its header field says, and with the checksum that is demanded of it.    *)
(***************************************************************************)
THEOREM ContentCorrect == RequestSpec => []ContentIsComplete
<1>1. RequestInv => ContentIsComplete
  <2> SUFFICES ASSUME RequestInv, content_pointer # <<>>
               PROVE  LET n == HeaderLength(delivered)
                      IN  /\ Len(content_pointer) = fields.content_length
                          /\ content_pointer
                               = SubSeq(delivered, n + 1, n + Len(content_pointer))
                          /\ at = "parsed" /\ fields.content_md5 # NULL =>
                               Agree(Digest(content_pointer), Expected)
    BY DEF ContentIsComplete
  <2>1. /\ content_pointer = content /\ Len(content) = fields.content_length
        /\ at = "parsed" /\ fields.content_md5 # NULL =>
             Agree(Digest(content_pointer), Expected)
    BY DEF RequestInv, Pointed
  <2>2. ContentSoFar
    BY DEF RequestInv, Asked, Behind, IsParsed, HeaderIsAwaited
  <2>3. PICK n : n = HeaderLength(delivered)
    OBVIOUS
  <2>4. PICK d : d = delivered
    OBVIOUS
  <2>5. d \in Seq(Bytes) /\ IsComplete(d) /\ content = SubSeq(d, n + 1, Len(d))
    BY <2>2, <2>3, <2>4 DEF ContentSoFar
  <2>6. n \in 1 .. Len(d)
    BY <2>3, <2>4, <2>5, HeaderStays
  <2>7. n + Len(content) = Len(d)
    BY <2>5, <2>6, EndLength
  <2> QED
    BY <2>1, <2>3, <2>4, <2>5, <2>7
<1> QED
  BY <1>1, RequestInvariance, PTL

-----------------------------------------------------------------------------
(***************************************************************************)
(* Third, the strings of a request.                                        *)
(***************************************************************************)
FieldNames == {"content_length", "content_md5", "content_md5_length",
               "content_type", "date", "is_keep_alive_set", "host_uri",
               "from", "referer", "user_agent"}

FieldStrings == {"content_md5", "from", "referer", "user_agent"}

(* Nothing points into the header. *)
NothingStored ==
  path_uri = NewUri /\ fields = NewFields /\ header_fields = <<>>

(* What points into the header is a string that ends at m at the latest. *)
StringsEnd(m) ==
  /\ IsRecord(fields, FieldNames)
  /\ UriOK(path_uri, header, m) /\ UriOK(fields.host_uri, header, m)
  /\ \A name \in FieldStrings : IsEnded(header, fields[name], m)
  /\ \A name \in DOMAIN header_fields :
       /\ IsEnded(header, header_fields[name].key, m)
       /\ IsEnded(header, header_fields[name].value, m)

(***************************************************************************)
(* parse stores nothing before it has read the uri; the strings it has     *)
(* stored end in front of its cursor, and it writes behind it only.        *)
(***************************************************************************)
StringsInv ==
  /\ at \in {"new", "fetching", "method", "uri", "version", "fields", "failed",
             "parsed", "content", "crashed"}
  /\ at \in {"new", "fetching", "method", "uri"} => NothingStored
  /\ ~HeaderIsAwaited => IsBuffer(header, Len(header))
  /\ at \in {"method", "uri", "version", "fields"} => index \in 1 .. Len(header)
  /\ at \in {"version", "fields"} => StringsEnd(index - 1)
  /\ at \in {"failed", "parsed", "content", "crashed"} => StringsEnd(Len(header))

(* What a step may do to the header: nothing, or nothing that is in front  *)
(* of where the strings end.                                               *)
StringsKept ==
  \A p \in Pointers \cap Pointers' : StringAt(header', p) = StringAt(header, p)

-----------------------------------------------------------------------------
(* A text from a buffer. *)
LEMMA TextIsBuffer ==
  ASSUME NEW b, NEW n, IsBuffer(b, n), NEW p \in 1 .. n + 1, NEW q \in p .. n + 1,
         NEW t, t = Text(b, p, q)
  PROVE  IsBuffer(t, q - p) /\ \A i \in 1 .. q - p : t[i] = b[p + i - 1]
<1>1. t = Piece(b, p, q)
  BY DEF Text, Piece
<1> QED
  BY <1>1, PieceOfBuffer

(* A string is what it was when its characters are. *)
LEMMA StringStays ==
  ASSUME NEW b, NEW b0, NEW n, IsBuffer(b, n), IsBuffer(b0, n),
         NEW d \in Int, SameBefore(b, b0, d), NEW m \in Int, m < d, m <= n,
         NEW p, IsEnded(b0, p, m)
  PROVE  StringAt(b, p) = StringAt(b0, p)
<1>1. ASSUME NEW i \in 1 .. m
      PROVE  b[i] = b0[i]
  <2>1. i \in DOMAIN b /\ i < d
    BY DEF IsBuffer
  <2> QED
    BY <2>1 DEF SameBefore
<1>2. SameUpTo(b, b0, m)
  BY <1>1 DEF SameUpTo
<1> QED
  BY <1>2, StringsAlike

LEMMA FindRange ==
  ASSUME NEW n \in Nat, Len(header) = n, NEW from \in 1 .. n + 1, NEW chars,
         NEW i, i = Find(from, chars)
  PROVE  i \in from .. n + 1 /\ (i < End => i \in from .. n /\ header[i] \in chars)
<1>1. PICK found : found = {j \in from .. n : header[j] \in chars}
  OBVIOUS
<1>2. End = n + 1
  BY DEF End
<1>3. CASE found = {}
  BY <1>1, <1>2, <1>3 DEF Find
<1>4. CASE found # {}
  <2>1. found \subseteq Nat
    BY <1>1
  <2>2. \E j \in found : \A k \in found : j <= k
    BY <1>4, <2>1, Least
  <2>3. i = CHOOSE j \in found : \A k \in found : j <= k
    BY <1>1, <1>4 DEF Find
  <2> QED
    BY <1>1, <2>2, <2>3
<1> QED
  BY <1>3, <1>4

LEMMA SkippedRange ==
  ASSUME NEW t, NEW n, IsBuffer(t, n)
  PROVE  SkippedBy(t) \in 0 .. n
<1>1. n \in Nat /\ Len(t) = n /\ DOMAIN t = 1 .. n
  BY BufferLength DEF IsBuffer
<1>2. PICK others : others = {i \in DOMAIN t : t[i] \notin Whitespace}
  OBVIOUS
<1>3. CASE others = {}
  BY <1>1, <1>2, <1>3 DEF SkippedBy
<1>4. CASE others # {}
  <2>1. others \subseteq 1 .. n /\ others \subseteq Nat
    BY <1>1, <1>2
  <2>2. \E j \in others : \A k \in others : j <= k
    BY <1>4, <2>1, Least
  <2>3. PICK j : j = CHOOSE i \in others : \A k \in others : i <= k
    OBVIOUS
  <2>4. j \in others
    BY <2>2, <2>3
  <2>5. SkippedBy(t) = j - 1
    BY <1>2, <1>4, <2>3 DEF SkippedBy
  <2> QED
    BY <1>1, <2>1, <2>4, <2>5
<1> QED
  BY <1>3, <1>4

(* A key that is taken for "host" has at least its characters. *)
LEMMA HostKeyLength ==
  ASSUME NEW t, NEW n, IsBuffer(t, n), KeyOf(t) = "host"
  PROVE  n >= 4
<1>1. n \in Nat /\ Len(t) = n /\ DOMAIN t = 1 .. n
  BY BufferLength DEF IsBuffer
<1>2. IsBuffer(Lowered(t), n)
  BY <1>1 DEF IsBuffer, Lowered
<1>3. Len(Lowered(t)) = n
  BY <1>2, BufferLength
<1>4. PICK found : found = {token \in DOMAIN HeaderKeys : IsPrefix(token, Lowered(t))}
  OBVIOUS
<1>5. found # {}
  BY <1>4 DEF KeyOf
<1>6. \A token \in found : Len(token) \in Nat /\ Len(token) <= n
  BY <1>3, <1>4, RequestAssumption DEF IsPrefix
<1>7. \E u \in found : \A v \in found : Len(v) <= Len(u)
  <2>1. PICK gaps : gaps = {n - Len(token) : token \in found}
    OBVIOUS
  <2>2. gaps \subseteq Nat /\ gaps # {}
    BY <1>1, <1>5, <1>6, <2>1
  <2>3. PICK gap \in gaps : \A other \in gaps : gap <= other
    BY <2>2, Least
  <2>4. PICK u \in found : gap = n - Len(u)
    BY <2>1
  <2>5. ASSUME NEW v \in found
        PROVE  Len(v) <= Len(u)
    <3>1. n - Len(u) <= n - Len(v)
      BY <2>1, <2>3, <2>4
    <3> QED
      BY <1>1, <1>6, <3>1
  <2> QED
    BY <2>5
<1>8. PICK u : u = CHOOSE w \in found : \A v \in found : Len(v) <= Len(w)
  OBVIOUS
<1>9. u \in found
  BY <1>7, <1>8
<1>10. KeyOf(t) = HeaderKeys[u]
  BY <1>4, <1>5, <1>8 DEF KeyOf
<1> QED
  BY <1>1, <1>4, <1>6, <1>9, <1>10, RequestAssumption

-----------------------------------------------------------------------------
StringsLater ==
  \A m, m2 \in Int :
    m <= m2 /\ m <= Len(header) /\ IsBuffer(header, Len(header)) =>
      (StringsEnd(m) => StringsEnd(m2))

LEMMA LaterEnds == StringsLater
<1> SUFFICES ASSUME NEW m \in Int, NEW m2 \in Int, m <= m2, m <= Len(header),
                    IsBuffer(header, Len(header)), StringsEnd(m)
             PROVE  StringsEnd(m2)
  BY DEF StringsLater
<1>1. HasNullsOf(header, header, Len(header)) /\ Len(header) \in Nat
  BY DEF HasNullsOf, IsBuffer
<1>2. ASSUME NEW p, IsEnded(header, p, m)
      PROVE  IsEnded(header, p, m2)
  BY <1>1, <1>2, EndedAnyway
<1> QED
  BY <1>2 DEF StringsEnd, UriOK

(* Nothing ends anywhere. *)
LEMMA NothingEnds ==
  ASSUME NothingStored, NEW m
  PROVE  StringsEnd(m)
<1>1. \A p : p = NULL => IsEnded(header, p, m)
  BY DEF IsEnded
<1>2. UriOK(NewUri, header, m)
  BY <1>1 DEF UriOK, NewUri, IsRecord, UriFields, UriStrings
<1>3. /\ IsRecord(fields, FieldNames) /\ fields.host_uri = NewUri
      /\ \A name \in FieldStrings : fields[name] = NULL
  BY DEF NothingStored, NewFields, IsRecord, FieldNames, FieldStrings
<1>4. DOMAIN header_fields = {}
  BY DEF NothingStored
<1> QED
  BY <1>1, <1>2, <1>3, <1>4 DEF StringsEnd, NothingStored

(* The pointers are ended. *)
LEMMA PointersEnd ==
  ASSUME NEW m, StringsEnd(m), NEW p \in Pointers
  PROVE  p # NULL /\ IsEnded(header, p, m)
<1>1. p # NULL
  BY DEF Pointers
<1>2. CASE p \in PointersOf(path_uri) \cup PointersOf(fields.host_uri)
  BY <1>1, <1>2 DEF StringsEnd, UriOK, UriStrings, PointersOf
<1>3. CASE p \in {fields.content_md5, fields.from, fields.referer, fields.user_agent}
  BY <1>1, <1>3 DEF StringsEnd, FieldStrings
<1>4. CASE p \in UNION {{header_fields[name].key, header_fields[name].value} :
                            name \in DOMAIN header_fields}
  <2>1. PICK name \in DOMAIN header_fields :
          p \in {header_fields[name].key, header_fields[name].value}
    BY <1>4
  <2> QED
    BY <1>1, <2>1 DEF StringsEnd
<1> QED
  BY <1>1, <1>2, <1>3, <1>4 DEF Pointers

LEMMA NoPointers ==
  ASSUME NothingStored
  PROVE  Pointers = {}
<1>1. ASSUME NEW p \in Pointers
      PROVE  FALSE
  <2>1. StringsEnd(0)
    BY NothingEnds
  <2>2. p # NULL /\ IsEnded(header, p, 0)
    BY <1>1, <2>1, PointersEnd
  <2> QED
    BY <2>2 DEF IsEnded
<1> QED
  BY <1>1

(* Writing behind the strings keeps them. *)
LEMMA StringsBefore ==
  ASSUME IsBuffer(header, Len(header)), IsBuffer(header', Len(header)),
         NEW d \in Int, SameBefore(header', header, d),
         NEW m \in Int, m < d, m <= Len(header), StringsEnd(m)
  PROVE  StringsKept
<1> SUFFICES ASSUME NEW p \in Pointers
             PROVE  StringAt(header', p) = StringAt(header, p)
  BY DEF StringsKept
<1>1. IsEnded(header, p, m)
  BY PointersEnd
<1> QED
  BY <1>1, StringStays

(* The cursor at the uri that begins at source and is copied to d. *)
LEMMA CursorStarts ==
  ASSUME NEW b, NEW n, IsBuffer(b, n), NEW source, NEW size \in Nat,
         NEW d \in Nat, NEW space \in Nat,
         NEW c, c = Cursor(b, source, size, d, space)
  PROVE  /\ CursorOK(c, n, d, d + space)
         /\ c.buffer = b /\ c.destination = d
         /\ c.source_length = size /\ c.destination_length = space
<1>1. /\ IsRecord(c, CursorFields)
      /\ c.buffer = b /\ c.destination = d
      /\ c.source_length = size /\ c.destination_length = space
  BY DEF Cursor, IsRecord, CursorFields
<1> QED
  BY <1>1 DEF CursorOK

(* From the fields to f at most the string at value was stored. *)
Stores(f, value) ==
  /\ IsRecord(f, FieldNames) /\ f.host_uri = fields.host_uri
  /\ \A name \in FieldStrings : f[name] \in {fields[name], value}

LEMMA FieldSet ==
  ASSUME IsRecord(fields, FieldNames), NEW value,
         NEW name \in FieldNames \ {"host_uri"}, NEW x,
         name \in FieldStrings => x = value,
         NEW f, f = [fields EXCEPT ![name] = x]
  PROVE  Stores(f, value)
BY DEF Stores, IsRecord, FieldNames, FieldStrings

(* A header field is stored that is at key, and its value, which ends at   *)
(* last_place, at value.                                                   *)
LEMMA FieldEnds ==
  ASSUME NEW n, Len(header) = n, IsBuffer(header, n),
         NEW key \in 1 .. n, NEW separator \in key .. n,
         NEW end \in separator + 1 .. n, NEW value \in separator + 1 .. end,
         NEW buffer, IsBuffer(buffer, n), SameBefore(buffer, header, key),
         buffer[end] = "nul",
         NEW kind, kind = "host" => separator - key >= 4,
         StringsEnd(key - 1), SetHeader(kind, buffer, key, value, end - value),
         path_uri' = path_uri
  PROVE  /\ IsBuffer(header', n) /\ SameBefore(header', header, key)
         /\ StringsEnd(end)'
<1>1. n \in Nat /\ key - 1 \in Int /\ key - 1 <= n /\ key - 1 < key /\ key - 1 <= end
  BY DEF IsBuffer
<1>2. PICK size \in Nat : size = end - value
  OBVIOUS
<1>3. PICK c : c = Cursor(buffer, value, size, key, size + 5)
  OBVIOUS
<1>4. PICK sent : sent = Parse(fields.host_uri, c, TRUE)
  OBVIOUS
<1>5. CASE kind = "host"
  <2>1. /\ header' = sent.buffer /\ header_fields' = header_fields
        /\ fields' = [fields EXCEPT !.host_uri = sent.uri]
    BY <1>2, <1>3, <1>4, <1>5 DEF SetHeader, HostDestination
  <2>2. PICK e \in Nat : e = key + (size + 5)
    OBVIOUS
  <2>3. e <= n /\ e - 1 <= end /\ e - 1 \in Int
    BY <1>2, <1>5, <2>2
  <2>4. /\ CursorOK(c, n, key, e) /\ c.destination = key /\ c.buffer = buffer
        /\ c.source_length >= 0 /\ c.destination_length >= 0
    <3>1. PICK space \in Nat : space = size + 5
      BY <1>2
    <3>2. key \in Nat /\ c = Cursor(buffer, value, size, key, space)
      BY <1>3, <3>1
    <3>3. /\ CursorOK(c, n, key, key + space) /\ c.destination = key
          /\ c.buffer = buffer
          /\ c.source_length = size /\ c.destination_length = space
      BY <3>2, CursorStarts
    <3>4. c.source_length >= 0 /\ c.destination_length >= 0
      BY <3>1, <3>3
    <3>5. e = key + space
      BY <2>2, <3>1
    <3> QED
      BY <3>3, <3>4, <3>5
  <2>5. UriOK(fields.host_uri, buffer, key - 1)
    <3>1. ASSUME NEW p, IsEnded(header, p, key - 1)
          PROVE  IsEnded(buffer, p, key - 1)
      BY <1>1, <3>1, EndedStays
    <3> QED
      BY <3>1 DEF StringsEnd, UriOK
  <2>6. /\ IsBuffer(header', n) /\ SameBefore(header', buffer, key)
        /\ UriOK(sent.uri, header', e - 1)
    <3>1. PICK uri : uri = fields.host_uri
      OBVIOUS
    <3>2. UriOK(uri, c.buffer, key - 1) /\ sent = Parse(uri, c, TRUE)
      BY <1>4, <2>4, <2>5, <3>1
    <3>3. key \in Nat \ {0} /\ e \in Int /\ TRUE \in BOOLEAN
      OBVIOUS
    <3>4. /\ IsBuffer(sent.buffer, n) /\ SameBefore(sent.buffer, c.buffer, key)
          /\ UriOK(sent.uri, sent.buffer, e - 1)
      BY <2>3, <2>4, <3>2, <3>3, UriEnds
    <3> QED
      BY <2>1, <2>4, <3>4
  <2>7. SameBefore(header', header, key)
    BY <2>6 DEF SameBefore, IsBuffer
  <2>8. ASSUME NEW p, IsEnded(header, p, key - 1)
        PROVE  IsEnded(header', p, end)
    BY <1>1, <2>6, <2>7, <2>8, EndedStays
  <2>9. UriOK(sent.uri, header', end)
    <3>1. HasNullsOf(header', header', n)
      BY DEF HasNullsOf
    <3>2. ASSUME NEW p, IsEnded(header', p, e - 1)
          PROVE  IsEnded(header', p, end)
      BY <1>1, <2>3, <3>1, <3>2, EndedAnyway
    <3> QED
      BY <2>6, <3>2 DEF UriOK
  <2>10. /\ IsRecord(fields', FieldNames) /\ fields'.host_uri = sent.uri
         /\ \A name \in FieldStrings : fields'[name] = fields[name]
    BY <2>1 DEF StringsEnd, IsRecord, FieldNames, FieldStrings
  <2>11. StringsEnd(end)'
    BY <2>1, <2>8, <2>9, <2>10 DEF StringsEnd, UriOK
  <2> QED
    BY <2>6, <2>7, <2>11
<1>6. CASE kind # "host"
  <2>1. header' = buffer
    BY <1>6 DEF SetHeader
  <2>2. ASSUME NEW p, IsEnded(header, p, key - 1)
        PROVE  IsEnded(header', p, end)
    BY <1>1, <2>1, <2>2, EndedStays
  <2>3. ASSUME NEW p \in 1 .. end
        PROVE  IsEnded(header', p, end)
    BY <2>1, <2>3 DEF IsEnded
  <2>4. value \in 1 .. end /\ key \in 1 .. end
    BY <1>1
  <2>5. Stores(fields', value)
    <3>1. PICK text : text = Text(buffer, value, value + size)
      OBVIOUS
    <3>2. PICK number : number = ParseUnsignedInteger(text).result
      OBVIOUS
    <3>3. fields' =
           CASE kind = "content_length" /\ number >= 0 ->
                  [fields EXCEPT !.content_length = number]
             [] kind = "content_md5" ->
                  [fields EXCEPT !.content_md5 = value, !.content_md5_length = size]
             [] kind = "content_type" ->
                  [fields EXCEPT !.content_type = ParseMime(text)]
             [] kind = "date" /\ text \in Dates -> [fields EXCEPT !.date = text]
             [] kind = "connection" /\ Lowered(text) = KeepAlive ->
                  [fields EXCEPT !.is_keep_alive_set = TRUE]
             [] kind = "host" -> [fields EXCEPT !.host_uri = sent.uri]
             [] kind \in {"from", "referer", "user_agent"} ->
                  [fields EXCEPT ![kind] = value]
             [] OTHER -> fields
      BY <1>2, <1>3, <1>4, <3>1, <3>2 DEF SetHeader, HostDestination
    <3>4. IsRecord(fields, FieldNames)
      BY DEF StringsEnd
    <3>5. CASE fields' = fields
      BY <3>4, <3>5 DEF Stores, FieldNames
    <3>6. CASE kind = "content_md5"
      <4>1. fields' = [fields EXCEPT !.content_md5 = value,
                                     !.content_md5_length = size]
        BY <3>3, <3>6
      <4> QED
        BY <3>4, <4>1 DEF Stores, IsRecord, FieldNames, FieldStrings
    <3>7. CASE kind \in {"from", "referer", "user_agent"}
      <4>1. fields' = [fields EXCEPT ![kind] = value]
        BY <3>3, <3>7
      <4>2. kind \in FieldNames \ {"host_uri"}
        BY <3>7 DEF FieldNames
      <4> QED
        BY <3>4, <4>1, <4>2, FieldSet
    <3>8. ASSUME NEW name \in FieldNames \ ({"host_uri"} \cup FieldStrings),
                 NEW x, fields' = [fields EXCEPT ![name] = x]
          PROVE  Stores(fields', value)
      BY <3>4, <3>8, FieldSet
    <3>9. /\ "content_length" \in FieldNames \ ({"host_uri"} \cup FieldStrings)
          /\ "content_type" \in FieldNames \ ({"host_uri"} \cup FieldStrings)
          /\ "date" \in FieldNames \ ({"host_uri"} \cup FieldStrings)
          /\ "is_keep_alive_set" \in FieldNames \ ({"host_uri"} \cup FieldStrings)
      BY DEF FieldNames, FieldStrings
    <3>10. CASE kind = "content_length"
      <4>1. \/ fields' = [fields EXCEPT !.content_length = number]
            \/ fields' = fields
        BY <3>3, <3>10
      <4> QED
        BY <3>5, <3>8, <3>9, <4>1
    <3>11. CASE kind = "content_type"
      <4>1. fields' = [fields EXCEPT !.content_type = ParseMime(text)]
        BY <3>3, <3>11
      <4> QED
        BY <3>8, <3>9, <4>1
    <3>12. CASE kind = "date"
      <4>1. \/ fields' = [fields EXCEPT !.date = text]
            \/ fields' = fields
        BY <3>3, <3>12
      <4> QED
        BY <3>5, <3>8, <3>9, <4>1
    <3>13. CASE kind = "connection"
      <4>1. \/ fields' = [fields EXCEPT !.is_keep_alive_set = TRUE]
            \/ fields' = fields
        BY <3>3, <3>13
      <4> QED
        BY <3>5, <3>8, <3>9, <4>1
    <3>14. CASE kind \notin {"content_length", "content_md5", "content_type",
                              "date", "connection", "host", "from", "referer",
                              "user_agent"}
      <4>1. fields' = fields
        BY <3>3, <3>14
      <4> QED
        BY <3>5, <4>1
    <3> QED
      BY <1>6, <3>6, <3>7, <3>10, <3>11, <3>12, <3>13, <3>14
  <2>7. \A name \in DOMAIN header_fields' :
          /\ \/ name \in DOMAIN header_fields
                /\ header_fields'[name].key = header_fields[name].key
             \/ header_fields'[name].key = key
          /\ \/ name \in DOMAIN header_fields
                /\ header_fields'[name].value = header_fields[name].value
             \/ header_fields'[name].value = value
    <3>1. CASE kind # "custom"
      BY <3>1 DEF SetHeader
    <3>2. CASE kind = "custom"
      <4>1. PICK string : string = StringAt(buffer, key)
        OBVIOUS
      <4>2. header_fields' =
              [name \in DOMAIN header_fields \cup {string} |->
                 IF name # string THEN header_fields[name]
                 ELSE [key   |-> IF string \in DOMAIN header_fields
                                 THEN header_fields[name].key ELSE key,
                       value |-> value]]
        BY <3>2, <4>1 DEF SetHeader
      <4> QED
        BY <4>2
    <3> QED
      BY <3>1, <3>2
  <2>8. StringsEnd(end)'
    <3>1. UriOK(path_uri', header', end) /\ UriOK(fields'.host_uri, header', end)
      BY <2>2, <2>5 DEF StringsEnd, UriOK, Stores
    <3>2. ASSUME NEW name \in FieldStrings
          PROVE  IsEnded(header', fields'[name], end)
      <4>1. fields'[name] \in {fields[name], value}
        BY <2>5 DEF Stores
      <4>2. IsEnded(header, fields[name], key - 1)
        BY DEF StringsEnd
      <4> QED
        BY <2>2, <2>3, <2>4, <4>1, <4>2
    <3>3. ASSUME NEW name \in DOMAIN header_fields'
          PROVE  /\ IsEnded(header', header_fields'[name].key, end)
                 /\ IsEnded(header', header_fields'[name].value, end)
      <4>1. ASSUME name \in DOMAIN header_fields
            PROVE  /\ IsEnded(header, header_fields[name].key, key - 1)
                   /\ IsEnded(header, header_fields[name].value, key - 1)
        BY <4>1 DEF StringsEnd
      <4> QED
        BY <2>2, <2>3, <2>4, <2>7, <4>1
    <3> QED
      BY <2>5, <3>1, <3>2, <3>3 DEF StringsEnd, Stores
  <2> QED
    BY <2>1, <2>8
<1> QED
  BY <1>5, <1>6

-----------------------------------------------------------------------------
(* A step that neither writes nor stores. *)
LEMMA NothingWritten ==
  ASSUME UNCHANGED <<header, path_uri, fields, header_fields>>
  PROVE  /\ StringsKept
         /\ \A m : StringsEnd(m) => StringsEnd(m)'
         /\ NothingStored => NothingStored'
BY DEF StringsKept, StringsEnd, NothingStored

LEMMA UriRead ==
  ASSUME StringsInv, ParseUri
  PROVE  StringsInv' /\ StringsKept
<1>1. /\ at = "uri" /\ NothingStored /\ index \in 1 .. Len(header)
      /\ IsBuffer(header, Len(header))
  BY DEF ParseUri, StringsInv, HeaderIsAwaited
<1>2. PICK n \in Nat : n = Len(header)
  BY <1>1 DEF IsBuffer
<1>3. PICK begin : begin = FindNo(index, is_whitespace)
  OBVIOUS
<1>4. PICK end : end = Find(begin, is_whitespace)
  OBVIOUS
<1>5. PICK c : c = Cursor(header, begin, end - begin, 1, end - 1)
  OBVIOUS
<1>6. PICK uri : uri = Parse(path_uri, c, TRUE)
  OBVIOUS
<1>7. begin \in index .. n + 1
  BY <1>1, <1>2, <1>3, FindRange DEF FindNo
<1>8. end \in begin .. n + 1
  <2>1. begin \in 1 .. n + 1
    BY <1>1, <1>2, <1>7
  <2> QED
    BY <1>2, <1>4, <2>1, FindRange
<1>9. StringsKept
  BY <1>1, NoPointers DEF StringsKept
<1>10. UNCHANGED <<fields, header_fields>>
  BY DEF ParseUri
<1>11. /\ at' \in {"version", "failed"}
       /\ IF end < End
          THEN /\ path_uri' = uri.uri /\ header' = uri.buffer
               /\ at' = "version" => Reach(end)
          ELSE at' = "failed" /\ UNCHANGED <<path_uri, header>>
  BY <1>3, <1>4, <1>5, <1>6 DEF ParseUri, Failed
<1>12. CASE ~(end < End)
  <2>1. UNCHANGED <<header, path_uri, fields, header_fields>> /\ at' = "failed"
    BY <1>10, <1>11, <1>12
  <2>2. StringsEnd(Len(header))
    BY <1>1, NothingEnds
  <2>3. StringsEnd(n)'
    BY <1>2, <2>1, <2>2, NothingWritten
  <2> QED
    BY <1>1, <1>2, <1>9, <2>1, <2>3 DEF StringsInv
<1>13. CASE end < End
  <2>1. end \in 1 .. n /\ end - begin \in Nat /\ end - 1 \in Nat /\ end \in Int
    BY <1>1, <1>2, <1>7, <1>8, <1>13 DEF End
  <2>2. /\ CursorOK(c, n, 1, end) /\ c.destination = 1 /\ c.buffer = header
        /\ c.source_length >= 0 /\ c.destination_length >= 0
    <3>1. PICK size \in Nat : size = end - begin
      BY <2>1
    <3>2. PICK space \in Nat : space = end - 1
      BY <2>1
    <3>3. IsBuffer(header, n) /\ c = Cursor(header, begin, size, 1, space) /\ 1 \in Nat
      BY <1>1, <1>2, <1>5, <3>1, <3>2
    <3>4. /\ CursorOK(c, n, 1, 1 + space) /\ c.destination = 1 /\ c.buffer = header
          /\ c.source_length = size /\ c.destination_length = space
      BY <3>3, CursorStarts
    <3>5. 1 + space = end
      BY <2>1, <3>2
    <3> QED
      BY <3>1, <3>2, <3>4, <3>5
  <2>3. UriOK(path_uri, c.buffer, 1 - 1)
    <3>1. StringsEnd(0)
      BY <1>1, NothingEnds
    <3> QED
      BY <2>2, <3>1 DEF StringsEnd
  <2>4. IsBuffer(uri.buffer, n) /\ UriOK(uri.uri, uri.buffer, end - 1)
    <3>1. 1 \in Nat \ {0} /\ TRUE \in BOOLEAN /\ end <= n
      BY <2>1
    <3> QED
      BY <1>6, <2>1, <2>2, <2>3, <3>1, UriEnds
  <2>5. IsBuffer(header', n) /\ UriOK(path_uri', header', end - 1) /\ Len(header') = n
    BY <1>11, <1>13, <2>4, BufferLength
  <2>6. StringsEnd(end - 1)'
    <3>1. /\ IsRecord(fields, FieldNames) /\ fields.host_uri = NewUri
          /\ \A name \in FieldStrings : fields[name] = NULL
          /\ DOMAIN header_fields = {}
      BY <1>1 DEF NothingStored, NewFields, IsRecord, FieldNames, FieldStrings
    <3>2. UriOK(NewUri, header', end - 1)
      BY DEF IsEnded, UriOK, NewUri, IsRecord, UriFields, UriStrings
    <3>3. \A name \in FieldStrings : IsEnded(header', fields[name], end - 1)
      BY <3>1 DEF IsEnded
    <3> QED
      BY <1>10, <2>5, <3>1, <3>2, <3>3 DEF StringsEnd
  <2>7. StringsEnd(n)'
    <3>1. StringsLater'
      BY LaterEnds, PTL
    <3>2. end - 1 \in Int /\ n \in Int /\ end - 1 <= n
      BY <2>1
    <3> QED
      BY <2>5, <2>6, <3>1, <3>2 DEF StringsLater
  <2>8. at' = "version" => index' = end
    BY <1>11, <1>13, <2>1 DEF Reach
  <2> QED
    BY <1>9, <1>11, <2>1, <2>5, <2>6, <2>7, <2>8 DEF StringsInv
<1> QED
  BY <1>12, <1>13

LEMMA FieldRead ==
  ASSUME StringsInv, ParseHeader
  PROVE  StringsInv' /\ StringsKept
<1>1. /\ at = "fields" /\ StringsEnd(index - 1) /\ index \in 1 .. Len(header)
      /\ IsBuffer(header, Len(header))
  BY DEF ParseHeader, StringsInv, HeaderIsAwaited
<1>2. PICK n \in Nat : n = Len(header)
  BY <1>1 DEF IsBuffer
<1>3. PICK key : key = index
  OBVIOUS
<1>4. PICK separator : separator = Find(key, is_key_value_separator)
  OBVIOUS
<1>5. PICK keyed : keyed = [header EXCEPT ![separator] = "nul"]
  OBVIOUS
<1>6. PICK begin : begin = separator + 1
  OBVIOUS
<1>7. PICK end : end = Find(begin, is_newline)
  OBVIOUS
<1>8. PICK blanks : blanks = SkippedBy(Text(keyed, begin, end))
  OBVIOUS
<1>9. /\ IF end < End
         THEN /\ SetHeader(KeyOf(Text(header, key, separator)), EndValue(keyed, end),
                           key, begin + blanks, end - begin - blanks)
              /\ IF end + 1 < End THEN UNCHANGED at /\ Reach(end + 1)
                                  ELSE Failed(End)
         ELSE /\ header' = IF separator < End THEN keyed ELSE header
              /\ Failed(End)
              /\ UNCHANGED <<fields, header_fields>>
      /\ path_uri' = path_uri
  BY <1>3, <1>4, <1>5, <1>6, <1>7, <1>8 DEF ParseHeader
<1>10. key \in 1 .. n /\ separator \in key .. n + 1 /\ End = n + 1
  BY <1>1, <1>2, <1>3, <1>4, FindRange DEF End
<1>11. IsBuffer(keyed, n) /\ SameBefore(keyed, header, key)
  <2>1. IsBuffer(keyed, n)
    BY <1>1, <1>2, <1>5 DEF IsBuffer
  <2>2. ASSUME NEW i \in DOMAIN keyed, i < key
        PROVE  keyed[i] = header[i]
    <3>1. i \in DOMAIN header /\ i \in Nat
      BY <1>1, <1>2, <2>1, <2>2 DEF IsBuffer
    <3>2. i # separator
      BY <1>10, <2>2, <3>1
    <3> QED
      BY <1>5, <3>1, <3>2
  <2> QED
    BY <2>1, <2>2 DEF SameBefore
<1>12. CASE end < End
  <2>1. separator \in key .. n /\ end \in separator + 1 .. n
    <3>1. CASE separator = n + 1
      <4>1. begin .. Len(header) = {}
        BY <1>2, <1>6, <3>1
      <4>2. end = End
        BY <1>7, <4>1 DEF Find
      <4> QED
        BY <1>10, <1>12, <4>2
    <3>2. CASE separator # n + 1
      <4>1. begin \in 1 .. n + 1
        BY <1>6, <1>10, <3>2
      <4>2. end \in begin .. n
        BY <1>2, <1>7, <1>12, <4>1, FindRange
      <4> QED
        BY <1>6, <1>10, <3>2, <4>2
    <3> QED
      BY <3>1, <3>2
  <2>2. IsBuffer(Text(keyed, begin, end), end - begin)
    <3>1. begin \in 1 .. n + 1 /\ end \in begin .. n + 1
      BY <1>6, <1>10, <2>1
    <3> QED
      BY <1>11, <3>1, TextIsBuffer
  <2>3. blanks \in 0 .. end - begin
    BY <1>8, <2>2, SkippedRange
  <2>4. KeyOf(Text(header, key, separator)) = "host" => separator - key >= 4
    <3>1. key \in 1 .. n + 1 /\ separator \in key .. n + 1
      BY <1>10
    <3>2. IsBuffer(Text(header, key, separator), separator - key)
      BY <1>1, <1>2, <3>1, TextIsBuffer
    <3> QED
      BY <3>2, HostKeyLength
  <2>5. PICK value : value = begin + blanks
    OBVIOUS
  <2>6. PICK buffer : buffer = EndValue(keyed, end)
    OBVIOUS
  <2>7. PICK kind : kind = KeyOf(Text(header, key, separator))
    OBVIOUS
  <2>8. value \in separator + 1 .. end /\ end - begin - blanks = end - value
    BY <1>6, <1>10, <2>1, <2>3, <2>5
  <2>9. /\ IsBuffer(buffer, n) /\ SameBefore(buffer, header, key)
        /\ buffer[end] = "nul"
    <3>1. buffer = [keyed EXCEPT ![end] = "nul"]
      BY <2>6 DEF EndValue
    <3>2. IsBuffer(buffer, n) /\ buffer[end] = "nul"
      <4>1. end \in 1 .. n
        BY <1>10, <2>1
      <4> QED
        BY <1>11, <3>1, <4>1 DEF IsBuffer
    <3>3. ASSUME NEW i \in DOMAIN buffer, i < key
          PROVE  buffer[i] = header[i]
      <4>1. i \in DOMAIN keyed /\ i \in Nat
        BY <1>11, <3>2, <3>3 DEF IsBuffer
      <4>2. i # end
        BY <1>10, <2>1, <3>3, <4>1
      <4> QED
        BY <1>11, <3>1, <3>3, <4>1, <4>2 DEF SameBefore
    <3> QED
      BY <3>2, <3>3 DEF SameBefore
  <2>10. SetHeader(kind, buffer, key, value, end - value)
    BY <1>9, <1>12, <2>5, <2>6, <2>7, <2>8
  <2>11. /\ IsBuffer(header', n) /\ SameBefore(header', header, key)
         /\ StringsEnd(end)'
    <3>1. kind = "host" => separator - key >= 4
      BY <2>4, <2>7
    <3>2. StringsEnd(key - 1) /\ Len(header) = n /\ IsBuffer(header, n)
          /\ path_uri' = path_uri
      BY <1>1, <1>2, <1>3, <1>9
    <3> QED
      BY <1>10, <2>1, <2>8, <2>9, <2>10, <3>1, <3>2, FieldEnds
  <2>12. Len(header') = n
    BY <2>11, BufferLength
  <2>13. StringsKept
    <3>1. key \in Int /\ key - 1 \in Int /\ key - 1 < key /\ key - 1 <= n
      BY <1>10
    <3> QED
      BY <1>1, <1>2, <1>3, <2>11, <3>1, StringsBefore
  <2>14. StringsEnd(n)'
    <3>1. StringsLater'
      BY LaterEnds, PTL
    <3>2. end \in Int /\ n \in Int /\ end <= n
      BY <1>10, <2>1
    <3> QED
      BY <2>11, <2>12, <3>1, <3>2 DEF StringsLater
  <2>15. \/ /\ at' = "fields" /\ index' = end + 1 /\ index' - 1 = end
            /\ index' \in 1 .. n
         \/ at' = "failed"
    <3>1. CASE end + 1 < End
      <4>1. at' = "fields" /\ index' = end + 1
        BY <1>1, <1>9, <1>12, <3>1 DEF Reach
      <4> QED
        BY <1>10, <2>1, <3>1, <4>1
    <3>2. CASE ~(end + 1 < End)
      BY <1>9, <1>12, <3>2 DEF Failed
    <3> QED
      BY <3>1, <3>2
  <2> QED
    BY <2>1, <2>11, <2>12, <2>13, <2>14, <2>15 DEF StringsInv
<1>13. CASE ~(end < End)
  <2>1. header' \in {keyed, header} /\ at' = "failed"
        /\ UNCHANGED <<path_uri, fields, header_fields>>
    BY <1>9, <1>13 DEF Failed
  <2>2. IsBuffer(header', n) /\ SameBefore(header', header, key)
    BY <1>1, <1>2, <1>11, <2>1 DEF SameBefore
  <2>3. StringsEnd(n)'
    <3>1. /\ key - 1 \in Int /\ n \in Int /\ key \in Int
          /\ key - 1 <= n /\ key - 1 < key
      BY <1>10
    <3>2. ASSUME NEW p, IsEnded(header, p, key - 1)
          PROVE  IsEnded(header', p, n)
      BY <2>2, <3>1, <3>2, EndedStays
    <3> QED
      BY <1>1, <1>3, <2>1, <3>2 DEF StringsEnd, UriOK
  <2>4. StringsKept
    <3>1. key \in Int /\ key - 1 \in Int /\ key - 1 < key /\ key - 1 <= n
      BY <1>10
    <3> QED
      BY <1>1, <1>2, <1>3, <2>2, <3>1, StringsBefore
  <2> QED
    BY <2>1, <2>2, <2>3, <2>4, BufferLength DEF StringsInv
<1> QED
  BY <1>12, <1>13

LEMMA StringsStep ==
  ASSUME RequestInv, StringsInv, [RequestNext]_<<vars, requestVars>>
  PROVE  StringsInv' /\ StringsKept
<1>1. CASE CallFetchHeader
  <2>1. /\ at = "new" /\ at' = "fetching"
        /\ UNCHANGED <<header, path_uri, fields, header_fields>>
    BY <1>1 DEF CallFetchHeader, FetchHeader
  <2> QED
    BY <2>1, NothingWritten DEF StringsInv, HeaderIsAwaited
<1>2. CASE RunLexer
  <2>1. /\ at' = at /\ at \in {"fetching", "content"}
        /\ UNCHANGED <<path_uri, fields, header_fields>>
    BY <1>2 DEF RunLexer, requestVars
  <2>2. CASE at = "fetching"
    <3>1. NothingStored /\ NothingStored'
      BY <2>1, <2>2 DEF StringsInv, NothingStored
    <3>2. StringsKept
      BY <3>1, NoPointers DEF StringsKept
    <3> QED
      BY <2>1, <2>2, <3>1, <3>2 DEF StringsInv, HeaderIsAwaited
  <2>3. CASE at = "content"
    <3>1. pc \in {"idle", "content"}
      BY <2>3 DEF RequestInv, Behind, HeaderIsAwaited
    <3>2. ReceiveContent \/ ReceiveContentFails
      BY <1>2, <3>1 DEF RunLexer, Receive, ReceiveFails, Step, Copy, PossibleCrLf,
                        PossibleLws, ReachedContent, Scan, Return
    <3>3. header' = header
      BY <3>2 DEF ReceiveContent, ReceiveContentFails
    <3> QED
      BY <2>1, <2>3, <3>3, NothingWritten DEF StringsInv, HeaderIsAwaited
  <2> QED
    BY <2>1, <2>2, <2>3
<1>3. CASE FetchedHeader
  <2>1. /\ at = "fetching" /\ UNCHANGED <<header, path_uri, fields, header_fields>>
        /\ \/ at' = "failed"
           \/ at' = "method" /\ Reach(1) /\ header # <<>>
    BY <1>3 DEF FetchedHeader, Failed
  <2>2. header \in Seq(Bytes)
    BY <2>1 DEF RequestInv, Awaiting, HeaderIsAwaited, IInv, TypeOK
  <2>3. IsBuffer(header, Len(header)) /\ (header # <<>> => 1 \in 1 .. Len(header))
    BY <2>2 DEF IsBuffer
  <2>4. NothingStored /\ StringsEnd(Len(header))
    BY <2>1, NothingEnds DEF StringsInv
  <2>5. at' = "method" => index' = 1
    BY <2>1, <2>3 DEF Reach, End
  <2> QED
    BY <2>1, <2>3, <2>4, <2>5, NothingWritten DEF StringsInv
<1>4. CASE ParseMethod
  <2>1. /\ at = "method" /\ UNCHANGED <<header, path_uri, fields, header_fields>>
    BY <1>4 DEF ParseMethod
  <2>2. /\ index \in 1 .. Len(header) /\ IsBuffer(header, Len(header))
        /\ NothingStored /\ StringsEnd(Len(header))
    BY <2>1, NothingEnds DEF StringsInv, HeaderIsAwaited
  <2>3. PICK n \in Nat : n = Len(header)
    BY <2>2 DEF IsBuffer
  <2>4. PICK begin : begin = FindNo(index, is_whitespace)
    OBVIOUS
  <2>5. PICK end : end = Find(begin, is_whitespace)
    OBVIOUS
  <2>6. begin \in index .. n + 1 /\ begin \in 1 .. n + 1
    BY <2>2, <2>3, <2>4, FindRange DEF FindNo
  <2>7. end \in begin .. n + 1
    BY <2>3, <2>5, <2>6, FindRange
  <2>8. \/ at' = "failed"
        \/ at' = "uri" /\ end < End /\ Reach(end)
    BY <1>4, <2>4, <2>5 DEF ParseMethod, Failed
  <2>9. at' = "uri" => index' \in 1 .. n
    BY <2>3, <2>6, <2>7, <2>8 DEF Reach, End
  <2> QED
    BY <2>1, <2>2, <2>3, <2>8, <2>9, NothingWritten DEF StringsInv
<1>5. CASE ParseUri
  BY <1>5, UriRead
<1>6. CASE ParseVersion
  <2>1. /\ at = "version" /\ UNCHANGED <<header, path_uri, fields, header_fields>>
    BY <1>6 DEF ParseVersion
  <2>2. /\ index \in 1 .. Len(header) /\ IsBuffer(header, Len(header))
        /\ StringsEnd(index - 1)
    BY <2>1 DEF StringsInv, HeaderIsAwaited
  <2>3. PICK n \in Nat : n = Len(header)
    BY <2>2 DEF IsBuffer
  <2>4. PICK begin : begin = FindNo(index, is_whitespace)
    OBVIOUS
  <2>5. PICK end : end = Find(begin, is_newline)
    OBVIOUS
  <2>6. begin \in index .. n + 1 /\ begin \in 1 .. n + 1
    BY <2>2, <2>3, <2>4, FindRange DEF FindNo
  <2>7. end \in begin .. n + 1
    BY <2>3, <2>5, <2>6, FindRange
  <2>8. \/ at' = "failed"
        \/ at' = "fields" /\ end + 1 < End /\ Reach(end + 1)
    BY <1>6, <2>4, <2>5 DEF ParseVersion, Failed
  <2>9. at' = "fields" => index' = end + 1 /\ end + 1 \in 1 .. n
    BY <2>3, <2>6, <2>7, <2>8 DEF Reach, End
  <2>10. StringsEnd(end) /\ StringsEnd(n)
    <3>1. /\ index - 1 \in Int /\ end \in Int /\ n \in Int
          /\ index - 1 <= end /\ index - 1 <= n
      BY <2>2, <2>3, <2>6, <2>7
    <3> QED
      BY <2>2, <2>3, <3>1, LaterEnds DEF StringsLater
  <2>11. at' = "fields" => StringsEnd(index - 1)'
    <3>1. StringsEnd(end)'
      BY <2>1, <2>10, NothingWritten
    <3>2. at' = "fields" => index' - 1 = end
      BY <2>7, <2>6, <2>9
    <3> QED
      BY <3>1, <3>2
  <2> QED
    BY <2>1, <2>2, <2>3, <2>8, <2>9, <2>10, <2>11, NothingWritten DEF StringsInv
<1>7. CASE ParseHeader
  BY <1>7, FieldRead
<1>8. CASE ParseEmptyLine
  <2>1. /\ at = "fields" /\ at' = "parsed"
        /\ UNCHANGED <<header, path_uri, fields, header_fields>>
    BY <1>8 DEF ParseEmptyLine, vars
  <2>2. /\ index \in 1 .. Len(header) /\ IsBuffer(header, Len(header))
        /\ StringsEnd(index - 1)
    BY <2>1 DEF StringsInv, HeaderIsAwaited
  <2>3. StringsEnd(Len(header))
    <3>1. /\ index - 1 \in Int /\ Len(header) \in Int /\ index - 1 <= Len(header)
      BY <2>2 DEF IsBuffer
    <3> QED
      BY <2>2, <3>1, LaterEnds DEF StringsLater
  <2> QED
    BY <2>1, <2>2, <2>3, NothingWritten DEF StringsInv
<1>9. CASE CallFetchContent
  <2>1. /\ at = "parsed" /\ at' = "content"
        /\ UNCHANGED <<header, path_uri, fields, header_fields>>
    BY <1>9 DEF CallFetchContent, vars, FetchContent
  <2> QED
    BY <2>1, NothingWritten DEF StringsInv, HeaderIsAwaited
<1>10. CASE FetchedContent
  <2>1. /\ at = "content" /\ at' \in {"parsed", "crashed"}
        /\ UNCHANGED <<header, path_uri, fields, header_fields>>
    BY <1>10 DEF FetchedContent, vars
  <2> QED
    BY <2>1, NothingWritten DEF StringsInv, HeaderIsAwaited
<1>11. CASE UNCHANGED <<vars, requestVars>>
  <2>1. UNCHANGED <<at, index, header, path_uri, fields, header_fields>>
    BY <1>11 DEF vars, requestVars
  <2> QED
    BY <2>1, NothingWritten DEF StringsInv, HeaderIsAwaited
<1> QED
  BY <1>1, <1>2, <1>3, <1>4, <1>5, <1>6, <1>7, <1>8, <1>9, <1>10, <1>11
     DEF RequestNext

(***************************************************************************)
(* The invariant of the strings holds for requests of any size.            *)
(***************************************************************************)
THEOREM StringsInvariance == RequestSpec => []StringsInv
<1>1. RequestInit => StringsInv
  BY DEF RequestInit, StringsInv, NothingStored, HeaderIsAwaited
<1>2. RequestInv /\ StringsInv /\ [RequestNext]_<<vars, requestVars>> => StringsInv'
  BY StringsStep
<1> QED
  BY <1>1, <1>2, RequestInvariance, PTL DEF RequestSpec

(***************************************************************************)
(* Every string that is given out ends within the header.                  *)
(***************************************************************************)
THEOREM TerminationCorrect == RequestSpec => []StringsAreTerminated
<1>1. RequestInv /\ StringsInv => StringsAreTerminated
  <2> SUFFICES ASSUME RequestInv, StringsInv, NEW p \in Pointers
               PROVE  \E i \in p .. Len(header) : header[i] = "nul"
    BY DEF StringsAreTerminated
  <2>1. Pointers # {} => ~(at \in {"new", "fetching", "method", "uri"})
    BY NoPointers DEF StringsInv
  <2>2. ~HeaderIsAwaited
    BY <2>1 DEF HeaderIsAwaited
  <2>3. IsBuffer(header, Len(header))
    BY <2>2 DEF StringsInv
  <2>4. StringsEnd(Len(header))
    <3>1. CASE at \in {"version", "fields"}
      <4>1. index \in 1 .. Len(header) /\ StringsEnd(index - 1)
        BY <3>1 DEF StringsInv
      <4>2. /\ index - 1 \in Int /\ Len(header) \in Int
            /\ index - 1 <= Len(header)
        BY <2>3, <4>1 DEF IsBuffer
      <4> QED
        BY <2>3, <4>1, <4>2, LaterEnds DEF StringsLater
    <3>2. CASE at \in {"failed", "parsed", "content", "crashed"}
      BY <3>2 DEF StringsInv
    <3> QED
      BY <2>1, <3>1, <3>2 DEF StringsInv
  <2>5. p # NULL /\ IsEnded(header, p, Len(header))
    BY <2>4, PointersEnd
  <2> QED
    BY <2>5 DEF IsEnded
<1> QED
  BY <1>1, StringsInvariance, RequestInvariance, PTL

(***************************************************************************)
(* No step changes a string that was given out.                            *)
(***************************************************************************)
THEOREM StringsStayCorrect == RequestSpec => StringsStay
<1>1. RequestInv /\ StringsInv /\ [RequestNext]_<<vars, requestVars>> =>
        [\A p \in Pointers \cap Pointers' :
           StringAt(header', p) = StringAt(header, p)]_<<vars, requestVars>>
  BY StringsStep DEF StringsKept
<1> QED
  BY <1>1, StringsInvariance, RequestInvariance, PTL DEF RequestSpec, StringsStay
=============================================================================
