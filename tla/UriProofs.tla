------------------------------ MODULE UriProofs ------------------------------
(***************************************************************************)
(* What parse writes, and where the strings end that it stores: lemmas for *)
(* the request and for the functions that keep no state.                   *)
(***************************************************************************)
EXTENDS UriMeaning, SequenceTheorems, WellFoundedInduction, TLAPS

(* A set of numbers that is not empty has a least one. *)
LEMMA Least ==
  ASSUME NEW N, N \subseteq Nat, N # {}
  PROVE  \E i \in N : \A j \in N : i <= j
<1>1. N \subseteq Nat /\ N # {}
  OBVIOUS
<1>2. PICK i \in N : \A j \in N : ~(<<j, i>> \in OpToRel(<, Nat))
  BY <1>1, NatLessThanWellFounded, WFMin, Zenon
<1>3. \A j \in N : ~(j < i)
  BY <1>2 DEF OpToRel
<1> QED
  BY <1>3

-----------------------------------------------------------------------------
(***************************************************************************)
(* The strings of a request.                                               *)
(*                                                                         *)
(* First, parse_uri_word: what it writes is within the destination, and    *)
(* ended with a null character.                                            *)
(***************************************************************************)
(* r is a record with these fields. *)
IsRecord(r, names) == DOMAIN r = names /\ r = [name \in names |-> r[name]]

WordFields   == {"buffer", "head", "tail", "stop"}
CursorFields == {"buffer", "source", "source_length", "destination",
                 "destination_length"}

(* b is a buffer of n characters, whatever they are. *)
IsBuffer(b, n) == n \in Nat /\ b = [i \in 1 .. n |-> b[i]]

(* What is in front of position d is the same in both buffers. *)
SameBefore(b, old, d) == \A i \in DOMAIN b : i < d => b[i] = old[i]

(* And what is at position e and behind it. *)
SameBehind(b, old, e) == \A i \in DOMAIN b : i >= e => b[i] = old[i]

(* A cursor in a buffer of n characters, which writes from d to e. *)
CursorOK(c, n, d, e) ==
  /\ IsRecord(c, CursorFields)
  /\ IsBuffer(c.buffer, n)
  /\ c.source_length \in Int /\ c.source_length >= -1
  /\ c.destination \in Nat /\ c.destination >= d
  /\ c.destination_length \in Int
  /\ c.destination + c.destination_length = e

(* There is space for the source and k characters more. *)
HasSlack(c, k) ==
  c.destination_length >= k /\ c.destination_length - c.source_length >= k

(* What is copied is not longer than what was read, and only within the    *)
(* destination.                                                            *)
WordOK(c, n, w) ==
  /\ IsRecord(w, WordFields)
  /\ IsBuffer(w.buffer, n) /\ SameBefore(w.buffer, c.buffer, c.destination)
  /\ SameBehind(w.buffer, c.buffer, c.destination + c.destination_length)
  /\ w.head \in Nat /\ w.tail \in Nat /\ w.tail <= w.head
  /\ w.head = 0 \/ w.head <= c.source_length

LEMMA BufferLength ==
  ASSUME NEW b, NEW n, IsBuffer(b, n)
  PROVE  Len(b) = n
<1>1. n \in Nat /\ b \in [1 .. n -> {b[i] : i \in 1 .. n}]
  BY DEF IsBuffer
<1>2. b \in Seq({b[i] : i \in 1 .. n})
  BY <1>1
<1>3. Len(b) \in Nat /\ DOMAIN b = 1 .. Len(b)
  BY <1>2, LenProperties
<1> QED
  BY <1>1, <1>3

(* From w to x, ch was copied from size characters. *)
Writes(c, w, x, ch, size) ==
  x = [w EXCEPT !.buffer[c.destination + w.tail] = ch,
                !.head = @ + size, !.tail = @ + 1]

(* A character is written within the destination. *)
LEMMA CharacterWritten ==
  ASSUME NEW c, NEW n, c.source_length \in Int, c.destination \in Nat,
         c.destination_length \in Int,
         NEW w, WordOK(c, n, w), NEW x, NEW ch, NEW size \in Nat \ {0},
         w.head + size <= c.source_length, w.tail < c.destination_length,
         Writes(c, w, x, ch, size)
  PROVE  WordOK(c, n, x)
<1>1. /\ IsRecord(x, WordFields)
      /\ x.head = w.head + size /\ x.tail = w.tail + 1
      /\ x.buffer = [w.buffer EXCEPT ![c.destination + w.tail] = ch]
  BY DEF WordOK, IsRecord, WordFields, Writes
<1>2. IsBuffer(x.buffer, n)
  BY <1>1 DEF WordOK, IsBuffer
<1>3. SameBefore(x.buffer, c.buffer, c.destination)
  <2> SUFFICES ASSUME NEW i \in DOMAIN x.buffer, i < c.destination
               PROVE  x.buffer[i] = c.buffer[i]
    BY DEF SameBefore
  <2>1. i \in DOMAIN w.buffer /\ w.buffer[i] = c.buffer[i]
    BY <1>1 DEF WordOK, SameBefore
  <2>2. i \in Nat
    BY <2>1 DEF WordOK, IsBuffer
  <2>3. i # c.destination + w.tail
    BY <2>2 DEF WordOK
  <2> QED
    BY <1>1, <2>1, <2>3
<1>4. SameBehind(x.buffer, c.buffer, c.destination + c.destination_length)
  <2> SUFFICES ASSUME NEW i \in DOMAIN x.buffer,
                      i >= c.destination + c.destination_length
               PROVE  x.buffer[i] = c.buffer[i]
    BY DEF SameBehind
  <2>1. i \in DOMAIN w.buffer /\ w.buffer[i] = c.buffer[i]
    BY <1>1 DEF WordOK, SameBehind
  <2>2. i \in Nat
    BY <2>1 DEF WordOK, IsBuffer
  <2>3. i # c.destination + w.tail
    BY <2>2 DEF WordOK
  <2> QED
    BY <1>1, <2>1, <2>3
<1> QED
  BY <1>1, <1>2, <1>3, <1>4 DEF WordOK

(* A round of the loop. *)
LEMMA CharacterCopied ==
  ASSUME NEW c, NEW n, c.source_length \in Int, c.destination \in Nat,
         c.destination_length \in Int, NEW stops, NEW w, WordOK(c, n, w)
  PROVE  WordOK(c, n, NextCharacter(c, stops, w))
<1>1. PICK x : x = NextCharacter(c, stops, w)
  OBVIOUS
<1>2. w.head \in Nat /\ w.tail \in Nat
  BY DEF WordOK
<1>3. PICK ch : ch = w.buffer[c.source + w.head]
  OBVIOUS
<1>4. \/ x = w
      \/ x = [w EXCEPT !.stop = TRUE]
      \/ /\ w.head < c.source_length /\ w.tail < c.destination_length
         /\ x = [w EXCEPT !.buffer[c.destination + w.tail] = ch,
                          !.head = @ + 1, !.tail = @ + 1]
      \/ /\ c.source_length - w.head >= 3 /\ w.tail < c.destination_length
         /\ x = ConvertChar(w, c.source, c.destination)
      \/ x = [w EXCEPT !.tail = 0, !.stop = TRUE]
  BY <1>1, <1>2, <1>3 DEF NextCharacter
<1>5. CASE x = [w EXCEPT !.stop = TRUE] \/ x = [w EXCEPT !.tail = 0, !.stop = TRUE]
  <2>1. /\ IsRecord(x, WordFields)
        /\ x.buffer = w.buffer /\ x.head = w.head /\ x.tail \in {0, w.tail}
    BY <1>5 DEF WordOK, IsRecord, WordFields
  <2> QED
    BY <1>1, <1>2, <2>1 DEF WordOK
<1>6. CASE /\ w.head < c.source_length /\ w.tail < c.destination_length
           /\ x = [w EXCEPT !.buffer[c.destination + w.tail] = ch,
                            !.head = @ + 1, !.tail = @ + 1]
  <2>1. Writes(c, w, x, ch, 1) /\ w.head + 1 <= c.source_length
    BY <1>2, <1>6 DEF Writes
  <2> QED
    BY <1>1, <1>6, <2>1, CharacterWritten
<1>7. CASE /\ c.source_length - w.head >= 3 /\ w.tail < c.destination_length
           /\ x = ConvertChar(w, c.source, c.destination)
  <2>1. PICK code : code = Decoded[<<w.buffer[c.source + w.head + 1],
                                     w.buffer[c.source + w.head + 2]>>]
    OBVIOUS
  <2>2. CASE x = [w EXCEPT !.buffer[c.destination + w.tail] = code,
                           !.head = @ + 3, !.tail = @ + 1]
    <3>1. Writes(c, w, x, code, 3) /\ w.head + 3 <= c.source_length
      BY <1>2, <1>7, <2>2 DEF Writes
    <3> QED
      BY <1>1, <1>7, <3>1, CharacterWritten
  <2>3. CASE x = [w EXCEPT !.head = @ + 3, !.stop = TRUE]
    <3>1. /\ IsRecord(x, WordFields)
          /\ x.buffer = w.buffer /\ x.head = w.head + 3 /\ x.tail = w.tail
      BY <2>3 DEF WordOK, IsRecord, WordFields
    <3> QED
      BY <1>1, <1>2, <1>7, <3>1 DEF WordOK
  <2> QED
    BY <1>7, <2>1, <2>2, <2>3 DEF ConvertChar
<1> QED
  BY <1>1, <1>4, <1>5, <1>6, <1>7

(* The loop, as a function from the number of rounds. *)
Rounds(c, stops, word) ==
  word = [k \in 0 .. c.source_length + 1 |->
            IF k = 0
            THEN [buffer |-> c.buffer, head |-> 0, tail |-> 0, stop |-> FALSE]
            ELSE NextCharacter(c, stops, word[k - 1])]

LEMMA RoundsExist ==
  ASSUME NEW c, NEW stops, c.source_length \in Int, c.source_length >= -1
  PROVE  \E word : Rounds(c, stops, word)
<1> DEFINE First == [buffer |-> c.buffer, head |-> 0, tail |-> 0, stop |-> FALSE]
           IsRun(word, m) ==
             word = [k \in 0 .. m |->
                       IF k = 0 THEN First ELSE NextCharacter(c, stops, word[k - 1])]
           Missing == {m \in Nat : ~\E word : IsRun(word, m)}
<1>1. Missing = {}
  <2> SUFFICES ASSUME Missing # {} PROVE FALSE
    OBVIOUS
  <2>1. PICK m \in Missing : \A k \in Missing : m <= k
    <3>1. Missing \subseteq Nat
      OBVIOUS
    <3> HIDE DEF Missing
    <3> QED
      BY <3>1, Least
  <2>2. CASE m = 0
    <3>1. PICK word : word = [k \in 0 .. 0 |-> First]
      OBVIOUS
    <3>2. IsRun(word, 0)
      BY <3>1
    <3> QED
      BY <2>2, <3>2
  <2>3. CASE m # 0
    <3>1. PICK j \in Nat : m = j + 1
      BY <2>3
    <3>2. PICK word : IsRun(word, j)
      <4>1. j < m
        BY <3>1
      <4> HIDE DEF IsRun
      <4> QED
        BY <2>1, <3>1, <4>1
    <3>3. PICK next : next = NextCharacter(c, stops, word[j])
      OBVIOUS
    <3>4. PICK longer : longer = [k \in 0 .. m |-> IF k = m THEN next ELSE word[k]]
      OBVIOUS
    <3>5. ASSUME NEW k \in 0 .. m
          PROVE  longer[k] = IF k = 0 THEN First
                             ELSE NextCharacter(c, stops, longer[k - 1])
      <4>1. CASE k = m
        <5>1. k - 1 = j /\ j \in 0 .. m /\ j # m /\ k # 0
          BY <3>1, <4>1
        <5>2. longer[k] = next /\ longer[k - 1] = word[j]
          BY <3>4, <4>1, <5>1
        <5> QED
          BY <3>3, <5>1, <5>2
      <4>2. CASE k # m /\ k = 0
        <5>1. word[0] = First
          BY <3>2
        <5> QED
          BY <3>4, <4>2, <5>1
      <4>3. CASE k # m /\ k # 0
        <5>1. k \in 0 .. j /\ k - 1 \in 0 .. m /\ k - 1 # m
          BY <3>1, <4>3
        <5>2. longer[k] = word[k] /\ longer[k - 1] = word[k - 1]
          BY <3>4, <4>3, <5>1
        <5>3. word[k] = NextCharacter(c, stops, word[k - 1])
          BY <3>2, <4>3, <5>1
        <5> QED
          BY <4>3, <5>2, <5>3
      <4> QED
        BY <4>1, <4>2, <4>3
    <3>6. IsRun(longer, m)
      BY <3>4, <3>5
    <3> QED
      BY <2>1, <3>6
  <2> QED
    BY <2>2, <2>3
<1>2. c.source_length + 1 \in Nat
  OBVIOUS
<1>3. PICK word : IsRun(word, c.source_length + 1)
  BY <1>1, <1>2
<1> QED
  BY <1>3 DEF Rounds

LEMMA WordCopied ==
  ASSUME NEW c, NEW n, NEW stops, c.source_length \in Int, c.source_length >= -1,
         c.destination \in Nat, c.destination_length \in Int, IsBuffer(c.buffer, n)
  PROVE  \E w : WordOK(c, n, w) /\ ParseWord(c, stops) = ParsedWord(c, w)
<1>1. PICK m \in Nat : m = c.source_length + 1
  OBVIOUS
<1>2. PICK word : /\ Rounds(c, stops, word)
                  /\ ParseWord(c, stops) = ParsedWord(c, word[c.source_length + 1])
  <2>1. \E word : Rounds(c, stops, word)
    BY RoundsExist
  <2>2. ParseWord(c, stops)
          = ParsedWord(c, (CHOOSE word : Rounds(c, stops, word))[c.source_length + 1])
    BY DEF ParseWord, Rounds
  <2> QED
    BY <2>1, <2>2
<1> DEFINE Bad == {k \in 0 .. m : ~WordOK(c, n, word[k])}
<1>3. Bad = {}
  <2> SUFFICES ASSUME Bad # {} PROVE FALSE
    OBVIOUS
  <2>1. PICK k \in Bad : \A j \in Bad : k <= j
    <3>1. Bad \subseteq Nat
      OBVIOUS
    <3> HIDE DEF Bad
    <3> QED
      BY <3>1, Least
  <2>2. CASE k = 0
    <3>1. word[0] = [buffer |-> c.buffer, head |-> 0, tail |-> 0, stop |-> FALSE]
      BY <1>1, <1>2 DEF Rounds
    <3>2. WordOK(c, n, word[0])
      BY <3>1 DEF WordOK, IsRecord, WordFields, SameBefore, SameBehind
    <3> QED
      BY <2>1, <2>2, <3>2
  <2>3. CASE k # 0
    <3>1. word[k] = NextCharacter(c, stops, word[k - 1])
      BY <1>1, <1>2, <2>1, <2>3 DEF Rounds
    <3>2. k - 1 \in 0 .. m /\ k - 1 < k
      BY <2>1, <2>3
    <3>3. WordOK(c, n, word[k - 1])
      BY <2>1, <3>2
    <3> QED
      BY <2>1, <3>1, <3>3, CharacterCopied
  <2> QED
    BY <2>2, <2>3
<1> QED
  BY <1>1, <1>2, <1>3

(* From cursor c to r a word was written, and ended. *)
Advances(c, r) ==
  /\ c.source_length >= 0 => r.source_length >= 0
  /\ r.destination > c.destination
  /\ r.buffer[r.destination - 1] = "nul"
  /\ SameBefore(r.buffer, c.buffer, c.destination)

LEMMA WordEnds ==
  ASSUME NEW n, NEW d \in Nat \ {0}, NEW e, e <= n,
         NEW c, CursorOK(c, n, d, e), NEW k \in Nat \ {0}, HasSlack(c, k),
         NEW stops, NEW r, r = ParseWord(c, stops)
  PROVE  /\ CursorOK(r, n, d, e) /\ HasSlack(r, k - 1) /\ Advances(c, r)
         /\ SameBehind(r.buffer, c.buffer, e)
<1>1. /\ c.source_length \in Int /\ c.source_length >= -1
      /\ c.destination \in Nat /\ c.destination >= d
      /\ c.destination_length \in Int /\ n \in Nat /\ e \in Int
      /\ c.destination + c.destination_length = e /\ IsBuffer(c.buffer, n)
  BY DEF CursorOK, IsBuffer
<1>2. PICK w : WordOK(c, n, w) /\ r = ParsedWord(c, w)
  BY <1>1, WordCopied
<1>3. w.head \in Nat /\ w.tail \in Nat /\ w.tail <= w.head
      /\ (w.head = 0 \/ w.head <= c.source_length) /\ IsBuffer(w.buffer, n)
      /\ SameBefore(w.buffer, c.buffer, c.destination)
      /\ SameBehind(w.buffer, c.buffer, e)
  BY <1>1, <1>2 DEF WordOK
<1>4. PICK i : i = c.destination + w.tail
  OBVIOUS
<1>5. c.destination_length >= k /\ c.destination_length - c.source_length >= k
  BY DEF HasSlack
<1>6. i \in 1 .. n /\ i >= c.destination /\ i < e
  BY <1>1, <1>3, <1>4, <1>5
<1>7. /\ IsRecord(r, CursorFields)
      /\ r.buffer = [w.buffer EXCEPT ![i] = "nul"]
      /\ r.source_length = c.source_length - w.head
      /\ r.destination = i + 1
      /\ r.destination_length = c.destination_length - (w.tail + 1)
  BY <1>2, <1>4 DEF ParsedWord, IsRecord, CursorFields
<1>8. IsBuffer(r.buffer, n)
  BY <1>3, <1>7 DEF IsBuffer
<1>9. CursorOK(r, n, d, e)
  BY <1>1, <1>3, <1>4, <1>7, <1>8 DEF CursorOK
<1>10. HasSlack(r, k - 1)
  BY <1>1, <1>3, <1>5, <1>7 DEF HasSlack
<1>11. r.buffer[r.destination - 1] = "nul"
  BY <1>3, <1>6, <1>7 DEF IsBuffer
<1>12. SameBefore(r.buffer, c.buffer, c.destination)
  <2> SUFFICES ASSUME NEW j \in DOMAIN r.buffer, j < c.destination
               PROVE  r.buffer[j] = c.buffer[j]
    BY DEF SameBefore
  <2>1. j \in DOMAIN w.buffer /\ j \in Nat
    BY <1>3, <1>8 DEF IsBuffer
  <2>2. j # i
    BY <1>1, <1>6, <2>1
  <2> QED
    BY <1>3, <1>7, <2>1, <2>2 DEF SameBefore
<1>13. SameBehind(r.buffer, c.buffer, e)
  <2> SUFFICES ASSUME NEW j \in DOMAIN r.buffer, j >= e
               PROVE  r.buffer[j] = c.buffer[j]
    BY DEF SameBehind
  <2>1. j \in DOMAIN w.buffer /\ j \in Nat
    BY <1>3, <1>8 DEF IsBuffer
  <2>2. j # i
    BY <1>1, <1>6, <2>1
  <2> QED
    BY <1>3, <1>7, <2>1, <2>2 DEF SameBehind
<1> QED
  BY <1>1, <1>3, <1>6, <1>7, <1>9, <1>10, <1>11, <1>12, <1>13 DEF Advances

-----------------------------------------------------------------------------
(***************************************************************************)
(* Second, the passes of parse.  It is given three characters more than    *)
(* the source has, a scheme takes one of them, and so does an authority    *)
(* that is read in two words; a path takes one, and each of the other      *)
(* parts brings its own: the mark in front of it is not copied.            *)
(***************************************************************************)
DataFields == {"cursor", "scheme", "scheme_size", "authority",
               "authority_size", "path", "query", "fragment"}

(* The string at p, if there is one, ends at m at the latest. *)
IsEnded(b, p, m) ==
  p # NULL => p \in 1 .. m /\ \E i \in p .. m : b[i] = "nul"

MarkedParts == {"path", "query", "fragment"}

(* first_pass_data, its cursor having come from the buffer b: its parts    *)
(* are ended, and the authority is within the destination.                 *)
DataOK(data, b, n, d, e) ==
  /\ IsRecord(data, DataFields)
  /\ CursorOK(data.cursor, n, d, e)
  /\ SameBefore(data.cursor.buffer, b, d) /\ SameBehind(data.cursor.buffer, b, e)
  /\ \A part \in MarkedParts :
       IsEnded(data.cursor.buffer, data[part], data.cursor.destination - 1)
  /\ data.authority \in Nat /\ data.authority >= d
  /\ data.authority_size \in Nat
  /\ data.authority_size > 0 =>
       IsEnded(data.cursor.buffer, data.authority + data.authority_size,
             data.cursor.destination - 1)

(* What is ended stays so when it is not written to. *)
LEMMA EndedStays ==
  ASSUME NEW b, NEW b0, NEW n, IsBuffer(b, n), NEW d \in Int, SameBefore(b, b0, d),
         NEW m \in Int, m <= n, m < d, NEW m2 \in Int, m <= m2,
         NEW p, IsEnded(b0, p, m)
  PROVE  IsEnded(b, p, m2)
<1>1. CASE p = NULL
  BY <1>1 DEF IsEnded
<1>2. CASE p # NULL
  <2>1. PICK i \in p .. m : b0[i] = "nul"
    BY <1>2 DEF IsEnded
  <2>2. p \in 1 .. m
    BY <1>2 DEF IsEnded
  <2>3. i \in DOMAIN b /\ i < d
    BY <2>1, <2>2 DEF IsBuffer
  <2>4. b[i] = "nul"
    BY <2>1, <2>3 DEF SameBefore
  <2>5. p \in 1 .. m2 /\ i \in p .. m2
    BY <2>1, <2>2
  <2> QED
    BY <2>4, <2>5 DEF IsEnded
<1> QED
  BY <1>1, <1>2

(* A string that begins before another one ends where that one ends. *)
LEMMA EndedBefore ==
  ASSUME NEW b, NEW m \in Int, NEW p \in Nat, IsEnded(b, p, m),
         NEW q \in 1 .. p
  PROVE  IsEnded(b, q, m)
<1>1. p # NULL
  BY DEF NULL
<1>2. PICK i \in p .. m : b[i] = "nul"
  BY <1>1 DEF IsEnded
<1>3. i \in q .. m /\ q \in 1 .. m
  BY <1>2
<1> QED
  BY <1>2, <1>3 DEF IsEnded

LEMMA ConsumeKeeps ==
  ASSUME NEW n, NEW d \in Nat, NEW e \in Int,
         NEW c, CursorOK(c, n, d, e), c.source_length >= 0,
         NEW r, r = ConsumeOneCharacter(c)
  PROVE  /\ CursorOK(r, n, d, e)
         /\ r.buffer = c.buffer /\ r.destination = c.destination
         /\ r.source_length = c.source_length - 1
         /\ r.destination_length = c.destination_length
<1>1. IsRecord(c, CursorFields)
  BY DEF CursorOK
<1>2. /\ IsRecord(r, CursorFields)
      /\ r.buffer = c.buffer /\ r.destination = c.destination
      /\ r.source_length = c.source_length - 1
      /\ r.destination_length = c.destination_length
  BY <1>1 DEF IsRecord, CursorFields, ConsumeOneCharacter
<1> QED
  BY <1>2 DEF CursorOK

(* A part of the uri that has a mark of its own. *)
LEMMA TokenEnds ==
  ASSUME NEW n, NEW d \in Nat \ {0}, NEW e \in Int, e <= n,
         NEW b, NEW data, DataOK(data, b, n, d, e),
         NEW part \in MarkedParts, NEW start, NEW skip \in BOOLEAN, NEW stops,
         HasSlack(data.cursor, IF skip THEN 0 ELSE 1),
         NEW r, r = Token(data, part, start, skip, stops)
  PROVE  DataOK(r, b, n, d, e) /\ HasSlack(r.cursor, 0)
<1>1. PICK c : c = data.cursor
  OBVIOUS
<1>2. /\ CursorOK(c, n, d, e)
      /\ c.source_length \in Int /\ c.destination_length \in Int
      /\ c.destination \in Nat /\ c.destination >= d
      /\ IsBuffer(c.buffer, n) /\ n \in Nat
      /\ c.destination + c.destination_length = e
  BY <1>1 DEF DataOK, CursorOK, IsBuffer
<1>3. c.destination_length >= 0 /\ c.destination_length - c.source_length >= 0
  BY <1>1, <1>2 DEF HasSlack
<1>4. CASE ~IsPresent(c, start)
  BY <1>1, <1>3, <1>4 DEF Token, HasSlack
<1>5. CASE IsPresent(c, start)
  <2>1. c.source_length > 0 /\ c.destination_length > 0
    BY <1>5 DEF IsPresent
  <2>2. PICK f : f = IF skip THEN ConsumeOneCharacter(c) ELSE c
    OBVIOUS
  <2>3. /\ CursorOK(f, n, d, e) /\ HasSlack(f, 1)
        /\ f.buffer = c.buffer /\ f.destination = c.destination
    <3>1. CASE skip
      <4>1. f = ConsumeOneCharacter(c)
        BY <2>2, <3>1
      <4>2. /\ CursorOK(f, n, d, e)
            /\ f.buffer = c.buffer /\ f.destination = c.destination
            /\ f.source_length = c.source_length - 1
            /\ f.destination_length = c.destination_length
        BY <1>2, <2>1, <4>1, ConsumeKeeps
      <4> QED
        BY <1>2, <1>3, <2>1, <4>2 DEF HasSlack
    <3>2. CASE ~skip
      BY <1>1, <1>2, <2>2, <3>2
    <3> QED
      BY <3>1, <3>2
  <2>4. PICK w : w = ParseWord(f, stops)
    OBVIOUS
  <2>5. /\ CursorOK(w, n, d, e) /\ HasSlack(w, 0) /\ Advances(f, w)
        /\ SameBehind(w.buffer, f.buffer, e)
    <3>1. 1 \in Nat \ {0}
      OBVIOUS
    <3>2. HasSlack(w, 1 - 1)
      BY <2>3, <2>4, <3>1, WordEnds
    <3> QED
      BY <2>3, <2>4, <3>1, <3>2, WordEnds
  <2>6. /\ w.destination > c.destination /\ w.destination \in Nat
        /\ w.buffer[w.destination - 1] = "nul"
        /\ SameBefore(w.buffer, c.buffer, c.destination)
        /\ SameBehind(w.buffer, c.buffer, e)
        /\ IsBuffer(w.buffer, n)
    BY <2>3, <2>5 DEF Advances, CursorOK
  <2>7. r = [data EXCEPT ![part] = c.destination, !.cursor = w]
    BY <1>1, <1>5, <2>2, <2>4 DEF Token
  <2>8. /\ IsRecord(r, DataFields) /\ r.cursor = w
        /\ r.authority = data.authority /\ r.authority_size = data.authority_size
        /\ \A other \in MarkedParts : r[other] = IF other = part THEN c.destination
                                            ELSE data[other]
    BY <2>7 DEF DataOK, IsRecord, DataFields, MarkedParts
  <2>9. SameBefore(w.buffer, b, d)
    <3> SUFFICES ASSUME NEW i \in DOMAIN w.buffer, i < d
                 PROVE  w.buffer[i] = b[i]
      BY DEF SameBefore
    <3>1. i < c.destination /\ i \in DOMAIN c.buffer
      BY <1>2, <2>6 DEF IsBuffer
    <3>2. w.buffer[i] = c.buffer[i]
      BY <2>6, <3>1 DEF SameBefore
    <3>3. c.buffer[i] = b[i]
      BY <1>1, <3>1 DEF DataOK, SameBefore
    <3> QED
      BY <3>2, <3>3
  <2>10. ASSUME NEW p, IsEnded(c.buffer, p, c.destination - 1)
         PROVE  IsEnded(w.buffer, p, w.destination - 1)
    <3>1. c.destination - 1 <= n /\ c.destination - 1 < c.destination
      BY <1>2, <1>3
    <3>2. c.destination - 1 <= w.destination - 1
          /\ c.destination - 1 \in Int /\ w.destination - 1 \in Int
      BY <1>2, <2>6
    <3> QED
      BY <1>2, <2>6, <2>10, <3>1, <3>2, EndedStays
  <2>11. IsEnded(w.buffer, c.destination, w.destination - 1)
    <3>1. c.destination \in 1 .. w.destination - 1
          /\ w.destination - 1 \in c.destination .. w.destination - 1
      BY <1>2, <2>6
    <3> QED
      BY <2>6, <3>1 DEF IsEnded
  <2>12. \A other \in MarkedParts : IsEnded(w.buffer, r[other], w.destination - 1)
    BY <1>1, <2>8, <2>10, <2>11 DEF DataOK
  <2>13. r.authority_size > 0 =>
           IsEnded(w.buffer, r.authority + r.authority_size, w.destination - 1)
    BY <1>1, <2>8, <2>10 DEF DataOK
  <2>14. SameBehind(w.buffer, b, e)
    <3>1. DOMAIN w.buffer = DOMAIN c.buffer
      BY <1>2, <2>6 DEF IsBuffer
    <3> QED
      BY <1>1, <2>6, <3>1 DEF DataOK, SameBehind
  <2> QED
    BY <2>5, <2>8, <2>9, <2>12, <2>13, <2>14 DEF DataOK
<1> QED
  BY <1>4, <1>5

(* The cursor behind the authority's first word, or behind the scheme, of  *)
(* which so_far characters are the authority's.                            *)
Follows(data, c, so_far) ==
  /\ so_far \in Nat
  /\ \/ /\ data.authority + so_far = c.destination
        /\ so_far = 0 \/ Current(c) \notin PartStarts
     \/ /\ data.authority + so_far = c.destination - 1
        /\ c.buffer[c.destination - 1] = "nul"

(* What first_pass_data is before the parts with a mark are read. *)
NoParts(data, d) ==
  /\ IsRecord(data, DataFields)
  /\ \A part \in MarkedParts : data[part] = NULL
  /\ data.authority \in Nat /\ data.authority >= d

LEMMA AuthorityEnds ==
  ASSUME NEW n, NEW d \in Nat \ {0}, NEW e \in Int, e <= n,
         NEW b, NEW data, NoParts(data, d),
         NEW c, CursorOK(c, n, d, e), HasSlack(c, 2),
         SameBefore(c.buffer, b, d), SameBehind(c.buffer, b, e),
         NEW so_far, Follows(data, c, so_far),
         NEW r, r = RestOfAuthority(data, c, so_far)
  PROVE  DataOK(r, b, n, d, e) /\ HasSlack(r.cursor, 1)
<1>1. /\ c.source_length \in Int /\ c.destination_length \in Int
      /\ c.destination \in Nat /\ c.destination >= d
      /\ IsBuffer(c.buffer, n) /\ n \in Nat
      /\ c.destination + c.destination_length = e
      /\ data.authority \in Nat /\ data.authority >= d /\ so_far \in Nat
  BY DEF CursorOK, IsBuffer, NoParts, Follows
<1>2. CASE Current(c) \in PartStarts
  <2>1. r = [data EXCEPT !.authority_size = so_far, !.cursor = c]
    BY <1>2 DEF RestOfAuthority
  <2>2. /\ IsRecord(r, DataFields) /\ r.cursor = c
        /\ r.authority = data.authority /\ r.authority_size = so_far
        /\ \A part \in MarkedParts : r[part] = NULL
    BY <2>1 DEF NoParts, IsRecord, DataFields, MarkedParts
  <2>3. HasSlack(c, 1)
    BY <1>1 DEF HasSlack
  <2>4. so_far > 0 => IsEnded(c.buffer, data.authority + so_far, c.destination - 1)
    <3> SUFFICES ASSUME so_far > 0
                 PROVE  IsEnded(c.buffer, data.authority + so_far, c.destination - 1)
      OBVIOUS
    <3>1. /\ data.authority + so_far = c.destination - 1
          /\ c.buffer[c.destination - 1] = "nul"
      BY <1>2 DEF Follows
    <3>2. c.destination - 1 \in 1 .. c.destination - 1
          /\ c.destination - 1 \in c.destination - 1 .. c.destination - 1
      BY <1>1, <3>1
    <3> QED
      BY <3>1, <3>2 DEF IsEnded
  <2> QED
    BY <1>1, <2>2, <2>3, <2>4 DEF DataOK, IsEnded
<1>3. CASE Current(c) \notin PartStarts
  <2>1. PICK w : w = ParseWord(c, PartStarts \cup Ends)
    OBVIOUS
  <2>2. /\ CursorOK(w, n, d, e) /\ HasSlack(w, 1) /\ Advances(c, w)
        /\ SameBehind(w.buffer, c.buffer, e)
    <3>1. /\ CursorOK(w, n, d, e) /\ HasSlack(w, 2 - 1) /\ Advances(c, w)
          /\ SameBehind(w.buffer, c.buffer, e)
      <4>1. 2 \in Nat \ {0}
        OBVIOUS
      <4> QED
        BY <2>1, <4>1, WordEnds
    <3> QED
      BY <3>1
  <2>3. /\ w.destination > c.destination /\ w.destination \in Nat
        /\ w.buffer[w.destination - 1] = "nul"
        /\ SameBefore(w.buffer, c.buffer, c.destination)
        /\ IsBuffer(w.buffer, n)
    BY <2>2 DEF Advances, CursorOK
  <2>4. PICK size : size = so_far + LengthOfWord(c, w)
    OBVIOUS
  <2>5. /\ size \in Nat
        /\ data.authority + size \in 1 .. w.destination - 1
    BY <1>1, <2>3, <2>4 DEF LengthOfWord, Follows
  <2>6. r = [data EXCEPT !.authority_size = size, !.cursor = w]
    BY <1>3, <2>1, <2>4 DEF RestOfAuthority, WithAuthority
  <2>7. /\ IsRecord(r, DataFields) /\ r.cursor = w
        /\ r.authority = data.authority /\ r.authority_size = size
        /\ \A part \in MarkedParts : r[part] = NULL
    BY <2>6 DEF NoParts, IsRecord, DataFields, MarkedParts
  <2>8. IsEnded(w.buffer, data.authority + size, w.destination - 1)
    <3>1. w.destination - 1 \in data.authority + size .. w.destination - 1
      BY <2>3, <2>5
    <3> QED
      BY <2>3, <2>5, <3>1 DEF IsEnded
  <2>9. SameBefore(w.buffer, b, d)
    <3> SUFFICES ASSUME NEW i \in DOMAIN w.buffer, i < d
                 PROVE  w.buffer[i] = b[i]
      BY DEF SameBefore
    <3>1. i < c.destination /\ i \in DOMAIN c.buffer
      BY <1>1, <2>3 DEF IsBuffer
    <3> QED
      BY <2>3, <3>1 DEF SameBefore
  <2>10. SameBehind(w.buffer, b, e)
    <3>1. DOMAIN w.buffer = DOMAIN c.buffer
      BY <1>1, <2>3 DEF IsBuffer
    <3> QED
      BY <2>2, <3>1 DEF SameBehind
  <2> QED
    BY <1>1, <2>2, <2>5, <2>7, <2>8, <2>9, <2>10 DEF DataOK, IsEnded
<1> QED
  BY <1>2, <1>3

LEMMA SlashesSkipped ==
  ASSUME NEW n, NEW d \in Nat, NEW e \in Int, NEW c, CursorOK(c, n, d, e),
         NEW k \in Nat, HasSlack(c, k), NEW r, r = SkipOptionalSlashes(c)
  PROVE  /\ CursorOK(r, n, d, e) /\ HasSlack(r, k)
         /\ r.buffer = c.buffer /\ r.destination = c.destination
<1>1. CASE r = c
  BY <1>1
<1>2. CASE r # c
  <2>1. /\ c.source_length >= 2
        /\ r = ConsumeOneCharacter(ConsumeOneCharacter(c))
    BY <1>2 DEF SkipOptionalSlashes
  <2>2. PICK f : f = ConsumeOneCharacter(c)
    OBVIOUS
  <2>3. c.source_length \in Int /\ c.destination_length \in Int
    BY DEF CursorOK
  <2>4. /\ CursorOK(f, n, d, e)
        /\ f.buffer = c.buffer /\ f.destination = c.destination
        /\ f.source_length = c.source_length - 1
        /\ f.destination_length = c.destination_length
    BY <2>1, <2>2, <2>3, ConsumeKeeps
  <2>5. r = ConsumeOneCharacter(f) /\ f.source_length >= 0
    BY <2>1, <2>2, <2>3, <2>4
  <2>6. /\ CursorOK(r, n, d, e)
        /\ r.buffer = f.buffer /\ r.destination = f.destination
        /\ r.source_length = f.source_length - 1
        /\ r.destination_length = f.destination_length
    BY <2>4, <2>5, ConsumeKeeps
  <2> QED
    BY <2>3, <2>4, <2>6 DEF HasSlack
<1> QED
  BY <1>1, <1>2

(* The scheme and the authority, or the authority only. *)
LEMMA SchemeAndAuthorityEnd ==
  ASSUME NEW n, NEW d \in Nat \ {0}, NEW e \in Int, e <= n,
         NEW c, CursorOK(c, n, d, e), HasSlack(c, 3), c.source_length >= 0,
         NEW skip \in BOOLEAN, NEW r, r = SchemeAndAuthority(NewData(c), skip)
  PROVE  DataOK(r, c.buffer, n, d, e) /\ HasSlack(r.cursor, 1)
<1>1. /\ c.source_length \in Int /\ c.destination_length \in Int
      /\ c.destination \in Nat /\ c.destination >= d
      /\ IsBuffer(c.buffer, n) /\ n \in Nat
      /\ c.destination + c.destination_length = e
  BY DEF CursorOK, IsBuffer
<1>2. PICK data : data = NewData(c)
  OBVIOUS
<1>3. /\ NoParts(data, d) /\ data.cursor = c
      /\ data.authority = c.destination /\ data.authority_size = 0
  BY <1>1, <1>2 DEF NewData, NoParts, IsRecord, DataFields, MarkedParts
<1>4. CASE Current(c) \in PartStarts
  <2>1. r = data
    BY <1>2, <1>3, <1>4 DEF SchemeAndAuthority
  <2>2. /\ HasSlack(c, 1) /\ SameBefore(c.buffer, c.buffer, d)
        /\ SameBehind(c.buffer, c.buffer, e)
    BY <1>1 DEF HasSlack, SameBefore, SameBehind
  <2> QED
    BY <1>1, <1>3, <2>1, <2>2 DEF DataOK, NoParts, IsEnded
<1>5. CASE Current(c) \notin PartStarts
  <2>1. PICK w : w = ParseWord(c, {":"} \cup PartStarts \cup Ends)
    OBVIOUS
  <2>2. /\ CursorOK(w, n, d, e) /\ HasSlack(w, 2) /\ Advances(c, w)
        /\ SameBehind(w.buffer, c.buffer, e)
    <3>1. /\ CursorOK(w, n, d, e) /\ HasSlack(w, 3 - 1) /\ Advances(c, w)
          /\ SameBehind(w.buffer, c.buffer, e)
      <4>1. 3 \in Nat \ {0}
        OBVIOUS
      <4> QED
        BY <2>1, <4>1, WordEnds
    <3> QED
      BY <3>1
  <2>3. /\ w.destination > c.destination /\ w.destination \in Nat
        /\ w.buffer[w.destination - 1] = "nul"
        /\ IsBuffer(w.buffer, n)
        /\ w.source_length \in Int /\ w.source_length >= 0
        /\ w.destination_length \in Int
    BY <2>2 DEF Advances, CursorOK
  <2>4. SameBefore(w.buffer, c.buffer, d)
    BY <1>1, <2>2, <2>3 DEF Advances, SameBefore, IsBuffer
  <2>5. PICK so_far : so_far = LengthOfWord(c, w)
    OBVIOUS
  <2>6. so_far \in Nat /\ c.destination + so_far = w.destination - 1
    BY <1>1, <2>3, <2>5 DEF LengthOfWord
  <2>7. r = WithFirstWord(data, w, skip)
    BY <1>2, <1>3, <1>5, <2>1 DEF SchemeAndAuthority
  <2>8. CASE ~skip /\ Current(w) = ":"
    <3>1. PICK scheme : scheme = [data EXCEPT !.scheme_size = LengthOfWord(c, w),
                                              !.authority = w.destination]
      OBVIOUS
    <3>2. PICK f : f = SkipOptionalSlashes(ConsumeOneCharacter(w))
      OBVIOUS
    <3>3. r = RestOfAuthority(scheme, f, 0)
      BY <1>3, <2>7, <2>8, <3>1, <3>2 DEF WithFirstWord
    <3>4. /\ IsRecord(scheme, DataFields)
          /\ scheme.authority = w.destination
          /\ \A part \in MarkedParts : scheme[part] = data[part]
      BY <1>3, <3>1 DEF NoParts, IsRecord, DataFields, MarkedParts
    <3>5. NoParts(scheme, d)
      BY <1>1, <1>3, <2>3, <3>4 DEF NoParts
    <3>6. PICK g : g = ConsumeOneCharacter(w)
      OBVIOUS
    <3>7. /\ CursorOK(g, n, d, e) /\ HasSlack(g, 2)
          /\ g.buffer = w.buffer /\ g.destination = w.destination
      <4>1. /\ CursorOK(g, n, d, e)
            /\ g.buffer = w.buffer /\ g.destination = w.destination
            /\ g.source_length = w.source_length - 1
            /\ g.destination_length = w.destination_length
        <5>1. CursorOK(w, n, d, e) /\ w.source_length >= 0 /\ w.source_length \in Int
          BY <2>2, <2>3
        <5> QED
          BY <3>6, <5>1, ConsumeKeeps
      <4> QED
        BY <2>2, <2>3, <4>1 DEF HasSlack
    <3>8. /\ CursorOK(f, n, d, e) /\ HasSlack(f, 2)
          /\ f.buffer = w.buffer /\ f.destination = w.destination
      BY <3>2, <3>6, <3>7, SlashesSkipped
    <3>9. Follows(scheme, f, 0)
      BY <2>3, <3>4, <3>8 DEF Follows
    <3> QED
      BY <2>2, <2>4, <3>3, <3>5, <3>8, <3>9, AuthorityEnds
  <2>9. CASE skip /\ Current(w) = ":"
    <3>1. PICK f : f = UnconsumeOneCharacter(w)
      OBVIOUS
    <3>2. r = RestOfAuthority(data, f, so_far)
      BY <1>3, <2>5, <2>7, <2>9, <3>1 DEF WithFirstWord
    <3>3. /\ IsRecord(f, CursorFields)
          /\ f.buffer = w.buffer /\ f.source = w.source
          /\ f.source_length = w.source_length
          /\ f.destination = w.destination - 1
          /\ f.destination_length = w.destination_length + 1
      BY <2>2, <3>1 DEF UnconsumeOneCharacter, CursorOK, IsRecord, CursorFields
    <3>4. CursorOK(f, n, d, e)
      BY <1>1, <2>2, <2>3, <3>3 DEF CursorOK
    <3>5. HasSlack(f, 2)
      BY <2>2, <2>3, <3>3 DEF HasSlack
    <3>6. Current(f) \notin PartStarts
      BY <2>9, <3>3 DEF Current, PartStarts
    <3>7. Follows(data, f, so_far)
      BY <1>3, <2>6, <3>3, <3>6 DEF Follows
    <3> QED
      BY <1>3, <2>2, <2>4, <3>2, <3>3, <3>4, <3>5, <3>7, AuthorityEnds
  <2>10. CASE Current(w) # ":"
    <3>1. r = RestOfAuthority(data, w, so_far)
      BY <1>3, <2>5, <2>7, <2>10 DEF WithFirstWord
    <3>2. Follows(data, w, so_far)
      BY <1>3, <2>3, <2>6 DEF Follows
    <3> QED
      BY <1>3, <2>2, <2>4, <3>1, <3>2, AuthorityEnds
  <2> QED
    BY <2>8, <2>9, <2>10
<1> QED
  BY <1>4, <1>5

LEMMA FirstPassEnds ==
  ASSUME NEW n, NEW d \in Nat \ {0}, NEW e \in Int, e <= n,
         NEW c, CursorOK(c, n, d, e), HasSlack(c, 3), c.source_length >= 0,
         NEW skip \in BOOLEAN, NEW r, r = FirstPass(c, skip)
  PROVE  DataOK(r, c.buffer, n, d, e) /\ HasSlack(r.cursor, 0)
<1>1. PICK authority : authority = SchemeAndAuthority(NewData(c), skip)
  OBVIOUS
<1>2. DataOK(authority, c.buffer, n, d, e) /\ HasSlack(authority.cursor, 1)
  BY <1>1, SchemeAndAuthorityEnd
<1>3. PICK first : first = Token(authority, "path", "/", FALSE, {"?", "#"} \cup Ends)
  OBVIOUS
<1>4. DataOK(first, c.buffer, n, d, e) /\ HasSlack(first.cursor, 0)
  <2>1. "path" \in MarkedParts /\ HasSlack(authority.cursor, IF FALSE THEN 0 ELSE 1)
    BY <1>2 DEF MarkedParts
  <2> QED
    BY <1>2, <1>3, <2>1, TokenEnds
<1>5. PICK second : second = Token(first, "query", "?", TRUE, {"#"} \cup Ends)
  OBVIOUS
<1>6. DataOK(second, c.buffer, n, d, e) /\ HasSlack(second.cursor, 0)
  <2>1. "query" \in MarkedParts /\ HasSlack(first.cursor, IF TRUE THEN 0 ELSE 1)
    BY <1>4 DEF MarkedParts
  <2> QED
    BY <1>4, <1>5, <2>1, TokenEnds
<1>7. r = Token(second, "fragment", "#", TRUE, Ends)
  BY <1>1, <1>3, <1>5 DEF FirstPass
<1>8. "fragment" \in MarkedParts /\ HasSlack(second.cursor, IF TRUE THEN 0 ELSE 1)
  BY <1>6 DEF MarkedParts
<1> QED
  BY <1>6, <1>7, <1>8, TokenEnds

-----------------------------------------------------------------------------
UriFields == {"scheme", "userinfo", "host", "port", "path", "query", "fragment"}

UriStrings == {"userinfo", "host", "path", "query", "fragment"}

(* Every null character of b0 is in b as well. *)
HasNullsOf(b, b0, n) == \A i \in 1 .. n : b0[i] = "nul" => b[i] = "nul"

(* What the second pass has made of the buffer b0 and of the uri. *)
ParsedOK(parsed, b0, n, d, m) ==
  /\ IsRecord(parsed, {"uri", "buffer", "parsed"})
  /\ IsRecord(parsed.uri, UriFields)
  /\ IsBuffer(parsed.buffer, n)
  /\ SameBefore(parsed.buffer, b0, d) /\ SameBehind(parsed.buffer, b0, m + 1)
  /\ HasNullsOf(parsed.buffer, b0, n)
  /\ \A part \in UriStrings : IsEnded(b0, parsed.uri[part], m)

(* From parsed to r nothing became of the parts and the buffer. *)
Alike(parsed, r) ==
  /\ IsRecord(r, {"uri", "buffer", "parsed"}) /\ r.buffer = parsed.buffer
  /\ IsRecord(r.uri, UriFields)
  /\ \A part \in UriStrings : r.uri[part] = parsed.uri[part]

LEMMA AlikeKeeps ==
  ASSUME NEW b0, NEW n, NEW d, NEW m, NEW parsed, ParsedOK(parsed, b0, n, d, m),
         NEW r, Alike(parsed, r)
  PROVE  ParsedOK(r, b0, n, d, m)
BY DEF Alike, ParsedOK

(* A null character is put behind what the buffer has before d, and not    *)
(* behind m.                                                               *)
LEMMA NullAdded ==
  ASSUME NEW b0, NEW n \in Nat, NEW d \in Nat, NEW m \in Int, m <= n,
         NEW b, IsBuffer(b, n),
         SameBefore(b, b0, d), SameBehind(b, b0, m + 1), HasNullsOf(b, b0, n),
         NEW i, i = NULL \/ i \in d .. m, NEW r, r = Terminated(b, i)
  PROVE  /\ IsBuffer(r, n) /\ SameBefore(r, b0, d)
         /\ SameBehind(r, b0, m + 1) /\ HasNullsOf(r, b0, n)
<1>1. CASE i = NULL
  BY <1>1 DEF Terminated
<1>2. CASE i # NULL
  <2>1. r = [b EXCEPT ![i] = "nul"] /\ i \in d .. m
    BY <1>2 DEF Terminated
  <2>2. IsBuffer(r, n)
    BY <2>1 DEF IsBuffer
  <2>3. \A j \in 1 .. n : r[j] = IF j = i THEN "nul" ELSE b[j]
    BY <2>1 DEF IsBuffer
  <2>4. DOMAIN b = 1 .. n /\ DOMAIN r = 1 .. n
    BY <2>2 DEF IsBuffer
  <2>5. SameBefore(r, b0, d)
    BY <2>1, <2>3, <2>4 DEF SameBefore
  <2>6. SameBehind(r, b0, m + 1)
    BY <2>1, <2>3, <2>4 DEF SameBehind
  <2> QED
    BY <2>2, <2>3, <2>5, <2>6 DEF HasNullsOf
<1> QED
  BY <1>1, <1>2

LEMMA FirstOfRange ==
  ASSUME NEW b, NEW begin \in Nat, NEW size \in Nat, NEW ch,
         NEW i, i = FirstOf(b, begin, size, ch)
  PROVE  i = NULL \/ i \in begin .. begin + size - 1
<1>1. PICK found : found = {j \in begin .. begin + size - 1 : b[j] = ch}
  OBVIOUS
<1>2. CASE found = {}
  BY <1>1, <1>2 DEF FirstOf
<1>3. CASE found # {}
  <2>1. found \subseteq Nat
    BY <1>1
  <2>2. \E j \in found : \A k \in found : j <= k
    BY <1>3, <2>1, Least
  <2>3. i = CHOOSE j \in found : \A k \in found : j <= k
    BY <1>1, <1>3 DEF FirstOf
  <2> QED
    BY <1>1, <2>2, <2>3
<1> QED
  BY <1>2, <1>3

LEMMA SchemeParsed ==
  ASSUME NEW b0, NEW n, NEW d, NEW m, NEW parsed, ParsedOK(parsed, b0, n, d, m),
         NEW text, NEW r, r = ParseScheme(parsed, text)
  PROVE  ParsedOK(r, b0, n, d, m)
<1>1. CASE r = parsed
  BY <1>1
<1>2. CASE r = [parsed EXCEPT !.uri.scheme = text, !.uri.port = Schemes[text]]
  <2>1. PICK port : port = Schemes[text]
    OBVIOUS
  <2>2. PICK uri : uri = [parsed.uri EXCEPT !.scheme = text, !.port = port]
    OBVIOUS
  <2>3. r = [parsed EXCEPT !.uri = uri]
    BY <1>2, <2>1, <2>2 DEF ParsedOK, IsRecord, UriFields
  <2>4. /\ IsRecord(uri, UriFields)
        /\ \A part \in UriStrings : uri[part] = parsed.uri[part]
    BY <2>2 DEF ParsedOK, IsRecord, UriFields, UriStrings
  <2>5. Alike(parsed, r)
    BY <2>3, <2>4 DEF Alike, ParsedOK, IsRecord
  <2> QED
    BY <2>5, AlikeKeeps
<1>3. CASE r = [parsed EXCEPT !.parsed = parsed.uri.scheme # UNKNOWN]
  <2>1. Alike(parsed, r)
    BY <1>3 DEF Alike, ParsedOK, IsRecord
  <2> QED
    BY <2>1, AlikeKeeps
<1> QED
  BY <1>1, <1>2, <1>3 DEF ParseScheme

LEMMA PortParsed ==
  ASSUME NEW b0, NEW n, NEW d, NEW m, NEW parsed, ParsedOK(parsed, b0, n, d, m),
         NEW text, NEW number, NEW r, r = ParsePort(parsed, text, number)
  PROVE  ParsedOK(r, b0, n, d, m)
<1>1. CASE r = parsed
  BY <1>1
<1>2. CASE r = [parsed EXCEPT !.uri.port = number.result]
  <2>1. PICK port : port = number.result
    OBVIOUS
  <2>2. r = [parsed EXCEPT !.uri = [parsed.uri EXCEPT !.port = port]]
    BY <1>2, <2>1 DEF ParsedOK, IsRecord, UriFields
  <2>3. Alike(parsed, r)
    BY <2>2 DEF Alike, ParsedOK, IsRecord, UriFields, UriStrings
  <2> QED
    BY <2>3, AlikeKeeps
<1>3. CASE r = [parsed EXCEPT !.parsed = FALSE]
  <2>1. Alike(parsed, r)
    BY <1>3 DEF Alike, ParsedOK, IsRecord
  <2> QED
    BY <2>1, AlikeKeeps
<1> QED
  BY <1>1, <1>2, <1>3 DEF ParsePort

(* From parsed to r the string at p became a part, and a null character    *)
(* was put at position i.                                                  *)
Puts(parsed, r, part, p, i) ==
  r = [parsed EXCEPT !.uri[part] = p, !.buffer = Terminated(@, i)]

LEMMA PartPut ==
  ASSUME NEW b0, NEW n \in Nat, NEW d \in Nat, NEW m \in Int, m <= n,
         NEW parsed, ParsedOK(parsed, b0, n, d, m),
         NEW part \in UriStrings, NEW p, IsEnded(b0, p, m),
         NEW i, i = NULL \/ i \in d .. m, NEW r, Puts(parsed, r, part, p, i)
  PROVE  ParsedOK(r, b0, n, d, m)
<1>1. PICK b : b = Terminated(parsed.buffer, i)
  OBVIOUS
<1>2. /\ IsBuffer(b, n) /\ SameBefore(b, b0, d)
      /\ SameBehind(b, b0, m + 1) /\ HasNullsOf(b, b0, n)
  BY <1>1, NullAdded DEF ParsedOK
<1>3. PICK uri : uri = [parsed.uri EXCEPT ![part] = p]
  OBVIOUS
<1>4. r = [parsed EXCEPT !.uri = uri, !.buffer = b]
  BY <1>1, <1>3 DEF Puts, ParsedOK, IsRecord, UriFields
<1>5. /\ IsRecord(r, {"uri", "buffer", "parsed"})
      /\ r.uri = uri /\ r.buffer = b
  BY <1>4 DEF ParsedOK, IsRecord
<1>6. /\ IsRecord(uri, UriFields)
      /\ \A other \in UriStrings :
           uri[other] = IF other = part THEN p ELSE parsed.uri[other]
  BY <1>3 DEF ParsedOK, IsRecord, UriFields, UriStrings
<1>7. \A other \in UriStrings : IsEnded(b0, uri[other], m)
  BY <1>6 DEF ParsedOK
<1> QED
  BY <1>2, <1>5, <1>6, <1>7 DEF ParsedOK

LEMMA HostParsed ==
  ASSUME NEW b0, NEW n \in Nat, NEW d \in Nat, NEW m \in Int, m <= n,
         NEW parsed, ParsedOK(parsed, b0, n, d, m),
         NEW p, IsEnded(b0, p, m), NEW size, NEW i, i = NULL \/ i \in d .. m,
         NEW r, r = ParseHost(parsed, p, size, i)
  PROVE  ParsedOK(r, b0, n, d, m)
<1>1. PICK port : port = IF i = NULL THEN <<>>
                         ELSE SubSeq(parsed.buffer, i + 1, p + size - 1)
  OBVIOUS
<1>2. PICK f : f = [parsed EXCEPT !.uri.host = p, !.buffer = Terminated(@, i)]
  OBVIOUS
<1>3. r = ParsePort(f, port, ParseUnsignedInteger(port))
  BY <1>1, <1>2 DEF ParseHost
<1>4. "host" \in UriStrings /\ Puts(parsed, f, "host", p, i)
  BY <1>2 DEF UriStrings, Puts
<1>5. ParsedOK(f, b0, n, d, m)
  BY <1>4, PartPut
<1> QED
  BY <1>3, <1>5, PortParsed

LEMMA AuthorityParsed ==
  ASSUME NEW b0, NEW n \in Nat, NEW d \in Nat \ {0}, NEW m \in Int, m <= n,
         NEW parsed, ParsedOK(parsed, b0, n, d, m),
         NEW begin \in Nat, begin >= d, NEW size \in Nat,
         size > 0 => IsEnded(b0, begin + size, m),
         NEW r, r = ParseAuthority(parsed, begin, size)
  PROVE  ParsedOK(r, b0, n, d, m)
<1>1. CASE size = 0
  BY <1>1 DEF ParseAuthority
<1>2. CASE size > 0
  <2>1. PICK b : b = parsed.buffer
    OBVIOUS
  <2>2. begin + size \in Nat /\ IsEnded(b0, begin + size, m) /\ begin + size <= m
    BY <1>2 DEF IsEnded, NULL
  <2>3. ASSUME NEW p \in begin .. begin + size
        PROVE  IsEnded(b0, p, m)
    <3>1. p \in 1 .. begin + size
      OBVIOUS
    <3> QED
      BY <2>2, <3>1, EndedBefore
  <2>4. PICK i : i = FirstOf(b, begin, size, "@")
    OBVIOUS
  <2>5. i = NULL \/ i \in begin .. begin + size - 1
    BY <2>4, FirstOfRange
  <2>6. r = ParseUserinfo(parsed, begin, size, i)
    BY <1>2, <2>1, <2>4 DEF ParseAuthority
  <2>7. IsEnded(b0, begin, m)
    BY <2>3
  <2>8. CASE i = NULL
    <3>1. PICK j : j = FirstOf(b, begin, size, ":")
      OBVIOUS
    <3>2. j = NULL \/ j \in begin .. begin + size - 1
      BY <3>1, FirstOfRange
    <3>3. j = NULL \/ j \in d .. m
      BY <2>2, <3>2
    <3>4. r = ParseHost(parsed, begin, size, j)
      BY <2>1, <2>6, <2>8, <3>1 DEF ParseUserinfo
    <3> QED
      BY <2>7, <3>3, <3>4, HostParsed
  <2>9. CASE i # NULL
    <3>1. i \in begin .. begin + size - 1 /\ i \in d .. m
      BY <2>2, <2>5, <2>9
    <3>2. PICK rest \in Nat : rest = begin + size - (i + 1)
      BY <3>1
    <3>3. PICK j : j = FirstOf(b, i + 1, rest, ":")
      OBVIOUS
    <3>4. i + 1 \in Nat /\ i + 1 \in begin .. begin + size
      BY <3>1
    <3>5. j = NULL \/ j \in i + 1 .. i + 1 + rest - 1
      BY <3>3, <3>4, FirstOfRange
    <3>6. j = NULL \/ j \in d .. m
      BY <2>2, <3>1, <3>2, <3>5
    <3>7. PICK f : f = [parsed EXCEPT !.uri.userinfo = begin,
                                      !.buffer = Terminated(@, i)]
      OBVIOUS
    <3>8. r = ParseHost(f, i + 1, rest, j)
      BY <2>1, <2>6, <2>9, <3>2, <3>3, <3>7 DEF ParseUserinfo
    <3>9. "userinfo" \in UriStrings /\ Puts(parsed, f, "userinfo", begin, i)
      BY <3>7 DEF UriStrings, Puts
    <3>10. ParsedOK(f, b0, n, d, m)
      BY <2>7, <3>1, <3>9, PartPut
    <3>11. IsEnded(b0, i + 1, m)
      BY <2>3, <3>4
    <3> QED
      BY <3>6, <3>8, <3>10, <3>11, HostParsed
  <2> QED
    BY <2>8, <2>9
<1> QED
  BY <1>1, <1>2

(* What is ended stays so when null characters are added. *)
LEMMA EndedAnyway ==
  ASSUME NEW b, NEW b0, NEW n \in Nat, HasNullsOf(b, b0, n),
         NEW m \in Int, m <= n, NEW m2 \in Int, m <= m2, NEW p, IsEnded(b0, p, m)
  PROVE  IsEnded(b, p, m2)
<1>1. CASE p = NULL
  BY <1>1 DEF IsEnded
<1>2. CASE p # NULL
  <2>1. PICK i \in p .. m : b0[i] = "nul"
    BY <1>2 DEF IsEnded
  <2>2. p \in 1 .. m
    BY <1>2 DEF IsEnded
  <2>3. i \in 1 .. n /\ i \in p .. m2 /\ p \in 1 .. m2
    BY <2>1, <2>2
  <2>4. b[i] = "nul"
    BY <2>1, <2>3 DEF HasNullsOf
  <2> QED
    BY <2>3, <2>4 DEF IsEnded
<1> QED
  BY <1>1, <1>2

(* What the strings of an uri and the buffer are after a call of parse     *)
(* that writes from d on and in front of e: nothing that is in front of d  *)
(* or not in front of e has changed, and every string ends in front of e.  *)
UriOK(uri, b, m) ==
  IsRecord(uri, UriFields) /\ \A part \in UriStrings : IsEnded(b, uri[part], m)

LEMMA SecondPassEnds ==
  ASSUME NEW n, NEW d \in Nat \ {0}, NEW e \in Int, e <= n,
         NEW b0, NEW data, DataOK(data, b0, n, d, e), HasSlack(data.cursor, 0),
         NEW b, b = data.cursor.buffer, NEW m, m = data.cursor.destination - 1,
         NEW uri, UriOK(uri, b0, d - 1), NEW r, r = SecondPass(uri, data)
  PROVE  /\ IsBuffer(r.buffer, n) /\ m \in Int /\ m < e /\ m <= n
         /\ SameBefore(r.buffer, b, d) /\ SameBehind(r.buffer, b, m + 1)
         /\ UriOK(r.uri, r.buffer, m)
<1>1. /\ m \in Int /\ m < e /\ m <= n /\ d - 1 <= m /\ n \in Nat
      /\ IsBuffer(b, n) /\ SameBefore(b, b0, d)
  <2>1. CursorOK(data.cursor, n, d, e) /\ IsBuffer(b, n) /\ SameBefore(b, b0, d)
    BY DEF DataOK, CursorOK
  <2>2. n \in Nat
    BY <2>1 DEF IsBuffer
  <2> QED
    BY <2>1, <2>2 DEF CursorOK, HasSlack
<1>2. d - 1 \in Int /\ d - 1 <= n /\ d - 1 < d
  BY <1>1
<1>3. \A part \in MarkedParts : IsEnded(b, data[part], m)
  BY DEF DataOK
<1>4. ASSUME NEW p, IsEnded(b0, p, d - 1)
      PROVE  IsEnded(b, p, m)
  BY <1>1, <1>2, <1>4, EndedStays
<1>5. PICK first : first = [uri |-> uri, buffer |-> b, parsed |-> TRUE]
  OBVIOUS
<1>6. first.buffer = b /\ first.uri = uri
      /\ IsRecord(first, {"uri", "buffer", "parsed"})
  BY <1>5 DEF IsRecord
<1>7. SameBefore(b, b, d) /\ SameBehind(b, b, m + 1) /\ HasNullsOf(b, b, n)
  BY DEF SameBefore, SameBehind, HasNullsOf
<1>8. ParsedOK(first, b, n, d, m)
  BY <1>1, <1>4, <1>6, <1>7 DEF ParsedOK, UriOK
<1>9. CASE ~PassedFirstPass(data)
  <2>1. r.uri = uri /\ r.buffer = b
    BY <1>9 DEF SecondPass
  <2> QED
    BY <1>1, <1>4, <1>7, <2>1 DEF UriOK
<1>10. CASE PassedFirstPass(data)
  <2>1. PICK text : text = TextAt(b, data.scheme, data.scheme_size)
    OBVIOUS
  <2>2. PICK second : second = ParseScheme(first, text)
    OBVIOUS
  <2>3. PICK third : third = ParseAuthority(second, data.authority,
                                            data.authority_size)
    OBVIOUS
  <2>4. r = [third EXCEPT !.uri.path = data.path, !.uri.query = data.query,
                          !.uri.fragment = data.fragment]
    BY <1>5, <1>10, <2>1, <2>2, <2>3 DEF SecondPass
  <2>5. ParsedOK(second, b, n, d, m)
    BY <1>8, <2>2, SchemeParsed
  <2>6. ParsedOK(third, b, n, d, m)
    <3>1. /\ data.authority \in Nat /\ data.authority >= d
          /\ data.authority_size \in Nat
          /\ data.authority_size > 0 =>
               IsEnded(b, data.authority + data.authority_size, m)
      BY DEF DataOK
    <3> QED
      BY <1>1, <2>3, <2>5, <3>1, AuthorityParsed
  <2>7. PICK parts : parts = [third.uri EXCEPT !.path = data.path,
                                               !.query = data.query,
                                               !.fragment = data.fragment]
    OBVIOUS
  <2>8. r = [third EXCEPT !.uri = parts]
    BY <2>4, <2>6, <2>7 DEF ParsedOK, IsRecord, UriFields
  <2>9. r.uri = parts /\ r.buffer = third.buffer
    BY <2>6, <2>8 DEF ParsedOK, IsRecord
  <2>10. /\ IsRecord(parts, UriFields)
         /\ \A part \in UriStrings :
              parts[part] = IF part \in MarkedParts THEN data[part]
                            ELSE third.uri[part]
    BY <2>6, <2>7 DEF ParsedOK, IsRecord, UriFields, UriStrings, MarkedParts
  <2>11. ASSUME NEW part \in UriStrings
         PROVE  IsEnded(third.buffer, parts[part], m)
    <3>1. IsEnded(b, parts[part], m)
      BY <1>3, <2>6, <2>10 DEF ParsedOK
    <3>2. HasNullsOf(third.buffer, b, n) /\ m <= m
      BY <1>1, <2>6 DEF ParsedOK
    <3> QED
      BY <1>1, <3>1, <3>2, EndedAnyway
  <2> QED
    BY <1>1, <2>6, <2>9, <2>10, <2>11 DEF ParsedOK, UriOK
<1> QED
  BY <1>9, <1>10

LEMMA UriEnds ==
  ASSUME NEW n, NEW d \in Nat \ {0}, NEW e \in Int, e <= n,
         NEW c, CursorOK(c, n, d, e), c.destination = d,
         c.source_length >= 0, c.destination_length >= 0,
         NEW uri, UriOK(uri, c.buffer, d - 1), NEW skip \in BOOLEAN,
         NEW r, r = Parse(uri, c, skip)
  PROVE  /\ IsBuffer(r.buffer, n) /\ SameBefore(r.buffer, c.buffer, d)
         /\ SameBehind(r.buffer, c.buffer, e)
         /\ UriOK(r.uri, r.buffer, e - 1)
<1>1. /\ c.source_length \in Int /\ c.destination_length \in Int
      /\ IsBuffer(c.buffer, n) /\ n \in Nat
      /\ d + c.destination_length = e
  BY DEF CursorOK, IsBuffer
<1>2. SameBefore(c.buffer, c.buffer, d) /\ SameBehind(c.buffer, c.buffer, e)
  BY DEF SameBefore, SameBehind
<1>3. d - 1 \in Int /\ d - 1 <= n /\ d - 1 < d /\ e - 1 \in Int /\ d - 1 <= e - 1
  BY <1>1
<1>4. CASE ~HasSpace(c.source_length, c.destination_length)
  <2>1. r.uri = uri /\ r.buffer = c.buffer
    BY <1>4 DEF Parse
  <2>2. ASSUME NEW p, IsEnded(c.buffer, p, d - 1)
        PROVE  IsEnded(c.buffer, p, e - 1)
    BY <1>1, <1>2, <1>3, <2>2, EndedStays
  <2> QED
    BY <1>1, <1>2, <2>1, <2>2 DEF UriOK
<1>5. CASE HasSpace(c.source_length, c.destination_length)
  <2>1. PICK data : data = FirstPass(c, skip)
    OBVIOUS
  <2>2. HasSlack(c, 3)
    BY <1>1, <1>5 DEF HasSpace, HasSlack, maximum_uri_enlargement
  <2>3. DataOK(data, c.buffer, n, d, e) /\ HasSlack(data.cursor, 0)
    BY <2>1, <2>2, FirstPassEnds
  <2>4. PICK b : b = data.cursor.buffer
    OBVIOUS
  <2>5. PICK m : m = data.cursor.destination - 1
    OBVIOUS
  <2>6. r = SecondPass(uri, data)
    BY <1>5, <2>1 DEF Parse
  <2>7. /\ IsBuffer(r.buffer, n) /\ m \in Int /\ m < e /\ m <= n
        /\ SameBefore(r.buffer, b, d) /\ SameBehind(r.buffer, b, m + 1)
        /\ UriOK(r.uri, r.buffer, m)
    BY <2>3, <2>4, <2>5, <2>6, SecondPassEnds
  <2>8. /\ IsBuffer(b, n) /\ SameBefore(b, c.buffer, d)
        /\ SameBehind(b, c.buffer, e)
    BY <2>3, <2>4 DEF DataOK, CursorOK
  <2>9. DOMAIN r.buffer = DOMAIN b
    BY <2>7, <2>8 DEF IsBuffer
  <2>10. SameBefore(r.buffer, c.buffer, d)
    BY <2>7, <2>8, <2>9 DEF SameBefore
  <2>11. SameBehind(r.buffer, c.buffer, e)
    <3> SUFFICES ASSUME NEW i \in DOMAIN r.buffer, i >= e
                 PROVE  r.buffer[i] = c.buffer[i]
      BY DEF SameBehind
    <3>1. i \in DOMAIN b /\ i \in Nat
      BY <2>8, <2>9 DEF IsBuffer
    <3>2. i >= m + 1
      BY <1>1, <2>7, <3>1
    <3> QED
      BY <2>7, <2>8, <3>1, <3>2 DEF SameBehind
  <2>12. ASSUME NEW part \in UriStrings
         PROVE  IsEnded(r.buffer, r.uri[part], e - 1)
    <3>1. IsEnded(r.buffer, r.uri[part], m)
      BY <2>7 DEF UriOK
    <3>2. HasNullsOf(r.buffer, r.buffer, n) /\ m <= e - 1
      BY <1>1, <2>7 DEF HasNullsOf
    <3> QED
      BY <1>1, <1>3, <2>7, <3>1, <3>2, EndedAnyway
  <2> QED
    BY <2>7, <2>10, <2>11, <2>12 DEF UriOK
<1> QED
  BY <1>4, <1>5

-----------------------------------------------------------------------------
(***************************************************************************)
(* Third, the place does not matter: a text that is parsed at two places   *)
(* has the same parts, if the destination begins early enough each time.   *)
(***************************************************************************)
(* A cursor whose source reaches to the end of the buffer of n characters, *)
(* where an uri ends.  The destination begins k characters in front of it, *)
(* and is longer.                                                          *)
Reads(c, n, k) ==
  /\ IsRecord(c, CursorFields) /\ IsBuffer(c.buffer, n)
  /\ c.source \in Nat /\ c.source_length \in Nat
  /\ c.source + c.source_length = n /\ c.buffer[n] \in Ends
  /\ c.destination \in Nat \ {0} /\ c.destination + k <= c.source
  /\ c.destination_length \in Int /\ c.destination_length - c.source_length > k

SameUpTo(b, b2, m) == \A i \in 1 .. m : b[i] = b2[i]

(* Cursors c and f have the same to read, and have written the same. *)
Paired(c, f) ==
  /\ f.source_length = c.source_length
  /\ f.destination = c.destination /\ f.destination_length = c.destination_length
  /\ \A i \in 0 .. c.source_length : c.buffer[c.source + i] = f.buffer[f.source + i]
  /\ SameUpTo(c.buffer, f.buffer, c.destination - 1)

(* No word begins at the cursor. *)
Stuck(c, stops) ==
  Current(c) \in stops \/ (Current(c) = "%" /\ c.source_length < 3)

(* Where a word ends, and why. *)
EndsThere(c, stops, w) ==
  \/ w.head = c.source_length
  \/ c.buffer[c.source + w.head] \in stops
  \/ c.buffer[c.source + w.head] = "%" /\ c.source_length - w.head < 3
  \/ w.head >= w.tail + 3

(* A word, after j rounds: what is to be read was not written to. *)
WordReads(c, n, stops, w, j) ==
  /\ WordOK(c, n, w) /\ w.head <= c.source_length /\ w.stop \in BOOLEAN
  /\ \A i \in w.head .. c.source_length :
       w.buffer[c.source + i] = c.buffer[c.source + i]
  /\ w.stop => EndsThere(c, stops, w)
  /\ ~w.stop => w.head >= j
  /\ Stuck(c, stops) => w.head = 0

(* A round writes in front of what is still to be read. *)
LEMMA UnreadStays ==
  ASSUME NEW c, NEW n, Reads(c, n, 1), NEW stops, NEW w, NEW j,
         WordReads(c, n, stops, w, j), NEW size \in Nat \ {0}, NEW ch, NEW x,
         Writes(c, w, x, ch, size)
  PROVE  /\ x.head = w.head + size /\ x.tail = w.tail + 1 /\ x.stop = w.stop
         /\ x.buffer[c.destination + w.tail] = ch
         /\ \A i \in 1 .. n : i # c.destination + w.tail => x.buffer[i] = w.buffer[i]
         /\ \A i \in x.head .. c.source_length :
              x.buffer[c.source + i] = c.buffer[c.source + i]
<1>1. /\ w.head \in Nat /\ w.tail \in Nat /\ w.tail <= w.head
      /\ w.head <= c.source_length /\ IsBuffer(w.buffer, n)
      /\ c.source \in Nat /\ c.source_length \in Nat /\ n \in Nat
      /\ c.source + c.source_length = n
      /\ c.destination \in Nat \ {0} /\ c.destination + 1 <= c.source
  BY DEF WordReads, WordOK, Reads, IsBuffer
<1>2. PICK at \in 1 .. n : at = c.destination + w.tail
  BY <1>1
<1>3. /\ x.head = w.head + size /\ x.tail = w.tail + 1 /\ x.stop = w.stop
      /\ x.buffer = [w.buffer EXCEPT ![at] = ch]
  BY <1>2 DEF WordReads, WordOK, IsRecord, WordFields, Writes
<1>4. x.buffer[at] = ch /\ \A i \in 1 .. n : i # at => x.buffer[i] = w.buffer[i]
  BY <1>1, <1>3 DEF IsBuffer
<1>5. ASSUME NEW i \in x.head .. c.source_length
      PROVE  x.buffer[c.source + i] = c.buffer[c.source + i]
  <2>1. i \in w.head .. c.source_length /\ c.source + i \in 1 .. n
        /\ c.source + i # at
    BY <1>1, <1>2, <1>3
  <2> QED
    BY <1>4, <2>1 DEF WordReads
<1> QED
  BY <1>2, <1>3, <1>4, <1>5

LEMMA CharacterRead ==
  ASSUME NEW c, NEW n, Reads(c, n, 1), NEW stops, NEW w, NEW j \in Nat,
         WordReads(c, n, stops, w, j), NEW x, x = NextCharacter(c, stops, w)
  PROVE  WordReads(c, n, stops, x, j + 1)
<1>1. /\ w.head \in Nat /\ w.tail \in Nat /\ w.tail <= w.head
      /\ w.head <= c.source_length /\ IsRecord(w, WordFields)
      /\ c.source \in Nat /\ c.source_length \in Nat /\ n \in Nat
      /\ c.destination \in Nat /\ c.destination_length \in Int
      /\ c.destination_length - c.source_length > 1
  BY DEF WordReads, WordOK, Reads, IsBuffer
<1>2. WordOK(c, n, x)
  BY <1>1, CharacterCopied DEF WordReads
<1>3. PICK ch : ch = w.buffer[c.source + w.head]
  OBVIOUS
<1>4. ch = c.buffer[c.source + w.head]
  BY <1>1, <1>3 DEF WordReads
<1>5. CASE w.stop
  BY <1>5 DEF NextCharacter, WordReads
<1>6. CASE ~w.stop /\ (ch \in stops \/ w.head >= c.source_length)
  <2>1. x = [w EXCEPT !.stop = TRUE]
    BY <1>3, <1>6 DEF NextCharacter
  <2>2. x.head = w.head /\ x.tail = w.tail /\ x.buffer = w.buffer /\ x.stop = TRUE
    BY <1>1, <2>1 DEF IsRecord, WordFields
  <2>3. EndsThere(c, stops, x)
    BY <1>1, <1>4, <1>6, <2>2 DEF EndsThere
  <2> QED
    BY <1>2, <2>2, <2>3 DEF WordReads
<1>7. CASE ~w.stop /\ ch \notin stops /\ w.head < c.source_length
  <2>1. ~(w.tail >= c.destination_length) /\ ~(w.head >= c.source_length)
    BY <1>1, <1>7
  <2>2. CASE ch # "%"
    <3>1. Writes(c, w, x, ch, 1)
      BY <1>3, <1>7, <2>1, <2>2 DEF NextCharacter, Writes
    <3>2. 1 \in Nat \ {0}
      OBVIOUS
    <3>3. /\ x.head = w.head + 1 /\ x.stop = w.stop
          /\ \A i \in x.head .. c.source_length :
               x.buffer[c.source + i] = c.buffer[c.source + i]
      BY <3>1, <3>2, UnreadStays
    <3>4. ~Stuck(c, stops)
      <4> SUFFICES ASSUME Stuck(c, stops) PROVE FALSE
        OBVIOUS
      <4>1. w.head = 0
        BY DEF WordReads
      <4>2. ch = Current(c)
        BY <1>1, <1>4, <4>1 DEF Current
      <4> QED
        BY <1>7, <2>2, <4>2 DEF Stuck
    <3> QED
      BY <1>1, <1>2, <1>7, <3>3, <3>4 DEF WordReads
  <2>3. CASE ch = "%" /\ c.source_length - w.head < 3
    <3>1. x = [w EXCEPT !.tail = 0, !.stop = TRUE]
      BY <1>1, <1>3, <1>7, <2>1, <2>3 DEF NextCharacter
    <3>2. x.head = w.head /\ x.buffer = w.buffer /\ x.stop = TRUE
      BY <1>1, <3>1 DEF IsRecord, WordFields
    <3>3. EndsThere(c, stops, x)
      BY <1>1, <1>4, <2>3, <3>2 DEF EndsThere
    <3> QED
      BY <1>2, <3>2, <3>3 DEF WordReads
  <2>4. CASE ch = "%" /\ c.source_length - w.head >= 3
    <3>1. x = ConvertChar(w, c.source, c.destination)
      BY <1>3, <1>7, <2>1, <2>4 DEF NextCharacter
    <3>2. ~Stuck(c, stops)
      <4> SUFFICES ASSUME Stuck(c, stops) PROVE FALSE
        OBVIOUS
      <4>1. w.head = 0
        BY DEF WordReads
      <4>2. ch = Current(c)
        BY <1>1, <1>4, <4>1 DEF Current
      <4> QED
        BY <1>1, <1>7, <2>4, <4>1, <4>2 DEF Stuck
    <3>3. PICK code : code = Decoded[<<w.buffer[c.source + w.head + 1],
                                       w.buffer[c.source + w.head + 2]>>]
      OBVIOUS
    <3>4. CASE x = [w EXCEPT !.buffer[c.destination + w.tail] = code,
                             !.head = @ + 3, !.tail = @ + 1]
      <4>1. Writes(c, w, x, code, 3) /\ 3 \in Nat \ {0}
        BY <3>4 DEF Writes
      <4>2. /\ x.head = w.head + 3 /\ x.stop = w.stop
            /\ \A i \in x.head .. c.source_length :
                 x.buffer[c.source + i] = c.buffer[c.source + i]
        BY <4>1, UnreadStays
      <4> QED
        BY <1>1, <1>2, <1>7, <2>4, <3>2, <4>2 DEF WordReads
    <3>5. CASE x = [w EXCEPT !.head = @ + 3, !.stop = TRUE]
      <4>1. /\ x.head = w.head + 3 /\ x.tail = w.tail
            /\ x.buffer = w.buffer /\ x.stop = TRUE
        BY <1>1, <3>5 DEF IsRecord, WordFields
      <4>2. EndsThere(c, stops, x)
        BY <1>1, <4>1 DEF EndsThere
      <4>3. ASSUME NEW i \in x.head .. c.source_length
            PROVE  x.buffer[c.source + i] = c.buffer[c.source + i]
        <5>1. i \in w.head .. c.source_length
          BY <1>1, <4>1
        <5> QED
          BY <4>1, <5>1 DEF WordReads
      <4>4. x.head <= c.source_length
        BY <1>1, <2>4, <4>1
      <4> QED
        BY <1>2, <3>2, <4>1, <4>2, <4>3, <4>4 DEF WordReads
    <3> QED
      BY <3>1, <3>3, <3>4, <3>5 DEF ConvertChar
  <2> QED
    BY <1>1, <2>2, <2>3, <2>4
<1> QED
  BY <1>1, <1>5, <1>6, <1>7

(* The word's beginnings, read by c and f, are the same. *)
PairedWords(c, w, v) ==
  /\ v.head = w.head /\ v.tail = w.tail /\ v.stop = w.stop
  /\ SameUpTo(w.buffer, v.buffer, c.destination + w.tail - 1)

LEMMA CharacterPaired ==
  ASSUME NEW c, NEW n, Reads(c, n, 1), NEW f, NEW n2, Reads(f, n2, 1),
         Paired(c, f), NEW stops, NEW j,
         NEW w, WordReads(c, n, stops, w, j), NEW v, WordReads(f, n2, stops, v, j),
         PairedWords(c, w, v),
         NEW x, x = NextCharacter(c, stops, w), NEW y, y = NextCharacter(f, stops, v)
  PROVE  PairedWords(c, x, y)
<1>1. /\ w.head \in Nat /\ w.tail \in Nat /\ w.tail <= w.head
      /\ w.head <= c.source_length /\ IsRecord(w, WordFields)
      /\ c.source \in Nat /\ c.source_length \in Nat /\ n \in Nat
      /\ c.source + c.source_length = n
      /\ c.destination \in Nat \ {0} /\ c.destination + 1 <= c.source
  BY DEF WordReads, WordOK, Reads, IsBuffer
<1>2. /\ IsRecord(v, WordFields) /\ f.source \in Nat /\ n2 \in Nat
      /\ f.source + c.source_length = n2 /\ c.destination + 1 <= f.source
      /\ f.source_length = c.source_length
      /\ f.destination = c.destination /\ f.destination_length = c.destination_length
      /\ v.head = w.head /\ v.tail = w.tail /\ v.stop = w.stop
  BY DEF WordReads, WordOK, Reads, IsBuffer, Paired, PairedWords
<1>3. ASSUME NEW i \in w.head .. c.source_length
      PROVE  w.buffer[c.source + i] = v.buffer[f.source + i]
  <2>1. w.buffer[c.source + i] = c.buffer[c.source + i]
    BY DEF WordReads
  <2>2. i \in v.head .. f.source_length /\ i \in 0 .. c.source_length
    BY <1>1, <1>2
  <2>3. v.buffer[f.source + i] = f.buffer[f.source + i]
    BY <2>2 DEF WordReads
  <2> QED
    BY <2>1, <2>2, <2>3 DEF Paired
<1>4. PICK ch : ch = w.buffer[c.source + w.head]
  OBVIOUS
<1>5. ch = v.buffer[f.source + v.head]
  BY <1>1, <1>2, <1>3, <1>4
<1>6. ASSUME NEW character, NEW size \in Nat \ {0},
             Writes(c, w, x, character, size), Writes(f, v, y, character, size)
      PROVE  PairedWords(c, x, y)
  <2>1. PICK at \in Nat : at = c.destination + w.tail
    BY <1>1
  <2>2. /\ x.head = w.head + size /\ x.tail = w.tail + 1 /\ x.stop = w.stop
        /\ x.buffer[at] = character
        /\ \A i \in 1 .. n : i # at => x.buffer[i] = w.buffer[i]
    BY <1>6, <2>1, UnreadStays
  <2>3. at = f.destination + v.tail
    BY <1>2, <2>1
  <2>4. /\ y.head = v.head + size /\ y.tail = v.tail + 1 /\ y.stop = v.stop
        /\ y.buffer[at] = character
        /\ \A i \in 1 .. n2 : i # at => y.buffer[i] = v.buffer[i]
    BY <1>6, <2>3, UnreadStays
  <2>5. at <= n /\ at <= n2
    BY <1>1, <1>2, <2>1
  <2>6. ASSUME NEW i \in 1 .. at
        PROVE  x.buffer[i] = y.buffer[i]
    <3>1. CASE i = at
      BY <2>2, <2>4, <3>1
    <3>2. CASE i # at
      <4>1. i \in 1 .. n /\ i \in 1 .. n2 /\ i \in 1 .. c.destination + w.tail - 1
        BY <1>1, <1>2, <2>1, <2>5, <3>2
      <4> QED
        BY <2>2, <2>4, <3>2, <4>1 DEF PairedWords, SameUpTo
    <3> QED
      BY <3>1, <3>2
  <2>7. c.destination + x.tail - 1 = at
    BY <1>1, <2>1, <2>2
  <2> QED
    BY <1>2, <2>2, <2>4, <2>6, <2>7 DEF PairedWords, SameUpTo
<1>7. CASE w.stop
  BY <1>2, <1>7 DEF NextCharacter
<1>8. CASE ~w.stop /\ (\/ ch \in stops \/ w.head >= c.source_length
                       \/ w.tail >= c.destination_length)
  <2>1. x = [w EXCEPT !.stop = TRUE]
    BY <1>4, <1>8 DEF NextCharacter
  <2>2. y = [v EXCEPT !.stop = TRUE]
    BY <1>2, <1>5, <1>8 DEF NextCharacter
  <2> QED
    BY <1>1, <1>2, <2>1, <2>2 DEF PairedWords, IsRecord, WordFields
<1>9. CASE ~w.stop /\ ~(\/ ch \in stops \/ w.head >= c.source_length
                        \/ w.tail >= c.destination_length)
  <2>1. CASE ch # "%"
    <3>1. Writes(c, w, x, ch, 1)
      BY <1>4, <1>9, <2>1 DEF NextCharacter, Writes
    <3>2. Writes(f, v, y, ch, 1)
      BY <1>2, <1>5, <1>9, <2>1 DEF NextCharacter, Writes
    <3>3. 1 \in Nat \ {0}
      OBVIOUS
    <3> QED
      BY <1>6, <3>1, <3>2, <3>3
  <2>2. CASE ch = "%" /\ c.source_length - w.head < 3
    <3>0. ~(c.source_length - w.head >= 3)
      BY <1>1, <2>2
    <3>1. x = [w EXCEPT !.tail = 0, !.stop = TRUE]
      BY <1>4, <1>9, <2>2, <3>0 DEF NextCharacter
    <3>2. y = [v EXCEPT !.tail = 0, !.stop = TRUE]
      BY <1>2, <1>5, <1>9, <2>2, <3>0 DEF NextCharacter
    <3>3. /\ x.head = w.head /\ x.buffer = w.buffer /\ x.tail = 0 /\ x.stop = TRUE
          /\ y.head = v.head /\ y.buffer = v.buffer /\ y.tail = 0 /\ y.stop = TRUE
      BY <1>1, <1>2, <3>1, <3>2 DEF IsRecord, WordFields
    <3>4. \A i \in 1 .. c.destination + 0 - 1 : i \in 1 .. c.destination + w.tail - 1
      BY <1>1
    <3> QED
      BY <1>2, <3>3, <3>4 DEF PairedWords, SameUpTo
  <2>3. CASE ch = "%" /\ c.source_length - w.head >= 3
    <3>1. x = ConvertChar(w, c.source, c.destination)
      BY <1>4, <1>9, <2>3 DEF NextCharacter
    <3>2. y = ConvertChar(v, f.source, f.destination)
      BY <1>2, <1>5, <1>9, <2>3 DEF NextCharacter
    <3>3. PICK code : code = <<w.buffer[c.source + w.head + 1],
                               w.buffer[c.source + w.head + 2]>>
      OBVIOUS
    <3>4. code = <<v.buffer[f.source + v.head + 1], v.buffer[f.source + v.head + 2]>>
      <4>1. w.head + 1 \in w.head .. c.source_length
            /\ w.head + 2 \in w.head .. c.source_length
        BY <1>1, <2>3
      <4>2. /\ w.buffer[c.source + (w.head + 1)] = v.buffer[f.source + (w.head + 1)]
            /\ w.buffer[c.source + (w.head + 2)] = v.buffer[f.source + (w.head + 2)]
        BY <1>3, <4>1
      <4>3. /\ c.source + (w.head + 1) = c.source + w.head + 1
            /\ c.source + (w.head + 2) = c.source + w.head + 2
            /\ f.source + (w.head + 1) = f.source + v.head + 1
            /\ f.source + (w.head + 2) = f.source + v.head + 2
        BY <1>1, <1>2
      <4> QED
        BY <3>3, <4>2, <4>3
    <3>5. PICK character : character = Decoded[code]
      OBVIOUS
    <3>6. CASE code \in DOMAIN Decoded
      <4>1. Writes(c, w, x, character, 3)
        BY <3>1, <3>3, <3>5, <3>6 DEF ConvertChar, Writes
      <4>2. Writes(f, v, y, character, 3)
        BY <3>2, <3>4, <3>5, <3>6 DEF ConvertChar, Writes
      <4>3. 3 \in Nat \ {0}
        OBVIOUS
      <4> QED
        BY <1>6, <4>1, <4>2, <4>3
    <3>7. CASE code \notin DOMAIN Decoded
      <4>1. x = [w EXCEPT !.head = @ + 3, !.stop = TRUE]
        BY <3>1, <3>3, <3>7 DEF ConvertChar
      <4>2. y = [v EXCEPT !.head = @ + 3, !.stop = TRUE]
        BY <3>2, <3>4, <3>7 DEF ConvertChar
      <4>3. /\ x.head = w.head + 3 /\ x.tail = w.tail
            /\ x.buffer = w.buffer /\ x.stop = TRUE
        BY <1>1, <4>1 DEF IsRecord, WordFields
      <4>4. /\ y.head = v.head + 3 /\ y.tail = v.tail
            /\ y.buffer = v.buffer /\ y.stop = TRUE
        BY <1>2, <4>2 DEF IsRecord, WordFields
      <4> QED
        BY <1>2, <4>3, <4>4 DEF PairedWords
    <3> QED
      BY <3>6, <3>7
  <2> QED
    BY <1>1, <2>1, <2>2, <2>3
<1> QED
  BY <1>1, <1>7, <1>8, <1>9

(* The rounds of a word. *)
LEMMA RoundsOfWord ==
  ASSUME NEW c, NEW stops, c.source_length \in Int, c.source_length >= -1
  PROVE  \E word : /\ Rounds(c, stops, word)
                   /\ ParseWord(c, stops) = ParsedWord(c, word[c.source_length + 1])
<1>1. \E word : Rounds(c, stops, word)
  BY RoundsExist
<1>2. ParseWord(c, stops)
        = ParsedWord(c, (CHOOSE word : Rounds(c, stops, word))[c.source_length + 1])
  BY DEF ParseWord, Rounds
<1> QED
  BY <1>1, <1>2

LEMMA RoundsRead ==
  ASSUME NEW c, NEW n, Reads(c, n, 1), NEW stops, NEW word, Rounds(c, stops, word),
         NEW k \in 0 .. c.source_length + 1
  PROVE  WordReads(c, n, stops, word[k], k)
<1>1. c.source_length \in Nat /\ IsBuffer(c.buffer, n)
  BY DEF Reads
<1>2. PICK m \in Nat : m = c.source_length + 1
  BY <1>1
<1> DEFINE Bad == {i \in 0 .. m : ~WordReads(c, n, stops, word[i], i)}
<1>3. Bad = {}
  <2> SUFFICES ASSUME Bad # {} PROVE FALSE
    OBVIOUS
  <2>1. PICK i \in Bad : \A j \in Bad : i <= j
    <3>1. Bad \subseteq Nat
      OBVIOUS
    <3> HIDE DEF Bad
    <3> QED
      BY <3>1, Least
  <2>2. CASE i = 0
    <3>1. word[0] = [buffer |-> c.buffer, head |-> 0, tail |-> 0, stop |-> FALSE]
      BY <1>2 DEF Rounds
    <3>2. WordReads(c, n, stops, word[0], 0)
      BY <1>1, <3>1
         DEF WordReads, WordOK, IsRecord, WordFields, SameBefore, SameBehind
    <3> QED
      BY <2>1, <2>2, <3>2
  <2>3. CASE i # 0
    <3>1. PICK j \in Nat : i = j + 1
      BY <2>1, <2>3
    <3>2. word[i] = NextCharacter(c, stops, word[j])
      <4>1. i \in 0 .. m /\ i - 1 = j
        BY <2>1, <3>1
      <4>2. word[i] = NextCharacter(c, stops, word[i - 1])
        BY <1>2, <2>3, <4>1 DEF Rounds
      <4> QED
        BY <4>1, <4>2
    <3>3. j \in 0 .. m /\ ~(i <= j)
      BY <2>1, <3>1
    <3>4. WordReads(c, n, stops, word[j], j)
      BY <2>1, <3>3
    <3>5. WordReads(c, n, stops, word[i], j + 1)
      BY <3>2, <3>4, CharacterRead
    <3> QED
      BY <2>1, <3>1, <3>5
  <2> QED
    BY <2>2, <2>3
<1> QED
  BY <1>2, <1>3

LEMMA RoundsPaired ==
  ASSUME NEW c, NEW n, Reads(c, n, 1), NEW f, NEW n2, Reads(f, n2, 1),
         Paired(c, f), NEW stops, NEW word, Rounds(c, stops, word),
         NEW other, Rounds(f, stops, other), NEW k \in 0 .. c.source_length + 1
  PROVE  PairedWords(c, word[k], other[k])
<1>1. c.source_length \in Nat /\ f.source_length = c.source_length
  BY DEF Reads, Paired
<1>2. PICK m \in Nat : m = c.source_length + 1
  BY <1>1
<1> DEFINE Bad == {i \in 0 .. m : ~PairedWords(c, word[i], other[i])}
<1>3. Bad = {}
  <2> SUFFICES ASSUME Bad # {} PROVE FALSE
    OBVIOUS
  <2>1. PICK i \in Bad : \A j \in Bad : i <= j
    <3>1. Bad \subseteq Nat
      OBVIOUS
    <3> HIDE DEF Bad
    <3> QED
      BY <3>1, Least
  <2>2. CASE i = 0
    <3>1. /\ word[0] = [buffer |-> c.buffer, head |-> 0, tail |-> 0, stop |-> FALSE]
          /\ other[0] = [buffer |-> f.buffer, head |-> 0, tail |-> 0, stop |-> FALSE]
      BY <1>1, <1>2 DEF Rounds
    <3>2. c.destination + 0 - 1 = c.destination - 1
      BY DEF Reads
    <3>3. PairedWords(c, word[0], other[0])
      BY <3>1, <3>2 DEF PairedWords, Paired
    <3> QED
      BY <2>1, <2>2, <3>3
  <2>3. CASE i # 0
    <3>1. PICK j \in Nat : i = j + 1
      BY <2>1, <2>3
    <3>2. /\ word[i] = NextCharacter(c, stops, word[j])
          /\ other[i] = NextCharacter(f, stops, other[j])
      <4>1. i \in 0 .. m /\ i - 1 = j
        BY <2>1, <3>1
      <4>2. /\ word[i] = NextCharacter(c, stops, word[i - 1])
            /\ other[i] = NextCharacter(f, stops, other[i - 1])
        BY <1>1, <1>2, <2>3, <4>1 DEF Rounds
      <4> QED
        BY <4>1, <4>2
    <3>3. j \in 0 .. m /\ ~(i <= j)
      BY <2>1, <3>1
    <3>4. PairedWords(c, word[j], other[j])
      BY <2>1, <3>3
    <3>5. /\ WordReads(c, n, stops, word[j], j)
          /\ WordReads(f, n2, stops, other[j], j)
      BY <1>1, <1>2, <3>3, RoundsRead
    <3>6. PairedWords(c, word[i], other[i])
      BY <3>2, <3>4, <3>5, CharacterPaired
    <3> QED
      BY <2>1, <3>6
  <2> QED
    BY <2>2, <2>3
<1> QED
  BY <1>2, <1>3

LEMMA ReadsWithLess ==
  ASSUME NEW c, NEW n, NEW k \in Int, Reads(c, n, k), NEW j \in Int, j <= k
  PROVE  Reads(c, n, j)
BY DEF Reads

(* Behind a word there is what ended it, or, after an escape sequence that *)
(* is none, the source is farther ahead.                                   *)
WordEnded(r, n, k, stops) ==
  \/ Stuck(r, stops \cup Ends)
  \/ Reads(r, n, k + 2)

(* The cursor behind a word. *)
LEMMA BehindWord ==
  ASSUME NEW c, NEW n, NEW k \in Nat \ {0}, Reads(c, n, k), NEW stops,
         NEW w, WordReads(c, n, stops, w, c.source_length + 1),
         NEW r, r = ParsedWord(c, w)
  PROVE  /\ Reads(r, n, k - 1)
         /\ r.source = c.source + w.head /\ r.source_length = c.source_length - w.head
         /\ r.destination = c.destination + w.tail + 1
         /\ r.destination_length = c.destination_length - (w.tail + 1)
         /\ r.buffer[c.destination + w.tail] = "nul"
         /\ \A i \in 1 .. c.destination + w.tail - 1 : r.buffer[i] = w.buffer[i]
         /\ \A i \in w.head .. c.source_length :
              r.buffer[c.source + i] = c.buffer[c.source + i]
         /\ WordEnded(r, n, k, stops)
         /\ Stuck(c, stops) => w.head = 0
<1>1. /\ w.head \in Nat /\ w.tail \in Nat /\ w.tail <= w.head
      /\ w.head <= c.source_length /\ IsBuffer(w.buffer, n)
      /\ c.source \in Nat /\ c.source_length \in Nat /\ n \in Nat
      /\ c.source + c.source_length = n /\ c.buffer[n] \in Ends
      /\ c.destination \in Nat \ {0} /\ c.destination + k <= c.source
      /\ c.destination_length \in Int
      /\ c.destination_length - c.source_length > k
  BY DEF WordReads, WordOK, Reads, IsBuffer
<1>2. PICK at \in 1 .. n : at = c.destination + w.tail
  BY <1>1
<1>3. /\ IsRecord(r, CursorFields)
      /\ r.source = c.source + w.head /\ r.source_length = c.source_length - w.head
      /\ r.destination = c.destination + w.tail + 1
      /\ r.destination_length = c.destination_length - (w.tail + 1)
      /\ r.buffer = [w.buffer EXCEPT ![at] = "nul"]
  BY <1>2 DEF ParsedWord, IsRecord, CursorFields
<1>4. /\ IsBuffer(r.buffer, n) /\ r.buffer[at] = "nul"
      /\ \A i \in 1 .. n : i # at => r.buffer[i] = w.buffer[i]
  BY <1>1, <1>3 DEF IsBuffer
<1>5. ASSUME NEW i \in w.head .. c.source_length
      PROVE  r.buffer[c.source + i] = c.buffer[c.source + i]
  <2>1. c.source + i \in 1 .. n /\ c.source + i # at
    BY <1>1, <1>2
  <2>2. w.buffer[c.source + i] = c.buffer[c.source + i]
    BY DEF WordReads
  <2> QED
    BY <1>4, <2>1, <2>2
<1>6. r.buffer[n] \in Ends
  <2>1. c.source_length \in w.head .. c.source_length
    BY <1>1
  <2> QED
    BY <1>1, <1>5, <2>1
<1>7. Reads(r, n, k - 1)
  BY <1>1, <1>3, <1>4, <1>6 DEF Reads
<1>8. WordEnded(r, n, k, stops)
  <2>1. w.stop /\ EndsThere(c, stops, w)
    BY <1>1 DEF WordReads
  <2>2. Current(r) = c.buffer[c.source + w.head]
    <3>1. w.head \in w.head .. c.source_length
      BY <1>1
    <3> QED
      BY <1>3, <1>5, <3>1 DEF Current
  <2>3. CASE w.head = c.source_length
    BY <1>1, <2>2, <2>3 DEF WordEnded, Stuck
  <2>4. CASE \/ c.buffer[c.source + w.head] \in stops
             \/ c.buffer[c.source + w.head] = "%" /\ c.source_length - w.head < 3
    BY <1>3, <2>2, <2>4 DEF WordEnded, Stuck
  <2>5. CASE w.head >= w.tail + 3
    <3>1. Reads(r, n, k + 2)
      BY <1>1, <1>3, <1>4, <1>6, <2>5 DEF Reads
    <3> QED
      BY <3>1 DEF WordEnded
  <2> QED
    BY <2>1, <2>3, <2>4, <2>5 DEF EndsThere
<1>9. \A i \in 1 .. c.destination + w.tail - 1 : r.buffer[i] = w.buffer[i]
  <2> SUFFICES ASSUME NEW i \in 1 .. c.destination + w.tail - 1
               PROVE  r.buffer[i] = w.buffer[i]
    OBVIOUS
  <2>1. i \in 1 .. n /\ i # at
    BY <1>1, <1>2
  <2> QED
    BY <1>4, <2>1
<1> QED
  BY <1>2, <1>3, <1>4, <1>5, <1>7, <1>8, <1>9 DEF WordReads

(* A word is the same at both places. *)
LEMMA WordsPaired ==
  ASSUME NEW k \in Nat \ {0}, NEW c, NEW n, Reads(c, n, k),
         NEW f, NEW n2, Reads(f, n2, k), Paired(c, f), NEW stops,
         NEW r, r = ParseWord(c, stops), NEW s, s = ParseWord(f, stops)
  PROVE  /\ Reads(r, n, k - 1) /\ Reads(s, n2, k - 1) /\ Paired(r, s)
         /\ WordEnded(r, n, k, stops) /\ WordEnded(s, n2, k, stops)
         /\ r.destination > c.destination
         /\ Stuck(c, stops) =>
              r.source_length = c.source_length /\ Current(r) = Current(c)
<1>1. /\ c.source_length \in Nat /\ f.source_length = c.source_length
      /\ f.destination = c.destination /\ f.destination_length = c.destination_length
      /\ c.source \in Nat /\ f.source \in Nat /\ c.destination \in Nat
  BY DEF Reads, Paired
<1>2. Reads(c, n, 1) /\ Reads(f, n2, 1)
  <2>1. k \in Int /\ 1 \in Int /\ 1 <= k
    OBVIOUS
  <2> QED
    BY <2>1, ReadsWithLess
<1>3. PICK m \in Nat : m = c.source_length + 1
  BY <1>1
<1>4. PICK word : Rounds(c, stops, word) /\ r = ParsedWord(c, word[m])
  <2>1. c.source_length \in Int /\ c.source_length >= -1
    BY <1>1
  <2> QED
    BY <1>3, <2>1, RoundsOfWord
<1>5. PICK other : Rounds(f, stops, other) /\ s = ParsedWord(f, other[m])
  <2>1. f.source_length \in Int /\ f.source_length >= -1
    BY <1>1
  <2> QED
    BY <1>1, <1>3, <2>1, RoundsOfWord
<1>6. PICK w : w = word[m]
  OBVIOUS
<1>7. PICK v : v = other[m]
  OBVIOUS
<1>8. /\ WordReads(c, n, stops, w, c.source_length + 1)
      /\ WordReads(f, n2, stops, v, f.source_length + 1)
      /\ PairedWords(c, w, v)
  <2>1. m \in 0 .. c.source_length + 1 /\ m \in 0 .. f.source_length + 1
    BY <1>1, <1>3
  <2> QED
    BY <1>1, <1>2, <1>3, <1>4, <1>5, <1>6, <1>7, <2>1, RoundsRead, RoundsPaired
<1>9. /\ Reads(r, n, k - 1)
      /\ r.source = c.source + w.head /\ r.source_length = c.source_length - w.head
      /\ r.destination = c.destination + w.tail + 1
      /\ r.destination_length = c.destination_length - (w.tail + 1)
      /\ r.buffer[c.destination + w.tail] = "nul"
      /\ \A i \in 1 .. c.destination + w.tail - 1 : r.buffer[i] = w.buffer[i]
      /\ \A i \in w.head .. c.source_length :
           r.buffer[c.source + i] = c.buffer[c.source + i]
      /\ WordEnded(r, n, k, stops)
      /\ Stuck(c, stops) => w.head = 0
  BY <1>4, <1>6, <1>8, BehindWord
<1>10. /\ Reads(s, n2, k - 1)
       /\ s.source = f.source + v.head /\ s.source_length = f.source_length - v.head
       /\ s.destination = f.destination + v.tail + 1
       /\ s.destination_length = f.destination_length - (v.tail + 1)
       /\ s.buffer[f.destination + v.tail] = "nul"
       /\ \A i \in 1 .. f.destination + v.tail - 1 : s.buffer[i] = v.buffer[i]
       /\ \A i \in v.head .. f.source_length :
            s.buffer[f.source + i] = f.buffer[f.source + i]
       /\ WordEnded(s, n2, k, stops)
  BY <1>5, <1>7, <1>8, BehindWord
<1>11. /\ v.head = w.head /\ v.tail = w.tail
       /\ \A i \in 1 .. c.destination + w.tail - 1 : w.buffer[i] = v.buffer[i]
       /\ w.head \in Nat /\ w.tail \in Nat /\ w.head <= c.source_length
  BY <1>8 DEF PairedWords, SameUpTo, WordReads, WordOK
<1>12. ASSUME NEW i \in 0 .. r.source_length
       PROVE  r.buffer[r.source + i] = s.buffer[s.source + i]
  <2>1. PICK j \in w.head .. c.source_length : j = w.head + i
    BY <1>1, <1>9, <1>11
  <2>2. r.source + i = c.source + j /\ s.source + i = f.source + j
    BY <1>1, <1>9, <1>10, <1>11, <2>1
  <2>3. j \in v.head .. f.source_length /\ j \in 0 .. c.source_length
    BY <1>1, <1>11, <2>1
  <2>4. c.buffer[c.source + j] = f.buffer[f.source + j]
    BY <2>3 DEF Paired
  <2> QED
    BY <1>9, <1>10, <2>2, <2>3, <2>4
<1>13. SameUpTo(r.buffer, s.buffer, r.destination - 1)
  <2> SUFFICES ASSUME NEW i \in 1 .. r.destination - 1
               PROVE  r.buffer[i] = s.buffer[i]
    BY DEF SameUpTo
  <2>1. CASE i = c.destination + w.tail
    BY <1>1, <1>9, <1>10, <1>11, <2>1
  <2>2. CASE i # c.destination + w.tail
    <3>1. i \in 1 .. c.destination + w.tail - 1
      BY <1>1, <1>9, <1>11, <2>2
    <3>2. i \in 1 .. f.destination + v.tail - 1
      BY <1>1, <1>11, <3>1
    <3> QED
      BY <1>9, <1>10, <1>11, <3>1, <3>2
  <2> QED
    BY <2>1, <2>2
<1>14. Paired(r, s)
  BY <1>1, <1>9, <1>10, <1>11, <1>12, <1>13 DEF Paired
<1>15. Stuck(c, stops) =>
         r.source_length = c.source_length /\ Current(r) = Current(c)
  <2> SUFFICES ASSUME Stuck(c, stops)
               PROVE  r.source_length = c.source_length /\ Current(r) = Current(c)
    OBVIOUS
  <2>1. w.head = 0 /\ 0 \in w.head .. c.source_length /\ c.source + 0 = c.source
    BY <1>1, <1>9
  <2>2. r.source_length = c.source_length /\ r.source = c.source
    BY <1>1, <1>9, <2>1
  <2>3. r.buffer[c.source + 0] = c.buffer[c.source + 0]
    BY <1>9, <2>1
  <2> QED
    BY <2>1, <2>2, <2>3 DEF Current
<1>16. r.destination > c.destination
  BY <1>1, <1>9, <1>11
<1> QED
  BY <1>9, <1>10, <1>14, <1>15, <1>16

LEMMA SameCurrent ==
  ASSUME NEW c, NEW n, NEW k, Reads(c, n, k), NEW f, NEW n2, Reads(f, n2, k),
         Paired(c, f)
  PROVE  /\ Current(c) = Current(f) /\ c.source_length = f.source_length
         /\ c.source_length = 0 => Current(c) \in Ends
<1>1. 0 \in 0 .. c.source_length /\ c.source + 0 = c.source /\ f.source + 0 = f.source
  BY DEF Reads
<1>2. c.buffer[c.source + 0] = f.buffer[f.source + 0]
  BY <1>1 DEF Paired
<1>3. c.source_length = 0 => Current(c) \in Ends
  BY <1>1 DEF Reads, Current
<1> QED
  BY <1>1, <1>2, <1>3 DEF Current, Paired

LEMMA ConsumeReads ==
  ASSUME NEW c, NEW n, NEW k \in Int, Reads(c, n, k), c.source_length > 0,
         NEW r, r = ConsumeOneCharacter(c)
  PROVE  /\ Reads(r, n, k + 1)
         /\ r.buffer = c.buffer /\ r.source = c.source + 1
         /\ r.source_length = c.source_length - 1 /\ r.destination = c.destination
         /\ r.destination_length = c.destination_length
<1>1. /\ IsRecord(r, CursorFields)
      /\ r.buffer = c.buffer /\ r.source = c.source + 1
      /\ r.source_length = c.source_length - 1 /\ r.destination = c.destination
      /\ r.destination_length = c.destination_length
  BY DEF Reads, IsRecord, CursorFields, ConsumeOneCharacter
<1> QED
  BY <1>1 DEF Reads

LEMMA ConsumePaired ==
  ASSUME NEW c, NEW n, NEW k \in Int, Reads(c, n, k),
         NEW f, NEW n2, Reads(f, n2, k), Paired(c, f), c.source_length > 0,
         NEW r, r = ConsumeOneCharacter(c), NEW s, s = ConsumeOneCharacter(f)
  PROVE  Reads(r, n, k + 1) /\ Reads(s, n2, k + 1) /\ Paired(r, s)
<1>1. f.source_length > 0 /\ f.source_length = c.source_length
  BY DEF Paired
<1>2. /\ Reads(r, n, k + 1)
      /\ r.buffer = c.buffer /\ r.source = c.source + 1
      /\ r.source_length = c.source_length - 1 /\ r.destination = c.destination
      /\ r.destination_length = c.destination_length
  BY ConsumeReads
<1>3. /\ Reads(s, n2, k + 1)
      /\ s.buffer = f.buffer /\ s.source = f.source + 1
      /\ s.source_length = f.source_length - 1 /\ s.destination = f.destination
      /\ s.destination_length = f.destination_length
  BY <1>1, ConsumeReads
<1>4. c.source \in Nat /\ f.source \in Nat /\ c.source_length \in Nat
  BY DEF Reads
<1>5. ASSUME NEW i \in 0 .. r.source_length
      PROVE  r.buffer[r.source + i] = s.buffer[s.source + i]
  <2>1. i + 1 \in 0 .. c.source_length
    BY <1>2, <1>4
  <2>2. c.buffer[c.source + (i + 1)] = f.buffer[f.source + (i + 1)]
    BY <2>1 DEF Paired
  <2>3. r.source + i = c.source + (i + 1) /\ s.source + i = f.source + (i + 1)
    BY <1>2, <1>3, <1>4
  <2> QED
    BY <1>2, <1>3, <2>2, <2>3
<1> QED
  BY <1>1, <1>2, <1>3, <1>5 DEF Paired

LEMMA UnconsumePaired ==
  ASSUME NEW c, NEW n, NEW k \in Int, Reads(c, n, k),
         NEW f, NEW n2, Reads(f, n2, k), Paired(c, f), c.destination > 1,
         NEW r, r = UnconsumeOneCharacter(c), NEW s, s = UnconsumeOneCharacter(f)
  PROVE  /\ Reads(r, n, k + 1) /\ Reads(s, n2, k + 1) /\ Paired(r, s)
         /\ r.destination = c.destination - 1
<1>1. /\ IsRecord(r, CursorFields)
      /\ r.buffer = c.buffer /\ r.source = c.source
      /\ r.source_length = c.source_length /\ r.destination = c.destination - 1
      /\ r.destination_length = c.destination_length + 1
  BY DEF Reads, IsRecord, CursorFields, UnconsumeOneCharacter
<1>2. /\ IsRecord(s, CursorFields)
      /\ s.buffer = f.buffer /\ s.source = f.source
      /\ s.source_length = f.source_length /\ s.destination = f.destination - 1
      /\ s.destination_length = f.destination_length + 1
  BY DEF Reads, IsRecord, CursorFields, UnconsumeOneCharacter
<1>3. Reads(r, n, k + 1)
  BY <1>1 DEF Reads
<1>4. Reads(s, n2, k + 1)
  BY <1>2 DEF Reads, Paired
<1>5. \A i \in 1 .. r.destination - 1 : i \in 1 .. c.destination - 1
  BY <1>1 DEF Reads
<1>6. Paired(r, s)
  BY <1>1, <1>2, <1>5 DEF Paired, SameUpTo
<1> QED
  BY <1>1, <1>3, <1>4, <1>6

LEMMA SlashesPaired ==
  ASSUME NEW c, NEW n, NEW k \in Int, Reads(c, n, k),
         NEW f, NEW n2, Reads(f, n2, k), Paired(c, f),
         NEW r, r = SkipOptionalSlashes(c), NEW s, s = SkipOptionalSlashes(f)
  PROVE  /\ Reads(r, n, k) /\ Reads(s, n2, k) /\ Paired(r, s)
         /\ r.destination = c.destination
<1>1. Current(c) = Current(f) /\ c.source_length = f.source_length
      /\ c.source_length \in Nat
  BY SameCurrent DEF Reads
<1>2. CASE c.source_length >= 2
  <2>1. c.buffer[c.source + 1] = f.buffer[f.source + 1]
    <3>1. 1 \in 0 .. c.source_length
      BY <1>1, <1>2
    <3> QED
      BY <3>1 DEF Paired
  <2>2. CASE Current(c) = "/" /\ c.buffer[c.source + 1] = "/"
    <3>1. PICK g : g = ConsumeOneCharacter(c)
      OBVIOUS
    <3>2. PICK h : h = ConsumeOneCharacter(f)
      OBVIOUS
    <3>3. r = ConsumeOneCharacter(g)
      BY <1>2, <2>2, <3>1 DEF SkipOptionalSlashes
    <3>4. s = ConsumeOneCharacter(h)
      BY <1>1, <1>2, <2>1, <2>2, <3>2 DEF SkipOptionalSlashes
    <3>5. c.source_length > 0
      BY <1>1, <1>2
    <3>6. Reads(g, n, k + 1) /\ Reads(h, n2, k + 1) /\ Paired(g, h)
      BY <3>1, <3>2, <3>5, ConsumePaired
    <3>7. g.source_length = c.source_length - 1 /\ g.destination = c.destination
      BY <3>1, <3>5, ConsumeReads
    <3>8. g.source_length > 0 /\ k + 1 \in Int
      BY <1>1, <1>2, <3>7
    <3>9. Reads(r, n, k + 1 + 1) /\ Reads(s, n2, k + 1 + 1) /\ Paired(r, s)
      BY <3>3, <3>4, <3>6, <3>8, ConsumePaired
    <3>10. k <= k + 1 + 1 /\ k + 1 + 1 \in Int
      OBVIOUS
    <3>11. Reads(r, n, k) /\ Reads(s, n2, k)
      BY <3>9, <3>10, ReadsWithLess
    <3>12. r.destination = g.destination
      BY <3>3, <3>6, <3>8, ConsumeReads
    <3> QED
      BY <3>7, <3>9, <3>11, <3>12
  <2>3. CASE ~(Current(c) = "/" /\ c.buffer[c.source + 1] = "/")
    <3>1. r = c /\ s = f
      BY <1>1, <1>2, <2>1, <2>3 DEF SkipOptionalSlashes
    <3> QED
      BY <3>1
  <2> QED
    BY <2>2, <2>3
<1>3. CASE ~(c.source_length >= 2)
  <2>1. r = c /\ s = f
    BY <1>1, <1>3 DEF SkipOptionalSlashes
  <2> QED
    BY <2>1
<1> QED
  BY <1>2, <1>3

-----------------------------------------------------------------------------
(* Of two first_pass_data, but for their cursors: they are the same, and   *)
(* the scheme is in front of position d.                                   *)
DataAlike(data, other, d) ==
  /\ IsRecord(data, DataFields) /\ IsRecord(other, DataFields)
  /\ \A name \in DataFields \ {"cursor"} : other[name] = data[name]
  /\ data.scheme \in Nat \ {0} /\ data.scheme_size \in Nat
  /\ data.scheme + data.scheme_size <= d

DataPaired(data, other) ==
  /\ DataAlike(data, other, data.cursor.destination)
  /\ Paired(data.cursor, other.cursor)

(* k characters are between what was written and what is to be read. *)
BothRead(data, n, other, n2, k) ==
  Reads(data.cursor, n, k) /\ Reads(other.cursor, n2, k)

LEMMA TokensPaired ==
  ASSUME NEW data, NEW n, NEW other, NEW n2, DataPaired(data, other),
         BothRead(data, n, other, n2, 0),
         NEW part \in MarkedParts, NEW start, NEW skip \in BOOLEAN, NEW stops,
         ~skip /\ IsPresent(data.cursor, start) => BothRead(data, n, other, n2, 1),
         NEW r, r = Token(data, part, start, skip, stops),
         NEW s, s = Token(other, part, start, skip, stops)
  PROVE  DataPaired(r, s) /\ BothRead(r, n, s, n2, 0)
<1>1. PICK c : c = data.cursor
  OBVIOUS
<1>2. PICK f : f = other.cursor
  OBVIOUS
<1>3. Paired(c, f) /\ Reads(c, n, 0) /\ Reads(f, n2, 0)
  BY <1>1, <1>2 DEF DataPaired, BothRead
<1>4. IsPresent(c, start) <=> IsPresent(f, start)
  BY <1>3, SameCurrent DEF IsPresent, Paired
<1>5. CASE ~IsPresent(c, start)
  <2>1. r = data /\ s = other
    BY <1>1, <1>2, <1>4, <1>5 DEF Token
  <2> QED
    BY <2>1
<1>6. CASE IsPresent(c, start)
  <2>1. PICK g : g = IF skip THEN ConsumeOneCharacter(c) ELSE c
    OBVIOUS
  <2>2. PICK h : h = IF skip THEN ConsumeOneCharacter(f) ELSE f
    OBVIOUS
  <2>3. Reads(g, n, 1) /\ Reads(h, n2, 1) /\ Paired(g, h)
        /\ g.destination = c.destination
    <3>1. CASE skip
      <4>1. g = ConsumeOneCharacter(c) /\ h = ConsumeOneCharacter(f)
            /\ c.source_length > 0 /\ 0 \in Int
        BY <1>6, <2>1, <2>2, <3>1 DEF IsPresent
      <4>2. Reads(g, n, 0 + 1) /\ Reads(h, n2, 0 + 1) /\ Paired(g, h)
        BY <1>3, <4>1, ConsumePaired
      <4>3. g.destination = c.destination
        BY <1>3, <4>1, ConsumeReads
      <4> QED
        BY <4>2, <4>3
    <3>2. CASE ~skip
      BY <1>1, <1>2, <1>3, <1>6, <2>1, <2>2, <3>2 DEF BothRead
    <3> QED
      BY <3>1, <3>2
  <2>4. PICK w : w = ParseWord(g, stops)
    OBVIOUS
  <2>5. PICK v : v = ParseWord(h, stops)
    OBVIOUS
  <2>6. Reads(w, n, 0) /\ Reads(v, n2, 0) /\ Paired(w, v)
        /\ w.destination > g.destination
    <3>1. 1 \in Nat \ {0}
      OBVIOUS
    <3>2. Reads(w, n, 1 - 1) /\ Reads(v, n2, 1 - 1) /\ Paired(w, v)
          /\ w.destination > g.destination
      BY <2>3, <2>4, <2>5, <3>1, WordsPaired
    <3> QED
      BY <3>2
  <2>7. r = [data EXCEPT ![part] = c.destination, !.cursor = w]
    BY <1>1, <1>6, <2>1, <2>4 DEF Token
  <2>8. s = [other EXCEPT ![part] = c.destination, !.cursor = v]
    BY <1>2, <1>3, <1>4, <1>6, <2>2, <2>5 DEF Token, Paired
  <2>9. /\ IsRecord(data, DataFields) /\ IsRecord(other, DataFields)
        /\ \A name \in DataFields \ {"cursor"} : other[name] = data[name]
    BY DEF DataPaired, DataAlike
  <2>10. /\ IsRecord(r, DataFields) /\ r.cursor = w
         /\ \A name \in DataFields \ {"cursor"} :
              r[name] = IF name = part THEN c.destination ELSE data[name]
    BY <2>7, <2>9 DEF IsRecord, DataFields, MarkedParts
  <2>11. /\ IsRecord(s, DataFields) /\ s.cursor = v
         /\ \A name \in DataFields \ {"cursor"} :
              s[name] = IF name = part THEN c.destination ELSE other[name]
    BY <2>8, <2>9 DEF IsRecord, DataFields, MarkedParts
  <2>12. r.scheme = data.scheme /\ r.scheme_size = data.scheme_size
    BY <2>10 DEF DataFields, MarkedParts
  <2>13. \A name \in DataFields \ {"cursor"} : s[name] = r[name]
    BY <2>9, <2>10, <2>11
  <2>14. /\ data.scheme \in Nat \ {0} /\ data.scheme_size \in Nat
         /\ data.scheme + data.scheme_size <= c.destination
    BY <1>1 DEF DataPaired, DataAlike
  <2>15. r.scheme + r.scheme_size <= w.destination
    BY <1>3, <2>3, <2>6, <2>12, <2>14 DEF Reads
  <2>16. DataAlike(r, s, w.destination)
    BY <2>10, <2>11, <2>12, <2>13, <2>14, <2>15 DEF DataAlike
  <2> QED
    BY <2>6, <2>10, <2>11, <2>16 DEF DataPaired, BothRead
<1> QED
  BY <1>5, <1>6

(* The rest of an authority. *)
LEMMA AuthorityPaired ==
  ASSUME NEW c, NEW n, Reads(c, n, 1), NEW f, NEW n2, Reads(f, n2, 1), Paired(c, f),
         \/ Reads(c, n, 2) /\ Reads(f, n2, 2)
         \/ Stuck(c, PartStarts \cup Ends),
         NEW data, NEW other, DataAlike(data, other, c.destination),
         NEW so_far, NEW r, r = RestOfAuthority(data, c, so_far),
         NEW s, s = RestOfAuthority(other, f, so_far)
  PROVE  /\ DataPaired(r, s) /\ BothRead(r, n, s, n2, 0)
         /\ IsPresent(r.cursor, "/") => BothRead(r, n, s, n2, 1)
<1>1. Current(c) = Current(f)
  BY SameCurrent
<1>2. /\ IsRecord(data, DataFields) /\ IsRecord(other, DataFields)
      /\ \A name \in DataFields \ {"cursor"} : other[name] = data[name]
      /\ data.scheme \in Nat \ {0} /\ data.scheme_size \in Nat
      /\ data.scheme + data.scheme_size <= c.destination
  BY DEF DataAlike
<1>3. ASSUME NEW size, NEW w, NEW v, w.destination >= c.destination,
             w.destination \in Int, c.destination \in Int,
             r = [data EXCEPT !.authority_size = size, !.cursor = w],
             s = [other EXCEPT !.authority_size = size, !.cursor = v]
      PROVE  DataAlike(r, s, w.destination) /\ r.cursor = w /\ s.cursor = v
  <2>1. /\ IsRecord(r, DataFields) /\ r.cursor = w
        /\ \A name \in DataFields \ {"cursor"} :
             r[name] = IF name = "authority_size" THEN size ELSE data[name]
    BY <1>2, <1>3 DEF IsRecord, DataFields
  <2>2. /\ IsRecord(s, DataFields) /\ s.cursor = v
        /\ \A name \in DataFields \ {"cursor"} :
             s[name] = IF name = "authority_size" THEN size ELSE other[name]
    BY <1>2, <1>3 DEF IsRecord, DataFields
  <2>3. r.scheme = data.scheme /\ r.scheme_size = data.scheme_size
    BY <2>1 DEF DataFields
  <2>4. \A name \in DataFields \ {"cursor"} : s[name] = r[name]
    BY <1>2, <2>1, <2>2
  <2>5. r.scheme + r.scheme_size <= w.destination
    BY <1>2, <1>3, <2>3
  <2> QED
    BY <1>2, <2>1, <2>2, <2>3, <2>4, <2>5 DEF DataAlike
<1>4. c.destination \in Int
  BY DEF Reads
<1>5. CASE Current(c) \in PartStarts
  <2>1. r = [data EXCEPT !.authority_size = so_far, !.cursor = c]
    BY <1>5 DEF RestOfAuthority
  <2>2. s = [other EXCEPT !.authority_size = so_far, !.cursor = f]
    BY <1>1, <1>5 DEF RestOfAuthority
  <2>3. DataAlike(r, s, c.destination) /\ r.cursor = c /\ s.cursor = f
    <3>1. c.destination >= c.destination
      BY <1>4
    <3> QED
      BY <1>3, <1>4, <2>1, <2>2, <3>1
  <2>4. 1 \in Int /\ 0 \in Int /\ 0 <= 1
    OBVIOUS
  <2>5. Reads(c, n, 0) /\ Reads(f, n2, 0)
    BY <2>4, ReadsWithLess
  <2> QED
    BY <2>3, <2>5 DEF DataPaired, BothRead
<1>6. CASE Current(c) \notin PartStarts
  <2>1. PICK w : w = ParseWord(c, PartStarts \cup Ends)
    OBVIOUS
  <2>2. PICK v : v = ParseWord(f, PartStarts \cup Ends)
    OBVIOUS
  <2>3. /\ Reads(w, n, 0) /\ Reads(v, n2, 0) /\ Paired(w, v)
        /\ w.destination > c.destination
        /\ Stuck(c, PartStarts \cup Ends) => Current(w) = Current(c)
    <3>1. 1 \in Nat \ {0}
      OBVIOUS
    <3>2. /\ Reads(w, n, 1 - 1) /\ Reads(v, n2, 1 - 1) /\ Paired(w, v)
          /\ w.destination > c.destination
          /\ Stuck(c, PartStarts \cup Ends) =>
               w.source_length = c.source_length /\ Current(w) = Current(c)
      BY <2>1, <2>2, <3>1, WordsPaired
    <3> QED
      BY <3>2
  <2>4. PICK size : size = so_far + LengthOfWord(c, w)
    OBVIOUS
  <2>5. size = so_far + LengthOfWord(f, v)
    BY <2>3, <2>4 DEF LengthOfWord, Paired
  <2>6. r = [data EXCEPT !.authority_size = size, !.cursor = w]
    BY <1>6, <2>1, <2>4 DEF RestOfAuthority, WithAuthority
  <2>7. s = [other EXCEPT !.authority_size = size, !.cursor = v]
    BY <1>1, <1>6, <2>2, <2>5 DEF RestOfAuthority, WithAuthority
  <2>8. w.destination >= c.destination /\ w.destination \in Int
    BY <1>4, <2>3 DEF Reads
  <2>9. DataAlike(r, s, w.destination) /\ r.cursor = w /\ s.cursor = v
    BY <1>3, <1>4, <2>6, <2>7, <2>8
  <2>10. IsPresent(w, "/") => Reads(w, n, 1) /\ Reads(v, n2, 1)
    <3>1. CASE Reads(c, n, 2) /\ Reads(f, n2, 2)
      <4>1. 2 \in Nat \ {0} /\ 2 - 1 = 1
        OBVIOUS
      <4>2. Reads(w, n, 2 - 1) /\ Reads(v, n2, 2 - 1)
        BY <2>1, <2>2, <3>1, <4>1, WordsPaired
      <4> QED
        BY <4>1, <4>2
    <3>2. CASE Stuck(c, PartStarts \cup Ends)
      <4>1. Current(w) = Current(c) /\ (Current(c) \in Ends \/ Current(c) = "%")
        BY <1>6, <2>3, <3>2 DEF Stuck
      <4>2. Current(w) # "/"
        BY <4>1 DEF Ends
      <4> QED
        BY <4>2 DEF IsPresent
    <3> QED
      BY <3>1, <3>2
  <2> QED
    BY <2>3, <2>9, <2>10 DEF DataPaired, BothRead
<1> QED
  BY <1>5, <1>6

LEMMA SchemeAndAuthorityPaired ==
  ASSUME NEW c, NEW n, Reads(c, n, 2), NEW f, NEW n2, Reads(f, n2, 2), Paired(c, f),
         NEW skip \in BOOLEAN, NEW r, r = SchemeAndAuthority(NewData(c), skip),
         NEW s, s = SchemeAndAuthority(NewData(f), skip)
  PROVE  /\ DataPaired(r, s) /\ BothRead(r, n, s, n2, 0)
         /\ IsPresent(r.cursor, "/") => BothRead(r, n, s, n2, 1)
<1>1. /\ Current(c) = Current(f) /\ f.destination = c.destination
      /\ c.destination \in Nat \ {0}
  BY SameCurrent DEF Paired, Reads
<1>2. PICK data : data = NewData(c)
  OBVIOUS
<1>3. PICK other : other = NewData(f)
  OBVIOUS
<1>4. /\ data.cursor = c /\ other.cursor = f
      /\ IsRecord(data, DataFields) /\ IsRecord(other, DataFields)
      /\ data.scheme = c.destination /\ data.scheme_size = 0
      /\ \A name \in DataFields \ {"cursor"} : other[name] = data[name]
  BY <1>1, <1>2, <1>3 DEF NewData, IsRecord, DataFields
<1>5. DataAlike(data, other, c.destination)
  BY <1>1, <1>4 DEF DataAlike
<1>6. Reads(c, n, 1) /\ Reads(f, n2, 1) /\ Reads(c, n, 0) /\ Reads(f, n2, 0)
  <2>1. 2 \in Int /\ 1 \in Int /\ 0 \in Int /\ 1 <= 2 /\ 0 <= 2
    OBVIOUS
  <2> QED
    BY <2>1, ReadsWithLess
<1>7. CASE Current(c) \in PartStarts
  <2>1. r = data /\ s = other
    BY <1>1, <1>2, <1>3, <1>4, <1>7 DEF SchemeAndAuthority
  <2> QED
    BY <1>4, <1>5, <1>6, <2>1 DEF DataPaired, BothRead
<1>8. CASE Current(c) \notin PartStarts
  <2>1. PICK stops : stops = {":"} \cup PartStarts \cup Ends
    OBVIOUS
  <2>2. PICK w : w = ParseWord(c, stops)
    OBVIOUS
  <2>3. PICK v : v = ParseWord(f, stops)
    OBVIOUS
  <2>4. /\ Reads(w, n, 1) /\ Reads(v, n2, 1) /\ Paired(w, v)
        /\ WordEnded(w, n, 2, stops) /\ WordEnded(v, n2, 2, stops)
        /\ w.destination > c.destination
    <3>1. 2 \in Nat \ {0}
      OBVIOUS
    <3>2. /\ Reads(w, n, 2 - 1) /\ Reads(v, n2, 2 - 1) /\ Paired(w, v)
          /\ WordEnded(w, n, 2, stops) /\ WordEnded(v, n2, 2, stops)
          /\ w.destination > c.destination
      BY <2>2, <2>3, <3>1, WordsPaired
    <3> QED
      BY <3>2
  <2>5. /\ Current(w) = Current(v) /\ w.source_length = v.source_length
        /\ w.source_length = 0 => Current(w) \in Ends
        /\ w.source_length \in Nat /\ w.destination \in Nat
    BY <2>4, SameCurrent DEF Reads
  <2>6. PICK so_far : so_far = LengthOfWord(c, w)
    OBVIOUS
  <2>7. /\ so_far = LengthOfWord(f, v) /\ so_far \in Nat
        /\ c.destination + so_far <= w.destination
    BY <1>1, <2>4, <2>5, <2>6 DEF LengthOfWord, Paired
  <2>8. r = WithFirstWord(data, w, skip)
    BY <1>2, <1>4, <1>8, <2>1, <2>2 DEF SchemeAndAuthority
  <2>9. s = WithFirstWord(other, v, skip)
    BY <1>1, <1>3, <1>4, <1>8, <2>1, <2>3 DEF SchemeAndAuthority
  <2>10. CASE ~skip /\ Current(w) = ":"
    <3>1. PICK scheme : scheme = [data EXCEPT !.scheme_size = so_far,
                                              !.authority = w.destination]
      OBVIOUS
    <3>2. PICK scheme2 : scheme2 = [other EXCEPT !.scheme_size = so_far,
                                                 !.authority = w.destination]
      OBVIOUS
    <3>3. PICK g : g = ConsumeOneCharacter(w)
      OBVIOUS
    <3>4. PICK h : h = ConsumeOneCharacter(v)
      OBVIOUS
    <3>5. w.source_length > 0
      BY <2>5, <2>10 DEF Ends
    <3>6. Reads(g, n, 2) /\ Reads(h, n2, 2) /\ Paired(g, h)
          /\ g.destination = w.destination
      <4>1. Reads(g, n, 1 + 1) /\ Reads(h, n2, 1 + 1) /\ Paired(g, h)
        BY <2>4, <3>3, <3>4, <3>5, ConsumePaired
      <4>2. g.destination = w.destination
        BY <2>4, <3>3, <3>5, ConsumeReads
      <4> QED
        BY <4>1, <4>2
    <3>7. PICK x : x = SkipOptionalSlashes(g)
      OBVIOUS
    <3>8. PICK y : y = SkipOptionalSlashes(h)
      OBVIOUS
    <3>9. Reads(x, n, 2) /\ Reads(y, n2, 2) /\ Paired(x, y)
          /\ x.destination = w.destination
      BY <3>6, <3>7, <3>8, SlashesPaired
    <3>10. Reads(x, n, 1) /\ Reads(y, n2, 1)
      <4>1. 2 \in Int /\ 1 \in Int /\ 1 <= 2
        OBVIOUS
      <4> QED
        BY <3>9, <4>1, ReadsWithLess
    <3>11. r = RestOfAuthority(scheme, x, 0)
      BY <1>4, <2>6, <2>8, <2>10, <3>1, <3>3, <3>7 DEF WithFirstWord
    <3>12. s = RestOfAuthority(scheme2, y, 0)
      BY <1>4, <2>4, <2>5, <2>7, <2>9, <2>10, <3>2, <3>4, <3>8
         DEF WithFirstWord, Paired
    <3>13. /\ IsRecord(scheme, DataFields) /\ IsRecord(scheme2, DataFields)
           /\ scheme.scheme = data.scheme /\ scheme.scheme_size = so_far
           /\ \A name \in DataFields \ {"cursor"} : scheme2[name] = scheme[name]
      BY <1>4, <3>1, <3>2 DEF IsRecord, DataFields
    <3>14. DataAlike(scheme, scheme2, x.destination)
      BY <1>1, <1>4, <2>7, <3>9, <3>13 DEF DataAlike
    <3> QED
      BY <3>9, <3>10, <3>11, <3>12, <3>14, AuthorityPaired
  <2>11. CASE skip /\ Current(w) = ":"
    <3>1. PICK g : g = UnconsumeOneCharacter(w)
      OBVIOUS
    <3>2. PICK h : h = UnconsumeOneCharacter(v)
      OBVIOUS
    <3>3. w.destination > 1
      BY <1>1, <2>4, <2>5
    <3>4. Reads(g, n, 2) /\ Reads(h, n2, 2) /\ Paired(g, h)
          /\ g.destination = w.destination - 1
      <4>1. Reads(g, n, 1 + 1) /\ Reads(h, n2, 1 + 1) /\ Paired(g, h)
            /\ g.destination = w.destination - 1
        BY <2>4, <3>1, <3>2, <3>3, UnconsumePaired
      <4> QED
        BY <4>1
    <3>5. Reads(g, n, 1) /\ Reads(h, n2, 1)
      <4>1. 2 \in Int /\ 1 \in Int /\ 1 <= 2
        OBVIOUS
      <4> QED
        BY <3>4, <4>1, ReadsWithLess
    <3>6. r = RestOfAuthority(data, g, so_far)
      BY <1>4, <2>6, <2>8, <2>11, <3>1 DEF WithFirstWord
    <3>7. s = RestOfAuthority(other, h, so_far)
      BY <1>4, <2>5, <2>7, <2>9, <2>11, <3>2 DEF WithFirstWord
    <3>8. DataAlike(data, other, g.destination)
      BY <1>1, <1>4, <2>4, <2>5, <3>4 DEF DataAlike
    <3> QED
      BY <3>4, <3>5, <3>6, <3>7, <3>8, AuthorityPaired
  <2>12. CASE Current(w) # ":"
    <3>1. r = RestOfAuthority(data, w, so_far)
      BY <1>4, <2>6, <2>8, <2>12 DEF WithFirstWord
    <3>2. s = RestOfAuthority(other, v, so_far)
      BY <1>4, <2>5, <2>7, <2>9, <2>12 DEF WithFirstWord
    <3>3. DataAlike(data, other, w.destination)
      BY <1>1, <1>4, <2>4, <2>5 DEF DataAlike
    <3>4. \/ Reads(w, n, 2) /\ Reads(v, n2, 2)
          \/ Stuck(w, PartStarts \cup Ends)
      <4>1. CASE Stuck(w, stops \cup Ends) \/ Stuck(v, stops \cup Ends)
        BY <2>1, <2>5, <2>12, <4>1 DEF Stuck
      <4>2. CASE Reads(w, n, 2 + 2) /\ Reads(v, n2, 2 + 2)
        <5>1. 2 \in Int /\ 2 + 2 \in Int /\ 2 <= 2 + 2
          OBVIOUS
        <5> QED
          BY <4>2, <5>1, ReadsWithLess
      <4> QED
        BY <2>4, <4>1, <4>2 DEF WordEnded
    <3> QED
      BY <2>4, <3>1, <3>2, <3>3, <3>4, AuthorityPaired
  <2> QED
    BY <2>10, <2>11, <2>12
<1> QED
  BY <1>7, <1>8

LEMMA FirstPassPaired ==
  ASSUME NEW c, NEW n, Reads(c, n, 2), NEW f, NEW n2, Reads(f, n2, 2), Paired(c, f),
         NEW skip \in BOOLEAN, NEW r, r = FirstPass(c, skip),
         NEW s, s = FirstPass(f, skip)
  PROVE  DataPaired(r, s) /\ BothRead(r, n, s, n2, 0)
<1>1. PICK r1 : r1 = SchemeAndAuthority(NewData(c), skip)
  OBVIOUS
<1>2. PICK s1 : s1 = SchemeAndAuthority(NewData(f), skip)
  OBVIOUS
<1>3. /\ DataPaired(r1, s1) /\ BothRead(r1, n, s1, n2, 0)
      /\ IsPresent(r1.cursor, "/") => BothRead(r1, n, s1, n2, 1)
  BY <1>1, <1>2, SchemeAndAuthorityPaired
<1>4. PICK r2 : r2 = Token(r1, "path", "/", FALSE, {"?", "#"} \cup Ends)
  OBVIOUS
<1>5. PICK s2 : s2 = Token(s1, "path", "/", FALSE, {"?", "#"} \cup Ends)
  OBVIOUS
<1>6. DataPaired(r2, s2) /\ BothRead(r2, n, s2, n2, 0)
  <2>1. "path" \in MarkedParts /\ FALSE \in BOOLEAN
        /\ (~FALSE /\ IsPresent(r1.cursor, "/") => BothRead(r1, n, s1, n2, 1))
    BY <1>3 DEF MarkedParts
  <2> QED
    BY <1>3, <1>4, <1>5, <2>1, TokensPaired
<1>7. PICK r3 : r3 = Token(r2, "query", "?", TRUE, {"#"} \cup Ends)
  OBVIOUS
<1>8. PICK s3 : s3 = Token(s2, "query", "?", TRUE, {"#"} \cup Ends)
  OBVIOUS
<1>9. DataPaired(r3, s3) /\ BothRead(r3, n, s3, n2, 0)
  <2>1. "query" \in MarkedParts /\ TRUE \in BOOLEAN
        /\ (~TRUE /\ IsPresent(r2.cursor, "?") => BothRead(r2, n, s2, n2, 1))
    BY DEF MarkedParts
  <2> QED
    BY <1>6, <1>7, <1>8, <2>1, TokensPaired
<1>10. r = Token(r3, "fragment", "#", TRUE, Ends)
       /\ s = Token(s3, "fragment", "#", TRUE, Ends)
  BY <1>1, <1>2, <1>4, <1>5, <1>7, <1>8 DEF FirstPass
<1>11. "fragment" \in MarkedParts /\ TRUE \in BOOLEAN
       /\ (~TRUE /\ IsPresent(r3.cursor, "#") => BothRead(r3, n, s3, n2, 1))
  BY DEF MarkedParts
<1> QED
  BY <1>9, <1>10, <1>11, TokensPaired

-----------------------------------------------------------------------------
LEMMA BufferIsSequence ==
  ASSUME NEW b, NEW n, IsBuffer(b, n)
  PROVE  b \in Seq({b[i] : i \in 1 .. n}) /\ Len(b) = n
<1>1. n \in Nat /\ b \in [1 .. n -> {b[i] : i \in 1 .. n}]
  BY DEF IsBuffer
<1>2. b \in Seq({b[i] : i \in 1 .. n})
  BY <1>1
<1> QED
  BY <1>2, BufferLength

(* What is in a buffer from p on and in front of q. *)
Piece(b, p, q) == SubSeq(b, p, q - 1)

LEMMA PieceOfBuffer ==
  ASSUME NEW b, NEW n, IsBuffer(b, n), NEW p \in 1 .. n + 1, NEW q \in p .. n + 1,
         NEW t, t = Piece(b, p, q)
  PROVE  IsBuffer(t, q - p) /\ \A i \in 1 .. q - p : t[i] = b[p + i - 1]
<1>1. PICK S : S = {b[i] : i \in 1 .. n}
  OBVIOUS
<1>2. b \in Seq(S) /\ Len(b) = n /\ n \in Nat
  BY <1>1, BufferIsSequence DEF IsBuffer
<1>3. p \in 1 .. Len(b) + 1 /\ q - 1 \in p - 1 .. Len(b)
  BY <1>2
<1>4. t = SubSeq(b, p, q - 1)
  BY DEF Piece
<1>5. /\ t \in Seq(S) /\ Len(t) = (q - 1) - p + 1
      /\ \A i \in 1 .. (q - 1) - p + 1 : t[i] = b[p + i - 1]
  BY <1>2, <1>3, <1>4, SubSeqProperties
<1>6. (q - 1) - p + 1 = q - p /\ q - p \in Nat
  BY <1>2
<1>7. t \in [1 .. q - p -> S]
  BY <1>5, <1>6
<1> QED
  BY <1>5, <1>6, <1>7 DEF IsBuffer

LEMMA PiecesAlike ==
  ASSUME NEW b, NEW n, IsBuffer(b, n), NEW b2, NEW n2, IsBuffer(b2, n2),
         NEW m \in Int, m <= n, m <= n2, SameUpTo(b, b2, m),
         NEW p \in Nat \ {0}, NEW q \in Int, p <= q, q <= m + 1
  PROVE  Piece(b, p, q) = Piece(b2, p, q)
<1>1. n \in Nat /\ n2 \in Nat
  BY DEF IsBuffer
<1>2. /\ p \in 1 .. n + 1 /\ q \in p .. n + 1
      /\ p \in 1 .. n2 + 1 /\ q \in p .. n2 + 1
  BY <1>1
<1>3. PICK t : t = Piece(b, p, q)
  OBVIOUS
<1>4. PICK t2 : t2 = Piece(b2, p, q)
  OBVIOUS
<1>5. IsBuffer(t, q - p) /\ \A i \in 1 .. q - p : t[i] = b[p + i - 1]
  BY <1>2, <1>3, PieceOfBuffer
<1>6. IsBuffer(t2, q - p) /\ \A i \in 1 .. q - p : t2[i] = b2[p + i - 1]
  BY <1>2, <1>4, PieceOfBuffer
<1>7. \A i \in 1 .. q - p : p + i - 1 \in 1 .. m
  OBVIOUS
<1>8. \A i \in 1 .. q - p : t[i] = t2[i]
  BY <1>5, <1>6, <1>7 DEF SameUpTo
<1>9. t = t2
  BY <1>5, <1>6, <1>8 DEF IsBuffer
<1> QED
  BY <1>3, <1>4, <1>9

(* A string is the same in two buffers whose characters are the same up to *)
(* where it ends.                                                          *)
LEMMA StringsAlike ==
  ASSUME NEW b, NEW n, IsBuffer(b, n), NEW b2, NEW n2, IsBuffer(b2, n2),
         NEW m \in Int, m <= n, m <= n2, SameUpTo(b, b2, m),
         NEW p, IsEnded(b2, p, m)
  PROVE  StringAt(b, p) = StringAt(b2, p)
<1>1. CASE p = NULL
  BY <1>1 DEF StringAt
<1>2. CASE p # NULL
  <2>1. PICK i \in p .. m : b2[i] = "nul"
    BY <1>2 DEF IsEnded
  <2>2. p \in 1 .. m /\ n \in Nat /\ n2 \in Nat
    BY <1>2 DEF IsEnded, IsBuffer
  <2>3. Len(b) = n /\ Len(b2) = n2
    BY BufferLength
  <2>4. \A j \in 1 .. m : b[j] = b2[j]
    BY DEF SameUpTo
  <2>5. PICK found2 : found2 = {j \in p .. n2 : b2[j] \in {"nul"}}
    OBVIOUS
  <2>6. PICK found : found = {j \in p .. n : b[j] \in {"nul"}}
    OBVIOUS
  <2>7. i \in found2 /\ found2 \subseteq Nat
    BY <2>1, <2>2, <2>5
  <2>8. PICK c \in found2 : \A j \in found2 : c <= j
    BY <2>7, Least
  <2>9. c <= i /\ c \in p .. m /\ b2[c] = "nul"
    BY <2>1, <2>2, <2>5, <2>7, <2>8
  <2>10. c \in found /\ \A j \in found : c <= j
    <3>1. c \in found
      BY <2>2, <2>4, <2>6, <2>9
    <3>2. ASSUME NEW j \in found, j < c
          PROVE  FALSE
      <4>1. j \in p .. n /\ b[j] = "nul" /\ j \in 1 .. m /\ j \in p .. n2
        BY <2>2, <2>6, <2>9, <3>2
      <4>2. j \in found2
        BY <2>4, <2>5, <4>1
      <4> QED
        BY <2>2, <2>8, <2>9, <3>2, <4>1, <4>2
    <3>3. found \subseteq Int
      BY <2>2, <2>6
    <3> QED
      BY <2>9, <3>1, <3>2, <3>3
  <2>11. Cut(b2, p, {"nul"}) = c
    <3>1. Cut(b2, p, {"nul"}) = CHOOSE j \in found2 : \A k \in found2 : j <= k
      <4>1. found2 # {} /\ found2 = {j \in p .. Len(b2) : b2[j] \in {"nul"}}
        BY <2>3, <2>5, <2>7
      <4> QED
        BY <4>1, Zenon DEF Cut
    <3>2. ASSUME NEW j \in found2, \A k \in found2 : j <= k
          PROVE  j = c
      BY <2>7, <2>8, <3>2
    <3> QED
      BY <2>8, <3>1, <3>2
  <2>12. Cut(b, p, {"nul"}) = c
    <3>1. Cut(b, p, {"nul"}) = CHOOSE j \in found : \A k \in found : j <= k
      <4>1. found # {} /\ found = {j \in p .. Len(b) : b[j] \in {"nul"}}
        BY <2>3, <2>6, <2>10
      <4> QED
        BY <4>1, Zenon DEF Cut
    <3>2. ASSUME NEW j \in found, \A k \in found : j <= k
          PROVE  j = c
      <4>1. found \subseteq Int
        BY <2>2, <2>6
      <4> QED
        BY <2>10, <3>2, <4>1
    <3> QED
      BY <2>10, <3>1, <3>2
  <2>13. p \in Nat \ {0} /\ c \in Int /\ p <= c /\ c <= m + 1
    BY <2>2, <2>9
  <2>14. Piece(b, p, c) = Piece(b2, p, c)
    BY <2>13, PiecesAlike
  <2>15. StringAt(b, p) = Piece(b, p, c) /\ StringAt(b2, p) = Piece(b2, p, c)
    BY <1>2, <2>11, <2>12 DEF StringAt, Piece
  <2> QED
    BY <2>14, <2>15
<1> QED
  BY <1>1, <1>2

-----------------------------------------------------------------------------
(* Two results of the second pass agree, and so do their buffers up to m.  *)
Matched(parsed, n, other, n2, m) ==
  /\ IsRecord(parsed, {"uri", "buffer", "parsed"})
  /\ IsRecord(other, {"uri", "buffer", "parsed"})
  /\ other.uri = parsed.uri /\ other.parsed = parsed.parsed
  /\ IsRecord(parsed.uri, UriFields)
  /\ IsBuffer(parsed.buffer, n) /\ IsBuffer(other.buffer, n2)
  /\ SameUpTo(parsed.buffer, other.buffer, m)

LEMMA NullsMatched ==
  ASSUME NEW b, NEW n, IsBuffer(b, n), NEW b2, NEW n2, IsBuffer(b2, n2),
         NEW m \in Int, m <= n, m <= n2, SameUpTo(b, b2, m),
         NEW i, i = NULL \/ i \in 1 .. m,
         NEW x, x = Terminated(b, i), NEW y, y = Terminated(b2, i)
  PROVE  IsBuffer(x, n) /\ IsBuffer(y, n2) /\ SameUpTo(x, y, m)
<1>1. CASE i = NULL
  BY <1>1 DEF Terminated
<1>2. CASE i # NULL
  <2>1. i \in 1 .. m /\ i \in 1 .. n /\ i \in 1 .. n2 /\ n \in Nat /\ n2 \in Nat
    BY <1>2 DEF IsBuffer
  <2>2. x = [b EXCEPT ![i] = "nul"] /\ y = [b2 EXCEPT ![i] = "nul"]
    BY <1>2 DEF Terminated
  <2>3. IsBuffer(x, n) /\ \A j \in 1 .. n : x[j] = IF j = i THEN "nul" ELSE b[j]
    BY <2>1, <2>2 DEF IsBuffer
  <2>4. IsBuffer(y, n2) /\ \A j \in 1 .. n2 : y[j] = IF j = i THEN "nul" ELSE b2[j]
    BY <2>1, <2>2 DEF IsBuffer
  <2>5. \A j \in 1 .. m : j \in 1 .. n /\ j \in 1 .. n2
    BY <2>1
  <2>6. SameUpTo(x, y, m)
    BY <2>3, <2>4, <2>5 DEF SameUpTo
  <2> QED
    BY <2>3, <2>4, <2>6
<1> QED
  BY <1>1, <1>2

LEMMA FirstMatched ==
  ASSUME NEW b, NEW b2, NEW m \in Int, SameUpTo(b, b2, m),
         NEW begin \in Nat \ {0}, NEW size \in Nat, begin + size - 1 <= m, NEW ch
  PROVE  FirstOf(b, begin, size, ch) = FirstOf(b2, begin, size, ch)
<1>1. PICK found : found = {j \in begin .. begin + size - 1 : b[j] = ch}
  OBVIOUS
<1>2. found = {j \in begin .. begin + size - 1 : b2[j] = ch}
  <2>1. \A j \in begin .. begin + size - 1 : j \in 1 .. m
    OBVIOUS
  <2>2. \A j \in begin .. begin + size - 1 : b[j] = b2[j]
    BY <2>1 DEF SameUpTo
  <2> QED
    BY <1>1, <2>2
<1>3. CASE found = {}
  BY <1>1, <1>2, <1>3 DEF FirstOf
<1>4. CASE found # {}
  <2>1. FirstOf(b, begin, size, ch) = CHOOSE i \in found : \A j \in found : i <= j
    BY <1>1, <1>4 DEF FirstOf
  <2>2. FirstOf(b2, begin, size, ch) = CHOOSE i \in found : \A j \in found : i <= j
    BY <1>2, <1>4 DEF FirstOf
  <2> QED
    BY <2>1, <2>2
<1> QED
  BY <1>3, <1>4

LEMMA SchemeMatched ==
  ASSUME NEW parsed, NEW n, NEW other, NEW n2, NEW m, Matched(parsed, n, other, n2, m),
         NEW text, NEW r, r = ParseScheme(parsed, text),
         NEW s, s = ParseScheme(other, text)
  PROVE  Matched(r, n, s, n2, m)
<1>1. CASE text = <<>>
  BY <1>1 DEF ParseScheme
<1>2. CASE text # <<>> /\ text \in DOMAIN Schemes
  <2>1. PICK uri : uri = [parsed.uri EXCEPT !.scheme = text, !.port = Schemes[text]]
    OBVIOUS
  <2>2. r = [parsed EXCEPT !.uri = uri] /\ s = [other EXCEPT !.uri = uri]
    BY <1>2, <2>1 DEF ParseScheme, Matched, IsRecord, UriFields
  <2>3. IsRecord(uri, UriFields)
    BY <2>1 DEF Matched, IsRecord, UriFields
  <2> QED
    BY <2>2, <2>3 DEF Matched, IsRecord
<1>3. CASE text # <<>> /\ text \notin DOMAIN Schemes
  <2>1. PICK flag : flag = (parsed.uri.scheme # UNKNOWN)
    OBVIOUS
  <2>2. r = [parsed EXCEPT !.parsed = flag] /\ s = [other EXCEPT !.parsed = flag]
    BY <1>3, <2>1 DEF ParseScheme, Matched
  <2> QED
    BY <2>2 DEF Matched, IsRecord
<1> QED
  BY <1>1, <1>2, <1>3

LEMMA PortMatched ==
  ASSUME NEW parsed, NEW n, NEW other, NEW n2, NEW m, Matched(parsed, n, other, n2, m),
         NEW port, NEW number, NEW r, r = ParsePort(parsed, port, number),
         NEW s, s = ParsePort(other, port, number)
  PROVE  Matched(r, n, s, n2, m)
<1>1. CASE port = <<>>
  BY <1>1 DEF ParsePort
<1>2. CASE port # <<>> /\ (number.used = Len(port) /\ number.result \in 1 .. MaxPort)
  <2>1. PICK uri : uri = [parsed.uri EXCEPT !.port = number.result]
    OBVIOUS
  <2>2. r = [parsed EXCEPT !.uri = uri] /\ s = [other EXCEPT !.uri = uri]
    BY <1>2, <2>1 DEF ParsePort, Matched, IsRecord, UriFields
  <2>3. IsRecord(uri, UriFields)
    BY <2>1 DEF Matched, IsRecord, UriFields
  <2> QED
    BY <2>2, <2>3 DEF Matched, IsRecord
<1>3. CASE port # <<>> /\ ~(number.used = Len(port) /\ number.result \in 1 .. MaxPort)
  <2>1. r = [parsed EXCEPT !.parsed = FALSE] /\ s = [other EXCEPT !.parsed = FALSE]
    BY <1>3 DEF ParsePort
  <2> QED
    BY <2>1 DEF Matched, IsRecord
<1> QED
  BY <1>1, <1>2, <1>3

LEMMA PartMatched ==
  ASSUME NEW n, NEW n2, NEW m \in Int, m <= n, m <= n2,
         NEW parsed, NEW other, Matched(parsed, n, other, n2, m),
         NEW part \in UriStrings, NEW p, NEW i, i = NULL \/ i \in 1 .. m,
         NEW r, Puts(parsed, r, part, p, i), NEW s, Puts(other, s, part, p, i)
  PROVE  Matched(r, n, s, n2, m)
<1>1. PICK x : x = Terminated(parsed.buffer, i)
  OBVIOUS
<1>2. PICK y : y = Terminated(other.buffer, i)
  OBVIOUS
<1>3. IsBuffer(x, n) /\ IsBuffer(y, n2) /\ SameUpTo(x, y, m)
  BY <1>1, <1>2, NullsMatched DEF Matched
<1>4. PICK uri : uri = [parsed.uri EXCEPT ![part] = p]
  OBVIOUS
<1>5. /\ r = [parsed EXCEPT !.uri = uri, !.buffer = x]
      /\ s = [other EXCEPT !.uri = uri, !.buffer = y]
  BY <1>1, <1>2, <1>4 DEF Puts, Matched, IsRecord, UriFields
<1>6. IsRecord(uri, UriFields)
  BY <1>4 DEF Matched, IsRecord, UriFields, UriStrings
<1>7. /\ IsRecord(r, {"uri", "buffer", "parsed"})
      /\ r.uri = uri /\ r.buffer = x /\ r.parsed = parsed.parsed
  BY <1>5 DEF Matched, IsRecord
<1>8. /\ IsRecord(s, {"uri", "buffer", "parsed"})
      /\ s.uri = uri /\ s.buffer = y /\ s.parsed = other.parsed
  BY <1>5 DEF Matched, IsRecord
<1> QED
  BY <1>3, <1>6, <1>7, <1>8 DEF Matched

LEMMA HostMatched ==
  ASSUME NEW n, NEW n2, NEW m \in Int, m <= n, m <= n2,
         NEW parsed, NEW other, Matched(parsed, n, other, n2, m),
         NEW host \in Nat \ {0}, NEW size \in Nat, host + size <= m + 1,
         NEW i, i = NULL \/ i \in host .. host + size - 1,
         NEW r, r = ParseHost(parsed, host, size, i),
         NEW s, s = ParseHost(other, host, size, i)
  PROVE  Matched(r, n, s, n2, m)
<1>1. i = NULL \/ i \in 1 .. m
  OBVIOUS
<1>2. PICK port : port = IF i = NULL THEN <<>>
                         ELSE SubSeq(parsed.buffer, i + 1, host + size - 1)
  OBVIOUS
<1>3. port = IF i = NULL THEN <<>> ELSE SubSeq(other.buffer, i + 1, host + size - 1)
  <2>1. CASE i = NULL
    BY <1>2, <2>1
  <2>2. CASE i # NULL
    <3>1. PICK p \in Nat \ {0} : p = i + 1
      BY <2>2
    <3>2. PICK q \in Int : q = host + size
      OBVIOUS
    <3>3. p <= q /\ q <= m + 1
      BY <2>2, <3>1, <3>2
    <3>4. Piece(parsed.buffer, p, q) = Piece(other.buffer, p, q)
      BY <3>3, PiecesAlike DEF Matched
    <3>5. /\ Piece(parsed.buffer, p, q) = SubSeq(parsed.buffer, i + 1, host + size - 1)
          /\ Piece(other.buffer, p, q) = SubSeq(other.buffer, i + 1, host + size - 1)
      BY <3>1, <3>2 DEF Piece
    <3> QED
      BY <1>2, <2>2, <3>4, <3>5
  <2> QED
    BY <2>1, <2>2
<1>4. PICK f : f = [parsed EXCEPT !.uri.host = host, !.buffer = Terminated(@, i)]
  OBVIOUS
<1>5. PICK g : g = [other EXCEPT !.uri.host = host, !.buffer = Terminated(@, i)]
  OBVIOUS
<1>6. PICK number : number = ParseUnsignedInteger(port)
  OBVIOUS
<1>7. r = ParsePort(f, port, number)
  BY <1>2, <1>4, <1>6 DEF ParseHost
<1>8. s = ParsePort(g, port, number)
  BY <1>3, <1>5, <1>6 DEF ParseHost
<1>9. "host" \in UriStrings /\ Puts(parsed, f, "host", host, i)
      /\ Puts(other, g, "host", host, i)
  BY <1>4, <1>5 DEF UriStrings, Puts
<1>10. Matched(f, n, g, n2, m)
  BY <1>1, <1>9, PartMatched
<1> QED
  BY <1>7, <1>8, <1>10, PortMatched

LEMMA AuthorityMatched ==
  ASSUME NEW n, NEW n2, NEW m \in Int, m <= n, m <= n2,
         NEW parsed, NEW other, Matched(parsed, n, other, n2, m),
         NEW begin \in Nat \ {0}, NEW size \in Nat, size > 0 => begin + size <= m,
         NEW r, r = ParseAuthority(parsed, begin, size),
         NEW s, s = ParseAuthority(other, begin, size)
  PROVE  Matched(r, n, s, n2, m)
<1>1. CASE size = 0
  BY <1>1 DEF ParseAuthority
<1>2. CASE size > 0
  <2>1. begin + size <= m /\ begin + size <= m + 1 /\ begin + size - 1 <= m
    BY <1>2
  <2>2. SameUpTo(parsed.buffer, other.buffer, m)
    BY DEF Matched
  <2>3. PICK i : i = FirstOf(parsed.buffer, begin, size, "@")
    OBVIOUS
  <2>4. i = FirstOf(other.buffer, begin, size, "@")
        /\ (i = NULL \/ i \in begin .. begin + size - 1)
    BY <2>1, <2>2, <2>3, FirstMatched, FirstOfRange
  <2>5. r = ParseUserinfo(parsed, begin, size, i)
    BY <1>2, <2>3 DEF ParseAuthority
  <2>6. s = ParseUserinfo(other, begin, size, i)
    BY <1>2, <2>4 DEF ParseAuthority
  <2>7. CASE i = NULL
    <3>1. PICK j : j = FirstOf(parsed.buffer, begin, size, ":")
      OBVIOUS
    <3>2. j = FirstOf(other.buffer, begin, size, ":")
          /\ (j = NULL \/ j \in begin .. begin + size - 1)
      BY <2>1, <2>2, <3>1, FirstMatched, FirstOfRange
    <3>3. r = ParseHost(parsed, begin, size, j)
      BY <2>5, <2>7, <3>1 DEF ParseUserinfo
    <3>4. s = ParseHost(other, begin, size, j)
      BY <2>6, <2>7, <3>2 DEF ParseUserinfo
    <3> QED
      BY <2>1, <3>2, <3>3, <3>4, HostMatched
  <2>8. CASE i # NULL
    <3>1. i \in begin .. begin + size - 1 /\ i \in 1 .. m
      BY <2>1, <2>4, <2>8
    <3>2. PICK rest \in Nat : rest = begin + size - (i + 1)
      BY <3>1
    <3>3. PICK host \in Nat \ {0} : host = i + 1
      BY <3>1
    <3>4. host + rest <= m + 1 /\ host + rest - 1 <= m
      BY <2>1, <3>1, <3>2, <3>3
    <3>5. PICK f : f = [parsed EXCEPT !.uri.userinfo = begin,
                                      !.buffer = Terminated(@, i)]
      OBVIOUS
    <3>6. PICK g : g = [other EXCEPT !.uri.userinfo = begin,
                                     !.buffer = Terminated(@, i)]
      OBVIOUS
    <3>7. "userinfo" \in UriStrings /\ Puts(parsed, f, "userinfo", begin, i)
          /\ Puts(other, g, "userinfo", begin, i)
      BY <3>5, <3>6 DEF UriStrings, Puts
    <3>8. Matched(f, n, g, n2, m)
      BY <3>1, <3>7, PartMatched
    <3>9. PICK j : j = FirstOf(parsed.buffer, host, rest, ":")
      OBVIOUS
    <3>10. j = FirstOf(other.buffer, host, rest, ":")
           /\ (j = NULL \/ j \in host .. host + rest - 1)
      BY <2>2, <3>4, <3>9, FirstMatched, FirstOfRange
    <3>11. r = ParseHost(f, host, rest, j)
      BY <2>5, <2>8, <3>2, <3>3, <3>5, <3>9 DEF ParseUserinfo
    <3>12. s = ParseHost(g, host, rest, j)
      BY <2>6, <2>8, <3>2, <3>3, <3>6, <3>10 DEF ParseUserinfo
    <3> QED
      BY <3>4, <3>8, <3>10, <3>11, <3>12, HostMatched
  <2> QED
    BY <2>7, <2>8
<1> QED
  BY <1>1, <1>2

LEMMA SecondPassMatched ==
  ASSUME NEW data, NEW n, NEW other, NEW n2,
         DataPaired(data, other), BothRead(data, n, other, n2, 0),
         NEW b0, NEW e, DataOK(data, b0, n, 1, e),
         NEW uri, IsRecord(uri, UriFields), NEW m, m = data.cursor.destination - 1,
         NEW r, r = SecondPass(uri, data), NEW s, s = SecondPass(uri, other)
  PROVE  Matched(r, n, s, n2, m) /\ m \in Int /\ m <= n /\ m <= n2
<1>1. PICK c : c = data.cursor
  OBVIOUS
<1>2. PICK f : f = other.cursor
  OBVIOUS
<1>3. Reads(c, n, 0) /\ Reads(f, n2, 0) /\ Paired(c, f)
  BY <1>1, <1>2 DEF DataPaired, BothRead
<1>4. /\ m \in Nat /\ m <= n /\ m <= n2 /\ SameUpTo(c.buffer, f.buffer, m)
      /\ IsBuffer(c.buffer, n) /\ IsBuffer(f.buffer, n2)
  <2>1. /\ c.destination \in Nat \ {0} /\ c.destination + 0 <= c.source
        /\ c.source \in Nat /\ c.source_length \in Nat
        /\ c.source + c.source_length = n /\ IsBuffer(c.buffer, n)
    BY <1>3 DEF Reads
  <2>2. /\ f.destination = c.destination /\ c.destination + 0 <= f.source
        /\ f.source \in Nat /\ f.source_length \in Nat
        /\ f.source + f.source_length = n2 /\ IsBuffer(f.buffer, n2)
        /\ SameUpTo(c.buffer, f.buffer, c.destination - 1)
    BY <1>3 DEF Reads, Paired
  <2>3. m = c.destination - 1
    BY <1>1
  <2> QED
    BY <2>1, <2>2, <2>3
<1>5. Current(c) = Current(f) /\ c.source_length = f.source_length
  BY <1>3, SameCurrent
<1>6. PassedFirstPass(data) <=> PassedFirstPass(other)
  BY <1>1, <1>2, <1>5 DEF PassedFirstPass
<1>7. CASE ~PassedFirstPass(data)
  <2>1. r = [uri |-> uri, buffer |-> c.buffer, parsed |-> FALSE]
        /\ s = [uri |-> uri, buffer |-> f.buffer, parsed |-> FALSE]
    BY <1>1, <1>2, <1>6, <1>7 DEF SecondPass
  <2>2. /\ IsRecord(r, {"uri", "buffer", "parsed"})
        /\ IsRecord(s, {"uri", "buffer", "parsed"})
        /\ r.uri = uri /\ r.buffer = c.buffer /\ r.parsed = FALSE
        /\ s.uri = uri /\ s.buffer = f.buffer /\ s.parsed = FALSE
    BY <2>1 DEF IsRecord
  <2>3. Matched(r, n, s, n2, m)
    BY <1>4, <2>2 DEF Matched
  <2> QED
    BY <1>4, <2>3
<1>8. CASE PassedFirstPass(data)
  <2>1. PICK first : first = [uri |-> uri, buffer |-> c.buffer, parsed |-> TRUE]
    OBVIOUS
  <2>2. PICK first2 : first2 = [uri |-> uri, buffer |-> f.buffer, parsed |-> TRUE]
    OBVIOUS
  <2>3. Matched(first, n, first2, n2, m)
    BY <1>4, <2>1, <2>2 DEF Matched, IsRecord
  <2>4. /\ other.scheme = data.scheme /\ other.scheme_size = data.scheme_size
        /\ other.authority = data.authority
        /\ other.authority_size = data.authority_size
        /\ other.path = data.path /\ other.query = data.query
        /\ other.fragment = data.fragment
        /\ data.scheme \in Nat \ {0} /\ data.scheme_size \in Nat
        /\ data.scheme + data.scheme_size <= m + 1
    <3>1. DataAlike(data, other, data.cursor.destination)
          /\ data.cursor.destination = m + 1
      BY <1>1, <1>3 DEF DataPaired, Reads
    <3> QED
      BY <3>1 DEF DataAlike, DataFields
  <2>5. PICK text : text = TextAt(c.buffer, data.scheme, data.scheme_size)
    OBVIOUS
  <2>6. text = TextAt(f.buffer, other.scheme, other.scheme_size)
    <3>1. PICK p \in Nat \ {0} : p = data.scheme
      BY <2>4
    <3>2. PICK q \in Int : q = data.scheme + data.scheme_size
      BY <2>4
    <3>3. p <= q /\ q <= m + 1
      BY <2>4, <3>1, <3>2
    <3>4. Piece(c.buffer, p, q) = Piece(f.buffer, p, q)
      BY <1>4, <3>3, PiecesAlike
    <3>5. PICK last : last = q - 1
      OBVIOUS
    <3>6. data.scheme + data.scheme_size - 1 = last
      BY <2>4, <3>2, <3>5
    <3>7. Piece(c.buffer, p, q) = SubSeq(c.buffer, p, last)
          /\ Piece(f.buffer, p, q) = SubSeq(f.buffer, p, last)
      BY <3>5 DEF Piece
    <3>8. text = SubSeq(c.buffer, p, last)
      BY <2>5, <3>1, <3>6 DEF TextAt
    <3>9. TextAt(f.buffer, data.scheme, data.scheme_size) = SubSeq(f.buffer, p, last)
      BY <3>1, <3>6 DEF TextAt
    <3> QED
      BY <2>4, <3>4, <3>7, <3>8, <3>9
  <2>7. PICK second : second = ParseScheme(first, text)
    OBVIOUS
  <2>8. PICK second2 : second2 = ParseScheme(first2, text)
    OBVIOUS
  <2>9. Matched(second, n, second2, n2, m)
    BY <2>3, <2>7, <2>8, SchemeMatched
  <2>10. PICK third : third = ParseAuthority(second, data.authority,
                                             data.authority_size)
    OBVIOUS
  <2>11. PICK third2 : third2 = ParseAuthority(second2, data.authority,
                                               data.authority_size)
    OBVIOUS
  <2>12. Matched(third, n, third2, n2, m)
    <3>1. PICK begin : begin = data.authority
      OBVIOUS
    <3>2. PICK size : size = data.authority_size
      OBVIOUS
    <3>3. begin \in Nat \ {0} /\ size \in Nat /\ (size > 0 => begin + size <= m)
      BY <3>1, <3>2 DEF DataOK, IsEnded, NULL
    <3> QED
      BY <1>4, <2>9, <2>10, <2>11, <3>1, <3>2, <3>3, AuthorityMatched
  <2>13. r = [third EXCEPT !.uri.path = data.path, !.uri.query = data.query,
                           !.uri.fragment = data.fragment]
    BY <1>1, <1>8, <2>1, <2>5, <2>7, <2>10 DEF SecondPass
  <2>14. s = [third2 EXCEPT !.uri.path = data.path, !.uri.query = data.query,
                            !.uri.fragment = data.fragment]
    BY <1>2, <1>6, <1>8, <2>2, <2>4, <2>6, <2>8, <2>11 DEF SecondPass
  <2>15. PICK parts : parts = [third.uri EXCEPT !.path = data.path,
                                                !.query = data.query,
                                                !.fragment = data.fragment]
    OBVIOUS
  <2>16. r = [third EXCEPT !.uri = parts] /\ s = [third2 EXCEPT !.uri = parts]
    BY <2>12, <2>13, <2>14, <2>15 DEF Matched, IsRecord, UriFields
  <2>17. IsRecord(parts, UriFields)
    BY <2>12, <2>15 DEF Matched, IsRecord, UriFields
  <2>18. Matched(r, n, s, n2, m)
    BY <2>12, <2>16, <2>17 DEF Matched, IsRecord
  <2> QED
    BY <1>4, <2>18
<1> QED
  BY <1>4, <1>7, <1>8

(***************************************************************************)
(* The same text, parsed at two places: c reads from behind the whole      *)
(* destination, and f from two characters behind its begin, or more.       *)
(***************************************************************************)
LEMMA PlacesAlike ==
  ASSUME NEW c, NEW n, Reads(c, n, 2), NEW f, NEW n2, Reads(f, n2, 2), Paired(c, f),
         c.destination = 1, c.destination_length < n,
         NEW uri, UriOK(uri, c.buffer, 0), HasSpace(c.source_length, c.destination_length),
         NEW skip \in BOOLEAN,
         NEW r, r = Parse(uri, c, skip), NEW s, s = Parse(uri, f, skip)
  PROVE  r.parsed = s.parsed /\ Parts(r.uri, r.buffer) = Parts(s.uri, s.buffer)
<1>1. PICK data : data = FirstPass(c, skip)
  OBVIOUS
<1>2. PICK other : other = FirstPass(f, skip)
  OBVIOUS
<1>3. r = SecondPass(uri, data) /\ s = SecondPass(uri, other)
  BY <1>1, <1>2 DEF Parse, Paired
<1>4. DataPaired(data, other) /\ BothRead(data, n, other, n2, 0)
  BY <1>1, <1>2, FirstPassPaired
<1>5. PICK e \in Int : e = 1 + c.destination_length
  BY DEF Reads
<1>6. CursorOK(c, n, 1, e) /\ HasSlack(c, 3) /\ c.source_length >= 0 /\ e <= n
      /\ n \in Nat
  <2>1. /\ IsRecord(c, CursorFields) /\ IsBuffer(c.buffer, n)
        /\ c.source_length \in Nat /\ c.destination_length \in Int
        /\ c.destination_length - c.source_length > 2
    BY DEF Reads
  <2>2. n \in Nat
    BY <2>1 DEF IsBuffer
  <2>3. CursorOK(c, n, 1, e)
    BY <1>5, <2>1 DEF CursorOK
  <2>4. HasSlack(c, 3)
    BY <2>1 DEF HasSlack
  <2> QED
    BY <1>5, <2>1, <2>2, <2>3, <2>4
<1>7. 1 \in Nat \ {0} /\ 1 - 1 = 0
  OBVIOUS
<1>8. DataOK(data, c.buffer, n, 1, e) /\ HasSlack(data.cursor, 0)
  BY <1>1, <1>6, <1>7, FirstPassEnds
<1>9. PICK m : m = data.cursor.destination - 1
  OBVIOUS
<1>10. Matched(r, n, s, n2, m) /\ m \in Int /\ m <= n /\ m <= n2
  BY <1>3, <1>4, <1>8, <1>9, SecondPassMatched DEF UriOK
<1>11. UriOK(r.uri, r.buffer, m)
  <2>1. PICK b : b = data.cursor.buffer
    OBVIOUS
  <2>2. UriOK(uri, c.buffer, 1 - 1)
    BY <1>7
  <2> QED
    BY <1>3, <1>6, <1>7, <1>8, <1>9, <2>1, <2>2, SecondPassEnds
<1>12. ASSUME NEW part \in UriStrings
       PROVE  StringAt(s.buffer, s.uri[part]) = StringAt(r.buffer, r.uri[part])
  <2>1. PICK p : p = r.uri[part]
    OBVIOUS
  <2>2. IsEnded(r.buffer, p, m) /\ p = s.uri[part]
    BY <1>10, <1>11, <2>1 DEF UriOK, Matched
  <2>3. SameUpTo(s.buffer, r.buffer, m)
    BY <1>10 DEF Matched, SameUpTo
  <2>4. IsBuffer(r.buffer, n) /\ IsBuffer(s.buffer, n2)
    BY <1>10 DEF Matched
  <2>5. StringAt(s.buffer, p) = StringAt(r.buffer, p)
    BY <1>10, <2>2, <2>3, <2>4, StringsAlike
  <2> QED
    BY <2>1, <2>2, <2>5
<1>13. s.uri = r.uri /\ s.parsed = r.parsed
  BY <1>10 DEF Matched
<1> QED
  BY <1>12, <1>13 DEF Parts, UriStrings
=============================================================================
