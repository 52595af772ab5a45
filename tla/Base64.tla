------------------------------- MODULE Base64 -------------------------------
(***************************************************************************)
(* encode_base64 and decode_base64.  Bytes are numbers, and an encoded     *)
(* string is the sequence of its characters.  Both functions gather bits   *)
(* in a backlog of 32 bits that is never cleared; of it the low 24 bits    *)
(* are used, and no more are kept here.                                    *)
(***************************************************************************)
EXTENDS Integers, SequencesExt

evaluation_chunk_size        == 3
sextets_per_evaluation_chunk == 4

base64_encoder_map ==
  LET tokens == "ABCDEFGHIJKLMNOPQRSTUVWXYZabcdefghijklmnopqrstuvwxyz0123456789+/"
  IN  [n \in 0 .. 63 |-> SubSeq(tokens, n + 1, n + 1)]

(* The other alphabet for 62 and 63 is understood, too. *)
base64_decoder_map ==
  LET tokens == {base64_encoder_map[n] : n \in DOMAIN base64_encoder_map}
  IN  [c \in tokens \cup {"-", "_"} |->
         CASE c = "-" -> 62
           [] c = "_" -> 63
           [] OTHER   -> CHOOSE n \in 0 .. 63 : base64_encoder_map[n] = c]

-----------------------------------------------------------------------------
(* The first of the four sextets of a backlog. *)
Sextets(bit_backlog, count) ==
  [i \in 1 .. count |->
     base64_encoder_map[(bit_backlog \div 64 ^ (sextets_per_evaluation_chunk - i)) % 64]]

append_base64_last_bytes(e) ==
  IF e.count = 0 THEN e.result
  ELSE e.result \o Sextets((e.backlog % 256 ^ e.count) * 256 ^ (3 - e.count), e.count + 1)
         \o [i \in 1 .. evaluation_chunk_size - e.count |-> "="]

EncodeByte(e, byte) ==
  LET backlog == (e.backlog % 256 ^ 2) * 256 + byte
  IN  IF e.count + 1 = evaluation_chunk_size
      THEN [result |-> e.result \o Sextets(backlog, sextets_per_evaluation_chunk),
            backlog |-> backlog, count |-> 0]
      ELSE [e EXCEPT !.backlog = backlog, !.count = @ + 1]

encode_base64(data) ==
  append_base64_last_bytes(
    FoldLeft(EncodeByte, [result |-> <<>>, backlog |-> 0, count |-> 0], data))

-----------------------------------------------------------------------------
(* The first of the three bytes of a backlog. *)
BytesOf(bit_backlog, count) ==
  [i \in 1 .. count |->
     (bit_backlog \div 256 ^ (evaluation_chunk_size - i)) % 256]

(* A character that is no token is discarded. *)
DecodeCharacter(d, c) ==
  IF c \notin DOMAIN base64_decoder_map THEN d
  ELSE LET backlog == (d.backlog % 64 ^ 3) * 64 + base64_decoder_map[c]
       IN  IF d.count + 1 = sextets_per_evaluation_chunk
           THEN [result |-> d.result \o BytesOf(backlog, 3),
                 backlog |-> backlog, count |-> 0]
           ELSE [d EXCEPT !.backlog = backlog, !.count = @ + 1]

(* Mutant: the bits that are left over make a byte of their own. *)
DecodedWithRest(d) ==
  IF d.count = 0 THEN d.result
  ELSE d.result \o BytesOf((d.backlog % 64 ^ d.count) * 64 ^ (4 - d.count), d.count)

(* One sextet is no byte: nothing is decoded then. *)
DecodedLast(d) ==
  CASE d.count = 0 -> d.result
    [] d.count = 1 -> <<>>
    [] OTHER -> d.result
         \o BytesOf((d.backlog % 64 ^ d.count) * 64 ^ (4 - d.count), d.count - 1)

decode_base64(encoded_string) ==
  DecodedLast(FoldLeft(DecodeCharacter, [result |-> <<>>, backlog |-> 0, count |-> 0],
                       encoded_string))

-----------------------------------------------------------------------------
(***************************************************************************)
(* RFC 4648, as a sequence of bits that is divided in another way.         *)
(***************************************************************************)
BitsOf(n, width) == [i \in 1 .. width |-> (n \div 2 ^ (width - i)) % 2]

NumberOf(bits) == FoldLeft(LAMBDA n, bit : 2 * n + bit, 0, bits)

AllBits(numbers, width) == FlattenSeq([i \in DOMAIN numbers |-> BitsOf(numbers[i], width)])

(* The numbers of the given width that bits consists of, and fill. *)
Divided(bits, width, count) ==
  LET bit(i) == IF i \in DOMAIN bits THEN bits[i] ELSE 0
  IN  [k \in 1 .. count |-> NumberOf([i \in 1 .. width |-> bit((k - 1) * width + i)])]

(***************************************************************************)
(* Bytes are encoded as RFC 4648 says, and the padding makes the string a  *)
(* whole number of chunks.  It is decoded to the same bytes, with other    *)
(* characters put between them and without its padding.                    *)
(***************************************************************************)
IsEncodedRight(data) ==
  LET encoded == encode_base64(data)
      tokens  == Divided(AllBits(data, 8), 6, (8 * Len(data) + 5) \div 6)
      padding == 4 * ((Len(data) + 2) \div 3) - Len(tokens)
  IN  /\ encoded = [i \in DOMAIN tokens |-> base64_encoder_map[tokens[i]]]
                     \o [i \in 1 .. padding |-> "="]
      /\ decode_base64(encoded) = data
      /\ decode_base64(SubSeq(encoded, 1, Len(tokens))) = data
      /\ decode_base64(FlattenSeq([i \in DOMAIN encoded |-> <<"blank", encoded[i]>>])) = data

(***************************************************************************)
(* Whatever a string contains, its tokens are decoded to the bytes they    *)
(* have all bits of, and to none when there are bits for no further byte.  *)
(***************************************************************************)
IsDecodedRight(encoded_string) ==
  LET tokens == SelectSeq(encoded_string, LAMBDA c : c \in DOMAIN base64_decoder_map)
      bits   == AllBits([i \in DOMAIN tokens |-> base64_decoder_map[tokens[i]]], 6)
  IN  decode_base64(encoded_string) =
        IF Len(tokens) % 4 = 1 THEN <<>>
        ELSE Divided(bits, 8, (6 * Len(tokens)) \div 8)
=============================================================================
