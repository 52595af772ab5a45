---------------------------- MODULE PureFunctions ----------------------------
(***************************************************************************)
(* The functions that keep no state, on inputs that grow step by step: the *)
(* days of DateCalculation's calendar, whose timestamps are parsed, and on *)
(* its first day texts put together from pieces: uris, numbers, base64,    *)
(* and the bytes that are encoded.  The day's number also is the size of a *)
(* message that calculate_md5 divides into blocks.                         *)
(***************************************************************************)
EXTENDS Timestamp, UriMeaning, Base64, Md5

CONSTANTS
  Pieces,      \* the texts that a text is put together from
  MaxPieces,   \* bound on their number
  Gaps,        \* by how many bytes the destination begins before the source
  Byte,        \* the bytes that are encoded, one for each character
  MaxSize      \* bound on the size of the messages

ASSUME PiecesAssumption == Pieces \subseteq Seq(DOMAIN Byte)

(* Two bytes or more, as the request's buffers do. *)
ASSUME GapsAssumption == Gaps \subseteq Nat \ {0, 1}

VARIABLES text,    \* the text
          pieces   \* the number of its pieces

allVars == <<vars, text, pieces>>

InitAll == Init /\ text = <<>> /\ pieces = 0

Extend ==
  /\ elapsed = 0 /\ pieces < MaxPieces
  /\ \E piece \in Pieces : text' = text \o piece
  /\ pieces' = pieces + 1
  /\ UNCHANGED vars

NextAll ==
  \/ Extend
  \/ pieces = 0 /\ Next /\ UNCHANGED <<text, pieces>>

SpecAll == InitAll /\ [][NextAll]_allVars

-----------------------------------------------------------------------------
(* A text behind gap bytes, parsed to the begin of the buffer; a blank is  *)
(* behind it, as in a request.                                             *)
Buffer(t, gap) == [i \in 1 .. gap |-> "gap"] \o t \o <<"blank">>

ParsedWithGap(t, gap, size, skip_scheme) ==
  Parse(NewUri, Cursor(Buffer(t, gap), gap + 1, Len(t), 1, size), skip_scheme)

Space(t) == Len(t) + maximum_uri_enlargement

ParsedApart(t, skip_scheme) ==
  ParsedWithGap(t, Space(t), Space(t), skip_scheme)

-----------------------------------------------------------------------------
(***************************************************************************)
(* An uri is divided where it should be, and each part is decoded, whether *)
(* its text begins with a scheme, an authority, or a path: the first pass  *)
(* takes an authority for a scheme until it knows better.                  *)
(***************************************************************************)
PartsAreFound ==
  \A skip_scheme \in BOOLEAN :
    IsProper(text) =>
      LET result  == ParsedApart(text, skip_scheme)
          meaning == Meaning(text, skip_scheme)
      IN  /\ result.parsed = meaning.is_valid
          /\ result.parsed => Parts(result.uri, result.buffer) = meaning.parts

(***************************************************************************)
(* The destination may overlap the source when it begins two bytes or more *)
(* before it, as the request's buffers do: no null character behind a part *)
(* overwrites what is still to be read.                                    *)
(***************************************************************************)
BuffersMayOverlap ==
  \A skip_scheme \in BOOLEAN, gap \in Gaps :
    LET apart   == ParsedApart(text, skip_scheme)
        overlap == ParsedWithGap(text, gap, Space(text), skip_scheme)
    IN  /\ overlap.parsed = apart.parsed
        /\ apart.parsed => Parts(overlap.uri, overlap.buffer)
                             = Parts(apart.uri, apart.buffer)

(***************************************************************************)
(* "The disassembled parts may need at most 3 bytes more of space, than    *)
(* the original source data": no byte behind this space is written,        *)
(* whatever the text is.                                                   *)
(***************************************************************************)
StaysInDestination ==
  \A skip_scheme \in BOOLEAN, size \in 0 .. Space(text) :
    LET gap    == Space(text)
        before == Buffer(text, gap)
        after  == ParsedWithGap(text, gap, size, skip_scheme).buffer
    IN  \A i \in size + 1 .. Len(before) : after[i] = before[i]

-----------------------------------------------------------------------------
(***************************************************************************)
(* encode_base64 and decode_base64 are the ones of RFC 4648, for any       *)
(* number of bytes, and of characters that remain behind the last chunk.   *)
(***************************************************************************)
CodedAsInRfc4648 ==
  /\ IsEncodedRight([i \in DOMAIN text |-> Byte[text[i]]])
  /\ IsDecodedRight(text)

(***************************************************************************)
(* calculate_md5 processes the message and the padding RFC 1321 wants,     *)
(* whatever space there is behind the message in its last block, and each  *)
(* block as RFC 1321 does, though it moves indices and not the registers.  *)
(***************************************************************************)
Message(size) == [i \in 1 .. size |-> (i * i + size) % 256]

MessagesAreDigested ==
  pieces = 0 /\ elapsed <= MaxSize =>
    IsPaddedRight(Message(elapsed)) /\ IsProcessedRight(Message(elapsed))
=============================================================================
