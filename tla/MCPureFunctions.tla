-------------------------- MODULE MCPureFunctions --------------------------
(***************************************************************************)
(* Each character that parse treats in its own way, escape sequences that  *)
(* are whole, cut off or, before another piece, wrong, and a scheme of one *)
(* letter.                                                                 *)
(***************************************************************************)
EXTENDS PureFunctions, TLC

DigitTable ==
  "0" :> 0 @@ "1" :> 1 @@ "2" :> 2 @@ "3" :> 3 @@ "4" :> 4
    @@ "5" :> 5 @@ "6" :> 6 @@ "7" :> 7 @@ "8" :> 8 @@ "9" :> 9

HexTable == [p \in {<<"9", "9">>} |-> ":"]

SchemeTable == [s \in {<<"t">>} |-> 80]

SomeCharacters == {"t", "9", ":", "/", "?", "#", "@", "blank"}

PieceSet ==
  {<<c>> : c \in SomeCharacters}
    \cup {<<"%", "9", "9">>, <<"%", "9">>, <<"t", "@", "t">>, <<":", "0">>}

(* The ends of the range, and bytes that differ in all of their sextets. *)
ByteTable ==
  "t" :> 255 @@ "9" :> 0 @@ ":" :> 1 @@ "/" :> 128 @@ "?" :> 165 @@ "#" :> 90
    @@ "@" :> 254 @@ "blank" :> 64 @@ "%" :> 27 @@ "0" :> 85

(* TLC evaluates a constant's definition again at each use, unless it is a *)
(* name of another.                                                        *)
DigitValues  == DigitTable
DecodedPairs == HexTable
SchemePorts  == SchemeTable
SomePieces   == PieceSet
ByteValues   == ByteTable
=============================================================================
