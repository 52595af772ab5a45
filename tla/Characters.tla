----------------------------- MODULE Characters -----------------------------
(***************************************************************************)
(* The functions on single characters, which are numbers here as they are  *)
(* in the code's tables, and is_valid_url_path.                            *)
(***************************************************************************)
EXTENDS Integers, Sequences
LOCAL INSTANCE SequencesExt

byte_state_count   == 256
letter_case_offset == 32

(* A string's characters, of which some have names. *)
CharsOf(string) ==
  [i \in 1 .. Len(string) |->
     LET c == SubSeq(string, i, i)
     IN  CASE c = " "  -> "blank"
           [] c = "\n" -> "lf"
           [] c = "\r" -> "cr"
           [] OTHER    -> c]

(* The characters that can be printed, from 32 on. *)
ascii ==
  CharsOf(" !") \o <<"quote">>
    \o CharsOf("#$%&'()*+,-./0123456789:;<=>?@ABCDEFGHIJKLMNOPQRSTUVWXYZ[")
    \o <<"backslash">> \o CharsOf("]^_") \o <<"backquote">>
    \o CharsOf("abcdefghijklmnopqrstuvwxyz{|}~")

CodeOf(c) == 31 + CHOOSE i \in DOMAIN ascii : ascii[i] = c

CharOf(code) ==
  CASE code = 0                 -> "nul"
    [] code = 10                -> "lf"
    [] code = 13                -> "cr"
    [] code - 31 \in DOMAIN ascii -> ascii[code - 31]
    [] OTHER                    -> "other"

CodesOf(string) ==
  LET chars == CharsOf(string) IN [i \in DOMAIN chars |-> CodeOf(chars[i])]

UpperLetters == 65 .. 90
LowerLetters == 97 .. 122
DigitCodes   == 48 .. 57

to_lower(c) == IF c \in UpperLetters THEN c + letter_case_offset ELSE c

not_hexadecimal == 255

from_hex(c) ==
  CASE c \in DigitCodes    -> c - 48
    [] c \in 65 .. 70  -> c - 65 + 10
    [] c \in 97 .. 102 -> c - 97 + 10
    [] OTHER           -> not_hexadecimal

(* The places of the table that are true. *)
is_valid_url_path_character(c) ==
  c \in {33, 36, 37} \cup 38 .. 59 \cup {61} \cup 64 .. 91 \cup {93, 95}
          \cup LowerLetters \cup {126}

make_select_char_map(selection_characters) ==
  {selection_characters[i] : i \in DOMAIN selection_characters}

-----------------------------------------------------------------------------
slash == 47

(* One turn of the loop; the first character that is wrong ends it. *)
CheckCharacter(p, c) ==
  [must_be_a_slash  |-> FALSE,
   could_be_a_slash |-> ~(p.could_be_a_slash /\ c = slash),
   result           |-> /\ p.result
                        /\ p.must_be_a_slash => c = slash
                        /\ ~p.could_be_a_slash => c # slash
                        /\ is_valid_url_path_character(c)]

is_valid_url_path(path) ==
  FoldLeft(CheckCharacter,
           [must_be_a_slash |-> TRUE, could_be_a_slash |-> TRUE, result |-> TRUE],
           path).result

(***************************************************************************)
(* The paths that handlers are connected to begin with a slash, and have   *)
(* no empty segment but the last.  An empty path is one of them.           *)
(***************************************************************************)
IsPathCheckedRight(path) ==
  is_valid_url_path(path) <=>
    /\ path = <<>> \/ Head(path) = slash
    /\ \A i \in DOMAIN path :
         /\ is_valid_url_path_character(path[i])
         /\ path[i] = slash => i = 1 \/ path[i - 1] # slash
=============================================================================
