------------------------------- MODULE Parsing -------------------------------
(***************************************************************************)
(* parse_unsigned_integer, on a text given as the sequence of its          *)
(* characters, and skip_whitespace.                                        *)
(***************************************************************************)
EXTENDS Integers, SequencesExt

CONSTANTS
  Digit,   \* the values of the characters that are digits
  Bits     \* the width of result_type

ASSUME ParsingAssumption == Bits \in Nat \ {0}

Largest == 2 ^ (Bits - 1) - 1

Wrapped(n) == ((n + 2 ^ (Bits - 1)) % (2 ^ Bits)) - 2 ^ (Bits - 1)

Whitespace == {"blank", "cr", "lf"}

(* The number of characters skip_whitespace skips. *)
SkippedBy(text) ==
  LET others == {i \in DOMAIN text : text[i] \notin Whitespace}
  IN  IF others = {} THEN Len(text)
      ELSE (CHOOSE i \in others : \A j \in others : i <= j) - 1

-----------------------------------------------------------------------------
nothing_read_error == -1
overflow_error == -2

(* The overflow of a signed number is undefined; it wraps in the builds of *)
(* the repository, which keep the test for it too.                         *)
Shifted(result, digit) == Wrapped(result * 10 + digit)

(* The value, and the number of characters read. *)
ParseUnsignedInteger(text) ==
  LET read(p, c) ==
        IF p.stop \/ c \notin DOMAIN Digit THEN [p EXCEPT !.stop = TRUE]
        ELSE LET result   == Shifted(p.result, Digit[c])
                 overflow == p.result > result
             IN  [result |-> IF overflow THEN overflow_error ELSE result,
                  used   |-> p.used + 1,
                  stop   |-> overflow]
      none == [result |-> nothing_read_error, used |-> 0, stop |-> TRUE]
  IN  IF text = <<>> \/ Head(text) \notin DOMAIN Digit THEN none
      ELSE FoldLeft(read, [result |-> 0, used |-> 0, stop |-> FALSE], text)

-----------------------------------------------------------------------------
(* What a text of digits means, as a natural number. *)
Number(text) ==
  FoldLeft(LAMBDA n, c : n * 10 + Digit[c], 0, text)

IsNumber(text) == text # <<>> /\ \A i \in DOMAIN text : text[i] \in DOMAIN Digit
=============================================================================
