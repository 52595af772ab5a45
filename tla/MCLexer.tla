------------------------------- MODULE MCLexer -------------------------------
(***************************************************************************)
(* Every stream of up to MaxBytes bytes, in chunks of every size.          *)
(***************************************************************************)
EXTENDS Lexer

CONSTANT MaxBytes

AnyChunk(d) ==
  UNION {[1 .. k -> Bytes] : k \in {k \in 1 .. chunk_size : Len(d) + k <= MaxBytes}}
=============================================================================
