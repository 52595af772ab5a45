---------------------------- MODULE MCMimeTable ----------------------------
(***************************************************************************)
(* Words that begin with each other, in several spellings, the wildcard    *)
(* and the empty name.                                                     *)
(***************************************************************************)
EXTENDS MimeTrie

CaseOf == [c \in {"a", "A", "b", "B"} |->
             CASE c = "a" -> "A" [] c = "A" -> "a"
               [] c = "b" -> "B" [] c = "B" -> "b"]

Letters == DOMAIN CaseOf

SomeNames ==
  {<<Word(s), s>> : s \in {<<"a">>, <<"A">>, <<"A", "b">>, <<"a", "B">>,
                           <<"B">>}}
    \cup {Star, Empty}

SomeTexts ==
  UNION {[1 .. n -> Letters] : n \in 0 .. 2} \cup
    {<<"*">>, <<"a", "*">>, <<"A", "b", "*">>}
=============================================================================
