--------------------------- MODULE MCDemultiplexer ---------------------------
(***************************************************************************)
(* Small instances of the demultiplexer for TLC.                           *)
(***************************************************************************)
EXTENDS Demultiplexer

(***************************************************************************)
(* MIME pairs: unset, the first one a program registers, and wildcards.    *)
(***************************************************************************)
Unset    == <<NONE, NONE>>
Custom   == <<3, 3>>
AnyType  == <<WILDCARD, WILDCARD>>

Id(path, content, accept) ==
  [path |-> path, method |-> 0, content_type |-> content, accept_type |-> accept]

Request(path, content, accept) ==
  [path |-> path, method |-> 0, content_type |-> content, accept |-> accept]

(* Types of one resource, one of which is refused, and two resources. *)
IdsOneResource  == {Id(1, Unset, Unset), Id(1, Unset, Custom),
                    Id(1, Unset, AnyType)}
IdsTwoResources == {Id(1, Unset, Unset), Id(2, Unset, Unset)}

RequestsOneResource  == {Request(1, Unset, <<AnyType>>),
                         Request(1, Unset, <<Custom, Unset>>)}
RequestsTwoResources == {Request(1, Unset, <<Unset>>),
                         Request(2, Unset, <<AnyType>>)}

AllPaths == {1, 2}

Word(w) == << <<w>>, <<w>> >>
OneName  == {Word("text")}
NoNames  == {}
NoValues == {}
CustomValue == {3}
UnsetValue  == {NONE}
=============================================================================
