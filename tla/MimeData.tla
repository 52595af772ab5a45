------------------------------ MODULE MimeData ------------------------------
(***************************************************************************)
(* mime_data<value_type>: the table that hands out registration values for *)
(* MIME type (or subtype) names, and the validity test mime_handler builds *)
(* on two of these tables.  A table is a record with the three members of  *)
(* the class:                                                              *)
(*   next        next_value_, an unsigned integer of the enum's width;     *)
(*   registered  registered_types_, from value to the name as given;       *)
(*   trie        types_, from the case-folded name to the value.           *)
(* A name is a pair <<word, spelling>>: two names that differ only in case *)
(* have the same word.                                                     *)
(***************************************************************************)
EXTENDS Naturals, FiniteSets

INVALID  == 0
NONE     == 1
WILDCARD == 2

(* The name the constructor registers, and the name register_type refuses. *)
Star  == << <<"*">>, <<"*">> >>
Empty == << <<>>, <<>> >>

(* The trie compares characters case-insensitively. *)
Fold(name) == name[1]

Without(f, S) == [x \in DOMAIN f \ S |-> f[x]]
With(f, x, v) == [y \in DOMAIN f \cup {x} |-> IF y = x THEN v ELSE f[y]]

(***************************************************************************)
(* register_type: refused for the empty name, after the counter wrapped to *)
(* zero, and for a name the trie holds already.  The counter is an         *)
(* unsigned integer with Limit values.                                     *)
(***************************************************************************)
CanRegister(table, name) ==
  /\ name # Empty
  /\ table.next # 0
  /\ Fold(name) \notin DOMAIN table.trie

RegisterType(table, name, Limit) ==
  IF CanRegister(table, name)
  THEN [next       |-> (table.next + 1) % Limit,
        registered |-> With(table.registered, table.next, name),
        trie       |-> With(table.trie, Fold(name), table.next)]
  ELSE table

(* The value register_type returns. *)
RegisteredValue(table, name) ==
  IF CanRegister(table, name) THEN table.next ELSE INVALID

NewTable(Limit) ==
  RegisterType([next |-> WILDCARD, registered |-> <<>>, trie |-> <<>>],
               Star, Limit)

IsRegistered(table, value) == value \in DOMAIN table.registered

(***************************************************************************)
(* unregister_type: erases the value's name from the trie and the value    *)
(* from the map.                                                           *)
(***************************************************************************)
\* Mutants: the name stays in the trie; the value is handed out again.
UnregisterValue(table, value) ==
  [table EXCEPT !.registered = Without(@, {value})]

UnregisterLast(table, value) ==
  IF IsRegistered(table, value)
  THEN [next       |-> IF table.next = value + 1 THEN value ELSE table.next,
        registered |-> Without(table.registered, {value}),
        trie       |-> Without(table.trie, {Fold(table.registered[value])})]
  ELSE table

UnregisterType(table, value) ==
  IF IsRegistered(table, value)
  THEN [table EXCEPT
          !.registered = Without(@, {value}),
          !.trie       = Without(@, {Fold(table.registered[value])})]
  ELSE table

(* parse_type: the value of a name, INVALID for a name that is unknown. *)
ParseType(table, name) ==
  IF Fold(name) \in DOMAIN table.trie THEN table.trie[Fold(name)] ELSE INVALID

-----------------------------------------------------------------------------
(***************************************************************************)
(* mime_handler's validity test on a pair <<type, subtype>>.               *)
(***************************************************************************)
IsBothUnsetOrSet(m) == (m[1] = NONE) <=> (m[2] = NONE)

IsMimeValid(types, subtypes, m) ==
  /\ IsBothUnsetOrSet(m)
  /\ m[1] # INVALID /\ m[2] # INVALID
  /\ \/ m[1] = NONE
     \/ m[2] = NONE
     \/ IsRegistered(types, m[1]) /\ IsRegistered(subtypes, m[2])

HasWildcard(m) == m[1] = WILDCARD \/ m[2] = WILDCARD
=============================================================================
