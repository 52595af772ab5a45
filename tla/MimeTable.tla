------------------------------ MODULE MimeTable ------------------------------
(***************************************************************************)
(* One mime_data table over the life of the program.  Every operation runs *)
(* under mime_handler's mutex, so any number of threads amounts to one     *)
(* sequence of the two operations that change the table.                   *)
(***************************************************************************)
EXTENDS MimeData

CONSTANTS
  Names,   \* the names passed to register_type, as pairs <<word, spelling>>
  Limit    \* number of values of next_value_: 2^8 for types, 2^16 for subtypes

ASSUME TableAssumption == Limit \in Nat /\ Limit > WILDCARD + 1

VARIABLES
  table,     \* the table
  retired    \* history: the values that have been unregistered

vars == <<table, retired>>

Init == table = NewTable(Limit) /\ retired = {}

Register(name) ==
  /\ table' = RegisterType(table, name, Limit)
  /\ UNCHANGED retired

Unregister(value) ==
  /\ IsRegistered(table, value)
  /\ table' = UnregisterType(table, value)
  /\ retired' = retired \cup {value}

Next ==
  \/ \E name \in Names : Register(name)
  \/ \E value \in WILDCARD .. Limit - 1 : Unregister(value)

Spec == Init /\ [][Next]_vars

-----------------------------------------------------------------------------
(***************************************************************************)
(* The map from values to names and the trie from names to values are      *)
(* inverse to each other, over every sequence of registrations and         *)
(* unregistrations, whatever the spelling: parse_type reads the one and    *)
(* is_registered the other, and unregister_type tells them apart.          *)
(***************************************************************************)
TablesAgree ==
  /\ \A v \in DOMAIN table.registered :
       /\ Fold(table.registered[v]) \in DOMAIN table.trie
       /\ table.trie[Fold(table.registered[v])] = v
  /\ \A w \in DOMAIN table.trie :
       /\ table.trie[w] \in DOMAIN table.registered
       /\ Fold(table.registered[table.trie[w]]) = w

(***************************************************************************)
(* A value that was unregistered never becomes valid again, also after the *)
(* counter wrapped: a request handler id that still holds it cannot come   *)
(* to mean another type.                                                   *)
(***************************************************************************)
RetiredStayRetired ==
  \A v \in retired : ~IsRegistered(table, v)

(***************************************************************************)
(* The counter and the values are in the range of the enum, and INVALID    *)
(* and NONE are not among the values handed out.                           *)
(***************************************************************************)
Values == WILDCARD .. Limit - 1

TypeOK ==
  /\ table = [next |-> table.next, registered |-> table.registered,
              trie |-> table.trie]
  /\ table.next \in {0} \cup Values
  /\ DOMAIN table.registered \subseteq Values
  /\ retired \subseteq Values
=============================================================================
