--------------------------- MODULE OrderedMimeMap ---------------------------
(***************************************************************************)
(* demultiplexer_ordered_mime_map: the request handlers of one resource.   *)
(* A value is a record of the two containers of the class:                 *)
(*   map     from the accept type <<type, subtype>> to the handler's infos;*)
(*   vector  the accept types in the order they were inserted.             *)
(***************************************************************************)
EXTENDS MimeData, Sequences

EmptyMimeMap == [map |-> <<>>, vector |-> <<>>]

Stored(m) == DOMAIN m.map

(* insert: wildcards are refused, and so is a type that is there already. *)
\* Mutant: a second handler replaces the first.
CanInsertAgain(m, type) == ~HasWildcard(type)

CanInsert(m, type) == ~HasWildcard(type) /\ type \notin Stored(m)

Insert(m, type, fn) ==
  [map    |-> With(m.map, type, [handler       |-> fn,
                                 usage_counter |-> 0,
                                 is_available  |-> TRUE]),
   vector |-> Append(m.vector, type)]

(***************************************************************************)
(* erase: succeeds only on a stored type that nobody uses.  The vector     *)
(* lists a type at most once (VectorListsMap below), so taking out every   *)
(* equal element, as the code's loop does, is taking out that one.         *)
(***************************************************************************)
\* Mutant: a handler in use is erased.
CanEraseUsed(m, type) == type \in Stored(m)

CanErase(m, type) == type \in Stored(m) /\ m.map[type].usage_counter = 0

\* Mutant: the element after the wanted one is removed.
RemoveElementAfter(s, e) ==
  LET p == CHOOSE i \in DOMAIN s : s[i] = e
  IN  [i \in 1 .. Len(s) - 1 |-> IF i <= p THEN s[i] ELSE s[i + 1]]

RemoveElement(s, e) ==
  LET p == CHOOSE i \in DOMAIN s : s[i] = e
  IN  [i \in 1 .. Len(s) - 1 |-> IF i < p THEN s[i] ELSE s[i + 1]]

Erase(m, type) ==
  [map |-> Without(m.map, {type}), vector |-> RemoveElement(m.vector, type)]

(***************************************************************************)
(* The operations below are only legal on a stored type: the code asserts  *)
(* it.                                                                     *)
(***************************************************************************)
IncreaseUsage(m, type) ==
  [m EXCEPT !.map[type].usage_counter = @ + 1]

\* Mutants: the holder's destructor counts twice, or not at all.
DecreaseUsageTwice(m, type) ==
  [m EXCEPT !.map[type].usage_counter = @ - 2]

DecreaseUsageNever(m, type) == m

DecreaseUsage(m, type) ==
  [m EXCEPT !.map[type].usage_counter = @ - 1]

SetAvailability(m, type, available) ==
  [m EXCEPT !.map[type].is_available = available]

(***************************************************************************)
(* find: the type of the handler that answers an accepted type, as a set   *)
(* of at most one element.  A type with a wildcard is resolved by the      *)
(* vector's order, skipping handlers that are not available.               *)
(***************************************************************************)
Matches(type, value) ==
  /\ type[1] \in {value[1], WILDCARD}
  /\ type[2] \in {value[2], WILDCARD}

IsAvailable(m, type) == type \in Stored(m) /\ m.map[type].is_available

\* Mutants: the last match wins, or availability is ignored.
FindLast(m, type) ==
  LET hits == {i \in DOMAIN m.vector :
                 Matches(type, m.vector[i]) /\ IsAvailable(m, m.vector[i])}
  IN  {m.vector[i] : i \in {j \in hits : \A k \in hits : j >= k}}

FindDisabled(m, type) ==
  LET hits == {i \in DOMAIN m.vector : Matches(type, m.vector[i])}
  IN  {m.vector[i] : i \in {j \in hits : \A k \in hits : j <= k}}

FindOrdered(m, type) ==
  LET hits == {i \in DOMAIN m.vector :
                 Matches(type, m.vector[i]) /\ IsAvailable(m, m.vector[i])}
  IN  {m.vector[i] : i \in {j \in hits : \A k \in hits : j <= k}}

Find(m, type) ==
  IF HasWildcard(type)
  THEN FindOrdered(m, type)
  ELSE {t \in {type} : IsAvailable(m, t)}

-----------------------------------------------------------------------------
(* Where the vector has a type. *)
Position(m, type) == CHOOSE i \in DOMAIN m.vector : m.vector[i] = type

(***************************************************************************)
(* The vector lists every type of the map exactly once: find_ordered looks *)
(* each listed type up in the map and asserts that it is there.            *)
(***************************************************************************)
VectorListsMap(m) ==
  /\ \A i \in DOMAIN m.vector : m.vector[i] \in Stored(m)
  /\ \A t \in Stored(m) : \E i \in DOMAIN m.vector : m.vector[i] = t
  /\ \A i, j \in DOMAIN m.vector : m.vector[i] = m.vector[j] => i = j

(***************************************************************************)
(* A MIME map with types of the set Types and callbacks of the set Fns.    *)
(***************************************************************************)
InfosOf(Fns) == [handler : Fns, usage_counter : Nat, is_available : BOOLEAN]

IsMimeMap(m, Types, Fns) ==
  /\ m = [map |-> m.map, vector |-> m.vector]
  /\ m.map \in [Stored(m) -> InfosOf(Fns)]
  /\ Stored(m) \subseteq Types
  /\ m.vector \in Seq(Types)
=============================================================================
