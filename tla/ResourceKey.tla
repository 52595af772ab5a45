----------------------------- MODULE ResourceKey -----------------------------
(***************************************************************************)
(* demultiplexer::resource_key, the key of the resource map.  A path is    *)
(* represented by its rank among the paths of the model, so that comparing *)
(* two ranks is comparing the two strings.                                 *)
(***************************************************************************)
EXTENDS Naturals

KeyOf(x) == [path         |-> x.path,
             method       |-> x.method,
             content_type |-> x.content_type]

(* std::pair's operator<, on <<type, subtype>>. *)
MimeLess(a, b) == a[1] < b[1] \/ (a[1] = b[1] /\ a[2] < b[2])

(* Mutants of operator<: the tests joined by "and", and one turned round. *)
KeyLessInAll(a, b) ==
  /\ a.path < b.path
  /\ a.method < b.method

KeyLessTurned(a, b) ==
  \/ a.path < b.path
  \/ b.method < a.method
  \/ MimeLess(a.content_type, b.content_type)

(* resource_key::operator<. *)
KeyLess(a, b) ==
  \/ a.path < b.path
  \/ a.method < b.method
  \/ MimeLess(a.content_type, b.content_type)

(***************************************************************************)
(* std::map needs a strict weak order.  On a set of keys where no two are  *)
(* each less than the other the disjunction above is one, and the map      *)
(* finds exactly what was inserted.                                        *)
(***************************************************************************)
ConsistentlyOrdered(Keys) ==
  \A a, b \in Keys : ~(KeyLess(a, b) /\ KeyLess(b, a))
=============================================================================
