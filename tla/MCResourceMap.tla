---------------------------- MODULE MCResourceMap ----------------------------
EXTENDS ResourceMap, ContainerTests

Key(path, method, type) ==
  [path |-> path, method |-> method, content_type |-> <<type, type>>]

(* Keys where no two are each less than the other: they ascend together. *)
ConsistentKeys ==
  {Key(1, 0, 1), Key(1, 1, 1), Key(1, 1, 3), Key(1, 3, 3),
   Key(2, 3, 3), Key(2, 3, 4), Key(3, 3, 4), Key(4, 3, 4)}

(* /a with POST, /b with PUT and /c with GET. *)
CrossedKeys == {Key(1, 3, 1), Key(2, 1, 1), Key(3, 0, 1)}
=============================================================================
