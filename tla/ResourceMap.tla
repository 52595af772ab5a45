----------------------------- MODULE ResourceMap -----------------------------
(***************************************************************************)
(* resource_callbacks_ as the standard library stores it: a balanced       *)
(* search tree that only knows resource_key's operator<.  Demultiplexer    *)
(* takes the map for a function of the key, which is right as long as      *)
(* operator< is a strict weak order on the keys in use.  This module shows *)
(* what becomes of the lookups when it is, and when it is not.             *)
(*                                                                         *)
(* A tree has at most three nodes here.  Then it is given by its keys from *)
(* left to right and the position of its root: the other nodes are the     *)
(* root's children.                                                        *)
(***************************************************************************)
EXTENDS ResourceKey, Sequences

CONSTANTS
  Keys    \* the keys of the ids passed to connect

(* Bound on the resources that exist at a time. *)
MaxNodes == 3

VARIABLES
  tree,        \* the nodes of resource_callbacks_
  connected    \* history: the keys whose resource exists

vars == <<tree, connected>>

Init == tree = [keys |-> <<>>, root |-> 0] /\ connected = {}

Size(t) == Len(t.keys)

(* The children of the root, 0 for none, and the iterator past the end. *)
LeftChild(t)  == t.root - 1
RightChild(t) == IF t.root < Size(t) THEN t.root + 1 ELSE 0
End(t)        == Size(t) + 1

(***************************************************************************)
(* lower_bound asks in every node whether its key is less than the wanted  *)
(* one, and find whether the wanted key is less than the one found.        *)
(***************************************************************************)
LowerBoundOfLeaf(t, node, key, otherwise) ==
  IF node = 0 \/ KeyLess(t.keys[node], key) THEN otherwise ELSE node

LowerBound(t, key) ==
  IF Size(t) = 0 THEN End(t)
  ELSE IF KeyLess(t.keys[t.root], key)
       THEN LowerBoundOfLeaf(t, RightChild(t), key, End(t))
       ELSE LowerBoundOfLeaf(t, LeftChild(t), key, t.root)

Find(t, key) ==
  LET node == LowerBound(t, key)
  IN  IF node = End(t) \/ KeyLess(key, t.keys[node]) THEN End(t) ELSE node

IsFound(t, key) == Find(t, key) # End(t)

(***************************************************************************)
(* operator[] inserts before the lower bound, when the neighbours there    *)
(* confirm that the key belongs between them.  When they do not, the tree  *)
(* is searched again, this time asking whether the wanted key is less.     *)
(* The result is the position the new key gets, or 0 when the second       *)
(* search takes another node for the wanted one.                           *)
(***************************************************************************)
SearchAgain(t, key) ==
  LET atLeft   == KeyLess(key, t.keys[t.root])
      child    == IF atLeft THEN LeftChild(t) ELSE RightChild(t)
      parent   == IF child = 0 THEN t.root ELSE child
      before   == KeyLess(key, t.keys[parent])
      position == IF before THEN parent ELSE parent + 1
  IN  IF position = 1 \/ KeyLess(t.keys[position - 1], key) THEN position ELSE 0

InsertPosition(t, key) ==
  LET hint == LowerBound(t, key)
  IN  IF hint = 1 \/ KeyLess(t.keys[hint - 1], key)
      THEN hint
      ELSE SearchAgain(t, key)

InsertAt(t, position, key) ==
  [keys |-> SubSeq(t.keys, 1, position - 1) \o <<key>>
              \o SubSeq(t.keys, position, Size(t)),
   root |-> CASE Size(t) = 0 -> 1
              [] Size(t) = 1 -> IF position = 1 THEN 2 ELSE 1
              [] OTHER       -> 2]

(***************************************************************************)
(* erase(key) takes out the equal range: the nodes from the first one that *)
(* is not less than the key up to the first one the key is less than, each *)
(* searched below the node where the two searches part.                    *)
(***************************************************************************)
UpperBoundOfLeaf(t, node, key, otherwise) ==
  IF node # 0 /\ KeyLess(key, t.keys[node]) THEN node ELSE otherwise

EqualRange(t, key) ==
  LET less(node)    == KeyLess(t.keys[node], key)
      greater(node) == KeyLess(key, t.keys[node])
      side          == IF less(t.root) THEN RightChild(t) ELSE LeftChild(t)
      bound         == IF less(t.root) THEN End(t) ELSE t.root
  IN  IF ~less(t.root) /\ ~greater(t.root)
      THEN <<LowerBoundOfLeaf(t, LeftChild(t), key, t.root),
             UpperBoundOfLeaf(t, RightChild(t), key, End(t))>>
      ELSE IF side # 0 /\ ~less(side) /\ ~greater(side) THEN <<side, bound>>
      ELSE <<bound, bound>>

EraseRange(t, first, past) ==
  LET rest == SubSeq(t.keys, 1, first - 1) \o SubSeq(t.keys, past, Size(t))
  IN  [keys |-> rest,
       root |-> CASE Len(rest) = 0 -> 0
                  [] Len(rest) = 2 -> IF first = 1 THEN 1 ELSE 2
                  [] OTHER         -> 1]

Erase(t, key) == EraseRange(t, EqualRange(t, key)[1], EqualRange(t, key)[2])

-----------------------------------------------------------------------------
(* connect for a resource that has no handler yet. *)
Connect(key) ==
  /\ key \notin connected
  /\ Size(tree) < MaxNodes
  /\ LET hint == LowerBound(tree, key)
     IN  IF hint # End(tree) /\ ~KeyLess(key, tree.keys[hint])
         THEN tree' = tree
         ELSE LET position == InsertPosition(tree, key)
              IN  tree' = IF position = 0 THEN tree
                                          ELSE InsertAt(tree, position, key)
  /\ connected' = connected \cup {key}

(* disconnect of the resource's last handler. *)
Disconnect(key) ==
  /\ key \in connected
  /\ tree' = IF IsFound(tree, key) THEN Erase(tree, key) ELSE tree
  /\ connected' = connected \ {key}

Next == \E key \in Keys : Connect(key) \/ Disconnect(key)

Spec == Init /\ [][Next]_vars

-----------------------------------------------------------------------------
(***************************************************************************)
(* "Determines and returns the best-fitting request handler callback, that *)
(* is registered at this demultiplexer": the lookup of a resource that was *)
(* connected leads to that resource, through every history of insertions,  *)
(* removals and rotations, and the lookup of another one leads nowhere.    *)
(***************************************************************************)
FindsWhatIsConnected ==
  \A key \in Keys :
    IF key \in connected
    THEN IsFound(tree, key) /\ tree.keys[Find(tree, key)] = key
    ELSE ~IsFound(tree, key)

(***************************************************************************)
(* disconnect's assertion: the disconnect of a resource's last handler     *)
(* finds the resource and removes exactly one node.                        *)
(***************************************************************************)
ErasesOneNode ==
  [][\A key \in Keys : Disconnect(key) => Size(tree') = Size(tree) - 1]_vars
=============================================================================
