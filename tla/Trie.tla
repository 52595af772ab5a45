-------------------------------- MODULE Trie --------------------------------
(***************************************************************************)
(* trie<value_type>: a prefix tree with one pointer per character in each  *)
(* node.  When the tree ignores the case of letters, both spellings of a   *)
(* letter point to the same child, and both are counted.                   *)
(*                                                                         *)
(* A tree is a heap: a function from the addresses of its nodes.  Deleting *)
(* a node takes it out of the heap, and its address is used again.         *)
(***************************************************************************)
EXTENDS Naturals, Sequences, FiniteSets

CONSTANTS
  Chars,      \* the characters of tokens
  Pendant,    \* from a letter to the same letter of the other case; empty
              \* when the tree distinguishes them
  UpperCase   \* the letters from A to Z

ASSUME TrieAssumption ==
  /\ IsFiniteSet(Chars)
  /\ DOMAIN Pendant \subseteq Chars
  /\ \A c \in DOMAIN Pendant :
       /\ Pendant[c] \in DOMAIN Pendant /\ Pendant[Pendant[c]] = c
       /\ Pendant[c] \in UpperCase <=> c \notin UpperCase

NULL == 0
Root == 1

NewNode ==
  [has_value |-> FALSE, value |-> 0,
   children |-> [c \in Chars |-> NULL], used_children |-> 0]

NewTrie == [n \in {Root} |-> NewNode]

Fresh(nodes) ==
  CHOOSE n \in 2 .. Cardinality(DOMAIN nodes) + 1 : n \notin DOMAIN nodes

(* The nodes the beginnings of a token lead to, or NULL. *)
Path(nodes, token) ==
  LET node[k \in 0 .. Len(token)] ==
        IF k = 0 THEN Root
        ELSE IF node[k - 1] = NULL THEN NULL
        ELSE nodes[node[k - 1]].children[token[k]]
  IN  node

Walk(nodes, token) == Path(nodes, token)[Len(token)]

Holds(nodes, token) ==
  LET n == Walk(nodes, token) IN n # NULL /\ nodes[n].has_value

AddChildReference(nodes, parent, c, child) ==
  [nodes EXCEPT ![parent].children[c] = child,
                ![parent].used_children = @ + 1]

RemoveChildReference(nodes, parent, c) ==
  [nodes EXCEPT ![parent].children[c] = NULL,
                ![parent].used_children = @ - 1]

AddChild(nodes, parent, c) ==
  IF nodes[parent].children[c] # NULL THEN nodes
  ELSE LET child == Fresh(nodes)
           grown == [n \in DOMAIN nodes \cup {child} |->
                       IF n = child THEN NewNode ELSE nodes[n]]
       IN  AddChildReference(grown, parent, c, child)

\* Mutants: the other spelling gets no pointer, or one that is not counted.
AddNoPendant(nodes, parent, c) == nodes

AddPendantUncounted(nodes, parent, c) ==
  IF c \in DOMAIN Pendant
  THEN [nodes EXCEPT ![parent].children[Pendant[c]] =
                       nodes[parent].children[c]]
  ELSE nodes

AddPendant(nodes, parent, c) ==
  IF c \in DOMAIN Pendant /\ nodes[parent].children[Pendant[c]] = NULL
  THEN AddChildReference(nodes, parent, Pendant[c], nodes[parent].children[c])
  ELSE nodes

RemovePendant(nodes, parent, c) ==
  IF c \in DOMAIN Pendant /\ nodes[parent].children[Pendant[c]] # NULL
  THEN RemoveChildReference(nodes, parent, Pendant[c])
  ELSE nodes

(***************************************************************************)
(* insert: fails on a token that has a value, in which case every node on  *)
(* the way to it is there.  The code adds the pendants on the way back; as *)
(* each concerns another parent, the order makes no difference.            *)
(***************************************************************************)
Grow(t, c) ==
  LET grown == AddPendant(AddChild(t.nodes, t.at, c), t.at, c)
  IN  [nodes |-> grown, at |-> grown[t.at].children[c]]

Grown(nodes, token) ==
  LET grown[k \in 0 .. Len(token)] ==
        IF k = 0 THEN [nodes |-> nodes, at |-> Root]
        ELSE Grow(grown[k - 1], token[k])
  IN  grown[Len(token)]

WithValue(t, value) ==
  [t.nodes EXCEPT ![t.at].has_value = TRUE, ![t.at].value = value]

Insert(nodes, token, value) ==
  IF Holds(nodes, token) THEN nodes ELSE WithValue(Grown(nodes, token), value)

(***************************************************************************)
(* erase: fails on a token without a value.  On the way back, a child that *)
(* has become useless is deleted, and both pointers to it are cleared.     *)
(***************************************************************************)
IsUseless(node) == node.used_children = 0 /\ ~node.has_value

Shrink(nodes, parent, c) ==
  LET child == nodes[parent].children[c]
      rest  == [n \in DOMAIN nodes \ {child} |-> nodes[n]]
  IN  IF IsUseless(nodes[child])
      THEN RemovePendant(RemoveChildReference(rest, parent, c), parent, c)
      ELSE nodes

WithoutValue(nodes, n) == [nodes EXCEPT ![n].has_value = FALSE]

Shrunk(nodes, token, path) ==
  LET shrunk[k \in 0 .. Len(token)] ==
        IF k = 0 THEN WithoutValue(nodes, path[Len(token)])
        ELSE Shrink(shrunk[k - 1], path[Len(token) - k], token[Len(token) + 1 - k])
  IN  shrunk[Len(token)]

Erase(nodes, token) ==
  IF Holds(nodes, token) THEN Shrunk(nodes, token, Path(nodes, token)) ELSE nodes

(***************************************************************************)
(* find: the number of characters of the longest token the text begins     *)
(* with, 0 for none, and the value stored with it.                         *)
(***************************************************************************)
Find(nodes, text) ==
  LET node == Path(nodes, text)
      found[k \in 0 .. Len(text)] ==
        LET own == [used_size |-> IF nodes[node[k]].has_value THEN k ELSE 0,
                    value     |-> nodes[node[k]].value]
        IN  IF k = Len(text) THEN own
            ELSE IF node[k + 1] # NULL /\ found[k + 1].used_size # 0
                 THEN found[k + 1]
                 ELSE own
  IN  found[0]

-----------------------------------------------------------------------------
(***************************************************************************)
(* The destructor of a node deletes the child of every character, but not  *)
(* that of a small letter whose capital has the same child.                *)
(***************************************************************************)
Deletes(node, c) ==
  /\ node.children[c] # NULL
  /\ ~(\E u \in UpperCase \cap DOMAIN Pendant :
         Pendant[u] = c /\ node.children[u] = node.children[c])
=============================================================================
