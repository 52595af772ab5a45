--------------------------- MODULE MimeTableProofs ---------------------------
(***************************************************************************)
(* For every width of the counter and every set of names: the two maps of  *)
(* a table agree and no value is handed out twice.  For every set of       *)
(* characters and letters: the prefix tree the names are kept in stays a   *)
(* tree whose destructor deletes every node once, and find answers with    *)
(* the longest registered name.                                            *)
(***************************************************************************)
EXTENDS MimeTrie, FiniteSetTheorems, SequenceTheorems, WellFoundedInduction,
        TLAPS

(***************************************************************************)
(* A value that is registered or retired lies behind the counter.  This is *)
(* what the next registration relies on to hand out a fresh value.         *)
(***************************************************************************)
Passed(v) == table.next = 0 \/ v < table.next

HandedOutPassed ==
  \A v \in DOMAIN table.registered \cup retired : Passed(v)

IInv == TypeOK /\ TablesAgree /\ RetiredStayRetired /\ HandedOutPassed

LEMMA InitIInv == Init => IInv
  BY TableAssumption DEF Init, IInv, TypeOK, TablesAgree, RetiredStayRetired,
     HandedOutPassed, Passed, NewTable, RegisterType, CanRegister, IsRegistered,
     Values, With, Fold, Star, Empty, WILDCARD

LEMMA RegisterIInv ==
  ASSUME IInv, NEW name \in Names, Register(name)
  PROVE  IInv'
<1>1. CASE ~CanRegister(table, name)
  BY <1>1 DEF Register, RegisterType, IInv, TypeOK, TablesAgree,
     RetiredStayRetired, HandedOutPassed, Passed, IsRegistered
<1>2. CASE CanRegister(table, name)
  <2> DEFINE v == table.next
  <2>1. /\ table' = [next       |-> (v + 1) % Limit,
                     registered |-> With(table.registered, v, name),
                     trie       |-> With(table.trie, Fold(name), v)]
        /\ retired' = retired
        /\ v \in Values
        /\ Fold(name) \notin DOMAIN table.trie
    BY <1>2 DEF Register, RegisterType, CanRegister, IInv, TypeOK
  <2>2. v \notin DOMAIN table.registered /\ v \notin retired
    BY <2>1, TableAssumption
    DEF IInv, HandedOutPassed, Passed, Values, WILDCARD, TypeOK
  <2>3. (v + 1) % Limit = (IF v + 1 = Limit THEN 0 ELSE v + 1)
    BY <2>1, TableAssumption DEF Values, WILDCARD
  <2>4. TypeOK'
    BY <2>1, <2>3, TableAssumption DEF IInv, TypeOK, Values, WILDCARD, With
  <2>5. TablesAgree'
    BY <2>1, <2>2 DEF IInv, TablesAgree, With
  <2>6. RetiredStayRetired'
    BY <2>1, <2>2 DEF IInv, RetiredStayRetired, IsRegistered, With
  <2>7. HandedOutPassed'
    BY <2>1, <2>3, TableAssumption
    DEF IInv, HandedOutPassed, Passed, With, TypeOK, Values, WILDCARD
  <2>8. QED
    BY <2>4, <2>5, <2>6, <2>7 DEF IInv
<1>3. QED
  BY <1>1, <1>2

LEMMA UnregisterIInv ==
  ASSUME IInv, NEW value \in Values, Unregister(value)
  PROVE  IInv'
<1>1. /\ table'.next = table.next
      /\ table'.registered = Without(table.registered, {value})
      /\ table'.trie = Without(table.trie, {Fold(table.registered[value])})
      /\ table' = [next |-> table'.next, registered |-> table'.registered,
                   trie |-> table'.trie]
      /\ retired' = retired \cup {value}
      /\ value \in DOMAIN table.registered
  BY DEF Unregister, UnregisterType, IsRegistered, IInv, TypeOK
<1>2. TypeOK' /\ HandedOutPassed'
  BY <1>1 DEF IInv, TypeOK, HandedOutPassed, Passed, Without
<1>3. TablesAgree'
  BY <1>1 DEF IInv, TablesAgree, Without
<1>4. RetiredStayRetired'
  BY <1>1 DEF IInv, RetiredStayRetired, IsRegistered, Without
<1>5. QED
  BY <1>2, <1>3, <1>4 DEF IInv

LEMMA Inductive == IInv /\ [Next]_vars => IInv'
<1> SUFFICES ASSUME IInv, [Next]_vars
             PROVE  IInv'
  OBVIOUS
<1>1. ASSUME NEW name \in Names, Register(name)
      PROVE  IInv'
  BY <1>1, RegisterIInv
<1>2. ASSUME NEW value \in WILDCARD .. Limit - 1, Unregister(value)
      PROVE  IInv'
  BY <1>2, UnregisterIInv DEF Values
<1>3. CASE UNCHANGED vars
  BY <1>3 DEF vars, IInv, TypeOK, TablesAgree, RetiredStayRetired,
     HandedOutPassed, Passed, IsRegistered
<1>4. QED
  BY <1>1, <1>2, <1>3 DEF Next

LEMMA TableInvariant == Spec => []IInv
<1>1. IInv /\ [Next]_vars => IInv'
  BY Inductive
<1>2. QED
  BY InitIInv, <1>1, PTL DEF Spec

(***************************************************************************)
(* registered_types_ and types_ of mime_data stay inverse to each other.   *)
(***************************************************************************)
THEOREM MapsStayInverse == Spec => []TablesAgree
<1>1. IInv => TablesAgree
  BY DEF IInv
<1>2. QED
  BY TableInvariant, <1>1, PTL

(***************************************************************************)
(* register_type of mime_data never hands out a value a second time.       *)
(***************************************************************************)
THEOREM ValuesAreNotReused == Spec => []RetiredStayRetired
<1>1. IInv => RetiredStayRetired
  BY DEF IInv
<1>2. QED
  BY TableInvariant, <1>1, PTL

-----------------------------------------------------------------------------
LEMMA Least ==
  ASSUME NEW N, N \subseteq Nat, N # {}
  PROVE  \E i \in N : \A j \in N : i <= j
<1>1. IsWellFoundedOn(OpToRel(<, Nat), Nat)
  BY NatLessThanWellFounded
<1>2. PICK i \in N : \A j \in N : ~(<<j, i>> \in OpToRel(<, Nat))
  BY <1>1, WFMin
<1>3. \A j \in N : ~(j < i)
  BY <1>2 DEF OpToRel
<1> QED
  BY <1>3

-----------------------------------------------------------------------------
(* The nodes of a tree. *)
Used(node) == {c \in Chars : node.children[c] # NULL}

IsNode(node) ==
  /\ node = [has_value |-> node.has_value, value |-> node.value,
             children |-> node.children, used_children |-> node.used_children]
  /\ node.children = [c \in Chars |-> node.children[c]]
  /\ node.used_children = Cardinality(Used(node))

IsHeap(h) ==
  /\ IsFiniteSet(DOMAIN h) /\ Root \in DOMAIN h /\ NULL \notin DOMAIN h
  /\ h = [n \in DOMAIN h |-> h[n]]
  /\ \A n \in DOMAIN h : IsNode(h[n])

Child(h, n, c) == h[n].children[c]

(* Two spellings of a character. *)
Alike(c, d) == c = d \/ (c \in DOMAIN Pendant /\ d = Pendant[c])

ChildrenExist(h) ==
  \A n \in DOMAIN h, c \in Chars :
    Child(h, n, c) \in {NULL} \cup (DOMAIN h \ {Root})

PendantsAgree(h) ==
  \A n \in DOMAIN h, c \in Chars, d \in Chars :
    Alike(c, d) => Child(h, n, d) = Child(h, n, c)

OneParent(h) ==
  \A n \in DOMAIN h, m \in DOMAIN h, c \in Chars, d \in Chars :
    Child(h, n, c) # NULL /\ Child(h, m, d) = Child(h, n, c)
      => m = n /\ Alike(c, d)

AllOwned(h) ==
  \A n \in DOMAIN h \ {Root} :
    \E p \in DOMAIN h, c \in Chars : Child(h, p, c) = n

(***************************************************************************)
(* A child has one parent, which reaches it by one character, in either    *)
(* spelling; nobody has the root for a child.                              *)
(***************************************************************************)
IsTree(h) ==
  ChildrenExist(h) /\ PendantsAgree(h) /\ OneParent(h) /\ AllOwned(h)

(* A node that leads to no value. *)
IsDead(h, n) == ~h[n].has_value /\ \A c \in Chars : Child(h, n, c) = NULL

(* Only the node at may be one. *)
TreeOK(h, at) ==
  /\ IsHeap(h) /\ IsTree(h) /\ at \in DOMAIN h
  /\ \A n \in DOMAIN h \ {Root, at} : ~IsDead(h, n)

LEMMA PendantsDiffer ==
  ASSUME NEW c \in DOMAIN Pendant
  PROVE  Pendant[c] # c /\ Pendant[c] \in Chars /\ c \in Chars
  BY TrieAssumption

LEMMA AlikeIsSymmetric ==
  ASSUME NEW c, NEW d, Alike(c, d)
  PROVE  Alike(d, c)
  BY TrieAssumption DEF Alike

LEMMA UsedIsFinite ==
  ASSUME NEW node
  PROVE  IsFiniteSet(Used(node)) /\ Cardinality(Used(node)) \in Nat
<1>1. Used(node) \in SUBSET Chars
  BY DEF Used
<1>2. IsFiniteSet(Used(node))
  BY <1>1, FS_Subset, TrieAssumption
<1> QED
  BY <1>2, FS_CardinalityType

LEMMA DeadIsUseless ==
  ASSUME NEW h, IsHeap(h), NEW n \in DOMAIN h
  PROVE  IsUseless(h[n]) <=> IsDead(h, n)
<1>1. h[n].used_children = Cardinality(Used(h[n]))
  BY DEF IsHeap, IsNode
<1>2. h[n].used_children = 0 <=> Used(h[n]) = {}
  BY <1>1, UsedIsFinite, FS_EmptySet
<1> QED
  BY <1>2 DEF IsUseless, IsDead, Used, Child

-----------------------------------------------------------------------------
(* What the two operations on a reference leave. *)
SameEntry(h, r, n) ==
  r[n].has_value = h[n].has_value /\ r[n].value = h[n].value

ChildSet(h, r, p, c, child) ==
  /\ IsHeap(r) /\ DOMAIN r = DOMAIN h
  /\ \A n \in DOMAIN h : SameEntry(h, r, n)
  /\ \A n \in DOMAIN h, d \in Chars :
       Child(r, n, d) = IF n = p /\ d = c THEN child ELSE Child(h, n, d)

(* The node whose child of character c is set. *)
NodeWith(node, c, child, used) ==
  [node EXCEPT !.children[c] = child, !.used_children = used]

LEMMA NodeChanged ==
  ASSUME NEW h, IsHeap(h), NEW p \in DOMAIN h, NEW c \in Chars, NEW child,
         NEW used,
         NEW node, node = NodeWith(h[p], c, child, used),
         used = Cardinality(Used(node)),
         NEW r, r = [h EXCEPT ![p] = node]
  PROVE  ChildSet(h, r, p, c, child)
<1>1. IsNode(h[p])
  BY DEF IsHeap
<1>2. /\ node = [has_value |-> h[p].has_value, value |-> h[p].value,
                 children |-> [h[p].children EXCEPT ![c] = child],
                 used_children |-> used]
      /\ h[p].children = [d \in Chars |-> h[p].children[d]]
  BY <1>1 DEF IsNode, NodeWith
<1>3. /\ node.has_value = h[p].has_value /\ node.value = h[p].value
      /\ node.children = [d \in Chars |-> IF d = c THEN child ELSE h[p].children[d]]
      /\ node.used_children = used
  <2>1. PICK f : f = h[p].children
    OBVIOUS
  <2>2. f = [d \in Chars |-> f[d]]
    BY <1>2, <2>1
  <2>3. [f EXCEPT ![c] = child] = [d \in Chars |-> IF d = c THEN child ELSE f[d]]
    BY <2>2
  <2>4. PICK v : v = [f EXCEPT ![c] = child]
    OBVIOUS
  <2>5. node = [has_value |-> h[p].has_value, value |-> h[p].value, children |-> v,
                used_children |-> used]
    BY <1>2, <2>1, <2>4
  <2>6. /\ node.has_value = h[p].has_value /\ node.value = h[p].value
        /\ node.used_children = used
        /\ node.children = v
    BY <2>5
  <2> QED
    BY <2>1, <2>3, <2>4, <2>6
<1>4. IsNode(node)
  BY <1>2, <1>3 DEF IsNode
<1>5. /\ DOMAIN r = DOMAIN h /\ r[p] = node
      /\ \A n \in DOMAIN h : n # p => r[n] = h[n]
      /\ r = [n \in DOMAIN r |-> r[n]]
  BY DEF IsHeap
<1>6. IsHeap(r)
  BY <1>4, <1>5 DEF IsHeap
<1> QED
  BY <1>3, <1>5, <1>6 DEF ChildSet, Child, SameEntry

LEMMA ReferenceAdded ==
  ASSUME NEW h, IsHeap(h), NEW p \in DOMAIN h, NEW c \in Chars,
         Child(h, p, c) = NULL, NEW child, child # NULL
  PROVE  ChildSet(h, AddChildReference(h, p, c, child), p, c, child)
<1>1. IsNode(h[p])
  BY DEF IsHeap
<1>2. PICK used : used = h[p].used_children + 1
  OBVIOUS
<1>3. PICK node : node = NodeWith(h[p], c, child, used)
  OBVIOUS
<1>4. node.children = [d \in Chars |-> IF d = c THEN child ELSE h[p].children[d]]
  BY <1>1, <1>3 DEF IsNode, NodeWith
<1>5. Used(node) = Used(h[p]) \cup {c} /\ c \notin Used(h[p])
  BY <1>4 DEF Used, Child
<1>6. used = Cardinality(Used(node))
  BY <1>1, <1>2, <1>5, UsedIsFinite, FS_AddElement DEF IsNode
<1>7. PICK r : r = [h EXCEPT ![p] = node]
  OBVIOUS
<1>8. AddChildReference(h, p, c, child) = r
  BY <1>2, <1>3, <1>7 DEF AddChildReference, NodeWith, IsHeap
<1> QED
  BY <1>3, <1>6, <1>7, <1>8, NodeChanged

LEMMA ReferenceRemoved ==
  ASSUME NEW h, IsHeap(h), NEW p \in DOMAIN h, NEW c \in Chars,
         Child(h, p, c) # NULL
  PROVE  ChildSet(h, RemoveChildReference(h, p, c), p, c, NULL)
<1>1. IsNode(h[p])
  BY DEF IsHeap
<1>2. PICK used : used = h[p].used_children - 1
  OBVIOUS
<1>3. PICK node : node = NodeWith(h[p], c, NULL, used)
  OBVIOUS
<1>4. node.children = [d \in Chars |-> IF d = c THEN NULL ELSE h[p].children[d]]
  BY <1>1, <1>3 DEF IsNode, NodeWith
<1>5. Used(node) = Used(h[p]) \ {c} /\ c \in Used(h[p])
  BY <1>4 DEF Used, Child
<1>6. used = Cardinality(Used(node))
  BY <1>1, <1>2, <1>5, UsedIsFinite, FS_RemoveElement DEF IsNode
<1>7. PICK r : r = [h EXCEPT ![p] = node]
  OBVIOUS
<1>8. RemoveChildReference(h, p, c) = r
  BY <1>2, <1>3, <1>7 DEF RemoveChildReference, NodeWith, IsHeap
<1> QED
  BY <1>3, <1>6, <1>7, <1>8, NodeChanged

-----------------------------------------------------------------------------
(* The address of a new node is not in use. *)
LEMMA FreshAddress ==
  ASSUME NEW h, IsHeap(h)
  PROVE  Fresh(h) \notin DOMAIN h /\ Fresh(h) # NULL /\ Fresh(h) # Root
<1>1. PICK size \in Nat : size = Cardinality(DOMAIN h)
  BY FS_CardinalityType DEF IsHeap
<1>2. PICK addresses : addresses = 2 .. size + 1
  OBVIOUS
<1>3. IsFiniteSet(addresses) /\ Cardinality(addresses) = size
  <2>1. /\ 2 \in Int /\ size + 1 \in Int
        /\ (IF 2 > size + 1 THEN 0 ELSE (size + 1) - 2 + 1) = size
    BY <1>1
  <2> QED
    BY <1>2, <2>1, FS_Interval
<1>4. \E n \in addresses : n \notin DOMAIN h
  <2> SUFFICES ASSUME addresses \subseteq DOMAIN h PROVE FALSE
    OBVIOUS
  <2>1. addresses = DOMAIN h
    BY <1>1, <1>3, FS_Subset DEF IsHeap
  <2>2. Root \notin addresses
    BY <1>2 DEF Root
  <2> QED
    BY <2>1, <2>2 DEF IsHeap
<1>5. Fresh(h) \in addresses /\ Fresh(h) \notin DOMAIN h
  <2>1. Fresh(h) = CHOOSE n \in addresses : n \notin DOMAIN h
    BY <1>1, <1>2 DEF Fresh
  <2> QED
    BY <1>4, <2>1
<1> QED
  BY <1>2, <1>5 DEF NULL, Root

(* A node that is referred to by nobody. *)
LEMMA NodeAdded ==
  ASSUME NEW h, IsHeap(h), NEW f, f \notin DOMAIN h, f # NULL,
         NEW r, r = [n \in DOMAIN h \cup {f} |-> IF n = f THEN NewNode ELSE h[n]]
  PROVE  /\ IsHeap(r) /\ DOMAIN r = DOMAIN h \cup {f}
         /\ r[f] = NewNode /\ \A n \in DOMAIN h : r[n] = h[n]
<1>1. /\ DOMAIN r = DOMAIN h \cup {f} /\ r = [n \in DOMAIN r |-> r[n]]
      /\ r[f] = NewNode /\ \A n \in DOMAIN h : r[n] = h[n]
  OBVIOUS
<1>2. IsFiniteSet(DOMAIN r)
  BY <1>1, FS_AddElement DEF IsHeap
<1>3. IsNode(NewNode)
  <2>1. /\ NewNode.children = [c \in Chars |-> NULL] /\ NewNode.used_children = 0
        /\ NewNode = [has_value |-> NewNode.has_value, value |-> NewNode.value,
                      children |-> NewNode.children,
                      used_children |-> NewNode.used_children]
    BY DEF NewNode
  <2>2. Used(NewNode) = {}
    BY <2>1 DEF Used
  <2>3. NewNode.children = [c \in Chars |-> NewNode.children[c]]
    BY <2>1
  <2> QED
    BY <2>1, <2>2, <2>3, FS_EmptySet DEF IsNode
<1> QED
  BY <1>1, <1>2, <1>3 DEF IsHeap

(***************************************************************************)
(* A node that was missing is reached by both spellings of its character.  *)
(***************************************************************************)
Extended(h, r, p, c, f) ==
  /\ IsHeap(r) /\ DOMAIN r = DOMAIN h \cup {f}
  /\ ~r[f].has_value /\ \A d \in Chars : Child(r, f, d) = NULL
  /\ \A n \in DOMAIN h : SameEntry(h, r, n)
  /\ \A n \in DOMAIN h, d \in Chars :
       Child(r, n, d) = IF n = p /\ Alike(c, d) THEN f ELSE Child(h, n, d)

LEMMA ChildAdded ==
  ASSUME NEW h, IsHeap(h), IsTree(h), NEW p \in DOMAIN h, NEW c \in Chars,
         Child(h, p, c) = NULL,
         NEW f, f = Fresh(h),
         NEW r, r = AddPendant(AddChild(h, p, c), p, c)
  PROVE  Extended(h, r, p, c, f)
<1>1. f \notin DOMAIN h /\ f # NULL
  BY FreshAddress
<1>2. PICK g : g = [n \in DOMAIN h \cup {f} |-> IF n = f THEN NewNode ELSE h[n]]
  OBVIOUS
<1>3. /\ IsHeap(g) /\ DOMAIN g = DOMAIN h \cup {f}
      /\ g[f] = NewNode /\ \A n \in DOMAIN h : g[n] = h[n]
  BY <1>1, <1>2, NodeAdded
<1>4. PICK g1 : g1 = AddChildReference(g, p, c, f)
  OBVIOUS
<1>5. AddChild(h, p, c) = g1
  BY <1>2, <1>4 DEF AddChild, Child
<1>6. ChildSet(g, g1, p, c, f)
  BY <1>1, <1>3, <1>4, ReferenceAdded DEF Child
<1>7. ~g[f].has_value /\ \A d \in Chars : Child(g, f, d) = NULL
  BY <1>3 DEF NewNode, Child
<1>8. \A d \in Chars : Alike(c, d) => Child(h, p, d) = NULL
  BY DEF IsTree, PendantsAgree
<1>9. CASE c \in DOMAIN Pendant
  <2>1. PICK d \in Chars : d = Pendant[c] /\ d # c
    BY <1>9, PendantsDiffer
  <2>2. Child(g1, p, d) = NULL /\ Child(g1, p, c) = f
    BY <1>3, <1>6, <1>8, <1>9, <2>1 DEF ChildSet, Child, Alike
  <2>3. r = AddChildReference(g1, p, d, f)
    BY <1>5, <1>9, <2>1, <2>2 DEF AddPendant, Child
  <2>4. ChildSet(g1, r, p, d, f)
    BY <1>1, <1>3, <1>6, <2>2, <2>3, ReferenceAdded DEF ChildSet
  <2>5. \A e \in Chars : Alike(c, e) <=> e = c \/ e = d
    BY <1>9, <2>1 DEF Alike
  <2>6. /\ IsHeap(r) /\ DOMAIN r = DOMAIN h \cup {f}
        /\ \A n \in DOMAIN g : SameEntry(g, r, n)
        /\ \A n \in DOMAIN g, e \in Chars :
             Child(r, n, e) = IF n = p /\ Alike(c, e) THEN f ELSE Child(g, n, e)
    BY <1>3, <1>6, <2>4, <2>5 DEF ChildSet, SameEntry
  <2> QED
    BY <1>1, <1>3, <1>7, <2>6 DEF Extended, Child, SameEntry
<1>10. CASE c \notin DOMAIN Pendant
  <2>1. r = g1
    BY <1>5, <1>10 DEF AddPendant
  <2>2. \A e \in Chars : Alike(c, e) <=> e = c
    BY <1>10 DEF Alike
  <2> QED
    BY <1>1, <1>3, <1>6, <1>7, <2>1, <2>2 DEF Extended, ChildSet, Child, SameEntry
<1> QED
  BY <1>9, <1>10

(* A tree grows by nodes without a value, which only new ones lead to. *)
Grows(h, r) ==
  /\ DOMAIN h \subseteq DOMAIN r
  /\ \A n \in DOMAIN h : SameEntry(h, r, n)
  /\ \A n \in DOMAIN r \ DOMAIN h : ~r[n].has_value
  /\ \A n \in DOMAIN h, c \in Chars :
       Child(h, n, c) # NULL => Child(r, n, c) = Child(h, n, c)
  /\ \A n \in DOMAIN r, c \in Chars :
       Child(r, n, c) \in DOMAIN h
         => n \in DOMAIN h /\ Child(h, n, c) = Child(r, n, c)

(* A step of insert goes down to a node that leads to a value or will. *)
LEMMA GrowKeeps ==
  ASSUME NEW t, TreeOK(t.nodes, t.at), NEW c \in Chars, NEW r, r = Grow(t, c)
  PROVE  /\ TreeOK(r.nodes, r.at) /\ Grows(t.nodes, r.nodes)
         /\ Child(r.nodes, t.at, c) = r.at
<1>1. PICK h : h = t.nodes
  OBVIOUS
<1>2. PICK p : p = t.at
  OBVIOUS
<1>3. PICK g : g = AddPendant(AddChild(h, p, c), p, c)
  OBVIOUS
<1>4. r.nodes = g /\ r.at = Child(g, p, c)
  BY <1>1, <1>2, <1>3 DEF Grow, Child
<1>5. IsHeap(h) /\ IsTree(h) /\ p \in DOMAIN h
  BY <1>1, <1>2 DEF TreeOK
<1>6. CASE Child(h, p, c) # NULL
  <2>1. AddChild(h, p, c) = h
    BY <1>6 DEF AddChild, Child
  <2>2. g = h
    <3>1. c \in DOMAIN Pendant => Alike(c, Pendant[c]) /\ Pendant[c] \in Chars
      BY PendantsDiffer DEF Alike
    <3>2. c \in DOMAIN Pendant => Child(h, p, Pendant[c]) = Child(h, p, c)
      BY <1>5, <3>1 DEF IsTree, PendantsAgree
    <3> QED
      BY <1>3, <1>6, <2>1, <3>2 DEF AddPendant, Child
  <2>3. Child(h, p, c) \in DOMAIN h
    BY <1>5, <1>6 DEF IsTree, ChildrenExist
  <2>4. ~IsDead(h, p)
    BY <1>6 DEF IsDead
  <2>5. TreeOK(g, Child(g, p, c))
    BY <1>1, <1>2, <1>5, <2>2, <2>3, <2>4 DEF TreeOK
  <2>6. Grows(h, g)
    BY <2>2 DEF Grows, SameEntry
  <2> QED
    BY <1>1, <1>2, <1>4, <2>5, <2>6
<1>7. CASE Child(h, p, c) = NULL
  <2>1. PICK f : f = Fresh(h)
    OBVIOUS
  <2>2. f \notin DOMAIN h /\ f # NULL /\ f # Root
    BY <1>5, <2>1, FreshAddress
  <2>3. Extended(h, g, p, c, f)
    BY <1>3, <1>5, <1>7, <2>1, ChildAdded
  <2>4. Root \in DOMAIN h /\ DOMAIN g = DOMAIN h \cup {f} /\ IsHeap(g)
    BY <1>5, <2>3 DEF IsHeap, Extended
  <2>5. Child(g, p, c) = f
    BY <1>5, <2>3 DEF Extended, Alike
  <2>6. IsTree(g)
    <3>1. ASSUME NEW n \in DOMAIN g, NEW d \in Chars
          PROVE  Child(g, n, d) \in {NULL} \cup (DOMAIN g \ {Root})
      BY <1>5, <2>2, <2>3, <2>4 DEF Extended, IsTree, ChildrenExist
    <3>2. ASSUME NEW n \in DOMAIN g, NEW d \in Chars, NEW e \in Chars, Alike(d, e)
          PROVE  Child(g, n, e) = Child(g, n, d)
      <4>1. Alike(c, d) <=> Alike(c, e)
        BY <3>2, TrieAssumption DEF Alike
      <4>2. n # f => Child(h, n, e) = Child(h, n, d)
        BY <1>5, <2>4, <3>2 DEF IsTree, PendantsAgree
      <4>3. CASE n = f
        BY <2>3, <4>3 DEF Extended
      <4>4. CASE n # f
        <5>1. n \in DOMAIN h
          BY <2>4, <4>4
        <5> QED
          BY <2>3, <4>1, <4>2, <4>4, <5>1 DEF Extended
      <4> QED
        BY <4>3, <4>4
    <3>3. ASSUME NEW n \in DOMAIN g, NEW m \in DOMAIN g, NEW d \in Chars, NEW e \in Chars,
                 Child(g, n, d) # NULL, Child(g, m, e) = Child(g, n, d)
          PROVE  m = n /\ Alike(d, e)
      <4>1. n \in DOMAIN h /\ m \in DOMAIN h
        BY <2>3, <2>4, <3>3 DEF Extended
      <4>2. CASE Child(g, n, d) = f
        <5>1. Child(h, n, d) # f /\ Child(h, m, e) # f
          BY <1>5, <2>2, <4>1 DEF IsTree, ChildrenExist
        <5>2. n = p /\ m = p /\ Alike(c, d) /\ Alike(c, e)
          BY <2>3, <3>3, <4>1, <4>2, <5>1 DEF Extended
        <5> QED
          BY <5>2, TrieAssumption DEF Alike
      <4>3. CASE Child(g, n, d) # f
        <5>1. Child(g, n, d) = Child(h, n, d) /\ Child(g, m, e) = Child(h, m, e)
          BY <2>3, <3>3, <4>1, <4>3 DEF Extended
        <5>2. OneParent(h)
          BY <1>5 DEF IsTree
        <5>3. Child(h, n, d) # NULL /\ Child(h, m, e) = Child(h, n, d)
          BY <3>3, <5>1
        <5> QED
          BY <4>1, <5>2, <5>3 DEF OneParent
      <4> QED
        BY <4>2, <4>3
    <3>4. ASSUME NEW n \in DOMAIN g \ {Root}
          PROVE  \E m \in DOMAIN g, d \in Chars : Child(g, m, d) = n
      <4>1. CASE n = f
        BY <1>5, <2>4, <2>5, <4>1
      <4>2. CASE n # f
        <5>1. PICK m \in DOMAIN h, d \in Chars : Child(h, m, d) = n
          BY <1>5, <2>4, <4>2 DEF IsTree, AllOwned
        <5>2. n # NULL
          BY <2>4 DEF IsHeap
        <5>3. Child(g, m, d) = n
          <6>1. m = p => ~Alike(c, d)
            BY <1>5, <1>7, <5>1, <5>2 DEF IsTree, PendantsAgree
          <6> QED
            BY <2>3, <5>1, <6>1 DEF Extended
        <5> QED
          BY <2>4, <5>1, <5>3
      <4> QED
        BY <4>1, <4>2
    <3> QED
      BY <3>1, <3>2, <3>3, <3>4 DEF IsTree, ChildrenExist, PendantsAgree,
           OneParent, AllOwned
  <2>7. ASSUME NEW n \in DOMAIN g \ {Root, f}
        PROVE  ~IsDead(g, n)
    <3>1. CASE n = p
      BY <2>2, <2>5, <3>1 DEF IsDead
    <3>2. CASE n # p
      <4>1. n \in DOMAIN h \ {Root, p} /\ ~IsDead(h, n)
        BY <1>1, <1>2, <2>4, <3>2 DEF TreeOK
      <4> QED
        BY <2>3, <3>2, <4>1 DEF Extended, IsDead, SameEntry
    <3> QED
      BY <3>1, <3>2
  <2>8. TreeOK(g, f)
    BY <2>4, <2>6, <2>7 DEF TreeOK
  <2>9. ASSUME NEW n \in DOMAIN h, NEW d \in Chars, Child(h, n, d) # NULL
        PROVE  Child(g, n, d) = Child(h, n, d)
    <3>1. n = p => ~Alike(c, d)
      BY <1>5, <1>7, <2>9 DEF IsTree, PendantsAgree
    <3> QED
      BY <2>3, <3>1 DEF Extended
  <2>10. ASSUME NEW n \in DOMAIN g, NEW d \in Chars, Child(g, n, d) \in DOMAIN h
         PROVE  n \in DOMAIN h /\ Child(h, n, d) = Child(g, n, d)
    <3>1. n # f
      BY <1>5, <2>3, <2>10 DEF Extended, IsHeap
    <3>2. n \in DOMAIN h
      BY <2>4, <3>1
    <3> QED
      BY <2>2, <2>3, <2>10, <3>2 DEF Extended
  <2>11. Grows(h, g)
    BY <2>3, <2>4, <2>9, <2>10 DEF Grows, Extended
  <2> QED
    BY <1>1, <1>2, <1>4, <2>5, <2>8, <2>11
<1> QED
  BY <1>6, <1>7

-----------------------------------------------------------------------------
(***************************************************************************)
(* The rounds of a descent, of insert and of erase, up to the m-th.  The   *)
(* recursive functions of the model have as many rounds as the token has   *)
(* characters; that such functions exist is shown by the least m for which *)
(* there is none.                                                          *)
(***************************************************************************)
Descend(h, token, k, n) == IF n = NULL THEN NULL ELSE Child(h, n, token[k])

Ascend(h, token, path, k) ==
  Shrink(h, path[Len(token) - k], token[Len(token) + 1 - k])

PathRounds(h, token, m, rounds) ==
  rounds = [k \in 0 .. m |->
              IF k = 0 THEN Root
              ELSE Descend(h, token, k, rounds[k - 1])]

LEMMA PathRoundsExist ==
  ASSUME NEW h, NEW token, NEW last \in Nat
  PROVE  \E rounds : PathRounds(h, token, last, rounds)
<1> DEFINE Missing ==
             {m \in Nat : ~\E rounds : PathRounds(h, token, m, rounds)}
<1>1. Missing = {}
  <2> SUFFICES ASSUME Missing # {} PROVE FALSE
    OBVIOUS
  <2>1. PICK m \in Missing : \A k \in Missing : m <= k
    <3>1. Missing \subseteq Nat
      OBVIOUS
    <3> HIDE DEF Missing
    <3> QED
      BY <3>1, Least
  <2>2. CASE m = 0
    <3>1. PICK rounds : rounds = [k \in 0 .. 0 |-> Root]
      OBVIOUS
    <3>2. PathRounds(h, token, 0, rounds)
      BY <3>1 DEF PathRounds
    <3> QED
      BY <2>2, <3>2
  <2>3. CASE m # 0
    <3>1. PICK j \in Nat : m = j + 1
      BY <2>3
    <3>2. PICK rounds : PathRounds(h, token, j, rounds)
      BY <2>1, <3>1
    <3>3. PICK next : next = Descend(h, token, m, rounds[j])
      OBVIOUS
    <3>4. PICK longer :
            longer = [k \in 0 .. m |-> IF k = m THEN next ELSE rounds[k]]
      OBVIOUS
    <3>5. ASSUME NEW k \in 0 .. m
          PROVE  longer[k] = IF k = 0 THEN Root
                             ELSE Descend(h, token, k, longer[k - 1])
      <4>1. CASE k = m
        <5>1. k - 1 = j /\ j \in 0 .. m /\ j # m /\ k # 0
          BY <3>1, <4>1
        <5>2. longer[k] = next /\ longer[k - 1] = rounds[j]
          BY <3>4, <4>1, <5>1
        <5> QED
          BY <3>3, <4>1, <5>1, <5>2
      <4>2. CASE k # m /\ k = 0
        <5>1. rounds[0] = Root
          BY <3>2 DEF PathRounds
        <5> QED
          BY <3>4, <4>2, <5>1
      <4>3. CASE k # m /\ k # 0
        <5>1. k \in 0 .. j /\ k - 1 \in 0 .. m /\ k - 1 # m
          BY <3>1, <4>3
        <5>2. longer[k] = rounds[k] /\ longer[k - 1] = rounds[k - 1]
          BY <3>4, <4>3, <5>1
        <5>3. rounds[k] = Descend(h, token, k, rounds[k - 1])
          BY <3>2, <4>3, <5>1 DEF PathRounds
        <5> QED
          BY <4>3, <5>2, <5>3
      <4> QED
        BY <4>1, <4>2, <4>3
    <3>6. PathRounds(h, token, m, longer)
      BY <3>4, <3>5 DEF PathRounds
    <3> QED
      BY <2>1, <3>6
  <2> QED
    BY <2>2, <2>3
<1> QED
  BY <1>1

GrowRounds(h, token, m, rounds) ==
  rounds = [k \in 0 .. m |->
              IF k = 0 THEN [nodes |-> h, at |-> Root]
              ELSE Grow(rounds[k - 1], token[k])]

LEMMA GrowRoundsExist ==
  ASSUME NEW h, NEW token, NEW last \in Nat
  PROVE  \E rounds : GrowRounds(h, token, last, rounds)
<1> DEFINE Missing ==
             {m \in Nat : ~\E rounds : GrowRounds(h, token, m, rounds)}
<1>1. Missing = {}
  <2> SUFFICES ASSUME Missing # {} PROVE FALSE
    OBVIOUS
  <2>1. PICK m \in Missing : \A k \in Missing : m <= k
    <3>1. Missing \subseteq Nat
      OBVIOUS
    <3> HIDE DEF Missing
    <3> QED
      BY <3>1, Least
  <2>2. CASE m = 0
    <3>1. PICK rounds : rounds = [k \in 0 .. 0 |-> [nodes |-> h, at |-> Root]]
      OBVIOUS
    <3>2. GrowRounds(h, token, 0, rounds)
      BY <3>1 DEF GrowRounds
    <3> QED
      BY <2>2, <3>2
  <2>3. CASE m # 0
    <3>1. PICK j \in Nat : m = j + 1
      BY <2>3
    <3>2. PICK rounds : GrowRounds(h, token, j, rounds)
      BY <2>1, <3>1
    <3>3. PICK next : next = Grow(rounds[j], token[m])
      OBVIOUS
    <3>4. PICK longer :
            longer = [k \in 0 .. m |-> IF k = m THEN next ELSE rounds[k]]
      OBVIOUS
    <3>5. ASSUME NEW k \in 0 .. m
          PROVE  longer[k] = IF k = 0 THEN [nodes |-> h, at |-> Root]
                             ELSE Grow(longer[k - 1], token[k])
      <4>1. CASE k = m
        <5>1. k - 1 = j /\ j \in 0 .. m /\ j # m /\ k # 0
          BY <3>1, <4>1
        <5>2. longer[k] = next /\ longer[k - 1] = rounds[j]
          BY <3>4, <4>1, <5>1
        <5> QED
          BY <3>3, <4>1, <5>1, <5>2
      <4>2. CASE k # m /\ k = 0
        <5>1. rounds[0] = [nodes |-> h, at |-> Root]
          BY <3>2 DEF GrowRounds
        <5> QED
          BY <3>4, <4>2, <5>1
      <4>3. CASE k # m /\ k # 0
        <5>1. k \in 0 .. j /\ k - 1 \in 0 .. m /\ k - 1 # m
          BY <3>1, <4>3
        <5>2. longer[k] = rounds[k] /\ longer[k - 1] = rounds[k - 1]
          BY <3>4, <4>3, <5>1
        <5>3. rounds[k] = Grow(rounds[k - 1], token[k])
          BY <3>2, <4>3, <5>1 DEF GrowRounds
        <5> QED
          BY <4>3, <5>2, <5>3
      <4> QED
        BY <4>1, <4>2, <4>3
    <3>6. GrowRounds(h, token, m, longer)
      BY <3>4, <3>5 DEF GrowRounds
    <3> QED
      BY <2>1, <3>6
  <2> QED
    BY <2>2, <2>3
<1> QED
  BY <1>1

ShrinkRounds(h, token, path, m, rounds) ==
  rounds = [k \in 0 .. m |->
              IF k = 0 THEN WithoutValue(h, path[Len(token)])
              ELSE Ascend(rounds[k - 1], token, path, k)]

LEMMA ShrinkRoundsExist ==
  ASSUME NEW h, NEW token, NEW path, NEW last \in Nat
  PROVE  \E rounds : ShrinkRounds(h, token, path, last, rounds)
<1> DEFINE Missing ==
             {m \in Nat : ~\E rounds : ShrinkRounds(h, token, path, m, rounds)}
<1>1. Missing = {}
  <2> SUFFICES ASSUME Missing # {} PROVE FALSE
    OBVIOUS
  <2>1. PICK m \in Missing : \A k \in Missing : m <= k
    <3>1. Missing \subseteq Nat
      OBVIOUS
    <3> HIDE DEF Missing
    <3> QED
      BY <3>1, Least
  <2>2. CASE m = 0
    <3>1. PICK rounds : rounds = [k \in 0 .. 0 |-> WithoutValue(h, path[Len(token)])]
      OBVIOUS
    <3>2. ShrinkRounds(h, token, path, 0, rounds)
      BY <3>1 DEF ShrinkRounds
    <3> QED
      BY <2>2, <3>2
  <2>3. CASE m # 0
    <3>1. PICK j \in Nat : m = j + 1
      BY <2>3
    <3>2. PICK rounds : ShrinkRounds(h, token, path, j, rounds)
      BY <2>1, <3>1
    <3>3. PICK next : next = Ascend(rounds[j], token, path, m)
      OBVIOUS
    <3>4. PICK longer :
            longer = [k \in 0 .. m |-> IF k = m THEN next ELSE rounds[k]]
      OBVIOUS
    <3>5. ASSUME NEW k \in 0 .. m
          PROVE  longer[k] = IF k = 0 THEN WithoutValue(h, path[Len(token)])
                             ELSE Ascend(longer[k - 1], token, path, k)
      <4>1. CASE k = m
        <5>1. k - 1 = j /\ j \in 0 .. m /\ j # m /\ k # 0
          BY <3>1, <4>1
        <5>2. longer[k] = next /\ longer[k - 1] = rounds[j]
          BY <3>4, <4>1, <5>1
        <5> QED
          BY <3>3, <4>1, <5>1, <5>2
      <4>2. CASE k # m /\ k = 0
        <5>1. rounds[0] = WithoutValue(h, path[Len(token)])
          BY <3>2 DEF ShrinkRounds
        <5> QED
          BY <3>4, <4>2, <5>1
      <4>3. CASE k # m /\ k # 0
        <5>1. k \in 0 .. j /\ k - 1 \in 0 .. m /\ k - 1 # m
          BY <3>1, <4>3
        <5>2. longer[k] = rounds[k] /\ longer[k - 1] = rounds[k - 1]
          BY <3>4, <4>3, <5>1
        <5>3. rounds[k] = Ascend(rounds[k - 1], token, path, k)
          BY <3>2, <4>3, <5>1 DEF ShrinkRounds
        <5> QED
          BY <4>3, <5>2, <5>3
      <4> QED
        BY <4>1, <4>2, <4>3
    <3>6. ShrinkRounds(h, token, path, m, longer)
      BY <3>4, <3>5 DEF ShrinkRounds
    <3> QED
      BY <2>1, <3>6
  <2> QED
    BY <2>2, <2>3
<1> QED
  BY <1>1

(***************************************************************************)
(* What leads to a node leads through nodes of the tree.                   *)
(***************************************************************************)
OnPath(h, token, path, i) ==
  /\ \A j \in 0 .. i : path[j] \in DOMAIN h
  /\ \A j \in 1 .. i : Child(h, path[j - 1], token[j]) = path[j]

LEMMA PathIsRounds ==
  ASSUME NEW h, NEW token \in Seq(Chars)
  PROVE  PathRounds(h, token, Len(token), Path(h, token))
<1>1. Path(h, token) = CHOOSE path : PathRounds(h, token, Len(token), path)
  BY DEF Path, PathRounds, Descend, Child
<1> QED
  BY <1>1, PathRoundsExist

LEMMA PathLeads ==
  ASSUME NEW h, IsHeap(h), IsTree(h), NEW token \in Seq(Chars),
         NEW path, path = Path(h, token),
         NEW last \in 0 .. Len(token), path[last] # NULL
  PROVE  path[0] = Root /\ OnPath(h, token, path, last)
<1>1. last \in Nat /\ \A k \in 1 .. last : token[k] \in Chars
  OBVIOUS
<1>2. PathRounds(h, token, Len(token), path)
  BY PathIsRounds
<1>3. path[0] = Root
  BY <1>2 DEF PathRounds, Descend
<1>4. ASSUME NEW k \in 1 .. last
      PROVE  path[k] = IF path[k - 1] = NULL THEN NULL
                       ELSE Child(h, path[k - 1], token[k])
  BY <1>2 DEF PathRounds, Descend
<1>5. path[last] # NULL
  OBVIOUS
<1>6. ASSUME NEW k \in 0 .. last
      PROVE  path[k] # NULL
  <2> DEFINE Ended == {m \in 0 .. last : path[last - m] = NULL}
  <2>1. Ended = {}
    <3> SUFFICES ASSUME Ended # {} PROVE FALSE
      OBVIOUS
    <3>1. PICK m \in Ended : \A n \in Ended : m <= n
      <4>1. Ended \subseteq Nat
        OBVIOUS
      <4> HIDE DEF Ended
      <4> QED
        BY <4>1, Least
    <3>2. m # 0
      BY <1>5
    <3>3. m - 1 \in 0 .. last /\ m - 1 < m
      BY <3>2
    <3>4. path[last - (m - 1)] # NULL
      BY <3>1, <3>3
    <3>5. PICK j \in 1 .. last : j = last - (m - 1) /\ j - 1 = last - m
      BY <3>2
    <3> QED
      BY <1>4, <3>4, <3>5
  <2>2. PICK m \in 0 .. last : last - m = k
    OBVIOUS
  <2> QED
    BY <2>1, <2>2
<1>7. ASSUME NEW k \in 1 .. last
      PROVE  Child(h, path[k - 1], token[k]) = path[k]
  <2>1. k - 1 \in 0 .. last
    OBVIOUS
  <2> QED
    BY <1>4, <1>6, <2>1
<1>8. ASSUME NEW k \in 0 .. last
      PROVE  path[k] \in DOMAIN h
  <2> DEFINE Lost == {m \in 0 .. last : path[m] \notin DOMAIN h}
  <2>1. Lost = {}
    <3> SUFFICES ASSUME Lost # {} PROVE FALSE
      OBVIOUS
    <3>1. PICK m \in Lost : \A n \in Lost : m <= n
      <4>1. Lost \subseteq Nat
        OBVIOUS
      <4> HIDE DEF Lost
      <4> QED
        BY <4>1, Least
    <3>2. m # 0
      BY <1>3 DEF IsHeap
    <3>3. m - 1 \in 0 .. last /\ m - 1 < m /\ m \in 1 .. last
      BY <3>2
    <3>4. path[m - 1] \in DOMAIN h /\ token[m] \in Chars
      BY <1>1, <3>1, <3>3
    <3>5. path[m] \in {NULL} \cup DOMAIN h
      BY <1>7, <3>3, <3>4 DEF IsTree, ChildrenExist
    <3> QED
      BY <1>6, <3>1, <3>5
  <2> QED
    BY <2>1
<1> QED
  BY <1>1, <1>3, <1>7, <1>8 DEF OnPath

-----------------------------------------------------------------------------
(***************************************************************************)
(* The way a token leads, if the tree has it.  Spellings of a word have    *)
(* one way, and different words lead to different nodes.                   *)
(***************************************************************************)
Way(h, token, path) ==
  path[0] = Root /\ OnPath(h, token, path, Len(token))

SameWord(s, t) ==
  Len(s) = Len(t) /\ \A k \in 1 .. Len(s) : Alike(s[k], t[k])

LEMMA WayIsWalked ==
  ASSUME NEW h, IsHeap(h), NEW token \in Seq(Chars),
         NEW path, Way(h, token, path)
  PROVE  /\ Walk(h, token) = path[Len(token)]
         /\ Walk(h, token) \in DOMAIN h /\ Walk(h, token) # NULL
<1>1. PICK last \in Nat : last = Len(token)
  OBVIOUS
<1>2. PICK walked : walked = Path(h, token)
  OBVIOUS
<1>3. /\ walked[0] = Root
      /\ \A k \in 1 .. last : walked[k] = Descend(h, token, k, walked[k - 1])
  <2>1. PathRounds(h, token, last, walked)
    BY <1>1, <1>2, PathIsRounds
  <2> QED
    BY <2>1 DEF PathRounds
<1>4. /\ path[0] = Root
      /\ \A k \in 0 .. last : path[k] \in DOMAIN h
      /\ \A k \in 1 .. last : Child(h, path[k - 1], token[k]) = path[k]
  BY <1>1 DEF Way, OnPath
<1>5. walked[last] = path[last]
  <2> DEFINE Strays == {k \in 0 .. last : walked[k] # path[k]}
  <2>1. Strays = {}
    <3> SUFFICES ASSUME Strays # {} PROVE FALSE
      OBVIOUS
    <3>1. PICK k \in Strays : \A j \in Strays : k <= j
      <4>1. Strays \subseteq Nat
        OBVIOUS
      <4> HIDE DEF Strays
      <4> QED
        BY <4>1, Least
    <3>2. k \in 1 .. last /\ k - 1 \in 0 .. last /\ k - 1 < k
      BY <1>3, <1>4, <3>1
    <3>3. walked[k - 1] = path[k - 1] /\ path[k - 1] # NULL
      BY <1>4, <3>1, <3>2 DEF IsHeap
    <3>4. walked[k] = Child(h, path[k - 1], token[k])
      BY <1>3, <3>2, <3>3 DEF Descend
    <3> QED
      BY <1>4, <3>1, <3>2, <3>4
  <2> QED
    BY <2>1
<1>6. path[last] \in DOMAIN h /\ path[last] # NULL
  BY <1>4 DEF IsHeap
<1> QED
  BY <1>1, <1>2, <1>5, <1>6 DEF Walk

LEMMA WalkHasWay ==
  ASSUME NEW h, IsHeap(h), IsTree(h), NEW token \in Seq(Chars),
         Walk(h, token) # NULL
  PROVE  Way(h, token, Path(h, token))
<1>1. PICK path : path = Path(h, token)
  OBVIOUS
<1>2. PICK last \in 0 .. Len(token) : last = Len(token)
  OBVIOUS
<1>3. path[last] # NULL
  BY <1>1, <1>2 DEF Walk
<1> QED
  BY <1>1, <1>2, <1>3, PathLeads DEF Way

LEMMA SpellingsLeadAlike ==
  ASSUME NEW h, IsHeap(h), IsTree(h),
         NEW s \in Seq(Chars), NEW t \in Seq(Chars), SameWord(s, t),
         NEW path, Way(h, s, path)
  PROVE  Way(h, t, path)
<1>1. PICK last \in Nat : last = Len(s) /\ last = Len(t)
  BY DEF SameWord
<1>2. /\ path[0] = Root
      /\ \A k \in 0 .. last : path[k] \in DOMAIN h
      /\ \A k \in 1 .. last : Child(h, path[k - 1], s[k]) = path[k]
  BY <1>1 DEF Way, OnPath
<1>3. ASSUME NEW k \in 1 .. last
      PROVE  Child(h, path[k - 1], t[k]) = path[k]
  <2>1. k - 1 \in 0 .. last /\ s[k] \in Chars /\ t[k] \in Chars /\ Alike(s[k], t[k])
    BY <1>1 DEF SameWord
  <2>2. path[k - 1] \in DOMAIN h
    BY <1>2, <2>1
  <2> QED
    BY <1>2, <2>1, <2>2 DEF IsTree, PendantsAgree
<1> QED
  BY <1>1, <1>2, <1>3 DEF Way, OnPath

LEMMA WaysPart ==
  ASSUME NEW h, IsHeap(h), IsTree(h),
         NEW s \in Seq(Chars), NEW t \in Seq(Chars),
         NEW p, NEW q, Way(h, s, p), Way(h, t, q),
         p[Len(s)] = q[Len(t)], Len(s) <= Len(t)
  PROVE  SameWord(s, t)
<1>1. PICK last \in Nat : last = Len(s)
  OBVIOUS
<1>2. PICK ahead \in Nat : last + ahead = Len(t)
  <2>1. Len(t) - last \in Nat /\ last + (Len(t) - last) = Len(t)
    BY <1>1
  <2> QED
    BY <2>1
<1>3. /\ p[0] = Root
      /\ \A k \in 0 .. last : p[k] \in DOMAIN h
      /\ \A k \in 1 .. last : Child(h, p[k - 1], s[k]) = p[k]
  BY <1>1 DEF Way, OnPath
<1>4. /\ q[0] = Root
      /\ \A k \in 0 .. last + ahead : q[k] \in DOMAIN h
      /\ \A k \in 1 .. last + ahead : Child(h, q[k - 1], t[k]) = q[k]
  BY <1>2 DEF Way, OnPath
<1>5. ASSUME NEW i \in 0 .. last, NEW j \in 1 .. last, j = i + 1,
             p[j] = q[ahead + j]
      PROVE  p[i] = q[ahead + i] /\ Alike(s[j], t[ahead + j])
  <2>1. PICK m \in 1 .. last + ahead : m = ahead + j
    OBVIOUS
  <2>2. PICK n \in 0 .. last + ahead : n = ahead + i
    OBVIOUS
  <2>3. j - 1 = i /\ m - 1 = n /\ j \in 0 .. last
    BY <1>5, <2>1, <2>2
  <2>4. s[j] \in Chars /\ t[m] \in Chars
    BY <1>1, <1>2, <2>1
  <2>5. p[j] = q[m]
    BY <1>5, <2>1
  <2>6. /\ p[i] \in DOMAIN h /\ q[n] \in DOMAIN h /\ p[j] \in DOMAIN h
        /\ Child(h, p[i], s[j]) = p[j] /\ Child(h, q[n], t[m]) = p[j]
    BY <1>3, <1>4, <2>3, <2>5
  <2>7. p[j] # NULL /\ OneParent(h)
    BY <2>6 DEF IsHeap, IsTree
  <2>8. q[n] = p[i] /\ Alike(s[j], t[m])
    BY <2>4, <2>6, <2>7 DEF OneParent
  <2> QED
    BY <2>1, <2>2, <2>8
<1>6. ASSUME NEW k \in 0 .. last
      PROVE  p[k] = q[ahead + k]
  <2> DEFINE Apart == {m \in 0 .. last : \E i \in 0 .. last :
                         m + i = last /\ p[i] # q[ahead + i]}
  <2>1. Apart = {}
    <3> SUFFICES ASSUME Apart # {} PROVE FALSE
      OBVIOUS
    <3>1. PICK m \in Apart : \A n \in Apart : m <= n
      <4>1. Apart \subseteq Nat
        OBVIOUS
      <4> HIDE DEF Apart
      <4> QED
        BY <4>1, Least
    <3>2. PICK i \in 0 .. last : m + i = last /\ p[i] # q[ahead + i]
      OBVIOUS
    <3>3. i # last
      <4>1. p[last] = q[ahead + last]
        BY <1>1, <1>2
      <4> QED
        BY <3>2, <4>1
    <3>4. PICK j \in 1 .. last : j = i + 1
      BY <3>3
    <3>5. m - 1 \in 0 .. last /\ m - 1 < m /\ (m - 1) + j = last /\ j \in 0 .. last
      BY <3>2, <3>4
    <3>6. p[j] = q[ahead + j]
      <4>1. PICK n \in 0 .. last : n = m - 1
        BY <3>5
      <4>2. n \notin Apart
        <5>1. m \in Nat /\ ~(m <= n)
          BY <3>5, <4>1
        <5> HIDE DEF Apart
        <5> QED
          BY <3>1, <5>1
      <4>3. n + j = last /\ j \in 0 .. last
        BY <3>5, <4>1
      <4> QED
        BY <4>2, <4>3
    <3> QED
      BY <1>5, <3>2, <3>4, <3>6
  <2>2. last - k \in 0 .. last /\ (last - k) + k = last
    OBVIOUS
  <2> QED
    BY <2>1, <2>2
<1>7. ahead = 0
  <2> SUFFICES ASSUME ahead # 0 PROVE FALSE
    OBVIOUS
  <2>1. 0 \in 0 .. last /\ ahead + 0 = ahead
    OBVIOUS
  <2>2. q[ahead] = Root
    BY <1>3, <1>6, <2>1
  <2>3. ahead \in 1 .. last + ahead /\ ahead - 1 \in 0 .. last + ahead
    OBVIOUS
  <2>4. t[ahead] \in Chars /\ q[ahead - 1] \in DOMAIN h
    BY <1>2, <1>4, <2>3
  <2>5. Child(h, q[ahead - 1], t[ahead]) = Root
    BY <1>4, <2>2, <2>3
  <2> QED
    BY <2>4, <2>5 DEF IsTree, ChildrenExist, NULL, Root
<1>8. ASSUME NEW k \in 1 .. last
      PROVE  Alike(s[k], t[k])
  <2>1. p[k] = q[ahead + k] /\ ahead + k = k
    BY <1>6, <1>7
  <2>2. k - 1 \in 0 .. last /\ k = (k - 1) + 1
    OBVIOUS
  <2>3. Alike(s[k], t[ahead + k])
    BY <1>5, <2>1, <2>2
  <2> QED
    BY <2>1, <2>3
<1> QED
  BY <1>1, <1>2, <1>7, <1>8 DEF SameWord

LEMMA OneWordLeads ==
  ASSUME NEW h, IsHeap(h), IsTree(h),
         NEW s \in Seq(Chars), NEW t \in Seq(Chars),
         Walk(h, s) # NULL
  PROVE  Walk(h, t) = Walk(h, s) <=> SameWord(s, t)
<1>1. PICK p : Way(h, s, p) /\ Walk(h, s) = p[Len(s)]
  BY WalkHasWay, WayIsWalked
<1>2. ASSUME SameWord(s, t)
      PROVE  Walk(h, t) = Walk(h, s)
  <2>1. Way(h, t, p) /\ Len(s) = Len(t)
    BY <1>1, <1>2, SpellingsLeadAlike DEF SameWord
  <2> QED
    BY <1>1, <2>1, WayIsWalked
<1>3. ASSUME Walk(h, t) = Walk(h, s)
      PROVE  SameWord(s, t)
  <2>1. PICK q : Way(h, t, q) /\ Walk(h, t) = q[Len(t)]
    BY <1>3, WalkHasWay, WayIsWalked
  <2>2. p[Len(s)] = q[Len(t)]
    BY <1>1, <1>3, <2>1
  <2>3. Len(s) \in Nat /\ Len(t) \in Nat
    OBVIOUS
  <2>4. CASE Len(s) <= Len(t)
    BY <1>1, <2>1, <2>2, <2>4, WaysPart
  <2>5. CASE Len(t) <= Len(s)
    <3>1. SameWord(t, s)
      BY <1>1, <2>1, <2>2, <2>5, WaysPart
    <3> QED
      BY <3>1, AlikeIsSymmetric DEF SameWord
  <2> QED
    BY <2>3, <2>4, <2>5
<1> QED
  BY <1>2, <1>3

(***************************************************************************)
(* Two trees that hold the same tokens with the same values.               *)
(***************************************************************************)
SameToken(h, r, s) ==
  /\ Holds(r, s) <=> Holds(h, s)
  /\ Holds(h, s) => r[Walk(r, s)].value = h[Walk(h, s)].value

LEMMA GrowthHoldsTheSame ==
  ASSUME NEW h, IsHeap(h), IsTree(h), NEW r, IsHeap(r), IsTree(r), Grows(h, r),
         NEW s \in Seq(Chars)
  PROVE  SameToken(h, r, s)
<1>1. PICK last \in Nat : last = Len(s)
  OBVIOUS
<1>2. ASSUME NEW p, Way(h, s, p)
      PROVE  Way(r, s, p)
  <2>1. /\ p[0] = Root
        /\ \A k \in 0 .. last : p[k] \in DOMAIN h
        /\ \A k \in 1 .. last : Child(h, p[k - 1], s[k]) = p[k]
    BY <1>1, <1>2 DEF Way, OnPath
  <2>2. ASSUME NEW k \in 1 .. last
        PROVE  Child(r, p[k - 1], s[k]) = p[k]
    <3>1. k - 1 \in 0 .. last /\ k \in 0 .. last /\ s[k] \in Chars
      BY <1>1
    <3>2. p[k - 1] \in DOMAIN h /\ Child(h, p[k - 1], s[k]) # NULL
      BY <2>1, <3>1 DEF IsHeap
    <3> QED
      BY <2>1, <3>1, <3>2 DEF Grows
  <2>3. \A k \in 0 .. last : p[k] \in DOMAIN r
    BY <2>1 DEF Grows
  <2> QED
    BY <1>1, <2>1, <2>2, <2>3 DEF Way, OnPath
<1>3. ASSUME NEW p, Way(r, s, p), p[last] \in DOMAIN h
      PROVE  Way(h, s, p)
  <2>1. /\ p[0] = Root
        /\ \A k \in 0 .. last : p[k] \in DOMAIN r
        /\ \A k \in 1 .. last : Child(r, p[k - 1], s[k]) = p[k]
    BY <1>1, <1>3 DEF Way, OnPath
  <2>2. ASSUME NEW k \in 1 .. last, p[k] \in DOMAIN h
        PROVE  p[k - 1] \in DOMAIN h /\ Child(h, p[k - 1], s[k]) = p[k]
    <3>1. k - 1 \in 0 .. last /\ s[k] \in Chars
      BY <1>1
    <3> QED
      BY <2>1, <2>2, <3>1 DEF Grows
  <2>3. ASSUME NEW k \in 0 .. last
        PROVE  p[k] \in DOMAIN h
    <3> DEFINE Lost == {m \in 0 .. last : p[last - m] \notin DOMAIN h}
    <3>1. Lost = {}
      <4> SUFFICES ASSUME Lost # {} PROVE FALSE
        OBVIOUS
      <4>1. PICK m \in Lost : \A n \in Lost : m <= n
        <5>1. Lost \subseteq Nat
          OBVIOUS
        <5> HIDE DEF Lost
        <5> QED
          BY <5>1, Least
      <4>2. m \in 0 .. last /\ m # 0
        BY <1>3
      <4>3. PICK n \in 0 .. last : n = m - 1 /\ ~(m <= n)
        <5> HIDE DEF Lost
        <5> QED
          BY <4>2
      <4>4. n \notin Lost
        <5> HIDE DEF Lost
        <5> QED
          BY <4>1, <4>3
      <4>5. PICK j \in 1 .. last : j = last - n /\ j - 1 = last - m
        BY <4>2, <4>3
      <4>6. p[j] \in DOMAIN h
        BY <4>4, <4>5
      <4>7. p[j - 1] \in DOMAIN h
        BY <2>2, <4>6
      <4> QED
        BY <4>5, <4>7
    <3>2. PICK m \in 0 .. last : last - m = k
      OBVIOUS
    <3> QED
      BY <3>1, <3>2
  <2>4. \A k \in 1 .. last : k \in 0 .. last
    OBVIOUS
  <2> QED
    BY <1>1, <2>1, <2>2, <2>3, <2>4 DEF Way, OnPath
<1>4. ASSUME Holds(h, s)
      PROVE  SameToken(h, r, s)
  <2>1. Way(h, s, Path(h, s)) /\ h[Walk(h, s)].has_value
    BY <1>4, WalkHasWay DEF Holds
  <2>2. Way(r, s, Path(h, s))
    BY <1>2, <2>1
  <2>3. Walk(r, s) = Walk(h, s) /\ Walk(h, s) \in DOMAIN h /\ Walk(r, s) # NULL
    BY <2>1, <2>2, WayIsWalked
  <2> QED
    BY <2>1, <2>3 DEF Grows, SameEntry, SameToken, Holds
<1>5. ASSUME Holds(r, s)
      PROVE  Holds(h, s)
  <2>1. Way(r, s, Path(r, s)) /\ r[Walk(r, s)].has_value
    BY <1>5, WalkHasWay DEF Holds
  <2>2. Walk(r, s) = Path(r, s)[last] /\ Walk(r, s) \in DOMAIN r
    BY <1>1, <2>1, WayIsWalked
  <2>3. Walk(r, s) \in DOMAIN h
    BY <2>1, <2>2 DEF Grows
  <2>4. Way(h, s, Path(r, s))
    BY <1>3, <2>1, <2>2, <2>3
  <2>5. Walk(h, s) = Walk(r, s) /\ Walk(h, s) # NULL
    BY <1>1, <2>2, <2>4, WayIsWalked
  <2> QED
    BY <2>1, <2>3, <2>5 DEF Grows, SameEntry, Holds
<1> QED
  BY <1>4, <1>5 DEF SameToken

-----------------------------------------------------------------------------
(***************************************************************************)
(* insert.                                                                 *)
(***************************************************************************)
(* A node whose value is set or taken back keeps its children. *)
Revalued(h, r, n) ==
  /\ IsHeap(r) /\ DOMAIN r = DOMAIN h
  /\ \A m \in DOMAIN h : m # n => SameEntry(h, r, m)
  /\ \A m \in DOMAIN h, c \in Chars : Child(r, m, c) = Child(h, m, c)

LEMMA ValueChanged ==
  ASSUME NEW h, IsHeap(h), NEW n \in DOMAIN h,
         NEW r, r = [m \in DOMAIN h |-> r[m]],
         \A m \in DOMAIN h : m # n => r[m] = h[m],
         r[n] = [has_value |-> r[n].has_value, value |-> r[n].value,
                 children |-> h[n].children, used_children |-> h[n].used_children]
  PROVE  Revalued(h, r, n)
<1>1. IsNode(h[n])
  BY DEF IsHeap
<1>2. r[n].children = h[n].children /\ r[n].used_children = h[n].used_children
  OBVIOUS
<1>3. Used(r[n]) = Used(h[n])
  BY <1>2 DEF Used
<1>4. IsNode(r[n])
  BY <1>1, <1>2, <1>3 DEF IsNode
<1>5. DOMAIN r = DOMAIN h
  OBVIOUS
<1>6. IsHeap(r)
  BY <1>4, <1>5 DEF IsHeap
<1> QED
  BY <1>2, <1>5, <1>6 DEF Revalued, Child, SameEntry

LEMMA RevaluedTree ==
  ASSUME NEW h, IsTree(h), NEW n, NEW r, Revalued(h, r, n)
  PROVE  IsTree(r)
<1>1. ChildrenExist(r)
  BY DEF IsTree, ChildrenExist, Revalued
<1>2. PendantsAgree(r)
  BY DEF IsTree, PendantsAgree, Revalued
<1>3. OneParent(r)
  BY DEF IsTree, OneParent, Revalued
<1>4. AllOwned(r)
  BY DEF IsTree, AllOwned, Revalued
<1> QED
  BY <1>1, <1>2, <1>3, <1>4 DEF IsTree

LEMMA EntrySet ==
  ASSUME NEW t, TreeOK(t.nodes, t.at), NEW value,
         NEW r, r = WithValue(t, value)
  PROVE  /\ Revalued(t.nodes, r, t.at)
         /\ r[t.at].has_value /\ r[t.at].value = value
<1>1. PICK h : h = t.nodes
  OBVIOUS
<1>2. PICK n : n = t.at
  OBVIOUS
<1>3. IsHeap(h) /\ IsTree(h) /\ n \in DOMAIN h
  BY <1>1, <1>2 DEF TreeOK
<1>4. PICK x : x = [h[n] EXCEPT !.has_value = TRUE]
  OBVIOUS
<1>5. PICK node : node = [x EXCEPT !.value = value]
  OBVIOUS
<1>6. /\ node = [has_value |-> node.has_value, value |-> node.value,
                 children |-> h[n].children,
                 used_children |-> h[n].used_children]
      /\ node.has_value /\ node.value = value
  <2>1. IsNode(h[n])
    BY <1>3 DEF IsHeap
  <2> QED
    BY <1>4, <1>5, <2>1 DEF IsNode
<1>7. Revalued(h, r, n) /\ r[n].has_value /\ r[n].value = value
  <2>1. PICK g : g = [h EXCEPT ![n] = x]
    OBVIOUS
  <2>2. r = [g EXCEPT ![n].value = value]
    BY <1>1, <1>2, <1>4, <2>1 DEF WithValue
  <2>3. g = [m \in DOMAIN h |-> IF m = n THEN x ELSE h[m]]
    BY <1>3, <2>1 DEF IsHeap
  <2>4. g[n] = x
    BY <1>3, <2>3
  <2>5. r = [g EXCEPT ![n] = node]
    BY <1>5, <2>2, <2>4
  <2>6. r = [m \in DOMAIN g |-> IF m = n THEN node ELSE g[m]]
    BY <2>5
  <2>7. DOMAIN g = DOMAIN h /\ \A m \in DOMAIN h : m # n => g[m] = h[m]
    BY <2>3
  <2>8. /\ r = [m \in DOMAIN h |-> r[m]] /\ r[n] = node
        /\ \A m \in DOMAIN h : m # n => r[m] = h[m]
    BY <1>3, <2>6, <2>7
  <2> QED
    BY <1>3, <1>6, <2>8, ValueChanged
<1> QED
  BY <1>1, <1>2, <1>7

LEMMA ValueSet ==
  ASSUME NEW t, TreeOK(t.nodes, t.at), NEW value
  PROVE  TreeOK(WithValue(t, value), Root)
<1>1. PICK h : h = t.nodes
  OBVIOUS
<1>2. PICK n : n = t.at
  OBVIOUS
<1>3. IsHeap(h) /\ IsTree(h) /\ n \in DOMAIN h
  BY <1>1, <1>2 DEF TreeOK
<1>4. PICK r : r = WithValue(t, value)
  OBVIOUS
<1>8. Revalued(h, r, n) /\ r[n].has_value
  BY <1>1, <1>2, <1>4, EntrySet
<1>9. IsTree(r)
  BY <1>3, <1>8, RevaluedTree
<1>10. Root \in DOMAIN r
  BY <1>8 DEF Revalued, IsHeap
<1>11. ASSUME NEW m \in DOMAIN r \ {Root}
       PROVE  ~IsDead(r, m)
  <2>1. CASE m = n
    BY <1>8, <2>1 DEF IsDead
  <2>2. CASE m # n
    <3>1. m \in DOMAIN h /\ ~IsDead(h, m)
      BY <1>1, <1>2, <1>8, <2>2 DEF TreeOK, Revalued
    <3> QED
      BY <1>8, <2>2, <3>1 DEF IsDead, Revalued, SameEntry
  <2> QED
    BY <2>1, <2>2
<1> QED
  BY <1>4, <1>8, <1>9, <1>10, <1>11 DEF TreeOK, Revalued

LEMMA RevaluedLeadsTheSame ==
  ASSUME NEW h, IsHeap(h), IsTree(h), NEW n, NEW r, Revalued(h, r, n),
         NEW s \in Seq(Chars)
  PROVE  Walk(r, s) = Walk(h, s)
<1>1. IsHeap(r) /\ IsTree(r) /\ DOMAIN r = DOMAIN h
  BY RevaluedTree DEF Revalued
<1>2. ASSUME NEW path
      PROVE  Way(r, s, path) <=> Way(h, s, path)
  <2>1. PICK last \in Nat : last = Len(s)
    OBVIOUS
  <2>2. \A k \in 1 .. last : k - 1 \in 0 .. last /\ s[k] \in Chars
    BY <2>1
  <2> QED
    BY <1>1, <2>1, <2>2 DEF Way, OnPath, Revalued
<1>3. CASE Walk(h, s) # NULL
  <2>1. Way(h, s, Path(h, s)) /\ Way(r, s, Path(h, s))
    BY <1>2, <1>3, WalkHasWay
  <2> QED
    BY <1>1, <2>1, WayIsWalked
<1>4. CASE Walk(h, s) = NULL
  <2> SUFFICES ASSUME Walk(r, s) # NULL PROVE FALSE
    BY <1>4
  <2>1. Way(r, s, Path(r, s)) /\ Way(h, s, Path(r, s))
    BY <1>1, <1>2, WalkHasWay
  <2> QED
    BY <1>4, <2>1, WayIsWalked
<1> QED
  BY <1>3, <1>4

LEMMA GrowthGoesOn ==
  ASSUME NEW h, NEW g, NEW r, Grows(h, g), Grows(g, r),
         NULL \notin DOMAIN h
  PROVE  Grows(h, r)
<1>1. DOMAIN h \subseteq DOMAIN r /\ \A n \in DOMAIN h : SameEntry(h, r, n)
  BY DEF Grows, SameEntry
<1>2. \A n \in DOMAIN r \ DOMAIN h : ~r[n].has_value
  BY DEF Grows, SameEntry
<1>3. ASSUME NEW n \in DOMAIN h, NEW c \in Chars, Child(h, n, c) # NULL
      PROVE  Child(r, n, c) = Child(h, n, c)
  <2>1. Child(g, n, c) = Child(h, n, c) /\ n \in DOMAIN g
    BY <1>3 DEF Grows
  <2> QED
    BY <1>3, <2>1 DEF Grows
<1>4. ASSUME NEW n \in DOMAIN r, NEW c \in Chars, Child(r, n, c) \in DOMAIN h
      PROVE  n \in DOMAIN h /\ Child(h, n, c) = Child(r, n, c)
  <2>1. n \in DOMAIN g /\ Child(g, n, c) = Child(r, n, c)
    BY <1>4 DEF Grows
  <2> QED
    BY <1>4, <2>1 DEF Grows
<1> QED
  BY <1>1, <1>2, <1>3, <1>4 DEF Grows

(* The rounds of insert grow the tree along the way of the token. *)
LEMMA TreeGrown ==
  ASSUME NEW h, TreeOK(h, Root), NEW token \in Seq(Chars),
         NEW t, t = Grown(h, token)
  PROVE  /\ TreeOK(t.nodes, t.at) /\ Grows(h, t.nodes)
         /\ Walk(t.nodes, token) = t.at
<1>1. PICK last \in Nat : last = Len(token)
  OBVIOUS
<1>2. PICK grown : GrowRounds(h, token, last, grown) /\ t = grown[last]
  <2>1. Grown(h, token) = (CHOOSE grown : GrowRounds(h, token, last, grown))[last]
    BY <1>1 DEF Grown, GrowRounds
  <2> QED
    BY <2>1, GrowRoundsExist
<1>3. PICK path : path = [k \in 0 .. last |-> grown[k].at]
  OBVIOUS
<1> DEFINE IsGood(m) ==
             /\ TreeOK(grown[m].nodes, grown[m].at) /\ Grows(h, grown[m].nodes)
             /\ OnPath(grown[m].nodes, token, path, m)
           Broken == {m \in 0 .. last : ~IsGood(m)}
<1>4. path[0] = Root /\ IsGood(0)
  <2>1. grown[0].nodes = h /\ grown[0].at = Root
    BY <1>2 DEF GrowRounds
  <2>2. path[0] = Root /\ Root \in DOMAIN h
    BY <1>3, <2>1 DEF TreeOK
  <2>3. OnPath(h, token, path, 0)
    BY <2>2 DEF OnPath
  <2>4. Grows(h, h)
    BY DEF Grows, SameEntry
  <2> QED
    BY <2>1, <2>2, <2>3, <2>4
<1>5. ASSUME NEW m \in 1 .. last, IsGood(m - 1)
      PROVE  IsGood(m)
  <2>1. m - 1 \in 0 .. last /\ m \in 0 .. last /\ m # 0 /\ token[m] \in Chars
    BY <1>1
  <2>2. PICK g : g = grown[m - 1].nodes
    OBVIOUS
  <2>3. PICK f : f = grown[m].nodes
    OBVIOUS
  <2>4. grown[m] = Grow(grown[m - 1], token[m])
    BY <1>2, <2>1 DEF GrowRounds
  <2>5. /\ TreeOK(f, path[m]) /\ Grows(g, f)
        /\ Child(f, path[m - 1], token[m]) = path[m]
    BY <1>3, <1>5, <2>1, <2>2, <2>3, <2>4, GrowKeeps
  <2>6. Grows(h, f)
    <3>1. NULL \notin DOMAIN h
      BY DEF TreeOK, IsHeap
    <3> QED
      BY <1>5, <2>2, <2>5, <3>1, GrowthGoesOn
  <2>7. OnPath(f, token, path, m)
    <3>1. OnPath(g, token, path, m - 1) /\ NULL \notin DOMAIN g
      BY <1>5, <2>2 DEF TreeOK, IsHeap
    <3>2. ASSUME NEW j \in 0 .. m
          PROVE  path[j] \in DOMAIN f
      <4>1. CASE j = m
        BY <2>5, <4>1 DEF TreeOK
      <4>2. CASE j # m
        <5>1. j \in 0 .. m - 1
          BY <4>2
        <5> QED
          BY <2>5, <3>1, <5>1 DEF OnPath, Grows
      <4> QED
        BY <4>1, <4>2
    <3>3. ASSUME NEW j \in 1 .. m
          PROVE  Child(f, path[j - 1], token[j]) = path[j]
      <4>1. CASE j = m
        BY <2>5, <4>1
      <4>2. CASE j # m
        <5>1. j \in 1 .. m - 1 /\ j - 1 \in 0 .. m - 1 /\ j \in 0 .. m - 1
          BY <4>2
        <5>2. token[j] \in Chars
          BY <1>1, <2>1
        <5>3. /\ path[j - 1] \in DOMAIN g /\ path[j] # NULL
              /\ Child(g, path[j - 1], token[j]) = path[j]
          BY <3>1, <5>1 DEF OnPath
        <5> QED
          BY <2>5, <5>2, <5>3 DEF Grows
      <4> QED
        BY <4>1, <4>2
    <3> QED
      BY <3>2, <3>3 DEF OnPath
  <2>8. TreeOK(grown[m].nodes, grown[m].at)
    BY <1>3, <2>1, <2>3, <2>5
  <2> QED
    BY <2>3, <2>6, <2>7, <2>8
<1>6. Broken = {}
  <2> SUFFICES ASSUME Broken # {} PROVE FALSE
    OBVIOUS
  <2>1. PICK m \in Broken : \A n \in Broken : m <= n
    <3>1. Broken \subseteq Nat
      OBVIOUS
    <3> HIDE DEF Broken
    <3> QED
      BY <3>1, Least
  <2> HIDE DEF IsGood
  <2>2. m # 0 /\ ~IsGood(m)
    BY <1>4, <2>1
  <2>3. m \in 1 .. last /\ m - 1 \in 0 .. last /\ m - 1 < m
    BY <2>2
  <2>4. IsGood(m - 1)
    BY <2>1, <2>3
  <2> QED
    BY <1>5, <2>2, <2>3, <2>4
<1>7. IsGood(last)
  <2> HIDE DEF IsGood
  <2> QED
    BY <1>6
<1>8. path[last] = t.at
  BY <1>2, <1>3
<1>9. Way(t.nodes, token, path)
  BY <1>1, <1>2, <1>4, <1>7 DEF Way
<1>10. Walk(t.nodes, token) = t.at
  BY <1>1, <1>2, <1>7, <1>8, <1>9, WayIsWalked DEF TreeOK
<1> QED
  BY <1>2, <1>7, <1>10

LEMMA InsertKeeps ==
  ASSUME NEW h, TreeOK(h, Root), NEW token \in Seq(Chars), NEW value
  PROVE  TreeOK(Insert(h, token, value), Root)
<1>1. PICK t : t = Grown(h, token)
  OBVIOUS
<1>2. TreeOK(t.nodes, t.at)
  BY <1>1, TreeGrown
<1> QED
  BY <1>1, <1>2, ValueSet DEF Insert

(***************************************************************************)
(* insert adds the token, in every spelling, and no other.                 *)
(***************************************************************************)
LEMMA InsertAdds ==
  ASSUME NEW h, TreeOK(h, Root), NEW token \in Seq(Chars), NEW value,
         ~Holds(h, token), NEW r, r = Insert(h, token, value),
         NEW s \in Seq(Chars)
  PROVE  /\ SameWord(token, s) => Holds(r, s) /\ r[Walk(r, s)].value = value
         /\ ~SameWord(token, s) => SameToken(h, r, s)
<1>1. PICK t : t = Grown(h, token)
  OBVIOUS
<1>2. PICK g : g = t.nodes
  OBVIOUS
<1>3. PICK n : n = t.at
  OBVIOUS
<1>4. /\ TreeOK(g, n) /\ Grows(h, g) /\ Walk(g, token) = n
  BY <1>1, <1>2, <1>3, TreeGrown
<1>5. /\ IsHeap(h) /\ IsTree(h) /\ IsHeap(g) /\ IsTree(g)
      /\ n \in DOMAIN g /\ n # NULL
  BY <1>4 DEF TreeOK, IsHeap
<1>6. SameToken(h, g, s)
  BY <1>4, <1>5, GrowthHoldsTheSame
<1>7. Revalued(g, r, n) /\ r[n].has_value /\ r[n].value = value
  BY <1>1, <1>2, <1>3, <1>4, EntrySet DEF Insert
<1>8. Walk(r, s) = Walk(g, s)
  BY <1>5, <1>7, RevaluedLeadsTheSame
<1>9. Walk(g, s) = n <=> SameWord(token, s)
  BY <1>4, <1>5, OneWordLeads
<1>10. ASSUME SameWord(token, s)
       PROVE  Holds(r, s) /\ r[Walk(r, s)].value = value
  BY <1>5, <1>7, <1>8, <1>9, <1>10 DEF Holds
<1>11. ASSUME ~SameWord(token, s)
       PROVE  SameToken(h, r, s)
  <2>1. CASE Walk(g, s) = NULL
    BY <1>6, <1>8, <2>1 DEF SameToken, Holds
  <2>2. CASE Walk(g, s) # NULL
    <3>1. Walk(g, s) \in DOMAIN g /\ Walk(g, s) # n
      BY <1>5, <1>9, <1>11, <2>2, WalkHasWay, WayIsWalked
    <3>2. SameEntry(g, r, Walk(g, s))
      BY <1>7, <3>1 DEF Revalued
    <3> QED
      BY <1>6, <1>8, <3>2 DEF SameToken, SameEntry, Holds
  <2> QED
    BY <2>1, <2>2
<1> QED
  BY <1>10, <1>11

-----------------------------------------------------------------------------
(***************************************************************************)
(* erase.                                                                  *)
(***************************************************************************)
(* A child that led to no value is gone, and so are both references to it. *)
Removed(h, r, p, c, child) ==
  /\ IsHeap(r) /\ DOMAIN r = DOMAIN h \ {child}
  /\ \A n \in DOMAIN r : SameEntry(h, r, n)
  /\ \A n \in DOMAIN r, d \in Chars :
       Child(r, n, d) = IF n = p /\ Alike(c, d) THEN NULL ELSE Child(h, n, d)

LEMMA ChildRemoved ==
  ASSUME NEW h, IsHeap(h), IsTree(h), NEW p \in DOMAIN h, NEW c \in Chars,
         NEW child, Child(h, p, c) = child, child # NULL, IsDead(h, child),
         NEW r, r = Shrink(h, p, c)
  PROVE  Removed(h, r, p, c, child) /\ child \in DOMAIN h /\ child # p
<1>1. child \in DOMAIN h /\ child # Root
  BY DEF IsTree, ChildrenExist
<1>2. child # p
  BY DEF IsDead
<1>3. PICK g : g = [n \in DOMAIN h \ {child} |-> h[n]]
  OBVIOUS
<1>4. /\ DOMAIN g = DOMAIN h \ {child} /\ g = [n \in DOMAIN g |-> g[n]]
      /\ \A n \in DOMAIN g : g[n] = h[n]
  BY <1>3
<1>5. IsHeap(g)
  <2>1. IsFiniteSet(DOMAIN g)
    BY <1>4, FS_RemoveElement DEF IsHeap
  <2> QED
    BY <1>1, <1>4, <2>1 DEF IsHeap
<1>6. p \in DOMAIN g /\ Child(g, p, c) # NULL
  BY <1>2, <1>4 DEF Child
<1>7. PICK g1 : g1 = RemoveChildReference(g, p, c)
  OBVIOUS
<1>8. ChildSet(g, g1, p, c, NULL)
  BY <1>5, <1>6, <1>7, ReferenceRemoved
<1>9. r = RemovePendant(g1, p, c)
  <2>1. IsUseless(h[child])
    BY <1>1, DeadIsUseless
  <2> QED
    BY <1>3, <1>7, <2>1 DEF Shrink, Child
<1>10. CASE c \in DOMAIN Pendant
  <2>1. PICK d \in Chars : d = Pendant[c] /\ d # c
    BY <1>10, PendantsDiffer
  <2>2. Alike(c, d)
    BY <1>10, <2>1 DEF Alike
  <2>3. Child(g1, p, d) # NULL
    <3>1. Child(h, p, d) = child
      BY <2>2 DEF IsTree, PendantsAgree
    <3> QED
      BY <1>4, <1>6, <1>8, <2>1, <3>1 DEF ChildSet, Child
  <2>4. r = RemoveChildReference(g1, p, d)
    BY <1>9, <1>10, <2>1, <2>3 DEF RemovePendant, Child
  <2>5. ChildSet(g1, r, p, d, NULL)
    BY <1>6, <1>8, <2>3, <2>4, ReferenceRemoved DEF ChildSet
  <2>6. \A e \in Chars : Alike(c, e) <=> e = c \/ e = d
    BY <1>10, <2>1 DEF Alike
  <2>7. /\ IsHeap(r) /\ DOMAIN r = DOMAIN g
        /\ \A n \in DOMAIN g : SameEntry(g, r, n)
        /\ \A n \in DOMAIN g, e \in Chars :
             Child(r, n, e) = IF n = p /\ Alike(c, e) THEN NULL ELSE Child(g, n, e)
    BY <1>8, <2>5, <2>6 DEF ChildSet, SameEntry
  <2> QED
    BY <1>1, <1>2, <1>4, <2>7 DEF Removed, Child, SameEntry
<1>11. CASE c \notin DOMAIN Pendant
  <2>1. r = g1
    BY <1>9, <1>11 DEF RemovePendant
  <2>2. \A e \in Chars : Alike(c, e) <=> e = c
    BY <1>11 DEF Alike
  <2> QED
    BY <1>1, <1>2, <1>4, <1>8, <2>1, <2>2 DEF Removed, ChildSet, Child, SameEntry
<1> QED
  BY <1>10, <1>11

LEMMA TreeWithout ==
  ASSUME NEW h, IsHeap(h), IsTree(h), NEW p \in DOMAIN h, NEW c \in Chars,
         NEW child, Child(h, p, c) = child, child # NULL, IsDead(h, child),
         NEW r, Removed(h, r, p, c, child)
  PROVE  IsTree(r)
<1>1. DOMAIN r = DOMAIN h \ {child} /\ Root \in DOMAIN h /\ NULL \notin DOMAIN h
  BY DEF Removed, IsHeap
<1>2. ASSUME NEW n \in DOMAIN r, NEW d \in Chars, Child(h, n, d) = child
      PROVE  n = p /\ Alike(c, d)
  <2>1. OneParent(h)
    BY DEF IsTree
  <2> QED
    BY <1>1, <1>2, <2>1 DEF OneParent
<1>3. ChildrenExist(r)
  <2> SUFFICES ASSUME NEW n \in DOMAIN r, NEW d \in Chars
               PROVE  Child(r, n, d) \in {NULL} \cup (DOMAIN r \ {Root})
    BY DEF ChildrenExist
  <2>1. Child(h, n, d) \in {NULL} \cup (DOMAIN h \ {Root})
    BY <1>1 DEF IsTree, ChildrenExist
  <2> QED
    BY <1>1, <1>2, <2>1 DEF Removed
<1>4. PendantsAgree(r)
  <2> SUFFICES ASSUME NEW n \in DOMAIN r, NEW d \in Chars, NEW e \in Chars, Alike(d, e)
               PROVE  Child(r, n, e) = Child(r, n, d)
    BY DEF PendantsAgree
  <2>1. Alike(c, d) <=> Alike(c, e)
    BY TrieAssumption DEF Alike
  <2>2. Child(h, n, e) = Child(h, n, d)
    BY <1>1 DEF IsTree, PendantsAgree
  <2> QED
    BY <2>1, <2>2 DEF Removed
<1>5. OneParent(r)
  <2> SUFFICES ASSUME NEW n \in DOMAIN r, NEW m \in DOMAIN r,
                      NEW d \in Chars, NEW e \in Chars,
                      Child(r, n, d) # NULL, Child(r, m, e) = Child(r, n, d)
               PROVE  m = n /\ Alike(d, e)
    BY DEF OneParent
  <2>1. /\ n \in DOMAIN h /\ m \in DOMAIN h
        /\ Child(h, n, d) # NULL /\ Child(h, m, e) = Child(h, n, d)
    BY <1>1 DEF Removed
  <2>2. OneParent(h)
    BY DEF IsTree
  <2> QED
    BY <2>1, <2>2 DEF OneParent
<1>6. AllOwned(r)
  <2> SUFFICES ASSUME NEW n \in DOMAIN r \ {Root}
               PROVE  \E m \in DOMAIN r, d \in Chars : Child(r, m, d) = n
    BY DEF AllOwned
  <2>1. PICK m \in DOMAIN h, d \in Chars : Child(h, m, d) = n
    BY <1>1 DEF IsTree, AllOwned
  <2>2. n # child /\ n # NULL
    BY <1>1
  <2>3. m # child
    BY <2>1, <2>2 DEF IsDead
  <2>4. m = p => ~Alike(c, d)
    BY <2>1, <2>2 DEF IsTree, PendantsAgree
  <2>5. m \in DOMAIN r /\ Child(r, m, d) = n
    BY <1>1, <2>1, <2>3, <2>4 DEF Removed
  <2> QED
    BY <2>5
<1> QED
  BY <1>3, <1>4, <1>5, <1>6 DEF IsTree

(* The tokens of two trees, and what is at the root. *)
SameHolding(h, r) ==
  SameEntry(h, r, Root) /\ \A s \in Seq(Chars) : SameToken(h, r, s)

LEMMA SameHoldingGoesOn ==
  ASSUME NEW h, NEW g, NEW r, SameHolding(h, g), SameHolding(g, r)
  PROVE  SameHolding(h, r)
  BY DEF SameHolding, SameEntry, SameToken

LEMMA RemovalHoldsTheSame ==
  ASSUME NEW h, IsHeap(h), IsTree(h), NEW p \in DOMAIN h, NEW c \in Chars,
         NEW child, Child(h, p, c) = child, child # NULL, child # Root,
         IsDead(h, child), NEW r, IsTree(r), Removed(h, r, p, c, child)
  PROVE  SameHolding(h, r)
<1>1. /\ IsHeap(r) /\ DOMAIN r = DOMAIN h \ {child} /\ NULL \notin DOMAIN h
      /\ Root \in DOMAIN r
  BY DEF Removed, IsHeap
<1>2. ASSUME NEW s \in Seq(Chars), NEW path, Way(r, s, path)
      PROVE  Way(h, s, path)
  <2>1. PICK last \in Nat : last = Len(s)
    OBVIOUS
  <2>2. /\ path[0] = Root
        /\ \A k \in 0 .. last : path[k] \in DOMAIN r
        /\ \A k \in 1 .. last : Child(r, path[k - 1], s[k]) = path[k]
    BY <1>2, <2>1 DEF Way, OnPath
  <2>3. ASSUME NEW k \in 1 .. last
        PROVE  Child(h, path[k - 1], s[k]) = path[k]
    <3>1. k - 1 \in 0 .. last /\ k \in 0 .. last /\ s[k] \in Chars
      BY <2>1
    <3>2. path[k] # NULL /\ path[k - 1] \in DOMAIN r
      BY <1>1, <2>2, <3>1
    <3> QED
      BY <2>2, <3>1, <3>2 DEF Removed
  <2> QED
    BY <1>1, <2>1, <2>2, <2>3 DEF Way, OnPath
<1>3. ASSUME NEW s \in Seq(Chars), NEW path, Way(h, s, path),
             h[path[Len(s)]].has_value
      PROVE  Way(r, s, path)
  <2>1. PICK last \in Nat : last = Len(s)
    OBVIOUS
  <2>2. /\ path[0] = Root
        /\ \A k \in 0 .. last : path[k] \in DOMAIN h
        /\ \A k \in 1 .. last : Child(h, path[k - 1], s[k]) = path[k]
    BY <1>3, <2>1 DEF Way, OnPath
  <2>3. ASSUME NEW k \in 0 .. last
        PROVE  path[k] \in DOMAIN r
    <3>1. CASE k = last
      BY <1>1, <1>3, <2>1, <2>2, <3>1 DEF IsDead
    <3>2. CASE k # last
      <4>1. PICK j \in 1 .. last : j = k + 1 /\ j - 1 = k
        BY <3>2
      <4>2. s[j] \in Chars /\ j \in 0 .. last
        BY <2>1
      <4>3. Child(h, path[k], s[j]) # NULL
        BY <1>1, <2>2, <4>1, <4>2
      <4> QED
        BY <1>1, <2>2, <4>2, <4>3 DEF IsDead
    <3> QED
      BY <3>1, <3>2
  <2>4. ASSUME NEW k \in 1 .. last
        PROVE  Child(r, path[k - 1], s[k]) = path[k]
    <3>1. k - 1 \in 0 .. last /\ k \in 0 .. last /\ s[k] \in Chars
      BY <2>1
    <3>2. path[k - 1] \in DOMAIN r /\ path[k] # child
      BY <1>1, <2>3, <3>1
    <3>3. Child(h, path[k - 1], s[k]) = path[k]
      BY <2>2
    <3>4. path[k - 1] = p => ~Alike(c, s[k])
      <4>1. PendantsAgree(h)
        BY DEF IsTree
      <4> QED
        BY <3>1, <3>2, <3>3, <4>1 DEF PendantsAgree
    <3> QED
      BY <3>1, <3>2, <3>3, <3>4 DEF Removed
  <2> QED
    BY <2>1, <2>2, <2>3, <2>4 DEF Way, OnPath
<1>4. ASSUME NEW s \in Seq(Chars), Holds(h, s)
      PROVE  SameToken(h, r, s)
  <2>1. PICK path : path = Path(h, s)
    OBVIOUS
  <2>2. Way(h, s, path) /\ h[Walk(h, s)].has_value
    BY <1>4, <2>1, WalkHasWay DEF Holds
  <2>3. Walk(h, s) = path[Len(s)]
    BY <2>2, WayIsWalked
  <2>4. Way(r, s, path)
    BY <1>3, <2>2, <2>3
  <2>5. Walk(r, s) = Walk(h, s) /\ Walk(r, s) \in DOMAIN r /\ Walk(r, s) # NULL
    BY <1>1, <2>3, <2>4, WayIsWalked
  <2> QED
    BY <2>2, <2>5 DEF Removed, SameEntry, SameToken, Holds
<1>5. ASSUME NEW s \in Seq(Chars), Holds(r, s)
      PROVE  Holds(h, s)
  <2>1. PICK path : path = Path(r, s)
    OBVIOUS
  <2>2. Way(r, s, path) /\ r[Walk(r, s)].has_value
    BY <1>1, <1>5, <2>1, WalkHasWay DEF Holds
  <2>3. Walk(r, s) = path[Len(s)] /\ Walk(r, s) \in DOMAIN r
    BY <1>1, <2>2, WayIsWalked
  <2>4. Walk(h, s) = Walk(r, s) /\ Walk(h, s) # NULL
    BY <1>2, <2>2, <2>3, WayIsWalked
  <2> QED
    BY <2>2, <2>3, <2>4 DEF Removed, SameEntry, Holds
<1>6. SameEntry(h, r, Root)
  BY <1>1 DEF Removed
<1> QED
  BY <1>4, <1>5, <1>6 DEF SameHolding, SameToken

(* A step of erase goes up to a node that may lead to no value any more. *)
LEMMA ShrinkKeeps ==
  ASSUME NEW h, NEW at, TreeOK(h, at), NEW p \in DOMAIN h, NEW c \in Chars,
         Child(h, p, c) = at, NEW r, r = Shrink(h, p, c)
  PROVE  /\ TreeOK(r, p) /\ SameHolding(h, r)
         /\ r = h \/ (IsDead(h, at) /\ Removed(h, r, p, c, at))
<1>1. IsHeap(h) /\ IsTree(h) /\ at \in DOMAIN h
  BY DEF TreeOK
<1>2. at # NULL /\ at # Root
  BY <1>1 DEF IsHeap, IsTree, ChildrenExist
<1>3. CASE ~IsDead(h, at)
  <2>1. r = h
    BY <1>1, <1>3, DeadIsUseless DEF Shrink, Child
  <2>2. SameHolding(h, r)
    BY <2>1 DEF SameHolding, SameEntry, SameToken
  <2> QED
    BY <1>3, <2>1, <2>2 DEF TreeOK
<1>4. CASE IsDead(h, at)
  <2>1. Removed(h, r, p, c, at) /\ at # p
    BY <1>1, <1>2, <1>4, ChildRemoved
  <2>2. IsTree(r)
    BY <1>1, <1>2, <1>4, <2>1, TreeWithout
  <2>3. IsHeap(r) /\ DOMAIN r = DOMAIN h \ {at}
    BY <2>1 DEF Removed
  <2>4. ASSUME NEW n \in DOMAIN r \ {Root, p}
        PROVE  ~IsDead(r, n)
    <3>1. ~IsDead(h, n)
      BY <2>3 DEF TreeOK
    <3> QED
      BY <2>1, <3>1 DEF IsDead, Removed, SameEntry
  <2>5. SameHolding(h, r)
    BY <1>1, <1>2, <1>4, <2>1, <2>2, RemovalHoldsTheSame
  <2> QED
    BY <1>4, <2>1, <2>2, <2>3, <2>4, <2>5 DEF TreeOK
<1> QED
  BY <1>3, <1>4

LEMMA ValueTaken ==
  ASSUME NEW h, TreeOK(h, Root), NEW n \in DOMAIN h,
         NEW r, r = WithoutValue(h, n)
  PROVE  /\ TreeOK(r, n) /\ Revalued(h, r, n)
         /\ ~r[n].has_value /\ r[n].value = h[n].value
<1>1. IsHeap(h) /\ IsTree(h)
  BY DEF TreeOK
<1>2. PICK node : node = [h[n] EXCEPT !.has_value = FALSE]
  OBVIOUS
<1>3. /\ node = [has_value |-> node.has_value, value |-> node.value,
                 children |-> h[n].children,
                 used_children |-> h[n].used_children]
      /\ ~node.has_value /\ node.value = h[n].value
  <2>1. IsNode(h[n])
    BY <1>1 DEF IsHeap
  <2> QED
    BY <1>2, <2>1 DEF IsNode
<1>4. r = [h EXCEPT ![n] = node]
  BY <1>2 DEF WithoutValue
<1>5. Revalued(h, r, n) /\ ~r[n].has_value /\ r[n].value = h[n].value
  <2>1. r = [m \in DOMAIN h |-> IF m = n THEN node ELSE h[m]]
    BY <1>1, <1>4 DEF IsHeap
  <2>2. /\ r = [m \in DOMAIN h |-> r[m]] /\ r[n] = node
        /\ \A m \in DOMAIN h : m # n => r[m] = h[m]
    BY <2>1
  <2> QED
    BY <1>1, <1>3, <2>2, ValueChanged
<1>6. IsTree(r)
  BY <1>1, <1>5, RevaluedTree
<1>7. ASSUME NEW m \in DOMAIN r \ {Root, n}
      PROVE  ~IsDead(r, m)
  <2>1. m \in DOMAIN h /\ ~IsDead(h, m)
    BY <1>5 DEF TreeOK, Revalued
  <2> QED
    BY <1>5, <2>1 DEF IsDead, Revalued, SameEntry
<1> QED
  BY <1>5, <1>6, <1>7 DEF TreeOK, Revalued

(* The rest of the way up is not touched by a step of erase. *)
LEMMA PathStays ==
  ASSUME NEW h, NEW token \in Seq(Chars), NEW path,
         NEW i \in 1 .. Len(token), TreeOK(h, path[i]), OnPath(h, token, path, i),
         NEW r, r = Shrink(h, path[i - 1], token[i])
  PROVE  /\ TreeOK(r, path[i - 1]) /\ OnPath(r, token, path, i - 1)
         /\ SameHolding(h, r)
<1>1. PICK p : p = path[i - 1]
  OBVIOUS
<1>2. PICK c \in Chars : c = token[i]
  OBVIOUS
<1>3. i \in 0 .. i /\ i - 1 \in 0 .. i /\ i \in 1 .. i
  OBVIOUS
<1>4. p \in DOMAIN h /\ Child(h, p, c) = path[i] /\ path[i] \in DOMAIN h
  BY <1>1, <1>2, <1>3 DEF OnPath
<1>5. /\ TreeOK(r, p) /\ SameHolding(h, r)
      /\ r = h \/ (IsDead(h, path[i]) /\ Removed(h, r, p, c, path[i]))
  BY <1>1, <1>2, <1>4, ShrinkKeeps
<1>6. CASE r = h
  <2>1. \A j \in 0 .. i - 1 : j \in 0 .. i
    OBVIOUS
  <2>2. \A j \in 1 .. i - 1 : j \in 1 .. i
    OBVIOUS
  <2> QED
    BY <1>1, <1>5, <1>6, <2>1, <2>2 DEF OnPath
<1>7. CASE IsDead(h, path[i]) /\ Removed(h, r, p, c, path[i])
  <2>1. IsHeap(h) /\ IsTree(h) /\ NULL \notin DOMAIN h
    BY DEF TreeOK, IsHeap
  <2>2. ASSUME NEW j \in 0 .. i - 1
        PROVE  path[j] \in DOMAIN h /\ path[j] # path[i]
    <3>1. j \in 0 .. i /\ j + 1 \in 1 .. i /\ j + 1 \in 0 .. i /\ (j + 1) - 1 = j
          /\ j + 1 \in 1 .. Len(token)
      OBVIOUS
    <3>2. token[j + 1] \in Chars
      BY <3>1
    <3>3. Child(h, path[j], token[j + 1]) = path[j + 1] /\ path[j + 1] \in DOMAIN h
      BY <3>1 DEF OnPath
    <3>4. ~IsDead(h, path[j])
      BY <2>1, <3>2, <3>3 DEF IsDead
    <3> QED
      BY <1>7, <3>1, <3>4 DEF OnPath
  <2>3. ASSUME NEW j \in 1 .. i - 1
        PROVE  Child(r, path[j - 1], token[j]) = path[j]
    <3>1. j \in 1 .. i /\ j \in 0 .. i - 1 /\ j - 1 \in 0 .. i - 1
          /\ j \in 1 .. Len(token)
      OBVIOUS
    <3>2. token[j] \in Chars
      BY <3>1
    <3>3. Child(h, path[j - 1], token[j]) = path[j]
      BY <3>1 DEF OnPath
    <3>4. path[j - 1] \in DOMAIN h /\ path[j - 1] # path[i] /\ path[j] # path[i]
      BY <2>2, <3>1
    <3>5. path[j - 1] \in DOMAIN r
      BY <1>7, <3>4 DEF Removed
    <3>6. path[j - 1] = p => ~Alike(c, token[j])
      <4>1. PendantsAgree(h)
        BY <2>1 DEF IsTree
      <4> QED
        BY <1>4, <3>2, <3>3, <3>4, <4>1 DEF PendantsAgree
    <3> QED
      BY <1>7, <3>2, <3>3, <3>5, <3>6 DEF Removed
  <2>4. \A j \in 0 .. i - 1 : path[j] \in DOMAIN r
    BY <1>7, <2>2 DEF Removed
  <2> QED
    BY <1>1, <1>5, <2>3, <2>4 DEF OnPath
<1> QED
  BY <1>5, <1>6, <1>7

(* Erasing is taking the value, and what is shrunk after it holds the same. *)
LEMMA TreeShrunk ==
  ASSUME NEW h, TreeOK(h, Root), NEW token \in Seq(Chars), Holds(h, token)
  PROVE  /\ TreeOK(Erase(h, token), Root)
         /\ SameHolding(WithoutValue(h, Walk(h, token)), Erase(h, token))
<1>1. PICK last \in Nat : last = Len(token)
  OBVIOUS
<1>2. PICK path : path = Path(h, token)
  OBVIOUS
<1>3. path[0] = Root /\ OnPath(h, token, path, last)
  <2>1. path[last] # NULL
    BY <1>1, <1>2 DEF Holds, Walk
  <2> QED
    BY <1>1, <1>2, <2>1, PathLeads DEF TreeOK
<1>4. PICK shrunk : /\ ShrinkRounds(h, token, path, last, shrunk)
                    /\ Shrunk(h, token, path) = shrunk[last]
  <2>1. Shrunk(h, token, path)
          = (CHOOSE shrunk : ShrinkRounds(h, token, path, last, shrunk))[last]
    BY <1>1 DEF Shrunk, ShrinkRounds, Ascend
  <2> QED
    BY <2>1, ShrinkRoundsExist
<1> DEFINE IsGood(m) == /\ TreeOK(shrunk[m], path[last - m])
                        /\ OnPath(shrunk[m], token, path, last - m)
                        /\ SameHolding(shrunk[0], shrunk[m])
           Broken == {m \in 0 .. last : ~IsGood(m)}
<1>5. IsGood(0)
  <2>1. shrunk[0] = WithoutValue(h, path[last]) /\ last - 0 = last
    BY <1>1, <1>4 DEF ShrinkRounds
  <2>2. path[last] \in DOMAIN h
    BY <1>3 DEF OnPath
  <2>3. TreeOK(shrunk[0], path[last]) /\ Revalued(h, shrunk[0], path[last])
    BY <2>1, <2>2, ValueTaken
  <2>4. ASSUME NEW j \in 1 .. last
        PROVE  Child(shrunk[0], path[j - 1], token[j]) = path[j]
    <3>1. path[j - 1] \in DOMAIN h /\ token[j] \in Chars
      BY <1>1, <1>3 DEF OnPath
    <3> QED
      BY <1>3, <2>3, <3>1 DEF OnPath, Revalued
  <2>5. \A j \in 0 .. last : path[j] \in DOMAIN shrunk[0]
    BY <1>3, <2>3 DEF OnPath, Revalued
  <2>6. SameHolding(shrunk[0], shrunk[0])
    BY DEF SameHolding, SameEntry, SameToken
  <2> QED
    BY <2>1, <2>3, <2>4, <2>5, <2>6 DEF OnPath
<1>6. ASSUME NEW m \in 1 .. last, IsGood(m - 1)
      PROVE  IsGood(m)
  <2>1. PICK i \in 1 .. Len(token) : i = last - (m - 1)
    BY <1>1
  <2>2. i - 1 = last - m /\ Len(token) + 1 - m = i /\ Len(token) - m = i - 1
    BY <1>1, <2>1
  <2>3. shrunk[m] = Shrink(shrunk[m - 1], path[i - 1], token[i])
    <3>1. m \in 0 .. last /\ m # 0
      OBVIOUS
    <3>2. shrunk[m] = Shrink(shrunk[m - 1], path[Len(token) - m],
                             token[Len(token) + 1 - m])
      BY <1>4, <3>1 DEF ShrinkRounds, Ascend
    <3> QED
      BY <2>2, <3>2
  <2>4. TreeOK(shrunk[m - 1], path[i]) /\ OnPath(shrunk[m - 1], token, path, i)
    BY <1>6, <2>1
  <2>5. SameHolding(shrunk[m - 1], shrunk[m])
    BY <2>2, <2>3, <2>4, PathStays
  <2>6. SameHolding(shrunk[0], shrunk[m])
    BY <1>6, <2>5, SameHoldingGoesOn
  <2> QED
    BY <2>2, <2>3, <2>4, <2>6, PathStays
<1>7. Broken = {}
  <2> SUFFICES ASSUME Broken # {} PROVE FALSE
    OBVIOUS
  <2>1. PICK m \in Broken : \A n \in Broken : m <= n
    <3>1. Broken \subseteq Nat
      OBVIOUS
    <3> HIDE DEF Broken
    <3> QED
      BY <3>1, Least
  <2> HIDE DEF IsGood
  <2>2. m # 0 /\ ~IsGood(m)
    BY <1>5, <2>1
  <2>3. m \in 1 .. last /\ m - 1 \in 0 .. last /\ m - 1 < m
    BY <2>2
  <2>4. IsGood(m - 1)
    BY <2>1, <2>3
  <2> QED
    BY <1>6, <2>2, <2>3, <2>4
<1>8. IsGood(last)
  <2> HIDE DEF IsGood
  <2> QED
    BY <1>7
<1>9. last - last = 0
  OBVIOUS
<1>10. shrunk[0] = WithoutValue(h, Walk(h, token))
  BY <1>1, <1>2, <1>4 DEF ShrinkRounds, Walk
<1>11. Erase(h, token) = shrunk[last]
  BY <1>2, <1>4 DEF Erase
<1> QED
  BY <1>3, <1>8, <1>9, <1>10, <1>11

LEMMA EraseKeeps ==
  ASSUME NEW h, TreeOK(h, Root), NEW token \in Seq(Chars)
  PROVE  TreeOK(Erase(h, token), Root)
  BY TreeShrunk DEF Erase

(***************************************************************************)
(* erase takes the token, in every spelling, and no other.                 *)
(***************************************************************************)
LEMMA EraseTakes ==
  ASSUME NEW h, TreeOK(h, Root), NEW token \in Seq(Chars), Holds(h, token),
         NEW r, r = Erase(h, token), NEW s \in Seq(Chars)
  PROVE  /\ SameWord(token, s) => ~Holds(r, s)
         /\ ~SameWord(token, s) => SameToken(h, r, s)
<1>1. PICK n : n = Walk(h, token)
  OBVIOUS
<1>2. IsHeap(h) /\ IsTree(h) /\ n # NULL
  BY <1>1 DEF TreeOK, Holds
<1>3. n \in DOMAIN h
  BY <1>1, <1>2, WalkHasWay, WayIsWalked
<1>4. PICK g : g = WithoutValue(h, n)
  OBVIOUS
<1>5. Revalued(h, g, n) /\ ~g[n].has_value
  BY <1>3, <1>4, ValueTaken
<1>6. SameToken(g, r, s)
  BY <1>1, <1>4, TreeShrunk DEF SameHolding
<1>7. Walk(g, s) = Walk(h, s)
  BY <1>2, <1>5, RevaluedLeadsTheSame
<1>8. Walk(h, s) = n <=> SameWord(token, s)
  BY <1>1, <1>2, OneWordLeads
<1>9. ASSUME SameWord(token, s)
      PROVE  ~Holds(r, s)
  BY <1>5, <1>6, <1>7, <1>8, <1>9 DEF SameToken, Holds
<1>10. ASSUME ~SameWord(token, s)
       PROVE  SameToken(h, r, s)
  <2>1. CASE Walk(h, s) = NULL
    BY <1>6, <1>7, <2>1 DEF SameToken, Holds
  <2>2. CASE Walk(h, s) # NULL
    <3>1. Walk(h, s) \in DOMAIN h /\ Walk(h, s) # n
      BY <1>2, <1>8, <1>10, <2>2, WalkHasWay, WayIsWalked
    <3>2. SameEntry(h, g, Walk(h, s))
      BY <1>5, <3>1 DEF Revalued
    <3> QED
      BY <1>6, <1>7, <3>2 DEF SameToken, SameEntry, Holds
  <2> QED
    BY <2>1, <2>2
<1> QED
  BY <1>9, <1>10

-----------------------------------------------------------------------------
(***************************************************************************)
(* find.                                                                   *)
(***************************************************************************)
(* What a node answers, and what it answers when the next one was asked. *)
Own(h, node, k) ==
  [used_size |-> IF h[node[k]].has_value THEN k ELSE 0,
   value     |-> h[node[k]].value]

Better(h, node, k, next) ==
  IF node[k + 1] # NULL /\ next.used_size # 0 THEN next ELSE Own(h, node, k)

FindRounds(h, node, last, m, rounds) ==
  rounds = [k \in 0 .. m |->
              IF k = 0 THEN Own(h, node, last)
              ELSE Better(h, node, last - k, rounds[k - 1])]

LEMMA FindRoundsExist ==
  ASSUME NEW h, NEW node, NEW last \in Nat, NEW end \in Nat
  PROVE  \E rounds : FindRounds(h, node, last, end, rounds)
<1> DEFINE Missing ==
             {m \in Nat : ~\E rounds : FindRounds(h, node, last, m, rounds)}
<1>1. Missing = {}
  <2> SUFFICES ASSUME Missing # {} PROVE FALSE
    OBVIOUS
  <2>1. PICK m \in Missing : \A k \in Missing : m <= k
    <3>1. Missing \subseteq Nat
      OBVIOUS
    <3> HIDE DEF Missing
    <3> QED
      BY <3>1, Least
  <2>2. CASE m = 0
    <3>1. PICK rounds : rounds = [k \in 0 .. 0 |-> Own(h, node, last)]
      OBVIOUS
    <3>2. FindRounds(h, node, last, 0, rounds)
      BY <3>1 DEF FindRounds
    <3> QED
      BY <2>2, <3>2
  <2>3. CASE m # 0
    <3>1. PICK j \in Nat : m = j + 1
      BY <2>3
    <3>2. PICK rounds : FindRounds(h, node, last, j, rounds)
      BY <2>1, <3>1
    <3>3. PICK next : next = Better(h, node, last - m, rounds[j])
      OBVIOUS
    <3>4. PICK longer :
            longer = [k \in 0 .. m |-> IF k = m THEN next ELSE rounds[k]]
      OBVIOUS
    <3>5. ASSUME NEW k \in 0 .. m
          PROVE  longer[k] = IF k = 0 THEN Own(h, node, last)
                             ELSE Better(h, node, last - k, longer[k - 1])
      <4>1. CASE k = m
        <5>1. k - 1 = j /\ j \in 0 .. m /\ j # m /\ k # 0
          BY <3>1, <4>1
        <5>2. longer[k] = next /\ longer[k - 1] = rounds[j]
          BY <3>4, <4>1, <5>1
        <5> QED
          BY <3>3, <4>1, <5>1, <5>2
      <4>2. CASE k # m /\ k = 0
        <5>1. rounds[0] = Own(h, node, last)
          BY <3>2 DEF FindRounds
        <5> QED
          BY <3>4, <4>2, <5>1
      <4>3. CASE k # m /\ k # 0
        <5>1. k \in 0 .. j /\ k - 1 \in 0 .. m /\ k - 1 # m
          BY <3>1, <4>3
        <5>2. longer[k] = rounds[k] /\ longer[k - 1] = rounds[k - 1]
          BY <3>4, <4>3, <5>1
        <5>3. rounds[k] = Better(h, node, last - k, rounds[k - 1])
          BY <3>2, <4>3, <5>1 DEF FindRounds
        <5> QED
          BY <4>3, <5>2, <5>3
      <4> QED
        BY <4>1, <4>2, <4>3
    <3>6. FindRounds(h, node, last, m, longer)
      BY <3>4, <3>5 DEF FindRounds
    <3> QED
      BY <2>1, <3>6
  <2> QED
    BY <2>2, <2>3
<1> QED
  BY <1>1

(* find goes down and answers on its way up. *)
FindEquation(h, node, last, found) ==
  found = [k \in 0 .. last |->
             IF k = last THEN Own(h, node, k)
             ELSE Better(h, node, k, found[k + 1])]

LEMMA FindExists ==
  ASSUME NEW h, NEW node, NEW last \in Nat
  PROVE  \E found : FindEquation(h, node, last, found)
<1>1. PICK rounds : FindRounds(h, node, last, last, rounds)
  BY FindRoundsExist
<1>2. PICK found : found = [k \in 0 .. last |-> rounds[last - k]]
  OBVIOUS
<1>3. ASSUME NEW k \in 0 .. last
      PROVE  found[k] = IF k = last THEN Own(h, node, k)
                        ELSE Better(h, node, k, found[k + 1])
  <2>1. PICK m \in 0 .. last : m = last - k /\ found[k] = rounds[m]
    BY <1>2
  <2>2. CASE k = last
    <3>1. m = 0 /\ rounds[0] = Own(h, node, last)
      BY <1>1, <2>1, <2>2 DEF FindRounds
    <3> QED
      BY <2>1, <2>2, <3>1
  <2>3. CASE k # last
    <3>1. PICK j \in 0 .. last : j = k + 1
      BY <2>3
    <3>2. PICK i \in 0 .. last : i = last - j /\ found[j] = rounds[i]
      BY <1>2
    <3>3. m # 0 /\ m - 1 = i /\ last - m = k
      BY <2>1, <2>3, <3>1, <3>2
    <3>4. rounds[m] = Better(h, node, last - m, rounds[m - 1])
      BY <1>1, <3>3 DEF FindRounds
    <3>5. rounds[m] = Better(h, node, k, rounds[i])
      BY <3>3, <3>4
    <3> QED
      BY <2>1, <2>3, <3>1, <3>2, <3>5
  <2> QED
    BY <2>2, <2>3
<1> QED
  BY <1>2, <1>3 DEF FindEquation

LEMMA PathOfBeginning ==
  ASSUME NEW h, NEW text \in Seq(Chars), NEW k \in 0 .. Len(text),
         NEW token \in Seq(Chars), Len(token) = k,
         \A i \in 1 .. k : token[i] = text[i]
  PROVE  Walk(h, token) = Path(h, text)[k]
<1>1. PICK short : short = Path(h, token)
  OBVIOUS
<1>2. PICK long : long = Path(h, text)
  OBVIOUS
<1>3. /\ short[0] = Root
      /\ \A i \in 1 .. k : short[i] = Descend(h, token, i, short[i - 1])
  <2>1. PathRounds(h, token, k, short)
    BY <1>1, PathIsRounds
  <2> QED
    BY <2>1 DEF PathRounds
<1>4. /\ long[0] = Root
      /\ \A i \in 1 .. k : long[i] = Descend(h, text, i, long[i - 1])
  <2>1. PathRounds(h, text, Len(text), long)
    BY <1>2, PathIsRounds
  <2> QED
    BY <2>1 DEF PathRounds
<1>5. short[k] = long[k]
  <2> DEFINE Strays == {i \in 0 .. k : short[i] # long[i]}
  <2>1. Strays = {}
    <3> SUFFICES ASSUME Strays # {} PROVE FALSE
      OBVIOUS
    <3>1. PICK i \in Strays : \A j \in Strays : i <= j
      <4>1. Strays \subseteq Nat
        OBVIOUS
      <4> HIDE DEF Strays
      <4> QED
        BY <4>1, Least
    <3>2. i \in 1 .. k /\ i - 1 \in 0 .. k /\ i - 1 < i
      BY <1>3, <1>4, <3>1
    <3>3. short[i - 1] = long[i - 1] /\ token[i] = text[i]
      BY <3>1, <3>2
    <3> QED
      BY <1>3, <1>4, <3>1, <3>2, <3>3 DEF Descend
  <2> QED
    BY <2>1
<1> QED
  BY <1>1, <1>2, <1>5 DEF Walk

(* A node on the way of a text that has a value. *)
HasValueAt(h, node, k) == k # 0 /\ node[k] # NULL /\ h[node[k]].has_value

LEMMA FindsLast ==
  ASSUME NEW h, IsHeap(h), IsTree(h), NEW text \in Seq(Chars),
         NEW node, node = Path(h, text),
         NEW last \in Nat, last = Len(text),
         NEW found, FindEquation(h, node, last, found)
  PROVE  /\ found[0].used_size \in 0 .. last
         /\ found[0].used_size # 0
              => /\ HasValueAt(h, node, found[0].used_size)
                 /\ found[0].value = h[node[found[0].used_size]].value
         /\ \A k \in 0 .. last :
              HasValueAt(h, node, k) => k <= found[0].used_size
         /\ found[0].used_size = 0 => found[0].value = h[node[0]].value
<1>1. ASSUME NEW k \in 0 .. last
      PROVE  found[k] = IF k = last THEN Own(h, node, k)
                        ELSE Better(h, node, k, found[k + 1])
  BY DEF FindEquation
<1>2. ASSUME NEW k \in 0 .. last, node[k] # NULL, NEW j \in 0 .. k
      PROVE  node[j] # NULL
  <2>1. OnPath(h, text, node, k)
    BY <1>2, PathLeads
  <2> QED
    BY <2>1 DEF OnPath, IsHeap
<1> DEFINE IsGood(k, size, value) ==
             /\ size \in 0 .. last
             /\ size # 0 => /\ size \in k .. last /\ HasValueAt(h, node, size)
                            /\ value = h[node[size]].value
             /\ \A j \in k .. last : HasValueAt(h, node, j) => j <= size
             /\ size = 0 => value = h[node[k]].value
<1>3. ASSUME NEW k \in 0 .. last, node[k] # NULL, found[k] = Own(h, node, k),
             \A j \in k + 1 .. last : ~HasValueAt(h, node, j)
      PROVE  IsGood(k, found[k].used_size, found[k].value)
  <2>1. /\ found[k].used_size = (IF h[node[k]].has_value THEN k ELSE 0)
        /\ found[k].value = h[node[k]].value
    BY <1>3 DEF Own
  <2>2. \A j \in k .. last : j = k \/ j \in k + 1 .. last
    OBVIOUS
  <2>3. CASE h[node[k]].has_value
    BY <1>3, <2>1, <2>2, <2>3 DEF HasValueAt
  <2>4. CASE ~h[node[k]].has_value
    BY <1>3, <2>1, <2>2, <2>4 DEF HasValueAt
  <2> QED
    BY <2>3, <2>4
<1>4. ASSUME node[last] # NULL
      PROVE  IsGood(last, found[last].used_size, found[last].value)
  <2>1. last \in 0 .. last /\ \A j \in last + 1 .. last : FALSE
    OBVIOUS
  <2> QED
    BY <1>1, <1>3, <1>4, <2>1
<1>5. ASSUME NEW k \in 0 .. last, NEW i \in 0 .. last, i = k + 1, node[k] # NULL,
             node[i] # NULL => IsGood(i, found[i].used_size, found[i].value)
      PROVE  IsGood(k, found[k].used_size, found[k].value)
  <2>1. found[k] = Better(h, node, k, found[i])
    BY <1>1, <1>5
  <2>2. CASE node[i] # NULL /\ found[i].used_size # 0
    <3>1. found[k] = found[i]
      BY <1>5, <2>1, <2>2 DEF Better
    <3>2. \A j \in k .. last : j = k \/ j \in i .. last
      BY <1>5
    <3>3. found[i].used_size \in i .. last
      BY <1>5, <2>2
    <3>4. found[i].used_size \in k .. last /\ k <= found[i].used_size
      BY <1>5, <3>3
    <3> QED
      BY <1>5, <2>2, <3>1, <3>2, <3>4
  <2>3. CASE ~(node[i] # NULL /\ found[i].used_size # 0)
    <3>1. found[k] = Own(h, node, k)
      BY <1>5, <2>1, <2>3 DEF Better
    <3>2. ASSUME NEW j \in k + 1 .. last
          PROVE  ~HasValueAt(h, node, j)
      <4>1. j \in i .. last /\ j \in 0 .. last /\ i \in 0 .. j /\ ~(j <= 0)
        BY <1>5
      <4>2. node[i] = NULL => node[j] = NULL
        BY <1>2, <4>1
      <4>3. node[i] # NULL => ~HasValueAt(h, node, j)
        BY <1>5, <2>3, <4>1
      <4> QED
        BY <4>2, <4>3 DEF HasValueAt
    <3> QED
      BY <1>3, <1>5, <3>1, <3>2
  <2> QED
    BY <2>2, <2>3
<1> DEFINE Broken == {m \in 0 .. last : \E k \in 0 .. last :
                        /\ m + k = last /\ node[k] # NULL
                        /\ ~IsGood(k, found[k].used_size, found[k].value)}
<1>6. Broken = {}
  <2> SUFFICES ASSUME Broken # {} PROVE FALSE
    OBVIOUS
  <2>1. PICK m \in Broken : \A n \in Broken : m <= n
    <3>1. Broken \subseteq Nat
      OBVIOUS
    <3> HIDE DEF Broken
    <3> QED
      BY <3>1, Least
  <2> HIDE DEF IsGood
  <2>2. PICK k \in 0 .. last : /\ m + k = last /\ node[k] # NULL
                               /\ ~IsGood(k, found[k].used_size, found[k].value)
    OBVIOUS
  <2>3. k # last /\ m \in 0 .. last
    BY <1>4, <2>2
  <2>4. PICK i \in 0 .. last : i = k + 1
    BY <2>3
  <2>5. PICK n \in 0 .. last : n = m - 1
    BY <2>2, <2>3
  <2>6. n + i = last /\ ~(m <= n)
    <3>1. m + k = last
      BY <2>2
    <3> HIDE DEF Broken
    <3> QED
      BY <2>3, <2>4, <2>5, <3>1
  <2>7. n \notin Broken
    <3> HIDE DEF Broken
    <3> QED
      BY <2>1, <2>6
  <2>8. node[i] # NULL => IsGood(i, found[i].used_size, found[i].value)
    BY <2>6, <2>7
  <2> QED
    BY <1>5, <2>2, <2>4, <2>8
<1>7. node[0] # NULL
  <2>1. PathRounds(h, text, last, node)
    BY PathIsRounds
  <2> QED
    BY <2>1 DEF PathRounds, Root, NULL
<1>8. IsGood(0, found[0].used_size, found[0].value)
  <2> HIDE DEF IsGood
  <2>1. last + 0 = last /\ 0 \in 0 .. last /\ last \in 0 .. last
    OBVIOUS
  <2> QED
    BY <1>6, <1>7, <2>1
<1> QED
  BY <1>8

(***************************************************************************)
(* find answers with the longest token the text begins with.               *)
(***************************************************************************)
LEMMA FindsLongest ==
  ASSUME NEW h, IsHeap(h), IsTree(h), NEW text \in Seq(Chars),
         NEW result, result = Find(h, text)
  PROVE  /\ result.used_size \in 0 .. Len(text)
         /\ result.used_size # 0
              => LET token == SubSeq(text, 1, result.used_size)
                 IN  Holds(h, token) /\ result.value = h[Walk(h, token)].value
         /\ \A k \in 1 .. Len(text) :
              Holds(h, SubSeq(text, 1, k)) => k <= result.used_size
         /\ result.used_size = 0 => result.value = h[Root].value
<1>1. PICK last \in Nat : last = Len(text)
  OBVIOUS
<1>2. PICK node : node = Path(h, text)
  OBVIOUS
<1>3. PICK found : FindEquation(h, node, last, found) /\ result = found[0]
  <2>1. Find(h, text) = (CHOOSE found : FindEquation(h, node, last, found))[0]
    BY <1>1, <1>2 DEF Find, FindEquation, Own, Better
  <2> QED
    BY <2>1, FindExists
<1>4. /\ result.used_size \in 0 .. last
      /\ result.used_size # 0
           => /\ HasValueAt(h, node, result.used_size)
              /\ result.value = h[node[result.used_size]].value
      /\ \A k \in 0 .. last : HasValueAt(h, node, k) => k <= result.used_size
      /\ result.used_size = 0 => result.value = h[node[0]].value
  BY <1>1, <1>2, <1>3, FindsLast
<1>5. node[0] = Root
  <2>1. PathRounds(h, text, last, node)
    BY <1>1, <1>2, PathIsRounds
  <2> QED
    BY <2>1 DEF PathRounds
<1>6. ASSUME NEW k \in 1 .. last
      PROVE  /\ Walk(h, SubSeq(text, 1, k)) = node[k]
             /\ Holds(h, SubSeq(text, 1, k)) <=> HasValueAt(h, node, k)
  <2>1. PICK token : token = SubSeq(text, 1, k)
    OBVIOUS
  <2>2. /\ token \in Seq(Chars) /\ Len(token) = k
        /\ \A i \in 1 .. k : token[i] = text[i]
    BY <1>1, <2>1
  <2>3. Walk(h, token) = node[k]
    BY <1>1, <1>2, <2>2, PathOfBeginning
  <2> QED
    BY <2>1, <2>3 DEF Holds, HasValueAt
<1> QED
  BY <1>1, <1>4, <1>5, <1>6

-----------------------------------------------------------------------------
(***************************************************************************)
(* What the destructor makes of a tree.                                    *)
(***************************************************************************)
Deleters(h, n) ==
  {owner \in (DOMAIN h) \X Chars :
     /\ Deletes(h[owner[1]], owner[2])
     /\ h[owner[1]].children[owner[2]] = n}

LEMMA DeletedOnce ==
  ASSUME NEW h, IsHeap(h), IsTree(h), NEW n \in DOMAIN h \ {Root}
  PROVE  Cardinality(Deleters(h, n)) = 1
<1>1. n # NULL
  BY DEF IsHeap
<1>2. PICK p \in DOMAIN h, c \in Chars : Child(h, p, c) = n
  BY DEF IsTree, AllOwned
<1>3. PICK d \in Chars : /\ Alike(c, d)
                         /\ d \in DOMAIN Pendant => d \in UpperCase
  <2>1. CASE c \in DOMAIN Pendant /\ c \notin UpperCase
    BY <2>1, TrieAssumption DEF Alike
  <2>2. CASE ~(c \in DOMAIN Pendant /\ c \notin UpperCase)
    BY <2>2 DEF Alike
  <2> QED
    BY <2>1, <2>2
<1>4. Child(h, p, d) = n
  BY <1>2, <1>3 DEF IsTree, PendantsAgree
<1>5. Deletes(h[p], d)
  <2>1. \A u \in UpperCase \cap DOMAIN Pendant : Pendant[u] # d
    BY <1>3, TrieAssumption
  <2> QED
    BY <1>1, <1>4, <2>1 DEF Deletes, Child
<1>6. ASSUME NEW m \in DOMAIN h, NEW e \in Chars,
             Deletes(h[m], e), Child(h, m, e) = n
      PROVE  m = p /\ e = d
  <2>1. m = p /\ Alike(d, e)
    <3>1. OneParent(h)
      BY DEF IsTree
    <3> QED
      BY <1>1, <1>4, <1>6, <3>1 DEF OneParent
  <2>2. e = d
    <3> SUFFICES ASSUME e # d PROVE FALSE
      OBVIOUS
    <3>1. d \in UpperCase \cap DOMAIN Pendant /\ Pendant[d] = e
      BY <1>3, <2>1 DEF Alike
    <3>2. h[m].children[d] = h[m].children[e]
      BY <1>4, <1>6, <2>1 DEF Child
    <3> QED
      BY <1>6, <3>1, <3>2 DEF Deletes
  <2> QED
    BY <2>1, <2>2
<1>7. Deleters(h, n) = {<<p, d>>}
  <2>1. <<p, d>> \in Deleters(h, n)
    BY <1>4, <1>5 DEF Deleters, Child
  <2>2. ASSUME NEW owner \in Deleters(h, n)
        PROVE  owner = <<p, d>>
    <3>1. PICK m \in DOMAIN h, e \in Chars : owner = <<m, e>>
      BY DEF Deleters
    <3>2. owner[1] = m /\ owner[2] = e
      BY <3>1
    <3>3. Deletes(h[m], e) /\ Child(h, m, e) = n
      BY <3>2 DEF Deleters, Child
    <3> QED
      BY <1>6, <3>1, <3>3
  <2> QED
    BY <2>1, <2>2
<1> QED
  BY <1>7, FS_Singleton

LEMMA NewTrieOK == TreeOK(NewTrie, Root)
<1>1. PICK h : h = NewTrie
  OBVIOUS
<1>2. /\ DOMAIN h = {Root} /\ h = [n \in DOMAIN h |-> h[n]] /\ h[Root] = NewNode
  BY <1>1 DEF NewTrie
<1>3. NewNode.children = [c \in Chars |-> NULL] /\ NewNode.used_children = 0
  BY DEF NewNode
<1>4. IsNode(NewNode)
  <2>1. Used(NewNode) = {}
    BY <1>3 DEF Used
  <2>2. NewNode = [has_value |-> NewNode.has_value, value |-> NewNode.value,
                   children |-> NewNode.children,
                   used_children |-> NewNode.used_children]
    BY DEF NewNode
  <2>3. NewNode.children = [c \in Chars |-> NewNode.children[c]]
    BY <1>3
  <2> QED
    BY <1>3, <2>1, <2>2, <2>3, FS_EmptySet DEF IsNode
<1>5. IsHeap(h)
  <2>1. IsFiniteSet(DOMAIN h)
    BY <1>2, FS_Singleton
  <2> QED
    BY <1>2, <1>4, <2>1 DEF IsHeap, NULL, Root
<1>6. \A n \in DOMAIN h, c \in Chars : Child(h, n, c) = NULL
  BY <1>2, <1>3 DEF Child
<1>7. IsTree(h)
  BY <1>2, <1>6 DEF IsTree, ChildrenExist, PendantsAgree, OneParent, AllOwned
<1> QED
  BY <1>1, <1>2, <1>5, <1>7 DEF TreeOK

-----------------------------------------------------------------------------
(***************************************************************************)
(* A tree that speaks for a function from words to values.                 *)
(***************************************************************************)
Small(c) == IF c \in UpperCase THEN Pendant[c] ELSE c

LEMMA LettersAreAlike ==
  ASSUME NEW c \in Chars, NEW d \in Chars
  PROVE  Alike(c, d) <=> Small(c) = Small(d)
<1>1. ASSUME NEW e \in Chars, e \in UpperCase
      PROVE  e \in DOMAIN Pendant
  BY <1>1, SpellingAssumption
<1>2. \A e \in DOMAIN Pendant :
        /\ Pendant[e] \in DOMAIN Pendant /\ Pendant[Pendant[e]] = e
        /\ Pendant[e] \in UpperCase <=> e \notin UpperCase
  BY TrieAssumption
<1>3. CASE c \in UpperCase /\ d \in UpperCase
  BY <1>1, <1>2, <1>3 DEF Alike, Small
<1>4. CASE c \in UpperCase /\ d \notin UpperCase
  BY <1>1, <1>2, <1>4 DEF Alike, Small
<1>5. CASE c \notin UpperCase /\ d \in UpperCase
  BY <1>1, <1>2, <1>5 DEF Alike, Small
<1>6. CASE c \notin UpperCase /\ d \notin UpperCase
  BY <1>2, <1>6 DEF Alike, Small
<1> QED
  BY <1>3, <1>4, <1>5, <1>6

LEMMA WordsAreSame ==
  ASSUME NEW s \in Seq(Chars), NEW t \in Seq(Chars)
  PROVE  SameWord(s, t) <=> Word(s) = Word(t)
<1>1. /\ Word(s) = [k \in 1 .. Len(s) |-> Small(s[k])]
      /\ Word(t) = [k \in 1 .. Len(t) |-> Small(t[k])]
  BY DEF Word, Small
<1>2. ASSUME Len(s) = Len(t), NEW k \in 1 .. Len(s)
      PROVE  Alike(s[k], t[k]) <=> Small(s[k]) = Small(t[k])
  <2>1. s[k] \in Chars /\ t[k] \in Chars
    BY <1>2
  <2> QED
    BY <2>1, LettersAreAlike
<1>3. ASSUME SameWord(s, t)
      PROVE  Word(s) = Word(t)
  BY <1>1, <1>2, <1>3 DEF SameWord
<1>4. ASSUME Word(s) = Word(t)
      PROVE  SameWord(s, t)
  <2>1. 1 .. Len(s) = 1 .. Len(t)
    BY <1>1, <1>4
  <2>2. Len(s) = Len(t)
    BY <2>1
  <2>3. ASSUME NEW k \in 1 .. Len(s)
        PROVE  Small(s[k]) = Small(t[k])
    BY <1>1, <1>4, <2>2
  <2> QED
    BY <1>2, <2>2, <2>3 DEF SameWord
<1> QED
  BY <1>3, <1>4

Speaks(h, f) ==
  \A s \in Seq(Chars) :
    /\ Holds(h, s) <=> Word(s) \in DOMAIN f
    /\ Holds(h, s) => h[Walk(h, s)].value = f[Word(s)]

(* The empty token is never inserted. *)
BareRoot(h) == ~h[Root].has_value /\ h[Root].value = 0

LEMMA RootIsWalked ==
  ASSUME NEW h
  PROVE  Walk(h, <<>>) = Root
<1>1. <<>> \in Seq(Chars) /\ Len(<<>>) = 0
  OBVIOUS
<1>2. PathRounds(h, <<>>, 0, Path(h, <<>>))
  BY <1>1, PathIsRounds
<1> QED
  BY <1>1, <1>2 DEF PathRounds, Walk

LEMMA NewTrieSpeaks ==
  ASSUME NEW f, DOMAIN f = {}
  PROVE  Speaks(NewTrie, f) /\ BareRoot(NewTrie)
<1>1. PICK h : h = NewTrie
  OBVIOUS
<1>2. /\ IsHeap(h) /\ IsTree(h)
      /\ \A n \in DOMAIN h : ~h[n].has_value
      /\ BareRoot(h)
  BY <1>1, NewTrieOK DEF TreeOK, NewTrie, NewNode, BareRoot
<1>3. ASSUME NEW s \in Seq(Chars)
      PROVE  ~Holds(h, s)
  <2>1. Walk(h, s) # NULL => Walk(h, s) \in DOMAIN h
    BY <1>2, WalkHasWay, WayIsWalked
  <2> QED
    BY <1>2, <2>1 DEF Holds
<1> QED
  BY <1>1, <1>2, <1>3 DEF Speaks

LEMMA InsertSpeaks ==
  ASSUME NEW h, TreeOK(h, Root), BareRoot(h), NEW f, Speaks(h, f),
         NEW token \in Seq(Chars), Len(token) # 0, NEW value,
         Word(token) \notin DOMAIN f,
         NEW r, r = Insert(h, token, value),
         NEW g, g = With(f, Word(token), value)
  PROVE  Speaks(r, g) /\ BareRoot(r)
<1>1. ~Holds(h, token)
  BY DEF Speaks
<1>2. ASSUME NEW s \in Seq(Chars)
      PROVE  /\ Holds(r, s) <=> Word(s) \in DOMAIN g
             /\ Holds(r, s) => r[Walk(r, s)].value = g[Word(s)]
  <2>1. /\ Word(s) \in DOMAIN g <=> Word(s) \in DOMAIN f \/ Word(s) = Word(token)
        /\ Word(s) = Word(token) => g[Word(s)] = value
        /\ Word(s) # Word(token) /\ Word(s) \in DOMAIN f => g[Word(s)] = f[Word(s)]
    BY DEF With
  <2>2. SameWord(token, s) <=> Word(token) = Word(s)
    BY WordsAreSame
  <2>3. CASE SameWord(token, s)
    <3>1. Holds(r, s) /\ r[Walk(r, s)].value = value
      BY <1>1, <2>3, InsertAdds
    <3> QED
      BY <2>1, <2>2, <2>3, <3>1
  <2>4. CASE ~SameWord(token, s)
    <3>1. SameToken(h, r, s)
      BY <1>1, <2>4, InsertAdds
    <3>2. /\ Holds(h, s) <=> Word(s) \in DOMAIN f
          /\ Holds(h, s) => h[Walk(h, s)].value = f[Word(s)]
      BY DEF Speaks
    <3> QED
      BY <2>1, <2>2, <2>4, <3>1, <3>2 DEF SameToken
  <2> QED
    BY <2>3, <2>4
<1>3. BareRoot(r)
  <2>1. PICK t : t = Grown(h, token)
    OBVIOUS
  <2>2. /\ TreeOK(t.nodes, t.at) /\ Grows(h, t.nodes)
        /\ Walk(t.nodes, token) = t.at
    BY <2>1, TreeGrown
  <2>3. IsHeap(t.nodes) /\ IsTree(t.nodes) /\ Root \in DOMAIN t.nodes
        /\ Root \in DOMAIN h
    BY <2>2 DEF TreeOK, IsHeap
  <2>4. t.at # Root
    <3> SUFFICES ASSUME t.at = Root PROVE FALSE
      OBVIOUS
    <3>1. PICK empty \in Seq(Chars) : empty = <<>> /\ Len(empty) = 0
      <4>1. <<>> \in Seq(Chars) /\ Len(<<>>) = 0
        OBVIOUS
      <4> QED
        BY <4>1
    <3>2. Walk(t.nodes, empty) = Root /\ Walk(t.nodes, token) = Root
      BY <2>2, <3>1, RootIsWalked
    <3>3. SameWord(empty, token)
      BY <2>3, <3>2, OneWordLeads DEF Root, NULL
    <3> QED
      BY <3>1, <3>3 DEF SameWord
  <2>5. r = WithValue(t, value)
    BY <1>1, <2>1 DEF Insert
  <2>6. Revalued(t.nodes, r, t.at)
    BY <2>2, <2>5, EntrySet
  <2>7. SameEntry(h, t.nodes, Root) /\ SameEntry(t.nodes, r, Root)
    BY <2>2, <2>3, <2>4, <2>6 DEF Grows, Revalued
  <2> QED
    BY <2>7 DEF SameEntry, BareRoot
<1> QED
  BY <1>2, <1>3 DEF Speaks

LEMMA EraseSpeaks ==
  ASSUME NEW h, TreeOK(h, Root), BareRoot(h), NEW f, Speaks(h, f),
         NEW token \in Seq(Chars), Word(token) \in DOMAIN f,
         NEW r, r = Erase(h, token),
         NEW g, g = Without(f, {Word(token)})
  PROVE  Speaks(r, g) /\ BareRoot(r)
<1>1. Holds(h, token)
  BY DEF Speaks
<1>2. ASSUME NEW s \in Seq(Chars)
      PROVE  /\ Holds(r, s) <=> Word(s) \in DOMAIN g
             /\ Holds(r, s) => r[Walk(r, s)].value = g[Word(s)]
  <2>1. /\ Word(s) \in DOMAIN g <=> Word(s) \in DOMAIN f /\ Word(s) # Word(token)
        /\ Word(s) \in DOMAIN g => g[Word(s)] = f[Word(s)]
    BY DEF Without
  <2>2. SameWord(token, s) <=> Word(token) = Word(s)
    BY WordsAreSame
  <2>3. CASE SameWord(token, s)
    <3>1. ~Holds(r, s)
      BY <1>1, <2>3, EraseTakes
    <3> QED
      BY <2>1, <2>2, <2>3, <3>1
  <2>4. CASE ~SameWord(token, s)
    <3>1. SameToken(h, r, s)
      BY <1>1, <2>4, EraseTakes
    <3>2. /\ Holds(h, s) <=> Word(s) \in DOMAIN f
          /\ Holds(h, s) => h[Walk(h, s)].value = f[Word(s)]
      BY DEF Speaks
    <3> QED
      BY <2>1, <2>2, <2>4, <3>1, <3>2 DEF SameToken
  <2> QED
    BY <2>3, <2>4
<1>3. BareRoot(r)
  <2>1. PICK n : n = Walk(h, token)
    OBVIOUS
  <2>2. n \in DOMAIN h /\ Root \in DOMAIN h
    <3>1. IsHeap(h) /\ IsTree(h) /\ Walk(h, token) # NULL
      BY <1>1 DEF TreeOK, Holds
    <3> QED
      BY <2>1, <3>1, WalkHasWay, WayIsWalked DEF IsHeap
  <2>3. PICK less : less = WithoutValue(h, n)
    OBVIOUS
  <2>4. Revalued(h, less, n) /\ ~less[n].has_value /\ less[n].value = h[n].value
    BY <2>2, <2>3, ValueTaken
  <2>5. BareRoot(less)
    <3>1. CASE n = Root
      BY <2>4, <3>1 DEF BareRoot
    <3>2. CASE n # Root
      BY <2>2, <2>4, <3>2 DEF BareRoot, Revalued, SameEntry
    <3> QED
      BY <3>1, <3>2
  <2>6. SameHolding(less, r)
    BY <1>1, <2>1, <2>3, TreeShrunk
  <2> QED
    BY <2>5, <2>6 DEF SameHolding, SameEntry, BareRoot
<1> QED
  BY <1>2, <1>3 DEF Speaks

-----------------------------------------------------------------------------
(***************************************************************************)
(* The table and its prefix tree.  Unregistering erases a name that was    *)
(* registered once, and so is a sequence of characters of the tree.        *)
(***************************************************************************)
NamesAreKnown ==
  \A v \in DOMAIN table.registered : table.registered[v] \in Names \cup {Star}

Mirrors(h, f) == TreeOK(h, Root) /\ BareRoot(h) /\ Speaks(h, f)

TrieInv == IInv /\ NamesAreKnown /\ Mirrors(nodes, table.trie)

(* Nothing of a tree but its nodes depends on the state. *)
LEMMA TreeIsPrimed == TreeOK(nodes', Root) => TreeOK(nodes, Root)'
  BY DEF TreeOK, IsHeap, IsTree, ChildrenExist, PendantsAgree, OneParent,
     AllOwned, IsDead, IsNode, Used, Child

LEMMA MirrorsIsPrimed ==
  Mirrors(nodes', table'.trie) => Mirrors(nodes, table.trie)'
<1>1. Speaks(nodes', table'.trie) => Speaks(nodes, table.trie)'
  BY DEF Speaks, Holds, Walk, Path
<1>2. BareRoot(nodes') => BareRoot(nodes)'
  BY DEF BareRoot
<1> QED
  BY <1>1, <1>2, TreeIsPrimed DEF Mirrors

LEMMA NamesAreSpelled ==
  ASSUME NEW name \in Names \cup {Star}
  PROVE  /\ Spelling(name) \in Seq(Chars)
         /\ Word(Spelling(name)) = Fold(name)
         /\ name # Empty => Len(Spelling(name)) # 0
<1>1. PICK token \in Seq(Chars) :
        token = Spelling(name) /\ name = <<Word(token), token>>
  BY SpellingAssumption
<1>2. Fold(name) = Word(token)
  BY <1>1 DEF Fold
<1>3. ASSUME Len(token) = 0
      PROVE  name = Empty
  <2>1. token = <<>>
    BY <1>3
  <2>2. Word(token) = <<>>
    BY <2>1 DEF Word
  <2> QED
    BY <1>1, <2>1, <2>2 DEF Empty
<1> QED
  BY <1>1, <1>2, <1>3

LEMMA InsertMirrors ==
  ASSUME NEW h, NEW f, Mirrors(h, f), NEW name \in Names \cup {Star},
         name # Empty, Fold(name) \notin DOMAIN f, NEW value
  PROVE  Mirrors(Insert(h, Spelling(name), value), With(f, Fold(name), value))
<1>1. PICK token \in Seq(Chars) : /\ token = Spelling(name)
                                  /\ Word(token) = Fold(name)
                                  /\ Len(token) # 0
  BY NamesAreSpelled
<1> QED
  BY <1>1, InsertKeeps, InsertSpeaks DEF Mirrors

LEMMA InitTrieInv == InitTrie => TrieInv
<1> SUFFICES ASSUME InitTrie
             PROVE  TrieInv
  OBVIOUS
<1>1. IInv
  BY InitIInv DEF InitTrie
<1>2. NamesAreKnown
  BY TableAssumption DEF InitTrie, Init, NamesAreKnown, NewTable, RegisterType,
     CanRegister, IsRegistered, With, Fold, Star, Empty, WILDCARD
<1>3. PICK none : none = <<>> /\ DOMAIN none = {}
  OBVIOUS
<1>4. Mirrors(NewTrie, none)
  BY <1>3, NewTrieOK, NewTrieSpeaks DEF Mirrors
<1>5. Star # Empty
  BY DEF Star, Empty
<1>6. table.trie = With(none, Fold(Star), WILDCARD)
  BY <1>3, <1>5 DEF InitTrie, Init, NewTable, RegisterType, CanRegister, WILDCARD
<1>7. Mirrors(nodes, table.trie)
  BY <1>3, <1>4, <1>5, <1>6, InsertMirrors DEF InitTrie
<1> QED
  BY <1>1, <1>2, <1>7 DEF TrieInv

LEMMA RegisterTrieInv ==
  ASSUME TrieInv, NEW name \in Names, RegisterInTrie(name)
  PROVE  TrieInv'
<1>1. IInv'
  BY RegisterIInv DEF TrieInv, RegisterInTrie
<1>2. NamesAreKnown'
  BY DEF TrieInv, RegisterInTrie, Register, RegisterType, NamesAreKnown, With,
         IInv, TypeOK
<1>3. Mirrors(nodes', table'.trie)
  <2>1. CASE CanRegister(table, name)
    <3>1. nodes' = Insert(nodes, Spelling(name), table.next)
      BY <2>1 DEF RegisterInTrie, CanRegister
    <3>2. table'.trie = With(table.trie, Fold(name), table.next)
      BY <2>1 DEF RegisterInTrie, Register, RegisterType
    <3> QED
      BY <2>1, <3>1, <3>2, InsertMirrors DEF TrieInv, CanRegister
  <2>2. CASE ~CanRegister(table, name)
    <3>1. table' = table
      BY <2>2 DEF RegisterInTrie, Register, RegisterType
    <3>2. Fold(name) \in DOMAIN table.trie => Holds(nodes, Spelling(name))
      BY NamesAreSpelled DEF TrieInv, Mirrors, Speaks
    <3>3. nodes' = nodes
      BY <2>2, <3>2 DEF RegisterInTrie, CanRegister, Insert
    <3> QED
      BY <3>1, <3>3 DEF TrieInv
  <2> QED
    BY <2>1, <2>2
<1> QED
  BY <1>1, <1>2, <1>3, MirrorsIsPrimed DEF TrieInv

LEMMA UnregisterTrieInv ==
  ASSUME TrieInv, NEW value \in Values, UnregisterInTrie(value)
  PROVE  TrieInv'
<1>1. IInv'
  BY UnregisterIInv DEF TrieInv, UnregisterInTrie
<1>2. NamesAreKnown'
  BY DEF TrieInv, UnregisterInTrie, Unregister, UnregisterType, NamesAreKnown,
         Without, IInv, TypeOK
<1>3. Mirrors(nodes', table'.trie)
  <2>1. value \in DOMAIN table.registered
    BY DEF UnregisterInTrie, Unregister, IsRegistered
  <2>2. PICK name \in Names \cup {Star} : name = table.registered[value]
    BY <2>1 DEF TrieInv, NamesAreKnown
  <2>3. PICK token \in Seq(Chars) :
          token = Spelling(name) /\ Word(token) = Fold(name)
    BY NamesAreSpelled
  <2>4. Word(token) \in DOMAIN table.trie
    BY <2>1, <2>2, <2>3 DEF TrieInv, IInv, TablesAgree
  <2>5. table'.trie = Without(table.trie, {Word(token)})
    BY <2>1, <2>2, <2>3 DEF UnregisterInTrie, Unregister, UnregisterType,
       IsRegistered, TrieInv, IInv, TypeOK
  <2>6. nodes' = Erase(nodes, token)
    BY <2>2, <2>3 DEF UnregisterInTrie
  <2> QED
    BY <2>4, <2>5, <2>6, EraseKeeps, EraseSpeaks DEF TrieInv, Mirrors
<1> QED
  BY <1>1, <1>2, <1>3, MirrorsIsPrimed DEF TrieInv

LEMMA InductiveTrie == TrieInv /\ [NextTrie]_trieVars => TrieInv'
<1> SUFFICES ASSUME TrieInv, [NextTrie]_trieVars
             PROVE  TrieInv'
  OBVIOUS
<1>1. ASSUME NEW name \in Names, RegisterInTrie(name)
      PROVE  TrieInv'
  BY <1>1, RegisterTrieInv
<1>2. ASSUME NEW value \in WILDCARD .. Limit - 1, UnregisterInTrie(value)
      PROVE  TrieInv'
  BY <1>2, UnregisterTrieInv DEF Values
<1>3. CASE UNCHANGED trieVars
  <2>1. IInv'
    BY <1>3, Inductive DEF trieVars, TrieInv
  <2>2. NamesAreKnown'
    BY <1>3 DEF trieVars, vars, TrieInv, NamesAreKnown
  <2>3. Mirrors(nodes', table'.trie)
    BY <1>3 DEF trieVars, vars, TrieInv
  <2> QED
    BY <2>1, <2>2, <2>3, MirrorsIsPrimed DEF TrieInv
<1> QED
  BY <1>1, <1>2, <1>3 DEF NextTrie

LEMMA TrieInvariant == SpecTrie => []TrieInv
<1>1. TrieInv /\ [NextTrie]_trieVars => TrieInv'
  BY InductiveTrie
<1> QED
  BY InitTrieInv, <1>1, PTL DEF SpecTrie

LEMMA TreeIsOwnedOnce ==
  ASSUME NEW h, TreeOK(h, Root), NEW n \in DOMAIN h
  PROVE  /\ \A c \in Chars : h[n].children[c] \in {NULL} \cup DOMAIN h
         /\ h[n].used_children = Cardinality(Used(h[n]))
         /\ n # Root => ~IsUseless(h[n]) /\ Cardinality(Deleters(h, n)) = 1
<1>1. IsHeap(h) /\ IsTree(h)
  BY DEF TreeOK
<1>2. \A c \in Chars : h[n].children[c] \in {NULL} \cup DOMAIN h
  BY <1>1 DEF IsTree, ChildrenExist, Child
<1>3. h[n].used_children = Cardinality(Used(h[n]))
  BY <1>1 DEF IsHeap, IsNode
<1>4. n # Root => ~IsUseless(h[n]) /\ Cardinality(Deleters(h, n)) = 1
  BY <1>1, DeadIsUseless, DeletedOnce DEF TreeOK
<1> QED
  BY <1>2, <1>3, <1>4

(***************************************************************************)
(* Whatever order insert and erase of trie are called in: every pointer    *)
(* leads to a node that exists, used_children_ counts the pointers, the    *)
(* destructor of the tree deletes every node once, though two spellings of *)
(* a letter lead to it, and erase leaves no node that leads to no value.   *)
(***************************************************************************)
THEOREM NodesStayOwnedOnce == SpecTrie => []NodesAreOwnedOnce
<1>1. TrieInv => NodesAreOwnedOnce
  <2>1. ASSUME TreeOK(nodes, Root), NEW n \in DOMAIN nodes
        PROVE  /\ \A c \in Chars : nodes[n].children[c] \in {NULL} \cup DOMAIN nodes
               /\ nodes[n].used_children = Cardinality(Used(nodes[n]))
               /\ n # Root => /\ ~IsUseless(nodes[n])
                              /\ Cardinality(Deleters(nodes, n)) = 1
    BY <2>1, TreeIsOwnedOnce
  <2> QED
    BY <2>1 DEF TrieInv, Mirrors, NodesAreOwnedOnce, Used, Deleters
<1> QED
  BY TrieInvariant, <1>1, PTL

(* What find answers in a tree that speaks for a function. *)
Answers(result, f, text) ==
  LET prefixes == {k \in 1 .. Len(text) :
                     Word(SubSeq(text, 1, k)) \in DOMAIN f}
  IN  /\ IF prefixes = {} THEN result.used_size = 0
         ELSE /\ result.used_size \in prefixes
              /\ \A k \in prefixes : k <= result.used_size
              /\ result.value = f[Word(SubSeq(text, 1, result.used_size))]
      /\ (IF Word(text) \in DOMAIN f THEN f[Word(text)] ELSE INVALID)
           = IF result.used_size = Len(text) THEN result.value ELSE INVALID

LEMMA MirrorAnswers ==
  ASSUME NEW h, NEW f, Mirrors(h, f), NEW text \in Seq(Chars),
         NEW result, result = Find(h, text)
  PROVE  Answers(result, f, text)
<1> DEFINE last     == Len(text)
           prefixes == {k \in 1 .. last : Word(SubSeq(text, 1, k)) \in DOMAIN f}
<1>1. IsHeap(h) /\ IsTree(h) /\ BareRoot(h) /\ Speaks(h, f)
  BY DEF Mirrors, TreeOK
<1>2. PICK size : size = result.used_size
  OBVIOUS
<1>3. /\ size \in 0 .. last
      /\ size # 0
           => /\ Holds(h, SubSeq(text, 1, size))
              /\ result.value = h[Walk(h, SubSeq(text, 1, size))].value
      /\ \A k \in 1 .. last : Holds(h, SubSeq(text, 1, k)) => k <= size
      /\ size = 0 => result.value = h[Root].value
  BY <1>1, <1>2, FindsLongest
<1>4. ASSUME NEW k \in 1 .. last
      PROVE  /\ k \in prefixes <=> Holds(h, SubSeq(text, 1, k))
             /\ Holds(h, SubSeq(text, 1, k))
                  => h[Walk(h, SubSeq(text, 1, k))].value
                       = f[Word(SubSeq(text, 1, k))]
  <2>1. PICK s : s = SubSeq(text, 1, k)
    OBVIOUS
  <2>2. s \in Seq(Chars)
    BY <2>1
  <2>3. k \in prefixes <=> Word(s) \in DOMAIN f
    BY <2>1
  <2> QED
    BY <1>1, <2>1, <2>2, <2>3 DEF Speaks
<1>5. size # 0 => /\ size \in prefixes
                  /\ result.value = f[Word(SubSeq(text, 1, size))]
  <2>1. size # 0 => size \in 1 .. last
    BY <1>3
  <2> QED
    BY <1>3, <1>4, <2>1
<1>6. ASSUME NEW k \in prefixes
      PROVE  k <= size /\ size # 0
  <2>1. k \in 1 .. last
    OBVIOUS
  <2>2. k <= size
    BY <1>3, <1>4, <2>1
  <2> QED
    BY <1>3, <2>1, <2>2
<1>7. (IF Word(text) \in DOMAIN f THEN f[Word(text)] ELSE INVALID)
        = IF size = last THEN result.value ELSE INVALID
  <2>1. CASE last = 0
    <3>1. Walk(h, text) = Root
      <4>1. text = <<>>
        BY <2>1, EmptySeq
      <4> QED
        BY <4>1, RootIsWalked
    <3>2. Word(text) \notin DOMAIN f
      BY <1>1, <3>1 DEF BareRoot, Speaks, Holds
    <3>3. size = 0 /\ result.value = INVALID
      BY <1>1, <1>3, <2>1 DEF BareRoot, INVALID
    <3> QED
      BY <2>1, <3>2, <3>3
  <2>2. CASE last # 0
    <3>1. SubSeq(text, 1, last) = text /\ last \in 1 .. last
      BY <2>2
    <3>2. last \in prefixes <=> Word(text) \in DOMAIN f
      BY <3>1
    <3>3. CASE size = last
      BY <1>5, <2>2, <3>1, <3>2, <3>3
    <3>4. CASE size # last
      <4>1. last \notin prefixes
        BY <1>3, <1>6, <3>4
      <4> QED
        BY <3>2, <3>4, <4>1
    <3> QED
      BY <3>3, <3>4
  <2> QED
    BY <2>1, <2>2
<1>8. CASE prefixes = {}
  <2>1. result.used_size = 0
    BY <1>2, <1>5, <1>8
  <2> QED
    BY <1>2, <1>7, <1>8, <2>1 DEF Answers
<1>9. CASE prefixes # {}
  <2>1. /\ result.used_size \in prefixes
        /\ \A k \in prefixes : k <= result.used_size
        /\ result.value = f[Word(SubSeq(text, 1, result.used_size))]
    BY <1>2, <1>5, <1>6, <1>9
  <2> QED
    BY <1>2, <1>7, <1>9, <2>1 DEF Answers
<1> QED
  BY <1>8, <1>9

(***************************************************************************)
(* find of trie answers with the longest registered name a text begins     *)
(* with, in any spelling, and with the value of that name, after any       *)
(* sequence of register_type and unregister_type; parse_type reads the     *)
(* value of a whole text from it.                                          *)
(***************************************************************************)
THEOREM FindsTheLongestName == SpecTrie => []TrieHoldsNames
<1>1. TrieInv => TrieHoldsNames
  <2>1. ASSUME Mirrors(nodes, table.trie), NEW text \in Texts
        PROVE  Answers(Find(nodes, text), table.trie, text)
    BY <2>1, SpellingAssumption, MirrorAnswers
  <2> QED
    BY <2>1 DEF TrieInv, TrieHoldsNames, Answers, ParseType, Fold
<1> QED
  BY TrieInvariant, <1>1, PTL
=============================================================================
