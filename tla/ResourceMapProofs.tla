-------------------------- MODULE ResourceMapProofs --------------------------
(***************************************************************************)
(* What std::map needs of resource_key's operator<, and what it does when  *)
(* it gets it.                                                             *)
(*                                                                         *)
(* operator< joins its three tests by "or".  If no two keys in use are     *)
(* each less than the other, then path, method and content type ascend     *)
(* together along the keys, and operator< is a strict total order.  The    *)
(* converse is immediate: a strict order is asymmetric.  So the condition  *)
(* that Demultiplexer assumes of its ids, and that MCCrossedKeys violates, *)
(* is exactly the one under which the map may be used; and under it every  *)
(* lookup leads to the resource it is for.                                 *)
(***************************************************************************)
EXTENDS ResourceMap, SequenceTheorems, TLAPS

KeySet == [path : Nat, method : Nat, content_type : Nat \X Nat]

StrictTotalOrder(K) ==
  /\ \A a \in K : ~KeyLess(a, a)
  /\ \A a, b, c \in K : KeyLess(a, b) /\ KeyLess(b, c) => KeyLess(a, c)
  /\ \A a, b \in K : a = b \/ KeyLess(a, b) \/ KeyLess(b, a)

(* MimeLess orders the pairs lexicographically and totally. *)
LEMMA MimeOrder ==
  ASSUME NEW a \in Nat \X Nat, NEW b \in Nat \X Nat, NEW c \in Nat \X Nat
  PROVE  /\ ~MimeLess(a, a)
         /\ a = b \/ MimeLess(a, b) \/ MimeLess(b, a)
         /\ ~MimeLess(b, a) /\ ~MimeLess(c, b) => ~MimeLess(c, a)
BY DEF MimeLess

(* A key is less than another unless each of its parts is at least as big. *)
LEMMA NotLess ==
  ASSUME NEW a \in KeySet, NEW b \in KeySet
  PROVE  ~KeyLess(b, a) <=> /\ a.path <= b.path
                            /\ a.method <= b.method
                            /\ ~MimeLess(b.content_type, a.content_type)
BY DEF KeyLess, KeySet

(* Two keys none of which is less than the other are the same key: in this *)
(* respect the "or" does no harm, connect never merges two resources.      *)
LEMMA Totality ==
  ASSUME NEW a \in KeySet, NEW b \in KeySet, ~KeyLess(a, b), ~KeyLess(b, a)
  PROVE  a = b
<1>1. a.path = b.path /\ a.method = b.method
  BY NotLess DEF KeySet
<1>2. a.content_type = b.content_type
  <2>1. a.content_type \in Nat \X Nat /\ b.content_type \in Nat \X Nat
    BY DEF KeySet
  <2> QED
    BY <2>1, NotLess, MimeOrder
<1> QED
  BY <1>1, <1>2 DEF KeySet

(***************************************************************************)
(* operator< is a strict total order on a set of keys if, and only if, no  *)
(* two keys of the set are each less than the other.                       *)
(***************************************************************************)
THEOREM OrderIffConsistent ==
  ASSUME NEW K \in SUBSET KeySet
  PROVE  ConsistentlyOrdered(K) <=> StrictTotalOrder(K)
<1>1. ASSUME StrictTotalOrder(K)
      PROVE  ConsistentlyOrdered(K)
  BY <1>1 DEF StrictTotalOrder, ConsistentlyOrdered
<1>2. ASSUME ConsistentlyOrdered(K)
      PROVE  StrictTotalOrder(K)
  <2>1. ASSUME NEW a \in K
        PROVE  ~KeyLess(a, a)
    BY <1>2 DEF ConsistentlyOrdered
  <2>2. ASSUME NEW a \in K, NEW b \in K, NEW c \in K,
               KeyLess(a, b), KeyLess(b, c)
        PROVE  KeyLess(a, c)
    <3>1. ~KeyLess(b, a) /\ ~KeyLess(c, b)
      BY <1>2, <2>2 DEF ConsistentlyOrdered
    <3>2. ~KeyLess(c, a)
      <4>1. ~MimeLess(c.content_type, a.content_type)
        <5>1. /\ a.content_type \in Nat \X Nat
              /\ b.content_type \in Nat \X Nat
              /\ c.content_type \in Nat \X Nat
          BY DEF KeySet
        <5> QED
          BY <3>1, <5>1, NotLess, MimeOrder
      <4>2. a.path <= c.path /\ a.method <= c.method
        BY <3>1, NotLess DEF KeySet
      <4> QED
        BY <4>1, <4>2, NotLess
    <3>3. a # c
      BY <3>1, <2>2
    <3> QED
      BY <3>2, <3>3, Totality
  <2>3. ASSUME NEW a \in K, NEW b \in K
        PROVE  a = b \/ KeyLess(a, b) \/ KeyLess(b, a)
    BY Totality
  <2> QED
    BY <2>1, <2>2, <2>3 DEF StrictTotalOrder
<1> QED
  BY <1>1, <1>2

-----------------------------------------------------------------------------
(* The tree, when the keys are ordered.                                    *)

(* The positions that are nodes. *)
Nodes(t) == 1 .. Size(t)

IsTree(t) ==
  /\ t \in [keys : Seq(Keys), root : Nat]
  /\ Size(t) <= MaxNodes
  /\ Size(t) = 0 => t.root = 0
  /\ Size(t) > 0 => t.root \in Nodes(t)
  /\ Size(t) = 3 => t.root = 2

Ascending(t) ==
  \A i, j \in Nodes(t) : i < j => KeyLess(t.keys[i], t.keys[j])

KeysOf(t) == {t.keys[i] : i \in Nodes(t)}

IInv == IsTree(tree) /\ Ascending(tree) /\ connected = KeysOf(tree)

(* The position at which a key is or belongs. *)
IsPlace(t, key, p) ==
  /\ p \in 1 .. Size(t) + 1
  /\ \A i \in Nodes(t) : KeyLess(t.keys[i], key) <=> i < p

(* The size and the root of a tree of at most three nodes. *)
LEMMA Shapes ==
  ASSUME NEW t, IsTree(t)
  PROVE  \/ Size(t) = 0 /\ t.root = 0
         \/ Size(t) = 1 /\ t.root = 1
         \/ Size(t) = 2 /\ t.root = 1
         \/ Size(t) = 2 /\ t.root = 2
         \/ Size(t) = 3 /\ t.root = 2
<1>1. Size(t) \in Nat /\ Size(t) <= 3
  BY LenProperties DEF IsTree, Size, MaxNodes
<1> QED
  BY <1>1 DEF IsTree, Nodes

(* A node's key is less than a key, the key itself, or greater. *)
LEMMA Compared ==
  ASSUME StrictTotalOrder(Keys), NEW t, IsTree(t), Ascending(t),
         NEW key \in Keys, NEW i \in Nodes(t)
  PROVE  /\ t.keys[i] \in Keys
         /\ t.keys[i] = key => ~KeyLess(t.keys[i], key) /\ ~KeyLess(key, t.keys[i])
         /\ ~KeyLess(t.keys[i], key) /\ ~KeyLess(key, t.keys[i]) => t.keys[i] = key
         /\ ~(KeyLess(t.keys[i], key) /\ KeyLess(key, t.keys[i]))
         /\ \A j \in Nodes(t) :
              /\ j < i /\ ~KeyLess(key, t.keys[i]) => KeyLess(t.keys[j], key)
              /\ i < j /\ ~KeyLess(t.keys[i], key) => KeyLess(key, t.keys[j])
<1>1. \A j \in Nodes(t) : t.keys[j] \in Keys
  BY ElementOfSeq DEF IsTree, Nodes, Size
<1>2. \A a, b \in Keys : ~(KeyLess(a, b) /\ KeyLess(b, a))
  BY DEF StrictTotalOrder
<1>3. \A j \in Nodes(t) :
        /\ j < i => KeyLess(t.keys[j], t.keys[i])
        /\ i < j => KeyLess(t.keys[i], t.keys[j])
  BY DEF Ascending
<1>4. \A j \in Nodes(t) :
        /\ j < i /\ ~KeyLess(key, t.keys[i]) => KeyLess(t.keys[j], key)
        /\ i < j /\ ~KeyLess(t.keys[i], key) => KeyLess(key, t.keys[j])
  BY <1>1, <1>3 DEF StrictTotalOrder
<1> QED
  BY <1>1, <1>2, <1>4 DEF StrictTotalOrder

(* lower_bound finds the place of a key. *)
LEMMA LowerBoundIsPlace ==
  ASSUME StrictTotalOrder(Keys), NEW t, IsTree(t), Ascending(t),
         NEW key \in Keys
  PROVE  IsPlace(t, key, LowerBound(t, key))
<1> DEFINE L(i) == KeyLess(t.keys[i], key)
<1>1. \A i, j \in Nodes(t) : i < j /\ L(j) => L(i)
  BY Compared
<1> USE DEF IsPlace, LowerBound, LowerBoundOfLeaf, LeftChild, RightChild, End
<1>2. CASE Size(t) = 0
  BY <1>2 DEF Nodes
<1>3. CASE Size(t) = 1 /\ t.root = 1
  <2>1. Nodes(t) = {1}
    BY <1>3 DEF Nodes
  <2> QED
    BY <1>3, <2>1
<1>4. CASE Size(t) = 2 /\ t.root = 1
  <2>1. Nodes(t) = {1, 2} /\ (L(2) => L(1))
    BY <1>1, <1>4 DEF Nodes
  <2> QED
    BY <1>4, <2>1
<1>5. CASE Size(t) = 2 /\ t.root = 2
  <2>1. Nodes(t) = {1, 2} /\ (L(2) => L(1))
    BY <1>1, <1>5 DEF Nodes
  <2> QED
    BY <1>5, <2>1
<1>6. CASE Size(t) = 3 /\ t.root = 2
  <2>1. Nodes(t) = {1, 2, 3} /\ (L(2) => L(1)) /\ (L(3) => L(2))
    BY <1>1, <1>6 DEF Nodes
  <2> QED
    BY <1>6, <2>1
<1> QED
  BY <1>2, <1>3, <1>4, <1>5, <1>6, Shapes

(* find finds the node of a key, if there is one. *)
LEMMA FindFinds ==
  ASSUME StrictTotalOrder(Keys), NEW t, IsTree(t), Ascending(t),
         NEW key \in Keys
  PROVE  /\ IsFound(t, key) <=> key \in KeysOf(t)
         /\ IsFound(t, key) => /\ Find(t, key) \in Nodes(t)
                               /\ t.keys[Find(t, key)] = key
<1>1. PICK p : p = LowerBound(t, key)
  OBVIOUS
<1>2. IsPlace(t, key, p)
  BY <1>1, LowerBoundIsPlace
<1>3. Size(t) \in Nat
  BY Shapes
<1>4. CASE p = End(t)
  <2>1. ~IsFound(t, key)
    BY <1>1, <1>4 DEF IsFound, Find
  <2>2. \A i \in Nodes(t) : KeyLess(t.keys[i], key)
    BY <1>2, <1>3, <1>4 DEF IsPlace, End, Nodes
  <2>3. key \notin KeysOf(t)
    BY <2>2, Compared DEF KeysOf
  <2> QED
    BY <2>1, <2>3
<1>5. CASE p # End(t)
  <2>1. p \in Nodes(t) /\ ~KeyLess(t.keys[p], key)
    BY <1>2, <1>3, <1>5 DEF IsPlace, End, Nodes
  <2>2. CASE KeyLess(key, t.keys[p])
    <3>1. ~IsFound(t, key)
      BY <1>1, <2>2 DEF IsFound, Find
    <3>2. ASSUME NEW i \in Nodes(t), t.keys[i] = key
          PROVE  FALSE
      <4>1. ~KeyLess(t.keys[i], key) /\ ~KeyLess(key, t.keys[i])
        BY <3>2, Compared
      <4>2. i \in Nat /\ p \in Nat /\ ~(i < p) /\ i # p
        BY <1>2, <1>3, <2>1, <2>2, <3>2, <4>1 DEF IsPlace, Nodes
      <4>3. p < i
        BY <4>2
      <4> QED
        BY <2>1, <4>1, <4>3, Compared
    <3> QED
      BY <3>1, <3>2 DEF KeysOf
  <2>3. CASE ~KeyLess(key, t.keys[p])
    <3>1. Find(t, key) = p /\ IsFound(t, key)
      BY <1>1, <1>5, <2>3 DEF IsFound, Find
    <3>2. t.keys[p] = key
      BY <2>1, <2>3, Compared
    <3> QED
      BY <2>1, <3>1, <3>2 DEF KeysOf
  <2> QED
    BY <2>2, <2>3
<1> QED
  BY <1>4, <1>5

(* erase's range is the one node of the key. *)
LEMMA RangeIsOneNode ==
  ASSUME StrictTotalOrder(Keys), NEW t, IsTree(t), Ascending(t),
         NEW key \in Keys, NEW p \in Nodes(t), t.keys[p] = key
  PROVE  EqualRange(t, key) = <<p, p + 1>>
<1> DEFINE L(i) == KeyLess(t.keys[i], key)
           G(i) == KeyLess(key, t.keys[i])
<1>1. /\ ~L(p) /\ ~G(p)
      /\ \A i \in Nodes(t) : i < p => L(i) /\ ~G(i)
      /\ \A i \in Nodes(t) : p < i => G(i) /\ ~L(i)
  BY Compared
<1> USE DEF EqualRange, LowerBoundOfLeaf, UpperBoundOfLeaf, LeftChild,
            RightChild, End
<1>2. CASE Size(t) = 0
  BY <1>2 DEF Nodes
<1>3. CASE Size(t) = 1 /\ t.root = 1
  <2>1. p = 1
    BY <1>3 DEF Nodes
  <2> QED
    BY <1>1, <1>3, <2>1
<1>4. CASE Size(t) = 2 /\ t.root = 1
  <2>1. Nodes(t) = {1, 2}
    BY <1>4 DEF Nodes
  <2>2. CASE p = 1
    BY <1>1, <1>4, <2>1, <2>2
  <2>3. CASE p = 2
    BY <1>1, <1>4, <2>1, <2>3
  <2> QED
    BY <2>1, <2>2, <2>3
<1>5. CASE Size(t) = 2 /\ t.root = 2
  <2>1. Nodes(t) = {1, 2}
    BY <1>5 DEF Nodes
  <2>2. CASE p = 1
    BY <1>1, <1>5, <2>1, <2>2
  <2>3. CASE p = 2
    BY <1>1, <1>5, <2>1, <2>3
  <2> QED
    BY <2>1, <2>2, <2>3
<1>6. CASE Size(t) = 3 /\ t.root = 2
  <2>1. Nodes(t) = {1, 2, 3}
    BY <1>6 DEF Nodes
  <2>2. CASE p = 1
    BY <1>1, <1>6, <2>1, <2>2
  <2>3. CASE p = 2
    BY <1>1, <1>6, <2>1, <2>3
  <2>4. CASE p = 3
    BY <1>1, <1>6, <2>1, <2>4
  <2> QED
    BY <2>1, <2>2, <2>3, <2>4
<1> QED
  BY <1>2, <1>3, <1>4, <1>5, <1>6, Shapes

-----------------------------------------------------------------------------
(* Insertion and removal.                                                  *)

Insertion(s, p, key) ==
  SubSeq(s, 1, p - 1) \o <<key>> \o SubSeq(s, p, Len(s))

Removal(s, p) == SubSeq(s, 1, p - 1) \o SubSeq(s, p + 1, Len(s))

(* A sequence with one element more. *)
LEMMA Inserted ==
  ASSUME NEW s \in Seq(Keys), NEW p \in 1 .. Len(s) + 1, NEW key \in Keys
  PROVE  /\ Insertion(s, p, key) \in Seq(Keys)
         /\ Len(Insertion(s, p, key)) = Len(s) + 1
         /\ \A i \in 1 .. Len(s) + 1 :
              Insertion(s, p, key)[i] =
                IF i < p THEN s[i] ELSE IF i = p THEN key ELSE s[i - 1]
<1>1. PICK n \in Nat : n = Len(s) /\ p \in 1 .. n + 1
  BY LenProperties
<1>2. PICK r : r = Insertion(s, p, key)
  OBVIOUS
<1>3. \A i \in 1 .. n : s[i] \in Keys
  BY <1>1, ElementOfSeq
<1>4. PICK a : a = SubSeq(s, 1, p - 1)
  OBVIOUS
<1>5. PICK c : c = SubSeq(s, p, n)
  OBVIOUS
<1>6. /\ a \in Seq(Keys) /\ Len(a) = p - 1
      /\ \A i \in 1 .. p - 1 : a[i] = s[i]
  <2>1. \A i \in 1 .. p - 1 : i \in 1 .. n
    BY <1>1
  <2> QED
    BY <1>3, <1>4, <1>1, <2>1
<1>7. /\ c \in Seq(Keys) /\ Len(c) = n + 1 - p
      /\ \A i \in 1 .. n + 1 - p : c[i] = s[p + i - 1]
  <2>1. \A i \in p .. n : i \in 1 .. n
    BY <1>1
  <2> QED
    BY <1>3, <1>5, <1>1, <2>1
<1>8. PICK b : b = a \o <<key>>
  OBVIOUS
<1>9. /\ b \in Seq(Keys) /\ Len(b) = p
      /\ \A i \in 1 .. p : b[i] = IF i < p THEN s[i] ELSE key
  BY <1>6, <1>8
<1>10. r = b \o c
  BY <1>4, <1>5, <1>8, <1>1, <1>2 DEF Insertion
<1>11. /\ r \in Seq(Keys) /\ Len(r) = Len(b) + Len(c)
      /\ \A i \in 1 .. Len(b) + Len(c) :
           r[i] = IF i <= Len(b) THEN b[i] ELSE c[i - Len(b)]
  <2>1. b \in Seq(Keys) /\ c \in Seq(Keys)
    BY <1>7, <1>9
  <2> QED
    BY ONLY <1>10, <2>1, ConcatProperties
<1>12. Len(b) + Len(c) = n + 1
  BY <1>7, <1>9
<1>13. ASSUME NEW i \in 1 .. n + 1
       PROVE  r[i] = IF i < p THEN s[i] ELSE IF i = p THEN key ELSE s[i - 1]
  <2>1. CASE i <= p
    BY <1>9, <1>11, <1>12, <2>1
  <2>2. CASE ~(i <= p)
    <3>1. i - p \in 1 .. n + 1 - p /\ p + (i - p) - 1 = i - 1
      BY <2>2
    <3>2. c[i - p] = s[i - 1]
      BY <1>7, <3>1
    <3>3. r[i] = c[i - p]
      BY <1>9, <1>11, <1>12, <2>2
    <3>4. ~(i < p) /\ i # p
      BY <2>2
    <3> QED
      BY <3>2, <3>3, <3>4
  <2> QED
    BY <2>1, <2>2
<1> QED
  BY <1>11, <1>12, <1>13, <1>1, <1>2

(* A sequence with one element less. *)
LEMMA Removed ==
  ASSUME NEW s \in Seq(Keys), NEW p \in 1 .. Len(s)
  PROVE  /\ Removal(s, p) \in Seq(Keys)
         /\ Len(Removal(s, p)) = Len(s) - 1
         /\ \A i \in 1 .. Len(s) - 1 :
              Removal(s, p)[i] = IF i < p THEN s[i] ELSE s[i + 1]
<1>1. PICK n \in Nat : n = Len(s) /\ p \in 1 .. n
  BY LenProperties
<1>2. PICK r : r = Removal(s, p)
  OBVIOUS
<1>3. \A i \in 1 .. n : s[i] \in Keys
  BY <1>1, ElementOfSeq
<1>4. PICK a : a = SubSeq(s, 1, p - 1)
  OBVIOUS
<1>5. PICK c : c = SubSeq(s, p + 1, n)
  OBVIOUS
<1>6. /\ a \in Seq(Keys) /\ Len(a) = p - 1
      /\ \A i \in 1 .. p - 1 : a[i] = s[i]
  <2>1. \A i \in 1 .. p - 1 : i \in 1 .. n
    BY <1>1
  <2> QED
    BY <1>3, <1>4, <1>1, <2>1
<1>7. /\ c \in Seq(Keys) /\ Len(c) = n - p
      /\ \A i \in 1 .. n - p : c[i] = s[p + i]
  <2>1. \A i \in p + 1 .. n : i \in 1 .. n
    BY <1>1
  <2> QED
    BY <1>3, <1>5, <1>1, <2>1
<1>8. /\ r \in Seq(Keys) /\ Len(r) = Len(a) + Len(c)
      /\ \A i \in 1 .. Len(a) + Len(c) :
           r[i] = IF i <= Len(a) THEN a[i] ELSE c[i - Len(a)]
  <2>1. a \in Seq(Keys) /\ c \in Seq(Keys)
    BY <1>6, <1>7
  <2>2. r = a \o c
    BY <1>4, <1>5, <1>1, <1>2 DEF Removal
  <2> QED
    BY ONLY <2>1, <2>2, ConcatProperties
<1>9. Len(a) + Len(c) = n - 1
  BY <1>6, <1>7
<1>10. ASSUME NEW i \in 1 .. n - 1
      PROVE  r[i] = IF i < p THEN s[i] ELSE s[i + 1]
  <2>1. CASE i < p
    <3>1. i \in 1 .. p - 1 /\ i <= p - 1
      BY <2>1
    <3>2. r[i] = a[i]
      BY <1>6, <1>8, <1>9, <3>1
    <3> QED
      BY <1>6, <2>1, <3>1, <3>2
  <2>2. CASE ~(i < p)
    <3>1. i - (p - 1) \in 1 .. n - p /\ p + (i - (p - 1)) = i + 1
      BY <2>2
    <3>2. c[i - (p - 1)] = s[i + 1]
      BY <1>7, <3>1
    <3>3. r[i] = c[i - (p - 1)]
      <4>1. ~(i <= p - 1)
        BY <2>2
      <4> QED
        BY <1>6, <1>8, <1>9, <4>1
    <3> QED
      BY <2>2, <3>2, <3>3
  <2> QED
    BY <2>1, <2>2
<1> QED
  BY <1>8, <1>9, <1>10, <1>1, <1>2

(* A key is inserted where it belongs, without a second search. *)
LEMMA InsertKeeps ==
  ASSUME StrictTotalOrder(Keys), NEW t, IsTree(t), Ascending(t),
         NEW key \in Keys, key \notin KeysOf(t), Size(t) < MaxNodes,
         NEW u, u = InsertAt(t, InsertPosition(t, key), key)
  PROVE  /\ InsertPosition(t, key) # 0
         /\ IsTree(u) /\ Ascending(u) /\ KeysOf(u) = KeysOf(t) \cup {key}
         /\ Size(u) = Size(t) + 1
<1>1. PICK n \in Nat : n = Size(t)
  BY Shapes
<1>2. PICK p : p = LowerBound(t, key)
  OBVIOUS
<1>3. /\ p \in 1 .. n + 1
      /\ \A i \in 1 .. n : KeyLess(t.keys[i], key) <=> i < p
  BY <1>1, <1>2, LowerBoundIsPlace DEF IsPlace, Nodes
<1>4. InsertPosition(t, key) = p
  <2>1. p = 1 \/ (p - 1 \in 1 .. n /\ p - 1 < p)
    BY <1>3
  <2> QED
    BY <1>2, <1>3, <2>1 DEF InsertPosition
<1>5. PICK s \in Seq(Keys) : s = t.keys
  BY DEF IsTree
<1>6. PICK r : r = Insertion(s, p, key)
  OBVIOUS
<1>7. n = Len(s) /\ u.keys = r
  BY <1>1, <1>4, <1>5, <1>6 DEF InsertAt, Insertion, Size
<1>8. /\ r \in Seq(Keys) /\ Len(r) = n + 1
      /\ \A i \in 1 .. n + 1 :
           r[i] = IF i < p THEN s[i] ELSE IF i = p THEN key ELSE s[i - 1]
  <2>1. p \in 1 .. Len(s) + 1
    BY <1>3, <1>7
  <2>2. /\ Insertion(s, p, key) \in Seq(Keys)
        /\ Len(Insertion(s, p, key)) = Len(s) + 1
        /\ \A i \in 1 .. Len(s) + 1 :
             Insertion(s, p, key)[i] =
               IF i < p THEN s[i] ELSE IF i = p THEN key ELSE s[i - 1]
    BY ONLY s \in Seq(Keys), key \in Keys, <2>1, Inserted, ZenonT(60)
  <2> QED
    BY ONLY <1>6, <1>7, <2>2
<1>9. Size(u) = n + 1 /\ Nodes(u) = 1 .. n + 1
  BY <1>7, <1>8 DEF Size, Nodes
<1>10. IsTree(u)
  <2>1. n < 3 /\ n \in {0, 1, 2}
    BY <1>1 DEF MaxNodes
  <2>2. /\ n = 0 => u.root = 1
        /\ n = 1 => u.root \in {1, 2}
        /\ n = 2 => u.root = 2
    BY <1>1, <1>4 DEF InsertAt
  <2>3. u \in [keys : Seq(Keys), root : Nat]
    <3>1. u.root \in Nat
      BY <2>1, <2>2
    <3>2. u = [keys |-> r, root |-> u.root]
      BY <1>7 DEF InsertAt
    <3> QED
      BY <1>8, <3>1, <3>2
  <2> QED
    BY <1>9, <2>1, <2>2, <2>3 DEF IsTree, MaxNodes
<1>11. \A i \in 1 .. n :
         /\ s[i] \in Keys
         /\ i < p => KeyLess(s[i], key)
         /\ ~(i < p) => KeyLess(key, s[i])
  <2> TAKE i \in 1 .. n
  <2>1. t.keys[i] # key /\ i \in Nodes(t)
    BY <1>1 DEF KeysOf, Nodes
  <2>2. KeyLess(t.keys[i], key) \/ KeyLess(key, t.keys[i])
    BY <2>1, Compared
  <2> QED
    BY <1>3, <1>5, <2>1, <2>2, Compared
<1>12. \A i, j \in 1 .. n : i < j => KeyLess(s[i], s[j])
  BY <1>1, <1>5 DEF Ascending, Nodes
<1>13. Ascending(u)
  <2> SUFFICES ASSUME NEW i \in 1 .. n + 1, NEW j \in 1 .. n + 1, i < j
               PROVE  KeyLess(r[i], r[j])
    BY <1>7, <1>9 DEF Ascending
  <2>1. CASE i = p
    <3>1. j - 1 \in 1 .. n /\ ~(j - 1 < p) /\ ~(j < p) /\ j # p
      BY <1>3, <2>1
    <3> QED
      BY <1>8, <1>11, <2>1, <3>1, SMTT(60)
  <2>2. CASE j = p
    <3>1. i \in 1 .. n /\ i < p
      BY <1>3, <2>2
    <3> QED
      BY <1>8, <1>11, <2>2, <3>1
  <2>3. CASE i < p /\ j < p
    <3>1. i \in 1 .. n /\ j \in 1 .. n
      BY <1>3, <2>3
    <3> QED
      BY <1>8, <1>12, <2>3, <3>1
  <2>4. CASE i < p /\ j > p
    <3>1. i \in 1 .. n /\ j - 1 \in 1 .. n /\ i < j - 1 /\ ~(j < p) /\ j # p
      BY <1>3, <2>4
    <3> QED
      BY <1>8, <1>12, <2>4, <3>1
  <2>5. CASE i > p
    <3>1. /\ i - 1 \in 1 .. n /\ j - 1 \in 1 .. n /\ i - 1 < j - 1
          /\ ~(i < p) /\ i # p /\ ~(j < p) /\ j # p
      BY <1>3, <2>5
    <3> QED
      BY <1>8, <1>12, <3>1
  <2> QED
    BY <1>3, <2>1, <2>2, <2>3, <2>4, <2>5
<1>14. KeysOf(u) = KeysOf(t) \cup {key}
  <2>1. /\ KeysOf(u) = {r[i] : i \in 1 .. n + 1}
        /\ KeysOf(t) = {s[i] : i \in 1 .. n}
    BY <1>1, <1>5, <1>7, <1>9 DEF KeysOf, Nodes
  <2>2. \A i \in 1 .. n + 1 : r[i] = key \/ \E j \in 1 .. n : r[i] = s[j]
    <3> TAKE i \in 1 .. n + 1
    <3>1. CASE i < p
      <4>1. i \in 1 .. n
        BY <1>3, <3>1
      <4> QED
        BY <1>8, <3>1, <4>1
    <3>2. CASE i > p
      <4>1. i - 1 \in 1 .. n /\ ~(i < p) /\ i # p
        BY <1>3, <3>2
      <4> QED
        BY <1>8, <4>1
    <3> QED
      BY <1>3, <1>8, <3>1, <3>2
  <2>3. \A j \in 1 .. n : \E i \in 1 .. n + 1 : r[i] = s[j]
    <3> TAKE j \in 1 .. n
    <3>1. CASE j < p
      BY <1>8, <3>1
    <3>2. CASE ~(j < p)
      <4>1. j + 1 \in 1 .. n + 1 /\ ~(j + 1 < p) /\ j + 1 # p /\ j + 1 - 1 = j
        BY <1>3, <3>2
      <4> QED
        BY <1>8, <4>1
    <3> QED
      BY <3>1, <3>2
  <2>4. p \in 1 .. n + 1 /\ r[p] = key
    BY <1>3, <1>8
  <2> QED
    BY <2>1, <2>2, <2>3, <2>4
<1> QED
  BY <1>1, <1>3, <1>4, <1>9, <1>10, <1>13, <1>14

(* A key that is in the tree is taken out of it. *)
LEMMA EraseKeeps ==
  ASSUME StrictTotalOrder(Keys), NEW t, IsTree(t), Ascending(t),
         NEW key \in KeysOf(t), NEW u, u = Erase(t, key)
  PROVE  /\ IsTree(u) /\ Ascending(u) /\ KeysOf(u) = KeysOf(t) \ {key}
         /\ Size(u) = Size(t) - 1
<1>1. PICK n \in Nat : n = Size(t)
  BY Shapes
<1>2. PICK p \in 1 .. n : t.keys[p] = key
  BY <1>1 DEF KeysOf, Nodes
<1>3. key \in Keys
  BY <1>1, <1>2, ElementOfSeq DEF IsTree, Size
<1>4. EqualRange(t, key) = <<p, p + 1>>
  BY <1>1, <1>2, <1>3, RangeIsOneNode DEF Nodes
<1>5. PICK s \in Seq(Keys) : s = t.keys
  BY DEF IsTree
<1>6. PICK r : r = Removal(s, p)
  OBVIOUS
<1>7. n = Len(s) /\ u = EraseRange(t, p, p + 1)
  BY <1>1, <1>4, <1>5 DEF Erase, Size
<1>8. /\ r \in Seq(Keys) /\ Len(r) = n - 1
      /\ \A i \in 1 .. n - 1 : r[i] = IF i < p THEN s[i] ELSE s[i + 1]
  <2>1. n = Len(s) /\ p \in 1 .. n
    BY <1>7
  <2> QED
    BY <1>6, <2>1, Removed
<1>9. u = [keys |-> r,
            root |-> CASE Len(r) = 0 -> 0
                       [] Len(r) = 2 -> IF p = 1 THEN 1 ELSE 2
                       [] OTHER      -> 1]
  BY ONLY <1>1, <1>5, <1>6, <1>7 DEF EraseRange, Removal
<1>10. Size(u) = n - 1 /\ Nodes(u) = 1 .. n - 1
  BY <1>8, <1>9 DEF Size, Nodes
<1>11. IsTree(u)
  <2>1. n \in {1, 2, 3}
    BY <1>1, <1>2, Shapes
  <2>2. /\ n = 1 => u.root = 0
        /\ n = 2 => u.root = 1
        /\ n = 3 => u.root \in {1, 2}
    BY <1>8, <1>9
  <2>3. u \in [keys : Seq(Keys), root : Nat]
    <3>1. u.root \in Nat
      BY <2>1, <2>2
    <3>2. u = [keys |-> r, root |-> u.root]
      BY <1>9
    <3> QED
      BY <1>8, <3>1, <3>2
  <2> QED
    BY <1>10, <2>1, <2>2, <2>3 DEF IsTree, MaxNodes
<1>12. \A i, j \in 1 .. n : i < j => KeyLess(s[i], s[j])
  BY <1>1, <1>5 DEF Ascending, Nodes
<1>13. Ascending(u)
  <2> SUFFICES ASSUME NEW i \in 1 .. n - 1, NEW j \in 1 .. n - 1, i < j
               PROVE  KeyLess(r[i], r[j])
    BY <1>10, <1>9 DEF Ascending
  <2>1. /\ i \in 1 .. n /\ j \in 1 .. n /\ i + 1 \in 1 .. n /\ j + 1 \in 1 .. n
        /\ i + 1 < j + 1 /\ i < j + 1
    OBVIOUS
  <2>2. CASE j < p
    <3>1. i < p
      BY <2>2
    <3> QED
      BY <1>8, <1>12, <2>1, <2>2, <3>1
  <2>3. CASE i < p /\ ~(j < p)
    BY <1>8, <1>12, <2>1, <2>3
  <2>4. CASE ~(i < p)
    <3>1. ~(j < p)
      BY <2>4
    <3> QED
      BY <1>8, <1>12, <2>1, <2>4, <3>1
  <2> QED
    BY <2>2, <2>3, <2>4
<1>14. KeysOf(u) = KeysOf(t) \ {key}
  <2>1. /\ KeysOf(u) = {r[i] : i \in 1 .. n - 1}
        /\ KeysOf(t) = {s[i] : i \in 1 .. n}
    BY <1>1, <1>5, <1>10, <1>9 DEF KeysOf, Nodes
  <2>2. \A i \in 1 .. n : s[i] = key => i = p
    <3> TAKE i \in 1 .. n
    <3>1. i # p => KeyLess(s[i], s[p]) \/ KeyLess(s[p], s[i])
      BY <1>12
    <3>2. ~KeyLess(key, key) /\ s[p] = key
      BY <1>2, <1>3, <1>5 DEF StrictTotalOrder
    <3> QED
      BY <3>1, <3>2
  <2>3. \A i \in 1 .. n - 1 : \E j \in 1 .. n : j # p /\ r[i] = s[j]
    <3> TAKE i \in 1 .. n - 1
    <3>1. i \in 1 .. n /\ i + 1 \in 1 .. n
      OBVIOUS
    <3>2. CASE i < p
      BY <1>8, <3>1, <3>2
    <3>3. CASE ~(i < p)
      <4>1. i + 1 # p
        BY <3>3
      <4> QED
        BY <1>8, <3>1, <3>3, <4>1
    <3> QED
      BY <3>2, <3>3
  <2>4. \A j \in 1 .. n : j # p => \E i \in 1 .. n - 1 : r[i] = s[j]
    <3> TAKE j \in 1 .. n
    <3>1. CASE j < p
      <4>1. j \in 1 .. n - 1
        BY <3>1
      <4> QED
        BY <1>8, <3>1, <4>1
    <3>2. CASE j > p
      <4>1. j - 1 \in 1 .. n - 1 /\ ~(j - 1 < p) /\ j - 1 + 1 = j
        BY <3>2
      <4> QED
        BY <1>8, <4>1
    <3> QED
      BY <3>1, <3>2
  <2>5. s[p] = key
    BY <1>2, <1>5
  <2> QED
    <3>1. \A i \in 1 .. n - 1 : r[i] \in KeysOf(t) /\ r[i] # key
      BY <2>1, <2>2, <2>3
    <3>2. \A j \in 1 .. n : s[j] # key => s[j] \in KeysOf(u)
      <4>1. \A j \in 1 .. n : s[j] # key => j # p
        BY <2>5
      <4> QED
        BY <2>1, <2>4, <4>1
    <3> QED
      BY <2>1, <3>1, <3>2
<1> QED
  BY <1>1, <1>10, <1>11, <1>13, <1>14

-----------------------------------------------------------------------------
(* connect keeps the tree in order, and disconnect takes one node away. *)
LEMMA StepKeeps ==
  ASSUME ConsistentlyOrdered(Keys), Keys \in SUBSET KeySet, IInv, [Next]_vars
  PROVE  /\ IInv'
         /\ \A key \in Keys : Disconnect(key) => Size(tree') = Size(tree) - 1
<1>1. StrictTotalOrder(Keys)
  BY OrderIffConsistent
<1>2. IsTree(tree) /\ Ascending(tree) /\ connected = KeysOf(tree)
  BY DEF IInv
<1>3. Size(tree) \in Nat
  BY <1>2, Shapes
<1>4. ASSUME NEW key \in Keys, Connect(key)
      PROVE  IInv'
  <2>1. /\ key \notin KeysOf(tree) /\ Size(tree) < MaxNodes
        /\ connected' = connected \cup {key}
    BY <1>2, <1>4 DEF Connect
  <2>2. LET hint == LowerBound(tree, key)
        IN  ~(hint # End(tree) /\ ~KeyLess(key, tree.keys[hint]))
    <3>1. ~IsFound(tree, key)
      BY <1>1, <1>2, <2>1, FindFinds
    <3>2. LowerBound(tree, key) # End(tree) =>
            LowerBound(tree, key) \in Nodes(tree)
      BY <1>1, <1>2, <1>3, LowerBoundIsPlace DEF IsPlace, End, Nodes
    <3>3. \A i \in Nodes(tree) : i # End(tree)
      BY <1>3 DEF End, Nodes
    <3> QED
      BY <3>1, <3>2, <3>3 DEF IsFound, Find
  <2>3. PICK u : u = InsertAt(tree, InsertPosition(tree, key), key)
    OBVIOUS
  <2>4. /\ InsertPosition(tree, key) # 0
        /\ IsTree(u) /\ Ascending(u) /\ KeysOf(u) = KeysOf(tree) \cup {key}
        /\ Size(u) = Size(tree) + 1
    BY <1>1, <1>2, <2>1, <2>3, InsertKeeps
  <2>5. tree' = u
    BY <1>4, <2>2, <2>3, <2>4 DEF Connect
  <2> QED
    BY <1>2, <2>1, <2>4, <2>5 DEF IInv
<1>5. ASSUME NEW key \in Keys, Disconnect(key)
      PROVE  IInv' /\ Size(tree') = Size(tree) - 1
  <2>1. key \in KeysOf(tree) /\ connected' = connected \ {key}
    BY <1>2, <1>5 DEF Disconnect
  <2>2. IsFound(tree, key)
    BY <1>1, <1>2, <2>1, FindFinds
  <2>3. PICK u : u = Erase(tree, key)
    OBVIOUS
  <2>4. /\ IsTree(u) /\ Ascending(u) /\ KeysOf(u) = KeysOf(tree) \ {key}
        /\ Size(u) = Size(tree) - 1
    BY <1>1, <1>2, <2>1, <2>3, EraseKeeps
  <2>5. tree' = u
    BY <1>5, <2>2, <2>3 DEF Disconnect
  <2> QED
    BY <1>2, <2>1, <2>4, <2>5 DEF IInv
<1>6. ASSUME UNCHANGED vars
      PROVE  IInv'
  <2>1. tree' = tree /\ connected' = connected
    BY <1>6 DEF vars
  <2>2. IsTree(tree)' /\ Ascending(tree)' /\ (connected = KeysOf(tree))'
    BY <1>2, <2>1
  <2> QED
    BY <2>2 DEF IInv
<1> QED
  BY <1>4, <1>5, <1>6 DEF Next

(***************************************************************************)
(* The tree holds exactly the keys of the connected resources, in their    *)
(* order, for every set of keys that operator< orders consistently.        *)
(***************************************************************************)
THEOREM Invariance ==
  ASSUME ConsistentlyOrdered(Keys), Keys \in SUBSET KeySet
  PROVE  Spec => []IInv
<1>1. Init => IInv
  <2> SUFFICES ASSUME Init PROVE IInv
    OBVIOUS
  <2>1. tree = [keys |-> <<>>, root |-> 0] /\ connected = {}
    BY DEF Init
  <2>2. <<>> \in Seq(Keys) /\ Len(<<>>) = 0
    BY EmptySeq
  <2>3. Size(tree) = 0 /\ Nodes(tree) = {}
    BY <2>1, <2>2 DEF Size, Nodes
  <2>4. IsTree(tree)
    BY <2>1, <2>2, <2>3 DEF IsTree, MaxNodes
  <2> QED
    BY <2>1, <2>3, <2>4 DEF IInv, Ascending, KeysOf
<1>2. IInv /\ [Next]_vars => IInv'
  BY StepKeeps
<1> QED
  BY <1>1, <1>2, PTL DEF Spec

(***************************************************************************)
(* On such keys the lookup of a connected resource leads to it, and the    *)
(* lookup of another one leads nowhere.                                    *)
(***************************************************************************)
THEOREM LookupsCorrect ==
  ASSUME ConsistentlyOrdered(Keys), Keys \in SUBSET KeySet
  PROVE  Spec => []FindsWhatIsConnected
<1>1. IInv => FindsWhatIsConnected
  <2>1. StrictTotalOrder(Keys)
    BY OrderIffConsistent
  <2> QED
    BY <2>1, FindFinds DEF IInv, FindsWhatIsConnected
<1> QED
  BY <1>1, Invariance, PTL

(***************************************************************************)
(* On such keys the disconnect of a resource's last handler finds the      *)
(* resource and removes exactly one node, which is what it asserts.        *)
(***************************************************************************)
THEOREM ErasureCorrect ==
  ASSUME ConsistentlyOrdered(Keys), Keys \in SUBSET KeySet
  PROVE  Spec => ErasesOneNode
<1>1. IInv /\ [Next]_vars =>
        [\A key \in Keys : Disconnect(key) => Size(tree') = Size(tree) - 1]_vars
  BY StepKeeps
<1> QED
  BY <1>1, Invariance, PTL DEF Spec, ErasesOneNode
=============================================================================
