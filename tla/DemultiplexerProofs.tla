------------------------- MODULE DemultiplexerProofs -------------------------
(***************************************************************************)
(* The safety of the demultiplexer for every number of threads, handlers,  *)
(* ids, requests and MIME types.                                           *)
(*                                                                         *)
(* The inductive invariant ties the three places that know of a handler to *)
(* each other: the handler object, the entry of the resource map and the   *)
(* holders.  An entry and its object name each other, a thread inside      *)
(* disconnect or connect has a handler object to itself, a holder names an *)
(* object that still has its entry, and the entry's counter is the number  *)
(* of the holders that do.                                                 *)
(***************************************************************************)
EXTENDS Demultiplexer, FiniteSetTheorems, WellFoundedInduction, TLAPS

-----------------------------------------------------------------------------
(***************************************************************************)
(* First the MIME maps: what their operations return, for every map whose  *)
(* vector lists the types of its map, every set of MIME pairs and every    *)
(* set of callbacks.                                                       *)
(***************************************************************************)
(* The two maps differ at most in the infos of one stored type. *)
Changes(m, n, type, infos) ==
  /\ n.vector = m.vector
  /\ Stored(n) = Stored(m)
  /\ n.map[type] = infos
  /\ \A t \in Stored(m) \ {type} : n.map[t] = m.map[t]

LEMMA EmptyMapOK ==
  ASSUME NEW Types, NEW Fns
  PROVE  /\ IsMimeMap(EmptyMimeMap, Types, Fns)
         /\ VectorListsMap(EmptyMimeMap)
         /\ Stored(EmptyMimeMap) = {}
  BY DEF IsMimeMap, EmptyMimeMap, VectorListsMap, Stored

(***************************************************************************)
(* insert adds one type, unused and available, and keeps the others.       *)
(***************************************************************************)
LEMMA InsertOK ==
  ASSUME NEW Types, NEW Fns, NEW m, NEW type \in Types, NEW fn \in Fns,
         IsMimeMap(m, Types, Fns), VectorListsMap(m), CanInsert(m, type)
  PROVE  LET n == Insert(m, type, fn)
         IN  /\ IsMimeMap(n, Types, Fns)
             /\ VectorListsMap(n)
             /\ Stored(n) = Stored(m) \cup {type}
             /\ n.map[type] = [handler |-> fn, usage_counter |-> 0,
                               is_available |-> TRUE]
             /\ \A t \in Stored(m) : n.map[t] = m.map[t]
<1> DEFINE n == Insert(m, type, fn)
           infos == [handler |-> fn, usage_counter |-> 0, is_available |-> TRUE]
<1>1. /\ n = [map |-> n.map, vector |-> n.vector]
      /\ n.map = With(m.map, type, infos)
      /\ n.vector = Append(m.vector, type)
      /\ type \notin Stored(m)
  BY DEF Insert, CanInsert
<1>2. /\ Stored(n) = Stored(m) \cup {type}
      /\ n.map[type] = infos
      /\ \A t \in Stored(m) : n.map[t] = m.map[t]
      /\ n.map \in [Stored(n) -> InfosOf(Fns)]
  BY <1>1 DEF Stored, With, IsMimeMap, InfosOf
<1>3. /\ n.vector \in Seq(Types)
      /\ Len(n.vector) = Len(m.vector) + 1
      /\ \A i \in 1 .. Len(m.vector) : n.vector[i] = m.vector[i]
      /\ n.vector[Len(m.vector) + 1] = type
      /\ DOMAIN n.vector = 1 .. Len(m.vector) + 1
      /\ DOMAIN m.vector = 1 .. Len(m.vector)
      /\ Len(m.vector) \in Nat
  BY <1>1 DEF IsMimeMap
<1> HIDE DEF n, infos
<1>4. VectorListsMap(n)
  <2>1. \A i \in DOMAIN n.vector : n.vector[i] \in Stored(n)
    BY <1>2, <1>3 DEF VectorListsMap
  <2>2. ASSUME NEW t \in Stored(n)
        PROVE  \E i \in DOMAIN n.vector : n.vector[i] = t
    <3>1. CASE t = type
      BY <1>3, <3>1
    <3>2. CASE t \in Stored(m)
      <4>1. PICK i \in DOMAIN m.vector : m.vector[i] = t
        BY <3>2 DEF VectorListsMap
      <4>2. QED
        BY <1>3, <4>1
    <3>3. QED
      BY <1>2, <3>1, <3>2
  <2>3. ASSUME NEW i \in DOMAIN n.vector, NEW j \in DOMAIN n.vector,
               n.vector[i] = n.vector[j]
        PROVE  i = j
    <3>1. \A k \in 1 .. Len(m.vector) : n.vector[k] # type
      BY <1>1, <1>3 DEF VectorListsMap
    <3>2. CASE i = Len(m.vector) + 1 \/ j = Len(m.vector) + 1
      BY <1>3, <2>3, <3>1, <3>2
    <3>3. CASE i \in 1 .. Len(m.vector) /\ j \in 1 .. Len(m.vector)
      BY <1>3, <2>3, <3>3 DEF VectorListsMap
    <3>4. QED
      BY <1>3, <3>2, <3>3
  <2>4. QED
    BY <2>1, <2>2, <2>3 DEF VectorListsMap
<1>5. QED
  BY <1>1, <1>2, <1>3, <1>4 DEF IsMimeMap, n, infos

(***************************************************************************)
(* erase takes one type out of both containers and keeps the others.       *)
(***************************************************************************)
LEMMA EraseOK ==
  ASSUME NEW Types, NEW Fns, NEW m, NEW type \in Stored(m),
         IsMimeMap(m, Types, Fns), VectorListsMap(m),
         NEW n, n = Erase(m, type)
  PROVE  /\ IsMimeMap(n, Types, Fns)
         /\ VectorListsMap(n)
         /\ Stored(n) = Stored(m) \ {type}
         /\ \A t \in Stored(n) : n.map[t] = m.map[t]
<1> DEFINE p == CHOOSE i \in DOMAIN m.vector : m.vector[i] = type
           L == Len(m.vector)
<1>1. /\ n = [map |-> n.map, vector |-> n.vector]
      /\ n.map = Without(m.map, {type})
      /\ n.vector = [i \in 1 .. L - 1 |->
                       IF i < p THEN m.vector[i] ELSE m.vector[i + 1]]
  BY DEF Erase, RemoveElement
<1>2. /\ L \in Nat
      /\ DOMAIN m.vector = 1 .. L
      /\ \A i \in 1 .. L : m.vector[i] \in Types
  BY DEF IsMimeMap
<1>3. p \in 1 .. L /\ m.vector[p] = type
  BY <1>2 DEF VectorListsMap
<1>4. /\ Stored(n) = Stored(m) \ {type}
      /\ \A t \in Stored(n) : n.map[t] = m.map[t]
      /\ n.map \in [Stored(n) -> InfosOf(Fns)]
      /\ Stored(n) \subseteq Types
  BY <1>1 DEF Stored, Without, IsMimeMap
<1> HIDE DEF p, L
<1>5. /\ n.vector \in Seq(Types)
      /\ DOMAIN n.vector = 1 .. L - 1
  <2>1. L - 1 \in Nat
    BY <1>2, <1>3
  <2>2. ASSUME NEW i \in 1 .. L - 1
        PROVE  n.vector[i] \in Types
    <3>1. i \in 1 .. L /\ i + 1 \in 1 .. L
      BY <1>2
    <3>2. m.vector[i] \in Types /\ m.vector[i + 1] \in Types
      BY <1>2, <3>1
    <3>3. n.vector[i] = (IF i < p THEN m.vector[i] ELSE m.vector[i + 1])
      BY <1>1
    <3>4. QED
      BY <3>2, <3>3
  <2>3. QED
    BY <1>1, <2>1, <2>2
<1>6. \A i \in DOMAIN n.vector : \E j \in 1 .. L \ {p} :
        /\ n.vector[i] = m.vector[j]
        /\ j = (IF i < p THEN i ELSE i + 1)
  BY <1>1, <1>2, <1>3, <1>5
<1>7. VectorListsMap(n)
  <2>1. \A i \in DOMAIN n.vector : n.vector[i] \in Stored(n)
    BY <1>2, <1>3, <1>4, <1>6 DEF VectorListsMap
  <2>2. ASSUME NEW t \in Stored(n)
        PROVE  \E i \in DOMAIN n.vector : n.vector[i] = t
    <3>1. PICK j \in 1 .. L : m.vector[j] = t
      BY <1>2, <1>4 DEF VectorListsMap
    <3>2. j # p
      BY <1>3, <1>4, <3>1
    <3>3. CASE j < p
      BY <1>1, <1>2, <1>3, <1>5, <3>1, <3>3
    <3>4. CASE j > p
      <4>1. /\ j - 1 \in 1 .. L - 1
            /\ ~(j - 1 < p)
            /\ (j - 1) + 1 = j
        BY <1>2, <1>3, <3>4
      <4>2. n.vector[j - 1] = m.vector[j]
        BY <1>1, <4>1
      <4>3. QED
        BY <1>5, <3>1, <4>1, <4>2
    <3>5. QED
      BY <1>2, <1>3, <3>2, <3>3, <3>4
  <2>3. ASSUME NEW i \in DOMAIN n.vector, NEW j \in DOMAIN n.vector,
               n.vector[i] = n.vector[j]
        PROVE  i = j
    <3>1. PICK k \in 1 .. L \ {p} :
            n.vector[i] = m.vector[k] /\ k = (IF i < p THEN i ELSE i + 1)
      BY <1>6
    <3>2. PICK l \in 1 .. L \ {p} :
            n.vector[j] = m.vector[l] /\ l = (IF j < p THEN j ELSE j + 1)
      BY <1>6
    <3>3. k = l
      BY <1>2, <2>3, <3>1, <3>2 DEF VectorListsMap
    <3>4. QED
      BY <1>2, <1>3, <1>5, <3>1, <3>2, <3>3
  <2>4. QED
    BY <2>1, <2>2, <2>3 DEF VectorListsMap
<1>8. QED
  BY <1>1, <1>4, <1>5, <1>7 DEF IsMimeMap

(***************************************************************************)
(* The three operations on the infos of a stored type change nothing else. *)
(***************************************************************************)
LEMMA ChangeOK ==
  ASSUME NEW Types, NEW Fns, NEW m, NEW type \in Stored(m),
         IsMimeMap(m, Types, Fns), VectorListsMap(m),
         NEW infos \in InfosOf(Fns),
         NEW n, n = [m EXCEPT !.map = [m.map EXCEPT ![type] = infos]]
  PROVE  /\ IsMimeMap(n, Types, Fns)
         /\ VectorListsMap(n)
         /\ Changes(m, n, type, infos)
<1>1. /\ n = [map |-> n.map, vector |-> n.vector]
      /\ n.map = [m.map EXCEPT ![type] = infos]
      /\ n.vector = m.vector
  BY DEF IsMimeMap
<1>2. /\ Stored(n) = Stored(m)
      /\ n.map \in [Stored(n) -> InfosOf(Fns)]
      /\ n.map[type] = infos
      /\ \A t \in Stored(m) \ {type} : n.map[t] = m.map[t]
  BY <1>1 DEF IsMimeMap, Stored
<1>3. IsMimeMap(n, Types, Fns)
  BY <1>1, <1>2 DEF IsMimeMap
<1>4. VectorListsMap(n)
  BY <1>1, <1>2 DEF VectorListsMap
<1>5. QED
  BY <1>1, <1>2, <1>3, <1>4 DEF Changes

LEMMA IncreaseUsageOK ==
  ASSUME NEW Types, NEW Fns, NEW m, NEW type \in Stored(m),
         IsMimeMap(m, Types, Fns), VectorListsMap(m)
  PROVE  LET n == IncreaseUsage(m, type)
         IN  /\ IsMimeMap(n, Types, Fns)
             /\ VectorListsMap(n)
             /\ Changes(m, n, type,
                  [m.map[type] EXCEPT
                     !.usage_counter = m.map[type].usage_counter + 1])
<1> DEFINE infos == [m.map[type] EXCEPT
                       !.usage_counter = m.map[type].usage_counter + 1]
<1>1. infos \in InfosOf(Fns)
  BY DEF IsMimeMap, InfosOf
<1>2. IncreaseUsage(m, type) = [m EXCEPT !.map = [m.map EXCEPT ![type] = infos]]
  BY DEF IncreaseUsage
<1>3. QED
  BY <1>1, <1>2, ChangeOK

LEMMA DecreaseUsageOK ==
  ASSUME NEW Types, NEW Fns, NEW m, NEW type \in Stored(m),
         IsMimeMap(m, Types, Fns), VectorListsMap(m),
         m.map[type].usage_counter # 0
  PROVE  LET n == DecreaseUsage(m, type)
         IN  /\ IsMimeMap(n, Types, Fns)
             /\ VectorListsMap(n)
             /\ Changes(m, n, type,
                  [m.map[type] EXCEPT
                     !.usage_counter = m.map[type].usage_counter - 1])
<1> DEFINE infos == [m.map[type] EXCEPT
                       !.usage_counter = m.map[type].usage_counter - 1]
<1>1. infos \in InfosOf(Fns)
  BY DEF IsMimeMap, InfosOf
<1>2. DecreaseUsage(m, type) = [m EXCEPT !.map = [m.map EXCEPT ![type] = infos]]
  BY DEF DecreaseUsage
<1>3. QED
  BY <1>1, <1>2, ChangeOK

LEMMA SetAvailabilityOK ==
  ASSUME NEW Types, NEW Fns, NEW m, NEW type \in Stored(m),
         NEW available \in BOOLEAN,
         IsMimeMap(m, Types, Fns), VectorListsMap(m)
  PROVE  LET n == SetAvailability(m, type, available)
         IN  /\ IsMimeMap(n, Types, Fns)
             /\ VectorListsMap(n)
             /\ Changes(m, n, type,
                  [m.map[type] EXCEPT !.is_available = available])
<1> DEFINE infos == [m.map[type] EXCEPT !.is_available = available]
<1>1. infos \in InfosOf(Fns)
  BY DEF IsMimeMap, InfosOf
<1>2. SetAvailability(m, type, available)
        = [m EXCEPT !.map = [m.map EXCEPT ![type] = infos]]
  BY DEF SetAvailability
<1>3. QED
  BY <1>1, <1>2, ChangeOK

(***************************************************************************)
(* find returns only types that are stored and available.                  *)
(***************************************************************************)
LEMMA FindReturnsStored ==
  ASSUME NEW m, NEW type, NEW t \in Find(m, type)
  PROVE  t \in Stored(m) /\ m.map[t].is_available
  BY DEF Find, FindOrdered, IsAvailable

(***************************************************************************)
(* Every non-empty set of natural numbers has a least element.             *)
(***************************************************************************)
LEMMA LeastExists ==
  ASSUME NEW S \in SUBSET Nat, S # {}
  PROVE  \E i \in S : \A j \in S : i <= j
<1>1. PICK i \in S : \A j \in S : ~(<<j, i>> \in OpToRel(<, Nat))
  BY NatLessThanWellFounded, WFMin, Zenon
<1>2. \A j \in S : ~(j < i)
  BY <1>1 DEF OpToRel
<1>3. QED
  BY <1>2

(***************************************************************************)
(* What a request for an accepted type may be answered with: the stored    *)
(* types that match it and are available.                                  *)
(***************************************************************************)
Answers(m, type) ==
  {t \in Stored(m) : /\ m.map[t].is_available
                     /\ IF HasWildcard(type) THEN Matches(type, t) ELSE t = type}

(***************************************************************************)
(* find returns a type if and only if one may answer, at most one, and of  *)
(* those that may the one that was inserted first: the map's and the       *)
(* vector's parts of the search agree, because both hold the same types.   *)
(***************************************************************************)
THEOREM FindReturnsFirstAnswer ==
  ASSUME NEW Types, NEW Fns, NEW m, NEW type,
         IsMimeMap(m, Types, Fns), VectorListsMap(m)
  PROVE  /\ Find(m, type) \subseteq Answers(m, type)
         /\ Answers(m, type) # {} => Find(m, type) # {}
         /\ \A s, t \in Find(m, type) : s = t
         /\ HasWildcard(type) =>
              \A i, j \in DOMAIN m.vector :
                m.vector[i] \in Find(m, type) /\ m.vector[j] \in Answers(m, type)
                  => i <= j
<1> DEFINE hits == {i \in DOMAIN m.vector :
                      Matches(type, m.vector[i]) /\ IsAvailable(m, m.vector[i])}
           first == {j \in hits : \A k \in hits : j <= k}
<1>1. DOMAIN m.vector \subseteq Nat
  BY DEF IsMimeMap
<1>2. CASE ~HasWildcard(type)
  BY <1>2 DEF Find, Answers, IsAvailable
<1>3. CASE HasWildcard(type)
  <2>1. Find(m, type) = {m.vector[i] : i \in first}
    BY <1>3 DEF Find, FindOrdered
  <2>2. \A i \in hits : m.vector[i] \in Answers(m, type)
    BY <1>3 DEF Answers, IsAvailable
  <2>3. \A i \in DOMAIN m.vector : m.vector[i] \in Answers(m, type) => i \in hits
    BY <1>3 DEF Answers, IsAvailable
  <2>4. \A t \in Answers(m, type) : \E i \in hits : m.vector[i] = t
    BY <2>3 DEF Answers, VectorListsMap
  <2>5. hits # {} => first # {}
    BY <1>1, LeastExists
  <2>6. \A i, j \in first : i = j
    BY <1>1
  <2>7. \A i \in DOMAIN m.vector : m.vector[i] \in Find(m, type) => i \in first
    BY <2>1 DEF VectorListsMap
  <2> HIDE DEF hits, first
  <2>8. first \subseteq hits /\ \A i \in first : \A k \in hits : i <= k
    BY DEF first
  <2>9. Find(m, type) \subseteq Answers(m, type)
    BY <2>1, <2>2, <2>8
  <2>10. Answers(m, type) # {} => Find(m, type) # {}
    BY <2>1, <2>4, <2>5
  <2>11. \A s, t \in Find(m, type) : s = t
    BY <2>1, <2>6
  <2>12. \A i, j \in DOMAIN m.vector :
           m.vector[i] \in Find(m, type) /\ m.vector[j] \in Answers(m, type)
             => i <= j
    BY <2>3, <2>7, <2>8
  <2>13. QED
    BY <2>9, <2>10, <2>11, <2>12
<1>4. QED
  BY <1>2, <1>3
-----------------------------------------------------------------------------
(* Where the vector has the types, and how insert and erase move them.     *)

LEMMA PositionOK ==
  ASSUME NEW Types, NEW Fns, NEW m, NEW type \in Stored(m),
         IsMimeMap(m, Types, Fns), VectorListsMap(m)
  PROVE  /\ Position(m, type) \in DOMAIN m.vector
         /\ Position(m, type) \in Nat
         /\ m.vector[Position(m, type)] = type
<1>1. DOMAIN m.vector = 1 .. Len(m.vector)
  BY DEF IsMimeMap
<1>2. QED
  BY <1>1 DEF Position, VectorListsMap

LEMMA PositionIs ==
  ASSUME NEW m, NEW i \in DOMAIN m.vector, VectorListsMap(m)
  PROVE  Position(m, m.vector[i]) = i
  BY DEF Position, VectorListsMap

LEMMA PositionSame ==
  ASSUME NEW m, NEW n, NEW type, n.vector = m.vector
  PROVE  Position(n, type) = Position(m, type)
  BY DEF Position

(* A new type comes behind all others, which stay where they are. *)
LEMMA InsertPositions ==
  ASSUME NEW Types, NEW Fns, NEW m, NEW type \in Types, NEW fn \in Fns,
         IsMimeMap(m, Types, Fns), VectorListsMap(m), CanInsert(m, type),
         NEW n, n = Insert(m, type, fn)
  PROVE  \A t \in Stored(m) : /\ Position(n, t) = Position(m, t)
                              /\ Position(n, t) < Position(n, type)
<1>1. VectorListsMap(n)
  BY InsertOK
<1>2. /\ n.vector = Append(m.vector, type)
      /\ m.vector \in Seq(Types)
  BY DEF Insert, IsMimeMap
<1>3. /\ Len(m.vector) \in Nat
      /\ DOMAIN m.vector = 1 .. Len(m.vector)
      /\ DOMAIN n.vector = 1 .. Len(m.vector) + 1
      /\ n.vector[Len(m.vector) + 1] = type
      /\ \A i \in 1 .. Len(m.vector) : n.vector[i] = m.vector[i]
  BY <1>2
<1>4. Position(n, type) = Len(m.vector) + 1
  BY <1>1, <1>3, PositionIs
<1>5. ASSUME NEW t \in Stored(m)
      PROVE  /\ Position(n, t) = Position(m, t)
             /\ Position(m, t) \in 1 .. Len(m.vector)
  <2>1. /\ Position(m, t) \in 1 .. Len(m.vector)
        /\ m.vector[Position(m, t)] = t
    BY <1>3, PositionOK
  <2>2. Position(m, t) \in DOMAIN n.vector /\ n.vector[Position(m, t)] = t
    BY <1>3, <2>1
  <2>3. QED
    BY <1>1, <2>1, <2>2, PositionIs
<1>6. QED
  BY <1>3, <1>4, <1>5

(* The types that stay keep their order. *)
LEMMA ErasePositions ==
  ASSUME NEW Types, NEW Fns, NEW m, NEW type \in Stored(m),
         IsMimeMap(m, Types, Fns), VectorListsMap(m),
         NEW n, n = Erase(m, type)
  PROVE  \A s, t \in Stored(n) :
           Position(n, s) < Position(n, t) <=> Position(m, s) < Position(m, t)
<1>1. /\ IsMimeMap(n, Types, Fns)
      /\ VectorListsMap(n)
      /\ Stored(n) = Stored(m) \ {type}
      /\ \A t \in Stored(n) : n.map[t] = m.map[t]
  BY EraseOK
<1> DEFINE p == Position(m, type)
           L == Len(m.vector)
<1>2. n.vector = [i \in 1 .. L - 1 |->
                    IF i < p THEN m.vector[i] ELSE m.vector[i + 1]]
  BY DEF Erase, RemoveElement, Position
<1>3. L \in Nat /\ DOMAIN m.vector = 1 .. L
  BY DEF IsMimeMap
<1>4. p \in 1 .. L /\ m.vector[p] = type
  BY <1>3, PositionOK
<1> HIDE DEF p, L
<1>5. ASSUME NEW t \in Stored(n)
      PROVE  /\ Position(m, t) \in 1 .. L
             /\ Position(m, t) # p
             /\ Position(n, t) =
                  (IF Position(m, t) < p THEN Position(m, t)
                                         ELSE Position(m, t) - 1)
  <2> DEFINE q == Position(m, t)
             r == IF q < p THEN q ELSE q - 1
  <2>1. t \in Stored(m) /\ t # type
    BY <1>1
  <2>2. q \in 1 .. L /\ m.vector[q] = t
    BY <1>3, <2>1, PositionOK
  <2>3. q # p
    BY <1>4, <2>1, <2>2
  <2> HIDE DEF q
  <2>4. r \in 1 .. L - 1 /\ (IF r < p THEN r ELSE r + 1) = q
    BY <1>3, <1>4, <2>2, <2>3
  <2>5. r \in DOMAIN n.vector /\ n.vector[r] = t
    BY <1>2, <2>2, <2>4
  <2>6. Position(n, t) = r
    BY <1>1, <2>5, PositionIs
  <2>7. QED
    BY <2>2, <2>3, <2>6 DEF q
<1>6. QED
  BY <1>3, <1>4, <1>5

-----------------------------------------------------------------------------
(* Then the demultiplexer. *)
Connectedness == {"live", "closing"}

(* The resource map, with the vectors of its maps. *)
ResourcesOK ==
  /\ resource_callbacks = [k \in DOMAIN resource_callbacks |->
                             resource_callbacks[k]]
  /\ DOMAIN resource_callbacks \subseteq Keys
  /\ \A k \in DOMAIN resource_callbacks :
       /\ IsMimeMap(resource_callbacks[k], Mime, Handlers)
       /\ VectorListsMap(resource_callbacks[k])

(* Every object that connect returned has its entry. *)
HandlesHaveEntries ==
  \A h \in Handlers : handle[h].status \in Connectedness =>
    /\ IsConnected(handle[h].id)
    /\ Entry(handle[h].id).handler = h

(* Every entry has its object. *)
EntriesHaveHandles ==
  \A k \in DOMAIN resource_callbacks :
    \A type \in Stored(resource_callbacks[k]) :
      LET h == resource_callbacks[k].map[type].handler
      IN  /\ handle[h].status \in Connectedness
          /\ KeyOf(handle[h].id) = k
          /\ handle[h].id.accept_type = type

HandlesHaveIds ==
  \A h \in Handlers : handle[h].status # "none" => handle[h].id \in Ids

(* A thread that is in connect or disconnect has the object to itself. *)
OpsOwnHandles ==
  /\ \A t \in Threads : op[t].pc # "idle" =>
       /\ op[t].handler \in Handlers
       /\ handle[op[t].handler].status =
            (IF op[t].pc = "connect" THEN "connecting" ELSE "closing")
  /\ \A t, u \in Threads :
       op[t].pc # "idle" /\ op[u].pc # "idle" /\ op[t].handler = op[u].handler
         => t = u

(* A holder belongs to an object that has its entry. *)
HoldersHaveHandles ==
  \A p \in Processors :
    IF serving[p].pc = "idle"
    THEN serving[p].handler = NoHandler
    ELSE /\ serving[p].handler \in Handlers
         /\ handle[serving[p].handler].status \in Connectedness
         /\ handle[serving[p].handler].id = serving[p].id

HoldersOf(h) == {p \in Processors : serving[p].handler = h}
HoldersAfter(h) == {p \in Processors : serving'[p].handler = h}

UsageIsExact ==
  \A k \in DOMAIN resource_callbacks :
    \A type \in Stored(resource_callbacks[k]) :
      resource_callbacks[k].map[type].usage_counter =
        Cardinality(HoldersOf(resource_callbacks[k].map[type].handler))

VariablesOK ==
  /\ IsTable(types, TypeLimit) /\ IsTable(subtypes, SubtypeLimit)
  /\ handle \in [Handlers -> [status : {"none", "connecting", "live", "closing"},
                              id : Ids \cup {NoId}]]
  /\ op \in [Threads -> [pc : {"idle", "connect", "disconnect", "waiting", "woken"},
                         handler : Handlers \cup {NoHandler}]]
  /\ serving \in [Processors -> [pc : {"idle", "holding", "calling", "called"},
                                 id : Ids \cup {NoId},
                                 handler : Handlers \cup {NoHandler}]]

IInv ==
  /\ VariablesOK
  /\ ResourcesOK
  /\ HandlesHaveEntries
  /\ EntriesHaveHandles
  /\ HandlesHaveIds
  /\ OpsOwnHandles
  /\ HoldersHaveHandles
  /\ UsageIsExact

-----------------------------------------------------------------------------
(* Facts about ids, tables and the resource map.                           *)

LEMMA IdFacts ==
  ASSUME NEW id \in Ids
  PROVE  /\ KeyOf(id) \in Keys
         /\ id.accept_type \in Mime
         /\ id = [path |-> KeyOf(id).path, method |-> KeyOf(id).method,
                  content_type |-> KeyOf(id).content_type,
                  accept_type |-> id.accept_type]
  BY IdAssumption DEF Keys, KeyOf

LEMMA NewTableOK ==
  ASSUME NEW Limit \in Nat, Limit > WILDCARD
  PROVE  IsTable(NewTable(Limit), Limit)
  BY DEF IsTable, NewTable, RegisterType, CanRegister, With, Fold, Star, Empty,
     WILDCARD

LEMMA RegisterTypeOK ==
  ASSUME NEW Limit \in Nat, Limit > WILDCARD, NEW table, NEW name,
         IsTable(table, Limit)
  PROVE  IsTable(RegisterType(table, name, Limit), Limit)
<1>1. CASE CanRegister(table, name)
  <2>1. (table.next + 1) % Limit \in 0 .. Limit - 1
    BY DEF IsTable, WILDCARD
  <2>2. QED
    BY <1>1, <2>1 DEF IsTable, RegisterType, With
<1>2. CASE ~CanRegister(table, name)
  BY <1>2 DEF RegisterType
<1>3. QED
  BY <1>1, <1>2

LEMMA UnregisterTypeOK ==
  ASSUME NEW Limit \in Nat, NEW table, NEW value, IsTable(table, Limit)
  PROVE  IsTable(UnregisterType(table, value), Limit)
<1>1. CASE IsRegistered(table, value)
  <2> DEFINE new == UnregisterType(table, value)
  <2>1. /\ new = [next |-> new.next, registered |-> new.registered,
                  trie |-> new.trie]
        /\ new.next = table.next
        /\ new.registered = Without(table.registered, {value})
    BY <1>1 DEF UnregisterType, IsTable
  <2>2. QED
    BY <2>1 DEF IsTable, Without
<1>2. CASE ~IsRegistered(table, value)
  BY <1>2 DEF UnregisterType
<1>3. QED
  BY <1>1, <1>2

(* Replacing or adding the map of one resource. *)
LEMMA ReplaceOK ==
  ASSUME ResourcesOK, NEW id \in Ids, NEW n, ReplaceAcceptMap(id, n),
         IsMimeMap(n, Mime, Handlers), VectorListsMap(n)
  PROVE  /\ ResourcesOK'
         /\ DOMAIN resource_callbacks' = DOMAIN resource_callbacks \cup {KeyOf(id)}
         /\ resource_callbacks'[KeyOf(id)] = n
         /\ \A k \in DOMAIN resource_callbacks \ {KeyOf(id)} :
              resource_callbacks'[k] = resource_callbacks[k]
<1>1. resource_callbacks' =
        [k \in DOMAIN resource_callbacks \cup {KeyOf(id)} |->
           IF k = KeyOf(id) THEN n ELSE resource_callbacks[k]]
  BY DEF ReplaceAcceptMap, With
<1>2. KeyOf(id) \in Keys
  BY IdFacts
<1> HIDE DEF ReplaceAcceptMap
<1>3. QED
  BY <1>1, <1>2 DEF ResourcesOK

(* Removing a resource. *)
LEMMA RemoveOK ==
  ASSUME ResourcesOK, NEW key,
         resource_callbacks' = Without(resource_callbacks, {key})
  PROVE  /\ ResourcesOK'
         /\ DOMAIN resource_callbacks' = DOMAIN resource_callbacks \ {key}
         /\ \A k \in DOMAIN resource_callbacks' :
              resource_callbacks'[k] = resource_callbacks[k]
  BY DEF ResourcesOK, Without

LEMMA ResourcesSame ==
  ASSUME ResourcesOK, UNCHANGED resource_callbacks
  PROVE  ResourcesOK'
  BY DEF ResourcesOK

LEMMA EntriesSame ==
  ASSUME IInv, UNCHANGED <<resource_callbacks, handle>>
  PROVE  HandlesHaveEntries' /\ EntriesHaveHandles' /\ HandlesHaveIds'
<1>1. HandlesHaveEntries'
  BY DEF IInv, HandlesHaveEntries, IsConnected, Entry, Exists, AcceptMap
<1>2. EntriesHaveHandles'
  BY DEF IInv, EntriesHaveHandles
<1>3. HandlesHaveIds'
  BY DEF IInv, HandlesHaveIds
<1>4. QED
  BY <1>1, <1>2, <1>3

LEMMA HoldersSame ==
  ASSUME IInv, UNCHANGED <<resource_callbacks, handle, serving>>
  PROVE  HoldersHaveHandles' /\ UsageIsExact'
<1>1. HoldersHaveHandles'
  BY DEF IInv, HoldersHaveHandles
<1>2. UsageIsExact'
  BY DEF IInv, UsageIsExact, HoldersOf
<1>3. QED
  BY <1>1, <1>2

LEMMA HoldersFinite ==
  ASSUME NEW h
  PROVE  IsFiniteSet(HoldersOf(h)) /\ Cardinality(HoldersOf(h)) \in Nat
<1>1. HoldersOf(h) \subseteq Processors
  BY DEF HoldersOf
<1>2. QED
  BY <1>1, ThreadAssumption, FS_Subset, FS_CardinalityType

-----------------------------------------------------------------------------
(* The initial state and the steps that leave the resource map alone.      *)

LEMMA InitIInv == Init => IInv
<1> SUFFICES ASSUME Init
             PROVE  IInv
  OBVIOUS
<1>1. VariablesOK
  BY LimitAssumption, NewTableOK DEF Init, VariablesOK, Idle, WILDCARD
<1>2. ResourcesOK
  BY DEF Init, ResourcesOK
<1>3. QED
  BY <1>1, <1>2
  DEF Init, IInv, HandlesHaveEntries, EntriesHaveHandles, HandlesHaveIds,
      OpsOwnHandles, HoldersHaveHandles, UsageIsExact, Idle, Connectedness

LEMMA CheckConnectIInv ==
  ASSUME IInv, NEW t \in Threads, NEW h \in Handlers, NEW id \in Ids,
         CheckConnect(t, h, id)
  PROVE  IInv'
<1>1. /\ op[t].pc = "idle"
      /\ handle[h].status = "none"
      /\ handle' = [handle EXCEPT ![h] = [status |-> "connecting", id |-> id]]
      /\ op' = [op EXCEPT ![t] = [pc |-> "connect", handler |-> h]]
      /\ UNCHANGED <<resource_callbacks, types, subtypes, serving>>
  BY DEF CheckConnect, MayCall
<1>2. VariablesOK'
  BY <1>1 DEF IInv, VariablesOK, IsTable
<1>3. ResourcesOK'
  BY <1>1, ResourcesSame DEF IInv
<1>4. HandlesHaveEntries' /\ HandlesHaveIds'
  BY <1>1 DEF IInv, VariablesOK, HandlesHaveEntries, HandlesHaveIds, IsConnected,
     Entry, Exists, AcceptMap, Connectedness
<1>5. EntriesHaveHandles'
  BY <1>1 DEF IInv, VariablesOK, ResourcesOK, IsMimeMap, InfosOf,
     EntriesHaveHandles, Connectedness
<1>6. OpsOwnHandles'
  BY <1>1 DEF IInv, VariablesOK, OpsOwnHandles
<1>7. HoldersHaveHandles' /\ UsageIsExact'
  BY <1>1 DEF IInv, VariablesOK, HoldersHaveHandles, UsageIsExact, HoldersOf,
     Connectedness
<1>8. QED
  BY <1>2, <1>3, <1>4, <1>5, <1>6, <1>7 DEF IInv

LEMMA DestroyIInv ==
  ASSUME IInv, NEW t \in Threads, NEW h \in Handlers, Destroy(t, h)
  PROVE  IInv'
<1>1. /\ op[t].pc = "idle"
      /\ handle[h].status = "live"
      /\ handle' = [handle EXCEPT ![h] = [handle[h] EXCEPT !.status = "closing"]]
      /\ op' = [op EXCEPT ![t] = [pc |-> "disconnect", handler |-> h]]
      /\ UNCHANGED <<resource_callbacks, types, subtypes, serving>>
  BY DEF Destroy, MayCall
<1>2. VariablesOK'
  BY <1>1, SMTT(30) DEF IInv, VariablesOK, IsTable
<1>3. ResourcesOK'
  BY <1>1, ResourcesSame DEF IInv
<1>4. HandlesHaveEntries' /\ HandlesHaveIds'
  BY <1>1 DEF IInv, VariablesOK, HandlesHaveEntries, HandlesHaveIds, IsConnected,
     Entry, Exists, AcceptMap, Connectedness
<1>5. EntriesHaveHandles'
  BY <1>1 DEF IInv, VariablesOK, ResourcesOK, IsMimeMap, InfosOf,
     EntriesHaveHandles, Connectedness
<1>6. OpsOwnHandles'
  BY <1>1 DEF IInv, VariablesOK, OpsOwnHandles
<1>7. HoldersHaveHandles' /\ UsageIsExact'
  BY <1>1 DEF IInv, VariablesOK, HoldersHaveHandles, UsageIsExact, HoldersOf,
     Connectedness
<1>8. QED
  BY <1>2, <1>3, <1>4, <1>5, <1>6, <1>7 DEF IInv

(* Waiting and waking only move a thread within disconnect. *)
LEMMA MoveIInv ==
  ASSUME IInv, NEW t \in Threads, NEW pc \in {"waiting", "woken"},
         op[t].pc \in {"disconnect", "waiting", "woken"},
         op' = [op EXCEPT ![t] = [op[t] EXCEPT !.pc = pc]],
         UNCHANGED <<resource_callbacks, types, subtypes, handle, serving>>
  PROVE  IInv'
<1>1. VariablesOK'
  BY DEF IInv, VariablesOK, IsTable
<1>2. ResourcesOK'
  BY ResourcesSame DEF IInv
<1>3. OpsOwnHandles'
  BY DEF IInv, VariablesOK, OpsOwnHandles
<1>4. /\ HandlesHaveEntries' /\ HandlesHaveIds' /\ EntriesHaveHandles'
      /\ HoldersHaveHandles' /\ UsageIsExact'
  BY EntriesSame, HoldersSame
<1>5. QED
  BY <1>1, <1>2, <1>3, <1>4 DEF IInv

LEMMA WaitIInv ==
  ASSUME IInv, NEW t \in Threads, Wait(t)
  PROVE  IInv'
  BY MoveIInv DEF Wait, InRound

LEMMA WakeSpuriouslyIInv ==
  ASSUME IInv, NEW t \in Threads, WakeSpuriously(t)
  PROVE  IInv'
  BY MoveIInv DEF WakeSpuriously

(* Entering and leaving the callback keeps the id and the handler. *)
LEMMA CallIInv ==
  ASSUME IInv, NEW p \in Processors, Call(p) \/ Return(p)
  PROVE  IInv'
<1>1. PICK pc \in {"calling", "called"} :
        /\ serving[p].pc # "idle"
        /\ serving' = [serving EXCEPT ![p] = [serving[p] EXCEPT !.pc = pc]]
        /\ UNCHANGED <<resource_callbacks, types, subtypes, handle, op>>
  BY DEF Call, Return
<1>2. VariablesOK'
  BY <1>1 DEF IInv, VariablesOK, IsTable
<1>3. ResourcesOK'
  BY <1>1, ResourcesSame DEF IInv
<1>4. HoldersHaveHandles'
  BY <1>1 DEF IInv, VariablesOK, HoldersHaveHandles
<1>5. UsageIsExact'
  <2>1. \A h : HoldersOf(h)' = HoldersOf(h)
    BY <1>1 DEF IInv, VariablesOK, HoldersOf
  <2>2. QED
    BY <1>1, <2>1 DEF IInv, UsageIsExact
<1>6. HandlesHaveEntries' /\ HandlesHaveIds' /\ EntriesHaveHandles'
  BY <1>1, EntriesSame
<1>7. OpsOwnHandles'
  BY <1>1 DEF IInv, OpsOwnHandles
<1>8. QED
  BY <1>2, <1>3, <1>4, <1>5, <1>6, <1>7 DEF IInv

(* The MIME tables and stuttering. *)
LEMMA TablesIInv ==
  ASSUME IInv, IsTable(types, TypeLimit)', IsTable(subtypes, SubtypeLimit)',
         UNCHANGED <<resource_callbacks, handle, op, serving>>
  PROVE  IInv'
<1>1. VariablesOK'
  BY DEF IInv, VariablesOK
<1>2. ResourcesOK'
  BY ResourcesSame DEF IInv
<1>3. OpsOwnHandles'
  BY DEF IInv, OpsOwnHandles
<1>4. QED
  BY <1>1, <1>2, <1>3, EntriesSame, HoldersSame DEF IInv

LEMMA MimeIInv ==
  ASSUME IInv, NEW t \in Threads, NEW name, NEW value,
         \/ RegisterMimeType(t, name)
         \/ RegisterMimeSubtype(t, name)
         \/ UnregisterMimeType(t, value)
         \/ UnregisterMimeSubtype(t, value)
  PROVE  IInv'
<1>1. IsTable(types, TypeLimit) /\ IsTable(subtypes, SubtypeLimit)
  BY DEF IInv, VariablesOK
<1>2. /\ TypeLimit \in Nat /\ TypeLimit > WILDCARD
      /\ SubtypeLimit \in Nat /\ SubtypeLimit > WILDCARD
  BY LimitAssumption DEF WILDCARD
<1>3. /\ IsTable(RegisterType(types, name, TypeLimit), TypeLimit)
      /\ IsTable(RegisterType(subtypes, name, SubtypeLimit), SubtypeLimit)
      /\ IsTable(UnregisterType(types, value), TypeLimit)
      /\ IsTable(UnregisterType(subtypes, value), SubtypeLimit)
  BY <1>1, <1>2, RegisterTypeOK, UnregisterTypeOK
<1>4. IsTable(types, TypeLimit)' /\ IsTable(subtypes, SubtypeLimit)'
  BY <1>1, <1>3 DEF RegisterMimeType, RegisterMimeSubtype, UnregisterMimeType,
     UnregisterMimeSubtype
<1>5. QED
  BY <1>4, TablesIInv DEF RegisterMimeType, RegisterMimeSubtype,
     UnregisterMimeType, UnregisterMimeSubtype

-----------------------------------------------------------------------------
(* The steps that change an entry, and connect and disconnect.             *)

(* A step changed the infos of one entry, but not its handler. *)
EntryChanged(id, infos) ==
  /\ DOMAIN resource_callbacks' = DOMAIN resource_callbacks
  /\ resource_callbacks'[KeyOf(id)].map[id.accept_type] = infos
  /\ \A k \in DOMAIN resource_callbacks :
       /\ Stored(resource_callbacks'[k]) = Stored(resource_callbacks[k])
       /\ \A type \in Stored(resource_callbacks[k]) :
            /\ resource_callbacks'[k].map[type].handler =
                 resource_callbacks[k].map[type].handler
            /\ k # KeyOf(id) \/ type # id.accept_type =>
                 resource_callbacks'[k].map[type] =
                   resource_callbacks[k].map[type]

LEMMA ChangeEntry ==
  ASSUME IInv, NEW id \in Ids, IsConnected(id),
         NEW n, NEW infos,
         IsMimeMap(n, Mime, Handlers), VectorListsMap(n),
         Changes(AcceptMap(id), n, id.accept_type, infos),
         infos.handler = Entry(id).handler,
         ReplaceAcceptMap(id, n),
         UNCHANGED handle
  PROVE  /\ ResourcesOK' /\ HandlesHaveEntries'
         /\ EntriesHaveHandles' /\ HandlesHaveIds'
         /\ EntryChanged(id, infos)
<1>1. /\ ResourcesOK'
      /\ DOMAIN resource_callbacks' = DOMAIN resource_callbacks \cup {KeyOf(id)}
      /\ resource_callbacks'[KeyOf(id)] = n
      /\ \A k \in DOMAIN resource_callbacks \ {KeyOf(id)} :
           resource_callbacks'[k] = resource_callbacks[k]
  BY ReplaceOK DEF IInv
<1>2. DOMAIN resource_callbacks' = DOMAIN resource_callbacks
  BY <1>1 DEF IsConnected, Exists
<1>3. /\ n.map[id.accept_type] = infos
      /\ Stored(n) = Stored(resource_callbacks[KeyOf(id)])
      /\ \A t \in Stored(n) \ {id.accept_type} :
           n.map[t] = resource_callbacks[KeyOf(id)].map[t]
      /\ infos.handler =
           resource_callbacks[KeyOf(id)].map[id.accept_type].handler
  BY DEF Changes, AcceptMap, Entry
<1>4. \A k \in DOMAIN resource_callbacks :
        /\ Stored(resource_callbacks'[k]) = Stored(resource_callbacks[k])
        /\ \A type \in Stored(resource_callbacks[k]) :
             /\ resource_callbacks'[k].map[type].handler =
                  resource_callbacks[k].map[type].handler
             /\ k # KeyOf(id) \/ type # id.accept_type =>
                  resource_callbacks'[k].map[type] =
                    resource_callbacks[k].map[type]
  BY <1>1, <1>3
<1>5. HandlesHaveEntries'
  BY <1>2, <1>4
  DEF IInv, HandlesHaveEntries, IsConnected, Exists, AcceptMap, Entry
<1>6. EntriesHaveHandles'
  BY <1>2, <1>4 DEF IInv, EntriesHaveHandles
<1>7. HandlesHaveIds'
  BY DEF IInv, HandlesHaveIds
<1>8. QED
  BY <1>1, <1>2, <1>3, <1>4, <1>5, <1>6, <1>7 DEF EntryChanged

(* The counters are exact after it, when its new infos count the holders. *)
LEMMA ChangedUsage ==
  ASSUME IInv, NEW id \in Ids, IsConnected(id), NEW infos,
         EntryChanged(id, infos), UNCHANGED handle,
         infos.usage_counter = Cardinality(HoldersAfter(Entry(id).handler)),
         \A g \in Handlers \ {Entry(id).handler} : HoldersAfter(g) = HoldersOf(g)
  PROVE  UsageIsExact'
<1>1. ASSUME NEW k \in DOMAIN resource_callbacks,
             NEW u \in Stored(resource_callbacks[k])
      PROVE  resource_callbacks'[k].map[u].usage_counter =
               Cardinality(HoldersAfter(resource_callbacks'[k].map[u].handler))
  <2> DEFINE g == resource_callbacks[k].map[u].handler
             h == Entry(id).handler
  <2>1. /\ resource_callbacks'[k].map[u].handler = g
        /\ resource_callbacks[k].map[u].usage_counter =
             Cardinality(HoldersOf(g))
        /\ g \in Handlers
        /\ KeyOf(handle[g].id) = k
        /\ handle[g].id.accept_type = u
    BY DEF IInv, EntryChanged, UsageIsExact, EntriesHaveHandles, ResourcesOK,
       IsMimeMap, InfosOf
  <2>2. CASE k = KeyOf(id) /\ u = id.accept_type
    BY <2>1, <2>2 DEF EntryChanged, Entry, AcceptMap
  <2>3. CASE k # KeyOf(id) \/ u # id.accept_type
    <3>1. /\ KeyOf(handle[h].id) = KeyOf(id)
          /\ handle[h].id.accept_type = id.accept_type
      BY DEF IInv, EntriesHaveHandles, IsConnected, Exists, AcceptMap, Entry
    <3>2. g # h
      BY <2>1, <2>3, <3>1
    <3>3. resource_callbacks'[k].map[u] = resource_callbacks[k].map[u]
      BY <2>3 DEF EntryChanged
    <3>4. QED
      BY <2>1, <3>2, <3>3
  <2>4. QED
    BY <2>2, <2>3
<1>2. QED
  BY <1>1 DEF EntryChanged, UsageIsExact, HoldersOf, HoldersAfter

LEMMA SetEnabledIInv ==
  ASSUME IInv, NEW t \in Threads, NEW h \in Handlers,
         NEW available \in BOOLEAN, SetEnabled(t, h, available)
  PROVE  IInv'
<1> DEFINE id == handle[h].id
           m == AcceptMap(id)
           n == SetAvailability(m, id.accept_type, available)
           infos == [m.map[id.accept_type] EXCEPT !.is_available = available]
<1>1. /\ handle[h].status = "live"
      /\ ReplaceAcceptMap(id, n)
      /\ UNCHANGED <<types, subtypes, handle, op, serving>>
  BY DEF SetEnabled
<1>2. id \in Ids /\ IsConnected(id)
  BY <1>1 DEF IInv, HandlesHaveIds, HandlesHaveEntries, Connectedness
<1>3. IsMimeMap(m, Mime, Handlers) /\ VectorListsMap(m)
  BY <1>2 DEF IInv, ResourcesOK, IsConnected, Exists, AcceptMap
<1>4. /\ IsMimeMap(n, Mime, Handlers)
      /\ VectorListsMap(n)
      /\ Changes(m, n, id.accept_type, infos)
  BY <1>2, <1>3, SetAvailabilityOK DEF IsConnected
<1>5. infos.handler = Entry(id).handler
  BY <1>2, <1>3 DEF Entry, IsMimeMap, InfosOf, IsConnected
<1>6. /\ infos.usage_counter = Entry(id).usage_counter
  BY <1>2, <1>3 DEF Entry, IsMimeMap, InfosOf, IsConnected
<1> HIDE DEF n, infos, id
<1>7. /\ ResourcesOK' /\ HandlesHaveEntries'
      /\ EntriesHaveHandles' /\ HandlesHaveIds'
      /\ EntryChanged(id, infos)
  BY <1>1, <1>2, <1>4, <1>5, ChangeEntry
<1>8. UsageIsExact'
  <2>1. \A g : HoldersAfter(g) = HoldersOf(g)
    BY <1>1 DEF HoldersAfter, HoldersOf
  <2>2. Entry(id).usage_counter = Cardinality(HoldersOf(Entry(id).handler))
    BY <1>2 DEF IInv, UsageIsExact, IsConnected, Exists, AcceptMap, Entry
  <2>3. QED
    BY <1>1, <1>2, <1>6, <1>7, <2>1, <2>2, ChangedUsage
<1>9. VariablesOK' /\ OpsOwnHandles' /\ HoldersHaveHandles'
  BY <1>1 DEF IInv, VariablesOK, OpsOwnHandles, HoldersHaveHandles, IsTable
<1>10. QED
  BY <1>7, <1>8, <1>9 DEF IInv

(***************************************************************************)
(* determine_request_handler counts the holder it makes.                   *)
(***************************************************************************)
LEMMA DetermineIInv ==
  ASSUME IInv, NEW p \in Processors, NEW request \in Requests,
         Determine(p, request)
  PROVE  IInv'
<1> DEFINE key == KeyOf(request)
           m == resource_callbacks[key]
           idOf(type) == [path |-> key.path, method |-> key.method,
                          content_type |-> key.content_type,
                          accept_type |-> type]
<1>1. PICK type \in Lookup(request.accept, m) :
        /\ serving[p].pc = "idle"
        /\ key \in DOMAIN resource_callbacks
        /\ ReplaceAcceptMap(idOf(type), IncreaseUsage(m, type))
        /\ serving' = [serving EXCEPT ![p] =
                         [pc |-> "holding", id |-> idOf(type),
                          handler |-> m.map[type].handler]]
        /\ UNCHANGED <<types, subtypes, handle, op>>
  BY DEF Determine
<1> DEFINE h == m.map[type].handler
           id == handle[h].id
           n == IncreaseUsage(m, type)
           infos == [m.map[type] EXCEPT
                       !.usage_counter = m.map[type].usage_counter + 1]
<1>2. type \in Stored(m)
  <2>1. PICK accepted : type \in Find(m, accepted)
    BY DEF Lookup
  <2>2. QED
    BY <2>1, FindReturnsStored
<1>3. /\ IsMimeMap(m, Mime, Handlers) /\ VectorListsMap(m)
      /\ m.map[type] \in InfosOf(Handlers)
  BY <1>1, <1>2 DEF IInv, ResourcesOK, IsMimeMap
<1>4. /\ h \in Handlers
      /\ handle[h].status \in Connectedness
      /\ KeyOf(id) = key
      /\ id.accept_type = type
      /\ id \in Ids
  <2>1. /\ h \in Handlers
        /\ handle[h].status \in Connectedness
        /\ KeyOf(id) = key
        /\ id.accept_type = type
    BY <1>1, <1>2, <1>3 DEF IInv, EntriesHaveHandles, InfosOf
  <2>2. id \in Ids
    BY <2>1 DEF IInv, HandlesHaveIds, Connectedness
  <2>3. QED
    BY <2>1, <2>2
<1>5. idOf(type) = id
  BY <1>4, IdFacts
<1>6. IsConnected(id) /\ AcceptMap(id) = m /\ Entry(id) = m.map[type]
  BY <1>1, <1>2, <1>4 DEF IsConnected, Exists, AcceptMap, Entry
<1>7. /\ IsMimeMap(n, Mime, Handlers)
      /\ VectorListsMap(n)
      /\ Changes(m, n, type, infos)
  BY <1>2, <1>3, IncreaseUsageOK
<1>8. /\ infos.handler = Entry(id).handler
      /\ infos.usage_counter = m.map[type].usage_counter + 1
  BY <1>3, <1>6 DEF InfosOf
<1> HIDE DEF n, infos, h, id, key, idOf, m
<1>9. /\ ResourcesOK' /\ HandlesHaveEntries'
      /\ EntriesHaveHandles' /\ HandlesHaveIds'
      /\ EntryChanged(id, infos)
  <2>1. ReplaceAcceptMap(id, n)
    BY <1>1, <1>5 DEF n
  <2>2. Changes(AcceptMap(id), n, id.accept_type, infos)
    BY <1>4, <1>6, <1>7
  <2>3. QED
    BY <1>1, <1>4, <1>6, <1>7, <1>8, <2>1, <2>2, ChangeEntry
<1>10. /\ serving' = [serving EXCEPT ![p] =
                        [pc |-> "holding", id |-> id, handler |-> h]]
       /\ serving[p].handler = NoHandler
       /\ h # NoHandler
  BY <1>1, <1>4, <1>5, IdAssumption DEF IInv, HoldersHaveHandles, h
<1>11. UsageIsExact'
  <2>1. /\ HoldersAfter(h) = HoldersOf(h) \cup {p}
        /\ p \notin HoldersOf(h)
        /\ \A g \in Handlers \ {h} : HoldersAfter(g) = HoldersOf(g)
    <3>1. \A q \in Processors :
            serving'[q].handler = IF q = p THEN h ELSE serving[q].handler
      BY <1>10 DEF IInv, VariablesOK
    <3>2. \A g \in Handlers : g # NoHandler
      BY IdAssumption
    <3>3. QED
      BY <1>10, <3>1, <3>2, SMTT(30) DEF HoldersOf, HoldersAfter
  <2>2. Cardinality(HoldersAfter(h)) = Cardinality(HoldersOf(h)) + 1
    BY <2>1, HoldersFinite, FS_AddElement
  <2>3. infos.usage_counter = Cardinality(HoldersOf(h)) + 1
    <3>1. m.map[type].usage_counter = Cardinality(HoldersOf(h))
      BY <1>1, <1>2 DEF IInv, UsageIsExact, m, h
    <3>2. QED
      BY <1>8, <3>1
  <2>4. QED
    BY <1>1, <1>4, <1>6, <1>9, <2>1, <2>2, <2>3, ChangedUsage DEF h
<1>12. VariablesOK'
  BY <1>1, <1>4, <1>10 DEF IInv, VariablesOK, IsTable
<1>13. HoldersHaveHandles'
  BY <1>1, <1>4, <1>10 DEF IInv, VariablesOK, HoldersHaveHandles, id
<1>14. OpsOwnHandles'
  BY <1>1 DEF IInv, OpsOwnHandles
<1>15. QED
  BY <1>9, <1>11, <1>12, <1>13, <1>14 DEF IInv

(***************************************************************************)
(* The destructor of a holder finds the entry, with a counter that is not  *)
(* zero, and gives its count back.                                         *)
(***************************************************************************)
LEMMA ReleaseIInv ==
  ASSUME IInv, NEW p \in Processors, Release(p)
  PROVE  IInv'
<1> DEFINE id == serving[p].id
           h == serving[p].handler
           m == AcceptMap(id)
           n == DecreaseUsage(m, id.accept_type)
           infos == [m.map[id.accept_type] EXCEPT
                       !.usage_counter = m.map[id.accept_type].usage_counter - 1]
<1>1. /\ serving[p].pc # "idle"
      /\ serving' = [serving EXCEPT ![p] = Idle]
      /\ UNCHANGED <<types, subtypes, handle>>
  BY DEF Release
<1>2. /\ h \in Handlers
      /\ id \in Ids
      /\ IsConnected(id)
      /\ Entry(id).handler = h
  BY <1>1 DEF IInv, HoldersHaveHandles, HandlesHaveIds, HandlesHaveEntries,
     Connectedness
<1>3. ReplaceAcceptMap(id, n) /\ NotifyOne
  BY <1>2 DEF Release, IsConnected
<1>4. /\ IsMimeMap(m, Mime, Handlers) /\ VectorListsMap(m)
      /\ id.accept_type \in Stored(m)
      /\ Entry(id) = m.map[id.accept_type]
      /\ Entry(id) \in InfosOf(Handlers)
  BY <1>2 DEF IInv, ResourcesOK, IsConnected, Exists, AcceptMap, Entry, IsMimeMap
<1>5. /\ HoldersAfter(h) = HoldersOf(h) \ {p}
      /\ p \in HoldersOf(h)
      /\ \A g \in Handlers \ {h} : HoldersAfter(g) = HoldersOf(g)
  <2>1. \A q \in Processors :
          serving'[q].handler = IF q = p THEN NoHandler ELSE serving[q].handler
    BY <1>1 DEF IInv, VariablesOK, Idle
  <2>2. \A g \in Handlers : g # NoHandler
    BY IdAssumption
  <2>3. QED
    BY <1>2, <2>1, <2>2 DEF HoldersOf, HoldersAfter
<1>6. /\ Entry(id).usage_counter = Cardinality(HoldersOf(h))
      /\ Entry(id).usage_counter # 0
      /\ Entry(id).usage_counter - 1 = Cardinality(HoldersAfter(h))
  <2>1. Entry(id).usage_counter = Cardinality(HoldersOf(h))
    BY <1>2 DEF IInv, UsageIsExact, IsConnected, Exists, AcceptMap, Entry
  <2>2. /\ IsFiniteSet(HoldersAfter(h))
        /\ Cardinality(HoldersAfter(h)) = Cardinality(HoldersOf(h)) - 1
    BY <1>5, HoldersFinite, FS_RemoveElement
  <2>3. /\ Cardinality(HoldersAfter(h)) \in Nat
        /\ Cardinality(HoldersOf(h)) \in Nat
    BY <2>2, HoldersFinite, FS_CardinalityType
  <2>4. QED
    BY <2>1, <2>2, <2>3
<1>7. /\ IsMimeMap(n, Mime, Handlers)
      /\ VectorListsMap(n)
      /\ Changes(m, n, id.accept_type, infos)
  BY <1>4, <1>6, DecreaseUsageOK
<1>8. /\ infos.handler = Entry(id).handler
      /\ infos.usage_counter = Entry(id).usage_counter - 1
  BY <1>4 DEF InfosOf
<1> HIDE DEF n, infos, h, id, m
<1>9. /\ ResourcesOK' /\ HandlesHaveEntries'
      /\ EntriesHaveHandles' /\ HandlesHaveIds'
      /\ EntryChanged(id, infos)
  BY <1>1, <1>2, <1>3, <1>7, <1>8, ChangeEntry DEF m
<1>10. UsageIsExact'
  BY <1>1, <1>2, <1>5, <1>6, <1>8, <1>9, ChangedUsage
<1>11. /\ op' \in [Threads -> [pc : {"idle", "connect", "disconnect",
                                     "waiting", "woken"},
                               handler : Handlers \cup {NoHandler}]]
       /\ \A t \in Threads :
            /\ op'[t].handler = op[t].handler
            /\ op'[t].pc = op[t].pc \/ {op[t].pc, op'[t].pc} = {"waiting", "woken"}
  BY <1>3 DEF IInv, VariablesOK, NotifyOne, Waiting
<1>12. VariablesOK'
  BY <1>1, <1>11 DEF IInv, VariablesOK, IsTable, Idle
<1>13. OpsOwnHandles'
  <2>1. \A t \in Threads : /\ op'[t].pc = "idle" <=> op[t].pc = "idle"
                           /\ op'[t].pc = "connect" <=> op[t].pc = "connect"
    BY <1>11
  <2>2. QED
    BY <1>1, <1>11, <2>1 DEF IInv, OpsOwnHandles
<1>14. HoldersHaveHandles'
  BY <1>1 DEF IInv, VariablesOK, HoldersHaveHandles, Idle
<1>15. QED
  BY <1>9, <1>10, <1>12, <1>13, <1>14 DEF IInv

(***************************************************************************)
(* connect either adds an entry for the object it returns, or leaves the   *)
(* entries alone and returns none.                                         *)
(***************************************************************************)
LEMMA ConnectIInv ==
  ASSUME IInv, NEW t \in Threads, Connect(t)
  PROVE  IInv'
<1> DEFINE h == op[t].handler
           id == handle[h].id
           m == IF Exists(id) THEN AcceptMap(id) ELSE EmptyMimeMap
<1>1. /\ op[t].pc = "connect"
      /\ op' = [op EXCEPT ![t] = [pc |-> "idle", handler |-> NoHandler]]
      /\ UNCHANGED <<types, subtypes, serving>>
  BY DEF Connect
<1>2. /\ h \in Handlers
      /\ handle[h].status = "connecting"
      /\ id \in Ids
  BY <1>1 DEF IInv, OpsOwnHandles, HandlesHaveIds
<1>3. /\ KeyOf(id) \in Keys
      /\ id.accept_type \in Mime
  BY <1>2, IdFacts
<1>4. IsMimeMap(m, Mime, Handlers) /\ VectorListsMap(m)
  <2>1. CASE Exists(id)
    BY <2>1 DEF IInv, ResourcesOK, Exists, AcceptMap
  <2>2. CASE ~Exists(id)
    BY <2>2, EmptyMapOK
  <2>3. QED
    BY <2>1, <2>2
<1>5. OpsOwnHandles'
  <2>1. \A u \in Threads \ {t} : op[u].pc # "idle" => op[u].handler # h
    BY <1>1 DEF IInv, OpsOwnHandles
  <2>2. \A g \in Handlers \ {h} : handle'[g] = handle[g]
    BY DEF Connect, IInv, VariablesOK
  <2>3. QED
    BY <1>1, <2>1, <2>2 DEF IInv, VariablesOK, OpsOwnHandles
<1>6. /\ HoldersOf(h) = {}
      /\ HoldersHaveHandles'
  <2>1. \A p \in Processors : serving[p].handler # h
    BY <1>2, IdAssumption DEF IInv, HoldersHaveHandles, Connectedness
  <2>2. \A g \in Handlers \ {h} : handle'[g] = handle[g]
    BY DEF Connect, IInv, VariablesOK
  <2>3. QED
    BY <1>1, <2>1, <2>2 DEF IInv, HoldersHaveHandles, HoldersOf
<1>7. \A k \in DOMAIN resource_callbacks :
        \A type \in Stored(resource_callbacks[k]) :
          resource_callbacks[k].map[type].handler \in Handlers \ {h}
  BY <1>2 DEF IInv, ResourcesOK, IsMimeMap, InfosOf, EntriesHaveHandles,
     Connectedness
<1>8. CASE /\ CanInsert(m, id.accept_type)
           /\ ReplaceAcceptMap(id, Insert(m, id.accept_type, h))
           /\ handle' = [handle EXCEPT ![h].status = "live"]
  <2> DEFINE n == Insert(m, id.accept_type, h)
             infos == [handler |-> h, usage_counter |-> 0, is_available |-> TRUE]
  <2>1. /\ IsMimeMap(n, Mime, Handlers)
        /\ VectorListsMap(n)
        /\ Stored(n) = Stored(m) \cup {id.accept_type}
        /\ n.map[id.accept_type] = infos
        /\ \A type \in Stored(m) : n.map[type] = m.map[type]
        /\ id.accept_type \notin Stored(m)
    <3> HIDE DEF m, id, h
    <3>1. QED
      BY <1>2, <1>3, <1>4, <1>8, InsertOK DEF CanInsert
  <2>2. ReplaceAcceptMap(id, n)
    BY <1>8
  <2> HIDE DEF n
  <2>3. /\ ResourcesOK'
        /\ DOMAIN resource_callbacks' =
             DOMAIN resource_callbacks \cup {KeyOf(id)}
        /\ resource_callbacks'[KeyOf(id)] = n
        /\ \A k \in DOMAIN resource_callbacks \ {KeyOf(id)} :
             resource_callbacks'[k] = resource_callbacks[k]
    BY <1>2, <2>1, <2>2, ReplaceOK DEF IInv
  <2>4. IF Exists(id) THEN m = resource_callbacks[KeyOf(id)] ELSE Stored(m) = {}
    BY EmptyMapOK DEF AcceptMap
  <2> HIDE DEF m
  <2>5. /\ handle'[h].status = "live" /\ handle'[h].id = id
        /\ \A g \in Handlers \ {h} : handle'[g] = handle[g]
    BY <1>2, <1>8 DEF IInv, VariablesOK
  <2> HIDE DEF h, id
  <2>6. HandlesHaveEntries'
    <3>1. ASSUME NEW g \in Handlers \ {h}, handle[g].status \in Connectedness
          PROVE  /\ KeyOf(handle[g].id) \in DOMAIN resource_callbacks'
                 /\ handle[g].id.accept_type \in
                      Stored(resource_callbacks'[KeyOf(handle[g].id)])
                 /\ resource_callbacks'[KeyOf(handle[g].id)]
                      .map[handle[g].id.accept_type].handler = g
      BY <2>1, <2>3, <2>4, <3>1
      DEF IInv, HandlesHaveEntries, IsConnected, Exists, AcceptMap, Entry
    <3>2. /\ KeyOf(id) \in DOMAIN resource_callbacks'
          /\ id.accept_type \in Stored(resource_callbacks'[KeyOf(id)])
          /\ resource_callbacks'[KeyOf(id)].map[id.accept_type].handler = h
      BY <2>1, <2>3
    <3>3. QED
      BY <2>5, <3>1, <3>2
      DEF HandlesHaveEntries, IsConnected, Exists, AcceptMap, Entry
  <2>7. ASSUME NEW k \in DOMAIN resource_callbacks',
               NEW type \in Stored(resource_callbacks'[k])
        PROVE  \/ /\ k = KeyOf(id) /\ type = id.accept_type
                  /\ resource_callbacks'[k].map[type] = infos
               \/ /\ k \in DOMAIN resource_callbacks
                  /\ type \in Stored(resource_callbacks[k])
                  /\ resource_callbacks'[k].map[type] =
                       resource_callbacks[k].map[type]
    BY <2>1, <2>3, <2>4 DEF Exists
  <2>8. EntriesHaveHandles'
    BY <1>2, <1>7, <2>5, <2>7 DEF IInv, EntriesHaveHandles, Connectedness
  <2>9. UsageIsExact'
    <3>1. Cardinality(HoldersOf(h)) = 0
      BY <1>6, FS_EmptySet
    <3>2. \A g : HoldersAfter(g) = HoldersOf(g)
      BY <1>1 DEF HoldersOf, HoldersAfter
    <3>3. ASSUME NEW k \in DOMAIN resource_callbacks',
                 NEW type \in Stored(resource_callbacks'[k])
          PROVE  resource_callbacks'[k].map[type].usage_counter =
                   Cardinality(HoldersAfter(
                     resource_callbacks'[k].map[type].handler))
      BY <2>7, <3>1, <3>2 DEF IInv, UsageIsExact
    <3>4. QED
      BY <3>3 DEF UsageIsExact, HoldersOf, HoldersAfter
  <2>10. VariablesOK' /\ HandlesHaveIds'
    BY <1>1, <1>2, <1>8 DEF IInv, VariablesOK, HandlesHaveIds, IsTable, h, id
  <2>11. QED
    BY <1>5, <1>6, <2>3, <2>6, <2>8, <2>9, <2>10 DEF IInv
<1>9. CASE /\ ReplaceAcceptMap(id, m)
           /\ handle' = [handle EXCEPT ![h] = [status |-> "none", id |-> NoId]]
  <2>1. /\ ResourcesOK'
        /\ DOMAIN resource_callbacks' =
             DOMAIN resource_callbacks \cup {KeyOf(id)}
        /\ resource_callbacks'[KeyOf(id)] = m
        /\ \A k \in DOMAIN resource_callbacks \ {KeyOf(id)} :
             resource_callbacks'[k] = resource_callbacks[k]
    BY <1>2, <1>4, <1>9, ReplaceOK DEF IInv
  <2>2. IF Exists(id) THEN m = resource_callbacks[KeyOf(id)] ELSE Stored(m) = {}
    BY EmptyMapOK DEF AcceptMap
  <2>3. \A k \in DOMAIN resource_callbacks :
          resource_callbacks'[k] = resource_callbacks[k]
    BY <2>1, <2>2 DEF Exists
  <2>4. \A k \in DOMAIN resource_callbacks' :
          \A type \in Stored(resource_callbacks'[k]) :
            k \in DOMAIN resource_callbacks
    BY <2>1, <2>2 DEF Exists
  <2>5. /\ handle'[h].status = "none"
        /\ \A g \in Handlers \ {h} : handle'[g] = handle[g]
    BY <1>2, <1>9 DEF IInv, VariablesOK
  <2> HIDE DEF h, id, m
  <2>6. HandlesHaveEntries'
    BY <2>1, <2>3, <2>5 DEF IInv, HandlesHaveEntries, IsConnected, Exists,
       AcceptMap, Entry, Connectedness
  <2>7. EntriesHaveHandles'
    BY <1>7, <2>3, <2>4, <2>5 DEF IInv, EntriesHaveHandles
  <2>8. UsageIsExact'
    BY <1>1, <2>3, <2>4 DEF IInv, UsageIsExact, HoldersOf
  <2>9. VariablesOK' /\ HandlesHaveIds'
    BY <1>1, <1>2, <1>9 DEF IInv, VariablesOK, HandlesHaveIds, IsTable, h, id
  <2>10. QED
    BY <1>5, <1>6, <2>1, <2>6, <2>7, <2>8, <2>9 DEF IInv
<1>10. QED
  BY <1>8, <1>9 DEF Connect

(***************************************************************************)
(* disconnect finds the entry and erases it, when nobody holds it; the     *)
(* resource goes with its last entry.                                      *)
(***************************************************************************)
LEMMA EraseFacts ==
  ASSUME IInv, NEW t \in Threads, EraseHandler(t)
  PROVE  LET h  == op[t].handler
             id == handle[h].id
             m  == AcceptMap(id)
             n  == Erase(m, id.accept_type)
         IN  /\ handle' = [handle EXCEPT ![h] = [status |-> "none", id |-> NoId]]
             /\ op' = [op EXCEPT ![t] = [pc |-> "idle", handler |-> NoHandler]]
             /\ UNCHANGED <<types, subtypes, serving>>
             /\ op[t].pc \in {"disconnect", "woken"}
             /\ h \in Handlers
             /\ handle[h].status = "closing"
             /\ id \in Ids
             /\ Exists(id)
             /\ Entry(id).handler = h
             /\ HoldersOf(h) = {}
             /\ m = resource_callbacks[KeyOf(id)]
             /\ id.accept_type \in Stored(m)
             /\ IsMimeMap(m, Mime, Handlers) /\ VectorListsMap(m)
             /\ IsMimeMap(n, Mime, Handlers) /\ VectorListsMap(n)
             /\ Stored(n) = Stored(m) \ {id.accept_type}
             /\ \A type \in Stored(n) : n.map[type] = m.map[type]
             /\ ResourcesOK'
             /\ \A k \in DOMAIN resource_callbacks \ {KeyOf(id)} :
                  k \in DOMAIN resource_callbacks' /\
                    resource_callbacks'[k] = resource_callbacks[k]
             /\ \A k \in DOMAIN resource_callbacks' :
                  IF k = KeyOf(id) THEN resource_callbacks'[k] = n
                                   ELSE k \in DOMAIN resource_callbacks
             /\ Stored(n) # {} => KeyOf(id) \in DOMAIN resource_callbacks'
<1> DEFINE h == op[t].handler
           id == handle[h].id
           m == AcceptMap(id)
           n == Erase(m, id.accept_type)
<1>1. /\ op[t].pc \in {"disconnect", "woken"}
      /\ ~MustWait(t, id)
      /\ handle' = [handle EXCEPT ![h] = [status |-> "none", id |-> NoId]]
      /\ op' = [op EXCEPT ![t] = [pc |-> "idle", handler |-> NoHandler]]
      /\ UNCHANGED <<types, subtypes, serving>>
  BY DEF EraseHandler, InRound
<1>2. /\ h \in Handlers
      /\ handle[h].status = "closing"
      /\ id \in Ids
      /\ IsConnected(id)
      /\ Entry(id).handler = h
  BY <1>1 DEF IInv, OpsOwnHandles, HandlesHaveIds, HandlesHaveEntries,
     Connectedness
<1>3. /\ Exists(id)
      /\ id.accept_type \in Stored(m)
      /\ IsMimeMap(m, Mime, Handlers) /\ VectorListsMap(m)
      /\ m = resource_callbacks[KeyOf(id)]
  BY <1>2 DEF IInv, ResourcesOK, IsConnected, Exists, AcceptMap
<1>4. /\ ~FindsEmptyMap(t, id)
      /\ CanErase(m, id.accept_type)
      /\ resource_callbacks' = WithoutHandler(id)
  BY <1>1, <1>3 DEF FindsEmptyMap, MustWait, EraseHandler
<1>5. HoldersOf(h) = {}
  <2>1. Cardinality(HoldersOf(h)) = 0
    BY <1>2, <1>4 DEF IInv, UsageIsExact, IsConnected, Exists, AcceptMap, Entry,
       CanErase
  <2>2. QED
    BY <2>1, HoldersFinite, FS_EmptySet
<1>6. /\ IsMimeMap(n, Mime, Handlers)
      /\ VectorListsMap(n)
      /\ Stored(n) = Stored(m) \ {id.accept_type}
      /\ \A type \in Stored(n) : n.map[type] = m.map[type]
  <2> DEFINE type == id.accept_type
  <2>1. /\ IsMimeMap(m, Mime, Handlers) /\ VectorListsMap(m)
        /\ type \in Stored(m)
    BY <1>3
  <2> HIDE DEF m, id, n, type
  <2>2. n = Erase(m, type)
    BY DEF n, type
  <2>3. QED
    BY <2>1, <2>2, EraseOK DEF type
<1> HIDE DEF n
<1>7. /\ ResourcesOK'
      /\ \A k \in DOMAIN resource_callbacks \ {KeyOf(id)} :
           k \in DOMAIN resource_callbacks' /\
             resource_callbacks'[k] = resource_callbacks[k]
      /\ \A k \in DOMAIN resource_callbacks' :
           IF k = KeyOf(id) THEN resource_callbacks'[k] = n
                            ELSE k \in DOMAIN resource_callbacks
      /\ Stored(n) # {} => KeyOf(id) \in DOMAIN resource_callbacks'
  <2>1. CASE Stored(n) = {}
    <3>1. resource_callbacks' = Without(resource_callbacks, {KeyOf(id)})
      BY <1>4, <2>1 DEF WithoutHandler, n
    <3>2. QED
      BY <2>1, <3>1, RemoveOK DEF IInv
  <2>2. CASE Stored(n) # {}
    <3>1. ReplaceAcceptMap(id, n)
      BY <1>4, <2>2 DEF WithoutHandler, ReplaceAcceptMap, n
    <3>2. /\ ResourcesOK'
          /\ DOMAIN resource_callbacks' =
               DOMAIN resource_callbacks \cup {KeyOf(id)}
          /\ resource_callbacks'[KeyOf(id)] = n
          /\ \A k \in DOMAIN resource_callbacks \ {KeyOf(id)} :
               resource_callbacks'[k] = resource_callbacks[k]
      BY <1>2, <1>6, <3>1, ReplaceOK DEF IInv
    <3>3. QED
      BY <2>2, <3>2
  <2>3. QED
    BY <2>1, <2>2
<1>8. QED
  BY <1>1, <1>2, <1>3, <1>5, <1>6, <1>7 DEF n

(* The object and its entry go together, and nobody holds the object. *)
LEMMA EraseHandlerIInv ==
  ASSUME IInv, NEW t \in Threads, EraseHandler(t)
  PROVE  IInv'
<1> DEFINE h == op[t].handler
           id == handle[h].id
           m == AcceptMap(id)
           n == Erase(m, id.accept_type)
<1>1. /\ handle' = [handle EXCEPT ![h] = [status |-> "none", id |-> NoId]]
      /\ op' = [op EXCEPT ![t] = [pc |-> "idle", handler |-> NoHandler]]
      /\ UNCHANGED <<types, subtypes, serving>>
      /\ op[t].pc \in {"disconnect", "woken"}
      /\ h \in Handlers
      /\ handle[h].status = "closing"
      /\ id \in Ids
      /\ Exists(id)
      /\ Entry(id).handler = h
      /\ HoldersOf(h) = {}
      /\ m = resource_callbacks[KeyOf(id)]
      /\ id.accept_type \in Stored(m)
      /\ IsMimeMap(m, Mime, Handlers) /\ VectorListsMap(m)
      /\ IsMimeMap(n, Mime, Handlers) /\ VectorListsMap(n)
      /\ Stored(n) = Stored(m) \ {id.accept_type}
      /\ \A type \in Stored(n) : n.map[type] = m.map[type]
      /\ ResourcesOK'
      /\ \A k \in DOMAIN resource_callbacks \ {KeyOf(id)} :
           k \in DOMAIN resource_callbacks' /\
             resource_callbacks'[k] = resource_callbacks[k]
      /\ \A k \in DOMAIN resource_callbacks' :
           IF k = KeyOf(id) THEN resource_callbacks'[k] = n
                            ELSE k \in DOMAIN resource_callbacks
      /\ Stored(n) # {} => KeyOf(id) \in DOMAIN resource_callbacks'
  BY EraseFacts
<1> HIDE DEF n
<1>2. /\ handle'[h].status = "none"
      /\ \A g \in Handlers \ {h} : handle'[g] = handle[g]
  BY <1>1 DEF IInv, VariablesOK
<1>3. ASSUME NEW k \in DOMAIN resource_callbacks',
             NEW type \in Stored(resource_callbacks'[k])
      PROVE  /\ k \in DOMAIN resource_callbacks
             /\ type \in Stored(resource_callbacks[k])
             /\ resource_callbacks'[k].map[type] =
                  resource_callbacks[k].map[type]
             /\ resource_callbacks[k].map[type].handler \in Handlers \ {h}
  <2>1. /\ k \in DOMAIN resource_callbacks
        /\ type \in Stored(resource_callbacks[k])
        /\ resource_callbacks'[k].map[type] = resource_callbacks[k].map[type]
        /\ k # KeyOf(id) \/ type # id.accept_type
    BY <1>1 DEF Exists
  <2>2. /\ resource_callbacks[k].map[type].handler \in Handlers
        /\ KeyOf(handle[resource_callbacks[k].map[type].handler].id) = k
        /\ handle[resource_callbacks[k].map[type].handler].id.accept_type = type
    BY <2>1 DEF IInv, ResourcesOK, IsMimeMap, InfosOf, EntriesHaveHandles
  <2>3. QED
    BY <2>1, <2>2
<1> HIDE DEF m
<1>4. HandlesHaveEntries'
  <2>1. ASSUME NEW g \in Handlers \ {h}, handle[g].status \in Connectedness
        PROVE  /\ KeyOf(handle[g].id) \in DOMAIN resource_callbacks'
               /\ handle[g].id.accept_type \in
                    Stored(resource_callbacks'[KeyOf(handle[g].id)])
               /\ resource_callbacks'[KeyOf(handle[g].id)]
                    .map[handle[g].id.accept_type].handler = g
    <3> DEFINE k == KeyOf(handle[g].id)
               type == handle[g].id.accept_type
    <3>1. /\ k \in DOMAIN resource_callbacks
          /\ type \in Stored(resource_callbacks[k])
          /\ resource_callbacks[k].map[type].handler = g
      BY <2>1 DEF IInv, HandlesHaveEntries, IsConnected, Exists, AcceptMap, Entry
    <3>2. k # KeyOf(id) \/ type # id.accept_type
      BY <1>1, <3>1 DEF Entry, AcceptMap
    <3> HIDE DEF k, type, id, h
    <3>3. k = KeyOf(id) => type \in Stored(n) /\ n.map[type].handler = g
      BY <1>1, <3>1, <3>2
    <3>4. /\ k \in DOMAIN resource_callbacks'
          /\ type \in Stored(resource_callbacks'[k])
          /\ resource_callbacks'[k].map[type].handler = g
      BY <1>1, <3>1, <3>3
    <3>5. QED
      BY <3>4 DEF k, type
  <2>2. QED
    BY <1>2, <2>1 DEF HandlesHaveEntries, IsConnected, Exists, AcceptMap, Entry,
       Connectedness
<1>5. EntriesHaveHandles'
  BY <1>2, <1>3 DEF IInv, EntriesHaveHandles
<1>6. UsageIsExact'
  <2>1. UNCHANGED serving
    BY <1>1
  <2>2. QED
    BY <1>3, <2>1 DEF IInv, UsageIsExact, HoldersOf
<1>7. HoldersHaveHandles'
  <2>1. UNCHANGED serving /\ HoldersOf(h) = {}
    BY <1>1
  <2>2. QED
    BY <1>2, <2>1 DEF IInv, HoldersHaveHandles, HoldersOf
<1>8. OpsOwnHandles'
  <2>1. \A u \in Threads \ {t} : op[u].pc # "idle" => op[u].handler # h
    BY <1>1 DEF IInv, OpsOwnHandles
  <2>2. QED
    BY <1>1, <1>2, <2>1, ZenonT(60) DEF IInv, VariablesOK, OpsOwnHandles
<1>9. VariablesOK' /\ HandlesHaveIds'
  BY <1>1 DEF IInv, VariablesOK, HandlesHaveIds, IsTable
<1>10. QED
  BY <1>1, <1>4, <1>5, <1>6, <1>7, <1>8, <1>9 DEF IInv

-----------------------------------------------------------------------------
(* The invariant, and what follows from it.                                *)

LEMMA Inductive == IInv /\ [Next]_vars => IInv'
<1> SUFFICES ASSUME IInv, [Next]_vars
             PROVE  IInv'
  OBVIOUS
<1>1. ASSUME NEW p \in Processors, NEW request \in Requests,
             Determine(p, request)
      PROVE  IInv'
  BY <1>1, DetermineIInv
<1>2. ASSUME NEW p \in Processors, Call(p) \/ Return(p)
      PROVE  IInv'
  BY <1>2, CallIInv
<1>3. ASSUME NEW p \in Processors, Release(p)
      PROVE  IInv'
  BY <1>3, ReleaseIInv
<1>4. ASSUME NEW t \in Controllers, Control(t)
      PROVE  IInv'
  <2>1. t \in Threads
    BY DEF Threads
  <2>2. ASSUME NEW h \in Handlers, NEW id \in Ids, CheckConnect(t, h, id)
        PROVE  IInv'
    BY <2>1, <2>2, CheckConnectIInv
  <2>3. ASSUME NEW h \in Handlers, Disable(t, h) \/ Enable(t, h)
        PROVE  IInv'
    BY <2>1, <2>3, SetEnabledIInv DEF Disable, Enable
  <2>4. ASSUME NEW h \in Handlers, Destroy(t, h)
        PROVE  IInv'
    BY <2>1, <2>4, DestroyIInv
  <2>5. CASE Connect(t)
    BY <2>1, <2>5, ConnectIInv
  <2>6. CASE Disconnect(t)
    BY <2>1, <2>6, EraseHandlerIInv, WaitIInv DEF Disconnect
  <2>7. CASE WakeSpuriously(t)
    BY <2>1, <2>7, WakeSpuriouslyIInv
  <2>8. ASSUME NEW name, RegisterMimeType(t, name) \/ RegisterMimeSubtype(t, name)
        PROVE  IInv'
    BY <2>1, <2>8, MimeIInv
  <2>9. ASSUME NEW value,
               UnregisterMimeType(t, value) \/ UnregisterMimeSubtype(t, value)
        PROVE  IInv'
    BY <2>1, <2>9, MimeIInv
  <2>10. QED
    BY <1>4, <2>2, <2>3, <2>4, <2>5, <2>6, <2>7, <2>8, <2>9 DEF Control
<1>5. CASE UNCHANGED vars
  <2>1. UNCHANGED <<resource_callbacks, types, subtypes, handle, op, serving>>
    BY <1>5 DEF vars
  <2>2. IsTable(types, TypeLimit)' /\ IsTable(subtypes, SubtypeLimit)'
    BY <2>1 DEF IInv, VariablesOK
  <2>3. QED
    BY <2>1, <2>2, TablesIInv
<1>6. QED
  BY <1>1, <1>2, <1>3, <1>4, <1>5 DEF Next, Process

(***************************************************************************)
(* The handler objects, the resource map and the holders stay consistent   *)
(* under every interleaving of connect, disconnect, disable, enable,       *)
(* determine_request_handler and the destructors of the holders.           *)
(***************************************************************************)
THEOREM Invariance == Spec => []IInv
<1>1. Init => IInv
  BY InitIInv
<1>2. IInv /\ [Next]_vars => IInv'
  BY Inductive
<1>3. QED
  BY <1>1, <1>2, PTL DEF Spec

(* The members of the demultiplexer keep their types. *)
THEOREM TypeCorrect == Spec => []TypeOK
<1>1. IInv => TypeOK
  BY DEF IInv, VariablesOK, ResourcesOK, TypeOK
<1>2. QED
  BY <1>1, Invariance, PTL

(* The two containers of every ordered MIME map list the same types. *)
THEOREM VectorsCorrect == Spec => []VectorsListMaps
<1>1. IInv => VectorsListMaps
  BY DEF IInv, ResourcesOK, VectorsListMaps
<1>2. QED
  BY <1>1, Invariance, PTL

(***************************************************************************)
(* connect and the destructor of the handler object keep the objects and   *)
(* the entries of the resource map in step.                                *)
(***************************************************************************)
THEOREM EntriesCorrect == Spec => []EntriesBelongToHandles
<1>1. ASSUME IInv, NEW id \in Ids, IsConnected(id)
      PROVE  /\ handle[Entry(id).handler].status \in Connectedness
             /\ handle[Entry(id).handler].id = id
  <2> DEFINE h == Entry(id).handler
  <2>1. /\ h \in Handlers
        /\ handle[h].status \in Connectedness
        /\ KeyOf(handle[h].id) = KeyOf(id)
        /\ handle[h].id.accept_type = id.accept_type
    BY <1>1 DEF IInv, ResourcesOK, IsMimeMap, InfosOf, EntriesHaveHandles,
       IsConnected, Exists, AcceptMap, Entry
  <2>2. handle[h].id \in Ids
    BY <1>1, <2>1 DEF IInv, HandlesHaveIds, Connectedness
  <2> HIDE DEF h
  <2>3. handle[h].id = id
    BY <2>1, <2>2, IdFacts
  <2>4. QED
    BY <2>1, <2>3 DEF h
<1>2. IInv => EntriesBelongToHandles
  BY <1>1 DEF IInv, HandlesHaveEntries, EntriesBelongToHandles, Connectedness
<1>3. QED
  BY <1>2, Invariance, PTL

(* The counter of an entry, as the invariant has it. *)
LEMMA CountsHolders ==
  ASSUME IInv, NEW id \in Ids, IsConnected(id)
  PROVE  Entry(id).usage_counter = Cardinality(Holders(id))
<1> DEFINE h == Entry(id).handler
<1>1. /\ h \in Handlers
      /\ KeyOf(handle[h].id) = KeyOf(id)
      /\ handle[h].id.accept_type = id.accept_type
      /\ handle[h].status \in Connectedness
  BY DEF IInv, ResourcesOK, IsMimeMap, InfosOf, EntriesHaveHandles,
     IsConnected, Exists, AcceptMap, Entry
<1>2. handle[h].id = id
  <2>1. handle[h].id \in Ids
    BY <1>1 DEF IInv, HandlesHaveIds, Connectedness
  <2> HIDE DEF h
  <2>2. QED
    BY <1>1, <2>1, IdFacts
<1>3. \A p \in Processors :
        serving[p].handler = h <=> serving[p].pc # "idle" /\ serving[p].id = id
  <2>1. ASSUME NEW p \in Processors, serving[p].pc # "idle",
               serving[p].id = id
        PROVE  serving[p].handler = h
    BY <2>1 DEF IInv, HoldersHaveHandles, HandlesHaveEntries
  <2>2. ASSUME NEW p \in Processors, serving[p].handler = h
        PROVE  serving[p].pc # "idle" /\ serving[p].id = id
    BY <1>1, <1>2, <2>2, IdAssumption DEF IInv, HoldersHaveHandles
  <2>3. QED
    BY <2>1, <2>2
<1>4. HoldersOf(h) = Holders(id)
  BY <1>3 DEF HoldersOf, Holders
<1>5. QED
  BY <1>4 DEF IInv, UsageIsExact, IsConnected, Exists, AcceptMap, Entry

(***************************************************************************)
(* The usage counter of a handler is the number of holders that are out    *)
(* for it, whatever determine_request_handler, the destructors of holders  *)
(* and disconnect do in between.                                           *)
(***************************************************************************)
THEOREM UsageCorrect == Spec => []UsageCountsHolders
<1>1. IInv => UsageCountsHolders
  BY CountsHolders DEF UsageCountsHolders
<1>2. QED
  BY <1>1, Invariance, PTL

(***************************************************************************)
(* A handler whose callback a thread holds or runs is not destroyed, and   *)
(* no other handler takes its id.                                          *)
(***************************************************************************)
THEOREM HeldHandlersCorrect == Spec => []HeldHandlersStayConnected
<1>1. IInv => HeldHandlersStayConnected
  BY DEF IInv, HoldersHaveHandles, HandlesHaveEntries, Connectedness,
     HeldHandlersStayConnected
<1>2. QED
  BY <1>1, Invariance, PTL

(***************************************************************************)
(* The reference to the accept map that disconnect keeps across its wait   *)
(* stays valid.                                                            *)
(***************************************************************************)
THEOREM WaiterCorrect == Spec => []WaiterReferencesLiveMap
<1>1. IInv => WaiterReferencesLiveMap
  BY DEF IInv, OpsOwnHandles, HandlesHaveEntries, Connectedness,
     WaiterReferencesLiveMap
<1>2. QED
  BY <1>1, Invariance, PTL

-----------------------------------------------------------------------------
(***************************************************************************)
(* Who waits for whom.                                                     *)
(***************************************************************************)
(* disconnect begins to wait only while a holder is out. *)
LEMMA WaitsForHolder ==
  ASSUME IInv, NEW t \in Threads, Wait(t)
  PROVE  Holders(handle[op[t].handler].id) # {}
<1> DEFINE id == handle[op[t].handler].id
<1>1. id \in Ids /\ IsConnected(id)
  BY DEF Wait, InRound, IInv, OpsOwnHandles, HandlesHaveIds, HandlesHaveEntries,
     Connectedness
<1>2. Entry(id).usage_counter # 0
  BY <1>1 DEF Wait, MustWait, CanErase, IsConnected, Entry
<1>3. Cardinality(Holders(id)) # 0
  BY <1>1, <1>2, CountsHolders
<1>4. QED
  BY <1>3, FS_EmptySet

(* Nothing changes for t: not what it waits for, and no holder goes. *)
NothingGoes(t) ==
  /\ op'[t] = op[t]
  /\ op[t].pc # "idle" =>
       handle'[op[t].handler].id = handle[op[t].handler].id
  /\ \A p \in Processors : serving[p].pc # "idle" =>
       serving'[p].pc # "idle" /\ serving'[p].id = serving[p].id

(* Only the end of a holder can leave a thread waiting for nobody. *)
LEMMA NothingGoesUnlessReleased ==
  ASSUME IInv, [Next]_vars, NEW t \in Controllers, op'[t].pc = "waiting",
         ~Wait(t), \A p \in Processors : ~Release(p)
  PROVE  NothingGoes(t)
<1>1. t \in Threads
  BY DEF Threads
<1>2. ASSUME NEW p \in Processors, NEW request \in Requests,
             Determine(p, request)
      PROVE  NothingGoes(t)
  <2>1. /\ serving[p].pc = "idle" /\ UNCHANGED <<handle, op>>
        /\ \A q \in Processors \ {p} : serving'[q] = serving[q]
    BY <1>2 DEF Determine, IInv, VariablesOK
  <2>2. QED
    BY <2>1 DEF NothingGoes
<1>3. ASSUME NEW p \in Processors, Call(p) \/ Return(p)
      PROVE  NothingGoes(t)
  BY <1>3 DEF Call, Return, NothingGoes, IInv, VariablesOK
<1>4. ASSUME NEW u \in Controllers, Control(u)
      PROVE  NothingGoes(t)
  <2>1. u \in Threads
    BY DEF Threads
  <2>2. ASSUME UNCHANGED <<handle, op, serving>>
        PROVE  NothingGoes(t)
    BY <2>2 DEF NothingGoes
  <2>3. ASSUME NEW h \in Handlers,
               UNCHANGED serving,
               \A g \in Handlers \ {h} : handle'[g] = handle[g],
               \A v \in Threads \ {u} : op'[v] = op[v],
               op'[u].pc # "waiting",
               op[t].pc # "idle" => op[t].handler # h
        PROVE  NothingGoes(t)
    BY <1>1, <2>3 DEF NothingGoes, IInv, OpsOwnHandles
  <2>4. ASSUME NEW h \in Handlers, NEW id \in Ids, CheckConnect(u, h, id)
        PROVE  NothingGoes(t)
    <3>1. op[t].pc # "idle" => op[t].handler # h
      BY <1>1, <2>4 DEF CheckConnect, IInv, OpsOwnHandles
    <3>2. QED
      BY <2>1, <2>3, <2>4, <3>1 DEF CheckConnect, IInv, VariablesOK
  <2>5. ASSUME NEW h \in Handlers, Disable(u, h) \/ Enable(u, h)
        PROVE  NothingGoes(t)
    BY <2>2, <2>5 DEF Disable, Enable, SetEnabled
  <2>6. ASSUME NEW h \in Handlers, Destroy(u, h)
        PROVE  NothingGoes(t)
    <3>1. op[t].pc # "idle" => op[t].handler # h
      BY <1>1, <2>6 DEF Destroy, IInv, OpsOwnHandles
    <3>2. QED
      BY <2>1, <2>3, <2>6, <3>1 DEF Destroy, IInv, VariablesOK
  <2>7. CASE Connect(u) \/ EraseHandler(u)
    <3> DEFINE h == op[u].handler
    <3>1. op[u].pc # "idle" /\ h \in Handlers
      BY <2>1, <2>7 DEF Connect, EraseHandler, InRound, IInv, OpsOwnHandles
    <3>2. /\ op' = [op EXCEPT ![u] = [pc |-> "idle", handler |-> NoHandler]]
          /\ UNCHANGED serving
          /\ \A g \in Handlers \ {h} : handle'[g] = handle[g]
      BY <2>7 DEF Connect, EraseHandler, IInv, VariablesOK
    <3>3. /\ op'[u].pc # "waiting"
          /\ \A v \in Threads \ {u} : op'[v] = op[v]
      BY <2>1, <3>2 DEF IInv, VariablesOK
    <3>4. op[t].pc # "idle" => op[t].handler # h
      BY <1>1, <2>1, <3>1, <3>3 DEF IInv, OpsOwnHandles
    <3> HIDE DEF h
    <3>5. QED
      BY <2>3, <3>1, <3>2, <3>3, <3>4
  <2>8. CASE Wait(u) \/ WakeSpuriously(u)
    <3>1. /\ UNCHANGED <<handle, serving>>
          /\ op'[t] = op[t]
      BY <1>1, <2>1, <2>8 DEF Wait, WakeSpuriously, IInv, VariablesOK
    <3>2. QED
      BY <3>1 DEF NothingGoes
  <2>9. ASSUME NEW name, RegisterMimeType(u, name) \/ RegisterMimeSubtype(u, name)
        PROVE  NothingGoes(t)
    BY <2>2, <2>9 DEF RegisterMimeType, RegisterMimeSubtype
  <2>10. ASSUME NEW value,
                UnregisterMimeType(u, value) \/ UnregisterMimeSubtype(u, value)
         PROVE  NothingGoes(t)
    BY <2>2, <2>10 DEF UnregisterMimeType, UnregisterMimeSubtype
  <2>11. QED
    BY <1>4, <2>4, <2>5, <2>6, <2>7, <2>8, <2>9, <2>10 DEF Control, Disconnect
<1>5. CASE UNCHANGED vars
  BY <1>5 DEF vars, NothingGoes
<1>6. QED
  BY <1>2, <1>3, <1>4, <1>5 DEF Next, Process

(* The end of a holder wakes somebody, if anybody waits. *)
LEMMA ReleaseWakes ==
  ASSUME IInv, NEW p \in Processors, Release(p), NEW t \in Threads,
         op'[t].pc = "waiting"
  PROVE  \E u \in Waiting \ {t} : op'[u].pc = "woken"
<1>1. Exists(serving[p].id)
  BY DEF Release, IInv, HoldersHaveHandles, HandlesHaveEntries, IsConnected
<1>2. NotifyOne
  BY <1>1 DEF Release
<1>3. CASE UNCHANGED op /\ Waiting = {}
  BY <1>3 DEF Waiting
<1>4. CASE \E u \in Waiting : op' = [op EXCEPT ![u].pc = "woken"]
  <2>1. PICK u \in Waiting : op' = [op EXCEPT ![u].pc = "woken"]
    BY <1>4
  <2>2. op'[u].pc = "woken"
    BY <2>1 DEF Waiting, IInv, VariablesOK
  <2>3. QED
    BY <2>1, <2>2
<1>5. QED
  BY <1>2, <1>3, <1>4 DEF NotifyOne

(***************************************************************************)
(* A destructor comes to wait for a handler that nobody uses only because  *)
(* notify_one woke another one when the last holder went: disconnect never *)
(* begins such a wait, and no holder goes without a notification.          *)
(***************************************************************************)
THEOREM NotificationsReachWaiters == Spec => OnlyAnotherIsWoken
<1>1. ASSUME IInv, [Next]_vars, NEW t \in Controllers,
             WaitsForNobody(t)', ~WaitsForNobody(t)
      PROVE  \E u \in Waiting \ {t} : op'[u].pc = "woken"
  <2>1. t \in Threads /\ op'[t].pc = "waiting"
    BY <1>1 DEF WaitsForNobody, Threads
  <2>2. ASSUME NEW p \in Processors, Release(p)
        PROVE  \E u \in Waiting \ {t} : op'[u].pc = "woken"
    BY <1>1, <2>1, <2>2, ReleaseWakes
  <2>3. ~Wait(t)
    <3> SUFFICES ASSUME Wait(t) PROVE FALSE
      OBVIOUS
    <3>1. /\ UNCHANGED <<handle, serving>>
          /\ op'[t].handler = op[t].handler
      BY <1>1, <2>1 DEF Wait, IInv, VariablesOK
    <3>2. Holders(handle[op[t].handler].id)' = Holders(handle[op[t].handler].id)
      BY <3>1 DEF Holders
    <3>3. QED
      BY <1>1, <2>1, <3>2, WaitsForHolder DEF WaitsForNobody
  <2>4. ASSUME \A p \in Processors : ~Release(p)
        PROVE  FALSE
    <3>1. NothingGoes(t)
      BY <1>1, <2>1, <2>3, <2>4, NothingGoesUnlessReleased
    <3>2. op[t].pc = "waiting"
      BY <2>1, <3>1 DEF NothingGoes
    <3>3. PICK p \in Processors :
            serving[p].pc # "idle" /\ serving[p].id = handle[op[t].handler].id
      BY <1>1, <3>2 DEF WaitsForNobody, Holders
    <3>4. /\ serving'[p].pc # "idle"
          /\ serving'[p].id = handle'[op'[t].handler].id
      BY <3>1, <3>2, <3>3 DEF NothingGoes
    <3>5. QED
      BY <1>1, <3>4 DEF WaitsForNobody, Holders
  <2>5. QED
    BY <2>2, <2>4
<1>2. IInv /\ [Next]_vars =>
        [\A t \in Controllers :
           WaitsForNobody(t)' /\ ~WaitsForNobody(t) =>
             \E u \in Waiting \ {t} : op'[u].pc = "woken"]_vars
  BY <1>1
<1>3. QED
  BY <1>2, Invariance, PTL DEF Spec, OnlyAnotherIsWoken

-----------------------------------------------------------------------------
(***************************************************************************)
(* The refinement.  Connected handlers are the registrations; every action *)
(* that moves one is shown to move it as the registry says, every other to *)
(* leave the mapped state alone.                                           *)
(***************************************************************************)

(* What is known of the entry of a connected handler. *)
LEMMA ConnectedFacts ==
  ASSUME IInv, NEW h \in Connected
  PROVE  /\ h \in Handlers
         /\ handle[h].status \in Connectedness
         /\ handle[h].id \in Ids
         /\ IsConnected(handle[h].id)
         /\ Entry(handle[h].id).handler = h
         /\ Exists(handle[h].id)
         /\ handle[h].id.accept_type \in Stored(AcceptMap(handle[h].id))
         /\ IsMimeMap(AcceptMap(handle[h].id), Mime, Handlers)
         /\ VectorListsMap(AcceptMap(handle[h].id))
<1>1. h \in Handlers /\ handle[h].status \in Connectedness
  BY DEF Connected, Connectedness
<1>2. /\ handle[h].id \in Ids
      /\ IsConnected(handle[h].id)
      /\ Entry(handle[h].id).handler = h
  BY <1>1 DEF IInv, HandlesHaveIds, HandlesHaveEntries, Connectedness
<1>3. QED
  BY <1>1, <1>2 DEF IInv, ResourcesOK, IsConnected, Exists, AcceptMap

(* Different handlers of a resource have different accept types. *)
LEMMA TypesDiffer ==
  ASSUME IInv, NEW g \in Connected, NEW h \in Connected,
         KeyOf(handle[g].id) = KeyOf(handle[h].id),
         handle[g].id.accept_type = handle[h].id.accept_type
  PROVE  g = h
  BY ConnectedFacts DEF Entry, AcceptMap

(* A step that moves no handler within a vector keeps ids and order. *)
LEMMA OrderSame ==
  ASSUME IInv, Connected' = Connected,
         \A h \in Connected : handle'[h].id = handle[h].id,
         \A h \in Connected :
           resource_callbacks'[KeyOf(handle[h].id)].vector =
             resource_callbacks[KeyOf(handle[h].id)].vector
  PROVE  Registered' = Registered /\ Before' = Before
<1>1. Registered' = Registered
  BY DEF Registered
<1>2. ASSUME NEW g \in Connected, NEW h \in Connected
      PROVE  Earlier(handle[g].id, handle[h].id)' <=>
             Earlier(handle[g].id, handle[h].id)
  <2> DEFINE a == handle[g].id
             b == handle[h].id
  <2>1. handle'[g].id = a /\ handle'[h].id = b
    OBVIOUS
  <2>2. /\ Position(resource_callbacks'[KeyOf(a)], a.accept_type) =
             Position(resource_callbacks[KeyOf(a)], a.accept_type)
        /\ Position(resource_callbacks'[KeyOf(b)], b.accept_type) =
             Position(resource_callbacks[KeyOf(b)], b.accept_type)
    BY PositionSame
  <2> HIDE DEF a, b
  <2>3. QED
    BY <2>1, <2>2 DEF Earlier, AcceptMap, a, b
<1>3. Before' = Before
  BY <1>2 DEF Before
<1>4. QED
  BY <1>1, <1>3

LEMMA MappedSame ==
  ASSUME IInv, UNCHANGED resource_callbacks, Connected' = Connected,
         \A h \in Connected : handle'[h].id = handle[h].id
  PROVE  UNCHANGED <<Registered, Enabled, Before>>
<1>1. Registered' = Registered /\ Before' = Before
  BY OrderSame
<1>2. Enabled' = Enabled
  BY DEF Enabled, IsEnabled, Exists, Entry, AcceptMap
<1>3. QED
  BY <1>1, <1>2

(* A step that changed the infos of one entry may have switched it. *)
LEMMA ChangeMapped ==
  ASSUME IInv, NEW h \in Connected, NEW id, id = handle[h].id,
         NEW n, NEW infos,
         Changes(AcceptMap(id), n, id.accept_type, infos),
         IsMimeMap(n, Mime, Handlers), VectorListsMap(n),
         ReplaceAcceptMap(id, n),
         UNCHANGED handle
  PROVE  /\ UNCHANGED <<Registered, Before>>
         /\ Enabled' = IF infos.is_available THEN Enabled \cup {h}
                                             ELSE Enabled \ {h}
<1>1. Connected' = Connected
  BY DEF Connected
<1>2. id \in Ids /\ Exists(id) /\ id.accept_type \in Stored(AcceptMap(id))
  BY ConnectedFacts
<1>3. /\ DOMAIN resource_callbacks' = DOMAIN resource_callbacks \cup {KeyOf(id)}
      /\ resource_callbacks'[KeyOf(id)] = n
      /\ \A k \in DOMAIN resource_callbacks \ {KeyOf(id)} :
           resource_callbacks'[k] = resource_callbacks[k]
  BY <1>2, ReplaceOK DEF IInv
<1>4. n.vector = resource_callbacks[KeyOf(id)].vector
  BY DEF Changes, AcceptMap
<1>5. ASSUME NEW g \in Connected
      PROVE  resource_callbacks'[KeyOf(handle[g].id)].vector =
               resource_callbacks[KeyOf(handle[g].id)].vector
  <2>1. KeyOf(handle[g].id) \in DOMAIN resource_callbacks
    BY ConnectedFacts DEF Exists
  <2>2. QED
    BY <1>3, <1>4, <2>1
<1>6. UNCHANGED <<Registered, Before>>
  BY <1>1, <1>5, OrderSame
<1>7. IsEnabled(handle[h].id)' <=> infos.is_available
  BY <1>2, <1>3 DEF IsEnabled, Exists, Entry, AcceptMap, Changes
<1>8. ASSUME NEW g \in Connected \ {h}
      PROVE  IsEnabled(handle[g].id)' <=> IsEnabled(handle[g].id)
  <2> DEFINE k == KeyOf(handle[g].id)
             type == handle[g].id.accept_type
  <2>1. k \in DOMAIN resource_callbacks /\ type \in Stored(resource_callbacks[k])
    BY ConnectedFacts DEF Exists, AcceptMap
  <2>2. k = KeyOf(id) => type # id.accept_type
    BY TypesDiffer
  <2>3. /\ k \in DOMAIN resource_callbacks'
        /\ resource_callbacks'[k].map[type] = resource_callbacks[k].map[type]
    BY <1>3, <2>1, <2>2 DEF Changes, AcceptMap
  <2>4. handle'[g].id = handle[g].id
    OBVIOUS
  <2>5. QED
    BY <2>1, <2>3, <2>4 DEF IsEnabled, Exists, Entry, AcceptMap
<1>9. QED
  BY <1>1, <1>6, <1>7, <1>8 DEF Enabled

(* What the registry sees of the demultiplexer. *)
Mapped == <<Registered, Enabled, Before, Granted>>

LEMMA CheckConnectMapped ==
  ASSUME IInv, NEW t \in Threads, NEW h \in Handlers, NEW id \in Ids,
         CheckConnect(t, h, id)
  PROVE  UNCHANGED Mapped
<1>1. /\ handle[h].status = "none"
      /\ handle' = [handle EXCEPT ![h] = [status |-> "connecting", id |-> id]]
      /\ UNCHANGED <<resource_callbacks, serving>>
  BY DEF CheckConnect
<1>2. Connected' = Connected /\ \A g \in Connected : handle'[g].id = handle[g].id
  BY <1>1 DEF Connected, IInv, VariablesOK
<1>3. QED
  BY <1>1, <1>2, MappedSame DEF Mapped, Granted

LEMMA DestroyMapped ==
  ASSUME IInv, NEW t \in Threads, NEW h \in Handlers, Destroy(t, h)
  PROVE  UNCHANGED Mapped
<1>1. /\ handle[h].status = "live"
      /\ handle' = [handle EXCEPT ![h] = [handle[h] EXCEPT !.status = "closing"]]
      /\ UNCHANGED <<resource_callbacks, serving>>
  BY DEF Destroy
<1>2. Connected' = Connected /\ \A g \in Connected : handle'[g].id = handle[g].id
  BY <1>1 DEF Connected, IInv, VariablesOK
<1>3. QED
  BY <1>1, <1>2, MappedSame DEF Mapped, Granted

LEMMA CallMapped ==
  ASSUME IInv, NEW p \in Processors, Call(p) \/ Return(p)
  PROVE  UNCHANGED Mapped
<1>1. PICK pc \in {"calling", "called"} :
        /\ serving' = [serving EXCEPT ![p] = [serving[p] EXCEPT !.pc = pc]]
        /\ UNCHANGED <<resource_callbacks, handle>>
  BY DEF Call, Return
<1>2. Granted' = Granted
  BY <1>1 DEF Granted, IInv, VariablesOK
<1>3. QED
  BY <1>1, <1>2, MappedSame DEF Mapped, Connected

LEMMA QuietMapped ==
  ASSUME IInv, UNCHANGED <<resource_callbacks, handle, serving>>
  PROVE  UNCHANGED Mapped
  BY MappedSame DEF Mapped, Granted, Connected

LEMMA SetEnabledMapped ==
  ASSUME IInv, NEW t \in Threads, NEW h \in Handlers,
         NEW available \in BOOLEAN, SetEnabled(t, h, available)
  PROVE  IF available THEN Registry!Enable(h) ELSE Registry!Disable(h)
<1> DEFINE id == handle[h].id
           m == AcceptMap(id)
           n == SetAvailability(m, id.accept_type, available)
           infos == [m.map[id.accept_type] EXCEPT !.is_available = available]
<1>1. /\ h \in Connected
      /\ ReplaceAcceptMap(id, n)
      /\ UNCHANGED <<handle, serving>>
  BY DEF SetEnabled, Connected
<1>2. /\ IsMimeMap(m, Mime, Handlers) /\ VectorListsMap(m)
      /\ id.accept_type \in Stored(m)
  BY <1>1, ConnectedFacts
<1>3. /\ IsMimeMap(n, Mime, Handlers)
      /\ VectorListsMap(n)
      /\ Changes(m, n, id.accept_type, infos)
  BY <1>2, SetAvailabilityOK
<1>4. infos.is_available = available
  BY <1>2 DEF IsMimeMap, InfosOf
<1> HIDE DEF n, infos
<1>5. /\ UNCHANGED <<Registered, Before>>
      /\ Enabled' = IF available THEN Enabled \cup {h} ELSE Enabled \ {h}
  BY <1>1, <1>3, <1>4, ChangeMapped
<1>6. UNCHANGED Granted /\ h \in DOMAIN Registered
  BY <1>1 DEF Granted, Registered
<1>7. QED
  BY <1>5, <1>6 DEF Registry!Enable, Registry!Disable, Registry!Registered

LEMMA ReleaseMapped ==
  ASSUME IInv, NEW p \in Processors, Release(p)
  PROVE  Registry!GiveBack(p)
<1> DEFINE h == serving[p].handler
           id == serving[p].id
           m == AcceptMap(id)
           n == DecreaseUsage(m, id.accept_type)
           infos == [m.map[id.accept_type] EXCEPT
                       !.usage_counter = m.map[id.accept_type].usage_counter - 1]
<1>1. /\ serving[p].pc # "idle"
      /\ serving' = [serving EXCEPT ![p] = Idle]
      /\ UNCHANGED handle
  BY DEF Release
<1>2. h \in Connected /\ id = handle[h].id
  BY <1>1 DEF IInv, HoldersHaveHandles, Connected, Connectedness
<1>3. /\ id \in Ids
      /\ Exists(id)
      /\ id.accept_type \in Stored(m)
      /\ Entry(id).handler = h
      /\ IsMimeMap(m, Mime, Handlers) /\ VectorListsMap(m)
  BY <1>2, ConnectedFacts
<1>4. ReplaceAcceptMap(id, n)
  BY <1>3 DEF Release
<1>5. m.map[id.accept_type].usage_counter # 0
  <2>1. m.map[id.accept_type].usage_counter = Cardinality(HoldersOf(h))
    BY <1>3 DEF IInv, UsageIsExact, Exists, AcceptMap, Entry
  <2>2. p \in HoldersOf(h)
    BY DEF HoldersOf
  <2>3. QED
    BY <2>1, <2>2, HoldersFinite, FS_EmptySet
<1>6. /\ IsMimeMap(n, Mime, Handlers)
      /\ VectorListsMap(n)
      /\ Changes(m, n, id.accept_type, infos)
  BY <1>3, <1>5, DecreaseUsageOK
<1>7. infos.is_available <=> h \in Enabled
  <2>1. infos.is_available = m.map[id.accept_type].is_available
    BY <1>3 DEF IsMimeMap, InfosOf
  <2>2. QED
    BY <1>2, <1>3, <2>1 DEF Enabled, IsEnabled, Entry
<1> HIDE DEF n, infos
<1>8. UNCHANGED <<Registered, Enabled, Before>>
  <2>1. /\ UNCHANGED <<Registered, Before>>
        /\ Enabled' = IF infos.is_available THEN Enabled \cup {h}
                                            ELSE Enabled \ {h}
    BY <1>1, <1>2, <1>4, <1>6, ChangeMapped
  <2>2. QED
    BY <1>7, <2>1
<1>9. Granted[p] # NoHandler /\ Granted' = [Granted EXCEPT ![p] = NoHandler]
  <2>1. h # NoHandler
    BY <1>2, IdAssumption DEF Connected
  <2>2. QED
    BY <1>1, <2>1 DEF Granted, Idle, IInv, VariablesOK
<1>10. QED
  BY <1>8, <1>9 DEF Registry!GiveBack

(* Whom the registry may grant is whom the ordered MIME map may answer with. *)
LEMMA CandidatesAnswer ==
  ASSUME IInv, NEW request \in Requests, NEW a \in Mime,
         NEW h \in Registry!Candidates(request, a)
  PROVE  /\ h \in Enabled
         /\ KeyOf(handle[h].id) = KeyOf(request)
         /\ handle[h].id.accept_type \in
              Answers(resource_callbacks[KeyOf(request)], a)
<1> DEFINE type == handle[h].id.accept_type
           m == resource_callbacks[KeyOf(request)]
<1>1. /\ h \in Connected /\ h \in Enabled
      /\ IsEnabled(handle[h].id)
      /\ KeyOf(handle[h].id) = KeyOf(request)
      /\ Matches(a, type)
  BY DEF Registry!Candidates, Registered, Enabled
<1>2. /\ type \in Stored(m) /\ type \in Mime
      /\ m.map[type].is_available
  BY <1>1, ConnectedFacts DEF IsEnabled, Entry, AcceptMap, IsMimeMap
<1>3. ~HasWildcard(a) => type = a
  <2>1. a = <<a[1], a[2]>> /\ type = <<type[1], type[2]>>
    BY <1>2 DEF Mime
  <2>2. QED
    BY <1>1, <2>1 DEF Matches, HasWildcard
<1>4. QED
  BY <1>1, <1>2, <1>3 DEF Answers

LEMMA DetermineFinds ==
  ASSUME IInv, NEW p \in Processors, NEW request \in Requests,
         Determine(p, request)
  PROVE  \E type \in Lookup(request.accept, resource_callbacks[KeyOf(request)]) :
           LET m  == resource_callbacks[KeyOf(request)]
               h  == m.map[type].handler
               id == handle[h].id
           IN  /\ Exists(request)
               /\ type \in Stored(m) /\ m.map[type].is_available
               /\ h \in Connected
               /\ id \in Ids /\ KeyOf(id) = KeyOf(request)
               /\ id.accept_type = type
               /\ ReplaceAcceptMap(id, IncreaseUsage(m, type))
               /\ serving[p].handler = NoHandler
               /\ serving' = [serving EXCEPT ![p] =
                               [pc |-> "holding", id |-> id, handler |-> h]]
               /\ UNCHANGED handle
<1> DEFINE key == KeyOf(request)
           m == resource_callbacks[key]
           idOf(type) == [path |-> key.path, method |-> key.method,
                          content_type |-> key.content_type,
                          accept_type |-> type]
<1>1. PICK type \in Lookup(request.accept, m) :
        /\ serving[p].pc = "idle"
        /\ key \in DOMAIN resource_callbacks
        /\ ReplaceAcceptMap(idOf(type), IncreaseUsage(m, type))
        /\ serving' = [serving EXCEPT ![p] =
                         [pc |-> "holding", id |-> idOf(type),
                          handler |-> m.map[type].handler]]
        /\ UNCHANGED <<types, subtypes, handle, op>>
  BY DEF Determine
<1> DEFINE h == m.map[type].handler
           id == handle[h].id
<1>2. type \in Stored(m) /\ m.map[type].is_available
  <2>1. PICK accepted : type \in Find(m, accepted)
    BY DEF Lookup
  <2>2. QED
    BY <2>1, FindReturnsStored
<1>3. /\ h \in Handlers
      /\ handle[h].status \in Connectedness
      /\ KeyOf(id) = key
      /\ id.accept_type = type
  BY <1>1, <1>2 DEF IInv, EntriesHaveHandles, ResourcesOK, IsMimeMap, InfosOf
<1>4. id \in Ids
  BY <1>3 DEF IInv, HandlesHaveIds, Connectedness
<1>5. idOf(type) = id
  BY <1>3, <1>4, IdFacts
<1>6. serving[p].handler = NoHandler
  BY <1>1 DEF IInv, HoldersHaveHandles
<1>7. h \in Connected
  BY <1>3 DEF Connected, Connectedness
<1>8. QED
  BY <1>1, <1>2, <1>3, <1>4, <1>5, <1>6, <1>7 DEF Exists

(***************************************************************************)
(* The first of the accepted types that some handler answers decides, and  *)
(* of the handlers that do the one registered first.                       *)
(***************************************************************************)
LEMMA LookupIsBestFit ==
  ASSUME IInv, NEW request \in Requests, Exists(request),
         NEW type \in Lookup(request.accept, AcceptMap(request)),
         NEW h \in Connected, KeyOf(handle[h].id) = KeyOf(request),
         handle[h].id.accept_type = type
  PROVE  h \in Registry!BestFit(request)
<1> DEFINE m == AcceptMap(request)
<1>1. /\ IsMimeMap(m, Mime, Handlers) /\ VectorListsMap(m)
      /\ m = resource_callbacks[KeyOf(request)]
  BY DEF IInv, ResourcesOK, Exists, AcceptMap
<1>2. /\ DOMAIN request.accept = 1 .. Len(request.accept)
      /\ Len(request.accept) \in Nat
      /\ \A i \in DOMAIN request.accept : request.accept[i] \in Mime
  BY IdAssumption
<1>3. PICK i \in DOMAIN request.accept :
        /\ type \in Find(m, request.accept[i])
        /\ \A j \in DOMAIN request.accept :
             Find(m, request.accept[j]) # {} => i <= j
  BY DEF Lookup
<1> DEFINE a == request.accept[i]
<1>4. a \in Mime /\ type \in Answers(m, a) /\ type \in Mime
  BY <1>1, <1>2, <1>3, FindReturnsFirstAnswer DEF Answers, IsMimeMap
<1>5. h \in Registry!Candidates(request, a) /\ h \in Enabled
  <2>1. h \in Enabled
    BY <1>1, <1>4 DEF Enabled, IsEnabled, Exists, Entry, AcceptMap, Answers
  <2>2. Matches(a, type)
    BY <1>4 DEF Answers, Matches
  <2>3. QED
    BY <2>1, <2>2 DEF Registry!Candidates, Registered
<1>6. ASSUME NEW g \in Registry!Candidates(request, a) \ {h}
      PROVE  <<h, g>> \in Before
  <2> DEFINE other == handle[g].id.accept_type
  <2>1. /\ g \in Connected
        /\ KeyOf(handle[g].id) = KeyOf(request)
        /\ other \in Answers(m, a)
    BY <1>1, <1>4, CandidatesAnswer DEF Enabled
  <2>2. other # type
    BY <2>1, TypesDiffer
  <2>3. HasWildcard(a)
    BY <1>4, <2>1, <2>2 DEF Answers
  <2>4. /\ Position(m, type) \in DOMAIN m.vector
        /\ m.vector[Position(m, type)] = type
        /\ Position(m, other) \in DOMAIN m.vector
        /\ m.vector[Position(m, other)] = other
        /\ Position(m, type) \in Nat /\ Position(m, other) \in Nat
    BY <1>1, <1>4, <2>1, PositionOK DEF Answers
  <2>5. Position(m, type) <= Position(m, other)
    BY <1>1, <1>3, <2>1, <2>3, <2>4, FindReturnsFirstAnswer
  <2>6. Position(m, type) < Position(m, other)
    BY <2>2, <2>4, <2>5
  <2>7. Earlier(handle[h].id, handle[g].id)
    BY <1>1, <2>1, <2>6 DEF Earlier, AcceptMap
  <2>8. QED
    BY <2>1, <2>7 DEF Before
<1>7. ASSUME NEW j \in 1 .. i - 1
      PROVE  Registry!Candidates(request, request.accept[j]) = {}
  <2>1. j \in DOMAIN request.accept /\ ~(i <= j)
    BY <1>2
  <2>2. Find(m, request.accept[j]) = {}
    BY <1>3, <2>1
  <2>3. Answers(m, request.accept[j]) = {}
    BY <1>1, <2>2, FindReturnsFirstAnswer
  <2>4. QED
    BY <1>1, <1>2, <2>1, <2>3, CandidatesAnswer
<1>8. QED
  BY <1>5, <1>6, <1>7 DEF Registry!BestFit

LEMMA DetermineMapped ==
  ASSUME IInv, NEW p \in Processors, NEW request \in Requests,
         Determine(p, request)
  PROVE  Registry!Grant(p, request)
<1> DEFINE m == resource_callbacks[KeyOf(request)]
<1>1. PICK type \in Lookup(request.accept, m) :
           LET h  == m.map[type].handler
               id == handle[h].id
           IN  /\ Exists(request)
               /\ type \in Stored(m) /\ m.map[type].is_available
               /\ h \in Connected
               /\ id \in Ids /\ KeyOf(id) = KeyOf(request)
               /\ id.accept_type = type
               /\ ReplaceAcceptMap(id, IncreaseUsage(m, type))
               /\ serving[p].handler = NoHandler
               /\ serving' = [serving EXCEPT ![p] =
                               [pc |-> "holding", id |-> id, handler |-> h]]
               /\ UNCHANGED handle
  BY DetermineFinds
<1> DEFINE h == m.map[type].handler
           id == handle[h].id
           n == IncreaseUsage(m, type)
           infos == [m.map[type] EXCEPT
                       !.usage_counter = m.map[type].usage_counter + 1]
<1>2. /\ IsMimeMap(m, Mime, Handlers) /\ VectorListsMap(m)
      /\ m = AcceptMap(id) /\ m = AcceptMap(request)
  BY <1>1 DEF IInv, ResourcesOK, Exists, AcceptMap
<1>3. /\ IsMimeMap(n, Mime, Handlers)
      /\ VectorListsMap(n)
      /\ Changes(m, n, type, infos)
  BY <1>1, <1>2, IncreaseUsageOK
<1>4. infos.is_available /\ h \in Enabled
  <2>1. infos.is_available = m.map[type].is_available
    BY <1>1, <1>2 DEF IsMimeMap, InfosOf
  <2>2. h \in Enabled
    BY <1>1, <1>2 DEF Enabled, IsEnabled, Exists, Entry, AcceptMap
  <2>3. QED
    BY <1>1, <2>1, <2>2
<1>5. h \in Registry!BestFit(request)
  BY <1>1, <1>2, LookupIsBestFit
<1>6. ~HasWildcard(request.content_type)
  BY DEF Determine
<1> HIDE DEF n, infos, m
<1>7. UNCHANGED <<Registered, Enabled, Before>>
  <2>1. /\ UNCHANGED <<Registered, Before>>
        /\ Enabled' = IF infos.is_available THEN Enabled \cup {h}
                                            ELSE Enabled \ {h}
    BY <1>1, <1>2, <1>3, ChangeMapped, SMTT(60) DEF n
  <2>2. QED
    BY <1>4, <2>1
<1>8. Granted[p] = NoHandler /\ Granted' = [Granted EXCEPT ![p] = h]
  BY <1>1 DEF Granted, IInv, VariablesOK
<1>9. QED
  BY <1>5, <1>6, <1>7, <1>8 DEF Registry!Grant, IsConcrete

(* Where a handler was inserted, it comes behind those that were there. *)
LEMMA InsertedMapped ==
  ASSUME IInv, NEW h \in Handlers, handle[h].status = "connecting",
         NEW id \in Ids, id = handle[h].id,
         NEW m, m = IF Exists(id) THEN AcceptMap(id) ELSE EmptyMimeMap,
         CanInsert(m, id.accept_type),
         ReplaceAcceptMap(id, Insert(m, id.accept_type, h)),
         handle' = [handle EXCEPT ![h].status = "live"],
         UNCHANGED serving
  PROVE  Registry!Register(h, id)
<1> DEFINE n == Insert(m, id.accept_type, h)
           infos == [handler |-> h, usage_counter |-> 0, is_available |-> TRUE]
<1>1. id.accept_type \in Mime /\ KeyOf(id) \in Keys
  BY IdFacts
<1>2. IsMimeMap(m, Mime, Handlers) /\ VectorListsMap(m)
  BY EmptyMapOK DEF IInv, ResourcesOK, Exists, AcceptMap
<1>3. /\ IsMimeMap(n, Mime, Handlers)
      /\ VectorListsMap(n)
      /\ Stored(n) = Stored(m) \cup {id.accept_type}
      /\ n.map[id.accept_type] = infos
      /\ \A type \in Stored(m) : n.map[type] = m.map[type]
      /\ id.accept_type \notin Stored(m)
  BY <1>1, <1>2, InsertOK DEF CanInsert
<1>4. \A type \in Stored(m) :
        /\ Position(n, type) = Position(m, type)
        /\ Position(n, type) < Position(n, id.accept_type)
  BY <1>1, <1>2, InsertPositions
<1>5. \A type \in Stored(n) : Position(n, type) \in Nat
  BY <1>3, PositionOK
<1> HIDE DEF n
<1>6. /\ DOMAIN resource_callbacks' = DOMAIN resource_callbacks \cup {KeyOf(id)}
      /\ resource_callbacks'[KeyOf(id)] = n
      /\ \A k \in DOMAIN resource_callbacks \ {KeyOf(id)} :
           resource_callbacks'[k] = resource_callbacks[k]
  BY <1>3, ReplaceOK DEF IInv, n
<1>7. /\ h \notin Connected
      /\ Connected' = Connected \cup {h}
      /\ handle'[h].id = id
      /\ \A g \in Connected : handle'[g].id = handle[g].id
  BY DEF Connected, IInv, VariablesOK
<1>8. ASSUME NEW g \in Connected
      PROVE  /\ handle[g].id.accept_type \in Stored(AcceptMap(handle[g].id))
             /\ Exists(handle[g].id)
             /\ KeyOf(handle[g].id) = KeyOf(id) =>
                  /\ AcceptMap(handle[g].id) = m
                  /\ handle[g].id.accept_type \in Stored(m)
  BY ConnectedFacts DEF Exists, AcceptMap
<1>9. \A g \in Connected : handle[g].id # id
  BY <1>3, <1>8
<1>10. Registered' = [g \in Connected \cup {h} |->
                       IF g = h THEN id ELSE handle[g].id]
  BY <1>7 DEF Registered
<1>11. Enabled' = Enabled \cup {h}
  <2>1. IsEnabled(handle[h].id)'
    BY <1>3, <1>6, <1>7 DEF IsEnabled, Exists, Entry, AcceptMap
  <2>2. ASSUME NEW g \in Connected
        PROVE  IsEnabled(handle[g].id)' <=> IsEnabled(handle[g].id)
    <3> DEFINE k == KeyOf(handle[g].id)
               type == handle[g].id.accept_type
    <3>1. /\ k \in DOMAIN resource_callbacks
          /\ k \in DOMAIN resource_callbacks'
          /\ resource_callbacks'[k].map[type] = resource_callbacks[k].map[type]
      BY <1>3, <1>6, <1>8 DEF Exists, AcceptMap
    <3>2. handle'[g].id = handle[g].id
      BY <1>7
    <3>3. QED
      BY <3>1, <3>2 DEF IsEnabled, Exists, Entry, AcceptMap
  <2>3. QED
    BY <1>7, <2>1, <2>2 DEF Enabled
<1>12. ASSUME NEW f \in Connected, NEW g \in Connected
       PROVE  Earlier(handle[f].id, handle[g].id)' <=>
              Earlier(handle[f].id, handle[g].id)
  <2> DEFINE a == handle[f].id
             b == handle[g].id
  <2>1. handle'[f].id = a /\ handle'[g].id = b
    BY <1>7
  <2>2. /\ Position(resource_callbacks'[KeyOf(a)], a.accept_type) =
             Position(resource_callbacks[KeyOf(a)], a.accept_type)
        /\ Position(resource_callbacks'[KeyOf(b)], b.accept_type) =
             Position(resource_callbacks[KeyOf(b)], b.accept_type)
    BY <1>4, <1>6, <1>8 DEF Exists, AcceptMap
  <2> HIDE DEF a, b
  <2>3. QED
    BY <2>1, <2>2 DEF Earlier, AcceptMap, a, b
<1>13. ASSUME NEW g \in Connected
       PROVE  /\ Earlier(handle[g].id, handle[h].id)' <=>
                  KeyOf(handle[g].id) = KeyOf(id)
              /\ ~Earlier(handle[h].id, handle[g].id)'
  <2> DEFINE b == handle[g].id
  <2>1. handle'[g].id = b /\ handle'[h].id = id
    BY <1>7
  <2>2. KeyOf(b) = KeyOf(id) =>
          /\ Position(n, b.accept_type) < Position(n, id.accept_type)
          /\ Position(n, b.accept_type) \in Nat
          /\ Position(n, id.accept_type) \in Nat
    BY <1>3, <1>4, <1>5, <1>8
  <2> HIDE DEF b
  <2>3. KeyOf(b) = KeyOf(id) =>
          ~(Position(n, id.accept_type) < Position(n, b.accept_type))
    BY <2>2
  <2>4. QED
    BY <1>6, <2>1, <2>2, <2>3 DEF Earlier, AcceptMap, b
<1>14. ~Earlier(handle[h].id, handle[h].id)'
  <2>1. Position(n, id.accept_type) \in Nat
    BY <1>3, <1>5
  <2>2. ~(Position(n, id.accept_type) < Position(n, id.accept_type))
    BY <2>1
  <2>3. QED
    BY <1>6, <1>7, <2>2 DEF Earlier, AcceptMap
<1>15. Before' = Before \cup
         {<<g, h>> : g \in {x \in Connected : KeyOf(handle[x].id) = KeyOf(id)}}
  BY <1>7, <1>12, <1>13, <1>14 DEF Before
<1>16. UNCHANGED Granted
  BY DEF Granted
<1>17. QED
  BY <1>7, <1>9, <1>10, <1>11, <1>15, <1>16
  DEF Registry!Register, Registry!Registered, Registered

(* A refused insertion leaves, at most, a resource without handlers. *)
LEMMA RefusedMapped ==
  ASSUME IInv, NEW h \in Handlers, handle[h].status = "connecting",
         NEW id \in Ids, id = handle[h].id,
         ReplaceAcceptMap(id, IF Exists(id) THEN AcceptMap(id)
                                            ELSE EmptyMimeMap),
         handle' = [handle EXCEPT ![h] = [status |-> "none", id |-> NoId]],
         UNCHANGED serving
  PROVE  UNCHANGED Mapped
<1>1. /\ Connected' = Connected
      /\ \A g \in Connected : handle'[g] = handle[g]
  BY DEF Connected, IInv, VariablesOK
<1>2. \A k \in DOMAIN resource_callbacks :
        /\ k \in DOMAIN resource_callbacks'
        /\ resource_callbacks'[k] = resource_callbacks[k]
  BY DEF ReplaceAcceptMap, With, Exists, AcceptMap
<1>3. \A g \in Connected : Exists(handle[g].id)
  BY ConnectedFacts
<1>4. Registered' = Registered /\ Before' = Before
  BY <1>1, <1>2, <1>3, OrderSame DEF Exists
<1>5. Enabled' = Enabled
  <2>1. ASSUME NEW g \in Connected
        PROVE  IsEnabled(handle[g].id)' <=> IsEnabled(handle[g].id)
    <3>1. KeyOf(handle[g].id) \in DOMAIN resource_callbacks
      BY <1>3 DEF Exists
    <3> QED
      BY <1>1, <1>2, <3>1 DEF IsEnabled, Exists, Entry, AcceptMap
  <2> QED
    BY <1>1, <2>1 DEF Enabled
<1>6. QED
  BY <1>4, <1>5 DEF Mapped, Granted

LEMMA ConnectMapped ==
  ASSUME IInv, NEW t \in Threads, Connect(t)
  PROVE  \/ \E h \in Handlers, id \in Ids : Registry!Register(h, id)
         \/ UNCHANGED Mapped
<1> DEFINE h == op[t].handler
           id == handle[h].id
           m == IF Exists(id) THEN AcceptMap(id) ELSE EmptyMimeMap
<1>1. /\ op[t].pc = "connect"
      /\ UNCHANGED serving
  BY DEF Connect
<1>2. /\ h \in Handlers
      /\ handle[h].status = "connecting"
      /\ id \in Ids
  BY <1>1 DEF IInv, OpsOwnHandles, HandlesHaveIds
<1>3. CASE /\ CanInsert(m, id.accept_type)
           /\ ReplaceAcceptMap(id, Insert(m, id.accept_type, h))
           /\ handle' = [handle EXCEPT ![h].status = "live"]
  BY <1>1, <1>2, <1>3, InsertedMapped
<1>4. CASE /\ ReplaceAcceptMap(id, m)
           /\ handle' = [handle EXCEPT ![h] = [status |-> "none", id |-> NoId]]
  BY <1>1, <1>2, <1>4, RefusedMapped
<1>5. QED
  BY <1>3, <1>4 DEF Connect

(* The entry's place closes up behind it, the others keep their order. *)
LEMMA EraseMapped ==
  ASSUME IInv, NEW t \in Threads, EraseHandler(t)
  PROVE  \E h \in Handlers : Registry!Unregister(h)
<1> DEFINE h == op[t].handler
           id == handle[h].id
           m == AcceptMap(id)
           n == Erase(m, id.accept_type)
<1>1. /\ h \in Handlers
      /\ handle[h].status = "closing"
      /\ handle' = [handle EXCEPT ![h] = [status |-> "none", id |-> NoId]]
      /\ UNCHANGED serving
      /\ HoldersOf(h) = {}
  BY EraseFacts
<1>2. /\ m = resource_callbacks[KeyOf(id)]
      /\ id.accept_type \in Stored(m)
      /\ IsMimeMap(m, Mime, Handlers) /\ VectorListsMap(m)
      /\ Stored(n) = Stored(m) \ {id.accept_type}
      /\ \A type \in Stored(n) : n.map[type] = m.map[type]
  BY EraseFacts
<1>3. /\ \A k \in DOMAIN resource_callbacks \ {KeyOf(id)} :
           k \in DOMAIN resource_callbacks' /\
             resource_callbacks'[k] = resource_callbacks[k]
      /\ \A k \in DOMAIN resource_callbacks' :
           IF k = KeyOf(id) THEN resource_callbacks'[k] = n
                            ELSE k \in DOMAIN resource_callbacks
      /\ Stored(n) # {} => KeyOf(id) \in DOMAIN resource_callbacks'
  BY EraseFacts
<1>4. \A r, s \in Stored(n) :
        Position(n, r) < Position(n, s) <=> Position(m, r) < Position(m, s)
  <2> DEFINE type == id.accept_type
  <2>1. /\ IsMimeMap(m, Mime, Handlers) /\ VectorListsMap(m)
        /\ type \in Stored(m)
    BY <1>2
  <2> HIDE DEF m, id, n, type
  <2>2. n = Erase(m, type)
    BY DEF n, type
  <2>3. QED
    BY <2>1, <2>2, ErasePositions
<1> HIDE DEF n
<1>5. /\ h \in Connected
      /\ Connected' = Connected \ {h}
      /\ \A g \in Connected' : handle'[g].id = handle[g].id
  BY <1>1 DEF Connected, IInv, VariablesOK
<1> HIDE DEF m
<1>6. ASSUME NEW g \in Connected \ {h}
      PROVE  /\ KeyOf(handle[g].id) \in DOMAIN resource_callbacks
             /\ KeyOf(handle[g].id) \in DOMAIN resource_callbacks'
             /\ IF KeyOf(handle[g].id) = KeyOf(id)
                THEN /\ handle[g].id.accept_type \in Stored(n)
                     /\ resource_callbacks'[KeyOf(handle[g].id)] = n
                ELSE resource_callbacks'[KeyOf(handle[g].id)] =
                       resource_callbacks[KeyOf(handle[g].id)]
  <2>1. /\ KeyOf(handle[g].id) \in DOMAIN resource_callbacks
        /\ handle[g].id.accept_type \in
             Stored(resource_callbacks[KeyOf(handle[g].id)])
    BY ConnectedFacts DEF Exists, AcceptMap
  <2>2. KeyOf(handle[g].id) = KeyOf(id) =>
          handle[g].id.accept_type # id.accept_type
    BY <1>5, TypesDiffer
  <2>3. QED
    BY <1>2, <1>3, <2>1, <2>2
<1>7. Registered' = [g \in Connected \ {h} |-> handle[g].id]
  BY <1>5 DEF Registered
<1>8. Enabled' = Enabled \ {h}
  <2>1. ASSUME NEW g \in Connected \ {h}
        PROVE  IsEnabled(handle[g].id)' <=> IsEnabled(handle[g].id)
    <3> DEFINE k == KeyOf(handle[g].id)
               type == handle[g].id.accept_type
    <3>1. /\ k \in DOMAIN resource_callbacks
          /\ k \in DOMAIN resource_callbacks'
          /\ resource_callbacks'[k].map[type] = resource_callbacks[k].map[type]
      BY <1>2, <1>6
    <3>2. handle'[g].id = handle[g].id
      BY <1>5
    <3>3. QED
      BY <3>1, <3>2 DEF IsEnabled, Exists, Entry, AcceptMap
  <2>2. QED
    BY <1>5, <2>1 DEF Enabled
<1>9. ASSUME NEW f \in Connected \ {h}, NEW g \in Connected \ {h}
      PROVE  Earlier(handle[f].id, handle[g].id)' <=>
             Earlier(handle[f].id, handle[g].id)
  <2> DEFINE a == handle[f].id
             b == handle[g].id
  <2>1. handle'[f].id = a /\ handle'[g].id = b
    BY <1>5
  <2>2. KeyOf(a) = KeyOf(b) =>
          (Position(resource_callbacks'[KeyOf(a)], a.accept_type)
             < Position(resource_callbacks'[KeyOf(b)], b.accept_type)
           <=>
           Position(resource_callbacks[KeyOf(a)], a.accept_type)
             < Position(resource_callbacks[KeyOf(b)], b.accept_type))
    <3>1. CASE KeyOf(a) = KeyOf(id) /\ KeyOf(b) = KeyOf(id)
      BY <1>2, <1>4, <1>6, <3>1
    <3>2. CASE KeyOf(a) # KeyOf(id) /\ KeyOf(b) # KeyOf(id)
      BY <1>6, <3>2
    <3>3. QED
      BY <3>1, <3>2
  <2> HIDE DEF a, b
  <2>3. QED
    BY <2>1, <2>2 DEF Earlier, AcceptMap, a, b
<1>10. Before' = {pair \in Before : h \notin {pair[1], pair[2]}}
  BY <1>5, <1>9 DEF Before
<1>11. UNCHANGED Granted /\ \A p \in Processors : Granted[p] # h
  BY <1>1 DEF Granted, HoldersOf
<1>12. Registry!Unregister(h)
  BY <1>5, <1>7, <1>8, <1>10, <1>11
  DEF Registry!Unregister, Registry!Registered, Registered
<1>13. QED
  BY <1>1, <1>12

LEMMA InitMapped == Init => Registry!Init
  BY DEF Init, Registry!Init, Registered, Enabled, Before, Granted, Connected,
     Idle

(***************************************************************************)
(* Every step of the demultiplexer is a step of the registry or changes    *)
(* nothing of it.                                                          *)
(***************************************************************************)
LEMMA NextMapped ==
  ASSUME IInv, [Next]_vars
  PROVE  [Registry!Next]_(Registry!vars)
<1>1. ASSUME NEW p \in Processors, NEW request \in Requests,
             Determine(p, request)
      PROVE  Registry!Next
  BY <1>1, DetermineMapped DEF Registry!Next
<1>2. ASSUME NEW p \in Processors, Release(p)
      PROVE  Registry!Next
  BY <1>2, ReleaseMapped DEF Registry!Next
<1>3. ASSUME NEW p \in Processors, Call(p) \/ Return(p)
      PROVE  UNCHANGED Mapped
  BY <1>3, CallMapped
<1>4. ASSUME NEW t \in Controllers, Control(t)
      PROVE  Registry!Next \/ UNCHANGED Mapped
  <2>1. t \in Threads
    BY DEF Threads
  <2>2. ASSUME NEW h \in Handlers, NEW id \in Ids, CheckConnect(t, h, id)
        PROVE  UNCHANGED Mapped
    BY <2>1, <2>2, CheckConnectMapped
  <2>3. ASSUME NEW h \in Handlers, Disable(t, h) \/ Enable(t, h)
        PROVE  Registry!Next
    <3>1. Registry!Enable(h) \/ Registry!Disable(h)
      BY <2>1, <2>3, SetEnabledMapped DEF Disable, Enable
    <3>2. QED
      BY <3>1 DEF Registry!Next
  <2>4. ASSUME NEW h \in Handlers, Destroy(t, h)
        PROVE  UNCHANGED Mapped
    BY <2>1, <2>4, DestroyMapped
  <2>5. CASE Connect(t)
    BY <2>1, <2>5, ConnectMapped DEF Registry!Next
  <2>6. CASE EraseHandler(t)
    BY <2>1, <2>6, EraseMapped DEF Registry!Next
  <2>7. CASE Wait(t) \/ WakeSpuriously(t)
    BY <2>7, QuietMapped DEF Wait, WakeSpuriously
  <2>8. ASSUME NEW name, RegisterMimeType(t, name) \/ RegisterMimeSubtype(t, name)
        PROVE  UNCHANGED Mapped
    BY <2>8, QuietMapped DEF RegisterMimeType, RegisterMimeSubtype
  <2>9. ASSUME NEW value,
               UnregisterMimeType(t, value) \/ UnregisterMimeSubtype(t, value)
        PROVE  UNCHANGED Mapped
    BY <2>9, QuietMapped DEF UnregisterMimeType, UnregisterMimeSubtype
  <2>10. QED
    BY <1>4, <2>2, <2>3, <2>4, <2>5, <2>6, <2>7, <2>8, <2>9
    DEF Control, Disconnect
<1>5. ASSUME UNCHANGED vars
      PROVE  UNCHANGED Mapped
  BY <1>5, QuietMapped DEF vars
<1>6. Registry!Next \/ UNCHANGED Mapped
  BY <1>1, <1>2, <1>3, <1>4, <1>5 DEF Next, Process
<1>7. QED
  BY <1>6 DEF Mapped, Registry!vars

(***************************************************************************)
(* The demultiplexer implements the registry of its promises: an id has at *)
(* most one handler, requests are granted the handler that fits best, and  *)
(* a granted handler is not unregistered before it is given back.          *)
(***************************************************************************)
THEOREM Implementation == Spec => ImplementsRegistry
<1>1. Init => Registry!Init
  BY InitMapped
<1>2. IInv /\ [Next]_vars => [Registry!Next]_(Registry!vars)
  BY NextMapped
<1>3. QED
  BY <1>1, <1>2, Invariance, PTL DEF Spec, ImplementsRegistry, Registry!Spec
=============================================================================
