--------------------------- MODULE ContainerTests ---------------------------
(***************************************************************************)
(* The unit tests of the containers: the prefix tree, the tables of MIME   *)
(* names and the ordered MIME map.  A test is the sequence of its calls    *)
(* with what each is expected to return; the models pass them.             *)
(***************************************************************************)
EXTENDS Naturals, Sequences
LOCAL INSTANCE SequencesExt
LOCAL INSTANCE Characters

Letters == {"a", "b", "c", "d", "e", "f", "g", "h", "i", "blank"}

Capitals == [c \in {"a", "b", "c"} |-> CHOOSE u \in {"A", "B", "C"} :
                                          to_lower(CodeOf(u)) = CodeOf(c)]

OtherCase ==
  [c \in DOMAIN Capitals \cup {"A", "B", "C"} |->
     IF c \in DOMAIN Capitals THEN Capitals[c] ELSE CharOf(to_lower(CodeOf(c)))]

Exact == INSTANCE Trie
  WITH Chars <- Letters \cup {"C"}, Pendant <- <<>>, UpperCase <- {"C"}

IgnoringCase == INSTANCE Trie
  WITH Chars <- Letters \cup {"A", "B", "C"}, Pendant <- OtherCase,
       UpperCase <- {"A", "B", "C"}

Map == INSTANCE OrderedMimeMap

-----------------------------------------------------------------------------
(* The calls of a tree: what is expected of insert and erase is TRUE or    *)
(* FALSE, and of find the length and the value of what is found.           *)
insert(token, value, expected) == <<"insert", token, value, expected>>
erase(token, expected)         == <<"erase", token, 0, expected>>
find(token, used_size, value)  == <<"find", token, 0, <<used_size, value>>>>

ExactAfter(nodes, call) ==
  CASE call[1] = "insert" -> Exact!Insert(nodes, CharsOf(call[2]), call[3])
    [] call[1] = "erase"  -> Exact!Erase(nodes, CharsOf(call[2]))
    [] OTHER -> nodes

ExactAnswer(nodes, call) ==
  LET found == Exact!Find(nodes, CharsOf(call[2]))
  IN  CASE call[1] = "insert" -> ~Exact!Holds(nodes, CharsOf(call[2]))
        [] call[1] = "erase"  -> Exact!Holds(nodes, CharsOf(call[2]))
        [] OTHER              -> <<found.used_size, found.value>>

AfterIgnoringCase(nodes, call) ==
  CASE call[1] = "insert" -> IgnoringCase!Insert(nodes, CharsOf(call[2]), call[3])
    [] call[1] = "erase"  -> IgnoringCase!Erase(nodes, CharsOf(call[2]))
    [] OTHER -> nodes

AnswerIgnoringCase(nodes, call) ==
  LET found == IgnoringCase!Find(nodes, CharsOf(call[2]))
  IN  CASE call[1] = "insert" -> ~IgnoringCase!Holds(nodes, CharsOf(call[2]))
        [] call[1] = "erase"  -> IgnoringCase!Holds(nodes, CharsOf(call[2]))
        [] OTHER              -> <<found.used_size, found.value>>

Passes(After(_, _), Answer(_, _), new, calls) ==
  \A i \in DOMAIN calls :
    Answer(FoldLeft(After, new, SubSeq(calls, 1, i - 1)), calls[i]) = calls[i][4]

TrieTests ==
  {<<find("abc", 0, 0)>>,
   <<insert("abc", 1, TRUE), erase("ab", FALSE), erase("abcd", FALSE),
     erase("abc", TRUE), find("abc", 0, 0)>>,
   <<insert("abc", 1, TRUE), insert("def", 2, TRUE),
     find("abc", 3, 1), find("abcd", 3, 1), find("abcdef", 3, 1),
     find("def", 3, 2), find("defg", 3, 2), find("defgh", 3, 2),
     erase("abcdef", FALSE), erase("abC", FALSE), erase("abc", TRUE),
     erase("defghi", FALSE), erase("def", TRUE)>>,
   <<insert("abc", 1, TRUE), insert("abc", 1, FALSE),
     erase("abc", TRUE), erase("abc", FALSE)>>}

PartialTrieTests ==
  {<<insert("abc", 1, TRUE), insert("abcdef", 2, TRUE),
     find("abc", 3, 1), find("abcd", 3, 1), find("abcdef", 6, 2),
     find("abcdefgh", 6, 2), erase("abc", TRUE), erase("abcdef", TRUE)>>,
   <<insert("abcdef", 3, TRUE), insert("abC", 2, TRUE), insert("abc", 1, TRUE),
     erase("abcdef", TRUE), erase("abC", TRUE), erase("abc", TRUE)>>,
   <<insert("abc", 1, TRUE), insert("abC", 2, TRUE),
     erase("abc", TRUE), erase("abC", TRUE)>>}

FindsAll(tokens, used_size) == [i \in DOMAIN tokens |-> find(tokens[i], used_size, 1)]

CaseInsensitiveTrieTests ==
  {<<insert("abc", 1, TRUE), insert("ABC", 2, FALSE),
     erase("ABC", TRUE), erase("abc", FALSE)>>,
   <<insert("abc", 1, TRUE)>>
     \o FindsAll(<<"abc", "Abc", "aBc", "abC", "aBC", "AbC", "ABc", "ABC">>, 3)
     \o <<erase("abc", TRUE)>>,
   <<insert("a b c", 1, TRUE)>>
     \o FindsAll(<<"a b c", "A b c", "a B c", "a b C", "a B C", "A b C",
                   "A B c", "A B C">>, 5)
     \o <<erase("a b c", TRUE)>>}

ASSUME TrieTestsPass ==
  /\ \A test \in TrieTests \cup PartialTrieTests :
       Passes(ExactAfter, ExactAnswer, Exact!NewTrie, test)
  /\ \A test \in CaseInsensitiveTrieTests :
       Passes(AfterIgnoringCase, AnswerIgnoringCase, IgnoringCase!NewTrie, test)

-----------------------------------------------------------------------------
(* A name is its word and its spelling; a counter has eight bits. *)
byte_states == 256

NameOf(string) ==
  IF string = "" THEN Map!Empty
  ELSE <<[i \in 1 .. Len(string) |-> CharOf(to_lower(CodeOf(CharsOf(string)[i])))],
         CharsOf(string)>>

NewTable == Map!NewTable(byte_states)
abc_type == Map!RegisteredValue(NewTable, NameOf("abc"))
WithAbc  == Map!RegisterType(NewTable, NameOf("abc"), byte_states)

MimeDataTests ==
  /\ \A string \in {"abc", "ABC"} : Map!ParseType(NewTable, NameOf(string)) = Map!INVALID
  /\ abc_type # Map!INVALID
  /\ \A string \in {"abc", "ABC"} :
       Map!RegisteredValue(WithAbc, NameOf(string)) = Map!INVALID
  /\ \A string \in {"abc", "Abc", "aBc", "abC", "ABc", "aBC", "AbC", "ABC"} :
       Map!ParseType(WithAbc, NameOf(string)) = abc_type
  /\ \A string \in {"abcdef", "xyzabcdef"} :
       Map!ParseType(WithAbc, NameOf(string)) = Map!INVALID
  /\ Map!RegisteredValue(NewTable, NameOf("")) = Map!INVALID
  /\ ~Map!IsRegistered(WithAbc, Map!INVALID)
  /\ Map!IsRegistered(WithAbc, abc_type)
  /\ ~Map!IsRegistered(Map!UnregisterType(WithAbc, abc_type), abc_type)

-----------------------------------------------------------------------------
none     == <<Map!NONE, Map!NONE>>
another  == <<100, 100>>
wildcard == <<Map!WILDCARD, Map!WILDCARD>>

Inserted(m, type, code) == IF Map!CanInsert(m, type) THEN Map!Insert(m, type, code) ELSE m
Erased(m, type)         == IF Map!CanErase(m, type) THEN Map!Erase(m, type) ELSE m

WithNone == Inserted(Map!EmptyMimeMap, none, "OK")
WithBoth == Inserted(WithNone, another, "FOUND")
UsedNone == Map!IncreaseUsage(WithNone, none)
SizeOf(m) == Len(m.vector)

InsertTests ==
  /\ SizeOf(Map!EmptyMimeMap) = 0 /\ SizeOf(WithNone) = 1 /\ SizeOf(WithBoth) = 2
  /\ SizeOf(Inserted(WithNone, none, "OK")) = 1
  /\ Map!CanInsert(Map!EmptyMimeMap, none) /\ ~Map!CanInsert(WithNone, none)
  /\ Map!CanInsert(WithNone, another)
  /\ \A type \in {<<Map!WILDCARD, 100>>, <<100, Map!WILDCARD>>, wildcard} :
       ~Map!CanInsert(Map!EmptyMimeMap, type)

EraseTests ==
  /\ ~Map!CanErase(Map!EmptyMimeMap, none)
  /\ Map!CanErase(WithNone, none) /\ SizeOf(Erased(WithNone, none)) = 0
  /\ Map!CanErase(WithBoth, none) /\ SizeOf(Erased(WithBoth, none)) = 1
  /\ SizeOf(Erased(Erased(WithBoth, none), another)) = 0
  /\ ~Map!CanErase(UsedNone, none)
  /\ Map!CanErase(Map!DecreaseUsage(UsedNone, none), none)

FindTests ==
  /\ Map!Find(Map!EmptyMimeMap, none) = {}
  /\ \A type \in {none, <<Map!WILDCARD, Map!NONE>>, <<Map!NONE, Map!WILDCARD>>, wildcard} :
       Map!Find(WithNone, type) = {none}
  /\ Map!Find(Inserted(Inserted(Map!EmptyMimeMap, another, "FOUND"), none, "OK"), none) = {none}
  /\ \A available \in BOOLEAN :
       LET switched == Map!SetAvailability(WithNone, none, available)
       IN  /\ Map!IsAvailable(switched, none) = available
           /\ Map!Find(switched, none) = IF available THEN {none} ELSE {}

ASSUME MimeTestsPass == MimeDataTests /\ InsertTests /\ EraseTests /\ FindTests
=============================================================================
