------------------------------ MODULE MimeTrie ------------------------------
(***************************************************************************)
(* mime_data with the prefix tree its names are kept in.  MimeTable takes  *)
(* types_ for a function from case-folded names to values; here the tree   *)
(* goes through the same calls, and has to agree with the function.        *)
(*                                                                         *)
(* A name is a pair <<word, spelling>> of sequences of characters, the     *)
(* word being the spelling in small letters.                               *)
(***************************************************************************)
EXTENDS MimeTable, Trie

CONSTANT
  Texts   \* the texts that are searched, as sequences of characters

VARIABLE
  nodes   \* the nodes of types_

trieVars == <<vars, nodes>>

Spelling(name) == name[2]

(* The word of a spelling: the tree ignores the case of letters. *)
Word(text) ==
  [i \in DOMAIN text |-> IF text[i] \in UpperCase THEN Pendant[text[i]]
                                                  ELSE text[i]]

ASSUME SpellingAssumption ==
  /\ UpperCase \cap Chars \subseteq DOMAIN Pendant
  /\ Texts \subseteq Seq(Chars)
  /\ \A name \in Names \cup {Star} :
       /\ Spelling(name) \in Seq(Chars)
       /\ name = <<Word(Spelling(name)), Spelling(name)>>

InitTrie ==
  /\ Init
  /\ nodes = Insert(NewTrie, Spelling(Star), WILDCARD)

RegisterInTrie(name) ==
  /\ Register(name)
  /\ nodes' = IF name # Empty /\ table.next # 0
              THEN Insert(nodes, Spelling(name), table.next)
              ELSE nodes

UnregisterInTrie(value) ==
  /\ Unregister(value)
  /\ nodes' = Erase(nodes, Spelling(table.registered[value]))

NextTrie ==
  \/ \E name \in Names : RegisterInTrie(name)
  \/ \E value \in WILDCARD .. Limit - 1 : UnregisterInTrie(value)

SpecTrie == InitTrie /\ [][NextTrie]_trieVars

-----------------------------------------------------------------------------
(***************************************************************************)
(* The nodes stay a tree under every order of insertions and erasures:     *)
(* pointers lead to nodes that exist, used_children_ counts them, the      *)
(* destructor deletes every node once, though two pointers lead to it, and *)
(* no node is kept that leads to no value.                                 *)
(***************************************************************************)
NodesAreOwnedOnce ==
  \A n \in DOMAIN nodes :
    /\ \A c \in Chars : nodes[n].children[c] \in {NULL} \cup DOMAIN nodes
    /\ nodes[n].used_children
         = Cardinality({c \in Chars : nodes[n].children[c] # NULL})
    /\ n # Root =>
         /\ ~IsUseless(nodes[n])
         /\ Cardinality({owner \in (DOMAIN nodes) \X Chars :
                           /\ Deletes(nodes[owner[1]], owner[2])
                           /\ nodes[owner[1]].children[owner[2]] = n}) = 1

(***************************************************************************)
(* find "will always find the longest result", in any spelling: the tree   *)
(* holds exactly the names that are registered, with their values, and     *)
(* parse_type reads them from it.                                          *)
(***************************************************************************)
TrieHoldsNames ==
  \A text \in Texts :
    LET prefixes == {k \in 1 .. Len(text) :
                       Word(SubSeq(text, 1, k)) \in DOMAIN table.trie}
        result   == Find(nodes, text)
    IN  /\ IF prefixes = {} THEN result.used_size = 0
           ELSE /\ result.used_size \in prefixes
                /\ \A k \in prefixes : k <= result.used_size
                /\ result.value
                     = table.trie[Word(SubSeq(text, 1, result.used_size))]
        /\ ParseType(table, <<Word(text), text>>)
             = IF result.used_size = Len(text) THEN result.value ELSE INVALID
=============================================================================
