\* Limit is 2^3 instead of 2^8, so that the counter wraps.
SPECIFICATION SpecTrie
CONSTANTS
  Names <- SomeNames
  Limit = 8
  Chars = {"a", "A", "b", "B", "*"}
  UpperCase = {"A", "B"}
  Pendant <- CaseOf
  Texts <- SomeTexts
INVARIANTS
  TablesAgree
  RetiredStayRetired
  NodesAreOwnedOnce
  TrieHoldsNames
