\* Two sessions, two rankings, requests both for the best two.
CONSTANTS
  TreeLists <- MCTreeLists
  KeyOrder <- MCKeyOrder
  ValidIds = {"h1", "h2"}
  atoi <- MCatoi
  Readers = {r1, r2}
  Nums = {2}
  MaxMemos = 2
SPECIFICATION Spec
INVARIANTS
  MemoIsSum
  RankingServed
SYMMETRY MCSymmetry
