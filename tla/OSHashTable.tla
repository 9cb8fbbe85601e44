---------------------------- MODULE OSHashTable ----------------------------
(***************************************************************************)
(* The hash table of BaseServer (OSHashTable.h), in which the event        *)
(* contexts are found by their ids: chains through fNextHashEntry, the     *)
(* entry added last in front, and an iterator over all of them.            *)
(***************************************************************************)
EXTENDS Integers, Sequences, FiniteSets, Functions

CONSTANTS
  Entries,
  Sizes,     \* the sizes a table may have
  HashKeys,  \* what GetHashKey may return; two keys are equal if these are
  BitAnd(_, _), \* &
  Nothing    \* NULL

TableAssumption ==
  /\ Sizes \subseteq Nat \ {0} /\ HashKeys \subseteq Nat
  /\ \A h \in HashKeys, size \in Sizes : BitAnd(h, size - 1) \in 0 .. size - 1
  /\ Nothing \notin Entries

VARIABLES
  fSize,
  hashKey,        \* per entry, for as long as it lives
  fHashTable,     \* per index: the first of the chain
  fNextHashEntry,
  fNumEntries,
  fCurrent, fIndex, \* the iterator
  newest,         \* history: the entries in the table, the last one added first
  visited         \* history: what the iterator has stood on, in order

tableVars == <<fSize, hashKey, fHashTable, fNextHashEntry, fNumEntries, fCurrent, fIndex,
               newest, visited>>
iterVars == <<fCurrent, fIndex, visited>>

Empty(size, key) ==
  /\ fSize = size
  /\ hashKey = key
  /\ fHashTable = [i \in 0 .. size - 1 |-> Nothing]
  /\ fNextHashEntry = [e \in Entries |-> Nothing]
  /\ fNumEntries = 0
  /\ fCurrent = Nothing /\ fIndex = 0
  /\ newest = <<>> /\ visited = <<>>
TableInit == \E size \in Sizes, key \in [Entries -> HashKeys] : Empty(size, key)

-----------------------------------------------------------------------------
(* The mask is for sizes that are a power of 2; it is 0 for the others.    *)
fMask == IF BitAnd(fSize - 1, fSize) # 0 THEN 0 ELSE fSize - 1
ComputeIndex(h) == IF fMask # 0 THEN BitAnd(h, fMask) ELSE h % fSize
IndexOf(e) == ComputeIndex(hashKey[e])

Add(e) ==
  /\ visited = <<>> /\ e \notin Range(newest)
  /\ fNextHashEntry' = [fNextHashEntry EXCEPT ![e] = fHashTable[IndexOf(e)]]
  /\ fHashTable' = [fHashTable EXCEPT ![IndexOf(e)] = e]
  /\ fNumEntries' = fNumEntries + 1
  /\ newest' = <<e>> \o newest
  /\ UNCHANGED <<fSize, hashKey, iterVars>>

(* The first entry of a chain that is one of stops, if there is one, and   *)
(* the one before an entry.                                                *)
Walk(first, stops) ==
  LET from[e \in Entries \cup {Nothing}] ==
        IF e \in stops \cup {Nothing} THEN e ELSE from[fNextHashEntry[e]]
  IN from[first]
Before(e) == Walk(fHashTable[IndexOf(e)], {x \in Entries : fNextHashEntry[x] = e})

DropsChain(e) == [fHashTable EXCEPT ![IndexOf(e)] = Nothing] \* wrong: with what follows
WithoutFirst(e) == [fHashTable EXCEPT ![IndexOf(e)] = fNextHashEntry[e]]

PlaceIn(e) == CHOOSE p \in DOMAIN newest : newest[p] = e

(* "sometimes remove is called 2x": nothing then.                          *)
RemoveEntry(e) ==
  /\ visited = <<>>
  /\ IF Walk(fHashTable[IndexOf(e)], {e}) = Nothing
     THEN UNCHANGED <<fHashTable, fNextHashEntry, fNumEntries, newest>>
     ELSE /\ IF fHashTable[IndexOf(e)] = e
             THEN /\ fHashTable' = WithoutFirst(e)
                  /\ fNextHashEntry' = [fNextHashEntry EXCEPT ![e] = Nothing]
             ELSE /\ fNextHashEntry' = [fNextHashEntry EXCEPT ![Before(e)] = fNextHashEntry[e],
                                                              ![e] = Nothing]
                  /\ UNCHANGED fHashTable
          /\ fNumEntries' = fNumEntries - 1
          /\ newest' = SubSeq(newest, 1, PlaceIn(e) - 1)
                         \o SubSeq(newest, PlaceIn(e) + 1, Len(newest))
  /\ UNCHANGED <<fSize, hashKey, iterVars>>

Map(key) == Walk(fHashTable[ComputeIndex(key)], {e \in Entries : hashKey[e] = key})

-----------------------------------------------------------------------------
(* The iterator; the table does not change while it is used.               *)
Chains(from) == {i \in from .. fSize - 1 : fHashTable[i] # Nothing}
StandsOn(i, e) ==
  /\ fIndex' = i /\ fCurrent' = e
  /\ visited' = IF e = Nothing THEN visited ELSE Append(visited, e)
NextChain(from) ==
  IF Chains(from) = {} THEN StandsOn(fSize, Nothing)
  ELSE LET i == CHOOSE i \in Chains(from) : \A j \in Chains(from) : i <= j
       IN StandsOn(i, fHashTable[i])

First ==
  /\ fCurrent = Nothing /\ visited = <<>>
  /\ NextChain(0)
  /\ UNCHANGED <<fSize, hashKey, fHashTable, fNextHashEntry, fNumEntries, newest>>

NextEntry ==
  IF fNextHashEntry[fCurrent] # Nothing THEN StandsOn(fIndex, fNextHashEntry[fCurrent])
  ELSE NextChain(fIndex + 1)

IterateOn ==
  /\ fCurrent # Nothing
  /\ NextEntry
  /\ UNCHANGED <<fSize, hashKey, fHashTable, fNextHashEntry, fNumEntries, newest>>

(* The iterator is forgotten when it IsDone.                               *)
IterationOver ==
  /\ fCurrent = Nothing /\ visited # <<>>
  /\ visited' = <<>> /\ fIndex' = 0
  /\ UNCHANGED <<fSize, hashKey, fHashTable, fNextHashEntry, fNumEntries, fCurrent, newest>>

TableNext ==
  \/ \E e \in Entries : Add(e) \/ RemoveEntry(e)
  \/ First \/ IterateOn \/ IterationOver

TableSpec == TableInit /\ [][TableNext]_tableVars

-----------------------------------------------------------------------------
(* Map returns the newest entry with a key ("the Map function will return  *)
(* only the first one", OSHashTable.h:44), whatever shares its chain and   *)
(* was removed from it, and the iterator visits every entry once.          *)
MapFindsNewest ==
  \A key \in HashKeys :
    LET having == {p \in DOMAIN newest : hashKey[newest[p]] = key}
    IN IF having = {} THEN Map(key) = Nothing
       ELSE \E p \in having : Map(key) = newest[p] /\ \A q \in having : p <= q
VisitsAll ==
  fCurrent = Nothing /\ visited # <<>> =>
    Len(visited) = Len(newest) /\ Range(visited) = Range(newest)
TableRight == fNumEntries = Len(newest) /\ MapFindsNewest /\ VisitsAll
=============================================================================
