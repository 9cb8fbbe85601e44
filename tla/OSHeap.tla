------------------------------- MODULE OSHeap -------------------------------
(***************************************************************************)
(* The heap of timeouts (OSHeap.cpp): an array in which every element is   *)
(* at most its two children.  Insert and Extract let one element rise or   *)
(* sink, a swap at a time.  The caller's mutex is held throughout, so the  *)
(* operations do not overlap; what other threads see between two swaps is  *)
(* an element's fCurrentHeap (IsMemberOfAnyHeap), which each of them sets  *)
(* at its own end.                                                         *)
(*                                                                         *)
(* fHeap holds the elements 1 .. fFreeIndex - 1 of the array, and while    *)
(* Insert runs the new leaf at fFreeIndex as well.                         *)
(***************************************************************************)
EXTENDS Integers, Sequences

CONSTANTS
  Elems,      \* the elements (OSHeapElem)
  Values,     \* what SetValue may give an element
  StartSize,  \* inStartSize
  Nil         \* no element

ASSUME HeapAssumption ==
  /\ Values \subseteq Int
  /\ StartSize \in Nat
  /\ Nil \notin Elems

VARIABLES
  fHeap,         \* the array, from index 1
  fArraySize,    \* how many places it has, with the unused place 0
  fValue,        \* per element
  fCurrentHeap,  \* per element: whether it is in the heap
  heapPc,        \* "idle", "rises" in Insert, or "sinks" in Extract
  pos,           \* swapPos of Insert, parent of Extract
  moved,         \* the element that is inserted
  victim,        \* what Extract returns, or returned last
  cut            \* history: Remove has put a leaf under a greater parent

heapVars == <<fHeap, fArraySize, fValue, fCurrentHeap, heapPc, pos, moved, victim, cut>>

HeapInit ==
  /\ fHeap = <<>>
  /\ fArraySize = IF StartSize < 2 THEN 2 ELSE StartSize
  /\ fValue = [e \in Elems |-> 0]
  /\ fCurrentHeap = [e \in Elems |-> FALSE]
  /\ heapPc = "idle"
  /\ pos = 1
  /\ moved = Nil
  /\ victim = Nil
  /\ cut = FALSE

-----------------------------------------------------------------------------
ValueAt(i) == fValue[fHeap[i]]
Less(i, j) == ValueAt(i) < ValueAt(j)
Swapped(i, j) == [fHeap EXCEPT ![i] = fHeap[j], ![j] = fHeap[i]]

PeekMin == IF fHeap = <<>> THEN Nil ELSE fHeap[1]

(* SetValue and Insert: the element goes into the last leaf.  A full array *)
(* is doubled first.                                                       *)
Grown(size) == IF Len(fHeap) + 1 = size THEN 2 * size ELSE size

Insert(e) ==
  /\ heapPc = "idle"
  /\ fHeap' = Append(fHeap, e)
  /\ fArraySize' = Grown(fArraySize)
  /\ heapPc' = "rises"
  /\ pos' = Len(fHeap) + 1
  /\ moved' = e
  /\ UNCHANGED <<fValue, fCurrentHeap, victim, cut>>

MustRise == pos > 1 /\ Less(pos, pos \div 2)

Rises ==
  /\ heapPc = "rises"
  /\ MustRise
  /\ fHeap' = Swapped(pos, pos \div 2)
  /\ pos' = pos \div 2
  /\ UNCHANGED <<fArraySize, fValue, fCurrentHeap, heapPc, moved, victim, cut>>

InsertEnds ==
  /\ heapPc = "rises"
  /\ ~MustRise
  /\ fCurrentHeap' = [fCurrentHeap EXCEPT ![moved] = TRUE]
  /\ heapPc' = "idle"
  /\ pos' = 1 /\ moved' = Nil
  /\ UNCHANGED <<fHeap, fArraySize, fValue, victim, cut>>

-----------------------------------------------------------------------------
(* Extract: the last leaf goes to the place of the element extracted, and  *)
(* sinks from there.                                                       *)
LastLeaf == fHeap[Len(fHeap)]
LeafMoved(i) == SubSeq([fHeap EXCEPT ![i] = LastLeaf], 1, Len(fHeap) - 1)

Extract(i) ==
  /\ heapPc = "idle"
  /\ victim' = fHeap[i]
  /\ fCurrentHeap' = [fCurrentHeap EXCEPT ![fHeap[i]] = FALSE]
  /\ fHeap' = LeafMoved(i)
  /\ heapPc' = "sinks"
  /\ pos' = i
  /\ cut' = (cut \/ (i \in 2 .. Len(fHeap) - 1 /\ fValue[LastLeaf] < ValueAt(i \div 2)))
  /\ UNCHANGED <<fArraySize, fValue, moved>>

ExtractMin == fHeap # <<>> /\ Extract(1)

Remove(e) == \E i \in DOMAIN fHeap : fHeap[i] = e /\ Extract(i)

(* The least of a place and its children; of equal ones the place, then    *)
(* the left child.                                                         *)
LeftOnly(i) == IF 2 * i <= Len(fHeap) /\ Less(2 * i, i) THEN 2 * i ELSE i \* wrong
Greatest(i) ==
  LET left    == 2 * i
      right   == 2 * i + 1
      greater == IF left <= Len(fHeap) /\ Less(left, i) THEN left ELSE i
  IN IF right <= Len(fHeap) /\ Less(right, greater) THEN right ELSE greater

Sinks ==
  /\ heapPc = "sinks"
  /\ pos <= Len(fHeap)
  /\ Greatest(pos) # pos
  /\ fHeap' = Swapped(pos, Greatest(pos))
  /\ pos' = Greatest(pos)
  /\ UNCHANGED <<fArraySize, fValue, fCurrentHeap, heapPc, moved, victim, cut>>

ExtractEnds ==
  /\ heapPc = "sinks"
  /\ pos <= Len(fHeap) => Greatest(pos) = pos
  /\ heapPc' = "idle"
  /\ pos' = 1
  /\ UNCHANGED <<fHeap, fArraySize, fValue, fCurrentHeap, moved, victim, cut>>

-----------------------------------------------------------------------------
HeapGoesOn == Rises \/ InsertEnds \/ Sinks \/ ExtractEnds

(* SetValue, of an element in no heap.                                     *)
SetValue(e, v) ==
  /\ heapPc = "idle"
  /\ ~fCurrentHeap[e]
  /\ fValue' = [fValue EXCEPT ![e] = v]
  /\ UNCHANGED <<fHeap, fArraySize, fCurrentHeap, heapPc, pos, moved, victim, cut>>

HeapNext ==
  \/ \E e \in Elems, v \in Values : SetValue(e, v)
  \/ \E e \in Elems : ~fCurrentHeap[e] /\ Insert(e)
  \/ ExtractMin
  \/ \E e \in Elems : Remove(e)
  \/ HeapGoesOn

HeapSpec == HeapInit /\ [][HeapNext]_heapVars

-----------------------------------------------------------------------------
HeapTypeOK ==
  /\ fHeap \in Seq(Elems)
  /\ fArraySize \in Nat
  /\ fValue \in [Elems -> Int]
  /\ fCurrentHeap \in [Elems -> BOOLEAN]
  /\ heapPc \in {"idle", "rises", "sinks"}
  /\ pos \in Nat \ {0}
  /\ moved \in Elems \cup {Nil} /\ victim \in Elems \cup {Nil}
  /\ cut \in BOOLEAN

(* The places of the array are the elements that say they are in the heap, *)
(* each of them once (Assert(inElem->fCurrentHeap == NULL), OSHeap.cpp:66),*)
(* and there are places enough (Assert(fArraySize > fFreeIndex), :67),     *)
(* whatever is inserted, extracted and removed.                            *)
HeldOnce ==
  /\ \A i, j \in DOMAIN fHeap : fHeap[i] = fHeap[j] => i = j
  /\ \A e \in Elems :
       (\E i \in DOMAIN fHeap : fHeap[i] = e)
         <=> (fCurrentHeap[e] \/ (heapPc = "rises" /\ moved = e))
  /\ Len(fHeap) < fArraySize

(* SanityCheck(1): as long as nothing was removed from the middle whose    *)
(* last leaf is less than the new parent; Extract does not let it rise.    *)
Ordered(i) == i \in 2 .. Len(fHeap) => ValueAt(i \div 2) <= ValueAt(i)
SanityCheck == heapPc = "idle" /\ ~cut => \A i \in DOMAIN fHeap : Ordered(i)

(* What holds of the heap alone, whatever is inserted, extracted and       *)
(* removed.                                                                *)
HeapRight == HeapTypeOK /\ HeldOnce /\ SanityCheck
=============================================================================
