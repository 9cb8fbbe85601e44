------------------------------ MODULE OSQueue ------------------------------
(***************************************************************************)
(* The queue of BaseServer (OSQueue.cpp), on which the tasks of a thread,  *)
(* its blocking queue and the timeouts wait: a ring of elements linked     *)
(* both ways through a sentinel.  Elements come in behind the sentinel and *)
(* leave before it; Remove takes one out of the middle (TakeOut).  What it *)
(* is meant to be is a sequence, kept beside it as `order`.                *)
(***************************************************************************)
EXTENDS Integers, Sequences

SeqsExt == INSTANCE SequencesExt

CONSTANTS
  QueueElems, \* the elements (OSQueueElem)
  Sentinel,   \* fSentinel
  Null        \* NULL

ASSUME QueueAssumption == Sentinel \notin QueueElems /\ Null \notin QueueElems \cup {Sentinel}

VARIABLES
  fNext, fPrev,  \* per element and the sentinel; in no queue they may be anything
  fQueue,        \* the elements whose fQueue is this queue
  fLength,
  order          \* history: the elements, the one to leave first first

queueVars == <<fNext, fPrev, fQueue, fLength, order>>
Links == QueueElems \cup {Sentinel}

QueueInit ==
  /\ fNext = [l \in Links |-> IF l = Sentinel THEN Sentinel ELSE Null]
  /\ fPrev = [l \in Links |-> IF l = Sentinel THEN Sentinel ELSE Null]
  /\ fQueue = {}
  /\ fLength = 0
  /\ order = <<>>

-----------------------------------------------------------------------------
GetHead == IF fLength > 0 THEN fPrev[Sentinel] ELSE Null
GetTail == IF fLength > 0 THEN fNext[Sentinel] ELSE Null

(* OSQueueIter goes from the head to the tail.                             *)
IterNext(elem) == IF elem = GetTail THEN Null ELSE fPrev[elem]

(* An element that is in the queue stays where it is.                      *)
LinkedIn(elem) ==
  LET newest == fNext[Sentinel]
  IN /\ fPrev' = [fPrev EXCEPT ![elem] = Sentinel, ![newest] = elem]
     /\ fNext' = [fNext EXCEPT ![elem] = newest, ![Sentinel] = elem]

EnQueue(elem) ==
  IF elem \in fQueue THEN UNCHANGED queueVars
  ELSE /\ LinkedIn(elem)
       /\ fQueue' = fQueue \cup {elem}
       /\ fLength' = fLength + 1
       /\ order' = Append(order, elem)

(* fNext and fPrev of the element that leaves keep what they had.          *)
NewHead(elem) ==
  /\ fNext' = [fNext EXCEPT ![fPrev[elem]] = Sentinel]
  /\ fPrev' = [fPrev EXCEPT ![Sentinel] = fPrev[elem]]

DeQueue ==
  IF fLength = 0 THEN UNCHANGED queueVars
  ELSE LET elem == fPrev[Sentinel]
       IN /\ NewHead(elem)
          /\ fQueue' = fQueue \ {elem}
          /\ fLength' = fLength - 1
          /\ order' = Tail(order)

OneWay(elem) == fPrev' = [fPrev EXCEPT ![fNext[elem]] = fPrev[elem]] /\ UNCHANGED fNext \* wrong
LinkedOut(elem) ==
  /\ fPrev' = [fPrev EXCEPT ![fNext[elem]] = fPrev[elem]]
  /\ fNext' = [fNext EXCEPT ![fPrev[elem]] = fNext[elem]]

PlaceOf(elem) == CHOOSE i \in DOMAIN order : order[i] = elem
TakeOut(elem) ==
  IF elem \notin fQueue THEN UNCHANGED queueVars
  ELSE /\ LinkedOut(elem)
       /\ fQueue' = fQueue \ {elem}
       /\ fLength' = fLength - 1
       /\ order' = SeqsExt!RemoveAt(order, PlaceOf(elem))

QueueNext ==
  \/ \E e \in QueueElems : EnQueue(e)
  \/ DeQueue
  \/ \E e \in QueueElems : TakeOut(e)

QueueSpec == QueueInit /\ [][QueueNext]_queueVars

-----------------------------------------------------------------------------
(* The links spell the sequence forwards and backwards, from sentinel to   *)
(* sentinel, and nobody is on it twice.                                    *)
At(i) == IF i \in DOMAIN order THEN order[i] ELSE Sentinel
Ringed ==
  /\ fLength = Len(order)
  /\ fQueue = {order[i] : i \in DOMAIN order}
  /\ \A i, j \in DOMAIN order : order[i] = order[j] => i = j
  /\ \A i \in 0 .. Len(order) : fPrev[At(i)] = At(i + 1) /\ fNext[At(i + 1)] = At(i)

(* OSQueueIter meets every element, the one to leave first first.          *)
OldestFirst ==
  /\ GetHead = IF order = <<>> THEN Null ELSE order[1]
  /\ \A i \in DOMAIN order :
       IterNext(order[i]) = IF i < Len(order) THEN order[i + 1] ELSE Null

(* However elements come, leave in turn or are taken out (OSQueue.cpp:42,  *)
(* :56, :72), the queue is a ring of those that are on it, and an iterator *)
(* goes from the oldest to the newest.  So the heads and tails of          *)
(* OSQueue::Test are found, but not its order of iteration                 *)
(* (OSQueue.cpp:173-191), which is from the newest to the oldest.          *)
Linked == Ringed /\ OldestFirst
=============================================================================
