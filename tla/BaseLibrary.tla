---------------------------- MODULE BaseLibrary ----------------------------
(***************************************************************************)
(* The containers and the readers' and writers' lock of BaseServer, each   *)
(* driven by any sequence of calls its callers may make: a behaviour       *)
(* exercises one of them, and the others rest.                             *)
(***************************************************************************)
EXTENDS OSMutexRW, OSHeap, TimeoutTask, OSHashTable

VARIABLE part

ASSUME LibraryAssumption ==
  /\ LockAssumption
  /\ TableAssumption

timeouts == <<taskTimes, runVars>>
libraryVars == <<part, heapVars, lockVars, queueVars, timeouts, tableVars>>

(* The parts that choose their first state rest in one of them.            *)
LibraryInit ==
  /\ part \in {"heap", "lock", "queue", "timeouts", "table"}
  /\ HeapInit /\ LockInit
  /\ TimeoutInit
  /\ IF part = "table" THEN TableInit ELSE Empty(1, [e \in Entries |-> 0])

LibraryNext ==
  \/ /\ part = "heap" /\ HeapNext
     /\ UNCHANGED <<part, lockVars, queueVars, timeouts, tableVars>>
  \/ /\ part = "lock" /\ LockNext
     /\ UNCHANGED <<part, heapVars, queueVars, timeouts, tableVars>>
  \/ /\ part = "queue" /\ QueueNext
     /\ UNCHANGED <<part, heapVars, lockVars, timeouts, tableVars>>
  \/ /\ part = "timeouts" /\ TimeoutNext
     /\ UNCHANGED <<part, heapVars, lockVars, tableVars>>
  \/ /\ part = "table" /\ TableNext
     /\ UNCHANGED <<part, heapVars, lockVars, queueVars, timeouts>>

LibrarySpec == LibraryInit /\ [][LibraryNext]_libraryVars

-----------------------------------------------------------------------------
(* What HeapRight says of the heap is said in OSHeap: its order            *)
(* (OSHeap.cpp:184) and who is in it, whatever is inserted, extracted and  *)
(* removed, so that ExtractMin gives the least.                            *)

(* What LockRight and NobodyForgotten say of the lock is said in           *)
(* OSMutexRW: it knows its mutex's holder (OSMutex.cpp:107), its only      *)
(* writer is alone (OSMutexRW.h:68, :94), and nobody waits for it in vain  *)
(* (OSMutexRW.cpp:129, :143).                                              *)

(* Linked, of OSQueue: the queue's links are a sequence both ways, which   *)
(* an iterator walks from the oldest (OSQueue.cpp:72, :221), so that, as   *)
(* ScannedInTime of TimeoutTask says, the scan for timeouts finds everyone *)
(* and comes back in time (TimeoutTask.cpp:101).                           *)

(* TableRight, of OSHashTable: the table finds what is in it, and its      *)
(* iterator visits everyone (OSHashTable.h:44).                            *)
=============================================================================
