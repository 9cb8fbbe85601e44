--------------------------- MODULE LibraryProofs ---------------------------
(***************************************************************************)
(* Proofs about BaseServer: the readers' and writers' lock, for any number *)
(* of readers and writers; the heap of timeouts, for any elements and      *)
(* values; the idle thread on that heap, for any tasks and delays; the     *)
(* queue, for any elements; the scan for timeouts on that queue; the hash  *)
(* table, for any entries, sizes and keys; and the string parser, for any  *)
(* texts.                                                                  *)
(***************************************************************************)
EXTENDS OSMutexRW, IdleTimer, TimeoutTask, OSHashTable, StringParser,
        FiniteSetTheorems, SequenceTheorems, TLAPS

L == INSTANCE SequenceLemmas

-----------------------------------------------------------------------------
(* The lock                                                                *)

(* What LockRight rests on: what a thread calls in each of its places ...  *)
CallKnown ==
  \A t \in Locking :
    /\ lockPc[t] \in {"lock", "body"} => call[t] \in Calls
    /\ lockPc[t] \in {"test", "wait"} => call[t] \in {"LockRead", "LockWrite"}
    /\ lockPc[t] \in {"out", "in"} => call[t] = "none"
    /\ call[t] \in {"LockRead", "TryLockRead"} => t \in Readers
    /\ call[t] \in {"LockWrite", "TryLockWrite"} => t \in Writers

(* ... that the mutex is taken twice only by a TryLock that found the lock *)
(* as it needs it, which is therefore not going to wait with it ...        *)
NestedNeverWaits ==
  /\ fHolderCount <= 2
  /\ \A t \in Locking :
       HasMutex(t) /\ fHolderCount = 2 =>
         /\ lockPc[t] = "body" => call[t] \in {"LockRead", "LockWrite"}
         /\ lockPc[t] \in {"body", "test"} /\ call[t] = "LockRead" => ~ReaderMustWait
         /\ lockPc[t] \in {"body", "test"} /\ call[t] = "LockWrite" => ~WriterMustWait

(* ... and that the counts of those who wait are right.                    *)
InLock(op) == {t \in Locking : lockPc[t] \in {"test", "wait"} /\ call[t] = op}
WaitersCounted ==
  /\ fReadWaiters = Cardinality(InLock("LockRead"))
  /\ fWriteWaiters = Cardinality(InLock("LockWrite"))

LockInv ==
  /\ LockTypeOK /\ HolderKnown
  /\ CallKnown /\ NestedNeverWaits
  /\ WaitersCounted /\ WriterAlone

Holding == {t \in Locking : Holds(t)}

-----------------------------------------------------------------------------
(* A lock nobody has taken is in order ...                               *)
LEMMA LockInvInit == ASSUME LockAssumption PROVE LockInit => LockInv
<1> SUFFICES ASSUME LockInit PROVE LockInv
  OBVIOUS
<1>1. LockTypeOK
  BY DEF LockInit, LockTypeOK
<1>2. HolderKnown /\ CallKnown /\ NestedNeverWaits
  BY DEF LockAssumption, LockInit, HolderKnown, HasMutex, CallKnown, NestedNeverWaits
<1>3. InLock("LockRead") = {} /\ InLock("LockWrite") = {} /\ Holding = {}
  BY DEF LockInit, InLock, Holding, Holds
<1>4. WaitersCounted
  BY <1>3, FS_EmptySet DEF LockInit, WaitersCounted
<1>5. WriterAlone
  BY <1>3, FS_EmptySet DEF LockInit, WriterAlone, Holding, Locking
<1> QED
  BY <1>1, <1>2, <1>4, <1>5 DEF LockInv

-----------------------------------------------------------------------------
(* The mutex: who may be where, and what the counts of its holder are.     *)
LEMMA MutexStep ==
  ASSUME LockAssumption, LockInv, NEW t \in Locking,
         \/ \E op \in Calls : Call(t, op)
         \/ Enter(t) \/ WaitEnds(t) \/ LockGoesOn(t) \/ WaitEndsForNothing(t)
  PROVE  HolderKnown' /\ CallKnown' /\ NestedNeverWaits'
<1> USE DEF Calls
<1>h. /\ fHolder = pthread /\ fHolderCount \in {0, 1, 2}
      /\ t # NoThread /\ (fHolder = NoThread <=> fHolderCount = 0)
      /\ \A s \in Locking : HasMutex(s) <=> pthread = s
  BY DEF LockAssumption, LockInv, LockTypeOK, HolderKnown, NestedNeverWaits
<1>1. ASSUME NEW op \in Calls, Call(t, op) PROVE HolderKnown' /\ CallKnown' /\ NestedNeverWaits'
  <2>1. HolderKnown'
    BY <1>h, <1>1 DEF Call, MayCall, mutexVars, stateVars, condVars, LockInv, LockTypeOK,
                    HolderKnown, HasMutex, CallKnown, NestedNeverWaits
  <2>2. CallKnown'
    BY <1>h, <1>1 DEF Call, MayCall, mutexVars, LockInv, LockTypeOK, CallKnown
  <2>3. NestedNeverWaits'
    BY <1>h, <1>1, <2>1 DEF Call, MayCall, mutexVars, stateVars, condVars, LockInv,
       LockTypeOK, HolderKnown, HasMutex, NestedNeverWaits, ReaderMustWait,
       WriterMustWait
  <2> QED
    BY <2>1, <2>2, <2>3
<1>2. ASSUME Enter(t) PROVE HolderKnown' /\ CallKnown' /\ NestedNeverWaits'
  <2>a. pthread = NoThread /\ pthread' = t /\ fHolder' = t /\ fHolderCount' = fHolderCount + 1
    BY <1>h, <1>2 DEF Enter, GoesTo, RecursiveLock, LockInv, LockTypeOK, HasMutex
  <2>b. \A s \in Locking : HasMutex(s)' <=> s = t \/ HasMutex(s)
    BY <1>2 DEF Enter, GoesTo, RecursiveLock, LockInv, LockTypeOK, HasMutex
  <2>c. \A s \in Locking : ~ HasMutex(s)
    BY <1>h, <2>a DEF LockAssumption
  <2>1. HolderKnown'
    BY <1>h, <2>a, <2>b, <2>c DEF HolderKnown
  <2>2. CallKnown'
    BY <1>h, <1>2 DEF Enter, GoesTo, RecursiveLock, mutexVars, LockInv, LockTypeOK,
       CallKnown
  <2>3. NestedNeverWaits'
    BY <1>h, <1>2, <2>1 DEF Enter, GoesTo, RecursiveLock, mutexVars, stateVars,
       condVars, LockInv, LockTypeOK, HolderKnown, HasMutex, NestedNeverWaits,
       ReaderMustWait, WriterMustWait
  <2> QED
    BY <2>1, <2>2, <2>3
<1>3. ASSUME TryLock(t) PROVE HolderKnown' /\ CallKnown' /\ NestedNeverWaits'
  <2>1. HolderKnown'
    BY <1>h, <1>3 DEF TryLock, WouldWait, RecursiveLock, mutexVars, stateVars,
       condVars, LockInv, LockTypeOK, HolderKnown, HasMutex, CallKnown,
       NestedNeverWaits
  <2>2. CallKnown'
    BY <1>h, <1>3 DEF TryLock, WouldWait, RecursiveLock, mutexVars, LockInv,
       LockTypeOK, CallKnown
  <2>3. NestedNeverWaits'
    BY <1>h, <1>3, <2>1 DEF TryLock, WouldWait, RecursiveLock, mutexVars, stateVars,
       condVars, LockInv, LockTypeOK, HolderKnown, HasMutex, NestedNeverWaits,
       ReaderMustWait, WriterMustWait
  <2> QED
    BY <2>1, <2>2, <2>3
<1>4. ASSUME AddWaiter(t) PROVE HolderKnown' /\ CallKnown' /\ NestedNeverWaits'
  <2>1. HolderKnown'
    BY <1>h, <1>4 DEF AddWaiter, GoesTo, mutexVars, stateVars, condVars, LockInv,
       LockTypeOK, HolderKnown, HasMutex, CallKnown, NestedNeverWaits
  <2>2. CallKnown'
    BY <1>h, <1>4 DEF AddWaiter, GoesTo, mutexVars, LockInv, LockTypeOK, CallKnown
  <2>3. NestedNeverWaits'
    BY <1>h, <1>4, <2>1 DEF AddWaiter, GoesTo, mutexVars, stateVars, condVars, LockInv,
       LockTypeOK, HolderKnown, HasMutex, NestedNeverWaits, ReaderMustWait,
       WriterMustWait
  <2> QED
    BY <2>1, <2>2, <2>3
<1>5. ASSUME ReadWaits(t) PROVE HolderKnown' /\ CallKnown' /\ NestedNeverWaits'
  <2>a. /\ pthread' = NoThread /\ fHolder' = NoThread /\ fHolderCount' = fHolderCount - 1
        /\ HasMutex(t)
    BY <1>5 DEF ReadWaits, GoesTo, Waits, ForgetsHolder, HasMutex
  <2>b. fHolderCount = 1
    BY <1>h, <2>a, <1>5 DEF ReadWaits, GoesTo, Waits, ForgetsHolder, LockInv,
       NestedNeverWaits
  <2>c. \A s \in Locking : HasMutex(s)' <=> s # t /\ HasMutex(s)
    BY <1>5 DEF ReadWaits, GoesTo, Waits, ForgetsHolder, LockInv, LockTypeOK, HasMutex
  <2>d. \A s \in Locking : ~ HasMutex(s)'
    BY <1>h, <2>a, <2>c
  <2>1. HolderKnown'
    BY <2>a, <2>b, <2>d, <1>h DEF HolderKnown, LockAssumption
  <2>2. CallKnown'
    BY <1>h, <1>5 DEF ReadWaits, GoesTo, Waits, ForgetsHolder, ReaderMustWait,
       mutexVars, LockInv, LockTypeOK, CallKnown
  <2>3. NestedNeverWaits'
    BY <1>h, <1>5, <2>1 DEF ReadWaits, GoesTo, Waits, ForgetsHolder, ReaderMustWait,
       mutexVars, stateVars, condVars, LockInv, LockTypeOK, HolderKnown, HasMutex,
       NestedNeverWaits, ReaderMustWait, WriterMustWait
  <2> QED
    BY <2>1, <2>2, <2>3
<1>6. ASSUME ReadGoesIn(t) PROVE HolderKnown' /\ CallKnown' /\ NestedNeverWaits'
  <2>1. HolderKnown'
    BY <1>h, <1>6 DEF ReadGoesIn, GoesTo, ReaderMustWait, mutexVars, stateVars,
       condVars, LockInv, LockTypeOK, HolderKnown, HasMutex, CallKnown,
       NestedNeverWaits
  <2>2. CallKnown'
    BY <1>h, <1>6 DEF ReadGoesIn, GoesTo, ReaderMustWait, mutexVars, LockInv,
       LockTypeOK, CallKnown
  <2>3. NestedNeverWaits'
    BY <1>h, <1>6, <2>1 DEF ReadGoesIn, GoesTo, ReaderMustWait, mutexVars, stateVars,
       condVars, LockInv, LockTypeOK, HolderKnown, HasMutex, NestedNeverWaits,
       ReaderMustWait, WriterMustWait
  <2> QED
    BY <2>1, <2>2, <2>3
<1>7. ASSUME WriteWaits(t) PROVE HolderKnown' /\ CallKnown' /\ NestedNeverWaits'
  <2>a. /\ pthread' = NoThread /\ fHolder' = NoThread /\ fHolderCount' = fHolderCount - 1
        /\ HasMutex(t)
    BY <1>7 DEF WriteWaits, GoesTo, Waits, ForgetsHolder, HasMutex
  <2>b. fHolderCount = 1
    BY <1>h, <2>a, <1>7 DEF WriteWaits, GoesTo, Waits, ForgetsHolder, LockInv,
       NestedNeverWaits
  <2>c. \A s \in Locking : HasMutex(s)' <=> s # t /\ HasMutex(s)
    BY <1>7 DEF WriteWaits, GoesTo, Waits, ForgetsHolder, LockInv, LockTypeOK, HasMutex
  <2>d. \A s \in Locking : ~ HasMutex(s)'
    BY <1>h, <2>a, <2>c
  <2>1. HolderKnown'
    BY <2>a, <2>b, <2>d, <1>h DEF HolderKnown, LockAssumption
  <2>2. CallKnown'
    BY <1>h, <1>7 DEF WriteWaits, GoesTo, Waits, ForgetsHolder, WriterMustWait,
       mutexVars, LockInv, LockTypeOK, CallKnown
  <2>3. NestedNeverWaits'
    BY <1>h, <1>7, <2>1 DEF WriteWaits, GoesTo, Waits, ForgetsHolder, WriterMustWait,
       mutexVars, stateVars, condVars, LockInv, LockTypeOK, HolderKnown, HasMutex,
       NestedNeverWaits, ReaderMustWait, WriterMustWait
  <2> QED
    BY <2>1, <2>2, <2>3
<1>8. ASSUME WriteGoesIn(t) PROVE HolderKnown' /\ CallKnown' /\ NestedNeverWaits'
  <2>1. HolderKnown'
    BY <1>h, <1>8 DEF WriteGoesIn, GoesTo, WriterMustWait, mutexVars, stateVars,
       condVars, LockInv, LockTypeOK, HolderKnown, HasMutex, CallKnown,
       NestedNeverWaits
  <2>2. CallKnown'
    BY <1>h, <1>8 DEF WriteGoesIn, GoesTo, WriterMustWait, mutexVars, LockInv,
       LockTypeOK, CallKnown
  <2>3. NestedNeverWaits'
    BY <1>h, <1>8, <2>1 DEF WriteGoesIn, GoesTo, WriterMustWait, mutexVars, stateVars,
       condVars, LockInv, LockTypeOK, HolderKnown, HasMutex, NestedNeverWaits,
       ReaderMustWait, WriterMustWait
  <2> QED
    BY <2>1, <2>2, <2>3
<1>9. ASSUME UnlockWrite(t) PROVE HolderKnown' /\ CallKnown' /\ NestedNeverWaits'
  <2>1. HolderKnown'
    BY <1>h, <1>9 DEF UnlockWrite, GoesTo, OneOf, mutexVars, stateVars, condVars,
       LockInv, LockTypeOK, HolderKnown, HasMutex, CallKnown, NestedNeverWaits
  <2>2. CallKnown'
    BY <1>h, <1>9 DEF UnlockWrite, GoesTo, OneOf, mutexVars, LockInv, LockTypeOK, CallKnown
  <2>3. NestedNeverWaits'
    BY <1>h, <1>9, <2>1 DEF UnlockWrite, GoesTo, OneOf, mutexVars, stateVars, condVars,
       LockInv, LockTypeOK, HolderKnown, HasMutex, NestedNeverWaits, ReaderMustWait,
       WriterMustWait
  <2> QED
    BY <2>1, <2>2, <2>3
<1>10. ASSUME UnlockRead(t) PROVE HolderKnown' /\ CallKnown' /\ NestedNeverWaits'
  <2>1. HolderKnown'
    BY <1>h, <1>10 DEF UnlockRead, GoesTo, OneOf, NoReaderLeft, mutexVars, stateVars,
       condVars, LockInv, LockTypeOK, HolderKnown, HasMutex, CallKnown,
       NestedNeverWaits
  <2>2. CallKnown'
    BY <1>h, <1>10 DEF UnlockRead, GoesTo, OneOf, NoReaderLeft, mutexVars, LockInv,
       LockTypeOK, CallKnown
  <2>3. NestedNeverWaits'
    BY <1>h, <1>10, <2>1 DEF UnlockRead, GoesTo, OneOf, NoReaderLeft, mutexVars,
       stateVars, condVars, LockInv, LockTypeOK, HolderKnown, HasMutex,
       NestedNeverWaits, ReaderMustWait, WriterMustWait
  <2> QED
    BY <2>1, <2>2, <2>3
<1>11. ASSUME Leave(t) PROVE HolderKnown' /\ CallKnown' /\ NestedNeverWaits'
  <2>a. HasMutex(t) /\ fHolder = t /\ pthread = t /\ fHolderCount' = fHolderCount - 1
    BY <1>h, <1>11 DEF Leave, RecursiveUnlock, HasMutex
  <2>b. ASSUME fHolderCount' > 0 PROVE HolderKnown'
    <3>1. /\ fHolder' = t /\ pthread' = t /\ fHolderCount' # 0
          /\ \A s \in Locking : HasMutex(s)' <=> HasMutex(s)
      BY <1>h, <1>11, <2>a, <2>b DEF Leave, RecursiveUnlock, HasMutex
    <3> QED
      BY <1>h, <2>a, <3>1 DEF HolderKnown
  <2>c. ASSUME ~ fHolderCount' > 0 PROVE HolderKnown'
    <3>1. fHolderCount' = 0 /\ fHolder' = NoThread /\ pthread' = NoThread
      BY <1>h, <1>11, <2>a, <2>c DEF Leave, RecursiveUnlock
    <3>2. \A s \in Locking : HasMutex(s)' <=> s # t /\ HasMutex(s)
      BY <1>11, <2>c DEF Leave, LockInv, LockTypeOK, HasMutex
    <3>3. \A s \in Locking : ~ HasMutex(s)'
      BY <1>h, <2>a, <3>2
    <3> QED
      BY <1>h, <3>1, <3>3 DEF HolderKnown, LockAssumption
  <2>1. HolderKnown'
    BY <2>b, <2>c
  <2>2. CallKnown'
    BY <1>h, <1>11 DEF Leave, RecursiveUnlock, mutexVars, LockInv, LockTypeOK, CallKnown
  <2>3. NestedNeverWaits'
    BY <1>h, <1>11, <2>1 DEF Leave, RecursiveUnlock, mutexVars, stateVars, condVars,
       LockInv, LockTypeOK, HolderKnown, HasMutex, NestedNeverWaits, ReaderMustWait,
       WriterMustWait
  <2> QED
    BY <2>1, <2>2, <2>3
<1>12. ASSUME WaitEnds(t) PROVE HolderKnown' /\ CallKnown' /\ NestedNeverWaits'
  <2>a. pthread = NoThread /\ pthread' = t /\ fHolder' = t /\ fHolderCount' = fHolderCount + 1
    BY <1>h, <1>12 DEF WaitEnds, GoesTo, LockInv, LockTypeOK, HasMutex
  <2>b. \A s \in Locking : HasMutex(s)' <=> s = t \/ HasMutex(s)
    BY <1>12 DEF WaitEnds, GoesTo, LockInv, LockTypeOK, HasMutex
  <2>c. \A s \in Locking : ~ HasMutex(s)
    BY <1>h, <2>a DEF LockAssumption
  <2>1. HolderKnown'
    BY <1>h, <2>a, <2>b, <2>c DEF HolderKnown
  <2>2. CallKnown'
    BY <1>h, <1>12 DEF WaitEnds, GoesTo, Woken, mutexVars, LockInv, LockTypeOK, CallKnown
  <2>3. NestedNeverWaits'
    BY <1>h, <1>12, <2>1 DEF WaitEnds, GoesTo, Woken, mutexVars, stateVars, condVars,
       LockInv, LockTypeOK, HolderKnown, HasMutex, NestedNeverWaits, ReaderMustWait,
       WriterMustWait
  <2> QED
    BY <2>1, <2>2, <2>3
<1>13. ASSUME WaitEndsForNothing(t) PROVE HolderKnown' /\ CallKnown' /\ NestedNeverWaits'
  <2>1. HolderKnown'
    BY <1>h, <1>13 DEF WaitEndsForNothing, Woken, mutexVars, stateVars, condVars,
       LockInv, LockTypeOK, HolderKnown, HasMutex, CallKnown, NestedNeverWaits
  <2>2. CallKnown'
    BY <1>h, <1>13 DEF WaitEndsForNothing, Woken, mutexVars, LockInv, LockTypeOK, CallKnown
  <2>3. NestedNeverWaits'
    BY <1>h, <1>13, <2>1 DEF WaitEndsForNothing, Woken, mutexVars, stateVars, condVars,
       LockInv, LockTypeOK, HolderKnown, HasMutex, NestedNeverWaits, ReaderMustWait,
       WriterMustWait
  <2> QED
    BY <2>1, <2>2, <2>3
<1> QED
  BY <1>1, <1>2, <1>3, <1>4, <1>5, <1>6, <1>7, <1>8, <1>9, <1>10, <1>11, <1>12, <1>13
     DEF LockGoesOn

-----------------------------------------------------------------------------
(* The waiters: AddReadWaiter and AddWriteWaiter count whom they are       *)
(* called for, and RemoveReadWaiter and RemoveWriteWaiter take him off.    *)
LEMMA WaitersFinite ==
  ASSUME LockAssumption, LockInv, NEW op
  PROVE  IsFiniteSet(InLock(op)) /\ Cardinality(InLock(op)) \in Nat
<1>1. InLock(op) \in SUBSET Locking
  BY DEF InLock
<1> QED
  BY <1>1, FS_Subset, FS_CardinalityType DEF LockAssumption

(* A thread that begins or ceases to wait is counted, and nobody else.   *)
LEMMA CountStep ==
  ASSUME LockAssumption, LockInv, NEW t \in Locking,
         \/ \E op \in Calls : Call(t, op)
         \/ Enter(t) \/ WaitEnds(t) \/ LockGoesOn(t) \/ WaitEndsForNothing(t)
  PROVE  WaitersCounted'
<1>c. /\ fReadWaiters = Cardinality(InLock("LockRead"))
      /\ fWriteWaiters = Cardinality(InLock("LockWrite"))
  BY DEF LockInv, WaitersCounted
<1>0. ASSUME fReadWaiters' = fReadWaiters, fWriteWaiters' = fWriteWaiters,
             \A s \in Locking, op \in {"LockRead", "LockWrite"} :
                (lockPc[s] \in {"test", "wait"} /\ call[s] = op)'
                  <=> lockPc[s] \in {"test", "wait"} /\ call[s] = op
      PROVE  WaitersCounted'
  <2>1. InLock("LockRead")' = InLock("LockRead") /\ InLock("LockWrite")' = InLock("LockWrite")
    BY <1>0 DEF InLock
  <2> QED
    BY <1>c, <1>0, <2>1 DEF WaitersCounted
<1>1. ASSUME AddWaiter(t) PROVE WaitersCounted'
  <2>1. lockPc[t] = "body" /\ call' = call /\ call[t] \in {"LockRead", "LockWrite"}
    BY <1>1 DEF AddWaiter, GoesTo
  <2>2. \A s \in Locking : lockPc'[s] = IF s = t THEN "test" ELSE lockPc[s]
    BY <1>1 DEF AddWaiter, GoesTo, LockInv, LockTypeOK
  <2>3. \A op \in {"LockRead", "LockWrite"} :
          /\ t \notin InLock(op)
          /\ InLock(op)' = IF call[t] = op THEN InLock(op) \cup {t} ELSE InLock(op)
    BY <2>1, <2>2 DEF InLock
  <2>4. \A op \in {"LockRead", "LockWrite"} :
          Cardinality(InLock(op)') = Cardinality(InLock(op)) + (IF call[t] = op THEN 1 ELSE 0)
    BY <2>3, WaitersFinite, FS_AddElement
  <2>5. /\ fReadWaiters' = fReadWaiters + (IF call[t] = "LockRead" THEN 1 ELSE 0)
        /\ fWriteWaiters' = fWriteWaiters + (IF call[t] = "LockWrite" THEN 1 ELSE 0)
    BY <1>1, <1>c, WaitersFinite DEF AddWaiter
  <2> QED
    BY <1>c, <2>4, <2>5 DEF WaitersCounted
<1>2. ASSUME ReadGoesIn(t) \/ WriteGoesIn(t) PROVE WaitersCounted'
  <2>1. lockPc[t] = "test" /\ call' = call /\ call[t] \in {"LockRead", "LockWrite"}
    BY <1>2 DEF ReadGoesIn, WriteGoesIn, GoesTo
  <2>2. \A s \in Locking : lockPc'[s] = IF s = t THEN "leave" ELSE lockPc[s]
    BY <1>2 DEF ReadGoesIn, WriteGoesIn, GoesTo, LockInv, LockTypeOK
  <2>3. \A op \in {"LockRead", "LockWrite"} :
          /\ call[t] = op => t \in InLock(op)
          /\ InLock(op)' = IF call[t] = op THEN InLock(op) \ {t} ELSE InLock(op)
    BY <2>1, <2>2 DEF InLock
  <2>4. \A op \in {"LockRead", "LockWrite"} :
          Cardinality(InLock(op)') = Cardinality(InLock(op)) - (IF call[t] = op THEN 1 ELSE 0)
    BY <2>3, WaitersFinite, FS_RemoveElement
  <2>5. /\ fReadWaiters' = fReadWaiters - (IF call[t] = "LockRead" THEN 1 ELSE 0)
        /\ fWriteWaiters' = fWriteWaiters - (IF call[t] = "LockWrite" THEN 1 ELSE 0)
    BY <1>2, <1>c, WaitersFinite DEF ReadGoesIn, WriteGoesIn
  <2> QED
    BY <1>c, <2>4, <2>5 DEF WaitersCounted
<1>3. ASSUME NEW op \in Calls, Call(t, op) PROVE WaitersCounted'
  BY <1>0, <1>3 DEF Call, MayCall, stateVars, LockInv, LockTypeOK
<1>4. ASSUME Enter(t) PROVE WaitersCounted'
  BY <1>0, <1>4 DEF Enter, GoesTo, RecursiveLock, stateVars, LockInv, LockTypeOK
<1>5. ASSUME TryLock(t) PROVE WaitersCounted'
  BY <1>0, <1>5 DEF TryLock, WouldWait, RecursiveLock, stateVars, LockInv, LockTypeOK
<1>6. ASSUME ReadWaits(t) PROVE WaitersCounted'
  BY <1>0, <1>6 DEF ReadWaits, GoesTo, Waits, ForgetsHolder, ReaderMustWait, stateVars,
     LockInv, LockTypeOK
<1>7. ASSUME WriteWaits(t) PROVE WaitersCounted'
  BY <1>0, <1>7 DEF WriteWaits, GoesTo, Waits, ForgetsHolder, WriterMustWait,
     stateVars, LockInv, LockTypeOK
<1>8. ASSUME UnlockWrite(t) PROVE WaitersCounted'
  BY <1>0, <1>8 DEF UnlockWrite, GoesTo, OneOf, stateVars, LockInv, LockTypeOK
<1>9. ASSUME UnlockRead(t) PROVE WaitersCounted'
  BY <1>0, <1>9 DEF UnlockRead, GoesTo, OneOf, NoReaderLeft, stateVars, LockInv, LockTypeOK
<1>10. ASSUME Leave(t) PROVE WaitersCounted'
  BY <1>0, <1>10 DEF Leave, RecursiveUnlock, stateVars, LockInv, LockTypeOK
<1>11. ASSUME WaitEnds(t) PROVE WaitersCounted'
  BY <1>0, <1>11 DEF WaitEnds, GoesTo, Woken, stateVars, LockInv, LockTypeOK
<1>12. ASSUME WaitEndsForNothing(t) PROVE WaitersCounted'
  BY <1>0, <1>12 DEF WaitEndsForNothing, Woken, stateVars, LockInv, LockTypeOK
<1> QED
  BY <1>1, <1>2, <1>3, <1>4, <1>5, <1>6, <1>7, <1>8, <1>9, <1>10, <1>11, <1>12 DEF
     LockGoesOn

-----------------------------------------------------------------------------
(* The types: nobody unlocks more often than was locked, and no count of   *)
(* waiters is negative.                                                    *)
LEMMA TypeStep ==
  ASSUME LockAssumption, LockInv, CallKnown', WaitersCounted', NEW t \in Locking,
         \/ \E op \in Calls : Call(t, op)
         \/ Enter(t) \/ WaitEnds(t) \/ LockGoesOn(t) \/ WaitEndsForNothing(t)
  PROVE  LockTypeOK'
<1>1. lockPc' \in [Locking -> {"out", "lock", "body", "test", "wait", "leave", "in"}]
  BY DEF LockGoesOn, Call, Enter, WaitEnds, WaitEndsForNothing, TryLock, AddWaiter,
     ReadWaits, ReadGoesIn, WriteWaits, WriteGoesIn, UnlockWrite, UnlockRead, Leave,
     GoesTo, LockInv, LockTypeOK
<1>2. call' \in [Locking -> Calls \cup {"none"}]
  BY DEF LockGoesOn, Call, Enter, WaitEnds, WaitEndsForNothing, TryLock, AddWaiter,
     ReadWaits, ReadGoesIn, WriteWaits, WriteGoesIn, UnlockWrite, UnlockRead, Leave,
     Calls, LockInv, LockTypeOK
<1>3. fReadersCond' \subseteq Locking /\ fWritersCond' \subseteq Locking
  BY DEF LockGoesOn, Call, Enter, WaitEnds, WaitEndsForNothing, TryLock, AddWaiter,
     ReadWaits, ReadGoesIn, WriteWaits, WriteGoesIn, UnlockWrite, UnlockRead, Leave,
     Waits, OneOf, condVars, LockInv, LockTypeOK
<1>4. fReadWaiters' \in Nat /\ fWriteWaiters' \in Nat
  <2>1. ASSUME NEW op PROVE Cardinality(InLock(op)') \in Nat
    <3>1. InLock(op)' \in SUBSET Locking
      BY DEF InLock
    <3> QED
      BY <3>1, FS_Subset, FS_CardinalityType DEF LockAssumption
  <2> QED
    BY <2>1 DEF WaitersCounted
<1>5. fState' \in Int
  BY DEF LockGoesOn, Call, Enter, WaitEnds, WaitEndsForNothing, TryLock, AddWaiter,
     ReadWaits, ReadGoesIn, WriteWaits, WriteGoesIn, UnlockWrite, UnlockRead, Leave,
     stateVars, LockInv, LockTypeOK
<1>6. /\ pthread' \in Locking \cup {NoThread} /\ fHolder' \in Locking \cup {NoThread}
      /\ fHolderCount' \in Nat
  <2>1. fHolderCount \in Nat /\ (HasMutex(t) => fHolderCount # 0)
    BY DEF LockAssumption, LockInv, LockTypeOK, HolderKnown
  <2> QED
    BY <2>1 DEF LockGoesOn, Call, Enter, WaitEnds, WaitEndsForNothing, TryLock, AddWaiter,
         ReadWaits, ReadGoesIn, WriteWaits, WriteGoesIn, UnlockWrite, UnlockRead, Leave,
         RecursiveLock, RecursiveUnlock, Waits, ForgetsHolder, GoesTo, HasMutex,
         mutexVars, LockInv, LockTypeOK
<1> QED
  BY <1>1, <1>2, <1>3, <1>4, <1>5, <1>6 DEF LockTypeOK

-----------------------------------------------------------------------------
(* Finitely many threads have the lock.                                  *)
LEMMA HoldersFinite ==
  ASSUME LockAssumption
  PROVE  IsFiniteSet(Holding) /\ Cardinality(Holding) \in Nat
<1>1. Holding \in SUBSET Locking
  BY DEF Holding
<1> QED
  BY <1>1, FS_Subset, FS_CardinalityType DEF LockAssumption

(* A thread has the lock from the step in which fState counts it to the    *)
(* step in which it does no longer.                                        *)
LEMMA AloneStep ==
  ASSUME LockAssumption, LockInv, OneWriter, NEW t \in Locking,
         \/ \E op \in Calls : Call(t, op)
         \/ Enter(t) \/ WaitEnds(t) \/ LockGoesOn(t) \/ WaitEndsForNothing(t)
  PROVE  WriterAlone'
<1>w. \A s, u \in Writers : s = u
  <2>1. Writers \in SUBSET Locking
    BY DEF Locking
  <2>2. IsFiniteSet(Writers) /\ Cardinality(Writers) \in Nat
    BY <2>1, FS_Subset, FS_CardinalityType DEF LockAssumption
  <2>3. Cardinality(Writers) = 0 \/ Cardinality(Writers) = 1
    BY <2>2 DEF OneWriter
  <2> QED
    BY <2>2, <2>3, FS_EmptySet, FS_Singleton
<1>a. IF \E s \in Writers : Holds(s)
      THEN fState = -1 /\ \A r \in Locking \ Writers : ~ Holds(r)
      ELSE fState = Cardinality(Holding)
  BY DEF LockInv, WriterAlone, Holding
<1>f. fState \in Int /\ IsFiniteSet(Holding) /\ Cardinality(Holding) \in Nat
  BY HoldersFinite DEF LockInv, LockTypeOK
<1>0. ASSUME fState' = fState, \A s \in Locking : Holds(s)' <=> Holds(s) PROVE WriterAlone'
  <2>1. Holding' = Holding
    BY <1>0 DEF Holding
  <2> QED
    BY <1>0, <1>a, <2>1 DEF WriterAlone, Holding, Locking
<1>1. ASSUME ReadGoesIn(t) PROVE WriterAlone'
  <2>1. /\ lockPc[t] = "test" /\ call[t] = "LockRead" /\ call' = call /\ ~(fState < 0)
        /\ fState' = fState + 1
    BY <1>1, <1>f DEF ReadGoesIn, GoesTo, ReaderMustWait
  <2>2. \A s \in Locking : lockPc'[s] = IF s = t THEN "leave" ELSE lockPc[s]
    BY <1>1 DEF ReadGoesIn, GoesTo, LockInv, LockTypeOK
  <2>3. t \notin Holding /\ \A s \in Locking : Holds(s)' <=> s = t \/ Holds(s)
    BY <2>1, <2>2 DEF Holds, Holding
  <2>4. t \notin Writers /\ ~ \E s \in Writers : Holds(s)
    BY <1>a, <2>1 DEF LockInv, CallKnown, LockAssumption
  <2>5. Holding' = Holding \cup {t}
    BY <2>3 DEF Holding
  <2>6. Cardinality(Holding') = Cardinality(Holding) + 1
    BY <1>f, <2>3, <2>5, FS_AddElement
  <2>7. fState' = Cardinality(Holding')
    BY <1>a, <2>1, <2>4, <2>6
  <2>8. ~ \E s \in Writers : Holds(s)'
    BY <2>3, <2>4 DEF Locking
  <2> QED
    BY <2>7, <2>8 DEF WriterAlone, Holding
<1>2. ASSUME WriteGoesIn(t) PROVE WriterAlone'
  <2>1. /\ lockPc[t] = "test" /\ call[t] = "LockWrite" /\ call' = call /\ ~(fState > 0)
        /\ fState' = -1
    BY <1>2, <1>f DEF WriteGoesIn, GoesTo, WriterMustWait
  <2>2. \A s \in Locking : lockPc'[s] = IF s = t THEN "leave" ELSE lockPc[s]
    BY <1>2 DEF WriteGoesIn, GoesTo, LockInv, LockTypeOK
  <2>3. t \notin Holding /\ \A s \in Locking : Holds(s)' <=> s = t \/ Holds(s)
    BY <2>1, <2>2 DEF Holds, Holding
  <2>4. t \in Writers /\ ~ \E s \in Writers : Holds(s)
    BY <1>w, <2>1, <2>3 DEF LockInv, CallKnown, Holding
  <2>5. Holding = {}
    BY <1>a, <1>f, <2>1, <2>4, FS_EmptySet
  <2>6. \A s \in Locking : Holds(s)' <=> s = t
    BY <2>3, <2>5 DEF Holding
  <2> QED
    BY <2>1, <2>4, <2>6 DEF WriterAlone, Locking
<1>3. ASSUME UnlockWrite(t) PROVE WriterAlone'
  <2>1. /\ lockPc[t] = "body" /\ call[t] = "Unlock" /\ call' = call /\ fState < 0 /\ fState' = 0
    BY <1>3 DEF UnlockWrite, GoesTo
  <2>2. \A s \in Locking : lockPc'[s] = IF s = t THEN "leave" ELSE lockPc[s]
    BY <1>3 DEF UnlockWrite, GoesTo, LockInv, LockTypeOK
  <2>3. Holds(t) /\ \A s \in Locking : Holds(s)' <=> s # t /\ Holds(s)
    BY <2>1, <2>2 DEF Holds
  <2>4. \E s \in Writers : Holds(s)
    BY <1>a, <1>f, <2>1
  <2>5. \A s \in Locking : Holds(s) => s = t
    BY <1>a, <1>w, <2>3, <2>4
  <2>6. \A s \in Locking : ~ Holds(s)'
    BY <2>3, <2>5
  <2>7. Holding' = {}
    BY <2>6 DEF Holding
  <2>8. fState' = Cardinality(Holding')
    BY <2>1, <2>7, FS_EmptySet
  <2> QED
    BY <2>6, <2>8 DEF WriterAlone, Holding, Locking
<1>4. ASSUME UnlockRead(t) PROVE WriterAlone'
  <2>1. /\ lockPc[t] = "body" /\ call[t] = "Unlock" /\ call' = call /\ ~(fState < 0)
        /\ fState' = IF fState <= 1 THEN 0 ELSE fState - 1
    BY <1>4, <1>f DEF UnlockRead, GoesTo, NoReaderLeft
  <2>2. \A s \in Locking : lockPc'[s] = IF s = t THEN "leave" ELSE lockPc[s]
    BY <1>4 DEF UnlockRead, GoesTo, LockInv, LockTypeOK
  <2>3. t \in Holding /\ \A s \in Locking : Holds(s)' <=> s # t /\ Holds(s)
    BY <2>1, <2>2 DEF Holds, Holding
  <2>4. ~ \E s \in Writers : Holds(s)
    BY <1>a, <2>1
  <2>5. Holding' = Holding \ {t}
    BY <2>3 DEF Holding
  <2>6. Cardinality(Holding') = Cardinality(Holding) - 1
    BY <1>f, <2>3, <2>5, FS_RemoveElement
  <2>7. Cardinality(Holding) # 0
    BY <1>f, <2>3, FS_EmptySet
  <2>8. fState' = Cardinality(Holding')
    BY <1>a, <1>f, <2>1, <2>4, <2>6, <2>7
  <2>9. ~ \E s \in Writers : Holds(s)'
    BY <2>3, <2>4 DEF Locking
  <2> QED
    BY <2>8, <2>9 DEF WriterAlone, Holding
<1>5. ASSUME NEW op \in Calls, Call(t, op) PROVE WriterAlone'
  <2>1. \A s \in Locking : Holds(s)' <=> Holds(s)
    BY <1>5 DEF Call, MayCall, Holds, Calls, LockInv, LockTypeOK, CallKnown
  <2> QED
    BY <1>0, <1>5, <2>1 DEF Call, stateVars
<1>6. ASSUME Enter(t) PROVE WriterAlone'
  <2>1. \A s \in Locking : Holds(s)' <=> Holds(s)
    BY <1>6 DEF Enter, GoesTo, RecursiveLock, Holds, Calls, LockInv, LockTypeOK, CallKnown
  <2> QED
    BY <1>0, <1>6, <2>1 DEF Enter, stateVars
<1>7. ASSUME TryLock(t) PROVE WriterAlone'
  <2>1. \A s \in Locking : Holds(s)' <=> Holds(s)
    BY <1>7 DEF TryLock, WouldWait, RecursiveLock, Holds, Calls, LockInv, LockTypeOK,
       CallKnown
  <2> QED
    BY <1>0, <1>7, <2>1 DEF TryLock, stateVars
<1>8. ASSUME AddWaiter(t) PROVE WriterAlone'
  <2>1. \A s \in Locking : Holds(s)' <=> Holds(s)
    BY <1>8 DEF AddWaiter, GoesTo, Holds, Calls, LockInv, LockTypeOK, CallKnown
  <2> QED
    BY <1>0, <1>8, <2>1 DEF AddWaiter, stateVars
<1>9. ASSUME ReadWaits(t) PROVE WriterAlone'
  <2>1. \A s \in Locking : Holds(s)' <=> Holds(s)
    BY <1>9 DEF ReadWaits, GoesTo, Waits, ForgetsHolder, ReaderMustWait, Holds, Calls,
       LockInv, LockTypeOK, CallKnown
  <2> QED
    BY <1>0, <1>9, <2>1 DEF ReadWaits, stateVars
<1>10. ASSUME WriteWaits(t) PROVE WriterAlone'
  <2>1. \A s \in Locking : Holds(s)' <=> Holds(s)
    BY <1>10 DEF WriteWaits, GoesTo, Waits, ForgetsHolder, WriterMustWait, Holds,
       Calls, LockInv, LockTypeOK, CallKnown
  <2> QED
    BY <1>0, <1>10, <2>1 DEF WriteWaits, stateVars
<1>11. ASSUME Leave(t) PROVE WriterAlone'
  <2>1. \A s \in Locking : Holds(s)' <=> Holds(s)
    BY <1>11 DEF Leave, RecursiveUnlock, Holds, Calls, LockInv, LockTypeOK, CallKnown
  <2> QED
    BY <1>0, <1>11, <2>1 DEF Leave, stateVars
<1>12. ASSUME WaitEnds(t) PROVE WriterAlone'
  <2>1. \A s \in Locking : Holds(s)' <=> Holds(s)
    BY <1>12 DEF WaitEnds, GoesTo, Woken, Holds, Calls, LockInv, LockTypeOK, CallKnown
  <2> QED
    BY <1>0, <1>12, <2>1 DEF WaitEnds, stateVars
<1>13. ASSUME WaitEndsForNothing(t) PROVE WriterAlone'
  <2>1. \A s \in Locking : Holds(s)' <=> Holds(s)
    BY <1>13 DEF WaitEndsForNothing, Woken, Holds, Calls, LockInv, LockTypeOK, CallKnown
  <2> QED
    BY <1>0, <1>13, <2>1 DEF WaitEndsForNothing, stateVars
<1> QED
  BY <1>1, <1>2, <1>3, <1>4, <1>5, <1>6, <1>7, <1>8, <1>9, <1>10, <1>11, <1>12, <1>13
     DEF LockGoesOn

-----------------------------------------------------------------------------
(* ... and every step keeps it so.                                       *)
LEMMA LockInvStep == ASSUME LockAssumption PROVE LockInv /\ [LockNext]_lockVars => LockInv'
<1> SUFFICES ASSUME LockInv, [LockNext]_lockVars PROVE LockInv'
  OBVIOUS
<1>1. ASSUME NEW t \in Locking,
             \/ \E op \in Calls : Call(t, op)
             \/ Enter(t) \/ WaitEnds(t) \/ LockGoesOn(t) \/ WaitEndsForNothing(t)
      PROVE  LockInv'
  <2>1. HolderKnown' /\ CallKnown' /\ NestedNeverWaits'
    BY <1>1, MutexStep
  <2>2. WaitersCounted'
    BY <1>1, CountStep
  <2>3. LockTypeOK'
    BY <1>1, <2>1, <2>2, TypeStep
  <2>4. WriterAlone'
    <3>1. CASE OneWriter
      BY <1>1, <3>1, AloneStep
    <3>2. CASE ~ OneWriter
      BY <3>2 DEF WriterAlone, OneWriter
    <3> QED
      BY <3>1, <3>2
  <2> QED
    BY <2>1, <2>2, <2>3, <2>4 DEF LockInv
<1>2. CASE UNCHANGED lockVars
  BY <1>2 DEF lockVars, mutexVars, stateVars, condVars, LockInv, LockTypeOK,
     HolderKnown, HasMutex, CallKnown, NestedNeverWaits, ReaderMustWait,
     WriterMustWait, WaitersCounted, InLock, WriterAlone, Holds
<1> QED
  BY <1>1, <1>2 DEF LockNext

(* The mutex's idea of its holder is right over nested calls and waits,    *)
(* and the only writer, while it has the lock, is alone; fState and the    *)
(* counts of waiters are what they are said to be.                         *)
THEOREM LockIsRight == ASSUME LockAssumption PROVE LockSpec => []LockRight
<1>1. LockInit => LockInv
  BY LockInvInit
<1>2. LockInv /\ [LockNext]_lockVars => LockInv'
  BY LockInvStep
<1>3. LockInv => LockRight
  BY DEF LockInv, LockRight
<1> QED
  BY <1>1, <1>2, <1>3, PTL DEF LockSpec

-----------------------------------------------------------------------------
(* Who sleeps has a reason to: writers that readers are at work, readers   *)
(* that a writer is, or waits and comes first.                             *)
SleepersWait ==
  /\ \A t \in fReadersCond : lockPc[t] = "wait" /\ call[t] = "LockRead"
  /\ \A t \in fWritersCond : lockPc[t] = "wait" /\ call[t] = "LockWrite"
  /\ fWritersCond # {} => fState > 0
  /\ fReadersCond # {} => fState < 0 \/ fWriteWaiters > 0

LEMMA OnlyWriter ==
  ASSUME LockAssumption, OneWriter, NEW s \in Writers, NEW t \in Writers
  PROVE  s = t
<1>1. IsFiniteSet(Writers)
  BY FS_Subset DEF LockAssumption, Locking
<1>2. IsFiniteSet({s, t}) /\ Cardinality({s, t}) <= 1
  <2>1. {s, t} \subseteq Writers
    OBVIOUS
  <2> QED
    BY <1>1, <2>1, FS_Subset, FS_CardinalityType DEF OneWriter
<1>3. SUFFICES ASSUME s # t PROVE FALSE
  OBVIOUS
<1>4. Cardinality({s}) = 1 /\ IsFiniteSet({s})
  BY FS_Singleton
<1>5. Cardinality({s} \cup {t}) = Cardinality({s}) + 1
  BY <1>3, <1>4, FS_AddElement
<1>6. {s} \cup {t} = {s, t}
  OBVIOUS
<1> QED
  BY <1>2, <1>4, <1>5, <1>6

(* When the last reader unlocks, the one writer that sleeps is woken, and  *)
(* when the writer does and no other waits, so are all readers.            *)
LEMMA SleepersStep ==
  ASSUME LockAssumption, LockInv, OneWriter, SleepersWait, NEW t \in Locking,
         \/ \E op \in Calls : Call(t, op)
         \/ Enter(t) \/ WaitEnds(t) \/ LockGoesOn(t) \/ WaitEndsForNothing(t)
  PROVE  SleepersWait'
<1>a. /\ fReadersCond \subseteq Locking /\ fWritersCond \subseteq Locking
      /\ lockPc \in [Locking -> {"out", "lock", "body", "test", "wait", "leave", "in"}]
      /\ call \in [Locking -> Calls \cup {"none"}]
      /\ fState \in Int /\ fWriteWaiters \in Nat
  BY DEF LockInv, LockTypeOK
<1>b. \A s \in fWritersCond : s \in Writers
  BY <1>a DEF LockInv, CallKnown, SleepersWait
<1>c. \A s \in fWritersCond, r \in Writers : s = r
  BY <1>b, OnlyWriter
<1>0. ASSUME UNCHANGED <<condVars, fState, fWriteWaiters>>, lockPc[t] # "wait",
             \A s \in Locking \ {t} : lockPc'[s] = lockPc[s] /\ call'[s] = call[s]
      PROVE  SleepersWait'
  BY <1>0, <1>a DEF SleepersWait, condVars
<1>1. ASSUME NEW op \in Calls, Call(t, op) PROVE SleepersWait'
  BY <1>0, <1>1, <1>a DEF Call, stateVars
<1>2. CASE Enter(t)
  BY <1>0, <1>2, <1>a DEF Enter, GoesTo, stateVars
<1>3. CASE TryLock(t)
  BY <1>0, <1>3, <1>a DEF TryLock, stateVars
<1>4. CASE Leave(t)
  BY <1>0, <1>4, <1>a DEF Leave, stateVars
<1>5. CASE WaitEnds(t)
  BY <1>5, <1>a DEF WaitEnds, GoesTo, Woken, stateVars, condVars, SleepersWait
<1>6. CASE WaitEndsForNothing(t)
  BY <1>6, <1>a DEF WaitEndsForNothing, stateVars, SleepersWait
<1>7. CASE AddWaiter(t)
  BY <1>7, <1>a DEF AddWaiter, GoesTo, condVars, SleepersWait
<1>8. CASE ReadWaits(t)
  BY <1>8, <1>a DEF ReadWaits, GoesTo, Waits, stateVars, ReaderMustWait, SleepersWait
<1>9. CASE WriteWaits(t)
  BY <1>9, <1>a DEF WriteWaits, GoesTo, Waits, stateVars, WriterMustWait, SleepersWait
<1>10. CASE ReadGoesIn(t)
  BY <1>10, <1>a DEF ReadGoesIn, GoesTo, condVars, ReaderMustWait, SleepersWait
<1>11. CASE WriteGoesIn(t)
  <2>1. t \in Writers /\ lockPc[t] = "test"
    BY <1>11 DEF WriteGoesIn, GoesTo, LockInv, CallKnown
  <2>2. fWritersCond = {}
    BY <1>c, <2>1 DEF SleepersWait
  <2> QED
    BY <1>11, <1>a, <2>1, <2>2 DEF WriteGoesIn, GoesTo, condVars, SleepersWait
<1>12. CASE UnlockWrite(t)
  <2>1. fWritersCond = {} /\ fWritersCond' = {}
    BY <1>12, <1>a DEF UnlockWrite, SleepersWait, OneOf
  <2> QED
    BY <1>12, <1>a, <2>1 DEF UnlockWrite, GoesTo, SleepersWait
<1>13. CASE UnlockRead(t)
  <2>1. NoReaderLeft => fWritersCond' = {}
    BY <1>13, <1>b, <1>c DEF UnlockRead, OneOf
  <2>2. fWritersCond' \subseteq fWritersCond
    BY <1>13 DEF UnlockRead
  <2> QED
    BY <1>13, <1>a, <2>1, <2>2 DEF UnlockRead, GoesTo, NoReaderLeft, SleepersWait
<1> QED
  BY <1>1, <1>2, <1>3, <1>4, <1>5, <1>6, <1>7, <1>8, <1>9, <1>10, <1>11, <1>12, <1>13
     DEF LockGoesOn

(* A thread asleep on a condition of the lock is woken before all the      *)
(* others are at rest with the lock free: with one writer no wakeup is     *)
(* lost, whatever waits end early and whatever calls are nested.           *)
THEOREM NobodySleepsOn ==
  ASSUME LockAssumption PROVE LockSpec => []NobodyForgotten
<1> DEFINE SleepInv == LockInv /\ (OneWriter => SleepersWait)
<1>1. LockInit => SleepInv
  BY LockInvInit DEF LockInit, SleepersWait
<1>2. SleepInv /\ [LockNext]_lockVars => SleepInv'
  <2> SUFFICES ASSUME SleepInv, [LockNext]_lockVars, OneWriter PROVE SleepersWait'
    BY LockInvStep DEF OneWriter
  <2>1. CASE UNCHANGED lockVars
    BY <2>1 DEF lockVars, stateVars, condVars, SleepersWait
  <2> QED
    BY <2>1, SleepersStep DEF LockNext
<1>3. SleepInv => NobodyForgotten
  <2> SUFFICES ASSUME LockInv, SleepersWait, OneWriter, \A t \in Locking : AtRest(t)
               PROVE  fReadersCond = {} /\ fWritersCond = {}
    BY DEF NobodyForgotten
  <2>1. Holding = {} /\ \A t \in Writers : ~ Holds(t)
    BY DEF Holding, Holds, AtRest, Locking
  <2>2. fState = 0
    BY <2>1, FS_EmptySet DEF LockInv, WriterAlone, Holding
  <2>3. fWritersCond = {}
    BY <2>2 DEF SleepersWait
  <2>4. fWriteWaiters = 0
    <3>1. InLock("LockWrite") = {}
      <4> SUFFICES ASSUME NEW t \in InLock("LockWrite") PROVE FALSE
        OBVIOUS
      <4>1. t \in Locking /\ lockPc[t] = "wait" /\ call[t] = "LockWrite"
        BY DEF InLock, AtRest
      <4>2. t \in fReadersCond
        BY <2>3, <4>1 DEF AtRest, Woken
      <4> QED
        BY <4>1, <4>2 DEF SleepersWait
    <3> QED
      BY <3>1, FS_EmptySet DEF LockInv, WaitersCounted
  <2> QED
    BY <2>2, <2>3, <2>4 DEF SleepersWait
<1> HIDE DEF SleepInv
<1> QED
  BY <1>1, <1>2, <1>3, PTL DEF LockSpec

-----------------------------------------------------------------------------
(* The heap                                                                *)

(* While Insert runs the element at pos may be less than its parent, while *)
(* Extract runs that at pos may be greater than its children.              *)
OutOfPlace(i) ==
  \/ heapPc = "rises" /\ i = pos
  \/ heapPc = "sinks" /\ i \div 2 = pos

(* All others are in order, and what is below pos is in order with what is *)
(* above it.                                                               *)
InOrderBut ==
  ~cut => \A i \in 2 .. Len(fHeap) :
    /\ ~OutOfPlace(i) => ValueAt(i \div 2) <= ValueAt(i)
    /\ heapPc # "idle" /\ pos > 1 /\ i \div 2 = pos => ValueAt(pos \div 2) <= ValueAt(i)

HeapInv ==
  /\ HeapTypeOK
  /\ HeldOnce
  /\ InOrderBut
  /\ heapPc = "rises" => pos \in DOMAIN fHeap /\ moved \in Elems

LEMMA HeapInvRight == HeapInv => HeapRight
<1> SUFFICES ASSUME HeapInv, heapPc = "idle", ~cut, NEW i \in DOMAIN fHeap, i \in 2 .. Len(fHeap)
             PROVE  ValueAt(i \div 2) <= ValueAt(i)
  BY DEF HeapInv, HeapRight, SanityCheck, Ordered
<1> QED
  BY DEF HeapInv, InOrderBut, OutOfPlace

(* In order throughout, the root is the least.                             *)
LEMMA RootIsLeast ==
  ASSUME HeapInv, heapPc = "idle", ~cut, NEW i \in DOMAIN fHeap
  PROVE  ValueAt(1) <= ValueAt(i)
<1> DEFINE T == {k \in DOMAIN fHeap : ~ (ValueAt(1) <= ValueAt(k))}
<1>1. SUFFICES ASSUME T # {} PROVE FALSE
  OBVIOUS
<1>2. /\ DOMAIN fHeap = 1 .. Len(fHeap) /\ Len(fHeap) \in Nat
      /\ \A k \in DOMAIN fHeap : ValueAt(k) \in Int
  BY DEF HeapInv, HeapTypeOK, ValueAt
<1>3. T \in SUBSET Nat
  BY <1>2
<1>4. PICK k \in T : \A l \in T : k <= l
  BY <1>1, <1>3, L!LeastExists
<1>5. k \in 2 .. Len(fHeap) /\ k \div 2 \in DOMAIN fHeap /\ k \div 2 < k
  BY <1>2, <1>4
<1>6. ValueAt(k \div 2) <= ValueAt(k)
  BY <1>5 DEF HeapInv, InOrderBut, OutOfPlace
<1>7. k \div 2 \notin T
  BY <1>2, <1>4, <1>5
<1>8. ValueAt(1) <= ValueAt(k \div 2)
  BY <1>5, <1>7
<1> QED
  BY <1>2, <1>4, <1>5, <1>6, <1>8

LEMMA HeapLen == HeapTypeOK => Len(fHeap) \in Nat /\ DOMAIN fHeap = 1 .. Len(fHeap)
  BY DEF HeapTypeOK

LEMMA SwappedIs ==
  ASSUME HeapTypeOK, NEW i \in DOMAIN fHeap, NEW j \in DOMAIN fHeap
  PROVE  /\ Swapped(i, j) \in Seq(Elems) /\ Len(Swapped(i, j)) = Len(fHeap)
         /\ \A k \in DOMAIN fHeap :
              Swapped(i, j)[k] = IF k = i THEN fHeap[j] ELSE IF k = j THEN fHeap[i] ELSE fHeap[k]
  BY DEF HeapTypeOK, Swapped

(* A swap leaves in the heap what is in it.                                *)
LEMMA SwapKeepsHeld ==
  ASSUME HeapTypeOK, HeldOnce, NEW i \in DOMAIN fHeap, NEW j \in DOMAIN fHeap,
         fHeap' = Swapped(i, j), UNCHANGED <<fArraySize, fCurrentHeap, heapPc, moved>>
  PROVE  HeldOnce'
<1>a. /\ fHeap' \in Seq(Elems) /\ Len(fHeap') = Len(fHeap)
      /\ \A k \in DOMAIN fHeap :
           fHeap'[k] = IF k = i THEN fHeap[j] ELSE IF k = j THEN fHeap[i] ELSE fHeap[k]
  BY SwappedIs
<1>b. DOMAIN fHeap' = DOMAIN fHeap
  BY <1>a, HeapLen
<1>1. /\ DOMAIN fHeap' = DOMAIN fHeap /\ Len(fHeap') = Len(fHeap)
      /\ \A k \in DOMAIN fHeap :
           fHeap'[k] = IF k = i THEN fHeap[j] ELSE IF k = j THEN fHeap[i] ELSE fHeap[k]
  BY <1>a, <1>b
<1>2. \A k, l \in DOMAIN fHeap : fHeap[k] = fHeap[l] => k = l
  BY DEF HeldOnce
<1>3. \A k, l \in DOMAIN fHeap' : fHeap'[k] = fHeap'[l] => k = l
  BY <1>1, <1>2
<1>4. \A e : (\E k \in DOMAIN fHeap' : fHeap'[k] = e) <=> (\E k \in DOMAIN fHeap : fHeap[k] = e)
  BY <1>1
<1> QED
  BY <1>1, <1>3, <1>4 DEF HeldOnce

-----------------------------------------------------------------------------
(* The order, of values at the places 1 .. n: p is out of place.           *)

(* It rises: it is less than its parent.                                   *)
LEMMA RiseKeepsOrder ==
  ASSUME NEW n \in Nat, NEW v, NEW w, NEW p \in 2 .. n, NEW q \in 1 .. n, q = p \div 2,
         \A k \in 1 .. n : v[k] \in Int,
         \A k \in 2 .. n : (k # p => v[k \div 2] <= v[k])
                         /\ (k \div 2 = p => v[q] <= v[k]),
         v[p] < v[q],
         \A k \in 1 .. n : w[k] = IF k = p THEN v[q] ELSE IF k = q THEN v[p] ELSE v[k],
         NEW i \in 2 .. n
  PROVE  /\ i # q => w[i \div 2] <= w[i]
         /\ q > 1 /\ i \div 2 = q => w[q \div 2] <= w[i]
<1> DEFINE h == i \div 2
<1>1. q \in 1 .. n /\ q < p /\ h \in 1 .. n /\ h < i
  OBVIOUS
<1>2. ASSUME i # q PROVE w[h] <= w[i]
  <2>1. CASE i = p
    BY <1>1, <2>1
  <2>2. CASE i # p /\ h = p
    BY <1>1, <1>2, <2>2
  <2>3. CASE i # p /\ h = q
    <3>1. v[q] <= v[i]
      BY <2>3
    <3> QED
      BY <1>1, <1>2, <2>3, <3>1
  <2>4. CASE i # p /\ h # p /\ h # q
    BY <1>1, <1>2, <2>4
  <2> QED
    BY <2>1, <2>2, <2>3, <2>4
<1>3. ASSUME q > 1, h = q PROVE w[q \div 2] <= w[i]
  <2>1. q \in 2 .. n /\ q \div 2 \in 1 .. n /\ q \div 2 < q
    BY <1>1, <1>3
  <2>2. v[q \div 2] <= v[q]
    BY <1>1, <2>1
  <2>3. w[q \div 2] = v[q \div 2]
    BY <1>1, <2>1
  <2>4. CASE i = p
    BY <2>2, <2>3, <2>4
  <2>5. CASE i # p
    <3>1. v[q] <= v[i] /\ w[i] = v[i]
      BY <1>1, <1>3, <2>5
    <3> QED
      BY <1>1, <2>1, <2>2, <2>3, <3>1
  <2> QED
    BY <2>4, <2>5
<1> QED
  BY <1>2, <1>3

(* It sinks: g is the lesser of its children, and less than it.            *)
LEMMA SinkKeepsOrder ==
  ASSUME NEW n \in Nat, NEW v, NEW w, NEW p \in 1 .. n, NEW g \in 2 .. n,
         g \div 2 = p,
         \A k \in 1 .. n : v[k] \in Int,
         \A i \in 2 .. n : (i \div 2 # p => v[i \div 2] <= v[i])
                         /\ (p > 1 /\ i \div 2 = p => v[p \div 2] <= v[i]),
         v[g] < v[p],
         \A i \in 2 .. n : i \div 2 = p => v[g] <= v[i],
         \A k \in 1 .. n : w[k] = IF k = p THEN v[g] ELSE IF k = g THEN v[p] ELSE v[k],
         NEW i \in 2 .. n
  PROVE  /\ i \div 2 # g => w[i \div 2] <= w[i]
         /\ i \div 2 = g => w[p] <= w[i]
<1> DEFINE h == i \div 2
<1>1. h \in 1 .. n /\ h < i /\ p < g
  OBVIOUS
<1>2. ASSUME h # g PROVE w[h] <= w[i]
  <2>1. CASE i = g
    BY <1>1, <2>1
  <2>2. CASE i # g /\ h = p
    BY <1>1, <2>2
  <2>3. CASE i = p
    <3>1. v[p \div 2] <= v[g]
      BY <2>3
    <3> QED
      BY <1>1, <1>2, <2>3, <3>1
  <2>4. CASE i # g /\ i # p /\ h # p
    BY <1>1, <1>2, <2>4
  <2> QED
    BY <2>1, <2>2, <2>3, <2>4
<1>3. ASSUME h = g PROVE w[p] <= w[i]
  BY <1>1, <1>3
<1> QED
  BY <1>2, <1>3

-----------------------------------------------------------------------------
(* The steps of the heap                                                   *)

LEMMA InsertKeeps ==
  ASSUME HeapInv, NEW e \in Elems, ~fCurrentHeap[e], Insert(e)
  PROVE  HeapInv'
<1> USE DEF Insert
<1> DEFINE n == Len(fHeap)
<1>1. /\ n \in Nat /\ DOMAIN fHeap = 1 .. n
      /\ \A k \in 1 .. n : fHeap[k] \in Elems
  BY DEF HeapInv, HeapTypeOK
<1>2. /\ fHeap' \in Seq(Elems) /\ Len(fHeap') = n + 1 /\ fHeap'[n + 1] = e
      /\ \A k \in 1 .. n : fHeap'[k] = fHeap[k]
  BY DEF HeapInv, HeapTypeOK
<1>3. DOMAIN fHeap' = 1 .. n + 1
  BY <1>1, <1>2
<1>4. HeapTypeOK'
  <2>1. fArraySize' \in Nat
    BY DEF HeapInv, HeapTypeOK, Grown
  <2> QED
    BY <1>1, <1>2, <2>1 DEF HeapInv, HeapTypeOK
<1>5. \A k \in 1 .. n : fHeap[k] # e
  BY <1>1 DEF HeapInv, HeldOnce
<1>6. HeldOnce'
  <2>1. \A i, j \in 1 .. n : fHeap[i] = fHeap[j] => i = j
    BY <1>1 DEF HeapInv, HeldOnce
  <2>2. \A i, j \in DOMAIN fHeap' : fHeap'[i] = fHeap'[j] => i = j
    BY <1>1, <1>2, <1>3, <1>5, <2>1
  <2>3. \A x \in Elems : (\E i \in 1 .. n : fHeap[i] = x) <=> fCurrentHeap[x]
    BY <1>1 DEF HeapInv, HeldOnce
  <2>4. \A x : (\E i \in DOMAIN fHeap' : fHeap'[i] = x)
                <=> ((\E i \in 1 .. n : fHeap[i] = x) \/ x = e)
    BY <1>1, <1>2, <1>3
  <2>5. n + 1 < fArraySize'
    BY <1>1 DEF HeapInv, HeldOnce, HeapTypeOK, Grown
  <2> QED
    BY <1>2, <2>2, <2>3, <2>4, <2>5 DEF HeldOnce
<1>7. InOrderBut'
  <2> SUFFICES ASSUME ~cut, NEW i \in 2 .. n + 1
               PROVE  /\ i # n + 1 => ValueAt(i \div 2)' <= ValueAt(i)'
                      /\ i \div 2 # n + 1
    BY <1>2 DEF InOrderBut, OutOfPlace
  <2>1. i \div 2 \in 1 .. n
    BY <1>1
  <2>2. CASE i # n + 1
    <3>1. ValueAt(i \div 2) <= ValueAt(i)
      BY <1>1, <2>2 DEF HeapInv, InOrderBut, OutOfPlace
    <3> QED
      BY <1>1, <1>2, <2>1, <2>2, <3>1 DEF ValueAt
  <2> QED
    BY <1>1, <2>1, <2>2
<1> QED
  BY <1>1, <1>3, <1>4, <1>6, <1>7 DEF HeapInv

LEMMA RisesKeeps == ASSUME HeapInv, Rises PROVE HeapInv'
<1> DEFINE n == Len(fHeap)
<1>0. PICK p \in Nat : p = pos
  BY DEF HeapInv, HeapTypeOK
<1>q. PICK q \in Nat : q = p \div 2
  OBVIOUS
<1>1. /\ n \in Nat /\ DOMAIN fHeap = 1 .. n
      /\ p \in 2 .. n /\ q \in 1 .. n /\ q # p
      /\ heapPc = "rises" /\ heapPc' = "rises" /\ pos' = q
  BY <1>0, <1>q DEF HeapInv, HeapTypeOK, Rises, MustRise
<1>2. /\ fHeap' \in Seq(Elems) /\ Len(fHeap') = n
      /\ \A k \in 1 .. n :
           fHeap'[k] = IF k = p THEN fHeap[q] ELSE IF k = q THEN fHeap[p] ELSE fHeap[k]
  <2>1. HeapTypeOK /\ p \in DOMAIN fHeap /\ q \in DOMAIN fHeap
    BY <1>1 DEF HeapInv
  <2>2. fHeap' = Swapped(p, q)
    BY <1>0, <1>q DEF Rises
  <2>3. /\ Swapped(p, q) \in Seq(Elems) /\ Len(Swapped(p, q)) = n
        /\ \A k \in DOMAIN fHeap :
              Swapped(p, q)[k] = IF k = p THEN fHeap[q] ELSE IF k = q THEN fHeap[p] ELSE fHeap[k]
    BY <2>1, SwappedIs
  <2> QED
    BY <1>1, <2>2, <2>3
<1>3. DOMAIN fHeap' = 1 .. n
  BY <1>2, <1>1
<1>4. HeapTypeOK'
  BY <1>1, <1>2 DEF HeapInv, HeapTypeOK, Rises
<1>5. HeldOnce'
  <2>1. HeapTypeOK /\ HeldOnce /\ p \in DOMAIN fHeap /\ q \in DOMAIN fHeap
    BY <1>1 DEF HeapInv
  <2>2. fHeap' = Swapped(p, q) /\ UNCHANGED <<fArraySize, fCurrentHeap, heapPc, moved>>
    BY <1>0, <1>q DEF Rises
  <2> QED
    BY <2>1, <2>2, SwapKeepsHeld
<1>6. InOrderBut'
  <2>a. cut' = cut
    BY DEF Rises
  <2> SUFFICES ASSUME ~cut, NEW i \in 2 .. n
               PROVE  /\ i # q => ValueAt(i \div 2)' <= ValueAt(i)'
                      /\ q > 1 /\ i \div 2 = q => ValueAt(q \div 2)' <= ValueAt(i)'
    BY <1>1, <1>2, <2>a DEF InOrderBut, OutOfPlace, ValueAt
  <2> DEFINE v == [k \in 1 .. n |-> ValueAt(k)]
             w == [k \in 1 .. n |-> fValue[fHeap'[k]]]
  <2>1. \A k \in 1 .. n : v[k] \in Int
    BY <1>1 DEF HeapInv, HeapTypeOK, ValueAt
  <2>2. \A k \in 1 .. n : v[k] = ValueAt(k)
    OBVIOUS
  <2>b. \A k \in 1 .. n : w[k] = ValueAt(k)'
    BY DEF ValueAt, Rises
  <2>3. \A k \in 2 .. n : (k # p => v[k \div 2] <= v[k])
                         /\ (k \div 2 = p => v[q] <= v[k])
    <3> SUFFICES ASSUME NEW k \in 2 .. n
                 PROVE  /\ k # p => ValueAt(k \div 2) <= ValueAt(k)
                        /\ k \div 2 = p => ValueAt(q) <= ValueAt(k)
      BY <1>1, <1>q, <2>2
    <3> QED
      BY <1>0, <1>q, <1>1 DEF HeapInv, InOrderBut, OutOfPlace
  <2>4. v[p] < v[q]
    BY <1>0, <1>q, <1>1 DEF Rises, MustRise, Less
  <2>5. \A k \in 1 .. n :
          w[k] = IF k = p THEN v[q] ELSE IF k = q THEN v[p] ELSE v[k]
    BY <1>q, <1>1, <1>2 DEF ValueAt
  <2>6. i \div 2 \in 1 .. n /\ (q > 1 => q \div 2 \in 1 .. n)
    BY <1>1
  <2>7. n \in Nat /\ p \in 2 .. n /\ q \in 1 .. n /\ q = p \div 2
    BY <1>q, <1>1
  <2> HIDE DEF n, v, w
  <2>8. /\ i # q => w[i \div 2] <= w[i]
        /\ q > 1 /\ i \div 2 = q => w[q \div 2] <= w[i]
    BY <2>1, <2>3, <2>4, <2>5, <2>7, RiseKeepsOrder, SMTT(60)
  <2> QED
    BY <1>q, <1>1, <2>b, <2>6, <2>8
<1> QED
  BY <1>1, <1>3, <1>4, <1>5, <1>6 DEF HeapInv, Rises

LEMMA InsertEndsKeeps == ASSUME HeapInv, InsertEnds PROVE HeapInv'
<1> USE DEF InsertEnds
<1>1. /\ Len(fHeap) \in Nat /\ DOMAIN fHeap = 1 .. Len(fHeap)
      /\ pos \in DOMAIN fHeap /\ moved \in Elems /\ heapPc = "rises"
  BY DEF HeapInv, HeapTypeOK
<1>2. HeapTypeOK'
  BY DEF HeapInv, HeapTypeOK
<1>3. HeldOnce'
  BY <1>1 DEF HeapInv, HeapTypeOK, HeldOnce
<1>4. InOrderBut'
  <2> SUFFICES ASSUME ~cut, NEW i \in 2 .. Len(fHeap)
               PROVE  ValueAt(i \div 2) <= ValueAt(i)
    BY DEF InOrderBut, OutOfPlace, ValueAt
  <2>1. CASE i # pos
    BY <1>1, <2>1 DEF HeapInv, InOrderBut, OutOfPlace
  <2>2. CASE i = pos
    <3>1. ValueAt(pos) \in Int /\ ValueAt(pos \div 2) \in Int
      BY <1>1, <2>2 DEF ValueAt, HeapInv, HeapTypeOK
    <3> QED
      BY <2>2, <3>1 DEF MustRise, Less
  <2> QED
    BY <2>1, <2>2
<1> QED
  BY <1>2, <1>3, <1>4 DEF HeapInv

(* The last leaf at place i.                                               *)
LEMMA LeafMovedIs ==
  ASSUME HeapTypeOK, NEW i \in DOMAIN fHeap
  PROVE  /\ LeafMoved(i) \in Seq(Elems) /\ Len(LeafMoved(i)) = Len(fHeap) - 1
         /\ \A k \in 1 .. Len(fHeap) - 1 :
              LeafMoved(i)[k] = IF k = i THEN fHeap[Len(fHeap)] ELSE fHeap[k]
<1> DEFINE n == Len(fHeap)
           f == [fHeap EXCEPT ![i] = LastLeaf]
<1>1. n \in Nat \ {0} /\ DOMAIN fHeap = 1 .. n /\ i \in 1 .. n
  BY DEF HeapTypeOK
<1>2. /\ f \in Seq(Elems) /\ Len(f) = n
      /\ \A k \in 1 .. n : f[k] = IF k = i THEN fHeap[n] ELSE fHeap[k]
  BY <1>1 DEF HeapTypeOK, LastLeaf
<1> HIDE DEF f
<1>3. /\ SubSeq(f, 1, n - 1) \in Seq(Elems) /\ Len(SubSeq(f, 1, n - 1)) = n - 1
      /\ \A k \in 1 .. n - 1 : SubSeq(f, 1, n - 1)[k] = f[k]
  BY <1>1, <1>2
<1>4. LeafMoved(i) = SubSeq(f, 1, n - 1)
  BY DEF LeafMoved, f
<1> QED
  BY <1>1, <1>2, <1>3, <1>4

LEMMA ExtractKeeps ==
  ASSUME HeapInv, NEW p \in DOMAIN fHeap, Extract(p)
  PROVE  HeapInv'
<1> DEFINE n == Len(fHeap)
<1>1. /\ n \in Nat \ {0} /\ DOMAIN fHeap = 1 .. n /\ p \in 1 .. n
      /\ \A k \in 1 .. n : fHeap[k] \in Elems
      /\ heapPc = "idle" /\ heapPc' = "sinks" /\ pos' = p
  BY DEF HeapInv, HeapTypeOK, Extract
<1>2. /\ fHeap' \in Seq(Elems) /\ Len(fHeap') = n - 1
      /\ \A k \in 1 .. n - 1 : fHeap'[k] = IF k = p THEN fHeap[n] ELSE fHeap[k]
  <2>1. HeapTypeOK /\ fHeap' = LeafMoved(p)
    BY DEF HeapInv, Extract
  <2> QED
    BY <2>1, LeafMovedIs
<1>3. DOMAIN fHeap' = 1 .. n - 1
  BY <1>1, <1>2
<1>4. HeapTypeOK'
  BY <1>1, <1>2 DEF HeapInv, HeapTypeOK, Extract
<1>5. HeldOnce'
  <2>1. \A i, j \in 1 .. n : fHeap[i] = fHeap[j] => i = j
    BY <1>1 DEF HeapInv, HeldOnce
  <2>2. \A i, j \in DOMAIN fHeap' : fHeap'[i] = fHeap'[j] => i = j
    BY <1>1, <1>2, <1>3, <2>1
  <2>3. \A e \in Elems : (\E i \in 1 .. n : fHeap[i] = e) <=> fCurrentHeap[e]
    BY <1>1 DEF HeapInv, HeldOnce
  <2>4. \A e \in Elems : (\E i \in DOMAIN fHeap' : fHeap'[i] = e)
                <=> ((\E i \in 1 .. n : fHeap[i] = e) /\ e # fHeap[p])
    <3> SUFFICES ASSUME NEW e \in Elems
                 PROVE  (\E i \in 1 .. n - 1 : fHeap'[i] = e)
                          <=> ((\E i \in 1 .. n : fHeap[i] = e) /\ e # fHeap[p])
      BY <1>3
    <3>1. ASSUME NEW i \in 1 .. n - 1, fHeap'[i] = e
          PROVE  (\E k \in 1 .. n : fHeap[k] = e) /\ e # fHeap[p]
      BY <1>1, <1>2, <2>1, <3>1
    <3>2. ASSUME NEW k \in 1 .. n, fHeap[k] = e, e # fHeap[p]
          PROVE  \E i \in 1 .. n - 1 : fHeap'[i] = e
      <4>1. CASE k = n
        <5>1. p \in 1 .. n - 1
          BY <1>1, <3>2, <4>1
        <5> QED
          BY <1>2, <3>2, <4>1, <5>1
      <4>2. CASE k # n
        <5>0. n \in Nat /\ k \in 1 .. n
          BY <1>1
        <5>1. k \in 1 .. n - 1
          BY <4>2, <5>0
        <5>2. k # p
          BY <3>2
        <5> QED
          BY <1>2, <3>2, <5>1, <5>2
      <4> QED
        BY <4>1, <4>2
    <3> QED
      BY <3>1, <3>2
  <2>5. fCurrentHeap' = [fCurrentHeap EXCEPT ![fHeap[p]] = FALSE] /\ n - 1 < fArraySize'
    BY <1>1 DEF HeapInv, HeldOnce, HeapTypeOK, Extract
  <2>6. fCurrentHeap \in [Elems -> BOOLEAN]
    BY DEF HeapInv, HeapTypeOK
  <2>7. \A e \in Elems : fCurrentHeap'[e] <=> fCurrentHeap[e] /\ e # fHeap[p]
    BY <2>5, <2>6, Zenon
  <2>8. \A e \in Elems : (\E i \in DOMAIN fHeap' : fHeap'[i] = e) <=> fCurrentHeap'[e]
    BY <2>3, <2>4, <2>7, Zenon
  <2> QED
    BY <1>1, <1>2, <2>2, <2>5, <2>8 DEF HeldOnce
<1>6. InOrderBut'
  <2> SUFFICES ASSUME ~cut', NEW i \in 2 .. n - 1
               PROVE  /\ i \div 2 # p => ValueAt(i \div 2)' <= ValueAt(i)'
                      /\ p > 1 /\ i \div 2 = p => ValueAt(p \div 2)' <= ValueAt(i)'
    BY <1>1, <1>2 DEF InOrderBut, OutOfPlace, ValueAt
  <2>1. ~cut /\ (p \in 2 .. n - 1 => ValueAt(p \div 2) <= ValueAt(n))
    <3>1. ~cut /\ (p \in 2 .. n - 1 => ~(ValueAt(n) < ValueAt(p \div 2)))
      BY <1>1 DEF Extract, ValueAt, LastLeaf, HeapInv, HeapTypeOK
    <3>2. \A k \in 1 .. n : ValueAt(k) \in Int
      BY <1>1 DEF HeapInv, HeapTypeOK, ValueAt
    <3>3. p \in 2 .. n - 1 => n \in 1 .. n /\ p \div 2 \in 1 .. n
      BY <1>1
    <3> QED
      BY <3>1, <3>2, <3>3
  <2>2. \A k \in 1 .. n : ValueAt(k) \in Int
    BY <1>1 DEF HeapInv, HeapTypeOK, ValueAt
  <2>3. \A k \in 2 .. n : ValueAt(k \div 2) <= ValueAt(k)
    BY <1>1, <2>1 DEF HeapInv, InOrderBut, OutOfPlace
  <2>4. \A k \in 1 .. n - 1 : ValueAt(k)' = IF k = p THEN ValueAt(n) ELSE ValueAt(k)
    BY <1>2 DEF ValueAt, Extract
  <2>5. i \div 2 \in 1 .. n - 1 /\ i \in 1 .. n - 1 /\ i \div 2 # i
    BY <1>1
  <2>6. ASSUME i \div 2 # p PROVE ValueAt(i \div 2)' <= ValueAt(i)'
    <3>1. ValueAt(i \div 2)' = ValueAt(i \div 2)
      BY <2>4, <2>5, <2>6
    <3>2. CASE i = p
      BY <1>1, <2>1, <2>4, <2>5, <3>1, <3>2
    <3>3. CASE i # p
      <4>1. ValueAt(i)' = ValueAt(i) /\ ValueAt(i \div 2) <= ValueAt(i)
        BY <2>3, <2>4, <2>5, <3>3
      <4> QED
        BY <3>1, <4>1, Zenon
    <3> QED
      BY <3>2, <3>3
  <2>7. ASSUME p > 1, i \div 2 = p PROVE ValueAt(p \div 2)' <= ValueAt(i)'
    <3>1. p \div 2 \in 1 .. n - 1 /\ p \div 2 # p /\ i # p /\ p \in 2 .. n /\ i \in 2 .. n
      BY <1>1, <2>5, <2>7
    <3>2. ValueAt(p \div 2)' = ValueAt(p \div 2) /\ ValueAt(i)' = ValueAt(i)
      BY <2>4, <2>5, <3>1
    <3>3. ValueAt(p \div 2) <= ValueAt(p) /\ ValueAt(p) <= ValueAt(i)
      BY <2>3, <2>7, <3>1
    <3>4. ValueAt(p \div 2) \in Int /\ ValueAt(p) \in Int /\ ValueAt(i) \in Int
      BY <1>1, <2>2, <3>1
    <3> QED
      BY <3>2, <3>3, <3>4
  <2> QED
    BY <2>6, <2>7
<1> QED
  BY <1>1, <1>4, <1>5, <1>6 DEF HeapInv

(* Greatest is the least of a place and its children.                      *)
LEMMA GreatestIs ==
  ASSUME HeapTypeOK, NEW p \in DOMAIN fHeap
  PROVE  /\ Greatest(p) \in {p, 2 * p, 2 * p + 1} \cap DOMAIN fHeap
         /\ Greatest(p) # p => ValueAt(Greatest(p)) < ValueAt(p)
         /\ \A i \in 2 .. Len(fHeap) : i \div 2 = p => ValueAt(Greatest(p)) <= ValueAt(i)
<1> DEFINE n == Len(fHeap)
<1>1. n \in Nat /\ DOMAIN fHeap = 1 .. n /\ p \in 1 .. n
  BY DEF HeapTypeOK
<1>2. \A k \in 1 .. n : ValueAt(k) \in Int
  BY <1>1 DEF HeapTypeOK, ValueAt
<1>3. \A i \in 2 .. n : i \div 2 = p => i \in {2 * p, 2 * p + 1}
  BY <1>1
<1> DEFINE g == IF 2 * p <= n /\ ValueAt(2 * p) < ValueAt(p) THEN 2 * p ELSE p
<1>4. Greatest(p) = IF 2 * p + 1 <= n /\ ValueAt(2 * p + 1) < ValueAt(g) THEN 2 * p + 1 ELSE g
  BY DEF Greatest, Less
<1>5. /\ g \in 1 .. n /\ g \in {p, 2 * p}
      /\ g # p => ValueAt(g) < ValueAt(p)
      /\ 2 * p <= n => ValueAt(g) <= ValueAt(2 * p)
      /\ ValueAt(g) <= ValueAt(p)
  <2>1. 2 * p <= n => 2 * p \in 1 .. n
    BY <1>1
  <2>2. ValueAt(p) \in Int /\ (2 * p <= n => ValueAt(2 * p) \in Int)
    BY <1>1, <1>2, <2>1
  <2> QED
    BY <1>1, <2>1, <2>2
<1> HIDE DEF g
<1>6. /\ 2 * p + 1 <= n => 2 * p + 1 \in 1 .. n /\ 2 * p \in 1 .. n /\ 2 * p <= n
      /\ 2 * p + 1 # p
  BY <1>1
<1>7. /\ ValueAt(g) \in Int /\ ValueAt(p) \in Int
      /\ 2 * p <= n => ValueAt(2 * p) \in Int
      /\ 2 * p + 1 <= n => ValueAt(2 * p + 1) \in Int
  BY <1>1, <1>2, <1>5
<1>8. CASE 2 * p + 1 <= n /\ ValueAt(2 * p + 1) < ValueAt(g)
  <2>1. /\ Greatest(p) = 2 * p + 1 /\ 2 * p + 1 \in DOMAIN fHeap
        /\ ValueAt(2 * p + 1) < ValueAt(p)
        /\ ValueAt(2 * p + 1) <= ValueAt(2 * p)
    BY <1>1, <1>4, <1>5, <1>6, <1>7, <1>8
  <2>2. ValueAt(2 * p + 1) <= ValueAt(2 * p + 1)
    BY <1>7, <1>8
  <2> QED
    BY <1>3, <2>1, <2>2
<1>9. CASE ~(2 * p + 1 <= n /\ ValueAt(2 * p + 1) < ValueAt(g))
  <2>1. Greatest(p) = g
    BY <1>4, <1>9
  <2>2. /\ 2 * p <= n => ValueAt(g) <= ValueAt(2 * p)
        /\ 2 * p + 1 <= n => ValueAt(g) <= ValueAt(2 * p + 1)
    BY <1>5, <1>7, <1>9
  <2>3. \A i \in 2 .. n : i <= n
    BY <1>1
  <2> QED
    BY <1>1, <1>3, <1>5, <2>1, <2>2, <2>3
<1> QED
  BY <1>8, <1>9

LEMMA SinksKeeps == ASSUME HeapInv, Sinks PROVE HeapInv'
<1> DEFINE n == Len(fHeap)
<1>0. PICK p \in Nat : p = pos
  BY DEF HeapInv, HeapTypeOK
<1>p. n \in Nat /\ DOMAIN fHeap = 1 .. n /\ p \in 1 .. n
  BY <1>0 DEF HeapInv, HeapTypeOK, Sinks
<1>g. PICK g \in 1 .. n :
        /\ g = Greatest(p) /\ g # p
        /\ g \in {2 * p, 2 * p + 1}
        /\ ValueAt(g) < ValueAt(p)
        /\ \A i \in 2 .. n : i \div 2 = p => ValueAt(g) <= ValueAt(i)
  BY <1>0, <1>p, GreatestIs DEF HeapInv, Sinks
<1>1. /\ g \in 2 .. n /\ g \div 2 = p
      /\ heapPc = "sinks" /\ heapPc' = "sinks" /\ pos' = g
  BY <1>0, <1>p, <1>g DEF Sinks
<1>2. /\ fHeap' \in Seq(Elems) /\ Len(fHeap') = n
      /\ \A k \in 1 .. n :
           fHeap'[k] = IF k = p THEN fHeap[g] ELSE IF k = g THEN fHeap[p] ELSE fHeap[k]
  <2>1. HeapTypeOK /\ p \in DOMAIN fHeap /\ g \in DOMAIN fHeap
    BY <1>p DEF HeapInv
  <2>2. fHeap' = Swapped(p, g)
    BY <1>0, <1>g DEF Sinks
  <2>3. /\ Swapped(p, g) \in Seq(Elems) /\ Len(Swapped(p, g)) = n
        /\ \A k \in DOMAIN fHeap :
              Swapped(p, g)[k] = IF k = p THEN fHeap[g] ELSE IF k = g THEN fHeap[p] ELSE fHeap[k]
    BY <2>1, SwappedIs
  <2> QED
    BY <1>p, <2>2, <2>3
<1>3. DOMAIN fHeap' = 1 .. n
  BY <1>2, <1>p
<1>4. HeapTypeOK'
  BY <1>1, <1>2 DEF HeapInv, HeapTypeOK, Sinks
<1>5. HeldOnce'
  <2>1. HeapTypeOK /\ HeldOnce /\ p \in DOMAIN fHeap /\ g \in DOMAIN fHeap
    BY <1>p DEF HeapInv
  <2>2. fHeap' = Swapped(p, g) /\ UNCHANGED <<fArraySize, fCurrentHeap, heapPc, moved>>
    BY <1>0, <1>g DEF Sinks
  <2> QED
    BY <2>1, <2>2, SwapKeepsHeld
<1>6. InOrderBut'
  <2>a. cut' = cut
    BY DEF Sinks
  <2> SUFFICES ASSUME ~cut, NEW i \in 2 .. n
               PROVE  /\ i \div 2 # g => ValueAt(i \div 2)' <= ValueAt(i)'
                      /\ i \div 2 = g => ValueAt(g \div 2)' <= ValueAt(i)'
    BY <1>1, <1>2, <2>a DEF InOrderBut, OutOfPlace, ValueAt
  <2> DEFINE v == [k \in 1 .. n |-> ValueAt(k)]
             w == [k \in 1 .. n |-> fValue[fHeap'[k]]]
  <2>1. \A k \in 1 .. n : v[k] \in Int
    BY <1>p DEF HeapInv, HeapTypeOK, ValueAt
  <2>2. \A k \in 1 .. n : v[k] = ValueAt(k)
    OBVIOUS
  <2>b. \A k \in 1 .. n : w[k] = ValueAt(k)'
    BY DEF ValueAt, Sinks
  <2>3. \A k \in 2 .. n : (k \div 2 # p => v[k \div 2] <= v[k])
                         /\ (p > 1 /\ k \div 2 = p => v[p \div 2] <= v[k])
    <3> SUFFICES ASSUME NEW k \in 2 .. n
                 PROVE  /\ k \div 2 # p => ValueAt(k \div 2) <= ValueAt(k)
                        /\ p > 1 /\ k \div 2 = p => ValueAt(p \div 2) <= ValueAt(k)
      BY <1>p, <2>2
    <3> QED
      BY <1>0, <1>1, <1>p DEF HeapInv, InOrderBut, OutOfPlace
  <2>4. v[g] < v[p] /\ \A k \in 2 .. n : k \div 2 = p => v[g] <= v[k]
    BY <1>p, <1>g, <2>2
  <2>5. \A k \in 1 .. n : w[k] = IF k = p THEN v[g] ELSE IF k = g THEN v[p] ELSE v[k]
    BY <1>p, <1>1, <1>2 DEF ValueAt
  <2>6. i \div 2 \in 1 .. n /\ g \div 2 \in 1 .. n
    BY <1>p, <1>1
  <2> HIDE DEF n, v, w
  <2>7. /\ i \div 2 # g => w[i \div 2] <= w[i]
        /\ i \div 2 = g => w[p] <= w[i]
    <3>1. n \in Nat /\ p \in 1 .. n /\ g \in 2 .. n /\ g \div 2 = p
      BY <1>p, <1>1
    <3> QED
      BY <3>1, <2>1, <2>3, <2>4, <2>5, SinkKeepsOrder
  <2> QED
    BY <1>p, <1>1, <2>b, <2>6, <2>7
<1> QED
  BY <1>1, <1>4, <1>5, <1>6 DEF HeapInv

LEMMA ExtractEndsKeeps == ASSUME HeapInv, ExtractEnds PROVE HeapInv'
<1> USE DEF ExtractEnds
<1> DEFINE n == Len(fHeap)
<1>0. PICK p \in Nat \ {0} : p = pos
  BY DEF HeapInv, HeapTypeOK
<1>1. n \in Nat /\ DOMAIN fHeap = 1 .. n /\ heapPc = "sinks"
  BY DEF HeapInv, HeapTypeOK
<1>2. HeapTypeOK'
  BY DEF HeapInv, HeapTypeOK
<1>3. HeldOnce'
  BY <1>1 DEF HeapInv, HeldOnce
<1>4. InOrderBut'
  <2> SUFFICES ASSUME ~cut, NEW i \in 2 .. n
               PROVE  ValueAt(i \div 2) <= ValueAt(i)
    BY DEF InOrderBut, OutOfPlace, ValueAt
  <2>1. CASE i \div 2 # p
    BY <1>0, <1>1, <2>1 DEF HeapInv, InOrderBut, OutOfPlace
  <2>2. CASE i \div 2 = p
    <3>1. p \in DOMAIN fHeap /\ Greatest(p) = p
      BY <1>0, <1>1, <2>2
    <3>2. ValueAt(Greatest(p)) <= ValueAt(i)
      BY <2>2, <3>1, GreatestIs DEF HeapInv
    <3> QED
      BY <2>2, <3>1, <3>2
  <2> QED
    BY <2>1, <2>2
<1> QED
  BY <1>2, <1>3, <1>4 DEF HeapInv

(* The value of an element outside the heap.                               *)
LEMMA SetValueKeeps ==
  ASSUME HeapInv, NEW e \in Elems, NEW d \in Int,
         ~fCurrentHeap[e], ~(heapPc = "rises" /\ moved = e),
         fValue' = [fValue EXCEPT ![e] = d],
         UNCHANGED <<fHeap, fArraySize, fCurrentHeap, heapPc, pos, moved, victim, cut>>
  PROVE  HeapInv'
<1>1. /\ Len(fHeap) \in Nat /\ DOMAIN fHeap = 1 .. Len(fHeap)
      /\ \A k \in DOMAIN fHeap : fHeap[k] \in Elems
  BY DEF HeapInv, HeapTypeOK
<1>2. \A k \in DOMAIN fHeap : fHeap[k] # e
  BY DEF HeapInv, HeldOnce
<1>3. \A k \in DOMAIN fHeap : fValue'[fHeap[k]] = fValue[fHeap[k]]
  BY <1>1, <1>2 DEF HeapInv, HeapTypeOK
<1>4. HeapTypeOK' /\ HeldOnce'
  BY DEF HeapInv, HeapTypeOK, HeldOnce
<1>5. InOrderBut'
  <2> SUFFICES ASSUME ~cut, NEW i \in 2 .. Len(fHeap)
               PROVE  /\ ~OutOfPlace(i) => fValue'[fHeap[i \div 2]] <= fValue'[fHeap[i]]
                      /\ heapPc # "idle" /\ pos > 1 /\ i \div 2 = pos
                           => fValue'[fHeap[pos \div 2]] <= fValue'[fHeap[i]]
    BY DEF InOrderBut, OutOfPlace, ValueAt
  <2>1. i \in DOMAIN fHeap /\ i \div 2 \in DOMAIN fHeap
    BY <1>1
  <2>2. pos > 1 /\ i \div 2 = pos => pos \div 2 \in DOMAIN fHeap
    BY <1>1 DEF HeapInv, HeapTypeOK
  <2>3. /\ ~OutOfPlace(i) => ValueAt(i \div 2) <= ValueAt(i)
        /\ heapPc # "idle" /\ pos > 1 /\ i \div 2 = pos => ValueAt(pos \div 2) <= ValueAt(i)
    BY DEF HeapInv, InOrderBut
  <2> QED
    BY <1>3, <2>1, <2>2, <2>3 DEF ValueAt
<1> QED
  BY <1>4, <1>5 DEF HeapInv

LEMMA HeapGoesOnKeeps == HeapInv /\ HeapGoesOn => HeapInv'
  BY RisesKeeps, InsertEndsKeeps, SinksKeeps, ExtractEndsKeeps DEF HeapGoesOn

LEMMA ExtractMinKeeps == HeapInv /\ ExtractMin => HeapInv'
<1> SUFFICES ASSUME HeapInv, ExtractMin PROVE HeapInv'
  OBVIOUS
<1>1. 1 \in DOMAIN fHeap
  BY DEF HeapInv, HeapTypeOK, ExtractMin
<1> QED
  BY <1>1, ExtractKeeps DEF ExtractMin

LEMMA RemoveKeeps == ASSUME HeapInv, NEW e, Remove(e) PROVE HeapInv'
  BY ExtractKeeps DEF Remove

LEMMA HeapStartsRight == HeapInit => HeapInv
<1> SUFFICES ASSUME HeapInit PROVE HeapInv
  OBVIOUS
<1> USE DEF HeapInit
<1>1. fHeap = << >> /\ Len(fHeap) = 0 /\ DOMAIN fHeap = {}
  OBVIOUS
<1>2. HeapTypeOK
  <2>1. fHeap \in Seq(Elems)
    OBVIOUS
  <2>2. fArraySize \in Nat
    BY HeapAssumption
  <2>3. fValue \in [Elems -> Int] /\ fCurrentHeap \in [Elems -> BOOLEAN]
    OBVIOUS
  <2>4. pos \in Nat \ {0}
    OBVIOUS
  <2>5. cut \in BOOLEAN
    BY Zenon
  <2> QED
    BY <2>1, <2>2, <2>3, <2>4, <2>5, Zenon DEF HeapTypeOK
<1>3. HeldOnce
  BY <1>1, HeapAssumption DEF HeldOnce
<1> QED
  BY <1>1, <1>2, <1>3 DEF HeapInv, InOrderBut

(* The heap holds each element once, has places enough and is in order     *)
(* whenever it is at rest, whatever is inserted, extracted and removed, as *)
(* long as no removal has left a leaf under a greater parent.              *)
THEOREM HeapIsRight == HeapSpec => []HeapRight
<1>1. HeapInv /\ HeapNext => HeapInv'
  <2> SUFFICES ASSUME HeapInv, HeapNext PROVE HeapInv'
    OBVIOUS
  <2>1. CASE \E e \in Elems, d \in Values : SetValue(e, d)
    <3> PICK e \in Elems, d \in Values : SetValue(e, d)
      BY <2>1
    <3>1. d \in Int
      BY HeapAssumption
    <3> QED
      BY <3>1, SetValueKeeps DEF SetValue
  <2>2. CASE \E e \in Elems : ~fCurrentHeap[e] /\ Insert(e)
    BY <2>2, InsertKeeps
  <2>3. CASE ExtractMin
    BY <2>3, ExtractMinKeeps
  <2>4. CASE \E e \in Elems : Remove(e)
    BY <2>4, RemoveKeeps
  <2>5. CASE HeapGoesOn
    BY <2>5, HeapGoesOnKeeps
  <2> QED
    BY <2>1, <2>2, <2>3, <2>4, <2>5 DEF HeapNext
<1>2. HeapInv /\ UNCHANGED heapVars => HeapInv'
  BY DEF HeapInv, HeapTypeOK, HeldOnce, InOrderBut, OutOfPlace, ValueAt, heapVars
<1> QED
  BY <1>1, <1>2, HeapStartsRight, HeapInvRight, PTL DEF HeapSpec

-----------------------------------------------------------------------------
(* The idle thread and the tasks                                           *)

(* Who holds fHeapMutex is in the midst of what needs it, and the element  *)
(* that rises is the one its holder inserts.                               *)
MutexHeld ==
  /\ \A t \in Elems : fHeapMutex = t <=> callPc[t] \in {"inserting", "cancelling", "dying"}
  /\ idlePc \in {"read", "pop", "popping", "signal"} => fHeapMutex = IdleThread
  /\ Waiting => fHeapMutex # IdleThread
  /\ heapPc = "rises" => fHeapMutex = moved /\ callPc[moved] = "inserting"

(* A task in a call exists, as does one in the heap and one that is taken  *)
(* off to be signalled; none is inserted twice, or deleted in the heap.    *)
CallsMatch ==
  /\ \A t \in Elems :
       /\ callPc[t] # "" => t \in alive
       /\ callPc[t] \in {"insert", "cancelling", "dying"} => ~fCurrentHeap[t]
       /\ fCurrentHeap[t] => t \in alive
  /\ idlePc \in {"popping", "signal"} => victim \in alive

TimerInv == TypeOK /\ HeapInv /\ MutexHeld /\ CallsMatch /\ NeverOversleeps

LEMMA ClockIsRight == TypeOK => now \in 0 .. MaxNow /\ now \in Nat /\ MaxNow \in Nat
<1> SUFFICES ASSUME TypeOK PROVE now \in 0 .. MaxNow /\ now \in Nat /\ MaxNow \in Nat
  OBVIOUS
<1>1. MaxNow \in Nat
  BY TimerAssumption
<1>2. now \in 0 .. MaxNow
  BY Zenon DEF TypeOK
<1> QED
  BY <1>1, <1>2

LEMMA DelaysAreRight == \A d \in Delays : d \in Nat
  BY TimerAssumption

LEMMA TimerStartsRight == Init => TimerInv
<1> SUFFICES ASSUME Init PROVE TimerInv
  OBVIOUS
<1>1. HeapInv
  BY HeapStartsRight DEF Init
<1>2. TypeOK
  <2>1. callPc \in [Elems -> {"", "insert", "inserting", "signal", "cancelling", "dying"}]
    BY DEF Init
  <2>2. now \in 0 .. MaxNow /\ msec \in Nat /\ timeoutTime \in Nat /\ wakeAt \in Nat \cup {Never}
    <3>1. now = 0 /\ msec = 0 /\ timeoutTime = 0 /\ wakeAt = 0
      BY DEF Init
    <3> QED
      BY <3>1, TimerAssumption
  <2>3. woken \in BOOLEAN
    BY Zenon DEF Init
  <2> QED
    BY <1>1, <2>1, <2>2, <2>3, Zenon DEF Init, TypeOK, HeapInv
<1>3. MutexHeld
  BY HeapAssumption, TimerAssumption DEF Init, HeapInit, MutexHeld, Waiting
<1>4. CallsMatch
  BY DEF Init, HeapInit, CallsMatch
<1>5. NeverOversleeps
  BY DEF Init, NeverOversleeps, Waiting
<1> QED
  BY <1>1, <1>2, <1>3, <1>4, <1>5 DEF TimerInv

LEMMA HeapRests ==
  ASSUME HeapInv, UNCHANGED heapButVictim, victim' = victim \/ victim' = Nil
  PROVE  HeapInv'
<1>1. HeapTypeOK'
  BY DEF HeapInv, HeapTypeOK, heapButVictim
<1> QED
  BY <1>1 DEF HeapInv, HeldOnce, InOrderBut, OutOfPlace, ValueAt, heapButVictim

(* At rest, what is in the heap says so.                                   *)
LEMMA InHeapAtRest ==
  ASSUME HeapInv, heapPc = "idle"
  PROVE  /\ \A i \in DOMAIN fHeap : fHeap[i] \in Elems /\ fCurrentHeap[fHeap[i]]
         /\ \A e \in Elems : fCurrentHeap[e] => \E i \in DOMAIN fHeap : fHeap[i] = e
  BY DEF HeapInv, HeapTypeOK, HeldOnce

LEMMA SetIdleTimerKeeps ==
  ASSUME TimerInv, NEW t \in Elems, NEW d \in Delays, SetIdleTimer(t, d)
  PROVE  TimerInv'
<1>0. now + d \in Int /\ now + d <= MaxNow /\ TypeOK
  <2>1. TypeOK /\ now + d <= MaxNow
    BY DEF TimerInv, SetIdleTimer
  <2>2. now \in Nat /\ d \in Nat
    BY <2>1, ClockIsRight, DelaysAreRight
  <2> QED
    BY <2>1, <2>2
<1>c. callPc[t] = "" /\ callPc' = [callPc EXCEPT ![t] = "insert"] /\ ~fCurrentHeap[t] /\ t \in alive
  BY DEF SetIdleTimer, Moves
<1>u. UNCHANGED <<fHeap, fArraySize, fCurrentHeap, heapPc, pos, moved, victim, cut, now,
                  fHeapMutex, alive, idlePc, msec, timeoutTime, wakeAt, woken>>
  BY DEF SetIdleTimer, idleVars
<1>1. HeapInv'
  <2>1. ~(heapPc = "rises" /\ moved = t)
    BY <1>c DEF TimerInv, MutexHeld
  <2>2. fValue' = [fValue EXCEPT ![t] = now + d]
    BY DEF SetIdleTimer
  <2>3. HeapInv
    BY DEF TimerInv
  <2> QED
    BY <1>0, <1>c, <1>u, <2>1, <2>2, <2>3, SetValueKeeps
<1>2. TypeOK'
  BY <1>0, <1>1, <1>c, <1>u DEF TypeOK, HeapInv
<1>3. MutexHeld'
  <2>1. moved \in Elems \/ heapPc # "rises"
    BY DEF TimerInv, HeapInv
  <2>2. /\ \A e \in Elems : e # t => callPc'[e] = callPc[e]
        /\ callPc'[t] = "insert"
    BY <1>0, <1>c DEF TypeOK
  <2> QED
    BY <1>c, <1>u, <2>1, <2>2 DEF TimerInv, MutexHeld, Waiting
<1>4. CallsMatch'
  BY <1>0, <1>c, <1>u DEF TimerInv, TypeOK, CallsMatch
<1>5. NeverOversleeps'
  <2>1. \A e \in Elems : e # t => fValue'[e] = fValue[e] /\ callPc'[e] = callPc[e]
    BY <1>0, <1>c DEF SetIdleTimer, TypeOK, HeapTypeOK
  <2> QED
    BY <1>c, <1>u, <2>1 DEF TimerInv, NeverOversleeps, Waiting
<1> QED
  BY <1>1, <1>2, <1>3, <1>4, <1>5 DEF TimerInv

LEMMA CreateKeeps == ASSUME TimerInv, NEW t \in Elems, Create(t) PROVE TimerInv'
<1>c. callPc[t] = "" /\ t \notin alive /\ alive' = alive \cup {t} /\ TypeOK
  BY DEF Create, TimerInv
<1>u. UNCHANGED <<fHeap, fArraySize, fCurrentHeap, heapPc, pos, moved, victim, cut, now,
                  fHeapMutex, callPc, idlePc, msec, timeoutTime, wakeAt, woken>>
  BY DEF Create, idleVars
<1>n. ~fCurrentHeap[t]
  BY <1>c DEF TimerInv, CallsMatch
<1>1. HeapInv'
  <2>1. ~(heapPc = "rises" /\ moved = t)
    BY <1>c DEF TimerInv, MutexHeld
  <2>2. fValue' = [fValue EXCEPT ![t] = 0]
    BY DEF Create
  <2>3. HeapInv
    BY DEF TimerInv
  <2>4. 0 \in Int
    OBVIOUS
  <2> QED
    BY <1>u, <1>n, <2>1, <2>2, <2>3, <2>4, SetValueKeeps
<1>2. TypeOK'
  BY <1>1, <1>c, <1>u DEF TypeOK, HeapInv
<1>3. MutexHeld'
  BY <1>u DEF TimerInv, MutexHeld, Waiting
<1>4. CallsMatch'
  BY <1>c, <1>u DEF TimerInv, CallsMatch
<1>5. NeverOversleeps'
  <2>1. \A e \in Elems : e # t => fValue'[e] = fValue[e]
    BY <1>c DEF Create, TypeOK, HeapTypeOK
  <2> QED
    BY <1>u, <1>n, <2>1 DEF TimerInv, NeverOversleeps, Waiting
<1> QED
  BY <1>1, <1>2, <1>3, <1>4, <1>5 DEF TimerInv

LEMMA InsertTimerKeeps == ASSUME TimerInv, NEW t \in Elems, InsertTimer(t) PROVE TimerInv'
<1> USE DEF InsertTimer, Moves, Locks, idleVars
<1>1. HeapInv'
  BY InsertKeeps DEF TimerInv, CallsMatch
<1>2. TypeOK'
  BY <1>1 DEF TimerInv, TypeOK, HeapInv
<1> USE DEF Insert
<1>3. MutexHeld'
  BY HeapAssumption, TimerAssumption DEF TimerInv, TypeOK, MutexHeld, Waiting
<1>4. CallsMatch'
  BY DEF TimerInv, TypeOK, CallsMatch
<1>5. NeverOversleeps'
  BY DEF TimerInv, TypeOK, NeverOversleeps, Waiting
<1> QED
  BY <1>1, <1>2, <1>3, <1>4, <1>5 DEF TimerInv

(* What Remove does outside the array.                                     *)
LEMMA RemoveTakesOff ==
  ASSUME HeapInv, NEW t \in Elems, Remove(t)
  PROVE  /\ victim' = t
         /\ \A e \in Elems : fCurrentHeap'[e] <=> fCurrentHeap[e] /\ e # t
         /\ ~cut' => ~cut
         /\ heapPc = "idle" /\ heapPc' = "sinks" /\ UNCHANGED <<fValue, moved>>
  BY DEF Remove, Extract, HeapInv, HeapTypeOK

(* CancelTimeout and the destructor.                                       *)
LEMMA TakeOffKeeps ==
  ASSUME TimerInv, NEW t \in Elems, NEW to \in {"cancelling", "dying"},
         t \in alive, Moves(t, "", to), Locks(t), TakeOff(t),
         UNCHANGED <<now, alive, idleVars, woken>>
  PROVE  TimerInv'
<1> USE DEF Moves, Locks, idleVars
<1>1. HeapInv'
  <2>1. CASE fCurrentHeap[t]
    BY <2>1, RemoveKeeps DEF TimerInv, TakeOff
  <2>2. CASE ~fCurrentHeap[t]
    BY <2>2, HeapRests DEF TimerInv, TakeOff, heapVars, heapButVictim
  <2> QED
    BY <2>1, <2>2
<1>2. TypeOK'
  BY <1>1 DEF TimerInv, TypeOK, HeapInv
<1>3. heapPc # "rises"
  BY HeapAssumption DEF TimerInv, MutexHeld, HeapInv
<1>4. /\ \A e \in Elems : fCurrentHeap'[e] <=> fCurrentHeap[e] /\ e # t
      /\ ~cut' => ~cut
      /\ heapPc' # "rises" /\ fValue' = fValue
  <2>1. CASE fCurrentHeap[t]
    BY <2>1, RemoveTakesOff DEF TimerInv, TakeOff
  <2>2. CASE ~fCurrentHeap[t]
    BY <1>3, <2>2 DEF TakeOff, heapVars
  <2> QED
    BY <2>1, <2>2
<1>5. MutexHeld'
  BY <1>4, HeapAssumption, TimerAssumption DEF TimerInv, TypeOK, MutexHeld, Waiting
<1>6. CallsMatch'
  <2>1. idlePc \notin {"popping", "signal"}
    BY TimerAssumption DEF TimerInv, MutexHeld
  <2> QED
    BY <1>4, <2>1 DEF TimerInv, TypeOK, CallsMatch
<1>7. NeverOversleeps'
  BY <1>4 DEF TimerInv, TypeOK, NeverOversleeps, Waiting
<1> QED
  BY <1>1, <1>2, <1>5, <1>6, <1>7 DEF TimerInv

(* The steps of a task that leave the heap alone.                          *)
LEMMA EndsKeep ==
  ASSUME TimerInv, NEW t \in Elems,
         EndInsert(t) \/ SignalCond(t) \/ EndCancel(t) \/ EndDestroy(t)
  PROVE  TimerInv'
<1> USE DEF Moves, Unlocks, idleVars, heapVars, heapButVictim
<1>1. HeapInv'
  BY HeapRests DEF TimerInv, EndInsert, SignalCond, EndCancel, EndDestroy
<1>2. TypeOK'
  BY <1>1 DEF TimerInv, TypeOK, HeapInv, Signalled, Waiting, EndInsert, SignalCond, EndCancel, EndDestroy
<1>3. CASE EndInsert(t)
  <2> USE <1>3 DEF EndInsert
  <2>1. MutexHeld'
    BY HeapAssumption, TimerAssumption DEF TimerInv, TypeOK, MutexHeld, Waiting
  <2>2. CallsMatch'
    BY DEF TimerInv, TypeOK, CallsMatch
  <2>3. NeverOversleeps'
    BY DEF TimerInv, TypeOK, NeverOversleeps, Waiting
  <2> QED
    BY <1>1, <1>2, <2>1, <2>2, <2>3 DEF TimerInv
<1>4. CASE SignalCond(t)
  <2> USE <1>4 DEF SignalCond
  <2>1. MutexHeld'
    BY DEF TimerInv, TypeOK, HeapInv, MutexHeld, Waiting
  <2>2. CallsMatch'
    BY DEF TimerInv, TypeOK, CallsMatch
  <2>3. NeverOversleeps'
    BY DEF TimerInv, TypeOK, NeverOversleeps, Waiting, Signalled
  <2> QED
    BY <1>1, <1>2, <2>1, <2>2, <2>3 DEF TimerInv
<1>5. CASE EndCancel(t) \/ EndDestroy(t)
  <2> USE <1>5 DEF EndCancel, EndDestroy
  <2>1. MutexHeld'
    BY HeapAssumption, TimerAssumption DEF TimerInv, TypeOK, MutexHeld, Waiting
  <2>2. CallsMatch'
    <3>1. idlePc \notin {"popping", "signal"}
      BY TimerAssumption DEF TimerInv, MutexHeld
    <3> QED
      BY <3>1 DEF TimerInv, TypeOK, CallsMatch
  <2>3. NeverOversleeps'
    BY DEF TimerInv, TypeOK, NeverOversleeps, Waiting
  <2> QED
    BY <1>1, <1>2, <2>1, <2>2, <2>3 DEF TimerInv
<1> QED
  BY <1>3, <1>4, <1>5

LEMMA PopDueKeeps == ASSUME TimerInv, PopDue PROVE TimerInv'
<1> USE DEF PopDue, Goes, taskVars
<1>1. HeapInv'
  BY ExtractMinKeeps DEF TimerInv
<1>2. TypeOK'
  BY <1>1 DEF TimerInv, TypeOK, HeapInv
<1>3. 1 \in DOMAIN fHeap /\ heapPc = "idle" /\ fHeap[1] \in Elems /\ fCurrentHeap[fHeap[1]]
  <2>1. 1 \in DOMAIN fHeap /\ heapPc = "idle"
    BY DEF TimerInv, HeapInv, HeapTypeOK, ExtractMin, Extract
  <2> QED
    BY <2>1, InHeapAtRest DEF TimerInv
<1>4. /\ victim' = fHeap[1] /\ heapPc' = "sinks"
      /\ \A e \in Elems : fCurrentHeap'[e] => fCurrentHeap[e]
  BY <1>3 DEF ExtractMin, Extract, TimerInv, HeapInv, HeapTypeOK
<1>5. MutexHeld'
  BY <1>4 DEF TimerInv, MutexHeld, Waiting
<1>6. CallsMatch'
  BY <1>3, <1>4 DEF TimerInv, CallsMatch
<1>7. NeverOversleeps'
  BY DEF NeverOversleeps, Waiting
<1> QED
  BY <1>1, <1>2, <1>5, <1>6, <1>7 DEF TimerInv

LEMMA SleepKeeps == ASSUME TimerInv, Sleep PROVE TimerInv'
<1> USE DEF Sleep, Goes, Unlocks, taskVars, heapVars
<1>0. /\ 1 \in DOMAIN fHeap /\ PeekMin = fHeap[1] /\ fHeap[1] \in Elems
      /\ fValue[fHeap[1]] \in Nat /\ msec < fValue[fHeap[1]]
  <2>1. 1 \in DOMAIN fHeap /\ fHeap[1] \in Elems
    BY DEF TimerInv, HeapInv, HeapTypeOK
  <2>2. PeekMin = fHeap[1] /\ fValue[fHeap[1]] \in Int
    BY <2>1 DEF TimerInv, TypeOK, HeapTypeOK, PeekMin
  <2>3. ~(fValue[fHeap[1]] <= msec) /\ msec \in Nat
    BY <2>2 DEF TimerInv, TypeOK, MinIsDue
  <2> QED
    BY <2>1, <2>2, <2>3
<1>1. HeapInv'
  BY HeapRests DEF TimerInv, heapButVictim
<1>2. TypeOK'
  <2>1. SmallTime \in Nat
    <3>1. fValue[PeekMin] - msec \in Int /\ WordSize \in Nat \ {0}
      <4>1. msec \in Nat
        BY DEF TimerInv, TypeOK
      <4> QED
        BY <1>0, <4>1, TimerAssumption
    <3> QED
      BY <3>1 DEF SmallTime
  <2>2. SleepEnd \in Nat \cup {Never}
    <3>1. now \in Nat
      BY ClockIsRight DEF TimerInv
    <3> HIDE DEF SmallTime
    <3>2. now + SmallTime \in Nat
      BY <2>1, <3>1
    <3> QED
      BY <3>1, <3>2 DEF SleepEnd
  <2> QED
    BY <1>0, <1>1, <2>2 DEF TimerInv, TypeOK, HeapInv
<1>3. MutexHeld'
  BY HeapAssumption, TimerAssumption DEF TimerInv, TypeOK, MutexHeld, Waiting
<1>4. CallsMatch'
  BY DEF TimerInv, CallsMatch
<1>5. NeverOversleeps'
  <2> SUFFICES ASSUME ~cut, NEW t \in Elems, fCurrentHeap[t]
               PROVE  fValue[fHeap[1]] <= fValue[t]
    BY <1>0 DEF NeverOversleeps
  <2>1. PICK i \in DOMAIN fHeap : fHeap[i] = t
    BY InHeapAtRest DEF TimerInv
  <2>2. ValueAt(1) <= ValueAt(i)
    BY RootIsLeast DEF TimerInv
  <2> QED
    BY <2>1, <2>2 DEF ValueAt
<1> QED
  BY <1>1, <1>2, <1>3, <1>4, <1>5 DEF TimerInv

LEMMA WaitForTimerKeeps == ASSUME TimerInv, WaitForTimer PROVE TimerInv'
<1> USE DEF WaitForTimer, Goes, Unlocks, taskVars, heapVars
<1>1. HeapInv'
  BY HeapRests DEF TimerInv, heapButVictim
<1>2. TypeOK'
  BY <1>1 DEF TimerInv, TypeOK, HeapInv
<1>3. MutexHeld'
  BY HeapAssumption, TimerAssumption DEF TimerInv, TypeOK, MutexHeld, Waiting
<1>4. CallsMatch'
  BY DEF TimerInv, CallsMatch
<1>5. NeverOversleeps'
  <2>1. \A t \in Elems : ~fCurrentHeap[t]
    BY InHeapAtRest DEF TimerInv
  <2> QED
    BY <2>1 DEF NeverOversleeps
<1> QED
  BY <1>1, <1>2, <1>3, <1>4, <1>5 DEF TimerInv

(* The idle thread awake: it holds the mutex, or takes it.                 *)
LEMMA AwakeKeeps ==
  ASSUME TimerInv,
         \/ Starts \/ WakesFromWait \/ WakesFromSleep
         \/ ReadClock \/ Popped \/ SignalTask \/ NothingLeft
  PROVE  TimerInv'
<1> USE DEF Goes, Locks, taskVars, idleVars, heapVars, heapButVictim
<1> USE DEF Starts, WakesFromWait, WakesFromSleep, ReadClock, Popped, SignalTask, NothingLeft
<1>1. HeapInv'
  BY HeapRests DEF TimerInv
<1>2. TypeOK'
  <2>1. now \in Nat
    BY ClockIsRight DEF TimerInv
  <2>2. msec' \in Nat /\ timeoutTime' \in Nat /\ wakeAt' \in Nat \cup {Never}
    <3>1. msec' = msec \/ msec' = now \/ msec' = 0
      OBVIOUS
    <3>2. timeoutTime' = timeoutTime \/ timeoutTime' = 0
      OBVIOUS
    <3>3. wakeAt' = wakeAt \/ wakeAt' = 0
      OBVIOUS
    <3>4. msec \in Nat /\ timeoutTime \in Nat /\ wakeAt \in Nat \cup {Never}
      BY DEF TimerInv, TypeOK
    <3> QED
      BY <2>1, <3>1, <3>2, <3>3, <3>4
  <2>3. woken' \in BOOLEAN /\ fHeapMutex' \in Elems \cup {IdleThread, Nil}
    BY DEF TimerInv, TypeOK
  <2>4. idlePc' \in {"top", "wait", "read", "pop", "popping", "signal", "timed"}
    BY DEF TimerInv, TypeOK
  <2>5. UNCHANGED <<now, alive, callPc>>
    OBVIOUS
  <2> QED
    BY <1>1, <2>2, <2>3, <2>4, <2>5 DEF TimerInv, TypeOK, HeapInv
<1>3. MutexHeld'
  BY HeapAssumption, TimerAssumption DEF TimerInv, TypeOK, HeapInv, MutexHeld, Waiting
<1>4. CallsMatch'
  BY DEF TimerInv, TypeOK, MutexHeld, CallsMatch
<1>5. NeverOversleeps'
  BY DEF NeverOversleeps, Waiting
<1> QED
  BY <1>1, <1>2, <1>3, <1>4, <1>5 DEF TimerInv

LEMMA HeapStepKeeps == ASSUME TimerInv, HeapStep PROVE TimerInv'
<1> USE DEF HeapStep, taskVars, idleVars
<1>1. HeapInv'
  BY HeapGoesOnKeeps DEF TimerInv
<1>2. TypeOK'
  BY <1>1 DEF TimerInv, TypeOK, HeapInv
<1>3. UNCHANGED <<fValue, victim, cut>> /\ (heapPc' = "rises" => heapPc = "rises" /\ moved' = moved)
  BY DEF HeapGoesOn, Rises, InsertEnds, Sinks, ExtractEnds
<1>4. \/ fCurrentHeap' = fCurrentHeap
      \/ \E t \in Elems : /\ callPc[t] = "inserting" /\ t \in alive
                         /\ \A e \in Elems : fCurrentHeap'[e] <=> fCurrentHeap[e] \/ e = t
  <2>1. CASE InsertEnds
    <3>1. moved \in Elems /\ fHeapMutex = moved
      BY <2>1 DEF InsertEnds, TimerInv, HeapInv, MutexHeld
    <3>2. callPc[moved] = "inserting" /\ moved \in alive
      BY <2>1, <3>1 DEF InsertEnds, TimerInv, MutexHeld, CallsMatch
    <3> QED
      BY <2>1, <3>1, <3>2 DEF InsertEnds, TimerInv, HeapInv, HeapTypeOK
  <2> QED
    BY <2>1 DEF HeapGoesOn, Rises, Sinks, ExtractEnds
<1>5. MutexHeld'
  BY <1>3 DEF TimerInv, MutexHeld, Waiting
<1>6. CallsMatch'
  BY <1>3, <1>4 DEF TimerInv, CallsMatch
<1>7. NeverOversleeps'
  BY <1>3, <1>4 DEF TimerInv, NeverOversleeps, Waiting
<1> QED
  BY <1>1, <1>2, <1>5, <1>6, <1>7 DEF TimerInv

LEMMA TimerStep == TimerInv /\ [Next]_vars => TimerInv'
<1> SUFFICES ASSUME TimerInv, [Next]_vars PROVE TimerInv'
  OBVIOUS
<1>1. ASSUME NEW t \in Elems, NEW d \in Delays, SetIdleTimer(t, d) PROVE TimerInv'
  BY <1>1, SetIdleTimerKeeps
<1>2. ASSUME NEW t \in Elems, CancelTimeout(t) \/ Destroy(t) PROVE TimerInv'
  BY <1>2, TakeOffKeeps DEF CancelTimeout, Destroy
<1>3. ASSUME NEW t \in Elems, Create(t) PROVE TimerInv'
  BY <1>3, CreateKeeps
<1>4. ASSUME NEW t \in Elems, TaskGoesOn(t) PROVE TimerInv'
  BY <1>4, InsertTimerKeeps, EndsKeep DEF TaskGoesOn
<1>5. CASE IdleGoesOn
  BY <1>5, WaitForTimerKeeps, PopDueKeeps, SleepKeeps, AwakeKeeps DEF IdleGoesOn
<1>6. CASE IdleWakes \/ WakesForNothing
  BY <1>6, AwakeKeeps DEF IdleWakes, WakesForNothing
<1>7. CASE HeapStep
  BY <1>7, HeapStepKeeps
<1>8. CASE Tick \/ UNCHANGED vars
  <2> USE <1>8 DEF Tick, vars, heapVars, taskVars, idleVars
  <2>1. HeapInv'
    BY HeapRests DEF TimerInv, heapButVictim
  <2>2. TypeOK'
    <3>1. (now' = now \/ (now < MaxNow /\ now' = now + 1)) /\ TypeOK
      BY DEF TimerInv
    <3>2. now' \in 0 .. MaxNow
      BY <3>1, ClockIsRight
    <3> QED
      BY <2>1, <3>2 DEF TimerInv, TypeOK, HeapInv
  <2>3. MutexHeld' /\ CallsMatch' /\ NeverOversleeps'
    BY DEF TimerInv, MutexHeld, CallsMatch, NeverOversleeps, Waiting
  <2> QED
    BY <2>1, <2>2, <2>3 DEF TimerInv
<1> QED
  BY <1>1, <1>2, <1>3, <1>4, <1>5, <1>6, <1>7, <1>8 DEF Next

THEOREM TimerRight == Spec => []TimerInv
  BY TimerStartsRight, TimerStep, PTL DEF Spec

(* The idle thread never sleeps past a timeout that is in the heap.        *)
THEOREM SleepsNoLonger == Spec => []NeverOversleeps
<1>1. TimerInv => NeverOversleeps
  BY DEF TimerInv
<1> QED
  BY <1>1, TimerRight, PTL

(* No task that is gone is in the heap, or signalled.                      *)
THEOREM SignalsTheLiving == Spec => []NoneAfterDelete
<1>1. TimerInv => NoneAfterDelete
  BY DEF TimerInv, CallsMatch, NoneAfterDelete
<1> QED
  BY <1>1, TimerRight, PTL

-----------------------------------------------------------------------------
(* Five timeouts or less                                                   *)

LEMMA NoMorePlaces ==
  ASSUME HeapInv, IsFiniteSet(Elems), Cardinality(Elems) <= 5
  PROVE  Len(fHeap) <= 5
<1>1. Len(fHeap) \in Nat /\ DOMAIN fHeap = 1 .. Len(fHeap) /\ fHeap \in [1 .. Len(fHeap) -> Elems]
  BY DEF HeapInv, HeapTypeOK
<1>2. fHeap \in Injection(1 .. Len(fHeap), Elems)
  BY <1>1 DEF Injection, IsInjective, HeapInv, HeldOnce
<1>3. Cardinality(1 .. Len(fHeap)) <= Cardinality(Elems)
  BY <1>2, FS_Injection DEF ExistsInjection
<1>4. Cardinality(1 .. Len(fHeap)) = Len(fHeap)
  <2>1. PICK n \in Nat : n = Len(fHeap)
    BY <1>1
  <2>2. Cardinality(1 .. n) = IF 1 > n THEN 0 ELSE n - 1 + 1
    BY FS_Interval
  <2> QED
    BY <2>1, <2>2
<1>5. Cardinality(Elems) \in Nat
  BY FS_CardinalityType
<1> QED
  BY <1>1, <1>3, <1>4, <1>5

(* The last of five places is below the parent of the only place with a    *)
(* parent other than the root that can be extracted before it.             *)
LEMMA FewAreNotCut ==
  ASSUME HeapInv, ~cut, Len(fHeap) <= 5, NEW i \in DOMAIN fHeap, Extract(i)
  PROVE  ~cut'
<1> DEFINE n == Len(fHeap)
<1>1. n \in Nat /\ DOMAIN fHeap = 1 .. n /\ heapPc = "idle"
  BY DEF HeapInv, HeapTypeOK, Extract
<1> SUFFICES ASSUME i \in 2 .. n - 1, ValueAt(n) < ValueAt(i \div 2) PROVE FALSE
  BY DEF Extract, LastLeaf, ValueAt
<1>2. n \in DOMAIN fHeap /\ i \div 2 \in DOMAIN fHeap /\ (i \div 2 = 1 \/ i \div 2 = n \div 2)
  BY <1>1
<1>3. ValueAt(n) \in Int /\ ValueAt(i \div 2) \in Int
  BY <1>2 DEF HeapInv, HeapTypeOK, ValueAt
<1>4. CASE i \div 2 = 1
  <2>1. ValueAt(1) <= ValueAt(n)
    BY <1>1, <1>2, RootIsLeast
  <2> QED
    BY <1>3, <1>4, <2>1
<1>5. CASE i \div 2 = n \div 2
  <2>1. ValueAt(n \div 2) <= ValueAt(n)
    BY <1>1 DEF HeapInv, InOrderBut, OutOfPlace
  <2> QED
    BY <1>3, <1>5, <2>1
<1> QED
  BY <1>2, <1>4, <1>5

(* With five idle tasks or less the hypothesis of NeverOversleeps and of   *)
(* SanityCheck always holds; the program has two.                          *)
THEOREM FiveAreNeverCut ==
  IsFiniteSet(Elems) /\ Cardinality(Elems) <= 5 => (Spec => []~cut)
<1> SUFFICES ASSUME IsFiniteSet(Elems), Cardinality(Elems) <= 5
             PROVE  Spec => []~cut
  OBVIOUS
<1>1. Init => ~cut
  BY DEF Init, HeapInit
<1>2. ASSUME TimerInv, ~cut, [Next]_vars PROVE ~cut'
  <2>1. \/ cut' = cut
        \/ \E i \in DOMAIN fHeap : Extract(i)
    <3>1. ASSUME NEW t \in Elems, NEW d \in Delays, SetIdleTimer(t, d) PROVE cut' = cut
      BY <3>1 DEF SetIdleTimer
    <3>2. ASSUME NEW t \in Elems, CancelTimeout(t) \/ Destroy(t)
          PROVE  cut' = cut \/ \E i \in DOMAIN fHeap : Extract(i)
      BY <3>2 DEF CancelTimeout, Destroy, TakeOff, Remove, heapVars
    <3>3. ASSUME NEW t \in Elems, Create(t) \/ TaskGoesOn(t) PROVE cut' = cut
      BY <3>3 DEF Create, TaskGoesOn, InsertTimer, Insert, EndInsert, SignalCond, EndCancel,
                  EndDestroy, heapVars, heapButVictim
    <3>4. CASE PopDue
      <4>1. 1 \in DOMAIN fHeap
        BY <1>2, <3>4 DEF TimerInv, HeapInv, HeapTypeOK, PopDue, ExtractMin
      <4> QED
        BY <3>4, <4>1 DEF PopDue, ExtractMin
    <3>5. CASE IdleGoesOn /\ ~PopDue
      BY <3>5 DEF IdleGoesOn, WaitForTimer, ReadClock, Popped, SignalTask, NothingLeft, Sleep,
                  heapVars, heapButVictim
    <3>6. CASE IdleWakes \/ WakesForNothing
      BY <3>6 DEF IdleWakes, WakesForNothing, Starts, WakesFromWait, WakesFromSleep, heapVars
    <3>7. CASE HeapStep
      BY <3>7 DEF HeapStep, HeapGoesOn, Rises, InsertEnds, Sinks, ExtractEnds
    <3>8. CASE Tick \/ UNCHANGED vars
      BY <3>8 DEF Tick, vars, heapVars
    <3> QED
      BY <1>2, <3>1, <3>2, <3>3, <3>4, <3>5, <3>6, <3>7, <3>8 DEF Next
  <2> QED
    BY <1>2, <2>1, NoMorePlaces, FewAreNotCut DEF TimerInv
<1> QED
  BY <1>1, <1>2, TimerRight, PTL DEF Spec

-----------------------------------------------------------------------------
(* The queue                                                               *)

(* The ring that a sequence is linked into: its elements at 1 .. Len(s),   *)
(* and the sentinel before and behind them.                                *)
Place(s, i) == IF i \in DOMAIN s THEN s[i] ELSE Sentinel
Once(s) == \A i, j \in DOMAIN s : s[i] = s[j] => i = j
IsRing(next, prev, s) ==
  \A i \in 0 .. Len(s) :
    prev[Place(s, i)] = Place(s, i + 1) /\ next[Place(s, i + 1)] = Place(s, i)
Neighbours == [Links -> Links \cup {Null}]

LEMMA Places ==
  ASSUME NEW s \in Seq(QueueElems), Once(s), NEW n \in Nat, n = Len(s)
  PROVE  /\ DOMAIN s = 1 .. n
         /\ Place(s, 0) = Sentinel /\ Place(s, n + 1) = Sentinel
         /\ \A i \in 1 .. n : Place(s, i) = s[i] /\ Place(s, i) \in QueueElems /\ Place(s, i) # Sentinel
         /\ \A i, j \in 0 .. n : Place(s, i) = Place(s, j) => i = j
         /\ \A i, j \in 1 .. n + 1 : Place(s, i) = Place(s, j) => i = j
<1>1. DOMAIN s = 1 .. n
  OBVIOUS
<1>2. Place(s, 0) = Sentinel /\ Place(s, n + 1) = Sentinel
  BY <1>1 DEF Place
<1>3. \A i \in 1 .. n : Place(s, i) = s[i] /\ Place(s, i) \in QueueElems /\ Place(s, i) # Sentinel
  BY <1>1, QueueAssumption DEF Place
<1>4. \A i, j \in 1 .. n : Place(s, i) = Place(s, j) => i = j
  BY <1>1, <1>3 DEF Once
<1>5. \A i, j \in 0 .. n : Place(s, i) = Place(s, j) => i = j
  <2>1. \A i \in 0 .. n : i = 0 \/ i \in 1 .. n
    OBVIOUS
  <2> QED
    BY <1>2, <1>3, <1>4, <2>1
<1>6. \A i, j \in 1 .. n + 1 : Place(s, i) = Place(s, j) => i = j
  <2>1. \A i \in 1 .. n + 1 : i = n + 1 \/ i \in 1 .. n
    OBVIOUS
  <2> QED
    BY <1>2, <1>3, <1>4, <2>1
<1> QED
  BY <1>1, <1>2, <1>3, <1>5, <1>6

LEMMA RingWith ==
  ASSUME NEW s \in Seq(QueueElems), Once(s), NEW n \in Nat, n = Len(s),
         NEW next \in Neighbours, NEW prev \in Neighbours, IsRing(next, prev, s),
         NEW e \in QueueElems, \A i \in 1 .. n : s[i] # e,
         NEW latest, latest = next[Sentinel]
  PROVE  LET t     == Append(s, e)
             next2 == [next EXCEPT ![e] = latest, ![Sentinel] = e]
             prev2 == [prev EXCEPT ![e] = Sentinel, ![latest] = e]
         IN  /\ t \in Seq(QueueElems) /\ Once(t) /\ Len(t) = n + 1
             /\ next2 \in Neighbours /\ prev2 \in Neighbours /\ IsRing(next2, prev2, t)
<1> DEFINE t     == Append(s, e)
           next2 == [next EXCEPT ![e] = latest, ![Sentinel] = e]
           prev2 == [prev EXCEPT ![e] = Sentinel, ![latest] = e]
<1>1. t \in Seq(QueueElems) /\ Len(t) = n + 1 /\ t[n + 1] = e /\ \A i \in 1 .. n : t[i] = s[i]
  OBVIOUS
<1>2. DOMAIN t = 1 .. n + 1
  BY <1>1
<1>3. /\ DOMAIN s = 1 .. n
      /\ Place(s, 0) = Sentinel /\ Place(s, n + 1) = Sentinel
      /\ \A i \in 1 .. n : Place(s, i) = s[i] /\ Place(s, i) \in QueueElems /\ Place(s, i) # Sentinel
      /\ \A i, j \in 0 .. n : Place(s, i) = Place(s, j) => i = j
  BY Places
<1>4. e # Sentinel /\ e \in Links /\ Sentinel \in Links
  BY QueueAssumption DEF Links
<1> HIDE DEF t
<1>5. Once(t)
  <2>1. \A i \in 1 .. n + 1 : i \in 1 .. n \/ i = n + 1
    OBVIOUS
  <2> QED
    BY <1>1, <1>2, <1>3, <2>1 DEF Once
<1>6. \A i \in 0 .. n : Place(t, i) = Place(s, i) /\ Place(t, i) # e /\ Place(t, i) \in Links
  <2>1. \A i \in 0 .. n : i = 0 \/ i \in 1 .. n
    OBVIOUS
  <2>2. Place(t, 0) = Sentinel
    BY <1>2 DEF Place
  <2>3. \A i \in 1 .. n : Place(t, i) = t[i]
    BY <1>2 DEF Place
  <2> QED
    BY <1>1, <1>3, <1>4, <2>1, <2>2, <2>3 DEF Links
<1>7. Place(t, n + 1) = e /\ Place(t, n + 2) = Sentinel
  BY <1>1, <1>2 DEF Place
<1>8. \A i \in 0 .. n : prev[Place(s, i)] = Place(s, i + 1) /\ next[Place(s, i + 1)] = Place(s, i)
  BY DEF IsRing
<1>9. latest = Place(s, n) /\ latest \in Links /\ latest # e
  BY <1>3, <1>6, <1>8
<1>10. next2 \in Neighbours /\ prev2 \in Neighbours
  BY <1>4, <1>9 DEF Neighbours
<1>11. \A l \in Links : /\ prev2[l] = IF l = latest THEN e ELSE IF l = e THEN Sentinel ELSE prev[l]
                        /\ next2[l] = IF l = Sentinel THEN e ELSE IF l = e THEN latest ELSE next[l]
  BY <1>4, <1>9 DEF Neighbours
<1> HIDE DEF next2, prev2
<1>12. IsRing(next2, prev2, t)
  <2> SUFFICES ASSUME NEW i \in 0 .. n + 1
               PROVE  prev2[Place(t, i)] = Place(t, i + 1) /\ next2[Place(t, i + 1)] = Place(t, i)
    BY <1>1 DEF IsRing
  <2>1. CASE i < n
    <3>1. i \in 0 .. n /\ i + 1 \in 1 .. n /\ i + 1 \in 0 .. n /\ n \in 0 .. n
      BY <2>1
    <3>2. /\ Place(t, i) = Place(s, i) /\ Place(t, i) # e /\ Place(t, i) \in Links
          /\ Place(t, i + 1) = Place(s, i + 1) /\ Place(t, i + 1) # e /\ Place(t, i + 1) \in Links
      BY <1>6, <3>1
    <3>3. Place(s, i) # latest /\ Place(s, i + 1) # Sentinel
      BY <1>3, <1>9, <2>1, <3>1
    <3> QED
      BY <1>8, <1>11, <3>1, <3>2, <3>3
  <2>2. CASE i = n
    BY <1>4, <1>6, <1>7, <1>9, <1>11, <2>2
  <2>3. CASE i = n + 1
    BY <1>4, <1>7, <1>9, <1>11, <2>3
  <2> QED
    BY <2>1, <2>2, <2>3
<1> QED
  BY <1>1, <1>5, <1>10, <1>12 DEF t, next2, prev2

QueueTyped == order \in Seq(QueueElems) /\ fNext \in Neighbours /\ fPrev \in Neighbours
QueueInv == QueueTyped /\ Ringed

LEMMA RingedIs ==
  Ringed <=> /\ fLength = Len(order) /\ fQueue = {order[i] : i \in DOMAIN order}
             /\ Once(order) /\ IsRing(fNext, fPrev, order)
  BY DEF Ringed, At, Once, IsRing, Place

LEMMA RingedIsNext ==
  Ringed' <=> /\ fLength' = Len(order') /\ fQueue' = {order'[i] : i \in DOMAIN order'}
              /\ Once(order') /\ IsRing(fNext', fPrev', order')
  BY DEF Ringed, At, Once, IsRing, Place

(* The iterator goes along the ring from the oldest element to the newest. *)
LEMMA EndsAre ==
  ASSUME QueueInv, NEW n \in Nat, n = Len(order)
  PROVE  /\ GetHead = IF 0 < n THEN order[1] ELSE Null
         /\ 0 < n => GetTail = order[n]
<1>1. /\ order \in Seq(QueueElems) /\ fLength = n
      /\ Once(order) /\ IsRing(fNext, fPrev, order)
  BY RingedIs DEF QueueInv, QueueTyped
<1>2. CASE n = 0
  BY <1>1, <1>2 DEF GetHead
<1>3. CASE 0 < n
  <2>1. /\ fPrev[Place(order, 0)] = Place(order, 0 + 1)
        /\ fNext[Place(order, n + 1)] = Place(order, n)
    BY <1>1 DEF IsRing
  <2>2. /\ Place(order, 0) = Sentinel /\ Place(order, n + 1) = Sentinel
        /\ \A i \in 1 .. n : Place(order, i) = order[i]
    BY <1>1, Places
  <2>3. 1 \in 1 .. n /\ n \in 1 .. n /\ 0 + 1 = 1
    BY <1>3
  <2> QED
    BY <1>1, <1>3, <2>1, <2>2, <2>3 DEF GetHead, GetTail
<1> QED
  BY <1>2, <1>3

LEMMA IterGoesOn ==
  ASSUME QueueInv, NEW n \in Nat, n = Len(order), NEW i \in 1 .. n
  PROVE  IterNext(order[i]) = IF i < n THEN order[i + 1] ELSE Null
<1>1. /\ order \in Seq(QueueElems) /\ Once(order) /\ IsRing(fNext, fPrev, order)
  BY RingedIs DEF QueueInv, QueueTyped
<1>2. /\ \A j \in 1 .. n : Place(order, j) = order[j]
      /\ \A j, k \in 0 .. n : Place(order, j) = Place(order, k) => j = k
  BY <1>1, Places
<1>3. GetTail = order[n] /\ n \in 1 .. n
  BY EndsAre
<1>4. CASE i = n
  BY <1>3, <1>4 DEF IterNext
<1>5. CASE i < n
  <2>1. i + 1 \in 1 .. n /\ i \in 0 .. n /\ n \in 0 .. n
    BY <1>5
  <2>2. fPrev[order[i]] = order[i + 1]
    BY <1>1, <1>2, <2>1 DEF IsRing
  <2>3. order[i] # order[n]
    BY <1>2, <1>3, <1>5, <2>1
  <2> QED
    BY <1>3, <1>5, <2>2, <2>3 DEF IterNext
<1> QED
  BY <1>4, <1>5

LEMMA QueueInvIsEnough == QueueInv => Linked
<1> SUFFICES ASSUME QueueInv PROVE Linked
  OBVIOUS
<1>1. PICK n \in Nat : n = Len(order)
  BY DEF QueueInv, QueueTyped
<1>2. order \in Seq(QueueElems) /\ DOMAIN order = 1 .. n /\ (order = <<>> <=> n = 0)
  BY <1>1 DEF QueueInv, QueueTyped
<1>3. GetHead = IF order = <<>> THEN Null ELSE order[1]
  BY <1>1, <1>2, EndsAre
<1>4. \A i \in DOMAIN order : IterNext(order[i]) = IF i < Len(order) THEN order[i + 1] ELSE Null
  BY <1>1, <1>2, IterGoesOn
<1> QED
  BY <1>3, <1>4 DEF QueueInv, Linked, OldestFirst

LEMMA QueueInitIsRight == QueueInit => QueueInv
<1> SUFFICES ASSUME QueueInit PROVE QueueInv
  OBVIOUS
<1>1. QueueTyped
  BY DEF QueueInit, QueueTyped, Neighbours, Links
<1>2. Ringed
  BY DEF QueueInit, Ringed, At, Links
<1> QED
  BY <1>1, <1>2 DEF QueueInv

LEMMA EnQueueKeeps == ASSUME QueueInv, NEW e \in QueueElems, EnQueue(e) PROVE QueueInv'
<1>0. /\ order \in Seq(QueueElems) /\ fNext \in Neighbours /\ fPrev \in Neighbours
      /\ fLength = Len(order) /\ fQueue = {order[i] : i \in DOMAIN order}
      /\ Once(order) /\ IsRing(fNext, fPrev, order)
  BY RingedIs DEF QueueInv, QueueTyped
<1>1. CASE e \in fQueue
  BY <1>1 DEF EnQueue, queueVars, QueueInv, QueueTyped, Ringed, At
<1>2. CASE e \notin fQueue
  <2>1. PICK n \in Nat : n = Len(order)
    BY <1>0
  <2>2. PICK latest : latest = fNext[Sentinel]
    OBVIOUS
  <2>3. DOMAIN order = 1 .. n /\ \A i \in 1 .. n : order[i] # e
    BY <1>0, <1>2, <2>1
  <2>4. /\ fPrev' = [fPrev EXCEPT ![e] = Sentinel, ![latest] = e]
        /\ fNext' = [fNext EXCEPT ![e] = latest, ![Sentinel] = e]
        /\ fQueue' = fQueue \cup {e} /\ fLength' = fLength + 1 /\ order' = Append(order, e)
    BY <1>2, <2>2 DEF EnQueue, LinkedIn
  <2>5. /\ order' \in Seq(QueueElems) /\ Once(order') /\ Len(order') = n + 1
        /\ fNext' \in Neighbours /\ fPrev' \in Neighbours /\ IsRing(fNext', fPrev', order')
    BY <1>0, <2>1, <2>2, <2>3, <2>4, RingWith
  <2>6. fQueue' = {order'[i] : i \in DOMAIN order'}
    <3>1. /\ DOMAIN order' = 1 .. n + 1 /\ order'[n + 1] = e
          /\ \A i \in 1 .. n : order'[i] = order[i]
      BY <1>0, <2>1, <2>4
    <3>2. \A x : (\E i \in 1 .. n + 1 : order'[i] = x) <=> (\E i \in 1 .. n : order[i] = x) \/ x = e
      <4>1. \A i \in 1 .. n + 1 : i \in 1 .. n \/ i = n + 1
        BY <2>1
      <4>2. n + 1 \in 1 .. n + 1 /\ \A i \in 1 .. n : i \in 1 .. n + 1
        BY <2>1
      <4> QED
        BY <3>1, <4>1, <4>2
    <3> QED
      BY <1>0, <2>3, <2>4, <3>1, <3>2
  <2> QED
    BY <1>0, <2>1, <2>4, <2>5, <2>6, RingedIsNext DEF QueueInv, QueueTyped
<1> QED
  BY <1>1, <1>2

(* An element that leaves, from the head or from p.                        *)
LEMMA LeavesKeeps ==
  ASSUME QueueInv, NEW n \in Nat, n = Len(order), NEW p \in 1 .. n, NEW e, e = order[p],
         fPrev' = [fPrev EXCEPT ![fNext[e]] = fPrev[e]],
         fNext' = [fNext EXCEPT ![fPrev[e]] = fNext[e]],
         fQueue' = fQueue \ {e}, fLength' = fLength - 1,
         order' \in Seq(QueueElems), Len(order') = n - 1,
         \A i \in 1 .. n - 1 : order'[i] = IF i < p THEN order[i] ELSE order[i + 1]
  PROVE  QueueInv'
<1>0. /\ order \in Seq(QueueElems) /\ fNext \in Neighbours /\ fPrev \in Neighbours
      /\ fLength = Len(order) /\ fQueue = {order[i] : i \in DOMAIN order}
      /\ Once(order) /\ IsRing(fNext, fPrev, order)
  BY RingedIs DEF QueueInv, QueueTyped
<1>1. DOMAIN order' = 1 .. n - 1
  OBVIOUS
<1>2. /\ DOMAIN order = 1 .. n
      /\ Place(order, 0) = Sentinel /\ Place(order, n + 1) = Sentinel
      /\ \A i \in 1 .. n : Place(order, i) = order[i] /\ Place(order, i) \in QueueElems /\ Place(order, i) # Sentinel
      /\ \A i, j \in 0 .. n : Place(order, i) = Place(order, j) => i = j
      /\ \A i, j \in 1 .. n + 1 : Place(order, i) = Place(order, j) => i = j
  BY <1>0, Places
<1>3. \A i \in 0 .. n + 1 : Place(order, i) \in Links
  <2>1. \A i \in 0 .. n + 1 : i = 0 \/ i = n + 1 \/ i \in 1 .. n
    OBVIOUS
  <2> QED
    BY <1>2, <2>1 DEF Links
<1>4. \A i \in 0 .. n : fPrev[Place(order, i)] = Place(order, i + 1) /\ fNext[Place(order, i + 1)] = Place(order, i)
  BY <1>0 DEF IsRing
<1>5. e = Place(order, p) /\ fPrev[e] = Place(order, p + 1) /\ fNext[e] = Place(order, p - 1)
  <2>1. p \in 0 .. n /\ p - 1 \in 0 .. n /\ (p - 1) + 1 = p
    OBVIOUS
  <2>2. e = Place(order, p)
    BY <1>2
  <2>3. fNext[Place(order, (p - 1) + 1)] = Place(order, p - 1)
    BY <1>4, <2>1
  <2> QED
    BY <1>4, <2>1, <2>2, <2>3
<1>6. p - 1 \in 0 .. n /\ p + 1 \in 1 .. n + 1 /\ p + 1 \in 0 .. n + 1 /\ p - 1 \in 0 .. n + 1
  OBVIOUS
<1>7. fNext' \in Neighbours /\ fPrev' \in Neighbours
  BY <1>0, <1>3, <1>5, <1>6 DEF Neighbours
<1>8. \A l \in Links : /\ fPrev'[l] = IF l = Place(order, p - 1) THEN Place(order, p + 1) ELSE fPrev[l]
                       /\ fNext'[l] = IF l = Place(order, p + 1) THEN Place(order, p - 1) ELSE fNext[l]
  BY <1>0, <1>3, <1>5, <1>6 DEF Neighbours
<1>9. \A i \in 0 .. n : Place(order', i) = IF i < p THEN Place(order, i) ELSE Place(order, i + 1)
  <2> SUFFICES ASSUME NEW i \in 0 .. n PROVE Place(order', i) = IF i < p THEN Place(order, i) ELSE Place(order, i + 1)
    OBVIOUS
  <2>1. CASE i = 0
    BY <1>1, <1>2, <2>1 DEF Place
  <2>2. CASE i = n
    BY <1>1, <1>2, <2>2 DEF Place
  <2>3. CASE i \in 1 .. n - 1
    <3>1. Place(order', i) = order'[i] /\ i \in 1 .. n /\ i + 1 \in 1 .. n
      BY <1>1, <2>3 DEF Place
    <3> QED
      BY <1>2, <2>3, <3>1
  <2> QED
    BY <2>1, <2>2, <2>3
<1>10. IsRing(fNext', fPrev', order')
  <2> SUFFICES ASSUME NEW i \in 0 .. n - 1
               PROVE  fPrev'[Place(order', i)] = Place(order', i + 1) /\ fNext'[Place(order', i + 1)] = Place(order', i)
    BY DEF IsRing
  <2>0. i \in 0 .. n /\ i + 1 \in 0 .. n /\ i + 1 \in 1 .. n + 1 /\ i + 2 \in 1 .. n + 1
        /\ i + 1 \in 0 .. n + 1 /\ i + 2 \in 0 .. n + 1 /\ (i + 1) + 1 = i + 2
    OBVIOUS
  <2>1. CASE i + 1 < p
    <3>1. Place(order', i) = Place(order, i) /\ Place(order', i + 1) = Place(order, i + 1)
      BY <1>9, <2>0, <2>1
    <3>2. Place(order, i) # Place(order, p - 1) /\ Place(order, i + 1) # Place(order, p + 1)
      <4>1. i # p - 1 /\ i + 1 # p + 1
        BY <2>1
      <4> QED
        BY <1>2, <1>6, <2>0, <4>1
    <3>3. fPrev[Place(order, i)] = Place(order, i + 1) /\ fNext[Place(order, i + 1)] = Place(order, i)
      BY <1>4, <2>0
    <3>4. i \in 0 .. n + 1
      OBVIOUS
    <3> QED
      BY <1>3, <1>8, <2>0, <3>1, <3>2, <3>3, <3>4
  <2>2. CASE i + 1 = p
    <3>1. Place(order', i) = Place(order, p - 1) /\ Place(order', i + 1) = Place(order, p + 1)
      BY <1>9, <2>0, <2>2
    <3> QED
      BY <1>3, <1>6, <1>8, <3>1
  <2>3. CASE i + 1 > p
    <3>1. Place(order', i) = Place(order, i + 1) /\ Place(order', i + 1) = Place(order, i + 2)
      BY <1>9, <2>0, <2>3
    <3>2. Place(order, i + 1) # Place(order, p - 1) /\ Place(order, i + 2) # Place(order, p + 1)
      <4>1. i + 1 # p - 1 /\ i + 2 # p + 1
        BY <2>3
      <4> QED
        BY <1>2, <1>6, <2>0, <4>1
    <3>3. fPrev[Place(order, i + 1)] = Place(order, i + 2) /\ fNext[Place(order, i + 2)] = Place(order, i + 1)
      BY <1>4, <2>0
    <3> QED
      BY <1>3, <1>8, <2>0, <3>1, <3>2, <3>3
  <2> QED
    BY <2>1, <2>2, <2>3
<1>11. Once(order')
  <2> SUFFICES ASSUME NEW i \in 1 .. n - 1, NEW j \in 1 .. n - 1, order'[i] = order'[j] PROVE i = j
    BY <1>1 DEF Once
  <2>1. i \in 1 .. n /\ i + 1 \in 1 .. n /\ j \in 1 .. n /\ j + 1 \in 1 .. n
    OBVIOUS
  <2>2. \A a, b \in 1 .. n : order[a] = order[b] => a = b
    BY <1>0, <1>2 DEF Once
  <2> QED
    BY <2>1, <2>2
<1>12. \A x : (\E i \in DOMAIN order' : order'[i] = x) <=> (\E i \in DOMAIN order : order[i] = x) /\ x # e
  <2>1. \A i \in 1 .. n - 1 : \E j \in 1 .. n : j # p /\ order'[i] = order[j]
    <3> SUFFICES ASSUME NEW i \in 1 .. n - 1 PROVE \E j \in 1 .. n : j # p /\ order'[i] = order[j]
      OBVIOUS
    <3>1. i \in 1 .. n /\ i + 1 \in 1 .. n
      OBVIOUS
    <3> QED
      BY <3>1
  <2>2. \A j \in 1 .. n : j # p => \E i \in 1 .. n - 1 : order'[i] = order[j]
    <3> SUFFICES ASSUME NEW j \in 1 .. n, j # p PROVE \E i \in 1 .. n - 1 : order'[i] = order[j]
      OBVIOUS
    <3>1. CASE j < p
      BY <3>1
    <3>2. CASE j > p
      <4>1. j - 1 \in 1 .. n - 1 /\ ~(j - 1 < p) /\ (j - 1) + 1 = j
        BY <3>2
      <4> QED
        BY <4>1
    <3> QED
      BY <3>1, <3>2
  <2>3. \A j \in 1 .. n : j # p <=> order[j] # e
    BY <1>0, <1>2 DEF Once
  <2>4. ASSUME NEW i \in DOMAIN order' PROVE (\E j \in DOMAIN order : order[j] = order'[i]) /\ order'[i] # e
    BY <1>1, <1>2, <2>1, <2>3
  <2>5. ASSUME NEW j \in DOMAIN order, order[j] # e PROVE \E i \in DOMAIN order' : order'[i] = order[j]
    BY <1>1, <1>2, <2>2, <2>3, <2>5
  <2> QED
    BY <2>4, <2>5
<1>13. {order'[i] : i \in DOMAIN order'} = {order[i] : i \in DOMAIN order} \ {e}
  <2>1. ASSUME NEW x PROVE x \in {order'[i] : i \in DOMAIN order'} <=> x \in {order[i] : i \in DOMAIN order} \ {e}
    <3>1. x \in {order'[i] : i \in DOMAIN order'} <=> \E i \in DOMAIN order' : order'[i] = x
      OBVIOUS
    <3>2. x \in {order[i] : i \in DOMAIN order} <=> \E i \in DOMAIN order : order[i] = x
      OBVIOUS
    <3> QED
      BY <1>12, <3>1, <3>2
  <2> QED
    BY <2>1
<1> QED
  BY <1>0, <1>7, <1>10, <1>11, <1>13, RingedIsNext DEF QueueInv, QueueTyped

LEMMA Joined ==
  ASSUME NEW a \in Seq(QueueElems), NEW b \in Seq(QueueElems)
  PROVE  /\ a \o b \in Seq(QueueElems) /\ Len(a \o b) = Len(a) + Len(b)
         /\ \A i \in 1 .. Len(a) + Len(b) : (a \o b)[i] = IF i <= Len(a) THEN a[i] ELSE b[i - Len(a)]
  OBVIOUS

LEMMA TakeOutKeeps == ASSUME QueueInv, NEW e \in QueueElems, TakeOut(e) PROVE QueueInv'
<1>0. order \in Seq(QueueElems) /\ fQueue = {order[i] : i \in DOMAIN order}
  BY RingedIs DEF QueueInv, QueueTyped
<1>1. CASE e \notin fQueue
  BY <1>1 DEF TakeOut, queueVars, QueueInv, QueueTyped, Ringed, At
<1>2. CASE e \in fQueue
  <2>1. PICK n \in Nat : n = Len(order)
    BY <1>0
  <2>2. PlaceOf(e) \in DOMAIN order /\ order[PlaceOf(e)] = e
    BY <1>0, <1>2 DEF PlaceOf
  <2>3. PICK p \in 1 .. n : p = PlaceOf(e)
    BY <1>0, <2>1, <2>2
  <2>4. /\ fPrev' = [fPrev EXCEPT ![fNext[e]] = fPrev[e]]
        /\ fNext' = [fNext EXCEPT ![fPrev[e]] = fNext[e]]
        /\ fQueue' = fQueue \ {e} /\ fLength' = fLength - 1 /\ order' = SeqsExt!RemoveAt(order, p)
    BY <1>2, <2>3 DEF TakeOut, LinkedOut
  <2>5. /\ order' \in Seq(QueueElems) /\ Len(order') = n - 1
        /\ \A i \in 1 .. n - 1 : order'[i] = IF i < p THEN order[i] ELSE order[i + 1]
    <3>1. PICK a : a = SubSeq(order, 1, p - 1)
      OBVIOUS
    <3>2. PICK b : b = SubSeq(order, p + 1, n)
      OBVIOUS
    <3>3. order' = a \o b
      BY <2>1, <2>4, <3>1, <3>2 DEF SeqsExt!RemoveAt
    <3>4. a \in Seq(QueueElems) /\ Len(a) = p - 1 /\ \A k \in 1 .. p - 1 : a[k] = order[k]
      BY <1>0, <2>1, <2>3, <3>1
    <3>5. b \in Seq(QueueElems) /\ Len(b) = n - p /\ \A k \in 1 .. n - p : b[k] = order[p + k]
      BY <1>0, <2>1, <2>3, <3>2
    <3>6. /\ order' \in Seq(QueueElems) /\ Len(order') = Len(a) + Len(b)
          /\ \A i \in 1 .. Len(a) + Len(b) : order'[i] = IF i <= Len(a) THEN a[i] ELSE b[i - Len(a)]
      BY <3>3, <3>4, <3>5, Joined
    <3>7. Len(a) + Len(b) = n - 1
      BY <3>4, <3>5
    <3>8. ASSUME NEW i \in 1 .. n - 1 PROVE order'[i] = IF i < p THEN order[i] ELSE order[i + 1]
      <4>1. order'[i] = IF i <= p - 1 THEN a[i] ELSE b[i - (p - 1)]
        BY <3>4, <3>6, <3>7
      <4>2. CASE i < p
        BY <3>4, <4>1, <4>2
      <4>3. CASE ~(i < p)
        <5>1. i - (p - 1) \in 1 .. n - p /\ p + (i - (p - 1)) = i + 1
          BY <4>3
        <5> QED
          BY <3>5, <4>1, <4>3, <5>1
      <4> QED
        BY <4>2, <4>3
    <3> QED
      BY <3>6, <3>7, <3>8
  <2> QED
    BY <2>1, <2>2, <2>3, <2>4, <2>5, LeavesKeeps
<1> QED
  BY <1>1, <1>2

LEMMA DeQueueKeeps == ASSUME QueueInv, DeQueue PROVE QueueInv'
<1>0. /\ order \in Seq(QueueElems) /\ fLength = Len(order)
      /\ Once(order) /\ IsRing(fNext, fPrev, order)
  BY RingedIs DEF QueueInv, QueueTyped
<1>1. CASE fLength = 0
  <2>1. UNCHANGED queueVars
    BY <1>1 DEF DeQueue
  <2> QED
    BY <2>1 DEF queueVars, QueueInv, QueueTyped, Ringed, At
<1>2. CASE fLength # 0
  <2>1. PICK n \in Nat : n = Len(order)
    BY <1>0
  <2>2. n # 0 /\ 1 \in 1 .. n
    BY <1>0, <1>2, <2>1
  <2>3. Place(order, 0) = Sentinel /\ Place(order, 1) = order[1]
    BY <1>0, <2>1, <2>2, Places
  <2>4. fPrev[Sentinel] = order[1] /\ fNext[order[1]] = Sentinel
    <3>1. fPrev[Place(order, 0)] = Place(order, 0 + 1) /\ fNext[Place(order, 0 + 1)] = Place(order, 0)
      BY <1>0, <2>1 DEF IsRing
    <3> QED
      BY <2>3, <3>1
  <2>5. PICK e : e = order[1]
    OBVIOUS
  <2>6. /\ fPrev' = [fPrev EXCEPT ![fNext[e]] = fPrev[e]]
        /\ fNext' = [fNext EXCEPT ![fPrev[e]] = fNext[e]]
        /\ fQueue' = fQueue \ {e} /\ fLength' = fLength - 1 /\ order' = Tail(order)
    BY <1>2, <2>4, <2>5 DEF DeQueue, NewHead
  <2>7. /\ order' \in Seq(QueueElems) /\ Len(order') = n - 1
        /\ \A i \in 1 .. n - 1 : order'[i] = IF i < 1 THEN order[i] ELSE order[i + 1]
    BY <1>0, <2>1, <2>2, <2>6
  <2> QED
    BY <2>1, <2>2, <2>5, <2>6, <2>7, LeavesKeeps
<1> QED
  BY <1>1, <1>2

(* In whatever order elements come, leave in turn or are taken out of the  *)
(* middle, the links of the queue spell its elements both ways, from       *)
(* sentinel to sentinel, each once, and OSQueueIter visits them from the   *)
(* oldest to the newest (OSQueue.h:99, OSQueue.cpp:221).                   *)
THEOREM QueueIsRing == QueueSpec => []Linked
<1>1. QueueInv /\ [QueueNext]_queueVars => QueueInv'
  <2> SUFFICES ASSUME QueueInv, [QueueNext]_queueVars PROVE QueueInv'
    OBVIOUS
  <2>1. CASE QueueNext
    BY <2>1, EnQueueKeeps, DeQueueKeeps, TakeOutKeeps DEF QueueNext
  <2>2. CASE UNCHANGED queueVars
    BY <2>2 DEF queueVars, QueueInv, QueueTyped, Ringed, At
  <2> QED
    BY <2>1, <2>2
<1> QED
  BY QueueInitIsRight, QueueInvIsEnough, <1>1, PTL DEF QueueSpec

-----------------------------------------------------------------------------
(* The scan for timeouts                                                   *)

ScanTyped ==
  /\ milliseconds \in Nat /\ curTime \in Nat /\ intervalMilli \in Int
  /\ fTimeoutInMilSecs \in [TimeoutTasks -> Nat]
  /\ fTimeoutAtThisTime \in [TimeoutTasks -> Nat]
  /\ fQueue \subseteq TimeoutTasks

(* A scan has looked at the first p on the queue, and goes on behind them. *)
LookedAt(p) ==
  /\ seen = {order[i] : i \in 1 .. p}
  /\ iter = IF p < Len(order) THEN order[p + 1] ELSE Null
ScanGoesOn ==
  /\ IsFiniteSet(seen) /\ setting \subseteq changed
  /\ seen \ changed \subseteq fQueue
  /\ scanning => \E p \in 0 .. Len(order) : LookedAt(p)

ComesBackFor(t) ==
  curTime + intervalMilli <= fTimeoutAtThisTime[t] + Cardinality(seen) * Second
ComesBack == \A t \in fQueue : WaitsFor(t) => ComesBackFor(t)

ScanInv == QueueInv /\ ScanTyped /\ ScanGoesOn /\ ComesBack

LEMMA QueueRests == ASSUME QueueInv, UNCHANGED queueVars PROVE QueueInv'
  BY DEF queueVars, QueueInv, QueueTyped, Ringed, At

LEMMA ScanInitIsRight == TimeoutInit => ScanInv
<1> SUFFICES ASSUME TimeoutInit PROVE ScanInv
  OBVIOUS
<1>1. QueueInv
  BY QueueInitIsRight DEF TimeoutInit
<1>2. fQueue = {}
  BY DEF TimeoutInit, QueueInit
<1>3. ScanTyped
  BY <1>2, TimeoutAssumption DEF TimeoutInit, ScanInit, ScanTyped
<1>4. ScanGoesOn
  BY FS_EmptySet DEF TimeoutInit, ScanInit, ScanGoesOn
<1>5. ComesBack
  BY <1>2 DEF ComesBack
<1> QED
  BY <1>1, <1>3, <1>4, <1>5 DEF ScanInv

(* While the scan rests or is at another, a task's timeouts change only    *)
(* when it is not on the queue, or counted among those that did.           *)
LEMMA TimesKeep ==
  ASSUME ScanInv, NEW t \in TimeoutTasks, t \in changed' \/ t \notin fQueue,
         changed' \in {changed, changed \cup {t}},
         NEW in \in Nat, NEW at \in Nat,
         fTimeoutInMilSecs' \in {fTimeoutInMilSecs, [fTimeoutInMilSecs EXCEPT ![t] = in]},
         fTimeoutAtThisTime' \in {fTimeoutAtThisTime, [fTimeoutAtThisTime EXCEPT ![t] = at]},
         setting' \subseteq changed',
         UNCHANGED <<queueVars, milliseconds, iter, scanning, curTime, intervalMilli, seen>>
  PROVE  ScanInv'
<1>1. QueueInv'
  BY QueueRests DEF ScanInv
<1>2. UNCHANGED <<fQueue, order>>
  BY DEF queueVars
<1>3. ScanTyped'
  BY <1>2 DEF ScanInv, ScanTyped
<1>4. ScanGoesOn'
  BY <1>2 DEF ScanInv, ScanGoesOn, LookedAt
<1>5. ComesBack'
  <2> SUFFICES ASSUME NEW u \in fQueue', WaitsFor(u)' PROVE ComesBackFor(u)'
    BY DEF ComesBack
  <2>1. u \in fQueue /\ u \in TimeoutTasks /\ u # t /\ u \in seen \ changed
    BY <1>2 DEF ScanInv, ScanTyped, WaitsFor
  <2>2. fTimeoutInMilSecs'[u] = fTimeoutInMilSecs[u] /\ fTimeoutAtThisTime'[u] = fTimeoutAtThisTime[u]
    BY <2>1 DEF ScanInv, ScanTyped
  <2>3. WaitsFor(u)
    BY <2>1, <2>2 DEF WaitsFor
  <2> QED
    BY <2>1, <2>2, <2>3 DEF ScanInv, ComesBack, ComesBackFor
<1> QED
  BY <1>1, <1>3, <1>4, <1>5 DEF ScanInv

LEMMA FromNowIs == ASSUME ScanInv, NEW timeout \in Nat PROVE FromNow(timeout) \in Nat
  BY DEF ScanInv, ScanTyped, FromNow

LEMMA SettingKeeps ==
  ASSUME ScanInv, NEW t \in TimeoutTasks, NEW timeout \in Timeouts,
         Construct(t, timeout) \/ SetTimeout(t, timeout)
  PROVE  ScanInv'
<1>1. timeout \in Nat /\ setting \subseteq changed
  BY TimeoutAssumption DEF ScanInv, ScanTyped, ScanGoesOn
<1>2. PICK at \in Nat : at = FromNow(timeout)
  BY <1>1, FromNowIs
<1>3. CASE Construct(t, timeout)
  BY <1>1, <1>2, <1>3, TimesKeep DEF Construct, runVars
<1>4. CASE SetTimeout(t, timeout)
  BY <1>1, <1>4, TimesKeep DEF SetTimeout
<1> QED
  BY <1>3, <1>4

LEMMA WritingKeeps ==
  ASSUME ScanInv, NEW t \in TimeoutTasks, SetTimeoutEnds(t) \/ RefreshTimeout(t)
  PROVE  ScanInv'
<1>1. fTimeoutInMilSecs[t] \in Nat /\ milliseconds \in Nat /\ setting \subseteq changed
  BY DEF ScanInv, ScanTyped, ScanGoesOn
<1>2. CASE SetTimeoutEnds(t)
  <2>1. PICK later \in Nat : later = FromNow(fTimeoutInMilSecs[t])
    BY <1>1, FromNowIs
  <2> QED
    BY <1>1, <1>2, <2>1, TimesKeep DEF SetTimeoutEnds, runVars
<1>3. CASE RefreshTimeout(t)
  <2>1. PICK later \in Nat : later = milliseconds + fTimeoutInMilSecs[t]
    BY <1>1
  <2> QED
    BY <1>1, <1>3, <2>1, TimesKeep DEF RefreshTimeout
<1> QED
  BY <1>2, <1>3

LEMMA JoinKeeps == ASSUME ScanInv, NEW t \in TimeoutTasks, Join(t) PROVE ScanInv'
<1>1. QueueInv'
  BY EnQueueKeeps, TimeoutAssumption DEF ScanInv, Join
<1>2. fQueue' = fQueue \cup {t}
  BY DEF Join, EnQueue, queueVars
<1>3. ScanTyped'
  BY <1>2 DEF ScanInv, ScanTyped, Join, runVars
<1>4. ScanGoesOn'
  BY <1>2 DEF ScanInv, ScanGoesOn, Join, runVars
<1>5. ComesBack'
  <2> SUFFICES ASSUME NEW u \in fQueue', WaitsFor(u)' PROVE ComesBackFor(u)'
    BY DEF ComesBack
  <2>1. WaitsFor(u) /\ u \in fQueue
    BY DEF ScanInv, ScanGoesOn, Join, runVars, WaitsFor
  <2> QED
    BY <2>1 DEF ScanInv, ComesBack, ComesBackFor, Join, runVars
<1> QED
  BY <1>1, <1>3, <1>4, <1>5 DEF ScanInv

LEMMA DestructKeeps == ASSUME ScanInv, NEW t \in TimeoutTasks, Destruct(t) PROVE ScanInv'
<1>1. QueueInv'
  BY TakeOutKeeps, TimeoutAssumption DEF ScanInv, Destruct
<1>2. fQueue' = fQueue \ {t}
  BY DEF Destruct, TakeOut
<1>3. ScanTyped'
  BY <1>2 DEF ScanInv, ScanTyped, Destruct
<1>4. ScanGoesOn'
  BY <1>2 DEF ScanInv, ScanGoesOn, Destruct
<1>5. ComesBack'
  <2> SUFFICES ASSUME NEW u \in fQueue', WaitsFor(u)' PROVE ComesBackFor(u)'
    BY DEF ComesBack
  <2>1. u \in fQueue /\ u \in TimeoutTasks /\ u # t
    BY <1>2 DEF ScanInv, ScanTyped
  <2>2. fTimeoutInMilSecs'[u] = fTimeoutInMilSecs[u] /\ fTimeoutAtThisTime'[u] = fTimeoutAtThisTime[u]
    BY <2>1 DEF ScanInv, ScanTyped, Destruct
  <2>3. WaitsFor(u)
    BY <2>1, <2>2 DEF WaitsFor, Destruct
  <2> QED
    BY <2>1, <2>2, <2>3 DEF ScanInv, ComesBack, ComesBackFor, Destruct
<1> QED
  BY <1>1, <1>3, <1>4, <1>5 DEF ScanInv

LEMMA RunBeginsKeeps == ASSUME ScanInv, RunBegins PROVE ScanInv'
<1>1. QueueInv' /\ fQueue' = fQueue /\ order' = order
  BY QueueRests DEF ScanInv, RunBegins, queueVars
<1>2. ScanTyped'
  <2>1. kIntervalSeconds * Second \in Int
    BY TimeoutAssumption
  <2> QED
    BY <1>1, <2>1 DEF ScanInv, ScanTyped, RunBegins, taskTimes
<1>3. ScanGoesOn'
  <2>1. PICK n \in Nat : n = Len(order)
    BY DEF ScanInv, QueueInv, QueueTyped
  <2>3. GetHead = IF 0 < n THEN order[1] ELSE Null
    BY <2>1, EndsAre DEF ScanInv
  <2>4. seen' = {order'[i] : i \in 1 .. 0} /\ iter' = IF 0 < Len(order') THEN order'[0 + 1] ELSE Null
    BY <1>1, <2>1, <2>3 DEF RunBegins
  <2>5. 0 \in 0 .. Len(order')
    BY <1>1, <2>1
  <2> QED
    BY <2>4, <2>5, FS_EmptySet DEF ScanGoesOn, LookedAt, RunBegins, taskTimes
<1>4. ComesBack'
  BY DEF ComesBack, WaitsFor, RunBegins
<1> QED
  BY <1>1, <1>2, <1>3, <1>4 DEF ScanInv

(* Each look goes one further on, and pushes the interval up by at most a  *)
(* second.                                                                 *)
LEMMA NearerIs ==
  ASSUME ScanInv, NEW t \in TimeoutTasks
  PROVE  /\ Nearer(t) \in Int /\ Nearer(t) <= intervalMilli + Second
         /\ fTimeoutInMilSecs[t] > 0 /\ fTimeoutAtThisTime[t] > curTime
              => curTime + Nearer(t) <= fTimeoutAtThisTime[t] + Second
<1>1. /\ fTimeoutInMilSecs[t] \in Nat /\ fTimeoutAtThisTime[t] \in Nat /\ curTime \in Nat
      /\ intervalMilli \in Int /\ Second \in Nat
  BY TimeoutAssumption DEF ScanInv, ScanTyped
<1> QED
  BY <1>1 DEF Nearer, IsOver

LEMMA LookKeeps == ASSUME ScanInv, Look PROVE ScanInv'
<1>1. QueueInv' /\ fQueue' = fQueue /\ order' = order
  BY QueueRests DEF ScanInv, Look, queueVars
<1>2. PICK n \in Nat : n = Len(order)
  BY DEF ScanInv, QueueInv, QueueTyped
<1>3. /\ fLength = n /\ Once(order) /\ IsRing(fNext, fPrev, order) /\ order \in Seq(QueueElems)
      /\ DOMAIN order = 1 .. n /\ fQueue = {order[i] : i \in 1 .. n} /\ Null \notin QueueElems
  BY <1>2, RingedIs, QueueAssumption DEF ScanInv, QueueInv, QueueTyped
<1>4. PICK p \in 0 .. n : LookedAt(p)
  BY <1>2 DEF ScanInv, ScanGoesOn, Look
<1>5. p < n /\ p + 1 \in 1 .. n /\ iter = order[p + 1]
  BY <1>2, <1>4 DEF LookedAt, Look
<1>6. iter \in fQueue /\ iter \in TimeoutTasks
  BY <1>3, <1>5 DEF ScanInv, ScanTyped
<1>7. iter \notin seen
  BY <1>3, <1>4, <1>5 DEF LookedAt, Once
<1>8. IterNext(iter) = IF p + 1 < n THEN order[p + 2] ELSE Null
  <2>1. IterNext(order[p + 1]) = IF p + 1 < n THEN order[(p + 1) + 1] ELSE Null
    BY <1>2, <1>5, IterGoesOn DEF ScanInv
  <2>2. (p + 1) + 1 = p + 2
    BY <1>5
  <2> QED
    BY <1>5, <2>1, <2>2
<1>9. seen' = seen \cup {iter} /\ IsFiniteSet(seen) /\ IsFiniteSet(seen') /\ Cardinality(seen) \in Nat
      /\ Cardinality(seen') = Cardinality(seen) + 1
  BY <1>7, FS_AddElement, FS_CardinalityType DEF Look, ScanInv, ScanGoesOn
<1>10. ScanTyped'
  BY <1>1, <1>6, NearerIs DEF ScanInv, ScanTyped, Look, taskTimes
<1>11. LookedAt(p + 1)'
  <2>1. seen' = {order[i] : i \in 1 .. p + 1}
    <3>1. \A i \in 1 .. p + 1 : i \in 1 .. p \/ i = p + 1
      OBVIOUS
    <3>2. p + 1 \in 1 .. p + 1 /\ \A i \in 1 .. p : i \in 1 .. p + 1
      OBVIOUS
    <3>3. seen = {order[i] : i \in 1 .. p}
      BY <1>4 DEF LookedAt
    <3> QED
      BY <1>5, <1>9, <3>1, <3>2, <3>3
  <2>2. iter' = IF p + 1 < Len(order') THEN order'[(p + 1) + 1] ELSE Null
    <3>1. (p + 1) + 1 = p + 2
      OBVIOUS
    <3> QED
      BY <1>1, <1>2, <1>8, <3>1 DEF Look
  <2> QED
    BY <1>1, <2>1, <2>2 DEF LookedAt
<1>12. ScanGoesOn'
  <2>1. p + 1 \in 0 .. Len(order')
    BY <1>1, <1>2, <1>5
  <2>2. seen' \ changed' \subseteq fQueue' /\ setting' \subseteq changed'
    BY <1>1, <1>6, <1>9 DEF ScanInv, ScanGoesOn, Look, taskTimes
  <2> QED
    BY <1>9, <1>11, <2>1, <2>2 DEF ScanGoesOn
<1>13. ComesBack'
  <2> SUFFICES ASSUME NEW u \in fQueue', WaitsFor(u)' PROVE ComesBackFor(u)'
    BY DEF ComesBack
  <2>1. u \in fQueue /\ u \in TimeoutTasks
    BY <1>1 DEF ScanInv, ScanTyped
  <2>2. PICK c \in Nat : c = Cardinality(seen)
    BY <1>9
  <2>3. Second \in Nat /\ (c + 1) * Second = c * Second + Second /\ c * Second \in Nat
    BY TimeoutAssumption
  <2>4. PICK cs \in Nat : cs = c * Second
    BY <2>3
  <2>5. /\ fTimeoutAtThisTime[u] \in Nat /\ curTime \in Nat /\ intervalMilli \in Int
        /\ Nearer(iter) \in Int /\ Nearer(iter) <= intervalMilli + Second
        /\ intervalMilli' = Nearer(iter)
    BY <1>6, <2>1, NearerIs DEF ScanInv, ScanTyped, Look
  <2>6. curTime + Nearer(iter) <= fTimeoutAtThisTime[u] + cs + Second
    <3>1. CASE u = iter
      <4>1. fTimeoutInMilSecs[u] > 0 /\ fTimeoutAtThisTime[u] > curTime
        BY DEF WaitsFor, Look, taskTimes
      <4>2. curTime + Nearer(iter) <= fTimeoutAtThisTime[u] + Second
        BY <1>6, <3>1, <4>1, NearerIs
      <4> QED
        BY <2>3, <2>4, <2>5, <4>2
    <3>2. CASE u # iter
      <4>1. WaitsFor(u)
        BY <1>9, <3>2 DEF WaitsFor, Look, taskTimes
      <4>2. curTime + intervalMilli <= fTimeoutAtThisTime[u] + cs
        BY <2>1, <2>2, <2>4, <4>1 DEF ScanInv, ComesBack, ComesBackFor
      <4> QED
        BY <2>3, <2>4, <2>5, <4>2
    <3> QED
      BY <3>1, <3>2
  <2>7. Cardinality(seen') * Second = cs + Second
    BY <1>9, <2>2, <2>3, <2>4
  <2>8. curTime' = curTime /\ fTimeoutAtThisTime' = fTimeoutAtThisTime
    BY DEF Look, taskTimes
  <2>9. fTimeoutAtThisTime[u] + (cs + Second) = fTimeoutAtThisTime[u] + cs + Second
    BY <2>3, <2>5
  <2> QED
    BY <2>5, <2>6, <2>7, <2>8, <2>9 DEF ComesBackFor
<1> QED
  BY <1>1, <1>10, <1>12, <1>13 DEF ScanInv

(* The scan ends, the clock goes on, or nothing happens.                   *)
LEMMA ScanRests ==
  ASSUME ScanInv, scanning' => scanning, milliseconds' \in Nat,
         UNCHANGED <<queueVars, fTimeoutInMilSecs, fTimeoutAtThisTime, setting,
                     iter, curTime, intervalMilli, seen, changed>>
  PROVE  ScanInv'
<1>1. QueueInv' /\ fQueue' = fQueue /\ order' = order
  BY QueueRests DEF ScanInv, queueVars
<1>2. ScanTyped'
  BY <1>1 DEF ScanInv, ScanTyped
<1>3. ScanGoesOn'
  BY <1>1 DEF ScanInv, ScanGoesOn, LookedAt
<1>4. ComesBack'
  BY <1>1 DEF ScanInv, ComesBack, ComesBackFor, WaitsFor
<1> QED
  BY <1>1, <1>2, <1>3, <1>4 DEF ScanInv

LEMMA ScanKeeps == ScanInv /\ [TimeoutNext]_timeoutVars => ScanInv'
<1> SUFFICES ASSUME ScanInv, [TimeoutNext]_timeoutVars PROVE ScanInv'
  OBVIOUS
<1>0. milliseconds \in Nat
  BY DEF ScanInv, ScanTyped
<1>1. CASE \E t \in TimeoutTasks, timeout \in Timeouts : Construct(t, timeout) \/ SetTimeout(t, timeout)
  BY <1>1, SettingKeeps
<1>2. CASE \E t \in TimeoutTasks : Join(t)
  BY <1>2, JoinKeeps
<1>3. CASE \E t \in TimeoutTasks : Destruct(t)
  BY <1>3, DestructKeeps
<1>4. CASE \E t \in TimeoutTasks : SetTimeoutEnds(t) \/ RefreshTimeout(t)
  BY <1>4, WritingKeeps
<1>5. CASE RunBegins
  BY <1>5, RunBeginsKeeps
<1>6. CASE Look
  BY <1>6, LookKeeps
<1>7. CASE RunEnds
  BY <1>0, <1>7, ScanRests DEF RunEnds, taskTimes
<1>8. CASE Passes
  BY <1>0, <1>8, ScanRests DEF Passes, runVars
<1>9. CASE UNCHANGED timeoutVars
  BY <1>0, <1>9, ScanRests DEF timeoutVars
<1> QED
  BY <1>1, <1>2, <1>3, <1>4, <1>5, <1>6, <1>7, <1>8, <1>9 DEF TimeoutNext

LEMMA ScanInvIsEnough == ScanInv => Linked /\ ScannedInTime
<1> SUFFICES ASSUME ScanInv PROVE Linked /\ ScannedInTime
  OBVIOUS
<1>1. Linked
  BY QueueInvIsEnough DEF ScanInv
<1>2. ASSUME scanning, iter = Null PROVE seen = fQueue
  <2>1. PICK n \in Nat : n = Len(order)
    BY DEF ScanInv, QueueInv, QueueTyped
  <2>2. PICK p \in 0 .. n : LookedAt(p)
    BY <1>2, <2>1 DEF ScanInv, ScanGoesOn
  <2>3. order \in Seq(QueueElems) /\ fQueue = {order[i] : i \in 1 .. n} /\ Null \notin QueueElems
    BY <2>1, RingedIs, QueueAssumption DEF ScanInv, QueueInv, QueueTyped
  <2>4. ~(p < n)
    <3>1. p < n => order[p + 1] \in QueueElems
      BY <2>1, <2>3
    <3> QED
      BY <1>2, <2>1, <2>2, <2>3, <3>1 DEF LookedAt
  <2> QED
    BY <2>2, <2>3, <2>4 DEF LookedAt
<1>3. ASSUME NEW t \in TimeoutTasks, WaitsFor(t) PROVE ComesBackFor(t)
  BY <1>3 DEF ScanInv, ScanGoesOn, ComesBack, WaitsFor
<1> QED
  BY <1>1, <1>2, <1>3 DEF ScannedInTime, ComesBackFor

(* A scan for timeouts looks at every task on its queue, whatever joins,   *)
(* leaves and is set before it, and the next comes at most a second for    *)
(* each task after the first timeout that was still to come, and that      *)
(* nobody has set since (TimeoutTask.cpp:85-106); the links of the queue   *)
(* are in order throughout.                                                *)
THEOREM ScansInTime == TimeoutSpec => [](Linked /\ ScannedInTime)
  BY ScanInitIsRight, ScanKeeps, ScanInvIsEnough, PTL DEF TimeoutSpec

-----------------------------------------------------------------------------
(* The hash table                                                          *)

(* The table: who is in it, and which of two entries was added later ...   *)
Kept == Range(newest)
Newer(x, y) == \E p, q \in DOMAIN newest : p < q /\ newest[p] = x /\ newest[q] = y
Mates(i) == {x \in Kept : IndexOf(x) = i}

TableTypeOK ==
  /\ fSize \in Sizes /\ hashKey \in [Entries -> HashKeys]
  /\ fHashTable \in [0 .. fSize - 1 -> Entries \cup {Nothing}]
  /\ fNextHashEntry \in [Entries -> Entries \cup {Nothing}]
  /\ fCurrent \in Entries \cup {Nothing} /\ fIndex \in 0 .. fSize
  /\ newest \in Seq(Entries) /\ IsInjective(newest) /\ fNumEntries = Len(newest)
  /\ visited \in Seq(Entries) /\ IsInjective(visited)

(* ... that each chain has the entries of its index, from the newest on    *)
(* (x, if there is one, is the newest of some) ...                         *)
NewestOf(x, some) ==
  IF some = {} THEN x = Nothing
  ELSE x \in some /\ \A y \in some : x = y \/ Newer(x, y)
After(x) == {y \in Mates(IndexOf(x)) : Newer(x, y)}
Chained ==
  /\ \A i \in 0 .. fSize - 1 : NewestOf(fHashTable[i], Mates(i))
  /\ \A x \in Kept : NewestOf(fNextHashEntry[x], After(x))
  /\ \A x \in Entries \ Kept : fNextHashEntry[x] = Nothing

(* ... and that the iterator has been everywhere up to where it stands.    *)
UpTo(x) ==
  {y \in Kept : \/ IndexOf(y) < IndexOf(x)
                \/ IndexOf(y) = IndexOf(x) /\ (y = x \/ Newer(y, x))}
Visiting ==
  /\ visited = <<>> => fCurrent = Nothing
  /\ fCurrent # Nothing =>
       fCurrent \in Kept /\ fIndex = IndexOf(fCurrent) /\ Range(visited) = UpTo(fCurrent)
  /\ fCurrent = Nothing /\ visited # <<>> => Range(visited) = Kept

TableInv == TableTypeOK /\ Chained /\ Visiting

(* The part of the table that the chains are about.                        *)
TableOK == Nothing \notin Entries /\ TableTypeOK /\ Chained

-----------------------------------------------------------------------------
(* Newer is an order on what is in the table ...                           *)
LEMMA NewerIsOrder ==
  ASSUME TableTypeOK
  PROVE  /\ Kept \subseteq Entries
         /\ \A x, y : Newer(x, y) => x \in Kept /\ y \in Kept /\ ~ Newer(y, x) /\ x # y
         /\ \A x, y, z : Newer(x, y) /\ Newer(y, z) => Newer(x, z)
         /\ \A x, y \in Kept : x = y \/ Newer(x, y) \/ Newer(y, x)
<1>1. /\ DOMAIN newest = 1 .. Len(newest) /\ Len(newest) \in Nat
      /\ \A p \in DOMAIN newest : newest[p] \in Entries
      /\ \A p, q \in DOMAIN newest : newest[p] = newest[q] => p = q
  BY DEF TableTypeOK, IsInjective
<1>2. Kept = {newest[p] : p \in DOMAIN newest}
  BY DEF Kept, Range
<1>3. ASSUME NEW x, NEW y, Newer(x, y) PROVE x \in Kept /\ y \in Kept /\ ~ Newer(y, x) /\ x # y
  <2>1. PICK p \in DOMAIN newest, q \in DOMAIN newest : p < q /\ newest[p] = x /\ newest[q] = y
    BY <1>3 DEF Newer
  <2>2. ~ Newer(y, x)
    BY <1>1, <2>1 DEF Newer
  <2> QED
    BY <1>1, <1>2, <2>1, <2>2
<1>4. ASSUME NEW x, NEW y, NEW z, Newer(x, y), Newer(y, z) PROVE Newer(x, z)
  BY <1>1, <1>4 DEF Newer
<1>5. ASSUME NEW x \in Kept, NEW y \in Kept PROVE x = y \/ Newer(x, y) \/ Newer(y, x)
  <2>1. PICK p \in DOMAIN newest, q \in DOMAIN newest : newest[p] = x /\ newest[q] = y
    BY <1>2, <1>5
  <2>2. p = q \/ p < q \/ q < p
    BY <1>1, <2>1
  <2> QED
    BY <2>1, <2>2 DEF Newer
<1> QED
  BY <1>1, <1>2, <1>3, <1>4, <1>5

(* ... in which some of them, if there are any, have a newest and an       *)
(* oldest ...                                                              *)
LEMMA NewestExists ==
  ASSUME TableTypeOK, NEW some \in SUBSET Kept, some # {}
  PROVE  /\ \E x \in some : NewestOf(x, some)
         /\ \E x \in some : \A y \in some : x = y \/ Newer(y, x)
<1> DEFINE places == {p \in DOMAIN newest : newest[p] \in some}
<1>1. DOMAIN newest = 1 .. Len(newest) /\ Len(newest) \in Nat
  BY DEF TableTypeOK
<1>2. \A x \in some : \E p \in places : newest[p] = x
  BY DEF Kept, Range
<1>3. places # {} /\ places \in SUBSET Nat /\ places \in SUBSET (0 .. Len(newest))
  BY <1>1, <1>2
<1>4. PICK p \in places : \A q \in places : p <= q
  <2> HIDE DEF places
  <2> QED
    BY <1>3, L!LeastExists
<1>5. PICK r \in places : \A q \in places : q <= r
  <2> HIDE DEF places
  <2> QED
    BY <1>1, <1>3, L!GreatestExists
<1>6. \A y \in some : newest[p] = y \/ Newer(newest[p], y)
  <2> SUFFICES ASSUME NEW y \in some, newest[p] # y PROVE Newer(newest[p], y)
    OBVIOUS
  <2>1. PICK q \in places : newest[q] = y
    BY <1>2
  <2>2. p < q
    BY <1>1, <1>4, <2>1
  <2> QED
    BY <2>1, <2>2 DEF Newer
<1>7. \A y \in some : newest[r] = y \/ Newer(y, newest[r])
  <2> SUFFICES ASSUME NEW y \in some, newest[r] # y PROVE Newer(y, newest[r])
    OBVIOUS
  <2>1. PICK q \in places : newest[q] = y
    BY <1>2
  <2>2. q < r
    BY <1>1, <1>5, <2>1
  <2> QED
    BY <2>1, <2>2 DEF Newer
<1> QED
  BY <1>6, <1>7 DEF NewestOf

(* ... only one newest ...                                                 *)
LEMMA NewestIsOne ==
  ASSUME TableTypeOK, NEW some \in SUBSET Kept,
         NEW x, NewestOf(x, some), NEW y, NewestOf(y, some)
  PROVE  x = y
BY NewerIsOrder DEF NewestOf

(* ... and an induction from the oldest on.                                *)
LEMMA KeptInduction ==
  ASSUME TableTypeOK, NEW T,
         \A x \in Kept : (\A y \in Kept : Newer(x, y) => y \in T) => x \in T
  PROVE  Kept \subseteq T
<1> SUFFICES ASSUME Kept \ T # {} PROVE FALSE
  OBVIOUS
<1>1. PICK x \in Kept \ T : \A y \in Kept \ T : x = y \/ Newer(y, x)
  BY NewestExists
<1>2. \A y \in Kept : Newer(x, y) => y \in T
  BY <1>1, NewerIsOrder
<1> QED
  BY <1>1, <1>2

-----------------------------------------------------------------------------
(* A chain from one of its entries on, and where a walk along it ends.     *)
Reached(x, stops) == (After(x) \cup {x}) \cap stops
IsFrom(f, stops) ==
  f = [e \in Entries \cup {Nothing} |->
         IF e \in stops \cup {Nothing} THEN e ELSE f[fNextHashEntry[e]]]

LEMMA ChainGoesOn ==
  ASSUME TableOK, NEW x \in Kept
  PROVE  /\ fNextHashEntry[x] = Nothing => After(x) = {}
         /\ fNextHashEntry[x] # Nothing =>
              /\ fNextHashEntry[x] \in Kept /\ Newer(x, fNextHashEntry[x])
              /\ fNextHashEntry[x] \in After(x) /\ fNextHashEntry[x] \notin After(fNextHashEntry[x])
              /\ IndexOf(fNextHashEntry[x]) = IndexOf(x)
              /\ After(x) = After(fNextHashEntry[x]) \cup {fNextHashEntry[x]}
<1> DEFINE n == fNextHashEntry[x]
<1>1. NewestOf(n, After(x)) /\ Kept \subseteq Entries /\ Nothing \notin Kept
  BY NewerIsOrder DEF TableOK, Chained
<1>2. ASSUME n = Nothing PROVE After(x) = {}
  BY <1>1, <1>2 DEF NewestOf, After, Mates
<1>3. ASSUME n # Nothing PROVE n \in After(x) /\ \A y \in After(x) : n = y \/ Newer(n, y)
  BY <1>1, <1>3 DEF NewestOf
<1>4. ASSUME n # Nothing
      PROVE  n \in Kept /\ Newer(x, n) /\ IndexOf(n) = IndexOf(x) /\ n \notin After(n)
  BY <1>3, <1>4, NewerIsOrder DEF After, Mates, TableOK
<1>5. ASSUME n # Nothing PROVE After(x) = After(n) \cup {n}
  <2>1. \A y \in After(x) : y \in After(n) \cup {n}
    BY <1>3, <1>4, <1>5 DEF After, Mates
  <2>2. \A y \in After(n) \cup {n} : y \in After(x)
    BY <1>3, <1>4, <1>5, NewerIsOrder DEF After, Mates, TableOK
  <2> QED
    BY <2>1, <2>2
<1> QED
  BY <1>2, <1>3, <1>4, <1>5

LEMMA ChainBegins ==
  ASSUME TableOK, NEW i \in 0 .. fSize - 1
  PROVE  /\ fHashTable[i] = Nothing => Mates(i) = {}
         /\ fHashTable[i] # Nothing =>
              /\ fHashTable[i] \in Kept /\ IndexOf(fHashTable[i]) = i
              /\ fHashTable[i] \notin After(fHashTable[i])
              /\ Mates(i) = After(fHashTable[i]) \cup {fHashTable[i]}
<1> DEFINE n == fHashTable[i]
<1>1. NewestOf(n, Mates(i)) /\ Kept \subseteq Entries /\ Nothing \notin Kept
  BY NewerIsOrder DEF TableOK, Chained
<1>2. ASSUME n = Nothing PROVE Mates(i) = {}
  BY <1>1, <1>2 DEF NewestOf, Mates
<1>3. ASSUME n # Nothing PROVE n \in Mates(i) /\ \A y \in Mates(i) : n = y \/ Newer(n, y)
  BY <1>1, <1>3 DEF NewestOf
<1>4. ASSUME n # Nothing PROVE n \in Kept /\ IndexOf(n) = i /\ n \notin After(n)
  BY <1>3, <1>4, NewerIsOrder DEF After, Mates, TableOK
<1>5. ASSUME n # Nothing PROVE Mates(i) = After(n) \cup {n}
  BY <1>3, <1>4, <1>5 DEF After, Mates
<1> QED
  BY <1>2, <1>4, <1>5

(* Such walks exist: the function that gives for each entry where the walk *)
(* from there ends ...                                                     *)
EndOf(stops) ==
  [e \in Entries \cup {Nothing} |->
     IF e \in Kept THEN CHOOSE y : NewestOf(y, Reached(e, stops))
     ELSE IF e \in stops THEN e ELSE Nothing]

LEMMA ReachedHasNewest ==
  ASSUME TableOK, NEW stops, NEW x \in Kept
  PROVE  /\ Reached(x, stops) \in SUBSET Kept
         /\ \E y : NewestOf(y, Reached(x, stops))
         /\ x \in stops => NewestOf(x, Reached(x, stops))
         /\ x \notin stops /\ fNextHashEntry[x] = Nothing => Reached(x, stops) = {}
         /\ x \notin stops /\ fNextHashEntry[x] # Nothing =>
              Reached(x, stops) = Reached(fNextHashEntry[x], stops)
<1>1. Reached(x, stops) \in SUBSET Kept
  BY DEF Reached, After, Mates
<1>2. \E y : NewestOf(y, Reached(x, stops))
  <2>1. CASE Reached(x, stops) = {}
    BY <2>1 DEF NewestOf
  <2>2. CASE Reached(x, stops) # {}
    BY <1>1, <2>2, NewestExists DEF TableOK
  <2> QED
    BY <2>1, <2>2
<1>3. ASSUME x \in stops PROVE NewestOf(x, Reached(x, stops))
  BY <1>3 DEF Reached, NewestOf, After
<1>4. ASSUME x \notin stops, fNextHashEntry[x] = Nothing PROVE Reached(x, stops) = {}
  BY <1>4, ChainGoesOn DEF Reached
<1>5. ASSUME x \notin stops, fNextHashEntry[x] # Nothing
      PROVE  Reached(x, stops) = Reached(fNextHashEntry[x], stops)
  BY <1>5, ChainGoesOn DEF Reached
<1> QED
  BY <1>1, <1>2, <1>3, <1>4, <1>5

LEMMA EndOfIsFrom ==
  ASSUME TableOK, NEW stops
  PROVE  IsFrom(EndOf(stops), stops)
<1> DEFINE f == EndOf(stops)
<1>0. /\ Kept \subseteq Entries /\ Nothing \notin Entries
      /\ fNextHashEntry \in [Entries -> Entries \cup {Nothing}]
  BY NewerIsOrder DEF TableOK, TableTypeOK
<1>1. f[Nothing] = Nothing
  BY <1>0 DEF EndOf
<1>2. ASSUME NEW e \in Kept
      PROVE  NewestOf(f[e], Reached(e, stops)) /\ \A y : NewestOf(y, Reached(e, stops)) => f[e] = y
  <2>1. f[e] = CHOOSE y : NewestOf(y, Reached(e, stops))
    BY <1>0 DEF EndOf
  <2>2. NewestOf(f[e], Reached(e, stops))
    BY <2>1, ReachedHasNewest
  <2> HIDE DEF f
  <2>3. \A y : NewestOf(y, Reached(e, stops)) => f[e] = y
    BY <2>2, ReachedHasNewest, NewestIsOne DEF TableOK
  <2> QED
    BY <2>2, <2>3
<1>3. ASSUME NEW e \in Entries \cup {Nothing}
      PROVE  f[e] = IF e \in stops \cup {Nothing} THEN e ELSE f[fNextHashEntry[e]]
  <2>1. CASE e = Nothing
    BY <1>1, <2>1
  <2>2. CASE e \in Entries \ Kept
    <3>1. fNextHashEntry[e] = Nothing
      BY <2>2 DEF TableOK, Chained
    <3>2. f[e] = IF e \in stops THEN e ELSE Nothing
      BY <2>2 DEF EndOf
    <3> QED
      BY <1>0, <1>1, <2>2, <3>1, <3>2
  <2>3. CASE e \in Kept /\ e \in stops
    BY <1>2, <2>3, ReachedHasNewest
  <2>4. CASE e \in Kept /\ e \notin stops /\ fNextHashEntry[e] = Nothing
    <3>1. Reached(e, stops) = {}
      BY <2>4, ReachedHasNewest
    <3>2. NewestOf(f[e], {})
      BY <1>2, <2>4, <3>1
    <3>3. f[e] = Nothing
      BY <3>2 DEF NewestOf
    <3> HIDE DEF f
    <3> QED
      BY <1>0, <1>1, <2>4, <3>3
  <2>5. CASE e \in Kept /\ e \notin stops /\ fNextHashEntry[e] # Nothing
    <3>1. Reached(e, stops) = Reached(fNextHashEntry[e], stops) /\ fNextHashEntry[e] \in Kept
      BY <2>5, ReachedHasNewest, ChainGoesOn
    <3> HIDE DEF f
    <3>2. f[e] = f[fNextHashEntry[e]]
      BY <1>2, <2>5, <3>1
    <3> QED
      BY <1>0, <2>5, <3>2
  <2> QED
    BY <1>0, <2>1, <2>2, <2>3, <2>4, <2>5
<1>4. f = [e \in Entries \cup {Nothing} |-> f[e]]
  BY DEF EndOf
<1> HIDE DEF f
<1>5. IsFrom(f, stops)
  BY <1>3, <1>4 DEF IsFrom
<1> QED
  BY <1>5 DEF f

(* ... and every walk ends there.                                          *)
LEMMA WalkEnds ==
  ASSUME TableOK, NEW stops, NEW f, IsFrom(f, stops), NEW x \in Kept
  PROVE  NewestOf(f[x], Reached(x, stops))
<1> DEFINE T == {y \in Kept : NewestOf(f[y], Reached(y, stops))}
<1>0. /\ Kept \subseteq Entries /\ Nothing \notin Entries
      /\ fNextHashEntry \in [Entries -> Entries \cup {Nothing}]
  BY NewerIsOrder DEF TableOK, TableTypeOK
<1>1. \A e \in Entries \cup {Nothing} :
        f[e] = IF e \in stops \cup {Nothing} THEN e ELSE f[fNextHashEntry[e]]
  BY DEF IsFrom
<1>2. f[Nothing] = Nothing
  BY <1>1
<1>3. ASSUME NEW y \in Kept, \A z \in Kept : Newer(y, z) => z \in T PROVE y \in T
  <2>1. CASE y \in stops
    <3>1. f[y] = y
      BY <1>0, <1>1, <2>1
    <3> QED
      BY <2>1, <3>1, ReachedHasNewest
  <2>2. CASE y \notin stops /\ fNextHashEntry[y] = Nothing
    <3>1. f[y] = Nothing
      BY <1>0, <1>1, <1>2, <2>2
    <3>2. Reached(y, stops) = {}
      BY <2>2, ReachedHasNewest
    <3> QED
      BY <3>1, <3>2 DEF NewestOf
  <2>3. CASE y \notin stops /\ fNextHashEntry[y] # Nothing
    <3>1. f[y] = f[fNextHashEntry[y]]
      BY <1>0, <1>1, <2>3
    <3>2. /\ fNextHashEntry[y] \in T
          /\ Reached(y, stops) = Reached(fNextHashEntry[y], stops)
      BY <1>3, <2>3, ChainGoesOn, ReachedHasNewest
    <3> QED
      BY <3>1, <3>2
  <2> QED
    BY <2>1, <2>2, <2>3
<1>4. Kept \subseteq T
  <2> HIDE DEF T
  <2> QED
    BY <1>3, KeptInduction DEF TableOK
<1> QED
  BY <1>4

LEMMA WalkIsRight ==
  ASSUME TableOK, NEW stops, NEW i \in 0 .. fSize - 1
  PROVE  NewestOf(Walk(fHashTable[i], stops), Mates(i) \cap stops)
<1> DEFINE f == CHOOSE g : IsFrom(g, stops)
<1>1. Walk(fHashTable[i], stops) = f[fHashTable[i]]
  BY DEF Walk, IsFrom
<1>2. IsFrom(f, stops)
  BY EndOfIsFrom
<1> HIDE DEF f
<1>3. CASE fHashTable[i] = Nothing
  <2>1. f[Nothing] = Nothing
    BY <1>2 DEF IsFrom
  <2>2. Mates(i) = {}
    BY <1>3, ChainBegins
  <2> QED
    BY <1>1, <1>3, <2>1, <2>2 DEF NewestOf
<1>4. CASE fHashTable[i] # Nothing
  <2>1. /\ Mates(i) = After(fHashTable[i]) \cup {fHashTable[i]}
        /\ fHashTable[i] \in Kept
    BY <1>4, ChainBegins
  <2>2. NewestOf(f[fHashTable[i]], Reached(fHashTable[i], stops))
    BY <1>2, <2>1, WalkEnds
  <2> QED
    BY <1>1, <2>1, <2>2 DEF Reached
<1> QED
  BY <1>3, <1>4

-----------------------------------------------------------------------------
(* The indices, and what a size and keys that stay leave as it was.        *)
LEMMA IndexInTable ==
  ASSUME TableAssumption, TableTypeOK, NEW e \in Entries
  PROVE  IndexOf(e) \in 0 .. fSize - 1
<1>1. fSize \in Nat \ {0} /\ hashKey[e] \in HashKeys /\ hashKey[e] \in Nat
  BY DEF TableAssumption, TableTypeOK
<1>2. BitAnd(hashKey[e], fSize - 1) \in 0 .. fSize - 1
  BY <1>1 DEF TableAssumption, TableTypeOK
<1>3. hashKey[e] % fSize \in 0 .. fSize - 1
  BY <1>1
<1> QED
  BY <1>2, <1>3 DEF IndexOf, ComputeIndex, fMask

LEMMA IndexStays ==
  ASSUME UNCHANGED <<fSize, hashKey>>
  PROVE  \A e : IndexOf(e)' = IndexOf(e)
BY DEF IndexOf, ComputeIndex, fMask

(* An entry is added in front of its chain.                                *)
LEMMA AddStep ==
  ASSUME TableAssumption, TableOK, NEW e \in Entries, Add(e)
  PROVE  TableTypeOK' /\ Chained'
<1>0. /\ Kept \subseteq Entries /\ Nothing \notin Entries /\ Nothing \notin Kept
      /\ fNextHashEntry \in [Entries -> Entries \cup {Nothing}]
      /\ fHashTable \in [0 .. fSize - 1 -> Entries \cup {Nothing}]
      /\ newest \in Seq(Entries) /\ IsInjective(newest) /\ e \notin Kept
      /\ IndexOf(e) \in 0 .. fSize - 1
  BY NewerIsOrder, IndexInTable DEF TableOK, TableTypeOK, Add, Kept
<1>1. /\ newest' = <<e>> \o newest /\ newest' \in Seq(Entries)
      /\ Len(newest') = Len(newest) + 1 /\ Len(newest) \in Nat
      /\ DOMAIN newest' = 1 .. Len(newest) + 1 /\ DOMAIN newest = 1 .. Len(newest)
      /\ newest'[1] = e
      /\ \A p \in 2 .. Len(newest) + 1 : newest'[p] = newest[p - 1]
  BY <1>0 DEF Add
<1>2. \A p \in 2 .. Len(newest) + 1 : newest'[p] \in Kept /\ newest'[p] # e
  <2> SUFFICES ASSUME NEW p \in 2 .. Len(newest) + 1
               PROVE newest'[p] \in Kept /\ newest'[p] # e
    OBVIOUS
  <2>1. p - 1 \in DOMAIN newest
    BY <1>1
  <2> QED
    BY <1>0, <1>1, <2>1 DEF Kept, Range
<1>3. IsInjective(newest')
  <2> SUFFICES ASSUME NEW p \in DOMAIN newest', NEW q \in DOMAIN newest', newest'[p] = newest'[q]
               PROVE  p = q
    BY DEF IsInjective
  <2>1. CASE p = 1 \/ q = 1
    BY <1>1, <1>2, <2>1
  <2>2. CASE p # 1 /\ q # 1
    <3>1. p - 1 \in DOMAIN newest /\ q - 1 \in DOMAIN newest /\ newest[p - 1] = newest[q - 1]
      BY <1>1, <2>2
    <3>2. p - 1 = q - 1
      BY <1>0, <3>1 DEF IsInjective
    <3> QED
      BY <1>1, <3>2
  <2> QED
    BY <2>1, <2>2
<1>4. Kept' = Kept \cup {e}
  <2>1. \A p \in DOMAIN newest : p + 1 \in DOMAIN newest' /\ newest'[p + 1] = newest[p]
    BY <1>1
  <2>2. \A p \in DOMAIN newest' : p = 1 \/ p \in 2 .. Len(newest) + 1
    BY <1>1
  <2>3. 1 \in DOMAIN newest'
    BY <1>1
  <2>4. Kept = {newest[p] : p \in DOMAIN newest} /\ Kept' = {newest'[p] : p \in DOMAIN newest'}
    BY DEF Kept, Range
  <2>5. \A x \in Kept' : x \in Kept \cup {e}
    BY <1>1, <1>2, <2>2, <2>4
  <2>6. \A x \in Kept : x \in Kept'
    BY <2>1, <2>4
  <2>7. e \in Kept'
    BY <1>1, <2>3, <2>4
  <2> QED
    BY <2>5, <2>6, <2>7
<1>5. \A x \in Kept : Newer(e, x)'
  <2> SUFFICES ASSUME NEW x \in Kept PROVE Newer(e, x)'
    OBVIOUS
  <2>1. PICK p \in DOMAIN newest : newest[p] = x
    BY DEF Kept, Range
  <2>2. p + 1 \in DOMAIN newest' /\ newest'[p + 1] = x /\ 1 \in DOMAIN newest' /\ 1 < p + 1
    BY <1>1, <2>1
  <2> QED
    BY <1>1, <2>2 DEF Newer
<1>6. ASSUME NEW x, NEW y, Newer(x, y) PROVE Newer(x, y)'
  <2>1. PICK p \in DOMAIN newest, q \in DOMAIN newest : p < q /\ newest[p] = x /\ newest[q] = y
    BY <1>6 DEF Newer
  <2>2. /\ p + 1 \in DOMAIN newest' /\ newest'[p + 1] = x
        /\ q + 1 \in DOMAIN newest' /\ newest'[q + 1] = y /\ p + 1 < q + 1
    BY <1>1, <2>1
  <2> QED
    BY <2>2 DEF Newer
<1>7. ASSUME NEW x \in Kept, NEW y, Newer(x, y)' PROVE Newer(x, y)
  <2>1. PICK p \in DOMAIN newest', q \in DOMAIN newest' : p < q /\ newest'[p] = x /\ newest'[q] = y
    BY <1>7 DEF Newer
  <2>2. p # 1
    BY <1>0, <1>1, <1>7, <2>1
  <2>3. /\ p - 1 \in DOMAIN newest /\ newest[p - 1] = x
        /\ q - 1 \in DOMAIN newest /\ newest[q - 1] = y /\ p - 1 < q - 1
    BY <1>1, <2>1, <2>2
  <2> QED
    BY <2>3 DEF Newer
<1>8. \A x : IndexOf(x)' = IndexOf(x)
  BY IndexStays DEF Add
<1>9. TableTypeOK'
  <2>1. fNumEntries' = Len(newest')
    BY <1>1 DEF Add, TableOK, TableTypeOK
  <2> QED
    BY <1>0, <1>1, <1>3, <2>1 DEF Add, iterVars, TableOK, TableTypeOK
<1>10. /\ fNextHashEntry' = [fNextHashEntry EXCEPT ![e] = fHashTable[IndexOf(e)]]
       /\ fHashTable' = [fHashTable EXCEPT ![IndexOf(e)] = e] /\ fSize' = fSize
  BY DEF Add
<1>11. /\ \A i : i # IndexOf(e) => Mates(i)' = Mates(i)
       /\ Mates(IndexOf(e))' = Mates(IndexOf(e)) \cup {e}
  BY <1>4, <1>8 DEF Mates
<1>12. After(e)' = Mates(IndexOf(e))
  <2>1. ~ Newer(e, e)'
    <3> SUFFICES ASSUME NEW p \in DOMAIN newest', NEW q \in DOMAIN newest', p < q,
                        newest'[p] = e, newest'[q] = e
                 PROVE  FALSE
      BY DEF Newer
    <3>1. p = q
      BY <1>3 DEF IsInjective
    <3> QED
      BY <1>1, <3>1
  <2>2. After(e)' = {y \in Mates(IndexOf(e))' : Newer(e, y)'}
    BY <1>8 DEF After, Mates
  <2>3. \A y \in Mates(IndexOf(e)) : y \in Kept
    BY DEF Mates
  <2> QED
    BY <1>5, <1>11, <2>1, <2>2, <2>3
<1>13. ASSUME NEW x \in Kept PROVE After(x)' = After(x)
  <2>1. After(x)' = {y \in Mates(IndexOf(x))' : Newer(x, y)'}
    BY <1>8 DEF After, Mates
  <2>2. \A y : Newer(x, y)' <=> Newer(x, y)
    BY <1>6, <1>7
  <2>3. ~ Newer(x, e)
    BY <1>0, NewerIsOrder DEF TableOK
  <2>4. After(x) = {y \in Mates(IndexOf(x)) : Newer(x, y)}
    BY DEF After
  <2>5. Mates(IndexOf(x))' = Mates(IndexOf(x)) \/ Mates(IndexOf(x))' = Mates(IndexOf(x)) \cup {e}
    BY <1>8, <1>11 DEF Mates
  <2> HIDE DEF After
  <2>6. \A y : y \in After(x)' <=> y \in After(x)
    BY <1>8, <1>11, <2>1, <2>2, <2>3, <2>4
  <2> QED
    BY <2>6
<1>14. ASSUME NEW i \in 0 .. fSize' - 1 PROVE NewestOf(fHashTable[i], Mates(i))'
  <2>1. CASE i = IndexOf(e)
    <3>1. fHashTable'[i] = e /\ Mates(i)' = Mates(i) \cup {e} /\ Mates(i) \subseteq Kept
      BY <1>0, <1>10, <1>11, <2>1 DEF Mates
    <3> QED
      BY <1>5, <3>1 DEF NewestOf
  <2>2. CASE i # IndexOf(e)
    <3>1. fHashTable'[i] = fHashTable[i] /\ Mates(i)' = Mates(i) /\ NewestOf(fHashTable[i], Mates(i))
      BY <1>0, <1>10, <1>11, <2>2 DEF TableOK, Chained
    <3> QED
      BY <1>6, <3>1 DEF NewestOf
  <2> QED
    BY <2>1, <2>2
<1>15. ASSUME NEW x \in Kept' PROVE NewestOf(fNextHashEntry[x], After(x))'
  <2>1. CASE x = e
    <3>1. fNextHashEntry'[x] = fHashTable[IndexOf(e)] /\ After(x)' = Mates(IndexOf(e))
      BY <1>0, <1>10, <1>12, <2>1
    <3>2. NewestOf(fHashTable[IndexOf(e)], Mates(IndexOf(e)))
      BY <1>0 DEF TableOK, Chained
    <3> QED
      BY <1>6, <3>1, <3>2 DEF NewestOf
  <2>2. CASE x # e
    <3>1. x \in Kept
      BY <1>4, <1>15, <2>2
    <3>2. fNextHashEntry'[x] = fNextHashEntry[x] /\ After(x)' = After(x)
      BY <1>0, <1>10, <1>13, <2>2, <3>1
    <3>3. NewestOf(fNextHashEntry[x], After(x))
      BY <3>1 DEF TableOK, Chained
    <3> QED
      BY <1>6, <3>2, <3>3 DEF NewestOf
  <2> QED
    BY <2>1, <2>2
<1>16. \A x \in Entries \ Kept' : fNextHashEntry'[x] = Nothing
  BY <1>0, <1>4, <1>10 DEF TableOK, Chained
<1>17. Chained'
  BY <1>14, <1>15, <1>16 DEF Chained
<1> QED
  BY <1>9, <1>17

(* Out of the order of entries an entry is taken ...                       *)
LEMMA TakenOut ==
  ASSUME TableOK, NEW e \in Kept, UNCHANGED <<fSize, hashKey>>,
         newest' = SubSeq(newest, 1, PlaceIn(e) - 1) \o SubSeq(newest, PlaceIn(e) + 1, Len(newest))
  PROVE  /\ newest' \in Seq(Entries) /\ IsInjective(newest') /\ Len(newest') = Len(newest) - 1
         /\ Kept' = Kept \ {e}
         /\ \A x, y : Newer(x, y)' <=> Newer(x, y) /\ x # e /\ y # e
         /\ \A i : Mates(i)' = Mates(i) \ {e}
         /\ \A x \in Kept' : After(x)' = After(x) \ {e}
<1> DEFINE p == PlaceIn(e)
           n == Len(newest)
           left == SubSeq(newest, 1, p - 1)
           right == SubSeq(newest, p + 1, n)
           from(q) == IF q < p THEN q ELSE q + 1
<1>0. /\ newest \in Seq(Entries) /\ IsInjective(newest) /\ n \in Nat /\ DOMAIN newest = 1 .. n
      /\ \A q \in 1 .. n : newest[q] \in Entries
      /\ Kept = {newest[q] : q \in 1 .. n}
  <2>1. newest \in Seq(Entries) /\ IsInjective(newest)
    BY DEF TableOK, TableTypeOK
  <2>2. n \in Nat /\ DOMAIN newest = 1 .. n /\ \A q \in 1 .. n : newest[q] \in Entries
    BY <2>1
  <2>3. Kept = {newest[q] : q \in 1 .. n}
    BY <2>2 DEF Kept, Range
  <2> QED
    BY <2>1, <2>2, <2>3
<1>1. p \in 1 .. n /\ newest[p] = e
  <2>1. \E q \in DOMAIN newest : newest[q] = e
    BY <1>0
  <2> QED
    BY <1>0, <2>1 DEF PlaceIn
<1>a. newest' = left \o right
  OBVIOUS
<1> HIDE DEF p, n
<1>2. /\ left \in Seq(Entries) /\ Len(left) = p - 1
      /\ \A q \in 1 .. p - 1 : left[q] = newest[q]
  <2>1. /\ 1 \in Int /\ p - 1 \in Int /\ \A q \in 1 .. p - 1 : newest[q] \in Entries
        /\ (IF 1 <= p - 1 THEN p - 1 - 1 + 1 ELSE 0) = p - 1 /\ p - 1 - 1 + 1 = p - 1
        /\ \A q \in 1 .. p - 1 : 1 + q - 1 = q
    BY <1>0, <1>1
  <2> QED
    BY <2>1, SubSeqProperties
<1>3. /\ right \in Seq(Entries) /\ Len(right) = n - p
      /\ \A q \in 1 .. n - p : right[q] = newest[p + q]
  <2>1. /\ n \in Int /\ p + 1 \in Int /\ \A q \in p + 1 .. n : newest[q] \in Entries
        /\ (IF p + 1 <= n THEN n - (p + 1) + 1 ELSE 0) = n - p /\ n - (p + 1) + 1 = n - p
        /\ \A q \in 1 .. n - p : p + 1 + q - 1 = p + q
    BY <1>0, <1>1
  <2> QED
    BY <2>1, SubSeqProperties
<1> HIDE DEF left, right
<1>b. /\ newest' \in Seq(Entries) /\ Len(newest') = n - 1 /\ DOMAIN newest' = 1 .. n - 1
      /\ \A q \in 1 .. n - 1 : newest'[q] = newest[from(q)]
  <2>1. /\ left \o right \in Seq(Entries) /\ Len(left \o right) = Len(left) + Len(right)
        /\ \A q \in 1 .. Len(left) + Len(right) :
             (left \o right)[q] = IF q <= Len(left) THEN left[q] ELSE right[q - Len(left)]
    BY <1>2, <1>3, ConcatProperties
  <2>2. Len(left) + Len(right) = n - 1
    BY <1>0, <1>1, <1>2, <1>3
  <2>3. ASSUME NEW q \in 1 .. n - 1 PROVE newest'[q] = newest[from(q)]
    <3>1. newest'[q] = IF q <= p - 1 THEN left[q] ELSE right[q - (p - 1)]
      BY <1>a, <1>2, <2>1, <2>2
    <3>2. CASE q <= p - 1
      <4>1. q \in 1 .. p - 1 /\ q < p
        BY <1>0, <1>1, <3>2
      <4> QED
        BY <1>2, <3>1, <3>2, <4>1
    <3>3. CASE ~ q <= p - 1
      <4>1. q - (p - 1) \in 1 .. n - p /\ p + (q - (p - 1)) = q + 1 /\ ~ q < p
        BY <1>0, <1>1, <3>3
      <4> QED
        BY <1>3, <3>1, <3>3, <4>1
    <3> QED
      BY <3>2, <3>3
  <2>4. DOMAIN newest' = 1 .. n - 1
    <3>1. newest' \in Seq(Entries) /\ Len(newest') = n - 1
      BY <1>a, <2>1, <2>2
    <3> QED
      BY <3>1
  <2> QED
    BY <1>a, <2>1, <2>2, <2>3, <2>4
<1>4. /\ \A q \in 1 .. n - 1 : from(q) \in 1 .. n /\ from(q) # p
      /\ \A q, r \in 1 .. n - 1 : q < r <=> from(q) < from(r)
      /\ \A r \in 1 .. n : r # p => \E q \in 1 .. n - 1 : from(q) = r
  <2>1. /\ \A q \in 1 .. n - 1 : from(q) \in 1 .. n /\ from(q) # p
        /\ \A q, r \in 1 .. n - 1 : q < r <=> from(q) < from(r)
    BY <1>0, <1>1
  <2>2. ASSUME NEW r \in 1 .. n, r # p PROVE \E q \in 1 .. n - 1 : from(q) = r
    <3>1. CASE r < p
      <4>1. r \in 1 .. n - 1 /\ from(r) = r
        BY <1>0, <1>1, <3>1
      <4> QED
        BY <4>1
    <3>2. CASE r > p
      <4>1. r - 1 \in 1 .. n - 1 /\ from(r - 1) = r
        BY <1>0, <1>1, <3>2
      <4> QED
        BY <4>1
    <3> QED
      BY <1>0, <1>1, <2>2, <3>1, <3>2
  <2> QED
    BY <2>1, <2>2
<1> HIDE DEF from
<1>5. \A q, r \in 1 .. n : newest[q] = newest[r] => q = r
  BY <1>0 DEF IsInjective
<1>6. \A q, r \in 1 .. n - 1 : newest'[q] = newest'[r] => q = r
  <2> SUFFICES ASSUME NEW q \in 1 .. n - 1, NEW r \in 1 .. n - 1, newest'[q] = newest'[r]
               PROVE  q = r
    OBVIOUS
  <2>1. from(q) = from(r)
    BY <1>b, <1>4, <1>5
  <2>2. ~ q < r /\ ~ r < q
    BY <1>0, <1>4, <2>1
  <2> QED
    BY <1>0, <2>2
<1>7. Kept' = Kept \ {e}
  <2>0. Kept' = {newest'[q] : q \in 1 .. n - 1}
    BY <1>b DEF Kept, Range
  <2>1. ASSUME NEW q \in 1 .. n - 1 PROVE newest'[q] \in Kept \ {e}
    <3>1. from(q) \in 1 .. n /\ from(q) # p /\ newest'[q] = newest[from(q)]
      BY <1>b, <1>4
    <3> QED
      BY <1>0, <1>1, <1>5, <3>1
  <2>2. ASSUME NEW x \in Kept \ {e} PROVE x \in Kept'
    <3>1. PICK r \in 1 .. n : newest[r] = x /\ r # p
      BY <1>0, <1>1, <2>2
    <3>2. PICK q \in 1 .. n - 1 : from(q) = r
      BY <1>4, <3>1
    <3> QED
      BY <1>b, <2>0, <3>1, <3>2
  <2> QED
    BY <2>0, <2>1, <2>2
<1>8. ASSUME NEW x, NEW y, Newer(x, y)' PROVE Newer(x, y) /\ x # e /\ y # e
  <2>1. PICK q \in DOMAIN newest', r \in DOMAIN newest' : q < r /\ newest'[q] = x /\ newest'[r] = y
    BY <1>8 DEF Newer
  <2>2. /\ from(q) \in DOMAIN newest /\ from(r) \in DOMAIN newest /\ from(q) < from(r)
        /\ newest[from(q)] = x /\ newest[from(r)] = y
    BY <1>0, <1>b, <1>4, <2>1
  <2>3. Newer(x, y)
    BY <2>2 DEF Newer
  <2>4. x \in Kept' /\ y \in Kept'
    BY <2>1 DEF Kept, Range
  <2> QED
    BY <1>7, <2>3, <2>4
<1>9. ASSUME NEW x, NEW y, Newer(x, y), x # e, y # e PROVE Newer(x, y)'
  <2>1. PICK a \in DOMAIN newest, b \in DOMAIN newest : a < b /\ newest[a] = x /\ newest[b] = y
    BY <1>9 DEF Newer
  <2>2. a # p /\ b # p
    BY <1>1, <1>9, <2>1
  <2>3. PICK q \in 1 .. n - 1 : from(q) = a
    BY <1>0, <1>4, <2>1, <2>2
  <2>4. PICK r \in 1 .. n - 1 : from(r) = b
    BY <1>0, <1>4, <2>1, <2>2
  <2>5. q < r /\ newest'[q] = x /\ newest'[r] = y
    BY <1>b, <1>4, <2>1, <2>3, <2>4
  <2> QED
    BY <1>b, <2>5 DEF Newer
<1>10. \A x : IndexOf(x)' = IndexOf(x)
  BY IndexStays
<1>11. ASSUME NEW i PROVE Mates(i)' = Mates(i) \ {e}
  BY <1>7, <1>10 DEF Mates
<1>12. ASSUME NEW x \in Kept' PROVE After(x)' = After(x) \ {e}
  <2>1. After(x)' = {y \in Mates(IndexOf(x))' : Newer(x, y)'}
    BY <1>10 DEF After, Mates
  <2>2. Mates(IndexOf(x))' = Mates(IndexOf(x)) \ {e} /\ x # e
    BY <1>7, <1>10, <1>12 DEF Mates
  <2>3. After(x) = {y \in Mates(IndexOf(x)) : Newer(x, y)}
    BY DEF After
  <2> HIDE DEF After
  <2> QED
    BY <1>8, <1>9, <2>1, <2>2, <2>3
<1>13. IsInjective(newest')
  BY <1>b, <1>6 DEF IsInjective
<1> QED
  BY <1>b, <1>7, <1>8, <1>9, <1>11, <1>12, <1>13 DEF n

(* ... the one before an entry that is not the first of its chain is where *)
(* the walk finds it ...                                                   *)
LEMMA BeforeIsBefore ==
  ASSUME TableAssumption, TableOK, NEW e \in Kept, fHashTable[IndexOf(e)] # e
  PROVE  /\ Before(e) \in Kept /\ Before(e) # e /\ fNextHashEntry[Before(e)] = e
         /\ \A x \in Kept : fNextHashEntry[x] = e => x = Before(e)
<1> DEFINE i == IndexOf(e)
           ones == {x \in Entries : fNextHashEntry[x] = e}
<1>1. /\ Kept \subseteq Entries /\ Nothing \notin Entries
      /\ i \in 0 .. fSize - 1
  BY NewerIsOrder, IndexInTable DEF TableOK
<1>2. NewestOf(Before(e), Mates(i) \cap ones)
  <2>1. Before(e) = Walk(fHashTable[i], ones)
    BY DEF Before
  <2> HIDE DEF i, ones
  <2> QED
    BY <1>1, <2>1, WalkIsRight
<1> DEFINE later == {x \in Mates(i) : Newer(x, e)}
<1>3. later # {} /\ later \in SUBSET Kept
  <2>1. e \in Mates(i)
    BY DEF Mates
  <2>2. NewestOf(fHashTable[i], Mates(i))
    BY <1>1 DEF TableOK, Chained
  <2> QED
    BY <2>1, <2>2 DEF NewestOf, Mates
<1>4. PICK x \in later : \A y \in later : x = y \/ Newer(y, x)
  <2> HIDE DEF later
  <2> QED
    BY <1>3, NewestExists DEF TableOK
<1>5. x \in Kept /\ IndexOf(x) = i /\ Newer(x, e) /\ e \in After(x)
  BY <1>4 DEF Mates, After
<1>6. fNextHashEntry[x] = e
  <2>1. NewestOf(fNextHashEntry[x], After(x))
    BY <1>5 DEF TableOK, Chained
  <2>2. fNextHashEntry[x] \in After(x) /\ (fNextHashEntry[x] = e \/ Newer(fNextHashEntry[x], e))
    BY <1>5, <2>1 DEF NewestOf
  <2>3. fNextHashEntry[x] \in Mates(i) /\ Newer(x, fNextHashEntry[x])
    BY <1>5, <2>2 DEF After
  <2>4. ASSUME Newer(fNextHashEntry[x], e) PROVE FALSE
    <3>1. fNextHashEntry[x] \in later
      BY <2>3, <2>4
    <3> QED
      BY <1>4, <2>3, <3>1, NewerIsOrder DEF TableOK
  <2> QED
    BY <2>2, <2>4
<1>7. \A y \in Kept : fNextHashEntry[y] = e => /\ IndexOf(y) = i /\ Newer(y, e) /\ e \notin After(e)
                                               /\ After(y) = After(e) \cup {e}
  BY <1>1, ChainGoesOn
<1>8. ASSUME NEW y \in Kept, NEW z \in Kept, fNextHashEntry[y] = e, fNextHashEntry[z] = e, Newer(y, z)
      PROVE  FALSE
  <2>1. z \in After(y) /\ z # e
    BY <1>7, <1>8, NewerIsOrder DEF After, Mates, TableOK
  <2>2. z \in After(e)
    BY <1>7, <1>8, <2>1
  <2>3. Newer(e, z) /\ Newer(z, e)
    BY <1>7, <1>8, <2>2 DEF After
  <2> QED
    BY <2>3, NewerIsOrder DEF TableOK
<1>9. \A y, z \in Kept : fNextHashEntry[y] = e /\ fNextHashEntry[z] = e => y = z
  BY <1>8, NewerIsOrder DEF TableOK
<1>10. Before(e) \in Mates(i) \cap ones
  <2>1. x \in Mates(i) \cap ones
    BY <1>1, <1>5, <1>6 DEF Mates
  <2> HIDE DEF ones
  <2> QED
    BY <1>2, <2>1 DEF NewestOf
<1>11. Before(e) \in Kept /\ fNextHashEntry[Before(e)] = e
  BY <1>10 DEF Mates
<1> QED
  BY <1>7, <1>9, <1>11, NewerIsOrder DEF TableOK

(* ... and what pointed to it points to what it pointed to.                *)
LEMMA RemoveStep ==
  ASSUME TableAssumption, TableOK, NEW e \in Entries, RemoveEntry(e)
  PROVE  TableTypeOK' /\ Chained'
<1>0. /\ Kept \subseteq Entries /\ Nothing \notin Entries /\ Nothing \notin Kept
      /\ fNextHashEntry \in [Entries -> Entries \cup {Nothing}]
      /\ fHashTable \in [0 .. fSize - 1 -> Entries \cup {Nothing}]
      /\ IndexOf(e) \in 0 .. fSize - 1
      /\ UNCHANGED <<fSize, hashKey>>
  BY NewerIsOrder, IndexInTable DEF TableOK, TableTypeOK, RemoveEntry
<1>1. NewestOf(Walk(fHashTable[IndexOf(e)], {e}), Mates(IndexOf(e)) \cap {e})
  BY <1>0, WalkIsRight
<1>2. CASE Walk(fHashTable[IndexOf(e)], {e}) = Nothing
  <2>1. UNCHANGED tableVars
    BY <1>2 DEF RemoveEntry, tableVars, iterVars
  <2> QED
    BY <2>1 DEF tableVars, TableOK, TableTypeOK, Chained, NewestOf, Mates, After, Newer, Kept,
       IndexOf, ComputeIndex, fMask
<1>3. CASE Walk(fHashTable[IndexOf(e)], {e}) # Nothing
  <2>1. e \in Kept
    BY <1>1, <1>3 DEF NewestOf, Mates
  <2>2. /\ newest' \in Seq(Entries) /\ IsInjective(newest') /\ Len(newest') = Len(newest) - 1
        /\ Kept' = Kept \ {e}
        /\ \A x, y : Newer(x, y)' <=> Newer(x, y) /\ x # e /\ y # e
        /\ \A i : Mates(i)' = Mates(i) \ {e}
        /\ \A x \in Kept' : After(x)' = After(x) \ {e}
    <3>1. newest' = SubSeq(newest, 1, PlaceIn(e) - 1)
                      \o SubSeq(newest, PlaceIn(e) + 1, Len(newest))
      BY <1>3 DEF RemoveEntry
    <3> QED
      BY <1>0, <2>1, <3>1, TakenOut
  <2>3. e \notin After(e) /\ NewestOf(fNextHashEntry[e], After(e))
    BY <2>1, NewerIsOrder DEF TableOK, Chained, After
  (* What remains the newest, and what becomes the newest.                 *)
  <2> DEFINE Then(x, some) ==
               IF some = {} THEN x = Nothing
               ELSE x \in some /\ \A y \in some : x = y \/ (Newer(x, y) /\ x # e /\ y # e)
  <2>4. ASSUME NEW x, x # e, NEW some, NewestOf(x, some)
        PROVE  Then(x, some \ {e})
    <3>1. CASE some = {}
      BY <2>4, <3>1 DEF NewestOf
    <3>2. CASE some # {}
      BY <2>2, <2>4, <3>2 DEF NewestOf
    <3> QED
      BY <3>1, <3>2
  <2>5. Then(fNextHashEntry[e], After(e))
    <3>1. CASE After(e) = {}
      BY <2>3, <3>1 DEF NewestOf
    <3>2. CASE After(e) # {}
      <4>1. /\ fNextHashEntry[e] \in After(e) /\ fNextHashEntry[e] # e
            /\ \A y \in After(e) : fNextHashEntry[e] = y \/ Newer(fNextHashEntry[e], y)
        BY <2>3, <3>2 DEF NewestOf
      <4>2. \A y \in After(e) : y # e
        BY <2>3
      <4> QED
        BY <3>2, <4>1, <4>2
    <3> QED
      BY <3>1, <3>2
  <2>t. /\ \A i : Then(fHashTable'[i], Mates(i)') => NewestOf(fHashTable[i], Mates(i))'
        /\ \A x : Then(fNextHashEntry'[x], After(x)') => NewestOf(fNextHashEntry[x], After(x))'
    BY <2>2 DEF NewestOf
  <2> HIDE DEF Then
  <2>6. fNumEntries' = Len(newest')
    BY <1>3, <2>2 DEF RemoveEntry, TableOK, TableTypeOK
  <2>7. /\ UNCHANGED <<fCurrent, fIndex, visited>>
        /\ fSize \in Sizes /\ hashKey \in [Entries -> HashKeys]
        /\ fCurrent \in Entries \cup {Nothing} /\ fIndex \in 0 .. fSize
        /\ visited \in Seq(Entries) /\ IsInjective(visited)
    BY DEF RemoveEntry, iterVars, TableOK, TableTypeOK
  <2>8. CASE fHashTable[IndexOf(e)] = e
    <3>1. /\ fHashTable' = [fHashTable EXCEPT ![IndexOf(e)] = fNextHashEntry[e]]
          /\ fNextHashEntry' = [fNextHashEntry EXCEPT ![e] = Nothing]
      BY <1>3, <2>8 DEF RemoveEntry, WithoutFirst
    <3>2. TableTypeOK'
      BY <1>0, <2>2, <2>6, <2>7, <3>1 DEF TableTypeOK
    <3>3. ASSUME NEW i \in 0 .. fSize - 1 PROVE NewestOf(fHashTable[i], Mates(i))'
      <4>1. CASE i = IndexOf(e)
        <5>1. Mates(i) = After(e) \cup {e}
          BY <1>0, <2>1, <2>8, <4>1, ChainBegins
        <5>2. fHashTable'[i] = fNextHashEntry[e] /\ Mates(i)' = After(e)
          BY <1>0, <2>2, <2>3, <3>1, <4>1, <5>1
        <5> QED
          BY <2>5, <2>t, <5>2
      <4>2. CASE i # IndexOf(e)
        <5>1. /\ NewestOf(fHashTable[i], Mates(i)) /\ fHashTable'[i] = fHashTable[i]
              /\ Mates(i)' = Mates(i) \ {e}
          BY <1>0, <2>2, <3>1, <4>2 DEF TableOK, Chained
        <5>2. fHashTable[i] # e
          BY <1>0, <4>2, ChainBegins
        <5> QED
          BY <2>4, <2>t, <5>1, <5>2
      <4> QED
        BY <4>1, <4>2
    <3>4. ASSUME NEW x \in Kept' PROVE NewestOf(fNextHashEntry[x], After(x))'
      <4>1. x \in Kept /\ x # e /\ After(x)' = After(x) \ {e}
        BY <2>2
      <4>2. fNextHashEntry'[x] = fNextHashEntry[x] /\ NewestOf(fNextHashEntry[x], After(x))
        BY <1>0, <3>1, <4>1 DEF TableOK, Chained
      <4>3. fNextHashEntry[x] # e
        <5>1. e \notin After(x)
          BY <1>0, <2>1, <2>8, <4>1, ChainBegins, ChainGoesOn, NewerIsOrder DEF After, Mates, TableOK
        <5> QED
          BY <1>0, <4>2, <5>1, <2>1 DEF NewestOf
      <4> QED
        BY <2>4, <2>t, <4>1, <4>2, <4>3
    <3>5. \A x \in Entries \ Kept' : fNextHashEntry'[x] = Nothing
      BY <1>0, <2>2, <3>1 DEF TableOK, Chained
    <3> QED
      BY <1>0, <3>2, <3>3, <3>4, <3>5 DEF Chained
  <2>9. CASE fHashTable[IndexOf(e)] # e
    <3> DEFINE b == Before(e)
    <3>0. /\ b \in Kept /\ b # e /\ fNextHashEntry[b] = e
          /\ \A x \in Kept : fNextHashEntry[x] = e => x = b
      BY <2>1, <2>9, BeforeIsBefore
    <3>1. /\ fNextHashEntry' = [fNextHashEntry EXCEPT ![b] = fNextHashEntry[e], ![e] = Nothing]
          /\ fHashTable' = fHashTable
      BY <1>3, <2>9 DEF RemoveEntry
    <3> HIDE DEF b
    <3>2. TableTypeOK'
      BY <1>0, <2>2, <2>6, <2>7, <3>0, <3>1 DEF TableTypeOK
    <3>3. ASSUME NEW i \in 0 .. fSize - 1 PROVE NewestOf(fHashTable[i], Mates(i))'
      <4>1. /\ NewestOf(fHashTable[i], Mates(i)) /\ fHashTable'[i] = fHashTable[i]
            /\ Mates(i)' = Mates(i) \ {e}
        BY <1>0, <2>2, <3>1 DEF TableOK, Chained
      <4>2. fHashTable[i] # e
        BY <1>0, <2>1, <2>9, ChainBegins
      <4> QED
        BY <2>4, <2>t, <4>1, <4>2
    <3>4. ASSUME NEW x \in Kept' PROVE NewestOf(fNextHashEntry[x], After(x))'
      <4>1. x \in Kept /\ x # e /\ After(x)' = After(x) \ {e}
        BY <2>2
      <4>2. CASE x = b
        <5>1. After(x) = After(e) \cup {e}
          BY <1>0, <2>1, <3>0, <4>2, ChainGoesOn
        <5>2. fNextHashEntry'[x] = fNextHashEntry[e] /\ After(x)' = After(e)
          BY <1>0, <2>3, <3>0, <3>1, <4>1, <4>2, <5>1
        <5> QED
          BY <2>5, <2>t, <5>2
      <4>3. CASE x # b
        <5>1. fNextHashEntry'[x] = fNextHashEntry[x] /\ NewestOf(fNextHashEntry[x], After(x))
          BY <1>0, <3>1, <4>1, <4>3 DEF TableOK, Chained
        <5>2. fNextHashEntry[x] # e
          BY <3>0, <4>1, <4>3
        <5> QED
          BY <2>4, <2>t, <4>1, <5>1, <5>2
      <4> QED
        BY <4>2, <4>3
    <3>5. \A x \in Entries \ Kept' : fNextHashEntry'[x] = Nothing
      BY <1>0, <2>2, <3>0, <3>1 DEF TableOK, Chained
    <3> QED
      BY <1>0, <3>2, <3>3, <3>4, <3>5 DEF Chained
  <2> QED
    BY <2>8, <2>9
<1> QED
  BY <1>2, <1>3

-----------------------------------------------------------------------------
(* The iterator: it stands on an entry it has not stood on ...             *)
LEMMA StandsOnStep ==
  ASSUME TableInv, Nothing \notin Entries, NEW i \in 0 .. fSize, NEW e \in Kept \ Range(visited),
         StandsOn(i, e), UNCHANGED <<fSize, hashKey, fHashTable, fNextHashEntry, fNumEntries, newest>>,
         i = IndexOf(e), UpTo(e) = Range(visited) \cup {e}
  PROVE  TableInv'
<1>0. /\ Kept \subseteq Entries /\ e # Nothing /\ visited \in Seq(Entries)
      /\ IsInjective(visited) /\ DOMAIN visited = 1 .. Len(visited) /\ Len(visited) \in Nat
  BY NewerIsOrder DEF TableInv, TableTypeOK
<1>1. fIndex' = i /\ fCurrent' = e /\ visited' = Append(visited, e)
  BY <1>0 DEF StandsOn
<1>2. /\ visited' \in Seq(Entries) /\ DOMAIN visited' = 1 .. Len(visited) + 1
      /\ \A p \in 1 .. Len(visited) : visited'[p] = visited[p]
      /\ visited'[Len(visited) + 1] = e
  BY <1>0, <1>1
<1>3. Range(visited') = Range(visited) \cup {e} /\ IsInjective(visited')
  <2>1. \A p \in 1 .. Len(visited) : visited[p] \in Range(visited) /\ visited[p] # e
    BY <1>0 DEF Range
  <2>2. \A p \in DOMAIN visited' : p \in 1 .. Len(visited) \/ p = Len(visited) + 1
    BY <1>0, <1>2
  <2>3. \A p \in 1 .. Len(visited) : p \in DOMAIN visited' /\ p \in DOMAIN visited
    BY <1>0, <1>2
  <2>4. Range(visited') = {visited'[p] : p \in DOMAIN visited'}
        /\ Range(visited) = {visited[p] : p \in DOMAIN visited}
    BY DEF Range
  <2>5. Len(visited) + 1 \in DOMAIN visited'
    BY <1>0, <1>2
  <2>6. Range(visited') = Range(visited) \cup {e}
    BY <1>0, <1>2, <2>2, <2>3, <2>4, <2>5
  <2>7. IsInjective(visited')
    BY <1>0, <1>2, <2>1, <2>2 DEF IsInjective
  <2> QED
    BY <2>6, <2>7
<1>4. TableTypeOK'
  BY <1>0, <1>1, <1>2, <1>3 DEF TableInv, TableTypeOK
<1>5. /\ \A x, y : Newer(x, y)' <=> Newer(x, y)
      /\ Kept' = Kept /\ \A x : IndexOf(x)' = IndexOf(x)
  BY IndexStays DEF Newer, Kept
<1>6. Chained'
  BY DEF TableInv, Chained, NewestOf, Mates, After, Newer, Kept, IndexOf, ComputeIndex, fMask
<1>7. UpTo(fCurrent)' = UpTo(e)
  BY <1>1, <1>5 DEF UpTo
<1>8. visited' # <<>>
  BY <1>0, <1>1
<1>9. Visiting'
  BY <1>0, <1>1, <1>3, <1>5, <1>7, <1>8 DEF Visiting
<1> QED
  BY <1>4, <1>6, <1>9 DEF TableInv

(* ... or, when it has been everywhere before an index, on the first of    *)
(* the next chain, or nowhere.                                             *)
LEMMA NextChainStep ==
  ASSUME TableAssumption, TableInv, NEW from \in 0 .. fSize, NextChain(from),
         UNCHANGED <<fSize, hashKey, fHashTable, fNextHashEntry, fNumEntries, newest>>,
         Range(visited) = {y \in Kept : IndexOf(y) < from}
  PROVE  TableInv'
<1>0. /\ TableOK /\ Kept \subseteq Entries /\ Nothing \notin Entries
      /\ \A y \in Kept : IndexOf(y) \in 0 .. fSize - 1 /\ y \in Mates(IndexOf(y))
      /\ fSize \in Nat \ {0}
  BY NewerIsOrder, IndexInTable DEF TableInv, TableOK, TableAssumption, TableTypeOK, Mates
<1>1. CASE Chains(from) = {}
  <2>1. fIndex' = fSize /\ fCurrent' = Nothing /\ visited' = visited
    BY <1>1 DEF NextChain, StandsOn
  <2>2. \A y \in Kept : IndexOf(y) < from
    <3> SUFFICES ASSUME NEW y \in Kept, ~ IndexOf(y) < from PROVE FALSE
      OBVIOUS
    <3>1. IndexOf(y) \in from .. fSize - 1
      BY <1>0
    <3>2. fHashTable[IndexOf(y)] = Nothing
      BY <1>1, <3>1 DEF Chains
    <3> QED
      BY <1>0, <3>2, ChainBegins
  <2>3. Range(visited) = Kept
    BY <2>2
  <2>4. TableTypeOK'
    BY <1>0, <2>1 DEF TableInv, TableTypeOK
  <2>5. Chained'
    BY DEF TableInv, Chained, NewestOf, Mates, After, Newer, Kept, IndexOf, ComputeIndex, fMask
  <2>6. Visiting'
    BY <2>1, <2>3 DEF Visiting, Kept
  <2> QED
    BY <2>4, <2>5, <2>6 DEF TableInv
<1>2. CASE Chains(from) # {}
  <2> DEFINE i == CHOOSE i \in Chains(from) : \A j \in Chains(from) : i <= j
             e == fHashTable[i]
  <2>1. Chains(from) \in SUBSET Nat /\ Chains(from) \subseteq from .. fSize - 1
    BY <1>0 DEF Chains
  <2>2. i \in Chains(from) /\ \A j \in Chains(from) : i <= j
    BY <1>2, <2>1, L!LeastExists
  <2>3. StandsOn(i, e)
    BY <1>2 DEF NextChain
  <2> HIDE DEF i
  <2>4. /\ i \in from .. fSize - 1 /\ i \in 0 .. fSize - 1 /\ i \in 0 .. fSize
        /\ e # Nothing
    BY <1>0, <2>1, <2>2 DEF Chains
  <2>5. /\ e \in Kept /\ IndexOf(e) = i /\ e \notin After(e)
        /\ Mates(i) = After(e) \cup {e}
    BY <1>0, <2>4, ChainBegins
  <2> HIDE DEF e
  <2>6. e \notin Range(visited)
    BY <1>0, <2>4, <2>5
  <2>7. UpTo(e) = Range(visited) \cup {e}
    <3>1. ASSUME NEW y \in Kept, IndexOf(y) < i PROVE IndexOf(y) < from
      <4> SUFFICES ASSUME ~ IndexOf(y) < from PROVE FALSE
        OBVIOUS
      <4>1. IndexOf(y) \in from .. fSize - 1
        BY <1>0
      <4>2. IndexOf(y) \notin Chains(from)
        BY <1>0, <2>2, <2>4, <3>1
      <4>3. fHashTable[IndexOf(y)] = Nothing
        BY <4>1, <4>2 DEF Chains
      <4> QED
        BY <1>0, <4>3, ChainBegins
    <3>2. ASSUME NEW y \in Kept, IndexOf(y) = i, Newer(y, e) PROVE FALSE
      <4>1. y \in After(e) \cup {e}
        BY <2>5, <3>2 DEF Mates
      <4> QED
        BY <1>0, <3>2, <4>1, NewerIsOrder DEF After, TableOK
    <3>3. \A y \in Kept : IndexOf(y) < from => IndexOf(y) < i
      BY <1>0, <2>4
    <3> QED
      BY <2>5, <3>1, <3>2, <3>3 DEF UpTo
  <2> QED
    BY <1>0, <2>3, <2>4, <2>5, <2>6, <2>7, StandsOnStep
<1> QED
  BY <1>1, <1>2

LEMMA FirstStep ==
  ASSUME TableAssumption, TableInv, First
  PROVE  TableInv'
<1>1. /\ 0 \in 0 .. fSize /\ NextChain(0) /\ visited = <<>>
      /\ UNCHANGED <<fSize, hashKey, fHashTable, fNextHashEntry, fNumEntries, newest>>
  BY DEF First, TableInv, TableTypeOK, TableAssumption
<1>2. Kept \subseteq Entries
  BY NewerIsOrder DEF TableInv
<1>3. \A y \in Kept : ~ IndexOf(y) < 0
  <2> SUFFICES ASSUME NEW y \in Kept PROVE ~ IndexOf(y) < 0
    OBVIOUS
  <2>1. IndexOf(y) \in 0 .. fSize - 1
    BY <1>2, IndexInTable DEF TableInv
  <2> QED
    BY <2>1
<1>4. Range(visited) = {}
  BY <1>1 DEF Range
<1>5. Range(visited) = {y \in Kept : IndexOf(y) < 0}
  BY <1>3, <1>4
<1> QED
  BY <1>1, <1>5, NextChainStep

LEMMA IterateStep ==
  ASSUME TableAssumption, TableInv, IterateOn
  PROVE  TableInv'
<1> DEFINE c == fCurrent
<1>0. /\ TableOK /\ Kept \subseteq Entries /\ Nothing \notin Entries /\ c # Nothing
      /\ c \in Kept /\ fIndex = IndexOf(c) /\ Range(visited) = UpTo(c)
      /\ UNCHANGED <<fSize, hashKey, fHashTable, fNextHashEntry, fNumEntries, newest>>
      /\ NextEntry
  BY NewerIsOrder DEF TableInv, TableOK, TableAssumption, IterateOn, Visiting
<1>1. IndexOf(c) \in 0 .. fSize - 1 /\ fIndex \in 0 .. fSize - 1 /\ fSize \in Nat
  BY <1>0, IndexInTable DEF TableOK, TableAssumption, TableTypeOK
<1>2. CASE fNextHashEntry[c] # Nothing
  <2> DEFINE n == fNextHashEntry[c]
  <2>1. StandsOn(fIndex, n)
    BY <1>0, <1>2 DEF NextEntry
  <2>2. /\ n \in Kept /\ Newer(c, n) /\ n \in After(c) /\ n \notin After(n)
        /\ IndexOf(n) = IndexOf(c)
        /\ After(c) = After(n) \cup {n}
    BY <1>0, <1>2, ChainGoesOn
  <2> HIDE DEF n, c
  <2>3. n \notin Range(visited)
    BY <1>0, <1>1, <2>2, NewerIsOrder DEF UpTo, TableOK
  <2>4. ASSUME NEW y \in Kept, IndexOf(y) = IndexOf(c)
        PROVE  Newer(y, n) <=> (y = c \/ Newer(y, c))
    <3>1. ASSUME Newer(y, n) PROVE y = c \/ Newer(y, c)
      <4> SUFFICES ASSUME Newer(c, y) PROVE FALSE
        BY <1>0, NewerIsOrder DEF TableOK
      <4>1. y \in After(n) \cup {n}
        BY <2>2, <2>4 DEF After, Mates
      <4> QED
        BY <1>0, <3>1, <4>1, NewerIsOrder DEF After, TableOK
    <3>2. ASSUME y = c \/ Newer(y, c) PROVE Newer(y, n)
      BY <1>0, <2>2, <3>2, NewerIsOrder DEF TableOK
    <3> QED
      BY <3>1, <3>2
  <2>5. UpTo(n) = Range(visited) \cup {n}
    <3>1. UpTo(n) = {y \in Kept : IndexOf(y) < IndexOf(c) \/ (IndexOf(y) = IndexOf(c) /\ (y = n \/ Newer(y, n)))}
      BY <2>2 DEF UpTo
    <3>2. UpTo(c) = {y \in Kept : IndexOf(y) < IndexOf(c) \/ (IndexOf(y) = IndexOf(c) /\ (y = c \/ Newer(y, c)))}
      BY DEF UpTo
    <3> QED
      BY <1>0, <2>2, <2>4, <3>1, <3>2
  <2> QED
    BY <1>0, <1>1, <2>1, <2>2, <2>3, <2>5, StandsOnStep
<1>3. CASE fNextHashEntry[c] = Nothing
  <2>1. NextChain(fIndex + 1) /\ fIndex + 1 \in 0 .. fSize
    BY <1>0, <1>1, <1>3 DEF NextEntry
  <2>2. After(c) = {}
    BY <1>0, <1>3, ChainGoesOn
  <2>3. \A y \in Kept : IndexOf(y) \in Int
    <3> SUFFICES ASSUME NEW y \in Kept PROVE IndexOf(y) \in Int
      OBVIOUS
    <3>1. IndexOf(y) \in 0 .. fSize - 1
      BY <1>0, IndexInTable DEF TableOK
    <3> QED
      BY <3>1
  <2>4. \A y \in Kept : IndexOf(y) = IndexOf(c) => y = c \/ Newer(y, c)
    BY <1>0, <2>2, NewerIsOrder DEF After, Mates, TableOK
  <2> HIDE DEF c
  <2>5. Range(visited) = {y \in Kept : IndexOf(y) < fIndex + 1}
    <3>1. \A y \in Kept : IndexOf(y) < fIndex + 1 <=> IndexOf(y) < IndexOf(c) \/ IndexOf(y) = IndexOf(c)
      BY <1>0, <1>1, <2>3
    <3> QED
      BY <1>0, <2>4, <3>1 DEF UpTo
  <2> QED
    BY <1>0, <2>1, <2>5, NextChainStep
<1> QED
  BY <1>2, <1>3

-----------------------------------------------------------------------------
(* The invariant: of an empty table, and of every step.                    *)
LEMMA TableInvInit == ASSUME TableAssumption PROVE TableInit => TableInv
<1> SUFFICES ASSUME TableInit PROVE TableInv
  OBVIOUS
<1>1. PICK size \in Sizes, key \in [Entries -> HashKeys] : Empty(size, key)
  BY DEF TableInit
<1>2. /\ newest = <<>> /\ visited = <<>> /\ Kept = {} /\ Range(visited) = {}
      /\ fSize = size /\ fSize \in Nat \ {0}
  BY <1>1 DEF Empty, Kept, Range, TableAssumption
<1>3. TableTypeOK
  BY <1>1, <1>2 DEF Empty, TableTypeOK, IsInjective
<1>4. Chained
  BY <1>1, <1>2 DEF Empty, Chained, NewestOf, Mates
<1>5. Visiting
  BY <1>1, <1>2 DEF Empty, Visiting
<1> QED
  BY <1>3, <1>4, <1>5 DEF TableInv

LEMMA TableInvStep ==
  ASSUME TableAssumption PROVE TableInv /\ [TableNext]_tableVars => TableInv'
<1> SUFFICES ASSUME TableInv, [TableNext]_tableVars PROVE TableInv'
  OBVIOUS
<1>0. TableOK
  BY DEF TableInv, TableOK, TableAssumption
<1>1. ASSUME NEW e \in Entries, Add(e) \/ RemoveEntry(e) PROVE TableInv'
  <2>1. TableTypeOK' /\ Chained'
    BY <1>0, <1>1, AddStep, RemoveStep
  <2>2. visited = <<>> /\ UNCHANGED <<fCurrent, fIndex, visited>>
    BY <1>1 DEF Add, RemoveEntry, iterVars
  <2>3. Visiting'
    BY <2>2 DEF TableInv, Visiting
  <2> QED
    BY <2>1, <2>3 DEF TableInv
<1>2. ASSUME IterationOver PROVE TableInv'
  <2>1. /\ UNCHANGED <<fSize, hashKey, fHashTable, fNextHashEntry, fNumEntries, fCurrent, newest>>
        /\ visited' = <<>> /\ fIndex' = 0 /\ fCurrent = Nothing
    BY <1>2 DEF IterationOver
  <2>2. TableTypeOK'
    BY <2>1 DEF TableInv, TableTypeOK, TableAssumption, IsInjective
  <2>3. Chained'
    BY <2>1 DEF TableInv, Chained, NewestOf, Mates, After, Newer, Kept, IndexOf, ComputeIndex, fMask
  <2>4. Visiting'
    BY <2>1 DEF Visiting
  <2> QED
    BY <2>2, <2>3, <2>4 DEF TableInv
<1>3. ASSUME UNCHANGED tableVars PROVE TableInv'
  BY <1>3 DEF tableVars, TableInv, TableTypeOK, Chained, Visiting, UpTo, NewestOf, Mates, After, Newer, Kept,
     IndexOf, ComputeIndex, fMask
<1> QED
  BY <1>1, <1>2, <1>3, FirstStep, IterateStep DEF TableNext

(* What is newest is in the least place.                                   *)
LEMMA NewestIsLeast ==
  ASSUME TableOK, NEW some \in SUBSET Kept, NEW x, NewestOf(x, some), some # {}
  PROVE  \E p \in DOMAIN newest :
           /\ newest[p] = x /\ x \in some
           /\ \A q \in DOMAIN newest : newest[q] \in some => p <= q
<1>1. /\ DOMAIN newest = 1 .. Len(newest) /\ Len(newest) \in Nat
      /\ \A p, q \in DOMAIN newest : newest[p] = newest[q] => p = q
      /\ x \in some /\ \A y \in some : x = y \/ Newer(x, y)
  BY DEF TableOK, TableTypeOK, IsInjective, NewestOf
<1>2. PICK p \in DOMAIN newest : newest[p] = x
  BY <1>1 DEF Kept, Range
<1>3. ASSUME NEW q \in DOMAIN newest, newest[q] \in some PROVE p <= q
  <2>1. CASE x = newest[q]
    BY <1>1, <1>2, <2>1
  <2>2. CASE Newer(x, newest[q])
    BY <1>1, <1>2, <2>2 DEF Newer
  <2> QED
    BY <1>1, <1>3, <2>1, <2>2
<1> QED
  BY <1>1, <1>2, <1>3

(* A sequence without repetitions has as many places as elements.          *)
LEMMA PlacesCount ==
  ASSUME NEW s \in Seq(Entries), IsInjective(s)
  PROVE  Len(s) = Cardinality(Range(s))
<1>1. Len(s) \in Nat /\ DOMAIN s = 1 .. Len(s)
  OBVIOUS
<1>2. s \in [1 .. Len(s) -> Range(s)] /\ \A x \in Range(s) : \E i \in 1 .. Len(s) : s[i] = x
  BY <1>1 DEF Range
<1>3. s \in Bijection(1 .. Len(s), Range(s))
  BY <1>1, <1>2 DEF Bijection, Injection, Surjection, IsInjective
<1>4. IsFiniteSet(1 .. Len(s)) /\ Cardinality(1 .. Len(s)) = Len(s)
  BY <1>1, FS_Interval
<1> QED
  BY <1>3, <1>4, FS_Bijection DEF ExistsBijection

LEMMA TableInvImplies == ASSUME TableAssumption PROVE TableInv => TableRight
<1> SUFFICES ASSUME TableInv PROVE TableRight
  OBVIOUS
<1>0. TableOK /\ Kept \subseteq Entries
  BY NewerIsOrder DEF TableInv, TableOK, TableAssumption
<1>1. ASSUME NEW key \in HashKeys
      PROVE  LET having == {p \in DOMAIN newest : hashKey[newest[p]] = key}
             IN IF having = {} THEN Map(key) = Nothing
                ELSE \E p \in having : Map(key) = newest[p] /\ \A q \in having : p <= q
  <2> DEFINE having == {p \in DOMAIN newest : hashKey[newest[p]] = key}
             i == ComputeIndex(key)
             alike == {e \in Entries : hashKey[e] = key}
  <2>1. i \in 0 .. fSize - 1
    <3>1. fSize \in Nat \ {0} /\ key \in Nat /\ BitAnd(key, fSize - 1) \in 0 .. fSize - 1
      BY <1>0 DEF TableAssumption, TableOK, TableTypeOK
    <3>2. key % fSize \in 0 .. fSize - 1
      BY <3>1
    <3> QED
      BY <3>1, <3>2 DEF ComputeIndex, fMask
  <2>2. Mates(i) \cap alike = {x \in Kept : hashKey[x] = key}
    BY <1>0 DEF Mates, IndexOf
  <2>3. NewestOf(Map(key), Mates(i) \cap alike)
    <3>1. Map(key) = Walk(fHashTable[i], alike)
      BY DEF Map
    <3> HIDE DEF i, alike
    <3> QED
      BY <1>0, <2>1, <3>1, WalkIsRight
  <2> DEFINE some == {x \in Kept : hashKey[x] = key}
  <2>4. NewestOf(Map(key), some)
    BY <2>2, <2>3
  <2>5. \A p \in DOMAIN newest : newest[p] \in Kept
    BY DEF Kept, Range
  <2>6. CASE having = {}
    <3>1. some = {}
      BY <2>6 DEF Kept, Range
    <3>2. Map(key) = Nothing
      BY <2>4, <3>1 DEF NewestOf
    <3> QED
      BY <2>6, <3>2
  <2>7. CASE having # {}
    <3>1. some # {} /\ some \in SUBSET Kept
      BY <2>5, <2>7
    <3>2. PICK p \in DOMAIN newest :
            /\ newest[p] = Map(key) /\ Map(key) \in some
            /\ \A q \in DOMAIN newest : newest[q] \in some => p <= q
      <4> HIDE DEF some
      <4> QED
        BY <1>0, <2>4, <3>1, NewestIsLeast
    <3>3. p \in having /\ \A q \in having : p <= q
      BY <2>5, <3>2
    <3> QED
      BY <2>7, <3>2, <3>3
  <2> QED
    BY <2>6, <2>7
<1>2. MapFindsNewest
  BY <1>1 DEF MapFindsNewest
<1>3. VisitsAll
  <2> SUFFICES ASSUME fCurrent = Nothing, visited # <<>>
               PROVE  Len(visited) = Len(newest) /\ Range(visited) = Range(newest)
    BY DEF VisitsAll
  <2>1. Range(visited) = Kept
    BY DEF TableInv, Visiting
  <2>2. Len(visited) = Cardinality(Kept)
    BY <2>1, PlacesCount DEF TableInv, TableTypeOK
  <2>3. Len(newest) = Cardinality(Kept)
    BY PlacesCount DEF TableInv, TableTypeOK, Kept
  <2> QED
    BY <2>1, <2>2, <2>3 DEF Kept
<1> QED
  BY <1>2, <1>3 DEF TableRight, TableInv, TableTypeOK

(* The table is right after any calls, for any entries, sizes and keys:    *)
(* its count is how many are in it, Map returns the one of the key that    *)
(* was added last (OSHashTable.h:44), and the iterator visits every entry  *)
(* once.                                                                   *)
THEOREM TableAlwaysRight ==
  ASSUME TableAssumption PROVE TableSpec => []TableRight
<1>1. TableInit => TableInv
  BY TableInvInit
<1>2. TableInv /\ [TableNext]_tableVars => TableInv'
  BY TableInvStep
<1>3. TableInv => TableRight
  BY TableInvImplies
<1> QED
  BY <1>1, <1>2, <1>3, PTL DEF TableSpec

-----------------------------------------------------------------------------
(* The string parser                                                       *)

(* The cursor is in the text, which memory has until it is squeezed, and   *)
(* the line is counted from the start of the text to the cursor ...        *)
Counted(p) == {a \in 0 .. p - 1 : CountedAt(a)}
Ended(p) == {a \in 0 .. p - 1 : EndsIn(a)}
Strings == [Ptr : Nat \cup {NULL}, Len : Nat]
CursorInv ==
  /\ disturbed \in BOOLEAN /\ text \in Seq(Byte) /\ token \in Strings
  /\ \/ fStartGet = NULL /\ fEndGet = NULL
     \/ /\ fEndGet = Len(text) /\ fStartGet \in 0 .. Len(text)
        /\ ~ disturbed => \A a \in 0 .. Len(text) - 1 : mem[a] = text[a + 1]
        /\ ~ disturbed => fCurLineNumber = 1 + Cardinality(Counted(fStartGet))

(* ... and while only lines were read, the cursor is behind a line.        *)
Plain(p) == {a \in 0 .. p - 1 : text[a + 1] \notin sEOLMask}
LinesInv ==
  /\ lines \in Seq(Seq(Byte))
  /\ lines # <<>> =>
       /\ fStartGet # NULL /\ fStartGet # 0 /\ ~ disturbed
       /\ fStartGet < fEndGet => text[fStartGet] \in sEOLMask
       /\ \A i \in DOMAIN lines : Range(lines[i]) \cap sEOLMask = {}
       /\ Total(lines) = Cardinality(Plain(fStartGet))
       /\ Len(lines) = Cardinality(Ended(fStartGet))
                         + (IF text[fStartGet] \in sEOLMask THEN 0 ELSE 1)

StringInv == CursorInv /\ LinesInv

-----------------------------------------------------------------------------
(* The sum of the lengths of the lines is defined by recursion: that the   *)
(* function exists, and is one, are inductions.                            *)
IsSum(f, s, n) == f = [i \in 0 .. n |-> IF i = 0 THEN 0 ELSE f[i - 1] + Len(s[i])]

LEMMA SumExists ==
  ASSUME NEW S, NEW s \in Seq(Seq(S))
  PROVE  \E f \in [0 .. Len(s) -> Nat] : IsSum(f, s, Len(s))
<1> DEFINE n == Len(s)
           T == {k \in 0 .. n : \E f \in [0 .. k -> Nat] : IsSum(f, s, k)}
<1>0. n \in Nat /\ \A i \in 1 .. n : Len(s[i]) \in Nat
  OBVIOUS
<1>1. 0 \in T
  <2> DEFINE f == [i \in 0 .. 0 |-> 0]
  <2>1. f \in [0 .. 0 -> Nat]
    OBVIOUS
  <2>2. f = [i \in 0 .. 0 |-> IF i = 0 THEN 0 ELSE f[i - 1] + Len(s[i])]
    OBVIOUS
  <2> HIDE DEF f
  <2> QED
    BY <1>0, <2>1, <2>2 DEF IsSum
<1>2. ASSUME NEW k \in 0 .. n, k \in T, k < n PROVE k + 1 \in T
  <2>1. PICK f \in [0 .. k -> Nat] : IsSum(f, s, k)
    BY <1>2
  <2>2. \A i \in 0 .. k : f[i] = IF i = 0 THEN 0 ELSE f[i - 1] + Len(s[i])
    BY <2>1 DEF IsSum
  <2> DEFINE g == [i \in 0 .. k + 1 |-> IF i = k + 1 THEN f[k] + Len(s[k + 1]) ELSE f[i]]
  <2>3. g \in [0 .. k + 1 -> Nat]
    <3>1. \A i \in 0 .. k + 1 : i = k + 1 \/ i \in 0 .. k
      BY <1>0
    <3>2. f[k] + Len(s[k + 1]) \in Nat
      BY <1>0, <1>2
    <3> QED
      BY <3>1, <3>2
  <2>4. ASSUME NEW i \in 0 .. k + 1 PROVE g[i] = IF i = 0 THEN 0 ELSE g[i - 1] + Len(s[i])
    <3>1. CASE i = k + 1
      BY <1>0, <1>2, <3>1
    <3>2. CASE i # k + 1
      <4>1. i \in 0 .. k /\ (i # 0 => i - 1 \in 0 .. k + 1 /\ i - 1 # k + 1)
        BY <1>0, <1>2, <3>2
      <4> QED
        BY <2>2, <3>2, <4>1
    <3> QED
      BY <3>1, <3>2
  <2>5. g = [i \in 0 .. k + 1 |-> g[i]]
    OBVIOUS
  <2> HIDE DEF g
  <2>6. IsSum(g, s, k + 1)
    BY <2>4, <2>5 DEF IsSum
  <2>7. k + 1 \in 0 .. n
    BY <1>0, <1>2
  <2> QED
    BY <2>3, <2>6, <2>7
<1>3. n \in T
  <2>1. \A k \in 0 .. n : k \in T /\ k < n => k + 1 \in T
    BY <1>2
  <2> HIDE DEF T, n
  <2>2. 0 \in Int /\ n \in Int /\ n \in 0 .. n
    BY <1>0
  <2>3. 0 .. n \subseteq T
    BY <1>1, <2>1, <2>2, L!IntervalInduction, Zenon
  <2> QED
    BY <2>2, <2>3
<1> QED
  BY <1>3

LEMMA SumIsOne ==
  ASSUME NEW s, NEW n \in Nat, NEW f, IsSum(f, s, n), NEW g, IsSum(g, s, n)
  PROVE  f = g
<1>1. /\ f = [i \in 0 .. n |-> f[i]] /\ g = [i \in 0 .. n |-> g[i]]
      /\ \A i \in 0 .. n : f[i] = IF i = 0 THEN 0 ELSE f[i - 1] + Len(s[i])
      /\ \A i \in 0 .. n : g[i] = IF i = 0 THEN 0 ELSE g[i - 1] + Len(s[i])
  BY DEF IsSum
<1> DEFINE T == {i \in 0 .. n : f[i] = g[i]}
<1>2. 0 \in T
  <2>1. 0 \in 0 .. n
    OBVIOUS
  <2>2. f[0] = 0 /\ g[0] = 0
    BY <1>1, <2>1
  <2> QED
    BY <2>1, <2>2
<1>3. ASSUME NEW i \in 0 .. n, i \in T, i < n PROVE i + 1 \in T
  <2>1. i + 1 \in 0 .. n /\ i + 1 # 0 /\ (i + 1) - 1 = i /\ f[i] = g[i]
    BY <1>3
  <2>2. f[i + 1] = f[i] + Len(s[i + 1])
    BY <1>1, <2>1
  <2>3. g[i + 1] = g[i] + Len(s[i + 1])
    BY <1>1, <2>1
  <2> QED
    BY <2>1, <2>2, <2>3
<1>4. 0 .. n \subseteq T
  <2>1. \A i \in 0 .. n : i \in T /\ i < n => i + 1 \in T
    BY <1>3
  <2>2. 0 \in Int /\ n \in Int
    OBVIOUS
  <2> HIDE DEF T
  <2> QED
    BY <1>2, <2>1, <2>2, L!IntervalInduction, Zenon
<1> QED
  BY <1>1, <1>4

LEMMA TotalIs ==
  ASSUME NEW S, NEW s \in Seq(Seq(S)), NEW f, IsSum(f, s, Len(s))
  PROVE  Total(s) = f[Len(s)]
<1> DEFINE g == CHOOSE h : IsSum(h, s, Len(s))
<1>1. Total(s) = g[Len(s)]
  BY DEF Total, IsSum
<1>2. IsSum(g, s, Len(s))
  OBVIOUS
<1>3. g = f
  <2> HIDE DEF g
  <2> QED
    BY <1>2, SumIsOne
<1> QED
  BY <1>1, <1>3

LEMMA TotalOfMore ==
  ASSUME NEW S, NEW s \in Seq(Seq(S)), NEW l \in Seq(S)
  PROVE  /\ Total(s) \in Nat /\ (s = <<>> => Total(s) = 0)
         /\ Total(Append(s, l)) = Total(s) + Len(l)
<1> DEFINE n == Len(s)
           t == Append(s, l)
<1>0. /\ n \in Nat /\ t \in Seq(Seq(S)) /\ Len(t) = n + 1 /\ t[n + 1] = l
      /\ \A i \in 1 .. n : t[i] = s[i]
  OBVIOUS
<1>1. PICK f \in [0 .. n -> Nat] : IsSum(f, s, n)
  BY SumExists
<1>2. PICK g \in [0 .. Len(t) -> Nat] : IsSum(g, t, Len(t))
  <2> HIDE DEF t
  <2> QED
    BY <1>0, SumExists
<1>3. Total(s) = f[n] /\ Total(t) = g[n + 1]
  <2>1. Total(s) = f[n]
    BY <1>1, TotalIs
  <2>2. Total(t) = g[Len(t)]
    <3> HIDE DEF t
    <3> QED
      BY <1>0, <1>2, TotalIs
  <2> QED
    BY <1>0, <2>1, <2>2
<1> HIDE DEF t
<1>4. /\ \A i \in 0 .. n : f[i] = IF i = 0 THEN 0 ELSE f[i - 1] + Len(s[i])
      /\ \A i \in 0 .. n + 1 : g[i] = IF i = 0 THEN 0 ELSE g[i - 1] + Len(t[i])
  BY <1>0, <1>1, <1>2 DEF IsSum
<1> DEFINE h == [i \in 0 .. n |-> g[i]]
<1>5. IsSum(h, s, n)
  <2>1. ASSUME NEW i \in 0 .. n PROVE h[i] = IF i = 0 THEN 0 ELSE h[i - 1] + Len(s[i])
    <3>1. i \in 0 .. n + 1 /\ (i # 0 => i - 1 \in 0 .. n /\ i \in 1 .. n)
      BY <1>0
    <3> QED
      BY <1>0, <1>4, <3>1
  <2> HIDE DEF h
  <2>2. h = [i \in 0 .. n |-> h[i]]
    BY DEF h
  <2> QED
    BY <2>1, <2>2 DEF IsSum
<1>6. h = f
  <2> HIDE DEF h
  <2> QED
    BY <1>0, <1>1, <1>5, SumIsOne
<1>7. g[n] = f[n]
  BY <1>0, <1>6
<1>8. g[n + 1] = g[n] + Len(l)
  <2>1. n + 1 \in 0 .. n + 1 /\ n + 1 # 0 /\ (n + 1) - 1 = n
    BY <1>0
  <2> QED
    BY <1>0, <1>4, <2>1
<1>9. s = <<>> => Total(s) = 0
  <2>1. s = <<>> => n = 0
    OBVIOUS
  <2>2. f[0] = 0
    BY <1>0, <1>4
  <2> QED
    BY <1>3, <2>1, <2>2
<1> QED
  BY <1>0, <1>3, <1>7, <1>8, <1>9 DEF t

-----------------------------------------------------------------------------
(* Where a run of characters ends: in the text, and at a stop if not at    *)
(* the end of it.                                                          *)
LEMMA RunIs ==
  ASSUME fEndGet \in Int, NEW a \in Int, a <= fEndGet, NEW stop
  PROVE  /\ RunFrom(a, stop) \in Nat /\ a + RunFrom(a, stop) <= fEndGet
         /\ \A i \in a .. a + RunFrom(a, stop) - 1 : mem[i] \notin stop
         /\ a + RunFrom(a, stop) < fEndGet => mem[a + RunFrom(a, stop)] \in stop
<1> DEFINE at == {i \in a .. fEndGet - 1 : mem[i] \in stop}
<1>1. CASE at = {}
  <2>1. RunFrom(a, stop) = fEndGet - a
    BY <1>1 DEF RunFrom
  <2>2. \A i \in a .. fEndGet - 1 : mem[i] \notin stop
    BY <1>1
  <2> QED
    BY <2>1, <2>2
<1>2. CASE at # {}
  <2> DEFINE m == CHOOSE i \in at : \A j \in at : i <= j
             D == {i - a : i \in at}
  <2>1. D \in SUBSET Nat /\ D # {}
    <3>1. \A i \in at : i - a \in Nat
      OBVIOUS
    <3> QED
      BY <1>2, <3>1
  <2>2. PICK d \in D : \A e \in D : d <= e
    BY <2>1, L!LeastExists
  <2>3. PICK l \in at : d = l - a
    BY <2>2
  <2>4. \A j \in at : l <= j
    <3> SUFFICES ASSUME NEW j \in at PROVE l <= j
      OBVIOUS
    <3>1. d <= j - a /\ l \in Int /\ j \in Int
      BY <2>2
    <3> QED
      BY <2>3, <3>1
  <2>5. m \in at /\ \A j \in at : m <= j
    BY <2>3, <2>4
  <2>6. RunFrom(a, stop) = m - a
    BY <1>2 DEF RunFrom
  <2>7. m \in a .. fEndGet - 1 /\ mem[m] \in stop
    BY <2>5
  <2>8. \A i \in a .. fEndGet - 1 : i < m => mem[i] \notin stop
    <3> SUFFICES ASSUME NEW i \in a .. fEndGet - 1, i < m, mem[i] \in stop PROVE FALSE
      OBVIOUS
    <3>1. i \in at
      OBVIOUS
    <3>2. m <= i
      BY <2>5, <3>1
    <3> QED
      BY <2>7, <3>2
  <2> HIDE DEF m, at
  <2> QED
    BY <2>6, <2>7, <2>8
<1> QED
  BY <1>1, <1>2

(* An end of line lies in the text.                                        *)
LEMMA EndIs ==
  ASSUME fEndGet \in Int, NEW a \in Int, a <= fEndGet
  PROVE  /\ EOLAt(a) \in 0 .. 2 /\ a + EOLAt(a) <= fEndGet
         /\ a = fEndGet => EOLAt(a) = 0
         /\ a < fEndGet /\ mem[a] \in sEOLMask => EOLAt(a) > 0
BY DEF EOLAt, IsChar, sEOLMask, cr, lf

(* Over the text as it was, AdvanceMark sees the ends that the text has,   *)
(* except one at its end whose "\n" lies behind it.                        *)
LEMMA EndsAlike ==
  ASSUME CursorInv, fStartGet # NULL, ~ disturbed, NEW a \in 0 .. Len(text) - 1
  PROVE  EndsLine(a) <=> CountedAt(a)
<1>1. /\ text \in Seq(Byte) /\ Len(text) \in Nat /\ DOMAIN text = 1 .. Len(text)
      /\ \A b \in 0 .. Len(text) - 1 : mem[b] = text[b + 1]
  BY DEF CursorInv
<1>2. mem[a] = text[a + 1] /\ a + 1 \in DOMAIN text
  BY <1>1
<1>3. CASE a + 1 < Len(text)
  <2>1. a + 1 \in 0 .. Len(text) - 1 /\ a + 2 \in DOMAIN text /\ (a + 1) + 1 = a + 2
    BY <1>1, <1>3
  <2>2. mem[a + 1] = text[a + 2]
    BY <1>1, <2>1
  <2> QED
    BY <1>2, <1>3, <2>1, <2>2 DEF EndsLine, EndsIn, CountedAt
<1>4. CASE a + 1 = Len(text)
  <2>1. a + 2 \notin DOMAIN text /\ text # <<>>
    BY <1>1, <1>4
  <2>2. EndIsSeen <=> text[a + 1] # cr \/ mem[a + 1] # lf
    BY <1>4, <2>1 DEF EndIsSeen
  <2> QED
    BY <1>2, <1>4, <2>1, <2>2 DEF EndsLine, EndsIn, CountedAt, cr, lf
<1>5. a + 1 < Len(text) \/ a + 1 = Len(text)
  <2>1. Len(text) \in Nat
    BY <1>1
  <2> QED
    BY <2>1
<1> QED
  BY <1>3, <1>4, <1>5, Zenon

(* The members of a set of places before a place, and from there on.       *)
LEMMA PlacesMore ==
  ASSUME NEW S, NEW p \in Nat, NEW n \in Nat
  PROVE  LET low  == (0 .. p - 1) \cap S
             more == (p .. p + n - 1) \cap S IN
         /\ IsFiniteSet(low) /\ IsFiniteSet(more)
         /\ Cardinality(low) \in Nat /\ Cardinality(more) \in Nat
         /\ (0 .. p + n - 1) \cap S = low \cup more
         /\ Cardinality((0 .. p + n - 1) \cap S) = Cardinality(low) + Cardinality(more)
<1> DEFINE low  == (0 .. p - 1) \cap S
           more == (p .. p + n - 1) \cap S
<1>1. IsFiniteSet(low) /\ IsFiniteSet(more)
  <2>1. IsFiniteSet(0 .. p - 1) /\ IsFiniteSet(p .. p + n - 1)
    BY FS_Interval
  <2>2. low \subseteq 0 .. p - 1 /\ more \subseteq p .. p + n - 1
    OBVIOUS
  <2> QED
    BY <2>1, <2>2, FS_Subset
<1>2. low \cap more = {}
  OBVIOUS
<1>3. (0 .. p + n - 1) \cap S = low \cup more
  <2>1. \A a : a \in 0 .. p + n - 1 <=> a \in 0 .. p - 1 \/ a \in p .. p + n - 1
    OBVIOUS
  <2> QED
    BY <2>1
<1> HIDE DEF low, more
<1>4. Cardinality(low \cup more) = Cardinality(low) + Cardinality(more)
  <2>1. Cardinality(low \cup more)
          = Cardinality(low) + Cardinality(more) - Cardinality(low \cap more)
    BY <1>1, FS_Union, Zenon
  <2>2. Cardinality(low \cap more) = 0
    BY <1>2, FS_EmptySet, Zenon
  <2>3. Cardinality(low) \in Nat /\ Cardinality(more) \in Nat
    BY <1>1, FS_CardinalityType
  <2> QED
    BY <2>1, <2>2, <2>3
<1> QED
  BY <1>1, <1>3, <1>4, FS_CardinalityType DEF low, more

(* The lines that end before a place in the text, and those that end from  *)
(* there on to the next: all of them, and the ones that are counted.       *)
LEMMA EndedMore ==
  ASSUME NEW p \in Nat, NEW n \in Nat
  PROVE  LET more == {a \in p .. p + n - 1 : EndsIn(a)} IN
         /\ Cardinality(Ended(p)) \in Nat /\ Cardinality(more) \in Nat
         /\ Cardinality(Ended(p + n)) = Cardinality(Ended(p)) + Cardinality(more)
<1> DEFINE S == {a \in Int : EndsIn(a)}
<1>1. /\ Ended(p) = (0 .. p - 1) \cap S
      /\ Ended(p + n) = (0 .. p + n - 1) \cap S
      /\ {a \in p .. p + n - 1 : EndsIn(a)} = (p .. p + n - 1) \cap S
  BY DEF Ended
<1> HIDE DEF S
<1>2. /\ Cardinality((0 .. p - 1) \cap S) \in Nat
      /\ Cardinality((p .. p + n - 1) \cap S) \in Nat
      /\ Cardinality((0 .. p + n - 1) \cap S)
           = Cardinality((0 .. p - 1) \cap S) + Cardinality((p .. p + n - 1) \cap S)
  BY PlacesMore
<1> QED
  BY <1>1, <1>2

LEMMA CountedMore ==
  ASSUME NEW p \in Nat, NEW n \in Nat
  PROVE  LET more == {a \in p .. p + n - 1 : CountedAt(a)} IN
         /\ Cardinality(Counted(p)) \in Nat /\ Cardinality(more) \in Nat
         /\ Cardinality(Counted(p + n)) = Cardinality(Counted(p)) + Cardinality(more)
<1> DEFINE S == {a \in Int : CountedAt(a)}
<1>1. /\ Counted(p) = (0 .. p - 1) \cap S
      /\ Counted(p + n) = (0 .. p + n - 1) \cap S
      /\ {a \in p .. p + n - 1 : CountedAt(a)} = (p .. p + n - 1) \cap S
  BY DEF Counted
<1> HIDE DEF S
<1>2. /\ Cardinality((0 .. p - 1) \cap S) \in Nat
      /\ Cardinality((p .. p + n - 1) \cap S) \in Nat
      /\ Cardinality((0 .. p + n - 1) \cap S)
           = Cardinality((0 .. p - 1) \cap S) + Cardinality((p .. p + n - 1) \cap S)
  BY PlacesMore
<1> QED
  BY <1>1, <1>2

(* The greatest of some numbers up to a bound.                             *)
LEMMA MostIs ==
  ASSUME NEW n \in Nat, NEW T \in SUBSET (0 .. n), T # {}
  PROVE  Sets!Max(T) \in T /\ \A j \in T : j <= Sets!Max(T)
<1>1. PICK m \in T : \A j \in T : j <= m
  BY L!GreatestExists
<1>2. \A j \in T : m >= j
  BY <1>1
<1> QED
  BY <1>2 DEF Sets!Max

(* The bytes of a string are a sequence, whatever memory holds.            *)
LEMMA BytesAre ==
  ASSUME NEW m, NEW s, s.Len \in Nat
  PROVE  LET b == BytesOf(m, s) IN
         /\ b \in Seq(Range(b)) /\ Len(b) = s.Len /\ DOMAIN b = 1 .. s.Len
         /\ \A i \in 1 .. s.Len : b[i] = m[s.Ptr + i - 1]
<1> DEFINE n == s.Len
           b == BytesOf(m, s)
<1>1. /\ b = [i \in 1 .. n |-> m[s.Ptr + i - 1]] /\ DOMAIN b = 1 .. n
      /\ \A i \in 1 .. n : b[i] = m[s.Ptr + i - 1]
  BY DEF BytesOf
<1>2. b = [i \in 1 .. n |-> b[i]]
  BY <1>1
<1> HIDE DEF b
<1>3. \A i \in 1 .. n : b[i] \in Range(b)
  BY <1>1 DEF Range
<1>4. b \in [1 .. n -> Range(b)]
  BY <1>2, <1>3
<1>5. b \in Seq(Range(b)) /\ Len(b) = n
  <2> DEFINE R == Range(b)
  <2>1. b \in [1 .. n -> R] /\ n \in Nat
    BY <1>4
  <2> HIDE DEF R, n
  <2>2. b \in Seq(R) /\ Len(b) = n
    BY <2>1
  <2> QED
    BY <2>2 DEF R
<1> QED
  BY <1>1, <1>5 DEF b

(* What the caller does with a string leaves a string.                     *)
LEMMA TrimmedIs ==
  ASSUME NEW m, NEW s \in Strings, s.Ptr # NULL
  PROVE  TrimWhitespace(m, s) \in Strings
<1>1. ASSUME NEW t \in Strings, t.Ptr # NULL
      PROVE  LET u == TrimLeadingWhitespace(m, t) IN u \in Strings /\ u.Ptr # NULL
  <2> DEFINE b == BytesOf(m, t)
             T == {n \in 0 .. Len(b) : \A i \in 1 .. n : IsBlank(b[i])}
             k == Leading(b)
  <2>1. t.Ptr \in Nat /\ t.Len \in Nat
    BY <1>1 DEF Strings
  <2>2. Len(b) = t.Len
    BY <2>1, BytesAre
  <2> HIDE DEF b
  <2>3. T \in SUBSET (0 .. t.Len) /\ 0 \in T
    BY <2>1, <2>2
  <2>4. Sets!Max(T) \in T
    <3> HIDE DEF T
    <3> QED
      BY <2>1, <2>3, MostIs
  <2>5. k \in 0 .. t.Len
    BY <2>3, <2>4 DEF Leading
  <2> HIDE DEF k
  <2>6. Str(t.Ptr + k, t.Len - k) \in Strings /\ Str(t.Ptr + k, t.Len - k).Ptr # NULL
    BY <2>1, <2>5 DEF Str, Strings, NULL
  <2>7. \/ TrimLeadingWhitespace(m, t) = t
        \/ TrimLeadingWhitespace(m, t) = Str(t.Ptr + k, t.Len - k)
    BY DEF TrimLeadingWhitespace, k, b
  <2> QED
    BY <1>1, <2>6, <2>7
<1>2. ASSUME NEW t \in Strings, t.Ptr # NULL
      PROVE  TrimTrailingWhitespace(m, t) \in Strings
  <2> DEFINE b == BytesOf(m, t)
             T == {n \in 0 .. Len(b) : \A i \in Len(b) - n + 1 .. Len(b) : IsBlank(b[i])}
             k == Trailing(b)
  <2>1. t.Ptr \in Nat /\ t.Len \in Nat
    BY <1>2 DEF Strings
  <2>2. Len(b) = t.Len
    BY <2>1, BytesAre
  <2> HIDE DEF b
  <2>3. T \in SUBSET (0 .. t.Len) /\ 0 \in T
    BY <2>1, <2>2
  <2>4. Sets!Max(T) \in T
    <3> HIDE DEF T
    <3> QED
      BY <2>1, <2>3, MostIs
  <2>5. k \in 0 .. t.Len
    BY <2>3, <2>4 DEF Trailing
  <2> HIDE DEF k
  <2>6. Str(t.Ptr, t.Len - k) \in Strings
    BY <2>1, <2>5 DEF Str, Strings
  <2>7. \/ TrimTrailingWhitespace(m, t) = t
        \/ TrimTrailingWhitespace(m, t) = Str(t.Ptr, t.Len - k)
    BY DEF TrimTrailingWhitespace, k, b
  <2> QED
    BY <1>2, <2>6, <2>7
<1> QED
  BY <1>1, <1>2 DEF TrimWhitespace

(* The places that are kept, in order: there is one for each of them.      *)
LEMMA NthIs ==
  ASSUME NEW n \in Nat, NEW S \in SUBSET (1 .. n)
  PROVE  /\ IsFiniteSet(S) /\ Cardinality(S) \in Nat
         /\ \A k \in 1 .. Cardinality(S) : Nth(S, k) \in S
<1> DEFINE Upto(i) == {j \in S : j <= i}
<1>0. \A j \in S : j \in Int /\ 1 <= j /\ j <= n
  OBVIOUS
<1>1. IsFiniteSet(S) /\ Cardinality(S) \in Nat
  <2>1. IsFiniteSet(1 .. n)
    BY FS_Interval
  <2> QED
    BY <2>1, FS_Subset, FS_CardinalityType
<1>2. \A i : IsFiniteSet(Upto(i)) /\ Cardinality(Upto(i)) \in Nat
  <2> SUFFICES ASSUME NEW i PROVE IsFiniteSet(Upto(i)) /\ Cardinality(Upto(i)) \in Nat
    OBVIOUS
  <2>1. Upto(i) \subseteq S
    OBVIOUS
  <2> QED
    BY <1>1, <2>1, FS_Subset, FS_CardinalityType
<1>3. ASSUME NEW k \in 1 .. Cardinality(S) PROVE Nth(S, k) \in S
  <2> DEFINE T == {i \in 0 .. n : Cardinality(Upto(i)) >= k}
  <2>1. n \in T
    <3>1. Upto(n) = S
      BY <1>0
    <3> QED
      BY <1>1, <3>1
  <2>2. PICK m \in T : \A i \in T : m <= i
    <3>1. T \in SUBSET Nat
      OBVIOUS
    <3> HIDE DEF T
    <3> QED
      BY <2>1, <3>1, L!LeastExists
  <2>3. Upto(0) = {}
    <3>1. \A j \in S : ~ (j <= 0)
      BY <1>0
    <3> QED
      BY <3>1
  <2> HIDE DEF Upto
  <2>4. m # 0
    <3>1. Cardinality(Upto(m)) >= k /\ k >= 1
      BY <2>2
    <3> QED
      BY <2>3, <3>1, FS_EmptySet
  <2>5. m - 1 \in 0 .. n /\ m - 1 \notin T /\ m \in Nat
    <3>1. m \in 0 .. n
      BY <2>2
    <3>2. m - 1 \in 0 .. n /\ m \in Nat /\ ~ (m <= m - 1)
      BY <2>4, <3>1
    <3> HIDE DEF T
    <3> QED
      BY <2>2, <3>2
  <2>6. Cardinality(Upto(m - 1)) < k /\ Cardinality(Upto(m)) >= k
    BY <1>2, <2>2, <2>5
  <2> HIDE DEF T
  <2>7. Upto(m) = IF m \in S THEN Upto(m - 1) \cup {m} ELSE Upto(m - 1)
    <3>1. \A j \in S : j <= m <=> j <= m - 1 \/ j = m
      BY <1>0, <2>5
    <3> QED
      BY <1>0, <2>5, <3>1 DEF Upto
  <2>8. m \in S /\ m \notin Upto(m - 1)
    BY <1>2, <2>5, <2>6, <2>7 DEF Upto
  <2>9. Cardinality(Upto(m)) = Cardinality(Upto(m - 1)) + 1
    BY <1>2, <2>7, <2>8, FS_AddElement
  <2>10. Cardinality(Upto(m)) = k
    BY <1>2, <1>3, <2>6, <2>9
  <2>11. \E i \in S : Cardinality({j \in S : j <= i}) = k
    BY <2>8, <2>10 DEF Upto
  <2> QED
    BY <2>11 DEF Nth
<1> QED
  BY <1>1, <1>3

LEMMA SqueezedIs ==
  ASSUME NEW m, NEW s, s.Len \in Nat
  PROVE  LET left == Squeezed(m, s) IN
         /\ Len(left) \in Nat /\ DOMAIN left = 1 .. Len(left)
         /\ \A k \in DOMAIN left : \E i \in 1 .. s.Len : left[k] = m[s.Ptr + i - 1]
<1> DEFINE b == BytesOf(m, s)
           S == NotBlank(b)
           left == Squeezed(m, s)
           n == Cardinality(S)
<1>1. DOMAIN b = 1 .. s.Len /\ \A i \in 1 .. s.Len : b[i] = m[s.Ptr + i - 1]
  BY BytesAre
<1> HIDE DEF b
<1>2. S \in SUBSET (1 .. s.Len)
  BY <1>1 DEF NotBlank
<1> HIDE DEF S
<1>3. n \in Nat /\ \A k \in 1 .. n : Nth(S, k) \in S
  BY <1>2, NthIs
<1> HIDE DEF n
<1>4. left = [k \in 1 .. n |-> b[Nth(S, k)]]
  BY DEF Squeezed, b, S, n
<1> HIDE DEF left
<1>5. left \in [1 .. n -> {b[i] : i \in S}]
  BY <1>3, <1>4
<1>6. left \in Seq({b[i] : i \in S}) /\ Len(left) = n /\ DOMAIN left = 1 .. n
  BY <1>3, <1>5
<1>7. ASSUME NEW k \in DOMAIN left PROVE \E i \in 1 .. s.Len : left[k] = m[s.Ptr + i - 1]
  <2>1. left[k] = b[Nth(S, k)] /\ Nth(S, k) \in 1 .. s.Len
    BY <1>2, <1>3, <1>4, <1>6
  <2> QED
    BY <1>1, <2>1
<1> QED
  BY <1>3, <1>6, <1>7 DEF left

(* A call that consumes what lies in the text keeps the cursor in it and   *)
(* counts the lines that end in what it consumed.                          *)
LEMMA ConsumesKeeps ==
  ASSUME CursorInv, NEW n, NEW str, NEW val,
         ~ ParserIsEmpty => n \in Nat /\ fStartGet + n <= fEndGet /\ str \in Strings,
         Consumes(n, str, val)
  PROVE  CursorInv'
<1>0. token' \in Strings
  <2>1. NullString \in Strings
    BY DEF NullString, Strings
  <2> QED
    BY <2>1 DEF Consumes
<1>1. CASE ParserIsEmpty
  <2>1. UNCHANGED <<mem, fStartGet, fEndGet, fCurLineNumber, text, disturbed>>
    BY <1>1 DEF Consumes
  <2> QED
    BY <1>0, <1>1, <2>1 DEF CursorInv, ParserIsEmpty, NULL
<1>2. CASE ~ ParserIsEmpty
  <2>1. /\ fStartGet' = fStartGet + n /\ fCurLineNumber' = fCurLineNumber + LinesEnded(n)
        /\ UNCHANGED <<mem, fEndGet, text, disturbed>>
    BY <1>2 DEF Consumes, Advance
  <2>2. /\ disturbed \in BOOLEAN /\ text \in Seq(Byte) /\ Len(text) \in Nat
        /\ fEndGet = Len(text) /\ fStartGet \in 0 .. Len(text) /\ n \in Nat
        /\ fStartGet + n <= Len(text)
    BY <1>2 DEF CursorInv, ParserIsEmpty
  <2>3. ~ disturbed => \A a \in 0 .. Len(text) - 1 : mem[a] = text[a + 1]
    BY <1>2 DEF CursorInv, ParserIsEmpty
  <2>4. ASSUME ~ disturbed
        PROVE  fCurLineNumber' = 1 + Cardinality(Counted(fStartGet + n))
    <3> DEFINE more == {a \in fStartGet .. fStartGet + n - 1 : CountedAt(a)}
    <3>1. \A a \in fStartGet .. fStartGet + n - 1 : EndsLine(a) <=> CountedAt(a)
      <4> SUFFICES ASSUME NEW a \in fStartGet .. fStartGet + n - 1
                   PROVE  EndsLine(a) <=> CountedAt(a)
        OBVIOUS
      <4>1. a \in 0 .. Len(text) - 1
        BY <2>2
      <4> QED
        BY <1>2, <2>4, <4>1, EndsAlike DEF ParserIsEmpty
    <3>2. LinesEnded(n) = Cardinality(more)
      BY <3>1 DEF LinesEnded
    <3>3. fStartGet \in Nat
      BY <2>2
    <3>4. /\ Cardinality(Counted(fStartGet)) \in Nat /\ Cardinality(more) \in Nat
          /\ Cardinality(Counted(fStartGet + n))
                = Cardinality(Counted(fStartGet)) + Cardinality(more)
      BY <2>2, <3>3, CountedMore
    <3>5. fCurLineNumber = 1 + Cardinality(Counted(fStartGet))
      BY <1>2, <2>4 DEF CursorInv, ParserIsEmpty
    <3> HIDE DEF more
    <3> QED
      BY <2>1, <3>2, <3>4, <3>5
  <2>6. Counted(fStartGet)' = Counted(fStartGet + n)
    BY <2>1 DEF Counted, CountedAt, EndsIn, EndIsSeen
  <2>7. fStartGet' \in 0 .. Len(text)'
    BY <2>1, <2>2
  <2> QED
    BY <1>0, <2>1, <2>2, <2>3, <2>4, <2>6, <2>7 DEF CursorInv
<1> QED
  BY <1>1, <1>2

(* How far each of the calls that read numbers goes.                       *)
LEMMA DigitsAre ==
  ASSUME fEndGet \in Int, NEW a \in Int, a <= fEndGet
  PROVE  DigitsFrom(a) \in Nat /\ a + DigitsFrom(a) <= fEndGet
BY RunIs DEF DigitsFrom

LEMMA NPTReadStays ==
  ASSUME fEndGet \in Int, fStartGet \in Int, NEW p, NEW i,
         p.at \in Int, fStartGet <= p.at, p.at <= fEndGet
  PROVE  LET q == NPTRead(p, i) IN q.at \in Int /\ fStartGet <= q.at /\ q.at <= fEndGet
<1> DEFINE a == p.at + DigitsFrom(p.at)
<1>1. a \in Int /\ fStartGet <= a /\ a <= fEndGet
  BY DigitsAre
<1> HIDE DEF a
<1>2. CASE p.over
  BY <1>2 DEF NPTRead
<1>3. CASE ~ p.over /\ (NPTStops(a, i, p.hms) \/ ~ NPTGoesOn(a, i, p.hms))
  <2>1. NPTRead(p, i).at = a
    BY <1>3 DEF NPTRead, a
  <2> QED
    BY <1>1, <2>1
<1>4. CASE ~ p.over /\ ~ NPTStops(a, i, p.hms) /\ NPTGoesOn(a, i, p.hms)
  <2>1. NPTRead(p, i).at = a + 1
    BY <1>4 DEF NPTRead, a
  <2>2. a < fEndGet
    BY <1>1, <1>4 DEF NPTStops
  <2> QED
    BY <1>1, <2>1, <2>2
<1> QED
  BY <1>2, <1>3, <1>4

LEMMA NPTStays ==
  ASSUME fEndGet \in Int, fStartGet \in Int, fStartGet <= fEndGet
  PROVE  NPT.at - fStartGet \in Nat /\ fStartGet + (NPT.at - fStartGet) <= fEndGet
<1> DEFINE p0 == NPTBegins
           p1 == NPTRead(p0, 0)
           p2 == NPTRead(p1, 1)
           p3 == NPTRead(p2, 2)
           p4 == NPTRead(p3, 3)
<1>1. p0.at \in Int /\ fStartGet <= p0.at /\ p0.at <= fEndGet
  BY DEF NPTBegins
<1>2. NPT = p4
  BY DEF NPT
<1> HIDE DEF p0
<1>3. p1.at \in Int /\ fStartGet <= p1.at /\ p1.at <= fEndGet
  BY <1>1, NPTReadStays
<1> HIDE DEF p1
<1>4. p2.at \in Int /\ fStartGet <= p2.at /\ p2.at <= fEndGet
  BY <1>3, NPTReadStays
<1> HIDE DEF p2
<1>5. p3.at \in Int /\ fStartGet <= p3.at /\ p3.at <= fEndGet
  BY <1>4, NPTReadStays
<1> HIDE DEF p3
<1>6. p4.at \in Int /\ fStartGet <= p4.at /\ p4.at <= fEndGet
  BY <1>5, NPTReadStays
<1> HIDE DEF p4
<1> QED
  BY <1>2, <1>6

(* What the parser and its caller do keeps the cursor ...                  *)
LEMMA CursorStep ==
  ASSUME CursorInv, ParserNext
  PROVE  CursorInv'
<1>1. ~ ParserIsEmpty => fStartGet \in Int /\ fEndGet \in Int /\ fStartGet <= fEndGet
  BY DEF CursorInv, ParserIsEmpty
<1>0. token \in Strings /\ \A k \in Nat : ~ ParserIsEmpty => Consumed(k) \in Strings
  BY DEF CursorInv, ParserIsEmpty, Consumed, Str, Strings
<1>2. ASSUME NEW stop, ConsumeUntil(stop) PROVE CursorInv'
  <2> DEFINE n == RunFrom(fStartGet, stop)
  <2>1. Consumes(n, Consumed(n), <<>>)
    BY <1>2 DEF ConsumeUntil
  <2>2. ~ ParserIsEmpty => n \in Nat /\ fStartGet + n <= fEndGet
    BY <1>1, RunIs
  <2> HIDE DEF n
  <2> QED
    BY <1>0, <2>1, <2>2, ConsumesKeeps
<1>3. ASSUME NEW k \in {-1, 1, 2}, ConsumeLength(k) PROVE CursorInv'
  <2> DEFINE n == IF Left < k THEN Left ELSE k
  <2>1. /\ ~ ParserIsEmpty /\ fStartGet + n >= 0
        /\ IF n >= 0 THEN Consumes(n, Consumed(n), <<>>)
           ELSE /\ fStartGet' = fStartGet + n /\ token' = Str(fStartGet, LenSize + n)
                /\ disturbed' = TRUE
                /\ UNCHANGED <<mem, fEndGet, fCurLineNumber, text>>
    BY <1>3 DEF ConsumeLength
  <2>2. n \in Int /\ fStartGet + n <= fEndGet
    BY <1>1, <2>1 DEF Left
  <2> HIDE DEF n
  <2>3. CASE n >= 0
    BY <1>0, <2>1, <2>2, <2>3, ConsumesKeeps
  <2>4. CASE ~ (n >= 0)
    <3>1. /\ fStartGet' = fStartGet + n /\ disturbed' = TRUE /\ fEndGet' = fEndGet
          /\ text' = text /\ token' = Str(fStartGet, LenSize + n)
      BY <2>1, <2>4
    <3>2. text \in Seq(Byte) /\ fEndGet = Len(text)
      BY <2>1 DEF CursorInv, ParserIsEmpty
    <3>3. fStartGet + n \in 0 .. Len(text)
      BY <1>1, <2>1, <2>2, <3>2
    <3>4. n = -1
      BY <1>1, <1>3, <2>1, <2>2, <2>4 DEF Left, n
    <3>5. token' \in Strings
      <4>1. fStartGet \in Nat /\ LenSize + n \in Nat
        <5>1. fStartGet \in Int /\ LenSize \in Nat /\ LenSize # 0
          BY <1>1, <2>1, ParserAssumption
        <5> QED
          BY <2>1, <3>4, <5>1
      <4> QED
        BY <3>1, <4>1 DEF Str, Strings
    <3> QED
      BY <3>1, <3>2, <3>3, <3>5 DEF CursorInv
  <2> QED
    BY <2>3, <2>4
<1>4. ASSUME ConsumeInteger PROVE CursorInv'
  <2> DEFINE n == DigitsFrom(fStartGet)
  <2>1. PICK val : Consumes(n, Consumed(n), val)
    BY <1>4 DEF ConsumeInteger
  <2>2. ~ ParserIsEmpty => n \in Nat /\ fStartGet + n <= fEndGet
    BY <1>1, DigitsAre
  <2> HIDE DEF n
  <2> QED
    BY <1>0, <2>1, <2>2, ConsumesKeeps
<1>5. ASSUME ConsumeFloat PROVE CursorInv'
  <2> DEFINE whole == DigitsFrom(fStartGet)
             point == IF IsChar(fStartGet + whole, 46) THEN 1 ELSE 0
             behind == fStartGet + whole + point
             n == whole + point + DigitsFrom(behind)
  <2>1. ~ ParserIsEmpty /\ \E val : Consumes(n, token, val)
    BY <1>5 DEF ConsumeFloat
  <2>2. PICK val : Consumes(n, token, val)
    BY <2>1
  <2>3. whole \in Nat /\ fStartGet + whole <= fEndGet
    BY <1>1, <2>1, DigitsAre
  <2>4. point \in 0 .. 1 /\ fStartGet + whole + point <= fEndGet
    <3> HIDE DEF whole
    <3> QED
      BY <1>1, <2>1, <2>3 DEF IsChar
  <2> HIDE DEF whole, point
  <2>5. DigitsFrom(behind) \in Nat /\ behind + DigitsFrom(behind) <= fEndGet
    <3>1. behind \in Int /\ behind <= fEndGet
      BY <1>1, <2>1, <2>3, <2>4
    <3> HIDE DEF behind
    <3> QED
      BY <1>1, <2>1, <3>1, DigitsAre
  <2>6. n \in Nat /\ fStartGet + n <= fEndGet
    BY <1>1, <2>1, <2>3, <2>4, <2>5
  <2> HIDE DEF n
  <2> QED
    BY <1>0, <2>2, <2>6, ConsumesKeeps
<1>6. ASSUME ConsumeNPT PROVE CursorInv'
  <2> DEFINE n == NPT.at - fStartGet
  <2>1. ~ ParserIsEmpty /\ \E val : Consumes(n, token, val)
    BY <1>6 DEF ConsumeNPT
  <2>2. n \in Nat /\ fStartGet + n <= fEndGet
    BY <1>1, <2>1, NPTStays
  <2> HIDE DEF n
  <2> QED
    BY <1>0, <2>1, <2>2, ConsumesKeeps
<1>7. ASSUME NEW c, Expect(c) PROVE CursorInv'
  <2> DEFINE n == IF IsChar(fStartGet, c) THEN 1 ELSE 0
  <2>1. Consumes(n, token, <<>>)
    BY <1>7 DEF Expect
  <2>2. ~ ParserIsEmpty => n \in Nat /\ fStartGet + n <= fEndGet
    BY <1>1 DEF IsChar
  <2> HIDE DEF n
  <2> QED
    BY <1>0, <2>1, <2>2, ConsumesKeeps
<1>8. ASSUME NEW c, GetThru(c) PROVE CursorInv'
  <2> DEFINE r == RunFrom(fStartGet, {c})
             n == r + (IF r < Left THEN 1 ELSE 0)
  <2>1. Consumes(n, Consumed(r), <<>>)
    BY <1>8 DEF GetThru
  <2>2. ~ ParserIsEmpty => r \in Nat /\ fStartGet + r <= fEndGet
    BY <1>1, RunIs
  <2> HIDE DEF r
  <2>3. ~ ParserIsEmpty => n \in Nat /\ fStartGet + n <= fEndGet
    BY <1>1, <2>2 DEF Left
  <2> HIDE DEF n
  <2> QED
    BY <1>0, <2>1, <2>2, <2>3, ConsumesKeeps
<1>9. ASSUME NEW str, ~ ParserIsEmpty => str \in Strings, Consumes(EOLAt(fStartGet), str, <<>>)
      PROVE  CursorInv'
  <2> DEFINE n == EOLAt(fStartGet)
  <2>1. ~ ParserIsEmpty => n \in Nat /\ fStartGet + n <= fEndGet
    <3>1. ~ ParserIsEmpty => n \in 0 .. 2 /\ fStartGet + n <= fEndGet
      BY <1>1, EndIs
    <3> QED
      BY <3>1
  <2> HIDE DEF n
  <2> QED
    BY <1>9, <2>1, ConsumesKeeps DEF n
<1>10. ASSUME GetThruEOL PROVE CursorInv'
  <2> DEFINE r == RunFrom(fStartGet, sEOLMask)
             n == r + EOLAt(fStartGet + r)
  <2>1. Consumes(n, Consumed(r), <<>>)
    BY <1>10 DEF GetThruEOL
  <2>2. ~ ParserIsEmpty => r \in Nat /\ fStartGet + r <= fEndGet
    BY <1>1, RunIs
  <2> HIDE DEF r
  <2>3. ~ ParserIsEmpty => n \in Nat /\ fStartGet + n <= fEndGet
    <3> SUFFICES ASSUME ~ ParserIsEmpty PROVE n \in Nat /\ fStartGet + n <= fEndGet
      OBVIOUS
    <3> DEFINE e == EOLAt(fStartGet + r)
    <3>1. fStartGet + r \in Int
      BY <1>1, <2>2
    <3>2. e \in 0 .. 2 /\ (fStartGet + r) + e <= fEndGet
      BY <1>1, <2>2, <3>1, EndIs
    <3> HIDE DEF e
    <3>3. n = r + e
      BY DEF e
    <3> HIDE DEF n
    <3> QED
      BY <1>1, <2>2, <3>2, <3>3
  <2> HIDE DEF n
  <2> QED
    BY <1>0, <2>1, <2>2, <2>3, ConsumesKeeps
<1>11. ASSUME UNCHANGED <<fStartGet, fEndGet, fCurLineNumber, text>>, disturbed' \in BOOLEAN,
             token' \in Strings,
             ~ disturbed' => ~ disturbed /\ mem' = mem
       PROVE  CursorInv'
  <2>1. ~ disturbed' => Counted(fStartGet)' = Counted(fStartGet)
    BY <1>11 DEF Counted, CountedAt, EndsIn, EndIsSeen
  <2> QED
    BY <1>11, <2>1 DEF CursorInv
<1>12. ASSUME UnQuote \/ Trim \/ RemoveWhitespace PROVE CursorInv'
  <2>1. UNCHANGED <<fStartGet, fEndGet, fCurLineNumber, text>>
    BY <1>12 DEF UnQuote, Trim, RemoveWhitespace, Becomes
  <2>2. \/ UNCHANGED <<mem, disturbed>>
        \/ disturbed' = (disturbed \/ mem' # mem)
    BY <1>12 DEF UnQuote, Trim, RemoveWhitespace
  <2>3. disturbed \in BOOLEAN
    BY DEF CursorInv
  <2>4. disturbed' \in BOOLEAN /\ (~ disturbed' => ~ disturbed /\ mem' = mem)
    <3>1. CASE UNCHANGED <<mem, disturbed>>
      BY <2>3, <3>1
    <3>2. CASE disturbed' = (disturbed \/ mem' # mem)
      BY <2>3, <3>2, Zenon
    <3> QED
      BY <2>2, <3>1, <3>2
  <2>5. Usable /\ token.Ptr \in Nat /\ token.Len \in Nat /\ token.Ptr # NULL
    BY <1>0, <1>12 DEF UnQuote, Trim, RemoveWhitespace, Usable, Strings
  <2>6. token' \in Strings
    <3>1. CASE UnQuote
      <4>1. PICK first \in 0 .. 1, last \in 0 .. 1 :
              token.Len >= 2 /\ token' = Str(token.Ptr + first, token.Len - first - last)
        BY <3>1 DEF UnQuote, Becomes
      <4>2. token.Ptr + first \in Nat /\ token.Len - first - last \in Nat
        BY <2>5, <4>1
      <4> QED
        BY <4>1, <4>2 DEF Str, Strings
    <3>2. CASE Trim
      BY <1>0, <2>5, <3>2, TrimmedIs DEF Trim, Becomes
    <3>3. CASE RemoveWhitespace
      <4>1. token' = Str(token.Ptr, Len(Squeezed(mem, token)))
        BY <3>3 DEF RemoveWhitespace, Becomes
      <4>2. Len(Squeezed(mem, token)) \in Nat
        BY <2>5, SqueezedIs
      <4> QED
        BY <2>5, <4>1, <4>2 DEF Str, Strings
    <3> QED
      BY <1>12, <3>1, <3>2, <3>3
  <2> QED
    BY <1>11, <2>1, <2>4, <2>6
<1> QED
  <2>1. ASSUME ExpectEOL \/ ConsumeEOL PROVE CursorInv'
    <3> DEFINE n == EOLAt(fStartGet)
    <3>1. \/ Consumes(n, token, <<>>)
          \/ Consumes(n, Consumed(n), <<>>)
      BY <2>1 DEF ExpectEOL, ConsumeEOL
    <3>2. ~ ParserIsEmpty => n \in Nat
      <4>1. ~ ParserIsEmpty => n \in 0 .. 2
        BY <1>1, EndIs
      <4> QED
        BY <4>1
    <3> HIDE DEF n
    <3>3. ~ ParserIsEmpty => token \in Strings /\ Consumed(n) \in Strings
      BY <1>0, <3>2
    <3> QED
      BY <1>9, <3>1, <3>3 DEF n
  <2> QED
    BY <1>2, <1>3, <1>4, <1>5, <1>6, <1>7, <1>8, <1>10, <1>12, <2>1 DEF ParserNext

(* ... and the lines that GetThruEOL gave.  A line is the run to the first *)
(* character of an end, and exactly one line ends with what is consumed,   *)
(* unless the text does.                                                   *)
LineBetween(p, m, q) ==
  /\ m \in p .. Len(text) /\ q \in m .. m + 2 /\ q \in 1 .. Len(text)
  /\ \A a \in p .. m - 1 : text[a + 1] \notin sEOLMask
  /\ \A a \in m .. q - 1 : text[a + 1] \in sEOLMask
  /\ \/ /\ m = q /\ q = Len(text) /\ text[q] \notin sEOLMask
        /\ {a \in p .. q - 1 : EndsIn(a)} = {}
     \/ /\ m # q /\ text[q] \in sEOLMask
        /\ {a \in p .. q - 1 : EndsIn(a)} = {q - 1}
LEMMA LineIs ==
  ASSUME CursorInv, fStartGet # NULL, ~ disturbed, fStartGet < fEndGet, NEW r, NEW e,
         r = RunFrom(fStartGet, sEOLMask), e = EOLAt(fStartGet + r)
  PROVE  LineBetween(fStartGet, fStartGet + r, fStartGet + r + e)
<1> DEFINE p == fStartGet
           m == p + r
           q == m + e
<1>1. /\ text \in Seq(Byte) /\ Len(text) \in Nat /\ DOMAIN text = 1 .. Len(text)
      /\ p \in Nat /\ p < Len(text) /\ fEndGet = Len(text)
      /\ \A a \in 0 .. Len(text) - 1 : mem[a] = text[a + 1]
  BY DEF CursorInv
<1>2. /\ r \in Nat /\ m <= Len(text) /\ \A i \in p .. m - 1 : mem[i] \notin sEOLMask
      /\ m < Len(text) => mem[m] \in sEOLMask
  <2>1. fEndGet \in Int /\ fStartGet \in Int /\ fStartGet <= fEndGet
    BY <1>1
  <2> QED
    BY <1>1, <2>1, RunIs
<1>3. e \in 0 .. 2 /\ q <= Len(text) /\ (m < Len(text) => e > 0) /\ (m = Len(text) => e = 0)
  <2>1. fEndGet \in Int /\ m \in Int /\ m <= fEndGet
    BY <1>1, <1>2
  <2>2. e = EOLAt(m)
    OBVIOUS
  <2> HIDE DEF m
  <2>3. /\ EOLAt(m) \in 0 .. 2 /\ m + EOLAt(m) <= fEndGet
        /\ m = fEndGet => EOLAt(m) = 0
        /\ m < fEndGet /\ mem[m] \in sEOLMask => EOLAt(m) > 0
    BY <2>1, EndIs
  <2> QED
    BY <1>1, <1>2, <2>2, <2>3
<1>4. \A a \in p .. m - 1 : a + 1 \in DOMAIN text /\ text[a + 1] \notin sEOLMask
  BY <1>1, <1>2
<1>5. ASSUME NEW a \in p .. m - 1 PROVE ~ EndsIn(a)
  BY <1>4 DEF EndsIn, sEOLMask
<1>6. e = 2 => mem[m] = cr /\ mem[m + 1] = lf
  BY DEF EOLAt, IsChar
<1>7. e = 1 => /\ mem[m] \in sEOLMask
               /\ ~ (mem[m] = cr /\ m + 1 < fEndGet /\ mem[m + 1] = lf)
  BY DEF EOLAt, IsChar, sEOLMask
<1> HIDE DEF m
<1>8. m \in Nat /\ p <= m
  BY <1>1, <1>2 DEF m
<1>9. m \in p .. Len(text) /\ q \in m .. m + 2
  <2>1. Len(text) \in Nat /\ p \in Nat /\ m <= Len(text) /\ e \in 0 .. 2
    BY <1>1, <1>2, <1>3
  <2> QED
    BY <1>8, <2>1
<1>10. \A a \in p .. m - 1 : text[a + 1] \notin sEOLMask
  BY <1>4
<1>11. LineBetween(p, m, q) => LineBetween(fStartGet, fStartGet + r, fStartGet + r + e)
  BY DEF m
<1>12. e = 0 \/ e = 1 \/ e = 2
  BY <1>3
<1>13. CASE e = 0
  <2>1. m = Len(text) /\ q = m
    BY <1>2, <1>3, <1>8, <1>13
  <2>2. {a \in p .. q - 1 : EndsIn(a)} = {}
    BY <1>5, <2>1
  <2>3. m - 1 \in p .. m - 1 /\ (m - 1) + 1 = m
    BY <1>1, <1>8, <2>1
  <2>4. q = Len(text) /\ text[q] \notin sEOLMask
    BY <1>4, <2>1, <2>3
  <2>5. q \in 1 .. Len(text) /\ \A a \in m .. q - 1 : FALSE
    BY <1>1, <1>8, <2>1
  <2>6. m = q
    BY <2>1
  <2> HIDE DEF q
  <2> QED
    BY <1>9, <1>10, <1>11, <2>2, <2>4, <2>5, <2>6, Zenon DEF LineBetween
<1>14. CASE e = 1
  <2>1. m < Len(text) /\ q = m + 1 /\ q - 1 = m /\ m \in 0 .. Len(text) - 1
    BY <1>3, <1>8, <1>14
  <2>2. mem[m] = text[m + 1] /\ m + 1 \in DOMAIN text /\ text[m + 1] \in sEOLMask
    BY <1>1, <1>2, <2>1
  <2>3. m + 2 \in DOMAIN text => m + 1 \in 0 .. Len(text) - 1 /\ (m + 1) + 1 = m + 2
    BY <1>1, <1>8
  <2>4. m + 2 \in DOMAIN text /\ text[m + 2] = lf => mem[m + 1] = lf /\ m + 1 < fEndGet
    BY <1>1, <1>8, <2>3
  <2>5. EndsIn(m)
    BY <1>7, <1>14, <2>2, <2>4 DEF EndsIn, sEOLMask
  <2>6. \A a : a \in p .. q - 1 <=> a \in p .. m - 1 \/ a = m
    BY <1>1, <1>8, <2>1
  <2>7. {a \in p .. q - 1 : EndsIn(a)} = {q - 1}
    BY <1>5, <2>1, <2>5, <2>6
  <2>8. q \in 1 .. Len(text) /\ \A a \in m .. q - 1 : a = m
    BY <1>1, <1>8, <2>1
  <2>9. text[q] \in sEOLMask /\ \A a \in m .. q - 1 : text[a + 1] \in sEOLMask
    BY <2>1, <2>2, <2>8
  <2>10. m # q
    BY <1>8, <2>1
  <2> HIDE DEF q
  <2> QED
    BY <1>9, <1>10, <1>11, <2>7, <2>8, <2>9, <2>10, Zenon DEF LineBetween
<1>15. CASE e = 2
  <2>1. /\ m < Len(text) /\ q = m + 2 /\ q - 1 = m + 1 /\ m + 1 < Len(text)
        /\ m \in 0 .. Len(text) - 1 /\ m + 1 \in 0 .. Len(text) - 1 /\ (m + 1) + 1 = m + 2
    BY <1>3, <1>8, <1>15
  <2>2. /\ text[m + 1] = cr /\ text[m + 2] = lf
        /\ m + 1 \in DOMAIN text /\ m + 2 \in DOMAIN text
    BY <1>1, <1>6, <1>15, <2>1
  <2>3. ~ EndsIn(m) /\ EndsIn(m + 1)
    BY <2>1, <2>2 DEF EndsIn, cr, lf
  <2>4. \A a : a \in p .. q - 1 <=> a \in p .. m - 1 \/ a = m \/ a = m + 1
    BY <1>1, <1>8, <2>1
  <2>5. {a \in p .. q - 1 : EndsIn(a)} = {q - 1}
    BY <1>5, <2>1, <2>3, <2>4
  <2>6. q \in 1 .. Len(text) /\ \A a \in m .. q - 1 : a = m \/ a = m + 1
    BY <1>1, <1>8, <2>1
  <2>7. text[q] \in sEOLMask /\ \A a \in m .. q - 1 : text[a + 1] \in sEOLMask
    BY <2>1, <2>2, <2>6 DEF sEOLMask
  <2>8. m # q
    BY <1>8, <2>1
  <2> HIDE DEF q
  <2> QED
    BY <1>9, <1>10, <1>11, <2>5, <2>6, <2>7, <2>8, Zenon DEF LineBetween
<1> QED
  BY <1>12, <1>13, <1>14, <1>15

(* The bytes of a line are the text's, and count as the plain bytes up to  *)
(* where the cursor goes.                                                  *)
LEMMA PlainMore ==
  ASSUME NEW p \in Nat, NEW r \in Nat, NEW e \in Nat,
         \A a \in p .. (p + r) - 1 : text[a + 1] \notin sEOLMask,
         \A a \in p + r .. (p + r + e) - 1 : text[a + 1] \in sEOLMask
  PROVE  /\ Cardinality(Plain(p)) \in Nat
         /\ Cardinality(Plain(p + r + e)) = Cardinality(Plain(p)) + r
<1> DEFINE m == p + r
           q == m + e
<1>0. m \in Nat /\ q \in Nat /\ p <= m /\ m <= q
  OBVIOUS
<1> HIDE DEF m, q
<1>1. IsFiniteSet(Plain(p)) /\ IsFiniteSet(p .. m - 1)
  <2>1. IsFiniteSet(0 .. p - 1) /\ IsFiniteSet(p .. m - 1)
    BY <1>0, FS_Interval
  <2>2. Plain(p) \subseteq 0 .. p - 1
    BY DEF Plain
  <2> QED
    BY <2>1, <2>2, FS_Subset
<1>2. Plain(q) = Plain(p) \cup (p .. m - 1)
  <2>1. \A a : a \in 0 .. q - 1 <=> a \in 0 .. p - 1 \/ a \in p .. m - 1 \/ a \in m .. q - 1
    BY <1>0
  <2>2. /\ \A a \in p .. m - 1 : text[a + 1] \notin sEOLMask
        /\ \A a \in m .. q - 1 : text[a + 1] \in sEOLMask
    BY DEF m, q
  <2> QED
    BY <2>1, <2>2 DEF Plain
<1>3. Plain(p) \cap (p .. m - 1) = {}
  <2> SUFFICES ASSUME NEW a \in Plain(p), a \in p .. m - 1 PROVE FALSE
    OBVIOUS
  <2> QED
    BY <1>0 DEF Plain
<1>4. Cardinality(Plain(p) \cup (p .. m - 1))
        = Cardinality(Plain(p)) + Cardinality(p .. m - 1) - Cardinality(Plain(p) \cap (p .. m - 1))
  BY <1>1, FS_Union, Zenon
<1>5. Cardinality(Plain(p) \cap (p .. m - 1)) = 0
  BY <1>3, FS_EmptySet, Zenon
<1>6. Cardinality(Plain(p)) \in Nat
  BY <1>1, FS_CardinalityType
<1>7. Cardinality(p .. m - 1) = r
  <2>1. Cardinality(p .. m - 1) = IF p > m - 1 THEN 0 ELSE (m - 1) - p + 1
    BY <1>0, FS_Interval
  <2> QED
    BY <2>1 DEF m
<1>8. Cardinality(Plain(q)) = Cardinality(Plain(p)) + r
  BY <1>2, <1>4, <1>5, <1>6, <1>7
<1> QED
  BY <1>6, <1>8 DEF q, m

(* The length of what the lines are made of grows with the line.           *)
LEMMA LinesStep ==
  ASSUME StringInv, GetThruEOL
  PROVE  LinesInv'
<1> DEFINE p == fStartGet
           r == RunFrom(p, sEOLMask)
           e == EOLAt(p + r)
           b == BytesOf(mem, Consumed(r))
           first == p = 0 /\ ~ disturbed
<1>1. /\ lines' = IF p < fEndGet /\ (first \/ lines # <<>>) THEN Append(lines, b) ELSE lines
      /\ Consumes(r + e, Consumed(r), <<>>)
  BY DEF GetThruEOL
<1>2. /\ ParserIsEmpty => UNCHANGED <<mem, fStartGet, fEndGet, text>>
      /\ ~ ParserIsEmpty => fStartGet' = p + (r + e) /\ UNCHANGED <<mem, fEndGet, text>>
      /\ UNCHANGED disturbed
  BY <1>1 DEF Consumes, Advance
<1>3. lines \in Seq(Seq(Byte)) /\ CursorInv /\ LinesInv
  BY DEF StringInv, LinesInv
<1>4. CASE lines' = <<>>
  BY <1>4 DEF LinesInv
<1>5. CASE p < fEndGet /\ (first \/ lines # <<>>)
  <2>1. ~ ParserIsEmpty /\ ~ disturbed /\ p # NULL
    <3>1. CASE first
      BY <3>1 DEF ParserIsEmpty, NULL
    <3>2. CASE lines # <<>>
      BY <1>3, <3>2 DEF ParserIsEmpty, LinesInv
    <3> QED
      BY <1>5, <3>1, <3>2
  <2>2. /\ text \in Seq(Byte) /\ Len(text) \in Nat /\ fEndGet = Len(text) /\ p \in Nat
        /\ p < Len(text) /\ \A a \in 0 .. Len(text) - 1 : mem[a] = text[a + 1]
    BY <1>3, <1>5, <2>1 DEF CursorInv
  <2>3. r \in Nat /\ e \in 0 .. 2 /\ p + r <= Len(text)
    <3>1. r \in Nat /\ p + r <= fEndGet
      BY <2>2, RunIs
    <3>2. p + r \in Int
      BY <2>2, <3>1
    <3> HIDE DEF r
    <3>3. e \in 0 .. 2
      BY <2>2, <3>1, <3>2, EndIs
    <3> QED
      BY <2>2, <3>1, <3>3
  <2>4. LineBetween(p, p + r, p + r + e)
    BY <1>3, <1>5, <2>1, LineIs
  <2> HIDE DEF r, e
  <2> DEFINE q == p + r + e
  <2>5. /\ q \in 1 .. Len(text) /\ q \in Nat /\ q = p + (r + e)
        /\ \A a \in p .. (p + r) - 1 : text[a + 1] \notin sEOLMask
        /\ \A a \in p + r .. q - 1 : text[a + 1] \in sEOLMask
    BY <2>2, <2>3, <2>4 DEF LineBetween
  <2>6. \/ /\ q = Len(text) /\ text[q] \notin sEOLMask /\ {a \in p .. q - 1 : EndsIn(a)} = {}
        \/ /\ text[q] \in sEOLMask /\ {a \in p .. q - 1 : EndsIn(a)} = {q - 1}
    BY <2>4 DEF LineBetween
  <2>7. b \in Seq(Byte) /\ Len(b) = r /\ Range(b) \cap sEOLMask = {}
    <3>1. b = [i \in 1 .. r |-> mem[p + i - 1]]
      BY DEF BytesOf, Consumed, Str
    <3>2. ASSUME NEW i \in 1 .. r PROVE mem[p + i - 1] \in Byte \ sEOLMask
      <4>1. p + i - 1 \in p .. (p + r) - 1 /\ p + i - 1 \in 0 .. Len(text) - 1
            /\ p + i \in 1 .. Len(text) /\ (p + i - 1) + 1 = p + i
        BY <2>2, <2>3
      <4>2. mem[p + i - 1] = text[p + i] /\ text[p + i] \notin sEOLMask
        BY <2>2, <2>5, <4>1
      <4> QED
        BY <2>2, <4>1, <4>2
    <3> HIDE DEF b
    <3>3. b \in [1 .. r -> Byte] /\ DOMAIN b = 1 .. r
      BY <3>1, <3>2
    <3>4. \A i \in DOMAIN b : b[i] \notin sEOLMask
      BY <3>1, <3>2
    <3> QED
      BY <2>3, <3>3, <3>4 DEF Range
  <2> HIDE DEF b, q
  <2>8. /\ lines' = Append(lines, b) /\ fStartGet' = q /\ q # NULL /\ q # 0 /\ ~ disturbed'
        /\ UNCHANGED <<text, fEndGet>>
    BY <1>1, <1>2, <1>5, <2>1, <2>5 DEF NULL
  <2>9. /\ Total(lines) = Cardinality(Plain(p))
        /\ Len(lines) = Cardinality(Ended(p))
        /\ \A i \in DOMAIN lines : Range(lines[i]) \cap sEOLMask = {}
    <3>1. CASE lines = <<>>
      <4>1. p = 0
        BY <1>5, <3>1
      <4>2. Ended(p) = {} /\ Plain(p) = {}
        BY <4>1 DEF Ended, Plain
      <4>3. Total(lines) = 0
        BY <1>3, <2>7, <3>1, TotalOfMore
      <4> QED
        BY <3>1, <4>2, <4>3, FS_EmptySet
    <3>2. CASE lines # <<>>
      <4>1. text[p] \in sEOLMask /\ Cardinality(Ended(p)) \in Nat
        BY <1>3, <1>5, <2>2, <3>2, EndedMore DEF LinesInv
      <4>2. /\ Total(lines) = Cardinality(Plain(p))
            /\ Len(lines) = Cardinality(Ended(p)) + (IF text[p] \in sEOLMask THEN 0 ELSE 1)
            /\ \A i \in DOMAIN lines : Range(lines[i]) \cap sEOLMask = {}
        BY <1>3, <3>2 DEF LinesInv
      <4>3. Len(lines) = Cardinality(Ended(p))
        BY <4>1, <4>2
      <4> QED
        BY <4>2, <4>3
    <3> QED
      BY <3>1, <3>2
  <2>10. /\ lines' \in Seq(Seq(Byte)) /\ lines' # <<>> /\ Len(lines') = Len(lines) + 1
         /\ Total(lines') = Total(lines) + r
         /\ \A i \in DOMAIN lines' : Range(lines'[i]) \cap sEOLMask = {}
    <3>1. /\ lines' \in Seq(Seq(Byte)) /\ lines' # <<>> /\ Len(lines') = Len(lines) + 1
          /\ DOMAIN lines' = 1 .. Len(lines) + 1 /\ DOMAIN lines = 1 .. Len(lines)
          /\ Len(lines) \in Nat
          /\ lines'[Len(lines) + 1] = b /\ \A i \in 1 .. Len(lines) : lines'[i] = lines[i]
      BY <1>3, <2>7, <2>8
    <3>2. Total(Append(lines, b)) = Total(lines) + r
      BY <1>3, <2>7, TotalOfMore
    <3>3. ASSUME NEW i \in DOMAIN lines' PROVE Range(lines'[i]) \cap sEOLMask = {}
      <4>1. CASE i = Len(lines) + 1
        BY <2>7, <3>1, <4>1
      <4>2. CASE i # Len(lines) + 1
        <5>1. i \in 1 .. Len(lines)
          BY <3>1, <4>2
        <5> QED
          BY <2>9, <3>1, <5>1
      <4> QED
        BY <4>1, <4>2
    <3> QED
      BY <2>8, <3>1, <3>2, <3>3
  <2>11. Total(lines') = Cardinality(Plain(q))
    <3>1. e \in Nat
      BY <2>3
    <3>2. /\ \A a \in p .. (p + r) - 1 : text[a + 1] \notin sEOLMask
          /\ \A a \in p + r .. (p + r + e) - 1 : text[a + 1] \in sEOLMask
      BY <2>4 DEF LineBetween
    <3>3. p \in Nat /\ r \in Nat
      BY <2>2, <2>3
    <3>4. Cardinality(Plain(p + r + e)) = Cardinality(Plain(p)) + r
      BY <3>1, <3>2, <3>3, PlainMore, Zenon
    <3> QED
      BY <2>9, <2>10, <3>4 DEF q
  <2>12. Len(lines') = Cardinality(Ended(q)) + (IF text[q] \in sEOLMask THEN 0 ELSE 1)
    <3> DEFINE more == {a \in p .. q - 1 : EndsIn(a)}
    <3>1. r + e \in Nat /\ q - 1 = p + (r + e) - 1
      <4>1. r \in Nat /\ e \in Nat
        BY <2>3
      <4>2. q = p + (r + e) /\ p \in Nat
        BY <2>2, <2>5
      <4> QED
        BY <4>1, <4>2
    <3>2. /\ Cardinality(Ended(p)) \in Nat
          /\ Cardinality(Ended(p + (r + e)))
                = Cardinality(Ended(p)) + Cardinality({a \in p .. p + (r + e) - 1 : EndsIn(a)})
      BY <2>2, <3>1, EndedMore
    <3>3. Cardinality(Ended(q)) = Cardinality(Ended(p)) + Cardinality(more)
      BY <2>5, <3>1, <3>2
    <3>4. Cardinality({}) = 0 /\ Cardinality({q - 1}) = 1
      BY FS_EmptySet, FS_Singleton
    <3>5. \/ text[q] \notin sEOLMask /\ Cardinality(more) = 0
          \/ text[q] \in sEOLMask /\ Cardinality(more) = 1
      BY <2>6, <3>4
    <3> HIDE DEF more
    <3> QED
      BY <2>9, <2>10, <3>2, <3>3, <3>5
  <2>13. fStartGet' < fEndGet' => text'[fStartGet'] \in sEOLMask
    BY <2>2, <2>5, <2>6, <2>8
  <2>14. /\ Total(lines)' = Total(lines') /\ Plain(fStartGet)' = Plain(q)
         /\ Ended(fStartGet)' = Ended(q)
    BY <2>8 DEF Total, Plain, Ended, EndsIn
  <2> QED
    BY <2>8, <2>10, <2>11, <2>12, <2>13, <2>14 DEF LinesInv
<1>6. CASE lines # <<>> /\ lines' = lines /\ ~ (p < fEndGet)
  <2>1. ~ ParserIsEmpty /\ ~ disturbed /\ p # NULL
    BY <1>3, <1>6 DEF ParserIsEmpty, LinesInv
  <2>2. fEndGet = Len(text) /\ p = fEndGet /\ p \in Nat /\ Len(text) \in Nat
    BY <1>3, <1>6, <2>1 DEF CursorInv
  <2>3. r = 0
    <3>1. r \in Nat /\ p + r <= fEndGet
      BY <2>2, RunIs
    <3> QED
      BY <2>2, <3>1
  <2> HIDE DEF r
  <2>4. e = 0
    <3>1. EOLAt(p) = 0
      BY <2>2, EndIs
    <3> QED
      BY <2>2, <2>3, <3>1
  <2> HIDE DEF e
  <2>5. UNCHANGED <<fStartGet, fEndGet, text, lines, disturbed>>
    BY <1>2, <1>6, <2>1, <2>2, <2>3, <2>4
  <2>6. /\ Total(lines)' = Total(lines) /\ Plain(fStartGet)' = Plain(fStartGet)
        /\ Ended(fStartGet)' = Ended(fStartGet)
    BY <2>5 DEF Total, Plain, Ended, EndsIn
  <2> QED
    BY <1>3, <2>5, <2>6 DEF LinesInv
<1> HIDE DEF r, e, b
<1>7. CASE ~ (p < fEndGet /\ (first \/ lines # <<>>))
  <2>1. lines' = lines
    BY <1>1, <1>7
  <2>2. CASE lines = <<>>
    BY <1>4, <2>1, <2>2
  <2>3. CASE lines # <<>>
    BY <1>6, <1>7, <2>1, <2>3
  <2> QED
    BY <2>2, <2>3
<1> QED
  BY <1>5, <1>7

LEMMA StringStep ==
  ASSUME StringInv, [ParserNext]_parserVars
  PROVE  StringInv'
<1>1. ASSUME UNCHANGED <<fStartGet, fEndGet, text, lines, disturbed>> PROVE LinesInv'
  <2>1. /\ Total(lines)' = Total(lines) /\ Plain(fStartGet)' = Plain(fStartGet)
        /\ Ended(fStartGet)' = Ended(fStartGet)
    BY <1>1 DEF Total, Plain, Ended, EndsIn
  <2> QED
    BY <1>1, <2>1 DEF StringInv, LinesInv
<1>2. ASSUME lines' = <<>> PROVE LinesInv'
  BY <1>2 DEF LinesInv
<1>3. CASE ParserNext
  <2>1. CursorInv'
    BY <1>3, CursorStep DEF StringInv
  <2>2. LinesInv'
    <3>1. ASSUME NEW stop, ConsumeUntil(stop) PROVE lines' = <<>>
      BY <3>1 DEF ConsumeUntil
    <3>2. ASSUME NEW n, ConsumeLength(n) PROVE lines' = <<>>
      BY <3>2 DEF ConsumeLength
    <3>3. ASSUME ConsumeInteger \/ ConsumeFloat \/ ConsumeNPT PROVE lines' = <<>>
      BY <3>3 DEF ConsumeInteger, ConsumeFloat, ConsumeNPT
    <3>4. ASSUME NEW c, Expect(c) \/ GetThru(c) PROVE lines' = <<>>
      BY <3>4 DEF Expect, GetThru
    <3>5. ASSUME ExpectEOL \/ ConsumeEOL \/ RemoveWhitespace PROVE lines' = <<>>
      BY <3>5 DEF ExpectEOL, ConsumeEOL, RemoveWhitespace
    <3>6. ASSUME UnQuote \/ Trim
          PROVE  UNCHANGED <<fStartGet, fEndGet, text, lines, disturbed>>
      BY <3>6 DEF UnQuote, Trim, Becomes
    <3> QED
      BY <1>1, <1>2, <1>3, <3>1, <3>2, <3>3, <3>4, <3>5, <3>6, LinesStep DEF ParserNext
  <2> QED
    BY <2>1, <2>2 DEF StringInv
<1>4. CASE UNCHANGED parserVars
  <2>1. UNCHANGED <<fStartGet, fEndGet, text, lines, disturbed, mem, fCurLineNumber, token>>
    BY <1>4 DEF parserVars
  <2>2. Counted(fStartGet)' = Counted(fStartGet)
    BY <2>1 DEF Counted, CountedAt, EndsIn, EndIsSeen
  <2>3. CursorInv'
    BY <2>1, <2>2 DEF StringInv, CursorInv
  <2> QED
    BY <1>1, <2>1, <2>3 DEF StringInv
<1> QED
  BY <1>3, <1>4

LEMMA StringStart ==
  ASSUME ParserInit
  PROVE  StringInv
<1>1. ASSUME NEW ptr, NEW end, Over(ptr, end)
      PROVE  /\ LinesInv /\ disturbed = FALSE /\ fCurLineNumber = 1
             /\ fStartGet = ptr /\ fEndGet = end /\ token \in Strings
  BY <1>1 DEF Over, LinesInv, NullString, Strings
<1>2. CASE OverNoString
  <2>1. text = <<>> /\ Over(NULL, NULL)
    BY <1>2 DEF OverNoString
  <2>2. /\ LinesInv /\ disturbed = FALSE /\ fStartGet = NULL /\ fEndGet = NULL
        /\ token \in Strings
    BY <1>1, <2>1
  <2>3. text \in Seq(Byte)
    BY <2>1
  <2> QED
    BY <2>2, <2>3 DEF StringInv, CursorInv
<1>3. ASSUME NEW t \in Texts, NEW behind \in Beyond, OverText(t, behind) PROVE StringInv
  <2>1. text = t /\ t \in Seq(Byte) /\ Len(t) \in Nat /\ Over(0, Len(t))
    BY <1>3, ParserAssumption DEF OverText
  <2>2. /\ LinesInv /\ disturbed = FALSE /\ fCurLineNumber = 1
        /\ fStartGet = 0 /\ fEndGet = Len(text) /\ token \in Strings
    BY <1>1, <2>1
  <2>3. mem = [a \in 0 .. Len(t) |-> IF a = Len(t) THEN behind ELSE t[a + 1]]
    BY <1>3 DEF OverText
  <2>4. \A a \in 0 .. Len(text) - 1 : mem[a] = text[a + 1]
    BY <2>1, <2>3
  <2>5. Counted(fStartGet) = {}
    BY <2>2 DEF Counted
  <2>6. Cardinality(Counted(fStartGet)) = 0
    BY <2>5, FS_EmptySet
  <2>7. fCurLineNumber = 1 + Cardinality(Counted(fStartGet)) /\ fStartGet \in 0 .. Len(text)
    BY <2>1, <2>2, <2>6
  <2> QED
    BY <2>1, <2>2, <2>4, <2>7 DEF StringInv, CursorInv
<1> QED
  BY <1>2, <1>3 DEF ParserInit

LEMMA StringAlways == ParserSpec => []StringInv
<1> QED
  BY StringStart, StringStep, PTL DEF ParserSpec

(* However a text is read, the parser knows the line it is in, and the     *)
(* lines it gives are the text's (StringParser.cpp:480): over any text,    *)
(* with any byte behind it, and any sequence of calls.                     *)
THEOREM LinesAlwaysRight == ParserSpec => []LinesRight
<1>1. ASSUME StringInv PROVE LinesRight
  <2>1. fStartGet <= fEndGet
    BY <1>1 DEF StringInv, CursorInv, NULL
  <2>2. fStartGet # NULL /\ ~ disturbed =>
          fCurLineNumber = 1 + Cardinality(Counted(fStartGet))
    BY <1>1 DEF StringInv, CursorInv
  <2>3. LinesOfText
    BY <1>1 DEF StringInv, LinesInv, LinesOfText, Ended, Plain
  <2> QED
    BY <2>1, <2>2, <2>3 DEF LinesRight, LinesCounted, Counted
<1> QED
  BY <1>1, StringAlways, PTL

-----------------------------------------------------------------------------
(* The search in a string                                                  *)

(* Up to the first 0: what lies before a place has no 0 in it just when    *)
(* the C string reaches that far.                                          *)
LEMMA CStringIs ==
  ASSUME NEW S, NEW bytes \in Seq(S)
  PROVE  LET c == CString(bytes) IN
         /\ c \in Seq(S) /\ Len(c) \in 0 .. Len(bytes)
         /\ \A i \in 1 .. Len(c) : c[i] = bytes[i]
         /\ \A p \in 0 .. Len(bytes) : (\A i \in 1 .. p : bytes[i] # 0) <=> p <= Len(c)
<1> DEFINE n == Len(bytes)
           T == {k \in 0 .. n : \A i \in 1 .. k : bytes[i] # 0}
           m == Sets!Max(T)
           c == SubSeq(bytes, 1, m)
<1>1. n \in Nat /\ T \in SUBSET (0 .. n) /\ 0 \in T
  OBVIOUS
<1>2. m \in T /\ \A j \in T : j <= m
  <2> HIDE DEF T, n
  <2> QED
    BY <1>1, MostIs
<1>3. CString(bytes) = c
  BY DEF CString
<1>4. m \in 0 .. n /\ \A i \in 1 .. m : bytes[i] # 0
  BY <1>2
<1>5. ASSUME NEW p \in 0 .. n PROVE (\A i \in 1 .. p : bytes[i] # 0) <=> p <= m
  <2>1. ASSUME \A i \in 1 .. p : bytes[i] # 0 PROVE p <= m
    <3>1. p \in T
      BY <2>1
    <3> QED
      BY <1>2, <3>1
  <2>2. ASSUME p <= m PROVE \A i \in 1 .. p : bytes[i] # 0
    BY <1>1, <1>4, <2>2
  <2> QED
    BY <2>1, <2>2
<1> HIDE DEF m
<1>6. c \in Seq(S) /\ Len(c) = m /\ \A i \in 1 .. m : c[i] = bytes[i]
  BY <1>1, <1>4, SubSeqProperties
<1> HIDE DEF c, T
<1> QED
  BY <1>3, <1>4, <1>5, <1>6

(* strstr finds the first place, if there is any.                          *)
LEMMA strstrIs ==
  ASSUME NEW source, Len(source) \in Nat, NEW query
  PROVE  LET k == strstr(source, query) IN
         \/ k = NULL /\ \A j \in 0 .. Len(source) : ~ IsAt(query, source, j)
         \/ /\ k \in 0 .. Len(source) /\ IsAt(query, source, k)
            /\ \A j \in 0 .. k - 1 : ~ IsAt(query, source, j)
<1> DEFINE n == Len(source)
           T == {j \in 0 .. n : IsAt(query, source, j)}
<1>1. CASE T = {}
  <2>1. \A j \in 0 .. n : ~ IsAt(query, source, j)
    BY <1>1
  <2> QED
    BY <2>1 DEF strstr
<1>2. CASE T # {}
  <2>1. T \in SUBSET Nat
    OBVIOUS
  <2>2. PICK m \in T : \A j \in T : m <= j
    <3> HIDE DEF T
    <3> QED
      BY <1>2, <2>1, L!LeastExists
  <2>3. m \in 0 .. n /\ IsAt(query, source, m)
    BY <2>2
  <2>4. ASSUME NEW j \in 0 .. m - 1 PROVE ~ IsAt(query, source, j)
    <3> SUFFICES ASSUME IsAt(query, source, j) PROVE FALSE
      OBVIOUS
    <3>1. j \in 0 .. n /\ ~ (m <= j)
      BY <2>3
    <3>2. j \in T
      BY <3>1
    <3> HIDE DEF T
    <3> QED
      BY <2>2, <3>1, <3>2
  <2> HIDE DEF n, T
  <2>5. \E k \in 0 .. n : IsAt(query, source, k) /\ \A j \in 0 .. k - 1 : ~ IsAt(query, source, j)
    BY <2>3, <2>4
  <2> DEFINE k == CHOOSE k \in 0 .. n :
                    IsAt(query, source, k) /\ \A j \in 0 .. k - 1 : ~ IsAt(query, source, j)
  <2>6. /\ k \in 0 .. n /\ IsAt(query, source, k)
        /\ \A j \in 0 .. k - 1 : ~ IsAt(query, source, j)
    BY <2>5
  <2>7. strstr(source, query) = k
    BY <2>3 DEF strstr, n
  <2> HIDE DEF k
  <2> QED
    BY <2>6, <2>7 DEF n
<1> QED
  BY <1>1, <1>2

(* In upper case two bytes are the same just when one folds to the other.  *)
LEMMA FoldIs ==
  ASSUME NEW b, NEW c
  PROVE  /\ FoldsTo(b, c, TRUE) <=> b = c
         /\ FoldsTo(b, c, FALSE) <=> toupper(b) = toupper(c)
BY DEF FoldsTo, toupper, Letters

LEMMA UpperIs ==
  ASSUME NEW S, NEW s \in Seq(S)
  PROVE  /\ ToUpper(s) \in Seq({toupper(s[i]) : i \in 1 .. Len(s)}) /\ Len(ToUpper(s)) = Len(s)
         /\ DOMAIN ToUpper(s) = 1 .. Len(s)
         /\ \A i \in 1 .. Len(s) : ToUpper(s)[i] = toupper(s[i])
<1> DEFINE n == Len(s)
           u == ToUpper(s)
           R == {toupper(s[i]) : i \in 1 .. n}
<1>1. n \in Nat /\ u = [i \in 1 .. n |-> toupper(s[i])]
  BY DEF ToUpper
<1> HIDE DEF u
<1>2. u \in [1 .. n -> R]
  BY <1>1
<1> HIDE DEF R
<1>3. u \in Seq(R) /\ Len(u) = n /\ DOMAIN u = 1 .. n
  BY <1>1, <1>2
<1> QED
  BY <1>1, <1>3 DEF u, R

(* Both searches look for the place that FoundAt describes.                *)
LEMMA FoundIs ==
  ASSUME token.Ptr \in Nat, token.Len \in Nat, NEW S, NEW q \in Seq(S),
         NEW caseSensitive \in BOOLEAN, NEW k \in Nat
  PROVE  LET source == CString(BytesOf(mem, token)) IN
         FoundAt(token, q, k, caseSensitive) <=>
           IF caseSensitive THEN IsAt(q, source, k) ELSE IsAt(ToUpper(q), ToUpper(source), k)
<1> DEFINE bytes == BytesOf(mem, token)
           source == CString(bytes)
           n == token.Len
<1>1. /\ bytes \in Seq(Range(bytes)) /\ Len(bytes) = n
      /\ \A i \in 1 .. n : bytes[i] = mem[token.Ptr + i - 1]
  BY BytesAre
<1> HIDE DEF bytes
<1>2. /\ source \in Seq(Range(bytes)) /\ Len(source) \in 0 .. n
      /\ \A i \in 1 .. Len(source) : source[i] = bytes[i]
      /\ \A p \in 0 .. n : (\A i \in 1 .. p : bytes[i] # 0) <=> p <= Len(source)
  BY <1>1, CStringIs
<1> HIDE DEF source
<1> DEFINE l == Len(q)
<1>3. l \in Nat /\ DOMAIN q = 1 .. l /\ Len(source) \in Nat /\ DOMAIN source = 1 .. Len(source)
  BY <1>2
<1> HIDE DEF n, l
<1>4. (k + l <= n /\ \A i \in 0 .. k + l - 1 : mem[token.Ptr + i] # 0) <=> k + l <= Len(source)
  <2>1. CASE k + l <= n
    <3>1. k + l \in 0 .. n
      BY <1>3, <2>1 DEF n
    <3>2. (\A i \in 1 .. k + l : bytes[i] # 0) <=> k + l <= Len(source)
      BY <1>2, <3>1
    <3>3. (\A i \in 1 .. k + l : bytes[i] # 0) <=> \A i \in 0 .. k + l - 1 : mem[token.Ptr + i] # 0
      <4>1. ASSUME \A i \in 1 .. k + l : bytes[i] # 0, NEW i \in 0 .. k + l - 1
            PROVE  mem[token.Ptr + i] # 0
        <5>1. i + 1 \in 1 .. k + l /\ i + 1 \in 1 .. n /\ token.Ptr + (i + 1) - 1 = token.Ptr + i
          BY <1>3, <3>1 DEF n
        <5> QED
          BY <1>1, <4>1, <5>1
      <4>2. ASSUME \A i \in 0 .. k + l - 1 : mem[token.Ptr + i] # 0, NEW i \in 1 .. k + l
            PROVE  bytes[i] # 0
        <5>1. i - 1 \in 0 .. k + l - 1 /\ i \in 1 .. n /\ token.Ptr + (i - 1) = token.Ptr + i - 1
          BY <1>3, <3>1 DEF n
        <5> QED
          BY <1>1, <4>2, <5>1
      <4> QED
        BY <4>1, <4>2
    <3> QED
      BY <2>1, <3>2, <3>3
  <2>2. CASE ~ (k + l <= n)
    BY <1>2, <1>3, <2>2 DEF n
  <2> QED
    BY <2>1, <2>2
<1>5. ASSUME k + l <= Len(source), NEW i \in 1 .. l
      PROVE  source[k + i] = mem[token.Ptr + k + i - 1] /\ k + i \in 1 .. Len(source)
  <2>1. k + i \in 1 .. Len(source) /\ k + i \in 1 .. n
    BY <1>2, <1>3, <1>5 DEF n
  <2>2. token.Ptr + (k + i) - 1 = token.Ptr + k + i - 1
    BY <1>3
  <2> QED
    BY <1>1, <1>2, <2>1, <2>2
<1>6. CASE caseSensitive
  <2>1. FoundAt(token, q, k, TRUE) <=>
          k + l <= Len(source) /\ \A i \in 1 .. l : mem[token.Ptr + k + i - 1] = q[i]
    BY <1>3, <1>4, FoldIs DEF FoundAt, l, n
  <2>2. IsAt(q, source, k) <=> k + l <= Len(source) /\ \A i \in 1 .. l : source[k + i] = q[i]
    BY <1>3 DEF IsAt, l
  <2> QED
    BY <1>5, <1>6, <2>1, <2>2 DEF source, bytes
<1>7. CASE ~ caseSensitive
  <2>1. FoundAt(token, q, k, FALSE) <=>
          /\ k + l <= Len(source)
          /\ \A i \in 1 .. l : toupper(mem[token.Ptr + k + i - 1]) = toupper(q[i])
    <3>1. FoundAt(token, q, k, FALSE) <=>
            /\ k + l <= Len(source)
            /\ \A i \in 1 .. l : FoldsTo(mem[token.Ptr + k + i - 1], q[i], FALSE)
      BY <1>3, <1>4 DEF FoundAt, l, n
    <3>2. \A i \in 1 .. l : FoldsTo(mem[token.Ptr + k + i - 1], q[i], FALSE)
                             <=> toupper(mem[token.Ptr + k + i - 1]) = toupper(q[i])
      <4> SUFFICES ASSUME NEW i \in 1 .. l
                   PROVE  FoldsTo(mem[token.Ptr + k + i - 1], q[i], FALSE)
                            <=> toupper(mem[token.Ptr + k + i - 1]) = toupper(q[i])
        OBVIOUS
      <4> DEFINE x == mem[token.Ptr + k + i - 1]
                 y == q[i]
      <4> HIDE DEF x, y
      <4>1. FoldsTo(x, y, FALSE) <=> toupper(x) = toupper(y)
        BY FoldIs
      <4> QED
        BY <4>1 DEF x, y
    <3> QED
      BY <3>1, <3>2
  <2>2. /\ Len(ToUpper(q)) = l /\ DOMAIN ToUpper(q) = 1 .. l /\ Len(ToUpper(source)) = Len(source)
        /\ \A i \in 1 .. l : ToUpper(q)[i] = toupper(q[i])
        /\ \A i \in 1 .. Len(source) : ToUpper(source)[i] = toupper(source[i])
    BY <1>2, <1>3, UpperIs DEF l
  <2>3. IsAt(ToUpper(q), ToUpper(source), k) <=>
          k + l <= Len(source) /\ \A i \in 1 .. l : toupper(source[k + i]) = toupper(q[i])
    <3>1. k + l <= Len(source) => \A i \in 1 .. l : k + i \in 1 .. Len(source)
      BY <1>5
    <3> QED
      BY <2>2, <3>1 DEF IsAt
  <2> QED
    BY <1>5, <1>7, <2>1, <2>3 DEF source, bytes
<1> QED
  BY <1>6, <1>7

(* A search gives the first place in the string at which the query is      *)
(* found, if there is one.                                                 *)
LEMMA SearchFinds ==
  ASSUME token \in Strings, token.Ptr # NULL, NEW q \in Seq(Byte \ {0}),
         NEW caseSensitive \in BOOLEAN
  PROVE  LET found == FindStringCase(mem, token, q, caseSensitive)
             at == {k \in 0 .. token.Len - 1 : FoundAt(token, q, k, caseSensitive)}
         IN IF at = {} THEN found = NullString
            ELSE /\ found = Str(token.Ptr + (CHOOSE k \in at : \A j \in at : k <= j), Len(q))
                 /\ caseSensitive => GetAsCString(mem, found) = q
<1> DEFINE n == token.Len
           l == Len(q)
           found == FindStringCase(mem, token, q, caseSensitive)
           at == {k \in 0 .. n - 1 : FoundAt(token, q, k, caseSensitive)}
           bytes == BytesOf(mem, token)
           source == CString(bytes)
           Fits(k) == IF caseSensitive THEN IsAt(q, source, k) ELSE IsAt(ToUpper(q), ToUpper(source), k)
           first == IF caseSensitive THEN strstr(source, q) ELSE strstr(ToUpper(source), ToUpper(q))
<1>1. token.Ptr \in Nat /\ n \in Nat /\ l \in Nat
  BY DEF Strings
<1>2. source \in Seq(Range(bytes)) /\ Len(source) \in 0 .. n
  <2>1. bytes \in Seq(Range(bytes)) /\ Len(bytes) = n
    BY <1>1, BytesAre
  <2> HIDE DEF bytes
  <2> QED
    BY <2>1, CStringIs
<1>3. \A k \in Nat : FoundAt(token, q, k, caseSensitive) <=> Fits(k)
  BY <1>1, FoundIs
<1>4. found = IF n = 0 THEN NullString
              ELSE IF first = NULL \/ first > n THEN NullString ELSE Str(token.Ptr + first, l)
  BY DEF FindStringCase, Terminated
<1> HIDE DEF bytes, source, found
<1>5. \/ first = NULL /\ \A j \in 0 .. Len(source) : ~ Fits(j)
      \/ first \in 0 .. Len(source) /\ Fits(first) /\ \A j \in 0 .. first - 1 : ~ Fits(j)
  <2>1. Len(source) \in Nat /\ Len(ToUpper(source)) = Len(source)
    <3>1. Len(source) \in Nat
      BY <1>1, <1>2
    <3>2. Len(ToUpper(source)) = Len(source)
      BY <1>2, UpperIs
    <3> QED
      BY <3>1, <3>2
  <2>2. CASE caseSensitive
    BY <2>1, <2>2, strstrIs
  <2>3. CASE ~ caseSensitive
    BY <2>1, <2>3, strstrIs
  <2> QED
    BY <2>2, <2>3
<1>6. \A k \in Nat : Fits(k) => k + l <= Len(source)
  <2>1. Len(ToUpper(source)) = Len(source) /\ Len(ToUpper(q)) = l
    BY <1>2, UpperIs
  <2> QED
    BY <2>1 DEF IsAt
<1>7. l = 0 => Fits(0)
  <2> SUFFICES ASSUME l = 0 PROVE Fits(0)
    OBVIOUS
  <2>1. /\ Len(ToUpper(source)) = Len(source) /\ Len(ToUpper(q)) = 0
        /\ DOMAIN ToUpper(q) = {} /\ DOMAIN q = {}
    <3>1. Len(ToUpper(source)) = Len(source)
      BY <1>2, UpperIs
    <3>2. Len(ToUpper(q)) = l /\ DOMAIN ToUpper(q) = 1 .. l
      BY UpperIs
    <3>3. DOMAIN q = 1 .. l /\ 1 .. l = {}
      OBVIOUS
    <3> QED
      BY <3>1, <3>2, <3>3
  <2>2. 0 <= Len(source)
    BY <1>2
  <2> QED
    BY <2>1, <2>2 DEF IsAt
<1> HIDE DEF Fits, first, l, n
<1>8. CASE n = 0 \/ first = NULL
  <2>1. found = NullString
    BY <1>4, <1>8
  <2>2. at = {}
    <3> SUFFICES ASSUME NEW k \in 0 .. n - 1, FoundAt(token, q, k, caseSensitive) PROVE FALSE
      OBVIOUS
    <3>1. k \in Nat /\ Fits(k) /\ n # 0
      BY <1>1, <1>3
    <3>2. k \in 0 .. Len(source)
      BY <1>1, <1>2, <1>6, <3>1
    <3> QED
      BY <1>5, <1>8, <3>1, <3>2 DEF NULL
  <2> QED
    BY <2>1, <2>2 DEF found, n
<1>9. CASE n # 0 /\ first # NULL
  <2>1. /\ first \in 0 .. Len(source) /\ Fits(first) /\ first \in Nat
        /\ \A j \in 0 .. first - 1 : ~ Fits(j)
    BY <1>5, <1>9
  <2>2. first + l <= n /\ found = Str(token.Ptr + first, l)
    <3>1. first + l <= n
      BY <1>1, <1>2, <1>6, <2>1
    <3>2. ~ (first > n)
      BY <1>1, <2>1, <3>1
    <3> QED
      BY <1>4, <1>9, <3>1, <3>2
  <2>3. first \in at
    <3>1. l = 0 => first = 0
      <4> SUFFICES ASSUME l = 0, first # 0 PROVE FALSE
        OBVIOUS
      <4>1. 0 \in 0 .. first - 1
        BY <2>1
      <4> QED
        BY <1>7, <2>1, <4>1
    <3>2. first \in 0 .. n - 1
      BY <1>1, <1>9, <2>1, <2>2, <3>1
    <3> QED
      BY <1>3, <2>1, <3>2
  <2>4. \A j \in at : first <= j
    <3> SUFFICES ASSUME NEW j \in 0 .. n - 1, FoundAt(token, q, j, caseSensitive), ~ (first <= j)
                 PROVE  FALSE
      OBVIOUS
    <3>1. j \in Nat /\ j \in 0 .. first - 1
      BY <2>1
    <3> QED
      BY <1>3, <2>1, <3>1
  <2>5. (CHOOSE k \in at : \A j \in at : k <= j) = first
    <3> DEFINE m == CHOOSE k \in at : \A j \in at : k <= j
    <3>1. \A k \in at : k \in Int
      OBVIOUS
    <3> HIDE DEF at
    <3>2. m \in at /\ \A j \in at : m <= j
      BY <2>3, <2>4
    <3>3. m <= first /\ first <= m /\ m \in Int /\ first \in Int
      BY <2>3, <2>4, <3>1, <3>2
    <3> HIDE DEF m
    <3> QED
      BY <3>3 DEF m
  <2>6. caseSensitive => GetAsCString(mem, found) = q
    <3> SUFFICES ASSUME caseSensitive PROVE GetAsCString(mem, found) = q
      OBVIOUS
    <3> DEFINE b == BytesOf(mem, found)
    <3>1. found.Ptr = token.Ptr + first /\ found.Len = l /\ found.Ptr # NULL
      BY <1>1, <2>1, <2>2 DEF Str, NULL
    <3>2. /\ b \in Seq(Range(b)) /\ Len(b) = l
          /\ \A i \in 1 .. l : b[i] = mem[(token.Ptr + first) + i - 1]
      BY <1>1, <3>1, BytesAre
    <3>3. \A i \in 1 .. l : mem[token.Ptr + first + i - 1] = q[i]
      <4>1. FoundAt(token, q, first, TRUE)
        BY <2>3
      <4>2. \A i \in DOMAIN q : FoldsTo(mem[token.Ptr + first + i - 1], q[i], TRUE)
        BY <4>1 DEF FoundAt
      <4>3. DOMAIN q = 1 .. l
        BY DEF l
      <4> QED
        BY <4>2, <4>3, FoldIs, Zenon
    <3>4. \A i \in 1 .. l : b[i] = q[i]
      BY <3>2, <3>3
    <3> HIDE DEF b
    <3>5. b = q
      BY <1>1, <3>2, <3>4 DEF l
    <3>6. CString(q) = q
      <4> DEFINE c == CString(q)
      <4>1. /\ c \in Seq(Byte \ {0}) /\ Len(c) \in 0 .. l
            /\ \A i \in 1 .. Len(c) : c[i] = q[i]
            /\ \A p \in 0 .. l : (\A i \in 1 .. p : q[i] # 0) <=> p <= Len(c)
        BY CStringIs DEF l
      <4>2. \A i \in 1 .. l : q[i] # 0
        BY DEF l
      <4>3. l <= Len(c)
        BY <1>1, <4>1, <4>2
      <4> HIDE DEF c
      <4>4. Len(c) = l
        BY <1>1, <4>1, <4>3
      <4> QED
        BY <4>1, <4>4 DEF l, c
    <3> QED
      BY <3>1, <3>5, <3>6 DEF GetAsCString, b
  <2> QED
    BY <2>2, <2>3, <2>5, <2>6 DEF found, l, n
<1> QED
  BY <1>8, <1>9

(* FindStringCase finds what is in the token, and nothing behind it        *)
(* (StrPtrLen.cpp:163), whatever memory holds there.                       *)
THEOREM AlwaysFoundInToken == ParserSpec => []FoundInToken
<1>1. ASSUME StringInv PROVE FoundInToken
  <2>1. token \in Strings
    BY <1>1 DEF StringInv, CursorInv
  <2>2. \A q \in Queries : q \in Seq(Byte \ {0})
    BY ParserAssumption
  <2> QED
    BY <2>1, <2>2, SearchFinds DEF FoundInToken, Usable
<1> QED
  BY <1>1, StringAlways, PTL

-----------------------------------------------------------------------------
(* Comparing without case                                                  *)

(* The table that letters are compared by has 130 entries, and is asked    *)
(* for one of its own only if no byte is beyond them.                      *)
InTable == 0 .. 129
TextsInTable ==
  Texts \subseteq Seq(InTable) /\ Beyond \subseteq InTable /\ Queries \subseteq Seq(InTable)

(* Nothing that is done puts a byte into memory that was not there.        *)
MemoryInv ==
  /\ fEndGet # NULL => 0 .. fEndGet \subseteq DOMAIN mem
  /\ \A a \in DOMAIN mem : mem[a] \in InTable

LEMMA MemoryStart ==
  ASSUME TextsInTable, ParserInit
  PROVE  MemoryInv
<1>1. CASE OverNoString
  BY <1>1 DEF OverNoString, Over, MemoryInv
<1>2. ASSUME NEW t \in Texts, NEW behind \in Beyond, OverText(t, behind) PROVE MemoryInv
  <2>1. t \in Seq(InTable) /\ behind \in InTable /\ Len(t) \in Nat /\ fEndGet = Len(t)
    BY <1>2 DEF TextsInTable, OverText, Over
  <2>2. mem = [a \in 0 .. Len(t) |-> IF a = Len(t) THEN behind ELSE t[a + 1]]
    BY <1>2 DEF OverText
  <2>3. DOMAIN mem = 0 .. fEndGet
    BY <2>1, <2>2
  <2>4. ASSUME NEW a \in DOMAIN mem PROVE mem[a] \in InTable
    <3>1. CASE a = Len(t)
      BY <2>1, <2>2, <3>1
    <3>2. CASE a # Len(t)
      <4>1. a + 1 \in 1 .. Len(t) /\ mem[a] = t[a + 1]
        BY <2>1, <2>2, <3>2
      <4> QED
        BY <2>1, <4>1
    <3> QED
      BY <3>1, <3>2
  <2> QED
    BY <2>3, <2>4 DEF MemoryInv
<1> QED
  BY <1>1, <1>2 DEF ParserInit

LEMMA MemoryStep ==
  ASSUME CursorInv, MemoryInv, [ParserNext]_parserVars
  PROVE  MemoryInv'
<1>1. ASSUME UNCHANGED <<mem, fEndGet>> PROVE MemoryInv'
  BY <1>1 DEF MemoryInv
<1>2. ASSUME NEW n, NEW str, NEW val, Consumes(n, str, val) PROVE MemoryInv'
  <2>1. UNCHANGED <<mem, fEndGet>>
    BY <1>2 DEF Consumes, Advance
  <2> QED
    BY <1>1, <2>1
<1>3. ASSUME NEW n, ConsumeLength(n) PROVE MemoryInv'
  <2>1. UNCHANGED <<mem, fEndGet>>
    BY <1>3 DEF ConsumeLength, Consumes, Advance
  <2> QED
    BY <1>1, <2>1
<1>4. ASSUME ConsumeInteger \/ ConsumeFloat \/ ConsumeNPT PROVE MemoryInv'
  <2>1. \E n, str, val : Consumes(n, str, val)
    BY <1>4 DEF ConsumeInteger, ConsumeFloat, ConsumeNPT
  <2> QED
    BY <1>2, <2>1
<1>5. CASE RemoveWhitespace
  <2> DEFINE left == Squeezed(mem, token)
  <2>1. /\ mem' = MemorySqueezed(mem, token) /\ fEndGet' = fEndGet /\ Usable
    BY <1>5 DEF RemoveWhitespace, Becomes
  <2>2. /\ token.Ptr \in Nat /\ token.Len \in Nat /\ token.Ptr + token.Len <= fEndGet
        /\ fEndGet \in Int /\ fEndGet # NULL
    BY <2>1 DEF CursorInv, Strings, Usable, NULL
  <2>3. /\ Len(left) \in Nat /\ DOMAIN left = 1 .. Len(left)
        /\ \A k \in DOMAIN left : \E i \in 1 .. token.Len : left[k] = mem[token.Ptr + i - 1]
    BY <2>2, SqueezedIs
  <2>4. ASSUME NEW k \in DOMAIN left PROVE left[k] \in InTable
    <3>1. PICK i \in 1 .. token.Len : left[k] = mem[token.Ptr + i - 1]
      BY <2>3
    <3>2. token.Ptr + i - 1 \in DOMAIN mem
      <4>1. token.Ptr + i - 1 \in 0 .. fEndGet
        BY <2>2
      <4> QED
        BY <2>2, <4>1 DEF MemoryInv
    <3> QED
      BY <3>1, <3>2 DEF MemoryInv
  <2>5. mem' = [a \in DOMAIN mem |->
                 IF a \in token.Ptr .. token.Ptr + Len(left) - 1
                 THEN left[a - token.Ptr + 1] ELSE mem[a]]
    BY <2>1 DEF MemorySqueezed
  <2> HIDE DEF left
  <2>6. ASSUME NEW a \in DOMAIN mem PROVE mem'[a] \in InTable
    <3>1. CASE a \in token.Ptr .. token.Ptr + Len(left) - 1
      <4>1. a - token.Ptr + 1 \in DOMAIN left
        BY <2>2, <2>3, <3>1
      <4> QED
        BY <2>4, <2>5, <3>1, <4>1
    <3>2. CASE a \notin token.Ptr .. token.Ptr + Len(left) - 1
      BY <2>5, <3>2 DEF MemoryInv
    <3> QED
      BY <3>1, <3>2
  <2>7. DOMAIN mem' = DOMAIN mem
    BY <2>5
  <2> QED
    BY <2>1, <2>6, <2>7 DEF MemoryInv
<1>6. ASSUME UnQuote \/ Trim PROVE MemoryInv'
  <2>1. UNCHANGED <<mem, fEndGet>>
    BY <1>6 DEF UnQuote, Trim, Becomes
  <2> QED
    BY <1>1, <2>1
<1>7. CASE ParserNext
  <2>1. ASSUME NEW stop, ConsumeUntil(stop) PROVE MemoryInv'
    BY <1>2, <2>1 DEF ConsumeUntil
  <2>2. ASSUME NEW c, Expect(c) \/ GetThru(c) PROVE MemoryInv'
    BY <1>2, <2>2 DEF Expect, GetThru
  <2>3. ASSUME ExpectEOL \/ ConsumeEOL \/ GetThruEOL PROVE MemoryInv'
    BY <1>2, <2>3 DEF ExpectEOL, ConsumeEOL, GetThruEOL
  <2> QED
    BY <1>3, <1>4, <1>5, <1>6, <1>7, <2>1, <2>2, <2>3 DEF ParserNext
<1>8. CASE UNCHANGED parserVars
  BY <1>1, <1>8 DEF parserVars
<1> QED
  BY <1>7, <1>8

(* For bytes of the table, what it maps to the same is what is the same in *)
(* upper case.                                                             *)
LEMMA MaskIs ==
  ASSUME NEW b \in InTable, NEW c \in InTable
  PROVE  sCaseInsensitiveMask[b] = sCaseInsensitiveMask[c] <=> toupper(b) = toupper(c)
BY DEF sCaseInsensitiveMask, InTable, toupper

LEMMA SameIs ==
  ASSUME NEW a \in Seq(InTable), NEW b \in Seq(InTable)
  PROVE  EqualIgnoreCase(a, b) <=> ToUpper(a) = ToUpper(b)
<1>1. /\ Len(ToUpper(a)) = Len(a) /\ DOMAIN ToUpper(a) = 1 .. Len(a)
      /\ \A i \in 1 .. Len(a) : ToUpper(a)[i] = toupper(a[i])
      /\ Len(ToUpper(b)) = Len(b) /\ DOMAIN ToUpper(b) = 1 .. Len(b)
      /\ \A i \in 1 .. Len(b) : ToUpper(b)[i] = toupper(b[i])
  BY UpperIs
<1>2. CASE Len(a) = Len(b)
  <2>1. EqualIgnoreCase(a, b) <=>
          \A i \in 1 .. Len(a) : sCaseInsensitiveMask[a[i]] = sCaseInsensitiveMask[b[i]]
    BY <1>2 DEF EqualIgnoreCase, SameBut
  <2>2. \A i \in 1 .. Len(a) : a[i] \in InTable /\ b[i] \in InTable
    BY <1>2
  <2>3. EqualIgnoreCase(a, b) <=> \A i \in 1 .. Len(a) : toupper(a[i]) = toupper(b[i])
    BY <2>1, <2>2, MaskIs
  <2>4. ToUpper(a) = ToUpper(b) <=> \A i \in 1 .. Len(a) : toupper(a[i]) = toupper(b[i])
    <3>1. /\ ToUpper(a) = [i \in 1 .. Len(a) |-> toupper(a[i])]
          /\ ToUpper(b) = [i \in 1 .. Len(a) |-> toupper(b[i])]
      BY <1>2 DEF ToUpper
    <3> QED
      BY <3>1
  <2> QED
    BY <2>3, <2>4
<1>3. CASE Len(a) # Len(b)
  BY <1>1, <1>3 DEF EqualIgnoreCase
<1> QED
  BY <1>2, <1>3

LEMMA CompareIs ==
  ASSUME NEW a \in Seq(InTable), NEW q \in Seq(InTable)
  PROVE  LET same == NumEqualIgnoreCase(a, q, Len(q)) IN
         /\ EqualIgnoreCase(q, a) <=> ToUpper(q) = ToUpper(a)
         /\ EqualIgnoreCase(q, a) <=> same /\ Len(a) = Len(q)
         /\ same <=> Len(q) <= Len(a) /\ ToUpper(q) = ToUpper(SubSeq(a, 1, Len(q)))
<1> DEFINE n == Len(q)
           p == SubSeq(a, 1, n)
           same == NumEqualIgnoreCase(a, q, n)
<1>1. n \in Nat /\ Len(a) \in Nat
  OBVIOUS
<1>2. SubSeq(q, 1, n) = q
  OBVIOUS
<1>3. CASE n <= Len(a)
  <2>1. p \in Seq(InTable) /\ Len(p) = n
    BY <1>1, <1>3, SubSeqProperties
  <2>2. same <=> SameBut(p, q)
    BY <1>2, <1>3 DEF NumEqualIgnoreCase
  <2> HIDE DEF p
  <2>3. SameBut(p, q) <=> EqualIgnoreCase(q, p)
    <3>1. DOMAIN p = 1 .. n /\ DOMAIN q = 1 .. n
      BY <2>1
    <3> QED
      BY <2>1, <3>1 DEF SameBut, EqualIgnoreCase
  <2>4. same <=> ToUpper(q) = ToUpper(p)
    BY <2>1, <2>2, <2>3, SameIs
  <2>5. Len(a) = n => p = a
    BY <1>1 DEF p
  <2>6. EqualIgnoreCase(q, a) => Len(a) = n
    BY DEF EqualIgnoreCase
  <2>7. EqualIgnoreCase(q, a) <=> same /\ Len(a) = n
    <3>1. CASE Len(a) = n
      BY <2>2, <2>3, <2>5, <3>1
    <3>2. CASE Len(a) # n
      BY <2>6, <3>2
    <3> QED
      BY <3>1, <3>2
  <2> HIDE DEF same
  <2> QED
    BY <1>3, <2>4, <2>7, SameIs DEF p, same
<1>4. CASE ~ (n <= Len(a))
  <2>1. ~ same
    BY <1>4 DEF NumEqualIgnoreCase
  <2>2. Len(a) # n
    BY <1>1, <1>4
  <2>3. ~ EqualIgnoreCase(q, a)
    BY <2>2 DEF EqualIgnoreCase
  <2> HIDE DEF same
  <2> QED
    BY <1>4, <2>1, <2>2, <2>3, SameIs DEF same
<1> QED
  BY <1>3, <1>4

(* Whatever is parsed, squeezed and searched for, the search finds what is *)
(* in the string and comparisons without case agree with each other        *)
(* (StrPtrLen.cpp:163), as long as no byte is beyond the table of 130.     *)
THEOREM SearchAlwaysRight ==
  ASSUME TextsInTable PROVE ParserSpec => []SearchRight
<1> DEFINE Inv == StringInv /\ MemoryInv
<1>1. ParserInit => Inv
  BY StringStart, MemoryStart
<1>2. Inv /\ [ParserNext]_parserVars => Inv'
  BY StringStep, MemoryStep DEF StringInv
<1>3. ASSUME Inv PROVE SearchRight
  <2>1. FoundInToken
    <3>1. token \in Strings
      BY <1>3 DEF StringInv, CursorInv
    <3>2. \A q \in Queries : q \in Seq(Byte \ {0})
      BY ParserAssumption
    <3> QED
      BY <3>1, <3>2, SearchFinds DEF FoundInToken, Usable
  <2>2. CaseAgrees
    <3> SUFFICES ASSUME Usable, NEW q \in Queries
                 PROVE  LET bytes == BytesOf(mem, token)
                            same  == NumEqualIgnoreCase(bytes, q, Len(q)) IN
                        /\ EqualIgnoreCase(q, bytes) <=> ToUpper(q) = ToUpper(bytes)
                        /\ EqualIgnoreCase(q, bytes) <=> same /\ Len(bytes) = Len(q)
                        /\ same <=> /\ Len(q) <= Len(bytes)
                                    /\ ToUpper(q) = ToUpper(SubSeq(bytes, 1, Len(q)))
      BY DEF CaseAgrees
    <3> DEFINE bytes == BytesOf(mem, token)
    <3>1. /\ token.Ptr \in Nat /\ token.Len \in Nat /\ token.Ptr + token.Len <= fEndGet
          /\ fEndGet \in Int /\ fEndGet # NULL
      BY <1>3 DEF StringInv, CursorInv, Strings, Usable, NULL
    <3>2. ASSUME NEW i \in 1 .. token.Len PROVE mem[token.Ptr + i - 1] \in InTable
      <4>1. token.Ptr + i - 1 \in 0 .. fEndGet
        BY <3>1
      <4> QED
        BY <1>3, <3>1, <4>1 DEF MemoryInv
    <3>3. bytes = [i \in 1 .. token.Len |-> mem[token.Ptr + i - 1]]
      BY DEF BytesOf
    <3> HIDE DEF bytes
    <3>4. bytes \in [1 .. token.Len -> InTable]
      BY <3>2, <3>3
    <3>5. bytes \in Seq(InTable) /\ q \in Seq(InTable)
      BY <3>1, <3>4 DEF TextsInTable
    <3> QED
      BY <3>5, CompareIs DEF bytes
  <2> QED
    BY <2>1, <2>2 DEF SearchRight
<1> QED
  BY <1>1, <1>2, <1>3, PTL DEF ParserSpec
=============================================================================
