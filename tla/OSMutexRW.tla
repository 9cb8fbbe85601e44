----------------------------- MODULE OSMutexRW -----------------------------
(***************************************************************************)
(* The readers' and writers' lock of BaseServer (OSMutexRW.cpp), which the *)
(* scheduler's global lock is: its counters under a recursive mutex        *)
(* (OSMutex.cpp) and two conditions on it (OSCond.cpp).  The mutex keeps   *)
(* its holder by hand over a pthread mutex, and a wait on a condition,     *)
(* which releases the pthread mutex, has to undo and redo that.            *)
(***************************************************************************)
EXTENDS Integers, FiniteSets

CONSTANTS
  Readers,  \* the threads that lock for reading
  Writers,  \* the threads that lock for writing
  NoThread

Locking == Readers \cup Writers

(* A thread has the lock once at a time, for reading or for writing.       *)
LockAssumption ==
  /\ NoThread \notin Locking
  /\ Readers \cap Writers = {}
  /\ IsFiniteSet(Locking)

VARIABLES
  pthread,        \* fInternalLock.fMutex: the thread that has locked it
  fHolder,        \* fInternalLock's own idea of that
  fHolderCount,
  fState,         \* -1: writer, 0: free, > 0: readers
  fWriteWaiters, fReadWaiters,
  fReadersCond, fWritersCond, \* the threads that wait on them
  lockPc,         \* per thread: see LockTypeOK
  call            \* per thread: what it is calling, or "none"

mutexVars == <<pthread, fHolder, fHolderCount>>
stateVars == <<fState, fWriteWaiters, fReadWaiters>>
condVars  == <<fReadersCond, fWritersCond>>
lockVars  == <<mutexVars, stateVars, condVars, lockPc, call>>

LockInit ==
  /\ pthread = NoThread /\ fHolder = NoThread /\ fHolderCount = 0
  /\ fState = 0 /\ fWriteWaiters = 0 /\ fReadWaiters = 0
  /\ fReadersCond = {} /\ fWritersCond = {}
  /\ lockPc = [t \in Locking |-> "out"]
  /\ call = [t \in Locking |-> "none"]

GoesTo(t, from, to) == lockPc[t] = from /\ lockPc' = [lockPc EXCEPT ![t] = to]

-----------------------------------------------------------------------------
(* fInternalLock                                                           *)

(* The compare with fHolder is made without the pthread mutex: nobody else *)
(* can make it true or false.                                              *)
RecursiveLock(t) ==
  /\ \/ fHolder = t /\ UNCHANGED <<pthread, fHolder>>
     \/ /\ fHolder # t /\ pthread = NoThread
        /\ pthread' = t /\ fHolder' = t
  /\ fHolderCount' = fHolderCount + 1

RecursiveUnlock(t) ==
  IF fHolder # t THEN UNCHANGED mutexVars
  ELSE /\ fHolderCount' = fHolderCount - 1
       /\ IF fHolderCount' = 0 THEN fHolder' = NoThread /\ pthread' = NoThread
          ELSE UNCHANGED <<fHolder, pthread>>

(* OSCond::TimedWait, up to the wait and after it.                         *)
KeepsHolder == fHolderCount' = fHolderCount /\ UNCHANGED fHolder \* wrong
ForgetsHolder == fHolderCount' = fHolderCount - 1 /\ fHolder' = NoThread
Waits(t, cond) ==
  /\ cond' = cond \cup {t}
  /\ pthread' = NoThread
  /\ ForgetsHolder

Woken(t) == t \notin fReadersCond \cup fWritersCond

WaitEnds(t) ==
  /\ GoesTo(t, "wait", "test")
  /\ Woken(t)
  /\ pthread = NoThread
  /\ pthread' = t /\ fHolder' = t
  /\ fHolderCount' = fHolderCount + 1
  /\ UNCHANGED <<stateVars, condVars, call>>

(* A wait may end early, and ends after eMaxWait.                          *)
WaitEndsForNothing(t) ==
  /\ lockPc[t] = "wait" /\ ~Woken(t)
  /\ fReadersCond' = fReadersCond \ {t} /\ fWritersCond' = fWritersCond \ {t}
  /\ UNCHANGED <<mutexVars, stateVars, lockPc, call>>

OneOf(cond) == IF cond = {} THEN {{}} ELSE {{t} : t \in cond}

-----------------------------------------------------------------------------
Calls == {"LockRead", "TryLockRead", "LockWrite", "TryLockWrite", "Unlock"}
MayCall(t) ==
  IF lockPc[t] = "in" THEN {"Unlock"}
  ELSE (IF t \in Readers THEN {"LockRead", "TryLockRead"} ELSE {})
       \cup (IF t \in Writers THEN {"LockWrite", "TryLockWrite"} ELSE {})

Call(t, op) ==
  /\ lockPc[t] \in {"out", "in"} /\ op \in MayCall(t)
  /\ lockPc' = [lockPc EXCEPT ![t] = "lock"]
  /\ call' = [call EXCEPT ![t] = op]
  /\ UNCHANGED <<mutexVars, stateVars, condVars>>

(* OSMutexLocker locker(&fInternalLock)                                    *)
Enter(t) ==
  /\ GoesTo(t, "lock", "body")
  /\ RecursiveLock(t)
  /\ UNCHANGED <<stateVars, condVars, call>>

(* TryLockRead and TryLockWrite call LockRead and LockWrite, with the      *)
(* mutex held, where those would not wait.                                 *)
WouldWait(t) ==
  IF call[t] = "TryLockRead" THEN fState < 0 \/ fWriteWaiters > 0
  ELSE fState # 0 \/ fWriteWaiters > 0

TryLock(t) ==
  /\ lockPc[t] = "body" /\ call[t] \in {"TryLockRead", "TryLockWrite"}
  /\ IF WouldWait(t)
     THEN /\ lockPc' = [lockPc EXCEPT ![t] = "leave"]
          /\ call' = [call EXCEPT ![t] = "none"]
          /\ UNCHANGED mutexVars
     ELSE /\ call' = [call EXCEPT ![t] = IF @ = "TryLockRead" THEN "LockRead" ELSE "LockWrite"]
          /\ RecursiveLock(t)
          /\ UNCHANGED lockPc
  /\ UNCHANGED <<stateVars, condVars>>

AddWaiter(t) ==
  /\ GoesTo(t, "body", "test")
  /\ \/ call[t] = "LockRead" /\ fReadWaiters' = fReadWaiters + 1 /\ UNCHANGED fWriteWaiters
     \/ call[t] = "LockWrite" /\ fWriteWaiters' = fWriteWaiters + 1 /\ UNCHANGED fReadWaiters
  /\ UNCHANGED <<mutexVars, fState, condVars, call>>

(* LockRead waits for a writer at work and for those that wait, LockWrite  *)
(* for the readers.                                                        *)
ReaderMustWait == fState < 0 \/ fWriteWaiters > 0
WriterMustWait == fState > 0

ReadWaits(t) ==
  /\ call[t] = "LockRead" /\ ReaderMustWait
  /\ GoesTo(t, "test", "wait")
  /\ Waits(t, fReadersCond)
  /\ UNCHANGED <<stateVars, fWritersCond, call>>

ReadGoesIn(t) ==
  /\ call[t] = "LockRead" /\ ~ReaderMustWait
  /\ GoesTo(t, "test", "leave")
  /\ fReadWaiters' = fReadWaiters - 1
  /\ fState' = fState + 1
  /\ UNCHANGED <<mutexVars, fWriteWaiters, condVars, call>>

WriteWaits(t) ==
  /\ call[t] = "LockWrite" /\ WriterMustWait
  /\ GoesTo(t, "test", "wait")
  /\ Waits(t, fWritersCond)
  /\ UNCHANGED <<stateVars, fReadersCond, call>>

WriteGoesIn(t) ==
  /\ call[t] = "LockWrite" /\ ~WriterMustWait
  /\ GoesTo(t, "test", "leave")
  /\ fWriteWaiters' = fWriteWaiters - 1
  /\ fState' = -1
  /\ UNCHANGED <<mutexVars, fReadWaiters, condVars, call>>

UnlockWrite(t) ==
  /\ call[t] = "Unlock" /\ fState < 0
  /\ GoesTo(t, "body", "leave")
  /\ fState' = 0
  /\ IF fWriteWaiters > 0
     THEN /\ \E woken \in OneOf(fWritersCond) : fWritersCond' = fWritersCond \ woken
          /\ UNCHANGED fReadersCond
     ELSE fReadersCond' = {} /\ UNCHANGED fWritersCond
  /\ UNCHANGED <<mutexVars, fWriteWaiters, fReadWaiters, call>>

SignalsNobody == FALSE                               \* wrong: writers sleep on
NoReaderLeft == fState <= 1

UnlockRead(t) ==
  /\ call[t] = "Unlock" /\ fState >= 0
  /\ GoesTo(t, "body", "leave")
  /\ fState' = IF NoReaderLeft THEN 0 ELSE fState - 1
  /\ IF NoReaderLeft
     THEN \E woken \in OneOf(fWritersCond) : fWritersCond' = fWritersCond \ woken
     ELSE UNCHANGED fWritersCond
  /\ UNCHANGED <<mutexVars, fWriteWaiters, fReadWaiters, fReadersCond, call>>

(* The lockers' destructors, the inner one first.                          *)
Leave(t) ==
  /\ lockPc[t] = "leave"
  /\ RecursiveUnlock(t)
  /\ IF fHolderCount' > 0 THEN UNCHANGED <<lockPc, call>>
     ELSE /\ lockPc' = [lockPc EXCEPT ![t] = IF call[t] \in {"LockRead", "LockWrite"} THEN "in" ELSE "out"]
          /\ call' = [call EXCEPT ![t] = "none"]
  /\ UNCHANGED <<stateVars, condVars>>

-----------------------------------------------------------------------------
LockGoesOn(t) ==
  \/ TryLock(t) \/ AddWaiter(t)
  \/ ReadWaits(t) \/ ReadGoesIn(t) \/ WriteWaits(t) \/ WriteGoesIn(t)
  \/ UnlockWrite(t) \/ UnlockRead(t)
  \/ Leave(t)

LockNext ==
  \E t \in Locking :
    \/ \E op \in Calls : Call(t, op)
    \/ Enter(t) \/ WaitEnds(t)
    \/ LockGoesOn(t)
    \/ WaitEndsForNothing(t)

LockSpec == LockInit /\ [][LockNext]_lockVars

-----------------------------------------------------------------------------
LockTypeOK ==
  /\ pthread \in Locking \cup {NoThread} /\ fHolder \in Locking \cup {NoThread}
  /\ fHolderCount \in Nat
  /\ fState \in Int /\ fWriteWaiters \in Nat /\ fReadWaiters \in Nat
  /\ fReadersCond \subseteq Locking /\ fWritersCond \subseteq Locking
  /\ lockPc \in [Locking -> {"out", "lock", "body", "test", "wait", "leave", "in"}]
  /\ call \in [Locking -> Calls \cup {"none"}]

(* fHolder and fHolderCount say who has the pthread mutex, over recursive  *)
(* calls and waits: Assert(fHolder == 0) and Assert(fHolderCount == 1)     *)
(* after each pthread_mutex_lock (OSMutex.cpp:107, 110).                   *)
HasMutex(t) == lockPc[t] \in {"body", "test", "leave"}
HolderKnown ==
  /\ fHolder = pthread
  /\ fHolder = NoThread <=> fHolderCount = 0
  /\ \A t \in Locking : HasMutex(t) <=> pthread = t

(* A thread that has the lock: it is going to leave with it, has left, or  *)
(* has still to give it back.                                              *)
Holds(t) ==
  \/ lockPc[t] = "leave" /\ call[t] \in {"LockRead", "LockWrite"}
  \/ lockPc[t] = "in"
  \/ lockPc[t] \in {"lock", "body"} /\ call[t] = "Unlock"

(* "-1:writer,0:free,>0:readers" (OSMutexRW.h:68) and "only one" (:94):    *)
(* with one thread that writes, it is alone, and fState tells so.          *)
OneWriter == Cardinality(Writers) <= 1
WriterAlone ==
  OneWriter =>
    IF \E t \in Writers : Holds(t)
    THEN fState = -1 /\ \A r \in Locking \ Writers : ~Holds(r)
    ELSE fState = Cardinality({r \in Locking : Holds(r)})

(* Both, in states of the right types.                                     *)
LockRight == LockTypeOK /\ HolderKnown /\ WriterAlone

(* Nobody sleeps on a condition for the lock to be free when it is: unless *)
(* somebody is about to lock or unlock, to whom the lock is then known to  *)
(* be free, those that wait have been woken, whoever was before them.      *)
AtRest(t) == lockPc[t] \in {"out", "wait"} /\ ~(lockPc[t] = "wait" /\ Woken(t))
NobodyForgotten ==
  OneWriter /\ (\A t \in Locking : AtRest(t)) => fReadersCond = {} /\ fWritersCond = {}
=============================================================================
