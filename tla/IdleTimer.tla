----------------------------- MODULE IdleTimer -----------------------------
(***************************************************************************)
(* The timeouts of IdleTasks (IdleTask.cpp): SetIdleTimer puts a task on   *)
(* the heap of OSHeap, one thread takes off those whose time has come,     *)
(* signals their tasks, and sleeps until the next, or, with none, until    *)
(* SetIdleTimer signals its condition.  The destructor of a task takes it  *)
(* off the heap.                                                           *)
(*                                                                         *)
(* A task's calls come from its own Run, one at a time ("callers must      *)
(* ensure that SetIdleTimer isn't called at the same time as the           *)
(* destructor", IdleTask.h:83).  Waiting on the condition releases         *)
(* fHeapMutex; a wait may also end for no reason, as pthreads allow.       *)
(***************************************************************************)
EXTENDS OSHeap

CONSTANTS
  Delays,     \* what SetIdleTimer is called with
  MaxNow,     \* bound on the clock
  WordSize,   \* what a UInt32 counts to, for the time to sleep
  IdleThread  \* the holder of fHeapMutex that is no task

ASSUME TimerAssumption ==
  /\ MaxNow \in Nat
  /\ WordSize \in Nat \ {0}
  /\ Delays \subseteq 1 .. WordSize - 1   \* longer ones may sleep for ever
  /\ IdleThread \notin Elems \cup {Nil}

VARIABLES
  now,         \* OS::Milliseconds()
  fHeapMutex,  \* its holder, or Nil
  alive,       \* the tasks that are constructed
  callPc,      \* per task: where its call is; "" in none
  idlePc,      \* of the idle thread's Entry
  msec,        \* its locals
  timeoutTime,
  wakeAt,      \* when its timed wait ends
  woken        \* whether its wait has been signalled

taskVars == <<alive, callPc>>
idleVars == <<idlePc, msec, timeoutTime, wakeAt>>
heapButVictim == <<fHeap, fArraySize, fValue, fCurrentHeap, heapPc, pos, moved, cut>>
vars == <<heapVars, now, fHeapMutex, taskVars, idleVars, woken>>

Init ==
  /\ HeapInit
  /\ now = 0
  /\ fHeapMutex = Nil
  /\ alive = Elems
  /\ callPc = [t \in Elems |-> ""]
  /\ idlePc = "top"
  /\ msec = 0 /\ timeoutTime = 0 /\ wakeAt = 0
  /\ woken = FALSE

-----------------------------------------------------------------------------
(* The tasks                                                               *)

Moves(t, from, to) == callPc[t] = from /\ callPc' = [callPc EXCEPT ![t] = to]
Locks(who) == fHeapMutex = Nil /\ fHeapMutex' = who
Unlocks(who) == fHeapMutex = who /\ heapPc = "idle" /\ fHeapMutex' = Nil

(* The test that there is no timeout yet, and SetValue, are outside the    *)
(* mutex.                                                                  *)
SetIdleTimer(t, d) ==
  /\ t \in alive
  /\ ~fCurrentHeap[t]
  /\ now + d <= MaxNow
  /\ fValue' = [fValue EXCEPT ![t] = now + d]
  /\ Moves(t, "", "insert")
  /\ UNCHANGED <<fHeap, fArraySize, fCurrentHeap, heapPc, pos, moved, victim, cut,
                 now, fHeapMutex, alive, idleVars, woken>>

InsertTimer(t) ==
  /\ Moves(t, "insert", "inserting")
  /\ Locks(t)
  /\ Insert(t)
  /\ UNCHANGED <<now, alive, idleVars, woken>>

EndInsert(t) ==
  /\ Moves(t, "inserting", "signal")
  /\ Unlocks(t)
  /\ UNCHANGED <<heapVars, now, alive, idleVars, woken>>

(* fHeapCond.Signal() is lost on a thread that does not wait.              *)
Waiting == idlePc \in {"wait", "timed"}
OnlyUntimed == woken \/ idlePc = "wait"              \* wrong: sleeps on
Signalled == woken \/ Waiting

SignalCond(t) ==
  /\ Moves(t, "signal", "")
  /\ woken' = Signalled
  /\ UNCHANGED <<heapVars, now, fHeapMutex, alive, idleVars>>

(* CancelTimeout, and the destructor, which calls it with the mutex held.  *)
TakeOff(t) ==
  IF fCurrentHeap[t] THEN Remove(t) ELSE UNCHANGED heapVars

CancelTimeout(t) ==
  /\ t \in alive
  /\ Moves(t, "", "cancelling")
  /\ Locks(t)
  /\ TakeOff(t)
  /\ UNCHANGED <<now, alive, idleVars, woken>>

EndCancel(t) ==
  /\ Moves(t, "cancelling", "")
  /\ Unlocks(t)
  /\ victim' = Nil
  /\ UNCHANGED <<heapButVictim, now, alive, idleVars, woken>>

(* Wrong: not in the heap, so there is nothing to wait for.                *)
DestroyUnlocked(t) ==
  /\ t \in alive
  /\ Moves(t, "", "dying")
  /\ IF fCurrentHeap[t] THEN Locks(t) /\ Remove(t)
     ELSE UNCHANGED <<fHeapMutex, heapVars>>
  /\ alive' = IF fCurrentHeap[t] THEN alive ELSE alive \ {t}
  /\ UNCHANGED <<now, idleVars, woken>>

Destroy(t) ==
  /\ t \in alive
  /\ Moves(t, "", "dying")
  /\ Locks(t)
  /\ TakeOff(t)
  /\ UNCHANGED <<now, alive, idleVars, woken>>

EndDestroy(t) ==
  /\ Moves(t, "dying", "")
  /\ Unlocks(t)
  /\ alive' = alive \ {t}
  /\ victim' = Nil
  /\ UNCHANGED <<heapButVictim, now, idleVars, woken>>

(* A task constructed at the place of a deleted one.                       *)
Create(t) ==
  /\ t \notin alive
  /\ callPc[t] = ""
  /\ alive' = alive \cup {t}
  /\ fValue' = [fValue EXCEPT ![t] = 0]
  /\ UNCHANGED <<fHeap, fArraySize, fCurrentHeap, heapPc, pos, moved, victim, cut,
                 now, fHeapMutex, callPc, idleVars, woken>>

-----------------------------------------------------------------------------
(* The idle thread                                                         *)

Goes(from, to) == idlePc = from /\ idlePc' = to

(* With no timeout it waits.  Once woken it reads the clock without        *)
(* another look at the heap.                                               *)
WaitForTimer ==
  /\ fHeap = <<>>
  /\ Goes("top", "wait")
  /\ Unlocks(IdleThread)
  /\ UNCHANGED <<heapVars, now, taskVars, msec, timeoutTime, wakeAt, woken>>

WakesFromWait ==
  /\ Goes("wait", "read")
  /\ Locks(IdleThread)
  /\ woken' = FALSE
  /\ UNCHANGED <<heapVars, now, taskVars, msec, timeoutTime, wakeAt>>

(* Entry takes the mutex before its loop.                                  *)
Starts ==
  /\ idlePc = "top"
  /\ Locks(IdleThread)
  /\ UNCHANGED <<heapVars, now, taskVars, idleVars, woken>>

ReadClock ==
  /\ fHeapMutex = IdleThread
  /\ \/ Goes("read", "pop")
     \/ fHeap # <<>> /\ Goes("top", "pop")
  /\ msec' = now
  /\ UNCHANGED <<heapVars, now, fHeapMutex, taskVars, timeoutTime, wakeAt, woken>>

MinIsDue == fHeap # <<>> /\ fValue[PeekMin] <= msec

PopDue ==
  /\ MinIsDue
  /\ Goes("pop", "popping")
  /\ ExtractMin
  /\ UNCHANGED <<now, fHeapMutex, taskVars, msec, timeoutTime, wakeAt, woken>>

Popped ==
  /\ heapPc = "idle"
  /\ Goes("popping", "signal")
  /\ UNCHANGED <<heapVars, now, fHeapMutex, taskVars, msec, timeoutTime, wakeAt, woken>>

(* elem->Signal(kIdleEvent): what follows is the scheduler's.              *)
SignalTask ==
  /\ Goes("signal", "pop")
  /\ victim' = Nil
  /\ UNCHANGED <<heapButVictim, now, fHeapMutex, taskVars, msec, timeoutTime, wakeAt, woken>>

NothingLeft ==
  /\ fHeap = <<>>
  /\ Goes("pop", "top")
  /\ msec' = 0
  /\ UNCHANGED <<heapVars, now, fHeapMutex, taskVars, timeoutTime, wakeAt, woken>>

(* Wrong: in units of two ticks, of which there may be none.               *)
SleepEndOfUnits ==
  LET units == (fValue[PeekMin] - msec) \div 2 IN
  IF units = 0 THEN -1 ELSE now + 2 * units

(* The time to sleep becomes a UInt32, and an SInt32 in OSCond::Wait: 0    *)
(* waits for the signal alone, a negative time does not wait.              *)
Never == -1
SmallTime == (fValue[PeekMin] - msec) % WordSize
SleepEnd ==
  IF SmallTime = 0 THEN Never
  ELSE IF 2 * SmallTime >= WordSize THEN now ELSE now + SmallTime

Sleep ==
  /\ fHeap # <<>> /\ ~MinIsDue
  /\ Goes("pop", "timed")
  /\ timeoutTime' = fValue[PeekMin]
  /\ wakeAt' = SleepEnd
  /\ msec' = 0
  /\ Unlocks(IdleThread)
  /\ UNCHANGED <<heapVars, now, taskVars, woken>>

WakesFromSleep ==
  /\ Goes("timed", "top")
  /\ Locks(IdleThread)
  /\ timeoutTime' = 0 /\ wakeAt' = 0 /\ woken' = FALSE
  /\ UNCHANGED <<heapVars, now, taskVars, msec>>

-----------------------------------------------------------------------------
HeapStep ==
  /\ HeapGoesOn
  /\ UNCHANGED <<now, fHeapMutex, taskVars, idleVars, woken>>

Tick ==
  /\ now < MaxNow
  /\ now' = now + 1
  /\ UNCHANGED <<heapVars, fHeapMutex, taskVars, idleVars, woken>>

TaskGoesOn(t) ==
  InsertTimer(t) \/ EndInsert(t) \/ SignalCond(t) \/ EndCancel(t) \/ EndDestroy(t)

IdleGoesOn ==
  \/ WaitForTimer \/ ReadClock \/ PopDue \/ Popped \/ SignalTask \/ NothingLeft \/ Sleep

(* The waits that end because they should; a clock at its bound stands for *)
(* any later time.                                                         *)
Elapsed == wakeAt # Never /\ (now >= wakeAt \/ now = MaxNow)

IdleWakes ==
  \/ Starts
  \/ woken /\ WakesFromWait
  \/ (woken \/ Elapsed) /\ WakesFromSleep

WakesForNothing == ~woken /\ (WakesFromWait \/ (~Elapsed /\ WakesFromSleep))

Next ==
  \/ \E t \in Elems :
       \/ \E d \in Delays : SetIdleTimer(t, d)
       \/ CancelTimeout(t) \/ Destroy(t) \/ Create(t)
       \/ TaskGoesOn(t)
  \/ IdleGoesOn \/ IdleWakes \/ WakesForNothing
  \/ HeapStep
  \/ Tick

Spec == Init /\ [][Next]_vars

(* The clock and the threads go on, and whoever waits for the mutex gets   *)
(* it at some time.                                                        *)
TimerFairness ==
  /\ WF_vars(Tick) /\ WF_vars(HeapStep) /\ WF_vars(IdleGoesOn) /\ SF_vars(IdleWakes)
  /\ \A t \in Elems : SF_vars(TaskGoesOn(t))
FairSpec == Spec /\ TimerFairness

-----------------------------------------------------------------------------
TypeOK ==
  /\ HeapTypeOK
  /\ now \in 0 .. MaxNow
  /\ fHeapMutex \in Elems \cup {IdleThread, Nil}
  /\ alive \subseteq Elems
  /\ callPc \in [Elems -> {"", "insert", "inserting", "signal", "cancelling", "dying"}]
  /\ idlePc \in {"top", "wait", "read", "pop", "popping", "signal", "timed"}
  /\ msec \in Nat /\ timeoutTime \in Nat /\ wakeAt \in Nat \cup {Never}
  /\ woken \in BOOLEAN

(* The idle thread never sleeps past a timeout: a timeout in the heap is   *)
(* not before the one it sleeps for, or the thread has been woken, or the  *)
(* task that put it there has still to signal the condition.  So as long   *)
(* as no removal has left a leaf under a greater parent (OSHeap), which    *)
(* takes six timeouts.                                                     *)
NeverOversleeps ==
  Waiting /\ ~woken /\ ~cut =>
    \A t \in Elems :
      fCurrentHeap[t] =>
        \/ callPc[t] \in {"inserting", "signal"}
        \/ idlePc = "timed" /\ timeoutTime <= fValue[t]

(* In states of the right types: no task is signalled, and none is on the  *)
(* heap, whose object is gone: the thread signals with the mutex held, and *)
(* the destructor takes it.                                                *)
NoneAfterDelete ==
  /\ TypeOK
  /\ idlePc \in {"popping", "signal"} => victim \in alive
  /\ \A t \in Elems : fCurrentHeap[t] => t \in alive

(* "This object will receive an OS_IDLE event" (IdleTask.h:88): a timeout  *)
(* that is set comes off the heap, by its time having come or by its task. *)
EventuallyOff == \A t \in Elems : callPc[t] = "insert" ~> ~fCurrentHeap[t] /\ callPc[t] = ""
=============================================================================
