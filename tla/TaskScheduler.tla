---------------------------- MODULE TaskScheduler ----------------------------
(***************************************************************************)
(* The task scheduler of BaseServer: Task.cpp / Task.h, with the parts of  *)
(* atomic.cpp, OSQueue.cpp, OSHeap.cpp and OSRef.cpp it stands on.         *)
(*                                                                         *)
(* A Task is signalled by any thread; the first Signal that finds the      *)
(* kAlive bit of fEvents clear puts the task on the queue of one           *)
(* TaskThread, which runs it.  No mutex guards a task: the kAlive bit is a *)
(* token, and its holder is the only one who may queue, park, run or       *)
(* delete the task.                                                        *)
(*                                                                         *)
(* One step is one access to shared memory: an atomic_xxx of fEvents, one  *)
(* queue operation under the queue's mutex, one reference table operation. *)
(* What a step does besides touches only fields the token protects.        *)
(*                                                                         *)
(* Not here: sMutexRW, which every Run takes for reading (fWriteLock is    *)
(* set by CallLocked only, and nothing calls it), and RemoveThreads, which *)
(* nothing calls.  Time is abstracted: a parked task may expire any time.  *)
(***************************************************************************)
EXTENDS Naturals, Sequences, FiniteSets

CONSTANTS
  Tasks,        \* addresses of Task objects; a freed one may be used again
  Callers,      \* threads that signal tasks they resolved (the EventThread)
  Events,       \* the bits callers signal, kKillEvent among them
  kKillEvent, kIdleEvent, kAlive,
  Timed,        \* the tasks whose Run may ask to be run again after a while
  Pinned,       \* the tasks whose Run may call ForceSameThread
  NumShort,     \* sNumShortTaskThreads
  NumBlocking,  \* sNumBlockingTaskThreads
  PickerWidth,  \* the pickers count modulo this (2^32 in the code)
  NoTask, NoThread

Threads == 0 .. (NumShort + NumBlocking - 1)
Actors  == Callers \cup Threads
Flags   == Events \cup {kIdleEvent, kAlive}

ASSUME ThreadsAssumption ==
  /\ NumShort \in Nat \ {0}
  /\ NumBlocking \in Nat \ {0}
  /\ PickerWidth \in Nat \ {0}
ASSUME NamesAssumption ==
  /\ NoTask \notin Tasks
  /\ NoThread \notin Threads
  /\ Callers \cap Threads = {}
ASSUME FlagsAssumption ==
  /\ kKillEvent \in Events
  /\ kAlive \notin Events \cup {kIdleEvent}
  /\ Timed \subseteq Tasks /\ Pinned \subseteq Tasks

VARIABLES
  fTaskName,      \* per task: "none" (no object), "live_" or "Dead"
  fEvents,        \* per task: the set of its flags, kAlive included
  fUseThisThread, \* per task: the thread it asked for, or NoThread
  pickerToUse,    \* per task: "short" or "blocking"
  picker,         \* sShortTaskThreadPicker and sBlockingTaskThreadPicker
  fTaskQueue,     \* per thread: the tasks queued on it, oldest first
  fHeap,          \* per thread: the tasks parked on its timer heap
  pc,             \* per thread: where TaskThread::Entry stands
  theTask,        \* per thread: the task it holds
  got,            \* per thread: what the GetEvents of this Run read
  sigPc,          \* per actor: where its call of Signal stands
  sigTask,        \* per actor: the task it signals
  sigEvents       \* per actor: the events it signals

taskVars   == <<fTaskName, fEvents, fUseThisThread, pickerToUse>>
threadVars == <<pc, theTask, got>>
sigVars    == <<sigPc, sigTask, sigEvents>>
vars == <<taskVars, picker, fTaskQueue, fHeap, threadVars, sigVars>>

Pickers == {"short", "blocking"}

Elems(seq) == {seq[i] : i \in DOMAIN seq}
Valid(t)   == fTaskName[t] = "live_"

Init ==
  /\ fTaskName = [t \in Tasks |-> "none"]
  /\ fEvents = [t \in Tasks |-> {}]
  /\ fUseThisThread = [t \in Tasks |-> NoThread]
  /\ pickerToUse = [t \in Tasks |-> "short"]
  /\ picker = [p \in Pickers |-> 0]
  /\ fTaskQueue = [th \in Threads |-> <<>>]
  /\ fHeap = [th \in Threads |-> {}]
  /\ pc = [th \in Threads |-> "wait"]
  /\ theTask = [th \in Threads |-> NoTask]
  /\ got = [th \in Threads |-> {}]
  /\ sigPc = [a \in Actors |-> "idle"]
  /\ sigTask = [a \in Actors |-> NoTask]
  /\ sigEvents = [a \in Actors |-> {}]

-----------------------------------------------------------------------------
(* A task is constructed, and from then on the reference table resolves it *)
(* (the listener constructs a session, registers its socket and gives it   *)
(* the blocking picker before it handles another event).                   *)

CreateTask(t, p) ==
  /\ fTaskName[t] = "none"
  /\ fTaskName' = [fTaskName EXCEPT ![t] = "live_"]
  /\ fEvents' = [fEvents EXCEPT ![t] = {}]
  /\ fUseThisThread' = [fUseThisThread EXCEPT ![t] = NoThread]
  /\ pickerToUse' = [pickerToUse EXCEPT ![t] = p]
  /\ UNCHANGED <<picker, fTaskQueue, fHeap, threadVars, sigVars>>

-----------------------------------------------------------------------------
(* Signal, called by a thread that resolved a reference to the task ...    *)

Resolve(a, t, E) ==
  /\ sigPc[a] = "idle"
  /\ fTaskName[t] # "none"
  /\ sigPc' = [sigPc EXCEPT ![a] = "check"]
  /\ sigTask' = [sigTask EXCEPT ![a] = t]
  /\ sigEvents' = [sigEvents EXCEPT ![a] = E]
  /\ UNCHANGED <<taskVars, picker, fTaskQueue, fHeap, threadVars>>

(* ... or by the Run of the task itself, to have itself deleted.           *)
Disconnect(th) ==
  /\ pc[th] = "handle"
  /\ sigPc[th] = "idle"
  /\ kKillEvent \notin fEvents[theTask[th]]
  /\ sigPc' = [sigPc EXCEPT ![th] = "check"]
  /\ sigTask' = [sigTask EXCEPT ![th] = theTask[th]]
  /\ sigEvents' = [sigEvents EXCEPT ![th] = {kKillEvent}]
  /\ UNCHANGED <<taskVars, picker, fTaskQueue, fHeap, threadVars>>

SignalCheck(a) ==
  /\ sigPc[a] = "check"
  /\ sigPc' = [sigPc EXCEPT ![a] = IF Valid(sigTask[a]) THEN "or" ELSE "done"]
  /\ UNCHANGED <<taskVars, picker, fTaskQueue, fHeap, threadVars, sigTask, sigEvents>>

(* atomic_or returns the old flags: who sets kAlive has to queue the task. *)
MustQueue(t) == kAlive \notin fEvents[t]

SignalOr(a) ==
  LET t == sigTask[a] IN
  /\ sigPc[a] = "or"
  /\ fEvents' = [fEvents EXCEPT ![t] = @ \cup sigEvents[a] \cup {kAlive}]
  /\ sigPc' = [sigPc EXCEPT ![a] = IF MustQueue(t) THEN "enqueue" ELSE "done"]
  /\ sigEvents' = [sigEvents EXCEPT ![a] = {}]
  /\ UNCHANGED <<fTaskName, fUseThisThread, pickerToUse, picker, fTaskQueue, fHeap,
                 threadVars, sigTask>>

(* atomic_add returns the new count; blocking tasks avoid the short threads. *)
NextCount(p) == (picker[p] + 1) % PickerWidth

PickThread(t) ==
  IF pickerToUse[t] = "short"
  THEN NextCount("short") % NumShort
  ELSE NumShort + (NextCount("blocking") % NumBlocking)

EnQueue(th, t) ==
  fTaskQueue' = [fTaskQueue EXCEPT ![th] = IF t \in Elems(@) THEN @ ELSE Append(@, t)]

NeverForced(t) == FALSE                              \* wrong: pins ignored
Forced(t) == fUseThisThread[t] # NoThread

SignalEnQueue(a) ==
  LET t == sigTask[a] IN
  /\ sigPc[a] = "enqueue"
  /\ \/ /\ Forced(t)
        /\ EnQueue(fUseThisThread[t], t)
        /\ UNCHANGED picker
     \/ /\ ~Forced(t)
        /\ EnQueue(PickThread(t), t)
        /\ picker' = [picker EXCEPT ![pickerToUse[t]] = NextCount(pickerToUse[t])]
  /\ sigPc' = [sigPc EXCEPT ![a] = "done"]
  /\ UNCHANGED <<taskVars, fHeap, threadVars, sigTask, sigEvents>>

(* Signal returns; a caller then releases the reference.                   *)
Release(a) ==
  /\ sigPc[a] = "done"
  /\ sigPc' = [sigPc EXCEPT ![a] = "idle"]
  /\ sigTask' = [sigTask EXCEPT ![a] = NoTask]
  /\ sigEvents' = [sigEvents EXCEPT ![a] = {}]
  /\ UNCHANGED <<taskVars, picker, fTaskQueue, fHeap, threadVars>>

-----------------------------------------------------------------------------
(* TaskThread::Entry                                                       *)

(* Each Run must ask for its thread anew.                                  *)
EnterRun(th, t) ==
  /\ pc' = [pc EXCEPT ![th] = "run"]
  /\ theTask' = [theTask EXCEPT ![th] = t]
  /\ got' = [got EXCEPT ![th] = {}]
  /\ fUseThisThread' = [fUseThisThread EXCEPT ![t] = NoThread]

(* The thread returns from Entry, for good, when it is given a dead task.  *)
TakeTask(th, t) ==
  \/ /\ Valid(t)
     /\ EnterRun(th, t)
  \/ /\ ~Valid(t)
     /\ pc' = [pc EXCEPT ![th] = "exit"]
     /\ theTask' = [theTask EXCEPT ![th] = t]
     /\ UNCHANGED <<got, fUseThisThread>>

WaitForTimer(th, t) ==
  /\ pc[th] = "wait"
  /\ t \in fHeap[th]
  /\ fHeap' = [fHeap EXCEPT ![th] = @ \ {t}]
  /\ TakeTask(th, t)
  /\ UNCHANGED <<fTaskName, fEvents, pickerToUse, picker, fTaskQueue, sigVars>>

WaitForQueue(th) ==
  /\ pc[th] = "wait"
  /\ fTaskQueue[th] # <<>>
  /\ fTaskQueue' = [fTaskQueue EXCEPT ![th] = Tail(@)]
  /\ TakeTask(th, Head(fTaskQueue[th]))
  /\ UNCHANGED <<fTaskName, fEvents, pickerToUse, picker, fHeap, sigVars>>

(* GetEvents reads the flags and then subtracts what it read: two steps.   *)
ReadsAll(t) == fEvents[t]                            \* wrong: kAlive as well
ReadFlags(t) == fEvents[t] \ {kAlive}

GetEventsRead(th) ==
  /\ pc[th] = "run"
  /\ got' = [got EXCEPT ![th] = ReadFlags(theTask[th])]
  /\ pc' = [pc EXCEPT ![th] = "sub"]
  /\ UNCHANGED <<taskVars, picker, fTaskQueue, fHeap, theTask, sigVars>>

ClearsAll(th) == fEvents[theTask[th]] \cap {kAlive} \* wrong: the unread too
Subtracted(th) == fEvents[theTask[th]] \ got[th]

GetEventsSub(th) ==
  /\ pc[th] = "sub"
  /\ fEvents' = [fEvents EXCEPT ![theTask[th]] = Subtracted(th)]
  /\ pc' = [pc EXCEPT ![th] = "handle"]
  /\ UNCHANGED <<fTaskName, fUseThisThread, pickerToUse, picker, fTaskQueue, fHeap,
                 theTask, got, sigVars>>

ForceSameThread(th) ==
  LET t == theTask[th] IN
  /\ pc[th] = "handle"
  /\ sigPc[th] = "idle"
  /\ t \in Pinned
  /\ fUseThisThread' = [fUseThisThread EXCEPT ![t] = th]
  /\ UNCHANGED <<fTaskName, fEvents, pickerToUse, picker, fTaskQueue, fHeap, threadVars,
                 sigVars>>

(* Run returned -1: the task is marked dead, and its destructor begins.    *)
RunReturnsDelete(th) ==
  /\ pc[th] = "handle"
  /\ sigPc[th] = "idle"
  /\ fTaskName' = [fTaskName EXCEPT ![theTask[th]] = "Dead"]
  /\ pc' = [pc EXCEPT ![th] = "delete"]
  /\ UNCHANGED <<fEvents, fUseThisThread, pickerToUse, picker, fTaskQueue, fHeap,
                 theTask, got, sigVars>>

(* Run returned 0: compare_and_store gives the token back, if no event     *)
(* sneaked in ...                                                          *)
NotCompared(t) == TRUE                               \* wrong: stores anyway
NothingPending(t) == fEvents[t] = {kAlive}

RunEnds(th) ==
  LET t == theTask[th] IN
  /\ pc[th] = "handle"
  /\ sigPc[th] = "idle"
  /\ kKillEvent \notin got[th]
  /\ NothingPending(t)
  /\ fEvents' = [fEvents EXCEPT ![t] = @ \ {kAlive}]
  /\ theTask' = [theTask EXCEPT ![th] = NoTask]
  /\ pc' = [pc EXCEPT ![th] = "wait"]
  /\ got' = [got EXCEPT ![th] = {}]
  /\ UNCHANGED <<fTaskName, fUseThisThread, pickerToUse, picker, fTaskQueue, fHeap, sigVars>>

(* ... or keep it and run again.                                           *)
RunAgain(th) ==
  /\ pc[th] = "handle"
  /\ sigPc[th] = "idle"
  /\ kKillEvent \notin got[th]
  /\ ~NothingPending(theTask[th])
  /\ EnterRun(th, theTask[th])
  /\ UNCHANGED <<fTaskName, fEvents, pickerToUse, picker, fTaskQueue, fHeap, sigVars>>

(* Run returned a timeout: the task goes to this thread's heap ...         *)
RunReturnsTimeout(th) ==
  /\ pc[th] = "handle"
  /\ sigPc[th] = "idle"
  /\ theTask[th] \in Timed
  /\ kKillEvent \notin got[th]
  /\ fHeap' = [fHeap EXCEPT ![th] = @ \cup {theTask[th]}]
  /\ pc' = [pc EXCEPT ![th] = "park"]
  /\ got' = [got EXCEPT ![th] = {}]
  /\ UNCHANGED <<taskVars, picker, fTaskQueue, theTask, sigVars>>

(* ... and is to find kIdleEvent when it expires.                          *)
ParkIdle(th) ==
  /\ pc[th] = "park"
  /\ fEvents' = [fEvents EXCEPT ![theTask[th]] = @ \cup {kIdleEvent}]
  /\ pc' = [pc EXCEPT ![th] = "wait"]
  /\ theTask' = [theTask EXCEPT ![th] = NoTask]
  /\ UNCHANGED <<fTaskName, fUseThisThread, pickerToUse, picker, fTaskQueue, fHeap, got,
                 sigVars>>

(* The destructor of the task's EventContext waits in UnRegister until no  *)
(* caller holds a reference; then the object is gone.                      *)
Referenced(t) == \E a \in Callers : sigTask[a] = t

DeleteTask(th) ==
  LET t == theTask[th] IN
  /\ pc[th] = "delete"
  /\ ~Referenced(t)
  /\ fTaskName' = [fTaskName EXCEPT ![t] = "none"]
  /\ fEvents' = [fEvents EXCEPT ![t] = {}]
  /\ fUseThisThread' = [fUseThisThread EXCEPT ![t] = NoThread]
  /\ pc' = [pc EXCEPT ![th] = "wait"]
  /\ theTask' = [theTask EXCEPT ![th] = NoTask]
  /\ got' = [got EXCEPT ![th] = {}]
  /\ pickerToUse' = [pickerToUse EXCEPT ![t] = "short"]
  /\ UNCHANGED <<picker, fTaskQueue, fHeap, sigVars>>

-----------------------------------------------------------------------------
SignalStep(a) == SignalCheck(a) \/ SignalOr(a) \/ SignalEnQueue(a) \/ Release(a)

RunStep(th) ==
  \/ GetEventsRead(th) \/ GetEventsSub(th)
  \/ Disconnect(th) \/ ForceSameThread(th)
  \/ RunReturnsDelete(th) \/ RunReturnsTimeout(th)
  \/ RunEnds(th) \/ RunAgain(th)

ThreadStep(th) ==
  \/ RunStep(th)
  \/ WaitForQueue(th)
  \/ \E t \in Tasks : WaitForTimer(th, t)
  \/ ParkIdle(th) \/ DeleteTask(th)

NewSignal == \E a \in Callers, t \in Tasks, E \in SUBSET Events : Resolve(a, t, E)

Next ==
  \/ \E t \in Tasks, p \in Pickers : CreateTask(t, p)
  \/ NewSignal
  \/ \E a \in Actors : SignalStep(a)
  \/ \E th \in Threads : ThreadStep(th)

Spec == Init /\ [][Next]_vars

(* Every thread keeps running, and Run returns.  WaitForTask looks at the  *)
(* heap before the queue, but a parked task sleeps for seconds, so the     *)
(* queue is not passed over for ever; and the destructor that waits for a  *)
(* reference gets the table's mutex at some Release.                       *)
Fairness ==
  /\ \A a \in Actors : WF_vars(SignalStep(a))
  /\ \A th \in Threads :
       /\ WF_vars(RunStep(th))
       /\ WF_vars(ParkIdle(th))
       /\ SF_vars(WaitForQueue(th))
       /\ \A t \in Tasks : SF_vars(WaitForTimer(th, t))
       /\ SF_vars(DeleteTask(th))

FairSpec == Spec /\ Fairness

-----------------------------------------------------------------------------
(* Where the token of a task, its kAlive bit, can be: with a call of Signal *)
(* about to queue it, on a queue, on a timer heap, or with the thread that  *)
(* runs it (a thread at "park" has handed it to its heap already).          *)

InRun(th) == pc[th] \in {"run", "sub", "handle", "delete", "exit"}

Places == {"signal", "queue", "heap", "run"} \X Actors

Holds(p, t) ==
  \/ p[1] = "signal" /\ sigPc[p[2]] = "enqueue" /\ sigTask[p[2]] = t
  \/ p[1] = "queue" /\ p[2] \in Threads /\ t \in Elems(fTaskQueue[p[2]])
  \/ p[1] = "heap" /\ p[2] \in Threads /\ t \in fHeap[p[2]]
  \/ p[1] = "run" /\ p[2] \in Threads /\ InRun(p[2]) /\ theTask[p[2]] = t

TypeOK ==
  /\ fTaskName \in [Tasks -> {"none", "live_", "Dead"}]
  /\ fEvents \in [Tasks -> SUBSET Flags]
  /\ fUseThisThread \in [Tasks -> Threads \cup {NoThread}]
  /\ pickerToUse \in [Tasks -> Pickers]
  /\ picker \in [Pickers -> 0 .. PickerWidth - 1]
  /\ fTaskQueue \in [Threads -> Seq(Tasks)]
  /\ fHeap \in [Threads -> SUBSET Tasks]
  /\ pc \in [Threads -> {"wait", "run", "sub", "handle", "park", "delete", "exit"}]
  /\ theTask \in [Threads -> Tasks \cup {NoTask}]
  /\ got \in [Threads -> SUBSET Flags]
  /\ sigPc \in [Actors -> {"idle", "check", "or", "enqueue", "done"}]
  /\ sigTask \in [Actors -> Tasks \cup {NoTask}]
  /\ sigEvents \in [Actors -> SUBSET Events]

(* "we only schedule this task once" (Task.cpp:98-100): the kAlive bit is   *)
(* set exactly when the task is in one place, and then in one place only,   *)
(* once.  EnQueue's Assert(elem->fQueue == NULL) and the heap's             *)
(* Assert(inElem->fCurrentHeap == NULL) follow.                             *)
TokenInOnePlace ==
  \A t \in Tasks :
    /\ kAlive \in fEvents[t] <=> \E p \in Places : Holds(p, t)
    /\ \A p, q \in Places : Holds(p, t) /\ Holds(q, t) => p = q

NoDuplicates(seq) == \A i, j \in DOMAIN seq : seq[i] = seq[j] => i = j

ScheduledOnce ==
  /\ TokenInOnePlace
  /\ \A th \in Threads : NoDuplicates(fTaskQueue[th])

(* "The whole premise of a task is that the Run function cannot be          *)
(* re-entered" (Task.h:146): no two threads run the same task.              *)
RunNotReentered ==
  \A th1, th2 \in Threads :
    InRun(th1) /\ InRun(th2) /\ theTask[th1] = theTask[th2] => th1 = th2

(* A flag is never pending on a task that nobody will run: what Signal set  *)
(* comes with the kAlive bit, and no step takes the bit from the flag.      *)
NoEventWithoutToken == \A t \in Tasks : fEvents[t] # {} => kAlive \in fEvents[t]

(* A task on a queue or on a heap is alive, so no thread ever leaves Entry  *)
(* on the Valid test, and no thread is handed a task that was deleted.      *)
OnlyLiveTasksWait ==
  \A th \in Threads :
    /\ \A t \in Elems(fTaskQueue[th]) \cup fHeap[th] : Valid(t)
    /\ pc[th] # "exit"

(* No thread is inside Signal of a task, and no thread runs a task, whose   *)
(* object is gone: the destructor waits for the references, and the thread  *)
(* that signals without one is the task's own.                              *)
NoUseAfterDelete ==
  /\ \A a \in Actors : sigPc[a] # "idle" => fTaskName[sigTask[a]] # "none"
  /\ \A th \in Threads : InRun(th) => fTaskName[theTask[th]] # "none"

(* How the program counters agree with the tasks: what a thread and a call  *)
(* of Signal hold in each of their states, and who holds a deleted task.    *)
Bookkeeping ==
  /\ \A th \in Threads :
       /\ pc[th] = "wait" <=> theTask[th] = NoTask
       /\ sigPc[th] # "idle" => pc[th] = "handle" /\ sigTask[th] = theTask[th]
       /\ pc[th] = "park" => theTask[th] \in fHeap[th]
       /\ InRun(th) => (pc[th] = "delete" <=> ~Valid(theTask[th]))
       /\ kAlive \notin got[th]
  /\ \A a \in Actors : sigPc[a] = "idle" <=> sigTask[a] = NoTask
  /\ \A t \in Tasks :
       /\ fTaskName[t] = "Dead" => \E th \in Threads : pc[th] = "delete" /\ theTask[th] = t
       /\ fTaskName[t] = "none" => fEvents[t] = {}

(* GetEvents subtracts the flags it read with an arithmetic subtraction, so *)
(* every one of them still has to be set: nobody else clears a flag.        *)
SubtractsSetFlags ==
  \A th \in Threads : pc[th] = "sub" => got[th] \subseteq fEvents[theTask[th]]

(* The inductive invariant.                                                 *)
IInv ==
  /\ TypeOK
  /\ ScheduledOnce
  /\ NoEventWithoutToken
  /\ OnlyLiveTasksWait
  /\ NoUseAfterDelete
  /\ SubtractsSetFlags
  /\ Bookkeeping

(* A step clears a pending event only by returning it from GetEvents to the *)
(* Run of the task, or by deleting the task: no event is dropped on the way *)
(* between two Runs, whatever Signal calls interleave.                      *)
EventsGoToRun ==
  [][\A t \in Tasks :
       \/ fTaskName'[t] = "none"
       \/ \A e \in fEvents[t] \ fEvents'[t] :
            \/ e = kAlive
            \/ \E th \in Threads : theTask[th] = t /\ pc'[th] = "handle" /\ e \in got'[th]
    ]_vars

(* ForceSameThread: "the task ensures that the same task thread will be     *)
(* used for the next call to Run()" (Task.h:116-118).                       *)
PinnedRunsThere ==
  [][\A t \in Tasks, th \in Threads :
       ~(InRun(th) /\ theTask[th] = t) /\ (InRun(th) /\ theTask[th] = t)'
         => fUseThisThread[t] \in {th, NoThread}
    ]_vars

(* "We want to make sure that 100% definitely the task's Run function WILL  *)
(* be invoked when another thread calls Signal" (Task.cpp:275-278): once    *)
(* the signals cease, every pending event is handed to a Run of the task or *)
(* dies with it.                                                            *)
EventuallyRun ==
  <>[][~NewSignal]_vars =>
    \A t \in Tasks : \A e \in Events :
      e \in fEvents[t] ~> (e \notin fEvents[t] \/ fTaskName[t] = "Dead")

-----------------------------------------------------------------------------
(* The scheduler keeps the promises of Task.h: the places a token can be    *)
(* in, seen from the task.                                                  *)

PhaseOf(t) ==
  IF fTaskName[t] = "none" THEN "none"
  ELSE IF fTaskName[t] = "Dead" THEN "deleted"
  ELSE IF \E th \in Threads : InRun(th) /\ theTask[th] = t THEN "running"
  ELSE IF kAlive \in fEvents[t] THEN "scheduled"
  ELSE "rest"

Promise == INSTANCE TaskPromise WITH
  phase <- [t \in Tasks |-> PhaseOf(t)],
  pending <- [t \in Tasks |-> fEvents[t] \ {kAlive}]

(* Every behaviour of the scheduler is one Task.h allows: events are handed *)
(* over once, Runs of a task do not overlap, and a task comes to rest only  *)
(* when nothing is pending on it.                                           *)
KeepsPromise == Promise!Spec
=============================================================================
