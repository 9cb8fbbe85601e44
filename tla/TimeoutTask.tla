---------------------------- MODULE TimeoutTask ----------------------------
(***************************************************************************)
(* The scan for timeouts (TimeoutTask.cpp).  Each TimeoutTask is on a      *)
(* queue of the task TimeoutTaskThread, which walks the queue, signals     *)
(* those whose time has come, and asks the scheduler to be run again in    *)
(* time for the next one.  The queue is under fMutex; the timeouts of a    *)
(* task are written without it, one field after the other.                 *)
(***************************************************************************)
EXTENDS OSQueue, FiniteSets

CONSTANTS
  TimeoutTasks,      \* the elements that are a TimeoutTask's
  Second,            \* 1000 milliseconds, in units of the clock
  kIntervalSeconds,
  Timeouts,          \* what SetTimeout may be given; 0 is never
  MaxTime            \* bound: the clock stops here

ASSUME TimeoutAssumption ==
  /\ TimeoutTasks \subseteq QueueElems
  /\ Second \in Nat \ {0} /\ kIntervalSeconds \in Nat \ {0}
  /\ Timeouts \subseteq Nat /\ MaxTime \in Nat

VARIABLES
  milliseconds,       \* OS::Milliseconds()
  fTimeoutInMilSecs, fTimeoutAtThisTime, \* per task
  setting,            \* the tasks of which SetTimeout has written the first of them
  made,               \* the tasks that are constructed, but not yet on the queue
  iter,               \* what Run looks at next; Null if it is at the end
  scanning,           \* whether Run holds fMutex
  curTime, intervalMilli, \* of the Run going on, or of the last one
  due,                \* when the scheduler runs it again
  seen,               \* history: the tasks that Run has looked at
  changed             \* history: the tasks set or destroyed since that Run began

timeoutVars == <<queueVars, milliseconds, fTimeoutInMilSecs, fTimeoutAtThisTime, setting,
                 made, iter, scanning, curTime, intervalMilli, due, seen, changed>>
taskTimes == <<milliseconds, fTimeoutInMilSecs, fTimeoutAtThisTime, setting, made>>
runVars  == <<iter, scanning, curTime, intervalMilli, due, seen, changed>>

ScanInit ==
  /\ milliseconds = 1
  /\ fTimeoutInMilSecs = [t \in TimeoutTasks |-> 0]
  /\ fTimeoutAtThisTime = [t \in TimeoutTasks |-> 0]
  /\ setting = {} /\ made = {}
  /\ iter = Null /\ scanning = FALSE
  /\ curTime = 0 /\ intervalMilli = kIntervalSeconds * Second /\ due = 0
  /\ seen = {} /\ changed = {}
TimeoutInit == QueueInit /\ ScanInit

-----------------------------------------------------------------------------
FromNow(timeout) == IF timeout = 0 THEN 0 ELSE milliseconds + timeout

(* The constructor: SetTimeout, while nobody knows the task, and EnQueue.  *)
Construct(t, timeout) ==
  /\ t \notin fQueue \cup made
  /\ fTimeoutInMilSecs' = [fTimeoutInMilSecs EXCEPT ![t] = timeout]
  /\ fTimeoutAtThisTime' = [fTimeoutAtThisTime EXCEPT ![t] = FromNow(timeout)]
  /\ made' = made \cup {t}
  /\ UNCHANGED <<queueVars, milliseconds, setting, runVars>>

Join(t) ==
  /\ t \in made /\ ~scanning
  /\ EnQueue(t)
  /\ made' = made \ {t}
  /\ UNCHANGED <<milliseconds, fTimeoutInMilSecs, fTimeoutAtThisTime, setting, runVars>>

(* The destructor; the object and its timeouts are gone.                   *)
Destruct(t) ==
  /\ t \in fQueue \ setting /\ ~scanning
  /\ TakeOut(t)
  /\ fTimeoutInMilSecs' = [fTimeoutInMilSecs EXCEPT ![t] = 0]
  /\ fTimeoutAtThisTime' = [fTimeoutAtThisTime EXCEPT ![t] = 0]
  /\ changed' = changed \cup {t}
  /\ UNCHANGED <<milliseconds, setting, made, iter, scanning, curTime, intervalMilli, due, seen>>

SetTimeout(t, timeout) ==
  /\ t \in fQueue \ setting
  /\ fTimeoutInMilSecs' = [fTimeoutInMilSecs EXCEPT ![t] = timeout]
  /\ setting' = setting \cup {t}
  /\ changed' = changed \cup {t}
  /\ UNCHANGED <<queueVars, milliseconds, fTimeoutAtThisTime, made,
                 iter, scanning, curTime, intervalMilli, due, seen>>

SetTimeoutEnds(t) ==
  /\ t \in setting
  /\ fTimeoutAtThisTime' = [fTimeoutAtThisTime EXCEPT ![t] = FromNow(fTimeoutInMilSecs[t])]
  /\ setting' = setting \ {t}
  /\ UNCHANGED <<queueVars, milliseconds, fTimeoutInMilSecs, made, runVars>>

RefreshTimeout(t) ==
  /\ t \in fQueue \ setting
  /\ fTimeoutAtThisTime' = [fTimeoutAtThisTime EXCEPT ![t] = milliseconds + fTimeoutInMilSecs[t]]
  /\ changed' = changed \cup {t}
  /\ UNCHANGED <<queueVars, milliseconds, fTimeoutInMilSecs, setting, made,
                 iter, scanning, curTime, intervalMilli, due, seen>>

-----------------------------------------------------------------------------
(* TimeoutTaskThread::Run                                                  *)
RunBegins ==
  /\ ~scanning /\ milliseconds >= due
  /\ scanning' = TRUE
  /\ curTime' = milliseconds
  /\ intervalMilli' = kIntervalSeconds * Second
  /\ iter' = GetHead
  /\ seen' = {} /\ changed' = setting
  /\ UNCHANGED <<queueVars, taskTimes, due>>

(* A task that is over is signalled, at each scan; for one that is not     *)
(* the next scan is brought forward.                                       *)
IsOver(t) == fTimeoutAtThisTime[t] > 0 /\ curTime >= fTimeoutAtThisTime[t]

LastWins(t) == fTimeoutAtThisTime[t] - curTime + Second  \* wrong: whatever it was
Nearer(t) ==
  LET taskInterval == fTimeoutAtThisTime[t] - curTime
  IN IF ~IsOver(t) /\ taskInterval > 0 /\ fTimeoutInMilSecs[t] > 0 /\ intervalMilli > taskInterval
     THEN taskInterval + Second ELSE intervalMilli

Look ==
  /\ scanning /\ iter # Null
  /\ intervalMilli' = Nearer(iter)
  /\ seen' = seen \cup {iter}
  /\ iter' = IterNext(iter)
  /\ UNCHANGED <<queueVars, taskTimes, scanning, curTime, due, changed>>

RunEnds ==
  /\ scanning /\ iter = Null
  /\ scanning' = FALSE
  /\ due' = milliseconds + intervalMilli
  /\ UNCHANGED <<queueVars, taskTimes, iter, curTime, intervalMilli, seen, changed>>

Passes ==
  /\ milliseconds < MaxTime
  /\ milliseconds' = milliseconds + 1
  /\ UNCHANGED <<queueVars, fTimeoutInMilSecs, fTimeoutAtThisTime, setting, made, runVars>>

TimeoutNext ==
  \/ \E t \in TimeoutTasks, timeout \in Timeouts : Construct(t, timeout) \/ SetTimeout(t, timeout)
  \/ \E t \in TimeoutTasks : Join(t) \/ Destruct(t) \/ SetTimeoutEnds(t) \/ RefreshTimeout(t)
  \/ RunBegins \/ Look \/ RunEnds
  \/ Passes

TimeoutSpec == TimeoutInit /\ [][TimeoutNext]_timeoutVars

-----------------------------------------------------------------------------
(* A scan looks at every task on the queue, and the next one comes at most *)
(* a second for each task after the first timeout it has found to come     *)
(* ("set timeout to 1 second past this task's timeout",                    *)
(* TimeoutTask.cpp:101: each task may push the interval up by as much, for *)
(* one that is over less than a second later still is before it).          *)
WaitsFor(t) ==
  t \in seen \ changed /\ fTimeoutInMilSecs[t] > 0 /\ fTimeoutAtThisTime[t] > curTime
ScannedInTime ==
  /\ scanning /\ iter = Null => seen = fQueue
  /\ ~scanning => \A t \in TimeoutTasks :
       WaitsFor(t) => curTime + intervalMilli
                        <= fTimeoutAtThisTime[t] + Cardinality(seen) * Second
=============================================================================
