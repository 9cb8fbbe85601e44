------------------------------ MODULE JobQueue ------------------------------
(***************************************************************************)
(* The timer and the job queue of main.cpp: the main thread looks at the   *)
(* clock between two sleeps and queues the download jobs that are due, one *)
(* per past interval; thread_job waits on a semaphore, takes the oldest    *)
(* job and does it.                                                        *)
(*                                                                         *)
(* A job is the start of the interval it downloads.  The list is guarded   *)
(* by g_job_mutex, so an append and a removal are one step each; the       *)
(* sem_post comes after the unlock and is a step of its own.  malloc is    *)
(* taken to succeed.                                                       *)
(***************************************************************************)
EXTENDS Integers, Sequences

CONSTANTS
  oxeye_get_interval, \* the length of an interval
  MAX_HITS_NUM,       \* how many intervals the first jobs go back
  StartTimes,         \* when the program may be started
  SleepTimes,         \* what time(NULL) may advance by in sleep(SLEEP_INTERVAL)
  MaxNow              \* bound on the clock

ASSUME IntervalAssumption ==
  /\ oxeye_get_interval \in Nat \ {0}
  /\ MAX_HITS_NUM \in Nat \ {0}
ASSUME ClockAssumption ==
  /\ MaxNow \in Nat
  /\ SleepTimes \subseteq Nat
  /\ \A t \in StartTimes : t \in Nat /\ t > (MAX_HITS_NUM + 1) * oxeye_get_interval

VARIABLES
  now,         \* the clock
  last_time,   \* when main last produced jobs; 0 at the start
  mainPc,      \* "loop", "append", "post" or "sleep"
  toQueue,     \* the jobs main has still to append
  g_job_list,  \* the queue, oldest job first
  g_job_sem,   \* the semaphore
  workerPc,    \* "wait", "out" or "do"
  job_time,    \* the job of thread_job
  produced,    \* history: the jobs produced so far, in order
  done         \* history: the jobs done so far, in order

mainVars   == <<now, last_time, mainPc, toQueue, produced>>
queueVars  == <<g_job_list, g_job_sem>>
workerVars == <<workerPc, job_time, done>>
jobVars    == <<mainVars, queueVars, workerVars>>

Init ==
  /\ now \in StartTimes
  /\ last_time = 0
  /\ mainPc = "loop"
  /\ toQueue = <<>>
  /\ g_job_list = <<>>
  /\ g_job_sem = 0
  /\ workerPc = "wait"
  /\ job_time = 0
  /\ produced = <<>>
  /\ done = <<>>

-----------------------------------------------------------------------------
(* The main thread                                                         *)

(* The start of the last interval that is over.                            *)
JobTime(t) == (t \div oxeye_get_interval) * oxeye_get_interval - oxeye_get_interval

(* The first time round the jobs of the last intervals, oldest first.      *)
LastOnly == <<JobTime(now)>>                         \* wrong: the first time too
JobsDue ==
  IF last_time = 0
  THEN [i \in 1 .. MAX_HITS_NUM |-> JobTime(now) - (MAX_HITS_NUM - i) * oxeye_get_interval]
  ELSE <<JobTime(now)>>

Due == now - last_time >= oxeye_get_interval

Produce ==
  /\ mainPc = "loop"
  /\ Due
  /\ toQueue' = JobsDue
  /\ produced' = produced \o JobsDue
  /\ last_time' = now
  /\ mainPc' = "append"
  /\ UNCHANGED <<now, queueVars, workerVars>>

NothingDue ==
  /\ mainPc = "loop"
  /\ ~Due
  /\ mainPc' = "sleep"
  /\ UNCHANGED <<now, last_time, toQueue, produced, queueVars, workerVars>>

(* job_in_queue: append under the mutex, then post.                        *)
Pushed(list, job) == <<job>> \o list                 \* wrong: at the head
Appended(list, job) == Append(list, job)

AppendJob ==
  /\ mainPc = "append"
  /\ g_job_list' = Appended(g_job_list, Head(toQueue))
  /\ toQueue' = Tail(toQueue)
  /\ mainPc' = "post"
  /\ UNCHANGED <<now, last_time, produced, g_job_sem, workerVars>>

PostedOnce == 1                                      \* wrong: a binary semaphore
Posted == g_job_sem + 1

AfterPost == IF toQueue = <<>> THEN "sleep" ELSE "append"

PostJob ==
  /\ mainPc = "post"
  /\ g_job_sem' = Posted
  /\ mainPc' = AfterPost
  /\ UNCHANGED <<now, last_time, toQueue, produced, g_job_list, workerVars>>

Sleep ==
  /\ mainPc = "sleep"
  /\ \E d \in SleepTimes : now + d <= MaxNow /\ now' = now + d
  /\ mainPc' = "loop"
  /\ UNCHANGED <<last_time, toQueue, produced, queueVars, workerVars>>

-----------------------------------------------------------------------------
(* thread_job                                                              *)

(* Wrong: the thread looks at the queue without waiting for the semaphore. *)
NoSemWait ==
  /\ workerPc = "wait"
  /\ workerPc' = "out"
  /\ UNCHANGED <<mainVars, queueVars, job_time, done>>

SemWait ==
  /\ workerPc = "wait"
  /\ g_job_sem > 0
  /\ g_job_sem' = g_job_sem - 1
  /\ workerPc' = "out"
  /\ UNCHANGED <<mainVars, g_job_list, job_time, done>>

(* job_out_queue leaves job_time 0 when the list is empty, and the thread  *)
(* then waits again.                                                       *)
JobOut ==
  /\ workerPc = "out"
  /\ job_time' = IF g_job_list = <<>> THEN 0 ELSE Head(g_job_list)
  /\ g_job_list' = IF g_job_list = <<>> THEN <<>> ELSE Tail(g_job_list)
  /\ workerPc' = IF job_time' > 0 THEN "do" ELSE "wait"
  /\ UNCHANGED <<mainVars, g_job_sem, done>>

JobDone ==
  /\ workerPc = "do"
  /\ done' = Append(done, job_time)
  /\ workerPc' = "wait"
  /\ UNCHANGED <<mainVars, queueVars, job_time>>

-----------------------------------------------------------------------------
MainStep   == Produce \/ NothingDue \/ AppendJob \/ PostJob
WorkerStep == SemWait \/ JobOut \/ JobDone

Next == MainStep \/ Sleep \/ WorkerStep

Spec == Init /\ [][Next]_jobVars

(* Both threads keep running, and a job ends: the download has a timeout.  *)
FairSpec == Spec /\ WF_jobVars(MainStep) /\ WF_jobVars(WorkerStep)

-----------------------------------------------------------------------------
TypeOK ==
  /\ now \in Nat
  /\ last_time \in Nat
  /\ mainPc \in {"loop", "append", "post", "sleep"}
  /\ workerPc \in {"wait", "out", "do"}
  /\ toQueue \in Seq(Int) /\ g_job_list \in Seq(Int)
  /\ produced \in Seq(Int) /\ done \in Seq(Int)
  /\ g_job_sem \in Nat
  /\ job_time \in Int
  /\ mainPc = "append" => toQueue # <<>>

(* The semaphore counts the jobs on the list that no thread is on its way  *)
(* to post or to take, so job_out_queue never finds the list empty.        *)
SemCountsJobs ==
  Len(g_job_list) = g_job_sem + (IF mainPc = "post" THEN 1 ELSE 0)
                              + (IF workerPc = "out" THEN 1 ELSE 0)

(* Every job produced is done once, in the order of the intervals: none is *)
(* lost or done twice between the three parts it passes through.           *)
InOrder ==
  produced = done \o (IF workerPc = "do" THEN <<job_time>> ELSE <<>>) \o g_job_list \o toQueue
=============================================================================
