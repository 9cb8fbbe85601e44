----------------------------- MODULE HitsCenter -----------------------------
(***************************************************************************)
(* The back half of the program as it runs (main.cpp): the timer and the   *)
(* queue of JobQueue with the do_job of HitsRing as what thread_job does,  *)
(* a step of thread_job at a time, while the timer goes on and the program *)
(* may be killed and started again at any point.  HitsRing takes the jobs  *)
(* it is given on trust; here they come out of the queue.                  *)
(***************************************************************************)
EXTENDS JobQueue

CONSTANTS
  Files, Outside, Connects, MaxRestarts,  \* as in HitsRing
  DownTimes                               \* how long the program may be down

VARIABLES
  g_hits_stats, g_hits_index, g_hits_memo, g_start_time, pc, job, database,
  parsed, restarts,  \* as in HitsRing
  started,    \* history: the interval in which the program was last started
  disturbed   \* history: an interval was passed over, or the program was
              \* started in the first interval of a period

IntervalOf(t) == t \div oxeye_get_interval
LastJob   == IntervalOf(MaxNow)
FirstJobs == {IntervalOf(JobTime(t)) - (MAX_HITS_NUM - 1) : t \in StartTimes}
Gaps      == 1 .. LastJob

R == INSTANCE HitsRing

(* A program killed after its first job asks for intervals after 0.        *)
ASSUME RestartAssumption ==
  /\ DownTimes \subseteq Nat
  /\ \A t \in StartTimes : t >= (2 * MAX_HITS_NUM + 1) * oxeye_get_interval /\ t <= MaxNow

ring == <<g_hits_stats, g_hits_index, g_hits_memo, g_start_time, pc, job, database,
          parsed, restarts>>
vars == <<jobVars, ring, started, disturbed>>

CenterInit ==
  /\ Init
  /\ R!Init
  /\ started = 0
  /\ disturbed = FALSE

-----------------------------------------------------------------------------
Timer(step) == step /\ UNCHANGED <<ring, started, disturbed>>

ProducesJobs ==
  /\ Produce
  /\ IF last_time = 0
     THEN /\ started' = IntervalOf(now)
          /\ disturbed' = (disturbed \/ started' % MAX_HITS_NUM = 0)
     ELSE /\ disturbed' = (disturbed \/ JobTime(now) # JobTime(last_time) + oxeye_get_interval)
          /\ UNCHANGED started
  /\ UNCHANGED ring

(* thread_job gets a job and calls do_job with it.                         *)
TakesJob ==
  /\ JobOut
  /\ IF job_time' > 0 THEN R!Starts(IntervalOf(job_time')) ELSE UNCHANGED ring
  /\ UNCHANGED <<started, disturbed>>

DoesJob ==
  /\ workerPc = "do"
  /\ R!do_job
  /\ UNCHANGED <<jobVars, started, disturbed>>

(* do_job has returned.                                                    *)
EndsJob ==
  /\ pc = "idle"
  /\ JobDone
  /\ UNCHANGED <<ring, started, disturbed>>

(* All the memory of the program is lost, the database is not.  A program  *)
(* killed before its first job is one that was started later.              *)
KilledAndStarted ==
  /\ R!Restart
  /\ \E d \in DownTimes : now + d <= MaxNow /\ now' = now + d
  /\ last_time' = 0
  /\ mainPc' = "loop"
  /\ toQueue' = <<>>
  /\ g_job_list' = <<>>
  /\ g_job_sem' = 0
  /\ workerPc' = "wait"
  /\ job_time' = 0
  /\ produced' = <<>>
  /\ done' = <<>>
  /\ UNCHANGED <<started, disturbed>>

MainGoesOn   == ProducesJobs \/ Timer(NothingDue) \/ Timer(AppendJob) \/ Timer(PostJob)
WorkerGoesOn == Timer(SemWait) \/ TakesJob \/ DoesJob \/ EndsJob

CenterNext == MainGoesOn \/ Timer(Sleep) \/ WorkerGoesOn \/ KilledAndStarted

CenterSpec ==
  /\ CenterInit /\ [][CenterNext]_vars
  /\ WF_vars(MainGoesOn)
  /\ WF_vars(WorkerGoesOn)

-----------------------------------------------------------------------------
(* What the timer and the queue hand to thread_job, over late wakeups and  *)
(* restarts, is what HitsRing assumes of its jobs, and thread_job and the  *)
(* ring go through do_job together.                                        *)
RingSpec == R!Spec

(* Without these, saves lack intervals: HitsRing shows how.                *)
Undisturbed == ~disturbed /\ Files = {"full"} /\ Connects = {TRUE}

(* "10 minutes, 1 statistics. 1 hour, save to database" (main.cpp:481): of *)
(* every period that was not over when the program was started last, all   *)
(* intervals are in one save, those from before the start as well: the     *)
(* first jobs go back that far.  No interval is summed up into two         *)
(* periods, but for those that are asked for again after a restart.        *)
PeriodSaved(p) ==
  \E n \in DOMAIN database :
    /\ database[n].start = p * MAX_HITS_NUM
    /\ {database[n].data[i] : i \in DOMAIN database[n].data} = R!IntervalsOf(p)

PeriodsSaved ==
  Undisturbed =>
    /\ \A p \in R!EndedPeriods :
         started <= p * MAX_HITS_NUM + MAX_HITS_NUM - 1 => PeriodSaved(p)
    /\ restarts = 0 => R!SummedUpOnce

(* thread_job catches up with the timer: with the clock at its bound, all  *)
(* the jobs produced since the last start are done.                        *)
CatchesUp == []<>(done = produced)
=============================================================================
