-------------------------- MODULE HitsCenterProofs --------------------------
(***************************************************************************)
(* The back half of the program, for any interval, clock, number of slots  *)
(* and kills: the semaphore and the job list of JobQueue; that the timer   *)
(* and the queue give thread_job the jobs that HitsRing assumes, so that   *)
(* HitsCenter implements HitsRing; and that every period is saved.         *)
(***************************************************************************)
EXTENDS HitsCenter, SequenceLemmas, SequenceTheorems

-----------------------------------------------------------------------------
(* The semaphore and the job list, of the timer and thread_job alone.      *)

(* The part of the type invariant that the count rests on.                 *)
QueueInv ==
  /\ now \in Nat
  /\ g_job_list \in Seq(Int) /\ toQueue \in Seq(Int)
  /\ g_job_sem \in Nat
  /\ mainPc = "append" => toQueue # <<>>
  /\ SemCountsJobs

(* There is always something to append after Produce.                      *)
LEMMA JobsDueType ==
  ASSUME now \in Nat
  PROVE  JobsDue \in Seq(Int) /\ JobsDue # <<>>
<1>1. JobTime(now) \in Int
  BY IntervalAssumption DEF JobTime
<1>2. CASE last_time = 0
  <2>1. \A i \in 1 .. MAX_HITS_NUM :
          JobTime(now) - (MAX_HITS_NUM - i) * oxeye_get_interval \in Int
    BY <1>1, IntervalAssumption
  <2> QED
    BY <1>2, <2>1, IntervalAssumption DEF JobsDue
<1>3. CASE last_time # 0
  BY <1>1, <1>3 DEF JobsDue
<1> QED
  BY <1>2, <1>3

LEMMA QueueInit == Init => QueueInv
  BY ClockAssumption DEF Init, QueueInv, SemCountsJobs

LEMMA QueueStep == QueueInv /\ [Next]_jobVars => QueueInv'
<1> SUFFICES ASSUME QueueInv, [Next]_jobVars PROVE QueueInv'
  OBVIOUS
<1> USE DEF QueueInv, SemCountsJobs
<1>1. CASE Produce
  BY <1>1, JobsDueType DEF Produce, queueVars, workerVars
<1>2. CASE NothingDue
  BY <1>2 DEF NothingDue, queueVars, workerVars
<1>3. CASE AppendJob
  <2>1. /\ Head(toQueue) \in Int /\ Tail(toQueue) \in Seq(Int)
        /\ mainPc = "append" /\ mainPc' = "post"
        /\ UNCHANGED <<now, g_job_sem, workerPc>>
    BY <1>3 DEF AppendJob, workerVars
  <2>2. /\ g_job_list' \in Seq(Int)
        /\ Len(g_job_list') = Len(g_job_list) + 1
    BY <1>3, <2>1 DEF AppendJob, Appended
  <2> QED
    BY <1>3, <2>1, <2>2 DEF AppendJob
<1>4. CASE PostJob
  BY <1>4 DEF PostJob, Posted, AfterPost, workerVars
<1>5. CASE Sleep
  <2>1. now' \in Nat /\ mainPc = "sleep" /\ mainPc' = "loop"
    BY <1>5, ClockAssumption DEF Sleep
  <2> QED
    BY <1>5, <2>1 DEF Sleep, queueVars, workerVars
<1>6. CASE SemWait
  BY <1>6 DEF SemWait, mainVars
<1>7. CASE JobOut
  (* The post that let the thread through was for a job on the list.       *)
  <2>1. workerPc = "out" /\ workerPc' # "out" /\ UNCHANGED <<mainVars, g_job_sem>>
    BY <1>7 DEF JobOut
  <2>2. g_job_list # <<>>
    BY <2>1
  <2>3. g_job_list' \in Seq(Int) /\ Len(g_job_list') = Len(g_job_list) - 1
    BY <1>7, <2>2 DEF JobOut
  <2> QED
    BY <2>1, <2>3 DEF mainVars
<1>8. CASE JobDone
  BY <1>8 DEF JobDone, mainVars, queueVars
<1>9. CASE UNCHANGED jobVars
  BY <1>9 DEF jobVars, mainVars, queueVars, workerVars
<1> QED
  BY <1>1, <1>2, <1>3, <1>4, <1>5, <1>6, <1>7, <1>8, <1>9 DEF Next, MainStep, WorkerStep

(* The semaphore and the list agree but for the posts and the removals     *)
(* under way, so thread_job never finds the list empty.                    *)
THEOREM SemMatches == Spec => []SemCountsJobs
<1>1. QueueInv => SemCountsJobs
  BY DEF QueueInv
<1> QED
  BY QueueInit, QueueStep, <1>1, PTL DEF Spec
-----------------------------------------------------------------------------
(* All the types.                                                          *)
LEMMA TypesInit == Init => TypeOK
  BY ClockAssumption DEF Init, TypeOK

LEMMA TypesStep == TypeOK /\ [Next]_jobVars => TypeOK'
<1> SUFFICES ASSUME TypeOK, [Next]_jobVars PROVE TypeOK'
  OBVIOUS
<1> USE DEF TypeOK
<1>1. CASE Produce
  <2>1. JobsDue \in Seq(Int) /\ JobsDue # <<>>
    BY JobsDueType
  <2>2. produced \o JobsDue \in Seq(Int)
    BY <2>1, ConcatProperties
  <2> QED
    BY <1>1, <2>1, <2>2 DEF Produce, queueVars, workerVars
<1>2. CASE NothingDue
  BY <1>2 DEF NothingDue, queueVars, workerVars
<1>3. CASE AppendJob
  <2>1. Head(toQueue) \in Int /\ Tail(toQueue) \in Seq(Int)
    BY <1>3, HeadTailProperties DEF AppendJob
  <2>2. Append(g_job_list, Head(toQueue)) \in Seq(Int)
    BY <2>1, AppendProperties
  <2> QED
    BY <1>3, <2>1, <2>2 DEF AppendJob, Appended, workerVars
<1>4. CASE PostJob
  BY <1>4 DEF PostJob, Posted, AfterPost, workerVars
<1>5. CASE Sleep
  BY <1>5, ClockAssumption DEF Sleep, queueVars, workerVars
<1>6. CASE SemWait
  BY <1>6 DEF SemWait, mainVars
<1>7. CASE JobOut
  <2>1. g_job_list # <<>> => Head(g_job_list) \in Int /\ Tail(g_job_list) \in Seq(Int)
    BY HeadTailProperties
  <2>2. job_time' \in Int /\ g_job_list' \in Seq(Int)
    BY <1>7, <2>1 DEF JobOut
  <2> QED
    BY <1>7, <2>2 DEF JobOut, mainVars
<1>8. CASE JobDone
  <2>1. Append(done, job_time) \in Seq(Int)
    BY AppendProperties
  <2> QED
    BY <1>8, <2>1 DEF JobDone, mainVars, queueVars
<1>9. CASE UNCHANGED jobVars
  BY <1>9 DEF jobVars, mainVars, queueVars, workerVars
<1> QED
  BY <1>1, <1>2, <1>3, <1>4, <1>5, <1>6, <1>7, <1>8, <1>9 DEF Next, MainStep, WorkerStep

-----------------------------------------------------------------------------
(* thread_job takes a job_time of 0 for an empty list, so that jobs get    *)
(* lost if they are not positive; the clock is late enough for that.       *)
Positive(list) == \A i \in 1 .. Len(list) : list[i] > 0

Late == now > (MAX_HITS_NUM + 1) * oxeye_get_interval

OrderInv ==
  /\ TypeOK
  /\ Late
  /\ Positive(g_job_list) /\ Positive(toQueue)
  /\ mainPc \in {"loop", "sleep"} => toQueue = <<>>
  /\ InOrder

(* The earliest of the first jobs is after 0.                              *)
LEMMA LateDivides ==
  ASSUME NEW I \in Nat \ {0}, NEW n \in Nat \ {0}, NEW t \in Nat, t > (n + 1) * I
  PROVE  (t \div I) * I - I - (n - 1) * I > 0
<1> DEFINE q == t \div I
<1>1. q \in Nat /\ t < (q + 1) * I
  OBVIOUS
<1>2. q >= n + 1
  <2>1. SUFFICES ASSUME q + 1 <= n + 1 PROVE FALSE
    BY <1>1
  <2>2. (q + 1) * I <= (n + 1) * I
    BY <1>1, <2>1
  <2> QED
    BY <1>1, <2>2
<1>3. q * I >= (n + 1) * I
  BY <1>1, <1>2
<1>4. (n + 1) * I - I - (n - 1) * I = I
  OBVIOUS
<1> QED
  BY <1>1, <1>3, <1>4

LEMMA JobsDuePositive ==
  ASSUME now \in Nat, Late
  PROVE  Positive(JobsDue)
<1>1. oxeye_get_interval \in Nat \ {0} /\ MAX_HITS_NUM \in Nat \ {0}
  BY IntervalAssumption
<1>2. JobTime(now) \in Int /\ JobTime(now) - (MAX_HITS_NUM - 1) * oxeye_get_interval > 0
  BY <1>1, LateDivides DEF JobTime, Late
<1>3. \A i \in 1 .. MAX_HITS_NUM :
        JobTime(now) - (MAX_HITS_NUM - i) * oxeye_get_interval > 0
  <2> SUFFICES ASSUME NEW i \in 1 .. MAX_HITS_NUM
               PROVE  JobTime(now) - (MAX_HITS_NUM - i) * oxeye_get_interval > 0
    OBVIOUS
  <2>1. (MAX_HITS_NUM - i) * oxeye_get_interval <= (MAX_HITS_NUM - 1) * oxeye_get_interval
    BY <1>1
  <2> QED
    BY <1>1, <1>2, <2>1
<1>4. JobTime(now) > 0
  BY <1>1, <1>3 DEF JobTime
<1> QED
  BY <1>1, <1>3, <1>4 DEF Positive, JobsDue

(* A sequence is its head before its tail.                                 *)
LEMMA HeadBeforeTail ==
  ASSUME NEW s \in Seq(Int), s # <<>>
  PROVE  <<Head(s)>> \o Tail(s) = s
<1> DEFINE t == <<Head(s)>> \o Tail(s)
<1>1. /\ Head(s) \in Int /\ <<Head(s)>> \in Seq(Int) /\ Tail(s) \in Seq(Int)
      /\ Len(Tail(s)) = Len(s) - 1 /\ Len(s) \in Nat
      /\ Head(s) = s[1]
      /\ \A i \in 1 .. Len(Tail(s)) : Tail(s)[i] = s[i + 1]
  BY HeadTailProperties, LenProperties
<1>2. /\ t \in Seq(Int) /\ Len(t) = Len(s)
      /\ \A i \in 1 .. Len(s) : t[i] = IF i <= 1 THEN Head(s) ELSE Tail(s)[i - 1]
  BY <1>1, ConcatProperties
<1>3. \A i \in 1 .. Len(s) : t[i] = s[i]
  BY <1>1, <1>2
<1> QED
  BY <1>2, <1>3, SeqEqual

(* The head may be moved from a sequence to the one before it.             *)
LEMMA HeadMoves ==
  ASSUME NEW r \in Seq(Int), NEW s \in Seq(Int), s # <<>>
  PROVE  (r \o <<Head(s)>>) \o Tail(s) = r \o s
<1>1. <<Head(s)>> \in Seq(Int) /\ Tail(s) \in Seq(Int)
  BY HeadTailProperties
<1>2. (r \o <<Head(s)>>) \o Tail(s) = r \o (<<Head(s)>> \o Tail(s))
  BY <1>1, ConcatAssociative
<1> QED
  BY <1>2, HeadBeforeTail

LEMMA AppendMoves ==
  ASSUME NEW r \in Seq(Int), NEW s \in Seq(Int), NEW e \in Int
  PROVE  r \o Append(s, e) = (r \o s) \o <<e>>
<1>1. <<e>> \in Seq(Int) /\ Append(s, e) = s \o <<e>>
  BY AppendIsConcat
<1>2. (r \o s) \o <<e>> = r \o (s \o <<e>>)
  BY <1>1, ConcatAssociative
<1> QED
  BY <1>1, <1>2

LEMMA TailPositive ==
  ASSUME NEW s \in Seq(Int), s # <<>>, Positive(s)
  PROVE  Head(s) > 0 /\ Positive(Tail(s))
<1>1. /\ Len(Tail(s)) = Len(s) - 1 /\ Len(s) \in Nat \ {0}
      /\ Head(s) = s[1]
      /\ \A i \in 1 .. Len(Tail(s)) : Tail(s)[i] = s[i + 1]
  BY HeadTailProperties, LenProperties
<1> QED
  BY <1>1 DEF Positive

LEMMA AppendPositive ==
  ASSUME NEW s \in Seq(Int), Positive(s), NEW e \in Int, e > 0
  PROVE  Positive(Append(s, e))
<1>1. /\ Len(Append(s, e)) = Len(s) + 1 /\ Len(s) \in Nat
      /\ \A i \in 1 .. Len(s) : Append(s, e)[i] = s[i]
      /\ Append(s, e)[Len(s) + 1] = e
  BY AppendProperties, LenProperties
<1> QED
  BY <1>1 DEF Positive

LEMMA OrderInit == Init => OrderInv
<1> SUFFICES ASSUME Init PROVE OrderInv
  OBVIOUS
<1>1. TypeOK /\ Late
  BY TypesInit, ClockAssumption DEF Init, Late
<1> QED
  BY <1>1 DEF Init, OrderInv, Positive, InOrder

(* What is under way to be done, with the place of the worker.             *)
InHand == IF workerPc = "do" THEN <<job_time>> ELSE <<>>

LEMMA OrderStep == OrderInv /\ [Next]_jobVars => OrderInv'
<1> SUFFICES ASSUME OrderInv, [Next]_jobVars PROVE OrderInv'
  OBVIOUS
<1>0. /\ TypeOK /\ TypeOK'
      /\ produced = done \o InHand \o g_job_list \o toQueue
      /\ InHand \in Seq(Int) /\ done \o InHand \in Seq(Int)
      /\ done \o InHand \o g_job_list \in Seq(Int)
  <2>1. TypeOK /\ TypeOK' /\ InHand \in Seq(Int)
    BY TypesStep DEF OrderInv, TypeOK, InHand
  <2>2. done \o InHand \in Seq(Int)
    BY <2>1, ConcatProperties DEF TypeOK
  <2>3. done \o InHand \o g_job_list \in Seq(Int)
    BY <2>1, <2>2, ConcatProperties DEF TypeOK
  <2> QED
    BY <2>1, <2>2, <2>3 DEF OrderInv, InOrder, InHand
<1> USE DEF OrderInv
<1>1. CASE Produce
  <2>1. /\ JobsDue \in Seq(Int) /\ Positive(JobsDue)
        /\ toQueue = <<>> /\ toQueue' = JobsDue /\ mainPc' = "append"
        /\ produced' = produced \o JobsDue
        /\ UNCHANGED <<now, queueVars, workerVars>>
    BY <1>0, <1>1, JobsDueType, JobsDuePositive DEF Produce, TypeOK
  <2>2. produced = done \o InHand \o g_job_list
    BY <1>0, <2>1, ConcatEmptySeq
  <2> QED
    BY <1>0, <2>1, <2>2 DEF queueVars, workerVars, InHand, InOrder, Late, Positive
<1>2. CASE NothingDue
  BY <1>0, <1>2 DEF NothingDue, queueVars, workerVars, InOrder, Late, Positive
<1>3. CASE AppendJob
  <2>1. /\ toQueue # <<>> /\ Head(toQueue) \in Int /\ Tail(toQueue) \in Seq(Int)
        /\ g_job_list' = Append(g_job_list, Head(toQueue)) /\ toQueue' = Tail(toQueue)
        /\ mainPc' = "post"
        /\ UNCHANGED <<now, produced, workerVars>>
    BY <1>0, <1>3, HeadTailProperties DEF AppendJob, Appended, TypeOK
  <2>2. Positive(g_job_list') /\ Positive(toQueue')
    BY <1>0, <2>1, TailPositive, AppendPositive DEF TypeOK
  <2> DEFINE before == done \o InHand
  <2>3. before \o Append(g_job_list, Head(toQueue)) = (before \o g_job_list) \o <<Head(toQueue)>>
    <3>1. before \in Seq(Int) /\ g_job_list \in Seq(Int) /\ Head(toQueue) \in Int
      BY <1>0, <2>1 DEF TypeOK
    <3> HIDE DEF before
    <3> QED
      BY <3>1, AppendMoves
  <2>4. ((before \o g_job_list) \o <<Head(toQueue)>>) \o Tail(toQueue)
          = (before \o g_job_list) \o toQueue
    BY <1>0, <2>1, HeadMoves DEF TypeOK
  <2>5. produced' = before \o g_job_list' \o toQueue' /\ InHand' = InHand
    BY <1>0, <2>1, <2>3, <2>4 DEF workerVars, InHand
  <2> QED
    BY <1>0, <2>1, <2>2, <2>5 DEF workerVars, InOrder, InHand, Late
<1>4. CASE PostJob
  BY <1>0, <1>4 DEF PostJob, AfterPost, workerVars, InOrder, Late, Positive
<1>5. CASE Sleep
  <2>1. now' >= now /\ mainPc = "sleep" /\ UNCHANGED <<toQueue, produced, queueVars, workerVars>>
    BY <1>0, <1>5, ClockAssumption DEF Sleep, TypeOK
  <2>2. Late'
    BY <1>0, <2>1, IntervalAssumption DEF Late, TypeOK
  <2> QED
    BY <1>0, <2>1, <2>2 DEF queueVars, workerVars, InOrder, Positive
<1>6. CASE SemWait
  BY <1>0, <1>6 DEF SemWait, mainVars, InOrder, Late, Positive
<1>7. CASE JobOut
  <2>1. CASE g_job_list = <<>>
    <3>1. /\ g_job_list' = g_job_list /\ workerPc = "out" /\ workerPc' = "wait"
          /\ UNCHANGED <<mainVars, done>>
      BY <1>7, <2>1 DEF JobOut
    <3> QED
      BY <1>0, <3>1 DEF mainVars, InOrder, Late, Positive
  <2>2. CASE g_job_list # <<>>
    <3>1. /\ Head(g_job_list) > 0 /\ Positive(Tail(g_job_list))
          /\ Head(g_job_list) \in Int /\ Tail(g_job_list) \in Seq(Int)
      BY <1>0, <2>2, TailPositive, HeadTailProperties DEF TypeOK
    <3>2. /\ job_time' = Head(g_job_list) /\ g_job_list' = Tail(g_job_list)
          /\ workerPc = "out" /\ workerPc' = "do"
          /\ UNCHANGED <<mainVars, done>>
      BY <1>7, <2>2, <3>1 DEF JobOut
    <3>3. InHand' = <<Head(g_job_list)>> /\ InHand = <<>>
      BY <3>2 DEF InHand
    <3>4. done \o InHand = done
      BY <1>0, <3>3, ConcatEmptySeq DEF TypeOK
    <3>5. (done \o <<Head(g_job_list)>>) \o Tail(g_job_list) = done \o g_job_list
      BY <1>0, <2>2, HeadMoves DEF TypeOK
    <3>6. InOrder'
      BY <1>0, <3>2, <3>3, <3>4, <3>5 DEF InOrder, InHand, mainVars
    <3> QED
      BY <1>0, <3>1, <3>2, <3>6 DEF mainVars, Late, Positive
  <2> QED
    BY <2>1, <2>2
<1>8. CASE JobDone
  <2>1. /\ workerPc = "do" /\ done' = Append(done, job_time) /\ workerPc' = "wait"
        /\ UNCHANGED <<mainVars, queueVars, job_time>>
    BY <1>8 DEF JobDone
  <2>2. done' = done \o InHand /\ InHand' = <<>>
    BY <1>0, <2>1, AppendIsConcat DEF InHand, TypeOK
  <2>3. done' \o InHand' = done'
    BY <1>0, <2>2, ConcatEmptySeq DEF TypeOK
  <2> QED
    BY <1>0, <2>1, <2>2, <2>3 DEF mainVars, queueVars, InOrder, InHand, Late, Positive
<1>9. CASE UNCHANGED jobVars
  BY <1>0, <1>9 DEF jobVars, mainVars, queueVars, workerVars, InOrder, Late, Positive
<1> QED
  BY <1>1, <1>2, <1>3, <1>4, <1>5, <1>6, <1>7, <1>8, <1>9 DEF Next, MainStep, WorkerStep

(* Every job produced passes through the queue once and in order: the jobs *)
(* done, the one in hand, those on the list and those still to be appended *)
(* are together the jobs produced.                                         *)
THEOREM JobsInOrder == Spec => []InOrder
<1>1. OrderInv => InOrder
  BY DEF OrderInv
<1> QED
  BY OrderInit, OrderStep, <1>1, PTL DEF Spec

-----------------------------------------------------------------------------
(* HitsCenter: the jobs that wait.                                         *)

(* The interval of a job: jobs are compared by it.                         *)
Ascending(list) ==
  \A i, k \in 1 .. Len(list) : i < k => IntervalOf(list[i]) < IntervalOf(list[k])

(* Later than the job in hand, and over when main looked at the clock.     *)
Waiting(list) ==
  \A i \in 1 .. Len(list) :
    /\ list[i] \in Nat \ {0}
    /\ IntervalOf(list[i]) \in job + 1 .. IntervalOf(last_time) - 1

(* The job thread_job gets next.                                           *)
NextIs(S) ==
  IF g_job_list # <<>> THEN IntervalOf(g_job_list[1]) \in S
  ELSE toQueue # <<>> /\ IntervalOf(toQueue[1]) \in S

Types ==
  /\ now \in Nat /\ now <= MaxNow /\ IntervalOf(now) > 2 * MAX_HITS_NUM
  /\ last_time \in Nat /\ last_time <= now
  /\ g_job_list \in Seq(Int) /\ toQueue \in Seq(Int)
  /\ job \in Nat
  /\ mainPc \in {"loop", "append", "post", "sleep"}

Queues ==
  /\ Ascending(g_job_list) /\ Ascending(toQueue)
  /\ \A i \in 1 .. Len(g_job_list), k \in 1 .. Len(toQueue) :
       IntervalOf(g_job_list[i]) < IntervalOf(toQueue[k])
  /\ Waiting(g_job_list) /\ Waiting(toQueue)
  /\ mainPc = "append" => toQueue # <<>>
  /\ mainPc \in {"loop", "sleep"} => toQueue = <<>>

(* Before main has looked at the clock nothing is queued: at the first     *)
(* start nothing was done, after a kill all that was done is old enough to *)
(* be asked for again.                                                     *)
Started ==
  /\ last_time = 0 =>
       /\ mainPc = "loop"
       /\ g_job_list = <<>> /\ toQueue = <<>>
       /\ IF job = 0 THEN now \in StartTimes ELSE job + MAX_HITS_NUM < IntervalOf(now)
  /\ last_time # 0 =>
       /\ job < IntervalOf(last_time)
       /\ job = 0 => NextIs(FirstJobs)

CenterInv == Types /\ Queues /\ Started

-----------------------------------------------------------------------------
(* Intervals                                                               *)

LEMMA Interval == oxeye_get_interval \in Nat \ {0} /\ MAX_HITS_NUM \in Nat \ {0}
  BY IntervalAssumption

LEMMA DivUnique ==
  ASSUME NEW i \in Nat \ {0}, NEW k \in Int, NEW t \in Int, k * i <= t, t < (k + 1) * i
  PROVE  t \div i = k
<1> DEFINE d == t \div i
<1>1. d \in Int /\ d * i <= t /\ t < (d + 1) * i
  OBVIOUS
<1>2. ~ d < k
  <2> SUFFICES ASSUME d + 1 <= k PROVE FALSE
    BY <1>1
  <2>1. (d + 1) * i <= k * i
    BY <1>1
  <2> QED
    BY <1>1, <2>1
<1>3. ~ k < d
  <2> SUFFICES ASSUME k + 1 <= d PROVE FALSE
    BY <1>1
  <2>1. (k + 1) * i <= d * i
    BY <1>1
  <2> QED
    BY <1>1, <2>1
<1> QED
  BY <1>1, <1>2, <1>3

LEMMA IntervalOfMultiple ==
  ASSUME NEW k \in Int
  PROVE  IntervalOf(k * oxeye_get_interval) = k
<1>1. k * oxeye_get_interval < (k + 1) * oxeye_get_interval
  BY Interval
<1> QED
  BY <1>1, Interval, DivUnique DEF IntervalOf

LEMMA IntervalBounds ==
  ASSUME NEW t \in Nat
  PROVE  /\ IntervalOf(t) \in Nat
         /\ IntervalOf(t) * oxeye_get_interval <= t
         /\ t < (IntervalOf(t) + 1) * oxeye_get_interval
  BY Interval DEF IntervalOf

LEMMA IntervalMonotonic ==
  ASSUME NEW t \in Nat, NEW u \in Nat
  PROVE  /\ t <= u => IntervalOf(t) <= IntervalOf(u)
         /\ u - t >= oxeye_get_interval => IntervalOf(t) < IntervalOf(u)
<1> DEFINE i == oxeye_get_interval
           k == IntervalOf(t)
           n == IntervalOf(u)
<1>1. /\ i \in Nat \ {0} /\ k \in Nat /\ n \in Nat
      /\ k * i <= t /\ t < (k + 1) * i /\ n * i <= u /\ u < (n + 1) * i
  BY Interval, IntervalBounds
<1> HIDE DEF i, k, n
<1>2. n < k => (n + 1) * i <= k * i
  BY <1>1
<1>3. n <= k => (n + 1) * i <= (k + 1) * i
  BY <1>1
<1>4. (k + 1) * i = k * i + i
  BY <1>1
<1>5. t <= u => k <= n
  BY <1>1, <1>2
<1>6. u - t >= i => k < n
  BY <1>1, <1>3, <1>4
<1> QED
  BY <1>5, <1>6 DEF i, k, n

(* The jobs that Produce queues, in intervals.                             *)
LEMMA JobsDueLen ==
  ASSUME now \in Nat
  PROVE  /\ JobsDue \in Seq(Int)
         /\ Len(JobsDue) = IF last_time = 0 THEN MAX_HITS_NUM ELSE 1
<1>1. JobTime(now) \in Int
  BY Interval DEF JobTime
<1>2. \A k \in 1 .. MAX_HITS_NUM :
        JobTime(now) - (MAX_HITS_NUM - k) * oxeye_get_interval \in Int
  BY <1>1, Interval
<1>3. CASE last_time = 0
  <2> DEFINE Due0(k) == JobTime(now) - (MAX_HITS_NUM - k) * oxeye_get_interval
  <2>1. JobsDue = [k \in 1 .. MAX_HITS_NUM |-> Due0(k)]
    BY <1>3 DEF JobsDue
  <2>2. \A k \in 1 .. MAX_HITS_NUM : Due0(k) \in Int
    BY <1>2
  <2> HIDE DEF Due0
  <2> QED
    BY <1>3, <2>1, <2>2, Interval
<1>4. CASE last_time # 0
  BY <1>1, <1>4 DEF JobsDue
<1> QED
  BY <1>3, <1>4

LEMMA JobDueInterval ==
  ASSUME now \in Nat, NEW k \in 1 .. Len(JobsDue)
  PROVE  /\ JobsDue[k] \in Int
         /\ IntervalOf(JobsDue[k]) = IntervalOf(now) - 1 - (Len(JobsDue) - k)
         /\ IntervalOf(JobsDue[k]) > 0 => JobsDue[k] > 0
<1> DEFINE q == IntervalOf(now)
           i == oxeye_get_interval
           n == Len(JobsDue)
<1>1. /\ q \in Nat /\ i \in Nat \ {0} /\ MAX_HITS_NUM \in Nat \ {0}
      /\ n = IF last_time = 0 THEN MAX_HITS_NUM ELSE 1
      /\ JobTime(now) = (q - 1) * i
  BY Interval, IntervalBounds, JobsDueLen DEF JobTime, IntervalOf
<1>2. JobsDue[k] = JobTime(now) - (n - k) * i
  <2>1. CASE last_time = 0
    BY <1>1, <2>1 DEF JobsDue
  <2>2. CASE last_time # 0
    <3>1. k = 1 /\ n = 1
      BY <1>1, <2>2
    <3>2. JobsDue[1] = JobTime(now)
      BY <2>2 DEF JobsDue
    <3>3. JobTime(now) \in Int
      BY <1>1
    <3> QED
      BY <1>1, <3>1, <3>2, <3>3
  <2> QED
    BY <2>1, <2>2
<1> HIDE DEF q, i, n
<1>3. n \in Nat /\ k \in 1 .. n
  BY <1>1 DEF n
<1>4. PICK m \in Int : m = q - 1 - (n - k)
  <2>1. q - 1 - (n - k) \in Int
    BY <1>1, <1>3
  <2> QED
    BY <2>1
<1>5. JobsDue[k] = m * i
  BY <1>1, <1>2, <1>3, <1>4
<1>6. IntervalOf(m * i) = m
  BY IntervalOfMultiple DEF i
<1>7. m > 0 => m * i > 0
  BY <1>1
<1>8. m * i \in Int
  BY <1>1
<1> QED
  BY <1>4, <1>5, <1>6, <1>7, <1>8 DEF q, n

LEMMA FirstJobOf ==
  ASSUME NEW t \in StartTimes
  PROVE  IntervalOf(t) - MAX_HITS_NUM \in FirstJobs
<1>1. t \in Nat /\ MAX_HITS_NUM \in Nat
  BY ClockAssumption, Interval
<1>2. IntervalOf(t) \in Nat
  BY <1>1, IntervalBounds
<1>3. JobTime(t) = (IntervalOf(t) - 1) * oxeye_get_interval
  BY <1>1, <1>2, Interval DEF JobTime, IntervalOf
<1>4. PICK k \in Int : k = IntervalOf(t) - 1
  BY <1>2
<1>5. IntervalOf(JobTime(t)) = k
  BY <1>3, <1>4, IntervalOfMultiple
<1>6. IntervalOf(JobTime(t)) - (MAX_HITS_NUM - 1) \in FirstJobs
  BY DEF FirstJobs
<1> QED
  BY <1>1, <1>2, <1>4, <1>5, <1>6

-----------------------------------------------------------------------------
LEMMA CenterInvInit == CenterInit => CenterInv
<1> SUFFICES ASSUME CenterInit PROVE CenterInv
  OBVIOUS
<1>1. /\ now \in StartTimes /\ now \in Nat /\ now <= MaxNow
      /\ now >= (2 * MAX_HITS_NUM + 1) * oxeye_get_interval
  BY ClockAssumption, RestartAssumption DEF CenterInit, Init
<1>2. last_time = 0 /\ g_job_list = <<>> /\ toQueue = <<>> /\ mainPc = "loop" /\ job = 0
  BY DEF CenterInit, Init, R!Init, R!NoJob
<1>3. IntervalOf(now) > 2 * MAX_HITS_NUM
  <2> DEFINE i == oxeye_get_interval
             k == IntervalOf(now)
             n == 2 * MAX_HITS_NUM
  <2>1. i \in Nat \ {0} /\ k \in Nat /\ n \in Nat /\ now < (k + 1) * i /\ now >= (n + 1) * i
    BY <1>1, Interval, IntervalBounds
  <2> HIDE DEF i, k, n
  <2>2. SUFFICES ASSUME k + 1 <= n + 1 PROVE FALSE
    BY <2>1 DEF k, n
  <2>3. (k + 1) * i <= (n + 1) * i
    BY <2>1, <2>2
  <2> QED
    BY <1>1, <2>1, <2>3
<1> QED
  BY <1>1, <1>2, <1>3, Interval
  DEF CenterInv, Types, Queues, Started, Ascending, Waiting

-----------------------------------------------------------------------------
(* The steps: each keeps the three parts.                                  *)

LEMMA ProducesKeeps ==
  ASSUME CenterInv, ProducesJobs
  PROVE  CenterInv'
<1> DEFINE n == Len(JobsDue)
           I(k) == IntervalOf(JobsDue[k])
<1>1. /\ mainPc = "loop" /\ toQueue = <<>> /\ toQueue' = JobsDue
      /\ last_time' = now /\ now' = now /\ mainPc' = "append"
      /\ g_job_list' = g_job_list /\ job' = job
      /\ now - last_time >= oxeye_get_interval
  BY DEF ProducesJobs, Produce, Due, queueVars, ring, CenterInv, Queues
<1>2. /\ now \in Nat /\ last_time \in Nat /\ job \in Nat /\ MAX_HITS_NUM \in Nat \ {0}
      /\ IntervalOf(now) \in Nat /\ IntervalOf(last_time) \in Nat
      /\ IntervalOf(now) > 2 * MAX_HITS_NUM
  BY Interval, IntervalBounds DEF CenterInv, Types
<1>3. IntervalOf(last_time) < IntervalOf(now)
  BY <1>1, <1>2, IntervalMonotonic
<1>4. /\ JobsDue \in Seq(Int)
      /\ n = IF last_time = 0 THEN MAX_HITS_NUM ELSE 1
      /\ n \in Nat \ {0} /\ JobsDue # <<>>
  <2>1. JobsDue \in Seq(Int) /\ n = IF last_time = 0 THEN MAX_HITS_NUM ELSE 1
    BY <1>2, JobsDueLen
  <2>2. n # 0
    BY <1>2, <2>1
  <2> QED
    BY <2>1, <2>2
<1>5. ASSUME NEW k \in 1 .. n
      PROVE  /\ JobsDue[k] \in Nat \ {0}
             /\ I(k) = IntervalOf(now) - 1 - (n - k)
             /\ I(k) \in job + 1 .. IntervalOf(now) - 1
             /\ last_time # 0 => I(k) >= IntervalOf(last_time)
  <2>1. /\ JobsDue[k] \in Int /\ I(k) = IntervalOf(now) - 1 - (n - k)
        /\ I(k) > 0 => JobsDue[k] > 0
    BY <1>2, JobDueInterval
  <2> HIDE DEF n, I
  <2>2. CASE last_time = 0
    <3>1. job = 0 \/ job + MAX_HITS_NUM < IntervalOf(now)
      BY <2>2 DEF CenterInv, Started
    <3> QED
      BY <1>2, <1>4, <2>1, <2>2, <3>1
  <2>3. CASE last_time # 0
    <3>1. job < IntervalOf(last_time)
      BY <2>3 DEF CenterInv, Started
    <3> QED
      BY <1>2, <1>3, <1>4, <2>1, <2>3, <3>1
  <2> QED
    BY <2>2, <2>3
<1>6. ASSUME NEW k \in 1 .. Len(g_job_list)
      PROVE  /\ last_time # 0
             /\ g_job_list[k] \in Nat \ {0}
             /\ IntervalOf(g_job_list[k]) \in job + 1 .. IntervalOf(last_time) - 1
  BY DEF CenterInv, Queues, Started, Waiting
<1>7. Types'
  BY <1>1, <1>2, <1>4 DEF CenterInv, Types
<1>8. Queues'
  <2>1. Ascending(JobsDue)
    <3> SUFFICES ASSUME NEW i \in 1 .. n, NEW k \in 1 .. n, i < k PROVE I(i) < I(k)
      BY DEF Ascending
    <3>1. I(i) = IntervalOf(now) - 1 - (n - i) /\ I(k) = IntervalOf(now) - 1 - (n - k)
      BY <1>5
    <3> HIDE DEF n, I
    <3> QED
      BY <1>2, <1>4, <3>1
  <2>2. ASSUME NEW i \in 1 .. Len(g_job_list), NEW k \in 1 .. n
        PROVE  IntervalOf(g_job_list[i]) < I(k)
    <3>1. I(k) \in Int /\ I(k) >= IntervalOf(last_time)
      BY <1>2, <1>5, <1>6
    <3> HIDE DEF n, I
    <3> QED
      BY <1>2, <1>6, <3>1
  <2>3. Waiting(g_job_list)'
    <3> SUFFICES ASSUME NEW k \in 1 .. Len(g_job_list)
                 PROVE  /\ g_job_list[k] \in Nat \ {0}
                        /\ IntervalOf(g_job_list[k]) \in job + 1 .. IntervalOf(now) - 1
      BY <1>1 DEF Waiting
    <3> QED
      BY <1>2, <1>3, <1>6
  <2>4. Waiting(toQueue)'
    BY <1>1, <1>5 DEF Waiting
  <2>5. Ascending(g_job_list)' /\ Ascending(toQueue)'
    BY <1>1, <2>1 DEF CenterInv, Queues, Ascending
  <2> QED
    BY <1>1, <1>4, <2>2, <2>3, <2>4, <2>5 DEF Queues
<1>9. Started'
  <2>1. last_time' # 0 /\ job' < IntervalOf(last_time')
    <3>1. now # 0
      BY <1>1, <1>2, Interval
    <3>2. job < IntervalOf(now)
      <4>1. last_time = 0 => job = 0 \/ job + MAX_HITS_NUM < IntervalOf(now)
        BY DEF CenterInv, Started
      <4>2. last_time # 0 => job < IntervalOf(last_time)
        BY DEF CenterInv, Started
      <4> QED
        BY <1>2, <1>3, <4>1, <4>2
    <3> QED
      BY <1>1, <3>1, <3>2
  <2>2. ASSUME job = 0 PROVE NextIs(FirstJobs)'
    <3>1. CASE last_time = 0
      <4>1. now \in StartTimes /\ g_job_list = <<>>
        BY <2>2, <3>1 DEF CenterInv, Started
      <4>2. I(1) = IntervalOf(now) - 1 - (n - 1)
        BY <1>4, <1>5
      <4> HIDE DEF n, I
      <4>3. I(1) = IntervalOf(now) - MAX_HITS_NUM
        BY <1>2, <1>4, <3>1, <4>2
      <4> QED
        BY <1>1, <1>4, <4>1, <4>3, FirstJobOf DEF NextIs, I, FirstJobs
    <3>2. CASE last_time # 0
      BY <1>1, <2>2, <3>2 DEF CenterInv, Started, NextIs, FirstJobs
    <3> QED
      BY <3>1, <3>2
  <2> QED
    BY <1>1, <2>1, <2>2 DEF Started
<1> QED
  BY <1>7, <1>8, <1>9 DEF CenterInv

invVars == <<now, last_time, mainPc, toQueue, g_job_list, job>>

LEMMA UnchangedKeeps == CenterInv /\ UNCHANGED invVars => CenterInv'
  BY DEF invVars, CenterInv, Types, Queues, Started, Ascending, Waiting, NextIs, FirstJobs

LEMMA StartedBefore ==
  ASSUME CenterInv, mainPc # "loop" \/ toQueue # <<>> \/ g_job_list # <<>>
  PROVE  last_time # 0
  BY DEF CenterInv, Started

(* The first time round main finds something to do.                        *)
LEMMA NothingDueKeeps ==
  ASSUME CenterInv, Timer(NothingDue)
  PROVE  CenterInv'
<1>1. /\ mainPc = "loop" /\ mainPc' = "sleep" /\ toQueue = <<>>
      /\ now' = now /\ last_time' = last_time /\ toQueue' = toQueue
      /\ g_job_list' = g_job_list /\ job' = job
      /\ ~ (now - last_time >= oxeye_get_interval)
  BY DEF Timer, NothingDue, Due, queueVars, ring, CenterInv, Queues
<1>2. last_time # 0
  <2> SUFFICES ASSUME last_time = 0 PROVE FALSE
    OBVIOUS
  <2> DEFINE i == oxeye_get_interval
             k == IntervalOf(now)
  <2>1. /\ i \in Nat \ {0} /\ k \in Nat /\ now \in Nat /\ k * i <= now
        /\ k > 2 * MAX_HITS_NUM /\ MAX_HITS_NUM \in Nat \ {0}
        /\ ~ (now - 0 >= i)
    BY <1>1, Interval, IntervalBounds DEF CenterInv, Types
  <2> HIDE DEF i, k
  <2>2. k >= 1
    BY <2>1
  <2>3. k * i >= 1 * i
    BY <2>1, <2>2
  <2> QED
    BY <2>1, <2>3
<1> QED
  BY <1>1, <1>2
  DEF CenterInv, Types, Queues, Started, Ascending, Waiting, NextIs, FirstJobs

LEMMA AppendKeeps ==
  ASSUME CenterInv, Timer(AppendJob)
  PROVE  CenterInv'
<1> DEFINE n == Len(g_job_list)
<1>1. /\ mainPc = "append" /\ mainPc' = "post" /\ toQueue # <<>>
      /\ g_job_list' = Append(g_job_list, toQueue[1]) /\ toQueue' = Tail(toQueue)
      /\ now' = now /\ last_time' = last_time /\ job' = job
      /\ g_job_list \in Seq(Int) /\ toQueue \in Seq(Int)
  BY DEF Timer, AppendJob, Appended, workerVars, ring, CenterInv, Types, Queues
<1>2. /\ g_job_list' \in Seq(Int) /\ toQueue' \in Seq(Int)
      /\ n \in Nat /\ Len(toQueue) \in Nat /\ Len(toQueue) > 0
      /\ Len(g_job_list') = n + 1 /\ Len(toQueue') = Len(toQueue) - 1
      /\ \A i \in 1 .. n : g_job_list'[i] = g_job_list[i]
      /\ g_job_list'[n + 1] = toQueue[1]
      /\ \A k \in 1 .. Len(toQueue') : toQueue'[k] = toQueue[k + 1]
  BY <1>1
<1>3. last_time # 0
  BY <1>1, StartedBefore
<1>4. Types'
  BY <1>1, <1>2 DEF CenterInv, Types
<1>5. ASSUME NEW i \in 1 .. n + 1
      PROVE  \/ i \in 1 .. n /\ g_job_list'[i] = g_job_list[i]
             \/ i = n + 1 /\ g_job_list'[i] = toQueue[1]
  BY <1>2
<1>6. ASSUME NEW k \in 1 .. Len(toQueue')
      PROVE  k + 1 \in 1 .. Len(toQueue) /\ 1 < k + 1 /\ toQueue'[k] = toQueue[k + 1]
  BY <1>2
<1>7. 1 \in 1 .. Len(toQueue)
  BY <1>2
<1>8. Queues'
  <2> USE DEF CenterInv, Queues
  <2>1. Ascending(g_job_list)'
    <3> SUFFICES ASSUME NEW i \in 1 .. n + 1, NEW k \in 1 .. n + 1, i < k
                 PROVE  IntervalOf(g_job_list'[i]) < IntervalOf(g_job_list'[k])
      BY <1>2 DEF Ascending, IntervalOf
    <3>1. i \in 1 .. n /\ g_job_list'[i] = g_job_list[i]
      BY <1>2
    <3>2. CASE k \in 1 .. n
      BY <1>2, <3>1, <3>2 DEF Ascending
    <3>3. CASE k = n + 1
      BY <1>2, <1>7, <3>1, <3>3
    <3> QED
      BY <1>5, <3>2, <3>3
  <2>2. Ascending(toQueue)'
    <3> SUFFICES ASSUME NEW i \in 1 .. Len(toQueue'), NEW k \in 1 .. Len(toQueue'), i < k
                 PROVE  IntervalOf(toQueue'[i]) < IntervalOf(toQueue'[k])
      BY DEF Ascending, IntervalOf
    <3>1. i + 1 < k + 1
      BY <1>2
    <3> QED
      BY <1>6, <3>1 DEF Ascending
  <2>3. ASSUME NEW i \in 1 .. n + 1, NEW k \in 1 .. Len(toQueue')
        PROVE  IntervalOf(g_job_list'[i]) < IntervalOf(toQueue'[k])
    <3>1. CASE i \in 1 .. n
      BY <1>2, <1>6, <3>1
    <3>2. CASE i = n + 1
      BY <1>2, <1>6, <1>7, <3>2 DEF Ascending
    <3> QED
      BY <1>5, <3>1, <3>2
  <2>4. Waiting(g_job_list)'
    <3> SUFFICES ASSUME NEW i \in 1 .. n + 1
                 PROVE  /\ g_job_list'[i] \in Nat \ {0}
                        /\ IntervalOf(g_job_list'[i]) \in job + 1 .. IntervalOf(last_time) - 1
      BY <1>1, <1>2 DEF Waiting, IntervalOf
    <3> QED
      BY <1>5, <1>7 DEF Waiting
  <2>5. Waiting(toQueue)'
    <3> SUFFICES ASSUME NEW k \in 1 .. Len(toQueue')
                 PROVE  /\ toQueue'[k] \in Nat \ {0}
                        /\ IntervalOf(toQueue'[k]) \in job + 1 .. IntervalOf(last_time) - 1
      BY <1>1 DEF Waiting, IntervalOf
    <3> QED
      BY <1>6 DEF Waiting
  <2> QED
    BY <1>1, <1>2, <2>1, <2>2, <2>3, <2>4, <2>5 DEF IntervalOf
<1>9. Started'
  <2>1. ASSUME job = 0 PROVE NextIs(FirstJobs)'
    <3>1. NextIs(FirstJobs)
      BY <1>3, <2>1 DEF CenterInv, Started
    <3>2. g_job_list' # <<>>
      BY <1>2
    <3>3. g_job_list # <<>> => g_job_list'[1] = g_job_list[1]
      BY <1>1, <1>2
    <3>4. g_job_list = <<>> => g_job_list'[1] = toQueue[1]
      BY <1>1, <1>2
    <3> QED
      BY <3>1, <3>2, <3>3, <3>4 DEF NextIs, FirstJobs, IntervalOf
  <2> QED
    BY <1>1, <1>3, <2>1 DEF CenterInv, Started, IntervalOf
<1> QED
  BY <1>4, <1>8, <1>9 DEF CenterInv

LEMMA PostKeeps ==
  ASSUME CenterInv, Timer(PostJob)
  PROVE  CenterInv'
<1>1. /\ mainPc = "post" /\ mainPc' = IF toQueue = <<>> THEN "sleep" ELSE "append"
      /\ now' = now /\ last_time' = last_time /\ toQueue' = toQueue
      /\ g_job_list' = g_job_list /\ job' = job
  BY DEF Timer, PostJob, AfterPost, workerVars, ring
<1>2. last_time # 0
  BY <1>1, StartedBefore
<1> QED
  BY <1>1, <1>2
  DEF CenterInv, Types, Queues, Started, Ascending, Waiting, NextIs, FirstJobs

LEMMA SleepKeeps ==
  ASSUME CenterInv, Timer(Sleep)
  PROVE  CenterInv'
<1>1. PICK d \in SleepTimes : now + d <= MaxNow /\ now' = now + d
  BY DEF Timer, Sleep
<1>2. /\ mainPc = "sleep" /\ mainPc' = "loop"
      /\ last_time' = last_time /\ toQueue' = toQueue
      /\ g_job_list' = g_job_list /\ job' = job
  BY DEF Timer, Sleep, queueVars, workerVars, ring
<1>3. last_time # 0
  BY <1>2, StartedBefore
<1>4. Types'
  <2>1. now' \in Nat /\ now <= now' /\ now \in Nat /\ last_time <= now'
    BY <1>1, ClockAssumption DEF CenterInv, Types
  <2>2. IntervalOf(now) \in Nat /\ IntervalOf(now') \in Nat /\ IntervalOf(now) <= IntervalOf(now')
    BY <2>1, IntervalMonotonic, IntervalBounds
  <2>3. IntervalOf(now') > 2 * MAX_HITS_NUM
    BY <2>2, Interval DEF CenterInv, Types
  <2> QED
    BY <1>1, <1>2, <2>1, <2>3 DEF CenterInv, Types, IntervalOf
<1> QED
  BY <1>2, <1>3, <1>4
  DEF CenterInv, Queues, Started, Ascending, Waiting, NextIs, FirstJobs

LEMMA TakesKeeps ==
  ASSUME CenterInv, TakesJob
  PROVE  CenterInv'
<1>1. /\ now' = now /\ last_time' = last_time /\ toQueue' = toQueue /\ mainPc' = mainPc
      /\ g_job_list' = IF g_job_list = <<>> THEN <<>> ELSE Tail(g_job_list)
      /\ job_time' = IF g_job_list = <<>> THEN 0 ELSE Head(g_job_list)
      /\ g_job_list \in Seq(Int)
  BY DEF TakesJob, JobOut, mainVars, CenterInv, Types
<1>2. CASE g_job_list = <<>>
  <2>1. job' = job /\ g_job_list' = g_job_list
    BY <1>1, <1>2 DEF TakesJob, ring
  <2> QED
    BY <1>1, <2>1, UnchangedKeeps DEF invVars
<1>3. CASE g_job_list # <<>>
  <2> DEFINE n == Len(g_job_list)
             first == IntervalOf(g_job_list[1])
  <2>1. /\ n \in Nat \ {0} /\ g_job_list' = Tail(g_job_list) /\ g_job_list' \in Seq(Int)
        /\ Len(g_job_list') = n - 1
        /\ \A i \in 1 .. n - 1 : g_job_list'[i] = g_job_list[i + 1]
        /\ job_time' = g_job_list[1]
    BY <1>1, <1>3
  <2>2. last_time # 0
    BY <1>3, StartedBefore
  <2>3. /\ g_job_list[1] \in Nat \ {0} /\ first \in job + 1 .. IntervalOf(last_time) - 1
        /\ job \in Nat /\ last_time \in Nat /\ IntervalOf(last_time) \in Nat
    <3>1. 1 \in 1 .. n
      BY <2>1
    <3>2. Waiting(g_job_list) /\ job \in Nat /\ last_time \in Nat
      BY DEF CenterInv, Types, Queues
    <3> QED
      BY <3>1, <3>2, IntervalBounds DEF Waiting
  <2>4. job' = first /\ first \in Nat \ {0}
    BY <2>1, <2>3 DEF TakesJob, R!Starts
  <2> HIDE DEF n, first
  <2>5. Types'
    BY <1>1, <2>1, <2>4 DEF CenterInv, Types, IntervalOf
  <2>6. Queues'
    <3>1. Ascending(g_job_list)'
      <4> SUFFICES ASSUME NEW i \in 1 .. n - 1, NEW k \in 1 .. n - 1, i < k
                   PROVE  IntervalOf(g_job_list'[i]) < IntervalOf(g_job_list'[k])
        BY <2>1 DEF Ascending, IntervalOf
      <4>1. i + 1 \in 1 .. n /\ k + 1 \in 1 .. n /\ i + 1 < k + 1
        BY <2>1
      <4> QED
        BY <2>1, <4>1 DEF CenterInv, Queues, Ascending, n
    <3>2. Waiting(g_job_list)'
      <4> SUFFICES ASSUME NEW i \in 1 .. n - 1
                   PROVE  /\ g_job_list'[i] \in Nat \ {0}
                          /\ IntervalOf(g_job_list'[i]) \in first + 1 .. IntervalOf(last_time) - 1
        BY <1>1, <2>1, <2>4 DEF Waiting, IntervalOf
      <4>1. i + 1 \in 1 .. n /\ 1 \in 1 .. n /\ 1 < i + 1 /\ g_job_list'[i] = g_job_list[i + 1]
        BY <2>1
      <4>2. first < IntervalOf(g_job_list[i + 1])
        BY <4>1 DEF CenterInv, Queues, Ascending, n, first
      <4>3. /\ g_job_list[i + 1] \in Nat \ {0}
            /\ IntervalOf(g_job_list[i + 1]) \in job + 1 .. IntervalOf(last_time) - 1
        BY <4>1 DEF CenterInv, Queues, Waiting, n
      <4> QED
        BY <2>3, <2>4, <4>1, <4>2, <4>3
    <3>3. Waiting(toQueue)'
      <4> SUFFICES ASSUME NEW k \in 1 .. Len(toQueue)
                   PROVE  /\ toQueue[k] \in Nat \ {0}
                          /\ IntervalOf(toQueue[k]) \in first + 1 .. IntervalOf(last_time) - 1
        BY <1>1, <2>4 DEF Waiting, IntervalOf
      <4>1. 1 \in 1 .. n
        BY <2>1
      <4>2. first < IntervalOf(toQueue[k])
        BY <4>1 DEF CenterInv, Queues, n, first
      <4>3. /\ toQueue[k] \in Nat \ {0}
            /\ IntervalOf(toQueue[k]) \in job + 1 .. IntervalOf(last_time) - 1
        BY DEF CenterInv, Queues, Waiting
      <4> QED
        BY <2>3, <2>4, <4>2, <4>3
    <3>4. ASSUME NEW i \in 1 .. n - 1, NEW k \in 1 .. Len(toQueue)
          PROVE  IntervalOf(g_job_list'[i]) < IntervalOf(toQueue[k])
      <4>1. i + 1 \in 1 .. n /\ g_job_list'[i] = g_job_list[i + 1]
        BY <2>1
      <4> QED
        BY <4>1 DEF CenterInv, Queues, n
    <3>5. Ascending(toQueue)' /\ (mainPc = "append" => toQueue # <<>>)
          /\ (mainPc \in {"loop", "sleep"} => toQueue = <<>>)
      BY <1>1 DEF CenterInv, Queues, Ascending, IntervalOf
    <3> QED
      BY <1>1, <2>1, <3>1, <3>2, <3>3, <3>4, <3>5 DEF Queues, IntervalOf
  <2>7. Started'
    BY <1>1, <2>2, <2>3, <2>4 DEF Started, IntervalOf
  <2> QED
    BY <2>5, <2>6, <2>7 DEF CenterInv
<1> QED
  BY <1>2, <1>3

LEMMA KilledKeeps ==
  ASSUME CenterInv, KilledAndStarted
  PROVE  CenterInv'
<1>1. PICK d \in DownTimes : now + d <= MaxNow /\ now' = now + d
  BY DEF KilledAndStarted
<1>2. /\ last_time' = 0 /\ mainPc' = "loop" /\ toQueue' = <<>> /\ g_job_list' = <<>>
      /\ job' = job - MAX_HITS_NUM /\ job - MAX_HITS_NUM > 0
  BY DEF KilledAndStarted, R!Restart
<1>3. /\ now \in Nat /\ now' \in Nat /\ now <= now' /\ now' <= MaxNow
      /\ last_time \in Nat /\ last_time <= now /\ job \in Nat /\ MAX_HITS_NUM \in Nat \ {0}
      /\ IntervalOf(now) > 2 * MAX_HITS_NUM
  BY <1>1, Interval, RestartAssumption DEF CenterInv, Types
<1>4. /\ IntervalOf(now) \in Nat /\ IntervalOf(now') \in Nat /\ IntervalOf(last_time) \in Nat
      /\ IntervalOf(last_time) <= IntervalOf(now) /\ IntervalOf(now) <= IntervalOf(now')
  BY <1>3, IntervalMonotonic, IntervalBounds
<1>5. job < IntervalOf(now)
  <2>1. CASE last_time = 0
    <3>1. job = 0 \/ job + MAX_HITS_NUM < IntervalOf(now)
      BY <2>1 DEF CenterInv, Started
    <3> QED
      BY <1>3, <1>4, <3>1
  <2>2. CASE last_time # 0
    <3>1. job < IntervalOf(last_time)
      BY <2>2 DEF CenterInv, Started
    <3> QED
      BY <1>3, <1>4, <3>1
  <2> QED
    BY <2>1, <2>2
<1>6. /\ job' \in Nat \ {0} /\ job' + MAX_HITS_NUM < IntervalOf(now')
      /\ IntervalOf(now') > 2 * MAX_HITS_NUM
  BY <1>2, <1>3, <1>4, <1>5
<1>7. Types'
  BY <1>2, <1>3, <1>6 DEF Types, IntervalOf
<1>8. Queues'
  BY <1>2 DEF Queues, Ascending, Waiting
<1>9. Started'
  BY <1>2, <1>6 DEF Started, IntervalOf
<1> QED
  BY <1>7, <1>8, <1>9 DEF CenterInv

LEMMA do_jobKeepsJob == R!do_job => UNCHANGED job
  BY DEF R!do_job, R!DownloadFails, R!ParseFails, R!Parse, R!do_memo, R!NotYet, R!do_save

LEMMA CenterInvStep == CenterInv /\ [CenterNext]_vars => CenterInv'
<1> SUFFICES ASSUME CenterInv, [CenterNext]_vars PROVE CenterInv'
  OBVIOUS
<1>1. CASE ProducesJobs
  BY <1>1, ProducesKeeps
<1>2. CASE Timer(NothingDue)
  BY <1>2, NothingDueKeeps
<1>3. CASE Timer(AppendJob)
  BY <1>3, AppendKeeps
<1>4. CASE Timer(PostJob)
  BY <1>4, PostKeeps
<1>5. CASE Timer(Sleep)
  BY <1>5, SleepKeeps
<1>6. CASE Timer(SemWait)
  BY <1>6, UnchangedKeeps DEF Timer, SemWait, mainVars, ring, invVars
<1>7. CASE TakesJob
  BY <1>7, TakesKeeps
<1>8. CASE DoesJob
  <2>1. UNCHANGED <<jobVars, job>>
    BY <1>8, do_jobKeepsJob DEF DoesJob
  <2> QED
    BY <2>1, UnchangedKeeps DEF invVars, jobVars, mainVars, queueVars
<1>9. CASE EndsJob
  BY <1>9, UnchangedKeeps DEF EndsJob, JobDone, mainVars, queueVars, ring, invVars
<1>10. CASE KilledAndStarted
  BY <1>10, KilledKeeps
<1>11. CASE UNCHANGED vars
  BY <1>11, UnchangedKeeps DEF vars, jobVars, mainVars, queueVars, ring, invVars
<1> QED
  BY <1>1, <1>2, <1>3, <1>4, <1>5, <1>6, <1>7, <1>8, <1>9, <1>10, <1>11
  DEF CenterNext, MainGoesOn, WorkerGoesOn

-----------------------------------------------------------------------------
(* What the ring sees of a step.                                           *)

LEMMA TakesJobIsStep ==
  ASSUME CenterInv, TakesJob
  PROVE  R!Next \/ UNCHANGED ring
<1>1. CASE g_job_list = <<>>
  BY <1>1 DEF TakesJob, JobOut
<1>2. CASE g_job_list # <<>>
  <2> DEFINE j == IntervalOf(g_job_list[1])
  <2>1. last_time # 0
    BY <1>2, StartedBefore
  <2>2. /\ job \in Nat /\ last_time \in Nat /\ now \in Nat /\ last_time <= now /\ now <= MaxNow
        /\ MaxNow \in Nat /\ g_job_list \in Seq(Int)
    BY ClockAssumption DEF CenterInv, Types
  <2>3. g_job_list[1] \in Nat \ {0} /\ j \in job + 1 .. IntervalOf(last_time) - 1
    <3>1. 1 \in 1 .. Len(g_job_list)
      BY <1>2, <2>2
    <3> QED
      BY <3>1 DEF CenterInv, Queues, Waiting
  <2>4. /\ LastJob \in Nat /\ IntervalOf(last_time) \in Nat /\ IntervalOf(now) \in Nat
        /\ IntervalOf(last_time) <= IntervalOf(now) /\ IntervalOf(now) <= LastJob
    BY <2>2, IntervalMonotonic, IntervalBounds DEF LastJob
  <2>5. R!Starts(j)
    BY <1>2, <2>2, <2>3 DEF TakesJob, JobOut
  <2>6. job = 0 => j \in FirstJobs
    BY <1>2, <2>1 DEF CenterInv, Started, NextIs
  <2> HIDE DEF j
  <2>7. j \in 1 .. LastJob /\ j <= LastJob
    BY <2>2, <2>3, <2>4
  <2>8. job # 0 => j \in {job + d : d \in Gaps}
    <3>1. j - job \in Gaps /\ j = job + (j - job)
      BY <2>2, <2>3, <2>4 DEF Gaps
    <3> QED
      BY <3>1
  <2>9. R!TakeJob(j)
    BY <2>5, <2>6, <2>7, <2>8 DEF R!TakeJob, R!NoJob
  <2> QED
    BY <2>7, <2>9 DEF R!Next
<1> QED
  BY <1>1, <1>2

LEMMA RingStep == CenterInv /\ [CenterNext]_vars => [R!Next]_(R!vars)
<1> SUFFICES ASSUME CenterInv, [CenterNext]_vars PROVE R!Next \/ UNCHANGED ring
  BY DEF ring, R!vars, R!ringVars
<1>1. CASE TakesJob
  BY <1>1, TakesJobIsStep
<1>2. CASE DoesJob
  BY <1>2 DEF DoesJob, R!Next
<1>3. CASE KilledAndStarted
  BY <1>3 DEF KilledAndStarted, R!Next
<1>4. CASE ProducesJobs \/ EndsJob
  BY <1>4 DEF ProducesJobs, EndsJob
<1>5. CASE Timer(NothingDue) \/ Timer(AppendJob) \/ Timer(PostJob) \/ Timer(Sleep) \/ Timer(SemWait)
  BY <1>5 DEF Timer
<1>6. CASE UNCHANGED vars
  BY <1>6 DEF vars
<1> QED
  BY <1>1, <1>2, <1>3, <1>4, <1>5, <1>6 DEF CenterNext, MainGoesOn, WorkerGoesOn

(* The jobs that wait, in the list or on their way to it, are later than   *)
(* the one in hand and over when main last looked at the clock, through    *)
(* every late wakeup and every kill.                                       *)
THEOREM JobsWaitInOrder == CenterSpec => []CenterInv
<1>1. CenterInit => CenterInv
  BY CenterInvInit
<1>2. CenterInv /\ [CenterNext]_vars => CenterInv'
  BY CenterInvStep
<1> QED
  BY <1>1, <1>2, PTL DEF CenterSpec

(* The timer and the queue, over late wakeups, a thread_job that lags and  *)
(* kills, hand do_job the jobs that HitsRing assumes: HitsCenter is an     *)
(* implementation of HitsRing.                                             *)
THEOREM CenterImplementsRing == CenterSpec => RingSpec
<1>1. CenterInit => R!Init
  BY DEF CenterInit
<1>2. CenterInv /\ [CenterNext]_vars => [R!Next]_(R!vars)
  BY RingStep
<1> QED
  BY <1>1, <1>2, JobsWaitInOrder, PTL DEF CenterSpec, RingSpec, R!Spec

-----------------------------------------------------------------------------
(* The queue of JobQueue goes through kills as well: all of it is lost at  *)
(* once, the jobs on their way to the list and in hand with those on it.   *)

LEMMA QueueOrKill == CenterNext => [Next]_jobVars \/ KilledAndStarted
  BY DEF CenterNext, MainGoesOn, WorkerGoesOn, Timer, ProducesJobs, TakesJob, DoesJob, EndsJob,
         Next, MainStep, WorkerStep

LEMMA KillKeepsQueue == QueueInv /\ KilledAndStarted => QueueInv'
  BY RestartAssumption DEF KilledAndStarted, QueueInv, SemCountsJobs

LEMMA KillKeepsOrder == OrderInv /\ KilledAndStarted => OrderInv'
<1> SUFFICES ASSUME OrderInv, KilledAndStarted PROVE OrderInv'
  OBVIOUS
<1>1. PICK d \in DownTimes : now' = now + d
  BY DEF KilledAndStarted
<1>2. now' \in Nat /\ now' >= now /\ now \in Nat /\ Late
  BY <1>1, RestartAssumption DEF OrderInv, TypeOK
<1>3. Late'
  BY <1>2, IntervalAssumption DEF Late
<1>4. /\ last_time' = 0 /\ mainPc' = "loop" /\ workerPc' = "wait"
      /\ toQueue' = <<>> /\ g_job_list' = <<>> /\ g_job_sem' = 0 /\ job_time' = 0
      /\ produced' = <<>> /\ done' = <<>>
  BY DEF KilledAndStarted
<1>5. TypeOK'
  BY <1>2, <1>4 DEF TypeOK
<1> QED
  BY <1>3, <1>4, <1>5 DEF OrderInv, Positive, InOrder

(* The semaphore and the list agree between any two steps of the timer,    *)
(* thread_job and do_job, and after every kill.                            *)
THEOREM CenterSemMatches == CenterSpec => []SemCountsJobs
<1>1. CenterInit => QueueInv
  BY QueueInit DEF CenterInit
<1>2. QueueInv /\ [CenterNext]_vars => QueueInv'
  <2>1. [CenterNext]_vars => [Next]_jobVars \/ KilledAndStarted
    BY QueueOrKill DEF vars
  <2> QED
    BY <2>1, QueueStep, KillKeepsQueue
<1>3. QueueInv => SemCountsJobs
  BY DEF QueueInv
<1> QED
  BY <1>1, <1>2, <1>3, PTL DEF CenterSpec

(* Between two kills every job produced is done once and in order, however *)
(* do_job's steps fall between those of the timer.                         *)
THEOREM CenterInOrder == CenterSpec => []InOrder
<1>1. CenterInit => OrderInv
  BY OrderInit DEF CenterInit
<1>2. OrderInv /\ [CenterNext]_vars => OrderInv'
  <2>1. [CenterNext]_vars => [Next]_jobVars \/ KilledAndStarted
    BY QueueOrKill DEF vars
  <2> QED
    BY <2>1, OrderStep, KillKeepsOrder
<1>3. OrderInv => InOrder
  BY DEF OrderInv
<1> QED
  BY <1>1, <1>2, <1>3, PTL DEF CenterSpec

-----------------------------------------------------------------------------
(* That the periods are saved                                              *)

(* The interval that is next to be taken, the first one that main asked    *)
(* for, and the one whose file was parsed last.                            *)
NextJob  == IntervalOf(last_time) - Len(g_job_list) - Len(toQueue)
AskedFor == started - MAX_HITS_NUM
Parsed   == IF pc = "download" THEN NextJob - 2 ELSE NextJob - 1

(* How many intervals before Parsed slot i was filled, and what it holds.  *)
Age(i)  == IF i < g_hits_index THEN g_hits_index - 1 - i ELSE MAX_HITS_NUM + g_hits_index - 1 - i
Held(j) == IF j >= AskedFor THEN [start |-> j, data |-> <<j>>] ELSE R!EmptyStat

(* Undisturbed, the jobs that wait leave out no interval, and thread_job   *)
(* is at the one before them.                                              *)
Steady ==
  last_time # 0 =>
    /\ started \in Nat /\ started % MAX_HITS_NUM # 0
    /\ started > 2 * MAX_HITS_NUM /\ started <= IntervalOf(last_time)
    /\ NextJob >= AskedFor
    /\ \A i \in 1 .. Len(g_job_list) : IntervalOf(g_job_list[i]) = NextJob + i - 1
    /\ \A i \in 1 .. Len(toQueue) :
         IntervalOf(toQueue[i]) = NextJob + Len(g_job_list) + i - 1
    /\ IF NextJob = AskedFor THEN pc = "idle" ELSE job = NextJob - 1

(* Each slot holds the interval that its distance from g_hits_index says,  *)
(* and the index goes round with the intervals.                            *)
Filled ==
  /\ g_hits_index \in R!Slots
  /\ IF last_time = 0
     THEN /\ pc = "idle" /\ g_hits_index = 0
          /\ g_hits_stats = [i \in R!Slots |-> R!EmptyStat]
     ELSE /\ \E q \in Int : g_hits_index = Parsed + 1 - started + q * MAX_HITS_NUM
          /\ g_hits_stats = [i \in R!Slots |-> Held(Parsed - Age(i))]

(* do_job is through with an interval.                                     *)
Through(e) == e < job \/ (e = job /\ pc = "idle")

EndOf(p) == p * MAX_HITS_NUM + MAX_HITS_NUM - 1

(* What is in a save is no later than a period's end that is done with.    *)
SavedSoFar ==
  /\ restarts \in Nat
  /\ database \in Seq([start : Int, data : Seq(Int)])
  /\ \A p \in Nat \ {0} : started <= EndOf(p) /\ Through(EndOf(p)) => PeriodSaved(p)
  /\ restarts = 0 =>
       /\ R!SummedUpOnce
       /\ \A n \in DOMAIN database : \E r \in Nat :
            /\ Through(r * MAX_HITS_NUM - 1)
            /\ \A x \in ToSet(database[n].data) : x < r * MAX_HITS_NUM

PeriodInv == Undisturbed => Steady /\ Filled /\ SavedSoFar

-----------------------------------------------------------------------------
LEMMA NoMultiple ==
  ASSUME NEW m \in Nat \ {0}, NEW x \in Int, x % m # 0, NEW q \in Int
  PROVE  x # q * m
<1> SUFFICES ASSUME x = q * m PROVE FALSE
  OBVIOUS
<1>1. x < (q + 1) * m
  OBVIOUS
<1>2. x \div m = q
  BY <1>1, DivUnique
<1> QED
  BY <1>2

LEMMA IsMultiple ==
  ASSUME NEW m \in Nat \ {0}, NEW x \in Nat, x % m = 0
  PROVE  \E q \in Nat : x = q * m
<1>1. x \div m \in Nat /\ x = (x \div m) * m
  OBVIOUS
<1> QED
  BY <1>1

(* Both ends of the way between two multiples.                             *)
LEMMA MultipleDifference ==
  ASSUME NEW m \in Nat \ {0}, NEW a \in Int, NEW b \in Int, NEW q \in Int, NEW r \in Int
  PROVE  q * m - r * m = (q - r) * m
  OBVIOUS

LEMMA SlotsAre == MAX_HITS_NUM \in Nat \ {0} /\ R!Slots = 0 .. MAX_HITS_NUM - 1
  BY Interval DEF R!Slots

LEMMA TwoSlots ==
  ASSUME Steady, last_time # 0
  PROVE  MAX_HITS_NUM \in Nat \ {0, 1}
<1>1. started \in Nat /\ started % MAX_HITS_NUM # 0
  BY DEF Steady
<1>2. started = started * 1
  BY <1>1
<1> QED
  BY <1>1, <1>2, Interval, NoMultiple

LEMMA Numbers ==
  ASSUME CenterInv, Steady, last_time # 0
  PROVE  /\ NextJob \in Int /\ AskedFor \in Nat \ {0} /\ Parsed \in Int
         /\ IntervalOf(last_time) \in Nat
         /\ Len(g_job_list) \in Nat /\ Len(toQueue) \in Nat
<1>1. IntervalOf(last_time) \in Nat /\ Len(g_job_list) \in Nat /\ Len(toQueue) \in Nat
  <2>1. last_time \in Nat /\ g_job_list \in Seq(Int) /\ toQueue \in Seq(Int)
    BY DEF CenterInv, Types
  <2>2. IntervalOf(last_time) \in Nat
    BY <2>1, IntervalBounds
  <2>3. Len(g_job_list) \in Nat /\ Len(toQueue) \in Nat
    BY <2>1
  <2> QED
    BY <2>2, <2>3
<1>2. started \in Nat /\ started > 2 * MAX_HITS_NUM
  BY DEF Steady
<1> QED
  BY <1>1, <1>2, Interval DEF NextJob, AskedFor, Parsed

LEMMA VisitedByAge ==
  ASSUME Steady, last_time # 0, g_hits_index \in R!Slots, g_hits_index # 0
  PROVE  /\ R!Visited = [k \in R!Slots |-> Age(k)]
         /\ \A k \in R!Slots : Age(k) \in R!Slots /\ Age(Age(k)) = k
<1>1. R!Visited = CHOOSE f : IsWalk(f, g_hits_index, MAX_HITS_NUM)
  BY DEF R!Visited, IsWalk, R!Slots, R!Below
<1>2. R!Visited = Walk(g_hits_index, MAX_HITS_NUM)
  BY <1>1, TwoSlots, SlotsAre, WalkIs
<1>3. Walk(g_hits_index, MAX_HITS_NUM) = [k \in R!Slots |-> Age(k)]
  BY SlotsAre DEF Walk, Age
<1>4. \A k \in R!Slots : Age(k) \in R!Slots /\ Age(Age(k)) = k
  BY SlotsAre DEF Age
<1> QED
  BY <1>2, <1>3, <1>4

(* The slots as do_save and do_memo meet them.                             *)
LEMMA StatVisited ==
  ASSUME CenterInv, Steady, Filled, last_time # 0, g_hits_index # 0,
         NEW outside, NEW k \in R!Slots
  PROVE  R!StatAt(R!Visited[k], outside) = Held(Parsed - k)
<1>1. R!Visited[k] = Age(k) /\ Age(k) \in R!Slots /\ Age(Age(k)) = k
  BY VisitedByAge DEF Filled
<1>2. R!StatAt(Age(k), outside) = g_hits_stats[Age(k)]
  BY <1>1 DEF R!StatAt
<1>3. g_hits_stats[Age(k)] = Held(Parsed - Age(Age(k)))
  <2>1. g_hits_stats = [i \in R!Slots |-> Held(Parsed - Age(i))]
    BY DEF Filled
  <2> QED
    BY <1>1, <2>1
<1> QED
  BY <1>1, <1>2, <1>3

LEMMA HeldIs ==
  ASSUME AskedFor \in Nat \ {0}, NEW j \in Int
  PROVE  /\ j >= AskedFor => Held(j).start = j /\ Held(j).start > 0 /\ Held(j).data = <<j>>
         /\ j < AskedFor => ~ (Held(j).start > 0) /\ Held(j).data = <<>>
  BY DEF Held, R!EmptyStat

LEMMA MergedIs ==
  ASSUME CenterInv, Steady, Filled, last_time # 0, g_hits_index # 0, NEW outside
  PROVE  /\ R!Merged(outside) \in Seq(Int)
         /\ ToSet(R!Merged(outside)) = {j \in Parsed - MAX_HITS_NUM + 1 .. Parsed : j >= AskedFor}
<1> DEFINE m == MAX_HITS_NUM
           Piece(k) == IF R!StatAt(R!Visited[k - 1], outside).start > 0
                       THEN R!StatAt(R!Visited[k - 1], outside).data ELSE <<>>
           s == [k \in 1 .. m |-> Piece(k)]
<1>1. R!Merged(outside) = FlattenSeq(s)
  BY DEF R!Merged, R!FlattenSeq, FlattenSeq
<1>2. /\ m \in Nat \ {0} /\ R!Slots = 0 .. m - 1
      /\ Parsed \in Int /\ AskedFor \in Nat \ {0}
  BY SlotsAre, Numbers
<1>3. ASSUME NEW k \in 1 .. m
      PROVE  s[k] = IF Parsed - (k - 1) >= AskedFor THEN <<Parsed - (k - 1)>> ELSE <<>>
  <2>1. k - 1 \in R!Slots /\ Parsed - (k - 1) \in Int
    BY <1>2
  <2>2. R!StatAt(R!Visited[k - 1], outside) = Held(Parsed - (k - 1))
    BY <2>1, StatVisited
  <2>3. s[k] = IF Held(Parsed - (k - 1)).start > 0 THEN Held(Parsed - (k - 1)).data ELSE <<>>
    BY <2>2
  <2> HIDE DEF s
  <2>4. CASE Parsed - (k - 1) >= AskedFor
    BY <1>2, <2>1, <2>3, <2>4, HeldIs
  <2>5. CASE Parsed - (k - 1) < AskedFor
    BY <1>2, <2>1, <2>3, <2>5, HeldIs
  <2> QED
    BY <1>2, <2>1, <2>4, <2>5
<1>4. s \in [1 .. m -> Seq(Int)]
  <2>1. s = [k \in 1 .. m |-> s[k]]
    OBVIOUS
  <2> HIDE DEF s
  <2>2. ASSUME NEW k \in 1 .. m PROVE s[k] \in Seq(Int)
    <3>1. Parsed - (k - 1) \in Int /\ <<>> \in Seq(Int)
      BY <1>2
    <3>2. <<Parsed - (k - 1)>> \in Seq(Int)
      BY <3>1
    <3>3. s[k] \in {<<>>, <<Parsed - (k - 1)>>}
      BY <1>3
    <3> QED
      BY <3>1, <3>2, <3>3
  <2> QED
    BY <2>1, <2>2
<1> HIDE DEF s, m
<1>5. /\ FlattenSeq(s) \in Seq(Int)
      /\ ToSet(FlattenSeq(s)) = UNION {ToSet(s[i]) : i \in 1 .. m}
  BY <1>2, <1>4, FlattenHas
<1>6. \A x : ToSet(<<x>>) = {x}
  BY DEF ToSet
<1>7. ToSet(<<>>) = {}
  BY DEF ToSet
<1>8. ASSUME NEW k \in 1 .. m
      PROVE  ToSet(s[k]) = {j \in Int : j = Parsed - (k - 1) /\ j >= AskedFor}
  <2>1. CASE Parsed - (k - 1) >= AskedFor
    <3>1. s[k] = <<Parsed - (k - 1)>>
      BY <1>3, <2>1, Zenon
    <3>0. Parsed - (k - 1) \in Int
      BY <1>2
    <3>2. ToSet(s[k]) = {Parsed - (k - 1)}
      <4>1. PICK x \in Int : x = Parsed - (k - 1)
        BY <3>0
      <4> QED
        BY <1>6, <3>1, <4>1
    <3> QED
      BY <2>1, <3>0, <3>2
  <2>2. CASE ~ (Parsed - (k - 1) >= AskedFor)
    BY <1>2, <1>3, <1>7, <2>2
  <2> QED
    BY <2>1, <2>2
<1>9. ASSUME NEW j \in Int, j \in Parsed - m + 1 .. Parsed, j >= AskedFor
      PROVE  j \in UNION {ToSet(s[i]) : i \in 1 .. m}
  <2>1. Parsed - j + 1 \in 1 .. m /\ j = Parsed - ((Parsed - j + 1) - 1)
    BY <1>2, <1>9
  <2>2. j \in ToSet(s[Parsed - j + 1])
    BY <1>8, <1>9, <2>1
  <2> QED
    BY <2>1, <2>2
<1>10. ASSUME NEW i \in 1 .. m, NEW j \in ToSet(s[i])
       PROVE  j \in Parsed - m + 1 .. Parsed /\ j >= AskedFor
  BY <1>2, <1>8
<1>11. UNION {ToSet(s[i]) : i \in 1 .. m} = {j \in Parsed - m + 1 .. Parsed : j >= AskedFor}
  <2>1. Parsed - m + 1 .. Parsed \subseteq Int
    OBVIOUS
  <2> QED
    BY <1>9, <1>10, <2>1
<1> QED
  BY <1>1, <1>5, <1>11 DEF m

(* The stamp of a save is the oldest interval in the ring.                 *)
LEMMA LastTimeIs ==
  ASSUME CenterInv, Steady, Filled, last_time # 0, g_hits_index # 0, Parsed >= AskedFor, NEW outside
  PROVE  /\ R!LastTime(outside) \in Int
         /\ Parsed - MAX_HITS_NUM + 1 >= AskedFor =>
              R!LastTime(outside) = Parsed - MAX_HITS_NUM + 1
<1> DEFINE m == MAX_HITS_NUM
           timed == {k \in R!Slots : R!StatAt(R!Visited[k], outside).start > 0}
           last == CHOOSE k \in timed : \A l \in timed : l <= k
<1>1. /\ m \in Nat \ {0} /\ R!Slots = 0 .. m - 1
      /\ Parsed \in Int /\ AskedFor \in Nat \ {0}
  BY SlotsAre, Numbers
<1>2. ASSUME NEW k \in R!Slots
      PROVE  /\ k \in timed <=> Parsed - k >= AskedFor
             /\ Parsed - k >= AskedFor => R!StatAt(R!Visited[k], outside).start = Parsed - k
  <2>1. Parsed - k \in Int /\ R!StatAt(R!Visited[k], outside) = Held(Parsed - k)
    BY <1>1, StatVisited
  <2>2. CASE Parsed - k >= AskedFor
    BY <1>1, <2>1, <2>2, HeldIs
  <2>3. CASE Parsed - k < AskedFor
    BY <1>1, <2>1, <2>3, HeldIs
  <2> QED
    BY <1>1, <2>1, <2>2, <2>3
<1>3. 0 \in timed /\ timed \in SUBSET (0 .. m - 1)
  BY <1>1, <1>2
<1>4. last \in timed /\ \A l \in timed : l <= last
  <2> HIDE DEF timed
  <2>1. \E x \in timed : \A y \in timed : y <= x
    <3>1. m - 1 \in Nat /\ timed # {}
      BY <1>1, <1>3
    <3> QED
      BY <1>3, <3>1, GreatestExists
  <2> QED
    BY <2>1
<1>5. R!LastTime(outside) = R!StatAt(R!Visited[last], outside).start
  <2>1. timed # {}
    BY <1>3
  <2> QED
    BY <2>1 DEF R!LastTime
<1> HIDE DEF timed, last
<1>6. last \in R!Slots /\ R!LastTime(outside) = Parsed - last
  BY <1>1, <1>2, <1>3, <1>4, <1>5
<1>7. Parsed - m + 1 >= AskedFor => last = m - 1
  <2> SUFFICES ASSUME Parsed - m + 1 >= AskedFor PROVE last = m - 1
    OBVIOUS
  <2>1. m - 1 \in R!Slots /\ Parsed - (m - 1) >= AskedFor
    BY <1>1
  <2>2. m - 1 <= last
    BY <1>2, <1>4, <2>1
  <2> QED
    BY <1>1, <1>6, <2>2
<1> QED
  BY <1>1, <1>6, <1>7 DEF m

-----------------------------------------------------------------------------
(* The steps                                                               *)

LEMMA NextJobType ==
  ASSUME CenterInv
  PROVE  NextJob \in Int /\ IntervalOf(last_time) \in Nat /\ job \in Nat
<1>1. last_time \in Nat /\ g_job_list \in Seq(Int) /\ toQueue \in Seq(Int) /\ job \in Nat
  BY DEF CenterInv, Types
<1>2. IntervalOf(last_time) \in Nat
  BY <1>1, IntervalBounds
<1> QED
  BY <1>1, <1>2 DEF NextJob

LEMMA FilledStays ==
  ASSUME Filled, UNCHANGED <<g_hits_index, g_hits_stats, started>>, Parsed' = Parsed,
         last_time # 0, last_time' # 0
  PROVE  Filled'
<1>1. \A i \in R!Slots : Held(Parsed - Age(i))' = Held(Parsed - Age(i))
  BY DEF Held, Age, AskedFor
<1>2. g_hits_stats' = [i \in R!Slots |-> Held(Parsed - Age(i))]'
  BY <1>1 DEF Filled
<1> QED
  BY <1>2 DEF Filled

(* A save stays a save, and what is through stays so.                      *)
LEMMA SavedStays ==
  ASSUME SavedSoFar, database' = database, restarts' \in Nat,
         \A p \in Nat \ {0} :
           started' <= EndOf(p) /\ (EndOf(p) < job' \/ (EndOf(p) = job' /\ pc' = "idle"))
             => started <= EndOf(p) /\ Through(EndOf(p)),
         restarts' = 0 =>
           /\ restarts = 0
           /\ \A r \in Nat :
                Through(r * MAX_HITS_NUM - 1) =>
                  \/ r * MAX_HITS_NUM - 1 < job'
                  \/ r * MAX_HITS_NUM - 1 = job' /\ pc' = "idle"
  PROVE  SavedSoFar'
<1>1. ASSUME NEW p \in Nat \ {0}, (started <= EndOf(p) /\ Through(EndOf(p)))'
      PROVE  PeriodSaved(p)'
  <2>1. PeriodSaved(p)
    BY <1>1 DEF SavedSoFar, Through, EndOf
  <2> QED
    BY <2>1 DEF PeriodSaved
<1>2. ASSUME restarts' = 0
      PROVE  /\ R!SummedUpOnce'
             /\ \A n \in DOMAIN database' : \E r \in Nat :
                  /\ Through(r * MAX_HITS_NUM - 1)'
                  /\ \A x \in ToSet(database'[n].data) : x < r * MAX_HITS_NUM
  <2>1. R!SummedUpOnce'
    <3>1. R!SummedUpOnce
      BY <1>2 DEF SavedSoFar
    <3> QED
      BY <3>1 DEF R!SummedUpOnce, R!ToSet
  <2>2. ASSUME NEW n \in DOMAIN database'
        PROVE  \E r \in Nat :
                  /\ Through(r * MAX_HITS_NUM - 1)'
                  /\ \A x \in ToSet(database'[n].data) : x < r * MAX_HITS_NUM
    <3>1. PICK r \in Nat : /\ Through(r * MAX_HITS_NUM - 1)
                           /\ \A x \in ToSet(database[n].data) : x < r * MAX_HITS_NUM
      BY <1>2 DEF SavedSoFar
    <3>2. Through(r * MAX_HITS_NUM - 1)'
      BY <1>2, <3>1 DEF Through
    <3> QED
      BY <3>1, <3>2
  <2> QED
    BY <2>1, <2>2
<1> QED
  BY <1>1, <1>2 DEF SavedSoFar, ToSet

periodVars == <<last_time, g_job_list, toQueue, started, disturbed, ring>>

LEMMA UnchangedKeepsPeriods ==
  ASSUME Steady, Filled, SavedSoFar, UNCHANGED periodVars
  PROVE  Steady' /\ Filled' /\ SavedSoFar'
<1>1. /\ UNCHANGED <<last_time, g_job_list, toQueue, started, g_hits_index, g_hits_stats>>
      /\ UNCHANGED <<job, pc, database, restarts>>
  BY DEF periodVars, ring
<1>2. NextJob' = NextJob /\ Parsed' = Parsed /\ AskedFor' = AskedFor
  BY <1>1 DEF NextJob, Parsed, IntervalOf, AskedFor
<1>3. Steady'
  BY <1>1, <1>2 DEF Steady, IntervalOf
<1>4. Filled'
  <2>1. CASE last_time = 0
    BY <1>1, <2>1 DEF Filled
  <2>2. CASE last_time # 0
    BY <1>1, <1>2, <2>2, FilledStays
  <2> QED
    BY <2>1, <2>2
<1>5. SavedSoFar'
  <2>1. restarts' \in Nat
    BY <1>1 DEF SavedSoFar
  <2> QED
    BY <1>1, <2>1, SavedStays DEF Through
<1> QED
  BY <1>3, <1>4, <1>5

LEMMA TakesKeepsPeriods ==
  ASSUME CenterInv, Steady, Filled, SavedSoFar, TakesJob
  PROVE  Steady' /\ Filled' /\ SavedSoFar'
<1>1. /\ UNCHANGED <<last_time, toQueue, started, disturbed>>
      /\ g_job_list' = IF g_job_list = <<>> THEN <<>> ELSE Tail(g_job_list)
      /\ job_time' = IF g_job_list = <<>> THEN 0 ELSE Head(g_job_list)
      /\ g_job_list \in Seq(Int) /\ toQueue \in Seq(Int)
  BY DEF TakesJob, JobOut, mainVars, CenterInv, Types
<1>2. CASE g_job_list = <<>>
  BY <1>1, <1>2, UnchangedKeepsPeriods DEF TakesJob, periodVars
<1>3. CASE g_job_list # <<>>
  <2> DEFINE n == Len(g_job_list)
  <2>1. /\ n \in Nat \ {0} /\ g_job_list' = Tail(g_job_list)
        /\ Len(g_job_list') = n - 1
        /\ \A i \in 1 .. n - 1 : g_job_list'[i] = g_job_list[i + 1]
        /\ job_time' = g_job_list[1] /\ 1 \in 1 .. n
    BY <1>1, <1>3
  <2>2. last_time # 0
    BY <1>3, StartedBefore
  <2>3. g_job_list[1] \in Nat \ {0} /\ IntervalOf(g_job_list[1]) = NextJob /\ NextJob > job
    <3>1. /\ g_job_list[1] \in Nat \ {0}
          /\ IntervalOf(g_job_list[1]) \in job + 1 .. IntervalOf(last_time) - 1
      BY <2>1 DEF CenterInv, Queues, Waiting
    <3>2. IntervalOf(g_job_list[1]) = NextJob + 1 - 1
      BY <2>1, <2>2 DEF Steady
    <3> QED
      BY <3>1, <3>2, NextJobType
  <2>4. /\ pc = "idle" /\ job' = NextJob /\ pc' = "download"
        /\ UNCHANGED <<g_hits_index, g_hits_stats, database, restarts>>
    <3>1. R!Starts(NextJob)
      BY <2>1, <2>3 DEF TakesJob, IntervalOf
    <3> QED
      BY <3>1 DEF R!Starts, R!ringVars
  <2>5. /\ NextJob \in Int /\ AskedFor \in Nat \ {0} /\ Parsed \in Int
        /\ IntervalOf(last_time) \in Nat /\ Len(toQueue) \in Nat
    BY <2>2, Numbers
  <2>6. NextJob' = NextJob + 1
    <3>1. NextJob' = IntervalOf(last_time) - (n - 1) - Len(toQueue)
      BY <1>1, <2>1 DEF NextJob, IntervalOf
    <3> QED
      BY <2>1, <2>5, <3>1 DEF NextJob
  <2>7. Parsed' = Parsed
    BY <2>4, <2>5, <2>6 DEF Parsed
  <2> HIDE DEF n
  <2>8. Steady'
    <3>1. ASSUME NEW i \in 1 .. n - 1 PROVE IntervalOf(g_job_list'[i]) = NextJob' + i - 1
      <4>1. i + 1 \in 1 .. n
        BY <2>1
      <4>2. IntervalOf(g_job_list[i + 1]) = NextJob + (i + 1) - 1
        BY <2>2, <4>1 DEF Steady, n
      <4> QED
        BY <2>1, <2>5, <2>6, <4>2
    <3>2. ASSUME NEW i \in 1 .. Len(toQueue)
          PROVE  IntervalOf(toQueue[i]) = NextJob' + (n - 1) + i - 1
      <4>1. IntervalOf(toQueue[i]) = NextJob + n + i - 1
        BY <2>2 DEF Steady, n
      <4> QED
        BY <2>1, <2>5, <2>6, <4>1
    <3>3. NextJob' >= AskedFor' /\ NextJob' # AskedFor' /\ AskedFor' = AskedFor
      BY <1>1, <2>2, <2>5, <2>6 DEF Steady, AskedFor
    <3>4. job' = NextJob' - 1
      BY <2>4, <2>5, <2>6
    <3> QED
      BY <1>1, <2>1, <2>2, <3>1, <3>2, <3>3, <3>4 DEF Steady, IntervalOf
  <2>9. Filled'
    BY <1>1, <2>2, <2>4, <2>7, FilledStays
  <2>10. SavedSoFar'
    <3>1. ASSUME NEW p \in Nat \ {0}, started <= EndOf(p), EndOf(p) < NextJob
          PROVE  Through(EndOf(p))
      <4>1. EndOf(p) \in Int /\ started \in Nat /\ started > AskedFor
        BY <2>2, <2>5, SlotsAre DEF Steady, EndOf, AskedFor
      <4>2. NextJob # AskedFor
        BY <2>5, <3>1, <4>1
      <4>3. job = NextJob - 1
        BY <2>2, <4>2 DEF Steady
      <4> QED
        BY <2>4, <2>5, <3>1, <4>1, <4>3 DEF Through
    <3>2. ASSUME NEW r \in Nat, Through(r * MAX_HITS_NUM - 1)
          PROVE  r * MAX_HITS_NUM - 1 < NextJob
      <4>1. r * MAX_HITS_NUM - 1 \in Int /\ job \in Nat
        BY SlotsAre, NextJobType
      <4> QED
        BY <2>3, <2>5, <3>2, <4>1 DEF Through
    <3> QED
      BY <1>1, <2>4, <3>1, <3>2, SavedStays DEF SavedSoFar
  <2> QED
    BY <2>8, <2>9, <2>10
<1> QED
  BY <1>2, <1>3

LEMMA AppendKeepsPeriods ==
  ASSUME CenterInv, Steady, Filled, SavedSoFar, Timer(AppendJob)
  PROVE  Steady' /\ Filled' /\ SavedSoFar'
<1> DEFINE n == Len(g_job_list)
           m == Len(toQueue)
<1>1. /\ mainPc = "append" /\ toQueue # <<>>
      /\ g_job_list' = Append(g_job_list, toQueue[1]) /\ toQueue' = Tail(toQueue)
      /\ UNCHANGED <<last_time, started, g_hits_index, g_hits_stats, job, pc, database, restarts>>
      /\ g_job_list \in Seq(Int) /\ toQueue \in Seq(Int)
  BY DEF Timer, AppendJob, Appended, workerVars, ring, CenterInv, Types, Queues
<1>2. /\ n \in Nat /\ m \in Nat \ {0}
      /\ Len(g_job_list') = n + 1 /\ Len(toQueue') = m - 1
      /\ \A i \in 1 .. n : g_job_list'[i] = g_job_list[i]
      /\ g_job_list'[n + 1] = toQueue[1]
      /\ \A k \in 1 .. m - 1 : toQueue'[k] = toQueue[k + 1]
  BY <1>1
<1>3. last_time # 0
  BY <1>1, StartedBefore
<1>4. /\ NextJob \in Int /\ AskedFor \in Nat \ {0} /\ Parsed \in Int
      /\ IntervalOf(last_time) \in Nat
  BY <1>3, Numbers
<1>5. NextJob' = NextJob
  <2>1. NextJob' = IntervalOf(last_time) - (n + 1) - (m - 1)
    BY <1>1, <1>2 DEF NextJob, IntervalOf
  <2> QED
    BY <1>2, <1>4, <2>1 DEF NextJob
<1>6. Parsed' = Parsed /\ AskedFor' = AskedFor
  BY <1>1, <1>5 DEF Parsed, AskedFor
<1> HIDE DEF n, m
<1>7. Steady'
  <2>1. ASSUME NEW i \in 1 .. n + 1 PROVE IntervalOf(g_job_list'[i]) = NextJob + i - 1
    <3>1. CASE i \in 1 .. n
      BY <1>2, <1>3, <3>1 DEF Steady, n
    <3>2. CASE i = n + 1
      <4>1. 1 \in 1 .. m
        BY <1>2
      <4>2. IntervalOf(toQueue[1]) = NextJob + n + 1 - 1
        BY <1>3, <4>1 DEF Steady, n, m
      <4> QED
        BY <1>2, <1>4, <3>2, <4>2
    <3> QED
      BY <1>2, <3>1, <3>2
  <2>2. ASSUME NEW i \in 1 .. m - 1
        PROVE  IntervalOf(toQueue'[i]) = NextJob + (n + 1) + i - 1
    <3>1. i + 1 \in 1 .. m
      BY <1>2
    <3>2. IntervalOf(toQueue[i + 1]) = NextJob + n + (i + 1) - 1
      BY <1>3, <3>1 DEF Steady, n, m
    <3> QED
      BY <1>2, <1>4, <3>2
  <2> QED
    BY <1>1, <1>2, <1>3, <1>5, <1>6, <2>1, <2>2 DEF Steady, IntervalOf
<1>8. Filled'
  BY <1>1, <1>3, <1>6, FilledStays
<1>9. SavedSoFar'
  <2>1. restarts' \in Nat
    BY <1>1 DEF SavedSoFar
  <2> QED
    BY <1>1, <2>1, SavedStays DEF Through
<1> QED
  BY <1>7, <1>8, <1>9

LEMMA PeriodEnds ==
  ASSUME NEW p \in Nat \ {0}
  PROVE  EndOf(p) \in Nat \ {0} /\ EndOf(p) + 1 = (p + 1) * MAX_HITS_NUM
<1>1. p * MAX_HITS_NUM \in Nat /\ p * MAX_HITS_NUM >= 1
  BY Interval
<1> QED
  BY <1>1, Interval DEF EndOf

(* The first time round main asks for as many intervals as there are       *)
(* slots, and thread_job has done none of them in this run.                *)
LEMMA FirstKeepsPeriods ==
  ASSUME CenterInv, Filled, SavedSoFar, ProducesJobs, last_time = 0, ~ disturbed'
  PROVE  Steady' /\ Filled' /\ SavedSoFar'
<1>1. /\ toQueue' = JobsDue /\ g_job_list' = g_job_list /\ g_job_list = <<>>
      /\ last_time' = now /\ started' = IntervalOf(now) /\ started' % MAX_HITS_NUM # 0
      /\ UNCHANGED <<g_hits_index, g_hits_stats, job, pc, database, restarts>>
      /\ now - last_time >= oxeye_get_interval
  BY DEF ProducesJobs, Produce, Due, queueVars, ring, CenterInv, Started
<1>2. /\ now \in Nat /\ job \in Nat /\ MAX_HITS_NUM \in Nat \ {0}
      /\ IntervalOf(now) \in Nat /\ IntervalOf(now) > 2 * MAX_HITS_NUM
      /\ now # 0
  BY <1>1, Interval, IntervalBounds DEF CenterInv, Types
<1>3. Len(JobsDue) = MAX_HITS_NUM
  BY <1>2, JobsDueLen
<1>4. NextJob' = started' - MAX_HITS_NUM
  <2>1. NextJob' = IntervalOf(now) - 0 - MAX_HITS_NUM
    BY <1>1, <1>3 DEF NextJob, IntervalOf
  <2> QED
    BY <1>1, <1>2, <2>1
<1>5. AskedFor' = started' - MAX_HITS_NUM
  BY DEF AskedFor
<1>6. pc = "idle" /\ g_hits_index = 0 /\ g_hits_stats = [i \in R!Slots |-> R!EmptyStat]
  BY DEF Filled
<1>7. Parsed' = NextJob' - 1
  BY <1>1, <1>6 DEF Parsed
<1>8. Steady'
  <2>1. ASSUME NEW i \in 1 .. Len(JobsDue)
        PROVE  IntervalOf(JobsDue[i]) = NextJob' + 0 + i - 1
    <3>1. IntervalOf(JobsDue[i]) = IntervalOf(now) - 1 - (Len(JobsDue) - i)
      BY <1>2, JobDueInterval
    <3> QED
      BY <1>1, <1>2, <1>3, <1>4, <3>1
  <2> QED
    BY <1>1, <1>2, <1>4, <1>5, <1>6, <2>1 DEF Steady, IntervalOf
<1>9. Filled'
  <2>1. \A i \in R!Slots : Held(Parsed - Age(i))' = R!EmptyStat
    <3> SUFFICES ASSUME NEW i \in R!Slots PROVE Held(Parsed - Age(i))' = R!EmptyStat
      OBVIOUS
    <3>1. Age(i)' \in Nat
      BY <1>1, <1>6, SlotsAre DEF Age
    <3>2. ~ (Parsed' - Age(i)' >= AskedFor')
      BY <1>1, <1>2, <1>4, <1>5, <1>7, <3>1
    <3> QED
      BY <3>2 DEF Held
  <2>2. g_hits_index' = Parsed' + 1 - started' + 1 * MAX_HITS_NUM
    BY <1>1, <1>2, <1>4, <1>6, <1>7
  <2>3. g_hits_index' \in R!Slots
    BY <1>1 DEF Filled
  <2> QED
    BY <1>1, <1>2, <1>6, <2>1, <2>2, <2>3 DEF Filled
<1>10. SavedSoFar'
  <2>1. ASSUME NEW p \in Nat \ {0}, started' <= EndOf(p), EndOf(p) <= job PROVE FALSE
    <3>1. EndOf(p) \in Nat \ {0}
      BY PeriodEnds
    <3>2. job = 0 \/ job + MAX_HITS_NUM < IntervalOf(now)
      BY DEF CenterInv, Started
    <3> QED
      BY <1>1, <1>2, <2>1, <3>1, <3>2
  <2>2. ASSUME NEW p \in Nat \ {0}
        PROVE  EndOf(p) < job' \/ (EndOf(p) = job' /\ pc' = "idle") => EndOf(p) <= job
    <3>1. EndOf(p) \in Nat /\ job' \in Nat /\ job' = job
      BY <1>1, <1>2, PeriodEnds
    <3> QED
      BY <3>1
  <2>3. restarts' \in Nat
    BY <1>1 DEF SavedSoFar
  <2> QED
    BY <1>1, <2>1, <2>2, <2>3, SavedStays DEF Through
<1> QED
  BY <1>8, <1>9, <1>10

(* Undisturbed, main asks for one interval after the other.                *)
LEMMA LaterKeepsPeriods ==
  ASSUME CenterInv, Steady, Filled, SavedSoFar, ProducesJobs, last_time # 0, ~ disturbed'
  PROVE  Steady' /\ Filled' /\ SavedSoFar'
<1> DEFINE n == Len(g_job_list)
<1>1. /\ toQueue' = JobsDue /\ g_job_list' = g_job_list /\ toQueue = <<>>
      /\ last_time' = now /\ started' = started
      /\ JobTime(now) = JobTime(last_time) + oxeye_get_interval
      /\ UNCHANGED <<g_hits_index, g_hits_stats, job, pc, database, restarts>>
      /\ now - last_time >= oxeye_get_interval
  BY DEF ProducesJobs, Produce, Due, queueVars, ring, CenterInv, Queues
<1>2. /\ now \in Nat /\ last_time \in Nat /\ now # 0
      /\ IntervalOf(now) \in Nat /\ IntervalOf(last_time) \in Nat
      /\ oxeye_get_interval \in Nat \ {0}
  <2>1. now \in Nat /\ last_time \in Nat /\ oxeye_get_interval \in Nat \ {0}
    BY Interval DEF CenterInv, Types
  <2> QED
    BY <1>1, <2>1, IntervalBounds
<1>3. IntervalOf(now) = IntervalOf(last_time) + 1
  <2> DEFINE i == oxeye_get_interval
             q == IntervalOf(now)
             r == IntervalOf(last_time)
  <2>1. JobTime(now) = q * i - i /\ JobTime(last_time) = r * i - i
    BY DEF JobTime, IntervalOf
  <2>2. q * i = (r + 1) * i
    <3>1. q * i - i = r * i - i + i
      BY <1>1, <2>1
    <3> HIDE DEF q, r, i
    <3>2. q \in Nat /\ r \in Nat /\ i \in Nat \ {0}
      BY <1>2 DEF q, r, i
    <3> QED
      BY <3>1, <3>2
  <2>3. IntervalOf(q * i) = q /\ IntervalOf((r + 1) * i) = r + 1
    BY <1>2, IntervalOfMultiple
  <2> QED
    BY <2>2, <2>3
<1>4. /\ NextJob \in Int /\ AskedFor \in Nat \ {0} /\ Parsed \in Int /\ n \in Nat
  BY Numbers
<1>5. Len(JobsDue) = 1
  BY <1>2, JobsDueLen
<1>6. NextJob' = NextJob
  <2>1. NextJob' = IntervalOf(now) - n - 1
    BY <1>1, <1>5 DEF NextJob, IntervalOf
  <2>2. NextJob = IntervalOf(last_time) - n - 0
    BY <1>1 DEF NextJob
  <2> HIDE DEF n
  <2> QED
    BY <1>2, <1>3, <1>4, <2>1, <2>2
<1>7. Parsed' = Parsed /\ AskedFor' = AskedFor
  BY <1>1, <1>6 DEF Parsed, AskedFor
<1>8. Steady'
  <2>1. ASSUME NEW i \in 1 .. Len(JobsDue)
        PROVE  IntervalOf(JobsDue[i]) = NextJob + n + i - 1
    <3>1. IntervalOf(JobsDue[i]) = IntervalOf(now) - 1 - (Len(JobsDue) - i)
      BY <1>2, JobDueInterval
    <3>2. NextJob = IntervalOf(last_time) - n - 0
      BY <1>1 DEF NextJob
    <3> HIDE DEF n
    <3> QED
      BY <1>2, <1>3, <1>4, <1>5, <3>1, <3>2
  <2>2. started \in Nat /\ started <= IntervalOf(now)
    BY <1>2, <1>3 DEF Steady
  <2> QED
    BY <1>1, <1>2, <1>6, <1>7, <2>1, <2>2 DEF Steady, IntervalOf
<1>9. Filled'
  BY <1>1, <1>2, <1>7, FilledStays
<1>10. SavedSoFar'
  <2>1. restarts' \in Nat
    BY <1>1 DEF SavedSoFar
  <2> QED
    BY <1>1, <2>1, SavedStays DEF Through
<1> QED
  BY <1>8, <1>9, <1>10

LEMMA KilledKeepsPeriods ==
  ASSUME CenterInv, SavedSoFar, KilledAndStarted
  PROVE  Steady' /\ Filled' /\ SavedSoFar'
<1>1. /\ last_time' = 0 /\ pc' = "idle" /\ g_hits_index' = 0
      /\ g_hits_stats' = [i \in R!Slots |-> R!EmptyStat]
      /\ job' = job - MAX_HITS_NUM /\ restarts' = restarts + 1
      /\ database' = database /\ started' = started
  BY DEF KilledAndStarted, R!Restart
<1>2. Steady'
  BY <1>1 DEF Steady
<1>3. Filled'
  BY <1>1, SlotsAre DEF Filled
<1>4. SavedSoFar'
  <2>1. restarts' \in Nat \ {0}
    BY <1>1 DEF SavedSoFar
  <2>2. ASSUME NEW p \in Nat \ {0}, EndOf(p) <= job - MAX_HITS_NUM PROVE Through(EndOf(p))
    BY <2>2, PeriodEnds, NextJobType, SlotsAre DEF Through
  <2>3. ASSUME NEW p \in Nat \ {0}, EndOf(p) < job' \/ (EndOf(p) = job' /\ pc' = "idle")
        PROVE  EndOf(p) <= job - MAX_HITS_NUM
    <3>1. /\ EndOf(p) \in Nat /\ job' = job - MAX_HITS_NUM
          /\ job \in Nat /\ MAX_HITS_NUM \in Nat
      BY <1>1, PeriodEnds, NextJobType, SlotsAre
    <3> QED
      BY <2>3, <3>1
  <2> QED
    BY <1>1, <2>1, <2>2, <2>3, SavedStays
<1> QED
  BY <1>2, <1>3, <1>4

(* While do_job is at work, it is at the interval before the next.         *)
LEMMA AtWork ==
  ASSUME CenterInv, Steady, Filled, pc # "idle"
  PROVE  /\ last_time # 0 /\ job = NextJob - 1 /\ job >= AskedFor
         /\ job \in Nat /\ AskedFor \in Nat \ {0} /\ NextJob \in Int /\ Parsed \in Int
         /\ Parsed = IF pc = "download" THEN job - 1 ELSE job
         /\ job <= LastJob
<1>1. last_time # 0
  BY DEF Filled
<1>2. job \in Nat /\ AskedFor \in Nat \ {0} /\ NextJob \in Int /\ Parsed \in Int
  BY <1>1, Numbers, NextJobType
<1>3. job = NextJob - 1 /\ NextJob >= AskedFor /\ NextJob # AskedFor
  BY <1>1 DEF Steady
<1>4. job <= LastJob
  <2>1. job < IntervalOf(last_time)
    BY <1>1 DEF CenterInv, Started
  <2>2. last_time \in Nat /\ MaxNow \in Nat /\ last_time <= MaxNow
    BY ClockAssumption DEF CenterInv, Types
  <2>3. /\ IntervalOf(last_time) \in Nat /\ IntervalOf(MaxNow) \in Nat
        /\ IntervalOf(last_time) <= IntervalOf(MaxNow)
    BY <2>2, IntervalMonotonic, IntervalBounds
  <2> QED
    BY <1>2, <2>1, <2>3 DEF LastJob
<1> QED
  BY <1>1, <1>2, <1>3, <1>4 DEF Parsed

(* The newest slot is the one of the job, when it was parsed.              *)
LEMMA NewestIsJob ==
  ASSUME CenterInv, Steady, Filled, pc = "save"
  PROVE  R!one_period_complete <=> (job + 1) % MAX_HITS_NUM = 0
<1>1. /\ last_time # 0 /\ job >= AskedFor /\ Parsed = job
      /\ job \in Nat /\ AskedFor \in Nat \ {0}
  BY AtWork
<1>2. R!Newest \in R!Slots /\ Age(R!Newest) = 0
  BY SlotsAre DEF R!Newest, Age, Filled
<1>3. g_hits_stats[R!Newest] = Held(job - 0)
  <2>1. g_hits_stats = [i \in R!Slots |-> Held(Parsed - Age(i))]
    BY <1>1 DEF Filled
  <2> QED
    BY <1>1, <1>2, <2>1
<1>4. g_hits_stats[R!Newest].start = job
  BY <1>1, <1>3, HeldIs
<1> QED
  BY <1>4 DEF R!one_period_complete

(* A step of do_job within a job.                                          *)
LEMMA WithinKeepsPeriods ==
  ASSUME CenterInv, Steady, Filled, SavedSoFar,
         UNCHANGED <<jobVars, started, job, database, restarts>>,
         pc # "idle", pc' # "idle"
  PROVE  Steady' /\ SavedSoFar' /\ NextJob' = NextJob
<1>1. UNCHANGED <<last_time, g_job_list, toQueue>>
  BY DEF jobVars, mainVars, queueVars
<1>2. NextJob' = NextJob /\ AskedFor' = AskedFor
  BY <1>1 DEF NextJob, IntervalOf, AskedFor
<1>3. Steady'
  BY <1>1, <1>2 DEF Steady, IntervalOf
<1>4. SavedSoFar'
  <2>1. restarts' \in Nat
    BY DEF SavedSoFar
  <2> QED
    BY <2>1, SavedStays DEF Through
<1> QED
  BY <1>2, <1>3, <1>4

LEMMA MemoKeepsPeriods ==
  ASSUME CenterInv, Steady, Filled, SavedSoFar, R!do_memo, UNCHANGED <<jobVars, started>>
  PROVE  Steady' /\ Filled' /\ SavedSoFar'
<1>1. /\ pc = "memo" /\ pc' = "save"
      /\ UNCHANGED <<g_hits_index, g_hits_stats, job, database, restarts>>
  BY DEF R!do_memo, R!ringVars
<1>2. Steady' /\ SavedSoFar' /\ NextJob' = NextJob
  BY <1>1, WithinKeepsPeriods
<1>3. last_time # 0 /\ last_time' = last_time
  BY <1>1, AtWork DEF jobVars, mainVars
<1>4. Parsed' = Parsed
  BY <1>1, <1>2 DEF Parsed
<1>5. Filled'
  BY <1>1, <1>3, <1>4, FilledStays
<1> QED
  BY <1>2, <1>5

LEMMA ParseKeepsPeriods ==
  ASSUME CenterInv, Steady, Filled, SavedSoFar, R!Parse("full"), UNCHANGED <<jobVars, started>>
  PROVE  Steady' /\ Filled' /\ SavedSoFar'
<1> DEFINE m == MAX_HITS_NUM
<1>1. /\ pc = "download" /\ pc' = "memo"
      /\ g_hits_stats' = [g_hits_stats EXCEPT ![g_hits_index] = R!json_parse(R!Released(@), "full")]
      /\ g_hits_index' = R!NextSlot(g_hits_index)
      /\ UNCHANGED <<job, database, restarts>>
  BY DEF R!Parse
<1>2. Steady' /\ SavedSoFar' /\ NextJob' = NextJob
  BY <1>1, WithinKeepsPeriods
<1>3. /\ last_time # 0 /\ last_time' = last_time /\ job >= AskedFor /\ Parsed = job - 1
      /\ job \in Nat /\ AskedFor \in Nat \ {0} /\ job = NextJob - 1
      /\ m \in Nat \ {0} /\ R!Slots = 0 .. m - 1 /\ g_hits_index \in R!Slots
      /\ g_hits_stats = [i \in R!Slots |-> Held(Parsed - Age(i))]
      /\ AskedFor' = AskedFor
  BY <1>1, AtWork, SlotsAre DEF jobVars, mainVars, Filled, AskedFor
<1>4. Parsed' = job
  BY <1>1, <1>2, <1>3 DEF Parsed
<1> HIDE DEF m
<1>9. PICK x \in Int : x = g_hits_index /\ x \in R!Slots
  BY <1>3
<1>10. m \in Nat \ {0} /\ R!Slots = 0 .. m - 1
  BY <1>3
<1>5. /\ g_hits_index' \in R!Slots /\ Age(x)' = 0
      /\ \A i \in R!Slots : Age(i) \in R!Slots
      /\ \A i \in R!Slots : i # x => Age(i)' = Age(i) + 1
  <2>1. x = g_hits_index /\ x \in 0 .. m - 1
    BY <1>9, <1>10
  <2>2. PICK y \in Int : y = g_hits_index' /\ y = IF x + 1 >= m THEN 0 ELSE x + 1
    BY <1>1, <2>1 DEF R!NextSlot, m
  <2>3. \A i \in 0 .. m - 1 :
          /\ Age(i) = IF i < x THEN x - 1 - i ELSE m + x - 1 - i
          /\ Age(i)' = IF i < y THEN y - 1 - i ELSE m + y - 1 - i
    BY <2>1, <2>2 DEF Age, m
  <2>4. y \in 0 .. m - 1
    BY <1>10, <2>1, <2>2
  <2>5. Age(x)' = 0
    BY <1>10, <2>1, <2>2, <2>3
  <2>6. ASSUME NEW i \in 0 .. m - 1 PROVE Age(i) \in 0 .. m - 1
    <3>1. Age(i) = IF i < x THEN x - 1 - i ELSE m + x - 1 - i
      BY <2>3
    <3> QED
      BY <1>10, <2>1, <3>1
  <2>7. ASSUME NEW i \in 0 .. m - 1, i # x PROVE Age(i)' = Age(i) + 1
    <3>1. Age(i) = IF i < x THEN x - 1 - i ELSE m + x - 1 - i
      BY <2>3
    <3>2. Age(i)' = IF i < y THEN y - 1 - i ELSE m + y - 1 - i
      BY <2>3
    <3> QED
      BY <1>10, <2>1, <2>2, <2>7, <3>1, <3>2
  <2> QED
    BY <1>10, <2>1, <2>2, <2>4, <2>5, <2>6, <2>7
<1>6. g_hits_stats'[x] = [start |-> job, data |-> <<job>>]
  <2>1. PICK j \in Int : g_hits_stats[x] = Held(j)
    <3>1. /\ Age(x) \in Int /\ Parsed \in Int
          /\ g_hits_stats[x] = Held(Parsed - Age(x))
      <4>1. Parsed \in Int /\ x \in R!Slots
        BY <1>3, <1>9
      <4>2. Age(x) \in Int
        BY <1>5, <1>9, <1>10
      <4>3. g_hits_stats[x] = Held(Parsed - Age(x))
        BY <1>3, <1>9
      <4> QED
        BY <4>1, <4>2, <4>3
    <3>2. Parsed - Age(x) \in Int
      BY <3>1
    <3> QED
      BY <3>1, <3>2
  <2>2. R!Released(Held(j)) = R!EmptyStat
    BY <1>3, <2>1 DEF R!Released, Held, R!EmptyStat
  <2>3. R!json_parse(R!EmptyStat, "full") = [start |-> job, data |-> <<job>>]
    BY DEF R!json_parse, R!EmptyStat
  <2>4. g_hits_stats'[x] = R!json_parse(R!Released(g_hits_stats[x]), "full")
    BY <1>1, <1>3, <1>9
  <2> QED
    BY <2>1, <2>2, <2>3, <2>4
<1>7. ASSUME NEW i \in R!Slots PROVE g_hits_stats'[i] = Held(Parsed - Age(i))'
  <2>1. CASE i = x
    <3>1. Parsed' - Age(i)' = job
      <4>1. Parsed' = job /\ Age(i)' = 0 /\ job \in Nat
        <5>1. job \in Nat
          BY <1>3
        <5> QED
          BY <1>4, <1>5, <2>1, <5>1
      <4>2. job - 0 = job
        BY <4>1
      <4> QED
        BY <4>1, <4>2
    <3>2. Held(Parsed - Age(i))' = [start |-> job, data |-> <<job>>]
      BY <1>3, <3>1 DEF Held
    <3> QED
      BY <1>6, <2>1, <3>2
  <2>2. CASE i # x
    <3>1. g_hits_stats'[i] = Held(Parsed - Age(i))
      BY <1>1, <1>3, <1>9, <2>2
    <3>2. Parsed' - Age(i)' = Parsed - Age(i)
      BY <1>3, <1>4, <1>5, <2>2
    <3>3. Held(Parsed - Age(i))' = Held(Parsed - Age(i))
      BY <1>3, <3>2 DEF Held
    <3> QED
      BY <3>1, <3>3
  <2> QED
    BY <2>1, <2>2
<1>8. Filled'
  <2>1. g_hits_stats' = [i \in R!Slots |-> Held(Parsed - Age(i))]'
    <3>1. g_hits_stats' = [i \in R!Slots |-> g_hits_stats'[i]]
      BY <1>1, <1>3
    <3> QED
      BY <1>7, <3>1
  <2>2. \E q \in Int : g_hits_index' = Parsed' + 1 - started + q * m
    <3>1. PICK q \in Int : g_hits_index = Parsed + 1 - started + q * m
      BY <1>3 DEF Filled, m
    <3>2. started \in Int /\ q * m \in Int /\ (q - 1) * m = q * m - m
      BY <1>3 DEF Steady
    <3>3. g_hits_index' = g_hits_index + 1 \/ g_hits_index' = g_hits_index + 1 - m
      BY <1>1, <1>3 DEF R!NextSlot, m
    <3>4. g_hits_index + 1 = job + 1 - started + q * m
      BY <1>3, <3>1, <3>2
    <3>5. CASE g_hits_index' = g_hits_index + 1
      <4>1. g_hits_index' = job + 1 - started + q * m
        BY <3>4, <3>5
      <4> QED
        BY <1>4, <4>1
    <3>6. CASE g_hits_index' = g_hits_index + 1 - m
      <4>1. g_hits_index + 1 - m = job + 1 - started + (q - 1) * m
        <5> DEFINE k == q * m
        <5>1. k \in Int
          BY <3>2
        <5> HIDE DEF k
        <5>2. g_hits_index + 1 - m = job + 1 - started + (k - m)
          BY <1>3, <3>2, <3>4, <5>1 DEF k
        <5> QED
          BY <3>2, <5>2 DEF k
      <4> QED
        BY <1>4, <3>6, <4>1
    <3> QED
      BY <3>3, <3>5, <3>6
  <2> QED
    BY <1>3, <1>5, <2>1, <2>2 DEF Filled, m
<1> QED
  BY <1>2, <1>8

(* do_job returns, with the ring as it is.                                 *)
LEMMA ReturnKeepsPeriods ==
  ASSUME CenterInv, Steady, Filled, pc = "save", pc' = "idle",
         UNCHANGED <<jobVars, started, job, g_hits_index, g_hits_stats>>
  PROVE  Steady' /\ Filled'
<1>1. UNCHANGED <<last_time, g_job_list, toQueue>>
  BY DEF jobVars, mainVars, queueVars
<1>2. /\ last_time # 0 /\ job = NextJob - 1 /\ NextJob # AskedFor
      /\ NextJob \in Int /\ AskedFor \in Nat \ {0} /\ job \in Nat
  BY AtWork
<1>3. NextJob' = NextJob /\ AskedFor' = AskedFor
  BY <1>1 DEF NextJob, IntervalOf, AskedFor
<1>4. Steady'
  BY <1>1, <1>2, <1>3 DEF Steady, IntervalOf
<1>5. Parsed' = Parsed
  BY <1>3 DEF Parsed
<1>6. Filled'
  BY <1>1, <1>2, <1>5, FilledStays
<1> QED
  BY <1>4, <1>6

LEMMA NotYetKeepsPeriods ==
  ASSUME CenterInv, Steady, Filled, SavedSoFar, R!NotYet, UNCHANGED <<jobVars, started>>
  PROVE  Steady' /\ Filled' /\ SavedSoFar'
<1>1. /\ pc = "save" /\ pc' = "idle" /\ ~ R!one_period_complete
      /\ UNCHANGED <<g_hits_index, g_hits_stats, job, database, restarts>>
  BY DEF R!NotYet, R!ringVars
<1>2. Steady' /\ Filled'
  BY <1>1, ReturnKeepsPeriods
<1>3. job \in Nat /\ (job + 1) % MAX_HITS_NUM # 0
  BY <1>1, AtWork, NewestIsJob
<1>4. ASSUME NEW p \in Nat \ {0} PROVE EndOf(p) # job
  <2>1. job + 1 \in Int /\ p + 1 \in Int /\ MAX_HITS_NUM \in Nat \ {0}
    BY <1>3, SlotsAre
  <2>2. job + 1 # (p + 1) * MAX_HITS_NUM
    BY <1>3, <2>1, NoMultiple
  <2> QED
    BY <2>2, PeriodEnds
<1>5. SavedSoFar'
  <2>1. restarts' \in Nat
    BY <1>1 DEF SavedSoFar
  <2> QED
    BY <1>1, <1>4, <2>1, SavedStays DEF Through
<1> QED
  BY <1>2, <1>5

LEMMA IntervalsOfPeriod ==
  ASSUME NEW p \in Nat \ {0}, EndOf(p) <= LastJob, LastJob \in Nat
  PROVE  R!IntervalsOf(p) = p * MAX_HITS_NUM .. EndOf(p)
<1> DEFINE m == MAX_HITS_NUM
           a == p * m
<1>1. m \in Nat \ {0} /\ a \in Nat /\ a >= 1 /\ (p + 1) * m = a + m /\ EndOf(p) = a + m - 1
  BY Interval DEF EndOf
<1>2. ASSUME NEW j \in 1 .. LastJob PROVE j \div m = p <=> j \in a .. a + m - 1
  <2>1. j \in Nat /\ j \div m \in Int /\ (j \div m) * m <= j /\ j < (j \div m + 1) * m
    BY <1>1
  <2>2. j \div m = p => j \in a .. a + m - 1
    BY <1>1, <2>1
  <2>3. ASSUME j \in a .. a + m - 1 PROVE j \div m = p
    <3>1. p * m <= j /\ j < (p + 1) * m
      BY <1>1, <2>1, <2>3
    <3> QED
      BY <1>1, <2>1, <3>1, DivUnique
  <2> QED
    BY <2>2, <2>3
<1> HIDE DEF a
<1>3. a .. a + m - 1 \subseteq 1 .. LastJob
  BY <1>1
<1>4. R!IntervalsOf(p) = {j \in 1 .. LastJob : j \div m = p}
  BY DEF R!IntervalsOf, R!PeriodOf
<1> HIDE DEF m
<1> QED
  BY <1>1, <1>2, <1>3, <1>4 DEF a, m

(* The save at the end of a period: all that it should have, and nothing   *)
(* that an earlier one has.                                                *)
LEMMA SaveKeepsPeriods ==
  ASSUME CenterInv, Undisturbed, Steady, Filled, SavedSoFar, R!do_save,
         UNCHANGED <<jobVars, started>>
  PROVE  Steady' /\ Filled' /\ SavedSoFar'
<1> DEFINE m == MAX_HITS_NUM
           n == Len(database)
<1>1. PICK outside \in Outside, connected \in Connects :
        /\ g_start_time' = R!LastTime(outside)
        /\ database' = R!db_save(R!Merged(outside), g_start_time', connected)
  BY DEF R!do_save
<1> DEFINE save == [start |-> R!LastTime(outside), data |-> R!Merged(outside)]
<1>2. /\ pc = "save" /\ pc' = "idle" /\ R!one_period_complete
      /\ UNCHANGED <<g_hits_index, g_hits_stats, job, restarts>>
  BY DEF R!do_save, R!ringVars
<1>3. Steady' /\ Filled'
  BY <1>2, ReturnKeepsPeriods
<1>4. database' = Append(database, save)
  BY <1>1 DEF Undisturbed, R!db_save
<1>5. /\ last_time # 0 /\ job >= AskedFor /\ Parsed = job /\ job <= LastJob
      /\ job \in Nat /\ AskedFor \in Nat \ {0}
      /\ m \in Nat \ {0} /\ started = AskedFor + m
  BY <1>2, AtWork, SlotsAre DEF Steady, AskedFor
<1>6. PICK r \in Nat : job + 1 = r * m
  <2>1. (job + 1) % m = 0 /\ job + 1 \in Nat
    BY <1>2, <1>5, NewestIsJob
  <2> QED
    BY <1>5, <2>1, IsMultiple
<1>7. g_hits_index # 0
  <2> SUFFICES ASSUME g_hits_index = 0 PROVE FALSE
    OBVIOUS
  <2>1. PICK q \in Int : g_hits_index = Parsed + 1 - started + q * m
    BY <1>5 DEF Filled
  <2>2. (r + q) * m = r * m + q * m /\ r * m \in Int /\ q * m \in Int
    BY <1>5
  <2>3. started \in Int /\ started % m # 0
    BY <1>5 DEF Steady
  <2>4. started = (r + q) * m
    <3>1. 0 = job + 1 - started + q * m
      BY <1>5, <2>1
    <3> QED
      BY <1>5, <1>6, <2>2, <2>3, <3>1
  <2> QED
    <3>1. r + q \in Int /\ m \in Nat \ {0}
      BY <1>5
    <3> HIDE DEF m
    <3> QED
      BY <2>3, <2>4, <3>1, NoMultiple
<1>8. /\ R!Merged(outside) \in Seq(Int)
      /\ ToSet(R!Merged(outside)) = {j \in job - m + 1 .. job : j >= AskedFor}
  BY <1>5, <1>7, MergedIs
<1>9. /\ R!LastTime(outside) \in Int
      /\ job - m + 1 >= AskedFor => R!LastTime(outside) = job - m + 1
  BY <1>5, <1>7, LastTimeIs
<1>10. /\ database \in Seq([start : Int, data : Seq(Int)])
       /\ save \in [start : Int, data : Seq(Int)]
       /\ save.start = R!LastTime(outside) /\ save.data = R!Merged(outside)
  BY <1>8, <1>9 DEF SavedSoFar
<1> HIDE DEF save, m, n
<1>11. /\ database' \in Seq([start : Int, data : Seq(Int)])
       /\ n \in Nat /\ DOMAIN database = 1 .. n /\ DOMAIN database' = 1 .. n + 1
       /\ \A k \in 1 .. n : database'[k] = database[k]
       /\ database'[n + 1] = save
  BY <1>4, <1>10 DEF n
<1>12. ASSUME NEW p \in Nat \ {0}, started <= EndOf(p), Through(EndOf(p))'
       PROVE  PeriodSaved(p)'
  <2>1. CASE EndOf(p) < job
    <3>1. PeriodSaved(p)
      BY <1>12, <2>1 DEF SavedSoFar, Through
    <3>2. PICK k \in DOMAIN database :
            /\ database[k].start = p * m
            /\ {database[k].data[i] : i \in DOMAIN database[k].data} = R!IntervalsOf(p)
      BY <3>1 DEF PeriodSaved, m
    <3>3. k \in DOMAIN database' /\ database'[k] = database[k]
      BY <1>11, <3>2
    <3> QED
      BY <3>2, <3>3 DEF PeriodSaved, R!IntervalsOf, R!PeriodOf, LastJob, IntervalOf, m
  <2>2. CASE EndOf(p) = job
    <3>1. EndOf(p) = p * m + m - 1 /\ p * m \in Nat
      BY <1>5 DEF EndOf, m
    <3>2. p * m = job - m + 1 /\ job - m + 1 >= AskedFor
      BY <1>5, <1>12, <2>2, <3>1
    <3>3. LastJob \in Nat
      BY ClockAssumption, IntervalBounds DEF LastJob
    <3>4. R!IntervalsOf(p) = job - m + 1 .. job
      BY <1>5, <2>2, <3>2, <3>3, IntervalsOfPeriod DEF m
    <3>5. ToSet(save.data) = job - m + 1 .. job
      <4>1. \A j \in job - m + 1 .. job : j >= AskedFor
        BY <1>5, <3>2
      <4>2. ToSet(save.data) = {j \in job - m + 1 .. job : j >= AskedFor}
        BY <1>8, <1>10
      <4> QED
        BY <4>1, <4>2
    <3>6. {save.data[i] : i \in DOMAIN save.data} = R!IntervalsOf(p)
      BY <3>4, <3>5 DEF ToSet
    <3>7. save.start = p * m
      BY <1>9, <1>10, <3>2
    <3>8. n + 1 \in DOMAIN database'
      BY <1>11
    <3> QED
      BY <1>11, <3>6, <3>7, <3>8
      DEF PeriodSaved, R!IntervalsOf, R!PeriodOf, LastJob, IntervalOf, m
  <2> QED
    BY <1>2, <1>12, <2>1, <2>2 DEF Through
<1>13. ASSUME restarts' = 0
       PROVE  /\ R!SummedUpOnce'
              /\ \A k \in DOMAIN database' : \E t \in Nat :
                   /\ Through(t * m - 1)'
                   /\ \A x \in ToSet(database'[k].data) : x < t * m
  <2>1. /\ R!SummedUpOnce
        /\ \A k \in DOMAIN database : \E t \in Nat :
             /\ Through(t * m - 1)
             /\ \A x \in ToSet(database[k].data) : x < t * m
    BY <1>2, <1>13 DEF SavedSoFar, m
  <2>2. ASSUME NEW k \in 1 .. n, NEW x \in ToSet(database[k].data) PROVE x <= job - m
    <3>1. PICK t \in Nat : Through(t * m - 1) /\ x < t * m
      BY <1>11, <2>1
    <3>2. t * m \in Nat /\ t * m - 1 < job
      BY <1>2, <1>5, <3>1 DEF Through
    <3>3. t < r
      <4> SUFFICES ASSUME r <= t PROVE FALSE
        OBVIOUS
      <4>1. r * m <= t * m
        BY <1>5
      <4> QED
        BY <1>5, <1>6, <3>2, <4>1
    <3>4. t * m <= (r - 1) * m /\ (r - 1) * m = r * m - m
      BY <1>5, <3>3
    <3>5. x \in Int
      <4>1. database[k] \in [start : Int, data : Seq(Int)]
        <5> DEFINE S == [start : Int, data : Seq(Int)]
        <5>1. database \in Seq(S) /\ k \in DOMAIN database
          BY <1>10, <1>11
        <5> HIDE DEF S
        <5>2. database[k] \in S
          BY <5>1
        <5> QED
          BY <5>2 DEF S
      <4> QED
        BY <4>1 DEF ToSet
    <3> QED
      BY <1>5, <1>6, <3>1, <3>2, <3>4, <3>5
  <2>3. \A x \in ToSet(save.data) : x \in Int /\ x > job - m /\ x <= job
    BY <1>5, <1>8, <1>10
  <2>4. ASSUME NEW k \in 1 .. n PROVE ToSet(database[k].data) \cap ToSet(save.data) = {}
    <3> SUFFICES ASSUME NEW x \in ToSet(database[k].data), x \in ToSet(save.data) PROVE FALSE
      OBVIOUS
    <3>1. x <= job - m
      BY <2>2
    <3>2. x \in Int /\ x > job - m
      BY <2>3
    <3> QED
      BY <1>5, <3>1, <3>2
  <2>5. R!SummedUpOnce'
    <3> SUFFICES ASSUME NEW k \in 1 .. n + 1, NEW l \in 1 .. n + 1, k # l
                 PROVE  ToSet(database'[k].data) \cap ToSet(database'[l].data) = {}
      <4>1. (\A k, l \in DOMAIN database' :
               k # l => ToSet(database'[k].data) \cap ToSet(database'[l].data) = {})
             => R!SummedUpOnce'
        BY DEF R!SummedUpOnce, R!ToSet, ToSet
      <4> QED
        BY <1>11, <4>1
    <3>1. CASE k \in 1 .. n /\ l \in 1 .. n
      <4>1. \A i, j \in DOMAIN database :
              i # j => ToSet(database[i].data) \cap ToSet(database[j].data) = {}
        BY <2>1 DEF R!SummedUpOnce, R!ToSet, ToSet
      <4> QED
        BY <1>11, <3>1, <4>1
    <3>2. CASE k = n + 1
      <4>1. l \in 1 .. n
        BY <1>11, <3>2
      <4> QED
        BY <1>11, <2>4, <3>2, <4>1
    <3>3. CASE l = n + 1
      <4>1. k \in 1 .. n
        BY <1>11, <3>3
      <4> QED
        BY <1>11, <2>4, <3>3, <4>1
    <3> QED
      BY <1>11, <3>1, <3>2, <3>3
  <2>6. ASSUME NEW k \in 1 .. n + 1
        PROVE  \E t \in Nat : /\ Through(t * m - 1)'
                              /\ \A x \in ToSet(database'[k].data) : x < t * m
    <3>1. CASE k \in 1 .. n
      <4>1. PICK t \in Nat : /\ Through(t * m - 1)
                             /\ \A x \in ToSet(database[k].data) : x < t * m
        BY <1>11, <2>1, <3>1
      <4>2. Through(t * m - 1)'
        BY <1>2, <4>1 DEF Through, m
      <4> QED
        BY <1>11, <3>1, <4>1, <4>2
    <3>2. CASE k = n + 1
      <4>1. r * m - 1 = job
        BY <1>5, <1>6
      <4>2. Through(r * m - 1)'
        BY <1>2, <4>1 DEF Through, m
      <4>3. \A x \in ToSet(save.data) : x < r * m
        BY <1>5, <1>6, <2>3
      <4> QED
        BY <1>11, <3>2, <4>2, <4>3
    <3> QED
      BY <1>11, <3>1, <3>2
  <2> QED
    BY <1>11, <2>5, <2>6
<1>14. SavedSoFar'
  <2>1. restarts' \in Nat /\ started' = started
    BY <1>2 DEF SavedSoFar
  <2> QED
    BY <1>11, <1>12, <1>13, <2>1 DEF SavedSoFar, m, EndOf, Through, ToSet
<1> QED
  BY <1>3, <1>14

LEMMA DoesKeepsPeriods ==
  ASSUME CenterInv, Undisturbed, Steady, Filled, SavedSoFar, DoesJob
  PROVE  Steady' /\ Filled' /\ SavedSoFar'
<1>1. UNCHANGED <<jobVars, started>> /\ R!do_job
  BY DEF DoesJob
<1>2. Files = {"full"}
  BY DEF Undisturbed
<1>3. CASE R!DownloadFails \/ R!ParseFails
  BY <1>2, <1>3 DEF R!DownloadFails, R!ParseFails
<1>4. CASE \E file \in R!FileKinds : R!Parse(file)
  <2>1. R!Parse("full")
    BY <1>2, <1>4 DEF R!Parse
  <2> QED
    BY <1>1, <2>1, ParseKeepsPeriods
<1>5. CASE R!do_memo
  BY <1>1, <1>5, MemoKeepsPeriods
<1>6. CASE R!NotYet
  BY <1>1, <1>6, NotYetKeepsPeriods
<1>7. CASE R!do_save
  BY <1>1, <1>7, SaveKeepsPeriods
<1> QED
  BY <1>1, <1>3, <1>4, <1>5, <1>6, <1>7 DEF R!do_job

LEMMA PeriodInvInit == CenterInit => PeriodInv
<1> SUFFICES ASSUME CenterInit PROVE Steady /\ Filled /\ SavedSoFar
  BY DEF PeriodInv
<1>1. /\ last_time = 0 /\ pc = "idle" /\ g_hits_index = 0 /\ job = 0 /\ restarts = 0
      /\ g_hits_stats = [i \in R!Slots |-> R!EmptyStat] /\ database = <<>>
  BY DEF CenterInit, Init, R!Init, R!NoJob
<1>2. Steady
  BY <1>1 DEF Steady
<1>3. Filled
  BY <1>1, SlotsAre DEF Filled
<1>4. SavedSoFar
  <2>1. ASSUME NEW p \in Nat \ {0} PROVE ~ Through(EndOf(p))
    BY <1>1, PeriodEnds DEF Through
  <2>2. R!SummedUpOnce
    BY <1>1 DEF R!SummedUpOnce
  <2>3. DOMAIN database = {}
    BY <1>1
  <2>4. database \in Seq([start : Int, data : Seq(Int)])
    BY <1>1
  <2> QED
    BY <1>1, <2>1, <2>2, <2>3, <2>4 DEF SavedSoFar
<1> QED
  BY <1>2, <1>3, <1>4

LEMMA DisturbedStays ==
  ASSUME CenterNext \/ UNCHANGED vars, disturbed
  PROVE  disturbed'
  BY DEF CenterNext, MainGoesOn, WorkerGoesOn, Timer, ProducesJobs, TakesJob, DoesJob, EndsJob,
         KilledAndStarted, vars

LEMMA PeriodInvStep == CenterInv /\ PeriodInv /\ [CenterNext]_vars => PeriodInv'
<1> SUFFICES ASSUME CenterInv, PeriodInv, CenterNext \/ UNCHANGED vars, Undisturbed'
             PROVE  Steady' /\ Filled' /\ SavedSoFar'
  BY DEF PeriodInv
<1>1. ~ disturbed' /\ Undisturbed
  BY DisturbedStays DEF Undisturbed
<1>2. Steady /\ Filled /\ SavedSoFar
  BY <1>1 DEF PeriodInv
<1>3. CASE ProducesJobs
  BY <1>1, <1>2, <1>3, FirstKeepsPeriods, LaterKeepsPeriods
<1>4. CASE Timer(AppendJob)
  BY <1>2, <1>4, AppendKeepsPeriods
<1>5. CASE TakesJob
  BY <1>2, <1>5, TakesKeepsPeriods
<1>6. CASE DoesJob
  BY <1>1, <1>2, <1>6, DoesKeepsPeriods
<1>7. CASE KilledAndStarted
  BY <1>2, <1>7, KilledKeepsPeriods
<1>8. CASE \/ Timer(NothingDue) \/ Timer(PostJob) \/ Timer(Sleep) \/ Timer(SemWait)
           \/ EndsJob \/ UNCHANGED vars
  <2>1. UNCHANGED periodVars
    BY <1>8 DEF periodVars, Timer, NothingDue, PostJob, Sleep, SemWait, EndsJob, JobDone, vars,
                jobVars, mainVars, queueVars, workerVars
  <2> QED
    BY <1>2, <2>1, UnchangedKeepsPeriods
<1> QED
  BY <1>3, <1>4, <1>5, <1>6, <1>7, <1>8 DEF CenterNext, MainGoesOn, WorkerGoesOn

(* "10 minutes, 1 statistics. 1 hour, save to database" (main.cpp:481),    *)
(* for any interval and any number of slots: when no interval is passed    *)
(* over and every file comes whole, every period that was not over at the  *)
(* last start is saved whole under its own time, however far thread_job    *)
(* lags behind the timer; and without a kill no interval is saved twice.   *)
THEOREM EveryPeriodSaved == CenterSpec => []PeriodsSaved
<1>1. CenterInit => PeriodInv
  BY PeriodInvInit
<1>2. CenterInv /\ PeriodInv /\ [CenterNext]_vars => PeriodInv'
  BY PeriodInvStep
<1>3. CenterInv /\ PeriodInv => PeriodsSaved
  <2> SUFFICES ASSUME CenterInv, PeriodInv, Undisturbed
               PROVE  /\ \A p \in R!EndedPeriods : started <= EndOf(p) => PeriodSaved(p)
                      /\ restarts = 0 => R!SummedUpOnce
    BY DEF PeriodsSaved, EndOf
  <2>1. SavedSoFar
    BY DEF PeriodInv
  <2>2. ASSUME NEW p \in R!EndedPeriods PROVE p \in Nat \ {0} /\ Through(EndOf(p))
    <3>1. p \in Nat \ {0} /\ pc = "idle" /\ EndOf(p) <= job
      BY DEF R!EndedPeriods, EndOf
    <3> QED
      BY <3>1, PeriodEnds, NextJobType DEF Through
  <2> QED
    BY <2>1, <2>2 DEF SavedSoFar
<1> QED
  BY <1>1, <1>2, <1>3, JobsWaitInOrder, PTL DEF CenterSpec
=============================================================================
