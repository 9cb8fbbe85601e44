------------------------------ MODULE HitsRing ------------------------------
(***************************************************************************)
(* What thread_job does with a job (main.cpp: do_job and what it calls;    *)
(* jsonlint.c: json_parse; db.cpp: db_save).  The file of an interval is   *)
(* downloaded and parsed into the next slot of a ring; all slots together  *)
(* are the statistics of the last period, which the HTTP server publishes  *)
(* (g_hits_memo) and which is saved when a period ends.                    *)
(*                                                                         *)
(* Intervals are numbered from 1 and a period is MAX_HITS_NUM intervals,   *)
(* as DEFAULT_DB_SAVE_INTERVAL is MAX_HITS_NUM * oxeye_get_interval.  The  *)
(* counts themselves are abstracted: lists, records and rows are the       *)
(* sequence of the intervals whose files were counted into them.           *)
(***************************************************************************)
EXTENDS Integers, Sequences, FiniteSets, SequencesExt

CONSTANTS
  MAX_HITS_NUM,  \* slots of the ring, and intervals in a period
  FirstJobs,     \* the first job of a run of the program
  Gaps,          \* by how much the timer's next job is later than the last
  LastJob,       \* bound on the jobs
  Files,         \* what may come of a download: see FileKinds
  Outside,       \* what the bytes before g_hits_stats may be read as
  Connects,      \* whether the database may be reached: a set of BOOLEANs
  MaxRestarts    \* bound on the restarts of the program

(* No file at all; one that is not JSON; and JSON whose data has a time    *)
(* and lists, or lacks the one or the other, or both.                      *)
FileKinds == {"none", "bad", "full", "no time", "no lists", "empty"}

Slots  == 0 .. MAX_HITS_NUM - 1
NoJob  == 0
Wild   == -1    \* hits that no file contained
EmptyStat == [start |-> 0, data |-> <<>>]

ASSUME RingAssumption ==
  /\ MAX_HITS_NUM \in Nat \ {0, 1}
  /\ FirstJobs \subseteq Nat \ {0}
  /\ Gaps \subseteq Nat \ {0}
  /\ Files \subseteq FileKinds /\ Connects \subseteq BOOLEAN
  /\ LastJob \in Nat /\ MaxRestarts \in Nat
  /\ \A s \in Outside : s.start \in Nat /\ s.data \in {<<>>, <<Wild>>}

VARIABLES
  g_hits_stats,  \* per slot: its start_time (0 if none) and its lists
  g_hits_index,  \* the slot the next file goes to
  g_hits_memo,   \* what is published
  g_start_time,  \* the stamp of the rows last saved
  pc,            \* of do_job: "idle", "download", "memo" or "save"
  job,           \* the job being done, or the last one
  database,      \* the saves that reached the database, in order
  parsed,        \* history: the jobs whose files were parsed, since the start
  restarts       \* history: how often the program was restarted

ringVars == <<g_hits_stats, g_hits_index>>
vars == <<ringVars, g_hits_memo, g_start_time, pc, job, database, parsed,
          restarts>>

Init ==
  /\ g_hits_stats = [i \in Slots |-> EmptyStat]
  /\ g_hits_index = 0
  /\ g_hits_memo = <<>>
  /\ g_start_time = 0
  /\ pc = "idle"
  /\ job = NoJob
  /\ database = <<>>
  /\ parsed = {}
  /\ restarts = 0

-----------------------------------------------------------------------------
Starts(j) ==
  /\ pc = "idle"
  /\ job' = j
  /\ pc' = "download"
  /\ UNCHANGED <<ringVars, g_hits_memo, g_start_time, database, parsed, restarts>>

(* What the timer and the queue make of the clock: a first job, and then   *)
(* later ones.                                                             *)
TakeJob(j) ==
  /\ IF job = NoJob THEN j \in FirstJobs ELSE j \in {job + d : d \in Gaps}
  /\ j <= LastJob
  /\ Starts(j)

(* The slot is released before it is filled, if it holds a time.           *)
Released(stat) == IF stat.start > 0 THEN EmptyStat ELSE stat

(* json_parse reads what the file has into the slot, without looking at    *)
(* what is there: lists are appended to.                                   *)
json_parse(stat, file) ==
  [start |-> IF file \in {"no time", "empty"} THEN stat.start ELSE job,
   data  |-> IF file \in {"no lists", "empty"} THEN stat.data ELSE Append(stat.data, job)]

WrapsToOne(i) == IF i + 1 >= MAX_HITS_NUM THEN 1 ELSE i + 1 \* wrong
NextSlot(i) == IF i + 1 >= MAX_HITS_NUM THEN 0 ELSE i + 1

DownloadFails ==
  /\ pc = "download"
  /\ "none" \in Files
  /\ pc' = "idle"
  /\ UNCHANGED <<ringVars, g_hits_memo, g_start_time, job, database, parsed, restarts>>

(* do_parse of a file that is no JSON leaves a released slot, and the      *)
(* index where it was.                                                     *)
ParseFails ==
  /\ pc = "download"
  /\ "bad" \in Files
  /\ g_hits_stats' = [g_hits_stats EXCEPT ![g_hits_index] = Released(@)]
  /\ pc' = "idle"
  /\ UNCHANGED <<g_hits_index, g_hits_memo, g_start_time, job, database, parsed, restarts>>

Parse(file) ==
  /\ pc = "download"
  /\ file \in Files \ {"none", "bad"}
  /\ g_hits_stats' = [g_hits_stats EXCEPT ![g_hits_index] = json_parse(Released(@), file)]
  /\ g_hits_index' = NextSlot(g_hits_index)
  /\ parsed' = parsed \cup {job}
  /\ pc' = "memo"
  /\ UNCHANGED <<g_hits_memo, g_start_time, job, database, restarts>>

-----------------------------------------------------------------------------
(* do_memo and do_save visit the slots from the newest to the oldest: the  *)
(* k-th slot visited.  The first index is not wrapped.                     *)
StaysPut(i) == i                                     \* wrong: no index --
Below(i) == IF i - 1 < 0 THEN MAX_HITS_NUM - 1 ELSE i - 1

Visited[k \in Slots] == IF k = 0 THEN g_hits_index - 1 ELSE Below(Visited[k - 1])

(* Slot -1 is whatever lies before the array.                              *)
StatAt(i, outside) == IF i \in Slots THEN g_hits_stats[i] ELSE outside

(* hits_records_merge of the slots that hold a time, into an empty map.    *)
Merged(outside) ==
  LET stat(k) == StatAt(Visited[k - 1], outside) IN
  FlattenSeq([k \in 1 .. MAX_HITS_NUM |-> IF stat(k).start > 0 THEN stat(k).data ELSE <<>>])

(* The time of the last slot visited that holds one.                       *)
Newest == IF g_hits_index = 0 THEN MAX_HITS_NUM - 1 ELSE g_hits_index - 1
NewestTime(outside) == g_hits_stats[Newest].start     \* wrong: not the oldest
LastTime(outside) ==
  LET stat(k) == StatAt(Visited[k], outside)
      timed == {k \in Slots : stat(k).start > 0} IN
  IF timed = {} THEN g_start_time
  ELSE stat(CHOOSE k \in timed : \A l \in timed : l <= k).start

EveryTime == TRUE                                    \* wrong: after each job
one_period_complete == (g_hits_stats[Newest].start + 1) % MAX_HITS_NUM = 0

do_memo ==
  /\ pc = "memo"
  /\ \E outside \in Outside : g_hits_memo' = Merged(outside)
  /\ pc' = "save"
  /\ UNCHANGED <<ringVars, g_start_time, job, database, parsed, restarts>>

NotYet ==
  /\ pc = "save"
  /\ ~one_period_complete
  /\ pc' = "idle"
  /\ UNCHANGED <<ringVars, g_hits_memo, g_start_time, job, database, parsed, restarts>>

(* db_save fails as a whole when it cannot connect, and nobody tries       *)
(* again; which of the rows it inserts is left out.                        *)
db_save(rows, start_time, connected) ==
  IF connected THEN Append(database, [start |-> start_time, data |-> rows]) ELSE database

do_save ==
  /\ pc = "save"
  /\ one_period_complete
  /\ \E outside \in Outside, connected \in Connects :
       /\ g_start_time' = LastTime(outside)
       /\ database' = db_save(Merged(outside), g_start_time', connected)
  /\ pc' = "idle"
  /\ UNCHANGED <<ringVars, g_hits_memo, job, parsed, restarts>>

(* The program stops and is started again: main asks for the last          *)
(* MAX_HITS_NUM intervals, from one Gap after this job on.                 *)
Restart ==
  /\ restarts < MaxRestarts
  /\ job - MAX_HITS_NUM > 0
  /\ g_hits_stats' = [i \in Slots |-> EmptyStat]
  /\ g_hits_index' = 0
  /\ g_hits_memo' = <<>>
  /\ g_start_time' = 0
  /\ pc' = "idle"
  /\ job' = job - MAX_HITS_NUM
  /\ parsed' = {}
  /\ restarts' = restarts + 1
  /\ UNCHANGED database

-----------------------------------------------------------------------------
do_job ==
  \/ DownloadFails \/ ParseFails
  \/ \E file \in FileKinds : Parse(file)
  \/ do_memo
  \/ NotYet \/ do_save

Next == (\E j \in 1 .. LastJob : TakeJob(j)) \/ do_job \/ Restart

Spec == Init /\ [][Next]_vars

-----------------------------------------------------------------------------
Hits == Nat \cup {Wild}
Save == [start : Nat, data : Seq(Hits)]

RingTypeOK ==
  /\ g_hits_stats \in [Slots -> [start : Nat, data : Seq(Nat)]]
  /\ g_hits_index \in Slots
  /\ job \in Nat

TypeOK ==
  /\ RingTypeOK
  /\ g_hits_memo \in Seq(Hits)
  /\ g_start_time \in Nat
  /\ pc \in {"idle", "download", "memo", "save"}
  /\ database \in Seq(Save)
  /\ parsed \subseteq Nat
  /\ restarts \in Nat

(* Slot i is older than slot j: the ring goes round from g_hits_index.     *)
Older(i, j) ==
  \/ i < j /\ (i < g_hits_index <=> j < g_hits_index)
  \/ g_hits_index <= i /\ j < g_hits_index

(* Whatever files are missing or broken, the times in the ring increase    *)
(* from the slot to be filled next to the slot filled last: the walks from *)
(* g_hits_index - 1 downwards meet the intervals newest first.             *)
RingInOrder ==
  \A i, j \in Slots :
    Older(i, j) /\ g_hits_stats[i].start > 0 /\ g_hits_stats[j].start > 0
      => g_hits_stats[i].start < g_hits_stats[j].start

(* The job being done is later than all that is in the ring.               *)
JobIsNewest ==
  \A i \in Slots :
    /\ g_hits_stats[i].start <= job
    /\ pc = "download" => g_hits_stats[i].start < job

(* No interval is counted twice into what is published or into one save.   *)
CountedOnce ==
  /\ IsInjective(g_hits_memo)
  /\ \A n \in DOMAIN database : IsInjective(database[n].data)

(* A save is stamped with the oldest time in the ring (but for the case    *)
(* that WholePeriodSaved is about, in which slot 0 is not visited).        *)
StampIsOldest ==
  [][database' # database /\ g_hits_index # 0 =>
       /\ \E i \in Slots : g_hits_stats[i].start = g_start_time'
       /\ \A i \in Slots : g_hits_stats[i].start > 0 => g_start_time' <= g_hits_stats[i].start
    ]_vars

(* A save is made by the job of the last interval of a period, and by no   *)
(* other: what is saved ends where the period does.                        *)
SavedAtPeriodEnd ==
  [][database' # database => (job + 1) % MAX_HITS_NUM = 0 /\ job \in parsed]_vars

PeriodOf(j) == j \div MAX_HITS_NUM
IntervalsOf(p) == {j \in 1 .. LastJob : PeriodOf(j) = p}
EndedPeriods == {p \in 1 .. PeriodOf(LastJob) : pc = "idle" /\ p * MAX_HITS_NUM + MAX_HITS_NUM - 1 <= job}

(* "10 minutes, 1 statistics. 1 hour, save to database" (main.cpp:481): a  *)
(* period all of whose files were parsed is saved, and saved whole.        *)
WholePeriodSaved ==
  \A p \in EndedPeriods :
    IntervalsOf(p) \subseteq parsed =>
      \E n \in DOMAIN database :
        /\ database[n].start = p * MAX_HITS_NUM
        /\ ToSet(database[n].data) = IntervalsOf(p)

(* "每一个小时汇总一次" (README: summed up once every hour): no interval is     *)
(* summed up into two periods.                                             *)
SummedUpOnce ==
  \A m, n \in DOMAIN database :
    m # n => ToSet(database[m].data) \cap ToSet(database[n].data) = {}
=============================================================================
