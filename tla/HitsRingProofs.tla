--------------------------- MODULE HitsRingProofs ---------------------------
(***************************************************************************)
(* For a ring of any size, any faults and any number of jobs: the ring of  *)
(* statistics stays in order, no interval is counted twice into one sum,   *)
(* and a save comes at the end of a period with the oldest time there is.  *)
(***************************************************************************)
EXTENDS HitsRing, SequenceLemmas

(* Order alone is not inductive: a job must also be later than what the    *)
(* ring holds when its file is filled in.                                  *)
RingInv == RingTypeOK /\ RingInOrder /\ JobIsNewest

LEMMA RingInit == Init => RingInv
  BY RingAssumption DEF Init, RingInv, RingTypeOK, RingInOrder, JobIsNewest, Slots, EmptyStat, NoJob

(* Whatever the file, the slot is left with the job's time or with none.   *)
LEMMA FilledStart ==
  ASSUME RingTypeOK, NEW i \in Slots, NEW file
  PROVE  /\ Released(g_hits_stats[i]) \in [start : Nat, data : Seq(Nat)]
         /\ Released(g_hits_stats[i]).start = 0
         /\ json_parse(Released(g_hits_stats[i]), file) \in [start : Nat, data : Seq(Nat)]
         /\ json_parse(Released(g_hits_stats[i]), file).start \in {0, job}
<1>1. /\ Released(g_hits_stats[i]) \in [start : Nat, data : Seq(Nat)]
      /\ Released(g_hits_stats[i]).start = 0
  BY DEF RingTypeOK, Released, EmptyStat
<1>2. Append(Released(g_hits_stats[i]).data, job) \in Seq(Nat)
  BY <1>1 DEF RingTypeOK
<1> QED
  BY <1>1, <1>2 DEF json_parse, RingTypeOK

(* Filling the slot at g_hits_index and going on to the next keeps the     *)
(* order: the slot that was the oldest becomes the newest.                 *)
LEMMA ParseKeepsOrder ==
  ASSUME RingInv, NEW file \in FileKinds, Parse(file)
  PROVE  RingInv'
<1>1. /\ RingTypeOK
      /\ MAX_HITS_NUM \in Nat \ {0, 1}
      /\ g_hits_index \in 0 .. MAX_HITS_NUM - 1
      /\ job' = job
  BY RingAssumption DEF RingInv, RingTypeOK, Slots, Parse
<1>2. /\ g_hits_stats' \in [Slots -> [start : Nat, data : Seq(Nat)]]
      /\ g_hits_stats'[g_hits_index].start \in {0, job}
      /\ \A k \in Slots \ {g_hits_index} : g_hits_stats'[k] = g_hits_stats[k]
  BY <1>1, FilledStart DEF RingTypeOK, Parse
<1>3. \/ g_hits_index' = g_hits_index + 1 /\ g_hits_index + 1 \in Slots
      \/ g_hits_index' = 0 /\ g_hits_index = MAX_HITS_NUM - 1
  <2>1. g_hits_index' = NextSlot(g_hits_index)
    BY DEF Parse
  <2> QED
    BY <1>1, <2>1 DEF NextSlot, Slots
<1>4. \A k \in Slots : g_hits_stats[k].start < job /\ g_hits_stats[k].start \in Nat
  BY DEF Parse, RingInv, JobIsNewest, RingTypeOK
<1>5. RingTypeOK'
  <2>1. g_hits_index' \in Slots
    BY <1>1, <1>3 DEF Slots
  <2> QED
    BY <1>1, <1>2, <2>1 DEF RingTypeOK
<1>6. JobIsNewest'
  BY <1>1, <1>2, <1>4 DEF JobIsNewest, Parse, RingTypeOK
<1>7. RingInOrder'
  <2> SUFFICES ASSUME NEW j \in Slots, NEW k \in Slots, Older(j, k)',
                      g_hits_stats'[j].start > 0, g_hits_stats'[k].start > 0
               PROVE  g_hits_stats'[j].start < g_hits_stats'[k].start
    BY DEF RingInOrder
  <2>1. j # g_hits_index
    BY <1>1, <1>3 DEF Older, Slots
  <2>2. CASE k = g_hits_index
    BY <1>1, <1>2, <1>4, <2>1, <2>2 DEF RingTypeOK
  <2>3. CASE k # g_hits_index
    <3>1. Older(j, k)
      BY <1>1, <1>3, <2>1, <2>3 DEF Older, Slots
    <3> QED
      BY <1>2, <2>1, <2>3, <3>1 DEF RingInv, RingInOrder
  <2> QED
    BY <2>2, <2>3
<1> QED
  BY <1>5, <1>6, <1>7 DEF RingInv

LEMMA RingStep == RingInv /\ [Next]_vars => RingInv'
<1> SUFFICES ASSUME RingInv, [Next]_vars PROVE RingInv'
  OBVIOUS
<1> USE DEF RingInv
<1>1. ASSUME NEW j \in 1 .. LastJob, TakeJob(j) PROVE RingInv'
  <2>1. j \in Nat /\ job < j
    BY <1>1, RingAssumption DEF TakeJob, Starts, NoJob, RingTypeOK
  <2>2. UNCHANGED ringVars /\ job' = j
    BY <1>1 DEF TakeJob, Starts
  <2>3. RingTypeOK'
    BY <2>1, <2>2 DEF ringVars, RingTypeOK
  <2>4. RingInOrder'
    BY <2>2 DEF ringVars, RingInOrder, Older
  <2>5. JobIsNewest'
    <3> SUFFICES ASSUME NEW i \in Slots PROVE g_hits_stats[i].start < j
      BY <2>1, <2>2 DEF ringVars, JobIsNewest, RingTypeOK
    <3>1. g_hits_stats[i].start \in Nat /\ g_hits_stats[i].start <= job /\ job \in Nat
      BY DEF RingTypeOK, JobIsNewest
    <3> QED
      BY <2>1, <3>1
  <2> QED
    BY <2>3, <2>4, <2>5
<1>2. CASE ParseFails
  <2>1. /\ g_hits_stats' \in [Slots -> [start : Nat, data : Seq(Nat)]]
        /\ g_hits_stats'[g_hits_index].start = 0
        /\ \A k \in Slots \ {g_hits_index} : g_hits_stats'[k] = g_hits_stats[k]
        /\ g_hits_index' = g_hits_index /\ job' = job /\ pc' = "idle"
    BY <1>2, FilledStart DEF ParseFails, RingTypeOK
  <2>2. RingTypeOK'
    BY <2>1 DEF RingTypeOK
  <2>3. RingInOrder'
    <3> SUFFICES ASSUME NEW j \in Slots, NEW k \in Slots, Older(j, k)',
                        g_hits_stats'[j].start > 0, g_hits_stats'[k].start > 0
                 PROVE  g_hits_stats'[j].start < g_hits_stats'[k].start
      BY DEF RingInOrder
    <3>1. j # g_hits_index /\ k # g_hits_index /\ Older(j, k)
      BY <2>1 DEF Older
    <3> QED
      BY <2>1, <3>1 DEF RingInOrder
  <2>4. JobIsNewest'
    <3> SUFFICES ASSUME NEW k \in Slots PROVE g_hits_stats'[k].start <= job
      BY <2>1 DEF JobIsNewest
    <3>1. g_hits_stats[k].start <= job /\ job \in Nat
      BY DEF JobIsNewest, RingTypeOK
    <3>2. CASE k = g_hits_index
      BY <2>1, <3>1, <3>2
    <3>3. CASE k # g_hits_index
      <4>1. g_hits_stats'[k] = g_hits_stats[k]
        BY <2>1, <3>3
      <4> QED
        BY <3>1, <4>1
    <3> QED
      BY <3>2, <3>3
  <2> QED
    BY <2>2, <2>3, <2>4
<1>3. ASSUME NEW file \in FileKinds, Parse(file) PROVE RingInv'
  BY <1>3, ParseKeepsOrder
<1>4. CASE Restart
  <2>1. /\ \A i \in Slots : g_hits_stats'[i] = EmptyStat
        /\ g_hits_stats' \in [Slots -> [start : Nat, data : Seq(Nat)]]
        /\ g_hits_index' = 0 /\ job' \in Nat /\ pc' = "idle"
    BY <1>4, RingAssumption DEF Restart, RingTypeOK, EmptyStat
  <2>2. \A i \in Slots : g_hits_stats'[i].start = 0
    BY <2>1 DEF EmptyStat
  <2>3. 0 \in Slots
    BY RingAssumption DEF Slots
  <2>4. RingTypeOK'
    BY <2>1, <2>3 DEF RingTypeOK
  <2>5. RingInOrder' /\ JobIsNewest'
    BY <2>1, <2>2 DEF RingInOrder, JobIsNewest
  <2> QED
    BY <2>4, <2>5
<1>5. CASE UNCHANGED <<ringVars, job>> /\ pc' # "download"
  BY <1>5 DEF ringVars, RingTypeOK, RingInOrder, Older, JobIsNewest
<1>6. CASE UNCHANGED vars
  BY <1>6 DEF vars, ringVars, RingTypeOK, RingInOrder, Older, JobIsNewest
<1> QED
  BY <1>1, <1>2, <1>3, <1>4, <1>5, <1>6
  DEF Next, do_job, DownloadFails, do_memo, NotYet, do_save

(* Going round the ring from the slot to be filled next, the times of the  *)
(* intervals increase, whatever files are missing or broken.               *)
THEOREM RingOrder == Spec => []RingInOrder
<1>1. RingInv /\ [Next]_vars => RingInv'
  BY RingStep
<1>2. RingInv => RingInOrder
  BY DEF RingInv
<1> QED
  BY RingInit, <1>1, <1>2, PTL DEF Spec

-----------------------------------------------------------------------------
(* A job whose file was parsed has its time in the newest slot, or the     *)
(* slot has none; a slot without a time never completes a period.          *)
NewestIsJob ==
  pc \in {"memo", "save"} =>
    job \in parsed /\ g_hits_stats[Newest].start \in {0, job}

SaveInv == RingInv /\ NewestIsJob

LEMMA NoTimeNoPeriod == ASSUME NEW n \in Nat \ {0, 1} PROVE (0 + 1) % n # 0
  OBVIOUS

(* The slot just filled is the one do_save looks at.                       *)
LEMMA NewestFilled ==
  ASSUME RingInv, NEW file \in FileKinds, Parse(file)
  PROVE  Newest' = g_hits_index
<1>1. g_hits_index' = NextSlot(g_hits_index)
  BY DEF Parse
<1>2. MAX_HITS_NUM \in Nat \ {0, 1} /\ g_hits_index \in 0 .. MAX_HITS_NUM - 1
  BY RingAssumption DEF RingInv, RingTypeOK, Slots
<1> QED
  BY <1>1, <1>2 DEF NextSlot, Newest

LEMMA SaveStep == SaveInv /\ [Next]_vars => SaveInv'
<1> SUFFICES ASSUME SaveInv, [Next]_vars PROVE NewestIsJob'
  BY RingStep DEF SaveInv
<1>1. CASE pc' \notin {"memo", "save"}
  BY <1>1 DEF NewestIsJob
<1>2. ASSUME NEW file \in FileKinds, Parse(file) PROVE NewestIsJob'
  <2>1. job \in parsed' /\ job' = job
    BY <1>2 DEF Parse
  <2>2. g_hits_stats' = [g_hits_stats EXCEPT ![g_hits_index] = json_parse(Released(@), file)]
    BY <1>2 DEF Parse
  <2>3. g_hits_stats'[g_hits_index].start \in {0, job}
    BY <2>2, FilledStart DEF SaveInv, RingInv, RingTypeOK
  <2>4. Newest' = g_hits_index
    BY <1>2, NewestFilled DEF SaveInv
  <2> QED
    BY <2>1, <2>3, <2>4 DEF NewestIsJob
<1>3. CASE do_memo
  BY <1>3 DEF do_memo, SaveInv, NewestIsJob, Newest, ringVars
<1>4. CASE UNCHANGED vars
  BY <1>4 DEF vars, SaveInv, NewestIsJob, Newest, ringVars
<1> QED
  BY <1>1, <1>2, <1>3, <1>4
  DEF Next, TakeJob, Starts, do_job, DownloadFails, ParseFails, NotYet, do_save, Restart

(* What reaches the database is a save by the job that ends a period, its  *)
(* own file among those parsed.                                            *)
THEOREM SavesEndPeriods == Spec => SavedAtPeriodEnd
<1>1. Init => SaveInv
  BY RingInit DEF SaveInv, NewestIsJob, Init
<1>2. SaveInv /\ [Next]_vars =>
        [database' # database => (job + 1) % MAX_HITS_NUM = 0 /\ job \in parsed]_vars
  <2> SUFFICES ASSUME SaveInv, Next, database' # database
               PROVE  (job + 1) % MAX_HITS_NUM = 0 /\ job \in parsed
    BY DEF vars
  <2>1. do_save
    BY DEF Next, TakeJob, Starts, do_job, DownloadFails, ParseFails, Parse, do_memo, NotYet, Restart
  <2>2. job \in parsed /\ g_hits_stats[Newest].start \in {0, job}
    BY <2>1 DEF do_save, SaveInv, NewestIsJob
  <2>3. (g_hits_stats[Newest].start + 1) % MAX_HITS_NUM = 0
    BY <2>1 DEF do_save, one_period_complete
  <2> QED
    BY <2>2, <2>3, NoTimeNoPeriod, RingAssumption
<1> QED
  BY <1>1, <1>2, SaveStep, PTL DEF Spec, SavedAtPeriodEnd

-----------------------------------------------------------------------------
(* What do_memo and do_save merge                                          *)

LEMMA RingSize == MAX_HITS_NUM \in Nat \ {0, 1} /\ Slots = 0 .. MAX_HITS_NUM - 1
  BY RingAssumption DEF Slots

LEMMA VisitedIs ==
  ASSUME g_hits_index \in Slots
  PROVE  Visited = Walk(g_hits_index, MAX_HITS_NUM)
<1>1. Visited = CHOOSE f : IsWalk(f, g_hits_index, MAX_HITS_NUM)
  BY DEF Visited, IsWalk, Slots, Below
<1> QED
  BY <1>1, RingSize, WalkIs

(* A walk that begins at slot 0 would begin below it.                      *)
LEMMA VisitedOnce ==
  ASSUME g_hits_index \in Slots
  PROVE  /\ \A k \in Slots : Visited[k] \in Slots \cup {-1}
         /\ \A k, l \in Slots : Visited[k] = Visited[l] => k = l
         /\ g_hits_index # 0 => \A i \in Slots : \E k \in Slots : Visited[k] = i
<1>1. Visited = Walk(g_hits_index, MAX_HITS_NUM)
  BY VisitedIs
<1>2. g_hits_index \in 0 .. MAX_HITS_NUM - 1
  BY RingSize
<1> DEFINE w == Walk(g_hits_index, MAX_HITS_NUM)
<1>3. /\ \A k \in 0 .. MAX_HITS_NUM - 1 : w[k] \in (0 .. MAX_HITS_NUM - 1) \cup {-1}
      /\ \A k, l \in 0 .. MAX_HITS_NUM - 1 : w[k] = w[l] => k = l
      /\ g_hits_index # 0 =>
           \A i \in 0 .. MAX_HITS_NUM - 1 : \E k \in 0 .. MAX_HITS_NUM - 1 : w[k] = i
  BY <1>2, RingSize, WalkMeetsAll
<1>4. Slots = 0 .. MAX_HITS_NUM - 1
  BY RingSize
<1> QED
  BY <1>1, <1>3, <1>4, Zenon

(* Nothing is in the ring twice, and what is there are jobs done.          *)
DataOnce ==
  /\ \A i \in Slots :
       /\ IsInjective(g_hits_stats[i].data)
       /\ ToSet(g_hits_stats[i].data) \subseteq 1 .. job
  /\ \A i, j \in Slots :
       i # j => ToSet(g_hits_stats[i].data) \cap ToSet(g_hits_stats[j].data) = {}
  /\ pc = "download" =>
       /\ job # NoJob
       /\ \A i \in Slots : job \notin ToSet(g_hits_stats[i].data)

OnceInv == RingInv /\ DataOnce

(* The pieces that are merged: one per place visited.                      *)
Piece(k, outside) ==
  LET stat == StatAt(Visited[k - 1], outside)
  IN  IF stat.start > 0 THEN stat.data ELSE <<>>

LEMMA PieceIs ==
  ASSUME OnceInv, NEW outside \in Outside, NEW k \in 1 .. MAX_HITS_NUM
  PROVE  /\ Piece(k, outside) \in Seq(Hits)
         /\ IsInjective(Piece(k, outside))
         /\ \/ Piece(k, outside) = <<>>
            \/ Piece(k, outside) = <<Wild>> /\ Visited[k - 1] = -1
            \/ /\ Visited[k - 1] \in Slots
               /\ g_hits_stats[Visited[k - 1]].start > 0
               /\ Piece(k, outside) = g_hits_stats[Visited[k - 1]].data
<1>1. k - 1 \in Slots /\ Visited[k - 1] \in Slots \cup {-1} /\ -1 \notin Slots
  <2>1. k - 1 \in Slots /\ -1 \notin Slots
    BY RingSize
  <2> QED
    BY <2>1, VisitedOnce DEF OnceInv, RingInv, RingTypeOK
<1>2. <<>> \in Seq(Hits) /\ IsInjective(<<>>)
  BY DEF IsInjective
<1>3. CASE Visited[k - 1] \in Slots
  <2>1. /\ g_hits_stats[Visited[k - 1]].data \in Seq(Hits)
        /\ IsInjective(g_hits_stats[Visited[k - 1]].data)
    <3>1. g_hits_stats[Visited[k - 1]].data \in Seq(Nat)
      BY <1>3 DEF OnceInv, RingInv, RingTypeOK
    <3>2. Seq(Nat) \subseteq Seq(Hits)
      BY DEF Hits
    <3> QED
      BY <1>3, <3>1, <3>2 DEF OnceInv, DataOnce
  <2>2. StatAt(Visited[k - 1], outside) = g_hits_stats[Visited[k - 1]]
    BY <1>3 DEF StatAt
  <2> QED
    BY <1>2, <1>3, <2>1, <2>2 DEF Piece
<1>4. CASE Visited[k - 1] = -1
  <2>1. StatAt(Visited[k - 1], outside) = outside
    BY <1>1, <1>4 DEF StatAt
  <2>2. <<Wild>> \in Seq(Hits) /\ IsInjective(<<Wild>>)
    BY DEF Hits, IsInjective
  <2>3. Piece(k, outside) \in {<<>>, <<Wild>>}
    BY <2>1, RingAssumption DEF Piece
  <2> QED
    BY <1>2, <1>4, <2>2, <2>3
<1> QED
  BY <1>1, <1>3, <1>4

(* Every slot is visited once, so nothing is merged twice.                 *)
LEMMA MergedOnce ==
  ASSUME OnceInv, NEW outside \in Outside
  PROVE  Merged(outside) \in Seq(Hits) /\ IsInjective(Merged(outside))
<1> DEFINE s == [k \in 1 .. MAX_HITS_NUM |-> Piece(k, outside)]
<1>1. Merged(outside) = FlattenSeq(s)
  BY DEF Merged, Piece
<1>2. s \in [1 .. MAX_HITS_NUM -> Seq(Hits)] /\ \A k \in 1 .. MAX_HITS_NUM : IsInjective(s[k])
  BY PieceIs
<1>3. ASSUME NEW i \in 1 .. MAX_HITS_NUM, NEW j \in 1 .. MAX_HITS_NUM, i # j
      PROVE  ToSet(s[i]) \cap ToSet(s[j]) = {}
  <2>1. Visited[i - 1] # Visited[j - 1]
    <3>1. i - 1 \in Slots /\ j - 1 \in Slots /\ i - 1 # j - 1
      BY <1>3, RingSize
    <3> QED
      BY <3>1, VisitedOnce DEF OnceInv, RingInv, RingTypeOK
  <2>2. ToSet(<<>>) = {} /\ ToSet(<<Wild>>) = {Wild}
    BY DEF ToSet
  <2>3. \A k \in Slots : Wild \notin ToSet(g_hits_stats[k].data)
    BY DEF OnceInv, DataOnce, Wild
  <2>4. \A k, l \in Slots :
          k # l => ToSet(g_hits_stats[k].data) \cap ToSet(g_hits_stats[l].data) = {}
    BY DEF OnceInv, DataOnce
  <2>5. -1 \notin Slots
    BY RingSize
  <2>6. s[i] = Piece(i, outside) /\ s[j] = Piece(j, outside)
    OBVIOUS
  <2>7. /\ \/ s[i] = <<>>
           \/ s[i] = <<Wild>> /\ Visited[i - 1] = -1
           \/ /\ Visited[i - 1] \in Slots
              /\ s[i] = g_hits_stats[Visited[i - 1]].data
        /\ \/ s[j] = <<>>
           \/ s[j] = <<Wild>> /\ Visited[j - 1] = -1
           \/ /\ Visited[j - 1] \in Slots
              /\ s[j] = g_hits_stats[Visited[j - 1]].data
    BY <2>6, PieceIs
  <2> HIDE DEF s
  <2> QED
    BY <2>1, <2>2, <2>3, <2>4, <2>5, <2>7
<1> HIDE DEF s
<1> QED
  BY <1>1, <1>2, <1>3, RingSize, FlattenHas, FlattenOnce

(* A file is filled into a slot as the job's, beside what a slot without a *)
(* time still has.                                                         *)
LEMMA FilledData ==
  ASSUME OnceInv, pc = "download", NEW i \in Slots, NEW file
  PROVE  /\ IsInjective(json_parse(Released(g_hits_stats[i]), file).data)
         /\ ToSet(json_parse(Released(g_hits_stats[i]), file).data)
              \subseteq ToSet(g_hits_stats[i].data) \cup {job}
         /\ IsInjective(Released(g_hits_stats[i]).data)
         /\ ToSet(Released(g_hits_stats[i]).data) \subseteq ToSet(g_hits_stats[i].data)
<1> DEFINE d == Released(g_hits_stats[i]).data
<1>1. d = <<>> \/ d = g_hits_stats[i].data
  BY DEF Released, EmptyStat
<1>2. /\ d \in Seq(Nat) /\ IsInjective(d)
      /\ ToSet(d) \subseteq ToSet(g_hits_stats[i].data)
  <2>1. <<>> \in Seq(Nat) /\ IsInjective(<<>>) /\ ToSet(<<>>) = {}
    BY DEF IsInjective, ToSet
  <2>2. g_hits_stats[i].data \in Seq(Nat) /\ IsInjective(g_hits_stats[i].data)
    BY DEF OnceInv, RingInv, RingTypeOK, DataOnce
  <2> HIDE DEF d
  <2> QED
    BY <1>1, <2>1, <2>2
<1>3. job \notin ToSet(d) /\ job \in Nat
  BY <1>2 DEF OnceInv, DataOnce, RingInv, RingTypeOK
<1> HIDE DEF d
<1>4. IsInjective(Append(d, job)) /\ ToSet(Append(d, job)) = ToSet(d) \cup {job}
  BY <1>2, <1>3, AppendOnce
<1>5. json_parse(Released(g_hits_stats[i]), file).data \in {d, Append(d, job)}
  BY DEF json_parse, d
<1> QED
  BY <1>2, <1>4, <1>5 DEF d

(* What leaves the slots with no more than they had, and the job as it is. *)
LEMMA DataLess ==
  ASSUME OnceInv, job' = job, pc' # "download",
         \A i \in Slots :
           /\ IsInjective(g_hits_stats'[i].data)
           /\ ToSet(g_hits_stats'[i].data) \subseteq ToSet(g_hits_stats[i].data)
  PROVE  DataOnce'
<1>1. \A i \in Slots : ToSet(g_hits_stats[i].data) \subseteq 1 .. job
  BY DEF OnceInv, DataOnce
<1>2. \A i, j \in Slots :
        i # j => ToSet(g_hits_stats[i].data) \cap ToSet(g_hits_stats[j].data) = {}
  BY DEF OnceInv, DataOnce
<1>3. \A i \in Slots : ToSet(g_hits_stats'[i].data) \subseteq 1 .. job
  BY <1>1
<1>4. \A i, j \in Slots :
        i # j => ToSet(g_hits_stats'[i].data) \cap ToSet(g_hits_stats'[j].data) = {}
  BY <1>2
<1> QED
  BY <1>3, <1>4 DEF DataOnce

LEMMA DataStep == OnceInv /\ [Next]_vars => OnceInv'
<1> SUFFICES ASSUME OnceInv, [Next]_vars PROVE DataOnce'
  BY RingStep DEF OnceInv
<1>1. ASSUME NEW j \in 1 .. LastJob, TakeJob(j) PROVE DataOnce'
  <2>1. j \in Nat \ {0} /\ job < j /\ job \in Nat
    BY <1>1, RingAssumption DEF TakeJob, Starts, NoJob, OnceInv, RingInv, RingTypeOK
  <2>2. g_hits_stats' = g_hits_stats /\ job' = j
    BY <1>1 DEF TakeJob, Starts, ringVars
  <2>3. 1 .. job \subseteq 1 .. j /\ j \notin 1 .. job
    BY <2>1
  <2> QED
    BY <2>1, <2>2, <2>3 DEF OnceInv, DataOnce, NoJob
<1>2. CASE ParseFails
  <2>1. /\ g_hits_index \in Slots /\ job' = job /\ pc' = "idle" /\ pc = "download"
        /\ \A i \in Slots : g_hits_stats'[i] =
              IF i = g_hits_index THEN Released(g_hits_stats[i]) ELSE g_hits_stats[i]
    BY <1>2 DEF ParseFails, OnceInv, RingInv, RingTypeOK
  <2>2. ASSUME NEW i \in Slots
        PROVE  /\ IsInjective(g_hits_stats'[i].data)
               /\ ToSet(g_hits_stats'[i].data) \subseteq ToSet(g_hits_stats[i].data)
    BY <2>1, FilledData DEF OnceInv, DataOnce
  <2> QED
    BY <2>1, <2>2, DataLess
<1>3. ASSUME NEW file \in FileKinds, Parse(file) PROVE DataOnce'
  <2>1. /\ g_hits_index \in Slots /\ job' = job /\ pc' = "memo" /\ pc = "download"
        /\ \A i \in Slots : g_hits_stats'[i] =
              IF i = g_hits_index THEN json_parse(Released(g_hits_stats[i]), file)
              ELSE g_hits_stats[i]
    BY <1>3 DEF Parse, OnceInv, RingInv, RingTypeOK
  <2>2. job \in 1 .. job
    BY <2>1 DEF OnceInv, DataOnce, RingInv, RingTypeOK, NoJob
  <2>3. ASSUME NEW i \in Slots
        PROVE  /\ IsInjective(g_hits_stats'[i].data)
               /\ ToSet(g_hits_stats'[i].data) \subseteq 1 .. job
               /\ ToSet(g_hits_stats'[i].data) \subseteq
                     ToSet(g_hits_stats[i].data) \cup (IF i = g_hits_index THEN {job} ELSE {})
    <3>1. ToSet(g_hits_stats[i].data) \subseteq 1 .. job /\ IsInjective(g_hits_stats[i].data)
      BY DEF OnceInv, DataOnce
    <3>2. CASE i = g_hits_index
      BY <2>1, <2>2, <3>1, <3>2, FilledData
    <3>3. CASE i # g_hits_index
      BY <2>1, <3>1, <3>3
    <3> QED
      BY <3>2, <3>3
  <2>4. \A i, j \in Slots :
          i # j => ToSet(g_hits_stats[i].data) \cap ToSet(g_hits_stats[j].data) = {}
    BY DEF OnceInv, DataOnce
  <2>5. \A i \in Slots : job \notin ToSet(g_hits_stats[i].data)
    BY <2>1 DEF OnceInv, DataOnce
  <2>6. \A i, j \in Slots :
          i # j => ToSet(g_hits_stats'[i].data) \cap ToSet(g_hits_stats'[j].data) = {}
    BY <2>3, <2>4, <2>5
  <2> QED
    BY <2>1, <2>3, <2>6 DEF DataOnce
<1>4. CASE Restart
  <2>1. /\ \A i \in Slots : g_hits_stats'[i] = EmptyStat
        /\ pc' = "idle"
    BY <1>4 DEF Restart
  <2>2. IsInjective(<<>>) /\ ToSet(<<>>) = {}
    BY DEF IsInjective, ToSet
  <2> QED
    BY <2>1, <2>2 DEF DataOnce, EmptyStat
<1>5. CASE UNCHANGED <<ringVars, job>> /\ pc' # "download"
  BY <1>5 DEF ringVars, OnceInv, DataOnce
<1>6. CASE UNCHANGED vars
  BY <1>6 DEF vars, ringVars, OnceInv, DataOnce
<1> QED
  BY <1>1, <1>2, <1>3, <1>4, <1>5, <1>6
  DEF Next, do_job, DownloadFails, do_memo, NotYet, do_save

(* No interval is counted twice into what is published or into one save,   *)
(* whatever files are missing, broken or lack parts, and however often the *)
(* program is restarted: the walk over the slots meets none of them twice, *)
(* and no two of them hold the same interval.                              *)
THEOREM NothingCountedTwice == Spec => []CountedOnce
<1>1. Init => OnceInv /\ CountedOnce
  <2> SUFFICES ASSUME Init PROVE DataOnce /\ CountedOnce
    BY RingInit DEF OnceInv
  <2>1. IsInjective(<<>>) /\ ToSet(<<>>) = {} /\ DOMAIN <<>> = {}
    BY DEF IsInjective, ToSet
  <2> QED
    BY <2>1 DEF Init, DataOnce, CountedOnce, EmptyStat
<1>2. OnceInv /\ CountedOnce /\ [Next]_vars => OnceInv' /\ CountedOnce'
  <2> SUFFICES ASSUME OnceInv, CountedOnce, [Next]_vars PROVE CountedOnce'
    BY DataStep
  <2>1. CASE do_memo
    BY <2>1, MergedOnce DEF do_memo, CountedOnce
  <2>2. CASE do_save
    <3>1. PICK outside \in Outside, connected \in Connects :
            database' = db_save(Merged(outside), g_start_time', connected)
      BY <2>2 DEF do_save
    <3> DEFINE save == [start |-> g_start_time', data |-> Merged(outside)]
    <3>2. database' = database \/ database' = Append(database, save)
      BY <3>1 DEF db_save
    <3>3. IsInjective(save.data)
      BY MergedOnce
    <3>4. g_hits_memo' = g_hits_memo
      BY <2>2 DEF do_save
    <3> HIDE DEF save
    <3> QED
      BY <3>2, <3>3, <3>4 DEF CountedOnce
  <2>3. CASE Restart
    <3>1. IsInjective(<<>>)
      BY DEF IsInjective
    <3> QED
      BY <2>3, <3>1 DEF Restart, CountedOnce
  <2>4. CASE UNCHANGED <<g_hits_memo, database>>
    BY <2>4 DEF CountedOnce
  <2> QED
    BY <2>1, <2>2, <2>3, <2>4
    DEF Next, TakeJob, Starts, do_job, DownloadFails, ParseFails, Parse, NotYet, vars
<1> QED
  BY <1>1, <1>2, PTL DEF Spec

-----------------------------------------------------------------------------
(* What a save is stamped with                                             *)

(* The slots that the walk meets later hold the older intervals.           *)
LEMMA LaterIsOlder ==
  ASSUME g_hits_index \in Slots, g_hits_index # 0,
         NEW k \in Slots, NEW l \in Slots, l < k
  PROVE  Visited[k] \in Slots /\ Visited[l] \in Slots /\ Older(Visited[k], Visited[l])
<1>1. Visited = Walk(g_hits_index, MAX_HITS_NUM)
  BY VisitedIs
<1> QED
  BY <1>1, RingSize DEF Walk, Older

LEMMA WalkBegins ==
  ASSUME g_hits_index \in Slots, g_hits_index # 0
  PROVE  /\ Visited[0] = Newest
         /\ \A k \in Slots : Visited[k] \in Slots
<1>1. Visited = Walk(g_hits_index, MAX_HITS_NUM)
  BY VisitedIs
<1> QED
  BY <1>1, RingSize DEF Walk, Newest

Timed(outside) == {k \in Slots : StatAt(Visited[k], outside).start > 0}

LEMMA LastTimed ==
  ASSUME NEW outside \in Outside, Timed(outside) # {}
  PROVE  \E k \in Timed(outside) :
           /\ \A l \in Timed(outside) : l <= k
           /\ LastTime(outside) = StatAt(Visited[k], outside).start
<1> DEFINE k == CHOOSE k \in Timed(outside) : \A l \in Timed(outside) : l <= k
<1>1. \E m \in Timed(outside) : \A l \in Timed(outside) : l <= m
  <2>1. Timed(outside) \in SUBSET (0 .. MAX_HITS_NUM - 1) /\ MAX_HITS_NUM - 1 \in Nat
    BY RingSize DEF Timed
  <2> QED
    BY <2>1, GreatestExists
<1>2. k \in Timed(outside) /\ \A l \in Timed(outside) : l <= k
  BY <1>1
<1>3. LastTime(outside) = StatAt(Visited[k], outside).start
  BY DEF LastTime, Timed
<1> QED
  BY <1>2, <1>3

LEMMA LastTimeType ==
  ASSUME RingInv, NEW outside \in Outside, g_start_time \in Nat
  PROVE  LastTime(outside) \in Nat
<1>1. CASE Timed(outside) = {}
  BY <1>1 DEF LastTime, Timed
<1>2. CASE Timed(outside) # {}
  <2>1. PICK k \in Timed(outside) : LastTime(outside) = StatAt(Visited[k], outside).start
    BY <1>2, LastTimed
  <2>2. StatAt(Visited[k], outside).start \in Nat
    BY RingAssumption DEF StatAt, RingInv, RingTypeOK
  <2> QED
    BY <2>1, <2>2
<1> QED
  BY <1>1, <1>2

(* A save is stamped with the oldest time in the ring, whatever slots lack *)
(* one, but when slot 0 is the next to be filled.                          *)
THEOREM StampedWithOldest == Spec => StampIsOldest
<1>1. Init => SaveInv
  BY RingInit DEF SaveInv, NewestIsJob, Init
<1> DEFINE Stamped == /\ \E i \in Slots : g_hits_stats[i].start = g_start_time'
                      /\ \A i \in Slots :
                           g_hits_stats[i].start > 0 => g_start_time' <= g_hits_stats[i].start
<1>2. SaveInv /\ [Next]_vars => [database' # database /\ g_hits_index # 0 => Stamped]_vars
  <2> SUFFICES ASSUME SaveInv, Next, database' # database, g_hits_index # 0 PROVE Stamped
    BY DEF vars
  <2>1. do_save
    BY DEF Next, TakeJob, Starts, do_job, DownloadFails, ParseFails, Parse, do_memo, NotYet, Restart
  <2>2. PICK outside \in Outside : g_start_time' = LastTime(outside)
    BY <2>1 DEF do_save
  <2>3. /\ g_hits_stats \in [Slots -> [start : Nat, data : Seq(Nat)]] /\ g_hits_index \in Slots
        /\ RingInOrder
    BY DEF SaveInv, RingInv, RingTypeOK
  <2>4. \A k \in Slots : Visited[k] \in Slots /\ StatAt(Visited[k], outside) = g_hits_stats[Visited[k]]
    BY <2>3, WalkBegins DEF StatAt
  <2>5. 0 \in Timed(outside)
    <3>1. g_hits_stats[Newest].start # 0
      BY <2>1, NoTimeNoPeriod, RingAssumption DEF do_save, one_period_complete
    <3>2. 0 \in Slots /\ Visited[0] = Newest
      BY <2>3, RingSize, WalkBegins
    <3> QED
      BY <2>3, <2>4, <3>1, <3>2 DEF Timed
  <2>6. PICK k \in Timed(outside) :
          /\ \A l \in Timed(outside) : l <= k
          /\ g_start_time' = StatAt(Visited[k], outside).start
    BY <2>2, <2>5, LastTimed
  <2>7. k \in Slots /\ g_start_time' = g_hits_stats[Visited[k]].start /\ g_start_time' > 0
    BY <2>4, <2>6 DEF Timed
  <2>8. ASSUME NEW i \in Slots, g_hits_stats[i].start > 0
        PROVE  g_start_time' <= g_hits_stats[i].start
    <3>1. PICK l \in Slots : Visited[l] = i
      BY <2>3, VisitedOnce
    <3>2. l \in Timed(outside)
      BY <2>4, <2>8, <3>1 DEF Timed
    <3>3. CASE l = k
      BY <2>3, <2>4, <2>7, <3>1, <3>3
    <3>4. CASE l # k
      <4>1. l < k
        BY <2>6, <2>7, <3>2, <3>4, RingSize
      <4>2. Older(Visited[k], i)
        BY <2>3, <2>7, <3>1, <4>1, LaterIsOlder
      <4> QED
        BY <2>3, <2>4, <2>7, <2>8, <4>2 DEF RingInOrder
    <3> QED
      BY <3>3, <3>4
  <2> QED
    BY <2>4, <2>7, <2>8
<1> QED
  BY <1>1, <1>2, SaveStep, PTL DEF Spec, StampIsOldest

(* The state stays in its types: what is published and saved are hits of   *)
(* jobs, or of what lies before the array.                                 *)
THEOREM TypeCorrect == Spec => []TypeOK
<1>1. Init => OnceInv /\ TypeOK
  <2> SUFFICES ASSUME Init PROVE DataOnce /\ TypeOK
    BY RingInit DEF OnceInv
  <2>1. IsInjective(<<>>) /\ ToSet(<<>>) = {}
    BY DEF IsInjective, ToSet
  <2> QED
    BY <2>1, RingInit DEF Init, DataOnce, EmptyStat, TypeOK, RingInv
<1>2. OnceInv /\ TypeOK /\ [Next]_vars => OnceInv' /\ TypeOK'
  <2> SUFFICES ASSUME OnceInv, TypeOK, [Next]_vars PROVE TypeOK'
    BY DataStep
  <2>1. RingTypeOK'
    BY DataStep DEF OnceInv, RingInv
  <2>2. CASE do_memo
    <3>1. g_hits_memo' \in Seq(Hits)
      BY <2>2, MergedOnce DEF do_memo
    <3> QED
      BY <2>1, <2>2, <3>1 DEF do_memo, TypeOK
  <2>3. CASE do_save
    <3>1. PICK outside \in Outside, connected \in Connects :
            /\ g_start_time' = LastTime(outside)
            /\ database' = db_save(Merged(outside), g_start_time', connected)
      BY <2>3 DEF do_save
    <3>2. g_start_time' \in Nat /\ Merged(outside) \in Seq(Hits)
      BY <3>1, MergedOnce, LastTimeType DEF OnceInv, TypeOK
    <3> DEFINE save == [start |-> g_start_time', data |-> Merged(outside)]
    <3>3. database' \in Seq(Save)
      <4>1. save \in Save
        BY <3>2 DEF Save
      <4>2. database' \in {database, Append(database, save)}
        BY <3>1 DEF db_save
      <4> HIDE DEF save
      <4> QED
        BY <4>1, <4>2 DEF TypeOK
    <3> QED
      BY <2>1, <2>3, <3>2, <3>3 DEF do_save, TypeOK
  <2>4. ASSUME NEW file \in FileKinds, Parse(file) PROVE TypeOK'
    BY <2>1, <2>4 DEF Parse, TypeOK, RingTypeOK
  <2>5. CASE Restart
    BY <2>1, <2>5 DEF Restart, TypeOK
  <2>6. CASE /\ UNCHANGED <<g_hits_memo, g_start_time, database, parsed, restarts>>
             /\ pc' \in {"idle", "download", pc}
    BY <2>1, <2>6 DEF TypeOK
  <2> QED
    BY <2>2, <2>3, <2>4, <2>5, <2>6
    DEF Next, TakeJob, Starts, do_job, DownloadFails, ParseFails, NotYet, vars
<1> QED
  BY <1>1, <1>2, PTL DEF Spec
=============================================================================
