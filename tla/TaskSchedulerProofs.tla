------------------------- MODULE TaskSchedulerProofs -------------------------
(***************************************************************************)
(* Proofs about TaskScheduler, for any number of tasks, callers, events    *)
(* and threads: its invariant and what follows from it; that a task that   *)
(* asked for its thread is run by that thread; and that the scheduler      *)
(* keeps what Task.h promises: it implements TaskPromise.                  *)
(***************************************************************************)
EXTENDS TaskScheduler, TLAPS

(* EnQueue adds the task to the elements of the queue, once.               *)
LEMMA ElemsOfAppend ==
  ASSUME NEW S, NEW seq \in Seq(S), NEW x \in S, x \notin Elems(seq), NoDuplicates(seq)
  PROVE  /\ Append(seq, x) \in Seq(S)
         /\ Elems(Append(seq, x)) = Elems(seq) \cup {x}
         /\ NoDuplicates(Append(seq, x))
<1>1. /\ Append(seq, x) \in Seq(S)
      /\ DOMAIN Append(seq, x) = 1 .. Len(seq) + 1
      /\ DOMAIN seq = 1 .. Len(seq)
      /\ Len(seq) \in Nat
      /\ Append(seq, x)[Len(seq) + 1] = x
      /\ \A i \in 1 .. Len(seq) : Append(seq, x)[i] = seq[i]
  OBVIOUS
<1>2. Elems(Append(seq, x)) = Elems(seq) \cup {x}
  BY <1>1 DEF Elems
<1>3. NoDuplicates(Append(seq, x))
  BY <1>1 DEF Elems, NoDuplicates
<1> QED
  BY <1>1, <1>2, <1>3

(* DeQueue removes the oldest task from the elements of the queue.         *)
LEMMA ElemsOfTail ==
  ASSUME NEW S, NEW seq \in Seq(S), seq # <<>>, NoDuplicates(seq)
  PROVE  /\ Head(seq) \in Elems(seq)
         /\ Head(seq) \in S
         /\ Tail(seq) \in Seq(S)
         /\ Elems(Tail(seq)) = Elems(seq) \ {Head(seq)}
         /\ NoDuplicates(Tail(seq))
<1>1. /\ Tail(seq) \in Seq(S)
      /\ Len(seq) \in Nat \ {0}
      /\ DOMAIN seq = 1 .. Len(seq)
      /\ DOMAIN Tail(seq) = 1 .. Len(seq) - 1
      /\ Head(seq) = seq[1]
      /\ \A i \in 1 .. Len(seq) - 1 : Tail(seq)[i] = seq[i + 1]
  OBVIOUS
<1>2. Head(seq) \in Elems(seq) /\ Head(seq) \in S
  BY <1>1 DEF Elems
<1>3. NoDuplicates(Tail(seq))
  BY <1>1 DEF NoDuplicates
<1>4. ASSUME NEW y \in Elems(Tail(seq)) PROVE y \in Elems(seq) \ {Head(seq)}
  BY <1>1 DEF Elems, NoDuplicates
<1>5. ASSUME NEW y \in Elems(seq) \ {Head(seq)} PROVE y \in Elems(Tail(seq))
  <2>1. PICK i \in 1 .. Len(seq) : y = seq[i]
    BY <1>1 DEF Elems
  <2>2. i # 1
    BY <1>1, <2>1
  <2>3. i - 1 \in 1 .. Len(seq) - 1 /\ Tail(seq)[i - 1] = y
    BY <1>1, <2>1, <2>2
  <2> QED
    BY <1>1, <2>3 DEF Elems
<1> QED
  BY <1>1, <1>2, <1>3, <1>4, <1>5

-----------------------------------------------------------------------------
(* A call of Signal queues the task on an existing thread.                 *)
LEMMA PickThreadType ==
  ASSUME TypeOK, NEW t \in Tasks
  PROVE  PickThread(t) \in Threads /\ NextCount(pickerToUse[t]) \in 0 .. PickerWidth - 1
<1>1. pickerToUse[t] \in {"short", "blocking"}
  BY DEF TypeOK, Pickers
<1>2. \A p \in {"short", "blocking"} : NextCount(p) \in 0 .. PickerWidth - 1
  BY ThreadsAssumption DEF TypeOK, Pickers, NextCount
<1>3. \A p \in {"short", "blocking"} : NextCount(p) \in Nat
  BY <1>2, ThreadsAssumption
<1>4. NextCount("short") % NumShort \in 0 .. NumShort - 1
  BY <1>3, ThreadsAssumption
<1>5. NextCount("blocking") % NumBlocking \in 0 .. NumBlocking - 1
  BY <1>3, ThreadsAssumption
<1>6. PickThread(t) \in Threads
  BY <1>1, <1>4, <1>5, ThreadsAssumption DEF PickThread, Threads
<1> QED
  BY <1>1, <1>2, <1>6

-----------------------------------------------------------------------------
LEMMA TypeInit == Init => TypeOK
  BY ThreadsAssumption DEF Init, TypeOK, Pickers, Actors, Flags

(* EnterRun and TakeTask keep the variables they change in their types.    *)
LEMMA TakeTaskType ==
  ASSUME TypeOK, NEW th \in Threads, NEW t \in Tasks, TakeTask(th, t)
  PROVE  /\ pc' \in [Threads -> {"wait", "run", "sub", "handle", "park", "delete", "exit"}]
         /\ theTask' \in [Threads -> Tasks \cup {NoTask}]
         /\ got' \in [Threads -> SUBSET Flags]
         /\ fUseThisThread' \in [Tasks -> Threads \cup {NoThread}]
  BY DEF TypeOK, TakeTask, EnterRun

LEMMA TypeStep == TypeOK /\ Bookkeeping /\ NoUseAfterDelete /\ [Next]_vars => TypeOK'
<1> SUFFICES ASSUME TypeOK, Bookkeeping, [Next]_vars PROVE TypeOK'
  OBVIOUS
<1>h. ASSUME NEW th \in Threads, pc[th] # "wait" PROVE theTask[th] \in Tasks
  BY <1>h DEF TypeOK, Bookkeeping
<1>s. ASSUME NEW a \in Actors, sigPc[a] # "idle" PROVE sigTask[a] \in Tasks
  BY <1>s DEF TypeOK, Bookkeeping
<1>1. ASSUME NEW t \in Tasks, NEW p \in Pickers, CreateTask(t, p) PROVE TypeOK'
  BY <1>1 DEF CreateTask, TypeOK, threadVars, sigVars
<1>2. ASSUME NEW a \in Callers, NEW t \in Tasks, NEW E \in SUBSET Events, Resolve(a, t, E)
      PROVE TypeOK'
  BY <1>2 DEF Resolve, TypeOK, threadVars, taskVars
<1>3. ASSUME NEW a \in Actors, SignalCheck(a) PROVE TypeOK'
  BY <1>3 DEF SignalCheck, TypeOK, threadVars, taskVars
<1>4. ASSUME NEW a \in Actors, SignalOr(a) PROVE TypeOK'
  <2>1. sigTask[a] \in Tasks
    BY <1>4, <1>s DEF SignalOr, MustQueue
  <2>2. fEvents' \in [Tasks -> SUBSET Flags]
    BY <1>4, <2>1 DEF SignalOr, MustQueue, TypeOK, Flags
  <2> QED
    BY <1>4, <2>2 DEF SignalOr, MustQueue, TypeOK, threadVars
<1>5. ASSUME NEW a \in Actors, SignalEnQueue(a) PROVE TypeOK'
  <2> DEFINE t == sigTask[a]
  <2>1. t \in Tasks
    BY <1>5, <1>s DEF SignalEnQueue, Forced
  <2>2. ASSUME NEW th \in Threads, EnQueue(th, t)
        PROVE  fTaskQueue' \in [Threads -> Seq(Tasks)]
    BY <2>1, <2>2 DEF EnQueue, TypeOK
  <2>3. fTaskQueue' \in [Threads -> Seq(Tasks)] /\ picker' \in [Pickers -> 0 .. PickerWidth - 1]
    <3>1. CASE fUseThisThread[t] # NoThread
      BY <1>5, <2>1, <2>2, <3>1 DEF SignalEnQueue, Forced, TypeOK
    <3>2. CASE fUseThisThread[t] = NoThread
      BY <1>5, <2>1, <2>2, <3>2, PickThreadType DEF SignalEnQueue, Forced, TypeOK
    <3> QED
      BY <3>1, <3>2
  <2> QED
    BY <1>5, <2>3 DEF SignalEnQueue, Forced, TypeOK, threadVars, taskVars
<1>6. ASSUME NEW a \in Actors, Release(a) PROVE TypeOK'
  BY <1>6 DEF Release, TypeOK, threadVars, taskVars
<1>7. ASSUME NEW th \in Threads, WaitForQueue(th) PROVE TypeOK'
  <2>1. fTaskQueue[th] \in Seq(Tasks) /\ fTaskQueue[th] # <<>>
    BY <1>7 DEF WaitForQueue, TypeOK
  <2>2. Head(fTaskQueue[th]) \in Tasks /\ Tail(fTaskQueue[th]) \in Seq(Tasks)
    BY <2>1
  <2>3. fTaskQueue' \in [Threads -> Seq(Tasks)]
    BY <1>7, <2>2 DEF WaitForQueue, TypeOK
  <2> QED
    BY <1>7, <2>2, <2>3, TakeTaskType DEF WaitForQueue, TypeOK, sigVars
<1>8. ASSUME NEW th \in Threads, NEW t \in Tasks, WaitForTimer(th, t) PROVE TypeOK'
  BY <1>8, TakeTaskType DEF WaitForTimer, TypeOK, sigVars
<1>9. ASSUME NEW th \in Threads, GetEventsRead(th) PROVE TypeOK'
  BY <1>9, <1>h DEF GetEventsRead, ReadFlags, TypeOK, taskVars, sigVars
<1>10. ASSUME NEW th \in Threads, GetEventsSub(th) PROVE TypeOK'
  BY <1>10, <1>h DEF GetEventsSub, Subtracted, TypeOK, sigVars
<1>11. ASSUME NEW th \in Threads, Disconnect(th) PROVE TypeOK'
  BY <1>11, <1>h, FlagsAssumption DEF Disconnect, TypeOK, taskVars, threadVars, Actors
<1>12. ASSUME NEW th \in Threads, ForceSameThread(th) PROVE TypeOK'
  BY <1>12, <1>h DEF ForceSameThread, TypeOK, threadVars, sigVars
<1>13. ASSUME NEW th \in Threads, RunReturnsDelete(th) PROVE TypeOK'
  BY <1>13, <1>h DEF RunReturnsDelete, TypeOK, sigVars
<1>14a. ASSUME NEW th \in Threads, RunEnds(th) PROVE TypeOK'
  BY <1>14a, <1>h DEF RunEnds, NothingPending, TypeOK, sigVars
<1>14b. ASSUME NEW th \in Threads, RunAgain(th) PROVE TypeOK'
  BY <1>14b, <1>h DEF RunAgain, NothingPending, EnterRun, TypeOK, sigVars
<1>15. ASSUME NEW th \in Threads, RunReturnsTimeout(th) PROVE TypeOK'
  BY <1>15, <1>h DEF RunReturnsTimeout, TypeOK, taskVars, sigVars
<1>16. ASSUME NEW th \in Threads, ParkIdle(th) PROVE TypeOK'
  BY <1>16, <1>h DEF ParkIdle, TypeOK, sigVars, Flags
<1>17. ASSUME NEW th \in Threads, DeleteTask(th) PROVE TypeOK'
  BY <1>17, <1>h DEF DeleteTask, Referenced, TypeOK, sigVars, Pickers
<1>18. CASE UNCHANGED vars
  BY <1>18 DEF TypeOK, vars, taskVars, threadVars, sigVars
<1> QED
  BY <1>1, <1>2, <1>3, <1>4, <1>5, <1>6, <1>7, <1>8, <1>9, <1>10, <1>11, <1>12, <1>13, <1>14a, <1>14b,
     <1>15, <1>16, <1>17, <1>18
  DEF Next, NewSignal, SignalStep, ThreadStep, RunStep

-----------------------------------------------------------------------------
(* The token of every task stays where it is ...                           *)
LEMMA TokenStays ==
  ASSUME TokenInOnePlace,
         \A p \in Places, t \in Tasks : Holds(p, t)' <=> Holds(p, t),
         \A t \in Tasks : kAlive \in fEvents'[t] <=> kAlive \in fEvents[t]
  PROVE  TokenInOnePlace'
  BY Zenon DEF TokenInOnePlace

(* ... or that of one task is put in a place, which is then the only one   *)
LEMMA TokenMoves ==
  ASSUME TokenInOnePlace, NEW t \in Tasks, NEW q \in Places,
         \A p \in Places : Holds(p, t)' <=> p = q,
         kAlive \in fEvents'[t],
         \A p \in Places, s \in Tasks : s # t => (Holds(p, s)' <=> Holds(p, s)),
         \A s \in Tasks : s # t => (kAlive \in fEvents'[s] <=> kAlive \in fEvents[s])
  PROVE  TokenInOnePlace'
  BY DEF TokenInOnePlace

(* ... or it is taken away.                                                *)
LEMMA TokenGoes ==
  ASSUME TokenInOnePlace, NEW t \in Tasks,
         \A p \in Places : ~ Holds(p, t)',
         kAlive \notin fEvents'[t],
         \A p \in Places, s \in Tasks : s # t => (Holds(p, s)' <=> Holds(p, s)),
         \A s \in Tasks : s # t => (kAlive \in fEvents'[s] <=> kAlive \in fEvents[s])
  PROVE  TokenInOnePlace'
  BY DEF TokenInOnePlace

(* What holding a token means, place by place.                             *)
LEMMA PlaceByPlace ==
  /\ \A a \in Actors : <<"signal", a>> \in Places
  /\ \A th \in Threads : /\ <<"queue", th>> \in Places
                         /\ <<"heap", th>> \in Places
                         /\ <<"run", th>> \in Places
  /\ \A t : \A a \in Actors : Holds(<<"signal", a>>, t) <=> sigPc[a] = "enqueue" /\ sigTask[a] = t
  /\ \A t : \A th \in Threads : /\ Holds(<<"queue", th>>, t) <=> t \in Elems(fTaskQueue[th])
                                /\ Holds(<<"heap", th>>, t) <=> t \in fHeap[th]
                                /\ Holds(<<"run", th>>, t) <=> InRun(th) /\ theTask[th] = t
  BY DEF Places, Holds, Actors

(* The steps that move no token.                                           *)
LEMMA SamePlaces ==
  ASSUME TokenInOnePlace,
         \A a \in Actors, t \in Tasks :
            (sigPc[a] = "enqueue" /\ sigTask[a] = t)' <=> (sigPc[a] = "enqueue" /\ sigTask[a] = t),
         fTaskQueue' = fTaskQueue,
         fHeap' = fHeap,
         \A th \in Threads, t \in Tasks :
            (InRun(th) /\ theTask[th] = t)' <=> (InRun(th) /\ theTask[th] = t),
         \A t \in Tasks : kAlive \in fEvents'[t] <=> kAlive \in fEvents[t]
  PROVE  TokenInOnePlace'
<1>1. ASSUME NEW p \in Places, NEW t \in Tasks PROVE Holds(p, t)' <=> Holds(p, t)
  BY DEF Holds, Places
<1> QED
  BY <1>1, TokenStays

-----------------------------------------------------------------------------
(* The two facts the token gives: its holder is alone, and whoever holds   *)
(* nothing of a task may not assume it is at rest.                         *)
LEMMA HolderIsAlone ==
  ASSUME TokenInOnePlace, NEW p \in Places, NEW t \in Tasks, Holds(p, t)
  PROVE  kAlive \in fEvents[t] /\ \A q \in Places : Holds(q, t) <=> q = p
  BY DEF TokenInOnePlace

(* A task that a thread runs is nowhere else.                              *)
LEMMA RunnerIsAlone ==
  ASSUME TokenInOnePlace, NEW th \in Threads, NEW t \in Tasks, InRun(th), theTask[th] = t
  PROVE  /\ kAlive \in fEvents[t]
         /\ \A o \in Threads : /\ InRun(o) /\ theTask[o] = t => o = th
                               /\ t \notin Elems(fTaskQueue[o])
                               /\ t \notin fHeap[o]
         /\ \A a \in Actors : ~ (sigPc[a] = "enqueue" /\ sigTask[a] = t)
<1>1. Holds(<<"run", th>>, t) /\ <<"run", th>> \in Places
  BY PlaceByPlace
<1>2. kAlive \in fEvents[t] /\ \A q \in Places : Holds(q, t) <=> q = <<"run", th>>
  BY <1>1, HolderIsAlone
<1>3. ASSUME NEW o \in Threads
      PROVE  /\ InRun(o) /\ theTask[o] = t => o = th
             /\ t \notin Elems(fTaskQueue[o])
             /\ t \notin fHeap[o]
  <2>1. /\ Holds(<<"run", o>>, t) => o = th
        /\ ~ Holds(<<"queue", o>>, t)
        /\ ~ Holds(<<"heap", o>>, t)
    BY <1>2, PlaceByPlace
  <2> QED
    BY <2>1, PlaceByPlace
<1>4. ASSUME NEW a \in Actors PROVE ~ (sigPc[a] = "enqueue" /\ sigTask[a] = t)
  <2>1. <<"signal", a>> \in Places /\ <<"signal", a>> # <<"run", th>>
    BY PlaceByPlace
  <2>2. ~ Holds(<<"signal", a>>, t)
    BY <1>2, <2>1
  <2> QED
    BY <2>2, PlaceByPlace
<1> QED
  BY <1>2, <1>3, <1>4

(* A task that is parked has its token, and nobody runs it.                *)
LEMMA ParkedHasToken ==
  ASSUME TokenInOnePlace, NEW th \in Threads, NEW t \in Tasks, t \in fHeap[th]
  PROVE  kAlive \in fEvents[t]
<1>1. Holds(<<"heap", th>>, t) /\ <<"heap", th>> \in Places
  BY PlaceByPlace
<1> QED
  BY <1>1, HolderIsAlone

(* A task that a call of Signal is about to queue is alive, and on no      *)
(* queue yet.                                                              *)
LEMMA EnQueueAppends ==
  ASSUME IInv, NEW a \in Actors, SignalEnQueue(a)
  PROVE  \E th \in Threads, t \in Tasks :
           /\ t = sigTask[a] /\ Valid(t)
           /\ t \notin Elems(fTaskQueue[th])
           /\ fTaskQueue' = [fTaskQueue EXCEPT ![th] = Append(fTaskQueue[th], t)]
<1> USE DEF IInv, ScheduledOnce
<1>1. PICK t \in Tasks : t = sigTask[a] /\ sigPc[a] = "enqueue"
  BY DEF SignalEnQueue, Forced, TypeOK, Bookkeeping
<1>2. Holds(<<"signal", a>>, t) /\ <<"signal", a>> \in Places
  BY <1>1, PlaceByPlace
<1>3. \A p \in Places : Holds(p, t) <=> p = <<"signal", a>>
  BY <1>2, HolderIsAlone
<1>4. PICK th \in Threads : EnQueue(th, t)
  <2>1. CASE fUseThisThread[t] # NoThread
    BY <1>1, <2>1 DEF SignalEnQueue, Forced, TypeOK
  <2>2. CASE fUseThisThread[t] = NoThread
    BY <1>1, <2>2, PickThreadType DEF SignalEnQueue, Forced
  <2> QED
    BY <2>1, <2>2
<1>5. t \notin Elems(fTaskQueue[th])
  BY <1>3, PlaceByPlace
<1>6. \A o \in Threads : ~ (InRun(o) /\ theTask[o] = t)
  BY <1>3, PlaceByPlace
<1>7. Valid(t)
  <2>1. fTaskName[t] # "none"
    BY <1>1 DEF NoUseAfterDelete
  <2>2. fTaskName[t] # "Dead"
    BY <1>6 DEF Bookkeeping, InRun
  <2> QED
    BY <2>1, <2>2 DEF TypeOK, Valid
<1> QED
  BY <1>1, <1>4, <1>5, <1>7 DEF EnQueue, TypeOK

LEMMA TokenStep == IInv /\ TypeOK' /\ [Next]_vars => TokenInOnePlace'
<1> SUFFICES ASSUME IInv, TypeOK', [Next]_vars PROVE TokenInOnePlace'
  OBVIOUS
<1> USE DEF IInv, ScheduledOnce
<1>h. ASSUME NEW th \in Threads, pc[th] # "wait" PROVE theTask[th] \in Tasks
  BY <1>h DEF TypeOK, Bookkeeping
<1>s. ASSUME NEW a \in Actors, sigPc[a] # "idle" PROVE sigTask[a] \in Tasks
  BY <1>s DEF TypeOK, Bookkeeping
<1>1. ASSUME NEW t \in Tasks, NEW p \in Pickers, CreateTask(t, p) PROVE TokenInOnePlace'
  <2>1. fEvents'[t] = fEvents[t]
    BY <1>1 DEF CreateTask, TypeOK, Bookkeeping
  <2>2. \A s \in Tasks : fEvents'[s] = fEvents[s]
    BY <1>1, <2>1 DEF CreateTask, TypeOK
  <2> QED
    BY <1>1, <2>2, SamePlaces DEF CreateTask, threadVars, sigVars, InRun
<1>2. ASSUME NEW a \in Callers, NEW t \in Tasks, NEW E \in SUBSET Events, Resolve(a, t, E)
      PROVE TokenInOnePlace'
  <2>1. \A b \in Actors, s \in Tasks :
          (sigPc[b] = "enqueue" /\ sigTask[b] = s)' <=> (sigPc[b] = "enqueue" /\ sigTask[b] = s)
    BY <1>2 DEF Resolve, TypeOK, Actors
  <2> QED
    BY <1>2, <2>1, SamePlaces DEF Resolve, threadVars, taskVars, InRun
<1>3. ASSUME NEW a \in Actors, SignalCheck(a) PROVE TokenInOnePlace'
  <2>1. \A b \in Actors, s \in Tasks :
          (sigPc[b] = "enqueue" /\ sigTask[b] = s)' <=> (sigPc[b] = "enqueue" /\ sigTask[b] = s)
    BY <1>3 DEF SignalCheck, TypeOK
  <2> QED
    BY <1>3, <2>1, SamePlaces DEF SignalCheck, threadVars, taskVars, InRun
<1>4. ASSUME NEW a \in Actors, SignalOr(a) PROVE TokenInOnePlace'
  <2>1. PICK t \in Tasks : t = sigTask[a]
    BY <1>4, <1>s DEF SignalOr, MustQueue
  <2>2. /\ kAlive \in fEvents'[t]
        /\ \A s \in Tasks : s # t => fEvents'[s] = fEvents[s]
    BY <1>4, <2>1 DEF SignalOr, MustQueue, TypeOK
  <2>3. CASE kAlive \in fEvents[t]
    <3>1. \A b \in Actors, s \in Tasks :
            (sigPc[b] = "enqueue" /\ sigTask[b] = s)' <=> (sigPc[b] = "enqueue" /\ sigTask[b] = s)
      BY <1>4, <2>1, <2>3 DEF SignalOr, MustQueue, TypeOK
    <3> QED
      BY <1>4, <2>2, <2>3, <3>1, SamePlaces DEF SignalOr, MustQueue, threadVars, InRun
  <2>4. CASE kAlive \notin fEvents[t]
    <3>1. \A p \in Places : ~ Holds(p, t)
      BY <2>1, <2>4 DEF TokenInOnePlace
    <3>a. /\ sigPc'[a] = "enqueue" /\ sigTask' = sigTask
          /\ \A b \in Actors \ {a} : sigPc'[b] = sigPc[b]
          /\ UNCHANGED <<fTaskQueue, fHeap, pc, theTask>>
      BY <1>4, <2>1, <2>4 DEF SignalOr, MustQueue, TypeOK, threadVars
    <3>2. \A p \in Places : Holds(p, t)' <=> p = <<"signal", a>>
      BY <2>1, <3>1, <3>a DEF Places, Holds, InRun
    <3>3. \A p \in Places, s \in Tasks : s # t => (Holds(p, s)' <=> Holds(p, s))
      BY <1>4, <2>1, <2>4 DEF SignalOr, MustQueue, TypeOK, Places, Holds, threadVars, InRun
    <3>4. <<"signal", a>> \in Places
      BY PlaceByPlace
    <3> QED
      BY <2>2, <3>2, <3>3, <3>4, TokenMoves
  <2> QED
    BY <2>3, <2>4
<1>5. ASSUME NEW a \in Actors, SignalEnQueue(a) PROVE TokenInOnePlace'
  <2>1. PICK th \in Threads, t \in Tasks :
          /\ t = sigTask[a]
          /\ t \notin Elems(fTaskQueue[th])
          /\ fTaskQueue' = [fTaskQueue EXCEPT ![th] = Append(fTaskQueue[th], t)]
    BY <1>5, EnQueueAppends
  <2>2. kAlive \in fEvents[t] /\ \A p \in Places : Holds(p, t) <=> p = <<"signal", a>>
    <3>1. Holds(<<"signal", a>>, t) /\ <<"signal", a>> \in Places
      BY <1>5, <2>1, PlaceByPlace DEF SignalEnQueue, Forced
    <3> QED
      BY <3>1, HolderIsAlone
  <2>6. /\ Elems(fTaskQueue'[th]) = Elems(fTaskQueue[th]) \cup {t}
        /\ \A o \in Threads \ {th} : fTaskQueue'[o] = fTaskQueue[o]
    BY <2>1, ElemsOfAppend DEF TypeOK
  <2>a. /\ sigPc'[a] = "done" /\ sigTask' = sigTask
        /\ \A b \in Actors \ {a} : sigPc'[b] = sigPc[b]
        /\ UNCHANGED <<fHeap, pc, theTask>>
    BY <1>5 DEF SignalEnQueue, Forced, TypeOK, threadVars
  <2>7. \A p \in Places : Holds(p, t)' <=> p = <<"queue", th>>
    BY <2>1, <2>2, <2>6, <2>a DEF Places, Holds, InRun
  <2>8. \A p \in Places, s \in Tasks : s # t => (Holds(p, s)' <=> Holds(p, s))
    BY <2>1, <2>6, <2>a DEF Places, Holds, InRun
  <2>9. <<"queue", th>> \in Places /\ fEvents' = fEvents
    BY <1>5, PlaceByPlace DEF SignalEnQueue, Forced, taskVars
  <2> QED
    BY <2>2, <2>7, <2>8, <2>9, TokenMoves
<1>6. ASSUME NEW a \in Actors, Release(a) PROVE TokenInOnePlace'
  <2>1. \A b \in Actors, s \in Tasks :
          (sigPc[b] = "enqueue" /\ sigTask[b] = s)' <=> (sigPc[b] = "enqueue" /\ sigTask[b] = s)
    BY <1>6 DEF Release, TypeOK
  <2> QED
    BY <1>6, <2>1, SamePlaces DEF Release, threadVars, taskVars, InRun
<1>7. ASSUME NEW th \in Threads, WaitForQueue(th) PROVE TokenInOnePlace'
  <2>1. PICK t \in Tasks :
        /\ t = Head(fTaskQueue[th]) /\ t \in Elems(fTaskQueue[th])
        /\ Elems(fTaskQueue'[th]) = Elems(fTaskQueue[th]) \ {t}
        /\ \A o \in Threads \ {th} : fTaskQueue'[o] = fTaskQueue[o]
    BY <1>7, ElemsOfTail DEF WaitForQueue, TypeOK
  <2>2. kAlive \in fEvents[t] /\ \A p \in Places : Holds(p, t) <=> p = <<"queue", th>>
    <3>1. Holds(<<"queue", th>>, t) /\ <<"queue", th>> \in Places
      BY <2>1, PlaceByPlace
    <3> QED
      BY <3>1, HolderIsAlone
  <2>3. /\ \A o \in Threads \ {th} : (InRun(o) <=> InRun(o)') /\ theTask'[o] = theTask[o]
        /\ InRun(th)' /\ theTask'[th] = t /\ ~InRun(th)
    BY <1>7, <2>1 DEF WaitForQueue, TakeTask, EnterRun, TypeOK, InRun
  <2>4. \A p \in Places : Holds(p, t)' <=> p = <<"run", th>>
    BY <1>7, <2>1, <2>2, <2>3 DEF WaitForQueue, Places, Holds, sigVars
  <2>5. \A p \in Places, s \in Tasks : s # t => (Holds(p, s)' <=> Holds(p, s))
    BY <1>7, <2>1, <2>3 DEF WaitForQueue, Places, Holds, sigVars
  <2>9. <<"run", th>> \in Places /\ fEvents' = fEvents
    BY <1>7, PlaceByPlace DEF WaitForQueue, taskVars
  <2> QED
    BY <2>2, <2>4, <2>5, <2>9, TokenMoves
<1>8. ASSUME NEW th \in Threads, NEW t \in Tasks, WaitForTimer(th, t) PROVE TokenInOnePlace'
  <2>1. /\ t \in fHeap[th]
        /\ fHeap'[th] = fHeap[th] \ {t}
        /\ \A o \in Threads \ {th} : fHeap'[o] = fHeap[o]
    BY <1>8 DEF WaitForTimer, TypeOK
  <2>2. kAlive \in fEvents[t] /\ \A p \in Places : Holds(p, t) <=> p = <<"heap", th>>
    <3>1. Holds(<<"heap", th>>, t) /\ <<"heap", th>> \in Places
      BY <2>1, PlaceByPlace
    <3> QED
      BY <3>1, HolderIsAlone
  <2>3. /\ \A o \in Threads \ {th} : (InRun(o) <=> InRun(o)') /\ theTask'[o] = theTask[o]
        /\ InRun(th)' /\ theTask'[th] = t /\ ~InRun(th)
    BY <1>8 DEF WaitForTimer, TakeTask, EnterRun, TypeOK, InRun
  <2>4. \A p \in Places : Holds(p, t)' <=> p = <<"run", th>>
    BY <1>8, <2>1, <2>2, <2>3 DEF WaitForTimer, Places, Holds, sigVars
  <2>5. \A p \in Places, s \in Tasks : s # t => (Holds(p, s)' <=> Holds(p, s))
    BY <1>8, <2>1, <2>3 DEF WaitForTimer, Places, Holds, sigVars
  <2>9. <<"run", th>> \in Places /\ fEvents' = fEvents
    BY <1>8, PlaceByPlace DEF WaitForTimer, taskVars
  <2> QED
    BY <2>2, <2>4, <2>5, <2>9, TokenMoves
<1>9. ASSUME NEW th \in Threads, GetEventsRead(th) PROVE TokenInOnePlace'
  <2>1. \A o \in Threads, s \in Tasks :
          (InRun(o) /\ theTask[o] = s)' <=> (InRun(o) /\ theTask[o] = s)
    BY <1>9 DEF GetEventsRead, ReadFlags, TypeOK, InRun
  <2> QED
    BY <1>9, <2>1, SamePlaces DEF GetEventsRead, ReadFlags, taskVars, sigVars
<1>10. ASSUME NEW th \in Threads, GetEventsSub(th) PROVE TokenInOnePlace'
  <2>1. \A o \in Threads, s \in Tasks :
          (InRun(o) /\ theTask[o] = s)' <=> (InRun(o) /\ theTask[o] = s)
    BY <1>10 DEF GetEventsSub, Subtracted, TypeOK, InRun
  <2>2. kAlive \notin got[th]
    BY <1>10 DEF GetEventsSub, Subtracted, Bookkeeping
  <2>3. \A s \in Tasks : kAlive \in fEvents'[s] <=> kAlive \in fEvents[s]
    BY <1>10, <2>2 DEF GetEventsSub, Subtracted, TypeOK
  <2> QED
    BY <1>10, <2>1, <2>3, SamePlaces DEF GetEventsSub, Subtracted, sigVars
<1>11. ASSUME NEW th \in Threads, Disconnect(th) PROVE TokenInOnePlace'
  <2>1. \A b \in Actors, s \in Tasks :
          (sigPc[b] = "enqueue" /\ sigTask[b] = s)' <=> (sigPc[b] = "enqueue" /\ sigTask[b] = s)
    BY <1>11 DEF Disconnect, TypeOK, Actors
  <2> QED
    BY <1>11, <2>1, SamePlaces DEF Disconnect, threadVars, taskVars, InRun
<1>12. ASSUME NEW th \in Threads, ForceSameThread(th) PROVE TokenInOnePlace'
  BY <1>12, SamePlaces DEF ForceSameThread, threadVars, sigVars, InRun
<1>13. ASSUME NEW th \in Threads, RunReturnsDelete(th) PROVE TokenInOnePlace'
  <2>1. \A o \in Threads, s \in Tasks :
          (InRun(o) /\ theTask[o] = s)' <=> (InRun(o) /\ theTask[o] = s)
    BY <1>13 DEF RunReturnsDelete, TypeOK, InRun
  <2> QED
    BY <1>13, <2>1, SamePlaces DEF RunReturnsDelete, sigVars
<1>14a. ASSUME NEW th \in Threads, RunEnds(th) PROVE TokenInOnePlace'
  <2>1. PICK t \in Tasks : /\ t = theTask[th]
                           /\ Holds(<<"run", th>>, t) /\ <<"run", th>> \in Places
    <3>1. pc[th] = "handle"
      BY <1>14a DEF RunEnds, NothingPending
    <3> QED
      BY <1>h, <3>1, PlaceByPlace DEF InRun
  <2>2. \A p \in Places : Holds(p, t) <=> p = <<"run", th>>
    BY <2>1, HolderIsAlone
  <2>3. /\ fEvents'[t] = {}
        /\ \A s \in Tasks : s # t => fEvents'[s] = fEvents[s]
    BY <1>14a, <2>1 DEF RunEnds, NothingPending, TypeOK
  <2>4. /\ \A o \in Threads \ {th} : (InRun(o) <=> InRun(o)') /\ theTask'[o] = theTask[o]
        /\ ~InRun(th)'
    BY <1>14a DEF RunEnds, NothingPending, TypeOK, InRun
  <2>5. \A p \in Places : ~ Holds(p, t)'
    BY <1>14a, <2>1, <2>2, <2>4 DEF RunEnds, NothingPending, Places, Holds, sigVars
  <2>6. \A p \in Places, s \in Tasks : s # t => (Holds(p, s)' <=> Holds(p, s))
    BY <1>14a, <2>1, <2>4 DEF RunEnds, NothingPending, Places, Holds, sigVars
  <2> QED
    BY <2>3, <2>5, <2>6, TokenGoes
<1>14b. ASSUME NEW th \in Threads, RunAgain(th) PROVE TokenInOnePlace'
  <2>1. \A o \in Threads, s \in Tasks :
          (InRun(o) /\ theTask[o] = s)' <=> (InRun(o) /\ theTask[o] = s)
    BY <1>14b DEF RunAgain, NothingPending, TypeOK, InRun, EnterRun
  <2> QED
    BY <1>14b, <2>1, SamePlaces DEF RunAgain, NothingPending, sigVars
<1>15. ASSUME NEW th \in Threads, RunReturnsTimeout(th) PROVE TokenInOnePlace'
  <2>1. PICK t \in Tasks : /\ t = theTask[th]
                           /\ Holds(<<"run", th>>, t) /\ <<"run", th>> \in Places
    BY <1>15, <1>h, PlaceByPlace DEF RunReturnsTimeout, InRun
  <2>2. kAlive \in fEvents[t] /\ \A p \in Places : Holds(p, t) <=> p = <<"run", th>>
    BY <2>1, HolderIsAlone
  <2>3. /\ fHeap'[th] = fHeap[th] \cup {t}
        /\ \A o \in Threads \ {th} : fHeap'[o] = fHeap[o]
    BY <1>15, <2>1 DEF RunReturnsTimeout, TypeOK
  <2>4. /\ \A o \in Threads \ {th} : (InRun(o) <=> InRun(o)') /\ theTask'[o] = theTask[o]
        /\ ~InRun(th)'
    BY <1>15 DEF RunReturnsTimeout, TypeOK, InRun
  <2>5. \A p \in Places : Holds(p, t)' <=> p = <<"heap", th>>
    BY <1>15, <2>1, <2>2, <2>3, <2>4 DEF RunReturnsTimeout, Places, Holds, sigVars
  <2>6. \A p \in Places, s \in Tasks : s # t => (Holds(p, s)' <=> Holds(p, s))
    BY <1>15, <2>1, <2>3, <2>4 DEF RunReturnsTimeout, Places, Holds, sigVars
  <2>9. <<"heap", th>> \in Places /\ fEvents' = fEvents
    BY <1>15, PlaceByPlace DEF RunReturnsTimeout, taskVars
  <2> QED
    BY <2>2, <2>5, <2>6, <2>9, TokenMoves
<1>16. ASSUME NEW th \in Threads, ParkIdle(th) PROVE TokenInOnePlace'
  <2>1. \A o \in Threads, s \in Tasks :
          (InRun(o) /\ theTask[o] = s)' <=> (InRun(o) /\ theTask[o] = s)
    BY <1>16 DEF ParkIdle, TypeOK, InRun
  <2>2. \A s \in Tasks : kAlive \in fEvents'[s] <=> kAlive \in fEvents[s]
    BY <1>16, FlagsAssumption DEF ParkIdle, TypeOK
  <2> QED
    BY <1>16, <2>1, <2>2, SamePlaces DEF ParkIdle, sigVars
<1>17. ASSUME NEW th \in Threads, DeleteTask(th) PROVE TokenInOnePlace'
  <2>1. PICK t \in Tasks : /\ t = theTask[th]
                           /\ Holds(<<"run", th>>, t) /\ <<"run", th>> \in Places
    BY <1>17, <1>h, PlaceByPlace DEF DeleteTask, Referenced, InRun
  <2>2. \A p \in Places : Holds(p, t) <=> p = <<"run", th>>
    BY <2>1, HolderIsAlone
  <2>3. /\ fEvents'[t] = {}
        /\ \A s \in Tasks : s # t => fEvents'[s] = fEvents[s]
    BY <1>17, <2>1 DEF DeleteTask, Referenced, TypeOK
  <2>4. /\ \A o \in Threads \ {th} : (InRun(o) <=> InRun(o)') /\ theTask'[o] = theTask[o]
        /\ ~InRun(th)'
    BY <1>17 DEF DeleteTask, Referenced, TypeOK, InRun
  <2>5. \A p \in Places : ~ Holds(p, t)'
    BY <1>17, <2>1, <2>2, <2>4 DEF DeleteTask, Referenced, Places, Holds, sigVars
  <2>6. \A p \in Places, s \in Tasks : s # t => (Holds(p, s)' <=> Holds(p, s))
    BY <1>17, <2>1, <2>4 DEF DeleteTask, Referenced, Places, Holds, sigVars
  <2> QED
    BY <2>3, <2>5, <2>6, TokenGoes
<1>18. CASE UNCHANGED vars
  BY <1>18, SamePlaces DEF vars, taskVars, threadVars, sigVars, InRun
<1> QED
  BY <1>1, <1>2, <1>3, <1>4, <1>5, <1>6, <1>7, <1>8, <1>9, <1>10, <1>11, <1>12, <1>13, <1>14a,
     <1>14b, <1>15, <1>16, <1>17, <1>18
  DEF Next, NewSignal, SignalStep, ThreadStep, RunStep

-----------------------------------------------------------------------------
(* A step that adds an event adds the token, or finds it there.            *)
LEMMA EventStep == IInv /\ TypeOK' /\ [Next]_vars => NoEventWithoutToken'
<1> SUFFICES ASSUME IInv, TypeOK', [Next]_vars PROVE NoEventWithoutToken'
  OBVIOUS
<1> USE DEF IInv, ScheduledOnce
<1>h. ASSUME NEW th \in Threads, pc[th] # "wait" PROVE theTask[th] \in Tasks
  BY <1>h DEF TypeOK, Bookkeeping
<1>s. ASSUME NEW a \in Actors, sigPc[a] # "idle" PROVE sigTask[a] \in Tasks
  BY <1>s DEF TypeOK, Bookkeeping
<1>1. ASSUME NEW t \in Tasks, NEW p \in Pickers, CreateTask(t, p) PROVE NoEventWithoutToken'
  BY <1>1, <1>h, <1>s DEF CreateTask, threadVars, sigVars, TypeOK, NoEventWithoutToken
<1>2. ASSUME NEW a \in Callers, NEW t \in Tasks, NEW E \in SUBSET Events, Resolve(a, t, E) PROVE NoEventWithoutToken'
  BY <1>2, <1>h, <1>s DEF Resolve, threadVars, taskVars, Actors, TypeOK, NoEventWithoutToken
<1>3. ASSUME NEW a \in Actors, SignalCheck(a) PROVE NoEventWithoutToken'
  BY <1>3, <1>h, <1>s DEF SignalCheck, threadVars, taskVars, TypeOK, NoEventWithoutToken
<1>4. ASSUME NEW a \in Actors, SignalOr(a) PROVE NoEventWithoutToken'
  BY <1>4, <1>h, <1>s DEF SignalOr, MustQueue, threadVars, TypeOK, NoEventWithoutToken
<1>5. ASSUME NEW a \in Actors, SignalEnQueue(a) PROVE NoEventWithoutToken'
  BY <1>5, <1>h, <1>s DEF SignalEnQueue, Forced, threadVars, taskVars, TypeOK, NoEventWithoutToken
<1>6. ASSUME NEW a \in Actors, Release(a) PROVE NoEventWithoutToken'
  BY <1>6, <1>h, <1>s DEF Release, threadVars, taskVars, TypeOK, NoEventWithoutToken
<1>7. ASSUME NEW th \in Threads, WaitForQueue(th) PROVE NoEventWithoutToken'
  BY <1>7, <1>h, <1>s DEF WaitForQueue, TakeTask, EnterRun, sigVars, TypeOK, NoEventWithoutToken
<1>8. ASSUME NEW th \in Threads, NEW t \in Tasks, WaitForTimer(th, t) PROVE NoEventWithoutToken'
  BY <1>8, <1>h, <1>s DEF WaitForTimer, TakeTask, EnterRun, sigVars, TypeOK, NoEventWithoutToken
<1>9. ASSUME NEW th \in Threads, GetEventsRead(th) PROVE NoEventWithoutToken'
  BY <1>9, <1>h, <1>s DEF GetEventsRead, ReadFlags, taskVars, sigVars, TypeOK, NoEventWithoutToken
<1>10. ASSUME NEW th \in Threads, GetEventsSub(th) PROVE NoEventWithoutToken'
  <2>1. kAlive \notin got[th]
    BY <1>10 DEF Bookkeeping
  <2>2. \A t \in Tasks : fEvents'[t] = fEvents[t] \/ fEvents'[t] = fEvents[t] \ got[th]
    BY <1>10 DEF GetEventsSub, Subtracted, TypeOK
  <2> QED
    BY <2>1, <2>2 DEF NoEventWithoutToken
<1>11. ASSUME NEW th \in Threads, Disconnect(th) PROVE NoEventWithoutToken'
  BY <1>11, <1>h, <1>s DEF Disconnect, taskVars, threadVars, Actors, TypeOK, NoEventWithoutToken
<1>12. ASSUME NEW th \in Threads, ForceSameThread(th) PROVE NoEventWithoutToken'
  BY <1>12, <1>h, <1>s DEF ForceSameThread, threadVars, sigVars, TypeOK, NoEventWithoutToken
<1>13. ASSUME NEW th \in Threads, RunReturnsDelete(th) PROVE NoEventWithoutToken'
  BY <1>13, <1>h, <1>s DEF RunReturnsDelete, sigVars, TypeOK, NoEventWithoutToken
<1>14a. ASSUME NEW th \in Threads, RunEnds(th) PROVE NoEventWithoutToken'
  BY <1>14a, <1>h, <1>s DEF RunEnds, NothingPending, sigVars, TypeOK, NoEventWithoutToken
<1>14b. ASSUME NEW th \in Threads, RunAgain(th) PROVE NoEventWithoutToken'
  BY <1>14b, <1>h, <1>s DEF RunAgain, NothingPending, EnterRun, sigVars, TypeOK, NoEventWithoutToken
<1>15. ASSUME NEW th \in Threads, RunReturnsTimeout(th) PROVE NoEventWithoutToken'
  BY <1>15, <1>h, <1>s DEF RunReturnsTimeout, taskVars, sigVars, TypeOK, NoEventWithoutToken
<1>16. ASSUME NEW th \in Threads, ParkIdle(th) PROVE NoEventWithoutToken'
  <2>1. kAlive \in fEvents[theTask[th]]
    BY <1>16, <1>h, ParkedHasToken DEF ParkIdle, Bookkeeping
  <2>2. \A t \in Tasks : \/ fEvents'[t] = fEvents[t]
                         \/ t = theTask[th] /\ fEvents'[t] = fEvents[t] \cup {kIdleEvent}
    BY <1>16 DEF ParkIdle, TypeOK
  <2> QED
    BY <2>1, <2>2 DEF NoEventWithoutToken
<1>17. ASSUME NEW th \in Threads, DeleteTask(th) PROVE NoEventWithoutToken'
  BY <1>17, <1>h, <1>s DEF DeleteTask, Referenced, sigVars, TypeOK, NoEventWithoutToken
<1>18. CASE UNCHANGED vars
  BY <1>18 DEF vars, taskVars, threadVars, sigVars, NoEventWithoutToken
<1> QED
  BY <1>1, <1>2, <1>3, <1>4, <1>5, <1>6, <1>7, <1>8, <1>9, <1>10, <1>11, <1>12, <1>13, <1>14a,
     <1>14b, <1>15, <1>16, <1>17, <1>18
  DEF Next, NewSignal, SignalStep, ThreadStep, RunStep

(* The references that are held keep the objects alive.                    *)
LEMMA ReferenceStep == IInv /\ TypeOK' /\ [Next]_vars => NoUseAfterDelete'
<1> SUFFICES ASSUME IInv, TypeOK', [Next]_vars PROVE NoUseAfterDelete'
  OBVIOUS
<1> USE DEF IInv, ScheduledOnce
<1>h. ASSUME NEW th \in Threads, pc[th] # "wait" PROVE theTask[th] \in Tasks
  BY <1>h DEF TypeOK, Bookkeeping
<1>s. ASSUME NEW a \in Actors, sigPc[a] # "idle" PROVE sigTask[a] \in Tasks
  BY <1>s DEF TypeOK, Bookkeeping
<1>1. ASSUME NEW t \in Tasks, NEW p \in Pickers, CreateTask(t, p) PROVE NoUseAfterDelete'
  BY <1>1, <1>h, <1>s DEF CreateTask, threadVars, sigVars, TypeOK, NoUseAfterDelete, Bookkeeping, InRun
<1>2. ASSUME NEW a \in Callers, NEW t \in Tasks, NEW E \in SUBSET Events, Resolve(a, t, E) PROVE NoUseAfterDelete'
  BY <1>2, <1>h, <1>s DEF Resolve, threadVars, taskVars, Actors, TypeOK, NoUseAfterDelete, Bookkeeping, InRun
<1>3. ASSUME NEW a \in Actors, SignalCheck(a) PROVE NoUseAfterDelete'
  BY <1>3, <1>h, <1>s DEF SignalCheck, threadVars, taskVars, TypeOK, NoUseAfterDelete, Bookkeeping, InRun
<1>4. ASSUME NEW a \in Actors, SignalOr(a) PROVE NoUseAfterDelete'
  BY <1>4, <1>h, <1>s DEF SignalOr, MustQueue, threadVars, TypeOK, NoUseAfterDelete, Bookkeeping, InRun
<1>5. ASSUME NEW a \in Actors, SignalEnQueue(a) PROVE NoUseAfterDelete'
  BY <1>5, <1>h, <1>s DEF SignalEnQueue, Forced, threadVars, taskVars, TypeOK, NoUseAfterDelete, Bookkeeping, InRun
<1>6. ASSUME NEW a \in Actors, Release(a) PROVE NoUseAfterDelete'
  BY <1>6, <1>h, <1>s DEF Release, threadVars, taskVars, TypeOK, NoUseAfterDelete, Bookkeeping, InRun
<1>7. ASSUME NEW th \in Threads, WaitForQueue(th) PROVE NoUseAfterDelete'
  <2>1. PICK t \in Tasks : t = Head(fTaskQueue[th]) /\ t \in Elems(fTaskQueue[th])
    BY <1>7, ElemsOfTail DEF WaitForQueue, TypeOK
  <2>2. Valid(t)
    BY <2>1 DEF OnlyLiveTasksWait
  <2>3. EnterRun(th, t)
    BY <1>7, <2>1, <2>2 DEF WaitForQueue, TakeTask
  <2> QED
    BY <1>7, <2>2, <2>3 DEF WaitForQueue, EnterRun, sigVars, TypeOK, NoUseAfterDelete, InRun, Valid
<1>8. ASSUME NEW th \in Threads, NEW t \in Tasks, WaitForTimer(th, t) PROVE NoUseAfterDelete'
  <2>2. Valid(t)
    BY <1>8 DEF WaitForTimer, OnlyLiveTasksWait
  <2>3. EnterRun(th, t)
    BY <1>8, <2>2 DEF WaitForTimer, TakeTask
  <2> QED
    BY <1>8, <2>2, <2>3 DEF WaitForTimer, EnterRun, sigVars, TypeOK, NoUseAfterDelete, InRun, Valid
<1>9. ASSUME NEW th \in Threads, GetEventsRead(th) PROVE NoUseAfterDelete'
  BY <1>9, <1>h, <1>s DEF GetEventsRead, ReadFlags, taskVars, sigVars, TypeOK, NoUseAfterDelete, Bookkeeping, InRun
<1>10. ASSUME NEW th \in Threads, GetEventsSub(th) PROVE NoUseAfterDelete'
  BY <1>10, <1>h, <1>s DEF GetEventsSub, Subtracted, sigVars, TypeOK, NoUseAfterDelete, Bookkeeping, InRun
<1>11. ASSUME NEW th \in Threads, Disconnect(th) PROVE NoUseAfterDelete'
  BY <1>11, <1>h, <1>s DEF Disconnect, taskVars, threadVars, Actors, TypeOK, NoUseAfterDelete, Bookkeeping, InRun
<1>12. ASSUME NEW th \in Threads, ForceSameThread(th) PROVE NoUseAfterDelete'
  BY <1>12, <1>h, <1>s DEF ForceSameThread, threadVars, sigVars, TypeOK, NoUseAfterDelete, Bookkeeping, InRun
<1>13. ASSUME NEW th \in Threads, RunReturnsDelete(th) PROVE NoUseAfterDelete'
  BY <1>13, <1>h, <1>s DEF RunReturnsDelete, sigVars, TypeOK, NoUseAfterDelete, Bookkeeping, InRun
<1>14a. ASSUME NEW th \in Threads, RunEnds(th) PROVE NoUseAfterDelete'
  BY <1>14a, <1>h, <1>s DEF RunEnds, NothingPending, sigVars, TypeOK, NoUseAfterDelete, Bookkeeping, InRun
<1>14b. ASSUME NEW th \in Threads, RunAgain(th) PROVE NoUseAfterDelete'
  BY <1>14b, <1>h, <1>s DEF RunAgain, NothingPending, EnterRun, sigVars, TypeOK, NoUseAfterDelete, Bookkeeping, InRun
<1>15. ASSUME NEW th \in Threads, RunReturnsTimeout(th) PROVE NoUseAfterDelete'
  BY <1>15, <1>h, <1>s DEF RunReturnsTimeout, taskVars, sigVars, TypeOK, NoUseAfterDelete, Bookkeeping, InRun
<1>16. ASSUME NEW th \in Threads, ParkIdle(th) PROVE NoUseAfterDelete'
  BY <1>16, <1>h, <1>s DEF ParkIdle, sigVars, TypeOK, NoUseAfterDelete, Bookkeeping, InRun
<1>17. ASSUME NEW th \in Threads, DeleteTask(th) PROVE NoUseAfterDelete'
  <2>1. PICK t \in Tasks : t = theTask[th] /\ InRun(th)
    BY <1>17, <1>h DEF DeleteTask, Referenced, InRun
  <2>2. \A o \in Threads : InRun(o) /\ theTask[o] = t => o = th
    BY <2>1, RunnerIsAlone
  <2>3. \A s \in Tasks : s # t => fTaskName'[s] = fTaskName[s]
    BY <1>17, <2>1 DEF DeleteTask, Referenced, TypeOK
  <2>4. ASSUME NEW a \in Actors, sigPc'[a] # "idle" PROVE fTaskName'[sigTask'[a]] # "none"
    <3>1. sigPc[a] # "idle" /\ sigTask'[a] = sigTask[a]
      BY <1>17, <2>4 DEF DeleteTask, Referenced, sigVars
    <3>2. CASE a \in Callers
      BY <1>17, <1>s, <2>1, <2>3, <3>1, <3>2 DEF DeleteTask, Referenced, NoUseAfterDelete
    <3>3. CASE a \in Threads
      <4>1. pc[a] = "handle" /\ sigTask[a] = theTask[a]
        BY <3>1, <3>3 DEF Bookkeeping
      <4>2. sigTask[a] # t
        BY <1>17, <2>2, <3>3, <4>1 DEF InRun, DeleteTask, Referenced
      <4> QED
        BY <1>s, <2>3, <3>1, <4>2 DEF NoUseAfterDelete
    <3> QED
      BY <3>2, <3>3 DEF Actors
  <2>5. ASSUME NEW o \in Threads, InRun(o)' PROVE fTaskName'[theTask'[o]] # "none"
    <3>1. o # th /\ InRun(o) /\ theTask'[o] = theTask[o]
      BY <1>17, <2>5 DEF DeleteTask, Referenced, TypeOK, InRun
    <3>2. theTask[o] \in Tasks /\ theTask[o] # t
      BY <1>h, <2>2, <3>1 DEF InRun
    <3> QED
      BY <2>3, <3>1, <3>2 DEF NoUseAfterDelete
  <2> QED
    BY <2>4, <2>5 DEF NoUseAfterDelete
<1>18. CASE UNCHANGED vars
  BY <1>18 DEF vars, taskVars, threadVars, sigVars, NoUseAfterDelete, Bookkeeping, InRun
<1> QED
  BY <1>1, <1>2, <1>3, <1>4, <1>5, <1>6, <1>7, <1>8, <1>9, <1>10, <1>11, <1>12, <1>13, <1>14a,
     <1>14b, <1>15, <1>16, <1>17, <1>18
  DEF Next, NewSignal, SignalStep, ThreadStep, RunStep

(* Nobody else clears a flag between the two steps of GetEvents.           *)
LEMMA SubtractStep == IInv /\ TypeOK' /\ [Next]_vars => SubtractsSetFlags'
<1> SUFFICES ASSUME IInv, TypeOK', [Next]_vars PROVE SubtractsSetFlags'
  OBVIOUS
<1> USE DEF IInv, ScheduledOnce
<1>h. ASSUME NEW th \in Threads, pc[th] # "wait" PROVE theTask[th] \in Tasks
  BY <1>h DEF TypeOK, Bookkeeping
<1>s. ASSUME NEW a \in Actors, sigPc[a] # "idle" PROVE sigTask[a] \in Tasks
  BY <1>s DEF TypeOK, Bookkeeping
<1>1. ASSUME NEW t \in Tasks, NEW p \in Pickers, CreateTask(t, p) PROVE SubtractsSetFlags'
  BY <1>1, <1>h, <1>s DEF CreateTask, threadVars, sigVars, TypeOK, SubtractsSetFlags, Bookkeeping, InRun
<1>2. ASSUME NEW a \in Callers, NEW t \in Tasks, NEW E \in SUBSET Events, Resolve(a, t, E) PROVE SubtractsSetFlags'
  BY <1>2, <1>h, <1>s DEF Resolve, threadVars, taskVars, Actors, TypeOK, SubtractsSetFlags, Bookkeeping, InRun
<1>3. ASSUME NEW a \in Actors, SignalCheck(a) PROVE SubtractsSetFlags'
  BY <1>3, <1>h, <1>s DEF SignalCheck, threadVars, taskVars, TypeOK, SubtractsSetFlags, Bookkeeping, InRun
<1>4. ASSUME NEW a \in Actors, SignalOr(a) PROVE SubtractsSetFlags'
  BY <1>4, <1>h, <1>s DEF SignalOr, MustQueue, threadVars, TypeOK, SubtractsSetFlags, Bookkeeping, InRun
<1>5. ASSUME NEW a \in Actors, SignalEnQueue(a) PROVE SubtractsSetFlags'
  BY <1>5, <1>h, <1>s DEF SignalEnQueue, Forced, threadVars, taskVars, TypeOK, SubtractsSetFlags, Bookkeeping, InRun
<1>6. ASSUME NEW a \in Actors, Release(a) PROVE SubtractsSetFlags'
  BY <1>6, <1>h, <1>s DEF Release, threadVars, taskVars, TypeOK, SubtractsSetFlags, Bookkeeping, InRun
<1>7. ASSUME NEW th \in Threads, WaitForQueue(th) PROVE SubtractsSetFlags'
  <2>1. /\ pc'[th] \in {"run", "exit"}
        /\ \A o \in Threads \ {th} : UNCHANGED <<pc[o], theTask[o], got[o]>>
    BY <1>7 DEF WaitForQueue, TakeTask, EnterRun, TypeOK
  <2> QED
    BY <1>7, <2>1 DEF WaitForQueue, SubtractsSetFlags
<1>8. ASSUME NEW th \in Threads, NEW t \in Tasks, WaitForTimer(th, t) PROVE SubtractsSetFlags'
  <2>1. /\ pc'[th] \in {"run", "exit"}
        /\ \A o \in Threads \ {th} : UNCHANGED <<pc[o], theTask[o], got[o]>>
    BY <1>8 DEF WaitForTimer, TakeTask, EnterRun, TypeOK
  <2> QED
    BY <1>8, <2>1 DEF WaitForTimer, SubtractsSetFlags
<1>9. ASSUME NEW th \in Threads, GetEventsRead(th) PROVE SubtractsSetFlags'
  BY <1>9, <1>h, <1>s DEF GetEventsRead, ReadFlags, taskVars, sigVars, TypeOK, SubtractsSetFlags, Bookkeeping, InRun
<1>10. ASSUME NEW th \in Threads, GetEventsSub(th) PROVE SubtractsSetFlags'
  <2>1. PICK t \in Tasks : t = theTask[th] /\ InRun(th)
    BY <1>10, <1>h DEF GetEventsSub, Subtracted, InRun
  <2>2. \A o \in Threads : InRun(o) /\ theTask[o] = t => o = th
    BY <2>1, RunnerIsAlone
  <2>3. ASSUME NEW o \in Threads, pc'[o] = "sub" PROVE got'[o] \subseteq fEvents'[theTask'[o]]
    <3>1. o # th /\ pc[o] = "sub" /\ got'[o] = got[o] /\ theTask'[o] = theTask[o]
      BY <1>10, <2>3 DEF GetEventsSub, Subtracted, TypeOK
    <3>2. theTask[o] \in Tasks /\ theTask[o] # t
      BY <1>h, <2>2, <3>1 DEF InRun
    <3>3. fEvents'[theTask[o]] = fEvents[theTask[o]]
      BY <1>10, <2>1, <3>2 DEF GetEventsSub, Subtracted, TypeOK
    <3> QED
      BY <3>1, <3>3 DEF SubtractsSetFlags
  <2> QED
    BY <2>3 DEF SubtractsSetFlags
<1>11. ASSUME NEW th \in Threads, Disconnect(th) PROVE SubtractsSetFlags'
  BY <1>11, <1>h, <1>s DEF Disconnect, taskVars, threadVars, Actors, TypeOK, SubtractsSetFlags, Bookkeeping, InRun
<1>12. ASSUME NEW th \in Threads, ForceSameThread(th) PROVE SubtractsSetFlags'
  BY <1>12, <1>h, <1>s DEF ForceSameThread, threadVars, sigVars, TypeOK, SubtractsSetFlags, Bookkeeping, InRun
<1>13. ASSUME NEW th \in Threads, RunReturnsDelete(th) PROVE SubtractsSetFlags'
  BY <1>13, <1>h, <1>s DEF RunReturnsDelete, sigVars, TypeOK, SubtractsSetFlags, Bookkeeping, InRun
<1>14a. ASSUME NEW th \in Threads, RunEnds(th) PROVE SubtractsSetFlags'
  BY <1>14a, <1>h, <1>s DEF RunEnds, NothingPending, sigVars, TypeOK, SubtractsSetFlags, Bookkeeping, InRun
<1>14b. ASSUME NEW th \in Threads, RunAgain(th) PROVE SubtractsSetFlags'
  BY <1>14b, <1>h, <1>s DEF RunAgain, NothingPending, EnterRun, sigVars, TypeOK, SubtractsSetFlags, Bookkeeping, InRun
<1>15. ASSUME NEW th \in Threads, RunReturnsTimeout(th) PROVE SubtractsSetFlags'
  BY <1>15, <1>h, <1>s DEF RunReturnsTimeout, taskVars, sigVars, TypeOK, SubtractsSetFlags, Bookkeeping, InRun
<1>16. ASSUME NEW th \in Threads, ParkIdle(th) PROVE SubtractsSetFlags'
  BY <1>16, <1>h, <1>s DEF ParkIdle, sigVars, TypeOK, SubtractsSetFlags, Bookkeeping, InRun
<1>17. ASSUME NEW th \in Threads, DeleteTask(th) PROVE SubtractsSetFlags'
  BY <1>17, <1>h, <1>s DEF DeleteTask, Referenced, sigVars, TypeOK, SubtractsSetFlags, Bookkeeping, InRun
<1>18. CASE UNCHANGED vars
  BY <1>18 DEF vars, taskVars, threadVars, sigVars, SubtractsSetFlags, Bookkeeping, InRun
<1> QED
  BY <1>1, <1>2, <1>3, <1>4, <1>5, <1>6, <1>7, <1>8, <1>9, <1>10, <1>11, <1>12, <1>13, <1>14a,
     <1>14b, <1>15, <1>16, <1>17, <1>18
  DEF Next, NewSignal, SignalStep, ThreadStep, RunStep

(* Only live tasks are queued and parked.                                  *)
LEMMA LiveStep == IInv /\ TypeOK' /\ [Next]_vars => OnlyLiveTasksWait'
<1> SUFFICES ASSUME IInv, TypeOK', [Next]_vars PROVE OnlyLiveTasksWait'
  OBVIOUS
<1> USE DEF IInv, ScheduledOnce
<1>h. ASSUME NEW th \in Threads, pc[th] # "wait" PROVE theTask[th] \in Tasks
  BY <1>h DEF TypeOK, Bookkeeping
<1>s. ASSUME NEW a \in Actors, sigPc[a] # "idle" PROVE sigTask[a] \in Tasks
  BY <1>s DEF TypeOK, Bookkeeping
<1>1. ASSUME NEW t \in Tasks, NEW p \in Pickers, CreateTask(t, p) PROVE OnlyLiveTasksWait'
  BY <1>1, <1>h, <1>s DEF CreateTask, threadVars, sigVars, TypeOK, OnlyLiveTasksWait, Bookkeeping, InRun, Valid
<1>2. ASSUME NEW a \in Callers, NEW t \in Tasks, NEW E \in SUBSET Events, Resolve(a, t, E) PROVE OnlyLiveTasksWait'
  BY <1>2, <1>h, <1>s DEF Resolve, threadVars, taskVars, Actors, TypeOK, OnlyLiveTasksWait, Bookkeeping, InRun, Valid
<1>3. ASSUME NEW a \in Actors, SignalCheck(a) PROVE OnlyLiveTasksWait'
  BY <1>3, <1>h, <1>s DEF SignalCheck, threadVars, taskVars, TypeOK, OnlyLiveTasksWait, Bookkeeping, InRun, Valid
<1>4. ASSUME NEW a \in Actors, SignalOr(a) PROVE OnlyLiveTasksWait'
  BY <1>4, <1>h, <1>s DEF SignalOr, MustQueue, threadVars, TypeOK, OnlyLiveTasksWait, Bookkeeping, InRun, Valid
<1>5. ASSUME NEW a \in Actors, SignalEnQueue(a) PROVE OnlyLiveTasksWait'
  <2>1. PICK th \in Threads, t \in Tasks :
          /\ Valid(t)
          /\ t \notin Elems(fTaskQueue[th])
          /\ fTaskQueue' = [fTaskQueue EXCEPT ![th] = Append(fTaskQueue[th], t)]
    BY <1>5, EnQueueAppends
  <2>2. /\ Elems(fTaskQueue'[th]) = Elems(fTaskQueue[th]) \cup {t}
        /\ \A o \in Threads \ {th} : fTaskQueue'[o] = fTaskQueue[o]
    BY <2>1, ElemsOfAppend DEF TypeOK
  <2> QED
    BY <1>5, <2>1, <2>2 DEF SignalEnQueue, Forced, threadVars, taskVars, OnlyLiveTasksWait, Valid
<1>6. ASSUME NEW a \in Actors, Release(a) PROVE OnlyLiveTasksWait'
  BY <1>6, <1>h, <1>s DEF Release, threadVars, taskVars, TypeOK, OnlyLiveTasksWait, Bookkeeping, InRun, Valid
<1>7. ASSUME NEW th \in Threads, WaitForQueue(th) PROVE OnlyLiveTasksWait'
  <2>1. PICK t \in Tasks : t = Head(fTaskQueue[th]) /\ t \in Elems(fTaskQueue[th])
    BY <1>7, ElemsOfTail DEF WaitForQueue, TypeOK
  <2>2. Valid(t)
    BY <2>1 DEF OnlyLiveTasksWait
  <2>3. EnterRun(th, t)
    BY <1>7, <2>1, <2>2 DEF WaitForQueue, TakeTask
  <2>4. /\ Elems(fTaskQueue'[th]) \subseteq Elems(fTaskQueue[th])
        /\ \A o \in Threads \ {th} : fTaskQueue'[o] = fTaskQueue[o]
    BY <1>7, ElemsOfTail DEF WaitForQueue, TypeOK
  <2> QED
    BY <1>7, <2>3, <2>4 DEF WaitForQueue, EnterRun, TypeOK, OnlyLiveTasksWait, Valid
<1>8. ASSUME NEW th \in Threads, NEW t \in Tasks, WaitForTimer(th, t) PROVE OnlyLiveTasksWait'
  BY <1>8, <1>h, <1>s DEF WaitForTimer, TakeTask, EnterRun, sigVars, TypeOK, OnlyLiveTasksWait, Bookkeeping, InRun, Valid
<1>9. ASSUME NEW th \in Threads, GetEventsRead(th) PROVE OnlyLiveTasksWait'
  BY <1>9, <1>h, <1>s DEF GetEventsRead, ReadFlags, taskVars, sigVars, TypeOK, OnlyLiveTasksWait, Bookkeeping, InRun, Valid
<1>10. ASSUME NEW th \in Threads, GetEventsSub(th) PROVE OnlyLiveTasksWait'
  BY <1>10, <1>h, <1>s DEF GetEventsSub, Subtracted, sigVars, TypeOK, OnlyLiveTasksWait, Bookkeeping, InRun, Valid
<1>11. ASSUME NEW th \in Threads, Disconnect(th) PROVE OnlyLiveTasksWait'
  BY <1>11, <1>h, <1>s DEF Disconnect, taskVars, threadVars, Actors, TypeOK, OnlyLiveTasksWait, Bookkeeping, InRun, Valid
<1>12. ASSUME NEW th \in Threads, ForceSameThread(th) PROVE OnlyLiveTasksWait'
  BY <1>12, <1>h, <1>s DEF ForceSameThread, threadVars, sigVars, TypeOK, OnlyLiveTasksWait, Bookkeeping, InRun, Valid
<1>13. ASSUME NEW th \in Threads, RunReturnsDelete(th) PROVE OnlyLiveTasksWait'
  <2>1. PICK t \in Tasks : t = theTask[th] /\ InRun(th)
    BY <1>13, <1>h DEF RunReturnsDelete, InRun
  <2>2. \A o \in Threads : t \notin Elems(fTaskQueue[o]) /\ t \notin fHeap[o]
    BY <2>1, RunnerIsAlone
  <2>3. \A s \in Tasks : s # t => fTaskName'[s] = fTaskName[s]
    BY <1>13, <2>1 DEF RunReturnsDelete, TypeOK
  <2>4. \A o \in Threads : Elems(fTaskQueue[o]) \subseteq Tasks /\ fHeap[o] \subseteq Tasks
    BY DEF TypeOK, Elems
  <2> QED
    BY <1>13, <2>2, <2>3, <2>4 DEF RunReturnsDelete, TypeOK, OnlyLiveTasksWait, Valid
<1>14a. ASSUME NEW th \in Threads, RunEnds(th) PROVE OnlyLiveTasksWait'
  BY <1>14a, <1>h, <1>s DEF RunEnds, NothingPending, sigVars, TypeOK, OnlyLiveTasksWait, Bookkeeping, InRun, Valid
<1>14b. ASSUME NEW th \in Threads, RunAgain(th) PROVE OnlyLiveTasksWait'
  BY <1>14b, <1>h, <1>s DEF RunAgain, NothingPending, EnterRun, sigVars, TypeOK, OnlyLiveTasksWait, Bookkeeping, InRun, Valid
<1>15. ASSUME NEW th \in Threads, RunReturnsTimeout(th) PROVE OnlyLiveTasksWait'
  BY <1>15, <1>h, <1>s DEF RunReturnsTimeout, taskVars, sigVars, TypeOK, OnlyLiveTasksWait, Bookkeeping, InRun, Valid
<1>16. ASSUME NEW th \in Threads, ParkIdle(th) PROVE OnlyLiveTasksWait'
  BY <1>16, <1>h, <1>s DEF ParkIdle, sigVars, TypeOK, OnlyLiveTasksWait, Bookkeeping, InRun, Valid
<1>17. ASSUME NEW th \in Threads, DeleteTask(th) PROVE OnlyLiveTasksWait'
  BY <1>17, <1>h, <1>s DEF DeleteTask, Referenced, sigVars, TypeOK, OnlyLiveTasksWait, Bookkeeping, InRun, Valid
<1>18. CASE UNCHANGED vars
  BY <1>18 DEF vars, taskVars, threadVars, sigVars, OnlyLiveTasksWait, Bookkeeping, InRun, Valid
<1> QED
  BY <1>1, <1>2, <1>3, <1>4, <1>5, <1>6, <1>7, <1>8, <1>9, <1>10, <1>11, <1>12, <1>13, <1>14a,
     <1>14b, <1>15, <1>16, <1>17, <1>18
  DEF Next, NewSignal, SignalStep, ThreadStep, RunStep

(* The counters stay in step with the tasks.                               *)
LEMMA BookStep == IInv /\ TypeOK' /\ [Next]_vars => Bookkeeping'
<1> SUFFICES ASSUME IInv, TypeOK', [Next]_vars PROVE Bookkeeping'
  OBVIOUS
<1> USE DEF IInv, ScheduledOnce
<1>h. ASSUME NEW th \in Threads, pc[th] # "wait" PROVE theTask[th] \in Tasks
  BY <1>h DEF TypeOK, Bookkeeping
<1>s. ASSUME NEW a \in Actors, sigPc[a] # "idle" PROVE sigTask[a] \in Tasks
  BY <1>s DEF TypeOK, Bookkeeping
<1>1. ASSUME NEW t \in Tasks, NEW p \in Pickers, CreateTask(t, p) PROVE Bookkeeping'
  <2>1. fTaskName[t] = "none" /\ \A s \in Tasks : s # t => fTaskName'[s] = fTaskName[s]
    BY <1>1 DEF CreateTask, TypeOK
  <2>2. \A th \in Threads : InRun(th) => theTask[th] # t
    BY <2>1 DEF NoUseAfterDelete
  <2>3. fTaskName'[t] = "live_" /\ \A s \in Tasks : s # t => fEvents'[s] = fEvents[s]
    BY <1>1 DEF CreateTask, TypeOK
  <2> QED
    BY <1>1, <1>h, <2>1, <2>2, <2>3
    DEF CreateTask, threadVars, sigVars, TypeOK, Bookkeeping, InRun, Valid
<1>2. ASSUME NEW a \in Callers, NEW t \in Tasks, NEW E \in SUBSET Events, Resolve(a, t, E) PROVE Bookkeeping'
  BY <1>2, NamesAssumption
  DEF Resolve, threadVars, taskVars, Actors, TypeOK, Bookkeeping, InRun, Valid
<1>3. ASSUME NEW a \in Actors, SignalCheck(a) PROVE Bookkeeping'
  BY <1>3, <1>h, <1>s DEF SignalCheck, threadVars, taskVars, TypeOK, Bookkeeping, InRun, Valid
<1>4. ASSUME NEW a \in Actors, SignalOr(a) PROVE Bookkeeping'
  <2>1. PICK t \in Tasks : t = sigTask[a] /\ fTaskName[t] # "none"
    BY <1>4, <1>s DEF SignalOr, MustQueue, NoUseAfterDelete
  <2>2. \A s \in Tasks : s # t => fEvents'[s] = fEvents[s]
    BY <1>4, <2>1 DEF SignalOr, MustQueue, TypeOK
  <2> QED
    BY <1>4, <2>1, <2>2 DEF SignalOr, MustQueue, threadVars, TypeOK, Bookkeeping, InRun, Valid
<1>5. ASSUME NEW a \in Actors, SignalEnQueue(a) PROVE Bookkeeping'
  BY <1>5, <1>h, <1>s DEF SignalEnQueue, Forced, threadVars, taskVars, TypeOK, Bookkeeping, InRun, Valid
<1>6. ASSUME NEW a \in Actors, Release(a) PROVE Bookkeeping'
  BY <1>6, <1>h, <1>s DEF Release, threadVars, taskVars, TypeOK, Bookkeeping, InRun, Valid
<1>7. ASSUME NEW th \in Threads, WaitForQueue(th) PROVE Bookkeeping'
  <2>1. PICK t \in Tasks : t = Head(fTaskQueue[th]) /\ t \in Elems(fTaskQueue[th])
    BY <1>7, ElemsOfTail DEF WaitForQueue, TypeOK
  <2>2. Valid(t)
    BY <2>1 DEF OnlyLiveTasksWait
  <2>3. EnterRun(th, t)
    BY <1>7, <2>1, <2>2 DEF WaitForQueue, TakeTask
  <2> QED
    BY <1>7, <2>2, <2>3, NamesAssumption
    DEF WaitForQueue, EnterRun, sigVars, TypeOK, Bookkeeping, InRun, Valid
<1>8. ASSUME NEW th \in Threads, NEW t \in Tasks, WaitForTimer(th, t) PROVE Bookkeeping'
  <2>2. Valid(t)
    BY <1>8 DEF WaitForTimer, OnlyLiveTasksWait
  <2>3. EnterRun(th, t)
    BY <1>8, <2>2 DEF WaitForTimer, TakeTask
  <2> QED
    BY <1>8, <2>2, <2>3, NamesAssumption
    DEF WaitForTimer, EnterRun, sigVars, TypeOK, Bookkeeping, InRun, Valid
<1>9. ASSUME NEW th \in Threads, GetEventsRead(th) PROVE Bookkeeping'
  BY <1>9, <1>h, <1>s DEF GetEventsRead, ReadFlags, taskVars, sigVars, TypeOK, Bookkeeping, InRun, Valid
<1>10. ASSUME NEW th \in Threads, GetEventsSub(th) PROVE Bookkeeping'
  BY <1>10, <1>h, <1>s DEF GetEventsSub, Subtracted, sigVars, TypeOK, Bookkeeping, InRun, Valid
<1>11. ASSUME NEW th \in Threads, Disconnect(th) PROVE Bookkeeping'
  BY <1>11, <1>h, <1>s DEF Disconnect, taskVars, threadVars, Actors, TypeOK, Bookkeeping, InRun, Valid
<1>12. ASSUME NEW th \in Threads, ForceSameThread(th) PROVE Bookkeeping'
  BY <1>12, <1>h, <1>s DEF ForceSameThread, threadVars, sigVars, TypeOK, Bookkeeping, InRun, Valid
<1>13. ASSUME NEW th \in Threads, RunReturnsDelete(th) PROVE Bookkeeping'
  <2>1. PICK t \in Tasks : t = theTask[th] /\ InRun(th) /\ pc[th] = "handle"
    BY <1>13, <1>h DEF RunReturnsDelete, InRun
  <2>2. \A o \in Threads : InRun(o) /\ theTask[o] = t => o = th
    BY <2>1, RunnerIsAlone
  <2>3. /\ fTaskName'[t] = "Dead"
        /\ \A s \in Tasks : s # t => fTaskName'[s] = fTaskName[s]
        /\ pc'[th] = "delete"
        /\ \A o \in Threads \ {th} : pc'[o] = pc[o]
        /\ UNCHANGED <<theTask, fEvents, fHeap, got, sigPc, sigTask>>
        /\ sigPc[th] = "idle"
    BY <1>13, <2>1 DEF RunReturnsDelete, TypeOK, sigVars
  <2>4. \A o \in Threads : InRun(o)' <=> InRun(o)
    BY <2>1, <2>3 DEF InRun
  <2> QED
    BY <1>h, <2>1, <2>2, <2>3, <2>4 DEF Bookkeeping, Valid, InRun
<1>14a. ASSUME NEW th \in Threads, RunEnds(th) PROVE Bookkeeping'
  BY <1>14a, <1>h, <1>s DEF RunEnds, NothingPending, sigVars, TypeOK, Bookkeeping, InRun, Valid
<1>14b. ASSUME NEW th \in Threads, RunAgain(th) PROVE Bookkeeping'
  BY <1>14b, <1>h, <1>s DEF RunAgain, NothingPending, EnterRun, sigVars, TypeOK, Bookkeeping, InRun, Valid
<1>15. ASSUME NEW th \in Threads, RunReturnsTimeout(th) PROVE Bookkeeping'
  BY <1>15, <1>h, <1>s DEF RunReturnsTimeout, taskVars, sigVars, TypeOK, Bookkeeping, InRun, Valid
<1>16. ASSUME NEW th \in Threads, ParkIdle(th) PROVE Bookkeeping'
  <2>1. PICK t \in Tasks : t = theTask[th] /\ Valid(t)
    BY <1>16, <1>h DEF ParkIdle, Bookkeeping, OnlyLiveTasksWait
  <2>2. \A s \in Tasks : s # t => fEvents'[s] = fEvents[s]
    BY <1>16, <2>1 DEF ParkIdle, TypeOK
  <2> QED
    BY <1>16, <2>1, <2>2 DEF ParkIdle, sigVars, TypeOK, Bookkeeping, InRun, Valid
<1>17. ASSUME NEW th \in Threads, DeleteTask(th) PROVE Bookkeeping'
  BY <1>17, <1>h, <1>s DEF DeleteTask, Referenced, sigVars, TypeOK, Bookkeeping, InRun, Valid
<1>18. CASE UNCHANGED vars
  BY <1>18 DEF vars, taskVars, threadVars, sigVars, Bookkeeping, InRun, Valid
<1> QED
  BY <1>1, <1>2, <1>3, <1>4, <1>5, <1>6, <1>7, <1>8, <1>9, <1>10, <1>11, <1>12, <1>13, <1>14a,
     <1>14b, <1>15, <1>16, <1>17, <1>18
  DEF Next, NewSignal, SignalStep, ThreadStep, RunStep

(* A queue never holds a task twice.                                       *)
LEMMA QueueStep ==
  IInv /\ TypeOK' /\ [Next]_vars => (\A th \in Threads : NoDuplicates(fTaskQueue[th]))'
<1> SUFFICES ASSUME IInv, TypeOK', [Next]_vars
             PROVE  \A th \in Threads : NoDuplicates(fTaskQueue'[th])
  OBVIOUS
<1> USE DEF IInv, ScheduledOnce
<1>1. ASSUME NEW a \in Actors, SignalEnQueue(a)
      PROVE  \A th \in Threads : NoDuplicates(fTaskQueue'[th])
  <2>1. PICK th \in Threads, t \in Tasks :
          /\ t \notin Elems(fTaskQueue[th])
          /\ fTaskQueue' = [fTaskQueue EXCEPT ![th] = Append(fTaskQueue[th], t)]
    BY <1>1, EnQueueAppends
  <2>2. /\ NoDuplicates(fTaskQueue'[th])
        /\ \A o \in Threads \ {th} : fTaskQueue'[o] = fTaskQueue[o]
    BY <2>1, ElemsOfAppend DEF TypeOK
  <2> QED
    BY <2>2
<1>2. ASSUME NEW th \in Threads, WaitForQueue(th)
      PROVE  \A o \in Threads : NoDuplicates(fTaskQueue'[o])
  <2>1. /\ NoDuplicates(fTaskQueue'[th])
        /\ \A o \in Threads \ {th} : fTaskQueue'[o] = fTaskQueue[o]
    BY <1>2, ElemsOfTail DEF WaitForQueue, TypeOK
  <2> QED
    BY <2>1
<1>3. CASE fTaskQueue' = fTaskQueue
  BY <1>3
<1> QED
  BY <1>1, <1>2, <1>3
  DEF Next, NewSignal, SignalStep, ThreadStep, RunStep, vars, CreateTask, Resolve, Disconnect,
      SignalCheck, SignalOr, Release, WaitForTimer, GetEventsRead, GetEventsSub, ForceSameThread,
      RunReturnsDelete, RunEnds, RunAgain, RunReturnsTimeout, ParkIdle, DeleteTask

-----------------------------------------------------------------------------
(* The inductive invariant holds at the start, ...                         *)
LEMMA InvInit == Init => IInv
<1> SUFFICES ASSUME Init PROVE IInv
  OBVIOUS
<1>1. TypeOK
  BY TypeInit
<1>2. TokenInOnePlace
  BY DEF Init, TokenInOnePlace, Places, Holds, InRun, Elems
<1>3. \A th \in Threads : NoDuplicates(fTaskQueue[th])
  BY DEF Init, NoDuplicates
<1>4. NoEventWithoutToken /\ NoUseAfterDelete /\ SubtractsSetFlags
  BY DEF Init, NoEventWithoutToken, NoUseAfterDelete, SubtractsSetFlags, InRun
<1>5. OnlyLiveTasksWait
  BY DEF Init, OnlyLiveTasksWait, Elems
<1>6. Bookkeeping
  BY DEF Init, Bookkeeping, InRun, Actors
<1> QED
  BY <1>1, <1>2, <1>3, <1>4, <1>5, <1>6 DEF IInv, ScheduledOnce

(* ... and every step keeps it.                                            *)
LEMMA InvStep == IInv /\ [Next]_vars => IInv'
<1> SUFFICES ASSUME IInv, [Next]_vars PROVE IInv'
  OBVIOUS
<1>1. TypeOK'
  BY TypeStep DEF IInv
<1> QED
  BY <1>1, TokenStep, QueueStep, EventStep, ReferenceStep, SubtractStep, LiveStep, BookStep
  DEF IInv, ScheduledOnce

(* In every reachable state the invariant holds: the token of a task is in *)
(* one place, live tasks alone are queued, references keep their objects.  *)
THEOREM Invariance == Spec => []IInv
<1>1. Init => IInv
  BY InvInit
<1>2. IInv /\ [Next]_vars => IInv'
  BY InvStep
<1> QED
  BY <1>1, <1>2, PTL DEF Spec

(* Type correctness of the scheduler's state.                              *)
THEOREM TypeCorrect == Spec => []TypeOK
<1>1. IInv => TypeOK
  BY DEF IInv
<1> QED
  BY <1>1, Invariance, PTL

(* A signalled task is scheduled once: its kAlive bit is set exactly when  *)
(* it is about to be queued, queued, parked or run, in one place only.     *)
THEOREM Scheduling == Spec => []ScheduledOnce
<1>1. IInv => ScheduledOnce
  BY DEF IInv
<1> QED
  BY <1>1, Invariance, PTL

(* "the Run function cannot be re-entered": no two threads run one task.   *)
THEOREM Exclusion == Spec => []RunNotReentered
<1>1. IInv => RunNotReentered
  <2> SUFFICES ASSUME IInv, NEW th1 \in Threads, NEW th2 \in Threads,
                      InRun(th1), InRun(th2), theTask[th1] = theTask[th2]
               PROVE  th1 = th2
    BY DEF RunNotReentered
  <2>1. theTask[th1] \in Tasks
    BY DEF IInv, TypeOK, Bookkeeping, InRun
  <2> QED
    BY <2>1, RunnerIsAlone DEF IInv, ScheduledOnce
<1> QED
  BY <1>1, Invariance, PTL

(* No event is pending on a task without the token that has it run.        *)
THEOREM NoLostToken == Spec => []NoEventWithoutToken
<1>1. IInv => NoEventWithoutToken
  BY DEF IInv
<1> QED
  BY <1>1, Invariance, PTL

(* No Signal and no Run touches a task whose object is gone.               *)
THEOREM References == Spec => []NoUseAfterDelete
<1>1. IInv => NoUseAfterDelete
  BY DEF IInv
<1> QED
  BY <1>1, Invariance, PTL

(* No task thread ever meets a dead task on its queue or its heap.         *)
THEOREM ThreadsStay == Spec => []OnlyLiveTasksWait
<1>1. IInv => OnlyLiveTasksWait
  BY DEF IInv
<1> QED
  BY <1>1, Invariance, PTL

-----------------------------------------------------------------------------
(* A step clears an event only by handing it to a Run or by deleting the   *)
(* task; the invariant is what rules out the other subtractions.           *)
LEMMA EventsStep ==
  IInv /\ [Next]_vars =>
    \A t \in Tasks :
      \/ fTaskName'[t] = "none"
      \/ \A e \in fEvents[t] \ fEvents'[t] :
           \/ e = kAlive
           \/ \E th \in Threads : theTask[th] = t /\ pc'[th] = "handle" /\ e \in got'[th]
<1> SUFFICES ASSUME IInv, [Next]_vars, NEW t \in Tasks, fTaskName'[t] # "none",
                    NEW e \in fEvents[t] \ fEvents'[t], e # kAlive
             PROVE  \E th \in Threads : theTask[th] = t /\ pc'[th] = "handle" /\ e \in got'[th]
  OBVIOUS
<1> USE DEF IInv
<1>1. ASSUME NEW th \in Threads, GetEventsSub(th)
      PROVE  theTask[th] = t /\ pc'[th] = "handle" /\ e \in got'[th]
  BY <1>1 DEF GetEventsSub, Subtracted, TypeOK
<1>2. ASSUME NEW s \in Tasks, NEW p \in Pickers, CreateTask(s, p) PROVE FALSE
  BY <1>2 DEF CreateTask, TypeOK, Bookkeeping
<1>3. ASSUME NEW a \in Actors, SignalOr(a) PROVE FALSE
  BY <1>3 DEF SignalOr, MustQueue, TypeOK
<1>4. ASSUME NEW th \in Threads, RunEnds(th) PROVE FALSE
  BY <1>4 DEF RunEnds, NothingPending, TypeOK
<1>5. ASSUME NEW th \in Threads, ParkIdle(th) PROVE FALSE
  BY <1>5 DEF ParkIdle, TypeOK
<1>6. ASSUME NEW th \in Threads, DeleteTask(th) PROVE FALSE
  BY <1>6 DEF DeleteTask, Referenced, TypeOK
<1>7. CASE fEvents' = fEvents
  BY <1>7
<1> QED
  BY <1>1, <1>2, <1>3, <1>4, <1>5, <1>6, <1>7
  DEF Next, NewSignal, SignalStep, ThreadStep, RunStep, vars, taskVars, Resolve, Disconnect,
      SignalCheck, SignalEnQueue, Release, WaitForQueue, WaitForTimer, GetEventsRead,
      ForceSameThread, RunReturnsDelete, RunAgain, RunReturnsTimeout

(* Every event is handed to a Run of the task it was sent to, or dies with *)
(* that task: no interleaving of Signal calls and Runs drops one.          *)
THEOREM Delivery == Spec => EventsGoToRun
<1>1. Init => IInv
  BY InvInit
<1>2. IInv /\ [Next]_vars => IInv'
  BY InvStep
<1> QED
  BY <1>1, <1>2, EventsStep, PTL DEF Spec, EventsGoToRun

-----------------------------------------------------------------------------
(* The promise of Task.h                                                   *)

Runs(th, t) == InRun(th) /\ theTask[th] = t

(* A task that asked for a thread is nowhere else: on no other queue, on   *)
(* no other heap and in no other thread's Run.                             *)
StaysOnItsThread ==
  \A t \in Tasks, th \in Threads :
    t \in Elems(fTaskQueue[th]) \/ t \in fHeap[th] \/ Runs(th, t)
      => fUseThisThread[t] \in {th, NoThread}

LEMMA StaysInit == Init => StaysOnItsThread
  BY DEF Init, StaysOnItsThread, Runs, InRun, Elems

(* What leaves the queues, the heaps and the threads' tasks as they are,   *)
(* or only takes from them.                                                *)
LEMMA StaysIfNothingNew ==
  ASSUME StaysOnItsThread,
         \A t \in Tasks : fUseThisThread'[t] \in {fUseThisThread[t], NoThread},
         \A t \in Tasks, th \in Threads :
            (t \in Elems(fTaskQueue[th]) \/ t \in fHeap[th] \/ Runs(th, t))'
              => t \in Elems(fTaskQueue[th]) \/ t \in fHeap[th] \/ Runs(th, t)
  PROVE  StaysOnItsThread'
  BY DEF StaysOnItsThread

(* A thread takes the next task of its queue, or one of its heap: the task *)
(* is alive, and its Run begins without a thread asked for.                *)
LEMMA TakenRuns ==
  ASSUME IInv, NEW th \in Threads, NEW t \in Tasks, Valid(t), TakeTask(th, t)
  PROVE  /\ EnterRun(th, t)
         /\ \A s \in Tasks : fUseThisThread'[s] = IF s = t THEN NoThread ELSE fUseThisThread[s]
         /\ \A o \in Threads : o # th => pc'[o] = pc[o] /\ theTask'[o] = theTask[o]
         /\ pc'[th] = "run" /\ theTask'[th] = t
  BY DEF TakeTask, EnterRun, IInv, TypeOK

LEMMA QueueHead ==
  ASSUME IInv, NEW th \in Threads, WaitForQueue(th)
  PROVE  \E t \in Tasks :
           /\ t = Head(fTaskQueue[th]) /\ t \in Elems(fTaskQueue[th]) /\ Valid(t)
           /\ TakeTask(th, t)
           /\ \A o \in Threads : Elems(fTaskQueue'[o]) \subseteq Elems(fTaskQueue[o])
           /\ pc[th] = "wait" /\ fHeap' = fHeap /\ fEvents' = fEvents /\ fTaskName' = fTaskName
<1> DEFINE t == Head(fTaskQueue[th])
<1>1. fTaskQueue[th] \in Seq(Tasks) /\ fTaskQueue[th] # <<>> /\ NoDuplicates(fTaskQueue[th])
  BY DEF WaitForQueue, IInv, TypeOK, ScheduledOnce
<1>2. /\ t \in Tasks /\ t \in Elems(fTaskQueue[th])
      /\ Elems(Tail(fTaskQueue[th])) = Elems(fTaskQueue[th]) \ {t}
  BY <1>1, ElemsOfTail
<1>3. Valid(t)
  BY <1>2 DEF IInv, OnlyLiveTasksWait
<1>4. fTaskQueue' = [fTaskQueue EXCEPT ![th] = Tail(fTaskQueue[th])]
  BY DEF WaitForQueue
<1>5. ASSUME NEW o \in Threads PROVE Elems(fTaskQueue'[o]) \subseteq Elems(fTaskQueue[o])
  BY <1>2, <1>4 DEF IInv, TypeOK
<1>6. TakeTask(th, t)
  BY DEF WaitForQueue
<1> HIDE DEF t
<1>7. pc[th] = "wait" /\ fHeap' = fHeap /\ fEvents' = fEvents /\ fTaskName' = fTaskName
  BY DEF WaitForQueue
<1> QED
  BY <1>2, <1>3, <1>5, <1>6, <1>7 DEF t

LEMMA StaysStep == IInv /\ StaysOnItsThread /\ [Next]_vars => StaysOnItsThread'
<1> SUFFICES ASSUME IInv, StaysOnItsThread, [Next]_vars PROVE StaysOnItsThread'
  OBVIOUS
<1>h. ASSUME NEW th \in Threads, pc[th] # "wait" PROVE theTask[th] \in Tasks
  BY <1>h DEF IInv, TypeOK, Bookkeeping
<1>1. ASSUME NEW t \in Tasks, NEW p \in Pickers, CreateTask(t, p) PROVE StaysOnItsThread'
  <2>1. \A s \in Tasks : fUseThisThread'[s] \in {fUseThisThread[s], NoThread}
    BY <1>1 DEF CreateTask, IInv, TypeOK
  <2> QED
    BY <1>1, <2>1, StaysIfNothingNew DEF CreateTask, threadVars, Runs, InRun
<1>2. ASSUME fUseThisThread' = fUseThisThread, fTaskQueue' = fTaskQueue, fHeap' = fHeap,
             \A t \in Tasks, th \in Threads : Runs(th, t)' => Runs(th, t)
      PROVE  StaysOnItsThread'
  BY <1>2 DEF StaysOnItsThread
<1>3. ASSUME NEW a \in Actors, SignalEnQueue(a) PROVE StaysOnItsThread'
  <2>1. PICK t \in Tasks : t = sigTask[a] /\ sigPc[a] = "enqueue"
    BY <1>3 DEF SignalEnQueue, IInv, TypeOK, Bookkeeping
  <2>2. fUseThisThread' = fUseThisThread /\ fHeap' = fHeap /\ pc' = pc /\ theTask' = theTask
    BY <1>3 DEF SignalEnQueue, taskVars, threadVars
  <2>3. PICK th \in Threads : EnQueue(th, t) /\ fUseThisThread[t] \in {th, NoThread}
    <3>1. CASE fUseThisThread[t] # NoThread
      BY <1>3, <2>1, <3>1 DEF SignalEnQueue, Forced, IInv, TypeOK
    <3>2. CASE fUseThisThread[t] = NoThread
      BY <1>3, <2>1, <3>2, PickThreadType DEF SignalEnQueue, Forced, IInv
    <3> QED
      BY <3>1, <3>2
  <2>4. \A o \in Threads, s \in Tasks :
          s \in Elems(fTaskQueue'[o]) => s \in Elems(fTaskQueue[o]) \/ (o = th /\ s = t)
    <3> SUFFICES ASSUME NEW o \in Threads, NEW s \in Tasks, s \in Elems(fTaskQueue'[o]),
                        ~ (o = th /\ s = t)
                 PROVE  s \in Elems(fTaskQueue[o])
      OBVIOUS
    <3>1. fTaskQueue \in [Threads -> Seq(Tasks)] /\ NoDuplicates(fTaskQueue[th])
      BY DEF IInv, TypeOK, ScheduledOnce
    <3>2. CASE o # th
      BY <2>3, <3>1, <3>2 DEF EnQueue
    <3>3. CASE o = th /\ t \in Elems(fTaskQueue[th])
      BY <2>3, <3>1, <3>3 DEF EnQueue
    <3>4. CASE o = th /\ t \notin Elems(fTaskQueue[th])
      <4>1. fTaskQueue'[o] = Append(fTaskQueue[th], t)
        BY <2>3, <3>1, <3>4 DEF EnQueue
      <4>2. Elems(fTaskQueue'[o]) = Elems(fTaskQueue[th]) \cup {t}
        BY <3>1, <3>4, <4>1, ElemsOfAppend
      <4> QED
        BY <3>4, <4>2
    <3> QED
      BY <3>2, <3>3, <3>4
  <2> QED
    BY <2>2, <2>3, <2>4 DEF StaysOnItsThread, Runs, InRun
<1>4. ASSUME NEW th \in Threads, NEW t \in Tasks, Valid(t), TakeTask(th, t),
             \A o \in Threads : /\ Elems(fTaskQueue'[o]) \subseteq Elems(fTaskQueue[o])
                                /\ fHeap'[o] \subseteq fHeap[o]
      PROVE  StaysOnItsThread'
  <2>1. /\ \A s \in Tasks : fUseThisThread'[s] = IF s = t THEN NoThread ELSE fUseThisThread[s]
        /\ \A o \in Threads : o # th => pc'[o] = pc[o] /\ theTask'[o] = theTask[o]
        /\ pc'[th] = "run" /\ theTask'[th] = t
    BY <1>4, TakenRuns
  <2> SUFFICES ASSUME NEW s \in Tasks, NEW o \in Threads, s # t,
                      (s \in Elems(fTaskQueue[o]) \/ s \in fHeap[o] \/ Runs(o, s))'
               PROVE  fUseThisThread[s] \in {o, NoThread}
    BY <2>1 DEF StaysOnItsThread
  <2>2. Runs(o, s)' => Runs(o, s)
    BY <2>1 DEF Runs, InRun
  <2> QED
    BY <1>4, <2>2 DEF StaysOnItsThread
<1>5. ASSUME NEW th \in Threads, WaitForQueue(th) PROVE StaysOnItsThread'
  BY <1>4, <1>5, QueueHead
<1>6. ASSUME NEW th \in Threads, NEW t \in Tasks, WaitForTimer(th, t) PROVE StaysOnItsThread'
  <2>1. Valid(t) /\ TakeTask(th, t) /\ fTaskQueue' = fTaskQueue
    BY <1>6 DEF WaitForTimer, IInv, OnlyLiveTasksWait
  <2>2. \A o \in Threads : fHeap'[o] \subseteq fHeap[o]
    BY <1>6 DEF WaitForTimer, IInv, TypeOK
  <2> QED
    BY <1>4, <2>1, <2>2
<1>7. ASSUME NEW th \in Threads, ForceSameThread(th) PROVE StaysOnItsThread'
  <2> DEFINE t == theTask[th]
  <2>1. t \in Tasks /\ InRun(th)
    BY <1>7, <1>h DEF ForceSameThread, InRun
  <2>2. \A o \in Threads : /\ InRun(o) /\ theTask[o] = t => o = th
                           /\ t \notin Elems(fTaskQueue[o]) /\ t \notin fHeap[o]
    BY <2>1, RunnerIsAlone DEF IInv, ScheduledOnce
  <2>3. fTaskQueue' = fTaskQueue /\ fHeap' = fHeap /\ pc' = pc /\ theTask' = theTask
    BY <1>7 DEF ForceSameThread, threadVars
  <2>4. \A s \in Tasks : fUseThisThread'[s] = IF s = t THEN th ELSE fUseThisThread[s]
    BY <1>7 DEF ForceSameThread, IInv, TypeOK
  <2> HIDE DEF t
  <2> QED
    BY <2>2, <2>3, <2>4 DEF StaysOnItsThread, Runs, InRun
<1>8. ASSUME NEW th \in Threads, RunReturnsTimeout(th) PROVE StaysOnItsThread'
  <2> DEFINE t == theTask[th]
  <2>1. t \in Tasks /\ Runs(th, t)
    BY <1>8, <1>h DEF RunReturnsTimeout, Runs, InRun
  <2>2. fTaskQueue' = fTaskQueue /\ fUseThisThread' = fUseThisThread /\ theTask' = theTask
    BY <1>8 DEF RunReturnsTimeout, taskVars
  <2>3. \A o \in Threads : fHeap'[o] = IF o = th THEN fHeap[th] \cup {t} ELSE fHeap[o]
    BY <1>8 DEF RunReturnsTimeout, IInv, TypeOK
  <2>4. \A o \in Threads : InRun(o)' => InRun(o)
    BY <1>8 DEF RunReturnsTimeout, InRun, IInv, TypeOK
  <2> HIDE DEF t
  <2> QED
    BY <2>1, <2>2, <2>3, <2>4 DEF StaysOnItsThread, Runs
<1>9. ASSUME NEW th \in Threads, RunAgain(th) PROVE StaysOnItsThread'
  <2>1. \A s \in Tasks : fUseThisThread'[s] \in {fUseThisThread[s], NoThread}
    BY <1>9 DEF RunAgain, EnterRun, IInv, TypeOK
  <2>2. \A o \in Threads : theTask'[o] = theTask[o] /\ (InRun(o)' => InRun(o))
    BY <1>9 DEF RunAgain, EnterRun, InRun, IInv, TypeOK
  <2>3. fTaskQueue' = fTaskQueue /\ fHeap' = fHeap
    BY <1>9 DEF RunAgain
  <2> QED
    BY <2>1, <2>2, <2>3, StaysIfNothingNew DEF Runs
<1>10. ASSUME NEW th \in Threads, DeleteTask(th) PROVE StaysOnItsThread'
  <2>1. \A s \in Tasks : fUseThisThread'[s] \in {fUseThisThread[s], NoThread}
    BY <1>10 DEF DeleteTask, IInv, TypeOK
  <2>2. \A o \in Threads, s \in Tasks : Runs(o, s)' => Runs(o, s)
    BY <1>10, NamesAssumption DEF DeleteTask, Runs, InRun, IInv, TypeOK
  <2>3. fTaskQueue' = fTaskQueue /\ fHeap' = fHeap
    BY <1>10 DEF DeleteTask
  <2> QED
    BY <2>1, <2>2, <2>3, StaysIfNothingNew
<1>11. ASSUME NEW th \in Threads,
              \/ GetEventsRead(th) \/ GetEventsSub(th) \/ Disconnect(th)
              \/ RunReturnsDelete(th) \/ RunEnds(th) \/ ParkIdle(th)
       PROVE  StaysOnItsThread'
  <2>1. fUseThisThread' = fUseThisThread /\ fTaskQueue' = fTaskQueue /\ fHeap' = fHeap
    BY <1>11 DEF GetEventsRead, GetEventsSub, Disconnect, RunReturnsDelete, RunEnds, ParkIdle,
                 taskVars
  <2>2. \A o \in Threads, s \in Tasks : Runs(o, s)' => Runs(o, s)
    BY <1>11, NamesAssumption
    DEF GetEventsRead, GetEventsSub, Disconnect, RunReturnsDelete, RunEnds, ParkIdle,
        threadVars, Runs, InRun, IInv, TypeOK
  <2> QED
    BY <1>2, <2>1, <2>2
<1>12. ASSUME UNCHANGED <<fUseThisThread, fTaskQueue, fHeap, threadVars>> PROVE StaysOnItsThread'
  BY <1>2, <1>12 DEF threadVars, Runs, InRun
<1> QED
  BY <1>1, <1>3, <1>5, <1>6, <1>7, <1>8, <1>9, <1>10, <1>11, <1>12
  DEF Next, NewSignal, SignalStep, ThreadStep, RunStep, Resolve, SignalCheck, SignalOr, Release,
      vars, taskVars

(* A Run begins on the thread the task asked for, if it asked for one.     *)
LEMMA RunBegins ==
  IInv /\ StaysOnItsThread /\ [Next]_vars =>
    \A t \in Tasks, th \in Threads :
      ~ Runs(th, t) /\ Runs(th, t)' => fUseThisThread[t] \in {th, NoThread}
<1> SUFFICES ASSUME IInv, StaysOnItsThread, [Next]_vars, NEW t \in Tasks, NEW th \in Threads,
                    ~ Runs(th, t), Runs(th, t)'
             PROVE  fUseThisThread[t] \in {th, NoThread}
  OBVIOUS
<1>1. ASSUME NEW o \in Threads, NEW s \in Tasks, Valid(s), TakeTask(o, s) PROVE th = o /\ t = s
  BY <1>1, TakenRuns DEF Runs, InRun
<1>2. ASSUME NEW o \in Threads, WaitForQueue(o) PROVE fUseThisThread[t] \in {th, NoThread}
  BY <1>1, <1>2, QueueHead DEF StaysOnItsThread
<1>3. ASSUME NEW o \in Threads, NEW s \in Tasks, WaitForTimer(o, s)
      PROVE  fUseThisThread[t] \in {th, NoThread}
  BY <1>1, <1>3 DEF StaysOnItsThread, WaitForTimer, IInv, OnlyLiveTasksWait
<1>4. ASSUME NEW o \in Threads,
             \/ RunStep(o) \/ ParkIdle(o) \/ DeleteTask(o)
      PROVE  FALSE
  BY <1>4, NamesAssumption
  DEF RunStep, GetEventsRead, GetEventsSub, Disconnect, ForceSameThread, RunReturnsDelete,
      RunReturnsTimeout, RunEnds, RunAgain, EnterRun, ParkIdle, DeleteTask, threadVars,
      Runs, InRun, IInv, TypeOK
<1>5. CASE UNCHANGED threadVars
  BY <1>5 DEF threadVars, Runs, InRun
<1> QED
  BY <1>2, <1>3, <1>4, <1>5
  DEF Next, NewSignal, SignalStep, ThreadStep, Resolve, SignalCheck, SignalOr, SignalEnQueue,
      Release, CreateTask, vars

(* ForceSameThread: "the task ensures that the same task thread will be    *)
(* used for the next call to Run()".                                       *)
THEOREM PinsAreKept == Spec => PinnedRunsThere
<1>1. Init => IInv /\ StaysOnItsThread
  BY InvInit, StaysInit
<1>2. IInv /\ StaysOnItsThread /\ [Next]_vars => (IInv /\ StaysOnItsThread)'
  BY InvStep, StaysStep
<1>3. IInv /\ StaysOnItsThread /\ [Next]_vars =>
        [\A t \in Tasks, th \in Threads :
           ~(InRun(th) /\ theTask[th] = t) /\ (InRun(th) /\ theTask[th] = t)'
             => fUseThisThread[t] \in {th, NoThread}]_vars
  BY RunBegins DEF Runs
<1> QED
  BY <1>1, <1>2, <1>3, PTL DEF Spec, PinnedRunsThere

-----------------------------------------------------------------------------
(* The refinement: what a step of the scheduler is to the task it is about.*)

Phases   == [t \in Tasks |-> PhaseOf(t)]
Pendings == [t \in Tasks |-> fEvents[t] \ {kAlive}]

(* The phase of a task, read off the places its token can be in.           *)
LEMMA PhaseByPlace ==
  ASSUME IInv, NEW t \in Tasks
  PROVE  /\ PhaseOf(t) = "none" <=> fTaskName[t] = "none"
         /\ PhaseOf(t) = "deleted" <=> fTaskName[t] = "Dead"
         /\ Valid(t) /\ (\E th \in Threads : Runs(th, t)) => PhaseOf(t) = "running"
         /\ Valid(t) /\ (\A th \in Threads : ~ Runs(th, t)) /\ kAlive \in fEvents[t]
              => PhaseOf(t) = "scheduled"
         /\ Valid(t) /\ kAlive \notin fEvents[t] /\ (\A th \in Threads : ~ Runs(th, t))
              => PhaseOf(t) = "rest"
  BY DEF PhaseOf, Runs, Valid

LEMMA PhaseStays ==
  ASSUME NEW t \in Tasks, fTaskName'[t] = fTaskName[t],
         kAlive \in fEvents'[t] <=> kAlive \in fEvents[t],
         \A th \in Threads : Runs(th, t)' <=> Runs(th, t)
  PROVE  PhaseOf(t)' = PhaseOf(t)
<1>1. (\E th \in Threads : InRun(th) /\ theTask[th] = t)'
        <=> \E th \in Threads : InRun(th) /\ theTask[th] = t
  BY DEF Runs
<1> QED
  BY <1>1 DEF PhaseOf

(* A step about one task leaves the phases and the events of the others.   *)
LEMMA AboutOneTask ==
  ASSUME NEW t \in Tasks,
         \A s \in Tasks : s # t => fTaskName'[s] = fTaskName[s] /\ fEvents'[s] = fEvents[s],
         \A s \in Tasks, th \in Threads : s # t => (Runs(th, s)' <=> Runs(th, s))
  PROVE  /\ Phases' = [Phases EXCEPT ![t] = PhaseOf(t)']
         /\ Pendings' = [Pendings EXCEPT ![t] = fEvents'[t] \ {kAlive}]
<1>1. \A s \in Tasks : s # t => PhaseOf(s)' = PhaseOf(s)
  BY PhaseStays
<1>2. Phases' = [s \in Tasks |-> PhaseOf(s)']
  BY DEF Phases
<1>3. Pendings' = [s \in Tasks |-> fEvents'[s] \ {kAlive}]
  BY DEF Pendings
<1>4. Phases' = [Phases EXCEPT ![t] = PhaseOf(t)']
  BY <1>1, <1>2 DEF Phases
<1>5. Pendings' = [Pendings EXCEPT ![t] = fEvents'[t] \ {kAlive}]
  BY <1>3 DEF Pendings
<1> QED
  BY <1>4, <1>5

(* ... and its own if its name, its token and its events stay.             *)
LEMMA AboutNoTask ==
  ASSUME fTaskName' = fTaskName, fEvents' = fEvents,
         \A t \in Tasks, th \in Threads : Runs(th, t)' <=> Runs(th, t)
  PROVE  UNCHANGED <<Phases, Pendings>>
<1>1. \A t \in Tasks : PhaseOf(t)' = PhaseOf(t)
  BY PhaseStays
<1> QED
  BY <1>1 DEF Phases, Pendings

(* A task that waits on a heap or on a queue is scheduled.                 *)
LEMMA WaitingIsScheduled ==
  ASSUME IInv, NEW t \in Tasks, NEW th \in Threads, t \in Elems(fTaskQueue[th]) \/ t \in fHeap[th]
  PROVE  PhaseOf(t) = "scheduled" /\ Valid(t) /\ \A o \in Threads : ~ Runs(o, t)
<1>1. Valid(t)
  BY DEF IInv, OnlyLiveTasksWait
<1>2. \E p \in {<<"queue", th>>, <<"heap", th>>} : p \in Places /\ Holds(p, t)
  BY PlaceByPlace
<1>3. PICK p \in {<<"queue", th>>, <<"heap", th>>} : p \in Places /\ Holds(p, t)
  BY <1>2
<1>4. kAlive \in fEvents[t] /\ \A q \in Places : Holds(q, t) <=> q = p
  BY <1>3, HolderIsAlone DEF IInv, ScheduledOnce
<1>5. ASSUME NEW o \in Threads PROVE ~ Runs(o, t)
  <2>1. <<"run", o>> \in Places /\ <<"run", o>> # <<"queue", th>> /\ <<"run", o>> # <<"heap", th>>
    BY PlaceByPlace
  <2>2. ~ Holds(<<"run", o>>, t)
    BY <1>3, <1>4, <2>1
  <2> QED
    BY <2>2, PlaceByPlace DEF Runs
<1> QED
  BY <1>1, <1>4, <1>5, PhaseByPlace

(* A task held by a thread in its Run is running, by this thread alone,    *)
(* until the Run returns -1.                                               *)
LEMMA HeldIsRunning ==
  ASSUME IInv, NEW th \in Threads, pc[th] \in {"run", "sub", "handle"}
  PROVE  /\ theTask[th] \in Tasks /\ Valid(theTask[th]) /\ kAlive \in fEvents[theTask[th]]
         /\ PhaseOf(theTask[th]) = "running"
         /\ \A o \in Threads : Runs(o, theTask[th]) <=> o = th
<1> DEFINE t == theTask[th]
<1>1. t \in Tasks /\ InRun(th) /\ Valid(t)
  BY DEF IInv, TypeOK, Bookkeeping, InRun
<1>2. Runs(th, t)
  BY <1>1 DEF Runs
<1>3. /\ kAlive \in fEvents[t]
      /\ \A o \in Threads : InRun(o) /\ theTask[o] = t => o = th
  BY <1>1, RunnerIsAlone DEF IInv, ScheduledOnce
<1>4. \A o \in Threads : Runs(o, t) <=> o = th
  BY <1>2, <1>3 DEF Runs
<1>5. PhaseOf(t) = "running"
  BY <1>1, <1>2, PhaseByPlace
<1> QED
  BY <1>1, <1>3, <1>4, <1>5

LEMMA TaskBegins ==
  ASSUME IInv, IInv', NEW th \in Threads, NEW t \in Tasks, Valid(t), TakeTask(th, t),
         pc[th] = "wait", fTaskName' = fTaskName, fEvents' = fEvents, PhaseOf(t) = "scheduled"
  PROVE  Promise!Begin(t)
<1>1. /\ \A o \in Threads : o # th => pc'[o] = pc[o] /\ theTask'[o] = theTask[o]
      /\ pc'[th] = "run" /\ theTask'[th] = t
  BY TakenRuns
<1>2. \A s \in Tasks, o \in Threads : s # t => (Runs(o, s)' <=> Runs(o, s))
  BY <1>1 DEF Runs, InRun
<1>3. /\ Phases' = [Phases EXCEPT ![t] = PhaseOf(t)']
      /\ Pendings' = [Pendings EXCEPT ![t] = fEvents'[t] \ {kAlive}]
  BY <1>2, AboutOneTask
<1>4. PhaseOf(t)' = "running"
  <2>1. InRun(th)' /\ (theTask[th] = t)'
    BY <1>1 DEF InRun
  <2>2. fTaskName'[t] = "live_"
    BY DEF Valid
  <2> QED
    BY <2>1, <2>2 DEF PhaseOf
<1>5. Pendings' = Pendings
  BY <1>3 DEF Pendings
<1>6. Phases[t] = "scheduled"
  BY DEF Phases
<1> QED
  BY <1>3, <1>4, <1>5, <1>6 DEF Promise!Begin, Phases, Pendings

(* Every step of the scheduler is a step of TaskPromise or changes nothing *)
(* of what it promises.                                                    *)
LEMMA PromiseStep == IInv /\ IInv' /\ [Next]_vars => [Promise!Next]_(Promise!promiseVars)
<1> SUFFICES ASSUME IInv, IInv', [Next]_vars PROVE [Promise!Next]_(Promise!promiseVars)
  OBVIOUS
<1>0. ASSUME UNCHANGED <<Phases, Pendings>> PROVE UNCHANGED Promise!promiseVars
  BY <1>0 DEF Promise!promiseVars, Phases, Pendings
<1>s. ASSUME NEW a \in Actors, sigPc[a] # "idle" PROVE sigTask[a] \in Tasks
  BY <1>s DEF IInv, TypeOK, Bookkeeping
<1>1. ASSUME NEW t \in Tasks, NEW p \in Pickers, CreateTask(t, p) PROVE Promise!Create(t)
  <2>1. /\ fTaskName[t] = "none" /\ fTaskName'[t] = "live_" /\ fEvents' = fEvents
        /\ \A s \in Tasks : s # t => fTaskName'[s] = fTaskName[s]
    BY <1>1 DEF CreateTask, IInv, TypeOK, Bookkeeping
  <2>2. \A th \in Threads, s \in Tasks : Runs(th, s)' <=> Runs(th, s)
    BY <1>1 DEF CreateTask, threadVars, Runs, InRun
  <2>3. fEvents[t] = {}
    BY <2>1 DEF IInv, Bookkeeping
  <2>4. \A th \in Threads : ~ Runs(th, t)
    BY <2>1 DEF Runs, IInv, NoUseAfterDelete
  <2>5. PhaseOf(t) = "none"
    BY <2>1 DEF PhaseOf
  <2>6. PhaseOf(t)' = "rest"
    <3>1. ~ (\E th \in Threads : InRun(th) /\ theTask[th] = t)'
      BY <2>2, <2>4 DEF Runs
    <3> QED
      BY <2>1, <2>3, <3>1 DEF PhaseOf
  <2>7. Phases' = [Phases EXCEPT ![t] = "rest"]
    BY <2>1, <2>2, <2>6, AboutOneTask
  <2>8. Pendings' = Pendings
    BY <2>1 DEF Pendings
  <2> QED
    BY <2>5, <2>7, <2>8 DEF Promise!Create, Phases, Pendings
<1>2. ASSUME NEW a \in Actors, SignalOr(a)
      PROVE  \E t \in Tasks, E \in SUBSET Events : Promise!Signal(t, E)
  <2>1. PICK t \in Tasks, E \in SUBSET Events : t = sigTask[a] /\ E = sigEvents[a]
    BY <1>2, <1>s DEF SignalOr, IInv, TypeOK
  <2>2. /\ fTaskName' = fTaskName /\ fTaskName[t] # "none"
        /\ \A s \in Tasks : fEvents'[s] = IF s = t THEN fEvents[t] \cup E \cup {kAlive}
                                          ELSE fEvents[s]
    BY <1>2, <2>1 DEF SignalOr, IInv, TypeOK, NoUseAfterDelete
  <2>3. \A th \in Threads, s \in Tasks : Runs(th, s)' <=> Runs(th, s)
    BY <1>2 DEF SignalOr, threadVars, Runs, InRun
  <2>4. /\ Phases' = [Phases EXCEPT ![t] = PhaseOf(t)']
        /\ Pendings' = [Pendings EXCEPT ![t] = fEvents'[t] \ {kAlive}]
    BY <2>2, <2>3, AboutOneTask
  <2>5. /\ PhaseOf(t) # "none"
        /\ PhaseOf(t)' = IF PhaseOf(t) = "rest" THEN "scheduled" ELSE PhaseOf(t)
    <3>1. (\E th \in Threads : InRun(th) /\ theTask[th] = t)'
            <=> \E th \in Threads : InRun(th) /\ theTask[th] = t
      BY <2>3 DEF Runs
    <3> QED
      BY <2>2, <3>1 DEF PhaseOf
  <2>6. fEvents'[t] \ {kAlive} = (fEvents[t] \ {kAlive}) \cup E
    BY <2>1, <2>2, FlagsAssumption
  <2>7. Promise!Signal(t, E)
    BY <2>4, <2>5, <2>6 DEF Promise!Signal, Phases, Pendings
  <2> QED
    BY <2>7
<1>3. ASSUME NEW th \in Threads, WaitForQueue(th) PROVE \E t \in Tasks : Promise!Begin(t)
  BY <1>3, QueueHead, WaitingIsScheduled, TaskBegins
<1>4. ASSUME NEW th \in Threads, NEW t \in Tasks, WaitForTimer(th, t) PROVE Promise!Begin(t)
  <2>1. /\ pc[th] = "wait" /\ fTaskName' = fTaskName /\ fEvents' = fEvents
        /\ TakeTask(th, t) /\ t \in fHeap[th]
    BY <1>4 DEF WaitForTimer
  <2> QED
    BY <2>1, WaitingIsScheduled, TaskBegins
<1>5. ASSUME NEW th \in Threads, GetEventsSub(th)
      PROVE  \E t \in Tasks, E \in SUBSET (Events \cup {kIdleEvent}) : Promise!GetEvents(t, E)
  <2>0. /\ pc[th] = "sub" /\ theTask[th] \in Tasks
        /\ kAlive \notin got[th] /\ got[th] \in SUBSET (Events \cup {kIdleEvent})
    BY <1>5, HeldIsRunning DEF GetEventsSub, IInv, TypeOK, Bookkeeping, Flags
  <2>1. PICK t \in Tasks, E \in SUBSET (Events \cup {kIdleEvent}) :
          t = theTask[th] /\ E = got[th] /\ pc[th] = "sub" /\ kAlive \notin E
    BY <2>0
  <2>2. PhaseOf(t) = "running"
    BY <2>1, HeldIsRunning
  <2>3. E \subseteq fEvents[t]
    BY <2>1 DEF IInv, SubtractsSetFlags
  <2>4. /\ fTaskName' = fTaskName
        /\ \A s \in Tasks : fEvents'[s] = IF s = t THEN fEvents[t] \ E ELSE fEvents[s]
    BY <1>5, <2>1 DEF GetEventsSub, Subtracted, IInv, TypeOK
  <2>5. \A o \in Threads, s \in Tasks : Runs(o, s)' <=> Runs(o, s)
    BY <1>5 DEF GetEventsSub, Runs, InRun, IInv, TypeOK
  <2>6. /\ Phases' = [Phases EXCEPT ![t] = PhaseOf(t)']
        /\ Pendings' = [Pendings EXCEPT ![t] = fEvents'[t] \ {kAlive}]
    BY <2>4, <2>5, AboutOneTask
  <2>7. kAlive \in fEvents'[t] <=> kAlive \in fEvents[t]
    BY <2>1, <2>4
  <2>8. PhaseOf(t)' = PhaseOf(t)
    BY <2>4, <2>5, <2>7, PhaseStays
  <2>9. fEvents'[t] \ {kAlive} = (fEvents[t] \ {kAlive}) \ E
    BY <2>4
  <2>10. /\ Phases[t] = "running" /\ Phases' = Phases
         /\ E \subseteq Pendings[t]
         /\ Pendings' = [Pendings EXCEPT ![t] = Pendings[t] \ E]
    BY <2>1, <2>2, <2>3, <2>6, <2>8, <2>9 DEF Phases, Pendings
  <2>11. Promise!GetEvents(t, E)
    BY <2>10 DEF Promise!GetEvents, Phases, Pendings
  <2> QED
    BY <2>11
<1>6. ASSUME NEW th \in Threads, RunReturnsDelete(th) PROVE \E t \in Tasks : Promise!Delete(t)
  <2>1. PICK t \in Tasks : t = theTask[th] /\ pc[th] = "handle" /\ PhaseOf(t) = "running"
    BY <1>6, HeldIsRunning DEF RunReturnsDelete
  <2>2. /\ fEvents' = fEvents
        /\ \A s \in Tasks : fTaskName'[s] = IF s = t THEN "Dead" ELSE fTaskName[s]
    BY <1>6, <2>1 DEF RunReturnsDelete, IInv, TypeOK
  <2>3. \A o \in Threads, s \in Tasks : Runs(o, s)' <=> Runs(o, s)
    BY <1>6 DEF RunReturnsDelete, Runs, InRun, IInv, TypeOK
  <2>4. Phases' = [Phases EXCEPT ![t] = PhaseOf(t)']
    BY <2>2, <2>3, AboutOneTask
  <2>5. PhaseOf(t)' = "deleted"
    BY <2>2 DEF PhaseOf
  <2>6. Pendings' = Pendings
    BY <2>2 DEF Pendings
  <2>7. Phases[t] = "running"
    BY <2>1 DEF Phases
  <2>8. Promise!Delete(t)
    BY <2>4, <2>5, <2>6, <2>7 DEF Promise!Delete, Phases, Pendings
  <2> QED
    BY <2>8
<1>7. ASSUME NEW th \in Threads, RunEnds(th) PROVE \E t \in Tasks : Promise!Rest(t)
  <2>1. PICK t \in Tasks : /\ t = theTask[th] /\ pc[th] = "handle" /\ Valid(t)
                           /\ PhaseOf(t) = "running" /\ \A o \in Threads : Runs(o, t) <=> o = th
    BY <1>7, HeldIsRunning DEF RunEnds
  <2>a. fTaskName' = fTaskName /\ fEvents[t] = {kAlive}
    BY <1>7, <2>1 DEF RunEnds, NothingPending
  <2>b. \A s \in Tasks : fEvents'[s] = IF s = t THEN fEvents[t] \ {kAlive} ELSE fEvents[s]
    BY <1>7, <2>1 DEF RunEnds, IInv, TypeOK
  <2>2. /\ fTaskName' = fTaskName /\ fEvents[t] = {kAlive}
        /\ \A s \in Tasks : fEvents'[s] = IF s = t THEN {} ELSE fEvents[s]
    BY <2>a, <2>b
  <2>3. /\ \A o \in Threads : o # th => pc'[o] = pc[o] /\ theTask'[o] = theTask[o]
        /\ pc'[th] = "wait"
    BY <1>7 DEF RunEnds, IInv, TypeOK
  <2>4. /\ \A o \in Threads, s \in Tasks : s # t => (Runs(o, s)' <=> Runs(o, s))
        /\ \A o \in Threads : ~ Runs(o, t)'
    BY <2>1, <2>3 DEF Runs, InRun
  <2>5. /\ Phases' = [Phases EXCEPT ![t] = PhaseOf(t)']
        /\ Pendings' = [Pendings EXCEPT ![t] = fEvents'[t] \ {kAlive}]
    BY <2>2, <2>4, AboutOneTask
  <2>6. PhaseOf(t)' = "rest"
    <3>1. ~ (\E o \in Threads : InRun(o) /\ theTask[o] = t)'
      BY <2>4 DEF Runs
    <3>2. fTaskName'[t] = "live_" /\ kAlive \notin fEvents'[t]
      BY <2>1, <2>2 DEF Valid
    <3> QED
      BY <3>1, <3>2 DEF PhaseOf
  <2>7. Pendings[t] = {} /\ Pendings' = Pendings
    BY <2>2 DEF Pendings
  <2>8. Phases[t] = "running"
    BY <2>1 DEF Phases
  <2>9. Promise!Rest(t)
    BY <2>5, <2>6, <2>7, <2>8 DEF Promise!Rest, Phases, Pendings
  <2> QED
    BY <2>9
<1>8. ASSUME NEW th \in Threads, RunReturnsTimeout(th) PROVE \E t \in Tasks : Promise!Sleep(t)
  <2>1. PICK t \in Tasks : /\ t = theTask[th] /\ pc[th] = "handle" /\ Valid(t)
                           /\ kAlive \in fEvents[t]
                           /\ PhaseOf(t) = "running" /\ \A o \in Threads : Runs(o, t) <=> o = th
    BY <1>8, HeldIsRunning DEF RunReturnsTimeout
  <2>2. fTaskName' = fTaskName /\ fEvents' = fEvents /\ theTask' = theTask
    BY <1>8 DEF RunReturnsTimeout, taskVars
  <2>3. (\A o \in Threads : o # th => pc'[o] = pc[o]) /\ pc'[th] = "park"
    BY <1>8 DEF RunReturnsTimeout, IInv, TypeOK
  <2>4. /\ \A o \in Threads, s \in Tasks : s # t => (Runs(o, s)' <=> Runs(o, s))
        /\ \A o \in Threads : ~ Runs(o, t)'
    BY <2>1, <2>2, <2>3 DEF Runs, InRun
  <2>5. Phases' = [Phases EXCEPT ![t] = PhaseOf(t)']
    BY <2>2, <2>4, AboutOneTask
  <2>6. PhaseOf(t)' = "scheduled"
    <3>1. ~ (\E o \in Threads : InRun(o) /\ theTask[o] = t)'
      BY <2>4 DEF Runs
    <3>2. fTaskName'[t] = "live_" /\ kAlive \in fEvents'[t]
      BY <2>1, <2>2 DEF Valid
    <3> QED
      BY <3>1, <3>2 DEF PhaseOf
  <2>7. Pendings' = Pendings /\ Phases[t] = "running"
    BY <2>1, <2>2 DEF Pendings, Phases
  <2>8. Promise!Sleep(t)
    BY <2>5, <2>6, <2>7 DEF Promise!Sleep, Phases, Pendings
  <2> QED
    BY <2>8
<1>9. ASSUME NEW th \in Threads, ParkIdle(th) PROVE \E t \in Tasks : Promise!Idle(t)
  <2>1. PICK t \in Tasks : t = theTask[th] /\ pc[th] = "park" /\ t \in fHeap[th]
    BY <1>9 DEF ParkIdle, IInv, TypeOK, Bookkeeping
  <2>2. PhaseOf(t) = "scheduled"
    BY <2>1, WaitingIsScheduled
  <2>3. /\ fTaskName' = fTaskName
        /\ \A s \in Tasks : fEvents'[s] = IF s = t THEN fEvents[t] \cup {kIdleEvent} ELSE fEvents[s]
    BY <1>9, <2>1 DEF ParkIdle, IInv, TypeOK
  <2>4. /\ \A o \in Threads : o # th => pc'[o] = pc[o] /\ theTask'[o] = theTask[o]
        /\ pc'[th] = "wait"
    BY <1>9 DEF ParkIdle, IInv, TypeOK
  <2>5. \A o \in Threads, s \in Tasks : Runs(o, s)' <=> Runs(o, s)
    BY <2>1, <2>4 DEF Runs, InRun
  <2>6. /\ Phases' = [Phases EXCEPT ![t] = PhaseOf(t)']
        /\ Pendings' = [Pendings EXCEPT ![t] = fEvents'[t] \ {kAlive}]
    BY <2>3, <2>5, AboutOneTask
  <2>7. kAlive \in fEvents'[t] <=> kAlive \in fEvents[t]
    BY <2>3, FlagsAssumption
  <2>8. PhaseOf(t)' = PhaseOf(t)
    BY <2>3, <2>5, <2>7, PhaseStays
  <2>9. fEvents'[t] \ {kAlive} = (fEvents[t] \ {kAlive}) \cup {kIdleEvent}
    BY <2>3, FlagsAssumption
  <2>10. /\ Phases[t] = "scheduled" /\ Phases' = Phases
         /\ Pendings' = [Pendings EXCEPT ![t] = Pendings[t] \cup {kIdleEvent}]
    BY <2>2, <2>6, <2>8, <2>9 DEF Phases, Pendings
  <2>11. Promise!Idle(t)
    BY <2>10 DEF Promise!Idle, Phases, Pendings
  <2> QED
    BY <2>11
<1>10. ASSUME NEW th \in Threads, DeleteTask(th) PROVE \E t \in Tasks : Promise!Free(t)
  <2>1. PICK t \in Tasks : t = theTask[th] /\ pc[th] = "delete" /\ fTaskName[t] = "Dead"
    BY <1>10 DEF DeleteTask, IInv, TypeOK, Bookkeeping, NoUseAfterDelete, InRun, Valid
  <2>2. /\ \A s \in Tasks : fTaskName'[s] = IF s = t THEN "none" ELSE fTaskName[s]
        /\ \A s \in Tasks : fEvents'[s] = IF s = t THEN {} ELSE fEvents[s]
    BY <1>10, <2>1 DEF DeleteTask, IInv, TypeOK
  <2>3. /\ \A o \in Threads : o # th => pc'[o] = pc[o] /\ theTask'[o] = theTask[o]
        /\ pc'[th] = "wait"
    BY <1>10 DEF DeleteTask, IInv, TypeOK
  <2>4. \A o \in Threads, s \in Tasks : s # t => (Runs(o, s)' <=> Runs(o, s))
    BY <2>1, <2>3 DEF Runs, InRun
  <2>5. /\ Phases' = [Phases EXCEPT ![t] = PhaseOf(t)']
        /\ Pendings' = [Pendings EXCEPT ![t] = fEvents'[t] \ {kAlive}]
    BY <2>2, <2>4, AboutOneTask
  <2>6. PhaseOf(t) = "deleted" /\ PhaseOf(t)' = "none"
    BY <2>1, <2>2 DEF PhaseOf
  <2>7. fEvents'[t] \ {kAlive} = {}
    BY <2>2
  <2>8. Phases[t] = "deleted"
    BY <2>6 DEF Phases
  <2>9. Promise!Free(t)
    BY <2>5, <2>6, <2>7, <2>8 DEF Promise!Free, Phases, Pendings
  <2> QED
    BY <2>9
<1>11. ASSUME NEW th \in Threads,
              GetEventsRead(th) \/ Disconnect(th) \/ ForceSameThread(th) \/ RunAgain(th)
       PROVE  UNCHANGED <<Phases, Pendings>>
  <2>1. fTaskName' = fTaskName /\ fEvents' = fEvents
    BY <1>11 DEF GetEventsRead, Disconnect, ForceSameThread, RunAgain, taskVars
  <2>2. theTask' = theTask
    BY <1>11 DEF GetEventsRead, Disconnect, ForceSameThread, RunAgain, EnterRun, threadVars,
                 IInv, TypeOK
  <2>3. \A o \in Threads : InRun(o)' <=> InRun(o)
    BY <1>11 DEF GetEventsRead, Disconnect, ForceSameThread, RunAgain, EnterRun, threadVars,
                 InRun, IInv, TypeOK
  <2>4. \A t \in Tasks, o \in Threads : Runs(o, t)' <=> Runs(o, t)
    BY <2>2, <2>3 DEF Runs
  <2> QED
    BY <2>1, <2>4, AboutNoTask
<1>12. ASSUME UNCHANGED <<fTaskName, fEvents, threadVars>> PROVE UNCHANGED <<Phases, Pendings>>
  BY <1>12, AboutNoTask DEF threadVars, Runs, InRun
<1>13. \/ \E t \in Tasks, p \in Pickers : CreateTask(t, p)
       \/ \E a \in Actors : SignalOr(a)
       \/ \E th \in Threads :
            \/ WaitForQueue(th) \/ (\E t \in Tasks : WaitForTimer(th, t)) \/ GetEventsSub(th)
            \/ RunReturnsDelete(th) \/ RunEnds(th) \/ RunReturnsTimeout(th) \/ ParkIdle(th)
            \/ DeleteTask(th)
            \/ GetEventsRead(th) \/ Disconnect(th) \/ ForceSameThread(th) \/ RunAgain(th)
       \/ UNCHANGED <<fTaskName, fEvents, threadVars>>
  BY DEF Next, NewSignal, SignalStep, ThreadStep, RunStep, Resolve, SignalCheck, SignalEnQueue,
         Release, vars, taskVars
<1>14. Promise!Next \/ UNCHANGED <<Phases, Pendings>>
  BY <1>1, <1>2, <1>3, <1>4, <1>5, <1>6, <1>7, <1>8, <1>9, <1>10, <1>11, <1>12, <1>13
  DEF Promise!Next
<1> QED
  BY <1>0, <1>14

(* The scheduler implements what Task.h promises: a signalled task is run, *)
(* by one thread at a time, finds its events once, and rests only when     *)
(* nothing is pending on it.                                               *)
THEOREM PromisesAreKept == Spec => KeepsPromise
<1>1. Init => Promise!Init
  <2> SUFFICES ASSUME Init PROVE Promise!Init
    OBVIOUS
  <2>1. \A t \in Tasks : PhaseOf(t) = "none" /\ fEvents[t] = {}
    BY DEF Init, PhaseOf
  <2> QED
    BY <2>1 DEF Promise!Init
<1>2. IInv /\ IInv' /\ [Next]_vars => [Promise!Next]_(Promise!promiseVars)
  BY PromiseStep
<1> QED
  BY <1>1, <1>2, Invariance, PTL DEF Spec, KeepsPromise, Promise!Spec
=============================================================================
