# HitsCenter in TLA+

HitsCenter downloads, every ten minutes, the play counts of the last interval
from a statistics service, keeps the counts of the last hour in a ring, saves
each hour to MySQL and publishes the hottest entries over HTTP. The HTTP side
stands on BaseServer, a copy of the task and event library of Darwin Streaming
Server.

This directory holds TLA+ models of the parts of that program in which order,
interleaving, failure or the shape of the input matter, the TLC configurations
that check them on small instances, and TLAPS proofs about them for every
instance.

    tlc -workers 2 -config MCTaskSchedulerRace.cfg MCTaskScheduler.tla
    tlapm TaskSchedulerProofs.tla

`PROJECT.json` lists the components, the runs, the source lines each definition
stands for, a wrong variant that each property catches, the findings, the
hazards and the theorems. The wrong variants stand in the modules before the
definition they replace, marked `\* wrong`.

## The system

```
 main thread          thread_job                event thread            task threads
 timer loop  --jobs-->  do_job                  epoll_waitevent         WaitForTask
 (g_job_list,           download, parse,        resolve the cookie,     Run of a session,
  g_job_sem)            do_memo, do_save        Signal the task  -----> GetEvents, ...
                          |    |                      ^                     |
                          |    v                      |  RequestEvent       |
                          | MySQL                     +---------------------+
                          v                                                 |
                    g_hits_sort  <------------- hits_get_hottest -----------+
```

| Component | State | Operations | What is hard |
|---|---|---|---|
| Task scheduler (`BaseServer/Task.*`, `atomic.cpp`, `OSQueue.*`) | `fEvents`, `fTaskName`, `fUseThisThread`, pickers, a queue and a timer heap per thread | `Signal`, `GetEvents`, `ForceSameThread`, `TaskThread::Entry`, `WaitForTask` | no lock guards a task: any thread signals while another runs, parks or deletes it |
| Timer and job queue (`main.cpp`, `deque.h`) | `last_time`, `g_job_list`, `g_job_mutex`, `g_job_sem` | loop of `main`, `job_in_queue`, `job_out_queue`, `thread_job` | post after unlock, late wakeups, catching up at the start |
| Ring of statistics (`main.cpp`, `jsonlint.c`) | `g_hits_stats`, `g_hits_index`, `g_hits_memo`, `g_start_time` | `do_job`, `do_parse`, `do_memo`, `one_period_complete`, `do_save` | missing files, broken files, restarts; hours against a sliding ring |
| Merge and ranking (`main.cpp`, `jsonlint.c`) | `g_hits_memo`, `g_hits_sort`, `hottest_topN.json` | `read_tree`, `hits_records_merge`, `hits_records_sort`, `hits_get_hottest` | task threads read the ranking while `thread_job` rebuilds it, and share a file |
| HTTP session (`HTTPSession.*`) | request and response buffers, `fFd`, the events asked for | `Run`, `RecvData`, `SendData`, `ProcessRequest`, `ReadFileContent` | partial reads and writes, pipelined requests, which events to ask for next |
| HTTP request parser (`HTTPRequest.*`, `HTTPProtocol.*`, `StringParser.*`, `StrPtrLen.*`) | positions in a buffer, `fParams` | `IsFullRequest`, `Parse`, `ParseFirstLine`, `ParseURI` | requests cut anywhere, what one leaves for the next, ends of buffers |
| Event contexts (`EventContext.*`, `OSRef.*`, `OSHashTable.h`) | `fUniqueID`, the table of references, their counts | `RequestEvent`, `Cleanup`, `EventThread::Entry` | an event for an object that is being destroyed |
| epoll shim (`ev_epoll.*`) | epoll set, cookies, wakeup pipe, descriptors to close | `epoll_watchevent`, `_modwatch`, `_removeevent`, `_waitevent` | edge triggering, descriptors closed and reused, a full pipe |
| Listener (`TCPListenerSocket.*`, `HTTPListenerSocket.*`) | the listening socket | `ProcessEvent`, `GetSessionTask` | a session is armed before it is set up |
| Locks (`OSMutex`, `OSMutexRW`, `OSCond`) | holder, counts, waiters | lock, unlock, wait | nested locks, early wakeups, exclusion of writers |
| Timer heap (`OSHeap.*`) | array heap | `Insert`, `ExtractMin`, `Remove` | order after a removal in the middle |
| `IdleTask`, `TimeoutTask` | idle heap, list of timeouts | `SetIdleTimer`, `CancelTimeout`, `Run` | a timeout that is set, fires and is cancelled at once |
| JSON parser (`json.*`, `jsonlint.c`) | state, stack, buffer, tree | `json_parser_string`, `json_print_raw`, `do_tree` | limits, ends of files, comments, tables nobody reads |
| Download, MySQL, command line, wrappers of system calls | - | - | external or without state |

How they meet: `main` and `thread_job` share the job list; `thread_job` and the
task threads share `g_hits_sort` (without a lock); the event thread and the
task threads share the tasks (`Signal`), the reference table and the epoll shim
(`RequestEvent` from a `Run`); a task is deleted by the task thread that runs
it, which waits in `UnRegister` for the event thread to let go of it.

### What makes each of them correct

- *Scheduler*: a task is scheduled once however many threads signal it, its
  `Run` is never entered twice, no event is lost between `Signal` and `Run`, a
  deleted task is on no queue or heap and nobody holds it, and a task that asks
  for its thread gets it.
- *Timer, queue and ring*: jobs are done once and in order, the ring is in the
  order of time whatever is missing, nothing is counted twice, and an hour is
  saved once, whole, under its own time.
- *Ranking*: the sums are those of the files, and a reader is sent the best of
  one ranking.
- *Session*: requests are answered in order and whole, or the connection is
  closed; a session that has something to send or to read is woken for it.
- *Parsers*: what is found is what was meant, wherever the bytes are cut; no
  text takes a parser out of its bounds.
- *Events*: an event reaches the context it is for, or nobody; a descriptor is
  closed once, and only when nobody waits for it; the event thread never waits
  for itself.
- *Library*: one writer, or readers; the heap gives the least, the table what
  is in it, the queue its oldest; every timeout fires or is cancelled.

## The modules

Modules that stand for code are named after it. `MC*` modules give TLC its
instances, `*Proofs` modules hold theorems.

| Module | Models | Used by |
|---|---|---|
| `TaskScheduler`, `TaskPromise` | the scheduler, and what Task.h promises | `MCTaskScheduler`, `TaskSchedulerProofs` |
| `JobQueue`, `HitsRing`, `HitsCenter` | timer and queue, `do_job` on the ring, both together with kills | `MCHitsCenter`, `MCHitsRing`, `MCHitsRingAligned`, `HitsRingProofs`, `HitsCenterProofs`, `SequenceLemmas` |
| `HitsRanking` | trees, sums, ranking and its readers | `MCHitsRanking`, `StatisticsProofs`, `SequenceLemmas` |
| `HttpSession` | a connection and its buffers | `MCHttpSession`, `HttpSessionProofs` |
| `EventDelivery` | listener, contexts, epoll shim, descriptors | `MCEventDelivery`, `EventDeliveryProofs` |
| `HttpParse`, `JsonParser`, `StringParser`, `StrPtrLen`, `Parsers` | what takes bytes apart | `MCParsers`, `HttpSessionProofs`, `StatisticsProofs`, `LibraryProofs` |
| `OSHeap`, `OSMutexRW`, `OSQueue`, `TimeoutTask`, `OSHashTable`, `BaseLibrary` | containers, lock and timeouts | `MCBaseLibrary`, `LibraryProofs` |
| `IdleTimer` | idle tasks on the heap | `MCIdleTimer`, `LibraryProofs` |

### TaskScheduler (BaseServer/Task.cpp, Task.h)

A step is one access to shared memory: `atomic_or`, `atomic_sub` and
`compare_and_store` of `fEvents`, one operation on a queue under its mutex, one
operation of the reference table. `Signal` is therefore four steps
(`SignalCheck`, `SignalOr`, `SignalEnQueue`, `Release`) and `GetEvents` two
(`GetEventsRead`, `GetEventsSub`), and any other thread may act between them.
`TaskThread::Entry` is `WaitForQueue` / `WaitForTimer`, then `EnterRun`, what
`Run` does as far as the scheduler can tell (`GetEvents`, a `Signal` of the task
itself as in `HTTPSession::Disconnect`, `ForceSameThread`), and one step for
each kind of return value: `RunReturnsDelete` and `DeleteTask` (-1), `RunEnds`
or `RunAgain` (0), `RunReturnsTimeout` and `ParkIdle` (positive).

A caller is a thread that resolved a reference to the task before signalling it
(the event thread); the destructor of the task waits for it in
`OSRefTable::UnRegister`. A freed task may be constructed again at its address.

The time of the heap is abstracted (a parked task may expire at any moment). A
task that does not return -1 when it finds `kKillEvent` is not modelled: all of
the repository's tasks do.

`TaskPromise` is the scheduler without threads, queues, heaps and the `kAlive`
bit: what the comments of Task.h promise to the author of a task. `KeepsPromise`
says that TaskScheduler implements it; the mapping reads a task's phase from the
place its token is in.

### JobQueue, HitsRing and HitsCenter (main.cpp, deque.h, jsonlint.c, db.cpp)

`JobQueue` has the main thread's loop (`Produce`, `NothingDue`, `AppendJob`,
`PostJob`, `Sleep`) and `thread_job` (`SemWait`, `JobOut`, `JobDone`). The list
operations are steps because `g_job_mutex` guards them; the `sem_post` is a step
of its own since it follows the unlock. A sleep may take longer than it should:
the clock advances by any of `SleepTimes`.

`HitsRing` is `do_job` in its three parts. Intervals are numbered and a slot's
lists are the sequence of the intervals whose files were appended to it, so that
"counted twice" and "left over" can be told. The environment chooses what
becomes of each download (none, no JSON, or JSON with or without a time and
lists), whether the database can be reached, how far the timer jumps, when the
program restarts, and what the memory before the array looks like, because
`do_memo` and `do_save` may read slot -1. `Visited` is their walk over the slots.
The service is taken to put into a file the time it was asked for.

`HitsCenter` puts them together: `do_job` of `HitsRing`, a step at a time, is
what `thread_job` does with the jobs that come out of the queue, while the timer
goes on and the program may be killed and started again at any point
(`KilledAndStarted`), with its queue and ring empty and the database kept.
`RingSpec` says that what reaches the ring is what `HitsRing` takes on trust.

### HitsRanking (main.cpp, jsonlint.c, HTTPSession.cpp)

From the tree of a file to what a client gets: `read_tree` into lists of each
platform, `hits_records_merge` of each list by hash id and area, `do_memo`
clearing and filling `g_hits_sort`, `hits_get_hottest` iterating it on a task
thread and writing `hottest_topN.json`, and the session that sends this file
piece by piece. No lock is taken, although a comment in `do_memo` names the
place of one, so every iteration and every piece is a step. A session whose loop
`do_memo` disturbed, or whose file another session wrote, is `mixed`. The trees
have the form of OXEYE's files (`TreesAssumption`, after hu.json): an area object
has one area and a hash object one hash id, for with more of them `read_tree` puts
all of the members into the last one. `SumMeant` says what such trees mean without
any list, and `MemoIsSum` that this is what the records are.

### HttpSession (HTTPSession.cpp, Socket.cpp, StringFormatter.cpp, EventContext, ev_epoll.cpp)

One connection. `pc` is the place in `HTTPSession::Run`: `rest` between two
Runs, `send` and `recv` before `SendData` and `RecvData`, `arm` before
`RequestEvent`, `delete` when -1 is returned. Each outcome of a system call is
an action: `SendSome` (all or a part), `SendBlocked` (EAGAIN), `SendLost`,
`SendFails`; `RecvPart`, `RecvBlocked`, `RecvFails`, and for the request found in
the buffer `AnswerPage`, `AnswerFile`, `SkipRequest` and `RefuseRequest`. The
step includes everything Run does until its next access to something shared, so
that reading the next chunk of the file is a part of the sends (`SendDone`).

Buffers are counted in units: what the client sends is a script of units, each
the end of a request or not, and an answer is a sequence of units named by the
request and their place. So `Put` truncates like `StringFormatter::Put`, a
partial send keeps the rest, and the properties can tell order, gaps and
repetitions. A place of the buffer stays free in that, except from a single
byte, which is put into the last one too. `taken - done` is `fStrReceived.Len`,
`fFd` holds the request and the next unit of the open file; a file that cannot
be opened leaves `fFd` at -1 and the request unanswered (`RefuseRequest`).

The event thread is `Fetch` (`epoll_waitevent` takes the socket off the ready
list and reports what is there of the events asked for) and `Deliver`
(`ProcessEvent`). Between the two the session may run, read and ask for other
events, so that what is delivered is late. `Modwatch` replaces the mask and looks
at the socket anew, as EPOLL_CTL_MOD does. The client sends, reads and leaves at
any time. A client that shuts down one direction only is not modelled.

### EventDelivery (EventContext, OSRef, ev_epoll, TCPListenerSocket)

Several sessions at places in memory that are used again, the listener, the
descriptors that `accept` hands out and uses again, and the three parties that
meet at them: the event thread (the batch of fetched events one by one, the pipe,
the descriptors to close, `ProcessEvent` of the listener), the task threads
(`Run`, `RequestEvent`, and the destructor with `UnRegister`,
`epoll_removeevent` and its write to the pipe) and the clients. A step is what
is done under one mutex, or one system call; the write to the wakeup pipe is a
step of its own, since it blocks when the pipe is full. Unique ids count modulo
`MaxId` as in `RequestEvent`.

### HttpParse, JsonParser, StringParser, StrPtrLen

`HttpParse` has the bytes of a connection: a character is an end-of-line
character, a blank, a separator or a word; `Rendered` makes them from records, so
that what `ParseFirstLine`, `ParseURI` and the parameters find can be compared
with what was meant, in every cut into reads. Of a request line without a version
the end of the line is skipped as white space, so that it is answered as
malformed when no header is behind it; `WellFormed` leaves that case out. Of a
command it wants keys and values of one word each (`Keyed`), none of the values a
name of a parameter, so that what is meant can be read off the URI without taking
it apart as the code does.
`JsonParser` reads a document
character class by character class through the tables of json.c; two consumers
hang on its callback, the tree builder of `do_tree` and the printer.
`StringParser` makes any sequence of calls on a short text in memory, and
`StrPtrLen` is the operators of the strings it returns. `Parsers` runs one of
the three in a behaviour.

### The library (OSHeap, OSMutexRW, OSQueue, TimeoutTask, OSHashTable, IdleTimer)

`OSHeap` moves one element per step, since `IsMemberOfAnyHeap` is read without
the mutex. `OSMutexRW` is the lock over `OSMutex`'s recursive mutex over a
pthread mutex, with `OSCond`'s wait undoing and redoing the holder. `OSQueue`'s
links are compared with a sequence kept beside them (`Remove` is `TakeOut`
there). `TimeoutTask` extends it by the tasks on the queue and the scan that
walks it (its destructor is `Destruct`). `OSHashTable` has the chains, `Map` and
the iterator (its `Remove` is `RemoveEntry` there, and `&` a constant that
`MCBaseLibrary` gives its value by `Bitwise`). `BaseLibrary` drives one of them
in a behaviour by any sequence of the calls its callers may make. `IdleTimer`
extends `OSHeap` by the idle thread, its condition and the tasks that set,
cancel and die.

## Runs

| Run | Instance | Shows |
|---|---|---|
| `sched_race` | 1 task, 2 short and 1 blocking thread, 2 callers, 2 events, timeouts, pins | the inductive invariant of the proofs, no event dropped, pins, refinement of `TaskPromise` |
| `sched_live` | 2 tasks, 2 threads, 1 caller, fair threads | every event is handed to a `Run` |
| `center` | intervals and periods of 3, sleeps of 1 or 2, a start at each point of a period, one kill, clock up to 40 | count of the semaphore, order of the jobs, the jobs `HitsRing` assumes, undisturbed hours whole and once, `thread_job` catches up |
| `ring_faults` | periods of 3, every fault, one restart, jobs up to 7 | order of the ring, no double count, stamps, time of the saves |
| `ring_aligned` | periods of 3, no fault, start with a period's first interval | finding: slot 0 is left out |
| `ranking` | trees with both platforms, members in any order, bad ids and counts; 2 rankings, 2 sessions that ask for the best two | the sums, and what an undisturbed session is sent |
| `session` | eight scripts of one to four units, request buffer 2, response buffer 4, socket 5, chunks 2, page and header 2, file 3 | bounds, no lost wakeup, order of the answers, one answer in full, a client that leaves is found out |
| `session_tail` | one request, a socket of one unit | finding: the rest of an answer is dropped |
| `events` | 2 sessions, 2 descriptors, 3 connections, 2 sends, 1 failing accept, a pipe of 6 bytes | right owner, descriptors closed once, no wait for itself, everybody served |
| `parsers` | 16 kinds of request, two on a connection, in every cut; JSON texts two structures deep in two configurations; texts of up to four bytes | answers as meant and when whole, bounds and tree of the JSON parser, comments, lines, searches |
| `library` | a heap of 4 that has to grow, 2 readers and a writer, a queue of 3, 2 timeout tasks, tables of 1 to 3 chains with 3 entries | order of the heap, the lock, the links, the scan, the table |
| `timers` | 2 idle tasks, delays 1 and 3, clock up to 3 | no oversleeping, no signal to a deleted task, every timeout comes off |

Why these bounds are enough. In the scheduler the races are between at most one
thread running a task, one signalling it with the token and others signalling
without it; two callers and three threads give all of them at one task, two
tasks on one queue give order, reuse of an address and what one task's deletion
may do to another. `PickerWidth` is 1 or 2 so that the pickers overflow.

In `center` the drift of the wakeups takes up to three units to cross an
interval, and the clock bound leaves room for three periods after a kill. A
period of three intervals has a first, a middle and a last one, and seven jobs
fill the ring twice with a restart in between.

In the session each buffer is at least once full, over-full and empty: a request
buffer of two is filled by a request in parts, a response buffer of four does
not hold a rest and a chunk, and after a send that failed a last chunk of one
fills its last place; a socket of five takes a part of two answers. Four units
of a script give a request behind a request behind a part.

In `events` two descriptors for three connections make the third use one that
waits in a batch or to be closed, and two places for sessions make it use the
place of one that is being destroyed. Six is the least pipe that holds what can
be written between two reads of the event thread in this instance: with five the
run fails, so the bound on what is pending is exact.

In `ranking` both sessions ask for the best two of up to four records, since only
requests for the same number share a file; `BestAreServed` has every number.

Two requests on a connection show what one leaves behind for the next; three
structures would show nothing that two do not, since the stack has its limit at
two in one of the configurations. Four elements make a heap of three levels with
one element on the last; six are not taken because of a finding below.

Deadlock is checked in `ranking` only. In the others the bounds stop the clock
and the jobs, a scheduler whose tasks rest has nothing to do, and a connection
that is closed, or whose client is silent, stays as it is. That nothing waits
which has something to do is what the liveness properties and
`NeverStuckOnPipe`, `NoLostWakeup` and `NobodyForgotten` say.

### Fairness

`sched_live`: every step of a call of `Signal`, of a `Run` and of `ParkIdle` is
weakly fair, since threads are preemptive and no `Run` loops. Taking from the
queue and from the heap are strongly fair: `WaitForTask` looks at the heap
first, but a parked task sleeps for its timeout before it can be found there
again. `DeleteTask` is strongly fair, because the waiting destructor is woken by
each release. New signals are not fair: nobody has to signal. `EventuallyRun`
speaks of the events sent once the signals cease, since a task that is signalled
for ever may keep its thread for ever.

`center`: main and `thread_job` keep running and a job ends (curl has a timeout
of 120 s). Kills are not fair.

`session`: `Run` goes on (that a task with events is run is `EventuallyRun`), the
event thread fetches and delivers, and a client that stays reads what it was
sent, so that a full socket is not full for ever. Sending and leaving are not
fair.

`events`: the event thread and the task threads go on, unless the program has
exited for want of descriptors. Clients are not fair.

`timers`: the clock and the threads go on, and whoever waits for the heap's
mutex gets it at some time (strong fairness of `IdleWakes` and of each task).

## Findings

With a run that shows them:

- `ring_aligned`: `do_memo` and `do_save` begin at `g_hits_index - 1` without
  wrapping it (main.cpp:445, 491). At index 0 they read before the array and do
  not visit slot 0. When the program starts in the first ten minutes of an hour,
  its first jobs are those of the whole hour before, in slots 0 to 5, and every
  hourly save is made at index 0 and misses the hour's first ten minutes.
- `session_tail`: `SendData` returns true after a partial send
  (HTTPSession.cpp:297), the Run finds nothing to ask for and disconnects, and
  the rest of the answer is dropped.

Others follow from the models; the properties state what holds in spite of them,
and the premises name them.

*Timer and ring.* `last_time = now` (main.cpp:790) lets the wakeups drift away
from the comment at main.cpp:721, and from time to time an interval gets no job;
`PeriodsSaved` calls such a period disturbed. After a failed download the next
save reaches back into the hour before, and if the job of an hour's last interval
fails the hour is never saved (main.cpp:416, 540). After a restart the tail of
an hour that is already over is asked for again and gets a second, partial save;
a program that is killed while its queue lags loses the hour. The input
`"no time"`, a file with lists and no time, leaves a slot that is not released
when it is used again (main.cpp:162).

*Session.* `RequestEvent(EV_RE)` after a late read event forgets that the session
waits to write (HTTPSession.cpp:185, 209), so that an answer of a pipelined
request may wait for the client. With a rest of more than 4096 bytes in
`fResponseBuffer` the next chunk of 16384 does not fit, `Put` cuts it and the one
after it is sent all the same: a file with a hole (HTTPSession.cpp:443). One
request is taken per read event. The branch marked "it will be never happened"
(HTTPSession.cpp:201) is `NothingToRequest`, the end of every complete answer.

*Requests.* A method other than GET is answered "304 Not Modified"
(HTTPRequest.h:54, HTTPProtocol.cpp:264). A read that ends between `\r` and `\n`
leaves the `\n` to the next request (StringParser.cpp:413); a request line
without URI takes the next line for it; an absolute URI is looked up with its
scheme and host; `fParams` is never cleared (HTTPSession.cpp:562); a request that
failed stays in the buffer; `HTTPRequest::Clear` leaks `fRequestPath`
(HTTPRequest.cpp:59).

*Strings.* Whether a text that ends in `\r` has its last line counted is up to
the byte behind the buffer (StringParser.cpp:480): with a `\n` there it is not;
`sCaseInsensitiveMask` has 130 entries and is indexed with any byte.

*JSON.* The stack of the tree builder grows by bytes where it counts elements
(json.c:875), so that it is overrun beyond 1024 nested structures; an END is
handed on before it is checked against its BEGIN; no comment may follow a number
with an exponent; `do_tree` leaks what it has built on an error (jsonlint.c:359);
`json_empty` (json.c:649) returns the opposite of its comment.

*Ranking.* All sessions that ask for the same N write one `hottest_topN.json`, and
N of 0 or less writes one record.

*Library.* `OSQueue::Test` wants an iterator to go from the newest element to
the oldest (OSQueue.cpp:173-191), but `OSQueueIter` begins at the head and goes
from the oldest to the newest (OSQueue.h:99, OSQueue.cpp:221-227), so that the
test would fail; it is compiled out (`OSQUEUETESTING`), and `Linked` states the
order of the code. `OSHeap::Test` inserts `elem2` while it is in the heap
(OSHeap.cpp:292, 301), against the assertion at OSHeap.cpp:66. `OSHeap::Extract`
never lets the moved leaf rise, so that `Remove` in the middle of six or more
elements may break the order (the assertion OSHeap.cpp:191); the program has at
most two idle tasks. `LockWrite` waits only while there are readers, so that a
second writer enters beside the first (OSMutexRW.h:94 says "only one"); nobody
locks for writing, and `WriterAlone` is stated for one writer. A delay that is a
multiple of 2^32 ms sleeps for ever. Each timeout task may push the next scan
later by up to a second (TimeoutTask.cpp:101).

*Events.* The ids of contexts wrap at ten million (EventContext.cpp:199); the
proofs assume that none is reached within the life of a connection. The branch
`CleanUpAndContinue` (TCPListenerSocket.cpp:158) is taken by what line 142 tests.

## Theorems

All are proved with `tlapm` for every value of the constants that the named
assumptions of the modules allow; what a theorem needs beyond them stands in its
statement.

**TaskSchedulerProofs.** `Invariance` proves `IInv`, from which `TypeCorrect`,
`Scheduling`, `Exclusion`, `NoLostToken`, `References`, `ThreadsStay` and
`Delivery` follow. `ScheduledOnce` alone is not inductive: that a task is in one
place needs to know what a thread holds at each point of `Entry`
(`Bookkeeping`), that a flag implies the token (`NoEventWithoutToken`), and that
the flags `GetEvents` subtracts do not contain the token (`SubtractsSetFlags`).
The argument is that of a token: only `SignalOr` creates it, with the bit clear,
and each other step moves it from one place to the next. The proof has a lemma
per action, and under it a step per conjunct that the action can disturb.

`PinsAreKept`: a task that asked for its thread is run by
it. The invariant beside `IInv` is `StaysOnItsThread`: where a task is queued,
parked or run, it is not pinned to another thread. `PromisesAreKept`: every step
of the scheduler is one step of `TaskPromise` or none. The phase of a task is read
off the place of its token, so that the lemmas say what becomes of a task's phase
when one task, or no task, changes its place.

**HitsRingProofs.** `RingOrder`: the ring is in order. Order alone is not
inductive; with `JobIsNewest` (the job in progress is later than every slot)
filling the oldest slot makes it the newest. `SavesEndPeriods`: what is saved is
saved by the job of a period's last interval, since the newest slot holds that
job's time or none (`NewestIsJob`). `NothingCountedTwice`: nothing is twice in
what is published or in a save, since the slots have nothing in common
(`DataOnce`) and the walk of `do_memo` visits each of them once.
`StampedWithOldest`: the last slot with a time that the walk meets is the oldest.

**HitsCenterProofs.** Of the queue alone, `SemMatches`: the semaphore is the
length of the list, but for the post and the removal under way; so
`job_out_queue` never finds the list empty. `JobsInOrder`: what is done, under
way, queued and about to be queued ascends; it needs that the clock is late
enough for the first jobs to lie after 0 (`Late`), since a job of 0 is none.
`CenterSemMatches` and `CenterInOrder` carry both over the kills.

`JobsWaitInOrder` proves `CenterInv`: the job under way, the list and what is
about to be queued ascend and are before the clock, and when nothing is done yet
the first in the queue is one `HitsRing` may start with. From it,
`CenterImplementsRing`: every step of the program, kills included, is a step of
`HitsRing` or none, so that the theorems about the ring hold of the program with
its queue.

`EveryPeriodSaved` is the promise of main.cpp:481, for any interval, any number
of slots and any lag of `thread_job`. It rests on `PeriodInv`, of runs that are
not disturbed. `Steady`: the jobs that wait leave out no interval, and do_job is
at the one before them. `Filled`: what each slot holds, counted back from the
interval parsed last, and that the index goes round with the intervals, so that
the index is 0 at the end of a period only if the program was started at the
beginning of one, which counts as disturbed (the walk then begins at slot -1).
`SavedSoFar`: the periods that are through are saved, and a save has nothing
after the end of its period. With a single slot every start is at the beginning
of a period and the theorem says nothing; the program has six. The proof begins
with lemmas about `\div`, since the interval is not known.

**SequenceLemmas.** What proofs about recursive functions rest on. An induction
over an interval is stated for a set (`IntervalInduction`, from the least element
that a set of naturals has), as the library's induction takes a predicate. From
it: what a concatenation of sequences has and when it repeats nothing
(`FlattenHas`, `FlattenOnce`); that a sequence without repetitions has as many
places as elements (`OnceCount`); and that the recursion that walks down the ring
is the function `Walk` (`WalkIs`) and meets every slot (`WalkMeetsAll`). A fold is
defined by a CHOOSE, so the function it names has to be shown to exist
(`LoopExists`) and to be the rounds of the loop, one after the other
(`LoopRounds`).

**StatisticsProofs.** *The ranking.* `BestAreServed` is `RankingServed` for any
trees, sessions, requests and number of rankings. `Ranked`: while it is built,
the ranking is that of the keys inserted so far (`SortOf`: each once, with its
sum, ascending), which each `Inserted` keeps. `OwnFile`: while a session that is
not mixed up writes or sends its file nobody else writes it, and the file is
empty until it is closed. `Right` says of each session what it has printed,
written and sent so far, and `MarkedKeeps` that it goes on to hold as long as
the ranking being printed and the file being sent stay the same; whoever changes
one of them marks the session as `rebuilt` or `mixed`. The best n records of a
ranking are what the property wants of a file by `BestAreRanking`. What the sums
are is no part of it: the only assumption about them, `MergedAssumption`, is the
type of `g_hits_memo`, a map from keys to records of numbers, whose keys are
those of `KeyOrder`.

*The sums.* `MemoAlwaysSums` is `MemoIsSum` for any trees of the form of
`TreesAssumption`, in any number and order, with any other members between.
`read_tree` and `hits_records_merge` are nested loops (`FoldLeft`), and so are the
sums that the property compares them with. The lemmas named `...Loop` say of each
loop that it is its rounds. What a loop adds up to then follows from what one round adds
(`SumOfSteps`): of a hash object (`HashidIs`), of the hits and areas of a list
(`HashidsAre`, `AreaIs`, `PlatformIs`), of the periods of a tree (`TreeIs`), and of
merging a list into the records (`MergeAreaIs`, `MergeListIs`), where what another
platform or area has stays as it is (`HitsKeep`, `ListKeep`). `TreeRoundIs` and
`MergedIs` put them together: what a key has in the records grows with each tree by
what the tree means. `MemoInv` adds to `IInv` that each record has been played, and
that no key is twice in the ranking even between `Merge` and `ClearSort`, when it
is still that of other records: hence it is no longer than `KeyOrder`, and no
session prints more (`SortIsShort`).

*The JSON text.* `JsonAlwaysRight` is `JsonRight` for any text, in chunks of any
size, any limits of the parser and any nesting, and `CommentsAreNothing` that a
comment is a blank. `TableIs` says what may follow a state, from the rules that
make the table. `JsonInv` is about the place the parser is in, which within a
comment is where it resumes. `PlaceRight`: a key is wanted, or the next value
has its key, exactly where the grammar says so (`KeyWanted`), and
`expecting_key` is only set inside an object. `DataKept`: the digits of an
escape are in the buffer until it ends, so that what they become fits.
`TypeKnown`: a value is due only after a number or a word, so that the one
handed on late has where to go (`Due`, `Flush`). The lemmas `ValueHanded`,
`KeyHanded`, `OpenHanded` and `CloseHanded` say for any tree and printer in step
what one callback makes of them; in each action that hands something on, the
parser's stack and place are compared with that. An END that is handed on before
its BEGIN is checked may leave the tree and the stack of modes apart, but then
the parser answers with an error: what the two have in common is only claimed
while it reads (`Reading`), that they are in step and nothing is misplaced
always.

**HttpSessionProofs.** `TypeCorrect` holds the types and bounds; its lemmas say
what `Put`, a chunk and a partial send do to the rest (`Kept`), which is also
what `BufferFits` needs. Its invariant, `InBuffer`, is that the rest does not
exceed the buffer, and that it leaves a place free as long as the client is
connected: a send that takes something leaves two, so that not even a single
byte, the only thing `Put` writes into the last place, fills the buffer; and
answers are longer than a byte. `Wakeups`: no session at rest is forgotten; each
`RequestEvent` looks at the socket anew, and every step that makes something
readable or writable queues it. `AnswersInOrder` rests on `PipeInv`, about the
pipe of all that was received, is in the kernel or is still to be sent: its
units belong to requests already taken (`Owned`), and of the answer whose file
is open only units before the next one were put (`FileAhead`). Order alone is
not inductive, since a chunk or an answer put behind the rest must be later than
all of its answer that is there. Concatenation is hidden behind `Cat` where only
its associativity matters. `RequestTypes` and `AnsweredAlwaysWhenWhole` are
about `HttpParse`, for any requests and any reads. `RequestLen` is first shown
to be the value of a function defined from the end of the text (`FromTheEnd`,
`RequestLenIs`), since its recursion goes forward; then a request is laid out as
blocks without ends of lines, each with its end of line behind it, and
`FirstEnds` says that the first empty block ends it, with each of the three
forms. `SizesAre` puts the requests of a connection end to end. `ParseInv` is
inductive: the buffer is the part of what the client sends between what was
moved on from and what was read (`Buffered`), and a request that was not moved
on from is the first in it. A read that ends between the `\r` and the `\n` at
the end of a request breaks that, one character being taken for the end; hence
`~cut` in `AnsweredWhenWhole`, and nothing is claimed of the buffer's place from
then on but that it is an end of what was sent (`RequestsTypeOK`).

`AlwaysAsMeant` is `AsMeant` for any requests. By `NextIsParsed` what a read
completes is the text of the request that was not moved on from, and by `LaidOut`
and `FirstLineParsed` its first line says what was meant. For what is no command,
the answer follows (`PlainAnswer`). A command is taken apart by two loops:
`Split` is the keys and values one behind the other (`SplitIs`), and what is
looked up after their insertion is the value of the first part with the key, or
what the map had before (`ParamsAre`), which for an empty map is the parameter that the
request has (`ParameterIs`). The map need not be empty: a command that is refused
stays in the buffer and is processed again, with its own parameters still in
`fParams`, and again refused (`FirstCommand`, `CommandAgain`). `ParamsInv`, the
strengthening, says so: as long as no command was moved on from, `fParams` is empty
or has the `cmd` of a refused one. For this, every other request must leave
`fParams` as it is, also one that is not well formed: nothing in it is taken for a
command (`ShapeIs`, `NoCommandInside`, `ParamsStay`). That is why `Commands` has
also the requests without a URI, whose version is then read as one.

**EventDeliveryProofs.** Under `EnoughIds`, that the ids do not wrap within the
life of the system, `EventInv` is inductive. `Budget` and `Fresh` bound the ids
in use, `Unique` says that no two contexts have the same, `Cookies` that a
cookie leads to the context that has the descriptor, or to none; `Holds` says
what the event thread holds between resolving an id and releasing it, `Places`
what a session has at each point of its life. `EventsReachTheirOwner`: what was
resolved is the context of the descriptor that was ready.
`DescriptorsAccounted`: an open descriptor has one owner, or waits once to be
closed, and is never both. `EventThreadNeverStuck`: the event thread does not
fill the pipe that only it empties. What everybody still owes to the pipe and
what is in it stay below a bound (`PipeInv`): a session or a descriptor is
signalled twice at most before the pipe is looked at again, and the round in
which it is looked at reads it empty. Its hypothesis, `RoomForAll`, is room for
two bytes per session and descriptor and four more, in the pipe and in one read;
the buffer of 4096 bytes is enough for the thousand descriptors a process has by
default.

**LibraryProofs.** *The lock.* `LockIsRight`: the mutex below the lock knows its holder,
and with one writer that writer is alone and `fState` tells who holds the lock.
It needs the states of a caller inside `OSMutex` and `OSCond` (`CallKnown`), that
the caller who holds the mutex never waits for it again (`NestedNeverWaits`) and
that the counts of waiters are those of the threads that wait (`WaitersCounted`).
`NobodySleepsOn`: no wakeup is lost. Whoever sleeps has a reason (`SleepersWait`):
a writer, that readers are at work; a reader, that the writer is at work or
waits and comes first. The step that takes the reason away wakes the sleeper.

*The heap.* `HeapIsRight`, for any elements and values. `HeapInv` says of the
order, while an element rises or sinks, that only the pair at `pos` may be wrong
and that what is below `pos` is in order with what is above it (`InOrderBut`).
`RootIsLeast` follows by the least place that would contradict it. The hypothesis
is `~cut`: no removal has left a leaf under a greater parent.

*The idle thread.* `SleepsNoLonger` and `SignalsTheLiving`, for any number of
tasks and any delays. Their invariant, `TimerInv`, adds who holds `fHeapMutex` at
each point of the thread and of a task's call (`MutexHeld`; the element that
rises is the one its holder inserts) and that what is in a call, in the heap or
about to be signalled exists (`CallsMatch`). `NeverOversleeps` has `~cut` as its
hypothesis, since in a heap out of order the root need not be the next timeout;
`FiveAreNeverCut` shows that it always holds with five tasks or less, the
program having two.

*The queue and the scan.* `QueueIsRing`, for any elements: the links are those
of the sequence of its elements with the sentinel before and behind it
(`IsRing`), which one element more at its end (`RingWith`) and one less anywhere
(`LeavesKeeps`) leave true; from the links the head is the first (`EndsAre`),
and each element leads the iterator to the one after it (`IterGoesOn`).
`ScansInTime`, for any number of timeout tasks: the scan has looked at the first
of the sequence and goes on behind them (`ScanGoesOn`), and each look pushes the
interval up by at most a second (`NearerIs`, `ComesBack`). It needs that the
queue rests while the scan is under way, which is what `fMutex` is for, and that
a timeout which is being written counts as set since.

*The hash table.* `TableAlwaysRight`, for any entries, sizes and keys (of the
machine's `&`, a constant of the module, only that `h & (size - 1)` is below the
size). The entries of an index are in their chain from the newest to the oldest
(`Chained`): what an entry points to is the newest of those of its index that
are older (`NewestOf`, `After`), and what is not in the table points nowhere. So
a walk ends at the newest of the stops it can reach (`WalkIsRight`); that such a
walk exists at all is shown by its solution (`EndOf`), and that it is the only
one by an induction from the oldest entry on (`KeptInduction`). Adding and taking
out (`AddStep`, `RemoveStep`) keep the chains, and the iterator has been on
everything up to where it stands (`Visiting`).

*The string parser.* `LinesAlwaysRight`, for any text, any byte behind it and
any calls. The cursor is in the text and the line number is one more than the
ends of lines before it that are counted (`CursorInv`), for which a call has
only to supply how much it consumes (`ConsumesKeeps`) and that this lies in the
text (`RunIs`, `EndIs`, `NPTStays`); the ends that `AdvanceMark` sees are those
of the text, without a last `\r` that has a `\n` behind it (`EndsAlike`). While
only lines were read, the cursor stands behind the end of one, so that the next
begins a new one (`LinesInv`, `LineIs`). `SearchAlwaysRight`: what is searched
is the token up to its first 0 (`CStringIs`), the search of strstr is for the
first place that fits (`strstrIs`, `FoundIs`), and of two bytes in the table of
130 the table and upper case say the same (`MaskIs`). Its hypothesis,
`TextsInTable`, is that no byte of a text, behind it or of a query is beyond
that table, which is read out of its bounds for others; squeezing puts no other
byte into memory (`MemoryInv`). `AlwaysFoundInToken` is the search alone, which
needs no such hypothesis.

### Only model-checked

- Liveness, about which TLAPS does not reason here: `EventuallyRun`, `CatchesUp`,
  `Closes`, `Answered`, `EventuallyServed`, `EventuallyOff`.

## Left to do

- An abstract connection (answers in order, whole or cut off at the end, then
  closed) that `HttpSession` implements where its findings do not bite, and the
  count of the files that a session has open.
- `EventDelivery` and `HttpSession` in one behaviour, and the parsed requests as
  the input of the session.

## Not modelled

*Code nothing reaches.* The global lock of the scheduler (`CallLocked`,
`fWriteLock`) and `RemoveThreads`, `OSMutex::TryLock`, `OSFileSource`, the date
translator, `GetHeader` and its tables; `ParseHeaders` is compiled out.

*External.* libcurl, MySQL, the kernel and pthreads are modelled by the outcomes
the code distinguishes. Of a save only its intervals are kept, not its rows, so
that a row that fails (db.cpp:142) is not seen.

*Straight-line code.* Option parsing and `start_server`, the wrappers of system
calls, the code for other platforms (ev.cpp, select), `json_print_args`,
`json_parser_dump_state` and the command line of jsonlint, the wording of
responses and all printing.

*Abstracted.* Memory is never exhausted. stdio writes `hottest_topN.json` at
once, at its `fclose`, though a long list goes out a buffer at a time. Hits have
one area and hash id in an object. A client shuts down both directions. Idle
tasks are the listener and the `TimeoutTaskThread`, which are all the program
has.

*Parts the program does not exercise.* The read-write lock has a writer only for
tasks under the scheduler's global lock, of which there are none, and no
`TimeoutTask` is ever constructed: `TimeoutTask::Initialize` (http_server.cpp:102)
starts an idle task whose scan finds an empty queue. Both are modelled and proved
as the library's promises, and are no hazards of this program.

*Hazards without a property.* A command behind another is carried out with the
first one's parameters (HTTPSession.cpp:562): the model does so, and the premise
of `AsMeant` leaves such commands out, since they are not answered as meant. A
client that never ceases may keep a task running and its thread busy
(Task.cpp:210): nothing in the code prevents it, so `EventuallyRun` is about
events sent once signals cease. The file that a second request makes a session
forget (HTTPSession.cpp:458) is in the model, but no property counts open files.
The length of a cut error response (HTTPSession.cpp:692) has no bound, and
`FitsBuffer` excludes it. The write to `fState` after `Signal(kKillEvent)`
(TCPListenerSocket.cpp:156) goes to memory that nothing reads afterwards.
Failing rows: above.
