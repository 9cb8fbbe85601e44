---------------------------- MODULE EventDelivery ----------------------------
(***************************************************************************)
(* How an event of a socket finds its session: the event contexts and      *)
(* their table of references (EventContext, OSRef), the epoll shim with    *)
(* its cookies, wakeup pipe and deferred close (ev_epoll.cpp), the event   *)
(* thread, and the listener, whose ProcessEvent accepts connections on     *)
(* that thread (TCPListenerSocket).                                        *)
(*                                                                         *)
(* A context is the listener or a session, known by the place of its       *)
(* object in memory, which is used again.  Sessions only ask for EV_RE     *)
(* here; the masks, and what Run does with a buffer, are in HttpSession.   *)
(* That a signalled task is run, and by one thread, is shown in            *)
(* TaskScheduler; Signal and GetEvents are one step here.                  *)
(*                                                                         *)
(* A step is what is done under one mutex, or one system call.  The        *)
(* kernel's side (ready list, edge-triggered) is modelled from its use.    *)
(***************************************************************************)
EXTENDS Integers, Sequences, FiniteSets

CONSTANTS
  Sessions,   \* places for HTTPSession objects
  FDs,        \* descriptors accept can return
  MaxId,      \* 10000000 in RequestEvent
  PipeCap,    \* bytes the wakeup pipe takes before a write blocks
  ReadSize,   \* 4096 in pipe_has_event
  MaxConns,   \* bound: connections clients make
  MaxSends,   \* bound: times a client sends something new
  MaxErrors   \* bound: errors of accept

ASSUME EventAssumption ==
  /\ FDs \subseteq Nat \ {0} /\ IsFiniteSet(FDs)
  /\ {MaxId, PipeCap, ReadSize} \subseteq Nat \ {0}
  /\ {MaxConns, MaxSends, MaxErrors} \subseteq Nat
  /\ MaxId > 1
  /\ "listener" \notin Sessions /\ "none" \notin Sessions

Listener == "listener"
Nobody == "none"
Contexts == Sessions \cup {Listener}
ListenFD == 0                       \* the listener's descriptor
Sockets == FDs \cup {ListenFD}
NoFD == -1                          \* kInvalidFileDesc
Pipe == -2                          \* the read end s_Pipes[0]
R == "kReadEvent"
K == "kKillEvent"

VARIABLES
  backlog,       \* connections waiting to be accepted
  conns, sends, errors,  \* connections made, data sent, accepts failed
  open,          \* descriptors in use by the process
  data,          \* sockets with something to read
  watched,       \* sockets in the epoll set
  ready,         \* epoll's ready list
  pipe,          \* bytes in the wakeup pipe
  s_epoll_events,    \* what epoll_wait returned and is not yet processed
  s_CookieArray,
  s_FDsToCloseArray,
  fFileDesc, fUniqueID,   \* of each context
  fRefTable,     \* the registered contexts
  sUniqueID,
  et,            \* where the event thread stands
  theCurrentEvent,
  resolved,      \* the context the event thread holds a reference to
  theSocket,     \* the session ProcessEvent of the listener sets up
  task,          \* where each session's task stands
  fEvents        \* the flags signalled to it

netVars  == <<backlog, conns, sends, errors, data>>
shimVars == <<s_epoll_events, s_CookieArray, s_FDsToCloseArray>>
ctxVars  == <<fFileDesc, fUniqueID, fRefTable, sUniqueID>>
etVars   == <<et, theCurrentEvent, resolved, theSocket>>
vars == <<netVars, open, watched, ready, pipe, shimVars, ctxVars, etVars, task, fEvents>>

NoEvent == [er_handle |-> NoFD, er_data |-> 0]

(* start_http_server has asked for the listener's first event.             *)
Init ==
  /\ backlog = 0 /\ conns = 0 /\ sends = 0 /\ errors = 0
  /\ open = {ListenFD} /\ data = {}
  /\ watched = {ListenFD} /\ ready = {Pipe} /\ pipe = 1
  /\ s_epoll_events = {} /\ s_FDsToCloseArray = <<>>
  /\ sUniqueID = 2
  /\ s_CookieArray = [f \in Sockets |-> IF f = ListenFD THEN 2 ELSE 0]
  /\ fFileDesc = [c \in Contexts |-> IF c = Listener THEN ListenFD ELSE NoFD]
  /\ fUniqueID = [c \in Contexts |-> IF c = Listener THEN 2 ELSE 0]
  /\ fRefTable = {Listener}
  /\ et = "wait" /\ theCurrentEvent = NoEvent
  /\ resolved = Nobody /\ theSocket = Nobody
  /\ task = [s \in Sessions |-> "free"]
  /\ fEvents = [s \in Sessions |-> {}]

-----------------------------------------------------------------------------
(* The clients and the kernel.                                             *)
Readable(f) == f \in data \/ (f = ListenFD /\ backlog > 0)
            \/ (f = Pipe /\ pipe > 0)

ClientConnects ==
  /\ conns < MaxConns
  /\ conns' = conns + 1
  /\ backlog' = backlog + 1
  /\ ready' = ready \cup (watched \cap {ListenFD})
  /\ UNCHANGED <<sends, errors, open, data, watched, pipe, shimVars, ctxVars, etVars, task, fEvents>>

(* Data, or the end of the connection, for a session that is there.        *)
ClientSends(s) ==
  LET f == fFileDesc[s] IN
  /\ f # NoFD /\ f \notin data
  /\ sends < MaxSends
  /\ sends' = sends + 1
  /\ data' = data \cup {f}
  /\ ready' = ready \cup (watched \cap {f})
  /\ UNCHANGED <<backlog, conns, errors, open, watched, pipe, shimVars, ctxVars, etVars, task,
                 fEvents>>

(* One byte into the pipe; the writer waits while it is full.              *)
WritePipe ==
  /\ pipe < PipeCap
  /\ pipe' = pipe + 1
  /\ ready' = ready \cup {Pipe}

-----------------------------------------------------------------------------
(* EventContext::RequestEvent.  The first time: compare_and_store and      *)
(* atomic_add on sUniqueID ...                                             *)
NextId == IF sUniqueID = MaxId THEN 1 ELSE sUniqueID + 1

(* ... OSRefTable::Register, whose EPERM for a key that is there already   *)
(* nobody looks at ...                                                     *)
Register(c, id) ==
  fRefTable' = IF \E d \in fRefTable : fUniqueID[d] = id THEN fRefTable
               ELSE fRefTable \cup {c}

(* ... and epoll_watchevent.  Both EPOLL_CTL_ADD and EPOLL_CTL_MOD look at *)
(* the socket, so that what is there already is reported.                  *)
Armed(f) == IF Readable(f) THEN ready \cup {f} ELSE ready
CookieLater(f, id) == s_CookieArray                  \* wrong: no cookie
SetCookie(f, id) == [s_CookieArray EXCEPT ![f] = id]
Watchevent(f, id) ==
  /\ watched' = watched \cup {f}
  /\ ready' = Armed(f)
  /\ s_CookieArray' = SetCookie(f, id)

(* Later times: epoll_modwatch.                                            *)
Modwatch(c) ==
  /\ ready' = Armed(fFileDesc[c])
  /\ s_CookieArray' = SetCookie(fFileDesc[c], fUniqueID[c])
  /\ UNCHANGED <<watched, s_epoll_events, s_FDsToCloseArray>>

-----------------------------------------------------------------------------
(* The event thread: epoll_waitevent.  With nothing left of the last batch, *)
(* epoll_wait takes what is on the ready list and still true.              *)
EpollWait ==
  /\ et = "wait" /\ s_epoll_events = {} /\ ready # {}
  /\ s_epoll_events' = {f \in ready : Readable(f)}
  /\ ready' = {}
  /\ UNCHANGED <<netVars, open, watched, pipe, s_CookieArray, s_FDsToCloseArray,
                 ctxVars, etVars, task, fEvents>>

(* pipe_has_event: one read, which would block on an empty pipe, and the   *)
(* descriptors that were removed are closed.                               *)
OneByte == pipe - 1                                  \* wrong: one byte for each event
Drained == IF pipe > ReadSize THEN pipe - ReadSize ELSE 0
ToClose == {s_FDsToCloseArray[i] : i \in DOMAIN s_FDsToCloseArray}
Closed == ToClose
NotReset == s_FDsToCloseArray                        \* wrong: not set to -1
Reset == <<>>
PipeHasEvent ==
  /\ et = "wait" /\ Pipe \in s_epoll_events /\ pipe > 0
  /\ s_epoll_events' = s_epoll_events \ {Pipe}
  /\ pipe' = Drained
  /\ open' = open \ Closed
  /\ data' = data \ Closed
  /\ s_FDsToCloseArray' = Reset
  /\ UNCHANGED <<backlog, conns, sends, errors, watched, ready, s_CookieArray, ctxVars, etVars,
                 task, fEvents>>

(* construct_event_req: with the cookie the descriptor has now.            *)
ConstructEventReq(f) ==
  /\ et = "wait" /\ f \in s_epoll_events \ {Pipe}
  /\ s_epoll_events' = s_epoll_events \ {f}
  /\ theCurrentEvent' = [er_handle |-> f, er_data |-> s_CookieArray[f]]
  /\ et' = IF s_CookieArray[f] = 0 THEN "wait" ELSE "resolve"
  /\ UNCHANGED <<netVars, open, watched, ready, pipe, s_CookieArray, s_FDsToCloseArray,
                 ctxVars, resolved, theSocket, task, fEvents>>

(* EventThread::Entry: OSRefTable::Resolve.                                *)
Resolve ==
  /\ et = "resolve"
  /\ \/ \E c \in fRefTable :
          /\ fUniqueID[c] = theCurrentEvent.er_data
          /\ resolved' = c
          /\ et' = IF c = Listener THEN "accept" ELSE "signal"
     \/ /\ \A c \in fRefTable : fUniqueID[c] # theCurrentEvent.er_data
        /\ et' = "wait"
        /\ UNCHANGED resolved
  /\ UNCHANGED <<netVars, open, watched, ready, pipe, shimVars, ctxVars, theCurrentEvent,
                 theSocket, task, fEvents>>

(* EventContext::ProcessEvent of a session.                                *)
SignalSession ==
  /\ et = "signal"
  /\ fEvents' = [fEvents EXCEPT ![resolved] = @ \cup {R}]
  /\ et' = "release"
  /\ UNCHANGED <<netVars, open, watched, ready, pipe, shimVars, ctxVars, theCurrentEvent,
                 resolved, theSocket, task>>

(* OSRefTable::Release                                                     *)
Release ==
  /\ et = "release"
  /\ resolved' = Nobody
  /\ et' = "wait"
  /\ UNCHANGED <<netVars, open, watched, ready, pipe, shimVars, ctxVars, theCurrentEvent,
                 theSocket, task, fEvents>>

-----------------------------------------------------------------------------
(* TCPListenerSocket::ProcessEvent                                         *)

AcceptNothing ==                                     \* EAGAIN
  /\ et = "accept" /\ backlog = 0
  /\ et' = "rearm"
  /\ UNCHANGED <<netVars, open, watched, ready, pipe, shimVars, ctxVars, theCurrentEvent,
                 resolved, theSocket, task, fEvents>>

AcceptExits ==                                       \* EMFILE: exit
  /\ et = "accept" /\ backlog > 0 /\ FDs \subseteq open
  /\ et' = "exit"
  /\ UNCHANGED <<netVars, open, watched, ready, pipe, shimVars, ctxVars, theCurrentEvent,
                 resolved, theSocket, task, fEvents>>

(* Any other error, as that of a connection that is aborted: a session is  *)
(* made and killed, and the listener does not ask for its next event.      *)
AcceptFails(s) ==
  /\ et = "accept" /\ backlog > 0 /\ errors < MaxErrors
  /\ task[s] = "free"
  /\ errors' = errors + 1
  /\ backlog' = backlog - 1
  /\ task' = [task EXCEPT ![s] = "rest"]
  /\ fEvents' = [fEvents EXCEPT ![s] = {K}]
  /\ theSocket' = s
  /\ et' = "disconnect"
  /\ UNCHANGED <<conns, sends, data, open, watched, ready, pipe, shimVars, ctxVars,
                 theCurrentEvent, resolved>>

(* theSocket->fState &= ~kConnected, after the Signal.                     *)
DisconnectSocket ==
  /\ et = "disconnect"
  /\ theSocket' = Nobody
  /\ et' = "release"
  /\ UNCHANGED <<netVars, open, watched, ready, pipe, shimVars, ctxVars, theCurrentEvent,
                 resolved, task, fEvents>>

(* A connection, with the lowest descriptor that is free: GetSessionTask,  *)
(* Set and InitNonBlocking.                                                *)
Accept(s, f) ==
  /\ et = "accept" /\ backlog > 0
  /\ task[s] = "free"
  /\ f \in FDs \ open /\ \A g \in FDs \ open : f <= g
  /\ backlog' = backlog - 1
  /\ open' = open \cup {f}
  /\ task' = [task EXCEPT ![s] = "rest"]
  /\ fFileDesc' = [fFileDesc EXCEPT ![s] = f]
  /\ theSocket' = s
  /\ et' = "watch"
  /\ UNCHANGED <<conns, sends, errors, data, watched, ready, pipe, shimVars, fUniqueID, fRefTable,
                 sUniqueID, theCurrentEvent, resolved, fEvents>>

(* theSocket->RequestEvent(EV_RE), up to the write ...                     *)
WatchSession ==
  LET id == NextId  f == fFileDesc[theSocket] IN
  /\ et = "watch"
  /\ sUniqueID' = id
  /\ fUniqueID' = [fUniqueID EXCEPT ![theSocket] = id]
  /\ Register(theSocket, id)
  /\ Watchevent(f, id)
  /\ et' = "watched"
  /\ UNCHANGED <<netVars, open, pipe, s_epoll_events, s_FDsToCloseArray, fFileDesc,
                 theCurrentEvent, resolved, theSocket, task, fEvents>>

(* ... and the write, after which the listener asks for its next event.    *)
WriteWatched ==
  /\ et = "watched"
  /\ WritePipe
  /\ theSocket' = Nobody
  /\ et' = "rearm"
  /\ UNCHANGED <<netVars, open, watched, shimVars, ctxVars, theCurrentEvent, resolved,
                 task, fEvents>>

RearmListener ==
  /\ et = "rearm"
  /\ Modwatch(Listener)
  /\ et' = "rearmed"
  /\ UNCHANGED <<netVars, open, pipe, ctxVars, theCurrentEvent, resolved, theSocket,
                 task, fEvents>>

WriteRearmed ==
  /\ et = "rearmed"
  /\ WritePipe
  /\ et' = "release"
  /\ UNCHANGED <<netVars, open, watched, shimVars, ctxVars, theCurrentEvent, resolved,
                 theSocket, task, fEvents>>

-----------------------------------------------------------------------------
(* A session's task, on a task thread.  Run reads what there is, or finds  *)
(* nothing (EAGAIN), and asks for the next event or returns -1.            *)

Step(s, from, to) ==
  /\ task[s] = from
  /\ task' = [task EXCEPT ![s] = to]

Run(s) ==
  /\ fEvents[s] # {} /\ K \notin fEvents[s]
  /\ \/ Step(s, "rest", "arm")
     \/ fFileDesc[s] \in data /\ Step(s, "rest", "unregister")
  /\ data' = data \ {fFileDesc[s]}
  /\ fEvents' = [fEvents EXCEPT ![s] = {}]
  /\ UNCHANGED <<backlog, conns, sends, errors, open, watched, ready, pipe, shimVars, ctxVars, etVars>>

(* kKillEvent; Cleanup finds no descriptor, and the object is freed.       *)
RunKilled(s) ==
  /\ K \in fEvents[s]
  /\ Step(s, "rest", "free")
  /\ fEvents' = [fEvents EXCEPT ![s] = {}]
  /\ UNCHANGED <<netVars, open, watched, ready, pipe, shimVars, ctxVars, etVars>>

RequestEvent(s) ==
  /\ Step(s, "arm", "armed")
  /\ Modwatch(s)
  /\ UNCHANGED <<netVars, open, pipe, ctxVars, etVars, fEvents>>

WriteArmed(s) ==
  /\ Step(s, "armed", "rest")
  /\ WritePipe
  /\ UNCHANGED <<netVars, open, watched, shimVars, ctxVars, etVars, fEvents>>

(* EventContext::Cleanup, from the destructor: OSRefTable::UnRegister      *)
(* waits until nobody holds the context; Remove of what is not in the      *)
(* table does nothing.                                                     *)
DoesNotWait(s) == TRUE                               \* wrong: no fCond.Wait
NotReferenced(s) == resolved # s
UnRegister(s) ==
  /\ NotReferenced(s)
  /\ Step(s, "unregister", "remove")
  /\ fRefTable' = fRefTable \ {s}
  /\ UNCHANGED <<netVars, open, watched, ready, pipe, shimVars, fFileDesc, fUniqueID,
                 sUniqueID, etVars, fEvents>>

(* epoll_removeevent: the event thread is to close the descriptor.         *)
ClearCookie(f) == [s_CookieArray EXCEPT ![f] = 0]
RemoveEvent(s) ==
  LET f == fFileDesc[s] IN
  /\ Step(s, "remove", "removed")
  /\ watched' = watched \ {f}
  /\ ready' = ready \ {f}
  /\ s_CookieArray' = ClearCookie(f)
  /\ s_FDsToCloseArray' = Append(s_FDsToCloseArray, f)
  /\ fFileDesc' = [fFileDesc EXCEPT ![s] = NoFD]
  /\ fUniqueID' = [fUniqueID EXCEPT ![s] = 0]
  /\ UNCHANGED <<netVars, open, pipe, s_epoll_events, fRefTable, sUniqueID, etVars, fEvents>>

WriteRemoved(s) ==
  /\ Step(s, "removed", "free")
  /\ WritePipe
  /\ fEvents' = [fEvents EXCEPT ![s] = {}]
  /\ UNCHANGED <<netVars, open, watched, shimVars, ctxVars, etVars>>
-----------------------------------------------------------------------------
Waitevent == EpollWait \/ PipeHasEvent \/ \E f \in Sockets : ConstructEventReq(f)

ListenerProcessEvent ==
  \/ AcceptNothing \/ AcceptExits
  \/ \E s \in Sessions : AcceptFails(s) \/ \E f \in FDs : Accept(s, f)
  \/ DisconnectSocket \/ WatchSession \/ WriteWatched \/ RearmListener \/ WriteRearmed

EventThread == Waitevent \/ Resolve \/ SignalSession \/ Release \/ ListenerProcessEvent

TaskThread(s) ==
  Run(s) \/ RunKilled(s) \/ RequestEvent(s) \/ WriteArmed(s)
  \/ UnRegister(s) \/ RemoveEvent(s) \/ WriteRemoved(s)

Clients == ClientConnects \/ \E s \in Sessions : ClientSends(s)

(* exit ends every thread.                                                 *)
Next == et # "exit" /\ (Clients \/ EventThread \/ \E s \in Sessions : TaskThread(s))

Spec == Init /\ [][Next]_vars

FairSpec ==
  /\ Spec
  /\ WF_vars(et # "exit" /\ EventThread)
  /\ \A s \in Sessions : WF_vars(et # "exit" /\ TaskThread(s))

-----------------------------------------------------------------------------
Ids == 0 .. MaxId

TypeOK ==
  /\ backlog \in Nat /\ conns \in 0 .. MaxConns /\ sends \in 0 .. MaxSends /\ errors \in 0 .. MaxErrors
  /\ open \subseteq Sockets /\ data \subseteq FDs /\ watched \subseteq Sockets
  /\ ready \subseteq Sockets \cup {Pipe} /\ s_epoll_events \subseteq Sockets \cup {Pipe}
  /\ pipe \in 0 .. PipeCap
  /\ s_CookieArray \in [Sockets -> Ids]
  /\ s_FDsToCloseArray \in Seq(FDs)
  /\ fFileDesc \in [Contexts -> Sockets \cup {NoFD}]
  /\ fUniqueID \in [Contexts -> Ids] /\ sUniqueID \in Ids
  /\ fRefTable \subseteq Contexts
  /\ et \in {"wait", "resolve", "signal", "release", "accept", "disconnect", "watch",
            "watched", "rearm", "rearmed", "exit"}
  /\ theCurrentEvent \in [er_handle : Sockets \cup {NoFD}, er_data : Ids]
  /\ resolved \in Contexts \cup {Nobody} /\ theSocket \in Sessions \cup {Nobody}
  /\ task \in [Sessions -> {"free", "rest", "arm", "armed", "unregister", "remove", "removed"}]
  /\ fEvents \in [Sessions -> SUBSET {R, K}]

(* An event is delivered to the context that owns the descriptor it is of,  *)
(* or to nobody: the cookie is looked up late and the context may be on     *)
(* its way out, its descriptor closed and given out again                   *)
(* (EventContext.cpp:231, ev_epoll.cpp:51).  Until the reference is given   *)
(* back the context stays in the table and its object is there (OSRef.cpp). *)
RightOwner ==
  resolved # Nobody =>
    /\ fFileDesc[resolved] = theCurrentEvent.er_handle
    /\ resolved \in fRefTable
    /\ resolved \in Sessions => task[resolved] # "free"

(* A descriptor waits at most once to be closed, and no context has it then: *)
(* the kernel cannot have given it out again (ev_epoll.cpp:80, 315).         *)
ClosedOnce ==
  /\ \A i, j \in DOMAIN s_FDsToCloseArray :
       s_FDsToCloseArray[i] = s_FDsToCloseArray[j] => i = j
  /\ \A c \in Contexts : fFileDesc[c] \notin ToClose
  /\ ToClose \subseteq open

(* No descriptor leaks: each one in use belongs to one context or waits to  *)
(* be closed.                                                               *)
NoLeak ==
  \A f \in open \ ToClose : \E c \in Contexts :
    fFileDesc[c] = f /\ \A d \in Contexts : fFileDesc[d] = f => d = c

(* Both: every descriptor is accounted for, in states of the right types.    *)
Accounted == TypeOK /\ ClosedOnce /\ NoLeak

(* The only reader of the wakeup pipe never blocks on it, and never writes  *)
(* to it when it is full, which it would wait for for ever                  *)
(* (ev_epoll.cpp:75, 232, 287).                                             *)
NeverStuckOnPipe ==
  /\ Pipe \in s_epoll_events => pipe > 0
  /\ et \in {"watched", "rearmed"} => pipe < PipeCap

(* Data for a session is read, or the session ends.                         *)
EventuallyRead ==
  \A s \in Sessions :
    fFileDesc[s] \in data ~> fFileDesc[s] \notin data \/ et = "exit"

(* Connections are accepted without waiting for the next one, as long as    *)
(* accept does not fail.                                                    *)
EventuallyAccepted == backlog > 0 ~> backlog = 0 \/ errors > 0 \/ et = "exit"

(* A descriptor that was removed is closed by the event thread.             *)
EventuallyClosed == s_FDsToCloseArray # <<>> ~> s_FDsToCloseArray = <<>> \/ et = "exit"

(* All three, under fair threads: nothing that the event thread is to do    *)
(* waits for ever.                                                          *)
EventuallyServed == EventuallyRead /\ EventuallyAccepted /\ EventuallyClosed
=============================================================================
