------------------------ MODULE EventDeliveryProofs ------------------------
(***************************************************************************)
(* Events reach the right session, every descriptor is accounted for and   *)
(* the event thread never waits for itself at a pipe that is large enough, *)
(* for any number of sessions and descriptors, as long as the unique ids   *)
(* have not gone round.                                                    *)
(***************************************************************************)
EXTENDS EventDelivery, TLAPS, SequenceTheorems, FiniteSetTheorems

(* No id is given out twice: there are more ids than connections.          *)
EnoughIds == MaxConns + 2 <= MaxId

(* Every connection that waits, or is being set up, still has its id to    *)
(* come ...                                                                *)
Budget ==
  /\ sUniqueID >= 2
  /\ sUniqueID + backlog <= 2 + conns
  /\ et = "watch" => sUniqueID + backlog < 2 + conns

(* ... and all ids in use are among those given out.                       *)
Fresh ==
  /\ \A c \in Contexts : fUniqueID[c] \in 0 .. sUniqueID
  /\ \A f \in Sockets : s_CookieArray[f] \in 0 .. sUniqueID
  /\ theCurrentEvent.er_data \in 0 .. sUniqueID

Unique ==
  \A c, d \in Contexts : fUniqueID[c] = fUniqueID[d] /\ fUniqueID[c] # 0 => c = d

(* A cookie, in the array or in the hand of the event thread, leads to the *)
(* context that has the descriptor, or to none.                            *)
LeadsTo(id, f) == \A c \in Contexts : fUniqueID[c] = id => fFileDesc[c] = f
Cookies ==
  /\ \A f \in Sockets : s_CookieArray[f] # 0 => LeadsTo(s_CookieArray[f], f)
  /\ et = "resolve" =>
       theCurrentEvent.er_data # 0 /\ LeadsTo(theCurrentEvent.er_data, theCurrentEvent.er_handle)

(* Where the event thread stands, and whom it holds.                       *)
Holds ==
  /\ et \in {"wait", "resolve"} <=> resolved = Nobody
  /\ et = "signal" => resolved \in Sessions
  /\ et \in {"accept", "watch", "watched", "rearm", "rearmed", "disconnect", "exit"}
       => resolved = Listener
  /\ et = "watch" =>
       /\ theSocket \in Sessions /\ task[theSocket] = "rest" /\ fEvents[theSocket] = {}
       /\ fUniqueID[theSocket] = 0

(* A session has a descriptor from its accept to its removal, and is not   *)
(* in the table after it was taken out.                                    *)
HasFD(s) ==
  \/ task[s] \in {"arm", "armed", "unregister", "remove"}
  \/ task[s] = "rest" /\ K \notin fEvents[s]
Places ==
  /\ fFileDesc[Listener] = ListenFD
  /\ \A s \in Sessions :
       /\ HasFD(s) => fFileDesc[s] \in FDs
       /\ ~HasFD(s) => fFileDesc[s] = NoFD /\ fUniqueID[s] = 0 /\ s \notin fRefTable
       /\ task[s] = "remove" => s \notin fRefTable
       /\ K \in fEvents[s] => task[s] = "rest"
       /\ task[s] = "free" => fEvents[s] = {}

(* No two contexts have one descriptor, and none has one that is to be     *)
(* closed.                                                                 *)
Owned ==
  /\ \A c, d \in Contexts : fFileDesc[c] = fFileDesc[d] /\ fFileDesc[c] # NoFD => c = d
  /\ \A c \in Contexts : fFileDesc[c] # NoFD => fFileDesc[c] \in open \ ToClose

(* Types, in parts.                                                        *)
NetTypes ==
  /\ backlog \in Nat /\ conns \in 0 .. MaxConns /\ sends \in 0 .. MaxSends
  /\ errors \in 0 .. MaxErrors
  /\ open \subseteq Sockets /\ data \subseteq FDs
WatchTypes ==
  /\ watched \subseteq Sockets
  /\ ready \subseteq Sockets \cup {Pipe} /\ s_epoll_events \subseteq Sockets \cup {Pipe}
  /\ s_CookieArray \in [Sockets -> Ids]
PipeTypes == pipe \in 0 .. PipeCap
CloseTypes == s_FDsToCloseArray \in Seq(FDs)
ContextTypes ==
  /\ fFileDesc \in [Contexts -> Sockets \cup {NoFD}]
  /\ fUniqueID \in [Contexts -> Ids] /\ sUniqueID \in Ids
  /\ fRefTable \subseteq Contexts
ThreadTypes ==
  /\ et \in {"wait", "resolve", "signal", "release", "accept", "disconnect", "watch",
            "watched", "rearm", "rearmed", "exit"}
  /\ theCurrentEvent \in [er_handle : Sockets \cup {NoFD}, er_data : Ids]
  /\ resolved \in Contexts \cup {Nobody} /\ theSocket \in Sessions \cup {Nobody}
  /\ task \in [Sessions -> {"free", "rest", "arm", "armed", "unregister", "remove", "removed"}]
  /\ fEvents \in [Sessions -> SUBSET {R, K}]

EventInv ==
  /\ NetTypes /\ WatchTypes /\ PipeTypes /\ CloseTypes /\ ContextTypes /\ ThreadTypes
  /\ Budget /\ Fresh /\ Unique /\ Cookies
  /\ Holds /\ RightOwner /\ Places
  /\ Owned /\ ClosedOnce /\ NoLeak

LEMMA Types ==
  TypeOK <=> /\ NetTypes /\ WatchTypes /\ PipeTypes /\ CloseTypes
             /\ ContextTypes /\ ThreadTypes
  BY DEF TypeOK, NetTypes, WatchTypes, PipeTypes, CloseTypes, ContextTypes, ThreadTypes

LEMMA Constants ==
  /\ FDs \subseteq Nat \ {0}
  /\ MaxId \in Nat /\ MaxId > 1 /\ MaxId # 0 /\ PipeCap \in Nat \ {0} /\ ReadSize \in Nat \ {0}
  /\ MaxConns \in Nat /\ MaxSends \in Nat /\ MaxErrors \in Nat
  /\ Listener \notin Sessions /\ Nobody \notin Contexts /\ Listener \in Contexts
  /\ Sessions \subseteq Contexts /\ Contexts = Sessions \cup {Listener} /\ K # R
  /\ FDs \subseteq Sockets /\ ListenFD \in Sockets
  /\ ListenFD \notin FDs /\ NoFD \notin Sockets /\ Pipe \notin Sockets
  BY EventAssumption DEF Listener, Nobody, Contexts, Sockets, ListenFD, NoFD, Pipe, K, R

(* One more descriptor that waits to be closed.                            *)
LEMMA AppendToClose ==
  ASSUME s_FDsToCloseArray \in Seq(FDs), NEW f \in FDs,
         s_FDsToCloseArray' = Append(s_FDsToCloseArray, f)
  PROVE  ToClose' = ToClose \cup {f}
<1> DEFINE s == s_FDsToCloseArray
           n == Len(s)
<1>1. /\ DOMAIN s' = 1 .. n + 1 /\ DOMAIN s = 1 .. n /\ n \in Nat
      /\ \A i \in 1 .. n : s'[i] = s[i]
      /\ s'[n + 1] = f
  BY AppendProperties
<1>2. ToClose = {s[i] : i \in 1 .. n} /\ ToClose' = {s'[i] : i \in 1 .. n + 1}
  BY <1>1 DEF ToClose
<1> HIDE DEF n
<1>3. \A i \in 1 .. n + 1 : i \in 1 .. n \/ i = n + 1
  BY <1>1
<1>4. 1 .. n \subseteq 1 .. n + 1 /\ n + 1 \in 1 .. n + 1
  BY <1>1
<1> QED
  BY <1>1, <1>2, <1>3, <1>4

-----------------------------------------------------------------------------
(* Each step keeps the invariant: what it changes, then the parts that do  *)
(* not see the change, then those that do.                                 *)

LEMMA ClientConnectsKeeps ==
  ASSUME EventInv, ClientConnects
  PROVE  EventInv'
<1>1. /\ conns < MaxConns
      /\ conns' = conns + 1
      /\ backlog' = backlog + 1
      /\ ready' = ready \cup (watched \cap {ListenFD})
      /\ UNCHANGED <<sends, errors, open, data, watched, pipe, s_epoll_events,
                    s_CookieArray, s_FDsToCloseArray, fFileDesc, fUniqueID, fRefTable,
                    sUniqueID, et, theCurrentEvent, resolved, theSocket, task, fEvents>>
  BY DEF ClientConnects, netVars, shimVars, ctxVars, etVars
<1>2. (PipeTypes /\ CloseTypes /\ ContextTypes /\ ThreadTypes /\ Fresh /\ Unique
      /\ Cookies /\ Holds /\ RightOwner /\ Places /\ Owned /\ ClosedOnce /\
      NoLeak)'
  BY <1>1 DEF EventInv, PipeTypes, CloseTypes, ContextTypes, ThreadTypes, Fresh,
     Unique, Cookies, LeadsTo, Holds, RightOwner, Places, HasFD, Owned, ToClose,
     ClosedOnce, NoLeak
<1>3. NetTypes'
  BY <1>1, Constants DEF EventInv, NetTypes
<1>4. WatchTypes'
  BY <1>1, Constants DEF EventInv, WatchTypes
<1>5. Budget'
  BY <1>1, Constants DEF EventInv, Budget, NetTypes, ContextTypes, Ids
<1> QED
  BY <1>2, <1>3, <1>4, <1>5 DEF EventInv

LEMMA ClientSendsKeeps ==
  ASSUME EventInv, NEW s \in Sessions, ClientSends(s)
  PROVE  EventInv'
<1>1. /\ fFileDesc[s] \in FDs
      /\ sends < MaxSends
      /\ sends' = sends + 1
      /\ data' = data \cup {fFileDesc[s]}
      /\ ready' = ready \cup (watched \cap {fFileDesc[s]})
      /\ UNCHANGED <<backlog, conns, errors, open, watched, pipe, s_epoll_events,
                    s_CookieArray, s_FDsToCloseArray, fFileDesc, fUniqueID, fRefTable,
                    sUniqueID, et, theCurrentEvent, resolved, theSocket, task, fEvents>>
  BY DEF ClientSends, EventInv, Places, netVars, shimVars, ctxVars, etVars
<1>2. (PipeTypes /\ CloseTypes /\ ContextTypes /\ ThreadTypes /\ Budget /\ Fresh
      /\ Unique /\ Cookies /\ Holds /\ RightOwner /\ Places /\ Owned /\
      ClosedOnce /\ NoLeak)'
  BY <1>1 DEF EventInv, PipeTypes, CloseTypes, ContextTypes, ThreadTypes,
     Budget, Fresh, Unique, Cookies, LeadsTo, Holds, RightOwner, Places, HasFD,
     Owned, ToClose, ClosedOnce, NoLeak
<1>3. NetTypes'
  <2>1. sends' \in 0 .. MaxSends
    BY <1>1, Constants DEF EventInv, NetTypes
  <2>2. data' \subseteq FDs
    BY <1>1 DEF EventInv, NetTypes
  <2> QED
    BY <1>1, <2>1, <2>2 DEF EventInv, NetTypes
<1>4. WatchTypes'
  BY <1>1, Constants DEF EventInv, WatchTypes
<1> QED
  BY <1>2, <1>3, <1>4 DEF EventInv

LEMMA EpollWaitKeeps ==
  ASSUME EventInv, EpollWait
  PROVE  EventInv'
<1>1. /\ s_epoll_events' = {f \in ready : Readable(f)}
      /\ ready' = {}
      /\ UNCHANGED <<backlog, conns, sends, errors, open, data, watched, pipe,
                    s_CookieArray, s_FDsToCloseArray, fFileDesc, fUniqueID, fRefTable,
                    sUniqueID, et, theCurrentEvent, resolved, theSocket, task, fEvents>>
  BY DEF EpollWait, netVars, shimVars, ctxVars, etVars
<1>2. (NetTypes /\ PipeTypes /\ CloseTypes /\ ContextTypes /\ ThreadTypes /\
      Budget /\ Fresh /\ Unique /\ Cookies /\ Holds /\ RightOwner /\ Places /\
      Owned /\ ClosedOnce /\ NoLeak)'
  BY <1>1 DEF EventInv, NetTypes, PipeTypes, CloseTypes, ContextTypes,
     ThreadTypes, Budget, Fresh, Unique, Cookies, LeadsTo, Holds, RightOwner,
     Places, HasFD, Owned, ToClose, ClosedOnce, NoLeak
<1>3. WatchTypes'
  BY <1>1 DEF EventInv, WatchTypes
<1> QED
  BY <1>2, <1>3 DEF EventInv

LEMMA PipeHasEventKeeps ==
  ASSUME EventInv, PipeHasEvent
  PROVE  EventInv'
<1>1. /\ s_epoll_events' = s_epoll_events \ {Pipe}
      /\ pipe' \in 0 .. pipe
      /\ open' = open \ ToClose
      /\ data' = data \ ToClose
      /\ s_FDsToCloseArray' = <<>>
      /\ UNCHANGED <<backlog, conns, sends, errors, watched, ready, s_CookieArray,
                    fFileDesc, fUniqueID, fRefTable, sUniqueID, et, theCurrentEvent,
                    resolved, theSocket, task, fEvents>>
  BY Constants DEF PipeHasEvent, Drained, Closed, Reset, PipeTypes, EventInv,
     netVars, shimVars, ctxVars, etVars
<1>2. (ContextTypes /\ ThreadTypes /\ Budget /\ Fresh /\ Unique /\ Cookies /\
      Holds /\ RightOwner /\ Places)'
  BY <1>1 DEF EventInv, ContextTypes, ThreadTypes, Budget, Fresh, Unique,
     Cookies, LeadsTo, Holds, RightOwner, Places, HasFD
<1>3. NetTypes'
  BY <1>1 DEF EventInv, NetTypes
<1>4. WatchTypes'
  BY <1>1 DEF EventInv, WatchTypes
<1>5. PipeTypes'
  BY <1>1, Constants DEF EventInv, PipeTypes
<1>6. CloseTypes'
  BY <1>1 DEF EventInv, CloseTypes
<1>7. Owned'
  BY <1>1 DEF EventInv, Owned, ToClose
<1>8. ClosedOnce'
  BY <1>1 DEF EventInv, ClosedOnce, ToClose
<1>9. NoLeak'
  BY <1>1 DEF EventInv, NoLeak, ToClose
<1> QED
  BY <1>2, <1>3, <1>4, <1>5, <1>6, <1>7, <1>8, <1>9 DEF EventInv

LEMMA ConstructEventReqKeeps ==
  ASSUME EventInv, NEW f \in Sockets, ConstructEventReq(f)
  PROVE  EventInv'
<1>1. /\ et = "wait"
      /\ s_epoll_events' = s_epoll_events \ {f}
      /\ theCurrentEvent' = [er_handle |-> f, er_data |-> s_CookieArray[f]]
      /\ et' = IF s_CookieArray[f] = 0 THEN "wait" ELSE "resolve"
      /\ UNCHANGED <<backlog, conns, sends, errors, open, data, watched, ready, pipe,
                    s_CookieArray, s_FDsToCloseArray, fFileDesc, fUniqueID, fRefTable,
                    sUniqueID, resolved, theSocket, task, fEvents>>
  BY DEF ConstructEventReq, netVars, shimVars, ctxVars, etVars
<1>2. (NetTypes /\ PipeTypes /\ CloseTypes /\ ContextTypes /\ Unique /\ Places
      /\ Owned /\ ClosedOnce /\ NoLeak)'
  BY <1>1 DEF EventInv, NetTypes, PipeTypes, CloseTypes, ContextTypes, Unique,
     Places, HasFD, Owned, ToClose, ClosedOnce, NoLeak
<1>3. WatchTypes'
  BY <1>1 DEF EventInv, WatchTypes
<1>4. ThreadTypes'
  BY <1>1 DEF EventInv, ThreadTypes, WatchTypes
<1>5. Budget'
  BY <1>1 DEF EventInv, Budget
<1>6. Fresh'
  BY <1>1 DEF EventInv, Fresh
<1>7. Cookies'
  BY <1>1 DEF EventInv, Cookies, LeadsTo
<1>8. Holds'
  BY <1>1 DEF EventInv, Holds
<1>9. RightOwner'
  BY <1>1 DEF EventInv, RightOwner, Holds
<1> QED
  BY <1>2, <1>3, <1>4, <1>5, <1>6, <1>7, <1>8, <1>9 DEF EventInv

LEMMA ResolveKeeps ==
  ASSUME EventInv, Resolve
  PROVE  EventInv'
<1>1. /\ et = "resolve"
      /\ \/ \E c \in fRefTable :
              /\ fUniqueID[c] = theCurrentEvent.er_data
              /\ resolved' = c
              /\ et' = IF c = Listener THEN "accept" ELSE "signal"
         \/ et' = "wait" /\ resolved' = resolved
      /\ et' # "resolve"
      /\ UNCHANGED <<backlog, conns, sends, errors, open, data, watched, ready, pipe,
                    s_epoll_events, s_CookieArray, s_FDsToCloseArray, fFileDesc, fUniqueID,
                    fRefTable, sUniqueID, theCurrentEvent, theSocket, task, fEvents>>
  BY DEF Resolve, netVars, shimVars, ctxVars, etVars
<1>2. (NetTypes /\ WatchTypes /\ PipeTypes /\ CloseTypes /\ ContextTypes /\
      Fresh /\ Unique /\ Places /\ Owned /\ ClosedOnce /\ NoLeak)'
  BY <1>1 DEF EventInv, NetTypes, WatchTypes, PipeTypes, CloseTypes,
     ContextTypes, Fresh, Unique, Places, HasFD, Owned, ToClose, ClosedOnce,
     NoLeak
<1>3. ThreadTypes'
  BY <1>1, Constants DEF EventInv, ThreadTypes, ContextTypes
<1>4. Budget'
  BY <1>1 DEF EventInv, Budget
<1>5. Cookies'
  BY <1>1 DEF EventInv, Cookies, LeadsTo
<1>6. Holds'
  BY <1>1, Constants DEF EventInv, Holds, ContextTypes
<1>7. RightOwner'
  BY <1>1, Constants DEF EventInv, RightOwner, Holds, Cookies, LeadsTo, Places,
     HasFD, ContextTypes
<1> QED
  BY <1>2, <1>3, <1>4, <1>5, <1>6, <1>7 DEF EventInv

LEMMA SignalSessionKeeps ==
  ASSUME EventInv, SignalSession
  PROVE  EventInv'
<1>1. /\ et = "signal"
      /\ fEvents' = [fEvents EXCEPT ![resolved] = @ \cup {R}]
      /\ et' = "release"
      /\ UNCHANGED <<backlog, conns, sends, errors, open, data, watched, ready, pipe,
                    s_epoll_events, s_CookieArray, s_FDsToCloseArray, fFileDesc, fUniqueID,
                    fRefTable, sUniqueID, theCurrentEvent, resolved, theSocket, task>>
  BY DEF SignalSession, netVars, shimVars, ctxVars, etVars
<1>2. (NetTypes /\ WatchTypes /\ PipeTypes /\ CloseTypes /\ ContextTypes /\
      Fresh /\ Unique /\ RightOwner /\ Owned /\ ClosedOnce /\ NoLeak)'
  BY <1>1 DEF EventInv, NetTypes, WatchTypes, PipeTypes, CloseTypes,
     ContextTypes, Fresh, Unique, RightOwner, Owned, ToClose, ClosedOnce, NoLeak
<1>3. ThreadTypes'
  BY <1>1 DEF EventInv, ThreadTypes
<1>4. Budget'
  BY <1>1 DEF EventInv, Budget
<1>5. Cookies'
  BY <1>1 DEF EventInv, Cookies, LeadsTo
<1>6. Holds'
  BY <1>1 DEF EventInv, Holds
<1>7. Places'
  BY <1>1, Constants DEF EventInv, Places, HasFD, ThreadTypes, Holds, RightOwner
<1> QED
  BY <1>2, <1>3, <1>4, <1>5, <1>6, <1>7 DEF EventInv

LEMMA ReleaseKeeps ==
  ASSUME EventInv, Release
  PROVE  EventInv'
<1>1. /\ et = "release"
      /\ resolved' = Nobody
      /\ et' = "wait"
      /\ UNCHANGED <<backlog, conns, sends, errors, open, data, watched, ready, pipe,
                    s_epoll_events, s_CookieArray, s_FDsToCloseArray, fFileDesc, fUniqueID,
                    fRefTable, sUniqueID, theCurrentEvent, theSocket, task, fEvents>>
  BY DEF Release, netVars, shimVars, ctxVars, etVars
<1>2. (NetTypes /\ WatchTypes /\ PipeTypes /\ CloseTypes /\ ContextTypes /\
      Fresh /\ Unique /\ Places /\ Owned /\ ClosedOnce /\ NoLeak)'
  BY <1>1 DEF EventInv, NetTypes, WatchTypes, PipeTypes, CloseTypes,
     ContextTypes, Fresh, Unique, Places, HasFD, Owned, ToClose, ClosedOnce,
     NoLeak
<1>3. ThreadTypes'
  BY <1>1 DEF EventInv, ThreadTypes
<1>4. Budget'
  BY <1>1 DEF EventInv, Budget
<1>5. Cookies'
  BY <1>1 DEF EventInv, Cookies, LeadsTo
<1>6. Holds'
  BY <1>1 DEF EventInv, Holds
<1>7. RightOwner'
  BY <1>1 DEF EventInv, RightOwner
<1> QED
  BY <1>2, <1>3, <1>4, <1>5, <1>6, <1>7 DEF EventInv

LEMMA AcceptNothingKeeps ==
  ASSUME EventInv, AcceptNothing
  PROVE  EventInv'
<1>1. /\ et = "accept"
      /\ et' = "rearm"
      /\ UNCHANGED <<backlog, conns, sends, errors, open, data, watched, ready, pipe,
                    s_epoll_events, s_CookieArray, s_FDsToCloseArray, fFileDesc, fUniqueID,
                    fRefTable, sUniqueID, theCurrentEvent, resolved, theSocket, task,
                    fEvents>>
  BY DEF AcceptNothing, netVars, shimVars, ctxVars, etVars
<1>2. (NetTypes /\ WatchTypes /\ PipeTypes /\ CloseTypes /\ ContextTypes /\
      Fresh /\ Unique /\ RightOwner /\ Places /\ Owned /\ ClosedOnce /\ NoLeak)'
  BY <1>1 DEF EventInv, NetTypes, WatchTypes, PipeTypes, CloseTypes,
     ContextTypes, Fresh, Unique, RightOwner, Places, HasFD, Owned, ToClose,
     ClosedOnce, NoLeak
<1>3. ThreadTypes'
  BY <1>1 DEF EventInv, ThreadTypes
<1>4. Budget'
  BY <1>1 DEF EventInv, Budget
<1>5. Cookies'
  BY <1>1 DEF EventInv, Cookies, LeadsTo
<1>6. Holds'
  BY <1>1 DEF EventInv, Holds
<1> QED
  BY <1>2, <1>3, <1>4, <1>5, <1>6 DEF EventInv

LEMMA AcceptExitsKeeps ==
  ASSUME EventInv, AcceptExits
  PROVE  EventInv'
<1>1. /\ et = "accept"
      /\ et' = "exit"
      /\ UNCHANGED <<backlog, conns, sends, errors, open, data, watched, ready, pipe,
                    s_epoll_events, s_CookieArray, s_FDsToCloseArray, fFileDesc, fUniqueID,
                    fRefTable, sUniqueID, theCurrentEvent, resolved, theSocket, task,
                    fEvents>>
  BY DEF AcceptExits, netVars, shimVars, ctxVars, etVars
<1>2. (NetTypes /\ WatchTypes /\ PipeTypes /\ CloseTypes /\ ContextTypes /\
      Fresh /\ Unique /\ RightOwner /\ Places /\ Owned /\ ClosedOnce /\ NoLeak)'
  BY <1>1 DEF EventInv, NetTypes, WatchTypes, PipeTypes, CloseTypes,
     ContextTypes, Fresh, Unique, RightOwner, Places, HasFD, Owned, ToClose,
     ClosedOnce, NoLeak
<1>3. ThreadTypes'
  BY <1>1 DEF EventInv, ThreadTypes
<1>4. Budget'
  BY <1>1 DEF EventInv, Budget
<1>5. Cookies'
  BY <1>1 DEF EventInv, Cookies, LeadsTo
<1>6. Holds'
  BY <1>1 DEF EventInv, Holds
<1> QED
  BY <1>2, <1>3, <1>4, <1>5, <1>6 DEF EventInv

LEMMA AcceptFailsKeeps ==
  ASSUME EventInv, NEW s \in Sessions, AcceptFails(s)
  PROVE  EventInv'
<1>1. /\ et = "accept"
      /\ backlog > 0
      /\ task[s] = "free"
      /\ errors < MaxErrors /\ errors' = errors + 1
      /\ backlog' = backlog - 1
      /\ task' = [task EXCEPT ![s] = "rest"]
      /\ fEvents' = [fEvents EXCEPT ![s] = {K}]
      /\ theSocket' = s
      /\ et' = "disconnect"
      /\ UNCHANGED <<conns, sends, open, data, watched, ready, pipe, s_epoll_events,
                    s_CookieArray, s_FDsToCloseArray, fFileDesc, fUniqueID, fRefTable,
                    sUniqueID, theCurrentEvent, resolved>>
  BY DEF AcceptFails, netVars, shimVars, ctxVars, etVars
<1>2. (WatchTypes /\ PipeTypes /\ CloseTypes /\ ContextTypes /\ Fresh /\ Unique
      /\ Owned /\ ClosedOnce /\ NoLeak)'
  BY <1>1 DEF EventInv, WatchTypes, PipeTypes, CloseTypes, ContextTypes, Fresh,
     Unique, Owned, ToClose, ClosedOnce, NoLeak
<1>3. NetTypes'
  BY <1>1, Constants DEF EventInv, NetTypes
<1>4. ThreadTypes'
  BY <1>1 DEF EventInv, ThreadTypes
<1>5. Budget'
  BY <1>1, Constants DEF EventInv, Budget, NetTypes, ContextTypes, Ids
<1>6. Cookies'
  BY <1>1 DEF EventInv, Cookies, LeadsTo
<1>7. Holds'
  BY <1>1 DEF EventInv, Holds
<1>8. RightOwner'
  BY <1>1, Constants DEF EventInv, RightOwner, Holds, ThreadTypes
<1>9. Places'
  BY <1>1 DEF EventInv, Places, HasFD, ThreadTypes
<1> QED
  BY <1>2, <1>3, <1>4, <1>5, <1>6, <1>7, <1>8, <1>9 DEF EventInv

LEMMA DisconnectSocketKeeps ==
  ASSUME EventInv, DisconnectSocket
  PROVE  EventInv'
<1>1. /\ et = "disconnect"
      /\ theSocket' = Nobody
      /\ et' = "release"
      /\ UNCHANGED <<backlog, conns, sends, errors, open, data, watched, ready, pipe,
                    s_epoll_events, s_CookieArray, s_FDsToCloseArray, fFileDesc, fUniqueID,
                    fRefTable, sUniqueID, theCurrentEvent, resolved, task, fEvents>>
  BY DEF DisconnectSocket, netVars, shimVars, ctxVars, etVars
<1>2. (NetTypes /\ WatchTypes /\ PipeTypes /\ CloseTypes /\ ContextTypes /\
      Fresh /\ Unique /\ RightOwner /\ Places /\ Owned /\ ClosedOnce /\ NoLeak)'
  BY <1>1 DEF EventInv, NetTypes, WatchTypes, PipeTypes, CloseTypes,
     ContextTypes, Fresh, Unique, RightOwner, Places, HasFD, Owned, ToClose,
     ClosedOnce, NoLeak
<1>3. ThreadTypes'
  BY <1>1 DEF EventInv, ThreadTypes
<1>4. Budget'
  BY <1>1 DEF EventInv, Budget
<1>5. Cookies'
  BY <1>1 DEF EventInv, Cookies, LeadsTo
<1>6. Holds'
  BY <1>1 DEF EventInv, Holds
<1> QED
  BY <1>2, <1>3, <1>4, <1>5, <1>6 DEF EventInv

LEMMA AcceptKeeps ==
  ASSUME EventInv, NEW s \in Sessions, NEW f \in FDs, Accept(s, f)
  PROVE  EventInv'
<1>1. /\ et = "accept"
      /\ backlog > 0
      /\ task[s] = "free"
      /\ f \notin open
      /\ backlog' = backlog - 1
      /\ open' = open \cup {f}
      /\ task' = [task EXCEPT ![s] = "rest"]
      /\ fFileDesc' = [fFileDesc EXCEPT ![s] = f]
      /\ theSocket' = s
      /\ et' = "watch"
      /\ UNCHANGED <<conns, sends, errors, data, watched, ready, pipe, s_epoll_events,
                    s_CookieArray, s_FDsToCloseArray, fUniqueID, fRefTable, sUniqueID,
                    theCurrentEvent, resolved, fEvents>>
  BY DEF Accept, netVars, shimVars, ctxVars, etVars
<1>2. (WatchTypes /\ PipeTypes /\ CloseTypes /\ Fresh /\ Unique)'
  BY <1>1 DEF EventInv, WatchTypes, PipeTypes, CloseTypes, Fresh, Unique
<1>3. NetTypes'
  BY <1>1, Constants DEF EventInv, NetTypes
<1>4. ContextTypes'
  BY <1>1, Constants DEF EventInv, ContextTypes
<1>5. ThreadTypes'
  BY <1>1 DEF EventInv, ThreadTypes
<1>6. Budget'
  BY <1>1, Constants DEF EventInv, Budget, NetTypes, ContextTypes, Ids
<1>7. Cookies'
  BY <1>1, Constants DEF EventInv, Cookies, LeadsTo, Places, HasFD, ContextTypes
<1>8. Holds'
  BY <1>1, Constants DEF EventInv, Holds, Places, HasFD, ThreadTypes
<1>9. RightOwner'
  BY <1>1, Constants DEF EventInv, RightOwner, Holds, ThreadTypes, ContextTypes
<1>10. Places'
  BY <1>1, Constants DEF EventInv, Places, HasFD, ThreadTypes, ContextTypes
<1>11. Owned'
  <2>1. \A c \in Contexts : fFileDesc[c] # f
    BY <1>1, Constants DEF EventInv, Owned
  <2>2. \A c \in Contexts : fFileDesc'[c] = IF c = s THEN f ELSE fFileDesc[c]
    BY <1>1 DEF EventInv, ContextTypes
  <2>3. f \notin ToClose /\ ToClose' = ToClose
    BY <1>1 DEF EventInv, ClosedOnce, ToClose
  <2> QED
    BY <1>1, <2>1, <2>2, <2>3 DEF EventInv, Owned
<1>12. ClosedOnce'
  BY <1>1, Constants DEF EventInv, ClosedOnce, ToClose, ContextTypes
<1>13. NoLeak'
  <2>1. \A c \in Contexts : fFileDesc'[c] = IF c = s THEN f ELSE fFileDesc[c]
    BY <1>1 DEF EventInv, ContextTypes
  <2>2. ToClose' = ToClose /\ fFileDesc[s] = NoFD /\ s \in Contexts
    BY <1>1, Constants DEF EventInv, Places, HasFD, ToClose
  <2>3. \A c \in Contexts : fFileDesc[c] # f
    BY <1>1, Constants DEF EventInv, Owned
  <2>4. \A g \in open : g # NoFD
    BY Constants DEF EventInv, NetTypes
  <2> SUFFICES ASSUME NEW g \in (open \cup {f}) \ ToClose
               PROVE  \E c \in Contexts : /\ fFileDesc'[c] = g
                                          /\ \A d \in Contexts : fFileDesc'[d] = g => d = c
    BY <1>1, <2>2 DEF NoLeak
  <2>5. CASE g = f
    BY <2>1, <2>2, <2>3, <2>5
  <2>6. CASE g # f
    BY <2>1, <2>2, <2>4, <2>6 DEF EventInv, NoLeak
  <2> QED
    BY <2>5, <2>6
<1> QED
  BY <1>2, <1>3, <1>4, <1>5, <1>6, <1>7, <1>8, <1>9, <1>10, <1>11, <1>12, <1>13
     DEF EventInv

LEMMA WatchSessionKeeps ==
  ASSUME EventInv, WatchSession, EnoughIds
  PROVE  EventInv'
<1>1. /\ et = "watch"
      /\ sUniqueID < MaxId
      /\ theSocket \in Sessions /\ fFileDesc[theSocket] \in FDs /\ HasFD(theSocket)
      /\ sUniqueID' = sUniqueID + 1
      /\ fUniqueID' = [fUniqueID EXCEPT ![theSocket] = sUniqueID + 1]
      /\ fRefTable' = fRefTable \cup {theSocket}
      /\ s_CookieArray' = [s_CookieArray EXCEPT ![fFileDesc[theSocket]] = sUniqueID + 1]
      /\ watched' = watched \cup {fFileDesc[theSocket]}
      /\ ready' \subseteq ready \cup {fFileDesc[theSocket]}
      /\ et' = "watched"
      /\ UNCHANGED <<backlog, conns, sends, errors, open, data, pipe, s_epoll_events,
                    s_FDsToCloseArray, fFileDesc, theCurrentEvent, resolved, theSocket,
                    task, fEvents>>
  <2>1. sUniqueID \in Nat /\ sUniqueID < MaxId /\ et = "watch"
    BY Constants DEF WatchSession, EnoughIds, EventInv, Budget, NetTypes, ContextTypes, Ids
  <2>2. NextId = sUniqueID + 1
    BY <2>1, Constants DEF NextId
  <2>3. \A c \in fRefTable : fUniqueID[c] # sUniqueID + 1
    BY <2>1 DEF EventInv, Fresh, ContextTypes
  <2>4. fRefTable' = fRefTable \cup {theSocket}
    BY <2>2, <2>3 DEF WatchSession, Register
  <2>5. theSocket \in Sessions /\ HasFD(theSocket) /\ fFileDesc[theSocket] \in FDs
    BY <2>1 DEF EventInv, Holds, Places, HasFD
  <2> QED
    BY <2>1, <2>2, <2>4, <2>5 DEF WatchSession, Watchevent, SetCookie, Armed,
       netVars, shimVars, ctxVars, etVars
<1>2. (NetTypes /\ PipeTypes /\ CloseTypes /\ Owned /\ ClosedOnce /\ NoLeak)'
  BY <1>1 DEF EventInv, NetTypes, PipeTypes, CloseTypes, Owned, ToClose,
     ClosedOnce, NoLeak
<1>3. WatchTypes'
  <2>1. sUniqueID \in Ids
    BY DEF EventInv, ContextTypes
  <2>2. sUniqueID + 1 \in Ids
    BY <1>1, <2>1, Constants DEF Ids
  <2>3. fFileDesc[theSocket] \in Sockets
    BY <1>1, Constants
  <2> QED
    BY <1>1, <2>2, <2>3 DEF EventInv, WatchTypes
<1>4. ContextTypes'
  BY <1>1, Constants DEF EventInv, ContextTypes, Ids, Holds
<1>5. ThreadTypes'
  BY <1>1 DEF EventInv, ThreadTypes
<1>6. Budget'
  BY <1>1, Constants DEF EventInv, Budget, NetTypes, ContextTypes, Ids
<1>7. Fresh'
  BY <1>1, Constants DEF EventInv, Fresh, ContextTypes, WatchTypes, ThreadTypes,
     Ids
<1>8. Unique'
  <2>1. \A c \in Contexts : fUniqueID'[c] = IF c = theSocket THEN sUniqueID + 1 ELSE fUniqueID[c]
    BY <1>1 DEF EventInv, ContextTypes
  <2>2. \A c \in Contexts : fUniqueID[c] # sUniqueID + 1
    BY Constants DEF EventInv, Fresh, ContextTypes, Ids
  <2> QED
    BY <2>1, <2>2 DEF EventInv, Unique
<1>9. Cookies'
  <2>1. \A c \in Contexts : fUniqueID'[c] = IF c = theSocket THEN sUniqueID + 1 ELSE fUniqueID[c]
    BY <1>1 DEF EventInv, ContextTypes
  <2>2. \A c \in Contexts : fUniqueID[c] # sUniqueID + 1
    BY Constants DEF EventInv, Fresh, ContextTypes, Ids
  <2>3. \A f \in Sockets : s_CookieArray'[f] = IF f = fFileDesc[theSocket] THEN sUniqueID + 1
                                                                     ELSE s_CookieArray[f]
    BY <1>1 DEF EventInv, WatchTypes
  <2>4. \A f \in Sockets : s_CookieArray[f] # sUniqueID + 1
    BY Constants DEF EventInv, Fresh, ContextTypes, Ids
  <2>5. ASSUME NEW f \in Sockets, s_CookieArray'[f] # 0
        PROVE  \A c \in Contexts : fUniqueID'[c] = s_CookieArray'[f] => fFileDesc[c] = f
    BY <1>1, <2>1, <2>2, <2>3, <2>4, <2>5 DEF EventInv, Cookies, LeadsTo
  <2> QED
    BY <1>1, <2>5 DEF Cookies, LeadsTo
<1>10. Holds'
  BY <1>1 DEF EventInv, Holds
<1>11. RightOwner'
  BY <1>1 DEF EventInv, RightOwner
<1>12. Places'
  <2>1. \A c \in Contexts : fUniqueID'[c] = IF c = theSocket THEN sUniqueID + 1 ELSE fUniqueID[c]
    BY <1>1 DEF EventInv, ContextTypes
  <2>2. \A s \in Sessions : task[s] = "remove" => s # theSocket
    BY <1>1 DEF EventInv, Holds
  <2>3. \A s \in Sessions : HasFD(s)' <=> HasFD(s)
    BY <1>1 DEF HasFD
  <2> QED
    BY <1>1, <2>1, <2>2, <2>3, Constants DEF EventInv, Places
<1> QED
  BY <1>2, <1>3, <1>4, <1>5, <1>6, <1>7, <1>8, <1>9, <1>10, <1>11, <1>12 DEF
     EventInv

LEMMA WriteWatchedKeeps ==
  ASSUME EventInv, WriteWatched
  PROVE  EventInv'
<1>1. /\ et = "watched"
      /\ pipe < PipeCap
      /\ pipe' = pipe + 1
      /\ ready' = ready \cup {Pipe}
      /\ theSocket' = Nobody
      /\ et' = "rearm"
      /\ UNCHANGED <<backlog, conns, sends, errors, open, data, watched, s_epoll_events,
                    s_CookieArray, s_FDsToCloseArray, fFileDesc, fUniqueID, fRefTable,
                    sUniqueID, theCurrentEvent, resolved, task, fEvents>>
  BY DEF WriteWatched, WritePipe, netVars, shimVars, ctxVars, etVars
<1>2. (NetTypes /\ CloseTypes /\ ContextTypes /\ Fresh /\ Unique /\ RightOwner
      /\ Places /\ Owned /\ ClosedOnce /\ NoLeak)'
  BY <1>1 DEF EventInv, NetTypes, CloseTypes, ContextTypes, Fresh, Unique,
     RightOwner, Places, HasFD, Owned, ToClose, ClosedOnce, NoLeak
<1>3. WatchTypes'
  BY <1>1 DEF EventInv, WatchTypes
<1>4. PipeTypes'
  BY <1>1, Constants DEF EventInv, PipeTypes
<1>5. ThreadTypes'
  BY <1>1 DEF EventInv, ThreadTypes
<1>6. Budget'
  BY <1>1 DEF EventInv, Budget
<1>7. Cookies'
  BY <1>1 DEF EventInv, Cookies, LeadsTo
<1>8. Holds'
  BY <1>1 DEF EventInv, Holds
<1> QED
  BY <1>2, <1>3, <1>4, <1>5, <1>6, <1>7, <1>8 DEF EventInv

LEMMA RearmListenerKeeps ==
  ASSUME EventInv, RearmListener
  PROVE  EventInv'
<1>1. /\ et = "rearm"
      /\ ready' \subseteq ready \cup {fFileDesc[Listener]}
      /\ s_CookieArray' = [s_CookieArray EXCEPT ![fFileDesc[Listener]] = fUniqueID[Listener]]
      /\ et' = "rearmed"
      /\ UNCHANGED <<backlog, conns, sends, errors, open, data, watched, pipe,
                    s_epoll_events, s_FDsToCloseArray, fFileDesc, fUniqueID, fRefTable,
                    sUniqueID, theCurrentEvent, resolved, theSocket, task, fEvents>>
  BY DEF RearmListener, Modwatch, SetCookie, Armed, netVars, shimVars, ctxVars,
     etVars
<1>2. (NetTypes /\ PipeTypes /\ CloseTypes /\ ContextTypes /\ Unique /\
      RightOwner /\ Places /\ Owned /\ ClosedOnce /\ NoLeak)'
  BY <1>1 DEF EventInv, NetTypes, PipeTypes, CloseTypes, ContextTypes, Unique,
     RightOwner, Places, HasFD, Owned, ToClose, ClosedOnce, NoLeak
<1>3. WatchTypes'
  BY <1>1, Constants DEF EventInv, WatchTypes, ContextTypes, Places, HasFD
<1>4. ThreadTypes'
  BY <1>1 DEF EventInv, ThreadTypes
<1>5. Budget'
  BY <1>1 DEF EventInv, Budget
<1>6. Fresh'
  BY <1>1, Constants DEF EventInv, Fresh, ContextTypes, WatchTypes
<1>7. Cookies'
  BY <1>1, Constants DEF EventInv, Cookies, LeadsTo, Unique, ContextTypes,
     WatchTypes
<1>8. Holds'
  BY <1>1 DEF EventInv, Holds
<1> QED
  BY <1>2, <1>3, <1>4, <1>5, <1>6, <1>7, <1>8 DEF EventInv

LEMMA WriteRearmedKeeps ==
  ASSUME EventInv, WriteRearmed
  PROVE  EventInv'
<1>1. /\ et = "rearmed"
      /\ pipe < PipeCap
      /\ pipe' = pipe + 1
      /\ ready' = ready \cup {Pipe}
      /\ et' = "release"
      /\ UNCHANGED <<backlog, conns, sends, errors, open, data, watched, s_epoll_events,
                    s_CookieArray, s_FDsToCloseArray, fFileDesc, fUniqueID, fRefTable,
                    sUniqueID, theCurrentEvent, resolved, theSocket, task, fEvents>>
  BY DEF WriteRearmed, WritePipe, netVars, shimVars, ctxVars, etVars
<1>2. (NetTypes /\ CloseTypes /\ ContextTypes /\ Fresh /\ Unique /\ RightOwner
      /\ Places /\ Owned /\ ClosedOnce /\ NoLeak)'
  BY <1>1 DEF EventInv, NetTypes, CloseTypes, ContextTypes, Fresh, Unique,
     RightOwner, Places, HasFD, Owned, ToClose, ClosedOnce, NoLeak
<1>3. WatchTypes'
  BY <1>1 DEF EventInv, WatchTypes
<1>4. PipeTypes'
  BY <1>1, Constants DEF EventInv, PipeTypes
<1>5. ThreadTypes'
  BY <1>1 DEF EventInv, ThreadTypes
<1>6. Budget'
  BY <1>1 DEF EventInv, Budget
<1>7. Cookies'
  BY <1>1 DEF EventInv, Cookies, LeadsTo
<1>8. Holds'
  BY <1>1 DEF EventInv, Holds
<1> QED
  BY <1>2, <1>3, <1>4, <1>5, <1>6, <1>7, <1>8 DEF EventInv

LEMMA RunKeeps ==
  ASSUME EventInv, NEW s \in Sessions, Run(s)
  PROVE  EventInv'
<1>1. /\ task[s] = "rest"
      /\ fEvents[s] # {}
      /\ K \notin fEvents[s]
      /\ \E to \in {"arm", "unregister"} : task' = [task EXCEPT ![s] = to]
      /\ data' = data \ {fFileDesc[s]}
      /\ fEvents' = [fEvents EXCEPT ![s] = {}]
      /\ UNCHANGED <<backlog, conns, sends, errors, open, watched, ready, pipe,
                    s_epoll_events, s_CookieArray, s_FDsToCloseArray, fFileDesc, fUniqueID,
                    fRefTable, sUniqueID, et, theCurrentEvent, resolved, theSocket>>
  BY DEF Run, Step, netVars, shimVars, ctxVars, etVars
<1>2. (WatchTypes /\ PipeTypes /\ CloseTypes /\ ContextTypes /\ Budget /\ Fresh
      /\ Unique /\ Cookies /\ Owned /\ ClosedOnce /\ NoLeak)'
  BY <1>1 DEF EventInv, WatchTypes, PipeTypes, CloseTypes, ContextTypes, Budget,
     Fresh, Unique, Cookies, LeadsTo, Owned, ToClose, ClosedOnce, NoLeak
<1>3. NetTypes'
  BY <1>1 DEF EventInv, NetTypes
<1>4. ThreadTypes'
  BY <1>1 DEF EventInv, ThreadTypes
<1>5. Holds'
  BY <1>1 DEF EventInv, Holds, ThreadTypes
<1>6. RightOwner'
  BY <1>1 DEF EventInv, RightOwner, ThreadTypes
<1>7. Places'
  BY <1>1 DEF EventInv, Places, HasFD, ThreadTypes
<1> QED
  BY <1>2, <1>3, <1>4, <1>5, <1>6, <1>7 DEF EventInv

LEMMA RunKilledKeeps ==
  ASSUME EventInv, NEW s \in Sessions, RunKilled(s)
  PROVE  EventInv'
<1>1. /\ task[s] = "rest"
      /\ K \in fEvents[s]
      /\ task' = [task EXCEPT ![s] = "free"]
      /\ fEvents' = [fEvents EXCEPT ![s] = {}]
      /\ UNCHANGED <<backlog, conns, sends, errors, open, data, watched, ready, pipe,
                    s_epoll_events, s_CookieArray, s_FDsToCloseArray, fFileDesc, fUniqueID,
                    fRefTable, sUniqueID, et, theCurrentEvent, resolved, theSocket>>
  BY DEF RunKilled, Step, netVars, shimVars, ctxVars, etVars
<1>2. (NetTypes /\ WatchTypes /\ PipeTypes /\ CloseTypes /\ ContextTypes /\
      Budget /\ Fresh /\ Unique /\ Cookies /\ Owned /\ ClosedOnce /\ NoLeak)'
  BY <1>1 DEF EventInv, NetTypes, WatchTypes, PipeTypes, CloseTypes,
     ContextTypes, Budget, Fresh, Unique, Cookies, LeadsTo, Owned, ToClose,
     ClosedOnce, NoLeak
<1>3. ThreadTypes'
  BY <1>1 DEF EventInv, ThreadTypes
<1>4. Holds'
  BY <1>1 DEF EventInv, Holds, ThreadTypes
<1>5. RightOwner'
  BY <1>1 DEF EventInv, RightOwner, ThreadTypes, Places, HasFD
<1>6. Places'
  BY <1>1 DEF EventInv, Places, HasFD, ThreadTypes
<1> QED
  BY <1>2, <1>3, <1>4, <1>5, <1>6 DEF EventInv

LEMMA RequestEventKeeps ==
  ASSUME EventInv, NEW s \in Sessions, RequestEvent(s)
  PROVE  EventInv'
<1>1. /\ task[s] = "arm"
      /\ task' = [task EXCEPT ![s] = "armed"]
      /\ ready' \subseteq ready \cup {fFileDesc[s]}
      /\ s_CookieArray' = [s_CookieArray EXCEPT ![fFileDesc[s]] = fUniqueID[s]]
      /\ UNCHANGED <<backlog, conns, sends, errors, open, data, watched, pipe,
                    s_epoll_events, s_FDsToCloseArray, fFileDesc, fUniqueID, fRefTable,
                    sUniqueID, et, theCurrentEvent, resolved, theSocket, fEvents>>
  BY DEF RequestEvent, Step, Modwatch, SetCookie, Armed, netVars, shimVars,
     ctxVars, etVars
<1>2. (NetTypes /\ PipeTypes /\ CloseTypes /\ ContextTypes /\ Budget /\ Unique
      /\ Owned /\ ClosedOnce /\ NoLeak)'
  BY <1>1 DEF EventInv, NetTypes, PipeTypes, CloseTypes, ContextTypes, Budget,
     Unique, Owned, ToClose, ClosedOnce, NoLeak
<1>3. WatchTypes'
  BY <1>1, Constants DEF EventInv, WatchTypes, ContextTypes, Places, HasFD
<1>4. ThreadTypes'
  BY <1>1 DEF EventInv, ThreadTypes
<1>5. Fresh'
  BY <1>1, Constants DEF EventInv, Fresh, ContextTypes, WatchTypes
<1>6. Cookies'
  BY <1>1, Constants DEF EventInv, Cookies, LeadsTo, Unique, ContextTypes,
     WatchTypes
<1>7. Holds'
  BY <1>1 DEF EventInv, Holds, ThreadTypes
<1>8. RightOwner'
  BY <1>1 DEF EventInv, RightOwner, ThreadTypes
<1>9. Places'
  BY <1>1 DEF EventInv, Places, HasFD, ThreadTypes
<1> QED
  BY <1>2, <1>3, <1>4, <1>5, <1>6, <1>7, <1>8, <1>9 DEF EventInv

LEMMA WriteArmedKeeps ==
  ASSUME EventInv, NEW s \in Sessions, WriteArmed(s)
  PROVE  EventInv'
<1>1. /\ task[s] = "armed"
      /\ pipe < PipeCap
      /\ task' = [task EXCEPT ![s] = "rest"]
      /\ pipe' = pipe + 1
      /\ ready' = ready \cup {Pipe}
      /\ UNCHANGED <<backlog, conns, sends, errors, open, data, watched, s_epoll_events,
                    s_CookieArray, s_FDsToCloseArray, fFileDesc, fUniqueID, fRefTable,
                    sUniqueID, et, theCurrentEvent, resolved, theSocket, fEvents>>
  BY DEF WriteArmed, Step, WritePipe, netVars, shimVars, ctxVars, etVars
<1>2. (NetTypes /\ CloseTypes /\ ContextTypes /\ Budget /\ Fresh /\ Unique /\
      Cookies /\ Owned /\ ClosedOnce /\ NoLeak)'
  BY <1>1 DEF EventInv, NetTypes, CloseTypes, ContextTypes, Budget, Fresh,
     Unique, Cookies, LeadsTo, Owned, ToClose, ClosedOnce, NoLeak
<1>3. WatchTypes'
  BY <1>1 DEF EventInv, WatchTypes
<1>4. PipeTypes'
  BY <1>1, Constants DEF EventInv, PipeTypes
<1>5. ThreadTypes'
  BY <1>1 DEF EventInv, ThreadTypes
<1>6. Holds'
  BY <1>1 DEF EventInv, Holds, ThreadTypes
<1>7. RightOwner'
  BY <1>1 DEF EventInv, RightOwner, ThreadTypes
<1>8. Places'
  BY <1>1 DEF EventInv, Places, HasFD, ThreadTypes
<1> QED
  BY <1>2, <1>3, <1>4, <1>5, <1>6, <1>7, <1>8 DEF EventInv

LEMMA UnRegisterKeeps ==
  ASSUME EventInv, NEW s \in Sessions, UnRegister(s)
  PROVE  EventInv'
<1>1. /\ task[s] = "unregister"
      /\ resolved # s
      /\ task' = [task EXCEPT ![s] = "remove"]
      /\ fRefTable' = fRefTable \ {s}
      /\ UNCHANGED <<backlog, conns, sends, errors, open, data, watched, ready, pipe,
                    s_epoll_events, s_CookieArray, s_FDsToCloseArray, fFileDesc, fUniqueID,
                    sUniqueID, et, theCurrentEvent, resolved, theSocket, fEvents>>
  BY DEF UnRegister, Step, NotReferenced, netVars, shimVars, ctxVars, etVars
<1>2. (NetTypes /\ WatchTypes /\ PipeTypes /\ CloseTypes /\ Budget /\ Fresh /\
      Unique /\ Cookies /\ Owned /\ ClosedOnce /\ NoLeak)'
  BY <1>1 DEF EventInv, NetTypes, WatchTypes, PipeTypes, CloseTypes, Budget,
     Fresh, Unique, Cookies, LeadsTo, Owned, ToClose, ClosedOnce, NoLeak
<1>3. ContextTypes'
  BY <1>1 DEF EventInv, ContextTypes
<1>4. ThreadTypes'
  BY <1>1 DEF EventInv, ThreadTypes
<1>5. Holds'
  BY <1>1 DEF EventInv, Holds, ThreadTypes
<1>6. RightOwner'
  BY <1>1 DEF EventInv, RightOwner, ThreadTypes
<1>7. Places'
  BY <1>1 DEF EventInv, Places, HasFD, ThreadTypes
<1> QED
  BY <1>2, <1>3, <1>4, <1>5, <1>6, <1>7 DEF EventInv

LEMMA RemoveEventKeeps ==
  ASSUME EventInv, NEW s \in Sessions, RemoveEvent(s)
  PROVE  EventInv'
<1>1. /\ task[s] = "remove"
      /\ fFileDesc[s] \in FDs
      /\ s \notin fRefTable
      /\ s \in Contexts
      /\ task' = [task EXCEPT ![s] = "removed"]
      /\ watched' = watched \ {fFileDesc[s]}
      /\ ready' = ready \ {fFileDesc[s]}
      /\ s_CookieArray' = [s_CookieArray EXCEPT ![fFileDesc[s]] = 0]
      /\ s_FDsToCloseArray' = Append(s_FDsToCloseArray, fFileDesc[s])
      /\ fFileDesc' = [fFileDesc EXCEPT ![s] = NoFD]
      /\ fUniqueID' = [fUniqueID EXCEPT ![s] = 0]
      /\ UNCHANGED <<backlog, conns, sends, errors, open, data, pipe, s_epoll_events,
                    fRefTable, sUniqueID, et, theCurrentEvent, resolved, theSocket,
                    fEvents>>
  BY DEF RemoveEvent, Step, ClearCookie, Contexts, EventInv, Places, HasFD,
     netVars, shimVars, ctxVars, etVars
<1>2. (NetTypes /\ PipeTypes /\ Budget)'
  BY <1>1 DEF EventInv, NetTypes, PipeTypes, Budget
<1>3. WatchTypes'
  <2>1. 0 \in Ids
    BY Constants DEF Ids
  <2> QED
    BY <1>1, <2>1 DEF EventInv, WatchTypes
<1>4. CloseTypes'
  BY <1>1 DEF EventInv, CloseTypes
<1>5. ContextTypes'
  BY <1>1, Constants DEF EventInv, ContextTypes, Ids
<1>6. ThreadTypes'
  BY <1>1 DEF EventInv, ThreadTypes
<1>7. Fresh'
  <2>1. \A c \in Contexts : fUniqueID'[c] = IF c = s THEN 0 ELSE fUniqueID[c]
    BY <1>1 DEF EventInv, ContextTypes
  <2>2. \A f \in Sockets : s_CookieArray'[f] = IF f = fFileDesc[s] THEN 0 ELSE s_CookieArray[f]
    BY <1>1 DEF EventInv, WatchTypes
  <2>3. sUniqueID \in Nat
    BY Constants DEF EventInv, ContextTypes, Ids
  <2> QED
    BY <1>1, <2>1, <2>2, <2>3 DEF EventInv, Fresh
<1>8. Unique'
  BY <1>1 DEF EventInv, Unique
<1>9. Cookies'
  <2>1. \A c \in Contexts : fFileDesc'[c] = IF c = s THEN NoFD ELSE fFileDesc[c]
    BY <1>1 DEF EventInv, ContextTypes
  <2>2. \A c \in Contexts : fUniqueID'[c] = IF c = s THEN 0 ELSE fUniqueID[c]
    BY <1>1 DEF EventInv, ContextTypes
  <2>3. \A f \in Sockets : s_CookieArray'[f] = IF f = fFileDesc[s] THEN 0 ELSE s_CookieArray[f]
    BY <1>1 DEF EventInv, WatchTypes
  <2> QED
    BY <1>1, <2>1, <2>2, <2>3 DEF EventInv, Cookies, LeadsTo
<1>10. Holds'
  BY <1>1 DEF EventInv, Holds
<1>11. RightOwner'
  BY <1>1 DEF EventInv, RightOwner
<1>12. Places'
  <2>1. \A c \in Contexts : fFileDesc'[c] = IF c = s THEN NoFD ELSE fFileDesc[c]
    BY <1>1 DEF EventInv, ContextTypes
  <2>2. \A c \in Contexts : fUniqueID'[c] = IF c = s THEN 0 ELSE fUniqueID[c]
    BY <1>1 DEF EventInv, ContextTypes
  <2>3. \A r \in Sessions : task'[r] = IF r = s THEN "removed" ELSE task[r]
    BY <1>1 DEF EventInv, ThreadTypes
  <2>4. ASSUME NEW r \in Sessions PROVE HasFD(r)' <=> HasFD(r) /\ r # s
    BY <1>1, <2>3 DEF HasFD
  <2> QED
    BY <1>1, <2>1, <2>2, <2>3, <2>4, Constants DEF EventInv, Places
<1>13. Owned'
  <2>1. \A c \in Contexts : fFileDesc'[c] = IF c = s THEN NoFD ELSE fFileDesc[c]
    BY <1>1 DEF EventInv, ContextTypes
  <2>2. ToClose' = ToClose \cup {fFileDesc[s]}
    BY <1>1, AppendToClose DEF EventInv, CloseTypes
  <2> QED
    BY <1>1, <2>1, <2>2 DEF EventInv, Owned
<1>14. ClosedOnce'
  <2>1. \A c \in Contexts : fFileDesc'[c] = IF c = s THEN NoFD ELSE fFileDesc[c]
    BY <1>1 DEF EventInv, ContextTypes
  <2>2. ToClose' = ToClose \cup {fFileDesc[s]}
    BY <1>1, AppendToClose DEF EventInv, CloseTypes
  <2>3. fFileDesc[s] \in open \ ToClose
    <3>1. fFileDesc[s] # NoFD
      BY <1>1, Constants
    <3> QED
      BY <1>1, <3>1 DEF EventInv, Owned
  <2>4. \A c \in Contexts : fFileDesc'[c] \notin ToClose'
    <3>1. NoFD \notin ToClose /\ NoFD # fFileDesc[s]
      BY <1>1, Constants DEF EventInv, ClosedOnce, NetTypes
    <3> QED
      BY <1>1, <2>1, <2>2, <3>1, Constants DEF EventInv, ClosedOnce, Owned
  <2>5. \A i, k \in DOMAIN s_FDsToCloseArray' :
          s_FDsToCloseArray'[i] = s_FDsToCloseArray'[k] => i = k
    <3>1. /\ s_FDsToCloseArray \in Seq(FDs) /\ fFileDesc[s] \in FDs
          /\ s_FDsToCloseArray' = Append(s_FDsToCloseArray, fFileDesc[s])
      BY <1>1 DEF EventInv, CloseTypes
    <3>2. \A i \in DOMAIN s_FDsToCloseArray : s_FDsToCloseArray[i] # fFileDesc[s]
      BY <2>3 DEF ToClose
    <3>3. /\ DOMAIN s_FDsToCloseArray' = 1 .. Len(s_FDsToCloseArray) + 1
          /\ DOMAIN s_FDsToCloseArray = 1 .. Len(s_FDsToCloseArray)
          /\ Len(s_FDsToCloseArray) \in Nat
          /\ \A i \in 1 .. Len(s_FDsToCloseArray) : s_FDsToCloseArray'[i] = s_FDsToCloseArray[i]
          /\ s_FDsToCloseArray'[Len(s_FDsToCloseArray) + 1] = fFileDesc[s]
      BY <3>1, AppendProperties
    <3>4. \A i, k \in DOMAIN s_FDsToCloseArray :
            s_FDsToCloseArray[i] = s_FDsToCloseArray[k] => i = k
      BY DEF EventInv, ClosedOnce
    <3> QED
      BY <3>2, <3>3, <3>4
  <2> QED
    BY <1>1, <2>2, <2>3, <2>4, <2>5 DEF EventInv, ClosedOnce
<1>15. NoLeak'
  <2>1. \A c \in Contexts : fFileDesc'[c] = IF c = s THEN NoFD ELSE fFileDesc[c]
    BY <1>1 DEF EventInv, ContextTypes
  <2>2. ToClose' = ToClose \cup {fFileDesc[s]}
    BY <1>1, AppendToClose DEF EventInv, CloseTypes
  <2>3. \A g \in open : g # NoFD
    BY Constants DEF EventInv, NetTypes
  <2> SUFFICES ASSUME NEW g \in open \ ToClose, g # fFileDesc[s]
               PROVE  \E c \in Contexts : /\ fFileDesc'[c] = g
                                          /\ \A d \in Contexts : fFileDesc'[d] = g => d = c
    BY <1>1, <2>2 DEF NoLeak
  <2>4. PICK c \in Contexts : fFileDesc[c] = g /\ \A d \in Contexts : fFileDesc[d] = g => d = c
    BY DEF EventInv, NoLeak
  <2> QED
    BY <1>1, <2>1, <2>3, <2>4
<1> QED
  BY <1>2, <1>3, <1>4, <1>5, <1>6, <1>7, <1>8, <1>9, <1>10, <1>11, <1>12, <1>13,
     <1>14, <1>15 DEF EventInv

LEMMA WriteRemovedKeeps ==
  ASSUME EventInv, NEW s \in Sessions, WriteRemoved(s)
  PROVE  EventInv'
<1>1. /\ task[s] = "removed"
      /\ pipe < PipeCap
      /\ task' = [task EXCEPT ![s] = "free"]
      /\ fEvents' = [fEvents EXCEPT ![s] = {}]
      /\ pipe' = pipe + 1
      /\ ready' = ready \cup {Pipe}
      /\ UNCHANGED <<backlog, conns, sends, errors, open, data, watched, s_epoll_events,
                    s_CookieArray, s_FDsToCloseArray, fFileDesc, fUniqueID, fRefTable,
                    sUniqueID, et, theCurrentEvent, resolved, theSocket>>
  BY DEF WriteRemoved, Step, WritePipe, netVars, shimVars, ctxVars, etVars
<1>2. (NetTypes /\ CloseTypes /\ ContextTypes /\ Budget /\ Fresh /\ Unique /\
      Cookies /\ Owned /\ ClosedOnce /\ NoLeak)'
  BY <1>1 DEF EventInv, NetTypes, CloseTypes, ContextTypes, Budget, Fresh,
     Unique, Cookies, LeadsTo, Owned, ToClose, ClosedOnce, NoLeak
<1>3. WatchTypes'
  BY <1>1 DEF EventInv, WatchTypes
<1>4. PipeTypes'
  BY <1>1, Constants DEF EventInv, PipeTypes
<1>5. ThreadTypes'
  BY <1>1 DEF EventInv, ThreadTypes
<1>6. Holds'
  BY <1>1 DEF EventInv, Holds, ThreadTypes
<1>7. RightOwner'
  BY <1>1 DEF EventInv, RightOwner, ThreadTypes, Places, HasFD
<1>8. Places'
  BY <1>1 DEF EventInv, Places, HasFD, ThreadTypes
<1> QED
  BY <1>2, <1>3, <1>4, <1>5, <1>6, <1>7, <1>8 DEF EventInv

-----------------------------------------------------------------------------
LEMMA EventInvInit == Init => EventInv
<1> SUFFICES ASSUME Init PROVE EventInv
  OBVIOUS
<1>1. NetTypes /\ WatchTypes /\ PipeTypes /\ CloseTypes
  BY Constants DEF Init, NetTypes, WatchTypes, PipeTypes, CloseTypes, Ids
<1>2. ContextTypes /\ ThreadTypes
  BY Constants DEF Init, ContextTypes, ThreadTypes, Ids, NoEvent
<1>3. Budget /\ Fresh /\ Unique /\ Cookies
  BY Constants DEF Init, Budget, Fresh, Unique, Cookies, LeadsTo, NoEvent
<1>4. Holds /\ RightOwner /\ Places
  BY Constants DEF Init, Holds, RightOwner, Places, HasFD
<1>5. Owned /\ ClosedOnce /\ NoLeak
  BY Constants DEF Init, Owned, ClosedOnce, NoLeak, ToClose
<1> QED
  BY <1>1, <1>2, <1>3, <1>4, <1>5 DEF EventInv

LEMMA EventInvStep == EnoughIds /\ EventInv /\ [Next]_vars => EventInv'
<1> SUFFICES ASSUME EnoughIds, EventInv, [Next]_vars PROVE EventInv'
  OBVIOUS
<1>1. CASE Clients
  BY <1>1, ClientConnectsKeeps, ClientSendsKeeps DEF Clients
<1>2. CASE Waitevent \/ Resolve \/ SignalSession \/ Release
  BY <1>2, EpollWaitKeeps, PipeHasEventKeeps, ConstructEventReqKeeps, ResolveKeeps,
     SignalSessionKeeps, ReleaseKeeps DEF Waitevent
<1>3. CASE ListenerProcessEvent
  BY <1>3, AcceptNothingKeeps, AcceptExitsKeeps, AcceptFailsKeeps, AcceptKeeps,
     DisconnectSocketKeeps, WatchSessionKeeps, WriteWatchedKeeps, RearmListenerKeeps,
     WriteRearmedKeeps DEF ListenerProcessEvent
<1>4. ASSUME NEW s \in Sessions, TaskThread(s) PROVE EventInv'
  BY <1>4, RunKeeps, RunKilledKeeps, RequestEventKeeps, WriteArmedKeeps, UnRegisterKeeps,
     RemoveEventKeeps, WriteRemovedKeeps DEF TaskThread
<1>5. CASE UNCHANGED vars
  <2>1. NetTypes' /\ WatchTypes' /\ PipeTypes' /\ CloseTypes' /\ ContextTypes' /\ ThreadTypes'
    BY <1>5 DEF vars, netVars, shimVars, ctxVars, etVars, EventInv, NetTypes, WatchTypes, PipeTypes,
       CloseTypes, ContextTypes, ThreadTypes
  <2>2. Budget' /\ Fresh' /\ Unique' /\ Cookies' /\ Holds' /\ RightOwner' /\ Places'
    BY <1>5 DEF vars, netVars, shimVars, ctxVars, etVars, EventInv, Budget, Fresh, Unique, Cookies,
       LeadsTo, Holds, RightOwner, Places, HasFD
  <2>3. Owned' /\ ClosedOnce' /\ NoLeak'
    BY <1>5 DEF vars, netVars, shimVars, ctxVars, etVars, EventInv, Owned, ClosedOnce,
       NoLeak, ToClose
  <2> QED
    BY <2>1, <2>2, <2>3 DEF EventInv
<1> QED
  BY <1>1, <1>2, <1>3, <1>4, <1>5 DEF Next, EventThread

LEMMA EventInvariance == ASSUME EnoughIds PROVE Spec => []EventInv
<1>1. Init => EventInv
  BY EventInvInit
<1>2. EventInv /\ [Next]_vars => EventInv'
  BY EventInvStep
<1> QED
  BY <1>1, <1>2, PTL DEF Spec

(* The event thread signals the session whose descriptor the event is of,  *)
(* or none: however late it looks the cookie up, whatever was removed,     *)
(* closed and accepted in between, and at any place a session is made at   *)
(* again; and the session it holds is not freed.                           *)
THEOREM EventsReachTheirOwner == ASSUME EnoughIds PROVE Spec => []RightOwner
<1>1. EventInv => RightOwner
  BY DEF EventInv
<1> QED
  BY <1>1, EventInvariance, PTL

(* Every descriptor in use belongs to one context or waits, once, for the  *)
(* event thread to close it.                                               *)
THEOREM DescriptorsAccounted == ASSUME EnoughIds PROVE Spec => []Accounted
<1>1. EventInv => Accounted
  BY Types DEF EventInv, Accounted
<1> QED
  BY <1>1, EventInvariance, PTL

-----------------------------------------------------------------------------
(* The wakeup pipe.  Every byte that is still to be written is owed by     *)
(* somebody: a session that was signalled, or is between its Run and the   *)
(* end of its write, and an event that was fetched and not yet delivered,  *)
(* for which its session will write one byte and the listener two.         *)

Signalled == {s \in Sessions : R \in fEvents[s]}
Writing   == {s \in Sessions : task[s] \in {"arm", "armed", "unregister", "remove", "removed"}}

InHand(f) == et \in {"resolve", "signal"} /\ theCurrentEvent.er_handle = f
Fetched   == {f \in FDs : f \in s_epoll_events \/ InHand(f)}

ListenerOwes ==
  IF \/ ListenFD \in s_epoll_events
     \/ et = "resolve" /\ theCurrentEvent.er_handle = ListenFD
     \/ et \in {"accept", "watch", "watched"}
  THEN 2
  ELSE IF et \in {"rearm", "rearmed"} THEN 1 ELSE 0

Owed == Cardinality(Signalled) + Cardinality(Writing) + Cardinality(Fetched) + ListenerOwes

(* What can be owed at most, and what can be fetched at most.              *)
MostOwed    == 2 * Cardinality(Sessions) + Cardinality(FDs) + 2
MostFetched == Cardinality(FDs) + 2

(* A pipe with room for everything that is owed when it is read, and for   *)
(* what one more batch adds; and a read that empties it.                   *)
RoomForAll ==
  /\ IsFiniteSet(Sessions)
  /\ MostOwed + MostFetched <= PipeCap
  /\ MostOwed + MostFetched <= ReadSize

PipeNoticed ==
  /\ pipe > 0 => Pipe \in ready \cup s_epoll_events
  /\ Pipe \in s_epoll_events => pipe > 0
FetchedOnce ==
  et # "wait" => theCurrentEvent.er_handle \notin s_epoll_events
PipeInv ==
  /\ PipeNoticed
  /\ FetchedOnce
  /\ pipe + Owed <= IF Pipe \in s_epoll_events THEN MostOwed + MostFetched ELSE MostOwed

LEMMA SubsetCount ==
  ASSUME NEW S, IsFiniteSet(S), NEW T \in SUBSET S
  PROVE  /\ Cardinality(S) \in Nat
         /\ IsFiniteSet(T) /\ Cardinality(T) \in Nat /\ Cardinality(T) <= Cardinality(S)
  BY FS_Subset, FS_CardinalityType

LEMMA OwedType ==
  ASSUME IsFiniteSet(Sessions)
  PROVE  /\ IsFiniteSet(Signalled) /\ Cardinality(Signalled) \in Nat
         /\ IsFiniteSet(Writing) /\ Cardinality(Writing) \in Nat
         /\ IsFiniteSet(Fetched) /\ Cardinality(Fetched) \in Nat
         /\ ListenerOwes \in 0 .. 2 /\ Owed \in Nat /\ Owed <= MostOwed
         /\ MostOwed \in Nat /\ MostFetched \in Nat
<1>1. IsFiniteSet(FDs)
  BY EventAssumption
<1>2. Signalled \subseteq Sessions /\ Writing \subseteq Sessions /\ Fetched \subseteq FDs
  BY DEF Signalled, Writing, Fetched
<1>3. ListenerOwes \in 0 .. 2
  BY DEF ListenerOwes
<1>4. /\ Cardinality(Sessions) \in Nat /\ Cardinality(FDs) \in Nat
      /\ IsFiniteSet(Signalled) /\ Cardinality(Signalled) \in Nat
      /\ IsFiniteSet(Writing) /\ Cardinality(Writing) \in Nat
      /\ IsFiniteSet(Fetched) /\ Cardinality(Fetched) \in Nat
      /\ Cardinality(Signalled) <= Cardinality(Sessions)
      /\ Cardinality(Writing) <= Cardinality(Sessions)
      /\ Cardinality(Fetched) <= Cardinality(FDs)
  BY <1>1, <1>2, SubsetCount
<1> QED
  BY <1>3, <1>4 DEF Owed, MostOwed, MostFetched

(* The same after a step.                                                  *)
LEMMA OwedTypeNext ==
  ASSUME IsFiniteSet(Sessions)
  PROVE  /\ IsFiniteSet(Signalled') /\ Cardinality(Signalled') \in Nat
         /\ IsFiniteSet(Writing') /\ Cardinality(Writing') \in Nat
         /\ IsFiniteSet(Fetched') /\ Cardinality(Fetched') \in Nat
         /\ ListenerOwes' \in 0 .. 2 /\ Owed' \in Nat /\ Owed' <= MostOwed
<1>1. IsFiniteSet(FDs)
  BY EventAssumption
<1>2. Signalled' \subseteq Sessions /\ Writing' \subseteq Sessions /\ Fetched' \subseteq FDs
  BY DEF Signalled, Writing, Fetched
<1>3. ListenerOwes' \in 0 .. 2
  BY DEF ListenerOwes
<1>4. /\ Cardinality(Sessions) \in Nat /\ Cardinality(FDs) \in Nat
      /\ IsFiniteSet(Signalled') /\ Cardinality(Signalled') \in Nat
      /\ IsFiniteSet(Writing') /\ Cardinality(Writing') \in Nat
      /\ IsFiniteSet(Fetched') /\ Cardinality(Fetched') \in Nat
      /\ Cardinality(Signalled') <= Cardinality(Sessions)
      /\ Cardinality(Writing') <= Cardinality(Sessions)
      /\ Cardinality(Fetched') <= Cardinality(FDs)
  BY <1>1, <1>2, SubsetCount
<1> QED
  BY <1>3, <1>4 DEF Owed, MostOwed

(* A step after which nobody owes anything new.                            *)
LEMMA NothingNewOwed ==
  ASSUME IsFiniteSet(Sessions),
         Signalled' \subseteq Signalled, Writing' \subseteq Writing, Fetched' \subseteq Fetched,
         ListenerOwes' <= ListenerOwes
  PROVE  Owed' <= Owed
<1>1. /\ Cardinality(Signalled') <= Cardinality(Signalled)
      /\ Cardinality(Writing') <= Cardinality(Writing)
      /\ Cardinality(Fetched') <= Cardinality(Fetched)
  BY OwedType, SubsetCount
<1> QED
  BY <1>1, OwedType, OwedTypeNext DEF Owed

(* One that passes a debt on, and one that pays it.                        *)
LEMMA OneLess ==
  ASSUME NEW S, IsFiniteSet(S), NEW x \in S, NEW T \in SUBSET (S \ {x})
  PROVE  Cardinality(T) <= Cardinality(S) - 1
<1>1. /\ IsFiniteSet(S \ {x}) /\ Cardinality(S \ {x}) = Cardinality(S) - 1
  BY FS_RemoveElement
<1> QED
  BY <1>1, SubsetCount

LEMMA OneMore ==
  ASSUME NEW S, IsFiniteSet(S), NEW x, NEW T \in SUBSET (S \cup {x})
  PROVE  Cardinality(T) <= Cardinality(S) + 1
<1>1. /\ IsFiniteSet(S \cup {x}) /\ Cardinality(S \cup {x}) <= Cardinality(S) + 1
      /\ Cardinality(S) \in Nat
  BY FS_AddElement, FS_CardinalityType
<1>2. Cardinality(T) \in Nat /\ Cardinality(S \cup {x}) \in Nat /\ Cardinality(T) <= Cardinality(S \cup {x})
  BY <1>1, SubsetCount
<1> QED
  BY <1>1, <1>2

(* Stated for Zenon, which finds the instances that SMT misses.            *)
LEMMA SumLe ==
  \A a, b, c, d \in Nat : a <= b /\ c <= d => a + c <= b + d
  OBVIOUS
LEMMA SumNat ==
  \A a, b \in Nat : a + b \in Nat
  OBVIOUS
LEMMA LeTrans ==
  \A a, b, c \in Nat : a <= b /\ b <= c => a <= c
  OBVIOUS

(* What a step has to show: that it adds nothing to what is written and    *)
(* owed, or that it owes no more than before and writes nothing.           *)
LEMMA PipeInvIfNotMore ==
  ASSUME RoomForAll, PipeInv, pipe \in Nat, pipe' \in Nat,
         Pipe \in s_epoll_events' <=> Pipe \in s_epoll_events,
         PipeNoticed', FetchedOnce',
         pipe' + Owed' <= pipe + Owed
  PROVE  PipeInv'
<1>1. Owed' \in Nat /\ Owed \in Nat /\ MostOwed \in Nat /\ MostFetched \in Nat
  BY OwedType, OwedTypeNext DEF RoomForAll
<1>2. MostOwed' = MostOwed /\ MostFetched' = MostFetched
  BY DEF MostOwed, MostFetched
<1> DEFINE bound == IF Pipe \in s_epoll_events THEN MostOwed + MostFetched ELSE MostOwed
<1>3. bound \in Nat
  BY <1>1
<1>4. bound' = bound
  BY <1>2
<1>5. pipe + Owed \in Nat /\ pipe' + Owed' \in Nat
  BY <1>1, SumNat, Zenon
<1>6. pipe + Owed <= bound
  BY DEF PipeInv
<1>7. pipe' + Owed' <= bound
  BY <1>3, <1>5, <1>6, LeTrans, Zenon
<1> QED
  BY <1>4, <1>7 DEF PipeInv

LEMMA PipeInvIfNothingNew ==
  ASSUME RoomForAll, PipeInv, pipe \in Nat, pipe' = pipe,
         Pipe \in s_epoll_events' <=> Pipe \in s_epoll_events,
         Pipe \in ready => Pipe \in ready',
         FetchedOnce',
         Signalled' \subseteq Signalled, Writing' \subseteq Writing, Fetched' \subseteq Fetched,
         ListenerOwes' <= ListenerOwes
  PROVE  PipeInv'
<1>1. Owed' <= Owed /\ Owed' \in Nat /\ Owed \in Nat
  BY NothingNewOwed, OwedType, OwedTypeNext DEF RoomForAll
<1>2. PipeNoticed'
  BY DEF PipeInv, PipeNoticed
<1>3. pipe' \in Nat /\ pipe' <= pipe
  OBVIOUS
<1>4. pipe' + Owed' <= pipe + Owed
  BY <1>1, <1>3, SumLe, Zenon
<1> QED
  BY <1>2, <1>3, <1>4, PipeInvIfNotMore

LEMMA ClientsKeepPipe ==
  ASSUME EventInv, RoomForAll, PipeInv, Clients
  PROVE  PipeInv'
<1>1. /\ UNCHANGED <<pipe, s_epoll_events, et, theCurrentEvent, task, fEvents>>
      /\ ready \subseteq ready'
  BY DEF Clients, ClientConnects, ClientSends, shimVars, etVars
<1>2. pipe \in Nat
  BY Constants DEF EventInv, PipeTypes
<1>3. FetchedOnce'
  BY <1>1 DEF PipeInv, FetchedOnce
<1>4. /\ Signalled' = Signalled /\ Writing' = Writing /\ Fetched' = Fetched
      /\ ListenerOwes' = ListenerOwes
  BY <1>1 DEF Signalled, Writing, Fetched, InHand, ListenerOwes
<1>5. ListenerOwes' <= ListenerOwes
  BY <1>4, OwedType DEF RoomForAll
<1> QED
  BY <1>1, <1>2, <1>3, <1>4, <1>5, PipeInvIfNothingNew

(* The event thread: whoever an event was for, it is for nobody else, and  *)
(* the listener's is the only one for which two bytes are owed.            *)
LEMMA DeliveryKeepsPipe ==
  ASSUME EventInv, RoomForAll, PipeInv,
         \/ \E f \in Sockets : ConstructEventReq(f)
         \/ Resolve \/ Release
  PROVE  PipeInv'
<1>1. /\ UNCHANGED <<pipe, ready, task, fEvents, fFileDesc, fRefTable>>
      /\ Pipe \in s_epoll_events' <=> Pipe \in s_epoll_events
  BY Constants DEF ConstructEventReq, Resolve, Release, ctxVars, shimVars
<1>2. pipe \in Nat
  BY Constants DEF EventInv, PipeTypes
<1>3. FetchedOnce'
  BY Constants DEF PipeInv, FetchedOnce, ConstructEventReq, Resolve, Release, etVars, shimVars
<1>4. Signalled' = Signalled /\ Writing' = Writing
  BY <1>1 DEF Signalled, Writing
<1>5. Fetched' \subseteq Fetched /\ ListenerOwes' <= ListenerOwes
  <2>1. CASE \E f \in Sockets : ConstructEventReq(f)
    <3> PICK f \in Sockets : ConstructEventReq(f)
      BY <2>1
    <3> QED
      BY Constants DEF ConstructEventReq, Fetched, InHand, ListenerOwes
  <2>2. CASE Resolve
    <3>1. et = "resolve" /\ theCurrentEvent' = theCurrentEvent /\ s_epoll_events' = s_epoll_events
      BY <2>2 DEF Resolve, shimVars
    <3>2. CASE et' = "wait"
      BY <3>1, <3>2 DEF Fetched, InHand, ListenerOwes
    <3>3. CASE et' = "signal"
      BY <3>1, <3>3 DEF Fetched, InHand, ListenerOwes
    <3>4. CASE et' = "accept"
      <4>1. theCurrentEvent.er_handle = ListenFD
        BY <2>2, <3>1, <3>4 DEF Resolve, EventInv, Cookies, LeadsTo, Places, Contexts
      <4> QED
        BY <3>1, <3>4, <4>1 DEF Fetched, InHand, ListenerOwes
    <3> QED
      BY <2>2, <3>2, <3>3, <3>4 DEF Resolve
  <2>3. CASE Release
    BY <2>3 DEF Release, shimVars, Fetched, InHand, ListenerOwes
  <2> QED
    BY <2>1, <2>2, <2>3
<1> QED
  BY <1>1, <1>2, <1>3, <1>4, <1>5, PipeInvIfNothingNew

LEMMA ListenerKeepsPipe ==
  ASSUME EventInv, RoomForAll, PipeInv,
         \/ AcceptNothing \/ AcceptExits
         \/ \E s \in Sessions : AcceptFails(s) \/ \E f \in FDs : Accept(s, f)
         \/ DisconnectSocket \/ WatchSession \/ RearmListener
  PROVE  PipeInv'
<1>1. /\ UNCHANGED <<pipe, theCurrentEvent, s_epoll_events>>
      /\ ready \subseteq ready'
  BY DEF AcceptNothing, AcceptExits, AcceptFails, Accept, DisconnectSocket, WatchSession,
     RearmListener, Watchevent, Modwatch, Armed, etVars, shimVars
<1>2. pipe \in Nat
  BY Constants DEF EventInv, PipeTypes
<1>3. /\ et \in {"accept", "disconnect", "watch", "rearm"}
      /\ et' \in {"rearm", "exit", "disconnect", "release", "watch", "watched", "rearmed"}
      /\ et' \in {"watch", "watched"} => et \in {"accept", "watch"}
      /\ et' \in {"rearm", "rearmed"} => et \in {"accept", "rearm"}
  BY DEF AcceptNothing, AcceptExits, AcceptFails, Accept, DisconnectSocket, WatchSession,
     RearmListener
<1>4. FetchedOnce'
  BY <1>1, <1>3 DEF PipeInv, FetchedOnce
<1>5. Fetched' \subseteq Fetched /\ ListenerOwes' <= ListenerOwes
  BY <1>1, <1>3 DEF Fetched, InHand, ListenerOwes
<1>6. Signalled' \subseteq Signalled /\ Writing' \subseteq Writing
  <2>1. CASE \E s \in Sessions : AcceptFails(s) \/ \E f \in FDs : Accept(s, f)
    <3>1. PICK s \in Sessions :
            /\ task' = [task EXCEPT ![s] = "rest"]
            /\ fEvents' = fEvents \/ fEvents' = [fEvents EXCEPT ![s] = {K}]
      BY <2>1 DEF AcceptFails, Accept
    <3> QED
      BY <3>1, Constants DEF EventInv, ThreadTypes, Signalled, Writing
  <2>2. CASE UNCHANGED <<task, fEvents>>
    BY <2>2 DEF Signalled, Writing
  <2> QED
    BY <2>1, <2>2 DEF AcceptNothing, AcceptExits, DisconnectSocket, WatchSession, RearmListener
<1> QED
  BY <1>1, <1>2, <1>4, <1>5, <1>6, PipeInvIfNothingNew

LEMMA TasksKeepPipe ==
  ASSUME EventInv, RoomForAll, PipeInv, NEW s \in Sessions,
         RunKilled(s) \/ RequestEvent(s) \/ UnRegister(s) \/ RemoveEvent(s)
  PROVE  PipeInv'
<1>1. /\ UNCHANGED <<pipe, et, theCurrentEvent, s_epoll_events>>
      /\ Pipe \in ready => Pipe \in ready'
  <2>1. CASE RunKilled(s) \/ RequestEvent(s) \/ UnRegister(s)
    BY <2>1 DEF RunKilled, RequestEvent, UnRegister, Modwatch, Armed, etVars, shimVars
  <2>2. CASE RemoveEvent(s)
    <3>1. fFileDesc[s] # Pipe
      BY <2>2, Constants DEF RemoveEvent, Step, EventInv, Places, HasFD
    <3> QED
      BY <2>2, <3>1 DEF RemoveEvent, etVars, shimVars
  <2> QED
    BY <2>1, <2>2
<1>2. pipe \in Nat
  BY Constants DEF EventInv, PipeTypes
<1>3. FetchedOnce'
  BY <1>1 DEF PipeInv, FetchedOnce
<1>4. Fetched' = Fetched /\ ListenerOwes' = ListenerOwes
  BY <1>1 DEF Fetched, InHand, ListenerOwes
<1>5. ListenerOwes' <= ListenerOwes
  BY <1>4, OwedType DEF RoomForAll
<1>6. Signalled' \subseteq Signalled /\ Writing' \subseteq Writing
  <2>1. PICK from, to :
          /\ task[s] = from /\ task' = [task EXCEPT ![s] = to]
          /\ to = "free" \/ from \in {"arm", "armed", "unregister", "remove"}
    BY DEF RunKilled, RequestEvent, UnRegister, RemoveEvent, Step
  <2>2. fEvents' = fEvents \/ fEvents' = [fEvents EXCEPT ![s] = {}]
    BY DEF RunKilled, RequestEvent, UnRegister, RemoveEvent
  <2> QED
    BY <2>1, <2>2 DEF EventInv, ThreadTypes, Signalled, Writing
<1> QED
  BY <1>1, <1>2, <1>3, <1>4, <1>5, <1>6, PipeInvIfNothingNew

(* What an event owed, its session owes; and then its Run.                 *)
LEMMA SignalKeepsPipe ==
  ASSUME EventInv, RoomForAll, PipeInv, SignalSession
  PROVE  PipeInv'
<1>1. /\ et = "signal" /\ et' = "release"
      /\ fEvents' = [fEvents EXCEPT ![resolved] = @ \cup {R}]
      /\ UNCHANGED <<pipe, ready, theCurrentEvent, s_epoll_events, task>>
  BY DEF SignalSession, shimVars
<1>2. pipe \in Nat
  BY Constants DEF EventInv, PipeTypes
<1> DEFINE f == theCurrentEvent.er_handle
<1>3. f \in Fetched /\ Fetched' \subseteq Fetched \ {f}
  <2>1. resolved \in Sessions /\ fFileDesc[resolved] = f /\ resolved \in fRefTable
    BY <1>1, Constants DEF EventInv, Holds, RightOwner
  <2>2. f \in FDs
    BY <2>1 DEF EventInv, Places
  <2> QED
    BY <1>1, <2>2 DEF PipeInv, FetchedOnce, Fetched, InHand
<1>4. Signalled' \subseteq Signalled \cup {resolved} /\ Writing' = Writing
  BY <1>1 DEF EventInv, ThreadTypes, Signalled, Writing
<1>5. ListenerOwes' = ListenerOwes
  BY <1>1 DEF ListenerOwes
<1> HIDE DEF f
<1>6. Cardinality(Signalled') <= Cardinality(Signalled) + 1
  BY <1>4, OwedType, OneMore DEF RoomForAll
<1>7. Cardinality(Fetched') <= Cardinality(Fetched) - 1
  BY <1>3, OwedType, OneLess DEF RoomForAll
<1>8. Owed' <= Owed
  BY <1>4, <1>5, <1>6, <1>7, OwedType, OwedTypeNext DEF Owed, RoomForAll
<1>9. PipeNoticed' /\ FetchedOnce'
  BY <1>1 DEF PipeInv, PipeNoticed, FetchedOnce
<1> QED
  BY <1>1, <1>2, <1>8, <1>9, OwedType, OwedTypeNext, PipeInvIfNotMore DEF RoomForAll

LEMMA RunKeepsPipe ==
  ASSUME EventInv, RoomForAll, PipeInv, NEW s \in Sessions, Run(s)
  PROVE  PipeInv'
<1>1. /\ fEvents[s] # {} /\ K \notin fEvents[s]
      /\ \E to : task' = [task EXCEPT ![s] = to]
      /\ fEvents' = [fEvents EXCEPT ![s] = {}]
      /\ UNCHANGED <<pipe, ready, et, theCurrentEvent, s_epoll_events>>
  BY DEF Run, Step, etVars, shimVars
<1>2. pipe \in Nat
  BY Constants DEF EventInv, PipeTypes
<1>3. s \in Signalled /\ Signalled' \subseteq Signalled \ {s} /\ Writing' \subseteq Writing \cup {s}
  BY <1>1 DEF EventInv, ThreadTypes, Signalled, Writing
<1>4. Fetched' = Fetched /\ ListenerOwes' = ListenerOwes
  BY <1>1 DEF Fetched, InHand, ListenerOwes
<1>5. Cardinality(Signalled') <= Cardinality(Signalled) - 1
  BY <1>3, OwedType, OneLess DEF RoomForAll
<1>6. Cardinality(Writing') <= Cardinality(Writing) + 1
  BY <1>3, OwedType, OneMore DEF RoomForAll
<1>7. Owed' <= Owed
  BY <1>4, <1>5, <1>6, OwedType, OwedTypeNext DEF Owed, RoomForAll
<1>8. PipeNoticed' /\ FetchedOnce'
  BY <1>1 DEF PipeInv, PipeNoticed, FetchedOnce
<1> QED
  BY <1>1, <1>2, <1>7, <1>8, OwedType, OwedTypeNext, PipeInvIfNotMore DEF RoomForAll

(* A byte that is written is no longer owed.                               *)
LEMMA WritesKeepPipe ==
  ASSUME EventInv, RoomForAll, PipeInv,
         WriteWatched \/ WriteRearmed \/ \E s \in Sessions : WriteArmed(s) \/ WriteRemoved(s)
  PROVE  PipeInv'
<1>1. /\ pipe' = pipe + 1 /\ ready' = ready \cup {Pipe}
      /\ UNCHANGED <<theCurrentEvent, s_epoll_events>>
  BY DEF WriteWatched, WriteRearmed, WriteArmed, WriteRemoved, WritePipe, etVars, shimVars
<1>2. pipe \in Nat
  BY Constants DEF EventInv, PipeTypes
<1>3. PipeNoticed'
  BY <1>1, <1>2 DEF PipeInv, PipeNoticed
<1>4. FetchedOnce' /\ Owed' <= Owed - 1
  <2>1. CASE WriteWatched \/ WriteRearmed
    <3>1. /\ \/ et = "watched" /\ et' = "rearm"
             \/ et = "rearmed" /\ et' = "release"
          /\ UNCHANGED <<task, fEvents>>
      BY <2>1 DEF WriteWatched, WriteRearmed
    <3>2. FetchedOnce'
      BY <1>1, <3>1 DEF PipeInv, FetchedOnce
    <3>3. Signalled' = Signalled /\ Writing' = Writing /\ Fetched' = Fetched
      BY <1>1, <3>1 DEF Signalled, Writing, Fetched, InHand
    <3>4. ListenFD \notin s_epoll_events
      BY <3>1 DEF PipeInv, FetchedOnce, EventInv, Holds, RightOwner, Places, Nobody, Listener
    <3>5. ListenerOwes' = ListenerOwes - 1
      BY <1>1, <3>1, <3>4 DEF ListenerOwes
    <3> QED
      BY <3>2, <3>3, <3>5, OwedType, OwedTypeNext DEF Owed, RoomForAll
  <2>2. ASSUME NEW s \in Sessions, WriteArmed(s) \/ WriteRemoved(s)
        PROVE  FetchedOnce' /\ Owed' <= Owed - 1
    <3>1. /\ et' = et
          /\ \/ task[s] = "armed" /\ task' = [task EXCEPT ![s] = "rest"]
             \/ task[s] = "removed" /\ task' = [task EXCEPT ![s] = "free"]
          /\ fEvents' = fEvents \/ fEvents' = [fEvents EXCEPT ![s] = {}]
      BY <2>2 DEF WriteArmed, WriteRemoved, Step, etVars
    <3>2. FetchedOnce'
      BY <1>1, <3>1 DEF PipeInv, FetchedOnce
    <3>3. Fetched' = Fetched /\ ListenerOwes' = ListenerOwes
      BY <1>1, <3>1 DEF Fetched, InHand, ListenerOwes
    <3>4. Signalled' \subseteq Signalled /\ s \in Writing /\ Writing' \subseteq Writing \ {s}
      BY <3>1 DEF EventInv, ThreadTypes, Signalled, Writing
    <3>5. Cardinality(Signalled') <= Cardinality(Signalled)
      BY <3>4, OwedType, SubsetCount DEF RoomForAll
    <3>6. Cardinality(Writing') <= Cardinality(Writing) - 1
      BY <3>4, OwedType, OneLess DEF RoomForAll
    <3> QED
      BY <3>2, <3>3, <3>5, <3>6, OwedType, OwedTypeNext DEF Owed, RoomForAll
  <2> QED
    BY <2>1, <2>2
<1>5. pipe' + Owed' <= pipe + Owed
  BY <1>1, <1>2, <1>4, OwedType, OwedTypeNext DEF RoomForAll
<1> QED
  BY <1>1, <1>2, <1>3, <1>4, <1>5, PipeInvIfNotMore

(* A new batch has the pipe in it if there is anything in the pipe ...     *)
LEMMA EpollWaitKeepsPipe ==
  ASSUME EventInv, RoomForAll, PipeInv, EpollWait
  PROVE  PipeInv'
<1>1. /\ et = "wait" /\ s_epoll_events = {}
      /\ s_epoll_events' = {f \in ready : Readable(f)}
      /\ UNCHANGED <<pipe, et, theCurrentEvent, task, fEvents>>
  BY DEF EpollWait, etVars
<1>2. pipe \in Nat
  BY Constants DEF EventInv, PipeTypes
<1>3. Pipe \in s_epoll_events' <=> pipe > 0
  BY <1>1, <1>2, Constants DEF PipeInv, PipeNoticed, Readable, EventInv, NetTypes
<1>4. PipeNoticed' /\ FetchedOnce'
  BY <1>1, <1>2, <1>3 DEF PipeNoticed, FetchedOnce
<1>5. CASE pipe = 0
  <2>1. Owed' <= MostOwed /\ Owed' \in Nat /\ pipe' = 0
    BY <1>1, <1>5, OwedTypeNext DEF RoomForAll
  <2>2. MostOwed' = MostOwed /\ Pipe \notin s_epoll_events'
    BY <1>3, <1>5 DEF MostOwed
  <2> QED
    BY <1>4, <2>1, <2>2, OwedType DEF PipeInv, RoomForAll
<1>6. CASE pipe > 0
  <2>1. Fetched = {} /\ ListenerOwes = 0
    BY <1>1 DEF Fetched, InHand, ListenerOwes
  <2>2. Signalled' = Signalled /\ Writing' = Writing /\ Fetched' \subseteq FDs
    BY <1>1 DEF Signalled, Writing, Fetched
  <2>3. Cardinality(Fetched) = 0 /\ Cardinality(Fetched') <= Cardinality(FDs) /\ Cardinality(FDs) \in Nat
    BY <2>1, <2>2, EventAssumption, SubsetCount, FS_EmptySet
  <2>4. Owed' <= Owed + MostFetched
    BY <2>1, <2>2, <2>3, OwedType, OwedTypeNext DEF Owed, MostFetched, RoomForAll
  <2>5. pipe + Owed <= MostOwed
    BY <1>1 DEF PipeInv
  <2>6. MostOwed' = MostOwed /\ MostFetched' = MostFetched /\ Pipe \in s_epoll_events'
    BY <1>3, <1>6 DEF MostOwed, MostFetched
  <2>7. pipe' + Owed' <= MostOwed + MostFetched
    BY <1>1, <1>2, <2>4, <2>5, OwedType, OwedTypeNext DEF RoomForAll
  <2> QED
    BY <1>4, <2>6, <2>7 DEF PipeInv
<1> QED
  BY <1>2, <1>5, <1>6

(* ... and when its turn comes it is emptied.                              *)
LEMMA PipeHasEventKeepsPipe ==
  ASSUME EventInv, RoomForAll, PipeInv, PipeHasEvent
  PROVE  PipeInv'
<1>1. /\ Pipe \in s_epoll_events /\ s_epoll_events' = s_epoll_events \ {Pipe}
      /\ et = "wait" /\ pipe' = Drained
      /\ UNCHANGED <<et, ready, theCurrentEvent>>
  BY DEF PipeHasEvent, etVars
<1>2. pipe \in Nat /\ ReadSize \in Nat
  BY Constants DEF EventInv, PipeTypes
<1>3. pipe' = 0
  <2>1. pipe + Owed <= MostOwed + MostFetched /\ MostOwed + MostFetched <= ReadSize
    BY <1>1 DEF PipeInv, RoomForAll
  <2>2. pipe <= ReadSize
    BY <1>2, <2>1, OwedType DEF RoomForAll
  <2> QED
    BY <1>1, <1>2, <2>2 DEF Drained
<1>4. PipeNoticed' /\ FetchedOnce'
  BY <1>1, <1>3 DEF PipeNoticed, FetchedOnce
<1>5. Owed' <= MostOwed /\ Owed' \in Nat /\ MostOwed' = MostOwed
  BY OwedTypeNext DEF RoomForAll, MostOwed
<1> QED
  BY <1>1, <1>3, <1>4, <1>5, OwedType DEF PipeInv, RoomForAll

LEMMA PipeInvInit == RoomForAll /\ Init => PipeInv
<1> SUFFICES ASSUME RoomForAll, Init PROVE PipeInv
  OBVIOUS
<1>1. Signalled = {} /\ Writing = {} /\ Fetched = {} /\ ListenerOwes = 0
  BY DEF Init, Signalled, Writing, Fetched, InHand, ListenerOwes
<1>2. Owed = 0
  BY <1>1, FS_EmptySet DEF Owed
<1>3. MostOwed \in Nat /\ MostOwed >= 2
  BY EventAssumption, FS_CardinalityType DEF RoomForAll, MostOwed
<1> QED
  BY <1>2, <1>3 DEF Init, PipeInv, PipeNoticed, FetchedOnce

LEMMA PipeInvStep == RoomForAll /\ EventInv /\ PipeInv /\ [Next]_vars => PipeInv'
<1> SUFFICES ASSUME RoomForAll, EventInv, PipeInv, [Next]_vars PROVE PipeInv'
  OBVIOUS
<1>1. CASE Clients
  BY <1>1, ClientsKeepPipe
<1>2. CASE Waitevent \/ Resolve \/ SignalSession \/ Release
  BY <1>2, EpollWaitKeepsPipe, PipeHasEventKeepsPipe, DeliveryKeepsPipe, SignalKeepsPipe DEF Waitevent
<1>3. CASE ListenerProcessEvent
  BY <1>3, ListenerKeepsPipe, WritesKeepPipe DEF ListenerProcessEvent
<1>4. ASSUME NEW s \in Sessions, TaskThread(s) PROVE PipeInv'
  BY <1>4, RunKeepsPipe, TasksKeepPipe, WritesKeepPipe DEF TaskThread
<1>5. CASE UNCHANGED vars
  BY <1>5 DEF vars, netVars, shimVars, ctxVars, etVars, PipeInv, PipeNoticed, FetchedOnce, Owed, Signalled,
     Writing, Fetched, InHand, ListenerOwes, MostOwed, MostFetched
<1> QED
  BY <1>1, <1>2, <1>3, <1>4, <1>5 DEF Next, EventThread

(* The event thread never waits for itself: it does not read the wakeup    *)
(* pipe when it is empty, nor write to it when it is full, however many    *)
(* threads write to it, if the pipe and one read hold two bytes for each   *)
(* session and each descriptor, and four.                                  *)
THEOREM EventThreadNeverStuck ==
  ASSUME EnoughIds, RoomForAll
  PROVE  Spec => []NeverStuckOnPipe
<1>1. Init => PipeInv
  BY PipeInvInit
<1>2. EventInv /\ PipeInv /\ [Next]_vars => PipeInv'
  BY PipeInvStep
<1>3. EventInv /\ PipeInv => NeverStuckOnPipe
  <2> SUFFICES ASSUME EventInv, PipeInv PROVE NeverStuckOnPipe
    OBVIOUS
  <2>1. pipe \in Nat /\ PipeCap \in Nat
    BY Constants DEF EventInv, PipeTypes
  <2>2. et \in {"watched", "rearmed"} => ListenerOwes >= 1
    BY DEF ListenerOwes
  <2>3. ListenerOwes >= 1 => Owed >= 1
    BY OwedType DEF Owed, RoomForAll
  <2>4. pipe + Owed <= PipeCap
    BY <2>1, OwedType DEF PipeInv, RoomForAll
  <2>5. et \in {"watched", "rearmed"} => pipe < PipeCap
    BY <2>1, <2>2, <2>3, <2>4, OwedType DEF RoomForAll
  <2> QED
    BY <2>5 DEF PipeInv, PipeNoticed, NeverStuckOnPipe
<1> QED
  BY <1>1, <1>2, <1>3, EventInvariance, PTL DEF Spec
=============================================================================
