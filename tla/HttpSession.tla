----------------------------- MODULE HttpSession -----------------------------
(***************************************************************************)
(* One connection of the HTTP server: HTTPSession::Run with its buffers    *)
(* and its file, the events it asks epoll for (EventContext::RequestEvent, *)
(* epoll_modwatch), the event thread that delivers them, and the client    *)
(* behind a socket that takes and gives any amount.                        *)
(*                                                                         *)
(* What the client sends is a script of units: a unit is "part" of a       *)
(* request, or the end of a request, named by what ProcessRequest finds it *)
(* to be.  A unit is known by its position in the script, and a request by *)
(* the position of its end.  Unit k of the answer to request r is <<r, k>>. *)
(*                                                                         *)
(* One step is one access to shared state: a system call on the socket, an *)
(* atomic access of the task's flags, one epoll_ctl.  That a task is run   *)
(* by one thread, and run again for events that arrive during a Run, is    *)
(* shown in TaskScheduler and taken from there: GetEvents is one step.     *)
(***************************************************************************)
EXTENDS Integers, Sequences

CONSTANTS
  Scripts,    \* what a client may send: a set of sequences over Kinds
  ReqCap,     \* kRequestBufferSizeInBytes
  RspCap,     \* kResponseBufferSizeInBytes
  SndCap,     \* units the kernel takes before the client has to read
  ReadSize,   \* kReadBufferSize
  PageSize,   \* units of a page, of a header and of an error: more than a byte
  FileSize    \* units of the file that follows the header of an answer

Kinds == {"part",     \* not the end of a request
          "page",     \* GET / or a missing file: one page
          "file",     \* GET of a file, or get_hottest: header, then the file
          "bad",      \* a first line that does not parse
          "unknown",  \* an unknown command or an open that fails: ResponseGet is false
          "post"}     \* a method other than GET: ResponseError

ASSUME SessionAssumption ==
  /\ \A s \in Scripts : s \in Seq(Kinds)
  /\ {ReqCap, RspCap, SndCap, ReadSize, PageSize} \subseteq Nat \ {0}
  /\ RspCap > 1 /\ PageSize > 1
  /\ FileSize \in Nat

VARIABLES
  script,        \* what this client sends, unit by unit
  client,        \* "open", or "gone": closed or broken
  sent,          \* units the client has sent
  received,      \* units of answers the client has read
  outbox,        \* units in the kernel on their way to the client
  armed,         \* the events asked for with the last epoll_ctl
  queued,        \* the socket is on epoll's ready list
  hand,          \* the events the event thread has fetched, not signalled
  fEvents,       \* the flags signalled to the task
  pc,            \* where Run stands
  events,        \* what its GetEvents returned
  willRequestEvent,
  taken,         \* units read from the socket
  done,          \* units dropped by MoveOnRequest
  fStrRemained,  \* the units still to be sent
  fFd,           \* the open file: whose answer, and the next unit of it
  connected      \* kConnected of the socket's fState

clientVars == <<script, client, sent, received>>
epollVars  == <<armed, queued, hand>>
runVars    == <<pc, events, willRequestEvent>>
dataVars   == <<taken, done, fStrRemained, fFd, connected>>
vars == <<clientVars, outbox, epollVars, fEvents, runVars, dataVars>>

R == "kReadEvent"
W == "kWriteEvent"
K == "kKillEvent"
Masks == SUBSET {R, W}
NoFile == [req |-> 0, next |-> 0]

(* The listener has accepted the connection and asked for its first event. *)
Init ==
  /\ script \in Scripts
  /\ client = "open" /\ sent = 0 /\ received = <<>> /\ outbox = <<>>
  /\ armed = {R} /\ queued = FALSE /\ hand = {}
  /\ fEvents = {}
  /\ pc = "rest" /\ events = {} /\ willRequestEvent = {}
  /\ taken = 0 /\ done = 0
  /\ fStrRemained = <<>> /\ fFd = NoFile /\ connected = TRUE

Least(m, n) == IF m < n THEN m ELSE n

-----------------------------------------------------------------------------
(* The client and the kernel.  What can be read and written now:           *)
Level == {e \in {R, W} : \/ client = "gone"
                         \/ e = R /\ taken < sent
                         \/ e = W /\ Len(outbox) < SndCap}

ClientSends(n) ==
  /\ client = "open" /\ pc # "deleted"
  /\ sent + n <= Len(script)
  /\ sent' = sent + n
  /\ queued' = (queued \/ R \in armed)
  /\ UNCHANGED <<script, client, received, outbox, armed, hand, fEvents, runVars, dataVars>>

(* Room in a full socket wakes who waits to write.                         *)
ClientReads ==
  /\ client = "open" /\ outbox # <<>>
  /\ received' = Append(received, Head(outbox))
  /\ outbox' = Tail(outbox)
  /\ queued' = (queued \/ (W \in armed /\ Len(outbox) >= SndCap))
  /\ UNCHANGED <<script, client, sent, armed, hand, fEvents, runVars, dataVars>>

ClientLeaves ==
  /\ client = "open" /\ pc # "deleted"
  /\ client' = "gone"
  /\ queued' = (queued \/ armed # {})
  /\ UNCHANGED <<script, sent, received, outbox, armed, hand, fEvents, runVars, dataVars>>

-----------------------------------------------------------------------------
(* The event thread: epoll_wait takes the socket off the ready list and    *)
(* reports what is there of the events asked for (edge-triggered) ...      *)
Fetch ==
  /\ queued /\ hand = {}
  /\ queued' = FALSE
  /\ hand' = Level \cap armed
  /\ UNCHANGED <<clientVars, outbox, armed, fEvents, runVars, dataVars>>

(* ... and ProcessEvent signals it, unless the context is gone.            *)
Deliver ==
  /\ hand # {}
  /\ hand' = {}
  /\ fEvents' = IF pc = "deleted" THEN fEvents ELSE fEvents \cup hand
  /\ UNCHANGED <<clientVars, outbox, armed, queued, runVars, dataVars>>

-----------------------------------------------------------------------------
(* HTTPSession::Run                                                        *)

GetEvents ==
  /\ pc = "rest" /\ fEvents # {}
  /\ events' = fEvents
  /\ fEvents' = {}
  /\ willRequestEvent' = {}
  /\ pc' = IF K \in fEvents THEN "delete" ELSE IF W \in fEvents THEN "send" ELSE "recv"
  /\ UNCHANGED <<clientVars, outbox, epollVars, dataVars>>

(* StringFormatter::Put into what fStrRemained leaves of the buffer: it    *)
(* truncates, and keeps one place free except from a single byte.  The     *)
(* difference is unsigned.                                                 *)
FillsUp(rem, data) ==                               \* wrong: keeps none
  rem \o SubSeq(data, 1, Least(Len(data), RspCap - Len(rem)))
Put(rem, data) ==
  LET room == RspCap - Len(rem)
      lastPlace == Len(data) = 1 /\ room = 1
  IN IF room < 0 \/ Len(data) < room \/ lastPlace THEN rem \o data
     ELSE rem \o SubSeq(data, 1, IF room = 0 THEN 0 ELSE room - 1)

Answer(r, first, n) == [i \in 1 .. n |-> <<r, first + i - 1>>]

(* ReadFileContent: a short read closes the file.                          *)
Count == Least(ReadSize, PageSize + FileSize + 1 - fFd.next)
ShortRead == Count < ReadSize
ReadFileContent(rem) ==
  /\ fFd # NoFile
  /\ fFd' = IF ShortRead THEN NoFile ELSE [fFd EXCEPT !.next = @ + Count]
  /\ fStrRemained' = IF Count > 0 THEN Put(rem, Answer(fFd.req, fFd.next, Count)) ELSE rem
  /\ willRequestEvent' = IF Count > 0 THEN {W} ELSE {}

(* SendData returned true, leaving rem to be sent.                         *)
SendDone(rem) ==
  /\ \/ ReadFileContent(rem)
     \/ fFd = NoFile /\ fStrRemained' = rem /\ UNCHANGED <<fFd, willRequestEvent>>
  /\ pc' = IF R \in events THEN "recv" ELSE "arm"
  /\ UNCHANGED <<clientVars, epollVars, events, taken, done>>

SendNothing ==
  /\ pc = "send"
  /\ fStrRemained = <<>> \/ ~connected
  /\ SendDone(fStrRemained)
  /\ UNCHANGED <<outbox, fEvents, connected>>

NotMoved(n) == fStrRemained                          \* wrong: no memmove
Unsent(n) == SubSeq(fStrRemained, n + 1, Len(fStrRemained))

(* send takes what there is room for; a part of the data is as good as all. *)
SendSome ==
  LET n == Least(Len(fStrRemained), SndCap - Len(outbox)) IN
  /\ pc = "send"
  /\ fStrRemained # <<>> /\ connected
  /\ client = "open" /\ n > 0
  /\ outbox' = outbox \o SubSeq(fStrRemained, 1, n)
  /\ SendDone(Unsent(n))
  /\ UNCHANGED <<fEvents, connected>>

SendBlocked ==                                       \* EAGAIN
  /\ pc = "send"
  /\ fStrRemained # <<>> /\ connected
  /\ client = "open" /\ Len(outbox) >= SndCap
  /\ willRequestEvent' = {W}
  /\ pc' = IF R \in events THEN "recv" ELSE "arm"
  /\ UNCHANGED <<clientVars, outbox, epollVars, fEvents, events, dataVars>>

(* The client is gone, and the kernel takes the data all the same ...      *)
SendLost ==
  /\ pc = "send"
  /\ fStrRemained # <<>> /\ connected
  /\ client = "gone"
  /\ SendDone(<<>>)
  /\ UNCHANGED <<outbox, fEvents, connected>>

(* ... or refuses it: EPIPE and ECONNRESET call Disconnect, others do not. *)
SendFails ==
  /\ pc = "send"
  /\ fStrRemained # <<>> /\ connected
  /\ client = "gone"
  /\ connected' = FALSE
  /\ fEvents' \in {fEvents, fEvents \cup {K}}
  /\ SendDone(fStrRemained)
  /\ UNCHANGED outbox

-----------------------------------------------------------------------------
(* RecvData: recv into what is left of the request buffer, where no room   *)
(* looks like the end of the connection.                                   *)
Blank == ReqCap - (taken - done)
ReadLen == Least(sent - taken, Blank)

NotAtEnd == ~connected \/ Blank = 0                  \* wrong: 0 is no error
ReadFails == ~connected \/ Blank = 0 \/ client = "gone"

(* Disconnect, and Run returns -1.                                         *)
RecvFails ==
  /\ pc = "recv"
  /\ ReadFails
  /\ fEvents' = fEvents \cup {K}
  /\ connected' = FALSE
  /\ pc' = "delete"
  /\ UNCHANGED <<clientVars, outbox, epollVars, events, willRequestEvent, taken, done,
                 fStrRemained, fFd>>

RecvBlocked ==                                       \* EAGAIN
  /\ pc = "recv"
  /\ ~ReadFails /\ taken = sent
  /\ willRequestEvent' = willRequestEvent \cup {R}
  /\ pc' = "arm"
  /\ UNCHANGED <<clientVars, outbox, epollVars, fEvents, events, dataVars>>

(* RecvData reads what is there; then IsFullRequest looks for the end of   *)
(* the first request in the buffer.                                        *)
Ends == {p \in done + 1 .. taken + ReadLen : script[p] # "part"}

Recv ==
  /\ pc = "recv"
  /\ connected /\ ReadLen > 0
  /\ taken' = taken + ReadLen
  /\ pc' = "arm"
  /\ UNCHANGED <<clientVars, outbox, epollVars, fEvents, events, connected>>

RecvPart ==
  /\ Recv
  /\ Ends = {}
  /\ willRequestEvent' = willRequestEvent \cup {R}
  /\ UNCHANGED <<done, fStrRemained, fFd>>

RecvRequest(p) ==
  /\ Recv
  /\ p \in Ends /\ \A q \in Ends : p <= q

AsksToRead == R                                      \* wrong: as on failure
AnswerEvent == W

(* ResponseHello, ResponseFileNotFound *)
AnswerPage(p) ==
  /\ RecvRequest(p) /\ script[p] = "page"
  /\ fStrRemained' = Put(fStrRemained, Answer(p, 1, PageSize))
  /\ done' = p
  /\ willRequestEvent' = willRequestEvent \cup {AnswerEvent}
  /\ UNCHANGED fFd

(* ResponseFileContent: the header now, the file from the next write on; a *)
(* file that was still open is forgotten.                                  *)
AnswerFile(p) ==
  /\ RecvRequest(p) /\ script[p] = "file"
  /\ fStrRemained' = Put(fStrRemained, Answer(p, 1, PageSize))
  /\ fFd' = [req |-> p, next |-> PageSize + 1]
  /\ done' = p
  /\ willRequestEvent' = willRequestEvent \cup {AnswerEvent}

SkipRequest(p) ==
  /\ RecvRequest(p) /\ script[p] = "bad"
  /\ done' = p
  /\ willRequestEvent' = willRequestEvent \cup {R}
  /\ UNCHANGED <<fStrRemained, fFd>>

(* Without an answer (an open that fails leaves fFd at -1), or with an     *)
(* error that snprintf puts behind the rest whether it fits or not; the    *)
(* request stays where it is.                                              *)
RefuseRequest(p) ==
  /\ RecvRequest(p) /\ script[p] \in {"unknown", "post"}
  /\ fStrRemained' = IF script[p] = "post" THEN fStrRemained \o Answer(p, 1, PageSize)
                                           ELSE fStrRemained
  /\ fFd' \in IF script[p] = "post" THEN {fFd} ELSE {fFd, NoFile}
  /\ willRequestEvent' = willRequestEvent \cup {R}
  /\ UNCHANGED done

-----------------------------------------------------------------------------
(* RequestEvent: epoll_modwatch replaces the events asked for, and EPOLL_CTL_MOD *)
(* looks at the socket anew.                                               *)
OnlyIfChanged(mask) ==                               \* wrong: saves a call
  IF mask = armed THEN UNCHANGED <<armed, queued>>
  ELSE armed' = mask /\ queued' = (queued \/ Level \cap mask # {})
Modwatch(mask) ==
  /\ armed' = mask
  /\ queued' = (queued \/ Level \cap mask # {})

RequestEvent ==
  /\ pc = "arm" /\ willRequestEvent # {}
  /\ Modwatch(willRequestEvent)
  /\ pc' = "rest"
  /\ UNCHANGED <<clientVars, outbox, hand, fEvents, events, willRequestEvent, dataVars>>

(* "strange": Disconnect, and Run returns -1.  This is how every complete  *)
(* answer ends.                                                            *)
NothingToRequest ==
  /\ pc = "arm" /\ willRequestEvent = {}
  /\ fEvents' = fEvents \cup {K}
  /\ pc' = "delete"
  /\ UNCHANGED <<clientVars, outbox, epollVars, events, willRequestEvent, dataVars>>

(* The destructors close the file and take the socket out of epoll.        *)
Delete ==
  /\ pc = "delete"
  /\ pc' = "deleted"
  /\ fEvents' = {} /\ armed' = {} /\ queued' = FALSE
  /\ fFd' = NoFile /\ connected' = FALSE
  /\ UNCHANGED <<clientVars, outbox, hand, events, willRequestEvent, taken, done, fStrRemained>>

-----------------------------------------------------------------------------
Send == SendNothing \/ SendSome \/ SendBlocked \/ SendLost \/ SendFails

Process(p) == AnswerPage(p) \/ AnswerFile(p) \/ SkipRequest(p) \/ RefuseRequest(p)

Run ==
  \/ GetEvents \/ Send
  \/ RecvFails \/ RecvBlocked \/ RecvPart
  \/ \E p \in 1 .. Len(script) : Process(p)
  \/ RequestEvent \/ NothingToRequest \/ Delete

Client == ClientReads \/ ClientLeaves \/ \E n \in 1 .. Len(script) : ClientSends(n)

Next == Client \/ Fetch \/ Deliver \/ Run

Spec == Init /\ [][Next]_vars

(* The task threads and the event thread keep running; a client that stays *)
(* reads what it is sent, but need not send anything.                      *)
FairSpec ==
  Spec /\ WF_vars(Run) /\ WF_vars(Fetch) /\ WF_vars(Deliver) /\ WF_vars(ClientReads)

-----------------------------------------------------------------------------
Units == Nat \X Nat

(* Types, with the buffers' bounds: the client's units pass through the     *)
(* kernel into the request buffer in order, and RecvData never reads more   *)
(* than kRequestBufferSizeInBytes leaves room for.                          *)
TypeOK ==
  /\ script \in Scripts
  /\ client \in {"open", "gone"}
  /\ sent \in Nat /\ taken \in Nat /\ done \in Nat
  /\ done <= taken /\ taken <= sent /\ sent <= Len(script)
  /\ taken - done <= ReqCap
  /\ received \in Seq(Units) /\ outbox \in Seq(Units) /\ fStrRemained \in Seq(Units)
  /\ Len(outbox) <= SndCap
  /\ armed \in Masks /\ hand \in Masks /\ willRequestEvent \in Masks
  /\ queued \in BOOLEAN /\ connected \in BOOLEAN
  /\ fEvents \in SUBSET {R, W, K} /\ events \in SUBSET {R, W, K}
  /\ pc \in {"rest", "send", "recv", "arm", "delete", "deleted"}
  /\ fFd \in [req : Nat, next : Nat]

(* A session at rest is not forgotten: if the socket has what the session   *)
(* asked for with its last RequestEvent, an event is on its way.  Edge-     *)
(* triggered epoll reports a change once, so this hangs on Run calling      *)
(* RequestEvent before each return of 0 (HTTPSession.cpp:209).              *)
OnItsWay == queued \/ hand # {} \/ fEvents # {}
NoLostWakeup == pc = "rest" /\ Level \cap armed # {} => OnItsWay

(* Whatever is left of answers, put behind it and truncated, nothing runs   *)
(* past fResponseBuffer, and while the socket is connected a place stays    *)
(* free: PutFmtStr counts fEndPut - fCurrentPut - 1 bytes of what it cuts   *)
(* (StringFormatter.cpp:113), which wraps when an answer begins in a full   *)
(* buffer.  Only after a failed send, when no answer begins any more, may   *)
(* the last byte of a file fill it.  ResponseError has no such bound.       *)
FitsBuffer ==
  (\A p \in 1 .. taken : script[p] # "post") =>
    /\ Len(fStrRemained) <= RspCap
    /\ connected => Len(fStrRemained) < RspCap

(* All that was put into the buffer and not cut: read by the client, in the *)
(* kernel, and still to be sent.                                            *)
Pipe == received \o outbox \o fStrRemained

(* However much each send takes, the client gets the units of an answer in  *)
(* their order, and none of them twice (the memmove of SendData, the place  *)
(* in the file).                                                            *)
InOrder ==
  \A j \in DOMAIN Pipe : \A i \in 1 .. j - 1 :
    Pipe[i][1] = Pipe[j][1] /\ script[Pipe[j][1]] # "post" => Pipe[i][2] < Pipe[j][2]

(* A connection whose client is gone is found out and deleted, whatever the *)
(* session was waiting for.                                                 *)
Closes == client = "gone" ~> pc = "deleted"

-----------------------------------------------------------------------------
AnswerSize(kind) == IF kind = "file" THEN PageSize + FileSize ELSE PageSize
Whole == Answer(1, 1, AnswerSize(script[1]))

(* A connection with one request that arrives at once, whose answer the     *)
(* kernel takes at once: the client gets all of the answer, by however many *)
(* reads of the file and sends; the session does not close the connection   *)
(* before that and does not wait for what never comes.                      *)
OneRequest ==
  Len(script) = 1 /\ script[1] \in {"page", "file"} /\ AnswerSize(script[1]) <= SndCap
Answered == OneRequest /\ sent = 1 ~> received = Whole \/ client = "gone"

(* "rtsp response left, which will be sended again." (HTTPSession.h:66)     *)
RestIsSent == pc = "deleted" /\ client = "open" => fStrRemained = <<>>
=============================================================================
