-------------------------- MODULE HttpSessionProofs --------------------------
(* Proofs about HttpSession, for scripts and buffers of any size, and      *)
(* about HttpParse, for any requests and any reads they arrive in.         *)
EXTENDS HttpSession, HttpParse, SequenceLemmas, SequenceTheorems

(* The step relation's parts, by their names.                              *)
LEMMA SendKeeps ==
  ASSUME Send
  PROVE  /\ pc = "send" /\ pc' \in {"recv", "arm"}
         /\ UNCHANGED <<clientVars, epollVars, events, taken, done>>
         /\ fEvents \subseteq fEvents'
  BY DEF Send, SendNothing, SendSome, SendBlocked, SendLost, SendFails, SendDone, dataVars

(* Put appends a sequence of the kind given.                               *)
LEMMA SubSeqType ==
  ASSUME NEW S, NEW s \in Seq(S), NEW m \in Nat \ {0}, NEW n \in Nat, n <= Len(s)
  PROVE  SubSeq(s, m, n) \in Seq(S) /\ Len(SubSeq(s, m, n)) = IF m <= n THEN n - m + 1 ELSE 0
  BY SubSeqProperties

LEMMA PutType ==
  ASSUME NEW rem \in Seq(Units), NEW data \in Seq(Units)
  PROVE  /\ Put(rem, data) \in Seq(Units)
         /\ Len(rem) <= RspCap => Len(Put(rem, data)) <= RspCap
         /\ Len(rem) < RspCap /\ (Len(data) # 1 \/ Len(rem) + 1 < RspCap) =>
              Len(Put(rem, data)) < RspCap
<1> DEFINE room == RspCap - Len(rem)
           n == IF room = 0 THEN 0 ELSE room - 1
           whole == room < 0 \/ Len(data) < room \/ (Len(data) = 1 /\ room = 1)
<1>1. RspCap \in Nat /\ Len(rem) \in Nat /\ Len(data) \in Nat /\ room \in Int
  BY SessionAssumption
<1>2. CASE whole
  <2>1. Put(rem, data) = rem \o data
    BY <1>2 DEF Put
  <2>2. rem \o data \in Seq(Units) /\ Len(rem \o data) = Len(rem) + Len(data)
    BY ConcatProperties
  <2> QED
    BY <1>1, <1>2, <2>1, <2>2
<1>3. CASE ~ whole
  <2>1. Put(rem, data) = rem \o SubSeq(data, 1, n)
    BY <1>3 DEF Put
  <2>2. n \in Nat /\ n <= Len(data)
    BY <1>1, <1>3
  <2>3. SubSeq(data, 1, n) \in Seq(Units) /\ Len(SubSeq(data, 1, n)) = n
    BY <2>2, SubSeqType
  <2>4. rem \o SubSeq(data, 1, n) \in Seq(Units) /\ Len(rem \o SubSeq(data, 1, n)) = Len(rem) + n
    BY <2>3, ConcatProperties
  <2> QED
    BY <1>1, <1>3, <2>1, <2>4
<1> QED
  BY <1>2, <1>3

LEMMA AnswerType ==
  ASSUME NEW r \in Nat, NEW first \in Nat, NEW n \in Nat
  PROVE  Answer(r, first, n) \in Seq(Units) /\ Len(Answer(r, first, n)) = n
<1>1. Answer(r, first, n) \in [1 .. n -> Units]
  BY DEF Answer, Units
<1> QED
  BY <1>1

-----------------------------------------------------------------------------
(* What is still to be sent stays a sequence of units and in the buffer if *)
(* it was; a place more than a byte's has to be free for one to be left.   *)
Kept(rem, new) ==
  /\ new \in Seq(Units)
  /\ Len(rem) <= RspCap => Len(new) <= RspCap
  /\ Len(rem) + 1 < RspCap => Len(new) < RspCap

(* The buffer's bound, which FitsBuffer states, with the sizes known.      *)
InBuffer ==
  /\ Len(fStrRemained) <= RspCap
  /\ connected => Len(fStrRemained) < RspCap

(* A send that leaves less, or disconnects, keeps it.                      *)
LEMMA KeptInBuffer ==
  ASSUME TypeOK, InBuffer, NEW rem \in Seq(Units), Len(rem) <= Len(fStrRemained),
         Kept(rem, fStrRemained'), connected' => connected /\ Len(rem) + 1 < RspCap
  PROVE  InBuffer'
<1>1. RspCap \in Nat /\ Len(fStrRemained) \in Nat /\ Len(rem) \in Nat
  BY SessionAssumption DEF TypeOK
<1>2. Len(fStrRemained') \in Nat
  BY DEF Kept
<1> QED
  BY <1>1, <1>2 DEF Kept, InBuffer

LEMMA ReadFileStep ==
  ASSUME TypeOK, NEW rem \in Seq(Units), ReadFileContent(rem)
  PROVE  /\ Kept(rem, fStrRemained')
         /\ fFd' \in [req : Nat, next : Nat]
         /\ willRequestEvent' \in Masks
<1>1. /\ Count \in Int /\ fFd \in [req : Nat, next : Nat]
      /\ ReadSize \in Nat \ {0} /\ FileSize \in Nat
  <2>1. ReadSize \in Nat \ {0} /\ FileSize \in Nat /\ PageSize \in Nat
    BY SessionAssumption
  <2>2. fFd \in [req : Nat, next : Nat]
    BY DEF TypeOK
  <2>3. fFd.next \in Nat
    BY <2>2
  <2> QED
    BY <2>1, <2>2, <2>3 DEF Count, Least
<1>2. fFd' \in [req : Nat, next : Nat]
  <2>1. CASE ShortRead
    BY <2>1 DEF ReadFileContent, NoFile
  <2>2. CASE ~ ShortRead
    <3>1. fFd' = [fFd EXCEPT !.next = fFd.next + Count]
      BY <2>2 DEF ReadFileContent
    <3>2. fFd.next + Count \in Nat
      BY <1>1, <2>2 DEF ShortRead
    <3> QED
      BY <1>1, <3>1, <3>2
  <2> QED
    BY <2>1, <2>2
<1>3. Kept(rem, fStrRemained')
  <2>1. CASE Count > 0
    <3>1. Answer(fFd.req, fFd.next, Count) \in Seq(Units)
      BY <1>1, <2>1, AnswerType
    <3>2. fStrRemained' = Put(rem, Answer(fFd.req, fFd.next, Count))
      BY <2>1 DEF ReadFileContent
    <3>3. RspCap \in Nat /\ Len(rem) \in Nat
      BY SessionAssumption
    <3> DEFINE data == Answer(fFd.req, fFd.next, Count)
    <3> HIDE DEF data
    <3>4. /\ Put(rem, data) \in Seq(Units)
          /\ Len(rem) <= RspCap => Len(Put(rem, data)) <= RspCap
          /\ Len(rem) < RspCap /\ (Len(data) # 1 \/ Len(rem) + 1 < RspCap) =>
               Len(Put(rem, data)) < RspCap
      BY <3>1, PutType DEF data
    <3>5. Len(rem) + 1 < RspCap => Len(rem) < RspCap
      BY <3>3
    <3>6. Kept(rem, Put(rem, data))
      BY <3>4, <3>5, Zenon DEF Kept
    <3> QED
      BY <3>2, <3>6 DEF data
  <2>2. CASE ~ (Count > 0)
    <3>1. RspCap \in Nat /\ Len(rem) \in Nat /\ fStrRemained' = rem
      BY <2>2, SessionAssumption DEF ReadFileContent
    <3> QED
      BY <3>1 DEF Kept
  <2> QED
    BY <2>1, <2>2
<1>4. willRequestEvent' \in Masks
  BY DEF ReadFileContent, Masks
<1> QED
  BY <1>2, <1>3, <1>4

LEMMA SendDoneStep ==
  ASSUME TypeOK, NEW rem \in Seq(Units), SendDone(rem)
  PROVE  /\ Kept(rem, fStrRemained')
         /\ fFd' \in [req : Nat, next : Nat]
         /\ willRequestEvent' \in Masks
<1>1. CASE ReadFileContent(rem)
  BY <1>1, ReadFileStep
<1>2. CASE fStrRemained' = rem /\ UNCHANGED <<fFd, willRequestEvent>>
  <2>1. RspCap \in Nat /\ Len(rem) \in Nat
    BY SessionAssumption
  <2> QED
    BY <1>2, <2>1 DEF Kept, TypeOK
<1> QED
  BY <1>1, <1>2 DEF SendDone

(* Whatever send takes, and however it fails.                              *)
LEMMA SendStep ==
  ASSUME TypeOK, Send
  PROVE  /\ fStrRemained' \in Seq(Units) /\ (InBuffer => InBuffer')
         /\ fFd' \in [req : Nat, next : Nat]
         /\ willRequestEvent' \in Masks
         /\ outbox' \in Seq(Units) /\ Len(outbox') <= SndCap
         /\ connected' \in BOOLEAN /\ fEvents' \in SUBSET {R, W, K}
<1> USE DEF TypeOK
<1>a. RspCap \in Nat /\ RspCap > 1 /\ Len(fStrRemained) \in Nat
  BY SessionAssumption
<1>0. SendDone(fStrRemained) /\ (connected' => connected /\ fStrRemained = <<>>) =>
        /\ fStrRemained' \in Seq(Units) /\ (InBuffer => InBuffer')
        /\ fFd' \in [req : Nat, next : Nat]
        /\ willRequestEvent' \in Masks
  <2>1. fStrRemained \in Seq(Units) /\ Len(fStrRemained) <= Len(fStrRemained)
    BY <1>a
  <2>2. fStrRemained = <<>> => Len(fStrRemained) + 1 < RspCap
    BY <1>a
  <2> HIDE DEF TypeOK
  <2> QED
    BY <2>1, <2>2, SendDoneStep, KeptInBuffer DEF Kept
<1>1. CASE SendNothing
  BY <1>0, <1>1 DEF SendNothing
<1>2. CASE SendSome
  <2> DEFINE n == Least(Len(fStrRemained), SndCap - Len(outbox))
  <2>1. /\ n \in Nat \ {0} /\ n <= Len(fStrRemained) /\ n <= SndCap - Len(outbox)
        /\ SndCap \in Nat /\ Len(outbox) \in Nat /\ Len(fStrRemained) \in Nat
    <3>1. /\ SndCap \in Nat /\ Len(outbox) \in Nat /\ Len(fStrRemained) \in Nat
          /\ Len(outbox) <= SndCap /\ n > 0
      <4>1. n > 0
        BY <1>2 DEF SendSome
      <4> HIDE DEF n
      <4> QED
        BY <4>1, SessionAssumption
    <3> HIDE DEF TypeOK
    <3> QED
      BY <3>1 DEF Least
  <2>2. /\ outbox' = outbox \o SubSeq(fStrRemained, 1, n)
        /\ SendDone(SubSeq(fStrRemained, n + 1, Len(fStrRemained)))
        /\ UNCHANGED <<fEvents, connected>>
    BY <1>2 DEF SendSome, Unsent
  <2>3. SubSeq(fStrRemained, 1, n) \in Seq(Units) /\ Len(SubSeq(fStrRemained, 1, n)) = n
    BY <2>1, SubSeqType
  <2>4. outbox' \in Seq(Units) /\ Len(outbox') = Len(outbox) + n
    BY <2>2, <2>3, ConcatProperties
  <2> DEFINE rem == SubSeq(fStrRemained, n + 1, Len(fStrRemained))
  <2>5. rem \in Seq(Units) /\ Len(rem) = Len(fStrRemained) - n
    <3>1. n + 1 \in Nat \ {0}
      BY <2>1
    <3>2. rem \in Seq(Units) /\ Len(rem) = IF n + 1 <= Len(fStrRemained)
                                           THEN Len(fStrRemained) - (n + 1) + 1 ELSE 0
      BY <2>1, <3>1, SubSeqType
    <3> QED
      BY <2>1, <3>2
  <2>6. /\ Kept(rem, fStrRemained')
        /\ fFd' \in [req : Nat, next : Nat]
        /\ willRequestEvent' \in Masks
    BY <2>2, <2>5, SendDoneStep
  <2>7. fStrRemained' \in Seq(Units) /\ (InBuffer => InBuffer')
    <3>2. connected /\ connected' = connected
      BY <1>2, <2>2 DEF SendSome
    <3> HIDE DEF rem, n, TypeOK
    <3>1. Len(rem) \in Nat /\ Len(rem) <= Len(fStrRemained) /\ Len(rem) + 1 <= Len(fStrRemained)
      BY ONLY <2>1, <2>5
    <3>4. InBuffer => Len(fStrRemained) < RspCap
      BY <3>2 DEF InBuffer
    <3>3. InBuffer => Len(rem) + 1 < RspCap
      BY ONLY <1>a, <3>1, <3>4
    <3> QED
      BY <2>5, <2>6, <3>1, <3>2, <3>3, KeptInBuffer DEF Kept
  <2>8. Len(outbox') <= SndCap
    BY <2>1, <2>4
  <2>9. connected' \in BOOLEAN /\ fEvents' \in SUBSET {R, W, K}
    BY <2>2
  <2> HIDE DEF TypeOK, n, rem
  <2> QED
    BY <2>4, <2>6, <2>7, <2>8, <2>9
<1>3. CASE SendBlocked
  BY <1>3 DEF SendBlocked, dataVars, InBuffer, Masks
<1>4. CASE SendLost
  <2>1. <<>> \in Seq(Units) /\ Len(<<>>) = 0 /\ RspCap \in Nat \ {0} /\ SendDone(<<>>)
    BY <1>4, SessionAssumption DEF SendLost
  <2>2. /\ Kept(<<>>, fStrRemained')
        /\ fFd' \in [req : Nat, next : Nat]
        /\ willRequestEvent' \in Masks
    BY <2>1, SendDoneStep
  <2>3. Len(<<>>) <= Len(fStrRemained) /\ Len(<<>>) + 1 < RspCap /\ connected
    BY <1>4, <1>a, <2>1 DEF SendLost
  <2>4. fStrRemained' \in Seq(Units) /\ (InBuffer => InBuffer')
    <3> HIDE DEF TypeOK
    <3> QED
      BY <2>1, <2>2, <2>3, KeptInBuffer DEF Kept
  <2> QED
    BY <1>4, <2>2, <2>4 DEF SendLost
<1>5. CASE SendFails
  <2>1. SendDone(fStrRemained) /\ connected' = FALSE /\ outbox' = outbox
    BY <1>5 DEF SendFails
  <2> QED
    BY <1>0, <1>5, <2>1 DEF SendFails
<1> QED
  BY <1>1, <1>2, <1>3, <1>4, <1>5 DEF Send

-----------------------------------------------------------------------------
(* RecvData reads no more than there is, nor than the buffer has room for. *)
LEMMA RecvStep ==
  ASSUME TypeOK, Recv
  PROVE  /\ taken' \in Nat /\ taken < taken' /\ taken' <= sent
         /\ taken' - done <= ReqCap
         /\ Ends \subseteq done + 1 .. taken'
         /\ pc = "recv" /\ pc' = "arm"
         /\ UNCHANGED <<clientVars, outbox, epollVars, fEvents, events, connected>>
<1>1. ReqCap \in Nat
  BY SessionAssumption
<1> QED
  BY <1>1 DEF TypeOK, Recv, ReadLen, Blank, Least, Ends

(* What becomes of a request found in the buffer.                          *)
LEMMA ProcessStep ==
  ASSUME TypeOK, NEW p \in 1 .. Len(script), Process(p)
  PROVE  /\ Recv /\ p \in Ends
         /\ fStrRemained' \in Seq(Units)
         /\ script[p] # "post" /\ Len(fStrRemained) < RspCap => Len(fStrRemained') < RspCap
         /\ done' \in {done, p}
         /\ fFd' \in [req : Nat, next : Nat]
         /\ willRequestEvent' \in Masks
<1>1. PageSize \in Nat /\ PageSize # 1 /\ p \in Nat /\ 1 \in Nat /\ PageSize + 1 \in Nat
  BY SessionAssumption
<1>2. Answer(p, 1, PageSize) \in Seq(Units) /\ Len(Answer(p, 1, PageSize)) # 1
  BY <1>1, AnswerType
<1>3. CASE AnswerPage(p)
  <2>1. fStrRemained' = Put(fStrRemained, Answer(p, 1, PageSize)) /\ fStrRemained \in Seq(Units)
    BY <1>3 DEF AnswerPage, TypeOK
  <2>2. /\ fStrRemained' \in Seq(Units)
        /\ Len(fStrRemained) < RspCap => Len(fStrRemained') < RspCap
    BY <1>2, <2>1, PutType
  <2> QED
    BY <1>3, <2>2 DEF AnswerPage, AnswerEvent, RecvRequest, TypeOK, Masks
<1>4. CASE AnswerFile(p)
  <2>1. fStrRemained' = Put(fStrRemained, Answer(p, 1, PageSize)) /\ fStrRemained \in Seq(Units)
    BY <1>4 DEF AnswerFile, TypeOK
  <2>2. /\ fStrRemained' \in Seq(Units)
        /\ Len(fStrRemained) < RspCap => Len(fStrRemained') < RspCap
    BY <1>2, <2>1, PutType
  <2>3. fFd' \in [req : Nat, next : Nat]
    BY <1>1, <1>4 DEF AnswerFile
  <2> QED
    BY <1>4, <2>2, <2>3 DEF AnswerFile, AnswerEvent, RecvRequest, TypeOK, Masks
<1>5. CASE SkipRequest(p)
  BY <1>5 DEF SkipRequest, RecvRequest, TypeOK, Masks
<1>6. CASE RefuseRequest(p)
  <2>1. fStrRemained \o Answer(p, 1, PageSize) \in Seq(Units)
    BY <1>2, ConcatProperties DEF TypeOK
  <2>2. fFd' \in [req : Nat, next : Nat]
    BY <1>6 DEF RefuseRequest, TypeOK, NoFile
  <2> QED
    BY <1>6, <2>1, <2>2 DEF RefuseRequest, RecvRequest, TypeOK, Masks
<1> QED
  BY <1>3, <1>4, <1>5, <1>6 DEF Process

-----------------------------------------------------------------------------
LEMMA InitType == Init => TypeOK
<1> SUFFICES ASSUME Init PROVE TypeOK
  OBVIOUS
<1>1. SndCap \in Nat /\ ReqCap \in Nat /\ script \in Seq(Kinds)
  BY SessionAssumption DEF Init
<1>2. <<>> \in Seq(Units) /\ Len(<<>>) = 0 /\ Len(script) \in Nat
  BY <1>1
<1>3. /\ script \in Scripts /\ sent = 0 /\ taken = 0 /\ done = 0
      /\ outbox = <<>> /\ received = <<>> /\ fStrRemained = <<>>
  BY DEF Init
<1>4. 0 \in Nat /\ 0 <= Len(script) /\ 0 - 0 <= ReqCap /\ 0 <= SndCap
  BY <1>1, <1>2
<1>5. /\ armed \in Masks /\ hand \in Masks /\ willRequestEvent \in Masks
      /\ fEvents \in SUBSET {R, W, K} /\ events \in SUBSET {R, W, K}
      /\ fFd \in [req : Nat, next : Nat]
  BY DEF Init, Masks, NoFile
<1>6. /\ client \in {"open", "gone"} /\ queued \in BOOLEAN /\ connected \in BOOLEAN
      /\ pc \in {"rest", "send", "recv", "arm", "delete", "deleted"}
  BY DEF Init
<1>7. /\ done <= taken /\ taken <= sent /\ sent <= Len(script) /\ taken - done <= ReqCap
      /\ sent \in Nat /\ taken \in Nat /\ done \in Nat /\ Len(outbox) <= SndCap
      /\ received \in Seq(Units) /\ outbox \in Seq(Units) /\ fStrRemained \in Seq(Units)
  BY <1>2, <1>3, <1>4
<1> QED
  BY <1>3, <1>5, <1>6, <1>7 DEF TypeOK

(* The steps of the client and of the event thread.                        *)
LEMMA OutsideType ==
  ASSUME TypeOK, Client \/ Fetch \/ Deliver
  PROVE  TypeOK'
<1>1. Len(script) \in Nat /\ SndCap \in Nat
  BY SessionAssumption DEF TypeOK
<1>2. ASSUME NEW n \in 1 .. Len(script), ClientSends(n) PROVE TypeOK'
  BY <1>1, <1>2 DEF ClientSends, TypeOK, runVars, dataVars
<1>3. CASE ClientReads
  <2>1. Head(outbox) \in Units /\ Tail(outbox) \in Seq(Units) /\ Len(Tail(outbox)) = Len(outbox) - 1
    BY <1>3 DEF ClientReads, TypeOK
  <2>2. Append(received, Head(outbox)) \in Seq(Units) /\ Len(outbox) \in Nat
    BY <2>1 DEF TypeOK
  <2> QED
    BY <1>1, <1>3, <2>1, <2>2 DEF ClientReads, TypeOK, runVars, dataVars
<1>4. CASE ClientLeaves
  BY <1>4 DEF ClientLeaves, TypeOK, runVars, dataVars
<1>5. CASE Fetch
  BY <1>5 DEF Fetch, TypeOK, clientVars, runVars, dataVars, Masks
<1>6. CASE Deliver
  BY <1>6 DEF Deliver, TypeOK, clientVars, runVars, dataVars, Masks
<1> QED
  BY <1>2, <1>3, <1>4, <1>5, <1>6 DEF Client

(* Dropping a request from the buffer makes room.                          *)
LEMMA BetweenBounds ==
  ASSUME NEW d \in Nat, NEW t \in Nat, NEW u \in Nat, NEW c \in Nat, NEW p \in Nat, NEW e,
         d <= t, t < u, u - d <= c, d < p, p <= u, e \in {d, p}
  PROVE  e \in Nat /\ e <= u /\ u - e <= c
  OBVIOUS

LEMMA RunType ==
  ASSUME TypeOK, Run
  PROVE  TypeOK'
<1>1. CASE GetEvents
  BY <1>1 DEF GetEvents, TypeOK, clientVars, epollVars, dataVars, Masks
<1>2. CASE Send
  <2>1. /\ pc' \in {"recv", "arm"}
        /\ UNCHANGED <<clientVars, epollVars, events, taken, done>>
    BY <1>2, SendKeeps
  <2>2. /\ fStrRemained' \in Seq(Units)
        /\ fFd' \in [req : Nat, next : Nat]
        /\ willRequestEvent' \in Masks
        /\ outbox' \in Seq(Units) /\ Len(outbox') <= SndCap
        /\ connected' \in BOOLEAN /\ fEvents' \in SUBSET {R, W, K}
    BY <1>2, SendStep
  <2> QED
    BY <2>1, <2>2 DEF TypeOK, clientVars, epollVars
<1>3. CASE RecvFails
  BY <1>3 DEF RecvFails, TypeOK, clientVars, epollVars, Masks
<1>4. CASE RecvBlocked
  BY <1>4 DEF RecvBlocked, TypeOK, clientVars, epollVars, dataVars, Masks
<1>5. CASE RecvPart
  <2>1. /\ Recv
        /\ willRequestEvent' = willRequestEvent \cup {R} /\ UNCHANGED <<done, fStrRemained, fFd>>
    BY <1>5 DEF RecvPart
  <2> QED
    BY <2>1, RecvStep DEF TypeOK, clientVars, epollVars, Masks
<1>6. ASSUME NEW p \in 1 .. Len(script), Process(p) PROVE TypeOK'
  <2>1. /\ Recv /\ p \in Ends
        /\ fStrRemained' \in Seq(Units)
        /\ done' \in {done, p}
        /\ fFd' \in [req : Nat, next : Nat]
        /\ willRequestEvent' \in Masks
    BY <1>6, ProcessStep
  <2>2. /\ taken' \in Nat /\ taken' <= sent /\ taken' - done <= ReqCap
        /\ p \in done + 1 .. taken' /\ pc' = "arm"
        /\ UNCHANGED <<clientVars, outbox, epollVars, fEvents, events, connected>>
    BY <2>1, RecvStep
  <2>3. taken < taken' /\ ReqCap \in Nat
    BY <2>1, RecvStep, SessionAssumption
  <2>4. done \in Nat /\ taken \in Nat /\ done <= taken /\ p \in Nat /\ done < p /\ p <= taken'
    BY <2>2 DEF TypeOK
  <2>5. done' \in Nat /\ done' <= taken' /\ taken' - done' <= ReqCap
    <3>1. taken' \in Nat /\ taken < taken' /\ taken' - done <= ReqCap /\ done' \in {done, p}
      BY <2>1, <2>2, <2>3
    <3> QED
      BY <2>3, <2>4, <3>1, BetweenBounds
  <2> QED
    BY <2>1, <2>2, <2>5 DEF TypeOK, clientVars, epollVars
<1>7. CASE RequestEvent
  BY <1>7 DEF RequestEvent, Modwatch, TypeOK, clientVars, dataVars, Masks
<1>8. CASE NothingToRequest
  BY <1>8 DEF NothingToRequest, TypeOK, clientVars, epollVars, dataVars, Masks
<1>9. CASE Delete
  BY <1>9 DEF Delete, TypeOK, clientVars, Masks, NoFile
<1> QED
  BY <1>1, <1>2, <1>3, <1>4, <1>5, <1>6, <1>7, <1>8, <1>9 DEF Run

(* Every step of the connection keeps the types and the buffers' bounds.   *)
(* (HTTPSession.cpp, the whole Run; EventContext::RequestEvent.)           *)
THEOREM TypeCorrect == Spec => []TypeOK
<1>1. TypeOK /\ [Next]_vars => TypeOK'
  <2> SUFFICES ASSUME TypeOK, [Next]_vars PROVE TypeOK'
    OBVIOUS
  <2>1. CASE Next
    BY <2>1, OutsideType, RunType DEF Next
  <2>2. CASE UNCHANGED vars
    BY <2>2 DEF vars, clientVars, epollVars, runVars, dataVars, TypeOK
  <2> QED
    BY <2>1, <2>2
<1> QED
  BY <1>1, InitType, PTL DEF Spec

-----------------------------------------------------------------------------
(* No event that the session waits for is lost: what the socket has of     *)
(* what was asked for is on its way, since a change that happens later is  *)
(* reported, and RequestEvent looks at the socket again before each rest.  *)
LEMMA WakeupOutside ==
  ASSUME TypeOK, NoLostWakeup, Client \/ Fetch \/ Deliver
  PROVE  NoLostWakeup'
<1> USE DEF NoLostWakeup, OnItsWay, Level
<1>1. SndCap \in Nat
  BY SessionAssumption
<1>2. ASSUME NEW n \in 1 .. Len(script), ClientSends(n) PROVE NoLostWakeup'
  BY <1>2 DEF ClientSends, runVars, dataVars
<1>3. CASE ClientReads
  <2>1. Len(outbox) \in Nat /\ Len(outbox') = Len(outbox) - 1
    BY <1>3 DEF ClientReads, TypeOK
  <2>2. queued' \/ Level' \cap armed' \subseteq Level \cap armed
    BY <1>1, <1>3, <2>1 DEF ClientReads, runVars, dataVars
  <2>3. UNCHANGED <<pc, hand, fEvents, armed>> /\ (queued => queued')
    BY <1>3 DEF ClientReads, runVars
  <2> HIDE DEF Level
  <2> QED
    BY <2>2, <2>3
<1>4. CASE ClientLeaves
  BY <1>4 DEF ClientLeaves, runVars, dataVars
<1>5. CASE Fetch
  BY <1>5 DEF Fetch, clientVars, runVars, dataVars
<1>6. CASE Deliver
  BY <1>6 DEF Deliver, runVars
<1> QED
  BY <1>2, <1>3, <1>4, <1>5, <1>6 DEF Client

LEMMA WakeupRun ==
  ASSUME TypeOK, NoLostWakeup, Run
  PROVE  NoLostWakeup'
<1>1. CASE RequestEvent
  BY <1>1 DEF RequestEvent, Modwatch, NoLostWakeup, OnItsWay, Level, clientVars, dataVars
<1>2. CASE ~ RequestEvent
  <2>1. pc' # "rest"
    <3>1. Recv => pc' = "arm"
      BY DEF Recv
    <3>2. Send => pc' \in {"recv", "arm"}
      BY SendKeeps
    <3> QED
      BY <1>2, <3>1, <3>2 DEF Run, GetEvents, RecvFails, RecvBlocked, RecvPart, Process,
         AnswerPage, AnswerFile, SkipRequest, RefuseRequest, RecvRequest, NothingToRequest, Delete
  <2> QED
    BY <2>1 DEF NoLostWakeup
<1> QED
  BY <1>1, <1>2

(* A session at rest is woken for what it asked for, with any sizes of the *)
(* buffers (HTTPSession.cpp:209, epoll_modwatch).                          *)
THEOREM Wakeups == Spec => []NoLostWakeup
<1>1. Init => NoLostWakeup
  <2>1. SndCap \in Nat
    BY SessionAssumption
  <2> QED
    BY DEF Init, NoLostWakeup, Level, R, W
<1>2. TypeOK /\ NoLostWakeup /\ [Next]_vars => NoLostWakeup'
  <2> SUFFICES ASSUME TypeOK, NoLostWakeup, [Next]_vars PROVE NoLostWakeup'
    OBVIOUS
  <2>1. CASE Next
    BY <2>1, WakeupOutside, WakeupRun DEF Next
  <2>2. CASE UNCHANGED vars
    BY <2>2 DEF vars, clientVars, epollVars, runVars, dataVars, NoLostWakeup, OnItsWay, Level
  <2> QED
    BY <2>1, <2>2
<1> QED
  BY <1>1, <1>2, TypeCorrect, PTL DEF Spec

-----------------------------------------------------------------------------
(* However answers and chunks of files are put behind what is left of      *)
(* others, and whatever send takes of them, they stay in the response      *)
(* buffer, with a place free while the socket is connected, but for        *)
(* ResponseError (HTTPSession.cpp:442-447, 692-701; StringFormatter::Put). *)
THEOREM BufferFits == Spec => []FitsBuffer
<1>1. Init => FitsBuffer
  BY SessionAssumption DEF Init, FitsBuffer
<1>2. TypeOK /\ FitsBuffer /\ [Next]_vars => FitsBuffer'
  <2> SUFFICES ASSUME TypeOK, FitsBuffer, [Next]_vars,
                      \A p \in 1 .. taken' : script'[p] # "post"
               PROVE  InBuffer'
    BY DEF FitsBuffer, InBuffer
  <2>1. taken' \in Nat /\ taken <= taken' /\ script' = script => InBuffer
    BY DEF TypeOK, FitsBuffer, InBuffer
  <2>2. CASE UNCHANGED <<script, taken, fStrRemained>> /\ (connected' => connected)
    <3>1. InBuffer
      BY <2>1, <2>2 DEF TypeOK
    <3> QED
      BY <2>2, <3>1 DEF InBuffer
  <2>3. CASE Send
    <3>1. UNCHANGED <<script, taken>> /\ (InBuffer => InBuffer')
      BY <2>3, SendKeeps, SendStep DEF clientVars
    <3> QED
      BY <2>1, <3>1 DEF TypeOK
  <2>4. ASSUME NEW p \in 1 .. Len(script), Process(p) PROVE InBuffer'
    <3>1. /\ Recv /\ p \in Ends /\ fStrRemained' \in Seq(Units)
          /\ script[p] # "post" /\ Len(fStrRemained) < RspCap => Len(fStrRemained') < RspCap
      BY <2>4, ProcessStep
    <3>2. /\ taken' \in Nat /\ taken < taken' /\ Ends \subseteq done + 1 .. taken'
          /\ script' = script /\ connected
      BY <3>1, RecvStep DEF clientVars, Recv
    <3>3. p \in 1 .. taken' /\ RspCap \in Nat
      BY <3>1, <3>2, SessionAssumption DEF TypeOK
    <3>4. Len(fStrRemained') \in Nat /\ Len(fStrRemained) < RspCap
      BY <2>1, <3>1, <3>2 DEF TypeOK, InBuffer
    <3> QED
      BY <3>1, <3>2, <3>3, <3>4 DEF InBuffer
  <2>5. CASE RecvPart
    <3>1. Recv /\ fStrRemained' = fStrRemained
      BY <2>5 DEF RecvPart
    <3>2. taken < taken' /\ script' = script /\ taken' \in Nat /\ connected' = connected
      BY <3>1, RecvStep DEF clientVars
    <3> QED
      BY <2>1, <3>1, <3>2 DEF TypeOK, InBuffer
  <2>6. CASE Client \/ Fetch \/ Deliver \/ UNCHANGED vars
    <3>1. UNCHANGED <<script, taken, fStrRemained, connected>>
      BY <2>6 DEF Client, ClientSends, ClientReads, ClientLeaves, Fetch, Deliver, vars,
         clientVars, dataVars
    <3> QED
      BY <2>2, <3>1
  <2>7. CASE GetEvents \/ RecvFails \/ RecvBlocked \/ RequestEvent \/ NothingToRequest \/ Delete
    <3>1. UNCHANGED <<script, taken, fStrRemained>> /\ (connected' => connected)
      BY <2>7 DEF GetEvents, RecvFails, RecvBlocked, RequestEvent, NothingToRequest, Delete,
         clientVars, dataVars
    <3> QED
      BY <2>2, <3>1
  <2> QED
    BY <2>3, <2>4, <2>5, <2>6, <2>7 DEF Next, Run
<1> QED
  BY <1>1, <1>2, TypeCorrect, PTL DEF Spec

-----------------------------------------------------------------------------
(* The order of the answers.  That no unit comes twice or too early needs  *)
(* to be known together with where the requests and the file stand: what   *)
(* was put into the pipe belongs to requests already taken and, unless     *)
(* they are refused, dropped from the buffer; and of the answer whose file *)
(* is open, only units before the next one of the file were put.           *)
Ordered(s, P) ==
  \A j \in DOMAIN P : \A i \in 1 .. j - 1 :
    P[i][1] = P[j][1] /\ s[P[j][1]] # "post" => P[i][2] < P[j][2]

Owned(s, P, t, d) ==
  \A i \in DOMAIN P : /\ P[i][1] \in 1 .. t
                      /\ s[P[i][1]] # "post" => P[i][1] <= d

FileAhead(s, P, f, d) ==
  f # NoFile => /\ f.req \in 1 .. d /\ s[f.req] = "file"
                /\ \A i \in DOMAIN P : P[i][1] = f.req => P[i][2] < f.next

Good(s, P, f, t, d) ==
  P \in Seq(Units) /\ Ordered(s, P) /\ Owned(s, P, t, d) /\ FileAhead(s, P, f, d)

PipeInv == Good(script, Pipe, fFd, taken, done)

(* A sequence behind another one: what is at each place.                   *)
LEMMA Behind ==
  ASSUME NEW P \in Seq(Units), NEW e \in Seq(Units)
  PROVE  /\ P \o e \in Seq(Units) /\ Len(P \o e) = Len(P) + Len(e)
         /\ \A i \in DOMAIN (P \o e) :
              \/ i \in 1 .. Len(P) /\ i \in DOMAIN P /\ (P \o e)[i] = P[i]
              \/ i - Len(P) \in 1 .. Len(e) /\ (P \o e)[i] = e[i - Len(P)]
<1>1. /\ P \o e \in Seq(Units) /\ Len(P \o e) = Len(P) + Len(e)
      /\ \A i \in 1 .. Len(P) + Len(e) : (P \o e)[i] = IF i <= Len(P) THEN P[i] ELSE e[i - Len(P)]
  BY ConcatProperties
<1>2. Len(P) \in Nat /\ Len(e) \in Nat /\ DOMAIN P = 1 .. Len(P)
      /\ DOMAIN (P \o e) = 1 .. Len(P) + Len(e)
  BY <1>1
<1> QED
  BY <1>1, <1>2

(* Units of one answer, from the place where it stands, keep the order.    *)
LEMMA OrderedBehind ==
  ASSUME NEW s, NEW P \in Seq(Units), NEW e \in Seq(Units), Ordered(s, P),
         NEW r \in Nat, NEW n \in Nat,
         \A k \in 1 .. Len(e) : e[k] = <<r, n + k - 1>>,
         s[r] # "post" => \A i \in DOMAIN P : P[i][1] = r => P[i][2] < n
  PROVE  Ordered(s, P \o e)
<1> DEFINE Q == P \o e
<1> SUFFICES ASSUME NEW j \in DOMAIN Q, NEW i \in 1 .. j - 1,
                    Q[i][1] = Q[j][1], s[Q[j][1]] # "post"
             PROVE  Q[i][2] < Q[j][2]
  BY DEF Ordered
<1>1. Len(P) \in Nat /\ Len(e) \in Nat /\ DOMAIN Q = 1 .. Len(P) + Len(e) /\ DOMAIN P = 1 .. Len(P)
  BY Behind
<1>2. j \in Nat /\ i \in Nat /\ i < j /\ i \in DOMAIN Q
  BY <1>1
<1>3. /\ \/ i \in DOMAIN P /\ i <= Len(P) /\ Q[i] = P[i]
         \/ i - Len(P) \in 1 .. Len(e) /\ Q[i] = e[i - Len(P)]
      /\ \/ j \in DOMAIN P /\ j <= Len(P) /\ Q[j] = P[j]
         \/ j - Len(P) \in 1 .. Len(e) /\ Q[j] = e[j - Len(P)]
  BY <1>1, <1>2, Behind
<1> HIDE DEF Q
<1>4. CASE j \in DOMAIN P /\ j <= Len(P) /\ Q[j] = P[j]
  <2>1. i \in DOMAIN P /\ Q[i] = P[i]
    BY <1>1, <1>2, <1>3, <1>4
  <2> QED
    BY <1>4, <2>1 DEF Ordered
<1>5. CASE j - Len(P) \in 1 .. Len(e) /\ Q[j] = e[j - Len(P)]
  <2>1. Q[j] = <<r, n + (j - Len(P)) - 1>> /\ n + (j - Len(P)) - 1 \in Nat
        /\ n <= n + (j - Len(P)) - 1
    <3>1. j - Len(P) \in Nat /\ 1 <= j - Len(P)
      BY <1>1, <1>2, <1>5
    <3>2. e[j - Len(P)] = <<r, n + (j - Len(P)) - 1>>
      BY <1>5
    <3> QED
      BY <1>5, <3>1, <3>2
  <2>2. Q[j][1] = r /\ Q[j][2] = n + (j - Len(P)) - 1
    BY <2>1
  <2>3. CASE i \in DOMAIN P /\ Q[i] = P[i]
    <3>1. P[i][2] < n /\ P[i] \in Units
      BY <2>2, <2>3
    <3>2. P[i][2] \in Nat
      BY <3>1 DEF Units
    <3> QED
      BY <2>1, <2>2, <2>3, <3>1, <3>2
  <2>4. CASE i - Len(P) \in 1 .. Len(e) /\ Q[i] = e[i - Len(P)]
    <3>1. Q[i] = <<r, n + (i - Len(P)) - 1>>
      BY <2>4
    <3> QED
      BY <1>1, <1>2, <2>2, <3>1
  <2> QED
    BY <1>3, <2>3, <2>4
<1> QED
  BY <1>3, <1>4, <1>5

(* The rest of the pipe may be lost ...                                    *)
LEMMA GoodPrefix ==
  ASSUME NEW s, NEW P, NEW f, NEW t, NEW d, Good(s, P, f, t, d),
         NEW Q \in Seq(Units), DOMAIN Q \subseteq DOMAIN P, \A i \in DOMAIN Q : Q[i] = P[i]
  PROVE  Good(s, Q, f, t, d)
<1>1. ASSUME NEW j \in DOMAIN Q, NEW i \in 1 .. j - 1
      PROVE  i \in DOMAIN Q
  BY Len(Q) \in Nat /\ DOMAIN Q = 1 .. Len(Q)
<1>2. Ordered(s, Q)
  BY <1>1 DEF Good, Ordered
<1> QED
  BY <1>2 DEF Good, Owned, FileAhead

(* ... a file may be closed, and requests taken.                           *)
LEMMA GoodLater ==
  ASSUME NEW s, NEW P, NEW f, NEW t \in Nat, NEW d \in Nat, Good(s, P, f, t, d),
         NEW u \in Nat, NEW e \in Nat, t <= u, d <= e
  PROVE  Good(s, P, f, u, e) /\ Good(s, P, NoFile, u, e)
<1>1. Owned(s, P, u, e)
  <2> SUFFICES ASSUME NEW i \in DOMAIN P
               PROVE  P[i][1] \in 1 .. u /\ (s[P[i][1]] # "post" => P[i][1] <= e)
    BY DEF Owned
  <2>1. P[i][1] \in 1 .. t /\ (s[P[i][1]] # "post" => P[i][1] <= d)
    BY DEF Good, Owned
  <2> QED
    BY <2>1
<1>2. FileAhead(s, P, f, e) /\ FileAhead(s, P, NoFile, e)
  BY DEF Good, FileAhead
<1> QED
  BY <1>1, <1>2 DEF Good

(* The next units of the open file go behind the rest.                     *)
LEMMA GoodChunk ==
  ASSUME NEW s, NEW P, NEW f \in [req : Nat, next : Nat], NEW t \in Nat, NEW d \in Nat,
         Good(s, P, f, t, d), f # NoFile, d <= t,
         NEW c \in Nat, NEW e \in Seq(Units), Len(e) <= c,
         \A k \in 1 .. Len(e) : e[k] = <<f.req, f.next + k - 1>>
  PROVE  /\ Good(s, P \o e, [f EXCEPT !.next = @ + c], t, d)
         /\ Good(s, P \o e, NoFile, t, d)
<1> DEFINE Q == P \o e
           g == [f EXCEPT !.next = @ + c]
<1>1. P \in Seq(Units) /\ f.req \in 1 .. d /\ f.req \in Nat /\ f.next \in Nat /\ s[f.req] = "file"
      /\ \A i \in DOMAIN P : P[i][1] = f.req => P[i][2] < f.next
  BY DEF Good, FileAhead
<1>2. Ordered(s, Q)
  BY <1>1, OrderedBehind DEF Good
<1>3. /\ Q \in Seq(Units)
      /\ \A i \in DOMAIN Q : \/ i \in DOMAIN P /\ Q[i] = P[i]
                             \/ i - Len(P) \in 1 .. Len(e) /\ Q[i] = e[i - Len(P)]
  BY <1>1, Behind
<1> HIDE DEF Q
<1>4. ASSUME NEW i \in DOMAIN Q
      PROVE  /\ Q[i][1] \in 1 .. t /\ (s[Q[i][1]] # "post" => Q[i][1] <= d)
             /\ Q[i][1] = f.req => Q[i][2] < f.next + c
  <2>1. CASE i \in DOMAIN P /\ Q[i] = P[i]
    <3>1. P[i] \in Units /\ (P[i][1] = f.req => P[i][2] < f.next)
      BY <1>1, <2>1
    <3>2. P[i][2] \in Nat /\ P[i][1] \in Nat
      BY <3>1 DEF Units
    <3>3. P[i][1] \in 1 .. t /\ (s[P[i][1]] # "post" => P[i][1] <= d)
      BY <2>1 DEF Good, Owned
    <3> QED
      BY <1>1, <2>1, <3>1, <3>2, <3>3
  <2>2. CASE i - Len(P) \in 1 .. Len(e) /\ Q[i] = e[i - Len(P)]
    <3> DEFINE k == i - Len(P)
    <3>1. Q[i] = <<f.req, f.next + k - 1>> /\ k \in 1 .. Len(e) /\ Len(e) \in Nat
      BY <2>2
    <3>2. k \in Nat /\ k <= c
      BY <3>1
    <3> HIDE DEF k
    <3>3. Q[i][1] = f.req /\ Q[i][2] = f.next + k - 1
      BY <3>1
    <3> QED
      BY <1>1, <3>2, <3>3
  <2> QED
    BY <1>3, <2>1, <2>2
<1>5. Owned(s, Q, t, d)
  BY <1>4 DEF Owned
<1>6. FileAhead(s, Q, g, d)
  <2>1. g.req = f.req /\ g.next = f.next + c
    OBVIOUS
  <2> QED
    BY <1>1, <1>4, <2>1 DEF FileAhead
<1>7. FileAhead(s, Q, NoFile, d)
  BY DEF FileAhead
<1> QED
  BY <1>2, <1>3, <1>5, <1>6, <1>7 DEF Good, Q
(* The answer to the next request goes behind the rest.                    *)
LEMMA GoodAnswer ==
  ASSUME NEW s, NEW P, NEW f \in [req : Nat, next : Nat], NEW t \in Nat, NEW d \in Nat,
         Good(s, P, f, t, d),
         NEW u \in Nat, t <= u, NEW p \in Nat, d < p, p <= u,
         NEW e \in Seq(Units), \A k \in 1 .. Len(e) : e[k] = <<p, 1 + k - 1>>,
         NEW size \in Nat, Len(e) <= size
  PROVE  /\ s[p] = "post" => Good(s, P \o e, f, u, d)
         /\ s[p] # "post" => Good(s, P \o e, f, u, p)
         /\ s[p] = "file" => Good(s, P \o e, [req |-> p, next |-> size + 1], u, p)
<1> DEFINE Q == P \o e
           g == [req |-> p, next |-> size + 1]
<1>1. P \in Seq(Units) /\ \A i \in DOMAIN P : P[i] \in Units
  BY DEF Good
<1>2. \A i \in DOMAIN P : /\ P[i][1] \in 1 .. u
                          /\ s[P[i][1]] # "post" => P[i][1] <= d /\ P[i][1] # p
  BY DEF Good, Owned
<1>3. Ordered(s, Q)
  <2>1. s[p] # "post" => \A i \in DOMAIN P : P[i][1] = p => P[i][2] < 1
    BY <1>2
  <2> QED
    BY <1>1, <2>1, OrderedBehind DEF Good
<1>4. /\ Q \in Seq(Units)
      /\ \A i \in DOMAIN Q : \/ i \in DOMAIN P /\ Q[i] = P[i]
                             \/ i - Len(P) \in 1 .. Len(e) /\ Q[i] = e[i - Len(P)]
  BY <1>1, Behind
<1> HIDE DEF Q
<1>5. ASSUME NEW i \in DOMAIN Q
      PROVE  \/ i \in DOMAIN P /\ Q[i] = P[i]
             \/ Q[i][1] = p /\ \E k \in 1 .. Len(e) : Q[i][2] = k
  <2>1. CASE i - Len(P) \in 1 .. Len(e) /\ Q[i] = e[i - Len(P)]
    <3> DEFINE k == i - Len(P)
    <3>1. k \in 1 .. Len(e) /\ Q[i] = <<p, 1 + k - 1>> /\ k \in Nat
      BY <2>1
    <3> HIDE DEF k
    <3> QED
      BY <3>1
  <2> QED
    BY <1>4, <2>1
<1>6. /\ Owned(s, Q, u, p)
      /\ s[p] = "post" => Owned(s, Q, u, d)
  <2>1. ASSUME NEW i \in DOMAIN Q
        PROVE  /\ Q[i][1] \in 1 .. u /\ (s[Q[i][1]] # "post" => Q[i][1] <= p)
               /\ s[p] = "post" => (s[Q[i][1]] # "post" => Q[i][1] <= d)
    <3>1. CASE i \in DOMAIN P /\ Q[i] = P[i]
      BY <1>2, <3>1
    <3>2. CASE Q[i][1] = p
      BY <3>2
    <3> QED
      BY <1>5, <3>1, <3>2
  <2> QED
    BY <2>1 DEF Owned
<1>7. FileAhead(s, Q, f, d) /\ FileAhead(s, Q, f, p)
  <2> SUFFICES ASSUME f # NoFile
               PROVE  /\ f.req \in 1 .. d /\ f.req \in 1 .. p /\ s[f.req] = "file"
                      /\ \A i \in DOMAIN Q : Q[i][1] = f.req => Q[i][2] < f.next
    BY DEF FileAhead
  <2>1. /\ f.req \in 1 .. d /\ s[f.req] = "file"
        /\ \A i \in DOMAIN P : P[i][1] = f.req => P[i][2] < f.next
    BY DEF Good, FileAhead
  <2>2. f.req # p /\ f.req \in 1 .. p
    BY <2>1
  <2> QED
    BY <1>5, <2>1, <2>2
<1>8. s[p] = "file" => FileAhead(s, Q, g, p)
  <2> SUFFICES ASSUME s[p] = "file"
               PROVE  \A i \in DOMAIN Q : Q[i][1] = p => Q[i][2] < size + 1
    BY DEF FileAhead
  <2> QED
    BY <1>2, <1>5
<1> QED
  BY <1>3, <1>4, <1>6, <1>7, <1>8 DEF Good, Q

(* Put appends the beginning of the data.                                  *)
LEMMA PutAppends ==
  ASSUME NEW rem \in Seq(Units), NEW data \in Seq(Units)
  PROVE  \E e \in Seq(Units) : /\ Put(rem, data) = rem \o e
                               /\ Len(e) <= Len(data)
                               /\ \A k \in 1 .. Len(e) : e[k] = data[k]
<1> DEFINE room == RspCap - Len(rem)
           n == IF room = 0 THEN 0 ELSE room - 1
           whole == room < 0 \/ Len(data) < room \/ (Len(data) = 1 /\ room = 1)
<1>1. RspCap \in Nat /\ Len(rem) \in Nat /\ Len(data) \in Nat /\ room \in Int
  BY SessionAssumption
<1>2. CASE whole
  <2>1. Put(rem, data) = rem \o data
    BY <1>2 DEF Put
  <2>2. Len(data) <= Len(data)
    BY <1>1
  <2> QED
    BY <2>1, <2>2, Zenon
<1>3. CASE ~ whole
  <2>1. Put(rem, data) = rem \o SubSeq(data, 1, n)
    BY <1>3 DEF Put
  <2>2. n \in Nat /\ n <= Len(data)
    BY <1>1, <1>3
  <2>3. SubSeq(data, 1, n) \in Seq(Units) /\ Len(SubSeq(data, 1, n)) = n
    BY <2>2, SubSeqType
  <2>4. \A k \in 1 .. n : SubSeq(data, 1, n)[k] = data[k]
    BY <2>2, <2>3
  <2> QED
    BY <2>1, <2>2, <2>3, <2>4
<1> QED
  BY <1>2, <1>3

LEMMA AnswerUnits ==
  \A r, first, n \in Nat :
    /\ Answer(r, first, n) \in Seq(Units) /\ Len(Answer(r, first, n)) = n
    /\ \A k \in 1 .. n : Answer(r, first, n)[k] = <<r, first + k - 1>>
<1> TAKE r, first, n \in Nat
<1>1. \A k \in 1 .. n : Answer(r, first, n)[k] = <<r, first + k - 1>>
  BY DEF Answer
<1> QED
  BY <1>1, AnswerType

(* Concatenation, by a name the provers do not look behind: they lose      *)
(* themselves in what they know of sequences.                              *)
Cat(x, y) == x \o y

LEMMA CatType == \A x, y \in Seq(Units) : Cat(x, y) \in Seq(Units)
  BY ConcatProperties DEF Cat

LEMMA CatAssociative ==
  \A x, y, z \in Seq(Units) : Cat(Cat(x, y), z) = Cat(x, Cat(y, z))
  BY DEF Cat

(* What is behind the rest in the buffer is behind the rest in the pipe.   *)
LEMMA PipeBehind ==
  \A a, b, c, e \in Seq(Units) : Cat(Cat(a, b), Cat(c, e)) = Cat(Cat(Cat(a, b), c), e)
  BY CatType, CatAssociative

(* What goes from the buffer to the kernel stays where it is in the pipe.  *)
LEMMA PipeMoves ==
  \A a, b, h, c \in Seq(Units) : Cat(Cat(a, Cat(b, h)), c) = Cat(Cat(a, b), Cat(h, c))
  BY CatType, CatAssociative

-----------------------------------------------------------------------------
(* After the send, the next units of the file.                             *)
LEMMA SendDoneOrder ==
  ASSUME TypeOK, NEW rem \in Seq(Units), SendDone(rem), outbox' \in Seq(Units),
         Good(script, received \o outbox' \o rem, fFd, taken, done)
  PROVE  Good(script, Pipe', fFd', taken, done)
<1> DEFINE P == received \o outbox' \o rem
<1>1. /\ received' = received /\ received \in Seq(Units)
      /\ taken \in Nat /\ done \in Nat /\ done <= taken /\ fFd \in [req : Nat, next : Nat]
  BY DEF SendDone, clientVars, TypeOK
<1>2. CASE fStrRemained' = rem /\ fFd' = fFd
  BY <1>1, <1>2 DEF Pipe
<1>3. CASE ReadFileContent(rem)
  <2>1. /\ fFd # NoFile /\ ReadSize \in Nat \ {0} /\ Count \in Int
        /\ fFd.req \in Nat /\ fFd.next \in Nat
    <3>1. ReadSize \in Nat \ {0} /\ FileSize \in Nat /\ PageSize \in Nat
      BY SessionAssumption
    <3> QED
      BY <1>1, <1>3, <3>1 DEF ReadFileContent, Count, Least
  <2>2. CASE Count > 0
    <3> DEFINE data == Answer(fFd.req, fFd.next, Count)
    <3>1. /\ data \in Seq(Units) /\ Len(data) = Count /\ Count \in Nat
          /\ \A k \in 1 .. Count : data[k] = <<fFd.req, fFd.next + k - 1>>
      <4> DEFINE r == fFd.req
                 first == fFd.next
      <4>1. Count \in Nat /\ r \in Nat /\ first \in Nat
        BY <2>1, <2>2
      <4> HIDE DEF Count, r, first
      <4>2. /\ Answer(r, first, Count) \in Seq(Units) /\ Len(Answer(r, first, Count)) = Count
            /\ \A k \in 1 .. Count : Answer(r, first, Count)[k] = <<r, first + k - 1>>
        BY <4>1, AnswerUnits
      <4> QED
        BY <4>1, <4>2 DEF r, first
    <3>2. fStrRemained' = Put(rem, data)
      BY <1>3, <2>2 DEF ReadFileContent
    <3> HIDE DEF data
    <3>3. PICK e \in Seq(Units) : /\ Put(rem, data) = rem \o e /\ Len(e) <= Len(data)
                                  /\ \A k \in 1 .. Len(e) : e[k] = data[k]
      BY <3>1, PutAppends
    <3>4. /\ Len(e) <= Count
          /\ \A k \in 1 .. Len(e) : e[k] = <<fFd.req, fFd.next + k - 1>>
      <4>1. Len(e) \in Nat /\ Len(e) <= Count
        BY <3>1, <3>3
      <4> QED
        BY <3>1, <3>3, <4>1
    <3>5. Pipe' = P \o e
      <4>1. Pipe' = received \o outbox' \o fStrRemained' /\ fStrRemained' = rem \o e
        BY <1>1, <3>2, <3>3 DEF Pipe
      <4>2. Cat(Cat(received, outbox'), Cat(rem, e)) = Cat(Cat(Cat(received, outbox'), rem), e)
        BY <1>1, PipeBehind
      <4>3. received \o outbox' \o (rem \o e) = (received \o outbox' \o rem) \o e
        BY <4>2 DEF Cat
      <4> QED
        BY <4>1, <4>3
    <3>6. /\ Good(script, P \o e, [fFd EXCEPT !.next = @ + Count], taken, done)
          /\ Good(script, P \o e, NoFile, taken, done)
      <4> HIDE DEF P
      <4> QED
        BY <1>1, <2>1, <3>1, <3>4, GoodChunk DEF P
    <3>7. fFd' = NoFile \/ fFd' = [fFd EXCEPT !.next = @ + Count]
      BY <1>3 DEF ReadFileContent
    <3> QED
      BY <3>5, <3>6, <3>7
  <2>3. CASE ~ (Count > 0)
    <3>1. fStrRemained' = rem /\ fFd' = NoFile
      BY <1>3, <2>1, <2>3 DEF ReadFileContent, ShortRead
    <3>2. Pipe' = P
      BY <1>1, <3>1 DEF Pipe
    <3> QED
      BY <1>1, <3>1, <3>2, GoodLater
  <2> QED
    BY <2>2, <2>3
<1> QED
  BY <1>2, <1>3 DEF SendDone

(* However much send takes.                                                *)
LEMMA SendOrder ==
  ASSUME TypeOK, PipeInv, Send
  PROVE  Good(script, Pipe', fFd', taken, done)
<1>1. /\ received \in Seq(Units) /\ outbox \in Seq(Units) /\ fStrRemained \in Seq(Units)
      /\ <<>> \in Seq(Units)
      /\ Good(script, received \o outbox \o fStrRemained, fFd, taken, done)
  BY DEF TypeOK, PipeInv, Pipe
<1>2. CASE SendNothing \/ SendFails
  <2>1. SendDone(fStrRemained) /\ outbox' = outbox
    BY <1>2 DEF SendNothing, SendFails
  <2>2. Good(script, received \o outbox' \o fStrRemained, fFd, taken, done)
    BY <1>1, <2>1
  <2> QED
    BY <1>1, <2>1, <2>2, SendDoneOrder
<1>3. CASE SendSome
  <2> DEFINE n == Least(Len(fStrRemained), SndCap - Len(outbox))
             head == SubSeq(fStrRemained, 1, n)
             rest == SubSeq(fStrRemained, n + 1, Len(fStrRemained))
  <2>1. /\ outbox' = outbox \o head /\ SendDone(rest)
        /\ n \in Nat /\ n <= Len(fStrRemained) /\ Len(fStrRemained) \in Nat
    <3>1. SndCap \in Nat /\ Len(outbox) \in Nat /\ Len(fStrRemained) \in Nat
      BY <1>1, SessionAssumption
    <3> QED
      BY <1>3, <3>1 DEF SendSome, Unsent, Least
  <2> HIDE DEF n
  <2>2. head \in Seq(Units) /\ rest \in Seq(Units)
    <3>1. n + 1 \in Nat \ {0}
      BY <2>1
    <3> QED
      BY <1>1, <2>1, <3>1, SubSeqType
  <2>3. head \o rest = fStrRemained
    <3>1. /\ 1 \in 1 .. Len(fStrRemained) + 1 /\ n \in 1 - 1 .. Len(fStrRemained)
          /\ Len(fStrRemained) \in n .. Len(fStrRemained)
      BY <2>1
    <3>2. head \o rest = SubSeq(fStrRemained, 1, Len(fStrRemained))
      BY <1>1, <3>1, ConcatAdjacentSubSeq
    <3>3. SubSeq(fStrRemained, 1, Len(fStrRemained)) = fStrRemained
      BY <1>1, SubSeqFull
    <3> QED
      BY <3>2, <3>3
  <2> HIDE DEF head, rest
  <2>4. received \o outbox' \o rest = received \o outbox \o fStrRemained
    <3>1. Cat(Cat(received, Cat(outbox, head)), rest) = Cat(Cat(received, outbox), Cat(head, rest))
      BY <1>1, <2>2, PipeMoves
    <3> QED
      BY <2>1, <2>3, <3>1 DEF Cat
  <2>5. outbox' \in Seq(Units)
    BY <1>1, <2>1, <2>2, CatType DEF Cat
  <2>6. Good(script, received \o outbox' \o rest, fFd, taken, done)
    BY <1>1, <2>4
  <2> QED
    BY <2>1, <2>2, <2>5, <2>6, SendDoneOrder
<1>4. CASE SendBlocked
  BY <1>4 DEF SendBlocked, dataVars, clientVars, PipeInv, Pipe
<1>5. CASE SendLost
  <2> DEFINE Q == received \o outbox
             P == Q \o fStrRemained
  <2>1. Q \in Seq(Units)
    BY <1>1, ConcatProperties
  <2>2. Q \o <<>> = Q
    BY <2>1, ConcatEmptySeq
  <2>3. DOMAIN Q \subseteq DOMAIN P /\ \A i \in DOMAIN Q : Q[i] = P[i]
    <3> HIDE DEF Q
    <3>1. /\ P \in Seq(Units) /\ Len(P) = Len(Q) + Len(fStrRemained)
          /\ \A i \in 1 .. Len(Q) + Len(fStrRemained) :
               P[i] = IF i <= Len(Q) THEN Q[i] ELSE fStrRemained[i - Len(Q)]
      BY <1>1, <2>1, ConcatProperties
    <3>2. /\ DOMAIN Q = 1 .. Len(Q) /\ DOMAIN P = 1 .. Len(P)
          /\ Len(Q) \in Nat /\ Len(fStrRemained) \in Nat
      BY <1>1, <2>1, <3>1
    <3> HIDE DEF P
    <3> QED
      BY <3>1, <3>2
  <2>4. Good(script, P, fFd, taken, done)
    BY <1>1
  <2> HIDE DEF P
  <2>5. Good(script, Q, fFd, taken, done)
    BY <2>1, <2>3, <2>4, GoodPrefix
  <2>6. SendDone(<<>>) /\ outbox' = outbox
    BY <1>5 DEF SendLost
  <2>7. Good(script, received \o outbox' \o <<>>, fFd, taken, done)
    BY <2>2, <2>5, <2>6
  <2> QED
    BY <1>1, <2>6, <2>7, SendDoneOrder
<1> QED
  BY <1>2, <1>3, <1>4, <1>5 DEF Send

(* The answer to a request found in the buffer.                            *)
LEMMA ProcessOrder ==
  ASSUME TypeOK, PipeInv, NEW p \in 1 .. Len(script), Process(p)
  PROVE  PipeInv'
<1>1. /\ taken' \in Nat /\ taken <= taken' /\ p \in Nat /\ done < p /\ p <= taken'
      /\ UNCHANGED <<script, received, outbox>>
  <2>1. Recv /\ p \in Ends
    BY ProcessStep
  <2> QED
    BY <2>1, RecvStep DEF TypeOK, clientVars
<1>2. /\ taken \in Nat /\ done \in Nat /\ fFd \in [req : Nat, next : Nat]
      /\ received \in Seq(Units) /\ outbox \in Seq(Units) /\ fStrRemained \in Seq(Units)
      /\ Good(script, Pipe, fFd, taken, done)
  BY DEF TypeOK, PipeInv
<1>3. ASSUME NEW size \in Nat, NEW e \in Seq(Units), Len(e) <= size,
             \A k \in 1 .. Len(e) : e[k] = Answer(p, 1, size)[k], fStrRemained' = fStrRemained \o e
      PROVE  /\ script[p] = "post" => Good(script, Pipe', fFd, taken', done)
             /\ script[p] # "post" => Good(script, Pipe', fFd, taken', p)
             /\ script[p] = "file" =>
                  Good(script, Pipe', [req |-> p, next |-> size + 1], taken', p)
  <2>1. \A k \in 1 .. Len(e) : e[k] = <<p, 1 + k - 1>>
    <3>1. \A k \in 1 .. size : Answer(p, 1, size)[k] = <<p, 1 + k - 1>>
      <4>1. p \in Nat /\ 1 \in Nat
        BY <1>1
      <4> QED
        BY <4>1, AnswerUnits
    <3>2. Len(e) \in Nat /\ size \in Nat /\ Len(e) <= size
      BY <1>3
    <3> SUFFICES ASSUME NEW k \in 1 .. Len(e) PROVE e[k] = <<p, 1 + k - 1>>
      OBVIOUS
    <3>3. k \in 1 .. size /\ e[k] = Answer(p, 1, size)[k]
      BY <1>3, <3>2
    <3> QED
      BY <3>1, <3>3
  <2>2. Pipe' = Pipe \o e
    <3>1. Cat(Cat(received, outbox), Cat(fStrRemained, e))
            = Cat(Cat(Cat(received, outbox), fStrRemained), e)
      BY <1>2, PipeBehind
    <3> QED
      BY <1>1, <1>3, <3>1 DEF Cat, Pipe
  <2> QED
    BY <1>1, <1>2, <1>3, <2>1, <2>2, GoodAnswer
<1>4. ASSUME NEW size \in Nat, fStrRemained' = Put(fStrRemained, Answer(p, 1, size))
      PROVE  \E e \in Seq(Units) : /\ fStrRemained' = fStrRemained \o e /\ Len(e) <= size
                                   /\ \A k \in 1 .. Len(e) : e[k] = Answer(p, 1, size)[k]
  <2> DEFINE data == Answer(p, 1, size)
  <2>1. data \in Seq(Units) /\ Len(data) = size
    BY <1>1, AnswerUnits
  <2>2. fStrRemained' = Put(fStrRemained, data)
    BY <1>4
  <2> HIDE DEF data
  <2>3. PICK e \in Seq(Units) : /\ Put(fStrRemained, data) = fStrRemained \o e
                                /\ Len(e) <= Len(data)
                                /\ \A k \in 1 .. Len(e) : e[k] = data[k]
    BY <1>2, <2>1, PutAppends
  <2> QED
    BY <2>1, <2>2, <2>3 DEF data
<1>5. PageSize \in Nat /\ 1 \in Nat
  BY SessionAssumption
<1>6. CASE AnswerPage(p)
  <2>1. /\ fStrRemained' = Put(fStrRemained, Answer(p, 1, PageSize))
        /\ script[p] = "page" /\ done' = p /\ fFd' = fFd
    BY <1>6 DEF AnswerPage
  <2>2. Good(script, Pipe', fFd, taken', p)
    BY <1>3, <1>4, <1>5, <2>1
  <2> QED
    BY <1>1, <2>1, <2>2 DEF PipeInv
<1>7. CASE AnswerFile(p)
  <2>1. /\ fStrRemained' = Put(fStrRemained, Answer(p, 1, PageSize))
        /\ script[p] = "file" /\ done' = p /\ fFd' = [req |-> p, next |-> PageSize + 1]
    BY <1>7 DEF AnswerFile
  <2>2. Good(script, Pipe', [req |-> p, next |-> PageSize + 1], taken', p)
    BY <1>3, <1>4, <1>5, <2>1
  <2> QED
    BY <1>1, <2>1, <2>2 DEF PipeInv
<1>8. CASE SkipRequest(p)
  <2>1. done' = p /\ UNCHANGED <<fStrRemained, fFd>>
    BY <1>8 DEF SkipRequest
  <2>2. Good(script, Pipe, fFd, taken', p)
    BY <1>1, <1>2, GoodLater
  <2> QED
    BY <1>1, <2>1, <2>2 DEF PipeInv, Pipe
<1>9. CASE RefuseRequest(p)
  <2>1. CASE script[p] = "post"
    <3> DEFINE e == Answer(p, 1, PageSize)
    <3>1. fStrRemained' = fStrRemained \o e /\ UNCHANGED <<done, fFd>>
      BY <1>9, <2>1 DEF RefuseRequest
    <3>2. e \in Seq(Units) /\ Len(e) <= PageSize
      <4>1. e \in Seq(Units) /\ Len(e) = PageSize
        BY <1>1, <1>5, AnswerType
      <4> QED
        BY <1>5, <4>1
    <3>3. Good(script, Pipe', fFd, taken', done)
      BY <1>3, <1>5, <2>1, <3>1, <3>2
    <3> QED
      BY <1>1, <3>1, <3>3 DEF PipeInv
  <2>2. CASE script[p] # "post"
    <3>1. UNCHANGED <<fStrRemained, done>> /\ fFd' \in {fFd, NoFile}
      BY <1>9, <2>2 DEF RefuseRequest
    <3>2. Good(script, Pipe, fFd, taken', done) /\ Good(script, Pipe, NoFile, taken', done)
      BY <1>1, <1>2, GoodLater
    <3> QED
      BY <1>1, <3>1, <3>2 DEF PipeInv, Pipe
  <2> QED
    BY <2>1, <2>2
<1> QED
  BY <1>6, <1>7, <1>8, <1>9 DEF Process

LEMMA PipeStep ==
  ASSUME TypeOK, PipeInv, [Next]_vars
  PROVE  PipeInv'
<1>1. /\ taken \in Nat /\ done \in Nat /\ fFd \in [req : Nat, next : Nat]
      /\ received \in Seq(Units) /\ outbox \in Seq(Units) /\ fStrRemained \in Seq(Units)
      /\ Good(script, Pipe, fFd, taken, done)
  BY DEF TypeOK, PipeInv
<1>2. CASE UNCHANGED <<script, Pipe, fFd, taken, done>>
  BY <1>1, <1>2 DEF PipeInv
<1>3. CASE ClientReads
  <2> DEFINE h == <<Head(outbox)>>
             t == Tail(outbox)
  <2>1. /\ outbox # <<>> /\ received' = Append(received, Head(outbox)) /\ outbox' = t
        /\ UNCHANGED <<script, fStrRemained, fFd, taken, done>>
    BY <1>3 DEF ClientReads, dataVars
  <2>2. /\ Head(outbox) \in Units /\ h \in Seq(Units) /\ t \in Seq(Units)
        /\ h \o t = outbox
    BY <1>1, <2>1
  <2>3. received' = received \o h
    BY <1>1, <2>1, <2>2, AppendIsConcat
  <2> HIDE DEF h, t
  <2>4. Cat(Cat(received, h), t) = Cat(received, Cat(h, t))
    BY <1>1, <2>2, CatAssociative
  <2>5. received' \o outbox' = received \o outbox
    BY <2>1, <2>2, <2>3, <2>4 DEF Cat
  <2> QED
    BY <1>2, <2>1, <2>5 DEF Pipe
<1>4. CASE Send
  <2>1. Good(script, Pipe', fFd', taken, done) /\ UNCHANGED <<script, taken, done>>
    BY <1>4, SendOrder, SendKeeps DEF clientVars
  <2> QED
    BY <2>1 DEF PipeInv
<1>5. CASE RecvPart
  <2>1. Recv /\ UNCHANGED <<done, fStrRemained, fFd>>
    BY <1>5 DEF RecvPart
  <2>2. taken' \in Nat /\ taken < taken' /\ UNCHANGED <<clientVars, outbox>>
    BY <2>1, RecvStep
  <2>3. /\ UNCHANGED <<script, Pipe, fFd, done>>
        /\ taken' \in Nat /\ taken <= taken'
    BY <1>1, <2>1, <2>2 DEF Pipe, clientVars
  <2>4. Good(script, Pipe, fFd, taken', done)
    BY <1>1, <2>3, GoodLater
  <2> QED
    BY <2>3, <2>4 DEF PipeInv
<1>6. CASE Delete
  <2>1. UNCHANGED <<script, Pipe, taken, done>> /\ fFd' = NoFile
    BY <1>6 DEF Delete, clientVars, Pipe
  <2>2. Good(script, Pipe, NoFile, taken, done)
    BY <1>1, GoodLater
  <2> QED
    BY <2>1, <2>2 DEF PipeInv
<1>7. ASSUME NEW n \in 1 .. Len(script), ClientSends(n) PROVE PipeInv'
  BY <1>2, <1>7 DEF ClientSends, dataVars, Pipe
<1>8. CASE \/ ClientLeaves \/ Fetch \/ Deliver \/ GetEvents \/ RecvFails \/ RecvBlocked
           \/ RequestEvent \/ NothingToRequest \/ UNCHANGED vars
  BY <1>2, <1>8 DEF ClientLeaves, Fetch, Deliver, GetEvents, RecvFails, RecvBlocked, RequestEvent,
     NothingToRequest, vars, clientVars, dataVars, Pipe
<1> QED
  BY <1>2, <1>3, <1>4, <1>5, <1>6, <1>7, <1>8, ProcessOrder DEF Next, Run, Client

(* Answers keep their order: for every execution, no unit reaches the      *)
(* client twice or before one that precedes it in its answer, however much *)
(* each send takes and whatever the client pipelines (HTTPSession.cpp:263, *)
(* the rest that is moved to the front of the buffer).                     *)
THEOREM AnswersInOrder == Spec => []InOrder
<1>1. Init => PipeInv
  <2> SUFFICES ASSUME Init PROVE PipeInv
    OBVIOUS
  <2>1. Pipe = <<>> /\ <<>> \in Seq(Units) /\ DOMAIN <<>> = {} /\ fFd = NoFile
    BY DEF Init, Pipe
  <2> QED
    BY <2>1 DEF PipeInv, Good, Ordered, Owned, FileAhead
<1>2. TypeOK /\ PipeInv /\ [Next]_vars => PipeInv'
  BY PipeStep
<1>3. PipeInv => InOrder
  BY DEF PipeInv, Good, Ordered, InOrder
<1> QED
  BY <1>1, <1>2, <1>3, TypeCorrect, PTL DEF Spec

-----------------------------------------------------------------------------
(* Scanning                                                                *)

(* What a request is made of.                                              *)
Char == STRING \cup Words \cup {CR, LF, SP, ":", "http://", "host", "cmd", "N"}

(* The characters the code tells apart are different.                      *)
LEMMA Chars ==
  /\ CR # LF /\ EOLs = {CR, LF} /\ Blanks = {CR, LF, SP} /\ EOLs \subseteq Blanks
  /\ Words \cap Blanks = {} /\ SP \notin EOLs /\ ":" \notin EOLs
  BY DEF CR, LF, SP, Words, Blanks, EOLs

Stops(s, i, j, mask) ==
  /\ j \in i .. Len(s) + 1 /\ \A x \in i .. j - 1 : s[x] \notin mask
  /\ j <= Len(s) => s[j] \in mask

(* TextUntil stops at the first character of the mask.                  *)
LEMMA TextUntilIs ==
  ASSUME NEW s \in Seq(Char), NEW i \in 1 .. Len(s) + 1, NEW mask
  PROVE  Stops(s, i, TextUntil(s, i, mask), mask)
<1> DEFINE I == {x \in i .. Len(s) : s[x] \in mask}
           j == TextUntil(s, i, mask)
<1>0. Len(s) \in Nat /\ i \in Nat /\ I \in SUBSET Nat
  OBVIOUS
<1>1. j = IF I # {} THEN (IF Min(I) = 0 THEN Len(s) + 1 ELSE Min(I)) ELSE Len(s) + 1
  BY DEF TextUntil, UntilOr, SelectInSubSeq
<1> HIDE DEF j
<1>2. CASE I = {}
  <2>1. \A x \in i .. Len(s) : s[x] \notin mask
    BY <1>2
  <2> QED
    BY <1>0, <1>1, <1>2, <2>1 DEF Stops, j
<1>3. CASE I # {}
  <2>1. PICK y \in I : \A z \in I : y <= z
    BY <1>0, <1>3, LeastExists
  <2>2. Min(I) \in I /\ \A z \in I : Min(I) <= z
    BY <2>1 DEF Min
  <2>3. j = Min(I) /\ j \in i .. Len(s) /\ s[j] \in mask
    BY <1>0, <1>1, <1>3, <2>2
  <2>4. ASSUME NEW x \in i .. j - 1 PROVE s[x] \notin mask
    <3>1. x \in i .. Len(s) /\ ~(j <= x)
      BY <1>0, <2>3
    <3> QED
      BY <2>2, <2>3, <3>1
  <2> QED
    BY <1>0, <2>3, <2>4 DEF Stops, j
<1> QED
  BY <1>2, <1>3

LEMMA StopsOnce ==
  ASSUME NEW s \in Seq(Char), NEW i \in 1 .. Len(s) + 1, NEW mask, NEW j, NEW k,
         Stops(s, i, j, mask), Stops(s, i, k, mask)
  PROVE  j = k
<1>1. Len(s) \in Nat /\ i \in Nat /\ j \in i .. Len(s) + 1 /\ k \in i .. Len(s) + 1
  BY DEF Stops
<1>2. CASE j < k
  <2>1. j \in i .. k - 1 /\ j <= Len(s)
    BY <1>1, <1>2
  <2> QED
    BY <2>1 DEF Stops
<1>3. CASE k < j
  <2>1. k \in i .. j - 1 /\ k <= Len(s)
    BY <1>1, <1>3
  <2> QED
    BY <2>1 DEF Stops
<1> QED
  BY <1>1, <1>2, <1>3

(* PastEOL takes \r\n, or one of the two characters, or nothing.         *)
LEMMA PastEOLIs ==
  ASSUME NEW s \in Seq(Char), NEW i \in 1 .. Len(s) + 1
  PROVE  /\ PastEOL(s, i) \in {i, i + 1, i + 2} /\ PastEOL(s, i) <= Len(s) + 1
         /\ PastEOL(s, i) # i <=> i <= Len(s) /\ s[i] \in EOLs
         /\ PastEOL(s, i) = i + 2 <=> i + 1 <= Len(s) /\ s[i] = CR /\ s[i + 1] = LF
<1>1. Len(s) \in Nat /\ i \in Nat /\ DOMAIN s = 1 .. Len(s)
  OBVIOUS
<1>2. /\ At(s, i, CR) <=> i <= Len(s) /\ s[i] = CR
      /\ At(s, i, LF) <=> i <= Len(s) /\ s[i] = LF
      /\ At(s, i + 1, LF) <=> i + 1 <= Len(s) /\ s[i + 1] = LF
  BY <1>1 DEF At
<1>3. s[i] \in EOLs <=> s[i] = CR \/ s[i] = LF
  BY DEF EOLs
<1> QED
  BY <1>1, <1>2, <1>3 DEF PastEOL

(* A function that is defined from the end.                                *)
LEMMA Downwards ==
  ASSUME NEW n \in Nat, NEW T, n \in T, \A k \in 1 .. n : k \in T => k - 1 \in T
  PROVE  \A k \in 0 .. n : k \in T
<1> DEFINE U == {d \in 0 .. n : n - d \in T}
<1>1. 0 \in U
  OBVIOUS
<1>2. \A d \in 0 .. n : d \in U /\ d < n => d + 1 \in U
  <2> SUFFICES ASSUME NEW d \in 0 .. n, d \in U, d < n PROVE d + 1 \in U
    OBVIOUS
  <2>1. n - d \in 1 .. n /\ n - d \in T /\ (n - d) - 1 = n - (d + 1)
    OBVIOUS
  <2> QED
    BY <2>1
<1> HIDE DEF U
<1>3. 0 .. n \subseteq U
  <2>1. 0 \in Int /\ n \in Int /\ (0 <= n => 0 \in U)
    BY <1>1
  <2> QED
    BY <1>2, <2>1, IntervalInduction, Zenon
<1>4. ASSUME NEW k \in 0 .. n PROVE k \in T
  <2>1. n - k \in 0 .. n /\ n - (n - k) = k
    OBVIOUS
  <2> QED
    BY <1>3, <2>1 DEF U
<1> QED
  BY <1>4

(* A function defined on k + 1 .. is extended to k.                        *)
LEMMA Backwards ==
  ASSUME NEW n \in Nat, NEW T, \A k \in 1 .. n : (\A i \in k + 1 .. n : i \in T) => k \in T
  PROVE  \A k \in 1 .. n : k \in T
<1> DEFINE U == {k \in 0 .. n : \A i \in k + 1 .. n : i \in T}
<1>1. n \in U
  OBVIOUS
<1>2. \A k \in 1 .. n : k \in U => k - 1 \in U
  <2> SUFFICES ASSUME NEW k \in 1 .. n, k \in U PROVE k - 1 \in U
    OBVIOUS
  <2>1. k \in T
    OBVIOUS
  <2>2. \A i \in (k - 1) + 1 .. n : i = k \/ i \in k + 1 .. n
    OBVIOUS
  <2>3. k - 1 \in 0 .. n
    OBVIOUS
  <2> QED
    BY <2>1, <2>2, <2>3
<1>3. ASSUME NEW k \in 1 .. n PROVE k \in T
  <2>1. k - 1 \in 0 .. n /\ (k - 1) + 1 = k /\ k \in k .. n
    OBVIOUS
  <2> HIDE DEF U
  <2>2. k - 1 \in U
    BY <1>1, <1>2, <2>1, Downwards
  <2> QED
    BY <2>1, <2>2 DEF U
<1> QED
  BY <1>3

Follows(f, n, N, V, S) == \A i \in 1 .. n + 1 : f[i] = IF i \in S THEN V[i] ELSE f[N[i]]

(* ... exists, when each value refers to a later place only.               *)
LEMMA FromTheEnd ==
  ASSUME NEW n \in Nat, NEW B, NEW N \in [1 .. n + 1 -> 1 .. n + 1], NEW V \in [1 .. n + 1 -> B],
         NEW S, \A i \in 1 .. n + 1 : i \in S \/ i < N[i]
  PROVE  \E f \in [1 .. n + 1 -> B] : Follows(f, n, N, V, S)
<1> DEFINE Right(f, k) == \A i \in k .. n + 1 : f[i] = IF i \in S THEN V[i] ELSE f[N[i]]
           T == {k \in 0 .. n : \E f \in [k + 1 .. n + 1 -> B] : Right(f, k + 1)}
<1>1. n \in T
  <2> DEFINE f == [x \in n + 1 .. n + 1 |-> V[n + 1]]
  <2>1. n + 1 \in S
    <3>1. n + 1 \in 1 .. n + 1 /\ N[n + 1] <= n + 1
      OBVIOUS
    <3> QED
      BY <3>1
  <2>2. f \in [n + 1 .. n + 1 -> B]
    OBVIOUS
  <2>3. Right(f, n + 1)
    BY <2>1
  <2> HIDE DEF Right, f
  <2> QED
    BY <2>2, <2>3
<1>2. \A k \in 1 .. n : k \in T => k - 1 \in T
  <2> SUFFICES ASSUME NEW k \in 1 .. n, k \in T PROVE k - 1 \in T
    OBVIOUS
  <2>1. PICK f \in [k + 1 .. n + 1 -> B] : Right(f, k + 1)
    OBVIOUS
  <2> DEFINE v == IF k \in S THEN V[k] ELSE f[N[k]]
             g == [x \in k .. n + 1 |-> IF x = k THEN v ELSE f[x]]
  <2>2. v \in B
    <3>1. k \in 1 .. n + 1 /\ (k \notin S => N[k] \in k + 1 .. n + 1)
      OBVIOUS
    <3> QED
      BY <3>1
  <2>3. \A x \in k + 1 .. n + 1 : x \in k .. n + 1 /\ x # k /\ g[x] = f[x]
    OBVIOUS
  <2>4. g \in [k .. n + 1 -> B] /\ g[k] = v
    <3>1. \A x \in k .. n + 1 : x = k \/ x \in k + 1 .. n + 1
      OBVIOUS
    <3> HIDE DEF v
    <3> QED
      BY <2>2, <3>1
  <2> HIDE DEF g
  <2>5. ASSUME NEW i \in k .. n + 1 PROVE g[i] = IF i \in S THEN V[i] ELSE g[N[i]]
    <3>1. i \notin S => N[i] \in k + 1 .. n + 1 /\ g[N[i]] = f[N[i]]
      <4>1. i \in 1 .. n + 1 /\ k <= i /\ k \in Nat /\ i \in Nat
        OBVIOUS
      <4>2. N[i] \in 1 .. n + 1 /\ (i \in S \/ i < N[i])
        BY <4>1
      <4> DEFINE j == N[i]
      <4>3. j \in 1 .. n + 1 /\ (i \notin S => k + 1 <= j)
        <5> HIDE DEF T, Right
        <5>1. j \in 1 .. n + 1 /\ (i \notin S => i < j)
          BY <4>2
        <5> HIDE DEF j
        <5> QED
          BY <4>1, <5>1
      <4> HIDE DEF T, Right, j
      <4>4. i \notin S => j \in k + 1 .. n + 1
        BY <4>1, <4>3
      <4> QED
        BY <2>3, <4>4 DEF j
    <3>2. CASE i = k
      BY <2>4, <3>1, <3>2
    <3>3. CASE i # k
      <4>1. i \in k + 1 .. n + 1 /\ g[i] = f[i]
        BY <2>3, <3>3
      <4> QED
        BY <2>1, <3>1, <4>1
    <3> QED
      BY <3>2, <3>3
  <2>6. Right(g, k)
    BY <2>5
  <2>7. (k - 1) + 1 = k /\ k - 1 \in 0 .. n
    OBVIOUS
  <2> HIDE DEF Right
  <2> QED
    BY <2>4, <2>6, <2>7
<1>3. 0 \in T
  <2>1. 0 \in 0 .. n
    OBVIOUS
  <2> HIDE DEF T
  <2>2. \A k \in 0 .. n : k \in T
    BY <1>1, <1>2, Downwards
  <2> QED
    BY <2>1, <2>2
<1>4. \E f \in [0 + 1 .. n + 1 -> B] : Right(f, 0 + 1)
  BY <1>3
<1>5. 0 + 1 = 1
  OBVIOUS
<1>6. \E f \in [1 .. n + 1 -> B] : Right(f, 1)
  <2> HIDE DEF Right
  <2> QED
    BY <1>4, <1>5
<1> QED
  BY <1>6 DEF Follows

(* RequestLen: a request ends with the line behind which another end of    *)
(* line is.                                                                *)
EndAt(s, i) == TextUntil(s, i, EOLs)
NextAt(s, i) == PastEOL(s, EndAt(s, i))
BeyondAt(s, i) == PastEOL(s, NextAt(s, i))
Rule(f, s, i) ==
  f[i] = IF NextAt(s, i) = EndAt(s, i) THEN 0
         ELSE IF BeyondAt(s, i) # NextAt(s, i) THEN BeyondAt(s, i) - 1 ELSE f[NextAt(s, i)]

(* The places that RequestLen looks at are in order.                       *)
LEMMA PlacesAre ==
  ASSUME NEW s \in Seq(Char), NEW i \in 1 .. Len(s) + 1
  PROVE  /\ EndAt(s, i) \in i .. Len(s) + 1 /\ NextAt(s, i) \in i .. Len(s) + 1
         /\ BeyondAt(s, i) \in i .. Len(s) + 1
         /\ NextAt(s, i) # EndAt(s, i) => i < NextAt(s, i)
<1>1. EndAt(s, i) \in i .. Len(s) + 1
  BY TextUntilIs DEF EndAt, Stops
<1>2. Len(s) \in Nat /\ EndAt(s, i) \in 1 .. Len(s) + 1
  BY <1>1
<1>3. /\ NextAt(s, i) \in {EndAt(s, i), EndAt(s, i) + 1, EndAt(s, i) + 2}
      /\ NextAt(s, i) <= Len(s) + 1
  BY <1>2, PastEOLIs DEF NextAt
<1>4. NextAt(s, i) \in 1 .. Len(s) + 1
  BY <1>2, <1>3
<1>5. /\ BeyondAt(s, i) \in {NextAt(s, i), NextAt(s, i) + 1, NextAt(s, i) + 2}
      /\ BeyondAt(s, i) <= Len(s) + 1
  BY <1>4, PastEOLIs DEF BeyondAt
<1> QED
  BY <1>1, <1>2, <1>3, <1>4, <1>5

(* RequestLen is the first value of such a function.                       *)
LEMMA RequestLenIs ==
  ASSUME NEW s \in Seq(Char)
  PROVE  \E f \in [1 .. Len(s) + 1 -> 0 .. Len(s)] :
           RequestLen(s) = f[1] /\ \A i \in 1 .. Len(s) + 1 : Rule(f, s, i)
<1> DEFINE n == Len(s)
           S == {i \in 1 .. n + 1 : NextAt(s, i) = EndAt(s, i) \/ BeyondAt(s, i) # NextAt(s, i)}
           N == [i \in 1 .. n + 1 |-> NextAt(s, i)]
           V == [i \in 1 .. n + 1 |-> IF NextAt(s, i) = EndAt(s, i) THEN 0 ELSE BeyondAt(s, i) - 1]
           Is(f) == f = [i \in 1 .. n + 1 |->
             IF NextAt(s, i) = EndAt(s, i) THEN 0
             ELSE IF BeyondAt(s, i) # NextAt(s, i) THEN BeyondAt(s, i) - 1 ELSE f[NextAt(s, i)]]
           after == CHOOSE f : Is(f)
<1>0. n \in Nat
  OBVIOUS
<1>1. RequestLen(s) = after[1]
  BY DEF RequestLen, EndAt, NextAt, BeyondAt
<1> HIDE DEF n
<1>2. \A i \in 1 .. n + 1 : /\ NextAt(s, i) \in 1 .. n + 1 /\ BeyondAt(s, i) - 1 \in 0 .. n
                            /\ NextAt(s, i) # EndAt(s, i) => i < NextAt(s, i)
  <2> SUFFICES ASSUME NEW i \in 1 .. n + 1
               PROVE  /\ NextAt(s, i) \in 1 .. n + 1 /\ BeyondAt(s, i) - 1 \in 0 .. n
                      /\ NextAt(s, i) # EndAt(s, i) => i < NextAt(s, i)
    OBVIOUS
  <2>1. /\ NextAt(s, i) \in i .. n + 1 /\ BeyondAt(s, i) \in i .. n + 1
        /\ NextAt(s, i) # EndAt(s, i) => i < NextAt(s, i)
    BY PlacesAre DEF n
  <2> QED
    BY <1>0, <2>1
<1>3. N \in [1 .. n + 1 -> 1 .. n + 1] /\ V \in [1 .. n + 1 -> 0 .. n]
  BY <1>0, <1>2
<1>4. \A i \in 1 .. n + 1 : i \in S \/ i < N[i]
  BY <1>2
<1>5. PICK f \in [1 .. n + 1 -> 0 .. n] : \A i \in 1 .. n + 1 : f[i] = IF i \in S THEN V[i] ELSE f[N[i]]
  <2> DEFINE B == 0 .. n
  <2>1. V \in [1 .. n + 1 -> B]
    BY <1>3
  <2> HIDE DEF S, N, V, B, Is, after
  <2>2. \E f \in [1 .. n + 1 -> B] : Follows(f, n, N, V, S)
    BY <1>0, <1>3, <1>4, <2>1, FromTheEnd
  <2>3. \E f \in [1 .. n + 1 -> 0 .. n] : Follows(f, n, N, V, S)
    BY <2>2 DEF B
  <2> QED
    BY <2>3 DEF Follows
<1>6. \A i \in 1 .. n + 1 : Rule(f, s, i)
  BY <1>5 DEF Rule
<1>7. Is(f)
  BY <1>6 DEF Rule
<1>8. Is(after)
  <2> HIDE DEF Is
  <2> QED
    BY <1>7
<1> HIDE DEF S, N, V, after
<1>9. \A i \in 1 .. n + 1 : Rule(after, s, i)
  BY <1>8 DEF Rule
<1>10. after[1] = f[1]
  <2> DEFINE T == {k \in 1 .. n + 1 : after[k] = f[k]}
  <2>1. ASSUME NEW k \in 1 .. n + 1, \A i \in k + 1 .. n + 1 : i \in T PROVE k \in T
    <3>1. NextAt(s, k) # EndAt(s, k) => NextAt(s, k) \in k + 1 .. n + 1
      BY <1>0, <1>2
    <3> QED
      BY <1>6, <1>9, <2>1, <3>1 DEF Rule
  <2>2. n + 1 \in Nat /\ 1 \in 1 .. n + 1
    BY <1>0
  <2> HIDE DEF T
  <2>3. 1 \in T
    BY <2>1, <2>2, Backwards
  <2> QED
    BY <2>3 DEF T
<1> QED
  BY <1>1, <1>5, <1>6, <1>10 DEF n

-----------------------------------------------------------------------------
(* Where a request ends                                                    *)

(* How many characters the end of line at i has.                           *)
Unit(s, i) == IF i + 1 <= Len(s) /\ s[i] = CR /\ s[i + 1] = LF THEN 2 ELSE 1

(* PastEOL passes over it.                                               *)
LEMMA UnitIs ==
  ASSUME NEW s \in Seq(Char), NEW i \in 1 .. Len(s) + 1
  PROVE  /\ Unit(s, i) \in {1, 2} /\ (i <= Len(s) => i + Unit(s, i) <= Len(s) + 1)
         /\ PastEOL(s, i) = IF i <= Len(s) /\ s[i] \in EOLs THEN i + Unit(s, i) ELSE i
<1>1. Len(s) \in Nat /\ i \in Nat
  OBVIOUS
<1>2. CR \in EOLs
  BY DEF EOLs
<1>3. /\ PastEOL(s, i) \in {i, i + 1, i + 2}
      /\ PastEOL(s, i) # i <=> i <= Len(s) /\ s[i] \in EOLs
      /\ PastEOL(s, i) = i + 2 <=> i + 1 <= Len(s) /\ s[i] = CR /\ s[i + 1] = LF
  BY PastEOLIs
<1> QED
  BY <1>1, <1>2, <1>3 DEF Unit

(* What RequestLen makes of the line at k: 0 if it has no end, the end if  *)
(* there is another one behind, and what it makes of the next line if not. *)
ScanStep(f, s, k) ==
  \/ (\A x \in k .. Len(s) : s[x] \notin EOLs) /\ f[k] = 0
  \/ \E j \in k .. Len(s) : \E l \in j + 1 .. Len(s) + 1 :
       /\ \A x \in k .. j - 1 : s[x] \notin EOLs
       /\ s[j] \in EOLs /\ l = j + Unit(s, j)
       /\ f[k] = IF l <= Len(s) /\ s[l] \in EOLs THEN l + Unit(s, l) - 1 ELSE f[l]

(* One turn of RequestLen: to the end of this line, and of the next one.   *)
LEMMA Scans ==
  ASSUME NEW s \in Seq(Char), NEW f, \A i \in 1 .. Len(s) + 1 : Rule(f, s, i),
         NEW k \in 1 .. Len(s) + 1
  PROVE  ScanStep(f, s, k)
<1> DEFINE j == EndAt(s, k)  l == j + Unit(s, j)
<1>0. Len(s) \in Nat /\ k \in Nat /\ Rule(f, s, k)
  OBVIOUS
<1>1. j \in k .. Len(s) + 1 /\ (\A x \in k .. j - 1 : s[x] \notin EOLs) /\ (j <= Len(s) => s[j] \in EOLs)
  BY TextUntilIs DEF EndAt, Stops
<1>2. /\ Unit(s, j) \in {1, 2} /\ (j <= Len(s) => l <= Len(s) + 1)
      /\ NextAt(s, k) = IF j <= Len(s) /\ s[j] \in EOLs THEN l ELSE j
  <2>1. j \in 1 .. Len(s) + 1
    BY <1>0, <1>1
  <2> QED
    BY <2>1, UnitIs DEF NextAt
<1>3. CASE j = Len(s) + 1
  <2>1. f[k] = 0
    BY <1>0, <1>2, <1>3 DEF Rule
  <2> HIDE DEF j
  <2>2. \A x \in k .. Len(s) : s[x] \notin EOLs
    BY <1>0, <1>1, <1>3
  <2> QED
    BY <2>1, <2>2 DEF ScanStep
<1>4. CASE j # Len(s) + 1
  <2> HIDE DEF j
  <2>1. j \in k .. Len(s) /\ s[j] \in EOLs /\ NextAt(s, k) = l /\ l \in j + 1 .. Len(s) + 1
    BY <1>0, <1>1, <1>2, <1>4
  <2>2. l \in 1 .. Len(s) + 1 /\ l # j
    BY <1>0, <2>1
  <2>3. /\ Unit(s, l) \in {1, 2}
        /\ BeyondAt(s, k) = IF l <= Len(s) /\ s[l] \in EOLs THEN l + Unit(s, l) ELSE l
    <3> HIDE DEF l
    <3> QED
      BY <2>1, <2>2, UnitIs DEF BeyondAt
  <2>4. f[k] = IF l <= Len(s) /\ s[l] \in EOLs THEN l + Unit(s, l) - 1 ELSE f[l]
    <3>1. f[k] = IF BeyondAt(s, k) # l THEN BeyondAt(s, k) - 1 ELSE f[l]
      BY <1>0, <2>1, <2>2 DEF Rule, j
    <3> HIDE DEF l
    <3> QED
      BY <2>2, <2>3, <3>1
  <2> QED
    BY <1>1, <2>1, <2>4 DEF ScanStep
<1> QED
  BY <1>3, <1>4

(* With ends of line of one character.                                     *)
LEMMA EndsInOne ==
  ASSUME NEW t \in Seq(Char), NEW c \in EOLs, NEW d \in Nat \ {0},
         d + 1 <= Len(t), t[d] = c, t[d + 1] = c, d + 2 <= Len(t) => t[d + 2] \notin EOLs,
         \A x \in 1 .. d - 1 : t[x] \in EOLs => t[x] = c /\ t[x + 1] \notin EOLs,
         NEW n \in 1 .. Len(t)
  PROVE  RequestLen(SubSeq(t, 1, n)) = IF d + 1 <= n THEN d + 1 ELSE 0
<1> DEFINE s == SubSeq(t, 1, n)
           r == IF d + 1 <= n THEN d + 1 ELSE 0
<1>0. /\ n \in Nat /\ d \in Nat /\ Len(t) \in Nat
      /\ s \in Seq(Char) /\ Len(s) = n /\ \A x \in 1 .. n : s[x] = t[x]
  OBVIOUS
<1> HIDE DEF s
<1>1. PICK f \in [1 .. n + 1 -> 0 .. n] :
        RequestLen(s) = f[1] /\ \A i \in 1 .. n + 1 : Rule(f, s, i)
  BY <1>0, RequestLenIs
<1>2. \A k \in 1 .. n + 1 : ScanStep(f, s, k)
  BY <1>0, <1>1, Scans
<1>3. f[n + 1] = 0
  <2>1. ScanStep(f, s, n + 1) /\ n + 1 .. n = {}
    BY <1>0, <1>2
  <2> QED
    BY <1>0, <2>1 DEF ScanStep
<1>4. LF \in EOLs /\ CR # LF
  BY DEF EOLs, CR, LF
<1> DEFINE T == {k \in 1 .. d : k <= n + 1 => f[k] = r}
<1>5. ASSUME NEW k \in 1 .. d, \A i \in k + 1 .. d : i \in T PROVE k \in T
  <2> SUFFICES ASSUME k <= n + 1 PROVE f[k] = r
    OBVIOUS
  <2>0. k \in Nat /\ 1 <= k /\ k <= d /\ k <= n + 1
    OBVIOUS
  <2>1. ScanStep(f, s, k)
    BY <1>0, <1>2
  <2>2. CASE (\A x \in k .. n : s[x] \notin EOLs) /\ f[k] = 0
    <3>1. n < d
      BY <1>0, <2>2
    <3>2. r = 0
      BY <1>0, <3>1
    <3> HIDE DEF r
    <3> QED
      BY <2>2, <3>2
  <2>3. CASE ~((\A x \in k .. n : s[x] \notin EOLs) /\ f[k] = 0)
    <3>1. PICK j \in k .. n : \E l \in j + 1 .. n + 1 :
            /\ \A x \in k .. j - 1 : s[x] \notin EOLs
            /\ s[j] \in EOLs /\ l = j + Unit(s, j)
            /\ f[k] = IF l <= n /\ s[l] \in EOLs THEN l + Unit(s, l) - 1 ELSE f[l]
      BY <1>0, <2>1, <2>3 DEF ScanStep
    <3>2. j <= d /\ k <= j /\ j \in 1 .. n /\ t[j] \in EOLs /\ s[j] = t[j]
      <4>a. k \in Nat /\ 1 <= k /\ n \in Nat
        OBVIOUS
      <4>b. k <= j /\ j \in 1 .. n
        <5> HIDE DEF r, T
        <5>1. j \in k .. n
          OBVIOUS
        <5> QED
          BY ONLY <4>a, <5>1
      <4>1. k <= j /\ j \in 1 .. n /\ s[j] = t[j] /\ t[j] \in EOLs
        BY <1>0, <3>1, <4>b, Zenon
      <4>2. ~(d < j)
        <5> SUFFICES ASSUME d < j PROVE FALSE
          OBVIOUS
        <5>1. d \in k .. j - 1 /\ d \in 1 .. n
          <6> HIDE DEF r, T
          <6>1. j \in Nat /\ j <= n /\ k \in Nat /\ k <= d /\ 1 <= k
            BY ONLY <2>0, <4>1, <1>0
          <6>2. d < j /\ d \in Nat /\ n \in Nat
            BY <1>0
          <6> QED
            BY ONLY <6>1, <6>2
        <5>2. s[d] = t[d]
          BY <1>0, <5>1
        <5> QED
          BY <3>1, <5>1, <5>2
      <4> QED
        BY <1>0, <4>1, <4>2
    <3>3. t[j] = c /\ (j < d => t[j + 1] \notin EOLs)
      <4>1. j = d \/ j \in 1 .. d - 1
        BY <1>0, <3>2
      <4> QED
        BY <3>2, <4>1
    <3>4. j + 1 <= n => s[j + 1] = t[j + 1]
      <4> HIDE DEF r, T
      <4>1. j + 1 <= n => j + 1 \in 1 .. n
        BY ONLY <1>0, <3>2
      <4> QED
        BY ONLY <1>0, <4>1
    <3>5. Unit(s, j) = 1
      <4>0. j < d \/ j = d
        BY ONLY <1>0, <3>2
      <4>1. ~(j + 1 <= n /\ s[j] = CR /\ s[j + 1] = LF)
        <5> HIDE DEF r, T
        <5>1. CASE j < d
          BY <1>4, <3>3, <3>4, <5>1
        <5>2. CASE j = d
          BY <1>4, <3>2, <3>3, <3>4, <5>2
        <5> QED
          BY <4>0, <5>1, <5>2
      <4> QED
        BY <1>0, <4>1 DEF Unit
    <3>6. /\ j + 1 \in 1 .. n + 1
          /\ f[k] = IF j + 1 <= n /\ s[j + 1] \in EOLs THEN j + 1 + Unit(s, j + 1) - 1 ELSE f[j + 1]
      BY <1>0, <3>1, <3>5
    <3>7. CASE j = d
      <4>1. CASE d + 1 <= n
        <5>1. Unit(s, d + 1) = 1
          <6>1. ~((d + 1) + 1 <= n /\ s[d + 1] = CR /\ s[(d + 1) + 1] = LF)
            <7> HIDE DEF r, T
            <7> SUFFICES ASSUME d + 2 <= n PROVE s[d + 2] \notin EOLs
              BY <1>0, <1>4
            <7>1. d + 2 \in 1 .. n /\ d + 2 <= Len(t)
              BY ONLY <1>0, n \in 1 .. Len(t), d + 2 <= n
            <7> QED
              BY <1>0, <7>1
          <6> QED
            BY <1>0, <6>1 DEF Unit
        <5> QED
          BY <1>0, <3>4, <3>6, <3>7, <4>1, <5>1
      <4>2. CASE ~(d + 1 <= n)
        <5>1. d = n
          BY <1>0, <3>2, <3>7, <4>2
        <5> QED
          BY <1>0, <1>3, <3>6, <3>7, <4>2, <5>1
      <4> QED
        BY <4>1, <4>2
    <3>8. CASE j < d
      <4>1. f[k] = f[j + 1]
        <5>1. j + 1 <= n => s[j + 1] \notin EOLs
          BY <3>3, <3>4, <3>8
        <5> QED
          BY <3>6, <5>1
      <4>2. j + 1 \in k + 1 .. d /\ j + 1 <= n + 1
        <5>1. k \in Nat /\ j \in Nat /\ k <= j /\ j <= n /\ n \in Nat
          BY <1>0, <2>0, <3>2
        <5> QED
          BY <3>8, <5>1
      <4> QED
        BY <1>5, <4>1, <4>2
    <3> QED
      BY <1>0, <3>2, <3>7, <3>8
  <2> QED
    BY <2>2, <2>3
<1>6. 1 \in T
  <2>1. 1 \in 1 .. d
    OBVIOUS
  <2> HIDE DEF T
  <2> QED
    BY <1>0, <1>5, <2>1, Backwards
<1> QED
  BY <1>0, <1>1, <1>6 DEF s

(* With ends of line of two characters: a carriage return at the end of    *)
(* what there is passes for an end of line of its own.                     *)
LEMMA EndsInTwo ==
  ASSUME NEW t \in Seq(Char), NEW d \in Nat, 2 < d, d + 2 <= Len(t),
         t[1] \notin EOLs, t[d - 1] = CR, t[d] = LF, t[d + 1] = CR, t[d + 2] = LF,
         \A x \in 1 .. d - 2 : t[x] = CR => t[x + 1] = LF,
         \A x \in 1 .. d - 2 : t[x] = LF => x > 1 /\ t[x - 1] = CR /\ t[x + 1] \notin EOLs,
         NEW n \in 1 .. Len(t)
  PROVE  RequestLen(SubSeq(t, 1, n)) = IF d + 2 <= n THEN d + 2 ELSE IF n = d + 1 THEN d + 1 ELSE 0
<1> DEFINE s == SubSeq(t, 1, n)
           r == IF d + 2 <= n THEN d + 2 ELSE IF n = d + 1 THEN d + 1 ELSE 0
<1>0. /\ n \in Nat /\ d \in Nat /\ Len(t) \in Nat
      /\ s \in Seq(Char) /\ Len(s) = n /\ \A x \in 1 .. n : s[x] = t[x]
  OBVIOUS
<1> HIDE DEF s
<1>1. PICK f \in [1 .. n + 1 -> 0 .. n] :
        RequestLen(s) = f[1] /\ \A i \in 1 .. n + 1 : Rule(f, s, i)
  BY <1>0, RequestLenIs
<1>2. \A k \in 1 .. n + 1 : ScanStep(f, s, k)
  BY <1>0, <1>1, Scans
<1>3. f[n + 1] = 0
  <2>1. ScanStep(f, s, n + 1) /\ n + 1 .. n = {}
    BY <1>0, <1>2
  <2> QED
    BY <1>0, <2>1 DEF ScanStep
<1>4. /\ LF \in EOLs /\ CR \in EOLs /\ CR # LF
      /\ \A x \in EOLs : x = CR \/ x = LF
  BY DEF EOLs, CR, LF
<1> DEFINE T == {k \in 1 .. d - 1 : k <= n + 1 /\ (k <= n => t[k] # LF) => f[k] = r}
<1>5. ASSUME NEW k \in 1 .. d - 1, \A i \in k + 1 .. d - 1 : i \in T PROVE k \in T
  <2> SUFFICES ASSUME k <= n + 1, k <= n => t[k] # LF PROVE f[k] = r
    OBVIOUS
  <2>1. ScanStep(f, s, k)
    BY <1>0, <1>2
  <2>2. CASE (\A x \in k .. n : s[x] \notin EOLs) /\ f[k] = 0
    <3>1. n < d - 1
      <4> SUFFICES ASSUME d - 1 <= n PROVE FALSE
        BY <1>0
      <4>1. d - 1 \in k .. n /\ d - 1 \in 1 .. n
        BY <1>0
      <4> QED
        BY <1>0, <1>4, <2>2, <4>1
    <3> QED
      BY <1>0, <2>2, <3>1
  <2>3. CASE ~((\A x \in k .. n : s[x] \notin EOLs) /\ f[k] = 0)
    <3>1. PICK j \in k .. n : \E l \in j + 1 .. n + 1 :
            /\ \A x \in k .. j - 1 : s[x] \notin EOLs
            /\ s[j] \in EOLs /\ l = j + Unit(s, j)
            /\ f[k] = IF l <= n /\ s[l] \in EOLs THEN l + Unit(s, l) - 1 ELSE f[l]
      BY <1>0, <2>1, <2>3 DEF ScanStep
    <3>2. j <= d - 1 /\ k <= j /\ j \in 1 .. n /\ t[j] \in EOLs /\ s[j] = t[j]
      <4>a. k \in Nat /\ 1 <= k /\ n \in Nat
        OBVIOUS
      <4>b. k <= j /\ j \in 1 .. n
        <5> HIDE DEF r, T
        <5>1. j \in k .. n
          OBVIOUS
        <5> QED
          BY ONLY <4>a, <5>1
      <4>1. k <= j /\ j \in 1 .. n /\ s[j] = t[j] /\ t[j] \in EOLs
        BY <1>0, <3>1, <4>b, Zenon
      <4>2. ~(d - 1 < j)
        <5> SUFFICES ASSUME d - 1 < j PROVE FALSE
          OBVIOUS
        <5>1. d - 1 \in k .. j - 1 /\ d - 1 \in 1 .. n
          <6> HIDE DEF r, T
          <6>1. k \in 1 .. d - 1 /\ d - 1 < j /\ d \in Nat /\ n \in Nat
            BY <1>0
          <6> QED
            BY ONLY <4>1, <6>1
        <5>2. s[d - 1] = t[d - 1]
          BY <1>0, <5>1
        <5> QED
          BY <1>4, <3>1, <5>1, <5>2
      <4> QED
        BY <1>0, <4>1, <4>2
    <3>3. t[j] = CR
      <4> SUFFICES ASSUME t[j] = LF PROVE FALSE
        BY <1>4, <3>2
      <4>0. j # k
        BY <1>0, <3>2
      <4>1. j # d - 1 /\ j # k
        BY <1>4, <4>0
      <4>2. j > 1 /\ t[j - 1] = CR
        <5>1. j \in 1 .. d - 2
          BY <1>0, <3>2, <4>1
        <5> QED
          BY <5>1
      <4>3. j - 1 \in k .. j - 1 /\ j - 1 \in 1 .. n /\ s[j - 1] = CR
        BY <1>0, <3>2, <4>1, <4>2
      <4> QED
        BY <1>4, <3>1, <4>3
    <3>4. t[j + 1] = LF /\ (j < d - 1 => j + 2 <= d - 1 /\ t[j + 2] \notin EOLs)
      <4>1. CASE j = d - 1
        <5>1. j + 1 = d /\ ~(j < d - 1)
          BY <4>1
        <5> QED
          BY <5>1
      <4>2. CASE j # d - 1
        <5>1. j \in 1 .. d - 2
          BY <1>0, <3>2, <4>2
        <5>2. t[j + 1] = LF
          BY <3>3, <5>1
        <5>3. j + 1 \in 1 .. d - 2
          <6>1. j + 1 # d - 1
            BY <1>0, <1>4, <5>2
          <6> QED
            BY <1>0, <5>1, <6>1
        <5>4. t[(j + 1) + 1] \notin EOLs
          BY <5>2, <5>3
        <5> QED
          BY <1>0, <5>2, <5>3, <5>4
      <4> QED
        BY <4>1, <4>2
    <3>5. CASE j = n
      <4>1. Unit(s, j) = 1
        BY <1>0, <3>5 DEF Unit
      <4>2. f[k] = f[n + 1]
        BY <1>0, <3>1, <3>5, <4>1
      <4> QED
        BY <1>0, <1>3, <3>2, <3>5, <4>2
    <3>6. CASE j < n
      <4>1. Unit(s, j) = 2
        <5>1. j + 1 \in 1 .. n /\ j + 1 <= Len(s)
          BY ONLY <1>0, <3>2, <3>6
        <5>2. s[j] = CR /\ s[j + 1] = LF
          BY <1>0, <3>2, <3>3, <3>4, <5>1
        <5> QED
          BY ONLY <5>1, <5>2 DEF Unit
      <4>2. /\ j + 2 \in 1 .. n + 1
            /\ f[k] = IF j + 2 <= n /\ s[j + 2] \in EOLs THEN j + 2 + Unit(s, j + 2) - 1 ELSE f[j + 2]
        BY <1>0, <3>1, <3>2, <3>6, <4>1
      <4>3. CASE j < d - 1
        <5>1. j + 2 <= n => s[j + 2] = t[j + 2] /\ t[j + 2] \notin EOLs
          <6>1. j + 2 <= n => j + 2 \in 1 .. n
            BY <1>0, <4>2
          <6> QED
            BY <1>0, <3>4, <4>3, <6>1
        <5>2. f[k] = f[j + 2]
          BY <4>2, <5>1
        <5>3. j + 2 \in k + 1 .. d - 1 /\ (j + 2 <= n => t[j + 2] # LF)
          BY <1>0, <1>4, <3>2, <3>4, <4>3, <5>1
        <5> QED
          BY <1>0, <1>5, <4>2, <5>2, <5>3
      <4>4. CASE j = d - 1
        <5>1. j + 2 = d + 1 /\ d <= n
          BY <1>0, <3>6, <4>4
        <5>2. CASE d = n
          BY <1>0, <1>3, <4>2, <5>1, <5>2
        <5>3. CASE n = d + 1
          <6>1. Unit(s, d + 1) = 1
            BY <1>0, <5>3 DEF Unit
          <6>2. s[d + 1] \in EOLs
            <7>1. d + 1 \in 1 .. n
              BY ONLY <1>0, <5>3
            <7>2. s[d + 1] = t[d + 1]
              BY ONLY <1>0, <7>1
            <7> QED
              BY <1>4, <7>2
          <6> QED
            BY <1>0, <4>2, <5>1, <5>3, <6>1, <6>2
        <5>4. CASE d + 2 <= n
          <6>1. s[d + 1] = CR /\ s[(d + 1) + 1] = LF
            <7>1. d + 1 \in 1 .. n /\ (d + 1) + 1 \in 1 .. n /\ (d + 1) + 1 = d + 2
              BY <1>0, <5>4
            <7> QED
              BY <1>0, <7>1
          <6>2. Unit(s, d + 1) = 2
            BY <1>0, <5>4, <6>1 DEF Unit
          <6> QED
            BY <1>0, <1>4, <4>2, <5>1, <5>4, <6>1, <6>2
        <5> QED
          BY <1>0, <5>1, <5>2, <5>3, <5>4
      <4> QED
        BY <1>0, <3>2, <4>3, <4>4
    <3> QED
      BY <1>0, <3>2, <3>5, <3>6
  <2> QED
    BY <2>2, <2>3
<1>6. 1 \in T
  <2>1. 1 \in 1 .. d - 1 /\ d - 1 \in Nat
    BY <1>0
  <2> HIDE DEF T
  <2> QED
    BY <1>5, <2>1, Backwards
<1>7. t[1] # LF
  BY <1>4
<1> QED
  BY <1>0, <1>1, <1>6, <1>7 DEF s

-----------------------------------------------------------------------------
(* What clients send, in lines                                             *)

EolForms == {<<CR>>, <<LF>>, <<CR, LF>>}

LEMMA FormsAre ==
  ASSUME NEW e \in EolForms
  PROVE  /\ e \in Seq(Char) /\ CR # LF /\ EOLs = {CR, LF}
         /\ \/ Len(e) = 1 /\ e[1] \in EOLs /\ e # <<CR, LF>>
            \/ Len(e) = 2 /\ e[1] = CR /\ e[2] = LF /\ e = <<CR, LF>>
<1>1. CR # LF /\ EOLs = {CR, LF} /\ CR \in Char /\ LF \in Char
  BY Chars DEF Char
<1> HIDE DEF CR, LF
<1>2. CASE e \in {<<CR>>, <<LF>>}
  <2>1. PICK c \in {CR, LF} : e = <<c>>
    BY <1>2
  <2>2. Len(e) = 1 /\ e[1] = c /\ e \in Seq(Char) /\ Len(<<CR, LF>>) = 2
    BY <1>1, <2>1
  <2> QED
    BY <1>1, <2>1, <2>2
<1>3. CASE e = <<CR, LF>>
  BY <1>1, <1>3
<1> QED
  BY <1>2, <1>3 DEF EolForms

(* Lines that are not empty, with their ends.                              *)
InEnd(u, x, e) ==
  u[x] \in EOLs =>
    IF Len(e) = 1
    THEN u[x] = e[1] /\ (x < Len(u) => u[x + 1] \notin EOLs)
    ELSE /\ u[x] = CR => x < Len(u) /\ u[x + 1] = LF
         /\ u[x] = LF => x > 1 /\ u[x - 1] = CR /\ (x < Len(u) => u[x + 1] \notin EOLs)
Block(u, e) ==
  /\ u \in Seq(Char) /\ u # <<>> /\ u[1] \notin EOLs /\ u[Len(u)] = e[Len(e)]
  /\ \A x \in 1 .. Len(u) : InEnd(u, x, e)
Plain(s) == s \in Seq(Char) /\ \A x \in 1 .. Len(s) : s[x] \notin EOLs

(* What a concatenation contains.                                          *)
LEMMA JoinIs ==
  ASSUME NEW a \in Seq(Char), NEW b \in Seq(Char)
  PROVE  /\ a \o b \in Seq(Char) /\ Len(a \o b) = Len(a) + Len(b)
         /\ Len(a) \in Nat /\ Len(b) \in Nat
         /\ \A x \in 1 .. Len(a) : (a \o b)[x] = a[x]
         /\ \A x \in 1 .. Len(b) : (a \o b)[Len(a) + x] = b[x]
         /\ \A x \in Len(a) + 1 .. Len(a) + Len(b) : (a \o b)[x] = b[x - Len(a)]
  OBVIOUS

(* Text without an end of line, twice, is one.                             *)
LEMMA PlainJoin ==
  ASSUME NEW a, NEW b, Plain(a), Plain(b)
  PROVE  Plain(a \o b) /\ (a # <<>> => a \o b # <<>>)
<1>1. a \in Seq(Char) /\ b \in Seq(Char)
  BY DEF Plain
<1>2. ASSUME NEW x \in 1 .. Len(a \o b) PROVE (a \o b)[x] \notin EOLs
  <2>1. CASE x <= Len(a)
    <3>1. x \in 1 .. Len(a) /\ (a \o b)[x] = a[x]
      BY <1>1, <2>1
    <3> QED
      BY <3>1 DEF Plain
  <2>2. CASE ~(x <= Len(a))
    <3>1. x - Len(a) \in 1 .. Len(b) /\ (a \o b)[x] = b[x - Len(a)]
      BY <1>1, <2>2
    <3> QED
      BY <3>1 DEF Plain
  <2> QED
    BY <2>1, <2>2
<1>3. a # <<>> => a \o b # <<>>
  <2>1. Len(a) \in Nat /\ Len(b) \in Nat /\ Len(a \o b) = Len(a) + Len(b) /\ (a # <<>> => Len(a) # 0)
    BY <1>1
  <2> QED
    BY <2>1
<1> QED
  BY <1>1, <1>2, <1>3 DEF Plain

(* A line with its end is a block, and a block behind a block is one.      *)
LEMMA LineIsBlock ==
  ASSUME NEW a, Plain(a), a # <<>>, NEW e \in EolForms
  PROVE  Block(a \o e, e)
<1> DEFINE u == a \o e
<1>0. a \in Seq(Char) /\ Len(a) \in Nat \ {0} /\ \A x \in 1 .. Len(a) : a[x] \notin EOLs
  BY DEF Plain
<1>1. /\ e \in Seq(Char) /\ CR # LF /\ EOLs = {CR, LF}
      /\ \/ Len(e) = 1 /\ e[1] \in EOLs /\ e # <<CR, LF>>
         \/ Len(e) = 2 /\ e[1] = CR /\ e[2] = LF /\ e = <<CR, LF>>
  BY FormsAre
<1>2. /\ u \in Seq(Char) /\ Len(u) = Len(a) + Len(e)
      /\ \A x \in 1 .. Len(a) : u[x] = a[x]
      /\ \A x \in 1 .. Len(e) : u[Len(a) + x] = e[x]
  BY <1>0, <1>1, JoinIs
<1> HIDE DEF u
<1>3. u # <<>> /\ u[1] \notin EOLs /\ \A x \in 1 .. Len(a) : u[x] \notin EOLs
  BY <1>0, <1>1, <1>2
<1>4. u[Len(u)] = e[Len(e)]
  BY <1>0, <1>1, <1>2
<1>5. ASSUME NEW x \in 1 .. Len(u) PROVE InEnd(u, x, e)
  <2>1. CASE x <= Len(a)
    <3>1. x \in 1 .. Len(a)
      BY <1>0, <1>2, <2>1
    <3> QED
      BY <1>3, <3>1 DEF InEnd
  <2>2. CASE Len(e) = 1 /\ ~(x <= Len(a))
    <3>1. x = Len(a) + 1 /\ x = Len(u) /\ 1 \in 1 .. Len(e)
      BY <1>0, <1>2, <2>2
    <3>2. u[x] = e[1]
      BY <1>2, <3>1
    <3> QED
      BY <1>0, <1>2, <2>2, <3>1, <3>2 DEF InEnd
  <2>3. CASE Len(e) = 2 /\ ~(x <= Len(a))
    <3>1. Len(u) = Len(a) + 2 /\ u[Len(a) + 1] = CR /\ u[Len(a) + 2] = LF
      BY <1>0, <1>1, <1>2, <2>3
    <3>2. x = Len(a) + 1 \/ x = Len(a) + 2
      BY <1>0, <2>3, <3>1
    <3> QED
      BY <1>0, <1>1, <2>3, <3>1, <3>2 DEF InEnd
  <2> QED
    BY <1>1, <2>1, <2>2, <2>3
<1> QED
  BY <1>2, <1>3, <1>4, <1>5 DEF Block, u

LEMMA BlockJoin ==
  ASSUME NEW a, NEW b, NEW e \in EolForms, Block(a, e), Block(b, e)
  PROVE  Block(a \o b, e)
<1> DEFINE u == a \o b
<1>0. /\ a \in Seq(Char) /\ Len(a) \in Nat \ {0} /\ a[1] \notin EOLs
      /\ b \in Seq(Char) /\ Len(b) \in Nat \ {0} /\ b[1] \notin EOLs
      /\ b[Len(b)] = e[Len(e)] /\ a[Len(a)] = e[Len(e)]
      /\ \A x \in 1 .. Len(a) : InEnd(a, x, e)
      /\ \A x \in 1 .. Len(b) : InEnd(b, x, e)
  BY DEF Block
<1>1. /\ e \in Seq(Char) /\ CR # LF /\ EOLs = {CR, LF}
      /\ \/ Len(e) = 1 /\ e[1] \in EOLs /\ e # <<CR, LF>>
         \/ Len(e) = 2 /\ e[1] = CR /\ e[2] = LF /\ e = <<CR, LF>>
  BY FormsAre
<1>2. /\ u \in Seq(Char) /\ Len(u) = Len(a) + Len(b)
      /\ \A x \in 1 .. Len(a) : u[x] = a[x]
      /\ \A x \in 1 .. Len(b) : u[Len(a) + x] = b[x]
  BY <1>0, JoinIs
<1> HIDE DEF u
<1>3. u # <<>> /\ u[1] \notin EOLs /\ u[Len(u)] = e[Len(e)]
  <2>1. 1 \in 1 .. Len(a) /\ Len(b) \in 1 .. Len(b) /\ Len(u) > 0
    BY <1>0, <1>2
  <2>2. u[1] = a[1] /\ u[Len(u)] = b[Len(b)]
    BY <1>2, <2>1
  <2> QED
    BY <1>0, <1>2, <2>1, <2>2
<1>4. ASSUME NEW x \in 1 .. Len(u) PROVE InEnd(u, x, e)
  <2>1. CASE x < Len(a)
    <3>1. x \in 1 .. Len(a) /\ x + 1 \in 1 .. Len(a) /\ (x > 1 => x - 1 \in 1 .. Len(a))
      BY <1>0, <1>2, <2>1
    <3>2. InEnd(a, x, e) /\ u[x] = a[x] /\ u[x + 1] = a[x + 1] /\ (x > 1 => u[x - 1] = a[x - 1])
      BY <1>0, <1>2, <3>1
    <3> QED
      BY <1>0, <1>2, <2>1, <3>2 DEF InEnd
  <2>2. CASE x = Len(a)
    <3>1. x \in 1 .. Len(a) /\ 1 \in 1 .. Len(b) /\ (x > 1 => x - 1 \in 1 .. Len(a))
      BY <1>0, <1>2, <2>2
    <3>2. InEnd(a, x, e) /\ u[x] = a[x] /\ u[x + 1] = b[1] /\ (x > 1 => u[x - 1] = a[x - 1])
      BY <1>0, <1>2, <2>2, <3>1
    <3> QED
      BY <1>0, <1>1, <1>2, <2>2, <3>2 DEF InEnd
  <2>3. CASE x > Len(a)
    <3> DEFINE y == x - Len(a)
    <3>1. y \in 1 .. Len(b) /\ x = Len(a) + y /\ x \in Nat /\ (x < Len(u) <=> y < Len(b))
      BY <1>0, <1>2, <2>3
    <3> HIDE DEF y
    <3>2. InEnd(b, y, e) /\ u[x] = b[y]
      BY <1>0, <1>2, <3>1
    <3>3. x < Len(u) => u[x + 1] = b[y + 1]
      <4> SUFFICES ASSUME x < Len(u) PROVE u[x + 1] = b[y + 1]
        OBVIOUS
      <4>1. y + 1 \in 1 .. Len(b) /\ x + 1 = Len(a) + (y + 1)
        BY <1>0, <3>1
      <4> QED
        BY <1>2, <4>1
    <3>4. y > 1 => x > 1 /\ u[x - 1] = b[y - 1]
      <4> SUFFICES ASSUME y > 1 PROVE x > 1 /\ u[x - 1] = b[y - 1]
        OBVIOUS
      <4>1. y - 1 \in 1 .. Len(b) /\ x - 1 = Len(a) + (y - 1) /\ x > 1
        BY <1>0, <3>1
      <4> QED
        BY <1>2, <4>1
    <3> QED
      BY <1>0, <3>1, <3>2, <3>3, <3>4 DEF InEnd
  <2> QED
    BY <1>0, <1>2, <2>1, <2>2, <2>3
<1> QED
  BY <1>2, <1>3, <1>4 DEF Block, u

(* The header lines are a block, or none.                                  *)
LEMMA HeadersAre ==
  ASSUME NEW e \in EolForms, NEW h \in Nat \ {0}
  PROVE  Block(FlattenSeq([i \in 1 .. h |-> <<"word", ":", SP, "word">> \o e]), e)
<1> DEFINE line == <<"word", ":", SP, "word">>
           s == [i \in 1 .. h |-> line \o e]
<1>1. e \in Seq(Char)
  BY FormsAre
<1>2. Block(line \o e, e)
  <2>1. "word" \in Char \ EOLs /\ ":" \in Char \ EOLs /\ SP \in Char \ EOLs
    BY DEF Char, Words, EOLs, CR, LF, SP
  <2>2. ASSUME NEW x \in Char \ EOLs, NEW y \in Char \ EOLs, NEW z \in Char \ EOLs
        PROVE  Plain(<<x, y, z, x>>) /\ <<x, y, z, x>> # <<>>
    <3>1. <<x, y, z, x>> \in Seq(Char) /\ Len(<<x, y, z, x>>) = 4
      OBVIOUS
    <3> QED
      BY <3>1 DEF Plain
  <2>3. Plain(line) /\ line # <<>>
    BY <2>1, <2>2
  <2> HIDE DEF line
  <2> QED
    BY <2>3, LineIsBlock
<1> HIDE DEF line
<1>3. s \in [1 .. h -> Seq(Char)] /\ \A i \in 1 .. h : s[i] = line \o e
  BY <1>2 DEF Block
<1> HIDE DEF s
<1>4. PICK g \in [1 .. h -> Seq(Char)] : Pieces(g, s, h)
  BY <1>3, FlattenByPieces
<1>5. /\ FlattenSeq(s) = g[h] /\ g[1] = s[1]
      /\ \A i \in 2 .. h : g[i] = g[i - 1] \o s[i]
  BY <1>4 DEF Pieces
<1> DEFINE T == {i \in 1 .. h : Block(g[i], e)}
<1>6. 1 <= h => 1 \in T
  <2>1. 1 \in 1 .. h /\ g[1] = line \o e
    BY <1>3, <1>5
  <2> QED
    BY <1>2, <2>1
<1>7. \A i \in 1 .. h : i \in T /\ i < h => i + 1 \in T
  <2> SUFFICES ASSUME NEW i \in 1 .. h, i \in T, i < h PROVE i + 1 \in T
    OBVIOUS
  <2>1. i + 1 \in 2 .. h /\ i + 1 \in 1 .. h /\ (i + 1) - 1 = i
    OBVIOUS
  <2>2. g[i + 1] = g[i] \o (line \o e) /\ Block(g[i], e)
    BY <1>3, <1>5, <2>1
  <2>3. Block(g[i] \o (line \o e), e)
    BY <1>2, <2>2, BlockJoin
  <2> QED
    BY <2>1, <2>2, <2>3
<1>8. h \in T
  <2>1. 1 \in Int /\ h \in Int /\ h \in 1 .. h
    OBVIOUS
  <2> HIDE DEF T
  <2>2. 1 .. h \subseteq T
    BY <1>6, <1>7, <2>1, IntervalInduction, Zenon
  <2> QED
    BY <2>1, <2>2
<1> QED
  BY <1>5, <1>8 DEF s, line

FirstLine(r) ==
  <<r.method, SP>> \o r.scheme \o r.uri \o (IF r.version = <<>> THEN <<>> ELSE <<SP>>) \o r.version

(* The first line is text without an end of line, and not empty.           *)
LEMMA FirstLineIs ==
  ASSUME RequestAssumption, NEW r \in Requests
  PROVE  Plain(FirstLine(r)) /\ FirstLine(r) # <<>>
<1>0. /\ r.method \in Words /\ r.scheme \in {<<>>, <<"http://", "host">>}
      /\ r.uri \in Seq(STRING) /\ ToSet(r.uri) \cap Blanks = {}
      /\ r.version \in Seq(STRING) /\ ToSet(r.version) \cap Blanks = {}
  BY DEF RequestAssumption
<1>p. ASSUME NEW x \in Char \ EOLs, NEW y \in Char \ EOLs PROVE Plain(<<x, y>>) /\ Plain(<<x>>)
  <2>1. <<x, y>> \in Seq(Char) /\ Len(<<x, y>>) = 2 /\ <<x>> \in Seq(Char) /\ Len(<<x>>) = 1
    OBVIOUS
  <2> QED
    BY <2>1 DEF Plain
<1>1. Plain(<<r.method, SP>>) /\ <<r.method, SP>> \in Seq(Char) /\ Len(<<r.method, SP>>) = 2
  <2>1. r.method \in Char \ EOLs /\ SP \in Char \ EOLs
    <3>1. r.method \in Words
      BY <1>0
    <3> QED
      BY <3>1 DEF Char, Words, EOLs, CR, LF, SP
  <2>2. Plain(<<r.method, SP>>)
    BY <1>p, <2>1
  <2> QED
    BY <2>2 DEF Plain
<1>2. Plain(<<>>)
  BY DEF Plain
<1>3. Plain(r.scheme)
  <2>1. Plain(<<"http://", "host">>)
    <3>1. "http://" \in Char \ EOLs /\ "host" \in Char \ EOLs
      BY DEF Char, EOLs, CR, LF
    <3> QED
      BY <1>p, <3>1
  <2> QED
    BY <1>0, <1>2, <2>1
<1>4. ASSUME NEW s \in Seq(STRING), ToSet(s) \cap Blanks = {} PROVE Plain(s)
  <2>0. s \in Seq(Char)
    <3>1. STRING \subseteq Char
      BY DEF Char
    <3> HIDE DEF Char
    <3> QED
      BY <3>1, SeqMonotonic
  <2>1. \A x \in 1 .. Len(s) : s[x] \in ToSet(s)
    BY DEF ToSet
  <2> QED
    BY <1>4, <2>0, <2>1, Chars DEF Plain
<1>5. Plain(r.uri) /\ Plain(r.version)
  BY <1>0, <1>4
<1>6. Plain(IF r.version = <<>> THEN <<>> ELSE <<SP>>)
  <2>1. Plain(<<SP>>)
    <3>1. SP \in Char \ EOLs
      BY Chars DEF Char
    <3> QED
      BY <1>p, <3>1
  <2> QED
    BY <1>2, <2>1
<1> DEFINE a == <<r.method, SP>>  z == IF r.version = <<>> THEN <<>> ELSE <<SP>>
<1> HIDE DEF a, z
<1>7. Plain(a) /\ a # <<>>
  BY <1>1 DEF a
<1>8. Plain(a \o r.scheme) /\ a \o r.scheme # <<>>
  BY <1>3, <1>7, PlainJoin
<1>9. Plain(a \o r.scheme \o r.uri) /\ a \o r.scheme \o r.uri # <<>>
  BY <1>5, <1>8, PlainJoin
<1>10. Plain(a \o r.scheme \o r.uri \o z) /\ a \o r.scheme \o r.uri \o z # <<>>
  BY <1>6, <1>9, PlainJoin DEF z
<1>11. /\ Plain(a \o r.scheme \o r.uri \o z \o r.version)
       /\ a \o r.scheme \o r.uri \o z \o r.version # <<>>
  BY <1>5, <1>10, PlainJoin
<1> QED
  BY <1>11 DEF FirstLine, a, z

(* A request is lines that are not empty and the end of one that is.       *)
LEMMA RenderedIs ==
  ASSUME RequestAssumption, NEW r \in Requests
  PROVE  /\ r.eol \in EolForms
         /\ \E u : Block(u, r.eol) /\ Rendered(r) = u \o r.eol
<1> DEFINE e == r.eol
           s == [i \in 1 .. r.headers |-> <<"word", ":", SP, "word">> \o e]
           a == FirstLine(r)
<1>0. e \in EolForms /\ r.headers \in Nat
  BY DEF RequestAssumption, EolForms
<1>1. Plain(a) /\ a # <<>>
  BY FirstLineIs
<1>2. Rendered(r) = a \o e \o FlattenSeq(s) \o e
  BY DEF Rendered, FirstLine
<1> HIDE DEF a
<1>3. Block(a \o e, e)
  BY <1>0, <1>1, LineIsBlock
<1>4. CASE r.headers = 0
  <2>1. s = <<>>
    BY <1>4
  <2>2. FlattenSeq(s) = <<>>
    BY <2>1 DEF FlattenSeq
  <2>3. a \o e \o <<>> = a \o e
    BY <1>3 DEF Block
  <2> QED
    BY <1>0, <1>2, <1>3, <2>2, <2>3
<1>5. CASE r.headers # 0
  <2>1. Block(FlattenSeq(s), e)
    BY <1>0, <1>5, HeadersAre
  <2> HIDE DEF s
  <2>2. Block(a \o e \o FlattenSeq(s), e)
    BY <1>0, <1>3, <2>1, BlockJoin
  <2> QED
    BY <1>0, <1>2, <2>2
<1> QED
  BY <1>4, <1>5

-----------------------------------------------------------------------------
(* The first request of what is to come                                    *)

(* That the first n characters of t have the length r as a request, when   *)
(* the request in t has m: a carriage return at the end may pass for the   *)
(* second end of line.                                                     *)
CutAt(t, n) == n > 3 /\ t[n - 2] = CR /\ t[n - 1] = LF /\ t[n] = CR /\ t[n + 1] = LF
EndsAt(t, n, m, r) ==
  /\ m <= n => r = m
  /\ n < m /\ r # 0 => n = m - 1 /\ CutAt(t, n)

(* Whatever comes behind it, unless that begins with an end of line.       *)
LEMMA FirstEnds ==
  ASSUME NEW e \in EolForms, NEW u, Block(u, e), NEW w \in Seq(Char), w # <<>> => w[1] \notin EOLs,
         NEW t, t = u \o e \o w, NEW n \in 1 .. Len(t), NEW m, m = Len(u) + Len(e)
  PROVE  EndsAt(t, n, m, RequestLen(SubSeq(t, 1, n)))
<1> DEFINE d == Len(u)
<1>0. /\ u \in Seq(Char) /\ d \in Nat \ {0} /\ u[1] \notin EOLs /\ u[d] = e[Len(e)]
      /\ \A x \in 1 .. d : InEnd(u, x, e)
  BY DEF Block
<1>1. /\ e \in Seq(Char) /\ CR # LF /\ EOLs = {CR, LF}
      /\ \/ Len(e) = 1 /\ e[1] \in EOLs /\ e # <<CR, LF>>
         \/ Len(e) = 2 /\ e[1] = CR /\ e[2] = LF /\ e = <<CR, LF>>
  BY FormsAre
<1>2. /\ t \in Seq(Char) /\ Len(w) \in Nat /\ Len(t) = d + Len(e) + Len(w)
      /\ \A x \in 1 .. d : t[x] = u[x]
      /\ \A x \in 1 .. Len(e) : t[d + x] = e[x]
      /\ Len(w) > 0 => t[d + Len(e) + 1] \notin EOLs
  <2> DEFINE v == u \o e
  <2>1. /\ v \in Seq(Char) /\ Len(v) = d + Len(e)
        /\ \A x \in 1 .. d : v[x] = u[x]
        /\ \A x \in 1 .. Len(e) : v[d + x] = e[x]
    BY <1>0, <1>1, JoinIs
  <2>2. t = v \o w
    OBVIOUS
  <2> HIDE DEF v, d
  <2>3. /\ t \in Seq(Char) /\ Len(t) = Len(v) + Len(w) /\ Len(v) \in Nat /\ Len(w) \in Nat
        /\ \A x \in 1 .. Len(v) : t[x] = v[x]
        /\ \A x \in 1 .. Len(w) : t[Len(v) + x] = w[x]
    <3>1. /\ v \o w \in Seq(Char) /\ Len(v \o w) = Len(v) + Len(w)
          /\ Len(v) \in Nat /\ Len(w) \in Nat
          /\ \A x \in 1 .. Len(v) : (v \o w)[x] = v[x]
          /\ \A x \in 1 .. Len(w) : (v \o w)[Len(v) + x] = w[x]
      BY <2>1, JoinIs, Zenon
    <3> QED
      BY <2>2, <3>1, Zenon
  <2>4. \A x \in 1 .. d : t[x] = u[x]
    BY ONLY <1>0, <1>1, <2>1, <2>3
  <2>5. \A x \in 1 .. Len(e) : t[d + x] = e[x]
    BY ONLY <1>0, <1>1, <2>1, <2>3
  <2>6. Len(w) > 0 => t[d + Len(e) + 1] \notin EOLs
    <3> SUFFICES ASSUME Len(w) > 0 PROVE t[Len(v) + 1] \notin EOLs
      BY <2>1
    <3>1. 1 \in 1 .. Len(w) /\ w # <<>>
      BY <2>3
    <3> QED
      BY <2>3, <3>1
  <2> QED
    BY <2>1, <2>3, <2>4, <2>5, <2>6
<1>3. m = d + Len(e)
  OBVIOUS
<1> HIDE DEF d
<1>4. CASE Len(e) = 1
  <2> DEFINE c == e[1]
  <2>1. /\ c \in EOLs /\ d + 1 <= Len(t) /\ t[d] = c /\ t[d + 1] = c
        /\ d + 2 <= Len(t) => t[d + 2] \notin EOLs
    <3>1. d \in 1 .. d /\ 1 \in 1 .. Len(e) /\ d + 1 <= Len(t) /\ (d + 2 <= Len(t) => Len(w) > 0)
      BY ONLY <1>0, <1>2, <1>4
    <3>2. t[d] = u[d] /\ t[d + 1] = e[1]
      BY <1>2, <3>1
    <3>3. d + Len(e) + 1 = d + 2
      BY <1>0, <1>4
    <3> QED
      BY <1>0, <1>1, <1>2, <1>4, <3>1, <3>2, <3>3
  <2>2. ASSUME NEW x \in 1 .. d - 1, t[x] \in EOLs PROVE t[x] = c /\ t[x + 1] \notin EOLs
    <3>1. x \in 1 .. d /\ x + 1 \in 1 .. d /\ x < d
      <4>1. d \in Nat \ {0} /\ x \in 1 .. d - 1
        BY <1>0
      <4> HIDE DEF d
      <4> QED
        BY <4>1
    <3>2. InEnd(u, x, e) /\ t[x] = u[x] /\ t[x + 1] = u[x + 1]
      BY <1>0, <1>2, <3>1
    <3> QED
      BY <1>4, <2>2, <3>1, <3>2 DEF InEnd, d
  <2> HIDE DEF c
  <2>3. RequestLen(SubSeq(t, 1, n)) = IF d + 1 <= n THEN d + 1 ELSE 0
    BY <1>0, <1>2, <2>1, <2>2, EndsInOne
  <2> QED
    BY <1>0, <1>3, <1>4, <2>3 DEF EndsAt
<1>5. CASE Len(e) = 2
  <2>0. d \in 1 .. d /\ 1 \in 1 .. Len(e) /\ 2 \in 1 .. Len(e) /\ e[1] = CR /\ e[2] = LF
    BY <1>0, <1>1, <1>5
  <2>1. u[d] = LF
    BY <1>0, <1>5, <2>0
  <2>2. d > 1 /\ u[d - 1] = CR
    <3>1. InEnd(u, d, e) /\ u[d] \in EOLs
      BY <1>0, <1>1, <2>0, <2>1
    <3> QED
      BY <1>5, <2>1, <3>1 DEF InEnd
  <2>3. d > 2
    <3>1. d - 1 # 1
      BY <1>0, <1>1, <2>2
    <3> QED
      BY <1>0, <2>2, <3>1
  <2>4. t[1] = u[1] /\ t[d - 1] = CR /\ t[d] = LF
    <3>1. 1 \in 1 .. d /\ d - 1 \in 1 .. d
      BY <1>0, <2>3
    <3> QED
      BY <1>2, <2>0, <2>1, <2>2, <3>1
  <2>5. t[d + 1] = CR /\ t[d + 2] = LF /\ d + 2 <= Len(t)
    BY <1>0, <1>2, <1>5, <2>0
  <2>6. ASSUME NEW x \in 1 .. d - 2
        PROVE  /\ t[x] = CR => t[x + 1] = LF
               /\ t[x] = LF => x > 1 /\ t[x - 1] = CR /\ t[x + 1] \notin EOLs
    <3>1. x \in 1 .. d /\ x + 1 \in 1 .. d /\ x < d /\ (x > 1 => x - 1 \in 1 .. d)
      <4>1. d \in Nat \ {0} /\ x \in 1 .. d - 2
        BY <1>0
      <4> HIDE DEF d
      <4> QED
        BY <4>1
    <3>2. InEnd(u, x, e) /\ t[x] = u[x] /\ t[x + 1] = u[x + 1] /\ (x > 1 => t[x - 1] = u[x - 1])
      BY <1>0, <1>2, <3>1
    <3> QED
      BY <1>1, <1>5, <3>1, <3>2 DEF InEnd, d
  <2>7. RequestLen(SubSeq(t, 1, n)) = IF d + 2 <= n THEN d + 2 ELSE IF n = d + 1 THEN d + 1 ELSE 0
    BY <1>0, <1>2, <2>3, <2>4, <2>5, <2>6, EndsInTwo
  <2>8. m = d + 2
    BY <1>3, <1>5
  <2>9. n < m /\ RequestLen(SubSeq(t, 1, n)) # 0 => n = d + 1
    BY <1>0, <2>7, <2>8
  <2>10. n = d + 1 => n = m - 1 /\ n > 3 /\ n - 2 = d - 1 /\ n - 1 = d /\ n + 1 = d + 2
    BY <1>0, <2>3, <2>8
  <2>11. m <= n => RequestLen(SubSeq(t, 1, n)) = m
    BY <2>7, <2>8
  <2>12. m \in Nat
    BY <1>0, <2>8
  <2> QED
    BY <2>4, <2>5, <2>9, <2>10, <2>11, <2>12 DEF EndsAt, CutAt
<1> QED
  BY <1>1, <1>4, <1>5

-----------------------------------------------------------------------------
(* What a client sends, and where its requests begin                       *)

LEMMA PrefixPieces ==
  ASSUME NEW S, NEW n \in Nat \ {0}, NEW s \in [1 .. n -> Seq(S)],
         NEW g, Pieces(g, s, n), NEW k \in 1 .. n
  PROVE  FlattenSeq([i \in 1 .. k |-> s[i]]) = g[k]
<1> DEFINE r == [i \in 1 .. k |-> s[i]]
<1>1. r \in [1 .. k -> Seq(S)] /\ k \in Nat \ {0} /\ \A i \in 1 .. k : r[i] = s[i] /\ i \in 1 .. n
  OBVIOUS
<1> HIDE DEF r
<1>2. PICK h \in [1 .. k -> Seq(S)] : Pieces(h, r, k)
  BY <1>1, FlattenByPieces
<1> DEFINE T == {i \in 1 .. k : h[i] = g[i]}
<1>3. 1 <= k => 1 \in T
  <2>1. 1 \in 1 .. k /\ h[1] = r[1] /\ g[1] = s[1]
    BY <1>2 DEF Pieces
  <2> QED
    BY <1>1, <2>1
<1>4. \A i \in 1 .. k : i \in T /\ i < k => i + 1 \in T
  <2> SUFFICES ASSUME NEW i \in 1 .. k, i \in T, i < k PROVE i + 1 \in T
    OBVIOUS
  <2>1. i + 1 \in 2 .. k /\ i + 1 \in 2 .. n /\ i + 1 \in 1 .. k /\ (i + 1) - 1 = i
    OBVIOUS
  <2>2. h[i + 1] = h[(i + 1) - 1] \o r[i + 1] /\ g[i + 1] = g[(i + 1) - 1] \o s[i + 1]
    BY <1>2, <2>1 DEF Pieces
  <2>3. r[i + 1] = s[i + 1] /\ h[i] = g[i]
    BY <1>1, <2>1
  <2>4. h[i + 1] = g[i + 1]
    BY <2>1, <2>2, <2>3
  <2> QED
    BY <2>1, <2>4
<1>5. k \in T
  <2>1. 1 \in Int /\ k \in Int /\ k \in 1 .. k
    OBVIOUS
  <2> HIDE DEF T
  <2>2. 1 .. k \subseteq T
    BY <1>3, <1>4, <2>1, IntervalInduction, Zenon
  <2> QED
    BY <2>1, <2>2
<1>6. FlattenSeq(r) = h[k]
  BY <1>2 DEF Pieces
<1> QED
  BY <1>5, <1>6 DEF r

(* How much the first k requests are, and that they lie end to end.        *)
Sent(st) == FlattenSeq([i \in DOMAIN st |-> Rendered(st[i])])
Size(st, k) == IF k = 0 THEN 0 ELSE Len(FlattenSeq([i \in 1 .. k |-> Rendered(st[i])]))

(* A request is not empty and does not begin with an end of line.          *)
LEMMA RenderedType ==
  ASSUME RequestAssumption, NEW r \in Requests
  PROVE  Rendered(r) \in Seq(Char) /\ Len(Rendered(r)) \in Nat \ {0} /\ Rendered(r)[1] \notin EOLs
<1>1. PICK u : Block(u, r.eol) /\ Rendered(r) = u \o r.eol /\ r.eol \in EolForms
  BY RenderedIs
<1>2. u \in Seq(Char) /\ r.eol \in Seq(Char) /\ Len(u) \in Nat \ {0} /\ u[1] \notin EOLs
  BY <1>1, FormsAre DEF Block
<1>3. /\ u \o r.eol \in Seq(Char) /\ Len(u \o r.eol) = Len(u) + Len(r.eol) /\ Len(r.eol) \in Nat
      /\ \A x \in 1 .. Len(u) : (u \o r.eol)[x] = u[x]
  BY <1>2, JoinIs
<1>4. 1 \in 1 .. Len(u)
  BY <1>2
<1> QED
  BY <1>1, <1>2, <1>3, <1>4

(* The requests lie end to end in what the client sends.                   *)
LEMMA SizesAre ==
  ASSUME RequestAssumption, NEW N \in Nat \ {0}, NEW st \in [1 .. N -> Requests]
  PROVE  /\ Sent(st) \in Seq(Char) /\ Size(st, N) = Len(Sent(st))
         /\ \A k \in 0 .. N : Size(st, k) \in 0 .. Len(Sent(st))
         /\ \A k \in 0 .. N - 1 :
              /\ Size(st, k + 1) = Size(st, k) + Len(Rendered(st[k + 1]))
              /\ \A x \in 1 .. Len(Rendered(st[k + 1])) :
                   Sent(st)[Size(st, k) + x] = Rendered(st[k + 1])[x]
<1> DEFINE s == [i \in 1 .. N |-> Rendered(st[i])]
<1>1. s \in [1 .. N -> Seq(Char)] /\ \A i \in 1 .. N : s[i] = Rendered(st[i])
  BY RenderedType
<1>2. Sent(st) = FlattenSeq(s)
  BY DEF Sent
<1>3. \A k \in 1 .. N : Size(st, k) = Len(FlattenSeq([i \in 1 .. k |-> s[i]]))
  <2> SUFFICES ASSUME NEW k \in 1 .. N PROVE Size(st, k) = Len(FlattenSeq([i \in 1 .. k |-> s[i]]))
    OBVIOUS
  <2>1. [i \in 1 .. k |-> s[i]] = [i \in 1 .. k |-> Rendered(st[i])]
    BY <1>1
  <2>2. k # 0
    OBVIOUS
  <2> HIDE DEF s
  <2> QED
    BY <2>1, <2>2 DEF Size
<1> HIDE DEF s
<1>4. PICK g \in [1 .. N -> Seq(Char)] : Pieces(g, s, N)
  BY <1>1, FlattenByPieces
<1>5. ASSUME NEW k \in 1 .. N PROVE Size(st, k) = Len(g[k]) /\ g[k] \in Seq(Char)
  <2>1. FlattenSeq([i \in 1 .. k |-> s[i]]) = g[k]
    <3>1. s \in [1 .. N -> Seq(Char)] /\ Pieces(g, s, N)
      BY <1>1, <1>4
    <3>2. \A i \in 1 .. N : FlattenSeq([j \in 1 .. i |-> s[j]]) = g[i]
      BY <3>1, PrefixPieces
    <3> QED
      BY <3>2
  <2> QED
    BY <1>3, <2>1
<1>6. Sent(st) = g[N] /\ Sent(st) \in Seq(Char) /\ Size(st, N) = Len(Sent(st)) /\ Size(st, 0) = 0
  <2>1. N \in 1 .. N
    OBVIOUS
  <2> QED
    BY <1>2, <1>4, <1>5, <2>1 DEF Pieces, Size
<1>7. ASSUME NEW k \in 0 .. N - 1
      PROVE  /\ Size(st, k + 1) = Size(st, k) + Len(Rendered(st[k + 1]))
             /\ \A x \in 1 .. Size(st, k) : k # 0 /\ g[k + 1][x] = g[k][x]
             /\ \A x \in 1 .. Len(Rendered(st[k + 1])) :
                  g[k + 1][Size(st, k) + x] = Rendered(st[k + 1])[x]
  <2>1. k + 1 \in 1 .. N /\ s[k + 1] = Rendered(st[k + 1]) /\ s[k + 1] \in Seq(Char)
    BY <1>1
  <2>2. CASE k = 0
    <3>1. g[k + 1] = Rendered(st[k + 1]) /\ Size(st, k + 1) = Len(g[k + 1]) /\ Size(st, k) = 0
      BY <1>4, <1>5, <1>6, <2>1, <2>2 DEF Pieces
    <3> HIDE DEF Size
    <3>2. Len(Rendered(st[k + 1])) \in Nat
      BY <2>1
    <3> QED
      BY <3>1, <3>2
  <2>3. CASE k # 0
    <3>1. k \in 1 .. N /\ k + 1 \in 2 .. N /\ (k + 1) - 1 = k
      BY <2>3
    <3>2. g[k + 1] = g[k] \o s[k + 1] /\ g[k] \in Seq(Char)
      BY <1>4, <3>1 DEF Pieces
    <3>3. /\ Len(g[k] \o s[k + 1]) = Len(g[k]) + Len(s[k + 1])
          /\ \A x \in 1 .. Len(g[k]) : (g[k] \o s[k + 1])[x] = g[k][x]
          /\ \A x \in 1 .. Len(s[k + 1]) : (g[k] \o s[k + 1])[Len(g[k]) + x] = s[k + 1][x]
      BY <2>1, <3>2, JoinIs
    <3>4. Size(st, k) = Len(g[k]) /\ Size(st, k + 1) = Len(g[k + 1])
      BY <1>5, <2>1, <3>1
    <3> QED
      BY <2>1, <2>3, <3>2, <3>3, <3>4
  <2> QED
    BY <2>2, <2>3
<1>8. \A k \in 0 .. N : Size(st, k) \in Nat
  <2> SUFFICES ASSUME NEW k \in 0 .. N PROVE Size(st, k) \in Nat
    OBVIOUS
  <2>1. k = 0 \/ k \in 1 .. N
    OBVIOUS
  <2> QED
    BY <1>5, <1>6, <2>1
<1> DEFINE T == {k \in 1 .. N : Size(st, k) <= Size(st, N)
                                 /\ \A x \in 1 .. Size(st, k) : Sent(st)[x] = g[k][x]}
<1>9. ASSUME NEW k \in 1 .. N, \A i \in k + 1 .. N : i \in T PROVE k \in T
  <2>1. CASE k = N
    BY <1>6, <1>8, <2>1
  <2>2. CASE k # N
    <3>1. k \in 0 .. N - 1 /\ k + 1 \in k + 1 .. N /\ k \in 0 .. N /\ k + 1 \in 1 .. N
      BY <2>2
    <3>2. Len(Rendered(st[k + 1])) \in Nat
      BY <3>1, RenderedType
    <3>3. /\ Size(st, k + 1) = Size(st, k) + Len(Rendered(st[k + 1]))
          /\ \A x \in 1 .. Size(st, k) : g[k + 1][x] = g[k][x]
      BY <1>7, <3>1
    <3>4. /\ Size(st, k + 1) <= Size(st, N)
          /\ \A x \in 1 .. Size(st, k + 1) : Sent(st)[x] = g[k + 1][x]
      BY <1>9, <3>1
    <3>5. Size(st, k) \in Nat /\ Size(st, N) \in Nat
      BY <1>8, <3>1
    <3>6. \A x \in 1 .. Size(st, k) : Sent(st)[x] = g[k][x]
      <4>1. \A x \in 1 .. Size(st, k) : x \in 1 .. Size(st, k + 1)
        BY <3>2, <3>3, <3>5
      <4> QED
        BY <3>3, <3>4, <4>1
    <3> QED
      BY <3>2, <3>3, <3>4, <3>5, <3>6
  <2> QED
    BY <2>1, <2>2
<1>10. \A k \in 1 .. N : k \in T
  <2> HIDE DEF T
  <2> QED
    BY <1>9, Backwards
<1>11. \A k \in 0 .. N : Size(st, k) \in 0 .. Len(Sent(st))
  <2> SUFFICES ASSUME NEW k \in 0 .. N PROVE Size(st, k) \in 0 .. Len(Sent(st))
    OBVIOUS
  <2>1. k = 0 \/ k \in 1 .. N
    OBVIOUS
  <2>2. Size(st, k) \in Nat /\ Size(st, N) \in Nat /\ N \in 0 .. N
    BY <1>8
  <2>3. Size(st, k) <= Size(st, N)
    BY <1>6, <1>10, <2>1, <2>2
  <2> QED
    BY <1>6, <2>2, <2>3
<1>12. ASSUME NEW k \in 0 .. N - 1, NEW x \in 1 .. Len(Rendered(st[k + 1]))
       PROVE  Sent(st)[Size(st, k) + x] = Rendered(st[k + 1])[x]
  <2>1. k + 1 \in 1 .. N /\ k \in 0 .. N
    OBVIOUS
  <2>2. Size(st, k) \in Nat /\ Len(Rendered(st[k + 1])) \in Nat
    BY <1>8, <2>1, RenderedType
  <2>3. /\ Size(st, k + 1) = Size(st, k) + Len(Rendered(st[k + 1]))
        /\ g[k + 1][Size(st, k) + x] = Rendered(st[k + 1])[x]
    BY <1>7
  <2>4. Size(st, k) + x \in 1 .. Size(st, k + 1)
    BY <2>2, <2>3
  <2> QED
    BY <1>10, <2>1, <2>3, <2>4
<1> QED
  BY <1>6, <1>7, <1>11, <1>12

(* What is left of the stream where a request begins.                      *)
LEMMA MiddleIs ==
  ASSUME NEW S, NEW T \in Seq(S), NEW a \in Nat, NEW n \in Nat, a + n <= Len(T)
  PROVE  /\ SubSeq(T, a + 1, a + n) \in Seq(S) /\ Len(SubSeq(T, a + 1, a + n)) = n
         /\ \A x \in 1 .. n : SubSeq(T, a + 1, a + n)[x] = T[a + x] /\ T[a + x] \in S
<1>1. Len(T) \in Nat
  OBVIOUS
<1>2. \A x \in 1 .. n : a + x \in 1 .. Len(T) /\ a + x \in 1 .. a + n
  BY <1>1
<1> DEFINE s == SubSeq(T, a + 1, a + n)
<1>3. s = [x \in 1 .. n |-> T[a + x]]
  <2>1. (a + n) - (a + 1) + 1 = n /\ \A x \in 1 .. n : x + (a + 1) - 1 = a + x
    OBVIOUS
  <2> QED
    BY <1>1, <2>1
<1>4. \A x \in 1 .. n : T[a + x] \in S
  BY <1>2
<1> HIDE DEF s
<1>5. s \in [1 .. n -> S]
  BY <1>3, <1>4
<1>6. s \in Seq(S) /\ Len(s) = n
  BY <1>5
<1> QED
  BY <1>3, <1>4, <1>6 DEF s

MiddleAt(s, T, a, n) == s \in Seq(Char) /\ Len(s) = n /\ \A x \in 1 .. n : s[x] = T[a + x]

LEMMA MiddleHas ==
  ASSUME NEW T \in Seq(Char), NEW a \in Nat, NEW n \in Nat, a + n <= Len(T)
  PROVE  MiddleAt(SubSeq(T, a + 1, a + n), T, a, n)
  BY MiddleIs DEF MiddleAt

LEMMA PrefixIs ==
  ASSUME NEW S, NEW T \in Seq(S), NEW n \in Nat, n <= Len(T)
  PROVE  /\ SubSeq(T, 1, n) \in Seq(S) /\ Len(SubSeq(T, 1, n)) = n
         /\ \A x \in 1 .. n : SubSeq(T, 1, n)[x] = T[x]
<1>1. 0 \in Nat /\ 0 + 1 = 1 /\ 0 + n = n /\ \A x \in 1 .. n : 0 + x = x
  OBVIOUS
<1>2. /\ SubSeq(T, 0 + 1, 0 + n) \in Seq(S) /\ Len(SubSeq(T, 0 + 1, 0 + n)) = n
      /\ \A x \in 1 .. n : SubSeq(T, 0 + 1, 0 + n)[x] = T[0 + x]
  BY <1>1, MiddleIs
<1> QED
  BY <1>1, <1>2

LEMMA SameSeq ==
  ASSUME NEW S, NEW s \in Seq(S), NEW t \in Seq(S), Len(s) = Len(t),
         \A x \in 1 .. Len(s) : s[x] = t[x]
  PROVE  s = t
  OBVIOUS

(* A suffix of three characters.                                           *)
LEMMA EndsWith ==
  ASSUME NEW S, NEW s \in Seq(S), NEW n \in Nat, n = Len(s), n > 3,
         NEW x \in S, NEW y \in S, s[n - 2] = x, s[n - 1] = y, s[n] = x
  PROVE  IsSuffix(<<x, y, x>>, s)
<1> DEFINE c == <<x, y, x>>
<1>1. c \in Seq(S) /\ Len(c) = 3 /\ c[1] = x /\ c[2] = y /\ c[3] = x
  OBVIOUS
<1> HIDE DEF c
<1>2. /\ Reverse(c) = [i \in 1 .. 3 |-> c[(3 - i) + 1]]
      /\ Reverse(s) = [i \in 1 .. n |-> s[(n - i) + 1]]
  BY <1>1 DEF Reverse
<1>3. Reverse(c) \in [1 .. 3 -> S] /\ Reverse(s) \in [1 .. n -> S]
  <2>1. \A i \in 1 .. 3 : (3 - i) + 1 \in 1 .. 3
    OBVIOUS
  <2>2. \A i \in 1 .. n : (n - i) + 1 \in 1 .. n
    OBVIOUS
  <2>3. (\A i \in 1 .. 3 : c[i] \in S) /\ (\A i \in 1 .. n : s[i] \in S)
    BY <1>1
  <2> QED
    BY <1>2, <2>1, <2>2, <2>3
<1>4. Reverse(c)[1] = x /\ Reverse(c)[2] = y /\ Reverse(c)[3] = x
  <2>1. (3 - 1) + 1 = 3 /\ (3 - 2) + 1 = 2 /\ (3 - 3) + 1 = 1
    OBVIOUS
  <2> QED
    BY <1>1, <1>2, <2>1
<1>5. Reverse(s)[1] = x /\ Reverse(s)[2] = y /\ Reverse(s)[3] = x
  <2>1. /\ (n - 1) + 1 = n /\ (n - 2) + 1 = n - 1 /\ (n - 3) + 1 = n - 2
        /\ 1 \in 1 .. n /\ 2 \in 1 .. n /\ 3 \in 1 .. n
    OBVIOUS
  <2> QED
    BY <1>2, <2>1
<1> DEFINE a == Reverse(c)  b == Reverse(s)
<1> HIDE DEF a, b
<1>6. a \in Seq(S) /\ b \in Seq(S) /\ Len(a) = 3 /\ Len(b) = n
  <2>1. a \in [1 .. 3 -> S] /\ b \in [1 .. n -> S] /\ 3 \in Nat /\ n \in Nat
    BY <1>3 DEF a, b
  <2>2. \A k \in Nat : \A f \in [1 .. k -> S] : f \in Seq(S) /\ Len(f) = k
    OBVIOUS
  <2> QED
    BY <2>1, <2>2
<1>7. SubSeq(a, 1, 3) = SubSeq(b, 1, 3)
  <2>1. /\ SubSeq(a, 1, 3) \in Seq(S) /\ Len(SubSeq(a, 1, 3)) = 3
        /\ SubSeq(b, 1, 3) \in Seq(S) /\ Len(SubSeq(b, 1, 3)) = 3
        /\ \A i \in 1 .. 3 : SubSeq(a, 1, 3)[i] = a[i] /\ SubSeq(b, 1, 3)[i] = b[i]
    <3>1. 3 \in Nat /\ 3 <= n
      OBVIOUS
    <3>2. 3 <= Len(a) /\ 3 <= Len(b)
      BY <1>6
    <3> QED
      BY <1>6, <3>1, <3>2, PrefixIs, Zenon
  <2>2. \A i \in 1 .. 3 : i = 1 \/ i = 2 \/ i = 3
    OBVIOUS
  <2>3. \A i \in 1 .. 3 : a[i] = b[i]
    BY <1>4, <1>5, <2>2 DEF a, b
  <2> QED
    BY <2>1, <2>3, SameSeq
<1>8. IsPrefix(a, b)
  BY <1>6, <1>7 DEF IsPrefix
<1> QED
  BY <1>8 DEF IsSuffix, a, b, c

RestAt(T, a, n, m, s) ==
  /\ m <= n => RequestLen(s) = m
  /\ n < m /\ RequestLen(s) # 0 => IsSuffix(<<CR, LF, CR>>, s) /\ T[a + n + 1] = LF

Lies(T, a, m, v) == \A x \in 1 .. m : T[a + x] = v[x]
NoEOLAt(T, i) == i <= Len(T) => T[i] \notin EOLs

(* RequestLen of what has arrived of a request and of what follows it.     *)
LEMMA RestEnds ==
  ASSUME NEW T \in Seq(Char), NEW L \in Nat, L = Len(T), NEW a \in Nat, NEW e \in EolForms,
         NEW u, Block(u, e), NEW m \in Nat, m = Len(u) + Len(e), a + m <= L,
         Lies(T, a, m, u \o e), NoEOLAt(T, a + m + 1),
         NEW n \in Nat \ {0}, a + n <= L, NEW s, s = SubSeq(T, a + 1, a + n)
  PROVE  RestAt(T, a, n, m, s)
<1> DEFINE l == L - a  k == L - (a + m)
           t == SubSeq(T, a + 1, a + l)  w == SubSeq(T, (a + m) + 1, (a + m) + k)
           v == u \o e
<1>1. l \in Nat /\ k \in Nat /\ a + l = L /\ (a + m) + k = L /\ l = m + k /\ n <= l /\ a + m \in Nat
  OBVIOUS
<1> HIDE DEF l, k
<1>2. t \in Seq(Char) /\ Len(t) = l /\ \A x \in 1 .. l : t[x] = T[a + x]
  <2>1. l \in Nat /\ a + l <= Len(T)
    BY <1>1
  <2>2. MiddleAt(t, T, a, l)
    BY <2>1, MiddleHas, Zenon
  <2> QED
    BY <2>2 DEF MiddleAt
<1>3. w \in Seq(Char) /\ Len(w) = k /\ \A x \in 1 .. k : w[x] = T[(a + m) + x]
  <2>1. k \in Nat /\ a + m \in Nat /\ (a + m) + k <= Len(T)
    BY <1>1
  <2>2. MiddleAt(w, T, a + m, k)
    BY <2>1, MiddleHas, Zenon
  <2> QED
    BY <2>2 DEF MiddleAt
<1>4. s \in Seq(Char) /\ Len(s) = n /\ \A x \in 1 .. n : s[x] = T[a + x]
  <2>1. n \in Nat /\ a + n <= Len(T)
    OBVIOUS
  <2>2. MiddleAt(s, T, a, n)
    BY <2>1, MiddleHas, Zenon
  <2> QED
    BY <2>2 DEF MiddleAt
<1>5. v \in Seq(Char) /\ Len(v) = m
  BY FormsAre, JoinIs DEF Block
<1> HIDE DEF t, w, v
<1>6. t = v \o w
  <2>1. /\ v \o w \in Seq(Char) /\ Len(v \o w) = m + k
        /\ \A x \in 1 .. m : (v \o w)[x] = v[x]
        /\ \A x \in m + 1 .. m + k : (v \o w)[x] = w[x - m]
    <3>1. /\ v \o w \in Seq(Char) /\ Len(v \o w) = Len(v) + Len(w)
          /\ \A x \in 1 .. Len(v) : (v \o w)[x] = v[x]
          /\ \A x \in Len(v) + 1 .. Len(v) + Len(w) : (v \o w)[x] = w[x - Len(v)]
      BY <1>3, <1>5, JoinIs
    <3> QED
      BY <1>3, <1>5, <3>1, Zenon
  <2>2. ASSUME NEW x \in 1 .. l PROVE t[x] = (v \o w)[x]
    <3>1. CASE x <= m
      <4>1. x \in 1 .. m
        BY <1>1, <3>1
      <4> QED
        BY <1>2, <2>1, <4>1 DEF v, Lies
    <3>2. CASE ~(x <= m)
      <4>1. x - m \in 1 .. k /\ (a + m) + (x - m) = a + x /\ x \in m + 1 .. m + k
        BY <1>1, <3>2
      <4>2. (v \o w)[x] = w[x - m] /\ w[x - m] = T[a + x]
        BY <1>3, <2>1, <4>1
      <4> QED
        BY <1>2, <4>2
    <3> QED
      BY <3>1, <3>2
  <2> QED
    BY <1>1, <1>2, <2>1, <2>2, SameSeq
<1>7. s = SubSeq(t, 1, n)
  <2>2. n \in Nat /\ n <= Len(t) /\ \A x \in 1 .. n : x \in 1 .. l
    BY <1>1, <1>2
  <2>3. /\ SubSeq(t, 1, n) \in Seq(Char) /\ Len(SubSeq(t, 1, n)) = n
        /\ \A x \in 1 .. n : SubSeq(t, 1, n)[x] = t[x]
    BY <1>2, <2>2, PrefixIs
  <2>4. \A x \in 1 .. n : s[x] = SubSeq(t, 1, n)[x]
    BY <1>2, <1>4, <2>2, <2>3
  <2> QED
    BY <1>4, <2>3, <2>4, SameSeq
<1>8. w # <<>> => w[1] \notin EOLs
  <2> SUFFICES ASSUME w # <<>> PROVE w[1] \notin EOLs
    OBVIOUS
  <2>1. k # 0
    BY <1>3
  <2>2. 1 \in 1 .. k /\ a + m + 1 <= Len(T)
    BY <1>1, <2>1
  <2> QED
    BY <1>3, <2>2 DEF NoEOLAt
<1>9. EndsAt(t, n, m, RequestLen(s))
  <2>1. n \in 1 .. Len(t)
    BY <1>1, <1>2
  <2>2. t = u \o e \o w
    BY <1>6 DEF v
  <2>3. EndsAt(t, n, m, RequestLen(SubSeq(t, 1, n)))
    BY <1>3, <1>8, <2>1, <2>2, FirstEnds
  <2> QED
    BY <1>7, <2>3
<1>10. ASSUME n = m - 1, CutAt(t, n)
       PROVE  IsSuffix(<<CR, LF, CR>>, s) /\ T[a + n + 1] = LF
  <2>0. n \in Nat /\ m \in Nat /\ a \in Nat /\ n = m - 1 /\ n > 3 /\ k \in Nat /\ l = m + k
    BY <1>1, <1>10 DEF CutAt
  <2>1. /\ n + 1 \in 1 .. l /\ a + (n + 1) = a + n + 1
        /\ n - 2 \in 1 .. n /\ n - 1 \in 1 .. n /\ n \in 1 .. n
    BY <2>0
  <2>2. T[a + n + 1] = LF
    BY <1>2, <1>10, <2>1 DEF CutAt
  <2>3. \A x \in 1 .. n : x \in 1 .. l
    BY <1>1
  <2>4. s[n - 2] = t[n - 2] /\ s[n - 1] = t[n - 1] /\ s[n] = t[n]
    BY <1>2, <1>4, <2>1, <2>3
  <2>5. CR \in Char /\ LF \in Char
    BY DEF Char
  <2>6. IsSuffix(<<CR, LF, CR>>, s)
    <3>1. n \in Nat /\ n = Len(s) /\ n > 3 /\ s[n - 2] = CR /\ s[n - 1] = LF /\ s[n] = CR
      BY <1>4, <1>10, <2>0, <2>4 DEF CutAt
    <3> QED
      BY <1>4, <2>5, <3>1, EndsWith
  <2> QED
    BY <2>2, <2>6
<1> QED
  BY <1>9, <1>10 DEF EndsAt, RestAt

-----------------------------------------------------------------------------
(* Reads                                                                   *)

(* What is behind the first i characters and not behind the first j.       *)
Part(T, i, j) == SubSeq(T, i + 1, j)
Adds(i, n, j) == j = i + n
Splits(p, n, front, rest) == SubSeq(p, 1, n) = front /\ SubSeq(p, n + 1, Len(p)) = rest

(* Request k + 1 lies between a and b; n characters are there of it.       *)
Between(st, k, a, b) == a = Size(st, k) /\ b = Size(st, k + 1)
Found(T, a, b, n, d) == \E m \in Nat : a \in Nat /\ b = a + m /\ RestAt(T, a, n, m, Part(T, a, d))

(* ... for the requests of the stream.                                     *)
LEMMA RestIs ==
  ASSUME RequestAssumption, NEW N \in Nat \ {0}, NEW st \in [1 .. N -> Requests],
         NEW k \in 0 .. N - 1, NEW a, NEW b, Between(st, k, a, b),
         NEW n \in Nat \ {0}, NEW d, Adds(a, n, d), d <= Len(Sent(st))
  PROVE  Found(Sent(st), a, b, n, d)
<1> USE DEF Between, Adds
<1> DEFINE r == st[k + 1]  m == Len(Rendered(r))  T == Sent(st)  L == Len(T)  s == Part(T, a, d)
<1>0. r \in Requests /\ k \in 0 .. N /\ k + 1 \in 0 .. N
  OBVIOUS
<1>1. T \in Seq(Char) /\ a \in 0 .. L /\ b \in 0 .. L
  BY <1>0, SizesAre
<1>2. b = a + m /\ \A x \in 1 .. m : T[a + x] = Rendered(r)[x]
  BY SizesAre
<1>3. PICK u : Block(u, r.eol) /\ Rendered(r) = u \o r.eol /\ r.eol \in EolForms
  BY <1>0, RenderedIs
<1>4. L \in Nat /\ a \in Nat /\ b \in Nat /\ m \in Nat
  BY <1>0, <1>1, RenderedType
<1>5. m = Len(u) + Len(r.eol)
  BY <1>3, FormsAre, JoinIs DEF Block
<1>6. b < L => T[b + 1] \notin EOLs
  <2> SUFFICES ASSUME b < L PROVE T[b + 1] \notin EOLs
    OBVIOUS
  <2>1. k + 1 # N
    <3>1. Size(st, N) = L
      BY SizesAre
    <3>2. k + 1 = N => b = L
      BY <3>1
    <3>3. b # L
      BY <1>4
    <3> QED
      BY <3>2, <3>3
  <2>2. k + 1 \in 0 .. N - 1 /\ (k + 1) + 1 \in 1 .. N
    BY <2>1
  <2>3. Rendered(st[(k + 1) + 1])[1] \notin EOLs /\ 1 \in 1 .. Len(Rendered(st[(k + 1) + 1]))
    BY <2>2, RenderedType
  <2>4. \A x \in 1 .. Len(Rendered(st[(k + 1) + 1])) : T[b + x] = Rendered(st[(k + 1) + 1])[x]
    BY <2>2, SizesAre
  <2> QED
    BY <2>3, <2>4
<1> HIDE DEF m, L, T
<1>7. a + m <= L /\ a + n <= L
  BY <1>1, <1>2, <1>4 DEF L, T
<1>8. \A x \in 1 .. m : T[a + x] = (u \o r.eol)[x]
  BY <1>2, <1>3
<1>9. NoEOLAt(T, a + m + 1)
  BY ONLY <1>2, <1>4, <1>6 DEF NoEOLAt, L
<1> DEFINE e == r.eol
<1>10. e \in EolForms /\ Block(u, e)
  BY <1>3
<1>11. m = Len(u) + Len(e) /\ Lies(T, a, m, u \o e)
  BY <1>5, <1>8 DEF Lies
<1> HIDE DEF e, r
<1>12. RestAt(T, a, n, m, s)
  <2>1. L = Len(T) /\ s = SubSeq(T, a + 1, a + n)
    BY DEF L, Part
  <2> HIDE DEF s
  <2> QED
    BY <1>1, <1>4, <1>7, <1>9, <1>10, <1>11, <2>1, RestEnds
<1> QED
  BY <1>2, <1>4, <1>12 DEF Found, T


(* Parts: their characters, two that meet, a part of one, a suffix.        *)
LEMMA PartIs ==
  ASSUME NEW S, NEW T \in Seq(S), NEW i \in Nat, NEW j \in Nat, i <= j, j <= Len(T)
  PROVE  /\ Part(T, i, j) \in Seq(S) /\ Len(Part(T, i, j)) = j - i
         /\ \A x \in 1 .. j - i : Part(T, i, j)[x] = T[i + x]
<1>1. j - i \in Nat /\ i + (j - i) = j
  OBVIOUS
<1>2. /\ SubSeq(T, i + 1, i + (j - i)) \in Seq(S) /\ Len(SubSeq(T, i + 1, i + (j - i))) = j - i
      /\ \A x \in 1 .. j - i : SubSeq(T, i + 1, i + (j - i))[x] = T[i + x]
  BY <1>1, MiddleIs
<1> QED
  BY <1>1, <1>2 DEF Part

LEMMA PartJoin ==
  ASSUME NEW S, NEW T \in Seq(S), NEW i \in Nat, NEW j \in Nat, NEW k \in Nat,
         i <= j, j <= k, k <= Len(T)
  PROVE  Part(T, i, j) \o Part(T, j, k) = Part(T, i, k)
<1>1. i + 1 \in 1 .. Len(T) + 1 /\ j \in (i + 1) - 1 .. Len(T) /\ k \in j .. Len(T)
  OBVIOUS
<1> QED
  BY <1>1, ConcatAdjacentSubSeq DEF Part

LEMMA PartOfPart ==
  ASSUME NEW S, NEW T \in Seq(S), NEW i \in Nat, NEW j \in Nat, i <= j, j <= Len(T),
         NEW n \in Nat, NEW k, Adds(i, n, k), k <= j
  PROVE  Splits(Part(T, i, j), n, Part(T, i, k), Part(T, k, j))
<1> DEFINE p == Part(T, i, j)
<1>0. k = i + n
  BY DEF Adds
<1>1. p \in Seq(S) /\ Len(p) = j - i /\ \A x \in 1 .. j - i : p[x] = T[i + x]
  BY PartIs
<1> HIDE DEF p
<1>2. n <= Len(p) /\ n \in Nat /\ j - i \in Nat /\ i + n \in Nat /\ i <= i + n /\ i + n <= Len(T)
  BY <1>0, <1>1
<1>3. SubSeq(p, 1, n) = Part(T, i, i + n)
  <2>1. /\ SubSeq(p, 1, n) \in Seq(S) /\ Len(SubSeq(p, 1, n)) = n
        /\ \A x \in 1 .. n : SubSeq(p, 1, n)[x] = p[x]
    BY <1>1, <1>2, PrefixIs
  <2>2. /\ Part(T, i, i + n) \in Seq(S) /\ Len(Part(T, i, i + n)) = (i + n) - i
        /\ \A x \in 1 .. (i + n) - i : Part(T, i, i + n)[x] = T[i + x]
    BY <1>2, PartIs
  <2>3. (i + n) - i = n /\ \A x \in 1 .. n : x \in 1 .. j - i
    BY <1>0
  <2>4. \A x \in 1 .. n : SubSeq(p, 1, n)[x] = Part(T, i, i + n)[x]
    BY <1>1, <2>1, <2>2, <2>3
  <2> QED
    BY <2>1, <2>2, <2>3, <2>4, SameSeq
<1>4. SubSeq(p, n + 1, Len(p)) = Part(T, i + n, j)
  <2> DEFINE q == Part(p, n, j - i)  r == Part(T, i + n, j)
  <2>1. n \in Nat /\ j - i \in Nat /\ n <= j - i /\ j - i <= Len(p) /\ p \in Seq(S)
    BY <1>0, <1>1, <1>2
  <2>2. q \in Seq(S) /\ Len(q) = (j - i) - n /\ \A x \in 1 .. (j - i) - n : q[x] = p[n + x]
    BY <2>1, PartIs, Zenon
  <2>3. r \in Seq(S) /\ Len(r) = j - (i + n) /\ \A x \in 1 .. j - (i + n) : r[x] = T[(i + n) + x]
    <3>1. i + n \in Nat /\ i + n <= j
      BY <1>0, <1>2
    <3> QED
      BY <3>1, PartIs, Zenon
  <2> HIDE DEF q, r
  <2>4. ASSUME NEW x \in 1 .. (j - i) - n PROVE q[x] = r[x]
    <3>1. n + x \in 1 .. j - i /\ i + (n + x) = (i + n) + x /\ x \in 1 .. j - (i + n)
      BY <1>0
    <3> QED
      BY <1>1, <2>2, <2>3, <3>1
  <2>5. (j - i) - n = j - (i + n)
    OBVIOUS
  <2>6. q = r
    BY <2>2, <2>3, <2>4, <2>5, SameSeq
  <2> QED
    BY <1>1, <2>6 DEF q, r, Part
<1> QED
  BY <1>0, <1>3, <1>4, Zenon DEF p, Splits

LEMMA PartIsSuffix ==
  ASSUME NEW S, NEW T \in Seq(S), NEW i \in Nat, i <= Len(T)
  PROVE  IsSuffix(Part(T, i, Len(T)), T)
<1> DEFINE p == Part(T, i, Len(T))  L == Len(T)
<1>0. L \in Nat /\ i <= L /\ L <= Len(T)
  OBVIOUS
<1>1. p \in Seq(S) /\ Len(p) = L - i /\ \A x \in 1 .. L - i : p[x] = T[i + x]
  BY <1>0, PartIs, Zenon
<1> HIDE DEF p, L
<1>2. L - i \in Nat /\ L - i <= L
  BY <1>0 DEF L
<1>3. /\ Reverse(p) = [x \in 1 .. L - i |-> p[((L - i) - x) + 1]]
      /\ Reverse(T) = [x \in 1 .. L |-> T[(L - x) + 1]]
  BY <1>1 DEF Reverse, L
<1> DEFINE a == Reverse(p)  b == Reverse(T)
<1>4. a \in [1 .. L - i -> S] /\ b \in [1 .. L -> S]
  <2>1. \A x \in 1 .. L - i : ((L - i) - x) + 1 \in 1 .. L - i
    BY <1>0, <1>2
  <2>2. \A x \in 1 .. L : (L - x) + 1 \in 1 .. L
    BY <1>0
  <2>3. (\A x \in 1 .. L - i : p[x] \in S) /\ (\A x \in 1 .. L : T[x] \in S)
    BY <1>0, <1>1, <1>2 DEF L
  <2> QED
    BY <1>3, <2>1, <2>2, <2>3
<1>5. \A x \in 1 .. L - i : a[x] = b[x]
  <2> SUFFICES ASSUME NEW x \in 1 .. L - i PROVE a[x] = b[x]
    OBVIOUS
  <2>1. /\ x \in 1 .. L /\ ((L - i) - x) + 1 \in 1 .. L - i
        /\ i + (((L - i) - x) + 1) = (L - x) + 1
    BY <1>0, <1>2
  <2> QED
    BY <1>1, <1>3, <2>1
<1> HIDE DEF a, b
<1>6. a \in Seq(S) /\ b \in Seq(S) /\ Len(a) = L - i /\ Len(b) = L
  <2>1. \A k \in Nat : \A f \in [1 .. k -> S] : f \in Seq(S) /\ Len(f) = k
    OBVIOUS
  <2> QED
    BY <1>0, <1>2, <1>4, <2>1
<1>7. SubSeq(a, 1, L - i) = SubSeq(b, 1, L - i)
  <2>1. /\ SubSeq(a, 1, L - i) \in Seq(S) /\ Len(SubSeq(a, 1, L - i)) = L - i
        /\ \A x \in 1 .. L - i : SubSeq(a, 1, L - i)[x] = a[x]
    BY <1>2, <1>6, PrefixIs
  <2>2. /\ SubSeq(b, 1, L - i) \in Seq(S) /\ Len(SubSeq(b, 1, L - i)) = L - i
        /\ \A x \in 1 .. L - i : SubSeq(b, 1, L - i)[x] = b[x]
    BY <1>2, <1>6, PrefixIs
  <2>3. \A x \in 1 .. L - i : SubSeq(a, 1, L - i)[x] = SubSeq(b, 1, L - i)[x]
    BY <1>5, <2>1, <2>2
  <2> QED
    BY <2>1, <2>2, <2>3, SameSeq
<1> QED
  BY <1>2, <1>6, <1>7 DEF IsSuffix, IsPrefix, a, b, p, L

(* The more requests the more characters.                                  *)
LEMMA SizeGrows ==
  ASSUME RequestAssumption, NEW N \in Nat \ {0}, NEW st \in [1 .. N -> Requests],
         NEW i \in 0 .. N, NEW j \in i .. N
  PROVE  Size(st, i) <= Size(st, j)
<1> DEFINE T == {k \in i .. N : Size(st, i) <= Size(st, k)}
<1>0. \A k \in 0 .. N : Size(st, k) \in Nat
  BY SizesAre
<1>1. i <= N => i \in T
  BY <1>0
<1>2. \A k \in i .. N : k \in T /\ k < N => k + 1 \in T
  <2> SUFFICES ASSUME NEW k \in i .. N, k \in T, k < N PROVE k + 1 \in T
    OBVIOUS
  <2>1. k \in 0 .. N - 1 /\ k \in 0 .. N /\ k + 1 \in 0 .. N /\ k + 1 \in 1 .. N /\ k + 1 \in i .. N
    OBVIOUS
  <2>2. Len(Rendered(st[k + 1])) \in Nat
    BY <2>1, RenderedType
  <2>3. Size(st, k + 1) = Size(st, k) + Len(Rendered(st[k + 1]))
    BY <2>1, SizesAre
  <2>4. Size(st, i) \in Nat /\ Size(st, k) \in Nat /\ Size(st, i) <= Size(st, k)
    BY <1>0, <2>1
  <2>5. Size(st, i) <= Size(st, k + 1)
    BY <2>2, <2>3, <2>4
  <2> QED
    BY <2>1, <2>5
<1>3. i .. N \subseteq T
  <2>1. i \in Int /\ N \in Int
    OBVIOUS
  <2> HIDE DEF T
  <2> QED
    BY <1>1, <1>2, <2>1, IntervalInduction
<1> QED
  BY <1>3

(* How many requests are whole in the first c characters.                  *)
LEMMA WholeIn ==
  ASSUME RequestAssumption, NEW N \in Nat \ {0}, NEW st \in [1 .. N -> Requests],
         NEW c \in Nat, NEW k \in 0 .. N - 1, NEW V, V = {i \in 1 .. N : Size(st, i) <= c}
  PROVE  Cardinality(V) > k <=> Size(st, k + 1) <= c
<1>0. \A i \in 0 .. N : Size(st, i) \in Nat
  <2>1. Sent(st) \in Seq(Char) /\ \A i \in 0 .. N : Size(st, i) \in 0 .. Len(Sent(st))
    BY SizesAre, Zenon
  <2> QED
    BY ONLY <2>1
<1>1. IsFiniteSet(V) /\ Cardinality(V) \in Nat
  <2>1. IsFiniteSet(1 .. N) /\ V \in SUBSET (1 .. N)
    BY FS_Interval
  <2>2. IsFiniteSet(V)
    BY <2>1, FS_Subset
  <2> QED
    BY <2>2, FS_CardinalityType
<1>2. CASE Size(st, k + 1) <= c
  <2>1. 1 .. k + 1 \in SUBSET V
    <3> SUFFICES ASSUME NEW i \in 1 .. k + 1 PROVE i \in V
      OBVIOUS
    <3>1. i \in 0 .. N /\ k + 1 \in 0 .. N /\ k + 1 \in i .. N /\ i \in 1 .. N
      OBVIOUS
    <3>2. Size(st, i) <= Size(st, k + 1)
      BY <3>1, SizeGrows
    <3>3. Size(st, i) \in Nat /\ Size(st, k + 1) \in Nat
      BY <1>0, <3>1
    <3>4. Size(st, i) <= c
      BY <1>2, <3>2, <3>3
    <3> QED
      BY <3>1, <3>4
  <2>2. Cardinality(1 .. k + 1) = k + 1
    <3>1. 1 \in Int /\ k + 1 \in Int /\ ~(1 > k + 1) /\ (k + 1) - 1 + 1 = k + 1
      OBVIOUS
    <3> QED
      BY <3>1, FS_Interval
  <2>3. k + 1 <= Cardinality(V)
    BY <1>1, <2>1, <2>2, FS_Subset
  <2> QED
    BY <1>1, <1>2, <2>3
<1>3. CASE ~(Size(st, k + 1) <= c)
  <2>1. V \in SUBSET (1 .. k)
    <3> SUFFICES ASSUME NEW i \in V, i \notin 1 .. k PROVE FALSE
      OBVIOUS
    <3>1. i \in 1 .. N /\ Size(st, i) <= c /\ k + 1 \in 0 .. N /\ i \in k + 1 .. N /\ i \in 0 .. N
      OBVIOUS
    <3>2. Size(st, k + 1) <= Size(st, i)
      BY <3>1, SizeGrows
    <3>3. Size(st, i) \in Nat /\ Size(st, k + 1) \in Nat
      BY <1>0, <3>1
    <3> QED
      BY <1>3, <3>1, <3>2, <3>3
  <2>2. IsFiniteSet(1 .. k) /\ Cardinality(1 .. k) = k
    <3>1. 1 \in Int /\ k \in Int /\ (1 > k => k = 0) /\ k - 1 + 1 = k
      OBVIOUS
    <3> QED
      BY <3>1, FS_Interval
  <2>3. Cardinality(V) <= k
    BY <2>1, <2>2, FS_Subset
  <2> QED
    BY <1>1, <1>3, <2>3
<1> QED
  BY <1>2, <1>3

-----------------------------------------------------------------------------
(* The buffer, between what the session has moved on from and what is      *)
(* still to be read: this is inductive, as long as no read has ended       *)
(* between the last two characters of a request.                           *)
Buffered(a, c) ==
  /\ a <= c /\ c <= Len(Sent(stream))
  /\ fStrReceived = Part(Sent(stream), a, c)
  /\ unread = Part(Sent(stream), c, Len(Sent(stream)))
  /\ ~cut => Moved <= Len(stream) /\ a = Size(stream, Moved)
ReplyKindSet == {"hello", "hottest", "file", "not found", "false", "error", "malformed"}
ParseInv ==
  /\ stream \in Seq(Requests) /\ stream # <<>>
  /\ \E S : answers \in Seq(S)
  /\ \E a \in Nat : \E c \in Nat : Buffered(a, c)
  /\ fRequest.fMethod \in Words \cup {"illegal"}
  /\ fRequest.fVersion \in ToSet(Versions) \cup {"illegal"}
  /\ \A i \in DOMAIN answers : answers[i].kind \in ReplyKindSet

(* The stream, as the lemmas want it.                                      *)
LEMMA StreamIs ==
  ASSUME RequestAssumption, stream \in Seq(Requests), stream # <<>>
  PROVE  /\ Len(stream) \in Nat \ {0} /\ stream \in [1 .. Len(stream) -> Requests]
         /\ DOMAIN stream = 1 .. Len(stream)
         /\ Sent(stream) \in Seq(Char) /\ Len(Sent(stream)) \in Nat
         /\ Size(stream, Len(stream)) = Len(Sent(stream)) /\ Size(stream, 0) = 0
         /\ \A k \in 0 .. Len(stream) : Size(stream, k) \in Nat /\ Size(stream, k) <= Len(Sent(stream))
<1> DEFINE N == Len(stream)  L == Len(Sent(stream))
<1>1. N \in Nat \ {0} /\ stream \in [1 .. N -> Requests] /\ DOMAIN stream = 1 .. N
  OBVIOUS
<1> HIDE DEF N
<1>2. /\ Sent(stream) \in Seq(Char) /\ Size(stream, N) = L
      /\ \A k \in 0 .. N : Size(stream, k) \in 0 .. L
  BY <1>1, SizesAre
<1>3. L \in Nat
  BY <1>2
<1>4. Size(stream, 0) = 0
  BY DEF Size
<1> QED
  BY <1>1, <1>2, <1>3, <1>4 DEF N

(* Moved counts, and goes up with an answer that has not failed.           *)
LEMMA MovedIs ==
  ASSUME NEW S, answers \in Seq(S)
  PROVE  /\ \A i \in Nat : MovedBy(i) \in Nat
         /\ Moved \in Nat
         /\ answers = <<>> => Moved = 0
<1>1. ASSUME NEW i \in Nat PROVE MovedBy(i) \in Nat
  <2>1. IsFiniteSet(1 .. i) /\ {j \in 1 .. i : ~Failed(answers[j])} \in SUBSET (1 .. i)
    BY FS_Interval
  <2>2. IsFiniteSet({j \in 1 .. i : ~Failed(answers[j])})
    BY <2>1, FS_Subset
  <2> QED
    BY <2>2, FS_CardinalityType DEF MovedBy
<1>2. answers = <<>> => Moved = 0
  <2> SUFFICES ASSUME answers = <<>> PROVE Moved = 0
    OBVIOUS
  <2>1. Len(answers) = 0
    OBVIOUS
  <2>2. {j \in 1 .. 0 : ~Failed(answers[j])} = {}
    OBVIOUS
  <2> QED
    BY <2>1, <2>2, FS_EmptySet DEF Moved, MovedBy
<1> QED
  BY <1>1, <1>2 DEF Moved

LEMMA MovedStep ==
  ASSUME NEW S, answers \in Seq(S), NEW x, answers' = Append(answers, x)
  PROVE  /\ answers' \in Seq(S \cup {x}) /\ answers' # answers
         /\ Moved' = IF Failed(x) THEN Moved ELSE Moved + 1
         /\ \A i \in DOMAIN answers' : answers'[i] = x \/ (i \in DOMAIN answers /\ answers'[i] = answers[i])
<1> DEFINE n == Len(answers)
           A == {j \in 1 .. n : ~Failed(answers[j])}
           B == {j \in 1 .. n + 1 : ~Failed(answers'[j])}
<1>1. /\ n \in Nat /\ Len(answers') = n + 1 /\ answers'[n + 1] = x
      /\ \A j \in 1 .. n : answers'[j] = answers[j]
      /\ DOMAIN answers = 1 .. n /\ DOMAIN answers' = 1 .. n + 1
  OBVIOUS
<1>2. answers' \in Seq(S \cup {x})
  <2>1. answers \in Seq(S \cup {x})
    BY SeqMonotonic
  <2> QED
    BY <2>1
<1> HIDE DEF n
<1>3. IsFiniteSet(A) /\ n + 1 \notin A
  <2>1. IsFiniteSet(1 .. n) /\ A \in SUBSET (1 .. n)
    BY <1>1, FS_Interval
  <2> QED
    BY <1>1, <2>1, FS_Subset
<1>4. B = IF Failed(x) THEN A ELSE A \cup {n + 1}
  <2>1. \A j \in 1 .. n + 1 : j = n + 1 \/ j \in 1 .. n
    BY <1>1
  <2>2. \A j \in 1 .. n : j \in 1 .. n + 1 /\ j # n + 1
    BY <1>1
  <2>3. n + 1 \in 1 .. n + 1
    BY <1>1
  <2> QED
    BY <1>1, <2>1, <2>2, <2>3
<1>5. Moved = Cardinality(A)
  BY DEF Moved, MovedBy, n
<1>6. Moved' = Cardinality(B)
  BY <1>1 DEF Moved, MovedBy
<1> HIDE DEF A, B
<1>7. Cardinality(A \cup {n + 1}) = Cardinality(A) + 1
  BY <1>3, FS_AddElement
<1>8. answers' # answers
  <2>1. n # n + 1
    BY <1>1
  <2> QED
    BY <1>1, <2>1 DEF n
<1>9. \A i \in DOMAIN answers' : answers'[i] = x \/ (i \in DOMAIN answers /\ answers'[i] = answers[i])
  <2>1. \A j \in 1 .. n + 1 : j = n + 1 \/ j \in 1 .. n
    BY <1>1
  <2> QED
    BY <1>1, <2>1
<1> QED
  BY <1>2, <1>4, <1>5, <1>6, <1>7, <1>8, <1>9

(* What RequestLen, the parser and ProcessRequest return.                  *)
LEMMA RequestLenType ==
  ASSUME NEW s \in Seq(Char)
  PROVE  RequestLen(s) \in 0 .. Len(s)
<1>1. PICK f \in [1 .. Len(s) + 1 -> 0 .. Len(s)] : RequestLen(s) = f[1]
  BY RequestLenIs
<1>2. 1 \in 1 .. Len(s) + 1
  OBVIOUS
<1> QED
  BY <1>1, <1>2

LEMMA ParsedType ==
  ASSUME NEW s
  PROVE  /\ ParseFirstLine(s).fMethod \in Words \cup {"illegal"}
         /\ ParseFirstLine(s).fVersion \in ToSet(Versions) \cup {"illegal"}
<1>1. ASSUME NEW w PROVE GetMethod(w) \in Words \cup {"illegal"}
  <2>1. CASE w \in {<<m>> : m \in Words \ {"word"}}
    <3>1. PICK m \in Words : w = <<m>>
      BY <2>1
    <3>2. w[1] = m
      BY <3>1
    <3> QED
      BY <2>1, <3>2 DEF GetMethod
  <2>2. CASE w \notin {<<m>> : m \in Words \ {"word"}}
    BY <2>2 DEF GetMethod
  <2> QED
    BY <2>1, <2>2
<1>2. ASSUME NEW w PROVE GetVersion(w) \in ToSet(Versions) \cup {"illegal"}
  <2>1. CASE \E v \in DOMAIN Versions : w = <<Versions[v]>>
    <3>1. PICK v \in DOMAIN Versions : w = <<Versions[v]>>
      BY <2>1
    <3>2. w[1] = Versions[v] /\ Versions[v] \in ToSet(Versions)
      BY <3>1 DEF ToSet
    <3> QED
      BY <2>1, <3>2 DEF GetVersion
  <2>2. CASE ~(\E v \in DOMAIN Versions : w = <<Versions[v]>>)
    BY <2>2 DEF GetVersion
  <2> QED
    BY <2>1, <2>2
<1>3. "HTTP/1.0" \in ToSet(Versions)
  <2>1. 2 \in DOMAIN Versions /\ Versions[2] = "HTTP/1.0"
    BY DEF Versions
  <2> QED
    BY <2>1 DEF ToSet
<1> QED
  BY <1>1, <1>2, <1>3 DEF ParseFirstLine

LEMMA ReplyKinds ==
  ASSUME NEW request
  PROVE  ProcessRequest(request).answer.kind \in ReplyKindSet
<1>1. ASSUME NEW params PROVE ResponseCmd(params).answer.kind \in ReplyKindSet
  BY DEF ResponseCmd, Reply, ReplyKindSet
<1>2. ASSUME NEW x, NEW y, x \in ReplyKindSet PROVE Unchanged(Reply(x, y)).answer.kind \in ReplyKindSet
  BY <1>2 DEF Unchanged, Reply
<1>3. ASSUME NEW uri PROVE ResponseGet(uri).answer.kind \in ReplyKindSet
  <2>1. {"false", "hello", "file", "not found"} \subseteq ReplyKindSet
    BY DEF ReplyKindSet
  <2> QED
    BY <1>1, <1>2, <2>1 DEF ResponseGet
<1>4. {"malformed", "error"} \subseteq ReplyKindSet
  BY DEF ReplyKindSet
<1> QED
  BY <1>2, <1>3, <1>4 DEF ProcessRequest

(* What a read adds to the buffer and leaves to be read.                   *)
LEMMA ReadIs ==
  ASSUME RequestAssumption, stream \in Seq(Requests), stream # <<>>,
         NEW a \in Nat, NEW c \in Nat, Buffered(a, c), NEW n \in DOMAIN unread, NEW d, Adds(c, n, d)
  PROVE  /\ n \in Nat \ {0} /\ d \in Nat /\ a <= d /\ d <= Len(Sent(stream))
         /\ Received(n) = Part(Sent(stream), a, d)
         /\ Received(n) \in Seq(Char) /\ Len(Received(n)) = d - a
         /\ SubSeq(unread, n + 1, Len(unread)) = Part(Sent(stream), d, Len(Sent(stream)))
         /\ d < Len(Sent(stream)) /\ Sent(stream)[d + 1] = LF => At(unread, n + 1, LF)
<1> DEFINE T == Sent(stream)  L == Len(T)
<1>0. d = c + n
  BY DEF Adds
<1>1. T \in Seq(Char) /\ L \in Nat
  BY StreamIs
<1>2. /\ a <= c /\ c <= L /\ fStrReceived = Part(T, a, c) /\ unread = Part(T, c, L)
  BY DEF Buffered
<1> HIDE DEF T
<1>3. L \in Nat /\ L <= Len(T)
  BY <1>1
<1>4. /\ unread \in Seq(Char) /\ Len(unread) = L - c
      /\ \A x \in 1 .. L - c : unread[x] = T[c + x]
  <2>1. /\ Part(T, c, L) \in Seq(Char) /\ Len(Part(T, c, L)) = L - c
        /\ \A x \in 1 .. L - c : Part(T, c, L)[x] = T[c + x]
    BY <1>1, <1>2, <1>3, PartIs, Zenon
  <2> QED
    BY <1>2, <2>1
<1>5. n \in 1 .. L - c
  BY <1>4
<1> HIDE DEF L
<1>6. /\ n \in Nat /\ n \in Nat \ {0} /\ d \in Nat /\ a <= d /\ c <= d /\ d <= L
      /\ d <= Len(T)
  <2>1. n \in Nat /\ n # 0 /\ n <= L - c
    BY <1>0, <1>1, <1>5
  <2>2. d <= L /\ a <= d /\ c <= d /\ d \in Nat
    BY <1>0, <1>1, <1>2, <2>1
  <2> QED
    BY <2>1, <2>2 DEF L
<1>7. SubSeq(unread, 1, n) = Part(T, c, d) /\ SubSeq(unread, n + 1, Len(unread)) = Part(T, d, L)
  <2>1. L \in Nat /\ c <= L /\ L <= Len(T) /\ n \in Nat /\ d <= L /\ T \in Seq(Char)
    BY <1>1, <1>2, <1>3, <1>6
  <2>2. Splits(Part(T, c, L), n, Part(T, c, d), Part(T, d, L))
    BY <2>1, PartOfPart, Zenon
  <2> QED
    BY <1>2, <2>2, Zenon DEF Splits
<1>8. Received(n) = Part(T, a, d)
  <2>1. Part(T, a, c) \o Part(T, c, d) = Part(T, a, d)
    BY <1>1, <1>2, <1>6, PartJoin, Zenon
  <2> QED
    BY <1>2, <1>7, <2>1, Zenon DEF Received
<1>9. Part(T, a, d) \in Seq(Char) /\ Len(Part(T, a, d)) = d - a
  <2>1. T \in Seq(Char)
    BY <1>1
  <2>2. d \in Nat /\ a <= d /\ d <= Len(T)
    BY <1>6
  <2> QED
    BY <2>1, <2>2, PartIs, Zenon
<1>10. ASSUME d < L, T[d + 1] = LF PROVE At(unread, n + 1, LF)
  <2>1. n + 1 \in 1 .. L - c /\ c + (n + 1) = d + 1
    <3>1. d < L /\ L \in Nat /\ n \in Nat
      BY <1>1, <1>6, <1>10
    <3> QED
      BY <1>0, <3>1
  <2>2. unread[n + 1] = LF /\ n + 1 \in DOMAIN unread
    BY <1>4, <1>10, <2>1
  <2> QED
    BY <2>2 DEF At
<1> QED
  BY <1>6, <1>7, <1>8, <1>9, <1>10 DEF T, L

(* What the code takes for the first request in the buffer is the next one *)
(* that was sent, and it takes none for it before it is whole.             *)
LEMMA ReadEnds ==
  ASSUME RequestAssumption, stream \in Seq(Requests), stream # <<>>, NEW S, answers \in Seq(S),
         NEW a \in Nat, NEW c \in Nat, Buffered(a, c), NEW n \in DOMAIN unread, NEW d, Adds(c, n, d), ~cut, ~Cuts(n)
  PROVE  /\ Moved + 1 \in 0 .. Len(stream)
         /\ Size(stream, Moved + 1) <= d =>
              /\ RequestLen(Received(n)) > 0 /\ a + RequestLen(Received(n)) = Size(stream, Moved + 1)
         /\ ~(Size(stream, Moved + 1) <= d) => RequestLen(Received(n)) = 0
<1> DEFINE T == Sent(stream)  L == Len(T)  N == Len(stream)  k == Moved  s == Received(n)
           b == Size(stream, k + 1)  h == d - a
<1>1. /\ N \in Nat \ {0} /\ stream \in [1 .. N -> Requests] /\ T \in Seq(Char) /\ L \in Nat
      /\ Size(stream, N) = L
      /\ \A j \in 0 .. N : Size(stream, j) \in Nat /\ Size(stream, j) <= L
  BY StreamIs
<1>2. a <= c /\ c <= L /\ k <= N /\ a = Size(stream, k)
  BY DEF Buffered
<1>9. d = c + n /\ c \in Nat /\ a \in Nat
  BY DEF Adds
<1>3. /\ n \in Nat \ {0} /\ d \in Nat /\ d <= L /\ s = Part(T, a, d)
      /\ d < L /\ T[d + 1] = LF => At(unread, n + 1, LF)
  BY ReadIs
<1>4. k \in Nat
  BY MovedIs
<1>5. ~(IsSuffix(<<CR, LF, CR>>, s) /\ At(unread, n + 1, LF))
  BY DEF Cuts
<1> HIDE DEF T, k, s, b
<1>6. k # N
  BY <1>1, <1>2, <1>3, <1>9 DEF L
<1> HIDE DEF N
<1>7. k \in 0 .. N - 1 /\ k + 1 \in 0 .. N /\ k + 1 \in 1 .. N
  BY <1>1, <1>2, <1>4, <1>6
<1>8. h \in Nat \ {0} /\ a + h = d /\ d <= L
  BY <1>2, <1>3, <1>9
<1> HIDE DEF h
<1>10. PICK m \in Nat : b = a + m /\ RestAt(T, a, h, m, s)
  <2>1. /\ N \in Nat \ {0} /\ stream \in [1 .. N -> Requests] /\ k \in 0 .. N - 1
        /\ h \in Nat \ {0}
    BY <1>1, <1>7, <1>8
  <2>2. d <= Len(Sent(stream)) /\ Between(stream, k, a, b) /\ Adds(a, h, d)
    BY <1>2, <1>8 DEF Between, Adds, T, b, L
  <2>3. Found(Sent(stream), a, b, h, d)
    BY <2>1, <2>2, RestIs, Zenon
  <2> QED
    BY <1>3, <2>3 DEF Found, T
<1>11. m # 0
  <2>1. b = a + Len(Rendered(stream[k + 1]))
    BY <1>1, <1>2, <1>7, SizesAre DEF b
  <2>2. Len(Rendered(stream[k + 1])) \in Nat \ {0}
    BY <1>1, <1>7, RenderedType
  <2> QED
    BY <1>10, <2>1, <2>2
<1>12. b \in Nat /\ b <= L
  BY <1>1, <1>7 DEF b
<1>13. /\ m <= h => RequestLen(s) = m
       /\ h < m /\ RequestLen(s) # 0 => IsSuffix(<<CR, LF, CR>>, s) /\ T[d + 1] = LF
  <2>1. T[d + 1] = T[a + h + 1]
    BY <1>8
  <2> QED
    BY <1>10, <2>1 DEF RestAt
<1>14. ASSUME b <= d PROVE RequestLen(s) > 0 /\ a + RequestLen(s) = b
  <2>1. m <= h
    BY <1>8, <1>10, <1>14
  <2> QED
    BY <1>10, <1>11, <1>13, <2>1
<1>15. ASSUME ~(b <= d), RequestLen(s) # 0 PROVE FALSE
  <2>1. h < m /\ d < L /\ d + 1 = d + 1
    BY <1>3, <1>8, <1>10, <1>12, <1>15
  <2>2. IsSuffix(<<CR, LF, CR>>, s) /\ T[d + 1] = LF
    BY <1>13, <1>15, <2>1
  <2> QED
    BY <1>3, <1>5, <2>1, <2>2 DEF L
<1> QED
  BY <1>7, <1>14, <1>15 DEF b, s, k, N

(* What has been received as a whole, once d characters have been read.    *)
LEMMA WholeAfter ==
  ASSUME RequestAssumption, stream \in Seq(Requests), stream # <<>>, stream' = stream,
         NEW d \in Nat, d <= Len(Sent(stream)), unread' = Part(Sent(stream), d, Len(Sent(stream))),
         NEW k \in Nat, k + 1 \in 0 .. Len(stream)
  PROVE  WholeRequests' > k <=> Size(stream, k + 1) <= d
<1> DEFINE T == Sent(stream)  L == Len(T)  N == Len(stream)
           size(i) == Len(FlattenSeq([j \in 1 .. i |-> Rendered(stream[j])]))
<1>1. /\ N \in Nat \ {0} /\ stream \in [1 .. N -> Requests] /\ T \in Seq(Char) /\ L \in Nat
      /\ Size(stream, N) = L /\ DOMAIN stream = 1 .. N
  BY StreamIs
<1>2. \A i \in 1 .. N : size(i) = Size(stream, i)
  BY DEF Size
<1>3. size(N) = L
  BY <1>1, <1>2
<1> HIDE DEF T
<1>4. Len(unread') = L - d
  <2>1. T \in Seq(Char) /\ L \in Nat /\ d <= L /\ L <= Len(T)
    BY <1>1 DEF T
  <2> HIDE DEF L
  <2>2. Len(Part(T, d, L)) = L - d
    BY <2>1, PartIs, Zenon
  <2> QED
    BY <2>2 DEF L, T
<1>5. WholeRequests' = Cardinality({i \in DOMAIN stream : size(i) <= size(N) - Len(unread')})
  BY DEF WholeRequests
<1> HIDE DEF size, L, N
<1>6. size(N) - Len(unread') = d
  BY <1>1, <1>3, <1>4
<1>7. {i \in DOMAIN stream : size(i) <= size(N) - Len(unread')} = {i \in 1 .. N : Size(stream, i) <= d}
  BY <1>1, <1>2, <1>6
<1>8. k \in 0 .. N - 1
  BY <1>1 DEF N
<1> QED
  BY <1>1, <1>5, <1>7, <1>8, WholeIn

(* The invariant holds of a new session.                                   *)
LEMMA ParseInit ==
  ASSUME RequestAssumption, RequestsInit
  PROVE  ParseInv
<1> DEFINE T == Sent(stream)  L == Len(T)
<1>1. stream \in Seq(Requests) /\ stream # <<>>
  <2>1. PICK n \in 1 .. MaxStream : stream \in [1 .. n -> Requests]
    BY DEF RequestsInit
  <2>2. MaxStream \in Nat /\ n \in Nat /\ n # 0
    BY <2>1 DEF RequestAssumption
  <2>3. stream \in Seq(Requests) /\ Len(stream) = n
    BY <2>1, <2>2
  <2> QED
    BY <2>2, <2>3
<1>2. T \in Seq(Char) /\ L \in Nat /\ Size(stream, 0) = 0 /\ Len(stream) \in Nat
  BY <1>1, StreamIs
<1>3. answers = <<>> /\ unread = T /\ fStrReceived = <<>> /\ fRequest = NoRequest
  BY DEF RequestsInit, Sent
<1>4. answers \in Seq({}) /\ Moved = 0
  <2>1. answers \in Seq({})
    BY <1>3
  <2> QED
    BY <1>3, <2>1, MovedIs
<1> HIDE DEF T
<1>5. Part(T, 0, 0) = <<>> /\ Part(T, 0, L) = T
  <2>1. 0 <= L /\ L <= Len(T) /\ 0 <= Len(T) /\ L - 0 = L
    BY <1>2
  <2>2. /\ Part(T, 0, L) \in Seq(Char) /\ Len(Part(T, 0, L)) = L - 0
        /\ \A x \in 1 .. L - 0 : Part(T, 0, L)[x] = T[0 + x]
    <3>1. T \in Seq(Char) /\ L \in Nat /\ 0 \in Nat /\ 0 <= L /\ L <= Len(T)
      BY <1>2, <2>1
    <3> HIDE DEF L
    <3> QED
      BY <3>1, PartIs, Zenon
  <2>3. Part(T, 0, 0) \in Seq(Char) /\ Len(Part(T, 0, 0)) = 0 - 0
    BY <1>2, <2>1, PartIs
  <2>4. \A x \in 1 .. L : 0 + x = x
    BY <1>2
  <2> HIDE DEF L
  <2>5. Part(T, 0, L) = T
    BY <1>2, <2>1, <2>2, <2>4, SameSeq DEF L
  <2> QED
    BY <2>3, <2>5
<1>6. Buffered(0, 0)
  BY <1>2, <1>3, <1>4, <1>5 DEF Buffered, T
<1>7. fRequest.fMethod \in Words \cup {"illegal"} /\ fRequest.fVersion \in ToSet(Versions) \cup {"illegal"}
  <2>1. 2 \in DOMAIN Versions /\ Versions[2] = "HTTP/1.0" /\ "GET" \in Words
    BY DEF Versions, Words
  <2> QED
    BY <1>3, <2>1 DEF NoRequest, ToSet
<1>8. \A i \in DOMAIN answers : answers[i].kind \in ReplyKindSet
  BY <1>3
<1> QED
  BY <1>1, <1>4, <1>6, <1>7, <1>8 DEF ParseInv

(* A read that completes no request.                                       *)
LEMMA PartStep ==
  ASSUME RequestAssumption, ParseInv, NEW n \in DOMAIN unread, ReadsPart(n)
  PROVE  ParseInv' /\ (~cut' => (answers' # answers <=> WholeRequests' > Moved))
<1> DEFINE T == Sent(stream)  L == Len(T)
<1>1. /\ stream \in Seq(Requests) /\ stream # <<>>
      /\ fRequest.fMethod \in Words \cup {"illegal"}
      /\ fRequest.fVersion \in ToSet(Versions) \cup {"illegal"}
      /\ \A i \in DOMAIN answers : answers[i].kind \in ReplyKindSet
  BY DEF ParseInv
<1>2. PICK S : answers \in Seq(S)
  BY DEF ParseInv
<1>3. PICK a \in Nat, c \in Nat : Buffered(a, c)
  BY DEF ParseInv
<1>4. /\ RequestLen(Received(n)) = 0 /\ fStrReceived' = Received(n)
      /\ unread' = SubSeq(unread, n + 1, Len(unread)) /\ cut' = (cut \/ Cuts(n))
      /\ stream' = stream /\ fRequest' = fRequest /\ answers' = answers
  BY DEF ReadsPart
<1>5. PICK d : Adds(c, n, d)
  BY DEF Adds
<1>6. /\ d \in Nat /\ a <= d /\ d <= L /\ Received(n) = Part(T, a, d)
      /\ SubSeq(unread, n + 1, Len(unread)) = Part(T, d, L)
  BY <1>1, <1>3, <1>5, ReadIs
<1>7. Moved' = Moved
  BY <1>4 DEF Moved, MovedBy
<1>8. Buffered(a, d)'
  <2>1. ~cut => Moved <= Len(stream) /\ a = Size(stream, Moved)
    BY <1>3 DEF Buffered
  <2>2. ~cut' => Moved' <= Len(stream') /\ a = Size(stream', Moved')
    BY <1>4, <1>7, <2>1
  <2> QED
    BY <1>4, <1>6, <2>2 DEF Buffered
<1>9. ParseInv'
  <2>1. \E S1 : answers' \in Seq(S1)
    BY <1>2, <1>4
  <2>2. \E a1 \in Nat : \E c1 \in Nat : Buffered(a1, c1)'
    BY <1>6, <1>8
  <2> QED
    BY <1>1, <1>4, <2>1, <2>2 DEF ParseInv
<1>10. ASSUME ~cut' PROVE ~(WholeRequests' > Moved)
  <2>1. ~cut /\ ~Cuts(n)
    BY <1>4, <1>10
  <2>2. Moved + 1 \in 0 .. Len(stream) /\ ~(Size(stream, Moved + 1) <= d)
    <3>1. /\ Moved + 1 \in 0 .. Len(stream)
          /\ Size(stream, Moved + 1) <= d => RequestLen(Received(n)) > 0
      BY <1>1, <1>2, <1>3, <1>5, <2>1, ReadEnds
    <3> QED
      BY <1>4, <3>1
  <2>3. Moved \in Nat
    BY <1>2, MovedIs
  <2>4. unread' = Part(T, d, L)
    BY <1>4, <1>6
  <2> QED
    BY <1>1, <1>4, <1>6, <2>2, <2>3, <2>4, WholeAfter
<1> QED
  BY <1>4, <1>9, <1>10

(* A read that completes one.                                              *)
LEMMA RequestStep ==
  ASSUME RequestAssumption, ParseInv, NEW n \in DOMAIN unread, ReadsRequest(n)
  PROVE  ParseInv' /\ (~cut' => (answers' # answers <=> WholeRequests' > Moved))
<1> DEFINE T == Sent(stream)  L == Len(T)  s == Received(n)  len == RequestLen(s)
           request == ParseFirstLine(SubSeq(s, 1, len))
           x == ProcessRequest(request).answer
<1>1. /\ stream \in Seq(Requests) /\ stream # <<>>
      /\ \A i \in DOMAIN answers : answers[i].kind \in ReplyKindSet
  BY DEF ParseInv
<1>2. PICK S : answers \in Seq(S)
  BY DEF ParseInv
<1>3. PICK a \in Nat, c \in Nat : Buffered(a, c)
  BY DEF ParseInv
<1>4. /\ len > 0 /\ fRequest' = request /\ answers' = Append(answers, x)
      /\ fStrReceived' = MoveOnRequest(s, len, x)
      /\ unread' = SubSeq(unread, n + 1, Len(unread)) /\ cut' = (cut \/ Cuts(n))
      /\ stream' = stream
  BY DEF ReadsRequest
<1>5. PICK d : Adds(c, n, d)
  BY DEF Adds
<1>6. /\ d \in Nat /\ a <= d /\ d <= L /\ s = Part(T, a, d)
      /\ s \in Seq(Char) /\ Len(s) = d - a
      /\ SubSeq(unread, n + 1, Len(unread)) = Part(T, d, L)
  BY <1>1, <1>3, <1>5, ReadIs
<1>7. /\ \E S1 : answers' \in Seq(S1)
      /\ answers' # answers
      /\ Moved' = IF Failed(x) THEN Moved ELSE Moved + 1
      /\ \A i \in DOMAIN answers' : answers'[i] = x \/ (i \in DOMAIN answers /\ answers'[i] = answers[i])
  BY <1>2, <1>4, MovedStep
<1>8. T \in Seq(Char) /\ L \in Nat /\ Moved \in Nat /\ Len(stream) \in Nat
  BY <1>1, <1>2, StreamIs, MovedIs
<1>9. x.kind \in ReplyKindSet
  BY ReplyKinds
<1>10. request.fMethod \in Words \cup {"illegal"} /\ request.fVersion \in ToSet(Versions) \cup {"illegal"}
  BY ParsedType
<1>11. len \in Nat /\ len <= d - a
  BY <1>6, RequestLenType
<1>12. ~cut => Moved <= Len(stream) /\ a = Size(stream, Moved)
  BY <1>3 DEF Buffered
<1>13. ASSUME ~cut'
       PROVE  /\ Moved + 1 \in 0 .. Len(stream) /\ a + len = Size(stream, Moved + 1)
              /\ Size(stream, Moved + 1) <= d
  <2>1. ~cut /\ ~Cuts(n)
    BY <1>4, <1>13
  <2>2. /\ Moved + 1 \in 0 .. Len(stream)
        /\ Size(stream, Moved + 1) <= d => a + len = Size(stream, Moved + 1)
        /\ ~(Size(stream, Moved + 1) <= d) => len = 0
    BY <1>1, <1>2, <1>3, <1>5, <2>1, ReadEnds
  <2> QED
    BY <1>4, <2>2
<1> HIDE DEF T, s, len, request, x
<1>14. \E a1 \in Nat : Buffered(a1, d)'
  <2>1. CASE Failed(x)
    <3>1. fStrReceived' = Part(T, a, d) /\ Moved' = Moved
      BY <1>4, <1>6, <1>7, <2>1 DEF MoveOnRequest
    <3>2. ~cut' => Moved' <= Len(stream') /\ a = Size(stream', Moved')
      BY <1>4, <1>12, <3>1
    <3>3. Buffered(a, d)'
      BY <1>4, <1>6, <3>1, <3>2 DEF Buffered, T
    <3> QED
      BY <3>3
  <2>2. CASE ~Failed(x)
    <3>1. PICK b : Adds(a, len, b)
      BY DEF Adds
    <3>2. b \in Nat /\ b <= d /\ b = a + len
      BY <1>6, <1>11, <3>1 DEF Adds
    <3>3. Splits(Part(T, a, d), len, Part(T, a, b), Part(T, b, d))
      <4>1. a <= d /\ d \in Nat /\ d <= Len(T) /\ len \in Nat /\ b <= d /\ T \in Seq(Char)
        BY <1>6, <1>8, <1>11, <3>2
      <4> QED
        BY <3>1, <4>1, PartOfPart, Zenon
    <3>4. fStrReceived' = Part(T, b, d) /\ Moved' = Moved + 1
      BY <1>4, <1>6, <1>7, <2>2, <3>3 DEF MoveOnRequest, Splits
    <3>5. ~cut' => Moved' <= Len(stream') /\ b = Size(stream', Moved')
      BY <1>4, <1>8, <1>13, <3>2, <3>4
    <3>6. Buffered(b, d)'
      BY <1>4, <1>6, <3>2, <3>4, <3>5 DEF Buffered, T
    <3> QED
      BY <3>2, <3>6
  <2> QED
    BY <2>1, <2>2
<1>15. ParseInv'
  <2>1. \A i \in DOMAIN answers' : answers'[i].kind \in ReplyKindSet
    BY <1>1, <1>7, <1>9
  <2>2. \E a1 \in Nat : \E c1 \in Nat : Buffered(a1, c1)'
    BY <1>6, <1>14
  <2> QED
    BY <1>1, <1>4, <1>7, <1>10, <2>1, <2>2 DEF ParseInv
<1>16. ASSUME ~cut' PROVE WholeRequests' > Moved
  <2>1. unread' = Part(Sent(stream), d, Len(Sent(stream))) /\ d <= Len(Sent(stream))
    BY <1>4, <1>6 DEF T
  <2> QED
    BY <1>1, <1>4, <1>6, <1>8, <1>13, <1>16, <2>1, WholeAfter
<1> QED
  BY <1>7, <1>15, <1>16

(* A stutter.                                                              *)
LEMMA NoReadStep ==
  ASSUME ParseInv, UNCHANGED requestVars
  PROVE  ParseInv'
<1>1. /\ stream' = stream /\ unread' = unread /\ fStrReceived' = fStrReceived /\ fRequest' = fRequest
      /\ answers' = answers /\ cut' = cut
  BY DEF requestVars
<1>2. Moved' = Moved
  BY <1>1 DEF Moved, MovedBy
<1>3. \A a, c : Buffered(a, c)' <=> Buffered(a, c)
  BY <1>1, <1>2 DEF Buffered
<1> QED
  BY <1>1, <1>3 DEF ParseInv

-----------------------------------------------------------------------------
(* A read leads to an answer if there is then a whole request that the       *)
(* session has not moved on from, and to none otherwise                      *)
(* (HTTPSession.cpp:300-316, StringParser.cpp:408-425).                      *)
THEOREM AnsweredAlwaysWhenWhole ==
  ASSUME RequestAssumption
  PROVE  RequestsSpec => AnsweredWhenWhole
<1>1. RequestsInit => ParseInv
  BY ParseInit
<1>2. ParseInv /\ [RequestsNext]_requestVars
      => ParseInv' /\ [~cut' => (answers' # answers <=> WholeRequests' > Moved)]_requestVars
  <2> SUFFICES ASSUME ParseInv, [RequestsNext]_requestVars
               PROVE  ParseInv' /\ [~cut' => (answers' # answers <=> WholeRequests' > Moved)]_requestVars
    OBVIOUS
  <2>1. CASE UNCHANGED requestVars
    BY <2>1, NoReadStep
  <2>2. CASE RequestsNext
    <3>1. PICK n \in DOMAIN unread : ReadsPart(n) \/ ReadsRequest(n)
      BY <2>2 DEF RequestsNext
    <3>2. CASE ReadsPart(n)
      BY <3>2, PartStep
    <3>3. CASE ReadsRequest(n)
      BY <3>3, RequestStep
    <3> QED
      BY <3>1, <3>2, <3>3
  <2> QED
    BY <2>1, <2>2
<1> QED
  BY <1>1, <1>2, PTL DEF RequestsSpec, AnsweredWhenWhole

(* What is in the buffer and what is still to be read are together an end  *)
(* of what the client sends, and what was parsed and answered is of the    *)
(* kinds the code knows.                                                   *)
THEOREM RequestTypes ==
  ASSUME RequestAssumption
  PROVE  RequestsSpec => []RequestsTypeOK
<1>1. RequestsInit => ParseInv
  BY ParseInit
<1>2. ParseInv /\ [RequestsNext]_requestVars => ParseInv'
  <2> SUFFICES ASSUME ParseInv, [RequestsNext]_requestVars PROVE ParseInv'
    OBVIOUS
  <2>1. CASE UNCHANGED requestVars
    BY <2>1, NoReadStep
  <2>2. CASE RequestsNext
    <3>1. PICK n \in DOMAIN unread : ReadsPart(n) \/ ReadsRequest(n)
      BY <2>2 DEF RequestsNext
    <3> QED
      BY <3>1, PartStep, RequestStep
  <2> QED
    BY <2>1, <2>2
<1>3. ParseInv => RequestsTypeOK
  <2> SUFFICES ASSUME ParseInv PROVE RequestsTypeOK
    OBVIOUS
  <2> DEFINE T == Sent(stream)  L == Len(T)
  <2>1. stream \in Seq(Requests) /\ stream # <<>>
    BY DEF ParseInv
  <2>2. T \in Seq(Char) /\ L \in Nat
    BY <2>1, StreamIs
  <2>3. PICK a \in Nat, c \in Nat : Buffered(a, c)
    BY DEF ParseInv
  <2>4. a <= c /\ c <= L /\ fStrReceived = Part(T, a, c) /\ unread = Part(T, c, L)
    BY <2>3 DEF Buffered
  <2> HIDE DEF T
  <2>5. fStrReceived \o unread = Part(T, a, L)
    <3>1. L <= Len(T) /\ a <= L
      BY <2>2, <2>4
    <3>2. Part(T, a, c) \o Part(T, c, L) = Part(T, a, L)
      BY <2>2, <2>4, <3>1, PartJoin
    <3> QED
      BY <2>4, <3>2, Zenon
  <2>6. IsSuffix(fStrReceived \o unread, T)
    <3>1. a <= Len(T)
      BY <2>2, <2>4
    <3>2. IsSuffix(Part(T, a, Len(T)), T)
      BY <2>2, <3>1, PartIsSuffix
    <3> QED
      BY <2>5, <3>2
  <2>7. IsSuffix(fStrReceived \o unread, FlattenSeq([i \in DOMAIN stream |-> Rendered(stream[i])]))
    BY <2>6 DEF T, Sent
  <2> QED
    BY <2>7 DEF ParseInv, RequestsTypeOK, ReplyKindSet
<1> QED
  BY <1>1, <1>2, <1>3, PTL DEF RequestsSpec

-----------------------------------------------------------------------------
(* What a first line is found to say                                       *)

(* ConsumeWord and ConsumeWhitespace stop where TextUntil stops that looks *)
(* for the other characters.                                               *)
Others(s, mask) == {s[x] : x \in 1 .. Len(s)} \ mask

LEMMA ConsumeAreUntil ==
  ASSUME NEW s \in Seq(Char), NEW i \in 1 .. Len(s) + 1
  PROVE  /\ ConsumeWord(s, i) = TextUntil(s, i, Others(s, Words))
         /\ ConsumeWhitespace(s, i) = TextUntil(s, i, Others(s, Blanks))
<1> DEFINE at(I) == LET j == IF I # {} THEN Min(I) ELSE 0 IN IF j = 0 THEN Len(s) + 1 ELSE j
           VS == {x \in i .. Len(s) : s[x] \notin Words}
           B == {x \in i .. Len(s) : s[x] \notin Blanks}
<1>0. \A x \in i .. Len(s) : x \in 1 .. Len(s)
  OBVIOUS
<1>1. VS = {x \in i .. Len(s) : s[x] \in Others(s, Words)}
  BY <1>0 DEF Others
<1>2. B = {x \in i .. Len(s) : s[x] \in Others(s, Blanks)}
  BY <1>0 DEF Others
<1>3. ConsumeWord(s, i) = at(VS) /\ ConsumeWhitespace(s, i) = at(B)
  BY DEF ConsumeWord, ConsumeWhitespace, UntilOr, SelectInSubSeq
<1>4. \A mask : TextUntil(s, i, mask) = at({x \in i .. Len(s) : s[x] \in mask})
  BY DEF TextUntil, UntilOr, SelectInSubSeq
<1> HIDE DEF at, VS, B
<1> QED
  BY <1>1, <1>2, <1>3, <1>4

(* Where the first character is that is not of the mask.                   *)
LEMMA StopsAt ==
  ASSUME NEW s \in Seq(Char), NEW i \in 1 .. Len(s) + 1, NEW mask, NEW j \in i .. Len(s),
         \A x \in i .. j - 1 : s[x] \notin mask, s[j] \in mask
  PROVE  TextUntil(s, i, mask) = j
<1>1. Stops(s, i, j, mask)
  BY DEF Stops
<1>2. Stops(s, i, TextUntil(s, i, mask), mask)
  BY TextUntilIs
<1> QED
  BY <1>1, <1>2, StopsOnce

(* t begins with s.                                                        *)
Begins(t, s) == Len(s) <= Len(t) /\ \A x \in 1 .. Len(s) : t[x] = s[x]

HasBehind(t, s, v) == Begins(t, s) /\ \A x \in 1 .. Len(v) : t[Len(s) + x] = v[x]

LEMMA JoinBegins ==
  ASSUME NEW t, NEW s \in Seq(Char), NEW v \in Seq(Char), Begins(t, s \o v)
  PROVE  HasBehind(t, s, v)
<1>1. /\ s \o v \in Seq(Char) /\ Len(s \o v) = Len(s) + Len(v) /\ Len(s) \in Nat /\ Len(v) \in Nat
      /\ \A x \in 1 .. Len(s) : (s \o v)[x] = s[x]
      /\ \A x \in 1 .. Len(v) : (s \o v)[Len(s) + x] = v[x]
  BY JoinIs
<1>2. Len(s \o v) <= Len(t) /\ \A x \in 1 .. Len(s \o v) : t[x] = (s \o v)[x]
  BY DEF Begins
<1>3. ASSUME NEW x \in 1 .. Len(v) PROVE t[Len(s) + x] = v[x]
  <2>1. Len(s) + x \in 1 .. Len(s \o v)
    BY <1>1
  <2> QED
    BY <1>1, <1>2, <2>1
<1> QED
  BY <1>1, <1>2, <1>3 DEF Begins, HasBehind

(* Where the parts of a request are.                                       *)
Laid(r, s, n) ==
  /\ s \in Seq(Char) /\ n = Len(r.uri) /\ n \in Nat \ {0} /\ 3 + n <= Len(s)
  /\ s[1] = r.method /\ s[2] = SP /\ \A x \in 1 .. n : s[2 + x] = r.uri[x]
  /\ s[3 + n] \in Blanks /\ s[Len(s)] \in EOLs
  /\ \E y \in 3 + n .. Len(s) : s[y] \notin Blanks

LEMMA LaidOut ==
  ASSUME RequestAssumption, NEW r \in Requests, WellFormed(r), r.scheme = <<>>
  PROVE  Laid(r, Rendered(r), Len(r.uri))
<1> DEFINE e == r.eol  m == r.method  n == Len(r.uri)
           z == IF r.version = <<>> THEN <<>> ELSE <<SP>>
           line == <<"word", ":", SP, "word">> \o e
           H == FlattenSeq([i \in 1 .. r.headers |-> line])
           p1 == <<m, SP>> \o r.scheme  p2 == p1 \o r.uri  p3 == p2 \o z
           p4 == p3 \o r.version  p5 == p4 \o e  p6 == p5 \o H  t == p6 \o e
<1>0. /\ m \in Words /\ r.headers \in Nat /\ e \in EolForms
      /\ r.uri \in Seq(STRING) /\ ToSet(r.uri) \cap Blanks = {}
      /\ r.version \in Seq(STRING) /\ ToSet(r.version) \cap Blanks = {}
  BY DEF RequestAssumption, EolForms
<1>1. /\ e \in Seq(Char) /\ Len(e) \in Nat \ {0} /\ e[1] \in EOLs /\ e[Len(e)] \in EOLs
  BY <1>0, FormsAre
<1>2. r.uri \in Seq(Char) /\ r.version \in Seq(Char)
  <2>1. STRING \subseteq Char
    BY DEF Char
  <2> HIDE DEF Char
  <2> QED
    BY <1>0, <2>1, SeqMonotonic
<1>3. /\ <<m, SP>> \in Seq(Char) /\ Len(<<m, SP>>) = 2 /\ <<m, SP>>[1] = m /\ <<m, SP>>[2] = SP
      /\ z \in Seq(Char) /\ r.scheme \in Seq(Char) /\ Len(r.scheme) = 0
  <2>1. m \in Char /\ SP \in Char
    BY <1>0 DEF Char
  <2> HIDE DEF m, Char
  <2> QED
    BY <2>1
<1>4. line \in Seq(Char) /\ Len(line) \in Nat \ {0} /\ line[1] = "word"
  <2> DEFINE w == <<"word", ":", SP, "word">>
  <2>1. w \in Seq(Char) /\ Len(w) = 4 /\ w[1] = "word"
    <3>1. "word" \in Char /\ ":" \in Char /\ SP \in Char
      BY DEF Char, Words
    <3> HIDE DEF Char
    <3> QED
      BY <3>1
  <2> HIDE DEF w
  <2>2. w \o e \in Seq(Char) /\ Len(w \o e) = 4 + Len(e) /\ (w \o e)[1] = w[1]
    <3>1. 1 \in 1 .. Len(w)
      BY <2>1
    <3>2. /\ w \o e \in Seq(Char) /\ Len(w \o e) = Len(w) + Len(e)
          /\ \A x \in 1 .. Len(w) : (w \o e)[x] = w[x]
      <4>1. w \in Seq(Char) /\ e \in Seq(Char)
        BY <1>1, <2>1
      <4> QED
        BY <4>1, JoinIs
    <3>3. Len(w \o e) = 4 + Len(e)
      BY <2>1, <3>2
    <3> QED
      BY <3>1, <3>2, <3>3
  <2> QED
    BY <1>1, <2>1, <2>2 DEF w
<1>5. H \in Seq(Char) /\ (r.headers > 0 => \E x \in 1 .. Len(H) : H[x] = "word")
  <2>1. CASE r.headers = 0
    <3>1. [i \in 1 .. r.headers |-> line] = <<>>
      BY <2>1
    <3>2. H = <<>>
      BY <3>1 DEF FlattenSeq
    <3>3. <<>> \in Seq(Char) /\ ~(r.headers > 0)
      BY <2>1
    <3> QED
      BY <3>2, <3>3
  <2>2. CASE r.headers # 0
    <3> DEFINE h == r.headers  ss == [i \in 1 .. h |-> line]
    <3>1. h \in Nat \ {0} /\ 1 \in 1 .. h
      BY <1>0, <2>2
    <3>2. line \in Seq(Char) /\ "word" \in ToSet(line)
      BY <1>4 DEF ToSet
    <3> HIDE DEF h, line
    <3>3. ss \in [1 .. h -> Seq(Char)] /\ ss[1] = line
      BY <3>1, <3>2
    <3> HIDE DEF ss
    <3>4. FlattenSeq(ss) \in Seq(Char) /\ ToSet(FlattenSeq(ss)) = UNION {ToSet(ss[i]) : i \in 1 .. h}
      BY <3>1, <3>3, FlattenHas
    <3>5. "word" \in ToSet(FlattenSeq(ss))
      BY <3>1, <3>2, <3>3, <3>4
    <3>6. \E x \in 1 .. Len(FlattenSeq(ss)) : FlattenSeq(ss)[x] = "word"
      BY <3>4, <3>5 DEF ToSet
    <3> QED
      BY <3>4, <3>6 DEF ss, h, line
  <2> QED
    BY <2>1, <2>2
<1>6. n \in Nat \ {0}
  BY <1>2 DEF WellFormed, At
<1>7. Rendered(r) = t
  BY DEF Rendered
<1> HIDE DEF e, m, z, line, H, t
<1>8. /\ p1 \in Seq(Char) /\ Len(p1) = 2 /\ p1[1] = m /\ p1[2] = SP
  <2>1. p1 \in Seq(Char) /\ Len(p1) = 2 + 0 /\ \A x \in 1 .. 2 : p1[x] = <<m, SP>>[x]
    BY <1>3, JoinIs
  <2> QED
    BY <1>3, <2>1
<1> HIDE DEF p1
<1>9. p2 \in Seq(Char) /\ Len(p2) = 2 + n
  BY <1>2, <1>8, JoinIs
<1> HIDE DEF p2
<1>10. p3 \in Seq(Char) /\ Len(p3) = 2 + n + Len(z)
  <2>1. p3 \in Seq(Char) /\ Len(p3) = Len(p2) + Len(z) /\ Len(z) \in Nat
    BY <1>3, <1>9, JoinIs
  <2> HIDE DEF p3
  <2> QED
    BY <1>6, <1>9, <2>1
<1> HIDE DEF p3
<1>11. p4 \in Seq(Char) /\ Len(p4) = 2 + n + Len(z) + Len(r.version)
  <2>1. p4 \in Seq(Char) /\ Len(p4) = Len(p3) + Len(r.version) /\ Len(r.version) \in Nat /\ Len(z) \in Nat
    BY <1>2, <1>3, <1>10, JoinIs
  <2> HIDE DEF p4
  <2> QED
    BY <1>6, <1>10, <2>1
<1> HIDE DEF p4
<1>12. p5 \in Seq(Char) /\ Len(p5) = Len(p4) + Len(e) /\ Len(p4) \in Nat
  BY <1>1, <1>11, JoinIs
<1> HIDE DEF p5
<1>13. p6 \in Seq(Char) /\ Len(p6) = Len(p5) + Len(H) /\ Len(p5) \in Nat /\ Len(H) \in Nat
  BY <1>5, <1>12, JoinIs
<1> HIDE DEF p6
<1>14. t \in Seq(Char) /\ Len(t) = Len(p6) + Len(e) /\ Len(p6) \in Nat /\ \A x \in 1 .. Len(e) : t[Len(p6) + x] = e[x]
  BY <1>1, <1>13, JoinIs DEF t
<1>15. Begins(t, p6)
  <2>1. /\ Len(p6) \in Nat /\ Len(e) \in Nat /\ Len(p6 \o e) = Len(p6) + Len(e)
        /\ \A x \in 1 .. Len(p6) : (p6 \o e)[x] = p6[x]
    BY <1>1, <1>13, JoinIs, Zenon
  <2>2. t = p6 \o e
    BY DEF t
  <2> HIDE DEF t
  <2>3. Len(p6) <= Len(p6 \o e)
    BY ONLY <2>1
  <2> QED
    BY <2>1, <2>2, <2>3, Zenon DEF Begins
<1>16. HasBehind(t, p5, H)
  <2>1. p5 \in Seq(Char) /\ H \in Seq(Char)
    BY <1>12, <1>5
  <2>2. Begins(t, p5 \o H)
    BY <1>15 DEF HasBehind, p6
  <2> QED
    BY <2>1, <2>2, JoinBegins, Zenon
<1>17. HasBehind(t, p4, e)
  <2>1. p4 \in Seq(Char) /\ e \in Seq(Char)
    BY <1>11, <1>1
  <2>2. Begins(t, p4 \o e)
    BY <1>16 DEF HasBehind, p5
  <2> QED
    BY <2>1, <2>2, JoinBegins, Zenon
<1>18. HasBehind(t, p3, r.version)
  <2>1. p3 \in Seq(Char) /\ r.version \in Seq(Char)
    BY <1>10, <1>2
  <2>2. Begins(t, p3 \o r.version)
    BY <1>17 DEF HasBehind, p4
  <2> QED
    BY <2>1, <2>2, JoinBegins, Zenon
<1>19. HasBehind(t, p2, z)
  <2>1. p2 \in Seq(Char) /\ z \in Seq(Char)
    BY <1>9, <1>3
  <2>2. Begins(t, p2 \o z)
    BY <1>18 DEF HasBehind, p3
  <2> QED
    BY <2>1, <2>2, JoinBegins, Zenon
<1>20. HasBehind(t, p1, r.uri)
  <2>1. p1 \in Seq(Char) /\ r.uri \in Seq(Char)
    BY <1>8, <1>2
  <2>2. Begins(t, p1 \o r.uri)
    BY <1>19 DEF HasBehind, p2
  <2> QED
    BY <2>1, <2>2, JoinBegins, Zenon
<1>21. t[1] = m /\ t[2] = SP
  BY <1>8, <1>20 DEF HasBehind, Begins
<1>22. \A x \in 1 .. n : t[2 + x] = r.uri[x]
  BY <1>8, <1>20 DEF HasBehind
<1>23. t[Len(t)] \in EOLs
  <2>1. Len(e) \in 1 .. Len(e)
    BY <1>1
  <2> QED
    BY <1>1, <1>14, <2>1
<1>24. /\ 3 + n <= Len(t) /\ t[3 + n] \in Blanks
       /\ \E y \in 3 + n .. Len(t) : t[y] \notin Blanks
  <2>0. Len(r.version) \in Nat /\ Len(z) \in Nat /\ Len(e) \in Nat \ {0} /\ EOLs \subseteq Blanks /\ SP \in Blanks
    BY <1>1, <1>2, <1>3, Chars DEF Blanks
  <2>1. CASE r.version # <<>>
    <3>1. Len(z) = 1 /\ z[1] = SP
      BY <2>1 DEF z
    <3>2. t[3 + n] = SP
      <4>1. 1 \in 1 .. Len(z) /\ Len(p2) + 1 = 3 + n
        BY <1>6, <1>9, <3>1
      <4> QED
        BY <1>19, <3>1, <4>1 DEF HasBehind
    <3>3. 1 \in 1 .. Len(r.version) /\ r.version[1] \notin Blanks
      <4>1. 1 \in 1 .. Len(r.version)
        BY <1>2, <2>1
      <4>2. r.version[1] \in ToSet(r.version)
        BY <1>2, <4>1 DEF ToSet
      <4> QED
        BY <1>0, <4>1, <4>2
    <3>4. t[4 + n] \notin Blanks
      <4>1. Len(p3) + 1 = 4 + n
        BY <1>6, <1>10, <3>1
      <4> QED
        BY <1>18, <3>3, <4>1 DEF HasBehind
    <3>5. 4 + n <= Len(t) /\ 4 + n \in 3 + n .. Len(t) /\ 3 + n <= Len(t)
      <4>1. 4 + n <= Len(p4) /\ Len(p4) <= Len(t) /\ Len(t) \in Nat
        <5>1. Len(t) \in Nat /\ Len(p4) <= Len(t)
          BY <1>14, <1>17 DEF HasBehind, Begins
        <5>2. Len(r.version) >= 1
          BY <2>0, <3>3
        <5>3. Len(p4) = 2 + n + 1 + Len(r.version)
          BY <1>11, <3>1
        <5> DEFINE v == Len(r.version)
        <5>4. v \in Nat /\ v >= 1 /\ Len(p4) = 2 + n + 1 + v
          BY <2>0, <5>2, <5>3
        <5> HIDE DEF n, v
        <5>5. n \in Nat
          BY <1>6
        <5>6. 4 + n <= Len(p4)
          BY <5>4, <5>5
        <5> QED
          BY <5>1, <5>6
      <4> QED
        BY <1>6, <4>1
    <3> QED
      BY <2>0, <3>2, <3>4, <3>5
  <2>2. CASE r.version = <<>>
    <3>1. Len(z) = 0 /\ Len(r.version) = 0
      BY <2>2 DEF z
    <3>2. t[3 + n] = e[1]
      <4>1. Len(p4) + 1 = 3 + n /\ 1 \in 1 .. Len(e)
        BY <1>1, <1>6, <1>11, <3>1
      <4> QED
        BY <1>17, <4>1 DEF HasBehind
    <3>3. PICK x \in 1 .. Len(H) : H[x] = "word"
      BY <1>5, <2>2 DEF WellFormed
    <3>4. t[Len(p5) + x] = "word" /\ "word" \notin Blanks
      BY <1>16, <3>3, Chars DEF HasBehind, Words
    <3>5. Len(p5) + x \in 3 + n .. Len(t) /\ 3 + n <= Len(t)
      <4>1. Len(p5) + x <= Len(p6) /\ Len(p6) <= Len(t) /\ 3 + n <= Len(p5)
        BY ONLY <1>1, <1>6, <1>11, <1>12, <1>13, <1>14, <3>1, <3>3
      <4> QED
        BY <1>6, <1>12, <1>14, <3>3, <4>1
    <3> QED
      BY <1>1, <2>0, <3>2, <3>4, <3>5
  <2> QED
    BY <2>1, <2>2
<1> QED
  BY <1>6, <1>7, <1>14, <1>20, <1>21, <1>22, <1>23, <1>24 DEF Laid, m

LEMMA FirstLineParsed ==
  ASSUME RequestAssumption, NEW r \in Requests, WellFormed(r), r.scheme = <<>>,
         NEW p, p = ParseFirstLine(Rendered(r))
  PROVE  /\ p.ok /\ p.fMethod = r.method
         /\ p.fAbsoluteURI = r.uri /\ p.fRelativeURI = r.uri
<1> DEFINE s == Rendered(r)  n == Len(r.uri)  L == Len(s)
           a == ConsumeWord(s, 1)  b == ConsumeWhitespace(s, a)
           c == TextUntil(s, b, sURLStopConditions)  d == ConsumeWhitespace(s, c)
           e == TextUntil(s, d, EOLs)
<1>0. /\ s \in Seq(Char) /\ L \in Nat /\ n \in Nat \ {0} /\ 3 + n <= L
      /\ s[1] = r.method /\ s[2] = SP /\ \A x \in 1 .. n : s[2 + x] = r.uri[x]
      /\ s[3 + n] \in Blanks /\ s[L] \in EOLs
  BY LaidOut DEF Laid
<1>1. PICK y \in 3 + n .. L : s[y] \notin Blanks
  BY LaidOut DEF Laid
<1>2. /\ r.method \in Words \ {"word"} /\ r.uri \in Seq(STRING) /\ ToSet(r.uri) \cap Blanks = {}
      /\ At(r.uri, 1, "/")
  BY DEF RequestAssumption, WellFormed
<1>3. p = [fMethod |-> GetMethod(SubSeq(s, 1, a - 1)),
           fAbsoluteURI |-> SubSeq(s, b, c - 1),
           fRelativeURI |-> Relative(SubSeq(s, b, c - 1)),
           fVersion |-> p.fVersion, ok |-> PastEOL(s, e) # e]
  BY DEF ParseFirstLine
<1> HIDE DEF s, n, L
<1>4. a = 2
  <2>1. s[2] \in Others(s, Words) /\ \A x \in 1 .. 1 : s[x] \notin Others(s, Words)
    BY <1>0, <1>2, Chars DEF Others, Blanks, L
  <2>2. 2 \in 1 .. Len(s) /\ 1 \in 1 .. Len(s) + 1 /\ \A x \in 1 .. 2 - 1 : x \in 1 .. 1
    BY <1>0 DEF L
  <2>3. TextUntil(s, 1, Others(s, Words)) = 2
    BY <1>0, <2>1, <2>2, StopsAt
  <2> QED
    BY <1>0, <2>2, <2>3, ConsumeAreUntil
<1> HIDE DEF a
<1>5. b = 3
  <2>1. 2 \in 1 .. Len(s) + 1 /\ 3 \in 2 .. Len(s) /\ 1 \in 1 .. n /\ 2 + 1 = 3 /\ 3 \in 1 .. Len(s)
        /\ \A x \in 2 .. 3 - 1 : x = 2
    BY <1>0 DEF L
  <2>2. s[3] \notin Blanks
    <3>1. s[3] = r.uri[1]
      BY <1>0, <2>1
    <3>2. r.uri[1] \in ToSet(r.uri)
      BY <1>2 DEF At, ToSet
    <3> QED
      BY <1>2, <3>1, <3>2
  <2>3. s[3] \in Others(s, Blanks) /\ s[2] \notin Others(s, Blanks)
    BY <1>0, <2>1, <2>2 DEF Others, Blanks
  <2>4. TextUntil(s, 2, Others(s, Blanks)) = 3
    BY <1>0, <2>1, <2>3, StopsAt
  <2> QED
    BY <1>0, <1>4, <2>1, <2>4, ConsumeAreUntil
<1> HIDE DEF b
<1>6. c = 3 + n
  <2>1. 3 \in 1 .. Len(s) + 1 /\ 3 + n \in 3 .. Len(s)
    BY <1>0 DEF L
  <2>2. ASSUME NEW x \in 3 .. (3 + n) - 1 PROVE s[x] \notin Blanks
    <3>1. x - 2 \in 1 .. n /\ 2 + (x - 2) = x
      BY <1>0
    <3>2. s[x] = r.uri[x - 2]
      BY <1>0, <3>1
    <3>3. r.uri[x - 2] \in ToSet(r.uri)
      BY <1>2, <3>1 DEF ToSet, n
    <3> QED
      BY <1>2, <3>2, <3>3
  <2>3. sURLStopConditions = Blanks
    BY DEF sURLStopConditions, Blanks
  <2>4. TextUntil(s, 3, Blanks) = 3 + n
    BY <1>0, <2>1, <2>2, StopsAt
  <2> QED
    BY <1>5, <2>3, <2>4
<1> HIDE DEF c
<1>7. d \in 3 + n .. L
  <2>1. 3 + n \in 1 .. Len(s) + 1
    BY <1>0 DEF L
  <2>2. d = TextUntil(s, 3 + n, Others(s, Blanks))
    BY <1>0, <1>6, <2>1, ConsumeAreUntil
  <2>3. Stops(s, 3 + n, d, Others(s, Blanks))
    BY <1>0, <2>1, <2>2, TextUntilIs
  <2>4. d \in 3 + n .. L + 1 /\ \A x \in 3 + n .. d - 1 : s[x] \notin Others(s, Blanks)
    BY <2>3 DEF Stops, L
  <2>5. d # L + 1
    <3>1. y \in 1 .. Len(s) /\ s[y] \in Others(s, Blanks)
      BY <1>0, <1>1 DEF Others, L
    <3>2. d = L + 1 => y \in 3 + n .. d - 1
      BY <1>0, <1>1
    <3> QED
      BY <2>4, <3>1, <3>2
  <2>6. L \in Nat /\ 3 + n \in Nat
    BY <1>0
  <2> HIDE DEF d
  <2> QED
    BY <2>4, <2>5, <2>6
<1> HIDE DEF d
<1>8. e \in d .. L /\ s[e] \in EOLs
  <2>1. d \in 1 .. Len(s) + 1
    BY <1>0, <1>7 DEF L
  <2>2. Stops(s, d, e, EOLs)
    BY <1>0, <2>1, TextUntilIs
  <2>3. e \in d .. L + 1 /\ (\A x \in d .. e - 1 : s[x] \notin EOLs) /\ (e <= L => s[e] \in EOLs)
    BY <2>2 DEF Stops, L
  <2>4. e # L + 1
    <3>1. e = L + 1 => L \in d .. e - 1
      BY <1>0, <1>7
    <3> QED
      BY <1>0, <2>3, <3>1
  <2> QED
    BY <1>0, <1>7, <2>3, <2>4
<1> HIDE DEF e
<1>9. PastEOL(s, e) # e
  <2>1. e \in DOMAIN s /\ (s[e] = CR \/ s[e] = LF) /\ e \in Nat
    BY <1>0, <1>7, <1>8 DEF EOLs, L
  <2> QED
    BY <2>1 DEF PastEOL, At
<1>10. GetMethod(SubSeq(s, 1, a - 1)) = r.method
  <2>1. SubSeq(s, 1, a - 1) = <<r.method>>
    <3>1. /\ SubSeq(s, 1, 1) \in Seq(Char) /\ Len(SubSeq(s, 1, 1)) = 1
          /\ \A x \in 1 .. 1 : SubSeq(s, 1, 1)[x] = s[x]
      BY <1>0, PrefixIs DEF L
    <3>2. a - 1 = 1
      BY <1>4
    <3>3. Len(SubSeq(s, 1, 1)) = 1 /\ SubSeq(s, 1, 1)[1] = r.method
      BY <1>0, <3>1
    <3> DEFINE q == SubSeq(s, 1, 1)
    <3> HIDE DEF q
    <3>4. q = <<r.method>>
      <4>1. q \in Seq(Char) /\ Len(q) = 1 /\ q[1] = r.method
        BY <3>1, <3>3 DEF q
      <4> QED
        BY <4>1
    <3> QED
      BY <3>2, <3>4 DEF q
  <2>2. <<r.method>>[1] = r.method
    OBVIOUS
  <2> QED
    BY <1>2, <2>1, <2>2 DEF GetMethod
<1>11. SubSeq(s, b, c - 1) = r.uri
  <2>1. b = 2 + 1 /\ c - 1 = 2 + n /\ 2 \in Nat /\ n \in Nat /\ 2 + n <= Len(s)
    BY <1>0, <1>5, <1>6 DEF L
  <2>2. /\ SubSeq(s, 2 + 1, 2 + n) \in Seq(Char) /\ Len(SubSeq(s, 2 + 1, 2 + n)) = n
        /\ \A x \in 1 .. n : SubSeq(s, 2 + 1, 2 + n)[x] = s[2 + x]
    BY <1>0, <2>1, MiddleIs
  <2>3. r.uri \in Seq(Char)
    <3>1. STRING \subseteq Char
      BY DEF Char
    <3> HIDE DEF Char
    <3> QED
      BY <1>2, <3>1, SeqMonotonic
  <2>4. SubSeq(s, 2 + 1, 2 + n) = r.uri
    BY <1>0, <2>2, <2>3, SameSeq DEF n
  <2> QED
    BY <2>1, <2>4
<1>12. Relative(r.uri) = r.uri
  BY <1>2 DEF Relative
<1> QED
  <2> DEFINE q == [fMethod |-> r.method, fAbsoluteURI |-> r.uri, fRelativeURI |-> r.uri,
                  fVersion |-> p.fVersion, ok |-> TRUE]
  <2>1. p = q
    BY <1>3, <1>9, <1>10, <1>11, <1>12, Zenon
  <2>2. q.ok /\ q.fMethod = r.method /\ q.fAbsoluteURI = r.uri /\ q.fRelativeURI = r.uri
    OBVIOUS
  <2> HIDE DEF q
  <2> QED
    BY <2>1, <2>2

-----------------------------------------------------------------------------
(* What a read answers                                                     *)

(* What a part of the stream that goes from one request to the next is.    *)
LEMMA PartIsRequest ==
  ASSUME RequestAssumption, NEW N \in Nat \ {0}, NEW st \in [1 .. N -> Requests],
         NEW k \in 0 .. N - 1, NEW a, NEW b, Between(st, k, a, b)
  PROVE  Part(Sent(st), a, b) = Rendered(st[k + 1])
<1> DEFINE T == Sent(st)  v == Rendered(st[k + 1])
<1>1. /\ T \in Seq(Char) /\ k \in 0 .. N /\ k + 1 \in 0 .. N /\ k + 1 \in 1 .. N
      /\ \A j \in 0 .. N : Size(st, j) \in 0 .. Len(T)
      /\ Size(st, k + 1) = Size(st, k) + Len(v)
      /\ \A x \in 1 .. Len(v) : T[Size(st, k) + x] = v[x]
  <2>1. k \in 0 .. N /\ k + 1 \in 0 .. N /\ k + 1 \in 1 .. N
    OBVIOUS
  <2>2. /\ T \in Seq(Char) /\ \A j \in 0 .. N : Size(st, j) \in 0 .. Len(T)
        /\ \A j \in 0 .. N - 1 :
             /\ Size(st, j + 1) = Size(st, j) + Len(Rendered(st[j + 1]))
             /\ \A x \in 1 .. Len(Rendered(st[j + 1])) : T[Size(st, j) + x] = Rendered(st[j + 1])[x]
    BY SizesAre
  <2> HIDE DEF T
  <2> QED
    BY <2>1, <2>2
<1>2. v \in Seq(Char) /\ Len(v) \in Nat
  BY <1>1, RenderedType
<1> HIDE DEF T, v
<1>3. /\ a \in Nat /\ b \in Nat /\ b <= Len(T) /\ b = a + Len(v) /\ a <= b
      /\ \A x \in 1 .. Len(v) : T[a + x] = v[x]
  <2>1. a = Size(st, k) /\ b = Size(st, k + 1)
    BY DEF Between
  <2>2. a \in 0 .. Len(T) /\ b \in 0 .. Len(T) /\ b = a + Len(v) /\ Len(T) \in Nat
    BY <1>1, <2>1
  <2> QED
    BY <1>1, <1>2, <2>1, <2>2
<1>4. /\ Part(T, a, b) \in Seq(Char) /\ Len(Part(T, a, b)) = b - a
      /\ \A x \in 1 .. b - a : Part(T, a, b)[x] = T[a + x]
  <2>1. T \in Seq(Char) /\ a \in Nat /\ b \in Nat /\ a <= b /\ b <= Len(T)
    BY <1>1, <1>3
  <2> QED
    BY <2>1, PartIs, ZenonT(40)
<1>5. b - a = Len(v)
  BY <1>2, <1>3
<1> QED
  BY <1>2, <1>3, <1>4, <1>5, SameSeq DEF T, v

(* How many requests an answer and those before it moved on from does not  *)
(* change when an answer is added.                                         *)
LEMMA MovedBefore ==
  ASSUME NEW S, answers \in Seq(S), NEW x, answers' = Append(answers, x)
  PROVE  \A i \in 1 .. Len(answers) + 1 : MovedBy(i - 1)' = MovedBy(i - 1)
<1> SUFFICES ASSUME NEW i \in 1 .. Len(answers) + 1 PROVE MovedBy(i - 1)' = MovedBy(i - 1)
  OBVIOUS
<1>1. \A j \in 1 .. i - 1 : answers'[j] = answers[j]
  OBVIOUS
<1>2. {j \in 1 .. i - 1 : ~Failed(answers'[j])} = {j \in 1 .. i - 1 : ~Failed(answers[j])}
  BY <1>1
<1> QED
  BY <1>2 DEF MovedBy

(* A request that is no command is answered as it is meant.                *)
LEMMA PlainAnswer ==
  ASSUME RequestAssumption, NEW r \in Requests, r \notin Commands, WellFormed(r), r.scheme = <<>>,
         NEW p, p.ok, p.fMethod = r.method, p.fAbsoluteURI = r.uri
  PROVE  /\ ProcessRequest(p).answer.kind = Meant(r).kind
         /\ Meant(r).kind # "error" => ProcessRequest(p).answer = Meant(r)
<1>1. ~At(r.uri, 2, "?") /\ r.uri # <<>>
  BY DEF Commands, WellFormed, At
<1>2. CASE r.method # "GET"
  <2>1. ProcessRequest(p).answer.kind = "error"
    BY <1>2 DEF ProcessRequest, Unchanged, Reply
  <2>2. Meant(r).kind = "error"
    BY <1>2 DEF Meant, Reply
  <2> QED
    BY <2>1, <2>2
<1>3. CASE r.method = "GET"
  <2>1. ProcessRequest(p) = ResponseGet(r.uri)
    BY <1>3 DEF ProcessRequest
  <2>2. CASE r.uri = <<"/">>
    <3>1. ResponseGet(r.uri).answer = Reply("hello", <<>>)
      BY <1>1, <2>2 DEF ResponseGet, Unchanged
    <3>2. Meant(r) = Reply("hello", <<>>)
      BY <1>1, <1>3, <2>2 DEF Meant
    <3> QED
      BY <2>1, <3>1, <3>2
  <2>3. CASE r.uri # <<"/">>
    <3>1. ResponseGet(r.uri).answer = Reply(IF r.uri \in RootPath THEN "file" ELSE "not found", r.uri)
      BY <1>1, <2>3 DEF ResponseGet, Unchanged
    <3>2. Meant(r) = Reply(IF r.uri \in RootPath THEN "file" ELSE "not found", r.uri)
      BY <1>1, <1>3, <2>3 DEF Meant
    <3> QED
      BY <2>1, <3>1, <3>2
  <2> QED
    BY <2>2, <2>3
<1> QED
  BY <1>2, <1>3

(* The request that a read completes is the one that was sent next.        *)
LEMMA NextIsParsed ==
  ASSUME RequestAssumption, ParseInv, NEW n \in DOMAIN unread, ReadsRequest(n), ~cut'
  PROVE  /\ Moved + 1 \in 1 .. Len(stream) /\ stream[Moved + 1] \in Requests
         /\ fRequest' = ParseFirstLine(Rendered(stream[Moved + 1]))
         /\ answers' = Append(answers, ProcessRequest(fRequest').answer)
         /\ fParams' = ProcessRequest(fRequest').fParams
<1> DEFINE T == Sent(stream)  L == Len(T)  N == Len(stream)  s == Received(n)  len == RequestLen(s)
           k == Moved
<1>1. stream \in Seq(Requests) /\ stream # <<>>
  BY DEF ParseInv
<1>2. PICK S : answers \in Seq(S)
  BY DEF ParseInv
<1>3. PICK a \in Nat, c \in Nat : Buffered(a, c)
  BY DEF ParseInv
<1>4. /\ len > 0 /\ fRequest' = ParseFirstLine(SubSeq(s, 1, len))
      /\ answers' = Append(answers, ProcessRequest(fRequest').answer)
      /\ fParams' = ProcessRequest(fRequest').fParams
      /\ cut' = (cut \/ Cuts(n))
  BY DEF ReadsRequest
<1>5. PICK d : Adds(c, n, d)
  BY DEF Adds
<1>6. /\ d \in Nat /\ a <= d /\ d <= L /\ s = Part(T, a, d) /\ s \in Seq(Char)
  BY <1>1, <1>3, <1>5, ReadIs
<1>7. ~cut /\ ~Cuts(n)
  BY <1>4
<1>8. /\ k + 1 \in 0 .. N
      /\ Size(stream, k + 1) <= d => a + len = Size(stream, k + 1)
      /\ ~(Size(stream, k + 1) <= d) => len = 0
  BY <1>1, <1>2, <1>3, <1>5, <1>7, ReadEnds
<1>9. a + len = Size(stream, k + 1) /\ Size(stream, k + 1) <= d
  BY <1>4, <1>8
<1>10. a = Size(stream, k)
  BY <1>3, <1>7 DEF Buffered
<1>11. N \in Nat \ {0} /\ stream \in [1 .. N -> Requests] /\ T \in Seq(Char) /\ k \in Nat
  BY <1>1, <1>2, StreamIs, MovedIs
<1>12. len \in Nat
  BY <1>6, RequestLenType
<1> HIDE DEF T, s, len, k
<1>13. k \in 0 .. N - 1 /\ k + 1 \in 1 .. N
  BY <1>8, <1>11
<1>14. PICK b : Adds(a, len, b)
  BY DEF Adds
<1>15. b = Size(stream, k + 1) /\ b \in Nat /\ b <= d
  BY <1>9, <1>12, <1>14 DEF Adds
<1>16. Splits(Part(T, a, d), len, Part(T, a, b), Part(T, b, d))
  <2>1. a <= d /\ d \in Nat /\ d <= Len(T) /\ len \in Nat /\ b <= d /\ T \in Seq(Char)
    BY <1>6, <1>11, <1>12, <1>15
  <2> QED
    BY <1>14, <2>1, PartOfPart, Zenon
<1>17. Part(T, a, b) = Rendered(stream[k + 1])
  <2>1. Between(stream, k, a, b)
    BY <1>10, <1>15 DEF Between
  <2> HIDE DEF N
  <2> QED
    BY <1>11, <1>13, <2>1, PartIsRequest, Zenon DEF T
<1>18. SubSeq(s, 1, len) = Rendered(stream[k + 1])
  BY <1>6, <1>16, <1>17, Zenon DEF Splits
<1>19. stream[k + 1] \in Requests
  BY <1>11, <1>13
<1> QED
  BY <1>4, <1>13, <1>18, <1>19 DEF k

-----------------------------------------------------------------------------
(* What the parameters of a command are found to be                        *)

PartsSet == Seq(Seq(Char)) \ {<<>>}

(* What the last of the parts gets.                                        *)
LEMMA AddCharType ==
  ASSUME NEW acc \in PartsSet, NEW c \in Char
  PROVE  AddChar(acc, c) \in PartsSet
<1> DEFINE n == Len(acc)
<1>1. acc \in Seq(Seq(Char)) /\ n \in Nat \ {0} /\ DOMAIN acc = 1 .. n
  BY DEF PartsSet
<1>2. CASE c = "&"
  <2>1. <<>> \in Seq(Char)
    OBVIOUS
  <2>2. Append(acc, <<>>) \in Seq(Seq(Char)) /\ Append(acc, <<>>) # <<>>
    BY <1>1, <2>1
  <2> QED
    BY <1>2, <2>2 DEF AddChar, PartsSet
<1>3. CASE c # "&"
  <2>1. n \in 1 .. n
    BY <1>1
  <2>2. Append(acc[n], c) \in Seq(Char)
    BY <1>1, <2>1
  <2>3. [acc EXCEPT ![n] = Append(acc[n], c)] \in [1 .. n -> Seq(Char)]
    BY <1>1, <2>1, <2>2
  <2>4. ASSUME NEW f \in [1 .. n -> Seq(Char)] PROVE f \in Seq(Seq(Char)) /\ f # <<>>
    <3>1. n \in Nat \ {0} /\ f \in [1 .. n -> Seq(Char)]
      BY <1>1
    <3> HIDE DEF n
    <3> QED
      BY ONLY <3>1
  <2>5. AddChar(acc, c) = [acc EXCEPT ![n] = Append(acc[n], c)]
    BY <1>3 DEF AddChar
  <2> QED
    BY <2>3, <2>4, <2>5 DEF PartsSet
<1> QED
  BY <1>2, <1>3

SplitRounds(h, p) ==
  /\ h[0] = << <<>> >> /\ Split(p) = h[Len(p)]
  /\ \A i \in 1 .. Len(p) : h[i] = AddChar(h[i - 1], p[i])

(* Split is what its rounds make of the characters, one by one.            *)
LEMMA SplitLoop ==
  ASSUME NEW p \in Seq(Char)
  PROVE  \E h \in [0 .. Len(p) -> PartsSet] : SplitRounds(h, p)
<1> DEFINE n == Len(p)  V == PartsSet
           G == [i \in 1 .. n |-> [acc \in V |-> AddChar(acc, p[i])]]
           IsIter(iter) == iter = [S \in SUBSET DOMAIN p |->
             IF S = {} THEN << <<>> >> ELSE AddChar(iter[S \ {Max(S)}], p[Max(S)])]
<1>0. n \in Nat /\ DOMAIN p = 1 .. n /\ << <<>> >> \in V
  BY DEF PartsSet
<1>a. ASSUME NEW i \in 1 .. n, NEW acc \in V PROVE AddChar(acc, p[i]) \in V
  BY AddCharType
<1>1. G \in [1 .. n -> [V -> V]]
  <2> HIDE DEF n, V
  <2> QED
    BY <1>a
<1>2. Split(p) = (CHOOSE g : IsIter(g))[DOMAIN p]
  BY DEF Split, FoldLeft, MapThenFoldSet
<1> HIDE DEF n, V
<1>3. PICK g \in [SUBSET (1 .. n) -> V] : IsLoop(g, n, << <<>> >>, G)
  <2> HIDE DEF G, IsIter
  <2> QED
    BY <1>0, <1>1, LoopExists, Zenon
<1>4. IsIter(g)
  <2>1. ASSUME NEW S \in SUBSET (1 .. n), S # {}
        PROVE  G[Max(S)][g[S \ {Max(S)}]] = AddChar(g[S \ {Max(S)}], p[Max(S)])
    <3>1. Max(S) \in 1 .. n /\ S \ {Max(S)} \in SUBSET (1 .. n)
      BY <1>0, <2>1, MaxIsIn
    <3>2. g[S \ {Max(S)}] \in V
      BY <1>3, <3>1
    <3> QED
      BY <3>1, <3>2
  <2> HIDE DEF G
  <2>2. [S \in SUBSET (1 .. n) |-> IF S = {} THEN << <<>> >> ELSE G[Max(S)][g[S \ {Max(S)}]]]
        = [S \in SUBSET (1 .. n) |->
             IF S = {} THEN << <<>> >> ELSE AddChar(g[S \ {Max(S)}], p[Max(S)])]
    BY <2>1
  <2> QED
    BY <1>0, <1>3, <2>2, Zenon DEF IsLoop
<1>5. PICK iter : IsIter(iter) /\ Split(p) = iter[1 .. n]
  <2> HIDE DEF IsIter
  <2> QED
    BY <1>0, <1>2, <1>4, Zenon
<1>6. /\ iter[{}] = << <<>> >>
      /\ \A S \in SUBSET (1 .. n) : S # {} => iter[S] = AddChar(iter[S \ {Max(S)}], p[Max(S)])
  <2>1. \A S \in SUBSET (1 .. n) :
          iter[S] = IF S = {} THEN << <<>> >> ELSE AddChar(iter[S \ {Max(S)}], p[Max(S)])
    BY <1>0, <1>5
  <2> QED
    BY <2>1
<1>7. ASSUME NEW S \in SUBSET (1 .. n), S # {}, iter[S \ {Max(S)}] \in V
      PROVE  iter[S] = G[Max(S)][iter[S \ {Max(S)}]]
  <2>1. Max(S) \in 1 .. n
    BY <1>0, <1>7, MaxIsIn
  <2>2. iter[S] = AddChar(iter[S \ {Max(S)}], p[Max(S)])
    BY <1>6, <1>7, Zenon
  <2> QED
    BY <1>7, <2>1, <2>2
<1>8. \A i \in 1 .. n : \A acc \in V : G[i][acc] = AddChar(acc, p[i])
  OBVIOUS
<1> HIDE DEF G, IsIter
<1>b. Iterates(iter, n, V, << <<>> >>, G)
  <2>1. iter[{}] = << <<>> >>
    BY <1>6
  <2>2. \A S \in SUBSET (1 .. n) :
          S # {} /\ iter[S \ {Max(S)}] \in V => iter[S] = G[Max(S)][iter[S \ {Max(S)}]]
    BY <1>7, Zenon
  <2> QED
    BY <2>1, <2>2, Zenon DEF Iterates
<1>9. PICK h \in [0 .. n -> V] : IsRounds(h, iter, n, << <<>> >>, G)
  <2>1. /\ n \in Nat /\ << <<>> >> \in V /\ G \in [1 .. n -> [V -> V]]
        /\ Iterates(iter, n, V, << <<>> >>, G)
    BY <1>0, <1>1, <1>b
  <2> QED
    BY <2>1, LoopRounds, Zenon
<1>10. \A i \in 1 .. n : h[i] = AddChar(h[i - 1], p[i])
  <2> SUFFICES ASSUME NEW i \in 1 .. n PROVE h[i] = AddChar(h[i - 1], p[i])
    OBVIOUS
  <2>1. h[i - 1] \in V
    BY <1>0, <1>9
  <2> QED
    BY <1>8, <1>9, <2>1 DEF IsRounds
<1>11. h[0] = << <<>> >> /\ Split(p) = h[n]
  BY <1>5, <1>9 DEF IsRounds
<1> QED
  BY <1>9, <1>10, <1>11 DEF n, V, SplitRounds

(* A key and its value.                                                    *)
KeyValue(k, v) == <<k, "=", v>>
KeyValues == {KeyValue(k, v) : k \in Char \ {"&", "="}, v \in Char \ {"&"}}

Maps == UNION {[D -> Seq(Char)] : D \in SUBSET Seq(Char)}
ParamsRounds(h, map, p) ==
  /\ h[0] = map /\ ParseParams(map, p) = h[Len(Split(p))]
  /\ \A i \in 1 .. Len(Split(p)) : h[i] = InsertPart(h[i - 1], Split(p)[i])

(* What inserting does.                                                    *)
LEMMA InsertIs ==
  ASSUME NEW m \in Maps, NEW key \in Seq(Char), NEW value \in Seq(Char)
  PROVE  /\ Insert(m, key, value) \in Maps
         /\ DOMAIN Insert(m, key, value) = DOMAIN m \cup {key}
         /\ \A q \in DOMAIN m : Insert(m, key, value)[q] = m[q]
         /\ key \notin DOMAIN m => Insert(m, key, value)[key] = value
<1> DEFINE I == [q \in DOMAIN m \cup {key} |-> IF q \in DOMAIN m THEN m[q] ELSE value]
<1>1. PICK D \in SUBSET Seq(Char) : m \in [D -> Seq(Char)]
  BY DEF Maps
<1>2. DOMAIN m = D /\ \A q \in D : m[q] \in Seq(Char)
  BY <1>1
<1>3. D \cup {key} \in SUBSET Seq(Char)
  BY <1>1
<1>4. I \in [D \cup {key} -> Seq(Char)]
  BY <1>2
<1>5. Insert(m, key, value) = I
  BY DEF Insert
<1>6. I \in Maps
  BY <1>3, <1>4 DEF Maps
<1> QED
  BY <1>2, <1>5, <1>6

(* A part is inserted under its key.                                       *)
LEMMA InsertPartIs ==
  ASSUME NEW m, NEW k \in Char \ {"&", "="}, NEW v \in Char \ {"&"}
  PROVE  InsertPart(m, KeyValue(k, v)) = Insert(m, <<k>>, <<v>>)
<1> DEFINE p == KeyValue(k, v)  I == {x \in 1 .. Len(p) : p[x] = "="}
<1>1. p \in Seq(Char \cup {"="}) /\ Len(p) = 3 /\ p[1] = k /\ p[2] = "=" /\ p[3] = v
  BY DEF KeyValue
<1> HIDE DEF p
<1>2. SubSeq(p, 1, 1) = <<k>> /\ SubSeq(p, 3, 3) = <<v>>
  <2> DEFINE C == Char \cup {"="}  s == SubSeq(p, 1, 1)  t == SubSeq(p, 3, 3)
  <2> HIDE DEF C
  <2>1. p \in Seq(C) /\ 1 \in Nat /\ 1 <= Len(p)
    BY <1>1 DEF C
  <2>2. s \in Seq(C) /\ Len(s) = 1 /\ \A x \in 1 .. 1 : s[x] = p[x]
    BY <2>1, PrefixIs
  <2>3. t \in Seq(C) /\ Len(t) = 1 /\ \A x \in 1 .. 1 : t[x] = p[2 + x]
    <3>1. 2 \in Nat /\ 2 + 1 <= Len(p)
      BY <1>1
    <3>2. /\ SubSeq(p, 2 + 1, 2 + 1) \in Seq(C) /\ Len(SubSeq(p, 2 + 1, 2 + 1)) = 1
          /\ \A x \in 1 .. 1 : SubSeq(p, 2 + 1, 2 + 1)[x] = p[2 + x]
      BY <2>1, <3>1, MiddleIs
    <3>3. 2 + 1 = 3
      OBVIOUS
    <3> QED
      BY <3>2, <3>3
  <2> HIDE DEF s, t
  <2>4. s[1] = k /\ t[1] = v
    BY <1>1, <2>2, <2>3
  <2>5. s = <<k>> /\ t = <<v>>
    BY <2>2, <2>3, <2>4
  <2> QED
    BY <2>5 DEF s, t
<1>3. 2 \in I /\ \A x \in I : 2 <= x
  <2>1. \A x \in 1 .. 3 : x = 1 \/ 2 <= x
    OBVIOUS
  <2> QED
    BY <1>1, <2>1
<1>4. Min(I) = 2
  <2>1. I \subseteq Int
    BY <1>1
  <2>2. \A x \in I : (\A y \in I : x <= y) => x = 2
    BY <1>3, <2>1
  <2> HIDE DEF I
  <2> QED
    BY <1>3, <2>2 DEF Min
<1>5. SelectInSeq(p, LAMBDA c : c = "=") = 2
  <2>1. SelectInSeq(p, LAMBDA c : c = "=") = IF I # {} THEN Min(I) ELSE 0
    BY DEF SelectInSeq
  <2> HIDE DEF I
  <2> QED
    BY <1>3, <1>4, <2>1
<1>6. InsertPart(m, p) = Insert(m, SubSeq(p, 1, 2 - 1), SubSeq(p, 2 + 1, Len(p)))
  BY <1>5 DEF InsertPart
<1>7. 2 - 1 = 1 /\ 2 + 1 = 3
  OBVIOUS
<1> QED
  BY <1>1, <1>2, <1>6, <1>7 DEF p

LEMMA InsertPartType ==
  ASSUME NEW m \in Maps, NEW part \in KeyValues
  PROVE  InsertPart(m, part) \in Maps
<1>1. PICK k \in Char \ {"&", "="}, v \in Char \ {"&"} : part = KeyValue(k, v)
  BY DEF KeyValues
<1>2. <<k>> \in Seq(Char) /\ <<v>> \in Seq(Char)
  <2> HIDE DEF Char
  <2> QED
    OBVIOUS
<1>3. Insert(m, <<k>>, <<v>>) \in Maps
  BY <1>2, InsertIs
<1> QED
  BY <1>1, <1>3, InsertPartIs

(* ParseParams is what its rounds make of the parts.                       *)
LEMMA ParamsLoop ==
  ASSUME NEW map \in Maps, NEW p, Split(p) \in Seq(KeyValues)
  PROVE  \E h \in [0 .. Len(Split(p)) -> Maps] : ParamsRounds(h, map, p)
<1> DEFINE n == Len(Split(p))  V == Maps
           G == [i \in 1 .. n |-> [acc \in V |-> InsertPart(acc, Split(p)[i])]]
           IsIter(iter) == iter = [S \in SUBSET DOMAIN Split(p) |->
             IF S = {} THEN map ELSE InsertPart(iter[S \ {Max(S)}], Split(p)[Max(S)])]
<1>0. n \in Nat /\ DOMAIN Split(p) = 1 .. n /\ map \in V
  OBVIOUS
<1>a. ASSUME NEW i \in 1 .. n, NEW acc \in V PROVE InsertPart(acc, Split(p)[i]) \in V
  BY InsertPartType
<1>1. G \in [1 .. n -> [V -> V]]
  <2> HIDE DEF n, V
  <2> QED
    BY <1>a
<1>2. ParseParams(map, p) = (CHOOSE g : IsIter(g))[DOMAIN Split(p)]
  BY DEF ParseParams, FoldLeft, MapThenFoldSet
<1> HIDE DEF n, V
<1>3. PICK g \in [SUBSET (1 .. n) -> V] : IsLoop(g, n, map, G)
  <2> HIDE DEF G, IsIter
  <2> QED
    BY <1>0, <1>1, LoopExists, Zenon
<1>4. IsIter(g)
  <2>1. ASSUME NEW S \in SUBSET (1 .. n), S # {}
        PROVE  G[Max(S)][g[S \ {Max(S)}]] = InsertPart(g[S \ {Max(S)}], Split(p)[Max(S)])
    <3>1. Max(S) \in 1 .. n /\ S \ {Max(S)} \in SUBSET (1 .. n)
      BY <1>0, <2>1, MaxIsIn
    <3>2. g[S \ {Max(S)}] \in V
      BY <1>3, <3>1
    <3> QED
      BY <3>1, <3>2
  <2> HIDE DEF G
  <2>2. [S \in SUBSET (1 .. n) |-> IF S = {} THEN map ELSE G[Max(S)][g[S \ {Max(S)}]]]
        = [S \in SUBSET (1 .. n) |->
             IF S = {} THEN map ELSE InsertPart(g[S \ {Max(S)}], Split(p)[Max(S)])]
    BY <2>1
  <2> QED
    BY <1>0, <1>3, <2>2, Zenon DEF IsLoop
<1>5. PICK iter : IsIter(iter) /\ ParseParams(map, p) = iter[1 .. n]
  <2> HIDE DEF IsIter
  <2> QED
    BY <1>0, <1>2, <1>4, Zenon
<1>6. /\ iter[{}] = map
      /\ \A S \in SUBSET (1 .. n) : S # {} => iter[S] = InsertPart(iter[S \ {Max(S)}], Split(p)[Max(S)])
  <2>1. \A S \in SUBSET (1 .. n) :
          iter[S] = IF S = {} THEN map ELSE InsertPart(iter[S \ {Max(S)}], Split(p)[Max(S)])
    BY <1>0, <1>5
  <2> QED
    BY <2>1
<1>7. ASSUME NEW S \in SUBSET (1 .. n), S # {}, iter[S \ {Max(S)}] \in V
      PROVE  iter[S] = G[Max(S)][iter[S \ {Max(S)}]]
  <2>1. Max(S) \in 1 .. n
    BY <1>0, <1>7, MaxIsIn
  <2>2. iter[S] = InsertPart(iter[S \ {Max(S)}], Split(p)[Max(S)])
    BY <1>6, <1>7, Zenon
  <2> QED
    BY <1>7, <2>1, <2>2
<1>8. \A i \in 1 .. n : \A acc \in V : G[i][acc] = InsertPart(acc, Split(p)[i])
  OBVIOUS
<1> HIDE DEF G, IsIter
<1>b. Iterates(iter, n, V, map, G)
  <2>1. iter[{}] = map
    BY <1>6
  <2>2. \A S \in SUBSET (1 .. n) :
          S # {} /\ iter[S \ {Max(S)}] \in V => iter[S] = G[Max(S)][iter[S \ {Max(S)}]]
    BY <1>7, Zenon
  <2> QED
    BY <2>1, <2>2, Zenon DEF Iterates
<1>9. PICK h \in [0 .. n -> V] : IsRounds(h, iter, n, map, G)
  <2>1. /\ n \in Nat /\ map \in V /\ G \in [1 .. n -> [V -> V]]
        /\ Iterates(iter, n, V, map, G)
    BY <1>0, <1>1, <1>b
  <2> QED
    BY <2>1, LoopRounds, Zenon
<1>10. \A i \in 1 .. n : h[i] = InsertPart(h[i - 1], Split(p)[i])
  <2> SUFFICES ASSUME NEW i \in 1 .. n PROVE h[i] = InsertPart(h[i - 1], Split(p)[i])
    OBVIOUS
  <2>1. h[i - 1] \in V
    BY <1>0, <1>9
  <2> QED
    BY <1>8, <1>9, <2>1 DEF IsRounds
<1>11. h[0] = map /\ ParseParams(map, p) = h[n]
  BY <1>5, <1>9 DEF IsRounds
<1> QED
  BY <1>9, <1>10, <1>11 DEF n, V, ParamsRounds

(* The last part grows by a character; three make a key and a value.       *)
LEMMA LastGrows ==
  ASSUME NEW C, NEW q \in Seq(Seq(C)), NEW w \in Seq(C), NEW c \in C, c # "&"
  PROVE  AddChar(Append(q, w), c) = Append(q, Append(w, c))
<1> DEFINE a == Append(q, w)  n == Len(q)  b == Append(q, Append(w, c))
<1>1. /\ a \in Seq(Seq(C)) /\ n \in Nat /\ Len(a) = n + 1 /\ a[n + 1] = w
      /\ \A x \in 1 .. n : a[x] = q[x]
  OBVIOUS
<1>2. Append(w, c) \in Seq(C)
  OBVIOUS
<1>3. /\ b \in Seq(Seq(C)) /\ Len(b) = n + 1 /\ b[n + 1] = Append(w, c)
      /\ \A x \in 1 .. n : b[x] = q[x]
  BY <1>2
<1>4. AddChar(a, c) = [a EXCEPT ![n + 1] = Append(w, c)]
  BY <1>1 DEF AddChar
<1> HIDE DEF a, b
<1> DEFINE e == [a EXCEPT ![n + 1] = Append(w, c)]
<1>5. e \in [1 .. n + 1 -> Seq(C)] /\ e[n + 1] = Append(w, c) /\ \A x \in 1 .. n : e[x] = a[x]
  BY <1>1, <1>2
<1> HIDE DEF e
<1>6. e \in Seq(Seq(C)) /\ Len(e) = n + 1
  <2> DEFINE D == Seq(C)
  <2>1. e \in [1 .. n + 1 -> D] /\ n + 1 \in Nat
    BY <1>1, <1>5
  <2> HIDE DEF D, n
  <2>2. e \in Seq(D) /\ Len(e) = n + 1
    BY <2>1
  <2> QED
    BY <2>2 DEF D
<1>7. ASSUME NEW x \in 1 .. n + 1 PROVE e[x] = b[x]
  <2>1. x = n + 1 \/ x \in 1 .. n
    BY <1>1
  <2> QED
    BY <1>1, <1>3, <1>5, <2>1
<1>8. e = b
  BY <1>3, <1>6, <1>7, SameSeq
<1> QED
  BY <1>4, <1>8 DEF a, b, e

Appends(t, C, s, c) ==
  /\ t \in Seq(C) /\ Len(t) = Len(s) + 1 /\ t[Len(s) + 1] = c
  /\ \A x \in 1 .. Len(s) : t[x] = s[x]

LEMMA AppendIs ==
  ASSUME NEW C, NEW s \in Seq(C), NEW c \in C
  PROVE  Appends(Append(s, c), C, s, c)
  BY DEF Appends

LEMMA ThreeGrow ==
  ASSUME NEW C, NEW q \in Seq(Seq(C)), NEW k \in C, NEW e \in C, NEW v \in C,
         k # "&", e = "=", v # "&"
  PROVE  AddChar(AddChar(AddChar(Append(q, <<>>), k), e), v) = Append(q, KeyValue(k, v))
<1> DEFINE k0 == <<>>  k1 == Append(k0, k)  k2 == Append(k1, e)  k3 == Append(k2, v)
<1>1. k0 \in Seq(C) /\ e # "&"
  OBVIOUS
<1> HIDE DEF k0
<1>2. k1 \in Seq(C)
  BY <1>1
<1>3. AddChar(Append(q, k0), k) = Append(q, k1)
  BY <1>1, LastGrows
<1> HIDE DEF k1
<1>4. k2 \in Seq(C)
  BY <1>2
<1>5. AddChar(Append(q, k1), e) = Append(q, k2)
  BY <1>1, <1>2, LastGrows
<1> HIDE DEF k2
<1>6. AddChar(Append(q, k2), v) = Append(q, k3)
  BY <1>4, LastGrows
<1>7. k3 = KeyValue(k, v)
  <2>1. k1 \in Seq(C) /\ Len(k1) = 1 /\ k1[1] = k
    BY DEF k1, k0
  <2>2. k2 \in Seq(C) /\ Len(k2) = 2 /\ k2[1] = k /\ k2[2] = e
    <3>1. 1 \in 1 .. Len(k1)
      BY <2>1
    <3>2. k2 \in Seq(C) /\ Len(k2) = Len(k1) + 1 /\ k2[Len(k1) + 1] = e /\ \A x \in 1 .. Len(k1) : k2[x] = k1[x]
      <4>1. Appends(k2, C, k1, e)
        BY <2>1, AppendIs, Zenon DEF k2
      <4> QED
        BY <4>1 DEF Appends
    <3> QED
      BY <2>1, <3>1, <3>2
  <2>3. k3 \in Seq(C) /\ Len(k3) = 3 /\ k3[1] = k /\ k3[2] = e /\ k3[3] = v
    <3>1. 1 \in 1 .. Len(k2) /\ 2 \in 1 .. Len(k2)
      BY <2>2
    <3>2. k3 \in Seq(C) /\ Len(k3) = Len(k2) + 1 /\ k3[Len(k2) + 1] = v /\ \A x \in 1 .. Len(k2) : k3[x] = k2[x]
      <4>1. Appends(k3, C, k2, v)
        BY <2>2, AppendIs, Zenon
      <4> HIDE DEF k3
      <4> QED
        BY <4>1 DEF Appends
    <3> HIDE DEF k3
    <3> QED
      BY <2>2, <3>1, <3>2
  <2> HIDE DEF k3
  <2> DEFINE z == <<k, e, v>>
  <2>4. z \in Seq(C) /\ Len(z) = 3 /\ z[1] = k /\ z[2] = e /\ z[3] = v
    OBVIOUS
  <2>5. \A x \in 1 .. 3 : x = 1 \/ x = 2 \/ x = 3
    OBVIOUS
  <2> HIDE DEF z
  <2>6. k3 = z
    BY <2>3, <2>4, <2>5, SameSeq
  <2> QED
    BY <2>6 DEF z, KeyValue
<1> QED
  BY <1>3, <1>5, <1>6, <1>7 DEF k0

(* Keys and values one behind the other.                                   *)
LayOut(p, n, KS, VS) ==
  /\ p \in Seq(Char) /\ Len(p) = 4 * n - 1
  /\ \A i \in 1 .. n : /\ p[4 * i - 3] = KS[i] /\ p[4 * i - 2] = "=" /\ p[4 * i - 1] = VS[i]
                      /\ KS[i] \in Char \ {"&", "="} /\ VS[i] \in Char \ {"&"}
  /\ \A i \in 1 .. n - 1 : p[4 * i] = "&"
Pairs(n, KS, VS) == [i \in 1 .. n |-> KeyValue(KS[i], VS[i])]

LEMMA SplitIs ==
  ASSUME NEW p, NEW n \in Nat \ {0}, NEW KS, NEW VS, LayOut(p, n, KS, VS)
  PROVE  Split(p) = Pairs(n, KS, VS)
<1> DEFINE S == Seq(Char)
<1>1. /\ p \in Seq(Char) /\ Len(p) = 4 * n - 1
      /\ \A i \in 1 .. n : /\ p[4 * i - 3] = KS[i] /\ p[4 * i - 2] = "=" /\ p[4 * i - 1] = VS[i]
                          /\ KS[i] \in Char \ {"&", "="} /\ VS[i] \in Char \ {"&"}
      /\ \A i \in 1 .. n - 1 : p[4 * i] = "&"
  BY DEF LayOut
<1>2. PICK h \in [0 .. Len(p) -> PartsSet] : SplitRounds(h, p)
  BY <1>1, SplitLoop
<1>3. /\ h[0] = << <<>> >> /\ Split(p) = h[4 * n - 1]
      /\ \A i \in 1 .. 4 * n - 1 : h[i] = AddChar(h[i - 1], p[i])
  BY <1>1, <1>2 DEF SplitRounds
<1>4. "=" \in Char
  <2>1. 2 \in 1 .. Len(p) /\ 1 \in 1 .. n /\ 4 * 1 - 2 = 2
    BY <1>1
  <2>2. p[2] \in Char
    BY <1>1, <2>1
  <2>3. p[2] = "="
    BY <1>1, <2>1
  <2> QED
    BY <2>2, <2>3
<1> HIDE DEF S
<1>5. \A i \in 1 .. n : KeyValue(KS[i], VS[i]) \in S
  BY <1>1, <1>4 DEF KeyValue, S
<1>6. ASSUME NEW i \in 0 .. n PROVE Pairs(i, KS, VS) \in Seq(S)
  <2>1. \A x \in 1 .. i : KeyValue(KS[x], VS[x]) \in S
    BY <1>5
  <2> QED
    BY <2>1 DEF Pairs
<1>7. \A i \in 0 .. n - 1 : Pairs(i + 1, KS, VS) = Append(Pairs(i, KS, VS), KeyValue(KS[i + 1], VS[i + 1]))
  <2> SUFFICES ASSUME NEW i \in 0 .. n - 1
               PROVE  Pairs(i + 1, KS, VS) = Append(Pairs(i, KS, VS), KeyValue(KS[i + 1], VS[i + 1]))
    OBVIOUS
  <2>0. i \in Nat /\ \A x \in 1 .. i + 1 : KeyValue(KS[x], VS[x]) \in S
    BY <1>5
  <2> DEFINE s == Pairs(i, KS, VS)  t == Pairs(i + 1, KS, VS)
             z == KeyValue(KS[i + 1], VS[i + 1])
  <2>1. s \in [1 .. i -> S] /\ t \in [1 .. i + 1 -> S] /\ z \in S
    BY <2>0 DEF Pairs
  <2>2. s \in Seq(S) /\ Len(s) = i /\ t \in Seq(S) /\ Len(t) = i + 1
    BY <2>1
  <2>3. t[i + 1] = z /\ \A x \in 1 .. i : t[x] = s[x]
    BY DEF Pairs
  <2> HIDE DEF s, t, z
  <2>4. /\ Append(s, z) \in Seq(S) /\ Len(Append(s, z)) = i + 1 /\ Append(s, z)[i + 1] = z
        /\ \A x \in 1 .. i : Append(s, z)[x] = s[x]
    BY <2>1, <2>2
  <2>5. ASSUME NEW x \in 1 .. i + 1 PROVE t[x] = Append(s, z)[x]
    <3>1. x = i + 1 \/ x \in 1 .. i
      OBVIOUS
    <3> QED
      BY <2>3, <2>4, <3>1
  <2>6. t = Append(s, z)
    BY <2>2, <2>4, <2>5, SameSeq
  <2> QED
    BY <2>6 DEF s, t, z
<1>8. ASSUME NEW i \in 0 .. n - 1, h[4 * i] = Append(Pairs(i, KS, VS), <<>>)
      PROVE  h[4 * i + 3] = Pairs(i + 1, KS, VS)
  <2>1. /\ i + 1 \in 1 .. n /\ i \in 0 .. n
        /\ 4 * i + 1 \in 1 .. 4 * n - 1 /\ 4 * i + 2 \in 1 .. 4 * n - 1 /\ 4 * i + 3 \in 1 .. 4 * n - 1
        /\ (4 * i + 1) - 1 = 4 * i /\ (4 * i + 2) - 1 = 4 * i + 1 /\ (4 * i + 3) - 1 = 4 * i + 2
        /\ 4 * (i + 1) - 3 = 4 * i + 1 /\ 4 * (i + 1) - 2 = 4 * i + 2 /\ 4 * (i + 1) - 1 = 4 * i + 3
    OBVIOUS
  <2>2. h[4 * i + 3] = AddChar(AddChar(AddChar(h[4 * i], p[4 * i + 1]), p[4 * i + 2]), p[4 * i + 3])
    BY <1>3, <2>1
  <2>3. /\ p[4 * i + 1] = KS[i + 1] /\ p[4 * i + 2] = "=" /\ p[4 * i + 3] = VS[i + 1]
        /\ KS[i + 1] \in Char \ {"&", "="} /\ VS[i + 1] \in Char \ {"&"}
    BY <1>1, <2>1
  <2>4. Pairs(i, KS, VS) \in Seq(Seq(Char))
    BY <1>6, <2>1 DEF S
  <2>5. AddChar(AddChar(AddChar(Append(Pairs(i, KS, VS), <<>>), KS[i + 1]), "="), VS[i + 1])
        = Append(Pairs(i, KS, VS), KeyValue(KS[i + 1], VS[i + 1]))
    BY <1>4, <2>3, <2>4, ThreeGrow
  <2> QED
    BY <1>7, <1>8, <2>2, <2>3, <2>5
<1> DEFINE T == {i \in 0 .. n - 1 : h[4 * i] = Append(Pairs(i, KS, VS), <<>>)}
<1>9. 0 \in T
  <2>1. Pairs(0, KS, VS) = <<>>
    BY DEF Pairs
  <2>2. Append(<<>>, <<>>) = << <<>> >> /\ 4 * 0 = 0 /\ 0 \in 0 .. n - 1
    OBVIOUS
  <2> QED
    BY <1>3, <2>1, <2>2
<1>10. \A i \in 0 .. n - 1 : i \in T /\ i < n - 1 => i + 1 \in T
  <2> SUFFICES ASSUME NEW i \in 0 .. n - 1, i \in T, i < n - 1 PROVE i + 1 \in T
    OBVIOUS
  <2>1. h[4 * i + 3] = Pairs(i + 1, KS, VS)
    BY <1>8
  <2>2. 4 * (i + 1) \in 1 .. 4 * n - 1 /\ 4 * (i + 1) - 1 = 4 * i + 3 /\ i + 1 \in 1 .. n - 1 /\ i + 1 \in 0 .. n - 1
    OBVIOUS
  <2>3. h[4 * (i + 1)] = AddChar(h[4 * i + 3], "&")
    BY <1>1, <1>3, <2>2
  <2>4. h[4 * (i + 1)] = Append(Pairs(i + 1, KS, VS), <<>>)
    BY <2>1, <2>3 DEF AddChar
  <2> QED
    BY <2>2, <2>4
<1> HIDE DEF T
<1>11. n - 1 \in T
  <2>1. n - 1 \in Nat /\ n - 1 \in 0 .. n - 1
    OBVIOUS
  <2>2. \A i \in 0 .. n - 1 : i \in T
    BY <1>9, <1>10, <2>1, Upwards, Zenon
  <2> QED
    BY <2>1, <2>2
<1>12. h[4 * (n - 1)] = Append(Pairs(n - 1, KS, VS), <<>>) /\ n - 1 \in 0 .. n - 1
  BY <1>11 DEF T
<1>13. 4 * (n - 1) + 3 = 4 * n - 1 /\ (n - 1) + 1 = n
  OBVIOUS
<1> QED
  BY <1>3, <1>8, <1>12, <1>13

(* What is looked up after the insertion: what the map had before, or the  *)
(* value of the first part with the key.                                   *)
FirstAt(f, q, n, KS) == f \in 1 .. n /\ KS[f] = q /\ \A j \in 1 .. f - 1 : KS[j] # q
Lacks(q, n, KS) == \A j \in 1 .. n : KS[j] # q

LEMMA FirstExists ==
  ASSUME NEW n \in Nat, NEW q, NEW KS
  PROVE  Lacks(q, n, KS) \/ \E f : FirstAt(f, q, n, KS)
<1> SUFFICES ASSUME NEW j \in 1 .. n, KS[j] = q PROVE \E f : FirstAt(f, q, n, KS)
  BY DEF Lacks
<1> DEFINE S == {x \in 1 .. n : KS[x] = q}
<1>1. S # {} /\ S \in SUBSET (0 .. n)
  OBVIOUS
<1>2. PICK f \in S : \A x \in S : f <= x
  <2> HIDE DEF S
  <2> QED
    BY <1>1, LeastExists
<1>3. ASSUME NEW x \in 1 .. f - 1 PROVE KS[x] # q
  <2>1. x \in 1 .. n /\ ~(f <= x)
    BY <1>2
  <2> QED
    BY <1>2, <2>1
<1> QED
  BY <1>2, <1>3 DEF FirstAt

Looked(M, map, q, n, KS, VS) ==
  /\ M \in Maps
  /\ <<q>> \in DOMAIN map => <<q>> \in DOMAIN M /\ M[<<q>>] = map[<<q>>]
  /\ <<q>> \notin DOMAIN map =>
       /\ \A f : FirstAt(f, q, n, KS) => <<q>> \in DOMAIN M /\ M[<<q>>] = <<VS[f]>>
       /\ Lacks(q, n, KS) => <<q>> \notin DOMAIN M

LEMMA LookedStep ==
  ASSUME NEW map, NEW q, NEW KS, NEW VS, NEW i \in Nat, NEW M, Looked(M, map, q, i, KS, VS),
         KS[i + 1] \in Char \ {"&", "="}, VS[i + 1] \in Char \ {"&"}
  PROVE  Looked(InsertPart(M, KeyValue(KS[i + 1], VS[i + 1])), map, q, i + 1, KS, VS)
<1> DEFINE k == KS[i + 1]  v == VS[i + 1]  N == Insert(M, <<k>>, <<v>>)
<1>1. M \in Maps /\ <<k>> \in Seq(Char) /\ <<v>> \in Seq(Char)
  <2>1. k \in Char /\ v \in Char
    OBVIOUS
  <2> HIDE DEF Char
  <2> QED
    BY <2>1 DEF Looked
<1>2. InsertPart(M, KeyValue(k, v)) = N
  BY InsertPartIs
<1> HIDE DEF k, v
<1>3. /\ N \in Maps /\ DOMAIN N = DOMAIN M \cup {<<k>>}
      /\ \A z \in DOMAIN M : N[z] = M[z]
      /\ <<k>> \notin DOMAIN M => N[<<k>>] = <<v>>
  BY <1>1, InsertIs
<1> HIDE DEF N
<1>4. ASSUME <<q>> \in DOMAIN map PROVE <<q>> \in DOMAIN N /\ N[<<q>>] = map[<<q>>]
  BY <1>3, <1>4 DEF Looked
<1>5. ASSUME <<q>> \notin DOMAIN map, NEW f, FirstAt(f, q, i + 1, KS)
      PROVE  <<q>> \in DOMAIN N /\ N[<<q>>] = <<VS[f]>>
  <2>1. f \in 1 .. i + 1 /\ KS[f] = q /\ \A j \in 1 .. f - 1 : KS[j] # q
    BY <1>5 DEF FirstAt
  <2>2. CASE f = i + 1
    <3>1. k = q /\ v = VS[f] /\ \A j \in 1 .. i : j \in 1 .. f - 1
      BY <2>1, <2>2 DEF k, v
    <3>2. Lacks(q, i, KS)
      BY <2>1, <3>1 DEF Lacks
    <3>3. <<q>> \notin DOMAIN M
      BY <1>5, <3>2 DEF Looked
    <3> QED
      BY <1>3, <3>1, <3>3
  <2>3. CASE f # i + 1
    <3>1. f \in 1 .. i
      BY <2>1, <2>3
    <3>2. FirstAt(f, q, i, KS)
      BY <2>1, <3>1 DEF FirstAt
    <3> QED
      BY <1>3, <1>5, <3>2 DEF Looked
  <2> QED
    BY <2>2, <2>3
<1>6. ASSUME <<q>> \notin DOMAIN map, Lacks(q, i + 1, KS) PROVE <<q>> \notin DOMAIN N
  <2>1. k # q /\ \A j \in 1 .. i : KS[j] # q
    <3>1. i + 1 \in 1 .. i + 1 /\ \A j \in 1 .. i : j \in 1 .. i + 1
      OBVIOUS
    <3> QED
      BY <1>6, <3>1 DEF Lacks, k
  <2>2. <<q>> \notin DOMAIN M
    BY <1>6, <2>1 DEF Lacks, Looked
  <2>3. <<q>> # <<k>>
    BY <2>1
  <2> QED
    BY <1>3, <2>2, <2>3
<1>7. Looked(N, map, q, i + 1, KS, VS)
  BY <1>3, <1>4, <1>5, <1>6 DEF Looked
<1> QED
  BY <1>2, <1>7 DEF k, v

LEMMA ParamsAre ==
  ASSUME NEW map \in Maps, NEW p, NEW n \in Nat \ {0}, NEW KS, NEW VS, LayOut(p, n, KS, VS), NEW q
  PROVE  Looked(ParseParams(map, p), map, q, n, KS, VS)
<1>1. /\ p \in Seq(Char)
      /\ \A i \in 1 .. n : KS[i] \in Char \ {"&", "="} /\ VS[i] \in Char \ {"&"}
  BY DEF LayOut
<1>2. Split(p) = Pairs(n, KS, VS)
  BY SplitIs
<1>3. Split(p) \in Seq(KeyValues) /\ Len(Split(p)) = n /\ \A i \in 1 .. n : Split(p)[i] = KeyValue(KS[i], VS[i])
  <2>1. \A i \in 1 .. n : KeyValue(KS[i], VS[i]) \in KeyValues
    BY <1>1 DEF KeyValues
  <2>2. Pairs(n, KS, VS) \in [1 .. n -> KeyValues]
    BY <2>1 DEF Pairs
  <2>3. \A i \in 1 .. n : Pairs(n, KS, VS)[i] = KeyValue(KS[i], VS[i])
    BY DEF Pairs
  <2> QED
    BY <1>2, <2>2, <2>3
<1>4. PICK h \in [0 .. Len(Split(p)) -> Maps] : ParamsRounds(h, map, p)
  BY <1>3, ParamsLoop
<1>5. /\ h[0] = map /\ ParseParams(map, p) = h[n]
      /\ \A i \in 1 .. n : h[i] = InsertPart(h[i - 1], KeyValue(KS[i], VS[i]))
  BY <1>3, <1>4 DEF ParamsRounds
<1> DEFINE T == {i \in 0 .. n : Looked(h[i], map, q, i, KS, VS)}
<1>6. 0 \in T
  <2>1. Lacks(q, 0, KS) /\ \A f : ~FirstAt(f, q, 0, KS)
    BY DEF Lacks, FirstAt
  <2>2. Looked(map, map, q, 0, KS, VS)
    BY <2>1 DEF Looked
  <2> QED
    BY <1>5, <2>2
<1>7. \A i \in 0 .. n : i \in T /\ i < n => i + 1 \in T
  <2> SUFFICES ASSUME NEW i \in 0 .. n, i \in T, i < n PROVE i + 1 \in T
    OBVIOUS
  <2>1. i \in Nat /\ i + 1 \in 1 .. n /\ i + 1 \in 0 .. n /\ (i + 1) - 1 = i /\ Looked(h[i], map, q, i, KS, VS)
    OBVIOUS
  <2>2. KS[i + 1] \in Char \ {"&", "="} /\ VS[i + 1] \in Char \ {"&"}
    BY <1>1, <2>1
  <2>3. Looked(InsertPart(h[i], KeyValue(KS[i + 1], VS[i + 1])), map, q, i + 1, KS, VS)
    BY <2>1, <2>2, LookedStep
  <2>4. h[i + 1] = InsertPart(h[i], KeyValue(KS[i + 1], VS[i + 1]))
    BY <1>5, <2>1
  <2> QED
    BY <2>1, <2>3, <2>4
<1> HIDE DEF T
<1>8. n \in T
  <2>1. n \in Nat /\ n \in 0 .. n
    OBVIOUS
  <2>2. \A i \in 0 .. n : i \in T
    BY <1>6, <1>7, <2>1, Upwards, Zenon
  <2> QED
    BY <2>1, <2>2
<1> QED
  BY <1>5, <1>8 DEF T

(* The keys and the values of the URI of a command.                        *)
KeysOf(u, n) == [i \in 1 .. n |-> u[4 * i - 1]]
ValuesOf(u, n) == [i \in 1 .. n |-> u[4 * i + 1]]
KeyedBy(u, n) ==
  /\ n \in Nat \ {0} /\ Len(u) = 4 * n + 1
  /\ \A i \in 1 .. n : /\ u[4 * i - 2] = IF i = 1 THEN "?" ELSE "&"
                      /\ u[4 * i - 1] \notin {"&", "="} /\ u[4 * i] = "="
                      /\ u[4 * i + 1] \notin {"&", "cmd", "N"}

LEMMA KeyedLaysOut ==
  ASSUME NEW u \in Seq(Char), NEW n, KeyedBy(u, n)
  PROVE  LayOut(SubSeq(u, 3, Len(u)), n, KeysOf(u, n), ValuesOf(u, n))
<1> DEFINE p == SubSeq(u, 3, Len(u))  m == 4 * n - 1
<1>1. /\ n \in Nat \ {0} /\ Len(u) = 4 * n + 1
      /\ \A i \in 1 .. n : /\ u[4 * i - 2] = IF i = 1 THEN "?" ELSE "&"
                          /\ u[4 * i - 1] \notin {"&", "="} /\ u[4 * i] = "="
                          /\ u[4 * i + 1] \notin {"&", "cmd", "N"}
  BY DEF KeyedBy
<1>2. MiddleAt(p, u, 2, m)
  <2>1. 2 \in Nat /\ m \in Nat /\ 2 + m <= Len(u) /\ 2 + 1 = 3 /\ 2 + m = Len(u)
    BY <1>1
  <2>2. MiddleAt(SubSeq(u, 2 + 1, 2 + m), u, 2, m)
    BY <2>1, MiddleHas
  <2> QED
    BY <2>1, <2>2
<1> HIDE DEF p, m
<1>3. p \in Seq(Char) /\ Len(p) = 4 * n - 1 /\ \A x \in 1 .. 4 * n - 1 : p[x] = u[2 + x]
  BY <1>2 DEF MiddleAt, m
<1>4. ASSUME NEW i \in 1 .. n
      PROVE  /\ p[4 * i - 3] = u[4 * i - 1] /\ p[4 * i - 2] = u[4 * i] /\ p[4 * i - 1] = u[4 * i + 1]
             /\ 4 * i - 1 \in 1 .. Len(u) /\ 4 * i + 1 \in 1 .. Len(u)
  <2>1. /\ 4 * i - 3 \in 1 .. 4 * n - 1 /\ 2 + (4 * i - 3) = 4 * i - 1
        /\ 4 * i - 2 \in 1 .. 4 * n - 1 /\ 2 + (4 * i - 2) = 4 * i
        /\ 4 * i - 1 \in 1 .. 4 * n - 1 /\ 2 + (4 * i - 1) = 4 * i + 1
        /\ 4 * i - 1 \in 1 .. 4 * n + 1 /\ 4 * i + 1 \in 1 .. 4 * n + 1
    BY <1>1
  <2>2. /\ p[4 * i - 3] = u[2 + (4 * i - 3)] /\ p[4 * i - 2] = u[2 + (4 * i - 2)]
        /\ p[4 * i - 1] = u[2 + (4 * i - 1)]
    BY ONLY <1>3, <2>1
  <2> QED
    BY ONLY <1>1, <2>1, <2>2
<1>5. ASSUME NEW i \in 1 .. n - 1 PROVE p[4 * i] = "&"
  <2>1. 4 * i \in 1 .. 4 * n - 1 /\ 2 + 4 * i = 4 * (i + 1) - 2 /\ i + 1 \in 1 .. n /\ i + 1 # 1
    BY <1>1
  <2>2. u[4 * (i + 1) - 2] = "&"
    BY <1>1, <2>1
  <2>3. p[4 * i] = u[2 + 4 * i]
    BY <1>3, <2>1
  <2> QED
    BY <2>1, <2>2, <2>3
<1>6. ASSUME NEW i \in 1 .. n
      PROVE  /\ p[4 * i - 3] = KeysOf(u, n)[i] /\ p[4 * i - 2] = "=" /\ p[4 * i - 1] = ValuesOf(u, n)[i]
             /\ KeysOf(u, n)[i] \in Char \ {"&", "="} /\ ValuesOf(u, n)[i] \in Char \ {"&"}
  <2>1. KeysOf(u, n)[i] = u[4 * i - 1] /\ ValuesOf(u, n)[i] = u[4 * i + 1]
    BY DEF KeysOf, ValuesOf
  <2>2. u[4 * i - 1] \in Char /\ u[4 * i + 1] \in Char
    BY <1>4
  <2> HIDE DEF Char
  <2>3. u[4 * i - 1] \notin {"&", "="} /\ u[4 * i] = "=" /\ u[4 * i + 1] \notin {"&", "cmd", "N"}
    BY <1>1
  <2> QED
    BY <1>4, <2>1, <2>2, <2>3
<1> QED
  BY <1>3, <1>5, <1>6 DEF p, LayOut

(* A parameter is the value of the first of its keys.                      *)
LEMMA ParameterIs ==
  ASSUME NEW r, r.uri \in Seq(Char), NEW n, KeyedBy(r.uri, n), NEW q, q \in {"cmd", "N"}
  PROVE  /\ \A f : FirstAt(f, q, n, KeysOf(r.uri, n)) => Parameter(r, q) = ValuesOf(r.uri, n)[f]
         /\ Lacks(q, n, KeysOf(r.uri, n)) => Parameter(r, q) = ""
<1> DEFINE u == r.uri  KS == KeysOf(u, n)  I == {x \in 2 .. Len(u) : u[x] = q}
<1>1. /\ n \in Nat \ {0} /\ Len(u) = 4 * n + 1
      /\ \A i \in 1 .. n : /\ u[4 * i - 2] = IF i = 1 THEN "?" ELSE "&"
                          /\ u[4 * i - 1] \notin {"&", "="} /\ u[4 * i] = "="
                          /\ u[4 * i + 1] \notin {"&", "cmd", "N"}
  BY DEF KeyedBy
<1>2. ASSUME NEW x \in I PROVE \E j \in 1 .. n : x = 4 * j - 1 /\ KS[j] = q
  <2>1. x \in 2 .. 4 * n + 1 /\ u[x] = q
    BY <1>1
  <2> DEFINE j == (x + 2) \div 4
  <2>2. /\ j \in 1 .. n
        /\ x = 4 * j - 2 \/ x = 4 * j - 1 \/ x = 4 * j \/ x = 4 * j + 1
    BY <1>1, <2>1
  <2> HIDE DEF j
  <2>3. x = 4 * j - 1
    BY ONLY <1>1, <2>1, <2>2, q \in {"cmd", "N"}
  <2>4. KS[j] = q
    BY <2>1, <2>2, <2>3 DEF KeysOf
  <2> QED
    BY <2>2, <2>3, <2>4
<1>3. ASSUME NEW j \in 1 .. n, KS[j] = q PROVE 4 * j - 1 \in I
  <2>1. 4 * j - 1 \in 2 .. 4 * n + 1
    BY <1>1
  <2>2. u[4 * j - 1] = q
    BY <1>3 DEF KeysOf
  <2> QED
    BY <1>1, <2>1, <2>2
<1>4. Parameter(r, q) = LET i == IF I # {} THEN Min(I) ELSE 0 IN IF i = 0 THEN "" ELSE u[i + 2]
  BY DEF Parameter, SelectInSubSeq
<1>5. I \subseteq Nat
  BY <1>1
<1> HIDE DEF I
<1>6. ASSUME NEW f, FirstAt(f, q, n, KS) PROVE Parameter(r, q) = ValuesOf(u, n)[f]
  <2>1. f \in 1 .. n /\ KS[f] = q /\ \A j \in 1 .. f - 1 : KS[j] # q
    BY <1>6 DEF FirstAt
  <2>2. 4 * f - 1 \in I
    BY <1>3, <2>1
  <2>3. ASSUME NEW x \in I PROVE 4 * f - 1 <= x
    <3>1. PICK j \in 1 .. n : x = 4 * j - 1 /\ KS[j] = q
      BY <1>2
    <3>2. ~(j \in 1 .. f - 1)
      BY <2>1, <3>1
    <3>3. f \in Nat /\ j \in Nat /\ f <= j
      BY <1>1, <2>1, <3>2
    <3> QED
      BY <3>1, <3>3
  <2>4. Min(I) = 4 * f - 1
    <3>1. \A x \in I : (\A y \in I : x <= y) => x = 4 * f - 1
      <4> SUFFICES ASSUME NEW x \in I, \A y \in I : x <= y PROVE x = 4 * f - 1
        OBVIOUS
      <4>1. x <= 4 * f - 1 /\ 4 * f - 1 <= x /\ x \in Nat /\ 4 * f - 1 \in Nat
        BY <1>5, <2>2, <2>3
      <4> QED
        BY <4>1
    <3> QED
      BY <2>2, <2>3, <3>1 DEF Min
  <2>5. 4 * f - 1 # 0 /\ (4 * f - 1) + 2 = 4 * f + 1
    BY <1>1, <2>1
  <2>6. Parameter(r, q) = u[4 * f + 1]
    BY <1>4, <2>2, <2>4, <2>5
  <2> QED
    BY <2>1, <2>6 DEF ValuesOf
<1>7. ASSUME Lacks(q, n, KS) PROVE Parameter(r, q) = ""
  <2>1. I = {}
    BY <1>2, <1>7 DEF Lacks
  <2> QED
    BY <1>4, <2>1
<1> QED
  BY <1>6, <1>7

-----------------------------------------------------------------------------
(* What a command is answered                                              *)

NoParams == [k \in {} |-> <<>>]

(* A map shows a parameter of a request, or an empty value for none.       *)
Shown(m, r, q) ==
  /\ <<q>> \in DOMAIN m
  /\ m[<<q>>] = <<Parameter(r, q)>> \/ (m[<<q>>] = <<>> /\ Parameter(r, q) = "")

LEMMA EmptyMap ==
  NoParams \in Maps /\ DOMAIN NoParams = {}
<1> DEFINE D == {}
<1>1. NoParams \in [D -> Seq(Char)] /\ D \in SUBSET Seq(Char)
  BY DEF NoParams
<1>2. [D -> Seq(Char)] \in {[E -> Seq(Char)] : E \in SUBSET Seq(Char)}
  BY <1>1
<1> QED
  BY <1>1, <1>2 DEF Maps, NoParams

Inserted(N, m, key, value) ==
  /\ N \in Maps /\ DOMAIN N = DOMAIN m \cup {key}
  /\ \A z \in DOMAIN m : N[z] = m[z]
  /\ key \notin DOMAIN m => N[key] = value

LEMMA InsertedIs ==
  ASSUME NEW m \in Maps, NEW key \in Seq(Char), NEW value \in Seq(Char)
  PROVE  Inserted(Insert(m, key, value), m, key, value)
  BY InsertIs DEF Inserted

LEMMA ShownAfter ==
  ASSUME NEW r, r.uri \in Seq(Char), NEW n, KeyedBy(r.uri, n), NEW q, q \in {"cmd", "N"},
         NEW map, <<q>> \notin DOMAIN map,
         NEW M, Looked(M, map, q, n, KeysOf(r.uri, n), ValuesOf(r.uri, n))
  PROVE  Shown(Insert(M, <<q>>, <<>>), r, q)
<1> DEFINE N == Insert(M, <<q>>, <<>>)  KS == KeysOf(r.uri, n)  VS == ValuesOf(r.uri, n)
<1>1. /\ N \in Maps /\ DOMAIN N = DOMAIN M \cup {<<q>>}
      /\ \A z \in DOMAIN M : N[z] = M[z]
      /\ <<q>> \notin DOMAIN M => N[<<q>>] = <<>>
  <2>1. <<q>> \in Seq(Char) /\ <<>> \in Seq(Char) /\ M \in Maps
    <3>1. q \in Char
      BY DEF Char
    <3> HIDE DEF Char
    <3> QED
      BY <3>1 DEF Looked
  <2>2. Inserted(Insert(M, <<q>>, <<>>), M, <<q>>, <<>>)
    BY <2>1, InsertedIs, Zenon
  <2> QED
    BY <2>2 DEF Inserted
<1> HIDE DEF N
<1>2. n \in Nat
  BY DEF KeyedBy
<1>3. CASE Lacks(q, n, KS)
  <2>1. <<q>> \notin DOMAIN M
    BY <1>3 DEF Looked
  <2>2. Parameter(r, q) = ""
    BY <1>3, ParameterIs
  <2> QED
    BY <1>1, <2>1, <2>2 DEF Shown, N
<1>4. ASSUME NEW f, FirstAt(f, q, n, KS) PROVE Shown(N, r, q)
  <2>1. <<q>> \in DOMAIN M /\ M[<<q>>] = <<VS[f]>>
    BY <1>4 DEF Looked
  <2>2. Parameter(r, q) = VS[f]
    BY <1>4, ParameterIs
  <2> QED
    BY <1>1, <2>1, <2>2 DEF Shown
<1>5. Lacks(q, n, KS) \/ \E f : FirstAt(f, q, n, KS)
  <2> HIDE DEF KS
  <2> QED
    BY <1>2, FirstExists
<1> QED
  BY <1>3, <1>4, <1>5 DEF N

LEMMA AtoiIs ==
  ASSUME NEW m, NEW r, Shown(m, r, "N")
  PROVE  atoi(m[<<"N">>]) = IF Parameter(r, "N") \in Numbers THEN Parameter(r, "N") ELSE "0"
<1> DEFINE v == Parameter(r, "N")
<1>1. m[<<"N">>] = <<v>> \/ (m[<<"N">>] = <<>> /\ v = "")
  BY DEF Shown
<1> HIDE DEF v
<1>2. <<v>> # <<>> /\ <<v>>[1] = v
  OBVIOUS
<1>3. "" \notin Numbers
  BY DEF Numbers
<1>4. atoi(<<v>>) = IF v \in Numbers THEN v ELSE "0"
  BY <1>2 DEF atoi
<1>5. atoi(<<>>) = "0"
  BY DEF atoi
<1>6. CASE m[<<"N">>] = <<v>>
  BY <1>4, <1>6 DEF v
<1>7. CASE m[<<"N">>] = <<>> /\ v = ""
  BY <1>3, <1>5, <1>7, Zenon DEF v
<1> QED
  BY <1>1, <1>6, <1>7

(* How a command is looked up.                                             *)
LEMMA CommandIs ==
  ASSUME NEW r, r.uri \in Seq(Char), At(r.uri, 1, "/"), At(r.uri, 2, "?"),
         NEW p, p.ok, p.fMethod = "GET", p.fAbsoluteURI = r.uri
  PROVE  ProcessRequest(p) = ResponseCmd(SubSeq(r.uri, 3, Len(r.uri)))
<1>1. ProcessRequest(p) = ResponseGet(r.uri)
  BY DEF ProcessRequest
<1>2. r.uri # <<>> /\ r.uri # <<"/">>
  BY DEF At
<1> QED
  BY <1>1, <1>2 DEF ResponseGet

LEMMA KeyedIs ==
  ASSUME NEW u \in Seq(Char), Keyed(u)
  PROVE  \E n : KeyedBy(u, n)
<1>1. PICK n \in 1 .. Len(u) :
        /\ Len(u) = 4 * n + 1
        /\ \A i \in 1 .. n : /\ u[4 * i - 2] = IF i = 1 THEN "?" ELSE "&"
                            /\ u[4 * i - 1] \notin {"&", "="} /\ u[4 * i] = "="
                            /\ u[4 * i + 1] \notin {"&", "cmd", "N"}
  BY DEF Keyed
<1>2. n \in Nat \ {0}
  OBVIOUS
<1> QED
  BY <1>1, <1>2 DEF KeyedBy

(* The first command is answered as it is meant.                           *)
LEMMA FirstCommand ==
  ASSUME NEW r, r.uri \in Seq(Char), r.method = "GET", At(r.uri, 1, "/"), At(r.uri, 2, "?"), Keyed(r.uri),
         NEW p, p.ok, p.fMethod = "GET", p.fAbsoluteURI = r.uri, fParams = NoParams
  PROVE  /\ ProcessRequest(p).answer = Meant(r)
         /\ Meant(r).kind = "false" =>
              /\ ProcessRequest(p).fParams \in Maps /\ <<"cmd">> \in DOMAIN ProcessRequest(p).fParams
              /\ ProcessRequest(p).fParams[<<"cmd">>] # <<"get_hottest">>
<1> DEFINE u == r.uri  params == SubSeq(u, 3, Len(u))
           M == ParseParams(fParams, params)  C == WithCmd(params)  N == Insert(C, <<"N">>, <<>>)
<1>1. PICK n : KeyedBy(u, n)
  BY KeyedIs
<1>2. n \in Nat \ {0} /\ LayOut(params, n, KeysOf(u, n), ValuesOf(u, n))
  BY <1>1, KeyedLaysOut DEF KeyedBy
<1>3. fParams \in Maps /\ DOMAIN fParams = {}
  BY EmptyMap
<1>4. \A q : Looked(M, fParams, q, n, KeysOf(u, n), ValuesOf(u, n))
  <2> HIDE DEF params
  <2> QED
    BY <1>2, <1>3, ParamsAre
<1>5. C = Insert(M, <<"cmd">>, <<>>) /\ M \in Maps
  BY <1>4 DEF WithCmd, Looked
<1>6. Shown(C, r, "cmd")
  <2> HIDE DEF C, M
  <2> QED
    BY <1>1, <1>3, <1>4, <1>5, ShownAfter
<1>7. <<"cmd">> \in Seq(Char) /\ <<"N">> \in Seq(Char) /\ <<>> \in Seq(Char) /\ <<"cmd">> # <<"N">>
  <2>1. "cmd" \in Char /\ "N" \in Char
    BY DEF Char
  <2> HIDE DEF Char
  <2> QED
    BY <2>1
<1> HIDE DEF M, C, N
<1>8. /\ C \in Maps /\ DOMAIN C = DOMAIN M \cup {<<"cmd">>}
      /\ \A z \in DOMAIN M : C[z] = M[z]
  <2>1. Inserted(C, M, <<"cmd">>, <<>>)
    BY <1>5, <1>7, InsertedIs, Zenon
  <2> QED
    BY <2>1 DEF Inserted
<1>9. Shown(N, r, "N")
  <2> DEFINE q == "N"
  <2>1. Looked(C, fParams, q, n, KeysOf(u, n), ValuesOf(u, n))
    <3>1. Looked(M, fParams, q, n, KeysOf(u, n), ValuesOf(u, n))
      BY <1>4
    <3>2. <<q>> \in DOMAIN C <=> <<q>> \in DOMAIN M
      BY <1>7, <1>8
    <3> QED
      BY <1>3, <1>8, <3>1, <3>2 DEF Looked
  <2> QED
    BY <1>1, <1>3, <2>1, ShownAfter DEF N
<1>10. ProcessRequest(p) = ResponseCmd(params)
  BY CommandIs
<1>11. Meant(r) = IF Parameter(r, "cmd") = "get_hottest"
                 THEN Reply("hottest", <<IF Parameter(r, "N") \in Numbers THEN Parameter(r, "N") ELSE "0">>)
                 ELSE Reply("false", <<>>)
  BY DEF Meant
<1>12. ResponseCmd(params) =
         IF C[<<"cmd">>] = <<"get_hottest">>
         THEN [fParams |-> N, answer |-> Reply("hottest", <<atoi(N[<<"N">>])>>)]
         ELSE [fParams |-> C, answer |-> Reply("false", <<>>)]
  BY DEF ResponseCmd, C, N
<1>13. C[<<"cmd">>] = <<"get_hottest">> <=> Parameter(r, "cmd") = "get_hottest"
  <2> DEFINE v == Parameter(r, "cmd")
  <2>1. C[<<"cmd">>] = <<v>> \/ (C[<<"cmd">>] = <<>> /\ v = "")
    BY <1>6 DEF Shown
  <2> HIDE DEF v
  <2>2. (<<v>> = <<"get_hottest">> <=> v = "get_hottest") /\ <<>> # <<"get_hottest">> /\ "" # "get_hottest"
    OBVIOUS
  <2> QED
    BY <2>1, <2>2 DEF v
<1>14. <<"cmd">> \in DOMAIN C
  BY <1>8
<1>15. CASE Parameter(r, "cmd") = "get_hottest"
  <2>1. ResponseCmd(params).answer = Reply("hottest", <<atoi(N[<<"N">>])>>)
    BY <1>12, <1>13, <1>15
  <2>2. Meant(r) = Reply("hottest", <<atoi(N[<<"N">>])>>)
    BY <1>9, <1>11, <1>15, AtoiIs
  <2>3. Meant(r).kind # "false"
    BY <2>2 DEF Reply
  <2> QED
    BY <1>10, <2>1, <2>2, <2>3
<1>16. CASE Parameter(r, "cmd") # "get_hottest"
  <2>1. ResponseCmd(params) = [fParams |-> C, answer |-> Reply("false", <<>>)]
    BY <1>12, <1>13, <1>16
  <2>2. Meant(r) = Reply("false", <<>>)
    BY <1>11, <1>16
  <2>3. ResponseCmd(params).fParams = C /\ ResponseCmd(params).answer = Meant(r)
    BY <2>1, <2>2
  <2> QED
    BY <1>8, <1>10, <1>13, <1>14, <1>16, <2>3
<1> QED
  BY <1>15, <1>16

(* So is a command that is processed again because it has failed.          *)
LEMMA CommandAgain ==
  ASSUME NEW r, r.uri \in Seq(Char), r.method = "GET", At(r.uri, 1, "/"), At(r.uri, 2, "?"), Keyed(r.uri),
         NEW p, p.ok, p.fMethod = "GET", p.fAbsoluteURI = r.uri,
         fParams \in Maps, <<"cmd">> \in DOMAIN fParams, fParams[<<"cmd">>] # <<"get_hottest">>,
         Meant(r).kind = "false"
  PROVE  /\ ProcessRequest(p).answer = Meant(r)
         /\ ProcessRequest(p).fParams \in Maps /\ <<"cmd">> \in DOMAIN ProcessRequest(p).fParams
         /\ ProcessRequest(p).fParams[<<"cmd">>] # <<"get_hottest">>
<1> DEFINE u == r.uri  params == SubSeq(u, 3, Len(u))
           M == ParseParams(fParams, params)  C == WithCmd(params)
<1>1. PICK n : KeyedBy(u, n)
  BY KeyedIs
<1>2. n \in Nat \ {0} /\ LayOut(params, n, KeysOf(u, n), ValuesOf(u, n))
  BY <1>1, KeyedLaysOut DEF KeyedBy
<1>3. \A q : Looked(M, fParams, q, n, KeysOf(u, n), ValuesOf(u, n))
  <2> HIDE DEF params
  <2> QED
    BY <1>2, ParamsAre
<1>4. C = Insert(M, <<"cmd">>, <<>>) /\ M \in Maps
  BY <1>3 DEF WithCmd, Looked
<1>5. <<"cmd">> \in Seq(Char) /\ <<>> \in Seq(Char)
  <2>1. "cmd" \in Char
    BY DEF Char
  <2> HIDE DEF Char
  <2> QED
    BY <2>1
<1>6. <<"cmd">> \in DOMAIN M /\ M[<<"cmd">>] = fParams[<<"cmd">>]
  BY <1>3 DEF Looked
<1> HIDE DEF M, C
<1>7. C \in Maps /\ <<"cmd">> \in DOMAIN C /\ C[<<"cmd">>] = M[<<"cmd">>]
  <2>1. Inserted(C, M, <<"cmd">>, <<>>)
    BY <1>4, <1>5, InsertedIs, Zenon
  <2> QED
    BY <1>6, <2>1 DEF Inserted
<1>8. ProcessRequest(p) = ResponseCmd(params)
  BY CommandIs
<1>9. ResponseCmd(params) = [fParams |-> C, answer |-> Reply("false", <<>>)]
  BY <1>6, <1>7 DEF ResponseCmd, C
<1>10. Meant(r) = Reply("false", <<>>)
  <2>1. \A z : Reply("hottest", z).kind # "false"
    BY DEF Reply
  <2> QED
    BY <2>1 DEF Meant
<1>11. ResponseCmd(params).fParams = C /\ ResponseCmd(params).answer = Meant(r)
  BY <1>9, <1>10
<1> QED
  BY <1>6, <1>7, <1>8, <1>11

-----------------------------------------------------------------------------
(* A request that is no command leaves the parameters as they are          *)

(* Behind the version there are ends of line and headers.                  *)
Tail0 == Blanks \cup {"word", ":"}
Gap(r) == IF r.version = <<>> THEN <<>> ELSE <<SP>>
Shape(r, t, n1, n2, n3, n4) ==
  /\ n1 = 2 + Len(r.scheme) /\ n2 = n1 + Len(r.uri) /\ n3 = n2 + Len(Gap(r)) /\ n4 = n3 + Len(r.version)
  /\ n1 \in Nat /\ n2 \in Nat /\ n3 \in Nat /\ n4 \in Nat
  /\ t \in Seq(Char) /\ n4 + 1 <= Len(t) /\ t[1] = r.method /\ t[2] = SP
  /\ \A x \in 1 .. Len(r.scheme) : t[2 + x] = r.scheme[x]
  /\ \A x \in 1 .. Len(r.uri) : t[n1 + x] = r.uri[x]
  /\ \A x \in 1 .. Len(Gap(r)) : t[n2 + x] = SP
  /\ \A x \in 1 .. Len(r.version) : t[n3 + x] = r.version[x]
  /\ t[n4 + 1] \in EOLs /\ \A x \in n4 + 1 .. Len(t) : t[x] \in Tail0

LEMMA ShapeIs ==
  ASSUME RequestAssumption, NEW r \in Requests
  PROVE  \E n1, n2, n3, n4 : Shape(r, Rendered(r), n1, n2, n3, n4)
<1> DEFINE e == r.eol  m == r.method  z == Gap(r)
           line == <<"word", ":", SP, "word">> \o e
           H == FlattenSeq([i \in 1 .. r.headers |-> line])
           p0 == <<m, SP>>  p1 == p0 \o r.scheme  p2 == p1 \o r.uri  p3 == p2 \o z
           p4 == p3 \o r.version  p5 == p4 \o e  p6 == p5 \o H  t == p6 \o e
<1>0. /\ m \in Words /\ r.headers \in Nat /\ e \in EolForms
      /\ r.scheme \in {<<>>, <<"http://", "host">>}
      /\ r.uri \in Seq(STRING) /\ r.version \in Seq(STRING)
  BY DEF RequestAssumption, EolForms
<1>1. e \in Seq(Char) /\ Len(e) \in Nat \ {0} /\ e[1] \in EOLs /\ \A x \in 1 .. Len(e) : e[x] \in Tail0
  <2>1. /\ e \in Seq(Char) /\ EOLs = {CR, LF}
        /\ \/ Len(e) = 1 /\ e[1] \in EOLs
           \/ Len(e) = 2 /\ e[1] = CR /\ e[2] = LF
    BY <1>0, FormsAre
  <2>2. Len(e) \in Nat \ {0} /\ e[1] \in EOLs /\ \A x \in 1 .. Len(e) : e[x] \in EOLs
    <3>1. \A x \in 1 .. 2 : x = 1 \/ x = 2
      OBVIOUS
    <3>2. \A x \in 1 .. 1 : x = 1
      OBVIOUS
    <3> HIDE DEF e
    <3> QED
      BY <2>1, <3>1, <3>2
  <2>3. EOLs \subseteq Tail0
    BY Chars DEF Tail0
  <2> QED
    BY <2>1, <2>2, <2>3
<1>2. r.uri \in Seq(Char) /\ r.version \in Seq(Char)
  <2>1. STRING \subseteq Char
    BY DEF Char
  <2> HIDE DEF Char
  <2> QED
    BY <1>0, <2>1, SeqMonotonic
<1>3. /\ p0 \in Seq(Char) /\ Len(p0) = 2 /\ p0[1] = m /\ p0[2] = SP
      /\ z \in Seq(Char) /\ \A x \in 1 .. Len(z) : z[x] = SP
  <2>1. m \in Char /\ SP \in Char
    BY <1>0 DEF Char
  <2> HIDE DEF m, Char
  <2> QED
    BY <2>1 DEF Gap
<1>4. r.scheme \in Seq(Char)
  <2>1. "http://" \in Char /\ "host" \in Char
    BY DEF Char
  <2> HIDE DEF Char
  <2>2. <<"http://", "host">> \in Seq(Char) /\ <<>> \in Seq(Char)
    BY <2>1
  <2> QED
    BY <1>0, <2>2, Zenon
<1>5. line \in Seq(Char) /\ ToSet(line) \subseteq Tail0
  <2> DEFINE w == <<"word", ":", SP, "word">>
  <2>1. w \in Seq(Char) /\ Len(w) = 4 /\ \A x \in 1 .. Len(w) : w[x] \in Tail0
    <3>1. "word" \in Char /\ ":" \in Char /\ SP \in Char
      BY DEF Char, Words
    <3>2. "word" \in Tail0 /\ ":" \in Tail0 /\ SP \in Tail0
      BY Chars DEF Tail0
    <3> HIDE DEF Char, Tail0
    <3> QED
      BY <3>1, <3>2
  <2> HIDE DEF w
  <2>2. /\ w \o e \in Seq(Char) /\ Len(w \o e) = Len(w) + Len(e) /\ Len(w) \in Nat /\ Len(e) \in Nat
        /\ \A x \in 1 .. Len(w) : (w \o e)[x] = w[x]
        /\ \A x \in 1 .. Len(e) : (w \o e)[Len(w) + x] = e[x]
    BY <1>1, <2>1, JoinIs
  <2>3. ASSUME NEW x \in 1 .. Len(w \o e) PROVE (w \o e)[x] \in Tail0
    <3>1. CASE x \in 1 .. Len(w)
      BY <2>1, <2>2, <3>1
    <3>2. CASE x \notin 1 .. Len(w)
      <4>1. x - Len(w) \in 1 .. Len(e) /\ Len(w) + (x - Len(w)) = x
        BY <2>2, <3>2
      <4> QED
        BY <1>1, <2>2, <4>1
    <3> QED
      BY <3>1, <3>2
  <2> QED
    BY <2>2, <2>3 DEF ToSet, w
<1>6. H \in Seq(Char) /\ \A x \in 1 .. Len(H) : H[x] \in Tail0
  <2>1. CASE r.headers = 0
    <3>1. [i \in 1 .. r.headers |-> line] = <<>>
      BY <2>1
    <3>2. H = <<>>
      BY <3>1 DEF FlattenSeq
    <3>3. <<>> \in Seq(Char) /\ \A x \in 1 .. Len(<<>>) : <<>>[x] \in Tail0
      <4> HIDE DEF Char
      <4> QED
        OBVIOUS
    <3> QED
      BY <3>2, <3>3, Zenon
  <2>2. CASE r.headers # 0
    <3> DEFINE h == r.headers  ss == [i \in 1 .. h |-> line]
    <3>1. h \in Nat \ {0}
      BY <1>0, <2>2
    <3> HIDE DEF h, line
    <3>2. ss \in [1 .. h -> Seq(Char)] /\ \A i \in 1 .. h : ss[i] = line
      BY <1>5
    <3> HIDE DEF ss
    <3>3. FlattenSeq(ss) \in Seq(Char) /\ ToSet(FlattenSeq(ss)) = UNION {ToSet(ss[i]) : i \in 1 .. h}
      BY <3>1, <3>2, FlattenHas
    <3>4. ToSet(FlattenSeq(ss)) \subseteq Tail0
      BY <1>5, <3>2, <3>3
    <3>5. \A x \in 1 .. Len(FlattenSeq(ss)) : FlattenSeq(ss)[x] \in Tail0
      BY <3>3, <3>4 DEF ToSet
    <3> QED
      BY <3>3, <3>5 DEF ss, h, line
  <2> QED
    BY <2>1, <2>2
<1>7. Rendered(r) = t
  BY DEF Rendered, Gap
<1> DEFINE N1 == 2 + Len(r.scheme)  N2 == N1 + Len(r.uri)  N3 == N2 + Len(z)  N4 == N3 + Len(r.version)
<1> HIDE DEF e, m, z, line, H, t, p0
<1>8. p1 \in Seq(Char) /\ Len(p1) = N1 /\ N1 \in Nat
  <2>1. p1 \in Seq(Char) /\ Len(p1) = Len(p0) + Len(r.scheme) /\ Len(r.scheme) \in Nat
    BY <1>3, <1>4, JoinIs
  <2> HIDE DEF p1
  <2> QED
    BY <1>3, <2>1
<1> HIDE DEF p1, N1
<1>9. p2 \in Seq(Char) /\ Len(p2) = N2 /\ N2 \in Nat
  <2>1. p2 \in Seq(Char) /\ Len(p2) = Len(p1) + Len(r.uri) /\ Len(r.uri) \in Nat
    BY <1>2, <1>8, JoinIs
  <2> HIDE DEF p2
  <2> QED
    BY <1>8, <2>1
<1> HIDE DEF p2, N2
<1>10. p3 \in Seq(Char) /\ Len(p3) = N3 /\ N3 \in Nat
  <2>1. p3 \in Seq(Char) /\ Len(p3) = Len(p2) + Len(z) /\ Len(z) \in Nat
    BY <1>3, <1>9, JoinIs
  <2> HIDE DEF p3
  <2> QED
    BY <1>9, <2>1
<1> HIDE DEF p3, N3
<1>11. p4 \in Seq(Char) /\ Len(p4) = N4 /\ N4 \in Nat
  <2>1. p4 \in Seq(Char) /\ Len(p4) = Len(p3) + Len(r.version) /\ Len(r.version) \in Nat
    BY <1>2, <1>10, JoinIs
  <2> HIDE DEF p4
  <2> QED
    BY <1>10, <2>1
<1> HIDE DEF p4, N4
<1>12. p5 \in Seq(Char) /\ Len(p5) = N4 + Len(e)
  BY <1>1, <1>11, JoinIs
<1> HIDE DEF p5
<1>13. p6 \in Seq(Char) /\ Len(p6) = Len(p5) + Len(H) /\ Len(H) \in Nat
  BY <1>6, <1>12, JoinIs
<1> HIDE DEF p6
<1>14. t \in Seq(Char) /\ Len(t) = Len(p6) + Len(e)
  BY <1>1, <1>13, JoinIs DEF t
<1>15. HasBehind(t, p6, e)
  <2>1. /\ Len(p6) \in Nat /\ Len(e) \in Nat /\ Len(p6 \o e) = Len(p6) + Len(e)
        /\ \A x \in 1 .. Len(p6) : (p6 \o e)[x] = p6[x]
        /\ \A x \in 1 .. Len(e) : (p6 \o e)[Len(p6) + x] = e[x]
    BY <1>1, <1>13, JoinIs, Zenon
  <2>2. t = p6 \o e
    BY DEF t
  <2> HIDE DEF t
  <2>3. Len(p6) <= Len(p6 \o e)
    BY ONLY <2>1
  <2> QED
    BY <2>1, <2>2, <2>3, Zenon DEF Begins, HasBehind
<1>16. HasBehind(t, p5, H)
  <2>1. Begins(t, p5 \o H)
    BY <1>15 DEF HasBehind, p6
  <2> QED
    BY <1>6, <1>12, <2>1, JoinBegins, Zenon
<1>17. HasBehind(t, p4, e)
  <2>1. Begins(t, p4 \o e)
    BY <1>16 DEF HasBehind, p5
  <2> QED
    BY <1>1, <1>11, <2>1, JoinBegins, Zenon
<1>18. HasBehind(t, p3, r.version)
  <2>1. Begins(t, p3 \o r.version)
    BY <1>17 DEF HasBehind, p4
  <2> QED
    BY <1>2, <1>10, <2>1, JoinBegins, Zenon
<1>19. HasBehind(t, p2, z)
  <2>1. Begins(t, p2 \o z)
    BY <1>18 DEF HasBehind, p3
  <2> QED
    BY <1>3, <1>9, <2>1, JoinBegins, Zenon
<1>20. HasBehind(t, p1, r.uri)
  <2>1. Begins(t, p1 \o r.uri)
    BY <1>19 DEF HasBehind, p2
  <2> QED
    BY <1>2, <1>8, <2>1, JoinBegins, Zenon
<1>21. HasBehind(t, p0, r.scheme)
  <2>1. Begins(t, p0 \o r.scheme)
    BY <1>20 DEF HasBehind, p1
  <2> QED
    BY <1>3, <1>4, <2>1, JoinBegins, Zenon
<1>22. t[1] = m /\ t[2] = SP
  BY <1>3, <1>21 DEF HasBehind, Begins
<1>23. /\ \A x \in 1 .. Len(r.scheme) : t[2 + x] = r.scheme[x]
       /\ \A x \in 1 .. Len(r.uri) : t[N1 + x] = r.uri[x]
       /\ \A x \in 1 .. Len(z) : t[N2 + x] = SP
       /\ \A x \in 1 .. Len(r.version) : t[N3 + x] = r.version[x]
  BY <1>3, <1>8, <1>9, <1>10, <1>18, <1>19, <1>20, <1>21 DEF HasBehind
<1>24. N4 + 1 <= Len(t) /\ t[N4 + 1] \in EOLs
  <2>1. 1 \in 1 .. Len(e) /\ N4 + 1 <= Len(t)
    BY <1>1, <1>11, <1>12, <1>13, <1>14
  <2> QED
    BY <1>1, <1>11, <1>17, <2>1 DEF HasBehind
<1>25. ASSUME NEW x \in N4 + 1 .. Len(t) PROVE t[x] \in Tail0
  <2>1. CASE x <= Len(p5)
    <3>1. x - N4 \in 1 .. Len(e) /\ Len(p4) + (x - N4) = x
      BY <1>1, <1>11, <1>12, <2>1
    <3> QED
      BY <1>1, <1>17, <3>1 DEF HasBehind
  <2>2. CASE Len(p5) < x /\ x <= Len(p6)
    <3>1. x - Len(p5) \in 1 .. Len(H) /\ Len(p5) + (x - Len(p5)) = x
      BY <1>1, <1>11, <1>12, <1>13, <2>2
    <3> QED
      BY <1>6, <1>16, <3>1 DEF HasBehind
  <2>3. CASE Len(p6) < x
    <3>1. x - Len(p6) \in 1 .. Len(e) /\ Len(p6) + (x - Len(p6)) = x
      BY <1>1, <1>11, <1>12, <1>13, <1>14, <2>3
    <3> QED
      BY <1>1, <1>15, <3>1 DEF HasBehind
  <2>4. x \in Int /\ Len(p5) \in Int /\ Len(p6) \in Int
    BY <1>1, <1>11, <1>12, <1>13
  <2> QED
    BY <2>1, <2>2, <2>3, <2>4
<1>26. Shape(r, t, N1, N2, N3, N4)
  BY <1>8, <1>9, <1>10, <1>11, <1>14, <1>22, <1>23, <1>24, <1>25 DEF Shape, N1, N2, N3, N4, m, z
<1> QED
  BY <1>7, <1>26

LEMMA ShapeLong ==
  ASSUME RequestAssumption, NEW r \in Requests, NEW t, NEW n1, NEW n2, NEW n3, NEW n4,
         Shape(r, t, n1, n2, n3, n4)
  PROVE  n4 >= 2
<1> DEFINE a == Len(r.scheme)  b == Len(r.uri)  c == Len(Gap(r))  d == Len(r.version)
<1>1. r.uri \in Seq(STRING) /\ r.version \in Seq(STRING) /\ r.scheme \in {<<>>, <<"http://", "host">>}
  BY DEF RequestAssumption
<1>2. b \in Nat /\ d \in Nat
  BY <1>1
<1>3. a \in Nat /\ c \in Nat
  BY <1>1 DEF Gap
<1>4. n1 = 2 + a /\ n2 = n1 + b /\ n3 = n2 + c /\ n4 = n3 + d
  BY DEF Shape
<1> HIDE DEF a, b, c, d
<1> QED
  BY <1>2, <1>3, <1>4

(* Where the URI begins, or what is taken for it, there is no command.     *)
LEMMA NoCommandInside ==
  ASSUME RequestAssumption, NEW r \in Requests, r \notin Commands,
         NEW s, s = Rendered(r), NEW b \in 2 .. Len(s), b + 1 <= Len(s),
         \A x \in 2 .. b - 1 : s[x] \in Blanks, s[b] = "/", s[b + 1] = "?"
  PROVE  FALSE
<1> DEFINE z == Gap(r)  u == r.uri  v == r.version
<1>1. PICK n1, n2, n3, n4 : Shape(r, s, n1, n2, n3, n4)
  BY ShapeIs
<1>2. /\ n1 = 2 + Len(r.scheme) /\ n2 = n1 + Len(u) /\ n3 = n2 + Len(z) /\ n4 = n3 + Len(v)
      /\ n1 \in Nat /\ n2 \in Nat /\ n3 \in Nat /\ n4 \in Nat
      /\ s \in Seq(Char) /\ n4 + 1 <= Len(s) /\ s[2] = SP
      /\ \A x \in 1 .. Len(r.scheme) : s[2 + x] = r.scheme[x]
      /\ \A x \in 1 .. Len(u) : s[n1 + x] = u[x]
      /\ \A x \in 1 .. Len(z) : s[n2 + x] = SP
      /\ \A x \in 1 .. Len(v) : s[n3 + x] = v[x]
      /\ s[n4 + 1] \in EOLs /\ \A x \in n4 + 1 .. Len(s) : s[x] \in Tail0
  BY <1>1 DEF Shape
<1>3. /\ r.scheme \in {<<>>, <<"http://", "host">>}
      /\ u \in Seq(STRING) /\ ToSet(u) \cap Blanks = {}
      /\ v \in Seq(STRING) /\ ToSet(v) \cap Blanks = {}
  BY DEF RequestAssumption
<1>4. /\ "/" \notin Blanks /\ "?" \notin Blanks /\ "http://" \notin Blanks /\ "/" \notin Tail0
      /\ SP \in Blanks /\ EOLs \subseteq Blanks
  BY DEF Blanks, Tail0, SP, CR, LF, EOLs
<1>5. ~At(u, 2, "?") /\ ~(u = <<>> /\ At(v, 2, "?"))
  BY DEF Commands
<1>6. b \in Nat /\ b > 2 /\ Len(s) \in Nat
  <2>1. b # 2
    BY <1>2, <1>4
  <2> QED
    BY <1>2, <2>1
<1>7. \A x \in 3 .. Len(s) : s[x] \notin Blanks => b <= x
  <2> SUFFICES ASSUME NEW x \in 3 .. Len(s), s[x] \notin Blanks, x < b PROVE FALSE
    BY <1>6
  <2>1. x \in 2 .. b - 1
    BY <1>6
  <2> QED
    BY <2>1
<1>8. Len(u) \in Nat /\ Len(v) \in Nat /\ DOMAIN u = 1 .. Len(u) /\ DOMAIN v = 1 .. Len(v)
  BY <1>3
<1>a. /\ Len(z) \in Nat
      /\ v = <<>> => Len(z) = 0
      /\ v # <<>> => Len(z) = 1
  BY DEF Gap
<1>b. /\ u # <<>> => Len(u) \in Nat \ {0}
      /\ v # <<>> => Len(v) \in Nat \ {0}
      /\ u = <<>> => Len(u) = 0
      /\ v = <<>> => Len(v) = 0
      /\ r.scheme = <<>> => Len(r.scheme) = 0
  BY <1>3
<1>f. \A x \in 1 .. Len(u) : s[n1 + x] = u[x]
  BY <1>2
<1>g. \A x \in 1 .. Len(z) : s[n2 + x] = SP
  BY <1>2
<1>h. \A x \in 1 .. Len(v) : s[n3 + x] = v[x]
  BY <1>2
<1> DEFINE lu == Len(u)  lv == Len(v)  lz == Len(z)
<1>c. n2 = n1 + lu /\ n3 = n2 + lz /\ n4 = n3 + lv /\ lu \in Nat /\ lv \in Nat /\ lz \in Nat
  BY <1>2, <1>8, <1>a
<1>e. n1 \in Nat /\ n2 \in Nat /\ n3 \in Nat /\ n4 \in Nat
  BY <1>2
<1> HIDE DEF u, v, z, lu, lv, lz
<1>d. n1 <= n2 /\ n2 <= n3 /\ n3 <= n4 /\ n1 <= n4
  BY <1>c, <1>e
<1>9. CASE r.scheme # <<>>
  <2>1. Len(r.scheme) = 2 /\ r.scheme[1] = "http://"
    BY <1>3, <1>9
  <2>2. s[3] = "http://" /\ 3 <= Len(s)
    <3>1. 1 \in 1 .. Len(r.scheme) /\ 2 + 1 = 3
      BY <2>1
    <3>2. 3 <= Len(s)
      <4>1. n1 = 4 /\ n1 <= n4 + 1
        BY <1>2, <1>d, <2>1
      <4> QED
        BY <1>2, <1>6, <4>1
    <3> QED
      BY <1>2, <2>1, <3>1, <3>2
  <2>3. b = 3
    BY <1>4, <1>6, <1>7, <2>2
  <2> QED
    BY <2>2, <2>3
<1>10. CASE r.scheme = <<>> /\ u # <<>>
  <2>1. n1 = 2 /\ Len(u) \in Nat \ {0} /\ n2 = 2 + Len(u)
    BY <1>2, <1>b, <1>10
  <2>2. s[3] = u[1] /\ u[1] \notin Blanks /\ 3 <= Len(s)
    <3>1. 1 \in 1 .. Len(u) /\ 2 + 1 = 3
      BY <2>1
    <3>2. u[1] \in ToSet(u)
      BY <1>3, <3>1 DEF ToSet
    <3>3. u[1] \notin Blanks
      BY <1>3, <3>2
    <3>4. 3 <= Len(s)
      <4>1. 2 + lu <= n4 /\ lu \in Nat \ {0} /\ n4 + 1 <= Len(s)
        <5>1. lu \in Nat \ {0} /\ n1 = 2
          BY ONLY <2>1 DEF lu
        <5>2. n4 + 1 <= Len(s)
          BY <1>2
        <5> QED
          BY ONLY <1>c, <1>d, <1>e, <5>1, <5>2
      <4> QED
        BY <1>6, <1>e, <4>1
    <3>5. s[3] = u[1]
      BY ONLY <1>f, <2>1, <3>1
    <3> QED
      BY <3>3, <3>4, <3>5
  <2>3. b = 3
    BY <1>4, <1>6, <1>7, <2>2
  <2>4. CASE Len(u) = 1
    <3>1. s[4] \in Blanks
      <4>1. CASE v = <<>>
        <5>1. Len(z) = 0 /\ Len(v) = 0
          BY <1>a, <1>b, <4>1
        <5>2. n4 + 1 = 4
          BY <1>2, <2>1, <2>4, <5>1
        <5> QED
          BY <1>2, <1>4, <5>2
      <4>2. CASE v # <<>>
        <5>1. 1 \in 1 .. Len(z)
          BY ONLY <1>a, <4>2
        <5>2. n2 + 1 = 4
          BY <2>1, <2>4
        <5> QED
          BY ONLY <1>4, <1>g, <5>1, <5>2
      <4> QED
        BY <4>1, <4>2
    <3>2. b + 1 = 4
      BY <2>3
    <3> QED
      BY <1>4, <3>1, <3>2
  <2>5. CASE Len(u) # 1
    <3>1. 2 \in 1 .. Len(u) /\ n1 + 2 = 4 /\ b + 1 = 4
      <4>1. lu \in Nat \ {0} /\ lu # 1
        BY <2>1, <2>5 DEF lu
      <4>2. 2 \in 1 .. lu
        BY <4>1
      <4> QED
        BY <2>1, <2>3, <4>2 DEF lu
    <3>2. u[2] = "?"
      <4>1. s[n1 + 2] = u[2]
        BY ONLY <1>f, <3>1
      <4> QED
        BY <3>1, <4>1
    <3> QED
      BY <1>5, <1>8, <3>1, <3>2 DEF At
  <2> QED
    BY <2>4, <2>5
<1>11. CASE r.scheme = <<>> /\ u = <<>> /\ v # <<>>
  <2>1. Len(z) = 1 /\ n2 = 2 /\ n3 = 3 /\ Len(v) \in Nat \ {0} /\ n4 = 3 + Len(v)
    <3>1. Len(z) = 1 /\ Len(v) \in Nat \ {0} /\ Len(u) = 0 /\ Len(r.scheme) = 0
      BY <1>a, <1>b, <1>11
    <3> QED
      BY <1>2, <3>1
  <2>2. s[3] = SP
    <3>1. 1 \in 1 .. Len(z) /\ n2 + 1 = 3
      BY <2>1
    <3> QED
      BY ONLY <1>g, <3>1
  <2>3. s[4] = v[1] /\ v[1] \notin Blanks /\ 4 <= Len(s)
    <3>1. 1 \in 1 .. Len(v) /\ n3 + 1 = 4
      BY <2>1
    <3>2. v[1] \in ToSet(v)
      BY <1>3, <3>1 DEF ToSet
    <3>3. v[1] \notin Blanks
      BY <1>3, <3>2
    <3>4. 4 <= Len(s)
      <4>1. lv \in Nat \ {0} /\ n4 = 3 + lv /\ n4 + 1 <= Len(s)
        BY <1>2, <2>1 DEF lv
      <4> QED
        BY <1>6, <4>1
    <3>5. s[4] = v[1]
      BY ONLY <1>h, <3>1
    <3> QED
      BY <3>3, <3>4, <3>5
  <2>4. b = 4
    <3>1. b # 3
      BY <1>4, <2>2
    <3>2. b <= 4
      <4>1. 4 \in 3 .. Len(s)
        BY <1>6, <2>3
      <4> QED
        BY <1>7, <2>3, <4>1
    <3> QED
      BY <1>6, <3>1, <3>2
  <2>5. CASE Len(v) = 1
    <3>1. n4 + 1 = 5 /\ b + 1 = 5
      BY <2>1, <2>4, <2>5
    <3> QED
      BY <1>2, <1>4, <3>1
  <2>6. CASE Len(v) # 1
    <3>1. 2 \in 1 .. Len(v) /\ n3 + 2 = 5 /\ b + 1 = 5
      <4>1. lv \in Nat \ {0} /\ lv # 1
        BY <2>1, <2>6 DEF lv
      <4>2. 2 \in 1 .. lv
        BY <4>1
      <4> QED
        BY <2>1, <2>4, <4>2 DEF lv
    <3>2. v[2] = "?"
      <4>1. s[n3 + 2] = v[2]
        BY ONLY <1>h, <3>1
      <4> QED
        BY <3>1, <4>1
    <3> QED
      BY <1>5, <1>8, <1>11, <3>1, <3>2 DEF At
  <2> QED
    BY <2>5, <2>6
<1>12. CASE r.scheme = <<>> /\ u = <<>> /\ v = <<>>
  <2>1. n4 + 1 = 3
    <3>1. Len(z) = 0 /\ Len(v) = 0 /\ Len(u) = 0 /\ Len(r.scheme) = 0
      BY <1>a, <1>b, <1>12
    <3> QED
      BY <1>2, <3>1
  <2>2. b \in n4 + 1 .. Len(s)
    BY <1>6, <2>1
  <2> QED
    BY <1>2, <1>4, <2>2
<1> QED
  BY <1>9, <1>10, <1>11, <1>12

LEMMA ParamsStay ==
  ASSUME RequestAssumption, NEW r \in Requests, r \notin Commands,
         NEW p, p = ParseFirstLine(Rendered(r))
  PROVE  ProcessRequest(p).fParams = fParams
<1> DEFINE s == Rendered(r)  L == Len(s)  a == ConsumeWord(s, 1)  b == ConsumeWhitespace(s, a)
           c == TextUntil(s, b, sURLStopConditions)  u == SubSeq(s, b, c - 1)
<1>1. PICK n1, n2, n3, n4 : Shape(r, s, n1, n2, n3, n4)
  BY ShapeIs
<1>2. s \in Seq(Char) /\ 3 <= L /\ L \in Nat /\ s[1] = r.method /\ s[2] = SP /\ r.method \in Words
  <2>1. /\ s \in Seq(Char) /\ n4 + 1 <= Len(s) /\ s[1] = r.method /\ s[2] = SP /\ n4 \in Nat /\ n4 >= 2
    <3>1. n4 >= 2
      BY <1>1, ShapeLong, Zenon
    <3> QED
      BY <1>1, <3>1 DEF Shape
  <2>2. r.method \in Words
    BY DEF RequestAssumption
  <2> HIDE DEF s
  <2>3. Len(s) \in Nat
    BY <2>1
  <2>4. 3 <= Len(s)
    BY <2>1, <2>3
  <2> QED
    BY <2>1, <2>2, <2>3, <2>4
<1>3. p.fAbsoluteURI = u
  BY DEF ParseFirstLine
<1> HIDE DEF s, L
<1>4. a = 2
  <2>1. s[2] \in Others(s, Words) /\ \A x \in 1 .. 1 : s[x] \notin Others(s, Words)
    BY <1>2, Chars DEF Others, Blanks, L
  <2>2. 2 \in 1 .. Len(s) /\ 1 \in 1 .. Len(s) + 1 /\ \A x \in 1 .. 2 - 1 : x \in 1 .. 1
    BY <1>2 DEF L
  <2>3. TextUntil(s, 1, Others(s, Words)) = 2
    BY <1>2, <2>1, <2>2, StopsAt
  <2> QED
    BY <1>2, <2>2, <2>3, ConsumeAreUntil
<1> HIDE DEF a
<1>5. b \in 2 .. L + 1 /\ \A x \in 2 .. b - 1 : s[x] \in Blanks
  <2>1. 2 \in 1 .. Len(s) + 1
    BY <1>2 DEF L
  <2>2. b = TextUntil(s, 2, Others(s, Blanks))
    BY <1>2, <1>4, <2>1, ConsumeAreUntil
  <2>3. Stops(s, 2, b, Others(s, Blanks))
    BY <1>2, <2>1, <2>2, TextUntilIs
  <2> HIDE DEF b
  <2>4. b \in 2 .. L + 1 /\ \A x \in 2 .. b - 1 : s[x] \notin Others(s, Blanks)
    BY <2>3 DEF Stops, L
  <2>5. \A x \in 2 .. b - 1 : x \in 1 .. Len(s)
    BY <1>2, <2>4 DEF L
  <2> QED
    BY <2>4, <2>5 DEF Others
<1> HIDE DEF b
<1>6. c \in b .. L + 1
  <2>1. b \in 1 .. Len(s) + 1
    BY <1>2, <1>5 DEF L
  <2>2. Stops(s, b, c, sURLStopConditions)
    BY <1>2, <2>1, TextUntilIs
  <2> QED
    BY <2>2 DEF Stops, L
<1> HIDE DEF c
<1>7. MiddleAt(u, s, b - 1, c - b)
  <2>1. b - 1 \in Nat /\ c - b \in Nat /\ (b - 1) + (c - b) = c - 1 /\ (b - 1) + 1 = b /\ (b - 1) + (c - b) <= Len(s)
    BY <1>2, <1>5, <1>6 DEF L
  <2>2. MiddleAt(SubSeq(s, (b - 1) + 1, (b - 1) + (c - b)), s, b - 1, c - b)
    BY <1>2, <2>1, MiddleHas
  <2> QED
    BY <2>1, <2>2
<1> HIDE DEF u
<1>8. u \in Seq(Char) /\ Len(u) = c - b /\ \A x \in 1 .. c - b : u[x] = s[(b - 1) + x]
  BY <1>7 DEF MiddleAt
<1>9. ~(At(u, 1, "/") /\ At(u, 2, "?"))
  <2> SUFFICES ASSUME At(u, 1, "/"), At(u, 2, "?") PROVE FALSE
    OBVIOUS
  <2>1. 1 \in 1 .. c - b /\ 2 \in 1 .. c - b /\ u[1] = "/" /\ u[2] = "?"
    BY <1>8 DEF At
  <2>2. (b - 1) + 1 = b /\ (b - 1) + 2 = b + 1
    BY <1>5
  <2>3. s[b] = "/" /\ s[b + 1] = "?"
    BY <1>8, <2>1, <2>2
  <2>4. b \in 2 .. Len(s) /\ b + 1 <= Len(s)
    BY <1>2, <1>5, <1>6, <2>1 DEF L
  <2> QED
    BY <1>5, <2>3, <2>4, NoCommandInside DEF s
<1>10. \A x : Unchanged(x).fParams = fParams
  BY DEF Unchanged
<1>11. ResponseGet(u).fParams = fParams
  <2> HIDE DEF u
  <2>1. CASE u = <<>>
    BY <1>10, <2>1, Zenon DEF ResponseGet
  <2>3. CASE u = <<"/">>
    <3>1. u # <<>>
      BY <2>3
    <3> QED
      BY <1>10, <2>3, <3>1, Zenon DEF ResponseGet
  <2>2. CASE u # <<>> /\ u # <<"/">>
    <3>1. ResponseGet(u) = Unchanged(Reply(IF u \in RootPath THEN "file" ELSE "not found", u))
      BY <1>9, <2>2, Zenon DEF ResponseGet
    <3> QED
      BY <1>10, <3>1
  <2> QED
    BY <2>1, <2>2, <2>3
<1> QED
  BY <1>3, <1>10, <1>11 DEF ProcessRequest

-----------------------------------------------------------------------------
(* What fParams has as long as no command has left the buffer: nothing, or   *)
(* what a command has left there that was refused and will be again.         *)
Refused(r, map) ==
  /\ map \in Maps /\ <<"cmd">> \in DOMAIN map /\ map[<<"cmd">>] # <<"get_hottest">>
  /\ Meant(r).kind = "false"

RefusedIfMeant(r, map) == WellFormed(r) /\ r.scheme = <<>> => Refused(r, map)

ParamsAt(st, moved, map) ==
  \/ map = NoParams
  \/ moved < Len(st) /\ st[moved + 1] \in Commands /\ RefusedIfMeant(st[moved + 1], map)

NoneBefore(st, moved) == \A j \in 1 .. moved : st[j] \notin Commands
ParamsInv == ~cut /\ NoneBefore(stream, Moved) => ParamsAt(stream, Moved, fParams)

LEMMA CommandAnswer ==
  ASSUME RequestAssumption, NEW r \in Requests, r \in Commands, WellFormed(r), r.scheme = <<>>,
         NEW p, p.ok, p.fMethod = r.method, p.fAbsoluteURI = r.uri,
         fParams = NoParams \/ Refused(r, fParams),
         NEW x, x = ProcessRequest(p).answer, NEW m, m = ProcessRequest(p).fParams
  PROVE  /\ x.kind = Meant(r).kind
         /\ Meant(r).kind # "error" => x = Meant(r)
         /\ Failed(x) => m = NoParams \/ Refused(r, m)
<1>1. r.uri \in Seq(Char)
  <2>1. STRING \subseteq Char
    BY DEF Char
  <2>2. r.uri \in Seq(STRING)
    BY DEF RequestAssumption
  <2> HIDE DEF Char
  <2> QED
    BY <2>1, <2>2, SeqMonotonic
<1>2. At(r.uri, 1, "/") /\ At(r.uri, 2, "?") /\ Keyed(r.uri)
  <2>1. At(r.uri, 1, "/") /\ r.uri # <<>>
    BY DEF WellFormed, At
  <2>2. At(r.uri, 2, "?")
    BY <2>1 DEF Commands
  <2> QED
    BY <2>1, <2>2 DEF WellFormed
<1>3. CASE r.method # "GET"
  <2>1. x.kind = "error" /\ m = fParams
    BY <1>3 DEF ProcessRequest, Unchanged, Reply
  <2>2. Meant(r).kind = "error"
    BY <1>3 DEF Meant, Reply
  <2> QED
    BY <2>1, <2>2
<1>4. CASE r.method = "GET"
  <2>1. x = Meant(r) /\ (Meant(r).kind = "false" => Refused(r, m))
    <3>1. CASE fParams = NoParams
      <4>1. /\ ProcessRequest(p).answer = Meant(r)
            /\ Meant(r).kind = "false" =>
                 /\ ProcessRequest(p).fParams \in Maps /\ <<"cmd">> \in DOMAIN ProcessRequest(p).fParams
                 /\ ProcessRequest(p).fParams[<<"cmd">>] # <<"get_hottest">>
        BY <1>1, <1>2, <1>4, <3>1, FirstCommand
      <4> QED
        BY <4>1 DEF Refused
    <3>2. CASE Refused(r, fParams)
      <4>1. /\ fParams \in Maps /\ <<"cmd">> \in DOMAIN fParams /\ fParams[<<"cmd">>] # <<"get_hottest">>
            /\ Meant(r).kind = "false"
        BY <3>2 DEF Refused
      <4>2. /\ ProcessRequest(p).answer = Meant(r)
            /\ ProcessRequest(p).fParams \in Maps /\ <<"cmd">> \in DOMAIN ProcessRequest(p).fParams
            /\ ProcessRequest(p).fParams[<<"cmd">>] # <<"get_hottest">>
        BY <1>1, <1>2, <1>4, <4>1, CommandAgain
      <4> QED
        BY <4>1, <4>2 DEF Refused
    <3> QED
      BY <3>1, <3>2
  <2>2. Meant(r).kind \in {"hottest", "false"}
    <3>1. \A z : Reply("hottest", z).kind = "hottest" /\ Reply("false", z).kind = "false"
      BY DEF Reply
    <3> QED
      BY <1>2, <1>4, <3>1 DEF Meant
  <2>3. Failed(x) => Refused(r, m)
    BY <2>1, <2>2 DEF Failed
  <2> QED
    BY <2>1, <2>3
<1> QED
  BY <1>3, <1>4

-----------------------------------------------------------------------------
LEMMA ParamsInit ==
  ASSUME RequestsInit
  PROVE  ParamsInv
  BY DEF RequestsInit, ParamsInv, ParamsAt, NoParams

LEMMA ParamsPartStep ==
  ASSUME ParamsInv, NEW n \in DOMAIN unread, ReadsPart(n)
  PROVE  ParamsInv'
<1>1. stream' = stream /\ answers' = answers /\ fParams' = fParams /\ cut' = (cut \/ Cuts(n))
  BY DEF ReadsPart
<1>2. Moved' = Moved
  BY <1>1 DEF Moved, MovedBy
<1>3. Commands' = Commands
  BY DEF Commands
<1> QED
  BY <1>1, <1>2, <1>3 DEF ParamsInv, ParamsAt, NoneBefore

LEMMA ParamsStutter ==
  ASSUME ParamsInv, UNCHANGED requestVars
  PROVE  ParamsInv'
<1>1. stream' = stream /\ answers' = answers /\ fParams' = fParams /\ cut' = cut
  BY DEF requestVars
<1>2. Moved' = Moved
  BY <1>1 DEF Moved, MovedBy
<1> QED
  BY <1>1, <1>2 DEF ParamsInv

(* What a read that completes a request does to the parameters, and what it  *)
(* answers.                                                                  *)
LEMMA ParamsRequestStep ==
  ASSUME RequestAssumption, ParseInv, ParamsInv, NEW n \in DOMAIN unread, ReadsRequest(n)
  PROVE  ParamsInv'
<1> SUFFICES ASSUME ~cut', NoneBefore(stream', Moved') PROVE ParamsAt(stream', Moved', fParams')
  BY DEF ParamsInv
<1> DEFINE k == Moved  r == stream[k + 1]  x == ProcessRequest(fRequest').answer
<1>1. PICK S : answers \in Seq(S)
  BY DEF ParseInv
<1>2. stream' = stream /\ cut' = (cut \/ Cuts(n))
  BY DEF ReadsRequest
<1>3. /\ k + 1 \in 1 .. Len(stream) /\ r \in Requests
      /\ fRequest' = ParseFirstLine(Rendered(r))
      /\ answers' = Append(answers, x)
      /\ fParams' = ProcessRequest(fRequest').fParams
  BY NextIsParsed
<1>4. Moved' = IF Failed(x) THEN k ELSE k + 1
  BY <1>1, <1>3, MovedStep
<1>5. k \in Nat
  BY <1>1, MovedIs
<1>6. Len(stream) \in Nat
  BY DEF ParseInv
<1> HIDE DEF k, x
<1>7. NoneBefore(stream, k)
  <2>1. \A j \in 1 .. k : j \in 1 .. Moved'
    BY <1>4, <1>5
  <2> QED
    BY <1>2, <2>1 DEF NoneBefore
<1>8. ParamsAt(stream, k, fParams)
  BY <1>2, <1>7 DEF ParamsInv, k
<1> HIDE DEF r
<1>9. CASE r \notin Commands
  <2>1. fParams' = fParams
    BY <1>3, <1>9, ParamsStay
  <2>2. fParams = NoParams
    BY <1>8, <1>9 DEF ParamsAt, r
  <2> QED
    BY <2>1, <2>2 DEF ParamsAt
<1>10. CASE r \in Commands
  <2>1. Failed(x) /\ Moved' = k
    <3>1. CASE ~Failed(x)
      <4>1. Moved' = k + 1 /\ k + 1 \in 1 .. Moved'
        BY <1>4, <1>5, <3>1
      <4> QED
        BY <1>2, <1>10, <4>1 DEF NoneBefore, r
    <3> QED
      BY <1>4, <3>1
  <2>2. k < Len(stream)
    BY <1>3, <1>5, <1>6
  <2>3. CASE ~(WellFormed(r) /\ r.scheme = <<>>)
    <3>1. RefusedIfMeant(r, fParams')
      BY <2>3 DEF RefusedIfMeant
    <3> QED
      BY <1>2, <1>10, <2>1, <2>2, <3>1 DEF ParamsAt, r
  <2>4. CASE WellFormed(r) /\ r.scheme = <<>>
    <3>1. fParams = NoParams \/ Refused(r, fParams)
      BY <1>8, <2>4 DEF ParamsAt, RefusedIfMeant, r
    <3>2. fRequest'.ok /\ fRequest'.fMethod = r.method /\ fRequest'.fAbsoluteURI = r.uri
      BY <1>3, <2>4, FirstLineParsed
    <3>3. fParams' = NoParams \/ Refused(r, fParams')
      BY <1>3, <1>10, <2>1, <2>4, <3>1, <3>2, CommandAnswer DEF x
    <3> QED
      BY <1>2, <1>10, <2>1, <2>2, <3>3 DEF ParamsAt, RefusedIfMeant, r
  <2> QED
    BY <2>3, <2>4
<1> QED
  BY <1>9, <1>10

(* What an answer must be: AsMeantAt, of values.                             *)
Fits(r, first, answer, last, uri, cutOff) ==
  ~cutOff /\ WellFormed(r) /\ r.scheme = <<>> /\ (r \in Commands => first)
  => /\ answer.kind = Meant(r).kind
     /\ answer.kind # "error" => answer = Meant(r)
     /\ last => uri = r.uri

LEMMA FitsPrimed ==
  ASSUME NEW i, MovedBy(i - 1)' \in Nat
  PROVE  AsMeantAt(i)' <=>
           Fits(stream'[1 + MovedBy(i - 1)'], NoneBefore(stream', MovedBy(i - 1)'), answers'[i],
                i = Len(answers'), fRequest'.fRelativeURI, cut')
<1> DEFINE m == MovedBy(i - 1)'
<1>1. (1 + m) - 1 = m
  OBVIOUS
<1>2. AsMeantAt(i)' <=>
        Fits(stream'[1 + m], \A j \in 1 .. (1 + m) - 1 : stream'[j] \notin Commands, answers'[i],
             i = Len(answers'), fRequest'.fRelativeURI, cut')
  BY DEF Fits, AsMeantAt
<1> QED
  BY <1>1, <1>2 DEF NoneBefore

LEMMA MeantInit ==
  ASSUME RequestsInit
  PROVE  AsMeant
  BY DEF RequestsInit, AsMeant

LEMMA MeantPartStep ==
  ASSUME AsMeant, NEW n \in DOMAIN unread, ReadsPart(n)
  PROVE  AsMeant'
<1>1. stream' = stream /\ answers' = answers /\ fRequest' = fRequest /\ cut' = (cut \/ Cuts(n))
  BY DEF ReadsPart
<1>2. \A i : MovedBy(i)' = MovedBy(i)
  BY <1>1 DEF MovedBy
<1>3. ASSUME NEW i, AsMeantAt(i) PROVE AsMeantAt(i)'
  BY <1>1, <1>2, <1>3 DEF AsMeantAt
<1> QED
  BY <1>1, <1>2, <1>3 DEF AsMeant

LEMMA MeantStutter ==
  ASSUME AsMeant, UNCHANGED requestVars
  PROVE  AsMeant'
<1>1. stream' = stream /\ answers' = answers /\ fRequest' = fRequest /\ cut' = cut
  BY DEF requestVars
<1>2. \A i : MovedBy(i)' = MovedBy(i)
  BY <1>1 DEF MovedBy
<1> QED
  BY <1>1, <1>2 DEF AsMeant, AsMeantAt

LEMMA MeantRequestStep ==
  ASSUME RequestAssumption, ParseInv, ParamsInv, AsMeant, NEW n \in DOMAIN unread, ReadsRequest(n)
  PROVE  AsMeant'
<1> DEFINE l == Len(answers)  x == ProcessRequest(fRequest').answer
<1>1. PICK S : answers \in Seq(S)
  BY DEF ParseInv
<1>2. /\ stream' = stream /\ cut' = (cut \/ Cuts(n)) /\ answers' = Append(answers, x)
  BY DEF ReadsRequest
<1>3. /\ l \in Nat /\ Len(answers') = l + 1 /\ answers'[l + 1] = x
      /\ DOMAIN answers = 1 .. l /\ DOMAIN answers' = 1 .. l + 1
      /\ \A i \in 1 .. l : answers'[i] = answers[i]
  BY <1>1, <1>2
<1>4. \A i \in 1 .. l + 1 : MovedBy(i - 1)' = MovedBy(i - 1)
  BY <1>1, <1>2, MovedBefore
<1> SUFFICES ASSUME NEW i \in DOMAIN answers' PROVE AsMeantAt(i)'
  BY DEF AsMeant
<1> HIDE DEF l, x
<1>5. i \in 1 .. l + 1
  BY <1>3
<1>6. CASE i \in 1 .. l
  <2>1. AsMeantAt(i)
    BY <1>3, <1>6 DEF AsMeant
  <2>2. answers'[i] = answers[i] /\ i # Len(answers') /\ MovedBy(i - 1)' = MovedBy(i - 1)
    BY <1>3, <1>4, <1>5, <1>6
  <2> QED
    BY <1>2, <2>1, <2>2 DEF AsMeantAt, l
<1>7. CASE i = l + 1
  <2> DEFINE k == Moved  r == stream[1 + k]
  <2>1. MovedBy(i - 1)' = k /\ MovedBy(i - 1) = k /\ k \in Nat
    BY <1>1, <1>3, <1>4, <1>5, <1>7, MovedIs DEF Moved, l
  <2>2. ASSUME ~cut', WellFormed(r), r.scheme = <<>>, r \in Commands => NoneBefore(stream, k)
        PROVE  /\ x.kind = Meant(r).kind
               /\ Meant(r).kind # "error" => x = Meant(r)
               /\ fRequest'.fRelativeURI = r.uri
    <3>1. r \in Requests /\ fRequest' = ParseFirstLine(Rendered(r))
      <4>1. 1 + k = k + 1
        BY <2>1
      <4> QED
        BY <2>2, <4>1, NextIsParsed
    <3> HIDE DEF r
    <3>2. /\ fRequest'.ok /\ fRequest'.fMethod = r.method
          /\ fRequest'.fAbsoluteURI = r.uri /\ fRequest'.fRelativeURI = r.uri
      BY <2>2, <3>1, FirstLineParsed
    <3>3. x.kind = Meant(r).kind /\ (Meant(r).kind # "error" => x = Meant(r))
      <4>1. CASE r \notin Commands
        BY <2>2, <3>1, <3>2, <4>1, PlainAnswer DEF x
      <4>2. CASE r \in Commands
        <5>1. ParamsAt(stream, k, fParams)
          BY <1>2, <2>2, <4>2 DEF ParamsInv
        <5>2. fParams = NoParams \/ Refused(r, fParams)
          <6>1. 1 + k = k + 1
            BY <2>1
          <6> HIDE DEF k
          <6>2. r = stream[k + 1]
            BY <6>1 DEF r
          <6> QED
            BY <2>2, <5>1, <6>2 DEF ParamsAt, RefusedIfMeant
        <5> QED
          BY <2>2, <3>1, <3>2, <4>2, <5>2, CommandAnswer DEF x
      <4> QED
        BY <4>1, <4>2
    <3> QED
      BY <3>2, <3>3
  <2>3. answers'[i] = x
    BY <1>3, <1>7
  <2>4. x.kind # "error" => Meant(r).kind # "error" \/ x.kind # Meant(r).kind
    OBVIOUS
  <2> HIDE DEF r, k
  <2>5. Fits(r, NoneBefore(stream, k), answers'[i], i = Len(answers'), fRequest'.fRelativeURI, cut')
    BY <2>2, <2>3, <2>4 DEF Fits
  <2>6. AsMeantAt(i)' <=>
          Fits(stream'[1 + MovedBy(i - 1)'], NoneBefore(stream', MovedBy(i - 1)'), answers'[i],
               i = Len(answers'), fRequest'.fRelativeURI, cut')
    <3>1. MovedBy(i - 1)' \in Nat
      BY <2>1
    <3> QED
      BY <3>1, FitsPrimed
  <2> QED
    BY <1>2, <2>1, <2>5, <2>6 DEF r
<1> QED
  BY <1>3, <1>5, <1>6, <1>7

-----------------------------------------------------------------------------
(* Whatever reads it came in and whatever was sent before it, a request is   *)
(* answered as it is meant, unless it is for a full URI, a command behind    *)
(* another one, or one behind a read that ended between \r and \n            *)
(* (HTTPSession.cpp:306, 376-416, 528-609; HTTPRequest.cpp:91-149).               *)
THEOREM AlwaysAsMeant ==
  ASSUME RequestAssumption
  PROVE  RequestsSpec => []AsMeant
<1> DEFINE IInv == ParseInv /\ ParamsInv /\ AsMeant
<1>1. RequestsInit => IInv
  BY ParseInit, ParamsInit, MeantInit
<1>2. IInv /\ [RequestsNext]_requestVars => IInv'
  <2> SUFFICES ASSUME ParseInv, ParamsInv, AsMeant, [RequestsNext]_requestVars
               PROVE  ParseInv' /\ ParamsInv' /\ AsMeant'
    OBVIOUS
  <2>1. CASE UNCHANGED requestVars
    BY <2>1, NoReadStep, ParamsStutter, MeantStutter
  <2>2. CASE RequestsNext
    <3>1. PICK n \in DOMAIN unread : ReadsPart(n) \/ ReadsRequest(n)
      BY <2>2 DEF RequestsNext
    <3>2. CASE ReadsPart(n)
      BY <3>2, PartStep, ParamsPartStep, MeantPartStep
    <3>3. CASE ReadsRequest(n)
      BY <3>3, RequestStep, ParamsRequestStep, MeantRequestStep
    <3> QED
      BY <3>1, <3>2, <3>3
  <2> QED
    BY <2>1, <2>2
<1> QED
  BY <1>1, <1>2, PTL DEF RequestsSpec
=============================================================================
