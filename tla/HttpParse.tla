------------------------------ MODULE HttpParse ------------------------------
(***************************************************************************)
(* What a session makes of the bytes it receives: where a request ends     *)
(* (HTTPSession::IsFullRequest), what its first line says (HTTPRequest,    *)
(* HTTPProtocol, StringParser), which answer it gets, with the parameters  *)
(* of a command, and when it leaves the buffer.  How answers are sent, and *)
(* what happens when a buffer is full, is in HttpSession.                  *)
(*                                                                         *)
(* A character is a member of a small set: an end-of-line character, a     *)
(* blank, a separator of a URI, or a word that the code never looks into.  *)
(* What clients send is made from records by Rendered, so that what the    *)
(* code finds can be compared with what was meant.                         *)
(***************************************************************************)
EXTENDS Integers, Sequences, FiniteSets, SequencesExt

CONSTANTS
  Requests,   \* what a client may send: see RequestAssumption
  MaxStream,  \* bound: how many of them on one connection
  RootPath    \* the URIs that name a readable file under ROOT_PATH

CR == "\r"  LF == "\n"  SP == " "
EOLs == {CR, LF}
Blanks == {CR, LF, SP}
sURLStopConditions == {CR, LF, SP}
Words == {"GET", "HEAD", "POST", "OPTIONS", "PUT", "DELETE", "TRACE", "CONNECT", "word"}
Versions == <<"HTTP/0.9", "HTTP/1.0", "HTTP/1.1">>
Numbers == {"5", "7"}

(* A request as the client means it: its URI is a full one if it has a      *)
(* scheme and a host.                                                      *)
Rendered(r) ==
  <<r.method, SP>> \o r.scheme \o r.uri
  \o (IF r.version = <<>> THEN <<>> ELSE <<SP>>) \o r.version \o r.eol
  \o FlattenSeq([i \in 1 .. r.headers |-> <<"word", ":", SP, "word">> \o r.eol]) \o r.eol

RequestAssumption ==
  /\ \A r \in Requests : /\ DOMAIN r = {"method", "scheme", "uri", "version", "headers", "eol"}
                         /\ r.method \in Words /\ r.headers \in Nat
                         /\ r.scheme \in {<<>>, <<"http://", "host">>}
                         /\ r.uri \in Seq(STRING) /\ ToSet(r.uri) \cap Blanks = {}
                         /\ r.version \in Seq(STRING) /\ ToSet(r.version) \cap Blanks = {}
                         /\ r.eol \in {<<CR>>, <<LF>>, <<CR, LF>>}
  /\ MaxStream \in Nat

VARIABLES
  stream,       \* the requests a client sends on one connection
  unread,       \* what of them is still to be read
  fStrReceived, \* the request buffer
  fRequest,     \* the last request parsed
  fParams,
  answers,      \* history: the answer to each ProcessRequest
  cut           \* history: whether a read ended between the last two characters of a request
requestVars == <<stream, unread, fStrReceived, fRequest, fParams, answers, cut>>

-----------------------------------------------------------------------------
(* StringParser.  A position is the index of the next character.           *)
UntilOr(s, i, Stop(_)) ==
  LET j == SelectInSubSeq(s, i, Len(s), Stop) IN IF j = 0 THEN Len(s) + 1 ELSE j
TextUntil(s, i, mask) == UntilOr(s, i, LAMBDA c : c \in mask)
ConsumeWord(s, i) == UntilOr(s, i, LAMBDA c : c \notin Words)
ConsumeWhitespace(s, i) == UntilOr(s, i, LAMBDA c : c \notin Blanks)

(* The position after an end of line in any of its forms, or i.            *)
At(s, i, c) == i \in DOMAIN s /\ s[i] = c
CrLfOnly(s, i) == IF At(s, i, CR) /\ At(s, i + 1, LF) THEN i + 2 ELSE i  \* wrong: one form
PastEOL(s, i) ==
  IF At(s, i, CR) /\ At(s, i + 1, LF) THEN i + 2
  ELSE IF At(s, i, CR) \/ At(s, i, LF) THEN i + 1 ELSE i

(* IsFullRequest: the length of the first request in the buffer, 0 if it   *)
(* is not full.  A request ends with an end of line behind another one.    *)
RequestLen(s) ==
  LET after[i \in 1 .. Len(s) + 1] ==
        LET j == TextUntil(s, i, EOLs)
            k == PastEOL(s, j)
            l == PastEOL(s, k)
        IN IF k = j THEN 0 ELSE IF l # k THEN l - 1 ELSE after[k]
  IN after[1]

-----------------------------------------------------------------------------
(* HTTPProtocol                                                            *)
GetMethod(word) == IF word \in {<<m>> : m \in Words \ {"word"}} THEN word[1] ELSE "illegal"
GetVersion(str) == IF \E v \in DOMAIN Versions : str = <<Versions[v]>> THEN str[1] ELSE "illegal"

(* sStatusCodeAsStrings, and the index that ResponseError is called with.  *)
sStatusCodes ==
  <<"100", "101", "200", "201", "202", "203", "204", "205", "206",
    "300", "301", "302", "303", "304", "305", "307",
    "400", "401", "402", "403", "404", "405", "406", "407", "408", "409", "410", "411",
    "412", "413", "414", "415", "416", "417", "500", "501", "502", "503", "504", "505">>
qtssClientBadRequest == 13
GetStatusCode(status) == sStatusCodes[status + 1]

(* HTTPRequest::ParseURI: what is behind the scheme and the host of a full *)
(* URI.                                                                    *)
Relative(uri) ==
  IF At(uri, 1, "/") THEN uri ELSE SubSeq(uri, TextUntil(uri, 2, {"/"}), Len(uri))

(* HTTPRequest::ParseFirstLine; ok is false if no end of line is found.    *)
ParseFirstLine(s) ==
  LET a == ConsumeWord(s, 1)
      b == ConsumeWhitespace(s, a)
      c == TextUntil(s, b, sURLStopConditions)
      d == ConsumeWhitespace(s, c)
      e == TextUntil(s, d, EOLs)
      version == SubSeq(s, d, e - 1)
  IN [fMethod |-> GetMethod(SubSeq(s, 1, a - 1)),
      fAbsoluteURI |-> SubSeq(s, b, c - 1),
      fRelativeURI |-> Relative(SubSeq(s, b, c - 1)),
      fVersion |-> IF version = <<>> THEN "HTTP/1.0" ELSE GetVersion(version),
      ok |-> PastEOL(s, e) # e]

NoRequest == [fMethod |-> "GET", fAbsoluteURI |-> <<>>, fRelativeURI |-> <<>>,
              fVersion |-> "HTTP/1.0", ok |-> TRUE]

-----------------------------------------------------------------------------
(* HTTPSession::ParseParams: what is between two "&" has its key before    *)
(* the first "=" (parse_key_value); insert keeps what the map has.         *)
AddChar(parts, c) ==
  IF c = "&" THEN Append(parts, <<>>)
  ELSE [parts EXCEPT ![Len(parts)] = Append(@, c)]
Split(params) == FoldLeft(AddChar, << <<>> >>, params)
Overwrite(map, key, value) ==                        \* wrong: the last one counts
  [k \in DOMAIN map \cup {key} |-> IF k = key THEN value ELSE map[k]]
Insert(map, key, value) ==
  [k \in DOMAIN map \cup {key} |-> IF k \in DOMAIN map THEN map[k] ELSE value]
InsertPart(map, part) ==
  LET j == SelectInSeq(part, LAMBDA c : c = "=") IN
  IF j < 2 THEN map ELSE Insert(map, SubSeq(part, 1, j - 1), SubSeq(part, j + 1, Len(part)))
ParseParams(map, params) == FoldLeft(InsertPart, map, Split(params))

(* The number at the start of a value, of one digit here.                  *)
atoi(value) == IF value # <<>> /\ value[1] \in Numbers THEN value[1] ELSE "0"

Reply(kind, arg) == [kind |-> kind, arg |-> arg]
Failed(answer) == answer.kind \in {"error", "false"}

(* ResponseCmd.  fParams[k] puts an empty value where there is none.       *)
WithCmd(params) == Insert(ParseParams(fParams, params), <<"cmd">>, <<>>)
ResponseCmd(params) ==
  LET map == WithCmd(params) IN
  IF map[<<"cmd">>] = <<"get_hottest">>
  THEN [fParams |-> Insert(map, <<"N">>, <<>>),
        answer |-> Reply("hottest", <<atoi(Insert(map, <<"N">>, <<>>)[<<"N">>])>>)]
  ELSE [fParams |-> map, answer |-> Reply("false", <<>>)]

(* ResponseGet                                                             *)
Unchanged(answer) == [fParams |-> fParams, answer |-> answer]
ResponseGet(uri) ==
  IF uri = <<>> THEN Unchanged(Reply("false", <<>>))
  ELSE IF uri = <<"/">> THEN Unchanged(Reply("hello", <<>>))
  ELSE IF At(uri, 1, "/") /\ At(uri, 2, "?") THEN ResponseCmd(SubSeq(uri, 3, Len(uri)))
  ELSE Unchanged(Reply(IF uri \in RootPath THEN "file" ELSE "not found", uri))

(* ProcessRequest: the answer to a request and the new fParams.            *)
ProcessRequest(request) ==
  IF ~request.ok THEN Unchanged(Reply("malformed", <<>>))
  ELSE IF request.fMethod = "GET" THEN ResponseGet(request.fAbsoluteURI)
  ELSE Unchanged(Reply("error", <<GetStatusCode(qtssClientBadRequest)>>))

MoveOnRequest(s, n, answer) == IF Failed(answer) THEN s ELSE SubSeq(s, n + 1, Len(s))

-----------------------------------------------------------------------------
RequestsInit ==
  /\ stream \in UNION {[1 .. n -> Requests] : n \in 1 .. MaxStream}
  /\ unread = FlattenSeq([i \in DOMAIN stream |-> Rendered(stream[i])])
  /\ fStrReceived = <<>>
  /\ fRequest = NoRequest
  /\ fParams = [k \in {} |-> <<>>]
  /\ answers = <<>>
  /\ cut = FALSE

(* A read takes n characters and completes no request ...                  *)
Received(n) == fStrReceived \o SubSeq(unread, 1, n)
Cuts(n) == IsSuffix(<<CR, LF, CR>>, Received(n)) /\ At(unread, n + 1, LF)
ReadsPart(n) ==
  /\ n \in DOMAIN unread
  /\ RequestLen(Received(n)) = 0
  /\ fStrReceived' = Received(n)
  /\ unread' = SubSeq(unread, n + 1, Len(unread))
  /\ cut' = (cut \/ Cuts(n))
  /\ UNCHANGED <<stream, fRequest, fParams, answers>>

(* ... or one that is processed at once; the others wait for the next read. *)
ReadsRequest(n) ==
  LET s == Received(n)
      len == RequestLen(s)
      request == ParseFirstLine(SubSeq(s, 1, len))
      processed == ProcessRequest(request)
  IN /\ n \in DOMAIN unread
     /\ len > 0
     /\ fRequest' = request
     /\ fParams' = processed.fParams
     /\ answers' = Append(answers, processed.answer)
     /\ fStrReceived' = MoveOnRequest(s, len, processed.answer)
     /\ unread' = SubSeq(unread, n + 1, Len(unread))
     /\ cut' = (cut \/ Cuts(n))
     /\ UNCHANGED stream

RequestsNext == \E n \in DOMAIN unread : ReadsPart(n) \/ ReadsRequest(n)

RequestsSpec == RequestsInit /\ [][RequestsNext]_requestVars

-----------------------------------------------------------------------------
RequestsTypeOK ==
  /\ IsSuffix(fStrReceived \o unread, FlattenSeq([i \in DOMAIN stream |-> Rendered(stream[i])]))
  /\ fRequest.fMethod \in Words \cup {"illegal"}
  /\ fRequest.fVersion \in ToSet(Versions) \cup {"illegal"}
  /\ \A i \in DOMAIN answers :
       answers[i].kind \in {"hello", "hottest", "file", "not found", "false", "error", "malformed"}

(* How many requests the code has moved on from, and how many it has       *)
(* received as a whole.                                                    *)
MovedBy(i) == Cardinality({j \in 1 .. i : ~Failed(answers[j])})
Moved == MovedBy(Len(answers))
WholeRequests ==
  LET size(k) == Len(FlattenSeq([i \in 1 .. k |-> Rendered(stream[i])]))
      total == size(Len(stream))
  IN Cardinality({k \in DOMAIN stream : size(k) <= total - Len(unread)})

(* A command, also one that is taken for one: a request without a URI, whose *)
(* version is then read as the URI.                                          *)
Commands == {r \in Requests : At(r.uri, 2, "?") \/ (r.uri = <<>> /\ At(r.version, 2, "?"))}

(* The parameters of a command, each a key and a value of one character; no  *)
(* value is "cmd" or "N".                                                    *)
Keyed(uri) ==
  \E n \in 1 .. Len(uri) :
    /\ Len(uri) = 4 * n + 1
    /\ \A i \in 1 .. n : /\ uri[4 * i - 2] = IF i = 1 THEN "?" ELSE "&"
                        /\ uri[4 * i - 1] \notin {"&", "="} /\ uri[4 * i] = "="
                        /\ uri[4 * i + 1] \notin {"&", "cmd", "N"}

(* What is meant by a request line: a method, a URI and perhaps a version.  *)
(* Without one the end of the line is skipped as white space, so that        *)
(* something must follow.                                                    *)
WellFormed(r) ==
  /\ r.method # "word" /\ At(r.uri, 1, "/")
  /\ At(r.uri, 2, "?") => Keyed(r.uri)
  /\ r.version # <<>> \/ r.headers > 0
Parameter(r, key) ==
  LET i == SelectInSubSeq(r.uri, 2, Len(r.uri), LAMBDA c : c = key) IN
  IF i = 0 THEN "" ELSE r.uri[i + 2]
Meant(r) ==
  IF r.method # "GET" THEN Reply("error", <<"400">>)
  ELSE IF At(r.uri, 2, "?") THEN
         IF Parameter(r, "cmd") = "get_hottest"
         THEN Reply("hottest", <<IF Parameter(r, "N") \in Numbers THEN Parameter(r, "N") ELSE "0">>)
         ELSE Reply("false", <<>>)
  ELSE IF r.uri = <<"/">> THEN Reply("hello", <<>>)
  ELSE Reply(IF r.uri \in RootPath THEN "file" ELSE "not found", r.uri)

(* A request is answered as it is meant, whatever reads it arrives in and    *)
(* whatever precedes it, and its relative URI is that of the request line.   *)
(* Not so for a full URI (whose scheme and host nobody takes off), for a     *)
(* command after another one (whose parameters fParams still has), and after *)
(* a read that ends between the \r and the \n at the end of a request        *)
(* (HTTPSession.cpp:306, 376-416, 562; HTTPRequest.cpp:91-126).              *)
AsMeantAt(i) ==
  LET k == 1 + MovedBy(i - 1)
      r == stream[k]
  IN ~cut /\ WellFormed(r) /\ r.scheme = <<>>
     /\ (r \in Commands => \A j \in 1 .. k - 1 : stream[j] \notin Commands)
     => /\ answers[i].kind = Meant(r).kind
        /\ answers[i].kind # "error" => answers[i] = Meant(r)
        /\ i = Len(answers) => fRequest.fRelativeURI = r.uri
AsMeant == \A i \in DOMAIN answers : AsMeantAt(i)

(* A read leads to an answer if there is then a whole request that the       *)
(* session has not moved on from, and to none otherwise: the end of a        *)
(* request is found in each of its three forms, and nowhere else             *)
(* (HTTPSession.cpp:300-316, StringParser.cpp:408-425).                      *)
AnsweredWhenWhole ==
  [][~cut' => (answers' # answers <=> WholeRequests' > Moved)]_requestVars
=============================================================================
