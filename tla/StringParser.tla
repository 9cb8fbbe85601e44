---------------------------- MODULE StringParser ----------------------------
(***************************************************************************)
(* The parser over a buffer with which requests are taken apart            *)
(* (StringParser.cpp): a cursor, the line it is in, and for each call what *)
(* it consumed, as a string that lies in the buffer itself.  Any sequence  *)
(* of calls is made on any short text; between them the caller may trim,   *)
(* unquote or squeeze the string it got.                                   *)
(***************************************************************************)
EXTENDS StrPtrLen

CONSTANTS
  Texts,     \* the texts to parse: sequences of bytes
  Beyond,    \* the bytes that may lie behind a text
  Queries,   \* C strings to look for in a token
  LenSize    \* 2^32, the numbers there are for a length

ASSUME ParserAssumption ==
  /\ Texts \subseteq Seq(Byte) /\ Beyond \subseteq Byte /\ Queries \subseteq Seq(Byte \ {0})
  /\ LenSize \in Nat \ {0}

VARIABLES
  mem,            \* the text from address 0 on, and one byte behind it
  fStartGet, fEndGet, \* NULL, both, for a parser over no string
  fCurLineNumber,
  token,          \* outString of the last call
  value,          \* what ConsumeInteger, ConsumeFloat or ConsumeNPT returned
  lines,          \* history: the strings GetThruEOL gave, if only it was called
  text,           \* history: what mem was at the start
  disturbed       \* history: the parser has gone backwards, or the text was squeezed

parserVars == <<mem, fStartGet, fEndGet, fCurLineNumber, token, value, lines, text, disturbed>>

cr == 13  lf == 10
Digits == 48 .. 57
Letters == (65 .. 90) \cup (97 .. 122)
sNonWordMask == Byte \ (Letters \cup {45, 95})
sWordMask == Letters \cup {45, 95}
sDigitMask == Digits
sEOLMask == {lf, cr}
sWhitespaceMask == Byte \ ((9 .. 13) \cup {blank})
sEOLWhitespaceMask == (9 .. 13) \cup {blank}
sEOLWhitespaceQueryMask == (9 .. 13) \cup {blank, 63}
Masks == {sNonWordMask, sWordMask, sDigitMask, sEOLMask, sWhitespaceMask,
          sEOLWhitespaceMask, sEOLWhitespaceQueryMask}

Over(ptr, end) ==
  /\ fStartGet = ptr /\ fEndGet = end
  /\ fCurLineNumber = 1 /\ token = NullString /\ value = <<>>
  /\ lines = <<>> /\ disturbed = FALSE
OverText(t, behind) ==
  /\ mem = [a \in 0 .. Len(t) |-> IF a = Len(t) THEN behind ELSE t[a + 1]]
  /\ text = t
  /\ Over(0, Len(t))
OverNoString == mem = <<>> /\ text = <<>> /\ Over(NULL, NULL)
ParserInit == OverNoString \/ \E t \in Texts, behind \in Beyond : OverText(t, behind)

-----------------------------------------------------------------------------
ParserIsEmpty == fStartGet = NULL
Left == fEndGet - fStartGet

(* AdvanceMark counts a line at its last character; whether a "\r" is that *)
(* is seen from the byte behind it.                                        *)
CountsTwice(a) == mem[a] \in sEOLMask                \* wrong: "\r\n" is two
EndsLine(a) == mem[a] = lf \/ (mem[a] = cr /\ mem[a + 1] # lf)
LinesEnded(n) == Cardinality({a \in fStartGet .. fStartGet + n - 1 : EndsLine(a)})
Advance(n) ==
  /\ fStartGet' = fStartGet + n
  /\ fCurLineNumber' = fCurLineNumber + LinesEnded(n)
  /\ UNCHANGED <<mem, fEndGet, text>>

(* A call on a parser over no string gives the null string, if any.        *)
Consumes(n, str, val) ==
  /\ IF ParserIsEmpty THEN UNCHANGED <<mem, fStartGet, fEndGet, fCurLineNumber, text>>
     ELSE Advance(n)
  /\ token' = IF ParserIsEmpty THEN NullString ELSE str
  /\ value' = val
  /\ UNCHANGED disturbed
Consumed(n) == Str(fStartGet, n)

(* The characters up to the first one in stop.                             *)
RunFrom(a, stop) ==
  LET at == {i \in a .. fEndGet - 1 : mem[i] \in stop}
  IN (IF at = {} THEN fEndGet ELSE CHOOSE i \in at : \A j \in at : i <= j) - a
ConsumeUntil(stop) ==
  LET n == RunFrom(fStartGet, stop)
  IN Consumes(n, Consumed(n), <<>>) /\ lines' = <<>>

(* With a negative length it goes back, lines and all ("may mess up line   *)
(* number if we back up too much", StringParser.cpp:303).  Bound: once.    *)
ConsumeLength(inLength) ==
  LET n == IF Left < inLength THEN Left ELSE inLength
  IN /\ ~ParserIsEmpty
     /\ fStartGet + n >= 0 /\ (n < 0 => ~disturbed)
     /\ IF n >= 0 THEN Consumes(n, Consumed(n), <<>>)
        ELSE /\ fStartGet' = fStartGet + n
             /\ token' = Str(fStartGet, LenSize + n)
             /\ value' = <<>> /\ disturbed' = TRUE
             /\ UNCHANGED <<mem, fEndGet, fCurLineNumber, text>>
     /\ lines' = <<>>

-----------------------------------------------------------------------------
(* Numbers.                                                                *)
DigitsFrom(a) == RunFrom(a, Byte \ Digits)
NumberAt(a, n) ==
  LET val[i \in 0 .. n] == IF i = 0 THEN 0 ELSE val[i - 1] * 10 + (mem[a + i - 1] - 48)
  IN val[n]

ConsumeInteger ==
  LET n == DigitsFrom(fStartGet)
  IN /\ Consumes(n, Consumed(n), <<IF ParserIsEmpty THEN 0 ELSE NumberAt(fStartGet, n) % LenSize>>)
     /\ lines' = <<>>

(* A number before the point and the digits behind it, over a power of 10; *)
(* the rounding of Float32 is left out.                                    *)
Fraction(a) == <<NumberAt(a, DigitsFrom(a)), 10 ^ DigitsFrom(a)>>
IsChar(a, c) == a < fEndGet /\ mem[a] = c
ConsumeFloat ==
  LET whole == DigitsFrom(fStartGet)
      point == IF IsChar(fStartGet + whole, 46) THEN 1 ELSE 0
      behind == fStartGet + whole + point
  IN /\ ~ParserIsEmpty
     /\ Consumes(whole + point + DigitsFrom(behind), token,
              <<NumberAt(fStartGet, whole)>> \o Fraction(behind))
     /\ lines' = <<>>

(* ConsumeNPT: seconds with a fraction, or hours, minutes and seconds with *)
(* one.  A number is followed by at most one "." or ":" that is consumed.  *)
NPTStops(a, i, hhmmss) == a >= fEndGet \/ (~hhmmss /\ i >= 1)
NPTGoesOn(a, i, hhmmss) ==
  \/ IsChar(a, 46) /\ ~hhmmss /\ i = 0
  \/ IsChar(a, 58) /\ i < 2
  \/ IsChar(a, 46) /\ i = 2
NPTBegins == [at |-> fStartGet, hms |-> FALSE, nums |-> <<>>, over |-> FALSE]
NPTRead(p, i) ==  \* the number i: where it ends, whether hhmmss, the numbers read, whether it is the last
  LET a == p.at + DigitsFrom(p.at)
      nums == Append(p.nums, Fraction(p.at))
  IN IF p.over THEN p
     ELSE IF NPTStops(a, i, p.hms) \/ ~NPTGoesOn(a, i, p.hms)
     THEN [at |-> a, hms |-> p.hms, nums |-> nums, over |-> TRUE]
     ELSE [at |-> a + 1, hms |-> p.hms \/ IsChar(a, 58), nums |-> nums, over |-> FALSE]
NPT == NPTRead(NPTRead(NPTRead(NPTRead(NPTBegins, 0), 1), 2), 3)
NumOf(npt, i) == IF i \in DOMAIN npt.nums THEN npt.nums[i] ELSE <<0, 1>>
Seconds ==
  IF NPT.hms
  THEN <<NumOf(NPT, 1)[1] * 3600 + NumOf(NPT, 2)[1] * 60 + NumOf(NPT, 3)[1]>> \o NumOf(NPT, 4)
  ELSE <<NumOf(NPT, 1)[1]>> \o NumOf(NPT, 2)
ConsumeNPT ==
  ~ParserIsEmpty /\ Consumes(NPT.at - fStartGet, token, Seconds) /\ lines' = <<>>

-----------------------------------------------------------------------------
(* Ends of lines: "\r", "\n" or "\r\n".                                    *)
EOLAt(a) ==
  IF IsChar(a, cr) /\ IsChar(a + 1, lf) THEN 2
  ELSE IF IsChar(a, cr) \/ IsChar(a, lf) THEN 1 ELSE 0

Expect(c) ==
  /\ Consumes(IF IsChar(fStartGet, c) THEN 1 ELSE 0, token, <<>>) /\ lines' = <<>>
ExpectEOL == Consumes(EOLAt(fStartGet), token, <<>>) /\ lines' = <<>>
ConsumeEOL == Consumes(EOLAt(fStartGet), Consumed(EOLAt(fStartGet)), <<>>) /\ lines' = <<>>

GetThru(c) ==
  LET n == RunFrom(fStartGet, {c})
  IN Consumes(n + (IF n < Left THEN 1 ELSE 0), Consumed(n), <<>>) /\ lines' = <<>>

GetThruEOL ==
  LET n == RunFrom(fStartGet, sEOLMask)
      first == fStartGet = 0 /\ ~disturbed
  IN /\ Consumes(n + EOLAt(fStartGet + n), Consumed(n), <<>>)
     /\ lines' = IF fStartGet < fEndGet /\ (first \/ lines # <<>>)
                 THEN Append(lines, BytesOf(mem, Consumed(n))) ELSE lines

-----------------------------------------------------------------------------
(* What the caller does with the token.                                    *)
Usable == token.Ptr # NULL /\ token.Ptr + token.Len <= fEndGet
Becomes(str) ==
  /\ token' = str
  /\ UNCHANGED <<fStartGet, fEndGet, fCurLineNumber, value, text>>

Quotes == {quote, apostrophe}
UnQuote ==
  LET first == IF mem[token.Ptr] \in Quotes THEN 1 ELSE 0
      last  == IF mem[token.Ptr + token.Len - 1] \in Quotes THEN 1 ELSE 0
  IN /\ Usable /\ token.Len >= 2
     /\ Becomes(Str(token.Ptr + first, token.Len - first - last))
     /\ UNCHANGED <<mem, lines, disturbed>>

Trim == Usable /\ Becomes(TrimWhitespace(mem, token)) /\ UNCHANGED <<mem, lines, disturbed>>

RemoveWhitespace ==
  /\ Usable
  /\ Becomes(Str(token.Ptr, Len(Squeezed(mem, token))))
  /\ mem' = MemorySqueezed(mem, token)
  /\ lines' = <<>> /\ disturbed' = (disturbed \/ mem' # mem)

ParserNext ==
  \/ \E stop \in Masks \cup {{b} : b \in {quote}} : ConsumeUntil(stop)
  \/ \E n \in {-1, 1, 2} : ConsumeLength(n)
  \/ ConsumeInteger \/ ConsumeFloat \/ ConsumeNPT
  \/ \E c \in {blank, quote} : Expect(c) \/ GetThru(c)
  \/ ExpectEOL \/ ConsumeEOL \/ GetThruEOL
  \/ UnQuote \/ Trim \/ RemoveWhitespace

ParserSpec == ParserInit /\ [][ParserNext]_parserVars

-----------------------------------------------------------------------------
(* The cursor stays in the buffer (Assert(fStartGet <= fEndGet),           *)
(* StringParser.h:183), and the line number counts the lines behind it,    *)
(* each once in whichever form it ends, over any sequence of calls.  A     *)
(* "\r" that ends the text is not counted when the byte behind the text,   *)
(* which is not the parser's, is a "\n": that line is never counted, for   *)
(* the "\n" is never consumed.                                             *)
EndsIn(a) ==
  \/ a + 1 \in DOMAIN text /\ text[a + 1] = lf
  \/ a + 1 \in DOMAIN text /\ text[a + 1] = cr /\ ~(a + 2 \in DOMAIN text /\ text[a + 2] = lf)
EndIsSeen == text = <<>> \/ text[Len(text)] # cr \/ mem[Len(text)] # lf
CountedAt(a) == EndsIn(a) /\ (a + 1 = Len(text) => EndIsSeen)
LinesCounted ==
  /\ fStartGet <= fEndGet
  /\ fStartGet # NULL /\ ~disturbed =>
         fCurLineNumber = 1 + Cardinality({a \in 0 .. fStartGet - 1 : CountedAt(a)})

(* Lines read with GetThruEOL are the lines of the text: put together with *)
(* what lies between them they give it back, and none has an end in it.    *)
Total(strs) == LET sum[i \in 0 .. Len(strs)] == IF i = 0 THEN 0 ELSE sum[i - 1] + Len(strs[i])
               IN sum[Len(strs)]
LinesOfText ==
  lines # <<>> =>
    /\ \A i \in DOMAIN lines : Range(lines[i]) \cap sEOLMask = {}
    /\ Total(lines) = Cardinality({a \in 0 .. fStartGet - 1 : text[a + 1] \notin sEOLMask})
    /\ Len(lines) = Cardinality({a \in 0 .. fStartGet - 1 : EndsIn(a)})
                      + (IF text[fStartGet] \in sEOLMask THEN 0 ELSE 1)

(* FindStringCase finds the first place in the token, and only there, at   *)
(* which each byte is the query's, up to its case; a 0 ends the token.     *)
FoldsTo(b, c, caseSensitive) ==
  b = c \/ (~caseSensitive /\ {b, c} \subseteq Letters /\ (b - c) \in {32, -32})
FoundAt(s, q, k, caseSensitive) ==
  /\ k + Len(q) <= s.Len
  /\ \A i \in 0 .. k + Len(q) - 1 : mem[s.Ptr + i] # 0
  /\ \A i \in DOMAIN q : FoldsTo(mem[s.Ptr + k + i - 1], q[i], caseSensitive)
FoundInToken ==
  Usable => \A q \in Queries, caseSensitive \in BOOLEAN :
    LET found == FindStringCase(mem, token, q, caseSensitive)
        at == {k \in 0 .. token.Len - 1 : FoundAt(token, q, k, caseSensitive)}
    IN IF at = {} THEN found = NullString
       ELSE /\ found = Str(token.Ptr + (CHOOSE k \in at : \A j \in at : k <= j), Len(q))
            /\ caseSensitive => GetAsCString(mem, found) = q

(* Comparing without case agrees with comparing in upper case, byte for    *)
(* byte and in length, and the comparison of a prefix with that of all.    *)
CaseAgrees ==
  Usable => \A q \in Queries :
    LET bytes == BytesOf(mem, token)
        same  == NumEqualIgnoreCase(bytes, q, Len(q)) IN
    /\ EqualIgnoreCase(q, bytes) <=> ToUpper(q) = ToUpper(bytes)
    /\ EqualIgnoreCase(q, bytes) <=> same /\ Len(bytes) = Len(q)
    /\ same <=> Len(q) <= Len(bytes) /\ ToUpper(q) = ToUpper(SubSeq(bytes, 1, Len(q)))

(* The string parser knows its line and splits a text into its lines       *)
(* (StringParser.cpp:480); the string search stays in its string and folds *)
(* case byte for byte (StrPtrLen.cpp:163).                                 *)
LinesRight == LinesCounted /\ LinesOfText
SearchRight == FoundInToken /\ CaseAgrees
=============================================================================
