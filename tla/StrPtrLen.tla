----------------------------- MODULE StrPtrLen -----------------------------
(***************************************************************************)
(* The strings of BaseServer (StrPtrLen.cpp): a place in memory and a      *)
(* length, with no terminator.  Memory is a function from addresses to     *)
(* bytes, a C string a sequence of bytes without its 0.  The print         *)
(* functions are left out.                                                 *)
(***************************************************************************)
EXTENDS Integers, Sequences, FiniteSets, Functions

Sets == INSTANCE FiniteSetsExt

Byte == 0 .. 255
blank == 32  tab == 9  quote == 34  apostrophe == 39
NULL == -1
NullString == [Ptr |-> NULL, Len |-> 0]

BytesOf(mem, s) == [i \in 1 .. s.Len |-> mem[s.Ptr + i - 1]]

(* The constructor and Set, with a length.                                 *)
Str(ptr, len) == [Ptr |-> ptr, Len |-> len]

(* Up to the first 0.                                                      *)
CString(bytes) ==
  SubSeq(bytes, 1, Sets!Max({n \in 0 .. Len(bytes) : \A i \in 1 .. n : bytes[i] # 0}))

GetAsCString(mem, s) == IF s.Ptr = NULL THEN <<>> ELSE CString(BytesOf(mem, s))

-----------------------------------------------------------------------------
(* The table has 130 entries; what a byte beyond it is compared as is      *)
(* whatever lies there.                                                    *)
sCaseInsensitiveMask == [b \in 0 .. 129 |-> IF b \in 65 .. 90 THEN b + 32 ELSE b]

SameBut(a, b) ==
  \A x \in DOMAIN a : sCaseInsensitiveMask[a[x]] = sCaseInsensitiveMask[b[x]]
EqualIgnoreCase(a, b) == Len(a) = Len(b) /\ SameBut(a, b)

NumEqualIgnoreCase(a, compare, len) ==
  len <= Len(a) /\ SameBut(SubSeq(a, 1, len), SubSeq(compare, 1, len))

toupper(b) == IF b \in 97 .. 122 THEN b - 32 ELSE b
ToUpper(bytes) == [x \in DOMAIN bytes |-> toupper(bytes[x])]

(* strstr, of the C library: the offset of the first occurrence, or NULL.  *)
IsAt(query, source, k) ==
  k + Len(query) <= Len(source) /\ \A i \in DOMAIN query : source[k + i] = query[i]
strstr(source, query) ==
  IF \E k \in 0 .. Len(source) : IsAt(query, source, k)
  THEN CHOOSE k \in 0 .. Len(source) :
         IsAt(query, source, k) /\ \A j \in 0 .. k - 1 : ~IsAt(query, source, j)
  ELSE NULL

(* The source is copied to be terminated, unless it ends with a 0.         *)
Unterminated(mem, s) ==                              \* wrong: goes on behind it
  CString([i \in 1 .. Cardinality(DOMAIN mem) - s.Ptr |-> mem[s.Ptr + i - 1]])
Terminated(mem, s) == CString(BytesOf(mem, s))

FindStringCase(mem, s, query, caseSensitive) ==
  IF s.Ptr = NULL \/ s.Len = 0 THEN NullString
  ELSE LET source == Terminated(mem, s)
           k == IF caseSensitive THEN strstr(source, query)
                ELSE strstr(ToUpper(source), ToUpper(query))
       IN IF k = NULL \/ k > s.Len THEN NullString ELSE Str(s.Ptr + k, Len(query))

-----------------------------------------------------------------------------
IsBlank(b) == b \in {blank, tab}

(* How many characters of the string are blank from its start, or from its *)
(* end, on.                                                                *)
Leading(bytes) == Sets!Max({n \in 0 .. Len(bytes) : \A i \in 1 .. n : IsBlank(bytes[i])})
Trailing(bytes) ==
  Sets!Max({n \in 0 .. Len(bytes) : \A i \in Len(bytes) - n + 1 .. Len(bytes) : IsBlank(bytes[i])})

TrimLeadingWhitespace(mem, s) ==
  IF s.Ptr = NULL \/ s.Len = 0 THEN s
  ELSE LET k == Leading(BytesOf(mem, s)) IN Str(s.Ptr + k, s.Len - k)

TrimTrailingWhitespace(mem, s) ==
  IF s.Ptr = NULL \/ s.Len = 0 THEN s
  ELSE Str(s.Ptr, s.Len - Trailing(BytesOf(mem, s)))

TrimWhitespace(mem, s) == TrimTrailingWhitespace(mem, TrimLeadingWhitespace(mem, s))

(* RemoveWhitespace moves what is left to the front, in the same memory.   *)
NotBlank(bytes) == {i \in DOMAIN bytes : ~IsBlank(bytes[i])}
Nth(S, k) == CHOOSE i \in S : Cardinality({j \in S : j <= i}) = k
Squeezed(mem, s) ==
  LET bytes == BytesOf(mem, s)
  IN [k \in 1 .. Cardinality(NotBlank(bytes)) |-> bytes[Nth(NotBlank(bytes), k)]]
MemorySqueezed(mem, s) ==
  LET left == Squeezed(mem, s)
  IN [a \in DOMAIN mem |->
        IF a \in s.Ptr .. s.Ptr + Len(left) - 1 THEN left[a - s.Ptr + 1] ELSE mem[a]]
=============================================================================
